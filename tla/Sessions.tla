------------------------------ MODULE Sessions ------------------------------
(***************************************************************************)
(* One conversation of the session manager (pkg/session/manager.go) and    *)
(* its file.  Conversations share nothing but the manager's lock, so one   *)
(* key is enough.  A method that holds the lock throughout is one step;    *)
(* Save copies under the read lock and renames after releasing it, so it   *)
(* is two.  A message is a record of its number in the order of arrival,   *)
(* its role, and whether an assistant's message asks for a tool.           *)
(***************************************************************************)
EXTENDS Naturals, Sequences, SequencesExt

CONSTANT Savers  \* goroutines that may call Save

VARIABLES
    sessMessages,  \* session.Messages
    sessSummary,   \* session.Summary: the messages its text is about
    sessFile,      \* the JSON file, [messages, summary]
    sessSaving,    \* saver -> the snapshot between its two steps, or NoSnapshot
    sessBlemish    \* history: why the file may be behind, see SessSnapshot

sessVars == <<sessMessages, sessSummary, sessFile, sessSaving, sessBlemish>>

NoSnapshot == [messages |-> <<>>, summary |-> {}, taken |-> FALSE]

SessInit ==
    /\ sessMessages = <<>>
    /\ sessSummary = {}
    /\ sessFile = [messages |-> <<>>, summary |-> {}]
    /\ sessSaving = [s \in Savers |-> NoSnapshot]
    /\ sessBlemish = {}

SessAdd(m) ==
    /\ sessMessages' = Append(sessMessages, m)
    /\ UNCHANGED <<sessSummary, sessFile, sessSaving, sessBlemish>>

SessSetHistory(h) ==
    /\ sessMessages' = h
    /\ UNCHANGED <<sessSummary, sessFile, sessSaving, sessBlemish>>

SessSetSummary(s) ==
    /\ sessSummary' = s
    /\ UNCHANGED <<sessMessages, sessFile, sessSaving, sessBlemish>>

(* Operators on sequences that the callers and the methods share. *)
KeepLast(h, n) == IF Len(h) <= n THEN h ELSE SubSeq(h, Len(h) - n + 1, Len(h))

AllBut(h, n) == IF Len(h) <= n THEN <<>> ELSE SubSeq(h, 1, Len(h) - n)

SessTruncate(n) ==
    /\ sessMessages' = KeepLast(sessMessages, n)
    /\ UNCHANGED <<sessSummary, sessFile, sessSaving, sessBlemish>>

(* History: the file is behind what was added. *)
SessBehind(why) ==
    /\ sessBlemish' = sessBlemish \cup {why}
    /\ UNCHANGED <<sessMessages, sessSummary, sessFile, sessSaving>>

(* Save: the copy under the read lock.  It makes up for earlier calls that *)
(* were not made or failed, but two saves under way may end in any order.  *)
SessSnapshot(s) ==
    /\ sessSaving' = [sessSaving EXCEPT ![s] =
           [messages |-> sessMessages, summary |-> sessSummary, taken |-> TRUE]]
    /\ sessBlemish' = IF \E t \in Savers \ {s} : sessSaving[t].taken THEN {"raced"} ELSE {}
    /\ UNCHANGED <<sessMessages, sessSummary, sessFile>>

(* Then the temporary file takes the place of the old one, *)
SessRename(s) ==
    /\ sessFile' = [messages |-> sessSaving[s].messages, summary |-> sessSaving[s].summary]
    /\ sessSaving' = [sessSaving EXCEPT ![s] = NoSnapshot]
    /\ UNCHANGED <<sessMessages, sessSummary, sessBlemish>>

(* or a step fails and it is removed; the callers ignore the error. *)
SessSaveFails(s) ==
    /\ sessSaving' = [sessSaving EXCEPT ![s] = NoSnapshot]
    /\ sessBlemish' = sessBlemish \cup {"failed"}
    /\ UNCHANGED <<sessMessages, sessSummary, sessFile>>

(* A new process reads the file. *)
SessLoad ==
    /\ sessMessages' = sessFile.messages
    /\ sessSummary' = sessFile.summary
    /\ sessSaving' = [s \in Savers |-> NoSnapshot]
    /\ sessBlemish' = {}
    /\ UNCHANGED sessFile

---------------------------------------------------------------------------
(* What the model is shown of a history                                    *)
(* (sanitizeHistoryForProvider, pkg/agent/context.go): a tool result whose *)
(* request has been cut off, a request without a question before it, and a *)
(* system prompt, of which the messages have one already, are left out.    *)
EndsWithCall(h) ==
    LET i == SelectLastInSeq(h, LAMBDA m : m.role # "tool") IN i # 0 /\ h[i].call

Admitted(h, m) ==
    CASE m.role = "tool" -> EndsWithCall(h)
      [] m.role = "assistant" /\ m.call -> h # <<>> /\ Last(h).role \in {"user", "tool"}
      [] OTHER -> m.role # "system"

Sanitize(h) == FoldLeft(LAMBDA kept, m : IF Admitted(kept, m) THEN Append(kept, m) ELSE kept, <<>>, h)
=============================================================================
