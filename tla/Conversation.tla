---------------------------- MODULE Conversation ----------------------------
(***************************************************************************)
(* What rounds of the agent do to a conversation (runAgentLoop,            *)
(* runLLMIteration, forceCompression, maybeSummarize and summarizeSession  *)
(* of pkg/agent/loop.go) over the session manager.  A round of Run and one *)
(* of the cron service may overlap: rounds for sub-agents' results take no *)
(* lock, and a lock may expire (module AgentRounds).  The summary is made  *)
(* by a goroutine of its own.                                              *)
(***************************************************************************)
EXTENDS Sessions, FiniteSets

CONSTANTS
    CvRounds,      \* bound: rounds that are started
    CvIterations,  \* agent.MaxIterations
    CvRetries,     \* maxRetries of one call of the model
    CvTail,        \* messages that a summary leaves and a compression needs, 4 in the code
    CvThreshold,   \* agent.SummarizeMessageThreshold
    CvBatch,       \* messages that are summarised in one call, 10 in the code
    CvOversized,   \* numbers of the messages too long for a summary
    CvMishaps      \* bound: saves that fail, restarts and prompts that are too long

CvGoroutines == {"loop", "cron"}

VARIABLES
    cvRound,       \* goroutine -> its round: [pc, iter, retry, seen]
    cvSummarizer,  \* al.summarizing and the goroutine behind it: [pc, seen, text]
    cvCount,       \* rounds and mishaps so far
    cvAll,         \* history: every message ever added
    cvGivenUp,     \* history: messages given up on purpose, or with the process
    cvLate,        \* history: messages added inside a read and replacement
    cvOverlapped,  \* history: two rounds were under way at once
    cvCut          \* history: a restart has taken back part of a round

cvHistory == <<cvAll, cvGivenUp, cvLate, cvOverlapped, cvCut>>
cvVars == <<sessVars, cvRound, cvSummarizer, cvCount, cvHistory>>

CvIdle == [pc |-> "idle", iter |-> 0, retry |-> 0, seen |-> <<>>]
CvAtRest == [pc |-> "idle", seen |-> <<>>, text |-> {}]

CvInit ==
    /\ SessInit
    /\ cvRound = [g \in CvGoroutines |-> CvIdle]
    /\ cvSummarizer = CvAtRest
    /\ cvCount = [rounds |-> 0, mishaps |-> 0]
    /\ cvAll = {}
    /\ cvGivenUp = {}
    /\ cvLate = 0
    /\ cvOverlapped = FALSE
    /\ cvCut = FALSE

CvAt(g, pc) == cvRound[g].pc = pc

CvGo(g, pc) == cvRound' = [cvRound EXCEPT ![g].pc = pc]

(* A read of the conversation whose replacement is still to come. *)
Replacing ==
    \/ cvSummarizer.pc \in {"think", "set", "truncate"}
    \/ \E g \in CvGoroutines : CvAt(g, "replace")

CvAdd(role, call) ==
    LET m == [n |-> Cardinality(cvAll) + 1, role |-> role, call |-> call] IN
    /\ SessAdd(m)
    /\ cvAll' = cvAll \cup {m}
    /\ cvLate' = IF Replacing THEN cvLate + 1 ELSE cvLate
    /\ UNCHANGED <<cvSummarizer, cvGivenUp>>

---------------------------------------------------------------------------
CvStart(g) ==
    /\ CvAt(g, "idle")
    /\ cvCount.rounds < CvRounds
    /\ cvCount' = [cvCount EXCEPT !.rounds = @ + 1]
    /\ cvOverlapped' = (cvOverlapped \/ \E h \in CvGoroutines \ {g} : ~CvAt(h, "idle"))
    /\ UNCHANGED cvCut

(* runAgentLoop: a mission that was begun elsewhere seeds an empty          *)
(* conversation with its checkpoint, the system prompt included;           *)
SeedFromCheckpoint(g) ==
    LET next == Cardinality(cvAll)
        message(i, role, call) == [n |-> next + i, role |-> role, call |-> call]
        checkpoint == <<message(1, "system", FALSE), message(2, "user", FALSE),
                        message(3, "assistant", TRUE), message(4, "tool", FALSE)>>
    IN  /\ CvStart(g)
        /\ sessMessages = <<>>
        /\ SessSetHistory(checkpoint)
        /\ cvAll' = cvAll \cup ToSet(checkpoint)
        /\ CvGo(g, "begin")
        /\ UNCHANGED <<cvSummarizer, cvGivenUp, cvLate>>

(* then comes the user's message. *)
AddUserMessage(g) ==
    /\ CvStart(g) \/ (CvAt(g, "begin") /\ UNCHANGED <<cvCount, cvOverlapped, cvCut>>)
    /\ CvAdd("user", FALSE)
    /\ CvGo(g, "call")

(* runLLMIteration: a call of the model, *)
Calling(g) == CvAt(g, "call") /\ cvRound[g].iter < CvIterations

AskTool(g) ==
    /\ Calling(g)
    /\ CvAdd("assistant", TRUE)
    /\ cvRound' = [cvRound EXCEPT ![g] = [CvIdle EXCEPT !.pc = "tool", !.iter = cvRound[g].iter + 1]]
    /\ UNCHANGED <<cvCount, cvOverlapped, cvCut>>

(* the results of the tools, which run and are waited for,                 *)
AddToolResult(g) ==
    /\ CvAt(g, "tool")
    /\ CvAdd("tool", FALSE)
    /\ CvGo(g, "call")
    /\ UNCHANGED <<cvCount, cvOverlapped, cvCut>>

(* or an error that ends the round: what it added is not saved.            *)
CallFails(g) ==
    /\ Calling(g)
    /\ cvRound' = [cvRound EXCEPT ![g] = CvIdle]
    /\ SessBehind("unsaved")
    /\ UNCHANGED <<cvSummarizer, cvCount, cvHistory>>

(* One of the mishaps that are counted. *)
CvMishap ==
    /\ cvCount.mishaps < CvMishaps
    /\ cvCount' = [cvCount EXCEPT !.mishaps = @ + 1]

(* The prompt is too long: forceCompression reads the conversation, *)
ReadForCompression(g) ==
    /\ Calling(g)
    /\ cvRound[g].retry < CvRetries /\ CvMishap
    /\ IF Len(sessMessages) > CvTail
         THEN cvRound' = [cvRound EXCEPT ![g].pc = "replace", ![g].seen = sessMessages, ![g].retry = @ + 1]
         ELSE cvRound' = [cvRound EXCEPT ![g].retry = @ + 1]
    /\ UNCHANGED <<sessVars, cvSummarizer, cvHistory>>

(* keeps the first message, the second half of those between and the last, *)
Compressed(h) ==
    LET n == Len(h) IN <<h[1]>> \o SubSeq(h, 2 + (n - 2) \div 2, n)

(* and replaces whatever is there by now.  It is saved then, and the round *)
(* goes on with what is left.                                              *)
ReplaceHistory(g) ==
    /\ CvAt(g, "replace")
    /\ SessSetHistory(Compressed(cvRound[g].seen))
    /\ cvGivenUp' = cvGivenUp \cup (ToSet(cvRound[g].seen) \ ToSet(Compressed(cvRound[g].seen)))
    /\ cvRound' = [cvRound EXCEPT ![g].pc = "keep", ![g].seen = <<>>]
    /\ UNCHANGED <<cvSummarizer, cvCount, cvAll, cvLate, cvOverlapped, cvCut>>

(* The answer, or the default one when no iteration is left. *)
AddAnswer(g) ==
    /\ CvAt(g, "call")
    /\ CvAdd("assistant", FALSE)
    /\ CvGo(g, "save")
    /\ UNCHANGED <<cvCount, cvOverlapped, cvCut>>

TakeSnapshot(g) ==
    /\ cvRound[g].pc \in {"save", "keep"}
    /\ SessSnapshot(g)
    /\ CvGo(g, IF CvAt(g, "save") THEN "rename" ELSE "rekeep")
    /\ UNCHANGED <<cvSummarizer, cvCount, cvHistory>>

CvFinishSave(s) ==
    \/ SessRename(s) /\ UNCHANGED cvCount
    \/ /\ CvMishap
       /\ SessSaveFails(s)

FinishSave(g) ==
    /\ cvRound[g].pc \in {"rename", "rekeep"}
    /\ CvFinishSave(g)
    /\ CvGo(g, IF CvAt(g, "rename") THEN "after" ELSE "call")
    /\ UNCHANGED <<cvSummarizer, cvHistory>>

---------------------------------------------------------------------------
(* maybeSummarize, which rounds of sub-agents' results leave out; one      *)
(* summary of a conversation at a time.                                    *)
MaybeSummarize(g) ==
    /\ CvAt(g, "after")
    /\ \/ /\ Len(sessMessages) > CvThreshold
          /\ cvSummarizer.pc = "idle"
          /\ cvSummarizer' = [CvAtRest EXCEPT !.pc = "read"]
       \/ UNCHANGED cvSummarizer
    /\ cvRound' = [cvRound EXCEPT ![g] = CvIdle]
    /\ UNCHANGED <<sessVars, cvCount, cvHistory>>

(* What a summary replaces: the users' and assistants' words but the last. *)
Words(h) == {m \in ToSet(AllBut(h, CvTail)) : m.role \in {"user", "assistant"}}

(* The Oversized Message Guard leaves out what is longer than half of the  *)
(* context window, though it is truncated with the rest.                   *)
Worth(h) == {m \in Words(h) : m.n \notin CvOversized}

ReadForSummary ==
    /\ cvSummarizer.pc = "read"
    /\ cvSummarizer' = IF Worth(sessMessages) = {} THEN CvAtRest
                       ELSE [CvAtRest EXCEPT !.pc = "think", !.seen = sessMessages]
    /\ UNCHANGED <<sessVars, cvRound, cvCount, cvHistory>>

FirstHalf(worth) ==
    {m \in worth : Cardinality({k \in worth : k.n < m.n}) < Cardinality(worth) \div 2}

(* What the text stands for.  One batch goes on from the summary so far.   *)
(* Two halves do not, and a half that fails is left out of what is merged, *)
(* both too if merging fails.  Over the daily budget a text is the refusal,*)
(* which says nothing of the conversation.                                 *)
Texts(worth) ==
    IF Cardinality(worth) > CvBatch
      THEN {worth, FirstHalf(worth), worth \ FirstHalf(worth), {}}
      ELSE {worth \cup sessSummary, {}}

(* Fault: the summary so far is not among what is summarised. *)
SummariseAfresh ==
    LET worth == Words(cvSummarizer.seen) IN
    /\ cvSummarizer.pc = "think"
    /\ cvSummarizer' = [cvSummarizer EXCEPT !.pc = "set", !.text = worth]
    /\ UNCHANGED <<sessVars, cvRound, cvCount, cvHistory>>

(* The model's summary. *)
Summarise ==
    LET seen == cvSummarizer.seen IN
    /\ cvSummarizer.pc = "think"
    /\ \E text \in Texts(Worth(seen)) :
           /\ cvSummarizer' = [cvSummarizer EXCEPT !.pc = "set", !.text = text]
           /\ cvGivenUp' = cvGivenUp \cup ((Words(seen) \cup sessSummary) \ text)
    /\ UNCHANGED <<sessVars, cvRound, cvCount, cvAll, cvLate, cvOverlapped, cvCut>>

(* Without a text nothing is stored. *)
SummaryFails ==
    /\ cvSummarizer.pc = "think"
    /\ cvSummarizer' = CvAtRest
    /\ UNCHANGED <<sessVars, cvRound, cvCount, cvHistory>>

StoreSummary ==
    /\ cvSummarizer.pc = "set"
    /\ SessSetSummary(cvSummarizer.text)
    /\ cvSummarizer' = [CvAtRest EXCEPT !.pc = "truncate"]
    /\ UNCHANGED <<cvRound, cvCount, cvHistory>>

Truncate ==
    /\ cvSummarizer.pc = "truncate"
    /\ SessTruncate(CvTail)
    /\ cvSummarizer' = [CvAtRest EXCEPT !.pc = "save"]
    /\ UNCHANGED <<cvRound, cvCount, cvHistory>>

SaveSummary ==
    /\ \/ /\ cvSummarizer.pc = "save"
          /\ SessSnapshot("summarizer")
          /\ cvSummarizer' = [CvAtRest EXCEPT !.pc = "rename"]
          /\ UNCHANGED cvCount
       \/ /\ cvSummarizer.pc = "rename"
          /\ CvFinishSave("summarizer")
          /\ cvSummarizer' = CvAtRest
    /\ UNCHANGED <<cvRound, cvHistory>>

(* The process ends and starts again from the file. *)
CvCrash ==
    /\ CvMishap
    /\ SessLoad
    /\ cvRound' = [g \in CvGoroutines |-> CvIdle]
    /\ cvSummarizer' = CvAtRest
    /\ cvGivenUp' = cvGivenUp \cup (cvAll \ (ToSet(sessFile.messages) \cup sessFile.summary))
    /\ cvCut' = (cvCut \/ sessFile.messages # sessMessages \/ \E g \in CvGoroutines : ~CvAt(g, "idle"))
    /\ UNCHANGED <<cvAll, cvLate, cvOverlapped>>

---------------------------------------------------------------------------
CvMessages == [n : Nat, role : {"system", "user", "assistant", "tool"}, call : BOOLEAN]

CvTypeOK ==
    /\ sessMessages \in Seq(CvMessages)
    /\ sessSummary \subseteq CvMessages
    /\ sessFile \in [messages : Seq(CvMessages), summary : SUBSET CvMessages]
    /\ \A s \in Savers : sessSaving[s].messages \in Seq(CvMessages)
    /\ \A g \in CvGoroutines :
           cvRound[g].pc \in {"idle", "begin", "call", "tool", "replace", "keep", "rekeep", "save", "rename", "after"}
    /\ cvSummarizer.pc \in {"idle", "read", "think", "set", "truncate", "save", "rename"}
    /\ cvAll \subseteq CvMessages

(* What the conversation no longer holds is in the summary, but for what   *)
(* has been given up: by a compression, as oversized, by a summary of two  *)
(* halves, one that half failed or one over the budget, or by a restart;   *)
(* and for at most as many messages as arrived inside a read and           *)
(* replacement (summarizeSession loop.go:1836, forceCompression :1667).    *)
ForgottenAreLate ==
    LET kept == ToSet(sessMessages) \cup sessSummary \cup cvGivenUp
    IN  Cardinality({m \in cvAll : m.role \in {"user", "assistant"}} \ kept) <= cvLate

(* In what the model is shown, every request for a tool is followed by its *)
(* result, but for that of the round under way, as long as rounds do not   *)
(* overlap and no restart has taken part of one back (a summary may save   *)
(* in the middle of a round); providers refuse anything else               *)
(* (sanitizeHistoryForProvider, context.go:615).                           *)
CallsAnswered ==
    LET shown == Sanitize(sessMessages)
        open == {i \in DOMAIN shown : shown[i].call /\ (i = Len(shown) \/ shown[i + 1].role # "tool")}
    IN  ~cvOverlapped /\ ~cvCut =>
            open = {} \/ (open = {Len(shown)} /\ \E g \in CvGoroutines : CvAt(g, "tool"))

(* When nothing is under way the file is what is in memory, unless the     *)
(* last round failed, or the last saves overlapped, or the last failed.    *)
FileCurrentAtRest ==
    (\A g \in CvGoroutines : CvAt(g, "idle")) /\ cvSummarizer.pc = "idle" /\ sessBlemish = {}
        => sessFile = [messages |-> sessMessages, summary |-> sessSummary]

---------------------------------------------------------------------------
CvRoundStep(g) ==
    \/ SeedFromCheckpoint(g) \/ AddUserMessage(g) \/ AskTool(g) \/ AddToolResult(g)
    \/ CallFails(g) \/ ReadForCompression(g) \/ ReplaceHistory(g) \/ AddAnswer(g)
    \/ TakeSnapshot(g) \/ FinishSave(g) \/ MaybeSummarize(g)

CvSummarizerStep ==
    ReadForSummary \/ Summarise \/ SummaryFails \/ StoreSummary \/ Truncate \/ SaveSummary

CvNext ==
    \/ \E g \in CvGoroutines : CvRoundStep(g)
    \/ CvSummarizerStep
    \/ CvCrash

CvSpec == CvInit /\ [][CvNext]_cvVars

(* What a conversation forgets came too late for its summary, calls of     *)
(* tools are followed by their answers, and a file is behind at rest only  *)
(* for a known reason (loop.go, session/manager.go).                       *)
ConversationSafe ==
    /\ CvTypeOK
    /\ ForgottenAreLate
    /\ CallsAnswered
    /\ FileCurrentAtRest
=============================================================================
