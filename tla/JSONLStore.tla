---------------------------- MODULE JSONLStore ----------------------------
(***************************************************************************)
(* pkg/memory/jsonl.go: one session's pair of files.  The .jsonl file is   *)
(* appended to and synced; the .meta.json file, of which only `skip` is    *)
(* ever read back for a decision, is replaced atomically.  A writer holds  *)
(* the mutex of its key's shard from the first to the last step of a call; *)
(* two keys can name the same files ("telegram:1", "telegram_1") and hash  *)
(* to different shards.                                                    *)
(*                                                                         *)
(* A power loss keeps what was synced and any part of an append that was   *)
(* not.  A line without its newline is read as a line, but the next append *)
(* is written behind it, and the two together are no JSON value.           *)
(***************************************************************************)
EXTENDS Integers, Sequences, FiniteSets, SequencesExt

CONSTANTS Writers,      \* goroutines that use the session
          Shard,        \* writer -> the lock shard of the key it uses
          MaxMessages,  \* bound: messages added
          MaxKeep,      \* bound: largest keepLast
          MaxCrashes,   \* bound: power losses
          MaxFaults     \* bound: writes that fail without a power loss

ASSUME JsAssumption == {MaxMessages, MaxKeep, MaxCrashes, MaxFaults} \subseteq Nat

Junk == 0   \* a line json.Unmarshal refuses; messages are numbered from 1

VARIABLES
    file,     \* the .jsonl file as readers see it: [lines, torn]
    disk,     \* what a power loss is sure to keep of it
    skip,     \* meta.Skip
    pc,       \* writer -> "idle", "append", "sync", "meta", "rewrite"
    call,     \* writer -> the call it is in: [op, msg, skip, lines]
    next,     \* number of the next message
    acked,    \* history: messages whose AddMessage returned no error
    gone,     \* history: messages a removing call has hidden or dropped
    tears,    \* history: how often the file got a line without newline
    crashes,  \* power losses so far
    faults    \* failed writes so far

vars == <<file, disk, skip, pc, call, next, acked, gone, tears, crashes, faults>>

Empty == [lines |-> <<>>, torn |-> FALSE]
Called(o, m, s, l) == [op |-> o, msg |-> m, skip |-> s, lines |-> l]
NoCall == Called("none", 0, 0, <<>>)

Init ==
    /\ file = Empty
    /\ disk = Empty
    /\ skip = 0
    /\ pc = [w \in Writers |-> "idle"]
    /\ call = [w \in Writers |-> NoCall]
    /\ next = 1
    /\ acked = {}
    /\ gone = {}
    /\ tears = 0
    /\ crashes = 0
    /\ faults = 0

---------------------------------------------------------------------------
(* f.Write(line): behind a torn line it only makes that line longer.       *)
Behind(f, line, torn) ==
    [lines |-> IF f.torn THEN Append(Front(f.lines), Junk) ELSE Append(f.lines, line),
     torn |-> torn]

WithLine(f, m) == Behind(f, m, FALSE)  \* all of it
WithPart(f) == Behind(f, Junk, TRUE)   \* not enough of it to be read

(* GetHistory: readMessages passes over `skip` lines, then over junk.      *)
History(f, s) ==
    LET kept == {i \in s + 1..Len(f.lines) : f.lines[i] # Junk}
        nth(n) == CHOOSE i \in kept : Cardinality({j \in kept : j <= i}) = n
    IN [n \in 1..Cardinality(kept) |-> f.lines[nth(n)]]
Visible == ToSet(History(file, skip))
Hidden(s) == {file.lines[i] : i \in {j \in 1..Len(file.lines) : j <= s}}

(* sessionLock: the mutex of the shard is held during the whole call.      *)
Unlocked(w) == \A v \in Writers : Shard[v] = Shard[w] => pc[v] = "idle"

Return(w) ==
    /\ pc' = [pc EXCEPT ![w] = "idle"]
    /\ call' = [call EXCEPT ![w] = NoCall]

Enter(w, at, c) ==
    /\ Unlocked(w)
    /\ pc' = [pc EXCEPT ![w] = at]
    /\ call' = [call EXCEPT ![w] = c]

---------------------------------------------------------------------------
(* addMsg *)
BeginAdd(w) ==
    /\ next <= MaxMessages
    /\ Enter(w, "append", Called("add", next, 0, <<>>))
    /\ next' = next + 1
    /\ UNCHANGED <<file, disk, skip, acked, gone, tears, crashes, faults>>

AppendLine(w) ==
    /\ pc[w] = "append"
    /\ file' = WithLine(file, call[w].msg)
    /\ pc' = [pc EXCEPT ![w] = "sync"]
    /\ UNCHANGED <<disk, skip, call, next, acked, gone, tears, crashes, faults>>

(* f.Write reports an error after a part of the line (a full disk).  That a *)
(* line lacks its newline only is among what a power loss may leave.       *)
AppendFails(w) ==
    /\ pc[w] = "append"
    /\ faults < MaxFaults
    /\ faults' = faults + 1
    /\ \/ UNCHANGED <<file, tears>>
       \/ file' = WithPart(file) /\ tears' = tears + 1
    /\ Return(w)
    /\ UNCHANGED <<disk, skip, next, acked, gone, crashes>>

(* f.Sync or f.Close reports an error: the line is there, but not for sure. *)
SyncFails(w) ==
    /\ pc[w] = "sync"
    /\ faults < MaxFaults
    /\ faults' = faults + 1
    /\ Return(w)
    /\ UNCHANGED <<file, disk, skip, next, acked, gone, tears, crashes>>

(* Fault: the file is closed without f.Sync. *)
SyncForgotten(w) ==
    /\ pc[w] = "sync"
    /\ pc' = [pc EXCEPT ![w] = "meta"]
    /\ call' = [call EXCEPT ![w].skip = skip]
    /\ UNCHANGED <<file, disk, skip, next, acked, gone, tears, crashes, faults>>

(* f.Sync, f.Close, readMeta. *)
SyncLine(w) ==
    /\ pc[w] = "sync"
    /\ disk' = file
    /\ pc' = [pc EXCEPT ![w] = "meta"]
    /\ call' = [call EXCEPT ![w].skip = skip]
    /\ UNCHANGED <<file, skip, next, acked, gone, tears, crashes, faults>>

---------------------------------------------------------------------------
(* The other calls read the metadata, and the file where they need it,     *)
(* before they write anything.                                             *)
BeginSetSummary(w) ==
    /\ Enter(w, "meta", Called("summary", 0, skip, <<>>))
    /\ UNCHANGED <<file, disk, skip, next, acked, gone, tears, crashes, faults>>

(* Fault: the lines hidden already are not counted.                        *)
SkipForAll(keep) ==
    LET n == Len(file.lines) IN
    IF keep = 0 THEN n ELSE IF keep < n THEN n - keep ELSE skip

(* Lines are counted afresh, junk included; keepLast = 0 hides all.        *)
SkipFor(keep) ==
    LET n == Len(file.lines) IN
    IF keep = 0 THEN n ELSE IF keep < n - skip THEN n - keep ELSE skip

BeginTruncate(w, keep) ==
    /\ Enter(w, "meta", Called("truncate", 0, SkipFor(keep), <<>>))
    /\ UNCHANGED <<file, disk, skip, next, acked, gone, tears, crashes, faults>>

(* SetHistory.  Callers pass nothing, or the history without one message.  *)
Replacements ==
    LET h == History(file, skip) IN
    {<<>>} \cup {RemoveAt(h, i) : i \in 1..Len(h)}

BeginSetHistory(w, lines) ==
    /\ Enter(w, "meta", Called("set", 0, 0, lines))
    /\ UNCHANGED <<file, disk, skip, next, acked, gone, tears, crashes, faults>>

BeginCompact(w) ==
    /\ skip # 0
    /\ Enter(w, "meta", Called("compact", 0, 0, History(file, skip)))
    /\ UNCHANGED <<file, disk, skip, next, acked, gone, tears, crashes, faults>>

(* writeMeta.  It completes addMsg, SetSummary and TruncateHistory, and    *)
(* comes before the rewrite of SetHistory and Compact.                     *)
WriteMeta(w) ==
    /\ pc[w] = "meta"
    /\ skip' = call[w].skip
    /\ acked' = IF call[w].op = "add" THEN acked \cup {call[w].msg} ELSE acked
    /\ gone' = gone \cup (CASE call[w].op = "truncate" -> Hidden(call[w].skip)
                            [] call[w].op = "set" -> ToSet(file.lines) \ ToSet(call[w].lines)
                            [] OTHER -> {})
    /\ IF call[w].op \in {"set", "compact"}
       THEN pc' = [pc EXCEPT ![w] = "rewrite"] /\ UNCHANGED call
       ELSE Return(w)
    /\ UNCHANGED <<file, disk, next, tears, crashes, faults>>

(* rewriteJSONL: WriteFileAtomic puts a new, synced file in place. *)
Rewrite(w) ==
    /\ pc[w] = "rewrite"
    /\ file' = [lines |-> call[w].lines, torn |-> FALSE]
    /\ disk' = [lines |-> call[w].lines, torn |-> FALSE]
    /\ gone' = IF call[w].op = "set" THEN gone \cup (ToSet(file.lines) \ ToSet(call[w].lines)) ELSE gone
    /\ Return(w)
    /\ UNCHANGED <<skip, next, acked, tears, crashes, faults>>

(* WriteFileAtomic reports an error and leaves the old file. *)
ReplaceFails(w) ==
    /\ pc[w] \in {"meta", "rewrite"}
    /\ faults < MaxFaults
    /\ faults' = faults + 1
    /\ Return(w)
    /\ UNCHANGED <<file, disk, skip, next, acked, gone, tears, crashes>>

---------------------------------------------------------------------------
(* Power loss: of what was not synced any beginning may remain, cut behind *)
(* a newline, before a newline, or inside a line.                          *)
Survivors ==
    LET Cut(k) == SubSeq(file.lines, 1, k)
        First == IF disk.torn THEN Len(disk.lines) ELSE Len(disk.lines) + 1
    IN {disk, file} \cup
       (IF file = disk THEN {} ELSE UNION {
          {[lines |-> Cut(k), torn |-> TRUE], [lines |-> [Cut(k) EXCEPT ![k] = Junk], torn |-> TRUE]} \cup
          (IF k < Len(file.lines) THEN {[lines |-> Cut(k), torn |-> FALSE]} ELSE {})
          : k \in First..Len(file.lines)})

Crash ==
    /\ crashes < MaxCrashes
    /\ crashes' = crashes + 1
    /\ \E f \in Survivors :
          /\ file' = f
          /\ disk' = f
          /\ tears' = IF f.torn /\ f # disk /\ f # file THEN tears + 1 ELSE tears
    /\ pc' = [w \in Writers |-> "idle"]
    /\ call' = [w \in Writers |-> NoCall]
    /\ UNCHANGED <<skip, next, acked, gone, faults>>

Next ==
    \/ \E w \in Writers :
          \/ BeginAdd(w) \/ AppendLine(w) \/ AppendFails(w) \/ SyncLine(w) \/ SyncFails(w)
          \/ BeginSetSummary(w)
          \/ \E keep \in 0..MaxKeep : BeginTruncate(w, keep)
          \/ \E lines \in Replacements : BeginSetHistory(w, lines)
          \/ BeginCompact(w)
          \/ WriteMeta(w) \/ Rewrite(w) \/ ReplaceFails(w)
    \/ Crash

Spec == Init /\ [][Next]_vars

---------------------------------------------------------------------------
AnyLine == 0..MaxMessages
File == [lines : Seq(AnyLine), torn : BOOLEAN]

(* Type correctness: a torn file has a last line, and only the calls that  *)
(* rewrite the file carry lines.                                           *)
TypeOK ==
    /\ file \in File
    /\ disk \in File
    /\ file.torn => file.lines # <<>>
    /\ disk.torn => disk.lines # <<>>
    /\ skip \in Nat
    /\ pc \in [Writers -> {"idle", "append", "sync", "meta", "rewrite"}]
    /\ call \in [Writers -> [op : {"none", "add", "summary", "truncate", "set", "compact"},
                             msg : AnyLine, skip : Nat, lines : Seq(AnyLine)]]
    /\ next \in 1..MaxMessages + 1
    /\ acked \in SUBSET (1..MaxMessages)
    /\ gone \in SUBSET (0..MaxMessages)
    /\ tears \in Nat
    /\ crashes \in 0..MaxCrashes
    /\ faults \in 0..MaxFaults

(* The offset never points behind the end of the file, where it would hide *)
(* messages still to come.  Only a failed write that a power loss takes    *)
(* back can move it there, by one line each.                               *)
SkipInFile == skip <= Len(file.lines) + faults

live == acked \ gone

(* One torn write, or one failed call, costs at most one acknowledged      *)
(* message, whatever crashes in the middle of a truncation, a rewrite or a *)
(* compaction.                                                             *)
LossBounded == Cardinality(live \ Visible) <= tears + faults

(* GetHistory "returns all messages for a session in insertion order"      *)
(* (store.go): no message twice, none before an older one, not even among  *)
(* the truncated ones that a crash brings back.                            *)
InsertionOrder ==
    LET h == History(file, skip) IN
    \A i, j \in 1..Len(h) : i < j => h[i] < h[j]

(* The interface of store.go: what a session holds changes in one step per *)
(* call.  A rewrite that has written its metadata holds the lock until its *)
(* new lines are there, so nobody can tell that they are not yet.          *)
Held ==
    LET Rewriting == {w \in Writers : pc[w] = "rewrite"} IN
    IF Rewriting = {} THEN History(file, skip)
    ELSE call[CHOOSE w \in Rewriting : TRUE].lines

S == INSTANCE Store WITH Messages <- 1..MaxMessages, history <- Held

(* With every user of a session on one lock, the files implement the       *)
(* interface until the first crash or failing write: a truncation, a       *)
(* rewrite or a compaction, with its several writes, is one step of it.    *)
ImplementsStore == S!Init /\ [][crashes' + faults' = 0 => S!Next \/ UNCHANGED Held]_vars


(* The skip count stays within the file, a crash takes no acknowledged     *)
(* message and a fault one line, and lines keep their order (jsonl.go).    *)
StoreSafe == TypeOK /\ SkipInFile /\ LossBounded /\ InsertionOrder
=============================================================================
