------------------------------- MODULE Store -------------------------------
(***************************************************************************)
(* The Store interface of pkg/memory/store.go for one session: "each       *)
(* method is an atomic operation".  Reading, summaries and Compact leave   *)
(* the history as it is.                                                   *)
(***************************************************************************)
EXTENDS Naturals, Sequences, SequencesExt

CONSTANT Messages

VARIABLE history    \* what GetHistory returns, in insertion order

Init == history = <<>>

(* AddMessage, AddFullMessage. *)
AddMessage == \E m \in Messages : history' = Append(history, m)

(* TruncateHistory keeps the last keepLast messages, or none. *)
TruncateHistory ==
    \E keepLast \in 0..Len(history) :
        history' = SubSeq(history, Len(history) - keepLast + 1, Len(history))

(* SetHistory with a part of the history, as its callers do. *)
SetHistory ==
    \E kept \in SUBSET ToSet(history) :
        LET Kept(m) == m \in kept IN history' = SelectSeq(history, Kept)

Next == AddMessage \/ TruncateHistory \/ SetHistory

Spec == Init /\ [][Next]_history
=============================================================================
