---------------------------- MODULE Mailboxes ----------------------------
(***************************************************************************)
(* What users of the message bus may rely on, without its two-stage close: *)
(* bounded FIFO mailboxes that admit publishers while they are open, take  *)
(* at most one message for each admission, hand messages over in order     *)
(* and throw messages away only after they were shut.  A publisher that    *)
(* was admitted in time may still get its message in after the shutting.   *)
(***************************************************************************)
EXTENDS Integers, Sequences

CONSTANTS Publishers, Topics, Capacity

VARIABLES open,      \* are new publishers admitted?
          admitted,  \* publishers whose call is under way
          pending,   \* topic -> accepted messages in order of acceptance
          lost       \* was an accepted message thrown away?

vars == <<open, admitted, pending, lost>>

Init ==
    /\ open = TRUE
    /\ admitted = {}
    /\ pending = [t \in Topics |-> <<>>]
    /\ lost = FALSE

Admit(p) ==
    /\ open
    /\ p \notin admitted
    /\ admitted' = admitted \cup {p}
    /\ UNCHANGED <<open, pending, lost>>

Accept(p, t) ==
    /\ p \in admitted
    /\ Len(pending[t]) < Capacity
    /\ pending' = [pending EXCEPT ![t] = Append(@, p)]
    /\ admitted' = admitted \ {p}
    /\ UNCHANGED <<open, lost>>

Refuse(p) ==
    /\ p \in admitted
    /\ admitted' = admitted \ {p}
    /\ UNCHANGED <<open, pending, lost>>

HandOver(t) ==
    /\ pending[t] # <<>>
    /\ pending' = [pending EXCEPT ![t] = Tail(@)]
    /\ UNCHANGED <<open, admitted, lost>>

Shut ==
    /\ open
    /\ open' = FALSE
    /\ UNCHANGED <<admitted, pending, lost>>

Discard(t) ==
    /\ ~open
    /\ pending[t] # <<>>
    /\ pending' = [pending EXCEPT ![t] = Tail(@)]
    /\ lost' = TRUE
    /\ UNCHANGED <<open, admitted>>

Next ==
    \/ \E p \in Publishers : Admit(p) \/ Refuse(p) \/ \E t \in Topics : Accept(p, t)
    \/ \E t \in Topics : HandOver(t) \/ Discard(t)
    \/ Shut

Spec == Init /\ [][Next]_vars
=============================================================================
