-------------------------- MODULE MCMessageBus --------------------------
(***************************************************************************)
(* A small bus, whose buffers two publishers can fill.  Publishers, and    *)
(* callers of Close, may be exchanged for one another.                     *)
(***************************************************************************)
EXTENDS MessageBus, TLC

CONSTANTS p1, p2, c1, k1, k2

Symmetry == Permutations({p1, p2}) \cup Permutations({k1, k2})
=============================================================================
