------------------------- MODULE MessageBusProofs -------------------------
(***************************************************************************)
(* Theorems about MessageBus for any number of publishers, consumers and   *)
(* closers and any capacity: type correctness, the bound on what Close     *)
(* leaves behind, and the refinement of Mailboxes.                         *)
(***************************************************************************)
EXTENDS MessageBus, TLAPS

(* Type correctness of the bus (bus.go:16-22): buffers within capacity.    *)
LEMMA TypeCorrect == Spec => []TypeOK
<1> USE CapacityAssumption DEF Topics
<1>1. Init => TypeOK
  <2> SUFFICES ASSUME Init PROVE TypeOK
    OBVIOUS
  <2>1. <<>> \in Seq(Publishers) /\ Len(<<>>) = 0
    OBVIOUS
  <2>2. buf \in [Topics -> Seq(Publishers)] /\ \A t \in Topics : Len(buf[t]) <= Capacity
    BY <2>1 DEF Init
  <2> QED
    BY <2>2 DEF Init, TypeOK
<1>2. TypeOK /\ [Next]_vars => TypeOK'
  <2> SUFFICES ASSUME TypeOK, [Next]_vars PROVE TypeOK'
    OBVIOUS
  <2> USE DEF TypeOK
  <2>1. ASSUME NEW p \in Publishers, NEW t \in Topics, LoadClosed(p, t) PROVE TypeOK'
    BY <2>1 DEF LoadClosed, conVars, closeVars
  <2>2. ASSUME NEW p \in Publishers, CheckCtx(p) PROVE TypeOK'
    BY <2>2 DEF CheckCtx, PublishReturns, conVars, closeVars
  <2>3. ASSUME NEW p \in Publishers, Send(p) PROVE TypeOK'
    BY <2>3 DEF Send, PublishReturns, conVars, closeVars
  <2>4. ASSUME NEW p \in Publishers, GiveUp(p) PROVE TypeOK'
    BY <2>4 DEF GiveUp, PublishReturns, conVars, closeVars
  <2>5. ASSUME NEW p \in Publishers, CancelPublish(p) PROVE TypeOK'
    BY <2>5 DEF CancelPublish, conVars, closeVars
  <2>6. ASSUME NEW c \in Consumers, NEW t \in Topics, EnterReceive(c, t) PROVE TypeOK'
    BY <2>6 DEF EnterReceive, pubVars, closeVars
  <2>7. ASSUME NEW c \in Consumers, Receive(c) PROVE TypeOK'
    BY <2>7 DEF Receive, ReceiveReturns, pubVars, closeVars
  <2>8. ASSUME NEW c \in Consumers, StopReceiving(c) PROVE TypeOK'
    BY <2>8 DEF StopReceiving, ReceiveReturns, pubVars, closeVars
  <2>9. ASSUME NEW c \in Consumers, CancelReceive(c) PROVE TypeOK'
    BY <2>9 DEF CancelReceive, pubVars, closeVars
  <2>10. ASSUME NEW k \in Closers, CompareAndSwap(k) PROVE TypeOK'
    BY <2>10 DEF CompareAndSwap, InFlight, pubVars, conVars
  <2>11. ASSUME NEW k \in Closers, CloseDone(k) PROVE TypeOK'
    BY <2>11 DEF CloseDone, pubVars, conVars
  <2>12. ASSUME NEW k \in Closers, DrainOne(k) PROVE TypeOK'
    BY <2>12 DEF DrainOne, pubVars, conVars
  <2>13. ASSUME NEW k \in Closers, DrainNext(k) PROVE TypeOK'
    BY <2>13 DEF DrainNext, AfterDrain, pubVars, conVars
  <2>14. CASE UNCHANGED vars
    BY <2>14 DEF vars, pubVars, conVars, closeVars
  <2> QED
    BY <2>1, <2>2, <2>3, <2>4, <2>5, <2>6, <2>7, <2>8, <2>9, <2>10, <2>11, <2>12,
       <2>13, <2>14 DEF Next, PublisherStep, ConsumerStep, CloserStep
<1> QED
  BY <1>1, <1>2, PTL DEF Spec

---------------------------------------------------------------------------
(* After `closed` is set the publishers still inside a call are among those *)
(* that were inside one at that moment: Publish* loads `closed` first.      *)
AdmissionsEnd == closed => InFlight \subseteq atClose

(* A Close that got past its compare-and-swap has set `closed`.             *)
WinnerHasClosed == \A k \in Closers : closerPC[k] # "idle" => closed

(* What a step must know to preserve StrandedWerePublishing.                *)
IInv == TypeOK /\ AdmissionsEnd /\ WinnerHasClosed /\ StrandedWerePublishing

(* Taking the first message or appending a new one keeps a buffer within a  *)
(* set of publishers and free of repetitions.                               *)
LEMMA TailKeeps ==
  ASSUME NEW P, NEW S, NEW s \in Seq(P), s # <<>>, AllIn(s, S), Distinct(s)
  PROVE  AllIn(Tail(s), S) /\ Distinct(Tail(s))
<1>1. Len(s) \in Nat /\ Len(Tail(s)) = Len(s) - 1
  OBVIOUS
<1>2. \A i \in 1..Len(Tail(s)) : Tail(s)[i] = s[i + 1] /\ i + 1 \in 1..Len(s)
  BY <1>1
<1>3. ASSUME NEW i \in 1..Len(Tail(s)), NEW j \in 1..Len(Tail(s)), i # j
      PROVE  Tail(s)[i] # Tail(s)[j]
  <2>1. i + 1 # j + 1
    BY <1>3, <1>1
  <2> QED
    BY <1>2, <2>1 DEF Distinct
<1> QED
  BY <1>2, <1>3 DEF AllIn, Distinct

LEMMA AppendKeeps ==
  ASSUME NEW P, NEW S, NEW s \in Seq(P), NEW e \in S \cap P, AllIn(s, S \ {e}), Distinct(s)
  PROVE  AllIn(Append(s, e), S) /\ Distinct(Append(s, e))
<1> DEFINE a == Append(s, e)
<1>1. Len(s) \in Nat /\ Len(a) = Len(s) + 1 /\ a[Len(s) + 1] = e
  OBVIOUS
<1>2. \A i \in 1..Len(s) : a[i] = s[i] /\ s[i] \in S \ {e}
  BY DEF AllIn
<1>3. \A i \in 1..Len(a) : i \in 1..Len(s) \/ i = Len(s) + 1
  BY <1>1
<1> HIDE DEF a
<1>4. ASSUME NEW i \in 1..Len(a), NEW j \in 1..Len(a), i # j PROVE a[i] # a[j]
  BY <1>1, <1>2, <1>3, <1>4 DEF Distinct
<1>5. AllIn(a, S) /\ Distinct(a)
  BY <1>1, <1>2, <1>3, <1>4 DEF AllIn, Distinct
<1> QED
  BY <1>5 DEF a

(* The drain order of Close, read off topic by topic.                       *)
LEMMA DrainOrder ==
  /\ DrainedBy["inbound"] = {"outbound", "outboundMedia", "returned"}
  /\ DrainedBy["outbound"] = {"outboundMedia", "returned"}
  /\ DrainedBy["outboundMedia"] = {"returned"}
  /\ AfterDrain["inbound"] = "outbound"
  /\ AfterDrain["outbound"] = "outboundMedia"
  /\ AfterDrain["outboundMedia"] = "returned"
  BY DEF DrainedBy, AfterDrain

(* A topic counts as drained only once its closer has moved beyond it.      *)
LEMMA DrainersMovedOn ==
  ASSUME NEW t \in Topics, NEW pc \in DrainedBy[t]
  PROVE  pc \in {"outbound", "outboundMedia", "returned"}
<1>1. CASE t = "inbound"
  BY <1>1, DrainOrder
<1>2. CASE t = "outbound"
  BY <1>2, DrainOrder
<1>3. CASE t = "outboundMedia"
  BY <1>3, DrainOrder
<1> QED
  BY <1>1, <1>2, <1>3 DEF Topics

(* Only a step that closes, sends, or moves the closer touches the premises *)
(* of the bound; a publisher that gives up only leaves InFlight.            *)
LEMMA StrandedInductive == IInv /\ [Next]_vars => StrandedWerePublishing'
<1> SUFFICES ASSUME IInv, [Next]_vars PROVE StrandedWerePublishing'
  OBVIOUS
<1> USE DEF IInv, TypeOK, Topics
<1>1. ASSUME NEW p \in Publishers, NEW t \in Topics, LoadClosed(p, t)
      PROVE  StrandedWerePublishing'
  <2>1. \A u \in Topics : ~Drained(u)'
    BY <1>1, DrainOrder DEF LoadClosed, closeVars, WinnerHasClosed, Drained
  <2> QED
    BY <2>1 DEF StrandedWerePublishing
<1>2. ASSUME NEW p \in Publishers, CheckCtx(p) \/ GiveUp(p) \/ CancelPublish(p)
      PROVE  StrandedWerePublishing'
  <2>1. InFlight' \subseteq InFlight
    BY <1>2 DEF CheckCtx, GiveUp, CancelPublish, PublishReturns, InFlight
  <2>2. UNCHANGED <<buf, closerPC, atClose>>
    BY <1>2 DEF CheckCtx, GiveUp, CancelPublish, closeVars
  <2> QED
    BY <2>1, <2>2 DEF StrandedWerePublishing, Drained, AllIn
<1>3. ASSUME NEW p \in Publishers, Send(p) PROVE StrandedWerePublishing'
  <2> DEFINE u == pubTopic[p]
  <2>1. InFlight' = InFlight \ {p} /\ p \in InFlight
    BY <1>3 DEF Send, PublishReturns, InFlight
  <2>2. UNCHANGED <<closerPC, atClose, closed>>
    BY <1>3 DEF Send, closeVars
  <2>3. SUFFICES ASSUME NEW t \in Topics, Drained(t)
                 PROVE  AllIn(buf'[t], atClose \ InFlight') /\ Distinct(buf'[t])
    BY <2>2 DEF StrandedWerePublishing, Drained
  <2>4. p \in atClose
    BY <2>1, <2>3, DrainOrder DEF AdmissionsEnd, WinnerHasClosed, Drained
  <2>5. AllIn(buf[t], (atClose \ InFlight') \ {p}) /\ Distinct(buf[t])
    BY <2>1, <2>3 DEF StrandedWerePublishing, AllIn
  <2>6. CASE t = u
    <3>1. buf'[t] = Append(buf[t], p) /\ buf[t] \in Seq(Publishers)
      BY <1>3, <2>6 DEF Send
    <3>2. p \in (atClose \ InFlight') \cap Publishers
      BY <2>1, <2>4
    <3>3. AllIn(Append(buf[t], p), atClose \ InFlight') /\ Distinct(Append(buf[t], p))
      BY <2>5, <3>1, <3>2, AppendKeeps
    <3> QED
      BY <3>1, <3>3
  <2>7. CASE t # u
    BY <1>3, <2>5, <2>7 DEF Send, AllIn
  <2> QED
    BY <2>6, <2>7
<1>4. ASSUME NEW u \in Topics, buf[u] # <<>>,
             buf' = [buf EXCEPT ![u] = Tail(@)],
             UNCHANGED <<closerPC, atClose, pubPC>>
      PROVE  StrandedWerePublishing'
  <2>1. InFlight' = InFlight
    BY <1>4 DEF InFlight
  <2>2. SUFFICES ASSUME NEW t \in Topics, Drained(t)
                 PROVE  AllIn(buf'[t], atClose \ InFlight) /\ Distinct(buf'[t])
    BY <1>4, <2>1 DEF StrandedWerePublishing, Drained
  <2>3. AllIn(buf[t], atClose \ InFlight) /\ Distinct(buf[t])
    BY <2>2 DEF StrandedWerePublishing
  <2>4. CASE t = u
    BY <1>4, <2>3, <2>4, TailKeeps
  <2>5. CASE t # u
    BY <1>4, <2>3, <2>5
  <2> QED
    BY <2>4, <2>5
<1>5. ASSUME NEW c \in Consumers, Receive(c) PROVE StrandedWerePublishing'
  BY <1>4, <1>5 DEF Receive, closeVars, pubVars
<1>6. ASSUME NEW k \in Closers, DrainOne(k) PROVE StrandedWerePublishing'
  BY <1>4, <1>6 DEF DrainOne, pubVars
<1>7. ASSUME NEW k \in Closers, CompareAndSwap(k) PROVE StrandedWerePublishing'
  <2>1. CASE closed
    <3>1. closerPC' = [closerPC EXCEPT ![k] = "lost"] /\ atClose' = atClose /\ buf' = buf
          /\ InFlight' = InFlight
      BY <1>7, <2>1 DEF CompareAndSwap, InFlight, pubVars
    <3>2. ASSUME NEW t \in Topics, Drained(t)' PROVE Drained(t)
      <4>1. PICK l \in Closers : closerPC'[l] \in DrainedBy[t]
        BY <3>2 DEF Drained
      <4>2. closerPC'[k] = "lost"
        BY <3>1
      <4>3. "lost" \notin DrainedBy[t]
        BY DrainersMovedOn
      <4> QED
        BY <3>1, <4>1, <4>2, <4>3 DEF Drained
    <3> QED
      BY <3>1, <3>2 DEF StrandedWerePublishing
  <2>2. CASE ~closed
    <3>1. closerPC' = [closerPC EXCEPT ![k] = "won"]
      BY <1>7, <2>2 DEF CompareAndSwap
    <3>2. \A l \in Closers : closerPC'[l] \in {"idle", "won"}
      BY <2>2, <3>1 DEF WinnerHasClosed
    <3>3. \A t \in Topics : ~Drained(t)'
      BY <3>2, DrainersMovedOn DEF Drained
    <3> QED
      BY <3>3 DEF StrandedWerePublishing
  <2> QED
    BY <2>1, <2>2
<1>8. ASSUME NEW k \in Closers, CloseDone(k) PROVE StrandedWerePublishing'
  <2>1. ASSUME NEW t \in Topics, Drained(t)' PROVE Drained(t)
    <3>1. PICK l \in Closers : closerPC'[l] \in DrainedBy[t]
      BY <2>1 DEF Drained
    <3>2. l # k
      <4>1. closerPC'[k] = "inbound"
        BY <1>8 DEF CloseDone
      <4>2. "inbound" \notin DrainedBy[t]
        <5>1. t = "inbound" \/ t = "outbound" \/ t = "outboundMedia"
          BY DEF Topics
        <5>2. \A x \in {"outbound", "outboundMedia", "returned"} : x # "inbound"
          OBVIOUS
        <5>3. DrainedBy[t] \subseteq {"outbound", "outboundMedia", "returned"}
          BY <5>1, DrainOrder
        <5> QED
          BY <5>2, <5>3
      <4> QED
        BY <3>1, <4>1, <4>2
    <3> QED
      BY <1>8, <3>1, <3>2 DEF CloseDone, Drained
  <2> QED
    BY <1>8, <2>1 DEF CloseDone, StrandedWerePublishing, InFlight, pubVars
<1>9. ASSUME NEW k \in Closers, DrainNext(k) PROVE StrandedWerePublishing'
  <2>1. ASSUME NEW t \in Topics, Drained(t)' PROVE Drained(t) \/ buf[t] = <<>>
    <3>1. PICK l \in Closers : closerPC'[l] \in DrainedBy[t]
      BY <2>1 DEF Drained
    <3>2. CASE l # k
      BY <1>9, <3>1, <3>2 DEF DrainNext, Drained
    <3>3. CASE l = k
      BY <1>9, <3>1, <3>3, DrainOrder DEF DrainNext, Drained
    <3> QED
      BY <3>2, <3>3
  <2>2. buf' = buf /\ InFlight' = InFlight /\ atClose' = atClose
    BY <1>9 DEF DrainNext, InFlight, pubVars
  <2> QED
    BY <2>1, <2>2 DEF StrandedWerePublishing, AllIn, Distinct
<1>10. ASSUME NEW c \in Consumers,
              (\E t \in Topics : EnterReceive(c, t)) \/ StopReceiving(c) \/ CancelReceive(c)
       PROVE  StrandedWerePublishing'
  <2>1. UNCHANGED <<buf, closerPC, atClose, pubPC>>
    BY <1>10 DEF EnterReceive, StopReceiving, CancelReceive, pubVars, closeVars
  <2> QED
    BY <2>1 DEF StrandedWerePublishing, Drained, InFlight
<1>11. CASE UNCHANGED vars
  BY <1>11 DEF vars, pubVars, closeVars, StrandedWerePublishing, Drained, InFlight
<1> QED
  BY <1>1, <1>2, <1>3, <1>5, <1>6, <1>7, <1>8, <1>9, <1>10, <1>11
     DEF Next, PublisherStep, ConsumerStep, CloserStep

(* The two auxiliary facts are inductive by themselves.                     *)
LEMMA AdmissionsInductive ==
  TypeOK /\ AdmissionsEnd /\ WinnerHasClosed /\ [Next]_vars
     => AdmissionsEnd' /\ WinnerHasClosed'
<1> SUFFICES ASSUME TypeOK, AdmissionsEnd, WinnerHasClosed, [Next]_vars
             PROVE  AdmissionsEnd' /\ WinnerHasClosed'
  OBVIOUS
<1> USE DEF TypeOK, AdmissionsEnd, WinnerHasClosed, InFlight
<1>1. ASSUME NEW p \in Publishers,
             (\E t \in Topics : LoadClosed(p, t)) \/ PublisherStep(p) \/ CancelPublish(p)
      PROVE  AdmissionsEnd' /\ WinnerHasClosed'
  BY <1>1 DEF LoadClosed, PublisherStep, CheckCtx, Send, GiveUp, CancelPublish,
              PublishReturns, closeVars
<1>2. ASSUME NEW c \in Consumers,
             (\E t \in Topics : EnterReceive(c, t)) \/ ConsumerStep(c) \/ CancelReceive(c)
      PROVE  AdmissionsEnd' /\ WinnerHasClosed'
  BY <1>2 DEF EnterReceive, ConsumerStep, Receive, StopReceiving, CancelReceive,
              pubVars, closeVars
<1>3. ASSUME NEW k \in Closers, CompareAndSwap(k) \/ CloserStep(k)
      PROVE  AdmissionsEnd' /\ WinnerHasClosed'
  BY <1>3 DEF CompareAndSwap, CloserStep, CloseDone, DrainOne, DrainNext, Topics, pubVars
<1>4. CASE UNCHANGED vars
  BY <1>4 DEF vars, pubVars, closeVars
<1> QED
  BY <1>1, <1>2, <1>3, <1>4 DEF Next

---------------------------------------------------------------------------
(* Whatever the number of goroutines and the capacity: what is left in a    *)
(* drained topic are messages whose publishers were already past the load   *)
(* of `closed` when Close set it, at most one each (bus.go:33-48, 117-157). *)
THEOREM StrandedBounded == Spec => []StrandedWerePublishing
<1>1. Init => AdmissionsEnd /\ WinnerHasClosed /\ StrandedWerePublishing
  BY DrainOrder DEF Init, AdmissionsEnd, WinnerHasClosed, StrandedWerePublishing, Drained,
         Topics
<1>2. TypeOK /\ TypeOK' /\ (AdmissionsEnd /\ WinnerHasClosed /\ StrandedWerePublishing)
        /\ [Next]_vars
      => (AdmissionsEnd /\ WinnerHasClosed /\ StrandedWerePublishing)'
  BY StrandedInductive, AdmissionsInductive DEF IInv
<1> QED
  BY <1>1, <1>2, TypeCorrect, PTL DEF Spec

---------------------------------------------------------------------------
(* A publisher enters InFlight with its load of `closed` and leaves it when *)
(* its call returns.                                                        *)
LEMMA ReturnLeaves ==
  ASSUME TypeOK, NEW p \in Publishers, PublishReturns(p)
  PROVE  InFlight' = InFlight \ {p}
  BY DEF TypeOK, PublishReturns, InFlight

(* The code's two-stage close implements Mailboxes: admission ends with the *)
(* compare-and-swap, each admitted call puts at most one message in, and    *)
(* nothing is dropped before that (bus.go:33-157).                          *)
THEOREM BusRefinesMailboxes == Spec => ImplementsMailboxes
<1>1. Init => M!Init
  <2> SUFFICES ASSUME Init PROVE M!Init
    OBVIOUS
  <2>1. InFlight = {}
    BY DEF Init, InFlight
  <2> QED
    BY <2>1 DEF Init, M!Init
<1>2. TypeOK /\ WinnerHasClosed /\ [Next]_vars => [M!Next]_M!vars
  <2> SUFFICES ASSUME TypeOK, WinnerHasClosed, [Next]_vars PROVE [M!Next]_M!vars
    OBVIOUS
  <2> USE DEF TypeOK
  <2>1. ASSUME NEW p \in Publishers, NEW t \in Topics, LoadClosed(p, t) PROVE M!Admit(p)
    BY <2>1 DEF LoadClosed, M!Admit, InFlight, closeVars
  <2>2. ASSUME NEW p \in Publishers, CheckCtx(p) PROVE M!Refuse(p) \/ UNCHANGED M!vars
    <3>1. UNCHANGED <<closed, buf, drained>> /\ p \in InFlight
      BY <2>2 DEF CheckCtx, InFlight, closeVars
    <3>2. CASE pubCtx[p] /\ PublishReturns(p)
      BY <3>1, <3>2, ReturnLeaves DEF M!Refuse
    <3>3. CASE ~pubCtx[p]
      <4>1. InFlight' = InFlight
        BY <2>2, <3>3 DEF CheckCtx, InFlight
      <4> QED
        BY <3>1, <4>1 DEF M!vars
    <3> QED
      BY <2>2, <3>2, <3>3 DEF CheckCtx
  <2>3. ASSUME NEW p \in Publishers, Send(p) PROVE M!Accept(p, pubTopic[p])
    <3>1. p \in InFlight /\ InFlight' = InFlight \ {p}
      BY <2>3, ReturnLeaves DEF Send, InFlight
    <3> QED
      BY <2>3, <3>1 DEF Send, M!Accept, closeVars
  <2>4. ASSUME NEW p \in Publishers, GiveUp(p) PROVE M!Refuse(p)
    <3>1. p \in InFlight /\ InFlight' = InFlight \ {p}
      BY <2>4, ReturnLeaves DEF GiveUp, InFlight
    <3> QED
      BY <2>4, <3>1 DEF GiveUp, M!Refuse, closeVars
  <2>5. ASSUME NEW p \in Publishers, CancelPublish(p) PROVE UNCHANGED M!vars
    BY <2>5 DEF CancelPublish, M!vars, InFlight, closeVars
  <2>6. ASSUME NEW c \in Consumers, Receive(c) PROVE M!HandOver(conTopic[c])
    BY <2>6 DEF Receive, M!HandOver, InFlight, closeVars, pubVars
  <2>7. ASSUME NEW c \in Consumers,
               (\E t \in Topics : EnterReceive(c, t)) \/ StopReceiving(c) \/ CancelReceive(c)
        PROVE  UNCHANGED M!vars
    BY <2>7 DEF EnterReceive, StopReceiving, CancelReceive, M!vars, InFlight, closeVars, pubVars
  <2>8. ASSUME NEW k \in Closers, CompareAndSwap(k) PROVE M!Shut \/ UNCHANGED M!vars
    <3>1. UNCHANGED <<buf, drained>> /\ InFlight' = InFlight /\ closed'
      BY <2>8 DEF CompareAndSwap, InFlight, pubVars
    <3> QED
      BY <3>1 DEF M!Shut, M!vars
  <2>9. ASSUME NEW k \in Closers, CloseDone(k) \/ DrainNext(k) PROVE UNCHANGED M!vars
    BY <2>9 DEF CloseDone, DrainNext, M!vars, InFlight, pubVars
  <2>10. ASSUME NEW k \in Closers, DrainOne(k) PROVE M!Discard(closerPC[k])
    <3>1. closed
      BY <2>10 DEF DrainOne, WinnerHasClosed, Topics
    <3> QED
      BY <2>10, <3>1 DEF DrainOne, M!Discard, InFlight, pubVars
  <2>11. CASE UNCHANGED vars
    BY <2>11 DEF vars, M!vars, InFlight, closeVars, pubVars
  <2>12. \A p \in Publishers : pubTopic[p] \in Topics
    OBVIOUS
  <2>13. \A c \in Consumers : conTopic[c] \in Topics
    OBVIOUS
  <2>14. \A k \in Closers : DrainOne(k) => closerPC[k] \in Topics
    BY DEF DrainOne
  <2> QED
    BY <2>1, <2>2, <2>3, <2>4, <2>5, <2>6, <2>7, <2>8, <2>9, <2>10, <2>11, <2>12, <2>13,
       <2>14 DEF Next, PublisherStep, ConsumerStep, CloserStep, M!Next
<1>3. Init => AdmissionsEnd /\ WinnerHasClosed
  BY DEF Init, AdmissionsEnd, WinnerHasClosed
<1> QED
  BY <1>1, <1>2, <1>3, TypeCorrect, AdmissionsInductive, PTL
     DEF Spec, ImplementsMailboxes, M!Spec

=============================================================================
