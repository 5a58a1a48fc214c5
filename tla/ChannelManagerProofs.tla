------------------------ MODULE ChannelManagerProofs ------------------------
(***************************************************************************)
(* Theorems about ChannelManager for any channels, senders, queue size,    *)
(* number of retries and of chunks: type correctness, what a closed queue  *)
(* still holds, who is quiet after a stop, and the order of deliveries.    *)
(***************************************************************************)
EXTENDS ChannelManager, TLAPS

(* A worker at one of its chunks, and one that has a retry left.           *)
Busy(w) == wk[w].pc \in {"limit", "send", "wait"}
AtChunk(k) ==
    /\ k.pc \in {"limit", "send", "wait"} => 1 <= k.chunk /\ k.chunk <= k.of
    /\ k.pc = "wait" => k.attempt < MaxRetries

(* A message on its way to a queue is to a channel of the manager.         *)
Places ==
    /\ \A l \in Lanes : disp[l].pc = "enqueue" => disp[l].msg.to \in Channels
    /\ \A s \in Senders : api[s].pc # "idle" => api[s].msg.to \in Channels
    /\ \A w \in Workers : AtChunk(wk[w])
    /\ admin.pc \in {"unregisterText", "unregisterMedia"} => admin.ch \in workers

TInv == TypeOK /\ Places

LEMMA NoMsgIsMessage == NoMsg \in Message
  BY DEF NoMsg, Message, Sources

(* The values a worker, a dispatcher and a sender's call go through.       *)
LEMMA RestingTyped ==
  ASSUME NEW pc \in {"absent", "idle", "exited"}
  PROVE  Resting(pc) \in WorkerState /\ AtChunk(Resting(pc)) /\ Resting(pc).pc = pc
  BY ManagerAssumption, NoMsgIsMessage DEF Resting, WorkerState, AtChunk

LEMMA SendTyped ==
  ASSUME NEW k \in WorkerState, AtChunk(k), k.pc \in {"limit", "send", "wait"}
  PROVE  LET n == [k EXCEPT !.pc = "send"] IN n \in WorkerState /\ AtChunk(n)
  BY DEF WorkerState, AtChunk

LEMMA WaitTyped ==
  ASSUME NEW k \in WorkerState, AtChunk(k), k.pc = "send", k.attempt # MaxRetries
  PROVE  LET n == [k EXCEPT !.pc = "wait"] IN n \in WorkerState /\ AtChunk(n)
  BY ManagerAssumption DEF WorkerState, AtChunk

LEMMA RetryTyped ==
  ASSUME NEW k \in WorkerState, AtChunk(k), k.pc = "wait"
  PROVE  LET n == [pc |-> "send", msg |-> k.msg, chunk |-> k.chunk, of |-> k.of,
                   attempt |-> k.attempt + 1]
         IN  n \in WorkerState /\ AtChunk(n)
  BY ManagerAssumption DEF WorkerState, AtChunk

LEMMA NextTyped ==
  ASSUME NEW k \in WorkerState, AtChunk(k), k.pc \in {"limit", "send", "wait"}, k.chunk < k.of
  PROVE  LET n == [pc |-> "limit", msg |-> k.msg, chunk |-> k.chunk + 1, of |-> k.of, attempt |-> 0]
         IN  n \in WorkerState /\ AtChunk(n)
  BY ManagerAssumption DEF WorkerState, AtChunk

LEMMA PickTyped ==
  ASSUME NEW m \in Message, NEW chunks \in 1..MaxChunks
  PROVE  LET n == [pc |-> "limit", msg |-> m, chunk |-> 1, of |-> chunks, attempt |-> 0]
         IN  n \in WorkerState /\ AtChunk(n)
  BY ManagerAssumption DEF WorkerState, AtChunk

LEMMA CallTyped ==
  /\ \A pc \in {"subscribe", "stopped"} : [pc |-> pc, msg |-> NoMsg] \in DispatcherState
  /\ [pc |-> "idle", msg |-> NoMsg] \in ApiState
  BY NoMsgIsMessage DEF DispatcherState, ApiState

LEMMA WorkerChanges ==
  ASSUME wk \in [Workers -> WorkerState], \A v \in Workers : AtChunk(wk[v]),
         NEW w \in Workers, NEW k \in WorkerState, AtChunk(k), wk' = [wk EXCEPT ![w] = k]
  PROVE  wk' \in [Workers -> WorkerState] /\ \A v \in Workers : AtChunk(wk'[v])
  OBVIOUS

LEMMA ApiReturnsTyped ==
  ASSUME api \in [Senders -> ApiState], NEW s \in Senders, ApiReturns(s)
  PROVE  /\ api' \in [Senders -> ApiState]
         /\ \A r \in Senders : api'[r].pc # "idle" => api'[r] = api[r]
<1>1. api' \in [Senders -> ApiState]
  BY CallTyped DEF ApiReturns
<1>2. \A r \in Senders : api'[r].pc # "idle" => api'[r] = api[r]
  BY DEF ApiReturns
<1> QED
  BY <1>1, <1>2

(* Taking the first message of a queue, or appending one.                  *)
LEMMA QueueTypes ==
  ASSUME NEW q \in Seq(Message)
  PROVE  /\ q # <<>> => /\ Head(q) \in Message /\ Tail(q) \in Seq(Message)
                        /\ Len(Tail(q)) <= Len(q)
         /\ \A m \in Message : Append(q, m) \in Seq(Message) /\ Len(Append(q, m)) = Len(q) + 1
         /\ Len(q) \in Nat
  OBVIOUS

QueuesOK == queue \in [Workers -> Seq(Message)] /\ \A v \in Workers : Len(queue[v]) <= QueueSize

LEMMA QueueGrows ==
  ASSUME QueuesOK, NEW w \in Workers, NEW m \in Message,
         Len(queue[w]) < QueueSize, queue' = [queue EXCEPT ![w] = Append(@, m)]
  PROVE  QueuesOK'
  BY ManagerAssumption, QueueTypes DEF QueuesOK

(* sendWithRetry comes back: the next chunk, or an idle worker.            *)
LEMMA NextChunkTyped ==
  ASSUME wk \in [Workers -> WorkerState], \A v \in Workers : AtChunk(wk[v]),
         NEW w \in Workers, Busy(w), NextChunk(w)
  PROVE  wk' \in [Workers -> WorkerState] /\ \A v \in Workers : AtChunk(wk'[v])
<1>1. CASE wk[w].chunk < wk[w].of
  BY <1>1, NextTyped, WorkerChanges DEF NextChunk, Busy
<1>2. CASE ~(wk[w].chunk < wk[w].of)
  BY <1>2, RestingTyped, WorkerChanges DEF NextChunk, Idle
<1> QED
  BY <1>1, <1>2

LEMMA PositionTyped ==
  ASSUME NEW msg, msg.n \in Nat, NEW chunk \in Nat
  PROVE  Position(msg, chunk) \in Nat
  BY ManagerAssumption DEF Position

LEMMA DeliveredTyped ==
  ASSUME TypeOK, NEW w \in Workers, Delivered(w)
  PROVE  last' \in [Workers \X Sources -> Nat]
<1>1. wk[w].msg.n \in Nat /\ wk[w].chunk \in Nat
  BY ManagerAssumption DEF TypeOK, WorkerState, Message
<1>2. Position(wk[w].msg, wk[w].chunk) \in Nat
  BY <1>1, PositionTyped
<1> QED
  BY <1>2 DEF TypeOK, Delivered

LEMMA TypeInvariant == Spec => []TInv
<1>1. Init => TInv
  <2> SUFFICES ASSUME Init PROVE TInv
    OBVIOUS
  <2>1. <<>> \in Seq(Message) /\ Len(<<>>) = 0
    OBVIOUS
  <2>2. wk \in [Workers -> WorkerState] /\ \A w \in Workers : AtChunk(wk[w])
    BY RestingTyped DEF Init, Idle, Absent
  <2>3. disp \in [Lanes -> DispatcherState] /\ \A l \in Lanes : disp[l].pc = "subscribe"
    BY NoMsgIsMessage DEF Init, DispatcherState
  <2>4. api \in [Senders -> ApiState] /\ \A s \in Senders : api[s].pc = "idle"
    BY NoMsgIsMessage DEF Init, ApiState
  <2>5. admin \in AdminState
    BY DEF Init, AdminState
  <2>6. queue \in [Workers -> Seq(Message)] /\ \A w \in Workers : Len(queue[w]) <= QueueSize
    BY <2>1, ManagerAssumption DEF Init
  <2> QED
    BY <2>1, <2>2, <2>3, <2>4, <2>5, <2>6 DEF TInv, TypeOK, Init, Places
<1>2. TInv /\ [Next]_vars => TInv'
  <2> SUFFICES ASSUME TInv, [Next]_vars PROVE TInv'
    OBVIOUS
  <2> USE DEF TInv, TypeOK, Places, mapVars, busVars
  <2>1. ASSUME NEW l \in Lanes, NEW to \in Channels \cup Internal, Publish(l, to) PROVE TInv'
    <3>1. sent[<<"bus", l>>] \in Nat /\ <<"bus", l>> \in Sources \X Lanes
      BY DEF Sources
    <3>2. [src |-> "bus", n |-> sent[<<"bus", l>>] + 1, to |-> to] \in Message
      BY <3>1 DEF Message, Sources
    <3>3. busq' \in [Lanes -> Seq(Message)] /\ sent' \in [Sources \X Lanes -> Nat]
      BY <2>1, <3>1, <3>2 DEF Publish
    <3> QED
      BY <2>1, <3>3 DEF Publish
  <2>2. ASSUME CancelRoot PROVE TInv'
    BY <2>2 DEF CancelRoot
  <2>3. ASSUME CloseBus PROVE TInv'
    <3>1. busq' \in [Lanes -> Seq(Message)]
      BY <2>3 DEF CloseBus
    <3> QED
      BY <2>3, <3>1 DEF CloseBus
  <2>4. ASSUME NEW l \in Lanes, Subscribe(l) PROVE TInv'
    <3>1. Head(busq[l]) \in Message /\ busq' \in [Lanes -> Seq(Message)]
      BY <2>4, QueueTypes DEF Subscribe
    <3>2. disp' \in [Lanes -> DispatcherState]
      BY <2>4, <3>1 DEF Subscribe, DispatcherState
    <3>3. \A k \in Lanes : disp'[k].pc = "enqueue" => disp'[k] = disp[k]
      BY <2>4 DEF Subscribe
    <3> QED
      BY <2>4, <3>1, <3>2, <3>3 DEF Subscribe
  <2>5. ASSUME NEW l \in Lanes, SubscribeEnds(l) PROVE TInv'
    <3>1. disp' \in [Lanes -> DispatcherState]
      BY <2>5 DEF SubscribeEnds, DispatcherState
    <3>2. \A k \in Lanes : disp'[k].pc = "enqueue" => disp'[k] = disp[k]
      BY <2>5 DEF SubscribeEnds, DispatcherState
    <3> QED
      BY <2>5, <3>1, <3>2 DEF SubscribeEnds
  <2>6. ASSUME NEW l \in Lanes, Lookup(l) PROVE TInv'
    <3>1. disp' \in [Lanes -> DispatcherState]
      BY <2>6, NoMsgIsMessage DEF Lookup, DispatcherState
    <3>2. \A k \in Lanes : disp'[k].pc = "enqueue" => disp'[k].msg.to \in Channels
      BY <2>6 DEF Lookup
    <3> QED
      BY <2>6, <3>1, <3>2 DEF Lookup
  <2>7. ASSUME NEW l \in Lanes, Enqueue(l) PROVE TInv'
    <3> DEFINE w == <<l, disp[l].msg.to>>
    <3>1. w \in Workers /\ disp[l].msg \in Message
      BY <2>7 DEF Enqueue, Workers, DispatcherState
    <3>2. QueuesOK'
      BY <2>7, <3>1, QueueGrows DEF Enqueue, QueuesOK
    <3>3. disp' \in [Lanes -> DispatcherState]
      BY <2>7, CallTyped DEF Enqueue
    <3>4. \A k \in Lanes : disp'[k].pc = "enqueue" => disp'[k] = disp[k]
      BY <2>7 DEF Enqueue
    <3>5. crashed' \in BOOLEAN
      BY <2>7 DEF Enqueue
    <3> QED
      BY <2>7, <3>2, <3>3, <3>4, <3>5 DEF Enqueue, QueuesOK
  <2>8. ASSUME NEW w \in Workers, Pick(w) PROVE TInv'
    <3>1. Head(queue[w]) \in Message /\ queue' \in [Workers -> Seq(Message)]
      BY <2>8, QueueTypes DEF Pick
    <3>2. \A v \in Workers : Len(queue'[v]) <= QueueSize
      BY <2>8, QueueTypes, ManagerAssumption DEF Pick
    <3>3. wk' \in [Workers -> WorkerState] /\ \A v \in Workers : AtChunk(wk'[v])
      <4>1. CASE UNCHANGED wk
        BY <4>1
      <4>2. CASE \E chunks \in 1..MaxChunks :
                   wk' = [wk EXCEPT ![w] = [pc |-> "limit", msg |-> Head(queue[w]), chunk |-> 1,
                                            of |-> chunks, attempt |-> 0]]
        BY <3>1, <4>2, PickTyped, WorkerChanges
      <4> QED
        BY <2>8, <4>1, <4>2, ManagerAssumption DEF Pick
    <3> QED
      BY <2>8, <3>1, <3>2, <3>3 DEF Pick, WorkerUnchanged
  <2>9. ASSUME NEW w \in Workers, Exit(w) PROVE TInv'
    BY <2>9, RestingTyped, WorkerChanges DEF Exit, WorkerUnchanged, Exited
  <2>10. ASSUME NEW w \in Workers, Limit(w) PROVE TInv'
    <3>1. wk' \in [Workers -> WorkerState] /\ \A v \in Workers : AtChunk(wk'[v])
      <4>1. CASE cancelled
        BY <2>10, <4>1, NextChunkTyped DEF Limit, Busy
      <4>2. CASE ~cancelled
        BY <2>10, <4>2, SendTyped, WorkerChanges DEF Limit
      <4> QED
        BY <4>1, <4>2
    <3> QED
      BY <2>10, <3>1 DEF Limit, WorkerUnchanged
  <2>11. ASSUME NEW w \in Workers, SendOK(w) PROVE TInv'
    <3>1. wk' \in [Workers -> WorkerState] /\ \A v \in Workers : AtChunk(wk'[v])
      BY <2>11, NextChunkTyped DEF SendOK, Busy
    <3>2. last' \in [Workers \X Sources -> Nat]
      BY <2>11, DeliveredTyped DEF SendOK
    <3> QED
      BY <2>11, <3>1, <3>2 DEF SendOK, WorkerUnchanged
  <2>12. ASSUME NEW w \in Workers, SendPermanent(w) PROVE TInv'
    <3>1. wk' \in [Workers -> WorkerState] /\ \A v \in Workers : AtChunk(wk'[v])
      BY <2>12, NextChunkTyped DEF SendPermanent, Busy
    <3> QED
      BY <2>12, <3>1 DEF SendPermanent, WorkerUnchanged
  <2>13. ASSUME NEW w \in Workers, SendTemporary(w) PROVE TInv'
    <3>1. wk' \in [Workers -> WorkerState] /\ \A v \in Workers : AtChunk(wk'[v])
      <4>1. CASE wk[w].attempt = MaxRetries
        BY <2>13, <4>1, NextChunkTyped DEF SendTemporary, Busy
      <4>2. CASE wk[w].attempt # MaxRetries
        BY <2>13, <4>2, WaitTyped, WorkerChanges DEF SendTemporary
      <4> QED
        BY <4>1, <4>2
    <3>2. last' \in [Workers \X Sources -> Nat]
      BY <2>13, DeliveredTyped DEF SendTemporary
    <3> QED
      BY <2>13, <3>1, <3>2 DEF SendTemporary, WorkerUnchanged
  <2>14. ASSUME NEW w \in Workers, Backoff(w) PROVE TInv'
    <3>1. wk' \in [Workers -> WorkerState] /\ \A v \in Workers : AtChunk(wk'[v])
      <4>1. CASE NextChunk(w)
        BY <2>14, <4>1, NextChunkTyped DEF Backoff, Busy
      <4>2. CASE ~NextChunk(w)
        BY <2>14, <4>2, RetryTyped, WorkerChanges DEF Backoff
      <4> QED
        BY <4>1, <4>2
    <3> QED
      BY <2>14, <3>1 DEF Backoff, WorkerUnchanged
  <2>15. ASSUME NEW c \in Channels, RegisterChannel(c) PROVE TInv'
    BY <2>15 DEF RegisterChannel, AdminUnchanged
  <2>16. ASSUME NEW c \in Channels, UnregisterChannel(c) PROVE TInv'
    <3>1. admin' \in AdminState
      BY <2>16 DEF UnregisterChannel, AdminState
    <3>2. qclosed' \in [Workers -> BOOLEAN]
      BY <2>16 DEF UnregisterChannel
    <3>3. (admin.pc \in {"unregisterText", "unregisterMedia"} => admin.ch \in workers)'
      BY <2>16 DEF UnregisterChannel
    <3> QED
      BY <2>16, <3>1, <3>2, <3>3 DEF UnregisterChannel, AdminUnchanged
  <2>17. ASSUME StopAll \/ UnregisterMedia \/ UnregisterReturns \/ StopReturns PROVE TInv'
    <3>1. admin' \in AdminState
      <4>1. CASE StopAll
        BY <4>1 DEF StopAll, AdminState
      <4>2. CASE UnregisterMedia
        BY <4>2 DEF UnregisterMedia, AdminState
      <4>3. CASE UnregisterReturns
        BY <4>3 DEF UnregisterReturns, AdminState
      <4>4. CASE StopReturns
        BY <4>4 DEF StopReturns, AdminState
      <4> QED
        BY <2>17, <4>1, <4>2, <4>3, <4>4
    <3>2. qclosed' \in [Workers -> BOOLEAN]
      BY <2>17 DEF StopAll, UnregisterMedia, UnregisterReturns, StopReturns
    <3>3. (admin.pc \in {"unregisterText", "unregisterMedia"} => admin.ch \in workers)'
      <4>1. CASE UnregisterMedia
        BY <4>1 DEF UnregisterMedia
      <4>2. CASE StopAll \/ UnregisterReturns \/ StopReturns
        <5>1. admin'.pc \notin {"unregisterText", "unregisterMedia"}
          BY <4>2 DEF StopAll, UnregisterReturns, StopReturns, AdminState
        <5> QED
          BY <5>1
      <4> QED
        BY <2>17, <4>1, <4>2
    <3> QED
      BY <2>17, <3>1, <3>2, <3>3
         DEF StopAll, UnregisterMedia, UnregisterReturns, StopReturns, AdminUnchanged
  <2>18. ASSUME StopText \/ StopMedia PROVE TInv'
    <3>1. admin' \in AdminState
      BY <2>18 DEF StopText, StopMedia, AdminState
    <3>2. qclosed' \in [Workers -> BOOLEAN]
      BY <2>18 DEF StopText, StopMedia, CloseQueues
    <3>3. admin'.pc \notin {"unregisterText", "unregisterMedia"}
      BY <2>18 DEF StopText, StopMedia, AdminState
    <3> QED
      BY <2>18, <3>1, <3>2, <3>3 DEF StopText, StopMedia, AdminUnchanged
  <2>19. ASSUME NEW s \in Senders, ApiEnqueue(s) PROVE TInv'
    <3> DEFINE w == <<"text", api[s].msg.to>>
    <3>1. w \in Workers /\ api[s].msg \in Message
      BY <2>19 DEF ApiEnqueue, Workers, ApiState, Lanes
    <3>2. QueuesOK'
      BY <2>19, <3>1, QueueGrows DEF ApiEnqueue, QueuesOK
    <3>3. api' \in [Senders -> ApiState] /\ \A r \in Senders : api'[r].pc # "idle" => api'[r] = api[r]
      BY <2>19, ApiReturnsTyped DEF ApiEnqueue
    <3>4. crashed' \in BOOLEAN
      BY <2>19 DEF ApiEnqueue
    <3> QED
      BY <2>19, <3>2, <3>3, <3>4 DEF ApiEnqueue, ApiUnchanged, QueuesOK
  <2>20. ASSUME NEW s \in Senders, ApiDirect(s) \/ ApiGivesUp(s) PROVE TInv'
    <3>1. api' \in [Senders -> ApiState] /\ \A r \in Senders : api'[r].pc # "idle" => api'[r] = api[r]
      BY <2>20, ApiReturnsTyped DEF ApiDirect, ApiGivesUp
    <3>2. Position(api[s].msg, 1) \in Nat
      <4>1. api[s].msg.n \in Nat
        BY DEF ApiState, Message
      <4> QED
        BY <4>1, PositionTyped
    <3>3. last' \in [Workers \X Sources -> Nat]
      BY <2>20, <3>2 DEF ApiDirect, ApiGivesUp
    <3> QED
      BY <2>20, <3>1, <3>3 DEF ApiDirect, ApiGivesUp, ApiUnchanged
  <2>21. ASSUME NEW s \in Senders, NEW c \in Channels, SendToChannel(s, c) PROVE TInv'
    <3>1. sent[<<s, "text">>] \in Nat /\ <<s, "text">> \in Sources \X Lanes
      BY DEF Sources, Lanes
    <3>2. [src |-> s, n |-> sent[<<s, "text">>] + 1, to |-> c] \in Message
      BY <3>1 DEF Message, Sources
    <3>3. api' \in [Senders -> ApiState]
      BY <2>21, <3>2 DEF SendToChannel, ApiState
    <3>4. \A r \in Senders : api'[r] = api[r] \/ api'[r].msg.to = c
      BY <2>21 DEF SendToChannel
    <3>5. sent' \in [Sources \X Lanes -> Nat]
      BY <2>21, <3>1 DEF SendToChannel
    <3> QED
      BY <2>21, <3>3, <3>4, <3>5 DEF SendToChannel, ApiUnchanged
  <2>22. CASE UNCHANGED vars
    BY <2>22 DEF vars
  <2> QED
    BY <2>1, <2>2, <2>3, <2>4, <2>5, <2>6, <2>7, <2>8, <2>9, <2>10, <2>11, <2>12, <2>13, <2>14,
       <2>15, <2>16, <2>17, <2>18, <2>19, <2>20, <2>21, <2>22
       DEF Next, DispatcherStep, WorkerStep, AdminStep, ApiStep
<1> QED
  BY <1>1, <1>2, PTL DEF Spec

(* Type correctness of the manager (manager.go:71-86, :520-760): maps,     *)
(* queues, retries and chunks within their bounds.                         *)
THEOREM TypeCorrect == Spec => []TypeOK
  BY TypeInvariant, PTL DEF TInv
---------------------------------------------------------------------------
Gone(w) == wk[w].pc \in {"absent", "exited"}

(* A worker has gone only with its queue closed and empty, or cancelled;   *)
(* one whose channel has left m.workers is gone, and each stage of         *)
(* UnregisterChannel and StopAll has waited for the workers before it.     *)
LeftEmpty == \A w \in Workers : wk[w].pc = "exited" => cancelled \/ (qclosed[w] /\ queue[w] = <<>>)
Waited ==
    /\ \A w \in Workers : w[2] \notin workers => Gone(w)
    /\ admin.pc = "unregisterMedia" => wk[<<"text", admin.ch>>].pc = "exited"
    /\ admin.pc = "stopMedia" => \A c \in workers : wk[<<"text", c>>].pc = "exited"
    /\ admin.pc = "stopped" => \A w \in Workers : Gone(w)

(* What a step of a worker may do to it and to the rest.                   *)
LEMMA WorkerStepFrame ==
  ASSUME TInv, NEW w \in Workers, WorkerStep(w)
  PROVE  /\ ~Gone(w)
         /\ \A v \in Workers : v # w => wk'[v] = wk[v] /\ queue'[v] = queue[v]
         /\ wk'[w].pc = "exited" => cancelled \/ (qclosed[w] /\ queue'[w] = <<>>)
         /\ UNCHANGED <<cancelled, qclosed, admin, workers, crashed>>
<1> USE DEF TInv, TypeOK, WorkerUnchanged, mapVars
<1>1. CASE Pick(w)
  BY <1>1 DEF Pick, Gone
<1>2. CASE Exit(w)
  BY <1>2 DEF Exit, Gone
<1>3. ASSUME NextChunk(w)
      PROVE  wk'[w].pc # "exited" /\ \A v \in Workers : v # w => wk'[v] = wk[v]
  BY <1>3 DEF NextChunk, Idle, Resting
<1>4. CASE Limit(w)
  BY <1>3, <1>4 DEF Limit, Gone, WorkerState
<1>5. CASE SendOK(w) \/ SendPermanent(w)
  BY <1>3, <1>5 DEF SendOK, SendPermanent, Gone
<1>6. CASE SendTemporary(w)
  BY <1>3, <1>6 DEF SendTemporary, Gone, WorkerState
<1>7. CASE Backoff(w)
  BY <1>3, <1>7 DEF Backoff, Gone
<1> QED
  BY <1>1, <1>2, <1>4, <1>5, <1>6, <1>7 DEF WorkerStep

LEMMA TwoLanes ==
  ASSUME NEW w \in Workers
  PROVE  w[2] \in Channels /\ (w = <<"text", w[2]>> \/ w = <<"media", w[2]>>)
  BY DEF Workers, Lanes

LEMMA StopInvariant == Spec => [](LeftEmpty /\ Waited)
<1>1. Init => LeftEmpty /\ Waited
  BY DEF Init, LeftEmpty, Waited, Gone, Idle, Absent, Resting
<1>2. TInv /\ LeftEmpty /\ Waited /\ [Next]_vars => (LeftEmpty /\ Waited)'
  <2> SUFFICES ASSUME TInv, LeftEmpty, Waited, [Next]_vars PROVE LeftEmpty' /\ Waited'
    OBVIOUS
  <2> USE DEF LeftEmpty, Waited, Gone, mapVars, busVars
  <2>1. ASSUME UNCHANGED <<wk, workers, admin, cancelled, qclosed, queue>> PROVE LeftEmpty' /\ Waited'
    BY <2>1
  <2>2. ASSUME CancelRoot PROVE LeftEmpty' /\ Waited'
    BY <2>2 DEF CancelRoot
  <2>3. ASSUME NEW l \in Lanes, Enqueue(l) PROVE LeftEmpty' /\ Waited'
    <3>1. \A w \in Workers : qclosed[w] => queue'[w] = queue[w]
      BY <2>3 DEF Enqueue, TInv, TypeOK
    <3> QED
      BY <2>3, <3>1 DEF Enqueue
  <2>4. ASSUME NEW s \in Senders, ApiEnqueue(s) PROVE LeftEmpty' /\ Waited'
    <3>1. \A w \in Workers : qclosed[w] => queue'[w] = queue[w]
      BY <2>4 DEF ApiEnqueue, TInv, TypeOK
    <3> QED
      BY <2>4, <3>1 DEF ApiEnqueue, ApiUnchanged
  <2>5. ASSUME NEW w \in Workers, WorkerStep(w) PROVE LeftEmpty' /\ Waited'
    <3>1. LeftEmpty'
      BY <2>5, WorkerStepFrame
    <3>2. \A v \in Workers : Gone(v) => wk'[v] = wk[v]
      BY <2>5, WorkerStepFrame
    <3>3. \A c \in workers : <<"text", c>> \in Workers
      BY DEF TInv, TypeOK, Workers, Lanes
    <3>4. admin.pc = "unregisterMedia" => <<"text", admin.ch>> \in Workers
      BY DEF TInv, TypeOK, Places, Workers, Lanes
    <3> QED
      BY <2>5, <3>1, <3>2, <3>3, <3>4, WorkerStepFrame
  <2>6. ASSUME NEW c \in Channels, UnregisterChannel(c) PROVE LeftEmpty' /\ Waited'
    <3>1. \A w \in Workers : qclosed[w] => qclosed'[w]
      BY <2>6 DEF UnregisterChannel, TInv, TypeOK
    <3>2. admin'.pc \in {"idle", "unregisterText"}
      BY <2>6 DEF UnregisterChannel
    <3> QED
      BY <2>6, <3>1, <3>2 DEF UnregisterChannel, AdminUnchanged
  <2>7. ASSUME UnregisterMedia PROVE LeftEmpty' /\ Waited'
    BY <2>7 DEF UnregisterMedia, AdminUnchanged, TInv, TypeOK, AdminState
  <2>8. ASSUME UnregisterReturns PROVE LeftEmpty' /\ Waited'
    BY <2>8, TwoLanes DEF UnregisterReturns, AdminUnchanged
  <2>9. ASSUME StopAll PROVE LeftEmpty' /\ Waited'
    BY <2>9 DEF StopAll, AdminUnchanged, TInv, TypeOK, AdminState
  <2>10. ASSUME StopText PROVE LeftEmpty' /\ Waited'
    BY <2>10 DEF StopText, CloseQueues, AdminUnchanged, TInv, TypeOK, AdminState
  <2>11. ASSUME StopMedia PROVE LeftEmpty' /\ Waited'
    BY <2>11 DEF StopMedia, CloseQueues, AdminUnchanged, TInv, TypeOK, AdminState
  <2>12. ASSUME StopReturns PROVE LeftEmpty' /\ Waited'
    <3>1. \A w \in Workers : Gone(w)
      BY <2>12, TwoLanes DEF StopReturns
    <3>2. admin'.pc = "stopped"
      BY <2>12 DEF StopReturns, TInv, TypeOK, AdminState
    <3> QED
      BY <2>12, <3>1, <3>2 DEF StopReturns, AdminUnchanged
  <2>13. ASSUME NEW l \in Lanes, Subscribe(l) \/ SubscribeEnds(l) \/ Lookup(l)
         PROVE  LeftEmpty' /\ Waited'
    BY <2>1, <2>13 DEF Subscribe, SubscribeEnds, Lookup
  <2>14. ASSUME NEW s \in Senders, ApiDirect(s) \/ ApiGivesUp(s) \/ \E c \in Channels : SendToChannel(s, c)
         PROVE  LeftEmpty' /\ Waited'
    BY <2>1, <2>14 DEF ApiDirect, ApiGivesUp, SendToChannel, ApiUnchanged
  <2>16. ASSUME CloseBus \/ \E l \in Lanes, to \in Channels \cup Internal : Publish(l, to)
         PROVE  LeftEmpty' /\ Waited'
    BY <2>1, <2>16 DEF CloseBus, Publish
  <2>17. ASSUME NEW c \in Channels, RegisterChannel(c) PROVE LeftEmpty' /\ Waited'
    BY <2>1, <2>17 DEF RegisterChannel, AdminUnchanged
  <2>15. CASE UNCHANGED vars
    BY <2>1, <2>15 DEF vars
  <2> QED
    BY <2>2, <2>3, <2>4, <2>5, <2>6, <2>7, <2>8, <2>9, <2>10, <2>11, <2>12, <2>13, <2>14, <2>15,
       <2>16, <2>17
       DEF Next, DispatcherStep, AdminStep, ApiStep
<1> QED
  BY <1>1, <1>2, TypeInvariant, PTL DEF Spec

(* UnregisterChannel loses nothing: a worker that was told to finish by    *)
(* closing its queue has taken all of it (manager.go:836-874).             *)
THEOREM NothingLeftBehind == Spec => []UnregisterDrains
<1>1. LeftEmpty => UnregisterDrains
  BY DEF LeftEmpty, UnregisterDrains
<1> QED
  BY <1>1, StopInvariant, PTL

(* After StopAll, or for a channel that was unregistered, no worker is in  *)
(* the middle of a send; of dispatchers, which StopAll only cancels,       *)
(* nothing is said (manager.go:381-446).                                   *)
THEOREM QuietAfterStop == Spec => []QuietWhenStopped
<1>1. Waited => QuietWhenStopped
  BY DEF Waited, QuietWhenStopped, Gone
<1> QED
  BY <1>1, StopInvariant, PTL

---------------------------------------------------------------------------
(* Messages of one source, in the order in which they were issued.         *)
Rising(q) == \A i, j \in 1..Len(q) : i < j /\ q[i].src = q[j].src => q[i].n < q[j].n
Older(q, s, n) == \A i \in 1..Len(q) : q[i].src = s => q[i].n < n
Newer(q, s, n) == \A i \in 1..Len(q) : q[i].src = s => n < q[i].n

BusyState(k) == k.pc \in {"limit", "send", "wait"}
Deliveries == [Workers \X Sources -> Nat]

(* For worker w with queue q, state k and deliveries d: all it has had of  *)
(* source s was issued before the n-th message;                            *)
Behind(w, q, k, d, s, n) ==
    /\ d[<<w, s>>] <= n * MaxChunks
    /\ BusyState(k) /\ k.msg.src = s => k.msg.n < n
    /\ Older(q, s, n)

(* what it delivered comes before what it is sending, and that before what *)
(* waits in its queue.                                                     *)
Ordered(w, q, k, d) ==
    /\ Rising(q)
    /\ \A i \in 1..Len(q) : d[<<w, q[i].src>>] <= q[i].n * MaxChunks
    /\ BusyState(k) => d[<<w, k.msg.src>>] <= Position(k.msg, k.chunk) /\ Newer(q, k.msg.src, k.msg.n)

(* The last chunk of a message comes before the first of a later one.      *)
LEMMA LaterPosition ==
  ASSUME NEW n \in Nat, NEW m \in Nat, n < m, NEW chunk \in 0..MaxChunks
  PROVE  n * MaxChunks + chunk <= m * MaxChunks
<1>1. MaxChunks \in Nat
  BY ManagerAssumption
<1>2. n * MaxChunks \in Nat /\ m * MaxChunks \in Nat
  BY <1>1
<1>3. (n + 1) * MaxChunks <= m * MaxChunks
  <2>1. m - (n + 1) \in Nat /\ (m - (n + 1)) * MaxChunks \in Nat
    BY <1>1
  <2>2. m * MaxChunks = (n + 1) * MaxChunks + (m - (n + 1)) * MaxChunks
    BY <1>1
  <2> QED
    BY <1>1, <1>2, <2>1, <2>2
<1>4. (n + 1) * MaxChunks = n * MaxChunks + MaxChunks
  BY <1>1
<1> QED
  BY <1>1, <1>2, <1>3, <1>4

LEMMA AppendOrder ==
  ASSUME NEW q \in Seq(Message), NEW m \in Message
  PROVE  /\ \A s, n : Older(q, s, n) /\ (m.src = s => m.n < n) => Older(Append(q, m), s, n)
         /\ Rising(q) /\ Older(q, m.src, m.n) => Rising(Append(q, m))
         /\ \A s, n : Newer(q, s, n) /\ (m.src = s => n < m.n) => Newer(Append(q, m), s, n)
<1> DEFINE a == Append(q, m)
<1>1. /\ Len(q) \in Nat /\ Len(a) = Len(q) + 1 /\ a[Len(q) + 1] = m
      /\ \A i \in 1..Len(q) : a[i] = q[i]
  OBVIOUS
<1>2. \A i \in 1..Len(a) : i \in 1..Len(q) \/ i = Len(q) + 1
  BY <1>1
<1> HIDE DEF a
<1>3. \A s, n : Older(q, s, n) /\ (m.src = s => m.n < n) => Older(a, s, n)
  BY <1>1, <1>2 DEF Older
<1>4. \A s, n : Newer(q, s, n) /\ (m.src = s => n < m.n) => Newer(a, s, n)
  BY <1>1, <1>2 DEF Newer
<1>5. ASSUME Rising(q), Older(q, m.src, m.n) PROVE Rising(a)
  <2> SUFFICES ASSUME NEW i \in 1..Len(a), NEW j \in 1..Len(a), i < j, a[i].src = a[j].src
               PROVE  a[i].n < a[j].n
    BY DEF Rising
  <2>1. i \in 1..Len(q)
    BY <1>1
  <2>2. CASE j \in 1..Len(q)
    BY <1>1, <1>5, <2>1, <2>2 DEF Rising
  <2>3. CASE j = Len(q) + 1
    BY <1>1, <1>5, <2>1, <2>3 DEF Older
  <2> QED
    BY <1>2, <2>2, <2>3
<1> QED
  BY <1>3, <1>4, <1>5 DEF a

LEMMA TailOrder ==
  ASSUME NEW q \in Seq(Message), q # <<>>
  PROVE  /\ \A s, n : Older(q, s, n) => Older(Tail(q), s, n) /\ (Head(q).src = s => Head(q).n < n)
         /\ Rising(q) => Rising(Tail(q)) /\ Newer(Tail(q), Head(q).src, Head(q).n)
         /\ \A i \in 1..Len(Tail(q)) : Tail(q)[i] = q[i + 1] /\ i + 1 \in 1..Len(q)
<1> DEFINE t == Tail(q)
<1>1. Len(q) \in Nat /\ 1 \in 1..Len(q) /\ Len(t) = Len(q) - 1 /\ Head(q) = q[1]
  OBVIOUS
<1>2. \A i \in 1..Len(t) : t[i] = q[i + 1] /\ i + 1 \in 1..Len(q)
  BY <1>1
<1>3. \A i \in 1..Len(t) : 1 < i + 1
  BY <1>1
<1>4. \A i, j \in 1..Len(t) : i < j => i + 1 < j + 1
  BY <1>1
<1> HIDE DEF t
<1>5. \A s, n : Older(q, s, n) => Older(t, s, n) /\ (Head(q).src = s => Head(q).n < n)
  BY <1>1, <1>2 DEF Older
<1>6. Rising(q) => Rising(t)
  BY <1>2, <1>4 DEF Rising
<1>7. Rising(q) => Newer(t, Head(q).src, Head(q).n)
  BY <1>1, <1>2, <1>3 DEF Rising, Newer
<1> QED
  BY <1>2, <1>5, <1>6, <1>7 DEF t

(* What a queue, a worker and its deliveries go through keeps both.        *)
LEMMA BehindLater ==
  ASSUME NEW w \in Workers, NEW s \in Sources, NEW q \in Seq(Message), NEW k \in WorkerState,
         NEW d \in Deliveries, NEW n \in Nat, NEW m \in Nat, n <= m, Behind(w, q, k, d, s, n)
  PROVE  Behind(w, q, k, d, s, m)
<1>1. n * MaxChunks <= m * MaxChunks
  <2>1. CASE n = m
    BY <2>1, ManagerAssumption
  <2>2. CASE n < m
    <3>1. n * MaxChunks + 0 <= m * MaxChunks
      BY <2>2, LaterPosition, ManagerAssumption
    <3> QED
      BY <3>1, ManagerAssumption
  <2> QED
    BY <2>1, <2>2
<1>2. d[<<w, s>>] \in Nat /\ n * MaxChunks \in Nat /\ m * MaxChunks \in Nat
  BY ManagerAssumption DEF Deliveries
<1>3. d[<<w, s>>] <= m * MaxChunks
  BY <1>1, <1>2 DEF Behind
<1>4. BusyState(k) /\ k.msg.src = s => k.msg.n < m
  <2>1. k.msg.n \in Nat
    BY DEF WorkerState, Message
  <2> QED
    BY <2>1 DEF Behind
<1>5. Older(q, s, m)
  <2>1. \A i \in 1..Len(q) : q[i].n \in Nat
    <3>1. \A i \in 1..Len(q) : q[i] \in Message
      OBVIOUS
    <3> QED
      BY <3>1 DEF Message
  <2> QED
    BY <2>1 DEF Behind, Older
<1> QED
  BY <1>3, <1>4, <1>5 DEF Behind

LEMMA AppendKeeps ==
  ASSUME NEW w \in Workers, NEW q \in Seq(Message), NEW k, NEW d, NEW m \in Message
  PROVE  /\ \A s, n : Behind(w, q, k, d, s, n) /\ (m.src = s => m.n < n)
                        => Behind(w, Append(q, m), k, d, s, n)
         /\ Ordered(w, q, k, d) /\ Behind(w, q, k, d, m.src, m.n) => Ordered(w, Append(q, m), k, d)
<1> DEFINE a == Append(q, m)
<1>1. /\ \A s, n : Older(q, s, n) /\ (m.src = s => m.n < n) => Older(a, s, n)
      /\ Rising(q) /\ Older(q, m.src, m.n) => Rising(a)
      /\ \A s, n : Newer(q, s, n) /\ (m.src = s => n < m.n) => Newer(a, s, n)
  BY AppendOrder
<1>2. \A i \in 1..Len(a) : a[i] = m \/ (i \in 1..Len(q) /\ a[i] = q[i])
  OBVIOUS
<1> HIDE DEF a
<1>3. \A s, n : Behind(w, q, k, d, s, n) /\ (m.src = s => m.n < n) => Behind(w, a, k, d, s, n)
  BY <1>1 DEF Behind
<1>4. ASSUME Ordered(w, q, k, d), Behind(w, q, k, d, m.src, m.n) PROVE Ordered(w, a, k, d)
  <2>1. Rising(a)
    BY <1>1, <1>4 DEF Ordered, Behind
  <2>2. \A i \in 1..Len(a) : d[<<w, a[i].src>>] <= a[i].n * MaxChunks
    BY <1>2, <1>4 DEF Ordered, Behind
  <2>3. BusyState(k) => Newer(a, k.msg.src, k.msg.n)
    BY <1>1, <1>4 DEF Ordered, Behind
  <2> QED
    BY <1>4, <2>1, <2>2, <2>3 DEF Ordered
<1> QED
  BY <1>3, <1>4 DEF a

LEMMA TakeKeeps ==
  ASSUME NEW w \in Workers, NEW q \in Seq(Message), q # <<>>, NEW k, ~BusyState(k),
         NEW d \in Deliveries, NEW k2,
         k2 = k \/ k2 = [pc |-> "limit", msg |-> Head(q), chunk |-> 1, of |-> k2.of, attempt |-> 0]
  PROVE  /\ \A s, n : Behind(w, q, k, d, s, n) => Behind(w, Tail(q), k2, d, s, n)
         /\ Ordered(w, q, k, d) => Ordered(w, Tail(q), k2, d)
<1>1. /\ \A s, n : Older(q, s, n) => Older(Tail(q), s, n) /\ (Head(q).src = s => Head(q).n < n)
      /\ Rising(q) => Rising(Tail(q)) /\ Newer(Tail(q), Head(q).src, Head(q).n)
      /\ \A i \in 1..Len(Tail(q)) : Tail(q)[i] = q[i + 1] /\ i + 1 \in 1..Len(q)
  BY TailOrder
<1>2. BusyState(k2) => k2.msg = Head(q) /\ k2.chunk = 1
  OBVIOUS
<1>3. \A s, n : Behind(w, q, k, d, s, n) => Behind(w, Tail(q), k2, d, s, n)
  BY <1>1, <1>2 DEF Behind
<1>4. ASSUME Ordered(w, q, k, d) PROVE Ordered(w, Tail(q), k2, d)
  <2>1. \A i \in 1..Len(Tail(q)) : d[<<w, Tail(q)[i].src>>] <= Tail(q)[i].n * MaxChunks
    BY <1>1, <1>4 DEF Ordered
  <2>2. d[<<w, Head(q).src>>] <= Position(Head(q), 1)
    <3>1. Head(q) = q[1] /\ 1 \in 1..Len(q) /\ Head(q) \in Message
      OBVIOUS
    <3>2. Head(q).n * MaxChunks \in Nat /\ d[<<w, Head(q).src>>] \in Nat
      BY <3>1, ManagerAssumption DEF Message, Deliveries
    <3>3. d[<<w, Head(q).src>>] <= Head(q).n * MaxChunks
      BY <1>4, <3>1 DEF Ordered
    <3> QED
      BY <3>2, <3>3 DEF Position
  <2> QED
    BY <1>1, <1>2, <1>4, <2>1, <2>2 DEF Ordered
<1> QED
  BY <1>3, <1>4

LEMMA ChunkKeeps ==
  ASSUME NEW w \in Workers, NEW q, NEW k \in WorkerState, BusyState(k), NEW d \in Deliveries,
         NEW k2, BusyState(k2) => k2.msg = k.msg /\ k2.chunk \in Nat /\ k.chunk <= k2.chunk
  PROVE  /\ \A s, n : Behind(w, q, k, d, s, n) => Behind(w, q, k2, d, s, n)
         /\ Ordered(w, q, k, d) => Ordered(w, q, k2, d)
<1>1. \A s, n : Behind(w, q, k, d, s, n) => Behind(w, q, k2, d, s, n)
  BY DEF Behind
<1>2. ASSUME Ordered(w, q, k, d), BusyState(k2)
      PROVE  d[<<w, k2.msg.src>>] <= Position(k2.msg, k2.chunk)
  <2>1. k.chunk \in Nat /\ k.msg.n * MaxChunks \in Nat /\ d[<<w, k.msg.src>>] \in Nat
    BY ManagerAssumption DEF WorkerState, Message, Deliveries
  <2>2. d[<<w, k.msg.src>>] <= k.msg.n * MaxChunks + k.chunk
    BY <1>2 DEF Ordered, Position
  <2>3. k2.msg = k.msg /\ k2.chunk \in Nat /\ k.chunk <= k2.chunk
    BY <1>2
  <2> QED
    BY <2>1, <2>2, <2>3 DEF Position
<1> QED
  BY <1>1, <1>2 DEF Ordered

Delivers(w, k, d, d2) == d2 = [d EXCEPT ![<<w, k.msg.src>>] = Position(k.msg, k.chunk)]

LEMMA DeliveryKeeps ==
  ASSUME NEW w \in Workers, NEW q \in Seq(Message), NEW k \in WorkerState, BusyState(k),
         NEW d \in Deliveries, NEW d2,
         Delivers(w, k, d, d2), Ordered(w, q, k, d)
  PROVE  /\ \A s \in Sources, n \in Nat : Behind(w, q, k, d, s, n) => Behind(w, q, k, d2, s, n)
         /\ Ordered(w, q, k, d2)
         /\ \A x \in Workers \X Sources : d[x] <= d2[x]
<1> DEFINE src == k.msg.src
           n0 == k.msg.n
<1>1. /\ src \in Sources /\ n0 \in Nat /\ k.chunk \in 0..MaxChunks
      /\ <<w, src>> \in Workers \X Sources
  BY DEF WorkerState, Message
<1>2. Position(k.msg, k.chunk) \in Nat
  <2>1. k.msg.n \in Nat /\ k.chunk \in Nat
    BY <1>1, ManagerAssumption
  <2> QED
    BY <2>1, PositionTyped
<1>3. /\ d2[<<w, src>>] = n0 * MaxChunks + k.chunk
      /\ \A s \in Sources : s # src => d2[<<w, s>>] = d[<<w, s>>]
      /\ \A x \in Workers \X Sources : d2[x] = IF x = <<w, src>> THEN Position(k.msg, k.chunk) ELSE d[x]
  BY <1>1 DEF Deliveries, Position, Delivers
<1>4. \A m \in Nat : n0 < m => d2[<<w, src>>] <= m * MaxChunks
  BY <1>1, <1>3, LaterPosition
<1>5. ASSUME NEW s \in Sources, NEW n \in Nat, Behind(w, q, k, d, s, n)
      PROVE  Behind(w, q, k, d2, s, n)
  BY <1>3, <1>4, <1>5 DEF Behind
<1>6. ASSUME NEW i \in 1..Len(q) PROVE d2[<<w, q[i].src>>] <= q[i].n * MaxChunks
  <2>1. q[i].src \in Sources /\ q[i].n \in Nat
    <3>1. q[i] \in Message
      OBVIOUS
    <3> QED
      BY <3>1 DEF Message
  <2>2. CASE q[i].src = src
    BY <1>4, <2>1, <2>2 DEF Ordered, Newer
  <2>3. CASE q[i].src # src
    BY <1>3, <2>1, <2>3 DEF Ordered
  <2> QED
    BY <2>2, <2>3
<1>7. d2[<<w, src>>] <= Position(k.msg, k.chunk)
  BY <1>2, <1>3 DEF Position
<1>8. Ordered(w, q, k, d2)
  BY <1>6, <1>7 DEF Ordered
<1>9. \A x \in Workers \X Sources : d[x] <= d2[x]
  <2>1. \A x \in Workers \X Sources : d[x] \in Nat
    BY DEF Deliveries
  <2> QED
    BY <1>3, <2>1 DEF Ordered
<1> QED
  BY <1>5, <1>8, <1>9

---------------------------------------------------------------------------
(* The messages that may still come to a worker of lane l: on the bus, in  *)
(* the hands of a dispatcher or of a SendToChannel, or not yet issued.     *)
Carrying(l) == disp[l].pc \in {"lookup", "enqueue"}
Coming(l, s, n) ==
    \/ s = "bus" /\ \E i \in 1..Len(busq[l]) : n = busq[l][i].n
    \/ s = "bus" /\ Carrying(l) /\ n = disp[l].msg.n
    \/ l = "text" /\ s \in Senders /\ api[s].pc # "idle" /\ n = api[s].msg.n
    \/ n = sent[<<s, l>>] + 1

WorkersOrdered == \A w \in Workers : ~Gone(w) => Ordered(w, queue[w], wk[w], last)
WorkersBehind ==
    \A w \in Workers, s \in Sources, n \in Nat :
        Coming(w[1], s, n) => Behind(w, queue[w], wk[w], last, s, n)
LanesOrdered ==
    \A l \in Lanes :
        /\ Rising(busq[l])
        /\ \A i \in 1..Len(busq[l]) : busq[l][i].src = "bus" /\ busq[l][i].n <= sent[<<"bus", l>>]
        /\ Carrying(l) => /\ disp[l].msg.src = "bus" /\ disp[l].msg.n <= sent[<<"bus", l>>]
                          /\ Newer(busq[l], "bus", disp[l].msg.n)
CallsOrdered ==
    \A s \in Senders : api[s].pc # "idle" =>
        /\ api[s].msg.src = s /\ api[s].msg.n = sent[<<s, "text">>]
        /\ api[s].pc = "direct" => api[s].msg.to \notin workers

OInv == WorkersOrdered /\ WorkersBehind /\ LanesOrdered /\ CallsOrdered

(* A step that leaves the workers, and lets them expect no more than one   *)
(* message of source s0 on lane l0 further on, keeps what holds of them.   *)
NoneNewBut(l0, s0) ==
    \A l \in Lanes, s \in Sources, n \in Nat :
        Coming(l, s, n)' => Coming(l, s, n) \/ (l = l0 /\ s = s0 /\ n = sent[<<s, l>>] + 2)
LEMMA WorkersKeep ==
  ASSUME TInv, TInv', WorkersOrdered, WorkersBehind, UNCHANGED <<queue, wk, last>>,
         NEW l0 \in Lanes, NEW s0 \in Sources, NoneNewBut(l0, s0)
  PROVE  WorkersOrdered' /\ WorkersBehind'
<1>1. WorkersOrdered'
  BY DEF WorkersOrdered, Gone
<1>2. ASSUME NEW w \in Workers, NEW s \in Sources, NEW n \in Nat, Coming(w[1], s, n)'
      PROVE  Behind(w, queue[w], wk[w], last, s, n)
  <2>1. w[1] \in Lanes
    BY DEF Workers
  <2>2. CASE Coming(w[1], s, n)
    BY <2>2 DEF WorkersBehind
  <2>3. CASE n = sent[<<s, w[1]>>] + 2
    <3>1. sent[<<s, w[1]>>] \in Nat
      BY <2>1 DEF TInv, TypeOK
    <3>2. Behind(w, queue[w], wk[w], last, s, sent[<<s, w[1]>>] + 1)
      BY <3>1 DEF WorkersBehind, Coming
    <3>3. queue[w] \in Seq(Message) /\ wk[w] \in WorkerState /\ last \in Deliveries
      BY DEF TInv, TypeOK, Deliveries
    <3> QED
      BY <2>3, <3>1, <3>2, <3>3, BehindLater
  <2> QED
    BY <1>2, <2>1, <2>2, <2>3 DEF NoneNewBut
<1>3. WorkersBehind'
  BY <1>2 DEF WorkersBehind
<1> QED
  BY <1>1, <1>3

(* A message moves from the hands of a dispatcher or sender to a queue.    *)
NoneNewBefore(l0, m) ==
    \A l \in Lanes, s \in Sources, n \in Nat :
        Coming(l, s, n)' => Coming(l, s, n) /\ (l = l0 /\ s = m.src => m.n < n)

LEMMA WorkersEnqueue ==
  ASSUME TInv, WorkersOrdered, WorkersBehind, UNCHANGED <<wk, last>>,
         NEW w \in Workers, NEW m \in Message, m.src \in Sources, Coming(w[1], m.src, m.n),
         queue' = [queue EXCEPT ![w] = Append(@, m)], NoneNewBefore(w[1], m)
  PROVE  WorkersOrdered' /\ WorkersBehind'
<1>1. m.n \in Nat /\ queue[w] \in Seq(Message) /\ queue'[w] = Append(queue[w], m)
  BY DEF TInv, TypeOK, Message
<1>2. \A v \in Workers : v # w => queue'[v] = queue[v]
  BY DEF TInv, TypeOK
<1>3. Behind(w, queue[w], wk[w], last, m.src, m.n)
  BY <1>1 DEF WorkersBehind
<1>4. ASSUME NEW v \in Workers, ~Gone(v) PROVE Ordered(v, queue'[v], wk[v], last)
  <2>1. Ordered(v, queue[v], wk[v], last)
    BY <1>4 DEF WorkersOrdered
  <2> QED
    BY <1>1, <1>2, <1>3, <2>1, AppendKeeps
<1>5. ASSUME NEW v \in Workers, NEW s \in Sources, NEW n \in Nat, Coming(v[1], s, n)'
      PROVE  Behind(v, queue'[v], wk[v], last, s, n)
  <2>1. v[1] \in Lanes
    BY DEF Workers
  <2>2. Coming(v[1], s, n) /\ (v[1] = w[1] /\ s = m.src => m.n < n)
    BY <1>5, <2>1 DEF NoneNewBefore
  <2>3. Behind(v, queue[v], wk[v], last, s, n)
    BY <2>2 DEF WorkersBehind
  <2>4. CASE v = w
    <3>1. m.src = s => m.n < n
      BY <2>2, <2>4
    <3>2. Behind(w, Append(queue[w], m), wk[w], last, s, n)
      BY <1>1, <2>3, <2>4, <3>1, AppendKeeps
    <3> QED
      BY <1>1, <2>4, <3>2
  <2>5. CASE v # w
    BY <1>2, <2>3, <2>5
  <2> QED
    BY <2>4, <2>5
<1>6. WorkersOrdered'
  BY <1>4 DEF WorkersOrdered, Gone
<1>7. WorkersBehind'
  BY <1>5 DEF WorkersBehind
<1> QED
  BY <1>6, <1>7

(* One worker goes on: what it keeps, all keep.                            *)
LEMMA WorkerKeeps ==
  ASSUME TInv, WorkersOrdered, WorkersBehind, UNCHANGED <<busq, disp, api, sent>>,
         NEW w \in Workers,
         \A v \in Workers : v # w => queue'[v] = queue[v] /\ wk'[v] = wk[v],
         \A v \in Workers, s \in Sources : v # w => last'[<<v, s>>] = last[<<v, s>>],
         \A s \in Sources, n \in Nat : Behind(w, queue[w], wk[w], last, s, n)
                                         => Behind(w, queue'[w], wk'[w], last', s, n),
         ~Gone(w)' => ~Gone(w) /\ (Ordered(w, queue[w], wk[w], last)
                                     => Ordered(w, queue'[w], wk'[w], last'))
  PROVE  WorkersOrdered' /\ WorkersBehind'
<1>1. \A v \in Workers, s \in Sources, n \in Nat : Coming(v[1], s, n)' => Coming(v[1], s, n)
  BY DEF Coming, Carrying
<1>2. ASSUME NEW v \in Workers, v # w, NEW s \in Sources, NEW n \in Nat,
             Behind(v, queue[v], wk[v], last, s, n)
      PROVE  Behind(v, queue'[v], wk'[v], last', s, n)
  BY <1>2 DEF Behind
<1>3. ASSUME NEW v \in Workers, v # w, Ordered(v, queue[v], wk[v], last)
      PROVE  Ordered(v, queue'[v], wk'[v], last')
  <2>1. \A i \in 1..Len(queue[v]) : queue[v][i].src \in Sources
    <3>1. \A i \in 1..Len(queue[v]) : queue[v][i] \in Message
      BY DEF TInv, TypeOK
    <3> QED
      BY <3>1 DEF Message
  <2>2. wk[v].msg.src \in Sources
    BY DEF TInv, TypeOK, WorkerState, Message
  <2>3. queue'[v] = queue[v] /\ wk'[v] = wk[v]
    BY <1>3
  <2>4. \A i \in 1..Len(queue[v]) : last'[<<v, queue[v][i].src>>] = last[<<v, queue[v][i].src>>]
    BY <1>3, <2>1
  <2>5. last'[<<v, wk[v].msg.src>>] = last[<<v, wk[v].msg.src>>]
    BY <1>3, <2>2
  <2> QED
    BY <1>3, <2>3, <2>4, <2>5 DEF Ordered
<1>4. WorkersBehind'
  <2> SUFFICES ASSUME NEW v \in Workers, NEW s \in Sources, NEW n \in Nat, Coming(v[1], s, n)'
               PROVE  Behind(v, queue'[v], wk'[v], last', s, n)
    BY DEF WorkersBehind
  <2>1. Behind(v, queue[v], wk[v], last, s, n)
    BY <1>1 DEF WorkersBehind
  <2> QED
    BY <1>2, <2>1
<1>5. WorkersOrdered'
  <2> SUFFICES ASSUME NEW v \in Workers, ~Gone(v)'
               PROVE  Ordered(v, queue'[v], wk'[v], last')
    BY DEF WorkersOrdered
  <2>1. CASE v = w
    BY <2>1 DEF WorkersOrdered
  <2>2. CASE v # w
    <3>1. ~Gone(v)
      BY <2>2 DEF Gone
    <3> QED
      BY <1>3, <2>2, <3>1 DEF WorkersOrdered
  <2> QED
    BY <2>1, <2>2
<1> QED
  BY <1>4, <1>5

LEMMA StepOfWorker ==
  ASSUME TInv, WorkersOrdered, WorkersBehind, NEW w \in Workers, WorkerStep(w)
  PROVE  /\ WorkersOrdered' /\ WorkersBehind'
         /\ \A x \in Workers \X Sources : last[x] <= last'[x]
<1> DEFINE q == queue[w]
           k == wk[w]
<1>1. /\ q \in Seq(Message) /\ k \in WorkerState /\ last \in Deliveries /\ AtChunk(k)
      /\ queue \in [Workers -> Seq(Message)] /\ wk \in [Workers -> WorkerState]
  BY DEF TInv, TypeOK, Places, Deliveries
<1>2. \A x \in Workers \X Sources : last[x] <= last[x]
  BY <1>1 DEF Deliveries
<1>3. UNCHANGED <<busq, disp, api, sent>>
  BY DEF WorkerStep, Pick, Exit, Limit, SendOK, SendPermanent, SendTemporary, Backoff,
         WorkerUnchanged, busVars
<1>4. \A v \in Workers : v # w => queue'[v] = queue[v] /\ wk'[v] = wk[v]
  BY <1>1 DEF WorkerStep, Pick, Exit, Limit, SendOK, SendPermanent, SendTemporary, Backoff, NextChunk
<1>5. CASE Pick(w)
  <2>1. q # <<>> /\ queue'[w] = Tail(q) /\ last' = last /\ k.pc = "idle"
    BY <1>1, <1>5 DEF Pick
  <2>2. \/ wk'[w] = k
        \/ wk'[w] = [pc |-> "limit", msg |-> Head(q), chunk |-> 1, of |-> wk'[w].of, attempt |-> 0]
    BY <1>1, <1>5 DEF Pick
  <2>3. ~BusyState(k) /\ ~Gone(w)
    BY <2>1 DEF BusyState, Gone
  <2>4. /\ \A s, n : Behind(w, q, k, last, s, n) => Behind(w, Tail(q), wk'[w], last, s, n)
        /\ Ordered(w, q, k, last) => Ordered(w, Tail(q), wk'[w], last)
    BY <1>1, <2>1, <2>2, <2>3, TakeKeeps
  <2> QED
    BY <1>2, <1>3, <1>4, <2>1, <2>3, <2>4, WorkerKeeps
<1>6. CASE Exit(w)
  <2>1. queue' = queue /\ last' = last /\ wk'[w] = Exited
    BY <1>1, <1>6 DEF Exit
  <2>2. Gone(w)' /\ ~BusyState(wk'[w])
    BY <2>1 DEF Gone, Exited, Resting, BusyState
  <2>3. \A s, n : Behind(w, q, k, last, s, n) => Behind(w, q, wk'[w], last, s, n)
    BY <2>2 DEF Behind
  <2> QED
    BY <1>2, <1>3, <1>4, <2>1, <2>2, <2>3, WorkerKeeps
<1>7. ASSUME BusyState(k), UNCHANGED queue,
             BusyState(wk'[w]) => /\ wk'[w].msg = k.msg /\ wk'[w].chunk \in Nat
                                  /\ k.chunk <= wk'[w].chunk,
             last' = last \/ last' = [last EXCEPT ![<<w, k.msg.src>>] = Position(k.msg, k.chunk)]
      PROVE  /\ WorkersOrdered' /\ WorkersBehind'
             /\ \A x \in Workers \X Sources : last[x] <= last'[x]
  <2>1. ~Gone(w)
    BY <1>7 DEF BusyState, Gone
  <2>2. Ordered(w, q, k, last)
    BY <2>1 DEF WorkersOrdered
  <2>3. /\ \A s \in Sources, n \in Nat : Behind(w, q, k, last, s, n) => Behind(w, q, k, last', s, n)
        /\ Ordered(w, q, k, last')
        /\ \A x \in Workers \X Sources : last[x] <= last'[x]
        /\ last' \in Deliveries
    <3>1. CASE last' = last
      BY <1>1, <1>2, <2>2, <3>1
    <3>2. CASE last' = [last EXCEPT ![<<w, k.msg.src>>] = Position(k.msg, k.chunk)]
      <4>1. last' \in Deliveries
        <5>1. k.msg.n \in Nat /\ k.chunk \in Nat
          BY <1>1, ManagerAssumption DEF WorkerState, Message
        <5> QED
          BY <1>1, <3>2, <5>1, PositionTyped DEF Deliveries
      <4>2. /\ \A s \in Sources, n \in Nat : Behind(w, q, k, last, s, n)
                                               => Behind(w, q, k, last', s, n)
            /\ Ordered(w, q, k, last')
            /\ \A x \in Workers \X Sources : last[x] <= last'[x]
        <5>1. Delivers(w, k, last, last')
          BY <3>2 DEF Delivers
        <5> QED
          BY <1>1, <1>7, <2>2, <5>1, DeliveryKeeps
      <4> QED
        BY <4>1, <4>2
    <3> QED
      BY <1>7, <3>1, <3>2
  <2>4. /\ \A s, n : Behind(w, q, k, last', s, n) => Behind(w, q, wk'[w], last', s, n)
        /\ Ordered(w, q, wk'[w], last')
    BY <1>1, <1>7, <2>3, ChunkKeeps
  <2>5. \A v \in Workers, s \in Sources : v # w => last'[<<v, s>>] = last[<<v, s>>]
    BY <1>1, <1>7 DEF Deliveries
  <2>6. \A s \in Sources, n \in Nat : Behind(w, q, k, last, s, n)
                                        => Behind(w, queue'[w], wk'[w], last', s, n)
    BY <1>7, <2>3, <2>4
  <2>7. Ordered(w, queue'[w], wk'[w], last')
    BY <1>7, <2>4
  <2> QED
    BY <1>3, <1>4, <2>1, <2>3, <2>5, <2>6, <2>7, WorkerKeeps
<1>8. ASSUME NextChunk(w), BusyState(k)
      PROVE  BusyState(wk'[w]) => /\ wk'[w].msg = k.msg /\ wk'[w].chunk \in Nat
                                  /\ k.chunk <= wk'[w].chunk
  <2>1. k.chunk \in Nat
    BY <1>1, ManagerAssumption DEF WorkerState
  <2>2. CASE k.chunk < k.of
    BY <1>1, <1>8, <2>1, <2>2 DEF NextChunk
  <2>3. CASE ~(k.chunk < k.of)
    BY <1>1, <1>8, <2>3 DEF NextChunk, Idle, Resting, BusyState
  <2> QED
    BY <2>2, <2>3
<1>9. k.chunk \in Nat /\ k.chunk <= k.chunk
  BY <1>1, ManagerAssumption DEF WorkerState
<1>10. ASSUME NEW pc, wk' = [wk EXCEPT ![w].pc = pc]
       PROVE  wk'[w].msg = k.msg /\ wk'[w].chunk = k.chunk
  BY <1>1, <1>10 DEF WorkerState
<1>11. CASE Limit(w)
  BY <1>7, <1>8, <1>9, <1>10, <1>11 DEF Limit, BusyState
<1>12. CASE SendOK(w)
  BY <1>7, <1>8, <1>12 DEF SendOK, Delivered, BusyState
<1>13. CASE SendPermanent(w)
  BY <1>7, <1>8, <1>13 DEF SendPermanent, BusyState
<1>14. CASE SendTemporary(w)
  BY <1>7, <1>8, <1>9, <1>10, <1>14 DEF SendTemporary, Delivered, BusyState
<1>15. CASE Backoff(w)
  <2>1. BusyState(k)
    BY <1>15 DEF Backoff, BusyState
  <2>2. CASE NextChunk(w)
    BY <1>7, <1>8, <1>15, <2>1, <2>2 DEF Backoff
  <2>3. CASE wk' = [wk EXCEPT ![w] = [pc |-> "send", msg |-> @.msg, chunk |-> @.chunk,
                                      of |-> @.of, attempt |-> @.attempt + 1]]
    <3>1. wk'[w].msg = k.msg /\ wk'[w].chunk = k.chunk
      BY <1>1, <2>3
    <3> QED
      BY <1>7, <1>9, <1>15, <2>1, <3>1 DEF Backoff
  <2> QED
    BY <1>15, <2>2, <2>3 DEF Backoff
<1> QED
  BY <1>5, <1>6, <1>11, <1>12, <1>13, <1>14, <1>15 DEF WorkerStep

(* SendToChannel delivers on its own only where no worker does.            *)
LEMMA DirectKeeps ==
  ASSUME TInv, Waited, WorkersOrdered, WorkersBehind, CallsOrdered,
         NEW s \in Senders, ApiDirect(s),
         \A l \in Lanes, r \in Sources, n \in Nat : Coming(l, r, n)' => Coming(l, r, n)
  PROVE  /\ WorkersOrdered' /\ WorkersBehind'
         /\ \A x \in Workers \X Sources : last[x] <= last'[x]
<1> DEFINE m == api[s].msg
           w == <<"text", m.to>>
<1>1. /\ UNCHANGED <<queue, wk, sent, busq, disp>> /\ api[s].pc = "direct" /\ api'[s].pc = "idle"
      /\ last' = last \/ last' = [last EXCEPT ![<<w, s>>] = Position(m, 1)]
  BY DEF ApiDirect, ApiReturns, ApiUnchanged, TInv, TypeOK
<1>2. /\ m \in Message /\ m.to \in Channels /\ m.to \notin workers
      /\ m.n = sent[<<s, "text">>] /\ m.n \in Nat /\ s \in Sources /\ s # "bus" /\ m.src = s
  BY <1>1, ManagerAssumption DEF TInv, TypeOK, Places, ApiState, CallsOrdered, Message, Sources
<1>3. w \in Workers /\ w[1] = "text" /\ Gone(w) /\ <<w, s>> \in Workers \X Sources
  BY <1>2 DEF Workers, Lanes, Waited
<1>4. last \in Deliveries /\ 1 \in 0..MaxChunks /\ MaxChunks \in Nat
  BY ManagerAssumption DEF TInv, TypeOK, Deliveries
<1>5. /\ last[<<w, s>>] <= m.n * MaxChunks /\ m.n * MaxChunks \in Nat
      /\ Position(m, 1) = m.n * MaxChunks + 1
  <2>1. Coming("text", s, m.n)
    BY <1>1 DEF Coming
  <2>2. Behind(w, queue[w], wk[w], last, s, m.n)
    BY <1>2, <1>3, <2>1 DEF WorkersBehind
  <2> QED
    BY <1>2, <1>4, <2>2 DEF Behind, Position
<1>6. /\ \A v \in Workers, r \in Sources : <<v, r>> # <<w, s>> => last'[<<v, r>>] = last[<<v, r>>]
      /\ last'[<<w, s>>] = last[<<w, s>>] \/ last'[<<w, s>>] = Position(m, 1)
  BY <1>1, <1>3, <1>4 DEF Deliveries
<1>7. \A x \in Workers \X Sources : last[x] <= last'[x]
  <2>1. \A x \in Workers \X Sources : last[x] \in Nat
    BY <1>4 DEF Deliveries
  <2>2. \A x \in Workers \X Sources : x # <<w, s>> => last'[x] = last[x]
    BY <1>1, <1>4 DEF Deliveries
  <2> QED
    BY <1>5, <1>6, <2>1, <2>2, <1>3
<1> HIDE DEF m, w
<1>8. WorkersOrdered'
  <2> SUFFICES ASSUME NEW v \in Workers, ~Gone(v) PROVE Ordered(v, queue[v], wk[v], last')
    BY <1>1 DEF WorkersOrdered, Gone
  <2>1. v # w /\ Ordered(v, queue[v], wk[v], last)
    BY <1>3 DEF WorkersOrdered
  <2>2. \A r \in Sources : last'[<<v, r>>] = last[<<v, r>>]
    BY <1>6, <2>1
  <2>3. \A i \in 1..Len(queue[v]) : queue[v][i].src \in Sources
    <3>1. \A i \in 1..Len(queue[v]) : queue[v][i] \in Message
      BY DEF TInv, TypeOK
    <3> QED
      BY <3>1 DEF Message
  <2>4. wk[v].msg.src \in Sources
    BY DEF TInv, TypeOK, WorkerState, Message
  <2> QED
    BY <2>1, <2>2, <2>3, <2>4 DEF Ordered
<1>9. WorkersBehind'
  <2> SUFFICES ASSUME NEW v \in Workers, NEW r \in Sources, NEW n \in Nat, Coming(v[1], r, n)'
               PROVE  Behind(v, queue[v], wk[v], last', r, n)
    BY <1>1 DEF WorkersBehind
  <2>1. Behind(v, queue[v], wk[v], last, r, n)
    <3>1. v[1] \in Lanes
      BY DEF Workers
    <3> QED
      BY <3>1 DEF WorkersBehind
  <2>2. CASE <<v, r>> # <<w, s>>
    BY <1>6, <2>1, <2>2 DEF Behind
  <2>3. CASE <<v, r>> = <<w, s>>
    <3>1. v = w /\ r = s
      BY <2>3
    <3>2. n = m.n + 1
      BY <1>1, <1>2, <1>3, <3>1 DEF Coming
    <3>3. m.n * MaxChunks + 1 <= n * MaxChunks
      BY <1>2, <1>4, <3>2, LaterPosition
    <3>4. last'[<<w, s>>] <= n * MaxChunks
      BY <1>5, <1>6, <2>1, <3>1, <3>3 DEF Behind
    <3> QED
      BY <2>1, <3>1, <3>4 DEF Behind
  <2> QED
    BY <2>2, <2>3
<1> QED
  BY <1>7, <1>8, <1>9

LEMMA OrderInvariant == Spec => []OInv
<1>1. Init => OInv
  <2> SUFFICES ASSUME Init PROVE OInv
    OBVIOUS
  <2>1. /\ \A w \in Workers : queue[w] = <<>> /\ ~BusyState(wk[w])
        /\ \A l \in Lanes : busq[l] = <<>> /\ disp[l].pc = "subscribe"
        /\ \A s \in Senders : api[s].pc = "idle"
    BY DEF Init, Idle, Absent, Resting, BusyState
  <2>2. \A w \in Workers, s \in Sources : last[<<w, s>>] = 0
    BY DEF Init
  <2>3. \A n \in Nat : 0 <= n * MaxChunks
    BY ManagerAssumption
  <2>4. WorkersOrdered
    BY <2>1 DEF WorkersOrdered, Ordered, Rising
  <2>5. WorkersBehind
    BY <2>1, <2>2, <2>3 DEF WorkersBehind, Behind, Older
  <2>6. LanesOrdered
    BY <2>1 DEF LanesOrdered, Rising, Carrying
  <2>7. CallsOrdered
    BY <2>1 DEF CallsOrdered
  <2> QED
    BY <2>4, <2>5, <2>6, <2>7 DEF OInv
<1>2. TInv /\ TInv' /\ Waited /\ OInv /\ [Next]_vars => OInv'
  <2> SUFFICES ASSUME TInv, TInv', Waited, WorkersOrdered, WorkersBehind, LanesOrdered, CallsOrdered,
                      [Next]_vars
               PROVE  OInv'
    BY DEF OInv
  <2> USE DEF OInv
  <2>1. ASSUME UNCHANGED <<workers, busq, disp, queue, wk, api, sent, last>> PROVE OInv'
    BY <2>1 DEF WorkersOrdered, WorkersBehind, LanesOrdered, CallsOrdered, Coming, Carrying, Gone
  <2>2. ASSUME NEW l \in Lanes, NEW to \in Channels \cup Internal, Publish(l, to) PROVE OInv'
    <3> DEFINE n0 == sent[<<"bus", l>>]
               m == [src |-> "bus", n |-> n0 + 1, to |-> to]
    <3>1. n0 \in Nat /\ m \in Message /\ m.src = "bus" /\ m.n = n0 + 1 /\ busq[l] \in Seq(Message)
      <4>1. n0 \in Nat /\ busq[l] \in Seq(Message)
        BY DEF TInv, TypeOK, Sources
      <4>2. m \in Message
        BY <4>1 DEF Message, Sources
      <4> QED
        BY <4>1, <4>2
    <3>2. /\ UNCHANGED <<workers, disp, queue, wk, api, last>>
          /\ busq'[l] = Append(busq[l], m) /\ sent'[<<"bus", l>>] = n0 + 1
          /\ \A k \in Lanes : k # l => busq'[k] = busq[k]
          /\ \A x \in Sources \X Lanes : x # <<"bus", l>> => sent'[x] = sent[x]
      BY <2>2 DEF Publish, TInv, TypeOK, Sources, mapVars
    <3>3. \A i \in 1..Len(busq'[l]) : \/ busq'[l][i] = m
                                      \/ i \in 1..Len(busq[l]) /\ busq'[l][i] = busq[l][i]
      BY <3>1, <3>2
    <3> HIDE DEF m, n0
    <3>4. NoneNewBut(l, "bus")
      <4> SUFFICES ASSUME NEW k \in Lanes, NEW s \in Sources, NEW n \in Nat, Coming(k, s, n)',
                          ~(k = l /\ s = "bus")
                          \/ (k = l /\ s = "bus" /\ ~Coming(k, s, n))
                   PROVE  Coming(k, s, n) \/ (k = l /\ s = "bus" /\ n = sent[<<s, k>>] + 2)
        BY DEF NoneNewBut
      <4>1. CASE ~(k = l /\ s = "bus")
        BY <3>2, <4>1 DEF Coming, Carrying
      <4>2. CASE k = l /\ s = "bus"
        <5>1. n = n0 + 1 => Coming(k, s, n)
          BY <4>2 DEF Coming, n0
        <5>2. n = n0 + 1 + 1 => n = n0 + 2
          BY <3>1
        <5> QED
          BY <3>1, <3>2, <3>3, <4>2, <5>1, <5>2 DEF Coming, Carrying, n0
      <4> QED
        BY <4>1, <4>2
    <3>5. WorkersOrdered' /\ WorkersBehind'
      BY <3>2, <3>4, WorkersKeep DEF Sources
    <3>6. LanesOrdered'
      <4> SUFFICES ASSUME NEW k \in Lanes
                   PROVE  /\ Rising(busq'[k])
                          /\ \A i \in 1..Len(busq'[k]) : busq'[k][i].src = "bus"
                                                         /\ busq'[k][i].n <= sent'[<<"bus", k>>]
                          /\ Carrying(k) => /\ disp[k].msg.src = "bus"
                                            /\ disp[k].msg.n <= sent'[<<"bus", k>>]
                                            /\ Newer(busq'[k], "bus", disp[k].msg.n)
        BY <3>2 DEF LanesOrdered, Carrying
      <4>1. CASE k # l
        BY <3>2, <4>1 DEF LanesOrdered, Sources
      <4>2. CASE k = l
        <5>1. \A i \in 1..Len(busq[l]) : busq[l][i].n \in Nat
          <6>1. \A i \in 1..Len(busq[l]) : busq[l][i] \in Message
            BY <3>1
          <6> QED
            BY <6>1 DEF Message
        <5>2. Older(busq[l], "bus", n0 + 1)
          BY <3>1, <5>1 DEF LanesOrdered, Older, n0
        <5>3. Rising(busq'[l])
          BY <3>1, <3>2, <5>2, AppendOrder DEF LanesOrdered
        <5>4. \A i \in 1..Len(busq'[l]) : busq'[l][i].src = "bus" /\ busq'[l][i].n <= n0 + 1
          BY <3>1, <3>3, <5>1, SMTT(30) DEF LanesOrdered, n0
        <5>5. ASSUME Carrying(l)
              PROVE  disp[l].msg.src = "bus" /\ disp[l].msg.n < n0 + 1
                     /\ Newer(busq[l], "bus", disp[l].msg.n)
          <6>1. disp[l].msg.n \in Nat
            BY DEF TInv, TypeOK, DispatcherState, Message
          <6> QED
            BY <3>1, <5>5, <6>1 DEF LanesOrdered, n0
        <5>6. Carrying(l) => disp[l].msg.n <= n0 + 1 /\ Newer(busq'[l], "bus", disp[l].msg.n)
          <6>1. disp[l].msg.n \in Nat
            BY DEF TInv, TypeOK, DispatcherState, Message
          <6> QED
            BY <3>1, <3>2, <5>5, <6>1, AppendOrder
        <5> QED
          BY <3>2, <4>2, <5>3, <5>4, <5>5, <5>6
      <4> QED
        BY <4>1, <4>2
    <3>7. CallsOrdered'
      <4>1. \A s \in Senders : <<s, "text">> # <<"bus", l>> /\ <<s, "text">> \in Sources \X Lanes
        BY ManagerAssumption DEF Sources, Lanes
      <4> QED
        BY <3>2, <4>1 DEF CallsOrdered
    <3> QED
      BY <3>5, <3>6, <3>7
  <2>3. ASSUME CloseBus PROVE OInv'
    <3>1. /\ UNCHANGED <<workers, disp, queue, wk, api, sent, last>>
          /\ \A k \in Lanes : busq'[k] = <<>>
      BY <2>3 DEF CloseBus, mapVars
    <3>2. \A k \in Lanes, s \in Sources, n \in Nat : Coming(k, s, n)' => Coming(k, s, n)
      BY <3>1 DEF Coming, Carrying
    <3>3. WorkersOrdered' /\ WorkersBehind'
      BY <3>1, <3>2, WorkersKeep DEF NoneNewBut, Sources, Lanes
    <3> QED
      BY <3>1, <3>3 DEF LanesOrdered, CallsOrdered, Carrying, Rising, Newer
  <2>4. ASSUME NEW l \in Lanes, Subscribe(l) PROVE OInv'
    <3> DEFINE q == busq[l]
    <3>1. q # <<>> /\ q \in Seq(Message) /\ busq'[l] = Tail(q) /\ disp[l].pc = "subscribe"
      BY <2>4 DEF Subscribe, TInv, TypeOK
    <3>2. /\ UNCHANGED <<workers, queue, wk, api, sent, last>>
          /\ \A k \in Lanes : k # l => busq'[k] = busq[k] /\ disp'[k] = disp[k]
          /\ disp'[l] = disp[l] \/ disp'[l] = [pc |-> "lookup", msg |-> Head(q)]
      BY <2>4 DEF Subscribe, TInv, TypeOK, mapVars
    <3>3. 1 \in 1..Len(q) /\ Head(q) = q[1]
      BY <3>1
    <3>4. /\ \A i \in 1..Len(Tail(q)) : Tail(q)[i] = q[i + 1] /\ i + 1 \in 1..Len(q)
          /\ Rising(q) => Rising(Tail(q)) /\ Newer(Tail(q), Head(q).src, Head(q).n)
      BY <3>1, TailOrder
    <3>5. Carrying(l)' => disp'[l].msg = q[1]
      BY <3>1, <3>2, <3>3 DEF Carrying
    <3> HIDE DEF q
    <3>6. \A k \in Lanes, s \in Sources, n \in Nat : Coming(k, s, n)' => Coming(k, s, n)
      <4> SUFFICES ASSUME NEW k \in Lanes, NEW s \in Sources, NEW n \in Nat, Coming(k, s, n)'
                   PROVE  Coming(k, s, n)
        OBVIOUS
      <4>1. CASE k # l
        BY <3>2, <4>1 DEF Coming, Carrying
      <4>2. CASE k = l
        <5>1. \A i \in 1..Len(busq'[l]) : \E j \in 1..Len(q) : busq'[l][i] = q[j]
          BY <3>1, <3>4
        <5>2. Carrying(l)' /\ n = disp'[l].msg.n => \E j \in 1..Len(q) : n = q[j].n
          BY <3>3, <3>5
        <5> QED
          BY <3>2, <4>2, <5>1, <5>2 DEF Coming, q
      <4> QED
        BY <4>1, <4>2
    <3>7. WorkersOrdered' /\ WorkersBehind'
      BY <3>2, <3>6, WorkersKeep DEF NoneNewBut, Sources
    <3>8. LanesOrdered'
      <4>1. ASSUME NEW k \in Lanes, k # l
            PROVE  /\ Rising(busq'[k])
                   /\ \A i \in 1..Len(busq'[k]) : busq'[k][i].src = "bus"
                                                  /\ busq'[k][i].n <= sent'[<<"bus", k>>]
                   /\ Carrying(k)' => /\ disp'[k].msg.src = "bus"
                                      /\ disp'[k].msg.n <= sent'[<<"bus", k>>]
                                      /\ Newer(busq'[k], "bus", disp'[k].msg.n)
        BY <3>2, <4>1 DEF LanesOrdered, Carrying
      <4>2. /\ Rising(busq'[l])
            /\ \A i \in 1..Len(busq'[l]) : busq'[l][i].src = "bus"
                                           /\ busq'[l][i].n <= sent'[<<"bus", l>>]
        BY <3>1, <3>2, <3>4 DEF LanesOrdered, q
      <4>3. Carrying(l)' => /\ disp'[l].msg.src = "bus"
                            /\ disp'[l].msg.n <= sent'[<<"bus", l>>]
                            /\ Newer(busq'[l], "bus", disp'[l].msg.n)
        BY <3>1, <3>2, <3>3, <3>4, <3>5 DEF LanesOrdered, q
      <4> QED
        BY <4>1, <4>2, <4>3 DEF LanesOrdered
    <3>9. CallsOrdered'
      BY <3>2 DEF CallsOrdered
    <3> QED
      BY <3>7, <3>8, <3>9
  <2>5. ASSUME NEW l \in Lanes, SubscribeEnds(l) \/ Lookup(l) PROVE OInv'
    <3>1. UNCHANGED <<workers, busq, queue, wk, api, sent, last>>
      BY <2>5 DEF SubscribeEnds, Lookup, mapVars, busVars
    <3>2. \A k \in Lanes : Carrying(k)' => Carrying(k) /\ disp'[k].msg = disp[k].msg
      <4>1. disp \in [Lanes -> DispatcherState]
        BY DEF TInv, TypeOK
      <4>2. CASE SubscribeEnds(l)
        BY <4>1, <4>2 DEF SubscribeEnds, Carrying, DispatcherState
      <4>3. CASE Lookup(l)
        BY <4>1, <4>3 DEF Lookup, Carrying
      <4> QED
        BY <2>5, <4>2, <4>3
    <3>3. \A k \in Lanes, s \in Sources, n \in Nat : Coming(k, s, n)' => Coming(k, s, n)
      BY <3>1, <3>2 DEF Coming
    <3>4. WorkersOrdered' /\ WorkersBehind'
      BY <3>1, <3>3, WorkersKeep DEF NoneNewBut, Sources
    <3> QED
      BY <3>1, <3>2, <3>4 DEF LanesOrdered, CallsOrdered
  <2>6. ASSUME NEW l \in Lanes, Enqueue(l) PROVE OInv'
    <3> DEFINE m == disp[l].msg
               w == <<l, m.to>>
    <3>1. /\ UNCHANGED <<workers, busq, wk, api, sent, last>>
          /\ \A k \in Lanes : Carrying(k)' => disp'[k] = disp[k]
          /\ \/ queue' = queue
             \/ queue' = [queue EXCEPT ![w] = Append(@, m)] /\ ~Carrying(l)'
      <4>1. UNCHANGED <<workers, busq, wk, api, sent, last>>
        BY <2>6 DEF Enqueue, mapVars, busVars
      <4>2. disp' = disp \/ \E pc \in {"subscribe", "stopped"} :
                                disp' = [disp EXCEPT ![l] = [pc |-> pc, msg |-> NoMsg]]
        BY <2>6 DEF Enqueue
      <4>3. disp \in [Lanes -> DispatcherState]
        BY DEF TInv, TypeOK
      <4>4. \A k \in Lanes : Carrying(k)' => disp'[k] = disp[k]
        BY <4>2, <4>3 DEF Carrying
      <4>5. \/ queue' = queue
            \/ /\ queue' = [queue EXCEPT ![w] = Append(@, m)]
               /\ disp' = [disp EXCEPT ![l] = [pc |-> "subscribe", msg |-> NoMsg]]
        BY <2>6 DEF Enqueue
      <4>6. disp' = [disp EXCEPT ![l] = [pc |-> "subscribe", msg |-> NoMsg]] => ~Carrying(l)'
        BY <4>3 DEF Carrying
      <4> QED
        BY <4>1, <4>4, <4>5, <4>6
    <3>2. /\ m \in Message /\ m.to \in Channels /\ Carrying(l)
      BY <2>6 DEF Enqueue, Carrying, TInv, TypeOK, Places, DispatcherState
    <3>3. /\ m.src = "bus" /\ m.n <= sent[<<"bus", l>>] /\ Newer(busq[l], "bus", m.n)
          /\ m.n \in Nat /\ "bus" \in Sources /\ sent[<<"bus", l>>] \in Nat
      BY <3>2 DEF LanesOrdered, Message, Sources, TInv, TypeOK
    <3>4. w \in Workers /\ w[1] = l
      BY <3>2 DEF Workers
    <3>5. \A k \in Lanes, s \in Sources, n \in Nat : Coming(k, s, n)' => Coming(k, s, n)
      BY <3>1 DEF Coming, Carrying
    <3>6. WorkersOrdered' /\ WorkersBehind'
      <4>1. CASE queue' = queue
        BY <3>1, <3>3, <3>5, <4>1, WorkersKeep DEF NoneNewBut
      <4>2. CASE queue' = [queue EXCEPT ![w] = Append(@, m)] /\ ~Carrying(l)'
        <5>1. Coming(l, "bus", m.n)
          BY <3>2 DEF Coming
        <5>2. \A n \in Nat : Coming(l, "bus", n)' => m.n < n
          <6>1. \A i \in 1..Len(busq[l]) : busq[l][i].src = "bus" /\ m.n < busq[l][i].n
            BY <3>3 DEF LanesOrdered, Newer
          <6>2. "bus" \notin Senders
            BY ManagerAssumption
          <6> QED
            BY <3>1, <3>3, <4>2, <6>1, <6>2 DEF Coming
        <5>3. NoneNewBefore(l, m)
          BY <3>3, <3>5, <5>2 DEF NoneNewBefore
        <5>4. queue' = [queue EXCEPT ![w] = Append(@, m)]
          BY <4>2
        <5> HIDE DEF m, w
        <5> QED
          BY <3>1, <3>2, <3>3, <3>4, <5>1, <5>3, <5>4, WorkersEnqueue
      <4> QED
        BY <3>1, <4>1, <4>2
    <3>7. LanesOrdered'
      <4>1. \A k \in Lanes : Carrying(k)' => Carrying(k) /\ disp'[k] = disp[k]
        BY <3>1 DEF Carrying
      <4> QED
        BY <3>1, <4>1 DEF LanesOrdered
    <3> QED
      BY <3>1, <3>6, <3>7 DEF CallsOrdered
  <2>7. ASSUME NEW w \in Workers, WorkerStep(w) PROVE OInv'
    <3>1. WorkersOrdered' /\ WorkersBehind'
      BY <2>7, StepOfWorker
    <3>2. UNCHANGED <<workers, busq, disp, api, sent>>
      BY <2>7 DEF WorkerStep, Pick, Exit, Limit, SendOK, SendPermanent, SendTemporary, Backoff,
                  WorkerUnchanged, mapVars, busVars
    <3> QED
      BY <3>1, <3>2 DEF LanesOrdered, CallsOrdered, Carrying
  <2>8. ASSUME NEW s \in Senders, NEW c \in Channels, SendToChannel(s, c) PROVE OInv'
    <3> DEFINE n0 == sent[<<s, "text">>]
    <3>1. /\ UNCHANGED <<workers, busq, disp, queue, wk, last>>
          /\ sent'[<<s, "text">>] = n0 + 1 /\ n0 \in Nat
          /\ \A x \in Sources \X Lanes : x # <<s, "text">> => sent'[x] = sent[x]
          /\ \A r \in Senders : r # s => api'[r] = api[r]
          /\ s \in Sources /\ "text" \in Lanes
      BY <2>8 DEF SendToChannel, ApiUnchanged, TInv, TypeOK, Sources, Lanes, mapVars
    <3>2. /\ api[s].pc = "idle"
          /\ api'[s].pc # "idle" => /\ api'[s].msg.src = s /\ api'[s].msg.n = n0 + 1
                                    /\ api'[s].pc = "direct" => api'[s].msg.to \notin workers
      BY <2>8 DEF SendToChannel, TInv, TypeOK
    <3>3. s # "bus"
      BY ManagerAssumption
    <3>4. NoneNewBut("text", s)
      <4> SUFFICES ASSUME NEW k \in Lanes, NEW r \in Sources, NEW n \in Nat, Coming(k, r, n)'
                   PROVE  Coming(k, r, n) \/ (k = "text" /\ r = s /\ n = sent[<<r, k>>] + 2)
        BY DEF NoneNewBut
      <4>1. CASE ~(k = "text" /\ r = s)
        BY <3>1, <4>1 DEF Coming, Carrying
      <4>2. CASE k = "text" /\ r = s
        <5>1. n = n0 + 1 \/ n = n0 + 1 + 1
          BY <3>1, <3>2, <3>3, <4>2 DEF Coming
        <5>2. n = n0 + 1 => Coming(k, r, n)
          BY <4>2 DEF Coming
        <5> QED
          BY <3>1, <4>2, <5>1, <5>2
      <4> QED
        BY <4>1, <4>2
    <3>5. WorkersOrdered' /\ WorkersBehind'
      BY <3>1, <3>4, WorkersKeep
    <3>6. LanesOrdered'
      <4>1. \A l \in Lanes : sent'[<<"bus", l>>] = sent[<<"bus", l>>]
        BY <3>1, <3>3 DEF Sources
      <4> QED
        BY <3>1, <4>1 DEF LanesOrdered, Carrying
    <3>7. CallsOrdered'
      <4>1. \A r \in Senders : r # s => sent'[<<r, "text">>] = sent[<<r, "text">>]
        BY <3>1 DEF Sources
      <4> QED
        BY <3>1, <3>2, <4>1 DEF CallsOrdered
    <3> QED
      BY <3>5, <3>6, <3>7
  <2>9. ASSUME NEW s \in Senders, ApiEnqueue(s) PROVE OInv'
    <3> DEFINE m == api[s].msg
               w == <<"text", m.to>>
    <3>1. /\ UNCHANGED <<workers, busq, disp, wk, sent, last>>
          /\ \A r \in Senders : r # s => api'[r] = api[r]
          /\ \/ UNCHANGED <<queue, api>>
             \/ queue' = [queue EXCEPT ![w] = Append(@, m)] /\ api'[s].pc = "idle"
      <4>1. UNCHANGED <<workers, busq, disp, wk, sent, last>>
        BY <2>9 DEF ApiEnqueue, ApiUnchanged, mapVars
      <4>2. \/ UNCHANGED <<queue, api>>
            \/ queue' = [queue EXCEPT ![w] = Append(@, m)] /\ ApiReturns(s)
        BY <2>9 DEF ApiEnqueue
      <4>3. ApiReturns(s) => api'[s].pc = "idle" /\ \A r \in Senders : r # s => api'[r] = api[r]
        BY DEF ApiReturns, TInv, TypeOK
      <4> QED
        BY <4>1, <4>2, <4>3
    <3>2. m \in Message /\ m.to \in Channels /\ api[s].pc # "idle"
      BY <2>9 DEF ApiEnqueue, TInv, TypeOK, Places, ApiState
    <3>3. /\ m.src = s /\ m.n = sent[<<s, "text">>] /\ m.n \in Nat
          /\ s \in Sources /\ s # "bus" /\ "text" \in Lanes
      BY <3>2, ManagerAssumption DEF CallsOrdered, Message, Sources, Lanes
    <3>4. w \in Workers /\ w[1] = "text"
      BY <3>2 DEF Workers, Lanes
    <3>5. \A k \in Lanes, r \in Sources, n \in Nat : Coming(k, r, n)' => Coming(k, r, n)
      BY <3>1 DEF Coming, Carrying
    <3>6. WorkersOrdered' /\ WorkersBehind'
      <4>1. CASE queue' = queue
        BY <3>1, <3>3, <3>5, <4>1, WorkersKeep DEF NoneNewBut
      <4>2. CASE queue' = [queue EXCEPT ![w] = Append(@, m)] /\ api'[s].pc = "idle"
        <5>1. Coming("text", s, m.n)
          BY <3>2 DEF Coming
        <5>2. \A n \in Nat : Coming("text", s, n)' => m.n < n
          BY <3>1, <3>3, <4>2 DEF Coming
        <5>3. NoneNewBefore("text", m)
          BY <3>3, <3>5, <5>2 DEF NoneNewBefore
        <5>4. queue' = [queue EXCEPT ![w] = Append(@, m)]
          BY <4>2
        <5> HIDE DEF m, w
        <5> QED
          BY <3>1, <3>2, <3>3, <3>4, <5>1, <5>3, <5>4, WorkersEnqueue
      <4> QED
        BY <3>1, <4>1, <4>2
    <3>7. CallsOrdered'
      BY <3>1 DEF CallsOrdered
    <3> QED
      BY <3>1, <3>6, <3>7 DEF LanesOrdered, Carrying
  <2>10. ASSUME NEW s \in Senders, ApiGivesUp(s) PROVE OInv'
    <3>1. /\ UNCHANGED <<workers, busq, disp, queue, wk, sent, last>>
          /\ \A r \in Senders : api'[r].pc # "idle" => api'[r] = api[r]
      BY <2>10, ApiReturnsTyped DEF ApiGivesUp, ApiUnchanged, TInv, TypeOK, mapVars
    <3>2. \A k \in Lanes, r \in Sources, n \in Nat : Coming(k, r, n)' => Coming(k, r, n)
      BY <3>1 DEF Coming, Carrying
    <3>3. WorkersOrdered' /\ WorkersBehind'
      BY <3>1, <3>2, WorkersKeep DEF NoneNewBut, Sources, Lanes
    <3> QED
      BY <3>1, <3>3 DEF LanesOrdered, CallsOrdered, Carrying
  <2>11. ASSUME NEW s \in Senders, ApiDirect(s) PROVE OInv'
    <3>1. /\ UNCHANGED <<workers, busq, disp, queue, wk, sent>>
          /\ \A r \in Senders : api'[r].pc # "idle" => api'[r] = api[r]
          /\ api[s].pc = "direct" /\ api'[s].pc = "idle"
      BY <2>11, ApiReturnsTyped DEF ApiDirect, ApiReturns, ApiUnchanged, TInv, TypeOK, mapVars
    <3>2. \A k \in Lanes, r \in Sources, n \in Nat : Coming(k, r, n)' => Coming(k, r, n)
      BY <3>1 DEF Coming, Carrying
    <3>3. /\ WorkersOrdered' /\ WorkersBehind'
          /\ \A x \in Workers \X Sources : last[x] <= last'[x]
      BY <2>11, <3>1, <3>2, DirectKeeps
    <3> QED
      BY <3>1, <3>3 DEF LanesOrdered, CallsOrdered, Carrying
  <2>12. ASSUME UnregisterReturns PROVE OInv'
    <3>1. workers' \subseteq workers /\ UNCHANGED <<busq, disp, queue, wk, api, sent, last>>
      BY <2>12 DEF UnregisterReturns, AdminUnchanged, busVars
    <3>2. WorkersOrdered'
      BY <3>1 DEF WorkersOrdered, Coming, Carrying, Gone
    <3>3. WorkersBehind'
      BY <3>1 DEF WorkersBehind, Coming, Carrying, Gone
    <3>4. LanesOrdered'
      BY <3>1 DEF LanesOrdered, Carrying
    <3>5. CallsOrdered'
      BY <3>1 DEF CallsOrdered
    <3> QED
      BY <3>2, <3>3, <3>4, <3>5
  <2>13. ASSUME CancelRoot \/ StopAll \/ UnregisterMedia \/ StopText \/ StopMedia \/ StopReturns
                \/ \E c \in Channels : RegisterChannel(c) \/ UnregisterChannel(c)
         PROVE  OInv'
    BY <2>1, <2>13 DEF CancelRoot, StopAll, UnregisterMedia, StopText, StopMedia, StopReturns,
                       RegisterChannel, UnregisterChannel, AdminUnchanged, mapVars, busVars
  <2>14. CASE UNCHANGED vars
    BY <2>1, <2>14 DEF vars, mapVars, busVars
  <2> QED
    BY <2>2, <2>3, <2>4, <2>5, <2>6, <2>7, <2>8, <2>9, <2>10, <2>11, <2>12, <2>13, <2>14
       DEF Next, DispatcherStep, AdminStep, ApiStep
<1> QED
  BY <1>1, <1>2, TypeInvariant, StopInvariant, PTL DEF Spec

(* One chat hears one source in order (manager.go:452-660): per worker and *)
(* source, no delivery comes before or again after a later one.            *)
THEOREM DeliveriesInOrder == Spec => InOrder
<1>1. TInv /\ TInv' /\ Waited /\ OInv /\ [Next]_vars
        => [NoneEarlier]_vars
  <2> SUFFICES ASSUME TInv, Waited, OInv, Next
               PROVE  \A k \in Workers \X Sources : last[k] <= last'[k]
    BY DEF NoneEarlier
  <2>1. ASSUME UNCHANGED last PROVE \A k \in Workers \X Sources : last[k] <= last'[k]
    <3>1. \A x \in Workers \X Sources : last[x] \in Nat
      BY DEF TInv, TypeOK
    <3> QED
      BY <2>1, <3>1
  <2>2. ASSUME NEW w \in Workers, WorkerStep(w)
        PROVE  \A k \in Workers \X Sources : last[k] <= last'[k]
    BY <2>2, StepOfWorker DEF OInv
  <2>3. ASSUME NEW s \in Senders, ApiDirect(s)
        PROVE  \A k \in Workers \X Sources : last[k] <= last'[k]
    <3>1. UNCHANGED <<queue, wk, sent, busq, disp>>
          /\ \A r \in Senders : api'[r].pc # "idle" => api'[r] = api[r]
      BY <2>3, ApiReturnsTyped DEF ApiDirect, ApiUnchanged, TInv, TypeOK
    <3>2. \A l \in Lanes, r \in Sources, n \in Nat : Coming(l, r, n)' => Coming(l, r, n)
      BY <3>1 DEF Coming, Carrying
    <3> QED
      BY <2>3, <3>2, DirectKeeps DEF OInv
  <2>4. ASSUME NEW l \in Lanes, NEW to \in Channels \cup Internal, Publish(l, to) PROVE UNCHANGED last
    BY <2>4 DEF Publish
  <2>5. ASSUME NEW l \in Lanes, DispatcherStep(l) PROVE UNCHANGED last
    BY <2>5 DEF DispatcherStep, Subscribe, SubscribeEnds, Lookup, Enqueue
  <2>6. ASSUME NEW c \in Channels, RegisterChannel(c) \/ UnregisterChannel(c) PROVE UNCHANGED last
    BY <2>6 DEF RegisterChannel, UnregisterChannel, AdminUnchanged
  <2>7. ASSUME CancelRoot \/ CloseBus \/ StopAll \/ AdminStep PROVE UNCHANGED last
    BY <2>7 DEF CancelRoot, CloseBus, StopAll, AdminStep, UnregisterMedia, UnregisterReturns,
                StopText, StopMedia, StopReturns, AdminUnchanged
  <2>8. ASSUME NEW s \in Senders, ApiEnqueue(s) \/ ApiGivesUp(s) \/ \E c \in Channels : SendToChannel(s, c)
        PROVE  UNCHANGED last
    BY <2>8 DEF ApiEnqueue, ApiGivesUp, SendToChannel
  <2> QED
    BY <2>1, <2>2, <2>3, <2>4, <2>5, <2>6, <2>7, <2>8 DEF Next, ApiStep
<1> QED
  BY <1>1, TypeInvariant, StopInvariant, OrderInvariant, PTL DEF Spec, InOrder

=============================================================================
