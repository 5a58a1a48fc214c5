---------------------------- MODULE MessageBus ----------------------------
(***************************************************************************)
(* pkg/bus/bus.go: the three bounded Go channels between the chat          *)
(* channels, the agent loop and the channel manager.  A publisher first    *)
(* loads `closed`, then looks at its context, then blocks in a select; a   *)
(* consumer blocks in a select; Close wins a compare-and-swap, closes      *)
(* `done` and empties the three buffers one message at a time.  Every step *)
(* below is one atomic operation of one goroutine, so the gap between the  *)
(* load of `closed` and the select is visible to Close.                    *)
(*                                                                         *)
(* A message is represented by the goroutine that published it: nothing    *)
(* here depends on its content.                                            *)
(***************************************************************************)
EXTENDS Integers, Sequences, FiniteSets

CONSTANTS Publishers,  \* goroutines that call PublishInbound/Outbound/OutboundMedia
          Consumers,   \* goroutines that call ConsumeInbound/SubscribeOutbound(Media)
          Closers,     \* goroutines that call Close
          Capacity     \* defaultBusBufferSize

ASSUME CapacityAssumption == Capacity \in Nat \ {0}

Topics == {"inbound", "outbound", "outboundMedia"}

(* Close drains inbound, then outbound, then outboundMedia. *)
AfterDrain == [inbound |-> "outbound", outbound |-> "outboundMedia",
               outboundMedia |-> "returned"]

VARIABLES
    buf,        \* topic -> messages sitting in the Go channel
    closed,     \* mb.closed
    done,       \* is mb.done closed?
    pubPC,      \* publisher -> "idle", "loaded" (closed was false) or "select"
    pubTopic,   \* publisher -> topic of its call ("inbound" outside a call)
    pubCtx,     \* publisher -> is the context of its call cancelled?
    conPC,      \* consumer -> "idle" or "select"
    conTopic,   \* consumer -> topic of its call ("inbound" outside a call)
    conCtx,     \* consumer -> is the context of its call cancelled?
    closerPC,   \* closer -> "idle", "won", the topic it drains, "returned"; or
                \* "lost": it found the bus closed and returned at once
    drained,    \* drained > 0: the winner has thrown a message away
    atClose     \* history: publishers past the load of `closed` when it became true

pubVars == <<pubPC, pubTopic, pubCtx>>
conVars == <<conPC, conTopic, conCtx>>
closeVars == <<closed, done, closerPC, drained, atClose>>
vars == <<buf, pubVars, conVars, closeVars>>

InFlight == {p \in Publishers : pubPC[p] # "idle"}

Init ==
    /\ buf = [t \in Topics |-> <<>>]
    /\ closed = FALSE
    /\ done = FALSE
    /\ pubPC = [p \in Publishers |-> "idle"]
    /\ pubTopic = [p \in Publishers |-> "inbound"]
    /\ pubCtx = [p \in Publishers |-> FALSE]
    /\ conPC = [c \in Consumers |-> "idle"]
    /\ conTopic = [c \in Consumers |-> "inbound"]
    /\ conCtx = [c \in Consumers |-> FALSE]
    /\ closerPC = [k \in Closers |-> "idle"]
    /\ drained = FALSE
    /\ atClose = {}

---------------------------------------------------------------------------
PublishReturns(p) ==
    /\ pubPC' = [pubPC EXCEPT ![p] = "idle"]
    /\ pubTopic' = [pubTopic EXCEPT ![p] = "inbound"]
    /\ pubCtx' = [pubCtx EXCEPT ![p] = FALSE]

ReceiveReturns(c) ==
    /\ conPC' = [conPC EXCEPT ![c] = "idle"]
    /\ conTopic' = [conTopic EXCEPT ![c] = "inbound"]
    /\ conCtx' = [conCtx EXCEPT ![c] = FALSE]

(* Fault: the load of `closed` is forgotten. *)
LoadClosedUnchecked(p, t) ==
    /\ pubPC[p] = "idle"
    /\ pubPC' = [pubPC EXCEPT ![p] = "loaded"]
    /\ pubTopic' = [pubTopic EXCEPT ![p] = t]
    /\ UNCHANGED <<buf, pubCtx, conVars, closeVars>>

(* Publish*: a call that finds the bus closed returns ErrBusClosed and     *)
(* changes nothing, so only the call that goes on is an action.            *)
LoadClosed(p, t) ==
    /\ pubPC[p] = "idle"
    /\ ~closed
    /\ pubPC' = [pubPC EXCEPT ![p] = "loaded"]
    /\ pubTopic' = [pubTopic EXCEPT ![p] = t]
    /\ UNCHANGED <<buf, pubCtx, conVars, closeVars>>

CheckCtx(p) ==
    /\ pubPC[p] = "loaded"
    /\ \/ pubCtx[p] /\ PublishReturns(p)
       \/ /\ ~pubCtx[p]
          /\ pubPC' = [pubPC EXCEPT ![p] = "select"]
          /\ UNCHANGED <<pubTopic, pubCtx>>
    /\ UNCHANGED <<buf, conVars, closeVars>>

(* select, case mb.<topic> <- msg: the call returns nil. *)
Send(p) ==
    /\ pubPC[p] = "select"
    /\ Len(buf[pubTopic[p]]) < Capacity
    /\ buf' = [buf EXCEPT ![pubTopic[p]] = Append(@, p)]
    /\ PublishReturns(p)
    /\ UNCHANGED <<conVars, closeVars>>

(* select, case <-mb.done and case <-ctx.Done(): the call returns an error. *)
GiveUp(p) ==
    /\ pubPC[p] = "select"
    /\ done \/ pubCtx[p]
    /\ PublishReturns(p)
    /\ UNCHANGED <<buf, conVars, closeVars>>

CancelPublish(p) ==
    /\ pubPC[p] # "idle"
    /\ ~pubCtx[p]
    /\ pubCtx' = [pubCtx EXCEPT ![p] = TRUE]
    /\ UNCHANGED <<buf, pubPC, pubTopic, conVars, closeVars>>

---------------------------------------------------------------------------
(* ConsumeInbound, SubscribeOutbound, SubscribeOutboundMedia.  They do not *)
(* look at `closed`: after Close the select may still pick a message.      *)
EnterReceive(c, t) ==
    /\ conPC[c] = "idle"
    /\ conPC' = [conPC EXCEPT ![c] = "select"]
    /\ conTopic' = [conTopic EXCEPT ![c] = t]
    /\ UNCHANGED <<buf, conCtx, pubVars, closeVars>>

Receive(c) ==
    /\ conPC[c] = "select"
    /\ buf[conTopic[c]] # <<>>
    /\ buf' = [buf EXCEPT ![conTopic[c]] = Tail(@)]
    /\ ReceiveReturns(c)
    /\ UNCHANGED <<pubVars, closeVars>>

StopReceiving(c) ==
    /\ conPC[c] = "select"
    /\ done \/ conCtx[c]
    /\ ReceiveReturns(c)
    /\ UNCHANGED <<buf, pubVars, closeVars>>

CancelReceive(c) ==
    /\ conPC[c] = "select"
    /\ ~conCtx[c]
    /\ conCtx' = [conCtx EXCEPT ![c] = TRUE]
    /\ UNCHANGED <<buf, conPC, conTopic, pubVars, closeVars>>

---------------------------------------------------------------------------
(* Fault: `closed` is left for the end of Close to set. *)
CompareAndSwapLate(k) ==
    /\ closerPC[k] = "idle"
    /\ closerPC' = [closerPC EXCEPT ![k] = IF closed THEN "lost" ELSE "won"]
    /\ UNCHANGED <<buf, closed, done, drained, atClose, pubVars, conVars>>

(* Close.  The compare-and-swap lets one caller through; every other       *)
(* caller returns at once, whether or not the drain has finished.          *)
CompareAndSwap(k) ==
    /\ closerPC[k] = "idle"
    /\ closed' = TRUE
    /\ closerPC' = [closerPC EXCEPT ![k] = IF closed THEN "lost" ELSE "won"]
    /\ atClose' = IF closed THEN atClose ELSE InFlight
    /\ UNCHANGED <<buf, done, drained, pubVars, conVars>>

CloseDone(k) ==
    /\ closerPC[k] = "won"
    /\ done' = TRUE
    /\ closerPC' = [closerPC EXCEPT ![k] = "inbound"]
    /\ UNCHANGED <<buf, closed, drained, atClose, pubVars, conVars>>

DrainOne(k) ==
    /\ closerPC[k] \in Topics
    /\ buf[closerPC[k]] # <<>>
    /\ buf' = [buf EXCEPT ![closerPC[k]] = Tail(@)]
    /\ drained' = TRUE
    /\ UNCHANGED <<closed, done, closerPC, atClose, pubVars, conVars>>

(* Fault: a drain loop without default branch blocks on the empty channel. *)
DrainNextBlocked(k) ==
    /\ closerPC[k] \in Topics
    /\ buf[closerPC[k]] = <<>>
    /\ FALSE
    /\ UNCHANGED vars

(* The default branch of the drain's select. *)
DrainNext(k) ==
    /\ closerPC[k] \in Topics
    /\ buf[closerPC[k]] = <<>>
    /\ closerPC' = [closerPC EXCEPT ![k] = AfterDrain[@]]
    /\ UNCHANGED <<buf, closed, done, drained, atClose, pubVars, conVars>>

---------------------------------------------------------------------------
PublisherStep(p) == CheckCtx(p) \/ Send(p) \/ GiveUp(p)
ConsumerStep(c)  == Receive(c) \/ StopReceiving(c)
CloserStep(k)    == CloseDone(k) \/ DrainOne(k) \/ DrainNext(k)

Next ==
    \/ \E p \in Publishers :
          \/ \E t \in Topics : LoadClosed(p, t)
          \/ PublisherStep(p)
          \/ CancelPublish(p)
    \/ \E c \in Consumers :
          \/ \E t \in Topics : EnterReceive(c, t)
          \/ ConsumerStep(c)
          \/ CancelReceive(c)
    \/ \E k \in Closers : CompareAndSwap(k) \/ CloserStep(k)

Spec == Init /\ [][Next]_vars

(* A goroutine that can run does run: the Go scheduler is preemptive.      *)
(* Nobody is obliged to start a call, to cancel a context or to close.     *)
Fairness ==
    /\ \A p \in Publishers : WF_vars(PublisherStep(p))
    /\ \A c \in Consumers : WF_vars(ConsumerStep(c))
    /\ \A k \in Closers : WF_vars(CloserStep(k))

FairSpec == Spec /\ Fairness

---------------------------------------------------------------------------
(* Type correctness: the buffers never exceed their capacity, `done` is    *)
(* closed only after `closed` was set, and the history names publishers.   *)
TypeOK ==
    /\ buf \in [Topics -> Seq(Publishers)]
    /\ \A t \in Topics : Len(buf[t]) <= Capacity
    /\ closed \in BOOLEAN
    /\ done \in BOOLEAN
    /\ pubPC \in [Publishers -> {"idle", "loaded", "select"}]
    /\ pubTopic \in [Publishers -> Topics]
    /\ pubCtx \in [Publishers -> BOOLEAN]
    /\ conPC \in [Consumers -> {"idle", "select"}]
    /\ conTopic \in [Consumers -> Topics]
    /\ conCtx \in [Consumers -> BOOLEAN]
    /\ closerPC \in [Closers -> {"idle", "won", "returned", "lost"} \cup Topics]
    /\ drained \in BOOLEAN
    /\ atClose \in SUBSET Publishers

(* Where the winning Close stands once a topic is behind it. *)
DrainedBy == [inbound |-> {"outbound", "outboundMedia", "returned"},
              outbound |-> {"outboundMedia", "returned"},
              outboundMedia |-> {"returned"}]
Drained(t) == \E k \in Closers : closerPC[k] \in DrainedBy[t]

AllIn(s, S) == \A i \in 1..Len(s) : s[i] \in S
Distinct(s) == \A i, j \in 1..Len(s) : i # j => s[i] # s[j]

(* What Close leaves behind is bounded by what was already under way: every *)
(* message in a topic it has drained was being published when it set        *)
(* `closed`, no publisher left two, and a publisher still inside its call    *)
(* has left none.  This is what the load of `closed` in Publish* and the     *)
(* exhaustive drain loops are for (bus.go:34, 124-150).                      *)
StrandedWerePublishing ==
    \A t \in Topics : Drained(t) =>
        /\ AllIn(buf[t], atClose \ InFlight)
        /\ Distinct(buf[t])

(* bus.go:121: "Drain buffered channels so messages aren't silently lost".  *)
(* Read as: once Close has returned and no publisher is inside a call, every *)
(* accepted message was either consumed or counted by the drain.             *)
NothingStranded ==
    (\E k \in Closers : closerPC[k] = "returned") /\ InFlight = {}
        => \A t \in Topics : buf[t] = <<>>

(* Close never waits on anybody: it returns however full the buffers are    *)
(* and whatever the publishers do meanwhile.                                 *)
CloseReturns ==
    \A k \in Closers : closerPC[k] = "won" ~> closerPC[k] = "returned"

(* The bus implements the mailboxes of Mailboxes.tla: nobody is admitted    *)
(* after closing, an admitted publisher hands over at most one message, and  *)
(* no message is thrown away while the bus is open.                          *)
M == INSTANCE Mailboxes WITH open <- ~closed, admitted <- InFlight,
                             pending <- buf, lost <- drained
ImplementsMailboxes == M!Spec

=============================================================================
