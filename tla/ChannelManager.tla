-------------------------- MODULE ChannelManager --------------------------
(***************************************************************************)
(* pkg/channels/manager.go, the outbound half of the channel manager: two  *)
(* dispatchers (text and media) take messages off the bus and put them on  *)
(* the queue of the destination's worker; each worker sends one message at *)
(* a time, chunk by chunk, with rate limit and bounded retries.  Beside    *)
(* them run SendToChannel callers and one administrator that registers and *)
(* unregisters channels and finally stops the manager.                     *)
(*                                                                         *)
(* The behaviours start when StartAll has returned.  A worker is created   *)
(* only there, so a channel has at most one in the life of a manager and   *)
(* the pointer a goroutine holds to it is modelled by the channel's name.  *)
(* A goroutine takes one step per channel operation, lock section or call  *)
(* to the platform.  A panic ends the process: nothing moves after it.     *)
(***************************************************************************)
EXTENDS Integers, Sequences, FiniteSets

CONSTANTS Channels,      \* chat channels the manager was created with
          Internal,      \* destinations that are never delivered ("cli", "system", ...)
          MediaSenders,  \* channels that implement MediaSender
          Senders,       \* goroutines that call SendToChannel
          QueueSize,     \* defaultChannelQueueSize
          MaxRetries,    \* maxRetries
          MaxChunks,     \* bound: pieces SplitMessage makes of a message
          MaxPublished,  \* bound: lane -> messages published on the bus
          MaxCalls       \* bound: SendToChannel calls of each sender

ASSUME ManagerAssumption ==
    /\ QueueSize \in Nat \ {0}
    /\ MaxRetries \in Nat
    /\ MaxChunks \in Nat \ {0}
    /\ Channels \cap Internal = {}
    /\ "bus" \notin Senders

Lanes == {"text", "media"}
Workers == Lanes \X Channels
Sources == Senders \cup {"bus"}

VARIABLES
    registered,  \* domain of m.channels
    workers,     \* domain of m.workers
    lock,        \* is m.mu write-locked?
    cancelled,   \* is the dispatch context cancelled?
    busq,        \* lane -> messages waiting on the bus
    busDone,     \* has the bus been closed?
    disp,        \* lane -> dispatcher: [pc, msg]
    queue,       \* worker -> its Go channel
    qclosed,     \* worker -> was that channel closed?
    wk,          \* worker -> [pc, msg, chunk, of, attempt]
    admin,       \* [pc, ch] of the goroutine that (un)registers and stops
    api,         \* sender -> [pc, msg]
    sent,        \* source, lane -> messages issued so far, their sequence number
    last,        \* history: worker, source -> position of the last delivery
    crashed      \* a send on a closed channel panicked

mapVars == <<registered, workers, lock>>
busVars == <<busq, busDone, sent>>
vars == <<mapVars, cancelled, busVars, disp, queue, qclosed, wk, admin, api, last, crashed>>

NoMsg == [src |-> "bus", n |-> 0, to |-> "none"]
Resting(pc) == [pc |-> pc, msg |-> NoMsg, chunk |-> 0, of |-> 0, attempt |-> 0]
Absent == Resting("absent")
Idle == Resting("idle")
Exited == Resting("exited")

(* Deliveries of one source are ordered by message, then by chunk.         *)
Position(msg, chunk) == msg.n * MaxChunks + chunk

(* StartAll has returned: a channel that failed to start has no worker.    *)
Init ==
    /\ registered = Channels
    /\ workers \in SUBSET Channels
    /\ lock = FALSE
    /\ cancelled = FALSE
    /\ busq = [l \in Lanes |-> <<>>]
    /\ busDone = FALSE
    /\ disp = [l \in Lanes |-> [pc |-> "subscribe", msg |-> NoMsg]]
    /\ queue = [w \in Workers |-> <<>>]
    /\ qclosed = [w \in Workers |-> FALSE]
    /\ wk = [w \in Workers |-> IF w[2] \in workers THEN Idle ELSE Absent]
    /\ admin = [pc |-> "idle", ch |-> "none"]
    /\ api = [s \in Senders |-> [pc |-> "idle", msg |-> NoMsg]]
    /\ sent = [k \in Sources \X Lanes |-> 0]
    /\ last = [k \in Workers \X Sources |-> 0]
    /\ crashed = FALSE

---------------------------------------------------------------------------
(* The bus and the root context, driven by the rest of the process.  A     *)
(* message may still come after the close (MessageBus, NothingStranded).   *)
Publish(l, to) ==
    /\ ~crashed
    /\ sent[<<"bus", l>>] < MaxPublished[l]
    /\ sent' = [sent EXCEPT ![<<"bus", l>>] = @ + 1]
    /\ busq' = [busq EXCEPT ![l] = Append(@, [src |-> "bus", n |-> sent[<<"bus", l>>] + 1, to |-> to])]
    /\ UNCHANGED <<mapVars, cancelled, busDone, disp, queue, qclosed, wk, admin, api, last, crashed>>

(* The gateway cancels the root context, then closes the bus, then calls   *)
(* StopAll.  What the drain of the bus takes is lost.                      *)
CancelRoot ==
    /\ ~crashed
    /\ ~cancelled
    /\ cancelled' = TRUE
    /\ UNCHANGED <<mapVars, busVars, disp, queue, qclosed, wk, admin, api, last, crashed>>

CloseBus ==
    /\ ~crashed
    /\ cancelled
    /\ ~busDone
    /\ busDone' = TRUE
    /\ busq' = [l \in Lanes |-> <<>>]
    /\ UNCHANGED <<mapVars, cancelled, sent, disp, queue, qclosed, wk, admin, api, last, crashed>>

---------------------------------------------------------------------------
(* dispatchLoop.  Subscribe may return a message although the context was  *)
(* cancelled or the bus closed: its select has several ready cases.        *)
Subscribe(l) ==
    /\ ~crashed
    /\ disp[l].pc = "subscribe"
    /\ busq[l] # <<>>
    /\ busq' = [busq EXCEPT ![l] = Tail(@)]
    /\ disp' = IF Head(busq[l]).to \in Internal THEN disp
               ELSE [disp EXCEPT ![l] = [pc |-> "lookup", msg |-> Head(busq[l])]]
    /\ UNCHANGED <<mapVars, cancelled, busDone, sent, queue, qclosed, wk, admin, api, last, crashed>>

SubscribeEnds(l) ==
    /\ ~crashed
    /\ disp[l].pc = "subscribe"
    /\ cancelled \/ busDone
    /\ disp' = [disp EXCEPT ![l].pc = "stopped"]
    /\ UNCHANGED <<mapVars, cancelled, busVars, queue, qclosed, wk, admin, api, last, crashed>>

(* Under m.mu.RLock: a message to an unknown channel, or to one without    *)
(* worker, is logged and dropped.                                          *)
Lookup(l) ==
    /\ ~crashed
    /\ disp[l].pc = "lookup"
    /\ ~lock
    /\ disp' = [disp EXCEPT ![l] =
                  IF @.msg.to \in registered \cap workers
                  THEN [pc |-> "enqueue", msg |-> @.msg]
                  ELSE [pc |-> "subscribe", msg |-> NoMsg]]
    /\ UNCHANGED <<mapVars, cancelled, busVars, queue, qclosed, wk, admin, api, last, crashed>>

(* select { case w.queue <- msg; case <-ctx.Done() } with the lock released. *)
Enqueue(l) ==
    LET w == <<l, disp[l].msg.to>> IN
    /\ ~crashed
    /\ disp[l].pc = "enqueue"
    /\ \/ /\ qclosed[w]
          /\ crashed' = TRUE
          /\ UNCHANGED <<queue, disp>>
       \/ /\ ~qclosed[w]
          /\ Len(queue[w]) < QueueSize
          /\ queue' = [queue EXCEPT ![w] = Append(@, disp[l].msg)]
          /\ disp' = [disp EXCEPT ![l] = [pc |-> "subscribe", msg |-> NoMsg]]
          /\ UNCHANGED crashed
       \/ /\ cancelled
          /\ disp' = [disp EXCEPT ![l] = [pc |-> "stopped", msg |-> NoMsg]]
          /\ UNCHANGED <<queue, crashed>>
    /\ UNCHANGED <<mapVars, cancelled, busVars, qclosed, wk, admin, api, last>>

---------------------------------------------------------------------------
(* runWorker and runMediaWorker.                                           *)
WorkerUnchanged == UNCHANGED <<mapVars, cancelled, busVars, disp, qclosed, admin, api, crashed>>

(* A text message is split; media for a channel that cannot send it is     *)
(* skipped (sendMediaWithRetry).                                           *)
Pick(w) ==
    /\ ~crashed
    /\ wk[w].pc = "idle"
    /\ queue[w] # <<>>
    /\ queue' = [queue EXCEPT ![w] = Tail(@)]
    /\ IF w[1] = "media" /\ w[2] \notin MediaSenders
       THEN UNCHANGED wk
       ELSE \E chunks \in 1..(IF w[1] = "text" THEN MaxChunks ELSE 1) :
               wk' = [wk EXCEPT ![w] = [pc |-> "limit", msg |-> Head(queue[w]),
                                        chunk |-> 1, of |-> chunks, attempt |-> 0]]
    /\ UNCHANGED last
    /\ WorkerUnchanged

(* Fault: a worker leaves as soon as it learns that its queue was closed. *)
ExitEarly(w) ==
    /\ ~crashed
    /\ wk[w].pc = "idle"
    /\ qclosed[w] \/ cancelled
    /\ wk' = [wk EXCEPT ![w] = Exited]
    /\ UNCHANGED <<queue, last>>
    /\ WorkerUnchanged

(* Fault: the cancelled worker does not close its `done` channel. *)
ExitSilent(w) ==
    /\ ~crashed
    /\ wk[w].pc = "idle"
    /\ (qclosed[w] /\ queue[w] = <<>>) \/ cancelled
    /\ wk' = [wk EXCEPT ![w] = IF cancelled THEN Absent ELSE Exited]
    /\ UNCHANGED <<queue, last>>
    /\ WorkerUnchanged

(* The worker's two ways out: its queue is closed and empty, or the select *)
(* picks the cancelled context, whatever the queue still holds.            *)
Exit(w) ==
    /\ ~crashed
    /\ wk[w].pc = "idle"
    /\ (qclosed[w] /\ queue[w] = <<>>) \/ cancelled
    /\ wk' = [wk EXCEPT ![w] = Exited]
    /\ UNCHANGED <<queue, last>>
    /\ WorkerUnchanged

(* sendWithRetry has returned: go on with the next chunk, sent or not.     *)
NextChunk(w) ==
    wk' = [wk EXCEPT ![w] = IF @.chunk < @.of
                            THEN [pc |-> "limit", msg |-> @.msg, chunk |-> @.chunk + 1,
                                  of |-> @.of, attempt |-> 0]
                            ELSE Idle]

Delivered(w) ==
    last' = [last EXCEPT ![<<w, wk[w].msg.src>>] = Position(wk[w].msg, wk[w].chunk)]

(* limiter.Wait(ctx) grants a token only while the context is live.        *)
Limit(w) ==
    /\ ~crashed
    /\ wk[w].pc = "limit"
    /\ IF cancelled THEN NextChunk(w) ELSE wk' = [wk EXCEPT ![w].pc = "send"]
    /\ UNCHANGED <<queue, last>>
    /\ WorkerUnchanged

(* preSend edited the placeholder (text only, before the first Send), or   *)
(* Send returned nil.                                                      *)
SendOK(w) ==
    /\ ~crashed
    /\ wk[w].pc = "send"
    /\ Delivered(w)
    /\ NextChunk(w)
    /\ UNCHANGED queue
    /\ WorkerUnchanged

(* ErrNotRunning, ErrSendFailed: no retry.                                 *)
SendPermanent(w) ==
    /\ ~crashed
    /\ wk[w].pc = "send"
    /\ NextChunk(w)
    /\ UNCHANGED <<queue, last>>
    /\ WorkerUnchanged

(* ErrRateLimit, ErrTemporary or unknown: wait, unless it was the last     *)
(* attempt.  The platform may have taken the message all the same (a lost  *)
(* acknowledgement), so a retry may deliver a second copy.                 *)
SendTemporary(w) ==
    /\ ~crashed
    /\ wk[w].pc = "send"
    /\ IF wk[w].attempt = MaxRetries THEN NextChunk(w)
       ELSE wk' = [wk EXCEPT ![w].pc = "wait"]
    /\ Delivered(w) \/ UNCHANGED last
    /\ UNCHANGED queue
    /\ WorkerUnchanged

(* Fault: a retry starts the message over at its first chunk. *)
BackoffRestarts(w) ==
    /\ ~crashed
    /\ wk[w].pc = "wait"
    /\ wk' = [wk EXCEPT ![w].pc = "send", ![w].attempt = wk[w].attempt + 1, ![w].chunk = 1]
    /\ UNCHANGED <<queue, last>>
    /\ WorkerUnchanged

(* Fault: attempts are not counted. *)
BackoffUncounted(w) ==
    /\ ~crashed
    /\ wk[w].pc = "wait"
    /\ \/ wk' = [wk EXCEPT ![w].pc = "send"]
       \/ cancelled /\ NextChunk(w)
    /\ UNCHANGED <<queue, last>>
    /\ WorkerUnchanged

(* The backoff timer, or the cancelled context, ends the wait.             *)
Backoff(w) ==
    /\ ~crashed
    /\ wk[w].pc = "wait"
    /\ \/ wk' = [wk EXCEPT ![w] = [pc |-> "send", msg |-> @.msg, chunk |-> @.chunk,
                                     of |-> @.of, attempt |-> @.attempt + 1]]
       \/ cancelled /\ NextChunk(w)
    /\ UNCHANGED <<queue, last>>
    /\ WorkerUnchanged

---------------------------------------------------------------------------
(* UnregisterChannel, RegisterChannel and StopAll hold m.mu from beginning *)
(* to end; one administrator calls them one after the other.               *)
AdminUnchanged == UNCHANGED <<busVars, disp, queue, wk, api, last, crashed>>

RegisterChannel(c) ==
    /\ ~crashed
    /\ admin.pc = "idle"
    /\ registered' = registered \cup {c}
    /\ UNCHANGED <<workers, lock, cancelled, qclosed, admin>>
    /\ AdminUnchanged

(* The worker is told to finish by closing its queue; it drains it first.  *)
UnregisterChannel(c) ==
    /\ ~crashed
    /\ admin.pc = "idle"
    /\ IF c \in workers
       THEN /\ lock' = TRUE
            /\ qclosed' = [qclosed EXCEPT ![<<"text", c>>] = TRUE]
            /\ admin' = [pc |-> "unregisterText", ch |-> c]
            /\ UNCHANGED registered
       ELSE /\ registered' = registered \ {c}
            /\ UNCHANGED <<lock, qclosed, admin>>
    /\ UNCHANGED <<workers, cancelled>>
    /\ AdminUnchanged

(* <-w.done, close(w.mediaQueue) *)
UnregisterMedia ==
    /\ ~crashed
    /\ admin.pc = "unregisterText"
    /\ wk[<<"text", admin.ch>>].pc = "exited"
    /\ qclosed' = [qclosed EXCEPT ![<<"media", admin.ch>>] = TRUE]
    /\ admin' = [admin EXCEPT !.pc = "unregisterMedia"]
    /\ UNCHANGED <<mapVars, cancelled>>
    /\ AdminUnchanged

(* <-w.mediaDone, then both map entries go and the lock is released. *)
UnregisterReturns ==
    /\ ~crashed
    /\ admin.pc = "unregisterMedia"
    /\ wk[<<"media", admin.ch>>].pc = "exited"
    /\ registered' = registered \ {admin.ch}
    /\ workers' = workers \ {admin.ch}
    /\ lock' = FALSE
    /\ admin' = [pc |-> "idle", ch |-> "none"]
    /\ UNCHANGED <<cancelled, qclosed>>
    /\ AdminUnchanged

(* Take the lock (the HTTP server's shutdown is left out), cancel the      *)
(* dispatch context, close every text queue.                               *)
StopAll ==
    /\ ~crashed
    /\ admin.pc = "idle"
    /\ lock' = TRUE
    /\ cancelled' = TRUE
    /\ admin' = [admin EXCEPT !.pc = "stopClose"]
    /\ UNCHANGED <<registered, workers, qclosed>>
    /\ AdminUnchanged

CloseQueues(l) ==
    qclosed' = [w \in Workers |-> qclosed[w] \/ (w[1] = l /\ w[2] \in workers)]

StopText ==
    /\ ~crashed
    /\ admin.pc = "stopClose"
    /\ CloseQueues("text")
    /\ admin' = [admin EXCEPT !.pc = "stopText"]
    /\ UNCHANGED <<mapVars, cancelled>>
    /\ AdminUnchanged

StopMedia ==
    /\ ~crashed
    /\ admin.pc = "stopText"
    /\ \A c \in workers : wk[<<"text", c>>].pc = "exited"
    /\ CloseQueues("media")
    /\ admin' = [admin EXCEPT !.pc = "stopMedia"]
    /\ UNCHANGED <<mapVars, cancelled>>
    /\ AdminUnchanged

(* Fault: StopAll does not wait for the media workers. *)
StopReturnsEarly ==
    /\ ~crashed
    /\ admin.pc = "stopMedia"
    /\ lock' = FALSE
    /\ admin' = [admin EXCEPT !.pc = "stopped"]
    /\ UNCHANGED <<registered, workers, cancelled, qclosed>>
    /\ AdminUnchanged

(* channel.Stop on every channel; the maps keep their entries. *)
StopReturns ==
    /\ ~crashed
    /\ admin.pc = "stopMedia"
    /\ \A c \in workers : wk[<<"media", c>>].pc = "exited"
    /\ lock' = FALSE
    /\ admin' = [admin EXCEPT !.pc = "stopped"]
    /\ UNCHANGED <<registered, workers, cancelled, qclosed>>
    /\ AdminUnchanged

---------------------------------------------------------------------------
(* SendToChannel.  Without worker it sends directly, on the caller's       *)
(* goroutine; to an unknown channel it returns an error.                   *)
ApiUnchanged == UNCHANGED <<mapVars, cancelled, busq, busDone, disp, qclosed, wk, admin>>

SendToChannel(s, c) ==
    /\ ~crashed
    /\ api[s].pc = "idle"
    /\ ~lock
    /\ sent[<<s, "text">>] < MaxCalls
    /\ sent' = [sent EXCEPT ![<<s, "text">>] = @ + 1]
    /\ api' = IF c \notin registered THEN api
              ELSE [api EXCEPT ![s] =
                      [pc |-> IF c \in workers THEN "enqueue" ELSE "direct",
                       msg |-> [src |-> s, n |-> sent[<<s, "text">>] + 1, to |-> c]]]
    /\ UNCHANGED <<queue, last, crashed>>
    /\ ApiUnchanged

ApiReturns(s) == api' = [api EXCEPT ![s] = [pc |-> "idle", msg |-> NoMsg]]

ApiEnqueue(s) ==
    LET w == <<"text", api[s].msg.to>> IN
    /\ ~crashed
    /\ api[s].pc = "enqueue"
    /\ \/ /\ qclosed[w]
          /\ crashed' = TRUE
          /\ UNCHANGED <<queue, api>>
       \/ /\ ~qclosed[w]
          /\ Len(queue[w]) < QueueSize
          /\ queue' = [queue EXCEPT ![w] = Append(@, api[s].msg)]
          /\ ApiReturns(s)
          /\ UNCHANGED crashed
    /\ UNCHANGED <<sent, last>>
    /\ ApiUnchanged

(* The caller's own context ends its wait for room in the queue. *)
ApiGivesUp(s) ==
    /\ ~crashed
    /\ api[s].pc = "enqueue"
    /\ ApiReturns(s)
    /\ UNCHANGED <<sent, queue, last, crashed>>
    /\ ApiUnchanged

ApiDirect(s) ==
    /\ ~crashed
    /\ api[s].pc = "direct"
    /\ \/ last' = [last EXCEPT ![<<<<"text", api[s].msg.to>>, s>>] = Position(api[s].msg, 1)]
       \/ UNCHANGED last
    /\ ApiReturns(s)
    /\ UNCHANGED <<sent, queue, crashed>>
    /\ ApiUnchanged

---------------------------------------------------------------------------
DispatcherStep(l) == Subscribe(l) \/ SubscribeEnds(l) \/ Lookup(l) \/ Enqueue(l)
WorkerStep(w) ==
    Pick(w) \/ Exit(w) \/ Limit(w) \/ SendOK(w) \/ SendPermanent(w) \/ SendTemporary(w) \/ Backoff(w)
AdminStep == UnregisterMedia \/ UnregisterReturns \/ StopText \/ StopMedia \/ StopReturns
ApiStep(s) == ApiEnqueue(s) \/ ApiDirect(s)

Next ==
    \/ \E l \in Lanes, to \in Channels \cup Internal : Publish(l, to)
    \/ CancelRoot
    \/ CloseBus
    \/ \E l \in Lanes : DispatcherStep(l)
    \/ \E w \in Workers : WorkerStep(w)
    \/ \E c \in Channels : RegisterChannel(c) \/ UnregisterChannel(c)
    \/ StopAll
    \/ AdminStep
    \/ \E s \in Senders : ApiStep(s) \/ ApiGivesUp(s) \/ \E c \in Channels : SendToChannel(s, c)

Spec == Init /\ [][Next]_vars

(* Every goroutine of the manager that can run does: the scheduler is      *)
(* preemptive, a call to a platform returns (its client has a timeout) and *)
(* a backoff timer fires.  Nothing obliges a send to succeed, anybody to   *)
(* publish, or the administrator to begin an operation.  Lookup needs no   *)
(* more than weak fairness: the lock is held over several steps only to    *)
(* unregister a channel with a worker, once per channel, and by StopAll.   *)
Fairness ==
    /\ \A l \in Lanes : WF_vars(DispatcherStep(l))
    /\ \A w \in Workers : WF_vars(WorkerStep(w))
    /\ \A s \in Senders : WF_vars(ApiStep(s))
    /\ WF_vars(AdminStep)

FairSpec == Spec /\ Fairness

---------------------------------------------------------------------------
Message == [src : Sources, n : Nat, to : Channels \cup Internal \cup {"none"}]
DispatcherState == [pc : {"subscribe", "lookup", "enqueue", "stopped"}, msg : Message]
WorkerState == [pc : {"absent", "idle", "limit", "send", "wait", "exited"}, msg : Message,
                chunk : 0..MaxChunks, of : 0..MaxChunks, attempt : 0..MaxRetries]
AdminState == [pc : {"idle", "unregisterText", "unregisterMedia", "stopClose", "stopText",
                     "stopMedia", "stopped"},
               ch : Channels \cup {"none"}]
ApiState == [pc : {"idle", "enqueue", "direct"}, msg : Message]

(* Type correctness: queues never exceed their size, retries stay within   *)
(* maxRetries, maps hold only channels of the manager.                     *)
TypeOK ==
    /\ registered \subseteq Channels
    /\ workers \subseteq registered
    /\ lock \in BOOLEAN
    /\ cancelled \in BOOLEAN
    /\ busq \in [Lanes -> Seq(Message)]
    /\ busDone \in BOOLEAN
    /\ disp \in [Lanes -> DispatcherState]
    /\ queue \in [Workers -> Seq(Message)]
    /\ \A w \in Workers : Len(queue[w]) <= QueueSize
    /\ qclosed \in [Workers -> BOOLEAN]
    /\ wk \in [Workers -> WorkerState]
    /\ admin \in AdminState
    /\ api \in [Senders -> ApiState]
    /\ sent \in [Sources \X Lanes -> Nat]
    /\ last \in [Workers \X Sources -> Nat]
    /\ crashed \in BOOLEAN

(* A chat never sees an answer before, or again after, a later one of the  *)
(* same source in the same lane: one dispatcher, one queue and one worker  *)
(* keep order through retries, chunks, lost acknowledgements, unregistering*)
(* and the direct sends of SendToChannel.                                  *)
NoneEarlier == \A k \in Workers \X Sources : last[k] <= last'[k]
InOrder == [][NoneEarlier]_vars

(* While the dispatch context lives, closing a queue loses nothing: a      *)
(* worker leaves only after it took everything its queue held, so          *)
(* UnregisterChannel returns with no message left behind.                  *)
UnregisterDrains ==
    ~cancelled => \A w \in Workers : wk[w].pc = "exited" => queue[w] = <<>>

(* When StopAll has returned, or a channel was unregistered, no worker is  *)
(* in the middle of a send to it any more.                                 *)
QuietWhenStopped ==
    \A w \in Workers :
        (admin.pc = "stopped" \/ w[2] \notin workers) => wk[w].pc \in {"absent", "exited"}

(* StopAll and UnregisterChannel come to an end: every worker hears of the *)
(* closed queue or of the cancelled context, even in the middle of its     *)
(* retries.                                                                *)
AdminReturns ==
    admin.pc # "idle" ~> admin.pc \in {"idle", "stopped"} \/ crashed

(* A platform that fails every time cannot hold up the others for good:    *)
(* retries are bounded, so the dispatchers always get through what is on   *)
(* the bus, full worker queues in between notwithstanding.                 *)
DispatchKeepsUp ==
    \A l \in Lanes : busq[l] # <<>> ~> busq[l] = <<>> \/ disp[l].pc = "stopped" \/ crashed

(* Administrators and dispatchers alike: nobody in the manager waits for   *)
(* ever.                                                                   *)
ManagerGoesOn == AdminReturns /\ DispatchKeepsUp

(* pkg/channels/README.md:1217 "Channel Worker queue: Go channel,          *)
(* inherently concurrent-safe": StopAll, the one caller of close on a      *)
(* worker queue in the running program, makes nobody panic on it.          *)
StopDoesNotPanic == admin.pc \in {"stopText", "stopMedia", "stopped"} => ~crashed
=============================================================================
