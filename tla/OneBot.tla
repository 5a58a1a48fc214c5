---------------------------------- MODULE OneBot ----------------------------------
(* The OneBot channel's connection (pkg/channels/onebot/onebot.go): Start's first     *)
(* dial, the reconnect loop, one listener for each connection, API requests that wait *)
(* for the listener to hand them their response, and Stop.  mu guards conn only, so   *)
(* dialling, storing the connection and starting its listener are separate steps.     *)
EXTENDS Naturals, FiniteSets

CONSTANTS ObConns,      \* connections that can be dialled
          ObRequests    \* goroutines that call sendAPIRequest once: fetchSelfID, setMsgEmojiLike

Dialers == {"start", "loop"}        \* Start and reconnectLoop run connect
NoConn == "none"

VARIABLES obConn,      \* c.conn
          obOpen,      \* connections this side has not closed
          obAlive,     \* connections the server still serves
          obListener,  \* connection -> "none", "starting", "reading", "over"
          obDialer,    \* dialer -> [pc, conn]: "idle", "wait", "fired", "dial", "dialled", "stored", "over"
          obRequest,   \* request -> [pc, conn]: "idle", "captured", "pending", "written", "over"
          obPending,   \* c.pending: the echoes registered
          obBox,       \* request -> what its channel holds: "empty", "response", "nil"
          obGot,       \* request -> how it ended: "response", "error" or "none"
          obAnswered,  \* requests the server has answered
          obDone,      \* the context is cancelled
          obStop,      \* Stop: "no", "cancelled", "woken", "over"
          obOverlap    \* history: a turn of a dialer was under way when Stop took the connection
obVars == <<obConn, obOpen, obAlive, obListener, obDialer, obRequest, obPending, obBox, obGot, obAnswered,
            obDone, obStop, obOverlap>>
obRequestVars == <<obRequest, obPending, obBox, obGot, obAnswered>>
obStopVars == <<obDone, obStop, obOverlap>>

ObInit == /\ obConn = NoConn /\ obOpen = {} /\ obAlive = {} /\ obListener = [k \in ObConns |-> "none"]
          /\ obDialer = [d \in Dialers |-> [pc |-> IF d = "start" THEN "dial" ELSE "idle", conn |-> NoConn]]
          /\ obRequest = [r \in ObRequests |-> [pc |-> "idle", conn |-> NoConn]]
          /\ obPending = {} /\ obBox = [r \in ObRequests |-> "empty"] /\ obGot = [r \in ObRequests |-> "none"]
          /\ obAnswered = {} /\ obDone = FALSE /\ obStop = "no" /\ obOverlap = FALSE

Fresh == {k \in ObConns : obListener[k] = "none" /\ k \notin obOpen \cup obAlive
                          /\ \A d \in Dialers : obDialer[d].conn # k}
SetDialer(d, pc, k) == obDialer' = [obDialer EXCEPT ![d] = [pc |-> pc, conn |-> k]]

(* connect: the dial succeeds or fails.  Start goes on to the reconnect loop either   *)
(* way, the loop to its next interval.                                                *)
AfterDial(d) == IF d = "start" THEN "over" ELSE "wait"
Dial(d) ==
    /\ obDialer[d].pc = "dial"
    /\ \/ /\ SetDialer(d, AfterDial(d), NoConn) /\ UNCHANGED <<obOpen, obAlive>>
       \/ \E k \in Fresh : /\ SetDialer(d, "dialled", k)
                           /\ obOpen' = obOpen \cup {k} /\ obAlive' = obAlive \cup {k}
    /\ UNCHANGED <<obConn, obListener, obRequestVars, obStopVars>>

(* connect, under mu: the connection becomes the channel's. *)
StoreConn(d) ==
    /\ obDialer[d].pc = "dialled" /\ obConn' = obDialer[d].conn
    /\ SetDialer(d, "stored", obDialer[d].conn)
    /\ UNCHANGED <<obOpen, obAlive, obListener, obRequestVars, obStopVars>>

(* go c.listen(), then fetchSelfID and the next interval. *)
StartListener(d) ==
    LET k == obDialer[d].conn IN
        /\ obDialer[d].pc = "stored" /\ obListener' = [obListener EXCEPT ![k] = "starting"]
        /\ SetDialer(d, AfterDial(d), NoConn)
        /\ UNCHANGED <<obConn, obOpen, obAlive, obRequestVars, obStopVars>>

(* Start starts the reconnect loop.  Its select takes the timer of the interval or the *)
(* end of the context; behind the timer the context is not asked again: the loop looks *)
(* at the connection, under mu, and dials when there is none.                          *)
StartLoop == /\ obDialer["start"].pc = "over" /\ obDialer["loop"].pc = "idle" /\ SetDialer("loop", "wait", NoConn)
             /\ UNCHANGED <<obConn, obOpen, obAlive, obListener, obRequestVars, obStopVars>>
TimerFires == /\ obDialer["loop"].pc = "wait" /\ ~obDone /\ SetDialer("loop", "fired", NoConn)
              /\ UNCHANGED <<obConn, obOpen, obAlive, obListener, obRequestVars, obStopVars>>
LookAtConn == /\ obDialer["loop"].pc = "fired"
              /\ SetDialer("loop", IF obConn = NoConn THEN "dial" ELSE "wait", NoConn)
              /\ UNCHANGED <<obConn, obOpen, obAlive, obListener, obRequestVars, obStopVars>>
LoopEnds == /\ obDialer["loop"].pc = "wait" /\ obDone /\ SetDialer("loop", "over", NoConn)
            /\ UNCHANGED <<obConn, obOpen, obAlive, obListener, obRequestVars, obStopVars>>

(* listen takes the channel's connection; without one it exits. *)
ListenBegins(k) ==
    /\ obListener[k] = "starting"
    /\ obListener' = [obListener EXCEPT ![k] = IF obConn = NoConn \/ obDone THEN "over" ELSE "reading"]
    /\ UNCHANGED <<obConn, obOpen, obAlive, obDialer, obRequestVars, obStopVars>>

(* The server drops a connection. *)
ConnDies(k) == /\ k \in obAlive /\ obAlive' = obAlive \ {k}
               /\ UNCHANGED <<obConn, obOpen, obListener, obDialer, obRequestVars, obStopVars>>

(* ReadMessage fails: the listener clears the channel's connection, if it is still    *)
(* this one, and exits.                                                               *)
ForgetConn(k) == UNCHANGED <<obConn, obOpen>>
ClearConn(k) == IF obConn = k THEN obConn' = NoConn /\ obOpen' = obOpen \ {k} ELSE UNCHANGED <<obConn, obOpen>>
ReadFails(k) ==
    /\ obListener[k] = "reading" /\ (k \notin obAlive \/ k \notin obOpen)
    /\ obListener' = [obListener EXCEPT ![k] = "over"] /\ ClearConn(k)
    /\ UNCHANGED <<obAlive, obDialer, obRequestVars, obStopVars>>

(* Between two reads the listener sees that the context is done. *)
ListenEnds(k) == /\ obListener[k] = "reading" /\ obDone /\ obListener' = [obListener EXCEPT ![k] = "over"]
                 /\ UNCHANGED <<obConn, obOpen, obAlive, obDialer, obRequestVars, obStopVars>>

(* The listener reads a response: the pending request of its echo gets it, unless its *)
(* channel is full; an unknown echo is dropped.                                       *)
ReadResponse(k, r) ==
    /\ obListener[k] = "reading" /\ k \in obAlive \cap obOpen /\ ~obDone
    /\ obRequest[r].conn = k /\ obRequest[r].pc \in {"written", "over"} /\ r \notin obAnswered
    /\ obAnswered' = obAnswered \cup {r}
    /\ obBox' = IF r \in obPending /\ obBox[r] = "empty" THEN [obBox EXCEPT ![r] = "response"] ELSE obBox
    /\ UNCHANGED <<obConn, obOpen, obAlive, obListener, obDialer, obRequest, obPending, obGot, obStopVars>>

---------------------------------------------------------------------------------
(* sendAPIRequest: capture the connection, register the echo, write, wait. *)
CaptureConn(r) ==
    /\ obRequest[r].pc = "idle"
    /\ obRequest' = [obRequest EXCEPT ![r] = [pc |-> IF obConn = NoConn THEN "over" ELSE "captured", conn |-> obConn]]
    /\ obGot' = IF obConn = NoConn THEN [obGot EXCEPT ![r] = "error"] ELSE obGot
    /\ UNCHANGED <<obConn, obOpen, obAlive, obListener, obDialer, obPending, obBox, obAnswered, obStopVars>>
Register(r) ==
    /\ obRequest[r].pc = "captured" /\ obPending' = obPending \cup {r}
    /\ obRequest' = [obRequest EXCEPT ![r].pc = "pending"]
    /\ UNCHANGED <<obConn, obOpen, obAlive, obListener, obDialer, obBox, obGot, obAnswered, obStopVars>>
(* Its end: the deferred delete, whatever came of it. *)
EndRequest(r, got) == /\ obRequest' = [obRequest EXCEPT ![r].pc = "over"]
                      /\ obGot' = [obGot EXCEPT ![r] = got] /\ obPending' = obPending \ {r}
WriteRequest(r) ==
    /\ obRequest[r].pc = "pending"
    /\ IF obRequest[r].conn \in obOpen
       THEN /\ obRequest' = [obRequest EXCEPT ![r].pc = "written"] /\ UNCHANGED <<obPending, obGot>>
       ELSE EndRequest(r, "error")
    /\ UNCHANGED <<obConn, obOpen, obAlive, obListener, obDialer, obBox, obAnswered, obStopVars>>
(* The wait: a response, a nil from Stop, the timeout or the context, whichever the   *)
(* select takes.                                                                      *)
AwaitResponse(r) ==
    /\ obRequest[r].pc = "written"
    /\ \E got \in {"response", "error"} : /\ got = "response" => obBox[r] = "response"
                                          /\ EndRequest(r, got)
    /\ UNCHANGED <<obConn, obOpen, obAlive, obListener, obDialer, obBox, obAnswered, obStopVars>>

---------------------------------------------------------------------------------
(* Stop: cancel, wake and forget the pending requests, close the connection. *)
StopCancels == /\ obStop = "no" /\ obDialer["start"].pc = "over" /\ obStop' = "cancelled" /\ obDone' = TRUE
               /\ UNCHANGED <<obConn, obOpen, obAlive, obListener, obDialer, obRequestVars, obOverlap>>
StopWakes == /\ obStop = "cancelled" /\ obStop' = "woken" /\ obPending' = {}
             /\ obBox' = [r \in ObRequests |-> IF r \in obPending /\ obBox[r] = "empty" THEN "nil" ELSE obBox[r]]
             /\ UNCHANGED <<obConn, obOpen, obAlive, obListener, obDialer, obRequest, obGot, obAnswered, obDone, obOverlap>>
Dialling == \E d \in Dialers : obDialer[d].pc \in {"fired", "dial", "dialled"}
StopCloses == /\ obStop = "woken" /\ obStop' = "over" /\ obConn' = NoConn /\ obOpen' = obOpen \ {obConn}
              /\ obOverlap' = Dialling
              /\ UNCHANGED <<obAlive, obListener, obDialer, obRequestVars, obDone>>

ObStep == \/ \E d \in Dialers : Dial(d) \/ StoreConn(d) \/ StartListener(d)
          \/ StartLoop \/ TimerFires \/ LookAtConn \/ LoopEnds \/ StopWakes \/ StopCloses
          \/ \E k \in ObConns : ListenBegins(k) \/ ReadFails(k) \/ ListenEnds(k) \/ \E r \in ObRequests : ReadResponse(k, r)
          \/ \E r \in ObRequests : CaptureConn(r) \/ Register(r) \/ WriteRequest(r) \/ AwaitResponse(r)
ObNext == ObStep \/ StopCancels \/ \E k \in ObConns : ConnDies(k)
ObSpec == ObInit /\ [][ObNext]_obVars
(* The goroutines run; a dial that is repeated long enough succeeds. *)
ObFairSpec == /\ ObSpec /\ WF_obVars(StartLoop) /\ WF_obVars(TimerFires) /\ WF_obVars(LookAtConn)
              /\ \A d \in Dialers : WF_obVars(Dial(d)) /\ WF_obVars(StoreConn(d)) /\ WF_obVars(StartListener(d))
              /\ \A k \in ObConns : WF_obVars(ListenBegins(k)) /\ WF_obVars(ReadFails(k))
---------------------------------------------------------------------------------
(* Type correctness of the connection, the listeners and the requests. *)
ObTypeOK == /\ obConn \in ObConns \cup {NoConn} /\ obOpen \subseteq ObConns /\ obAlive \subseteq ObConns
            /\ obListener \in [ObConns -> {"none", "starting", "reading", "over"}]
            /\ \A d \in Dialers : obDialer[d].pc \in {"idle", "wait", "fired", "dial", "dialled", "stored", "over"}
            /\ \A r \in ObRequests : obRequest[r].pc \in {"idle", "captured", "pending", "written", "over"}
            /\ obPending \subseteq ObRequests /\ obConn # NoConn => obConn \in obOpen
            /\ obBox \in [ObRequests -> {"empty", "response", "nil"}]

(* The reconnect loop never dials over a working connection: at most one connection   *)
(* has a listener or waits for one, and it is the channel's own unless Stop took it.  *)
Served == {k \in ObConns : obListener[k] \in {"starting", "reading"} /\ k \in obOpen}
OneServed == /\ Cardinality(Served) <= 1 /\ (obStop # "over" => Served \subseteq {obConn})
             /\ Cardinality(obOpen) <= 1

(* A connection outlives Stop only if a turn of the reconnect loop was under way when *)
(* Stop took the channel's connection, its timer having fired before Stop cancelled   *)
(* the context: no turn begins later, and all but that one are seen by Stop.          *)
LeakOnlyByOverlap == obStop = "over" /\ ~Dialling /\ obOpen # {} => obOverlap

(* Every registered echo belongs to a request that still waits, so the table of a     *)
(* long-lived connection does not grow with requests that timed out, failed or were   *)
(* cut short by Stop.                                                                 *)
PendingIsWaited == \A r \in obPending : obRequest[r].pc \in {"pending", "written"}

(* A connection the server dropped is noticed and given up, so that the loop can dial *)
(* again (or the channel is stopped).                                                 *)
DeadConnDropped == (obConn # NoConn /\ obConn \notin obAlive) ~> (obConn = NoConn \/ obConn \in obAlive \/ obDone)

(* One connection is served at a time, Stop leaves one open only when a turn    *)
(* of the loop overlapped it, and every registered echo has a request that waits for it     *)
(* (onebot.go).                                                                 *)
OneBotSafe == ObTypeOK /\ OneServed /\ LeakOnlyByOverlap /\ PendingIsWaited
==================================================================================
