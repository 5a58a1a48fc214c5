---------------------------------- MODULE Sockets ----------------------------------
(* The two channels that accept connections: Pico's WebSocket endpoint                *)
(* (pkg/channels/pico/pico.go) and MaixCam's TCP listener                             *)
(* (pkg/channels/maixcam/maixcam.go).  A connection is accepted, entered in the table *)
(* and read by a goroutine of its own that leaves the table when the connection ends; *)
(* Stop closes what it finds in the table.  Every step between two of those is a      *)
(* separate one.                                                                      *)
EXTENDS Naturals, FiniteSets

CONSTANTS SkConns,     \* connections that peers open
          SkMax        \* MaxConnections of Pico

ASSUME SkAssumption == SkMax \in Nat \ {0} /\ IsFiniteSet(SkConns)

VARIABLES skKind,      \* "pico" or "maixcam": the channel of this run
          skRunning,   \* IsRunning
          skDone,      \* the channel's context is cancelled
          skConn,      \* connection -> how far its goroutine is
          skOpen,      \* connections this side has not closed
          skTable,     \* connections (Pico), clients (MaixCam)
          skCount,     \* connCount
          skPinging,   \* Pico: connections whose ping loop runs
          skSilent,    \* connections whose peer answers nothing any more
          skAcceptor,  \* MaixCam: "accept", "register" or "over"
          skStop,      \* Stop: "no", "flagged", "ranging", "closed", "cancelled", "over"
          skSeen,      \* Pico: connections Stop's Range has yet to visit
          skLate,      \* history: connections on their way in when Stop began
          skCrowd      \* history: connections admitted while another was not counted yet
skVars == <<skKind, skRunning, skDone, skConn, skOpen, skTable, skCount, skPinging, skSilent, skAcceptor,
            skStop, skSeen, skLate, skCrowd>>
skStopVars == <<skRunning, skDone, skStop, skSeen, skLate>>
skQuiet == <<skKind, skCrowd, skStopVars>>
skTableVars == <<skKind, skCrowd, skCount, skPinging, skSilent>>

(* Where a connection's goroutine can be: "checked" and "upgraded" are the handshake  *)
(* of Pico, "accepted" the acceptor of MaixCam, "top" the context check of the read   *)
(* loop, "blocked" the read.                                                          *)
Entering == {"checked", "upgraded", "accepted"}
Reading == {"top", "blocked", "left"}
Stages == {"none", "stored", "closed", "deleted", "gone"} \cup Entering \cup Reading

SkInit == /\ skKind \in {"pico", "maixcam"} /\ skRunning = TRUE /\ skDone = FALSE
          /\ skConn = [c \in SkConns |-> "none"]
          /\ skOpen = {} /\ skTable = {} /\ skCount = 0 /\ skPinging = {} /\ skSilent = {}
          /\ skAcceptor = IF skKind = "maixcam" THEN "accept" ELSE "over"
          /\ skStop = "no" /\ skSeen = {} /\ skLate = {} /\ skCrowd = {}

Move(c, from, to) == skConn[c] = from /\ skConn' = [skConn EXCEPT ![c] = to]

(* handleWebSocket: a request with a valid token passes the running check and the     *)
(* connection limit; the limit counts the connections whose handshake is complete.    *)
Admit == skKind = "pico" /\ skRunning /\ skCount < SkMax
Uncounted == {c \in SkConns : skConn[c] \in {"checked", "upgraded", "stored"}}
Handshake(c) == /\ Admit /\ Move(c, "none", "checked")
                /\ skCrowd' = IF Uncounted = {} THEN skCrowd ELSE skCrowd \cup {c}
                /\ UNCHANGED <<skKind, skOpen, skTable, skCount, skPinging, skSilent, skAcceptor, skStopVars>>
Upgrade(c) == /\ Move(c, "checked", "upgraded") /\ skOpen' = skOpen \cup {c}
              /\ UNCHANGED <<skQuiet, skTable, skCount, skPinging, skSilent, skAcceptor>>
UpgradeFails(c) == /\ Move(c, "checked", "gone")
                   /\ UNCHANGED <<skQuiet, skOpen, skTable, skCount, skPinging, skSilent, skAcceptor>>
StoreSocket(c) == /\ Move(c, "upgraded", "stored") /\ skTable' = skTable \cup {c}
                  /\ UNCHANGED <<skQuiet, skOpen, skCount, skPinging, skSilent, skAcceptor>>
CountSocket(c) == /\ Move(c, "stored", "top") /\ skKind = "pico" /\ skCount' = skCount + 1
                  /\ skPinging' = skPinging \cup {c}
                  /\ UNCHANGED <<skQuiet, skOpen, skTable, skSilent, skAcceptor>>

(* acceptConnections: a new client is registered and its goroutine started; an error  *)
(* of AcceptConn ends the acceptor, whether the channel is running or not.                *)
AcceptConn(c) == /\ skAcceptor = "accept" /\ skStop # "over" /\ Move(c, "none", "accepted")
             /\ skOpen' = skOpen \cup {c} /\ skAcceptor' = "register"
             /\ UNCHANGED <<skQuiet, skTable, skCount, skPinging, skSilent>>
RegisterClient(c) == /\ Move(c, "accepted", "top") /\ skTable' = skTable \cup {c}
                     /\ skAcceptor' = IF skDone THEN "over" ELSE "accept"
                     /\ UNCHANGED <<skQuiet, skOpen, skCount, skPinging, skSilent>>
AcceptFails == /\ skAcceptor = "accept" /\ skAcceptor' = "over"
               /\ UNCHANGED <<skQuiet, skConn, skOpen, skTable, skCount, skPinging, skSilent>>

(* The read loop: the context is looked at between two messages only, and a read      *)
(* ends with a message, with an error of the connection, or at Pico's read deadline,  *)
(* which every pong moves on as long as the ping loop and the peer are there.         *)
LoopTop(c) == /\ Move(c, "top", IF skDone THEN "left" ELSE "blocked")
              /\ UNCHANGED <<skQuiet, skOpen, skTable, skCount, skPinging, skSilent, skAcceptor>>
ReadMessage(c) == /\ c \in skOpen \ skSilent /\ Move(c, "blocked", "top")
                  /\ UNCHANGED <<skQuiet, skOpen, skTable, skCount, skPinging, skSilent, skAcceptor>>
ReadClosed(c) == /\ c \notin skOpen /\ Move(c, "blocked", "left")
                 /\ UNCHANGED <<skQuiet, skOpen, skTable, skCount, skPinging, skSilent, skAcceptor>>
PeerCloses(c) == /\ c \in skOpen \ skSilent /\ Move(c, "blocked", "left")
                 /\ UNCHANGED <<skQuiet, skOpen, skTable, skCount, skPinging, skSilent, skAcceptor>>
ReadDeadline(c) == /\ skKind = "pico" /\ (c \notin skPinging \/ c \in skSilent) /\ Move(c, "blocked", "left")
                   /\ UNCHANGED <<skQuiet, skOpen, skTable, skCount, skPinging, skSilent, skAcceptor>>
GoesSilent(c) == /\ c \in skOpen /\ skSilent' = skSilent \cup {c}
                 /\ UNCHANGED <<skQuiet, skConn, skOpen, skTable, skCount, skPinging, skAcceptor>>

(* pingLoop ends with the context or with the connection. *)
PingEndsClosed(c) == /\ c \in skPinging \ skOpen /\ skPinging' = skPinging \ {c}
                     /\ UNCHANGED <<skQuiet, skConn, skOpen, skTable, skCount, skSilent, skAcceptor>>
PingEnds(c) == /\ c \in skPinging /\ (skDone \/ c \notin skOpen) /\ skPinging' = skPinging \ {c}
               /\ UNCHANGED <<skQuiet, skConn, skOpen, skTable, skCount, skSilent, skAcceptor>>

(* The deferred clean-up: close, leave the table, count down. *)
CloseSocket(c) == /\ Move(c, "left", "closed") /\ skOpen' = skOpen \ {c}
                  /\ UNCHANGED <<skQuiet, skTable, skCount, skPinging, skSilent, skAcceptor>>
DeleteSocket(c) == /\ Move(c, "closed", "deleted") /\ skTable' = skTable \ {c}
                   /\ UNCHANGED <<skQuiet, skOpen, skCount, skPinging, skSilent, skAcceptor>>
Uncount(c) == /\ Move(c, "deleted", "gone") /\ skCount' = IF skKind = "pico" THEN skCount - 1 ELSE skCount
              /\ UNCHANGED <<skQuiet, skOpen, skTable, skPinging, skSilent, skAcceptor>>

(* Stop clears the running flag first.  Pico then ranges over the table, closing and  *)
(* deleting what it visits (what is stored meanwhile may be missed), and cancels      *)
(* last; MaixCam cancels, closes the listener, and closes every client under the      *)
(* lock that registers them.                                                          *)
BeginStop == /\ skStop = "no" /\ skStop' = "flagged" /\ skRunning' = FALSE
             /\ skLate' = {c \in SkConns : skConn[c] \in Entering}
             /\ UNCHANGED <<skTableVars, skDone, skConn, skOpen, skTable, skAcceptor, skSeen>>
Cancel(from, to) == /\ skStop = from /\ skStop' = to /\ skDone' = TRUE
                    /\ UNCHANGED <<skTableVars, skRunning, skConn, skOpen, skTable, skAcceptor, skSeen, skLate>>
BeginRange == /\ skKind = "pico" /\ skStop = "flagged" /\ skStop' = "ranging" /\ skSeen' = skTable
              /\ UNCHANGED <<skTableVars, skRunning, skDone, skConn, skOpen, skTable, skAcceptor, skLate>>
RangeVisits(c) == /\ skKind = "pico" /\ skStop = "ranging" /\ c \in skTable
                  /\ skOpen' = skOpen \ {c} /\ skTable' = skTable \ {c} /\ skSeen' = skSeen \ {c}
                  /\ UNCHANGED <<skTableVars, skRunning, skDone, skConn, skAcceptor, skStop, skLate>>
EndRange == /\ skStop = "ranging" /\ skSeen \cap skTable = {} /\ skStop' = "closed"
            /\ UNCHANGED <<skTableVars, skRunning, skDone, skConn, skOpen, skTable, skAcceptor, skSeen, skLate>>
PicoStop == BeginRange \/ EndRange \/ (skKind = "pico" /\ Cancel("closed", "over"))
CloseClients(from, to) ==
    /\ skStop = from /\ skStop' = to /\ skOpen' = skOpen \ skTable /\ skTable' = {}
    /\ skAcceptor' = IF skAcceptor = "accept" THEN "over" ELSE skAcceptor
    /\ UNCHANGED <<skTableVars, skRunning, skDone, skConn, skSeen, skLate>>
MaixCamStop == skKind = "maixcam" /\ (Cancel("flagged", "cancelled") \/ CloseClients("cancelled", "over"))

SkConnStep(c) ==
    \/ Upgrade(c) \/ UpgradeFails(c) \/ StoreSocket(c) \/ CountSocket(c) \/ RegisterClient(c)
    \/ LoopTop(c) \/ ReadClosed(c) \/ ReadDeadline(c) \/ PingEnds(c)
    \/ CloseSocket(c) \/ DeleteSocket(c) \/ Uncount(c)
SkStopStep == PicoStop \/ MaixCamStop \/ \E c \in SkConns : RangeVisits(c)
SkPeerStep(c) == Handshake(c) \/ AcceptConn(c) \/ ReadMessage(c) \/ PeerCloses(c) \/ GoesSilent(c)
SkNext == \/ \E c \in SkConns : SkConnStep(c) \/ SkPeerStep(c)
          \/ SkStopStep \/ BeginStop \/ AcceptFails
SkSpec == SkInit /\ [][SkNext]_skVars
SkFairSpec == SkSpec /\ \A c \in SkConns : WF_skVars(SkConnStep(c)) /\ WF_skVars(SkStopStep)

------------------------------------------------------------------------------------
SkTypeOK ==
    /\ skKind \in {"pico", "maixcam"} /\ {skRunning, skDone} \subseteq BOOLEAN
    /\ skConn \in [SkConns -> Stages] /\ skCount \in 0 .. Cardinality(SkConns)
    /\ skOpen \cup skTable \cup skCrowd \cup skPinging \cup skSilent \cup skSeen \cup skLate \subseteq SkConns
    /\ skAcceptor \in {"accept", "register", "over"}
    /\ skStop \in {"no", "flagged", "ranging", "closed", "cancelled", "over"}

(* The counter is the number of goroutines that have counted themselves and not yet   *)
(* counted down, whatever Stop did to the table meanwhile: a connection that Stop     *)
(* deleted is still counted down once, so the limit neither drifts up nor below zero. *)
CountIsExact ==
    skKind = "pico" =>
        skCount = Cardinality({c \in SkConns : skConn[c] \in Reading \cup {"closed", "deleted"}})

(* The limit is tested before the upgrade and counted after it, so it is passed only  *)
(* by handshakes that overlapped, and by no more than their number.                   *)
LimitHolds == skCount <= SkMax + Cardinality(skCrowd)

(* What Pico's Stop leaves open was on its way in when Stop began: a connection that  *)
(* was stored before is closed, and a request that comes later is refused.            *)
LeftBehindWasLate == skKind = "pico" /\ skStop = "over" => skOpen \subseteq skLate

(* Every connection is closed in the end once Stop is over, those that slipped past   *)
(* it included: MaixCam's see the cancelled context before their first read, Pico's   *)
(* run into the read deadline that no ping moves on any more.                         *)
AllClose == skStop = "over" ~> skOpen = {}

(* The count is exact, the limit is passed only by handshakes that overlapped,    *)
(* and what Stop leaves open came too late for it (pico.go, maixcam.go).          *)
SocketsSafe == SkTypeOK /\ CountIsExact /\ LimitHolds /\ LeftBehindWasLate

(* All of it always, and every connection closes in the end (pico.go, maixcam.go).    *)
SocketsCorrect == []SocketsSafe /\ AllClose
====================================================================================
