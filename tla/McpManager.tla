----------------------------- MODULE McpManager -----------------------------
(***************************************************************************)
(* pkg/mcp/manager.go: connecting to the servers, CallTool in any number   *)
(* of goroutines, and Close.  Every access to the atomic flag, the lock    *)
(* and the wait group is a step of its own.  As in the agent loop, the     *)
(* servers are connected before tools are registered and Close runs once.  *)
(***************************************************************************)
EXTENDS Integers, FiniteSets

CONSTANTS Callers,   \* goroutines that call tools
          Servers    \* enabled servers of the configuration

ASSUME McpAssumption == IsFiniteSet(Callers) /\ IsFiniteSet(Servers)

VARIABLES
    loading,   \* servers whose ConnectServer has not returned
    servers,   \* m.servers
    open,      \* sessions that are connected
    closed,    \* m.closed
    wg,        \* the counter of m.wg
    pc,        \* caller -> "idle", "enter", "locked", "checked", "unlock", "call"
    target,    \* caller -> the server it asks for
    closer,    \* "out", "wait", "lock", "close", "done"
    late,      \* history: callers that entered after Close had returned
    raced      \* history: callers that counted themselves after wg.Wait returned

vars == <<loading, servers, open, closed, wg, pc, target, closer, late, raced>>

Init ==
    /\ loading = Servers
    /\ servers = {}
    /\ open = {}
    /\ closed = FALSE
    /\ wg = 0
    /\ pc = [c \in Callers |-> "idle"]
    /\ target \in [Callers -> Servers]
    /\ closer = "out"
    /\ late = {}
    /\ raced = {}

---------------------------------------------------------------------------
(* ConnectServer: the server is stored, or reported and left out. *)
Connect(s) ==
    /\ s \in loading
    /\ loading' = loading \ {s}
    /\ \/ servers' = servers \cup {s} /\ open' = open \cup {s}
       \/ UNCHANGED <<servers, open>>
    /\ UNCHANGED <<closed, wg, pc, target, closer, late, raced>>

---------------------------------------------------------------------------
Readers == {c \in Callers : pc[c] \in {"locked", "checked", "unlock"}}
Goto(c, where) == pc' = [pc EXCEPT ![c] = where]

(* CallTool up to the first check of the flag. *)
Enter(c, s) ==
    /\ loading = {} /\ pc[c] = "idle"
    /\ target' = [target EXCEPT ![c] = s]
    /\ IF closed THEN UNCHANGED pc ELSE Goto(c, "enter")
    /\ late' = IF closer = "done" THEN late \cup {c} ELSE late \ {c}
    /\ raced' = raced \ {c}
    /\ UNCHANGED <<loading, servers, open, closed, wg, closer>>

RLock(c) ==
    /\ pc[c] = "enter" /\ closer # "close"
    /\ Goto(c, "locked")
    /\ UNCHANGED <<loading, servers, open, closed, wg, target, closer, late, raced>>

Check(c) ==
    /\ pc[c] = "locked"
    /\ Goto(c, IF closed THEN "idle" ELSE "checked")
    /\ UNCHANGED <<loading, servers, open, closed, wg, target, closer, late, raced>>

(* The server is looked up and the call counted, then the lock given back. *)
Count(c) ==
    /\ pc[c] = "checked"
    /\ IF target[c] \in servers
       THEN /\ wg' = wg + 1
            /\ Goto(c, "unlock")
            /\ raced' = IF closer \in {"lock", "close", "done"} THEN raced \cup {c} ELSE raced
       ELSE Goto(c, "idle") /\ UNCHANGED <<wg, raced>>
    /\ UNCHANGED <<loading, servers, open, closed, target, closer, late>>

RUnlock(c) ==
    /\ pc[c] = "unlock"
    /\ Goto(c, "call")
    /\ UNCHANGED <<loading, servers, open, closed, wg, target, closer, late, raced>>

(* Session.CallTool returns, with a result or an error.  Its context has no *)
(* deadline, so nothing obliges it to.                                     *)
Return(c) ==
    /\ pc[c] = "call"
    /\ Goto(c, "idle")
    /\ wg' = wg - 1
    /\ UNCHANGED <<loading, servers, open, closed, target, closer, late, raced>>

---------------------------------------------------------------------------
(* Close *)
Swap ==
    /\ closer = "out" /\ loading = {}
    /\ closed' = TRUE
    /\ closer' = "wait"
    /\ UNCHANGED <<loading, servers, open, wg, pc, target, late, raced>>

(* Fault: Close goes on without waiting for the calls in flight. *)
WaitNot ==
    /\ closer = "wait"
    /\ closer' = "lock"
    /\ UNCHANGED <<loading, servers, open, closed, wg, pc, target, late, raced>>

Wait ==
    /\ closer = "wait" /\ wg = 0
    /\ closer' = "lock"
    /\ UNCHANGED <<loading, servers, open, closed, wg, pc, target, late, raced>>

Lock ==
    /\ closer = "lock" /\ Readers = {}
    /\ closer' = "close"
    /\ UNCHANGED <<loading, servers, open, closed, wg, pc, target, late, raced>>

(* Each session is closed, whether or not that reports an error; at the    *)
(* end the map is emptied and the lock given back.                         *)
CloseSession(s) ==
    /\ closer = "close" /\ s \in servers \cap open
    /\ open' = open \ {s}
    /\ UNCHANGED <<loading, servers, closed, wg, pc, target, closer, late, raced>>

(* Faults: Close gives up at the first session that reports an error, or   *)
(* keeps the lock.                                                         *)
FinishHalf ==
    /\ closer = "close"
    /\ servers' = {}
    /\ closer' = "done"
    /\ UNCHANGED <<loading, open, closed, wg, pc, target, late, raced>>
FinishLocked ==
    /\ closer = "close" /\ servers \cap open = {}
    /\ servers' = {}
    /\ UNCHANGED <<loading, open, closed, wg, pc, target, closer, late, raced>>

Finish ==
    /\ closer = "close" /\ servers \cap open = {}
    /\ servers' = {}
    /\ closer' = "done"
    /\ UNCHANGED <<loading, open, closed, wg, pc, target, late, raced>>

CallStep(c) == RLock(c) \/ Check(c) \/ Count(c) \/ RUnlock(c)
CloseStep == Wait \/ Lock \/ (\E s \in Servers : CloseSession(s)) \/ Finish

Next ==
    \/ \E s \in Servers : Connect(s)
    \/ \E c \in Callers : CallStep(c) \/ Return(c) \/ \E s \in Servers : Enter(c, s)
    \/ Swap \/ CloseStep

Spec == Init /\ [][Next]_vars

(* Goroutines run; nothing makes a server answer, a goroutine call a tool  *)
(* or the agent end.                                                       *)
FairSpec == Spec /\ WF_vars(CloseStep) /\ \A c \in Callers : WF_vars(CallStep(c))

---------------------------------------------------------------------------
Counted == {c \in Callers : pc[c] \in {"unlock", "call"}}

(* Type correctness; the wait group counts the calls in flight.            *)
TypeOK ==
    /\ loading \in SUBSET Servers
    /\ servers \in SUBSET Servers
    /\ open \in SUBSET Servers
    /\ closed \in BOOLEAN
    /\ wg \in Nat /\ wg = Cardinality(Counted)
    /\ pc \in [Callers -> {"idle", "enter", "locked", "checked", "unlock", "call"}]
    /\ target \in [Callers -> Servers]
    /\ closer \in {"out", "wait", "lock", "close", "done"}
    /\ late \in SUBSET Callers
    /\ raced \in SUBSET Callers
    /\ closed <=> closer # "out"

(* Only a call that was between its check of the flag and its entry in the *)
(* wait group at the instant wg.Wait returned can lose its session.        *)
CutOnlyByRace == \A c \in Callers : pc[c] = "call" /\ target[c] \notin open => c \in raced

(* A call made after Close has returned never reaches a server, and Close  *)
(* leaves no session open: no server process outlives the agent.           *)
NothingAfterClose ==
    closer = "done" => open = {} /\ \A c \in late : pc[c] = "idle"

(* Only a server that never answers holds anybody up: every call comes to  *)
(* its server or is refused, and unless a call is at a server for ever     *)
(* Close returns.  Calls and Close never wait for each other in a circle,  *)
(* for the wait group on one side and the lock on the other                *)
(* (manager.go:444, 488).                                                  *)
OnlyServersHoldUp ==
    /\ \A c \in Callers : pc[c] \notin {"idle", "call"} ~> pc[c] \in {"idle", "call"}
    /\ (\A c \in Callers : []<>(pc[c] # "call")) => (closer = "wait" ~> closer = "done")

(* manager.go:488 "After closed=true is set, no new CallTool can start     *)
(* (they check closed first)": when Close holds the lock, no call is using *)
(* a session it closes (manager.go:487 "Wait for all in-flight CallTool    *)
(* calls to finish before closing sessions").                              *)
NoCallWhileClosing == closer = "close" => \A c \in Callers : pc[c] # "call"
=============================================================================
