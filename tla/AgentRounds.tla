---------------------------- MODULE AgentRounds ----------------------------
(***************************************************************************)
(* Who may start a round of the agent, and who answers the user            *)
(* (pkg/agent/loop.go, pkg/tools/message.go).  The goroutine of Run takes  *)
(* messages off the bus one after another; the cron service's goroutine    *)
(* calls ProcessDirectWithChannel.  Both are routed to one conversation.   *)
(* One action is one access to what they share: the table of processed     *)
(* message ids, the conversation's lock, the message tool's flag.  What a  *)
(* round does to the conversation is in module Conversation.               *)
(***************************************************************************)
EXTENDS Naturals, FiniteSets

CONSTANTS
    AgInbox,       \* messages of the bus, [id, kind], the kind one of AgKinds
    AgDeliveries,  \* bound: messages taken off the bus, redeliveries included
    AgCronRounds,  \* bound: rounds of the cron service
    AgExpiries     \* bound: locks that outlive sessionLockTTL, ids older than a day

(* "oversight" is a notice of the master, "internal" the result of a       *)
(* sub-agent of an internal channel, "system" that of a user's sub-agent.  *)
AgKinds == {"chat", "mission", "command", "oversight", "internal", "system"}
AgGoroutines == {"loop", "cron"}

ASSUME AgAssumption ==
    /\ \A m \in AgInbox : m.kind \in AgKinds
    /\ {AgDeliveries, AgCronRounds, AgExpiries} \subseteq Nat

VARIABLES
    agRound,       \* goroutine -> its round: [pc, kind, id, locked, told, crossed]
    agProcessed,   \* al.processedMessages
    agBusy,        \* al.busySessions at the conversation's key: [held, stale]
    agSent,        \* MessageTool.sentInRound
    agCount,       \* deliveries, cron rounds and expiries so far
    agStarted,     \* history: id -> rounds of the model it has had
    agOutcome      \* history: what became of the last reply of Run

agVars == <<agRound, agProcessed, agBusy, agSent, agCount, agStarted, agOutcome>>

AgIds == {m.id : m \in AgInbox}
MissionIds == {m.id : m \in {n \in AgInbox : n.kind = "mission"}}

AgIdle == [pc |-> "idle", kind |-> "none", id |-> "none", locked |-> FALSE,
           told |-> FALSE, crossed |-> FALSE]

AgFree == [held |-> FALSE, stale |-> FALSE]

AgInit ==
    /\ agRound = [g \in AgGoroutines |-> AgIdle]
    /\ agProcessed = {}
    /\ agBusy = AgFree
    /\ agSent = FALSE
    /\ agCount = [deliveries |-> 0, cron |-> 0, expiries |-> 0]
    /\ agStarted = [id \in AgIds |-> 0]
    /\ agOutcome = "none"

AgAt(g, pc) == agRound[g].pc = pc

AgGo(g, pc) == agRound' = [agRound EXCEPT ![g].pc = pc]

AgOther(g) == IF g = "loop" THEN "cron" ELSE "loop"

(* History: a round under way has had the flag moved under its feet. *)
AgCrossed(g) == agRound[g].pc # "idle" \/ agRound[g].crossed

---------------------------------------------------------------------------
(* Run and the first half of processMessage.  Only Run's goroutine carries *)
(* message ids, so its look at the table and its entry are one step.       *)
AgDeliver(kind, id, pc) ==
    /\ AgAt("loop", "idle")
    /\ agCount.deliveries < AgDeliveries
    /\ agCount' = [agCount EXCEPT !.deliveries = @ + 1]
    /\ agRound' = [agRound EXCEPT !["loop"] =
           [AgIdle EXCEPT !.pc = pc, !.kind = kind, !.id = id]]

SkipDuplicate(m) ==
    /\ m.id \in agProcessed /\ m.kind # "mission"
    /\ AgDeliver("duplicate", m.id, "respond")
    /\ UNCHANGED <<agProcessed, agBusy, agSent, agStarted, agOutcome>>

Accept(m, pc) ==
    /\ m.id \notin agProcessed \/ m.kind = "mission"
    /\ agProcessed' = agProcessed \cup {m.id}
    /\ AgDeliver(m.kind, m.id, pc)
    /\ UNCHANGED <<agBusy, agStarted, agOutcome>>

(* handleCommand answers before the flag is reset. *)
HandleCommand(m) ==
    /\ m.kind = "command"
    /\ Accept(m, "respond")
    /\ UNCHANGED agSent

(* processSystemMessage: a notice of the master is relayed as it is if it  *)
(* is good news or tokens are scarce, an internal result is logged,        *)
RelayOversight(m) ==
    /\ m.kind = "oversight"
    /\ Accept(m, "respond")
    /\ UNCHANGED agSent

LogInternal(m) ==
    /\ m.kind = "internal"
    /\ Accept(m, "idle")
    /\ UNCHANGED agSent

(* and anything else starts a round without the lock, the flag as it is.   *)
StartSystem(m) ==
    /\ m.kind \in {"system", "oversight"}
    /\ Accept(m, "work")
    /\ UNCHANGED agSent

(* The second half of processMessage, from the route on: ResetSentInRound  *)
(* is felt by the other goroutine's round too.                             *)
StartChat(m) ==
    /\ m.kind \in {"chat", "mission"}
    /\ m.id \notin agProcessed \/ m.kind = "mission"
    /\ AgAt("loop", "idle")
    /\ agCount.deliveries < AgDeliveries
    /\ agCount' = [agCount EXCEPT !.deliveries = @ + 1]
    /\ agProcessed' = agProcessed \cup {m.id}
    /\ agSent' = FALSE
    /\ agRound' = [agRound EXCEPT
           !["loop"] = [AgIdle EXCEPT !.pc = "lock", !.kind = m.kind, !.id = m.id],
           !["cron"].crossed = AgCrossed("cron")]
    /\ UNCHANGED <<agBusy, agStarted, agOutcome>>

StartCron ==
    /\ AgAt("cron", "idle")
    /\ agCount.cron < AgCronRounds
    /\ agCount' = [agCount EXCEPT !.cron = @ + 1]
    /\ agSent' = FALSE
    /\ agRound' = [agRound EXCEPT
           !["cron"] = [AgIdle EXCEPT !.pc = "lock", !.kind = "cron"],
           !["loop"].crossed = AgCrossed("loop")]
    /\ UNCHANGED <<agProcessed, agBusy, agStarted, agOutcome>>

---------------------------------------------------------------------------
(* The lock of the conversation.                                           *)
AgEnter(g) ==
    /\ agBusy' = [held |-> TRUE, stale |-> FALSE]
    /\ agRound' = [agRound EXCEPT ![g].pc = "work", ![g].locked = TRUE]
    /\ UNCHANGED <<agProcessed, agSent, agCount, agStarted, agOutcome>>

(* Fault: the lock is taken whether it is held or not. *)
TakeLockBlindly(g) == AgAt(g, "lock") /\ AgEnter(g)

TakeLock(g) == AgAt(g, "lock") /\ ~agBusy.held /\ AgEnter(g)

EvictLock(g) == AgAt(g, "lock") /\ agBusy.stale /\ AgEnter(g)

RefuseConcurrent(g) ==
    /\ AgAt(g, "lock")
    /\ agBusy.held /\ ~agBusy.stale
    /\ AgGo(g, "respond")
    /\ UNCHANGED <<agProcessed, agBusy, agSent, agCount, agStarted, agOutcome>>

(* Ten minutes pass. *)
LockExpires ==
    /\ agBusy.held /\ ~agBusy.stale
    /\ agCount.expiries < AgExpiries
    /\ agBusy' = [agBusy EXCEPT !.stale = TRUE]
    /\ agCount' = [agCount EXCEPT !.expiries = @ + 1]
    /\ UNCHANGED <<agRound, agProcessed, agSent, agStarted, agOutcome>>

(* cleanupProcessedMessages, a day later. *)
ForgetId(id) ==
    /\ id \in agProcessed
    /\ agCount.expiries < AgExpiries
    /\ agProcessed' = agProcessed \ {id}
    /\ agCount' = [agCount EXCEPT !.expiries = @ + 1]
    /\ UNCHANGED <<agRound, agBusy, agSent, agStarted, agOutcome>>

---------------------------------------------------------------------------
(* runAgentLoop as its callers see it: it is refused over the budget, or   *)
(* the model answers, or the call fails; and its tools run in between.     *)
Think(g) ==
    /\ AgAt(g, "work")
    /\ AgGo(g, "tools")
    /\ agStarted' = IF g = "loop" THEN [agStarted EXCEPT ![agRound[g].id] = @ + 1] ELSE agStarted
    /\ UNCHANGED <<agProcessed, agBusy, agSent, agCount, agOutcome>>

RefuseOverBudget(g) ==
    /\ AgAt(g, "work")
    /\ AgGo(g, "unlock")
    /\ UNCHANGED <<agProcessed, agBusy, agSent, agCount, agStarted, agOutcome>>

(* MessageTool.Execute: the callback publishes, then the flag is raised. *)
TellUser(g) ==
    /\ AgAt(g, "tools") /\ ~agRound[g].told
    /\ agSent' = TRUE
    /\ agRound' = [agRound EXCEPT ![g].told = TRUE, ![AgOther(g)].crossed = AgCrossed(AgOther(g))]
    /\ UNCHANGED <<agProcessed, agBusy, agCount, agStarted, agOutcome>>

(* ProcessHeartbeat takes no lock and has a conversation of its own; all   *)
(* that others see of its round is the flag.                               *)
HeartbeatTells ==
    /\ ~agSent
    /\ agSent' = TRUE
    /\ agRound' = [g \in AgGoroutines |-> [agRound[g] EXCEPT !.crossed = AgCrossed(g)]]
    /\ UNCHANGED <<agProcessed, agBusy, agCount, agStarted, agOutcome>>

(* The answer, or the error that Run words for the user.  It may never     *)
(* come: an approval is polled for, and an MCP server waited for, without  *)
(* limit (audit.go:162, mcp/manager.go:471).  A system round               *)
(* has published its answer already; what it returns goes to the channel   *)
(* "system", which the dispatcher skips.                                   *)
FinishRound(g) ==
    /\ AgAt(g, "tools")
    /\ AgGo(g, "unlock")
    /\ UNCHANGED <<agProcessed, agBusy, agSent, agCount, agStarted, agOutcome>>

(* Fault: a round without the lock waits for its release. *)
UnlockOwn(g) ==
    /\ AgAt(g, "unlock") /\ agRound[g].locked
    /\ agBusy' = AgFree
    /\ agRound' = [agRound EXCEPT ![g].pc = "respond", ![g].locked = FALSE]
    /\ UNCHANGED <<agProcessed, agSent, agCount, agStarted, agOutcome>>

(* The deferred Delete does not ask whose lock it removes. *)
Unlock(g) ==
    /\ AgAt(g, "unlock")
    /\ agBusy' = IF agRound[g].locked THEN AgFree ELSE agBusy
    /\ agRound' = [agRound EXCEPT ![g].pc = "respond", ![g].locked = FALSE]
    /\ UNCHANGED <<agProcessed, agSent, agCount, agStarted, agOutcome>>

(* Run publishes what came back, unless the message tool has spoken or the *)
(* channel is the mission poller's.  ExecuteJob drops what came back.      *)
Respond(g) ==
    /\ AgAt(g, "respond")
    /\ agOutcome' = IF g = "cron" THEN agOutcome
                    ELSE IF agRound[g].kind = "mission" THEN "dropped"
                    ELSE IF agSent THEN "suppressed" ELSE "published"
    /\ AgGo(g, "idle")
    /\ UNCHANGED <<agProcessed, agBusy, agSent, agCount, agStarted>>

---------------------------------------------------------------------------
AgTypeOK ==
    /\ \A g \in AgGoroutines :
           /\ agRound[g].pc \in {"idle", "lock", "work", "tools", "unlock", "respond"}
           /\ agRound[g].kind \in AgKinds \cup {"cron", "duplicate", "none"}
           /\ agRound[g].id \in AgIds \cup {"none"}
    /\ agProcessed \subseteq AgIds
    /\ agBusy \in [held : BOOLEAN, stale : BOOLEAN]
    /\ agSent \in BOOLEAN
    /\ agStarted \in [AgIds -> 0 .. AgDeliveries]
    /\ agOutcome \in {"none", "dropped", "suppressed", "published"}

(* Two rounds that take the lock of the conversation are inside it at once *)
(* only after a lock has outlived its TTL (busySessions, loop.go:776).     *)
LockedRoundsApart ==
    (\A g \in AgGoroutines : agRound[g].locked) => agCount.expiries > 0

(* The lock is held exactly while one of its rounds is under way, so a     *)
(* round that was evicted and a lock that is stuck both end with it        *)
(* (loop.go:779, "prevent stuck locks").                                   *)
LockHasRound ==
    agBusy.held => \E g \in AgGoroutines : agRound[g].locked

(* A message that is delivered again within the day gets no second round   *)
(* of the model, unless its id is a mission's too, which is not looked up  *)
(* in the table (processedMessages, loop.go:700).                          *)
AnsweredOnce ==
    \A id \in AgIds \ MissionIds : agStarted[id] <= 1 + agCount.expiries

(* A chat is told exactly once, by the message tool or by the reply of its *)
(* round, unless another goroutine has reset or raised the tool's flag in  *)
(* the meantime (loop.go:446, message.go:53).                              *)
OneAnswer ==
    LET r == agRound["loop"] IN
    r.kind = "chat" /\ r.pc = "idle" /\ ~r.crossed
        => (agOutcome = "suppressed") = r.told

(* Run comes back for the next message unless its own round's tools keep   *)
(* it for ever: it never waits for the conversation's lock, so neither a   *)
(* round of the cron service that hangs in its tools nor a lock that       *)
(* nobody gives back holds it up (loop.go:406, 768).                       *)
RunKeepsUp ==
    []<>~AgAt("loop", "tools") => (~AgAt("loop", "idle") ~> AgAt("loop", "idle"))

---------------------------------------------------------------------------
AgRoundStep(g) ==
    \/ TakeLock(g) \/ EvictLock(g) \/ RefuseConcurrent(g)
    \/ Think(g) \/ RefuseOverBudget(g) \/ Unlock(g) \/ Respond(g)

AgNext ==
    \/ \E m \in AgInbox :
           SkipDuplicate(m) \/ HandleCommand(m) \/ RelayOversight(m) \/ LogInternal(m)
           \/ StartSystem(m) \/ StartChat(m)
    \/ StartCron
    \/ \E g \in AgGoroutines : AgRoundStep(g) \/ TellUser(g) \/ FinishRound(g)
    \/ HeartbeatTells
    \/ LockExpires
    \/ \E id \in AgIds : ForgetId(id)

AgSpec == AgInit /\ [][AgNext]_agVars

(* Goroutines run; nothing makes the tools of a round return.              *)
AgFairSpec == AgSpec /\ \A g \in AgGoroutines : WF_agVars(AgRoundStep(g))

(* The rounds of one conversation: locked rounds are never under way       *)
(* together, a held lock has its round (or the round that evicted it), no  *)
(* message is answered twice, and one round gives one answer (loop.go).    *)
RoundsSafe ==
    /\ AgTypeOK
    /\ LockedRoundsApart
    /\ LockHasRound
    /\ AnsweredOnce
    /\ OneAnswer
=============================================================================
