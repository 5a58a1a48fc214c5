----------------------------- MODULE Subagents -----------------------------
(***************************************************************************)
(* Background tasks (pkg/tools/subagent.go): the spawn tool starts a task, *)
(* which runs a model of its own and announces its result as an inbound    *)
(* message of the channel "system".  The announcement is published with    *)
(* the task table locked, on the queue that only the agent loop empties,   *)
(* and the agent loop may be in a round that waits for that lock to spawn. *)
(* What the bus itself does is in module MessageBus.                       *)
(***************************************************************************)
EXTENDS Naturals, Sequences, FiniteSets

CONSTANTS
    SgMaxTasks,  \* bound: tasks spawned
    SgMaxChats,  \* bound: messages of users
    SgCapacity   \* size of the inbound queue

ASSUME SgAssumption == {SgMaxTasks, SgMaxChats, SgCapacity} \subseteq Nat /\ SgCapacity > 0

(* Who may be in a round that spawns: the agent loop, and the goroutine of *)
(* a heartbeat or a cron job, whose context is never cancelled.            *)
Spawners == {"loop", "beat"}

VARIABLES
    sgQueue,      \* bus.inbound: messages of users, [task |-> 0], and announcements
    sgClosed,     \* is the bus closed?
    sgCancelled,  \* the context of the agent loop
    sgLock,       \* SubagentManager.mu: 0, or the task whose goroutine holds it
    sgRound,      \* spawner -> "idle", "round", "spawning"; "over" once Run has returned
    sgTasks,      \* sm.tasks in order: [pc, status, by]
    sgChats,      \* messages of users so far
    sgHeard,      \* history: tasks whose announcement the loop has taken
    sgOverdue,    \* history: tasks that met a full queue for five seconds
    sgDropped     \* history: tasks whose announcement was given up

sgVars == <<sgQueue, sgClosed, sgCancelled, sgLock, sgRound, sgTasks, sgChats, sgHeard, sgOverdue,
            sgDropped>>

SgTask == DOMAIN sgTasks

SgInit ==
    /\ sgQueue = <<>> /\ sgTasks = <<>>
    /\ sgClosed = FALSE /\ sgCancelled = FALSE
    /\ sgLock = 0 /\ sgChats = 0
    /\ sgRound = [g \in Spawners |-> "idle"]
    /\ sgHeard = {} /\ sgOverdue = {} /\ sgDropped = {}

Gets(g, pc) == sgRound' = [sgRound EXCEPT ![g] = pc]
Becomes(t, pc, status) == sgTasks' = [sgTasks EXCEPT ![t].pc = pc, ![t].status = status]

CtxOver(t) == sgTasks[t].by = "loop" /\ sgCancelled

---------------------------------------------------------------------------
(* Run and its rounds.                                                     *)
UserWrites ==
    /\ sgChats < SgMaxChats
    /\ ~sgClosed
    /\ Len(sgQueue) < SgCapacity
    /\ sgQueue' = Append(sgQueue, 0)
    /\ sgChats' = sgChats + 1
    /\ UNCHANGED <<sgClosed, sgCancelled, sgLock, sgRound, sgTasks, sgHeard, sgOverdue, sgDropped>>

(* processSystemMessage only logs the result of a task that an internal    *)
(* round has spawned; any other starts a round in the chat it came from.   *)
TakeMessage ==
    /\ sgRound["loop"] = "idle" /\ ~sgCancelled
    /\ sgQueue # <<>>
    /\ LET t == Head(sgQueue) IN
       /\ sgHeard' = IF t = 0 THEN sgHeard ELSE sgHeard \cup {t}
       /\ Gets("loop", IF t # 0 /\ sgTasks[t].by = "beat" THEN "idle" ELSE "round")
    /\ sgQueue' = Tail(sgQueue)
    /\ UNCHANGED <<sgClosed, sgCancelled, sgLock, sgTasks, sgChats, sgOverdue, sgDropped>>

RunReturns ==
    /\ sgRound["loop"] = "idle" /\ sgCancelled
    /\ Gets("loop", "over")
    /\ UNCHANGED <<sgQueue, sgClosed, sgCancelled, sgLock, sgTasks, sgChats, sgHeard, sgOverdue, sgDropped>>

BeatBegins ==
    /\ sgRound["beat"] = "idle"
    /\ Gets("beat", "round")
    /\ UNCHANGED <<sgQueue, sgClosed, sgCancelled, sgLock, sgTasks, sgChats, sgHeard, sgOverdue, sgDropped>>

RoundEnds(g) ==
    /\ sgRound[g] = "round"
    /\ Gets(g, "idle")
    /\ UNCHANGED <<sgQueue, sgClosed, sgCancelled, sgLock, sgTasks, sgChats, sgHeard, sgOverdue, sgDropped>>

CallSpawn(g) ==
    /\ sgRound[g] = "round"
    /\ Len(sgTasks) + Cardinality({h \in Spawners : sgRound[h] = "spawning"}) < SgMaxTasks
    /\ Gets(g, "spawning")
    /\ UNCHANGED <<sgQueue, sgClosed, sgCancelled, sgLock, sgTasks, sgChats, sgHeard, sgOverdue, sgDropped>>

(* Spawn: the whole of it under the lock, which it does not keep.          *)
Spawn(g) ==
    /\ sgRound[g] = "spawning"
    /\ sgLock = 0
    /\ Gets(g, "round")
    /\ sgTasks' = Append(sgTasks, [pc |-> "spawned", status |-> "running", by |-> g])
    /\ UNCHANGED <<sgQueue, sgClosed, sgCancelled, sgLock, sgChats, sgHeard, sgOverdue, sgDropped>>

---------------------------------------------------------------------------
(* runTask.  A context that is over before the start ends the task without *)
(* an announcement.                                                        *)
StartTask(t) ==
    /\ sgTasks[t].pc = "spawned"
    /\ Becomes(t, IF CtxOver(t) THEN "late" ELSE "reading", "running")
    /\ UNCHANGED <<sgQueue, sgClosed, sgCancelled, sgLock, sgRound, sgChats, sgHeard, sgOverdue, sgDropped>>

CancelBeforeStart(t) ==
    /\ sgTasks[t].pc = "late" /\ sgLock = 0
    /\ Becomes(t, "over", "canceled")
    /\ UNCHANGED <<sgQueue, sgClosed, sgCancelled, sgLock, sgRound, sgChats, sgHeard, sgOverdue, sgDropped>>

(* The options are read under the read lock; then the task's own rounds.   *)
ReadOptions(t) ==
    /\ sgTasks[t].pc = "reading" /\ sgLock = 0
    /\ Becomes(t, "working", "running")
    /\ UNCHANGED <<sgQueue, sgClosed, sgCancelled, sgLock, sgRound, sgChats, sgHeard, sgOverdue, sgDropped>>

(* RunToolLoop answers or fails; the lock is taken and the status set.     *)
FinishTask(t) ==
    /\ sgTasks[t].pc = "working" /\ sgLock = 0
    /\ sgLock' = t
    /\ \E failed \in BOOLEAN :
           Becomes(t, "announcing", IF ~failed THEN "completed" ELSE IF CtxOver(t) THEN "canceled" ELSE "failed")
    /\ UNCHANGED <<sgQueue, sgClosed, sgCancelled, sgRound, sgChats, sgHeard, sgOverdue, sgDropped>>

(* Fault: the announcement has no deadline. *)
WaitsForever(t) == FALSE /\ sgOverdue' = sgOverdue

(* The five seconds of the announcement's context pass.                    *)
FiveSeconds(t) == t \notin sgOverdue /\ sgOverdue' = sgOverdue \cup {t}

AnnounceOverdue(t) ==
    /\ sgTasks[t].pc = "announcing"
    /\ ~sgClosed /\ Len(sgQueue) = SgCapacity
    /\ FiveSeconds(t)
    /\ UNCHANGED <<sgQueue, sgClosed, sgCancelled, sgLock, sgRound, sgTasks, sgChats, sgHeard, sgDropped>>

(* The deferred unlock comes last, after which the callback only logs.     *)
Announce(t) ==
    /\ sgTasks[t].pc = "announcing"
    /\ ~sgClosed /\ Len(sgQueue) < SgCapacity
    /\ sgQueue' = Append(sgQueue, t)
    /\ sgLock' = 0
    /\ Becomes(t, "over", sgTasks[t].status)
    /\ UNCHANGED <<sgClosed, sgCancelled, sgRound, sgChats, sgHeard, sgOverdue, sgDropped>>

(* PublishInbound returns an error, which nobody looks at.                 *)
GiveUpAnnouncing(t) ==
    /\ sgTasks[t].pc = "announcing"
    /\ sgClosed \/ t \in sgOverdue
    /\ sgDropped' = sgDropped \cup {t}
    /\ sgLock' = 0
    /\ Becomes(t, "over", sgTasks[t].status)
    /\ UNCHANGED <<sgQueue, sgClosed, sgCancelled, sgRound, sgChats, sgHeard, sgOverdue>>

---------------------------------------------------------------------------
(* The gateway cancels its context and closes the bus, which drains it.    *)
CancelContext ==
    /\ ~sgCancelled /\ sgCancelled' = TRUE
    /\ UNCHANGED <<sgQueue, sgClosed, sgLock, sgRound, sgTasks, sgChats, sgHeard, sgOverdue, sgDropped>>

CloseBus ==
    /\ sgCancelled /\ ~sgClosed
    /\ sgClosed' = TRUE
    /\ sgQueue' = <<>>
    /\ sgDropped' = sgDropped \cup {t \in SgTask : \E i \in DOMAIN sgQueue : sgQueue[i] = t}
    /\ UNCHANGED <<sgCancelled, sgLock, sgRound, sgTasks, sgChats, sgHeard, sgOverdue>>

SgRoundStep(g) == Spawn(g) \/ RoundEnds(g)
SgTaskStep(t) ==
    \/ StartTask(t) \/ CancelBeforeStart(t) \/ ReadOptions(t) \/ FinishTask(t)
    \/ AnnounceOverdue(t) \/ Announce(t) \/ GiveUpAnnouncing(t)

SgNext ==
    \/ UserWrites \/ TakeMessage \/ RunReturns \/ BeatBegins \/ CancelContext \/ CloseBus
    \/ \E g \in Spawners : CallSpawn(g) \/ SgRoundStep(g)
    \/ \E t \in SgTask : SgTaskStep(t)

SgSpec == SgInit /\ [][SgNext]_sgVars

(* Goroutines run, models answer or time out, timers fire.  That users     *)
(* write, or that anybody closes the bus, is not assumed.                  *)
SgFairSpec ==
    /\ SgSpec
    /\ WF_sgVars(TakeMessage)
    /\ \A g \in Spawners : WF_sgVars(SgRoundStep(g))
    /\ \A t \in 1 .. SgMaxTasks : WF_sgVars(t \in SgTask /\ SgTaskStep(t))

---------------------------------------------------------------------------
SgTypeOK ==
    /\ Len(sgQueue) <= SgCapacity
    /\ sgLock \in {0} \cup SgTask
    /\ \A t \in SgTask : sgTasks[t].status \in {"running", "completed", "failed", "canceled"}
    /\ sgHeard \subseteq SgTask /\ sgDropped \subseteq SgTask

Queued(t) == \E i \in DOMAIN sgQueue : sgQueue[i] = t

(* The lock is held by the task that announces, and by one at most, so a   *)
(* round waits for it no longer than an announcement (subagent.go:175).    *)
LockIsAnnouncing == \A t \in SgTask : sgTasks[t].pc = "announcing" <=> sgLock = t

(* A task that is over has said how it ended before anybody hears of it.   *)
EndedBeforeHeard ==
    \A t \in SgTask : Queued(t) \/ t \in sgHeard \/ sgTasks[t].pc = "over" =>
        sgTasks[t].status # "running"

(* The result of a task that has run reaches the agent once, or waits to,  *)
(* unless the queue was full for five seconds or the bus closed on it      *)
(* (subagent.go:216).                                                      *)
HeardOrLost ==
    \A t \in SgTask : sgTasks[t].pc = "over" =>
        \/ t \in sgHeard
        \/ Queued(t)
        \/ t \in sgDropped /\ (t \in sgOverdue \/ sgClosed)
        \/ sgTasks[t].status = "canceled" /\ sgCancelled

HeardOnce ==
    \A t \in SgTask :
        /\ ~(t \in sgHeard /\ Queued(t)) /\ ~(t \in sgHeard /\ t \in sgDropped)
        /\ \A i, j \in DOMAIN sgQueue : sgQueue[i] = t /\ sgQueue[j] = t => i = j

(* A task that has run is announced once, and the table is locked only for *)
(* that (pkg/tools/subagent.go).                                           *)
SubagentsSafe == SgTypeOK /\ LockIsAnnouncing /\ EndedBeforeHeard /\ HeardOrLost /\ HeardOnce

(* A round that spawns comes back although the announcement of another     *)
(* task holds the lock and the queue is full (subagent.go:221).            *)
SpawnReturns == \A g \in Spawners : sgRound[g] = "spawning" ~> sgRound[g] # "spawning"

(* Every task ends, and with it its hold on the lock.                      *)
TasksEnd == \A t \in 1 .. SgMaxTasks : t \in SgTask ~> (t \in SgTask /\ sgTasks[t].pc = "over")

(* All of it always, and neither a round that spawns nor a task hangs      *)
(* (pkg/tools/subagent.go).                                                *)
SubagentsCorrect == []SubagentsSafe /\ SpawnReturns /\ TasksEnd
=============================================================================
