---------------------------------- MODULE SiamArm ----------------------------------
(* siam-arm (siam-arm/main.go): the worker process on a node.  It keeps a command     *)
(* stream open to the master, runs each command in the stream's loop or in a          *)
(* goroutine of its own, reports the result, and keeps one "brain", the ottoclaw      *)
(* gateway it starts as a child process under the node's current soul.  brainMutex    *)
(* is taken by the loop and given back by the goroutine that waits for the brain, so  *)
(* it is held for as long as the brain lives.                                         *)
EXTENDS Naturals, FiniteSets

CONSTANTS ArCommands,       \* what the master sends: records [id, kind, soul]
          ArTakes,          \* bound: how many of them the process receives
          ArRestarts        \* bound: how often the supervisor restarts the process

(* A workspace sync is "sync_id" of SOUL_ID, "sync_soul" of a file that asks for a new  *)
(* brain (SOUL.md, holding the soul it names, or with NoSoul AGENTS.md or ROLE), and    *)
(* "sync" of any other file.                                                            *)
Inline == {"proactive", "listen_stop", "restart_container"}
Jobs == {"query", "shell", "browser"}
Silent == {"unknown", "listen_loop"}
Replacing == {"soul", "sync_soul", "reload"}     \* those that ask for a new brain
Nudging == {"poll", "dm"}
ArKinds == Inline \cup Jobs \cup Silent \cup Replacing \cup Nudging \cup {"terminate", "bad_soul", "sync", "sync_id"}
NoSoul == "none"
ASSUME ArAssumption == ArCommands \subseteq [id : Nat, kind : ArKinds, soul : STRING] /\ {ArTakes, ArRestarts} \subseteq Nat

NoCommand == [id |-> 0, kind |-> "none", soul |-> NoSoul]
NoBrain == NoCommand
Boot == [NoCommand EXCEPT !.kind = "boot"]       \* the goroutine that ignites the recovered soul
Free == [NoCommand EXCEPT !.kind = "free"]       \* nobody holds brainMutex

VARIABLES arMode,       \* OTTOCLAW_MODE: "worker" or "orchestrator"
          arPc,         \* command loop: "open", "recv", "soul_id", "want", "nudge", "sleep", "exit", "dead"
          arCmd,        \* the command the loop is at
          arLeft,       \* commands the master has not sent yet
          arReports,    \* command -> results reported
          arJobs,       \* commands whose goroutine is running
          arDropped,    \* history: commands a handler gave up without a report
          arLost,       \* history: commands cut off by the end of the process
          arSoul,       \* currentSoul
          arSoulMd,     \* whose soul SOUL.md holds
          arSoulId,     \* SOUL_ID
          arApart,      \* history: one of the two was written without the other
          arLock,       \* brainMutex: Free, or the starter it is held for
          arStarter,    \* starter (Boot or a command) -> [pc, soul]
          arBrain,      \* currentBrain: the starter whose child it is
          arCancelled,  \* workerCtx
          arFatal,      \* history: the runtime killed the process
          arRestarted   \* restarts so far
arVars == <<arMode, arPc, arCmd, arLeft, arReports, arJobs, arDropped, arLost, arSoul, arSoulMd, arSoulId,
            arApart, arLock, arStarter, arBrain, arCancelled, arFatal, arRestarted>>
arSoulVars == <<arSoul, arSoulMd, arSoulId, arApart>>
arBrainVars == <<arLock, arStarter, arBrain>>
arLifeVars == <<arMode, arLost, arCancelled, arFatal, arRestarted>>
arCommandVars == <<arCmd, arLeft, arReports, arJobs, arDropped>>

Starters == {Boot} \cup ArCommands
Idle == [pc |-> "idle", soul |-> NoSoul]
Up == arPc # "dead"

(* main: the soul comes from SOUL_ID, and a worker that has one ignites its brain in  *)
(* a goroutine of its own.                                                            *)
Booted(soul, mode) == [s \in Starters |-> IF s = Boot /\ soul # NoSoul /\ mode = "worker"
                                          THEN [pc |-> "waiting", soul |-> soul] ELSE Idle]
ArInit == \E soul \in {NoSoul, "old"}, mode \in {"worker", "orchestrator"} :
    /\ arMode = mode /\ arStarter = Booted(soul, mode)
    /\ arPc = "open" /\ arCmd = NoCommand /\ arLeft = ArCommands /\ arReports = [c \in ArCommands |-> 0]
    /\ arJobs = {} /\ arDropped = {} /\ arLost = {}
    /\ arSoul = soul /\ arSoulMd = soul /\ arSoulId = soul /\ arApart = FALSE
    /\ arLock = Free /\ arBrain = NoBrain
    /\ arCancelled = FALSE /\ arFatal = FALSE /\ arRestarted = 0

Report(c) == arReports' = [arReports EXCEPT ![c] = @ + 1]
Drop(c) == arDropped' = arDropped \cup {c} /\ UNCHANGED arReports
Take(c, kinds) == /\ arPc = "recv" /\ c \in arLeft /\ c.kind \in kinds /\ arLeft' = arLeft \ {c}
                  /\ Cardinality(ArCommands \ arLeft) < ArTakes
Stay == UNCHANGED <<arPc, arCmd>>
Go(pc, c) == arPc' = pc /\ arCmd' = c

(* The stream is opened, breaks while the loop waits for a command, and is opened     *)
(* again after a pause.                                                               *)
OpenStream == /\ arPc = "open" /\ ~arCancelled /\ Go("recv", NoCommand)
              /\ UNCHANGED <<arLeft, arReports, arJobs, arDropped, arSoulVars, arBrainVars, arLifeVars>>
StreamBreaks == /\ arPc = "recv" /\ Go("sleep", NoCommand)
                /\ UNCHANGED <<arLeft, arReports, arJobs, arDropped, arSoulVars, arBrainVars, arLifeVars>>
Reconnects == /\ arPc = "sleep" /\ Go("open", NoCommand)
              /\ UNCHANGED <<arLeft, arReports, arJobs, arDropped, arSoulVars, arBrainVars, arLifeVars>>

(* Commands the loop answers itself, commands it hands to a goroutine, and commands   *)
(* no branch answers.  A shell command that ends after the cancellation is not        *)
(* reported.                                                                          *)
RunInline(c) == /\ Take(c, Inline) /\ Report(c) /\ Stay
                /\ UNCHANGED <<arJobs, arDropped, arSoulVars, arBrainVars, arLifeVars>>
StartJob(c) == /\ Take(c, Jobs) /\ arJobs' = arJobs \cup {c} /\ Stay
               /\ UNCHANGED <<arReports, arDropped, arSoulVars, arBrainVars, arLifeVars>>
EndJob(c) == /\ Up /\ c \in arJobs /\ arJobs' = arJobs \ {c} /\ Stay
             /\ IF c.kind = "shell" /\ arCancelled THEN Drop(c) ELSE Report(c) /\ UNCHANGED arDropped
             /\ UNCHANGED <<arLeft, arSoulVars, arBrainVars, arLifeVars>>
RunSilent(c) == /\ Take(c, Silent) /\ Drop(c) /\ Stay
                /\ UNCHANGED <<arJobs, arSoulVars, arBrainVars, arLifeVars>>

(* SYSTEM_TERMINATE: the context is cancelled, which kills the brain, and the process *)
(* exits two seconds later.                                                           *)
Killed == [s \in Starters |-> IF arStarter[s].pc = "alive" THEN [arStarter[s] EXCEPT !.pc = "ended"]
                              ELSE arStarter[s]]
Terminate(c) == /\ Take(c, {"terminate"}) /\ Drop(c) /\ Go("exit", c) /\ arCancelled' = TRUE
                /\ arStarter' = Killed
                /\ UNCHANGED <<arJobs, arSoulVars, arLock, arBrain, arMode, arLost, arFatal, arRestarted>>

(* SYSTEM_SOUL_TRANSFER: an orchestrator refuses; an invalid payload is dropped.      *)
(* SOUL.md and SOUL_ID are written one after the other, and a failed write, which may *)
(* leave the file empty, ends the handler without a report; then the soul is current   *)
(* and the brain is to be replaced.                                                    *)
RefuseSoul(c) == /\ Take(c, {"soul", "bad_soul"}) /\ arMode = "orchestrator" /\ Report(c) /\ Stay
                 /\ UNCHANGED <<arJobs, arDropped, arSoulVars, arBrainVars, arLifeVars>>
DropSoul(c) == /\ Take(c, {"soul", "bad_soul"}) /\ arMode = "worker" /\ Drop(c) /\ Stay
               /\ UNCHANGED <<arJobs, arSoulVars, arBrainVars, arLifeVars>>
SoulFails(c) == /\ Take(c, {"soul"}) /\ arMode = "worker" /\ Drop(c) /\ Stay
                /\ arSoulMd' \in {arSoulMd, NoSoul} /\ arApart' = TRUE
                /\ UNCHANGED <<arJobs, arSoul, arSoulId, arBrainVars, arLifeVars>>
WriteSoul(c) == /\ Take(c, {"soul"}) /\ arMode = "worker" /\ arSoulMd' = c.soul /\ arApart' = TRUE
                /\ Go("soul_id", c)
                /\ UNCHANGED <<arReports, arJobs, arDropped, arSoul, arSoulId, arBrainVars, arLifeVars>>
WriteSoulId == /\ arPc = "soul_id" /\ arSoulId' = arCmd.soul /\ arSoul' = arCmd.soul /\ arApart' = FALSE
               /\ Go("want", arCmd)
               /\ UNCHANGED <<arLeft, arReports, arJobs, arDropped, arSoulMd, arBrainVars, arLifeVars>>
SoulIdFails == /\ arPc = "soul_id" /\ Drop(arCmd) /\ Go("recv", NoCommand) /\ arSoulId' \in {arSoulId, NoSoul}
               /\ UNCHANGED <<arLeft, arJobs, arSoul, arSoulMd, arApart, arBrainVars, arLifeVars>>

(* SYSTEM_WORKSPACE_SYNC: a rejected name, a protected file of an orchestrator and a  *)
(* failed write are reported; an undecodable payload is not.  Whatever file is named   *)
(* is written, SOUL.md or SOUL_ID alone too, and a failed write may leave it empty.     *)
(* A critical file asks for a new brain; without a soul the handler unlocks the mutex   *)
(* it did not lock, which the runtime answers by killing the process.                   *)
Syncs == {"sync", "sync_soul", "sync_id"}
OfSoulFile(c) == c.kind = "sync_id" \/ (c.kind = "sync_soul" /\ c.soul # NoSoul)
FileHolds(c, soul) == IF c.kind = "sync_id" THEN arSoulId' = soul /\ UNCHANGED arSoulMd
                      ELSE arSoulMd' = soul /\ UNCHANGED arSoulId
SyncsFile(c, soul) == /\ IF OfSoulFile(c) THEN FileHolds(c, soul) /\ arApart' = TRUE
                         ELSE UNCHANGED <<arSoulMd, arSoulId, arApart>>
                      /\ UNCHANGED arSoul
SyncRefused(c) == /\ Take(c, Syncs) /\ Report(c) /\ Stay
                  /\ UNCHANGED <<arJobs, arDropped, arSoulVars, arBrainVars, arLifeVars>>
SyncInvalid(c) == /\ Take(c, Syncs) /\ Drop(c) /\ Stay
                  /\ UNCHANGED <<arJobs, arSoulVars, arBrainVars, arLifeVars>>
SyncAllowed(c) == arMode = "worker" \/ ~OfSoulFile(c)
SyncFails(c) == /\ Take(c, Syncs) /\ SyncAllowed(c) /\ SyncsFile(c, NoSoul) /\ Report(c) /\ Stay
                /\ UNCHANGED <<arJobs, arDropped, arBrainVars, arLifeVars>>
SyncReloads(c) == c.kind = "sync_soul" /\ arMode = "worker"
SyncWritten(c) ==
    /\ Take(c, Syncs) /\ SyncAllowed(c) /\ (SyncReloads(c) => arSoul # NoSoul)
    /\ SyncsFile(c, c.soul)
    /\ IF SyncReloads(c) THEN Go("want", c) /\ UNCHANGED arReports ELSE Report(c) /\ Stay
    /\ UNCHANGED <<arJobs, arDropped, arBrainVars, arLifeVars>>
Everything == {c \in ArCommands \ arLeft : arReports[c] = 0}
SyncWithoutSoul(c) ==
    /\ Take(c, {"sync_soul"}) /\ SyncReloads(c) /\ arSoul = NoSoul /\ arLock = Free
    /\ SyncsFile(c, c.soul)
    /\ Go("dead", NoCommand) /\ arFatal' = TRUE /\ arLost' = arLost \cup Everything \cup {c} /\ arJobs' = {}
    /\ UNCHANGED <<arReports, arDropped, arBrainVars, arMode, arCancelled, arRestarted>>

(* SYSTEM_HOT_RELOAD. *)
ReloadSkipped(c) == /\ Take(c, {"reload"}) /\ (arMode = "orchestrator" \/ arSoul = NoSoul) /\ Report(c) /\ Stay
                    /\ UNCHANGED <<arJobs, arDropped, arSoulVars, arBrainVars, arLifeVars>>
Reload(c) == /\ Take(c, {"reload"}) /\ arMode = "worker" /\ arSoul # NoSoul /\ Go("want", c)
             /\ UNCHANGED <<arReports, arJobs, arDropped, arSoulVars, arBrainVars, arLifeVars>>

(* SYSTEM_POLL_MISSIONS and SYSTEM_DM (which overwrites DM_INBOX first) look at       *)
(* currentBrain under the mutex and signal it after releasing it.                     *)
Nudge(c) == /\ Take(c, Nudging) /\ Go("want", c)
            /\ UNCHANGED <<arReports, arJobs, arDropped, arSoulVars, arBrainVars, arLifeVars>>
PeekBrain == /\ arPc = "want" /\ arCmd.kind \in Nudging /\ arLock = Free /\ Go("nudge", arCmd)
             /\ UNCHANGED <<arLeft, arReports, arJobs, arDropped, arSoulVars, arBrainVars, arLifeVars>>
SignalBrain == /\ arPc = "nudge" /\ Report(arCmd) /\ Go("recv", NoCommand)
               /\ UNCHANGED <<arLeft, arJobs, arDropped, arSoulVars, arBrainVars, arLifeVars>>

(* The brain is replaced: the loop takes the mutex, kills and reaps the brain there   *)
(* is, and starts the goroutine that will hold the mutex.  The soul is the one that   *)
(* was current when the handler looked.                                               *)
ReplaceBrain ==
    /\ arPc = "want" /\ arCmd.kind \in Replacing /\ arLock = Free
    /\ arLock' = arCmd
    /\ arStarter' = [Killed EXCEPT ![arCmd] = [pc |-> "starting", soul |-> arSoul]]
    /\ IF arCmd.kind = "sync_soul" THEN Report(arCmd) ELSE UNCHANGED arReports
    /\ Go("recv", NoCommand)
    /\ UNCHANGED <<arLeft, arJobs, arDropped, arSoulVars, arBrain, arLifeVars>>
BootUnlocked == /\ Up /\ arStarter[Boot].pc = "waiting"
                /\ arStarter' = [arStarter EXCEPT ![Boot].pc = "starting"]
                /\ UNCHANGED <<arPc, arCommandVars, arSoulVars, arLock, arBrain, arLifeVars>>
BootLocks == /\ Up /\ arStarter[Boot].pc = "waiting" /\ arLock = Free /\ arLock' = Boot
             /\ arStarter' = [arStarter EXCEPT ![Boot].pc = "starting"]
             /\ UNCHANGED <<arPc, arCommandVars, arSoulVars, arBrain, arLifeVars>>

(* The goroutine starts the child, reports for a soul transfer or a reload, and waits *)
(* until the child exits; only then it unlocks.                                       *)
ReportStart(s) == IF s # Boot /\ s.kind \in {"soul", "reload"} THEN Report(s) ELSE UNCHANGED arReports
Ignite(s) == /\ Up /\ arStarter[s].pc = "starting" /\ ~arCancelled
             /\ arStarter' = [arStarter EXCEPT ![s].pc = "alive"] /\ arBrain' = s /\ ReportStart(s)
             /\ UNCHANGED <<arPc, arCmd, arLeft, arJobs, arDropped, arSoulVars, arLock, arLifeVars>>
IgniteFails(s) == /\ Up /\ arStarter[s].pc = "starting"
                  /\ arStarter' = [arStarter EXCEPT ![s] = Idle] /\ arLock' = Free /\ ReportStart(s)
                  /\ arBrain' = IF s # Boot /\ s.kind # "soul" THEN s ELSE arBrain
                  /\ UNCHANGED <<arPc, arCmd, arLeft, arJobs, arDropped, arSoulVars, arLifeVars>>
BrainExits(s) == /\ Up /\ arStarter[s].pc = "alive" /\ arStarter' = [arStarter EXCEPT ![s].pc = "ended"]
                 /\ UNCHANGED <<arPc, arCommandVars, arSoulVars, arLock, arBrain, arLifeVars>>
UnlockBrain(s) == /\ Up /\ arStarter[s].pc = "ended" /\ arStarter' = [arStarter EXCEPT ![s] = Idle]
                  /\ arLock' = Free
                  /\ UNCHANGED <<arPc, arCommandVars, arSoulVars, arBrain, arLifeVars>>

(* The process ends: os.Exit after SYSTEM_TERMINATE, or the restart and update        *)
(* actions of a heartbeat reply; the supervisor starts it again.                      *)
Ends == /\ (arPc = "exit" \/ Up) /\ Go("dead", NoCommand) /\ arLost' = arLost \cup Everything /\ arJobs' = {}
        /\ UNCHANGED <<arLeft, arReports, arDropped, arSoulVars, arBrainVars, arMode, arCancelled, arFatal,
                       arRestarted>>
Exit == arPc = "exit" /\ Ends
HeartbeatRestart == Up /\ arPc # "exit" /\ arRestarted < ArRestarts /\ Ends
RestartArm == /\ arPc = "dead" /\ arRestarted < ArRestarts /\ arRestarted' = arRestarted + 1
           /\ Go("open", NoCommand) /\ arSoul' = arSoulId /\ arStarter' = Booted(arSoulId, arMode)
           /\ arLock' = Free /\ arBrain' = NoBrain /\ arCancelled' = FALSE
           /\ UNCHANGED <<arLeft, arReports, arJobs, arDropped, arSoulMd, arSoulId, arApart, arMode, arLost,
                          arFatal>>

ArNext ==
    \/ OpenStream \/ StreamBreaks \/ Reconnects \/ WriteSoulId \/ SoulIdFails \/ PeekBrain \/ SignalBrain
    \/ ReplaceBrain \/ BootLocks \/ Exit \/ HeartbeatRestart \/ RestartArm
    \/ \E c \in ArCommands :
          \/ RunInline(c) \/ StartJob(c) \/ EndJob(c) \/ RunSilent(c) \/ Terminate(c) \/ Nudge(c)
          \/ RefuseSoul(c) \/ DropSoul(c) \/ WriteSoul(c) \/ ReloadSkipped(c) \/ Reload(c)
          \/ SoulFails(c) \/ SyncRefused(c) \/ SyncInvalid(c) \/ SyncFails(c) \/ SyncWritten(c) \/ SyncWithoutSoul(c)
    \/ \E s \in Starters : Ignite(s) \/ IgniteFails(s) \/ BrainExits(s) \/ UnlockBrain(s)
ArSpec == ArInit /\ [][ArNext]_arVars

------------------------------------------------------------------------------------
Alive == {s \in Starters : arStarter[s].pc = "alive"}

ArTypeOK ==
    /\ arPc \in {"open", "recv", "soul_id", "want", "nudge", "sleep", "exit", "dead"}
    /\ arCmd \in ArCommands \cup {NoCommand}
    /\ arLeft \cup arJobs \cup arDropped \cup arLost \subseteq ArCommands
    /\ arReports \in [ArCommands -> 0 .. 1]
    /\ {arApart, arCancelled, arFatal} \subseteq BOOLEAN /\ arRestarted \in 0 .. ArRestarts
    /\ \A s \in Starters : arStarter[s].pc \in {"idle", "waiting", "starting", "alive", "ended"}
    /\ arLock \in {Free} \cup Starters /\ arBrain \in Starters \cup {NoBrain}

(* "Ensure only one brain runs at a time": no two children of the process live at     *)
(* once, whichever of boot, soul transfer, file sync and reload started them.         *)
OneBrain == Up => Cardinality(Alive) <= 1

(* A command that was received is answered, is still being worked on, was cut off by  *)
(* the end of the process, or belongs to the cases no branch reports: the master      *)
(* never waits for an answer that a failed start or a failed write swallowed.         *)
ReceivedIsAnswered ==
    \A c \in ArCommands \ arLeft :
        \/ arReports[c] = 1 \/ c \in arJobs \cup arDropped \cup arLost \/ arCmd = c
        \/ arStarter[c].pc = "starting"

(* The mutex never outlives the brain it is held for: whoever holds it is starting a  *)
(* child, waiting for one that lives, or about to unlock, so the loop that waits for  *)
(* it waits for nothing but the end of a brain.                                       *)
LockHasBrain == Up /\ arLock # Free => arStarter[arLock].pc \in {"starting", "alive", "ended"}

(* The brain that lives bears the current soul.  The exceptions are a transfer whose  *)
(* handler still waits for the mutex, and the goroutine of the boot, which ignites    *)
(* the soul it was started with even when a transfer came before it.                  *)
BrainBearsSoul ==
    Up => \A s \in Alive : \/ arStarter[s].soul = arSoul \/ s = Boot
                           \/ (arPc = "want" /\ arCmd.kind = "soul")

(* SOUL.md and SOUL_ID name the same soul unless what last wrote one of them did not   *)
(* write the other: a transfer that was cut off or failed before it wrote SOUL_ID, or   *)
(* a workspace sync of one of the two files.  After a completed transfer, whatever came  *)
(* before it, a restarted process recovers the soul whose file its brain will read.     *)
SoulFilesAgree == ~arApart => arSoulMd = arSoulId

(* One brain at most lives and bears the soul it was started for, the lock has an *)
(* owner, the two soul files agree unless one was written alone, and a received   *)
(* command is answered, dropped or at work (siam-arm/main.go).                    *)
ArmSafe ==
    /\ ArTypeOK
    /\ OneBrain
    /\ ReceivedIsAnswered
    /\ LockHasBrain
    /\ BrainBearsSoul
    /\ SoulFilesAgree
====================================================================================
