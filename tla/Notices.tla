------------------------------ MODULE Notices ------------------------------
(***************************************************************************)
(* Where the agent turns to unasked: the last active channel               *)
(* (pkg/state/state.go), the heartbeat (pkg/heartbeat/service.go) and the  *)
(* device events (pkg/devices/service.go) of the gateway.  Three managers  *)
(* of one file each load it once; only the agent loop's ever saves, at the *)
(* start of each round (runAgentLoop), heartbeat rounds included.          *)
(***************************************************************************)
EXTENDS Naturals

CONSTANTS
    NtChannels,  \* chats of real channels, "platform:chat": not "cli", not "none"
    NtRounds,    \* bound: rounds of users and of background jobs
    NtBeats,     \* bound: heartbeats that find tasks
    NtRestarts,  \* bound: crashes and shutdowns
    NtFailures   \* bound: saves of the file that fail

VARIABLES
    ntFile,     \* state/state.json
    ntMem,      \* manager -> the last channel it holds
    ntPhase,    \* the gateway: "starting" (devices not loaded), "running", "stopping"
    ntBeat,     \* heartbeat goroutine -> [pc, to, active], the last as in ntNotice
    ntService,  \* stopChan of the heartbeat: is it open?
    ntTasks,    \* HEARTBEAT.md: "missing", "template" or "tasks"
    ntNotice,   \* history: the last notice, [by, to, active]: active is the chat that was
                \* the last active one when the heartbeat chose where to turn
    ntActive,   \* history: the chat of the last round a user began
    ntSince,    \* history: what may have parted the file from it
    ntAtStart,  \* history: the same two when the process began, ntSince as it goes on
                \* until the devices have loaded
    ntCount     \* rounds, beats, restarts and failures so far

ntVars == <<ntFile, ntMem, ntPhase, ntBeat, ntService, ntTasks, ntNotice, ntActive, ntSince,
            ntAtStart, ntCount>>

Managers == {"loop", "heartbeat", "devices"}
(* The timer of the first heartbeat has a goroutine of its own. *)
Beats == {"first", "tick"}
BeatWaits == [pc |-> "waiting", to |-> "none", active |-> "none"]
BeatOver == [pc |-> "over", to |-> "none", active |-> "none"]
NtNobody == [by |-> "nobody", to |-> "none", active |-> "none"]

NtInit ==
    /\ ntFile = "none"
    /\ ntMem = [m \in Managers |-> "none"]
    /\ ntPhase = "starting"
    /\ ntBeat = [w \in Beats |-> BeatWaits]
    /\ ntService = TRUE
    /\ ntTasks = "missing"
    /\ ntNotice = NtNobody
    /\ ntActive = "none" /\ ntSince = {}
    /\ ntAtStart = [active |-> "none", since |-> {}]
    /\ ntCount = [rounds |-> 0, beats |-> 0, restarts |-> 0, failures |-> 0]

Spend(k, most) == ntCount[k] < most /\ ntCount' = [ntCount EXCEPT ![k] = @ + 1]

(* Fault: the heartbeat's round records the channel it falls back to. *)
IsInternalNever(c) == c = "none"

(* constants.IsInternalChannel *)
IsInternal(c) == c \in {"cli", "none"}

(* RecordLastChannel: SetLastChannel changes what the loop's manager holds *)
(* and saves it; a save that fails is logged.                              *)
RecordLastChannel(c, saved) ==
    /\ ntMem' = [ntMem EXCEPT !["loop"] = c]
    /\ ntFile' = IF saved THEN c ELSE ntFile

Doubts(saved, others) == others \cup IF saved THEN {} ELSE {"failure"}

FailuresLeft(saved) == saved \/ ntCount.failures < NtFailures

SpendRound(saved) ==
    /\ ntCount.rounds < NtRounds
    /\ FailuresLeft(saved)
    /\ ntCount' = [ntCount EXCEPT !.rounds = @ + 1, !.failures = IF saved THEN @ ELSE @ + 1]

---------------------------------------------------------------------------
(* A user writes.  A round over the day's budget records nothing.          *)
UserRound(c, saved) ==
    /\ ntPhase = "running"
    /\ SpendRound(saved)
    /\ RecordLastChannel(c, saved)
    /\ ntActive' = c
    /\ ntSince' = Doubts(saved, {})
    /\ UNCHANGED <<ntPhase, ntBeat, ntService, ntTasks, ntNotice, ntAtStart>>

RefuseUser(c) ==
    /\ ntPhase = "running"
    /\ SpendRound(TRUE)
    /\ ntActive' = c
    /\ ntSince' = {"budget"}
    /\ UNCHANGED <<ntFile, ntMem, ntPhase, ntBeat, ntService, ntTasks, ntNotice, ntAtStart>>

Unasked ==
    /\ ntSince' = ntSince \cup {"unasked"}
    /\ ntAtStart' = [ntAtStart EXCEPT !.since = IF ntPhase = "starting" THEN @ \cup {"unasked"} ELSE @]

(* A cron job, or the answer to a sub-agent's result, starts a round in a  *)
(* chat without its user.                                                  *)
BackgroundRound(c, saved) ==
    /\ SpendRound(saved)
    /\ RecordLastChannel(c, saved)
    /\ Unasked
    /\ UNCHANGED <<ntPhase, ntBeat, ntService, ntTasks, ntNotice, ntActive>>

---------------------------------------------------------------------------
(* executeHeartbeat.  The first one has a timer, the others the ticker.    *)
BeatEnds(w) == IF w = "first" THEN BeatOver ELSE BeatWaits

BeatStopped(w) ==
    /\ ntBeat[w].pc = "waiting" /\ ~ntService
    /\ ntBeat' = [ntBeat EXCEPT ![w] = BeatOver]
    /\ UNCHANGED <<ntFile, ntMem, ntPhase, ntService, ntTasks, ntNotice, ntActive, ntSince, ntAtStart,
                   ntCount>>

(* Without HEARTBEAT.md one is made, which may fail; a list without tasks  *)
(* ends the beat.                                                          *)
BeatIdle(w) ==
    /\ ntBeat[w].pc = "waiting" /\ ntService
    /\ ntTasks # "tasks"
    /\ ntTasks' \in {ntTasks, "template"}
    /\ ntBeat' = [ntBeat EXCEPT ![w] = BeatEnds(w)]
    /\ UNCHANGED <<ntFile, ntMem, ntPhase, ntService, ntNotice, ntActive, ntSince, ntAtStart, ntCount>>

(* The channel is the one the heartbeat's own manager has loaded, or else  *)
(* cli:direct (the handler in cmd/ottoclaw/internal/gateway/helpers.go).   *)
BeatFindsTasks(w) ==
    /\ ntBeat[w].pc = "waiting" /\ ntService
    /\ ntTasks = "tasks"
    /\ Spend("beats", NtBeats)
    /\ ntBeat' = [ntBeat EXCEPT ![w] =
           [pc |-> "begins", to |-> IF ntMem["heartbeat"] = "none" THEN "cli" ELSE ntMem["heartbeat"],
            active |-> IF ntSince = {} THEN ntActive ELSE "unsure"]]
    /\ UNCHANGED <<ntFile, ntMem, ntPhase, ntService, ntTasks, ntNotice, ntActive, ntSince, ntAtStart>>

(* ProcessHeartbeat: its round records its channel like any other.         *)
BeatRound(w, saved) ==
    LET to == ntBeat[w].to IN
    /\ ntBeat[w].pc = "begins"
    /\ FailuresLeft(saved)
    /\ IF IsInternal(to)
       THEN saved /\ UNCHANGED <<ntMem, ntFile, ntSince, ntAtStart>>
       ELSE RecordLastChannel(to, saved) /\ Unasked
    /\ ntCount' = [ntCount EXCEPT !.failures = IF saved THEN @ ELSE @ + 1]
    /\ ntBeat' = [ntBeat EXCEPT ![w].pc = "round"]
    /\ UNCHANGED <<ntPhase, ntService, ntTasks, ntNotice, ntActive>>

(* Its message tool writes to the channel of the round; what the round     *)
(* itself returns is silent.                                               *)
BeatTells(w) ==
    /\ ntBeat[w].pc = "round"
    /\ ntNotice' \in {ntNotice, [by |-> "heartbeat", to |-> ntBeat[w].to, active |-> ntBeat[w].active]}
    /\ ntBeat' = [ntBeat EXCEPT ![w] = BeatEnds(w)]
    /\ UNCHANGED <<ntFile, ntMem, ntPhase, ntService, ntTasks, ntActive, ntSince, ntAtStart, ntCount>>

---------------------------------------------------------------------------
(* The device service's manager loads when cron and heartbeat run already. *)
DevicesLoad ==
    /\ ntPhase = "starting"
    /\ ntPhase' = "running"
    /\ ntMem' = [ntMem EXCEPT !["devices"] = ntFile]
    /\ UNCHANGED <<ntFile, ntBeat, ntService, ntTasks, ntNotice, ntActive, ntSince, ntAtStart, ntCount>>

(* sendNotification; after the bus is closed nothing gets through. *)
DeviceEvent ==
    /\ ntPhase = "running"
    /\ ~IsInternal(ntMem["devices"])
    /\ ntNotice' = [by |-> "devices", to |-> ntMem["devices"], active |-> "unsure"]
    /\ UNCHANGED <<ntFile, ntMem, ntPhase, ntBeat, ntService, ntTasks, ntActive, ntSince, ntAtStart,
                   ntCount>>

(* Somebody edits the list of tasks. *)
EditTasks ==
    /\ ntTasks' \in {"missing", "template", "tasks"} \ {ntTasks}
    /\ UNCHANGED <<ntFile, ntMem, ntPhase, ntBeat, ntService, ntNotice, ntActive, ntSince, ntAtStart,
                   ntCount>>

(* The gateway closes the bus and stops the heartbeat; rounds under way,   *)
(* which have a context of their own, go on.                               *)
Shutdown ==
    /\ ntPhase = "running" /\ ntPhase' = "stopping"
    /\ UNCHANGED <<ntFile, ntMem, ntBeat, ntService, ntTasks, ntNotice, ntActive, ntSince, ntAtStart,
                   ntCount>>

StopHeartbeat ==
    /\ ntPhase = "stopping" /\ ntService
    /\ ntService' = FALSE
    /\ UNCHANGED <<ntFile, ntMem, ntPhase, ntBeat, ntTasks, ntNotice, ntActive, ntSince, ntAtStart,
                   ntCount>>

(* The process ends, or is killed, and begins anew: NewManager loads.      *)
Restart ==
    /\ Spend("restarts", NtRestarts)
    /\ ntMem' = [m \in Managers |-> IF m = "devices" THEN "none" ELSE ntFile]
    /\ ntPhase' = "starting" /\ ntService' = TRUE
    /\ ntBeat' = [w \in Beats |-> BeatWaits]
    /\ ntNotice' = NtNobody
    /\ ntAtStart' = [active |-> ntActive, since |-> ntSince]
    /\ UNCHANGED <<ntFile, ntTasks, ntActive, ntSince>>

NtNext ==
    \/ \E c \in NtChannels, saved \in BOOLEAN : UserRound(c, saved) \/ BackgroundRound(c, saved)
    \/ \E c \in NtChannels : RefuseUser(c)
    \/ \E w \in Beats :
           \/ BeatStopped(w) \/ BeatIdle(w) \/ BeatFindsTasks(w) \/ BeatTells(w)
           \/ \E saved \in BOOLEAN : BeatRound(w, saved)
    \/ DevicesLoad \/ DeviceEvent \/ EditTasks \/ Shutdown \/ StopHeartbeat \/ Restart

NtSpec == NtInit /\ [][NtNext]_ntVars

---------------------------------------------------------------------------
NtTypeOK ==
    /\ ntFile \in NtChannels \cup {"none"}
    /\ ntMem \in [Managers -> NtChannels \cup {"none"}]
    /\ ntPhase \in {"starting", "running", "stopping"}
    /\ ntBeat \in [Beats -> [pc : {"waiting", "begins", "round", "over"},
                             to : NtChannels \cup {"cli", "none"},
                             active : NtChannels \cup {"none", "unsure"}]]
    /\ ntActive \in NtChannels \cup {"none"}
    /\ ntSince \subseteq {"failure", "budget", "unasked"}

(* The file names the chat of the last user who wrote, unless the save     *)
(* failed, the budget was spent, or a round nobody asked for, a heartbeat  *)
(* among them, has recorded its own channel since (loop.go:946).           *)
FileIsActive == ntSince = {} => ntFile = ntActive

(* A process that began with such a file sends every notice to the user    *)
(* who wrote last before it began, however long it runs, the agent itself  *)
(* if there was none, and a device's event to nobody then (service.go:63,  *)
(* cmd/ottoclaw/internal/gateway/helpers.go:168).                          *)
NoticeAsOfStart ==
    ntNotice.by # "nobody" /\ ntAtStart.since = {} =>
        ntNotice.to = IF ntAtStart.active = "none" THEN "cli" ELSE ntAtStart.active

(* Every notice, wherever it goes, is to a real chat or to the agent.      *)
NoticeIsReal == ntNotice.by = "devices" => ~IsInternal(ntNotice.to)

(* heartbeat/service.go:36: "channel and chatID are derived from the last  *)
(* active user channel": in a process that began with the last active chat *)
(* on file, a heartbeat that writes to a user's chat writes to the one     *)
(* that was the last active one when it chose.                             *)
NoticeToLastActive ==
    /\ ntNotice.by = "heartbeat" /\ ntNotice.to \in NtChannels
    /\ ntAtStart.since = {} /\ ntNotice.active # "unsure"
    => ntNotice.to = ntNotice.active

(* What is kept of the last active chat (pkg/state, pkg/heartbeat).        *)
NoticesSafe == NtTypeOK /\ FileIsActive /\ NoticeAsOfStart /\ NoticeIsReal
=============================================================================
