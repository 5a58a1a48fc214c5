---------------------------- MODULE CronService ----------------------------
(***************************************************************************)
(* pkg/cron/service.go with the cron tool (pkg/tools/cron.go) that calls   *)
(* it inside the gateway, and the command line, a process of its own that  *)
(* loads, changes and saves the same file.  The gateway reads the file     *)
(* once, at Start, and writes all of it after every change and every tick. *)
(*                                                                         *)
(* Time is relative: next[j] and left[j] count down to the instant they    *)
(* name.  A job runs when its handler is called; cron expressions behave   *)
(* as "every" does.  Nobody validates a schedule: an interval that is not  *)
(* positive and an expression that is empty or wrong are accepted.  Start and Stop happen once per process, as in the     *)
(* gateway.                                                                *)
(***************************************************************************)
EXTENDS Integers

CONSTANTS Jobs,        \* job identifiers; none is used twice
          AtJobs,      \* the one-time ones
          IllJobs,     \* recurring ones whose interval or expression is ill-formed
          Period,      \* time between two runs of the other recurring ones
          Additions,   \* bound: the sets of jobs that a behaviour may add
          MaxCrashes,  \* bound: times the gateway process ends
          MaxFaults,   \* bound: saves that fail
          MaxCli       \* bound: command line calls

ASSUME CronAssumption ==
    /\ AtJobs \subseteq Jobs
    /\ IllJobs \subseteq Jobs \ AtJobs
    /\ Additions \subseteq SUBSET Jobs
    /\ Period \in Nat \ {0}
    /\ MaxCrashes \in Nat /\ MaxFaults \in Nat /\ MaxCli \in Nat

None == -1          \* NextRunAtMS = nil
Absent == [present |-> FALSE, enabled |-> FALSE, next |-> None]
JobWith(enabled, next) == [present |-> TRUE, enabled |-> enabled, next |-> next]

VARIABLES
    up,       \* "down", "running", "stopped"
    store,    \* job -> what the gateway's memory holds
    file,     \* job -> "absent", "enabled", "disabled"
    left,     \* one-time job -> time to its instant, 0 when past
    due,      \* dueJobIDs not yet taken up by executeJobByID
    running,  \* the job whose handler is running, if any: a set
    draft,    \* job -> the copy AddJob returned, until UpdateJob: a set
    cli,      \* what a command line process has loaded: a set
    fresh,    \* jobs not added yet
    starts,   \* history: one-time job -> number of runs, at most 2
    late,     \* history: job -> runs since it was disabled, at most 2
    removed,  \* history: jobs a removal has taken from memory and file
    clean,    \* history: the last save was the gateway's and succeeded
    crashes, faults, calls

vars == <<up, store, file, left, due, running, draft, cli, fresh,
          starts, late, removed, clean, crashes, faults, calls>>

Init ==
    /\ up = "down"
    /\ store = [j \in Jobs |-> Absent]
    /\ file = [j \in Jobs |-> "absent"]
    /\ left = [j \in AtJobs |-> 0]
    /\ due = {}
    /\ running = {}
    /\ draft = [j \in Jobs |-> {}]
    /\ cli = {}
    /\ fresh \in Additions
    /\ starts = [j \in AtJobs |-> 0]
    /\ late = [j \in Jobs |-> 0]
    /\ removed = {}
    /\ clean = TRUE
    /\ crashes = 0
    /\ faults = 0
    /\ calls = 0

---------------------------------------------------------------------------
(* Fault: an instant that has passed is still returned. *)
ComputeNextPast(j, remaining) ==
    IF j \in IllJobs THEN None ELSE IF j \in AtJobs THEN remaining[j] ELSE Period

(* computeNextRun: a one-time job has a next run only in the future, one   *)
(* whose schedule is ill-formed none at all.                               *)
ComputeNext(j, remaining) ==
    IF j \in IllJobs THEN None
    ELSE IF j \notin AtJobs THEN Period
    ELSE IF remaining[j] > 0 THEN remaining[j] ELSE None

Saved(s) == [j \in Jobs |-> IF ~s[j].present THEN "absent"
                            ELSE IF s[j].enabled THEN "enabled" ELSE "disabled"]

(* saveStoreUnsafe: the whole store, or an error and the old file. *)
SaveOK ==
    /\ file' = Saved(store')
    /\ clean' = TRUE
    /\ UNCHANGED faults
SaveError ==
    /\ faults < MaxFaults
    /\ faults' = faults + 1
    /\ clean' = FALSE
    /\ UNCHANGED file
Save == SaveOK \/ SaveError

Alive == up # "down"

---------------------------------------------------------------------------
Down(t) == IF t > 0 THEN t - 1 ELSE t
Tick ==
    /\ store' = [j \in Jobs |-> [store[j] EXCEPT !.next = Down(@)]]
    /\ draft' = [j \in Jobs |-> {[c EXCEPT !.next = Down(@)] : c \in draft[j]}]
    /\ left' = [j \in AtJobs |-> Down(left[j])]
    /\ UNCHANGED <<up, file, due, running, cli, fresh, starts, late, removed, clean,
                   crashes, faults, calls>>

(* Start: loadStore, recomputeNextRuns, save; without the save there is no *)
(* loop in this process.                                                   *)
Start ==
    /\ up = "down"
    /\ store' = [j \in Jobs |-> CASE file[j] = "absent" -> Absent
                                  [] file[j] = "enabled" -> JobWith(TRUE, ComputeNext(j, left))
                                  [] OTHER -> JobWith(FALSE, None)]
    /\ \/ SaveOK /\ up' = "running"
       \/ SaveError /\ up' = "stopped"
    /\ UNCHANGED <<left, due, running, draft, cli, fresh, starts, late, removed, crashes, calls>>

Stop ==
    /\ up = "running"
    /\ up' = "stopped"
    /\ UNCHANGED <<store, file, left, due, running, draft, cli, fresh, starts, late, removed,
                   clean, crashes, faults, calls>>

---------------------------------------------------------------------------
(* checkJobs.  The loop is between two ticks when nothing is left to do.   *)
Enabled(j) == store[j].present /\ store[j].enabled
IsDue(j) == Enabled(j) /\ store[j].next = 0

CheckJobs ==
    /\ up = "running" /\ due = {} /\ running = {}
    /\ due' = {j \in Jobs : IsDue(j)}
    /\ store' = [j \in Jobs |-> IF j \in due' THEN [store[j] EXCEPT !.next = None] ELSE store[j]]
    /\ Save
    /\ UNCHANGED <<up, left, running, draft, cli, fresh, starts, late, removed, crashes, calls>>

(* executeJobByID up to the call of onJob.  The list is worked off to its  *)
(* end, also after Stop.  Its order, that of the store, is left open.      *)
Begin(j) ==
    /\ Alive /\ j \in due /\ running = {}
    /\ due' = due \ {j}
    /\ running' = IF store[j].present THEN {j} ELSE {}
    /\ starts' = IF store[j].present /\ j \in AtJobs /\ starts[j] < 2
                 THEN [starts EXCEPT ![j] = @ + 1] ELSE starts
    /\ late' = IF store[j].present /\ ~store[j].enabled /\ late[j] < 2
               THEN [late EXCEPT ![j] = @ + 1] ELSE late
    /\ UNCHANGED <<up, store, file, left, draft, cli, fresh, removed, clean, crashes, faults, calls>>

(* Fault: no next run is computed. *)
AfterRunIdle(j) == IF j \in AtJobs THEN Absent ELSE store[j]

(* executeJobByID from the return of onJob: a one-time job is removed      *)
(* (DeleteAfterRun), another gets its next run, whatever the handler said. *)
AfterRun(j) == IF j \in AtJobs THEN Absent ELSE [store[j] EXCEPT !.next = ComputeNext(j, left)]

End(j) ==
    /\ Alive /\ j \in running
    /\ running' = {}
    /\ IF store[j].present
       THEN store' = [store EXCEPT ![j] = AfterRun(j)] /\ Save
       ELSE UNCHANGED <<store, file, clean, faults>>
    /\ UNCHANGED <<up, left, due, draft, cli, fresh, starts, late, removed, crashes, calls>>

---------------------------------------------------------------------------
(* The cron tool.  AddJob appends to the store before it saves, and keeps  *)
(* the job when the save fails; it returns a copy, which addJob changes    *)
(* and hands to UpdateJob when a command was given.  The delay may be none *)
(* (at_seconds 0 or less).                                                 *)
AddJob(j, delay, command) ==
    /\ Alive /\ j \in fresh
    /\ fresh' = fresh \ {j}
    /\ left' = IF j \in AtJobs THEN [left EXCEPT ![j] = delay] ELSE left
    /\ store' = [store EXCEPT ![j] = JobWith(TRUE, ComputeNext(j, left'))]
    /\ \/ SaveOK /\ draft' = [draft EXCEPT ![j] = IF command THEN {store'[j]} ELSE {}]
       \/ SaveError /\ UNCHANGED draft
    /\ UNCHANGED <<up, due, running, cli, starts, late, removed, crashes, calls>>

(* Fault: a job that is gone is appended. *)
UpdateJobUpserts(j) ==
    /\ Alive /\ draft[j] # {}
    /\ draft' = [draft EXCEPT ![j] = {}]
    /\ store' = [store EXCEPT ![j] = CHOOSE c \in draft[j] : TRUE]
    /\ Save
    /\ UNCHANGED <<up, left, due, running, cli, fresh, starts, late, removed, crashes, calls>>

UpdateJob(j) ==
    /\ Alive /\ draft[j] # {}
    /\ draft' = [draft EXCEPT ![j] = {}]
    /\ IF store[j].present
       THEN store' = [store EXCEPT ![j] = CHOOSE c \in draft[j] : TRUE] /\ Save
       ELSE UNCHANGED <<store, file, clean, faults>>
    /\ UNCHANGED <<up, left, due, running, cli, fresh, starts, late, removed, crashes, calls>>

RemoveJob(j) ==
    /\ Alive /\ store[j].present
    /\ store' = [store EXCEPT ![j] = Absent]
    /\ \/ SaveOK /\ removed' = removed \cup {j}
       \/ SaveError /\ UNCHANGED removed
    /\ UNCHANGED <<up, left, due, running, draft, cli, fresh, starts, late, crashes, calls>>

EnableJob(j, on) ==
    /\ Alive /\ store[j].present
    /\ store' = [store EXCEPT ![j] = JobWith(on, IF on THEN ComputeNext(j, left) ELSE None)]
    /\ late' = IF on \/ store[j].enabled THEN [late EXCEPT ![j] = 0] ELSE late
    /\ Save
    /\ UNCHANGED <<up, left, due, running, draft, cli, fresh, starts, removed, crashes, calls>>

---------------------------------------------------------------------------
(* The command line: NewCronService loads; add, remove, enable or disable  *)
(* changes that copy and saves it.                                         *)
CliLoad ==
    /\ cli = {} /\ calls < MaxCli
    /\ calls' = calls + 1
    /\ cli' = {file}
    /\ UNCHANGED <<up, store, file, left, due, running, draft, fresh, starts, late, removed,
                   clean, crashes, faults>>

CliSave ==
    /\ \E loaded \in cli :
          \/ \E j \in fresh \ AtJobs :
                /\ file' = [loaded EXCEPT ![j] = "enabled"]
                /\ fresh' = fresh \ {j}
          \/ \E j \in {i \in Jobs : loaded[i] # "absent"}, s \in {"absent", "enabled", "disabled"} :
                /\ file' = [loaded EXCEPT ![j] = s]
                /\ UNCHANGED fresh
    /\ cli' = {}
    /\ removed' = {j \in removed : file'[j] = "absent"}
    /\ clean' = FALSE
    /\ UNCHANGED <<up, store, left, due, running, draft, starts, late, crashes, faults, calls>>

(* The gateway process ends, on its own or not. *)
Crash ==
    /\ Alive /\ crashes < MaxCrashes
    /\ crashes' = crashes + 1
    /\ up' = "down"
    /\ store' = [j \in Jobs |-> Absent]
    /\ due' = {}
    /\ running' = {}
    /\ draft' = [j \in Jobs |-> {}]
    /\ clean' = TRUE
    /\ UNCHANGED <<file, left, cli, fresh, starts, late, removed, faults, calls>>

Tool(j) ==
    \/ \E delay \in 0..Period, command \in BOOLEAN : AddJob(j, delay, command)
    \/ UpdateJob(j)
    \/ RemoveJob(j)
    \/ \E on \in BOOLEAN : EnableJob(j, on)
Work(j) == Begin(j) \/ End(j)
Cli == CliLoad \/ CliSave

Next ==
    \/ Tick \/ Start \/ Stop \/ CheckJobs \/ Cli \/ Crash
    \/ \E j \in Jobs : Work(j) \/ Tool(j)

Spec == Init /\ [][Next]_vars

(* Time passes and the loop's goroutine is scheduled.  Nothing makes a      *)
(* handler return: a command may run without limit, a round of the agent    *)
(* may wait for an approval that never comes.                               *)
FairSpec ==
    /\ Spec
    /\ WF_vars(Tick) /\ WF_vars(CheckJobs)
    /\ WF_vars(\E j \in Jobs : Begin(j))

---------------------------------------------------------------------------
Job == [present : BOOLEAN, enabled : BOOLEAN, next : None..Period]
AtMostOne(S) == \A x, y \in S : x = y
Image == [Jobs -> {"absent", "enabled", "disabled"}]

(* Type correctness; the loop does one thing at a time, and none in a      *)
(* process that has ended.                                                 *)
TypeOK ==
    /\ up \in {"down", "running", "stopped"}
    /\ store \in [Jobs -> Job]
    /\ file \in Image
    /\ left \in [AtJobs -> 0..Period]
    /\ due \in SUBSET Jobs
    /\ running \in SUBSET Jobs /\ AtMostOne(running) /\ due \cap running = {}
    /\ draft \in [Jobs -> SUBSET Job] /\ \A j \in Jobs : AtMostOne(draft[j])
    /\ cli \in SUBSET Image /\ AtMostOne(cli)
    /\ fresh \in SUBSET Jobs
    /\ starts \in [AtJobs -> 0..2]
    /\ late \in [Jobs -> 0..2]
    /\ removed \in SUBSET Jobs
    /\ clean \in BOOLEAN
    /\ crashes \in 0..MaxCrashes /\ faults \in 0..MaxFaults /\ calls \in 0..MaxCli
    /\ up = "down" => due = {} /\ running = {}

(* A one-time job runs at most once, through restarts, failed saves, a     *)
(* stale UpdateJob and re-enabling: README.md:1275 "triggers once".        *)
AtMostOnce == \A j \in AtJobs : starts[j] <= 1

(* No recurring job is forgotten: while it is enabled it has a next run,   *)
(* or is about to get one when its turn in the loop ends.  One whose       *)
(* schedule is ill-formed stays in the store like any other, enabled too,  *)
(* and never runs (service.go:255, 263).                                   *)
Recurring == Jobs \ (AtJobs \cup IllJobs)
NoneForgotten ==
    /\ \A j \in Recurring : Enabled(j) => store[j].next # None \/ j \in due \cup running
    /\ \A j \in IllJobs : store[j].next = None /\ j \notin due \cup running

(* What a removal has taken from memory and file stays away, whatever      *)
(* stale copies of the job the gateway has about; only a command line      *)
(* process that has loaded it before brings it back.                       *)
RemovedStaysGone == \A j \in removed : ~store[j].present /\ file[j] = "absent"

(* A job that is disabled while it waits in the list of due jobs still     *)
(* runs, but no more than once.                                            *)
DisabledRunsOnce == \A j \in Jobs : late[j] <= 1

(* What the gateway's memory holds is what a restart would load.           *)
FileMatches == Alive /\ clean => file = Saved(store)

(* A recurring job that stays enabled in a gateway that stays up, and that *)
(* nobody re-enables over and over (each time its period starts anew),     *)
(* runs again and again, as long as the handlers of all jobs return: they  *)
(* run one after another in the loop's goroutine (service.go:167), so only *)
(* a handler that never returns holds it up.                               *)
HandlersReturn == []<>(running = {})
LeftAlone(j) == [][\A on \in BOOLEAN : ~EnableJob(j, on)]_vars
RunsForever ==
    HandlersReturn =>
        \A j \in Recurring :
            <>[](up = "running" /\ Enabled(j)) /\ <>LeftAlone(j) => []<>(j \in running)
=============================================================================
