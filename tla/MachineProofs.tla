-------------------------- MODULE MachineProofs --------------------------
(***************************************************************************)
(* Theorems about what the processes of one machine write over one         *)
(* another.  About CronService, for any set of jobs, any period and any    *)
(* number of crashes, failed saves and command line calls: its safety      *)
(* properties, from one inductive invariant.  About Credentials, for any   *)
(* number of logins, logouts and requests that meet, failures and old      *)
(* tokens: what is stored stays, and the two files agree.                  *)
(***************************************************************************)
EXTENDS CronService, Credentials, TLAPS

USE CronAssumption DEF None

(* What computeNextRun returns is a next run or none.                      *)
LEMMA ComputeNextTyped ==
  ASSUME TypeOK, NEW j \in Jobs
  PROVE  /\ ComputeNext(j, left) \in None..Period
         /\ j \in Recurring => ComputeNext(j, left) # None
         /\ j \in IllJobs => ComputeNext(j, left) = None
         /\ j \in AtJobs => /\ ComputeNext(j, left) \in {None, left[j]}
                            /\ left[j] = 0 => ComputeNext(j, left) = None
  BY DEF TypeOK, ComputeNext, Recurring

(* AddJob computes it of the instants with the new one among them.         *)
LEMMA FirstRun ==
  ASSUME NEW j \in Jobs, NEW remaining \in [AtJobs -> 0..Period]
  PROVE  /\ ComputeNext(j, remaining) \in None..Period
         /\ j \in Recurring => ComputeNext(j, remaining) = Period
         /\ j \in IllJobs => ComputeNext(j, remaining) = None
         /\ j \in AtJobs => ComputeNext(j, remaining) \in {None, remaining[j]}
  BY DEF ComputeNext, Recurring

(* A save writes an image of the store, or the file stays.                 *)
LEMMA SaveTyped ==
  ASSUME TypeOK, Save, store' \in [Jobs -> Job]
  PROVE  file' \in Image /\ clean' \in BOOLEAN /\ faults' \in 0..MaxFaults
<1>1. Saved(store') \in Image
  BY DEF Saved, Image
<1>2. file' \in Image
  BY <1>1 DEF TypeOK, Save, SaveOK, SaveError
<1>3. clean' \in BOOLEAN
  BY Zenon DEF TypeOK, Save, SaveOK, SaveError
<1>4. faults' \in 0..MaxFaults
  BY DEF TypeOK, Save, SaveOK, SaveError
<1> QED
  BY <1>2, <1>3, <1>4

LEMMA JobWithTyped ==
  ASSUME NEW b \in BOOLEAN, NEW n \in None..Period
  PROVE  JobWith(b, n) \in Job
  BY DEF JobWith, Job

LEMMA AbsentTyped == Absent \in Job /\ ~Absent.present
  BY DEF Absent, Job

(* Type correctness (service.go:17-66): the loop executes one job at a     *)
(* time, and nothing runs in a process that has ended.                     *)
THEOREM TypeCorrect == Spec => []TypeOK
<1>1. Init => TypeOK
  BY AbsentTyped DEF Init, TypeOK, Image, AtMostOne
<1>2. TypeOK /\ [Next]_vars => TypeOK'
  <2> SUFFICES ASSUME TypeOK, [Next]_vars PROVE TypeOK'
    OBVIOUS
  <2>1. ASSUME Tick PROVE TypeOK'
    <3>1. \A n \in None..Period : Down(n) \in None..Period
      BY DEF Down
    <3>2. store' \in [Jobs -> Job]
      BY <2>1, <3>1, SMTT(30) DEF Tick, TypeOK, Job
    <3>3. left' \in [AtJobs -> 0..Period]
      BY <2>1 DEF Tick, TypeOK, Down
    <3>4. draft' \in [Jobs -> SUBSET Job] /\ \A j \in Jobs : AtMostOne(draft'[j])
      <4> SUFFICES ASSUME NEW j \in Jobs PROVE draft'[j] \in SUBSET Job /\ AtMostOne(draft'[j])
        BY <2>1 DEF Tick
      <4>1. draft'[j] = {[c EXCEPT !.next = Down(@)] : c \in draft[j]}
        BY <2>1 DEF Tick
      <4>2. \A c \in draft[j] : [c EXCEPT !.next = Down(@)] \in Job
        BY <3>1 DEF TypeOK, Job
      <4>3. AtMostOne(draft[j])
        BY DEF TypeOK
      <4> QED
        BY <4>1, <4>2, <4>3 DEF AtMostOne
    <3> QED
      BY <2>1, <3>2, <3>3, <3>4 DEF Tick, TypeOK
  <2>2. ASSUME Start PROVE TypeOK'
    <3>1. store' \in [Jobs -> Job]
      <4>1. \A j \in Jobs : JobWith(TRUE, ComputeNext(j, left)) \in Job /\ JobWith(FALSE, None) \in Job
        BY ComputeNextTyped DEF JobWith, Job
      <4> QED
        BY <2>2, <4>1, AbsentTyped DEF Start
    <3>2. file' \in Image /\ clean' \in BOOLEAN /\ faults' \in 0..MaxFaults
      BY <2>2, <3>1, SaveTyped DEF Start, Save
    <3> QED
      BY <2>2, <3>1, <3>2 DEF Start, TypeOK
  <2>3. ASSUME Stop PROVE TypeOK'
    BY <2>3 DEF Stop, TypeOK
  <2>4. ASSUME CheckJobs PROVE TypeOK'
    <3>1. store' \in [Jobs -> Job]
      BY <2>4 DEF CheckJobs, TypeOK, Job
    <3>2. file' \in Image /\ clean' \in BOOLEAN /\ faults' \in 0..MaxFaults
      BY <2>4, <3>1, SaveTyped DEF CheckJobs
    <3> QED
      BY <2>4, <3>1, <3>2 DEF CheckJobs, TypeOK
  <2>5. ASSUME CliLoad PROVE TypeOK'
    BY <2>5 DEF CliLoad, TypeOK, AtMostOne
  <2>6. ASSUME CliSave PROVE TypeOK'
    <3>1. file' \in Image /\ fresh' \in SUBSET Jobs
      BY <2>6 DEF CliSave, TypeOK, Image
    <3> QED
      BY <2>6, <3>1 DEF CliSave, TypeOK, AtMostOne
  <2>7. ASSUME Crash PROVE TypeOK'
    BY <2>7, AbsentTyped DEF Crash, TypeOK, AtMostOne
  <2>8. ASSUME NEW j \in Jobs, Begin(j) PROVE TypeOK'
    <3>1. starts' \in [AtJobs -> 0..2]
      BY <2>8 DEF Begin, TypeOK
    <3>2. late' \in [Jobs -> 0..2]
      BY <2>8 DEF Begin, TypeOK
    <3>3. running' \in SUBSET Jobs /\ AtMostOne(running') /\ due' \cap running' = {}
      BY <2>8 DEF Begin, TypeOK, AtMostOne
    <3> QED
      BY <2>8, <3>1, <3>2, <3>3 DEF Begin, TypeOK, Alive
  <2>9. ASSUME NEW j \in Jobs, End(j) PROVE TypeOK'
    <3>1. AfterRun(j) \in Job
      BY AbsentTyped, ComputeNextTyped DEF AfterRun, TypeOK, Job
    <3>2. store' \in [Jobs -> Job]
      BY <2>9, <3>1 DEF End, TypeOK
    <3>3. file' \in Image /\ clean' \in BOOLEAN /\ faults' \in 0..MaxFaults
      BY <2>9, <3>2, SaveTyped DEF End, TypeOK
    <3> QED
      BY <2>9, <3>2, <3>3 DEF End, TypeOK, AtMostOne
  <2>10. ASSUME NEW j \in Jobs, NEW delay \in 0..Period, NEW command \in BOOLEAN,
                AddJob(j, delay, command)
         PROVE  TypeOK'
    <3>4. left' \in [AtJobs -> 0..Period]
      BY <2>10 DEF AddJob, TypeOK
    <3>1. JobWith(TRUE, ComputeNext(j, left')) \in Job
      BY <3>4, FirstRun, JobWithTyped
    <3>2. store' \in [Jobs -> Job]
      BY <2>10, <3>1 DEF AddJob, TypeOK
    <3>3. file' \in Image /\ clean' \in BOOLEAN /\ faults' \in 0..MaxFaults
      BY <2>10, <3>2, SaveTyped DEF AddJob, Save
    <3>5. draft' \in [Jobs -> SUBSET Job] /\ \A i \in Jobs : AtMostOne(draft'[i])
      <4>1. store'[j] \in Job
        BY <3>2
      <4>2. draft' = draft \/ \E d \in {{}, {store'[j]}} : draft' = [draft EXCEPT ![j] = d]
        BY <2>10, Zenon DEF AddJob
      <4>3. ASSUME NEW d \in {{}, {store'[j]}}, draft' = [draft EXCEPT ![j] = d]
            PROVE  draft' \in [Jobs -> SUBSET Job] /\ \A i \in Jobs : AtMostOne(draft'[i])
        <5>1. d \in SUBSET Job /\ AtMostOne(d)
          BY <4>1 DEF AtMostOne
        <5> QED
          BY <4>3, <5>1 DEF TypeOK
      <4> QED
        BY <4>2, <4>3 DEF TypeOK
    <3> QED
      BY <2>10, <3>2, <3>3, <3>4, <3>5 DEF AddJob, TypeOK
  <2>11. ASSUME NEW j \in Jobs, UpdateJob(j) PROVE TypeOK'
    <3>1. (CHOOSE c \in draft[j] : TRUE) \in draft[j]
      BY <2>11 DEF UpdateJob
    <3>2. (CHOOSE c \in draft[j] : TRUE) \in Job
      BY <3>1 DEF TypeOK
    <3>3. store' \in [Jobs -> Job]
      BY <2>11, <3>2 DEF UpdateJob, TypeOK
    <3>4. file' \in Image /\ clean' \in BOOLEAN /\ faults' \in 0..MaxFaults
      BY <2>11, <3>3, SaveTyped DEF UpdateJob, TypeOK
    <3>5. draft' \in [Jobs -> SUBSET Job] /\ \A i \in Jobs : AtMostOne(draft'[i])
      BY <2>11 DEF UpdateJob, TypeOK, AtMostOne
    <3> QED
      BY <2>11, <3>3, <3>4, <3>5 DEF UpdateJob, TypeOK
  <2>12. ASSUME NEW j \in Jobs, RemoveJob(j) PROVE TypeOK'
    <3>1. store' \in [Jobs -> Job]
      BY <2>12, AbsentTyped DEF RemoveJob, TypeOK
    <3>2. file' \in Image /\ clean' \in BOOLEAN /\ faults' \in 0..MaxFaults
      BY <2>12, <3>1, SaveTyped DEF RemoveJob, Save
    <3> QED
      BY <2>12, <3>1, <3>2 DEF RemoveJob, TypeOK
  <2>13. ASSUME NEW j \in Jobs, NEW on \in BOOLEAN, EnableJob(j, on) PROVE TypeOK'
    <3>1. store' \in [Jobs -> Job]
      BY <2>13, ComputeNextTyped, JobWithTyped DEF EnableJob, TypeOK
    <3>2. file' \in Image /\ clean' \in BOOLEAN /\ faults' \in 0..MaxFaults
      BY <2>13, <3>1, SaveTyped DEF EnableJob
    <3>3. late' \in [Jobs -> 0..2]
      BY <2>13 DEF EnableJob, TypeOK
    <3> QED
      BY <2>13, <3>1, <3>2, <3>3 DEF EnableJob, TypeOK
  <2>14. CASE UNCHANGED vars
    BY <2>14 DEF vars, TypeOK
  <2> QED
    BY <2>1, <2>2, <2>3, <2>4, <2>5, <2>6, <2>7, <2>8, <2>9, <2>10, <2>11, <2>12, <2>13,
       <2>14 DEF Next, Cli, Work, Tool
<1> QED
  BY <1>1, <1>2, PTL DEF Spec
---------------------------------------------------------------------------
(* A next run, in the store or in the tool's copy of a job, is the job's   *)
(* instant; the copy is of an enabled job; a process that has ended leaves *)
(* no copies; what is due has been added and, if one-time, is past.        *)
NextIsInstant ==
    \A j \in AtJobs : /\ store[j].next \in {None, left[j]}
                      /\ \A c \in draft[j] : c.next \in {None, left[j]}
DraftsEnabled ==
    \A j \in Jobs : \A c \in draft[j] :
        /\ up # "down" /\ c.present /\ c.enabled
        /\ j \in Recurring => c.next # None
        /\ j \in IllJobs => c.next = None
DueIsPast == \A j \in due : j \notin fresh /\ (j \in AtJobs => left[j] = 0)

(* A job not added yet is nowhere.                                         *)
FreshIsNowhere ==
    \A j \in fresh : /\ ~store[j].present /\ file[j] = "absent" /\ j \notin removed
                     /\ draft[j] = {}
                     /\ \A loaded \in cli : loaded[j] = "absent"

(* A one-time job that has run is past, is not due again, and either still *)
(* runs, or is gone, or has neither a next run nor a copy that has one.    *)
RanOnce(j) ==
    /\ left[j] = 0 /\ j \notin due \cup fresh
    /\ \/ j \in running
       \/ ~store[j].present
       \/ store[j].next = None /\ draft[j] = {}
AfterFirstRun == \A j \in AtJobs : starts[j] > 0 => RanOnce(j)

(* A disabled job that has run since is not due.                           *)
LateNotDue ==
    \A j \in Jobs : late[j] > 0 /\ store[j].present /\ ~store[j].enabled => j \notin due

(* The inductive invariant beside TypeOK, with the properties themselves.  *)
IInv ==
    /\ NextIsInstant /\ DraftsEnabled /\ DueIsPast /\ FreshIsNowhere
    /\ AfterFirstRun /\ AtMostOnce /\ LateNotDue /\ DisabledRunsOnce
    /\ RemovedStaysGone /\ NoneForgotten /\ FileMatches

(* A job is in a saved image exactly if it is in the store.                *)
LEMMA SavedSame ==
  ASSUME NEW s, NEW j \in Jobs
  PROVE  Saved(s)[j] = "absent" <=> ~s[j].present
  BY DEF Saved

LEMMA SaveFile ==
  ASSUME Save
  PROVE  file' = file \/ file' = Saved(store')
  BY DEF Save, SaveOK, SaveError

(* The copy that UpdateJob writes back is the one AddJob made.             *)
LEMMA DraftChosen ==
  ASSUME TypeOK, NEW j \in Jobs, draft[j] # {}
  PROVE  (CHOOSE c \in draft[j] : TRUE) \in draft[j] /\ (CHOOSE c \in draft[j] : TRUE) \in Job
  BY DEF TypeOK

---------------------------------------------------------------------------
(* Time, AddJob and computeNextRun keep next runs at the instants.         *)
LEMMA InstantInductive ==
  ASSUME TypeOK, IInv, [Next]_vars
  PROVE  NextIsInstant' /\ DraftsEnabled'
<1> USE DEF IInv
<1>1. ASSUME Tick PROVE NextIsInstant' /\ DraftsEnabled'
  <2>1. \A n \in None..Period : Down(n) \in None..Period /\ (Down(n) = None <=> n = None)
    BY DEF Down
  <2>2. \A j \in Jobs : store'[j].next = Down(store[j].next)
    BY <1>1 DEF Tick, TypeOK, Job
  <2>3. \A j \in AtJobs : left'[j] = Down(left[j])
    BY <1>1 DEF Tick
  <2>4. \A j \in Jobs : \A c \in draft'[j] : \E d \in draft[j] :
            c.next = Down(d.next) /\ c.present = d.present /\ c.enabled = d.enabled /\ d \in Job
    <3> SUFFICES ASSUME NEW j \in Jobs, NEW d \in draft[j]
                 PROVE  LET c == [d EXCEPT !.next = Down(@)]
                        IN  /\ c.next = Down(d.next) /\ c.present = d.present
                            /\ c.enabled = d.enabled /\ d \in Job
      BY <1>1 DEF Tick
    <3> QED
      BY DEF TypeOK, Job
  <2>5. Down(None) = None
    BY <2>1
  <2>6. NextIsInstant'
    BY <2>2, <2>3, <2>4, <2>5 DEF NextIsInstant
  <2>7. \A d \in Job : d.next \in None..Period
    BY DEF Job
  <2>8. DraftsEnabled'
    BY <1>1, <2>1, <2>4, <2>7 DEF Tick, DraftsEnabled
  <2> QED
    BY <2>6, <2>8
<1>2. ASSUME Start PROVE NextIsInstant' /\ DraftsEnabled'
  <2>1. draft' = draft /\ left' = left /\ \A j \in Jobs : draft[j] = {}
    BY <1>2 DEF Start, DraftsEnabled
  <2>2. \A j \in AtJobs : store'[j].next \in {None, left[j]}
    BY <1>2, ComputeNextTyped DEF Start, JobWith, Absent
  <2> QED
    BY <2>1, <2>2 DEF NextIsInstant, DraftsEnabled
<1>3. ASSUME CheckJobs PROVE NextIsInstant' /\ DraftsEnabled'
  <2>1. \A j \in Jobs : store'[j].next \in {None, store[j].next}
    BY <1>3 DEF CheckJobs, TypeOK, Job
  <2> QED
    BY <1>3, <2>1 DEF CheckJobs, NextIsInstant, DraftsEnabled
<1>4. ASSUME Crash PROVE NextIsInstant' /\ DraftsEnabled'
  BY <1>4 DEF Crash, NextIsInstant, DraftsEnabled, Absent
<1>5. ASSUME NEW j \in Jobs, End(j) PROVE NextIsInstant' /\ DraftsEnabled'
  <2>1. \A i \in AtJobs : store'[i].next \in {None, store[i].next}
    BY <1>5 DEF End, AfterRun, Absent, TypeOK
  <2> QED
    BY <1>5, <2>1 DEF End, NextIsInstant, DraftsEnabled
<1>6. ASSUME NEW j \in Jobs, NEW delay \in 0..Period, NEW command \in BOOLEAN,
             AddJob(j, delay, command)
      PROVE  NextIsInstant' /\ DraftsEnabled'
  <2>1. store'[j].present /\ store'[j].enabled
          /\ store'[j].next = ComputeNext(j, left')
    BY <1>6 DEF AddJob, JobWith, TypeOK
  <2>2. \A i \in Jobs : \A c \in draft'[i] : c \in draft[i] \/ (i = j /\ c = store'[j])
    <3>1. draft' = draft \/ \E d \in {{}, {store'[j]}} : draft' = [draft EXCEPT ![j] = d]
      BY <1>6, Zenon DEF AddJob
    <3>2. ASSUME NEW d, draft' = [draft EXCEPT ![j] = d], NEW i \in Jobs
          PROVE  draft'[i] = IF i = j THEN d ELSE draft[i]
      <4>1. DOMAIN draft = Jobs
        BY DEF TypeOK
      <4> QED
        BY <3>2, <4>1, Zenon
    <3>3. CASE draft' = draft
      BY <3>3
    <3>4. ASSUME NEW d \in {{}, {store'[j]}}, draft' = [draft EXCEPT ![j] = d],
                 NEW i \in Jobs, NEW c \in draft'[i]
          PROVE  c \in draft[i] \/ (i = j /\ c = store'[j])
      <4>1. draft'[i] = IF i = j THEN d ELSE draft[i]
        BY <3>2, <3>4
      <4> QED
        BY <3>4, <4>1
    <3> QED
      BY <3>1, <3>3, <3>4
  <2>3. \A i \in Jobs : i # j => store'[i] = store[i] /\ (i \in AtJobs => left'[i] = left[i])
    BY <1>6 DEF AddJob
  <2>4. left' \in [AtJobs -> 0..Period]
    BY <1>6 DEF AddJob, TypeOK
  <2>5. draft[j] = {} /\ up # "down"
    BY <1>6 DEF AddJob, Alive, FreshIsNowhere
  <2>6. NextIsInstant'
    <3> SUFFICES ASSUME NEW i \in AtJobs
                 PROVE  /\ store'[i].next \in {None, left'[i]}
                        /\ \A c \in draft'[i] : c.next \in {None, left'[i]}
      BY DEF NextIsInstant
    <3>1. CASE i = j
      BY <2>1, <2>2, <2>4, <2>5, <3>1, FirstRun
    <3>2. CASE i # j
      BY <2>2, <2>3, <3>2 DEF NextIsInstant
    <3> QED
      BY <3>1, <3>2
  <2>7. DraftsEnabled'
    <3>1. /\ j \in Recurring => store'[j].next # None
          /\ j \in IllJobs => store'[j].next = None
      BY <2>1, <2>4, FirstRun
    <3>2. up' # "down"
      BY <1>6, <2>5 DEF AddJob
    <3> QED
      BY <2>1, <2>2, <3>1, <3>2 DEF DraftsEnabled
  <2> QED
    BY <2>6, <2>7
<1>7. ASSUME NEW j \in Jobs, UpdateJob(j) PROVE NextIsInstant' /\ DraftsEnabled'
  <2>1. store' = store \/ \E c \in draft[j] : store' = [store EXCEPT ![j] = c]
    BY <1>7, DraftChosen DEF UpdateJob
  <2>2. \A i \in Jobs : draft'[i] \subseteq draft[i]
    BY <1>7 DEF UpdateJob, TypeOK
  <2>3. left' = left /\ up' = up
    BY <1>7 DEF UpdateJob
  <2> QED
    BY <2>1, <2>2, <2>3 DEF NextIsInstant, DraftsEnabled, TypeOK
<1>8. ASSUME NEW j \in Jobs, RemoveJob(j) \/ \E on \in BOOLEAN : EnableJob(j, on)
      PROVE  NextIsInstant' /\ DraftsEnabled'
  <2>1. \A i \in AtJobs : store'[i].next \in {None, left[i]}
    BY <1>8, ComputeNextTyped DEF RemoveJob, EnableJob, JobWith, Absent, NextIsInstant, TypeOK
  <2>2. draft' = draft /\ left' = left /\ up' = up
    BY <1>8 DEF RemoveJob, EnableJob
  <2> QED
    BY <2>1, <2>2 DEF NextIsInstant, DraftsEnabled
<1>9. ASSUME Stop \/ CliLoad \/ CliSave \/ (\E j \in Jobs : Begin(j)) \/ UNCHANGED vars
      PROVE  NextIsInstant' /\ DraftsEnabled'
  <2>1. UNCHANGED <<store, draft, left>> /\ (up' = "down" <=> up = "down")
    BY <1>9 DEF Stop, CliLoad, CliSave, Begin, vars
  <2> QED
    BY <2>1 DEF NextIsInstant, DraftsEnabled
<1> QED
  BY <1>1, <1>2, <1>3, <1>4, <1>5, <1>6, <1>7, <1>8, <1>9 DEF Next, Cli, Work, Tool

---------------------------------------------------------------------------
(* Jobs that are not added yet stay out of store, file and copies, and     *)
(* removed ones out of store and file.                                     *)
LEMMA NowhereInductive ==
  ASSUME TypeOK, IInv, [Next]_vars
  PROVE  FreshIsNowhere' /\ RemovedStaysGone'
<1> USE DEF IInv
<1> DEFINE Out(j) == ~store[j].present /\ file[j] = "absent"
<1>1. ASSUME NEW j \in Jobs, Out(j), ~store'[j].present, Save
      PROVE  Out(j)'
  BY <1>1, SaveFile, SavedSame
<1>2. ASSUME UNCHANGED <<fresh, removed, cli>>, \A j \in Jobs : draft'[j] \subseteq draft[j],
             \A j \in Jobs : Out(j) => Out(j)'
      PROVE  FreshIsNowhere' /\ RemovedStaysGone'
  BY <1>2 DEF FreshIsNowhere, RemovedStaysGone, TypeOK
<1>3. ASSUME Tick PROVE FreshIsNowhere' /\ RemovedStaysGone'
  <2>1. \A j \in Jobs : store'[j].present = store[j].present
    BY <1>3 DEF Tick, TypeOK, Job
  <2>2. \A j \in Jobs : draft[j] = {} => draft'[j] = {}
    BY <1>3 DEF Tick
  <2> QED
    BY <1>3, <2>1, <2>2 DEF Tick, FreshIsNowhere, RemovedStaysGone, TypeOK
<1>4. ASSUME Start PROVE FreshIsNowhere' /\ RemovedStaysGone'
  <2>1. \A j \in Jobs : Out(j) => ~store'[j].present
    BY <1>4, AbsentTyped DEF Start
  <2>2. Save
    BY <1>4 DEF Start, Save
  <2> QED
    BY <1>1, <1>2, <1>4, <2>1, <2>2 DEF Start
<1>5. ASSUME CheckJobs PROVE FreshIsNowhere' /\ RemovedStaysGone'
  <2>1. \A j \in Jobs : store'[j].present = store[j].present
    BY <1>5 DEF CheckJobs, TypeOK, Job
  <2> QED
    BY <1>1, <1>2, <1>5, <2>1 DEF CheckJobs
<1>6. ASSUME CliLoad PROVE FreshIsNowhere' /\ RemovedStaysGone'
  BY <1>6 DEF CliLoad, FreshIsNowhere, RemovedStaysGone
<1>7. ASSUME CliSave PROVE FreshIsNowhere' /\ RemovedStaysGone'
  <2>1. fresh' \subseteq fresh /\ \A j \in fresh' : file'[j] = "absent"
    BY <1>7 DEF CliSave, FreshIsNowhere, TypeOK, Image
  <2>2. cli' = {} /\ store' = store /\ draft' = draft
          /\ removed' = {j \in removed : file'[j] = "absent"}
    BY <1>7 DEF CliSave
  <2> QED
    BY <2>1, <2>2 DEF FreshIsNowhere, RemovedStaysGone
<1>8. ASSUME Crash PROVE FreshIsNowhere' /\ RemovedStaysGone'
  BY <1>8, AbsentTyped DEF Crash, FreshIsNowhere, RemovedStaysGone, TypeOK
<1>9. ASSUME NEW j \in Jobs, End(j) PROVE FreshIsNowhere' /\ RemovedStaysGone'
  <2>1. CASE ~store[j].present
    BY <1>2, <1>9, <2>1 DEF End
  <2>2. CASE store[j].present
    <3>1. \A i \in Jobs : Out(i) => ~store'[i].present
      BY <1>9, <2>2 DEF End, TypeOK
    <3> QED
      BY <1>1, <1>2, <1>9, <2>2, <3>1 DEF End
  <2> QED
    BY <2>1, <2>2
<1>10. ASSUME NEW j \in Jobs, NEW delay \in 0..Period, NEW command \in BOOLEAN,
              AddJob(j, delay, command)
       PROVE  FreshIsNowhere' /\ RemovedStaysGone'
  <2>1. j \in fresh /\ fresh' = fresh \ {j} /\ UNCHANGED <<removed, cli>>
    BY <1>10 DEF AddJob
  <2>2. \A i \in Jobs : i # j => store'[i] = store[i] /\ draft'[i] = draft[i]
    BY <1>10 DEF AddJob, TypeOK
  <2>3. Save
    BY <1>10 DEF AddJob, Save
  <2>4. \A i \in Jobs : i # j /\ Out(i) => Out(i)'
    BY <1>1, <2>2, <2>3
  <2>5. j \notin removed
    BY <2>1 DEF FreshIsNowhere
  <2> QED
    BY <2>1, <2>2, <2>4, <2>5 DEF FreshIsNowhere, RemovedStaysGone, TypeOK
<1>11. ASSUME NEW j \in Jobs, UpdateJob(j) PROVE FreshIsNowhere' /\ RemovedStaysGone'
  <2>1. \A i \in Jobs : draft'[i] \subseteq draft[i]
    BY <1>11 DEF UpdateJob, TypeOK
  <2>2. CASE ~store[j].present
    BY <1>2, <1>11, <2>1, <2>2 DEF UpdateJob
  <2>3. CASE store[j].present
    <3>1. \A i \in Jobs : Out(i) => ~store'[i].present
      BY <1>11, <2>3 DEF UpdateJob, TypeOK
    <3> QED
      BY <1>1, <1>2, <1>11, <2>1, <2>3, <3>1 DEF UpdateJob
  <2> QED
    BY <2>2, <2>3
<1>12. ASSUME NEW j \in Jobs, RemoveJob(j) PROVE FreshIsNowhere' /\ RemovedStaysGone'
  <2>1. store' = [store EXCEPT ![j] = Absent] /\ UNCHANGED <<fresh, cli, draft>>
          /\ store[j].present
    BY <1>12 DEF RemoveJob
  <2>2. j \notin fresh
    BY <2>1 DEF FreshIsNowhere
  <2>3. Save
    BY <1>12 DEF RemoveJob, Save
  <2>4. \A i \in Jobs : Out(i) => Out(i)'
    BY <1>1, <2>1, <2>3, AbsentTyped DEF TypeOK
  <2>5. removed' = removed \/ (removed' = removed \cup {j} /\ file' = Saved(store'))
    BY <1>12 DEF RemoveJob, SaveOK
  <2>6. ~store'[j].present
    BY <2>1, AbsentTyped DEF TypeOK
  <2> QED
    <3>1. \A i \in Jobs : (i \in fresh \/ i \in removed) => Out(i)'
      BY <2>4 DEF FreshIsNowhere, RemovedStaysGone
    <3>2. removed' # removed => Out(j)'
      BY <2>5, <2>6, SavedSame
    <3>3. FreshIsNowhere'
      BY <2>1, <2>2, <2>5, <3>1 DEF FreshIsNowhere, TypeOK
    <3>4. RemovedStaysGone'
      BY <2>5, <3>1, <3>2 DEF RemovedStaysGone, TypeOK
    <3> QED
      BY <3>3, <3>4
<1>13. ASSUME NEW j \in Jobs, NEW on \in BOOLEAN, EnableJob(j, on)
       PROVE  FreshIsNowhere' /\ RemovedStaysGone'
  <2>1. \A i \in Jobs : Out(i) => ~store'[i].present
    BY <1>13 DEF EnableJob, TypeOK
  <2> QED
    BY <1>1, <1>2, <1>13, <2>1 DEF EnableJob
<1>14. ASSUME Stop \/ (\E j \in Jobs : Begin(j)) \/ UNCHANGED vars
       PROVE  FreshIsNowhere' /\ RemovedStaysGone'
  BY <1>14 DEF Stop, Begin, vars, FreshIsNowhere, RemovedStaysGone
<1> QED
  BY <1>3, <1>4, <1>5, <1>6, <1>7, <1>8, <1>9, <1>10, <1>11, <1>12, <1>13, <1>14
     DEF Next, Cli, Work, Tool

---------------------------------------------------------------------------
(* Only jobs whose time has come get into the list of due jobs.            *)
LEMMA DueInductive ==
  ASSUME TypeOK, IInv, [Next]_vars
  PROVE  DueIsPast'
<1> USE DEF IInv
<1>1. ASSUME Tick PROVE DueIsPast'
  BY <1>1 DEF Tick, Down, DueIsPast
<1>2. ASSUME CheckJobs PROVE DueIsPast'
  <2>1. \A j \in due' : store[j].present /\ store[j].next = 0
    BY <1>2 DEF CheckJobs, IsDue, Enabled
  <2>2. \A j \in due' : j \notin fresh
    BY <2>1 DEF FreshIsNowhere
  <2>3. \A j \in due' : j \in AtJobs => left[j] = 0
    BY <2>1 DEF NextIsInstant
  <2> QED
    BY <1>2, <2>2, <2>3 DEF CheckJobs, DueIsPast
<1>3. ASSUME NEW j \in Jobs, NEW delay \in 0..Period, NEW command \in BOOLEAN,
             AddJob(j, delay, command)
      PROVE  DueIsPast'
  <2>1. j \notin due
    BY <1>3 DEF AddJob, DueIsPast
  <2> QED
    BY <1>3, <2>1 DEF AddJob, DueIsPast, TypeOK
<1>4. ASSUME Start \/ Stop \/ Cli \/ Crash \/ (\E j \in Jobs : Work(j)) \/ UNCHANGED vars
             \/ \E j \in Jobs : UpdateJob(j) \/ RemoveJob(j) \/ \E on \in BOOLEAN : EnableJob(j, on)
      PROVE  DueIsPast'
  <2>1. due' \subseteq due /\ fresh' \subseteq fresh /\ left' = left
    BY <1>4 DEF Start, Stop, Cli, CliLoad, CliSave, Crash, Work, Begin, End, vars, UpdateJob,
                RemoveJob, EnableJob
  <2> QED
    BY <2>1 DEF DueIsPast
<1> QED
  BY <1>1, <1>2, <1>3, <1>4 DEF Next, Tool

---------------------------------------------------------------------------
(* A one-time job runs once: its run is counted when it leaves the list of *)
(* due jobs, and nothing puts it there again.                              *)
LEMMA OnceInductive ==
  ASSUME TypeOK, IInv, [Next]_vars
  PROVE  AfterFirstRun' /\ AtMostOnce'
<1> USE DEF IInv
<1>1. ASSUME starts' = starts,
             \A j \in AtJobs : RanOnce(j) => RanOnce(j)'
      PROVE  AfterFirstRun' /\ AtMostOnce'
  BY <1>1 DEF AfterFirstRun, AtMostOnce
<1>2. ASSUME Tick PROVE AfterFirstRun' /\ AtMostOnce'
  <2>1. \A j \in Jobs : /\ store'[j].present = store[j].present
                        /\ store[j].next = None => store'[j].next = None
    BY <1>2 DEF Tick, TypeOK, Job, Down
  <2>2. \A j \in Jobs : draft[j] = {} => draft'[j] = {}
    BY <1>2 DEF Tick
  <2>3. \A j \in AtJobs : left[j] = 0 => left'[j] = 0
    BY <1>2 DEF Tick, Down
  <2> QED
    BY <1>1, <1>2, <2>1, <2>2, <2>3 DEF Tick, RanOnce
<1>3. ASSUME Start PROVE AfterFirstRun' /\ AtMostOnce'
  <2>1. \A j \in AtJobs : left[j] = 0 => store'[j].next = None
    BY <1>3, ComputeNextTyped DEF Start, JobWith, Absent
  <2>2. \A j \in Jobs : draft[j] = {}
    BY <1>3 DEF Start, DraftsEnabled
  <2> QED
    BY <1>1, <1>3, <2>1, <2>2 DEF Start, RanOnce
<1>4. ASSUME CheckJobs PROVE AfterFirstRun' /\ AtMostOnce'
  <2>1. \A j \in Jobs : /\ store'[j].present = store[j].present
                        /\ store'[j].next \in {None, store[j].next}
    BY <1>4 DEF CheckJobs, TypeOK, Job
  <2>2. \A j \in due' : store[j].present /\ store[j].next = 0
    BY <1>4 DEF CheckJobs, IsDue, Enabled
  <2>3. running = {}
    BY <1>4 DEF CheckJobs
  <2>4. \A j \in AtJobs : RanOnce(j) => j \notin due'
    BY <2>2, <2>3 DEF RanOnce
  <2> QED
    BY <1>1, <1>4, <2>1, <2>4 DEF CheckJobs, RanOnce
<1>5. ASSUME Crash PROVE AfterFirstRun' /\ AtMostOnce'
  <2>1. \A j \in Jobs : ~store'[j].present
    BY <1>5, AbsentTyped DEF Crash
  <2> QED
    BY <1>1, <1>5, <2>1 DEF Crash, RanOnce
<1>6. ASSUME NEW j \in Jobs, Begin(j) PROVE AfterFirstRun' /\ AtMostOnce'
  <2>1. j \in due /\ due' = due \ {j} /\ running = {} /\ UNCHANGED <<store, left, draft, fresh>>
    BY <1>6 DEF Begin
  <2>2. \A i \in AtJobs : i # j => starts'[i] = starts[i]
    BY <1>6 DEF Begin, TypeOK
  <2>3. CASE j \in AtJobs
    <3>1. starts[j] = 0
      BY <2>1, <2>3 DEF AfterFirstRun, RanOnce, TypeOK
    <3>2. starts'[j] \in {0, 1} /\ (starts'[j] = 1 => j \in running')
      BY <1>6, <2>3, <3>1 DEF Begin, TypeOK
    <3>3. left[j] = 0 /\ j \notin fresh
      BY <2>1, <2>3 DEF DueIsPast
    <3>4. \A i \in AtJobs : i # j /\ RanOnce(i) => RanOnce(i)'
      BY <2>1 DEF RanOnce
    <3>5. starts'[j] > 0 => RanOnce(j)'
      BY <2>1, <3>2, <3>3 DEF RanOnce
    <3> QED
      BY <2>2, <3>2, <3>4, <3>5 DEF AfterFirstRun, AtMostOnce
  <2>4. CASE j \notin AtJobs
    <3>1. \A i \in AtJobs : RanOnce(i) => RanOnce(i)'
      BY <2>1, <2>4 DEF RanOnce
    <3> QED
      BY <2>2, <2>4, <3>1 DEF AfterFirstRun, AtMostOnce
  <2> QED
    BY <2>3, <2>4
<1>7. ASSUME NEW j \in Jobs, End(j) PROVE AfterFirstRun' /\ AtMostOnce'
  <2>1. running = {j} /\ UNCHANGED <<left, due, draft, fresh, starts>>
    BY <1>7 DEF End, TypeOK, AtMostOne
  <2>2. \A i \in AtJobs : i # j => store'[i] = store[i]
    BY <1>7 DEF End, TypeOK
  <2>3. j \in AtJobs => ~store'[j].present
    BY <1>7, AbsentTyped DEF End, AfterRun, TypeOK
  <2> QED
    BY <1>1, <2>1, <2>2, <2>3 DEF RanOnce
<1>8. ASSUME NEW j \in Jobs, NEW delay \in 0..Period, NEW command \in BOOLEAN,
             AddJob(j, delay, command)
      PROVE  AfterFirstRun' /\ AtMostOnce'
  <2>1. j \in fresh /\ fresh' = fresh \ {j} /\ UNCHANGED <<due, running, starts>>
    BY <1>8 DEF AddJob
  <2>2. \A i \in AtJobs : i # j => /\ store'[i] = store[i] /\ draft'[i] = draft[i]
                                   /\ left'[i] = left[i]
    BY <1>8 DEF AddJob, TypeOK
  <2> QED
    BY <1>1, <2>1, <2>2 DEF RanOnce
<1>9. ASSUME NEW j \in Jobs, UpdateJob(j) PROVE AfterFirstRun' /\ AtMostOnce'
  <2>1. draft[j] # {} /\ UNCHANGED <<left, due, running, fresh, starts>>
    BY <1>9 DEF UpdateJob
  <2>2. \A i \in Jobs : i # j => store'[i] = store[i] /\ draft'[i] = draft[i]
    BY <1>9 DEF UpdateJob, TypeOK
  <2>3. ~store[j].present => store' = store
    BY <1>9 DEF UpdateJob
  <2> QED
    BY <1>1, <2>1, <2>2, <2>3 DEF RanOnce
<1>10. ASSUME NEW j \in Jobs, RemoveJob(j) PROVE AfterFirstRun' /\ AtMostOnce'
  <2>1. ~store'[j].present /\ \A i \in Jobs : i # j => store'[i] = store[i]
    BY <1>10, AbsentTyped DEF RemoveJob, TypeOK
  <2> QED
    BY <1>1, <1>10, <2>1 DEF RemoveJob, RanOnce
<1>11. ASSUME NEW j \in Jobs, NEW on \in BOOLEAN, EnableJob(j, on)
       PROVE  AfterFirstRun' /\ AtMostOnce'
  <2>1. store[j].present /\ \A i \in Jobs : i # j => store'[i] = store[i]
    BY <1>11 DEF EnableJob
  <2>2. j \in AtJobs /\ left[j] = 0 => store'[j].next = None
    BY <1>11, ComputeNextTyped DEF EnableJob, JobWith, TypeOK
  <2> QED
    BY <1>1, <1>11, <2>1, <2>2 DEF EnableJob, RanOnce
<1>12. ASSUME CliSave PROVE AfterFirstRun' /\ AtMostOnce'
  <2>1. fresh' \subseteq fresh /\ UNCHANGED <<left, due, running, store, draft, starts>>
    BY <1>12 DEF CliSave
  <2> QED
    BY <1>1, <2>1 DEF RanOnce
<1>13. ASSUME Stop \/ CliLoad \/ UNCHANGED vars PROVE AfterFirstRun' /\ AtMostOnce'
  BY <1>1, <1>13 DEF Stop, CliLoad, vars, RanOnce
<1> QED
  BY <1>2, <1>3, <1>4, <1>5, <1>6, <1>7, <1>8, <1>9, <1>10, <1>11, <1>12, <1>13
     DEF Next, Cli, Work, Tool

---------------------------------------------------------------------------
(* A run of a disabled job takes it off the list, and only enabled jobs    *)
(* get on it; disabling starts the count anew.                             *)
LEMMA LateInductive ==
  ASSUME TypeOK, IInv, [Next]_vars
  PROVE  LateNotDue' /\ DisabledRunsOnce'
<1> USE DEF IInv
<1>1. ASSUME late' = late, due' \subseteq due,
             \A j \in Jobs : store'[j].present => \/ store'[j].enabled
                                                  \/ (store[j].present /\ ~store[j].enabled)
      PROVE  LateNotDue' /\ DisabledRunsOnce'
  BY <1>1 DEF LateNotDue, DisabledRunsOnce
<1>2. ASSUME Tick PROVE LateNotDue' /\ DisabledRunsOnce'
  <2>1. \A j \in Jobs : store'[j].present = store[j].present /\ store'[j].enabled = store[j].enabled
    BY <1>2 DEF Tick, TypeOK, Job
  <2> QED
    BY <1>2, <2>1 DEF Tick, LateNotDue, DisabledRunsOnce
<1>3. ASSUME Start \/ Crash PROVE LateNotDue' /\ DisabledRunsOnce'
  <2>1. due' = {} /\ late' = late
    BY <1>3 DEF Start, Crash, TypeOK
  <2> QED
    BY <2>1 DEF LateNotDue, DisabledRunsOnce
<1>4. ASSUME CheckJobs PROVE LateNotDue' /\ DisabledRunsOnce'
  <2>1. \A j \in due' : store[j].enabled
    BY <1>4 DEF CheckJobs, IsDue, Enabled
  <2>2. \A j \in Jobs : store'[j].enabled = store[j].enabled
    BY <1>4 DEF CheckJobs, TypeOK, Job
  <2> QED
    BY <1>4, <2>1, <2>2 DEF CheckJobs, LateNotDue, DisabledRunsOnce
<1>5. ASSUME NEW j \in Jobs, Begin(j) PROVE LateNotDue' /\ DisabledRunsOnce'
  <2>1. j \in due /\ due' = due \ {j} /\ store' = store
    BY <1>5 DEF Begin
  <2>2. \A i \in Jobs : i # j => late'[i] = late[i]
    BY <1>5 DEF Begin, TypeOK
  <2>3. late'[j] <= 1
    <3>1. CASE store[j].present /\ ~store[j].enabled
      <4>1. late[j] = 0
        BY <2>1, <3>1 DEF LateNotDue, TypeOK
      <4> QED
        BY <1>5, <4>1 DEF Begin, TypeOK
    <3>2. CASE ~(store[j].present /\ ~store[j].enabled)
      BY <1>5, <3>2 DEF Begin, DisabledRunsOnce, TypeOK
    <3> QED
      BY <3>1, <3>2
  <2> QED
    BY <2>1, <2>2, <2>3 DEF LateNotDue, DisabledRunsOnce
<1>6. ASSUME NEW j \in Jobs, End(j) PROVE LateNotDue' /\ DisabledRunsOnce'
  <2>1. \A i \in Jobs : store'[i].present => store[i].present /\ store'[i].enabled = store[i].enabled
    <3>1. AfterRun(j).present => AfterRun(j).enabled = store[j].enabled
      BY AbsentTyped DEF AfterRun, TypeOK, Job
    <3> QED
      BY <1>6, <3>1 DEF End, TypeOK
  <2> QED
    BY <1>1, <1>6, <2>1 DEF End
<1>7. ASSUME NEW j \in Jobs, NEW delay \in 0..Period, NEW command \in BOOLEAN,
             AddJob(j, delay, command)
      PROVE  LateNotDue' /\ DisabledRunsOnce'
  <2>1. store'[j].enabled /\ \A i \in Jobs : i # j => store'[i] = store[i]
    BY <1>7 DEF AddJob, JobWith, TypeOK
  <2> QED
    BY <1>1, <1>7, <2>1 DEF AddJob
<1>8. ASSUME NEW j \in Jobs, UpdateJob(j) PROVE LateNotDue' /\ DisabledRunsOnce'
  <2>1. \A i \in Jobs : store'[i] = store[i] \/ (store'[i].present /\ store'[i].enabled)
    BY <1>8, DraftChosen DEF UpdateJob, DraftsEnabled, TypeOK
  <2> QED
    BY <1>1, <1>8, <2>1 DEF UpdateJob
<1>9. ASSUME NEW j \in Jobs, RemoveJob(j) PROVE LateNotDue' /\ DisabledRunsOnce'
  <2>1. ~store'[j].present /\ \A i \in Jobs : i # j => store'[i] = store[i]
    BY <1>9, AbsentTyped DEF RemoveJob, TypeOK
  <2> QED
    BY <1>1, <1>9, <2>1 DEF RemoveJob
<1>10. ASSUME NEW j \in Jobs, NEW on \in BOOLEAN, EnableJob(j, on)
       PROVE  LateNotDue' /\ DisabledRunsOnce'
  <2>1. store[j].present /\ due' = due /\ \A i \in Jobs : i # j => store'[i] = store[i]
    BY <1>10 DEF EnableJob
  <2>2. \A i \in Jobs : i # j => late'[i] = late[i]
    BY <1>10 DEF EnableJob, TypeOK
  <2>3. late'[j] = 0 \/ (late'[j] = late[j] /\ ~store[j].enabled)
    BY <1>10 DEF EnableJob, TypeOK
  <2> QED
    BY <2>1, <2>2, <2>3 DEF LateNotDue, DisabledRunsOnce
<1>11. ASSUME Stop \/ Cli \/ UNCHANGED vars PROVE LateNotDue' /\ DisabledRunsOnce'
  <2>1. UNCHANGED <<store, due, late>>
    BY <1>11 DEF Stop, Cli, CliLoad, CliSave, vars
  <2> QED
    BY <2>1 DEF LateNotDue, DisabledRunsOnce
<1> QED
  BY <1>2, <1>3, <1>4, <1>5, <1>6, <1>7, <1>8, <1>9, <1>10, <1>11 DEF Next, Work, Tool

---------------------------------------------------------------------------
(* A recurring job loses its next run only by getting on the list, and     *)
(* leaves the list by running, after which it gets another.                *)
LEMMA ForgottenInductive ==
  ASSUME TypeOK, IInv, [Next]_vars, NEW j \in Recurring
  PROVE  Enabled(j)' => store'[j].next # None \/ j \in due' \cup running'
<1> USE DEF IInv
<1> DEFINE Fine(i) == Enabled(i) => store[i].next # None \/ i \in due \cup running
<1> SUFFICES Fine(j)'
  OBVIOUS
<1>0. j \in Jobs \ AtJobs
  BY DEF Recurring
<1>1. Fine(j)
  BY DEF NoneForgotten
<1> USE DEF Enabled
<1>2. ASSUME Tick PROVE Fine(j)'
  <2>1. /\ store'[j].present = store[j].present /\ store'[j].enabled = store[j].enabled
        /\ store[j].next # None => store'[j].next # None
    BY <1>0, <1>2 DEF Tick, TypeOK, Job, Down
  <2> QED
    BY <1>0, <1>1, <1>2, <2>1 DEF Tick
<1>3. ASSUME Start PROVE Fine(j)'
  <2>1. ComputeNext(j, left) # None
    BY <1>0, ComputeNextTyped
  <2>2. store'[j] \in {Absent, JobWith(TRUE, ComputeNext(j, left)), JobWith(FALSE, None)}
    BY <1>0, <1>3 DEF Start
  <2> QED
    BY <2>1, <2>2 DEF JobWith, Absent
<1>4. ASSUME CheckJobs PROVE Fine(j)'
  <2>1. j \in due' \/ store'[j] = store[j]
    BY <1>0, <1>4 DEF CheckJobs
  <2>2. due = {} /\ running = {}
    BY <1>0, <1>4 DEF CheckJobs
  <2> QED
    BY <1>1, <2>1, <2>2
<1>5. ASSUME NEW i \in Jobs, Begin(i) PROVE Fine(j)'
  BY <1>0, <1>1, <1>5 DEF Begin
<1>6. ASSUME NEW i \in Jobs, End(i) PROVE Fine(j)'
  <2>1. running = {i} /\ due' = due
    BY <1>0, <1>6 DEF End, TypeOK, AtMostOne
  <2>2. CASE i = j
    <3>1. store[j].present => store'[j].next # None
      BY <1>0, <1>6, <2>2, ComputeNextTyped DEF End, AfterRun, TypeOK, Job
    <3>2. ~store[j].present => store' = store
      BY <1>0, <1>6, <2>2 DEF End
    <3> QED
      BY <3>1, <3>2
  <2>3. CASE i # j
    <3>1. store'[j] = store[j]
      BY <1>0, <1>6, <2>3 DEF End, TypeOK
    <3> QED
      BY <1>1, <2>1, <2>3, <3>1
  <2> QED
    BY <2>2, <2>3
<1>7. ASSUME NEW i \in Jobs, NEW delay \in 0..Period, NEW command \in BOOLEAN,
             AddJob(i, delay, command)
      PROVE  Fine(j)'
  <2>1. left' \in [AtJobs -> 0..Period]
    BY <1>0, <1>7 DEF AddJob, TypeOK
  <2>2. store'[j] = store[j] \/ store'[j].next = ComputeNext(j, left')
    BY <1>0, <1>7 DEF AddJob, JobWith, TypeOK
  <2>3. store'[j] = store[j] \/ store'[j].next = Period
    BY <1>0, <2>1, <2>2, FirstRun
  <2> QED
    BY <1>0, <1>1, <1>7, <2>3, Period # None DEF AddJob
<1>8. ASSUME NEW i \in Jobs, UpdateJob(i) PROVE Fine(j)'
  <2>1. store'[j] = store[j] \/ store'[j].next # None
    BY <1>0, <1>8, DraftChosen DEF UpdateJob, DraftsEnabled, TypeOK
  <2> QED
    BY <1>0, <1>1, <1>8, <2>1 DEF UpdateJob
<1>9. ASSUME NEW i \in Jobs, RemoveJob(i) PROVE Fine(j)'
  <2>1. store'[j] = store[j] \/ ~store'[j].present
    BY <1>0, <1>9, AbsentTyped DEF RemoveJob, TypeOK
  <2> QED
    BY <1>0, <1>1, <1>9, <2>1 DEF RemoveJob
<1>10. ASSUME NEW i \in Jobs, NEW on \in BOOLEAN, EnableJob(i, on) PROVE Fine(j)'
  <2>1. ComputeNext(j, left) # None
    BY <1>0, ComputeNextTyped
  <2>2. store'[j] = store[j] \/ ~store'[j].enabled \/ store'[j].next # None
    BY <1>0, <1>10, <2>1 DEF EnableJob, JobWith, TypeOK
  <2> QED
    BY <1>0, <1>1, <1>10, <2>2 DEF EnableJob
<1>11. ASSUME Crash PROVE Fine(j)'
  BY <1>0, <1>11, AbsentTyped DEF Crash
<1>12. ASSUME Stop \/ Cli \/ UNCHANGED vars PROVE Fine(j)'
  <2>1. UNCHANGED <<store, due, running>>
    BY <1>0, <1>12 DEF Stop, Cli, CliLoad, CliSave, vars
  <2> QED
    BY <1>1, <2>1
<1> QED
  BY <1>2, <1>3, <1>4, <1>5, <1>6, <1>7, <1>8, <1>9, <1>10, <1>11, <1>12 DEF Next, Work, Tool

(* A job whose schedule is ill-formed never gets a next run.               *)
LEMMA IllInductive ==
  ASSUME TypeOK, IInv, [Next]_vars, NEW j \in IllJobs
  PROVE  store'[j].next = None /\ j \notin due' \cup running'
<1> USE DEF IInv
<1>0. j \in Jobs \ AtJobs /\ ComputeNext(j, left) = None
  BY ComputeNextTyped
<1>1. store[j].next = None /\ j \notin due \cup running
  BY DEF NoneForgotten
<1>2. CASE Tick
  BY <1>0, <1>1, <1>2 DEF Tick, TypeOK, Job, Down
<1>3. CASE Start
  BY <1>0, <1>1, <1>3 DEF Start, JobWith, Absent
<1>4. CASE CheckJobs
  BY <1>0, <1>1, <1>4 DEF CheckJobs, IsDue
<1>5. ASSUME NEW i \in Jobs, Work(i) PROVE store'[j].next = None /\ j \notin due' \cup running'
  BY <1>0, <1>1, <1>5 DEF Work, Begin, End, AfterRun, TypeOK
<1>6. ASSUME NEW i \in Jobs, NEW delay \in 0..Period, NEW command \in BOOLEAN,
             AddJob(i, delay, command)
      PROVE  store'[j].next = None /\ j \notin due' \cup running'
  <2>1. left' \in [AtJobs -> 0..Period]
    BY <1>6 DEF AddJob, TypeOK
  <2>2. store'[j] = store[j] \/ store'[j].next = ComputeNext(j, left')
    BY <1>0, <1>6 DEF AddJob, JobWith, TypeOK
  <2>3. due' = due /\ running' = running
    BY <1>6 DEF AddJob
  <2> QED
    BY <1>0, <1>1, <2>1, <2>2, <2>3, FirstRun
<1>7. ASSUME NEW i \in Jobs, UpdateJob(i) PROVE store'[j].next = None /\ j \notin due' \cup running'
  <2>1. store'[j] = store[j] \/ store'[j].next = None
    BY <1>0, <1>7, DraftChosen DEF UpdateJob, DraftsEnabled, TypeOK
  <2> QED
    BY <1>1, <1>7, <2>1 DEF UpdateJob
<1>8. ASSUME NEW i \in Jobs, RemoveJob(i) \/ \E on \in BOOLEAN : EnableJob(i, on)
      PROVE  store'[j].next = None /\ j \notin due' \cup running'
  <2>1. store'[j] = store[j] \/ store'[j].next = None
    BY <1>0, <1>8 DEF RemoveJob, EnableJob, JobWith, Absent, TypeOK
  <2> QED
    BY <1>1, <1>8, <2>1 DEF RemoveJob, EnableJob
<1>9. CASE Crash
  BY <1>0, <1>1, <1>9 DEF Crash, Absent
<1>10. CASE Stop \/ Cli \/ UNCHANGED vars
  BY <1>1, <1>10 DEF Stop, Cli, CliLoad, CliSave, vars
<1> QED
  BY <1>2, <1>3, <1>4, <1>5, <1>6, <1>7, <1>8, <1>9, <1>10 DEF Next, Tool

---------------------------------------------------------------------------
(* Whatever changes the store saves it, and notes whether that worked.     *)
LEMMA FileInductive ==
  ASSUME TypeOK, IInv, [Next]_vars
  PROVE  FileMatches'
<1> USE DEF IInv
<1>1. ASSUME Save PROVE FileMatches'
  BY <1>1 DEF Save, SaveOK, SaveError, FileMatches
<1>2. ASSUME UNCHANGED <<file, clean>>, Alive' => Alive, Saved(store') = Saved(store)
      PROVE  FileMatches'
  BY <1>2 DEF FileMatches
<1>3. ASSUME Tick PROVE FileMatches'
  <2>1. \A j \in Jobs : store'[j].present = store[j].present /\ store'[j].enabled = store[j].enabled
    BY <1>3 DEF Tick, TypeOK, Job
  <2>2. Saved(store') = Saved(store)
    BY <2>1 DEF Saved
  <2> QED
    BY <1>2, <1>3, <2>2 DEF Tick, Alive
<1>4. ASSUME Start \/ CheckJobs PROVE FileMatches'
  BY <1>1, <1>4 DEF Start, CheckJobs, Save
<1>5. ASSUME NEW j \in Jobs, Tool(j) PROVE FileMatches'
  <2>1. Save \/ UNCHANGED <<file, clean, up, store>>
    BY <1>5 DEF Tool, AddJob, UpdateJob, RemoveJob, EnableJob, Save
  <2> QED
    BY <1>1, <1>2, <2>1 DEF Alive
<1>6. ASSUME NEW j \in Jobs, Work(j) PROVE FileMatches'
  <2>1. Save \/ UNCHANGED <<file, clean, up, store>>
    BY <1>6 DEF Work, Begin, End
  <2> QED
    BY <1>1, <1>2, <2>1 DEF Alive
<1>7. ASSUME CliSave PROVE FileMatches'
  BY <1>7 DEF CliSave, FileMatches
<1>8. ASSUME Crash PROVE FileMatches'
  BY <1>8 DEF Crash, FileMatches, Alive
<1>9. ASSUME Stop \/ CliLoad \/ UNCHANGED vars PROVE FileMatches'
  BY <1>2, <1>9 DEF Stop, CliLoad, vars, Alive
<1> QED
  BY <1>3, <1>4, <1>5, <1>6, <1>7, <1>8, <1>9 DEF Next, Cli

---------------------------------------------------------------------------
(* The invariant holds in every reachable state.                           *)
LEMMA Invariant == Spec => []IInv
<1>1. Init => IInv
  <2> SUFFICES ASSUME Init PROVE IInv
    OBVIOUS
  <2>1. NextIsInstant /\ DraftsEnabled /\ DueIsPast /\ FreshIsNowhere
    BY AbsentTyped DEF Init, NextIsInstant, DraftsEnabled, DueIsPast, FreshIsNowhere, Absent
  <2>2. AfterFirstRun /\ AtMostOnce /\ LateNotDue /\ DisabledRunsOnce
    BY DEF Init, AfterFirstRun, AtMostOnce, LateNotDue, DisabledRunsOnce
  <2>3. RemovedStaysGone /\ FileMatches
    BY DEF Init, RemovedStaysGone, FileMatches, Alive
  <2>4. NoneForgotten
    BY DEF Init, NoneForgotten, Enabled, Absent, Recurring
  <2> QED
    BY <2>1, <2>2, <2>3, <2>4 DEF IInv
<1>2. TypeOK /\ IInv /\ [Next]_vars => IInv'
  <2> SUFFICES ASSUME TypeOK, IInv, [Next]_vars PROVE IInv'
    OBVIOUS
  <2>1. NoneForgotten'
    BY ForgottenInductive, IllInductive DEF NoneForgotten
  <2> QED
    BY <2>1, InstantInductive, NowhereInductive, DueInductive, OnceInductive, LateInductive,
       FileInductive DEF IInv
<1> QED
  BY <1>1, <1>2, TypeCorrect, PTL DEF Spec

(* A one-time job runs at most once, whatever crashes, failing saves, copies *)
(* the tool holds and command line calls come in between (service.go:135-   *)
(* 244, README.md:1275 "triggers once").                                    *)
THEOREM OneTimeJobsRunOnce == Spec => []AtMostOnce
<1>1. IInv => AtMostOnce
  BY DEF IInv
<1> QED
  BY <1>1, Invariant, PTL

(* An enabled recurring job always has a next run or is about to get one,  *)
(* and one whose schedule is ill-formed never runs (service.go:135-278,    *)
(* 427-451).                                                               *)
THEOREM RecurringJobsGoOn == Spec => []NoneForgotten
<1>1. IInv => NoneForgotten
  BY DEF IInv
<1> QED
  BY <1>1, Invariant, PTL

(* A removed job stays out of memory and file, stale copies of it in       *)
(* UpdateJob and in the list of due jobs notwithstanding (service.go:392). *)
THEOREM RemovalsLast == Spec => []RemovedStaysGone
<1>1. IInv => RemovedStaysGone
  BY DEF IInv
<1> QED
  BY <1>1, Invariant, PTL

(* After it is disabled, a job that was due runs once more at most         *)
(* (service.go:172).                                                       *)
THEOREM DisablingEndsRuns == Spec => []DisabledRunsOnce
<1>1. IInv => DisabledRunsOnce
  BY DEF IInv
<1> QED
  BY <1>1, Invariant, PTL

(* When the last save was the gateway's and succeeded, a restart loads     *)
(* what its memory holds (service.go:316-341).                             *)
THEOREM RestartLoadsMemory == Spec => []FileMatches
<1>1. IInv => FileMatches
  BY DEF IInv
<1> QED
  BY <1>1, Invariant, PTL

----------------------------------------------------------------------------
HIDE CronAssumption DEF None

(* What credentials, copies of the files and states of jobs look like.  A credential  *)
(* holds tokens that were issued, and has the login it came from.                     *)
CredRecords == [login : Nat, token : Nat, refresh : Nat, project : BOOLEAN]
Known(c) == /\ c \in CredRecords /\ c.token <= auSerial /\ c.refresh <= auSerial
            /\ c.login = 0 => c = NoCred
Stores == [Providers -> CredRecords]
Configs == {f \in [Providers -> {"", "oauth", "token"}] : \A p \in Providers : f[p] \in {"", Method(p)}}
Moments == {"new", "request", "user", "project", "refresh", "load", "save", "config", "saveconfig", "ended"}
Said == {"nothing", "ok", "error", "pending"}
StoreCopies == Stores \cup {<<>>}
ConfigCopies == Configs \cup {<<>>}
JobStates == [pc : Moments, cred : CredRecords, store : StoreCopies, config : ConfigCopies, lenient : BOOLEAN,
              said : Said]
CrTyped ==
    /\ auPlan \in AuPlans /\ auRotates \in BOOLEAN
    /\ auFile \in Stores /\ \A p \in Providers : Known(auFile[p])
    /\ auConfig \in Configs
    /\ auJob \in [auPlan -> JobStates] /\ \A j \in auPlan : Known(auJob[j].cred)
    /\ auSerial \in Nat /\ auValid \subseteq 1 .. auSerial /\ DOMAIN auAge = 1 .. auSerial
    /\ auStarted \in Seq(Nat) /\ auFails \in Nat /\ auDone \subseteq {j.id : j \in auPlan}

(* Who is where: each kind of job goes through its own places, holds what it is about *)
(* to write when it is about to write it, and has said something when it has ended.   *)
Doing == {"request", "user", "project", "refresh", "load", "save", "config", "saveconfig"}
Configured == {"config", "saveconfig"}
Places(j) ==
    CASE j.does = "login" -> {"request", "user", "project", "load", "save"} \cup Configured
      [] j.does \in {"use", "models"} -> {"refresh", "project", "load", "save"}
      [] j.does = "logout" -> {"save"} \cup Configured
      [] j.does = "logout_all" -> Configured
Uses(j) == j.does \in {"use", "models"}
Holding(j) == auJob[j].pc \in {"refresh", "project", "load", "save"}
JobShaped(j) ==
    /\ auJob[j].pc \in {"new", "ended"} \cup Places(j)
    /\ auJob[j].said = "nothing" <=> auJob[j].pc # "ended"
    /\ auJob[j].lenient => j.does = "use"
    /\ auJob[j].pc = "save" => auJob[j].store \in Stores /\ \A p \in Providers : Known(auJob[j].store[p])
    /\ auJob[j].pc = "saveconfig" => auJob[j].config \in Configs
    /\ Uses(j) /\ Holding(j) => auJob[j].cred.login # 0
    /\ j.does = "login" /\ auJob[j].pc \in {"project", "load", "save"} => auJob[j].cred.login = j.id
    /\ auJob[j].pc = "refresh" => auJob[j].cred.refresh # 0
    /\ auJob[j].pc = "request" => Device(j)
JobsShaped == \A j \in auPlan : JobShaped(j)

(* Who runs at the same time is on record, and so is who began after whom had ended.  *)
Began(j) == \E m \in DOMAIN auStarted : auStarted[m] = j.id
Follows(k, j) == \E m, n \in DOMAIN auStarted : m < n /\ auStarted[m] = j.id /\ auStarted[n] = k.id
Meetings ==
    /\ \A j, k \in Active : j # k => {j.id, k.id} \in auOver
    /\ \A j \in auPlan : auJob[j].pc # "new" => Began(j)
    /\ \A j \in auPlan, k \in Active : auJob[j].pc = "ended" => {j.id, k.id} \in auOver \/ Follows(k, j)

(* What a login stored is in the file and in every copy that could overwrite it. *)
LoginExcused(j) ==
    Overlapped(j) \/ \E k \in Later(j) : k.does = "logout_all" \/ (k.does # "use" /\ Entry(k) = Entry(j))
LoggedIn(j) == j.does = "login" /\ (auJob[j].said = "ok" \/ auJob[j].pc \in Configured)
LoginsKept ==
    \A j \in auPlan : LoggedIn(j) /\ ~LoginExcused(j) =>
        /\ auFile[Entry(j)].login = j.id
        /\ \A k \in Active : k # j =>
              /\ auJob[k].pc = "save" => auJob[k].store[Entry(j)].login = j.id
              /\ Uses(k) /\ Holding(k) /\ Entry(k) = Entry(j) => auJob[k].cred.login = j.id

(* What a logout removed is in no file and in no copy. *)
LogoutExcused(j, p) == Overlapped(j) \/ \E k \in Later(j) : k.does = "login" /\ Entry(k) = p
LoggedOut(j, p) == /\ j.does \in {"logout", "logout_all"} /\ (auJob[j].said = "ok" \/ auJob[j].pc \in Configured)
                   /\ (j.does = "logout" => p = Entry(j))
LogoutsKept ==
    \A j \in auPlan, p \in Providers : LoggedOut(j, p) /\ ~LogoutExcused(j, p) =>
        /\ auFile[p] = NoCred
        /\ \A k \in Active : k # j =>
              /\ auJob[k].pc = "save" => auJob[k].store[p] = NoCred
              /\ Uses(k) => Entry(k) # p

(* A job nobody has overlapped holds what the file holds. *)
OwnKept ==
    \A j \in auPlan : Uses(j) /\ Holding(j) /\ ~Overlapped(j) =>
        /\ auJob[j].cred.login = auFile[Entry(j)].login
        /\ auFile[Entry(j)].project => auJob[j].cred.project

(* While nothing has failed and no jobs have met, refresh tokens have one place each. *)
Usable(n) == n \in auValid \cup {0}
Quiet == auFails = 0 /\ auOver = {}
TokensKept ==
    Quiet =>
    /\ \A p \in Providers : Usable(auFile[p].refresh)
           \/ \E j \in Active : Uses(j) /\ auJob[j].pc \in {"load", "save"} /\ Entry(j) = p
    /\ \A p, q \in Providers : p # q /\ auFile[p].refresh = auFile[q].refresh => auFile[p].refresh = 0
    /\ \A j \in Active :
          /\ auJob[j].pc \in {"project", "load", "save"} /\ j.does # "logout" =>
                /\ Usable(auJob[j].cred.refresh)
                /\ \A q \in Providers :
                      q # Entry(j) /\ auJob[j].cred.refresh = auFile[q].refresh => auFile[q].refresh = 0
          /\ auJob[j].pc = "refresh" => auJob[j].cred = auFile[Entry(j)]
          /\ auJob[j].pc = "save" => auJob[j].store = auFile

(* While they have not, the two files differ only by what the one job has yet to write. *)
MethodOf(p) == IF auFile[p] = NoCred THEN "" ELSE Method(p)
NoAlias == \A j \in auPlan : j.does = "logout" => j.provider # "antigravity"
MethodsKept ==
    Quiet /\ NoAlias =>
    /\ \A p \in Providers : auConfig[p] = MethodOf(p)
           \/ \E j \in Active : auJob[j].pc \in Configured /\ (j.does = "logout_all" \/ p = MethodEntry(j))
    /\ \A j \in Active :
          /\ auJob[j].pc \in Configured =>
                \A p \in Providers : j.does = "logout_all" \/ p = MethodEntry(j) =>
                    (auFile[p] = NoCred <=> j.does # "login")
          /\ auJob[j].pc = "saveconfig" => auJob[j].config = auConfig
          /\ auJob[j].pc = "save" => auJob[j].store = auFile

(* The session is a device login's, or another has taken its place. *)
OtherDevice(n) == \E k \in auPlan : Device(k) /\ k.id # n /\ auJob[k].pc # "new" /\ auJob[k].said # "pending"
Requesting == {j \in Active : Device(j) /\ auJob[j].pc = "request"}
DevicesKept ==
    /\ \A i, j \in Requesting : i # j => {i.id, j.id} \in auAsked
    /\ \A i \in Polled : auDevice = i.id \/ Replaced(i)
    /\ \A i \in Polled, k \in Requesting : Replaced(i)
    /\ \A i \in Polled : auDevice = i.id \/ OtherDevice(i.id)
    /\ \A n \in auDone : auDevice = n \/ n \in auShown \/ OtherDevice(n)
    /\ \A j \in auPlan : j.id \in auDone => auJob[j].pc = "ended"

AuInv == /\ CrTyped /\ JobsShaped /\ Meetings /\ LoginsKept /\ LogoutsKept /\ OwnKept
         /\ TokensKept /\ MethodsKept /\ DevicesKept

------------------------------------------------------------------------------
LEMMA PlanKnown ==
  ASSUME auPlan \in AuPlans, NEW j \in auPlan
  PROVE  /\ j.id \in Nat /\ j.id # 0 /\ j.id # 1
         /\ \A k \in auPlan : k.id = j.id => k = j
         /\ j.does \in {"login", "logout", "logout_all", "use", "models"}
         /\ j.does \in {"login", "use", "models"} => Entry(j) \in Providers /\ MethodEntry(j) = Entry(j)
         /\ j.does = "logout" => MethodEntry(j) \in Providers
         /\ j.does = "logout" /\ j.provider # "antigravity" => Entry(j) = MethodEntry(j)
         /\ j.does = "logout_all" => Entry(j) \notin Providers
<1>1. j \in AuJobs /\ (\A k \in auPlan : k.id = j.id => k = j) /\ (j.does = "logout_all" <=> j.provider = "all")
  BY AuAssumption
<1>2. /\ j.id \in Nat \ {0, 1} /\ j.does \in {"login", "logout", "logout_all", "use", "models"}
      /\ j.provider \in {"openai", "anthropic", "google-antigravity", "antigravity", "all"}
  BY <1>1 DEF AuJobs, Providers
<1>3. j.does \in {"login", "use", "models"} => Entry(j) \in Providers /\ MethodEntry(j) = Entry(j)
  BY <1>1, <1>2 DEF Entry, MethodEntry, Google, Providers
<1>4. /\ j.does = "logout" => MethodEntry(j) \in Providers
      /\ j.does = "logout" /\ j.provider # "antigravity" => Entry(j) = MethodEntry(j)
      /\ j.does = "logout_all" => Entry(j) \notin Providers
  BY <1>1, <1>2 DEF Entry, MethodEntry, Google, Providers
<1> QED
  BY <1>1, <1>2, <1>3, <1>4

LEMMA NoCredKnown == ASSUME auSerial \in Nat PROVE Known(NoCred) /\ NoCred.login = 0 /\ NoCred.refresh = 0
  BY DEF Known, NoCred, Credential, CredRecords

LEMMA StateParts ==
  ASSUME NEW c \in JobStates
  PROVE  /\ c.pc \in Moments /\ c.cred \in CredRecords /\ c.store \in StoreCopies
         /\ c.config \in ConfigCopies
         /\ c.lenient \in BOOLEAN /\ c.said \in Said
  BY DEF JobStates
Is(pc, cred, copy, config, lenient, said) ==
    [pc |-> pc, cred |-> cred, store |-> copy, config |-> config, lenient |-> lenient, said |-> said]
LEMMA StateMade ==
  ASSUME NEW pc \in Moments, NEW cred \in CredRecords, NEW copy \in StoreCopies,
         NEW config \in ConfigCopies,
         NEW lenient \in BOOLEAN, NEW said \in Said
  PROVE  Is(pc, cred, copy, config, lenient, said) \in JobStates
  BY DEF JobStates, Is

LEMMA StateIs ==
  ASSUME NEW r \in JobStates
  PROVE  r = Is(r.pc, r.cred, r.store, r.config, r.lenient, r.said)
  BY DEF JobStates, Is
(* A job goes from one state to another, and the others stay where they are.          *)
Moved(j, r) ==
    /\ auPlan' = auPlan /\ auJob' \in [auPlan -> JobStates] /\ auJob'[j] = r
    /\ \A k \in auPlan : k # j => auJob'[k] = auJob[k]
LEMMA JobSet ==
  ASSUME auJob \in [auPlan -> JobStates], NEW j \in auPlan, NEW r \in JobStates,
         auJob' = [auJob EXCEPT ![j] = r], auPlan' = auPlan
  PROVE  Moved(j, r)
  BY DEF Moved

LEMMA GoesTo ==
  ASSUME CrTyped, NEW j \in auPlan, NEW pc \in Moments, Goes(j, pc), auPlan' = auPlan
  PROVE  LET c == auJob[j] IN Moved(j, Is(pc, c.cred, c.store, c.config, c.lenient, c.said))
<1> DEFINE c == auJob[j]
           r == Is(pc, c.cred, c.store, c.config, c.lenient, c.said)
<1>1. auJob \in [auPlan -> JobStates] /\ c \in JobStates
  BY DEF CrTyped
<1>2. r \in JobStates
  BY <1>1, StateParts, StateMade
<1>3. [c EXCEPT !.pc = pc] = r
  BY <1>1 DEF JobStates, Is
<1>4. auJob' = [auJob EXCEPT ![j] = r]
  BY <1>3 DEF Goes
<1> QED
  BY <1>1, <1>2, <1>4, JobSet

LEMMA HoldsTo ==
  ASSUME CrTyped, NEW j \in auPlan, auPlan' = auPlan, NEW pc \in Moments, NEW cred \in CredRecords,
         Holds(j, pc, cred)
  PROVE  LET c == auJob[j] IN Moved(j, Is(pc, cred, c.store, c.config, c.lenient, c.said))
<1> DEFINE c == auJob[j]
           e == [c EXCEPT !.pc = pc, !.cred = cred]
<1>1. auJob \in [auPlan -> JobStates] /\ c \in JobStates /\ auFile \in Stores /\ auConfig \in Configs
  BY DEF CrTyped
<1>2. pc \in Moments /\ cred \in CredRecords
  OBVIOUS
<1>3. /\ e \in JobStates /\ e.pc = pc /\ e.cred = cred /\ e.store = c.store
      /\ e.config = c.config /\ e.lenient = c.lenient /\ e.said = c.said
  BY <1>1, <1>2 DEF JobStates
<1>4. auJob' = [auJob EXCEPT ![j] = e]
  BY DEF Holds
<1> HIDE DEF e
<1>5. e = Is(pc, cred, c.store, c.config, c.lenient, c.said)
  BY <1>3, StateIs
<1>6. Moved(j, e)
  BY <1>1, <1>3, <1>4, JobSet
<1> QED
  BY <1>2, <1>5, <1>6

LEMMA EndsTo ==
  ASSUME CrTyped, NEW j \in auPlan, NEW said \in Said, Ends(j, said), auPlan' = auPlan
  PROVE  Moved(j, Is("ended", NoCred, <<>>, <<>>, auJob[j].lenient, said))
<1> DEFINE r == Is("ended", NoCred, <<>>, <<>>, auJob[j].lenient, said)
<1>1. auJob \in [auPlan -> JobStates] /\ auJob[j] \in JobStates /\ auSerial \in Nat
  BY DEF CrTyped
<1>2. r \in JobStates
  <2>1. NoCred \in CredRecords
    BY <1>1, NoCredKnown DEF Known
  <2>2. auJob[j].lenient \in BOOLEAN
    BY <1>1, StateParts
  <2> QED
    BY <2>1, <2>2, StateMade DEF Moments, StoreCopies, ConfigCopies
<1>3. auJob' = [auJob EXCEPT ![j] = r]
  BY DEF Ends, Is
<1> QED
  BY <1>1, <1>2, <1>3, JobSet

LEMMA FetchesTo ==
  ASSUME CrTyped, NEW j \in auPlan, auPlan' = auPlan,
         auJob' = [auJob EXCEPT ![j] = [auJob[j] EXCEPT !.pc = "load",
                                                        !.cred = [auJob[j].cred EXCEPT !.project = TRUE],
                                                        !.lenient = (j.does = "use")]]
  PROVE  LET c == auJob[j]
             cred == [c.cred EXCEPT !.project = TRUE]
         IN  cred \in CredRecords /\ Moved(j, Is("load", cred, c.store, c.config, (j.does = "use"), c.said))
<1> DEFINE c == auJob[j]
           e == [c EXCEPT !.pc = "load", !.cred = [c.cred EXCEPT !.project = TRUE],
                          !.lenient = (j.does = "use")]
<1>1. auJob \in [auPlan -> JobStates] /\ c \in JobStates /\ auFile \in Stores /\ auConfig \in Configs
  BY DEF CrTyped
<1>2. "load" \in Moments /\ [c.cred EXCEPT !.project = TRUE] \in CredRecords /\ (j.does = "use") \in BOOLEAN
  BY <1>1, StateParts DEF Moments, CredRecords
<1>3. /\ e \in JobStates /\ e.pc = "load" /\ e.cred = [c.cred EXCEPT !.project = TRUE]
      /\ e.store = c.store
      /\ e.config = c.config /\ e.lenient = (j.does = "use") /\ e.said = c.said
  BY <1>1, <1>2 DEF JobStates
<1>4. auJob' = [auJob EXCEPT ![j] = e]
  OBVIOUS
<1> HIDE DEF e
<1>5. e = Is("load", [c.cred EXCEPT !.project = TRUE], c.store, c.config, (j.does = "use"), c.said)
  BY <1>3, StateIs
<1>6. Moved(j, e)
  BY <1>1, <1>3, <1>4, JobSet
<1> QED
  BY <1>2, <1>5, <1>6

LEMMA LoadsTo ==
  ASSUME CrTyped, NEW j \in auPlan, auPlan' = auPlan,
         auJob' = [auJob EXCEPT ![j] = [auJob[j] EXCEPT !.pc = "save", !.store = auFile]]
  PROVE  LET c == auJob[j] IN Moved(j, Is("save", c.cred, auFile, c.config, c.lenient, c.said))
<1> DEFINE c == auJob[j]
           e == [c EXCEPT !.pc = "save", !.store = auFile]
<1>1. auJob \in [auPlan -> JobStates] /\ c \in JobStates /\ auFile \in Stores /\ auConfig \in Configs
  BY DEF CrTyped
<1>2. "save" \in Moments /\ auFile \in StoreCopies
  BY <1>1 DEF Moments, StoreCopies
<1>3. /\ e \in JobStates /\ e.pc = "save" /\ e.cred = c.cred /\ e.store = auFile
      /\ e.config = c.config /\ e.lenient = c.lenient /\ e.said = c.said
  BY <1>1, <1>2 DEF JobStates
<1>4. auJob' = [auJob EXCEPT ![j] = e]
  OBVIOUS
<1> HIDE DEF e
<1>5. e = Is("save", c.cred, auFile, c.config, c.lenient, c.said)
  BY <1>3, StateIs
<1>6. Moved(j, e)
  BY <1>1, <1>3, <1>4, JobSet
<1> QED
  BY <1>2, <1>5, <1>6

LEMMA ConfigLoadsTo ==
  ASSUME CrTyped, NEW j \in auPlan, auPlan' = auPlan,
         auJob' = [auJob EXCEPT ![j] = [auJob[j] EXCEPT !.pc = "saveconfig", !.config = auConfig]]
  PROVE  LET c == auJob[j] IN Moved(j, Is("saveconfig", c.cred, c.store, auConfig, c.lenient, c.said))
<1> DEFINE c == auJob[j]
           e == [c EXCEPT !.pc = "saveconfig", !.config = auConfig]
<1>1. auJob \in [auPlan -> JobStates] /\ c \in JobStates /\ auFile \in Stores /\ auConfig \in Configs
  BY DEF CrTyped
<1>2. "saveconfig" \in Moments /\ auConfig \in ConfigCopies
  BY <1>1 DEF Moments, ConfigCopies
<1>3. /\ e \in JobStates /\ e.pc = "saveconfig" /\ e.cred = c.cred /\ e.store = c.store
      /\ e.config = auConfig /\ e.lenient = c.lenient /\ e.said = c.said
  BY <1>1, <1>2 DEF JobStates
<1>4. auJob' = [auJob EXCEPT ![j] = e]
  OBVIOUS
<1> HIDE DEF e
<1>5. e = Is("saveconfig", c.cred, c.store, auConfig, c.lenient, c.said)
  BY <1>3, StateIs
<1>6. Moved(j, e)
  BY <1>1, <1>3, <1>4, JobSet
<1> QED
  BY <1>2, <1>5, <1>6

(* What a step of a job does: to the table of jobs, to the tokens, to the files, to   *)
(* the copies of them, and to the device sessions.                                    *)
Turned(j) ==
    /\ auPlan' = auPlan /\ auRotates' = auRotates /\ auJob' \in [auPlan -> JobStates]
    /\ \A k \in auPlan : k # j => auJob'[k] = auJob[k]
    /\ auJob[j].pc # "ended" /\ auJob'[j].pc # "new"
    /\ IF auJob[j].pc = "new"
       THEN auStarted' = Append(auStarted, j.id) /\ auOver' = auOver \cup {{i.id, j.id} : i \in Active}
       ELSE auStarted' = auStarted /\ auOver' = auOver
    /\ auFails' \in Nat /\ (auFails' = 0 => auFails = 0)
    /\ auJob'[j].said = "pending" => auJob[j].pc = "new"
TokensGrown == /\ auSerial' \in Nat /\ auSerial <= auSerial'
               /\ auValid' \subseteq 1 .. auSerial' /\ DOMAIN auAge' = 1 .. auSerial'
InHand(pc) == pc \in {"project", "load", "save"}
TokensTurned(j) ==
    /\ auJob[j].pc = "load" => auJob'[j].pc = "save"
    /\ auJob[j].pc = "save" => auFile' = Written(j)
    /\ auJob'[j].pc = "refresh" => auJob[j].pc = "new" /\ auJob'[j].cred = auFile[Entry(j)]
    /\ \/ /\ auValid' = auValid /\ auSerial' = auSerial
          /\ InHand(auJob'[j].pc) /\ j.does # "logout" =>
                \/ InHand(auJob[j].pc) /\ auJob'[j].cred.refresh = auJob[j].cred.refresh
                \/ auJob[j].pc = "new" /\ Uses(j) /\ auJob'[j].cred = auFile[Entry(j)]
                \/ auJob[j].pc = "new" /\ j.does = "login" /\ auJob'[j].cred.refresh = 0
       \/ /\ auJob[j].pc = "user" /\ auFile' = auFile /\ InHand(auJob'[j].pc)
          /\ auValid' = auValid \cup {auSerial + 1} /\ auJob'[j].cred.refresh \in {0, auSerial + 1}
       \/ /\ auJob[j].pc = "refresh" /\ auFile' = auFile /\ auJob'[j].pc = "load"
          /\ \/ /\ auValid' = auValid /\ auJob[j].cred.refresh \in auValid
                /\ auJob'[j].cred.refresh = auJob[j].cred.refresh
             \/ /\ auValid' = (auValid \ {auJob[j].cred.refresh}) \cup {auSerial + 1}
                /\ auJob'[j].cred.refresh = auSerial + 1
FileTurned(j) ==
    \/ /\ auFile' = auFile
       /\ ~Uses(j) /\ (auJob'[j].said = "ok" \/ auJob'[j].pc \in Configured) => auJob[j].pc \in Configured
    \/ auJob[j].pc = "save" /\ auFile' = Written(j) /\ (Uses(j) \/ auJob'[j].pc = "config")
    \/ /\ auJob[j].pc = "new" /\ j.does = "logout_all" /\ auJob'[j].pc = "config"
       /\ auFile' = [p \in Providers |-> NoCred]
CopyTurned(j) ==
    /\ auJob'[j].pc = "save" => auJob'[j].store = auFile /\ auFile' = auFile /\ auJob[j].pc \in {"new", "load"}
    /\ Uses(j) /\ auJob'[j].pc \in {"refresh", "project", "load", "save"} =>
          \/ /\ auJob[j].pc = "new" /\ auJob'[j].cred = auFile[Entry(j)] /\ auFile[Entry(j)] # NoCred
             /\ auFile' = auFile
          \/ /\ Holding(j) /\ auJob'[j].cred.login = auJob[j].cred.login
             /\ auJob[j].cred.project => auJob'[j].cred.project
NewConfig(j) ==
    [p \in Providers |-> IF j.does # "logout_all" /\ p # MethodEntry(j) THEN auJob[j].config[p]
                         ELSE IF j.does = "login" THEN Method(p) ELSE ""]
ConfigTurned(j) ==
    /\ auConfig' = auConfig \/ (auJob[j].pc = "saveconfig" /\ auConfig' = NewConfig(j))
    /\ auJob'[j].pc = "saveconfig" => auJob[j].pc = "config" /\ auJob'[j].config = auConfig /\ auConfig' = auConfig
    /\ auJob[j].pc = "config" => auJob'[j].pc = "saveconfig" \/ auFails' # 0
    /\ auJob[j].pc = "saveconfig" => (auConfig' = NewConfig(j) /\ auJob'[j].pc = "ended") \/ auFails' # 0
DeviceTurned(j) ==
    /\ auShown' = auShown /\ auAsked \subseteq auAsked'
    /\ \/ auDone' = auDone
       \/ auDone' = auDone \cup {j.id} /\ Device(j) /\ auJob[j].pc \in Doing \ {"request"} /\ auJob'[j].pc = "ended"
    /\ auDevice' = auDevice \/ (auDevice' = j.id /\ auJob[j].pc = "request" /\ auJob'[j].pc = "user")
    /\ Device(j) /\ auJob'[j].pc = "request" =>
          ~Pending /\ auDevice' = auDevice /\ \A i \in Requesting : {i.id, j.id} \in auAsked'
    /\ Device(j) /\ auJob'[j].pc \in Doing \ {"request"} =>
          auJob[j].pc \in Doing \ {"request"} \/ (auJob[j].pc = "request" /\ auDevice' = j.id)
Stepped(j) ==
    /\ Turned(j) /\ TokensGrown /\ Known(auJob[j].cred)' /\ JobShaped(j)'
    /\ auFails' = 0 => TokensTurned(j)
    /\ FileTurned(j) /\ CopyTurned(j) /\ ConfigTurned(j) /\ DeviceTurned(j)

LEMMA JobParts ==
  ASSUME CrTyped, JobsShaped, NEW j \in auPlan
  PROVE  /\ auPlan \in AuPlans /\ auJob[j] \in JobStates /\ JobShaped(j) /\ Known(auJob[j].cred)
         /\ auFails \in Nat /\ auSerial \in Nat
  BY DEF CrTyped, JobsShaped
LEMMA IsFields ==
  ASSUME NEW pc, NEW cred, NEW copy, NEW config, NEW lenient, NEW said,
         NEW s, s = Is(pc, cred, copy, config, lenient, said)
  PROVE  /\ s.pc = pc /\ s.cred = cred /\ s.store = copy /\ s.config = config
         /\ s.lenient = lenient /\ s.said = said
  BY DEF Is
LEMMA KnownGrows ==
  ASSUME TokensGrown, auSerial \in Nat, NEW c, Known(c)
  PROVE  /\ c \in CredRecords /\ c.token <= auSerial' /\ c.refresh <= auSerial' /\ (c.login = 0 => c = NoCred)
  BY DEF Known, TokensGrown, CredRecords
LEMMA TokensStay ==
  ASSUME CrTyped, UNCHANGED auTokens
  PROVE  TokensGrown /\ auValid' = auValid /\ auSerial' = auSerial
  BY DEF CrTyped, auTokens, TokensGrown

Goes_On(j) == \/ Starts(j)
              \/ auJob[j].pc \notin {"new", "ended"} /\ UNCHANGED auFixed
LEMMA GoesOn ==
  ASSUME CrTyped, NEW j \in auPlan, Goes_On(j)
  PROVE  /\ auPlan' = auPlan /\ auRotates' = auRotates /\ auJob[j].pc # "ended"
         /\ IF auJob[j].pc = "new"
            THEN auStarted' = Append(auStarted, j.id) /\ auOver' = auOver \cup {{i.id, j.id} : i \in Active}
            ELSE auStarted' = auStarted /\ auOver' = auOver
  BY DEF Goes_On, Starts, At, auFixed
LEMMA Turns ==
  ASSUME CrTyped, NEW j \in auPlan, Goes_On(j), NEW pc, NEW cred, NEW copy, NEW config, NEW lenient,
         NEW said,
         Moved(j, Is(pc, cred, copy, config, lenient, said)),
         pc # "new", said = "pending" => auJob[j].pc = "new", auFails' \in Nat, auFails' = 0 => auFails = 0
  PROVE  /\ Turned(j) /\ auJob'[j].pc = pc /\ auJob'[j].cred = cred /\ auJob'[j].store = copy
         /\ auJob'[j].config = config /\ auJob'[j].lenient = lenient /\ auJob'[j].said = said
<1>1. auJob'[j] = Is(pc, cred, copy, config, lenient, said)
  BY DEF Moved
<1>2. /\ auJob'[j].pc = pc /\ auJob'[j].cred = cred /\ auJob'[j].store = copy
      /\ auJob'[j].config = config /\ auJob'[j].lenient = lenient /\ auJob'[j].said = said
  BY <1>1, IsFields
<1>3. Turned(j)
  BY <1>2, GoesOn DEF Turned, Moved
<1> QED
  BY <1>2, <1>3
LEMMA GoesIs ==
  ASSUME CrTyped, JobsShaped, NEW j \in auPlan, Goes_On(j),
         NEW pc \in Doing, Goes(j, pc), auFails' = auFails
  PROVE  /\ Turned(j) /\ auJob'[j].pc = pc /\ auJob'[j].cred = auJob[j].cred
         /\ auJob'[j].store = auJob[j].store
         /\ auJob'[j].config = auJob[j].config /\ auJob'[j].lenient = auJob[j].lenient
         /\ auJob'[j].said = "nothing"
<1> DEFINE c == auJob[j]
<1>1. auJob[j].said = "nothing" /\ auPlan' = auPlan /\ auFails \in Nat
  BY JobParts, GoesOn DEF JobShaped
<1>2. pc \in Moments /\ pc # "new" /\ pc # "ended"
  BY DEF Doing, Moments
<1>3. Moved(j, Is(pc, c.cred, c.store, c.config, c.lenient, c.said))
  BY <1>1, <1>2, GoesTo
<1> QED
  BY <1>1, <1>2, <1>3, Turns
LEMMA HoldsIs ==
  ASSUME CrTyped, JobsShaped, NEW j \in auPlan, Goes_On(j), NEW pc \in Doing,
         NEW cred \in CredRecords,
         Holds(j, pc, cred), auFails' = auFails
  PROVE  /\ Turned(j) /\ auJob'[j].pc = pc /\ auJob'[j].cred = cred
         /\ auJob'[j].store = auJob[j].store
         /\ auJob'[j].config = auJob[j].config /\ auJob'[j].lenient = auJob[j].lenient
         /\ auJob'[j].said = "nothing"
<1> DEFINE c == auJob[j]
<1>1. auJob[j].said = "nothing" /\ auPlan' = auPlan /\ auFails \in Nat
  BY JobParts, GoesOn DEF JobShaped
<1>2. pc \in Moments /\ pc # "new" /\ pc # "ended"
  BY DEF Doing, Moments
<1>3. Moved(j, Is(pc, cred, c.store, c.config, c.lenient, c.said))
  BY <1>1, <1>2, HoldsTo
<1> QED
  BY <1>1, <1>2, <1>3, Turns

(* A job that ends: without having written anything, or by its write of a file.       *)
LEMMA EndsStep ==
  ASSUME CrTyped, JobsShaped, NEW j \in auPlan,
         NEW said \in {"ok", "error", "pending"}, Ends(j, said), Goes_On(j),
         auFile' = auFile \/ (auJob[j].pc = "save" /\ auFile' = Written(j) /\ Uses(j)),
         \/ auConfig' = auConfig /\ (auJob[j].pc \in Configured => auFails' # 0)
         \/ auJob[j].pc = "saveconfig" /\ auConfig' = NewConfig(j),
         auShown' = auShown, auAsked \subseteq auAsked', auDevice' = auDevice,
         auDone' = auDone \/ (auDone' = auDone \cup {j.id} /\ Device(j) /\ auJob[j].pc \in Doing \ {"request"}),
         auFails' \in Nat, TokensGrown,
         auFails' = 0 => /\ auFails = 0 /\ auValid' = auValid /\ auSerial' = auSerial /\ auJob[j].pc # "load"
                         /\ auJob[j].pc = "save" => auFile' = Written(j),
         said = "pending" => auJob[j].pc = "new", said = "ok" /\ ~Uses(j) => auJob[j].pc \in Configured
  PROVE  Stepped(j)
<1>1. /\ auPlan \in AuPlans /\ auJob[j] \in JobStates /\ JobShaped(j) /\ auSerial \in Nat
  BY JobParts
<1>2. Moved(j, Is("ended", NoCred, <<>>, <<>>, auJob[j].lenient, said))
  BY GoesOn, EndsTo DEF Said
<1>3. /\ Turned(j) /\ auJob'[j].pc = "ended" /\ auJob'[j].cred = NoCred
      /\ auJob'[j].lenient = auJob[j].lenient
      /\ auJob'[j].said = said
  BY <1>2, Turns
<1>4. Known(auJob[j].cred)'
  <2>1. auSerial' \in Nat
    BY DEF TokensGrown
  <2> QED
    BY <1>3, <2>1 DEF Known, NoCred, Credential, CredRecords
<1>5. JobShaped(j)'
  BY <1>1, <1>3 DEF JobShaped, Holding
<1>6. auFails' = 0 => TokensTurned(j)
  BY <1>3 DEF TokensTurned, InHand
<1>7. FileTurned(j) /\ CopyTurned(j)
  BY <1>3 DEF FileTurned, CopyTurned, Configured
<1>8. ConfigTurned(j)
  BY <1>3 DEF ConfigTurned, Configured
<1>9. DeviceTurned(j)
  BY <1>3 DEF DeviceTurned, Doing
<1> QED
  BY <1>3, <1>4, <1>5, <1>6, <1>7, <1>8, <1>9 DEF Stepped

LEMMA FailsMore == ASSUME auFails \in Nat, Fails PROVE auFails' \in Nat /\ auFails' # 0
  BY DEF Fails
LEMMA NewTokenGrows ==
  ASSUME CrTyped, NewToken, auValid' \subseteq auValid \cup {auSerial + 1}
  PROVE  TokensGrown /\ auSerial' = auSerial + 1
<1>1. /\ auSerial' = auSerial + 1 /\ DOMAIN auAge' = 1 .. auSerial + 1 /\ auSerial \in Nat
      /\ auValid \subseteq 1 .. auSerial
  BY DEF NewToken, CrTyped
<1> QED
  BY <1>1 DEF TokensGrown
LEMMA UseOfEnds ==
  ASSUME NEW j, NEW cred, UseOf(j, cred)
  PROVE  Ends(j, "ok") \/ Ends(j, "error") \/ (j.does # "models" /\ Holds(j, "project", cred))
  BY DEF UseOf

LEMMA PasteTokenStep == ASSUME CrTyped, JobsShaped, NEW j \in auPlan, PasteToken(j) PROVE Stepped(j)
<1> DEFINE cred == Credential(j.id, 0, 0, FALSE)
<1>1. /\ j.id \in Nat /\ j.id # 0 /\ auSerial \in Nat /\ JobShaped(j)
  BY JobParts, PlanKnown
<1>2. cred \in CredRecords /\ cred.login = j.id /\ cred.token = 0 /\ cred.refresh = 0
  BY <1>1 DEF CredRecords, Credential
<1> HIDE DEF cred
<1>3. j.does = "login" /\ ~Uses(j) /\ ~Device(j) /\ auJob[j].pc = "new" /\ Goes_On(j) /\ Holds(j, "load", cred)
  BY DEF PasteToken, cred, Goes_On, Starts, At, Uses, Device
<1>4. /\ auFile' = auFile /\ auConfig' = auConfig /\ UNCHANGED auTokens /\ UNCHANGED auSessions
      /\ auFails' = auFails
  BY DEF PasteToken
<1>5. "load" \in Doing
  BY DEF Doing
<1>6. /\ Turned(j) /\ auJob'[j].pc = "load" /\ auJob'[j].cred = cred
      /\ auJob'[j].lenient = auJob[j].lenient
      /\ auJob'[j].said = "nothing"
  BY <1>2, <1>3, <1>4, <1>5, HoldsIs
<1>7. TokensGrown /\ auValid' = auValid /\ auSerial' = auSerial
  BY <1>4, TokensStay
<1>8. Known(auJob[j].cred)'
  BY <1>1, <1>2, <1>6, <1>7 DEF Known
<1>9. JobShaped(j)'
  BY <1>1, <1>2, <1>3, <1>6 DEF JobShaped, Holding, Places
<1>10. TokensTurned(j)
  BY <1>2, <1>3, <1>6, <1>7 DEF TokensTurned, InHand
<1>11. FileTurned(j) /\ CopyTurned(j) /\ ConfigTurned(j)
  BY <1>3, <1>4, <1>6 DEF FileTurned, CopyTurned, ConfigTurned, Configured
<1>12. DeviceTurned(j)
  BY <1>3, <1>4, <1>6 DEF DeviceTurned, auSessions
<1> QED
  BY <1>6, <1>7, <1>8, <1>9, <1>10, <1>11, <1>12 DEF Stepped

LEMMA BeginLoginStep == ASSUME CrTyped, JobsShaped, NEW j \in auPlan, BeginLogin(j) PROVE Stepped(j)
<1>1. auSerial \in Nat /\ auFails \in Nat /\ JobShaped(j) /\ auJob[j] \in JobStates /\ Known(auJob[j].cred)
  BY JobParts
<1>2. j.does = "login" /\ ~Uses(j) /\ auJob[j].pc = "new" /\ Goes_On(j)
  BY DEF BeginLogin, Goes_On, Starts, At, Uses
<1>3. /\ auFile' = auFile /\ auConfig' = auConfig /\ UNCHANGED auTokens /\ auFails' = auFails
      /\ auDevice' = auDevice /\ auDone' = auDone /\ auShown' = auShown
  BY DEF BeginLogin
<1>4. TokensGrown /\ auValid' = auValid /\ auSerial' = auSerial
  BY <1>3, TokensStay
<1>5. CASE Device(j) /\ Pending
  <2>1. Ends(j, "pending") /\ auAsked' = auAsked
    BY <1>5 DEF BeginLogin
  <2> QED
    BY <1>1, <1>2, <1>3, <1>4, <2>1, EndsStep DEF Configured
<1>6. CASE ~(Device(j) /\ Pending)
  <2> DEFINE pc == IF Device(j) THEN "request" ELSE "user"
  <2>1. /\ Goes(j, pc)
        /\ auAsked' = auAsked \cup
                         {{i.id, j.id} : i \in {k \in auPlan : Device(j) /\ At(k, "request")}}
    BY <1>6 DEF BeginLogin
  <2>2. pc \in Doing /\ pc \in {"request", "user"} /\ (Device(j) <=> pc = "request")
    BY DEF Doing
  <2> HIDE DEF pc
  <2>3. /\ Turned(j) /\ auJob'[j].pc = pc /\ auJob'[j].cred = auJob[j].cred
        /\ auJob'[j].lenient = auJob[j].lenient
        /\ auJob'[j].said = "nothing"
    BY <1>2, <1>3, <2>1, <2>2, GoesIs
  <2>4. Known(auJob[j].cred)'
    BY <1>1, <1>4, <2>3 DEF Known
  <2>5. JobShaped(j)'
    <3>1. Device(j)' <=> Device(j)
      BY DEF Device
    <3> QED
      BY <1>1, <1>2, <2>2, <2>3, <3>1 DEF JobShaped, Holding, Places
  <2>6. TokensTurned(j)
    BY <1>2, <1>3, <1>4, <2>2, <2>3 DEF TokensTurned, InHand
  <2>7. FileTurned(j) /\ CopyTurned(j) /\ ConfigTurned(j)
    BY <1>2, <1>3, <2>2, <2>3 DEF FileTurned, CopyTurned, ConfigTurned, Configured
  <2>8. Device(j) => \A i \in Requesting : {i.id, j.id} \in auAsked'
    BY <2>1 DEF Requesting, Active, At
  <2>9. DeviceTurned(j)
    BY <1>2, <1>3, <1>6, <2>1, <2>2, <2>3, <2>8 DEF DeviceTurned
  <2> QED
    BY <1>4, <2>3, <2>4, <2>5, <2>6, <2>7, <2>9 DEF Stepped
<1> QED
  BY <1>5, <1>6

LEMMA RequestDeviceCodeStep ==
  ASSUME CrTyped, JobsShaped, NEW j \in auPlan, RequestDeviceCode(j)
  PROVE  Stepped(j)
<1>1. auSerial \in Nat /\ auFails \in Nat /\ JobShaped(j) /\ auJob[j] \in JobStates /\ Known(auJob[j].cred)
  BY JobParts
<1>2. auJob[j].pc = "request" /\ Goes_On(j) /\ Device(j) /\ j.does = "login" /\ ~Uses(j)
  BY <1>1 DEF RequestDeviceCode, Goes_On, At, JobShaped, Device, Uses
<1>3. /\ auFile' = auFile /\ auConfig' = auConfig /\ UNCHANGED auTokens /\ auFails' = auFails
      /\ auDone' = auDone /\ auShown' = auShown /\ auAsked' = auAsked
  BY DEF RequestDeviceCode
<1>4. TokensGrown /\ auValid' = auValid /\ auSerial' = auSerial
  BY <1>3, TokensStay
<1>5. CASE Ends(j, "error") /\ auDevice' = auDevice
  BY <1>1, <1>2, <1>3, <1>4, <1>5, EndsStep DEF Configured
<1>6. CASE auDevice' = j.id /\ Goes(j, "user")
  <2>1. "user" \in Doing
    BY DEF Doing
  <2>2. /\ Turned(j) /\ auJob'[j].pc = "user" /\ auJob'[j].cred = auJob[j].cred
        /\ auJob'[j].lenient = auJob[j].lenient
        /\ auJob'[j].said = "nothing"
    BY <1>2, <1>3, <1>6, <2>1, GoesIs
  <2>3. Known(auJob[j].cred)'
    BY <1>1, <1>4, <2>2 DEF Known
  <2>4. JobShaped(j)'
    BY <1>1, <1>2, <2>2 DEF JobShaped, Holding, Places
  <2>5. TokensTurned(j)
    BY <1>2, <1>3, <1>4, <2>2 DEF TokensTurned, InHand
  <2>6. FileTurned(j) /\ CopyTurned(j) /\ ConfigTurned(j)
    BY <1>2, <1>3, <2>2 DEF FileTurned, CopyTurned, ConfigTurned, Configured
  <2>7. DeviceTurned(j)
    BY <1>2, <1>3, <1>6, <2>2 DEF DeviceTurned
  <2> QED
    BY <1>4, <2>2, <2>3, <2>4, <2>5, <2>6, <2>7 DEF Stepped
<1> QED
  BY <1>3, <1>5, <1>6 DEF RequestDeviceCode

LEMMA ExchangeStep == ASSUME CrTyped, JobsShaped, NEW j \in auPlan, ExchangeCodeForTokens(j) PROVE Stepped(j)
<1>1. /\ auSerial \in Nat /\ auFails \in Nat /\ JobShaped(j) /\ auJob[j] \in JobStates
      /\ j.id \in Nat /\ j.id # 0
      /\ auPlan \in AuPlans
  BY JobParts, PlanKnown
<1>2. auJob[j].pc = "user" /\ Goes_On(j) /\ j.does = "login" /\ ~Uses(j)
  <2>1. auJob[j].pc = "user" /\ Goes_On(j)
    BY DEF ExchangeCodeForTokens, Goes_On, At
  <2> QED
    BY <1>1, <2>1, PlanKnown DEF JobShaped, Uses, Places, Configured
<1>3. /\ auFile' = auFile /\ auConfig' = auConfig /\ auFails' = auFails
      /\ auDevice' = auDevice /\ auDone' = auDone /\ auShown' = auShown /\ auAsked' = auAsked
      /\ NewToken /\ auValid' = auValid \cup {auSerial + 1}
  BY DEF ExchangeCodeForTokens, Issue
<1>4. TokensGrown /\ auSerial' = auSerial + 1
  BY <1>3, NewTokenGrows
<1>5. PICK refresh \in {auSerial + 1, 0} :
          Holds(j, IF Google(j) THEN "project" ELSE "load", Credential(j.id, auSerial + 1, refresh, FALSE))
  BY DEF ExchangeCodeForTokens
<1> DEFINE cred == Credential(j.id, auSerial + 1, refresh, FALSE)
           pc == IF Google(j) THEN "project" ELSE "load"
<1>6. /\ cred \in CredRecords /\ cred.login = j.id /\ cred.token = auSerial + 1
      /\ cred.refresh = refresh
      /\ Holds(j, pc, cred)
  BY <1>1, <1>5 DEF CredRecords, Credential
<1>7. pc \in Doing /\ pc \in {"project", "load"}
  BY DEF Doing
<1> HIDE DEF cred, pc
<1>8. /\ Turned(j) /\ auJob'[j].pc = pc /\ auJob'[j].cred = cred
      /\ auJob'[j].lenient = auJob[j].lenient
      /\ auJob'[j].said = "nothing"
  BY <1>2, <1>3, <1>6, <1>7, HoldsIs
<1>9. Known(auJob[j].cred)'
  BY <1>1, <1>4, <1>5, <1>6, <1>8 DEF Known
<1>10. JobShaped(j)'
  BY <1>1, <1>2, <1>6, <1>7, <1>8 DEF JobShaped, Holding, Places
<1>11. TokensTurned(j)
  BY <1>2, <1>3, <1>5, <1>6, <1>7, <1>8 DEF TokensTurned, InHand
<1>12. FileTurned(j) /\ CopyTurned(j) /\ ConfigTurned(j)
  BY <1>2, <1>3, <1>7, <1>8 DEF FileTurned, CopyTurned, ConfigTurned, Configured
<1>13. DeviceTurned(j)
  BY <1>2, <1>3, <1>7, <1>8 DEF DeviceTurned, Doing
<1> QED
  BY <1>4, <1>8, <1>9, <1>10, <1>11, <1>12, <1>13 DEF Stepped

LEMMA LoginFailsStep == ASSUME CrTyped, JobsShaped, NEW j \in auPlan, LoginFails(j) PROVE Stepped(j)
<1>1. auFails \in Nat
  BY JobParts
<1>2. auJob[j].pc = "user" /\ Goes_On(j) /\ Ends(j, "error")
  BY DEF LoginFails, Goes_On, At
<1>3. /\ auFile' = auFile /\ auConfig' = auConfig /\ UNCHANGED auTokens /\ auFails' = auFails
      /\ auDevice' = auDevice /\ auShown' = auShown /\ auAsked' = auAsked
  BY DEF LoginFails
<1>4. TokensGrown /\ auValid' = auValid /\ auSerial' = auSerial
  BY <1>3, TokensStay
<1>5. auDone' = auDone \/ (auDone' = auDone \cup {j.id} /\ Device(j) /\ auJob[j].pc \in Doing \ {"request"})
  BY <1>2 DEF LoginFails, EndSession, Doing
<1> QED
  BY <1>1, <1>2, <1>3, <1>4, <1>5, EndsStep DEF Configured

LEMMA FetchProjectStep == ASSUME CrTyped, JobsShaped, NEW j \in auPlan, FetchProjectID(j) PROVE Stepped(j)
<1>1. /\ auSerial \in Nat /\ auFails \in Nat /\ JobShaped(j) /\ auJob[j] \in JobStates
      /\ Known(auJob[j].cred)
      /\ auPlan \in AuPlans
  BY JobParts
<1>2. auJob[j].pc = "project" /\ Goes_On(j) /\ (j.does = "login" \/ Uses(j))
  <2>1. auJob[j].pc = "project" /\ Goes_On(j)
    BY DEF FetchProjectID, Goes_On, At
  <2> QED
    BY <1>1, <2>1, PlanKnown DEF JobShaped, Uses, Places, Configured
<1>3. /\ auFile' = auFile /\ auConfig' = auConfig /\ UNCHANGED auTokens /\ auFails' = auFails
      /\ auDevice' = auDevice /\ auDone' = auDone /\ auShown' = auShown /\ auAsked' = auAsked
  BY DEF FetchProjectID, auSessions
<1>4. TokensGrown /\ auValid' = auValid /\ auSerial' = auSerial
  BY <1>3, TokensStay
<1>5. ASSUME Turned(j), auJob'[j].pc = "load", auJob'[j].said = "nothing",
             auJob'[j].cred \in CredRecords, auJob'[j].cred.login = auJob[j].cred.login,
             auJob'[j].cred.token = auJob[j].cred.token, auJob'[j].cred.refresh = auJob[j].cred.refresh,
             auJob[j].cred.project => auJob'[j].cred.project,
             auJob'[j].lenient => j.does = "use"
      PROVE  Stepped(j)
  <2>1. auJob[j].cred.login # 0
    BY <1>1, <1>2, PlanKnown DEF JobShaped, Holding
  <2>2. Known(auJob[j].cred)'
    BY <1>1, <1>4, <1>5, <2>1 DEF Known
  <2>3. JobShaped(j)'
    BY <1>1, <1>2, <1>5, <2>1 DEF JobShaped, Holding, Places, Uses
  <2>4. TokensTurned(j)
    BY <1>2, <1>3, <1>4, <1>5 DEF TokensTurned, InHand
  <2>5. FileTurned(j) /\ CopyTurned(j) /\ ConfigTurned(j)
    BY <1>2, <1>3, <1>5 DEF FileTurned, CopyTurned, ConfigTurned, Configured, Holding
  <2>6. DeviceTurned(j)
    BY <1>2, <1>3, <1>5 DEF DeviceTurned, Doing
  <2> QED
    BY <1>4, <1>5, <2>2, <2>3, <2>4, <2>5, <2>6 DEF Stepped
<1>6. CASE auJob' = [auJob EXCEPT ![j] = [auJob[j] EXCEPT !.pc = "load",
                                                          !.cred = [auJob[j].cred EXCEPT !.project = TRUE],
                                                          !.lenient = (j.does = "use")]]
  <2> DEFINE c == auJob[j]
             cred == [c.cred EXCEPT !.project = TRUE]
  <2>1. auPlan' = auPlan
    BY <1>2, GoesOn
  <2>2. cred \in CredRecords /\ Moved(j, Is("load", cred, c.store, c.config, (j.does = "use"), c.said))
    BY <1>6, <2>1, FetchesTo
  <2>3. /\ cred.login = c.cred.login /\ cred.token = c.cred.token /\ cred.refresh = c.cred.refresh
        /\ cred.project = TRUE
    BY <1>1 DEF Known, CredRecords
  <2> HIDE DEF cred
  <2>4. c.said = "nothing"
    BY <1>1, <1>2 DEF JobShaped
  <2>5. /\ Turned(j) /\ auJob'[j].pc = "load" /\ auJob'[j].cred = cred
        /\ auJob'[j].lenient = (j.does = "use")
        /\ auJob'[j].said = c.said
    BY <1>1, <1>2, <1>3, <2>2, <2>4, Turns
  <2> QED
    BY <1>5, <2>2, <2>3, <2>4, <2>5
<1>7. CASE Goes(j, "load")
  <2>1. "load" \in Doing
    BY DEF Doing
  <2>2. /\ Turned(j) /\ auJob'[j].pc = "load" /\ auJob'[j].cred = auJob[j].cred
        /\ auJob'[j].lenient = auJob[j].lenient
        /\ auJob'[j].said = "nothing"
    BY <1>2, <1>3, <1>7, <2>1, GoesIs
  <2> QED
    BY <1>1, <1>5, <2>2 DEF Known, JobShaped
<1>8. CASE Ends(j, "ok") /\ j.does # "login"
  BY <1>1, <1>2, <1>3, <1>4, <1>8, EndsStep DEF Configured
<1> QED
  BY <1>6, <1>7, <1>8 DEF FetchProjectID

LEMMA GetCredentialStep == ASSUME CrTyped, JobsShaped, NEW j \in auPlan, GetCredential(j) PROVE Stepped(j)
<1> DEFINE cred == auFile[Entry(j)]
<1>1. /\ auSerial \in Nat /\ auFails \in Nat /\ JobShaped(j) /\ auJob[j] \in JobStates
      /\ auPlan \in AuPlans
  BY JobParts
<1>2. j.does \in {"use", "models"} /\ Uses(j) /\ auJob[j].pc = "new" /\ Goes_On(j) /\ ~Device(j)
  BY DEF GetCredential, Goes_On, Starts, At, Uses, Device
<1>3. /\ auFile' = auFile /\ auConfig' = auConfig /\ UNCHANGED auTokens /\ auFails' = auFails
      /\ auDevice' = auDevice /\ auDone' = auDone /\ auShown' = auShown /\ auAsked' = auAsked
  BY DEF GetCredential, auSessions
<1>4. TokensGrown /\ auValid' = auValid /\ auSerial' = auSerial
  BY <1>3, TokensStay
<1>5. Known(cred)
  BY <1>1, <1>2, PlanKnown DEF CrTyped
<1>6. ASSUME cred # NoCred,
             NEW pc \in {"refresh", "project"}, Holds(j, pc, cred), pc = "refresh" => cred.refresh # 0
      PROVE  Stepped(j)
  <2>1. pc \in Doing /\ cred \in CredRecords /\ cred.login # 0
    BY <1>5, <1>6 DEF Doing, Known
  <2>2. /\ Turned(j) /\ auJob'[j].pc = pc /\ auJob'[j].cred = cred
        /\ auJob'[j].lenient = auJob[j].lenient
        /\ auJob'[j].said = "nothing"
    BY <1>2, <1>3, <1>6, <2>1, HoldsIs
  <2>3. Known(auJob[j].cred)'
    BY <1>4, <1>5, <2>2 DEF Known
  <2>4. JobShaped(j)'
    BY <1>1, <1>2, <1>6, <2>1, <2>2 DEF JobShaped, Holding, Places
  <2>5. TokensTurned(j)
    BY <1>2, <1>3, <1>4, <1>6, <2>2 DEF TokensTurned, InHand
  <2>6. FileTurned(j) /\ CopyTurned(j) /\ ConfigTurned(j)
    BY <1>2, <1>3, <1>6, <2>2 DEF FileTurned, CopyTurned, ConfigTurned, Configured
  <2>7. DeviceTurned(j)
    BY <1>2, <1>3, <1>6, <2>2 DEF DeviceTurned, Doing
  <2> QED
    BY <1>4, <2>2, <2>3, <2>4, <2>5, <2>6, <2>7 DEF Stepped
<1>7. ASSUME NEW said \in {"ok", "error"}, Ends(j, said)
      PROVE  Stepped(j)
  BY <1>1, <1>2, <1>3, <1>4, <1>7, EndsStep DEF Configured
<1>8. CASE cred = NoCred
  <2>1. Ends(j, "error")
    BY <1>8 DEF GetCredential
  <2> QED
    BY <1>7, <2>1
<1>9. CASE cred # NoCred /\ cred.refresh # 0 /\ auAge[cred.token] > 0
  <2>1. Holds(j, "refresh", cred)
    BY <1>9 DEF GetCredential
  <2> QED
    BY <1>6, <1>9, <2>1
<1>10. CASE cred # NoCred /\ ~(cred.refresh # 0 /\ auAge[cred.token] > 0)
  <2>1. Ends(j, "ok") \/ UseOf(j, cred)
    BY <1>10 DEF GetCredential
  <2> QED
    BY <1>6, <1>7, <1>10, <2>1, UseOfEnds
<1> QED
  BY <1>8, <1>9, <1>10

LEMMA RefreshedIs ==
  ASSUME NEW c \in CredRecords, auSerial \in Nat
  PROVE  /\ Refreshed(c) \in CredRecords /\ Refreshed(c).login = c.login
         /\ Refreshed(c).token = auSerial + 1
         /\ Refreshed(c).project = c.project
         /\ Refreshed(c).refresh = (IF auRotates THEN auSerial + 1 ELSE c.refresh)
<1> DEFINE r == IF auRotates THEN auSerial + 1 ELSE c.refresh
           d == [c EXCEPT !.token = auSerial + 1, !.refresh = r]
<1>1. r \in Nat
  BY DEF CredRecords
<1>2. Refreshed(c) = d
  BY DEF Refreshed
<1> HIDE DEF r
<1>3. auSerial + 1 \in Nat
  OBVIOUS
<1>4. d.login = c.login
  BY DEF CredRecords
<1>5. d.token = auSerial + 1
  BY DEF CredRecords
<1>6. d.project = c.project
  BY DEF CredRecords
<1>7. d.refresh = r
  BY DEF CredRecords
<1>8. d \in CredRecords
  BY <1>1, <1>3 DEF CredRecords
<1> HIDE DEF d
<1> QED
  BY <1>2, <1>4, <1>5, <1>6, <1>7, <1>8 DEF r
LEMMA RefreshStep == ASSUME CrTyped, JobsShaped, NEW j \in auPlan, RefreshAccessToken(j) PROVE Stepped(j)
<1> DEFINE old == auJob[j].cred
<1>1. /\ auSerial \in Nat /\ auFails \in Nat /\ JobShaped(j) /\ auJob[j] \in JobStates /\ Known(old)
      /\ auPlan \in AuPlans
  BY JobParts
<1>2. auJob[j].pc = "refresh" /\ Goes_On(j) /\ Uses(j) /\ ~Device(j)
  <2>1. auJob[j].pc = "refresh" /\ Goes_On(j)
    BY DEF RefreshAccessToken, Goes_On, At
  <2> QED
    BY <1>1, <2>1, PlanKnown DEF JobShaped, Uses, Places, Configured, Device
<1>3. /\ auFile' = auFile /\ auConfig' = auConfig
      /\ auDevice' = auDevice /\ auDone' = auDone /\ auShown' = auShown /\ auAsked' = auAsked
  BY DEF RefreshAccessToken, auSessions
<1>4. ASSUME Refused(j), TokensGrown, auFails' \in Nat,
             auFails' = 0 => auFails = 0 /\ auValid' = auValid /\ auSerial' = auSerial
      PROVE  Stepped(j)
  <2>1. Ends(j, "ok") \/ Ends(j, "error")
    BY <1>4 DEF Refused, UseOf
  <2> QED
    BY <1>1, <1>2, <1>3, <1>4, <2>1, EndsStep DEF Configured
<1>5. CASE old.refresh \notin auValid /\ Refused(j) /\ UNCHANGED <<auTokens, auFails>>
  BY <1>1, <1>4, <1>5, TokensStay
<1>6. CASE /\ old.refresh \in auValid /\ NewToken
           /\ auValid' = (IF auRotates THEN (auValid \ {old.refresh}) \cup {auSerial + 1} ELSE auValid)
           /\ Refused(j) /\ Fails
  <2>1. TokensGrown
    BY <1>6, NewTokenGrows
  <2> QED
    BY <1>1, <1>4, <1>6, <2>1, FailsMore
<1>7. CASE /\ old.refresh \in auValid /\ NewToken
           /\ auValid' = (IF auRotates THEN (auValid \ {old.refresh}) \cup {auSerial + 1} ELSE auValid)
           /\ Holds(j, "load", Refreshed(old)) /\ auFails' = auFails
  <2> DEFINE cred == Refreshed(old)
  <2>1. TokensGrown /\ auSerial' = auSerial + 1
    BY <1>7, NewTokenGrows
  <2>2. old \in CredRecords /\ old.login # 0
    BY <1>1, <1>2 DEF Known, JobShaped, Holding
  <2>3. /\ cred \in CredRecords /\ cred.login = old.login /\ cred.token = auSerial + 1
        /\ cred.project = old.project
        /\ cred.refresh = (IF auRotates THEN auSerial + 1 ELSE old.refresh)
    BY <1>1, <2>2, RefreshedIs
  <2> HIDE DEF cred
  <2>4. "load" \in Doing /\ Holds(j, "load", cred)
    BY <1>7 DEF Doing, cred
  <2>5. /\ Turned(j) /\ auJob'[j].pc = "load" /\ auJob'[j].cred = cred
        /\ auJob'[j].lenient = auJob[j].lenient
        /\ auJob'[j].said = "nothing"
    BY <1>2, <1>7, <2>3, <2>4, HoldsIs
  <2>6. Known(auJob[j].cred)'
    <3>1. auJob'[j].cred.refresh <= auSerial' /\ auJob'[j].cred.token <= auSerial'
      BY <1>1, <2>1, <2>3, <2>5 DEF Known, CredRecords
    <3> QED
      BY <2>2, <2>3, <2>5, <3>1 DEF Known
  <2>7. JobShaped(j)'
    BY <1>1, <1>2, <2>2, <2>3, <2>5 DEF JobShaped, Holding, Places, Uses
  <2>8. TokensTurned(j)
    BY <1>2, <1>3, <1>7, <2>3, <2>5 DEF TokensTurned, InHand
  <2>9. FileTurned(j) /\ CopyTurned(j) /\ ConfigTurned(j)
    BY <1>2, <1>3, <2>3, <2>5 DEF FileTurned, CopyTurned, ConfigTurned, Configured, Holding
  <2>10. DeviceTurned(j)
    BY <1>2, <1>3, <2>5 DEF DeviceTurned, Doing
  <2> QED
    BY <2>1, <2>5, <2>6, <2>7, <2>8, <2>9, <2>10 DEF Stepped
<1>8. auValid' = (IF auRotates THEN (auValid \ {old.refresh}) \cup {auSerial + 1} ELSE auValid)
      \/ auValid' = auValid
  BY DEF RefreshAccessToken, auTokens
<1> QED
  BY <1>5, <1>6, <1>7 DEF RefreshAccessToken

LEMMA EndSessionIs ==
  ASSUME NEW j, EndSession(j), auJob[j].pc \in Doing \ {"request"} \/ ~Device(j)
  PROVE  auDone' = auDone \/ (auDone' = auDone \cup {j.id} /\ Device(j) /\ auJob[j].pc \in Doing \ {"request"})
  BY DEF EndSession
LEMMA NotStoredStep ==
  ASSUME CrTyped, JobsShaped, NEW j \in auPlan, NotStored(j), Fails, Goes_On(j),
         auJob[j].pc \in {"load", "save"} \/ (auJob[j].pc = "new" /\ j.does = "logout"),
         auFile' = auFile, auConfig' = auConfig, UNCHANGED auTokens,
         auDevice' = auDevice, auShown' = auShown, auAsked' = auAsked
  PROVE  Stepped(j)
<1>1. auFails \in Nat /\ JobShaped(j)
  BY JobParts
<1>2. TokensGrown /\ auFails' \in Nat /\ auFails' # 0
  BY <1>1, TokensStay, FailsMore
<1>3. auDone' = auDone \/ (auDone' = auDone \cup {j.id} /\ Device(j) /\ auJob[j].pc \in Doing \ {"request"})
  BY EndSessionIs DEF NotStored, Doing, Device
<1>4. \/ Ends(j, "error")
      \/ Ends(j, "ok") /\ Uses(j)
  BY <1>1 DEF NotStored, UseOf, JobShaped, Uses
<1> QED
  BY <1>1, <1>2, <1>3, <1>4, EndsStep

LEMMA LoadStoreStep == ASSUME CrTyped, JobsShaped, NEW j \in auPlan, LoadStore(j) PROVE Stepped(j)
<1>1. /\ auSerial \in Nat /\ auFails \in Nat /\ JobShaped(j) /\ auJob[j] \in JobStates
      /\ Known(auJob[j].cred)
      /\ auPlan \in AuPlans
  BY JobParts
<1>2. /\ Goes_On(j)
      /\ \/ auJob[j].pc = "new" /\ j.does = "logout" /\ ~Uses(j) /\ ~Device(j)
         \/ auJob[j].pc = "load" /\ j.does # "logout" /\ (j.does = "login" \/ Uses(j))
  <2>1. CASE j.does = "logout"
    BY <2>1 DEF LoadStore, Goes_On, Starts, At, Uses, Device
  <2>2. CASE j.does # "logout"
    <3>1. auJob[j].pc = "load" /\ Goes_On(j)
      BY <2>2 DEF LoadStore, Goes_On, At
    <3> QED
      BY <1>1, <2>2, <3>1, PlanKnown DEF JobShaped, Uses, Places, Configured
  <2> QED
    BY <2>1, <2>2
<1>3. /\ auFile' = auFile /\ auConfig' = auConfig /\ UNCHANGED auTokens
      /\ auDevice' = auDevice /\ auShown' = auShown /\ auAsked' = auAsked
  BY DEF LoadStore
<1>4. CASE NotStored(j) /\ Fails
  BY <1>2, <1>3, <1>4, NotStoredStep
<1>5. CASE /\ auJob' = [auJob EXCEPT ![j] = [auJob[j] EXCEPT !.pc = "save", !.store = auFile]]
           /\ auDone' = auDone /\ auFails' = auFails
  <2> DEFINE c == auJob[j]
  <2>1. TokensGrown /\ auValid' = auValid /\ auSerial' = auSerial
    BY <1>3, TokensStay
  <2>2. Moved(j, Is("save", c.cred, auFile, c.config, c.lenient, c.said))
    BY <1>2, <1>5, GoesOn, LoadsTo
  <2>3. c.said = "nothing"
    BY <1>1, <1>2 DEF JobShaped
  <2>4. /\ Turned(j) /\ auJob'[j].pc = "save" /\ auJob'[j].cred = c.cred /\ auJob'[j].store = auFile
        /\ auJob'[j].lenient = c.lenient /\ auJob'[j].said = "nothing"
    BY <1>1, <1>2, <1>5, <2>2, <2>3, Turns
  <2>5. Known(auJob[j].cred)'
    BY <1>1, <2>1, <2>4 DEF Known
  <2>6. auFile \in Stores /\ \A p \in Providers : Known(auFile[p])
    BY DEF CrTyped
  <2>7. (auJob[j].store \in Stores /\ \A p \in Providers : Known(auJob[j].store[p]))'
    BY <1>3, <2>1, <2>4, <2>6 DEF Known
  <2>8. JobShaped(j)'
    BY <1>1, <1>2, <2>4, <2>7 DEF JobShaped, Holding, Places, Uses
  <2>9. TokensTurned(j)
    BY <1>2, <1>3, <2>1, <2>4 DEF TokensTurned, InHand
  <2>10. FileTurned(j) /\ CopyTurned(j) /\ ConfigTurned(j)
    BY <1>2, <1>3, <2>4 DEF FileTurned, CopyTurned, ConfigTurned, Configured, Holding
  <2>11. DeviceTurned(j)
    BY <1>2, <1>3, <1>5, <2>4 DEF DeviceTurned, Doing
  <2> QED
    BY <2>1, <2>4, <2>5, <2>8, <2>9, <2>10, <2>11 DEF Stepped
<1> QED
  BY <1>4, <1>5 DEF LoadStore

LEMMA SaveStoreStep == ASSUME CrTyped, JobsShaped, NEW j \in auPlan, SaveStore(j) PROVE Stepped(j)
<1>1. /\ auSerial \in Nat /\ auFails \in Nat /\ JobShaped(j) /\ auJob[j] \in JobStates
      /\ Known(auJob[j].cred)
      /\ auPlan \in AuPlans
  BY JobParts
<1>2. auJob[j].pc = "save" /\ Goes_On(j)
  BY DEF SaveStore, Goes_On, At
<1>3. j.does \in {"login", "logout"} \/ Uses(j)
  BY <1>1, <1>2, PlanKnown DEF JobShaped, Uses, Places, Configured
<1>4. /\ auConfig' = auConfig /\ UNCHANGED auTokens
      /\ auDevice' = auDevice /\ auShown' = auShown /\ auAsked' = auAsked
  BY DEF SaveStore
<1>5. TokensGrown /\ auValid' = auValid /\ auSerial' = auSerial
  BY <1>4, TokensStay
<1>6. CASE NotStored(j) /\ Fails /\ auFile' = auFile
  BY <1>2, <1>4, <1>6, NotStoredStep
<1>7. CASE auFile' = Written(j) /\ auDone' = auDone /\ auFails' = auFails
  <2>1. CASE j.does \in {"login", "logout"}
    <3>1. Goes(j, "config") /\ "config" \in Doing
      BY <1>1, <1>7, <2>1 DEF SaveStore, Fails, Doing
    <3>2. /\ Turned(j) /\ auJob'[j].pc = "config" /\ auJob'[j].cred = auJob[j].cred
          /\ auJob'[j].lenient = auJob[j].lenient /\ auJob'[j].said = "nothing"
      BY <1>2, <1>7, <3>1, GoesIs
    <3>3. Known(auJob[j].cred)'
      BY <1>1, <1>5, <3>2 DEF Known
    <3>4. JobShaped(j)'
      BY <1>1, <2>1, <3>2 DEF JobShaped, Holding, Places, Configured
    <3>5. TokensTurned(j)
      BY <1>2, <1>5, <1>7, <3>2 DEF TokensTurned, InHand
    <3>6. FileTurned(j) /\ CopyTurned(j) /\ ConfigTurned(j)
      BY <1>2, <1>4, <1>7, <3>2 DEF FileTurned, CopyTurned, ConfigTurned, Configured
    <3>7. DeviceTurned(j)
      BY <1>2, <1>4, <1>7, <3>2 DEF DeviceTurned, Doing
    <3> QED
      BY <1>5, <3>2, <3>3, <3>4, <3>5, <3>6, <3>7 DEF Stepped
  <2>2. CASE Uses(j) /\ j.does \notin {"login", "logout"}
    <3>1. UseOf(j, auJob[j].cred)
      BY <1>1, <1>7, <2>2 DEF SaveStore, Fails
    <3>2. CASE Holds(j, "project", auJob[j].cred)
      <4>1. "project" \in Doing /\ auJob[j].cred \in CredRecords
        BY <1>1 DEF Doing, Known
      <4>2. /\ Turned(j) /\ auJob'[j].pc = "project" /\ auJob'[j].cred = auJob[j].cred
            /\ auJob'[j].lenient = auJob[j].lenient /\ auJob'[j].said = "nothing"
        BY <1>2, <1>7, <3>2, <4>1, HoldsIs
      <4>3. Known(auJob[j].cred)'
        BY <1>1, <1>5, <4>2 DEF Known
      <4>4. JobShaped(j)'
        BY <1>1, <1>2, <2>2, <4>2 DEF JobShaped, Holding, Places, Uses
      <4>5. TokensTurned(j)
        BY <1>2, <1>5, <1>7, <4>2 DEF TokensTurned, InHand
      <4>6. FileTurned(j) /\ CopyTurned(j) /\ ConfigTurned(j)
        BY <1>2, <1>4, <1>7, <2>2, <4>2 DEF FileTurned, CopyTurned, ConfigTurned, Configured,
           Holding
      <4>7. DeviceTurned(j)
        BY <1>2, <1>4, <1>7, <4>2 DEF DeviceTurned, Doing
      <4> QED
        BY <1>5, <4>2, <4>3, <4>4, <4>5, <4>6, <4>7 DEF Stepped
    <3>3. CASE Ends(j, "ok") \/ Ends(j, "error")
      BY <1>1, <1>2, <1>4, <1>5, <1>7, <2>2, <3>3, EndsStep DEF Configured
    <3> QED
      BY <3>1, <3>2, <3>3, UseOfEnds
  <2> QED
    BY <1>3, <2>1, <2>2
<1> QED
  BY <1>6, <1>7 DEF SaveStore

LEMMA DeleteAllStep == ASSUME CrTyped, JobsShaped, NEW j \in auPlan, DeleteAllCredentials(j) PROVE Stepped(j)
<1>1. /\ auSerial \in Nat /\ auFails \in Nat /\ JobShaped(j) /\ auJob[j] \in JobStates
      /\ Known(auJob[j].cred)
  BY JobParts
<1>2. auJob[j].pc = "new" /\ Goes_On(j) /\ j.does = "logout_all" /\ ~Uses(j) /\ ~Device(j) /\ Goes(j, "config")
  BY DEF DeleteAllCredentials, Goes_On, Starts, At, Uses, Device
<1>3. /\ auConfig' = auConfig /\ UNCHANGED auTokens /\ auFails' = auFails
      /\ auFile' = [p \in Providers |-> NoCred]
      /\ auDevice' = auDevice /\ auDone' = auDone /\ auShown' = auShown /\ auAsked' = auAsked
  BY DEF DeleteAllCredentials, auSessions
<1>4. TokensGrown /\ auValid' = auValid /\ auSerial' = auSerial
  BY <1>3, TokensStay
<1>5. "config" \in Doing
  BY DEF Doing
<1>6. /\ Turned(j) /\ auJob'[j].pc = "config" /\ auJob'[j].cred = auJob[j].cred
      /\ auJob'[j].lenient = auJob[j].lenient /\ auJob'[j].said = "nothing"
  BY <1>2, <1>3, <1>5, GoesIs
<1>7. Known(auJob[j].cred)'
  BY <1>1, <1>4, <1>6 DEF Known
<1>8. JobShaped(j)'
  BY <1>1, <1>2, <1>6 DEF JobShaped, Holding, Places, Configured
<1>9. TokensTurned(j)
  BY <1>2, <1>4, <1>6 DEF TokensTurned, InHand
<1>10. FileTurned(j) /\ CopyTurned(j) /\ ConfigTurned(j)
  BY <1>2, <1>3, <1>6 DEF FileTurned, CopyTurned, ConfigTurned, Configured
<1>11. DeviceTurned(j)
  BY <1>2, <1>3, <1>6 DEF DeviceTurned
<1> QED
  BY <1>4, <1>6, <1>7, <1>8, <1>9, <1>10, <1>11 DEF Stepped

LEMMA LoadConfigStep == ASSUME CrTyped, JobsShaped, NEW j \in auPlan, LoadConfig(j) PROVE Stepped(j)
<1>1. /\ auSerial \in Nat /\ auFails \in Nat /\ JobShaped(j) /\ auJob[j] \in JobStates
      /\ Known(auJob[j].cred)
      /\ auPlan \in AuPlans
  BY JobParts
<1>2. auJob[j].pc = "config" /\ Goes_On(j) /\ ~Uses(j) /\ j.does \in {"login", "logout", "logout_all"}
  <2>1. auJob[j].pc = "config" /\ Goes_On(j)
    BY DEF LoadConfig, Goes_On, At
  <2> QED
    BY <1>1, <2>1, PlanKnown DEF JobShaped, Uses, Places
<1>3. /\ auFile' = auFile /\ auConfig' = auConfig /\ UNCHANGED auTokens
      /\ auDevice' = auDevice /\ auShown' = auShown /\ auAsked' = auAsked
  BY DEF LoadConfig
<1>4. TokensGrown /\ auValid' = auValid /\ auSerial' = auSerial
  BY <1>3, TokensStay
<1>5. CASE Ends(j, "ok") /\ EndSession(j) /\ Fails
  <2>1. auDone' = auDone \/ (auDone' = auDone \cup {j.id} /\ Device(j) /\ auJob[j].pc \in Doing \ {"request"})
    BY <1>2, <1>5, EndSessionIs DEF Doing
  <2>2. auFails' \in Nat /\ auFails' # 0
    BY <1>1, <1>5, FailsMore
  <2> QED
    BY <1>2, <1>3, <1>4, <1>5, <2>1, <2>2, EndsStep DEF Configured
<1>6. CASE /\ auJob' = [auJob EXCEPT ![j] = [auJob[j] EXCEPT !.pc = "saveconfig", !.config = auConfig]]
           /\ auDone' = auDone /\ auFails' = auFails
  <2> DEFINE c == auJob[j]
  <2>1. Moved(j, Is("saveconfig", c.cred, c.store, auConfig, c.lenient, c.said))
    BY <1>2, <1>6, GoesOn, ConfigLoadsTo
  <2>2. c.said = "nothing"
    BY <1>1, <1>2 DEF JobShaped
  <2>3. /\ Turned(j) /\ auJob'[j].pc = "saveconfig" /\ auJob'[j].cred = c.cred
        /\ auJob'[j].config = auConfig
        /\ auJob'[j].lenient = c.lenient /\ auJob'[j].said = "nothing"
    BY <1>1, <1>2, <1>6, <2>1, <2>2, Turns
  <2>4. Known(auJob[j].cred)'
    BY <1>1, <1>4, <2>3 DEF Known
  <2>5. auConfig \in Configs
    BY DEF CrTyped
  <2>6. JobShaped(j)'
    BY <1>1, <1>2, <2>3, <2>5 DEF JobShaped, Holding, Places, Configured
  <2>7. TokensTurned(j)
    BY <1>2, <1>4, <2>3 DEF TokensTurned, InHand
  <2>8. FileTurned(j) /\ CopyTurned(j) /\ ConfigTurned(j)
    BY <1>2, <1>3, <2>3 DEF FileTurned, CopyTurned, ConfigTurned, Configured
  <2>9. DeviceTurned(j)
    BY <1>2, <1>3, <1>6, <2>3 DEF DeviceTurned, Doing
  <2> QED
    BY <1>4, <2>3, <2>4, <2>6, <2>7, <2>8, <2>9 DEF Stepped
<1> QED
  BY <1>5, <1>6 DEF LoadConfig

LEMMA SaveConfigStep == ASSUME CrTyped, JobsShaped, NEW j \in auPlan, SaveConfig(j) PROVE Stepped(j)
<1>1. auFails \in Nat
  BY JobParts
<1>2. auJob[j].pc = "saveconfig" /\ Goes_On(j) /\ EndSession(j)
  BY DEF SaveConfig, Goes_On, At
<1>3. /\ auFile' = auFile /\ UNCHANGED auTokens
      /\ auDevice' = auDevice /\ auShown' = auShown /\ auAsked' = auAsked
  BY DEF SaveConfig
<1>4. TokensGrown /\ auValid' = auValid /\ auSerial' = auSerial
  BY <1>3, TokensStay
<1>5. auDone' = auDone \/ (auDone' = auDone \cup {j.id} /\ Device(j) /\ auJob[j].pc \in Doing \ {"request"})
  BY <1>2, EndSessionIs DEF Doing
<1>6. CASE auConfig' = NewConfig(j) /\ Ends(j, "ok") /\ auFails' = auFails
  BY <1>1, <1>2, <1>3, <1>4, <1>5, <1>6, EndsStep DEF Configured
<1>7. CASE Ends(j, Told(j)) /\ Fails /\ auConfig' = auConfig
  <2>1. Told(j) \in {"ok", "error"}
    BY DEF Told
  <2>2. auFails' \in Nat /\ auFails' # 0
    BY <1>1, <1>7, FailsMore
  <2> QED
    BY <1>2, <1>3, <1>4, <1>5, <1>7, <2>1, <2>2, EndsStep DEF Configured
<1> QED
  BY <1>6, <1>7 DEF SaveConfig, NewConfig

(* Each action of a job is such a step.                                               *)
LEMMA JobSteps == ASSUME CrTyped, JobsShaped, NEW j \in auPlan, AuJobStep(j) PROVE Stepped(j)
  BY PasteTokenStep, BeginLoginStep, RequestDeviceCodeStep, ExchangeStep, LoginFailsStep,
     FetchProjectStep,
     GetCredentialStep, RefreshStep, LoadStoreStep, SaveStoreStep, DeleteAllStep, LoadConfigStep, SaveConfigStep
     DEF AuJobStep

(* The parts of the invariant, one after another, over such a step.                   *)
LEMMA StepParts ==
  ASSUME CrTyped, JobsShaped, NEW j \in auPlan, Stepped(j)
  PROVE  /\ Turned(j) /\ TokensGrown /\ FileTurned(j) /\ CopyTurned(j) /\ ConfigTurned(j)
         /\ DeviceTurned(j)
         /\ Known(auJob[j].cred)' /\ JobShaped(j)' /\ auPlan' = auPlan /\ auPlan \in AuPlans
         /\ \A k \in auPlan : k # j => auJob'[k] = auJob[k]
  BY DEF Stepped, Turned, CrTyped
LEMMA WrittenKnown ==
  ASSUME CrTyped, JobsShaped, NEW j \in auPlan, auJob[j].pc = "save"
  PROVE  /\ Written(j) \in Stores /\ \A p \in Providers : Known(Written(j)[p])
         /\ \A p \in Providers : p # Entry(j) => Written(j)[p] = auJob[j].store[p]
         /\ Entry(j) \in Providers => Written(j)[Entry(j)] = IF j.does = "logout" THEN NoCred ELSE auJob[j].cred
<1>1. JobShaped(j) /\ Known(auJob[j].cred) /\ auSerial \in Nat
  BY JobParts
<1>2. auJob[j].store \in Stores /\ \A p \in Providers : Known(auJob[j].store[p])
  BY <1>1 DEF JobShaped
<1>3. Known(NoCred)
  BY <1>1, NoCredKnown
<1>4. \A p \in Providers : Written(j)[p] = IF p # Entry(j) THEN auJob[j].store[p]
                                           ELSE IF j.does = "logout" THEN NoCred ELSE auJob[j].cred
  BY DEF Written
<1>5. \A p \in Providers : Known(Written(j)[p])
  BY <1>1, <1>2, <1>3, <1>4
<1>6. Written(j) \in Stores
  <2>1. \A p \in Providers : Written(j)[p] \in CredRecords
    BY <1>5 DEF Known
  <2> QED
    BY <2>1 DEF Written, Stores
<1> QED
  BY <1>4, <1>5, <1>6
LEMMA FileKnown ==
  ASSUME CrTyped, JobsShaped, NEW j \in auPlan, FileTurned(j)
  PROVE  auFile' \in Stores /\ \A p \in Providers : Known(auFile'[p])
<1>1. auFile \in Stores /\ (\A p \in Providers : Known(auFile[p])) /\ auSerial \in Nat
  BY DEF CrTyped
<1>2. Known(NoCred) /\ NoCred \in CredRecords
  BY <1>1, NoCredKnown DEF Known
<1>3. CASE auFile' = auFile
  BY <1>1, <1>3
<1>4. CASE auJob[j].pc = "save" /\ auFile' = Written(j)
  BY <1>4, WrittenKnown
<1>5. CASE auFile' = [p \in Providers |-> NoCred]
  BY <1>2, <1>5 DEF Stores
<1> QED
  BY <1>3, <1>4, <1>5 DEF FileTurned

LEMMA AppendKeeps ==
  ASSUME NEW s \in Seq(Nat), NEW x \in Nat, NEW m \in DOMAIN s
  PROVE  m \in DOMAIN Append(s, x) /\ Append(s, x)[m] = s[m] /\ m < Len(s) + 1
<1>1. m \in 1 .. Len(s) /\ Len(s) \in Nat
  OBVIOUS
<1> QED
  BY <1>1
LEMMA AppendIn == ASSUME NEW s \in Seq(Nat), NEW x \in Nat PROVE Append(s, x) \in Seq(Nat)
  OBVIOUS
LEMMA TypedStep == ASSUME CrTyped, JobsShaped, NEW j \in auPlan, Stepped(j) PROVE CrTyped'
<1>1. /\ Turned(j) /\ TokensGrown /\ FileTurned(j) /\ ConfigTurned(j) /\ DeviceTurned(j)
      /\ auPlan' = auPlan
      /\ auPlan \in AuPlans /\ Known(auJob[j].cred)' /\ auSerial \in Nat
  BY StepParts, JobParts
<1>2. (auPlan \in AuPlans)' /\ auRotates' \in BOOLEAN /\ auJob' \in [auPlan' -> JobStates]
  BY <1>1 DEF Turned, CrTyped
<1>3. auFile' \in Stores /\ \A p \in Providers : Known(auFile'[p])
  BY <1>1, FileKnown
<1>4. (\A p \in Providers : Known(auFile[p]))'
  BY <1>1, <1>3, KnownGrows DEF Known
<1>5. auConfig' \in Configs
  <2>1. auConfig \in Configs /\ JobShaped(j)
    BY JobParts DEF CrTyped
  <2>2. CASE auConfig' = auConfig
    BY <2>1, <2>2
  <2>3. CASE auJob[j].pc = "saveconfig" /\ auConfig' = NewConfig(j)
    <3>1. auJob[j].config \in Configs
      BY <2>1, <2>3 DEF JobShaped
    <3>2. NewConfig(j) \in Configs
      BY <3>1 DEF NewConfig, Configs, Method
    <3> QED
      BY <2>3, <3>2
  <2> QED
    BY <1>1, <2>2, <2>3 DEF ConfigTurned
<1>6. (\A k \in auPlan : Known(auJob[k].cred))'
  <2> SUFFICES ASSUME NEW k \in auPlan PROVE Known(auJob[k].cred)'
    BY <1>1
  <2>1. CASE k = j
    BY <1>1, <2>1
  <2>2. CASE k # j
    <3>1. auJob'[k] = auJob[k] /\ Known(auJob[k].cred)
      BY <1>1, <2>2, JobParts DEF Turned
    <3> QED
      BY <1>1, <3>1, KnownGrows DEF Known
  <2> QED
    BY <2>1, <2>2
<1>7. auStarted' \in Seq(Nat)
  <2>1. auStarted \in Seq(Nat) /\ j.id \in Nat
    BY <1>1, PlanKnown DEF CrTyped
  <2>2. auStarted' = auStarted \/ auStarted' = Append(auStarted, j.id)
    BY <1>1 DEF Turned
  <2> QED
    BY <2>1, <2>2, AppendIn
<1>8. auDone' \subseteq {k.id : k \in auPlan'}
  BY <1>1 DEF DeviceTurned, CrTyped
<1> QED
  BY <1>1, <1>2, <1>3, <1>4, <1>5, <1>6, <1>7, <1>8 DEF CrTyped, TokensGrown, Turned

LEMMA ShapedStep == ASSUME CrTyped, JobsShaped, NEW j \in auPlan, Stepped(j) PROVE JobsShaped'
<1>1. TokensGrown /\ JobShaped(j)' /\ auPlan' = auPlan /\ auSerial \in Nat
  BY StepParts, JobParts
<1> SUFFICES ASSUME NEW k \in auPlan PROVE JobShaped(k)'
  BY <1>1 DEF JobsShaped
<1>2. CASE k = j
  BY <1>1, <1>2
<1>3. CASE k # j
  <2>1. auJob'[k] = auJob[k] /\ JobShaped(k)
    BY <1>3, StepParts, JobParts
  <2>2. ASSUME auJob[k].pc = "save"
        PROVE  (auJob[k].store \in Stores /\ \A p \in Providers : Known(auJob[k].store[p]))'
    BY <1>1, <2>1, <2>2, KnownGrows DEF JobShaped, Known
  <2> QED
    BY <2>1, <2>2 DEF JobShaped, Holding
<1> QED
  BY <1>2, <1>3

(* Who runs beside whom: the facts about two jobs that the other parts need.          *)
LEMMA Monotone ==
  ASSUME CrTyped, JobsShaped, NEW j \in auPlan, Stepped(j)
  PROVE  /\ auOver \subseteq auOver' /\ Active' \subseteq Active \cup {j}
         /\ \A i \in auPlan : Overlapped(i) => Overlapped(i)'
         /\ \A i, k \in auPlan : Follows(k, i) => Follows(k, i)'
         /\ \A i \in auPlan : Later(i) \subseteq Later(i)'
         /\ \A i \in auPlan : Began(i) => Began(i)'
<1>1. Turned(j) /\ auPlan' = auPlan /\ \A k \in auPlan : k # j => auJob'[k] = auJob[k]
  BY StepParts
<1>2. auOver \subseteq auOver'
  BY <1>1 DEF Turned
<1>3. Active' \subseteq Active \cup {j}
  BY <1>1 DEF Active
<1>4. \A k \in auPlan : Writes(k) => Writes(k)'
  BY <1>1 DEF Writes, Turned
<1>5. \A i \in auPlan : Overlapped(i) => Overlapped(i)'
  BY <1>1, <1>2, <1>4 DEF Overlapped
<1>6. \A m \in DOMAIN auStarted : m \in DOMAIN auStarted' /\ auStarted'[m] = auStarted[m]
  <2>1. auStarted \in Seq(Nat) /\ j.id \in Nat
    BY <1>1, PlanKnown DEF CrTyped
  <2>2. auStarted' = auStarted \/ auStarted' = Append(auStarted, j.id)
    BY <1>1 DEF Turned
  <2> QED
    BY <2>1, <2>2, AppendKeeps
<1>7. \A i, k \in auPlan : Follows(k, i) => Follows(k, i)'
  BY <1>6 DEF Follows
<1>8. \A i \in auPlan : Later(i) = {k \in auPlan : Follows(k, i)} /\ Later(i)' = {k \in auPlan' : Follows(k, i)'}
  BY DEF Later, Follows
<1>9. \A i \in auPlan : Later(i) \subseteq Later(i)'
  BY <1>1, <1>7, <1>8
<1>10. \A i \in auPlan : Began(i) => Began(i)'
  BY <1>6 DEF Began
<1> QED
  BY <1>2, <1>3, <1>5, <1>7, <1>9, <1>10

LEMMA MeetingsStep == ASSUME CrTyped, JobsShaped, Meetings, NEW j \in auPlan, Stepped(j) PROVE Meetings'
<1>1. /\ Turned(j) /\ auPlan' = auPlan /\ (\A k \in auPlan : k # j => auJob'[k] = auJob[k])
      /\ auStarted \in Seq(Nat) /\ j.id \in Nat /\ auPlan \in AuPlans
  BY StepParts, PlanKnown DEF CrTyped
<1>2. /\ auOver \subseteq auOver' /\ Active' \subseteq Active \cup {j} /\ Active \subseteq auPlan
      /\ \A i, k \in auPlan : Follows(k, i) => Follows(k, i)'
  BY Monotone DEF Active
<1>3. \A k \in Active : k # j => {k.id, j.id} \in auOver'
  BY <1>1, <1>2 DEF Turned, Meetings, Active
<1>4. (\A i, k \in Active : i # k => {i.id, k.id} \in auOver)'
  <2> SUFFICES ASSUME NEW i \in Active', NEW k \in Active', i # k PROVE {i.id, k.id} \in auOver'
    OBVIOUS
  <2>1. {i.id, k.id} = {k.id, i.id}
    OBVIOUS
  <2> QED
    BY <1>2, <1>3, <2>1 DEF Meetings
<1>5. auJob[j].pc = "new" => Len(auStarted) + 1 \in DOMAIN auStarted' /\ auStarted'[Len(auStarted) + 1] = j.id
  BY <1>1 DEF Turned
<1>6. (\A i \in auPlan : auJob[i].pc # "new" => Began(i))'
  <2> SUFFICES ASSUME NEW i \in auPlan, auJob'[i].pc # "new" PROVE Began(i)'
    BY <1>1
  <2>1. CASE auJob[i].pc # "new"
    BY <2>1, Monotone DEF Meetings
  <2>2. CASE auJob[i].pc = "new"
    <3>1. i = j
      BY <1>1, <2>2
    <3> QED
      BY <1>5, <2>2, <3>1 DEF Began
  <2> QED
    BY <2>1, <2>2
<1>7. (\A i \in auPlan, k \in Active : auJob[i].pc = "ended" => {i.id, k.id} \in auOver \/ Follows(k, i))'
  <2> SUFFICES ASSUME NEW i \in auPlan, NEW k \in Active', auJob'[i].pc = "ended"
               PROVE  {i.id, k.id} \in auOver' \/ Follows(k, i)'
    BY <1>1
  <2>1. {i.id, k.id} = {k.id, i.id}
    OBVIOUS
  <2>2. CASE i = j
    <3>1. k # j
      BY <2>2 DEF Active
    <3> QED
      BY <1>2, <1>3, <2>1, <2>2, <3>1
  <2>3. CASE i # j /\ k \in Active
    BY <1>1, <1>2, <2>3 DEF Meetings
  <2>4. CASE i # j /\ k \notin Active
    <3>1. k = j /\ auJob[j].pc = "new" /\ auJob[i].pc = "ended"
      BY <1>1, <1>2, <2>4 DEF Active, Turned
    <3>2. PICK m \in DOMAIN auStarted : auStarted[m] = i.id
      BY <3>1 DEF Meetings, Began
    <3>3. m \in DOMAIN auStarted' /\ auStarted'[m] = i.id /\ m < Len(auStarted) + 1
      <4>1. auStarted' = Append(auStarted, j.id)
        BY <1>1, <3>1 DEF Turned
      <4> QED
        BY <1>1, <3>2, <4>1, AppendKeeps
    <3> QED
      BY <1>5, <3>1, <3>3 DEF Follows
  <2> QED
    BY <2>2, <2>3, <2>4
<1> QED
  BY <1>4, <1>6, <1>7 DEF Meetings

(* Two jobs of which one is under way have met, or the one began after the other.     *)
Meets(i) == \A k \in Active : k # i /\ auJob[i].pc # "new" => Overlapped(i) \/ k \in Later(i)
MeetsAll == \A i \in auPlan : Meets(i)
LEMMA MeetsHolds == JobsShaped /\ Meetings => MeetsAll
<1> SUFFICES ASSUME JobsShaped, Meetings, NEW i \in auPlan, NEW k \in Active, k # i, auJob[i].pc # "new"
             PROVE  Overlapped(i) \/ k \in Later(i)
  BY DEF MeetsAll, Meets
<1>1. k \in auPlan /\ Writes(k)
  BY DEF Active, Writes, JobsShaped, JobShaped
<1>2. CASE auJob[i].pc # "ended"
  BY <1>1, <1>2 DEF Meetings, Overlapped, Active
<1>3. CASE auJob[i].pc = "ended"
  BY <1>1, <1>3 DEF Meetings, Overlapped, Follows, Later
<1> QED
  BY <1>2, <1>3
LEMMA MeetsAfter == ASSUME JobsShaped', Meetings' PROVE MeetsAll'
<1>1. (JobsShaped /\ Meetings)' => MeetsAll'
  BY MeetsHolds, PTL
<1> QED
  BY <1>1
LEMMA MeetsStep ==
  ASSUME CrTyped, JobsShaped, Meetings, NEW j \in auPlan, Stepped(j)
  PROVE  /\ \A i \in auPlan : Meets(i)
         /\ \A i \in auPlan, k \in Active' : k # i /\ auJob'[i].pc # "new" => Overlapped(i)' \/ k \in Later(i)'
<1>1. JobsShaped' /\ Meetings' /\ auPlan' = auPlan
  BY ShapedStep, MeetingsStep, StepParts
<1>2. MeetsAll /\ MeetsAll'
  BY <1>1, MeetsHolds, MeetsAfter
<1> QED
  BY <1>1, <1>2 DEF MeetsAll, Meets

LEMMA LoginsStep ==
  ASSUME CrTyped, JobsShaped, Meetings, LoginsKept, NEW j \in auPlan, Stepped(j)
  PROVE  LoginsKept'
<1>1. /\ Turned(j) /\ FileTurned(j) /\ CopyTurned(j) /\ auPlan' = auPlan /\ auPlan \in AuPlans
      /\ (\A k \in auPlan : k # j => auJob'[k] = auJob[k]) /\ JobShaped(j)
  BY StepParts, JobParts
<1>2. /\ Active' \subseteq Active \cup {j} /\ Active \subseteq auPlan
      /\ \A i \in auPlan : LoginExcused(i) => LoginExcused(i)'
  BY <1>1, Monotone DEF Active, LoginExcused
<1> SUFFICES ASSUME NEW i \in auPlan, LoggedIn(i)', ~LoginExcused(i)'
             PROVE  /\ auFile'[Entry(i)].login = i.id
                    /\ \A k \in Active' : k # i =>
                          /\ auJob'[k].pc = "save" => auJob'[k].store[Entry(i)].login = i.id
                          /\ Uses(k) /\ auJob'[k].pc \in {"refresh", "project", "load", "save"} /\ Entry(k) = Entry(i) =>
                                auJob'[k].cred.login = i.id
  BY <1>1 DEF LoginsKept, Holding
<1>3. i.does = "login" /\ Entry(i) \in Providers /\ ~LoginExcused(i) /\ auJob'[i].pc # "new"
  BY <1>1, <1>2, PlanKnown, ShapedStep DEF LoggedIn, JobsShaped, JobShaped, Configured
<1>4. CASE i = j
  <2>1. \A k \in Active : k # i => auJob'[k] = auJob[k]
    BY <1>1, <1>2, <1>4
  <2>2. CASE LoggedIn(i)
    <3>1. auJob[i].pc \in Configured
      BY <1>1, <1>4, <2>2 DEF LoggedIn, JobShaped, Turned
    <3>2. auFile' = auFile
      BY <1>1, <1>4, <3>1 DEF FileTurned, Configured
    <3> QED
      BY <1>2, <1>3, <1>4, <2>1, <2>2, <3>2 DEF LoginsKept, Holding
  <2>3. CASE ~LoggedIn(i)
    <3>1. auJob[j].pc = "save" /\ auFile' = Written(j)
      BY <1>1, <1>3, <1>4, <2>3 DEF FileTurned, LoggedIn, Uses
    <3>2. auFile'[Entry(i)].login = i.id
      BY <1>1, <1>3, <1>4, <3>1, WrittenKnown DEF JobShaped
    <3>3. j \in Active
      BY <3>1 DEF Active
    <3>4. \A k \in Active : k = i
      <4> SUFFICES ASSUME NEW k \in Active, k # i PROVE FALSE
        OBVIOUS
      <4>1. {i.id, k.id} \in auOver /\ Writes(k)
        BY <1>2, <1>4, <3>3 DEF Meetings, Writes, Active, JobsShaped, JobShaped
      <4> QED
        BY <1>2, <1>3, <4>1 DEF LoginExcused, Overlapped
    <3> QED
      BY <1>2, <1>4, <3>2, <3>4
  <2> QED
    BY <2>2, <2>3
<1>5. CASE i # j
  <2>1. auJob'[i] = auJob[i] /\ LoggedIn(i)
    BY <1>1, <1>5 DEF LoggedIn
  <2>2. /\ auFile[Entry(i)].login = i.id
        /\ \A k \in Active : k # i =>
              /\ auJob[k].pc = "save" => auJob[k].store[Entry(i)].login = i.id
              /\ Uses(k) /\ Holding(k) /\ Entry(k) = Entry(i) => auJob[k].cred.login = i.id
    BY <1>3, <2>1 DEF LoginsKept
  <2>3. auFile'[Entry(i)].login = i.id
    <3>1. CASE auFile' = auFile
      BY <2>2, <3>1
    <3>2. CASE auJob[j].pc = "save" /\ auFile' = Written(j)
      <4>1. j \in Active
        BY <3>2 DEF Active
      <4>2. CASE Entry(j) # Entry(i)
        BY <1>3, <1>5, <2>2, <3>2, <4>1, <4>2, WrittenKnown
      <4>3. CASE Entry(j) = Entry(i) /\ Uses(j)
        <5>1. auJob[j].cred.login = i.id
          BY <1>5, <2>2, <3>2, <4>1, <4>3 DEF Holding
        <5>2. auFile'[Entry(i)] = auJob[j].cred
          BY <1>3, <3>2, <4>3, WrittenKnown DEF Uses
        <5> QED
          BY <5>1, <5>2
      <4>4. CASE Entry(j) = Entry(i) /\ ~Uses(j)
        <5>1. j \in Later(i) /\ j.does # "use"
          BY <1>3, <1>5, <2>1, <4>1, <4>4, MeetsStep DEF Meets, LoginExcused, Uses
        <5> QED
          BY <1>3, <4>4, <5>1 DEF LoginExcused
      <4> QED
        BY <4>2, <4>3, <4>4
    <3>3. CASE auJob[j].pc = "new" /\ j.does = "logout_all" /\ auJob'[j].pc = "config"
      <4>1. j \in Active'
        BY <1>1, <3>3 DEF Active
      <4>2. Overlapped(i)' \/ j \in Later(i)'
        BY <1>3, <1>5, <4>1, MeetsStep
      <4> QED
        BY <3>3, <4>2 DEF LoginExcused
    <3> QED
      BY <1>1, <3>1, <3>2, <3>3 DEF FileTurned
  <2>4. ASSUME NEW k \in Active', k # i
        PROVE  /\ auJob'[k].pc = "save" => auJob'[k].store[Entry(i)].login = i.id
               /\ Uses(k) /\ auJob'[k].pc \in {"refresh", "project", "load", "save"} /\ Entry(k) = Entry(i) =>
                     auJob'[k].cred.login = i.id
    <3>1. CASE k # j
      BY <1>1, <1>2, <2>2, <2>4, <3>1 DEF Holding
    <3>2. CASE k = j
      <4>1. auJob'[j].pc = "save" => auJob'[j].store[Entry(i)].login = i.id
        BY <1>1, <2>2 DEF CopyTurned
      <4>2. ASSUME Uses(j), auJob'[j].pc \in {"refresh", "project", "load", "save"}, Entry(j) = Entry(i)
            PROVE  auJob'[j].cred.login = i.id
        <5>1. CASE auJob'[j].cred = auFile[Entry(j)]
          BY <2>2, <4>2, <5>1
        <5>2. CASE Holding(j) /\ auJob'[j].cred.login = auJob[j].cred.login
          <6>1. j \in Active
            BY <5>2 DEF Holding, Active
          <6> QED
            BY <1>5, <2>2, <4>2, <5>2, <6>1
        <5> QED
          BY <1>1, <4>2, <5>1, <5>2 DEF CopyTurned
      <4> QED
        BY <3>2, <4>1, <4>2
    <3> QED
      BY <3>1, <3>2
  <2> QED
    BY <2>3, <2>4
<1> QED
  BY <1>4, <1>5

LEMMA LogoutsStep ==
  ASSUME CrTyped, JobsShaped, Meetings, LogoutsKept, NEW j \in auPlan, Stepped(j)
  PROVE  LogoutsKept'
<1>1. /\ Turned(j) /\ FileTurned(j) /\ CopyTurned(j) /\ auPlan' = auPlan /\ auPlan \in AuPlans
      /\ (\A k \in auPlan : k # j => auJob'[k] = auJob[k]) /\ JobShaped(j) /\ JobShaped(j)'
  BY StepParts, JobParts
<1>2. /\ Active' \subseteq Active \cup {j} /\ Active \subseteq auPlan
      /\ \A i \in auPlan, p \in Providers : LogoutExcused(i, p) => LogoutExcused(i, p)'
  BY <1>1, Monotone DEF Active, LogoutExcused
<1> SUFFICES ASSUME NEW i \in auPlan, NEW p \in Providers, LoggedOut(i, p)', ~LogoutExcused(i, p)'
             PROVE  /\ auFile'[p] = NoCred
                    /\ \A k \in Active' : k # i =>
                          /\ auJob'[k].pc = "save" => auJob'[k].store[p] = NoCred
                          /\ Uses(k) => Entry(k) # p
  BY <1>1 DEF LogoutsKept
<1>3. /\ i.does \in {"logout", "logout_all"} /\ ~LogoutExcused(i, p) /\ auJob'[i].pc # "new"
      /\ i.does = "logout" => p = Entry(i)
  BY <1>1, <1>2, ShapedStep DEF LoggedOut, JobsShaped, JobShaped, Configured
<1>4. CASE i = j
  <2>1. \A k \in Active : k # i => auJob'[k] = auJob[k]
    BY <1>1, <1>2, <1>4
  <2>2. CASE LoggedOut(i, p)
    <3>1. auJob[i].pc \in Configured
      BY <1>1, <1>4, <2>2 DEF LoggedOut, JobShaped, Turned
    <3>2. auFile' = auFile
      BY <1>1, <1>4, <3>1 DEF FileTurned, Configured
    <3> QED
      BY <1>2, <1>3, <1>4, <2>1, <2>2, <3>2 DEF LogoutsKept
  <2>3. CASE ~LoggedOut(i, p)
    <3>1. \/ auJob[j].pc = "save" /\ auFile' = Written(j) /\ j.does = "logout"
          \/ auJob'[j].pc = "config" /\ auFile' = [q \in Providers |-> NoCred]
      BY <1>1, <1>3, <1>4, <2>3 DEF FileTurned, LoggedOut, Uses, JobShaped, Places, Configured
    <3>2. auFile'[p] = NoCred
      BY <1>3, <1>4, <3>1, WrittenKnown
    <3>3. j \in Active \/ j \in Active'
      BY <1>1, <3>1 DEF Active
    <3>4. \A k \in Active' : k = i
      <4> SUFFICES ASSUME NEW k \in Active', k # i PROVE FALSE
        OBVIOUS
      <4>1. k \in Active /\ k \in auPlan /\ k.id \in Nat
        BY <1>1, <1>2, <1>4, PlanKnown
      <4>2. {i.id, k.id} \in auOver'
        BY <1>2, <1>4, <3>3, <4>1, MeetingsStep, Monotone DEF Meetings
      <4>3. Writes(k)'
        BY <1>1, <1>4, <4>1 DEF Writes, Active, JobsShaped, JobShaped
      <4> QED
        BY <1>1, <4>1, <4>2, <4>3 DEF LogoutExcused, Overlapped
    <3> QED
      BY <3>2, <3>4
  <2> QED
    BY <2>2, <2>3
<1>5. CASE i # j
  <2>1. auJob'[i] = auJob[i] /\ LoggedOut(i, p)
    BY <1>1, <1>5 DEF LoggedOut
  <2>2. /\ auFile[p] = NoCred
        /\ \A k \in Active : k # i =>
              /\ auJob[k].pc = "save" => auJob[k].store[p] = NoCred
              /\ Uses(k) => Entry(k) # p
    BY <1>3, <2>1 DEF LogoutsKept
  <2>3. auFile'[p] = NoCred
    <3>1. CASE auFile' = auFile
      BY <2>2, <3>1
    <3>2. CASE auJob[j].pc = "save" /\ auFile' = Written(j)
      <4>1. j \in Active
        BY <3>2 DEF Active
      <4>2. CASE Entry(j) # p
        BY <1>5, <2>2, <3>2, <4>1, <4>2, WrittenKnown
      <4>3. CASE Entry(j) = p /\ j.does = "logout"
        BY <3>2, <4>3, WrittenKnown
      <4>4. CASE Entry(j) = p /\ j.does # "logout"
        <5>1. j.does = "login"
          BY <1>1, <1>5, <2>2, <3>2, <4>1, <4>4, PlanKnown DEF Uses, JobShaped, Places, Configured
        <5>2. j \in Later(i)
          BY <1>3, <1>5, <2>1, <4>1, MeetsStep DEF Meets, LogoutExcused
        <5> QED
          BY <1>3, <4>4, <5>1, <5>2 DEF LogoutExcused
      <4> QED
        BY <4>2, <4>3, <4>4
    <3>3. CASE auFile' = [q \in Providers |-> NoCred]
      BY <3>3
    <3> QED
      BY <1>1, <3>1, <3>2, <3>3 DEF FileTurned
  <2>4. ASSUME NEW k \in Active', k # i
        PROVE  /\ auJob'[k].pc = "save" => auJob'[k].store[p] = NoCred
               /\ Uses(k) => Entry(k) # p
    <3>1. CASE k # j
      BY <1>1, <1>2, <2>2, <2>4, <3>1
    <3>2. CASE k = j
      <4>1. auJob'[j].pc = "save" => auJob'[j].store[p] = NoCred
        BY <1>1, <2>2 DEF CopyTurned
      <4>2. ASSUME Uses(j)
            PROVE  Entry(j) # p
        <5>1. CASE j \in Active
          BY <1>5, <2>2, <4>2, <5>1
        <5>2. CASE j \notin Active
          <6>1. auJob[j].pc = "new"
            BY <1>1, <5>2 DEF Active, Turned
          <6>2. auJob'[j].pc \in {"refresh", "project", "load", "save"}
            BY <1>1, <2>4, <3>2, <4>2 DEF Active, JobShaped, Places, Uses
          <6> QED
            BY <1>1, <2>2, <4>2, <6>1, <6>2 DEF CopyTurned, Holding
        <5> QED
          BY <5>1, <5>2
      <4> QED
        BY <3>2, <4>1, <4>2
    <3> QED
      BY <3>1, <3>2
  <2> QED
    BY <2>3, <2>4
<1> QED
  BY <1>4, <1>5

LEMMA OwnStep ==
  ASSUME CrTyped, JobsShaped, Meetings, OwnKept, NEW j \in auPlan, Stepped(j)
  PROVE  OwnKept'
<1>1. /\ Turned(j) /\ FileTurned(j) /\ CopyTurned(j) /\ auPlan' = auPlan /\ auPlan \in AuPlans
      /\ (\A k \in auPlan : k # j => auJob'[k] = auJob[k]) /\ JobShaped(j)
  BY StepParts, JobParts
<1>2. /\ Active \subseteq auPlan /\ \A i \in auPlan : Overlapped(i) => Overlapped(i)'
  BY Monotone DEF Active
<1> SUFFICES ASSUME NEW i \in auPlan, Uses(i), auJob'[i].pc \in {"refresh", "project", "load", "save"},
                    ~Overlapped(i)'
             PROVE  /\ auJob'[i].cred.login = auFile'[Entry(i)].login
                    /\ auFile'[Entry(i)].project => auJob'[i].cred.project
  BY <1>1 DEF OwnKept, Holding
<1>3. Entry(i) \in Providers /\ i.does # "logout" /\ i.does # "logout_all"
  BY <1>1, PlanKnown DEF Uses
<1>4. CASE i = j
  <2>1. CASE auJob'[j].cred = auFile[Entry(j)] /\ auFile' = auFile
    BY <1>4, <2>1
  <2>2. CASE /\ Holding(j) /\ auJob'[j].cred.login = auJob[j].cred.login
             /\ auJob[j].cred.project => auJob'[j].cred.project
    <3>1. /\ auJob[j].cred.login = auFile[Entry(j)].login
          /\ auFile[Entry(j)].project => auJob[j].cred.project
      BY <1>2, <1>4, <2>2 DEF OwnKept
    <3>2. CASE auFile' = auFile
      BY <1>4, <2>2, <3>1, <3>2
    <3>3. CASE auJob[j].pc = "save" /\ auFile' = Written(j)
      <4>1. auFile'[Entry(j)] = auJob[j].cred
        BY <1>3, <1>4, <3>3, WrittenKnown
      <4> QED
        BY <1>4, <2>2, <4>1
    <3> QED
      BY <1>1, <1>3, <1>4, <3>2, <3>3 DEF FileTurned
  <2> QED
    BY <1>1, <1>4, <2>1, <2>2 DEF CopyTurned
<1>5. CASE i # j
  <2>1. auJob'[i] = auJob[i] /\ i \in Active /\ i \in Active' /\ Holding(i)
    BY <1>1, <1>5 DEF Active, Holding
  <2>2. auFile' = auFile
    <3>1. SUFFICES ASSUME auFile' # auFile PROVE FALSE
      OBVIOUS
    <3>2. j \in Active \/ j \in Active'
      BY <1>1, <3>1 DEF FileTurned, Active
    <3>3. {i.id, j.id} \in auOver'
      BY <1>5, <2>1, <3>2, MeetingsStep, Monotone DEF Meetings
    <3>4. Writes(j)'
      <4>1. JobShaped(j)'
        BY StepParts
      <4>2. auJob'[j].pc = "config" => auJob'[j].said = "nothing"
        BY <4>1 DEF JobShaped
      <4> QED
        BY <1>1, <3>1, <4>2 DEF Writes, FileTurned, Turned
    <3> QED
      BY <1>1, <1>5, <3>3, <3>4 DEF Overlapped
  <2> QED
    BY <1>2, <2>1, <2>2 DEF OwnKept
<1> QED
  BY <1>4, <1>5

(* While nothing has failed and no jobs have met, one job is under way at most.       *)
LEMMA QuietStep ==
  ASSUME CrTyped, JobsShaped, Meetings, NEW j \in auPlan, Stepped(j), Quiet'
  PROVE  /\ Quiet /\ TokensTurned(j) /\ auFails' = 0 /\ \A i \in auPlan : ~Overlapped(i)
         /\ \A k \in Active : k = j
         /\ \A k \in Active' : k = j
<1>1. Turned(j) /\ auPlan \in AuPlans /\ auOver \subseteq auOver' /\ Active' \subseteq Active \cup {j}
      /\ Active \subseteq auPlan /\ auFails' = 0 /\ auOver' = {}
  BY StepParts, Monotone DEF Quiet, Active
<1>2. Quiet /\ TokensTurned(j)
  BY <1>1 DEF Quiet, Turned, Stepped
<1>3. \A i \in auPlan : ~Overlapped(i)
  BY <1>2 DEF Overlapped, Quiet
<1>4. \A k \in Active : k = j
  <2> SUFFICES ASSUME NEW k \in Active, k # j PROVE FALSE
    OBVIOUS
  <2>1. CASE j \in Active
    BY <1>2, <2>1 DEF Meetings, Quiet
  <2>2. CASE j \notin Active
    <3>1. auJob[j].pc = "new"
      BY <1>1, <2>2 DEF Turned, Active
    <3>2. auOver' = auOver \cup {{i.id, j.id} : i \in Active}
      BY <1>1, <3>1 DEF Turned
    <3>3. {k.id, j.id} \in auOver'
      BY <3>2
    <3> QED
      BY <1>1, <3>3
  <2> QED
    BY <2>1, <2>2
<1> QED
  BY <1>1, <1>2, <1>3, <1>4

LEMMA TokensStep ==
  ASSUME CrTyped, JobsShaped, Meetings, TokensKept, NEW j \in auPlan, Stepped(j)
  PROVE  TokensKept'
<1> SUFFICES ASSUME Quiet' PROVE TokensKept'
  BY DEF TokensKept
<1> DEFINE Renewing(p) == Uses(j) /\ auJob[j].pc \in {"load", "save"} /\ Entry(j) = p
           cred == auJob[j].cred
           Carries(c) == c.pc \in {"project", "load", "save"} /\ j.does # "logout"
<1>1. /\ Turned(j) /\ FileTurned(j) /\ CopyTurned(j) /\ TokensTurned(j) /\ auPlan' = auPlan
      /\ auPlan \in AuPlans
      /\ JobShaped(j) /\ auSerial \in Nat /\ auFails' = 0 /\ Quiet
      /\ (\A k \in Active : k = j) /\ (\A k \in Active' : k = j)
  BY StepParts, JobParts, QuietStep
<1>2. /\ \A p \in Providers : Usable(auFile[p].refresh) \/ (j \in Active /\ Renewing(p))
      /\ \A p, q \in Providers : p # q /\ auFile[p].refresh = auFile[q].refresh => auFile[p].refresh = 0
  BY <1>1 DEF TokensKept
<1>3. j \in Active =>
         /\ Carries(auJob[j]) =>
               /\ Usable(cred.refresh)
               /\ \A q \in Providers : q # Entry(j) /\ cred.refresh = auFile[q].refresh => auFile[q].refresh = 0
         /\ auJob[j].pc = "refresh" => cred = auFile[Entry(j)]
         /\ auJob[j].pc = "save" => auJob[j].store = auFile
  BY <1>1 DEF TokensKept
<1>4. /\ \A p \in Providers : auFile[p].refresh \in Nat /\ auFile[p].refresh <= auSerial
      /\ auValid \subseteq 1 .. auSerial
  BY DEF CrTyped, Known, CredRecords
<1> SUFFICES /\ \A p \in Providers :
                   \/ auFile'[p].refresh \in auValid' \cup {0}
                   \/ Uses(j) /\ auJob'[j].pc \in {"load", "save"} /\ Entry(j) = p
             /\ \A p, q \in Providers : p # q /\ auFile'[p].refresh = auFile'[q].refresh => auFile'[p].refresh = 0
             /\ Carries(auJob'[j]) =>
                   /\ auJob'[j].cred.refresh \in auValid' \cup {0}
                   /\ \A q \in Providers :
                         q # Entry(j) /\ auJob'[j].cred.refresh = auFile'[q].refresh => auFile'[q].refresh = 0
             /\ auJob'[j].pc = "refresh" => auJob'[j].cred = auFile'[Entry(j)]
             /\ auJob'[j].pc = "save" => auJob'[j].store = auFile'
  <2>1. auJob'[j].pc \in {"load", "save"} => j \in Active'
    BY <1>1 DEF Active
  <2> QED
    BY <1>1, <2>1 DEF TokensKept, Usable
<1>5. auJob'[j].pc = "save" => auJob'[j].store = auFile' /\ auFile' = auFile
  BY <1>1 DEF CopyTurned
<1>6. auJob'[j].pc = "refresh" => auJob[j].pc = "new" /\ auJob'[j].cred = auFile[Entry(j)]
  BY <1>1 DEF TokensTurned
<1>7. auJob'[j].pc = "refresh" => auFile' = auFile
  BY <1>1, <1>6, ShapedStep DEF FileTurned, JobsShaped
<1>8. auJob[j].pc = "new" \/ j \in Active
  BY <1>1 DEF Turned, Active
<1>9. CASE /\ auValid' = auValid /\ auSerial' = auSerial
           /\ InHand(auJob'[j].pc) /\ j.does # "logout" =>
                 \/ InHand(auJob[j].pc) /\ auJob'[j].cred.refresh = auJob[j].cred.refresh
                 \/ auJob[j].pc = "new" /\ Uses(j) /\ auJob'[j].cred = auFile[Entry(j)]
                 \/ auJob[j].pc = "new" /\ j.does = "login" /\ auJob'[j].cred.refresh = 0
  <2>1. ASSUME Carries(auJob'[j])
        PROVE  /\ auJob'[j].cred.refresh \in auValid \cup {0}
               /\ \A q \in Providers :
                     q # Entry(j) /\ auJob'[j].cred.refresh = auFile[q].refresh => auFile[q].refresh = 0
    <3>1. CASE InHand(auJob[j].pc) /\ auJob'[j].cred.refresh = auJob[j].cred.refresh
      BY <1>3, <1>8, <2>1, <3>1 DEF InHand, Usable
    <3>2. CASE auJob[j].pc = "new" /\ Uses(j) /\ auJob'[j].cred = auFile[Entry(j)]
      <4>1. Entry(j) \in Providers
        BY <1>1, <3>2, PlanKnown DEF Uses
      <4> QED
        BY <1>2, <3>2, <4>1 DEF Usable
    <3>3. CASE auJob'[j].cred.refresh = 0
      BY <3>3
    <3> QED
      BY <1>9, <2>1, <3>1, <3>2, <3>3 DEF InHand
  <2>2. CASE auJob[j].pc # "save" /\ auFile' = auFile
    <3>1. \A p \in Providers : \/ auFile[p].refresh \in auValid \cup {0}
                               \/ Uses(j) /\ auJob'[j].pc = "save" /\ Entry(j) = p
      BY <1>1, <1>2, <2>2 DEF TokensTurned, Usable
    <3> QED
      BY <1>2, <1>5, <1>6, <1>9, <2>1, <2>2, <3>1
  <2>3. CASE auJob[j].pc = "save"
    <3>1. auFile' = Written(j) /\ j \in Active /\ auJob[j].store = auFile
      BY <1>1, <1>3, <1>8, <2>3 DEF TokensTurned
    <3>2. auJob'[j].pc # "save" /\ auJob'[j].pc # "refresh"
      BY <1>1, <2>3 DEF CopyTurned, TokensTurned
    <3>3. \A p \in Providers : p # Entry(j) => auFile'[p] = auFile[p]
      BY <2>3, <3>1, WrittenKnown
    <3>4. Entry(j) \in Providers => auFile'[Entry(j)].refresh = IF j.does = "logout" THEN 0 ELSE cred.refresh
      BY <1>1, <2>3, <3>1, WrittenKnown, NoCredKnown
    <3>5. \A p \in Providers : auFile'[p].refresh \in auValid \cup {0}
      BY <1>2, <1>3, <2>3, <3>1, <3>3, <3>4 DEF Usable
    <3>6. \A p, q \in Providers : p # q /\ auFile'[p].refresh = auFile'[q].refresh => auFile'[p].refresh = 0
      BY <1>2, <1>3, <2>3, <3>1, <3>3, <3>4
    <3> QED
      BY <1>9, <2>1, <3>2, <3>3, <3>5, <3>6
  <2>4. CASE auFile' = [p \in Providers |-> NoCred] /\ auJob'[j].pc = "config"
    <3>1. \A p \in Providers : auFile'[p].refresh = 0
      BY <1>1, <2>4, NoCredKnown
    <3> QED
      BY <2>4, <3>1
  <2> QED
    BY <1>1, <2>2, <2>3, <2>4 DEF FileTurned
<1>10. CASE /\ auJob[j].pc = "user" /\ auFile' = auFile /\ InHand(auJob'[j].pc)
            /\ auValid' = auValid \cup {auSerial + 1}
            /\ auJob'[j].cred.refresh \in {0, auSerial + 1}
  <2>1. \A p \in Providers : auFile[p].refresh \in auValid \cup {0} /\ auFile[p].refresh # auSerial + 1
    BY <1>1, <1>2, <1>4, <1>10 DEF Usable
  <2> QED
    BY <1>2, <1>5, <1>6, <1>10, <2>1 DEF InHand
<1>11. CASE /\ auJob[j].pc = "refresh" /\ auFile' = auFile /\ auJob'[j].pc = "load"
            /\ auValid' = auValid /\ auJob[j].cred.refresh \in auValid
            /\ auJob'[j].cred.refresh = auJob[j].cred.refresh
  <2>1. Uses(j) /\ Entry(j) \in Providers /\ cred = auFile[Entry(j)]
    BY <1>1, <1>3, <1>8, <1>11, PlanKnown DEF JobShaped, Places, Uses, Configured
  <2> QED
    BY <1>2, <1>11, <2>1 DEF Usable
<1>12. CASE /\ auJob[j].pc = "refresh" /\ auFile' = auFile /\ auJob'[j].pc = "load"
            /\ auValid' = (auValid \ {auJob[j].cred.refresh}) \cup {auSerial + 1}
            /\ auJob'[j].cred.refresh = auSerial + 1
  <2>1. Uses(j) /\ Entry(j) \in Providers /\ cred = auFile[Entry(j)] /\ cred.refresh # 0
    BY <1>1, <1>3, <1>8, <1>12, PlanKnown DEF JobShaped, Places, Uses, Configured
  <2>2. \A p \in Providers : p # Entry(j) =>
            auFile[p].refresh \in auValid \cup {0} /\ auFile[p].refresh # cred.refresh
    BY <1>2, <2>1 DEF Usable
  <2>3. \A p \in Providers : auFile[p].refresh # auSerial + 1
    BY <1>1, <1>4
  <2> QED
    BY <1>2, <1>12, <2>1, <2>2, <2>3
<1> QED
  BY <1>1, <1>9, <1>10, <1>11, <1>12 DEF TokensTurned

LEMMA MethodsStep ==
  ASSUME CrTyped, JobsShaped, Meetings, OwnKept, MethodsKept, NEW j \in auPlan, Stepped(j)
  PROVE  MethodsKept'
<1> SUFFICES ASSUME Quiet', NoAlias' PROVE MethodsKept'
  BY DEF MethodsKept
<1> DEFINE InScope(p) == j.does = "logout_all" \/ p = MethodEntry(j)
<1>1. /\ Turned(j) /\ FileTurned(j) /\ CopyTurned(j) /\ ConfigTurned(j) /\ auPlan' = auPlan
      /\ auPlan \in AuPlans
      /\ JobShaped(j) /\ JobShaped(j)' /\ auFails' = 0 /\ Quiet /\ NoAlias /\ ~Overlapped(j)
      /\ (\A k \in Active : k = j) /\ (\A k \in Active' : k = j)
  BY StepParts, JobParts, QuietStep DEF NoAlias
<1>2. \A p \in Providers : auConfig[p] = MethodOf(p) \/ (auJob[j].pc \in Configured /\ InScope(p))
  BY <1>1 DEF MethodsKept
<1>3. j \in Active =>
         /\ auJob[j].pc \in Configured =>
               \A p \in Providers : InScope(p) => (auFile[p] = NoCred <=> j.does # "login")
         /\ auJob[j].pc = "saveconfig" => auJob[j].config = auConfig
         /\ auJob[j].pc = "save" => auJob[j].store = auFile
  BY <1>1 DEF MethodsKept
<1> SUFFICES /\ \A p \in Providers :
                   \/ auConfig'[p] = IF auFile'[p] = NoCred THEN "" ELSE Method(p)
                   \/ auJob'[j].pc \in Configured /\ InScope(p)
             /\ auJob'[j].pc \in Configured =>
                   \A p \in Providers : InScope(p) => (auFile'[p] = NoCred <=> j.does # "login")
             /\ auJob'[j].pc = "saveconfig" => auJob'[j].config = auConfig'
             /\ auJob'[j].pc = "save" => auJob'[j].store = auFile'
  <2>1. auJob'[j].pc \in Configured => j \in Active'
    BY <1>1 DEF Active, Configured
  <2> QED
    BY <1>1, <2>1 DEF MethodsKept, MethodOf
<1>4. auJob'[j].pc = "save" => auJob'[j].store = auFile'
  BY <1>1 DEF CopyTurned
<1>5. auJob'[j].pc = "saveconfig" => auJob'[j].config = auConfig'
  BY <1>1 DEF ConfigTurned
<1>6. CASE auJob[j].pc \in Configured
  <2>1. j \in Active /\ auFile' = auFile
    BY <1>1, <1>6 DEF Active, FileTurned, Configured
  <2>2. CASE auJob[j].pc = "config"
    <3>1. auJob'[j].pc = "saveconfig" /\ auConfig' = auConfig
      BY <1>1, <2>2 DEF ConfigTurned
    <3> QED
      BY <1>2, <1>3, <1>4, <1>5, <1>6, <2>1, <3>1 DEF Configured, MethodOf
  <2>3. CASE auJob[j].pc = "saveconfig"
    <3>1. auConfig' = NewConfig(j) /\ auJob'[j].pc = "ended" /\ auJob[j].config = auConfig
      BY <1>1, <1>3, <2>1, <2>3 DEF ConfigTurned
    <3>2. \A p \in Providers : auConfig'[p] = IF ~InScope(p) THEN auConfig[p]
                                              ELSE IF j.does = "login" THEN Method(p) ELSE ""
      BY <3>1 DEF NewConfig
    <3>3. \A p \in Providers : auConfig'[p] = IF auFile[p] = NoCred THEN "" ELSE Method(p)
      BY <1>2, <1>3, <1>6, <2>1, <3>2 DEF MethodOf
    <3> QED
      BY <2>1, <3>1, <3>3 DEF Configured
  <2> QED
    BY <1>6, <2>2, <2>3 DEF Configured
<1>7. CASE auJob[j].pc \notin Configured
  <2>1. auConfig' = auConfig /\ \A p \in Providers : auConfig[p] = MethodOf(p)
    BY <1>1, <1>2, <1>7 DEF ConfigTurned, Configured
  <2>2. CASE auJob'[j].pc \notin Configured /\ auFile' = auFile
    BY <1>4, <2>1, <2>2 DEF Configured, MethodOf
  <2>3. CASE auJob[j].pc = "save" /\ auFile' = Written(j) /\ Uses(j)
    <3>1. Entry(j) \in Providers /\ j.does # "logout" /\ auJob'[j].pc \notin Configured /\ j \in Active
      BY <1>1, <2>3, PlanKnown DEF Uses, JobShaped, Places, Configured, Active
    <3>2. auJob[j].cred.login # 0 /\ auJob[j].cred.login = auFile[Entry(j)].login
      BY <1>1, <2>3 DEF JobShaped, Holding, OwnKept
    <3>3. auJob[j].cred # NoCred /\ auFile[Entry(j)] # NoCred
      <4>1. NoCred.login = 0
        BY DEF NoCred, Credential
      <4> QED
        BY <3>2, <4>1
    <3>4. \A p \in Providers : auFile'[p] = NoCred <=> auFile[p] = NoCred
      BY <1>3, <2>3, <3>1, <3>3, WrittenKnown
    <3> QED
      BY <1>4, <2>1, <3>1, <3>4 DEF Configured, MethodOf
  <2>4. CASE auJob[j].pc = "save" /\ auFile' = Written(j) /\ auJob'[j].pc = "config" /\ ~Uses(j)
    <3>1. j \in Active /\ j.does \in {"login", "logout"}
      BY <1>1, <2>4, PlanKnown DEF JobShaped, Places, Configured, Active, Uses
    <3>2. Entry(j) = MethodEntry(j) /\ Entry(j) \in Providers
      BY <1>1, <3>1, PlanKnown DEF NoAlias
    <3>3. \A p \in Providers : p # Entry(j) => auFile'[p] = auFile[p]
      BY <1>3, <2>4, <3>1, WrittenKnown
    <3>4. auFile'[Entry(j)] = IF j.does = "logout" THEN NoCred ELSE auJob[j].cred
      BY <2>4, <3>2, WrittenKnown
    <3>5. j.does = "login" => auJob[j].cred # NoCred
      <4>1. j.does = "login" => auJob[j].cred.login # 0
        BY <1>1, <2>4, PlanKnown DEF JobShaped
      <4>2. NoCred.login = 0
        BY DEF NoCred, Credential
      <4> QED
        BY <4>1, <4>2
    <3> QED
      BY <2>1, <2>4, <3>1, <3>2, <3>3, <3>4, <3>5 DEF Configured, MethodOf
  <2>5. CASE auFile' = [p \in Providers |-> NoCred] /\ j.does = "logout_all" /\ auJob'[j].pc = "config"
    BY <2>5 DEF Configured
  <2> QED
    BY <1>1, <1>7, <2>2, <2>3, <2>4, <2>5 DEF FileTurned, JobShaped, Places, Uses, Configured
<1> QED
  BY <1>6, <1>7

LEMMA DevicesStep ==
  ASSUME CrTyped, JobsShaped, DevicesKept, NEW j \in auPlan, Stepped(j)
  PROVE  DevicesKept'
<1>1. /\ Turned(j) /\ DeviceTurned(j) /\ auPlan' = auPlan /\ auPlan \in AuPlans
      /\ (\A k \in auPlan : k # j => auJob'[k] = auJob[k]) /\ JobShaped(j) /\ JobShaped(j)'
  BY StepParts, JobParts
<1>2. /\ Active' \subseteq Active \cup {j} /\ Active \subseteq auPlan /\ Polled \subseteq auPlan
      /\ Requesting \subseteq auPlan /\ auAsked \subseteq auAsked' /\ auShown' = auShown
  BY <1>1, Monotone DEF Active, Polled, Requesting, DeviceTurned
<1>3. /\ \A i \in auPlan : Replaced(i) => Replaced(i)'
      /\ \A n : OtherDevice(n) => OtherDevice(n)'
  BY <1>1, <1>2 DEF Replaced, OtherDevice, Turned
<1>4. /\ \A i \in Polled' : i # j => i \in Polled
      /\ \A i \in Requesting' : i # j => i \in Requesting
  BY <1>1, <1>2 DEF Polled, Requesting, Active
<1>5. \A i \in Polled : i.id # 0 /\ i.id \notin auDone
  BY <1>1, PlanKnown DEF DevicesKept, Polled, Active
<1>6. auJob[j].pc = "request" => Device(j) /\ j \in Requesting
  BY <1>1 DEF JobShaped, Requesting, Active
<1>7. /\ auDevice' = auDevice
      \/ (auDevice' = j.id /\ auJob[j].pc = "request" /\ auJob'[j].pc = "user")
  BY <1>1 DEF DeviceTurned
<1>8. j \in Polled' => (j \in Polled /\ auJob[j].pc # "request") \/ (auJob[j].pc = "request" /\ auDevice' = j.id)
  <2>1. j \in Polled' => Device(j) /\ auJob'[j].pc \in Doing \ {"request"}
    BY <1>1 DEF Polled, Active, JobShaped, Places, Configured, Doing, Device
  <2>2. Device(j) /\ auJob[j].pc \in Doing \ {"request"} => j \in Polled
    BY DEF Polled, Active, Doing
  <2> QED
    BY <1>1, <2>1, <2>2 DEF DeviceTurned, Doing
<1>9. (\A i, k \in Requesting : i # k => {i.id, k.id} \in auAsked)'
  <2> SUFFICES ASSUME NEW i \in Requesting', NEW k \in Requesting', i # k PROVE {i.id, k.id} \in auAsked'
    OBVIOUS
  <2>1. {i.id, k.id} = {k.id, i.id}
    OBVIOUS
  <2>2. j \in Requesting' => \A m \in Requesting : {m.id, j.id} \in auAsked'
    BY <1>1 DEF DeviceTurned, Requesting
  <2> QED
    BY <1>2, <1>4, <2>1, <2>2 DEF DevicesKept
<1>10. (\A i \in Polled : auDevice = i.id \/ Replaced(i))'
  <2> SUFFICES ASSUME NEW i \in Polled' PROVE auDevice' = i.id \/ Replaced(i)'
    OBVIOUS
  <2>1. CASE i = j
    BY <1>2, <1>3, <1>7, <1>8, <2>1 DEF DevicesKept
  <2>2. CASE i # j
    BY <1>2, <1>3, <1>4, <1>6, <1>7, <2>2 DEF DevicesKept
  <2> QED
    BY <2>1, <2>2
<1>11. (\A i \in Polled, k \in Requesting : Replaced(i))'
  <2> SUFFICES ASSUME NEW i \in Polled', NEW k \in Requesting' PROVE Replaced(i)'
    OBVIOUS
  <2>1. i # k
    BY DEF Polled, Requesting
  <2>2. CASE i # j /\ k # j
    BY <1>2, <1>3, <1>4, <2>2 DEF DevicesKept
  <2>3. CASE i = j
    <3>1. k \in Requesting /\ k \in auPlan /\ Device(k)
      BY <1>2, <1>4, <2>1, <2>3 DEF Requesting
    <3>2. CASE j \in Polled
      BY <1>2, <1>3, <2>3, <3>1, <3>2 DEF DevicesKept
    <3>3. CASE auJob[j].pc = "request"
      <4>1. {j.id, k.id} \in auAsked
        BY <1>6, <2>1, <2>3, <3>1, <3>3 DEF DevicesKept
      <4>2. Replaced(j)
        BY <2>1, <2>3, <3>1, <4>1 DEF Replaced
      <4> QED
        BY <1>3, <2>3, <4>2
    <3> QED
      BY <1>8, <2>3, <3>2, <3>3
  <2>4. CASE k = j /\ i # j
    <3>1. i \in Polled /\ i \in auPlan
      BY <1>2, <1>4, <2>4
    <3>2. ~Pending
      BY <1>1, <2>4 DEF DeviceTurned, Requesting
    <3>3. auDevice # i.id
      BY <1>5, <3>1, <3>2 DEF Pending
    <3> QED
      BY <1>3, <3>1, <3>3 DEF DevicesKept
  <2> QED
    BY <2>2, <2>3, <2>4
<1>12. \A n : (auDevice' # auDevice /\ n # j.id) => OtherDevice(n)'
  <2>1. auDevice' # auDevice => auJob'[j].said = "nothing" /\ auJob'[j].pc = "user" /\ Device(j)
    BY <1>1, <1>6, <1>7 DEF JobShaped
  <2> QED
    BY <1>1, <2>1 DEF OtherDevice
<1>13. (\A i \in Polled : auDevice = i.id \/ OtherDevice(i.id))'
  <2> SUFFICES ASSUME NEW i \in Polled' PROVE auDevice' = i.id \/ OtherDevice(i.id)'
    OBVIOUS
  <2>1. CASE i = j
    BY <1>3, <1>7, <1>8, <2>1 DEF DevicesKept
  <2>2. CASE i # j
    <3>1. i \in Polled /\ i.id # j.id
      BY <1>1, <1>2, <1>4, <2>2, PlanKnown
    <3> QED
      BY <1>3, <1>12, <3>1 DEF DevicesKept
  <2> QED
    BY <2>1, <2>2
<1>14. (\A n \in auDone : auDevice = n \/ n \in auShown \/ OtherDevice(n))'
  <2> SUFFICES ASSUME NEW n \in auDone' PROVE auDevice' = n \/ n \in auShown' \/ OtherDevice(n)'
    OBVIOUS
  <2>1. CASE n \in auDone
    BY <1>2, <1>3, <1>7, <1>12, <2>1 DEF DevicesKept
  <2>2. CASE n \notin auDone
    <3>1. n = j.id /\ j \in Polled /\ auJob[j].pc # "request"
      BY <1>1, <2>2 DEF DeviceTurned, Polled, Active, Doing
    <3> QED
      BY <1>3, <1>7, <3>1 DEF DevicesKept
  <2> QED
    BY <2>1, <2>2
<1>15. (\A k \in auPlan : k.id \in auDone => auJob[k].pc = "ended")'
  <2> SUFFICES ASSUME NEW k \in auPlan, k.id \in auDone' PROVE auJob'[k].pc = "ended"
    BY <1>1
  <2>1. CASE k.id \in auDone
    <3>1. auJob[k].pc = "ended"
      BY <2>1 DEF DevicesKept
    <3> QED
      BY <1>1, <3>1 DEF Turned
  <2>2. CASE k.id \notin auDone
    <3>1. k.id = j.id /\ auJob'[j].pc = "ended"
      BY <1>1, <2>2 DEF DeviceTurned
    <3> QED
      BY <1>1, <3>1, PlanKnown
  <2> QED
    BY <2>1, <2>2
<1> QED
  BY <1>9, <1>10, <1>11, <1>13, <1>14, <1>15 DEF DevicesKept

LEMMA JobStepKeeps == ASSUME AuInv, NEW j \in auPlan, AuJobStep(j) PROVE AuInv'
<1>1. /\ CrTyped /\ JobsShaped /\ Meetings /\ LoginsKept /\ LogoutsKept /\ OwnKept /\ TokensKept
      /\ MethodsKept
      /\ DevicesKept
  BY DEF AuInv
<1>2. Stepped(j)
  BY <1>1, JobSteps
<1>3. CrTyped' /\ JobsShaped' /\ Meetings' /\ DevicesKept'
  BY <1>1, <1>2, TypedStep, ShapedStep, MeetingsStep, DevicesStep
<1>4. LoginsKept' /\ LogoutsKept' /\ OwnKept' /\ TokensKept' /\ MethodsKept'
  BY <1>1, <1>2, LoginsStep, LogoutsStep, OwnStep, TokensStep, MethodsStep
<1> QED
  BY <1>3, <1>4 DEF AuInv

(* The steps that are no job's leave the jobs and the files as they are.              *)
Still == /\ UNCHANGED <<auPlan, auRotates, auFile, auConfig, auJob, auSerial, auValid, auDone, auStarted,
                        auOver, auFails>>
         /\ DOMAIN auAge' = DOMAIN auAge
LEMMA StillKeeps ==
  ASSUME CrTyped, JobsShaped, Meetings, LoginsKept, LogoutsKept, OwnKept, TokensKept, MethodsKept, Still
  PROVE  /\ CrTyped' /\ JobsShaped' /\ Meetings' /\ LoginsKept' /\ LogoutsKept' /\ OwnKept'
         /\ TokensKept' /\ MethodsKept'
         /\ Active' = Active
<1>1. CrTyped'
  BY DEF Still, CrTyped, Known
<1>2. JobsShaped'
  BY DEF Still, JobsShaped, JobShaped, Holding, Known
<1>3. Active' = Active
  BY DEF Still, Active
<1>4. Meetings'
  BY <1>3 DEF Still, Meetings, Began, Follows
<1>5. \A i \in auPlan : (Overlapped(i)' <=> Overlapped(i)) /\ Later(i)' = Later(i)
  BY DEF Still, Overlapped, Writes, Later
<1>6. LoginsKept'
  BY <1>3, <1>5 DEF Still, LoginsKept, LoggedIn, LoginExcused, Holding
<1>7. LogoutsKept'
  BY <1>3, <1>5 DEF Still, LogoutsKept, LoggedOut, LogoutExcused
<1>8. OwnKept'
  BY <1>5 DEF Still, OwnKept, Holding
<1>9. TokensKept'
  BY <1>3 DEF Still, TokensKept, Quiet, Usable
<1>10. MethodsKept'
  BY <1>3 DEF Still, MethodsKept, Quiet, NoAlias, MethodOf
<1> QED
  BY <1>1, <1>2, <1>3, <1>4, <1>6, <1>7, <1>8, <1>9, <1>10

LEMMA OtherStepKeeps ==
  ASSUME AuInv, Status \/ (\E n \in 1 .. auSerial : TimePasses(n)) \/ UNCHANGED auVars
  PROVE  AuInv'
<1>1. /\ CrTyped /\ JobsShaped /\ Meetings /\ LoginsKept /\ LogoutsKept /\ OwnKept /\ TokensKept
      /\ MethodsKept
      /\ DevicesKept
  BY DEF AuInv
<1>2. Still
  BY DEF Status, TimePasses, auVars, auFixed, auTokens, auSessions, Still
<1>3. /\ CrTyped' /\ JobsShaped' /\ Meetings' /\ LoginsKept' /\ LogoutsKept' /\ OwnKept'
      /\ TokensKept' /\ MethodsKept'
      /\ Active' = Active
  BY <1>1, <1>2, StillKeeps
<1>4. /\ auPlan' = auPlan /\ auJob' = auJob /\ auDone' = auDone /\ auAsked' = auAsked
      /\ \/ auDevice' = auDevice /\ auShown' = auShown
         \/ auDevice \in auDone /\ auShown' = auShown \cup {auDevice}
  BY DEF Status, TimePasses, auVars, auFixed, auTokens, auSessions
<1>5. /\ Polled' = Polled /\ Requesting' = Requesting /\ Polled \subseteq auPlan
      /\ \A i \in auPlan : Replaced(i)' <=> Replaced(i)
      /\ \A n : OtherDevice(n)' <=> OtherDevice(n)
  BY <1>3, <1>4 DEF Polled, Requesting, Replaced, OtherDevice, Active
<1>6. \A i \in Polled : i.id \notin auDone
  BY <1>1 DEF DevicesKept, Polled, Active
<1>7. DevicesKept'
  BY <1>1, <1>4, <1>5, <1>6 DEF DevicesKept
<1> QED
  BY <1>3, <1>7 DEF AuInv

LEMMA AuInvStart == AuInit => AuInv
<1> SUFFICES ASSUME AuInit PROVE AuInv
  OBVIOUS
<1> DEFINE start == [pc |-> "new", cred |-> NoCred, store |-> <<>>, config |-> <<>>, lenient |-> FALSE,
                     said |-> "nothing"]
<1>1. /\ auPlan \in AuPlans /\ auRotates \in BOOLEAN /\ auJob = [j \in auPlan |-> start]
      /\ auSerial = 2 /\ auValid = {1, 2} /\ auAge = [n \in 1 .. 2 |-> 0]
      /\ auDevice = 0 /\ auDone = {} /\ auStarted = <<>> /\ auOver = {} /\ auAsked = {}
      /\ auFails = 0
  BY DEF AuInit
<1>2. PICK before \in BOOLEAN, project \in BOOLEAN :
         /\ auFile = [p \in Providers |->
                        IF ~before THEN NoCred
                        ELSE Credential(1, FirstToken(p), FirstToken(p), project /\ FirstToken(p) = 2)]
         /\ auConfig = [p \in Providers |-> IF before THEN Method(p) ELSE ""]
  BY DEF AuInit
<1>3. /\ FirstToken("openai") = 1 /\ FirstToken("google-antigravity") = 2 /\ FirstToken("anthropic") = 0
      /\ \A p \in Providers : /\ p \in {"openai", "google-antigravity", "anthropic"}
                              /\ FirstToken(p) \in {0, 1, 2}
  BY DEF Providers, FirstToken
<1>4. Known(NoCred) /\ NoCred \in CredRecords /\ NoCred.login = 0 /\ NoCred.refresh = 0
  BY <1>1, NoCredKnown DEF Known
<1>5. \A p \in Providers : /\ Known(auFile[p]) /\ auFile[p].refresh \in {0, FirstToken(p)}
                           /\ auConfig[p] = MethodOf(p)
  <2> SUFFICES ASSUME NEW p \in Providers
               PROVE  Known(auFile[p]) /\ auFile[p].refresh \in {0, FirstToken(p)} /\ auConfig[p] = MethodOf(p)
    OBVIOUS
  <2>1. CASE before
    <3> DEFINE c == Credential(1, FirstToken(p), FirstToken(p), project /\ FirstToken(p) = 2)
    <3>1. auFile[p] = c /\ auConfig[p] = Method(p)
      BY <1>2, <2>1
    <3>2. c.login = 1 /\ c.token = FirstToken(p) /\ c.refresh = FirstToken(p) /\ c \in CredRecords
      BY <1>3 DEF Credential, CredRecords
    <3> HIDE DEF c
    <3>3. c # NoCred /\ FirstToken(p) <= 2
      BY <1>3, <1>4, <3>2
    <3> QED
      BY <1>1, <3>1, <3>2, <3>3 DEF Known, MethodOf
  <2>2. CASE ~before
    BY <1>2, <1>4, <2>2 DEF MethodOf
  <2> QED
    BY <2>1, <2>2
<1>6. start \in JobStates /\ start.cred = NoCred
  <2>1. start = Is("new", NoCred, <<>>, <<>>, FALSE, "nothing")
    BY DEF Is
  <2> QED
    BY <1>4, <2>1, StateMade DEF Moments, StoreCopies, ConfigCopies, Said
<1>7. \A j \in auPlan : auJob[j] = start
  BY <1>1
<1>8. CrTyped
  <2>1. auFile \in Stores
    BY <1>2, <1>5 DEF Stores, Known
  <2>2. auConfig \in Configs
    BY <1>2, <1>5 DEF Configs, MethodOf, Method
  <2>3. auJob \in [auPlan -> JobStates] /\ \A j \in auPlan : Known(auJob[j].cred)
    BY <1>1, <1>4, <1>6, <1>7
  <2>4. /\ auStarted \in Seq(Nat) /\ DOMAIN auAge = 1 .. auSerial /\ auSerial \in Nat
        /\ auValid \subseteq 1 .. auSerial
    BY <1>1
  <2> QED
    BY <1>1, <1>5, <2>1, <2>2, <2>3, <2>4 DEF CrTyped
<1>9. \A j \in auPlan : auJob[j].pc = "new" /\ auJob[j].said = "nothing" /\ auJob[j].lenient = FALSE
  BY <1>7
<1>10. JobsShaped /\ Active = {}
  BY <1>9 DEF JobsShaped, JobShaped, Holding, Active
<1>11. Meetings /\ LoginsKept /\ LogoutsKept /\ OwnKept
  BY <1>9, <1>10 DEF Meetings, LoginsKept, LoggedIn, LogoutsKept, LoggedOut, OwnKept, Holding,
     Configured
<1>12. TokensKept
  BY <1>1, <1>3, <1>5, <1>10 DEF TokensKept, Usable
<1>13. MethodsKept
  BY <1>5, <1>10 DEF MethodsKept
<1>14. DevicesKept
  BY <1>1, <1>10 DEF DevicesKept, Polled, Requesting
<1> QED
  BY <1>8, <1>10, <1>11, <1>12, <1>13, <1>14 DEF AuInv

LEMMA AuInvSafe == AuInv => CredentialsSafe
<1> SUFFICES ASSUME AuInv PROVE CredentialsSafe
  OBVIOUS
<1>1. /\ CrTyped /\ JobsShaped /\ LoginsKept /\ LogoutsKept /\ OwnKept /\ TokensKept /\ MethodsKept
      /\ DevicesKept
  BY DEF AuInv
<1>2. \A j \in auPlan : JobShaped(j) /\ auJob[j].said \in Said
  BY <1>1, JobParts, StateParts DEF JobsShaped
<1>3. AuTypeOK
  BY <1>1, <1>2 DEF AuTypeOK, CrTyped, Known, Configs, Said
<1>4. LoginStands
  BY <1>1 DEF LoginStands, LoginsKept, LoggedIn, LoginExcused
<1>5. LogoutStands
  BY <1>1 DEF LogoutStands, LogoutsKept, LoggedOut, LogoutExcused
<1>6. TokenUsable
  BY <1>1 DEF TokenUsable, TokensKept, Quiet, Usable, CrTyped
<1>7. ProjectKept
  BY <1>1 DEF ProjectKept, OwnKept, Uses, Holding
<1>8. MethodsAgree
  BY <1>1 DEF MethodsAgree, MethodsKept, Quiet, NoAlias, MethodOf
<1>9. OneDeviceLogin
  <2>1. \A i, j \in Polled : i.id = j.id => i = j
    BY <1>1, PlanKnown DEF CrTyped, Polled, Active
  <2> QED
    BY <1>1, <2>1 DEF OneDeviceLogin, DevicesKept, OtherDevice
<1> QED
  BY <1>3, <1>4, <1>5, <1>6, <1>7, <1>8, <1>9 DEF CredentialsSafe

(* However many logins, logouts, refreshes and lists of models meet, fail or go on at *)
(* the same time: a login that was reported stays stored and a logout stays a logout, *)
(* a refreshed credential is its login's and keeps the project, the refresh token on  *)
(* file is one the provider takes, the methods in config.json agree with the          *)
(* credentials, and no device login is lost from sight, but for what CredentialsSafe  *)
(* names as the ways they are lost (pkg/auth/store.go, pkg/auth/oauth.go, the         *)
(* commands of cmd/ottoclaw/internal/auth and the launcher's handlers).               *)
THEOREM CredentialsStay == AuSpec => []CredentialsSafe
<1>1. AuInit => AuInv
  BY AuInvStart
<1>2. AuInv /\ [AuNext]_auVars => AuInv'
  BY JobStepKeeps, OtherStepKeeps DEF AuNext
<1>3. AuInv => CredentialsSafe
  BY AuInvSafe
<1> QED
  BY <1>1, <1>2, <1>3, PTL DEF AuSpec
============================================================================
