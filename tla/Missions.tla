--------------------------------- MODULE Missions ---------------------------------
(* A worker's missions (pkg/agent/mission.go and the round that carries one out,      *)
(* loop.go), its updates (update_state.go) and the messages the master keeps for it   *)
(* (pkg/channels/siam).  The master holds a status for each mission and takes every   *)
(* report as it comes; reports are sent once, each from a goroutine of its own, and   *)
(* may be lost or overtake one another.  One goroutine polls for missions, when       *)
(* nudged by SIGUSR1, and sends the heartbeats.                                       *)
EXTENDS Naturals, Sequences, FiniteSets

CONSTANTS MsMissions,      \* the missions the master hands out
          MsMessages,      \* the messages the master queues for the worker; "reload" is SYSTEM_HOT_RELOAD
          MsCheckpoints,   \* bound: checkpoints a round sends
          MsFailures,      \* bound: requests that fail
          MsCrashes,       \* bound: crashes of the worker
          MsBeats          \* bound: heartbeats
ASSUME MsAssumption == IsFiniteSet(MsMissions) /\ IsFiniteSet(MsMessages)
                       /\ {MsCheckpoints, MsFailures, MsCrashes, MsBeats} \subseteq Nat

Final == {"completed", "failed"}
VARIABLES msStatus,     \* master: mission -> "absent", "pending", "in_progress", "running", "completed", "failed"
          msPc,         \* poller: "poll", "mark", "publish", "beat", "send", "wait"
          msBatch,      \* missions fetched and not injected yet
          msListening,  \* signal.Notify has been called
          msNudge,      \* a SIGUSR1 is in the channel
          msQueue,      \* missions published to the bus, oldest first
          msRound,      \* mission -> [on, checkpoints]: its round
          msReports,    \* reports on their way: [mission, status, after]
          msMailbox,    \* master: messages queued for the worker
          msFetched,    \* messages fetched and not handled yet
          msHandled,    \* history: messages handed to the bus
          msUpdate,     \* self-updates asked for that have not ended
          msUpStatus,   \* updateStatus: "idle", "failed"
          msSent,       \* the status the heartbeat read
          msFails,      \* requests that failed so far, crashes, heartbeats
          msHistory     \* history, see MsInit
msVars == <<msStatus, msPc, msBatch, msListening, msNudge, msQueue, msRound, msReports, msMailbox, msFetched,
            msHandled, msUpdate, msUpStatus, msSent, msFails, msHistory>>
msMissionVars == <<msStatus, msQueue, msRound, msReports>>
msPollVars == <<msPc, msBatch, msListening, msNudge>>
msMailVars == <<msMailbox, msFetched, msHandled>>
msUpdateVars == <<msUpdate, msUpStatus, msSent>>

(* A set in every order. *)
Orders(s) == {q \in [1..Cardinality(s) -> s] : \A i, j \in DOMAIN q : i # j => q[i] # q[j]}

NoRound == [on |-> FALSE, checkpoints |-> 0]
MsInit ==
    /\ msStatus \in [MsMissions -> {"absent", "pending"}]
    /\ msPc = "poll" /\ msBatch = <<>> /\ msListening = FALSE /\ msNudge = FALSE
    /\ msQueue = <<>> /\ msRound = [m \in MsMissions |-> NoRound] /\ msReports = {}
    /\ msMailbox \in UNION {Orders(s) : s \in SUBSET MsMessages}
    /\ msFetched = <<>> /\ msHandled = <<>> /\ msUpdate = 0 /\ msUpStatus = "idle" /\ msSent = "idle"
    /\ msFails = [requests |-> 0, crashes |-> 0, beats |-> 0]
    /\ msHistory = [runs |-> [m \in MsMissions |-> 0],     \* rounds begun
                    unmarked |-> {},    \* missions published although they were not marked in progress
                    unheard |-> {},     \* missions whose nudge came before the worker listened, or was not polled
                    lost |-> {},        \* missions whose round or report was lost
                    overtaken |-> {},   \* missions whose checkpoint arrived after their result
                    mail |-> msMailbox, \* the messages as the master queued them
                    cut |-> {},         \* messages fetched and lost
                    restarted |-> FALSE,
                    told |-> TRUE,      \* the master has been sent the failure of the last update
                    unseen |-> FALSE,   \* a failure was cleared that had never been sent
                    since |-> FALSE,    \* an update failed since the heartbeat read its status
                    window |-> FALSE,   \* that has happened
                    overlap |-> FALSE]  \* an update was asked for while another ran

---------------------------------------------------------------------------------
May(what) == msFails[what] < (CASE what = "requests" -> MsFailures [] what = "crashes" -> MsCrashes [] what = "beats" -> MsBeats)
Counts(what) == msFails' = [msFails EXCEPT ![what] = @ + 1]

(* The master creates a mission and nudges the worker.  A signal is kept only when    *)
(* the channel is registered, and the channel holds one.                              *)
Create(m) ==
    /\ msStatus[m] = "absent" /\ msStatus' = [msStatus EXCEPT ![m] = "pending"]
    /\ msNudge' = msListening
    /\ msHistory' = IF msListening THEN msHistory ELSE [msHistory EXCEPT !.unheard = @ \cup {m}]
    /\ UNCHANGED <<msPc, msBatch, msListening, msQueue, msRound, msReports, msMailVars, msUpdateVars, msFails>>

(* pollMissions: the pending missions, in any order the master likes; a poll that     *)
(* fails is not repeated.                                                             *)
AfterPoll == IF msListening THEN "wait" ELSE "beat"
Waiting == {m \in MsMissions : msStatus[m] = "pending"}
Poll ==
    /\ msPc = "poll" /\ msBatch' \in Orders(Waiting)
    /\ msPc' = IF Waiting = {} THEN AfterPoll ELSE "mark"
    /\ msHistory' = [msHistory EXCEPT !.unheard = @ \ Waiting]
    /\ UNCHANGED <<msMissionVars, msListening, msNudge, msMailVars, msUpdateVars, msFails>>
PollFails ==
    /\ msPc = "poll" /\ May("requests") /\ Counts("requests") /\ msPc' = AfterPoll
    /\ msHistory' = [msHistory EXCEPT !.unheard = @ \cup Waiting]
    /\ UNCHANGED <<msMissionVars, msBatch, msListening, msNudge, msMailVars, msUpdateVars>>

(* Fault: the mission is published before it is marked. *)
MarkLater ==
    /\ msPc = "mark" /\ msPc' = "publish" /\ UNCHANGED <<msStatus, msFails, msHistory>>
    /\ UNCHANGED <<msBatch, msListening, msNudge, msQueue, msRound, msReports, msMailVars, msUpdateVars>>

(* injectMission: the mission is marked in progress first, so that the master stops   *)
(* returning it; when that fails it is published all the same.                        *)
MarkInProgress ==
    /\ msPc = "mark" /\ msPc' = "publish"
    /\ \/ msStatus' = [msStatus EXCEPT ![Head(msBatch)] = "in_progress"] /\ UNCHANGED <<msFails, msHistory>>
       \/ /\ May("requests") /\ Counts("requests") /\ UNCHANGED msStatus
          /\ msHistory' = [msHistory EXCEPT !.unmarked = @ \cup {Head(msBatch)}]
    /\ UNCHANGED <<msBatch, msListening, msNudge, msQueue, msRound, msReports, msMailVars, msUpdateVars>>
Publish ==
    /\ msPc = "publish" /\ msBatch' = Tail(msBatch)
    /\ msPc' = IF Len(msBatch) = 1 THEN AfterPoll ELSE "mark"
    /\ \/ msQueue' = Append(msQueue, Head(msBatch)) /\ UNCHANGED <<msFails, msHistory>>
       \/ /\ May("requests") /\ Counts("requests") /\ UNCHANGED msQueue
          /\ msHistory' = [msHistory EXCEPT !.lost = @ \cup {Head(msBatch)}]
    /\ UNCHANGED <<msStatus, msRound, msReports, msListening, msNudge, msMailVars, msUpdateVars>>

(* reportHeartbeats: the update's status is read, sent, and cleared when the answer   *)
(* names no newer version; otherwise "ottoclaw update" is published, at every         *)
(* heartbeat until the version changes.  The first heartbeat comes before the signal  *)
(* is listened to.                                                                    *)
Beat == /\ msPc = "wait" /\ ~msNudge /\ May("beats") /\ Counts("beats") /\ msPc' = "beat"
        /\ UNCHANGED <<msMissionVars, msBatch, msListening, msNudge, msMailVars, msUpdateVars, msHistory>>
ReadStatus == /\ msPc = "beat" /\ msPc' = "send" /\ msSent' = msUpStatus
              /\ msHistory' = [msHistory EXCEPT !.since = FALSE]
              /\ UNCHANGED <<msMissionVars, msBatch, msListening, msNudge, msMailVars, msUpdate, msUpStatus, msFails>>
HasTold == msSent = "failed" /\ ~msHistory.since
SendBeat ==
    /\ msPc = "send" /\ msPc' = "wait" /\ msListening' = TRUE
    /\ \/ May("requests") /\ Counts("requests") /\ UNCHANGED <<msUpdate, msUpStatus, msHistory>>
       \/ /\ msUpdate' = msUpdate + 1 /\ UNCHANGED <<msUpStatus, msFails>>
          /\ msHistory' = [msHistory EXCEPT !.told = @ \/ HasTold, !.overlap = @ \/ msUpdate > 0]
       \/ /\ msUpStatus' = "idle" /\ UNCHANGED <<msUpdate, msFails>>
          /\ msHistory' = [msHistory EXCEPT !.told = TRUE, !.unseen = @ \/ ~(msHistory.told \/ HasTold)]
    /\ UNCHANGED <<msMissionVars, msBatch, msNudge, msMailVars, msSent>>
EndUpdate ==
    /\ msUpdate > 0 /\ msUpdate' = msUpdate - 1
    /\ \/ /\ msUpStatus' = "failed"
          /\ msHistory' = [msHistory EXCEPT !.told = FALSE, !.since = TRUE, !.window = @ \/ msPc = "send"]
       \/ msUpStatus' = "idle" /\ msHistory' = [msHistory EXCEPT !.told = TRUE, !.unseen = @ \/ ~msHistory.told]
    /\ UNCHANGED <<msMissionVars, msPollVars, msMailVars, msSent, msFails>>
Nudged == /\ msPc = "wait" /\ msNudge /\ msNudge' = FALSE /\ msPc' = "poll"
          /\ UNCHANGED <<msMissionVars, msBatch, msListening, msMailVars, msUpdateVars, msFails, msHistory>>

(* A round: processMessage does not skip a mission it has seen.  Each iteration sends *)
(* a checkpoint, the end sends the result.                                            *)
BeginRound ==
    /\ msQueue # <<>> /\ LET m == Head(msQueue) IN
        /\ ~msRound[m].on /\ msRound' = [msRound EXCEPT ![m] = [on |-> TRUE, checkpoints |-> 0]]
        /\ msHistory' = [msHistory EXCEPT !.runs = [msHistory.runs EXCEPT ![m] = msHistory.runs[m] + 1]]
    /\ msQueue' = Tail(msQueue)
    /\ UNCHANGED <<msStatus, msReports, msPollVars, msMailVars, msUpdateVars, msFails>>
ReportOf(m, status) == [mission |-> m, status |-> status, run |-> msHistory.runs[m], nr |-> msRound[m].checkpoints]
ReportCheckpoint(m) ==
    /\ msRound[m].on /\ msRound[m].checkpoints < MsCheckpoints
    /\ msReports' = msReports \cup {ReportOf(m, "running")}
    /\ msRound' = [msRound EXCEPT ![m].checkpoints = msRound[m].checkpoints + 1]
    /\ UNCHANGED <<msStatus, msQueue, msPollVars, msMailVars, msUpdateVars, msFails, msHistory>>
ReportResult(m) ==
    /\ msRound[m].on /\ msRound' = [msRound EXCEPT ![m] = NoRound]
    /\ \E status \in Final : msReports' = msReports \cup {ReportOf(m, status)}
    /\ UNCHANGED <<msStatus, msQueue, msPollVars, msMailVars, msUpdateVars, msFails, msHistory>>

(* A report arrives at the master, or is lost: nothing sends it again. *)
Arrives(r) ==
    /\ r \in msReports /\ msReports' = msReports \ {r} /\ msStatus' = [msStatus EXCEPT ![r.mission] = r.status]
    /\ msHistory' = IF msStatus[r.mission] \in Final /\ r.status \notin Final
                    THEN [msHistory EXCEPT !.overtaken = @ \cup {r.mission}] ELSE msHistory
    /\ UNCHANGED <<msQueue, msRound, msPollVars, msMailVars, msUpdateVars, msFails>>
GetsLost(r) ==
    /\ r \in msReports /\ May("requests") /\ Counts("requests") /\ msReports' = msReports \ {r}
    /\ msHistory' = IF r.status \in Final THEN [msHistory EXCEPT !.lost = @ \cup {r.mission}] ELSE msHistory
    /\ UNCHANGED <<msStatus, msQueue, msRound, msPollVars, msMailVars, msUpdateVars>>

(* fetchMessages: the answer to the request empties the master's queue; a message is  *)
(* handled after the other, and SYSTEM_HOT_RELOAD ends the process there and then.    *)
MailLost == {msFetched[k] : k \in DOMAIN msFetched} \ {"reload"}
FetchMessages ==
    /\ msFetched = <<>> /\ msMailbox # <<>> /\ msMailbox' = <<>>
    /\ \/ msFetched' = msMailbox /\ UNCHANGED <<msFails, msHistory>>
       \/ /\ May("requests") /\ Counts("requests") /\ UNCHANGED msFetched
          /\ msHistory' = [msHistory EXCEPT !.cut = @ \cup {msMailbox[k] : k \in DOMAIN msMailbox}]
    /\ UNCHANGED <<msMissionVars, msPollVars, msHandled, msUpdateVars>>
Handle ==
    /\ msFetched # <<>> /\ Head(msFetched) # "reload"
    /\ msFetched' = Tail(msFetched) /\ msHandled' = Append(msHandled, Head(msFetched))
    /\ UNCHANGED <<msMissionVars, msPollVars, msMailbox, msUpdateVars, msFails, msHistory>>

(* The process ends, by a reload or by a crash, and its supervisor starts it again.   *)
Carried == {msQueue[k] : k \in DOMAIN msQueue} \cup {m \in MsMissions : msRound[m].on}
               \cup {r.mission : r \in {q \in msReports : q.status \in Final}}
               \cup {msBatch[k] : k \in DOMAIN msBatch}
Restarts ==
    /\ msPc' = "poll" /\ msBatch' = <<>> /\ msListening' = FALSE /\ msNudge' = FALSE
    /\ msQueue' = <<>> /\ msRound' = [m \in MsMissions |-> NoRound] /\ msReports' = {} /\ msFetched' = <<>>
    /\ msUpdate' = 0 /\ msUpStatus' = "idle" /\ msSent' = "idle"
    /\ msHistory' = [msHistory EXCEPT !.lost = @ \cup Carried, !.cut = @ \cup MailLost, !.restarted = TRUE, !.told = TRUE,
                                      !.unseen = @ \/ ~msHistory.told, !.unheard = IF msNudge THEN @ \cup Waiting ELSE @]
    /\ UNCHANGED <<msStatus, msMailbox, msHandled>>
HotReload == msFetched # <<>> /\ Head(msFetched) = "reload" /\ Restarts /\ UNCHANGED msFails
Crash == May("crashes") /\ Counts("crashes") /\ Restarts

MsNext == \/ \E m \in MsMissions : Create(m) \/ ReportCheckpoint(m) \/ ReportResult(m)
          \/ Poll \/ PollFails \/ MarkInProgress \/ Publish \/ Beat \/ ReadStatus \/ SendBeat \/ EndUpdate \/ Nudged
          \/ BeginRound \/ FetchMessages \/ Handle \/ HotReload \/ Crash
          \/ \E r \in msReports : Arrives(r) \/ GetsLost(r)
MsSpec == MsInit /\ [][MsNext]_msVars

---------------------------------------------------------------------------------
MsTypeOK ==
    /\ msStatus \in [MsMissions -> {"absent", "pending", "in_progress", "running"} \cup Final]
    /\ msPc \in {"poll", "mark", "publish", "beat", "send", "wait"}
    /\ (msPc \in {"mark", "publish"}) = (msBatch # <<>>)
    /\ msListening \in BOOLEAN /\ (msNudge => msListening)
    /\ \A m \in MsMissions : msRound[m].checkpoints \in 0..MsCheckpoints
    /\ msUpdate \in 0..(MsBeats + MsCrashes + 3) /\ msUpStatus \in {"idle", "failed"} /\ msSent \in {"idle", "failed"}

(* A mission is carried out once, unless marking it in progress failed, which is what *)
(* keeps the master from handing it out again (injectMission, "the critical fix for   *)
(* the infinite re-poll loop").                                                       *)
OnceIfMarked == \A m \in MsMissions : msHistory.runs[m] > 1 => m \in msHistory.unmarked

(* When nothing about a mission is under way in the worker, the master has its final  *)
(* status, or something is on record that left it without one: a lost round or        *)
(* report, a checkpoint that arrived after the result, a nudge nobody heard.          *)
UnderWay(m) == \/ \E k \in DOMAIN msQueue : msQueue[k] = m
               \/ msRound[m].on \/ msPc = "poll" \/ msNudge \/ \E k \in DOMAIN msBatch : msBatch[k] = m
               \/ \E r \in msReports : r.mission = m
NoneForgotten ==
    \A m \in MsMissions : msStatus[m] \notin Final \cup {"absent"} /\ ~UnderWay(m) =>
        \/ m \in msHistory.lost \cup msHistory.overtaken \cup msHistory.unheard
        \/ m \in msHistory.unmarked /\ msHistory.runs[m] > 0

(* A failed update that no heartbeat reported had failed while a heartbeat was on its *)
(* way, had run beside another update, or was forgotten when the process ended        *)
(* (GetUpdateStatus, SetUpdateStatus, ClearUpdateStatus).                             *)
FailureSeen == msHistory.unseen => msHistory.window \/ msHistory.overlap \/ msHistory.restarted

In(x, s) == \E k \in DOMAIN s : s[k] = x
Before(x, y, s) == \E i, j \in DOMAIN s : i < j /\ s[i] = x /\ s[j] = y

(* Messages are handled once and in the order the master queued them, and one that    *)
(* is nowhere any more was lost with the answer that carried it, in a crash, or in a  *)
(* batch behind a reload (fetchMessages).                                             *)
MailKept ==
    /\ \A i, j \in DOMAIN msHandled : i < j => Before(msHandled[i], msHandled[j], msHistory.mail)
    /\ \A k \in DOMAIN msHistory.mail : LET x == msHistory.mail[k] IN
          \/ x = "reload" \/ In(x, msMailbox) \/ In(x, msFetched) \/ In(x, msHandled)
          \/ x \in msHistory.cut /\ (msFails.requests + msFails.crashes > 0 \/ Before("reload", x, msHistory.mail))

MissionsSafe == MsTypeOK /\ OnceIfMarked /\ NoneForgotten /\ FailureSeen /\ MailKept
===================================================================================
