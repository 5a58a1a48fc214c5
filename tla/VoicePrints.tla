-------------------------------- MODULE VoicePrints --------------------------------
(* Voice prints and voice messages of a node (siam-arm/main.go): the prints the       *)
(* master holds for all nodes, the local copies, the five minutes a copy of the whole *)
(* list counts as fresh, the enrolments that change both, and the capture of a voice  *)
(* message.  One name is modelled: whose print it is is the version.                  *)
EXTENDS Naturals, FiniteSets

CONSTANTS VpEnrolments,   \* SYSTEM_ENROLL_VOICE commands
          VpCaptures,     \* SYSTEM_TTS_CAPTURE commands
          VpSyncs         \* syncs: one at the start, and one for every LISTEN

(* Commands have ids of their own, which name no other print.                         *)
ASSUME VpAssumption ==
    /\ VpEnrolments \cap VpCaptures = {}
    /\ {"none", "auto", "other"} \cap (VpEnrolments \cup VpCaptures) = {}

VARIABLES vpMaster,       \* the print the master holds, or NoPrint
          vpLocal,        \* the print in the local directory
          vpFresh,        \* vpSyncedAt is less than five minutes old
          vpSync,         \* sync -> "new", "fetch", "write", "stamp", "done"
          vpGot,          \* what the sync that holds the lock fetched
          vpMissed,       \* history: the last sync took what it got for the whole list, and missed some of it
          vpEnrol,        \* enrolment, or OwnVoice -> its place
          vpCapture,      \* capture -> its place
          vpTold,         \* command -> results reported
          vpRaced,        \* history: a change since the last fetch that the fetch cannot hold
          vpUnread        \* history: captures whose file could not be read
vpVars == <<vpMaster, vpLocal, vpFresh, vpSync, vpGot, vpMissed, vpEnrol, vpCapture, vpTold, vpRaced, vpUnread>>
vpCaptureVars == <<vpCapture, vpUnread>>

NoPrint == "none"
OwnVoice == "auto"        \* autoEnrollSelfVoice at the start
Other == "other"          \* an enrolment on another node
Enrolling == VpEnrolments \cup {OwnVoice}
InFlight == \E s \in VpSyncs : vpSync[s] \in {"fetch", "write", "stamp"}

VpInit == /\ vpMaster \in {NoPrint, Other} /\ vpLocal = NoPrint /\ vpFresh = FALSE
          /\ vpSync = [s \in VpSyncs |-> "new"] /\ vpGot = NoPrint /\ vpMissed = FALSE
          /\ vpEnrol = [e \in Enrolling |-> "new"] /\ vpCapture = [c \in VpCaptures |-> "new"]
          /\ vpTold = [c \in VpEnrolments \cup VpCaptures |-> 0] /\ vpRaced = FALSE /\ vpUnread = {}

(* syncVoicePrints holds its lock through the request: whoever comes later waits, and *)
(* then finds the copy fresh.  Without an answer, or with one that is no JSON, nothing  *)
(* is stamped; the status is not looked at, so an error that is JSON holds no prints    *)
(* and is stamped like a list, and so is a print that was not decoded or not written,   *)
(* which leaves the old one or a file that is no print.                                 *)
SyncAt(s, pc) == vpSync' = [vpSync EXCEPT ![s] = pc]
StillFresh(s) == /\ vpSync[s] = "new" /\ ~InFlight /\ vpFresh /\ SyncAt(s, "done")
                 /\ UNCHANGED <<vpMaster, vpLocal, vpFresh, vpGot, vpMissed, vpEnrol, vpCaptureVars, vpTold, vpRaced>>
Fetch(s) == /\ vpSync[s] = "new" /\ ~InFlight /\ ~vpFresh /\ SyncAt(s, "fetch")
            /\ UNCHANGED <<vpMaster, vpLocal, vpFresh, vpGot, vpMissed, vpEnrol, vpCaptureVars, vpTold, vpRaced>>
FailsFresh(s) == /\ vpSync[s] = "fetch" /\ SyncAt(s, "done") /\ vpFresh' = TRUE
                 /\ UNCHANGED <<vpMaster, vpLocal, vpGot, vpMissed, vpEnrol, vpCaptureVars, vpTold, vpRaced>>
FetchFails(s) == /\ vpSync[s] = "fetch" /\ SyncAt(s, "done")
                 /\ UNCHANGED <<vpMaster, vpLocal, vpFresh, vpGot, vpMissed, vpEnrol, vpCaptureVars, vpTold, vpRaced>>
Fetched(s) == /\ vpSync[s] = "fetch" /\ SyncAt(s, "write") /\ vpGot' = vpMaster /\ vpMissed' = FALSE
              /\ vpRaced' = \E e \in Enrolling : vpEnrol[e] \in {"saved", "uploaded"}
              /\ UNCHANGED <<vpMaster, vpLocal, vpFresh, vpEnrol, vpCaptureVars, vpTold>>
ErrorFetched(s) == /\ vpSync[s] = "fetch" /\ SyncAt(s, "write") /\ vpGot' = NoPrint /\ vpMissed' = TRUE
                   /\ UNCHANGED <<vpMaster, vpLocal, vpFresh, vpEnrol, vpCaptureVars, vpTold, vpRaced>>
WritePrints(s) == /\ vpSync[s] = "write" /\ SyncAt(s, "stamp")
                  /\ vpLocal' = IF vpGot = NoPrint THEN vpLocal ELSE vpGot
                  /\ UNCHANGED <<vpMaster, vpFresh, vpGot, vpMissed, vpEnrol, vpCaptureVars, vpTold, vpRaced>>
WriteFails(s) == /\ vpSync[s] = "write" /\ vpGot # NoPrint /\ SyncAt(s, "stamp") /\ vpMissed' = TRUE
                 /\ vpLocal' \in {vpLocal, NoPrint}
                 /\ UNCHANGED <<vpMaster, vpFresh, vpGot, vpEnrol, vpCaptureVars, vpTold, vpRaced>>
Stamp(s) == /\ vpSync[s] = "stamp" /\ SyncAt(s, "done") /\ vpFresh' = TRUE
            /\ UNCHANGED <<vpMaster, vpLocal, vpGot, vpMissed, vpEnrol, vpCaptureVars, vpTold, vpRaced>>
Expire == /\ vpFresh /\ vpFresh' = FALSE
          /\ UNCHANGED <<vpMaster, vpLocal, vpSync, vpGot, vpMissed, vpEnrol, vpCaptureVars, vpTold, vpRaced>>

(* An enrolment records, saves its print locally, uploads it, and clears the stamp,   *)
(* which it does without the lock.  A failed upload, whose print may have arrived,     *)
(* keeps the local copy, and the command is told of success all the same.  The node enrols its own voice unless the *)
(* master answers that it has the print.                                              *)
EnrolAt(e, pc) == vpEnrol' = [vpEnrol EXCEPT ![e] = pc]
Told(c) == vpTold' = IF c = OwnVoice THEN vpTold ELSE [vpTold EXCEPT ![c] = @ + 1]
SkipSelf == /\ vpEnrol[OwnVoice] = "new" /\ EnrolAt(OwnVoice, "done")
            /\ UNCHANGED <<vpMaster, vpLocal, vpFresh, vpSync, vpGot, vpMissed, vpCaptureVars, vpTold, vpRaced>>
RecordPrint(e) == /\ vpEnrol[e] = "new" /\ EnrolAt(e, "recorded")
                  /\ UNCHANGED <<vpMaster, vpLocal, vpFresh, vpSync, vpGot, vpMissed, vpCaptureVars, vpTold, vpRaced>>
EnrolFails(e) == /\ vpEnrol[e] \in {"new", "recorded"} /\ EnrolAt(e, "done") /\ Told(e)
                 /\ UNCHANGED <<vpMaster, vpLocal, vpFresh, vpSync, vpGot, vpMissed, vpCaptureVars, vpRaced>>
SavePrint(e) == /\ vpEnrol[e] = "recorded" /\ EnrolAt(e, "saved") /\ vpLocal' = e /\ vpRaced' = TRUE
                /\ UNCHANGED <<vpMaster, vpFresh, vpSync, vpGot, vpMissed, vpCaptureVars, vpTold>>
Upload(e) == /\ vpEnrol[e] = "saved" /\ EnrolAt(e, "uploaded") /\ vpMaster' = e
             /\ UNCHANGED <<vpLocal, vpFresh, vpSync, vpGot, vpMissed, vpCaptureVars, vpTold, vpRaced>>
UploadFails(e) == /\ vpEnrol[e] \in {"saved", "uploaded"} /\ EnrolAt(e, "done") /\ Told(e)
                  /\ UNCHANGED <<vpMaster, vpLocal, vpFresh, vpSync, vpGot, vpMissed, vpCaptureVars, vpRaced>>
ClearStamp(e) == /\ vpEnrol[e] = "uploaded" /\ EnrolAt(e, "done") /\ vpFresh' = FALSE /\ Told(e)
                 /\ UNCHANGED <<vpMaster, vpLocal, vpSync, vpGot, vpMissed, vpCaptureVars, vpRaced>>
OtherEnrols == /\ vpMaster # Other /\ vpMaster' = Other /\ vpRaced' = TRUE
               /\ UNCHANGED <<vpLocal, vpFresh, vpSync, vpGot, vpMissed, vpEnrol, vpCaptureVars, vpTold>>

(* SYSTEM_TTS_CAPTURE: one voice after another, a file, its upload; an upload that    *)
(* failed is told as a success, a file that could not be read is not told at all.     *)
CaptureAt(c, pc) == vpCapture' = [vpCapture EXCEPT ![c] = pc]
Voice(c) == /\ vpCapture[c] = "new" /\ CaptureAt(c, "file")
            /\ UNCHANGED <<vpMaster, vpLocal, vpFresh, vpSync, vpGot, vpMissed, vpEnrol, vpTold, vpRaced, vpUnread>>
NoVoice(c) == /\ vpCapture[c] = "new" /\ CaptureAt(c, "done") /\ Told(c)
              /\ UNCHANGED <<vpMaster, vpLocal, vpFresh, vpSync, vpGot, vpMissed, vpEnrol, vpRaced, vpUnread>>
Unreadable(c) == /\ vpCapture[c] = "file" /\ CaptureAt(c, "done") /\ vpUnread' = vpUnread \cup {c}
                 /\ UNCHANGED <<vpMaster, vpLocal, vpFresh, vpSync, vpGot, vpMissed, vpEnrol, vpTold, vpRaced>>
SendVoice(c) == /\ vpCapture[c] = "file" /\ CaptureAt(c, "done") /\ Told(c)
                /\ UNCHANGED <<vpMaster, vpLocal, vpFresh, vpSync, vpGot, vpMissed, vpEnrol, vpRaced, vpUnread>>

VpNext == \/ \E s \in VpSyncs : \/ StillFresh(s) \/ Fetch(s) \/ FetchFails(s) \/ Fetched(s)
                                \/ ErrorFetched(s) \/ WritePrints(s) \/ WriteFails(s) \/ Stamp(s)
          \/ \E e \in Enrolling : \/ RecordPrint(e) \/ EnrolFails(e) \/ SavePrint(e) \/ Upload(e)
                                  \/ UploadFails(e) \/ ClearStamp(e)
          \/ \E c \in VpCaptures : Voice(c) \/ NoVoice(c) \/ Unreadable(c) \/ SendVoice(c)
          \/ SkipSelf \/ Expire \/ OtherEnrols
VpSpec == VpInit /\ [][VpNext]_vpVars

------------------------------------------------------------------------------------
VpTypeOK == /\ {vpMaster, vpLocal, vpGot} \subseteq Enrolling \cup {Other, NoPrint}
            /\ {vpFresh, vpRaced, vpMissed} \subseteq BOOLEAN
            /\ vpSync \in [VpSyncs -> {"new", "fetch", "write", "stamp", "done"}]
            /\ vpEnrol \in [Enrolling -> {"new", "recorded", "saved", "uploaded", "done"}]
            /\ vpCapture \in [VpCaptures -> {"new", "file", "done"}] /\ vpUnread \subseteq VpCaptures
            /\ vpTold \in [VpEnrolments \cup VpCaptures -> 0 .. 1]

(* A copy that counts as fresh is the master's, unless something changed since the    *)
(* fetch began: an enrolment here that saved, was uploading or failed to, or one on   *)
(* another node.  In the first case the sync stamps what the enrolment had just       *)
(* unstamped, and may have put an older print back.  The other exception is a sync     *)
(* that stamped an error answer, or prints it could not write.                         *)
FreshIsCurrent == vpFresh /\ ~InFlight => vpRaced \/ vpMissed \/ vpMaster = NoPrint \/ vpLocal = vpMaster

(* Every enrolment and every capture is told once, whichever tool, model, file or     *)
(* upload failed, but for a capture whose file could not be read.                     *)
EveryCommandTold ==
    /\ \A e \in VpEnrolments : vpEnrol[e] = "done" => vpTold[e] = 1
    /\ \A c \in VpCaptures : vpCapture[c] = "done" => vpTold[c] = 1 \/ c \in vpUnread

(* A fresh print is the master's but for a crossing change or a sync that missed  *)
(* it, and every enrolment and capture is reported (siam-arm/main.go).            *)
PrintsSafe == VpTypeOK /\ FreshIsCurrent /\ EveryCommandTold
====================================================================================
