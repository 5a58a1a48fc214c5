-------------------------------- MODULE NodeProofs ---------------------------------
(* For any enrolments, captures and syncs a node's copy of the voice prints that      *)
(* counts as fresh is the master's, and every command is told (VoicePrints); for any  *)
(* triggers, commands and restarts a trigger fires once for its occasion, and the     *)
(* file holds the registry (Proactive); for any commands and restarts one brain at    *)
(* most lives and every command is answered, dropped or at work (SiamArm); for any    *)
(* speakers, listeners and wake word loops isSpeaking covers speech and only speech   *)
(* (Voice).                                                                           *)
EXTENDS VoicePrints, Proactive, SiamArm, Voice, FiniteSetTheorems, TLAPS

VpPrints == Enrolling \cup {Other, NoPrint}
Flying(s) == vpSync[s] \in {"fetch", "write", "stamp"}

VpTyped ==
    /\ vpMaster \in VpPrints /\ vpLocal \in VpPrints /\ vpGot \in VpPrints
    /\ vpFresh \in BOOLEAN /\ vpRaced \in BOOLEAN /\ vpMissed \in BOOLEAN
    /\ vpSync \in [VpSyncs -> {"new", "fetch", "write", "stamp", "done"}]
    /\ vpEnrol \in [Enrolling -> {"new", "recorded", "saved", "uploaded", "done"}]
    /\ vpCapture \in [VpCaptures -> {"new", "file", "done"}] /\ vpUnread \subseteq VpCaptures
    /\ vpTold \in [VpEnrolments \cup VpCaptures -> {0, 1}]

(* One sync is under way, on a copy that is stale; what it has fetched, and then      *)
(* written, is the master's print unless something changed or was missed.             *)
OneSync ==
    /\ \A s, t \in VpSyncs : Flying(s) /\ Flying(t) => s = t
    /\ \A s \in VpSyncs : Flying(s) => ~vpFresh
    /\ \A s \in VpSyncs : vpSync[s] = "write" => vpRaced \/ vpMissed \/ vpGot = vpMaster
    /\ \A s \in VpSyncs : vpSync[s] = "stamp" => vpRaced \/ vpMissed \/ vpMaster = NoPrint \/ vpLocal = vpMaster

(* An enrolment that may still change the master's print has been noted.              *)
EnrolmentsNoted == \A e \in Enrolling : vpEnrol[e] \in {"saved", "uploaded"} => vpRaced

(* A command is told with its last step.                                              *)
ToldAtTheEnd ==
    /\ \A e \in VpEnrolments : vpEnrol[e] = "done" <=> vpTold[e] = 1
    /\ \A c \in VpCaptures : vpCapture[c] # "done" => vpTold[c] = 0
    /\ \A c \in VpCaptures : vpCapture[c] = "done" => vpTold[c] = 1 \/ c \in vpUnread

VInv == VpTyped /\ OneSync /\ EnrolmentsNoted /\ FreshIsCurrent /\ ToldAtTheEnd

LEMMA PrintsInvariant == VpSpec => []VInv
<1>1. VpInit => VInv
  <2> SUFFICES ASSUME VpInit PROVE VInv
    OBVIOUS
  <2>1. VpTyped
    BY DEF VpInit, VpTyped, VpPrints
  <2>2. \A s \in VpSyncs : ~Flying(s) /\ vpSync[s] = "new"
    BY DEF VpInit, Flying
  <2>3. OneSync
    BY <2>2 DEF OneSync
  <2>4. EnrolmentsNoted /\ FreshIsCurrent
    BY DEF VpInit, EnrolmentsNoted, FreshIsCurrent
  <2>5. ToldAtTheEnd
    BY DEF VpInit, ToldAtTheEnd, Enrolling
  <2> QED
    BY <2>1, <2>3, <2>4, <2>5 DEF VInv
<1>2. VInv /\ [VpNext]_vpVars => VInv'
  <2> SUFFICES ASSUME VInv, [VpNext]_vpVars PROVE VInv'
    OBVIOUS
  <2> USE DEF VInv
  <2>1. ASSUME NEW s \in VpSyncs, StillFresh(s) PROVE VInv'
    BY <2>1 DEF StillFresh, SyncAt, VpTyped, OneSync, EnrolmentsNoted, FreshIsCurrent, ToldAtTheEnd, Flying,
       InFlight, vpCaptureVars
  <2>2. ASSUME NEW s \in VpSyncs, Fetch(s) PROVE VInv'
    <3>1. VpTyped' /\ EnrolmentsNoted' /\ ToldAtTheEnd'
      BY <2>2 DEF Fetch, SyncAt, VpTyped, EnrolmentsNoted, ToldAtTheEnd, vpCaptureVars
    <3>2. OneSync' /\ FreshIsCurrent'
      BY <2>2 DEF Fetch, SyncAt, VpTyped, OneSync, FreshIsCurrent, Flying, InFlight
    <3> QED
      BY <3>1, <3>2
  <2>3. ASSUME NEW s \in VpSyncs, FetchFails(s) PROVE VInv'
    <3>1. VpTyped' /\ EnrolmentsNoted' /\ ToldAtTheEnd'
      BY <2>3 DEF FetchFails, SyncAt, VpTyped, EnrolmentsNoted, ToldAtTheEnd, vpCaptureVars
    <3>2. OneSync' /\ FreshIsCurrent'
      BY <2>3 DEF FetchFails, SyncAt, VpTyped, OneSync, FreshIsCurrent, Flying, InFlight
    <3> QED
      BY <3>1, <3>2
  <2>4. ASSUME NEW s \in VpSyncs, Fetched(s) \/ ErrorFetched(s) PROVE VInv'
    <3>1. VpTyped' /\ EnrolmentsNoted' /\ ToldAtTheEnd'
      BY <2>4 DEF Fetched, ErrorFetched, SyncAt, VpTyped, VpPrints, EnrolmentsNoted, ToldAtTheEnd, vpCaptureVars
    <3>2. OneSync' /\ FreshIsCurrent'
      <4>1. CASE Fetched(s)
        BY <4>1 DEF Fetched, SyncAt, VpTyped, OneSync, FreshIsCurrent, Flying, InFlight
      <4>2. CASE ErrorFetched(s)
        BY <4>2 DEF ErrorFetched, SyncAt, VpTyped, OneSync, FreshIsCurrent, Flying, InFlight
      <4> QED
        BY <2>4, <4>1, <4>2
    <3> QED
      BY <3>1, <3>2
  <2>5. ASSUME NEW s \in VpSyncs, WritePrints(s) \/ WriteFails(s) PROVE VInv'
    <3>1. VpTyped' /\ EnrolmentsNoted' /\ ToldAtTheEnd'
      BY <2>5 DEF WritePrints, WriteFails, SyncAt, VpTyped, VpPrints, EnrolmentsNoted, ToldAtTheEnd, vpCaptureVars
    <3>2. OneSync' /\ FreshIsCurrent'
      BY <2>5 DEF WritePrints, WriteFails, SyncAt, VpTyped, OneSync, FreshIsCurrent, Flying, InFlight
    <3> QED
      BY <3>1, <3>2
  <2>6. ASSUME NEW s \in VpSyncs, Stamp(s) PROVE VInv'
    <3>1. VpTyped' /\ EnrolmentsNoted' /\ ToldAtTheEnd'
      BY <2>6 DEF Stamp, SyncAt, VpTyped, EnrolmentsNoted, ToldAtTheEnd, vpCaptureVars
    <3>2. OneSync' /\ FreshIsCurrent'
      BY <2>6 DEF Stamp, SyncAt, VpTyped, OneSync, FreshIsCurrent, Flying, InFlight
    <3> QED
      BY <3>1, <3>2
  <2>7. ASSUME NEW e \in Enrolling, RecordPrint(e) \/ SavePrint(e) \/ Upload(e) PROVE VInv'
    <3>1. UNCHANGED <<vpSync, vpFresh, vpGot, vpMissed, vpCapture, vpUnread, vpTold>>
      BY <2>7 DEF RecordPrint, SavePrint, Upload, vpCaptureVars
    <3>2. /\ vpEnrol[e] # "done" /\ vpEnrol'[e] # "done"
          /\ vpEnrol' \in [Enrolling -> {"new", "recorded", "saved", "uploaded", "done"}]
          /\ \A d \in Enrolling : d # e => vpEnrol'[d] = vpEnrol[d]
      BY <2>7 DEF RecordPrint, SavePrint, Upload, EnrolAt, VpTyped
    <3>3. /\ vpMaster' \in VpPrints /\ vpLocal' \in VpPrints /\ vpRaced' \in BOOLEAN
          /\ vpRaced => vpRaced'
          /\ vpRaced' \/ UNCHANGED <<vpMaster, vpLocal>>
      BY <2>7 DEF RecordPrint, SavePrint, Upload, EnrolmentsNoted, VpTyped, VpPrints
    <3>4. vpEnrol'[e] \in {"saved", "uploaded"} => vpRaced'
      BY <2>7, <3>2 DEF RecordPrint, SavePrint, Upload, EnrolAt, EnrolmentsNoted, VpTyped
    <3>5. VpTyped' /\ EnrolmentsNoted'
      BY <3>1, <3>2, <3>3, <3>4 DEF VpTyped, EnrolmentsNoted
    <3>6. ToldAtTheEnd'
      BY <3>1, <3>2 DEF ToldAtTheEnd, Enrolling
    <3>7. OneSync' /\ FreshIsCurrent'
      BY <3>1, <3>3 DEF OneSync, FreshIsCurrent, Flying, InFlight
    <3> QED
      BY <3>5, <3>6, <3>7
  <2>8. ASSUME NEW e \in Enrolling, vpEnrol[e] # "done", EnrolAt(e, "done"), Told(e),
               vpFresh' = vpFresh \/ vpFresh' = FALSE,
               UNCHANGED <<vpMaster, vpLocal, vpSync, vpGot, vpMissed, vpCaptureVars, vpRaced>>
        PROVE  VInv'
    <3>1. /\ vpEnrol'[e] = "done"
          /\ vpEnrol' \in [Enrolling -> {"new", "recorded", "saved", "uploaded", "done"}]
          /\ \A d \in Enrolling : d # e => vpEnrol'[d] = vpEnrol[d]
      BY <2>8 DEF EnrolAt, VpTyped
    <3>2. /\ vpTold' \in [VpEnrolments \cup VpCaptures -> {0, 1}]
          /\ e \in VpEnrolments => vpTold'[e] = 1
          /\ \A c \in VpEnrolments \cup VpCaptures : c # e => vpTold'[c] = vpTold[c]
      <4>1. CASE e = OwnVoice
        BY <2>8, <4>1, VpAssumption DEF Told, VpTyped, OwnVoice
      <4>2. CASE e # OwnVoice
        <5>1. e \in VpEnrolments /\ vpTold[e] = 0
          BY <2>8, <4>2 DEF Enrolling, ToldAtTheEnd, VpTyped
        <5> QED
          BY <2>8, <4>2, <5>1 DEF Told, VpTyped
      <4> QED
        BY <4>1, <4>2
    <3>3. VpTyped' /\ EnrolmentsNoted'
      BY <2>8, <3>1, <3>2 DEF VpTyped, EnrolmentsNoted, vpCaptureVars
    <3>4. \A c \in VpCaptures : c # e
      BY VpAssumption DEF Enrolling, OwnVoice
    <3>5. ToldAtTheEnd'
      BY <2>8, <3>1, <3>2, <3>4 DEF ToldAtTheEnd, Enrolling, vpCaptureVars
    <3>6. OneSync' /\ FreshIsCurrent'
      BY <2>8 DEF OneSync, FreshIsCurrent, Flying, InFlight
    <3> QED
      BY <3>3, <3>5, <3>6
  <2>9. ASSUME NEW e \in Enrolling, EnrolFails(e) \/ UploadFails(e) \/ ClearStamp(e) PROVE VInv'
    BY <2>8, <2>9 DEF EnrolFails, UploadFails, ClearStamp
  <2>10. ASSUME NEW c \in VpCaptures, Voice(c) \/ NoVoice(c) \/ Unreadable(c) \/ SendVoice(c) PROVE VInv'
    <3>1. UNCHANGED <<vpMaster, vpLocal, vpFresh, vpSync, vpGot, vpMissed, vpEnrol, vpRaced>>
      BY <2>10 DEF Voice, NoVoice, Unreadable, SendVoice
    <3>2. c # OwnVoice /\ c \notin VpEnrolments
      BY VpAssumption DEF OwnVoice
    <3>3. /\ vpCapture[c] # "done" /\ vpTold[c] = 0
          /\ vpCapture' \in [VpCaptures -> {"new", "file", "done"}] /\ vpUnread' \subseteq VpCaptures
          /\ \A d \in VpCaptures : d # c => vpCapture'[d] = vpCapture[d]
          /\ vpUnread \subseteq vpUnread'
      BY <2>10 DEF Voice, NoVoice, Unreadable, SendVoice, CaptureAt, VpTyped, ToldAtTheEnd
    <3>4. \/ vpTold' = vpTold /\ (vpCapture'[c] = "file" \/ c \in vpUnread')
          \/ vpTold' = [vpTold EXCEPT ![c] = @ + 1] /\ vpCapture'[c] = "done"
      BY <2>10, <3>2 DEF Voice, NoVoice, Unreadable, SendVoice, CaptureAt, Told, VpTyped
    <3>5. /\ vpTold' \in [VpEnrolments \cup VpCaptures -> {0, 1}]
          /\ \A d \in VpEnrolments \cup VpCaptures : d # c => vpTold'[d] = vpTold[d]
          /\ vpTold'[c] = 1 => vpCapture'[c] = "done"
          /\ vpCapture'[c] = "done" => vpTold'[c] = 1 \/ c \in vpUnread'
      BY <3>3, <3>4 DEF VpTyped
    <3>6. VpTyped' /\ EnrolmentsNoted' /\ OneSync' /\ FreshIsCurrent'
      BY <3>1, <3>3, <3>5 DEF VpTyped, EnrolmentsNoted, OneSync, FreshIsCurrent, Flying, InFlight
    <3>7. ToldAtTheEnd'
      BY <3>1, <3>2, <3>3, <3>5 DEF ToldAtTheEnd, VpTyped
    <3> QED
      BY <3>6, <3>7
  <2>11. ASSUME SkipSelf PROVE VInv'
    <3>1. OwnVoice \in Enrolling /\ OwnVoice \notin VpEnrolments
      BY VpAssumption DEF Enrolling, OwnVoice
    <3>2. VpTyped' /\ EnrolmentsNoted' /\ OneSync' /\ FreshIsCurrent'
      BY <2>11, <3>1 DEF SkipSelf, EnrolAt, VpTyped, EnrolmentsNoted, OneSync, FreshIsCurrent, Flying, InFlight,
         vpCaptureVars
    <3>3. ToldAtTheEnd'
      BY <2>11, <3>1 DEF SkipSelf, EnrolAt, VpTyped, ToldAtTheEnd, Enrolling, vpCaptureVars
    <3> QED
      BY <3>2, <3>3
  <2>12. ASSUME Expire PROVE VInv'
    BY <2>12 DEF Expire, VpTyped, EnrolmentsNoted, OneSync, FreshIsCurrent, ToldAtTheEnd, Flying, InFlight,
       vpCaptureVars
  <2>13. ASSUME OtherEnrols PROVE VInv'
    BY <2>13 DEF OtherEnrols, VpTyped, EnrolmentsNoted, OneSync, FreshIsCurrent, ToldAtTheEnd, Flying, InFlight,
       vpCaptureVars, VpPrints
  <2>14. CASE UNCHANGED vpVars
    BY <2>14 DEF vpVars, vpCaptureVars, VpTyped, EnrolmentsNoted, OneSync, FreshIsCurrent, ToldAtTheEnd, Flying, InFlight
  <2> QED
    BY <2>1, <2>2, <2>3, <2>4, <2>5, <2>6, <2>7, <2>9, <2>10, <2>11, <2>12, <2>13, <2>14 DEF VpNext
<1> QED
  BY <1>1, <1>2, PTL DEF VpSpec

(* A copy that counts as fresh is the master's unless a change crossed the sync that  *)
(* fetched it or that sync missed it and stamped all the same, and every enrolment and capture is told once (siam-arm/main.go).       *)
THEOREM FreshPrintsAreTheMasters == VpSpec => []PrintsSafe
<1>1. VInv => PrintsSafe
  <2> SUFFICES ASSUME VInv PROVE PrintsSafe
    OBVIOUS
  <2>1. VpTypeOK
    BY DEF VInv, VpTyped, VpTypeOK, VpPrints
  <2> QED
    BY <2>1 DEF VInv, PrintsSafe, ToldAtTheEnd, EveryCommandTold
<1> QED
  BY <1>1, PrintsInvariant, PTL

------------------------------------------------------------------------------------
PrKinds == {"interval", "cron", "battery_low"}
PrTyped ==
    /\ prTypes \in [PrIds -> PrKinds]
    /\ prNow \in 1 .. PrHorizon /\ prLooked \in 0 .. prNow
    /\ prRegistry \in [PrIds -> Objects \cup {NoObject(i) : i \in PrIds}]
    /\ prLast \in [Objects -> 0 .. prNow] /\ prTodo \subseteq Objects
    /\ prSpawned \in [Objects -> Nat]
    /\ prSaved \in BOOLEAN /\ prStale \in BOOLEAN
    /\ prFile \in [PrIds -> Unsaved .. prNow] /\ prHandler \in {"idle", "save"}
    /\ prCommands \in 0 .. PrMaxCommands
    /\ prFired \in [PrIds -> 0 .. prNow]
    /\ prTwice \subseteq PrIds /\ prExcused \subseteq PrIds

(* What the registry holds under an id is an object of that id.                       *)
OwnObjects == \A i \in PrIds : prRegistry[i] = NoObject(i) \/ prRegistry[i] \in {i} \X (0 .. PrMaxCommands)

(* Each evaluation and each command spawns one goroutine of an object at most.        *)
SpawnsCounted ==
    \A o \in Objects : prSpawned[o] + (IF o \in prTodo THEN 1 ELSE 0) <= prLooked + prCommands

(* Of an id that nothing excuses only the first object was ever in use; it is marked  *)
(* with the id's latest firing, and its one goroutine was spawned on its occasion.    *)
Occasion(i) == prFired[i] = Never \/ Again(prTypes[i], prFired[i])
Orderly(i) ==
    /\ prRegistry[i] \in {<<i, 0>>, NoObject(i)}
    /\ prLast[<<i, 0>>] = prFired[i]
    /\ \A n \in 1 .. PrMaxCommands : <<i, n>> \notin prTodo /\ prSpawned[<<i, n>>] = 0
    /\ prSpawned[<<i, 0>>] > 0 => prSpawned[<<i, 0>>] = 1 /\ Occasion(i)

PInv ==
    /\ PrTyped /\ OwnObjects /\ SpawnsCounted /\ FiresOnce /\ FileIsRegistry
    /\ \A i \in PrIds : i \notin prExcused => Orderly(i)

LEMMA ObjectsAre ==
  /\ \A o \in Objects : o[1] \in PrIds /\ o[2] \in 0 .. PrMaxCommands /\ o = <<o[1], o[2]>>
  /\ \A i \in PrIds, n \in 0 .. PrMaxCommands : <<i, n>> \in Objects
  /\ \A i \in PrIds : <<i, 0>> \in Objects
  /\ \A i \in PrIds : NoObject(i) \notin Objects
<1>1. PrMaxCommands \in Nat
  BY PrAssumption
<1> QED
  BY <1>1 DEF Objects, NoObject

(* An occasion stays one as time goes on.                                             *)
LEMMA LaterStill ==
  ASSUME NEW now \in Nat, NEW later \in Nat, now <= later, NEW last \in Nat, NEW gap \in Nat, now - last >= gap
  PROVE  later - last >= gap
OBVIOUS

LEMMA AgainLater ==
  ASSUME NEW type \in PrKinds, NEW last \in Nat, prNow \in Nat, prNow' = prNow + 1
  PROVE  Again(type, last) => Again(type, last)'
<1> DEFINE later == prNow + 1
<1>1. PrPeriod \in Nat /\ 2 \in Nat /\ later \in Nat /\ prNow <= later
  BY PrAssumption
<1>2. (prNow - last >= PrPeriod => later - last >= PrPeriod) /\ (prNow - last >= 2 => later - last >= 2)
  BY <1>1, LaterStill
<1>3. prNow' = later
  OBVIOUS
<1> HIDE DEF later
<1>4. CASE type = "interval"
  BY <1>2, <1>3, <1>4 DEF Again
<1>5. CASE type = "cron"
  BY <1>2, <1>3, <1>5 DEF Again
<1>6. CASE type = "battery_low"
  BY <1>6 DEF Again
<1> QED
  BY <1>4, <1>5, <1>6 DEF PrKinds

LEMMA TriggersInvariant == PrSpec => []PInv
<1>1. PrInit => PInv
  <2> SUFFICES ASSUME PrInit PROVE PInv
    OBVIOUS
  <2>1. PrTyped
    <3>1. prTypes \in [PrIds -> PrKinds]
      BY PrAssumption DEF PrInit, PrKinds
    <3>2. prRegistry \in [PrIds -> Objects \cup {NoObject(i) : i \in PrIds}]
      BY ObjectsAre DEF PrInit
    <3>3. prFile \in [PrIds -> Unsaved .. prNow]
      BY DEF PrInit, Unsaved
    <3>4. prNow \in 1 .. PrHorizon /\ prLooked \in 0 .. prNow /\ prCommands \in 0 .. PrMaxCommands
      BY PrAssumption DEF PrInit
    <3>5. prLast \in [Objects -> 0 .. prNow] /\ prSpawned \in [Objects -> Nat] /\ prFired \in [PrIds -> 0 .. prNow]
      BY DEF PrInit, Never
    <3>6. /\ prTodo \subseteq Objects /\ prSaved \in BOOLEAN /\ prStale \in BOOLEAN /\ prHandler \in {"idle", "save"}
          /\ prTwice \subseteq PrIds /\ prExcused \subseteq PrIds
      BY DEF PrInit
    <3> QED
      BY <3>1, <3>2, <3>3, <3>4, <3>5, <3>6 DEF PrTyped
  <2>2. OwnObjects
    BY PrAssumption DEF PrInit, OwnObjects
  <2>3. SpawnsCounted
    BY DEF PrInit, SpawnsCounted
  <2>4. FiresOnce /\ FileIsRegistry
    BY DEF PrInit, FiresOnce, FileIsRegistry, Saved
  <2>5. ASSUME NEW i \in PrIds PROVE Orderly(i)
    BY ObjectsAre DEF PrInit, Orderly
  <2> QED
    BY <2>1, <2>2, <2>3, <2>4, <2>5 DEF PInv
<1>2. PInv /\ [PrNext]_prVars => PInv'
  <2> SUFFICES ASSUME PInv, [PrNext]_prVars PROVE PInv'
    OBVIOUS
  <2> USE DEF PInv
  <2>1. ASSUME Evaluate PROVE PInv'
    <3>1. Live \subseteq Objects
      BY ObjectsAre DEF Live, PrTyped, OwnObjects, NoObject
    <3>2. PrTyped' /\ OwnObjects' /\ FiresOnce' /\ FileIsRegistry'
      BY <2>1, <3>1 DEF Evaluate, PrTyped, OwnObjects, FiresOnce, FileIsRegistry, Saved, prFileVars, prHistory
    <3>3. SpawnsCounted'
      BY <2>1 DEF Evaluate, SpawnsCounted, PrTyped
    <3>4. ASSUME NEW i \in PrIds, i \notin prExcused' PROVE Orderly(i)'
      <4>1. i \notin prExcused /\ Orderly(i)
        BY <2>1, <3>4 DEF Evaluate
      <4>2. \A n \in 1 .. PrMaxCommands : <<i, n>> \notin Live
        BY <4>1 DEF Orderly, Live, OwnObjects, NoObject
      <4>3. UNCHANGED <<prTypes, prNow, prRegistry, prLast, prSpawned, prFired>> /\ prTodo' = Live
        BY <2>1 DEF Evaluate, prHistory
      <4>4. Occasion(i) => Occasion(i)'
        BY <4>3 DEF Occasion, Again
      <4> QED
        BY <4>1, <4>2, <4>3, <4>4 DEF Orderly
    <3> QED
      BY <3>2, <3>3, <3>4
  <2>2. ASSUME Tick PROVE PInv'
    <3>1. PrTyped' /\ OwnObjects' /\ FiresOnce' /\ FileIsRegistry' /\ SpawnsCounted'
      <4>1. /\ UNCHANGED <<prTypes, prRegistry, prLast, prSpawned, prTodo, prFired, prTwice, prExcused, prLooked,
                           prSaved, prFile, prStale, prHandler, prCommands>>
            /\ prNow' = prNow + 1 /\ prNow < PrHorizon
        BY <2>2 DEF Tick, prFileVars, prHistory
      <4>2. prNow' \in 1 .. PrHorizon /\ 0 .. prNow \subseteq 0 .. prNow' /\ Unsaved .. prNow \subseteq Unsaved .. prNow'
        BY <4>1, PrAssumption DEF PrTyped, Unsaved
      <4>3. prLast' \in [Objects -> 0 .. prNow'] /\ prFired' \in [PrIds -> 0 .. prNow']
            /\ prFile' \in [PrIds -> Unsaved .. prNow'] /\ prLooked' \in 0 .. prNow'
        BY <4>1, <4>2 DEF PrTyped
      <4>4. PrTyped'
        BY <4>1, <4>2, <4>3 DEF PrTyped
      <4> QED
        BY <4>1, <4>4 DEF OwnObjects, FiresOnce, FileIsRegistry, Saved, SpawnsCounted
    <3>2. ASSUME NEW i \in PrIds, i \notin prExcused' PROVE Orderly(i)'
      <4>1. i \notin prExcused /\ Orderly(i)
        BY <2>2, <3>2 DEF Tick
      <4>2. UNCHANGED <<prTypes, prRegistry, prLast, prSpawned, prTodo, prFired>> /\ prNow' = prNow + 1
        BY <2>2 DEF Tick, prHistory
      <4>3. Occasion(i) => Occasion(i)'
        <5>1. prTypes[i] \in PrKinds /\ prFired[i] \in Nat /\ prNow \in Nat
          BY DEF PrTyped
        <5>2. Again(prTypes[i], prFired[i]) => Again(prTypes[i], prFired[i])'
          BY <4>2, <5>1, AgainLater
        <5> QED
          BY <4>2, <5>2 DEF Occasion
      <4> QED
        BY <4>1, <4>2, <4>3 DEF Orderly
    <3> QED
      BY <3>1, <3>2
  <2>3. ASSUME Save \/ SaveFails PROVE PInv'
    <3>1. UNCHANGED <<prTypes, prNow, prRegistry, prTodo, prLooked, prLast, prSpawned, prCommands, prRestarts,
                      prFired, prTwice, prExcused>>
          /\ prHandler' = "idle" /\ prSaved' \in BOOLEAN /\ prStale' \in BOOLEAN
      BY <2>3 DEF Save, SaveFails, AfterSave, prHistory, PrTyped
    <3>2. /\ prFile' \in [PrIds -> Unsaved .. prNow]
          /\ prStale' \/ \A i \in PrIds : prFile'[i] # Unsaved <=> prRegistry[i] # NoObject(i)
      <4>1. ASSUME NEW i \in PrIds, prRegistry[i] # NoObject(i)
            PROVE  prLast[prRegistry[i]] \in 0 .. prNow
        BY <4>1, ObjectsAre DEF OwnObjects, PrTyped, Objects
      <4>2. prNow \in Nat /\ Unsaved \in Unsaved .. prNow
        BY DEF PrTyped, Unsaved
      <4>3. CASE Save
        <5>1. \A i \in PrIds : prFile'[i] = IF prRegistry[i] = NoObject(i) THEN Unsaved ELSE prLast[prRegistry[i]]
          BY <4>3 DEF Save
        <5> QED
          BY <4>1, <4>2, <4>3, <5>1 DEF Save, Unsaved
      <4>4. CASE SaveFails
        BY <4>2, <4>4 DEF SaveFails, PrTyped
      <4> QED
        BY <2>3, <4>3, <4>4
    <3>3. PrTyped' /\ OwnObjects' /\ FiresOnce' /\ SpawnsCounted'
      BY <3>1, <3>2 DEF PrTyped, OwnObjects, FiresOnce, SpawnsCounted
    <3>4. FileIsRegistry'
      BY <3>1, <3>2 DEF FileIsRegistry, Saved
    <3>5. ASSUME NEW i \in PrIds, i \notin prExcused' PROVE Orderly(i)'
      BY <3>1, <3>5 DEF Orderly, Occasion, Again
    <3> QED
      BY <3>3, <3>4, <3>5
  <2>4. ASSUME Restart PROVE PInv'
    <3>1. /\ UNCHANGED <<prTypes, prNow, prLooked, prSaved, prFile, prCommands, prFired, prTwice>>
          /\ prTodo' = {} /\ prHandler' = "idle" /\ prStale' = FALSE /\ prExcused' = PrIds
      BY <2>4 DEF Restart, prFileVars, prHistory
    <3>2. /\ prRegistry' = [i \in PrIds |-> IF i \in Restored THEN <<i, 0>> ELSE NoObject(i)]
          /\ prLast' = [o \in Objects |-> IF o[2] = 0 /\ o[1] \in Saved THEN prFile[o[1]] ELSE Never]
          /\ prSpawned' = [o \in Objects |-> 0]
      BY <2>4 DEF Restart
    <3>3. \A i \in Saved : i \in PrIds /\ prFile[i] \in 0 .. prNow
      BY DEF Saved, PrTyped, Unsaved
    <3>4. prLast' \in [Objects -> 0 .. prNow]
      BY <3>2, <3>3 DEF PrTyped, Never
    <3>5. prRegistry' \in [PrIds -> Objects \cup {NoObject(i) : i \in PrIds}]
      BY <3>2, ObjectsAre
    <3>9. prSpawned' \in [Objects -> Nat]
      BY <3>2
    <3>6. PrTyped' /\ FiresOnce' /\ SpawnsCounted'
      <4>1. PrTyped'
        BY <3>1, <3>4, <3>5, <3>9 DEF PrTyped
      <4>2. FiresOnce' /\ SpawnsCounted'
        BY <3>1, <3>2 DEF PrTyped, FiresOnce, SpawnsCounted
      <4> QED
        BY <4>1, <4>2
    <3>7. OwnObjects'
      BY <3>2, PrAssumption DEF OwnObjects
    <3>8. FileIsRegistry'
      <4>1. \A i \in PrIds : prRegistry'[i] # NoObject(i) <=> i \in Restored
        BY <3>2 DEF NoObject
      <4>2. Saved' = Saved
        BY <3>1 DEF Saved
      <4> QED
        BY <4>1, <4>2 DEF FileIsRegistry, Restored, Saved
    <3> QED
      BY <3>1, <3>6, <3>7, <3>8
  <2>5. ASSUME NEW o \in Objects, Look(o) PROVE PInv'
    <3>1. /\ UNCHANGED <<prTypes, prNow, prRegistry, prLast, prLooked, prSaved, prFile, prStale, prHandler,
                         prCommands, prFired, prTwice>>
          /\ o \in prTodo /\ prTodo' = prTodo \ {o} /\ prExcused \subseteq prExcused'
          /\ prExcused' \subseteq PrIds
          /\ prSpawned[o] > 0 => o[1] \in prExcused'
      BY <2>5, ObjectsAre DEF Look, prFileVars, prHistory, PrTyped
    <3>2. \/ prSpawned' = prSpawned
          \/ ShouldFire(o) /\ prSpawned' = [prSpawned EXCEPT ![o] = @ + 1]
      BY <2>5 DEF Look, Spawn
    <3>3. /\ prSpawned' \in [Objects -> Nat]
          /\ \A p \in Objects : p # o => prSpawned'[p] = prSpawned[p]
          /\ prSpawned'[o] = prSpawned[o] \/ (prSpawned'[o] = prSpawned[o] + 1 /\ ShouldFire(o))
      BY <3>2 DEF PrTyped
    <3>4. PrTyped' /\ OwnObjects' /\ FiresOnce' /\ FileIsRegistry'
      BY <3>1, <3>3 DEF PrTyped, OwnObjects, FiresOnce, FileIsRegistry, Saved
    <3>5. SpawnsCounted'
      BY <3>1, <3>3 DEF SpawnsCounted, PrTyped
    <3>6. ASSUME NEW i \in PrIds, i \notin prExcused' PROVE Orderly(i)'
      <4>1. i \notin prExcused /\ Orderly(i) /\ (o[1] = i => prSpawned[o] = 0)
        BY <3>1, <3>3, <3>6 DEF PrTyped
      <4>2. Occasion(i) => Occasion(i)'
        BY <3>1 DEF Occasion, Again
      <4>3. CASE o = <<i, 0>>
        <5>1. ShouldFire(o) => Occasion(i)
          BY <4>1, <4>3 DEF ShouldFire, Occasion, Orderly
        <5> QED
          BY <3>1, <3>3, <4>1, <4>2, <4>3, <5>1, ObjectsAre DEF Orderly
      <4>4. CASE o # <<i, 0>>
        <5>1. \A n \in 1 .. PrMaxCommands : o # <<i, n>>
          BY <3>1, <4>1 DEF Orderly
        <5>2. \A n \in 0 .. PrMaxCommands : <<i, n>> \in Objects /\ o # <<i, n>>
          BY <4>4, <5>1, ObjectsAre
        <5>3. \A n \in 0 .. PrMaxCommands : prSpawned'[<<i, n>>] = prSpawned[<<i, n>>]
          BY <3>3, <5>2
        <5>4. 0 \in 0 .. PrMaxCommands
          BY PrAssumption
        <5> QED
          BY <3>1, <4>1, <4>2, <5>3, <5>4 DEF Orderly
      <4> QED
        BY <4>3, <4>4
    <3> QED
      BY <3>4, <3>5, <3>6
  <2>6. ASSUME NEW o \in Objects, Fire(o) PROVE PInv'
    <3> DEFINE j == o[1]
    <3>1. /\ UNCHANGED <<prTypes, prNow, prRegistry, prTodo, prLooked, prSaved, prFile, prStale, prHandler,
                         prCommands, prExcused>>
          /\ prSpawned[o] > 0 /\ j \in PrIds /\ prNow \in Nat /\ prNow >= 1
      BY <2>6, ObjectsAre DEF Fire, prFileVars, PrTyped
    <3>2. /\ prSpawned' \in [Objects -> Nat] /\ prSpawned'[o] = prSpawned[o] - 1
          /\ \A p \in Objects : p # o => prSpawned'[p] = prSpawned[p]
      BY <2>6 DEF Fire, PrTyped
    <3>3. /\ prLast' \in [Objects -> 0 .. prNow] /\ prLast'[o] = prNow
          /\ \A p \in Objects : p # o => prLast'[p] = prLast[p]
      BY <2>6 DEF Fire, PrTyped
    <3>4. /\ prFired' \in [PrIds -> 0 .. prNow] /\ prFired'[j] = prNow
          /\ \A i \in PrIds : i # j => prFired'[i] = prFired[i]
      BY <2>6, <3>1 DEF Fire, Noted, PrTyped
    <3>5. prTwice' = prTwice \cup IF ~Occasion(j) THEN {j} ELSE {}
      BY <2>6 DEF Fire, Noted, Occasion
    <3>6. PrTyped' /\ OwnObjects' /\ FileIsRegistry'
      BY <3>1, <3>2, <3>3, <3>4, <3>5 DEF PrTyped, OwnObjects, FileIsRegistry, Saved
    <3>7. SpawnsCounted'
      BY <3>1, <3>2 DEF SpawnsCounted, PrTyped
    <3>8. j \notin prExcused => o = <<j, 0>> /\ Occasion(j) /\ prSpawned[o] = 1
      <4>1. j \notin prExcused => Orderly(j)
        BY <3>1
      <4>2. o[2] = 0 \/ o[2] \in 1 .. PrMaxCommands
        BY ObjectsAre
      <4> QED
        BY <3>1, <4>1, <4>2, ObjectsAre DEF Orderly
    <3>9. FiresOnce'
      BY <3>1, <3>5, <3>8 DEF FiresOnce
    <3>10. ASSUME NEW i \in PrIds, i \notin prExcused' PROVE Orderly(i)'
      <4>1. i \notin prExcused /\ Orderly(i)
        BY <3>1, <3>10
      <4>2. CASE i = j
        <5>1. o = <<i, 0>> /\ prSpawned'[<<i, 0>>] = 0
          BY <3>1, <3>2, <3>8, <4>1, <4>2
        <5>2. \A n \in 1 .. PrMaxCommands : <<i, n>> \in Objects /\ <<i, n>> # o
          BY <5>1, ObjectsAre
        <5> QED
          BY <3>1, <3>2, <3>3, <3>4, <4>1, <4>2, <5>1, <5>2 DEF Orderly
      <4>3. CASE i # j
        <5>1. \A n \in 0 .. PrMaxCommands : <<i, n>> \in Objects /\ <<i, n>> # o
          BY <4>3, ObjectsAre
        <5>2. \A n \in 0 .. PrMaxCommands : prSpawned'[<<i, n>>] = prSpawned[<<i, n>>]
                                            /\ prLast'[<<i, n>>] = prLast[<<i, n>>]
          BY <3>2, <3>3, <5>1
        <5>3. 0 \in 0 .. PrMaxCommands
          BY PrAssumption
        <5>4. prFired'[i] = prFired[i] /\ (Occasion(i) => Occasion(i)')
          BY <3>1, <3>4, <4>3 DEF Occasion, Again
        <5> QED
          BY <3>1, <4>1, <5>2, <5>3, <5>4 DEF Orderly
      <4> QED
        BY <4>2, <4>3
    <3> QED
      BY <3>6, <3>7, <3>9, <3>10
  <2>7. ASSUME NEW i \in PrIds, Add(i) \/ RemoveTrigger(i) \/ RunTrigger(i) PROVE PInv'
    <3>1. /\ UNCHANGED <<prTypes, prNow, prTodo, prLooked, prSaved, prFile, prStale, prFired, prTwice>>
          /\ prCommands' = prCommands + 1 /\ prCommands' \in 0 .. PrMaxCommands
          /\ prExcused \subseteq prExcused' /\ prExcused' \subseteq PrIds
      BY <2>7, PrAssumption DEF Add, RemoveTrigger, RunTrigger, Command, prFileVars, prHistory, PrTyped
    <3>2. /\ prHandler' = "save" \/ (prHandler' = prHandler /\ prRegistry' = prRegistry)
          /\ prHandler' \in {"idle", "save"}
      BY <2>7 DEF Add, RemoveTrigger, RunTrigger, Command, PrTyped
    <3>3. /\ prRegistry' \in [PrIds -> Objects \cup {NoObject(k) : k \in PrIds}]
          /\ prRegistry'[i] \in {prRegistry[i], <<i, prCommands'>>, NoObject(i)}
          /\ \A k \in PrIds : k # i => prRegistry'[k] = prRegistry[k]
      BY <2>7, <3>1, ObjectsAre DEF Add, RemoveTrigger, RunTrigger, PrTyped
    <3>4. /\ prLast' \in [Objects -> 0 .. prNow]
          /\ prLast' = prLast \/ (i \in prExcused' /\ \A o \in Objects : o[1] # i => prLast'[o] = prLast[o])
      <4>1. CASE Add(i)
        <5> DEFINE o == <<i, prCommands'>>
        <5>1. o \in Objects /\ i \in prExcused' /\ \A p \in Objects : p[1] # i => p # o
          BY <3>1, <4>1, ObjectsAre DEF Add
        <5>2. prLast' = [prLast EXCEPT ![o] = 0] /\ 0 \in 0 .. prNow
          BY <4>1 DEF Add, Never, PrTyped
        <5> HIDE DEF o
        <5> QED
          BY <5>1, <5>2 DEF PrTyped
      <4>2. CASE RemoveTrigger(i) \/ RunTrigger(i)
        BY <4>2 DEF RemoveTrigger, RunTrigger, PrTyped
      <4> QED
        BY <2>7, <4>1, <4>2
    <3>5. /\ prSpawned' \in [Objects -> Nat]
          /\ \A o \in Objects : prSpawned'[o] <= prSpawned[o] + 1
          /\ prSpawned' = prSpawned \/ (i \in prExcused' /\ \A o \in Objects : o[1] # i => prSpawned'[o] = prSpawned[o])
      <4>1. CASE Add(i) \/ RemoveTrigger(i)
        BY <4>1 DEF Add, RemoveTrigger, PrTyped
      <4>2. CASE RunTrigger(i)
        <5> DEFINE o == prRegistry[i]
        <5>1. o \in Objects /\ o[1] = i /\ i \in prExcused'
          BY <4>2, ObjectsAre DEF RunTrigger, OwnObjects
        <5>2. prSpawned' = [prSpawned EXCEPT ![o] = @ + 1]
          BY <4>2 DEF RunTrigger, Spawn
        <5> HIDE DEF o
        <5> QED
          BY <5>1, <5>2 DEF PrTyped
      <4> QED
        BY <2>7, <4>1, <4>2
    <3>6. PrTyped'
      BY <3>1, <3>2, <3>3, <3>4, <3>5 DEF PrTyped
    <3>7. OwnObjects'
      BY <3>1, <3>3, PrAssumption DEF OwnObjects
    <3>8. SpawnsCounted' /\ FiresOnce'
      BY <3>1, <3>5 DEF SpawnsCounted, FiresOnce, PrTyped
    <3>9. FileIsRegistry'
      BY <3>1, <3>2 DEF FileIsRegistry, Saved
    <3>10. ASSUME NEW k \in PrIds, k \notin prExcused' PROVE Orderly(k)'
      <4>1. k \notin prExcused /\ Orderly(k)
        BY <3>1, <3>10
      <4>2. \A n \in 0 .. PrMaxCommands : prSpawned'[<<k, n>>] = prSpawned[<<k, n>>]
                                          /\ prLast'[<<k, n>>] = prLast[<<k, n>>]
        BY <3>4, <3>5, <3>10, ObjectsAre
      <4>3. prRegistry'[k] \in {prRegistry[k], NoObject(k)}
        BY <2>7, <3>3, <3>10 DEF Add, RemoveTrigger, RunTrigger, PrTyped
      <4>4. 0 \in 0 .. PrMaxCommands
        BY PrAssumption
      <4>5. Occasion(k) => Occasion(k)'
        BY <3>1 DEF Occasion, Again
      <4> QED
        BY <3>1, <4>1, <4>2, <4>3, <4>4, <4>5 DEF Orderly
    <3> QED
      BY <3>6, <3>7, <3>8, <3>9, <3>10
  <2>8. CASE UNCHANGED prVars
    <3>1. UNCHANGED <<prTypes, prNow, prRegistry, prLast, prTodo, prLooked, prSpawned, prSaved, prFile, prStale,
                      prHandler, prCommands, prFired, prTwice, prExcused>>
      BY <2>8 DEF prVars
    <3>2. PrTyped' /\ OwnObjects' /\ SpawnsCounted' /\ FiresOnce' /\ FileIsRegistry'
      BY <3>1 DEF PrTyped, OwnObjects, SpawnsCounted, FiresOnce, FileIsRegistry, Saved
    <3>3. ASSUME NEW i \in PrIds, i \notin prExcused' PROVE Orderly(i)'
      BY <3>1, <3>3 DEF Orderly, Occasion, Again
    <3> QED
      BY <3>2, <3>3
  <2> QED
    BY <2>1, <2>2, <2>3, <2>4, <2>5, <2>6, <2>7, <2>8 DEF PrNext
<1> QED
  BY <1>1, <1>2, PTL DEF PrSpec

(* A trigger fires twice for one occasion only after the master ran or replaced it, a *)
(* restart, or a goroutine that marked it late; between two commands the file holds   *)
(* what the registry holds unless its last save failed (siam-arm/proactive.go).       *)
THEOREM TriggersFireOnce == PrSpec => []TriggersSafe
<1>1. PInv => TriggersSafe
  <2> SUFFICES ASSUME PInv PROVE TriggersSafe
    OBVIOUS
  <2>1. \A o \in Objects : prSpawned[o] \in 0 .. PrHorizon + PrMaxCommands
    BY PrAssumption DEF PInv, PrTyped, SpawnsCounted
  <2>2. {prNow, prLooked} \subseteq 0 .. PrHorizon
    BY PrAssumption DEF PInv, PrTyped
  <2>3. prLast \in [Objects -> 0 .. PrHorizon] /\ prFile \in [PrIds -> Unsaved .. PrHorizon]
    BY PrAssumption DEF PInv, PrTyped, Unsaved
  <2>4. PrTypeOK
    BY <2>1, <2>2, <2>3 DEF PInv, PrTyped, PrTypeOK
  <2> QED
    BY <2>4 DEF PInv, TriggersSafe
<1> QED
  BY <1>1, TriggersInvariant, PTL

------------------------------------------------------------------------------------
(* The commands of siam-arm and its brain (SiamArm).                                  *)
Souls == {NoSoul, "old"} \cup {c.soul : c \in ArCommands}
StarterPlaces == {"idle", "waiting", "starting", "alive", "ended"}
Goroutines == [pc : StarterPlaces, soul : Souls]
ArLoopPlaces == {"open", "recv", "soul_id", "want", "nudge", "sleep", "exit", "dead"}

ArTyped ==
    /\ arPc \in ArLoopPlaces
    /\ arLeft \subseteq ArCommands /\ arJobs \subseteq ArCommands
    /\ arDropped \subseteq ArCommands /\ arLost \subseteq ArCommands
    /\ arReports \in [ArCommands -> {0, 1}]
    /\ arApart \in BOOLEAN /\ arCancelled \in BOOLEAN /\ arFatal \in BOOLEAN /\ arRestarted \in 0 .. ArRestarts
    /\ arStarter \in [Starters -> Goroutines]
    /\ arLock \in {Free} \cup Starters /\ arBrain \in Starters \cup {NoBrain}
    /\ arSoul \in Souls /\ arSoulId \in Souls

(* Where the loop is inside a command, and inside which.                              *)
AtCommand ==
    /\ arPc \in {"open", "recv", "sleep", "dead"} => arCmd = NoCommand
    /\ arPc \in {"soul_id", "want", "nudge", "exit"} => arCmd \in ArCommands
    /\ arPc = "soul_id" => arCmd.kind = "soul" /\ arSoulMd = arCmd.soul /\ arApart = TRUE
    /\ arPc = "want" => arCmd.kind \in Replacing \cup Nudging
    /\ arPc = "nudge" => arCmd.kind \in Nudging
    /\ arPc = "exit" => arCmd.kind = "terminate"

(* A command is in one place at a time, and is answered when it leaves the last.      *)
OnePlace(c) ==
    /\ c \in arLeft \/ c = arCmd =>
           arReports[c] = 0 /\ c \notin arJobs /\ arStarter[c].pc = "idle"
    /\ c \in arLeft => c # arCmd
    /\ c \in arJobs => c.kind \in Jobs /\ arReports[c] = 0
    /\ arStarter[c].pc # "idle" => c.kind \in Replacing
    /\ Up /\ arStarter[c].pc = "starting" => arReports[c] = IF c.kind = "sync_soul" THEN 1 ELSE 0
OnePlaceEach == \A c \in ArCommands : OnePlace(c)
DeadAreLost == ~Up => \A c \in ArCommands \ arLeft : arReports[c] = 1 \/ c \in arLost

(* The mutex is held for the one starter that is past its beginning.                  *)
Ahead(s) == arStarter[s].pc \in {"starting", "alive", "ended"}
LockIsAhead == Up => \A s \in Starters : Ahead(s) <=> arLock = s
(* What is being started bears the soul as well as what lives.                        *)
BearsSoul ==
    Up => \A s \in Starters : arStarter[s].pc \in {"starting", "alive"} =>
              \/ arStarter[s].soul = arSoul \/ s = Boot
              \/ (arPc = "want" /\ arCmd.kind = "soul")

BrainInv == LockIsAhead /\ BearsSoul
AInv == ArTyped /\ AtCommand /\ OnePlaceEach /\ ReceivedIsAnswered /\ DeadAreLost /\ BrainInv /\ SoulFilesAgree

LEMMA ArNames ==
  /\ NoCommand \notin ArCommands /\ Boot \notin ArCommands /\ Free \notin Starters
  /\ Boot \in Starters /\ ArCommands \subseteq Starters
  /\ \A s \in Starters : s # Boot => s \in ArCommands
  /\ NoCommand.kind = "none"
  /\ \A c \in ArCommands : c.kind \in ArKinds /\ c.soul \in Souls
<1>1. \A c \in ArCommands : c.kind \in ArKinds
  BY ArAssumption
<1>2. NoCommand.kind = "none" /\ Boot.kind = "boot" /\ Free.kind = "free"
  BY DEF NoCommand, Boot, Free
<1>3. "none" \notin ArKinds /\ "boot" \notin ArKinds /\ "free" \notin ArKinds
  BY DEF ArKinds, Inline, Jobs, Silent, Replacing, Nudging
<1> QED
  BY <1>1, <1>2, <1>3 DEF Starters, Souls

LEMMA GoroutineSteps ==
  /\ Idle \in Goroutines /\ Idle.pc = "idle"
  /\ \A g \in Goroutines : g.pc \in StarterPlaces /\ g.soul \in Souls
  /\ \A g \in Goroutines, pc \in StarterPlaces :
        [g EXCEPT !.pc = pc] \in Goroutines /\ [g EXCEPT !.pc = pc].pc = pc /\ [g EXCEPT !.pc = pc].soul = g.soul
  /\ \A pc \in StarterPlaces, soul \in Souls :
        /\ [pc |-> pc, soul |-> soul] \in Goroutines
        /\ [pc |-> pc, soul |-> soul].pc = pc /\ [pc |-> pc, soul |-> soul].soul = soul
  BY DEF Idle, Goroutines, StarterPlaces, Souls

LEMMA BootedIs ==
  ASSUME NEW soul \in Souls, NEW mode
  PROVE  /\ Booted(soul, mode) \in [Starters -> Goroutines]
         /\ \A s \in Starters : Booted(soul, mode)[s].pc = "idle" \/ (s = Boot /\ Booted(soul, mode)[s].pc = "waiting")
<1>1. ASSUME NEW s \in Starters
      PROVE  LET b == IF s = Boot /\ soul # NoSoul /\ mode = "worker" THEN [pc |-> "waiting", soul |-> soul] ELSE Idle
             IN b \in Goroutines /\ (b.pc = "idle" \/ (s = Boot /\ b.pc = "waiting"))
  BY GoroutineSteps DEF StarterPlaces
<1> QED
  BY <1>1 DEF Booted

LEMMA KilledIs ==
  ASSUME ArTyped
  PROVE  /\ Killed \in [Starters -> Goroutines]
         /\ \A s \in Starters : /\ Killed[s].soul = arStarter[s].soul
                                /\ Killed[s].pc = IF arStarter[s].pc = "alive" THEN "ended" ELSE arStarter[s].pc
<1>1. \A s \in Starters : arStarter[s] \in Goroutines
  BY DEF ArTyped
<1>2. ASSUME NEW s \in Starters
      PROVE  LET k == IF arStarter[s].pc = "alive" THEN [arStarter[s] EXCEPT !.pc = "ended"] ELSE arStarter[s]
             IN /\ k \in Goroutines /\ k.soul = arStarter[s].soul
                /\ k.pc = IF arStarter[s].pc = "alive" THEN "ended" ELSE arStarter[s].pc
  <2> DEFINE g == arStarter[s]
  <2>1. g \in Goroutines /\ "ended" \in StarterPlaces
    BY <1>1 DEF StarterPlaces
  <2>2. /\ [g EXCEPT !.pc = "ended"] \in Goroutines /\ [g EXCEPT !.pc = "ended"].pc = "ended"
        /\ [g EXCEPT !.pc = "ended"].soul = g.soul
    BY <2>1, GoroutineSteps
  <2> HIDE DEF g
  <2> QED
    BY <2>1, <2>2 DEF g
<1> QED
  BY <1>2 DEF Killed

(* One starter goes to another place.                                                 *)
LEMMA StarterGoes ==
  ASSUME ArTyped, NEW s \in Starters, NEW pc \in StarterPlaces
  PROVE  LET f == [arStarter EXCEPT ![s].pc = pc] IN
         /\ f \in [Starters -> Goroutines] /\ f[s].pc = pc /\ f[s].soul = arStarter[s].soul
         /\ \A t \in Starters : t # s => f[t] = arStarter[t]
  BY GoroutineSteps DEF ArTyped
LEMMA StarterBecomes ==
  ASSUME ArTyped, NEW s \in Starters, NEW f \in [Starters -> Goroutines], NEW g \in Goroutines
  PROVE  LET h == [f EXCEPT ![s] = g] IN
         /\ h \in [Starters -> Goroutines] /\ h[s] = g
         /\ \A t \in Starters : t # s => h[t] = f[t]
  OBVIOUS

(* A command that had no report gets it.                                              *)
Answered(c) == /\ arReports' \in [ArCommands -> {0, 1}] /\ arReports'[c] = 1
               /\ \A d \in ArCommands : d # c => arReports'[d] = arReports[d]
LEMMA ReportOnce ==
  ASSUME ArTyped, NEW c \in ArCommands, arReports[c] = 0, Report(c)
  PROVE  Answered(c)
  BY DEF Answered, Report, ArTyped

(* Only the loop moves.                                                               *)
LoopOnly == UNCHANGED <<arLeft, arReports, arJobs, arDropped, arSoul, arSoulMd, arSoulId, arApart, arLock,
                        arStarter, arBrain, arMode, arLost, arCancelled, arFatal, arRestarted>>
(* A command is taken.                                                                *)
Taken(c) == /\ arPc = "recv" /\ arCmd = NoCommand /\ c \in arLeft /\ arLeft' = arLeft \ {c}
            /\ UNCHANGED <<arLock, arStarter, arBrain, arSoul, arLost, arCancelled, arFatal, arRestarted>>
(* One of the soul files may be written, and then counts as written alone.            *)
FilesGo == \/ UNCHANGED <<arSoulMd, arSoulId, arApart>>
           \/ arSoulId' \in Souls /\ arApart' = TRUE
LEMMA SyncedFiles ==
  ASSUME ArTyped, NEW c \in ArCommands, NEW soul \in Souls, SyncsFile(c, soul)
  PROVE  FilesGo /\ UNCHANGED arSoul
  BY DEF FilesGo, SyncsFile, FileHolds, ArTyped
LEMMA FilesKept ==
  ASSUME ArTyped, SoulFilesAgree, FilesGo
  PROVE  arSoulId' \in Souls /\ arApart' \in BOOLEAN /\ SoulFilesAgree'
  BY DEF FilesGo, ArTyped, SoulFilesAgree

LEMMA LoopMoves ==
  ASSUME AInv, LoopOnly, Up,
         \/ arPc \in {"open", "sleep", "recv"} /\ arPc' \in {"open", "sleep", "recv"} /\ arCmd' = NoCommand
         \/ arPc = "want" /\ arCmd.kind \in Nudging /\ arPc' = "nudge" /\ arCmd' = arCmd
  PROVE  AInv'
<1> USE ArNames DEF AInv, LoopOnly
<1>1. ArTyped' /\ AtCommand' /\ SoulFilesAgree'
  BY DEF ArTyped, AtCommand, SoulFilesAgree, ArLoopPlaces
<1>2. \A c \in ArCommands : c # NoCommand /\ (c = arCmd' => c = arCmd)
  BY DEF AtCommand
<1>3. OnePlaceEach' /\ Up'
  BY <1>2 DEF OnePlaceEach, OnePlace, Up
<1>4. ReceivedIsAnswered' /\ DeadAreLost'
  BY <1>3 DEF ReceivedIsAnswered, DeadAreLost, AtCommand
<1>5. BrainInv'
  BY DEF BrainInv, LockIsAhead, BearsSoul, Ahead, Up, AtCommand, Nudging
<1> QED
  BY <1>1, <1>3, <1>4, <1>5

LEMMA TakenAndAnswered ==
  ASSUME AInv, NEW c \in ArCommands, Taken(c), Report(c),
         UNCHANGED <<arPc, arCmd, arJobs, arDropped>>, FilesGo
  PROVE  AInv'
<1> USE ArNames DEF AInv, Taken
<1>1. Answered(c)
  BY ReportOnce DEF OnePlaceEach, OnePlace
<1>2. ArTyped' /\ AtCommand' /\ SoulFilesAgree'
  BY <1>1, FilesKept DEF ArTyped, AtCommand, Answered
<1>3. OnePlaceEach'
  BY <1>1 DEF OnePlaceEach, OnePlace, Up, Answered
<1>4. ReceivedIsAnswered' /\ DeadAreLost'
  BY <1>1 DEF ReceivedIsAnswered, DeadAreLost, Answered, Up
<1>5. BrainInv'
  BY DEF BrainInv, LockIsAhead, BearsSoul, Ahead, Up
<1> QED
  BY <1>2, <1>3, <1>4, <1>5

LEMMA TakenAndDropped ==
  ASSUME AInv, NEW c \in ArCommands, Taken(c), Drop(c),
         UNCHANGED <<arPc, arCmd, arJobs>>, FilesGo
  PROVE  AInv'
<1> USE ArNames DEF AInv, Taken, Drop
<1>1. ArTyped' /\ AtCommand' /\ SoulFilesAgree'
  BY FilesKept DEF ArTyped, AtCommand
<1>2. OnePlaceEach'
  BY DEF OnePlaceEach, OnePlace, Up
<1>3. ReceivedIsAnswered' /\ DeadAreLost'
  BY DEF ReceivedIsAnswered, DeadAreLost, Up
<1>4. BrainInv'
  BY DEF BrainInv, LockIsAhead, BearsSoul, Ahead, Up
<1> QED
  BY <1>1, <1>2, <1>3, <1>4

LEMMA TakenToDo ==
  ASSUME AInv, NEW c \in ArCommands, Taken(c), UNCHANGED <<arReports, arJobs, arDropped>>, arCmd' = c,
         FilesGo,
         \/ arPc' = "want" /\ c.kind \in Replacing \cup Nudging
         \/ arPc' = "soul_id" /\ c.kind = "soul" /\ arSoulMd' = c.soul /\ arApart' = TRUE
  PROVE  AInv'
<1> USE ArNames DEF AInv, Taken
<1>1. ArTyped' /\ AtCommand' /\ SoulFilesAgree'
  BY FilesKept DEF ArTyped, AtCommand, ArLoopPlaces
<1>2. OnePlaceEach'
  BY DEF OnePlaceEach, OnePlace, Up
<1>3. ReceivedIsAnswered' /\ DeadAreLost'
  BY DEF ReceivedIsAnswered, DeadAreLost, Up
<1>4. BrainInv'
  BY DEF BrainInv, LockIsAhead, BearsSoul, Ahead, Up
<1> QED
  BY <1>1, <1>2, <1>3, <1>4

(* The loop is done with its command.                                                 *)
LEMMA CommandEnds ==
  ASSUME AInv, arCmd \in ArCommands, arPc \in {"soul_id", "nudge"}, arPc' = "recv", arCmd' = NoCommand,
         \/ Report(arCmd) /\ UNCHANGED arDropped
         \/ Drop(arCmd),
         FilesGo,
         UNCHANGED <<arLeft, arJobs, arSoul, arLock, arStarter, arBrain, arMode, arLost, arCancelled, arFatal,
                     arRestarted>>
  PROVE  AInv'
<1> USE ArNames DEF AInv
<1>1. \/ Answered(arCmd) /\ UNCHANGED arDropped
      \/ UNCHANGED arReports /\ arDropped' = arDropped \cup {arCmd}
  BY ReportOnce DEF OnePlaceEach, OnePlace, Drop
<1>2. ArTyped' /\ AtCommand' /\ SoulFilesAgree'
  BY <1>1, FilesKept DEF ArTyped, AtCommand, Answered, ArLoopPlaces
<1>3. OnePlaceEach'
  BY <1>1 DEF OnePlaceEach, OnePlace, Up, Answered
<1>4. ReceivedIsAnswered' /\ DeadAreLost'
  BY <1>1 DEF ReceivedIsAnswered, DeadAreLost, Answered, Up
<1>5. BrainInv'
  BY DEF BrainInv, LockIsAhead, BearsSoul, Ahead, Up
<1> QED
  BY <1>2, <1>3, <1>4, <1>5

LEMMA ArmJobs ==
  ASSUME AInv, NEW c \in ArCommands, StartJob(c) \/ EndJob(c)
  PROVE  AInv'
<1> USE ArNames DEF AInv
<1>1. CASE StartJob(c)
  <2>1. /\ arPc = "recv" /\ c \in arLeft /\ c.kind \in Jobs /\ arLeft' = arLeft \ {c} /\ arJobs' = arJobs \cup {c}
        /\ UNCHANGED <<arPc, arCmd, arReports, arDropped, arSoul, arSoulMd, arSoulId, arApart, arLock, arStarter,
                       arBrain, arMode, arLost, arCancelled, arFatal, arRestarted>>
    BY <1>1 DEF StartJob, Take, Stay, arSoulVars, arBrainVars, arLifeVars
  <2>2. ArTyped' /\ AtCommand' /\ SoulFilesAgree'
    BY <2>1 DEF ArTyped, AtCommand, SoulFilesAgree
  <2>3. OnePlaceEach'
    BY <2>1 DEF OnePlaceEach, OnePlace, Up, AtCommand
  <2>4. ReceivedIsAnswered' /\ DeadAreLost'
    BY <2>1 DEF ReceivedIsAnswered, DeadAreLost, Up
  <2>5. BrainInv'
    BY <2>1 DEF BrainInv, LockIsAhead, BearsSoul, Ahead, Up
  <2> QED
    BY <2>2, <2>3, <2>4, <2>5
<1>2. CASE EndJob(c)
  <2>1. /\ Up /\ c \in arJobs /\ arJobs' = arJobs \ {c}
        /\ UNCHANGED <<arPc, arCmd, arLeft, arSoul, arSoulMd, arSoulId, arApart, arLock, arStarter,
                       arBrain, arMode, arLost, arCancelled, arFatal, arRestarted>>
    BY <1>2 DEF EndJob, Stay, arSoulVars, arBrainVars, arLifeVars
  <2>2. \/ Answered(c) /\ UNCHANGED arDropped
        \/ UNCHANGED arReports /\ arDropped' = arDropped \cup {c}
    BY <1>2, <2>1, ReportOnce DEF EndJob, Drop, OnePlaceEach, OnePlace
  <2>3. ArTyped' /\ AtCommand' /\ SoulFilesAgree'
    BY <2>1, <2>2 DEF ArTyped, AtCommand, SoulFilesAgree, Answered
  <2>4. c # arCmd /\ c \notin arLeft /\ arStarter[c].pc = "idle"
    BY <2>1 DEF OnePlaceEach, OnePlace, Jobs, Replacing
  <2>5. OnePlaceEach'
    BY <2>1, <2>2, <2>4 DEF OnePlaceEach, OnePlace, Up, Answered
  <2>6. ReceivedIsAnswered' /\ DeadAreLost'
    BY <2>1, <2>2 DEF ReceivedIsAnswered, DeadAreLost, Up, Answered
  <2>7. BrainInv'
    BY <2>1 DEF BrainInv, LockIsAhead, BearsSoul, Ahead, Up
  <2> QED
    BY <2>3, <2>5, <2>6, <2>7
<1> QED
  BY <1>1, <1>2

LEMMA TerminateKeeps ==
  ASSUME AInv, NEW c \in ArCommands, Terminate(c)
  PROVE  AInv'
<1> USE ArNames DEF AInv
<1>1. /\ arPc = "recv" /\ c \in arLeft /\ c.kind = "terminate" /\ arLeft' = arLeft \ {c}
      /\ arDropped' = arDropped \cup {c} /\ arPc' = "exit" /\ arCmd' = c /\ arCancelled' = TRUE /\ arStarter' = Killed
      /\ UNCHANGED <<arReports, arJobs, arSoul, arSoulMd, arSoulId, arApart, arLock, arBrain, arMode, arLost,
                     arFatal, arRestarted>>
  BY DEF Terminate, Take, Drop, Go, arSoulVars
<1>2. /\ arStarter' \in [Starters -> Goroutines]
      /\ \A s \in Starters : /\ arStarter'[s].soul = arStarter[s].soul
                             /\ arStarter'[s].pc = IF arStarter[s].pc = "alive" THEN "ended" ELSE arStarter[s].pc
  BY <1>1, KilledIs
<1>3. ArTyped' /\ AtCommand' /\ SoulFilesAgree'
  BY <1>1, <1>2 DEF ArTyped, AtCommand, SoulFilesAgree, ArLoopPlaces
<1>4. OnePlaceEach'
  BY <1>1, <1>2 DEF OnePlaceEach, OnePlace, Up, AtCommand
<1>5. ReceivedIsAnswered' /\ DeadAreLost'
  BY <1>1, <1>2 DEF ReceivedIsAnswered, DeadAreLost, Up, AtCommand
<1>6. BrainInv'
  BY <1>1, <1>2 DEF BrainInv, LockIsAhead, BearsSoul, Ahead, Up
<1> QED
  BY <1>3, <1>4, <1>5, <1>6

LEMMA WriteSoulIdKeeps ==
  ASSUME AInv, WriteSoulId
  PROVE  AInv'
<1> USE ArNames DEF AInv
<1>1. /\ arPc = "soul_id" /\ arSoulId' = arCmd.soul /\ arSoul' = arCmd.soul /\ arApart' = FALSE /\ arPc' = "want"
      /\ UNCHANGED <<arCmd, arLeft, arReports, arJobs, arDropped, arSoulMd, arLock, arStarter, arBrain, arMode,
                     arLost, arCancelled, arFatal, arRestarted>>
  BY DEF WriteSoulId, Go, arBrainVars, arLifeVars
<1>2. ArTyped' /\ AtCommand' /\ SoulFilesAgree'
  BY <1>1 DEF ArTyped, AtCommand, SoulFilesAgree, ArLoopPlaces, Replacing
<1>3. OnePlaceEach'
  BY <1>1 DEF OnePlaceEach, OnePlace, Up
<1>4. ReceivedIsAnswered' /\ DeadAreLost'
  BY <1>1 DEF ReceivedIsAnswered, DeadAreLost, Up
<1>5. BrainInv'
  BY <1>1 DEF BrainInv, LockIsAhead, BearsSoul, Ahead, Up, AtCommand
<1> QED
  BY <1>2, <1>3, <1>4, <1>5

LEMMA ReplaceBrainKeeps ==
  ASSUME AInv, ReplaceBrain
  PROVE  AInv'
<1> USE ArNames DEF AInv
<1> DEFINE c == arCmd
<1>1. /\ arPc = "want" /\ c.kind \in Replacing /\ arLock = Free /\ arLock' = c /\ arPc' = "recv" /\ arCmd' = NoCommand
      /\ arStarter' = [Killed EXCEPT ![c] = [pc |-> "starting", soul |-> arSoul]]
      /\ UNCHANGED <<arLeft, arJobs, arDropped, arSoul, arSoulMd, arSoulId, arApart, arBrain, arMode,
                     arLost, arCancelled, arFatal, arRestarted>>
  BY DEF ReplaceBrain, Go, arSoulVars, arLifeVars
<1>2. c \in ArCommands /\ arReports[c] = 0 /\ c \notin arLeft /\ c \notin arJobs /\ c # NoCommand
  BY <1>1 DEF AtCommand, OnePlaceEach, OnePlace
<1>3. IF c.kind = "sync_soul" THEN Answered(c) ELSE UNCHANGED arReports
  BY <1>2, ReportOnce DEF ReplaceBrain
<1>4. \A s \in Starters : ~Ahead(s)
  BY <1>1 DEF BrainInv, LockIsAhead, Up
<1>5. /\ arStarter' \in [Starters -> Goroutines] /\ arStarter'[c].pc = "starting" /\ arStarter'[c].soul = arSoul
      /\ \A s \in Starters : s # c => arStarter'[s].pc = arStarter[s].pc
  <2> DEFINE g == [pc |-> "starting", soul |-> arSoul]
  <2>1. g \in Goroutines /\ g.pc = "starting" /\ g.soul = arSoul
    BY GoroutineSteps DEF ArTyped, StarterPlaces
  <2> HIDE DEF g
  <2>2. Killed \in [Starters -> Goroutines] /\ \A s \in Starters : Killed[s].pc = arStarter[s].pc
    BY KilledIs, <1>4 DEF Ahead
  <2>3. arStarter' = [Killed EXCEPT ![c] = g]
    BY <1>1 DEF g
  <2> HIDE DEF c
  <2> QED
    BY <1>2, <2>1, <2>2, <2>3, StarterBecomes
<1> HIDE DEF c
<1>6. ArTyped'
  BY <1>1, <1>2, <1>3, <1>5 DEF ArTyped, ArLoopPlaces, Answered
<1>7. AtCommand' /\ SoulFilesAgree'
  BY <1>1 DEF AtCommand, SoulFilesAgree
<1>8. OnePlaceEach'
  BY <1>1, <1>2, <1>3, <1>5 DEF OnePlaceEach, OnePlace, Up, Answered, c
<1>9. ReceivedIsAnswered' /\ DeadAreLost'
  BY <1>1, <1>2, <1>3, <1>5 DEF ReceivedIsAnswered, DeadAreLost, Up, Answered, c
<1>10. BrainInv'
  BY <1>1, <1>2, <1>4, <1>5 DEF BrainInv, LockIsAhead, BearsSoul, Ahead, Up
<1> QED
  BY <1>6, <1>7, <1>8, <1>9, <1>10

LEMMA BootLocksKeeps ==
  ASSUME AInv, BootLocks
  PROVE  AInv'
<1> USE ArNames DEF AInv
<1>1. /\ Up /\ arLock = Free /\ arLock' = Boot
      /\ arStarter' = [arStarter EXCEPT ![Boot].pc = "starting"]
      /\ UNCHANGED <<arPc, arCmd, arLeft, arReports, arJobs, arDropped, arSoul, arSoulMd, arSoulId, arApart, arBrain,
                     arMode, arLost, arCancelled, arFatal, arRestarted>>
  BY DEF BootLocks, arCommandVars, arSoulVars, arLifeVars
<1>2. /\ arStarter' \in [Starters -> Goroutines] /\ arStarter'[Boot].pc = "starting"
      /\ \A s \in Starters : s # Boot => arStarter'[s] = arStarter[s]
  <2>1. ArTyped /\ Boot \in Starters /\ "starting" \in StarterPlaces
    BY DEF StarterPlaces
  <2>2. LET f == [arStarter EXCEPT ![Boot].pc = "starting"] IN
        /\ f \in [Starters -> Goroutines] /\ f[Boot].pc = "starting"
        /\ \A t \in Starters : t # Boot => f[t] = arStarter[t]
    BY <2>1, StarterGoes
  <2>3. arStarter' = [arStarter EXCEPT ![Boot].pc = "starting"]
    BY <1>1
  <2> QED
    BY <2>2, <2>3
<1>3. ArTyped' /\ AtCommand' /\ SoulFilesAgree'
  BY <1>1, <1>2 DEF ArTyped, AtCommand, SoulFilesAgree
<1>4. OnePlaceEach'
  BY <1>1, <1>2 DEF OnePlaceEach, OnePlace, Up
<1>5. ReceivedIsAnswered' /\ DeadAreLost'
  BY <1>1, <1>2 DEF ReceivedIsAnswered, DeadAreLost, Up
<1>6. BrainInv'
  BY <1>1, <1>2 DEF BrainInv, LockIsAhead, BearsSoul, Ahead, Up
<1> QED
  BY <1>3, <1>4, <1>5, <1>6

(* Once a child is started, or could not be, the command has its report.              *)
LEMMA ReportedAtStart ==
  ASSUME AInv, Up, NEW s \in Starters, arStarter[s].pc = "starting", ReportStart(s)
  PROVE  /\ arReports' \in [ArCommands -> {0, 1}]
         /\ s \in ArCommands => arReports'[s] = 1
         /\ \A d \in ArCommands : d # s => arReports'[d] = arReports[d]
<1> USE ArNames DEF AInv
<1>1. CASE s = Boot
  BY <1>1 DEF ReportStart, ArTyped
<1>2. CASE s # Boot
  <2>1. s \in ArCommands /\ s.kind \in Replacing /\ arReports[s] = IF s.kind = "sync_soul" THEN 1 ELSE 0
    BY <1>2 DEF OnePlaceEach, OnePlace
  <2>2. CASE s.kind = "sync_soul"
    BY <1>2, <2>1, <2>2 DEF ReportStart, ArTyped
  <2>3. CASE s.kind # "sync_soul"
    BY <1>2, <2>1, <2>3, ReportOnce DEF ReportStart, Replacing, Answered
  <2> QED
    BY <2>2, <2>3
<1> QED
  BY <1>1, <1>2

LEMMA IgniteKeeps ==
  ASSUME AInv, NEW s \in Starters, Ignite(s) \/ IgniteFails(s)
  PROVE  AInv'
<1> USE ArNames DEF AInv
<1>1. /\ Up /\ arStarter[s].pc = "starting" /\ ReportStart(s)
      /\ UNCHANGED <<arPc, arCmd, arLeft, arJobs, arDropped, arSoul, arSoulMd, arSoulId, arApart,
                     arMode, arLost, arCancelled, arFatal, arRestarted>>
  BY DEF Ignite, IgniteFails, arSoulVars, arLifeVars
<1>2. /\ arReports' \in [ArCommands -> {0, 1}]
      /\ s \in ArCommands => arReports'[s] = 1
      /\ \A d \in ArCommands : d # s => arReports'[d] = arReports[d]
  BY <1>1, ReportedAtStart
<1>3. /\ arStarter' \in [Starters -> Goroutines]
      /\ \A t \in Starters : t # s => arStarter'[t] = arStarter[t]
      /\ \/ arStarter'[s].pc = "alive" /\ arStarter'[s].soul = arStarter[s].soul /\ arLock' = arLock
         \/ arStarter'[s].pc = "idle" /\ arLock' = Free
  <2>1. CASE Ignite(s)
    <3>1. "alive" \in StarterPlaces /\ arLock' = arLock
          /\ arStarter' = [arStarter EXCEPT ![s].pc = "alive"]
      BY <2>1 DEF Ignite, StarterPlaces
    <3> QED
      BY <3>1, StarterGoes
  <2>2. CASE IgniteFails(s)
    <3>1. arStarter' = [arStarter EXCEPT ![s] = Idle] /\ arStarter \in [Starters -> Goroutines]
      BY <2>2 DEF IgniteFails, ArTyped
    <3> QED
      BY <2>2, <3>1, StarterBecomes, GoroutineSteps DEF IgniteFails
  <2> QED
    BY <2>1, <2>2
<1>4. arBrain' \in Starters \cup {NoBrain}
  BY DEF Ignite, IgniteFails, ArTyped
<1>5. ArTyped' /\ AtCommand' /\ SoulFilesAgree'
  BY <1>1, <1>2, <1>3, <1>4 DEF ArTyped, AtCommand, SoulFilesAgree
<1>6. s \in ArCommands => s \notin arLeft /\ s # arCmd /\ s \notin arJobs /\ s.kind \in Replacing
  BY <1>1 DEF OnePlaceEach, OnePlace, Jobs, Replacing
<1>7. OnePlaceEach'
  BY <1>1, <1>2, <1>3, <1>6 DEF OnePlaceEach, OnePlace, Up
<1>8. ReceivedIsAnswered' /\ DeadAreLost'
  BY <1>1, <1>2, <1>3 DEF ReceivedIsAnswered, DeadAreLost, Up
<1>9. BrainInv'
  BY <1>1, <1>3 DEF BrainInv, LockIsAhead, BearsSoul, Ahead, Up
<1> QED
  BY <1>5, <1>7, <1>8, <1>9

LEMMA BrainEnds ==
  ASSUME AInv, NEW s \in Starters, BrainExits(s) \/ UnlockBrain(s)
  PROVE  AInv'
<1> USE ArNames DEF AInv
<1>1. /\ Up /\ arStarter[s].pc \in {"alive", "ended"}
      /\ UNCHANGED <<arPc, arCmd, arLeft, arReports, arJobs, arDropped, arSoul, arSoulMd, arSoulId, arApart,
                     arBrain, arMode, arLost, arCancelled, arFatal, arRestarted>>
  BY DEF BrainExits, UnlockBrain, arSoulVars, arLifeVars, arCommandVars
<1>2. /\ arStarter' \in [Starters -> Goroutines]
      /\ \A t \in Starters : t # s => arStarter'[t] = arStarter[t]
      /\ \/ arStarter'[s].pc = "ended" /\ arLock' = arLock
         \/ arStarter'[s].pc = "idle" /\ arLock' = Free
  <2>1. CASE BrainExits(s)
    <3>1. "ended" \in StarterPlaces /\ arLock' = arLock
          /\ arStarter' = [arStarter EXCEPT ![s].pc = "ended"]
      BY <2>1 DEF BrainExits, StarterPlaces
    <3> QED
      BY <3>1, StarterGoes
  <2>2. CASE UnlockBrain(s)
    <3>1. arStarter' = [arStarter EXCEPT ![s] = Idle] /\ arStarter \in [Starters -> Goroutines]
      BY <2>2 DEF UnlockBrain, ArTyped
    <3> QED
      BY <2>2, <3>1, StarterBecomes, GoroutineSteps DEF UnlockBrain
  <2> QED
    BY <2>1, <2>2
<1>3. ArTyped' /\ AtCommand' /\ SoulFilesAgree'
  BY <1>1, <1>2 DEF ArTyped, AtCommand, SoulFilesAgree
<1>4. OnePlaceEach'
  BY <1>1, <1>2 DEF OnePlaceEach, OnePlace, Up
<1>5. ReceivedIsAnswered' /\ DeadAreLost'
  BY <1>1, <1>2 DEF ReceivedIsAnswered, DeadAreLost, Up
<1>6. BrainInv'
  BY <1>1, <1>2 DEF BrainInv, LockIsAhead, BearsSoul, Ahead, Up
<1> QED
  BY <1>3, <1>4, <1>5, <1>6

(* The process ends, and a new one begins.                                            *)
LEMMA ProcessEnds ==
  ASSUME AInv, arPc' = "dead", arCmd' = NoCommand, arJobs' = {}, arFatal' \in BOOLEAN,
         NEW taken \in SUBSET ArCommands, arLeft' = arLeft \ taken, arLost' = arLost \cup Everything \cup taken,
         FilesGo, UNCHANGED <<arReports, arDropped, arSoul, arLock, arStarter, arBrain, arMode, arCancelled, arRestarted>>
  PROVE  AInv'
<1> USE ArNames DEF AInv
<1>1. Everything \subseteq ArCommands /\ ~Up'
  BY DEF Everything, Up
<1>2. ArTyped' /\ AtCommand' /\ SoulFilesAgree'
  BY <1>1, FilesKept DEF ArTyped, AtCommand, ArLoopPlaces
<1>3. OnePlaceEach'
  BY <1>1 DEF OnePlaceEach, OnePlace
<1>4. \A c \in ArCommands \ arLeft' : arReports'[c] = 1 \/ c \in arLost'
  BY DEF Everything, ArTyped
<1>5. ReceivedIsAnswered' /\ DeadAreLost'
  BY <1>4 DEF ReceivedIsAnswered, DeadAreLost
<1>6. BrainInv'
  BY <1>1 DEF BrainInv, LockIsAhead, BearsSoul
<1> QED
  BY <1>2, <1>3, <1>5, <1>6

LEMMA RestartArmKeeps ==
  ASSUME AInv, RestartArm
  PROVE  AInv'
<1> USE ArNames DEF AInv
<1>1. /\ ~Up /\ arRestarted' \in 0 .. ArRestarts /\ arPc' = "open" /\ arCmd' = NoCommand /\ arSoul' = arSoulId
      /\ arStarter' = Booted(arSoulId, arMode) /\ arLock' = Free /\ arBrain' = NoBrain /\ arCancelled' = FALSE
      /\ UNCHANGED <<arLeft, arReports, arJobs, arDropped, arSoulMd, arSoulId, arApart, arMode, arLost, arFatal>>
  BY ArAssumption DEF RestartArm, Go, Up, ArTyped
<1>2. /\ arStarter' \in [Starters -> Goroutines]
      /\ \A s \in Starters : arStarter'[s].pc = "idle" \/ (s = Boot /\ arStarter'[s].pc = "waiting")
  BY <1>1, BootedIs DEF ArTyped
<1>3. ArTyped' /\ AtCommand' /\ SoulFilesAgree'
  BY <1>1, <1>2 DEF ArTyped, AtCommand, SoulFilesAgree, ArLoopPlaces
<1>4. OnePlaceEach'
  BY <1>1, <1>2 DEF OnePlaceEach, OnePlace
<1>5. ReceivedIsAnswered' /\ DeadAreLost'
  BY <1>1 DEF ReceivedIsAnswered, DeadAreLost, Up
<1>6. BrainInv'
  BY <1>1, <1>2 DEF BrainInv, LockIsAhead, BearsSoul, Ahead
<1> QED
  BY <1>3, <1>4, <1>5, <1>6

LEMMA ArmInvariant == ArSpec => []AInv
<1>1. ArInit => AInv
  <2> SUFFICES ASSUME ArInit PROVE AInv
    OBVIOUS
  <2> USE ArNames
  <2>1. PICK soul \in {NoSoul, "old"}, mode \in {"worker", "orchestrator"} :
          /\ arMode = mode /\ arStarter = Booted(soul, mode) /\ arSoul = soul /\ arSoulMd = soul /\ arSoulId = soul
          /\ arPc = "open" /\ arCmd = NoCommand /\ arLeft = ArCommands /\ arReports = [c \in ArCommands |-> 0]
          /\ arJobs = {} /\ arDropped = {} /\ arLost = {} /\ arApart = FALSE /\ arLock = Free /\ arBrain = NoBrain
          /\ arCancelled = FALSE /\ arFatal = FALSE /\ arRestarted = 0
    BY DEF ArInit
  <2>2. soul \in Souls
    BY DEF Souls
  <2>3. /\ arStarter \in [Starters -> Goroutines]
        /\ \A s \in Starters : arStarter[s].pc = "idle" \/ (s = Boot /\ arStarter[s].pc = "waiting")
    BY <2>1, <2>2, BootedIs
  <2>4. ArTyped
    <3>1. arRestarted \in 0 .. ArRestarts
      BY <2>1, ArAssumption
    <3>2. arReports \in [ArCommands -> {0, 1}]
      BY <2>1
    <3>3. arPc \in ArLoopPlaces /\ arLock \in {Free} \cup Starters /\ arBrain \in Starters \cup {NoBrain}
      BY <2>1 DEF ArLoopPlaces
    <3>4. arSoul \in Souls /\ arSoulId \in Souls
      BY <2>1, <2>2
    <3>5. /\ arLeft \subseteq ArCommands /\ arJobs \subseteq ArCommands
          /\ arDropped \subseteq ArCommands /\ arLost \subseteq ArCommands
          /\ arApart \in BOOLEAN /\ arCancelled \in BOOLEAN /\ arFatal \in BOOLEAN
      BY <2>1
    <3> QED
      BY <2>3, <3>1, <3>2, <3>3, <3>4, <3>5 DEF ArTyped
  <2>5. AtCommand /\ OnePlaceEach /\ ReceivedIsAnswered /\ DeadAreLost /\ SoulFilesAgree
    BY <2>1, <2>3 DEF AtCommand, OnePlaceEach, OnePlace, ReceivedIsAnswered, DeadAreLost, SoulFilesAgree, Up
  <2>6. BrainInv
    BY <2>1, <2>3 DEF BrainInv, LockIsAhead, BearsSoul, Ahead
  <2> QED
    BY <2>4, <2>5, <2>6 DEF AInv
<1>2. AInv /\ [ArNext]_arVars => AInv'
  <2> SUFFICES ASSUME AInv, [ArNext]_arVars PROVE AInv'
    OBVIOUS
  <2> USE DEF arSoulVars, arBrainVars, arLifeVars, arCommandVars, Go, Stay
  <2>1. arPc = "recv" => arCmd = NoCommand
    BY DEF AInv, AtCommand
  <2>2. CASE OpenStream \/ StreamBreaks \/ Reconnects \/ PeekBrain
    BY <2>2, LoopMoves DEF OpenStream, StreamBreaks, Reconnects, PeekBrain, LoopOnly, Up
  <2>3. CASE WriteSoulId
    BY <2>3, WriteSoulIdKeeps
  <2>4. CASE SoulIdFails \/ SignalBrain
    <3>1. arCmd \in ArCommands
      BY <2>4 DEF SoulIdFails, SignalBrain, AInv, AtCommand
    <3>2. FilesGo
      BY <2>4 DEF SoulIdFails, SignalBrain, FilesGo, AInv, ArTyped, AtCommand, Souls
    <3> QED
      BY <2>4, <3>1, <3>2, CommandEnds DEF SoulIdFails, SignalBrain
  <2>5. CASE ReplaceBrain
    BY <2>5, ReplaceBrainKeeps
  <2>6. CASE BootLocks
    BY <2>6, BootLocksKeeps
  <2>7. CASE Exit \/ HeartbeatRestart
    <3>1. Ends
      BY <2>7 DEF Exit, HeartbeatRestart
    <3>2. {} \in SUBSET ArCommands /\ arLeft' = arLeft \ {} /\ arLost' = arLost \cup Everything \cup {}
      BY <3>1 DEF Ends
    <3>3. arFatal' \in BOOLEAN
      BY <3>1 DEF Ends, AInv, ArTyped
    <3> QED
      BY <3>1, <3>2, <3>3, ProcessEnds DEF Ends, FilesGo
  <2>8. CASE RestartArm
    BY <2>8, RestartArmKeeps
  <2>18. ASSUME NEW c \in ArCommands, NEW soul \in {NoSoul, c.soul}, SyncsFile(c, soul)
         PROVE  FilesGo /\ UNCHANGED arSoul
    BY <2>18, SyncedFiles, ArNames DEF AInv, Souls
  <2>9. ASSUME NEW c \in ArCommands,
               \/ RunInline(c) \/ RefuseSoul(c) \/ ReloadSkipped(c) \/ SyncRefused(c) \/ SyncFails(c)
               \/ SyncWritten(c) /\ ~SyncReloads(c)
        PROVE  AInv'
    <3>1. FilesGo /\ UNCHANGED arSoul
      BY <2>9, <2>18 DEF RunInline, RefuseSoul, ReloadSkipped, SyncRefused, SyncFails, SyncWritten, FilesGo
    <3>2. Taken(c) /\ Report(c) /\ UNCHANGED <<arPc, arCmd, arJobs, arDropped>>
      BY <2>1, <2>9, <3>1 DEF RunInline, RefuseSoul, ReloadSkipped, SyncRefused, SyncFails, SyncWritten, Take, Taken
    <3> QED
      BY <3>1, <3>2, TakenAndAnswered
  <2>10. ASSUME NEW c \in ArCommands, RunSilent(c) \/ DropSoul(c) \/ SoulFails(c) \/ SyncInvalid(c) PROVE AInv'
    <3>1. FilesGo /\ UNCHANGED arSoul
      BY <2>10 DEF RunSilent, DropSoul, SoulFails, SyncInvalid, FilesGo, AInv, ArTyped
    <3>2. Taken(c) /\ Drop(c) /\ UNCHANGED <<arPc, arCmd, arJobs>>
      BY <2>1, <2>10, <3>1 DEF RunSilent, DropSoul, SoulFails, SyncInvalid, Take, Taken
    <3> QED
      BY <3>1, <3>2, TakenAndDropped
  <2>11. ASSUME NEW c \in ArCommands, Reload(c) \/ Nudge(c) \/ WriteSoul(c) \/ (SyncWritten(c) /\ SyncReloads(c))
         PROVE  AInv'
    <3>1. FilesGo /\ UNCHANGED arSoul
      BY <2>11, <2>18 DEF Reload, Nudge, WriteSoul, SyncWritten, FilesGo, AInv, ArTyped
    <3>2. Taken(c) /\ UNCHANGED <<arReports, arJobs, arDropped>> /\ arCmd' = c
      BY <2>1, <2>11, <3>1 DEF Reload, Nudge, WriteSoul, SyncWritten, Take, Taken
    <3>3. \/ arPc' = "want" /\ c.kind \in Replacing \cup Nudging
          \/ arPc' = "soul_id" /\ c.kind = "soul" /\ arSoulMd' = c.soul /\ arApart' = TRUE
      BY <2>11 DEF Reload, Nudge, WriteSoul, SyncWritten, SyncReloads, Take, Replacing
    <3> QED
      BY <3>1, <3>2, <3>3, TakenToDo
  <2>12. ASSUME NEW c \in ArCommands, StartJob(c) \/ EndJob(c) PROVE AInv'
    BY <2>12, ArmJobs
  <2>13. ASSUME NEW c \in ArCommands, Terminate(c) PROVE AInv'
    BY <2>13, TerminateKeeps
  <2>14. ASSUME NEW c \in ArCommands, SyncWithoutSoul(c) PROVE AInv'
    <3>1. {c} \in SUBSET ArCommands /\ arFatal' \in BOOLEAN
      BY <2>14 DEF SyncWithoutSoul
    <3>2. FilesGo /\ UNCHANGED arSoul
      BY <2>14, <2>18 DEF SyncWithoutSoul
    <3> QED
      BY <2>14, <3>1, <3>2, ProcessEnds DEF SyncWithoutSoul, Take
  <2>15. ASSUME NEW s \in Starters, Ignite(s) \/ IgniteFails(s) PROVE AInv'
    BY <2>15, IgniteKeeps
  <2>16. ASSUME NEW s \in Starters, BrainExits(s) \/ UnlockBrain(s) PROVE AInv'
    BY <2>16, BrainEnds
  <2>17. CASE UNCHANGED arVars
    BY <2>17 DEF arVars, AInv, ArTyped, AtCommand, OnePlaceEach, OnePlace, ReceivedIsAnswered, DeadAreLost, BrainInv,
       LockIsAhead, BearsSoul, Ahead, Up, SoulFilesAgree
  <2> QED
    BY <2>2, <2>3, <2>4, <2>5, <2>6, <2>7, <2>8, <2>9, <2>10, <2>11, <2>12, <2>13, <2>14, <2>15, <2>16, <2>17 DEF ArNext
<1> QED
  BY <1>1, <1>2, PTL DEF ArSpec

(* Of the children siam-arm starts one at most lives, it bears the current soul, the  *)
(* mutex is held for nothing but a brain, the two soul files agree unless one was       *)
(* written alone, and every command that was received is answered, dropped or at work   *)
(* (siam-arm/main.go).                                                                *)
THEOREM OneBrainPerNode == ArSpec => []ArmSafe
<1>1. AInv => ArmSafe
  <2> SUFFICES ASSUME AInv PROVE ArmSafe
    OBVIOUS
  <2> USE ArNames DEF AInv
  <2>1. ArTypeOK
    <3>1. \A s \in Starters : arStarter[s].pc \in StarterPlaces
      BY GoroutineSteps DEF ArTyped
    <3>2. arCmd \in ArCommands \cup {NoCommand}
      BY DEF ArTyped, AtCommand, ArLoopPlaces
    <3>3. {0, 1} = 0 .. 1
      OBVIOUS
    <3> QED
      BY <3>1, <3>2, <3>3 DEF ArTyped, ArTypeOK, ArLoopPlaces, StarterPlaces
  <2>2. OneBrain
    <3>1. Up => Alive \subseteq {arLock}
      BY DEF BrainInv, LockIsAhead, Ahead, Alive
    <3>2. IsFiniteSet({arLock}) /\ Cardinality({arLock}) = 1
      BY FS_Singleton
    <3>3. Up => Cardinality(Alive) <= Cardinality({arLock})
      BY <3>1, <3>2, FS_Subset
    <3> QED
      BY <3>2, <3>3 DEF OneBrain
  <2>3. LockHasBrain
    BY DEF LockHasBrain, BrainInv, LockIsAhead, Ahead, ArTyped
  <2>4. BrainBearsSoul
    BY DEF BrainBearsSoul, BrainInv, BearsSoul, Alive
  <2> QED
    BY <2>1, <2>2, <2>3, <2>4 DEF ArmSafe
<1> QED
  BY <1>1, ArmInvariant, PTL

------------------------------------------------------------------------------------
(* The voice of a node (Voice).                                                       *)
SpeakPlaces == {"new", "synth", "play", "own", "report", "clear", "done"}
MicPlaces == {"off", "top", "decay", "record", "stt", "ended"}
VcTyped ==
    /\ vcFlag \in BOOLEAN /\ vcActive \in BOOLEAN /\ vcOverlap \in BOOLEAN /\ vcLateExit \in BOOLEAN
    /\ vcSpeak \in [VcSpeakers -> SpeakPlaces] /\ vcWav \in VcSpeakers \cup {None}
    /\ vcMic \in [Recorders -> MicPlaces] /\ vcHeard \in [VcLoops -> SUBSET VcSpeakers]
    /\ vcTold \in [VcSpeakers \cup VcListens -> {0, 1}]
    /\ vcRegistered \subseteq VcLoops /\ vcStopped \subseteq Loops
    /\ vcCancel \in Wakes \cup {None} /\ vcStarted \in 0 .. Len(VcWakes)

(* Without overlap one speaker at most is between the two writes of the flag, and     *)
(* has it up; the shared file is there while the one who wrote it plays.              *)
OneSpeaker == ~vcOverlap => \A s \in VcSpeakers : Busy(s) => vcFlag /\ \A t \in VcSpeakers : Busy(t) => s = t
WavIsPlayed == vcWav # None => vcSpeak[vcWav] = "play"
SpeakTold == \A s \in VcSpeakers : vcSpeak[s] \notin {"clear", "done"} => vcTold[s] = 0
SpeakInv == OneSpeaker /\ WavIsPlayed /\ SpeakTold /\ MutedBySpeech

(* What a loop has heard has begun, so it does not begin to sound while the loop      *)
(* transcribes.                                                                       *)
HeardHasBegun == \A l \in VcLoops : \A s \in vcHeard[l] : vcSpeak[s] \notin {"new", "synth"}
EchoInv == HeardHasBegun /\ EchoIsShort

ListenTold == \A m \in VcListens : vcMic[m] # "ended" => vcTold[m] = 0
(* Whenever the wake word is marked inactive the latest loop is cancelled, unless a   *)
(* late exit marked it.                                                               *)
WakeCancelled ==
    /\ vcStarted = 0 => \A g \in Wakes : vcMic[g] = "off"
    /\ vcStarted > 0 => vcCancel \in Wakes
    /\ ~vcLateExit /\ ~vcActive /\ vcStarted > 0 => vcCancel \in vcStopped
MicInv == ListenTold /\ StopReaches /\ WakeCancelled /\ OneWakeLoop
VoiceInv == VcTyped /\ SpeakInv /\ EchoInv /\ MicInv

LEMMA SpeakerAt ==
  ASSUME VcTyped, NEW s \in VcSpeakers, NEW pc \in SpeakPlaces, At(s, pc)
  PROVE  /\ vcSpeak' \in [VcSpeakers -> SpeakPlaces] /\ vcSpeak'[s] = pc
         /\ \A t \in VcSpeakers : t # s => vcSpeak'[t] = vcSpeak[t]
  BY DEF VcTyped, At

LEMMA MicAt ==
  ASSUME VcTyped, NEW r \in Recorders, NEW pc \in MicPlaces, Mic(r, pc)
  PROVE  /\ vcMic' \in [Recorders -> MicPlaces] /\ vcMic'[r] = pc
         /\ \A q \in Recorders : q # r => vcMic'[q] = vcMic[q]
  BY DEF VcTyped, Mic

LEMMA ReportedOnce ==
  ASSUME VcTyped, NEW c \in VcSpeakers \cup VcListens, vcTold[c] = 0, Reported(c)
  PROVE  /\ vcTold' \in [VcSpeakers \cup VcListens -> {0, 1}]
         /\ \A d \in VcSpeakers \cup VcListens : d # c => vcTold'[d] = vcTold[d]
  BY DEF VcTyped, Reported

LEMMA HeardMore ==
  ASSUME VcTyped, NEW s \in VcSpeakers, Sounds(s)
  PROVE  /\ vcHeard' \in [VcLoops -> SUBSET VcSpeakers]
         /\ \A l \in VcLoops : vcHeard'[l] = IF vcMic[l] = "record" THEN vcHeard[l] \cup {s} ELSE vcHeard[l]
<1>1. ASSUME NEW l \in VcLoops
      PROVE  /\ vcHeard[l] \cup (IF vcMic[l] = "record" THEN {s} ELSE {}) \in SUBSET VcSpeakers
             /\ vcHeard[l] \cup (IF vcMic[l] = "record" THEN {s} ELSE {})
                    = IF vcMic[l] = "record" THEN vcHeard[l] \cup {s} ELSE vcHeard[l]
  BY DEF VcTyped
<1> QED
  BY <1>1 DEF Sounds

LEMMA HeardAnew ==
  ASSUME VcTyped, NEW r \in Recorders, Record(r)
  PROVE  /\ vcHeard' \in [VcLoops -> SUBSET VcSpeakers]
         /\ \A l \in VcLoops : vcHeard'[l] = IF l = r THEN Sounding ELSE vcHeard[l]
<1>1. Sounding \in SUBSET VcSpeakers
  BY DEF Sounding
<1> QED
  BY <1>1 DEF Record, VcTyped

(* A speaker's step that begins no sound and does not touch the flag's ends.          *)
MicsStay == UNCHANGED <<vcMic, vcRegistered, vcStopped, vcActive, vcCancel, vcStarted, vcLateExit>>
LEMMA MicsStayKeeps ==
  ASSUME MicInv, MicsStay, \A m \in VcListens : vcMic[m] # "ended" => vcTold'[m] = 0
  PROVE  MicInv'
  BY DEF MicInv, MicsStay, ListenTold, StopReaches, WakeCancelled, OneWakeLoop

LEMMA TakeFlagKeeps ==
  ASSUME VoiceInv, NEW s \in VcSpeakers, TakeFlag(s)
  PROVE  VoiceInv'
<1> USE DEF VoiceInv
<1>1. /\ vcSpeak[s] = "new" /\ vcFlag' = TRUE /\ vcOverlap' = (vcOverlap \/ \E t \in VcSpeakers \ {s} : Busy(t))
      /\ UNCHANGED <<vcWav, vcTold, vcMic, vcRegistered, vcStopped, vcHeard, vcActive, vcCancel, vcStarted, vcLateExit>>
  BY DEF TakeFlag, vcMicVars, vcWakeVars
<1>2. /\ vcSpeak' \in [VcSpeakers -> SpeakPlaces] /\ vcSpeak'[s] = "synth"
      /\ \A t \in VcSpeakers : t # s => vcSpeak'[t] = vcSpeak[t]
  BY SpeakerAt DEF TakeFlag, SpeakPlaces
<1>3. VcTyped'
  BY <1>1, <1>2 DEF VcTyped
<1>4. SpeakInv'
  BY <1>1, <1>2 DEF SpeakInv, OneSpeaker, WavIsPlayed, SpeakTold, MutedBySpeech, Busy, VcTyped
<1>5. EchoInv'
  <2>1. Sounding' = Sounding
    BY <1>1, <1>2 DEF Sounding
  <2> QED
    BY <1>1, <1>2, <2>1 DEF EchoInv, HeardHasBegun, EchoIsShort, VcTyped
<1>6. MicInv'
  BY <1>1, MicsStayKeeps DEF MicsStay, MicInv, ListenTold
<1> QED
  BY <1>3, <1>4, <1>5, <1>6
(* A speaker is refused, reports, or ends a part of its speech.                       *)
LEMMA SpeakerGoesOn ==
  ASSUME VoiceInv, NEW s \in VcSpeakers, SpeakEmpty(s) \/ PlayEnds(s) \/ OwnEnds(s) \/ ReportSpeak(s) \/ ClearFlag(s)
  PROVE  VoiceInv'
<1> USE DEF VoiceInv
<1>1. UNCHANGED <<vcOverlap, vcMic, vcRegistered, vcStopped, vcHeard, vcActive, vcCancel, vcStarted, vcLateExit>>
  BY DEF SpeakEmpty, PlayEnds, OwnEnds, ReportSpeak, ClearFlag, vcMicVars, vcWakeVars
<1>2. PICK pc \in SpeakPlaces : At(s, pc) /\ pc \notin {"new", "synth", "play", "own"}
  BY DEF SpeakEmpty, PlayEnds, OwnEnds, ReportSpeak, ClearFlag, SpeakPlaces
<1>3. /\ vcSpeak' \in [VcSpeakers -> SpeakPlaces] /\ vcSpeak'[s] = pc
      /\ \A t \in VcSpeakers : t # s => vcSpeak'[t] = vcSpeak[t]
  BY <1>2, SpeakerAt
<1>4. /\ \/ vcFlag' = vcFlag /\ (Busy(s) <=> Busy(s)')
         \/ vcFlag' = FALSE /\ Busy(s) /\ pc = "done"
      /\ vcWav' \in {vcWav, None} /\ (vcSpeak[s] = "play" => vcWav' = None)
  <2>1. CASE SpeakEmpty(s)
    BY <2>1, <1>3, SpeakerAt DEF SpeakEmpty, Busy, SpeakPlaces
  <2>2. CASE PlayEnds(s)
    BY <2>2, <1>3, SpeakerAt DEF PlayEnds, Busy, SpeakPlaces, RemoveWav
  <2>3. CASE OwnEnds(s)
    BY <2>3, <1>3, SpeakerAt DEF OwnEnds, Busy, SpeakPlaces
  <2>4. CASE ReportSpeak(s)
    BY <2>4, <1>3, SpeakerAt DEF ReportSpeak, Busy, SpeakPlaces
  <2>5. CASE ClearFlag(s)
    BY <2>5, <1>3, SpeakerAt DEF ClearFlag, Busy, SpeakPlaces
  <2> QED
    BY <2>1, <2>2, <2>3, <2>4, <2>5
<1>5. /\ vcTold' \in [VcSpeakers \cup VcListens -> {0, 1}]
      /\ \A d \in VcSpeakers \cup VcListens : d # s => vcTold'[d] = vcTold[d]
      /\ pc \notin {"clear", "done"} => vcTold'[s] = 0
  <2>1. CASE SpeakEmpty(s) \/ ReportSpeak(s)
    <3>1. vcTold[s] = 0 /\ Reported(s)
      BY <2>1 DEF SpeakEmpty, ReportSpeak, SpeakInv, SpeakTold
    <3>2. pc \in {"clear", "done"}
      BY <2>1, <1>3, SpeakerAt DEF SpeakEmpty, ReportSpeak, SpeakPlaces
    <3> QED
      BY <3>1, <3>2, ReportedOnce
  <2>2. CASE PlayEnds(s) \/ OwnEnds(s) \/ ClearFlag(s)
    <3>1. vcTold' = vcTold /\ (vcSpeak[s] = "clear" => pc = "done")
      BY <2>2, <1>3, SpeakerAt DEF PlayEnds, OwnEnds, ClearFlag, SpeakPlaces
    <3>2. pc \notin {"clear", "done"} => vcTold[s] = 0
      BY <2>2, <3>1 DEF PlayEnds, OwnEnds, ClearFlag, SpeakInv, SpeakTold
    <3> QED
      BY <3>1, <3>2 DEF VcTyped
  <2> QED
    BY <2>1, <2>2
<1>6. VcTyped'
  BY <1>1, <1>3, <1>4, <1>5 DEF VcTyped
<1>7. OneSpeaker' /\ MutedBySpeech'
  BY <1>1, <1>3, <1>4 DEF SpeakInv, OneSpeaker, MutedBySpeech, Busy, VcTyped, SpeakPlaces
<1>8. WavIsPlayed'
  BY <1>3, <1>4 DEF SpeakInv, WavIsPlayed, VcTyped
<1>9. SpeakTold'
  BY <1>3, <1>5 DEF SpeakInv, SpeakTold
<1>10. EchoInv'
  <2>1. Sounding' \subseteq Sounding
    BY <1>2, <1>3 DEF Sounding
  <2> QED
    BY <1>1, <1>2, <1>3, <2>1 DEF EchoInv, HeardHasBegun, EchoIsShort, VcTyped
<1>11. MicInv'
  <2>1. \A m \in VcListens : m # s
    BY VcAssumption
  <2>2. \A m \in VcListens : vcMic[m] # "ended" => vcTold'[m] = 0
    BY <1>5, <2>1 DEF MicInv, ListenTold
  <2> QED
    BY <1>1, <2>2, MicsStayKeeps DEF MicsStay
<1> QED
  BY <1>6, <1>7, <1>8, <1>9, <1>10, <1>11 DEF SpeakInv

(* A voice begins to sound: Piper's, or the one that needs no file.                   *)
LEMMA VoiceBegins ==
  ASSUME VoiceInv, NEW s \in VcSpeakers, Synthesise(s) \/ PiperFails(s)
  PROVE  VoiceInv'
<1> USE DEF VoiceInv
<1>1. /\ Sounds(s) /\ vcSpeak[s] \in {"synth", "play"}
      /\ UNCHANGED <<vcFlag, vcTold, vcOverlap, vcMic, vcRegistered, vcStopped, vcActive, vcCancel, vcStarted, vcLateExit>>
  BY DEF Synthesise, PiperFails, vcMicVars, vcWakeVars
<1>2. PICK pc \in SpeakPlaces : /\ At(s, pc) /\ pc \in {"play", "own"}
                                /\ (pc = "play" /\ vcWav' = s /\ vcSpeak[s] = "synth") \/ (pc = "own" /\ vcWav' = None)
  BY DEF Synthesise, PiperFails, RemoveWav, SpeakPlaces
<1>3. /\ vcSpeak' \in [VcSpeakers -> SpeakPlaces] /\ vcSpeak'[s] = pc
      /\ \A t \in VcSpeakers : t # s => vcSpeak'[t] = vcSpeak[t]
  BY <1>2, SpeakerAt
<1>4. /\ vcHeard' \in [VcLoops -> SUBSET VcSpeakers]
      /\ \A l \in VcLoops : vcHeard'[l] = IF vcMic[l] = "record" THEN vcHeard[l] \cup {s} ELSE vcHeard[l]
  BY <1>1, HeardMore
<1>5. VcTyped'
  BY <1>1, <1>2, <1>3, <1>4 DEF VcTyped
<1>6. OneSpeaker' /\ MutedBySpeech'
  BY <1>1, <1>2, <1>3 DEF SpeakInv, OneSpeaker, MutedBySpeech, Busy
<1>7. WavIsPlayed' /\ SpeakTold'
  BY <1>1, <1>2, <1>3 DEF SpeakInv, WavIsPlayed, SpeakTold
<1>8. EchoInv'
  <2>1. HeardHasBegun'
    BY <1>2, <1>3, <1>4 DEF EchoInv, HeardHasBegun, VcTyped
  <2>2. ASSUME NEW l \in VcLoops, vcMic[l] = "stt", ~vcOverlap PROVE vcHeard[l] \cap Sounding' = {}
    <3>1. Sounding' \subseteq Sounding \cup {s}
      BY <1>3 DEF Sounding
    <3>2. vcHeard[l] \cap Sounding = {}
      BY <2>2 DEF EchoInv, EchoIsShort
    <3>3. s \notin vcHeard[l]
      BY <1>1, <3>2 DEF EchoInv, HeardHasBegun, Sounding
    <3> QED
      BY <3>1, <3>2, <3>3
  <2> QED
    BY <1>1, <1>4, <2>1, <2>2 DEF EchoInv, EchoIsShort
<1>9. MicInv'
  BY <1>1, MicsStayKeeps DEF MicsStay, MicInv, ListenTold
<1> QED
  BY <1>5, <1>6, <1>7, <1>8, <1>9 DEF SpeakInv

(* No speaker moves.                                                                  *)
SpeechStays == UNCHANGED <<vcFlag, vcSpeak, vcWav, vcOverlap>>
LEMMA SpeechStaysKeeps ==
  ASSUME SpeakInv, SpeechStays, \A s \in VcSpeakers : vcTold'[s] = vcTold[s]
  PROVE  SpeakInv'
  BY DEF SpeakInv, SpeechStays, OneSpeaker, WavIsPlayed, SpeakTold, MutedBySpeech, Busy

(* SYSTEM_LISTEN.                                                                     *)
LEMMA ListenKeeps ==
  ASSUME VoiceInv, NEW m \in VcListens, ListenLocked(m) \/ ListenRecords(m) \/ ListenAnswers(m)
  PROVE  VoiceInv'
<1> USE DEF VoiceInv
<1>1. UNCHANGED <<vcFlag, vcSpeak, vcWav, vcOverlap, vcHeard, vcRegistered, vcStopped, vcActive, vcCancel, vcStarted,
                  vcLateExit>>
  BY DEF ListenLocked, ListenRecords, ListenAnswers, vcSpeakVars, vcWakeVars
<1>2. PICK pc \in MicPlaces : /\ Mic(m, pc) /\ pc \in {"record", "ended"} /\ vcMic[m] # "ended"
                              /\ (pc = "record" /\ vcTold' = vcTold) \/ (pc = "ended" /\ Reported(m))
  BY DEF ListenLocked, ListenRecords, ListenAnswers, MicPlaces
<1>3. /\ vcMic' \in [Recorders -> MicPlaces] /\ vcMic'[m] = pc
      /\ \A q \in Recorders : q # m => vcMic'[q] = vcMic[q]
  BY <1>2, MicAt DEF Recorders
<1>4. vcTold[m] = 0
  BY <1>2 DEF MicInv, ListenTold
<1>5. /\ vcTold' \in [VcSpeakers \cup VcListens -> {0, 1}]
      /\ \A d \in VcSpeakers \cup VcListens : d # m => vcTold'[d] = vcTold[d]
      /\ pc # "ended" => vcTold'[m] = 0
  BY <1>2, <1>4, ReportedOnce DEF VcTyped
<1>6. m \notin VcLoops /\ m \notin Wakes /\ m \notin VcSpeakers
  BY VcAssumption
<1>7. VcTyped'
  BY <1>1, <1>3, <1>5 DEF VcTyped
<1>8. SpeakInv'
  BY <1>1, <1>5, <1>6, SpeechStaysKeeps DEF SpeechStays
<1>9. EchoInv'
  BY <1>1, <1>3, <1>6 DEF EchoInv, HeardHasBegun, EchoIsShort, Sounding, Recorders
<1>10. MicInv'
  <2>1. ListenTold'
    BY <1>3, <1>5 DEF MicInv, ListenTold, Recorders
  <2>2. StopReaches' /\ WakeCancelled' /\ OneWakeLoop'
    BY <1>1, <1>3, <1>6 DEF MicInv, StopReaches, WakeCancelled, OneWakeLoop, Recorders
  <2> QED
    BY <2>1, <2>2 DEF MicInv
<1> QED
  BY <1>7, <1>8, <1>9, <1>10

(* A listen loop.                                                                     *)
LEMMA LoopKeeps ==
  ASSUME VoiceInv, NEW l \in VcLoops,
         LoopStarts(l) \/ LoopWaits(l) \/ LoopRecords(l) \/ RecordFails(l) \/ RecordEnds(l) \/ Transcribed(l) \/ LoopExits(l)
  PROVE  VoiceInv'
<1> USE DEF VoiceInv
<1>1. UNCHANGED <<vcFlag, vcSpeak, vcWav, vcOverlap, vcTold, vcStopped, vcActive, vcCancel, vcStarted, vcLateExit>>
  BY DEF LoopStarts, LoopWaits, LoopRecords, RecordFails, RecordEnds, Transcribed, LoopExits, vcSpeakVars, vcWakeVars
<1>2. /\ l \in Recorders /\ l \notin VcListens /\ l \notin Wakes
  BY VcAssumption DEF Recorders
<1>3. PICK pc \in MicPlaces : Mic(l, pc) /\ pc # "off" /\ (pc = "stt" => ~vcFlag /\ vcHeard' = vcHeard)
  BY DEF LoopStarts, LoopWaits, LoopRecords, RecordFails, RecordEnds, Transcribed, LoopExits, Record, Segment, MicPlaces
<1>4. /\ vcMic' \in [Recorders -> MicPlaces] /\ vcMic'[l] = pc
      /\ \A q \in Recorders : q # l => vcMic'[q] = vcMic[q]
  BY <1>2, <1>3, MicAt
<1>5. /\ vcHeard' \in [VcLoops -> SUBSET VcSpeakers]
      /\ \A k \in VcLoops : k # l => vcHeard'[k] = vcHeard[k]
      /\ vcHeard'[l] \in {vcHeard[l], {}, Sounding}
  <2>1. CASE LoopRecords(l)
    BY <2>1, <1>2, HeardAnew DEF LoopRecords
  <2>2. CASE Transcribed(l)
    BY <2>2 DEF Transcribed, VcTyped
  <2>3. CASE ~LoopRecords(l) /\ ~Transcribed(l)
    BY <2>3 DEF LoopStarts, LoopWaits, RecordFails, RecordEnds, LoopExits, VcTyped
  <2> QED
    BY <2>1, <2>2, <2>3
<1>6. vcRegistered' \subseteq VcLoops /\ \A k \in VcLoops : k # l => (k \in vcRegistered' <=> k \in vcRegistered)
  BY DEF LoopStarts, LoopWaits, LoopRecords, RecordFails, RecordEnds, Transcribed, LoopExits, VcTyped
<1>7. pc # "ended" /\ l \notin vcStopped => l \in vcRegistered'
  <2>1. CASE LoopStarts(l) \/ LoopExits(l)
    BY <2>1 DEF LoopStarts, LoopExits
  <2>2. CASE LoopWaits(l) \/ LoopRecords(l) \/ RecordFails(l) \/ RecordEnds(l) \/ Transcribed(l)
    BY <2>2 DEF LoopWaits, LoopRecords, RecordFails, RecordEnds, Transcribed, MicInv, StopReaches
  <2> QED
    BY <2>1, <2>2
<1>8. VcTyped'
  BY <1>1, <1>4, <1>5, <1>6 DEF VcTyped
<1>9. SpeakInv'
  BY <1>1, SpeechStaysKeeps DEF SpeechStays
<1>10. EchoInv'
  <2>1. Sounding' = Sounding
    BY <1>1 DEF Sounding
  <2>2. HeardHasBegun'
    BY <1>1, <1>5 DEF EchoInv, HeardHasBegun, Sounding
  <2>3. ~vcFlag /\ ~vcOverlap => Sounding = {}
    BY DEF SpeakInv, OneSpeaker, Busy, Sounding
  <2>4. EchoIsShort'
    BY <1>1, <1>3, <1>4, <1>5, <2>1, <2>3 DEF EchoInv, EchoIsShort, Recorders
  <2> QED
    BY <2>2, <2>4 DEF EchoInv
<1>11. MicInv'
  <2>1. ListenTold' /\ WakeCancelled' /\ OneWakeLoop'
    BY <1>1, <1>2, <1>4 DEF MicInv, ListenTold, WakeCancelled, OneWakeLoop, Recorders
  <2>2. StopReaches'
    BY <1>1, <1>4, <1>6, <1>7 DEF MicInv, StopReaches, Recorders
  <2> QED
    BY <2>1, <2>2 DEF MicInv
<1> QED
  BY <1>8, <1>9, <1>10, <1>11

LEMMA ListenStopKeeps ==
  ASSUME VoiceInv, NEW l \in VcLoops, ListenStop(l)
  PROVE  VoiceInv'
<1> USE DEF VoiceInv
<1>1. /\ vcRegistered' = vcRegistered \ {l} /\ vcStopped' = vcStopped \cup {l}
      /\ UNCHANGED <<vcFlag, vcSpeak, vcWav, vcOverlap, vcTold, vcMic, vcHeard, vcActive, vcCancel, vcStarted, vcLateExit>>
  BY DEF ListenStop, vcSpeakVars, vcWakeVars
<1>2. VcTyped'
  BY <1>1 DEF VcTyped, Loops
<1>3. SpeakInv'
  BY <1>1, SpeechStaysKeeps DEF SpeechStays
<1>4. EchoInv'
  BY <1>1 DEF EchoInv, HeardHasBegun, EchoIsShort, Sounding
<1>5. MicInv'
  BY <1>1 DEF MicInv, ListenTold, StopReaches, WakeCancelled, OneWakeLoop
<1> QED
  BY <1>2, <1>3, <1>4, <1>5

(* The wake word loops.                                                               *)
LEMMA WakeStarts ==
  ASSUME VoiceInv, NEW g \in Wakes, StartWake(g)
  PROVE  VoiceInv'
<1> USE DEF VoiceInv
<1>1. /\ ~vcActive /\ vcActive' = TRUE /\ vcCancel' = g /\ vcStarted < Len(VcWakes) /\ vcStarted' = vcStarted + 1
      /\ UNCHANGED <<vcFlag, vcSpeak, vcWav, vcOverlap, vcTold, vcHeard, vcRegistered, vcStopped, vcLateExit>>
  BY DEF StartWake, vcSpeakVars
<1>2. g \in Recorders /\ g \notin VcListens /\ g \notin VcLoops
  BY VcAssumption DEF Recorders
<1>3. /\ vcMic' \in [Recorders -> MicPlaces] /\ vcMic'[g] = "top"
      /\ \A q \in Recorders : q # g => vcMic'[q] = vcMic[q]
  BY <1>2, MicAt DEF StartWake, MicPlaces
<1>4. VcTyped'
  <2>1. Len(VcWakes) \in Nat
    BY VcAssumption
  <2>2. vcStarted' \in 0 .. Len(VcWakes)
    BY <1>1, <2>1 DEF VcTyped
  <2> QED
    BY <1>1, <1>3, <2>2 DEF VcTyped
<1>5. SpeakInv'
  BY <1>1, SpeechStaysKeeps DEF SpeechStays
<1>6. EchoInv'
  BY <1>1, <1>2, <1>3 DEF EchoInv, HeardHasBegun, EchoIsShort, Sounding, Recorders
<1>7. ListenTold' /\ StopReaches'
  BY <1>1, <1>2, <1>3 DEF MicInv, ListenTold, StopReaches, Recorders
<1>8. vcStarted' # 0 /\ (vcStarted = 0 \/ vcStarted > 0)
  BY <1>1 DEF VcTyped
<1>9. WakeCancelled'
  BY <1>1, <1>8 DEF WakeCancelled
<1>10. OneWakeLoop'
  BY <1>1, <1>3, <1>8 DEF MicInv, WakeCancelled, OneWakeLoop, Recorders
<1> QED
  BY <1>4, <1>5, <1>6, <1>7, <1>9, <1>10 DEF MicInv

LEMMA StopWakeKeeps ==
  ASSUME VoiceInv, StopWake
  PROVE  VoiceInv'
<1> USE DEF VoiceInv
<1>1. /\ vcStarted > 0 /\ vcActive' = FALSE /\ vcStopped' = vcStopped \cup {vcCancel}
      /\ UNCHANGED <<vcFlag, vcSpeak, vcWav, vcOverlap, vcTold, vcMic, vcHeard, vcRegistered, vcCancel, vcStarted,
                     vcLateExit>>
  BY DEF StopWake, vcSpeakVars
<1>2. vcCancel \in Wakes
  BY <1>1 DEF MicInv, WakeCancelled
<1>3. VcTyped'
  BY <1>1, <1>2 DEF VcTyped, Loops
<1>4. SpeakInv'
  BY <1>1, SpeechStaysKeeps DEF SpeechStays
<1>5. EchoInv'
  BY <1>1 DEF EchoInv, HeardHasBegun, EchoIsShort, Sounding
<1>6. MicInv'
  BY <1>1 DEF MicInv, ListenTold, StopReaches, WakeCancelled, OneWakeLoop
<1> QED
  BY <1>3, <1>4, <1>5, <1>6

LEMMA WakeKeeps ==
  ASSUME VoiceInv, NEW g \in Wakes, WakeRecords(g) \/ WakeChecks(g) \/ WakeExits(g)
  PROVE  VoiceInv'
<1> USE DEF VoiceInv
<1>1. UNCHANGED <<vcFlag, vcSpeak, vcWav, vcOverlap, vcTold, vcRegistered, vcStopped, vcCancel, vcStarted>>
  BY DEF WakeRecords, WakeChecks, WakeExits, vcSpeakVars, vcWakeVars
<1>2. g \in Recorders /\ g \notin VcListens /\ g \notin VcLoops
  BY VcAssumption DEF Recorders
<1>3. PICK pc \in MicPlaces : Mic(g, pc) /\ vcMic[g] \in {"top", "record"} /\ pc # "off"
  BY DEF WakeRecords, WakeChecks, WakeExits, Record, MicPlaces
<1>4. /\ vcMic' \in [Recorders -> MicPlaces] /\ vcMic'[g] = pc
      /\ \A q \in Recorders : q # g => vcMic'[q] = vcMic[q]
  BY <1>2, <1>3, MicAt
<1>5. /\ vcHeard' \in [VcLoops -> SUBSET VcSpeakers]
      /\ \A l \in VcLoops : vcHeard'[l] = vcHeard[l]
  <2>1. CASE WakeRecords(g)
    BY <2>1, <1>2, HeardAnew DEF WakeRecords
  <2>2. CASE WakeChecks(g) \/ WakeExits(g)
    BY <2>2 DEF WakeChecks, WakeExits, VcTyped
  <2> QED
    BY <2>1, <2>2
<1>6. /\ vcActive' \in BOOLEAN /\ vcLateExit' \in BOOLEAN /\ (vcLateExit => vcLateExit')
      /\ ~vcLateExit' => vcActive' = vcActive
  BY DEF WakeRecords, WakeChecks, WakeExits, vcWakeVars, VcTyped
<1>7. VcTyped'
  BY <1>1, <1>4, <1>5, <1>6 DEF VcTyped
<1>8. SpeakInv'
  BY <1>1, SpeechStaysKeeps DEF SpeechStays
<1>9. EchoInv'
  BY <1>1, <1>2, <1>4, <1>5 DEF EchoInv, HeardHasBegun, EchoIsShort, Sounding, Recorders
<1>10. ListenTold' /\ StopReaches'
  BY <1>1, <1>2, <1>4 DEF MicInv, ListenTold, StopReaches, Recorders
<1>11. WakeCancelled' /\ OneWakeLoop'
  BY <1>1, <1>3, <1>4, <1>6 DEF MicInv, WakeCancelled, OneWakeLoop, Recorders
<1> QED
  BY <1>7, <1>8, <1>9, <1>10, <1>11 DEF MicInv

LEMMA VoiceInvariant == VcSpec => []VoiceInv
<1>1. VcInit => VoiceInv
  <2> SUFFICES ASSUME VcInit PROVE VoiceInv
    OBVIOUS
  <2>1. Len(VcWakes) \in Nat
    BY VcAssumption
  <2>2. VcTyped
    <3>1. vcStarted \in 0 .. Len(VcWakes)
      BY <2>1 DEF VcInit
    <3> QED
      BY <3>1 DEF VcInit, VcTyped, SpeakPlaces, MicPlaces
  <2>3. SpeakInv
    BY DEF VcInit, SpeakInv, OneSpeaker, WavIsPlayed, SpeakTold, MutedBySpeech, Busy
  <2>4. EchoInv
    BY DEF VcInit, EchoInv, HeardHasBegun, EchoIsShort, Recorders
  <2>5. MicInv
    BY DEF VcInit, MicInv, ListenTold, StopReaches, WakeCancelled, OneWakeLoop, Recorders
  <2> QED
    BY <2>2, <2>3, <2>4, <2>5 DEF VoiceInv
<1>2. VoiceInv /\ [VcNext]_vcVars => VoiceInv'
  <2> SUFFICES ASSUME VoiceInv, [VcNext]_vcVars PROVE VoiceInv'
    OBVIOUS
  <2>1. ASSUME NEW s \in VcSpeakers, SpeakEmpty(s) \/ SpeakStep(s) PROVE VoiceInv'
    BY <2>1, TakeFlagKeeps, SpeakerGoesOn, VoiceBegins DEF SpeakStep
  <2>2. ASSUME NEW m \in VcListens, ListenLocked(m) \/ ListenRecords(m) \/ ListenAnswers(m) PROVE VoiceInv'
    BY <2>2, ListenKeeps
  <2>3. ASSUME NEW l \in VcLoops, LoopStarts(l) \/ LoopStep(l) \/ RecordFails(l) \/ ListenStop(l) PROVE VoiceInv'
    BY <2>3, LoopKeeps, ListenStopKeeps DEF LoopStep
  <2>4. ASSUME NEW g \in Wakes, StartWake(g) \/ WakeRecords(g) \/ WakeChecks(g) \/ WakeExits(g) PROVE VoiceInv'
    BY <2>4, WakeStarts, WakeKeeps
  <2>5. CASE StopWake
    BY <2>5, StopWakeKeeps
  <2>6. CASE UNCHANGED vcVars
    BY <2>6 DEF vcVars, VoiceInv, VcTyped, SpeakInv, OneSpeaker, WavIsPlayed, SpeakTold, MutedBySpeech, Busy, EchoInv,
       HeardHasBegun, EchoIsShort, Sounding, MicInv, ListenTold, StopReaches, WakeCancelled, OneWakeLoop
  <2> QED
    BY <2>1, <2>2, <2>3, <2>4, <2>5, <2>6 DEF VcNext
<1> QED
  BY <1>1, <1>2, PTL DEF VcSpec

(* However speakers, listeners and wake word loops interleave, and however many there *)
(* are: isSpeaking covers speech and only speech, an echo is short, no wav is left,   *)
(* every loop can be stopped and one wake word loop runs, but where speakers or exits *)
(* overlapped (siam-arm/main.go, piper_tts.go, wakeword.go).                          *)
THEOREM VoiceIsCovered == VcSpec => []VoiceSafe
<1>1. VoiceInv => VoiceSafe
  <2> SUFFICES ASSUME VoiceInv PROVE VoiceSafe
    OBVIOUS
  <2>1. VcTypeOK
    <3>1. {0, 1} = 0 .. 1
      OBVIOUS
    <3> QED
      BY <3>1 DEF VoiceInv, VcTyped, VcTypeOK, SpeakPlaces, MicPlaces
  <2>2. FlagCoversSpeech
    BY DEF VoiceInv, SpeakInv, OneSpeaker, Busy, FlagCoversSpeech, Sounding
  <2>3. NoWavLeft
    BY DEF VoiceInv, SpeakInv, WavIsPlayed, NoWavLeft, VcTyped
  <2> QED
    BY <2>1, <2>2, <2>3 DEF VoiceSafe, VoiceInv, SpeakInv, EchoInv, MicInv
<1> QED
  BY <1>1, VoiceInvariant, PTL
====================================================================================
