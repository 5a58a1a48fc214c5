----------------------------------- MODULE Voice -----------------------------------
(* The voice of a node (siam-arm/main.go, piper_tts.go, wakeword.go).  SYSTEM_SPEAK,  *)
(* SYSTEM_LISTEN and SYSTEM_LISTEN_LOOP each run in a goroutine of their own, and so  *)
(* does the wake word loop.  They share one flag, isSpeaking, that every speaker sets *)
(* when it begins and clears when it ends, and every use of Piper writes, plays and   *)
(* removes one and the same file: the "unique" number of its name is the process id.  *)
EXTENDS Naturals, Sequences, FiniteSets

CONSTANTS VcSpeakers,      \* SYSTEM_SPEAK commands
          VcListens,       \* SYSTEM_LISTEN commands
          VcLoops,         \* SYSTEM_LISTEN_LOOP commands
          VcWakes          \* the wake word loops in the order they are started; their number is a bound
Wakes == {VcWakes[i] : i \in DOMAIN VcWakes}
Recorders == VcListens \cup VcLoops \cup Wakes
None == "none"

(* Commands have ids of their own, and a wake word loop is none of them.              *)
ASSUME VcAssumption ==
    /\ VcWakes \in Seq(Wakes) /\ None \notin VcSpeakers
    /\ VcSpeakers \cap VcListens = {} /\ VcListens \cap VcLoops = {} /\ Wakes \cap (VcListens \cup VcLoops) = {}

VARIABLES vcFlag,          \* isSpeaking
          vcSpeak,         \* speaker -> "new", "synth", "play", "own", "report", "clear", "done"
          vcWav,           \* the speaker whose words /tmp/piper-play-<pid>.wav holds, or None
          vcMic,           \* recorder -> "off", "top", "decay", "record", "stt", "ended"
          vcHeard,         \* listen loop -> speakers that sounded while it recorded
          vcTold,          \* speaker or listen -> results reported
          vcRegistered,    \* listenLoops
          vcStopped,       \* recorders whose context is cancelled
          vcActive,        \* wakeWordActive
          vcCancel,        \* wakeWordCancel: the wake loop it cancels, or None
          vcStarted,       \* wake loops started so far
          vcOverlap,       \* history: a speaker began before another had cleared the flag
          vcLateExit       \* history: a wake loop's end marked a later one inactive
vcSpeakVars == <<vcSpeak, vcWav>>
vcWakeVars == <<vcActive, vcCancel, vcStarted, vcLateExit>>
vcMicVars == <<vcMic, vcRegistered, vcStopped>>
vcVars == <<vcFlag, vcSpeak, vcWav, vcMic, vcHeard, vcTold, vcRegistered, vcStopped, vcActive, vcCancel,
            vcStarted, vcOverlap, vcLateExit>>

Loops == VcLoops \cup Wakes
Busy(s) == vcSpeak[s] \in {"synth", "play", "own", "report", "clear"}
Sounding == {s \in VcSpeakers : vcSpeak[s] \in {"play", "own"}}

VcInit == /\ vcFlag = FALSE /\ vcSpeak = [s \in VcSpeakers |-> "new"] /\ vcWav = None
          /\ vcMic = [r \in Recorders |-> "off"] /\ vcHeard = [l \in VcLoops |-> {}]
          /\ vcTold = [c \in VcSpeakers \cup VcListens |-> 0]
          /\ vcRegistered = {} /\ vcStopped = {}
          /\ vcActive = FALSE /\ vcCancel = None /\ vcStarted = 0
          /\ vcOverlap = FALSE /\ vcLateExit = FALSE

(* SYSTEM_SPEAK: the flag, then Piper (synthesis into the shared file, a player on    *)
(* it, the file removed whatever happened), then the voices that need no shared file, *)
(* the report, and at last the flag.                                                  *)
At(s, pc) == vcSpeak' = [vcSpeak EXCEPT ![s] = pc]
Sounds(s) == vcHeard' = [l \in VcLoops |-> vcHeard[l] \cup IF vcMic[l] = "record" THEN {s} ELSE {}]
Reported(c) == vcTold' = [vcTold EXCEPT ![c] = @ + 1]
SpeakEmpty(s) == /\ vcSpeak[s] = "new" /\ At(s, "done") /\ Reported(s)
                 /\ UNCHANGED <<vcFlag, vcWav, vcMicVars, vcHeard, vcWakeVars, vcOverlap>>
TakeFlag(s) == /\ vcSpeak[s] = "new" /\ At(s, "synth") /\ vcFlag' = TRUE
               /\ vcOverlap' = (vcOverlap \/ \E t \in VcSpeakers \ {s} : Busy(t))
               /\ UNCHANGED <<vcWav, vcTold, vcMicVars, vcHeard, vcWakeVars>>
Synthesise(s) == /\ vcSpeak[s] = "synth" /\ At(s, "play") /\ vcWav' = s /\ Sounds(s)
                 /\ UNCHANGED <<vcFlag, vcTold, vcMicVars, vcWakeVars, vcOverlap>>
RemoveWav == vcWav' = None
PiperFailsAndClears(s) ==
    /\ vcSpeak[s] \in {"synth", "play"} /\ At(s, "own") /\ RemoveWav /\ Sounds(s) /\ vcFlag' = FALSE
    /\ UNCHANGED <<vcTold, vcMicVars, vcWakeVars, vcOverlap>>
PiperFails(s) == /\ vcSpeak[s] \in {"synth", "play"} /\ At(s, "own") /\ RemoveWav /\ Sounds(s)
                 /\ UNCHANGED <<vcFlag, vcTold, vcMicVars, vcWakeVars, vcOverlap>>
PlayEnds(s) == /\ vcSpeak[s] = "play" /\ vcWav # None /\ At(s, "report") /\ RemoveWav
               /\ UNCHANGED <<vcFlag, vcTold, vcMicVars, vcHeard, vcWakeVars, vcOverlap>>
OwnEnds(s) == /\ vcSpeak[s] = "own" /\ At(s, "report")
              /\ UNCHANGED <<vcFlag, vcWav, vcTold, vcMicVars, vcHeard, vcWakeVars, vcOverlap>>
ReportSpeak(s) == /\ vcSpeak[s] = "report" /\ At(s, "clear") /\ Reported(s)
                  /\ UNCHANGED <<vcFlag, vcWav, vcMicVars, vcHeard, vcWakeVars, vcOverlap>>
ClearFlag(s) == /\ vcSpeak[s] = "clear" /\ At(s, "done") /\ vcFlag' = FALSE
                /\ UNCHANGED <<vcWav, vcTold, vcMicVars, vcHeard, vcWakeVars, vcOverlap>>

(* A recorder moves; the microphone hears whoever sounds from the start of the        *)
(* recording to its end.                                                              *)
Mic(r, pc) == vcMic' = [vcMic EXCEPT ![r] = pc]
Record(r) == /\ Mic(r, "record")
             /\ vcHeard' = [l \in VcLoops |-> IF l = r THEN Sounding ELSE vcHeard[l]]

(* SYSTEM_LISTEN tests the flag once, before it records.                              *)
ListenLocked(m) == /\ vcMic[m] = "off" /\ vcFlag /\ Reported(m) /\ Mic(m, "ended")
                   /\ UNCHANGED <<vcFlag, vcSpeakVars, vcHeard, vcRegistered, vcStopped, vcWakeVars,
                                  vcOverlap>>
ListenRecords(m) == /\ vcMic[m] = "off" /\ ~vcFlag /\ Mic(m, "record")
                    /\ UNCHANGED <<vcFlag, vcSpeakVars, vcHeard, vcTold, vcRegistered, vcStopped, vcWakeVars,
                                   vcOverlap>>
ListenAnswers(m) == /\ vcMic[m] = "record" /\ Reported(m) /\ Mic(m, "ended")
                    /\ UNCHANGED <<vcFlag, vcSpeakVars, vcHeard, vcRegistered, vcStopped, vcWakeVars,
                                   vcOverlap>>

(* SYSTEM_LISTEN_LOOP: registered under its command's id before the goroutine runs;   *)
(* it waits for the flag, lets the sound decay, records, and discards the segment     *)
(* when the flag is up again.                                                         *)
LoopStarts(l) == /\ vcMic[l] = "off" /\ Mic(l, "top") /\ vcRegistered' = vcRegistered \cup {l}
                 /\ UNCHANGED <<vcFlag, vcSpeakVars, vcHeard, vcTold, vcStopped, vcWakeVars, vcOverlap>>
LoopWaits(l) == /\ vcMic[l] = "top" /\ l \notin vcStopped /\ ~vcFlag /\ Mic(l, "decay")
                /\ UNCHANGED <<vcFlag, vcSpeakVars, vcHeard, vcTold, vcRegistered, vcStopped, vcWakeVars,
                               vcOverlap>>
LoopRecords(l) == /\ vcMic[l] = "decay" /\ Record(l)
                  /\ UNCHANGED <<vcFlag, vcSpeakVars, vcTold, vcRegistered, vcStopped, vcWakeVars, vcOverlap>>
RecordFails(l) == /\ vcMic[l] = "record" /\ Mic(l, "top")
                  /\ UNCHANGED <<vcFlag, vcSpeakVars, vcHeard, vcTold, vcRegistered, vcStopped, vcWakeVars,
                                 vcOverlap>>
Segment(l) == Mic(l, IF vcFlag THEN "top" ELSE "stt")
RecordEnds(l) == /\ vcMic[l] = "record" /\ Segment(l)
                 /\ UNCHANGED <<vcFlag, vcSpeakVars, vcHeard, vcTold, vcRegistered, vcStopped, vcWakeVars,
                                vcOverlap>>
Transcribed(l) == /\ vcMic[l] = "stt" /\ Mic(l, "top") /\ vcHeard' = [vcHeard EXCEPT ![l] = {}]
                  /\ UNCHANGED <<vcFlag, vcSpeakVars, vcTold, vcRegistered, vcStopped, vcWakeVars, vcOverlap>>
LoopExits(l) == /\ vcMic[l] = "top" /\ l \in vcStopped /\ Mic(l, "ended")
                /\ vcRegistered' = vcRegistered \ {l}
                /\ UNCHANGED <<vcFlag, vcSpeakVars, vcHeard, vcTold, vcStopped, vcWakeVars, vcOverlap>>
ListenStop(l) == /\ l \in vcRegistered /\ vcRegistered' = vcRegistered \ {l}
                 /\ vcStopped' = vcStopped \cup {l}
                 /\ UNCHANGED <<vcFlag, vcSpeakVars, vcMic, vcHeard, vcTold, vcWakeVars, vcOverlap>>

(* The wake word loop: started when none is active, stopped by cancelling the latest  *)
(* and marking it inactive at once; the loop itself marks it inactive once more when  *)
(* it ends.  Its detections are reported under ids of their own.                      *)
StartWake(g) ==
    /\ vcStarted < Len(VcWakes) /\ g = VcWakes[vcStarted + 1] /\ ~vcActive /\ Mic(g, "top") /\ vcActive' = TRUE /\ vcCancel' = g
    /\ vcStarted' = vcStarted + 1
    /\ UNCHANGED <<vcFlag, vcSpeakVars, vcHeard, vcTold, vcRegistered, vcStopped, vcOverlap, vcLateExit>>
StopWake == /\ vcStarted > 0 /\ (vcActive \/ vcCancel \notin vcStopped)
            /\ vcActive' = FALSE /\ vcStopped' = vcStopped \cup {vcCancel}
            /\ UNCHANGED <<vcFlag, vcSpeakVars, vcMic, vcHeard, vcTold, vcRegistered, vcCancel, vcStarted,
                           vcOverlap, vcLateExit>>
WakeRecords(g) == /\ vcMic[g] = "top" /\ g \notin vcStopped /\ ~vcFlag /\ Record(g)
                  /\ UNCHANGED <<vcFlag, vcSpeakVars, vcTold, vcRegistered, vcStopped, vcWakeVars, vcOverlap>>
WakeChecks(g) == /\ vcMic[g] = "record" /\ Mic(g, "top")
                 /\ UNCHANGED <<vcFlag, vcSpeakVars, vcHeard, vcTold, vcRegistered, vcStopped, vcWakeVars, vcOverlap>>
WakeExits(g) == /\ vcMic[g] = "top" /\ g \in vcStopped /\ Mic(g, "ended")
                /\ vcActive' = FALSE /\ vcLateExit' = (vcLateExit \/ vcActive)
                /\ UNCHANGED <<vcFlag, vcSpeakVars, vcHeard, vcTold, vcRegistered, vcStopped, vcCancel,
                               vcStarted, vcOverlap>>

SpeakStep(s) == \/ TakeFlag(s) \/ Synthesise(s) \/ PiperFails(s) \/ PlayEnds(s) \/ OwnEnds(s)
                \/ ReportSpeak(s) \/ ClearFlag(s)
LoopStep(l) == LoopWaits(l) \/ LoopRecords(l) \/ RecordEnds(l) \/ Transcribed(l) \/ LoopExits(l)
VcNext ==
    \/ \E s \in VcSpeakers : SpeakEmpty(s) \/ SpeakStep(s)
    \/ \E m \in VcListens : ListenLocked(m) \/ ListenRecords(m) \/ ListenAnswers(m)
    \/ \E l \in VcLoops : LoopStarts(l) \/ LoopStep(l) \/ RecordFails(l) \/ ListenStop(l)
    \/ \E g \in Wakes : StartWake(g) \/ WakeRecords(g) \/ WakeChecks(g) \/ WakeExits(g)
    \/ StopWake
VcSpec == VcInit /\ [][VcNext]_vcVars
------------------------------------------------------------------------------------
VcTypeOK ==
    /\ {vcFlag, vcActive, vcOverlap, vcLateExit} \subseteq BOOLEAN
    /\ vcSpeak \in [VcSpeakers -> {"new", "synth", "play", "own", "report", "clear", "done"}]
    /\ vcWav \in VcSpeakers \cup {None}
    /\ vcMic \in [Recorders -> {"off", "top", "decay", "record", "stt", "ended"}]
    /\ vcHeard \in [VcLoops -> SUBSET VcSpeakers]
    /\ vcTold \in [VcSpeakers \cup VcListens -> 0 .. 1]
    /\ vcRegistered \subseteq VcLoops /\ vcStopped \subseteq Loops
    /\ vcCancel \in Wakes \cup {None} /\ vcStarted \in 0 .. Len(VcWakes)

(* isSpeaking is up for as long as the device speaks, through the fallback voices as  *)
(* well, unless two SYSTEM_SPEAK commands overlapped: the first of them to end clears *)
(* the flag under the other.                                                          *)
FlagCoversSpeech == Sounding # {} /\ ~vcOverlap => vcFlag

(* A segment of the listen loop that goes on to be transcribed holds the device's own *)
(* speech only if that speech was over when the segment ended (it began and ended     *)
(* within the recording, so neither test of the flag saw it), or speakers overlapped. *)
EchoIsShort ==
    \A l \in VcLoops : vcMic[l] = "stt" /\ ~vcOverlap => vcHeard[l] \cap Sounding = {}

(* The file every Piper voice shares is gone once nobody speaks: whoever wrote last   *)
(* removes after, although any of them may play or remove another's words.            *)
NoWavLeft == (\A s \in VcSpeakers : vcSpeak[s] \in {"new", "done"}) => vcWav = None

(* A listen loop that records and was not told to stop can still be told to: its id   *)
(* is registered, whichever loops began or ended since.                               *)
StopReaches == \A l \in VcLoops : vcMic[l] \in {"top", "decay", "record", "stt"} /\ l \notin vcStopped
                                  => l \in vcRegistered

(* At most one wake word loop runs that has not been cancelled, and Stop cancels it,  *)
(* unless the end of a cancelled loop marked a later one inactive: then another start *)
(* runs a second one, and Stop reaches only the last.                                 *)
OneWakeLoop ==
    ~vcLateExit => \A g \in Wakes : vcMic[g] \in {"top", "record"} /\ g \notin vcStopped => g = vcCancel

(* The microphone is never left muted: while isSpeaking is up some SYSTEM_SPEAK is    *)
(* still under way, so the listen loop and LISTEN, which skip while it is up, hear    *)
(* again once the last of them has ended.                                             *)
MutedBySpeech == vcFlag => \E s \in VcSpeakers : vcSpeak[s] \notin {"new", "done"}

(* The flag covers the speech and nothing else, recordings hold no more than a    *)
(* short echo of it, no wav is left, and one wake loop runs, except where         *)
(* speakers or exits overlapped (siam-arm/main.go).                               *)
VoiceSafe ==
    /\ VcTypeOK
    /\ FlagCoversSpeech
    /\ EchoIsShort
    /\ NoWavLeft
    /\ StopReaches
    /\ OneWakeLoop
    /\ MutedBySpeech
====================================================================================
