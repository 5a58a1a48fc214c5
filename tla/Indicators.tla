---------------------------- MODULE Indicators ----------------------------
(***************************************************************************)
(* The typing, reaction and placeholder indicators of one chat             *)
(* (pkg/channels/manager.go, base.go).  Inbound messages, each on its own  *)
(* goroutine, start an indicator and record how to take it down; the       *)
(* worker's preSend takes down what it finds before an answer; a janitor   *)
(* evicts entries that outlived their TTL.  Each table is a sync.Map, and  *)
(* every map operation is a step of its own.  Typing and reaction          *)
(* run the same code on two tables and are modelled once; chats are        *)
(* independent, so one key is enough.                                      *)
(***************************************************************************)
EXTENDS Integers, FiniteSets

CONSTANTS Messages,   \* inbound messages, each the name of its indicators too
          MaxAnswers  \* bound: answers sent to the chat

ASSUME InAssumption == MaxAnswers \in Nat /\ "none" \notin Messages

VARIABLES
    typing,      \* m.typingStops[key]: the message whose stop is stored, or "none"
    holder,      \* m.placeholders[key]: the message whose placeholder is stored, or "none"
    active,      \* indicators that run on the platform
    expired,     \* entries older than their TTL
    inbound,     \* message -> [pc, old]: HandleMessage and the entry it took out
    worker,      \* [pc, old]: preSend
    janitor,     \* [pc, seen]: runTTLJanitor and the entry Range showed it
    answers,     \* answers sent so far
    edits,       \* history: message -> answers that edited its placeholder
    overlapped   \* history: stops stored while another update of the key was under way

vars == <<typing, holder, active, expired, inbound, worker, janitor, answers, edits, overlapped>>

Init ==
    /\ typing = "none"
    /\ holder = "none"
    /\ active = {}
    /\ expired = {}
    /\ inbound = [m \in Messages |-> [pc |-> "new", old |-> "none"]]
    /\ worker = [pc |-> "idle", old |-> "none"]
    /\ janitor = [pc |-> "idle", seen |-> "none"]
    /\ answers = 0
    /\ edits = [m \in Messages |-> 0]
    /\ overlapped = {}

---------------------------------------------------------------------------
(* HandleMessage: StartTyping, then RecordTypingStop in three steps.       *)
StartTyping(m) ==
    /\ inbound[m].pc = "new"
    /\ inbound' = [inbound EXCEPT ![m].pc = "take"]
    /\ active' = active \cup {m}
    /\ UNCHANGED <<typing, holder, expired, worker, janitor, answers, edits, overlapped>>

(* The channel has no typing indicator, or the platform refuses it. *)
NoTyping(m) ==
    /\ inbound[m].pc = "new"
    /\ inbound' = [inbound EXCEPT ![m].pc = "placeholder"]
    /\ UNCHANGED <<typing, holder, active, expired, worker, janitor, answers, edits, overlapped>>

(* Fault: the new entry is stored without taking the old one out. *)
TakeNothing(m) ==
    /\ inbound[m].pc = "take"
    /\ inbound' = [inbound EXCEPT ![m].pc = "store"]
    /\ UNCHANGED <<typing, holder, active, expired, worker, janitor, answers, edits, overlapped>>

TakeOld(m) ==
    /\ inbound[m].pc = "take"
    /\ typing' = "none"
    /\ inbound' = [inbound EXCEPT ![m] = [pc |-> "store", old |-> typing]]
    /\ UNCHANGED <<holder, active, expired, worker, janitor, answers, edits, overlapped>>

(* The old entry's stop() is called, then the new entry replaces whatever  *)
(* is there by now.                                                        *)
StoreStop(m) ==
    /\ inbound[m].pc = "store"
    /\ typing' = m
    /\ active' = active \ {inbound[m].old}
    /\ inbound' = [inbound EXCEPT ![m] = [pc |-> "placeholder", old |-> "none"]]
    /\ overlapped' = IF janitor.pc = "seen" \/ \E n \in Messages \ {m} : inbound[n].pc = "store"
                     THEN overlapped \cup {m} \cup {n \in Messages : inbound[n].pc = "store"}
                     ELSE overlapped
    /\ UNCHANGED <<holder, expired, worker, janitor, answers, edits>>

(* RecordPlaceholder: the one it takes out stays on the platform unedited. *)
TakePlaceholder(m) ==
    /\ inbound[m].pc = "placeholder"
    /\ holder' = "none"
    /\ inbound' = [inbound EXCEPT ![m].pc = "record"]
    /\ UNCHANGED <<typing, active, expired, worker, janitor, answers, edits, overlapped>>

NoPlaceholder(m) ==
    /\ inbound[m].pc = "placeholder"
    /\ inbound' = [inbound EXCEPT ![m].pc = "published"]
    /\ UNCHANGED <<typing, holder, active, expired, worker, janitor, answers, edits, overlapped>>

StorePlaceholder(m) ==
    /\ inbound[m].pc = "record"
    /\ holder' = m
    /\ inbound' = [inbound EXCEPT ![m].pc = "published"]
    /\ UNCHANGED <<typing, active, expired, worker, janitor, answers, edits, overlapped>>

---------------------------------------------------------------------------
(* preSend, on the chat's worker.  An answer may come at any time.         *)
PreSendTake ==
    /\ worker.pc = "idle"
    /\ answers < MaxAnswers
    /\ answers' = answers + 1
    /\ typing' = "none"
    /\ worker' = [pc |-> "stop", old |-> typing]
    /\ UNCHANGED <<holder, active, expired, inbound, janitor, edits, overlapped>>

PreSendStop ==
    /\ worker.pc = "stop"
    /\ active' = active \ {worker.old}
    /\ worker' = [pc |-> "placeholder", old |-> "none"]
    /\ UNCHANGED <<typing, holder, expired, inbound, janitor, answers, edits, overlapped>>

PreSendTakePlaceholder ==
    /\ worker.pc = "placeholder"
    /\ holder' = "none"
    /\ worker' = IF holder = "none" THEN [pc |-> "idle", old |-> "none"]
                 ELSE [pc |-> "edit", old |-> holder]
    /\ UNCHANGED <<typing, active, expired, inbound, janitor, answers, edits, overlapped>>

(* EditMessage succeeds, or fails and the answer goes out as a new message. *)
PreSendEdit ==
    /\ worker.pc = "edit"
    /\ \/ edits' = [edits EXCEPT ![worker.old] = @ + 1]
       \/ UNCHANGED edits
    /\ worker' = [pc |-> "idle", old |-> "none"]
    /\ UNCHANGED <<typing, holder, active, expired, inbound, janitor, answers, overlapped>>

---------------------------------------------------------------------------
(* An entry's age passes the TTL once it is stored.                        *)
Expire(m) ==
    /\ inbound[m].pc \in {"placeholder", "record", "published"}
    /\ m \notin expired
    /\ expired' = expired \cup {m}
    /\ UNCHANGED <<typing, holder, active, inbound, worker, janitor, answers, edits, overlapped>>

(* runTTLJanitor: Range shows an entry, the callback judges its age, then  *)
(* deletes the key, whatever entry it holds by then, and calls the stop of *)
(* the entry it was shown.                                                 *)
JanitorSees ==
    /\ janitor.pc = "idle"
    /\ typing \in expired
    /\ janitor' = [pc |-> "seen", seen |-> typing]
    /\ UNCHANGED <<typing, holder, active, expired, inbound, worker, answers, edits, overlapped>>

JanitorEvicts ==
    /\ janitor.pc = "seen"
    /\ typing' = "none"
    /\ janitor' = IF typing = "none" THEN [pc |-> "idle", seen |-> "none"]
                  ELSE [janitor EXCEPT !.pc = "stop"]
    /\ UNCHANGED <<holder, active, expired, inbound, worker, answers, edits, overlapped>>

(* Fault: an expired entry is deleted and its stop is not called. *)
JanitorForgets ==
    /\ janitor.pc = "stop"
    /\ janitor' = [pc |-> "idle", seen |-> "none"]
    /\ UNCHANGED <<typing, holder, active, expired, inbound, worker, answers, edits, overlapped>>

JanitorStops ==
    /\ janitor.pc = "stop"
    /\ active' = active \ {janitor.seen}
    /\ janitor' = [pc |-> "idle", seen |-> "none"]
    /\ UNCHANGED <<typing, holder, expired, inbound, worker, answers, edits, overlapped>>

JanitorSeesPlaceholder ==
    /\ janitor.pc = "idle"
    /\ holder \in expired
    /\ janitor' = [pc |-> "delete", seen |-> holder]
    /\ UNCHANGED <<typing, holder, active, expired, inbound, worker, answers, edits, overlapped>>

JanitorDeletes ==
    /\ janitor.pc = "delete"
    /\ holder' = "none"
    /\ janitor' = [pc |-> "idle", seen |-> "none"]
    /\ UNCHANGED <<typing, active, expired, inbound, worker, answers, edits, overlapped>>

---------------------------------------------------------------------------
Recording(m) ==
    TakeOld(m) \/ StoreStop(m) \/ TakePlaceholder(m) \/ NoPlaceholder(m) \/ StorePlaceholder(m)
InboundStep(m) == StartTyping(m) \/ NoTyping(m) \/ Recording(m)
WorkerStep == PreSendStop \/ PreSendTakePlaceholder \/ PreSendEdit
TypingSweep == JanitorSees \/ JanitorEvicts \/ JanitorStops
PlaceholderSweep == JanitorSeesPlaceholder \/ JanitorDeletes

Next ==
    \/ \E m \in Messages : InboundStep(m) \/ Expire(m)
    \/ PreSendTake
    \/ WorkerStep
    \/ TypingSweep
    \/ PlaceholderSweep

Spec == Init /\ [][Next]_vars

(* Time passes and every goroutine that has begun goes on; that an answer  *)
(* is ever sent is not assumed.                                            *)
Fairness ==
    /\ \A m \in Messages : WF_vars(Recording(m))
    /\ \A m \in Messages : WF_vars(Expire(m))
    /\ WF_vars(WorkerStep)
    /\ WF_vars(TypingSweep \/ PlaceholderSweep)

FairSpec == Spec /\ Fairness

---------------------------------------------------------------------------
OrNone == Messages \cup {"none"}

(* Type correctness: only a stored stop is in the table, and preSend edits *)
(* only a placeholder that it took.                                        *)
TypeOK ==
    /\ typing \in OrNone
    /\ holder \in OrNone
    /\ active \in SUBSET Messages
    /\ expired \in SUBSET Messages
    /\ inbound \in [Messages -> [pc : {"new", "take", "store", "placeholder", "record", "published"},
                                 old : OrNone]]
    /\ worker \in [pc : {"idle", "stop", "placeholder", "edit"}, old : OrNone]
    /\ janitor \in [pc : {"idle", "seen", "stop", "delete"}, seen : OrNone]
    /\ answers \in 0..MaxAnswers
    /\ edits \in [Messages -> 0..MaxAnswers]
    /\ overlapped \in SUBSET Messages
    /\ typing # "none" => inbound[typing].pc \in {"placeholder", "record", "published"}
    /\ worker.pc = "edit" => worker.old # "none"

(* Somebody still knows how to stop the indicator of m. *)
Reachable(m) ==
    \/ typing = m
    \/ inbound[m].pc \in {"take", "store"}
    \/ \E n \in Messages : inbound[n].old = m
    \/ worker = [pc |-> "stop", old |-> m]
    \/ janitor = [pc |-> "stop", seen |-> m]

Orphan(m) == m \in active /\ ~Reachable(m)

(* A typing indicator is lost in one way only: its stop was stored while   *)
(* another goroutine stood between the two map operations of an update of  *)
(* the same key (another RecordTypingStop, or the janitor).  preSend and   *)
(* expiry by themselves never lose one.                                    *)
OrphanOnlyByOverlap == \A m \in Messages : Orphan(m) => m \in overlapped

(* A placeholder is turned into an answer at most once, whatever the       *)
(* janitor and later messages do to its entry meanwhile.                   *)
PlaceholderEditedOnce == \A m \in Messages : edits[m] <= 1

(* Without an answer the janitor ends an indicator that no overlap hit.    *)
IndicatorEnds ==
    \A m \in Messages : m \in active ~> m \notin active \/ m \in overlapped


(* An indicator runs unrecorded only after overlapping updates, and a      *)
(* placeholder becomes one answer (manager.go).                            *)
IndicatorsSafe == TypeOK /\ OrphanOnlyByOverlap /\ PlaceholderEditedOnce
=============================================================================
