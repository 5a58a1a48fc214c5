--------------------------------- MODULE Proactive ---------------------------------
(* The proactive agent of a node (siam-arm/proactive.go): a registry of triggers that *)
(* the master adds, removes and runs by command, a loop that looks every thirty       *)
(* seconds which of them are due, a goroutine per firing, and a file the registry is  *)
(* written to after a change and read from at the start.  Adding a trigger under an   *)
(* id that exists puts a new object in its place while the loop and the goroutines    *)
(* may still hold the old one.                                                        *)
EXTENDS Integers, FiniteSets

CONSTANTS PrIds,            \* trigger ids
          PrTypings,      \* the types they may have: functions to "interval", "cron", "battery_low"
          PrDefaults,     \* the built-in triggers
          PrPeriod,       \* of an interval trigger, in ticks of thirty seconds
          PrMinute,       \* the first tick of the minute a cron trigger names
          PrHorizon,      \* bound: ticks
          PrMaxCommands,  \* bound: commands from the master
          PrMaxRestarts   \* bound: restarts

ASSUME PrAssumption ==
    /\ PrTypings \subseteq [PrIds -> {"interval", "cron", "battery_low"}]
    /\ PrDefaults \subseteq PrIds
    /\ {PrPeriod, PrMinute, PrMaxCommands, PrMaxRestarts} \subseteq Nat /\ PrHorizon \in Nat \ {0}

Never == 0                            \* LastFiredAt = nil; the clock starts at 1
Unsaved == -1
Objects == PrIds \X (0 .. PrMaxCommands)   \* the id, and which object under that id
NoObject(i) == <<i, -1>>

VARIABLES prTypes,        \* id -> type
          prNow,          \* the clock, in ticks
          prRegistry,     \* id -> its object, or NoObject
          prLast,         \* object -> LastFiredAt
          prTodo,         \* objects of the evaluation's snapshot still to be looked at
          prLooked,       \* the tick of the last evaluation
          prSpawned,      \* object -> goroutines that have not yet marked it as fired
          prSaved,        \* the file exists
          prFile,         \* id -> LastFiredAt as saved, or Unsaved
          prStale,        \* history: the last save failed
          prHandler,      \* the command loop: "idle", or "save" between a change and its save
          prCommands, prRestarts,
          prFired,        \* history: id -> tick of its latest firing
          prTwice,        \* history: ids that fired again too early
          prExcused       \* history: ids run by command, replaced, restarted, or marked late
prVars == <<prTypes, prNow, prRegistry, prLast, prTodo, prLooked, prSpawned, prSaved, prFile, prStale, prHandler,
            prCommands, prRestarts, prFired, prTwice, prExcused>>
prFileVars == <<prSaved, prFile, prStale>>
prHistory == <<prFired, prTwice>>

Live == {prRegistry[i] : i \in PrIds} \ {NoObject(i) : i \in PrIds}
Saved == {i \in PrIds : prFile[i] # Unsaved}

PrInit == /\ prTypes \in PrTypings /\ prNow = 1 /\ prLooked = 0 /\ prTodo = {} /\ prHandler = "idle"
          /\ prRegistry = [i \in PrIds |-> IF i \in PrDefaults THEN <<i, 0>> ELSE NoObject(i)]
          /\ prLast = [o \in Objects |-> Never] /\ prSpawned = [o \in Objects |-> 0]
          /\ prSaved = FALSE /\ prFile = [i \in PrIds |-> Unsaved] /\ prStale = FALSE
          /\ prCommands = 0 /\ prRestarts = 0
          /\ prFired = [i \in PrIds |-> Never] /\ prTwice = {} /\ prExcused = {}

(* shouldFire: the minute of a cron trigger is two ticks long, and the half hour of a *)
(* battery alert is longer than the horizon.                                          *)
InMinute == prNow \in {PrMinute, PrMinute + 1}
Again(type, last) == CASE type = "interval"    -> prNow - last >= PrPeriod
                       [] type = "cron"        -> prNow - last >= 2
                       [] type = "battery_low" -> FALSE
FireAlways(o) == prTypes[o[1]] = "cron" => InMinute
ShouldFire(o) == /\ prTypes[o[1]] = "cron" => InMinute
                 /\ prLast[o] = Never \/ Again(prTypes[o[1]], prLast[o])

(* The loop takes a snapshot under the read lock and looks at one trigger after       *)
(* another; a firing is a goroutine, and the goroutine marks the trigger as fired.    *)
(* The battery may be anything.                                                       *)
Evaluate == /\ prTodo = {} /\ prLooked < prNow /\ prLooked' = prNow /\ prTodo' = Live
            /\ UNCHANGED <<prTypes, prNow, prRegistry, prLast, prSpawned, prFileVars, prHandler, prCommands, prRestarts,
                           prHistory, prExcused>>
Spawn(o) == prSpawned' = [prSpawned EXCEPT ![o] = @ + 1]
Look(o) ==
    /\ o \in prTodo /\ prTodo' = prTodo \ {o}
    /\ \/ ShouldFire(o) /\ Spawn(o)
       \/ (~ShouldFire(o) \/ prTypes[o[1]] = "battery_low") /\ UNCHANGED prSpawned
    /\ prExcused' = prExcused \cup IF prSpawned[o] > 0 THEN {o[1]} ELSE {}
    /\ UNCHANGED <<prTypes, prNow, prRegistry, prLast, prLooked, prFileVars, prHandler, prCommands, prRestarts, prHistory>>
Noted(i) == /\ prFired' = [prFired EXCEPT ![i] = prNow]
            /\ prTwice' = prTwice \cup IF prFired[i] # Never /\ ~Again(prTypes[i], prFired[i]) THEN {i} ELSE {}
Fire(o) == /\ prSpawned[o] > 0 /\ prSpawned' = [prSpawned EXCEPT ![o] = @ - 1]
           /\ prLast' = [prLast EXCEPT ![o] = prNow] /\ Noted(o[1])
           /\ UNCHANGED <<prTypes, prNow, prRegistry, prTodo, prLooked, prFileVars, prHandler, prCommands, prRestarts,
                          prExcused>>
Tick == /\ prNow < PrHorizon /\ prNow' = prNow + 1
        /\ UNCHANGED <<prTypes, prRegistry, prLast, prTodo, prLooked, prSpawned, prFileVars, prHandler, prCommands,
                       prRestarts, prHistory, prExcused>>

(* SYSTEM_PROACTIVE_ADD, _REMOVE and _RUN come one at a time; the first two are       *)
(* followed by a save of the whole registry, even when there was nothing to remove.    *)
(* Running a trigger asks nobody whether it is due.                                    *)
Command == prHandler = "idle" /\ prCommands < PrMaxCommands /\ prCommands' = prCommands + 1
Add(i) == /\ Command /\ prHandler' = "save"
          /\ prRegistry' = [prRegistry EXCEPT ![i] = <<i, prCommands'>>]
          /\ prLast' = [prLast EXCEPT ![<<i, prCommands'>>] = Never]
          /\ prExcused' = prExcused \cup {i}
          /\ UNCHANGED <<prTypes, prNow, prTodo, prLooked, prSpawned, prFileVars, prRestarts, prHistory>>
RemoveTrigger(i) == /\ Command /\ prHandler' = "save"
                    /\ prRegistry' = [prRegistry EXCEPT ![i] = NoObject(i)]
                    /\ UNCHANGED <<prTypes, prNow, prLast, prTodo, prLooked, prSpawned, prFileVars, prRestarts, prHistory,
                                   prExcused>>
RunTrigger(i) == /\ Command /\ prRegistry[i] # NoObject(i) /\ Spawn(prRegistry[i])
                 /\ prExcused' = prExcused \cup {i}
                 /\ UNCHANGED <<prTypes, prNow, prRegistry, prLast, prTodo, prLooked, prFileVars, prHandler, prRestarts,
                                prHistory>>
AfterSave == /\ prHandler = "save" /\ prHandler' = "idle"
             /\ UNCHANGED <<prTypes, prNow, prRegistry, prLast, prTodo, prLooked, prSpawned, prCommands, prRestarts,
                            prHistory, prExcused>>
Save == /\ AfterSave /\ prSaved' = TRUE /\ prStale' = FALSE
        /\ prFile' = [i \in PrIds |-> IF prRegistry[i] = NoObject(i) THEN Unsaved ELSE prLast[prRegistry[i]]]

(* The error of the write is ignored: the file could not be opened and is what it was,  *)
(* or was emptied first and then holds nothing a restart can read.                      *)
SaveFails == /\ AfterSave /\ prStale' = TRUE
             /\ \/ UNCHANGED <<prSaved, prFile>>
                \/ prSaved' = TRUE /\ prFile' = [i \in PrIds |-> Unsaved]

(* A restart reads the file, and takes the built-in triggers when that left the       *)
(* registry empty; LastFiredAt is what it was at the last save.                       *)
Restored == IF Saved = {} THEN PrDefaults ELSE Saved
Restart == /\ prRestarts < PrMaxRestarts /\ prRestarts' = prRestarts + 1
           /\ prRegistry' = [i \in PrIds |-> IF i \in Restored THEN <<i, 0>> ELSE NoObject(i)]
           /\ prLast' = [o \in Objects |-> IF o[2] = 0 /\ o[1] \in Saved THEN prFile[o[1]] ELSE Never]
           /\ prSpawned' = [o \in Objects |-> 0] /\ prTodo' = {} /\ prHandler' = "idle" /\ prExcused' = PrIds
           /\ prStale' = FALSE
           /\ UNCHANGED <<prTypes, prNow, prLooked, prSaved, prFile, prCommands, prHistory>>

PrNext == \/ Evaluate \/ Tick \/ Save \/ SaveFails \/ Restart
          \/ \E o \in Objects : Look(o) \/ Fire(o)
          \/ \E i \in PrIds : Add(i) \/ RemoveTrigger(i) \/ RunTrigger(i)
PrSpec == PrInit /\ [][PrNext]_prVars

------------------------------------------------------------------------------------
PrTypeOK == /\ {prNow, prLooked} \subseteq 0 .. PrHorizon
            /\ prRegistry \in [PrIds -> Objects \cup {NoObject(i) : i \in PrIds}]
            /\ prLast \in [Objects -> 0 .. PrHorizon] /\ prTodo \subseteq Objects
            /\ prSpawned \in [Objects -> 0 .. PrHorizon + PrMaxCommands]
            /\ prFile \in [PrIds -> Unsaved .. PrHorizon] /\ {prSaved, prStale} \subseteq BOOLEAN /\ prHandler \in {"idle", "save"}
            /\ prTwice \cup prExcused \subseteq PrIds

(* No trigger fires twice within its minute, its interval or its half hour: the time  *)
(* the goroutine notes keeps the next evaluation away.  The exceptions are a trigger  *)
(* the master ran, a trigger it replaced, a restart (the file keeps the times of the  *)
(* last change, not of the last firing), and a goroutine that had not yet noted the   *)
(* time when the next evaluation looked.                                              *)
FiresOnce == prTwice \subseteq prExcused

(* Between two commands the file holds the triggers the registry holds, through any   *)
(* number of restarts, unless it holds none; a save that fails parts them until the     *)
(* next save, or until a restart takes what the file holds for the registry.            *)
FileIsRegistry ==
    prHandler = "idle" /\ ~prStale /\ Saved # {} => Saved = {i \in PrIds : prRegistry[i] # NoObject(i)}

(* A trigger fires once for its occasion, and between two commands the file holds *)
(* what the registry holds unless its last save failed (proactive.go).            *)
TriggersSafe == PrTypeOK /\ FiresOnce /\ FileIsRegistry
====================================================================================
