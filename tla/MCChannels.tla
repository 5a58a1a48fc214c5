-------------------------------- MODULE MCChannels --------------------------------
(* Small instances of components that run side by side: every behaviour drives one  *)
(* of them, which "part" names, and leaves the others as they began.                *)
EXTENDS Sockets, Indicators, AIBot

CONSTANTS m1, m2
CONSTANTS ObConns, ObRequests, SpPieces, SpMaxPieces, SpText, SpMaxLen, SpReserve, SpNewlineWindow,
    SpSpaceWindow, SpInside, SpMaxChunks
VARIABLE part  \* the component this behaviour drives
VARIABLES obConn, obOpen, obAlive, obListener, obDialer, obRequest, obPending, obBox, obGot,
    obAnswered, obDone, obStop, obOverlap
VARIABLES spAnswer, spRunes, spStart, spChunks, spDone

Parked == 0  \* what the variables of a component hold that the behaviour does not drive
Ob == INSTANCE OneBot
Sp == INSTANCE Splitting

obVars == <<obConn, obOpen, obAlive, obListener, obDialer, obRequest, obPending, obBox, obGot,
    obAnswered, obDone, obStop, obOverlap>>
spVars == <<spAnswer, spRunes, spStart, spChunks, spDone>>

Parts == {"sockets", "indicators", "onebot", "splitting", "aibot"}
SumInit ==
    /\ part \in Parts
    /\ SkInit /\ (part # "sockets" => skKind = "pico")
    /\ Init
    /\ Ob!ObInit
    /\ IF part = "splitting" THEN Sp!SpInit
       ELSE /\ spAnswer = Parked /\ spRunes = Parked /\ spStart = Parked /\ spChunks = Parked
            /\ spDone = Parked
    /\ AbInit
SumNext ==
    /\ UNCHANGED part
    /\ \/ part = "sockets" /\ SkNext /\ UNCHANGED <<vars, obVars, spVars, abVars>>
       \/ part = "indicators" /\ Next /\ UNCHANGED <<skVars, obVars, spVars, abVars>>
       \/ part = "onebot" /\ Ob!ObNext /\ UNCHANGED <<skVars, vars, spVars, abVars>>
       \/ part = "splitting" /\ Sp!SpNext /\ UNCHANGED <<skVars, vars, obVars, abVars>>
       \/ part = "aibot" /\ AbNext /\ UNCHANGED <<skVars, vars, obVars, spVars>>
sumVars == <<part, skVars, vars, obVars, spVars, abVars>>
SumSpec == SumInit /\ [][SumNext]_sumVars

(* The fairness of each component, asked for in the behaviours that drive it. *)
SumFairSpec ==
    /\ SumSpec
    /\ \A c \in SkConns : WF_skVars(part = "sockets" /\ SkConnStep(c))
    /\ WF_skVars(part = "sockets" /\ SkStopStep)
    /\ \A m \in Messages : WF_vars(part = "indicators" /\ Recording(m))
    /\ \A m \in Messages : WF_vars(part = "indicators" /\ Expire(m))
    /\ WF_vars(part = "indicators" /\ WorkerStep)
    /\ WF_vars(part = "indicators" /\ (TypingSweep \/ PlaceholderSweep))
    /\ WF_obVars(part = "onebot" /\ Ob!StartLoop)
    /\ WF_obVars(part = "onebot" /\ Ob!TimerFires)
    /\ WF_obVars(part = "onebot" /\ Ob!LookAtConn)
    /\ \A d \in Ob!Dialers : WF_obVars(part = "onebot" /\ Ob!Dial(d))
    /\ \A d \in Ob!Dialers : WF_obVars(part = "onebot" /\ Ob!StoreConn(d))
    /\ \A d \in Ob!Dialers : WF_obVars(part = "onebot" /\ Ob!StartListener(d))
    /\ \A k \in ObConns : WF_obVars(part = "onebot" /\ Ob!ListenBegins(k))
    /\ \A k \in ObConns : WF_obVars(part = "onebot" /\ Ob!ReadFails(k))
    /\ WF_abVars(part = "aibot" /\ AbSendStep)
    /\ WF_abVars(part = "aibot" /\ CleanupOldTasks)
    /\ \A t \in Task : WF_abVars(part = "aibot" /\ TimePasses(t))
------------------------------------------------------------------------------------
(* One served connection, none left by Stop, no echo without its request, and a     *)
(* connection the server no longer serves is given up (onebot.go).                  *)
OneBotCorrect ==
    /\ [](part = "onebot" => Ob!OneBotSafe)
    /\ (part = "onebot" => Ob!DeadConnDropped)

(* Chunks fit, keep the text and whole code blocks, and every turn leaves less to   *)
(* split unless the line that opens a block fills a chunk (split.go).               *)
SplittingCorrect ==
    /\ [](part = "splitting" => Sp!SplittingSafe)
    /\ [][part = "splitting" => Sp!LeavesLess]_spVars

====================================================================================
