-------------------------------- MODULE ControlBrain -------------------------------
(* The control brain of a node (siam-arm/control_brain.go, hardware_tools.go,         *)
(* vision.go): a local Ollama server that whoever needs it first starts, the models   *)
(* pulled into it, and the jobs that ask it: a query, an orchestrator step, a look at *)
(* a picture.  Every job runs in a goroutine of its own.  "Ready" is a flag that is   *)
(* set once and never cleared, and whether a server has to be started is decided      *)
(* before the lock that starts it is taken.                                           *)
EXTENDS Naturals, FiniteSets

CONSTANTS CbJobs,         \* records [id, kind]: "init", "setup", "vision", "query", "step"
          CbDeaths        \* bound: how often the server dies
VisionModels == 3         \* models a picture is shown to in turn (visionModelFallbacks)

VARIABLES cbPc,           \* job -> its place
          cbReady,        \* ollamaReady
          cbLock,         \* ollamaProcMu: the job that holds it, or Nobody
          cbServers,      \* servers started so far
          cbAlive,        \* a server answers
          cbPhotos,       \* jobs whose temporary picture is on disk
          cbTried,        \* job -> vision models asked
          cbStats,        \* routingStats
          cbAnswer,       \* job -> "none", "content", "escalate", "tool", "error", "over"
          cbDeaths,
          cbBlind         \* history: a job decided to start a server while another was starting one
cbVars == <<cbPc, cbReady, cbLock, cbServers, cbAlive, cbPhotos, cbTried, cbStats, cbAnswer, cbDeaths, cbBlind>>
cbServerVars == <<cbReady, cbLock, cbServers, cbBlind>>
cbWorldVars == <<cbAlive, cbDeaths>>
cbWorkVars == <<cbPhotos, cbTried, cbStats, cbAnswer>>

Nobody == [id |-> 0, kind |-> "nobody"]
Ensuring == {"init", "setup", "vision"}
CbInit == /\ cbPc = [j \in CbJobs |-> "new"] /\ cbReady = FALSE /\ cbLock = Nobody /\ cbServers = 0
          /\ cbAlive \in BOOLEAN /\ cbPhotos = {} /\ cbTried = [j \in CbJobs |-> 0]
          /\ cbStats = [local |-> 0, master |-> 0, escalated |-> 0]
          /\ cbAnswer = [j \in CbJobs |-> "none"] /\ cbDeaths = 0 /\ cbBlind = FALSE

Goes(j, pc) == cbPc' = [cbPc EXCEPT ![j] = pc]
Answers(j, a) == /\ Goes(j, "done") /\ cbAnswer' = [cbAnswer EXCEPT ![j] = a] /\ cbPhotos' = cbPhotos \ {j}
Counted(target) == cbStats' = [cbStats EXCEPT ![target] = @ + 1]

(* HandleVisionCommand: the picture is in the payload (it is written to a temporary   *)
(* file), at a path, or has to be taken; a picture that could not be had ends it.     *)
Begin(j) == /\ cbPc[j] = "new" /\ j.kind \in {"init", "setup"} /\ Goes(j, "check")
            /\ UNCHANGED <<cbServerVars, cbWorldVars, cbWorkVars>>
Picture(j) == /\ cbPc[j] = "new" /\ j.kind = "vision" /\ Goes(j, "check")
              /\ \/ cbPhotos' = cbPhotos \cup {j}
                 \/ UNCHANGED cbPhotos
              /\ UNCHANGED <<cbServerVars, cbWorldVars, cbTried, cbStats, cbAnswer>>
NoPicture(j) == /\ cbPc[j] = "new" /\ j.kind = "vision" /\ Answers(j, "error")
                /\ UNCHANGED <<cbServerVars, cbWorldVars, cbTried, cbStats>>

(* ensureOllamaRunning. *)
FlagOrPing(j) == /\ cbPc[j] = "check" /\ (cbReady \/ cbAlive) /\ cbReady' = TRUE /\ Goes(j, "ask")
                 /\ UNCHANGED <<cbLock, cbServers, cbBlind, cbWorldVars, cbWorkVars>>
NobodyAnswers(j) == /\ cbPc[j] = "check" /\ ~cbReady /\ ~cbAlive /\ Goes(j, "want")
                    /\ cbBlind' = (cbBlind \/ cbLock # Nobody \/ \E k \in CbJobs \ {j} : cbPc[k] = "want")
                    /\ UNCHANGED <<cbReady, cbLock, cbServers, cbWorldVars, cbWorkVars>>
GiveUp(j, a) == Answers(j, a)
NoOllama(j) == /\ cbPc[j] \in {"check", "want"} /\ ~cbReady /\ cbLock = Nobody /\ GiveUp(j, "error")
               /\ UNCHANGED <<cbServerVars, cbWorldVars, cbTried, cbStats>>
StartServer(j) == /\ cbPc[j] = "want" /\ cbLock = Nobody /\ cbLock' = j /\ cbServers' = cbServers + 1
                  /\ Goes(j, "wait")
                  /\ UNCHANGED <<cbReady, cbBlind, cbWorldVars, cbWorkVars>>
ServerReady(j) == /\ cbPc[j] = "wait" /\ cbAlive /\ cbReady' = TRUE /\ cbLock' = Nobody /\ Goes(j, "ask")
                  /\ UNCHANGED <<cbServers, cbBlind, cbWorldVars, cbWorkVars>>
GivesUpLocked(j) == /\ cbPc[j] = "wait" /\ ~cbAlive /\ GiveUp(j, "error")
                    /\ UNCHANGED <<cbReady, cbLock, cbServers, cbBlind, cbWorldVars, cbTried, cbStats>>
WaitEnds(j) == /\ cbPc[j] = "wait" /\ ~cbAlive /\ cbLock' = Nobody /\ GiveUp(j, "error")
               /\ UNCHANGED <<cbReady, cbServers, cbBlind, cbWorldVars, cbTried, cbStats>>

(* pullModelIfNeeded, which asks the server whether it is ready or not.               *)
Pull(j) == /\ cbPc[j] = "ask" /\ j.kind \in {"init", "setup"}
           /\ \E a \in {"over", "error"} : (a = "over" => cbAlive) /\ Answers(j, a)
           /\ UNCHANGED <<cbServerVars, cbWorldVars, cbTried, cbStats>>

(* QueryVisionBrain shows the picture to one model after another until one answers.   *)
Look(j) == /\ cbPc[j] = "ask" /\ j.kind = "vision" /\ cbTried[j] < VisionModels
           /\ cbTried' = [cbTried EXCEPT ![j] = @ + 1]
           /\ \/ cbAlive /\ Answers(j, "content")
              \/ cbTried[j] + 1 < VisionModels /\ UNCHANGED <<cbPc, cbAnswer, cbPhotos>>
              \/ cbTried[j] + 1 = VisionModels /\ Answers(j, "error")
           /\ UNCHANGED <<cbServerVars, cbWorldVars, cbStats>>

(* HandleBrainQuery and handleOrchestratorStep ask the server without ensuring that   *)
(* one runs.  A reply of the brain is an escalation, a call of a hardware tool, or    *)
(* the answer.  A step whose skill is a hardware tool never reaches the brain, not    *)
(* even when the tool fails.                                                          *)
EmptyQuery(j) == /\ cbPc[j] = "new" /\ j.kind \in {"query", "step"} /\ Answers(j, "error")
                 /\ UNCHANGED <<cbServerVars, cbWorldVars, cbTried, cbStats>>
ToolStep(j) == /\ cbPc[j] = "new" /\ j.kind = "step" /\ \E a \in {"tool", "error"} : Answers(j, a)
               /\ UNCHANGED <<cbServerVars, cbWorldVars, cbTried, cbStats>>
AskBrain(j) == /\ cbPc[j] = "new" /\ j.kind \in {"query", "step"} /\ Goes(j, "asked")
               /\ UNCHANGED <<cbServerVars, cbWorldVars, cbWorkVars>>
BrainSilent(j) == /\ cbPc[j] = "asked" /\ Answers(j, "error")
                  /\ UNCHANGED <<cbServerVars, cbWorldVars, cbTried, cbStats>>
Escalate(j) == /\ cbPc[j] = "asked" /\ cbAlive /\ j.kind = "query" /\ Counted("escalated")
               /\ Answers(j, "escalate")
               /\ UNCHANGED <<cbServerVars, cbWorldVars, cbTried>>
BrainAnswers(j) == /\ cbPc[j] = "asked" /\ cbAlive /\ Counted("local") /\ Answers(j, "content")
                   /\ UNCHANGED <<cbServerVars, cbWorldVars, cbTried>>

(* The server, once started, answers sooner or later or dies; it may have been there  *)
(* before.                                                                            *)
ServerComesUp == /\ ~cbAlive /\ cbServers > cbDeaths /\ cbAlive' = TRUE
                 /\ UNCHANGED <<cbPc, cbServerVars, cbWorkVars, cbDeaths>>
ServerDies == /\ cbAlive /\ cbDeaths < CbDeaths /\ cbDeaths' = cbDeaths + 1 /\ cbAlive' = FALSE
              /\ UNCHANGED <<cbPc, cbServerVars, cbWorkVars>>

JobStep(j) == \/ Begin(j) \/ Picture(j) \/ NoPicture(j) \/ FlagOrPing(j) \/ NobodyAnswers(j) \/ NoOllama(j)
              \/ StartServer(j) \/ ServerReady(j) \/ WaitEnds(j) \/ Pull(j) \/ Look(j) \/ EmptyQuery(j)
              \/ ToolStep(j) \/ AskBrain(j) \/ BrainSilent(j) \/ Escalate(j) \/ BrainAnswers(j)
CbNext == ServerComesUp \/ ServerDies \/ \E j \in CbJobs : JobStep(j)
CbSpec == CbInit /\ [][CbNext]_cbVars
(* Every goroutine runs, every wait has a deadline.  The mutex is granted to whoever  *)
(* waits for it once it is free.                                                      *)
CbFairSpec == CbSpec /\ WF_cbVars(\E j \in CbJobs : JobStep(j))

------------------------------------------------------------------------------------
CbTypeOK ==
    /\ cbPc \in [CbJobs -> {"new", "check", "want", "wait", "ask", "asked", "done"}]
    /\ {cbReady, cbAlive, cbBlind} \subseteq BOOLEAN /\ cbLock \in CbJobs \cup {Nobody}
    /\ cbServers \in 0 .. Cardinality(CbJobs) /\ cbPhotos \subseteq CbJobs
    /\ cbTried \in [CbJobs -> 0 .. VisionModels] /\ cbDeaths \in 0 .. CbDeaths
    /\ cbStats \in [{"local", "master", "escalated"} -> 0 .. Cardinality(CbJobs)]
    /\ cbAnswer \in [CbJobs -> {"none", "content", "escalate", "tool", "error", "over"}]

(* A second server is started only by a job that found none while another job was     *)
(* already starting one, or after one died or never answered: nobody looks again once *)
(* the lock is theirs.                                                                *)
OneServer == cbServers > 1 => \/ cbBlind \/ cbDeaths > 0
                              \/ \E j \in CbJobs : j.kind \in Ensuring /\ cbAnswer[j] = "error"

(* What the heartbeat reports of the routing adds up: every reply of the brain to a   *)
(* query or a step is counted once, as local or as escalated, and nothing else is;    *)
(* "master" stays at nought.                                                          *)
RoutingAddsUp ==
    LET asked == {j \in CbJobs : j.kind \in {"query", "step"}} IN
    /\ cbStats.local = Cardinality({j \in asked : cbAnswer[j] = "content"})
    /\ cbStats.escalated = Cardinality({j \in asked : cbAnswer[j] = "escalate"})
    /\ cbStats.master = 0

(* No temporary picture outlives the job that wrote it, whichever of the server, the  *)
(* models and the camera failed it.                                                   *)
NoPictureLeft == \A j \in cbPhotos : cbPc[j] # "done"

(* Every job is answered: a server that never comes up, or dies while a job waits for *)
(* it, holds nobody for ever, and neither does the lock.                              *)
JobsEnd == <>(\A j \in CbJobs : cbPc[j] = "done")

(* Servers are not started twice, the routing statistics add up, and no finished  *)
(* job leaves a picture (control_brain.go).                                       *)
BrainSafe == CbTypeOK /\ OneServer /\ RoutingAddsUp /\ NoPictureLeft
====================================================================================
