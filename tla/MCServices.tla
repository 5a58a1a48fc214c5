-------------------------------- MODULE MCServices --------------------------------
(* Small instances of components that run side by side: every behaviour drives one  *)
(* of them, which "part" names, and leaves the others as they began.                *)
EXTENDS McpManager, AgentRounds, Subagents

CONSTANTS c1, c2, c3, s1, s2
CONSTANTS CbJobs, CbDeaths, Publishers, Consumers, Closers, Capacity
VARIABLE part  \* the component this behaviour drives
VARIABLES cbPc, cbReady, cbLock, cbServers, cbAlive, cbPhotos, cbTried, cbStats, cbAnswer, cbDeaths,
    cbBlind
VARIABLES buf, busClosed, done, pubPC, pubTopic, pubCtx, conPC, conTopic, conCtx, closerPC, drained,
    atClose

MCAgInbox ==
    {[id |-> k, kind |-> k] : k \in {"chat", "command", "system", "mission", "oversight", "internal"}}
MCCbJobs ==
    {[id |-> 1, kind |-> "setup"], [id |-> 2, kind |-> "vision"], [id |-> 3, kind |-> "query"],
     [id |-> 4, kind |-> "step"]}

Cb == INSTANCE ControlBrain
Mb == INSTANCE MessageBus WITH closed <- busClosed

cbVars == <<cbPc, cbReady, cbLock, cbServers, cbAlive, cbPhotos, cbTried, cbStats, cbAnswer,
    cbDeaths, cbBlind>>
mbVars == <<buf, busClosed, done, pubPC, pubTopic, pubCtx, conPC, conTopic, conCtx, closerPC,
    drained, atClose>>

Parts == {"mcp", "rounds", "brain", "bus", "subagents"}
SumInit ==
    /\ part \in Parts
    /\ Init /\ (part # "mcp" => \A c \in Callers : target[c] = CHOOSE s \in Servers : TRUE)
    /\ AgInit
    /\ Cb!CbInit /\ (part # "brain" => ~cbAlive)
    /\ Mb!Init
    /\ SgInit
SumNext ==
    /\ UNCHANGED part
    /\ \/ part = "mcp" /\ Next /\ UNCHANGED <<agVars, cbVars, mbVars, sgVars>>
       \/ part = "rounds" /\ AgNext /\ UNCHANGED <<vars, cbVars, mbVars, sgVars>>
       \/ part = "brain" /\ Cb!CbNext /\ UNCHANGED <<vars, agVars, mbVars, sgVars>>
       \/ part = "bus" /\ Mb!Next /\ UNCHANGED <<vars, agVars, cbVars, sgVars>>
       \/ part = "subagents" /\ SgNext /\ UNCHANGED <<vars, agVars, cbVars, mbVars>>
sumVars == <<part, vars, agVars, cbVars, mbVars, sgVars>>
SumSpec == SumInit /\ [][SumNext]_sumVars

(* The fairness of each component, asked for in the behaviours that drive it. *)
SumFairSpec ==
    /\ SumSpec
    /\ WF_vars(part = "mcp" /\ CloseStep)
    /\ \A c \in Callers : WF_vars(part = "mcp" /\ CallStep(c))
    /\ \A g \in AgGoroutines : WF_agVars(part = "rounds" /\ AgRoundStep(g))
    /\ WF_cbVars(part = "brain" /\ \E j \in CbJobs : Cb!JobStep(j))
    /\ \A p \in Publishers : WF_mbVars(part = "bus" /\ Mb!PublisherStep(p))
    /\ \A c \in Consumers : WF_mbVars(part = "bus" /\ Mb!ConsumerStep(c))
    /\ \A k \in Closers : WF_mbVars(part = "bus" /\ Mb!CloserStep(k))
    /\ WF_sgVars(part = "subagents" /\ TakeMessage)
    /\ \A g \in Spawners : WF_sgVars(part = "subagents" /\ SgRoundStep(g))
    /\ \A t \in 1 .. SgMaxTasks : WF_sgVars(part = "subagents" /\ (t \in SgTask /\ SgTaskStep(t)))
------------------------------------------------------------------------------------
(* Servers are not started twice, the routing adds up, no picture is left, and      *)
(* every job ends, with it its hold on the lock (control_brain.go).                 *)
BrainCorrect ==
    /\ [](part = "brain" => Cb!BrainSafe)
    /\ (part = "brain" => Cb!JobsEnd)

(* Close comes back however many publishers and consumers it meets (bus.go).        *)
BusCloseReturns == part = "bus" => Mb!CloseReturns

====================================================================================
