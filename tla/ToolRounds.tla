-------------------------------- MODULE ToolRounds --------------------------------
(* The tool calls of one iteration of a round (pkg/agent/loop.go): every call in a    *)
(* goroutine of its own, with the human approval of risky tools, the role check, the  *)
(* registry and the two audit records, and the results saved in the order the model   *)
(* asked for them.                                                                    *)
EXTENDS ToolProfiles, FiniteSets, SequencesExt

CONSTANTS TrRounds,       \* the tool calls a model may ask for: sequences of [tool, named]
          TrRoles,        \* the roles the agent may have in its configuration
          TrRisky,        \* riskyTools and OTTOCLAW_RISKY_TOOLS
          TrRestricted,   \* restricted and OTTOCLAW_RESTRICTED_TOOLS
          TrArrivals      \* bound: audit records that arrive

(* A call names its tool exactly, or "loose", otherwise than the tool is called and    *)
(* still the same for the registry ("writefile", normalizeToolName), or it names a     *)
(* tool the agent does not have, "missing".                                            *)
Naming == {"exact", "loose", "missing"}
ASSUME TrAssumption == /\ TrRounds \subseteq Seq([tool : DOMAIN Actions, named : Naming])
                       /\ TrRoles \subseteq {"admin", "trusted", "guest"} /\ TrArrivals \in Nat

VARIABLES trAsked,      \* the tool calls of the iteration
          trMaster,     \* whether a master is configured: without one there is no audit client
          trRole,       \* the agent's role
          trCall,       \* call -> [pc, left, told]: where its goroutine is, the steps it has left, its result
          trTicket,     \* call -> the approval request at the master: "none", "pending", "approved", "rejected"
          trNoticed,    \* calls whose approval the user has been told to give
          trNoId,       \* history: calls whose ticket the master answered without an id
          trOutcomes,   \* history: call -> [step, outcome] of the steps taken, in order
          trRecords,    \* history: audit records handed to goroutines that send them: [call, by, status]
          trArrived,    \* those of them the master has
          trFile,       \* the edits one file of the workspace holds: calls
          trRead,       \* call -> the edits it read
          trSoul,       \* the soul at the master, and the one deployed: the call that wrote it, 0 for none
          trDeployed,
          trSentInRound,\* siam_send_message: sentInRound
          trSaw,        \* history: calls that saw sentInRound unset, with the calls that were running then
          trSaved       \* the calls whose results have been saved in the session
trVars == <<trAsked, trMaster, trRole, trCall, trTicket, trNoticed, trNoId, trOutcomes, trRecords, trArrived,
            trFile, trRead, trSoul, trDeployed, trSentInRound, trSaw, trSaved>>
trWorldVars == <<trOutcomes, trFile, trRead, trSoul, trDeployed, trSentInRound, trSaw>>
trFixed == <<trAsked, trMaster, trRole>>
trAudit == <<trRecords, trArrived>>

TrCalls == DOMAIN trAsked
Tool(i) == trAsked[i].tool
Named(i) == trAsked[i].named
Pending == [pc |-> "asked", left |-> <<>>, told |-> "nothing"]
TrInit == \E asked \in TrRounds, master \in BOOLEAN, role \in TrRoles :
    /\ trAsked = asked /\ trMaster = master /\ trRole = role
    /\ trCall = [i \in DOMAIN asked |-> Pending] /\ trTicket = [i \in DOMAIN asked |-> "none"]
    /\ trNoticed = {} /\ trNoId = {} /\ trOutcomes = [i \in DOMAIN asked |-> <<>>] /\ trRecords = {} /\ trArrived = {}
    /\ trFile = {} /\ trRead = [i \in DOMAIN asked |-> {}] /\ trSoul = 0 /\ trDeployed = 0
    /\ trSentInRound = FALSE /\ trSaw = {} /\ trSaved = <<>>

---------------------------------------------------------------------------------
(* isRiskyAction, canExecuteTool: both look for the name as the model wrote it. *)
IsRisky(i) == Named(i) # "loose" /\ Tool(i) \in TrRisky \ {"exec"}
CanExecuteTool(i) == trRole \in {"admin", "trusted"} \/ Named(i) = "loose" \/ Tool(i) \notin TrRestricted

Moves(i, pc) == trCall' = [trCall EXCEPT ![i].pc = pc]
Tells(i, told) == trCall' = [trCall EXCEPT ![i] = [pc |-> "told", left |-> <<>>, told |-> told]]

(* A record is handed to a goroutine of its own, which sends it whenever it runs: it  *)
(* may arrive after any other, and one whose request fails is lost.                   *)
AuditRecord(i, by, status) == [call |-> i, by |-> by, status |-> status]
Log(records) == trRecords' = trRecords \cup (IF trMaster THEN records ELSE {}) /\ UNCHANGED trArrived
Arrive(r) == /\ r \in trRecords \ trArrived /\ Cardinality(trArrived) < TrArrivals /\ trArrived' = trArrived \cup {r}
             /\ UNCHANGED <<trFixed, trWorldVars, trCall, trTicket, trNoticed, trNoId, trRecords, trSaved>>

(* The human-in-the-loop interceptor.  The user is told; the ticket is asked for: a   *)
(* lost request ends the call, an answer without an id counts as an approval, and so  *)
(* does having no master.                                                             *)
Rejected(i, status) == Tells(i, "rejected") /\ Log({AuditRecord(i, "loop", status)})
RequestApproval(i) ==
    /\ trCall[i].pc = "asked" /\ IsRisky(i) /\ trNoticed' = trNoticed \cup {i}
    /\ \/ ~trMaster /\ Moves(i, "allowed") /\ UNCHANGED <<trTicket, trNoId, trAudit>>
       \/ trMaster /\ Rejected(i, "error") /\ UNCHANGED <<trTicket, trNoId>>
       \/ trMaster /\ trNoId' = trNoId \cup {i} /\ Moves(i, "allowed") /\ UNCHANGED <<trTicket, trAudit>>
       \/ trMaster /\ trTicket' = [trTicket EXCEPT ![i] = "pending"] /\ Moves(i, "waiting")
          /\ UNCHANGED <<trNoId, trAudit>>
    /\ UNCHANGED <<trFixed, trWorldVars, trSaved>>
Human(i) == /\ trTicket[i] = "pending" /\ \E verdict \in {"approved", "rejected"} : trTicket' = [trTicket EXCEPT ![i] = verdict]
            /\ UNCHANGED <<trFixed, trWorldVars, trCall, trNoticed, trNoId, trAudit, trSaved>>

(* WaitApproval polls every five seconds; a poll that fails, or the end of the        *)
(* round's context, is not an approval.                                               *)
PollApproval(i) ==
    /\ trCall[i].pc = "waiting"
    /\ \/ trTicket[i] = "approved" /\ Moves(i, "allowed") /\ UNCHANGED trAudit
       \/ trTicket[i] = "rejected" /\ Rejected(i, "rejected")
       \/ Rejected(i, "error")
    /\ UNCHANGED <<trFixed, trWorldVars, trTicket, trNoticed, trNoId, trSaved>>
(* The role check refuses without a record; the registry answers for a tool it does   *)
(* not find, and leaves the record to the loop; otherwise it runs the tool, which may *)
(* reject its arguments (siam_send_message only after it has claimed the round's one  *)
(* message).                                                                          *)
Admitted(i) == \/ trCall[i].pc = "asked" /\ ~IsRisky(i)
               \/ trCall[i].pc = "allowed"
Begin(i) ==
    /\ Admitted(i)
    /\ \/ ~CanExecuteTool(i) /\ Tells(i, "denied") /\ UNCHANGED trAudit
       \/ CanExecuteTool(i) /\ Named(i) = "missing" /\ Tells(i, "unknown") /\ Log({AuditRecord(i, "loop", "failed")})
       \/ /\ CanExecuteTool(i) /\ Named(i) # "missing" /\ UNCHANGED trAudit
          /\ \/ \E steps \in Actions[Tool(i)] : trCall' = [trCall EXCEPT ![i] = [pc |-> "running", left |-> steps, told |-> "nothing"]]
             \/ /\ Tool(i) # "siam_send_message"
                /\ trCall' = [trCall EXCEPT ![i] = [pc |-> "ran", left |-> <<>>, told |-> "error"]]
    /\ UNCHANGED <<trFixed, trWorldVars, trTicket, trNoticed, trNoId, trSaved>>

(* What a step changes when it is done. *)
Running == {i \in TrCalls : trCall[i].pc = "running"}
Changes(i, step) ==
    /\ trRead' = IF step.on = "file" /\ ~step.changes THEN [trRead EXCEPT ![i] = trFile] ELSE trRead
    /\ trFile' = IF step.on = "file" /\ step.changes THEN trRead[i] \cup {i} ELSE trFile
    /\ trSoul' = IF step.on = "soul" THEN i ELSE trSoul
    /\ trDeployed' = IF step.on = "deployed" THEN trSoul ELSE trDeployed
    /\ trSentInRound' = (trSentInRound \/ (step.on = "flag" /\ step.changes))
    /\ trSaw' = IF step.on = "flag" /\ ~step.changes THEN trSaw \cup {[call |-> i, others |-> Running \ {i}]} ELSE trSaw
Unchanged == UNCHANGED <<trFile, trRead, trSoul, trDeployed, trSentInRound, trSaw>>

(* How a call goes on: with its next step, or to its result. *)
EndsWith(i, told) == trCall' = [trCall EXCEPT ![i] = [pc |-> "ran", left |-> <<>>, told |-> told]]
GoesOn(i) == LET rest == Tail(trCall[i].left) IN
    IF rest = <<>> THEN EndsWith(i, "ok") ELSE trCall' = [trCall EXCEPT ![i].left = rest]
Succeeds(i, step) == IF step.onError = "else" THEN EndsWith(i, "ok") ELSE GoesOn(i)
GoesWrong(i, step) == IF step.onError = "ends" THEN EndsWith(i, "error") ELSE GoesOn(i)
Notes(i, step, outcome) == trOutcomes' = [trOutcomes EXCEPT ![i] = Append(@, [step |-> step, outcome |-> outcome])]

(* Fault: refusals pass for success, whatever the tool checks. *)
RefusalPasses(i, step) == Succeeds(i, step)

(* A step is done; the service or the process refuses it; it fails; or it takes       *)
(* effect and its answer is lost.  A second message of the round is skipped.          *)
RefusalGoes(i, step) == IF step.checks THEN GoesWrong(i, step) ELSE Succeeds(i, step)
Step(i) ==
    /\ trCall[i].pc = "running"
    /\ LET step == Head(trCall[i].left) IN
       \/ step.on = "flag" /\ ~step.changes /\ trSentInRound /\ EndsWith(i, "skipped")
          /\ Unchanged /\ UNCHANGED trOutcomes
       \/ /\ ~(step.on = "flag" /\ ~step.changes /\ trSentInRound)
          /\ Succeeds(i, step) /\ Changes(i, step) /\ Notes(i, step, "done")
       \/ /\ step.on # "flag" /\ Unchanged
          /\ \/ RefusalGoes(i, step) /\ Notes(i, step, "refused")
             \/ GoesWrong(i, step) /\ Notes(i, step, "failed")
       \/ /\ step.on # "flag" /\ step.changes
          /\ GoesWrong(i, step) /\ Changes(i, step) /\ Notes(i, step, "lost")
    /\ UNCHANGED <<trFixed, trTicket, trNoticed, trNoId, trAudit, trSaved>>

(* siam_send_message rejects its arguments only here. *)
RejectMessage(i) ==
    /\ trCall[i].pc = "running" /\ Tool(i) = "siam_send_message"
    /\ Head(trCall[i].left).on # "flag" /\ \A k \in DOMAIN trOutcomes[i] : trOutcomes[i][k].step.on = "flag"
    /\ \E told \in {"error", "skipped"} : EndsWith(i, told)
    /\ UNCHANGED <<trFixed, trWorldVars, trTicket, trNoticed, trNoId, trAudit, trSaved>>

(* The two records of a call that ran: the registry's auditor (not for an             *)
(* asynchronous result) goes by IsError, the loop by Err, which only message and the  *)
(* MCP tools set, when their one step fails.                                          *)
SetsErr(i) == trCall[i].told = "error" /\ Tool(i) \in {"message", "mcp"} /\ trOutcomes[i] # <<>>
AuditStatus(failed) == IF failed THEN "failed" ELSE "success"
IsAsync(i) == Tool(i) = "spawn" /\ trCall[i].told = "ok"
Audits(i) == {AuditRecord(i, "loop", AuditStatus(SetsErr(i)))}
                 \cup (IF IsAsync(i) THEN {} ELSE {AuditRecord(i, "registry", AuditStatus(trCall[i].told = "error"))})
Returns(i) == /\ trCall[i].pc = "ran" /\ Tells(i, trCall[i].told) /\ Log(Audits(i))
              /\ UNCHANGED <<trFixed, trWorldVars, trTicket, trNoticed, trNoId, trSaved>>

(* wg.Wait, and then one result after the other into the session. *)
SaveResult == /\ \A i \in TrCalls : trCall[i].pc = "told"
              /\ Len(trSaved) < Len(trAsked) /\ trSaved' = Append(trSaved, Len(trSaved) + 1)
              /\ UNCHANGED <<trFixed, trWorldVars, trCall, trTicket, trNoticed, trNoId, trAudit>>

TrNext == \/ \E i \in TrCalls : \/ RequestApproval(i) \/ Human(i) \/ PollApproval(i) \/ Begin(i)
                                \/ Step(i) \/ RejectMessage(i) \/ Returns(i)
          \/ SaveResult
          \/ \E r \in trRecords : Arrive(r)
TrSpec == TrInit /\ [][TrNext]_trVars

---------------------------------------------------------------------------------
TrTypeOK ==
    /\ trAsked \in TrRounds /\ trMaster \in BOOLEAN /\ trRole \in TrRoles
    /\ \A i \in TrCalls : /\ trCall[i].pc \in {"asked", "waiting", "allowed", "running", "ran", "told"}
                          /\ trCall[i].told \in {"nothing", "ok", "error", "skipped", "rejected", "denied", "unknown"}
                          /\ trTicket[i] \in {"none", "pending", "approved", "rejected"}
    /\ trNoticed \subseteq TrCalls /\ trNoId \subseteq trNoticed /\ trFile \subseteq TrCalls
    /\ trSoul \in TrCalls \cup {0} /\ trDeployed \in TrCalls \cup {0} /\ trSentInRound \in BOOLEAN
    /\ \A k \in DOMAIN trSaved : trSaved[k] = k

Took(i, outcomes) == {k \in DOMAIN trOutcomes[i] : trOutcomes[i][k].outcome \in outcomes}
Changed(i) == {k \in Took(i, {"done", "lost"}) : trOutcomes[i][k].step.changes /\ trOutcomes[i][k].step.on # "flag"}
Sent(i) == Tool(i) = "siam_send_message" /\ Changed(i) # {}
Wrote(i) == \E k \in Changed(i) : trOutcomes[i][k].step.on = "file"
SoulSteps(i) == {k \in DOMAIN trOutcomes[i] : trOutcomes[i][k].step.on = "soul"}
Refused(i) == \E k \in SoulSteps(i) : trOutcomes[i][k].outcome = "refused"
RecordsOf(i) == {r \in trRecords : r.call = i}

(* A risky tool acts only when its user has been told, and a human approved it, no    *)
(* master is configured, or the master answered the request without an id             *)
(* (WaitApproval).  One that the model named loosely acts unasked: the risk is looked *)
(* up before the registry makes the name the tool's.                                  *)
RiskyWasAllowed ==
    \A i \in TrCalls : Tool(i) \in TrRisky \ {"exec"} /\ trOutcomes[i] # <<>> =>
        \/ Named(i) = "loose"
        \/ i \in trNoticed /\ (trTicket[i] = "approved" \/ ~trMaster \/ i \in trNoId)

(* A tool that reports success has done every step but those it neither checks nor    *)
(* needs: a refusal it does not look at, an error it ignores, a first source that has *)
(* a second.                                                                          *)
SuccessMeansDone ==
    \A i \in TrCalls : trCall[i].told = "ok" =>
        /\ trOutcomes[i] # <<>>
        /\ \A k \in DOMAIN trOutcomes[i] : LET o == trOutcomes[i][k] IN
              \/ o.outcome = "done"
              \/ o.outcome = "refused" /\ ~o.step.checks
              \/ o.step.onError # "ends"

(* A tool that reports an error changed nothing, unless the answer to its last step   *)
(* was lost or an earlier step of the same call stands.                               *)
ErrorMeansUntouched ==
    \A i \in TrCalls : trCall[i].told = "error" /\ Changed(i) # {} =>
        \/ trOutcomes[i][Len(trOutcomes[i])].outcome = "lost"
        \/ Len(trOutcomes[i]) > 1

(* The one message a round may send to other agents is exceeded only by calls that    *)
(* ran at the same time (sentInRound is tested and set without a lock).               *)
OneBubble == \A i, j \in TrCalls : i # j /\ Sent(i) /\ Sent(j) =>
                 \E s \in trSaw : (s.call = i /\ j \in s.others) \/ (s.call = j /\ i \in s.others)

(* An edit of a file is lost only to a call that had read the file before it, or that *)
(* replaced the file as a whole (edit_file, append_file, write_file).                 *)
EditsKept == \A i \in TrCalls : Wrote(i) /\ i \notin trFile =>
                 \E j \in trFile : i \notin trRead[j]
                     /\ (Tool(j) # "write_file" => \E k \in Took(j, {"done"}) : ~trOutcomes[j][k].step.changes)

(* After a call that updated and deployed the soul a new one is deployed, not the one  *)
(* of the beginning, unless the update was refused: siam_update_soul does not look at  *)
(* the status and deploys the old soul.                                                *)
NewSoulDeployed ==
    \A i \in TrCalls : trCall[i].told = "ok" /\ SoulSteps(i) # {} /\ ~Refused(i)
            /\ (\E k \in Took(i, {"done"}) : trOutcomes[i][k].step.on = "deployed") =>
        trDeployed # 0

(* Every call that ran is reported to the master, once by the loop and, unless it     *)
(* goes on in the background, once by the registry, whose record tells a failure where *)
(* the loop's calls most failures a success; one that a human rejected is reported as *)
(* such, one of a tool nobody has only by the loop, and one refused for its role not  *)
(* at all (Phase 5, "this ensures ALL tools are audited").  The master has of these   *)
(* reports what arrived, and no other.                                                *)
Audited ==
    /\ trArrived \subseteq trRecords
    /\ \A i \in TrCalls : trCall[i].pc # "told" \/ ~trMaster => RecordsOf(i) = {}
    /\ \A i \in TrCalls : trCall[i].pc = "told" /\ trMaster =>
          CASE trCall[i].told = "denied" -> RecordsOf(i) = {}
            [] trCall[i].told = "unknown" -> RecordsOf(i) = {AuditRecord(i, "loop", "failed")}
            [] trCall[i].told = "rejected" -> \E r \in RecordsOf(i) : RecordsOf(i) = {r} /\ r.status \in {"rejected", "error"}
            [] OTHER -> /\ \E r \in RecordsOf(i) : r.by = "loop" /\ (r.status = "failed" => trCall[i].told = "error")
                        /\ Tool(i) = "spawn" \/ \E r \in RecordsOf(i) : r.by = "registry"
                               /\ (r.status = "failed" <=> trCall[i].told = "error")

(* Results are saved in the order of the calls, and none before the last call of the  *)
(* iteration has its result.                                                          *)
ResultsTogether == trSaved # <<>> => \A i \in TrCalls : trCall[i].told # "nothing"

ToolRoundsSafe ==
    /\ TrTypeOK /\ RiskyWasAllowed /\ SuccessMeansDone /\ ErrorMeansUntouched /\ OneBubble /\ EditsKept
    /\ NewSoulDeployed /\ Audited /\ ResultsTogether
===================================================================================
