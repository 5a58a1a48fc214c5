-------------------------- MODULE ToolsProofs --------------------------
(***************************************************************************)
(* Theorems about McpManager, for any finite number of callers and         *)
(* servers: the wait group counts the calls in flight, and the two safety  *)
(* properties of Close.  And about ToolRounds, for any rounds of tools:    *)
(* what its calls do, say and record.                                      *)
(***************************************************************************)
EXTENDS McpManager, ToolRounds, FiniteSetTheorems, TLAPS

(* Any set of callers is finite, so its cardinality is a number.           *)
LEMMA CallersFinite ==
  ASSUME NEW S \in SUBSET Callers
  PROVE  IsFiniteSet(S) /\ Cardinality(S) \in Nat
  BY McpAssumption, FS_Subset, FS_CardinalityType

(* wg.Add(1) happens where a caller begins to count, wg.Done where it      *)
(* stops; every other step of a caller leaves the set of counted ones.     *)
LEMMA CountEnters ==
  ASSUME TypeOK, NEW c \in Callers, pc[c] = "checked", Goto(c, "unlock")
  PROVE  Cardinality(Counted') = Cardinality(Counted) + 1
<1>1. Counted' = Counted \cup {c} /\ c \notin Counted
  BY DEF TypeOK, Goto, Counted
<1>2. IsFiniteSet(Counted)
  BY CallersFinite DEF Counted
<1> QED
  BY <1>1, <1>2, FS_AddElement

LEMMA ReturnLeaves ==
  ASSUME TypeOK, NEW c \in Callers, pc[c] = "call", Goto(c, "idle")
  PROVE  Cardinality(Counted') = Cardinality(Counted) - 1 /\ Cardinality(Counted') \in Nat
<1>1. Counted' = Counted \ {c} /\ c \in Counted
  BY DEF TypeOK, Goto, Counted
<1>2. IsFiniteSet(Counted)
  BY CallersFinite DEF Counted
<1>3. Counted \ {c} \in SUBSET Callers
  BY DEF Counted
<1> QED
  BY <1>1, <1>2, <1>3, FS_RemoveElement, CallersFinite

---------------------------------------------------------------------------
(* Type correctness; the counter of m.wg is the number of calls between    *)
(* wg.Add and wg.Done, whatever Close does (manager.go:457-464).           *)
THEOREM TypeCorrect == Spec => []TypeOK
<1>1. Init => TypeOK
  <2> SUFFICES ASSUME Init PROVE TypeOK
    OBVIOUS
  <2>1. Counted = {}
    BY DEF Init, Counted
  <2> QED
    BY <2>1, FS_EmptySet DEF Init, TypeOK
<1>2. TypeOK /\ [Next]_vars => TypeOK'
  <2> SUFFICES ASSUME TypeOK, [Next]_vars PROVE TypeOK'
    OBVIOUS
  <2>1. ASSUME NEW s \in Servers, Connect(s) PROVE TypeOK'
    BY <2>1 DEF TypeOK, Connect, Counted
  <2>2. ASSUME NEW c \in Callers, NEW s \in Servers, Enter(c, s) PROVE TypeOK'
    <3>1. Counted' = Counted
      BY <2>2 DEF TypeOK, Enter, Goto, Counted
    <3> QED
      BY <2>2, <3>1 DEF TypeOK, Enter, Goto
  <2>3. ASSUME NEW c \in Callers, RLock(c) PROVE TypeOK'
    <3>1. Counted' = Counted
      BY <2>3 DEF TypeOK, RLock, Goto, Counted
    <3> QED
      BY <2>3, <3>1 DEF TypeOK, RLock, Goto
  <2>4. ASSUME NEW c \in Callers, Check(c) PROVE TypeOK'
    <3>1. Counted' = Counted
      BY <2>4 DEF TypeOK, Check, Goto, Counted
    <3> QED
      BY <2>4, <3>1 DEF TypeOK, Check, Goto
  <2>5. ASSUME NEW c \in Callers, Count(c) PROVE TypeOK'
    <3>1. CASE target[c] \in servers
      <4>1. Cardinality(Counted') = Cardinality(Counted) + 1
        BY <2>5, <3>1, CountEnters DEF Count
      <4> QED
        BY <2>5, <3>1, <4>1 DEF TypeOK, Count, Goto
    <3>2. CASE target[c] \notin servers
      <4>1. Counted' = Counted
        BY <2>5, <3>2 DEF TypeOK, Count, Goto, Counted
      <4> QED
        BY <2>5, <3>2, <4>1 DEF TypeOK, Count, Goto
    <3> QED
      BY <3>1, <3>2
  <2>6. ASSUME NEW c \in Callers, RUnlock(c) PROVE TypeOK'
    <3>1. Counted' = Counted
      BY <2>6 DEF TypeOK, RUnlock, Goto, Counted
    <3> QED
      BY <2>6, <3>1 DEF TypeOK, RUnlock, Goto
  <2>7. ASSUME NEW c \in Callers, Return(c) PROVE TypeOK'
    <3>1. Cardinality(Counted') = Cardinality(Counted) - 1 /\ Cardinality(Counted') \in Nat
      BY <2>7, ReturnLeaves DEF Return
    <3> QED
      BY <2>7, <3>1 DEF TypeOK, Return, Goto
  <2>8. ASSUME Swap \/ Wait \/ Lock \/ Finish PROVE TypeOK'
    BY <2>8 DEF TypeOK, Swap, Wait, Lock, Finish, Counted
  <2>9. ASSUME NEW s \in Servers, CloseSession(s) PROVE TypeOK'
    BY <2>9 DEF TypeOK, CloseSession, Counted
  <2>10. CASE UNCHANGED vars
    BY <2>10 DEF TypeOK, vars, Counted
  <2> QED
    BY <2>1, <2>2, <2>3, <2>4, <2>5, <2>6, <2>7, <2>8, <2>9, <2>10
       DEF Next, CallStep, CloseStep
<1> QED
  BY <1>1, <1>2, PTL DEF Spec

---------------------------------------------------------------------------
(* Servers are connected before anybody closes, and until Close begins to  *)
(* take sessions down the map and the open sessions are the same.          *)
Before == {"out", "wait", "lock"}
LoadedFirst == closer # "out" => loading = {}
MapIsOpen ==
    /\ closer \in Before => servers \subseteq open
    /\ closer # "done" => open \subseteq servers
    /\ closer = "done" => open = {}

(* A call that is counted got its session from the map and keeps it until  *)
(* wg.Wait returns; one that is counted after that has raced.              *)
CountedHasSession ==
    \A c \in Counted : IF closer \in {"out", "wait"} THEN target[c] \in open ELSE c \in raced

(* Who comes after Close has returned does not get past the first check.   *)
LateStaysOut == \A c \in late : closer = "done" /\ pc[c] = "idle"

(* The inductive invariant beside TypeOK.                                  *)
IInv == LoadedFirst /\ MapIsOpen /\ CountedHasSession /\ LateStaysOut

(* wg.Wait returns only when nobody is counted.                            *)
LEMMA WaitEmpty ==
  ASSUME TypeOK, wg = 0
  PROVE  Counted = {}
<1>1. IsFiniteSet(Counted) /\ Cardinality(Counted) = 0
  BY CallersFinite DEF TypeOK, Counted
<1> QED
  BY <1>1, FS_EmptySet

(* Every step keeps the invariant.                                         *)
LEMMA Inductive == TypeOK /\ IInv /\ [Next]_vars => IInv'
<1> SUFFICES ASSUME TypeOK, IInv, [Next]_vars PROVE IInv'
  OBVIOUS
<1> USE DEF IInv
<1>1. ASSUME NEW s \in Servers, Connect(s) PROVE IInv'
  <2>1. closer = "out" /\ closer' = "out"
    BY <1>1 DEF Connect, LoadedFirst
  <2>2. LoadedFirst' /\ MapIsOpen'
    BY <1>1, <2>1 DEF Connect, LoadedFirst, MapIsOpen, Before
  <2>3. CountedHasSession'
    BY <1>1, <2>1 DEF Connect, CountedHasSession, Counted
  <2>4. LateStaysOut'
    BY <1>1 DEF Connect, LateStaysOut
  <2> QED
    BY <2>2, <2>3, <2>4
<1>2. ASSUME NEW c \in Callers, NEW s \in Servers, Enter(c, s) PROVE IInv'
  <2>1. LoadedFirst' /\ MapIsOpen'
    BY <1>2 DEF Enter, LoadedFirst, MapIsOpen
  <2>2. c \notin Counted /\ Counted' = Counted
    BY <1>2 DEF TypeOK, Enter, Goto, Counted
  <2>3. \A d \in Counted : target'[d] = target[d] /\ (d \in raced' <=> d \in raced)
    BY <1>2, <2>2 DEF Enter, TypeOK
  <2>4. CountedHasSession'
    BY <1>2, <2>2, <2>3 DEF Enter, CountedHasSession
  <2>5. LateStaysOut'
    BY <1>2 DEF Enter, Goto, LateStaysOut, TypeOK
  <2> QED
    BY <2>1, <2>4, <2>5
<1>3. ASSUME NEW c \in Callers, RLock(c) \/ Check(c) \/ RUnlock(c) PROVE IInv'
  <2>1. LoadedFirst' /\ MapIsOpen'
    BY <1>3 DEF RLock, Check, RUnlock, LoadedFirst, MapIsOpen
  <2>2. Counted' = Counted
    BY <1>3 DEF TypeOK, RLock, Check, RUnlock, Goto, Counted
  <2>3. CountedHasSession'
    BY <1>3, <2>2 DEF RLock, Check, RUnlock, CountedHasSession
  <2>4. LateStaysOut'
    BY <1>3 DEF RLock, Check, RUnlock, Goto, LateStaysOut, TypeOK
  <2> QED
    BY <2>1, <2>3, <2>4
<1>4. ASSUME NEW c \in Callers, Count(c) PROVE IInv'
  <2>1. LoadedFirst' /\ MapIsOpen'
    BY <1>4 DEF Count, LoadedFirst, MapIsOpen
  <2>2. Counted' \subseteq Counted \cup {c}
    BY <1>4 DEF Count, Goto, Counted, TypeOK
  <2>3. c \in Counted' => target[c] \in servers
    BY <1>4 DEF Count, Goto, Counted, TypeOK
  <2>4. CountedHasSession'
    <3> SUFFICES ASSUME NEW d \in Counted'
                 PROVE  IF closer \in {"out", "wait"} THEN target[d] \in open ELSE d \in raced'
      BY <1>4 DEF Count, CountedHasSession
    <3>1. CASE d # c
      BY <1>4, <2>2, <3>1 DEF Count, CountedHasSession
    <3>2. CASE d = c
      BY <1>4, <2>3, <3>2 DEF Count, MapIsOpen, Before, TypeOK
    <3> QED
      BY <3>1, <3>2
  <2>5. LateStaysOut'
    BY <1>4 DEF Count, Goto, LateStaysOut, TypeOK
  <2> QED
    BY <2>1, <2>4, <2>5
<1>5. ASSUME NEW c \in Callers, Return(c) PROVE IInv'
  <2>1. LoadedFirst' /\ MapIsOpen'
    BY <1>5 DEF Return, LoadedFirst, MapIsOpen
  <2>2. Counted' \subseteq Counted
    BY <1>5 DEF Return, Goto, Counted, TypeOK
  <2>3. CountedHasSession'
    BY <1>5, <2>2 DEF Return, CountedHasSession
  <2>4. LateStaysOut'
    BY <1>5 DEF Return, Goto, LateStaysOut, TypeOK
  <2> QED
    BY <2>1, <2>3, <2>4
<1>6. ASSUME Swap PROVE IInv'
  BY <1>6 DEF Swap, LoadedFirst, MapIsOpen, Before, CountedHasSession, Counted, LateStaysOut
<1>7. ASSUME Wait PROVE IInv'
  <2>1. Counted' = {}
    BY <1>7, WaitEmpty DEF Wait, Counted
  <2> QED
    BY <1>7, <2>1 DEF Wait, LoadedFirst, MapIsOpen, Before, CountedHasSession, LateStaysOut
<1>8. ASSUME Lock PROVE IInv'
  BY <1>8 DEF Lock, LoadedFirst, MapIsOpen, Before, CountedHasSession, Counted, LateStaysOut
<1>9. ASSUME NEW s \in Servers, CloseSession(s) PROVE IInv'
  BY <1>9 DEF CloseSession, LoadedFirst, MapIsOpen, Before, CountedHasSession, Counted,
              LateStaysOut
<1>10. ASSUME Finish PROVE IInv'
  BY <1>10 DEF Finish, LoadedFirst, MapIsOpen, Before, CountedHasSession, Counted, LateStaysOut
<1>11. CASE UNCHANGED vars
  BY <1>11 DEF vars, LoadedFirst, MapIsOpen, CountedHasSession, Counted, LateStaysOut
<1> QED
  BY <1>1, <1>2, <1>3, <1>4, <1>5, <1>6, <1>7, <1>8, <1>9, <1>10, <1>11
     DEF Next, CallStep, CloseStep

(* It holds at first, hence always.                                        *)
LEMMA Invariant == Spec => []IInv
<1>1. Init => IInv
  BY DEF Init, IInv, LoadedFirst, MapIsOpen, CountedHasSession, Counted, LateStaysOut
<1> QED
  BY <1>1, Inductive, TypeCorrect, PTL DEF Spec

---------------------------------------------------------------------------
(* However many calls and servers there are, Close takes a session from    *)
(* under a call in one way only: the call passed both checks and reached   *)
(* wg.Add after wg.Wait had returned (manager.go:449-464, 487-509).        *)
THEOREM OnlyTheRaceCuts == Spec => []CutOnlyByRace
<1>1. TypeOK /\ IInv => CutOnlyByRace
  BY DEF IInv, CountedHasSession, Counted, CutOnlyByRace
<1> QED
  BY <1>1, TypeCorrect, Invariant, PTL

(* When Close has returned, no session is open and no call that starts     *)
(* from then on gets to one (manager.go:438-447, 499-517).                 *)
THEOREM ClosedForGood == Spec => []NothingAfterClose
<1>1. IInv => NothingAfterClose
  BY DEF IInv, MapIsOpen, LateStaysOut, NothingAfterClose
<1> QED
  BY <1>1, Invariant, PTL

---------------------------------------------------------------------------
(* ToolRounds.  What steps, results and outcomes there are. *)
ToolSteps == [on : {"outside", "file", "soul", "deployed", "flag"}, changes : BOOLEAN, checks : BOOLEAN,
              onError : {"ends", "ignored", "else"}]
OutsideSteps == {s \in ToolSteps : s.on \in {"outside", "deployed"}}
Outside == {plan \in Seq(ToolSteps) :
                Len(plan) >= 1 /\ \A k \in 1 .. Len(plan) : plan[k].on \in {"outside", "deployed"}}

(* What the plans of the tools have in common: only siam_send_message claims and      *)
(* raises the flag, first of all; a file is read first and written last; a soul is    *)
(* updated before it is deployed.                                                     *)
Shaped(tool, plan) ==
    /\ plan \in Seq(ToolSteps) /\ Len(plan) >= 1
    /\ tool = "siam_send_message" => Len(plan) >= 3
    /\ \A k \in 1 .. Len(plan) :
          /\ plan[k].on = "flag" <=> (tool = "siam_send_message" /\ k <= 2)
          /\ plan[k].on = "flag" => (plan[k].changes <=> k = 2) /\ plan[k].onError = "ends"
          /\ plan[k].on = "file" => plan[k].onError = "ends" /\ plan[k].checks
          /\ plan[k].on = "file" /\ ~plan[k].changes => k = 1
          /\ plan[k].on = "file" /\ plan[k].changes =>
                /\ k = Len(plan)
                /\ tool = "write_file" \/ (k = 2 /\ plan[1].on = "file" /\ ~plan[1].changes)
          /\ plan[k].on = "soul" => k = 1 /\ plan[k].onError = "ends"

LEMMA OneStep == ASSUME NEW a \in OutsideSteps PROVE <<a>> \in Outside
  BY DEF Outside, OutsideSteps
LEMMA TwoSteps == ASSUME NEW a \in OutsideSteps, NEW b \in OutsideSteps PROVE <<a, b>> \in Outside
  BY DEF Outside, OutsideSteps
LEMMA ThreeSteps ==
  ASSUME NEW a \in OutsideSteps, NEW b \in OutsideSteps, NEW c \in OutsideSteps
  PROVE  <<a, b, c>> \in Outside
  BY DEF Outside, OutsideSteps
LEMMA FourSteps ==
  ASSUME NEW a \in OutsideSteps, NEW b \in OutsideSteps, NEW c \in OutsideSteps,
         NEW d \in OutsideSteps
  PROVE  <<a, b, c, d>> \in Outside
  BY DEF Outside, OutsideSteps
LEMMA SingleSteps ==
  /\ Ask \in OutsideSteps /\ Tell \in OutsideSteps /\ Get \in OutsideSteps /\ Post \in OutsideSteps
  /\ \A s \in OutsideSteps : Blind(s) \in OutsideSteps /\ Careless(s) \in OutsideSteps /\ OrElse(s) \in OutsideSteps
  /\ On("deployed", Post) \in OutsideSteps
  BY DEF Post, Get, Tell, Ask, Blind, ToolSteps, OutsideSteps, Careless, OrElse, On

(* Every other tool acts outside the agent only. *)
LEMMA OutsideTools ==
  \A tool \in DOMAIN Actions :
      tool \notin {"siam_send_message", "siam_update_soul", "read_file", "write_file", "edit_file", "append_file"} =>
          Actions[tool] \subseteq Outside
<1>1. DelegateMission \subseteq Outside /\ StoreMemory \subseteq Outside /\ SearchMemory
      \subseteq Outside /\ GetMetrics \subseteq Outside /\ GetAgents \subseteq Outside
      /\ SpawnAgent \subseteq Outside /\ CatalogAgent \subseteq Outside /\ TerminateAgent
      \subseteq Outside /\ GetSkills \subseteq Outside /\ GetAgentSkills \subseteq Outside
      /\ Scale \subseteq Outside /\ GetJobs \subseteq Outside /\ SubmitJob \subseteq Outside
      /\ RunCommand \subseteq Outside /\ FindAgents \subseteq Outside /\ GetMessages \subseteq
      Outside /\ GetNodes \subseteq Outside /\ PromoteAgent \subseteq Outside
  BY SingleSteps, OneStep, TwoSteps, ThreeSteps, FourSteps DEF DelegateMission, StoreMemory,
     SearchMemory, GetMetrics, GetAgents, SpawnAgent, CatalogAgent, TerminateAgent, GetSkills,
     GetAgentSkills, Scale, GetJobs, SubmitJob, RunCommand, FindAgents, GetMessages, GetNodes,
     PromoteAgent
<1>2. PromotionRitual \subseteq Outside /\ BroadcastUpdate \subseteq Outside /\ OpenBrowser
      \subseteq Outside /\ Forge \subseteq Outside /\ Ritual \subseteq Outside /\ SelfImprove
      \subseteq Outside /\ RequestApprovalTool \subseteq Outside /\ GetMission \subseteq Outside
      /\ Negotiate \subseteq Outside /\ CastVote \subseteq Outside /\ Learn \subseteq Outside
      /\ Recall \subseteq Outside /\ BroadcastBridge \subseteq Outside /\ BIReport \subseteq
      Outside /\ DailyRitual \subseteq Outside /\ ClaudeCode \subseteq Outside /\ TokenStatus
      \subseteq Outside /\ FinOpsReport \subseteq Outside
  BY SingleSteps, OneStep, TwoSteps, ThreeSteps, FourSteps DEF PromotionRitual,
     BroadcastUpdate, OpenBrowser, Forge, Ritual, SelfImprove, RequestApprovalTool, GetMission,
     Negotiate, CastVote, Learn, Recall, BroadcastBridge, BIReport, DailyRitual, ClaudeCode,
     TokenStatus, FinOpsReport
<1>3. SendEmail \subseteq Outside /\ ReadEmails \subseteq Outside /\ ListCalendar \subseteq
      Outside /\ CreateCalendarEvent \subseteq Outside /\ DriveUpload \subseteq Outside
      /\ DriveSearch \subseteq Outside /\ DriveDownload \subseteq Outside /\ SaveSession
      \subseteq Outside /\ FacebookPost \subseteq Outside /\ TelegramSendFile \subseteq Outside
      /\ TelegramDownload \subseteq Outside /\ TelegramApproval \subseteq Outside /\ BraveSearch
      \subseteq Outside /\ TavilySearch \subseteq Outside /\ DuckDuckGoSearch \subseteq Outside
      /\ PerplexitySearch \subseteq Outside /\ GLMSearch \subseteq Outside /\ WebFetch \subseteq
      Outside
  BY SingleSteps, OneStep, TwoSteps, ThreeSteps, FourSteps DEF SendEmail, ReadEmails,
     ListCalendar, CreateCalendarEvent, DriveUpload, DriveSearch, DriveDownload, SaveSession,
     FacebookPost, TelegramSendFile, TelegramDownload, TelegramApproval, BraveSearch,
     TavilySearch, DuckDuckGoSearch, PerplexitySearch, GLMSearch, WebFetch
<1>4. ListDir \subseteq Outside /\ Exec \subseteq Outside /\ FindSkills \subseteq Outside
      /\ InstallSkill \subseteq Outside /\ DynamicScript \subseteq Outside /\ CallMCPTool
      \subseteq Outside /\ Message \subseteq Outside /\ DetectMotion \subseteq Outside
      /\ ReadBattery \subseteq Outside /\ ReadThermal \subseteq Outside /\ ToggleGpio \subseteq
      Outside /\ RishCommand \subseteq Outside /\ RishScreencap \subseteq Outside /\ RishFocus
      \subseteq Outside /\ TermuxAPI \subseteq Outside /\ TermuxRich \subseteq Outside
      /\ BrowserLaunch \subseteq Outside /\ DesktopBrowser \subseteq Outside
  BY SingleSteps, OneStep, TwoSteps, ThreeSteps, FourSteps DEF ListDir, Exec, FindSkills,
     InstallSkill, DynamicScript, CallMCPTool, Message, DetectMotion, ReadBattery, ReadThermal,
     ToggleGpio, RishCommand, RishScreencap, RishFocus, TermuxAPI, TermuxRich, BrowserLaunch,
     DesktopBrowser
<1>5. I2CScan \subseteq Outside /\ I2CRead \subseteq Outside /\ I2CWrite \subseteq Outside
      /\ SPITransfer \subseteq Outside /\ SPIRead \subseteq Outside /\ SpawnTool \subseteq
      Outside
  BY SingleSteps, OneStep, TwoSteps, ThreeSteps, FourSteps DEF I2CScan, I2CRead, I2CWrite,
     SPITransfer, SPIRead, SpawnTool
<1>6. WebSearch \subseteq Outside /\ IoTToolbox \subseteq Outside /\ Rish \subseteq Outside
  BY <1>3, <1>4 DEF WebSearch, IoTToolbox, Rish
<1> QED
  BY <1>1, <1>2, <1>3, <1>4, <1>5, <1>6 DEF Actions

LEMMA PlanShapes == \A tool \in DOMAIN Actions : \A plan \in Actions[tool] : Shaped(tool, plan)
<1> SUFFICES ASSUME NEW tool \in DOMAIN Actions, NEW plan \in Actions[tool] PROVE Shaped(tool, plan)
  OBVIOUS
<1> DEFINE Special == {"siam_send_message", "siam_update_soul", "read_file", "write_file", "edit_file", "append_file"}
<1>1. CASE tool \notin Special
  <2>1. plan \in Outside
    BY <1>1, OutsideTools
  <2>2. tool # "siam_send_message"
    BY <1>1
  <2> QED
    BY <2>1, <2>2 DEF Shaped, Outside
<1>2. CASE tool = "siam_send_message"
  <2>1. Actions["siam_send_message"] = SendMessage
    BY DEF Actions
  <2>2. plan = <<Claim, Raise, Post>> \/ plan = <<Claim, Raise, Careless(Blind(Tell)), Post>>
    BY <1>2, <2>1 DEF SendMessage
  <2>3. /\ Claim \in ToolSteps /\ Raise \in ToolSteps /\ Post \in OutsideSteps
        /\ Careless(Blind(Tell)) \in OutsideSteps /\ Claim.on = "flag" /\ ~Claim.changes
        /\ Claim.onError = "ends" /\ Raise.onError = "ends"
        /\ Raise.on = "flag" /\ Raise.changes /\ Post.on = "outside"
        /\ Careless(Blind(Tell)).on = "outside"
    BY DEF Claim, Raise, Post, Careless, Blind, Tell, Ask, On, ToolSteps, OutsideSteps
  <2>4. CASE plan = <<Claim, Raise, Post>>
    BY <1>2, <2>3, <2>4 DEF Shaped, OutsideSteps
  <2>5. CASE plan = <<Claim, Raise, Careless(Blind(Tell)), Post>>
    BY <1>2, <2>3, <2>5 DEF Shaped, OutsideSteps
  <2> QED
    BY <2>2, <2>4, <2>5
<1>3. CASE tool = "siam_update_soul"
  <2>1. Actions["siam_update_soul"] = UpdateSoul
    BY DEF Actions
  <2> DEFINE a == On("soul", Post)
             b == On("deployed", Post)
  <2>2. plan \in {<<Get>>, <<a>>, <<b>>, <<a, b>>}
    BY <1>3, <2>1 DEF UpdateSoul
  <2>3. /\ Get \in ToolSteps /\ Get.on = "outside" /\ a \in ToolSteps /\ a.on = "soul"
        /\ a.onError = "ends"
        /\ b \in ToolSteps /\ b.on = "deployed"
    BY DEF Get, Post, Blind, Tell, Ask, On, ToolSteps
  <2> HIDE DEF a, b
  <2>4. CASE \E s \in {Get, a, b} : plan = <<s>>
    <3>1. PICK s \in {Get, a, b} : plan = <<s>>
      BY <2>4
    <3>2. /\ s \in ToolSteps /\ s.on # "flag" /\ s.on # "file"
          /\ s.on = "soul" => s.onError = "ends"
      BY <2>3
    <3> QED
      BY <1>3, <3>1, <3>2 DEF Shaped
  <2>5. CASE plan = <<a, b>>
    BY <1>3, <2>3, <2>5 DEF Shaped
  <2> QED
    BY <2>2, <2>4, <2>5
<1>4. CASE tool \in {"read_file", "write_file", "edit_file", "append_file"}
  <2>1. /\ Actions["read_file"] = ReadFile /\ Actions["write_file"] = WriteFile
        /\ Actions["edit_file"] = EditFile /\ Actions["append_file"] = AppendFile
    BY DEF Actions
  <2> DEFINE r == On("file", Ask)
             w == On("file", Tell)
  <2>2. \/ plan = <<r>> \/ plan = <<r, w>>
        \/ plan = <<w>> /\ tool = "write_file"
    BY <1>4, <2>1 DEF ReadFile, WriteFile, EditFile, AppendFile
  <2>3. /\ r \in ToolSteps /\ r.on = "file" /\ ~r.changes /\ r.onError = "ends" /\ r.checks
        /\ w \in ToolSteps /\ w.on = "file" /\ w.changes /\ w.onError = "ends" /\ w.checks
    BY DEF Tell, Ask, On, ToolSteps
  <2> HIDE DEF r, w
  <2>4. tool # "siam_send_message"
    BY <1>4
  <2>5. CASE plan = <<r>>
    BY <2>3, <2>4, <2>5 DEF Shaped
  <2>6. CASE plan = <<w>> /\ tool = "write_file"
    BY <2>3, <2>4, <2>6 DEF Shaped
  <2>7. CASE plan = <<r, w>>
    BY <2>3, <2>4, <2>7 DEF Shaped
  <2> QED
    BY <2>2, <2>5, <2>6, <2>7
<1> QED
  BY <1>1, <1>2, <1>3, <1>4

ToolCalls == [tool : DOMAIN Actions, named : Naming]
CallPlaces == {"asked", "waiting", "allowed", "running", "ran", "told"}
Results == {"nothing", "ok", "error", "skipped", "rejected", "denied", "unknown"}
Refusals == {"rejected", "denied", "unknown"}
CallStates == [pc : CallPlaces, left : Seq(ToolSteps), told : Results]
Outcomes == [step : ToolSteps, outcome : {"done", "refused", "failed", "lost"}]

TrTyped ==
    /\ trAsked \in TrRounds /\ trMaster \in BOOLEAN /\ trRole \in TrRoles
    /\ trCall \in [TrCalls -> CallStates]
    /\ trTicket \in [TrCalls -> {"none", "pending", "approved", "rejected"}]
    /\ trNoticed \subseteq TrCalls /\ trNoId \subseteq trNoticed
    /\ trOutcomes \in [TrCalls -> Seq(Outcomes)]
    /\ trFile \subseteq TrCalls /\ trRead \in [TrCalls -> SUBSET TrCalls]
    /\ trSoul \in TrCalls \cup {0} /\ trDeployed \in TrCalls \cup {0} /\ trSentInRound \in BOOLEAN
    /\ trSaved \in Seq(Nat) /\ \A k \in DOMAIN trSaved : trSaved[k] = k

(* A call has its result when it has run or was refused, and has taken no step before *)
(* it runs; the steps it has taken and those it has left are a plan of its tool.      *)
NotBegun == {"asked", "waiting", "allowed"}
OnPlan(i, plan) ==
    /\ Len(trOutcomes[i]) <= Len(plan)
    /\ \A k \in 1 .. Len(trOutcomes[i]) : trOutcomes[i][k].step = plan[k]
    /\ trCall[i].pc = "running" =>
          /\ Len(trOutcomes[i]) < Len(plan) /\ Len(trCall[i].left) = Len(plan) - Len(trOutcomes[i])
          /\ \A k \in 1 .. Len(trCall[i].left) : trCall[i].left[k] = plan[Len(trOutcomes[i]) + k]
Excused(o) == o.outcome = "done" \/ (o.outcome = "refused" /\ ~o.step.checks) \/ o.step.onError # "ends"
CallOnPlan(i) ==
    /\ trCall[i].told = "nothing" <=> trCall[i].pc \in NotBegun \cup {"running"}
    /\ trCall[i].pc \in NotBegun => trOutcomes[i] = <<>>
    /\ trCall[i].pc = "running" \/ trOutcomes[i] # <<>> => \E plan \in Actions[Tool(i)] : OnPlan(i, plan)
    /\ trCall[i].pc = "running" \/ trCall[i].told = "ok" =>
          \A k \in 1 .. Len(trOutcomes[i]) : Excused(trOutcomes[i][k])
    /\ trCall[i].told = "ok" => trOutcomes[i] # <<>>
    /\ trCall[i].told \in Refusals => trCall[i].pc = "told"
CallsOnPlan == \A i \in TrCalls : CallOnPlan(i)

Approved(i) == i \in trNoticed /\ (trTicket[i] = "approved" \/ ~trMaster \/ i \in trNoId)
AllowedCall(i) ==
    /\ trCall[i].pc = "waiting" => i \in trNoticed
    /\ IsRisky(i) /\ (trCall[i].pc \in {"allowed", "running"} \/ trOutcomes[i] # <<>>) => Approved(i)
AllowedToRun == \A i \in TrCalls : AllowedCall(i)

(* A message that has claimed the round and not raised the flag is still running, and *)
(* of two that have claimed it one was running when the other did.                    *)
Claimed(i) == Tool(i) = "siam_send_message" /\ trOutcomes[i] # <<>>
Saw(i, j) == \E s \in trSaw : s.call = i /\ j \in s.others
FlagCovers ==
    /\ \A i \in TrCalls : Claimed(i) => IF Len(trOutcomes[i]) = 1 THEN trCall[i].pc = "running" ELSE trSentInRound
    /\ \A i, j \in TrCalls : i # j /\ Claimed(i) /\ Claimed(j) => Saw(i, j) \/ Saw(j, i)

(* What a file holds, or a call has read, was written. *)
EditsKnown ==
    /\ \A j \in trFile : Wrote(j)
    /\ \A i \in TrCalls : \A j \in trRead[i] : Wrote(j)
    /\ EditsKept

(* An updated soul is there to be deployed. *)
Updated(i) == \E k \in SoulSteps(i) : trOutcomes[i][k].outcome = "done"
Deployed(i) == \E k \in Took(i, {"done"}) : trOutcomes[i][k].step.on = "deployed"
SoulKept ==
    /\ \A i \in TrCalls : Updated(i) => trSoul # 0
    /\ trDeployed # 0 => trSoul # 0
    /\ \A i \in TrCalls : Updated(i) /\ Deployed(i) => trDeployed # 0

(* A call has no record before it has told its result, and then the records it owes;  *)
(* what has arrived was sent.                                                         *)
RecordedAs(i) ==
    CASE trCall[i].told = "denied" -> RecordsOf(i) = {}
      [] trCall[i].told = "unknown" -> RecordsOf(i) = {AuditRecord(i, "loop", "failed")}
      [] trCall[i].told = "rejected" -> \E r \in RecordsOf(i) : RecordsOf(i) = {r} /\ r.status \in {"rejected", "error"}
      [] OTHER -> /\ \E r \in RecordsOf(i) : r.by = "loop" /\ (r.status = "failed" => trCall[i].told = "error")
                  /\ Tool(i) = "spawn" \/ \E r \in RecordsOf(i) : r.by = "registry"
                         /\ (r.status = "failed" <=> trCall[i].told = "error")
RecordedCall(i) == /\ trCall[i].pc = "told" /\ trMaster => RecordedAs(i)
                   /\ trCall[i].pc # "told" \/ ~trMaster => RecordsOf(i) = {}
ArrivedSent == trArrived \subseteq trRecords
OnRecord == \A i \in TrCalls : RecordedCall(i)
SavedLast == trSaved # <<>> => \A i \in TrCalls : trCall[i].pc = "told"

TrInv ==
    /\ TrTyped /\ CallsOnPlan /\ AllowedToRun /\ ErrorMeansUntouched /\ FlagCovers /\ EditsKnown
    /\ SoulKept
    /\ OnRecord /\ SavedLast

LEMMA Appended ==
  ASSUME NEW S, NEW s \in Seq(S), NEW e \in S
  PROVE  /\ Append(s, e) \in Seq(S) /\ Append(s, e) # <<>>
         /\ Len(s) \in Nat /\ Len(Append(s, e)) = Len(s) + 1
         /\ Append(s, e)[Len(s) + 1] = e /\ \A k \in 1 .. Len(s) : Append(s, e)[k] = s[k]
  OBVIOUS
LEMMA EmptyHasNone == ASSUME NEW S, NEW s \in Seq(S) PROVE s = <<>> <=> Len(s) = 0
  OBVIOUS
LEMMA Shortened ==
  ASSUME NEW S, NEW s \in Seq(S), s # <<>>
  PROVE  /\ Head(s) = s[1] /\ Head(s) \in S /\ Tail(s) \in Seq(S)
         /\ Len(s) \in Nat /\ Len(s) >= 1 /\ Len(Tail(s)) = Len(s) - 1
         /\ \A k \in 1 .. Len(s) - 1 : Tail(s)[k] = s[k + 1]
         /\ Tail(s) # <<>> <=> Len(s) > 1
<1>1. Head(s) = s[1] /\ Head(s) \in S /\ Tail(s) \in Seq(S) /\ Len(s) \in Nat /\ Len(s) >= 1
  OBVIOUS
<1>2. Len(Tail(s)) = Len(s) - 1 /\ \A k \in 1 .. Len(s) - 1 : Tail(s)[k] = s[k + 1]
  OBVIOUS
<1>3. Tail(s) = <<>> <=> Len(Tail(s)) = 0
  BY <1>1, EmptyHasNone
<1> QED
  BY <1>1, <1>2, <1>3

LEMMA CallSteps ==
  ASSUME TrTyped, NEW i \in TrCalls
  PROVE  /\ trCall[i] \in CallStates /\ trTicket[i] \in {"none", "pending", "approved", "rejected"}
         /\ trOutcomes[i] \in Seq(Outcomes) /\ trRead[i] \in SUBSET TrCalls
         /\ Len(trOutcomes[i]) \in Nat /\ Tool(i) \in DOMAIN Actions /\ i \in Nat /\ i # 0
         /\ trAsked \in Seq(ToolCalls) /\ DOMAIN trAsked = 1 .. Len(trAsked)
         /\ Len(trAsked) \in Nat
<1>1. trAsked \in Seq(ToolCalls)
  BY TrAssumption DEF TrTyped, ToolCalls
<1>2. trCall[i] \in CallStates /\ trTicket[i] \in {"none", "pending", "approved", "rejected"}
      /\ trOutcomes[i] \in Seq(Outcomes) /\ trRead[i] \in SUBSET TrCalls
  BY DEF TrTyped
<1>3. trAsked[i] \in ToolCalls
  BY <1>1 DEF TrCalls
<1> QED
  BY <1>1, <1>2, <1>3 DEF TrCalls, Tool, ToolCalls

LEMMA StateFields ==
  ASSUME NEW c \in CallStates
  PROVE  /\ c.pc \in CallPlaces /\ c.left \in Seq(ToolSteps) /\ c.told \in Results
         /\ c = [pc |-> c.pc, left |-> c.left, told |-> c.told]
         /\ \A place \in CallPlaces : [c EXCEPT !.pc = place] \in CallStates
         /\ \A place \in CallPlaces : [c EXCEPT !.pc = place] = [pc |-> place, left |-> c.left, told |-> c.told]
         /\ \A left \in Seq(ToolSteps) : [c EXCEPT !.left = left] = [pc |-> c.pc, left |-> left, told |-> c.told]
  BY DEF CallStates
LEMMA StatesMade ==
  ASSUME NEW place \in CallPlaces, NEW left \in Seq(ToolSteps), NEW told \in Results
  PROVE  [pc |-> place, left |-> left, told |-> told] \in CallStates
  BY DEF CallStates

(* A call that takes its next step: with what outcome, and where it goes from there.  *)
Goes(i, o, c) ==
    \/ /\ c = [pc |-> "running", left |-> Tail(trCall[i].left), told |-> trCall[i].told]
       /\ Tail(trCall[i].left) # <<>> /\ Excused(o)
    \/ /\ c = [pc |-> "ran", left |-> <<>>, told |-> "ok"] /\ Excused(o)
       /\ Tail(trCall[i].left) = <<>> \/ o.step.onError = "else"
    \/ c = [pc |-> "ran", left |-> <<>>, told |-> "error"] /\ o.outcome # "done"
Taken(i, o, c) ==
    /\ Goes(i, o, c)
    /\ trCall' = [trCall EXCEPT ![i] = c]
    /\ trOutcomes' = [trOutcomes EXCEPT ![i] = Append(trOutcomes[i], o)]
    /\ IF o.outcome \in {"done", "lost"} THEN Changes(i, o.step) ELSE Unchanged
    /\ o.step.on = "flag" => o.outcome = "done" /\ (~o.step.changes => ~trSentInRound)
    /\ UNCHANGED <<trFixed, trTicket, trNoticed, trNoId, trRecords, trSaved>>
Skipped(i) ==
    /\ trCall' = [trCall EXCEPT ![i] = [pc |-> "ran", left |-> <<>>, told |-> "skipped"]]
    /\ Head(trCall[i].left).on = "flag" /\ ~Head(trCall[i].left).changes
    /\ UNCHANGED <<trFixed, trWorldVars, trTicket, trNoticed, trNoId, trRecords, trSaved>>

LEMMA GoesOnSteps ==
  ASSUME TrTyped, NEW i \in TrCalls, trCall[i].pc = "running", trCall[i].left # <<>>, GoesOn(i)
  PROVE  \/ /\ Tail(trCall[i].left) = <<>>
            /\ trCall' = [trCall EXCEPT ![i] = [pc |-> "ran", left |-> <<>>, told |-> "ok"]]
         \/ /\ Tail(trCall[i].left) # <<>>
            /\ trCall' = [trCall EXCEPT ![i] =
                   [pc |-> "running", left |-> Tail(trCall[i].left), told |-> trCall[i].told]]
<1>1. CASE Tail(trCall[i].left) = <<>>
  BY <1>1 DEF GoesOn, EndsWith
<1>2. CASE Tail(trCall[i].left) # <<>>
  <2>1. trCall' = [trCall EXCEPT ![i].left = Tail(trCall[i].left)]
    BY <1>2 DEF GoesOn
  <2>2. trCall[i] \in CallStates /\ Tail(trCall[i].left) \in Seq(ToolSteps)
    <3>1. trCall[i] \in CallStates /\ trCall[i].left \in Seq(ToolSteps)
      BY CallSteps, StateFields
    <3> QED
      BY <3>1, Shortened
  <2>3. [trCall[i] EXCEPT !.left = Tail(trCall[i].left)]
            = [pc |-> "running", left |-> Tail(trCall[i].left), told |-> trCall[i].told]
    <3>1. \A left \in Seq(ToolSteps) : [trCall[i] EXCEPT !.left = left]
                                         = [pc |-> trCall[i].pc, left |-> left, told |-> trCall[i].told]
      BY <2>2, StateFields
    <3> QED
      BY <2>2, <3>1
  <2>4. trCall' = [trCall EXCEPT ![i] = [trCall[i] EXCEPT !.left = Tail(trCall[i].left)]]
    BY <2>1
  <2> QED
    BY <1>2, <2>3, <2>4
<1> QED
  BY <1>1, <1>2

LEMMA StepMoves ==
  ASSUME TrTyped, CallsOnPlan, NEW i \in TrCalls, Step(i)
  PROVE  \/ Skipped(i)
         \/ \E o \in Outcomes, c \in CallStates : o.step = Head(trCall[i].left) /\ Taken(i, o, c)
<1> DEFINE step == Head(trCall[i].left)
           run == [pc |-> "running", left |-> Tail(trCall[i].left), told |-> trCall[i].told]
           ok == [pc |-> "ran", left |-> <<>>, told |-> "ok"]
           bad == [pc |-> "ran", left |-> <<>>, told |-> "error"]
           o(outcome) == [step |-> step, outcome |-> outcome]
<1>1. /\ trCall[i].pc = "running" /\ trCall[i].told \in Results /\ trCall[i].left \in Seq(ToolSteps)
      /\ UNCHANGED <<trFixed, trTicket, trNoticed, trNoId, trRecords, trSaved>>
  BY CallSteps, StateFields DEF Step, trAudit
<1>2. trCall[i].left # <<>>
  <2>1. PICK plan \in Actions[Tool(i)] : OnPlan(i, plan)
    BY <1>1 DEF CallsOnPlan, CallOnPlan
  <2>2. Len(plan) \in Nat /\ Len(trOutcomes[i]) \in Nat
    BY <2>1, CallSteps, PlanShapes DEF Shaped
  <2>3. Len(trCall[i].left) # 0
    <3>1. Len(trOutcomes[i]) < Len(plan) /\ Len(trCall[i].left) = Len(plan) - Len(trOutcomes[i])
      BY <1>1, <2>1 DEF OnPlan
    <3> QED
      BY <2>2, <3>1
  <2> QED
    BY <2>3
<1>3. step \in ToolSteps /\ Tail(trCall[i].left) \in Seq(ToolSteps)
  BY <1>1, <1>2, Shortened
<1>4. run \in CallStates /\ ok \in CallStates /\ bad \in CallStates
  <2>1. <<>> \in Seq(ToolSteps)
    OBVIOUS
  <2> QED
    BY <1>1, <1>3, <2>1, StatesMade DEF CallPlaces, Results
<1>5. \A outcome \in {"done", "refused", "failed", "lost"} :
          o(outcome) \in Outcomes /\ o(outcome).step = step /\ o(outcome).outcome = outcome
  BY <1>3 DEF Outcomes
<1>6. step.onError \in {"ends", "ignored", "else"} /\ step.checks \in BOOLEAN /\ step.changes \in BOOLEAN
  BY <1>3 DEF ToolSteps
<1> DEFINE Turns(c) == trCall' = [trCall EXCEPT ![i] = c]
           IsLast == Tail(trCall[i].left) = <<>>
           Right == (Turns(ok) /\ (IsLast \/ step.onError = "else")) \/ (Turns(run) /\ ~IsLast)
           Wrong == Turns(bad) \/ (step.onError # "ends" /\ Right)
<1>7. ASSUME GoesWrong(i, step) PROVE Wrong
  BY <1>1, <1>2, <1>7, GoesOnSteps DEF GoesWrong, EndsWith
<1>8. ASSUME Succeeds(i, step) PROVE Right
  BY <1>1, <1>2, <1>8, GoesOnSteps DEF Succeeds, EndsWith
<1> HIDE DEF step, run, ok, bad
<1> DEFINE Found == \E p \in Outcomes, c \in CallStates : p.step = step /\ Taken(i, p, c)
<1>9. ASSUME NEW outcome \in {"done", "refused", "failed", "lost"}, NEW c \in CallStates,
             Turns(c), Notes(i, step, outcome), Goes(i, o(outcome), c),
             IF outcome \in {"done", "lost"} THEN Changes(i, step) ELSE Unchanged,
             step.on = "flag" => outcome = "done" /\ (~step.changes => ~trSentInRound)
      PROVE  Found
  <2>1. /\ o(outcome) \in Outcomes /\ o(outcome).step = step /\ o(outcome).outcome = outcome
    BY <1>5
  <2>2. trOutcomes' = [trOutcomes EXCEPT ![i] = Append(trOutcomes[i], o(outcome))]
    BY <1>9 DEF Notes
  <2>3. Taken(i, o(outcome), c)
    BY <1>1, <1>9, <2>1, <2>2 DEF Taken
  <2> QED
    BY <2>1, <2>3
<1>10. \A outcome \in {"done", "refused", "failed", "lost"} :
          /\ Excused(o(outcome)) <=> (outcome = "done" \/ (outcome = "refused" /\ ~step.checks) \/ step.onError # "ends")
          /\ Excused(o(outcome)) /\ (IsLast \/ step.onError = "else") => Goes(i, o(outcome), ok)
          /\ Excused(o(outcome)) /\ ~IsLast => Goes(i, o(outcome), run)
          /\ outcome # "done" => Goes(i, o(outcome), bad)
  BY <1>5 DEF Goes, Excused, ok, run, bad
<1> HIDE DEF o, Found, Turns
<1>11. CASE step.on = "flag" /\ ~step.changes /\ trSentInRound /\ EndsWith(i, "skipped") /\ Unchanged /\ UNCHANGED trOutcomes
  BY <1>1, <1>11 DEF Skipped, EndsWith, Unchanged, trWorldVars, step
<1>12. CASE ~(step.on = "flag" /\ ~step.changes /\ trSentInRound) /\ Succeeds(i, step) /\ Changes(i, step) /\ Notes(i, step, "done")
  <2>1. Found
    BY <1>4, <1>8, <1>9, <1>10, <1>12
  <2> QED
    BY <2>1 DEF Found, step
<1>13. CASE step.on # "flag" /\ Unchanged /\ RefusalGoes(i, step) /\ Notes(i, step, "refused")
  <2>1. CASE step.checks
    <3>1. Wrong
      BY <1>7, <1>13, <2>1 DEF RefusalGoes
    <3>2. Found
      BY <1>4, <1>9, <1>10, <1>13, <3>1
    <3> QED
      BY <3>2 DEF Found, step
  <2>2. CASE ~step.checks
    <3>1. Right
      BY <1>8, <1>13, <2>2 DEF RefusalGoes
    <3>2. Found
      BY <1>4, <1>9, <1>10, <1>13, <2>2, <3>1
    <3> QED
      BY <3>2 DEF Found, step
  <2> QED
    BY <2>1, <2>2
<1>14. CASE step.on # "flag" /\ Unchanged /\ GoesWrong(i, step) /\ Notes(i, step, "failed")
  <2>1. Found
    BY <1>4, <1>7, <1>9, <1>10, <1>14
  <2> QED
    BY <2>1 DEF Found, step
<1>15. CASE step.on # "flag" /\ step.changes /\ GoesWrong(i, step) /\ Changes(i, step) /\ Notes(i, step, "lost")
  <2>1. Found
    BY <1>4, <1>7, <1>9, <1>10, <1>15
  <2> QED
    BY <2>1 DEF Found, step
<1> QED
  BY <1>11, <1>12, <1>13, <1>14, <1>15 DEF Step, step

LEMMA Unmoved ==
  ASSUME TrTyped, NEW i \in TrCalls, NEW c \in CallStates, trCall' = [trCall EXCEPT ![i] = c]
  PROVE  /\ trCall' \in [TrCalls -> CallStates] /\ trCall'[i] = c
         /\ \A j \in TrCalls : j # i => trCall'[j] = trCall[j]
  BY DEF TrTyped

(* What speaks of the steps taken only does not change with them. *)
LEMMA SameSteps ==
  ASSUME UNCHANGED <<trFixed, trOutcomes>>
  PROVE  /\ TrCalls' = TrCalls /\ trAsked' = trAsked
         /\ \A i \in TrCalls : Tool(i)' = Tool(i) /\ (IsRisky(i) <=> IsRisky(i)')
         /\ \A i \in TrCalls : /\ Changed(i)' = Changed(i) /\ (Wrote(i) <=> Wrote(i)')
                               /\ SoulSteps(i)' = SoulSteps(i) /\ (Claimed(i) <=> Claimed(i)')
                               /\ (Updated(i) <=> Updated(i)') /\ (Deployed(i) <=> Deployed(i)')
                               /\ \A outcomes : Took(i, outcomes)' = Took(i, outcomes)
  BY DEF trFixed, TrCalls, Tool, Named, IsRisky, Changed, Wrote, SoulSteps, Claimed, Updated, Deployed,
     Took

LEMMA OthersOnPlan ==
  ASSUME NEW i, CallOnPlan(i), trCall'[i] = trCall[i], trOutcomes'[i] = trOutcomes[i], Tool(i)' = Tool(i)
  PROVE  CallOnPlan(i)'
<1>1. \A plan : OnPlan(i, plan) => OnPlan(i, plan)'
  BY DEF OnPlan
<1> QED
  BY <1>1 DEF CallOnPlan, Excused

(* A call that moves without taking a step. *)
LEMMA MovedKeeps ==
  ASSUME TrInv, NEW i \in TrCalls, NEW c \in CallStates, trCall' = [trCall EXCEPT ![i] = c],
         UNCHANGED <<trFixed, trWorldVars, trSaved>>, trCall[i].pc # "told",
         trTicket' \in [TrCalls -> {"none", "pending", "approved", "rejected"}],
         trNoticed' \subseteq TrCalls, trNoId' \subseteq trNoticed',
         c.told = "nothing" <=> c.pc \in NotBegun \cup {"running"},
         c.pc \in NotBegun => trOutcomes[i] = <<>>,
         c.pc = "running" => trOutcomes[i] = <<>> /\ c.left \in Actions[Tool(i)],
         c.told \in Refusals => c.pc = "told",
         c.told = "ok" => trCall[i].told = "ok",
         c.told = "error" => trCall[i].told = "error" \/ Changed(i) = {},
         Claimed(i) => Len(trOutcomes[i]) # 1
  PROVE  TrTyped' /\ CallsOnPlan' /\ ErrorMeansUntouched' /\ FlagCovers' /\ EditsKnown' /\ SoulKept' /\ SavedLast'
<1>1. /\ TrTyped /\ CallsOnPlan /\ ErrorMeansUntouched /\ FlagCovers /\ EditsKnown /\ SoulKept
      /\ SavedLast
      /\ trCall' \in [TrCalls -> CallStates] /\ trCall'[i] = c
      /\ \A j \in TrCalls : j # i => trCall'[j] = trCall[j]
  BY Unmoved DEF TrInv
<1>2. /\ UNCHANGED <<trAsked, trMaster, trRole, trOutcomes, trFile, trRead, trSoul, trDeployed, trSentInRound,
                     trSaw, trSaved>>
      /\ UNCHANGED <<trFixed, trOutcomes>>
  BY DEF trFixed, trWorldVars
<1>3. TrCalls' = TrCalls /\ \A j \in TrCalls : Tool(j)' = Tool(j)
  BY <1>2, SameSteps
<1>4. TrTyped'
  BY <1>1, <1>2, <1>3 DEF TrTyped
<1>5. CallsOnPlan'
  <2> SUFFICES ASSUME NEW j \in TrCalls
               PROVE  CallOnPlan(j)'
    BY <1>3 DEF CallsOnPlan
  <2>1. CASE j # i
    BY <1>1, <1>2, <1>3, <2>1, OthersOnPlan DEF CallsOnPlan
  <2>2. CASE j = i
    <3>1. ASSUME c.pc = "running" PROVE OnPlan(i, c.left)'
      <4>1. Len(trOutcomes[i]) = 0 /\ trOutcomes[i] = <<>> /\ Shaped(Tool(i), c.left)
        BY <3>1, PlanShapes, CallSteps, <1>1
      <4>2. Len(c.left) \in Nat /\ Len(c.left) >= 1
        BY <4>1 DEF Shaped
      <4> QED
        BY <1>1, <1>2, <4>1, <4>2 DEF OnPlan
    <3>2. ASSUME c.pc # "running", trOutcomes[i] # <<>>
          PROVE  \E plan \in Actions[Tool(i)] : OnPlan(i, plan)'
      <4>1. PICK plan \in Actions[Tool(i)] : OnPlan(i, plan)
        BY <1>1, <3>2 DEF CallsOnPlan, CallOnPlan
      <4> QED
        BY <1>1, <1>2, <3>2, <4>1 DEF OnPlan
    <3>3. c.pc = "running" \/ trOutcomes[i] # <<>> => \E plan \in Actions[Tool(i)] : OnPlan(i, plan)'
      BY <3>1, <3>2
    <3>4. c.pc = "running" \/ c.told = "ok" => \A k \in 1 .. Len(trOutcomes[i]) : Excused(trOutcomes[i][k])
      <4>1. CASE c.pc = "running"
        BY <4>1
      <4>2. CASE c.told = "ok"
        BY <1>1, <4>2 DEF CallsOnPlan, CallOnPlan
      <4> QED
        BY <4>1, <4>2
    <3>5. c.told = "ok" => trOutcomes[i] # <<>>
      BY <1>1 DEF CallsOnPlan, CallOnPlan
    <3> QED
      BY <1>1, <1>2, <1>3, <2>2, <3>3, <3>4, <3>5 DEF Excused, CallOnPlan
  <2> QED
    BY <2>1, <2>2
<1>6. ErrorMeansUntouched'
  <2>1. \A j \in TrCalls : Changed(j)' = Changed(j)
    BY <1>2, SameSteps
  <2> QED
    BY <1>1, <1>2, <1>3, <2>1 DEF ErrorMeansUntouched
<1>7. FlagCovers'
  <2>1. \A j \in TrCalls : Claimed(j) <=> Claimed(j)'
    BY <1>2, SameSteps
  <2>2. \A j, k \in TrCalls : Saw(j, k) <=> Saw(j, k)'
    BY <1>2 DEF Saw
  <2> QED
    BY <1>1, <1>2, <1>3, <2>1, <2>2 DEF FlagCovers
<1>8. EditsKnown'
  <2>1. \A j \in TrCalls : (Wrote(j) <=> Wrote(j)') /\ Took(j, {"done"})' = Took(j, {"done"})
    BY <1>2, SameSteps
  <2> QED
    BY <1>1, <1>2, <1>3, <2>1 DEF EditsKnown, EditsKept, TrTyped
<1>9. SoulKept'
  <2>1. \A j \in TrCalls : (Updated(j) <=> Updated(j)') /\ (Deployed(j) <=> Deployed(j)')
    BY <1>2, SameSteps
  <2> QED
    BY <1>1, <1>2, <1>3, <2>1 DEF SoulKept
<1>10. SavedLast'
  BY <1>1, <1>2, <1>3 DEF SavedLast
<1> QED
  BY <1>4, <1>5, <1>6, <1>7, <1>8, <1>9, <1>10

(* A call is allowed, or on record, as long as nothing of its own changes.            *)
LEMMA OthersAllowed ==
  ASSUME NEW i, AllowedCall(i), trCall'[i] = trCall[i], trOutcomes'[i] = trOutcomes[i], trAsked' = trAsked,
         trNoticed \subseteq trNoticed', trNoId \subseteq trNoId', trMaster' = trMaster,
         trTicket'[i] = trTicket[i] \/ trTicket[i] # "approved"
  PROVE  AllowedCall(i)'
BY DEF AllowedCall, Approved, IsRisky, Tool, Named
LEMMA OthersRecorded ==
  ASSUME NEW i, RecordedCall(i), trCall'[i] = trCall[i], RecordsOf(i)' = RecordsOf(i), Tool(i)' = Tool(i),
         trMaster' = trMaster
  PROVE  RecordedCall(i)'
<1>1. RecordedAs(i) <=> RecordedAs(i)'
  BY DEF RecordedAs, AuditRecord
<1> QED
  BY <1>1 DEF RecordedCall
LEMMA Logged ==
  ASSUME NEW i, NEW R, \A r \in R : r.call = i, Log(R)
  PROVE  /\ \A j : j # i => RecordsOf(j)' = RecordsOf(j)
         /\ RecordsOf(i)' = RecordsOf(i) \cup (IF trMaster THEN R ELSE {})
BY DEF Log, RecordsOf

LEMMA MovesTo ==
  ASSUME TrTyped, NEW i \in TrCalls, NEW place \in CallPlaces, Moves(i, place)
  PROVE  LET c == [pc |-> place, left |-> trCall[i].left, told |-> trCall[i].told] IN
         c \in CallStates /\ trCall' = [trCall EXCEPT ![i] = c]
<1>1. trCall[i] \in CallStates /\ trCall[i].left \in Seq(ToolSteps) /\ trCall[i].told \in Results
  BY CallSteps, StateFields
<1>2. trCall' = [trCall EXCEPT ![i] = [trCall[i] EXCEPT !.pc = place]]
  BY DEF Moves
<1>3. [trCall[i] EXCEPT !.pc = place] = [pc |-> place, left |-> trCall[i].left, told |-> trCall[i].told]
  <2>1. \A p \in CallPlaces : [trCall[i] EXCEPT !.pc = p] = [pc |-> p, left |-> trCall[i].left, told |-> trCall[i].told]
    BY <1>1, StateFields
  <2> QED
    BY <2>1
<1> QED
  BY <1>1, <1>2, <1>3, StatesMade
LEMMA TellsResult ==
  ASSUME TrTyped, NEW i \in TrCalls, NEW told \in Results, Tells(i, told)
  PROVE  LET c == [pc |-> "told", left |-> <<>>, told |-> told] IN
         c \in CallStates /\ trCall' = [trCall EXCEPT ![i] = c]
<1>1. <<>> \in Seq(ToolSteps) /\ "told" \in CallPlaces
  BY DEF CallPlaces
<1> QED
  BY <1>1, StatesMade DEF Tells

(* The calls other than i keep what i does not change. *)
LEMMA OneMoves ==
  ASSUME TrInv, NEW i \in TrCalls, NEW c \in CallStates, trCall' = [trCall EXCEPT ![i] = c],
         UNCHANGED <<trFixed, trOutcomes>>,
         trNoticed \subseteq trNoticed', trNoId \subseteq trNoId',
         \A j \in TrCalls : j # i => trTicket'[j] = trTicket[j] \/ trTicket[j] # "approved",
         \A j : j # i => RecordsOf(j)' = RecordsOf(j),
         AllowedCall(i)', RecordedCall(i)'
  PROVE  AllowedToRun' /\ OnRecord'
<1>1. /\ AllowedToRun /\ OnRecord /\ TrTyped
      /\ \A j \in TrCalls : j # i => trCall'[j] = trCall[j]
  BY Unmoved DEF TrInv
<1>2. /\ TrCalls' = TrCalls /\ trMaster' = trMaster /\ trAsked' = trAsked /\ trOutcomes' = trOutcomes
      /\ \A j \in TrCalls : Tool(j)' = Tool(j)
  BY SameSteps DEF trFixed
<1>3. ASSUME NEW j \in TrCalls PROVE AllowedCall(j)' /\ RecordedCall(j)'
  <2>1. CASE j = i
    BY <2>1
  <2>2. CASE j # i
    <3>1. AllowedCall(j) /\ RecordedCall(j) /\ trCall'[j] = trCall[j] /\ RecordsOf(j)' = RecordsOf(j)
      BY <1>1, <2>2 DEF AllowedToRun, OnRecord
    <3> QED
      BY <1>2, <3>1, OthersAllowed, OthersRecorded
  <2> QED
    BY <2>1, <2>2
<1> QED
  BY <1>2, <1>3 DEF AllowedToRun, OnRecord

LEMMA CallKnown ==
  ASSUME TrInv, NEW i \in TrCalls
  PROVE  /\ TrTyped /\ CallOnPlan(i) /\ AllowedCall(i) /\ RecordedCall(i)
         /\ Claimed(i) /\ trCall[i].pc # "running" => Len(trOutcomes[i]) # 1
         /\ trCall[i].pc \in CallPlaces /\ trCall[i].left \in Seq(ToolSteps)
         /\ trCall[i].told \in Results
<1>1. TrTyped /\ CallOnPlan(i) /\ AllowedCall(i) /\ RecordedCall(i)
  BY DEF TrInv, CallsOnPlan, AllowedToRun, OnRecord
<1>2. Claimed(i) /\ trCall[i].pc # "running" => Len(trOutcomes[i]) # 1
  BY DEF TrInv, FlagCovers
<1> QED
  BY <1>1, <1>2, CallSteps, StateFields

LEMMA ApprovalKeeps ==
  ASSUME TrInv, NEW i \in TrCalls, RequestApproval(i) \/ PollApproval(i)
  PROVE  TrInv'
<1>1. /\ TrTyped /\ CallOnPlan(i) /\ AllowedCall(i) /\ RecordedCall(i)
      /\ Claimed(i) /\ trCall[i].pc # "running" => Len(trOutcomes[i]) # 1
      /\ trCall[i].left \in Seq(ToolSteps)
  BY CallKnown
<1>2. /\ trCall[i].pc \in {"asked", "waiting"} /\ trCall[i].told = "nothing" /\ trOutcomes[i] = <<>>
      /\ RecordsOf(i) = {}
  <2>1. trCall[i].pc \in {"asked", "waiting"}
    BY DEF RequestApproval, PollApproval
  <2> QED
    BY <1>1, <2>1 DEF CallOnPlan, NotBegun, RecordedCall
<1>3. UNCHANGED <<trFixed, trWorldVars, trSaved>> /\ UNCHANGED <<trFixed, trOutcomes>> /\ trOutcomes' = trOutcomes
      /\ trMaster' = trMaster
  BY DEF RequestApproval, PollApproval, trWorldVars, trFixed
<1>4. /\ trTicket' \in [TrCalls -> {"none", "pending", "approved", "rejected"}]
      /\ \A j \in TrCalls : trTicket'[j] = trTicket[j] \/ trTicket[j] # "approved" \/ j = i
      /\ trNoticed' \subseteq TrCalls /\ trNoId' \subseteq trNoticed'
      /\ trNoticed \subseteq trNoticed' /\ trNoId \subseteq trNoId' /\ i \in trNoticed'
  BY <1>1, <1>2 DEF RequestApproval, PollApproval, TrTyped, AllowedCall
<1>5. Claimed(i) => Len(trOutcomes[i]) # 1
  BY <1>2 DEF Claimed
<1>6. i \in TrCalls' /\ (IsRisky(i) <=> IsRisky(i)')
  BY <1>3, SameSteps
<1>7. ASSUME NEW c \in CallStates, trCall' = [trCall EXCEPT ![i] = c],
             \/ c.told = "nothing" /\ c.pc \in {"allowed", "waiting"}
             \/ c.told = "rejected" /\ c.pc = "told",
             AllowedCall(i)', RecordedCall(i)', \A j : j # i => RecordsOf(j)' = RecordsOf(j)
      PROVE  TrInv'
  <2>1. /\ c.told = "nothing" <=> c.pc \in NotBegun \cup {"running"}
        /\ c.pc \in NotBegun => trOutcomes[i] = <<>>
        /\ c.pc = "running" => trOutcomes[i] = <<>> /\ c.left \in Actions[Tool(i)]
        /\ c.told \in Refusals => c.pc = "told"
        /\ c.told = "ok" => trCall[i].told = "ok"
        /\ c.told = "error" => trCall[i].told = "error" \/ Changed(i) = {}
    BY <1>2, <1>7 DEF NotBegun, Refusals
  <2>2. TrTyped' /\ CallsOnPlan' /\ ErrorMeansUntouched' /\ FlagCovers' /\ EditsKnown' /\ SoulKept' /\ SavedLast'
    BY <1>2, <1>3, <1>4, <1>5, <1>7, <2>1, MovedKeeps
  <2>3. AllowedToRun' /\ OnRecord'
    <3>1. \A j \in TrCalls : j # i => trTicket'[j] = trTicket[j] \/ trTicket[j] # "approved"
      BY <1>4
    <3> QED
      BY <1>3, <1>4, <1>7, <3>1, OneMoves
  <2> QED
    BY <2>2, <2>3 DEF TrInv
<1>8. ASSUME NEW place \in {"allowed", "waiting"}, Moves(i, place), UNCHANGED trRecords, place = "allowed" => Approved(i)'
      PROVE  TrInv'
  <2> DEFINE c == [pc |-> place, left |-> trCall[i].left, told |-> trCall[i].told]
  <2>1. c \in CallStates /\ trCall' = [trCall EXCEPT ![i] = c]
    BY <1>1, <1>8, MovesTo DEF CallPlaces
  <2>2. c.told = "nothing" /\ c.pc = place
    BY <1>2
  <2> HIDE DEF c
  <2>3. trCall'[i] = c /\ \A j : RecordsOf(j)' = RecordsOf(j)
    BY <1>1, <1>8, <2>1, Unmoved DEF RecordsOf
  <2>4. AllowedCall(i)'
    BY <1>2, <1>3, <1>4, <1>8, <2>2, <2>3 DEF AllowedCall
  <2>5. RecordedCall(i)'
    BY <1>2, <1>8, <2>2, <2>3 DEF RecordedCall
  <2> QED
    BY <1>7, <1>8, <2>1, <2>2, <2>3, <2>4, <2>5
<1>9. ASSUME NEW status \in {"rejected", "error"}, Rejected(i, status)
      PROVE  TrInv'
  <2> DEFINE c == [pc |-> "told", left |-> <<>>, told |-> "rejected"]
             r == AuditRecord(i, "loop", status)
  <2>1. c \in CallStates /\ trCall' = [trCall EXCEPT ![i] = c]
    BY <1>1, <1>9, TellsResult DEF Rejected, Results
  <2>2. c.told = "rejected" /\ c.pc = "told"
    OBVIOUS
  <2>3. r.call = i /\ r.status = status /\ Log({r})
    BY <1>9 DEF Rejected, AuditRecord
  <2> HIDE DEF c, r
  <2>4. trCall'[i] = c
    BY <1>1, <2>1, Unmoved
  <2>5. /\ \A j : j # i => RecordsOf(j)' = RecordsOf(j)
        /\ RecordsOf(i)' = RecordsOf(i) \cup (IF trMaster THEN {r} ELSE {})
    <3>1. \A q \in {r} : q.call = i
      BY <2>3
    <3> QED
      BY <2>3, <3>1, Logged
  <2>6. AllowedCall(i)'
    BY <1>2, <1>3, <2>2, <2>4 DEF AllowedCall
  <2>7. RecordsOf(i)' = IF trMaster' THEN {r} ELSE {}
    BY <1>2, <1>3, <2>5
  <2>8. RecordedCall(i)'
    BY <1>3, <2>2, <2>3, <2>4, <2>7 DEF RecordedCall, RecordedAs
  <2> QED
    BY <1>7, <2>1, <2>2, <2>5, <2>6, <2>8
<1>10. CASE RequestApproval(i)
  <2>1. \/ ~trMaster /\ Moves(i, "allowed") /\ UNCHANGED trRecords
        \/ Rejected(i, "error")
        \/ trNoId' = trNoId \cup {i} /\ Moves(i, "allowed") /\ UNCHANGED trRecords
        \/ Moves(i, "waiting") /\ UNCHANGED trRecords
    BY <1>10 DEF RequestApproval, trAudit
  <2> QED
    BY <1>3, <1>4, <1>8, <1>9, <2>1 DEF Approved
<1>11. CASE PollApproval(i)
  <2>1. \/ trTicket[i] = "approved" /\ trTicket' = trTicket /\ Moves(i, "allowed") /\ UNCHANGED trRecords
        \/ Rejected(i, "rejected")
        \/ Rejected(i, "error")
    BY <1>11 DEF PollApproval, trAudit
  <2> QED
    BY <1>4, <1>8, <1>9, <2>1 DEF Approved
<1> QED
  BY <1>10, <1>11

(* A running call is about to take the next step of its plan. *)
NextOnPlan(i, plan) ==
    /\ OnPlan(i, plan) /\ Len(plan) \in Nat /\ Len(trOutcomes[i]) + 1 \in 1 .. Len(plan)
    /\ trCall[i].left # <<>> /\ Head(trCall[i].left) = plan[Len(trOutcomes[i]) + 1]
    /\ Len(trCall[i].left) = Len(plan) - Len(trOutcomes[i])
    /\ \A k \in 1 .. Len(trCall[i].left) : trCall[i].left[k] = plan[Len(trOutcomes[i]) + k]
LEMMA NextStep ==
  ASSUME TrTyped, NEW i \in TrCalls, CallOnPlan(i), trCall[i].pc = "running"
  PROVE  \E plan \in Actions[Tool(i)] : Shaped(Tool(i), plan) /\ NextOnPlan(i, plan)
<1>1. PICK plan \in Actions[Tool(i)] : OnPlan(i, plan)
  BY DEF CallOnPlan
<1>2. /\ Shaped(Tool(i), plan) /\ Len(plan) \in Nat /\ Len(trOutcomes[i]) \in Nat
      /\ trCall[i].left \in Seq(ToolSteps)
  <2>1. /\ Tool(i) \in DOMAIN Actions /\ Len(trOutcomes[i]) \in Nat
        /\ trCall[i].left \in Seq(ToolSteps)
    BY CallSteps, StateFields
  <2>2. Shaped(Tool(i), plan)
    BY <2>1, PlanShapes
  <2> QED
    BY <2>1, <2>2 DEF Shaped
<1>3. /\ Len(trOutcomes[i]) < Len(plan) /\ Len(trCall[i].left) = Len(plan) - Len(trOutcomes[i])
      /\ \A k \in 1 .. Len(trCall[i].left) : trCall[i].left[k] = plan[Len(trOutcomes[i]) + k]
  BY <1>1 DEF OnPlan
<1>4. Len(trOutcomes[i]) + 1 \in 1 .. Len(plan) /\ Len(trCall[i].left) >= 1 /\ Len(trCall[i].left) \in Nat
  BY <1>2, <1>3
<1>5. trCall[i].left # <<>>
  BY <1>2, <1>4, EmptyHasNone
<1>6. Head(trCall[i].left) = trCall[i].left[1]
  BY <1>2, <1>5, Shortened
<1>7. trCall[i].left[1] = plan[Len(trOutcomes[i]) + 1]
  <2>1. 1 \in 1 .. Len(trCall[i].left)
    BY <1>4
  <2> QED
    BY <1>3, <2>1
<1> QED
  BY <1>1, <1>2, <1>3, <1>4, <1>5, <1>6, <1>7 DEF NextOnPlan

LEMMA Ended ==
  ASSUME NEW told \in Results
  PROVE  [pc |-> "ran", left |-> <<>>, told |-> told] \in CallStates
<1>1. <<>> \in Seq(ToolSteps) /\ "ran" \in CallPlaces
  BY DEF CallPlaces
<1> QED
  BY <1>1, StatesMade

LEMMA HumanKeeps ==
  ASSUME TrInv, NEW i \in TrCalls, Human(i)
  PROVE  TrInv'
<1>1. /\ trTicket[i] = "pending" /\ \E verdict \in {"approved", "rejected"} : trTicket' = [trTicket EXCEPT ![i] = verdict]
      /\ UNCHANGED <<trFixed, trWorldVars, trCall, trNoticed, trNoId, trRecords, trSaved>>
  BY DEF Human, trAudit
<1>2. UNCHANGED <<trAsked, trMaster, trRole, trOutcomes, trFile, trRead, trSoul, trDeployed, trSentInRound, trSaw,
                  trCall, trNoticed, trNoId, trRecords, trSaved>>
  BY <1>1 DEF trFixed, trWorldVars
<1>3. TrTyped'
  BY <1>1, <1>2 DEF TrInv, TrTyped, TrCalls
<1>4. TrCalls' = TrCalls /\ \A j \in TrCalls : Tool(j)' = Tool(j)
  BY <1>2 DEF TrCalls, Tool
<1>5. CallsOnPlan'
  BY <1>2, <1>4, OthersOnPlan DEF TrInv, CallsOnPlan
<1>6. AllowedToRun'
  <2>1. \A j \in TrCalls : trTicket'[j] = trTicket[j] \/ trTicket[j] # "approved"
    BY <1>1 DEF TrInv, TrTyped
  <2> QED
    BY <1>2, <1>4, <2>1, OthersAllowed DEF TrInv, AllowedToRun
<1>7. OnRecord'
  <2>1. \A j : RecordsOf(j)' = RecordsOf(j)
    BY <1>2 DEF RecordsOf
  <2> QED
    BY <1>2, <1>4, <2>1, OthersRecorded DEF TrInv, OnRecord
<1>8. ErrorMeansUntouched' /\ FlagCovers' /\ EditsKnown' /\ SoulKept' /\ SavedLast'
  <2>1. UNCHANGED <<trFixed, trOutcomes>>
    BY <1>2 DEF trFixed
  <2>2. ErrorMeansUntouched'
    BY <1>2, <1>4, <2>1, SameSteps DEF TrInv, ErrorMeansUntouched
  <2>3. FlagCovers'
    BY <1>2, <1>4, <2>1, SameSteps DEF TrInv, FlagCovers, Saw
  <2>4. EditsKnown'
    BY <1>2, <1>4, <2>1, SameSteps DEF TrInv, EditsKnown, EditsKept, TrTyped
  <2>5. SoulKept'
    BY <1>2, <1>4, <2>1, SameSteps DEF TrInv, SoulKept
  <2>6. SavedLast'
    BY <1>2, <1>4 DEF TrInv, SavedLast
  <2> QED
    BY <2>2, <2>3, <2>4, <2>5, <2>6
<1> QED
  BY <1>3, <1>5, <1>6, <1>7, <1>8 DEF TrInv

LEMMA BeginKeeps ==
  ASSUME TrInv, NEW i \in TrCalls, Begin(i)
  PROVE  TrInv'
<1>1. /\ TrTyped /\ CallOnPlan(i) /\ AllowedCall(i) /\ RecordedCall(i)
      /\ Tool(i) \in DOMAIN Actions
  BY CallKnown, CallSteps
<1>2. /\ trCall[i].pc \in {"asked", "allowed"} /\ trCall[i].told = "nothing" /\ trOutcomes[i] = <<>>
      /\ RecordsOf(i) = {} /\ (IsRisky(i) => Approved(i))
  <2>1. trCall[i].pc \in {"asked", "allowed"} /\ (trCall[i].pc = "asked" => ~IsRisky(i))
    BY DEF Begin, Admitted
  <2> QED
    BY <1>1, <2>1 DEF CallOnPlan, NotBegun, RecordedCall, AllowedCall
<1>3. UNCHANGED <<trFixed, trWorldVars, trSaved>> /\ UNCHANGED <<trFixed, trOutcomes>>
      /\ UNCHANGED <<trOutcomes, trMaster, trTicket, trNoticed, trNoId>>
  BY DEF Begin, trWorldVars, trFixed
<1>4. /\ ~Claimed(i) /\ Changed(i) = {}
  BY <1>2 DEF Claimed, Changed, Took
<1>5. (IsRisky(i) <=> IsRisky(i)') /\ (Approved(i) <=> Approved(i)')
  BY <1>3, SameSteps DEF Approved
<1>6. ASSUME NEW c \in CallStates, trCall' = [trCall EXCEPT ![i] = c],
             \/ c.told \in {"denied", "unknown"} /\ c.pc = "told"
             \/ c.told = "nothing" /\ c.pc = "running" /\ c.left \in Actions[Tool(i)]
             \/ c.told = "error" /\ c.pc = "ran",
             \A j : j # i => RecordsOf(j)' = RecordsOf(j), RecordedCall(i)'
      PROVE  TrInv'
  <2>1. /\ c.told = "nothing" <=> c.pc \in NotBegun \cup {"running"}
        /\ c.pc \in NotBegun => trOutcomes[i] = <<>>
        /\ c.pc = "running" => trOutcomes[i] = <<>> /\ c.left \in Actions[Tool(i)]
        /\ c.told \in Refusals => c.pc = "told"
        /\ c.told = "ok" => trCall[i].told = "ok"
        /\ c.told = "error" => trCall[i].told = "error" \/ Changed(i) = {}
    BY <1>2, <1>4, <1>6 DEF NotBegun, Refusals
  <2>2. /\ trTicket' \in [TrCalls -> {"none", "pending", "approved", "rejected"}]
        /\ trNoticed' \subseteq TrCalls /\ trNoId' \subseteq trNoticed'
        /\ trNoticed \subseteq trNoticed' /\ trNoId \subseteq trNoId'
        /\ \A j \in TrCalls : j # i => trTicket'[j] = trTicket[j] \/ trTicket[j] # "approved"
    BY <1>1, <1>3 DEF TrTyped
  <2>3. TrTyped' /\ CallsOnPlan' /\ ErrorMeansUntouched' /\ FlagCovers' /\ EditsKnown' /\ SoulKept' /\ SavedLast'
    BY <1>2, <1>3, <1>4, <1>6, <2>1, <2>2, MovedKeeps
  <2>4. trCall'[i] = c
    BY <1>1, <1>6, Unmoved
  <2>5. AllowedCall(i)'
    BY <1>2, <1>3, <1>5, <1>6, <2>4 DEF AllowedCall
  <2>6. AllowedToRun' /\ OnRecord'
    BY <1>3, <1>6, <2>2, <2>5, OneMoves
  <2> QED
    BY <2>3, <2>6 DEF TrInv
<1>7. ASSUME NEW c \in CallStates, trCall' = [trCall EXCEPT ![i] = c], UNCHANGED trAudit, c.told = "denied" \/ c.pc # "told"
      PROVE  (\A j : RecordsOf(j)' = RecordsOf(j)) /\ RecordedCall(i)'
  <2>1. (\A j : RecordsOf(j)' = RecordsOf(j)) /\ trCall'[i] = c
    BY <1>1, <1>7, Unmoved DEF RecordsOf, trAudit
  <2> QED
    BY <1>2, <1>7, <2>1 DEF RecordedCall, RecordedAs
<1>8. CASE Tells(i, "denied") /\ UNCHANGED trAudit
  <2> DEFINE c == [pc |-> "told", left |-> <<>>, told |-> "denied"]
  <2>1. c \in CallStates /\ trCall' = [trCall EXCEPT ![i] = c] /\ c.told = "denied" /\ c.pc = "told"
    BY <1>1, <1>8, TellsResult DEF Results
  <2> HIDE DEF c
  <2> QED
    BY <1>6, <1>7, <1>8, <2>1
<1>9. CASE Tells(i, "unknown") /\ Log({AuditRecord(i, "loop", "failed")})
  <2> DEFINE c == [pc |-> "told", left |-> <<>>, told |-> "unknown"]
             r == AuditRecord(i, "loop", "failed")
  <2>1. c \in CallStates /\ trCall' = [trCall EXCEPT ![i] = c] /\ c.told = "unknown" /\ c.pc = "told"
    BY <1>1, <1>9, TellsResult DEF Results
  <2>2. \A q \in {r} : q.call = i
    BY DEF AuditRecord
  <2> HIDE DEF c
  <2>3. /\ \A j : j # i => RecordsOf(j)' = RecordsOf(j)
        /\ RecordsOf(i)' = RecordsOf(i) \cup (IF trMaster THEN {r} ELSE {})
    <3> HIDE DEF r
    <3>1. Log({r})
      BY <1>9 DEF r
    <3> QED
      BY <2>2, <3>1, Logged
  <2>4. trCall'[i] = c /\ AuditRecord(i, "loop", "failed")' = r
    BY <1>1, <2>1, Unmoved DEF AuditRecord
  <2> HIDE DEF r
  <2>5. RecordsOf(i)' = (IF trMaster' THEN {r} ELSE {})
    BY <1>2, <1>3, <2>3
  <2>6. RecordedCall(i)'
    BY <2>1, <2>4, <2>5 DEF RecordedCall, RecordedAs
  <2> QED
    BY <1>6, <2>1, <2>3, <2>6
<1>10. ASSUME NEW steps \in Actions[Tool(i)], UNCHANGED trAudit,
              trCall' = [trCall EXCEPT ![i] = [pc |-> "running", left |-> steps, told |-> "nothing"]]
       PROVE  TrInv'
  <2> DEFINE c == [pc |-> "running", left |-> steps, told |-> "nothing"]
  <2>1. steps \in Seq(ToolSteps)
    BY <1>1, PlanShapes DEF Shaped
  <2>2. c \in CallStates /\ c.told = "nothing" /\ c.pc = "running" /\ c.left = steps /\ trCall' = [trCall EXCEPT ![i] = c]
    BY <1>10, <2>1, StatesMade DEF CallPlaces, Results
  <2> HIDE DEF c
  <2> QED
    BY <1>6, <1>7, <1>10, <2>2
<1>11. CASE UNCHANGED trAudit /\ trCall' = [trCall EXCEPT ![i] = [pc |-> "ran", left |-> <<>>, told |-> "error"]]
  <2> DEFINE c == [pc |-> "ran", left |-> <<>>, told |-> "error"]
  <2>1. c \in CallStates /\ c.told = "error" /\ c.pc = "ran" /\ trCall' = [trCall EXCEPT ![i] = c]
    BY <1>11, Ended DEF Results
  <2> HIDE DEF c
  <2> QED
    BY <1>6, <1>7, <1>11, <2>1
<1> QED
  BY <1>8, <1>9, <1>10, <1>11 DEF Begin

LEMMA EndsKeeps ==
  ASSUME TrInv, NEW i \in TrCalls, NEW told \in {"error", "skipped"}, trCall[i].pc = "running",
         trCall' = [trCall EXCEPT ![i] = [pc |-> "ran", left |-> <<>>, told |-> told]],
         UNCHANGED <<trFixed, trWorldVars, trTicket, trNoticed, trNoId, trRecords, trSaved>>,
         Changed(i) = {} \/ told # "error", Claimed(i) => Len(trOutcomes[i]) # 1
  PROVE  TrInv'
<1>1. TrTyped /\ CallOnPlan(i) /\ AllowedCall(i) /\ RecordedCall(i)
  BY CallKnown
<1>2. RecordsOf(i) = {}
  BY <1>1 DEF RecordedCall
<1>3. UNCHANGED <<trFixed, trWorldVars, trSaved>> /\ UNCHANGED <<trFixed, trOutcomes>>
      /\ UNCHANGED <<trOutcomes, trMaster, trTicket, trNoticed, trNoId, trRecords>>
  BY DEF trWorldVars, trFixed
<1>6. (IsRisky(i) <=> IsRisky(i)') /\ (Approved(i) <=> Approved(i)') /\ \A j : RecordsOf(j)' = RecordsOf(j)
  BY <1>3, SameSteps DEF Approved, RecordsOf
<1> DEFINE c == [pc |-> "ran", left |-> <<>>, told |-> told]
<1>8. c \in CallStates /\ c.told = told /\ c.pc = "ran" /\ trCall' = [trCall EXCEPT ![i] = c]
  BY Ended DEF Results
<1> HIDE DEF c
<1>9. /\ c.told = "nothing" <=> c.pc \in NotBegun \cup {"running"}
      /\ c.pc \in NotBegun => trOutcomes[i] = <<>>
      /\ c.pc = "running" => trOutcomes[i] = <<>> /\ c.left \in Actions[Tool(i)]
      /\ c.told \in Refusals => c.pc = "told"
      /\ c.told = "ok" => trCall[i].told = "ok"
      /\ c.told = "error" => trCall[i].told = "error" \/ Changed(i) = {}
  BY <1>8 DEF NotBegun, Refusals
<1>10. /\ trTicket' \in [TrCalls -> {"none", "pending", "approved", "rejected"}]
       /\ trNoticed' \subseteq TrCalls /\ trNoId' \subseteq trNoticed'
       /\ trNoticed \subseteq trNoticed' /\ trNoId \subseteq trNoId'
       /\ \A j \in TrCalls : j # i => trTicket'[j] = trTicket[j] \/ trTicket[j] # "approved"
  BY <1>1, <1>3 DEF TrTyped
<1>11. TrTyped' /\ CallsOnPlan' /\ ErrorMeansUntouched' /\ FlagCovers' /\ EditsKnown' /\ SoulKept' /\ SavedLast'
  BY <1>2, <1>3, <1>8, <1>9, <1>10, MovedKeeps
<1>12. trCall'[i] = c
  BY <1>1, <1>8, Unmoved
<1>13. AllowedCall(i)'
  BY <1>1, <1>2, <1>3, <1>6, <1>8, <1>12 DEF AllowedCall
<1>14. RecordedCall(i)'
  BY <1>2, <1>6, <1>8, <1>12 DEF RecordedCall
<1>15. AllowedToRun' /\ OnRecord'
  BY <1>3, <1>6, <1>8, <1>10, <1>13, <1>14, OneMoves
<1> QED
  BY <1>11, <1>15 DEF TrInv

LEMMA RejectMessageKeeps ==
  ASSUME TrInv, NEW i \in TrCalls, RejectMessage(i)
  PROVE  TrInv'
<1>1. /\ TrTyped /\ CallOnPlan(i) /\ AllowedCall(i) /\ RecordedCall(i)
      /\ Tool(i) \in DOMAIN Actions /\ Len(trOutcomes[i]) \in Nat /\ trOutcomes[i] \in Seq(Outcomes)
      /\ trCall[i].left \in Seq(ToolSteps)
  BY CallKnown, CallSteps
<1>2. /\ trCall[i].pc = "running" /\ RecordsOf(i) = {} /\ Tool(i) = "siam_send_message"
      /\ Head(trCall[i].left).on # "flag" /\ \A k \in DOMAIN trOutcomes[i] : trOutcomes[i][k].step.on = "flag"
  BY <1>1 DEF RejectMessage, RecordedCall
<1>3. UNCHANGED <<trFixed, trWorldVars, trSaved>> /\ UNCHANGED <<trFixed, trOutcomes>>
      /\ UNCHANGED <<trOutcomes, trMaster, trTicket, trNoticed, trNoId, trRecords>>
  BY DEF RejectMessage, trWorldVars, trFixed, trAudit
<1>4. Changed(i) = {}
  BY <1>2 DEF Changed, Took
<1>5. Len(trOutcomes[i]) # 1
  <2>1. PICK plan \in Actions[Tool(i)] :
            Shaped(Tool(i), plan) /\ NextOnPlan(i, plan)
    BY <1>1, <1>2, NextStep
  <2>2. ASSUME Len(trOutcomes[i]) = 1 PROVE FALSE
    <3>1. Head(trCall[i].left) = plan[2] /\ 2 \in 1 .. Len(plan)
      BY <2>1, <2>2 DEF NextOnPlan
    <3>2. plan[2].on = "flag"
      BY <1>2, <2>1, <3>1 DEF Shaped
    <3> QED
      BY <1>2, <3>1, <3>2
  <2> QED
    BY <2>2
<1>6. PICK told \in {"error", "skipped"} : EndsWith(i, told)
  BY DEF RejectMessage
<1> QED
  BY <1>2, <1>3, <1>4, <1>5, <1>6, EndsKeeps DEF EndsWith

LEMMA ReturnsKeeps ==
  ASSUME TrInv, NEW i \in TrCalls, Returns(i)
  PROVE  TrInv'
<1>1. /\ TrTyped /\ CallOnPlan(i) /\ AllowedCall(i) /\ RecordedCall(i) /\ trCall[i].told \in Results
      /\ Claimed(i) /\ trCall[i].pc # "running" => Len(trOutcomes[i]) # 1
  BY CallKnown
<1>2. /\ trCall[i].pc = "ran" /\ RecordsOf(i) = {} /\ trCall[i].told # "nothing"
  BY <1>1 DEF Returns, RecordedCall, CallOnPlan, NotBegun
<1>3. UNCHANGED <<trFixed, trWorldVars, trSaved>> /\ UNCHANGED <<trFixed, trOutcomes>>
      /\ UNCHANGED <<trOutcomes, trMaster, trTicket, trNoticed, trNoId>>
  BY DEF Returns, trWorldVars, trFixed
<1> DEFINE c == [pc |-> "told", left |-> <<>>, told |-> trCall[i].told]
<1>4. c \in CallStates /\ c.told = trCall[i].told /\ c.pc = "told" /\ trCall' = [trCall EXCEPT ![i] = c]
  BY <1>1, TellsResult DEF Returns
<1> HIDE DEF c
<1>5. /\ c.told = "nothing" <=> c.pc \in NotBegun \cup {"running"}
      /\ c.pc \in NotBegun => trOutcomes[i] = <<>>
      /\ c.pc = "running" => trOutcomes[i] = <<>> /\ c.left \in Actions[Tool(i)]
      /\ c.told \in Refusals => c.pc = "told"
      /\ c.told = "ok" => trCall[i].told = "ok"
      /\ c.told = "error" => trCall[i].told = "error" \/ Changed(i) = {}
  BY <1>1, <1>2, <1>4 DEF NotBegun, Refusals, CallOnPlan
<1>6. /\ trTicket' \in [TrCalls -> {"none", "pending", "approved", "rejected"}]
      /\ trNoticed' \subseteq TrCalls /\ trNoId' \subseteq trNoticed'
      /\ trNoticed \subseteq trNoticed' /\ trNoId \subseteq trNoId'
      /\ \A j \in TrCalls : j # i => trTicket'[j] = trTicket[j] \/ trTicket[j] # "approved"
  BY <1>1, <1>3 DEF TrTyped
<1>7. TrTyped' /\ CallsOnPlan' /\ ErrorMeansUntouched' /\ FlagCovers' /\ EditsKnown' /\ SoulKept' /\ SavedLast'
  BY <1>1, <1>2, <1>3, <1>4, <1>5, <1>6, MovedKeeps
<1>8. trCall'[i] = c /\ Tool(i)' = Tool(i) /\ (IsRisky(i) <=> IsRisky(i)') /\ (Approved(i) <=> Approved(i)')
  BY <1>1, <1>3, <1>4, Unmoved, SameSteps DEF Approved
<1>9. AllowedCall(i)'
  BY <1>1, <1>3, <1>4, <1>8 DEF AllowedCall
<1>10. \A r \in Audits(i) : r.call = i
  BY DEF Audits, AuditRecord
<1>11. /\ \A j : j # i => RecordsOf(j)' = RecordsOf(j)
       /\ RecordsOf(i)' = IF trMaster THEN Audits(i) ELSE {}
  <2>1. /\ \A j : j # i => RecordsOf(j)' = RecordsOf(j)
        /\ RecordsOf(i)' = RecordsOf(i) \cup (IF trMaster THEN Audits(i) ELSE {})
    BY <1>10, Logged DEF Returns
  <2> QED
    BY <1>2, <2>1
<1>12. trCall[i].told \notin Refusals
  BY <1>1, <1>2 DEF CallOnPlan
<1>13. RecordedCall(i)'
  <2>1. CASE ~trMaster
    BY <1>3, <1>11, <2>1 DEF RecordedCall
  <2>2. CASE trMaster
    <3> DEFINE byLoop == AuditRecord(i, "loop", AuditStatus(SetsErr(i)))
               byRegistry == AuditRecord(i, "registry", AuditStatus(trCall[i].told = "error"))
    <3>1. /\ byLoop \in Audits(i) /\ byLoop.by = "loop" /\ (byLoop.status = "failed" => trCall[i].told = "error")
      BY DEF Audits, AuditRecord, AuditStatus, SetsErr
    <3>2. byRegistry.by = "registry" /\ (byRegistry.status = "failed" <=> trCall[i].told = "error")
      BY DEF AuditRecord, AuditStatus
    <3>3. Tool(i) = "spawn" \/ byRegistry \in Audits(i)
      BY DEF Audits, IsAsync
    <3> HIDE DEF byLoop, byRegistry
    <3>4. RecordsOf(i)' = Audits(i) /\ trCall'[i].told = trCall[i].told
      BY <1>4, <1>8, <1>11, <2>2
    <3>5. RecordedAs(i)'
      BY <1>8, <1>12, <3>1, <3>2, <3>3, <3>4 DEF RecordedAs, Refusals
    <3> QED
      BY <1>3, <1>4, <1>8, <2>2, <3>5 DEF RecordedCall
  <2> QED
    BY <2>1, <2>2
<1>14. AllowedToRun' /\ OnRecord'
  BY <1>3, <1>4, <1>6, <1>9, <1>11, <1>13, OneMoves
<1> QED
  BY <1>7, <1>14 DEF TrInv

LEMMA SkippedKeeps ==
  ASSUME TrInv, NEW i \in TrCalls, trCall[i].pc = "running", Skipped(i)
  PROVE  TrInv'
<1>1. TrTyped /\ CallOnPlan(i) /\ Len(trOutcomes[i]) \in Nat /\ trOutcomes[i] \in Seq(Outcomes)
  BY CallKnown, CallSteps
<1>2. PICK plan \in Actions[Tool(i)] : Shaped(Tool(i), plan) /\ NextOnPlan(i, plan)
  BY <1>1, NextStep
<1>3. ASSUME Len(trOutcomes[i]) = 1 PROVE FALSE
  <2>1. Head(trCall[i].left) = plan[2] /\ 2 \in 1 .. Len(plan)
    BY <1>2, <1>3 DEF NextOnPlan
  <2> QED
    BY <1>2, <2>1 DEF Shaped, Skipped
<1>4. "skipped" # "error"
  OBVIOUS
<1> QED
  BY <1>3, <1>4, EndsKeeps DEF Skipped

(* The steps a call has taken when it takes the n + 1st, with the outcome o.          *)
MoreSteps(i, o, n) ==
    /\ n \in Nat /\ n = Len(trOutcomes[i]) /\ Len(trOutcomes'[i]) = n + 1
    /\ DOMAIN trOutcomes[i] = 1 .. n /\ DOMAIN trOutcomes'[i] = 1 .. n + 1
    /\ trOutcomes'[i][n + 1] = o /\ \A k \in 1 .. n : trOutcomes'[i][k] = trOutcomes[i][k]
    /\ trOutcomes'[i] # <<>> /\ (trOutcomes[i] = <<>> <=> n = 0)
    /\ trOutcomes' \in [TrCalls -> Seq(Outcomes)]
    /\ \A j \in TrCalls : j # i => trOutcomes'[j] = trOutcomes[j]
LEMMA TakenSteps ==
  ASSUME TrTyped, NEW i \in TrCalls, NEW o \in Outcomes,
         trOutcomes' = [trOutcomes EXCEPT ![i] = Append(trOutcomes[i], o)]
  PROVE  MoreSteps(i, o, Len(trOutcomes[i]))
<1> DEFINE s == Append(trOutcomes[i], o)
<1>1. trOutcomes \in [TrCalls -> Seq(Outcomes)] /\ trOutcomes[i] \in Seq(Outcomes)
  BY DEF TrTyped
<1>2. /\ s \in Seq(Outcomes) /\ s # <<>> /\ Len(trOutcomes[i]) \in Nat
      /\ Len(s) = Len(trOutcomes[i]) + 1
      /\ s[Len(trOutcomes[i]) + 1] = o /\ \A k \in 1 .. Len(trOutcomes[i]) : s[k] = trOutcomes[i][k]
  BY <1>1, Appended
<1>3. DOMAIN trOutcomes[i] = 1 .. Len(trOutcomes[i]) /\ DOMAIN s = 1 .. Len(s)
  BY <1>1, <1>2
<1>4. trOutcomes[i] = <<>> <=> Len(trOutcomes[i]) = 0
  BY <1>1, EmptyHasNone
<1> HIDE DEF s
<1>5. /\ trOutcomes' \in [TrCalls -> Seq(Outcomes)] /\ trOutcomes'[i] = s
      /\ \A j \in TrCalls : j # i => trOutcomes'[j] = trOutcomes[j]
  BY <1>1, <1>2 DEF s
<1> QED
  BY <1>2, <1>3, <1>4, <1>5 DEF MoreSteps

LEMMA MoreTook ==
  ASSUME NEW i \in TrCalls, NEW o \in Outcomes, NEW n, MoreSteps(i, o, n), trAsked' = trAsked
  PROVE  /\ \A outcomes : Took(i, outcomes)' = Took(i, outcomes) \cup (IF o.outcome \in outcomes THEN {n + 1} ELSE {})
         /\ Changed(i)' = Changed(i) \cup
                (IF o.outcome \in {"done", "lost"} /\ o.step.changes /\ o.step.on # "flag" THEN {n + 1} ELSE {})
         /\ SoulSteps(i)' = SoulSteps(i) \cup (IF o.step.on = "soul" THEN {n + 1} ELSE {})
         /\ \A j \in TrCalls : j # i => /\ \A outcomes : Took(j, outcomes)' = Took(j, outcomes)
                                        /\ Changed(j)' = Changed(j) /\ SoulSteps(j)' = SoulSteps(j)
                                        /\ (Wrote(j) <=> Wrote(j)') /\ (Claimed(j) <=> Claimed(j)')
                                        /\ (Updated(j) <=> Updated(j)') /\ (Deployed(j) <=> Deployed(j)')
<1>1. ASSUME NEW outcomes
      PROVE  Took(i, outcomes)' = Took(i, outcomes) \cup (IF o.outcome \in outcomes THEN {n + 1} ELSE {})
  <2>1. \A k : k \in 1 .. n + 1 <=> k \in 1 .. n \/ k = n + 1
    BY DEF MoreSteps
  <2> QED
    BY <2>1 DEF MoreSteps, Took
<1>2. Took(i, {"done", "lost"}) \subseteq 1 .. n /\ SoulSteps(i) \subseteq 1 .. n
  BY DEF MoreSteps, Took, SoulSteps
<1>3. Changed(i)' = Changed(i) \cup
          (IF o.outcome \in {"done", "lost"} /\ o.step.changes /\ o.step.on # "flag" THEN {n + 1} ELSE {})
  <2>1. Took(i, {"done", "lost"})' =
            Took(i, {"done", "lost"}) \cup (IF o.outcome \in {"done", "lost"} THEN {n + 1} ELSE {})
    BY <1>1
  <2> QED
    BY <1>2, <2>1 DEF MoreSteps, Changed
<1>4. SoulSteps(i)' = SoulSteps(i) \cup (IF o.step.on = "soul" THEN {n + 1} ELSE {})
  <2>1. \A k : k \in 1 .. n + 1 <=> k \in 1 .. n \/ k = n + 1
    BY DEF MoreSteps
  <2> QED
    BY <2>1 DEF MoreSteps, SoulSteps
<1>5. ASSUME NEW j \in TrCalls, j # i
      PROVE  /\ \A outcomes : Took(j, outcomes)' = Took(j, outcomes)
             /\ Changed(j)' = Changed(j) /\ SoulSteps(j)' = SoulSteps(j)
             /\ (Wrote(j) <=> Wrote(j)') /\ (Claimed(j) <=> Claimed(j)')
             /\ (Updated(j) <=> Updated(j)') /\ (Deployed(j) <=> Deployed(j)')
  BY <1>5 DEF MoreSteps, Took, Changed, SoulSteps, Wrote, Claimed, Updated, Deployed, Tool
<1> QED
  BY <1>1, <1>3, <1>4, <1>5

(* What a call finds that takes the n + 1st step of its plan. *)
Taking(i, o, c, plan, n) ==
    /\ TrInv /\ TrTyped /\ trCall[i].pc = "running" /\ trCall[i].told = "nothing"
    /\ Taken(i, o, c) /\ MoreSteps(i, o, n)
    /\ plan \in Actions[Tool(i)] /\ Shaped(Tool(i), plan) /\ NextOnPlan(i, plan)
    /\ o.step = plan[n + 1]
    /\ n + 1 \in 1 .. Len(plan) /\ Len(plan) \in Nat
    /\ trCall' \in [TrCalls -> CallStates] /\ trCall'[i] = c /\ \A j \in TrCalls : j # i => trCall'[j] = trCall[j]
    /\ UNCHANGED <<trAsked, trMaster, trRole, trTicket, trNoticed, trNoId, trRecords, trSaved>>
    /\ TrCalls' = TrCalls /\ \A j \in TrCalls : Tool(j)' = Tool(j)

LEMMA TakenIsTaking ==
  ASSUME TrInv, NEW i \in TrCalls, NEW o \in Outcomes, NEW c \in CallStates,
         trCall[i].pc = "running", o.step = Head(trCall[i].left), Taken(i, o, c)
  PROVE  \E plan : Taking(i, o, c, plan, Len(trOutcomes[i]))
<1>1. TrTyped /\ CallOnPlan(i) /\ trCall[i].told = "nothing"
  BY CallKnown DEF CallOnPlan
<1>2. PICK plan \in Actions[Tool(i)] : Shaped(Tool(i), plan) /\ NextOnPlan(i, plan)
  BY <1>1, NextStep
<1>3. MoreSteps(i, o, Len(trOutcomes[i]))
  BY <1>1, TakenSteps DEF Taken
<1>4. /\ trCall' \in [TrCalls -> CallStates] /\ trCall'[i] = c
      /\ \A j \in TrCalls : j # i => trCall'[j] = trCall[j]
  BY <1>1, Unmoved DEF Taken
<1>5. /\ UNCHANGED <<trAsked, trMaster, trRole, trTicket, trNoticed, trNoId, trRecords, trSaved>>
      /\ TrCalls' = TrCalls /\ \A j \in TrCalls : Tool(j)' = Tool(j)
  BY DEF Taken, trFixed, TrCalls, Tool
<1>6. o.step = plan[Len(trOutcomes[i]) + 1] /\ Len(trOutcomes[i]) + 1 \in 1 .. Len(plan) /\ Len(plan) \in Nat
  BY <1>2 DEF NextOnPlan
<1> QED
  BY <1>1, <1>2, <1>3, <1>4, <1>5, <1>6 DEF Taking

LEMMA GoesOneWay ==
  ASSUME NEW i, NEW o, NEW c, Goes(i, o, c), trCall[i].told = "nothing"
  PROVE  /\ c.pc \in {"running", "ran"}
         /\ c.pc = "running" => c.told = "nothing" /\ c.left = Tail(trCall[i].left) /\ c.left # <<>> /\ Excused(o)
         /\ c.pc = "ran" => c.told \in {"ok", "error"} /\ (c.told = "ok" => Excused(o))
         /\ c.told = "error" => o.outcome # "done"
         /\ c.pc = "ran" /\ o.outcome = "done" =>
                Tail(trCall[i].left) = <<>> \/ o.step.onError = "else"
<1>1. CASE /\ c = [pc |-> "running", left |-> Tail(trCall[i].left), told |-> trCall[i].told]
           /\ Tail(trCall[i].left) # <<>> /\ Excused(o)
  BY <1>1
<1>2. CASE /\ c = [pc |-> "ran", left |-> <<>>, told |-> "ok"] /\ Excused(o)
           /\ Tail(trCall[i].left) = <<>> \/ o.step.onError = "else"
  BY <1>2
<1>3. CASE c = [pc |-> "ran", left |-> <<>>, told |-> "error"] /\ o.outcome # "done"
  BY <1>3
<1> QED
  BY <1>1, <1>2, <1>3 DEF Goes

LEMMA TakingKeepsCalls ==
  ASSUME NEW i \in TrCalls, NEW o \in Outcomes, NEW c \in CallStates, NEW plan,
         NEW n, Taking(i, o, c, plan, n)
  PROVE  TrTyped' /\ CallsOnPlan' /\ AllowedToRun' /\ OnRecord' /\ SavedLast'
<1> USE DEF Taking
<1>1. TrTyped'
  <2>1. /\ trFile' \subseteq TrCalls /\ trRead' \in [TrCalls -> SUBSET TrCalls]
        /\ trSoul' \in TrCalls \cup {0} /\ trDeployed' \in TrCalls \cup {0}
        /\ trSentInRound' \in BOOLEAN
    <3>1. CASE Unchanged
      BY <3>1 DEF Unchanged, TrTyped
    <3>2. CASE Changes(i, o.step)
      BY <3>2 DEF Changes, TrTyped
    <3> QED
      BY <3>1, <3>2 DEF Taken
  <2> QED
    BY <2>1 DEF TrTyped, MoreSteps
<1>2. CallsOnPlan'
  <2>1. ASSUME NEW j \in TrCalls, j # i PROVE CallOnPlan(j)'
    <3>1. CallOnPlan(j) /\ trOutcomes'[j] = trOutcomes[j]
      BY <2>1 DEF TrInv, CallsOnPlan, MoreSteps
    <3> QED
      BY <2>1, <3>1, OthersOnPlan
  <2>2. CallOnPlan(i) /\ c.pc \in {"running", "ran"}
        /\ (c.pc = "running" => c.told = "nothing" /\ c.left = Tail(trCall[i].left) /\ c.left # <<>> /\ Excused(o))
        /\ (c.pc = "ran" => c.told \in {"ok", "error"} /\ (c.told = "ok" => Excused(o)))
    <3>1. CallOnPlan(i)
      BY DEF TrInv, CallsOnPlan
    <3>2. Goes(i, o, c) /\ trCall[i].told = "nothing"
      BY DEF Taken
    <3> HIDE DEF Taking
    <3> QED
      BY <3>1, <3>2, GoesOneWay
  <2>3. OnPlan(i, plan)'
    <3>1. \A k \in 1 .. n + 1 : trOutcomes'[i][k].step = plan[k]
      <4>1. \A k \in 1 .. n + 1 : k \in 1 .. n \/ k = n + 1
        BY DEF MoreSteps
      <4> QED
        BY <4>1 DEF MoreSteps, NextOnPlan, OnPlan
    <3>2. ASSUME c.pc = "running"
          PROVE  /\ n + 1 < Len(plan) /\ Len(c.left) = Len(plan) - (n + 1)
                 /\ \A k \in 1 .. Len(c.left) : c.left[k] = plan[n + 1 + k]
      <4>1. /\ trCall[i].left \in Seq(ToolSteps) /\ trCall[i].left # <<>>
            /\ Len(trCall[i].left) = Len(plan) - n
            /\ \A k \in 1 .. Len(trCall[i].left) : trCall[i].left[k] = plan[n + k]
        <5>1. trCall[i].left \in Seq(ToolSteps)
          BY CallKnown
        <5> QED
          BY <5>1 DEF NextOnPlan, MoreSteps
      <4>2. /\ Len(c.left) = Len(plan) - n - 1 /\ Len(trCall[i].left) > 1
            /\ \A k \in 1 .. Len(plan) - n - 1 : c.left[k] = trCall[i].left[k + 1]
        <5>1. c.left = Tail(trCall[i].left) /\ Tail(trCall[i].left) # <<>>
          BY <2>2, <3>2
        <5>2. n \in Nat /\ Len(plan) \in Nat
          BY DEF MoreSteps
        <5> HIDE DEF Taking
        <5>3. /\ Len(trCall[i].left) \in Nat /\ Len(c.left) = Len(trCall[i].left) - 1
              /\ Len(trCall[i].left) > 1
              /\ \A k \in 1 .. Len(trCall[i].left) - 1 : c.left[k] = trCall[i].left[k + 1]
          BY <4>1, <5>1, Shortened
        <5> QED
          BY <4>1, <5>2, <5>3
      <4>3. n + 1 < Len(plan) /\ n \in Nat
        BY <4>1, <4>2 DEF MoreSteps
      <4>4. ASSUME NEW k \in 1 .. Len(c.left) PROVE c.left[k] = plan[n + 1 + k]
        <5>1. c.left[k] = trCall[i].left[k + 1] /\ k + 1 \in 1 .. Len(trCall[i].left)
          BY <4>1, <4>2, <4>3
        <5>2. trCall[i].left[k + 1] = plan[n + (k + 1)] /\ n + (k + 1) = n + 1 + k
          BY <4>1, <4>3, <5>1
        <5> QED
          BY <5>1, <5>2
      <4> QED
        BY <4>2, <4>3, <4>4
    <3>3. trCall'[i] = c /\ Len(trOutcomes'[i]) = n + 1 /\ n + 1 <= Len(plan)
      BY DEF MoreSteps
    <3> HIDE DEF Taking
    <3> QED
      BY <3>1, <3>2, <3>3 DEF OnPlan
  <2>4. c.pc = "running" \/ c.told = "ok" => \A k \in 1 .. n + 1 : Excused(trOutcomes'[i][k])
    <3>1. SUFFICES ASSUME c.pc = "running" \/ c.told = "ok", NEW k \in 1 .. n + 1
                   PROVE  Excused(trOutcomes'[i][k])
      OBVIOUS
    <3>2. Excused(o)
      BY <2>2, <3>1
    <3>3. CASE k = n + 1
      BY <3>2, <3>3 DEF MoreSteps
    <3>4. CASE k \in 1 .. n
      BY <2>2, <3>4 DEF MoreSteps, CallOnPlan
    <3> QED
      BY <3>3, <3>4 DEF MoreSteps
  <2>5. CallOnPlan(i)'
    BY <2>2, <2>3, <2>4 DEF CallOnPlan, NotBegun, MoreSteps, Excused, Refusals
  <2> QED
    BY <2>1, <2>5 DEF CallsOnPlan
<1>3. AllowedToRun'
  <2>1. ASSUME NEW j \in TrCalls, j # i PROVE AllowedCall(j)'
    BY <2>1, OthersAllowed DEF TrInv, AllowedToRun, MoreSteps
  <2>2. AllowedCall(i)'
    <3>1. c.pc # "waiting"
      BY DEF Taken, Goes
    <3>2. AllowedCall(i) /\ (IsRisky(i) <=> IsRisky(i)') /\ (Approved(i) <=> Approved(i)')
      BY DEF TrInv, AllowedToRun, IsRisky, Approved, Tool, Named
    <3> QED
      BY <3>1, <3>2 DEF AllowedCall
  <2> QED
    BY <2>1, <2>2 DEF AllowedToRun
<1>4. OnRecord'
  <2>1. \A j : RecordsOf(j)' = RecordsOf(j)
    BY DEF RecordsOf
  <2>2. ASSUME NEW j \in TrCalls, j # i PROVE RecordedCall(j)'
    BY <2>1, <2>2, OthersRecorded DEF TrInv, OnRecord
  <2>3. RecordedCall(i)'
    <3>1. c.pc # "told" /\ RecordsOf(i) = {}
      BY DEF Taken, Goes, TrInv, OnRecord, RecordedCall
    <3> QED
      BY <2>1, <3>1 DEF RecordedCall
  <2> QED
    BY <2>2, <2>3 DEF OnRecord
<1>5. SavedLast'
  BY DEF TrInv, SavedLast
<1> QED
  BY <1>1, <1>2, <1>3, <1>4, <1>5

LEMMA TakingErrors ==
  ASSUME NEW i \in TrCalls, NEW o \in Outcomes, NEW c \in CallStates, NEW plan,
         NEW n, Taking(i, o, c, plan, n)
  PROVE  ErrorMeansUntouched'
<1>1. /\ TrCalls' = TrCalls /\ MoreSteps(i, o, n) /\ ErrorMeansUntouched /\ trAsked' = trAsked
      /\ trCall'[i] = c
      /\ \A j \in TrCalls : j # i => trCall'[j] = trCall[j]
      /\ Goes(i, o, c) /\ trCall[i].told = "nothing"
  BY DEF Taking, TrInv, Taken
<1>2. ASSUME NEW j \in TrCalls, j # i, trCall'[j].told = "error" /\ Changed(j)' # {}
      PROVE  \/ trOutcomes'[j][Len(trOutcomes'[j])].outcome = "lost"
             \/ Len(trOutcomes'[j]) > 1
  <2>1. Changed(j)' = Changed(j) /\ trOutcomes'[j] = trOutcomes[j] /\ trCall'[j] = trCall[j]
    <3>1. Changed(j)' = Changed(j)
      BY <1>1, <1>2, MoreTook
    <3>2. trOutcomes'[j] = trOutcomes[j]
      BY <1>1, <1>2 DEF MoreSteps
    <3> QED
      BY <1>1, <1>2, <3>1, <3>2
  <2> QED
    BY <1>1, <1>2, <2>1 DEF ErrorMeansUntouched
<1>3. ASSUME c.told = "error" /\ Changed(i)' # {}
      PROVE  \/ trOutcomes'[i][Len(trOutcomes'[i])].outcome = "lost"
             \/ Len(trOutcomes'[i]) > 1
  <2>1. o.outcome # "done"
    BY <1>1, <1>3, GoesOneWay
  <2>2. CASE n = 0
    <3>1. Changed(i) = {}
      BY <1>1, <2>2 DEF MoreSteps, Changed, Took
    <3>2. o.outcome \in {"done", "lost"}
      BY <1>1, <1>3, <3>1, MoreTook
    <3> QED
      BY <1>1, <2>1, <3>2 DEF MoreSteps
  <2>3. CASE n # 0
    BY <1>1, <2>3 DEF MoreSteps
  <2> QED
    BY <2>2, <2>3
<1> QED
  BY <1>1, <1>2, <1>3 DEF ErrorMeansUntouched

LEMMA FlagChanges ==
  ASSUME TrTyped, NEW i \in TrCalls, NEW o \in Outcomes, NEW c, Taken(i, o, c)
  PROVE  /\ trSentInRound => trSentInRound'
         /\ trSaw \subseteq trSaw'
         /\ o.step.on = "flag" /\ o.step.changes => trSentInRound'
         /\ o.step.on = "flag" /\ ~o.step.changes =>
                ~trSentInRound /\ [call |-> i, others |-> Running \ {i}] \in trSaw'
BY DEF Taken, Changes, Unchanged

LEMMA SmallCounts ==
  ASSUME NEW m \in Nat
  PROVE  /\ m = 0 \/ m = 1 \/ m > 1
         /\ m > 1 => m # 0 /\ m # 1
         /\ m + 1 = 2 => m = 1
OBVIOUS

LEMMA TakingCovers ==
  ASSUME NEW i \in TrCalls, NEW o \in Outcomes, NEW c \in CallStates, NEW plan,
         NEW n, Taking(i, o, c, plan, n)
  PROVE  FlagCovers'
<1>1. /\ TrCalls' = TrCalls /\ MoreSteps(i, o, n) /\ FlagCovers /\ trCall'[i] = c
      /\ trAsked' = trAsked
      /\ \A j \in TrCalls : j # i => trCall'[j] = trCall[j]
      /\ \A j \in TrCalls : Tool(j)' = Tool(j)
      /\ Goes(i, o, c) /\ trCall[i].told = "nothing" /\ TrTyped /\ Taken(i, o, c)
  BY DEF Taking, TrInv, Taken
<1>2. /\ Shaped(Tool(i), plan) /\ NextOnPlan(i, plan) /\ o.step = plan[n + 1]
      /\ n + 1 \in 1 .. Len(plan)
      /\ Len(plan) \in Nat /\ n = Len(trOutcomes[i]) /\ n \in Nat
  BY DEF Taking, MoreSteps
<1>3. /\ trSentInRound => trSentInRound'
      /\ trSaw \subseteq trSaw'
      /\ o.step.on = "flag" /\ o.step.changes => trSentInRound'
      /\ o.step.on = "flag" /\ ~o.step.changes =>
             ~trSentInRound /\ [call |-> i, others |-> Running \ {i}] \in trSaw'
  BY <1>1, FlagChanges
<1>4. \A j \in TrCalls : j # i => (Claimed(j) <=> Claimed(j)') /\ trOutcomes'[j] = trOutcomes[j]
  <2>1. \A j \in TrCalls : j # i => (Claimed(j) <=> Claimed(j)')
    BY <1>1, MoreTook
  <2>2. \A j \in TrCalls : j # i => trOutcomes'[j] = trOutcomes[j]
    BY <1>1 DEF MoreSteps
  <2> QED
    BY <2>1, <2>2
<1>5. ASSUME Tool(i) = "siam_send_message"
      PROVE  /\ n = 0 => o.step.on = "flag" /\ ~o.step.changes /\ o.step.onError = "ends" /\ Len(plan) >= 3
             /\ n = 1 => o.step.on = "flag" /\ o.step.changes
  <2>1. Len(plan) >= 3
    BY <1>2, <1>5 DEF Shaped
  <2>2. ASSUME n \in {0, 1}
        PROVE  plan[n + 1].on = "flag" /\ (plan[n + 1].changes <=> n = 1) /\ plan[n + 1].onError = "ends"
    <3>1. n + 1 <= 2 /\ (n + 1 = 2 <=> n = 1)
      BY <2>2
    <3> QED
      BY <1>2, <1>5, <3>1 DEF Shaped
  <2>3. o.step = plan[n + 1]
    BY <1>2
  <2>4. ASSUME n = 0 PROVE o.step.on = "flag" /\ ~o.step.changes /\ o.step.onError = "ends"
    BY <2>2, <2>3, <2>4
  <2>5. ASSUME n = 1 PROVE o.step.on = "flag" /\ o.step.changes
    BY <2>2, <2>3, <2>5
  <2> QED
    BY <2>1, <2>4, <2>5
<1>6. ASSUME Tool(i) = "siam_send_message", n = 0 PROVE c.pc = "running"
  <2>1. o.outcome = "done" /\ o.step.onError = "ends"
    BY <1>1, <1>5, <1>6 DEF Taken
  <2>2. Tail(trCall[i].left) # <<>>
    <3>1. trCall[i].left \in Seq(ToolSteps) /\ trCall[i].left # <<>> /\ Len(trCall[i].left) >= 3
      <4>1. trCall[i].left \in Seq(ToolSteps)
        BY CallKnown DEF Taking
      <4> QED
        BY <1>2, <1>5, <1>6, <4>1 DEF NextOnPlan
    <3> QED
      BY <3>1, Shortened
  <2> QED
    BY <1>1, <2>1, <2>2, GoesOneWay
<1>7. ASSUME NEW j \in TrCalls, Claimed(j)'
      PROVE  IF Len(trOutcomes'[j]) = 1 THEN trCall'[j].pc = "running" ELSE trSentInRound'
  <2>1. CASE j # i
    BY <1>1, <1>3, <1>4, <1>7, <2>1 DEF FlagCovers
  <2>2. CASE j = i
    <3>1. Tool(i) = "siam_send_message" /\ Len(trOutcomes'[i]) = n + 1
      BY <1>1, <1>7, <2>2 DEF Claimed, MoreSteps
    <3>2. CASE n = 0
      BY <1>1, <1>6, <2>2, <3>1, <3>2
    <3>3. CASE n = 1
      BY <1>2, <1>3, <1>5, <2>2, <3>1, <3>3
    <3>4. CASE n > 1
      <4>1. Claimed(i) /\ Len(trOutcomes[i]) # 1
        <5>1. (trOutcomes[i] = <<>> <=> n = 0) /\ n = Len(trOutcomes[i]) /\ n \in Nat
          BY <1>1 DEF MoreSteps
        <5>2. n > 1 => n # 0 /\ n # 1
          BY <5>1, SmallCounts
        <5> QED
          BY <3>1, <3>4, <5>1, <5>2 DEF Claimed
      <4>2. trSentInRound
        BY <1>1, <4>1 DEF FlagCovers
      <4> QED
        <5>1. trSentInRound' /\ Len(trOutcomes'[i]) # 1
          BY <1>2, <1>3, <3>1, <3>4, <4>2
        <5> QED
          BY <2>2, <5>1
    <3>5. n = 0 \/ n = 1 \/ n > 1
      BY <1>2, SmallCounts
    <3> QED
      BY <3>2, <3>3, <3>4, <3>5
  <2> QED
    BY <2>1, <2>2
<1>8. ASSUME NEW j \in TrCalls, j # i, Claimed(i)', Claimed(j)
      PROVE  Saw(i, j)' \/ Saw(j, i)'
  <2>1. CASE n = 0
    <3>1. Tool(i) = "siam_send_message"
      BY <1>1, <1>8 DEF Claimed
    <3>2. ~trSentInRound /\ [call |-> i, others |-> Running \ {i}] \in trSaw'
      BY <1>3, <1>5, <2>1, <3>1
    <3>3. j \in Running \ {i}
      BY <1>1, <1>8, <3>2 DEF FlagCovers, Running
    <3>4. Saw(i, j)'
      <4> DEFINE s == [call |-> i, others |-> Running \ {i}]
      <4>1. s \in trSaw' /\ s.call = i /\ j \in s.others
        BY <3>2, <3>3
      <4> HIDE DEF s
      <4> QED
        BY <4>1 DEF Saw
    <3> QED
      BY <3>4
  <2>2. CASE n # 0
    <3>1. Claimed(i)
      BY <1>1, <1>2, <1>8, <2>2 DEF Claimed, MoreSteps
    <3>2. Saw(i, j) \/ Saw(j, i)
      BY <1>1, <1>8, <3>1 DEF FlagCovers
    <3> QED
      BY <1>3, <3>2 DEF Saw
  <2> QED
    BY <2>1, <2>2
<1>9. ASSUME NEW j \in TrCalls, NEW k \in TrCalls, j # k, Claimed(j)', Claimed(k)'
      PROVE  Saw(j, k)' \/ Saw(k, j)'
  <2>1. CASE j = i
    BY <1>4, <1>8, <1>9, <2>1
  <2>2. CASE k = i
    BY <1>4, <1>8, <1>9, <2>2
  <2>3. CASE j # i /\ k # i
    <3>1. Saw(j, k) \/ Saw(k, j)
      BY <1>1, <1>4, <1>9, <2>3 DEF FlagCovers
    <3> QED
      BY <1>3, <3>1 DEF Saw
  <2> QED
    BY <2>1, <2>2, <2>3
<1> QED
  BY <1>1, <1>7, <1>9 DEF FlagCovers

LEMMA TakingKeepsEdits ==
  ASSUME NEW i \in TrCalls, NEW o \in Outcomes, NEW c \in CallStates, NEW plan,
         NEW n, Taking(i, o, c, plan, n)
  PROVE  EditsKnown'
<1>1. /\ TrCalls' = TrCalls /\ MoreSteps(i, o, n) /\ EditsKnown /\ trAsked' = trAsked
      /\ \A j \in TrCalls : Tool(j)' = Tool(j)
      /\ TrTyped /\ trFile \subseteq TrCalls /\ trRead \in [TrCalls -> SUBSET TrCalls]
      /\ IF o.outcome \in {"done", "lost"} THEN Changes(i, o.step) ELSE Unchanged
      /\ CallOnPlan(i) /\ trCall[i].pc = "running"
  BY DEF Taking, TrInv, Taken, TrTyped, CallsOnPlan
<1>2. /\ Shaped(Tool(i), plan) /\ OnPlan(i, plan) /\ o.step = plan[n + 1]
      /\ n + 1 \in 1 .. Len(plan)
      /\ Len(plan) \in Nat /\ n = Len(trOutcomes[i]) /\ n \in Nat /\ o.step \in ToolSteps
  BY DEF Taking, MoreSteps, NextOnPlan, Outcomes
<1>3. /\ \A j \in TrCalls : j # i => (Wrote(j) <=> Wrote(j)') /\ Took(j, {"done"})' = Took(j, {"done"})
      /\ \A j \in TrCalls : j # i => trOutcomes'[j] = trOutcomes[j]
  <2>1. \A j \in TrCalls : j # i => (Wrote(j) <=> Wrote(j)') /\ Took(j, {"done"})' = Took(j, {"done"})
    BY <1>1, MoreTook
  <2>2. \A j \in TrCalls : j # i => trOutcomes'[j] = trOutcomes[j]
    BY <1>1 DEF MoreSteps
  <2> QED
    BY <2>1, <2>2
<1>4. /\ Changed(i)' = Changed(i) \cup
             (IF o.outcome \in {"done", "lost"} /\ o.step.changes /\ o.step.on # "flag" THEN {n + 1} ELSE {})
      /\ Changed(i) \subseteq 1 .. n
      /\ Took(i, {"done"}) \subseteq Took(i, {"done"})' /\ Took(i, {"done"}) \subseteq 1 .. n
      /\ \A k \in 1 .. n : trOutcomes'[i][k] = trOutcomes[i][k]
      /\ trOutcomes'[i][n + 1] = o
  <2>1. /\ Changed(i)' = Changed(i) \cup
               (IF o.outcome \in {"done", "lost"} /\ o.step.changes /\ o.step.on # "flag" THEN {n + 1} ELSE {})
        /\ Took(i, {"done"}) \subseteq Took(i, {"done"})'
    BY <1>1, MoreTook
  <2>2. /\ Changed(i) \subseteq 1 .. n /\ Took(i, {"done"}) \subseteq 1 .. n
        /\ \A k \in 1 .. n : trOutcomes'[i][k] = trOutcomes[i][k]
        /\ trOutcomes'[i][n + 1] = o
    BY <1>1 DEF MoreSteps, Changed, Took
  <2> QED
    BY <2>1, <2>2
<1>5. Wrote(i)' <=> Wrote(i) \/ (o.outcome \in {"done", "lost"} /\ o.step.changes /\ o.step.on = "file")
  BY <1>2, <1>4 DEF Wrote
<1>6. \A j \in TrCalls : Wrote(j) => Wrote(j)'
  BY <1>3, <1>5
<1>7. ASSUME NEW j \in TrCalls, \E k \in Took(j, {"done"}) : ~trOutcomes[j][k].step.changes
      PROVE  (\E k \in Took(j, {"done"}) : ~trOutcomes[j][k].step.changes)'
  BY <1>3, <1>4, <1>7
<1>8. CASE o.step.on = "file" /\ o.step.changes /\ o.outcome \in {"done", "lost"}
  <2>1. trFile' = trRead[i] \cup {i} /\ trRead' = trRead /\ Wrote(i)'
    BY <1>1, <1>5, <1>8 DEF Changes
  <2>2. ASSUME Tool(i) # "write_file"
        PROVE  (\E k \in Took(i, {"done"}) : ~trOutcomes[i][k].step.changes)'
    <3>1. n + 1 = 2 /\ plan[1].on = "file" /\ ~plan[1].changes /\ plan[1].onError = "ends" /\ plan[1].checks
      <4>1. n + 1 = 2 /\ plan[1].on = "file" /\ ~plan[1].changes
        BY <1>2, <1>8, <2>2 DEF Shaped
      <4>2. 1 \in 1 .. Len(plan)
        BY <1>2
      <4>3. Shaped(Tool(i), plan)
        BY <1>2
      <4>4. plan[1].on = "file" => plan[1].onError = "ends" /\ plan[1].checks
        BY <4>2, <4>3 DEF Shaped
      <4> QED
        BY <4>1, <4>4
    <3>2. trOutcomes[i][1].step = plan[1] /\ Excused(trOutcomes[i][1]) /\ 1 \in DOMAIN trOutcomes[i]
      <4>1. n = 1 /\ Len(trOutcomes[i]) = 1 /\ DOMAIN trOutcomes[i] = 1 .. n
        <5>1. n = 1
          BY <1>2, <3>1, SmallCounts
        <5>2. Len(trOutcomes[i]) = n /\ DOMAIN trOutcomes[i] = 1 .. n
          BY <1>1 DEF MoreSteps
        <5> QED
          BY <5>1, <5>2
      <4>2. \A k \in 1 .. Len(trOutcomes[i]) : trOutcomes[i][k].step = plan[k]
        BY <1>2 DEF OnPlan
      <4>3. \A k \in 1 .. Len(trOutcomes[i]) : Excused(trOutcomes[i][k])
        BY <1>1 DEF CallOnPlan
      <4> QED
        BY <4>1, <4>2, <4>3
    <3>3. 1 \in Took(i, {"done"})
      BY <3>1, <3>2 DEF Took, Excused
    <3> QED
      BY <1>7, <3>1, <3>2, <3>3
  <2>3. EditsKept'
    BY <1>1, <2>1, <2>2 DEF EditsKept
  <2>4. \A j \in trFile' : Wrote(j)'
    BY <1>1, <1>6, <2>1 DEF EditsKnown
  <2>5. \A k \in TrCalls' : \A j \in trRead'[k] : Wrote(j)'
    BY <1>1, <1>6, <2>1 DEF EditsKnown
  <2> QED
    BY <2>3, <2>4, <2>5 DEF EditsKnown
<1>9. CASE ~(o.step.on = "file" /\ o.step.changes /\ o.outcome \in {"done", "lost"})
  <2>1. trFile' = trFile /\ \A j \in TrCalls : Wrote(j) <=> Wrote(j)'
    BY <1>1, <1>3, <1>5, <1>9 DEF Changes, Unchanged
  <2>2. /\ trRead' \in [TrCalls -> SUBSET TrCalls]
        /\ \A j \in TrCalls : j # i => trRead'[j] = trRead[j]
        /\ trRead'[i] = trRead[i] \/ (o.step.on = "file" /\ ~o.step.changes /\ trRead'[i] = trFile)
    BY <1>1 DEF Changes, Unchanged
  <2>3. ASSUME NEW j \in trFile PROVE trRead'[j] = trRead[j]
    <3>1. CASE j = i /\ o.step.on = "file" /\ ~o.step.changes
      <4>1. n = 0
        BY <1>2, <3>1 DEF Shaped
      <4>2. Wrote(i)
        BY <2>3, <3>1, <1>1 DEF EditsKnown
      <4> QED
        BY <1>4, <4>1, <4>2 DEF Wrote
    <3>2. CASE ~(j = i /\ o.step.on = "file" /\ ~o.step.changes)
      BY <1>1, <2>2, <3>2
    <3> QED
      BY <3>1, <3>2
  <2>4. EditsKept'
    <3>1. SUFFICES ASSUME NEW w \in TrCalls, Wrote(w), w \notin trFile
                   PROVE  \E j \in trFile : w \notin trRead'[j]
                              /\ (Tool(j) # "write_file" => (\E k \in Took(j, {"done"}) : ~trOutcomes[j][k].step.changes)')
      BY <1>1, <2>1 DEF EditsKept
    <3>2. PICK j \in trFile : w \notin trRead[j]
                   /\ (Tool(j) # "write_file" => \E k \in Took(j, {"done"}) : ~trOutcomes[j][k].step.changes)
      BY <1>1, <3>1 DEF EditsKnown, EditsKept
    <3> QED
      BY <1>1, <1>7, <2>3, <3>2
  <2>5. \A j \in trFile' : Wrote(j)'
    BY <1>1, <2>1 DEF EditsKnown
  <2>6. \A k \in TrCalls' : \A j \in trRead'[k] : Wrote(j)'
    BY <1>1, <2>1, <2>2 DEF EditsKnown
  <2> QED
    BY <2>4, <2>5, <2>6 DEF EditsKnown
<1> QED
  BY <1>8, <1>9

LEMMA TakingKeepsSoul ==
  ASSUME NEW i \in TrCalls, NEW o \in Outcomes, NEW c \in CallStates, NEW plan,
         NEW n, Taking(i, o, c, plan, n)
  PROVE  SoulKept'
<1>1. /\ TrCalls' = TrCalls /\ MoreSteps(i, o, n) /\ SoulKept /\ trAsked' = trAsked
      /\ IF o.outcome \in {"done", "lost"} THEN Changes(i, o.step) ELSE Unchanged
      /\ trSoul \in TrCalls \cup {0} /\ i # 0
  BY CallSteps DEF Taking, TrInv, Taken, TrTyped
<1>2. /\ Shaped(Tool(i), plan) /\ o.step = plan[n + 1] /\ n + 1 \in 1 .. Len(plan) /\ n \in Nat
  BY DEF Taking, MoreSteps
<1>3. \A j \in TrCalls : j # i => (Updated(j) <=> Updated(j)') /\ (Deployed(j) <=> Deployed(j)')
  BY <1>1, MoreTook
<1>4. /\ SoulSteps(i)' = SoulSteps(i) \cup (IF o.step.on = "soul" THEN {n + 1} ELSE {})
      /\ Took(i, {"done"})' = Took(i, {"done"}) \cup (IF o.outcome \in {"done"} THEN {n + 1} ELSE {})
      /\ SoulSteps(i) \subseteq 1 .. n /\ Took(i, {"done"}) \subseteq 1 .. n
      /\ \A k \in 1 .. n : trOutcomes'[i][k] = trOutcomes[i][k]
      /\ trOutcomes'[i][n + 1] = o
  <2>1. /\ SoulSteps(i)' = SoulSteps(i) \cup (IF o.step.on = "soul" THEN {n + 1} ELSE {})
        /\ Took(i, {"done"})' = Took(i, {"done"}) \cup (IF o.outcome \in {"done"} THEN {n + 1} ELSE {})
    BY <1>1, MoreTook
  <2>2. /\ SoulSteps(i) \subseteq 1 .. n /\ Took(i, {"done"}) \subseteq 1 .. n
        /\ \A k \in 1 .. n : trOutcomes'[i][k] = trOutcomes[i][k]
        /\ trOutcomes'[i][n + 1] = o
    BY <1>1 DEF MoreSteps, SoulSteps, Took
  <2> QED
    BY <2>1, <2>2
<1>5. Updated(i)' <=> Updated(i) \/ (o.step.on = "soul" /\ o.outcome = "done")
  BY <1>2, <1>4 DEF Updated
<1>6. Deployed(i)' <=> Deployed(i) \/ (o.step.on = "deployed" /\ o.outcome = "done")
  BY <1>2, <1>4 DEF Deployed
<1>7. ASSUME o.step.on = "soul" PROVE ~Deployed(i)
  <2>1. n = 0
    BY <1>2, <1>7 DEF Shaped
  <2> QED
    BY <1>4, <2>1 DEF Deployed
<1>8. CASE o.outcome \in {"done", "lost"} /\ o.step.on = "soul"
  <2>1. trSoul' = i /\ trDeployed' = trDeployed
    BY <1>1, <1>8 DEF Changes
  <2>2. ~Deployed(i)'
    BY <1>6, <1>7, <1>8
  <2> QED
    BY <1>1, <1>3, <2>1, <2>2 DEF SoulKept
<1>9. CASE o.outcome \in {"done", "lost"} /\ o.step.on = "deployed"
  <2>1. trSoul' = trSoul /\ trDeployed' = trSoul
    BY <1>1, <1>9 DEF Changes
  <2>2. \A j \in TrCalls : Updated(j)' => Updated(j)
    BY <1>3, <1>5, <1>9
  <2> QED
    BY <1>1, <2>1, <2>2 DEF SoulKept
<1>10. CASE ~(o.outcome \in {"done", "lost"} /\ o.step.on \in {"soul", "deployed"})
  <2>1. trSoul' = trSoul /\ trDeployed' = trDeployed
    BY <1>1, <1>10 DEF Changes, Unchanged
  <2>2. \A j \in TrCalls : (Updated(j)' => Updated(j)) /\ (Deployed(j)' => Deployed(j))
    BY <1>3, <1>5, <1>6, <1>10
  <2> QED
    BY <1>1, <2>1, <2>2 DEF SoulKept
<1> QED
  BY <1>8, <1>9, <1>10

LEMMA SaveKeeps ==
  ASSUME TrInv, SaveResult
  PROVE  TrInv'
<1>1. /\ TrTyped /\ \A i \in TrCalls : trCall[i].pc = "told"
      /\ UNCHANGED <<trFixed, trWorldVars, trCall, trTicket, trNoticed, trNoId, trRecords>>
      /\ trSaved' = Append(trSaved, Len(trSaved) + 1)
  BY DEF SaveResult, TrInv, trAudit
<1>2. UNCHANGED <<trAsked, trMaster, trRole, trOutcomes, trFile, trRead, trSoul, trDeployed, trSentInRound, trSaw,
                  trCall, trTicket, trNoticed, trNoId, trRecords>>
  BY <1>1 DEF trFixed, trWorldVars
<1>3. TrCalls' = TrCalls /\ \A j \in TrCalls : Tool(j)' = Tool(j)
  BY <1>2 DEF TrCalls, Tool
<1>4. TrTyped'
  <2>1. /\ trSaved \in Seq(Nat) /\ DOMAIN trSaved = 1 .. Len(trSaved) /\ Len(trSaved) \in Nat
        /\ \A k \in 1 .. Len(trSaved) : trSaved[k] = k
    BY <1>1 DEF TrTyped
  <2>2. /\ Append(trSaved, Len(trSaved) + 1) \in Seq(Nat)
        /\ Len(Append(trSaved, Len(trSaved) + 1)) = Len(trSaved) + 1
        /\ Append(trSaved, Len(trSaved) + 1)[Len(trSaved) + 1] = Len(trSaved) + 1
        /\ \A k \in 1 .. Len(trSaved) : Append(trSaved, Len(trSaved) + 1)[k] = trSaved[k]
    BY <2>1, Appended
  <2>3. DOMAIN trSaved' = 1 .. Len(trSaved) + 1 /\ trSaved' \in Seq(Nat)
    BY <1>1, <2>2
  <2>4. \A k \in DOMAIN trSaved' : trSaved'[k] = k
    <3>1. \A k \in DOMAIN trSaved' : k \in 1 .. Len(trSaved) \/ k = Len(trSaved) + 1
      BY <2>1, <2>3
    <3> QED
      BY <1>1, <2>1, <2>2, <3>1
  <2> QED
    BY <1>1, <1>2, <1>3, <2>3, <2>4 DEF TrTyped
<1>5. CallsOnPlan'
  BY <1>2, <1>3, OthersOnPlan DEF TrInv, CallsOnPlan
<1>6. AllowedToRun'
  BY <1>2, <1>3, OthersAllowed DEF TrInv, AllowedToRun
<1>7. OnRecord'
  <2>1. \A j : RecordsOf(j)' = RecordsOf(j)
    BY <1>2 DEF RecordsOf
  <2> QED
    BY <1>2, <1>3, <2>1, OthersRecorded DEF TrInv, OnRecord
<1>8. ErrorMeansUntouched' /\ FlagCovers' /\ EditsKnown' /\ SoulKept'
  <2>1. UNCHANGED <<trFixed, trOutcomes>>
    BY <1>2 DEF trFixed
  <2>2. ErrorMeansUntouched'
    BY <1>2, <1>3, <2>1, SameSteps DEF TrInv, ErrorMeansUntouched
  <2>3. FlagCovers'
    BY <1>2, <1>3, <2>1, SameSteps DEF TrInv, FlagCovers, Saw
  <2>4. EditsKnown'
    BY <1>2, <1>3, <2>1, SameSteps DEF TrInv, EditsKnown, EditsKept, TrTyped
  <2>5. SoulKept'
    BY <1>2, <1>3, <2>1, SameSteps DEF TrInv, SoulKept
  <2> QED
    BY <2>2, <2>3, <2>4, <2>5
<1>9. SavedLast'
  BY <1>1, <1>2, <1>3 DEF SavedLast
<1> QED
  BY <1>4, <1>5, <1>6, <1>7, <1>8, <1>9 DEF TrInv

LEMMA RoundsStart == TrInit => TrInv
<1> SUFFICES ASSUME TrInit PROVE TrInv
  OBVIOUS
<1>1. /\ trAsked \in TrRounds /\ trMaster \in BOOLEAN /\ trRole \in TrRoles
      /\ trCall = [i \in TrCalls |-> Pending] /\ trTicket = [i \in TrCalls |-> "none"]
      /\ trNoticed = {} /\ trNoId = {} /\ trOutcomes = [i \in TrCalls |-> <<>>] /\ trRecords = {}
      /\ trFile = {} /\ trRead = [i \in TrCalls |-> {}] /\ trSoul = 0 /\ trDeployed = 0
      /\ trSentInRound = FALSE /\ trSaw = {} /\ trSaved = <<>>
  BY DEF TrInit, TrCalls
<1>2. /\ <<>> \in Seq(ToolSteps) /\ <<>> \in Seq(Outcomes) /\ <<>> \in Seq(Nat)
      /\ DOMAIN trSaved = {}
      /\ Pending \in CallStates /\ Pending.pc = "asked" /\ Pending.told = "nothing"
  <2>1. <<>> \in Seq(ToolSteps) /\ <<>> \in Seq(Outcomes) /\ <<>> \in Seq(Nat)
    OBVIOUS
  <2>2. Pending \in CallStates /\ Pending.pc = "asked" /\ Pending.told = "nothing"
    BY <2>1, StatesMade DEF Pending, CallPlaces, Results
  <2> QED
    BY <1>1, <2>1, <2>2
<1> HIDE DEF Pending
<1>3. TrTyped
  BY <1>1, <1>2 DEF TrTyped
<1>4. \A i \in TrCalls : trCall[i] = Pending /\ trOutcomes[i] = <<>>
  BY <1>1
<1>5. CallsOnPlan
  BY <1>2, <1>4 DEF CallsOnPlan, CallOnPlan, NotBegun, Refusals
<1>6. AllowedToRun
  BY <1>2, <1>4 DEF AllowedToRun, AllowedCall
<1>7. \A i \in TrCalls : \A outcomes : Took(i, outcomes) = {} /\ Changed(i) = {} /\ SoulSteps(i) = {}
  BY <1>4 DEF Took, Changed, SoulSteps
<1>8. ErrorMeansUntouched /\ EditsKnown /\ SoulKept
  BY <1>1, <1>4, <1>7 DEF ErrorMeansUntouched, EditsKnown, EditsKept, Wrote, SoulKept, Updated,
     Deployed
<1>9. FlagCovers /\ SavedLast
  BY <1>1, <1>4 DEF FlagCovers, Claimed, SavedLast
<1>10. OnRecord
  BY <1>1, <1>2, <1>4 DEF OnRecord, RecordedCall, RecordsOf
<1> QED
  BY <1>3, <1>5, <1>6, <1>8, <1>9, <1>10 DEF TrInv

LEMMA RoundsStep == TrInv /\ [TrNext]_trVars => TrInv'
<1> SUFFICES ASSUME TrInv, [TrNext]_trVars PROVE TrInv'
  OBVIOUS
<1>1. ASSUME NEW i \in TrCalls, RequestApproval(i) \/ PollApproval(i) PROVE TrInv'
  BY <1>1, ApprovalKeeps
<1>2. ASSUME NEW i \in TrCalls, Human(i) PROVE TrInv'
  BY <1>2, HumanKeeps
<1>3. ASSUME NEW i \in TrCalls, Begin(i) PROVE TrInv'
  BY <1>3, BeginKeeps
<1>4. ASSUME NEW i \in TrCalls, Step(i) PROVE TrInv'
  <2>1. trCall[i].pc = "running" /\ TrTyped /\ CallsOnPlan
    BY <1>4 DEF Step, TrInv
  <2>2. CASE Skipped(i)
    BY <2>1, <2>2, SkippedKeeps
  <2>3. ASSUME NEW o \in Outcomes,
               NEW c \in CallStates, o.step = Head(trCall[i].left), Taken(i, o, c)
        PROVE  TrInv'
    <3>1. PICK plan : Taking(i, o, c, plan, Len(trOutcomes[i]))
      BY <2>1, <2>3, TakenIsTaking
    <3> QED
      BY <3>1, TakingKeepsCalls, TakingErrors, TakingCovers, TakingKeepsEdits,
         TakingKeepsSoul DEF TrInv
  <2> QED
    BY <1>4, <2>1, <2>2, <2>3, StepMoves
<1>5. ASSUME NEW i \in TrCalls, RejectMessage(i) PROVE TrInv'
  BY <1>5, RejectMessageKeeps
<1>6. ASSUME NEW i \in TrCalls, Returns(i) PROVE TrInv'
  BY <1>6, ReturnsKeeps
<1>7. CASE SaveResult
  BY <1>7, SaveKeeps
<1>8. CASE UNCHANGED <<trFixed, trWorldVars, trCall, trTicket, trNoticed, trNoId, trRecords, trSaved>>
  <2>1. UNCHANGED <<trAsked, trMaster, trRole, trOutcomes, trFile, trRead, trSoul, trDeployed, trSentInRound, trSaw,
                    trCall, trTicket, trNoticed, trNoId, trRecords, trSaved>>
    BY <1>8 DEF trFixed, trWorldVars
  <2>2. TrCalls' = TrCalls /\ \A j \in TrCalls : Tool(j)' = Tool(j)
    BY <2>1 DEF TrCalls, Tool
  <2>3. UNCHANGED <<trFixed, trOutcomes>>
    BY <2>1 DEF trFixed
  <2>4. TrTyped'
    BY <2>1, <2>2 DEF TrInv, TrTyped
  <2>5. CallsOnPlan'
    BY <2>1, <2>2, OthersOnPlan DEF TrInv, CallsOnPlan
  <2>6. AllowedToRun'
    BY <2>1, <2>2, OthersAllowed DEF TrInv, AllowedToRun
  <2>7. OnRecord'
    <3>1. \A j : RecordsOf(j)' = RecordsOf(j)
      BY <2>1 DEF RecordsOf
    <3> QED
      BY <2>1, <2>2, <3>1, OthersRecorded DEF TrInv, OnRecord
  <2>8. ErrorMeansUntouched'
    BY <2>1, <2>2, <2>3, SameSteps DEF TrInv, ErrorMeansUntouched
  <2>9. FlagCovers'
    BY <2>1, <2>2, <2>3, SameSteps DEF TrInv, FlagCovers, Saw
  <2>10. EditsKnown'
    BY <2>1, <2>2, <2>3, SameSteps DEF TrInv, EditsKnown, EditsKept, TrTyped
  <2>11. SoulKept'
    BY <2>1, <2>2, <2>3, SameSteps DEF TrInv, SoulKept
  <2>12. SavedLast'
    BY <2>1, <2>2 DEF TrInv, SavedLast
  <2> QED
    BY <2>4, <2>5, <2>6, <2>7, <2>8, <2>9, <2>10, <2>11, <2>12 DEF TrInv
<1>9. ASSUME NEW r \in trRecords, Arrive(r) PROVE TrInv'
  BY <1>8, <1>9 DEF Arrive
<1>10. CASE UNCHANGED trVars
  BY <1>8, <1>10 DEF trVars, trFixed, trWorldVars
<1> QED
  BY <1>1, <1>2, <1>3, <1>4, <1>5, <1>6, <1>7, <1>9, <1>10 DEF TrNext

(* Only what was sent arrives. *)
LEMMA ArrivedStep == ArrivedSent /\ [TrNext]_trVars => ArrivedSent'
<1> SUFFICES ASSUME ArrivedSent, [TrNext]_trVars PROVE ArrivedSent'
  OBVIOUS
<1>1. ASSUME NEW R, Log(R) PROVE ArrivedSent'
  BY <1>1 DEF Log, ArrivedSent
<1>2. CASE UNCHANGED trAudit
  BY <1>2 DEF trAudit, ArrivedSent
<1>3. ASSUME NEW i \in TrCalls, RequestApproval(i) \/ PollApproval(i) PROVE ArrivedSent'
  BY <1>1, <1>2, <1>3 DEF RequestApproval, PollApproval, Rejected
<1>4. ASSUME NEW i \in TrCalls, Begin(i) \/ Returns(i) PROVE ArrivedSent'
  BY <1>1, <1>2, <1>4 DEF Begin, Returns
<1>5. ASSUME NEW i \in TrCalls, Human(i) \/ Step(i) \/ RejectMessage(i) PROVE ArrivedSent'
  BY <1>2, <1>5 DEF Human, Step, RejectMessage
<1>6. CASE SaveResult
  BY <1>2, <1>6 DEF SaveResult
<1>7. ASSUME NEW r \in trRecords, Arrive(r) PROVE ArrivedSent'
  BY <1>7 DEF Arrive, ArrivedSent
<1>8. CASE UNCHANGED trVars
  BY <1>2, <1>8 DEF trVars, trAudit
<1> QED
  BY <1>3, <1>4, <1>5, <1>6, <1>7, <1>8 DEF TrNext

LEMMA RoundsAreSafe == TrInv /\ ArrivedSent => ToolRoundsSafe
<1> SUFFICES ASSUME TrInv, ArrivedSent PROVE ToolRoundsSafe
  OBVIOUS
<1>1. TrTyped /\ CallsOnPlan /\ AllowedToRun /\ ErrorMeansUntouched /\ FlagCovers /\ EditsKept /\ SoulKept
      /\ OnRecord /\ SavedLast
  BY DEF TrInv, EditsKnown
<1>2. \A i \in TrCalls : trCall[i].pc \in CallPlaces /\ trCall[i].told \in Results
          /\ trTicket[i] \in {"none", "pending", "approved", "rejected"}
  BY <1>1, CallSteps, StateFields
<1>3. TrTypeOK
  BY <1>1, <1>2 DEF TrTyped, TrTypeOK, CallPlaces, Results
<1>4. RiskyWasAllowed
  BY <1>1 DEF AllowedToRun, AllowedCall, Approved, IsRisky, RiskyWasAllowed
<1>5. \A i \in TrCalls : DOMAIN trOutcomes[i] = 1 .. Len(trOutcomes[i])
  BY <1>1, CallSteps
<1>6. SuccessMeansDone
  BY <1>1, <1>5 DEF CallsOnPlan, CallOnPlan, Excused, SuccessMeansDone
<1>7. OneBubble
  <2>1. \A i \in TrCalls : Sent(i) => Claimed(i)
    BY DEF Sent, Claimed, Changed, Took
  <2> QED
    BY <1>1, <2>1 DEF FlagCovers, Saw, OneBubble
<1>8. NewSoulDeployed
  <2> SUFFICES ASSUME NEW i \in TrCalls, trCall[i].told = "ok", SoulSteps(i) # {}, ~Refused(i), Deployed(i)
               PROVE  trDeployed # 0
    BY DEF NewSoulDeployed, Deployed
  <2>1. PICK k \in SoulSteps(i) : trOutcomes[i][k].outcome # "refused"
    BY DEF Refused
  <2>2. k \in 1 .. Len(trOutcomes[i]) /\ trOutcomes[i][k].step.on = "soul" /\ trOutcomes[i] # <<>>
    BY <1>5, <2>1 DEF SoulSteps
  <2>3. Excused(trOutcomes[i][k])
    BY <1>1, <2>2 DEF CallsOnPlan, CallOnPlan
  <2>4. trOutcomes[i][k].step.onError = "ends"
    <3>1. PICK plan \in Actions[Tool(i)] : OnPlan(i, plan)
      BY <1>1, <2>2 DEF CallsOnPlan, CallOnPlan
    <3>2. Shaped(Tool(i), plan) /\ Len(trOutcomes[i]) \in Nat
      BY <1>1, <3>1, CallSteps, PlanShapes
    <3>3. trOutcomes[i][k].step = plan[k] /\ k \in 1 .. Len(plan)
      BY <2>2, <3>1, <3>2 DEF OnPlan, Shaped
    <3> QED
      BY <2>2, <3>2, <3>3 DEF Shaped
  <2>5. Updated(i)
    BY <2>1, <2>3, <2>4 DEF Updated, Excused
  <2> QED
    BY <1>1, <2>5 DEF SoulKept
<1>9. Audited
  BY <1>1 DEF OnRecord, RecordedCall, RecordedAs, Audited, ArrivedSent
<1>10. ResultsTogether
  <2>1. \A i \in TrCalls : trCall[i].pc = "told" => trCall[i].told # "nothing"
    BY <1>1 DEF CallsOnPlan, CallOnPlan, NotBegun
  <2> QED
    BY <1>1, <2>1 DEF SavedLast, ResultsTogether
<1> QED
  BY <1>1, <1>3, <1>4, <1>6, <1>7, <1>8, <1>9, <1>10 DEF ToolRoundsSafe

(* Whatever tools a round asks for, in whatever order their calls take their steps:   *)
(* a risky tool runs only when it was allowed or the model named it loosely, what a   *)
(* call says is what it did but for what it does not check, edits and the soul are    *)
(* kept, one bubble is sent, and each call that ran is reported, whatever arrives of  *)
(* the reports (loop.go, registry.go, audit.go, pkg/tools).                           *)
THEOREM ToolsActAsTheyMay == TrSpec => []ToolRoundsSafe
<1>1. TrInit => TrInv /\ ArrivedSent
  BY RoundsStart DEF TrInit, ArrivedSent
<1>2. TrInv /\ ArrivedSent /\ [TrNext]_trVars => TrInv' /\ ArrivedSent'
  BY RoundsStep, ArrivedStep
<1>3. TrInv /\ ArrivedSent => ToolRoundsSafe
  BY RoundsAreSafe
<1> QED
  BY <1>1, <1>2, <1>3, PTL DEF TrSpec
===========================================================================
