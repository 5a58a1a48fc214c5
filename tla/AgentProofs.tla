---------------------------- MODULE AgentProofs ----------------------------
(***************************************************************************)
(* Theorems about AgentRounds, for any messages, deliveries and expiries,  *)
(* about Subagents, for any number of tasks and any size of the queue, and *)
(* about Missions, for any missions, messages, failures and restarts.      *)
(***************************************************************************)
EXTENDS AgentRounds, Subagents, Missions, FiniteSetTheorems, TLAPS

AgState == [pc : {"idle", "lock", "work", "tools", "unlock", "respond"},
            kind : AgKinds \cup {"cron", "duplicate", "none"},
            id : AgIds \cup {"none"},
            locked : BOOLEAN, told : BOOLEAN, crossed : BOOLEAN]
AgCounts == [deliveries : Nat, cron : Nat, expiries : Nat]

RoundsTyped ==
    /\ agRound \in [AgGoroutines -> AgState]
    /\ agRound["loop"].pc # "idle" => agRound["loop"].id \in AgIds
    /\ agProcessed \subseteq AgIds
    /\ agBusy \in [held : BOOLEAN, stale : BOOLEAN]
    /\ agSent \in BOOLEAN
    /\ agCount \in AgCounts
    /\ agStarted \in [AgIds -> Nat]
    /\ agOutcome \in {"none", "dropped", "suppressed", "published"}

(* The lock is inside its round, and while none has expired the two agree. *)
LockInRound ==
    /\ \A g \in AgGoroutines : agRound[g].locked => agRound[g].pc \in {"work", "tools", "unlock"}
    /\ LockHasRound
    /\ agBusy.stale => agCount.expiries > 0
    /\ agCount.expiries = 0 =>
          /\ \A g \in AgGoroutines : agRound[g].locked => agBusy.held
          /\ LockedRoundsApart

(* A round to come is counted like one that has begun.                     *)
Owed(id) == IF agRound["loop"].id = id /\ agRound["loop"].pc \in {"lock", "work"} THEN 1 ELSE 0
Known(id) == IF id \in agProcessed THEN 1 ELSE 0

RoundsCounted ==
    /\ agCount.deliveries <= AgDeliveries
    /\ \A id \in AgIds : agStarted[id] + Owed(id) <= agCount.deliveries
    /\ \A id \in AgIds \ MissionIds : agStarted[id] + Owed(id) <= agCount.expiries + Known(id)

(* While nobody has crossed a chat's round, the flag says what its tool    *)
(* has told.                                                               *)
FlagIsOwn ==
    LET r == agRound["loop"] IN
    /\ r.kind = "chat" /\ r.pc # "idle" /\ ~r.crossed => agSent = r.told
    /\ OneAnswer

RInv == RoundsTyped /\ LockInRound /\ RoundsCounted /\ FlagIsOwn

LEMMA InboxIds ==
  ASSUME NEW m \in AgInbox
  PROVE  m.id \in AgIds /\ m.kind \in AgKinds /\ (m.kind = "mission" => m.id \in MissionIds)
  BY AgAssumption DEF AgIds, MissionIds

(* What a round's record goes through.                                     *)
LEMMA RoundFields ==
  ASSUME NEW r \in AgState
  PROVE  /\ \A pc \in {"idle", "lock", "work", "tools", "unlock", "respond"} :
                /\ [r EXCEPT !.pc = pc] \in AgState
                /\ \A b \in BOOLEAN : [r EXCEPT !.pc = pc, !.locked = b] \in AgState
         /\ \A b \in BOOLEAN : [r EXCEPT !.told = b] \in AgState /\ [r EXCEPT !.crossed = b] \in AgState
         /\ r.crossed \in BOOLEAN
  BY DEF AgState

LEMMA FreshRound ==
  /\ AgIdle \in AgState
  /\ \A pc \in {"idle", "lock", "work", "tools", "unlock", "respond"},
        kind \in AgKinds \cup {"cron", "duplicate", "none"} :
        /\ [AgIdle EXCEPT !.pc = pc, !.kind = kind] \in AgState
        /\ \A id \in AgIds : [AgIdle EXCEPT !.pc = pc, !.kind = kind, !.id = id] \in AgState
  BY DEF AgState, AgIdle

LEMMA Counters ==
  ASSUME NEW c \in AgCounts
  PROVE  /\ [c EXCEPT !.deliveries = @ + 1] \in AgCounts
         /\ [c EXCEPT !.cron = @ + 1] \in AgCounts
         /\ [c EXCEPT !.expiries = @ + 1] \in AgCounts
  BY DEF AgCounts

(* The loop begins with a message: a duplicate gets no round of the model, *)
(* another is known from now on.                                           *)
LEMMA DeliveryTyped ==
  ASSUME RoundsTyped, NEW kind \in AgKinds \cup {"duplicate"}, NEW id \in AgIds,
         NEW pc \in {"idle", "work", "respond"}, AgDeliver(kind, id, pc)
  PROVE  /\ agRound' \in [AgGoroutines -> AgState] /\ agCount' \in AgCounts
         /\ agRound'["loop"].pc = pc /\ agRound'["loop"].id = id
  BY FreshRound, Counters DEF AgDeliver, RoundsTyped, AgGoroutines, AgIdle

LEMMA DeliveryCounted ==
  ASSUME RoundsTyped, RoundsCounted, NEW m \in AgInbox,
         agRound["loop"].pc = "idle", agCount.deliveries < AgDeliveries,
         agCount' = [agCount EXCEPT !.deliveries = @ + 1], UNCHANGED agStarted,
         agRound'["loop"].id = m.id,
         \/ /\ m.id \notin agProcessed \/ m.kind = "mission"
            /\ agProcessed' = agProcessed \cup {m.id}
         \/ agRound'["loop"].pc = "respond" /\ UNCHANGED agProcessed
  PROVE  RoundsCounted'
<1>1. /\ agCount.deliveries \in Nat /\ agCount.expiries \in Nat
      /\ agCount'.deliveries = agCount.deliveries + 1 /\ agCount'.expiries = agCount.expiries
      /\ \A id \in AgIds : agStarted[id] \in Nat
  BY DEF RoundsTyped, AgCounts
<1>2. \A id : Owed(id) = 0 /\ Owed(id)' \in {0, 1} /\ (id # m.id => Owed(id)' = 0)
  BY DEF Owed
<1>3. \A id \in AgIds \ MissionIds : /\ Known(id) \in {0, 1} /\ Known(id)' \in {0, 1}
                                     /\ Known(id) + Owed(id)' <= Known(id)'
  BY <1>2, InboxIds DEF Known, Owed
<1>4. agCount'.deliveries <= AgDeliveries
  BY <1>1, AgAssumption DEF RoundsCounted
<1>5. \A id \in AgIds : agStarted[id] + Owed(id)' <= agCount'.deliveries
  BY <1>1, <1>2 DEF RoundsCounted
<1>6. \A id \in AgIds \ MissionIds : agStarted[id] + Owed(id)' <= agCount'.expiries + Known(id)'
  BY <1>1, <1>2, <1>3 DEF RoundsCounted
<1> QED
  BY <1>4, <1>5, <1>6 DEF RoundsCounted

LEMMA RoundsInvariant == AgSpec => []RInv
<1>1. AgInit => RInv
  <2> SUFFICES ASSUME AgInit PROVE RInv
    OBVIOUS
  <2> USE AgAssumption DEF AgInit, AgIdle, AgFree, AgGoroutines
  <2>1. RoundsTyped
    BY DEF RoundsTyped, AgState, AgCounts
  <2>2. LockInRound
    BY DEF LockInRound, LockHasRound, LockedRoundsApart
  <2>3. RoundsCounted
    BY DEF RoundsCounted, Owed, Known
  <2>4. FlagIsOwn
    BY DEF FlagIsOwn, OneAnswer
  <2> QED
    BY <2>1, <2>2, <2>3, <2>4 DEF RInv
<1>2. RInv /\ [AgNext]_agVars => RInv'
  <2> SUFFICES ASSUME RInv, [AgNext]_agVars PROVE RInv'
    OBVIOUS
  <2> USE DEF AgGoroutines, AgAt
  <2>0. RoundsTyped /\ LockInRound /\ RoundsCounted /\ FlagIsOwn
    BY DEF RInv
  <2>1. ASSUME NEW m \in AgInbox, SkipDuplicate(m) PROVE RInv'
    <3>1. RoundsTyped'
      BY <2>0, <2>1, InboxIds, DeliveryTyped DEF SkipDuplicate, RoundsTyped
    <3>2. LockInRound'
      BY <2>0, <2>1
         DEF SkipDuplicate, AgDeliver, RoundsTyped, AgState, AgCounts, AgIdle,
             LockInRound, LockHasRound, LockedRoundsApart
    <3>3. RoundsCounted'
      BY <2>0, <2>1, DeliveryCounted DEF SkipDuplicate, AgDeliver, RoundsTyped, AgIdle
    <3>4. FlagIsOwn'
      BY <2>0, <2>1
         DEF SkipDuplicate, AgDeliver, RoundsTyped, AgState, AgIdle, FlagIsOwn, OneAnswer
    <3> QED
      BY <3>1, <3>2, <3>3, <3>4 DEF RInv
  <2>2. ASSUME NEW m \in AgInbox, NEW pc \in {"idle", "work", "respond"}, m.kind # "chat",
                    Accept(m, pc), UNCHANGED agSent PROVE RInv'
    <3>1. RoundsTyped'
      BY <2>0, <2>2, InboxIds, DeliveryTyped DEF Accept, RoundsTyped
    <3>2. LockInRound'
      BY <2>0, <2>2
         DEF Accept, AgDeliver, RoundsTyped, AgState, AgCounts, AgIdle, LockInRound,
             LockHasRound, LockedRoundsApart
    <3>3. RoundsCounted'
      BY <2>0, <2>2, DeliveryCounted DEF Accept, AgDeliver, RoundsTyped, AgIdle
    <3>4. FlagIsOwn'
      BY <2>0, <2>2 DEF Accept, AgDeliver, RoundsTyped, AgState, AgIdle, FlagIsOwn, OneAnswer
    <3> QED
      BY <3>1, <3>2, <3>3, <3>4 DEF RInv
  <2>3. ASSUME NEW m \in AgInbox, StartChat(m) PROVE RInv'
    <3>1. RoundsTyped'
      <4>1. agRound' \in [AgGoroutines -> AgState]
        BY <2>0, <2>3, RoundFields, FreshRound, InboxIds DEF StartChat, AgCrossed, RoundsTyped
      <4>2. agRound'["loop"].pc # "idle" => agRound'["loop"].id \in AgIds
        BY <2>0, <2>3, InboxIds DEF StartChat, AgCrossed, RoundsTyped, AgState, AgIdle
      <4>3. agBusy' \in [held : BOOLEAN, stale : BOOLEAN]
        BY <2>0, <2>3 DEF StartChat, AgCrossed, RoundsTyped
      <4>4. /\ agProcessed' \subseteq AgIds /\ agSent' \in BOOLEAN /\ agCount' \in AgCounts
            /\ agOutcome' \in {"none", "dropped", "suppressed", "published"}
        BY <2>0, <2>3, InboxIds, Counters DEF StartChat, AgCrossed, RoundsTyped
      <4>5. agStarted' \in [AgIds -> Nat]
        BY <2>0, <2>3 DEF StartChat, AgCrossed, RoundsTyped
      <4> QED
        BY <4>1, <4>2, <4>3, <4>4, <4>5 DEF RoundsTyped
    <3>2. LockInRound'
      BY <2>0, <2>3
         DEF StartChat, AgCrossed, RoundsTyped, AgState, AgCounts, AgIdle, LockInRound,
             LockHasRound, LockedRoundsApart
    <3>3. RoundsCounted'
      <4>1. agRound'["loop"].id = m.id
        BY <2>0, <2>3 DEF StartChat, AgCrossed, RoundsTyped, AgIdle
      <4> QED
        BY <2>0, <2>3, <4>1, DeliveryCounted DEF StartChat
    <3>4. FlagIsOwn'
      BY <2>0, <2>3 DEF StartChat, AgCrossed, RoundsTyped, AgState, AgIdle, FlagIsOwn, OneAnswer
    <3> QED
      BY <3>1, <3>2, <3>3, <3>4 DEF RInv
  <2>4. ASSUME StartCron PROVE RInv'
    <3>1. RoundsTyped'
      <4>1. agRound' \in [AgGoroutines -> AgState]
        BY <2>0, <2>4, RoundFields, FreshRound, InboxIds DEF StartCron, AgCrossed, RoundsTyped
      <4>2. agRound'["loop"].pc # "idle" => agRound'["loop"].id \in AgIds
        BY <2>0, <2>4, InboxIds DEF StartCron, AgCrossed, RoundsTyped, AgState, AgIdle
      <4>3. agBusy' \in [held : BOOLEAN, stale : BOOLEAN]
        BY <2>0, <2>4 DEF StartCron, AgCrossed, RoundsTyped
      <4>4. /\ agProcessed' \subseteq AgIds /\ agSent' \in BOOLEAN /\ agCount' \in AgCounts
            /\ agOutcome' \in {"none", "dropped", "suppressed", "published"}
        BY <2>0, <2>4, InboxIds, Counters DEF StartCron, AgCrossed, RoundsTyped
      <4>5. agStarted' \in [AgIds -> Nat]
        BY <2>0, <2>4 DEF StartCron, AgCrossed, RoundsTyped
      <4> QED
        BY <4>1, <4>2, <4>3, <4>4, <4>5 DEF RoundsTyped
    <3>2. LockInRound'
      BY <2>0, <2>4
         DEF StartCron, AgCrossed, RoundsTyped, AgState, AgCounts, AgIdle, LockInRound,
             LockHasRound, LockedRoundsApart
    <3>3. RoundsCounted'
      BY <2>0, <2>4
         DEF StartCron, AgCrossed, RoundsTyped, AgState, AgCounts, AgIdle, RoundsCounted,
             Owed, Known
    <3>4. FlagIsOwn'
      BY <2>0, <2>4 DEF StartCron, AgCrossed, RoundsTyped, AgState, AgIdle, FlagIsOwn, OneAnswer
    <3> QED
      BY <3>1, <3>2, <3>3, <3>4 DEF RInv
  <2>5. ASSUME NEW g \in AgGoroutines, TakeLock(g) PROVE RInv'
    <3>1. RoundsTyped'
      <4>1. agRound' \in [AgGoroutines -> AgState]
        BY <2>0, <2>5, RoundFields, FreshRound, InboxIds DEF TakeLock, AgEnter, RoundsTyped
      <4>2. agRound'["loop"].pc # "idle" => agRound'["loop"].id \in AgIds
        BY <2>0, <2>5, InboxIds DEF TakeLock, AgEnter, RoundsTyped, AgState
      <4>3. agBusy' \in [held : BOOLEAN, stale : BOOLEAN]
        BY <2>0, <2>5 DEF TakeLock, AgEnter, RoundsTyped
      <4>4. /\ agProcessed' \subseteq AgIds /\ agSent' \in BOOLEAN /\ agCount' \in AgCounts
            /\ agOutcome' \in {"none", "dropped", "suppressed", "published"}
        BY <2>0, <2>5, InboxIds, Counters DEF TakeLock, AgEnter, RoundsTyped
      <4>5. agStarted' \in [AgIds -> Nat]
        BY <2>0, <2>5 DEF TakeLock, AgEnter, RoundsTyped
      <4> QED
        BY <4>1, <4>2, <4>3, <4>4, <4>5 DEF RoundsTyped
    <3>2. LockInRound'
      BY <2>0, <2>5
         DEF TakeLock, AgEnter, RoundsTyped, AgState, AgCounts, LockInRound, LockHasRound,
             LockedRoundsApart
    <3>3. RoundsCounted'
      BY <2>0, <2>5
         DEF TakeLock, AgEnter, RoundsTyped, AgState, AgCounts, RoundsCounted, Owed, Known
    <3>4. FlagIsOwn'
      BY <2>0, <2>5 DEF TakeLock, AgEnter, RoundsTyped, AgState, FlagIsOwn, OneAnswer
    <3> QED
      BY <3>1, <3>2, <3>3, <3>4 DEF RInv
  <2>6. ASSUME NEW g \in AgGoroutines, EvictLock(g) PROVE RInv'
    <3>1. RoundsTyped'
      <4>1. agRound' \in [AgGoroutines -> AgState]
        BY <2>0, <2>6, RoundFields, FreshRound, InboxIds DEF EvictLock, AgEnter, RoundsTyped
      <4>2. agRound'["loop"].pc # "idle" => agRound'["loop"].id \in AgIds
        BY <2>0, <2>6, InboxIds DEF EvictLock, AgEnter, RoundsTyped, AgState
      <4>3. agBusy' \in [held : BOOLEAN, stale : BOOLEAN]
        BY <2>0, <2>6 DEF EvictLock, AgEnter, RoundsTyped
      <4>4. /\ agProcessed' \subseteq AgIds /\ agSent' \in BOOLEAN /\ agCount' \in AgCounts
            /\ agOutcome' \in {"none", "dropped", "suppressed", "published"}
        BY <2>0, <2>6, InboxIds, Counters DEF EvictLock, AgEnter, RoundsTyped
      <4>5. agStarted' \in [AgIds -> Nat]
        BY <2>0, <2>6 DEF EvictLock, AgEnter, RoundsTyped
      <4> QED
        BY <4>1, <4>2, <4>3, <4>4, <4>5 DEF RoundsTyped
    <3>2. LockInRound'
      BY <2>0, <2>6
         DEF EvictLock, AgEnter, RoundsTyped, AgState, AgCounts, LockInRound,
             LockHasRound, LockedRoundsApart
    <3>3. RoundsCounted'
      BY <2>0, <2>6
         DEF EvictLock, AgEnter, RoundsTyped, AgState, AgCounts, RoundsCounted, Owed,
             Known
    <3>4. FlagIsOwn'
      BY <2>0, <2>6 DEF EvictLock, AgEnter, RoundsTyped, AgState, FlagIsOwn, OneAnswer
    <3> QED
      BY <3>1, <3>2, <3>3, <3>4 DEF RInv
  <2>7. ASSUME NEW g \in AgGoroutines, RefuseConcurrent(g) PROVE RInv'
    <3>1. RoundsTyped'
      <4>1. agRound' \in [AgGoroutines -> AgState]
        BY <2>0, <2>7, RoundFields, FreshRound, InboxIds DEF RefuseConcurrent, AgGo, RoundsTyped
      <4>2. agRound'["loop"].pc # "idle" => agRound'["loop"].id \in AgIds
        BY <2>0, <2>7, InboxIds DEF RefuseConcurrent, AgGo, RoundsTyped, AgState
      <4>3. agBusy' \in [held : BOOLEAN, stale : BOOLEAN]
        BY <2>0, <2>7 DEF RefuseConcurrent, AgGo, RoundsTyped
      <4>4. /\ agProcessed' \subseteq AgIds /\ agSent' \in BOOLEAN /\ agCount' \in AgCounts
            /\ agOutcome' \in {"none", "dropped", "suppressed", "published"}
        BY <2>0, <2>7, InboxIds, Counters DEF RefuseConcurrent, AgGo, RoundsTyped
      <4>5. agStarted' \in [AgIds -> Nat]
        BY <2>0, <2>7 DEF RefuseConcurrent, AgGo, RoundsTyped
      <4> QED
        BY <4>1, <4>2, <4>3, <4>4, <4>5 DEF RoundsTyped
    <3>2. LockInRound'
      BY <2>0, <2>7
         DEF RefuseConcurrent, AgGo, RoundsTyped, AgState, AgCounts, LockInRound,
             LockHasRound, LockedRoundsApart
    <3>3. RoundsCounted'
      BY <2>0, <2>7
         DEF RefuseConcurrent, AgGo, RoundsTyped, AgState, AgCounts, RoundsCounted, Owed,
             Known
    <3>4. FlagIsOwn'
      BY <2>0, <2>7 DEF RefuseConcurrent, AgGo, RoundsTyped, AgState, FlagIsOwn, OneAnswer
    <3> QED
      BY <3>1, <3>2, <3>3, <3>4 DEF RInv
  <2>8. ASSUME NEW g \in AgGoroutines, Think(g) PROVE RInv'
    <3>1. RoundsTyped'
      <4>1. agRound' \in [AgGoroutines -> AgState]
        BY <2>0, <2>8, RoundFields, FreshRound, InboxIds DEF Think, AgGo, RoundsTyped
      <4>2. agRound'["loop"].pc # "idle" => agRound'["loop"].id \in AgIds
        BY <2>0, <2>8, InboxIds DEF Think, AgGo, RoundsTyped, AgState
      <4>3. agBusy' \in [held : BOOLEAN, stale : BOOLEAN]
        BY <2>0, <2>8 DEF Think, AgGo, RoundsTyped
      <4>4. /\ agProcessed' \subseteq AgIds /\ agSent' \in BOOLEAN /\ agCount' \in AgCounts
            /\ agOutcome' \in {"none", "dropped", "suppressed", "published"}
        BY <2>0, <2>8, InboxIds, Counters DEF Think, AgGo, RoundsTyped
      <4>5. agStarted' \in [AgIds -> Nat]
        BY <2>0, <2>8 DEF Think, AgGo, RoundsTyped
      <4> QED
        BY <4>1, <4>2, <4>3, <4>4, <4>5 DEF RoundsTyped
    <3>2. LockInRound'
      BY <2>0, <2>8
         DEF Think, AgGo, RoundsTyped, AgState, AgCounts, LockInRound, LockHasRound,
             LockedRoundsApart
    <3>3. RoundsCounted'
      BY <2>0, <2>8 DEF Think, AgGo, RoundsTyped, AgState, AgCounts, RoundsCounted, Owed, Known
    <3>4. FlagIsOwn'
      BY <2>0, <2>8 DEF Think, AgGo, RoundsTyped, AgState, FlagIsOwn, OneAnswer
    <3> QED
      BY <3>1, <3>2, <3>3, <3>4 DEF RInv
  <2>9. ASSUME NEW g \in AgGoroutines, RefuseOverBudget(g) PROVE RInv'
    <3>1. RoundsTyped'
      <4>1. agRound' \in [AgGoroutines -> AgState]
        BY <2>0, <2>9, RoundFields, FreshRound, InboxIds DEF RefuseOverBudget, AgGo, RoundsTyped
      <4>2. agRound'["loop"].pc # "idle" => agRound'["loop"].id \in AgIds
        BY <2>0, <2>9, InboxIds DEF RefuseOverBudget, AgGo, RoundsTyped, AgState
      <4>3. agBusy' \in [held : BOOLEAN, stale : BOOLEAN]
        BY <2>0, <2>9 DEF RefuseOverBudget, AgGo, RoundsTyped
      <4>4. /\ agProcessed' \subseteq AgIds /\ agSent' \in BOOLEAN /\ agCount' \in AgCounts
            /\ agOutcome' \in {"none", "dropped", "suppressed", "published"}
        BY <2>0, <2>9, InboxIds, Counters DEF RefuseOverBudget, AgGo, RoundsTyped
      <4>5. agStarted' \in [AgIds -> Nat]
        BY <2>0, <2>9 DEF RefuseOverBudget, AgGo, RoundsTyped
      <4> QED
        BY <4>1, <4>2, <4>3, <4>4, <4>5 DEF RoundsTyped
    <3>2. LockInRound'
      BY <2>0, <2>9
         DEF RefuseOverBudget, AgGo, RoundsTyped, AgState, AgCounts, LockInRound,
             LockHasRound, LockedRoundsApart
    <3>3. RoundsCounted'
      BY <2>0, <2>9
         DEF RefuseOverBudget, AgGo, RoundsTyped, AgState, AgCounts, RoundsCounted, Owed,
             Known
    <3>4. FlagIsOwn'
      BY <2>0, <2>9 DEF RefuseOverBudget, AgGo, RoundsTyped, AgState, FlagIsOwn, OneAnswer
    <3> QED
      BY <3>1, <3>2, <3>3, <3>4 DEF RInv
  <2>10. ASSUME NEW g \in AgGoroutines, FinishRound(g) PROVE RInv'
    <3>1. RoundsTyped'
      <4>1. agRound' \in [AgGoroutines -> AgState]
        BY <2>0, <2>10, RoundFields, FreshRound, InboxIds DEF FinishRound, AgGo, RoundsTyped
      <4>2. agRound'["loop"].pc # "idle" => agRound'["loop"].id \in AgIds
        BY <2>0, <2>10, InboxIds DEF FinishRound, AgGo, RoundsTyped, AgState
      <4>3. agBusy' \in [held : BOOLEAN, stale : BOOLEAN]
        BY <2>0, <2>10 DEF FinishRound, AgGo, RoundsTyped
      <4>4. /\ agProcessed' \subseteq AgIds /\ agSent' \in BOOLEAN /\ agCount' \in AgCounts
            /\ agOutcome' \in {"none", "dropped", "suppressed", "published"}
        BY <2>0, <2>10, InboxIds, Counters DEF FinishRound, AgGo, RoundsTyped
      <4>5. agStarted' \in [AgIds -> Nat]
        BY <2>0, <2>10 DEF FinishRound, AgGo, RoundsTyped
      <4> QED
        BY <4>1, <4>2, <4>3, <4>4, <4>5 DEF RoundsTyped
    <3>2. LockInRound'
      BY <2>0, <2>10
         DEF FinishRound, AgGo, RoundsTyped, AgState, AgCounts, LockInRound, LockHasRound,
             LockedRoundsApart
    <3>3. RoundsCounted'
      BY <2>0, <2>10
         DEF FinishRound, AgGo, RoundsTyped, AgState, AgCounts, RoundsCounted, Owed, Known
    <3>4. FlagIsOwn'
      BY <2>0, <2>10 DEF FinishRound, AgGo, RoundsTyped, AgState, FlagIsOwn, OneAnswer
    <3> QED
      BY <3>1, <3>2, <3>3, <3>4 DEF RInv
  <2>11. ASSUME NEW g \in AgGoroutines, Unlock(g) PROVE RInv'
    <3>1. RoundsTyped'
      <4>1. agRound' \in [AgGoroutines -> AgState]
        BY <2>0, <2>11, RoundFields, FreshRound, InboxIds DEF Unlock, RoundsTyped
      <4>2. agRound'["loop"].pc # "idle" => agRound'["loop"].id \in AgIds
        BY <2>0, <2>11, InboxIds DEF Unlock, RoundsTyped, AgState
      <4>3. agBusy' \in [held : BOOLEAN, stale : BOOLEAN]
        BY <2>0, <2>11 DEF Unlock, RoundsTyped, AgFree
      <4>4. /\ agProcessed' \subseteq AgIds /\ agSent' \in BOOLEAN /\ agCount' \in AgCounts
            /\ agOutcome' \in {"none", "dropped", "suppressed", "published"}
        BY <2>0, <2>11, InboxIds, Counters DEF Unlock, RoundsTyped
      <4>5. agStarted' \in [AgIds -> Nat]
        BY <2>0, <2>11 DEF Unlock, RoundsTyped
      <4> QED
        BY <4>1, <4>2, <4>3, <4>4, <4>5 DEF RoundsTyped
    <3>2. LockInRound'
      BY <2>0, <2>11
         DEF Unlock, RoundsTyped, AgState, AgCounts, AgFree, LockInRound, LockHasRound,
             LockedRoundsApart
    <3>3. RoundsCounted'
      BY <2>0, <2>11 DEF Unlock, RoundsTyped, AgState, AgCounts, RoundsCounted, Owed, Known
    <3>4. FlagIsOwn'
      BY <2>0, <2>11 DEF Unlock, RoundsTyped, AgState, FlagIsOwn, OneAnswer
    <3> QED
      BY <3>1, <3>2, <3>3, <3>4 DEF RInv
  <2>12. ASSUME NEW g \in AgGoroutines, Respond(g) PROVE RInv'
    <3>1. RoundsTyped'
      <4>1. agRound' \in [AgGoroutines -> AgState]
        BY <2>0, <2>12, RoundFields, FreshRound, InboxIds DEF Respond, AgGo, RoundsTyped
      <4>2. agRound'["loop"].pc # "idle" => agRound'["loop"].id \in AgIds
        BY <2>0, <2>12, InboxIds DEF Respond, AgGo, RoundsTyped, AgState
      <4>3. agBusy' \in [held : BOOLEAN, stale : BOOLEAN]
        BY <2>0, <2>12 DEF Respond, AgGo, RoundsTyped
      <4>4. /\ agProcessed' \subseteq AgIds /\ agSent' \in BOOLEAN /\ agCount' \in AgCounts
            /\ agOutcome' \in {"none", "dropped", "suppressed", "published"}
        BY <2>0, <2>12, InboxIds, Counters DEF Respond, AgGo, RoundsTyped
      <4>5. agStarted' \in [AgIds -> Nat]
        BY <2>0, <2>12 DEF Respond, AgGo, RoundsTyped
      <4> QED
        BY <4>1, <4>2, <4>3, <4>4, <4>5 DEF RoundsTyped
    <3>2. LockInRound'
      BY <2>0, <2>12
         DEF Respond, AgGo, RoundsTyped, AgState, AgCounts, LockInRound, LockHasRound,
             LockedRoundsApart
    <3>3. RoundsCounted'
      BY <2>0, <2>12
         DEF Respond, AgGo, RoundsTyped, AgState, AgCounts, RoundsCounted, Owed, Known
    <3>4. FlagIsOwn'
      <4> DEFINE r == agRound["loop"]
      <4>1. r \in AgState /\ agSent' = agSent
        BY <2>0, <2>12 DEF Respond, RoundsTyped
      <4>2. CASE g = "cron"
        <5>1. agOutcome' = agOutcome /\ agRound'["loop"] = r
          BY <2>0, <2>12, <4>2 DEF Respond, AgGo, RoundsTyped
        <5> QED
          BY <2>0, <4>1, <5>1 DEF FlagIsOwn, OneAnswer
      <4>3. CASE g = "loop"
        <5>1. /\ r.pc = "respond" /\ agRound'["loop"] = [r EXCEPT !.pc = "idle"]
              /\ r.kind = "chat" => agOutcome' = IF agSent THEN "suppressed" ELSE "published"
          BY <2>0, <2>12, <4>3 DEF Respond, AgGo, RoundsTyped
        <5>2. /\ agRound'["loop"].pc = "idle" /\ agRound'["loop"].kind = r.kind
              /\ agRound'["loop"].told = r.told /\ agRound'["loop"].crossed = r.crossed
          BY <4>1, <5>1 DEF AgState
        <5>3. r.kind = "chat" /\ ~r.crossed => agSent = r.told
          BY <2>0, <5>1 DEF FlagIsOwn
        <5>4. r.told \in BOOLEAN /\ agSent \in BOOLEAN
          BY <2>0, <4>1 DEF RoundsTyped, AgState
        <5>5. r.kind = "chat" /\ ~r.crossed => (agOutcome' = "suppressed") = r.told
          <6>1. CASE agSent
            BY <5>1, <5>3, <6>1
          <6>2. CASE ~agSent
            BY <5>1, <5>3, <5>4, <6>2
          <6> QED
            BY <6>1, <6>2
        <5> QED
          BY <5>2, <5>5 DEF FlagIsOwn, OneAnswer
      <4> QED
        BY <4>2, <4>3
    <3> QED
      BY <3>1, <3>2, <3>3, <3>4 DEF RInv
  <2>13. ASSUME NEW g \in AgGoroutines, TellUser(g) PROVE RInv'
    <3>1. RoundsTyped'
      <4>1. agRound' \in [AgGoroutines -> AgState]
        BY <2>0, <2>13, RoundFields, FreshRound, InboxIds
           DEF TellUser, AgCrossed, RoundsTyped, AgOther
      <4>2. agRound'["loop"].pc # "idle" => agRound'["loop"].id \in AgIds
        BY <2>0, <2>13, InboxIds DEF TellUser, AgCrossed, RoundsTyped, AgState, AgOther
      <4>3. agBusy' \in [held : BOOLEAN, stale : BOOLEAN]
        BY <2>0, <2>13 DEF TellUser, AgCrossed, RoundsTyped
      <4>4. /\ agProcessed' \subseteq AgIds /\ agSent' \in BOOLEAN /\ agCount' \in AgCounts
            /\ agOutcome' \in {"none", "dropped", "suppressed", "published"}
        BY <2>0, <2>13, InboxIds, Counters DEF TellUser, AgCrossed, RoundsTyped
      <4>5. agStarted' \in [AgIds -> Nat]
        BY <2>0, <2>13 DEF TellUser, AgCrossed, RoundsTyped
      <4> QED
        BY <4>1, <4>2, <4>3, <4>4, <4>5 DEF RoundsTyped
    <3>2. LockInRound'
      BY <2>0, <2>13
         DEF TellUser, AgCrossed, RoundsTyped, AgState, AgCounts, AgOther, LockInRound,
             LockHasRound, LockedRoundsApart
    <3>3. RoundsCounted'
      BY <2>0, <2>13
         DEF TellUser, AgCrossed, RoundsTyped, AgState, AgCounts, AgOther, RoundsCounted,
             Owed, Known
    <3>4. FlagIsOwn'
      <4>1. CASE g = "loop"
        <5>1. agRound'["loop"].told /\ agRound'["loop"].pc = "tools" /\ agSent' = TRUE
          BY <2>0, <2>13, <4>1 DEF TellUser, AgAt, RoundsTyped, AgState, AgOther
        <5> QED
          BY <5>1 DEF FlagIsOwn, OneAnswer
      <4>2. CASE g = "cron"
        <5>1. /\ agRound'["loop"].crossed = AgCrossed("loop") /\ agOutcome' = agOutcome
              /\ agRound'["loop"].pc = agRound["loop"].pc
              /\ agRound'["loop"].told = agRound["loop"].told
              /\ agRound'["loop"].kind = agRound["loop"].kind
          BY <2>0, <2>13, <4>2 DEF TellUser, RoundsTyped, AgState, AgOther
        <5> QED
          BY <2>0, <5>1 DEF AgCrossed, FlagIsOwn, OneAnswer
      <4> QED
        BY <4>1, <4>2 DEF AgGoroutines
    <3> QED
      BY <3>1, <3>2, <3>3, <3>4 DEF RInv
  <2>14. ASSUME HeartbeatTells PROVE RInv'
    <3>1. RoundsTyped'
      <4>1. agRound' \in [AgGoroutines -> AgState]
        BY <2>0, <2>14, RoundFields, FreshRound, InboxIds
           DEF HeartbeatTells, AgCrossed, RoundsTyped
      <4>2. agRound'["loop"].pc # "idle" => agRound'["loop"].id \in AgIds
        BY <2>0, <2>14, InboxIds DEF HeartbeatTells, AgCrossed, RoundsTyped, AgState
      <4>3. agBusy' \in [held : BOOLEAN, stale : BOOLEAN]
        BY <2>0, <2>14 DEF HeartbeatTells, AgCrossed, RoundsTyped
      <4>4. /\ agProcessed' \subseteq AgIds /\ agSent' \in BOOLEAN /\ agCount' \in AgCounts
            /\ agOutcome' \in {"none", "dropped", "suppressed", "published"}
        BY <2>0, <2>14, InboxIds, Counters DEF HeartbeatTells, AgCrossed, RoundsTyped
      <4>5. agStarted' \in [AgIds -> Nat]
        BY <2>0, <2>14 DEF HeartbeatTells, AgCrossed, RoundsTyped
      <4> QED
        BY <4>1, <4>2, <4>3, <4>4, <4>5 DEF RoundsTyped
    <3>2. LockInRound'
      BY <2>0, <2>14
         DEF HeartbeatTells, AgCrossed, RoundsTyped, AgState, AgCounts, LockInRound,
             LockHasRound, LockedRoundsApart
    <3>3. RoundsCounted'
      BY <2>0, <2>14
         DEF HeartbeatTells, AgCrossed, RoundsTyped, AgState, AgCounts, RoundsCounted,
             Owed, Known
    <3>4. FlagIsOwn'
      BY <2>0, <2>14 DEF HeartbeatTells, AgCrossed, RoundsTyped, AgState, FlagIsOwn, OneAnswer
    <3> QED
      BY <3>1, <3>2, <3>3, <3>4 DEF RInv
  <2>15. ASSUME LockExpires PROVE RInv'
    <3>1. RoundsTyped'
      <4>1. agRound' \in [AgGoroutines -> AgState]
        BY <2>0, <2>15, RoundFields, FreshRound, InboxIds DEF LockExpires, RoundsTyped
      <4>2. agRound'["loop"].pc # "idle" => agRound'["loop"].id \in AgIds
        BY <2>0, <2>15, InboxIds DEF LockExpires, RoundsTyped, AgState
      <4>3. agBusy' \in [held : BOOLEAN, stale : BOOLEAN]
        BY <2>0, <2>15 DEF LockExpires, RoundsTyped
      <4>4. /\ agProcessed' \subseteq AgIds /\ agSent' \in BOOLEAN /\ agCount' \in AgCounts
            /\ agOutcome' \in {"none", "dropped", "suppressed", "published"}
        BY <2>0, <2>15, InboxIds, Counters DEF LockExpires, RoundsTyped
      <4>5. agStarted' \in [AgIds -> Nat]
        BY <2>0, <2>15 DEF LockExpires, RoundsTyped
      <4> QED
        BY <4>1, <4>2, <4>3, <4>4, <4>5 DEF RoundsTyped
    <3>2. LockInRound'
      BY <2>0, <2>15
         DEF LockExpires, RoundsTyped, AgState, AgCounts, LockInRound, LockHasRound,
             LockedRoundsApart
    <3>3. RoundsCounted'
      BY <2>0, <2>15 DEF LockExpires, RoundsTyped, AgState, AgCounts, RoundsCounted, Owed, Known
    <3>4. FlagIsOwn'
      BY <2>0, <2>15 DEF LockExpires, RoundsTyped, AgState, FlagIsOwn, OneAnswer
    <3> QED
      BY <3>1, <3>2, <3>3, <3>4 DEF RInv
  <2>16. ASSUME NEW id \in AgIds, ForgetId(id) PROVE RInv'
    <3>1. RoundsTyped'
      <4>1. agRound' \in [AgGoroutines -> AgState]
        BY <2>0, <2>16, RoundFields, FreshRound, InboxIds DEF ForgetId, RoundsTyped
      <4>2. agRound'["loop"].pc # "idle" => agRound'["loop"].id \in AgIds
        BY <2>0, <2>16, InboxIds DEF ForgetId, RoundsTyped, AgState
      <4>3. agBusy' \in [held : BOOLEAN, stale : BOOLEAN]
        BY <2>0, <2>16 DEF ForgetId, RoundsTyped
      <4>4. /\ agProcessed' \subseteq AgIds /\ agSent' \in BOOLEAN /\ agCount' \in AgCounts
            /\ agOutcome' \in {"none", "dropped", "suppressed", "published"}
        BY <2>0, <2>16, InboxIds, Counters DEF ForgetId, RoundsTyped
      <4>5. agStarted' \in [AgIds -> Nat]
        BY <2>0, <2>16 DEF ForgetId, RoundsTyped
      <4> QED
        BY <4>1, <4>2, <4>3, <4>4, <4>5 DEF RoundsTyped
    <3>2. LockInRound'
      BY <2>0, <2>16
         DEF ForgetId, RoundsTyped, AgState, AgCounts, LockInRound, LockHasRound,
             LockedRoundsApart
    <3>3. RoundsCounted'
      BY <2>0, <2>16 DEF ForgetId, RoundsTyped, AgState, AgCounts, RoundsCounted, Owed, Known
    <3>4. FlagIsOwn'
      BY <2>0, <2>16 DEF ForgetId, RoundsTyped, AgState, FlagIsOwn, OneAnswer
    <3> QED
      BY <3>1, <3>2, <3>3, <3>4 DEF RInv
  <2>17. CASE UNCHANGED agVars
    BY <2>0, <2>17 DEF agVars, RInv, RoundsTyped, LockInRound, LockHasRound, LockedRoundsApart,
       RoundsCounted, Owed, Known, FlagIsOwn, OneAnswer
  <2> QED
    BY <2>1, <2>2, <2>3, <2>4, <2>5, <2>6, <2>7, <2>8, <2>9, <2>10, <2>11, <2>12, <2>13, <2>14, <2>15, <2>16, <2>17 
       DEF AgNext, AgRoundStep, HandleCommand, RelayOversight, LogInternal, StartSystem
<1> QED
  BY <1>1, <1>2, PTL DEF AgSpec

(* Rounds of one conversation keep apart while no lock expires, a held     *)
(* lock has its round, a message delivered again gets no second round, and *)
(* a chat is told once (loop.go:446, :700, :776).                          *)
THEOREM RoundsKeepApart == AgSpec => []RoundsSafe
<1>1. RInv => RoundsSafe
  <2> SUFFICES ASSUME RInv PROVE RoundsSafe
    OBVIOUS
  <2>1. AgTypeOK
    <3>1. \A id \in AgIds : agStarted[id] \in 0 .. AgDeliveries
      BY AgAssumption DEF RInv, RoundsTyped, AgCounts, RoundsCounted, Owed
    <3> QED
      BY <3>1 DEF AgTypeOK, RInv, RoundsTyped, AgState
  <2>2. LockedRoundsApart /\ LockHasRound
    <3>1. agCount.expiries \in Nat
      BY DEF RInv, RoundsTyped, AgCounts
    <3> QED
      BY <3>1 DEF RInv, LockInRound, LockedRoundsApart
  <2>3. AnsweredOnce
    BY DEF RInv, RoundsTyped, AgCounts, RoundsCounted, Owed, Known, AnsweredOnce
  <2>4. OneAnswer
    BY DEF RInv, FlagIsOwn
  <2> QED
    BY <2>1, <2>2, <2>3, <2>4 DEF RoundsSafe
<1> QED
  BY <1>1, RoundsInvariant, PTL

---------------------------------------------------------------------------
SgState == [pc : {"spawned", "late", "reading", "working", "announcing", "over"},
            status : {"running", "completed", "failed", "canceled"}, by : Spawners]

SgTyped ==
    /\ sgTasks \in Seq(SgState)
    /\ sgQueue \in Seq(Nat) /\ Len(sgQueue) <= SgCapacity
    /\ \A i \in DOMAIN sgQueue : sgQueue[i] = 0 \/ sgQueue[i] \in SgTask
    /\ sgLock \in {0} \cup SgTask
    /\ sgHeard \subseteq SgTask /\ sgDropped \subseteq SgTask

(* The announcements of a queue, when one is put behind or taken off.      *)
Holds(q, t) == \E i \in DOMAIN q : q[i] = t
Once(q, t) == \A i, j \in DOMAIN q : q[i] = t /\ q[j] = t => i = j

LEMMA QueuePut ==
  ASSUME NEW q \in Seq(Nat), NEW m \in Nat
  PROVE  /\ Append(q, m) \in Seq(Nat) /\ Len(Append(q, m)) = Len(q) + 1
         /\ \A t : Holds(Append(q, m), t) <=> Holds(q, t) \/ t = m
         /\ \A t : Once(q, t) /\ (t = m => ~Holds(q, t)) => Once(Append(q, m), t)
<1> DEFINE a == Append(q, m)
<1>1. a \in Seq(Nat) /\ Len(a) = Len(q) + 1 /\ DOMAIN a = 1..Len(q) + 1 /\ DOMAIN q = 1..Len(q)
  OBVIOUS
<1>2. a[Len(q) + 1] = m /\ \A i \in 1..Len(q) : a[i] = q[i]
  OBVIOUS
<1>3. \A i \in 1..Len(q) + 1 : i \in 1..Len(q) \/ i = Len(q) + 1
  OBVIOUS
<1>4. Len(q) + 1 \in 1..Len(q) + 1 /\ \A i \in 1..Len(q) : i \in 1..Len(q) + 1
  OBVIOUS
<1> HIDE DEF a
<1>5. \A t : Holds(a, t) <=> Holds(q, t) \/ t = m
  BY <1>1, <1>2, <1>3, <1>4 DEF Holds
<1>6. \A t : Once(q, t) /\ (t = m => ~Holds(q, t)) => Once(a, t)
  BY <1>1, <1>2, <1>3 DEF Once, Holds
<1> QED
  BY <1>1, <1>5, <1>6 DEF a

LEMMA QueueTake ==
  ASSUME NEW q \in Seq(Nat), q # <<>>
  PROVE  /\ Tail(q) \in Seq(Nat) /\ Len(Tail(q)) <= Len(q) /\ Holds(q, Head(q))
         /\ \A t : Holds(Tail(q), t) => Holds(q, t)
         /\ \A t : Holds(q, t) /\ t # Head(q) => Holds(Tail(q), t)
         /\ \A t : Once(q, t) => Once(Tail(q), t)
         /\ Once(q, Head(q)) => ~Holds(Tail(q), Head(q))
<1> DEFINE u == Tail(q)
<1>1. /\ u \in Seq(Nat) /\ Len(u) = Len(q) - 1 /\ Len(q) \in Nat /\ Len(q) # 0
      /\ DOMAIN u = 1..Len(u) /\ DOMAIN q = 1..Len(q) /\ Head(q) = q[1]
  OBVIOUS
<1>2. \A i \in 1..Len(u) : u[i] = q[i + 1] /\ i + 1 \in 1..Len(q) /\ i + 1 # 1
  OBVIOUS
<1>3. \A i \in 1..Len(q) : i # 1 => i - 1 \in 1..Len(u) /\ u[i - 1] = q[i]
  OBVIOUS
<1>4. \A i, j \in 1..Len(u) : i + 1 = j + 1 => i = j
  OBVIOUS
<1>5. 1 \in 1..Len(q) /\ Len(u) <= Len(q)
  BY <1>1
<1> HIDE DEF u
<1>6. Holds(q, Head(q)) /\ \A t : Holds(u, t) => Holds(q, t)
  BY <1>1, <1>2, <1>5 DEF Holds
<1>7. \A t : Holds(q, t) /\ t # Head(q) => Holds(u, t)
  BY <1>1, <1>3 DEF Holds
<1>8. \A t : Once(q, t) => Once(u, t)
  BY <1>1, <1>2, <1>4 DEF Once
<1>9. Once(q, Head(q)) => ~Holds(u, Head(q))
  BY <1>1, <1>2, <1>5 DEF Once, Holds
<1> QED
  BY <1>1, <1>5, <1>6, <1>7, <1>8, <1>9 DEF u

(* Nothing is said of a task before it is over, and it is over with a      *)
(* verdict; of what became of its announcement one thing is true.          *)
TaskInv(t) ==
    /\ sgTasks[t].pc \in {"announcing", "over"} <=> sgTasks[t].status # "running"
    /\ sgTasks[t].pc = "late" => sgCancelled
    /\ Holds(sgQueue, t) \/ t \in sgHeard \/ t \in sgDropped => sgTasks[t].pc = "over"
    /\ ~(Holds(sgQueue, t) /\ t \in sgHeard)
    /\ ~(Holds(sgQueue, t) /\ t \in sgDropped)
    /\ ~(t \in sgHeard /\ t \in sgDropped)
    /\ Once(sgQueue, t)
    /\ sgTasks[t].pc = "over" =>
          \/ t \in sgHeard
          \/ Holds(sgQueue, t)
          \/ t \in sgDropped /\ (t \in sgOverdue \/ sgClosed)
          \/ sgTasks[t].status = "canceled" /\ sgCancelled

SInv == SgTyped /\ LockIsAnnouncing /\ \A t \in SgTask : TaskInv(t)

LEMMA TaskKeeps ==
  ASSUME NEW t \in SgTask, TaskInv(t), sgTasks'[t] = sgTasks[t],
         Holds(sgQueue', t) <=> Holds(sgQueue, t), Once(sgQueue, t) => Once(sgQueue', t),
         t \in sgHeard' <=> t \in sgHeard, t \in sgDropped' <=> t \in sgDropped,
         sgCancelled => sgCancelled', sgClosed => sgClosed', t \in sgOverdue => t \in sgOverdue'
  PROVE  TaskInv(t)'
  BY DEF TaskInv

(* A task changes its state and verdict; the others stay as they are.      *)
Verdicts == {"running", "completed", "failed", "canceled"}
LEMMA TaskChanges ==
  ASSUME sgTasks \in Seq(SgState), NEW t \in SgTask, NEW pc, NEW status \in Verdicts,
         pc \in {"spawned", "late", "reading", "working", "announcing", "over"},
         Becomes(t, pc, status)
  PROVE  /\ sgTasks' \in Seq(SgState) /\ SgTask' = SgTask
         /\ sgTasks'[t].pc = pc /\ sgTasks'[t].status = status /\ sgTasks'[t].by = sgTasks[t].by
         /\ \A u \in SgTask : u # t => sgTasks'[u] = sgTasks[u]
<1>1. sgTasks[t] \in SgState /\ SgTask = 1..Len(sgTasks)
  BY DEF SgTask
<1> DEFINE k == [[sgTasks[t] EXCEPT !.pc = pc] EXCEPT !.status = status]
<1>2. k \in SgState /\ k.pc = pc /\ k.status = status /\ k.by = sgTasks[t].by
  BY <1>1 DEF SgState, Verdicts
<1>3. sgTasks' = [sgTasks EXCEPT ![t] = k]
  BY <1>1 DEF Becomes, SgTask, SgState
<1> HIDE DEF k
<1> QED
  BY <1>1, <1>2, <1>3 DEF SgTask

(* One task goes on.                                                       *)
LEMMA OneTaskSteps ==
  ASSUME SInv, NEW t \in SgTask, NEW pc, NEW status \in Verdicts,
         pc \in {"spawned", "late", "reading", "working", "announcing", "over"},
         Becomes(t, pc, status), UNCHANGED <<sgQueue, sgClosed, sgCancelled, sgHeard, sgOverdue>>,
         sgLock' \in {0} \cup SgTask,
         \A u \in SgTask : u # t => (sgLock' = u <=> sgLock = u),
         pc = "announcing" <=> sgLock' = t,
         sgDropped' = sgDropped \/ sgDropped' = sgDropped \cup {t},
         TaskInv(t)'
  PROVE  SInv'
<1>1. /\ sgTasks' \in Seq(SgState) /\ SgTask' = SgTask
      /\ sgTasks'[t].pc = pc
      /\ \A u \in SgTask : u # t => sgTasks'[u] = sgTasks[u]
  BY TaskChanges DEF SInv, SgTyped
<1>2. SgTyped'
  BY <1>1 DEF SInv, SgTyped
<1>3. LockIsAnnouncing'
  BY <1>1 DEF SInv, LockIsAnnouncing
<1>4. ASSUME NEW u \in SgTask, u # t PROVE TaskInv(u)'
  BY <1>1, <1>4, TaskKeeps DEF SInv
<1> QED
  BY <1>1, <1>2, <1>3, <1>4 DEF SInv

LEMMA SubagentsInvariant == SgSpec => []SInv
<1>1. SgInit => SInv
  <2> SUFFICES ASSUME SgInit PROVE SInv
    OBVIOUS
  <2>1. /\ SgTask = {} /\ sgTasks \in Seq(SgState) /\ sgQueue \in Seq(Nat) /\ Len(sgQueue) = 0
        /\ DOMAIN sgQueue = {}
    BY DEF SgInit, SgTask
  <2> QED
    BY <2>1, SgAssumption DEF SgInit, SInv, SgTyped, LockIsAnnouncing
<1>2. SInv /\ [SgNext]_sgVars => SInv'
  <2> SUFFICES ASSUME SInv, [SgNext]_sgVars PROVE SInv'
    OBVIOUS
  <2>0. /\ SgTyped /\ LockIsAnnouncing /\ \A t \in SgTask : TaskInv(t)
        /\ SgTask = 1..Len(sgTasks) /\ Len(sgTasks) \in Nat
    BY DEF SInv, SgTyped, SgTask
  <2>1. ASSUME UNCHANGED <<sgQueue, sgClosed, sgLock, sgTasks, sgHeard, sgDropped>>,
               sgCancelled => sgCancelled', sgOverdue \subseteq sgOverdue'
        PROVE  SInv'
    <3>1. SgTyped' /\ LockIsAnnouncing' /\ SgTask' = SgTask
      BY <2>0, <2>1 DEF SgTyped, SgTask, LockIsAnnouncing
    <3>2. \A t \in SgTask : TaskInv(t)'
      BY <2>0, <2>1, TaskKeeps
    <3> QED
      BY <3>1, <3>2 DEF SInv
  <2>2. ASSUME UserWrites PROVE SInv'
    <3>1. /\ sgQueue' = Append(sgQueue, 0) /\ Len(sgQueue) < SgCapacity
          /\ UNCHANGED <<sgTasks, sgClosed, sgCancelled, sgLock, sgHeard, sgOverdue, sgDropped>>
      BY <2>2 DEF UserWrites
    <3>2. SgTask' = SgTask /\ 0 \notin SgTask
      BY <2>0, <3>1 DEF SgTask
    <3>3. /\ sgQueue' \in Seq(Nat) /\ Len(sgQueue') <= SgCapacity
          /\ \A t \in SgTask : /\ Holds(sgQueue', t) <=> Holds(sgQueue, t)
                               /\ Once(sgQueue, t) => Once(sgQueue', t)
      BY <2>0, <3>1, <3>2, QueuePut, SgAssumption DEF SgTyped
    <3>4. SgTyped'
      <4>1. \A i \in DOMAIN sgQueue' : sgQueue'[i] = 0 \/ (i \in DOMAIN sgQueue /\ sgQueue'[i] = sgQueue[i])
        BY <2>0, <3>1 DEF SgTyped
      <4> QED
        BY <2>0, <3>1, <3>2, <3>3, <4>1 DEF SgTyped
    <3>5. LockIsAnnouncing'
      BY <2>0, <3>1, <3>2 DEF LockIsAnnouncing
    <3>6. \A t \in SgTask : TaskInv(t)'
      BY <2>0, <3>1, <3>3, TaskKeeps
    <3> QED
      BY <3>2, <3>4, <3>5, <3>6 DEF SInv
  <2>3. ASSUME TakeMessage PROVE SInv'
    <3> DEFINE h == Head(sgQueue)
    <3>1. /\ sgQueue # <<>> /\ sgQueue' = Tail(sgQueue)
          /\ sgHeard' = IF h = 0 THEN sgHeard ELSE sgHeard \cup {h}
          /\ UNCHANGED <<sgTasks, sgClosed, sgCancelled, sgLock, sgOverdue, sgDropped>>
      BY <2>3 DEF TakeMessage
    <3>2. /\ sgQueue' \in Seq(Nat) /\ Len(sgQueue') <= Len(sgQueue) /\ Holds(sgQueue, h)
          /\ \A t : Holds(sgQueue', t) => Holds(sgQueue, t)
          /\ \A t : Holds(sgQueue, t) /\ t # h => Holds(sgQueue', t)
          /\ \A t : Once(sgQueue, t) => Once(sgQueue', t)
          /\ Once(sgQueue, h) => ~Holds(sgQueue', h)
      BY <2>0, <3>1, QueueTake DEF SgTyped
    <3>3. SgTask' = SgTask /\ 0 \notin SgTask
      BY <2>0, <3>1 DEF SgTask
    <3>4. SgTyped'
      <4>1. /\ \A t : Holds(sgQueue, t) => t = 0 \/ t \in SgTask
            /\ \A i \in DOMAIN sgQueue' : Holds(sgQueue', sgQueue'[i])
        BY <2>0 DEF SgTyped, Holds
      <4>2. Len(sgQueue') <= SgCapacity
        BY <2>0, <3>2, SgAssumption DEF SgTyped
      <4> QED
        BY <2>0, <3>1, <3>2, <3>3, <4>1, <4>2 DEF SgTyped
    <3>5. LockIsAnnouncing'
      BY <2>0, <3>1, <3>3 DEF LockIsAnnouncing
    <3>6. ASSUME NEW t \in SgTask PROVE TaskInv(t)'
      <4>1. CASE t = h
        BY <2>0, <3>1, <3>2, <3>3, <4>1 DEF TaskInv
      <4>2. CASE t # h
        BY <2>0, <3>1, <3>2, <4>2, TaskKeeps
      <4> QED
        BY <4>1, <4>2
    <3> QED
      BY <3>3, <3>4, <3>5, <3>6 DEF SInv
  <2>4. ASSUME NEW g \in Spawners, Spawn(g) PROVE SInv'
    <3> DEFINE k == [pc |-> "spawned", status |-> "running", by |-> g]
    <3>0. PICK n \in Nat : n = Len(sgTasks) + 1
      BY <2>0
    <3>1. /\ sgLock = 0 /\ sgTasks' = Append(sgTasks, k)
          /\ UNCHANGED <<sgQueue, sgClosed, sgCancelled, sgLock, sgHeard, sgOverdue, sgDropped>>
      BY <2>4 DEF Spawn
    <3>2. /\ k \in SgState /\ sgTasks' \in Seq(SgState) /\ SgTask' = SgTask \cup {n}
          /\ n \notin SgTask /\ n # 0 /\ sgTasks'[n] = k /\ \A t \in SgTask : sgTasks'[t] = sgTasks[t]
      BY <2>0, <3>0, <3>1 DEF SgTask, SgState, SgTyped
    <3>3. SgTyped'
      BY <2>0, <3>1, <3>2 DEF SgTyped
    <3>4. LockIsAnnouncing'
      <4>1. sgTasks'[n].pc = "spawned" /\ sgLock' # n
        <5>1. k.pc = "spawned"
          OBVIOUS
        <5>2. sgTasks'[n] = k /\ sgLock' # n
          BY <3>1, <3>2
        <5> HIDE DEF k
        <5> QED
          BY <5>1, <5>2
      <4>2. \A t \in SgTask : sgTasks'[t].pc = "announcing" <=> sgLock' = t
        BY <2>0, <3>1, <3>2 DEF LockIsAnnouncing
      <4> QED
        BY <3>2, <4>1, <4>2 DEF LockIsAnnouncing
    <3>5. \A t \in SgTask : TaskInv(t)'
      BY <2>0, <3>1, <3>2, TaskKeeps
    <3>6. TaskInv(n)'
      <4>1. ~Holds(sgQueue, n) /\ n \notin sgHeard /\ n \notin sgDropped
        BY <2>0, <3>2 DEF SgTyped, Holds
      <4>2. Once(sgQueue, n)
        BY <4>1 DEF Once, Holds
      <4>3. sgTasks'[n].pc = "spawned" /\ sgTasks'[n].status = "running"
        BY <3>2
      <4> QED
        BY <3>1, <4>1, <4>2, <4>3 DEF TaskInv, Holds, Once
    <3>7. \A t \in SgTask' : TaskInv(t)'
      BY <3>2, <3>5, <3>6
    <3> QED
      BY <3>3, <3>4, <3>7 DEF SInv
  <2>5. ASSUME NEW t \in SgTask, NEW pc \in {"late", "reading", "working"},
               sgTasks[t].pc \in {"spawned", "reading"}, pc = "late" => sgCancelled,
               Becomes(t, pc, "running"),
               UNCHANGED <<sgQueue, sgClosed, sgCancelled, sgLock, sgHeard, sgOverdue, sgDropped>>
        PROVE  SInv'
    <3>1. sgTasks'[t].pc = pc /\ sgTasks'[t].status = "running"
      BY <2>0, <2>5, TaskChanges DEF SgTyped, Verdicts
    <3>2. TaskInv(t)'
      BY <2>0, <2>5, <3>1 DEF TaskInv
    <3>3. sgLock # t /\ sgLock \in {0} \cup SgTask
      BY <2>0, <2>5 DEF LockIsAnnouncing, SgTyped
    <3> QED
      BY <2>5, <3>2, <3>3, OneTaskSteps DEF Verdicts
  <2>6. ASSUME NEW t \in SgTask, CancelBeforeStart(t) PROVE SInv'
    <3>1. /\ sgTasks[t].pc = "late" /\ sgLock = 0 /\ Becomes(t, "over", "canceled")
          /\ UNCHANGED <<sgQueue, sgClosed, sgCancelled, sgLock, sgHeard, sgOverdue, sgDropped>>
      BY <2>6 DEF CancelBeforeStart
    <3>2. sgTasks'[t].pc = "over" /\ sgTasks'[t].status = "canceled"
      BY <2>0, <3>1, TaskChanges DEF SgTyped, Verdicts
    <3>3. TaskInv(t)'
      BY <2>0, <3>1, <3>2 DEF TaskInv
    <3>4. t # 0
      BY <2>0
    <3> QED
      BY <3>1, <3>3, <3>4, OneTaskSteps DEF Verdicts
  <2>7. ASSUME NEW t \in SgTask, FinishTask(t) PROVE SInv'
    <3>1. /\ sgTasks[t].pc = "working" /\ sgLock = 0 /\ sgLock' = t
          /\ UNCHANGED <<sgQueue, sgClosed, sgCancelled, sgHeard, sgOverdue, sgDropped>>
      BY <2>7 DEF FinishTask
    <3>2. PICK verdict \in {"completed", "canceled", "failed"} : Becomes(t, "announcing", verdict)
      BY <2>7 DEF FinishTask
    <3>3. sgTasks'[t].pc = "announcing" /\ sgTasks'[t].status = verdict
      BY <2>0, <3>2, TaskChanges DEF SgTyped, Verdicts
    <3>4. TaskInv(t)'
      BY <2>0, <3>1, <3>3 DEF TaskInv
    <3>5. 0 \notin SgTask
      BY <2>0
    <3> QED
      BY <3>1, <3>2, <3>4, <3>5, OneTaskSteps DEF Verdicts
  <2>8. ASSUME NEW t \in SgTask, Announce(t) PROVE SInv'
    <3>1. /\ sgTasks[t].pc = "announcing" /\ Len(sgQueue) < SgCapacity
          /\ sgQueue' = Append(sgQueue, t) /\ sgLock' = 0
          /\ Becomes(t, "over", sgTasks[t].status)
          /\ UNCHANGED <<sgClosed, sgCancelled, sgHeard, sgOverdue, sgDropped>>
      BY <2>8 DEF Announce
    <3>0. sgTasks[t] \in SgState
      BY <2>0 DEF SgTyped
    <3>2. sgTasks[t].status \in Verdicts /\ t \in Nat /\ t # 0 /\ sgLock = t
      <4>1. sgTasks[t].status \in Verdicts
        BY <3>0 DEF SgState, Verdicts
      <4>2. t \in Nat /\ t # 0
        BY <2>0
      <4>3. sgLock = t
        BY <2>0, <3>1 DEF LockIsAnnouncing
      <4> QED
        BY <4>1, <4>2, <4>3
    <3>3. /\ sgTasks' \in Seq(SgState) /\ SgTask' = SgTask
          /\ sgTasks'[t].pc = "over" /\ sgTasks'[t].status = sgTasks[t].status
          /\ \A u \in SgTask : u # t => sgTasks'[u] = sgTasks[u]
      BY <2>0, <3>1, <3>2, TaskChanges DEF SgTyped
    <3>4. /\ sgQueue' \in Seq(Nat) /\ Len(sgQueue') <= SgCapacity
          /\ \A u : Holds(sgQueue', u) <=> Holds(sgQueue, u) \/ u = t
          /\ \A u : Once(sgQueue, u) /\ (u = t => ~Holds(sgQueue, u)) => Once(sgQueue', u)
      BY <2>0, <3>1, <3>2, QueuePut, SgAssumption DEF SgTyped
    <3>5. SgTyped'
      <4>1. \A i \in DOMAIN sgQueue' : sgQueue'[i] = t \/ (i \in DOMAIN sgQueue /\ sgQueue'[i] = sgQueue[i])
        BY <2>0, <3>1 DEF SgTyped
      <4> QED
        BY <2>0, <3>1, <3>3, <3>4, <4>1 DEF SgTyped
    <3>6. LockIsAnnouncing'
      BY <2>0, <3>1, <3>2, <3>3 DEF LockIsAnnouncing
    <3>7. ASSUME NEW u \in SgTask PROVE TaskInv(u)'
      <4>1. CASE u = t
        BY <2>0, <3>1, <3>3, <3>4, <4>1 DEF TaskInv
      <4>2. CASE u # t
        BY <2>0, <3>1, <3>3, <3>4, <4>2, TaskKeeps
      <4> QED
        BY <4>1, <4>2
    <3> QED
      BY <3>3, <3>5, <3>6, <3>7 DEF SInv
  <2>9. ASSUME NEW t \in SgTask, GiveUpAnnouncing(t) PROVE SInv'
    <3>1. /\ sgTasks[t].pc = "announcing" /\ (sgClosed \/ t \in sgOverdue)
          /\ sgDropped' = sgDropped \cup {t} /\ sgLock' = 0
          /\ Becomes(t, "over", sgTasks[t].status)
          /\ UNCHANGED <<sgQueue, sgClosed, sgCancelled, sgHeard, sgOverdue>>
      BY <2>9 DEF GiveUpAnnouncing
    <3>0. sgTasks[t] \in SgState
      BY <2>0 DEF SgTyped
    <3>2. sgTasks[t].status \in Verdicts /\ t # 0 /\ sgLock = t
      <4>1. sgTasks[t].status \in Verdicts
        BY <3>0 DEF SgState, Verdicts
      <4>2. t # 0
        BY <2>0
      <4>3. sgLock = t
        BY <2>0, <3>1 DEF LockIsAnnouncing
      <4> QED
        BY <4>1, <4>2, <4>3
    <3>3. sgTasks'[t].pc = "over" /\ sgTasks'[t].status = sgTasks[t].status
      BY <2>0, <3>1, <3>2, TaskChanges DEF SgTyped
    <3>4. TaskInv(t)'
      BY <2>0, <3>1, <3>3 DEF TaskInv
    <3>5. 0 \notin SgTask
      BY <2>0
    <3> QED
      BY <3>1, <3>2, <3>4, <3>5, OneTaskSteps
  <2>10. ASSUME CloseBus PROVE SInv'
    <3>1. /\ sgQueue' = <<>> /\ sgClosed' = TRUE
          /\ sgDropped' = sgDropped \cup {t \in SgTask : Holds(sgQueue, t)}
          /\ UNCHANGED <<sgCancelled, sgLock, sgTasks, sgHeard, sgOverdue>>
      BY <2>10 DEF CloseBus, Holds
    <3>2. SgTask' = SgTask
      BY <3>1 DEF SgTask
    <3>3. SgTyped'
      <4>1. sgQueue' \in Seq(Nat) /\ Len(sgQueue') = 0 /\ DOMAIN sgQueue' = {}
        BY <3>1
      <4>2. Len(sgQueue') <= SgCapacity
        BY <4>1, SgAssumption
      <4> QED
        BY <2>0, <3>1, <3>2, <4>1, <4>2 DEF SgTyped
    <3>4. LockIsAnnouncing'
      BY <2>0, <3>1, <3>2 DEF LockIsAnnouncing
    <3>5. \A t : ~Holds(sgQueue', t) /\ Once(sgQueue', t)
      BY <3>1 DEF Holds, Once
    <3>6. \A t \in SgTask : TaskInv(t)'
      BY <2>0, <3>1, <3>5 DEF TaskInv
    <3> QED
      BY <3>2, <3>3, <3>4, <3>6 DEF SInv
  <2>11. ASSUME NEW t \in SgTask, StartTask(t) \/ ReadOptions(t) PROVE SInv'
    BY <2>5, <2>11 DEF StartTask, ReadOptions, CtxOver
  <2>12. ASSUME RunReturns \/ BeatBegins \/ CancelContext
                \/ (\E g \in Spawners : CallSpawn(g) \/ RoundEnds(g))
                \/ (\E t \in SgTask : AnnounceOverdue(t))
         PROVE  SInv'
    BY <2>1, <2>12 DEF RunReturns, BeatBegins, CancelContext, CallSpawn, RoundEnds,
                       AnnounceOverdue, FiveSeconds
  <2>13. CASE UNCHANGED sgVars
    BY <2>1, <2>13 DEF sgVars
  <2> QED
    BY <2>2, <2>3, <2>4, <2>6, <2>7, <2>8, <2>9, <2>10, <2>11, <2>12, <2>13
       DEF SgNext, SgRoundStep, SgTaskStep
<1> QED
  BY <1>1, <1>2, PTL DEF SgSpec

(* A task that has run is announced once, after its end, and the table is  *)
(* locked only meanwhile (pkg/tools/subagent.go:175, :216).                *)
THEOREM AnnouncedOnce == SgSpec => []SubagentsSafe
<1>1. SInv => SubagentsSafe
  <2> SUFFICES ASSUME SInv PROVE SubagentsSafe
    OBVIOUS
  <2>1. \A t : Queued(t) <=> Holds(sgQueue, t)
    BY DEF Queued, Holds
  <2>2. SgTypeOK
    <3>1. \A t \in SgTask : sgTasks[t] \in SgState
      BY DEF SInv, SgTyped, SgTask
    <3> QED
      BY <3>1 DEF SInv, SgTyped, SgTypeOK, SgState
  <2>3. EndedBeforeHeard /\ HeardOrLost
    BY <2>1 DEF SInv, TaskInv, EndedBeforeHeard, HeardOrLost
  <2>4. HeardOnce
    BY <2>1 DEF SInv, TaskInv, HeardOnce, Once
  <2> QED
    BY <2>2, <2>3, <2>4 DEF SInv, SubagentsSafe
<1> QED
  BY <1>1, SubagentsInvariant, PTL

---------------------------------------------------------------------------------
(* Missions.  Every word the invariant needs is about one mission, or about one part  *)
(* of the worker.                                                                     *)
MsStatuses == {"absent", "pending", "in_progress", "running", "completed", "failed"}
MsRounds == [on : BOOLEAN, checkpoints : 0 .. MsCheckpoints]
MsSendable == [mission : MsMissions, status : {"running"} \cup Final, run : Nat, nr : 0 .. MsCheckpoints]
MsPasts == [runs : [MsMissions -> Nat], unmarked : SUBSET MsMissions, unheard : SUBSET MsMissions,
            lost : SUBSET MsMissions, overtaken : SUBSET MsMissions, mail : Seq(MsMessages),
            cut : SUBSET MsMessages, restarted : BOOLEAN, told : BOOLEAN, unseen : BOOLEAN,
            since : BOOLEAN, window : BOOLEAN, overlap : BOOLEAN]
MsCounters == [requests : Nat, crashes : Nat, beats : 0 .. MsBeats]
MissionPast(h) == <<h.runs, h.unmarked, h.unheard, h.lost, h.overtaken>>
MailPast(h) == <<h.mail, h.cut>>
UpdatePast(h) == <<h.restarted, h.told, h.unseen, h.since, h.window, h.overlap>>

MsTyped ==
    /\ msStatus \in [MsMissions -> MsStatuses]
    /\ msPc \in {"poll", "mark", "publish", "beat", "send", "wait"}
    /\ msBatch \in Seq(MsMissions) /\ msListening \in BOOLEAN /\ msNudge \in BOOLEAN
    /\ msQueue \in Seq(MsMissions) /\ msRound \in [MsMissions -> MsRounds]
    /\ msReports \subseteq MsSendable
    /\ msMailbox \in Seq(MsMessages) /\ msFetched \in Seq(MsMessages)
    /\ msHandled \in Seq(MsMessages)
    /\ msUpdate \in Nat /\ msUpStatus \in {"idle", "failed"} /\ msSent \in {"idle", "failed"}
    /\ msFails \in MsCounters /\ msHistory \in MsPasts

(* What occurs in a sequence, and what occurs in it twice.                            *)
Twice(x, s) == \E i, j \in DOMAIN s : i # j /\ s[i] = x /\ s[j] = x

LEMMA TailOccurs ==
  ASSUME NEW S, NEW s \in Seq(S), s # <<>>
  PROVE  /\ Head(s) \in S /\ Tail(s) \in Seq(S) /\ Len(Tail(s)) = Len(s) - 1 /\ Len(s) \in Nat \ {0}
         /\ (Tail(s) = <<>>) <=> (Len(s) = 1)
         /\ \A x : In(x, s) <=> x = Head(s) \/ In(x, Tail(s))
         /\ \A x : Twice(x, Tail(s)) => Twice(x, s)
         /\ \A x : x = Head(s) /\ In(x, Tail(s)) => Twice(x, s)
<1>1. /\ Head(s) = s[1] /\ Head(s) \in S /\ Tail(s) \in Seq(S) /\ Len(Tail(s)) = Len(s) - 1
      /\ Len(s) \in Nat \ {0}
      /\ \A k \in 1 .. Len(s) - 1 : Tail(s)[k] = s[k + 1]
  OBVIOUS
<1>2. DOMAIN s = 1 .. Len(s) /\ DOMAIN Tail(s) = 1 .. Len(s) - 1
  BY <1>1
<1>3. \A x : In(x, s) <=> x = Head(s) \/ In(x, Tail(s))
  <2>1. ASSUME NEW x, In(x, s) PROVE x = Head(s) \/ In(x, Tail(s))
    <3>1. PICK k \in 1 .. Len(s) : s[k] = x
      BY <1>2, <2>1 DEF In
    <3>2. CASE k = 1
      BY <1>1, <3>1, <3>2
    <3>3. CASE k # 1
      <4>1. k - 1 \in 1 .. Len(s) - 1 /\ Tail(s)[k - 1] = s[(k - 1) + 1] /\ (k - 1) + 1 = k
        BY <1>1, <3>3
      <4> QED
        BY <1>2, <3>1, <4>1 DEF In
    <3> QED
      BY <3>2, <3>3
  <2>2. ASSUME NEW x, x = Head(s) \/ In(x, Tail(s)) PROVE In(x, s)
    <3>1. CASE x = Head(s)
      BY <1>1, <1>2, <3>1 DEF In
    <3>2. CASE In(x, Tail(s))
      <4>1. PICK k \in 1 .. Len(s) - 1 : Tail(s)[k] = x
        BY <1>2, <3>2 DEF In
      <4> QED
        BY <1>1, <1>2, <4>1 DEF In
    <3> QED
      BY <2>2, <3>1, <3>2
  <2> QED
    BY <2>1, <2>2
<1>4. ASSUME NEW x, Twice(x, Tail(s)) PROVE Twice(x, s)
  <2>1. PICK i \in 1 .. Len(s) - 1, j \in 1 .. Len(s) - 1 : i # j /\ Tail(s)[i] = x /\ Tail(s)[j] = x
    BY <1>2, <1>4 DEF Twice
  <2>2. /\ i + 1 \in 1 .. Len(s) /\ j + 1 \in 1 .. Len(s) /\ i + 1 # j + 1 /\ s[i + 1] = x
        /\ s[j + 1] = x
    BY <1>1, <2>1
  <2> QED
    BY <1>2, <2>2 DEF Twice
<1>5. ASSUME NEW x, x = Head(s), In(x, Tail(s)) PROVE Twice(x, s)
  <2>1. PICK i \in 1 .. Len(s) - 1 : Tail(s)[i] = x
    BY <1>2, <1>5 DEF In
  <2>2. i + 1 \in 1 .. Len(s) /\ 1 \in 1 .. Len(s) /\ i + 1 # 1 /\ s[i + 1] = x /\ s[1] = x
    BY <1>1, <1>5, <2>1
  <2> QED
    BY <1>2, <2>2 DEF Twice
<1>6. (Tail(s) = <<>>) <=> (Len(s) = 1)
  <2>1. (Tail(s) = <<>>) <=> (Len(Tail(s)) = 0)
    <3>1. ASSUME NEW t \in Seq(S) PROVE (t = <<>>) <=> (Len(t) = 0)
      OBVIOUS
    <3> QED
      BY <1>1, <3>1
  <2> QED
    BY <1>1, <2>1
<1> QED
  BY <1>1, <1>3, <1>4, <1>5, <1>6

LEMMA AppendOccurs ==
  ASSUME NEW S, NEW s \in Seq(S), NEW e \in S
  PROVE  /\ Append(s, e) \in Seq(S) /\ Len(Append(s, e)) = Len(s) + 1 /\ Len(s) \in Nat
         /\ \A x : In(x, Append(s, e)) <=> x = e \/ In(x, s)
         /\ \A x : Twice(x, Append(s, e)) => Twice(x, s) \/ (x = e /\ In(x, s))
<1>1. /\ Append(s, e) \in Seq(S) /\ Len(Append(s, e)) = Len(s) + 1 /\ Len(s) \in Nat
      /\ DOMAIN s = 1 .. Len(s) /\ DOMAIN Append(s, e) = 1 .. Len(s) + 1
      /\ \A k \in 1 .. Len(s) : Append(s, e)[k] = s[k]
      /\ Append(s, e)[Len(s) + 1] = e
  OBVIOUS
<1>2. \A x : In(x, Append(s, e)) <=> x = e \/ In(x, s)
  BY <1>1 DEF In
<1>3. \A x : Twice(x, Append(s, e)) => Twice(x, s) \/ (x = e /\ In(x, s))
  BY <1>1 DEF In, Twice
<1> QED
  BY <1>1, <1>2, <1>3

LEMMA NothingOccurs ==
  <<>> \in Seq(MsMissions) /\ <<>> \in Seq(MsMessages) /\ \A x : ~In(x, <<>>) /\ ~Twice(x, <<>>)
  BY DEF In, Twice

(* A set in an order: all of it, each once.                                           *)
LEMMA OrdersOf ==
  ASSUME NEW S, IsFiniteSet(S), NEW q \in Orders(S)
  PROVE  /\ q \in Seq(S) /\ ((q = <<>>) <=> (S = {}))
         /\ \A x : (In(x, q) <=> x \in S) /\ ~Twice(x, q)
<1> DEFINE n == Cardinality(S)
<1>1. n \in Nat /\ q \in [1 .. n -> S] /\ \A i, j \in 1 .. n : i # j => q[i] # q[j]
  BY FS_CardinalityType DEF Orders
<1>2. Cardinality(1 .. n) = n /\ IsFiniteSet(1 .. n)
  BY <1>1, FS_Interval
<1> HIDE DEF n
<1>3. q \in Injection(1 .. n, S)
  BY <1>1 DEF Injection, IsInjective
<1>4. q \in Surjection(1 .. n, S)
  BY <1>2, <1>3, FS_Injection DEF n
<1>5. \A x \in S : \E i \in 1 .. n : q[i] = x
  BY <1>4 DEF Surjection
<1>6. q \in Seq(S) /\ DOMAIN q = 1 .. n /\ Len(q) = n
  BY <1>1
<1>7. \A x : (In(x, q) <=> x \in S) /\ ~Twice(x, q)
  BY <1>1, <1>5, <1>6 DEF In, Twice
<1>8. (q = <<>>) <=> (S = {})
  BY <1>1, <1>5, <1>6
<1> QED
  BY <1>6, <1>7, <1>8

LEMMA PastIs ==
  ASSUME NEW h \in MsPasts
  PROVE  /\ h.runs \in [MsMissions -> Nat] /\ h.unmarked \subseteq MsMissions
         /\ h.unheard \subseteq MsMissions
         /\ h.lost \subseteq MsMissions /\ h.overtaken \subseteq MsMissions
         /\ h.mail \in Seq(MsMessages)
         /\ h.cut \subseteq MsMessages /\ h.restarted \in BOOLEAN /\ h.told \in BOOLEAN
         /\ h.unseen \in BOOLEAN
         /\ h.since \in BOOLEAN /\ h.window \in BOOLEAN /\ h.overlap \in BOOLEAN
  BY DEF MsPasts

(* What each step writes into the history, and what it leaves.                        *)
NotesUnheard(s) == msHistory' = [msHistory EXCEPT !.unheard = s]
NotesUnmarked(s) == msHistory' = [msHistory EXCEPT !.unmarked = s]
NotesLost(s) == msHistory' = [msHistory EXCEPT !.lost = s]
NotesOvertaken(s) == msHistory' = [msHistory EXCEPT !.overtaken = s]
NotesRuns(r) == msHistory' = [msHistory EXCEPT !.runs = r]
NotesCut(s) == msHistory' = [msHistory EXCEPT !.cut = s]
NotesSince == msHistory' = [msHistory EXCEPT !.since = FALSE]
NotesSent(told, overlap) == msHistory' = [msHistory EXCEPT !.told = told, !.overlap = overlap]
NotesCleared(unseen) == msHistory' = [msHistory EXCEPT !.told = TRUE, !.unseen = unseen]
NotesFailed(window) == msHistory' = [msHistory EXCEPT !.told = FALSE, !.since = TRUE, !.window = window]
NotesRestarts(lost, cut, unseen, unheard) ==
    msHistory' = [msHistory EXCEPT !.lost = lost, !.cut = cut, !.restarted = TRUE, !.told = TRUE,
                                   !.unseen = unseen, !.unheard = unheard]
LEMMA NotesUnheardKeep ==
  ASSUME MsTyped, NEW s \in SUBSET MsMissions, NotesUnheard(s)
  PROVE  /\ msHistory' \in MsPasts /\ MailPast(msHistory') = MailPast(msHistory)
         /\ UpdatePast(msHistory') = UpdatePast(msHistory) /\ msHistory'.unheard = s
         /\ msHistory'.runs = msHistory.runs /\ msHistory'.unmarked = msHistory.unmarked
         /\ msHistory'.lost = msHistory.lost /\ msHistory'.overtaken = msHistory.overtaken
  BY DEF NotesUnheard, MsTyped, MsPasts, MailPast, UpdatePast
LEMMA NotesUnmarkedKeep ==
  ASSUME MsTyped, NEW s \in SUBSET MsMissions, NotesUnmarked(s)
  PROVE  /\ msHistory' \in MsPasts /\ MailPast(msHistory') = MailPast(msHistory)
         /\ UpdatePast(msHistory') = UpdatePast(msHistory) /\ msHistory'.unmarked = s
         /\ msHistory'.runs = msHistory.runs /\ msHistory'.unheard = msHistory.unheard
         /\ msHistory'.lost = msHistory.lost /\ msHistory'.overtaken = msHistory.overtaken
  BY DEF NotesUnmarked, MsTyped, MsPasts, MailPast, UpdatePast
LEMMA NotesLostKeep ==
  ASSUME MsTyped, NEW s \in SUBSET MsMissions, NotesLost(s)
  PROVE  /\ msHistory' \in MsPasts /\ MailPast(msHistory') = MailPast(msHistory)
         /\ UpdatePast(msHistory') = UpdatePast(msHistory) /\ msHistory'.lost = s
         /\ msHistory'.runs = msHistory.runs /\ msHistory'.unheard = msHistory.unheard
         /\ msHistory'.unmarked = msHistory.unmarked /\ msHistory'.overtaken = msHistory.overtaken
  BY DEF NotesLost, MsTyped, MsPasts, MailPast, UpdatePast
LEMMA NotesOvertakenKeep ==
  ASSUME MsTyped, NEW s \in SUBSET MsMissions, NotesOvertaken(s)
  PROVE  /\ msHistory' \in MsPasts /\ MailPast(msHistory') = MailPast(msHistory)
         /\ UpdatePast(msHistory') = UpdatePast(msHistory) /\ msHistory'.overtaken = s
         /\ msHistory'.runs = msHistory.runs /\ msHistory'.unheard = msHistory.unheard
         /\ msHistory'.unmarked = msHistory.unmarked /\ msHistory'.lost = msHistory.lost
  BY DEF NotesOvertaken, MsTyped, MsPasts, MailPast, UpdatePast
LEMMA NotesRunsKeep ==
  ASSUME MsTyped, NEW r \in [MsMissions -> Nat], NotesRuns(r)
  PROVE  /\ msHistory' \in MsPasts /\ MailPast(msHistory') = MailPast(msHistory)
         /\ UpdatePast(msHistory') = UpdatePast(msHistory) /\ msHistory'.runs = r
         /\ msHistory'.unheard = msHistory.unheard /\ msHistory'.unmarked = msHistory.unmarked
         /\ msHistory'.lost = msHistory.lost /\ msHistory'.overtaken = msHistory.overtaken
  BY DEF NotesRuns, MsTyped, MsPasts, MailPast, UpdatePast
LEMMA NotesCutKeep ==
  ASSUME MsTyped, NEW s \in SUBSET MsMessages, NotesCut(s)
  PROVE  /\ msHistory' \in MsPasts /\ MissionPast(msHistory') = MissionPast(msHistory)
         /\ UpdatePast(msHistory') = UpdatePast(msHistory)
         /\ msHistory'.cut = s /\ msHistory'.mail = msHistory.mail
  BY DEF NotesCut, MsTyped, MsPasts, MissionPast, UpdatePast
LEMMA NotesSinceKeep ==
  ASSUME MsTyped, NotesSince
  PROVE  /\ msHistory' \in MsPasts /\ MissionPast(msHistory') = MissionPast(msHistory)
         /\ MailPast(msHistory') = MailPast(msHistory)
         /\ msHistory'.restarted = msHistory.restarted /\ msHistory'.told = msHistory.told
         /\ msHistory'.unseen = msHistory.unseen
         /\ msHistory'.since = FALSE /\ msHistory'.window = msHistory.window
         /\ msHistory'.overlap = msHistory.overlap
  BY DEF NotesSince, MsTyped, MsPasts, MissionPast, MailPast
LEMMA NotesSentKeep ==
  ASSUME MsTyped, NEW told \in BOOLEAN, NEW overlap \in BOOLEAN, NotesSent(told, overlap)
  PROVE  /\ msHistory' \in MsPasts /\ MissionPast(msHistory') = MissionPast(msHistory)
         /\ MailPast(msHistory') = MailPast(msHistory)
         /\ msHistory'.restarted = msHistory.restarted /\ msHistory'.told = told
         /\ msHistory'.unseen = msHistory.unseen
         /\ msHistory'.since = msHistory.since /\ msHistory'.window = msHistory.window
         /\ msHistory'.overlap = overlap
  BY DEF NotesSent, MsTyped, MsPasts, MissionPast, MailPast
LEMMA NotesClearedKeep ==
  ASSUME MsTyped, NEW unseen \in BOOLEAN, NotesCleared(unseen)
  PROVE  /\ msHistory' \in MsPasts /\ MissionPast(msHistory') = MissionPast(msHistory)
         /\ MailPast(msHistory') = MailPast(msHistory)
         /\ msHistory'.restarted = msHistory.restarted /\ msHistory'.told = TRUE
         /\ msHistory'.unseen = unseen
         /\ msHistory'.since = msHistory.since /\ msHistory'.window = msHistory.window
         /\ msHistory'.overlap = msHistory.overlap
  BY DEF NotesCleared, MsTyped, MsPasts, MissionPast, MailPast
LEMMA NotesFailedKeep ==
  ASSUME MsTyped, NEW window \in BOOLEAN, NotesFailed(window)
  PROVE  /\ msHistory' \in MsPasts /\ MissionPast(msHistory') = MissionPast(msHistory)
         /\ MailPast(msHistory') = MailPast(msHistory)
         /\ msHistory'.restarted = msHistory.restarted /\ msHistory'.told = FALSE
         /\ msHistory'.unseen = msHistory.unseen
         /\ msHistory'.since = TRUE /\ msHistory'.window = window
         /\ msHistory'.overlap = msHistory.overlap
  BY DEF NotesFailed, MsTyped, MsPasts, MissionPast, MailPast
LEMMA CountersGo ==
  ASSUME MsTyped
  PROVE  /\ May("requests") /\ Counts("requests") =>
                /\ msFails' \in MsCounters /\ msFails'.requests = msFails.requests + 1
                /\ msFails'.crashes = msFails.crashes /\ msFails'.beats = msFails.beats
         /\ May("crashes") /\ Counts("crashes") =>
                /\ msFails' \in MsCounters /\ msFails'.crashes = msFails.crashes + 1
                /\ msFails'.requests = msFails.requests /\ msFails'.beats = msFails.beats
         /\ May("beats") /\ Counts("beats") =>
                /\ msFails' \in MsCounters /\ msFails'.beats = msFails.beats + 1
                /\ msFails'.crashes = msFails.crashes /\ msFails'.requests = msFails.requests
         /\ msFails.requests \in Nat /\ msFails.crashes \in Nat /\ msFails.beats \in 0 .. MsBeats
<1>1. May("beats") => msFails.beats < MsBeats
  BY DEF May, MsTyped, MsCounters
<1>2. MsBeats \in Nat
  BY MsAssumption
<1>3. /\ msFails \in MsCounters /\ msFails.requests \in Nat /\ msFails.crashes \in Nat
      /\ msFails.beats \in 0 .. MsBeats
  BY DEF MsTyped, MsCounters
<1>4. ASSUME Counts("requests")
      PROVE  /\ msFails' \in MsCounters /\ msFails'.requests = msFails.requests + 1
             /\ msFails'.crashes = msFails.crashes /\ msFails'.beats = msFails.beats
  BY <1>3, <1>4 DEF Counts, MsCounters
<1>5. ASSUME Counts("crashes")
      PROVE  /\ msFails' \in MsCounters /\ msFails'.crashes = msFails.crashes + 1
             /\ msFails'.requests = msFails.requests /\ msFails'.beats = msFails.beats
  BY <1>3, <1>5 DEF Counts, MsCounters
<1>6. ASSUME May("beats"), Counts("beats")
      PROVE  /\ msFails' \in MsCounters /\ msFails'.beats = msFails.beats + 1
             /\ msFails'.crashes = msFails.crashes /\ msFails'.requests = msFails.requests
  BY <1>1, <1>2, <1>3, <1>6 DEF Counts, MsCounters
<1> QED
  BY <1>3, <1>4, <1>5, <1>6

(* The poller holds missions between two of its polls, each once.                     *)
PollerInv ==
    /\ (msPc \in {"mark", "publish"}) <=> (msBatch # <<>>)
    /\ msNudge => msListening
    /\ \A m \in MsMissions : ~Twice(m, msBatch)

(* A mission whose marks all succeeded is handed out once, so it is published once    *)
(* and has one round; until then nothing is reported about it.                        *)
Reported(m) == \E r \in msReports : r.mission = m
HandedOutOnce(m) ==
    /\ msHistory.runs[m] <= 1 /\ ~Twice(m, msQueue)
    /\ In(m, msQueue) => msHistory.runs[m] = 0
    /\ msStatus[m] \in {"absent", "pending"} =>
           msHistory.runs[m] = 0 /\ ~In(m, msQueue) /\ ~msRound[m].on /\ ~Reported(m)
    /\ In(m, msBatch) => IF msPc = "publish" /\ m = Head(msBatch)
                         THEN msStatus[m] \notin {"absent", "pending"} ELSE msStatus[m] = "pending"
    /\ In(m, msBatch) => msHistory.runs[m] = 0 /\ ~In(m, msQueue)
MarkedOnce == \A m \in MsMissions \ msHistory.unmarked : HandedOutOnce(m)
RoundsRan == \A m \in MsMissions : msRound[m].on \/ Reported(m) => msHistory.runs[m] > 0

(* A mission that is not final is on its way through the worker, or something is on   *)
(* record that left it behind; a checkpoint on its way is followed by a result.       *)
Excused(m) == \/ m \in msHistory.lost \cup msHistory.overtaken
              \/ m \in msHistory.unmarked /\ msHistory.runs[m] > 0
Carries(m) == In(m, msQueue) \/ msRound[m].on \/ In(m, msBatch) \/ Reported(m)
Awaited(m) == msStatus[m] = "pending" /\ (msPc = "poll" \/ msNudge \/ m \in msHistory.unheard)
Watched == \A m \in MsMissions : msStatus[m] \notin Final \cup {"absent"} => Carries(m) \/ Excused(m) \/ Awaited(m)
Concluded(m) == \/ msRound[m].on \/ Excused(m) \/ msStatus[m] \in Final
                \/ \E q \in msReports : q.mission = m /\ q.status \in Final
CheckpointsEnd == \A r \in msReports : Concluded(r.mission)
MissionInv == PollerInv /\ MarkedOnce /\ RoundsRan /\ Watched /\ CheckpointsEnd

(* The last failure is still in updateStatus, and in what a heartbeat is about to     *)
(* send, until it is told; an update runs alone unless the history says otherwise.    *)
Regular == ~msHistory.window /\ ~msHistory.overlap /\ ~msHistory.restarted
UpdateInv ==
    /\ Regular /\ ~msHistory.told => msUpStatus = "failed" /\ msUpdate = 0
    /\ Regular /\ ~msHistory.told /\ msPc = "send" => HasTold
    /\ Regular => msUpdate <= 1
    /\ FailureSeen
    /\ msUpdate <= msFails.beats + 1 /\ (~msListening => msUpdate = 0)
    /\ msPc \in {"beat", "send"} => msUpdate <= msFails.beats

(* The messages are at the master, or what was handled of them and what is fetched    *)
(* are the queue up to a point, and what is past it is cut.                           *)
Prefix(s, t) == Len(s) <= Len(t) /\ \A k \in 1 .. Len(s) : s[k] = t[k]
CutFor(x) == x \in msHistory.cut /\ (msFails.requests + msFails.crashes > 0 \/ Before("reload", x, msHistory.mail))
MailInv ==
    LET mail == msHistory.mail IN
    \/ msMailbox = mail /\ msFetched = <<>> /\ msHandled = <<>>
    \/ /\ msMailbox = <<>> /\ Prefix(msHandled, mail)
       /\ IF msFetched = <<>>
          THEN \A k \in Len(msHandled) + 1 .. Len(mail) : mail[k] = "reload" \/ CutFor(mail[k])
          ELSE /\ Len(msHandled) + Len(msFetched) = Len(mail)
               /\ \A k \in 1 .. Len(msFetched) : msFetched[k] = mail[Len(msHandled) + k]

MInv == MsTyped /\ MissionInv /\ UpdateInv /\ MailInv

(* What a step leaves alone.                                                          *)
UpdatesStay == /\ UNCHANGED <<msUpdate, msUpStatus, msSent, msListening>>
               /\ UpdatePast(msHistory') = UpdatePast(msHistory) /\ msFails'.beats = msFails.beats
               /\ \/ msPc' = msPc
                  \/ msPc' # "send" /\ (msPc' = "beat" => ~msListening)
LEMMA UpdatesStayKeeps ==
  ASSUME MsTyped, UpdateInv, UpdatesStay
  PROVE  UpdateInv'
<1>1. msFails.beats \in Nat /\ msUpdate \in Nat
  BY CountersGo DEF MsTyped, MsCounters
<1> QED
  BY <1>1 DEF UpdateInv, UpdatesStay, UpdatePast, Regular, HasTold, FailureSeen

MailStays == /\ UNCHANGED <<msMailbox, msFetched, msHandled>> /\ MailPast(msHistory') = MailPast(msHistory)
             /\ msFails'.requests \in Nat /\ msFails'.crashes \in Nat
             /\ msFails'.requests >= msFails.requests /\ msFails'.crashes >= msFails.crashes
LEMMA MailStaysKeeps ==
  ASSUME MsTyped, MailInv, MailStays
  PROVE  MailInv'
<1>1. msHistory'.mail = msHistory.mail /\ msHistory'.cut = msHistory.cut
  BY DEF MailStays, MailPast
<1>2. msFails.requests \in Nat /\ msFails.crashes \in Nat
  BY CountersGo
<1>3. \A x : CutFor(x) => CutFor(x)'
  BY <1>1, <1>2 DEF CutFor, MailStays
<1> QED
  BY <1>1, <1>3 DEF MailInv, MailStays, Prefix

MissionsStay == /\ UNCHANGED <<msStatus, msBatch, msQueue, msRound, msReports, msNudge>>
                /\ MissionPast(msHistory') = MissionPast(msHistory) /\ (msListening => msListening')
                /\ \/ msPc' = msPc
                   \/ msPc \notin {"poll", "mark", "publish"} /\ msPc' \notin {"mark", "publish"}
LEMMA MissionsStayKeeps ==
  ASSUME MissionInv, MissionsStay
  PROVE  MissionInv'
<1>1. /\ msHistory'.runs = msHistory.runs /\ msHistory'.unmarked = msHistory.unmarked
      /\ msHistory'.unheard = msHistory.unheard /\ msHistory'.lost = msHistory.lost
      /\ msHistory'.overtaken = msHistory.overtaken
  BY DEF MissionsStay, MissionPast
<1>2. PollerInv'
  BY DEF MissionInv, MissionsStay, PollerInv
<1>3. \A m : (Reported(m)' <=> Reported(m)) /\ (Excused(m)' <=> Excused(m)) /\ (Carries(m)' <=> Carries(m))
  BY <1>1 DEF MissionsStay, Reported, Excused, Carries
<1>4. MarkedOnce' /\ RoundsRan'
  <2>1. \A m : HandedOutOnce(m) => HandedOutOnce(m)'
    BY <1>1, <1>3 DEF MissionsStay, HandedOutOnce
  <2> QED
    BY <1>1, <1>3, <2>1 DEF MissionInv, MissionsStay, MarkedOnce, RoundsRan
<1>5. Watched' /\ CheckpointsEnd'
  <2>1. \A m : (Awaited(m) => Awaited(m)') /\ (Concluded(m) => Concluded(m)')
    BY <1>1, <1>3 DEF MissionsStay, Awaited, Concluded
  <2> QED
    BY <1>3, <2>1 DEF MissionInv, MissionsStay, Watched, CheckpointsEnd
<1> QED
  BY <1>2, <1>4, <1>5 DEF MissionInv

StatusGoes(m, st) == msStatus' = [msStatus EXCEPT ![m] = st]
RoundGoes(m, r) == msRound' = [msRound EXCEPT ![m] = r]
LEMMA MsStatusGoes ==
  ASSUME MsTyped, NEW m \in MsMissions, NEW st \in MsStatuses, StatusGoes(m, st)
  PROVE  /\ msStatus' \in [MsMissions -> MsStatuses] /\ msStatus'[m] = st
         /\ \A n \in MsMissions : n # m => msStatus'[n] = msStatus[n]
  BY DEF MsTyped, StatusGoes
LEMMA MsRoundGoes ==
  ASSUME MsTyped, NEW m \in MsMissions, NEW r \in MsRounds, RoundGoes(m, r)
  PROVE  /\ msRound' \in [MsMissions -> MsRounds] /\ msRound'[m] = r
         /\ \A n \in MsMissions : n # m => msRound'[n] = msRound[n]
  BY DEF MsTyped, RoundGoes

LEMMA CreateKeeps ==
  ASSUME MInv, NEW m \in MsMissions, Create(m)
  PROVE  MInv'
<1> USE DEF MInv
<1>1. /\ msStatus[m] = "absent" /\ msStatus' = [msStatus EXCEPT ![m] = "pending"]
      /\ msNudge' = msListening
      /\ UNCHANGED <<msPc, msBatch, msListening, msQueue, msRound, msReports, msMailbox, msFetched, msHandled, msUpdate,
                     msUpStatus, msSent, msFails>>
  BY DEF Create, msMailVars, msUpdateVars
<1>2. /\ msStatus' \in [MsMissions -> MsStatuses] /\ msStatus'[m] = "pending"
      /\ \A n \in MsMissions : n # m => msStatus'[n] = msStatus[n]
  <2>1. "pending" \in MsStatuses
    BY DEF MsStatuses
  <2> QED
    BY <1>1, <2>1, MsStatusGoes DEF StatusGoes
<1>3. /\ msHistory' \in MsPasts /\ MailPast(msHistory') = MailPast(msHistory)
      /\ UpdatePast(msHistory') = UpdatePast(msHistory)
      /\ msHistory'.unheard = IF msListening THEN msHistory.unheard ELSE msHistory.unheard \cup {m}
      /\ msHistory'.runs = msHistory.runs /\ msHistory'.unmarked = msHistory.unmarked
      /\ msHistory'.lost = msHistory.lost /\ msHistory'.overtaken = msHistory.overtaken
  <2>1. msHistory \in MsPasts
    BY DEF MsTyped
  <2>2. CASE msListening
    BY <2>1, <2>2 DEF Create
  <2>3. CASE ~msListening
    <3> DEFINE u == msHistory.unheard \cup {m}
    <3>1. u \in SUBSET MsMissions
      BY <2>1, PastIs
    <3>2. msHistory' = [msHistory EXCEPT !.unheard = u]
      BY <2>3 DEF Create
    <3> HIDE DEF u
    <3>3. /\ msHistory' \in MsPasts /\ MailPast(msHistory') = MailPast(msHistory)
          /\ UpdatePast(msHistory') = UpdatePast(msHistory) /\ msHistory'.unheard = u
          /\ msHistory'.runs = msHistory.runs /\ msHistory'.unmarked = msHistory.unmarked
          /\ msHistory'.lost = msHistory.lost /\ msHistory'.overtaken = msHistory.overtaken
      BY <2>1, <3>1, <3>2, NotesUnheardKeep DEF NotesUnheard
    <3> QED
      BY <2>3, <3>3 DEF u
  <2> QED
    BY <2>2, <2>3
<1>4. MsTyped'
  BY <1>1, <1>2, <1>3 DEF MsTyped
<1>5. PollerInv'
  BY <1>1 DEF MissionInv, PollerInv, MsTyped
<1>6. \A n \in MsMissions : /\ Reported(n)' <=> Reported(n)
                            /\ Excused(n)' <=> Excused(n)
                            /\ Carries(n)' <=> Carries(n)
  BY <1>1, <1>3 DEF Reported, Excused, Carries
<1>7. MarkedOnce' /\ RoundsRan'
  <2>1. ASSUME NEW n \in MsMissions, HandedOutOnce(n) PROVE HandedOutOnce(n)'
    BY <1>1, <1>2, <1>3, <1>6, <2>1 DEF HandedOutOnce
  <2> QED
    BY <1>1, <1>3, <1>6, <2>1 DEF MissionInv, MarkedOnce, RoundsRan
<1>8. Watched'
  <2>1. \A n \in MsMissions : n # m /\ Awaited(n) => Awaited(n)'
    BY <1>1, <1>2, <1>3 DEF Awaited, MissionInv, PollerInv
  <2>2. Awaited(m)'
    BY <1>1, <1>2, <1>3 DEF Awaited
  <2> QED
    BY <1>2, <1>6, <2>1, <2>2 DEF MissionInv, Watched
<1>9. CheckpointsEnd'
  <2>1. \A n \in MsMissions : Concluded(n) => Concluded(n)'
    BY <1>1, <1>2, <1>6 DEF Concluded, Final
  <2>2. \A r \in msReports : r.mission \in MsMissions
    BY DEF MsTyped, MsSendable
  <2> QED
    BY <1>1, <2>1, <2>2 DEF MissionInv, CheckpointsEnd
<1>10. UpdateInv' /\ MailInv'
  <2>1. UpdatesStay /\ MailStays
    BY <1>1, <1>3, CountersGo DEF UpdatesStay, MailStays
  <2> QED
    BY <2>1, UpdatesStayKeeps, MailStaysKeeps
<1> QED
  BY <1>4, <1>5, <1>7, <1>8, <1>9, <1>10 DEF MissionInv

LEMMA PollKeeps ==
  ASSUME MInv, Poll
  PROVE  MInv'
<1> USE DEF MInv
<1>1. /\ msPc = "poll" /\ msBatch' \in Orders(Waiting) /\ msPc' = IF Waiting = {} THEN AfterPoll ELSE "mark"
      /\ UNCHANGED <<msStatus, msListening, msNudge, msQueue, msRound, msReports, msMailbox, msFetched, msHandled,
                     msUpdate, msUpStatus, msSent, msFails>>
  BY DEF Poll, msMailVars, msUpdateVars, msMissionVars
<1>2. /\ msHistory' \in MsPasts /\ MailPast(msHistory') = MailPast(msHistory)
      /\ UpdatePast(msHistory') = UpdatePast(msHistory)
      /\ msHistory'.unheard = msHistory.unheard \ Waiting
      /\ msHistory'.runs = msHistory.runs /\ msHistory'.unmarked = msHistory.unmarked
      /\ msHistory'.lost = msHistory.lost /\ msHistory'.overtaken = msHistory.overtaken
  <2>1. msHistory \in MsPasts
    BY DEF MsTyped
  <2>2. msHistory.unheard \ Waiting \in SUBSET MsMissions
    BY <2>1, PastIs
  <2>3. msHistory' = [msHistory EXCEPT !.unheard = msHistory.unheard \ Waiting]
    BY DEF Poll
  <2> QED
    BY <2>1, <2>2, <2>3, NotesUnheardKeep DEF NotesUnheard
<1>3. /\ msBatch' \in Seq(MsMissions) /\ ((msBatch' = <<>>) <=> (Waiting = {}))
      /\ \A n : (In(n, msBatch') <=> n \in Waiting) /\ ~Twice(n, msBatch')
  <2>1. Waiting \subseteq MsMissions /\ IsFiniteSet(Waiting)
    BY MsAssumption, FS_Subset DEF Waiting
  <2>2. /\ msBatch' \in Seq(Waiting) /\ ((msBatch' = <<>>) <=> (Waiting = {}))
        /\ \A n : (In(n, msBatch') <=> n \in Waiting) /\ ~Twice(n, msBatch')
    BY <1>1, <2>1, OrdersOf
  <2>3. Seq(Waiting) \subseteq Seq(MsMissions)
    BY <2>1
  <2> QED
    BY <2>2, <2>3
<1>4. /\ msPc' \in {"wait", "beat", "mark"} /\ (msPc' = "mark" <=> Waiting # {}) /\ (msPc' = "beat" => ~msListening)
      /\ msBatch = <<>> /\ \A n : ~In(n, msBatch)
  BY <1>1, NothingOccurs DEF AfterPoll, MissionInv, PollerInv
<1>5. MsTyped'
  BY <1>1, <1>2, <1>3, <1>4 DEF MsTyped
<1>6. PollerInv'
  BY <1>1, <1>3, <1>4 DEF MissionInv, PollerInv
<1>7. \A n \in MsMissions : /\ Reported(n)' <=> Reported(n)
                            /\ Excused(n)' <=> Excused(n)
                            /\ Carries(n) \/ msStatus[n] = "pending" => Carries(n)'
  BY <1>1, <1>2, <1>3, <1>4 DEF Reported, Excused, Carries, Waiting
<1>8. MarkedOnce' /\ RoundsRan'
  <2>1. ASSUME NEW n \in MsMissions, HandedOutOnce(n) PROVE HandedOutOnce(n)'
    BY <1>1, <1>2, <1>3, <1>4, <1>7, <2>1 DEF HandedOutOnce, Waiting
  <2> QED
    BY <1>1, <1>2, <1>7, <2>1 DEF MissionInv, MarkedOnce, RoundsRan
<1>9. Watched' /\ CheckpointsEnd'
  BY <1>1, <1>2, <1>7 DEF MissionInv, Watched, CheckpointsEnd, Concluded, Awaited, MsTyped,
     MsSendable, Excused
<1>10. UpdateInv' /\ MailInv'
  <2>1. UpdatesStay /\ MailStays
    BY <1>1, <1>2, <1>4, CountersGo DEF UpdatesStay, MailStays
  <2> QED
    BY <2>1, UpdatesStayKeeps, MailStaysKeeps
<1> QED
  BY <1>5, <1>6, <1>8, <1>9, <1>10 DEF MissionInv

LEMMA PollFailsKeeps ==
  ASSUME MInv, PollFails
  PROVE  MInv'
<1> USE DEF MInv
<1>1. /\ msPc = "poll" /\ msPc' = AfterPoll /\ May("requests") /\ Counts("requests")
      /\ UNCHANGED <<msStatus, msBatch, msListening, msNudge, msQueue, msRound, msReports, msMailbox, msFetched, msHandled,
                     msUpdate, msUpStatus, msSent>>
  BY DEF PollFails, msMailVars, msUpdateVars, msMissionVars
<1>2. /\ msHistory' \in MsPasts /\ MailPast(msHistory') = MailPast(msHistory)
      /\ UpdatePast(msHistory') = UpdatePast(msHistory)
      /\ msHistory'.unheard = msHistory.unheard \cup Waiting
      /\ msHistory'.runs = msHistory.runs /\ msHistory'.unmarked = msHistory.unmarked
      /\ msHistory'.lost = msHistory.lost /\ msHistory'.overtaken = msHistory.overtaken
  <2>1. msHistory \in MsPasts
    BY DEF MsTyped
  <2> DEFINE u == msHistory.unheard \cup Waiting
  <2>2. u \in SUBSET MsMissions
    BY <2>1, PastIs DEF Waiting
  <2>3. msHistory' = [msHistory EXCEPT !.unheard = u]
    BY DEF PollFails
  <2> HIDE DEF u
  <2>4. /\ msHistory' \in MsPasts /\ MailPast(msHistory') = MailPast(msHistory)
        /\ UpdatePast(msHistory') = UpdatePast(msHistory) /\ msHistory'.unheard = u
        /\ msHistory'.runs = msHistory.runs /\ msHistory'.unmarked = msHistory.unmarked
        /\ msHistory'.lost = msHistory.lost /\ msHistory'.overtaken = msHistory.overtaken
    BY <2>1, <2>2, <2>3, NotesUnheardKeep DEF NotesUnheard
  <2> QED
    BY <2>4 DEF u
<1>3. msPc' \in {"wait", "beat"} /\ (msPc' = "beat" => ~msListening)
  BY <1>1 DEF AfterPoll
<1>4. /\ msFails' \in MsCounters /\ msFails'.requests = msFails.requests + 1
      /\ msFails'.crashes = msFails.crashes /\ msFails'.beats = msFails.beats
  BY <1>1, CountersGo
<1>5. MsTyped'
  BY <1>1, <1>2, <1>3, <1>4 DEF MsTyped
<1>6. PollerInv'
  BY <1>1, <1>3 DEF MissionInv, PollerInv
<1>7. \A n \in MsMissions : /\ Reported(n)' <=> Reported(n)
                            /\ Excused(n)' <=> Excused(n)
                            /\ Carries(n)' <=> Carries(n)
  BY <1>1, <1>2 DEF Reported, Excused, Carries
<1>8. MarkedOnce' /\ RoundsRan'
  <2>1. ASSUME NEW n \in MsMissions, HandedOutOnce(n) PROVE HandedOutOnce(n)'
    BY <1>1, <1>2, <1>3, <1>7, <2>1 DEF HandedOutOnce
  <2> QED
    BY <1>1, <1>2, <1>7, <2>1 DEF MissionInv, MarkedOnce, RoundsRan
<1>9. Watched'
  BY <1>1, <1>2, <1>7 DEF MissionInv, Watched, Awaited, Waiting
<1>10. CheckpointsEnd'
  BY <1>1, <1>7 DEF MissionInv, CheckpointsEnd, Concluded, MsTyped, MsSendable
<1>11. UpdateInv' /\ MailInv'
  <2>1. UpdatesStay /\ MailStays
    BY <1>1, <1>2, <1>3, <1>4, CountersGo DEF UpdatesStay, MailStays
  <2> QED
    BY <2>1, UpdatesStayKeeps, MailStaysKeeps
<1> QED
  BY <1>5, <1>6, <1>8, <1>9, <1>10, <1>11 DEF MissionInv

LEMMA MarkKeeps ==
  ASSUME MInv, MarkInProgress
  PROVE  MInv'
<1> USE DEF MInv
<1> DEFINE m == Head(msBatch)
           u == msHistory.unmarked \cup {m}
<1>1. /\ msPc = "mark" /\ msPc' = "publish"
      /\ UNCHANGED <<msBatch, msListening, msNudge, msQueue, msRound, msReports, msMailbox, msFetched, msHandled,
                     msUpdate, msUpStatus, msSent>>
      /\ \/ StatusGoes(m, "in_progress") /\ UNCHANGED <<msFails, msHistory>>
         \/ UNCHANGED msStatus /\ May("requests") /\ Counts("requests") /\ NotesUnmarked(u)
  BY DEF MarkInProgress, msMailVars, msUpdateVars, StatusGoes, NotesUnmarked
<1>2. m \in MsMissions /\ In(m, msBatch) /\ msHistory \in MsPasts
  BY <1>1, TailOccurs DEF MissionInv, PollerInv, MsTyped
<1>3. u \in SUBSET MsMissions
  BY <1>2, PastIs
<1> HIDE DEF m, u
<1>4. /\ msHistory' \in MsPasts /\ MailPast(msHistory') = MailPast(msHistory)
      /\ UpdatePast(msHistory') = UpdatePast(msHistory)
      /\ msHistory'.runs = msHistory.runs /\ msHistory'.unheard = msHistory.unheard
      /\ msHistory'.lost = msHistory.lost /\ msHistory'.overtaken = msHistory.overtaken
      /\ msHistory'.unmarked = msHistory.unmarked \/ msHistory'.unmarked = u
  BY <1>1, <1>2, <1>3, NotesUnmarkedKeep
<1>5. /\ msStatus' \in [MsMissions -> MsStatuses] /\ \A n \in MsMissions : n # m => msStatus'[n] = msStatus[n]
      /\ msStatus'[m] = "in_progress" \/ (m \in msHistory'.unmarked /\ msStatus' = msStatus)
  <2>1. CASE StatusGoes(m, "in_progress")
    <3>1. "in_progress" \in MsStatuses
      BY DEF MsStatuses
    <3> QED
      BY <1>2, <2>1, <3>1, MsStatusGoes
  <2>2. CASE UNCHANGED msStatus /\ NotesUnmarked(u)
    <3>1. msHistory'.unmarked = u
      BY <2>2, <1>3, NotesUnmarkedKeep
    <3> QED
      BY <2>2, <3>1 DEF MsTyped, u
  <2> QED
    BY <1>1, <2>1, <2>2
<1>6. /\ msFails' \in MsCounters /\ msFails'.requests \in {msFails.requests, msFails.requests + 1}
      /\ msFails'.crashes = msFails.crashes /\ msFails'.beats = msFails.beats
  BY <1>1, CountersGo DEF MsTyped
<1>7. MsTyped'
  BY <1>1, <1>4, <1>5, <1>6 DEF MsTyped
<1>8. PollerInv'
  BY <1>1 DEF MissionInv, PollerInv
<1>9. /\ msHistory.unmarked \subseteq msHistory'.unmarked
      /\ \A n \in MsMissions : /\ Reported(n)' <=> Reported(n)
                               /\ Excused(n) => Excused(n)'
                               /\ Carries(n)' <=> Carries(n)
  BY <1>1, <1>4 DEF Reported, Excused, Carries, u
<1>10. MarkedOnce' /\ RoundsRan'
  <2>1. ASSUME NEW n \in MsMissions, n \notin msHistory'.unmarked, HandedOutOnce(n) PROVE HandedOutOnce(n)'
    <3>1. CASE n = m
      BY <1>1, <1>2, <1>4, <1>5, <1>9, <2>1, <3>1 DEF HandedOutOnce, m
    <3>2. CASE n # m
      BY <1>1, <1>4, <1>5, <1>9, <2>1, <3>2 DEF HandedOutOnce, m
    <3> QED
      BY <3>1, <3>2
  <2> QED
    BY <1>1, <1>4, <1>9, <2>1 DEF MissionInv, MarkedOnce, RoundsRan
<1>11. Watched'
  <2>1. Carries(m)
    BY <1>2 DEF Carries
  <2> QED
    BY <1>1, <1>2, <1>4, <1>5, <1>9, <2>1 DEF MissionInv, Watched, Awaited
<1>12. CheckpointsEnd'
  <2>1. ASSUME NEW r \in msReports PROVE Concluded(r.mission)'
    <3>1. r.mission \in MsMissions /\ Concluded(r.mission) /\ Reported(r.mission)
      BY DEF MissionInv, CheckpointsEnd, MsTyped, MsSendable, Reported
    <3>2. CASE r.mission # m
      BY <1>1, <1>5, <1>9, <3>1, <3>2 DEF Concluded
    <3>3. CASE r.mission = m /\ m \in msHistory.unmarked
      BY <1>9, <3>1, <3>3 DEF Concluded, MissionInv, RoundsRan, Excused
    <3>4. CASE r.mission = m /\ m \notin msHistory.unmarked
      <4>1. msStatus[m] = "pending"
        BY <1>1, <1>2, <3>4 DEF MissionInv, MarkedOnce, HandedOutOnce
      <4> QED
        BY <1>2, <3>1, <3>4, <4>1 DEF MissionInv, MarkedOnce, HandedOutOnce
    <3> QED
      BY <3>2, <3>3, <3>4
  <2> QED
    BY <1>1, <2>1 DEF CheckpointsEnd
<1>13. UpdateInv' /\ MailInv'
  <2>1. UpdatesStay /\ MailStays
    BY <1>1, <1>4, <1>6, CountersGo DEF UpdatesStay, MailStays
  <2> QED
    BY <2>1, UpdatesStayKeeps, MailStaysKeeps
<1> QED
  BY <1>7, <1>8, <1>10, <1>11, <1>12, <1>13 DEF MissionInv

LEMMA PublishKeeps ==
  ASSUME MInv, Publish
  PROVE  MInv'
<1> USE DEF MInv
<1> DEFINE m == Head(msBatch)
           u == msHistory.lost \cup {m}
<1>1. /\ msPc = "publish" /\ msBatch' = Tail(msBatch) /\ msPc' = IF Len(msBatch) = 1 THEN AfterPoll ELSE "mark"
      /\ UNCHANGED <<msStatus, msListening, msNudge, msRound, msReports, msMailbox, msFetched, msHandled,
                     msUpdate, msUpStatus, msSent>>
      /\ \/ msQueue' = Append(msQueue, m) /\ UNCHANGED <<msFails, msHistory>>
         \/ UNCHANGED msQueue /\ May("requests") /\ Counts("requests") /\ NotesLost(u)
  BY DEF Publish, msMailVars, msUpdateVars, NotesLost
<1>2. /\ m \in MsMissions /\ In(m, msBatch) /\ msHistory \in MsPasts /\ ~Twice(m, msBatch)
      /\ msBatch' \in Seq(MsMissions) /\ ((msBatch' = <<>>) <=> (Len(msBatch) = 1))
  <2>1. msBatch \in Seq(MsMissions) /\ msBatch # <<>> /\ msHistory \in MsPasts
    BY <1>1 DEF MissionInv, PollerInv, MsTyped
  <2>2. /\ m \in MsMissions /\ In(m, msBatch) /\ Tail(msBatch) \in Seq(MsMissions)
        /\ (Tail(msBatch) = <<>>) <=> (Len(msBatch) = 1)
    BY <2>1, TailOccurs
  <2>3. ~Twice(m, msBatch)
    BY <2>2 DEF MissionInv, PollerInv
  <2> QED
    BY <1>1, <2>1, <2>2, <2>3
<1>3. u \in SUBSET MsMissions
  BY <1>2, PastIs
<1>4. \A n \in MsMissions : /\ In(n, msBatch) <=> n = m \/ In(n, msBatch')
                            /\ n = m => ~In(n, msBatch')
                            /\ ~Twice(n, msBatch')
  <2>1. msBatch \in Seq(MsMissions) /\ msBatch # <<>> /\ \A n \in MsMissions : ~Twice(n, msBatch)
    BY <1>1 DEF MissionInv, PollerInv, MsTyped
  <2>2. /\ \A n : In(n, msBatch) <=> n = m \/ In(n, Tail(msBatch))
        /\ \A n : Twice(n, Tail(msBatch)) => Twice(n, msBatch)
        /\ \A n : n = m /\ In(n, Tail(msBatch)) => Twice(n, msBatch)
    BY <2>1, TailOccurs
  <2> QED
    BY <1>1, <2>1, <2>2
<1> HIDE DEF m, u
<1>5. /\ msPc' \in {"wait", "beat", "mark"} /\ (msPc' = "mark" <=> msBatch' # <<>>) /\ (msPc' = "beat" => ~msListening)
  BY <1>1, <1>2 DEF AfterPoll
<1>6. /\ msHistory' \in MsPasts /\ MailPast(msHistory') = MailPast(msHistory)
      /\ UpdatePast(msHistory') = UpdatePast(msHistory)
      /\ msHistory'.runs = msHistory.runs /\ msHistory'.unheard = msHistory.unheard
      /\ msHistory'.unmarked = msHistory.unmarked /\ msHistory'.overtaken = msHistory.overtaken
      /\ msHistory.lost \subseteq msHistory'.lost
  <2>1. CASE UNCHANGED msHistory
    BY <1>2, <2>1
  <2>2. CASE NotesLost(u)
    BY <2>2, <1>3, NotesLostKeep DEF u
  <2> QED
    BY <1>1, <2>1, <2>2
<1>7. /\ msQueue' \in Seq(MsMissions)
      /\ \/ /\ \A n \in MsMissions : In(n, msQueue') <=> n = m \/ In(n, msQueue)
            /\ \A n \in MsMissions : Twice(n, msQueue') => Twice(n, msQueue) \/ (n = m /\ In(m, msQueue))
         \/ msQueue' = msQueue /\ m \in msHistory'.lost
  <2>1. CASE msQueue' = Append(msQueue, m)
    <3>1. msQueue \in Seq(MsMissions)
      BY DEF MsTyped
    <3> QED
      BY <1>2, <2>1, <3>1, AppendOccurs
  <2>2. CASE UNCHANGED msQueue /\ NotesLost(u)
    <3>1. msHistory'.lost = u
      BY <2>2, <1>3, NotesLostKeep
    <3> QED
      BY <2>2, <3>1 DEF u, MsTyped
  <2> QED
    BY <1>1, <2>1, <2>2
<1>8. /\ msFails' \in MsCounters /\ msFails'.requests \in {msFails.requests, msFails.requests + 1}
      /\ msFails'.crashes = msFails.crashes /\ msFails'.beats = msFails.beats
  BY <1>1, CountersGo DEF MsTyped
<1>9. MsTyped'
  BY <1>1, <1>2, <1>5, <1>6, <1>7, <1>8 DEF MsTyped
<1>10. PollerInv'
  BY <1>1, <1>4, <1>5 DEF MissionInv, PollerInv
<1>11. \A n \in MsMissions : /\ Reported(n)' <=> Reported(n)
                             /\ Excused(n) => Excused(n)'
                             /\ Carries(n) => Carries(n)' \/ Excused(n)'
  BY <1>1, <1>4, <1>6, <1>7 DEF Reported, Excused, Carries
<1>12. MarkedOnce' /\ RoundsRan'
  <2>1. ASSUME NEW n \in MsMissions, HandedOutOnce(n) PROVE HandedOutOnce(n)'
    <3>1. CASE n = m
      BY <1>1, <1>2, <1>4, <1>5, <1>6, <1>7, <1>11, <2>1, <3>1 DEF HandedOutOnce, m
    <3>2. CASE n # m
      BY <1>1, <1>4, <1>5, <1>6, <1>7, <1>11, <2>1, <3>2 DEF HandedOutOnce, m
    <3> QED
      BY <3>1, <3>2
  <2> QED
    BY <1>1, <1>6, <1>11, <2>1 DEF MissionInv, MarkedOnce, RoundsRan
<1>13. Watched'
  BY <1>1, <1>6, <1>11 DEF MissionInv, Watched, Awaited
<1>14. CheckpointsEnd'
  BY <1>1, <1>11 DEF MissionInv, CheckpointsEnd, Concluded, MsTyped, MsSendable
<1>15. UpdateInv' /\ MailInv'
  <2>1. UpdatesStay /\ MailStays
    BY <1>1, <1>5, <1>6, <1>8, CountersGo DEF UpdatesStay, MailStays
  <2> QED
    BY <2>1, UpdatesStayKeeps, MailStaysKeeps
<1> QED
  BY <1>9, <1>10, <1>12, <1>13, <1>14, <1>15 DEF MissionInv

LEMMA MsRoundSteps ==
  /\ [on |-> TRUE, checkpoints |-> 0] \in MsRounds /\ [on |-> TRUE, checkpoints |-> 0].on = TRUE
  /\ NoRound \in MsRounds /\ NoRound.on = FALSE
  /\ \A r \in MsRounds : r.on \in BOOLEAN /\ r.checkpoints \in 0 .. MsCheckpoints
<1>1. MsCheckpoints \in Nat
  BY MsAssumption
<1> QED
  BY <1>1 DEF MsRounds, NoRound

LEMMA BeginRoundKeeps ==
  ASSUME MInv, BeginRound
  PROVE  MInv'
<1> USE DEF MInv
<1> DEFINE m == Head(msQueue)
           on == [on |-> TRUE, checkpoints |-> 0]
           u == [msHistory.runs EXCEPT ![m] = msHistory.runs[m] + 1]
<1>1. /\ msQueue # <<>> /\ ~msRound[m].on /\ RoundGoes(m, on) /\ NotesRuns(u)
      /\ msQueue' = Tail(msQueue)
      /\ UNCHANGED <<msStatus, msReports, msPc, msBatch, msListening, msNudge, msMailbox, msFetched, msHandled,
                     msUpdate, msUpStatus, msSent, msFails>>
  BY DEF BeginRound, msMailVars, msUpdateVars, msPollVars, RoundGoes, NotesRuns
<1>2. /\ m \in MsMissions /\ msQueue' \in Seq(MsMissions) /\ msHistory \in MsPasts
      /\ \A n : In(n, msQueue) <=> n = m \/ In(n, msQueue')
      /\ \A n : Twice(n, msQueue') => Twice(n, msQueue)
      /\ In(m, msQueue') => Twice(m, msQueue)
  BY <1>1, TailOccurs DEF MsTyped
<1>3. /\ u \in [MsMissions -> Nat] /\ u[m] = msHistory.runs[m] + 1
      /\ msHistory.runs \in [MsMissions -> Nat]
      /\ \A n \in MsMissions : n # m => u[n] = msHistory.runs[n]
  BY <1>2, PastIs
<1> HIDE DEF m, u, on
<1>4. on \in MsRounds /\ on.on = TRUE
  BY MsRoundSteps DEF on
<1>5. /\ msRound' \in [MsMissions -> MsRounds] /\ msRound'[m].on = TRUE
      /\ \A n \in MsMissions : n # m => msRound'[n] = msRound[n]
  BY <1>1, <1>2, <1>4, MsRoundGoes
<1>6. /\ msHistory' \in MsPasts /\ MailPast(msHistory') = MailPast(msHistory)
      /\ UpdatePast(msHistory') = UpdatePast(msHistory) /\ msHistory'.runs = u
      /\ msHistory'.unmarked = msHistory.unmarked /\ msHistory'.unheard = msHistory.unheard
      /\ msHistory'.lost = msHistory.lost /\ msHistory'.overtaken = msHistory.overtaken
  BY <1>1, <1>3, NotesRunsKeep
<1>7. MsTyped'
  BY <1>1, <1>2, <1>5, <1>6 DEF MsTyped
<1>8. PollerInv'
  BY <1>1 DEF MissionInv, PollerInv
<1>9. \A n \in MsMissions : /\ Reported(n)' <=> Reported(n)
                            /\ Excused(n) => Excused(n)'
                            /\ Carries(n) => Carries(n)'
  <2>1. ASSUME NEW n \in MsMissions
        PROVE  (Reported(n)' <=> Reported(n)) /\ (Carries(n) => Carries(n)')
    BY <1>1, <1>2, <1>5 DEF Reported, Carries
  <2>2. ASSUME NEW n \in MsMissions, msHistory.runs[n] > 0 PROVE msHistory'.runs[n] > 0
    BY <1>3, <1>6, <2>2
  <2>3. \A n \in MsMissions : Excused(n) => Excused(n)'
    BY <1>6, <2>2 DEF Excused
  <2> QED
    BY <2>1, <2>3
<1>10. MarkedOnce'
  <2>1. ASSUME NEW n \in MsMissions, HandedOutOnce(n) PROVE HandedOutOnce(n)'
    <3>1. CASE n = m
      <4>1. In(m, msQueue) /\ ~In(m, msQueue') /\ ~Twice(m, msQueue') /\ msHistory.runs[m] = 0
        BY <1>2, <2>1, <3>1 DEF HandedOutOnce
      <4>2. msStatus[m] \notin {"absent", "pending"} /\ ~In(m, msBatch)
        BY <2>1, <3>1, <4>1 DEF HandedOutOnce
      <4> QED
        BY <1>1, <1>3, <1>6, <3>1, <4>1, <4>2 DEF HandedOutOnce
    <3>2. CASE n # m
      BY <1>1, <1>2, <1>3, <1>5, <1>6, <1>9, <2>1, <3>2 DEF HandedOutOnce
    <3> QED
      BY <3>1, <3>2
  <2> QED
    BY <1>6, <2>1 DEF MissionInv, MarkedOnce
<1>11. RoundsRan'
  BY <1>3, <1>5, <1>6, <1>9 DEF MissionInv, RoundsRan
<1>12. Watched'
  BY <1>1, <1>6, <1>9 DEF MissionInv, Watched, Awaited
<1>13. CheckpointsEnd'
  BY <1>1, <1>5, <1>9 DEF MissionInv, CheckpointsEnd, Concluded, MsTyped, MsSendable
<1>14. UpdateInv' /\ MailInv'
  <2>1. UpdatesStay /\ MailStays
    BY <1>1, <1>6, CountersGo DEF UpdatesStay, MailStays
  <2> QED
    BY <2>1, UpdatesStayKeeps, MailStaysKeeps
<1> QED
  BY <1>7, <1>8, <1>10, <1>11, <1>12, <1>13, <1>14 DEF MissionInv

LEMMA ReportOfIs ==
  ASSUME MsTyped, NEW m \in MsMissions, NEW st \in {"running"} \cup Final
  PROVE  ReportOf(m, st) \in MsSendable /\ ReportOf(m, st).mission = m /\ ReportOf(m, st).status = st
<1>1. msRound[m].checkpoints \in 0 .. MsCheckpoints /\ msHistory.runs[m] \in Nat
  BY MsRoundSteps, PastIs DEF MsTyped
<1> QED
  BY <1>1 DEF ReportOf, MsSendable

LEMMA RoundReports ==
  ASSUME MInv, NEW m \in MsMissions, ReportCheckpoint(m) \/ ReportResult(m)
  PROVE  MInv'
<1> USE DEF MInv
<1>1. /\ msRound[m].on
      /\ UNCHANGED <<msStatus, msQueue, msPc, msBatch, msListening, msNudge, msMailbox, msFetched, msHandled,
                     msUpdate, msUpStatus, msSent, msFails, msHistory>>
  BY DEF ReportCheckpoint, ReportResult, msMailVars, msUpdateVars, msPollVars
<1>2. PICK st \in {"running"} \cup Final, r \in MsRounds :
          /\ msReports' = msReports \cup {ReportOf(m, st)} /\ RoundGoes(m, r) /\ (st \in Final \/ r.on)
  <2>1. CASE ReportCheckpoint(m)
    <3> DEFINE r == [msRound[m] EXCEPT !.checkpoints = msRound[m].checkpoints + 1]
    <3>1. r \in MsRounds /\ r.on
      <4>1. msRound[m] \in MsRounds /\ msRound[m].checkpoints + 1 \in 0 .. MsCheckpoints /\ MsCheckpoints \in Nat
        BY <2>1, MsRoundSteps, MsAssumption DEF ReportCheckpoint, MsTyped
      <4> QED
        BY <1>1, <4>1 DEF MsRounds
    <3>2. RoundGoes(m, r) /\ msReports' = msReports \cup {ReportOf(m, "running")}
      BY <2>1 DEF ReportCheckpoint, RoundGoes
    <3> QED
      BY <3>1, <3>2
  <2>2. CASE ReportResult(m)
    BY <2>2, MsRoundSteps DEF ReportResult, RoundGoes
  <2> QED
    BY <2>1, <2>2
<1> DEFINE q == ReportOf(m, st)
<1>3. q \in MsSendable /\ q.mission = m /\ q.status = st
  BY ReportOfIs
<1>4. msReports' = msReports \cup {q}
  BY <1>2
<1> HIDE DEF q
<1>5. /\ msRound' \in [MsMissions -> MsRounds] /\ msRound'[m] = r
      /\ \A n \in MsMissions : n # m => msRound'[n] = msRound[n]
  BY <1>2, MsRoundGoes
<1>6. MsTyped'
  BY <1>1, <1>3, <1>4, <1>5 DEF MsTyped
<1>7. PollerInv'
  BY <1>1 DEF MissionInv, PollerInv
<1>8. /\ \A n \in MsMissions : /\ n # m => (Reported(n)' <=> Reported(n))
                               /\ Excused(n)' <=> Excused(n)
                               /\ Carries(n) => Carries(n)'
      /\ Reported(m)'
  BY <1>1, <1>3, <1>4, <1>5 DEF Reported, Excused, Carries
<1>9. MarkedOnce'
  <2>1. ASSUME NEW n \in MsMissions, HandedOutOnce(n) PROVE HandedOutOnce(n)'
    <3>1. CASE n = m
      BY <1>1, <2>1, <3>1 DEF HandedOutOnce
    <3>2. CASE n # m
      BY <1>1, <1>5, <1>8, <2>1, <3>2 DEF HandedOutOnce
    <3> QED
      BY <3>1, <3>2
  <2> QED
    BY <1>1, <2>1 DEF MissionInv, MarkedOnce
<1>10. RoundsRan'
  BY <1>1, <1>5, <1>8 DEF MissionInv, RoundsRan
<1>11. Watched'
  BY <1>1, <1>8 DEF MissionInv, Watched, Awaited
<1>12. CheckpointsEnd'
  <2>1. Concluded(m)'
    BY <1>2, <1>3, <1>4, <1>5 DEF Concluded
  <2>2. ASSUME NEW n \in MsMissions, n # m, Concluded(n) PROVE Concluded(n)'
    BY <1>1, <1>4, <1>5, <1>8, <2>2 DEF Concluded
  <2>3. \A p \in msReports : p.mission \in MsMissions
    BY DEF MsTyped, MsSendable
  <2> QED
    BY <1>3, <1>4, <2>1, <2>2, <2>3 DEF MissionInv, CheckpointsEnd
<1>13. UpdateInv' /\ MailInv'
  <2>1. UpdatesStay /\ MailStays
    BY <1>1, CountersGo DEF UpdatesStay, MailStays
  <2> QED
    BY <2>1, UpdatesStayKeeps, MailStaysKeeps
<1> QED
  BY <1>6, <1>7, <1>9, <1>10, <1>11, <1>12, <1>13 DEF MissionInv

LEMMA ReportEnds ==
  ASSUME MInv, NEW r \in msReports, Arrives(r) \/ GetsLost(r)
  PROVE  MInv'
<1> USE DEF MInv
<1> DEFINE m == r.mission
<1>1. m \in MsMissions /\ r.status \in {"running"} \cup Final /\ Reported(m) /\ msHistory \in MsPasts
  BY DEF MsTyped, MsSendable, Reported
<1>2. /\ msReports' = msReports \ {r}
      /\ UNCHANGED <<msQueue, msRound, msPc, msBatch, msListening, msNudge, msMailbox, msFetched, msHandled,
                     msUpdate, msUpStatus, msSent>>
  BY DEF Arrives, GetsLost, msMailVars, msUpdateVars, msPollVars
<1> HIDE DEF m
<1>3. /\ msStatus' \in [MsMissions -> MsStatuses] /\ \A n \in MsMissions : n # m => msStatus'[n] = msStatus[n]
      /\ msStatus'[m] = msStatus[m] \/ msStatus'[m] = r.status
  <2>1. CASE Arrives(r)
    <3>1. r.status \in MsStatuses /\ StatusGoes(m, r.status)
      BY <1>1, <2>1 DEF Arrives, StatusGoes, MsStatuses, Final, m
    <3> QED
      BY <1>1, <3>1, MsStatusGoes
  <2>2. CASE GetsLost(r)
    BY <2>2 DEF GetsLost, MsTyped
  <2> QED
    BY <2>1, <2>2
<1>4. /\ msHistory' \in MsPasts /\ MailPast(msHistory') = MailPast(msHistory)
      /\ UpdatePast(msHistory') = UpdatePast(msHistory)
      /\ msHistory'.runs = msHistory.runs /\ msHistory'.unmarked = msHistory.unmarked
      /\ msHistory'.unheard = msHistory.unheard
      /\ msHistory.lost \cup msHistory.overtaken \subseteq msHistory'.lost \cup msHistory'.overtaken
      /\ \/ m \in msHistory'.lost \cup msHistory'.overtaken
         \/ r.status \in Final /\ msStatus'[m] \in Final
         \/ r.status \notin Final /\ msStatus[m] \notin Final
         \/ r.status \notin Final /\ msStatus'[m] \in Final
  <2>1. CASE Arrives(r)
    <3>1. msStatus'[m] = r.status
      <4>1. r.status \in MsStatuses /\ StatusGoes(m, r.status)
        BY <1>1, <2>1 DEF Arrives, StatusGoes, MsStatuses, Final, m
      <4> QED
        BY <1>1, <4>1, MsStatusGoes
    <3>2. CASE msStatus[m] \in Final /\ r.status \notin Final
      <4> DEFINE u == msHistory.overtaken \cup {m}
      <4>1. u \in SUBSET MsMissions
        BY <1>1, PastIs
      <4>2. NotesOvertaken(u)
        BY <2>1, <3>2 DEF Arrives, NotesOvertaken, m
      <4> HIDE DEF u
      <4>3. /\ msHistory' \in MsPasts /\ MailPast(msHistory') = MailPast(msHistory)
            /\ UpdatePast(msHistory') = UpdatePast(msHistory)
            /\ msHistory'.runs = msHistory.runs /\ msHistory'.unmarked = msHistory.unmarked
            /\ msHistory'.unheard = msHistory.unheard /\ msHistory'.lost = msHistory.lost
            /\ msHistory'.overtaken = u
        BY <4>1, <4>2, NotesOvertakenKeep
      <4> QED
        BY <4>3 DEF u
    <3>3. CASE ~(msStatus[m] \in Final /\ r.status \notin Final)
      <4>1. msHistory' = msHistory
        BY <2>1, <3>3 DEF Arrives, m
      <4> QED
        BY <1>1, <3>1, <3>3, <4>1
    <3> QED
      BY <3>2, <3>3
  <2>2. CASE GetsLost(r)
    <3>1. msStatus' = msStatus
      BY <2>2 DEF GetsLost
    <3>2. CASE r.status \in Final
      <4> DEFINE u == msHistory.lost \cup {m}
      <4>1. u \in SUBSET MsMissions
        BY <1>1, PastIs
      <4>2. NotesLost(u)
        BY <2>2, <3>2 DEF GetsLost, NotesLost, m
      <4> HIDE DEF u
      <4>3. /\ msHistory' \in MsPasts /\ MailPast(msHistory') = MailPast(msHistory)
            /\ UpdatePast(msHistory') = UpdatePast(msHistory)
            /\ msHistory'.runs = msHistory.runs /\ msHistory'.unmarked = msHistory.unmarked
            /\ msHistory'.unheard = msHistory.unheard /\ msHistory'.overtaken = msHistory.overtaken
            /\ msHistory'.lost = u
        BY <4>1, <4>2, NotesLostKeep
      <4> QED
        BY <4>3 DEF u
    <3>3. CASE r.status \notin Final
      <4>1. msHistory' = msHistory
        BY <2>2, <3>3 DEF GetsLost
      <4> QED
        BY <1>1, <3>1, <3>3, <4>1
    <3> QED
      BY <3>2, <3>3
  <2> QED
    BY <2>1, <2>2
<1>5. /\ msFails' \in MsCounters /\ msFails'.requests \in {msFails.requests, msFails.requests + 1}
      /\ msFails'.crashes = msFails.crashes /\ msFails'.beats = msFails.beats
  BY CountersGo DEF Arrives, GetsLost, MsTyped
<1>6. MsTyped'
  BY <1>2, <1>3, <1>4, <1>5 DEF MsTyped
<1>7. PollerInv'
  BY <1>2 DEF MissionInv, PollerInv
<1>8. \A n \in MsMissions : /\ n # m => (Reported(n)' <=> Reported(n))
                            /\ Reported(n)' => Reported(n)
                            /\ Excused(n) => Excused(n)'
                            /\ n # m => (Carries(n)' <=> Carries(n))
  BY <1>2, <1>4 DEF Reported, Excused, Carries, m
<1>9. MarkedOnce'
  <2>1. ASSUME NEW n \in MsMissions, HandedOutOnce(n) PROVE HandedOutOnce(n)'
    <3>1. CASE n = m
      <4>1. msStatus[m] \notin {"absent", "pending"} /\ msStatus'[m] \notin {"absent", "pending"}
        BY <1>1, <1>3, <2>1, <3>1 DEF HandedOutOnce, Final
      <4> QED
        BY <1>2, <1>4, <2>1, <3>1, <4>1 DEF HandedOutOnce
    <3>2. CASE n # m
      BY <1>2, <1>3, <1>4, <1>8, <2>1, <3>2 DEF HandedOutOnce
    <3> QED
      BY <3>1, <3>2
  <2> QED
    BY <1>4, <2>1 DEF MissionInv, MarkedOnce
<1>10. RoundsRan'
  BY <1>2, <1>4, <1>8 DEF MissionInv, RoundsRan
<1>11. Concluded(m)'
  <2>1. Concluded(m)
    BY DEF MissionInv, CheckpointsEnd, m
  <2>2. CASE m \in msHistory'.lost \cup msHistory'.overtaken
    BY <2>2 DEF Concluded, Excused
  <2>3. CASE msStatus'[m] \in Final
    BY <2>3 DEF Concluded
  <2>4. CASE r.status \notin Final /\ msStatus[m] \notin Final
    BY <1>1, <1>2, <1>8, <2>1, <2>4 DEF Concluded
  <2> QED
    BY <1>4, <2>2, <2>3, <2>4
<1>12. Watched'
  <2>1. msStatus'[m] \notin Final => Carries(m)' \/ Excused(m)'
    BY <1>11 DEF Concluded, Carries, Reported
  <2>2. \A n \in MsMissions : n # m => (Awaited(n)' <=> Awaited(n))
    BY <1>2, <1>3, <1>4 DEF Awaited
  <2> QED
    BY <1>3, <1>8, <2>1, <2>2 DEF MissionInv, Watched
<1>13. CheckpointsEnd'
  <2>1. ASSUME NEW n \in MsMissions, n # m, Concluded(n) PROVE Concluded(n)'
    BY <1>2, <1>3, <1>8, <2>1 DEF Concluded, m
  <2>2. \A p \in msReports : p.mission \in MsMissions
    BY DEF MsTyped, MsSendable
  <2> QED
    BY <1>2, <1>11, <2>1, <2>2 DEF MissionInv, CheckpointsEnd
<1>14. UpdateInv' /\ MailInv'
  <2>1. UpdatesStay /\ MailStays
    BY <1>2, <1>4, <1>5, CountersGo DEF UpdatesStay, MailStays
  <2> QED
    BY <2>1, UpdatesStayKeeps, MailStaysKeeps
<1> QED
  BY <1>6, <1>7, <1>9, <1>10, <1>12, <1>13, <1>14 DEF MissionInv

(* The heartbeats and the updates.                                                    *)
LEMMA PollerWaits ==
  ASSUME MInv, Beat \/ Nudged
  PROVE  MInv'
<1> USE DEF MInv
<1>1. /\ msPc = "wait" /\ msPc' \in {"beat", "poll"} /\ msNudge' \in BOOLEAN
      /\ (msNudge' => msNudge) /\ (msNudge /\ ~msNudge' => msPc' = "poll")
      /\ UNCHANGED <<msStatus, msBatch, msListening, msQueue, msRound, msReports, msMailbox, msFetched, msHandled,
                     msUpdate, msUpStatus, msSent, msHistory>>
  <2>1. CASE Beat
    BY <2>1 DEF Beat, msMailVars, msUpdateVars, msMissionVars, MsTyped
  <2>2. CASE Nudged
    BY <2>2 DEF Nudged, msMailVars, msUpdateVars, msMissionVars
  <2> QED
    BY <2>1, <2>2
<1>2. /\ msFails' \in MsCounters /\ msFails'.requests = msFails.requests
      /\ msFails'.crashes = msFails.crashes
      /\ IF msPc' = "beat" THEN msFails'.beats = msFails.beats + 1 ELSE msFails'.beats = msFails.beats
  BY CountersGo DEF Beat, Nudged, MsTyped
<1>3. MsTyped'
  BY <1>1, <1>2 DEF MsTyped
<1>4. PollerInv'
  <2>1. msBatch = <<>> /\ msPc' \notin {"mark", "publish"} /\ msBatch' = <<>>
    BY <1>1 DEF MissionInv, PollerInv
  <2>2. (msNudge' => msListening') /\ \A m \in MsMissions : ~Twice(m, msBatch)'
    BY <1>1, <2>1 DEF MissionInv, PollerInv, Twice
  <2> QED
    BY <2>1, <2>2 DEF PollerInv
<1>5. \A n \in MsMissions : /\ Reported(n)' <=> Reported(n)
                            /\ Excused(n)' <=> Excused(n)
                            /\ Carries(n)' <=> Carries(n)
                            /\ Awaited(n) => Awaited(n)'
                            /\ Concluded(n) => Concluded(n)'
  BY <1>1 DEF Reported, Excused, Carries, Awaited, Concluded
<1>6. MarkedOnce' /\ RoundsRan'
  <2>1. ASSUME NEW n \in MsMissions, HandedOutOnce(n) PROVE HandedOutOnce(n)'
    BY <1>1, <1>5, <2>1 DEF HandedOutOnce
  <2> QED
    BY <1>1, <1>5, <2>1 DEF MissionInv, MarkedOnce, RoundsRan
<1>7. Watched' /\ CheckpointsEnd'
  BY <1>1, <1>5 DEF MissionInv, Watched, CheckpointsEnd, MsTyped, MsSendable
<1>8. UpdateInv'
  <2>1. msFails.beats \in Nat /\ msUpdate \in Nat
    BY CountersGo DEF MsTyped, MsCounters
  <2> QED
    BY <1>1, <1>2, <2>1 DEF UpdateInv, Regular, HasTold, FailureSeen
<1>9. MailInv'
  <2>1. MailStays
    BY <1>1, <1>2, CountersGo DEF MailStays
  <2> QED
    BY <2>1, MailStaysKeeps
<1> QED
  BY <1>3, <1>4, <1>6, <1>7, <1>8, <1>9 DEF MissionInv

LEMMA StatusIsSent ==
  ASSUME MInv, ReadStatus \/ SendBeat
  PROVE  MInv'
<1> USE DEF MInv
<1>1. /\ UNCHANGED <<msStatus, msBatch, msNudge, msQueue, msRound, msReports, msMailbox, msFetched, msHandled>>
      /\ \/ /\ msPc = "beat" /\ msPc' = "send" /\ msSent' = msUpStatus /\ NotesSince
            /\ UNCHANGED <<msListening, msUpdate, msUpStatus, msFails>>
         \/ /\ msPc = "send" /\ msPc' = "wait" /\ msListening' = TRUE /\ UNCHANGED msSent
            /\ \/ May("requests") /\ Counts("requests") /\ UNCHANGED <<msUpdate, msUpStatus, msHistory>>
               \/ /\ msUpdate' = msUpdate + 1 /\ UNCHANGED <<msUpStatus, msFails>>
                  /\ NotesSent(msHistory.told \/ HasTold, msHistory.overlap \/ msUpdate > 0)
               \/ /\ msUpStatus' = "idle" /\ UNCHANGED <<msUpdate, msFails>>
                  /\ NotesCleared(msHistory.unseen \/ ~(msHistory.told \/ HasTold))
  BY DEF ReadStatus, SendBeat, msMailVars, msMissionVars, NotesSince, NotesSent, NotesCleared
<1>2. /\ msHistory.told \in BOOLEAN /\ msHistory.unseen \in BOOLEAN /\ msHistory.overlap \in BOOLEAN
      /\ HasTold \in BOOLEAN /\ (msUpdate > 0) \in BOOLEAN /\ msUpdate \in Nat
      /\ msFails.beats \in Nat
      /\ msHistory \in MsPasts
  <2>1. msHistory \in MsPasts /\ msUpdate \in Nat
    BY DEF MsTyped
  <2>2. msFails.beats \in Nat
    BY CountersGo
  <2> QED
    BY <2>1, <2>2, PastIs DEF HasTold
<1>3. /\ msHistory' \in MsPasts /\ MissionPast(msHistory') = MissionPast(msHistory)
      /\ MailPast(msHistory') = MailPast(msHistory)
  <2>1. CASE UNCHANGED msHistory
    BY <1>2, <2>1
  <2>2. CASE NotesSince
    BY <2>2, NotesSinceKeep
  <2>3. CASE NotesSent(msHistory.told \/ HasTold, msHistory.overlap \/ msUpdate > 0)
    <3> DEFINE told == msHistory.told \/ HasTold
               overlap == msHistory.overlap \/ msUpdate > 0
    <3>1. told \in BOOLEAN /\ overlap \in BOOLEAN /\ NotesSent(told, overlap)
      BY <1>2, <2>3
    <3> HIDE DEF told, overlap
    <3> QED
      BY <3>1, NotesSentKeep
  <2>4. CASE NotesCleared(msHistory.unseen \/ ~(msHistory.told \/ HasTold))
    <3> DEFINE unseen == msHistory.unseen \/ ~(msHistory.told \/ HasTold)
    <3>1. unseen \in BOOLEAN /\ NotesCleared(unseen)
      BY <1>2, <2>4
    <3> HIDE DEF unseen
    <3> QED
      BY <3>1, NotesClearedKeep
  <2> QED
    BY <1>1, <2>1, <2>2, <2>3, <2>4
<1>4. /\ msFails' \in MsCounters /\ msFails'.requests \in {msFails.requests, msFails.requests + 1}
      /\ msFails'.crashes = msFails.crashes /\ msFails'.beats = msFails.beats
  BY <1>1, CountersGo DEF MsTyped
<1>5. MsTyped'
  <2>1. msUpdate' \in Nat /\ msUpStatus' \in {"idle", "failed"} /\ msSent' \in {"idle", "failed"}
    BY <1>1, <1>2 DEF MsTyped
  <2>2. msPc' \in {"poll", "mark", "publish", "beat", "send", "wait"} /\ msListening' \in BOOLEAN
    BY <1>1 DEF MsTyped
  <2> QED
    BY <1>1, <1>3, <1>4, <2>1, <2>2 DEF MsTyped
<1>6. MissionInv' /\ MailInv'
  <2>1. MissionsStay /\ MailStays
    BY <1>1, <1>3, <1>4, CountersGo DEF MissionsStay, MailStays
  <2> QED
    BY <2>1, MissionsStayKeeps, MailStaysKeeps
<1>7. UpdateInv'
  <2>1. CASE msPc = "beat"
    <3>1. /\ NotesSince /\ msPc' = "send" /\ msSent' = msUpStatus
          /\ UNCHANGED <<msListening, msUpdate, msUpStatus, msFails>>
      BY <1>1, <2>1
    <3>2. /\ msHistory'.restarted = msHistory.restarted /\ msHistory'.told = msHistory.told
          /\ msHistory'.unseen = msHistory.unseen /\ msHistory'.since = FALSE
          /\ msHistory'.window = msHistory.window /\ msHistory'.overlap = msHistory.overlap
      BY <3>1, NotesSinceKeep
    <3> QED
      BY <2>1, <3>1, <3>2 DEF UpdateInv, Regular, HasTold, FailureSeen
  <2>2. CASE msPc = "send" /\ UNCHANGED <<msUpdate, msUpStatus, msHistory>>
    BY <1>1, <1>2, <1>4, <2>2 DEF UpdateInv, Regular, FailureSeen
  <2>3. CASE msPc = "send" /\ msUpdate' = msUpdate + 1 /\ NotesSent(msHistory.told \/ HasTold, msHistory.overlap \/ msUpdate > 0)
    <3> DEFINE told == msHistory.told \/ HasTold
               overlap == msHistory.overlap \/ msUpdate > 0
    <3>1. told \in BOOLEAN /\ overlap \in BOOLEAN /\ NotesSent(told, overlap)
      BY <1>2, <2>3
    <3> HIDE DEF told, overlap
    <3>2. /\ msHistory'.restarted = msHistory.restarted /\ msHistory'.told = told
          /\ msHistory'.unseen = msHistory.unseen /\ msHistory'.window = msHistory.window
          /\ msHistory'.overlap = overlap
      BY <3>1, NotesSentKeep
    <3>3. Regular' => Regular /\ msUpdate = 0 /\ told
      BY <1>2, <2>3, <3>2 DEF Regular, UpdateInv, told, overlap
    <3>4. FailureSeen'
      BY <3>2 DEF UpdateInv, FailureSeen, overlap
    <3> QED
      BY <1>1, <1>2, <1>4, <2>3, <3>2, <3>3, <3>4 DEF UpdateInv
  <2>4. CASE /\ msPc = "send" /\ msUpStatus' = "idle" /\ UNCHANGED msUpdate
             /\ NotesCleared(msHistory.unseen \/ ~(msHistory.told \/ HasTold))
    <3> DEFINE unseen == msHistory.unseen \/ ~(msHistory.told \/ HasTold)
    <3>1. unseen \in BOOLEAN /\ NotesCleared(unseen)
      BY <1>2, <2>4
    <3> HIDE DEF unseen
    <3>2. /\ msHistory'.restarted = msHistory.restarted /\ msHistory'.told = TRUE
          /\ msHistory'.unseen = unseen /\ msHistory'.window = msHistory.window
          /\ msHistory'.overlap = msHistory.overlap
      BY <3>1, NotesClearedKeep
    <3>3. Regular' <=> Regular
      BY <3>2 DEF Regular
    <3>4. FailureSeen'
      BY <2>4, <3>2 DEF UpdateInv, FailureSeen, unseen, Regular
    <3> QED
      BY <1>1, <1>2, <1>4, <2>4, <3>2, <3>3, <3>4 DEF UpdateInv
  <2> QED
    BY <1>1, <2>1, <2>2, <2>3, <2>4
<1> QED
  BY <1>5, <1>6, <1>7

LEMMA EndUpdateKeeps ==
  ASSUME MInv, EndUpdate
  PROVE  MInv'
<1> USE DEF MInv
<1>1. /\ UNCHANGED <<msStatus, msBatch, msNudge, msQueue, msRound, msReports, msMailbox, msFetched, msHandled, msPc,
                     msListening, msSent, msFails>>
      /\ msUpdate > 0 /\ msUpdate' = msUpdate - 1
      /\ \/ msUpStatus' = "failed" /\ NotesFailed(msHistory.window \/ msPc = "send")
         \/ msUpStatus' = "idle" /\ NotesCleared(msHistory.unseen \/ ~msHistory.told)
  BY DEF EndUpdate, msMailVars, msMissionVars, msPollVars, NotesFailed, NotesCleared
<1>2. /\ msHistory.told \in BOOLEAN /\ msHistory.unseen \in BOOLEAN /\ msHistory.window \in BOOLEAN
      /\ msUpdate \in Nat /\ msFails.beats \in Nat
  <2>1. msHistory \in MsPasts /\ msUpdate \in Nat
    BY DEF MsTyped
  <2>2. msFails.beats \in Nat
    BY CountersGo
  <2> QED
    BY <2>1, <2>2, PastIs
<1>3. CASE msUpStatus' = "failed" /\ NotesFailed(msHistory.window \/ msPc = "send")
  <2> DEFINE window == msHistory.window \/ msPc = "send"
  <2>1. window \in BOOLEAN /\ NotesFailed(window)
    BY <1>2, <1>3
  <2> HIDE DEF window
  <2>2. /\ msHistory' \in MsPasts /\ MissionPast(msHistory') = MissionPast(msHistory)
        /\ MailPast(msHistory') = MailPast(msHistory)
        /\ msHistory'.restarted = msHistory.restarted /\ msHistory'.unseen = msHistory.unseen
        /\ msHistory'.window = window /\ msHistory'.overlap = msHistory.overlap
    BY <2>1, NotesFailedKeep
  <2>3. Regular' => Regular /\ msPc # "send"
    BY <2>2 DEF Regular, window
  <2>4. FailureSeen'
    BY <2>2 DEF UpdateInv, FailureSeen, window
  <2>5. UpdateInv'
    BY <1>1, <1>2, <1>3, <2>3, <2>4 DEF UpdateInv
  <2>6. MsTyped'
    BY <1>1, <1>2, <1>3, <2>2 DEF MsTyped
  <2>7. MissionsStay /\ MailStays
    BY <1>1, <2>2, CountersGo DEF MissionsStay, MailStays
  <2> QED
    BY <2>5, <2>6, <2>7, MissionsStayKeeps, MailStaysKeeps
<1>4. CASE msUpStatus' = "idle" /\ NotesCleared(msHistory.unseen \/ ~msHistory.told)
  <2> DEFINE unseen == msHistory.unseen \/ ~msHistory.told
  <2>1. unseen \in BOOLEAN /\ NotesCleared(unseen)
    BY <1>2, <1>4
  <2> HIDE DEF unseen
  <2>2. /\ msHistory' \in MsPasts /\ MissionPast(msHistory') = MissionPast(msHistory)
        /\ MailPast(msHistory') = MailPast(msHistory)
        /\ msHistory'.restarted = msHistory.restarted /\ msHistory'.unseen = unseen
        /\ msHistory'.told = TRUE
        /\ msHistory'.window = msHistory.window /\ msHistory'.overlap = msHistory.overlap
    BY <2>1, NotesClearedKeep
  <2>3. Regular' <=> Regular
    BY <2>2 DEF Regular
  <2>4. Regular => msHistory.told
    BY <1>1, <1>2 DEF UpdateInv
  <2>5. FailureSeen'
    BY <2>2, <2>4 DEF UpdateInv, FailureSeen, unseen, Regular
  <2>6. UpdateInv'
    BY <1>1, <1>2, <1>4, <2>2, <2>3, <2>5 DEF UpdateInv
  <2>7. MsTyped'
    BY <1>1, <1>2, <1>4, <2>2 DEF MsTyped
  <2>8. MissionsStay /\ MailStays
    BY <1>1, <2>2, CountersGo DEF MissionsStay, MailStays
  <2> QED
    BY <2>6, <2>7, <2>8, MissionsStayKeeps, MailStaysKeeps
<1> QED
  BY <1>1, <1>3, <1>4

(* The messages.                                                                      *)
LEMMA FetchKeeps ==
  ASSUME MInv, FetchMessages
  PROVE  MInv'
<1> USE DEF MInv
<1> DEFINE all == {msMailbox[k] : k \in DOMAIN msMailbox}
           u == msHistory.cut \cup all
<1>1. /\ msFetched = <<>> /\ msMailbox # <<>> /\ msMailbox' = <<>>
      /\ UNCHANGED <<msStatus, msBatch, msNudge, msQueue, msRound, msReports, msHandled, msPc, msListening, msUpdate,
                     msUpStatus, msSent>>
      /\ \/ msFetched' = msMailbox /\ UNCHANGED <<msFails, msHistory>>
         \/ May("requests") /\ Counts("requests") /\ UNCHANGED msFetched /\ NotesCut(u)
  BY DEF FetchMessages, msUpdateVars, msMissionVars, msPollVars, NotesCut
<1>2. msMailbox = msHistory.mail /\ msHandled = <<>> /\ msMailbox \in Seq(MsMessages) /\ msHistory \in MsPasts
  BY <1>1 DEF MailInv, MsTyped
<1>3. u \in SUBSET MsMessages /\ \A k \in 1 .. Len(msMailbox) : msMailbox[k] \in u
  BY <1>2, PastIs
<1> HIDE DEF u
<1>4. CASE msFetched' = msMailbox /\ UNCHANGED <<msFails, msHistory>>
  <2>1. MsTyped'
    BY <1>1, <1>2, <1>4, NothingOccurs DEF MsTyped
  <2>2. MissionsStay /\ UpdatesStay
    BY <1>1, <1>4 DEF MissionsStay, UpdatesStay
  <2>3. MailInv'
    BY <1>1, <1>2, <1>4 DEF MailInv, Prefix
  <2> QED
    BY <2>1, <2>2, <2>3, MissionsStayKeeps, UpdatesStayKeeps
<1>5. CASE May("requests") /\ Counts("requests") /\ UNCHANGED msFetched /\ NotesCut(u)
  <2>1. /\ msHistory' \in MsPasts /\ MissionPast(msHistory') = MissionPast(msHistory)
        /\ UpdatePast(msHistory') = UpdatePast(msHistory) /\ msHistory'.cut = u
        /\ msHistory'.mail = msHistory.mail
    BY <1>3, <1>5, NotesCutKeep
  <2>2. /\ msFails' \in MsCounters /\ msFails'.requests = msFails.requests + 1
        /\ msFails'.crashes = msFails.crashes
        /\ msFails'.beats = msFails.beats /\ msFails.requests \in Nat /\ msFails.crashes \in Nat
    BY <1>5, CountersGo
  <2>3. MsTyped'
    BY <1>1, <1>5, <2>1, <2>2, NothingOccurs DEF MsTyped
  <2>4. MissionsStay /\ UpdatesStay
    BY <1>1, <2>1, <2>2 DEF MissionsStay, UpdatesStay
  <2>5. MailInv'
    <3>1. msFails'.requests + msFails'.crashes > 0
      BY <2>2
    <3>2. (\A k \in 1 .. Len(msHistory.mail) : CutFor(msHistory.mail[k]))'
      BY <1>2, <1>3, <2>1, <3>1 DEF CutFor
    <3>3. Len(msHandled) = 0 /\ msHandled' = msHandled /\ Len(msHistory.mail) \in Nat
      BY <1>1, <1>2
    <3>4. msMailbox' = <<>> /\ msFetched' = <<>> /\ Prefix(msHandled, msHistory.mail)'
      BY <1>1, <1>5, <2>1, <3>3 DEF Prefix
    <3>5. (\A k \in Len(msHandled) + 1 .. Len(msHistory.mail) : CutFor(msHistory.mail[k]))'
      BY <2>1, <3>2, <3>3
    <3> QED
      BY <3>4, <3>5 DEF MailInv
  <2> QED
    BY <2>3, <2>4, <2>5, MissionsStayKeeps, UpdatesStayKeeps
<1> QED
  BY <1>1, <1>4, <1>5

LEMMA HandleKeeps ==
  ASSUME MInv, Handle
  PROVE  MInv'
<1> USE DEF MInv
<1>1. /\ msFetched # <<>> /\ msFetched' = Tail(msFetched)
      /\ msHandled' = Append(msHandled, Head(msFetched))
      /\ UNCHANGED <<msStatus, msBatch, msNudge, msQueue, msRound, msReports, msMailbox, msPc, msListening, msUpdate,
                     msUpStatus, msSent, msFails, msHistory>>
  BY DEF Handle, msUpdateVars, msMissionVars, msPollVars
<1>2. /\ msFetched \in Seq(MsMessages) /\ msHandled \in Seq(MsMessages)
      /\ msHistory.mail \in Seq(MsMessages)
  BY PastIs DEF MsTyped
<1>3. /\ Head(msFetched) = msFetched[1] /\ msFetched' \in Seq(MsMessages)
      /\ msHandled' \in Seq(MsMessages)
      /\ Len(msFetched') = Len(msFetched) - 1 /\ Len(msFetched) \in Nat \ {0}
      /\ Len(msHandled) \in Nat
      /\ Len(msHandled') = Len(msHandled) + 1 /\ Len(msHistory.mail) \in Nat
      /\ \A k \in 1 .. Len(msFetched') : msFetched'[k] = msFetched[k + 1]
      /\ \A k \in 1 .. Len(msHandled) : msHandled'[k] = msHandled[k]
      /\ msHandled'[Len(msHandled) + 1] = msFetched[1]
      /\ (msFetched' = <<>> => Len(msFetched) = 1)
  <2>1. Head(msFetched) \in MsMessages /\ Head(msFetched) = msFetched[1] /\ Len(msFetched) \in Nat \ {0}
    BY <1>1, <1>2
  <2>2. /\ msHandled' \in Seq(MsMessages) /\ Len(msHandled') = Len(msHandled) + 1
        /\ Len(msHandled) \in Nat
        /\ \A k \in 1 .. Len(msHandled) : msHandled'[k] = msHandled[k]
        /\ msHandled'[Len(msHandled) + 1] = Head(msFetched)
    BY <1>1, <1>2, <2>1
  <2>3. /\ msFetched' \in Seq(MsMessages) /\ Len(msFetched') = Len(msFetched) - 1
        /\ \A k \in 1 .. Len(msFetched') : msFetched'[k] = msFetched[k + 1]
    BY <1>1, <1>2, <2>1
  <2>4. msFetched' = <<>> => Len(msFetched) = 1
    BY <1>1, <1>2, TailOccurs
  <2>5. Len(msHistory.mail) \in Nat
    BY <1>2
  <2> QED
    BY <2>1, <2>2, <2>3, <2>4, <2>5
<1>4. MsTyped'
  BY <1>1, <1>3 DEF MsTyped
<1>5. MissionsStay /\ UpdatesStay
  BY <1>1 DEF MissionsStay, UpdatesStay
<1>6. /\ msMailbox = <<>> /\ Prefix(msHandled, msHistory.mail)
      /\ Len(msHandled) + Len(msFetched) = Len(msHistory.mail)
      /\ \A k \in 1 .. Len(msFetched) : msFetched[k] = msHistory.mail[Len(msHandled) + k]
  BY <1>1 DEF MailInv
<1>7. Prefix(msHandled, msHistory.mail)'
  <2>1. msHandled'[Len(msHandled) + 1] = msHistory.mail[Len(msHandled) + 1]
    <3>1. 1 \in 1 .. Len(msFetched)
      BY <1>3
    <3> QED
      BY <1>3, <1>6, <3>1
  <2> QED
    BY <1>1, <1>3, <1>6, <2>1 DEF Prefix
<1>8. CASE msFetched' = <<>>
  <2>1. Len(msHandled') = Len(msHistory.mail)
    BY <1>3, <1>6, <1>8
  <2>2. Len(msHandled') + 1 .. Len(msHistory'.mail) = {}
    BY <1>1, <1>3, <2>1
  <2> QED
    BY <1>1, <1>4, <1>5, <1>6, <1>7, <1>8, <2>2, MissionsStayKeeps, UpdatesStayKeeps DEF MailInv
<1>9. CASE msFetched' # <<>>
  <2>1. Len(msHandled') + Len(msFetched') = Len(msHistory'.mail)
    <3>1. /\ Len(msHandled') = Len(msHandled) + 1 /\ Len(msFetched') = Len(msFetched) - 1
          /\ Len(msHandled) \in Nat /\ Len(msFetched) \in Nat
      BY <1>3
    <3>2. Len(msHandled) + Len(msFetched) = Len(msHistory'.mail)
      BY <1>1, <1>6
    <3> QED
      BY <3>1, <3>2
  <2>2. \A k \in 1 .. Len(msFetched') : msFetched'[k] = msHistory'.mail[Len(msHandled') + k]
    <3>1. ASSUME NEW k \in 1 .. Len(msFetched')
          PROVE  msFetched'[k] = msHistory.mail[Len(msHandled') + k]
      <4>1. k + 1 \in 1 .. Len(msFetched) /\ Len(msHandled) + (k + 1) = Len(msHandled') + k
        BY <1>3
      <4>2. msFetched[k + 1] = msHistory.mail[Len(msHandled) + (k + 1)]
        BY <1>6, <4>1
      <4> QED
        BY <1>3, <4>1, <4>2
    <3> QED
      BY <1>1, <3>1
  <2>3. MailInv'
    BY <1>1, <1>6, <1>7, <1>9, <2>1, <2>2 DEF MailInv
  <2> QED
    BY <1>4, <1>5, <2>3, MissionsStayKeeps, UpdatesStayKeeps
<1> QED
  BY <1>8, <1>9

(* A restart: what the worker held is lost, or was cut, on record.                    *)
LEMMA CarriedIs ==
  ASSUME MsTyped
  PROVE  /\ Carried \subseteq MsMissions
         /\ \A m \in MsMissions : In(m, msQueue) \/ msRound[m].on \/ In(m, msBatch) => m \in Carried
         /\ \A q \in msReports : q.status \in Final => q.mission \in Carried
<1>1. \A k \in DOMAIN msQueue : msQueue[k] \in MsMissions
  BY DEF MsTyped
<1>2. \A k \in DOMAIN msBatch : msBatch[k] \in MsMissions
  BY DEF MsTyped
<1>3. \A q \in msReports : q.mission \in MsMissions
  BY DEF MsTyped, MsSendable
<1>4. Carried \subseteq MsMissions
  BY <1>1, <1>2, <1>3 DEF Carried
<1>5. \A m \in MsMissions : In(m, msQueue) \/ msRound[m].on \/ In(m, msBatch) => m \in Carried
  BY DEF Carried, In
<1>6. \A q \in msReports : q.status \in Final => q.mission \in Carried
  BY DEF Carried
<1> QED
  BY <1>4, <1>5, <1>6

LEMMA MailAfterRestart ==
  ASSUME MsTyped, MailInv, msFetched' = <<>>, UNCHANGED <<msMailbox, msHandled>>,
         msHistory'.cut = msHistory.cut \cup MailLost, msHistory'.mail = msHistory.mail,
         msFails'.requests = msFails.requests, msFails'.crashes \in {msFails.crashes, msFails.crashes + 1},
         msFails'.crashes = msFails.crashes => msFetched # <<>> /\ Head(msFetched) = "reload"
  PROVE  MailInv'
<1>1. /\ msHistory \in MsPasts /\ msHistory.mail \in Seq(MsMessages)
      /\ msFetched \in Seq(MsMessages) /\ msHandled \in Seq(MsMessages)
  BY PastIs DEF MsTyped
<1>2. msFails.requests \in Nat /\ msFails.crashes \in Nat
  BY CountersGo
<1>3. CASE msMailbox = msHistory.mail /\ msFetched = <<>> /\ msHandled = <<>>
  BY <1>3 DEF MailInv
<1>4. CASE /\ msMailbox = <<>> /\ Prefix(msHandled, msHistory.mail)
           /\ msFetched = <<>>
           /\ \A k \in Len(msHandled) + 1 .. Len(msHistory.mail) : msHistory.mail[k] = "reload" \/ CutFor(msHistory.mail[k])
  <2>1. ASSUME NEW x, CutFor(x) PROVE CutFor(x)'
    BY <1>2, <2>1 DEF CutFor
  <2>2. Prefix(msHandled, msHistory.mail)'
    BY <1>4 DEF Prefix
  <2>3. (\A k \in Len(msHandled) + 1 .. Len(msHistory.mail) : msHistory.mail[k] = "reload" \/ CutFor(msHistory.mail[k]))'
    BY <1>4, <2>1
  <2> QED
    BY <1>4, <2>2, <2>3 DEF MailInv
<1>5. CASE /\ msMailbox = <<>> /\ Prefix(msHandled, msHistory.mail)
           /\ msFetched # <<>> /\ Len(msHandled) + Len(msFetched) = Len(msHistory.mail)
           /\ \A k \in 1 .. Len(msFetched) : msFetched[k] = msHistory.mail[Len(msHandled) + k]
  <2>1. /\ Len(msHandled) \in Nat /\ Len(msFetched) \in Nat \ {0} /\ Len(msHistory.mail) \in Nat
        /\ Head(msFetched) = msFetched[1] /\ DOMAIN msFetched = 1 .. Len(msFetched)
        /\ DOMAIN msHistory.mail = 1 .. Len(msHistory.mail)
    BY <1>1, <1>5
  <2>2. Prefix(msHandled, msHistory.mail)'
    BY <1>5 DEF Prefix
  <2>3. ASSUME NEW k \in Len(msHandled) + 1 .. Len(msHistory.mail), msHistory.mail[k] # "reload"
        PROVE  CutFor(msHistory.mail[k])'
    <3>1. PICK j \in 1 .. Len(msFetched) : k = Len(msHandled) + j
      <4>1. k - Len(msHandled) \in 1 .. Len(msFetched) /\ k = Len(msHandled) + (k - Len(msHandled))
        BY <1>5, <2>1
      <4> QED
        BY <4>1
    <3>2. msHistory.mail[k] = msFetched[j]
      BY <1>5, <3>1
    <3>3. msHistory.mail[k] \in msHistory'.cut
      BY <2>1, <2>3, <3>2 DEF MailLost
    <3>4. CASE msFails'.crashes = msFails.crashes + 1
      <4>1. msFails'.requests + msFails'.crashes > 0
        BY <1>2, <3>4
      <4> QED
        BY <3>3, <4>1 DEF CutFor
    <3>5. CASE msFails'.crashes = msFails.crashes
      <4>1. msFetched[1] = "reload" /\ 1 \in 1 .. Len(msFetched)
        BY <2>1, <3>5
      <4>2. msHistory.mail[Len(msHandled) + 1] = "reload"
        BY <1>5, <4>1
      <4>3. Len(msHandled) + 1 \in 1 .. Len(msHistory.mail) /\ k \in 1 .. Len(msHistory.mail) /\ Len(msHandled) + 1 < k
        BY <2>1, <2>3, <4>2
      <4>4. Before("reload", msHistory.mail[k], msHistory.mail)
        BY <2>1, <4>2, <4>3 DEF Before
      <4> QED
        BY <3>3, <4>4 DEF CutFor
    <3> QED
      BY <3>4, <3>5
  <2>4. (\A k \in Len(msHandled) + 1 .. Len(msHistory.mail) : msHistory.mail[k] = "reload" \/ CutFor(msHistory.mail[k]))'
    BY <2>3
  <2> QED
    BY <1>5, <2>2, <2>4 DEF MailInv
<1>6. MailInv <=> \/ msMailbox = msHistory.mail /\ msFetched = <<>> /\ msHandled = <<>>
                  \/ /\ msMailbox = <<>> /\ Prefix(msHandled, msHistory.mail)
                     /\ msFetched = <<>>
                     /\ \A k \in Len(msHandled) + 1 .. Len(msHistory.mail) :
                           msHistory.mail[k] = "reload" \/ CutFor(msHistory.mail[k])
                  \/ /\ msMailbox = <<>> /\ Prefix(msHandled, msHistory.mail)
                     /\ msFetched # <<>> /\ Len(msHandled) + Len(msFetched) = Len(msHistory.mail)
                     /\ \A k \in 1 .. Len(msFetched) : msFetched[k] = msHistory.mail[Len(msHandled) + k]
  BY DEF MailInv
<1> QED
  BY <1>3, <1>4, <1>5, <1>6

LEMMA RestartKeeps ==
  ASSUME MInv, HotReload \/ Crash
  PROVE  MInv'
<1> USE DEF MInv
<1> DEFINE lost == msHistory.lost \cup Carried
           cut == msHistory.cut \cup MailLost
           unseen == msHistory.unseen \/ ~msHistory.told
           unheard == IF msNudge THEN msHistory.unheard \cup Waiting ELSE msHistory.unheard
<1>1. /\ msPc' = "poll" /\ msBatch' = <<>> /\ msListening' = FALSE /\ msNudge' = FALSE
      /\ msQueue' = <<>> /\ msRound' = [m \in MsMissions |-> NoRound] /\ msReports' = {}
      /\ msFetched' = <<>>
      /\ msUpdate' = 0 /\ msUpStatus' = "idle" /\ msSent' = "idle"
      /\ UNCHANGED <<msStatus, msMailbox, msHandled>>
      /\ NotesRestarts(lost, cut, unseen, unheard)
  BY DEF HotReload, Crash, Restarts, NotesRestarts
<1>2. msHistory \in MsPasts /\ Carried \subseteq MsMissions /\ MailLost \subseteq MsMessages /\ Waiting \subseteq MsMissions
  <2>1. \A k \in DOMAIN msFetched : msFetched[k] \in MsMessages
    BY DEF MsTyped
  <2> QED
    BY <2>1, CarriedIs DEF MsTyped, MailLost, Waiting
<1>3. lost \in SUBSET MsMissions /\ cut \in SUBSET MsMessages /\ unseen \in BOOLEAN /\ unheard \in SUBSET MsMissions
  <2>1. unheard \in SUBSET MsMissions
    BY <1>2, PastIs
  <2> QED
    BY <1>2, <2>1, PastIs
<1> HIDE DEF lost, cut, unseen, unheard
<1>4. /\ msHistory' \in MsPasts /\ msHistory'.lost = lost /\ msHistory'.cut = cut
      /\ msHistory'.restarted = TRUE
      /\ msHistory'.told = TRUE /\ msHistory'.runs = msHistory.runs
      /\ msHistory'.unmarked = msHistory.unmarked
      /\ msHistory'.overtaken = msHistory.overtaken /\ msHistory'.mail = msHistory.mail
  <2>1. MsTyped /\ NotesRestarts(lost, cut, unseen, unheard)
    BY <1>1
  <2> HIDE DEF MInv
  <2> QED
    BY <1>3, <2>1 DEF NotesRestarts, MsTyped, MsPasts
<1>5. /\ msFails' \in MsCounters /\ msFails'.requests = msFails.requests
      /\ msFails'.beats = msFails.beats
      /\ msFails.beats \in Nat /\ msFails'.crashes \in {msFails.crashes, msFails.crashes + 1}
      /\ msFails'.crashes = msFails.crashes => msFetched # <<>> /\ Head(msFetched) = "reload"
  <2>1. CASE HotReload
    <3>1. msFails' = msFails /\ msFetched # <<>> /\ Head(msFetched) = "reload"
      BY <2>1 DEF HotReload
    <3> QED
      BY <3>1, CountersGo DEF MsTyped, MsCounters
  <2>2. CASE Crash
    <3>1. May("crashes") /\ Counts("crashes")
      BY <2>2 DEF Crash
    <3> QED
      BY <3>1, CountersGo
  <2> QED
    BY <2>1, <2>2
<1>6. MsTyped'
  <2>1. msRound' \in [MsMissions -> MsRounds]
    BY <1>1, MsAssumption DEF NoRound, MsRounds
  <2> QED
    BY <1>1, <1>4, <1>5, <2>1, NothingOccurs DEF MsTyped
<1>7. /\ \A n \in MsMissions : ~msRound'[n].on /\ ~In(n, msQueue)' /\ ~In(n, msBatch)' /\ ~Reported(n)'
      /\ \A n \in MsMissions : ~Twice(n, msQueue)' /\ ~Twice(n, msBatch)'
  BY <1>1, NothingOccurs DEF NoRound, Reported
<1>8. PollerInv'
  BY <1>1, <1>7 DEF PollerInv
<1>9. MarkedOnce' /\ RoundsRan'
  <2>1. ASSUME NEW n \in MsMissions, HandedOutOnce(n) PROVE HandedOutOnce(n)'
    BY <1>1, <1>4, <1>7, <2>1 DEF HandedOutOnce
  <2> QED
    BY <1>4, <1>7, <2>1 DEF MissionInv, MarkedOnce, RoundsRan
<1>10. Watched'
  <2>1. \A n \in MsMissions : Excused(n) => Excused(n)'
    BY <1>4 DEF Excused, lost
  <2>2. \A n \in MsMissions : Awaited(n) => Awaited(n)'
    BY <1>1 DEF Awaited
  <2>3. \A n \in Carried : Excused(n)'
    BY <1>4 DEF Excused, lost
  <2>4. ASSUME NEW n \in MsMissions, Reported(n), msStatus[n] \notin Final PROVE Excused(n)'
    <3>1. Concluded(n)
      BY <2>4 DEF MissionInv, CheckpointsEnd, Reported
    <3> QED
      BY <2>1, <2>3, <2>4, <3>1, CarriedIs DEF Concluded
  <2>5. ASSUME NEW n \in MsMissions, Carries(n), msStatus[n] \notin Final PROVE Excused(n)'
    BY <2>3, <2>4, <2>5, CarriedIs DEF Carries
  <2> QED
    BY <1>1, <2>1, <2>2, <2>5 DEF MissionInv, Watched
<1>11. CheckpointsEnd'
  BY <1>1 DEF CheckpointsEnd
<1>12. UpdateInv'
  BY <1>1, <1>4, <1>5 DEF UpdateInv, Regular, FailureSeen
<1>13. MailInv'
  BY <1>1, <1>4, <1>5, MailAfterRestart DEF cut
<1> QED
  BY <1>6, <1>8, <1>9, <1>10, <1>11, <1>12, <1>13 DEF MissionInv

LEMMA MissionsInvariant == MsSpec => []MInv
<1>1. MsInit => MInv
  <2> SUFFICES ASSUME MsInit PROVE MInv
    OBVIOUS
  <2>1. PICK s \in SUBSET MsMessages : msMailbox \in Orders(s)
    BY DEF MsInit
  <2>2. msMailbox \in Seq(MsMessages)
    <3>1. IsFiniteSet(s)
      BY <2>1, MsAssumption, FS_Subset
    <3>2. msMailbox \in Seq(s)
      BY <2>1, <3>1, OrdersOf
    <3> QED
      BY <2>1, <3>2
  <2>3. msHistory \in MsPasts /\ msHistory.runs = [m \in MsMissions |-> 0] /\ msHistory.mail = msMailbox
        /\ msHistory.told = TRUE /\ msHistory.unseen = FALSE
    BY <2>2 DEF MsInit, MsPasts
  <2>4. msFails \in MsCounters /\ msFails.beats = 0
    BY MsAssumption DEF MsInit, MsCounters
  <2>5. msRound \in [MsMissions -> MsRounds] /\ \A m \in MsMissions : ~msRound[m].on
    BY MsAssumption DEF MsInit, NoRound, MsRounds
  <2>6. msStatus \in [MsMissions -> MsStatuses] /\ \A m \in MsMissions : msStatus[m] \in {"absent", "pending"}
    BY DEF MsInit, MsStatuses
  <2>7. MsTyped
    BY <2>2, <2>3, <2>4, <2>5, <2>6, NothingOccurs DEF MsInit, MsTyped
  <2>8. \A m \in MsMissions : /\ ~In(m, msQueue) /\ ~In(m, msBatch) /\ ~Reported(m)
                             /\ ~Twice(m, msQueue) /\ ~Twice(m, msBatch)
    BY NothingOccurs DEF MsInit, Reported
  <2>9. PollerInv
    BY <2>8 DEF MsInit, PollerInv
  <2>10. MarkedOnce /\ RoundsRan
    BY <2>3, <2>5, <2>8 DEF MarkedOnce, HandedOutOnce, RoundsRan
  <2>11. Watched /\ CheckpointsEnd
    BY <2>6 DEF MsInit, Watched, Awaited, CheckpointsEnd
  <2>12. UpdateInv
    BY <2>3, <2>4 DEF MsInit, UpdateInv, FailureSeen
  <2>13. MailInv
    BY <2>3 DEF MsInit, MailInv
  <2> QED
    BY <2>7, <2>9, <2>10, <2>11, <2>12, <2>13 DEF MInv, MissionInv
<1>2. MInv /\ [MsNext]_msVars => MInv'
  <2> SUFFICES ASSUME MInv, [MsNext]_msVars PROVE MInv'
    OBVIOUS
  <2>1. CASE UNCHANGED msVars
    <3>1. MsTyped'
      BY <2>1 DEF msVars, MInv, MsTyped
    <3>2. msFails.requests \in Nat /\ msFails.crashes \in Nat
      BY CountersGo DEF MInv
    <3>3. MissionsStay /\ UpdatesStay /\ MailStays
      BY <2>1, <3>2 DEF msVars, MissionsStay, UpdatesStay, MailStays
    <3> QED
      BY <3>1, <3>3, MissionsStayKeeps, UpdatesStayKeeps, MailStaysKeeps DEF MInv
  <2>2. ASSUME NEW m \in MsMissions, Create(m) PROVE MInv'
    BY <2>2, CreateKeeps
  <2>3. ASSUME NEW m \in MsMissions, ReportCheckpoint(m) \/ ReportResult(m) PROVE MInv'
    BY <2>3, RoundReports
  <2>4. CASE Poll
    BY <2>4, PollKeeps
  <2>5. CASE PollFails
    BY <2>5, PollFailsKeeps
  <2>6. CASE MarkInProgress
    BY <2>6, MarkKeeps
  <2>7. CASE Publish
    BY <2>7, PublishKeeps
  <2>8. CASE Beat \/ Nudged
    BY <2>8, PollerWaits
  <2>9. CASE ReadStatus \/ SendBeat
    BY <2>9, StatusIsSent
  <2>10. CASE EndUpdate
    BY <2>10, EndUpdateKeeps
  <2>11. CASE BeginRound
    BY <2>11, BeginRoundKeeps
  <2>12. CASE FetchMessages
    BY <2>12, FetchKeeps
  <2>13. CASE Handle
    BY <2>13, HandleKeeps
  <2>14. CASE HotReload \/ Crash
    BY <2>14, RestartKeeps
  <2>15. ASSUME NEW r \in msReports, Arrives(r) \/ GetsLost(r) PROVE MInv'
    BY <2>15, ReportEnds
  <2> QED
    BY <2>1, <2>2, <2>3, <2>4, <2>5, <2>6, <2>7, <2>8, <2>9, <2>10, <2>11, <2>12, <2>13, <2>14,
       <2>15 DEF MsNext
<1> QED
  BY <1>1, <1>2, PTL DEF MsSpec

(* What the invariant says of the messages that were handled, and of those that are   *)
(* nowhere any more.                                                                  *)
LEMMA MailIsKept ==
  ASSUME MInv
  PROVE  MailKept
<1> USE DEF MInv
<1>1. msHistory.mail \in Seq(MsMessages) /\ msHandled \in Seq(MsMessages) /\ msFetched \in Seq(MsMessages)
  BY PastIs DEF MsTyped
<1>2. /\ Len(msHandled) \in Nat /\ Len(msFetched) \in Nat /\ Len(msHistory.mail) \in Nat
      /\ DOMAIN msHandled = 1 .. Len(msHandled) /\ DOMAIN msFetched = 1 .. Len(msFetched)
      /\ DOMAIN msHistory.mail = 1 .. Len(msHistory.mail)
  BY <1>1
<1>3. Prefix(msHandled, msHistory.mail)
  <2>1. msHandled = <<>> => Len(msHandled) = 0
    OBVIOUS
  <2> QED
    BY <1>2, <2>1 DEF MailInv, Prefix
<1>4. ASSUME NEW i \in DOMAIN msHandled, NEW j \in DOMAIN msHandled, i < j
      PROVE  Before(msHandled[i], msHandled[j], msHistory.mail)
  BY <1>2, <1>3, <1>4 DEF Prefix, Before
<1>5. ASSUME NEW k \in 1 .. Len(msHistory.mail)
      PROVE  LET x == msHistory.mail[k] IN
             x = "reload" \/ In(x, msMailbox) \/ In(x, msFetched) \/ In(x, msHandled) \/ CutFor(x)
  <2>1. CASE msMailbox = msHistory.mail
    BY <1>2, <2>1 DEF In
  <2>2. CASE k \in 1 .. Len(msHandled)
    BY <1>2, <1>3, <2>2 DEF In, Prefix
  <2>3. CASE msMailbox # msHistory.mail /\ k \notin 1 .. Len(msHandled)
    <3>1. k \in Len(msHandled) + 1 .. Len(msHistory.mail)
      BY <1>2, <2>3
    <3>2. CASE msFetched = <<>>
      BY <2>3, <3>1, <3>2 DEF MailInv
    <3>3. CASE msFetched # <<>>
      <4>1. /\ Len(msHandled) + Len(msFetched) = Len(msHistory.mail)
            /\ \A j \in 1 .. Len(msFetched) : msFetched[j] = msHistory.mail[Len(msHandled) + j]
        BY <2>3, <3>3 DEF MailInv
      <4>2. k - Len(msHandled) \in 1 .. Len(msFetched) /\ Len(msHandled) + (k - Len(msHandled)) = k
        BY <1>2, <3>1, <4>1
      <4>3. msFetched[k - Len(msHandled)] = msHistory.mail[k]
        BY <4>1, <4>2
      <4> QED
        BY <1>2, <4>2, <4>3 DEF In
    <3> QED
      BY <3>2, <3>3
  <2> QED
    BY <2>1, <2>2, <2>3
<1> QED
  BY <1>2, <1>4, <1>5 DEF MailKept, CutFor

(* A mission whose mark succeeded is carried out once, none is left behind without    *)
(* one of the losses on record, a failed update is reported unless an update raced a  *)
(* heartbeat, and the master's messages are handled once and in order: for any number *)
(* of missions, messages, faults and restarts.                                        *)
THEOREM MissionsAreKept == MsSpec => []MissionsSafe
<1>1. MInv => MissionsSafe
  <2> SUFFICES ASSUME MInv PROVE MissionsSafe
    OBVIOUS
  <2> USE DEF MInv
  <2>1. OnceIfMarked
    <3>1. ASSUME NEW m \in MsMissions, HandedOutOnce(m) PROVE ~(msHistory.runs[m] > 1)
      <4>1. msHistory.runs[m] \in Nat /\ msHistory.runs[m] <= 1
        BY <3>1, PastIs DEF MsTyped, HandedOutOnce
      <4> QED
        BY <4>1
    <3> QED
      BY <3>1 DEF MissionInv, MarkedOnce, OnceIfMarked
  <2>2. NoneForgotten
    BY DEF NoneForgotten, MissionInv, Watched, UnderWay, Carries, Excused, Awaited, Reported, In
  <2>3. FailureSeen
    BY DEF UpdateInv
  <2>4. MsTypeOK
    <3>1. \A m \in MsMissions : msRound[m].checkpoints \in 0 .. MsCheckpoints
      BY DEF MsTyped, MsRounds
    <3>2. msUpdate \in 0 .. (MsBeats + MsCrashes + 3)
      <4>1. msFails.beats \in 0 .. MsBeats
        BY DEF MsTyped, MsCounters
      <4>2. msUpdate \in Nat /\ msUpdate <= msFails.beats + 1
        BY DEF MsTyped, UpdateInv
      <4> QED
        BY <4>1, <4>2, MsAssumption
    <3>3. (msPc \in {"mark", "publish"}) = (msBatch # <<>>)
      BY DEF MissionInv, PollerInv
    <3> QED
      BY <3>1, <3>2, <3>3 DEF MsTypeOK, MsTyped, MissionInv, PollerInv, MsStatuses, Final
  <2> QED
    BY <2>1, <2>2, <2>3, <2>4, MailIsKept DEF MissionsSafe
<1> QED
  BY <1>1, MissionsInvariant, PTL
=============================================================================
