--------------------------- MODULE ChannelsProofs ---------------------------
(***************************************************************************)
(* Proofs about what the goroutines of channels share, for any number of   *)
(* connections, messages and answers: the tables of the channels that      *)
(* accept connections (module Sockets), the indicators of a chat (module   *)
(* Indicators), the streams of the WeCom AI bot (module AIBot), and the    *)
(* handlers that a platform's message goes through (module Inbound).       *)
(***************************************************************************)
EXTENDS Sockets, Indicators, AIBot, Inbound, FiniteSetTheorems, TLAPS

(* Connections that the counter should know of, and those past the check.  *)
CountedStages == Reading \cup {"closed", "deleted"}
UncountedStages == {"checked", "upgraded", "stored"}
Counted == {c \in SkConns : skConn[c] \in CountedStages}
Inside == {c \in SkConns : skConn[c] \in CountedStages \cup UncountedStages}

SkTyped ==
    /\ skKind \in {"pico", "maixcam"} /\ skRunning \in BOOLEAN /\ skDone \in BOOLEAN
    /\ skConn \in [SkConns -> Stages]
    /\ skOpen \subseteq SkConns /\ skTable \subseteq SkConns /\ skCrowd \subseteq SkConns
    /\ skPinging \subseteq SkConns /\ skSilent \subseteq SkConns
    /\ skSeen \subseteq SkConns /\ skLate \subseteq SkConns
    /\ skAcceptor \in {"accept", "register", "over"}
    /\ skStop \in {"no", "flagged", "ranging", "closed", "cancelled", "over"}

(* Pico has no acceptor, MaixCam no counter.                               *)
KindIs ==
    /\ skKind = "pico" => skAcceptor = "over" /\ skStop # "cancelled"
    /\ skKind = "pico" => \A c \in SkConns : skConn[c] # "accepted"
    /\ skKind = "maixcam" => skCount = 0 /\ \A c \in SkConns : skConn[c] \notin UncountedStages

(* Who passed the check while nobody else was between check and count      *)
(* found room; all others are of the crowd.                                *)
CountBound ==
    /\ skKind = "pico" => skCount = Cardinality(Counted)
    /\ skKind = "pico" => Cardinality(Inside) <= SkMax + Cardinality(skCrowd)
    /\ \A c \in skCrowd : skConn[c] # "none"

(* Where Stop stands, and what it has yet to close.                        *)
StopKnows ==
    /\ skRunning <=> skStop = "no"
    /\ \A c \in skOpen : skConn[c] \in {"upgraded", "stored", "accepted"} \cup Reading
    /\ skKind = "pico" /\ skStop \in {"no", "flagged"} =>
           \A c \in skOpen : skConn[c] = "upgraded" \/ c \in skTable
    /\ skKind = "pico" /\ skStop # "no" =>
           \A c \in SkConns : skConn[c] \in {"checked", "upgraded"} => c \in skLate
    /\ skKind = "pico" /\ skStop = "ranging" =>
           \A c \in skOpen : c \in skLate \/ (c \in skSeen /\ c \in skTable)
    /\ skKind = "pico" /\ skStop \in {"closed", "over"} => skOpen \subseteq skLate

KInv == SkTyped /\ KindIs /\ CountBound /\ StopKnows

LEMMA Moved ==
  ASSUME SkTyped, NEW c \in SkConns, NEW from, NEW to \in Stages, Move(c, from, to)
  PROVE  /\ skConn' \in [SkConns -> Stages] /\ skConn[c] = from /\ skConn'[c] = to
         /\ \A d \in SkConns : d # c => skConn'[d] = skConn[d]
BY DEF SkTyped, Move

(* A step between two stages that count alike.                             *)
CountsAlike(c) ==
    \/ skConn'[c] = skConn[c]
    \/ skConn[c] \in CountedStages /\ skConn'[c] \in CountedStages
    \/ skConn[c] \in UncountedStages /\ skConn'[c] \in UncountedStages
    \/ skConn[c] = "checked" /\ skConn'[c] = "gone"
AllCountAlike == \A c \in SkConns : CountsAlike(c)

LEMMA FiniteParts ==
  ASSUME SkTyped
  PROVE  /\ IsFiniteSet(SkConns)
         /\ IsFiniteSet(Counted) /\ Cardinality(Counted) \in Nat
         /\ Cardinality(Counted) <= Cardinality(SkConns)
         /\ IsFiniteSet(Inside) /\ Cardinality(Inside) \in Nat
         /\ IsFiniteSet(skCrowd) /\ Cardinality(skCrowd) \in Nat
<1>1. IsFiniteSet(SkConns)
  BY SkAssumption
<1>2. Counted \subseteq SkConns /\ Inside \subseteq SkConns /\ skCrowd \subseteq SkConns
  BY DEF SkTyped, Counted, Inside
<1>3. IsFiniteSet(Counted) /\ Cardinality(Counted) <= Cardinality(SkConns)
  BY <1>1, <1>2, FS_Subset
<1>4. IsFiniteSet(Inside) /\ IsFiniteSet(skCrowd)
  BY <1>1, <1>2, FS_Subset
<1> QED
  BY <1>1, <1>3, <1>4, FS_CardinalityType

LEMMA CountStays ==
  ASSUME SkTyped, SkTyped', CountBound, AllCountAlike, UNCHANGED <<skKind, skCount, skCrowd>>
  PROVE  CountBound'
<1>1. Counted' = Counted
  BY DEF Counted, AllCountAlike, CountsAlike, CountedStages, UncountedStages, Reading
<1>2. Inside' \subseteq Inside
  BY DEF Inside, AllCountAlike, CountsAlike, CountedStages, UncountedStages, Reading
<1>3. Cardinality(Inside') <= Cardinality(Inside) /\ Cardinality(Inside') \in Nat
  BY <1>2, FiniteParts, FS_Subset, FS_CardinalityType
<1>4. \A c \in skCrowd' : skConn'[c] # "none"
  BY DEF SkTyped, CountBound, AllCountAlike, CountsAlike, CountedStages, UncountedStages, Reading
<1>5. skKind' = "pico" => Cardinality(Inside') <= SkMax + Cardinality(skCrowd')
  BY <1>3, FiniteParts, SkAssumption DEF CountBound
<1> QED
  BY <1>1, <1>4, <1>5 DEF CountBound

(* The three steps that count otherwise.                                   *)
LEMMA HandshakeCounts ==
  ASSUME KInv, SkTyped', NEW c \in SkConns, Handshake(c)
  PROVE  CountBound'
<1>1. /\ skKind = "pico" /\ skCount < SkMax /\ skKind' = skKind /\ skCount' = skCount
      /\ skCrowd' = IF Uncounted = {} THEN skCrowd ELSE skCrowd \cup {c}
      /\ Move(c, "none", "checked")
  BY DEF Handshake, Admit, skStopVars
<1>2. /\ skConn[c] = "none" /\ skConn'[c] = "checked"
      /\ \A d \in SkConns : d # c => skConn'[d] = skConn[d]
  BY <1>1, Moved DEF KInv, Stages, Entering
<1>3. Counted' = Counted
  BY <1>2 DEF Counted, CountedStages, Reading
<1>4. Inside' = Inside \cup {c} /\ c \notin Inside
  BY <1>2 DEF Inside, CountedStages, UncountedStages, Reading
<1>5. Cardinality(Inside') = Cardinality(Inside) + 1
  BY <1>4, FiniteParts, FS_AddElement DEF KInv
<1>6. c \notin skCrowd
  BY <1>2 DEF KInv, CountBound
<1>7. \A d \in skCrowd' : skConn'[d] # "none"
  BY <1>1, <1>2 DEF KInv, SkTyped, CountBound
<1>8. Cardinality(Inside') <= SkMax + Cardinality(skCrowd')
  <2>1. CASE Uncounted = {}
    <3>1. Inside = Counted
      BY <2>1 DEF Inside, Counted, Uncounted, UncountedStages
    <3> QED
      BY <1>1, <1>5, <2>1, <3>1, FiniteParts, SkAssumption DEF KInv, CountBound
  <2>2. CASE Uncounted # {}
    <3>1. Cardinality(skCrowd') = Cardinality(skCrowd) + 1
      BY <1>1, <1>6, <2>2, FiniteParts, FS_AddElement DEF KInv
    <3> QED
      BY <1>1, <1>5, <3>1, FiniteParts, SkAssumption DEF KInv, CountBound
  <2> QED
    BY <2>1, <2>2
<1> QED
  BY <1>1, <1>3, <1>7, <1>8 DEF KInv, CountBound

LEMMA CountSocketCounts ==
  ASSUME KInv, SkTyped', NEW c \in SkConns, CountSocket(c)
  PROVE  CountBound'
<1>1. /\ skKind = "pico" /\ skKind' = skKind /\ skCount' = skCount + 1 /\ skCrowd' = skCrowd
      /\ Move(c, "stored", "top")
  BY DEF CountSocket, skQuiet
<1>2. /\ skConn[c] = "stored" /\ skConn'[c] = "top"
      /\ \A d \in SkConns : d # c => skConn'[d] = skConn[d]
  BY <1>1, Moved DEF KInv, Stages, Reading
<1>3. Counted' = Counted \cup {c} /\ c \notin Counted
  BY <1>2 DEF Counted, CountedStages, Reading
<1>4. Inside' = Inside
  BY <1>2 DEF Inside, CountedStages, UncountedStages, Reading
<1>5. Cardinality(Counted') = Cardinality(Counted) + 1
  BY <1>3, FiniteParts, FS_AddElement DEF KInv
<1>6. \A d \in skCrowd' : skConn'[d] # "none"
  BY <1>1, <1>2 DEF KInv, SkTyped, CountBound
<1> QED
  BY <1>1, <1>4, <1>5, <1>6 DEF KInv, CountBound

LEMMA UncountCounts ==
  ASSUME KInv, SkTyped', NEW c \in SkConns, Uncount(c)
  PROVE  CountBound'
<1>1. /\ skKind' = skKind /\ skCrowd' = skCrowd /\ Move(c, "deleted", "gone")
      /\ skCount' = IF skKind = "pico" THEN skCount - 1 ELSE skCount
  BY DEF Uncount, skQuiet
<1>2. /\ skConn[c] = "deleted" /\ skConn'[c] = "gone"
      /\ \A d \in SkConns : d # c => skConn'[d] = skConn[d]
  BY <1>1, Moved DEF KInv, Stages
<1>3. Counted' = Counted \ {c} /\ c \in Counted
  BY <1>2 DEF Counted, CountedStages, Reading
<1>4. Inside' \subseteq Inside
  BY <1>2 DEF Inside, CountedStages, UncountedStages, Reading
<1>5. Cardinality(Counted') = Cardinality(Counted) - 1
  BY <1>3, FiniteParts, FS_RemoveElement DEF KInv
<1>6. Cardinality(Inside') <= Cardinality(Inside) /\ Cardinality(Inside') \in Nat
  BY <1>4, FiniteParts, FS_Subset, FS_CardinalityType DEF KInv
<1>7. \A d \in skCrowd' : skConn'[d] # "none"
  BY <1>1, <1>2 DEF KInv, SkTyped, CountBound
<1>8. skKind = "pico" => Cardinality(Inside') <= SkMax + Cardinality(skCrowd)
  BY <1>6, FiniteParts, SkAssumption DEF KInv, CountBound
<1> QED
  BY <1>1, <1>5, <1>7, <1>8 DEF KInv, CountBound

(* A connection goes on towards its end, and nothing is opened: what Stop  *)
(* knows stays known.                                                      *)
LEMMA StopStays ==
  ASSUME SkTyped, StopKnows, NEW c \in SkConns, NEW from, NEW to \in Stages, Move(c, from, to),
         UNCHANGED <<skKind, skRunning, skStop, skSeen, skLate>>, skOpen' \subseteq skOpen,
         \A d \in skTable : d \in skTable' \/ d \notin skOpen',
         c \in skOpen' => to \in {"upgraded", "stored", "accepted"} \cup Reading,
         from \in Reading \cup {"stored", "checked", "closed", "deleted"},
         to \in Reading \cup {"closed", "deleted", "gone"}
  PROVE  StopKnows'
<1>1. /\ skConn[c] = from /\ skConn'[c] = to
      /\ \A d \in SkConns : d # c => skConn'[d] = skConn[d]
  BY Moved
<1>2. skRunning' <=> skStop' = "no"
  BY DEF StopKnows
<1>3. \A d \in skOpen' : skConn'[d] \in {"upgraded", "stored", "accepted"} \cup Reading
  BY <1>1 DEF SkTyped, StopKnows
<1>4. skKind' = "pico" /\ skStop' \in {"no", "flagged"} =>
          \A d \in skOpen' : skConn'[d] = "upgraded" \/ d \in skTable'
  BY <1>1 DEF SkTyped, StopKnows, Reading
<1>5. skKind' = "pico" /\ skStop' # "no" =>
          \A d \in SkConns : skConn'[d] \in {"checked", "upgraded"} => d \in skLate'
  BY <1>1 DEF SkTyped, StopKnows, Reading
<1>6. skKind' = "pico" /\ skStop' = "ranging" =>
          \A d \in skOpen' : d \in skLate' \/ (d \in skSeen' /\ d \in skTable')
  BY DEF SkTyped, StopKnows
<1>7. skKind' = "pico" /\ skStop' \in {"closed", "over"} => skOpen' \subseteq skLate'
  BY DEF StopKnows
<1> QED
  BY <1>2, <1>3, <1>4, <1>5, <1>6, <1>7 DEF StopKnows

LEMMA SocketsInvariant == SkSpec => []KInv
<1>1. SkInit => KInv
  <2> SUFFICES ASSUME SkInit PROVE KInv
    OBVIOUS
  <2>1. SkTyped /\ KindIs /\ StopKnows
    BY DEF SkInit, SkTyped, KindIs, StopKnows, Stages, UncountedStages
  <2>2. Counted = {} /\ Inside = {} /\ skCrowd = {} /\ skCount = 0
    BY DEF SkInit, Counted, Inside, CountedStages, UncountedStages, Reading
  <2>3. CountBound
    BY <2>2, FS_EmptySet, SkAssumption DEF CountBound
  <2> QED
    BY <2>1, <2>3 DEF KInv
<1>2. KInv /\ [SkNext]_skVars => KInv'
  <2> SUFFICES ASSUME KInv, [SkNext]_skVars PROVE KInv'
    OBVIOUS
  <2>0. SkTyped /\ KindIs /\ CountBound /\ StopKnows
    BY DEF KInv
  (* The connection goes on towards its end and counts as before.          *)
  <2>t. ASSUME NEW c \in SkConns, NEW from, NEW to \in Stages, Move(c, from, to),
               UNCHANGED <<skKind, skCrowd, skCount, skRunning, skStop, skSeen, skLate>>,
               skOpen' \subseteq skOpen, skTable' \subseteq skTable,
               \A d \in skTable : d \in skTable' \/ d \notin skOpen',
               c \in skOpen' => to \in Reading,
               \/ from = "checked" /\ to = "gone"
               \/ from \in CountedStages /\ to \in CountedStages,
               skPinging' \subseteq SkConns, skSilent' \subseteq SkConns, skDone' \in BOOLEAN,
               skAcceptor' = skAcceptor
        PROVE  KInv'
    <3>1. /\ skConn' \in [SkConns -> Stages] /\ skConn[c] = from /\ skConn'[c] = to
          /\ \A d \in SkConns : d # c => skConn'[d] = skConn[d]
      BY <2>0, <2>t, Moved
    <3>2. SkTyped'
      BY <2>0, <2>t, <3>1 DEF SkTyped
    <3>3. KindIs'
      BY <2>0, <2>t, <3>1 DEF KindIs, CountedStages, UncountedStages, Reading
    <3>4. AllCountAlike
      BY <2>t, <3>1 DEF AllCountAlike, CountsAlike
    <3>5. CountBound'
      BY <2>0, <2>t, <3>2, <3>4, CountStays
    <3>6. StopKnows'
      BY <2>0, <2>t, StopStays DEF CountedStages
    <3> QED
      BY <3>2, <3>3, <3>5, <3>6 DEF KInv
  <2>1. ASSUME NEW c \in SkConns,
               \/ UpgradeFails(c) \/ LoopTop(c) \/ ReadMessage(c) \/ ReadClosed(c)
               \/ PeerCloses(c) \/ ReadDeadline(c)
        PROVE  KInv'
    <3>1. UNCHANGED <<skKind, skCrowd, skCount, skRunning, skDone, skStop, skSeen, skLate, skOpen,
                      skTable, skPinging, skSilent, skAcceptor>>
      BY <2>1 DEF UpgradeFails, LoopTop, ReadMessage, ReadClosed, PeerCloses, ReadDeadline, skQuiet, skStopVars
    <3>2. ASSUME Move(c, "checked", "gone") PROVE KInv'
      <4>1. c \notin skOpen
        BY <2>0, <3>2 DEF StopKnows, Move, Reading
      <4> QED
        BY <2>0, <2>t, <3>1, <3>2, <4>1 DEF Stages, SkTyped
    <3>3. ASSUME NEW from \in Reading, NEW to \in Reading, Move(c, from, to) PROVE KInv'
      BY <2>0, <2>t, <3>1, <3>3 DEF Stages, SkTyped, CountedStages
    <3>4. \/ Move(c, "checked", "gone")
          \/ Move(c, "top", "left") \/ Move(c, "top", "blocked")
          \/ Move(c, "blocked", "top") \/ Move(c, "blocked", "left")
      BY <2>1 DEF UpgradeFails, LoopTop, ReadMessage, ReadClosed, PeerCloses, ReadDeadline
    <3>5. {"top", "left", "blocked"} \subseteq Reading
      BY DEF Reading
    <3> QED
      BY <3>2, <3>3, <3>4, <3>5
  <2>2. ASSUME NEW c \in SkConns, CloseSocket(c) PROVE KInv'
    <3>1. /\ Move(c, "left", "closed") /\ skOpen' = skOpen \ {c}
          /\ UNCHANGED <<skKind, skCrowd, skCount, skRunning, skDone, skStop, skSeen, skLate,
                         skTable, skPinging, skSilent, skAcceptor>>
      BY <2>2 DEF CloseSocket, skQuiet, skStopVars
    <3>2. "left" \in CountedStages /\ "closed" \in CountedStages /\ "closed" \in Stages
      BY DEF CountedStages, Reading, Stages
    <3> QED
      BY <2>0, <2>t, <3>1, <3>2 DEF SkTyped
  <2>3. ASSUME NEW c \in SkConns, DeleteSocket(c) PROVE KInv'
    <3>1. /\ Move(c, "closed", "deleted") /\ skTable' = skTable \ {c}
          /\ UNCHANGED <<skKind, skCrowd, skCount, skRunning, skDone, skStop, skSeen, skLate,
                         skOpen, skPinging, skSilent, skAcceptor>>
      BY <2>3 DEF DeleteSocket, skQuiet, skStopVars
    <3>2. "closed" \in CountedStages /\ "deleted" \in CountedStages /\ "deleted" \in Stages
      BY DEF CountedStages, Stages
    <3>3. c \notin skOpen
      BY <2>0, <3>1 DEF StopKnows, Move, Reading
    <3> QED
      BY <2>0, <2>t, <3>1, <3>2, <3>3 DEF SkTyped
  <2>4. ASSUME NEW c \in SkConns, Uncount(c) PROVE KInv'
    <3>1. /\ Move(c, "deleted", "gone") /\ skCount' = (IF skKind = "pico" THEN skCount - 1 ELSE skCount)
          /\ UNCHANGED <<skKind, skCrowd, skRunning, skDone, skStop, skSeen, skLate, skOpen,
                         skTable, skPinging, skSilent, skAcceptor>>
      BY <2>4 DEF Uncount, skQuiet, skStopVars
    <3>2. /\ skConn' \in [SkConns -> Stages] /\ skConn[c] = "deleted" /\ skConn'[c] = "gone"
          /\ \A d \in SkConns : d # c => skConn'[d] = skConn[d]
      BY <2>0, <3>1, Moved DEF Stages
    <3>3. SkTyped'
      BY <2>0, <3>1, <3>2 DEF SkTyped
    <3>4. KindIs'
      BY <2>0, <3>1, <3>2 DEF KindIs, UncountedStages
    <3>5. c \notin skOpen
      BY <2>0, <3>2 DEF StopKnows, Reading
    <3>6. StopKnows'
      BY <2>0, <3>1, <3>5, StopStays DEF Stages
    <3> QED
      BY <2>4, <3>3, <3>4, <3>6, UncountCounts DEF KInv
  <2>5. ASSUME NEW c \in SkConns, CountSocket(c) PROVE KInv'
    <3>1. /\ Move(c, "stored", "top") /\ skKind = "pico" /\ skPinging' = skPinging \cup {c}
          /\ UNCHANGED <<skKind, skCrowd, skRunning, skDone, skStop, skSeen, skLate, skOpen,
                         skTable, skSilent, skAcceptor>>
      BY <2>5 DEF CountSocket, skQuiet, skStopVars
    <3>2. /\ skConn' \in [SkConns -> Stages] /\ skConn[c] = "stored" /\ skConn'[c] = "top"
          /\ \A d \in SkConns : d # c => skConn'[d] = skConn[d]
      BY <2>0, <3>1, Moved DEF Stages, Reading
    <3>3. SkTyped'
      BY <2>0, <3>1, <3>2 DEF SkTyped
    <3>4. KindIs'
      BY <2>0, <3>1, <3>2 DEF KindIs
    <3>5. "top" \in Reading /\ "top" \in Stages
      BY DEF Reading, Stages
    <3>6. StopKnows'
      BY <2>0, <3>1, <3>5, StopStays
    <3> QED
      BY <2>5, <3>3, <3>4, <3>6, CountSocketCounts DEF KInv
  <2>6. ASSUME NEW c \in SkConns, Handshake(c) PROVE KInv'
    <3>1. /\ Move(c, "none", "checked") /\ skKind = "pico" /\ skRunning
          /\ skCrowd' \subseteq skCrowd \cup {c}
          /\ UNCHANGED <<skKind, skCount, skRunning, skDone, skStop, skSeen, skLate, skOpen,
                         skTable, skPinging, skSilent, skAcceptor>>
      BY <2>6 DEF Handshake, Admit, skStopVars
    <3>2. /\ skConn' \in [SkConns -> Stages] /\ skConn[c] = "none" /\ skConn'[c] = "checked"
          /\ \A d \in SkConns : d # c => skConn'[d] = skConn[d]
      BY <2>0, <3>1, Moved DEF Stages, Entering
    <3>3. SkTyped'
      BY <2>0, <3>1, <3>2 DEF SkTyped
    <3>4. KindIs'
      BY <2>0, <3>1, <3>2 DEF KindIs
    <3>5. c \notin skOpen /\ skStop = "no"
      BY <2>0, <3>1, <3>2 DEF StopKnows, Reading
    <3>6. StopKnows'
      BY <2>0, <3>1, <3>2, <3>5 DEF StopKnows, SkTyped
    <3> QED
      BY <2>6, <3>3, <3>4, <3>6, HandshakeCounts DEF KInv
  <2>7. ASSUME NEW c \in SkConns, Upgrade(c) PROVE KInv'
    <3>1. /\ Move(c, "checked", "upgraded") /\ skOpen' = skOpen \cup {c}
          /\ UNCHANGED <<skKind, skCrowd, skCount, skRunning, skDone, skStop, skSeen, skLate,
                         skTable, skPinging, skSilent, skAcceptor>>
      BY <2>7 DEF Upgrade, skQuiet, skStopVars
    <3>2. /\ skConn' \in [SkConns -> Stages] /\ skConn[c] = "checked" /\ skConn'[c] = "upgraded"
          /\ \A d \in SkConns : d # c => skConn'[d] = skConn[d]
      BY <2>0, <3>1, Moved DEF Stages, Entering
    <3>3. SkTyped'
      BY <2>0, <3>1, <3>2 DEF SkTyped
    <3>4. KindIs'
      BY <2>0, <3>1, <3>2 DEF KindIs, UncountedStages
    <3>5. AllCountAlike
      BY <3>2 DEF AllCountAlike, CountsAlike, UncountedStages
    <3>6. CountBound'
      BY <2>0, <3>1, <3>3, <3>5, CountStays
    <3>7. StopKnows'
      BY <2>0, <3>1, <3>2 DEF StopKnows, SkTyped
    <3> QED
      BY <3>3, <3>4, <3>6, <3>7 DEF KInv
  <2>8. ASSUME NEW c \in SkConns, StoreSocket(c) PROVE KInv'
    <3>1. /\ Move(c, "upgraded", "stored") /\ skTable' = skTable \cup {c}
          /\ UNCHANGED <<skKind, skCrowd, skCount, skRunning, skDone, skStop, skSeen, skLate,
                         skOpen, skPinging, skSilent, skAcceptor>>
      BY <2>8 DEF StoreSocket, skQuiet, skStopVars
    <3>2. /\ skConn' \in [SkConns -> Stages] /\ skConn[c] = "upgraded" /\ skConn'[c] = "stored"
          /\ \A d \in SkConns : d # c => skConn'[d] = skConn[d]
      BY <2>0, <3>1, Moved DEF Stages
    <3>3. SkTyped'
      BY <2>0, <3>1, <3>2 DEF SkTyped
    <3>4. KindIs'
      BY <2>0, <3>1, <3>2 DEF KindIs, UncountedStages
    <3>5. AllCountAlike
      BY <3>2 DEF AllCountAlike, CountsAlike, UncountedStages
    <3>6. CountBound'
      BY <2>0, <3>1, <3>3, <3>5, CountStays
    <3>7. StopKnows'
      BY <2>0, <3>1, <3>2 DEF StopKnows, SkTyped
    <3> QED
      BY <3>3, <3>4, <3>6, <3>7 DEF KInv
  (* MixCam's own steps.                                                   *)
  <2>9. ASSUME NEW c \in SkConns, AcceptConn(c) \/ RegisterClient(c) PROVE KInv'
    <3>1. PICK from, to \in Stages :
              /\ Move(c, from, to)
              /\ \/ from = "none" /\ to = "accepted" /\ skAcceptor = "accept"
                 \/ from = "accepted" /\ to = "top"
      BY <2>9 DEF AcceptConn, RegisterClient, Stages, Entering, Reading
    <3>2. /\ skOpen' \subseteq skOpen \cup {c} /\ skTable' \subseteq skTable \cup {c}
          /\ skAcceptor' \in {"accept", "register", "over"}
          /\ UNCHANGED <<skKind, skCrowd, skCount, skRunning, skDone, skStop, skSeen, skLate,
                         skPinging, skSilent>>
          /\ from = "accepted" => skOpen' = skOpen
      BY <2>9, <3>1 DEF AcceptConn, RegisterClient, skQuiet, skStopVars, Move
    <3>3. /\ skConn' \in [SkConns -> Stages] /\ skConn[c] = from /\ skConn'[c] = to
          /\ \A d \in SkConns : d # c => skConn'[d] = skConn[d]
      BY <2>0, <3>1, Moved
    <3>4. skKind = "maixcam"
      BY <2>0, <3>1, <3>3 DEF KindIs, SkTyped
    <3>5. SkTyped'
      BY <2>0, <3>2, <3>3 DEF SkTyped
    <3>6. KindIs'
      BY <2>0, <3>1, <3>2, <3>3, <3>4 DEF KindIs, UncountedStages
    <3>7. \A d \in skCrowd : skConn'[d] # "none"
      BY <2>0, <3>1, <3>3 DEF CountBound, SkTyped
    <3>8. CountBound'
      BY <3>2, <3>4, <3>7 DEF CountBound
    <3>9. StopKnows'
      BY <2>0, <3>1, <3>2, <3>3, <3>4 DEF StopKnows, SkTyped, Reading
    <3> QED
      BY <3>5, <3>6, <3>8, <3>9 DEF KInv
  (* No connection's goroutine moves.                                      *)
  <2>u. ASSUME UNCHANGED <<skKind, skConn, skCount, skCrowd>>, StopKnows', SkTyped',
               skKind = "pico" => skAcceptor' = "over" /\ skStop' # "cancelled"
        PROVE  KInv'
    <3>1. AllCountAlike
      BY <2>u DEF AllCountAlike, CountsAlike
    <3>2. CountBound'
      BY <2>0, <2>u, <3>1, CountStays
    <3>3. KindIs'
      BY <2>0, <2>u DEF KindIs
    <3> QED
      BY <2>u, <3>2, <3>3 DEF KInv
  <2>10. ASSUME (\E c \in SkConns : GoesSilent(c) \/ PingEnds(c)) \/ AcceptFails PROVE KInv'
    <3>1. /\ UNCHANGED <<skKind, skCrowd, skCount, skRunning, skDone, skStop, skSeen, skLate,
                         skConn, skOpen, skTable>>
          /\ skPinging' \subseteq skPinging /\ skSilent' \subseteq skSilent \cup SkConns
          /\ skAcceptor' = skAcceptor \/ skAcceptor' = "over"
      BY <2>10 DEF GoesSilent, PingEnds, AcceptFails, skQuiet, skStopVars
    <3>2. SkTyped' /\ StopKnows'
      BY <2>0, <3>1 DEF SkTyped, StopKnows
    <3>3. skKind = "pico" => skAcceptor' = "over" /\ skStop' # "cancelled"
      BY <2>0, <3>1 DEF KindIs
    <3> QED
      BY <2>u, <3>1, <3>2, <3>3
  <2>11. ASSUME BeginStop PROVE KInv'
    <3>1. /\ skStop = "no" /\ skStop' = "flagged" /\ skRunning' = FALSE
          /\ skLate' = {c \in SkConns : skConn[c] \in Entering}
          /\ UNCHANGED <<skKind, skCrowd, skCount, skDone, skSeen, skConn, skOpen, skTable,
                         skPinging, skSilent, skAcceptor>>
      BY <2>11 DEF BeginStop, skTableVars
    <3>2. SkTyped'
      BY <2>0, <3>1 DEF SkTyped
    <3>3. StopKnows'
      BY <2>0, <3>1 DEF StopKnows, Entering
    <3> QED
      BY <2>0, <2>u, <3>1, <3>2, <3>3 DEF KindIs
  <2>12. ASSUME NEW from \in {"closed", "flagged"}, NEW to \in {"over", "cancelled"}, Cancel(from, to),
                skKind = "pico" => from = "closed" /\ to = "over"
         PROVE  KInv'
    <3>1. /\ skStop = from /\ skStop' = to /\ skDone' = TRUE
          /\ UNCHANGED <<skKind, skCrowd, skCount, skRunning, skSeen, skLate, skConn, skOpen,
                         skTable, skPinging, skSilent, skAcceptor>>
      BY <2>12 DEF Cancel, skTableVars
    <3>2. SkTyped'
      BY <2>0, <3>1 DEF SkTyped
    <3>3. StopKnows'
      BY <2>0, <2>12, <3>1 DEF StopKnows
    <3> QED
      BY <2>0, <2>12, <2>u, <3>1, <3>2, <3>3 DEF KindIs
  <2>13. ASSUME BeginRange PROVE KInv'
    <3>1. /\ skKind = "pico" /\ skStop = "flagged" /\ skStop' = "ranging" /\ skSeen' = skTable
          /\ UNCHANGED <<skKind, skCrowd, skCount, skRunning, skDone, skLate, skConn, skOpen,
                         skTable, skPinging, skSilent, skAcceptor>>
      BY <2>13 DEF BeginRange, skTableVars
    <3>2. SkTyped'
      BY <2>0, <3>1 DEF SkTyped
    <3>3. StopKnows'
      BY <2>0, <3>1 DEF StopKnows, SkTyped
    <3> QED
      BY <2>0, <2>u, <3>1, <3>2, <3>3 DEF KindIs
  <2>14. ASSUME NEW c \in SkConns, RangeVisits(c) PROVE KInv'
    <3>1. /\ skKind = "pico" /\ skStop = "ranging"
          /\ skOpen' = skOpen \ {c} /\ skTable' = skTable \ {c} /\ skSeen' = skSeen \ {c}
          /\ UNCHANGED <<skKind, skCrowd, skCount, skRunning, skDone, skStop, skLate, skConn,
                         skPinging, skSilent, skAcceptor>>
      BY <2>14 DEF RangeVisits, skTableVars
    <3>2. SkTyped'
      BY <2>0, <3>1 DEF SkTyped
    <3>3. StopKnows'
      BY <2>0, <3>1 DEF StopKnows
    <3> QED
      BY <2>0, <2>u, <3>1, <3>2, <3>3 DEF KindIs
  <2>15. ASSUME EndRange PROVE KInv'
    <3>1. /\ skStop = "ranging" /\ skSeen \cap skTable = {} /\ skStop' = "closed"
          /\ UNCHANGED <<skKind, skCrowd, skCount, skRunning, skDone, skSeen, skLate, skConn,
                         skOpen, skTable, skPinging, skSilent, skAcceptor>>
      BY <2>15 DEF EndRange, skTableVars
    <3>2. SkTyped'
      BY <2>0, <3>1 DEF SkTyped
    <3>3. StopKnows'
      BY <2>0, <3>1 DEF StopKnows
    <3> QED
      BY <2>0, <2>u, <3>1, <3>2, <3>3 DEF KindIs
  <2>16. ASSUME skKind = "maixcam", CloseClients("cancelled", "over") PROVE KInv'
    <3>1. /\ skStop = "cancelled" /\ skStop' = "over" /\ skOpen' = skOpen \ skTable /\ skTable' = {}
          /\ skAcceptor' = (IF skAcceptor = "accept" THEN "over" ELSE skAcceptor)
          /\ UNCHANGED <<skKind, skCrowd, skCount, skRunning, skDone, skSeen, skLate, skConn,
                         skPinging, skSilent>>
      BY <2>16 DEF CloseClients, skTableVars
    <3>2. SkTyped'
      BY <2>0, <3>1 DEF SkTyped
    <3>3. StopKnows'
      BY <2>0, <2>16, <3>1 DEF StopKnows
    <3> QED
      BY <2>16, <2>u, <3>1, <3>2, <3>3
  <2>17. CASE UNCHANGED skVars
    <3>1. SkTyped' /\ StopKnows'
      BY <2>0, <2>17 DEF skVars, SkTyped, StopKnows
    <3>2. UNCHANGED <<skKind, skConn, skCount, skCrowd, skAcceptor, skStop>>
      BY <2>17 DEF skVars
    <3> QED
      BY <2>0, <2>u, <3>1, <3>2 DEF KindIs
  <2>18. ASSUME PicoStop \/ MaixCamStop PROVE KInv'
    BY <2>12, <2>13, <2>15, <2>16, <2>18 DEF PicoStop, MaixCamStop
  <2> QED
    BY <2>1, <2>2, <2>3, <2>4, <2>5, <2>6, <2>7, <2>8, <2>9, <2>10, <2>11, <2>14, <2>17, <2>18
       DEF SkNext, SkConnStep, SkStopStep, SkPeerStep
<1> QED
  BY <1>1, <1>2, PTL DEF SkSpec

(* The counter is exact however Stop and the goroutines interleave, the    *)
(* limit is passed only by handshakes that overlapped, and what Stop       *)
(* leaves open was on its way in when it began (pico.go, maixcam.go).      *)
THEOREM ConnectionsCounted == SkSpec => []SocketsSafe
<1>1. KInv => SocketsSafe
  <2> SUFFICES ASSUME KInv PROVE SocketsSafe
    OBVIOUS
  <2>1. skCount \in 0 .. Cardinality(SkConns)
    <3>1. Cardinality(SkConns) \in Nat
      BY SkAssumption, FS_CardinalityType
    <3> QED
      BY <3>1, FiniteParts DEF KInv, SkTyped, KindIs, CountBound
  <2>2. SkTypeOK
    BY <2>1 DEF KInv, SkTyped, SkTypeOK
  <2>3. CountIsExact
    BY DEF KInv, CountBound, CountIsExact, Counted, CountedStages
  <2>4. LimitHolds
    <3>1. CASE skKind = "pico"
      <4>1. Cardinality(Counted) <= Cardinality(Inside)
        <5>1. Counted \subseteq Inside
          BY DEF Counted, Inside
        <5> QED
          BY <5>1, FiniteParts, FS_Subset DEF KInv
      <4> QED
        BY <3>1, <4>1, FiniteParts, SkAssumption DEF KInv, CountBound, LimitHolds
    <3>2. CASE skKind = "maixcam"
      BY <3>2, FiniteParts, SkAssumption DEF KInv, KindIs, LimitHolds
    <3> QED
      BY <3>1, <3>2 DEF KInv, SkTyped
  <2>5. LeftBehindWasLate
    BY DEF KInv, StopKnows, LeftBehindWasLate
  <2> QED
    BY <2>2, <2>3, <2>4, <2>5 DEF SocketsSafe
<1> QED
  BY <1>1, SocketsInvariant, PTL

---------------------------------------------------------------------------
InState == [pc : {"new", "take", "store", "placeholder", "record", "published"}, old : OrNone]

(* The tables and calls of a chat, without the bounds on its counters.     *)
InTyped ==
    /\ typing \in OrNone /\ holder \in OrNone
    /\ active \in SUBSET Messages /\ expired \in SUBSET Messages /\ overlapped \in SUBSET Messages
    /\ inbound \in [Messages -> InState]
    /\ worker \in [pc : {"idle", "stop", "placeholder", "edit"}, old : OrNone]
    /\ janitor \in [pc : {"idle", "seen", "stop", "delete"}, seen : OrNone]
    /\ answers \in 0..MaxAnswers
    /\ worker.pc # "idle" => answers # 0
    /\ edits \in [Messages -> Nat]
    /\ \A m \in Messages : edits[m] # 0 => answers # 0

(* Only a stop that was stored is in the table, and a call holds an entry  *)
(* it has taken out until it has called its stop.                          *)
EntriesStored ==
    /\ \A m \in Messages : typing = m => inbound[m].pc \in {"placeholder", "record", "published"}
    /\ \A m \in Messages : inbound[m].pc # "store" => inbound[m].old = "none"

(* Who stands between the two map operations of an update finds the key    *)
(* empty, or in it a stop whose storing was noted.                         *)
OverlapsNoted ==
    /\ \A m \in Messages : inbound[m].pc = "store" => typing = "none" \/ typing \in overlapped
    /\ janitor.pc = "seen" => typing \in {"none", janitor.seen} \/ typing \in overlapped

(* A placeholder is in the table, in the worker's hands, or edited: one of *)
(* these, and none before it is recorded.                                  *)
Held(m) == holder = m
Editing(m) == worker.pc = "edit" /\ worker.old = m
PlaceholderOnce(m) ==
    /\ Held(m) \/ Editing(m) \/ edits[m] # 0 => inbound[m].pc = "published"
    /\ ~(Held(m) /\ Editing(m))
    /\ edits[m] # 0 => ~Held(m) /\ ~Editing(m)
    /\ edits[m] <= 1

IInv ==
    /\ InTyped /\ EntriesStored /\ OverlapsNoted /\ OrphanOnlyByOverlap
    /\ worker.pc = "edit" => worker.old # "none"
    /\ \A m \in Messages : PlaceholderOnce(m)

LEMMA IndicatorsInvariant == Spec => []IInv
<1>0. "none" \notin Messages /\ MaxAnswers \in Nat /\ \A m \in Messages : m # "none"
  BY InAssumption
<1>1. Init => IInv
  <2> SUFFICES ASSUME Init PROVE IInv
    OBVIOUS
  <2>1. InTyped
    BY <1>0 DEF Init, InTyped, InState, OrNone
  <2>2. EntriesStored /\ OverlapsNoted /\ OrphanOnlyByOverlap
    BY <1>0 DEF Init, EntriesStored, OverlapsNoted, OrphanOnlyByOverlap, Orphan
  <2>3. \A m \in Messages : PlaceholderOnce(m)
    BY <1>0 DEF Init, PlaceholderOnce, Held, Editing
  <2> QED
    BY <2>1, <2>2, <2>3 DEF Init, IInv
<1>2. IInv /\ [Next]_vars => IInv'
  <2> SUFFICES ASSUME IInv, [Next]_vars PROVE IInv'
    OBVIOUS
  <2>0. /\ InTyped /\ EntriesStored /\ OverlapsNoted /\ OrphanOnlyByOverlap
        /\ worker.pc = "edit" => worker.old # "none"
        /\ \A m \in Messages : PlaceholderOnce(m)
    BY DEF IInv
  <2>1. ASSUME NEW m \in Messages, StartTyping(m) PROVE IInv'
    <3>1. /\ inbound[m].pc = "new" /\ inbound' = [inbound EXCEPT ![m].pc = "take"]
          /\ active' = active \cup {m}
          /\ UNCHANGED <<typing, holder, expired, worker, janitor, answers, edits, overlapped>>
      BY <2>1 DEF StartTyping
    <3>2. InTyped'
      BY <1>0, <2>0, <3>1 DEF InTyped, InState, OrNone
    <3>3. EntriesStored'
      BY <1>0, <2>0, <3>1 DEF EntriesStored, InTyped, InState, OrNone
    <3>4. OverlapsNoted'
      BY <1>0, <2>0, <3>1 DEF EntriesStored, OverlapsNoted, InTyped, InState, OrNone
    <3>5. OrphanOnlyByOverlap'
      BY <1>0, <2>0, <3>1 DEF EntriesStored, OverlapsNoted, OrphanOnlyByOverlap, Orphan, Reachable, InTyped, InState, OrNone
    <3>6. worker'.pc = "edit" => worker'.old # "none"
      BY <1>0, <2>0, <3>1 DEF InTyped, InState, OrNone
    <3>7. \A n \in Messages : PlaceholderOnce(n)'
      BY <1>0, <2>0, <3>1 DEF PlaceholderOnce, Held, Editing, InTyped, InState, OrNone
    <3> QED
      BY <3>2, <3>3, <3>4, <3>5, <3>6, <3>7 DEF IInv
  <2>2. ASSUME NEW m \in Messages, NoTyping(m) \/ NoPlaceholder(m) \/ Expire(m) PROVE IInv'
    <3>1. /\ \/ inbound[m].pc = "new" /\ inbound' = [inbound EXCEPT ![m].pc = "placeholder"]
             \/ inbound[m].pc = "placeholder" /\ inbound' = [inbound EXCEPT ![m].pc = "published"]
             \/ inbound' = inbound
          /\ expired' \in SUBSET (expired \cup {m})
          /\ UNCHANGED <<typing, holder, active, worker, janitor, answers, edits, overlapped>>
      BY <2>2 DEF NoTyping, NoPlaceholder, Expire
    <3>2. InTyped'
      BY <1>0, <2>0, <3>1 DEF InTyped, InState, OrNone
    <3>3. EntriesStored'
      BY <1>0, <2>0, <3>1 DEF EntriesStored, InTyped, InState, OrNone
    <3>4. OverlapsNoted'
      BY <1>0, <2>0, <3>1 DEF EntriesStored, OverlapsNoted, InTyped, InState, OrNone
    <3>5. OrphanOnlyByOverlap'
      BY <1>0, <2>0, <3>1 DEF EntriesStored, OverlapsNoted, OrphanOnlyByOverlap, Orphan, Reachable, InTyped, InState, OrNone
    <3>6. worker'.pc = "edit" => worker'.old # "none"
      BY <1>0, <2>0, <3>1 DEF InTyped, InState, OrNone
    <3>7. \A n \in Messages : PlaceholderOnce(n)'
      BY <1>0, <2>0, <3>1 DEF PlaceholderOnce, Held, Editing, InTyped, InState, OrNone
    <3> QED
      BY <3>2, <3>3, <3>4, <3>5, <3>6, <3>7 DEF IInv
  <2>3. ASSUME NEW m \in Messages, TakeOld(m) PROVE IInv'
    <3>1. /\ inbound[m].pc = "take" /\ typing' = "none"
          /\ inbound' = [inbound EXCEPT ![m] = [pc |-> "store", old |-> typing]]
          /\ UNCHANGED <<holder, active, expired, worker, janitor, answers, edits, overlapped>>
      BY <2>3 DEF TakeOld
    <3>2. InTyped'
      BY <1>0, <2>0, <3>1 DEF InTyped, InState, OrNone
    <3>3. EntriesStored'
      BY <1>0, <2>0, <3>1 DEF EntriesStored, InTyped, InState, OrNone
    <3>4. OverlapsNoted'
      BY <1>0, <2>0, <3>1 DEF EntriesStored, OverlapsNoted, InTyped, InState, OrNone
    <3>5. OrphanOnlyByOverlap'
      BY <1>0, <2>0, <3>1 DEF EntriesStored, OverlapsNoted, OrphanOnlyByOverlap, Orphan, Reachable, InTyped, InState, OrNone
    <3>6. worker'.pc = "edit" => worker'.old # "none"
      BY <1>0, <2>0, <3>1 DEF InTyped, InState, OrNone
    <3>7. \A n \in Messages : PlaceholderOnce(n)'
      BY <1>0, <2>0, <3>1 DEF PlaceholderOnce, Held, Editing, InTyped, InState, OrNone
    <3> QED
      BY <3>2, <3>3, <3>4, <3>5, <3>6, <3>7 DEF IInv
  <2>4. ASSUME NEW m \in Messages, StoreStop(m) PROVE IInv'
    <3>1. /\ inbound[m].pc = "store" /\ typing' = m /\ active' = active \ {inbound[m].old}
          /\ inbound' = [inbound EXCEPT ![m] = [pc |-> "placeholder", old |-> "none"]]
          /\ overlapped \subseteq overlapped' /\ overlapped' \subseteq Messages
          /\ janitor.pc = "seen" \/ (\E n \in Messages \ {m} : inbound[n].pc = "store") => m \in overlapped'
          /\ UNCHANGED <<holder, expired, worker, janitor, answers, edits>>
      BY <2>0, <2>4 DEF StoreStop, InTyped
    <3>2. InTyped'
      BY <1>0, <2>0, <3>1 DEF InTyped, InState, OrNone
    <3>3. EntriesStored'
      BY <1>0, <2>0, <3>1 DEF EntriesStored, InTyped, InState, OrNone
    <3>4. OverlapsNoted'
      BY <1>0, <2>0, <3>1 DEF EntriesStored, OverlapsNoted, InTyped, InState, OrNone
    <3>5. OrphanOnlyByOverlap'
      BY <1>0, <2>0, <3>1 DEF EntriesStored, OverlapsNoted, OrphanOnlyByOverlap, Orphan, Reachable, InTyped, InState, OrNone
    <3>6. worker'.pc = "edit" => worker'.old # "none"
      BY <1>0, <2>0, <3>1 DEF InTyped, InState, OrNone
    <3>7. \A n \in Messages : PlaceholderOnce(n)'
      BY <1>0, <2>0, <3>1 DEF PlaceholderOnce, Held, Editing, InTyped, InState, OrNone
    <3> QED
      BY <3>2, <3>3, <3>4, <3>5, <3>6, <3>7 DEF IInv
  <2>5. ASSUME NEW m \in Messages, TakePlaceholder(m) PROVE IInv'
    <3>1. /\ inbound[m].pc = "placeholder" /\ holder' = "none"
          /\ inbound' = [inbound EXCEPT ![m].pc = "record"]
          /\ UNCHANGED <<typing, active, expired, worker, janitor, answers, edits, overlapped>>
      BY <2>5 DEF TakePlaceholder
    <3>2. InTyped'
      BY <1>0, <2>0, <3>1 DEF InTyped, InState, OrNone
    <3>3. EntriesStored'
      BY <1>0, <2>0, <3>1 DEF EntriesStored, InTyped, InState, OrNone
    <3>4. OverlapsNoted'
      BY <1>0, <2>0, <3>1 DEF EntriesStored, OverlapsNoted, InTyped, InState, OrNone
    <3>5. OrphanOnlyByOverlap'
      BY <1>0, <2>0, <3>1 DEF EntriesStored, OverlapsNoted, OrphanOnlyByOverlap, Orphan, Reachable, InTyped, InState, OrNone
    <3>6. worker'.pc = "edit" => worker'.old # "none"
      BY <1>0, <2>0, <3>1 DEF InTyped, InState, OrNone
    <3>7. \A n \in Messages : PlaceholderOnce(n)'
      BY <1>0, <2>0, <3>1 DEF PlaceholderOnce, Held, Editing, InTyped, InState, OrNone
    <3> QED
      BY <3>2, <3>3, <3>4, <3>5, <3>6, <3>7 DEF IInv
  <2>6. ASSUME NEW m \in Messages, StorePlaceholder(m) PROVE IInv'
    <3>1. /\ inbound[m].pc = "record" /\ holder' = m
          /\ inbound' = [inbound EXCEPT ![m].pc = "published"]
          /\ UNCHANGED <<typing, active, expired, worker, janitor, answers, edits, overlapped>>
      BY <2>6 DEF StorePlaceholder
    <3>2. InTyped'
      BY <1>0, <2>0, <3>1 DEF InTyped, InState, OrNone
    <3>3. EntriesStored'
      BY <1>0, <2>0, <3>1 DEF EntriesStored, InTyped, InState, OrNone
    <3>4. OverlapsNoted'
      BY <1>0, <2>0, <3>1 DEF EntriesStored, OverlapsNoted, InTyped, InState, OrNone
    <3>5. OrphanOnlyByOverlap'
      BY <1>0, <2>0, <3>1 DEF EntriesStored, OverlapsNoted, OrphanOnlyByOverlap, Orphan, Reachable, InTyped, InState, OrNone
    <3>6. worker'.pc = "edit" => worker'.old # "none"
      BY <1>0, <2>0, <3>1 DEF InTyped, InState, OrNone
    <3>7. \A n \in Messages : PlaceholderOnce(n)'
      BY <1>0, <2>0, <3>1 DEF PlaceholderOnce, Held, Editing, InTyped, InState, OrNone
    <3> QED
      BY <3>2, <3>3, <3>4, <3>5, <3>6, <3>7 DEF IInv
  <2>7. ASSUME PreSendTake PROVE IInv'
    <3>1. /\ worker.pc = "idle" /\ answers < MaxAnswers /\ answers' = answers + 1 /\ typing' = "none"
          /\ worker' = [pc |-> "stop", old |-> typing]
          /\ UNCHANGED <<holder, active, expired, inbound, janitor, edits, overlapped>>
      BY <2>7 DEF PreSendTake
    <3>2. InTyped'
      BY <1>0, <2>0, <3>1 DEF InTyped, InState, OrNone
    <3>3. EntriesStored'
      BY <1>0, <2>0, <3>1 DEF EntriesStored, InTyped, InState, OrNone
    <3>4. OverlapsNoted'
      BY <1>0, <2>0, <3>1 DEF EntriesStored, OverlapsNoted, InTyped, InState, OrNone
    <3>5. OrphanOnlyByOverlap'
      BY <1>0, <2>0, <3>1 DEF EntriesStored, OverlapsNoted, OrphanOnlyByOverlap, Orphan, Reachable, InTyped, InState, OrNone
    <3>6. worker'.pc = "edit" => worker'.old # "none"
      BY <1>0, <2>0, <3>1 DEF InTyped, InState, OrNone
    <3>7. \A n \in Messages : PlaceholderOnce(n)'
      BY <1>0, <2>0, <3>1 DEF PlaceholderOnce, Held, Editing, InTyped, InState, OrNone
    <3> QED
      BY <3>2, <3>3, <3>4, <3>5, <3>6, <3>7 DEF IInv
  <2>8. ASSUME PreSendStop PROVE IInv'
    <3>1. /\ worker.pc = "stop" /\ active' = active \ {worker.old}
          /\ worker' = [pc |-> "placeholder", old |-> "none"]
          /\ UNCHANGED <<typing, holder, expired, inbound, janitor, answers, edits, overlapped>>
      BY <2>8 DEF PreSendStop
    <3>2. InTyped'
      BY <1>0, <2>0, <3>1 DEF InTyped, InState, OrNone
    <3>3. EntriesStored'
      BY <1>0, <2>0, <3>1 DEF EntriesStored, InTyped, InState, OrNone
    <3>4. OverlapsNoted'
      BY <1>0, <2>0, <3>1 DEF EntriesStored, OverlapsNoted, InTyped, InState, OrNone
    <3>5. OrphanOnlyByOverlap'
      BY <1>0, <2>0, <3>1 DEF EntriesStored, OverlapsNoted, OrphanOnlyByOverlap, Orphan, Reachable, InTyped, InState, OrNone
    <3>6. worker'.pc = "edit" => worker'.old # "none"
      BY <1>0, <2>0, <3>1 DEF InTyped, InState, OrNone
    <3>7. \A n \in Messages : PlaceholderOnce(n)'
      BY <1>0, <2>0, <3>1 DEF PlaceholderOnce, Held, Editing, InTyped, InState, OrNone
    <3> QED
      BY <3>2, <3>3, <3>4, <3>5, <3>6, <3>7 DEF IInv
  <2>9. ASSUME PreSendTakePlaceholder PROVE IInv'
    <3>1. /\ worker.pc = "placeholder" /\ holder' = "none"
          /\ \/ holder = "none" /\ worker' = [pc |-> "idle", old |-> "none"]
             \/ holder # "none" /\ worker' = [pc |-> "edit", old |-> holder]
          /\ UNCHANGED <<typing, active, expired, inbound, janitor, answers, edits, overlapped>>
      BY <2>9 DEF PreSendTakePlaceholder
    <3>2. InTyped'
      BY <1>0, <2>0, <3>1 DEF InTyped, InState, OrNone
    <3>3. EntriesStored'
      BY <1>0, <2>0, <3>1 DEF EntriesStored, InTyped, InState, OrNone
    <3>4. OverlapsNoted'
      BY <1>0, <2>0, <3>1 DEF EntriesStored, OverlapsNoted, InTyped, InState, OrNone
    <3>5. OrphanOnlyByOverlap'
      BY <1>0, <2>0, <3>1 DEF EntriesStored, OverlapsNoted, OrphanOnlyByOverlap, Orphan, Reachable, InTyped, InState, OrNone
    <3>6. worker'.pc = "edit" => worker'.old # "none"
      BY <1>0, <2>0, <3>1 DEF InTyped, InState, OrNone
    <3>7. \A n \in Messages : PlaceholderOnce(n)'
      BY <1>0, <2>0, <3>1 DEF PlaceholderOnce, Held, Editing, InTyped, InState, OrNone
    <3> QED
      BY <3>2, <3>3, <3>4, <3>5, <3>6, <3>7 DEF IInv
  <2>10. ASSUME PreSendEdit PROVE IInv'
    <3>1. /\ worker.pc = "edit"
          /\ edits' = [edits EXCEPT ![worker.old] = @ + 1] \/ edits' = edits
          /\ worker' = [pc |-> "idle", old |-> "none"]
          /\ UNCHANGED <<typing, holder, active, expired, inbound, janitor, answers, overlapped>>
      BY <2>10 DEF PreSendEdit
    <3>2. InTyped'
      BY <1>0, <2>0, <3>1 DEF InTyped, InState, OrNone
    <3>3. EntriesStored'
      BY <1>0, <2>0, <3>1 DEF EntriesStored, InTyped, InState, OrNone
    <3>4. OverlapsNoted'
      BY <1>0, <2>0, <3>1 DEF EntriesStored, OverlapsNoted, InTyped, InState, OrNone
    <3>5. OrphanOnlyByOverlap'
      BY <1>0, <2>0, <3>1 DEF EntriesStored, OverlapsNoted, OrphanOnlyByOverlap, Orphan, Reachable, InTyped, InState, OrNone
    <3>6. worker'.pc = "edit" => worker'.old # "none"
      BY <1>0, <2>0, <3>1 DEF InTyped, InState, OrNone
    <3>7. \A n \in Messages : PlaceholderOnce(n)'
      BY <1>0, <2>0, <3>1 DEF PlaceholderOnce, Held, Editing, InTyped, InState, OrNone
    <3> QED
      BY <3>2, <3>3, <3>4, <3>5, <3>6, <3>7 DEF IInv
  <2>11. ASSUME JanitorSees \/ JanitorSeesPlaceholder PROVE IInv'
    <3>1. /\ janitor.pc = "idle"
          /\ \/ janitor' = [pc |-> "seen", seen |-> typing] /\ typing \in expired
             \/ janitor' = [pc |-> "delete", seen |-> holder]
          /\ UNCHANGED <<typing, holder, active, expired, inbound, worker, answers, edits, overlapped>>
      BY <2>11 DEF JanitorSees, JanitorSeesPlaceholder
    <3>2. InTyped'
      BY <1>0, <2>0, <3>1 DEF InTyped, InState, OrNone
    <3>3. EntriesStored'
      BY <1>0, <2>0, <3>1 DEF EntriesStored, InTyped, InState, OrNone
    <3>4. OverlapsNoted'
      BY <1>0, <2>0, <3>1 DEF EntriesStored, OverlapsNoted, InTyped, InState, OrNone
    <3>5. OrphanOnlyByOverlap'
      BY <1>0, <2>0, <3>1 DEF EntriesStored, OverlapsNoted, OrphanOnlyByOverlap, Orphan, Reachable, InTyped, InState, OrNone
    <3>6. worker'.pc = "edit" => worker'.old # "none"
      BY <1>0, <2>0, <3>1 DEF InTyped, InState, OrNone
    <3>7. \A n \in Messages : PlaceholderOnce(n)'
      BY <1>0, <2>0, <3>1 DEF PlaceholderOnce, Held, Editing, InTyped, InState, OrNone
    <3> QED
      BY <3>2, <3>3, <3>4, <3>5, <3>6, <3>7 DEF IInv
  <2>12. ASSUME JanitorEvicts PROVE IInv'
    <3>1. /\ janitor.pc = "seen" /\ typing' = "none"
          /\ \/ typing = "none" /\ janitor' = [pc |-> "idle", seen |-> "none"]
             \/ typing # "none" /\ janitor' = [janitor EXCEPT !.pc = "stop"]
          /\ UNCHANGED <<holder, active, expired, inbound, worker, answers, edits, overlapped>>
      BY <2>12 DEF JanitorEvicts
    <3>2. InTyped'
      BY <1>0, <2>0, <3>1 DEF InTyped, InState, OrNone
    <3>3. EntriesStored'
      BY <1>0, <2>0, <3>1 DEF EntriesStored, InTyped, InState, OrNone
    <3>4. OverlapsNoted'
      BY <1>0, <2>0, <3>1 DEF EntriesStored, OverlapsNoted, InTyped, InState, OrNone
    <3>5. OrphanOnlyByOverlap'
      BY <1>0, <2>0, <3>1 DEF EntriesStored, OverlapsNoted, OrphanOnlyByOverlap, Orphan, Reachable, InTyped, InState, OrNone
    <3>6. worker'.pc = "edit" => worker'.old # "none"
      BY <1>0, <2>0, <3>1 DEF InTyped, InState, OrNone
    <3>7. \A n \in Messages : PlaceholderOnce(n)'
      BY <1>0, <2>0, <3>1 DEF PlaceholderOnce, Held, Editing, InTyped, InState, OrNone
    <3> QED
      BY <3>2, <3>3, <3>4, <3>5, <3>6, <3>7 DEF IInv
  <2>13. ASSUME JanitorStops PROVE IInv'
    <3>1. /\ janitor.pc = "stop" /\ active' = active \ {janitor.seen}
          /\ janitor' = [pc |-> "idle", seen |-> "none"]
          /\ UNCHANGED <<typing, holder, expired, inbound, worker, answers, edits, overlapped>>
      BY <2>13 DEF JanitorStops
    <3>2. InTyped'
      BY <1>0, <2>0, <3>1 DEF InTyped, InState, OrNone
    <3>3. EntriesStored'
      BY <1>0, <2>0, <3>1 DEF EntriesStored, InTyped, InState, OrNone
    <3>4. OverlapsNoted'
      BY <1>0, <2>0, <3>1 DEF EntriesStored, OverlapsNoted, InTyped, InState, OrNone
    <3>5. OrphanOnlyByOverlap'
      BY <1>0, <2>0, <3>1 DEF EntriesStored, OverlapsNoted, OrphanOnlyByOverlap, Orphan, Reachable, InTyped, InState, OrNone
    <3>6. worker'.pc = "edit" => worker'.old # "none"
      BY <1>0, <2>0, <3>1 DEF InTyped, InState, OrNone
    <3>7. \A n \in Messages : PlaceholderOnce(n)'
      BY <1>0, <2>0, <3>1 DEF PlaceholderOnce, Held, Editing, InTyped, InState, OrNone
    <3> QED
      BY <3>2, <3>3, <3>4, <3>5, <3>6, <3>7 DEF IInv
  <2>14. ASSUME JanitorDeletes PROVE IInv'
    <3>1. /\ janitor.pc = "delete" /\ holder' = "none" /\ janitor' = [pc |-> "idle", seen |-> "none"]
          /\ UNCHANGED <<typing, active, expired, inbound, worker, answers, edits, overlapped>>
      BY <2>14 DEF JanitorDeletes
    <3>2. InTyped'
      BY <1>0, <2>0, <3>1 DEF InTyped, InState, OrNone
    <3>3. EntriesStored'
      BY <1>0, <2>0, <3>1 DEF EntriesStored, InTyped, InState, OrNone
    <3>4. OverlapsNoted'
      BY <1>0, <2>0, <3>1 DEF EntriesStored, OverlapsNoted, InTyped, InState, OrNone
    <3>5. OrphanOnlyByOverlap'
      BY <1>0, <2>0, <3>1 DEF EntriesStored, OverlapsNoted, OrphanOnlyByOverlap, Orphan, Reachable, InTyped, InState, OrNone
    <3>6. worker'.pc = "edit" => worker'.old # "none"
      BY <1>0, <2>0, <3>1 DEF InTyped, InState, OrNone
    <3>7. \A n \in Messages : PlaceholderOnce(n)'
      BY <1>0, <2>0, <3>1 DEF PlaceholderOnce, Held, Editing, InTyped, InState, OrNone
    <3> QED
      BY <3>2, <3>3, <3>4, <3>5, <3>6, <3>7 DEF IInv
  <2>15. CASE UNCHANGED vars
    <3>1. InTyped' /\ EntriesStored' /\ OverlapsNoted'
      BY <2>0, <2>15 DEF vars, InTyped, EntriesStored, OverlapsNoted
    <3>2. OrphanOnlyByOverlap'
      BY <2>0, <2>15 DEF vars, OrphanOnlyByOverlap, Orphan, Reachable
    <3>3. (worker'.pc = "edit" => worker'.old # "none") /\ \A n \in Messages : PlaceholderOnce(n)'
      BY <2>0, <2>15 DEF vars, PlaceholderOnce, Held, Editing
    <3> QED
      BY <3>1, <3>2, <3>3 DEF IInv
  <2> QED
    BY <2>1, <2>2, <2>3, <2>4, <2>5, <2>6, <2>7, <2>8, <2>9, <2>10, <2>11, <2>12, <2>13, <2>14, <2>15
       DEF Next, InboundStep, Recording, WorkerStep, TypingSweep, PlaceholderSweep
<1> QED
  BY <1>1, <1>2, PTL DEF Spec

(* A typing indicator is lost only where two updates of its key overlapped *)
(* (not by an answer, not by expiry), and a placeholder becomes an answer  *)
(* at most once (pkg/channels/manager.go).                                 *)
THEOREM IndicatorsKept == Spec => []IndicatorsSafe
<1>1. IInv => IndicatorsSafe
  <2> SUFFICES ASSUME IInv PROVE IndicatorsSafe
    OBVIOUS
  <2>1. PlaceholderEditedOnce
    BY DEF IInv, PlaceholderOnce, PlaceholderEditedOnce
  <2>2. edits \in [Messages -> 0..MaxAnswers]
    <3>1. \A m \in Messages : edits[m] \in 0..MaxAnswers
      BY <2>1, InAssumption DEF IInv, InTyped, PlaceholderEditedOnce
    <3> QED
      BY <3>1 DEF IInv, InTyped
  <2>3. typing # "none" => inbound[typing].pc \in {"placeholder", "record", "published"}
    BY DEF IInv, InTyped, OrNone, EntriesStored
  <2>4. TypeOK
    BY <2>2, <2>3 DEF IInv, InTyped, InState, TypeOK
  <2> QED
    BY <2>1, <2>4 DEF IInv, IndicatorsSafe
<1> QED
  BY <1>1, IndicatorsInvariant, PTL

---------------------------------------------------------------------------
(* The streams of the WeCom AI bot.                                        *)

(* A queue whose tasks rise: the order in which they were asked.           *)
Ascending(q) == \A i, j \in DOMAIN q : i < j => q[i] < q[j]

(* The ranks of a finite set of numbers.                                             *)
UpTo(K, i) == {j \in K : j <= i}
LEMMA RanksAre ==
  ASSUME NEW K \in SUBSET Nat, IsFiniteSet(K)
  PROVE  /\ \A i \in K : Cardinality(UpTo(K, i)) \in 1 .. Cardinality(K)
         /\ \A i, j \in K : i < j => Cardinality(UpTo(K, i)) < Cardinality(UpTo(K, j))
         /\ \A n \in 1 .. Cardinality(K) : \E i \in K : Cardinality(UpTo(K, i)) = n
<1> DEFINE n == Cardinality(K)
           rank == [i \in K |-> Cardinality(UpTo(K, i))]
<1>1. n \in Nat
  BY FS_CardinalityType
<1>2. ASSUME NEW i \in K
      PROVE  IsFiniteSet(UpTo(K, i)) /\ Cardinality(UpTo(K, i)) \in 1 .. n
  <2>1. UpTo(K, i) \subseteq K /\ i \in UpTo(K, i)
    BY DEF UpTo
  <2>2. IsFiniteSet(UpTo(K, i)) /\ Cardinality(UpTo(K, i)) <= n
    BY <2>1, FS_Subset
  <2>3. Cardinality(UpTo(K, i)) \in Nat /\ Cardinality(UpTo(K, i)) # 0
    BY <2>1, <2>2, FS_CardinalityType, FS_EmptySet
  <2> QED
    BY <1>1, <2>2, <2>3
<1>3. ASSUME NEW i \in K, NEW j \in K, i < j
      PROVE  Cardinality(UpTo(K, i)) < Cardinality(UpTo(K, j))
  <2>1. UpTo(K, i) \subseteq UpTo(K, j)
    <3> SUFFICES ASSUME NEW k \in UpTo(K, i) PROVE k \in UpTo(K, j)
      OBVIOUS
    <3>1. k \in K /\ k <= i /\ k \in Nat /\ i \in Nat /\ j \in Nat
      BY DEF UpTo
    <3>2. k <= j
      BY <1>3, <3>1
    <3> QED
      BY <3>1, <3>2 DEF UpTo
  <2>4. j \in UpTo(K, j) /\ j \notin UpTo(K, i)
    <3>1. i \in Nat /\ j \in Nat
      OBVIOUS
    <3>2. j <= j /\ ~(j <= i)
      BY <1>3, <3>1
    <3> QED
      BY <3>2 DEF UpTo
  <2>2. /\ Cardinality(UpTo(K, i)) <= Cardinality(UpTo(K, j))
        /\ Cardinality(UpTo(K, i)) # Cardinality(UpTo(K, j))
    BY <1>2, <2>1, <2>4, FS_Subset
  <2> QED
    BY <1>1, <1>2, <2>2
<1>4. rank \in Injection(K, 1 .. n)
  <2>1. rank \in [K -> 1 .. n]
    BY <1>2
  <2>2. ASSUME NEW i \in K, NEW j \in K, i # j PROVE rank[i] # rank[j]
    <3>1. rank[i] = Cardinality(UpTo(K, i)) /\ rank[j] = Cardinality(UpTo(K, j))
      OBVIOUS
    <3>2. i < j \/ j < i
      BY <2>2
    <3> QED
      BY <1>1, <1>2, <1>3, <3>1, <3>2
  <2> HIDE DEF rank
  <2> QED
    BY <2>1, <2>2 DEF Injection, IsInjective
<1>5. IsFiniteSet(1 .. n) /\ Cardinality(1 .. n) = n
  BY <1>1, FS_Interval
<1>6. rank \in Surjection(K, 1 .. n)
  <2> HIDE DEF rank
  <2> QED
    BY <1>4, <1>5, FS_Injection
<1>7. \A k \in 1 .. n : \E i \in K : rank[i] = k
  <2> HIDE DEF rank
  <2> QED
    BY <1>6 DEF Surjection
<1> QED
  BY <1>2, <1>3, <1>7

(* A queue with some tasks taken out: what is left, in the order it had.             *)
LEMMA WithoutIs ==
  ASSUME NEW S, NEW q \in Seq(S), NEW gone
  PROVE  /\ Without(q, gone) \in Seq(S)
         /\ \A x : x \in ToSet(Without(q, gone)) <=> x \in ToSet(q) /\ x \notin gone
         /\ Ascending(q) => Ascending(Without(q, gone))
<1> DEFINE kept == {i \in DOMAIN q : q[i] \notin gone}
           nth(n) == CHOOSE i \in kept : Cardinality({j \in kept : j <= i}) = n
           r == Without(q, gone)
<1>1. DOMAIN q = 1 .. Len(q) /\ Len(q) \in Nat
  OBVIOUS
<1>2. kept \in SUBSET Nat /\ IsFiniteSet(kept)
  <2>1. IsFiniteSet(1 .. Len(q))
    BY <1>1, FS_Interval
  <2> QED
    BY <1>1, <2>1, FS_Subset
<1>3. Cardinality(kept) \in Nat
  BY <1>2, FS_CardinalityType
<1>4. r = [n \in 1 .. Cardinality(kept) |-> q[nth(n)]]
  BY DEF Without
<1>5. \A n \in 1 .. Cardinality(kept) : nth(n) \in kept /\ Cardinality(UpTo(kept, nth(n))) = n
  <2> HIDE DEF kept
  <2> QED
    BY <1>2, RanksAre DEF UpTo
<1> HIDE DEF nth, r
<1>6. \A n \in 1 .. Cardinality(kept) : q[nth(n)] \in S /\ q[nth(n)] \notin gone /\ q[nth(n)] \in ToSet(q)
  BY <1>1, <1>5 DEF ToSet
<1>7. r \in Seq(S) /\ Len(r) = Cardinality(kept) /\ DOMAIN r = 1 .. Cardinality(kept)
  <2> HIDE DEF kept
  <2> QED
    BY <1>3, <1>4, <1>6
<1>8. \A n, m \in 1 .. Cardinality(kept) : n < m => nth(n) < nth(m)
  <2> SUFFICES ASSUME NEW n \in 1 .. Cardinality(kept), NEW m \in 1 .. Cardinality(kept), n < m, ~(nth(n) < nth(m))
               PROVE  FALSE
    OBVIOUS
  <2>1. /\ nth(n) \in kept /\ nth(m) \in kept
        /\ Cardinality(UpTo(kept, nth(n))) = n /\ Cardinality(UpTo(kept, nth(m))) = m
    BY <1>5
  <2>2. nth(n) = nth(m) \/ nth(m) < nth(n)
    <3>1. nth(n) \in Nat /\ nth(m) \in Nat
      BY <1>2, <2>1
    <3> QED
      BY <3>1
  <2>3. ~(m < n) /\ m # n
    BY <1>3
  <2> HIDE DEF kept
  <2> QED
    BY <1>2, <2>1, <2>2, <2>3, RanksAre
<1>9. ASSUME NEW i \in kept PROVE q[i] \in ToSet(r)
  <2>1. PICK n \in 1 .. Cardinality(kept) : n = Cardinality(UpTo(kept, i))
    <3> HIDE DEF kept
    <3> QED
      BY <1>2, RanksAre
  <2>2. nth(n) \in kept /\ Cardinality(UpTo(kept, nth(n))) = Cardinality(UpTo(kept, i))
    BY <1>5, <2>1
  <2>3. nth(n) = i
    <3>1. nth(n) \in Nat /\ i \in Nat /\ n \in Nat
      BY <1>2, <1>3, <2>2
    <3>2. ~(nth(n) < i) /\ ~(i < nth(n))
      <4> HIDE DEF kept
      <4> QED
        BY <1>2, <2>1, <2>2, <3>1, RanksAre
    <3> QED
      BY <3>1, <3>2
  <2> QED
    BY <1>4, <1>7, <2>1, <2>3 DEF ToSet
<1>10. ASSUME NEW x PROVE x \in ToSet(r) <=> x \in ToSet(q) /\ x \notin gone
  <2>1. ASSUME x \in ToSet(r) PROVE x \in ToSet(q) /\ x \notin gone
    BY <1>4, <1>6, <1>7, <2>1 DEF ToSet
  <2>2. ASSUME x \in ToSet(q), x \notin gone PROVE x \in ToSet(r)
    <3>1. PICK i \in DOMAIN q : q[i] = x
      BY <2>2 DEF ToSet
    <3> QED
      BY <1>9, <2>2, <3>1
  <2> QED
    BY <2>1, <2>2
<1>11. ASSUME Ascending(q) PROVE Ascending(r)
  <2>1. ASSUME NEW n \in 1 .. Cardinality(kept), NEW m \in 1 .. Cardinality(kept), n < m
        PROVE  r[n] < r[m]
    <3>1. nth(n) \in DOMAIN q /\ nth(m) \in DOMAIN q /\ nth(n) < nth(m)
      BY <1>5, <1>8, <2>1
    <3> QED
      BY <1>4, <1>11, <2>1, <3>1 DEF Ascending
  <2> QED
    BY <1>7, <2>1 DEF Ascending
<1> QED
  BY <1>7, <1>10, <1>11 DEF r

LEMMA WiderQueue ==
  ASSUME NEW S, NEW T, S \subseteq T, NEW q \in Seq(S)
  PROVE  q \in Seq(T)
<1>1. Len(q) \in Nat /\ q = [i \in 1 .. Len(q) |-> q[i]] /\ \A i \in 1 .. Len(q) : q[i] \in T
  OBVIOUS
<1> QED
  BY <1>1

LEMMA AppendedTask ==
  ASSUME NEW q \in Seq(Nat), NEW t \in Nat, Ascending(q), \A u \in ToSet(q) : u < t
  PROVE  Ascending(Append(q, t)) /\ ToSet(Append(q, t)) = ToSet(q) \cup {t}
<1> DEFINE r == Append(q, t)
<1>1. /\ DOMAIN q = 1 .. Len(q) /\ Len(q) \in Nat /\ DOMAIN r = 1 .. Len(q) + 1
      /\ r[Len(q) + 1] = t /\ \A i \in DOMAIN q : r[i] = q[i] /\ i \in DOMAIN r
  OBVIOUS
<1> HIDE DEF r
<1>2. ASSUME NEW i \in DOMAIN r, NEW j \in DOMAIN r, i < j PROVE r[i] < r[j]
  <2>1. i \in DOMAIN q /\ (j \in DOMAIN q \/ j = Len(q) + 1)
    BY <1>1, <1>2
  <2>2. q[i] \in ToSet(q)
    BY <2>1 DEF ToSet
  <2> QED
    BY <1>1, <1>2, <2>1, <2>2 DEF Ascending
<1>3. \A i \in DOMAIN r : i \in DOMAIN q \/ i = Len(q) + 1
  BY <1>1
<1>4. Len(q) + 1 \in DOMAIN r
  BY <1>1
<1>5. ToSet(r) = ToSet(q) \cup {t}
  BY <1>1, <1>3, <1>4 DEF ToSet
<1> QED
  BY <1>2, <1>5 DEF r, Ascending

LEMMA OldestTask ==
  ASSUME NEW q \in Seq(Nat), Ascending(q), q # <<>>
  PROVE  Head(q) \in ToSet(q) /\ \A u \in ToSet(q) : Head(q) <= u
<1>1. 1 \in DOMAIN q /\ Head(q) = q[1] /\ DOMAIN q \subseteq Nat /\ \A i \in DOMAIN q : i >= 1 /\ q[i] \in Nat
  OBVIOUS
<1>2. ASSUME NEW i \in DOMAIN q PROVE q[1] <= q[i]
  <2>1. i = 1 \/ 1 < i
    BY <1>1
  <2>2. CASE i = 1
    BY <1>1, <2>2
  <2>3. CASE 1 < i
    BY <1>1, <2>3 DEF Ascending
  <2> QED
    BY <2>1, <2>2, <2>3
<1> QED
  BY <1>1, <1>2 DEF ToSet

---------------------------------------------------------------------------------
InChat(t) == ToSet(abQueue[abChat[t]])
PollState == [pc : {"idle", "looked", "got", "expired"}, task : Task \cup {NoTask}]
SendState == [pc : {"idle", "offer", "post", "posted"}, task : Task \cup {NoTask}]

(* Tasks are numbered in the order they are asked.                                   *)
TasksTyped ==
    /\ abChat \in [Task -> AbChats \cup {"none"}] /\ \E n \in 0 .. AbMaxTasks : Asked = 1 .. n
    /\ abQueue \in [AbChats -> Seq(Task)] /\ abStreams \subseteq Asked
    /\ abClosed \subseteq Asked /\ abFinished \subseteq Asked /\ abCancelled \subseteq Asked
    /\ abToPublish \subseteq Asked /\ abGrace \subseteq abClosed
    /\ abAge \in [Task -> {"fresh", "due", "old"}]

(* A goroutine that is under way has a task.                                         *)
GoroutinesTyped ==
    /\ abPoll \in [AbPollers -> PollState]
    /\ \A p \in AbPollers : abPoll[p].pc # "idle" => abPoll[p].task \in Asked
    /\ abSend \in SendState /\ (abSend.pc = "idle" <=> abSend.task = NoTask)
    /\ abSend.pc # "idle" => abSend.task \in Asked

(* Answers are to questions that were asked.                                         *)
MessagesTyped ==
    /\ abAnswer \in [Task -> Seq(Answer)] /\ \A t \in Task : Len(abAnswer[t]) <= 1
    /\ abInbound \in Seq(Task) /\ \A i \in DOMAIN abInbound : abInbound[i] \in Asked
    /\ abOutbox \in Seq(Answer) /\ \A i \in DOMAIN abOutbox : abOutbox[i][1] \in Asked
    /\ abShown \in [Task -> SUBSET Answer] /\ abPosted \in [Task -> Nat]

(* The queues rise, hold what their chat asked and did not finish, and of that the   *)
(* open streams are what is not closed.                                              *)
QueuesKept ==
    /\ \A c \in AbChats : Ascending(abQueue[c])
    /\ \A c \in AbChats : \A t \in ToSet(abQueue[c]) : t \in Asked /\ abChat[t] = c /\ t \notin abFinished
    /\ \A t \in abStreams : t \in InChat(t) /\ t \notin abClosed
    /\ \A t \in Asked : t \in InChat(t) /\ t \notin abClosed => t \in abStreams

(* A task whose URL was used is finished, or Send is about to finish it.             *)
PostsKept ==
    /\ \A t \in Task : abPosted[t] # 0 =>
           /\ abPosted[t] = 1
           /\ t \in abFinished \/ (abSend.pc = "posted" /\ abSend.task = t)
    /\ abSend.pc = "post" => abPosted[abSend.task] = 0

(* What a poll is about to end holds no answer, nor is offered one, but by overlap.  *)
Offering(t) == abSend.pc = "offer" /\ abSend.task = t
Pending(t) == abAnswer[t] # <<>> \/ Offering(t)
StrandKept ==
    /\ \A t \in Task : Ending(t) /\ Pending(t) => t \in abRaced
    /\ \A t \in Asked \ abStreams : Pending(t) => t \in abRaced \cup abCancelled

(* Wherever an answer has come with a task, no earlier question of the chat waits    *)
(* that the answer is for.                                                           *)
InTurn(m, t) == /\ m[1] \in Asked /\ t \in Asked /\ abChat[m[1]] = abChat[t]
                /\ m[1] < t => m[1] \notin InChat(t)
TurnsKept ==
    /\ \A t \in Task : \A m \in abShown[t] : InTurn(m, t)
    /\ \A t \in Task : \A m \in ToSet(abAnswer[t]) : InTurn(m, t)
    /\ abSend.pc # "idle" => abOutbox # <<>> /\ InTurn(Message, abSend.task)

AbInv == TasksTyped /\ GoroutinesTyped /\ MessagesTyped /\ QueuesKept /\ PostsKept /\ StrandKept /\ TurnsKept

(* A new question is the latest of all.                                              *)
LEMMA Asking ==
  ASSUME TasksTyped, NEW p \in AbPollers, HandleText(p)
  PROVE  \E c \in AbChats, t \in Task :
            /\ t \notin Asked /\ Asked' = Asked \cup {t} /\ \A u \in Asked : u < t
            /\ abChat' = [abChat EXCEPT ![t] = c] /\ \A u \in Asked : abChat'[u] = abChat[u]
            /\ abChat'[t] = c /\ \E n \in 0 .. AbMaxTasks : Asked' = 1 .. n
            /\ abStreams' = abStreams \cup {t} /\ abToPublish' = abToPublish \cup {t}
            /\ abQueue' = [abQueue EXCEPT ![c] = Append(@, t)]
            /\ abPoll' = [abPoll EXCEPT ![p] = [pc |-> "looked", task |-> t]]
<1> DEFINE t == Cardinality(Asked) + 1
<1>1. PICK n \in 0 .. AbMaxTasks : Asked = 1 .. n
  BY DEF TasksTyped
<1>2. n \in Nat /\ Cardinality(Asked) = n
  BY <1>1, AbAssumption, FS_Interval
<1>3. PICK c \in AbChats :
        /\ t \in Task /\ abChat' = [abChat EXCEPT ![t] = c]
        /\ abStreams' = abStreams \cup {t} /\ abToPublish' = abToPublish \cup {t}
        /\ abQueue' = [abQueue EXCEPT ![c] = Append(@, t)]
        /\ abPoll' = [abPoll EXCEPT ![p] = [pc |-> "looked", task |-> t]]
  BY DEF HandleText
<1>4. t = n + 1
  BY <1>2
<1> HIDE DEF t
<1>5. t \notin Asked /\ \A u \in Asked : u < t
  BY <1>1, <1>2, <1>4
<1>6. abChat'[t] = c /\ (\A u \in Task : u # t => abChat'[u] = abChat[u]) /\ c # "none"
  BY <1>3, AbAssumption DEF TasksTyped
<1>7. Asked' = Asked \cup {t}
  BY <1>3, <1>6 DEF Asked
<1>8. Asked' = 1 .. (n + 1) /\ n + 1 \in 0 .. AbMaxTasks
  BY <1>1, <1>2, <1>3, <1>4, <1>7, AbAssumption DEF Task
<1>9. \A u \in Asked : abChat'[u] = abChat[u]
  BY <1>5, <1>6 DEF Asked
<1> QED
  BY <1>3, <1>5, <1>6, <1>7, <1>8, <1>9

(* Every other step leaves the questions as they are.                                *)
LEMMA AskedGrows ==
  ASSUME TasksTyped, [AbNext]_abVars
  PROVE  Asked \subseteq Asked' /\ \A t \in Asked : abChat'[t] = abChat[t]
<1>1. ASSUME NEW p \in AbPollers, HandleText(p)
      PROVE  Asked \subseteq Asked' /\ \A t \in Asked : abChat'[t] = abChat[t]
  BY <1>1, Asking
<1>2. CASE abChat' = abChat
  BY <1>2 DEF Asked
<1> QED
  BY <1>1, <1>2 DEF AbNext, abVars, AbSendStep, HandleStream, Select, FinishPoll, CloseStream,
     PublishQuestion,
     TimePasses, AgentReplies, ChooseTask, Offer, SendViaResponseURL, FinishPost, CleanupOldTasks, StopBot

LEMMA Thinned ==
  ASSUME TasksTyped, QueuesKept, NEW gone, NEW c \in AbChats
  PROVE  /\ Without(abQueue[c], gone) \in Seq(Task) /\ Ascending(Without(abQueue[c], gone))
         /\ ToSet(Without(abQueue[c], gone)) = ToSet(abQueue[c]) \ gone
<1>1. abQueue[c] \in Seq(Task) /\ Ascending(abQueue[c])
  BY DEF TasksTyped, QueuesKept
<1> QED
  BY <1>1, WithoutIs

(* A task that is removed is in neither table.                                       *)
LEMMA Removed ==
  ASSUME TasksTyped, QueuesKept, NEW t \in Asked, RemoveTask(t), UNCHANGED <<abChat, abClosed>>
  PROVE  /\ abQueue' \in [AbChats -> Seq(Task)] /\ QueuesKept'
         /\ \A c \in AbChats : ToSet(abQueue'[c]) \subseteq ToSet(abQueue[c])
<1>1. abChat[t] \in AbChats /\ Asked' = Asked
  BY DEF Asked, TasksTyped
<1>2. abQueue' = [abQueue EXCEPT ![abChat[t]] = Without(abQueue[abChat[t]], {t})]
  BY DEF RemoveTask, Unqueued
<1>3. abQueue' \in [AbChats -> Seq(Task)]
  BY <1>1, <1>2, Thinned DEF TasksTyped
<1>4. \A c \in AbChats : abQueue'[c] = IF c = abChat[t] THEN Without(abQueue[c], {t}) ELSE abQueue[c]
  BY <1>2 DEF TasksTyped
<1>5. ASSUME NEW c \in AbChats
      PROVE  Ascending(abQueue'[c]) /\ ToSet(abQueue'[c]) = ToSet(abQueue[c]) \ {t}
  <2>1. CASE c = abChat[t]
    <3>1. abQueue'[c] = Without(abQueue[c], {t})
      BY <1>4, <2>1
    <3>2. /\ Ascending(Without(abQueue[c], {t}))
          /\ ToSet(Without(abQueue[c], {t})) = ToSet(abQueue[c]) \ {t}
      BY Thinned
    <3> QED
      BY <3>1, <3>2
  <2>2. CASE c # abChat[t]
    <3>1. abQueue'[c] = abQueue[c] /\ t \notin ToSet(abQueue[c])
      BY <1>4, <2>2 DEF QueuesKept
    <3> QED
      BY <3>1 DEF QueuesKept
  <2> QED
    BY <2>1, <2>2
<1>6. abFinished' = abFinished \cup {t} /\ abStreams' = abStreams \ {t} /\ abChat' = abChat /\ abClosed' = abClosed
  BY DEF RemoveTask
<1>7. \A u \in Asked : abChat[u] \in AbChats
  BY DEF Asked, TasksTyped
<1>8. abStreams \subseteq Asked
  BY DEF TasksTyped
<1>9. QueuesKept'
  <2>1. \A c \in AbChats : \A u \in ToSet(abQueue'[c]) : u \in Asked' /\ abChat'[u] = c /\ u \notin abFinished'
    BY <1>1, <1>5, <1>6 DEF QueuesKept
  <2>2. \A u \in abStreams' : u \in ToSet(abQueue'[abChat'[u]]) /\ u \notin abClosed'
    BY <1>1, <1>5, <1>6, <1>7, <1>8 DEF QueuesKept, InChat
  <2>3. \A u \in Asked' : u \in ToSet(abQueue'[abChat'[u]]) /\ u \notin abClosed' => u \in abStreams'
    BY <1>1, <1>5, <1>6, <1>7, <1>8 DEF QueuesKept, InChat
  <2> QED
    BY <1>5, <2>1, <2>2, <2>3 DEF QueuesKept, InChat
<1> QED
  BY <1>3, <1>5, <1>9

LEMMA QueuesStay ==
  ASSUME TasksTyped, QueuesKept, UNCHANGED <<abChat, abQueue, abFinished, abStreams, abClosed>>
  PROVE  /\ abQueue' \in [AbChats -> Seq(Task)] /\ QueuesKept'
         /\ \A c \in AbChats : ToSet(abQueue'[c]) \subseteq ToSet(abQueue[c])
BY DEF TasksTyped, QueuesKept, InChat, Asked

(* A step that asks nothing adds nothing to a queue.                                 *)
LEMMA QueuesShrink ==
  ASSUME TasksTyped, GoroutinesTyped, MessagesTyped, QueuesKept, [AbNext]_abVars, \A p \in AbPollers : ~HandleText(p)
  PROVE  /\ abQueue' \in [AbChats -> Seq(Task)] /\ QueuesKept'
         /\ \A c \in AbChats : ToSet(abQueue'[c]) \subseteq ToSet(abQueue[c])
<1>1. ASSUME NEW p \in AbPollers, HandleStream(p) \/ Select(p)
      PROVE  UNCHANGED <<abChat, abQueue, abFinished, abStreams, abClosed>>
  BY <1>1 DEF HandleStream, Select
<1>2. ASSUME NEW p \in AbPollers, FinishPoll(p)
      PROVE  \E t \in Asked : RemoveTask(t) /\ UNCHANGED <<abChat, abClosed>>
  BY <1>2 DEF FinishPoll, GoroutinesTyped
<1>3. CASE FinishPost
  <2>1. abSend.task \in Asked /\ RemoveTask(abSend.task) /\ UNCHANGED <<abChat, abClosed>>
    BY <1>3 DEF FinishPost, FinishTask, GoroutinesTyped
  <2> QED
    BY <2>1, Removed
<1>4. ASSUME NEW p \in AbPollers, CloseStream(p)
      PROVE  /\ abQueue' \in [AbChats -> Seq(Task)] /\ QueuesKept'
             /\ \A c \in AbChats : ToSet(abQueue'[c]) \subseteq ToSet(abQueue[c])
  <2>1. /\ abClosed' = abClosed \cup {abPoll[p].task} /\ abStreams' = abStreams \ {abPoll[p].task}
        /\ UNCHANGED <<abChat, abQueue, abFinished>> /\ Asked' = Asked
    BY <1>4 DEF CloseStream, Asked
  <2> QED
    BY <2>1 DEF QueuesKept, TasksTyped, InChat
<1>5. CASE ChooseTask
  <2> DEFINE c == ChatOf(Message)
             q == Compacted(abQueue[c])
  <2>1. UNCHANGED <<abChat, abFinished, abStreams, abClosed>> /\ abOutbox # <<>>
    BY <1>5 DEF ChooseTask
  <2>2. abQueue' = abQueue \/ abQueue' = [abQueue EXCEPT ![c] = q]
    BY <1>5 DEF ChooseTask
  <2>3. c \in AbChats
    <3>1. 1 \in DOMAIN abOutbox /\ Message = abOutbox[1]
      BY <2>1 DEF Message, MessagesTyped
    <3> QED
      BY <3>1 DEF MessagesTyped, ChatOf, Asked, TasksTyped
  <2>4. q \in Seq(Task) /\ Ascending(q) /\ ToSet(q) = ToSet(abQueue[c]) \ abFinished
    BY <2>3, Thinned DEF Compacted
  <2>5. ToSet(q) = ToSet(abQueue[c])
    BY <2>3, <2>4 DEF QueuesKept
  <2> HIDE DEF c, q
  <2>6. abQueue' \in [AbChats -> Seq(Task)]
    BY <2>2, <2>3, <2>4 DEF TasksTyped
  <2>7. \A d \in AbChats : Ascending(abQueue'[d]) /\ ToSet(abQueue'[d]) = ToSet(abQueue[d])
    BY <2>2, <2>3, <2>4, <2>5 DEF TasksTyped, QueuesKept
  <2>8. Asked' = Asked /\ \A u \in Asked : abChat[u] \in AbChats
    BY <2>1 DEF Asked, TasksTyped
  <2>9. QueuesKept'
    BY <2>1, <2>7, <2>8 DEF QueuesKept, InChat, TasksTyped
  <2> QED
    BY <2>6, <2>7, <2>9
<1>6. CASE CleanupOldTasks
  <2>1. PICK gone : /\ gone = {t \in QueuedTasks \cup abStreams : Overdue(t)}
                    /\ ForgetTasks(gone) /\ UNCHANGED <<abChat, abClosed, abFinished>>
    BY <1>6 DEF CleanupOldTasks, DropOverdue
  <2>2. abQueue' = [c \in AbChats |-> Without(abQueue[c], gone \cup abFinished)]
    BY <2>1 DEF ForgetTasks
  <2>3. abQueue' \in [AbChats -> Seq(Task)]
    BY <2>2, Thinned
  <2>4. \A c \in AbChats : /\ Ascending(abQueue'[c])
                           /\ ToSet(abQueue'[c]) = ToSet(abQueue[c]) \ (gone \cup abFinished)
    BY <2>2, Thinned
  <2>5. Asked' = Asked /\ \A u \in Asked : abChat[u] \in AbChats
    BY <2>1 DEF Asked, TasksTyped
  <2>6. abStreams' = {t \in abStreams : abAge[t] # "old"}
    BY <2>1 DEF ForgetTasks
  <2>7. ASSUME NEW t \in abStreams' PROVE t \in ToSet(abQueue'[abChat[t]]) /\ t \notin abClosed
    <3>1. t \in abStreams /\ abAge[t] # "old" /\ t \notin abGrace /\ t \notin abFinished /\ t \in Asked
      BY <2>5, <2>6 DEF QueuesKept, TasksTyped, InChat
    <3> QED
      BY <2>1, <2>4, <2>5, <3>1 DEF QueuesKept, Overdue, InChat
  <2>8. ASSUME NEW t \in Asked, t \in ToSet(abQueue'[abChat[t]]), t \notin abClosed
        PROVE  t \in abStreams'
    <3>1. t \in ToSet(abQueue[abChat[t]]) /\ t \notin gone /\ t \in QueuedTasks
      BY <2>4, <2>5, <2>8 DEF QueuedTasks
    <3> QED
      BY <2>1, <2>6, <2>8, <3>1 DEF QueuesKept, Overdue, InChat
  <2>9. QueuesKept'
    BY <2>1, <2>4, <2>5, <2>7, <2>8 DEF QueuesKept, InChat
  <2> QED
    BY <2>3, <2>4, <2>9
<1>7. CASE AgentReplies \/ Offer \/ SendViaResponseURL \/ StopBot \/ UNCHANGED abVars
  BY <1>7, QueuesStay DEF AgentReplies, Offer, SendViaResponseURL, StopBot, abVars
<1>8. ASSUME NEW t \in Task, PublishQuestion(t) \/ TimePasses(t)
      PROVE  UNCHANGED <<abChat, abQueue, abFinished, abStreams, abClosed>>
  BY <1>8 DEF PublishQuestion, TimePasses
<1> QED
  BY <1>1, <1>2, <1>3, <1>4, <1>5, <1>6, <1>7, <1>8, Removed, QueuesStay DEF AbNext, AbSendStep

(* A new question goes to the end of its queue.                                      *)
LEMMA QuestionsQueue ==
  ASSUME TasksTyped, QueuesKept, NEW p \in AbPollers, HandleText(p)
  PROVE  /\ abQueue' \in [AbChats -> Seq(Task)] /\ QueuesKept'
         /\ \A c \in AbChats : \A u \in Asked : u \in ToSet(abQueue'[c]) => u \in ToSet(abQueue[c])
<1>1. PICK c \in AbChats, t \in Task :
            /\ t \notin Asked /\ Asked' = Asked \cup {t} /\ \A u \in Asked : u < t
            /\ abChat' = [abChat EXCEPT ![t] = c] /\ \A u \in Asked : abChat'[u] = abChat[u]
            /\ abChat'[t] = c /\ abStreams' = abStreams \cup {t}
            /\ abQueue' = [abQueue EXCEPT ![c] = Append(@, t)]
  BY Asking
<1>2. UNCHANGED <<abFinished, abClosed>>
  BY DEF HandleText
<1>3. abQueue[c] \in Seq(Task) /\ abQueue[c] \in Seq(Nat) /\ t \in Nat /\ Ascending(abQueue[c])
  <2>1. Task \subseteq Nat
    BY AbAssumption DEF Task
  <2>2. abQueue[c] \in Seq(Task) /\ Ascending(abQueue[c])
    BY DEF TasksTyped, QueuesKept
  <2>3. abQueue[c] \in Seq(Nat)
    BY <2>1, <2>2, WiderQueue
  <2>4. t \in Nat
    BY <2>1
  <2> QED
    BY <2>2, <2>3, <2>4
<1>4. \A u \in ToSet(abQueue[c]) : u < t
  BY <1>1 DEF QueuesKept
<1>5. Ascending(Append(abQueue[c], t)) /\ ToSet(Append(abQueue[c], t)) = ToSet(abQueue[c]) \cup {t}
  BY <1>3, <1>4, AppendedTask
<1>6. abQueue' \in [AbChats -> Seq(Task)]
  BY <1>1, <1>3 DEF TasksTyped
<1>7. \A d \in AbChats : abQueue'[d] = IF d = c THEN Append(abQueue[c], t) ELSE abQueue[d]
  BY <1>1 DEF TasksTyped
<1>8. \A d \in AbChats : /\ Ascending(abQueue'[d])
                         /\ ToSet(abQueue'[d]) = IF d = c THEN ToSet(abQueue[c]) \cup {t} ELSE ToSet(abQueue[d])
  BY <1>5, <1>7 DEF QueuesKept
<1>9. t \notin abFinished /\ t \notin abClosed /\ abStreams \subseteq Asked /\ \A u \in Asked : abChat[u] \in AbChats
  BY <1>1 DEF TasksTyped, Asked
<1>10. QueuesKept'
  <2>1. \A d \in AbChats : \A u \in ToSet(abQueue'[d]) : u \in Asked' /\ abChat'[u] = d /\ u \notin abFinished'
    BY <1>1, <1>2, <1>8, <1>9 DEF QueuesKept
  <2>2. \A u \in abStreams' : u \in ToSet(abQueue'[abChat'[u]]) /\ u \notin abClosed'
    BY <1>1, <1>2, <1>8, <1>9 DEF QueuesKept, InChat
  <2>3. \A u \in Asked' : u \in ToSet(abQueue'[abChat'[u]]) /\ u \notin abClosed' => u \in abStreams'
    BY <1>1, <1>2, <1>8, <1>9 DEF QueuesKept, InChat
  <2> QED
    BY <1>8, <2>1, <2>2, <2>3 DEF QueuesKept, InChat
<1> QED
  BY <1>1, <1>6, <1>8, <1>10

(* The task Send chooses is the oldest that waits, of the answer's own chat.         *)
LEMMA ChosenTask ==
  ASSUME TasksTyped, MessagesTyped, QueuesKept, abOutbox # <<>>,
         Compacted(abQueue[ChatOf(Message)]) # <<>>
  PROVE  LET q == Compacted(abQueue[ChatOf(Message)]) IN
         /\ Message \in Answer /\ Message[1] \in Asked /\ ChatOf(Message) \in AbChats
         /\ Head(q) \in Asked /\ abChat[Head(q)] = ChatOf(Message)
         /\ Head(q) \in InChat(Head(q)) /\ Head(q) \notin abFinished
         /\ \A u \in ToSet(abQueue[ChatOf(Message)]) : Head(q) <= u
<1> DEFINE c == ChatOf(Message)
           q == Compacted(abQueue[c])
<1>1. Message \in Answer /\ Message[1] \in Asked
  <2>1. 1 \in DOMAIN abOutbox /\ Message = abOutbox[1]
    BY DEF Message, MessagesTyped
  <2>2. abOutbox[1] \in Answer
    BY <2>1 DEF MessagesTyped
  <2> QED
    BY <2>1, <2>2 DEF MessagesTyped
<1>2. c \in AbChats
  BY <1>1 DEF ChatOf, Asked, TasksTyped
<1>3. q \in Seq(Task) /\ Ascending(q) /\ ToSet(q) = ToSet(abQueue[c]) \ abFinished
  BY <1>2, Thinned DEF Compacted
<1>4. ToSet(q) = ToSet(abQueue[c])
  BY <1>2, <1>3 DEF QueuesKept
<1> HIDE DEF q
<1>5. q \in Seq(Nat) /\ q # <<>>
  <2>1. Task \subseteq Nat
    BY AbAssumption DEF Task
  <2> QED
    BY <1>3, <2>1, WiderQueue DEF q
<1>6. Head(q) \in ToSet(q) /\ \A u \in ToSet(q) : Head(q) <= u
  BY <1>3, <1>5, OldestTask
<1>7. Head(q) \in Asked /\ abChat[Head(q)] = c /\ Head(q) \notin abFinished
  BY <1>2, <1>4, <1>6 DEF QueuesKept
<1> QED
  BY <1>1, <1>2, <1>4, <1>6, <1>7 DEF q, InChat

LEMMA TasksTypedKept ==
  ASSUME TasksTyped, GoroutinesTyped, MessagesTyped, QueuesKept, [AbNext]_abVars
  PROVE  TasksTyped'
<1>1. abQueue' \in [AbChats -> Seq(Task)]
  BY QueuesShrink, QuestionsQueue
<1>2. ASSUME NEW p \in AbPollers, HandleText(p) PROVE TasksTyped'
  <2>1. PICK c \in AbChats, t \in Task :
            /\ Asked' = Asked \cup {t} /\ abChat' = [abChat EXCEPT ![t] = c]
            /\ \E n \in 0 .. AbMaxTasks : Asked' = 1 .. n
            /\ abStreams' = abStreams \cup {t} /\ abToPublish' = abToPublish \cup {t}
    BY <1>2, Asking
  <2>2. abChat' \in [Task -> AbChats \cup {"none"}]
    BY <2>1 DEF TasksTyped
  <2>3. UNCHANGED <<abClosed, abFinished, abCancelled, abAge, abGrace>>
    BY <1>2 DEF HandleText, abClock
  <2> QED
    BY <1>1, <2>1, <2>2, <2>3 DEF TasksTyped
<1>3. ASSUME UNCHANGED abChat,
             /\ abStreams' \subseteq Asked /\ abClosed' \subseteq Asked
             /\ abFinished' \subseteq Asked
             /\ abCancelled' \subseteq Asked /\ abToPublish' \subseteq Asked
             /\ abGrace' \subseteq abClosed'
             /\ abAge' \in [Task -> {"fresh", "due", "old"}]
      PROVE  TasksTyped'
  <2>1. Asked' = Asked
    BY <1>3 DEF Asked
  <2> QED
    BY <1>1, <1>3, <2>1 DEF TasksTyped
<1>4. ASSUME NEW p \in AbPollers, HandleStream(p) \/ Select(p) PROVE TasksTyped'
  BY <1>3, <1>4 DEF HandleStream, Select, TasksTyped, abClock, abAgent
<1>5. ASSUME NEW p \in AbPollers, FinishPoll(p) \/ CloseStream(p) PROVE TasksTyped'
  <2>1. abPoll[p].task \in Asked
    BY <1>5 DEF FinishPoll, CloseStream, GoroutinesTyped
  <2>2. CASE FinishPoll(p)
    BY <1>3, <2>1, <2>2 DEF FinishPoll, RemoveTask, TasksTyped, abClock, abAgent
  <2>3. CASE CloseStream(p)
    BY <1>3, <2>1, <2>3 DEF CloseStream, TasksTyped, abClock, abAgent
  <2> QED
    BY <1>5, <2>2, <2>3
<1>6. ASSUME NEW t \in Task, PublishQuestion(t) PROVE TasksTyped'
  BY <1>3, <1>6 DEF PublishQuestion, TasksTyped, abClock
<1>7. ASSUME NEW t \in Task, TimePasses(t) PROVE TasksTyped'
  <2>1. /\ UNCHANGED <<abChat, abStreams, abClosed, abFinished, abCancelled, abToPublish>>
        /\ abGrace' = abGrace \/ (t \in abClosed /\ abGrace' = abGrace \cup {t})
        /\ abAge' = abAge \/ abAge' = [abAge EXCEPT ![t] = IF @ = "fresh" THEN "due" ELSE "old"]
    BY <1>7 DEF TimePasses, abAgent
  <2>2. abAge' \in [Task -> {"fresh", "due", "old"}]
    BY <2>1 DEF TasksTyped
  <2> QED
    BY <1>3, <2>1, <2>2 DEF TasksTyped
<1>8. CASE AgentReplies \/ ChooseTask \/ Offer \/ SendViaResponseURL
  BY <1>3, <1>8 DEF AgentReplies, ChooseTask, Offer, SendViaResponseURL, TasksTyped, abClock,
     abAgent
<1>9. CASE FinishPost
  <2>1. abSend.task \in Asked
    BY <1>9 DEF FinishPost, GoroutinesTyped
  <2> QED
    BY <1>3, <1>9, <2>1 DEF FinishPost, FinishTask, RemoveTask, TasksTyped, abClock, abAgent
<1>10. CASE CleanupOldTasks
  <2>1. PICK gone : /\ gone = {t \in QueuedTasks \cup abStreams : Overdue(t)}
                    /\ DropOverdue(gone)
                    /\ UNCHANGED <<abChat, abClosed, abFinished, abToPublish, abAge, abGrace>>
    BY <1>10 DEF CleanupOldTasks, abClock, abAgent
  <2>2. gone \subseteq Asked
    <3> SUFFICES ASSUME NEW t \in gone PROVE t \in Asked
      OBVIOUS
    <3>1. t \in abStreams \/ \E c \in AbChats : t \in ToSet(abQueue[c])
      BY <2>1 DEF QueuedTasks
    <3> QED
      BY <3>1 DEF QueuesKept, TasksTyped
  <2> QED
    BY <1>3, <2>1, <2>2 DEF DropOverdue, ForgetTasks, TasksTyped
<1>11. CASE StopBot
  BY <1>3, <1>11 DEF StopBot, TasksTyped, abClock, abAgent
<1>12. CASE UNCHANGED abVars
  BY <1>3, <1>12 DEF abVars, TasksTyped
<1> QED
  BY <1>2, <1>4, <1>5, <1>6, <1>7, <1>8, <1>9, <1>10, <1>11, <1>12 DEF AbNext, AbSendStep

LEMMA PollSteps ==
  /\ IdlePoll \in PollState /\ IdlePoll.pc = "idle" /\ IdlePoll.task = NoTask
  /\ \A t \in Task, pc \in {"looked", "got", "expired"} :
        /\ [pc |-> pc, task |-> t] \in PollState
        /\ [pc |-> pc, task |-> t].pc = pc /\ [pc |-> pc, task |-> t].task = t
BY DEF PollState, IdlePoll

LEMMA SendSteps ==
  /\ IdleSend \in SendState /\ IdleSend.pc = "idle" /\ IdleSend.task = NoTask
  /\ \A t \in Task, pc \in {"offer", "post"} :
        /\ [pc |-> pc, task |-> t] \in SendState
        /\ [pc |-> pc, task |-> t].pc = pc /\ [pc |-> pc, task |-> t].task = t
  /\ \A s \in SendState : /\ [s EXCEPT !.pc = "posted"] \in SendState /\ [s EXCEPT !.pc = "posted"].pc = "posted"
                          /\ [s EXCEPT !.pc = "posted"].task = s.task
BY DEF SendState, IdleSend

(* What a poll's step makes of its handler.                                          *)
LEMMA PollerMoves ==
  ASSUME TasksTyped, GoroutinesTyped, [AbNext]_abVars
  PROVE  \/ UNCHANGED abPoll
         \/ \E p \in AbPollers, t \in Asked', pc \in {"looked", "got", "expired"} :
               /\ abPoll' = [abPoll EXCEPT ![p] = [pc |-> pc, task |-> t]]
               /\ pc # "looked" => Select(p) /\ t = abPoll[p].task /\ pc = Selected(t)
         \/ \E p \in AbPollers : abPoll' = [abPoll EXCEPT ![p] = IdlePoll]
<1> DEFINE Goal == \/ UNCHANGED abPoll
                   \/ \E p \in AbPollers, t \in Asked', pc \in {"looked", "got", "expired"} :
                         /\ abPoll' = [abPoll EXCEPT ![p] = [pc |-> pc, task |-> t]]
                         /\ pc # "looked" => Select(p) /\ t = abPoll[p].task /\ pc = Selected(t)
                   \/ \E p \in AbPollers : abPoll' = [abPoll EXCEPT ![p] = IdlePoll]
<1>1. ASSUME NEW p \in AbPollers, HandleText(p) PROVE Goal
  <2>1. PICK t \in Task : Asked' = Asked \cup {t} /\ abPoll' = [abPoll EXCEPT ![p] = [pc |-> "looked", task |-> t]]
    BY <1>1, Asking
  <2> QED
    BY <2>1
<1>2. ASSUME NEW p \in AbPollers, HandleStream(p) PROVE Goal
  <2>1. PICK t \in abStreams : UNCHANGED abChat /\ abPoll' = [abPoll EXCEPT ![p] = [pc |-> "looked", task |-> t]]
    BY <1>2 DEF HandleStream
  <2>2. t \in Asked'
    BY <2>1 DEF Asked, TasksTyped
  <2> QED
    BY <2>1, <2>2
<1>3. ASSUME NEW p \in AbPollers, Select(p) PROVE Goal
  <2> DEFINE t == abPoll[p].task
             pc == Selected(t)
  <2>1. /\ UNCHANGED abChat /\ abPoll[p].pc = "looked"
        /\ abPoll' = [abPoll EXCEPT ![p] = IF pc = "idle" THEN IdlePoll ELSE [pc |-> pc, task |-> t]]
    BY <1>3 DEF Select
  <2>2. t \in Asked'
    BY <2>1 DEF Asked, GoroutinesTyped
  <2>3. pc \in {"idle", "got", "expired"}
    BY DEF Selected
  <2> HIDE DEF pc
  <2>4. CASE pc = "idle"
    BY <2>1, <2>4
  <2>5. CASE pc \in {"got", "expired"}
    BY <1>3, <2>1, <2>2, <2>5 DEF pc
  <2> QED
    BY <2>3, <2>4, <2>5
<1>4. ASSUME NEW p \in AbPollers, FinishPoll(p) \/ CloseStream(p) PROVE Goal
  BY <1>4 DEF FinishPoll, CloseStream
<1>5. ASSUME NEW t \in Task, PublishQuestion(t) \/ TimePasses(t) PROVE Goal
  BY <1>5 DEF PublishQuestion, TimePasses
<1>6. CASE AgentReplies \/ AbSendStep \/ CleanupOldTasks \/ StopBot \/ UNCHANGED abVars
  BY <1>6 DEF AgentReplies, AbSendStep, ChooseTask, Offer, SendViaResponseURL, FinishPost,
     CleanupOldTasks, StopBot,
     abVars
<1> QED
  BY <1>1, <1>2, <1>3, <1>4, <1>5, <1>6 DEF AbNext

(* What Send finds of the task it chooses.                                           *)
Chosen(t, pc) == /\ abSend.pc = "idle" /\ UNCHANGED <<abPosted, abAnswer>> /\ t \notin abFinished
                 /\ abOutbox # <<>> /\ InTurn(Message, t)
                 /\ pc = "offer" => t \in abStreams /\ (Ending(t) => t \in abRaced')

(* What a step makes of Send.                                                        *)
LEMMA SendMoves ==
  ASSUME TasksTyped, GoroutinesTyped, MessagesTyped, QueuesKept, [AbNext]_abVars
  PROVE  \/ UNCHANGED abSend
         \/ abSend' = IdleSend /\ (abSend.pc = "posted" => abSend.task \in abFinished')
         \/ \E t \in Asked, pc \in {"offer", "post"} : Chosen(t, pc) /\ abSend' = [pc |-> pc, task |-> t]
         \/ SendViaResponseURL /\ abSend.pc = "post" /\ abSend' = [abSend EXCEPT !.pc = "posted"]
<1>1. ASSUME NEW p \in AbPollers, HandleText(p) \/ HandleStream(p) \/ Select(p) \/ FinishPoll(p) \/ CloseStream(p)
      PROVE  UNCHANGED abSend
  BY <1>1 DEF HandleText, HandleStream, Select, FinishPoll, CloseStream
<1>2. ASSUME NEW t \in Task, PublishQuestion(t) \/ TimePasses(t) PROVE UNCHANGED abSend
  BY <1>2 DEF PublishQuestion, TimePasses
<1>3. CASE AgentReplies \/ CleanupOldTasks \/ StopBot \/ UNCHANGED abVars
  BY <1>3 DEF AgentReplies, CleanupOldTasks, StopBot, abVars
<1>4. CASE Offer \/ FinishPost
  BY <1>4 DEF Offer, FinishPost, DropAnswer, FinishTask, RemoveTask
<1>5. CASE SendViaResponseURL
  BY <1>5 DEF SendViaResponseURL
<1>6. CASE ChooseTask
  <2> DEFINE q == Compacted(abQueue[ChatOf(Message)])
             t == Head(q)
             pc == IF t \in abClosed THEN "post" ELSE "offer"
  <2>1. CASE ~abRunning \/ q = <<>>
    BY <1>6, <2>1 DEF ChooseTask, DropAnswer
  <2>2. CASE ~(~abRunning \/ q = <<>>)
    <3>1. abOutbox # <<>> /\ q # <<>> /\ abSend.pc = "idle" /\ UNCHANGED <<abPosted, abAnswer>>
      BY <1>6, <2>2 DEF ChooseTask
    <3>2. abSend' = [pc |-> pc, task |-> t] /\ (Ending(t) => t \in abRaced')
      BY <1>6, <2>2 DEF ChooseTask, Earliest
    <3>3. /\ Message[1] \in Asked /\ t \in Asked /\ abChat[t] = abChat[Message[1]]
          /\ t \in InChat(t)
          /\ t \notin abFinished /\ \A u \in InChat(t) : t <= u
      BY <3>1, ChosenTask DEF ChatOf, InChat
    <3> HIDE DEF t
    <3>4. InTurn(Message, t)
      <4>1. t \in Nat /\ Message[1] \in Nat
        BY <3>3, AbAssumption DEF Asked, Task
      <4>2. Message[1] < t => Message[1] \notin InChat(t)
        BY <3>3, <4>1
      <4> QED
        BY <3>3, <4>2 DEF InTurn
    <3>5. t \notin abClosed => t \in abStreams
      BY <3>3 DEF QueuesKept
    <3>6. Chosen(t, pc) /\ pc \in {"offer", "post"}
      BY <3>1, <3>2, <3>3, <3>4, <3>5 DEF Chosen
    <3> QED
      BY <3>2, <3>3, <3>6
  <2> QED
    BY <2>1, <2>2
<1> QED
  BY <1>1, <1>2, <1>3, <1>4, <1>5, <1>6 DEF AbNext, AbSendStep

LEMMA GoroutinesTypedKept ==
  ASSUME TasksTyped, GoroutinesTyped, MessagesTyped, QueuesKept, [AbNext]_abVars
  PROVE  GoroutinesTyped'
<1>1. Asked \subseteq Asked' /\ Asked' \subseteq Task
  BY AskedGrows DEF Asked
<1>2. /\ abPoll' \in [AbPollers -> PollState]
      /\ \A p \in AbPollers : abPoll'[p].pc # "idle" => abPoll'[p].task \in Asked'
  <2>1. CASE UNCHANGED abPoll
    BY <1>1, <2>1 DEF GoroutinesTyped
  <2>2. ASSUME NEW p \in AbPollers, abPoll' = [abPoll EXCEPT ![p] = IdlePoll]
        PROVE  /\ abPoll' \in [AbPollers -> PollState]
               /\ \A r \in AbPollers : abPoll'[r].pc # "idle" => abPoll'[r].task \in Asked'
    BY <1>1, <2>2, PollSteps DEF GoroutinesTyped
  <2>3. ASSUME NEW p \in AbPollers, NEW t \in Asked', NEW pc \in {"looked", "got", "expired"},
               abPoll' = [abPoll EXCEPT ![p] = [pc |-> pc, task |-> t]]
        PROVE  /\ abPoll' \in [AbPollers -> PollState]
               /\ \A r \in AbPollers : abPoll'[r].pc # "idle" => abPoll'[r].task \in Asked'
    BY <1>1, <2>3, PollSteps DEF GoroutinesTyped
  <2> QED
    BY <2>1, <2>2, <2>3, PollerMoves
<1>3. /\ abSend' \in SendState /\ (abSend'.pc = "idle" <=> abSend'.task = NoTask)
      /\ abSend'.pc # "idle" => abSend'.task \in Asked'
  <2>1. NoTask \notin Task /\ Asked \subseteq Task
    BY DEF NoTask, Task, Asked
  <2>2. CASE UNCHANGED abSend
    BY <1>1, <2>2 DEF GoroutinesTyped
  <2>3. CASE abSend' = IdleSend
    BY <2>3, SendSteps
  <2>4. ASSUME NEW t \in Asked, NEW pc \in {"offer", "post"}, abSend' = [pc |-> pc, task |-> t]
        PROVE  /\ abSend' \in SendState /\ (abSend'.pc = "idle" <=> abSend'.task = NoTask)
               /\ abSend'.pc # "idle" => abSend'.task \in Asked'
    BY <1>1, <2>1, <2>4, SendSteps
  <2>5. CASE abSend.pc = "post" /\ abSend' = [abSend EXCEPT !.pc = "posted"]
    BY <1>1, <2>1, <2>5, SendSteps DEF GoroutinesTyped
  <2> QED
    BY <2>2, <2>3, <2>4, <2>5, SendMoves
<1> QED
  BY <1>2, <1>3 DEF GoroutinesTyped

LEMMA OneAnswer ==
  ASSUME NEW m \in Answer
  PROVE  /\ Append(<<>>, m) = <<m>> /\ <<m>> \in Seq(Answer) /\ <<>> \in Seq(Answer)
         /\ Len(<<m>>) = 1
         /\ Len(<<>>) = 0 /\ ToSet(<<m>>) = {m} /\ ToSet(<<>>) = {} /\ <<m>> # <<>>
<1>1. /\ Append(<<>>, m) = <<m>> /\ <<m>> \in Seq(Answer) /\ <<>> \in Seq(Answer) /\ Len(<<m>>) = 1
      /\ Len(<<>>) = 0 /\ <<m>> # <<>> /\ DOMAIN <<m>> = {1} /\ <<m>>[1] = m
  OBVIOUS
<1>2. ToSet(<<m>>) = {m}
  BY <1>1 DEF ToSet
<1>3. ToSet(<<>>) = {}
  BY DEF ToSet
<1> QED
  BY <1>1, <1>2, <1>3

(* What a step makes of the answers, and of what the user has seen.                  *)
LEMMA AnswersMove ==
  ASSUME TasksTyped, GoroutinesTyped, MessagesTyped, QueuesKept, TurnsKept, [AbNext]_abVars
  PROVE  \/ UNCHANGED abAnswer
         \/ \E p \in AbPollers, t \in Asked :
               Select(p) /\ t = abPoll[p].task /\ abAnswer' = [abAnswer EXCEPT ![t] = <<>>]
         \/ /\ Offer /\ Room(abSend.task) /\ abSend.task \in Asked /\ abOutbox # <<>>
            /\ abAnswer' = [abAnswer EXCEPT ![abSend.task] = <<Message>>]
<1>1. ASSUME NEW p \in AbPollers, HandleText(p) \/ HandleStream(p) \/ FinishPoll(p) \/ CloseStream(p)
      PROVE  UNCHANGED abAnswer
  BY <1>1 DEF HandleText, HandleStream, FinishPoll, CloseStream
<1>2. ASSUME NEW p \in AbPollers, Select(p)
      PROVE  UNCHANGED abAnswer \/ \E t \in Asked : t = abPoll[p].task /\ abAnswer' = [abAnswer EXCEPT ![t] = <<>>]
  BY <1>2 DEF Select, GoroutinesTyped
<1>3. CASE Offer
  <2>1. abSend.task \in Asked /\ abOutbox # <<>>
    BY <1>3 DEF Offer, GoroutinesTyped, TurnsKept
  <2>2. Message \in Answer
    BY <2>1 DEF Message, MessagesTyped
  <2>3. ASSUME Room(abSend.task), abAnswer' = [abAnswer EXCEPT ![abSend.task] = Append(@, Message)]
        PROVE  abAnswer' = [abAnswer EXCEPT ![abSend.task] = <<Message>>]
    BY <2>2, <2>3, OneAnswer DEF Room
  <2> QED
    BY <1>3, <2>1, <2>3 DEF Offer
<1>4. ASSUME NEW t \in Task, PublishQuestion(t) \/ TimePasses(t) PROVE UNCHANGED abAnswer
  BY <1>4 DEF PublishQuestion, TimePasses
<1>5. CASE \/ AgentReplies \/ ChooseTask \/ SendViaResponseURL \/ FinishPost \/ CleanupOldTasks
           \/ StopBot \/ UNCHANGED abVars
  BY <1>5 DEF AgentReplies, ChooseTask, SendViaResponseURL, FinishPost, CleanupOldTasks, StopBot,
     abVars
<1> QED
  BY <1>1, <1>2, <1>3, <1>4, <1>5 DEF AbNext, AbSendStep

LEMMA ShownGrows ==
  ASSUME TasksTyped, GoroutinesTyped, MessagesTyped, QueuesKept, TurnsKept, [AbNext]_abVars
  PROVE  \/ UNCHANGED abShown
         \/ \E t \in Asked : \E m \in ToSet(abAnswer[t]) : abShown' = [abShown EXCEPT ![t] = @ \cup {m}]
         \/ /\ abSend.pc = "post" /\ abSend.task \in Asked /\ abOutbox # <<>>
            /\ abShown' = [abShown EXCEPT ![abSend.task] = @ \cup {Message}]
<1>1. ASSUME NEW p \in AbPollers, HandleText(p) \/ HandleStream(p) \/ FinishPoll(p) \/ CloseStream(p)
      PROVE  UNCHANGED abShown
  BY <1>1 DEF HandleText, HandleStream, FinishPoll, CloseStream, abHistory
<1>2. ASSUME NEW p \in AbPollers, Select(p)
      PROVE  \/ UNCHANGED abShown
             \/ \E t \in Asked : \E m \in ToSet(abAnswer[t]) : abShown' = [abShown EXCEPT ![t] = @ \cup {m}]
  <2> DEFINE t == abPoll[p].task
  <2>1. /\ t \in Asked
        /\ UNCHANGED abShown \/ (Selected(t) = "got" /\ abShown' = [abShown EXCEPT ![t] = @ \cup {Head(abAnswer[t])}])
    BY <1>2 DEF Select, GoroutinesTyped
  <2> HIDE DEF t
  <2>2. CASE Selected(t) = "got"
    <3>1. abAnswer[t] # <<>>
      BY <2>2 DEF Selected
    <3>2. abAnswer[t] \in Seq(Answer)
      BY <2>1 DEF MessagesTyped, Asked
    <3>3. 1 \in DOMAIN abAnswer[t] /\ Head(abAnswer[t]) = abAnswer[t][1]
      BY <3>1, <3>2
    <3>4. Head(abAnswer[t]) \in ToSet(abAnswer[t])
      BY <3>3 DEF ToSet
    <3> QED
      BY <2>1, <3>4
  <2> QED
    BY <2>1, <2>2
<1>3. CASE SendViaResponseURL
  <2>1. abSend.pc = "post" /\ abSend.task \in Asked /\ abOutbox # <<>>
    BY <1>3 DEF SendViaResponseURL, GoroutinesTyped, TurnsKept
  <2>2. PICK ok \in BOOLEAN : abShown' = [abShown EXCEPT ![abSend.task] = IF ok THEN @ \cup {Message} ELSE @]
    BY <1>3 DEF SendViaResponseURL
  <2>3. CASE ok
    BY <2>1, <2>2, <2>3
  <2>4. CASE ~ok
    BY <2>2, <2>4 DEF MessagesTyped
  <2> QED
    BY <2>3, <2>4
<1>4. ASSUME NEW t \in Task, PublishQuestion(t) \/ TimePasses(t) PROVE UNCHANGED abShown
  BY <1>4 DEF PublishQuestion, TimePasses, abHistory
<1>5. CASE AgentReplies \/ Offer \/ ChooseTask \/ FinishPost \/ CleanupOldTasks \/ StopBot \/ UNCHANGED abVars
  BY <1>5 DEF AgentReplies, Offer, ChooseTask, FinishPost, CleanupOldTasks, StopBot, abVars,
     abHistory
<1> QED
  BY <1>1, <1>2, <1>3, <1>4, <1>5 DEF AbNext, AbSendStep

LEMMA QueueTail ==
  ASSUME NEW S, NEW q \in Seq(S), q # <<>>, NEW A, \A i \in DOMAIN q : q[i] \in A
  PROVE  Tail(q) \in Seq(S) /\ \A i \in DOMAIN Tail(q) : Tail(q)[i] \in A
<1>1. /\ Tail(q) \in Seq(S) /\ Len(q) \in Nat /\ Len(q) > 0 /\ DOMAIN Tail(q) = 1 .. Len(q) - 1
      /\ \A i \in 1 .. Len(q) - 1 : Tail(q)[i] = q[i + 1]
  OBVIOUS
<1>2. \A i \in 1 .. Len(q) - 1 : i + 1 \in DOMAIN q
  BY <1>1
<1> QED
  BY <1>1, <1>2

LEMMA QueueAppend ==
  ASSUME NEW S, NEW q \in Seq(S), NEW A, NEW e \in S, e \in A, \A i \in DOMAIN q : q[i] \in A
  PROVE  Append(q, e) \in Seq(S) /\ \A i \in DOMAIN Append(q, e) : Append(q, e)[i] \in A
<1>1. /\ Append(q, e) \in Seq(S) /\ Len(q) \in Nat /\ DOMAIN Append(q, e) = 1 .. Len(q) + 1
      /\ DOMAIN q = 1 .. Len(q) /\ Append(q, e)[Len(q) + 1] = e
      /\ \A i \in 1 .. Len(q) : Append(q, e)[i] = q[i]
  OBVIOUS
<1>2. \A i \in 1 .. Len(q) + 1 : i \in 1 .. Len(q) \/ i = Len(q) + 1
  BY <1>1
<1> QED
  BY <1>1, <1>2

LEMMA JoinedQueues ==
  ASSUME NEW S, NEW q \in Seq(S), NEW r \in Seq(S)
  PROVE  /\ q \o r \in Seq(S) /\ Len(q \o r) = Len(q) + Len(r)
         /\ \A i \in DOMAIN (q \o r) :
               (\E j \in DOMAIN q : (q \o r)[i] = q[j]) \/ (\E j \in DOMAIN r : (q \o r)[i] = r[j])
         /\ q # <<>> => Head(q \o r) = Head(q) /\ q \o r # <<>>
<1>1. /\ q \o r \in Seq(S) /\ Len(q \o r) = Len(q) + Len(r) /\ Len(q) \in Nat /\ Len(r) \in Nat
      /\ \A i \in 1 .. Len(q) + Len(r) : (q \o r)[i] = IF i <= Len(q) THEN q[i] ELSE r[i - Len(q)]
  OBVIOUS
<1>2. DOMAIN (q \o r) = 1 .. Len(q) + Len(r) /\ DOMAIN q = 1 .. Len(q) /\ DOMAIN r = 1 .. Len(r)
  BY <1>1
<1>3. ASSUME NEW i \in DOMAIN (q \o r)
      PROVE  (\E j \in DOMAIN q : (q \o r)[i] = q[j]) \/ (\E j \in DOMAIN r : (q \o r)[i] = r[j])
  <2>1. CASE i <= Len(q)
    BY <1>1, <1>2, <2>1
  <2>2. CASE ~(i <= Len(q))
    <3>1. i - Len(q) \in DOMAIN r /\ (q \o r)[i] = r[i - Len(q)]
      BY <1>1, <1>2, <2>2
    <3> QED
      BY <3>1
  <2> QED
    BY <2>1, <2>2
<1>4. ASSUME q # <<>> PROVE Head(q \o r) = Head(q) /\ q \o r # <<>>
  <2>1. Len(q) > 0 /\ Len(q \o r) > 0
    BY <1>1, <1>4
  <2> QED
    BY <1>1, <2>1
<1> QED
  BY <1>1, <1>3, <1>4

LEMMA InboundMoves ==
  ASSUME TasksTyped, MessagesTyped, [AbNext]_abVars
  PROVE  abInbound' \in Seq(Task) /\ \A i \in DOMAIN abInbound' : abInbound'[i] \in Asked
<1>1. CASE UNCHANGED abInbound
  BY <1>1 DEF MessagesTyped
<1>2. ASSUME NEW t \in Task, PublishQuestion(t)
      PROVE  abInbound' \in Seq(Task) /\ \A i \in DOMAIN abInbound' : abInbound'[i] \in Asked
  <2>1. t \in Asked /\ (UNCHANGED abInbound \/ abInbound' = Append(abInbound, t))
    BY <1>2 DEF PublishQuestion, TasksTyped
  <2>2. CASE abInbound' = Append(abInbound, t)
    <3>1. /\ Append(abInbound, t) \in Seq(Task)
          /\ \A i \in DOMAIN Append(abInbound, t) : Append(abInbound, t)[i] \in Asked
      BY <2>1, QueueAppend DEF MessagesTyped
    <3> QED
      BY <2>2, <3>1
  <2> QED
    BY <1>1, <2>1, <2>2
<1>3. CASE AgentReplies
  <2>1. abInbound # <<>> /\ abInbound' = Tail(abInbound)
    BY <1>3 DEF AgentReplies
  <2> QED
    BY <2>1, QueueTail DEF MessagesTyped
<1>4. ASSUME NEW p \in AbPollers, HandleText(p) \/ HandleStream(p) \/ Select(p) \/ FinishPoll(p) \/ CloseStream(p)
      PROVE  UNCHANGED abInbound
  BY <1>4 DEF HandleText, HandleStream, Select, FinishPoll, CloseStream, abAgent
<1>5. ASSUME NEW t \in Task, TimePasses(t) PROVE UNCHANGED abInbound
  BY <1>5 DEF TimePasses, abAgent
<1>6. ASSUME AbSendStep PROVE UNCHANGED abInbound
  BY <1>6 DEF AbSendStep, ChooseTask, Offer, SendViaResponseURL, FinishPost, abAgent
<1>7. ASSUME CleanupOldTasks \/ StopBot \/ UNCHANGED abVars PROVE UNCHANGED abInbound
  BY <1>7 DEF CleanupOldTasks, StopBot, abVars, abAgent
<1> QED
  BY <1>1, <1>2, <1>3, <1>4, <1>5, <1>6, <1>7 DEF AbNext

LEMMA PostsMove ==
  ASSUME MessagesTyped, GoroutinesTyped, [AbNext]_abVars
  PROVE  \/ UNCHANGED abPosted
         \/ /\ abSend.pc = "post" /\ abSend' = [abSend EXCEPT !.pc = "posted"]
            /\ abSend.task \in Asked /\ abPosted' = [abPosted EXCEPT ![abSend.task] = @ + 1]
<1>1. CASE SendViaResponseURL
  BY <1>1 DEF SendViaResponseURL, GoroutinesTyped
<1>2. ASSUME NEW p \in AbPollers, HandleText(p) \/ HandleStream(p) \/ Select(p) \/ FinishPoll(p) \/ CloseStream(p)
      PROVE  UNCHANGED abPosted
  BY <1>2 DEF HandleText, HandleStream, Select, FinishPoll, CloseStream, abHistory
<1>3. ASSUME NEW t \in Task, PublishQuestion(t) \/ TimePasses(t) PROVE UNCHANGED abPosted
  BY <1>3 DEF PublishQuestion, TimePasses, abHistory
<1>4. CASE AgentReplies \/ ChooseTask \/ Offer \/ FinishPost \/ CleanupOldTasks \/ StopBot \/ UNCHANGED abVars
  BY <1>4 DEF AgentReplies, ChooseTask, Offer, FinishPost, CleanupOldTasks, StopBot, abVars,
     abHistory
<1> QED
  BY <1>1, <1>2, <1>3, <1>4 DEF AbNext, AbSendStep

(* The worker's queue: unchanged, a reply more, or the head given to Send.           *)
LEMMA OutboxMoves ==
  ASSUME TasksTyped, MessagesTyped, TurnsKept, [AbNext]_abVars
  PROVE  /\ abOutbox' \in Seq(Answer) /\ \A i \in DOMAIN abOutbox' : abOutbox'[i][1] \in Asked
         /\ abSend'.pc # "idle" /\ abOutbox # <<>> => abOutbox' # <<>> /\ Head(abOutbox') = Head(abOutbox)
<1> DEFINE Goal == /\ abOutbox' \in Seq(Answer) /\ \A i \in DOMAIN abOutbox' : abOutbox'[i][1] \in Asked
                   /\ abSend'.pc # "idle" /\ abOutbox # <<>> => abOutbox' # <<>> /\ Head(abOutbox') = Head(abOutbox)
<1> SUFFICES Goal
  OBVIOUS
<1>1. CASE UNCHANGED abOutbox
  BY <1>1 DEF MessagesTyped
<1>2. CASE abOutbox # <<>> /\ DropAnswer
  <2>1. abOutbox' = Tail(abOutbox) /\ abSend'.pc = "idle"
    BY <1>2, SendSteps DEF DropAnswer
  <2> DEFINE A == {m \in Answer : m[1] \in Asked}
  <2>2. \A i \in DOMAIN abOutbox : abOutbox[i] \in A
    BY DEF MessagesTyped
  <2>3. abOutbox \in Seq(Answer)
    BY DEF MessagesTyped
  <2> HIDE DEF A
  <2>4. Tail(abOutbox) \in Seq(Answer) /\ \A i \in DOMAIN Tail(abOutbox) : Tail(abOutbox)[i] \in A
    BY <1>2, <2>2, <2>3, QueueTail
  <2> QED
    BY <2>1, <2>4 DEF A
<1>3. CASE AgentReplies
  <2> DEFINE t == Head(abInbound)
  <2>1. abInbound # <<>>
    BY <1>3 DEF AgentReplies
  <2>2. PICK n \in 0 .. AbParts : abOutbox' = abOutbox \o [i \in 1 .. n |-> <<t, i>>]
    BY <1>3 DEF AgentReplies
  <2>3. t \in Asked /\ t \in Task
    <3>1. 1 \in DOMAIN abInbound /\ t = abInbound[1]
      BY <2>1 DEF MessagesTyped
    <3> QED
      BY <3>1 DEF MessagesTyped, Asked
  <2> HIDE DEF t
  <2> DEFINE r == [i \in 1 .. n |-> <<t, i>>]
  <2>4. \A i \in 1 .. n : i \in 1 .. AbParts
    BY AbAssumption
  <2>5. \A i \in 1 .. n : <<t, i>> \in Answer /\ <<t, i>>[1] = t
    BY <2>3, <2>4 DEF Answer
  <2>6. n \in Nat
    BY AbAssumption
  <2>7. r \in Seq(Answer) /\ \A i \in DOMAIN r : r[i][1] = t
    BY <2>5, <2>6
  <2> HIDE DEF r
  <2>8. abOutbox \in Seq(Answer) /\ abOutbox' = abOutbox \o r
    BY <2>2 DEF MessagesTyped, r
  <2>9. /\ abOutbox' \in Seq(Answer)
        /\ \A i \in DOMAIN abOutbox' : (\E j \in DOMAIN abOutbox : abOutbox'[i] = abOutbox[j])
                                         \/ (\E j \in DOMAIN r : abOutbox'[i] = r[j])
        /\ abOutbox # <<>> => Head(abOutbox') = Head(abOutbox) /\ abOutbox' # <<>>
    <3>1. /\ abOutbox \o r \in Seq(Answer)
          /\ \A i \in DOMAIN (abOutbox \o r) :
                (\E j \in DOMAIN abOutbox : (abOutbox \o r)[i] = abOutbox[j])
                  \/ (\E j \in DOMAIN r : (abOutbox \o r)[i] = r[j])
          /\ abOutbox # <<>> => Head(abOutbox \o r) = Head(abOutbox) /\ abOutbox \o r # <<>>
      <4>1. abOutbox \in Seq(Answer) /\ r \in Seq(Answer)
        BY <2>7, <2>8
      <4> QED
        BY ONLY <4>1, JoinedQueues
    <3> QED
      BY ONLY <2>8, <3>1
  <2>10. \A i \in DOMAIN abOutbox' : abOutbox'[i][1] \in Asked
    BY <2>3, <2>7, <2>9 DEF MessagesTyped
  <2> QED
    BY <2>9, <2>10
<1>4. CASE AbSendStep
  <2>1. CASE Offer \/ FinishPost
    <3>1. abOutbox # <<>> /\ DropAnswer
      BY <2>1 DEF Offer, FinishPost, TurnsKept
    <3> QED
      BY <1>2, <3>1
  <2>2. CASE SendViaResponseURL
    BY <1>1, <2>2 DEF SendViaResponseURL
  <2>3. CASE ChooseTask
    BY <1>1, <1>2, <2>3 DEF ChooseTask
  <2> QED
    BY <1>4, <2>1, <2>2, <2>3 DEF AbSendStep
<1>5. ASSUME NEW p \in AbPollers, HandleText(p) \/ HandleStream(p) \/ Select(p) \/ FinishPoll(p) \/ CloseStream(p)
      PROVE  UNCHANGED abOutbox
  BY <1>5 DEF HandleText, HandleStream, Select, FinishPoll, CloseStream
<1>6. ASSUME NEW t \in Task, PublishQuestion(t) \/ TimePasses(t) PROVE UNCHANGED abOutbox
  BY <1>6 DEF PublishQuestion, TimePasses
<1>7. ASSUME CleanupOldTasks \/ StopBot \/ UNCHANGED abVars PROVE UNCHANGED abOutbox
  BY <1>7 DEF CleanupOldTasks, StopBot, abVars
<1> HIDE DEF Goal
<1> QED
  BY <1>1, <1>3, <1>4, <1>5, <1>6, <1>7 DEF AbNext

LEMMA MessagesTypedKept ==
  ASSUME TasksTyped, GoroutinesTyped, MessagesTyped, QueuesKept, TurnsKept, [AbNext]_abVars
  PROVE  MessagesTyped'
<1>1. Asked \subseteq Asked' /\ Asked \subseteq Task
  BY AskedGrows DEF Asked
<1>2. abAnswer' \in [Task -> Seq(Answer)] /\ \A t \in Task : Len(abAnswer'[t]) <= 1
  <2>1. CASE UNCHANGED abAnswer
    BY <2>1 DEF MessagesTyped
  <2>2. ASSUME NEW t \in Asked, abAnswer' = [abAnswer EXCEPT ![t] = <<>>]
        PROVE  abAnswer' \in [Task -> Seq(Answer)] /\ \A u \in Task : Len(abAnswer'[u]) <= 1
    BY <1>1, <2>2 DEF MessagesTyped
  <2>3. ASSUME NEW t \in Asked, abOutbox # <<>>, abAnswer' = [abAnswer EXCEPT ![t] = <<Message>>]
        PROVE  abAnswer' \in [Task -> Seq(Answer)] /\ \A u \in Task : Len(abAnswer'[u]) <= 1
    <3>1. Message \in Answer
      BY <2>3 DEF Message, MessagesTyped
    <3>2. <<Message>> \in Seq(Answer) /\ Len(<<Message>>) = 1
      BY <3>1, OneAnswer
    <3> QED
      BY <1>1, <2>3, <3>2 DEF MessagesTyped
  <2> QED
    BY <2>1, <2>2, <2>3, AnswersMove
<1>3. abShown' \in [Task -> SUBSET Answer]
  <2>1. CASE UNCHANGED abShown
    BY <2>1 DEF MessagesTyped
  <2>2. ASSUME NEW t \in Asked, NEW m \in Answer, abShown' = [abShown EXCEPT ![t] = @ \cup {m}]
        PROVE  abShown' \in [Task -> SUBSET Answer]
    BY <1>1, <2>2 DEF MessagesTyped
  <2>3. ASSUME NEW t \in Asked, NEW m \in ToSet(abAnswer[t]) PROVE m \in Answer
    BY <1>1, <2>3 DEF MessagesTyped, ToSet
  <2>4. abOutbox # <<>> => Message \in Answer
    BY DEF Message, MessagesTyped
  <2> QED
    BY <2>1, <2>2, <2>3, <2>4, ShownGrows
<1>4. abPosted' \in [Task -> Nat]
  <2>1. CASE UNCHANGED abPosted
    BY <2>1 DEF MessagesTyped
  <2>2. ASSUME NEW t \in Task, abPosted' = [abPosted EXCEPT ![t] = @ + 1]
        PROVE  abPosted' \in [Task -> Nat]
    BY <2>2 DEF MessagesTyped
  <2> QED
    BY <1>1, <2>1, <2>2, PostsMove
<1>5. abInbound' \in Seq(Task) /\ \A i \in DOMAIN abInbound' : abInbound'[i] \in Asked'
  BY <1>1, InboundMoves
<1>6. abOutbox' \in Seq(Answer) /\ \A i \in DOMAIN abOutbox' : abOutbox'[i][1] \in Asked'
  BY <1>1, OutboxMoves
<1> QED
  BY <1>2, <1>3, <1>4, <1>5, <1>6 DEF MessagesTyped

LEMMA AlreadyStays ==
  ASSUME [AbNext]_abVars
  PROVE  abFinished \subseteq abFinished' /\ abCancelled \subseteq abCancelled' /\ abRaced \subseteq abRaced'
<1>1. ASSUME NEW p \in AbPollers, HandleText(p) \/ HandleStream(p) \/ CloseStream(p)
      PROVE  UNCHANGED <<abFinished, abCancelled, abRaced>>
  BY <1>1 DEF HandleText, HandleStream, CloseStream, abHistory
<1>2. ASSUME NEW p \in AbPollers, Select(p)
      PROVE  UNCHANGED <<abFinished, abCancelled>> /\ abRaced \subseteq abRaced'
  BY <1>2 DEF Select
<1>3. ASSUME NEW p \in AbPollers, FinishPoll(p)
      PROVE  abFinished \subseteq abFinished' /\ abCancelled \subseteq abCancelled' /\ UNCHANGED abRaced
  BY <1>3 DEF FinishPoll, RemoveTask, abHistory
<1>4. ASSUME FinishPost
      PROVE  abFinished \subseteq abFinished' /\ abCancelled \subseteq abCancelled' /\ UNCHANGED abRaced
  BY <1>4 DEF FinishPost, FinishTask, RemoveTask, abHistory
<1>5. ASSUME ChooseTask PROVE UNCHANGED <<abFinished, abCancelled>> /\ abRaced \subseteq abRaced'
  BY <1>5 DEF ChooseTask
<1>6. ASSUME CleanupOldTasks \/ StopBot
      PROVE  UNCHANGED <<abFinished, abRaced>> /\ abCancelled \subseteq abCancelled'
  BY <1>6 DEF CleanupOldTasks, DropOverdue, StopBot, abHistory
<1>7. ASSUME AgentReplies \/ Offer \/ SendViaResponseURL \/ UNCHANGED abVars
      PROVE  UNCHANGED <<abFinished, abCancelled, abRaced>>
  BY <1>7 DEF AgentReplies, Offer, SendViaResponseURL, abVars, abHistory
<1>8. ASSUME NEW t \in Task, PublishQuestion(t) \/ TimePasses(t)
      PROVE  UNCHANGED <<abFinished, abCancelled, abRaced>>
  BY <1>8 DEF PublishQuestion, TimePasses, abHistory
<1> QED
  BY <1>1, <1>2, <1>3, <1>4, <1>5, <1>6, <1>7, <1>8 DEF AbNext, AbSendStep

LEMMA PostsStayKept ==
  ASSUME TasksTyped, GoroutinesTyped, MessagesTyped, QueuesKept, PostsKept, [AbNext]_abVars
  PROVE  PostsKept'
<1> DEFINE Spent(u) == abPosted[u] = 1 /\ (u \in abFinished \/ (abSend.pc = "posted" /\ abSend.task = u))
<1>1. abFinished \subseteq abFinished' /\ Asked \subseteq Task
  BY AlreadyStays DEF Asked
<1>2. CASE UNCHANGED abPosted
  <2>1. CASE UNCHANGED abSend
    BY <1>1, <1>2, <2>1 DEF PostsKept
  <2>2. CASE abSend' = IdleSend /\ (abSend.pc = "posted" => abSend.task \in abFinished')
    BY <1>1, <1>2, <2>2, SendSteps DEF PostsKept
  <2>3. ASSUME NEW t \in Asked,
               NEW pc \in {"offer", "post"}, Chosen(t, pc), abSend' = [pc |-> pc, task |-> t]
        PROVE  PostsKept'
    <3>1. abPosted[t] = 0 /\ \A u \in Task : abPosted[u] # 0 => abPosted[u] = 1 /\ u \in abFinished
      BY <1>1, <2>3 DEF PostsKept, Chosen
    <3>2. abSend'.pc = pc /\ abSend'.task = t
      BY <2>3
    <3> QED
      BY <1>1, <1>2, <3>1, <3>2 DEF PostsKept
  <2>4. CASE abSend.pc = "post" /\ abSend' = [abSend EXCEPT !.pc = "posted"]
    BY <1>1, <1>2, <2>4, SendSteps DEF PostsKept, GoroutinesTyped
  <2> QED
    BY <2>1, <2>2, <2>3, <2>4, SendMoves
<1>3. CASE /\ abSend.pc = "post" /\ abSend' = [abSend EXCEPT !.pc = "posted"]
           /\ abSend.task \in Asked /\ abPosted' = [abPosted EXCEPT ![abSend.task] = @ + 1]
  <2>1. abPosted[abSend.task] = 0 /\ \A u \in Task : abPosted[u] # 0 => abPosted[u] = 1 /\ u \in abFinished
    BY <1>3 DEF PostsKept
  <2>2. abSend'.pc = "posted" /\ abSend'.task = abSend.task
    BY <1>3, SendSteps DEF GoroutinesTyped
  <2>3. \A u \in Task : abPosted'[u] = IF u = abSend.task THEN 1 ELSE abPosted[u]
    BY <1>1, <1>3, <2>1 DEF MessagesTyped
  <2> QED
    BY <1>1, <2>1, <2>2, <2>3 DEF PostsKept
<1> QED
  BY <1>2, <1>3, PostsMove

(* Nothing that happens later puts an answer out of turn.                            *)
LEMMA TurnsStay ==
  ASSUME TasksTyped, GoroutinesTyped, MessagesTyped, QueuesKept, [AbNext]_abVars,
         NEW m, NEW t, InTurn(m, t)
  PROVE  InTurn(m, t)'
<1>1. /\ m[1] \in Asked /\ t \in Asked /\ m[1] \in Asked' /\ t \in Asked'
      /\ abChat'[m[1]] = abChat[m[1]] /\ abChat'[t] = abChat[t]
  BY AskedGrows DEF InTurn
<1>2. \A c \in AbChats : \A u \in Asked : u \in ToSet(abQueue'[c]) => u \in ToSet(abQueue[c])
  BY QueuesShrink, QuestionsQueue
<1>3. abChat[t] \in AbChats
  BY <1>1 DEF Asked, TasksTyped
<1>4. m[1] < t => m[1] \notin ToSet(abQueue'[abChat'[t]])
  BY <1>1, <1>2, <1>3 DEF InTurn, InChat
<1> QED
  BY <1>1, <1>4 DEF InTurn, InChat

LEMMA TurnsStayKept ==
  ASSUME TasksTyped, GoroutinesTyped, MessagesTyped, QueuesKept, TurnsKept, [AbNext]_abVars
  PROVE  TurnsKept'
<1>1. \A m, t : InTurn(m, t) => InTurn(m, t)'
  BY TurnsStay
<1>2. Asked \subseteq Task
  BY DEF Asked
<1>3. ASSUME NEW u \in Task, NEW m \in abShown'[u] PROVE InTurn(m, u)
  <2>1. CASE UNCHANGED abShown
    BY <1>3, <2>1 DEF TurnsKept
  <2>2. ASSUME NEW t \in Asked,
               NEW k \in ToSet(abAnswer[t]), abShown' = [abShown EXCEPT ![t] = @ \cup {k}]
        PROVE  InTurn(m, u)
    <3>1. m \in abShown[u] \/ (u = t /\ m = k)
      BY <1>2, <1>3, <2>2 DEF MessagesTyped
    <3> QED
      BY <1>2, <2>2, <3>1 DEF TurnsKept
  <2>3. ASSUME abSend.pc = "post", abSend.task \in Asked,
               abShown' = [abShown EXCEPT ![abSend.task] = @ \cup {Message}]
        PROVE  InTurn(m, u)
    <3>1. m \in abShown[u] \/ (u = abSend.task /\ m = Message)
      BY <1>2, <1>3, <2>3 DEF MessagesTyped
    <3> QED
      BY <2>3, <3>1 DEF TurnsKept
  <2> QED
    BY <2>1, <2>2, <2>3, ShownGrows
<1>4. ASSUME NEW u \in Task, NEW m \in ToSet(abAnswer'[u]) PROVE InTurn(m, u)
  <2>1. CASE UNCHANGED abAnswer
    BY <1>4, <2>1 DEF TurnsKept
  <2>2. ASSUME NEW t \in Asked, abAnswer' = [abAnswer EXCEPT ![t] = <<>>] PROVE InTurn(m, u)
    <3>1. u # t /\ abAnswer'[u] = abAnswer[u]
      BY <1>2, <1>4, <2>2 DEF MessagesTyped, ToSet
    <3> QED
      BY <1>4, <3>1 DEF TurnsKept
  <2>3. ASSUME Offer, abSend.task \in Asked, abOutbox # <<>>,
               abAnswer' = [abAnswer EXCEPT ![abSend.task] = <<Message>>]
        PROVE  InTurn(m, u)
    <3>1. CASE u = abSend.task
      <4>1. abAnswer'[u] = <<Message>> /\ Message \in Answer
        BY <1>2, <2>3, <3>1 DEF MessagesTyped, Message
      <4>2. m = Message
        BY <1>4, <4>1, OneAnswer
      <4> QED
        BY <2>3, <3>1, <4>2 DEF TurnsKept, Offer
    <3>2. CASE u # abSend.task
      <4>1. abAnswer'[u] = abAnswer[u]
        BY <1>2, <2>3, <3>2 DEF MessagesTyped
      <4> QED
        BY <1>4, <4>1 DEF TurnsKept
    <3> QED
      BY <3>1, <3>2
  <2> QED
    BY <2>1, <2>2, <2>3, AnswersMove
<1>5. ASSUME abSend'.pc # "idle" PROVE abOutbox # <<>> /\ InTurn(Message, abSend'.task)
  <2>1. CASE UNCHANGED abSend
    BY <1>5, <2>1 DEF TurnsKept
  <2>2. CASE abSend' = IdleSend
    BY <1>5, <2>2, SendSteps
  <2>3. ASSUME NEW t \in Asked,
               NEW pc \in {"offer", "post"}, Chosen(t, pc), abSend' = [pc |-> pc, task |-> t]
        PROVE  abOutbox # <<>> /\ InTurn(Message, abSend'.task)
    BY <2>3 DEF Chosen
  <2>4. CASE abSend.pc = "post" /\ abSend' = [abSend EXCEPT !.pc = "posted"]
    BY <2>4, SendSteps DEF GoroutinesTyped, TurnsKept
  <2> QED
    BY <2>1, <2>2, <2>3, <2>4, SendMoves
<1>6. abSend'.pc # "idle" => abOutbox' # <<>> /\ Head(abOutbox') = Head(abOutbox)
  BY <1>5, OutboxMoves
<1>7. Task' = Task
  BY DEF Task
<1>8. abSend'.pc # "idle" => abOutbox' # <<>> /\ InTurn(Message, abSend.task)'
  <2> SUFFICES ASSUME abSend'.pc # "idle" PROVE abOutbox' # <<>> /\ InTurn(Message, abSend.task)'
    OBVIOUS
  <2>1. PICK m, t : m = Message /\ t = abSend'.task
    OBVIOUS
  <2>2. InTurn(m, t)'
    BY <1>1, <1>5, <2>1
  <2>3. Message' = m /\ (abSend.task)' = t
    BY <1>6, <2>1 DEF Message
  <2> QED
    BY <1>6, <2>2, <2>3 DEF InTurn, InChat
<1>9. \A u \in Task : \A m \in abShown'[u] : InTurn(m, u)'
  BY <1>1, <1>3
<1>10. \A u \in Task : \A m \in ToSet(abAnswer'[u]) : InTurn(m, u)'
  BY <1>1, <1>4
<1> QED
  BY <1>8, <1>9, <1>10 DEF TurnsKept

(* A task is being ended only by a poll that saw it answered or due.                 *)
LEMMA EndingMoves ==
  ASSUME TasksTyped, GoroutinesTyped, [AbNext]_abVars, NEW t, Ending(t)'
  PROVE  \/ Ending(t)
         \/ \E p \in AbPollers : Select(p) /\ t = abPoll[p].task /\ Selected(t) # "idle"
<1>1. PICK r \in AbPollers : abPoll'[r].task = t /\ abPoll'[r].pc \in {"got", "expired"}
  BY DEF Ending
<1>2. CASE UNCHANGED abPoll
  BY <1>1, <1>2 DEF Ending
<1>3. ASSUME NEW p \in AbPollers, abPoll' = [abPoll EXCEPT ![p] = IdlePoll] PROVE Ending(t)
  <2>1. r # p /\ abPoll'[r] = abPoll[r]
    BY <1>1, <1>3, PollSteps DEF GoroutinesTyped
  <2> QED
    BY <1>1, <2>1 DEF Ending
<1>4. ASSUME NEW p \in AbPollers, NEW u \in Asked', NEW pc \in {"looked", "got", "expired"},
             abPoll' = [abPoll EXCEPT ![p] = [pc |-> pc, task |-> u]],
             pc # "looked" => Select(p) /\ u = abPoll[p].task /\ pc = Selected(u)
      PROVE  Ending(t) \/ (Select(p) /\ t = abPoll[p].task /\ Selected(t) # "idle")
  <2>1. CASE r = p
    <3>1. abPoll'[r] = [pc |-> pc, task |-> u]
      BY <1>4, <2>1 DEF GoroutinesTyped
    <3>2. u = t /\ pc # "looked"
      BY <1>1, <3>1
    <3> QED
      BY <1>4, <3>2
  <2>2. CASE r # p
    BY <1>1, <1>4, <2>2 DEF Ending, GoroutinesTyped
  <2> QED
    BY <2>1, <2>2
<1> QED
  BY <1>2, <1>3, <1>4, PollerMoves

(* A task that had nothing to show comes by it when Send chooses it, in an open      *)
(* stream; if a poll was ending it then, they overlap.                               *)
LEMMA PendingMoves ==
  ASSUME TasksTyped, GoroutinesTyped, MessagesTyped, QueuesKept, TurnsKept, [AbNext]_abVars,
         NEW t \in Task, Pending(t)'
  PROVE  \/ Pending(t)
         \/ t \in abStreams /\ (Ending(t) => t \in abRaced')
<1> Asked \subseteq Task
  BY DEF Asked
<1>1. CASE Offering(t)'
  <2>1. abSend'.pc = "offer" /\ abSend'.task = t
    BY <1>1 DEF Offering
  <2>2. CASE UNCHANGED abSend
    BY <2>1, <2>2 DEF Pending, Offering
  <2>3. CASE abSend' = IdleSend
    BY <2>1, <2>3, SendSteps
  <2>4. ASSUME NEW u \in Asked,
               NEW pc \in {"offer", "post"}, Chosen(u, pc), abSend' = [pc |-> pc, task |-> u]
        PROVE  t \in abStreams /\ (Ending(t) => t \in abRaced')
    <3>1. u = t /\ pc = "offer"
      BY <2>1, <2>4
    <3> QED
      BY <2>4, <3>1 DEF Chosen
  <2>5. CASE abSend.pc = "post" /\ abSend' = [abSend EXCEPT !.pc = "posted"]
    BY <2>1, <2>5, SendSteps DEF GoroutinesTyped
  <2> QED
    BY <2>2, <2>3, <2>4, <2>5, SendMoves
<1>2. CASE abAnswer'[t] # <<>>
  <2>1. CASE UNCHANGED abAnswer
    BY <1>2, <2>1 DEF Pending
  <2>2. ASSUME NEW u \in Asked, abAnswer' = [abAnswer EXCEPT ![u] = <<>>] PROVE Pending(t)
    BY <1>2, <2>2 DEF Pending, MessagesTyped
  <2>3. ASSUME Offer, abSend.task \in Asked, abAnswer' = [abAnswer EXCEPT ![abSend.task] = <<Message>>]
        PROVE  Pending(t)
    <3>1. CASE t = abSend.task
      BY <2>3, <3>1 DEF Offer, Pending, Offering
    <3>2. CASE t # abSend.task
      BY <1>2, <2>3, <3>2 DEF Pending, MessagesTyped
    <3> QED
      BY <3>1, <3>2
  <2> QED
    BY <2>1, <2>2, <2>3, AnswersMove
<1> QED
  BY <1>1, <1>2 DEF Pending, Offering

(* A stream ends with its task cancelled, or by the poll that closes it.             *)
LEMMA StreamsEnd ==
  ASSUME TasksTyped, GoroutinesTyped, [AbNext]_abVars, NEW t \in abStreams, t \notin abStreams'
  PROVE  \/ t \in abCancelled'
         \/ Ending(t) /\ UNCHANGED <<abAnswer, abSend>>
<1>1. ASSUME NEW p \in AbPollers, HandleText(p) PROVE FALSE
  BY <1>1 DEF HandleText
<1>2. ASSUME NEW p \in AbPollers, HandleStream(p) \/ Select(p) PROVE FALSE
  BY <1>2 DEF HandleStream, Select
<1>3. ASSUME NEW p \in AbPollers, FinishPoll(p) PROVE t \in abCancelled'
  BY <1>3 DEF FinishPoll, RemoveTask
<1>4. ASSUME NEW p \in AbPollers, CloseStream(p) PROVE Ending(t) /\ UNCHANGED <<abAnswer, abSend>>
  BY <1>4 DEF CloseStream, Ending
<1>5. CASE CleanupOldTasks
  BY <1>5 DEF CleanupOldTasks, DropOverdue, ForgetTasks, Overdue
<1>6. CASE FinishPost
  BY <1>6 DEF FinishPost, FinishTask, RemoveTask
<1>7. ASSUME AgentReplies \/ ChooseTask \/ Offer \/ SendViaResponseURL \/ StopBot \/ UNCHANGED abVars
      PROVE  FALSE
  BY <1>7 DEF AgentReplies, ChooseTask, Offer, SendViaResponseURL, StopBot, abVars
<1>8. ASSUME NEW u \in Task, PublishQuestion(u) \/ TimePasses(u) PROVE FALSE
  BY <1>8 DEF PublishQuestion, TimePasses
<1> QED
  BY <1>1, <1>2, <1>3, <1>4, <1>5, <1>6, <1>7, <1>8 DEF AbNext, AbSendStep

LEMMA ChatsStay ==
  ASSUME [AbNext]_abVars, \A p \in AbPollers : ~HandleText(p)
  PROVE  UNCHANGED abChat
BY DEF AbNext, abVars, AbSendStep, HandleStream, Select, FinishPoll, CloseStream, PublishQuestion,
   TimePasses,
   AgentReplies, ChooseTask, Offer, SendViaResponseURL, FinishPost, CleanupOldTasks, StopBot

LEMMA StrandStayKept ==
  ASSUME TasksTyped, GoroutinesTyped, MessagesTyped, QueuesKept, TurnsKept, StrandKept, [AbNext]_abVars
  PROVE  StrandKept'
<1>1. Task' = Task /\ abRaced \subseteq abRaced' /\ abCancelled \subseteq abCancelled' /\ Asked' \subseteq Task
  BY AlreadyStays DEF Task, Asked
<1>2. ASSUME NEW t \in Task, Ending(t)', Pending(t)' PROVE t \in abRaced'
  <2>1. CASE Ending(t)
    BY <1>1, <1>2, <2>1, PendingMoves DEF StrandKept
  <2>2. ASSUME NEW p \in AbPollers, Select(p), t = abPoll[p].task, Selected(t) # "idle"
        PROVE  t \in abRaced'
    <3>1. abAnswer'[t] = <<>>
      <4>1. CASE abAnswer[t] = <<>>
        BY <2>2, <4>1 DEF Select, Selected, MessagesTyped
      <4>2. CASE abAnswer[t] # <<>>
        BY <2>2, <4>2 DEF Select, Selected, MessagesTyped
      <4> QED
        BY <4>1, <4>2
    <3>2. UNCHANGED abSend
      BY <2>2 DEF Select
    <3>3. abSend.task = t /\ abSend.pc = "offer"
      BY <1>2, <3>1, <3>2 DEF Pending, Offering
    <3> QED
      BY <2>2, <3>3 DEF Select
  <2> QED
    BY <1>2, <2>1, <2>2, EndingMoves
<1>3. ASSUME NEW t \in Asked', t \notin abStreams', Pending(t)'
      PROVE  t \in abRaced' \cup abCancelled'
  <2>1. t \in Asked
    <3>1. ASSUME NEW p \in AbPollers, HandleText(p) PROVE t \in Asked
      BY <1>3, <3>1, Asking
    <3>2. ASSUME \A p \in AbPollers : ~HandleText(p) PROVE UNCHANGED abChat
      BY <3>2, ChatsStay
    <3> QED
      BY <3>1, <3>2 DEF Asked
  <2>2. CASE t \in abStreams
    BY <1>1, <1>3, <2>2, StreamsEnd DEF StrandKept, Pending, Offering
  <2>3. CASE t \notin abStreams
    BY <1>1, <1>3, <2>1, <2>3, PendingMoves DEF StrandKept
  <2> QED
    BY <2>2, <2>3
<1> QED
  BY <1>1, <1>2, <1>3 DEF StrandKept

LEMMA AbInvInit == AbInit => AbInv
<1> SUFFICES ASSUME AbInit PROVE AbInv
  OBVIOUS
<1>1. Asked = {} /\ (\A t \in Task : abChat[t] = "none")
  BY DEF AbInit, Asked
<1>2. TasksTyped
  <2>1. 0 \in 0 .. AbMaxTasks /\ {} = 1 .. 0
    BY AbAssumption
  <2> QED
    BY <1>1, <2>1 DEF AbInit, TasksTyped
<1>3. GoroutinesTyped
  BY PollSteps, SendSteps DEF AbInit, GoroutinesTyped
<1>4. MessagesTyped
  <2>1. /\ abAnswer = [t \in Task |-> <<>>] /\ abInbound = <<>> /\ abOutbox = <<>>
        /\ abShown = [t \in Task |-> {}] /\ abPosted = [t \in Task |-> 0]
    BY DEF AbInit
  <2> QED
    BY <2>1 DEF MessagesTyped
<1>5. QueuesKept
  <2>1. abQueue = [c \in AbChats |-> <<>>] /\ abStreams = {}
    BY DEF AbInit
  <2> QED
    BY <1>1, <2>1 DEF QueuesKept, Ascending, ToSet
<1>6. PostsKept
  BY SendSteps DEF AbInit, PostsKept
<1>7. StrandKept
  BY <1>1, SendSteps DEF AbInit, StrandKept, Pending, Offering
<1>8. TurnsKept
  <2>1. \A t \in Task : abShown[t] = {} /\ abAnswer[t] = <<>>
    BY DEF AbInit
  <2> QED
    BY <2>1, SendSteps DEF AbInit, TurnsKept, ToSet
<1> QED
  BY <1>2, <1>3, <1>4, <1>5, <1>6, <1>7, <1>8 DEF AbInv

LEMMA AbInvKept == AbInv /\ [AbNext]_abVars => AbInv'
<1> SUFFICES ASSUME TasksTyped, GoroutinesTyped, MessagesTyped, QueuesKept, PostsKept, StrandKept, TurnsKept,
                    [AbNext]_abVars
             PROVE  AbInv'
  BY DEF AbInv
<1>1. QueuesKept'
  BY QueuesShrink, QuestionsQueue
<1> QED
  BY <1>1, TasksTypedKept, GoroutinesTypedKept, MessagesTypedKept, PostsStayKept, StrandStayKept,
     TurnsStayKept DEF AbInv

LEMMA AnswersSafeFollows == AbInv => AnswersSafe
<1> SUFFICES ASSUME TasksTyped, GoroutinesTyped, MessagesTyped, QueuesKept, PostsKept, StrandKept, TurnsKept
             PROVE  AnswersSafe
  BY DEF AbInv
<1>1. Asked \subseteq Task /\ Task \subseteq Nat /\ NoTask \notin Task
  BY AbAssumption DEF Asked, Task, NoTask
<1>2. ASSUME NEW c \in AbChats PROVE ToSet(abQueue[c]) \subseteq Asked /\ IsInjective(abQueue[c])
  <2>1. ToSet(abQueue[c]) \subseteq Asked /\ Ascending(abQueue[c])
    BY DEF QueuesKept
  <2>2. abQueue[c] \in Seq(Task)
    BY DEF TasksTyped
  <2>3. DOMAIN abQueue[c] \subseteq Nat /\ \A i \in DOMAIN abQueue[c] : abQueue[c][i] \in Nat
    <3>1. Len(abQueue[c]) \in Nat /\ DOMAIN abQueue[c] = 1 .. Len(abQueue[c])
      BY ONLY <2>2
    <3>2. \A i \in DOMAIN abQueue[c] : abQueue[c][i] \in Task
      BY ONLY <2>2
    <3>3. DOMAIN abQueue[c] \subseteq Nat
      BY ONLY <3>1
    <3>4. Task \subseteq Nat
      BY <1>1
    <3>5. \A i \in DOMAIN abQueue[c] : abQueue[c][i] \in Nat
      BY ONLY <3>2, <3>4
    <3> QED
      BY <3>3, <3>5
  <2>4. \A i, j \in DOMAIN abQueue[c] : i # j => i < j \/ j < i
    BY <2>3
  <2>5. \A i, j \in DOMAIN abQueue[c] : i # j => abQueue[c][i] # abQueue[c][j]
    BY <2>1, <2>3, <2>4 DEF Ascending
  <2> QED
    BY <2>1, <2>5 DEF IsInjective
<1>3. ASSUME NEW t \in Task PROVE Len(abAnswer[t]) <= 1 /\ ToSet(abAnswer[t]) \subseteq Answer
  BY DEF MessagesTyped, ToSet
<1>4. \A p \in AbPollers : abPoll[p].pc \in {"idle", "looked", "got", "expired"}
  BY DEF GoroutinesTyped, PollState
<1>5. abSend.pc \in {"idle", "offer", "post", "posted"} /\ (abSend.pc = "idle" <=> abSend.task = NoTask)
  BY DEF GoroutinesTyped, SendState
<1>6. AbTypeOK
  BY <1>2, <1>3, <1>4, <1>5 DEF AbTypeOK, TasksTyped, MessagesTyped
<1>7. TablesAgree
  BY DEF TablesAgree, QueuesKept, InChat
<1>8. ResponseUrlOnce
  <2> SUFFICES ASSUME NEW t \in Task PROVE abPosted[t] <= 1
    BY DEF ResponseUrlOnce
  <2>1. abPosted[t] = 0 \/ abPosted[t] = 1
    BY DEF PostsKept
  <2> QED
    BY <2>1
<1>9. StrandedOnlyByOverlap
  BY DEF StrandedOnlyByOverlap, StrandKept, Pending
<1>10. AnswersInTurn
  BY DEF AnswersInTurn, TurnsKept, InTurn, InChat
<1> QED
  BY <1>6, <1>7, <1>8, <1>9, <1>10 DEF AnswersSafe

(* Whatever polls, answers, the clean-up and the end of the bot do to each other, the *)
(* tables agree, a response_url is used once, an answer is left in a dead channel     *)
(* only by an overlap, and no answer overtakes an earlier question that still waits.  *)
THEOREM AnswersComeInTurn == AbSpec => []AnswersSafe
<1> USE DEF AbSpec
<1> QED
  BY AbInvInit, AbInvKept, AnswersSafeFollows, PTL

-----------------------------------------------------------------------------
(***************************************************************************)
(* Inbound.                                                                *)
(***************************************************************************)
(* What every handler has in common, whatever the order of its stages. *)
HandlerStages == {"own", "type", "allow", "allow_or_bridge", "group", "unmentioned", "empty", "no_text", "note",
                  "download", "orchestrate", "dedup", "handle"}
Has(h, n, s) == \E i \in 1 .. n : h[i] = s
Shaped(h, channel) ==
    /\ h \in Seq(HandlerStages) /\ Len(h) \in Nat \ {0} /\ h[Len(h)] = "handle"
    /\ \A i \in 1 .. Len(h) : h[i] = "handle" => i = Len(h)
    /\ \A i \in 1 .. Len(h) : h[i] = "orchestrate" => i = 5 /\ channel = "telegram"
    /\ \A i \in 1 .. Len(h) : h[i] = "download" =>
          channel = "line" \/ Has(h, i - 1, "allow") \/ Has(h, i - 1, "allow_or_bridge")
    /\ \A i, j \in 1 .. Len(h) : h[i] = "dedup" /\ h[j] = "dedup" => i = j
    /\ Has(h, Len(h), "dedup") <=> channel \in Deduplicating
    /\ channel \in Deduplicating =>
          \A i \in 1 .. Len(h) :
              (h[i] = "group" => channel = "onebot") /\ (h[i] = "unmentioned" => channel # "onebot")
    /\ channel \in {"telegram", "slack", "discord", "qq", "qq_group"} => Has(h, Len(h), "own")
    /\ channel \in {"line", "slack", "onebot", "pico", "whatsapp_native", "discord"} =>
          Has(h, Len(h), "empty") \/ Has(h, Len(h), "no_text")
    /\ channel \notin Untriggered \cup DirectOnly =>
          Has(h, Len(h), "group") \/ Has(h, Len(h), "unmentioned") \/ h = SlackMention

(* The message is one the platform can deliver. *)
MessageShaped ==
    /\ ibMsg.channel \in ChannelNames
    /\ ibMsg.channel \notin {"telegram", "slack", "discord", "qq", "qq_group"} => ~ibMsg.own
    /\ ibMsg.channel \notin {"line", "slack", "onebot", "wecom", "wecom_app"} => ibMsg.known
    /\ ibMsg.channel \in DirectOnly => ~ibMsg.group
    /\ ibMsg.channel # "telegram" => ibMsg.to = "none" /\ ~ibMsg.bridge /\ ~ibMsg.listener
    /\ {ibMsg.own, ibMsg.known, ibMsg.id, ibMsg.group, ibMsg.text, ibMsg.file, ibMsg.bridge, ibMsg.listener} \subseteq BOOLEAN

(* Where a delivery is.  It has cleared the stages behind it. *)
HandlersNow == Handlers(ibMsg.channel, ibMsg.call)
Cleared(d, s) == /\ s \in Tests => Passes(d)[s]
                 /\ s = "handle" => Allowed(ibMsg, ibSender[d])
ClearedTo(d, h, n) == \A i \in 1 .. n : Cleared(d, h[i])
Handed(d) == d \in ibPublished \cup ibFailed
Awaited(d) == ibAt[d] = [path |-> <<>>, at |-> 0] /\ d \notin ibBusy /\ ~Handed(d)
Handling(d, h, n) == ibAt[d] = [path |-> h, at |-> n] /\ ClearedTo(d, h, n - 1) /\ d \notin ibBusy /\ ~Handed(d)
Publishing(d, h) == /\ ibAt[d] = [path |-> Append(h, "publish"), at |-> Len(h) + 1]
                    /\ ClearedTo(d, h, Len(h)) /\ ~Handed(d)
Ended(d) == /\ ibAt[d].path # <<>> /\ ibAt[d].at = 0 /\ (d \in ibBusy => Handed(d))
            /\ d \in ibPublished => \E h \in HandlersNow : ClearedTo(d, h, Len(h))
Placed(d) == \/ Awaited(d) \/ \E h \in HandlersNow : \E n \in 1 .. Len(h) : Handling(d, h, n)
             \/ (\E h \in HandlersNow : Publishing(d, h)) \/ Ended(d)

IbTyped ==
    /\ MessageShaped
    /\ ibAt \in [Delivery -> [path : Seq(HandlerStages \cup {"publish"}), at : Nat]]
    /\ ibSender \in [Delivery -> {"user", "name"}] /\ ibSeen \in BOOLEAN /\ ibForgotten \in Nat
    /\ ibNoted \in BOOLEAN /\ ibForced \subseteq Delivery /\ ibFiles \subseteq Delivery /\ ibBusy \subseteq Delivery
    /\ ibPublished \subseteq Delivery /\ ibFailed \subseteq Delivery /\ ibPublished \cap ibFailed = {}
    /\ \A d \in Delivery : ibSender[d] = "name" => ibMsg.channel = "telegram"
DeliveriesPlaced == \A d \in Delivery : Placed(d)

(* As often as the id was marked, and no oftener, a delivery has passed the test for  *)
(* duplicates, if the channel has one; one of what can be accepted is on its way then *)
(* until it is handed over.                                                           *)
Past(d) == Handed(d) \/ (Running(d) /\ Has(ibAt[d].path, ibAt[d].at - 1, "dedup"))
PastNow == {d \in Delivery : Past(d)}
MarksNow == IF ibSeen THEN ibForgotten + 1 ELSE ibForgotten
OnePast ==
    /\ ibSeen \/ ibForgotten > 0 => ibMsg.channel \in Deduplicating /\ ibMsg.id
    /\ ibMsg.channel \in Deduplicating /\ ibMsg.id => Cardinality(PastNow) <= MarksNow
    /\ (ibSeen \/ ibForgotten > 0) /\ Acceptable(ibMsg) => \E d \in Delivery : Past(d)

(* Only a file there is can be stored, and an answer is forced for a reason. *)
LeftFor ==
    /\ ibFiles # {} => ibMsg.file /\ ("user" \in ibMsg.admits \/ ibMsg.channel = "line" \/ ibMsg.bridge)
    /\ ibForced # {} => Forces(ibMsg)

(* Each delivery is orchestrated once. *)
Orchestrated == {d \in Delivery : ibAt[d].path # <<>> /\ ibAt[d].at \notin 1 .. 5}
ToldOnce == ibElsewhere \in Nat /\ ibElsewhere <= Cardinality(Orchestrated)

IbInv == IbTyped /\ DeliveriesPlaced /\ OnePast /\ LeftFor /\ ToldOnce

LEMMA TelegramShaped == Shaped(Telegram, "telegram")
  BY DEF Telegram, Shaped, HandlerStages, Has, Deduplicating, Untriggered, DirectOnly
LEMMA FeishuShaped == Shaped(Feishu, "feishu")
  BY DEF Feishu, Shaped, HandlerStages, Has, Deduplicating, Untriggered, DirectOnly
LEMMA LineShaped == Shaped(Line, "line")
  BY DEF Line, Shaped, HandlerStages, Has, Deduplicating, Untriggered, DirectOnly
LEMMA SlackMessageShaped == Shaped(SlackMessage, "slack")
  BY DEF SlackMessage, Shaped, HandlerStages, Has, Deduplicating, Untriggered, DirectOnly
LEMMA SlackMentionShaped == Shaped(SlackMention, "slack")
  BY DEF SlackMention, Shaped, HandlerStages, Has, Deduplicating, Untriggered, DirectOnly
LEMMA SlackCommandShaped == Shaped(SlackCommand, "slack_command")
  BY DEF SlackCommand, Shaped, HandlerStages, Has, Deduplicating, Untriggered, DirectOnly
LEMMA DiscordShaped == Shaped(Discord, "discord")
  BY DEF Discord, Shaped, HandlerStages, Has, Deduplicating, Untriggered, DirectOnly
LEMMA OneBotShaped == Shaped(OneBot, "onebot")
  BY DEF OneBot, Shaped, HandlerStages, Has, Deduplicating, Untriggered, DirectOnly
LEMMA WeComBotShaped == Shaped(WeComBot, "wecom")
  BY DEF WeComBot, Shaped, HandlerStages, Has, Deduplicating, Untriggered, DirectOnly
LEMMA WeComAppShaped == Shaped(WeComApp, "wecom_app")
  BY DEF WeComApp, Shaped, HandlerStages, Has, Deduplicating, Untriggered, DirectOnly
LEMMA PicoShaped == Shaped(Pico, "pico")
  BY DEF Pico, Shaped, HandlerStages, Has, Deduplicating, Untriggered, DirectOnly
LEMMA WhatsAppShaped == Shaped(WhatsApp, "whatsapp")
  BY DEF WhatsApp, Shaped, HandlerStages, Has, Deduplicating, Untriggered, DirectOnly
LEMMA WhatsAppNativeShaped == Shaped(WhatsAppNative, "whatsapp_native")
  BY DEF WhatsAppNative, Shaped, HandlerStages, Has, Deduplicating, Untriggered, DirectOnly
LEMMA QQShaped == Shaped(QQ, "qq")
  BY DEF QQ, Shaped, HandlerStages, Has, Deduplicating, Untriggered, DirectOnly
LEMMA QQGroupShaped == Shaped(QQGroup, "qq_group")
  BY DEF QQGroup, Shaped, HandlerStages, Has, Deduplicating, Untriggered, DirectOnly
LEMMA MaixCamShaped == Shaped(MaixCam, "maixcam")
  BY DEF MaixCam, Shaped, HandlerStages, Has, Deduplicating, Untriggered, DirectOnly
LEMMA DingTalkShaped == Shaped(DingTalk, "dingtalk")
  BY DEF DingTalk, Shaped, HandlerStages, Has, Deduplicating, Untriggered, DirectOnly
LEMMA HandlersShaped ==
  ASSUME NEW channel \in ChannelNames, NEW how, NEW h \in Handlers(channel, how)
  PROVE  Shaped(h, channel)
  BY TelegramShaped, FeishuShaped, LineShaped, SlackMessageShaped, SlackMentionShaped, SlackCommandShaped,
     DiscordShaped, OneBotShaped, WeComBotShaped, WeComAppShaped, PicoShaped, WhatsAppShaped, WhatsAppNativeShaped,
     QQShaped, QQGroupShaped, MaixCamShaped, DingTalkShaped DEF ChannelNames, Handlers

LEMMA Appended ==
  ASSUME NEW S, NEW h \in Seq(S), NEW x
  PROVE  /\ Append(h, x) \in Seq(S \cup {x}) /\ Len(Append(h, x)) = Len(h) + 1
         /\ Append(h, x)[Len(h) + 1] = x /\ \A i \in 1 .. Len(h) : Append(h, x)[i] = h[i]
         /\ Append(h, x) # <<>> /\ Len(h) \in Nat
  OBVIOUS
LEMMA Widened == ASSUME NEW S, NEW T, S \subseteq T, NEW h \in Seq(S) PROVE h \in Seq(T)
  OBVIOUS

LEMMA PassesAre ==
  ASSUME NEW d
  PROVE  /\ Passes(d)["own"] = ~ibMsg.own /\ Passes(d)["type"] = ibMsg.known
         /\ Passes(d)["allow"] = Allowed(ibMsg, "user")
         /\ Passes(d)["allow_or_bridge"] = (Allowed(ibMsg, "user") \/ ibMsg.bridge)
         /\ Passes(d)["group"] = (ibMsg.group =>
                                       d \in ibForced \/ ShouldRespondInGroup(ibMsg.call = "mention", ibMsg))
         /\ Passes(d)["unmentioned"] = (ibMsg.group => ShouldRespondInGroup(FALSE, ibMsg))
         /\ Passes(d)["empty"] = (ibMsg.text \/ d \in ibFiles \/ (ibMsg.channel = "discord" /\ ibMsg.file))
         /\ Passes(d)["no_text"] = ibMsg.text
  BY DEF Passes

(* What one delivery's step leaves to the others. *)
Aside(d) ==
    /\ ibMsg' = ibMsg /\ ibForced \subseteq ibForced' /\ ibFiles \subseteq ibFiles'
    /\ \A e \in Delivery \ {d} :
          /\ ibAt'[e] = ibAt[e] /\ ibSender'[e] = ibSender[e]
          /\ e \in ibBusy' <=> e \in ibBusy
          /\ e \in ibPublished' <=> e \in ibPublished
          /\ e \in ibFailed' <=> e \in ibFailed

LEMMA ClearedStays ==
  ASSUME ibMsg' = ibMsg, ibForced \subseteq ibForced', ibFiles \subseteq ibFiles',
         NEW d, NEW s, s = "handle" => ibSender'[d] = ibSender[d], Cleared(d, s)
  PROVE  Cleared(d, s)'
  <1>1. CASE s \in Tests
    <2> USE DEF Cleared, Tests, Passes, Allowed, ShouldRespondInGroup
    <2>1. CASE s = "own"
      BY <2>1
    <2>2. CASE s = "type"
      BY <2>2
    <2>3. CASE s = "allow"
      BY <2>3
    <2>4. CASE s = "allow_or_bridge"
      BY <2>4
    <2>5. CASE s = "group"
      BY <2>5
    <2>6. CASE s = "unmentioned"
      BY <2>6
    <2>7. CASE s = "empty"
      BY <2>7
    <2>8. CASE s = "no_text"
      BY <2>8
    <2> QED BY <1>1, <2>1, <2>2, <2>3, <2>4, <2>5, <2>6, <2>7, <2>8
  <1>2. CASE s \notin Tests
    BY <1>2 DEF Cleared, Allowed
  <1> QED BY <1>1, <1>2

LEMMA ClearedToStays ==
  ASSUME ibMsg' = ibMsg, ibForced \subseteq ibForced', ibFiles \subseteq ibFiles',
         NEW d, ibSender'[d] = ibSender[d], NEW h, NEW n, ClearedTo(d, h, n)
  PROVE  ClearedTo(d, h, n)'
  BY ClearedStays DEF ClearedTo

LEMMA UnmovedPlaced ==
  ASSUME NEW e, ibMsg' = ibMsg, ibForced \subseteq ibForced', ibFiles \subseteq ibFiles',
         ibAt'[e] = ibAt[e], ibSender'[e] = ibSender[e], e \in ibBusy' <=> e \in ibBusy,
         e \in ibPublished' <=> e \in ibPublished, e \in ibFailed' <=> e \in ibFailed, Placed(e)
  PROVE  Placed(e)'
  <1>2. \A h, n : ClearedTo(e, h, n) => ClearedTo(e, h, n)'
    BY ClearedToStays
  <1>3. HandlersNow' = HandlersNow /\ (Handed(e)' <=> Handed(e))
    BY DEF HandlersNow, Handed
  <1>4. CASE Awaited(e)
    BY <1>3, <1>4 DEF Placed, Awaited
  <1>5. ASSUME NEW h \in HandlersNow, NEW n \in 1 .. Len(h), Handling(e, h, n) PROVE Placed(e)'
    <2>1. Handling(e, h, n)'
      BY <1>2, <1>3, <1>5 DEF Handling
    <2> QED BY <1>3, <2>1 DEF Placed
  <1>6. ASSUME NEW h \in HandlersNow, Publishing(e, h) PROVE Placed(e)'
    <2>1. Publishing(e, h)'
      BY <1>2, <1>3, <1>6 DEF Publishing
    <2> QED BY <1>3, <2>1 DEF Placed
  <1>7. CASE Ended(e)
    <2>1. Ended(e)'
      BY <1>2, <1>3, <1>7 DEF Ended
    <2> QED BY <2>1 DEF Placed
  <1> QED BY <1>4, <1>5, <1>6, <1>7 DEF Placed

LEMMA OthersPlaced ==
  ASSUME NEW d \in Delivery, Aside(d), NEW e \in Delivery \ {d}, Placed(e)
  PROVE  Placed(e)'
  BY UnmovedPlaced DEF Aside

(* The handlers the message can go to are those of a channel. *)
LEMMA HandlerFacts ==
  ASSUME MessageShaped, NEW h \in HandlersNow
  PROVE  /\ Shaped(h, ibMsg.channel) /\ h \in Seq(HandlerStages) /\ Len(h) \in Nat \ {0} /\ h # <<>>
         /\ \A i \in 1 .. Len(h) : h[i] \in HandlerStages /\ h[i] # "publish"
         /\ Append(h, "publish") \in Seq(HandlerStages \cup {"publish"}) /\ Len(Append(h, "publish")) = Len(h) + 1
         /\ Append(h, "publish")[Len(h) + 1] = "publish" /\ \A i \in 1 .. Len(h) : Append(h, "publish")[i] = h[i]
         /\ Append(h, "publish") # <<>> /\ h \in Seq(HandlerStages \cup {"publish"})
  <1>1. Shaped(h, ibMsg.channel)
    BY HandlersShaped DEF MessageShaped, HandlersNow
  <1>2. h \in Seq(HandlerStages) /\ Len(h) \in Nat \ {0}
    BY <1>1 DEF Shaped
  <1>3. \A i \in 1 .. Len(h) : h[i] \in HandlerStages
    BY <1>2
  <1>4. h # <<>>
    BY <1>2
  <1> QED BY <1>1, <1>2, <1>3, <1>4, Appended, Widened DEF HandlerStages

LEMMA AtHandler ==
  ASSUME MessageShaped, NEW d, Placed(d), NEW s \in HandlerStages, AtStage(d, s)
  PROVE  \E h \in HandlersNow : \E n \in 1 .. Len(h) : Handling(d, h, n) /\ h[n] = s
  <1>1. ibAt[d].at > 0 /\ ibAt[d].path[ibAt[d].at] = s
    BY DEF AtStage, Running, Stage
  <1>2. ~Awaited(d) /\ ~Ended(d)
    BY <1>1 DEF Awaited, Ended
  <1>3. ASSUME NEW h \in HandlersNow, Publishing(d, h) PROVE FALSE
    BY <1>1, <1>3, HandlerFacts DEF Publishing, HandlerStages
  <1> QED BY <1>1, <1>2, <1>3 DEF Placed, Handling

LEMMA AtPublish ==
  ASSUME MessageShaped, NEW d, Placed(d), AtStage(d, "publish")
  PROVE  \E h \in HandlersNow : Publishing(d, h)
  <1>1. ibAt[d].at > 0 /\ ibAt[d].path[ibAt[d].at] = "publish"
    BY DEF AtStage, Running, Stage
  <1>2. ~Awaited(d) /\ ~Ended(d)
    BY <1>1 DEF Awaited, Ended
  <1>3. ASSUME NEW h \in HandlersNow, NEW n \in 1 .. Len(h), Handling(d, h, n) PROVE FALSE
    BY <1>1, <1>3, HandlerFacts DEF Handling
  <1> QED BY <1>1, <1>2, <1>3 DEF Placed

(* A step of a delivery: it begins, goes on to the next stage, is dropped, is handed  *)
(* to the bus's door, or passes it.                                                   *)
Refused(d, s) ==
    \/ s \in Tests /\ ~Passes(d)[s]
    \/ s = "dedup" /\ ibSeen
    \/ s = "orchestrate"
    \/ s = "handle" /\ ~Allowed(ibMsg, ibSender[d])
Begins(d) == Awaited(d) /\ \E h \in HandlersNow : Handling(d, h, 1)'
GoesOn(d) == \E h \in HandlersNow : \E n \in 1 .. Len(h) - 1 :
                 Handling(d, h, n) /\ Handling(d, h, n + 1)' /\ (h[n] = "dedup" => ~ibSeen)
Falls(d) == \E h \in HandlersNow : \E n \in 1 .. Len(h) :
                Handling(d, h, n) /\ Ended(d)' /\ ~Handed(d)' /\ Refused(d, h[n])
Knocks(d) == \E h \in HandlersNow : Handling(d, h, Len(h)) /\ Publishing(d, h)'
Leaves(d) == \E h \in HandlersNow : Publishing(d, h) /\ Ended(d)' /\ Handed(d)'
Turned(d) == Begins(d) \/ GoesOn(d) \/ Falls(d) \/ Knocks(d) \/ Leaves(d)

LEMMA MovedIs ==
  ASSUME IbTyped, NEW d \in Delivery, NEW path, NEW n, ibAt' = MovedTo(d, path, n)
  PROVE  ibAt'[d] = [path |-> path, at |-> n] /\ \A e \in Delivery \ {d} : ibAt'[e] = ibAt[e]
  BY DEF IbTyped, MovedTo

(* The two ways on from a stage that publishes nothing. *)
LEMMA Onward ==
  ASSUME IbTyped, NEW d \in Delivery, NEW h \in HandlersNow, NEW n \in 1 .. Len(h), Handling(d, h, n),
         h[n] # "handle"
  PROVE  /\ n \in 1 .. Len(h) - 1 /\ n + 1 \in Nat
         /\ ibAt' = Advanced(d) =>
                ibAt'[d] = [path |-> h, at |-> n + 1] /\ \A e \in Delivery \ {d} : ibAt'[e] = ibAt[e]
         /\ ibAt' = Dropped(d) => ibAt'[d] = [path |-> h, at |-> 0] /\ \A e \in Delivery \ {d} : ibAt'[e] = ibAt[e]
  <1>1. Shaped(h, ibMsg.channel) /\ Len(h) \in Nat
    BY HandlerFacts DEF IbTyped
  <1>2. n # Len(h)
    BY <1>1 DEF Shaped
  <1>3. ibAt[d].path = h /\ ibAt[d].at = n
    BY DEF Handling
  <1>4. ASSUME ibAt' = Advanced(d) PROVE ibAt' = MovedTo(d, h, n + 1)
    BY <1>2, <1>3, <1>4 DEF Advanced
  <1>5. ASSUME ibAt' = Dropped(d) PROVE ibAt' = MovedTo(d, h, 0)
    BY <1>3, <1>5 DEF Dropped
  <1> QED BY <1>1, <1>2, <1>4, <1>5, MovedIs

LEMMA PassesOn ==
  ASSUME IbTyped, NEW d \in Delivery, NEW h \in HandlersNow, NEW n \in 1 .. Len(h), Handling(d, h, n),
         h[n] # "handle", h[n] = "dedup" => ~ibSeen, Cleared(d, h[n]),
         Aside(d), ibAt'[d] = [path |-> h, at |-> n + 1], UNCHANGED <<ibBusy, ibPublished, ibFailed>>,
         ibSender'[d] = ibSender[d] \/ h[n] = "orchestrate"
  PROVE  GoesOn(d)
  <1>1. n \in 1 .. Len(h) - 1 /\ Len(h) \in Nat /\ Shaped(h, ibMsg.channel)
    BY Onward, HandlerFacts DEF IbTyped
  <1>2. ibMsg' = ibMsg /\ ibForced \subseteq ibForced' /\ ibFiles \subseteq ibFiles'
    BY DEF Aside
  <1>3. \A i \in 1 .. n : Cleared(d, h[i]) /\ h[i] # "handle"
    BY <1>1 DEF Handling, ClearedTo, Shaped
  <1>4. \A i \in 1 .. n : Cleared(d, h[i])'
    <2> TAKE i \in 1 .. n
    <2> QED BY <1>2, <1>3, ClearedStays
  <1>5. Handling(d, h, n + 1)'
    <2>1. ClearedTo(d, h, n + 1 - 1)'
      BY <1>1, <1>4 DEF ClearedTo
    <2> QED BY <2>1 DEF Handling, Handed
  <1> QED BY <1>1, <1>5 DEF GoesOn

LEMMA FallsOut ==
  ASSUME IbTyped, NEW d \in Delivery, NEW h \in HandlersNow, NEW n \in 1 .. Len(h), Handling(d, h, n),
         Refused(d, h[n]), ibAt'[d] = [path |-> h, at |-> 0], UNCHANGED <<ibBusy, ibPublished, ibFailed>>
  PROVE  Falls(d)
  <1>1. h # <<>>
    BY HandlerFacts DEF IbTyped
  <1>2. Ended(d)' /\ ~Handed(d)'
    BY <1>1 DEF Ended, Handling, Handed
  <1> QED BY <1>2 DEF Falls

LEMMA DeliverTurns ==
  ASSUME IbTyped, NEW d \in Delivery, Placed(d), Deliver(d)
  PROVE  Aside(d) /\ Turned(d)
  <1>1. PICK h \in HandlersNow : ibAt' = MovedTo(d, h, 1)
    BY DEF Deliver, HandlersNow
  <1>2. ibAt'[d] = [path |-> h, at |-> 1] /\ \A e \in Delivery \ {d} : ibAt'[e] = ibAt[e]
    BY <1>1, MovedIs
  <1>3. ibAt[d].path = <<>>
    BY DEF Deliver
  <1>4. Awaited(d)
    <2>1. \A g \in HandlersNow : g # <<>> /\ Append(g, "publish") # <<>>
      BY HandlerFacts DEF IbTyped
    <2>2. ASSUME NEW g \in HandlersNow, NEW n \in 1 .. Len(g), Handling(d, g, n) PROVE FALSE
      BY <1>3, <2>1, <2>2 DEF Handling
    <2>3. ASSUME NEW g \in HandlersNow, Publishing(d, g) PROVE FALSE
      BY <1>3, <2>1, <2>3 DEF Publishing
    <2>4. ~Ended(d)
      BY <1>3 DEF Ended
    <2> QED BY <2>2, <2>3, <2>4 DEF Placed
  <1>5. Handling(d, h, 1)'
    BY <1>2, <1>4 DEF Handling, Awaited, Handed, ClearedTo, Deliver
  <1>6. Aside(d)
    BY <1>2 DEF Aside, Deliver
  <1> QED BY <1>4, <1>5, <1>6 DEF Turned, Begins

LEMMA TestTurns ==
  ASSUME IbTyped, NEW d \in Delivery, Placed(d), Test(d)
  PROVE  Aside(d) /\ Turned(d)
  <1>1. PICK s \in Tests : AtStage(d, s) /\ ibAt' = IF Passes(d)[s] THEN Advanced(d) ELSE Dropped(d)
    BY DEF Test
  <1>2. s \in HandlerStages /\ s # "handle" /\ s # "dedup" /\ s # "orchestrate"
    BY DEF Tests, HandlerStages
  <1>h. PICK h \in HandlersNow : \E n \in 1 .. Len(h) : Handling(d, h, n) /\ h[n] = s
    BY <1>1, <1>2, AtHandler DEF IbTyped
  <1>3. PICK n \in 1 .. Len(h) : Handling(d, h, n) /\ h[n] = s
    BY <1>h
  <1>4. UNCHANGED <<ibMsg, ibSender, ibForced, ibFiles, ibBusy, ibPublished, ibFailed>>
    BY DEF Test
  <1>5. \A e \in Delivery \ {d} : ibAt'[e] = ibAt[e]
    BY <1>1, <1>2, <1>3, Onward
  <1>6. Aside(d)
    BY <1>4, <1>5 DEF Aside
  <1>7. CASE Passes(d)[s]
    <2>1. ibAt'[d] = [path |-> h, at |-> n + 1]
      BY <1>1, <1>2, <1>3, <1>7, Onward
    <2>2. Cleared(d, h[n])
      BY <1>2, <1>3, <1>7 DEF Cleared
    <2> QED BY <1>2, <1>3, <1>4, <1>6, <2>1, <2>2, PassesOn DEF Turned
  <1>8. CASE ~Passes(d)[s]
    <2>1. ibAt'[d] = [path |-> h, at |-> 0]
      BY <1>1, <1>2, <1>3, <1>8, Onward
    <2>2. Refused(d, h[n])
      BY <1>3, <1>8 DEF Refused
    <2> QED BY <1>3, <1>4, <1>6, <2>1, <2>2, FallsOut DEF Turned
  <1> QED BY <1>7, <1>8

LEMMA DedupTurns ==
  ASSUME IbTyped, NEW d \in Delivery, Placed(d), Dedup(d)
  PROVE  Aside(d) /\ Turned(d)
  <1>1. AtStage(d, "dedup") /\ ibAt' = IF ibSeen THEN Dropped(d) ELSE Advanced(d)
    BY DEF Dedup
  <1>h. PICK h \in HandlersNow : \E n \in 1 .. Len(h) : Handling(d, h, n) /\ h[n] = "dedup"
    BY <1>1, AtHandler DEF IbTyped, HandlerStages
  <1>2. PICK n \in 1 .. Len(h) : Handling(d, h, n) /\ h[n] = "dedup"
    BY <1>h
  <1>3. UNCHANGED <<ibMsg, ibSender, ibForced, ibFiles, ibBusy, ibPublished, ibFailed>>
    BY DEF Dedup
  <1>4. \A e \in Delivery \ {d} : ibAt'[e] = ibAt[e]
    BY <1>1, <1>2, Onward
  <1>5. Aside(d)
    BY <1>3, <1>4 DEF Aside
  <1>6. CASE ~ibSeen
    <2>1. ibAt'[d] = [path |-> h, at |-> n + 1]
      BY <1>1, <1>2, <1>6, Onward
    <2>2. Cleared(d, h[n])
      BY <1>2 DEF Cleared, Tests
    <2> QED BY <1>2, <1>3, <1>5, <1>6, <2>1, <2>2, PassesOn DEF Turned
  <1>7. CASE ibSeen
    <2>1. ibAt'[d] = [path |-> h, at |-> 0]
      BY <1>1, <1>2, <1>7, Onward
    <2>2. Refused(d, h[n])
      BY <1>2, <1>7 DEF Refused
    <2> QED BY <1>2, <1>3, <1>5, <2>1, <2>2, FallsOut DEF Turned
  <1> QED BY <1>6, <1>7

LEMMA NoteTurns ==
  ASSUME IbTyped, NEW d \in Delivery, Placed(d), Note(d)
  PROVE  Aside(d) /\ Turned(d)
  <1>1. AtStage(d, "note") /\ ibAt' = Advanced(d)
    BY DEF Note
  <1>h. PICK h \in HandlersNow : \E n \in 1 .. Len(h) : Handling(d, h, n) /\ h[n] = "note"
    BY <1>1, AtHandler DEF IbTyped, HandlerStages
  <1>2. PICK n \in 1 .. Len(h) : Handling(d, h, n) /\ h[n] = "note"
    BY <1>h
  <1>3. UNCHANGED <<ibMsg, ibSender, ibForced, ibFiles, ibBusy, ibPublished, ibFailed>>
    BY DEF Note
  <1>4. ibAt'[d] = [path |-> h, at |-> n + 1] /\ \A e \in Delivery \ {d} : ibAt'[e] = ibAt[e]
    BY <1>1, <1>2, Onward
  <1>5. Aside(d)
    BY <1>3, <1>4 DEF Aside
  <1>6. Cleared(d, h[n])
    BY <1>2 DEF Cleared, Tests
  <1> QED BY <1>2, <1>3, <1>4, <1>5, <1>6, PassesOn DEF Turned

LEMMA DownloadTurns ==
  ASSUME IbTyped, NEW d \in Delivery, Placed(d), Download(d)
  PROVE  Aside(d) /\ Turned(d)
  <1>1. AtStage(d, "download") /\ ibAt' = Advanced(d)
    BY DEF Download
  <1>h. PICK h \in HandlersNow : \E n \in 1 .. Len(h) : Handling(d, h, n) /\ h[n] = "download"
    BY <1>1, AtHandler DEF IbTyped, HandlerStages
  <1>2. PICK n \in 1 .. Len(h) : Handling(d, h, n) /\ h[n] = "download"
    BY <1>h
  <1>3. UNCHANGED <<ibMsg, ibSender, ibForced, ibBusy, ibPublished, ibFailed>> /\ ibFiles \subseteq ibFiles'
    BY DEF Download
  <1>4. ibAt'[d] = [path |-> h, at |-> n + 1] /\ \A e \in Delivery \ {d} : ibAt'[e] = ibAt[e]
    BY <1>1, <1>2, Onward
  <1>5. Aside(d)
    BY <1>3, <1>4 DEF Aside
  <1>6. Cleared(d, h[n])
    BY <1>2 DEF Cleared, Tests
  <1> QED BY <1>2, <1>3, <1>4, <1>5, <1>6, PassesOn DEF Turned

LEMMA OrchestrateTurns ==
  ASSUME IbTyped, NEW d \in Delivery, Placed(d), Orchestrate(d)
  PROVE  Aside(d) /\ Turned(d)
  <1>1. AtStage(d, "orchestrate") /\ ibAt' = IF Silent(ibMsg) THEN Dropped(d) ELSE Advanced(d)
    BY DEF Orchestrate
  <1>h. PICK h \in HandlersNow : \E n \in 1 .. Len(h) : Handling(d, h, n) /\ h[n] = "orchestrate"
    BY <1>1, AtHandler DEF IbTyped, HandlerStages
  <1>2. PICK n \in 1 .. Len(h) : Handling(d, h, n) /\ h[n] = "orchestrate"
    BY <1>h
  <1>3. UNCHANGED <<ibMsg, ibFiles, ibBusy, ibPublished, ibFailed>> /\ ibForced \subseteq ibForced'
    BY DEF Orchestrate
  <1>4. \A e \in Delivery \ {d} : ibAt'[e] = ibAt[e] /\ ibSender'[e] = ibSender[e]
    BY <1>1, <1>2, Onward DEF IbTyped, Orchestrate
  <1>5. Aside(d)
    BY <1>3, <1>4 DEF Aside
  <1>6. CASE ~Silent(ibMsg)
    <2>1. ibAt'[d] = [path |-> h, at |-> n + 1]
      BY <1>1, <1>2, <1>6, Onward
    <2>2. Cleared(d, h[n])
      BY <1>2 DEF Cleared, Tests
    <2> QED BY <1>2, <1>3, <1>5, <2>1, <2>2, PassesOn DEF Turned
  <1>7. CASE Silent(ibMsg)
    <2>1. ibAt'[d] = [path |-> h, at |-> 0]
      BY <1>1, <1>2, <1>7, Onward
    <2>2. Refused(d, h[n])
      BY <1>2 DEF Refused
    <2> QED BY <1>2, <1>3, <1>5, <2>1, <2>2, FallsOut DEF Turned
  <1> QED BY <1>6, <1>7

LEMMA HandleMessageTurns ==
  ASSUME IbTyped, NEW d \in Delivery, Placed(d), HandleMessage(d)
  PROVE  Aside(d) /\ Turned(d)
  <1>1. AtStage(d, "handle")
    BY DEF HandleMessage
  <1>h. PICK h \in HandlersNow : \E n \in 1 .. Len(h) : Handling(d, h, n) /\ h[n] = "handle"
    BY <1>1, AtHandler DEF IbTyped, HandlerStages
  <1>2. PICK n \in 1 .. Len(h) : Handling(d, h, n) /\ h[n] = "handle"
    BY <1>h
  <1>3. n = Len(h) /\ Len(h) \in Nat \ {0}
    BY <1>2, HandlerFacts DEF IbTyped, Shaped
  <1>4. ibAt[d].path = h /\ ibAt[d].at = n
    BY <1>2 DEF Handling
  <1>5. /\ UNCHANGED <<ibMsg, ibSender, ibForced, ibFiles, ibPublished, ibFailed>>
        /\ \A e \in Delivery \ {d} : e \in ibBusy' <=> e \in ibBusy
    BY DEF HandleMessage
  <1>6. CASE Allowed(ibMsg, ibSender[d])
    <2>1. ibAt' = MovedTo(d, Append(h, "publish"), Len(h) + 1)
      BY <1>3, <1>4, <1>6 DEF HandleMessage
    <2>2. /\ ibAt'[d] = [path |-> Append(h, "publish"), at |-> Len(h) + 1]
          /\ \A e \in Delivery \ {d} : ibAt'[e] = ibAt[e]
      BY <2>1, MovedIs
    <2>3. \A i \in 1 .. Len(h) : Cleared(d, h[i])
      <3>1. Cleared(d, h[n])
        BY <1>2, <1>6 DEF Cleared, Tests
      <3> QED BY <1>2, <1>3, <3>1 DEF Handling, ClearedTo
    <2>4. ClearedTo(d, h, Len(h))'
      BY <1>5, <2>3, ClearedToStays DEF ClearedTo
    <2>5. Publishing(d, h)'
      BY <1>2, <1>5, <2>2, <2>4 DEF Publishing, Handling, Handed
    <2>6. Aside(d)
      BY <1>5, <2>2 DEF Aside
    <2> QED BY <1>2, <1>3, <2>5, <2>6 DEF Turned, Knocks
  <1>7. CASE ~Allowed(ibMsg, ibSender[d])
    <2>1. ibAt' = MovedTo(d, h, 0) /\ UNCHANGED ibBusy
      BY <1>4, <1>7 DEF HandleMessage, Dropped
    <2>2. ibAt'[d] = [path |-> h, at |-> 0] /\ \A e \in Delivery \ {d} : ibAt'[e] = ibAt[e]
      BY <2>1, MovedIs
    <2>3. Refused(d, h[n])
      BY <1>2, <1>7 DEF Refused
    <2>4. Aside(d)
      BY <1>5, <2>2 DEF Aside
    <2> QED BY <1>2, <1>5, <2>1, <2>2, <2>3, <2>4, FallsOut DEF Turned
  <1> QED BY <1>6, <1>7

LEMMA PublishTurns ==
  ASSUME IbTyped, NEW d \in Delivery, Placed(d), Publish(d)
  PROVE  Aside(d) /\ Turned(d)
  <1>1. AtStage(d, "publish") /\ ibAt' = Advanced(d)
    BY DEF Publish
  <1>2. PICK h \in HandlersNow : Publishing(d, h)
    BY <1>1, AtPublish DEF IbTyped
  <1>3. /\ UNCHANGED <<ibMsg, ibSender, ibForced, ibFiles, ibBusy>> /\ Handed(d)'
        /\ \A e \in Delivery \ {d} :
              (e \in ibPublished' <=> e \in ibPublished) /\ (e \in ibFailed' <=> e \in ibFailed)
    BY DEF Publish, Handed
  <1>4. Len(Append(h, "publish")) = Len(h) + 1 /\ Append(h, "publish") # <<>>
    BY HandlerFacts DEF IbTyped
  <1>5. ibAt' = MovedTo(d, Append(h, "publish"), 0)
    BY <1>1, <1>2, <1>4 DEF Publishing, Advanced
  <1>6. ibAt'[d] = [path |-> Append(h, "publish"), at |-> 0] /\ \A e \in Delivery \ {d} : ibAt'[e] = ibAt[e]
    BY <1>5, MovedIs
  <1>7. Aside(d)
    BY <1>3, <1>6 DEF Aside
  <1>8. ClearedTo(d, h, Len(h))' /\ HandlersNow' = HandlersNow
    BY <1>2, <1>3, ClearedToStays DEF Publishing, HandlersNow
  <1>9. Ended(d)'
    BY <1>3, <1>4, <1>6, <1>8 DEF Ended
  <1> QED BY <1>2, <1>3, <1>7, <1>9 DEF Turned, Leaves

Acts(d) == \/ Deliver(d) \/ Test(d) \/ Dedup(d) \/ Note(d) \/ Download(d)
           \/ Orchestrate(d) \/ HandleMessage(d) \/ Publish(d)
LEMMA ActsTurn ==
  ASSUME IbTyped, NEW d \in Delivery, Placed(d), Acts(d)
  PROVE  Aside(d) /\ Turned(d)
  BY DeliverTurns, TestTurns, DedupTurns, NoteTurns, DownloadTurns, OrchestrateTurns, HandleMessageTurns, PublishTurns
     DEF Acts

LEMMA TurnedPlaced ==
  ASSUME NEW d \in Delivery, IbTyped, Aside(d), Turned(d), DeliveriesPlaced
  PROVE  DeliveriesPlaced'
  <1>1. HandlersNow' = HandlersNow
    BY DEF Aside, HandlersNow
  <1>2. Placed(d)'
    <2>1. CASE Begins(d)
      <3>1. PICK h \in HandlersNow : Handling(d, h, 1)'
        BY <2>1 DEF Begins
      <3>2. 1 \in 1 .. Len(h)
        BY HandlerFacts DEF IbTyped
      <3> QED BY <1>1, <3>1, <3>2 DEF Placed
    <2>2. CASE GoesOn(d)
      <3>1. PICK h \in HandlersNow : \E n \in 1 .. Len(h) - 1 : Handling(d, h, n + 1)'
        BY <2>2 DEF GoesOn
      <3>2. PICK n \in 1 .. Len(h) - 1 : Handling(d, h, n + 1)'
        BY <3>1
      <3>3. n + 1 \in 1 .. Len(h)
        BY HandlerFacts DEF IbTyped
      <3> QED BY <1>1, <3>2, <3>3 DEF Placed
    <2>3. CASE Falls(d)
      BY <2>3 DEF Placed, Falls
    <2>4. CASE Knocks(d)
      BY <1>1, <2>4 DEF Placed, Knocks
    <2>5. CASE Leaves(d)
      BY <2>5 DEF Placed, Leaves
    <2> QED BY <2>1, <2>2, <2>3, <2>4, <2>5 DEF Turned
  <1>3. \A e \in Delivery \ {d} : Placed(e)'
    BY OthersPlaced DEF DeliveriesPlaced
  <1> QED BY <1>2, <1>3 DEF DeliveriesPlaced

LEMMA MovedTyped ==
  ASSUME IbTyped, NEW d \in Delivery, NEW path \in Seq(HandlerStages \cup {"publish"}), NEW n \in Nat,
         ibAt' = MovedTo(d, path, n)
  PROVE  ibAt' \in [Delivery -> [path : Seq(HandlerStages \cup {"publish"}), at : Nat]]
  BY DEF IbTyped, MovedTo

LEMMA ActsTyped ==
  ASSUME IbTyped, NEW d \in Delivery, Placed(d), Acts(d)
  PROVE  IbTyped'
  <1>1. MessageShaped'
    BY ActsTurn DEF IbTyped, MessageShaped, Aside
  <1>2. ibAt' \in [Delivery -> [path : Seq(HandlerStages \cup {"publish"}), at : Nat]]
    <2>1. ibAt[d].path \in Seq(HandlerStages \cup {"publish"}) /\ ibAt[d].at \in Nat
      BY DEF IbTyped
    <2>2. ASSUME ibAt' = Advanced(d) \/ ibAt' = Dropped(d)
          PROVE  ibAt' \in [Delivery -> [path : Seq(HandlerStages \cup {"publish"}), at : Nat]]
      <3>1. ibAt' = MovedTo(d, ibAt[d].path, 0) \/ ibAt' = MovedTo(d, ibAt[d].path, ibAt[d].at + 1)
        BY <2>2 DEF Advanced, Dropped
      <3>2. 0 \in Nat /\ ibAt[d].at + 1 \in Nat
        BY <2>1
      <3> QED BY <2>1, <3>1, <3>2, MovedTyped
    <2>3. CASE Deliver(d)
      <3>1. PICK h \in HandlersNow : ibAt' = MovedTo(d, h, 1)
        BY <2>3 DEF Deliver, HandlersNow
      <3>2. h \in Seq(HandlerStages \cup {"publish"})
        BY HandlerFacts DEF IbTyped
      <3> QED BY <3>1, <3>2, MovedTyped
    <2>4. CASE HandleMessage(d)
      <3>1. Append(ibAt[d].path, "publish") \in Seq(HandlerStages \cup {"publish"}) /\ ibAt[d].at + 1 \in Nat
        BY <2>1
      <3>2. ibAt' = MovedTo(d, Append(ibAt[d].path, "publish"), ibAt[d].at + 1) \/ ibAt' = Dropped(d)
        BY <2>4 DEF HandleMessage
      <3> QED BY <2>2, <3>1, <3>2, MovedTyped
    <2> QED BY <2>2, <2>3, <2>4 DEF Acts, Test, Dedup, Note, Download, Orchestrate, Publish
  <1>3. Orchestrate(d) => ibMsg.channel = "telegram"
    <2>1. SUFFICES ASSUME Orchestrate(d) PROVE ibMsg.channel = "telegram"
      OBVIOUS
    <2>2. PICK h \in HandlersNow : \E n \in 1 .. Len(h) : h[n] = "orchestrate"
      BY <2>1, AtHandler DEF IbTyped, HandlerStages, Orchestrate
    <2> QED BY <2>2, HandlerFacts DEF IbTyped, Shaped
  <1>4. /\ ibSender' \in [Delivery -> {"user", "name"}]
        /\ \A e \in Delivery : ibSender'[e] = "name" => ibMsg.channel = "telegram"
    BY <1>3 DEF IbTyped, Acts, Deliver, Test, Dedup, Note, Download, Orchestrate, HandleMessage, Publish
  <1>5. ibSeen' \in BOOLEAN /\ ibForgotten' \in Nat /\ ibNoted' \in BOOLEAN
    BY DEF IbTyped, MessageShaped, Acts, Deliver, Test, Dedup, Note, Download, Orchestrate, HandleMessage, Publish
  <1>6. ibForced' \subseteq Delivery /\ ibFiles' \subseteq Delivery /\ ibBusy' \subseteq Delivery
    BY DEF IbTyped, Acts, Deliver, Test, Dedup, Note, Download, Orchestrate, HandleMessage, Publish
  <1>7. ibPublished' \subseteq Delivery /\ ibFailed' \subseteq Delivery
    BY DEF IbTyped, Acts, Deliver, Test, Dedup, Note, Download, Orchestrate, HandleMessage, Publish
  <1>8. ibPublished' \cap ibFailed' = {}
    <2>1. Publish(d) => ~Handed(d)
      BY AtPublish DEF IbTyped, Publish, Publishing
    <2> QED BY <2>1 DEF IbTyped, Handed, Acts, Deliver, Test,
          Dedup, Note, Download, Orchestrate, HandleMessage, Publish
  <1>9. ibMsg' = ibMsg
    BY ActsTurn DEF Aside
  <1> QED BY <1>1, <1>2, <1>4, <1>5, <1>6, <1>7, <1>8, <1>9 DEF IbTyped

(* Past the test for duplicates. *)
LEMMA PastAhead ==
  ASSUME NEW d, NEW h, NEW n, Handling(d, h, n), n > 0
  PROVE  Past(d) <=> Has(h, n - 1, "dedup")
  BY DEF Past, Handling, Running
LEMMA PastAheadNext ==
  ASSUME NEW d, NEW h, NEW n, Handling(d, h, n)', n > 0
  PROVE  Past(d)' <=> Has(h, n - 1, "dedup")
  BY DEF Past, Handling, Running, Handed, Has
LEMMA PastAtTheDoor ==
  ASSUME MessageShaped, ibMsg.channel \in Deduplicating, NEW d, NEW h \in HandlersNow
  PROVE  /\ Publishing(d, h) => Past(d)
         /\ Publishing(d, h)' => Past(d)'
  <1>1. Has(h, Len(h), "dedup") /\ Len(h) \in Nat \ {0}
    BY HandlerFacts DEF Shaped
  <1>2. Has(Append(h, "publish"), Len(h) + 1 - 1, "dedup")
    BY <1>1, HandlerFacts DEF Has
  <1> QED BY <1>1, <1>2 DEF Past, Publishing, Running, Has

LEMMA NotPast ==
  ASSUME NEW d
  PROVE  /\ Awaited(d) => ~Past(d)
         /\ Ended(d)' /\ ~Handed(d)' => ~Past(d)'
         /\ Handed(d)' => Past(d)'
  BY DEF Awaited, Ended, Past, Running

LEMMA PastOthers ==
  ASSUME NEW d \in Delivery, Aside(d), NEW e \in Delivery \ {d}
  PROVE  Past(e)' <=> Past(e)
  BY DEF Aside, Past, Handed, Running, Has

(* What can be accepted is not dropped behind the test. *)
LEMMA AcceptableGoesOn ==
  ASSUME IbTyped, Acceptable(ibMsg), ibMsg.channel \in Deduplicating, NEW d \in Delivery,
         NEW h \in HandlersNow, NEW n \in 1 .. Len(h), Has(h, n - 1, "dedup")
  PROVE  ~Refused(d, h[n])
  <1>1. /\ Shaped(h, ibMsg.channel) /\ Len(h) \in Nat /\ ibMsg.channel # "telegram" /\ h[n] \in HandlerStages
    BY HandlerFacts DEF IbTyped, Deduplicating
  <1>2. ibSender[d] = "user"
    BY <1>1 DEF IbTyped
  <1>3. h[n] # "dedup" /\ h[n] # "orchestrate"
    BY <1>1 DEF Shaped, Has
  <1>4. /\ h[n] = "group" => ibMsg.channel = "onebot"
        /\ h[n] = "unmentioned" => ibMsg.channel # "onebot"
    BY <1>1 DEF Shaped
  <1>5. /\ ~ibMsg.own /\ ibMsg.known /\ Allowed(ibMsg, "user") /\ ibMsg.text
        /\ ibMsg.group => ShouldRespondInGroup(ibMsg.channel = "onebot" /\ ibMsg.call = "mention", ibMsg)
    BY DEF Acceptable
  <1>6. h[n] \in Tests => Passes(d)[h[n]]
    <2>1. SUFFICES ASSUME h[n] \in Tests PROVE Passes(d)[h[n]]
      OBVIOUS
    <2>2. CASE h[n] = "group"
      BY <1>4, <1>5, <2>2, PassesAre DEF ShouldRespondInGroup
    <2>3. CASE h[n] = "unmentioned"
      BY <1>4, <1>5, <2>3, PassesAre DEF ShouldRespondInGroup
    <2>4. CASE h[n] \notin {"group", "unmentioned"}
      BY <1>5, <2>1, <2>4, PassesAre DEF Tests
    <2> QED BY <2>2, <2>3, <2>4
  <1> QED BY <1>2, <1>3, <1>5, <1>6 DEF Refused

LEMMA TurnedPast ==
  ASSUME IbTyped, NEW d \in Delivery, Aside(d), Turned(d), ibMsg.channel \in Deduplicating
  PROVE  /\ Past(d)' => Past(d) \/ (AtStage(d, "dedup") /\ ~ibSeen)
         /\ Acceptable(ibMsg) /\ Past(d) => Past(d)'
  <1>1. CASE Begins(d)
    <2>1. PICK h \in HandlersNow : Handling(d, h, 1)'
      BY <1>1 DEF Begins
    <2>2. ~Past(d) /\ ~Past(d)'
      BY <1>1, <2>1, NotPast, PastAheadNext DEF Begins, Has
    <2> QED BY <2>2
  <1>2. CASE GoesOn(d)
    <2>1. PICK h \in HandlersNow : \E n \in 1 .. Len(h) - 1 :
                 Handling(d, h, n) /\ Handling(d, h, n + 1)' /\ (h[n] = "dedup" => ~ibSeen)
      BY <1>2 DEF GoesOn
    <2>2. PICK n \in 1 .. Len(h) - 1 : Handling(d, h, n) /\ Handling(d, h, n + 1)' /\ (h[n] = "dedup" => ~ibSeen)
      BY <2>1
    <2>3. Len(h) \in Nat
      BY HandlerFacts DEF IbTyped
    <2>4. (Past(d) <=> Has(h, n - 1, "dedup")) /\ (Past(d)' <=> Has(h, n + 1 - 1, "dedup"))
      BY <2>2, <2>3, PastAhead, PastAheadNext
    <2>5. h[n] = "dedup" => AtStage(d, "dedup") /\ ~ibSeen
      BY <2>2, <2>3 DEF AtStage, Running, Stage, Handling
    <2> QED BY <2>3, <2>4, <2>5 DEF Has
  <1>3. CASE Falls(d)
    <2>1. PICK h \in HandlersNow : \E n \in 1 .. Len(h) :
                 Handling(d, h, n) /\ Ended(d)' /\ ~Handed(d)' /\ Refused(d, h[n])
      BY <1>3 DEF Falls
    <2>2. PICK n \in 1 .. Len(h) : Handling(d, h, n) /\ Ended(d)' /\ ~Handed(d)' /\ Refused(d, h[n])
      BY <2>1
    <2>3. ~Past(d)'
      BY <2>2, NotPast
    <2>4. Acceptable(ibMsg) => ~Past(d)
      BY <2>2, PastAhead, AcceptableGoesOn
    <2> QED BY <2>3, <2>4
  <1>4. CASE Knocks(d)
    <2>1. PICK h \in HandlersNow : Handling(d, h, Len(h)) /\ Publishing(d, h)'
      BY <1>4 DEF Knocks
    <2>2. Shaped(h, ibMsg.channel) /\ Len(h) \in Nat \ {0}
      BY HandlerFacts DEF IbTyped
    <2>3. Has(h, Len(h) - 1, "dedup")
      BY <2>2 DEF Shaped, Has
    <2> QED BY <2>1, <2>2, <2>3, PastAhead, PastAtTheDoor DEF IbTyped
  <1>5. CASE Leaves(d)
    BY <1>5, PastAtTheDoor, NotPast DEF Leaves, IbTyped
  <1> QED BY <1>1, <1>2, <1>3, <1>4, <1>5 DEF Turned

LEMMA DedupIsDedup ==
  ASSUME IbTyped, NEW d \in Delivery, Placed(d), Acts(d), AtStage(d, "dedup")
  PROVE  Dedup(d)
  <1>1. PICK h \in HandlersNow : \E n \in 1 .. Len(h) : Handling(d, h, n) /\ h[n] = "dedup"
    BY AtHandler DEF IbTyped, HandlerStages
  <1>2. ibAt[d].path # <<>>
    BY <1>1, HandlerFacts DEF IbTyped, Handling
  <1> QED BY <1>2 DEF Acts, Deliver, Test, Tests, Note, Download, Orchestrate, HandleMessage, Publish, AtStage

LEMMA DedupMarks ==
  ASSUME IbTyped, NEW d \in Delivery, Placed(d), Dedup(d)
  PROVE  /\ ibMsg.channel \in Deduplicating /\ ibSeen' = ibMsg.id /\ ibForgotten' = ibForgotten
         /\ ~ibSeen => Past(d)'
  <1>1. PICK h \in HandlersNow : \E n \in 1 .. Len(h) : Handling(d, h, n) /\ h[n] = "dedup"
    BY AtHandler DEF IbTyped, HandlerStages, Dedup
  <1>2. PICK n \in 1 .. Len(h) : Handling(d, h, n) /\ h[n] = "dedup"
    BY <1>1
  <1>3. Shaped(h, ibMsg.channel) /\ Len(h) \in Nat
    BY HandlerFacts DEF IbTyped
  <1>4. ibMsg.channel \in Deduplicating
    BY <1>2, <1>3 DEF Shaped, Has
  <1>5. ASSUME ~ibSeen PROVE Past(d)'
    <2>1. ibAt'[d] = [path |-> h, at |-> n + 1]
      BY <1>2, <1>5, Onward DEF Dedup
    <2> QED BY <1>2, <1>3, <2>1 DEF Past, Running, Has
  <1> QED BY <1>4, <1>5 DEF Dedup

LEMMA DeliveriesCounted ==
  ASSUME NEW S, S \subseteq Delivery
  PROVE  IsFiniteSet(S) /\ Cardinality(S) \in Nat /\ Cardinality(S) <= IbDeliveries
  <1>1. IsFiniteSet(Delivery) /\ Cardinality(Delivery) = IbDeliveries
    BY IbAssumption, FS_Interval DEF Delivery
  <1> QED BY <1>1, FS_Subset, FS_CardinalityType

LEMMA OneMore ==
  ASSUME NEW S, NEW T, S \subseteq Delivery, T \subseteq Delivery, NEW d \in Delivery
  PROVE  /\ T \subseteq S => Cardinality(T) <= Cardinality(S)
         /\ T \subseteq S \cup {d} => Cardinality(T) <= Cardinality(S) + 1
  <1>1. /\ IsFiniteSet(S) /\ Cardinality(S) \in Nat /\ IsFiniteSet(S \cup {d})
        /\ Cardinality(T) \in Nat /\ Cardinality(S \cup {d}) \in Nat
    BY DeliveriesCounted
  <1>2. Cardinality(S \cup {d}) <= Cardinality(S) + 1
    BY <1>1, FS_AddElement
  <1>3. T \subseteq S => Cardinality(T) <= Cardinality(S)
    BY <1>1, FS_Subset
  <1>4. T \subseteq S \cup {d} => Cardinality(T) <= Cardinality(S \cup {d})
    BY <1>1, FS_Subset
  <1> QED BY <1>1, <1>2, <1>3, <1>4

LEMMA ActsPast ==
  ASSUME IbTyped, NEW d \in Delivery, Placed(d), Acts(d), OnePast
  PROVE  OnePast'
  <1>1. Aside(d) /\ Turned(d) /\ ibMsg' = ibMsg
    BY ActsTurn DEF Aside
  <1>2. \A e \in Delivery \ {d} : Past(e)' <=> Past(e)
    BY <1>1, PastOthers
  <1>3. ibForgotten' = ibForgotten /\ (ibSeen' = ibSeen \/ Dedup(d))
    BY DEF Acts, Deliver, Test, Dedup, Note, Download, Orchestrate, HandleMessage, Publish
  <1>4. Dedup(d) => ibMsg.channel \in Deduplicating /\ ibSeen' = ibMsg.id /\ (~ibSeen => Past(d)')
    BY DedupMarks
  <1>m. ibMsg.id \in BOOLEAN /\ ibSeen \in BOOLEAN /\ ibForgotten \in Nat
    BY DEF IbTyped, MessageShaped
  <1>5. ibSeen' \/ ibForgotten' > 0 => ibMsg.channel \in Deduplicating /\ ibMsg.id
    BY <1>3, <1>4 DEF OnePast
  <1>s. ibSeen => ibSeen'
    BY <1>3, <1>4, <1>m DEF OnePast
  <1>6. Acceptable(ibMsg)' <=> Acceptable(ibMsg)
    BY <1>1
  <1>7. ASSUME ibMsg.channel \in Deduplicating
        PROVE  /\ Past(d)' => Past(d) \/ (Dedup(d) /\ ~ibSeen)
               /\ Acceptable(ibMsg) /\ Past(d) => Past(d)'
    BY <1>1, <1>7, TurnedPast, DedupIsDedup
  <1>8. ASSUME ibMsg.channel \in Deduplicating, ibMsg.id PROVE Cardinality(PastNow') <= MarksNow'
    <2>1. PastNow \subseteq Delivery /\ PastNow' \subseteq Delivery
      BY DEF PastNow
    <2>2. CASE Dedup(d) /\ ~ibSeen
      <3>1. PastNow' \subseteq PastNow \cup {d}
        BY <1>2 DEF PastNow
      <3>2. MarksNow' = MarksNow + 1 /\ MarksNow \in Nat
        BY <1>3, <1>4, <1>8, <1>m, <2>2 DEF MarksNow
      <3>3. Cardinality(PastNow') <= Cardinality(PastNow) + 1 /\ Cardinality(PastNow) <= MarksNow
        BY <1>8, <2>1, <3>1, OneMore DEF OnePast
      <3>4. Cardinality(PastNow) \in Nat /\ Cardinality(PastNow') \in Nat
        BY <2>1, DeliveriesCounted
      <3> QED BY <3>2, <3>3, <3>4
    <2>3. CASE ~(Dedup(d) /\ ~ibSeen)
      <3>1. PastNow' \subseteq PastNow
        BY <1>2, <1>7, <1>8, <2>3 DEF PastNow
      <3>2. MarksNow' = MarksNow
        BY <1>3, <1>4, <1>s, <1>m, <2>3 DEF MarksNow
      <3>3. Cardinality(PastNow') <= Cardinality(PastNow) /\ Cardinality(PastNow) <= MarksNow
        BY <1>8, <2>1, <3>1, OneMore DEF OnePast
      <3>4. Cardinality(PastNow) \in Nat /\ Cardinality(PastNow') \in Nat /\ MarksNow \in Nat
        BY <1>m, <2>1, DeliveriesCounted DEF MarksNow
      <3> QED BY <3>2, <3>3, <3>4
    <2> QED BY <2>2, <2>3
  <1>9. ASSUME ibSeen' \/ ibForgotten' > 0, Acceptable(ibMsg) PROVE \E e \in Delivery : Past(e)'
    <2>1. CASE ~ibSeen /\ Dedup(d)
      BY <1>4, <2>1
    <2>2. CASE ibSeen \/ ibForgotten > 0
      <3>1. PICK e \in Delivery : Past(e)
        BY <1>9, <2>2 DEF OnePast
      <3>2. CASE e # d
        BY <1>2, <3>1, <3>2
      <3>3. CASE e = d
        <4>1. ibMsg.channel \in Deduplicating
          BY <2>2 DEF OnePast
        <4> QED BY <1>7, <1>9, <3>1, <3>3, <4>1
      <3> QED BY <3>2, <3>3
    <2>3. ~ibSeen /\ ~(ibForgotten > 0) => Dedup(d)
      BY <1>3, <1>9
    <2> QED BY <2>1, <2>2, <2>3
  <1> QED BY <1>1, <1>5, <1>6, <1>8, <1>9 DEF OnePast

(* An id that leaves the memory takes its mark with it, and no delivery moves. *)
LEMMA ForgetPast ==
  ASSUME IbTyped, Forget, OnePast
  PROVE  OnePast'
  <1>1. /\ UNCHANGED <<ibMsg, ibAt, ibPublished, ibFailed>> /\ ibSeen /\ ~ibSeen'
        /\ ibForgotten' = ibForgotten + 1 /\ ibForgotten \in Nat
    BY DEF Forget, IbTyped
  <1>2. PastNow' = PastNow /\ \A d \in Delivery : Past(d)' <=> Past(d)
    BY <1>1 DEF PastNow, Past, Handed, Running, Has
  <1>3. MarksNow' = MarksNow
    BY <1>1 DEF MarksNow
  <1>4. Acceptable(ibMsg)' <=> Acceptable(ibMsg)
    BY <1>1
  <1> QED BY <1>1, <1>2, <1>3, <1>4 DEF OnePast

LEMMA ActsLeave ==
  ASSUME IbTyped, NEW d \in Delivery, Placed(d), Acts(d), LeftFor
  PROVE  LeftFor'
  <1>1. ibMsg' = ibMsg
    BY ActsTurn DEF Aside
  <1>2. CASE Download(d) /\ ibFiles' # ibFiles
    <2>1. PICK h \in HandlersNow : \E n \in 1 .. Len(h) : Handling(d, h, n) /\ h[n] = "download"
      BY <1>2, AtHandler DEF IbTyped, HandlerStages, Download
    <2>2. PICK n \in 1 .. Len(h) : Handling(d, h, n) /\ h[n] = "download"
      BY <2>1
    <2>3. ibMsg.channel = "line" \/ Has(h, n - 1, "allow") \/ Has(h, n - 1, "allow_or_bridge")
      BY <2>2, HandlerFacts DEF IbTyped, Shaped
    <2>4. ibMsg.channel = "line" \/ Cleared(d, "allow") \/ Cleared(d, "allow_or_bridge")
      BY <2>2, <2>3 DEF Has, Handling, ClearedTo
    <2>5. "user" \in ibMsg.admits \/ ibMsg.channel = "line" \/ ibMsg.bridge
      BY <2>4, PassesAre DEF Cleared, Tests, Allowed
    <2> QED BY <1>1, <1>2, <2>5 DEF LeftFor, Download
  <1>3. CASE Orchestrate(d)
    <2>1. UNCHANGED ibFiles /\ (ibForced' = ibForced \/ Forces(ibMsg))
      BY <1>3 DEF Orchestrate
    <2>2. Forces(ibMsg)' <=> Forces(ibMsg)
      BY <1>1
    <2> QED BY <1>1, <2>1, <2>2 DEF LeftFor
  <1>4. CASE UNCHANGED <<ibFiles, ibForced>>
    <2>1. Forces(ibMsg)' <=> Forces(ibMsg)
      BY <1>1
    <2> QED BY <1>1, <1>4, <2>1 DEF LeftFor
  <1> QED BY <1>2, <1>3, <1>4 DEF Acts, Deliver, Test, Dedup, Note, Download, HandleMessage, Publish

LEMMA TurnedTold ==
  ASSUME IbTyped, NEW d \in Delivery, Aside(d), Turned(d)
  PROVE  /\ Orchestrated \subseteq Orchestrated'
         /\ AtStage(d, "orchestrate") => d \in Orchestrated' \ Orchestrated
  <1>1. CASE Begins(d)
    BY <1>1 DEF Begins, Awaited, AtStage, Running, Orchestrated, Aside
  <1>2. ASSUME NEW h \in HandlersNow, NEW n \in 1 .. Len(h), Handling(d, h, n),
               ibAt'[d].path # <<>>, ibAt'[d].at \in {0, n + 1}
        PROVE  /\ Orchestrated \subseteq Orchestrated'
               /\ AtStage(d, "orchestrate") => d \in Orchestrated' \ Orchestrated
    <2>1. Shaped(h, ibMsg.channel) /\ Len(h) \in Nat
      BY HandlerFacts DEF IbTyped
    <2>2. AtStage(d, "orchestrate") => n = 5
      BY <1>2, <2>1 DEF AtStage, Stage, Handling, Shaped
    <2>3. ibAt[d].at = n /\ n \in Nat
      BY <1>2, <2>1 DEF Handling
    <2> QED BY <1>2, <2>2, <2>3 DEF Orchestrated, Aside
  <1>3. CASE GoesOn(d)
    <2>1. PICK h \in HandlersNow : \E n \in 1 .. Len(h) - 1 : Handling(d, h, n) /\ Handling(d, h, n + 1)'
      BY <1>3 DEF GoesOn
    <2>2. PICK n \in 1 .. Len(h) - 1 : Handling(d, h, n) /\ Handling(d, h, n + 1)'
      BY <2>1
    <2>3. n \in 1 .. Len(h) /\ h # <<>>
      BY HandlerFacts DEF IbTyped
    <2> QED BY <1>2, <2>2, <2>3 DEF Handling
  <1>4. CASE Falls(d)
    BY <1>2, <1>4 DEF Falls, Ended
  <1>5. CASE Knocks(d)
    <2>1. PICK h \in HandlersNow : Handling(d, h, Len(h)) /\ Publishing(d, h)'
      BY <1>5 DEF Knocks
    <2>2. Len(h) \in Nat \ {0} /\ Append(h, "publish") # <<>>
      BY HandlerFacts DEF IbTyped
    <2>3. Len(h) \in 1 .. Len(h)
      BY <2>2
    <2> QED BY <1>2, <2>1, <2>2, <2>3 DEF Publishing
  <1>6. CASE Leaves(d)
    <2>1. PICK h \in HandlersNow : Publishing(d, h) /\ Ended(d)'
      BY <1>6 DEF Leaves
    <2>2. ~AtStage(d, "orchestrate")
      BY <2>1, HandlerFacts DEF IbTyped, AtStage, Stage, Publishing
    <2> QED BY <2>1, <2>2 DEF Ended, Orchestrated, Aside
  <1> QED BY <1>1, <1>3, <1>4, <1>5, <1>6 DEF Turned

LEMMA ActsTell ==
  ASSUME IbTyped, NEW d \in Delivery, Placed(d), Acts(d), ToldOnce
  PROVE  ToldOnce'
  <1>1. Aside(d) /\ Turned(d)
    BY ActsTurn
  <1>2. Orchestrated \subseteq Orchestrated' /\ (AtStage(d, "orchestrate") => d \in Orchestrated' \ Orchestrated)
    BY <1>1, TurnedTold
  <1>3. Orchestrated' \subseteq Delivery /\ Orchestrated \subseteq Delivery
    BY DEF Orchestrated
  <1>4. /\ IsFiniteSet(Orchestrated) /\ IsFiniteSet(Orchestrated')
        /\ Cardinality(Orchestrated) \in Nat /\ Cardinality(Orchestrated') \in Nat
    BY <1>3, DeliveriesCounted
  <1>5. CASE Orchestrate(d)
    <2>1. d \in Orchestrated' \ Orchestrated
      BY <1>2, <1>5 DEF Orchestrate
    <2>2. Cardinality(Orchestrated \cup {d}) = Cardinality(Orchestrated) + 1
      BY <1>4, <2>1, FS_AddElement
    <2>3. Cardinality(Orchestrated \cup {d}) <= Cardinality(Orchestrated')
      BY <1>2, <1>4, <2>1, FS_Subset
    <2>4. ibElsewhere' \in {ibElsewhere, ibElsewhere + 1}
      BY <1>5 DEF Orchestrate
    <2> QED BY <1>4, <2>2, <2>3, <2>4 DEF ToldOnce
  <1>6. CASE ibElsewhere' = ibElsewhere
    <2>1. Cardinality(Orchestrated) <= Cardinality(Orchestrated')
      BY <1>2, <1>4, FS_Subset
    <2> QED BY <1>4, <1>6, <2>1 DEF ToldOnce
  <1> QED BY <1>5, <1>6 DEF Acts, Deliver, Test, Dedup, Note, Download, HandleMessage, Publish

-------------------------------------------------------------------------------
LEMMA InitIbInv == IbInit => IbInv
  <1> SUFFICES ASSUME IbInit PROVE IbInv
    OBVIOUS
  <1>1. PICK c \in IbChannels : ibMsg \in MessagesOf(c)
    BY DEF IbInit
  <1>2. MessageShaped
    <2>1. ibMsg.channel = c /\ c \in ChannelNames
      BY <1>1, IbAssumption DEF MessagesOf
    <2>2. c \notin {"telegram", "slack", "discord", "qq", "qq_group"} => ~ibMsg.own
      BY <1>1 DEF MessagesOf
    <2>3. c \notin {"line", "slack", "onebot", "wecom", "wecom_app"} => ibMsg.known
      BY <1>1 DEF MessagesOf
    <2>4. c \in DirectOnly => ~ibMsg.group
      BY <1>1 DEF MessagesOf
    <2>5. c # "telegram" => ibMsg.to = "none" /\ ~ibMsg.bridge /\ ~ibMsg.listener
      BY <1>1 DEF MessagesOf
    <2>6. {ibMsg.own, ibMsg.known, ibMsg.id, ibMsg.group, ibMsg.text, ibMsg.file, ibMsg.bridge, ibMsg.listener}
              \subseteq BOOLEAN
      BY <1>1 DEF MessagesOf
    <2> QED BY <2>1, <2>2, <2>3, <2>4, <2>5, <2>6 DEF MessageShaped
  <1>3. /\ \A d \in Delivery : ibAt[d] = [path |-> <<>>, at |-> 0] /\ ibSender[d] = "user"
        /\ ibForced = {} /\ ~ibSeen /\ ibForgotten = 0 /\ ibFiles = {} /\ ibBusy = {} /\ ibPublished = {} /\ ibFailed = {}
        /\ ibElsewhere = 0
    BY DEF IbInit
  <1>4. IbTyped
    <2>1. [path |-> <<>>, at |-> 0] \in [path : Seq(HandlerStages \cup {"publish"}), at : Nat]
      OBVIOUS
    <2>2. ibAt \in [Delivery -> [path : Seq(HandlerStages \cup {"publish"}), at : Nat]]
      BY <2>1 DEF IbInit
    <2>3. ibSender \in [Delivery -> {"user", "name"}] /\ ibNoted \in BOOLEAN /\ ibSeen \in BOOLEAN
      BY DEF IbInit
    <2> QED BY <1>2, <1>3, <2>2, <2>3 DEF IbTyped
  <1>5. DeliveriesPlaced
    BY <1>3 DEF DeliveriesPlaced, Placed, Awaited, Handed
  <1>6. OnePast
    <2>1. PastNow = {}
      BY <1>3 DEF PastNow, Past, Handed, Running
    <2> QED BY <1>3, <2>1, FS_EmptySet DEF OnePast, MarksNow
  <1>7. LeftFor
    BY <1>3 DEF LeftFor
  <1>8. ToldOnce
    <2>1. Orchestrated \subseteq Delivery
      BY DEF Orchestrated
    <2> QED BY <1>3, <2>1, DeliveriesCounted DEF ToldOnce
  <1> QED BY <1>4, <1>5, <1>6, <1>7, <1>8 DEF IbInv

LEMMA NextIbInv == IbInv /\ [IbNext]_ibVars => IbInv'
  <1> SUFFICES ASSUME IbInv, [IbNext]_ibVars PROVE IbInv'
    OBVIOUS
  <1>1. ASSUME NEW d \in Delivery, Acts(d) PROVE IbInv'
    <2>1. IbTyped /\ DeliveriesPlaced /\ OnePast /\ LeftFor /\ ToldOnce /\ Placed(d)
      BY DEF IbInv, DeliveriesPlaced
    <2>2. Aside(d) /\ Turned(d)
      BY <1>1, <2>1, ActsTurn
    <2>3. IbTyped'
      BY <1>1, <2>1, ActsTyped
    <2>4. DeliveriesPlaced'
      BY <2>1, <2>2, TurnedPlaced
    <2>5. OnePast'
      BY <1>1, <2>1, ActsPast
    <2>6. LeftFor'
      BY <1>1, <2>1, ActsLeave
    <2>7. ToldOnce'
      BY <1>1, <2>1, ActsTell
    <2> QED BY <2>3, <2>4, <2>5, <2>6, <2>7 DEF IbInv
  <1>2. CASE UNCHANGED ibVars
    <2>1. IbTyped'
      BY <1>2 DEF IbInv, ibVars, IbTyped, MessageShaped
    <2>2. DeliveriesPlaced'
      BY <1>2, UnmovedPlaced DEF IbInv, ibVars, DeliveriesPlaced
    <2>3. OnePast'
      BY <1>2 DEF IbInv, ibVars, OnePast, PastNow, MarksNow, Past, Handed, Running
    <2>4. LeftFor' /\ ToldOnce'
      BY <1>2 DEF IbInv, ibVars, LeftFor, ToldOnce, Orchestrated
    <2> QED BY <2>1, <2>2, <2>3, <2>4 DEF IbInv
  <1>3. CASE Forget
    <2>1. IbTyped'
      <3>1. MessageShaped'
        BY <1>3 DEF IbInv, IbTyped, Forget, MessageShaped
      <3>2. ibSeen' = FALSE /\ ibForgotten' \in Nat
        BY <1>3 DEF IbInv, IbTyped, Forget
      <3> QED BY <1>3, <3>1, <3>2 DEF IbInv, IbTyped, Forget
    <2>2. DeliveriesPlaced'
      BY <1>3, UnmovedPlaced DEF IbInv, Forget, DeliveriesPlaced
    <2>3. OnePast'
      BY <1>3, ForgetPast DEF IbInv
    <2>4. LeftFor' /\ ToldOnce'
      BY <1>3 DEF IbInv, Forget, LeftFor, ToldOnce, Orchestrated
    <2> QED BY <2>1, <2>2, <2>3, <2>4 DEF IbInv
  <1> QED BY <1>1, <1>2, <1>3 DEF IbNext, Acts

(* Slack's event for a mention goes to that handler alone. *)
LEMMA MentionsOnly ==
  ASSUME NEW channel \in ChannelNames, NEW how, SlackMention \in Handlers(channel, how)
  PROVE  how = "mention"
  BY DEF ChannelNames, Handlers, Telegram, Feishu, Line, SlackMessage, SlackMention, SlackCommand, Discord, OneBot,
         WeComBot, WeComApp, Pico, WhatsApp, WhatsAppNative, QQ, QQGroup, MaixCam, DingTalk

LEMMA PublishedWanted == IbInv => OnlyWanted
  <1> SUFFICES ASSUME IbInv, NEW d \in ibPublished
      PROVE  /\ ~ibMsg.own /\ Allowed(ibMsg, ibSender[d]) /\ Readable(ibMsg)
             /\ ibMsg.group /\ ibMsg.channel \notin Untriggered => CallsBot(ibMsg)
    BY DEF OnlyWanted
  <1>1. IbTyped /\ MessageShaped /\ LeftFor /\ d \in Delivery /\ Placed(d)
    BY DEF IbInv, IbTyped, DeliveriesPlaced
  <1>2. PICK h \in HandlersNow : ClearedTo(d, h, Len(h))
    BY <1>1 DEF Placed, Awaited, Handling, Publishing, Ended, Handed
  <1>3. Shaped(h, ibMsg.channel) /\ Len(h) \in Nat \ {0}
    BY <1>1, HandlerFacts
  <1>4. \A s : Has(h, Len(h), s) => Cleared(d, s)
    BY <1>2 DEF ClearedTo, Has
  <1>5. Allowed(ibMsg, ibSender[d])
    <2>1. Has(h, Len(h), "handle")
      BY <1>3 DEF Shaped, Has
    <2> QED BY <1>4, <2>1 DEF Cleared
  <1>6. ~ibMsg.own
    <2>1. Has(h, Len(h), "own") => ~ibMsg.own
      BY <1>4, PassesAre DEF Cleared, Tests
    <2> QED BY <1>1, <1>3, <2>1 DEF Shaped, MessageShaped
  <1>7. Readable(ibMsg)
    <2>1. Has(h, Len(h), "no_text") => ibMsg.text
      BY <1>4, PassesAre DEF Cleared, Tests
    <2>2. Has(h, Len(h), "empty") => ibMsg.text \/ ibMsg.file
      BY <1>1, <1>4, PassesAre DEF Cleared, Tests, LeftFor
    <2> QED BY <1>3, <2>1, <2>2 DEF Shaped, Readable
  <1>8. ASSUME ibMsg.group, ibMsg.channel \notin Untriggered PROVE CallsBot(ibMsg)
    <2>1. ibMsg.channel \notin DirectOnly
      BY <1>1, <1>8 DEF MessageShaped
    <2>2. Has(h, Len(h), "group") \/ Has(h, Len(h), "unmentioned") \/ h = SlackMention
      BY <1>3, <1>8, <2>1 DEF Shaped
    <2>3. CASE h = SlackMention
      BY <1>1, <2>3, MentionsOnly DEF HandlersNow, MessageShaped, CallsBot
    <2>4. CASE Has(h, Len(h), "unmentioned")
      BY <1>4, <1>8, <2>4, PassesAre DEF Cleared, Tests, ShouldRespondInGroup, CallsBot
    <2>5. CASE Has(h, Len(h), "group")
      <3>1. d \in ibForced \/ ShouldRespondInGroup(ibMsg.call = "mention", ibMsg)
        BY <1>4, <1>8, <2>5, PassesAre DEF Cleared, Tests
      <3>2. d \in ibForced => Forces(ibMsg)
        BY <1>1 DEF LeftFor
      <3> QED BY <1>8, <3>1, <3>2 DEF Forces, Renames, ShouldRespondInGroup, CallsBot
    <2> QED BY <2>2, <2>3, <2>4, <2>5
  <1> QED BY <1>5, <1>6, <1>7, <1>8

LEMMA InvGivesInbound == IbInv => InboundSafe
  <1> SUFFICES ASSUME IbInv PROVE InboundSafe
    OBVIOUS
  <1>1. IbTyped /\ MessageShaped /\ DeliveriesPlaced /\ OnePast /\ LeftFor /\ ToldOnce
    BY DEF IbInv, IbTyped
  <1>2. IbTypeOK
    <2>1. \A d \in Delivery : ibAt[d].at \in 0 .. Len(ibAt[d].path) /\ (Handed(d) => Over(d))
      <3> TAKE d \in Delivery
      <3>1. CASE Awaited(d)
        BY <3>1 DEF Awaited
      <3>2. ASSUME NEW h \in HandlersNow, NEW n \in 1 .. Len(h), Handling(d, h, n)
            PROVE ibAt[d].at \in 0 .. Len(ibAt[d].path) /\ (Handed(d) => Over(d))
        BY <1>1, <3>2, HandlerFacts DEF Handling
      <3>3. ASSUME NEW h \in HandlersNow, Publishing(d, h)
            PROVE ibAt[d].at \in 0 .. Len(ibAt[d].path) /\ (Handed(d) => Over(d))
        BY <1>1, <3>3, HandlerFacts DEF Publishing
      <3>4. CASE Ended(d)
        <4>1. ibAt[d].path \in Seq(HandlerStages \cup {"publish"})
          BY <1>1 DEF IbTyped
        <4> QED BY <3>4, <4>1 DEF Ended, Over, Running
      <3> QED BY <1>1, <3>1, <3>2, <3>3, <3>4 DEF DeliveriesPlaced, Placed
    <2>2. ibElsewhere \in 0 .. IbDeliveries
      <3>1. Orchestrated \subseteq Delivery
        BY DEF Orchestrated
      <3>2. Cardinality(Orchestrated) \in Nat /\ Cardinality(Orchestrated) <= IbDeliveries
        BY <3>1, DeliveriesCounted
      <3> QED BY <1>1, <3>2, IbAssumption DEF ToldOnce
    <2> QED BY <1>1, <2>1, <2>2 DEF IbTypeOK, IbTyped, Handed
  <1>3. PublishedOnce
    <2>1. SUFFICES ASSUME ibMsg.channel \in Deduplicating, ibMsg.id PROVE Cardinality(ibPublished) <= 1 + ibForgotten
      BY DEF PublishedOnce
    <2>2. ibPublished \subseteq PastNow /\ PastNow \subseteq Delivery
      BY <1>1 DEF PastNow, IbTyped, Past, Handed
    <2>3. Cardinality(ibPublished) <= Cardinality(PastNow) /\ Cardinality(PastNow) <= MarksNow
      BY <1>1, <2>1, <2>2, DeliveriesCounted, FS_Subset DEF OnePast
    <2>4. Cardinality(ibPublished) \in Nat /\ Cardinality(PastNow) \in Nat /\ ibForgotten \in Nat
      BY <1>1, <2>2, DeliveriesCounted DEF IbTyped
    <2>5. MarksNow \in Nat /\ MarksNow <= 1 + ibForgotten
      BY <2>4 DEF MarksNow
    <2> QED BY <2>3, <2>4, <2>5
  <1>4. LostOnlyByFailure
    BY <1>1 DEF LostOnlyByFailure, OnePast, Past, Handed
  <1>5. StrangersLeaveNoFiles
    BY <1>1 DEF StrangersLeaveNoFiles, LeftFor
  <1>6. BusyMeansPublished
    <2>1. SUFFICES ASSUME NEW d \in ibBusy, Over(d) PROVE Handed(d)
      BY DEF BusyMeansPublished, Handed
    <2>2. d \in Delivery /\ Placed(d) /\ ibAt[d].path # <<>> /\ ~(ibAt[d].at > 0)
      BY <1>1, <2>1 DEF IbTyped, DeliveriesPlaced, Over, Running
    <2>3. \A h \in HandlersNow : Len(h) + 1 > 0
      BY <1>1, HandlerFacts
    <2>4. ~Awaited(d) /\ (Ended(d) => Handed(d))
      BY <2>1 DEF Awaited, Ended
    <2>5. \A h \in HandlersNow : ~Publishing(d, h) /\ \A n \in 1 .. Len(h) : ~Handling(d, h, n)
      BY <2>2, <2>3 DEF Publishing, Handling
    <2> QED BY <2>2, <2>4, <2>5 DEF Placed
  <1> QED BY <1>2, <1>3, <1>4, <1>5, <1>6, PublishedWanted DEF InboundSafe

(* However the deliveries of a message interleave in the handlers of its channel: what *)
(* reaches the bus is wanted, readable and from somebody allowed; where ids are        *)
(* remembered, once, and once more for each time the id was forgotten; an acceptable   *)
(* message that was marked is lost only by a failed publish; strangers leave no files, *)
(* and indicators run only for what is handed over.                                    *)
THEOREM MessagesComeInAsTheyShould == IbSpec => []InboundSafe
  <1>1. IbSpec => []IbInv
    BY InitIbInv, NextIbInv, PTL DEF IbSpec
  <1> QED BY <1>1, InvGivesInbound, PTL
=============================================================================
