----------------------------- MODULE Splitting -----------------------------
(***************************************************************************)
(* SplitMessage (pkg/channels/split.go): how the manager's worker cuts an  *)
(* answer that is longer than its platform allows.  A chunk ends at a line *)
(* or a word where it can, and a code block is closed and opened again     *)
(* around a cut, its first line repeated.  One step is one turn of the     *)
(* loop.  Of a rune only its kind matters, and whether the splitting added *)
(* it; positions count from 0 and ranges leave out their end, as in Go.    *)
(***************************************************************************)
EXTENDS Integers, SequencesExt

CONSTANTS
    SpPieces,         \* what answers are made of: "text", "word", "fence", "newline", "space"
    SpMaxPieces,      \* bound: pieces of an answer
    SpText,           \* runes of a text without a blank
    SpMaxLen,         \* maxLen, positive: the worker asks before it splits
    SpReserve,        \* 50: the least reserve for closing a block
    SpNewlineWindow,  \* 200: how far back a newline is looked for
    SpSpaceWindow,    \* 100: how far back a space is looked for
    SpInside,         \* 20: what must stand in front of a cut
    SpMaxChunks       \* bound: chunks after which a splitting is not followed further

VARIABLES
    spAnswer,  \* content
    spRunes,   \* runes: content, or what is left of it behind a header
    spStart,   \* start
    spChunks,  \* messages
    spDone     \* SplitMessage has returned

spVars == <<spAnswer, spRunes, spStart, spChunks, spDone>>

Blank == {"space", "newline"}
Rune(kind, at) == [kind |-> kind, at |-> at]
Added(kinds) == [i \in DOMAIN kinds |-> Rune(kinds[i], 0)]
Copy(runes) == [i \in DOMAIN runes |-> Rune(runes[i].kind, 0)]

KindsOf(piece) ==
    CASE piece = "text" -> [i \in 1 .. SpText |-> "other"]
      [] piece = "word" -> [i \in 1 .. 3 |-> "other"]
      [] piece = "fence" -> [i \in 1 .. 3 |-> "tick"]
      [] OTHER -> <<piece>>
Answer(pieces) ==
    LET kinds == FlattenSeq([i \in DOMAIN pieces |-> KindsOf(pieces[i])])
    IN  [i \in DOMAIN kinds |-> Rune(kinds[i], i)]

SpInit ==
    /\ \E n \in 1 .. SpMaxPieces, pieces \in [1 .. SpMaxPieces -> SpPieces] :
            spAnswer = Answer(SubSeq(pieces, 1, n))
    /\ spRunes = spAnswer
    /\ spStart = 0 /\ spChunks = <<>>
    /\ spDone = FALSE

Total == Len(spRunes)
Left == Total - spStart
Slice(from, to) == SubSeq(spRunes, from + 1, to)
IsSolid(r) == r.kind \notin Blank
TrimRight(runes) == SubSeq(runes, 1, SelectLastInSeq(runes, IsSolid))
TrimSpace(runes) ==
    LET right == TrimRight(runes)
        first == SelectInSeq(right, IsSolid)
    IN  IF first = 0 THEN right ELSE SubSeq(right, first, Len(right))

(* findLastNewlineInRange, findLastSpaceInRange: -1 or less if there is none. *)
LastIn(kind, from, to, window) ==
    SelectLastInSubSeq(spRunes, Max({to - window, from}) + 1, to, LAMBDA r : r.kind = kind) - 1
LastBreak(from, to) ==
    LET newline == LastIn("newline", from, to, SpNewlineWindow)
    IN  IF newline > from THEN newline ELSE LastIn("space", from, to, SpSpaceWindow)

(* findNewlineFrom *)
NewlineFrom(from) == SelectInSubSeq(spRunes, from + 1, Total, LAMBDA r : r.kind = "newline") - 1

(* Fences are counted without overlap from the left: of a run of ticks     *)
(* every third one begins a fence.                                         *)
IsTicks(runes, from, to) == \A i \in from + 1 .. to : runes[i].kind = "tick"
Fences(runes, from, to) ==
    {i \in from .. to - 3 :
        /\ IsTicks(runes, i, i + 3)
        /\ \E b \in from .. i :
            /\ (i - b) % 3 = 0 /\ IsTicks(runes, b, i)
            /\ b > from => runes[b].kind # "tick"}

(* findLastUnclosedCodeBlockInRange *)
Unclosed(from, to) ==
    LET fences == Fences(spRunes, from, to)
    IN  IF Cardinality(fences) % 2 = 1 THEN Max(fences) ELSE -1

(* findNextClosingCodeBlockInRange: the end of the next fence. *)
NextClosing(from) ==
    LET ends == {i + 3 : i \in {j \in from .. Total - 3 : IsTicks(spRunes, j, j + 3)}}
    IN  IF ends = {} THEN -1 ELSE Min(ends)

---------------------------------------------------------------------------
CodeBlockBuffer == Min({Max({SpMaxLen \div 10, SpReserve}), SpMaxLen \div 2})
EffectiveLimit == Max({SpMaxLen - CodeBlockBuffer, SpMaxLen \div 2})

NaturalEnd ==
    LET end == spStart + EffectiveLimit
        break == LastBreak(spStart, end)
    IN  IF break > spStart THEN break ELSE end

Fence == Unclosed(spStart, NaturalEnd)
Closing == NextClosing(NaturalEnd)
ClosingFits == Closing > 0 /\ Closing - spStart <= SpMaxLen

HeaderEnd == NewlineFrom(Fence)
Header == TrimSpace(Slice(Fence, IF HeaderEnd = -1 THEN Fence + 3 ELSE HeaderEnd))
HeaderEndIdx == IF HeaderEnd = -1 THEN Fence + Len(Header) ELSE HeaderEnd
(* Fault: no room is left for the fence that closes the block.             *)
NoRoom == Min({spStart + SpMaxLen, Total})
InnerLimit == Min({spStart + SpMaxLen - 5, Total})
BlockContinues == NaturalEnd > HeaderEndIdx + SpInside
InnerEnd ==
    LET newline == LastIn("newline", spStart, InnerLimit, SpNewlineWindow)
    IN  IF newline > HeaderEndIdx THEN newline ELSE InnerLimit
BreakBefore == LastBreak(spStart, Fence)

(* A chunk is cut off at end, and the blanks behind it are skipped. *)
Emit(end) ==
    LET rest == {i \in end .. Total - 1 : IsSolid(spRunes[i + 1])}
    IN  /\ spChunks' = Append(spChunks, Slice(spStart, end))
        /\ spStart' = IF rest = {} THEN Total ELSE Min(rest)
        /\ UNCHANGED <<spAnswer, spRunes, spDone>>

(* A block is cut in two: closed in the chunk, opened again in the rest. *)
CutBlock(end) ==
    /\ spChunks' = Append(spChunks,
                          TrimRight(Slice(spStart, end)) \o Added(<<"newline", "tick", "tick", "tick">>))
    /\ spRunes' = TrimSpace(Copy(Header) \o Added(<<"newline">>) \o Slice(end, Total))
    /\ spStart' = 0
    /\ UNCHANGED <<spAnswer, spDone>>

Splits == ~spDone /\ Left > SpMaxLen /\ Len(spChunks) < SpMaxChunks
OpenBlock == Splits /\ Fence >= 0

Finish ==
    /\ ~spDone /\ Left <= SpMaxLen
    /\ spDone' = TRUE
    /\ spChunks' = IF Left > 0 THEN Append(spChunks, Slice(spStart, Total)) ELSE spChunks
    /\ UNCHANGED <<spAnswer, spRunes, spStart>>

SplitText == Splits /\ Fence = -1 /\ Emit(NaturalEnd)

SplitBehindBlock == OpenBlock /\ ClosingFits /\ Emit(Closing)

SplitInside == OpenBlock /\ ~ClosingFits /\ BlockContinues /\ CutBlock(InnerEnd)

SplitBefore ==
    /\ OpenBlock /\ ~ClosingFits /\ ~BlockContinues
    /\ BreakBefore > spStart
    /\ Emit(BreakBefore)

SplitAtFence ==
    /\ OpenBlock /\ ~ClosingFits /\ ~BlockContinues
    /\ BreakBefore <= spStart /\ Fence - spStart > SpInside
    /\ Emit(Fence)

SplitAnyway ==
    /\ OpenBlock /\ ~ClosingFits /\ ~BlockContinues
    /\ BreakBefore <= spStart /\ Fence - spStart <= SpInside
    /\ CutBlock(InnerLimit)

SpNext ==
    \/ Finish
    \/ SplitText \/ SplitBehindBlock \/ SplitInside \/ SplitBefore \/ SplitAtFence \/ SplitAnyway

SpSpec == SpInit /\ [][SpNext]_spVars

---------------------------------------------------------------------------
(* The positions of the answer's own runes that are not blank, in order.   *)
Positions(runes) ==
    LET own == SelectSeq(runes, LAMBDA r : r.at > 0 /\ IsSolid(r))
    IN  [i \in DOMAIN own |-> own[i].at]

(* Each chunk fits the platform (split.go:12: chunks that each respect     *)
(* maxLen), an added fence included.                                       *)
ChunksFit == \A i \in DOMAIN spChunks : Len(spChunks[i]) <= SpMaxLen

(* Chunks and rest hold every rune of the answer but blanks, once and in   *)
(* order, however often a header is repeated.                              *)
TextKept ==
    Positions(FlattenSeq(spChunks) \o (IF spDone THEN <<>> ELSE Slice(spStart, Total)))
        = Positions(spAnswer)

(* Code blocks stay whole: where every fence of the answer begins a line,  *)
(* each chunk but the last opens as many blocks as it closes.              *)
FencesBeginLines ==
    \A i \in Fences(spAnswer, 0, Len(spAnswer)) : i > 0 => spAnswer[i].kind = "newline"
BlocksWhole ==
    FencesBeginLines =>
        \A i \in 1 .. Len(spChunks) - 1 :
            Cardinality(Fences(spChunks[i], 0, Len(spChunks[i]))) % 2 = 0

(* What the chunks are, of whatever answer (split.go).                     *)
SplittingSafe == ChunksFit /\ TextKept /\ BlocksWhole

(* Every turn leaves less to split, so SplitMessage returns - but where    *)
(* the line that opens a block fills about a chunk, for it is put in front *)
(* of what is left each time.                                              *)
HeaderFillsChunk == OpenBlock /\ Len(Header) + 1 >= SpMaxLen - 5 - SpNewlineWindow
LeavesLess == Left' < Left \/ spDone' \/ HeaderFillsChunk
=============================================================================
