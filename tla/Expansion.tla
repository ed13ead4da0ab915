------------------------------ MODULE Expansion ------------------------------
(****************************************************************************)
(* Which spans may extend a hypothesis, as each of the two searches decides *)
(* it for text input.                                                       *)
(*                                                                          *)
(* Stack decoding looks at one hypothesis (SearchNormal::                   *)
(* ProcessOneHypothesis); cube pruning looks at a bitmap first              *)
(* (SearchCubePruning::CreateForwardTodos, CheckDistortion) and then at     *)
(* each hypothesis with that bitmap (BackwardsEdge::BackwardsEdge).         *)
(*                                                                          *)
(* b is the bitmap of the hypothesis, prev its last span (NoSpan for the    *)
(* seed), r the span of the extension, and options the spans for which the  *)
(* collection holds a translation option.                                   *)
(****************************************************************************)
EXTENDS Integers, FiniteSets

CONSTANTS
  SourceSize,       \* InputType::GetSize(): words in the sentence
  MaxPhraseLength   \* -max-phrase-length

ASSUME SourceSizeAssumption == SourceSize \in Nat
ASSUME MaxPhraseLengthAssumption == MaxPhraseLength \in Nat \ {0}

------------------------------------------------------------------------------
(****************************************************************************)
(* Source coverage: the bitmap of translated words (WordsBitmap), the span  *)
(* of one phrase (WordsRange) and the distance between two spans            *)
(* (InputType::ComputeDistortionDistance).                                  *)
(*                                                                          *)
(* A bitmap is the set of the positions whose bit is set; a span is the     *)
(* pair <<startPos, endPos>>, both inclusive.                               *)
(****************************************************************************)
Positions == 0 .. SourceSize - 1
Bitmaps   == SUBSET Positions
Spans     == {r \in Positions \X Positions : r[1] <= r[2]}

\* numeric_limits<size_t>::max(): above every position when two size_t are
\* compared, and -1 once it is cast to int.
NOT_FOUND == SourceSize + 1
ToInt(pos) == IF pos = NOT_FOUND THEN -1 ELSE pos

\* The span of the seed hypothesis, WordsRange(NOT_FOUND, NOT_FOUND).
NoSpan == <<NOT_FOUND, NOT_FOUND>>

SpanPositions(r) == r[1] .. r[2]

------------------------------------------------------------------------------
(****************************************************************************)
(* Queries on a bitmap.                                                     *)
(****************************************************************************)
Gaps(b) == Positions \ b

GetFirstGapPos(b) ==
  IF Gaps(b) = {} THEN NOT_FOUND
  ELSE CHOOSE p \in Gaps(b) : \A q \in Gaps(b) : p <= q

GetLastPos(b) ==
  IF b = {} THEN NOT_FOUND
  ELSE CHOOSE p \in b : \A q \in b : q <= p

IsComplete(b) == Gaps(b) = {}

Overlap(b, r) == b \cap SpanPositions(r) # {}

Abs(n) == IF n < 0 THEN -n ELSE n

\* Mutant: the distance between two ends instead of over the gap between them.
ComputeDistortionDistance_NoPlusOne(prev, current) ==
  IF prev[1] = NOT_FOUND THEN current[1] ELSE Abs(prev[2] - current[1])

\* How far the decoder jumps when it translates the span current after prev.
ComputeDistortionDistance(prev, current) ==
  IF prev[1] = NOT_FOUND THEN current[1]
  ELSE Abs(prev[2] - current[1] + 1)

------------------------------------------------------------------------------
(****************************************************************************)
(* Walls and zones that limit reordering (ReorderingConstraint.cpp).  They  *)
(* come from -monotone-at-punctuation and from <wall/> and <zone> in the    *)
(* input, and Check is asked before a hypothesis is extended.               *)
(*                                                                          *)
(* A constraint is a record: wall and localWall are the sets of positions   *)
(* whose flag is set (a wall at p separates p from p+1), zones is the set   *)
(* of <<startZone, endZone>>.  With no wall and no zone Check is TRUE, which *)
(* is what m_active short-cuts.                                             *)
(****************************************************************************)

\* SetMonotoneAtPunctuation: the walls set for the punctuation marks punct.
PunctuationWalls(punct) ==
       {i \in punct : i > 0 /\ i < SourceSize - 1}
  \cup {i - 1 : i \in {j \in punct : j > 1}}

\* FinalizeWalls: a wall inside a zone is only local to it; the wall after
\* the last word of a zone is not inside.
FinalizeWalls(walls, zones) ==
  LET inZone == {p \in walls : \E z \in zones : z[1] <= p /\ p < z[2]}
  IN  [wall |-> walls \ inZone, localWall |-> inZone, zones |-> zones]

\* The part of Sentence::Read that fills the constraint: the punctuation
\* walls if the switch is on, then the walls of the XML, then FinalizeWalls.
ReadConstraint(monotoneAtPunctuation, punct, xmlWalls, zones) ==
  FinalizeWalls((IF monotoneAtPunctuation THEN PunctuationWalls(punct) ELSE {})
                   \cup xmlWalls,
                zones)

\* What FinalizeWalls may leave: no wall lies inside a zone.
IsConstraint(rc) ==
  /\ rc.wall \in SUBSET Positions
  /\ rc.localWall \in SUBSET Positions
  /\ rc.zones \in SUBSET Spans
  /\ \A w \in rc.wall, z \in rc.zones : ~(z[1] <= w /\ w < z[2])

\* Zones lie inside each other or apart.  Tags have to be closed in order, but
\* the span attribute of a zone is free: two zones that cross, each with words
\* the other has not, may leave no word that can come next.
ZonesNest(rc) ==
  \A y, z \in rc.zones :
    \/ y[1] <= z[1] /\ z[2] <= y[2]
    \/ z[1] <= y[1] /\ y[2] <= z[2]
    \/ y[2] < z[1]
    \/ z[2] < y[1]

\* A local wall is inside one zone only: Check does not ask which zone made a
\* wall local, so a wall of an inner zone also stops phrases of an outer one.
LocalWallsApart(rc) ==
  \A w \in rc.localWall, y, z \in rc.zones :
    w \in y[1] .. y[2] - 1 /\ w \in z[1] .. z[2] - 1 => y = z

\* Zones and walls that do not contradict each other.
Consistent(rc) == ZonesNest(rc) /\ LocalWallsApart(rc)

------------------------------------------------------------------------------
(****************************************************************************)
(* Check(bitmap, startPos, endPos), for the span r = <<startPos, endPos>>.  *)
(****************************************************************************)

\* Mutant: walls are looked for up to the start of the phrase only.
PassesWalls_UpToStart(rc, b, r) ==
  \/ GetFirstGapPos(b) = r[1]
  \/ (GetFirstGapPos(b) .. r[1] - 1) \cap rc.wall = {}

\* Filling the first gap hits no wall; anything else may not leave a wall
\* between the gap and its own last word.
PassesWalls(rc, b, r) ==
  \/ GetFirstGapPos(b) = r[1]
  \/ (GetFirstGapPos(b) .. r[2] - 1) \cap rc.wall = {}

\* Nothing is translated behind the phrase: the zones need no look.
IsMonotone(b, r) ==
  \/ GetLastPos(b) = NOT_FOUND /\ r[1] = 0
  \/ GetFirstGapPos(b) > GetLastPos(b) /\ GetFirstGapPos(b) = r[1]

InZone(b, z) == b \cap SpanPositions(z)

\* A word of the zone before pos is still open and lies before the phrase.
GapBeforePhrase(b, z, r, pos) == \E q \in z[1] .. pos : q \notin b /\ q < r[1]

PassesLocalWalls(rc, b, z, r) ==
  \A pos \in rc.localWall :
    z[1] <= pos /\ pos < z[2] /\ pos < r[2] => ~GapBeforePhrase(b, z, r, pos)

\* Mutant: a phrase may leave the zone without having filled it.
PassesInsideZone_Unfinished(rc, b, z, r, maxDistortion) ==
  /\ \/ r[1] = GetFirstGapPos(b)
     \/ maxDistortion < 0
     \/ z[2] - GetFirstGapPos(b) < maxDistortion
  /\ r[1] <= z[1] \/ r[2] > z[2] \/ PassesLocalWalls(rc, b, z, r)

\* Mutant: the zone may end as far behind the gap as the limit.
PassesInsideZone_OneFurther(rc, b, z, r, maxDistortion) ==
  /\ \/ r[1] = GetFirstGapPos(b)
     \/ maxDistortion < 0
     \/ z[2] - GetFirstGapPos(b) <= maxDistortion
  /\ \/ r[1] <= z[1]
     \/ r[2] > z[2] /\ z[2] - r[1] + 1 >=
                         z[2] - z[1] + 1 - Cardinality(InZone(b, z))
     \/ r[2] <= z[2] /\ PassesLocalWalls(rc, b, z, r)

\* The phrase enters the zone, or continues in it: the distance back to the
\* first gap has to stay within the limit (an int compared as a size_t, so -1
\* never refuses), a phrase that runs over the end has to fill the zone, and
\* one that stays inside has to respect the local walls.
PassesInsideZone(rc, b, z, r, maxDistortion) ==
  /\ \/ r[1] = GetFirstGapPos(b)
     \/ maxDistortion < 0
     \/ z[2] - GetFirstGapPos(b) < maxDistortion
  /\ \/ r[1] <= z[1]
     \/ r[2] > z[2] /\ z[2] - r[1] + 1 >=
                         z[2] - z[1] + 1 - Cardinality(InZone(b, z))
     \/ r[2] <= z[2] /\ PassesLocalWalls(rc, b, z, r)

PassesZone(rc, b, z, r, maxDistortion) ==
  LET done    == InZone(b, z)
      outside == r[2] < z[1] \/ r[1] > z[2]
  IN  \/ GetFirstGapPos(b) > z[2]
      \/ done = SpanPositions(z)
      \/ done = {} /\ outside
      \/ ~outside /\ PassesInsideZone(rc, b, z, r, maxDistortion)

Check(rc, b, r, maxDistortion) ==
  /\ PassesWalls(rc, b, r)
  /\ \/ IsMonotone(b, r)
     \/ \A z \in rc.zones : PassesZone(rc, b, z, r, maxDistortion)

------------------------------------------------------------------------------
(****************************************************************************)
(* The two searches.                                                       *)
(****************************************************************************)
\* The spans the two nested loops visit and the collection has storage for.
PhraseSpans == {r \in Spans : r[2] - r[1] < MaxPhraseLength}

\* Mutant: the distance back from the start of the phrase, not its end.
RequiredDistortion_FromStart(b, r) ==
  ComputeDistortionDistance(<<r[1], r[1]>>,
                            <<GetFirstGapPos(b), GetFirstGapPos(b)>>)

\* The distance back to the first gap once r is translated.
RequiredDistortion(b, r) ==
  ComputeDistortionDistance(r, <<GetFirstGapPos(b), GetFirstGapPos(b)>>)

\* Mutant: only forward jumps are limited.
NormalDistortionOK_ForwardOnly(b, prev, r, maxDistortion) ==
  maxDistortion < 0 \/ r[1] = 0 \/ r[1] - ToInt(prev[2]) - 1 <= maxDistortion

\* The limit as ProcessOneHypothesis applies it: forward jumps are measured
\* from the last span, and a phrase off the first gap has to be near enough
\* to come back.
NormalDistortionOK(b, prev, r, maxDistortion) ==
  \/ maxDistortion < 0
  \/ /\ r[1] = 0 \/ r[1] - ToInt(prev[2]) - 1 <= maxDistortion
     /\ \/ GetFirstGapPos(b) = r[1]
        \/ RequiredDistortion(b, r) <= maxDistortion

NormalMayExtend(rc, b, prev, r, options, maxDistortion) ==
  /\ r[1] >= GetFirstGapPos(b)
  /\ r \in options
  /\ ~Overlap(b, r)
  /\ Check(rc, b, r, maxDistortion)
  /\ NormalDistortionOK(b, prev, r, maxDistortion)

------------------------------------------------------------------------------
\* Mutant: the reordering constraint is not checked.
CheckDistortion_LimitOnly(rc, b, r, maxDistortion) ==
  \/ maxDistortion < 0
  \/ GetFirstGapPos(b) = r[1]
  \/ RequiredDistortion(b, r) <= maxDistortion

CheckDistortion(rc, b, r, maxDistortion) ==
  /\ Check(rc, b, r, maxDistortion)
  /\ \/ maxDistortion < 0
     \/ GetFirstGapPos(b) = r[1]
     \/ RequiredDistortion(b, r) <= maxDistortion

\* Does the edge for the span r take the hypothesis?
EdgeTakes(b, prev, r, maxDistortion) ==
  \/ maxDistortion = -1
  \/ IF b = {} THEN r[1] <= maxDistortion
     ELSE ComputeDistortionDistance(prev, r) <= maxDistortion

CubeMayExtend(rc, b, prev, r, options, maxDistortion) ==
  /\ r \in options
  /\ ~Overlap(b, r)
  /\ CheckDistortion(rc, b, r, maxDistortion)
  /\ EdgeTakes(b, prev, r, maxDistortion)
==============================================================================
