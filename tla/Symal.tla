-------------------------------- MODULE Symal --------------------------------
(****************************************************************************)
(* Two directed word alignments of a sentence pair become one: giza2bal.pl  *)
(* and symal.                                                               *)
(*                                                                          *)
(* A pair is [m, n, a, b]: m source and n target words; a[j] is the target  *)
(* word that source word j is aligned to, b[i] the source word of target    *)
(* word i, 0 for none.  A point is <<i, j>>, target word first as in the    *)
(* std::set the points are kept in; words count from 1.  The options are    *)
(* [alignment, diagonal, final, both].                                      *)
(*                                                                          *)
(* Growing is a loop over a set that it inserts into, here a step for each  *)
(* element of the iteration; [points, A, ea, fa, at, added, stage] is its   *)
(* state, with the matrix A, the covered target and source words, and the   *)
(* element of the iteration.                                                *)
(****************************************************************************)
EXTENDS Integers, SequencesExt

\* What giza2bal.pl writes for a sentence whose two alignments do not fit:
\* one word on either side, aligned to the other.
AlignErr == [m |-> 1, n |-> 1, a |-> <<1>>, b |-> <<1>>]

\* The word at the other end of the link, 0 if there is none.
LinkedTo(links, k) == IF \E l \in links : l[1] = k THEN (CHOOSE l \in links : l[1] = k)[2] ELSE 0

\* ReadBiAlign: direct and inverse are sets of links <<from, to>>.
ReadBiAlign(giza) ==
  IF giza.mismatch THEN AlignErr
  ELSE [m |-> giza.m, n |-> giza.n,
        a |-> [j \in 1 .. giza.m |-> LinkedTo(giza.direct, j)],
        b |-> [i \in 1 .. giza.n |-> LinkedTo(giza.inverse, i)]]

InUnion(p, point) == p.b[point[1]] = point[2] \/ p.a[point[2]] = point[1]
Matrix(p) == (1 .. p.n) \X (1 .. p.m)
UnionAlignment(p) == {point \in Matrix(p) : InUnion(p, point)}
Intersection(p) == {q \in Matrix(p) : p.b[q[1]] = q[2] /\ p.a[q[2]] = q[1]}

\* The order of a std::set of pairs.
PointBefore(q, r) == q[1] < r[1] \/ (q[1] = r[1] /\ q[2] < r[2])
InOrder(points) ==
  SortSeq(FoldSet(LAMBDA q, s : Append(s, q), <<>>, points), PointBefore)

\* What is printed: source word first.
Links(seq) == [k \in DOMAIN seq |-> <<seq[k][2], seq[k][1]>>]

DirectPoints(p) == SelectSeq([j \in 1 .. p.m |-> <<p.a[j], j>>], LAMBDA q : q[1] # 0)
InversePoints(p) == SelectSeq([i \in 1 .. p.n |-> <<i, p.b[i]>>], LAMBDA q : q[2] # 0)

\* prunionalignment: what the inverse alignment adds comes last.
PrUnion(p) ==
  Links(DirectPoints(p) \o SelectSeq(InversePoints(p), LAMBDA q : p.a[q[2]] # q[1]))

PrIntersect(p) == Links(SelectSeq(DirectPoints(p), LAMBDA q : p.b[q[1]] = q[2]))
PrintSrcToTgt(p) == Links(DirectPoints(p))
PrintTgtToSrc(p) == Links(InversePoints(p))

(****************************************************************************)
(* printgrow                                                                *)
(****************************************************************************)

Neighbors(diagonal) ==
  <<<<-1, 0>>, <<0, -1>>, <<1, 0>>, <<0, 1>>>>
    \o (IF diagonal THEN <<<<-1, -1>>, <<-1, 1>>, <<1, -1>>, <<1, 1>>>> ELSE <<>>)

First == <<0, 0>>

Fill(p) ==
  [points |-> Intersection(p),
   A |-> [q \in Matrix(p) |-> IF q \in Intersection(p) THEN 2
                              ELSE IF p.a[q[2]] = q[1] THEN -1
                              ELSE IF p.b[q[1]] = q[2] THEN 1 ELSE 0],
   ea |-> {q[1] : q \in Intersection(p)}, fa |-> {q[2] : q \in Intersection(p)},
   at |-> First, added |-> FALSE, stage |-> "grow"]

InsertPoint(s, q) ==
  [s EXCEPT !.points = @ \cup {q}, !.A[q] = 2, !.ea = @ \cup {q[1]}, !.fa = @ \cup {q[2]}]

\* Mutant: the neighbour has to be new on both sides.
GrowTo_BothNew(p, s, q) ==
  IF q \in Matrix(p) /\ InUnion(p, q) /\ q[1] \notin s.ea /\ q[2] \notin s.fa
  THEN [InsertPoint(s, q) EXCEPT !.added = TRUE]
  ELSE s

\* A neighbour of the current point is taken if it covers a new word.
GrowTo(p, s, q) ==
  IF q \in Matrix(p) /\ InUnion(p, q) /\ ~(q[1] \in s.ea /\ q[2] \in s.fa)
  THEN [InsertPoint(s, q) EXCEPT !.added = TRUE]
  ELSE s

\* The next element of the iteration, if there is one.
Behind(points, at) == {q \in points : PointBefore(at, q)}
Least(points) == CHOOSE q \in points : \A r \in points : r = q \/ PointBefore(q, r)

\* One round of the loop: a point and its neighbours, or the next scan.
GrowStep(p, s, options) ==
  IF Behind(s.points, s.at) # {}
  THEN LET k == Least(Behind(s.points, s.at))
       IN  FoldLeft(LAMBDA t, o : GrowTo(p, t, <<k[1] + o[1], k[2] + o[2]>>),
                    [s EXCEPT !.at = k], Neighbors(options.diagonal))
  ELSE IF s.added THEN [s EXCEPT !.at = First, !.added = FALSE]
  ELSE [s EXCEPT !.at = First, !.stage = IF options.final THEN "inverse" ELSE "print"]

\* Whether a left-over point may be added at the end.
FinalAdds(s, q, options) ==
  IF options.both THEN q[1] \notin s.ea /\ q[2] \notin s.fa
  ELSE ~(q[1] \in s.ea /\ q[2] \in s.fa)

\* The two last scans, of inverse and then of direct points.
FinalStep(p, s, options) ==
  LET rest == Behind(UnionAlignment(p), s.at)
      k == Least(rest)
      kind == IF s.stage = "inverse" THEN 1 ELSE -1
  IN  IF rest = {}
      THEN [s EXCEPT !.at = First, !.stage = IF @ = "inverse" THEN "direct" ELSE "print"]
      ELSE IF s.A[k] = kind /\ FinalAdds(s, k, options)
      THEN [InsertPoint(s, k) EXCEPT !.at = k]
      ELSE [s EXCEPT !.at = k]

\* main: the sentence is handled at once, but for growing.
StartSentence(p, options) ==
  CASE options.alignment = "union" -> [stage |-> "done", line |-> PrUnion(p)]
    [] options.alignment = "intersect" -> [stage |-> "done", line |-> PrIntersect(p)]
    [] options.alignment = "srctotgt" -> [stage |-> "done", line |-> PrintSrcToTgt(p)]
    [] options.alignment = "tgttosrc" -> [stage |-> "done", line |-> PrintTgtToSrc(p)]
    [] options.alignment = "grow" -> Fill(p)

SymalStep(p, s, options) ==
  CASE s.stage = "grow" -> GrowStep(p, s, options)
    [] s.stage \in {"inverse", "direct"} -> FinalStep(p, s, options)
    [] s.stage = "print" -> [stage |-> "done", line |-> Links(InOrder(s.points))]

(****************************************************************************)
(* What symmetrization promises                                             *)
(****************************************************************************)

Covered(points, q) == \E r \in points : r[1] = q[1]
CoveredSource(points, q) == \E r \in points : r[2] = q[2]
NextTo(q, r, diagonal) ==
  \E k \in DOMAIN Neighbors(diagonal) :
     q = <<r[1] + Neighbors(diagonal)[k][1], r[2] + Neighbors(diagonal)[k][2]>>

\* Points between intersection and union; every further point has covered a
\* new word; no neighbour could still do so; the last scans left no point
\* that may be added.
IsSymmetrization(p, line, options) ==
  LET points == {<<line[k][2], line[k][1]>> : k \in DOMAIN line}
      words(q) == {<<1, r[1]>> : r \in q} \cup {<<2, r[2]>> : r \in q}
      left == UnionAlignment(p) \ points
      both(q) == Covered(points, q) /\ CoveredSource(points, q)
      either(q) == Covered(points, q) \/ CoveredSource(points, q)
  IN  /\ Cardinality(points) = Len(line)
      /\ CASE options.alignment = "union" -> points = UnionAlignment(p)
           [] options.alignment = "intersect" -> points = Intersection(p)
           [] options.alignment = "srctotgt" -> points = {q \in Matrix(p) : p.a[q[2]] = q[1]}
           [] options.alignment = "tgttosrc" -> points = {q \in Matrix(p) : p.b[q[1]] = q[2]}
           [] options.alignment = "grow" ->
                /\ Intersection(p) \subseteq points
                /\ points \subseteq UnionAlignment(p)
                /\ Cardinality(points \ Intersection(p))
                     <= Cardinality(words(points)) - Cardinality(words(Intersection(p)))
                /\ \A q \in left : options.final => IF options.both THEN either(q) ELSE both(q)
                /\ ~options.final => \A q \in left, r \in points :
                                        NextTo(q, r, options.diagonal) => both(q)
==============================================================================
