------------------- MODULE TranslationOptionCollectionProofs -------------------
(****************************************************************************)
(* What the search may rely on in the options of a sentence and in its      *)
(* future costs, for any session, any tables, any markup and any settings.  *)
(*                                                                          *)
(* OptionsInv is inductive.  It says of the lists that they have options    *)
(* with scores, of their own span, whatever decode graphs, markup and cache *)
(* made of them; of the cache that its times are in the past, and all       *)
(* different if the clock ticks, which is what keeps it within its size; and *)
(* of a sentence that is done that every word has an option, the best one   *)
(* in front, and that the matrix was filled from just these lists.  That a  *)
(* filled matrix has the scores of the best tilings is shown apart from it, *)
(* for all matrices.                                                        *)
(****************************************************************************)
EXTENDS TranslationOptionCollection, WellFoundedInduction, FiniteSetTheorems,
        SequenceTheorems, TLAPS

------------------------------------------------------------------------------
(****************************************************************************)
(* Induction over numbers and over finite sets, for what recursive          *)
(* functions compute: P is the set of those for which something holds.      *)
(****************************************************************************)

\* A non-empty set of naturals has a least element.
LEMMA LeastNatural ==
  ASSUME NEW T, T \subseteq Nat, T # {}
  PROVE  \E x \in T : \A y \in T : x <= y
<1>1. PICK x \in T : \A y \in T : <<y, x>> \notin OpToRel(<, Nat)
  BY NatLessThanWellFounded, WFMin
<1>2. \A y \in T : ~(y < x)
  <2>1. SUFFICES ASSUME NEW y \in T, y < x
                 PROVE  FALSE
    OBVIOUS
  <2>2. <<y, x>> \in OpToRel(<, Nat)
    BY <2>1 DEF OpToRel
  <2>3. QED
    BY <1>1, <2>2
<1>3. QED
  BY <1>2

\* What holds of a number and, if it holds of one, of the next.
LEMMA FromNumber ==
  ASSUME NEW a \in Nat, NEW b \in Nat, NEW P, a \in P,
         \A k \in a .. b - 1 : k \in P => k + 1 \in P
  PROVE  \A k \in a .. b : k \in P
<1> DEFINE T == {k \in a .. b : k \notin P}
<1>1. SUFFICES ASSUME T # {}
               PROVE  FALSE
  OBVIOUS
<1>2. PICK k \in T : \A j \in T : k <= j
  <2>1. T \subseteq Nat
    OBVIOUS
  <2>2. QED
    BY <1>1, <2>1, LeastNatural
<1>3. k - 1 \in a .. b - 1 /\ k - 1 \notin T
  BY <1>2
<1>4. k - 1 \in P
  BY <1>3
<1>5. QED
  BY <1>2, <1>3, <1>4

\* What holds of a finite set if it holds of all sets of fewer elements.
LEMMA SetInduction ==
  ASSUME NEW S, IsFiniteSet(S), NEW P, {} \in P,
         \A s \in SUBSET S : s # {} /\ (\A x \in s : s \ {x} \in P) => s \in P
  PROVE  \A s \in SUBSET S : s \in P
<1> DEFINE T == {Cardinality(s) : s \in {t \in SUBSET S : t \notin P}}
<1>1. SUFFICES ASSUME NEW t \in SUBSET S, t \notin P
               PROVE  FALSE
  OBVIOUS
<1>2. \A s \in SUBSET S : IsFiniteSet(s) /\ Cardinality(s) \in Nat
  BY FS_Subset, FS_CardinalityType
<1>3. T \subseteq Nat /\ T # {}
  BY <1>1, <1>2
<1>4. PICK k \in T : \A j \in T : k <= j
  BY <1>3, LeastNatural
<1>5. PICK s \in SUBSET S : s \notin P /\ k = Cardinality(s)
  BY <1>4
<1>6. \A x \in s : s \ {x} \in P
  <2>1. SUFFICES ASSUME NEW x \in s, s \ {x} \notin P
                 PROVE  FALSE
    OBVIOUS
  <2>2. Cardinality(s \ {x}) = k - 1
    BY <1>2, <1>5, FS_RemoveElement
  <2>3. Cardinality(s \ {x}) \in T
    BY <2>1
  <2>4. k <= Cardinality(s \ {x})
    BY <1>4, <2>3
  <2>5. Cardinality(s) \in Nat
    BY <1>2
  <2>6. QED
    BY <1>5, <2>2, <2>4, <2>5
<1>7. QED
  BY <1>5, <1>6

\* A function on a .. b that is defined by its value at a and a step.
BySteps(f, a, b, base, G) ==
  \A k \in a .. b : f[k] = IF k = a THEN base ELSE G[<<k, f[k - 1]>>]

\* A function may be defined by the value before.
LEMMA FunctionOnNumbers ==
  ASSUME NEW a \in Nat, NEW b \in Nat, a <= b, NEW V, NEW base \in V, NEW G \in [Nat \X V -> V]
  PROVE  \E f \in [a .. b -> V] : BySteps(f, a, b, base, G)
<1> DEFINE Right(f, c) == \A k \in a .. c : f[k] = IF k = a THEN base ELSE G[<<k, f[k - 1]>>]
           P == {c \in a .. b : \E f \in [a .. c -> V] : Right(f, c)}
<1>1. a \in P
  <2>1. PICK f : f = [k \in a .. a |-> base]
    OBVIOUS
  <2>2. f \in [a .. a -> V] /\ Right(f, a)
    BY <2>1
  <2>3. QED
    BY <2>2
<1>2. ASSUME NEW c \in a .. b - 1, c \in P
      PROVE  c + 1 \in P
  <2>1. PICK f \in [a .. c -> V] : Right(f, c)
    BY <1>2
  <2>0. PICK g : g = [k \in a .. c + 1 |-> IF k = c + 1 THEN G[<<c + 1, f[c]>>] ELSE f[k]]
    OBVIOUS
  <2>2. g \in [a .. c + 1 -> V]
    BY <2>0
  <2>3. Right(g, c + 1)
    <3>1. SUFFICES ASSUME NEW k \in a .. c + 1
                   PROVE  g[k] = IF k = a THEN base ELSE G[<<k, g[k - 1]>>]
      OBVIOUS
    <3>2. CASE k = c + 1
      <4>1. k - 1 = c /\ k - 1 \in a .. c + 1 /\ k # a /\ k - 1 # c + 1
        BY <3>2
      <4>2. g[k - 1] = f[c] /\ g[k] = G[<<c + 1, f[c]>>]
        BY <2>0, <3>2, <4>1
      <4>3. QED
        BY <3>2, <4>1, <4>2
    <3>3. CASE k # c + 1
      <4>1. k \in a .. c /\ (k # a => k - 1 \in a .. c)
        BY <3>3
      <4>2. g[k] = f[k] /\ (k # a => g[k - 1] = f[k - 1])
        BY <2>0, <4>1
      <4>3. QED
        BY <2>1, <4>1, <4>2
    <3>4. QED
      BY <3>2, <3>3
  <2>4. QED
    BY <2>2, <2>3
<1>3. \A k \in a .. b : k \in P
  BY <1>1, <1>2, FromNumber
<1>4. QED
  BY <1>3 DEF BySteps

\* c has an element of every set.
Chooses(c, S) == \A s \in SUBSET S : s # {} => c[s] \in s

\* One on the subsets of a finite set, by one element less each time.
ByElements(f, S, c, base, G) ==
  \A s \in SUBSET S : f[s] = IF s = {} THEN base ELSE G[<<c[s], f[s \ {c[s]}]>>]

\* A function on sets may be defined by the set without one element.
LEMMA FunctionOnSubsets ==
  ASSUME NEW S, IsFiniteSet(S), NEW c, Chooses(c, S),
         NEW V, NEW base \in V, NEW G \in [S \X V -> V]
  PROVE  \E f \in [SUBSET S -> V] : ByElements(f, S, c, base, G)
<1> DEFINE U(k) == {s \in SUBSET S : Cardinality(s) <= k}
           Right(f, k) == \A s \in U(k) :
                            f[s] = IF s = {} THEN base ELSE G[<<c[s], f[s \ {c[s]}]>>]
           N == Cardinality(S)
           P == {k \in 0 .. N : \E f \in [U(k) -> V] : Right(f, k)}
<1>1. \A s \in SUBSET S : /\ IsFiniteSet(s) /\ Cardinality(s) \in 0 .. N
                          /\ (Cardinality(s) = 0 <=> s = {})
                          /\ \A x \in s : Cardinality(s \ {x}) = Cardinality(s) - 1
  BY FS_Subset, FS_CardinalityType, FS_EmptySet, FS_RemoveElement
<1>2. 0 \in P
  <2>1. PICK f : f = [s \in U(0) |-> base]
    OBVIOUS
  <2>2. f \in [U(0) -> V]
    BY <2>1
  <2>3. Right(f, 0)
    <3>1. U(0) = {{}}
      BY <1>1
    <3>2. QED
      BY <2>1, <3>1
  <2>4. 0 \in 0 .. N
    BY FS_CardinalityType
  <2>5. QED
    BY <2>2, <2>3, <2>4
<1>3. ASSUME NEW k \in 0 .. N - 1, k \in P
      PROVE  k + 1 \in P
  <2>0. N \in Nat
    BY FS_CardinalityType
  <2>1. PICK f \in [U(k) -> V] : Right(f, k)
    BY <1>3
  <2> DEFINE next == [s \in U(k + 1) |-> IF s \in U(k) THEN f[s]
                                         ELSE G[<<c[s], f[s \ {c[s]}]>>]]
  <2>9. PICK g : g = next
    OBVIOUS
  <2>2. ASSUME NEW s \in U(k + 1), s # {}
        PROVE  c[s] \in S /\ s \ {c[s]} \in U(k)
    <3>1. c[s] \in s /\ s \in SUBSET S
      BY <2>2 DEF Chooses
    <3>2. Cardinality(s \ {c[s]}) = Cardinality(s) - 1 /\ Cardinality(s) \in Nat
      BY <1>1, <3>1
    <3>3. Cardinality(s) <= k + 1
      OBVIOUS
    <3>4. QED
      BY <2>0, <3>1, <3>2, <3>3
  <2>3. {} \in U(k)
    BY <1>1, <2>0
  <2>4. g \in [U(k + 1) -> V]
    BY <2>2, <2>3, <2>9
  <2>5. Right(g, k + 1)
    <3>1. SUFFICES ASSUME NEW s \in U(k + 1)
                   PROVE  g[s] = IF s = {} THEN base ELSE G[<<c[s], g[s \ {c[s]}]>>]
      OBVIOUS
    <3>2. CASE s = {}
      BY <2>1, <2>3, <2>9, <3>2
    <3>3. CASE s # {}
      <4>1. s \ {c[s]} \in U(k) /\ U(k) \subseteq U(k + 1)
        BY <1>1, <2>0, <2>2, <3>3
      <4>2. g[s \ {c[s]}] = f[s \ {c[s]}]
        BY <2>9, <4>1
      <4>3. g[s] = IF s \in U(k) THEN f[s] ELSE G[<<c[s], f[s \ {c[s]}]>>]
        BY <2>9
      <4>4. QED
        BY <2>1, <3>3, <4>2, <4>3
    <3>4. QED
      BY <3>2, <3>3
  <2>6. k + 1 \in 0 .. N
    BY <2>0
  <2>7. QED
    BY <2>4, <2>5, <2>6
<1>4. N \in Nat /\ N \in 0 .. N
  BY FS_CardinalityType
<1>5. \A k \in 0 .. N : k \in P
  BY <1>2, <1>3, <1>4, FromNumber
<1>6. PICK f \in [U(N) -> V] : Right(f, N)
  BY <1>4, <1>5
<1>7. U(N) = SUBSET S
  BY <1>1
<1>8. QED
  BY <1>6, <1>7 DEF ByElements

------------------------------------------------------------------------------
(****************************************************************************)
(* Extremes and sums.                                                       *)
(****************************************************************************)

\* A finite set of numbers has a greatest.
LEMMA MaxOf ==
  ASSUME NEW T, T \subseteq Int, IsFiniteSet(T), T # {}
  PROVE  Max(T) \in T /\ \A y \in T : y <= Max(T)
<1> DEFINE P == {s \in SUBSET T : s = {} \/ \E x \in s : \A y \in s : y <= x}
<1>1. ASSUME NEW s \in SUBSET T, s # {}, \A x \in s : s \ {x} \in P
      PROVE  s \in P
  <2>1. PICK z \in s : TRUE
    BY <1>1
  <2>2. CASE s \ {z} = {}
    BY <2>1, <2>2
  <2>3. CASE s \ {z} # {}
    <3>1. PICK x \in s \ {z} : \A y \in s \ {z} : y <= x
      BY <1>1, <2>3
    <3>2. (\A y \in s : y <= x) \/ (\A y \in s : y <= z)
      BY <2>1, <3>1
    <3>3. QED
      BY <2>1, <3>1, <3>2
  <2>4. QED
    BY <2>2, <2>3
<1>2. {} \in P
  OBVIOUS
<1>3. \A s \in SUBSET T : s \in P
  <2> HIDE DEF P
  <2>1. QED
    BY <1>1, <1>2, SetInduction
<1>4. PICK x \in T : \A y \in T : x >= y
  BY <1>3
<1>5. QED
  BY <1>4 DEF Max

\* A function has finitely many values on a finite set.
LEMMA FiniteValues ==
  ASSUME NEW S, IsFiniteSet(S), NEW f
  PROVE  IsFiniteSet({f[x] : x \in S})
<1> DEFINE T == {f[x] : x \in S}
           g == [x \in S |-> f[x]]
<1>1. g \in Surjection(S, T)
  BY DEF Surjection
<1>2. QED
  BY <1>1, FS_Surjection

\* A set of values for the elements of a finite set has one, too.
LEMMA MaxOfValues ==
  ASSUME NEW S, IsFiniteSet(S), S # {}, NEW f, \A x \in S : f[x] \in Int
  PROVE  LET m == Max({f[x] : x \in S})
         IN  (\E x \in S : m = f[x]) /\ \A x \in S : f[x] <= m
<1> DEFINE T == {f[x] : x \in S}
<1>1. IsFiniteSet(T)
  BY FiniteValues
<1>2. T \subseteq Int /\ T # {}
  OBVIOUS
<1>3. Max(T) \in T /\ \A y \in T : y <= Max(T)
  <2> HIDE DEF T
  <2>1. QED
    BY <1>1, <1>2, MaxOf
<1>4. QED
  BY <1>3

\* A set of natural numbers has a least.
LEMMA MinOf ==
  ASSUME NEW T, T \subseteq Nat, T # {}
  PROVE  Min(T) \in T /\ \A y \in T : Min(T) <= y
<1>1. PICK x \in T : \A y \in T : x =< y
  BY LeastNatural
<1>2. QED
  BY <1>1 DEF Min

\* The sum that the fold computes, element by element.
LEMMA TotalStep ==
  ASSUME NEW S, IsFiniteSet(S), NEW F, \A x \in S : F[x] \in Int
  PROVE  /\ Total(F, {}) = 0
         /\ Total(F, S) \in Int
         /\ S # {} => \E x \in S : Total(F, S) = F[x] + Total(F, S \ {x})
<1> DEFINE c(s) == CHOOSE x \in s : TRUE
           Sums(f, U) == f = [s \in SUBSET U |-> IF s = {} THEN 0 ELSE F[c(s)] + f[s \ {c(s)}]]
           Sum(U) == CHOOSE f : Sums(f, U)
<1>1. \A U : Total(F, U) = Sum(U)[U]
  BY DEF Total, MapThenSumSet, MapThenFoldSet
<1>2. \A s : s # {} => c(s) \in s
  OBVIOUS
<1> HIDE DEF c
<1>3. ASSUME NEW U \in SUBSET S
      PROVE  Sums(Sum(U), U)
  <2>1. PICK d, G, V, zero : /\ d = [s \in SUBSET U |-> c(s)]
                             /\ V = Int /\ zero = 0
                             /\ G = [p \in U \X V |-> F[p[1]] + p[2]]
    OBVIOUS
  <2>2. IsFiniteSet(U) /\ Chooses(d, U)
    BY <1>2, <2>1, FS_Subset DEF Chooses
  <2>3. zero \in V /\ G \in [U \X V -> V]
    BY <2>1
  <2>4. PICK f \in [SUBSET U -> V] : ByElements(f, U, d, zero, G)
    BY <2>2, <2>3, FunctionOnSubsets
  <2>5. ASSUME NEW s \in SUBSET U, s # {}
        PROVE  f[s] = F[c(s)] + f[s \ {c(s)}]
    <3>1. d[s] = c(s) /\ c(s) \in U /\ f[s \ {c(s)}] \in V
      BY <1>2, <2>1, <2>5
    <3>2. f[s] = G[<<c(s), f[s \ {c(s)}]>>]
      BY <2>4, <2>5, <3>1 DEF ByElements
    <3>3. G[<<c(s), f[s \ {c(s)}]>>] = F[c(s)] + f[s \ {c(s)}]
      <4>1. <<c(s), f[s \ {c(s)}]>> \in U \X V
        BY <3>1
      <4>2. QED
        BY <2>1, <4>1
    <3>4. QED
      BY <3>2, <3>3
  <2>6. f[{}] = 0
    BY <2>1, <2>4 DEF ByElements
  <2>7. Sums(f, U)
    BY <2>5, <2>6
  <2>8. QED
    BY <2>7
<1> HIDE DEF Sum
<1>4. ASSUME NEW U \in SUBSET S, NEW s \in SUBSET U
      PROVE  Sum(U)[s] = IF s = {} THEN 0 ELSE F[c(s)] + Sum(U)[s \ {c(s)}]
  BY <1>3
<1>5. ASSUME NEW s \in SUBSET S, s # {}
      PROVE  c(s) \in s /\ s \ {c(s)} \in SUBSET S
  BY <1>2, <1>5
<1> HIDE DEF Sums
<1> DEFINE P == {s \in SUBSET S : \A U \in SUBSET S : s \subseteq U => Sum(U)[s] = Sum(s)[s]}
           I == {s \in SUBSET S : Sum(s)[s] \in Int}
<1>6. {} \in P /\ {} \in I
  <2>1. {} \in SUBSET S /\ \A U \in SUBSET S : Sum(U)[{}] = 0
    BY <1>4
  <2>2. QED
    BY <2>1
<1>7. ASSUME NEW s \in SUBSET S, s # {}, \A x \in s : s \ {x} \in P
      PROVE  s \in P
  <2>1. SUFFICES ASSUME NEW U \in SUBSET S, s \subseteq U
                 PROVE  Sum(U)[s] = Sum(s)[s]
    OBVIOUS
  <2>2. Sum(U)[s] = F[c(s)] + Sum(U)[s \ {c(s)}] /\ Sum(s)[s] = F[c(s)] + Sum(s)[s \ {c(s)}]
    BY <1>4, <1>7, <2>1
  <2>3. s \ {c(s)} \in P
    BY <1>5, <1>7
  <2>4. QED
    BY <2>1, <2>2, <2>3
<1>8. \A s \in SUBSET S : s \in P
  <2> HIDE DEF P
  <2>1. QED
    BY <1>6, <1>7, SetInduction
<1>9. ASSUME NEW s \in SUBSET S, s # {}
      PROVE  Sum(s)[s] = F[c(s)] + Sum(s \ {c(s)})[s \ {c(s)}]
  <2>1. Sum(s)[s] = F[c(s)] + Sum(s)[s \ {c(s)}]
    BY <1>4, <1>9
  <2>2. s \ {c(s)} \in P
    BY <1>5, <1>8, <1>9
  <2>3. QED
    BY <2>1, <2>2
<1>10. ASSUME NEW s \in SUBSET S, s # {}, \A x \in s : s \ {x} \in I
      PROVE  s \in I
  <2>1. s \ {c(s)} \in I /\ F[c(s)] \in Int
    BY <1>5, <1>10
  <2>2. QED
    BY <1>9, <1>10, <2>1
<1>11. \A s \in SUBSET S : s \in I
  <2> HIDE DEF I
  <2>1. QED
    BY <1>6, <1>10, SetInduction
<1>12. Total(F, {}) = 0 /\ Total(F, S) \in Int
  BY <1>1, <1>4, <1>11
<1>13. ASSUME S # {}
       PROVE  \E x \in S : Total(F, S) = F[x] + Total(F, S \ {x})
  BY <1>1, <1>5, <1>9, <1>13
<1>14. QED
  BY <1>12, <1>13

\* The sum over no spans, a sum of numbers, and sums that depend only on the
\* scores they sum.
LEMMA TotalEmpty == \A F : Total(F, {}) = 0
  BY FS_EmptySet, TotalStep

LEMMA TotalInt ==
  ASSUME NEW S, IsFiniteSet(S), NEW F, \A x \in S : F[x] \in Int
  PROVE  Total(F, S) \in Int
  BY TotalStep

\* Any element may be the first.
LEMMA TotalRemove ==
  ASSUME NEW S, IsFiniteSet(S), NEW F, \A x \in S : F[x] \in Int
  PROVE  \A x \in S : Total(F, S) = F[x] + Total(F, S \ {x})
<1> DEFINE P == {s \in SUBSET S : \A x \in s : Total(F, s) = F[x] + Total(F, s \ {x})}
<1>1. {} \in P
  OBVIOUS
<1>2. ASSUME NEW s \in SUBSET S
      PROVE  /\ IsFiniteSet(s) /\ (\A x \in s : F[x] \in Int) /\ Total(F, s) \in Int
             /\ s # {} => \E x \in s : Total(F, s) = F[x] + Total(F, s \ {x})
  <2>1. IsFiniteSet(s) /\ (\A x \in s : F[x] \in Int)
    BY FS_Subset
  <2>2. QED
    BY <2>1, TotalStep
<1>3. ASSUME NEW s \in SUBSET S, s # {}, \A x \in s : s \ {x} \in P
      PROVE  s \in P
  <2>1. PICK y \in s : Total(F, s) = F[y] + Total(F, s \ {y})
    BY <1>2, <1>3
  <2>2. SUFFICES ASSUME NEW x \in s, x # y
                 PROVE  Total(F, s) = F[x] + Total(F, s \ {x})
    BY <2>1
  <2>3. Total(F, s \ {y}) = F[x] + Total(F, (s \ {y}) \ {x})
    BY <1>3, <2>2
  <2>4. Total(F, s \ {x}) = F[y] + Total(F, (s \ {x}) \ {y})
    BY <1>3, <2>2
  <2>5. PICK rest \in SUBSET S : rest = (s \ {y}) \ {x} /\ rest = (s \ {x}) \ {y}
    OBVIOUS
  <2>6. F[x] \in Int /\ F[y] \in Int /\ Total(F, rest) \in Int
    BY <1>2
  <2>7. Total(F, s) = F[y] + (F[x] + Total(F, rest)) /\ Total(F, s \ {x}) = F[y] + Total(F, rest)
    BY <2>1, <2>3, <2>4, <2>5
  <2>8. QED
    BY <2>6, <2>7
<1>4. \A s \in SUBSET S : s \in P
  <2> HIDE DEF P
  <2>1. QED
    BY <1>1, <1>3, SetInduction
<1>5. QED
  BY <1>4

LEMMA TotalAgree ==
  ASSUME NEW S, IsFiniteSet(S), NEW F, NEW H, \A x \in S : F[x] \in Int /\ F[x] = H[x]
  PROVE  Total(F, S) = Total(H, S)
<1> DEFINE P == {s \in SUBSET S : Total(F, s) = Total(H, s)}
<1>1. {} \in P
  BY TotalEmpty
<1>2. ASSUME NEW s \in SUBSET S, s # {}, \A x \in s : s \ {x} \in P
      PROVE  s \in P
  <2>1. IsFiniteSet(s) /\ (\A x \in s : F[x] \in Int /\ F[x] = H[x])
    BY FS_Subset
  <2>2. PICK x \in s : TRUE
    BY <1>2
  <2>3. Total(F, s) = F[x] + Total(F, s \ {x}) /\ Total(H, s) = H[x] + Total(H, s \ {x})
    BY <2>1, TotalRemove
  <2>4. QED
    BY <1>2, <2>1, <2>3
<1>3. \A s \in SUBSET S : s \in P
  <2> HIDE DEF P
  <2>1. QED
    BY <1>1, <1>2, SetInduction
<1>4. QED
  BY <1>3

\* Sums of parts that do not meet add up.
LEMMA TotalUnion ==
  ASSUME NEW S, IsFiniteSet(S), NEW A, NEW B, S = A \cup B, A \cap B = {},
         NEW F, \A x \in S : F[x] \in Int
  PROVE  Total(F, S) = Total(F, A) + Total(F, B)
<1> DEFINE P == {s \in SUBSET B : Total(F, A \cup s) = Total(F, A) + Total(F, s)}
<1>1. \A s \in SUBSET S : IsFiniteSet(s) /\ (\A x \in s : F[x] \in Int) /\ Total(F, s) \in Int
  BY FS_Subset, TotalStep
<1>2. {} \in P
  <2>1. A \cup {} = A /\ A \in SUBSET S
    OBVIOUS
  <2>2. QED
    BY <1>1, <2>1, TotalEmpty
<1>3. ASSUME NEW s \in SUBSET B, s # {}, \A x \in s : s \ {x} \in P
      PROVE  s \in P
  <2>1. PICK x \in s : TRUE
    BY <1>3
  <2>2. Total(F, s) = F[x] + Total(F, s \ {x})
    BY <1>1, <2>1, TotalRemove
  <2>3. (A \cup s) \ {x} = A \cup (s \ {x})
    BY <2>1
  <2>4. Total(F, A \cup s) = F[x] + Total(F, A \cup (s \ {x}))
    <3>1. A \cup s \in SUBSET S
      OBVIOUS
    <3>2. IsFiniteSet(A \cup s) /\ \A y \in A \cup s : F[y] \in Int
      BY <1>1, <3>1
    <3>3. QED
      BY <2>1, <2>3, <3>2, TotalRemove
  <2>5. Total(F, A \cup (s \ {x})) = Total(F, A) + Total(F, s \ {x})
    BY <1>3, <2>1
  <2>6. F[x] \in Int /\ Total(F, A) \in Int /\ Total(F, s \ {x}) \in Int
    BY <1>1, <2>1
  <2>7. QED
    BY <2>2, <2>4, <2>5, <2>6
<1>4. IsFiniteSet(B)
  BY <1>1
<1>5. \A s \in SUBSET B : s \in P
  <2> HIDE DEF P
  <2>1. QED
    BY <1>2, <1>3, <1>4, SetInduction
<1>6. QED
  BY <1>5

------------------------------------------------------------------------------
(****************************************************************************)
(* The matrix of future costs.                                              *)
(****************************************************************************)

\* The scores to fill in: every word has one.
BestScores(size, best) ==
  /\ DOMAIN best \subseteq SpansOf(size) /\ \A r \in DOMAIN best : best[r] \in Int
  /\ \A p \in 0 .. size - 1 : <<p, p>> \in DOMAIN best

Shorter(size, w) == {q \in SpansOf(size) : q[2] - q[1] < w}

\* One cell, and one round.
CellChoices(m, best, r) ==
  {best[q] : q \in {r} \cap DOMAIN best}
  \cup {m[<<r[1], j>>] + m[<<j + 1, r[2]>>] : j \in r[1] .. r[2] - 1}

Round(size, best, m, w) ==
  [r \in Shorter(size, w) |-> IF r \in DOMAIN m THEN m[r] ELSE Max(CellChoices(m, best, r))]

\* What a cell has to be.
Filled(m, best, r) ==
  /\ r \in DOMAIN best => best[r] <= m[r]
  /\ \A j \in r[1] .. r[2] - 1 : m[<<r[1], j>>] + m[<<j + 1, r[2]>>] <= m[r]
  /\ \/ r \in DOMAIN best /\ m[r] = best[r]
     \/ \E j \in r[1] .. r[2] - 1 : m[r] = m[<<r[1], j>>] + m[<<j + 1, r[2]>>]

FilledUpTo(size, best, m, w) ==
  m \in [Shorter(size, w) -> Int] /\ \A r \in Shorter(size, w) : Filled(m, best, r)

\* A span is its first and its last word; a sentence has finitely many.
LEMMA SpanParts ==
  ASSUME NEW size \in Nat, NEW r \in SpansOf(size)
  PROVE  /\ r = <<r[1], r[2]>> /\ r[1] \in 0 .. size - 1 /\ r[2] \in r[1] .. size - 1
         /\ \A j \in r[1] .. r[2] - 1 :
              /\ <<r[1], j>> \in SpansOf(size) /\ <<j + 1, r[2]>> \in SpansOf(size)
              /\ j - r[1] < r[2] - r[1] /\ r[2] - (j + 1) < r[2] - r[1]
BY DEF SpansOf

LEMMA SpansFinite ==
  ASSUME NEW size \in Nat
  PROVE  IsFiniteSet(SpansOf(size))
<1>1. IsFiniteSet(0 .. size - 1)
  BY FS_Interval
<1>2. IsFiniteSet((0 .. size - 1) \X (0 .. size - 1))
  BY <1>1, FS_Product
<1>3. QED
  BY <1>2, FS_Subset DEF SpansOf

\* The cells it is made from are filled.
HasParts(m, r) == \A j \in r[1] .. r[2] - 1 : m[<<r[1], j>>] \in Int /\ m[<<j + 1, r[2]>>] \in Int

IsChosen(x, m, best, r) ==
  /\ x \in Int
  /\ r \in DOMAIN best => best[r] <= x
  /\ \A j \in r[1] .. r[2] - 1 : m[<<r[1], j>>] + m[<<j + 1, r[2]>>] <= x
  /\ \/ r \in DOMAIN best /\ x = best[r]
     \/ \E j \in r[1] .. r[2] - 1 : x = m[<<r[1], j>>] + m[<<j + 1, r[2]>>]

\* What a cell is filled with is one of its choices, and none is greater.
LEMMA MaxOfChoices ==
  ASSUME NEW size \in Nat, NEW best, BestScores(size, best),
         NEW r \in SpansOf(size), NEW m, HasParts(m, r)
  PROVE  IsChosen(Max(CellChoices(m, best, r)), m, best, r)
<1> DEFINE J == r[1] .. r[2] - 1
           sums == [j \in J |-> m[<<r[1], j>>] + m[<<j + 1, r[2]>>]]
           A == {best[q] : q \in {r} \cap DOMAIN best}
           B == {sums[j] : j \in J}
<1>1. CellChoices(m, best, r) = A \cup B
  BY DEF CellChoices
<1>2. IsFiniteSet(A \cup B)
  <2>1. IsFiniteSet(J)
    BY SpanParts, FS_Interval
  <2>2. IsFiniteSet(B)
    BY <2>1, FiniteValues
  <2>3. IsFiniteSet({r} \cap DOMAIN best)
    <3>1. IsFiniteSet({r})
      BY FS_Singleton
    <3>2. QED
      BY <3>1, FS_Subset
  <2>4. IsFiniteSet(A)
    BY <2>3, FiniteValues
  <2>5. QED
    BY <2>2, <2>4, FS_Union
<1>3. A \cup B \subseteq Int
  <2>1. A \subseteq Int
    BY DEF BestScores
  <2>2. \A j \in J : sums[j] \in Int
    BY DEF HasParts
  <2>3. QED
    BY <2>1, <2>2
<1>4. A \cup B # {}
  <2>1. CASE r[1] = r[2]
    <3>1. r = <<r[1], r[1]>> /\ r[1] \in 0 .. size - 1
      BY <2>1, SpanParts
    <3>2. r \in DOMAIN best
      BY <3>1 DEF BestScores
    <3>3. best[r] \in A
      BY <3>2
    <3>4. QED
      BY <3>3
  <2>2. CASE r[1] # r[2]
    <3>1. r[1] \in J
      BY <2>2, SpanParts
    <3>2. sums[r[1]] \in B
      BY <3>1
    <3>3. QED
      BY <3>2
  <2>3. QED
    BY <2>1, <2>2
<1>5. PICK T : T = A \cup B
  OBVIOUS
<1>6. Max(T) \in T /\ \A y \in T : y <= Max(T)
  BY <1>2, <1>3, <1>4, <1>5, MaxOf
<1>7. r \in DOMAIN best => best[r] \in T
  BY <1>5
<1>8. \A j \in J : m[<<r[1], j>>] + m[<<j + 1, r[2]>>] \in T
  BY <1>5
<1>9. (r \in DOMAIN best /\ Max(T) = best[r])
      \/ \E j \in J : Max(T) = m[<<r[1], j>>] + m[<<j + 1, r[2]>>]
  BY <1>5, <1>6
<1>10. Max(T) \in Int
  BY <1>3, <1>5, <1>6
<1>11. QED
  BY <1>1, <1>5, <1>6, <1>7, <1>8, <1>9, <1>10 DEF IsChosen

\* Every round fills the cells of one more length, and changes no other.
LEMMA RoundFills ==
  ASSUME NEW size \in Nat, NEW best, BestScores(size, best), NEW w \in 0 .. size - 1,
         NEW m, FilledUpTo(size, best, m, w)
  PROVE  FilledUpTo(size, best, Round(size, best, m, w + 1), w + 1)
<1>1. PICK k : k = Round(size, best, m, w + 1)
  OBVIOUS
<1>2. Shorter(size, w) \subseteq Shorter(size, w + 1) /\ DOMAIN m = Shorter(size, w)
  BY SpanParts DEF Shorter, FilledUpTo
<1>3. ASSUME NEW r \in Shorter(size, w + 1)
      PROVE  /\ r \in SpansOf(size)
             /\ \A j \in r[1] .. r[2] - 1 :
                  /\ <<r[1], j>> \in Shorter(size, w) /\ <<j + 1, r[2]>> \in Shorter(size, w)
                  /\ m[<<r[1], j>>] \in Int /\ m[<<j + 1, r[2]>>] \in Int
  <2>1. r \in SpansOf(size) /\ r[2] - r[1] < w + 1
    BY DEF Shorter
  <2>2. \A j \in r[1] .. r[2] - 1 :
          <<r[1], j>> \in Shorter(size, w) /\ <<j + 1, r[2]>> \in Shorter(size, w)
    BY <2>1, SpanParts DEF Shorter
  <2>3. QED
    BY <2>1, <2>2 DEF FilledUpTo
<1>4. \A r \in Shorter(size, w) : k[r] = m[r] /\ m[r] \in Int
  BY <1>1, <1>2 DEF Round, FilledUpTo
<1>5. ASSUME NEW r \in Shorter(size, w + 1)
      PROVE  k[r] \in Int /\ Filled(k, best, r)
  <2>1. CASE r \in Shorter(size, w)
    <3>1. Filled(m, best, r)
      BY <2>1 DEF FilledUpTo
    <3>2. \A j \in r[1] .. r[2] - 1 : k[<<r[1], j>>] = m[<<r[1], j>>]
                                      /\ k[<<j + 1, r[2]>>] = m[<<j + 1, r[2]>>]
      BY <1>3, <1>4
    <3>3. k[r] = m[r] /\ m[r] \in Int
      BY <1>4, <2>1
    <3>4. QED
      BY <3>1, <3>2, <3>3 DEF Filled
  <2>2. CASE r \notin Shorter(size, w)
    <3>1. k[r] = Max(CellChoices(m, best, r))
      BY <1>1, <1>2, <2>2 DEF Round
    <3>2. \A j \in r[1] .. r[2] - 1 : k[<<r[1], j>>] = m[<<r[1], j>>]
                                      /\ k[<<j + 1, r[2]>>] = m[<<j + 1, r[2]>>]
      BY <1>3, <1>4
    <3>3. HasParts(m, r)
      BY <1>3 DEF HasParts
    <3>4. r \in SpansOf(size)
      BY <1>3
    <3>5. IsChosen(k[r], m, best, r)
      <4>1. IsChosen(Max(CellChoices(m, best, r)), m, best, r)
        BY <3>3, <3>4, MaxOfChoices
      <4>2. QED
        BY <3>1, <4>1
    <3>6. QED
      BY <3>2, <3>5 DEF Filled, IsChosen
  <2>3. QED
    BY <2>1, <2>2
<1>6. k \in [Shorter(size, w + 1) -> Int]
  BY <1>1, <1>5 DEF Round
<1>7. QED
  BY <1>1, <1>5, <1>6 DEF FilledUpTo

\* After the last round every cell is what it has to be.
LEMMA MatrixFilled ==
  ASSUME NEW size \in Nat, NEW best, BestScores(size, best)
  PROVE  /\ FillMatrix(size, best) \in [SpansOf(size) -> Int]
         /\ \A r \in SpansOf(size) : Filled(FillMatrix(size, best), best, r)
<1> DEFINE None == [r \in {} |-> 0]
           E(f) == f = [w \in 0 .. size |-> IF w = 0 THEN None ELSE Round(size, best, f[w - 1], w)]
           Good(m, w) == FilledUpTo(size, best, m, w)
<1>1. FillRounds(size, best) = CHOOSE f : E(f)
  BY DEF FillRounds, Round, CellChoices, Shorter
<1>2. Good(None, 0)
  <2>1. Shorter(size, 0) = {}
    BY SpanParts DEF Shorter
  <2>2. QED
    BY <2>1 DEF FilledUpTo
<1>3. ASSUME NEW m, NEW w \in 0 .. size - 1, Good(m, w)
      PROVE  Good(Round(size, best, m, w + 1), w + 1)
  BY <1>3, RoundFills
<1> HIDE DEF None, Good
<1>4. ASSUME NEW f, E(f)
      PROVE  \A w \in 0 .. size : Good(f[w], w)
  <2> DEFINE P == {w \in 0 .. size : Good(f[w], w)}
  <2>1. 0 \in P
    BY <1>2, <1>4
  <2>2. ASSUME NEW w \in 0 .. size - 1, w \in P
        PROVE  w + 1 \in P
    <3>1. f[w + 1] = Round(size, best, f[w], w + 1)
      BY <1>4
    <3>2. QED
      BY <1>3, <2>2, <3>1
  <2> HIDE DEF P
  <2>3. \A w \in 0 .. size : w \in P
    BY <2>1, <2>2, FromNumber
  <2>4. QED
    BY <2>3 DEF P
<1>5. \E f : E(f)
  <2> DEFINE U == UNION {[Shorter(size, w) -> Int] : w \in 0 .. size}
             next(k, m) == IF k \in 1 .. size /\ Good(m, k - 1) THEN Round(size, best, m, k) ELSE None
  <2>1. None \in U /\ \A m, w : w \in 0 .. size /\ Good(m, w) => m \in U
    <3>1. \A m, w : w \in 0 .. size /\ Good(m, w) => m \in U
      BY DEF Good, FilledUpTo
    <3>2. QED
      BY <1>2, <3>1
  <2>2. PICK V : V = U
    OBVIOUS
  <2>3. PICK G : G = [p \in Nat \X V |-> next(p[1], p[2])]
    OBVIOUS
  <2>4. ASSUME NEW k \in Nat, NEW m \in V
        PROVE  next(k, m) \in V /\ G[<<k, m>>] = next(k, m)
    <3>1. next(k, m) \in V
      <4>1. CASE k \in 1 .. size /\ Good(m, k - 1)
        <5>1. PICK w \in 0 .. size - 1 : k = w + 1
          BY <4>1
        <5>2. Good(Round(size, best, m, k), k)
          BY <1>3, <4>1, <5>1
        <5>3. QED
          BY <2>1, <2>2, <4>1, <5>2
      <4>2. CASE ~(k \in 1 .. size /\ Good(m, k - 1))
        BY <2>1, <2>2, <4>2
      <4>3. QED
        BY <4>1, <4>2
    <3>2. <<k, m>> \in Nat \X V
      OBVIOUS
    <3>3. G[<<k, m>>] = next(k, m)
      BY <2>3, <3>2
    <3>4. QED
      BY <3>1, <3>3
  <2>5. G \in [Nat \X V -> V]
    <3>1. \A p \in Nat \X V : next(p[1], p[2]) \in V
      BY <2>4
    <3>2. QED
      BY <2>3, <3>1
  <2>6. PICK f \in [0 .. size -> V] : BySteps(f, 0, size, None, G)
    <3>1. None \in V /\ 0 <= size /\ 0 \in Nat
      BY <2>1, <2>2
    <3>2. QED
      BY <2>5, <3>1, FunctionOnNumbers
  <2>7. f[0] = None /\ \A w \in 0 .. size - 1 : f[w + 1] = next(w + 1, f[w])
    <3>1. f[0] = None
      <4>1. 0 \in 0 .. size
        OBVIOUS
      <4>2. f[0] = IF 0 = 0 THEN None ELSE G[<<0, f[0 - 1]>>]
        BY <2>6, <4>1 DEF BySteps
      <4>3. QED
        BY <4>2
    <3>2. ASSUME NEW w \in 0 .. size - 1
          PROVE  f[w + 1] = next(w + 1, f[w])
      <4>1. w + 1 \in 0 .. size /\ w + 1 # 0 /\ w + 1 - 1 = w /\ w + 1 \in Nat /\ f[w] \in V
        OBVIOUS
      <4>2. f[w + 1] = G[<<w + 1, f[w]>>]
        BY <2>6, <4>1 DEF BySteps
      <4>3. QED
        BY <2>4, <4>1, <4>2
    <3>3. QED
      BY <3>1, <3>2
  <2> DEFINE P == {w \in 0 .. size : Good(f[w], w)}
  <2>8. 0 \in P
    BY <1>2, <2>7
  <2>9. ASSUME NEW w \in 0 .. size - 1, w \in P
        PROVE  w + 1 \in P
    <3>1. f[w + 1] = Round(size, best, f[w], w + 1)
      BY <2>7, <2>9
    <3>2. QED
      BY <1>3, <2>9, <3>1
  <2>10. \A w \in 0 .. size : w \in P
    <3> HIDE DEF P
    <3>1. QED
      BY <2>8, <2>9, FromNumber
  <2>11. \A w \in 0 .. size : f[w] = IF w = 0 THEN None ELSE Round(size, best, f[w - 1], w)
    <3>1. SUFFICES ASSUME NEW w \in 1 .. size
                   PROVE  f[w] = Round(size, best, f[w - 1], w)
      BY <2>7
    <3>2. w - 1 \in 0 .. size - 1 /\ w - 1 + 1 = w
      OBVIOUS
    <3>3. Good(f[w - 1], w - 1)
      BY <2>10, <3>2
    <3>4. f[w] = next(w, f[w - 1])
      BY <2>7, <3>2
    <3>5. QED
      BY <3>3, <3>4
  <2>12. E(f)
    BY <2>11
  <2>13. QED
    BY <2>12
<1>6. E(FillRounds(size, best))
  BY <1>1, <1>5
<1>7. Good(FillMatrix(size, best), size)
  BY <1>4, <1>6 DEF FillMatrix
<1>8. Shorter(size, size) = SpansOf(size)
  BY SpanParts DEF Shorter
<1>9. QED
  BY <1>7, <1>8 DEF Good, FilledUpTo

------------------------------------------------------------------------------
(****************************************************************************)
(* A filled matrix has the scores of the best tilings.                      *)
(****************************************************************************)

\* The tilings of a gap with some spans.
Tiled(T, first, last) ==
  \A p \in first .. last : \E r \in T :
    p \in r[1] .. r[2] /\ \A q \in T : p \in q[1] .. q[2] => q = r

TilingsWith(K, first, last) ==
  {T \in SUBSET {r \in K : first <= r[1] /\ r[2] <= last} : Tiled(T, first, last)}

\* The phrase at the beginning of a tiling leaves a tiling of the rest.
LEMMA FirstOfTiling ==
  ASSUME NEW size \in Nat, NEW K, K \subseteq SpansOf(size), NEW r \in SpansOf(size),
         NEW T \in TilingsWith(K, r[1], r[2])
  PROVE  \E q \in T :
           /\ q \in K /\ q[1] = r[1] /\ q[2] \in r[1] .. r[2]
           /\ q[2] = r[2] => T = {q} /\ q = r
           /\ q[2] < r[2] => T \ {q} \in TilingsWith(K, q[2] + 1, r[2])
<1>1. r[1] \in Int /\ r[2] \in Int /\ r[1] <= r[2]
  BY SpanParts
<1>2. ASSUME NEW t \in T
      PROVE  /\ t \in K /\ t = <<t[1], t[2]>> /\ t[1] \in Int /\ t[2] \in Int
             /\ r[1] <= t[1] /\ t[1] <= t[2] /\ t[2] <= r[2]
  <2>1. t \in K /\ r[1] <= t[1] /\ t[2] <= r[2]
    BY DEF TilingsWith
  <2>2. QED
    BY <2>1, SpanParts
<1>3. Tiled(T, r[1], r[2])
  BY DEF TilingsWith
<1>4. PICK q \in T : r[1] \in q[1] .. q[2] /\ \A t \in T : r[1] \in t[1] .. t[2] => t = q
  BY <1>1, <1>3 DEF Tiled
<1>5. q \in K /\ q[1] = r[1] /\ q[2] \in r[1] .. r[2]
  BY <1>1, <1>2, <1>4
<1>6. ASSUME NEW t \in T, t # q
      PROVE  q[2] < t[1]
  <2>1. SUFFICES ASSUME t[1] <= q[2]
                 PROVE  FALSE
    BY <1>2, <1>5
  <2>2. t[1] \in r[1] .. r[2] /\ t[1] \in q[1] .. q[2] /\ t[1] \in t[1] .. t[2]
    BY <1>1, <1>2, <1>5, <2>1
  <2>3. QED
    BY <1>3, <1>6, <2>2 DEF Tiled
<1>7. ASSUME q[2] = r[2]
      PROVE  T = {q} /\ q = r
  <2>1. \A t \in T : t = q
    BY <1>1, <1>2, <1>6, <1>7
  <2>2. q = r
    BY <1>2, <1>5, <1>7, SpanParts
  <2>3. QED
    BY <2>1, <2>2
<1>8. ASSUME q[2] < r[2]
      PROVE  T \ {q} \in TilingsWith(K, q[2] + 1, r[2])
  <2>1. \A t \in T \ {q} : t \in K /\ q[2] + 1 <= t[1] /\ t[2] <= r[2]
    BY <1>2, <1>5, <1>6
  <2>2. ASSUME NEW p \in q[2] + 1 .. r[2]
        PROVE  \E t \in T \ {q} :
                 p \in t[1] .. t[2] /\ \A u \in T \ {q} : p \in u[1] .. u[2] => u = t
    <3>1. p \in r[1] .. r[2] /\ p \notin q[1] .. q[2]
      BY <1>1, <1>5
    <3>2. PICK t \in T : p \in t[1] .. t[2] /\ \A u \in T : p \in u[1] .. u[2] => u = t
      BY <1>3, <3>1 DEF Tiled
    <3>3. QED
      BY <3>1, <3>2
  <2>3. QED
    BY <2>1, <2>2 DEF TilingsWith, Tiled
<1>9. QED
  BY <1>5, <1>7, <1>8

\* Two tilings that meet are one.
LEMMA TilingsMeet ==
  ASSUME NEW size \in Nat, NEW K, K \subseteq SpansOf(size), NEW r \in SpansOf(size),
         NEW j \in r[1] .. r[2] - 1,
         NEW A \in TilingsWith(K, r[1], j), NEW B \in TilingsWith(K, j + 1, r[2])
  PROVE  A \cup B \in TilingsWith(K, r[1], r[2]) /\ A \cap B = {}
<1>1. r[1] \in Int /\ r[2] \in Int /\ j \in Int /\ r[1] <= j /\ j < r[2]
  BY SpanParts
<1>2. \A t \in A : t \in K /\ t[1] \in Int /\ t[2] \in Int /\ r[1] <= t[1] /\ t[1] <= t[2] /\ t[2] <= j
  BY SpanParts DEF TilingsWith
<1>3. \A t \in B : t \in K /\ t[1] \in Int /\ t[2] \in Int /\ j + 1 <= t[1] /\ t[1] <= t[2] /\ t[2] <= r[2]
  BY SpanParts DEF TilingsWith
<1>4. \A t \in A \cup B : t \in K /\ r[1] <= t[1] /\ t[2] <= r[2]
  BY <1>1, <1>2, <1>3
<1>5. ASSUME NEW p \in r[1] .. r[2]
      PROVE  \E t \in A \cup B :
               p \in t[1] .. t[2] /\ \A u \in A \cup B : p \in u[1] .. u[2] => u = t
  <2>1. CASE p <= j
    <3>1. PICK t \in A : p \in t[1] .. t[2] /\ \A u \in A : p \in u[1] .. u[2] => u = t
      BY <1>1, <2>1 DEF TilingsWith, Tiled
    <3>2. \A u \in B : p \notin u[1] .. u[2]
      BY <1>1, <1>3, <2>1
    <3>3. QED
      BY <3>1, <3>2
  <2>2. CASE p > j
    <3>1. p \in j + 1 .. r[2]
      BY <1>1, <2>2
    <3>2. PICK t \in B : p \in t[1] .. t[2] /\ \A u \in B : p \in u[1] .. u[2] => u = t
      BY <3>1 DEF TilingsWith, Tiled
    <3>3. \A u \in A : p \notin u[1] .. u[2]
      BY <1>1, <1>2, <2>2
    <3>4. QED
      BY <3>2, <3>3
  <2>3. QED
    BY <1>1, <2>1, <2>2
<1>6. A \cap B = {}
  <2>1. SUFFICES ASSUME NEW t \in A, t \in B
                 PROVE  FALSE
    OBVIOUS
  <2>2. QED
    BY <1>1, <1>2, <1>3, <2>1
<1>7. QED
  BY <1>4, <1>5, <1>6 DEF TilingsWith, Tiled

\* A matrix all whose cells are what they have to be.
AllFilled(M, size, best) ==
  M \in [SpansOf(size) -> Int] /\ \A r \in SpansOf(size) : Filled(M, best, r)

\* The scores that the tilings of a gap have, and their best.
TilingScores(best, r) == {Total(best, T) : T \in TilingsWith(DOMAIN best, r[1], r[2])}

IsBest(M, best, r) == M[r] \in TilingScores(best, r) /\ \A x \in TilingScores(best, r) : x <= M[r]

\* The scores of a tiling add up to a number.
LEMMA TilingTotal ==
  ASSUME NEW size \in Nat, NEW best, BestScores(size, best), NEW T, T \subseteq DOMAIN best
  PROVE  IsFiniteSet(T) /\ (\A x \in T : best[x] \in Int) /\ Total(best, T) \in Int
<1>1. IsFiniteSet(T) /\ \A x \in T : best[x] \in Int
  BY SpansFinite, FS_Subset DEF BestScores
<1>2. QED
  BY <1>1, TotalInt

\* A cell is the best tiling if the cells of all shorter spans are.
LEMMA CellIsBest ==
  ASSUME NEW size \in Nat, NEW best, BestScores(size, best), NEW M, AllFilled(M, size, best),
         NEW r \in SpansOf(size),
         \A q \in SpansOf(size) : q[2] - q[1] < r[2] - r[1] => IsBest(M, best, q)
  PROVE  IsBest(M, best, r)
<1> DEFINE K == DOMAIN best
<1>1. K \subseteq SpansOf(size)
  BY DEF BestScores
<1>2. Filled(M, best, r) /\ \A q \in SpansOf(size) : M[q] \in Int
  BY DEF AllFilled
<1>3. r[1] \in Int /\ r[2] \in Int /\ r[1] <= r[2] /\ r = <<r[1], r[2]>>
  BY SpanParts
<1>4. ASSUME NEW T \in TilingsWith(K, r[1], r[2])
      PROVE  Total(best, T) <= M[r]
  <2>1. T \subseteq K
    BY DEF TilingsWith
  <2>2. PICK q \in T :
           /\ q \in K /\ q[1] = r[1] /\ q[2] \in r[1] .. r[2]
           /\ q[2] = r[2] => T = {q} /\ q = r
           /\ q[2] < r[2] => T \ {q} \in TilingsWith(K, q[2] + 1, r[2])
    BY <1>1, FirstOfTiling
  <2>3. Total(best, T) = best[q] + Total(best, T \ {q})
    BY <2>1, TilingTotal, TotalRemove
  <2>4. best[q] \in Int /\ q \in SpansOf(size)
    BY <1>1, <2>2 DEF BestScores
  <2>5. CASE q[2] = r[2]
    <3>1. q = r /\ T \ {q} = {}
      BY <2>2, <2>5
    <3>2. Total(best, T) = best[r]
      BY <2>3, <2>4, <3>1, TotalEmpty
    <3>3. QED
      BY <1>2, <2>2, <3>1, <3>2 DEF Filled
  <2>6. CASE q[2] < r[2]
    <3>1. q[2] \in r[1] .. r[2] - 1 /\ q[2] \in Int
      BY <1>3, <2>2, <2>6
    <3>2. PICK u : u = <<q[2] + 1, r[2]>>
      OBVIOUS
    <3>3. u \in SpansOf(size) /\ u[1] = q[2] + 1 /\ u[2] = r[2] /\ u[2] - u[1] < r[2] - r[1]
      BY <1>3, <3>1, <3>2, SpanParts
    <3>4. Total(best, T \ {q}) <= M[u]
      <4>1. Total(best, T \ {q}) \in TilingScores(best, u)
        BY <2>2, <2>6, <3>3 DEF TilingScores
      <4>2. QED
        BY <3>3, <4>1 DEF IsBest
    <3>5. q = <<r[1], q[2]>>
      BY <2>2, <2>4, SpanParts
    <3>6. best[q] <= M[q]
      <4>1. Filled(M, best, q)
        BY <2>4 DEF AllFilled
      <4>2. QED
        BY <2>2, <4>1 DEF Filled
    <3>7. M[q] + M[u] <= M[r]
      BY <1>2, <3>1, <3>2, <3>5 DEF Filled
    <3>8. M[q] \in Int /\ M[u] \in Int /\ M[r] \in Int /\ Total(best, T \ {q}) \in Int
      BY <1>2, <2>1, <2>4, <3>3, TilingTotal
    <3>9. QED
      BY <2>3, <2>4, <3>4, <3>6, <3>7, <3>8
  <2>7. QED
    BY <1>3, <2>2, <2>5, <2>6
<1>5. \E T \in TilingsWith(K, r[1], r[2]) : M[r] = Total(best, T)
  <2>1. CASE r \in K /\ M[r] = best[r]
    <3>1. {r} \in TilingsWith(K, r[1], r[2])
      BY <1>3, <2>1 DEF TilingsWith, Tiled
    <3>2. {r} \subseteq K /\ {r} \ {r} = {} /\ best[r] \in Int
      BY <2>1 DEF BestScores
    <3>3. Total(best, {r}) = best[r] + Total(best, {r} \ {r})
      BY <3>2, TilingTotal, TotalRemove
    <3>4. Total(best, {r} \ {r}) = 0
      <4>1. PICK e : e = {r} \ {r} /\ e = {}
        BY <3>2
      <4>2. Total(best, e) = 0
        BY <4>1, TotalEmpty
      <4>3. QED
        BY <4>1, <4>2
    <3>5. QED
      BY <2>1, <3>1, <3>2, <3>3, <3>4
  <2>2. ASSUME NEW j \in r[1] .. r[2] - 1, M[r] = M[<<r[1], j>>] + M[<<j + 1, r[2]>>]
        PROVE  \E T \in TilingsWith(K, r[1], r[2]) : M[r] = Total(best, T)
    <3>1. PICK a, b : a = <<r[1], j>> /\ b = <<j + 1, r[2]>>
      OBVIOUS
    <3>2. /\ a \in SpansOf(size) /\ a[1] = r[1] /\ a[2] = j /\ a[2] - a[1] < r[2] - r[1]
          /\ b \in SpansOf(size) /\ b[1] = j + 1 /\ b[2] = r[2] /\ b[2] - b[1] < r[2] - r[1]
      BY <1>3, <3>1, SpanParts
    <3>3. PICK A \in TilingsWith(K, r[1], j) : M[a] = Total(best, A)
      BY <3>2 DEF IsBest, TilingScores
    <3>4. PICK B \in TilingsWith(K, j + 1, r[2]) : M[b] = Total(best, B)
      BY <3>2 DEF IsBest, TilingScores
    <3>5. A \cup B \in TilingsWith(K, r[1], r[2]) /\ A \cap B = {}
      BY <1>1, TilingsMeet
    <3>6. A \cup B \subseteq K
      BY <3>5 DEF TilingsWith
    <3>7. Total(best, A \cup B) = Total(best, A) + Total(best, B)
      BY <3>5, <3>6, TilingTotal, TotalUnion
    <3>8. QED
      BY <2>2, <3>1, <3>3, <3>4, <3>5, <3>7
  <2>3. QED
    BY <1>2, <2>1, <2>2 DEF Filled
<1>6. QED
  BY <1>4, <1>5 DEF IsBest, TilingScores

\* Hence all of them are.
LEMMA MatrixIsBest ==
  ASSUME NEW size \in Nat, NEW best, BestScores(size, best), NEW M, AllFilled(M, size, best)
  PROVE  \A r \in SpansOf(size) : IsBest(M, best, r)
<1> DEFINE W == {r[2] - r[1] : r \in {q \in SpansOf(size) : ~IsBest(M, best, q)}}
<1>1. SUFFICES ASSUME W # {}
               PROVE  FALSE
  OBVIOUS
<1>2. W \subseteq Nat
  BY SpanParts
<1>3. PICK w \in W : \A v \in W : w <= v
  BY <1>1, <1>2, LeastNatural
<1>4. PICK r \in SpansOf(size) : ~IsBest(M, best, r) /\ w = r[2] - r[1]
  BY <1>3
<1>5. ASSUME NEW q \in SpansOf(size), q[2] - q[1] < r[2] - r[1]
      PROVE  IsBest(M, best, q)
  <2>1. SUFFICES ASSUME ~IsBest(M, best, q)
                 PROVE  FALSE
    OBVIOUS
  <2>2. q[2] - q[1] \in W
    BY <2>1
  <2>3. w <= q[2] - q[1]
    BY <1>3, <2>2
  <2>4. r[1] \in Int /\ r[2] \in Int /\ q[1] \in Int /\ q[2] \in Int
    BY SpanParts
  <2>5. QED
    BY <1>4, <1>5, <2>3, <2>4
<1>6. QED
  BY <1>4, <1>5, CellIsBest

------------------------------------------------------------------------------
(****************************************************************************)
(* The future cost of a bitmap and a span.                                  *)
(****************************************************************************)

\* The last position that is covered.
LEMMA LastCoveredIs ==
  ASSUME NEW size \in Nat, NEW b \in SUBSET (0 .. size - 1), NEW q \in SpansOf(size)
  PROVE  /\ LastCovered(b, q[2]) \in b \cup (q[1] .. q[2])
         /\ \A x \in b \cup (q[1] .. q[2]) : x <= LastCovered(b, q[2])
<1>1. q[1] \in Int /\ q[2] \in Int /\ q[1] <= q[2]
  BY SpanParts
<1>2. CASE b = {}
  BY <1>1, <1>2 DEF LastCovered
<1>3. CASE b # {}
  <2>1. IsFiniteSet(b) /\ b \subseteq Int
    <3>1. IsFiniteSet(0 .. size - 1)
      BY FS_Interval
    <3>2. IsFiniteSet(b)
      BY <3>1, FS_Subset
    <3>3. 0 .. size - 1 \subseteq Int
      OBVIOUS
    <3>4. QED
      BY <3>2, <3>3
  <2>2. Max(b) \in b /\ \A x \in b : x <= Max(b)
    BY <1>3, <2>1, MaxOf
  <2>3. PICK S : S = {Max(b), q[2]}
    OBVIOUS
  <2>4. IsFiniteSet(S) /\ S \subseteq Int /\ S # {}
    <3>1. IsFiniteSet({Max(b)}) /\ IsFiniteSet({q[2]}) /\ S = {Max(b)} \cup {q[2]}
      BY <2>3, FS_Singleton
    <3>2. IsFiniteSet(S)
      BY <3>1, FS_Union
    <3>3. QED
      BY <1>1, <2>1, <2>2, <2>3, <3>2
  <2>5. Max(S) \in S /\ \A x \in S : x <= Max(S)
    BY <2>4, MaxOf
  <2>6. LastCovered(b, q[2]) = Max(S)
    BY <1>3, <2>3 DEF LastCovered
  <2>7. Max(S) \in b \cup (q[1] .. q[2])
    BY <1>1, <2>2, <2>3, <2>5
  <2>8. Max(b) <= Max(S) /\ q[2] <= Max(S) /\ Max(S) \in Int
    BY <2>3, <2>4, <2>5
  <2>9. ASSUME NEW x \in b \cup (q[1] .. q[2])
        PROVE  x <= Max(S)
    <3>1. CASE x \in b
      <4>1. x \in Int /\ Max(b) \in Int /\ x <= Max(b)
        BY <2>1, <2>2, <3>1
      <4>2. QED
        BY <2>8, <4>1
    <3>2. CASE x \in q[1] .. q[2]
      BY <1>1, <2>8, <3>2
    <3>3. QED
      BY <3>1, <3>2
  <2>10. QED
    BY <2>6, <2>7, <2>9
<1>4. QED
  BY <1>2, <1>3

RunsFinite(size, b) == OpenRuns(size, b) \subseteq SpansOf(size) /\ IsFiniteSet(OpenRuns(size, b))

\* There are finitely many runs.
LEMMA RunsAreFinite ==
  ASSUME NEW size \in Nat, NEW b
  PROVE  RunsFinite(size, b)
BY SpansFinite, FS_Subset DEF RunsFinite, OpenRuns

\* Both readings of the matrix agree on a bitmap with a span.
LEMMA FutureOfSpan ==
  ASSUME NEW size \in Nat, NEW M \in [SpansOf(size) -> Int],
         NEW b \in SUBSET (0 .. size - 1),
         NEW q \in SpansOf(size), (q[1] .. q[2]) \cap b = {}
  PROVE  CalcFutureScoreWith(M, size, b, q[1], q[2])
           = CalcFutureScore(M, size, b \cup (q[1] .. q[2]))
<1> DEFINE c == b \cup (q[1] .. q[2])
           gaps == (0 .. size - 1) \ b
           first == IF q[1] = Min(gaps) THEN q[2] + 1 ELSE Min(gaps)
           last == LastCovered(b, q[2])
           runs == {r \in OpenRuns(size, c) : first <= r[1] /\ r[2] < last}
           tail == <<last + 1, size - 1>>
<1>1. q[1] \in Int /\ q[2] \in Int /\ 0 <= q[1] /\ q[1] <= q[2] /\ q[2] <= size - 1
  BY SpanParts
<1>2. gaps \subseteq Nat /\ q[1] \in gaps
  BY <1>1
<1>3. Min(gaps) \in gaps /\ \A x \in gaps : Min(gaps) <= x
  <2> HIDE DEF gaps
  <2>1. QED
    BY <1>2, MinOf
<1>4. c \subseteq 0 .. size - 1 /\ last \in c /\ \A x \in c : x <= last
  <2>1. last \in c /\ \A x \in c : x <= last
    BY LastCoveredIs
  <2>2. q[1] .. q[2] \subseteq 0 .. size - 1
    BY <1>1
  <2>3. QED
    BY <2>1, <2>2
<1>5. last \in Int /\ 0 <= last /\ last <= size - 1
  BY <1>4
<1>6. ASSUME NEW r \in OpenRuns(size, c)
      PROVE  /\ r \in SpansOf(size) /\ r = <<r[1], r[2]>> /\ r[1] \in Int /\ r[2] \in Int
             /\ first <= r[1] /\ (r[2] < last \/ r = tail)
             /\ r[1] <= r[2] /\ r[2] <= size - 1
  <2>1. r \in SpansOf(size) /\ (r[1] .. r[2]) \cap c = {}
        /\ (r[1] = 0 \/ r[1] - 1 \in c) /\ (r[2] = size - 1 \/ r[2] + 1 \in c)
    BY DEF OpenRuns
  <2>2. r = <<r[1], r[2]>> /\ r[1] \in Int /\ r[2] \in Int /\ 0 <= r[1] /\ r[1] <= r[2] /\ r[2] <= size - 1
    BY <2>1, SpanParts
  <2>3. r[1] \in gaps /\ r[1] \notin q[1] .. q[2]
    BY <2>1, <2>2
  <2>4. first <= r[1]
    <3>1. Min(gaps) <= r[1]
      BY <1>3, <2>3
    <3>2. CASE q[1] = Min(gaps)
      BY <1>1, <2>2, <2>3, <3>1, <3>2
    <3>3. QED
      BY <3>1, <3>2
  <2>5. last \notin r[1] .. r[2]
    BY <1>4, <2>1
  <2>6. CASE r[1] > last
    <3>1. r[1] - 1 \in c
      BY <1>5, <2>1, <2>6
    <3>2. r[1] - 1 <= last
      BY <1>4, <3>1
    <3>3. r[1] = last + 1
      BY <1>5, <2>2, <2>6, <3>2
    <3>4. r[2] + 1 \notin c
      BY <1>4, <1>5, <2>2, <2>6
    <3>5. r[2] = size - 1
      BY <2>1, <3>4
    <3>6. QED
      BY <2>1, <2>2, <2>4, <3>3, <3>5
  <2>7. CASE r[1] <= last
    BY <1>5, <2>1, <2>2, <2>4, <2>5, <2>7
  <2>8. QED
    BY <1>5, <2>2, <2>6, <2>7
<1>7. IsFiniteSet(OpenRuns(size, c)) /\ OpenRuns(size, c) \subseteq SpansOf(size)
  BY RunsAreFinite DEF RunsFinite
<1>8. CalcFutureScoreWith(M, size, b, q[1], q[2])
        = Total(M, runs) + (IF last = size - 1 THEN 0 ELSE M[tail])
  <2>1. gaps # {}
    BY <1>2
  <2>2. QED
    BY <2>1 DEF CalcFutureScoreWith
<1>9. CalcFutureScore(M, size, c) = Total(M, OpenRuns(size, c))
  BY DEF CalcFutureScore
<1>10. CASE last = size - 1
  <2>1. runs = OpenRuns(size, c)
    <3>1. ASSUME NEW r \in OpenRuns(size, c)
          PROVE  r \in runs
      <4>1. r # tail
        <5>1. r[1] \in Int /\ r[2] \in Int /\ r[1] <= r[2]
          BY <1>6
        <5>2. tail[1] = size - 1 + 1 /\ tail[2] = size - 1
          BY <1>10
        <5>3. QED
          BY <5>1, <5>2
      <4>2. QED
        BY <1>6, <4>1
    <3>2. QED
      BY <3>1
  <2>2. Total(M, runs) \in Int
    BY <1>7, <2>1, TotalInt
  <2>3. PICK x : x = Total(M, runs)
    OBVIOUS
  <2>4. CalcFutureScoreWith(M, size, b, q[1], q[2]) = x + 0
    BY <1>8, <1>10, <2>3
  <2>5. CalcFutureScore(M, size, c) = x
    BY <1>9, <2>1, <2>3
  <2>6. QED
    BY <2>2, <2>3, <2>4, <2>5
<1>11. CASE last # size - 1
  <2>1. tail \in OpenRuns(size, c)
    <3>1. tail \in SpansOf(size) /\ tail[1] = last + 1 /\ tail[2] = size - 1
      BY <1>5, <1>11 DEF SpansOf
    <3>2. (tail[1] .. tail[2]) \cap c = {}
      BY <1>4, <1>5, <3>1
    <3>3. tail[1] - 1 \in c
      BY <1>4, <1>5, <3>1
    <3>4. QED
      BY <3>1, <3>2, <3>3 DEF OpenRuns
  <2>2. runs = OpenRuns(size, c) \ {tail}
    <3>1. tail \notin runs
      BY <1>5
    <3>2. QED
      BY <1>6, <3>1
  <2>3. Total(M, OpenRuns(size, c)) = M[tail] + Total(M, OpenRuns(size, c) \ {tail})
    BY <1>7, <2>1, TotalRemove
  <2>4. Total(M, runs) \in Int /\ M[tail] \in Int
    <3>1. IsFiniteSet(runs) /\ runs \subseteq SpansOf(size)
      BY <1>7, FS_Subset
    <3>2. Total(M, runs) \in Int
      <4> HIDE DEF runs
      <4>1. QED
        BY <3>1, TotalInt
    <3>3. QED
      BY <1>7, <2>1, <3>2
  <2>5. PICK x, y : x = Total(M, runs) /\ y = M[tail]
    OBVIOUS
  <2>6. CalcFutureScoreWith(M, size, b, q[1], q[2]) = x + y
    BY <1>8, <1>11, <2>5
  <2>7. CalcFutureScore(M, size, c) = y + x
    BY <1>9, <2>2, <2>3, <2>5
  <2>8. QED
    BY <2>4, <2>5, <2>6, <2>7
<1>12. QED
  BY <1>10, <1>11

------------------------------------------------------------------------------
(****************************************************************************)
(* What the matrix says of a bitmap.                                        *)
(****************************************************************************)
LEMMA MaxIs ==
  ASSUME NEW T, T \subseteq Int, NEW x \in T, \A y \in T : y <= x
  PROVE  Max(T) = x
<1>1. x \in T /\ \A y \in T : x >= y
  OBVIOUS
<1>2. \E z \in T : \A y \in T : z >= y
  BY <1>1
<1>3. Max(T) = CHOOSE z \in T : \A y \in T : z >= y
  BY DEF Max
<1>4. Max(T) \in T /\ \A y \in T : Max(T) >= y
  BY <1>2, <1>3
<1>5. Max(T) >= x /\ x >= Max(T) /\ x \in Int /\ Max(T) \in Int
  BY <1>1, <1>4
<1>6. QED
  BY <1>5

\* What CalcFutureScore finds in a cell.
LEMMA CellsAreTilings ==
  ASSUME NEW size \in Nat, NEW best, BestScores(size, best),
         NEW M, M = FillMatrix(size, best), NEW r \in SpansOf(size)
  PROVE  M[r] \in Int /\ M[r] = Max(TilingScores(best, r))
<1>1. AllFilled(M, size, best)
  BY MatrixFilled DEF AllFilled
<1>2. M[r] \in Int
  BY <1>1 DEF AllFilled
<1>3. IsBest(M, best, r)
  BY <1>1, MatrixIsBest
<1>4. \A T \in TilingsWith(DOMAIN best, r[1], r[2]) : Total(best, T) \in Int
  BY TilingTotal DEF TilingsWith
<1>5. TilingScores(best, r) \subseteq Int
  BY <1>4 DEF TilingScores
<1>6. PICK x : x = M[r]
  OBVIOUS
<1>7. Max(TilingScores(best, r)) = x
  BY <1>3, <1>5, <1>6, MaxIs DEF IsBest
<1>8. QED
  BY <1>2, <1>6, <1>7

\* The table of future costs has the costs of the best tilings.
LEMMA FutureOfTilings ==
  ASSUME NEW size \in Nat, NEW best, BestScores(size, best), NEW M, M = FillMatrix(size, best),
         NEW tiling, tiling = [r \in SpansOf(size) |-> Max(TilingScores(best, r))],
         NEW b \in SUBSET (0 .. size - 1)
  PROVE  /\ CalcFutureScore(M, size, b) = Total(tiling, OpenRuns(size, b))
         /\ \A q \in {r \in SpansOf(size) : (r[1] .. r[2]) \cap b = {}} :
              CalcFutureScoreWith(M, size, b, q[1], q[2])
                = CalcFutureScore(M, size, b \cup (q[1] .. q[2]))
<1>1. PICK runs : runs = OpenRuns(size, b)
  OBVIOUS
<1>2. runs \subseteq SpansOf(size) /\ IsFiniteSet(runs)
  BY <1>1, RunsAreFinite DEF RunsFinite
<1>3. \A r \in runs : M[r] \in Int /\ M[r] = tiling[r]
  BY <1>2, CellsAreTilings
<1>4. Total(M, runs) = Total(tiling, runs)
  BY <1>2, <1>3, TotalAgree
<1>5. CalcFutureScore(M, size, b) = Total(tiling, OpenRuns(size, b))
  BY <1>1, <1>4 DEF CalcFutureScore
<1>6. M \in [SpansOf(size) -> Int]
  BY MatrixFilled
<1>7. QED
  BY <1>5, <1>6, FutureOfSpan

------------------------------------------------------------------------------
(****************************************************************************)
(* Ranks: the places in a sorted list and the order of some positions.      *)
(****************************************************************************)

\* What is not above an element, in a linear order.
Ranked(below, I) ==
  \A i \in I :
    /\ i \in below[i] /\ below[i] \subseteq I
    /\ \A j \in I : \/ i = j
                    \/ below[i] \subseteq below[j] /\ j \notin below[i]
                    \/ below[j] \subseteq below[i] /\ i \notin below[j]

RanksRight(below, I) ==
  /\ Cardinality(I) \in Nat
  /\ \A i \in I : Cardinality(below[i]) \in 1 .. Cardinality(I)
  /\ \A i, j \in I : Cardinality(below[i]) = Cardinality(below[j]) => i = j
  /\ \A k \in 1 .. Cardinality(I) : \E i \in I : Cardinality(below[i]) = k

\* Every rank is that of one element.
LEMMA RanksOf ==
  ASSUME NEW I, IsFiniteSet(I), NEW below, Ranked(below, I)
  PROVE  RanksRight(below, I)
<1>1. PICK N : N = Cardinality(I) /\ N \in Nat
  BY FS_CardinalityType
<1>2. ASSUME NEW i \in I
      PROVE  IsFiniteSet(below[i]) /\ Cardinality(below[i]) \in 1 .. N
  <2>1. below[i] \in SUBSET I /\ below[i] # {}
    BY DEF Ranked
  <2>2. IsFiniteSet(below[i]) /\ Cardinality(below[i]) <= N
    BY <1>1, <2>1, FS_Subset
  <2>3. Cardinality(below[i]) \in Nat /\ Cardinality(below[i]) # 0
    BY <2>1, <2>2, FS_CardinalityType, FS_EmptySet
  <2>4. QED
    BY <1>1, <2>2, <2>3
<1>3. ASSUME NEW i \in I, NEW j \in I, below[i] \subseteq below[j], j \notin below[i]
      PROVE  Cardinality(below[i]) # Cardinality(below[j])
  <2>1. j \in below[j]
    BY DEF Ranked
  <2>2. below[i] # below[j]
    BY <1>3, <2>1
  <2>3. QED
    BY <1>2, <1>3, <2>2, FS_Subset
<1>4. ASSUME NEW i \in I, NEW j \in I, Cardinality(below[i]) = Cardinality(below[j])
      PROVE  i = j
  BY <1>3, <1>4 DEF Ranked
<1>5. PICK f : f = [i \in I |-> Cardinality(below[i])]
  OBVIOUS
<1>6. f \in Injection(I, 1 .. N)
  <2>1. f \in [I -> 1 .. N]
    BY <1>2, <1>5
  <2>2. \A i, j \in I : f[i] = f[j] => i = j
    BY <1>4, <1>5
  <2>3. QED
    BY <2>1, <2>2 DEF Injection, IsInjective
<1>7. IsFiniteSet(1 .. N) /\ Cardinality(1 .. N) = N
  BY <1>1, FS_Interval
<1>8. f \in Surjection(I, 1 .. N)
  BY <1>1, <1>6, <1>7, FS_Injection
<1>9. \A k \in 1 .. N : \E i \in I : Cardinality(below[i]) = k
  BY <1>5, <1>8 DEF Surjection
<1>10. QED
  BY <1>1, <1>2, <1>4, <1>9 DEF RanksRight

\* The n-th of some numbers is one of them, and each is the n-th for some n.
LEMMA NthOf ==
  ASSUME NEW I, IsFiniteSet(I), I \subseteq Nat
  PROVE  /\ Cardinality(I) \in Nat
         /\ \A k \in 1 .. Cardinality(I) : Nth(I, k) \in I
         /\ \A i \in I : \E k \in 1 .. Cardinality(I) : Nth(I, k) = i
<1>1. PICK below : below = [i \in I |-> {j \in I : j <= i}]
  OBVIOUS
<1>2. Ranked(below, I)
  <2>1. ASSUME NEW i \in I
        PROVE  i \in below[i] /\ below[i] \subseteq I
    BY <1>1
  <2>2. ASSUME NEW i \in I, NEW j \in I, i < j
        PROVE  below[i] \subseteq below[j] /\ j \notin below[i]
    <3>1. i \in Nat /\ j \in Nat /\ below[i] = {x \in I : x <= i} /\ below[j] = {x \in I : x <= j}
      BY <1>1
    <3>2. \A x \in I : x \in Nat /\ (x <= i => x <= j)
      BY <2>2, <3>1
    <3>3. ~(j <= i)
      BY <2>2, <3>1
    <3>4. QED
      BY <3>1, <3>2, <3>3
  <2>3. \A i, j \in I : i = j \/ i < j \/ j < i
    OBVIOUS
  <2>4. QED
    BY <2>1, <2>2, <2>3 DEF Ranked
<1>3. /\ Cardinality(I) \in Nat
      /\ \A i \in I : Cardinality(below[i]) \in 1 .. Cardinality(I)
      /\ \A i, j \in I : Cardinality(below[i]) = Cardinality(below[j]) => i = j
      /\ \A k \in 1 .. Cardinality(I) : \E i \in I : Cardinality(below[i]) = k
  <2>1. RanksRight(below, I)
    BY <1>2, RanksOf
  <2>2. QED
    BY <2>1 DEF RanksRight
<1>4. ASSUME NEW k \in 1 .. Cardinality(I)
      PROVE  Nth(I, k) \in I /\ Cardinality(below[Nth(I, k)]) = k
  <2>1. \E i \in I : Cardinality({j \in I : j <= i}) = k
    BY <1>1, <1>3
  <2>2. Nth(I, k) \in I /\ Cardinality({j \in I : j <= Nth(I, k)}) = k
    BY <2>1 DEF Nth
  <2>3. QED
    BY <1>1, <2>2
<1>5. ASSUME NEW i \in I
      PROVE  \E k \in 1 .. Cardinality(I) : Nth(I, k) = i
  BY <1>3, <1>4
<1>6. QED
  BY <1>3, <1>4, <1>5

\* A list that some positions of a list stay of.
LEMMA StayOf ==
  ASSUME NEW O, NEW list \in Seq(O), NEW I \in SUBSET (DOMAIN list)
  PROVE  /\ Stay(list, I) \in Seq(O)
         /\ Len(Stay(list, I)) = Cardinality(I) /\ Cardinality(I) \in Nat
         /\ Range(Stay(list, I)) = {list[i] : i \in I}
         /\ Range(Stay(list, I)) \subseteq O
         /\ I # {} => Stay(list, I) # <<>>
<1>1. Len(list) \in Nat /\ DOMAIN list = 1 .. Len(list) /\ \A i \in DOMAIN list : list[i] \in O
  OBVIOUS
<1>2. IsFiniteSet(I) /\ I \subseteq Nat
  <2>1. IsFiniteSet(1 .. Len(list))
    BY <1>1, FS_Interval
  <2>2. IsFiniteSet(I)
    BY <1>1, <2>1, FS_Subset
  <2>3. QED
    BY <1>1, <2>2
<1>3. PICK m : m = Cardinality(I) /\ m \in Nat
  BY <1>2, FS_CardinalityType
<1>4. /\ \A k \in 1 .. m : Nth(I, k) \in I
      /\ \A i \in I : \E k \in 1 .. m : Nth(I, k) = i
  BY <1>2, <1>3, NthOf
<1>5. PICK l : l = Stay(list, I)
  OBVIOUS
<1>6. l = [k \in 1 .. m |-> list[Nth(I, k)]]
  BY <1>3, <1>5 DEF Stay
<1>7. \A k \in 1 .. m : l[k] = list[Nth(I, k)] /\ list[Nth(I, k)] \in O
  BY <1>1, <1>4, <1>6
<1>8. l \in [1 .. m -> O]
  BY <1>6, <1>7
<1>9. l \in Seq(O) /\ Len(l) = m /\ DOMAIN l = 1 .. m
  BY <1>3, <1>8, SeqDef
<1>10. Range(l) = {list[i] : i \in I}
  <2>1. Range(l) = {l[k] : k \in 1 .. m}
    BY <1>9 DEF Range
  <2>2. ASSUME NEW k \in 1 .. m
        PROVE  l[k] \in {list[i] : i \in I}
    BY <1>4, <1>7
  <2>3. ASSUME NEW i \in I
        PROVE  list[i] \in {l[k] : k \in 1 .. m}
    <3>1. PICK k \in 1 .. m : Nth(I, k) = i
      BY <1>4
    <3>2. QED
      BY <1>7, <3>1
  <2>4. QED
    BY <2>1, <2>2, <2>3
<1>11. I # {} => l # <<>>
  BY <1>4, <1>9
<1>12. QED
  BY <1>1, <1>3, <1>5, <1>9, <1>10, <1>11

------------------------------------------------------------------------------
(****************************************************************************)
(* Lists of things with a score.                                            *)
(****************************************************************************)
Scored(O) == \A o \in O : o.score \in Int

\* The best score of a list is that of one and at least that of each of them.
LEMMA BestScoreOf ==
  ASSUME NEW O, Scored(O), NEW list \in Seq(O), list # <<>>
  PROVE  /\ BestScore(list) \in Int
         /\ \E i \in DOMAIN list : list[i].score = BestScore(list)
         /\ \A i \in DOMAIN list : list[i].score <= BestScore(list)
<1>0. list # <<>>
  OBVIOUS
<1>1. PICK f : f = [i \in DOMAIN list |-> list[i].score]
  OBVIOUS
<1>2. IsFiniteSet(DOMAIN list) /\ DOMAIN list # {}
  <2>1. Len(list) \in Nat /\ DOMAIN list = 1 .. Len(list)
    OBVIOUS
  <2>2. IsFiniteSet(1 .. Len(list))
    BY <2>1, FS_Interval
  <2>3. Len(list) # 0
    BY <1>0, EmptySeq
  <2>4. 1 \in 1 .. Len(list)
    BY <2>1, <2>3
  <2>5. QED
    BY <2>1, <2>2, <2>4
<1>3. \A i \in DOMAIN list : list[i] \in O /\ f[i] \in Int
  BY <1>1 DEF Scored
<1>4. {o.score : o \in ToSet(list)} = {f[i] : i \in DOMAIN list}
  BY <1>1 DEF ToSet, Range
<1>5. PICK m : m = Max({f[i] : i \in DOMAIN list})
  OBVIOUS
<1>6. (\E i \in DOMAIN list : m = f[i]) /\ \A i \in DOMAIN list : f[i] <= m
  BY <1>2, <1>3, <1>5, MaxOfValues
<1>7. BestScore(list) = m
  BY <1>4, <1>5 DEF BestScore
<1>8. QED
  BY <1>1, <1>3, <1>6, <1>7

Descending(list) == \A p, q \in 1 .. Len(list) : p < q => list[p].score >= list[q].score

\* A sorted list has what the list has, the best in front.
LEMMA SortedOf ==
  ASSUME NEW O, Scored(O), NEW list \in Seq(O)
  PROVE  /\ Sorted(list) \in Seq(O)
         /\ Len(Sorted(list)) = Len(list)
         /\ Descending(Sorted(list))
         /\ list # <<>> => Sorted(list) # <<>> /\ Sorted(list)[1].score = BestScore(list)
<1> DEFINE before(i) == {j \in DOMAIN list : IF j <= i THEN ~Better(list[i], list[j])
                                             ELSE Better(list[j], list[i])}
           at(p) == CHOOSE i \in DOMAIN list : Place(list, i) = p
<1>1. PICK N \in Nat : N = Len(list) /\ DOMAIN list = 1 .. N
  OBVIOUS
<1>2. PICK score : score = [i \in 1 .. N |-> list[i].score]
  OBVIOUS
<1>3. \A i \in 1 .. N : list[i] \in O /\ score[i] \in Int /\ score[i] = list[i].score
  BY <1>1, <1>2 DEF Scored
<1>4. PICK below : below = [i \in 1 .. N |->
                              {j \in 1 .. N : IF j <= i THEN score[i] <= score[j]
                                              ELSE score[j] > score[i]}]
  OBVIOUS
<1>5. ASSUME NEW i \in 1 .. N
      PROVE  Place(list, i) = Cardinality(below[i])
  <2>1. \A j \in 1 .. N : (~Better(list[i], list[j]) <=> score[i] <= score[j])
                          /\ (Better(list[j], list[i]) <=> score[j] > score[i])
    BY <1>3 DEF Better
  <2>2. before(i) = below[i]
    BY <1>1, <1>4, <2>1
  <2>3. QED
    BY <2>2 DEF Place
<1>6. Ranked(below, 1 .. N)
  <2>1. ASSUME NEW i \in 1 .. N
        PROVE  i \in below[i] /\ below[i] \subseteq 1 .. N
    BY <1>3, <1>4
  <2>2. ASSUME NEW i \in 1 .. N, NEW j \in 1 .. N, i < j, score[j] <= score[i]
        PROVE  below[i] \subseteq below[j] /\ j \notin below[i]
    BY <1>3, <1>4, <2>2
  <2>3. ASSUME NEW i \in 1 .. N, NEW j \in 1 .. N, i < j, score[j] > score[i]
        PROVE  below[j] \subseteq below[i] /\ i \notin below[j]
    BY <1>3, <1>4, <2>3
  <2>4. \A i, j \in 1 .. N : i = j \/ i < j \/ j < i
    OBVIOUS
  <2>5. \A i, j \in 1 .. N : score[j] <= score[i] \/ score[j] > score[i]
    BY <1>3
  <2>6. QED
    BY <2>1, <2>2, <2>3, <2>4, <2>5 DEF Ranked
<1>7. /\ IsFiniteSet(1 .. N) /\ Cardinality(1 .. N) = N
      /\ \A k \in 1 .. N : \E i \in 1 .. N : Cardinality(below[i]) = k
  <2>1. IsFiniteSet(1 .. N) /\ Cardinality(1 .. N) = N
    BY FS_Interval
  <2>2. QED
    BY <1>6, <2>1, RanksOf DEF RanksRight
<1>8. ASSUME NEW p \in 1 .. N
      PROVE  at(p) \in 1 .. N /\ Place(list, at(p)) = p
  <2>1. \E i \in DOMAIN list : Place(list, i) = p
    BY <1>1, <1>5, <1>7
  <2>2. QED
    BY <1>1, <2>1
<1>9. PICK s : s = Sorted(list)
  OBVIOUS
<1>10. s = [p \in 1 .. N |-> list[at(p)]]
  BY <1>1, <1>9 DEF Sorted
<1> HIDE DEF at
<1>11. s \in [1 .. N -> O]
  BY <1>3, <1>8, <1>10
<1>12. s \in Seq(O) /\ Len(s) = N
  BY <1>11, SeqDef
<1>13. ASSUME list # <<>>
       PROVE  s # <<>> /\ s[1].score = BestScore(list)
  <2>1. N # 0 /\ 1 \in 1 .. N
    BY <1>1, <1>13, EmptySeq
  <2>2. PICK i \in 1 .. N : i = at(1) /\ Cardinality(below[i]) = 1
    BY <1>5, <1>8, <2>1
  <2>3. below[i] = {i}
    <3>1. i \in below[i] /\ below[i] \subseteq 1 .. N
      BY <1>6 DEF Ranked
    <3>2. IsFiniteSet(below[i])
      BY <1>7, <3>1, FS_Subset
    <3>3. PICK x : below[i] = {x}
      BY <2>2, <3>2, FS_Singleton
    <3>4. QED
      BY <3>1, <3>3
  <2>4. \A j \in 1 .. N : score[j] <= score[i]
    <3>1. SUFFICES ASSUME NEW j \in 1 .. N, score[j] > score[i]
                   PROVE  FALSE
      BY <1>3
    <3>2. j \in below[i]
      BY <1>3, <1>4, <3>1
    <3>3. j = i
      BY <2>3, <3>2
    <3>4. QED
      BY <1>3, <3>1, <3>3
  <2>5. s[1] = list[i] /\ s[1].score = score[i]
    BY <1>3, <1>10, <2>1, <2>2
  <2>6. /\ BestScore(list) \in Int
        /\ \E k \in 1 .. N : score[k] = BestScore(list)
        /\ \A k \in 1 .. N : score[k] <= BestScore(list)
    BY <1>1, <1>3, <1>13, BestScoreOf
  <2>7. score[i] = BestScore(list)
    BY <1>3, <2>4, <2>6
  <2>8. QED
    BY <1>12, <2>1, <2>5, <2>7
<1>14. ASSUME NEW p \in 1 .. N, NEW q \in 1 .. N, p < q
       PROVE  s[p].score >= s[q].score
  <2>1. PICK i \in 1 .. N : i = at(p) /\ Cardinality(below[i]) = p
    BY <1>5, <1>8
  <2>2. PICK j \in 1 .. N : j = at(q) /\ Cardinality(below[j]) = q
    BY <1>5, <1>8
  <2>3. IsFiniteSet(below[i])
    BY <1>6, <1>7, FS_Subset DEF Ranked
  <2>4. ~(below[j] \subseteq below[i])
    BY <1>14, <2>1, <2>2, <2>3, FS_Subset
  <2>5. score[i] >= score[j]
    <3>1. SUFFICES ASSUME score[i] < score[j]
                   PROVE  below[j] \subseteq below[i]
      BY <1>3, <2>4
    <3>2. ASSUME NEW k \in 1 .. N, k \in below[j]
          PROVE  k \in below[i]
      <4>1. score[j] <= score[k]
        BY <1>3, <1>4, <3>2
      <4>2. score[i] < score[k]
        BY <1>3, <3>1, <4>1
      <4>3. QED
        BY <1>3, <1>4, <4>2
    <3>3. QED
      BY <1>6, <3>2 DEF Ranked
  <2>6. s[p] = list[i] /\ s[q] = list[j]
    BY <1>10, <2>1, <2>2
  <2>7. QED
    BY <1>3, <2>5, <2>6
<1>15. Descending(s)
  BY <1>12, <1>14 DEF Descending
<1>16. QED
  BY <1>1, <1>9, <1>12, <1>13, <1>15
------------------------------------------------------------------------------
(****************************************************************************)
(* What the steps of a decode graph make.                                   *)
(****************************************************************************)
LEMMA Flattened ==
  ASSUME NEW O, NEW seqs \in Seq(Seq(O))
  PROVE  FlattenSeq(seqs) \in Seq(O)
<1> DEFINE N == Len(seqs)
           E(f) == f = [i \in 1 .. N |-> IF i = 1 THEN seqs[i] ELSE f[i - 1] \o seqs[i]]
           flat == CHOOSE f : E(f)
<1>1. N \in Nat /\ \A i \in 1 .. N : seqs[i] \in Seq(O)
  OBVIOUS
<1>2. CASE N = 0
  <2>1. FlattenSeq(seqs) = seqs
    BY <1>2 DEF FlattenSeq
  <2>2. seqs = <<>>
    BY <1>2, EmptySeq
  <2>3. QED
    BY <2>1, <2>2, EmptySeq
<1>3. CASE N # 0
  <2>1. PICK V, G, base : /\ V = Seq(O)
                          /\ G = [p \in Nat \X V |-> IF p[1] \in 1 .. N THEN p[2] \o seqs[p[1]] ELSE p[2]]
                          /\ base = seqs[1]
    OBVIOUS
  <2>2. G \in [Nat \X V -> V]
    <3>1. \A p \in Nat \X V : (IF p[1] \in 1 .. N THEN p[2] \o seqs[p[1]] ELSE p[2]) \in V
      BY <1>1, <2>1, ConcatProperties
    <3>2. QED
      BY <2>1, <3>1
  <2>3. 1 \in 1 .. N /\ 1 <= N /\ base \in V
    BY <1>1, <1>3, <2>1
  <2>4. PICK f \in [1 .. N -> V] : BySteps(f, 1, N, base, G)
    BY <1>1, <2>2, <2>3, FunctionOnNumbers
  <2>5. E(f)
    <3>1. ASSUME NEW i \in 1 .. N
          PROVE  f[i] = IF i = 1 THEN seqs[i] ELSE f[i - 1] \o seqs[i]
      <4>1. f[i] = IF i = 1 THEN base ELSE G[<<i, f[i - 1]>>]
        BY <2>4 DEF BySteps
      <4>2. CASE i = 1
        BY <2>1, <4>1, <4>2
      <4>3. CASE i # 1
        <5>1. i - 1 \in 1 .. N /\ i \in Nat
          BY <1>1, <4>3
        <5>2. f[i - 1] \in V
          BY <5>1
        <5>3. <<i, f[i - 1]>> \in Nat \X V
          BY <5>1, <5>2
        <5>4. G[<<i, f[i - 1]>>] = f[i - 1] \o seqs[i]
          BY <2>1, <5>3
        <5>5. QED
          BY <4>1, <4>3, <5>4
      <4>4. QED
        BY <4>2, <4>3
    <3>2. QED
      BY <3>1
  <2>6. E(flat)
    <3> HIDE DEF E
    <3>1. QED
      BY <2>5
  <2>7. PICK g : g = flat /\ E(g)
    BY <2>6
  <2>8. \A i \in 1 .. N : g[i] = IF i = 1 THEN seqs[i] ELSE g[i - 1] \o seqs[i]
    BY <2>7
  <2> DEFINE P == {i \in 1 .. N : g[i] \in Seq(O)}
  <2>9. 1 \in P
    BY <1>1, <2>3, <2>8
  <2>10. ASSUME NEW i \in 1 .. N - 1, i \in P
         PROVE  i + 1 \in P
    <3>1. i + 1 \in 1 .. N /\ i + 1 # 1 /\ (i + 1) - 1 = i
      BY <1>1
    <3>2. g[i + 1] = g[i] \o seqs[i + 1]
      BY <2>8, <3>1
    <3>3. g[i] \in Seq(O) /\ seqs[i + 1] \in Seq(O)
      BY <1>1, <2>10, <3>1
    <3>4. g[i] \o seqs[i + 1] \in Seq(O)
      BY <3>3, ConcatProperties
    <3>5. QED
      BY <3>1, <3>2, <3>4
  <2>11. \A i \in 1 .. N : i \in P
    <3> HIDE DEF P
    <3>1. 1 \in Nat /\ N \in Nat
      BY <1>1
    <3>2. QED
      BY <2>9, <2>10, <3>1, FromNumber
  <2>12. FlattenSeq(seqs) = g[N]
    BY <1>3, <2>7 DEF FlattenSeq
  <2>13. N \in P
    BY <1>1, <1>3, <2>11
  <2>14. QED
    BY <2>12, <2>13
<1>4. QED
  BY <1>2, <1>3

\* The options that are partial, or of a table (the provers do not know that
\* a literal is a string).
FullWords == [Factors -> STRING \cup {NoFactor, "UNK"}]
FullPhrases == Seq(FullWords)
TableOptions == [out : FullPhrases, score : Int]

\* What markup and tables write are phrases, and what they consist of.
LEMMA MarkupPhrases == OutPhrases \subseteq FullPhrases
<1>1. [Factors -> STRING] \subseteq FullWords
  BY DEF FullWords
<1>2. QED
  BY <1>1, SeqMonotonic DEF OutPhrases, FullPhrases

LEMMA PhraseParts ==
  ASSUME NEW p \in FullPhrases
  PROVE  Len(p) \in Nat /\ DOMAIN p = 1 .. Len(p) /\ \A i \in DOMAIN p : p[i] \in FullWords
BY DEF FullPhrases, FullWords

LEMMA PhraseFrom ==
  ASSUME NEW k \in Nat, NEW p \in [1 .. k -> FullWords]
  PROVE  p \in FullPhrases
BY SeqDef DEF FullPhrases, FullWords

\* A parsed entry of a table is a phrase.
LEMMA PhraseRead ==
  ASSUME NEW order \in Seq(Factors), NEW p \in Seq(Seq(STRING)), Parse(p, order)
  PROVE  CreateFromString(order, p) \in FullPhrases
<1>1. Len(p) \in Nat /\ DOMAIN p = 1 .. Len(p)
  OBVIOUS
<1>2. ASSUME NEW i \in 1 .. Len(p)
      PROVE  SetFactors(p[i], order) \in FullWords
  <2>1. p[i] \in Seq(STRING) /\ Len(p[i]) = Len(order)
    <3>1. p[i] \in Seq(STRING)
      BY ElementOfSeq
    <3>2. i \in DOMAIN p
      BY <1>1
    <3>3. QED
      BY <3>1, <3>2 DEF Parse
  <2>2. PICK w \in Seq(STRING) : w = p[i] /\ Len(w) = Len(order)
    BY <2>1
  <2>3. ASSUME NEW f \in Factors, f \in Range(order)
        PROVE  w[CHOOSE j \in DOMAIN order : order[j] = f] \in STRING \cup {NoFactor, "UNK"}
    <3>1. \E j \in DOMAIN order : order[j] = f
      BY <2>3 DEF Range
    <3>2. PICK j \in DOMAIN order : j = CHOOSE k \in DOMAIN order : order[k] = f
      BY <3>1
    <3>3. j \in 1 .. Len(w)
      BY <2>2
    <3>4. QED
      BY <3>2, <3>3, ElementOfSeq
  <2>4. QED
    BY <2>2, <2>3 DEF SetFactors, FullWords
<1>3. CreateFromString(order, p) \in [1 .. Len(p) -> FullWords]
  BY <1>1, <1>2 DEF CreateFromString
<1>4. QED
  BY <1>1, <1>3, PhraseFrom

\* The entries that a table gives.
LEMMA EntriesOf ==
  ASSUME NEW step, IsStep(step), NEW phrase, NEW adhere
  PROVE  Entries(step, phrase, adhere) \in Seq(TableOptions)
<1> DEFINE raw == [out : Seq(Seq(STRING)), score : Int]
           all == IF phrase \in DOMAIN step.table THEN step.table[phrase] ELSE <<>>
           few == IF ~adhere \/ step.limit = 0 THEN all
                  ELSE SubSeq(all, 1, Min({step.limit, Len(all)}))
<1>1. step.factors \in Seq(Factors) /\ step.limit \in Nat
  BY DEF IsStep
<1>2. all \in Seq(raw) /\ \A i \in DOMAIN all : Parse(all[i].out, step.factors)
  <2>1. CASE phrase \in DOMAIN step.table
    <3>1. /\ step.table[phrase] \in Seq(raw)
          /\ \A e \in Range(step.table[phrase]) : Parse(e.out, step.factors)
      BY <2>1 DEF IsStep
    <3>2. QED
      BY <2>1, <3>1 DEF Range
  <2>2. CASE phrase \notin DOMAIN step.table
    BY <2>2, EmptySeq
  <2>3. QED
    BY <2>1, <2>2
<1> HIDE DEF all
<1>3. few \in Seq(raw) /\ \A i \in DOMAIN few : Parse(few[i].out, step.factors)
  <2>1. PICK m : m = Min({step.limit, Len(all)})
    OBVIOUS
  <2>2. Len(all) \in Nat /\ DOMAIN all = 1 .. Len(all)
    BY <1>2
  <2>3. {step.limit, Len(all)} \subseteq Nat /\ {step.limit, Len(all)} # {}
    BY <1>1, <2>2
  <2>4. PICK T : T = {step.limit, Len(all)}
    OBVIOUS
  <2>5. Min(T) \in T /\ \A y \in T : Min(T) <= y
    BY <2>3, <2>4, MinOf
  <2>6. m \in Nat /\ m <= Len(all)
    BY <2>1, <2>3, <2>4, <2>5
  <2>7. PICK s : s = SubSeq(all, 1, m)
    OBVIOUS
  <2>8. \A i \in 1 .. m : all[i] \in raw /\ i \in DOMAIN all
    <3>1. 1 .. m \subseteq 1 .. Len(all)
      BY <2>2, <2>6
    <3>2. QED
      BY <1>2, <2>2, <3>1, ElementOfSeq
  <2>9. /\ s \in Seq(raw) /\ Len(s) = IF 1 <= m THEN m - 1 + 1 ELSE 0
        /\ \A i \in 1 .. m - 1 + 1 : s[i] = all[1 + i - 1]
    BY <2>6, <2>7, <2>8, SubSeqProperties
  <2>10. DOMAIN s = 1 .. m /\ \A i \in 1 .. m : s[i] = all[i]
    <3>1. Len(s) = m /\ m - 1 + 1 = m
      BY <2>6, <2>9
    <3>2. \A i \in 1 .. m : 1 + i - 1 = i
      BY <2>6
    <3>3. \A i \in 1 .. m : s[i] = all[i]
      BY <2>9, <3>1, <3>2
    <3>4. DOMAIN s = 1 .. m
      BY <2>9, <3>1
    <3>5. QED
      BY <3>3, <3>4
  <2>11. few = all \/ few = s
    BY <2>1, <2>7
  <2>12. QED
    BY <1>2, <2>8, <2>9, <2>10, <2>11
<1>4. PICK l, e : l = few /\ e = Entries(step, phrase, adhere)
  OBVIOUS
<1>5. e = [i \in DOMAIN l |-> [l[i] EXCEPT !.out = CreateFromString(step.factors, @)]]
  BY <1>4 DEF Entries, all
<1> HIDE DEF few
<1>6. Len(l) \in Nat /\ DOMAIN l = 1 .. Len(l)
  BY <1>3, <1>4
<1>7. ASSUME NEW i \in 1 .. Len(l)
      PROVE  [l[i] EXCEPT !.out = CreateFromString(step.factors, @)] \in TableOptions
  <2>1. l[i] \in raw /\ Parse(l[i].out, step.factors)
    <3>1. l \in Seq(raw) /\ i \in DOMAIN l
      BY <1>3, <1>4, <1>6
    <3>2. QED
      BY <1>3, <1>4, <3>1, ElementOfSeq
  <2>2. CreateFromString(step.factors, l[i].out) \in FullPhrases
    BY <1>1, <2>1, PhraseRead
  <2>3. QED
    BY <2>1, <2>2 DEF TableOptions
<1>8. e \in [1 .. Len(l) -> TableOptions]
  BY <1>5, <1>6, <1>7
<1>9. QED
  BY <1>4, <1>6, <1>8, SeqDef

\* What merging makes.
LEMMA MergedOf ==
  ASSUME NEW graph, NEW k, NEW o \in TableOptions, NEW entries \in Seq(TableOptions)
  PROVE  Merged(graph, k, o, entries) \in Seq(TableOptions)
<1>1. PICK I : I = {i \in DOMAIN entries :
                      IsCompatible(o.out, entries[i].out, ConflictFactors(graph, k))}
  OBVIOUS
<1>2. PICK l : l = Stay(entries, I)
  OBVIOUS
<1>3. l \in Seq(TableOptions) /\ Range(l) = {entries[i] : i \in I}
  <2>1. I \in SUBSET (DOMAIN entries)
    BY <1>1
  <2>2. QED
    BY <1>2, <2>1, StayOf
<1>4. PICK m : m = Merged(graph, k, o, entries)
  OBVIOUS
<1>5. m = [i \in DOMAIN l |->
             [out   |-> MergeFactors(o.out, l[i].out, NewOutputFactors(graph, k)),
              score |-> o.score + l[i].score]]
  BY <1>1, <1>2, <1>4 DEF Merged
<1>6. Len(l) \in Nat /\ DOMAIN l = 1 .. Len(l)
  BY <1>3
<1>7. ASSUME NEW i \in 1 .. Len(l)
      PROVE  [out   |-> MergeFactors(o.out, l[i].out, NewOutputFactors(graph, k)),
              score |-> o.score + l[i].score] \in TableOptions
  <2>1. l[i] \in Range(l)
    BY <1>6 DEF Range
  <2>2. PICK j \in DOMAIN entries : l[i] = entries[j] /\
          IsCompatible(o.out, entries[j].out, ConflictFactors(graph, k))
    BY <1>1, <1>3, <2>1
  <2>3. l[i] \in TableOptions
    BY <1>3, ElementOfSeq
  <2>4. PICK old, new : old = o.out /\ new = l[i].out
    OBVIOUS
  <2>5. /\ old \in FullPhrases /\ new \in FullPhrases /\ Len(old) = Len(new)
        /\ o.score \in Int /\ l[i].score \in Int
    BY <2>2, <2>3, <2>4 DEF TableOptions, IsCompatible
  <2>6. /\ Len(old) \in Nat /\ DOMAIN old = 1 .. Len(old) /\ DOMAIN new = 1 .. Len(old)
        /\ \A x \in 1 .. Len(old) : old[x] \in FullWords /\ new[x] \in FullWords
    BY <2>5, PhraseParts
  <2>7. PICK N : N = NewOutputFactors(graph, k)
    OBVIOUS
  <2>8. ASSUME NEW x \in 1 .. Len(old)
        PROVE  [f \in Factors |-> IF f \in N THEN new[x][f] ELSE old[x][f]] \in FullWords
    BY <2>6 DEF FullWords
  <2>9. MergeFactors(old, new, N) \in [1 .. Len(old) -> FullWords]
    BY <2>6, <2>8 DEF MergeFactors
  <2>10. MergeFactors(old, new, N) \in FullPhrases
    BY <2>6, <2>9, PhraseFrom
  <2>11. o.score + l[i].score \in Int
    BY <2>5
  <2>12. QED
    BY <2>4, <2>7, <2>10, <2>11 DEF TableOptions
<1>8. m \in [1 .. Len(l) -> TableOptions]
  BY <1>5, <1>6, <1>7
<1>9. QED
  BY <1>4, <1>6, <1>8, SeqDef

\* A sequence of the elements of a set.
LEMMA SequenceOfSet ==
  ASSUME NEW S, IsFiniteSet(S)
  PROVE  SetToSeq(S) \in Seq(S)
<1>1. Cardinality(S) \in Nat /\ ExistsBijection(1 .. Cardinality(S), S)
  BY FS_CardinalityType
<1>2. \E f \in [1 .. Cardinality(S) -> S] : IsInjective(f)
  BY <1>1 DEF ExistsBijection, Bijection, Injection
<1>3. SetToSeq(S) \in [1 .. Cardinality(S) -> S]
  BY <1>2 DEF SetToSeq
<1>4. QED
  BY <1>1, <1>3, SeqDef

Lexicon == [in : [Factors -> STRING], word : [Factors -> STRING], score : Int]

\* What the dictionary of a generation step finds.
LEMMA FoundWords ==
  ASSUME NEW D, IsFiniteSet(D), D \subseteq Lexicon, NEW word
  PROVE  FindWord(D, word) \in Seq(Lexicon)
<1>1. PICK S : S = {g \in D : SameWord(g.in, word)}
  OBVIOUS
<1>2. IsFiniteSet(S) /\ S \subseteq Lexicon
  BY <1>1, FS_Subset
<1>3. SetToSeq(S) \in Seq(S)
  BY <1>2, SequenceOfSet
<1>4. SetToSeq(S) \in Seq(Lexicon)
  BY <1>2, <1>3, SeqMonotonic
<1>5. QED
  BY <1>1, <1>4 DEF FindWord

\* One more word for all the ways so far.
OneMore(D, words, i, so) ==
  LET found == FindWord(D, words[i])
  IN  FlattenSeq(
        [x \in DOMAIN found |->
           [j \in DOMAIN so |->
              [out   |-> Append(so[j].out, found[x].word),
               score |-> so[j].score + found[x].score]]])

\* Generation makes options of the tables, word by word.
LEMMA OneMoreOf ==
  ASSUME NEW D, IsFiniteSet(D), D \subseteq Lexicon, NEW words, NEW i, NEW so \in Seq(TableOptions)
  PROVE  OneMore(D, words, i, so) \in Seq(TableOptions)
<1>1. PICK found \in Seq(Lexicon) : found = FindWord(D, words[i])
  BY FoundWords
<1>2. Len(found) \in Nat /\ DOMAIN found = 1 .. Len(found) /\ Len(so) \in Nat /\ DOMAIN so = 1 .. Len(so)
  OBVIOUS
<1> DEFINE row(x) == [j \in DOMAIN so |-> [out   |-> Append(so[j].out, found[x].word),
                                           score |-> so[j].score + found[x].score]]
<1>3. ASSUME NEW x \in 1 .. Len(found)
      PROVE  row(x) \in Seq(TableOptions)
  <2>1. PICK g \in Lexicon : g = found[x]
    BY ElementOfSeq
  <2>2. g.word \in FullWords /\ g.score \in Int
    BY DEF Lexicon, FullWords
  <2>3. ASSUME NEW j \in 1 .. Len(so)
        PROVE  [out |-> Append(so[j].out, g.word), score |-> so[j].score + g.score] \in TableOptions
    <3>1. so[j] \in TableOptions
      BY ElementOfSeq
    <3>2. so[j].out \in Seq(FullWords) /\ so[j].score \in Int
      BY <3>1 DEF TableOptions, FullPhrases
    <3>3. Append(so[j].out, g.word) \in Seq(FullWords)
      BY <2>2, <3>2, AppendProperties
    <3>4. so[j].score + g.score \in Int
      BY <2>2, <3>2
    <3>5. QED
      BY <3>3, <3>4 DEF TableOptions, FullPhrases
  <2>4. row(x) \in [1 .. Len(so) -> TableOptions]
    BY <1>2, <2>1, <2>3
  <2>5. QED
    BY <1>2, <2>4, SeqDef
<1> HIDE DEF row
<1>4. PICK rows : rows = [x \in DOMAIN found |-> row(x)]
  OBVIOUS
<1>5. rows \in [1 .. Len(found) -> Seq(TableOptions)]
  BY <1>2, <1>3, <1>4
<1>6. rows \in Seq(Seq(TableOptions))
  BY <1>2, <1>5, SeqDef
<1>7. FlattenSeq(rows) \in Seq(TableOptions)
  BY <1>6, Flattened
<1>8. OneMore(D, words, i, so) = FlattenSeq(rows)
  BY <1>1, <1>4 DEF OneMore, row
<1>9. QED
  BY <1>7, <1>8

LEMMA GenerationsOf ==
  ASSUME NEW D, IsFiniteSet(D), D \subseteq Lexicon, NEW words, Len(words) \in Nat
  PROVE  Generations(D, words) \in Seq(TableOptions)
<1> DEFINE N == Len(words)
           E(f) == f = [i \in 0 .. N |-> IF i = 0 THEN <<[out |-> <<>>, score |-> 0]>>
                                         ELSE OneMore(D, words, i, f[i - 1])]
           ways == CHOOSE f : E(f)
<1>1. Generations(D, words) = ways[N]
  BY DEF Generations, OneMore
<1>2. PICK V, G, base : /\ V = Seq(TableOptions)
                        /\ G = [p \in Nat \X V |-> OneMore(D, words, p[1], p[2])]
                        /\ base = <<[out |-> <<>>, score |-> 0]>>
  OBVIOUS
<1>3. base \in V
  <2>1. <<>> \in FullPhrases
    BY EmptySeq DEF FullPhrases
  <2>2. [out |-> <<>>, score |-> 0] \in TableOptions
    BY <2>1 DEF TableOptions
  <2>3. QED
    BY <1>2, <2>2
<1>4. G \in [Nat \X V -> V]
  <2>1. \A p \in Nat \X V : OneMore(D, words, p[1], p[2]) \in V
    BY <1>2, OneMoreOf
  <2>2. QED
    BY <1>2, <2>1
<1>5. PICK f \in [0 .. N -> V] : BySteps(f, 0, N, base, G)
  <2>1. 0 \in Nat /\ N \in Nat /\ 0 <= N
    OBVIOUS
  <2>2. QED
    BY <1>3, <1>4, <2>1, FunctionOnNumbers
<1>6. E(f)
  <2>1. ASSUME NEW i \in 0 .. N
        PROVE  f[i] = IF i = 0 THEN base ELSE OneMore(D, words, i, f[i - 1])
    <3>1. f[i] = IF i = 0 THEN base ELSE G[<<i, f[i - 1]>>]
      BY <1>5 DEF BySteps
    <3>2. CASE i = 0
      BY <3>1, <3>2
    <3>3. CASE i # 0
      <4>1. i - 1 \in 0 .. N /\ i \in Nat
        BY <3>3
      <4>2. <<i, f[i - 1]>> \in Nat \X V
        BY <4>1
      <4>3. G[<<i, f[i - 1]>>] = OneMore(D, words, i, f[i - 1])
        BY <1>2, <4>2
      <4>4. QED
        BY <3>1, <3>3, <4>3
    <3>4. QED
      BY <3>2, <3>3
  <2>2. QED
    BY <1>2, <2>1
<1>7. PICK g : g = ways /\ E(g)
  <2> HIDE DEF E
  <2>1. E(ways)
    BY <1>6
  <2>2. QED
    BY <2>1
<1>8. \A i \in 0 .. N : g[i] = IF i = 0 THEN base ELSE OneMore(D, words, i, g[i - 1])
  <2>1. \A i \in 0 .. N : g[i] = IF i = 0 THEN <<[out |-> <<>>, score |-> 0]>>
                                 ELSE OneMore(D, words, i, g[i - 1])
    BY <1>7
  <2>2. QED
    BY <1>2, <2>1
<1> DEFINE P == {i \in 0 .. N : g[i] \in V}
<1>9. 0 \in P
  BY <1>3, <1>8
<1>10. ASSUME NEW i \in 0 .. N - 1, i \in P
       PROVE  i + 1 \in P
  <2>1. i + 1 \in 0 .. N /\ i + 1 # 0 /\ (i + 1) - 1 = i
    OBVIOUS
  <2>2. g[i + 1] = OneMore(D, words, i + 1, g[i])
    BY <1>8, <2>1
  <2>3. g[i] \in Seq(TableOptions)
    BY <1>2, <1>10
  <2>4. OneMore(D, words, i + 1, g[i]) \in Seq(TableOptions)
    BY <2>3, OneMoreOf
  <2>5. QED
    BY <1>2, <2>1, <2>2, <2>4
<1>11. \A i \in 0 .. N : i \in P
  <2> HIDE DEF P
  <2>1. QED
    BY <1>9, <1>10, FromNumber
<1>12. N \in P
  BY <1>11
<1>13. QED
  BY <1>1, <1>2, <1>7, <1>12

\* A decode graph that begins with a translation.
IsGraph(graph) ==
  /\ graph \in Seq(Range(graph)) /\ Len(graph) > 0
  /\ \A step \in Range(graph) : IsStep(step)

\* So does every step of a decode graph.
LEMMA ProcessOf ==
  ASSUME NEW graph, IsGraph(graph), NEW k \in 1 .. Len(graph), NEW phrase, NEW adhere,
         NEW o \in TableOptions
  PROVE  Process(graph, k, phrase, adhere, o) \in Seq(TableOptions)
<1>1. PICK step : step = graph[k] /\ IsStep(step)
  BY ElementOfSeq DEF IsGraph
<1>2. Entries(step, phrase, adhere) \in Seq(TableOptions)
  BY <1>1, EntriesOf
<1>3. Generations(step.dictionary, o.out) \in Seq(TableOptions)
  <2>1. IsFiniteSet(step.dictionary) /\ step.dictionary \subseteq Lexicon
    BY <1>1 DEF IsStep, Lexicon
  <2>2. Len(o.out) \in Nat
    BY PhraseParts DEF TableOptions
  <2>3. QED
    BY <2>1, <2>2, GenerationsOf
<1>4. CASE o.out = <<>>
  <2>1. Process(graph, k, phrase, adhere, o) = <<o>>
    BY <1>4 DEF Process
  <2>2. QED
    BY <2>1
<1>5. CASE o.out # <<>> /\ step.kind = "translate"
  <2>1. Process(graph, k, phrase, adhere, o)
          = Merged(graph, k, o, Entries(step, phrase, adhere))
    BY <1>1, <1>5 DEF Process
  <2>2. QED
    BY <1>2, <2>1, MergedOf
<1>6. CASE o.out # <<>> /\ step.kind # "translate"
  <2>1. Process(graph, k, phrase, adhere, o)
          = Merged(graph, k, o, Generations(step.dictionary, o.out))
    BY <1>1, <1>6 DEF Process
  <2>2. QED
    BY <1>3, <2>1, MergedOf
<1>7. QED
  BY <1>4, <1>5, <1>6

\* Collections of partial options.
Partials == [list : Seq(TableOptions), worst : Int]

\* The best so many of a list: none that goes is better than one that stays.
LEMMA KeptBest ==
  ASSUME NEW O, NEW list \in Seq(O), NEW k \in Nat, NEW kept \in KeepBest(list, k)
  PROVE  /\ kept \in Seq(O) /\ Len(kept) = k
         /\ \E I \in SUBSET (DOMAIN list) :
              /\ kept = Stay(list, I) /\ Cardinality(I) = k
              /\ \A i \in I, j \in DOMAIN list \ I : ~Better(list[j], list[i])
<1>1. PICK I \in kSubset(k, DOMAIN list) :
        kept = Stay(list, I) /\ \A i \in I, j \in DOMAIN list \ I : ~Better(list[j], list[i])
  BY DEF KeepBest
<1>2. I \in SUBSET (DOMAIN list) /\ Cardinality(I) = k
  BY DEF kSubset
<1>3. kept \in Seq(O) /\ Len(kept) = k
  BY <1>1, <1>2, StayOf
<1>4. QED
  BY <1>1, <1>2, <1>3

\* A collection of partial options stays one, whatever is added to it.
LEMMA PartialAdded ==
  ASSUME NEW max \in Nat \ {0}, NEW c \in Partials, NEW o \in TableOptions
  PROVE  AddPartial(c, o, max) \subseteq Partials
<1>1. PICK a : a = AddNoPrune(c, o)
  OBVIOUS
<1>2. a \in Partials
  <2>1. c.list \in Seq(TableOptions)
    BY DEF Partials
  <2>2. Append(c.list, o) \in Seq(TableOptions)
    BY <2>1, AppendProperties
  <2>3. QED
    BY <1>1, <2>2 DEF AddNoPrune, Partials
<1>3. ASSUME Len(a.list) > max, NEW kept \in KeepBest(a.list, max), NEW i \in 1 .. max
      PROVE  [list |-> kept, worst |-> kept[i].score] \in Partials
  <2>1. a.list \in Seq(TableOptions)
    BY <1>2 DEF Partials
  <2>2. kept \in Seq(TableOptions) /\ Len(kept) = max
    BY <2>1, KeptBest
  <2>3. kept[i] \in TableOptions
    BY <2>2, ElementOfSeq
  <2>4. kept[i].score \in Int
    BY <2>3 DEF TableOptions
  <2>5. QED
    BY <2>2, <2>4 DEF Partials
<1>4. PrunePartial(a, max) \subseteq Partials
  <2>1. CASE Len(a.list) <= max
    BY <1>2, <2>1 DEF PrunePartial
  <2>2. CASE ~(Len(a.list) <= max)
    <3>1. Len(a.list) \in Nat
      BY <1>2 DEF Partials
    <3>2. Len(a.list) > max
      BY <2>2, <3>1
    <3>3. PrunePartial(a, max)
            = UNION {{[list |-> kept, worst |-> kept[i].score] : i \in 1 .. max}
                       : kept \in KeepBest(a.list, max)}
      BY <2>2 DEF PrunePartial
    <3>4. QED
      BY <1>3, <3>2, <3>3
  <2>3. QED
    BY <2>1, <2>2
<1>5. AddPartial(c, o, max) = PrunePartial(a, max) \/ AddPartial(c, o, max) = {a}
  BY <1>1 DEF AddPartial
<1>6. QED
  BY <1>2, <1>4, <1>5

\* A set of numbers has its greatest.
LEMMA MaxChooses ==
  ASSUME NEW S, IsFiniteSet(S), S \subseteq Int, NEW c, c = [s \in SUBSET S |-> Max(s)]
  PROVE  Chooses(c, S)
<1>1. ASSUME NEW s \in SUBSET S, s # {}
      PROVE  Max(s) \in s
  <2>1. IsFiniteSet(s) /\ s \subseteq Int
    BY FS_Subset
  <2>2. QED
    BY <1>1, <2>1, MaxOf
<1>2. QED
  BY <1>1 DEF Chooses

AddToEach(colls, o, max) == UNION {AddPartial(c, o, max) : c \in colls}

LEMMA AllPartialAdded ==
  ASSUME NEW max \in Nat \ {0}, NEW list \in Seq(TableOptions)
  PROVE  AddAllPartial(list, max) \subseteq Partials
<1> DEFINE I == DOMAIN list
           E(f) == f = [s \in SUBSET I |->
                          IF s = {} THEN {EmptyPartial}
                          ELSE AddToEach(f[s \ {Max(s)}], list[Max(s)], max)]
           iter == CHOOSE f : E(f)
<1>1. AddAllPartial(list, max) = iter[I]
  BY DEF AddAllPartial, FoldLeft, MapThenFoldSet, AddToEach
<1>2. IsFiniteSet(I) /\ I \subseteq Int /\ \A i \in I : list[i] \in TableOptions
  <2>1. Len(list) \in Nat /\ I = 1 .. Len(list)
    OBVIOUS
  <2>2. IsFiniteSet(1 .. Len(list)) /\ 1 .. Len(list) \subseteq Int
    BY <2>1, FS_Interval
  <2>3. QED
    BY <2>1, <2>2, ElementOfSeq
<1>3. PICK c, V, G, base : /\ c = [s \in SUBSET I |-> Max(s)]
                           /\ V = SUBSET Partials
                           /\ G = [p \in I \X V |-> AddToEach(p[2], list[p[1]], max)]
                           /\ base = {EmptyPartial}
  OBVIOUS
<1>4. base \in V
  <2>1. EmptyPartial \in Partials
    <3>1. <<>> \in Seq(TableOptions)
      BY EmptySeq
    <3>2. NegInf \in Int
      BY DEF NegInf
    <3>3. QED
      BY <3>1, <3>2 DEF EmptyPartial, Partials
  <2>2. QED
    BY <1>3, <2>1
<1>5. ASSUME NEW colls \in V, NEW i \in I
      PROVE  AddToEach(colls, list[i], max) \in V
  <2>1. list[i] \in TableOptions /\ colls \subseteq Partials
    BY <1>2, <1>3
  <2>2. \A x \in colls : AddPartial(x, list[i], max) \subseteq Partials
    BY <2>1, PartialAdded
  <2>3. AddToEach(colls, list[i], max) \subseteq Partials
    BY <2>2 DEF AddToEach
  <2>4. QED
    BY <1>3, <2>3
<1>6. G \in [I \X V -> V]
  <2>1. \A p \in I \X V : AddToEach(p[2], list[p[1]], max) \in V
    BY <1>5
  <2>2. QED
    BY <1>3, <2>1
<1>7. Chooses(c, I)
  BY <1>2, <1>3, MaxChooses
<1>8. \A s \in SUBSET I : s # {} => Max(s) \in s /\ Max(s) \in I /\ s \ {Max(s)} \in SUBSET I
  BY <1>3, <1>7 DEF Chooses
<1> HIDE DEF I
<1>9. PICK f \in [SUBSET I -> V] : ByElements(f, I, c, base, G)
  BY <1>2, <1>4, <1>6, <1>7, FunctionOnSubsets
<1>10. E(f)
  <2>1. ASSUME NEW s \in SUBSET I, s # {}
        PROVE  f[s] = AddToEach(f[s \ {Max(s)}], list[Max(s)], max)
    <3>1. c[s] = Max(s) /\ Max(s) \in I /\ f[s \ {Max(s)}] \in V
      BY <1>3, <1>8, <2>1
    <3>2. f[s] = G[<<Max(s), f[s \ {Max(s)}]>>]
      BY <1>9, <2>1, <3>1 DEF ByElements
    <3>3. <<Max(s), f[s \ {Max(s)}]>> \in I \X V
      BY <3>1
    <3>4. G[<<Max(s), f[s \ {Max(s)}]>>] = AddToEach(f[s \ {Max(s)}], list[Max(s)], max)
      BY <1>3, <3>3
    <3>5. QED
      BY <3>2, <3>4
  <2>2. f[{}] = {EmptyPartial}
    BY <1>3, <1>9 DEF ByElements
  <2>3. QED
    BY <2>1, <2>2
<1>11. PICK g : g = iter /\ E(g)
  <2> HIDE DEF E
  <2>1. E(iter)
    BY <1>10
  <2>2. QED
    BY <2>1
<1>12. /\ g[{}] = base
       /\ \A s \in SUBSET I : s # {} => g[s] = AddToEach(g[s \ {Max(s)}], list[Max(s)], max)
  BY <1>3, <1>11
<1> DEFINE P == {s \in SUBSET I : g[s] \in V}
<1>13. {} \in P
  BY <1>4, <1>12
<1>14. ASSUME NEW s \in SUBSET I, s # {}, \A x \in s : s \ {x} \in P
       PROVE  s \in P
  <2>1. Max(s) \in I /\ g[s \ {Max(s)}] \in V
    BY <1>8, <1>14
  <2>2. AddToEach(g[s \ {Max(s)}], list[Max(s)], max) \in V
    BY <1>5, <2>1
  <2>3. g[s] \in V
    BY <1>12, <1>14, <2>2
  <2>4. QED
    BY <2>3
<1>15. \A s \in SUBSET I : s \in P
  <2> HIDE DEF P
  <2>1. QED
    BY <1>2, <1>13, <1>14, SetInduction
<1>16. g[I] \in V
  BY <1>15
<1>17. AddAllPartial(list, max) = g[I]
  <2> HIDE DEF iter
  <2>1. QED
    BY <1>1, <1>11
<1>18. QED
  BY <1>3, <1>16, <1>17

\* The lists that are left of some partial options.
LEMMA ListsOfPartials ==
  ASSUME NEW max \in Nat \ {0}, NEW list \in Seq(TableOptions)
  PROVE  {c.list : c \in AddAllPartial(list, max)} \subseteq Seq(TableOptions)
<1>1. AddAllPartial(list, max) \subseteq Partials
  BY AllPartialAdded
<1>2. QED
  BY <1>1 DEF Partials

\* What the k-th step makes of lists of partial options.
StepMakes(graph, k, phrase, adhere, max, lists) ==
  UNION {{c.list : c \in AddAllPartial(
                           FlattenSeq([i \in DOMAIN old |->
                                         Process(graph, k, phrase, adhere, old[i])]), max)}
           : old \in lists}

\* The lists of one step, and of a decode graph.
LEMMA StepMakesLists ==
  ASSUME NEW graph, IsGraph(graph), NEW k \in 1 .. Len(graph), NEW phrase, NEW adhere,
         NEW max \in Nat \ {0}, NEW lists \in SUBSET Seq(TableOptions)
  PROVE  StepMakes(graph, k, phrase, adhere, max, lists) \in SUBSET Seq(TableOptions)
<1>1. ASSUME NEW old \in lists
      PROVE  {c.list : c \in AddAllPartial(
                               FlattenSeq([i \in DOMAIN old |->
                                             Process(graph, k, phrase, adhere, old[i])]), max)}
               \subseteq Seq(TableOptions)
  <2>1. old \in Seq(TableOptions) /\ Len(old) \in Nat /\ DOMAIN old = 1 .. Len(old)
    OBVIOUS
  <2>2. ASSUME NEW i \in 1 .. Len(old)
        PROVE  Process(graph, k, phrase, adhere, old[i]) \in Seq(TableOptions)
    <3>1. old[i] \in TableOptions
      BY <2>1, ElementOfSeq
    <3>2. QED
      BY <3>1, ProcessOf
  <2>3. PICK rows : rows = [i \in DOMAIN old |-> Process(graph, k, phrase, adhere, old[i])]
    OBVIOUS
  <2>4. rows \in [1 .. Len(old) -> Seq(TableOptions)]
    BY <2>1, <2>2, <2>3
  <2>5. rows \in Seq(Seq(TableOptions))
    BY <2>1, <2>4, SeqDef
  <2>6. FlattenSeq(rows) \in Seq(TableOptions)
    BY <2>5, Flattened
  <2>7. QED
    BY <2>3, <2>6, ListsOfPartials
<1>2. QED
  BY <1>1 DEF StepMakes

LEMMA TranslationsOf ==
  ASSUME NEW graph, IsGraph(graph), NEW phrase, NEW adhere, NEW max \in Nat \ {0}
  PROVE  Translations(graph, phrase, adhere, max) \subseteq Seq(TableOptions)
<1> DEFINE N == Len(graph)
           first == {c.list : c \in AddAllPartial(Entries(graph[1], phrase, adhere), max)}
           E(f) == f = [k \in 1 .. N |-> IF k = 1 THEN first
                                         ELSE StepMakes(graph, k, phrase, adhere, max, f[k - 1])]
           after == CHOOSE f : E(f)
<1>1. Translations(graph, phrase, adhere, max) = after[N]
  BY DEF Translations, StepMakes
<1>2. N \in Nat /\ 1 <= N /\ 1 \in 1 .. N
  BY DEF IsGraph
<1>3. first \in SUBSET Seq(TableOptions)
  <2>1. IsStep(graph[1])
    BY <1>2, ElementOfSeq DEF IsGraph
  <2>2. Entries(graph[1], phrase, adhere) \in Seq(TableOptions)
    BY <2>1, EntriesOf
  <2>3. QED
    BY <2>2, ListsOfPartials
<1>4. PICK V, G, base : /\ V = SUBSET Seq(TableOptions)
                        /\ G = [p \in Nat \X V |->
                                  IF p[1] \in 1 .. N
                                  THEN StepMakes(graph, p[1], phrase, adhere, max, p[2]) ELSE {}]
                        /\ base = first
  OBVIOUS
<1>5. ASSUME NEW k \in 1 .. N, NEW lists \in V
      PROVE  StepMakes(graph, k, phrase, adhere, max, lists) \in V
  BY <1>4, StepMakesLists
<1>6. G \in [Nat \X V -> V]
  <2>1. {} \in V
    BY <1>4
  <2>2. \A p \in Nat \X V : (IF p[1] \in 1 .. N
                             THEN StepMakes(graph, p[1], phrase, adhere, max, p[2]) ELSE {}) \in V
    BY <1>5, <2>1
  <2>3. QED
    BY <1>4, <2>2
<1>7. base \in V
  BY <1>3, <1>4
<1> HIDE DEF first
<1>8. PICK f \in [1 .. N -> V] : BySteps(f, 1, N, base, G)
  <2>1. 1 \in Nat
    OBVIOUS
  <2> HIDE DEF N
  <2>2. QED
    BY <1>2, <1>6, <1>7, <2>1, FunctionOnNumbers
<1>9. E(f)
  <2>1. ASSUME NEW k \in 1 .. N
        PROVE  f[k] = IF k = 1 THEN first ELSE StepMakes(graph, k, phrase, adhere, max, f[k - 1])
    <3>1. f[k] = IF k = 1 THEN base ELSE G[<<k, f[k - 1]>>]
      BY <1>8 DEF BySteps
    <3>2. CASE k = 1
      BY <1>4, <3>1, <3>2
    <3>3. CASE k # 1
      <4>1. k - 1 \in 1 .. N /\ k \in Nat
        BY <1>2, <3>3
      <4>2. f[k - 1] \in V
        BY <4>1
      <4>3. <<k, f[k - 1]>> \in Nat \X V
        BY <4>1, <4>2
      <4>4. G[<<k, f[k - 1]>>] = StepMakes(graph, k, phrase, adhere, max, f[k - 1])
        BY <1>4, <4>3
      <4>5. QED
        BY <3>1, <3>3, <4>4
    <3>4. QED
      BY <3>2, <3>3
  <2>2. QED
    BY <2>1
<1>10. PICK g : g = after /\ E(g)
  <2> HIDE DEF E
  <2>1. E(after)
    BY <1>9
  <2>2. QED
    BY <2>1
<1>11. \A k \in 1 .. N : g[k] = IF k = 1 THEN first
                                ELSE StepMakes(graph, k, phrase, adhere, max, g[k - 1])
  BY <1>10
<1> DEFINE P == {k \in 1 .. N : g[k] \in V}
<1>12. 1 \in P
  BY <1>2, <1>4, <1>7, <1>11
<1>13. ASSUME NEW k \in 1 .. N - 1, k \in P
       PROVE  k + 1 \in P
  <2>1. k + 1 \in 1 .. N /\ k + 1 # 1 /\ (k + 1) - 1 = k
    BY <1>2
  <2>2. g[k + 1] = StepMakes(graph, k + 1, phrase, adhere, max, g[k])
    BY <1>11, <2>1
  <2>3. g[k + 1] \in V
    BY <1>5, <1>13, <2>1, <2>2
  <2>4. QED
    BY <2>1, <2>3
<1>14. \A k \in 1 .. N : k \in P
  <2>1. 1 \in Nat
    OBVIOUS
  <2> HIDE DEF P, N
  <2>2. QED
    BY <1>2, <1>12, <1>13, <2>1, FromNumber
<1>15. g[N] \in V
  BY <1>2, <1>14
<1>16. Translations(graph, phrase, adhere, max) = g[N]
  <2> HIDE DEF after, N
  <2>1. QED
    BY <1>1, <1>10
<1>17. QED
  BY <1>4, <1>15, <1>16

------------------------------------------------------------------------------
(****************************************************************************)
(* What is read of a line.                                                  *)
(****************************************************************************)
MarkupOptions == [span : Int \X Int, out : OutPhrases, score : Int]

OpenTags == [name : STRING, start : Int, span : Seq(Int),
             translations : Seq(OutPhrases), probs : Seq(Int)]

Tags == [form : {"open", "close", "unary", "both"}, name : STRING, span : Seq(Int),
         translations : Seq(OutPhrases), probs : Seq(Int)]

Readings == [ok : BOOLEAN, words : Seq(STRING), stack : Seq(OpenTags), isLinked : BOOLEAN,
             options : Seq(MarkupOptions), linked : Seq(MarkupOptions),
             walls : SUBSET Int, zones : SUBSET (Int \X Int)]

\* A token is a tag or a word.
LEMMA TokenIs ==
  ASSUME NEW t \in Tokens
  PROVE  (IsTag(t) /\ t \in Tags) \/ (~IsTag(t) /\ t.word \in STRING)
<1>1. CASE t \in [word : STRING]
  BY <1>1 DEF IsTag
<1>2. CASE t \in Tags
  BY <1>2 DEF Tags, IsTag
<1>3. QED
  BY <1>1, <1>2 DEF Tokens, Tags

\* Whatever the markup is, it is read as spans and options.
LEMMA SpanRead ==
  ASSUME NEW got \in Readings, NEW opened \in OpenTags
  PROVE  StartOf(got, opened) \in Int /\ EndOf(got, opened) \in Int
<1>1. PICK s \in Seq(Int) : s = opened.span
  BY DEF OpenTags
<1>2. Len(s) \in Nat /\ (s # <<>> => Len(s) # 0) /\ \A i \in 1 .. Len(s) : s[i] \in Int
  BY EmptySeq, ElementOfSeq
<1>3. opened.start \in Int /\ Len(got.words) \in Nat
  BY DEF OpenTags, Readings
<1>4. StartOf(got, opened) \in Int
  <2>1. CASE s = <<>>
    BY <1>1, <1>3, <2>1 DEF StartOf
  <2>2. CASE s # <<>>
    <3>1. 1 \in 1 .. Len(s)
      BY <1>2, <2>2
    <3>2. s[1] \in Int
      BY <1>2, <3>1
    <3>3. QED
      BY <1>1, <2>2, <3>2 DEF StartOf
  <2>3. QED
    BY <2>1, <2>2
<1>5. EndOf(got, opened) \in Int
  <2>1. CASE Len(s) = 0
    BY <1>1, <1>3, <2>1 DEF EndOf
  <2>2. CASE Len(s) = 1
    <3>1. s[1] \in Int
      BY <1>2, <2>2
    <3>2. QED
      BY <1>1, <2>2, <3>1 DEF EndOf
  <2>3. CASE Len(s) # 0 /\ Len(s) # 1
    <3>1. 2 \in 1 .. Len(s)
      <4>1. PICK x \in Nat : x = Len(s) /\ x # 0 /\ x # 1
        BY <1>2, <2>3
      <4>2. 2 \in 1 .. x
        BY <4>1
      <4>3. QED
        BY <4>1, <4>2
    <3>2. s[2] \in Int
      BY <1>2, <3>1
    <3>3. QED
      BY <1>1, <2>3, <3>2 DEF EndOf
  <2>4. QED
    BY <2>1, <2>2, <2>3
<1>6. QED
  BY <1>4, <1>5

LEMMA OptionsRead ==
  ASSUME NEW opened \in OpenTags, NEW span \in Int \X Int,
         opened.probs = <<>> \/ Len(opened.probs) = Len(opened.translations)
  PROVE  OptionsOf(opened, span) \in Seq(MarkupOptions)
<1>1. PICK ts \in Seq(OutPhrases), ps \in Seq(Int) : ts = opened.translations /\ ps = opened.probs
  BY DEF OpenTags
<1>2. Len(ts) \in Nat /\ DOMAIN ts = 1 .. Len(ts)
  OBVIOUS
<1>3. ASSUME NEW i \in 1 .. Len(ts)
      PROVE  [span |-> span, out |-> ts[i], score |-> IF ps = <<>> THEN 0 ELSE ps[i]]
               \in MarkupOptions
  <2>1. ts[i] \in OutPhrases
    BY ElementOfSeq
  <2>2. (IF ps = <<>> THEN 0 ELSE ps[i]) \in Int
    <3>1. CASE ps = <<>>
      BY <3>1
    <3>2. CASE ps # <<>>
      <4>1. i \in 1 .. Len(ps)
        BY <1>1, <3>2
      <4>2. ps[i] \in Int
        BY <4>1, ElementOfSeq
      <4>3. QED
        BY <3>2, <4>2
    <3>3. QED
      BY <3>1, <3>2
  <2>3. QED
    BY <2>1, <2>2 DEF MarkupOptions
<1>4. PICK l : l = OptionsOf(opened, span)
  OBVIOUS
<1>5. l \in [1 .. Len(ts) -> MarkupOptions]
  BY <1>1, <1>2, <1>3, <1>4 DEF OptionsOf
<1>6. l \in Seq(MarkupOptions)
  <2>1. PICK k \in Nat : k = Len(ts)
    BY <1>2
  <2>2. l \in [1 .. k -> MarkupOptions]
    BY <1>5, <2>1
  <2>3. QED
    BY <2>2, SeqDef
<1>7. QED
  BY <1>4, <1>6

LEMMA TranslationsRead ==
  ASSUME NEW got \in Readings, NEW opened \in OpenTags, NEW span \in Int \X Int, NEW ignore
  PROVE  Translated(got, opened, span, ignore) \in Readings
<1>1. PICK new : new = IF ignore THEN <<>> ELSE OptionsOf(opened, span)
  OBVIOUS
<1>2. Refused(got) \in Readings
  BY DEF Readings, Refused
<1>3. CASE opened.probs # <<>> /\ Len(opened.probs) # Len(opened.translations)
  BY <1>2, <1>3 DEF Translated
<1>4. CASE ~(opened.probs # <<>> /\ Len(opened.probs) # Len(opened.translations))
  <2>1. new \in Seq(MarkupOptions)
    <3>1. <<>> \in Seq(MarkupOptions)
      BY EmptySeq
    <3>2. OptionsOf(opened, span) \in Seq(MarkupOptions)
      BY <1>4, OptionsRead
    <3>3. QED
      BY <1>1, <3>1, <3>2
  <2>2. got.linked \o new \in Seq(MarkupOptions) /\ got.options \o new \in Seq(MarkupOptions)
    BY <2>1, ConcatProperties DEF Readings
  <2>3. [got EXCEPT !.linked = @ \o new] \in Readings
    BY <2>2 DEF Readings
  <2>4. [got EXCEPT !.options = @ \o new] \in Readings
    BY <2>2 DEF Readings
  <2>5. QED
    BY <1>1, <1>4, <2>3, <2>4 DEF Translated
<1>5. QED
  BY <1>3, <1>4

\* The parts of ReadTag.
LEMMA TagCompleted ==
  ASSUME NEW got \in Readings, NEW opened \in OpenTags, NEW ignore
  PROVE  Completed(got, opened, ignore) \in Readings
<1>1. PICK start \in Int, end \in Int : start = StartOf(got, opened) /\ end = EndOf(got, opened)
  BY SpanRead
<1>2. PICK unlinked : unlinked = IF opened.name = "linked" THEN [got EXCEPT !.isLinked = FALSE]
                                 ELSE got
  OBVIOUS
<1>3. unlinked \in Readings
  BY <1>2 DEF Readings
<1>4. [got EXCEPT !.walls = @ \cup WallsOf(start, end)] \in Readings
  <2>1. WallsOf(start, end) \subseteq Int
    BY DEF WallsOf
  <2>2. QED
    BY <2>1 DEF Readings
<1>5. Refused(got) \in Readings
  BY DEF Readings, Refused
<1>6. [got EXCEPT !.zones = @ \cup {<<start, end>>}] \in Readings
  BY DEF Readings
<1>7. Translated(unlinked, opened, <<start, end>>, ignore) \in Readings
  <2>1. <<start, end>> \in Int \X Int
    OBVIOUS
  <2>2. QED
    BY <1>3, <2>1, TranslationsRead
<1>8. CASE opened.name = "wall"
  BY <1>1, <1>4, <1>8 DEF Completed
<1>9. CASE opened.name # "wall" /\ start > end
  BY <1>1, <1>5, <1>9 DEF Completed
<1>10. CASE opened.name # "wall" /\ ~(start > end) /\ opened.name = "zone"
  <2>1. start <= end
    BY <1>10
  <2>2. QED
    BY <1>1, <1>6, <1>10, <2>1 DEF Completed
<1>11. CASE opened.name # "wall" /\ ~(start > end) /\ opened.name # "zone"
  BY <1>1, <1>2, <1>7, <1>11 DEF Completed
<1>12. QED
  BY <1>8, <1>9, <1>10, <1>11

LEMMA TagOpened ==
  ASSUME NEW got \in Readings, NEW tag \in Tags
  PROVE  Opened(got, tag) \in Readings
<1>1. PICK o : o = [name |-> tag.name, start |-> Len(got.words), span |-> tag.span,
                    translations |-> tag.translations, probs |-> tag.probs]
  OBVIOUS
<1>2. o \in OpenTags
  <2>1. Len(got.words) \in Int
    BY DEF Readings
  <2>2. QED
    BY <1>1, <2>1 DEF OpenTags, Tags
<1>3. Append(got.stack, o) \in Seq(OpenTags)
  BY <1>2, AppendProperties DEF Readings
<1>4. PICK flag \in BOOLEAN : flag = (got.isLinked \/ tag.name = "linked")
  OBVIOUS
<1>5. [got EXCEPT !.isLinked = flag, !.stack = Append(got.stack, o)] \in Readings
  BY <1>3 DEF Readings
<1>6. Refused(got) \in Readings
  BY DEF Readings, Refused
<1>7. CASE tag.name = "linked" /\ got.isLinked
  BY <1>6, <1>7 DEF Opened
<1>8. CASE ~(tag.name = "linked" /\ got.isLinked)
  <2>1. Opened(got, tag) = [got EXCEPT !.isLinked = flag, !.stack = Append(got.stack, o)]
    BY <1>1, <1>4, <1>8 DEF Opened, Readings
  <2>2. QED
    BY <1>5, <2>1
<1>9. QED
  BY <1>7, <1>8

LEMMA TagClosed ==
  ASSUME NEW got \in Readings, NEW tag \in Tags, NEW ignore
  PROVE  Closed(got, tag, ignore) \in Readings
<1>1. Refused(got) \in Readings
  BY DEF Readings, Refused
<1>2. CASE got.stack = <<>> \/ Last(got.stack).name # tag.name
  BY <1>1, <1>2 DEF Closed
<1>3. CASE ~(got.stack = <<>> \/ Last(got.stack).name # tag.name)
  <2>1. got.stack \in Seq(OpenTags) /\ got.stack # <<>>
    BY <1>3 DEF Readings
  <2>2. PICK N \in Nat \ {0} : N = Len(got.stack)
    BY <2>1, EmptySeq
  <2>3. Last(got.stack) \in OpenTags
    <3>1. N \in 1 .. Len(got.stack)
      BY <2>2
    <3>2. got.stack[N] \in OpenTags
      BY <2>1, <3>1, ElementOfSeq
    <3>3. QED
      BY <2>2, <3>2 DEF Last
  <2>4. Front(got.stack) \in Seq(OpenTags)
    <3>1. \A i \in 1 .. N - 1 : got.stack[i] \in OpenTags
      BY <2>1, <2>2, ElementOfSeq
    <3>2. SubSeq(got.stack, 1, N - 1) \in Seq(OpenTags)
      BY <3>1, SubSeqProperties
    <3>3. QED
      BY <2>2, <3>2 DEF Front
  <2>5. [got EXCEPT !.stack = Front(@)] \in Readings
    BY <2>4 DEF Readings
  <2>6. QED
    BY <1>3, <2>3, <2>5, TagCompleted DEF Closed
<1>4. QED
  BY <1>2, <1>3

\* One token.
ReadToken(got, t, ignore) ==
  IF ~got.ok THEN got
  ELSE IF IsTag(t) THEN ReadTag(got, t, ignore)
  ELSE [got EXCEPT !.words = Append(@, t.word)]

LEMMA TokenRead ==
  ASSUME NEW got \in Readings, NEW t \in Tokens, NEW ignore
  PROVE  ReadToken(got, t, ignore) \in Readings
<1>1. CASE IsTag(t)
  <2>1. t \in Tags
    BY <1>1, TokenIs
  <2>2. Refused(got) \in Readings
    BY DEF Readings, Refused
  <2>3. PICK o \in Readings : o = Opened(got, t)
    BY <2>1, TagOpened
  <2>4. Closed(got, t, ignore) \in Readings /\ Closed(o, t, ignore) \in Readings
    BY <2>1, TagClosed
  <2>5. ReadTag(got, t, ignore) \in {Refused(got), o, Closed(got, t, ignore), Closed(o, t, ignore)}
    <3>1. t.form \in {"open", "close", "unary", "both"}
      BY <2>1 DEF Tags
    <3>2. CASE t.form = "both"
      BY <3>2 DEF ReadTag
    <3>3. CASE t.form = "open"
      BY <2>3, <3>3 DEF ReadTag
    <3>4. CASE t.form = "close"
      BY <3>4 DEF ReadTag
    <3>5. CASE t.form = "unary"
      BY <2>3, <3>5 DEF ReadTag
    <3>6. QED
      BY <3>1, <3>2, <3>3, <3>4, <3>5
  <2>6. QED
    BY <1>1, <2>2, <2>3, <2>4, <2>5 DEF ReadToken
<1>2. CASE ~IsTag(t)
  <2>1. t.word \in STRING
    BY <1>2, TokenIs
  <2>2. Append(got.words, t.word) \in Seq(STRING)
    BY <2>1, AppendProperties DEF Readings
  <2>3. [got EXCEPT !.words = Append(@, t.word)] \in Readings
    BY <2>2 DEF Readings
  <2>4. QED
    BY <1>2, <2>3 DEF ReadToken
<1>3. QED
  BY <1>1, <1>2

\* A line is read token by token.
LEMMA LineRead ==
  ASSUME NEW line \in Seq(Tokens), NEW ignore
  PROVE  ProcessAndStripXMLTags(line, ignore) \in Readings
<1> DEFINE I == DOMAIN line
           E(f) == f = [s \in SUBSET I |->
                          IF s = {} THEN NothingRead
                          ELSE ReadToken(f[s \ {Max(s)}], line[Max(s)], ignore)]
           iter == CHOOSE f : E(f)
<1>1. FoldLeft(LAMBDA r, t : IF ~r.ok THEN r
                             ELSE IF IsTag(t) THEN ReadTag(r, t, ignore)
                             ELSE [r EXCEPT !.words = Append(@, t.word)],
               NothingRead, line) = iter[I]
  BY DEF FoldLeft, MapThenFoldSet, ReadToken
<1>2. IsFiniteSet(I) /\ I \subseteq Int /\ \A i \in I : line[i] \in Tokens
  <2>1. Len(line) \in Nat /\ I = 1 .. Len(line)
    OBVIOUS
  <2>2. IsFiniteSet(1 .. Len(line)) /\ 1 .. Len(line) \subseteq Int
    BY <2>1, FS_Interval
  <2>3. QED
    BY <2>1, <2>2, ElementOfSeq
<1>3. PICK c, V, G, base : /\ c = [s \in SUBSET I |-> Max(s)]
                           /\ V = Readings
                           /\ G = [p \in I \X V |-> ReadToken(p[2], line[p[1]], ignore)]
                           /\ base = NothingRead
  OBVIOUS
<1>4. base \in V
  <2>1. <<>> \in Seq(STRING) /\ <<>> \in Seq(OpenTags) /\ <<>> \in Seq(MarkupOptions)
    BY EmptySeq
  <2>2. NothingRead \in Readings
    BY <2>1 DEF NothingRead, Readings
  <2>3. QED
    BY <1>3, <2>2
<1>5. ASSUME NEW r \in V, NEW i \in I
      PROVE  ReadToken(r, line[i], ignore) \in V
  <2>1. r \in Readings /\ line[i] \in Tokens
    BY <1>2, <1>3
  <2>2. QED
    BY <1>3, <2>1, TokenRead
<1>6. G \in [I \X V -> V]
  <2>1. \A p \in I \X V : ReadToken(p[2], line[p[1]], ignore) \in V
    BY <1>5
  <2>2. QED
    BY <1>3, <2>1
<1>7. Chooses(c, I)
  BY <1>2, <1>3, MaxChooses
<1>8. \A s \in SUBSET I : s # {} => Max(s) \in s /\ Max(s) \in I /\ s \ {Max(s)} \in SUBSET I
  BY <1>3, <1>7 DEF Chooses
<1> HIDE DEF I
<1>9. PICK f \in [SUBSET I -> V] : ByElements(f, I, c, base, G)
  BY <1>2, <1>4, <1>6, <1>7, FunctionOnSubsets
<1>10. E(f)
  <2>1. ASSUME NEW s \in SUBSET I, s # {}
        PROVE  f[s] = ReadToken(f[s \ {Max(s)}], line[Max(s)], ignore)
    <3>1. c[s] = Max(s) /\ Max(s) \in I /\ f[s \ {Max(s)}] \in V
      BY <1>3, <1>8, <2>1
    <3>2. f[s] = G[<<Max(s), f[s \ {Max(s)}]>>]
      BY <1>9, <2>1, <3>1 DEF ByElements
    <3>3. <<Max(s), f[s \ {Max(s)}]>> \in I \X V
      BY <3>1
    <3>4. G[<<Max(s), f[s \ {Max(s)}]>>] = ReadToken(f[s \ {Max(s)}], line[Max(s)], ignore)
      BY <1>3, <3>3
    <3>5. QED
      BY <3>2, <3>4
  <2>2. f[{}] = NothingRead
    BY <1>3, <1>9 DEF ByElements
  <2>3. QED
    BY <2>1, <2>2
<1>11. PICK g : g = iter /\ E(g)
  <2> HIDE DEF E
  <2>1. E(iter)
    BY <1>10
  <2>2. QED
    BY <2>1
<1>12. /\ g[{}] = base
       /\ \A s \in SUBSET I : s # {} => g[s] = ReadToken(g[s \ {Max(s)}], line[Max(s)], ignore)
  BY <1>3, <1>11
<1> DEFINE P == {s \in SUBSET I : g[s] \in V}
<1>13. {} \in P
  BY <1>4, <1>12
<1>14. ASSUME NEW s \in SUBSET I, s # {}, \A x \in s : s \ {x} \in P
       PROVE  s \in P
  <2>1. Max(s) \in I /\ g[s \ {Max(s)}] \in V
    BY <1>8, <1>14
  <2>2. ReadToken(g[s \ {Max(s)}], line[Max(s)], ignore) \in V
    BY <1>5, <2>1
  <2>3. g[s] \in V
    BY <1>12, <1>14, <2>2
  <2>4. QED
    BY <2>3
<1>15. \A s \in SUBSET I : s \in P
  <2> HIDE DEF P
  <2>1. QED
    BY <1>2, <1>13, <1>14, SetInduction
<1>16. g[I] \in Readings
  BY <1>3, <1>15
<1>17. PICK r \in Readings : r = iter[I]
  <2> HIDE DEF iter
  <2>1. QED
    BY <1>11, <1>16
<1>18. Refused(r) \in Readings
  BY DEF Readings, Refused
<1>19. ProcessAndStripXMLTags(line, ignore) = IF r.stack = <<>> THEN r ELSE Refused(r)
  <2> HIDE DEF iter
  <2>1. QED
    BY <1>1, <1>17 DEF ProcessAndStripXMLTags
<1>20. QED
  BY <1>18, <1>19

------------------------------------------------------------------------------
(****************************************************************************)
(* The lists of a sentence.                                                 *)
(****************************************************************************)
PhrasesOf(size, max) == {r \in SpansOf(size) : r[2] - r[1] < max}

CallsOf(graphs, size, max) ==
  {<<g, r[1], r[2]>> : g \in DOMAIN graphs, r \in PhrasesOf(size, max)}

\* The calls of the loops.
LoopCalls(graphs, size, max) ==
  FlattenSeq([g \in DOMAIN graphs |->
    FlattenSeq([first \in 1 .. size |->
      [length \in 1 .. Min({max, size - first + 1}) |->
         <<g, first - 1, first + length - 2>>]])])

\* The loops ask for phrases only, of graphs there are.
LEMMA LoopsCall ==
  ASSUME NEW graphs, graphs \in Seq(Range(graphs)), NEW size \in Nat, NEW max \in Nat \ {0}
  PROVE  LoopCalls(graphs, size, max) \in Seq(CallsOf(graphs, size, max))
<1> DEFINE C == CallsOf(graphs, size, max)
           ofStart(g, first) == [length \in 1 .. Min({max, size - first + 1}) |->
                                   <<g, first - 1, first + length - 2>>]
           ofGraph(g) == FlattenSeq([first \in 1 .. size |-> ofStart(g, first)])
<1>1. Len(graphs) \in Nat /\ DOMAIN graphs = 1 .. Len(graphs)
  OBVIOUS
<1>2. ASSUME NEW g \in DOMAIN graphs, NEW first \in 1 .. size
      PROVE  ofStart(g, first) \in Seq(C)
  <2>1. PICK T : T = {max, size - first + 1}
    OBVIOUS
  <2>2. T \subseteq Nat /\ T # {}
    BY <2>1
  <2>3. PICK m : m = Min(T)
    OBVIOUS
  <2>4. m \in T /\ \A y \in T : m <= y
    BY <2>2, <2>3, MinOf
  <2>5. m \in Nat /\ m <= max /\ m <= size - first + 1
    BY <2>1, <2>2, <2>4
  <2>6. ASSUME NEW length \in 1 .. m
        PROVE  <<g, first - 1, first + length - 2>> \in C
    <3>1. PICK a \in Int, b \in Int : a = first - 1 /\ b = first + length - 2
      OBVIOUS
    <3>2. /\ 0 <= a /\ a <= size - 1 /\ 0 <= b /\ b <= size - 1 /\ a <= b /\ b - a < max
      BY <2>5, <3>1
    <3>3. PICK r : r = <<a, b>>
      OBVIOUS
    <3>4. r[1] = a /\ r[2] = b /\ r \in PhrasesOf(size, max)
      BY <3>2, <3>3 DEF SpansOf, PhrasesOf
    <3>5. <<g, r[1], r[2]>> \in C
      BY <3>4 DEF CallsOf
    <3>6. QED
      BY <3>1, <3>4, <3>5
  <2>7. PICK row : row = ofStart(g, first)
    OBVIOUS
  <2>8. row = [length \in 1 .. m |-> <<g, first - 1, first + length - 2>>]
    BY <2>1, <2>3, <2>7
  <2>9. row \in [1 .. m -> C]
    <3> HIDE DEF C
    <3>1. QED
      BY <2>6, <2>8
  <2>10. row \in Seq(C)
    BY <2>5, <2>9, SeqDef
  <2>11. QED
    BY <2>7, <2>10
<1> HIDE DEF C, ofStart
<1>3. ASSUME NEW g \in DOMAIN graphs
      PROVE  ofGraph(g) \in Seq(C)
  <2>1. PICK rows : rows = [first \in 1 .. size |-> ofStart(g, first)]
    OBVIOUS
  <2>2. rows \in [1 .. size -> Seq(C)]
    BY <1>2, <2>1
  <2>3. rows \in Seq(Seq(C))
    BY <2>2, SeqDef
  <2>4. QED
    BY <2>1, <2>3, Flattened
<1> HIDE DEF ofGraph
<1>4. PICK all : all = [g \in DOMAIN graphs |-> ofGraph(g)]
  OBVIOUS
<1>5. all \in [1 .. Len(graphs) -> Seq(C)]
  BY <1>1, <1>3, <1>4
<1>6. all \in Seq(Seq(C))
  <2>1. PICK k \in Nat : k = Len(graphs)
    BY <1>1
  <2>2. all \in [1 .. k -> Seq(C)]
    BY <1>5, <2>1
  <2>3. QED
    BY <2>2, SeqDef
<1>7. FlattenSeq(all) \in Seq(C)
  BY <1>6, Flattened
<1>8. LoopCalls(graphs, size, max) = FlattenSeq(all)
  BY <1>4 DEF LoopCalls, ofGraph, ofStart
<1>9. QED
  BY <1>7, <1>8 DEF C

Origins == {"table", "xml", "unknown"}

\* Options, and those of a span.
AnyOptions == [out : FullPhrases, score : Int, span : Int \X Int, from : Origins]
OptionsOn(r) == [out : FullPhrases, score : Int, span : {r}, from : Origins]

\* All options have scores, and those of a span are options.
LEMMA OptionsScored == Scored(AnyOptions) /\ Scored(TableOptions) /\ \A r : Scored(OptionsOn(r))
BY DEF Scored, AnyOptions, TableOptions, OptionsOn

LEMMA SomeOptions ==
  ASSUME NEW r \in Int \X Int
  PROVE  OptionsOn(r) \subseteq AnyOptions /\ Seq(OptionsOn(r)) \subseteq Seq(AnyOptions)
<1>1. OptionsOn(r) \subseteq AnyOptions
  BY DEF OptionsOn, AnyOptions
<1>2. QED
  BY <1>1, SeqMonotonic

\* What the tables, the cache and the markup add to the list of a span.
LEMMA MadeOptions ==
  ASSUME NEW r, NEW list \in Seq(TableOptions)
  PROVE  Options(list, r) \in Seq(OptionsOn(r))
<1>1. PICK k \in Nat : k = Len(list) /\ DOMAIN list = 1 .. k
  OBVIOUS
<1>2. ASSUME NEW i \in 1 .. k
      PROVE  [out |-> list[i].out, score |-> list[i].score, span |-> r, from |-> "table"]
               \in OptionsOn(r)
  <2>1. list[i] \in TableOptions
    BY <1>1, ElementOfSeq
  <2>2. QED
    BY <2>1 DEF TableOptions, OptionsOn, Origins
<1>3. PICK l : l = Options(list, r)
  OBVIOUS
<1>4. l \in [1 .. k -> OptionsOn(r)]
  BY <1>1, <1>2, <1>3 DEF Options
<1>5. l \in Seq(OptionsOn(r))
  BY <1>4, SeqDef
<1>6. QED
  BY <1>3, <1>5

LEMMA CopiedOptions ==
  ASSUME NEW r, NEW list \in Seq(AnyOptions)
  PROVE  Copied(list, r) \in Seq(OptionsOn(r))
<1>1. PICK k \in Nat : k = Len(list) /\ DOMAIN list = 1 .. k
  OBVIOUS
<1>2. ASSUME NEW i \in 1 .. k
      PROVE  [list[i] EXCEPT !.span = r] \in OptionsOn(r)
  <2>1. list[i] \in AnyOptions
    BY <1>1, ElementOfSeq
  <2>2. QED
    BY <2>1 DEF AnyOptions, OptionsOn
<1>3. PICK l : l = Copied(list, r)
  OBVIOUS
<1>4. l \in [1 .. k -> OptionsOn(r)]
  BY <1>1, <1>2, <1>3 DEF Copied
<1>5. l \in Seq(OptionsOn(r))
  BY <1>4, SeqDef
<1>6. QED
  BY <1>3, <1>5

LEMMA MarkedOptions ==
  ASSUME NEW r, read \in Readings
  PROVE  XmlOptions(r) \in Seq(OptionsOn(r))
<1>1. PICK I : I = {i \in DOMAIN Xml : Xml[i].span = r}
  OBVIOUS
<1>2. Xml \in Seq(MarkupOptions) /\ I \in SUBSET (DOMAIN Xml)
  BY <1>1 DEF Xml, Readings
<1>3. PICK list \in Seq(MarkupOptions) : list = Stay(Xml, I)
  BY <1>2, StayOf
<1>4. PICK k \in Nat : k = Len(list) /\ DOMAIN list = 1 .. k
  OBVIOUS
<1>5. ASSUME NEW i \in 1 .. k
      PROVE  [out |-> list[i].out, score |-> list[i].score, span |-> r, from |-> "xml"]
               \in OptionsOn(r)
  <2>1. list[i] \in MarkupOptions
    BY <1>4, ElementOfSeq
  <2>2. list[i].out \in FullPhrases
    BY <2>1, MarkupPhrases DEF MarkupOptions
  <2>3. list[i].score \in Int
    BY <2>1 DEF MarkupOptions
  <2>4. QED
    BY <2>2, <2>3 DEF OptionsOn, Origins
<1>6. PICK l : l = XmlOptions(r)
  OBVIOUS
<1>7. l = [i \in DOMAIN list |-> [out |-> list[i].out, score |-> list[i].score,
                                  span |-> r, from |-> "xml"]]
  BY <1>1, <1>3, <1>6 DEF XmlOptions
<1>8. l \in [1 .. k -> OptionsOn(r)]
  BY <1>4, <1>5, <1>7
<1>9. l \in Seq(OptionsOn(r))
  BY <1>8, SeqDef
<1>10. QED
  BY <1>6, <1>9

------------------------------------------------------------------------------
(****************************************************************************)
(* The cache.                                                               *)
(****************************************************************************)
CacheTyped(c, t) ==
  /\ IsFiniteSet(DOMAIN c)
  /\ c \in [DOMAIN c -> [list : Seq(AnyOptions), used : Nat]]
  /\ \A k \in DOMAIN c : c[k].used <= t

\* No two entries were used at the same time.
CacheDistinct(c) == \A k, l \in DOMAIN c : c[k].used = c[l].used => k = l

CacheWithin(c, max) == max > 1 => Cardinality(DOMAIN c) <= max

\* Half the size.
LEMMA Half ==
  ASSUME NEW max \in Nat
  PROVE  max \div 2 \in Nat /\ (max > 1 => max \div 2 >= 1)
OBVIOUS

\* The loop leaves a time on the queue; in a cache that is one over its size,
\* no more entries than it may have.
LEMMA PoppedIs ==
  ASSUME NEW size \in Nat, NEW max \in Nat \ {0}, size > max
  PROVE  /\ Popped(size, max) \in 0 .. size - 1
         /\ size = max + 1 /\ max > 1 => Popped(size, max) + 1 <= max
<1>1. PICK h \in Nat : h = max \div 2 /\ (max > 1 => h >= 1)
  BY Half
<1>2. PICK T : T = {i \in 0 .. size : i >= size - i - h}
  OBVIOUS
<1>3. size - 1 \in T
  BY <1>2
<1>4. T \subseteq Nat /\ T # {}
  BY <1>2, <1>3
<1>5. PICK m : m = Min(T)
  OBVIOUS
<1>6. m \in T /\ \A y \in T : m <= y
  BY <1>4, <1>5, MinOf
<1>7. Popped(size, max) = m
  BY <1>1, <1>2, <1>5 DEF Popped
<1>8. m \in 0 .. size - 1
  BY <1>2, <1>3, <1>6
<1>9. ASSUME size = max + 1, max > 1
      PROVE  m + 1 <= max
  <2>1. max - 1 \in 0 .. size /\ max - 1 >= size - (max - 1) - h
    BY <1>1, <1>9
  <2>2. max - 1 \in T
    BY <1>2, <2>1
  <2>3. m <= max - 1 /\ m \in Int
    BY <1>6, <1>8, <2>2
  <2>4. QED
    BY <2>3
<1>10. QED
  BY <1>7, <1>8, <1>9

LaterThan(c, t) == {k \in DOMAIN c : c[k].used > t}
AsLateAs(c, t) == {k \in DOMAIN c : c[k].used >= t}
IsCutoff(c, p, t) == Cardinality(LaterThan(c, t)) <= p /\ p < Cardinality(AsLateAs(c, t))

\* There is a time that more than p entries were used at or after, but no
\* more than p after it.
LEMMA CutoffExists ==
  ASSUME NEW c, NEW time, CacheTyped(c, time), NEW p \in Nat, p < Cardinality(DOMAIN c)
  PROVE  \E t \in {c[k].used : k \in DOMAIN c} : IsCutoff(c, p, t)
<1>1. PICK D : D = DOMAIN c /\ IsFiniteSet(D) /\ \A k \in D : c[k].used \in Nat
  BY DEF CacheTyped
<1>0. PICK used : used = [k \in D |-> c[k].used]
  OBVIOUS
<1>2. used = [k \in D |-> c[k].used] /\ \A k \in D : used[k] \in Nat
  BY <1>0, <1>1
<1>3. PICK E : E = {k \in D : p < Cardinality(AsLateAs(c, used[k]))}
  OBVIOUS
<1>4. D # {}
  <2>1. Cardinality({}) = 0
    BY FS_EmptySet
  <2>2. QED
    BY <1>1, <2>1
<1>5. E # {}
  <2>1. PICK V : V = {used[k] : k \in D}
    OBVIOUS
  <2>2. V \subseteq Nat /\ V # {}
    BY <1>2, <1>4, <2>1
  <2>3. PICK v \in V : \A w \in V : v <= w
    BY <2>2, LeastNatural
  <2>4. PICK k \in D : v = used[k]
    BY <2>1
  <2>5. \A l \in D : c[l].used >= used[k]
    BY <1>2, <2>1, <2>3, <2>4
  <2>6. AsLateAs(c, used[k]) = D
    BY <1>1, <2>5 DEF AsLateAs
  <2>7. QED
    BY <1>1, <1>3, <2>4, <2>6
<1>6. IsFiniteSet(E)
  BY <1>1, <1>3, FS_Subset
<1>7. (\E k \in E : Max({used[x] : x \in E}) = used[k]) /\ \A k \in E : used[k] <= Max({used[x] : x \in E})
  <2>1. \A k \in E : used[k] \in Int
    BY <1>2, <1>3
  <2>2. QED
    BY <1>5, <1>6, <2>1, MaxOfValues
<1>8. PICK k \in E : \A l \in E : used[l] <= used[k]
  BY <1>7
<1>9. k \in D /\ used[k] = c[k].used /\ p < Cardinality(AsLateAs(c, used[k]))
  BY <1>2, <1>3
<1>10. Cardinality(LaterThan(c, used[k])) <= p
  <2>1. CASE LaterThan(c, used[k]) = {}
    BY <2>1, FS_EmptySet
  <2>2. CASE LaterThan(c, used[k]) # {}
    <3>1. PICK V : V = {used[l] : l \in LaterThan(c, used[k])}
      OBVIOUS
    <3>2. LaterThan(c, used[k]) \subseteq D /\ \A l \in LaterThan(c, used[k]) : used[l] > used[k]
      BY <1>1, <1>2 DEF LaterThan
    <3>3. V \subseteq Nat /\ V # {}
      BY <1>2, <2>2, <3>1, <3>2
    <3>4. PICK v \in V : \A w \in V : v <= w
      BY <3>3, LeastNatural
    <3>5. PICK l \in LaterThan(c, used[k]) : v = used[l]
      BY <3>1
    <3>6. \A x \in D : c[x].used > used[k] <=> c[x].used >= used[l]
      <4>1. SUFFICES ASSUME NEW x \in D
                     PROVE  used[x] > used[k] <=> used[x] >= used[l]
        BY <1>2
      <4>2. used[x] \in Nat /\ used[k] \in Nat /\ used[l] \in Nat /\ used[l] > used[k]
        BY <1>2, <1>9, <3>2
      <4>3. ASSUME used[x] > used[k]
            PROVE  used[x] >= used[l]
        <5>1. x \in LaterThan(c, used[k])
          BY <1>1, <1>2, <4>3 DEF LaterThan
        <5>2. used[l] <= used[x]
          BY <3>1, <3>4, <3>5, <5>1
        <5>3. QED
          BY <4>2, <5>2
      <4>4. QED
        BY <4>2, <4>3
    <3>7. LaterThan(c, used[k]) = AsLateAs(c, used[l])
      BY <1>1, <3>6 DEF LaterThan, AsLateAs
    <3>8. l \notin E
      <4>1. ~(used[l] <= used[k])
        BY <1>2, <1>9, <3>2
      <4>2. QED
        BY <1>8, <4>1
    <3>9. ~(p < Cardinality(AsLateAs(c, used[l])))
      BY <1>3, <3>2, <3>8
    <3>10. Cardinality(AsLateAs(c, used[l])) \in Nat
      <4>1. AsLateAs(c, used[l]) \subseteq D
        BY <1>1 DEF AsLateAs
      <4>2. QED
        BY <1>1, <4>1, FS_Subset, FS_CardinalityType
    <3>11. QED
      BY <3>7, <3>9, <3>10
  <2>3. QED
    BY <2>1, <2>2
<1>11. IsCutoff(c, p, c[k].used)
  BY <1>9, <1>10 DEF IsCutoff
<1>12. QED
  BY <1>1, <1>9, <1>11

\* Reducing a cache: something stays, of what was used last, and one entry
\* too many is enough to get it within its size.
ReducedTo(c, r, max) ==
  /\ DOMAIN r \subseteq DOMAIN c /\ \A k \in DOMAIN r : r[k] = c[k]
  /\ DOMAIN c # {} => DOMAIN r # {}
  /\ \A gone \in DOMAIN c \ DOMAIN r, stays \in DOMAIN r : c[gone].used < r[stays].used

\* What ReduceTransOptCache makes of a cache.
LEMMA CacheReduced ==
  ASSUME NEW c, NEW time, CacheTyped(c, time), NEW max \in Nat \ {0},
         NEW r, r = ReduceTransOptCache(c, max)
  PROVE  /\ CacheTyped(r, time) /\ ReducedTo(c, r, max)
         /\ CacheDistinct(c) => CacheDistinct(r)
         /\ CacheDistinct(c) /\ Cardinality(DOMAIN c) <= max + 1 => CacheWithin(r, max)
<1>1. PICK D : D = DOMAIN c /\ IsFiniteSet(D) /\ \A k \in D : c[k].used \in Nat
  BY DEF CacheTyped
<1>2. PICK N \in Nat : N = Cardinality(D)
  BY <1>1, FS_CardinalityType
<1>3. CASE N <= max
  <2>1. r = c
    BY <1>1, <1>2, <1>3 DEF ReduceTransOptCache
  <2>2. CacheWithin(r, max)
    BY <1>1, <1>2, <1>3, <2>1 DEF CacheWithin
  <2>3. QED
    BY <2>1, <2>2 DEF ReducedTo
<1>4. CASE ~(N <= max)
  <2>1. r = Reduced(c, max)
    BY <1>1, <1>2, <1>4 DEF ReduceTransOptCache
  <2>2. PICK p : p = Popped(N, max)
    OBVIOUS
  <2>3. p \in 0 .. N - 1 /\ (N = max + 1 /\ max > 1 => p + 1 <= max)
    <3>1. N > max
      BY <1>4
    <3>2. QED
      BY <2>2, <3>1, PoppedIs
  <2>4. PICK t : t = Cutoff(c, max)
    OBVIOUS
  <2>5. t \in {c[k].used : k \in D} /\ IsCutoff(c, p, t)
    <3>1. p \in Nat /\ p < Cardinality(DOMAIN c)
      BY <1>1, <1>2, <2>3
    <3>2. \E x \in {c[k].used : k \in DOMAIN c} : IsCutoff(c, p, x)
      BY <3>1, CutoffExists
    <3>3. t = CHOOSE x \in {c[k].used : k \in DOMAIN c} : IsCutoff(c, p, x)
      BY <1>1, <1>2, <2>2, <2>4 DEF Cutoff, IsCutoff, LaterThan, AsLateAs
    <3>4. QED
      BY <1>1, <3>2, <3>3
  <2>6. r = [k \in AsLateAs(c, t) |-> c[k]]
    BY <2>1, <2>4 DEF Reduced, AsLateAs
  <2>7. DOMAIN r = AsLateAs(c, t) /\ \A k \in DOMAIN r : r[k] = c[k]
    BY <2>6
  <2>8. t \in Nat /\ DOMAIN r \subseteq D /\ IsFiniteSet(DOMAIN r)
    <3>1. DOMAIN r \subseteq D
      BY <1>1, <2>7 DEF AsLateAs
    <3>2. t \in Nat
      BY <1>1, <2>5
    <3>3. QED
      BY <1>1, <3>1, <3>2, FS_Subset
  <2>9. CacheTyped(r, time)
    <3>1. r \in [DOMAIN r -> [list : Seq(AnyOptions), used : Nat]]
      BY <1>1, <2>6, <2>7, <2>8 DEF CacheTyped
    <3>2. \A k \in DOMAIN r : r[k].used <= time
      BY <1>1, <2>7, <2>8 DEF CacheTyped
    <3>3. QED
      BY <2>8, <3>1, <3>2 DEF CacheTyped
  <2>10. ReducedTo(c, r, max)
    <3>1. DOMAIN r # {}
      BY <1>1, <2>5, <2>7, <2>8 DEF AsLateAs
    <3>2. ASSUME NEW gone \in DOMAIN c \ DOMAIN r, NEW stays \in DOMAIN r
          PROVE  c[gone].used < r[stays].used
      <4>1. ~(c[gone].used >= t) /\ c[gone].used \in Nat
        BY <1>1, <2>7 DEF AsLateAs
      <4>2. c[stays].used >= t /\ r[stays] = c[stays] /\ c[stays].used \in Nat
        BY <1>1, <2>7, <2>8 DEF AsLateAs
      <4>3. QED
        BY <2>8, <4>1, <4>2
    <3>3. QED
      BY <1>1, <2>7, <2>8, <3>1, <3>2 DEF ReducedTo
  <2>11. ASSUME CacheDistinct(c)
         PROVE  CacheDistinct(r)
    BY <1>1, <2>7, <2>8, <2>11 DEF CacheDistinct
  <2>12. ASSUME CacheDistinct(c), N <= max + 1
         PROVE  CacheWithin(r, max)
    <3>1. SUFFICES ASSUME max > 1
                   PROVE  Cardinality(DOMAIN r) <= max
      BY DEF CacheWithin
    <3>2. N = max + 1 /\ p + 1 <= max /\ p \in Nat
      BY <1>4, <2>3, <2>12, <3>1
    <3>3. PICK k \in D : c[k].used = t
      BY <2>5
    <3>4. DOMAIN r = LaterThan(c, t) \cup {k}
      <4>1. ASSUME NEW x \in DOMAIN r, x \notin LaterThan(c, t)
            PROVE  x = k
        <5>1. x \in D /\ c[x].used >= t /\ ~(c[x].used > t) /\ c[x].used \in Nat
          BY <1>1, <2>7, <2>8, <4>1 DEF AsLateAs, LaterThan
        <5>2. c[x].used = c[k].used
          BY <2>8, <3>3, <5>1
        <5>3. QED
          BY <1>1, <2>12, <3>3, <5>1, <5>2 DEF CacheDistinct
      <4>2. k \in DOMAIN r
        BY <1>1, <2>7, <2>8, <3>3 DEF AsLateAs
      <4>3. LaterThan(c, t) \subseteq DOMAIN r
        BY <1>1, <2>7, <2>8 DEF LaterThan, AsLateAs
      <4>4. QED
        BY <4>1, <4>2, <4>3
    <3>5. IsFiniteSet(LaterThan(c, t))
      BY <1>1, FS_Subset DEF LaterThan
    <3>6. Cardinality(LaterThan(c, t)) <= p /\ Cardinality(LaterThan(c, t)) \in Nat
      BY <2>5, <3>5, FS_CardinalityType DEF IsCutoff
    <3>7. Cardinality(DOMAIN r) <= Cardinality(LaterThan(c, t)) + 1
      <4>1. PICK S : S = LaterThan(c, t)
        OBVIOUS
      <4>2. IsFiniteSet(S) /\ DOMAIN r = S \cup {k} /\ Cardinality(S) \in Nat
        BY <3>4, <3>5, <3>6, <4>1
      <4>3. Cardinality(S \cup {k}) = IF k \in S THEN Cardinality(S) ELSE Cardinality(S) + 1
        BY <4>2, FS_AddElement
      <4>4. Cardinality(DOMAIN r) = Cardinality(S) \/ Cardinality(DOMAIN r) = Cardinality(S) + 1
        BY <4>2, <4>3
      <4>5. QED
        BY <4>1, <4>2, <4>4
    <3>8. Cardinality(DOMAIN r) \in Nat
      BY <2>8, FS_CardinalityType
    <3>9. QED
      BY <3>2, <3>6, <3>7, <3>8
  <2>13. QED
    BY <1>1, <1>2, <2>9, <2>10, <2>11, <2>12
<1>5. QED
  BY <1>3, <1>4

\* What a step may do to a cache.
CacheMoves(c, d, time, max, tick) ==
  /\ CacheTyped(d, time)
  /\ \A gone \in DOMAIN c \ DOMAIN d, stays \in DOMAIN d : c[gone].used < d[stays].used
  /\ DOMAIN d # {} \/ DOMAIN c = {}
  /\ tick = 1 /\ CacheDistinct(c) /\ CacheWithin(c, max) => CacheDistinct(d) /\ CacheWithin(d, max)

\* A cache that is left alone, one where a list was found, and one that got a
\* new list.
LEMMA CacheStays ==
  ASSUME NEW c, NEW time \in Nat, CacheTyped(c, time), NEW max, NEW tick
  PROVE  CacheMoves(c, c, time, max, tick)
BY DEF CacheMoves

LEMMA CacheTouched ==
  ASSUME NEW c, NEW time \in Nat, CacheTyped(c, time), NEW max, NEW tick \in {0, 1},
         NEW key \in DOMAIN c
  PROVE  CacheMoves(c, Touched(c, key, time + tick), time + tick, max, tick)
<1>1. PICK t \in Nat : t = time + tick /\ (tick = 1 => time < t) /\ time <= t
  OBVIOUS
<1>2. PICK d : d = Touched(c, key, t)
  OBVIOUS
<1>3. \A k \in DOMAIN c : c[k] \in [list : Seq(AnyOptions), used : Nat] /\ c[k].used <= time
  BY DEF CacheTyped
<1>4. d = [c EXCEPT ![key].used = t]
  BY <1>2 DEF Touched
<1>5. /\ DOMAIN d = DOMAIN c /\ d[key] = [c[key] EXCEPT !.used = t]
      /\ \A k \in DOMAIN c : k # key => d[k] = c[k]
  <2>1. c \in [DOMAIN c -> [list : Seq(AnyOptions), used : Nat]]
    BY DEF CacheTyped
  <2>2. QED
    BY <1>4, <2>1
<1>6. d[key] \in [list : Seq(AnyOptions), used : Nat] /\ d[key].used = t
  BY <1>3, <1>5
<1>7. \A k \in DOMAIN c : /\ d[k] \in [list : Seq(AnyOptions), used : Nat]
                          /\ d[k].used <= t
                          /\ k # key => d[k].used = c[k].used /\ d[k].used <= time
  <2>1. SUFFICES ASSUME NEW k \in DOMAIN c
                 PROVE  /\ d[k] \in [list : Seq(AnyOptions), used : Nat]
                        /\ d[k].used <= t
                        /\ k # key => d[k].used = c[k].used /\ d[k].used <= time
    OBVIOUS
  <2>2. CASE k = key
    BY <1>6, <2>2
  <2>3. CASE k # key
    <3>1. d[k] = c[k] /\ c[k].used \in Nat /\ c[k].used <= time
      BY <1>3, <1>5, <2>3
    <3>2. QED
      BY <1>1, <1>3, <2>3, <3>1
  <2>4. QED
    BY <2>2, <2>3
<1>8. CacheTyped(d, t)
  <2>1. d = [k \in DOMAIN d |-> d[k]]
    BY <1>4
  <2>2. d \in [DOMAIN d -> [list : Seq(AnyOptions), used : Nat]]
    BY <1>5, <1>7, <2>1
  <2>3. IsFiniteSet(DOMAIN d)
    BY <1>5 DEF CacheTyped
  <2>4. QED
    BY <1>5, <1>7, <2>2, <2>3 DEF CacheTyped
<1>9. ASSUME tick = 1, CacheDistinct(c), CacheWithin(c, max)
      PROVE  CacheDistinct(d) /\ CacheWithin(d, max)
  <2>1. \A k \in DOMAIN c : k # key => d[k].used # d[key].used
    BY <1>1, <1>6, <1>7, <1>9
  <2>2. CacheDistinct(d)
    BY <1>5, <1>7, <1>9, <2>1 DEF CacheDistinct
  <2>3. CacheWithin(d, max)
    BY <1>5, <1>9 DEF CacheWithin
  <2>4. QED
    BY <2>2, <2>3
<1>10. CacheMoves(c, d, t, max, tick)
  BY <1>5, <1>8, <1>9 DEF CacheMoves
<1>11. QED
  BY <1>1, <1>2, <1>10

LEMMA CacheAdded ==
  ASSUME NEW c, NEW time \in Nat, CacheTyped(c, time), NEW max \in Nat \ {0},
         NEW tick \in {0, 1}, NEW key, key \notin DOMAIN c, NEW list \in Seq(AnyOptions)
  PROVE  CacheMoves(c, AddTransOptListToCache(c, key, list, time + tick, max),
                    time + tick, max, tick)
<1>1. PICK t \in Nat : t = time + tick /\ (tick = 1 => time < t) /\ time <= t
  OBVIOUS
<1>2. PICK e : e = [k \in DOMAIN c \cup {key} |-> IF k = key THEN [list |-> list, used |-> t]
                                                  ELSE c[k]]
  OBVIOUS
<1>3. PICK d : d = ReduceTransOptCache(e, max)
  OBVIOUS
<1>4. d = AddTransOptListToCache(c, key, list, t, max)
  BY <1>2, <1>3 DEF AddTransOptListToCache
<1>5. \A k \in DOMAIN c : c[k] \in [list : Seq(AnyOptions), used : Nat] /\ c[k].used <= time
  BY DEF CacheTyped
<1>6. /\ DOMAIN e = DOMAIN c \cup {key} /\ e[key] = [list |-> list, used |-> t]
      /\ \A k \in DOMAIN c : e[k] = c[k] /\ k # key
  BY <1>2
<1>7. \A k \in DOMAIN e : e[k] \in [list : Seq(AnyOptions), used : Nat] /\ e[k].used <= t
  <2>1. e[key] \in [list : Seq(AnyOptions), used : Nat] /\ e[key].used <= t
    BY <1>6
  <2>2. ASSUME NEW k \in DOMAIN c
        PROVE  e[k] \in [list : Seq(AnyOptions), used : Nat] /\ e[k].used <= t
    <3>1. e[k] = c[k] /\ c[k].used \in Nat /\ c[k].used <= time
      BY <1>5, <1>6
    <3>2. QED
      BY <1>1, <1>5, <3>1
  <2>3. QED
    BY <1>6, <2>1, <2>2
<1>8. IsFiniteSet(DOMAIN c) /\ IsFiniteSet(DOMAIN e) /\ Cardinality(DOMAIN e) = Cardinality(DOMAIN c) + 1
  <2>1. IsFiniteSet(DOMAIN c)
    BY DEF CacheTyped
  <2>2. QED
    BY <1>6, <2>1, FS_AddElement
<1>9. CacheTyped(e, t)
  <2>1. e \in [DOMAIN e -> [list : Seq(AnyOptions), used : Nat]]
    BY <1>2, <1>6, <1>7
  <2>2. QED
    BY <1>7, <1>8, <2>1 DEF CacheTyped
<1>10. /\ CacheTyped(d, t) /\ ReducedTo(e, d, max)
       /\ CacheDistinct(e) => CacheDistinct(d)
       /\ CacheDistinct(e) /\ Cardinality(DOMAIN e) <= max + 1 => CacheWithin(d, max)
  BY <1>3, <1>9, CacheReduced
<1>11. ASSUME NEW gone \in DOMAIN c \ DOMAIN d, NEW stays \in DOMAIN d
       PROVE  c[gone].used < d[stays].used
  <2>1. gone \in DOMAIN e \ DOMAIN d /\ e[gone] = c[gone]
    BY <1>6
  <2>2. e[gone].used < d[stays].used
    BY <1>10, <2>1 DEF ReducedTo
  <2>3. QED
    BY <2>1, <2>2
<1>12. DOMAIN d # {}
  BY <1>6, <1>10 DEF ReducedTo
<1>13. ASSUME tick = 1, CacheDistinct(c), CacheWithin(c, max)
       PROVE  CacheDistinct(d) /\ CacheWithin(d, max)
  <2>1. CacheDistinct(e)
    <3>1. \A k \in DOMAIN c : e[k].used # e[key].used
      <4>1. SUFFICES ASSUME NEW k \in DOMAIN c
                     PROVE  e[k].used # e[key].used
        OBVIOUS
      <4>2. e[key].used = t /\ e[k].used = c[k].used /\ c[k].used \in Nat /\ c[k].used <= time
        BY <1>5, <1>6
      <4>3. QED
        BY <1>1, <1>13, <4>2
    <3>2. ASSUME NEW k \in DOMAIN e, NEW l \in DOMAIN e, e[k].used = e[l].used
          PROVE  k = l
      <4>1. CASE k = key \/ l = key
        BY <1>6, <3>1, <3>2, <4>1
      <4>2. CASE k # key /\ l # key
        BY <1>6, <1>13, <3>2, <4>2 DEF CacheDistinct
      <4>3. QED
        BY <4>1, <4>2
    <3>3. QED
      BY <3>2 DEF CacheDistinct
  <2>2. CacheWithin(d, max)
    <3>1. CASE max > 1
      <4>1. Cardinality(DOMAIN c) <= max /\ Cardinality(DOMAIN c) \in Nat
        BY <1>8, <1>13, <3>1, FS_CardinalityType DEF CacheWithin
      <4>2. Cardinality(DOMAIN e) <= max + 1
        BY <1>8, <4>1
      <4>3. QED
        BY <1>10, <2>1, <4>2
    <3>2. CASE ~(max > 1)
      BY <3>2 DEF CacheWithin
    <3>3. QED
      BY <3>1, <3>2
  <2>3. QED
    BY <1>10, <2>1, <2>2
<1>14. CacheMoves(c, d, t, max, tick)
  BY <1>10, <1>11, <1>12, <1>13 DEF CacheMoves
<1>15. QED
  BY <1>1, <1>4, <1>14

------------------------------------------------------------------------------
(****************************************************************************)
(* What the tables, the cache and the markup give a span.                   *)
(****************************************************************************)
Confs == {start[1] : start \in Starts}

\* What the settings are.
LEMMA ConfIs ==
  ASSUME NEW c \in Confs
  PROVE  /\ c.maxPhraseLength \in Nat \ {0} /\ c.maxPartial \in Nat \ {0} /\ c.cacheMax \in Nat \ {0}
         /\ c.maxOptions \in Nat /\ c.threshold \in Int /\ c.threshold <= 0 /\ c.tick \in {0, 1}
         /\ c.graphs \in Seq(Range(c.graphs))
         /\ \A g \in DOMAIN c.graphs : IsGraph(c.graphs[g])
<1>1. /\ {c.maxPhraseLength, c.maxPartial, c.cacheMax} \subseteq Nat \ {0}
      /\ c.maxOptions \in Nat /\ c.threshold \in Int /\ c.threshold <= 0 /\ c.tick \in {0, 1}
      /\ c.graphs \in Seq(Range(c.graphs))
      /\ \A graph \in Range(c.graphs) :
           /\ graph \in Seq(Range(graph)) /\ Len(graph) > 0
           /\ \A step \in Range(graph) : IsStep(step)
  BY ConfAssumption DEF Confs
<1>2. ASSUME NEW g \in DOMAIN c.graphs
      PROVE  IsGraph(c.graphs[g])
  <2>1. c.graphs[g] \in Range(c.graphs)
    BY DEF Range
  <2>2. QED
    BY <1>1, <2>1 DEF IsGraph
<1>3. QED
  BY <1>1, <1>2

\* Whatever the tables or the cache add is of the span, and what it does to the
\* cache.
LEMMA TablesGiveOptions ==
  ASSUME conf \in Confs, now \in Nat, CacheTyped(cache, now),
         NEW r \in Int \X Int, collection[r] \in Seq(OptionsOn(r)),
         NEW g \in DOMAIN conf.graphs, NEW adhere,
         NEW made \in FromTables(g, r, adhere)
  PROVE  /\ made.list \in Seq(OptionsOn(r)) /\ made.now \in Nat
         /\ CacheMoves(cache, made.cache, made.now, conf.cacheMax, conf.tick)
<1>1. PICK key, time, old : /\ key = CacheKey(g, Phrase(r)) /\ time = now + conf.tick
                            /\ old = collection[r]
  OBVIOUS
<1>2. /\ conf.tick \in {0, 1} /\ conf.cacheMax \in Nat \ {0} /\ conf.maxPartial \in Nat \ {0}
      /\ IsGraph(conf.graphs[g])
  BY ConfIs
<1>3. old \in Seq(OptionsOn(r)) /\ time \in Nat
  BY <1>1, <1>2
<1>4. PICK Lists : Lists = Translations(conf.graphs[g], Phrase(r), adhere, conf.maxPartial)
  OBVIOUS
<1>5. Lists \subseteq Seq(TableOptions)
  BY <1>2, <1>4, TranslationsOf
<1>6. CASE Excluded(r)
  <2>1. made = [list |-> old, cache |-> cache, now |-> now]
    BY <1>1, <1>6 DEF FromTables
  <2>2. CacheMoves(cache, cache, now, conf.cacheMax, conf.tick)
    BY CacheStays
  <2>3. QED
    BY <1>3, <2>1, <2>2
<1>7. CASE ~Excluded(r) /\ conf.useCache /\ key \in DOMAIN cache
  <2>1. made = [list |-> old \o Copied(cache[key].list, r),
                cache |-> Touched(cache, key, time), now |-> time]
    BY <1>1, <1>7 DEF FromTables
  <2>2. cache[key].list \in Seq(AnyOptions)
    BY <1>7 DEF CacheTyped
  <2>3. Copied(cache[key].list, r) \in Seq(OptionsOn(r))
    BY <2>2, CopiedOptions
  <2>4. old \o Copied(cache[key].list, r) \in Seq(OptionsOn(r))
    BY <1>3, <2>3, ConcatProperties
  <2>5. CacheMoves(cache, Touched(cache, key, now + conf.tick), now + conf.tick,
                   conf.cacheMax, conf.tick)
    BY <1>2, <1>7, CacheTouched
  <2>6. QED
    BY <1>1, <1>3, <2>1, <2>4, <2>5
<1>8. CASE ~Excluded(r) /\ ~(conf.useCache /\ key \in DOMAIN cache)
  <2>1. PICK l \in Lists :
          made = IF conf.useCache /\ l # <<>>
                 THEN [list  |-> old \o Options(l, r), now |-> time,
                       cache |-> AddTransOptListToCache(cache, key, old \o Options(l, r),
                                                        time, conf.cacheMax)]
                 ELSE [list |-> old \o Options(l, r), cache |-> cache, now |-> now]
    BY <1>1, <1>4, <1>8 DEF FromTables
  <2>2. PICK list : list = old \o Options(l, r)
    OBVIOUS
  <2>3. list \in Seq(OptionsOn(r))
    <3>1. l \in Seq(TableOptions)
      BY <1>5
    <3>2. Options(l, r) \in Seq(OptionsOn(r))
      BY <3>1, MadeOptions
    <3>3. QED
      BY <1>3, <2>2, <3>2, ConcatProperties
  <2>4. CASE conf.useCache /\ l # <<>>
    <3>1. made = [list |-> list, now |-> time,
                  cache |-> AddTransOptListToCache(cache, key, list, time, conf.cacheMax)]
      BY <2>1, <2>2, <2>4
    <3>2. list \in Seq(AnyOptions)
      BY <2>3, SomeOptions
    <3>3. key \notin DOMAIN cache
      BY <1>8, <2>4
    <3>4. CacheMoves(cache, AddTransOptListToCache(cache, key, list, now + conf.tick, conf.cacheMax),
                     now + conf.tick, conf.cacheMax, conf.tick)
      BY <1>2, <3>2, <3>3, CacheAdded
    <3>5. QED
      BY <1>1, <1>3, <2>3, <3>1, <3>4
  <2>5. CASE ~(conf.useCache /\ l # <<>>)
    <3>1. made = [list |-> list, cache |-> cache, now |-> now]
      BY <2>1, <2>2, <2>5
    <3>2. CacheMoves(cache, cache, now, conf.cacheMax, conf.tick)
      BY CacheStays
    <3>3. QED
      BY <2>3, <3>1, <3>2
  <2>6. QED
    BY <2>4, <2>5
<1>9. QED
  BY <1>6, <1>7, <1>8

------------------------------------------------------------------------------
(****************************************************************************)
(* Pruning.                                                                 *)
(****************************************************************************)

\* What pruning may make of a list.
KeepsBest(old, kept) ==
  LET high == {o \in ToSet(old) : \A x \in ToSet(old) : o.score >= x.score}
  IN  /\ ToSet(kept) \subseteq ToSet(old)
      /\ high # {} => high \cap ToSet(kept) # {}
      /\ conf.maxOptions > 0 => Len(kept) <= conf.maxOptions
      /\ \A o \in ToSet(kept), b \in high : o.score >= b.score + conf.threshold
      /\ \A o \in ToSet(old) \ ToSet(kept) :
           /\ \A x \in ToSet(kept) : o.score <= x.score
           /\ \/ conf.maxOptions > 0 /\ Len(old) > conf.maxOptions
              \/ \E b \in high : o.score < b.score + conf.threshold

\* Size pruning leaves the best.
LEMMA SizePruned ==
  ASSUME conf \in Confs, NEW O, Scored(O), NEW old \in Seq(O), old # <<>>, NEW mid \in BySize(old)
  PROVE  /\ mid \in Seq(O) /\ mid # <<>> /\ Range(mid) \subseteq Range(old)
         /\ conf.maxOptions > 0 => Len(mid) <= conf.maxOptions
         /\ BestScore(mid) = BestScore(old)
         /\ \A o \in Range(old) \ Range(mid) :
              /\ \A x \in Range(mid) : o.score <= x.score
              /\ conf.maxOptions > 0 /\ Len(old) > conf.maxOptions
<1>1. conf.maxOptions \in Nat /\ Len(old) \in Nat
  BY ConfIs
<1>2. CASE ~(conf.maxOptions > 0 /\ Len(old) > conf.maxOptions)
  <2>1. mid = old
    BY <1>2 DEF BySize
  <2>2. QED
    BY <1>1, <1>2, <2>1
<1>3. CASE conf.maxOptions > 0 /\ Len(old) > conf.maxOptions
  <2>1. mid \in KeepBest(old, conf.maxOptions)
    BY <1>3 DEF BySize
  <2>2. mid \in Seq(O) /\ Len(mid) = conf.maxOptions
    BY <1>1, <2>1, KeptBest
  <2>3. PICK I \in SUBSET (DOMAIN old) :
          /\ mid = Stay(old, I) /\ Cardinality(I) = conf.maxOptions
          /\ \A i \in I, j \in DOMAIN old \ I : ~Better(old[j], old[i])
    BY <1>1, <2>1, KeptBest
  <2>4. \A i \in DOMAIN old : old[i] \in O /\ old[i].score \in Int
    BY ElementOfSeq DEF Scored
  <2>5. \A i \in I, j \in DOMAIN old \ I : old[j].score <= old[i].score
    BY <2>3, <2>4 DEF Better
  <2>6. Range(mid) = {old[i] : i \in I}
    BY <2>3, StayOf
  <2>7. I # {}
    <3>1. Cardinality({}) = 0
      BY FS_EmptySet
    <3>2. QED
      BY <1>1, <1>3, <2>3, <3>1
  <2>8. mid # <<>> /\ Range(mid) \subseteq Range(old)
    <3>1. mid # <<>>
      BY <2>3, <2>7, StayOf
    <3>2. QED
      BY <2>6, <3>1 DEF Range
  <2>9. ASSUME NEW o \in Range(old) \ Range(mid)
        PROVE  \A x \in Range(mid) : o.score <= x.score
    <3>1. PICK j \in DOMAIN old \ I : o = old[j]
      BY <2>6 DEF Range
    <3>2. QED
      BY <2>5, <2>6, <3>1
  <2>10. BestScore(mid) = BestScore(old)
    <3>1. /\ BestScore(old) \in Int
          /\ \E i \in DOMAIN old : old[i].score = BestScore(old)
          /\ \A i \in DOMAIN old : old[i].score <= BestScore(old)
      BY BestScoreOf
    <3>2. /\ BestScore(mid) \in Int
          /\ \E i \in DOMAIN mid : mid[i].score = BestScore(mid)
          /\ \A i \in DOMAIN mid : mid[i].score <= BestScore(mid)
      BY <2>2, <2>8, BestScoreOf
    <3>3. /\ \E x \in Range(mid) : x.score = BestScore(mid)
          /\ \A x \in Range(mid) : x.score <= BestScore(mid)
      BY <3>2 DEF Range
    <3>4. \A i \in I : old[i].score <= BestScore(mid)
      BY <2>6, <3>3
    <3>5. PICK k \in I : old[k].score = BestScore(mid)
      BY <2>6, <3>3
    <3>6. PICK i \in DOMAIN old : old[i].score = BestScore(old)
      BY <3>1
    <3>7. old[i].score <= BestScore(mid)
      <4>1. CASE i \in I
        BY <3>4, <4>1
      <4>2. CASE i \notin I
        BY <2>5, <3>5, <4>2
      <4>3. QED
        BY <4>1, <4>2
    <3>8. BestScore(mid) <= BestScore(old)
      BY <3>1, <3>5
    <3>9. QED
      BY <3>1, <3>2, <3>6, <3>7, <3>8
  <2>11. QED
    BY <1>1, <1>3, <2>2, <2>8, <2>9, <2>10
<1>4. QED
  BY <1>2, <1>3

\* Both prunings leave the best.
LEMMA PrunedOf ==
  ASSUME conf \in Confs, NEW O, Scored(O), NEW old \in Seq(O), NEW kept \in Pruned(old)
  PROVE  kept \in Seq(O) /\ (old # <<>> => kept # <<>>) /\ KeepsBest(old, kept)
<1>1. /\ conf.maxOptions \in Nat /\ conf.threshold \in Int /\ conf.threshold <= 0
      /\ Len(old) \in Nat /\ ToSet(old) = Range(old) /\ ToSet(kept) = Range(kept)
  <2>1. conf.maxOptions \in Nat /\ conf.threshold \in Int /\ conf.threshold <= 0
    BY ConfIs
  <2>2. Len(old) \in Nat
    OBVIOUS
  <2>3. ToSet(old) = Range(old) /\ ToSet(kept) = Range(kept)
    BY DEF ToSet, Range
  <2>4. QED
    BY <2>1, <2>2, <2>3
<1>2. PICK mid \in BySize(old) : kept = WithinThreshold(mid)
  BY DEF Pruned
<1>3. PICK I : I = {i \in DOMAIN mid : mid[i].score >= BestScore(mid) + conf.threshold}
  OBVIOUS
<1>4. kept = Stay(mid, I) /\ I \in SUBSET (DOMAIN mid)
  BY <1>2, <1>3 DEF WithinThreshold
<1>5. CASE old = <<>>
  <2>1. Len(old) = 0
    BY <1>5, EmptySeq
  <2>2. mid = old
    BY <1>1, <2>1 DEF BySize
  <2>3. DOMAIN mid = {}
    BY <1>5, <2>2
  <2>4. kept \in Seq(O) /\ Range(kept) = {mid[i] : i \in I} /\ Len(kept) = Cardinality(I)
    BY <1>4, <2>2, StayOf
  <2>5. I = {} /\ Cardinality(I) = 0
    BY <1>3, <2>3, FS_EmptySet
  <2>6. Range(kept) = {} /\ Len(kept) = 0 /\ Range(old) = {}
    BY <1>5, <2>4, <2>5 DEF Range
  <2>7. KeepsBest(old, kept)
    BY <1>1, <2>6 DEF KeepsBest
  <2>8. QED
    BY <1>5, <2>4, <2>7
<1>6. CASE old # <<>>
  <2>1. /\ mid \in Seq(O) /\ mid # <<>> /\ Range(mid) \subseteq Range(old)
        /\ conf.maxOptions > 0 => Len(mid) <= conf.maxOptions
        /\ BestScore(mid) = BestScore(old)
        /\ \A o \in Range(old) \ Range(mid) :
             /\ \A x \in Range(mid) : o.score <= x.score
             /\ conf.maxOptions > 0 /\ Len(old) > conf.maxOptions
    BY <1>6, SizePruned
  <2>2. kept \in Seq(O) /\ Range(kept) = {mid[i] : i \in I} /\ Len(kept) = Cardinality(I)
    BY <1>4, <2>1, StayOf
  <2>3. \A x \in Range(old) : x.score \in Int
    BY ElementOfSeq DEF Scored, Range
  <2>4. PICK B \in Int : B = BestScore(old)
    BY <1>6, BestScoreOf
  <2>5. (\E x \in Range(old) : x.score = B) /\ \A x \in Range(old) : x.score <= B
    BY <1>6, <2>4, BestScoreOf DEF Range
  <2>6. PICK i \in DOMAIN mid : mid[i].score = B
    BY <2>1, <2>4, BestScoreOf
  <2>7. Range(kept) = {x \in Range(mid) : x.score >= B + conf.threshold}
    <3>1. I = {k \in DOMAIN mid : mid[k].score >= B + conf.threshold}
      BY <1>3, <2>1, <2>4
    <3>2. QED
      BY <2>2, <3>1 DEF Range
  <2>8. mid[i] \in Range(kept) /\ mid[i] \in Range(old) /\ i \in I
    <3>1. B >= B + conf.threshold
      BY <1>1
    <3>2. i \in I
      BY <1>3, <2>1, <2>4, <2>6, <3>1
    <3>3. QED
      BY <2>1, <2>2, <3>2 DEF Range
  <2>9. PICK high : high = {o \in Range(old) : \A x \in Range(old) : o.score >= x.score}
    OBVIOUS
  <2>10. mid[i] \in high /\ \A b \in high : b.score = B
    <3>1. mid[i] \in high
      BY <2>3, <2>5, <2>6, <2>8, <2>9
    <3>2. ASSUME NEW b \in high
          PROVE  b.score = B
      <4>1. b.score \in Int /\ b.score >= B /\ b.score <= B
        BY <2>3, <2>5, <2>9
      <4>2. QED
        BY <4>1
    <3>3. QED
      BY <3>1, <3>2
  <2>11. kept # <<>>
    BY <1>4, <2>1, <2>8, StayOf
  <2>12. ASSUME conf.maxOptions > 0
         PROVE  Len(kept) <= conf.maxOptions
    <3>1. Len(mid) \in Nat /\ DOMAIN mid = 1 .. Len(mid) /\ Len(mid) <= conf.maxOptions
      BY <2>1, <2>12
    <3>2. IsFiniteSet(1 .. Len(mid)) /\ Cardinality(1 .. Len(mid)) = Len(mid)
      <4>1. PICK k \in Nat : k = Len(mid)
        BY <3>1
      <4>2. IsFiniteSet(1 .. k) /\ Cardinality(1 .. k) = k
        BY FS_Interval
      <4>3. QED
        BY <4>1, <4>2
    <3>3. Cardinality(I) <= Len(mid)
      BY <1>4, <3>1, <3>2, FS_Subset
    <3>4. Len(kept) \in Nat
      BY <2>2
    <3>5. QED
      BY <1>1, <2>2, <3>1, <3>3, <3>4
  <2>13. ASSUME NEW o \in Range(old) \ Range(kept)
         PROVE  /\ \A x \in Range(kept) : o.score <= x.score
                /\ \/ conf.maxOptions > 0 /\ Len(old) > conf.maxOptions
                   \/ \E b \in high : o.score < b.score + conf.threshold
    <3>1. CASE o \notin Range(mid)
      BY <2>1, <2>7, <3>1
    <3>2. CASE o \in Range(mid)
      <4>1. o.score \in Int /\ ~(o.score >= B + conf.threshold)
        BY <2>3, <2>7, <3>2
      <4>2. o.score < B + conf.threshold
        BY <1>1, <4>1
      <4>3. ASSUME NEW x \in Range(kept)
            PROVE  o.score <= x.score
        <5>1. x.score \in Int /\ x.score >= B + conf.threshold
          BY <2>1, <2>3, <2>7
        <5>2. QED
          BY <1>1, <4>1, <4>2, <5>1
      <4>4. \E b \in high : o.score < b.score + conf.threshold
        BY <2>10, <4>2
      <4>5. QED
        BY <4>3, <4>4
    <3>3. QED
      BY <3>1, <3>2
  <2>14. Range(kept) \subseteq Range(old)
    BY <2>1, <2>7
  <2>15. \A o \in Range(kept), b \in high : o.score >= b.score + conf.threshold
    BY <2>7, <2>10
  <2>16. KeepsBest(old, kept)
    BY <1>1, <2>8, <2>9, <2>10, <2>12, <2>13, <2>14, <2>15 DEF KeepsBest
  <2>17. QED
    BY <2>2, <2>11, <2>16
<1>7. QED
  BY <1>5, <1>6

\* All the lists are pruned, each for itself.
WithList(r, done, lists) == {[c EXCEPT ![r] = l] : c \in done, l \in lists}

\* A collection with another list for one span.
LEMMA WithListIs ==
  ASSUME NEW r, NEW done, NEW lists, NEW e \in WithList(r, done, lists)
  PROVE  \E h \in done, l \in lists : e = [h EXCEPT ![r] = l]
BY DEF WithList

LEMMA WithListTyped ==
  ASSUME NEW D, NEW L, NEW r \in D, NEW done, done \subseteq [D -> L],
         NEW lists, lists \subseteq L
  PROVE  WithList(r, done, lists) \subseteq [D -> L]
<1>1. SUFFICES ASSUME NEW e \in WithList(r, done, lists)
               PROVE  e \in [D -> L]
  OBVIOUS
<1>2. PICK h \in done, l \in lists : e = [h EXCEPT ![r] = l]
  BY WithListIs
<1>3. h \in [D -> L] /\ l \in L
  OBVIOUS
<1>4. QED
  BY <1>2, <1>3

PruneAlso(r, done) == WithList(r, done, Pruned(collection[r]))

\* Every list is pruned for itself.
LEMMA AllPruned ==
  ASSUME conf \in Confs, Size \in Nat, collection \in [PhraseSpans -> Seq(AnyOptions)],
         NEW d \in PrunedLists
  PROVE  d \in [PhraseSpans -> Seq(AnyOptions)] /\ \A r \in PhraseSpans : d[r] \in Pruned(collection[r])
<1> DEFINE I == PhraseSpans
           first(s) == CHOOSE x \in s : TRUE
           E(f) == f = [s \in SUBSET I |-> IF s = {} THEN {collection}
                                           ELSE PruneAlso(first(s), f[s \ {first(s)}])]
           iter == CHOOSE f : E(f)
<1>1. PrunedLists = iter[I]
  BY DEF PrunedLists, FoldSet, MapThenFoldSet, PruneAlso, WithList
<1>2. IsFiniteSet(I)
  BY SpansFinite, FS_Subset DEF PhraseSpans
<1>3. \A s : s # {} => first(s) \in s
  OBVIOUS
<1> HIDE DEF first
<1>4. PICK c, V, G, base : /\ c = [s \in SUBSET I |-> first(s)]
                           /\ V = SUBSET [I -> Seq(AnyOptions)]
                           /\ G = [p \in I \X V |-> PruneAlso(p[1], p[2])]
                           /\ base = {collection}
  OBVIOUS
<1>5. base \in V
  BY <1>4
<1>6. \A r \in I : Pruned(collection[r]) \subseteq Seq(AnyOptions)
  BY OptionsScored, PrunedOf
<1>7. ASSUME NEW done \in V, NEW r \in I
      PROVE  PruneAlso(r, done) \in V
  <2>1. done \subseteq [I -> Seq(AnyOptions)] /\ Pruned(collection[r]) \subseteq Seq(AnyOptions)
    BY <1>4, <1>6
  <2>2. PruneAlso(r, done) \subseteq [I -> Seq(AnyOptions)]
    <3> HIDE DEF I
    <3>1. QED
      BY <2>1, WithListTyped DEF PruneAlso
  <2>3. QED
    BY <1>4, <2>2
<1>8. G \in [I \X V -> V]
  <2>1. \A p \in I \X V : PruneAlso(p[1], p[2]) \in V
    BY <1>7
  <2>2. QED
    BY <1>4, <2>1
<1>9. Chooses(c, I)
  BY <1>3, <1>4 DEF Chooses
<1>10. \A s \in SUBSET I : s # {} => first(s) \in s /\ first(s) \in I /\ s \ {first(s)} \in SUBSET I
  BY <1>3
<1> HIDE DEF I
<1>11. PICK f \in [SUBSET I -> V] : ByElements(f, I, c, base, G)
  BY <1>2, <1>5, <1>8, <1>9, FunctionOnSubsets
<1>12. E(f)
  <2>1. ASSUME NEW s \in SUBSET I, s # {}
        PROVE  f[s] = PruneAlso(first(s), f[s \ {first(s)}])
    <3>1. c[s] = first(s) /\ first(s) \in I /\ f[s \ {first(s)}] \in V
      BY <1>4, <1>10, <2>1
    <3>2. f[s] = G[<<first(s), f[s \ {first(s)}]>>]
      BY <1>11, <2>1, <3>1 DEF ByElements
    <3>3. <<first(s), f[s \ {first(s)}]>> \in I \X V
      BY <3>1
    <3>4. G[<<first(s), f[s \ {first(s)}]>>] = PruneAlso(first(s), f[s \ {first(s)}])
      BY <1>4, <3>3
    <3>5. QED
      BY <3>2, <3>4
  <2>2. f[{}] = {collection}
    BY <1>4, <1>11 DEF ByElements
  <2>3. QED
    BY <2>1, <2>2
<1>13. PICK g : g = iter /\ E(g)
  <2> HIDE DEF E
  <2>1. E(iter)
    BY <1>12
  <2>2. QED
    BY <2>1
<1>14. /\ g[{}] = base
       /\ \A s \in SUBSET I : s # {} => g[s] = PruneAlso(first(s), g[s \ {first(s)}])
  BY <1>4, <1>13
<1> DEFINE Right(s) == \A e \in g[s] : /\ e \in [I -> Seq(AnyOptions)]
                                       /\ \A r \in s : e[r] \in Pruned(collection[r])
           P == {s \in SUBSET I : Right(s)}
<1>15. {} \in P
  BY <1>4, <1>14 DEF I
<1>16. ASSUME NEW s \in SUBSET I, s # {}, \A x \in s : s \ {x} \in P
       PROVE  s \in P
  <2>1. PICK r : r = first(s) /\ r \in s /\ r \in I
    BY <1>10, <1>16
  <2>2. Right(s \ {r})
    BY <1>16, <2>1
  <2>3. ASSUME NEW e \in g[s]
        PROVE  e \in [I -> Seq(AnyOptions)] /\ \A q \in s : e[q] \in Pruned(collection[q])
    <3>1. e \in PruneAlso(r, g[s \ {r}])
      BY <1>14, <1>16, <2>1
    <3>2. PICK h \in g[s \ {r}], l \in Pruned(collection[r]) : e = [h EXCEPT ![r] = l]
      BY <3>1, WithListIs DEF PruneAlso
    <3>3. h \in [I -> Seq(AnyOptions)] /\ \A q \in s \ {r} : h[q] \in Pruned(collection[q])
      BY <2>2
    <3>4. l \in Seq(AnyOptions)
      BY <1>6, <2>1
    <3>5. e \in [I -> Seq(AnyOptions)]
      BY <3>2, <3>3, <3>4
    <3>6. e[r] = l /\ \A q \in s \ {r} : e[q] = h[q]
      BY <2>1, <3>2, <3>3
    <3>7. QED
      BY <2>1, <3>3, <3>5, <3>6
  <2>4. QED
    BY <2>3
<1>17. \A s \in SUBSET I : s \in P
  <2> HIDE DEF P
  <2>1. QED
    BY <1>2, <1>15, <1>16, SetInduction
<1>18. Right(I)
  BY <1>17
<1>19. d \in g[I]
  <2>1. d \in iter[I]
    <3> HIDE DEF iter
    <3>1. QED
      BY <1>1 DEF I
  <2> HIDE DEF iter
  <2>2. QED
    BY <1>13, <2>1
<1>20. QED
  BY <1>18, <1>19 DEF I

------------------------------------------------------------------------------
(****************************************************************************)
(* The invariant.                                                           *)
(****************************************************************************)
States == {"create", "expand", "prune", "sort", "done", "aborted"}

\* The lists have options of their span.
ListsInv ==
  /\ collection \in [PhraseSpans -> Seq(AnyOptions)]
  /\ \A r \in PhraseSpans : collection[r] \in Seq(OptionsOn(r))

WordsHaveOptions == \A p \in 0 .. Size - 1 : collection[<<p, p>>] # <<>>

\* What the search begins with.
ReadyInv ==
  /\ \A r \in PhraseSpans : Descending(collection[r])
  /\ future = FillMatrix(Size, [r \in Known |-> collection[r][1].score])

CacheInv ==
  /\ now \in Nat /\ CacheTyped(cache, now)
  /\ conf.tick = 1 => CacheDistinct(cache) /\ CacheWithin(cache, conf.cacheMax)

OptionsInv ==
  /\ conf \in Confs /\ session \in Seq(Seq(Tokens)) /\ n \in Nat /\ read \in Readings
  /\ pc \in States /\ CacheInv
  /\ pc \in {"create", "expand"} => todo \in Seq(CallsOf(conf.graphs, Size, conf.maxPhraseLength))
  /\ pc \in States \ {"done", "aborted"} => n > 0
  /\ n > 0 /\ pc # "aborted" => ListsInv
  /\ n > 0 /\ pc \in {"prune", "sort", "done"} => WordsHaveOptions
  /\ n > 0 /\ pc = "done" => ReadyInv

\* The sentence and its phrases.
LEMMA SizeIs ==
  ASSUME read \in Readings, conf \in Confs
  PROVE  /\ Size \in Nat /\ \A p \in 0 .. Size - 1 : Words[p + 1] \in STRING
         /\ PhraseSpans = PhrasesOf(Size, conf.maxPhraseLength)
         /\ PhraseSpans \subseteq Int \X Int
         /\ \A p \in 0 .. Size - 1 : <<p, p>> \in PhraseSpans
<1>1. Words \in Seq(STRING)
  BY DEF Words, Readings
<1>2. Size \in Nat /\ \A p \in 0 .. Size - 1 : Words[p + 1] \in STRING
  <2>1. PICK k \in Nat : k = Len(Words)
    BY <1>1
  <2>2. \A p \in 0 .. k - 1 : p + 1 \in 1 .. k
    OBVIOUS
  <2>3. QED
    BY <1>1, <2>1, <2>2, ElementOfSeq DEF Size
<1>3. PICK k \in Nat : k = Size
  BY <1>2
<1>4. conf.maxPhraseLength \in Nat \ {0}
  BY ConfIs
<1>5. PhraseSpans = PhrasesOf(k, conf.maxPhraseLength)
  BY <1>3 DEF PhraseSpans, PhrasesOf
<1>6. PhraseSpans \subseteq Int \X Int
  BY <1>5 DEF PhrasesOf, SpansOf
<1>7. \A p \in 0 .. k - 1 : <<p, p>> \in PhrasesOf(k, conf.maxPhraseLength)
  BY <1>4 DEF PhrasesOf, SpansOf
<1>8. QED
  BY <1>2, <1>3, <1>5, <1>6, <1>7

\* Before the first sentence.
LEMMA InitOptions == Init => OptionsInv
<1>1. SUFFICES ASSUME Init
               PROVE  OptionsInv
  OBVIOUS
<1>2. PICK start \in Starts : conf = start[1] /\ session = start[2]
  BY <1>1 DEF Init
<1>3. conf \in Confs /\ session \in Seq(Seq(Tokens))
  BY <1>2, LineAssumption DEF Confs
<1>4. read \in Readings
  <2>1. <<>> \in Seq(STRING) /\ <<>> \in Seq(OpenTags) /\ <<>> \in Seq(MarkupOptions)
    BY EmptySeq
  <2>2. QED
    BY <1>1, <2>1 DEF Init, NothingRead, Readings
<1>5. CacheInv
  <2>1. cache = [key \in {} |-> 0] /\ DOMAIN cache = {} /\ now = 0
    BY <1>1 DEF Init, EmptyCache
  <2>2. IsFiniteSet(DOMAIN cache) /\ Cardinality(DOMAIN cache) = 0
    BY <2>1, FS_EmptySet
  <2>3. CacheTyped(cache, now)
    BY <2>1, <2>2 DEF CacheTyped
  <2>4. CacheDistinct(cache) /\ CacheWithin(cache, conf.cacheMax)
    <3>1. CacheDistinct(cache)
      BY <2>1 DEF CacheDistinct
    <3>2. conf.cacheMax \in Nat
      BY <1>3, ConfIs
    <3>3. CacheWithin(cache, conf.cacheMax)
      BY <2>2, <3>2 DEF CacheWithin
    <3>4. QED
      BY <3>1, <3>3
  <2>5. QED
    BY <2>1, <2>3, <2>4 DEF CacheInv
<1>6. n = 0 /\ pc = "done"
  BY <1>1 DEF Init
<1>7. QED
  BY <1>3, <1>4, <1>5, <1>6 DEF OptionsInv, States

\* A step within a sentence.
Within == UNCHANGED <<conf, session, n, read>>

LEMMA WithinSentence ==
  ASSUME OptionsInv, Within
  PROVE  /\ conf' \in Confs /\ session' \in Seq(Seq(Tokens)) /\ n' \in Nat /\ read' \in Readings
         /\ Size' = Size /\ PhraseSpans' = PhraseSpans
BY DEF OptionsInv, Within, Size, Words, PhraseSpans

\* What a step does to a cache keeps it in order.
LEMMA CacheInvAfter ==
  ASSUME CacheInv, UNCHANGED conf, now' \in Nat,
         CacheMoves(cache, cache', now', conf.cacheMax, conf.tick)
  PROVE  CacheInv'
BY DEF CacheInv, CacheMoves

\* A line is read, and the cache left alone.
LEMMA NextLineReads ==
  ASSUME OptionsInv, NextLine
  PROVE  /\ conf' \in Confs /\ session' \in Seq(Seq(Tokens)) /\ n' \in Nat /\ n' > 0 /\ read' \in Readings
         /\ CacheInv' /\ CacheMoves(cache, cache', now', conf.cacheMax, conf.tick)
<1>1. n \in Nat /\ now \in Nat /\ n' = n + 1 /\ now' = now + 1 /\ n < Len(session)
      /\ UNCHANGED <<conf, session, cache>>
  BY DEF OptionsInv, CacheInv, NextLine
<1>2. read' \in Readings
  <2>1. session \in Seq(Seq(Tokens)) /\ n + 1 \in 1 .. Len(session)
    BY <1>1 DEF OptionsInv
  <2>2. session[n + 1] \in Seq(Tokens)
    BY <2>1, ElementOfSeq
  <2>3. ProcessAndStripXMLTags(session[n + 1], conf.xmlType = "ignore") \in Readings
    BY <2>2, LineRead
  <2>4. QED
    BY <2>3 DEF NextLine
<1>3. CacheMoves(cache, cache, now', conf.cacheMax, conf.tick)
  <2>1. CacheTyped(cache, now')
    <3>1. CacheTyped(cache, now)
      BY DEF OptionsInv, CacheInv
    <3>2. \A k \in DOMAIN cache : cache[k].used \in Nat /\ cache[k].used <= now
      BY <3>1 DEF CacheTyped
    <3>3. \A k \in DOMAIN cache : cache[k].used <= now'
      BY <1>1, <3>2
    <3>4. QED
      BY <3>1, <3>3 DEF CacheTyped
  <2>2. now' \in Nat
    BY <1>1
  <2>3. QED
    BY <2>1, <2>2, CacheStays
<1>4. CacheMoves(cache, cache', now', conf.cacheMax, conf.tick)
  BY <1>1, <1>3
<1>5. CacheInv'
  BY <1>1, <1>4, CacheInvAfter DEF OptionsInv
<1>6. QED
  BY <1>1, <1>2, <1>4, <1>5 DEF OptionsInv

\* The new collection is empty; a refused line ends it all.
LEMMA StartKeeps ==
  ASSUME OptionsInv, StartSentence
  PROVE  OptionsInv'
<1>1. /\ conf' \in Confs /\ session' \in Seq(Seq(Tokens)) /\ n' \in Nat /\ n' > 0 /\ read' \in Readings
      /\ CacheInv' /\ conf' = conf
  BY NextLineReads DEF StartSentence, NextLine
<1>2. PICK size \in Nat : size = Size'
  BY <1>1 DEF Readings, Size, Words
<1>3. conf.maxPhraseLength \in Nat \ {0} /\ conf.graphs \in Seq(Range(conf.graphs))
  BY <1>1, ConfIs
<1>4. todo' \in Seq(CallsOf(conf.graphs, size, conf.maxPhraseLength))
  <2>1. todo' = LoopCalls(conf.graphs, size, conf.maxPhraseLength)
    BY <1>1, <1>2 DEF StartSentence, AllCalls, LoopCalls
  <2>2. QED
    BY <1>3, <2>1, LoopsCall
<1>5. ListsInv'
  <2>1. collection' = [r \in PhraseSpans' |-> <<>>]
    BY DEF StartSentence
  <2>2. <<>> \in Seq(AnyOptions) /\ \A r : <<>> \in Seq(OptionsOn(r))
    BY EmptySeq
  <2>3. QED
    BY <2>1, <2>2 DEF ListsInv
<1>6. pc' = "create"
  BY DEF StartSentence
<1>7. QED
  BY <1>1, <1>2, <1>4, <1>5, <1>6 DEF OptionsInv, States

LEMMA RefuseKeeps ==
  ASSUME OptionsInv, RefuseLine
  PROVE  OptionsInv'
<1>1. /\ conf' \in Confs /\ session' \in Seq(Seq(Tokens)) /\ n' \in Nat /\ n' > 0 /\ read' \in Readings
      /\ CacheInv'
  BY NextLineReads DEF RefuseLine
<1>2. pc' = "aborted"
  BY DEF RefuseLine
<1>3. QED
  BY <1>1, <1>2 DEF OptionsInv, States

\* The next call of a loop.
LEMMA CallIs ==
  ASSUME OptionsInv, pc \in {"create", "expand"}, todo # <<>>
  PROVE  /\ todo[1][1] \in DOMAIN conf.graphs /\ <<todo[1][2], todo[1][3]>> \in PhraseSpans
         /\ Tail(todo) \in Seq(CallsOf(conf.graphs, Size, conf.maxPhraseLength))
<1>1. PICK C : C = CallsOf(conf.graphs, Size, conf.maxPhraseLength)
  OBVIOUS
<1>2. todo \in Seq(C)
  BY <1>1 DEF OptionsInv
<1>3. todo[1] \in C /\ Tail(todo) \in Seq(C)
  <2>1. Len(todo) \in Nat \ {0}
    BY <1>2, EmptySeq
  <2>2. 1 \in 1 .. Len(todo)
    BY <2>1
  <2>3. todo[1] \in C
    BY <1>2, <2>2, ElementOfSeq
  <2>4. Tail(todo) \in Seq(C)
    BY <1>2, HeadTailProperties
  <2>5. QED
    BY <2>3, <2>4
<1>4. PICK g \in DOMAIN conf.graphs, r \in PhrasesOf(Size, conf.maxPhraseLength) :
        todo[1] = <<g, r[1], r[2]>>
  <2>1. todo[1] \in CallsOf(conf.graphs, Size, conf.maxPhraseLength)
    BY <1>1, <1>3
  <2>2. QED
    BY <2>1 DEF CallsOf
<1>5. r \in PhraseSpans /\ Size \in Nat
  BY SizeIs DEF OptionsInv
<1>6. r = <<r[1], r[2]>>
  BY <1>5, SpanParts DEF PhraseSpans
<1>7. todo[1][1] = g /\ <<todo[1][2], todo[1][3]>> = r
  BY <1>4, <1>6
<1>8. QED
  BY <1>1, <1>3, <1>5, <1>7

\* The list of one span grows by options of this span.
LEMMA RangeCreated ==
  ASSUME OptionsInv, ListsInv, NEW g \in DOMAIN conf.graphs, NEW r \in PhraseSpans, NEW adhere,
         CreateTranslationOptionsForRange(g, r, adhere), Within
  PROVE  /\ ListsInv' /\ CacheInv'
         /\ CacheMoves(cache, cache', now', conf.cacheMax, conf.tick)
<1>1. PICK made \in FromTables(g, r, adhere) :
        /\ collection' = [collection EXCEPT ![r] =
                            made.list \o (IF XmlOverlap(r) THEN XmlOptions(r) ELSE <<>>)]
        /\ cache' = made.cache
        /\ now' = made.now
  BY DEF CreateTranslationOptionsForRange
<1>2. conf \in Confs /\ read \in Readings /\ CacheInv /\ now \in Nat /\ CacheTyped(cache, now)
  BY DEF OptionsInv, CacheInv
<1>3. r \in Int \X Int /\ collection[r] \in Seq(OptionsOn(r))
  BY <1>2, SizeIs DEF ListsInv
<1>4. /\ made.list \in Seq(OptionsOn(r)) /\ made.now \in Nat
      /\ CacheMoves(cache, made.cache, made.now, conf.cacheMax, conf.tick)
  BY <1>2, <1>3, TablesGiveOptions
<1>5. PICK marked : marked = IF XmlOverlap(r) THEN XmlOptions(r) ELSE <<>>
  OBVIOUS
<1>6. marked \in Seq(OptionsOn(r))
  <2>1. XmlOptions(r) \in Seq(OptionsOn(r)) /\ <<>> \in Seq(OptionsOn(r))
    BY <1>2, MarkedOptions, EmptySeq
  <2>2. QED
    BY <1>5, <2>1
<1>7. PICK l \in Seq(OptionsOn(r)) : l = made.list \o marked
  BY <1>4, <1>6, ConcatProperties
<1>8. l \in Seq(AnyOptions)
  BY <1>3, SomeOptions
<1>9. collection' = [collection EXCEPT ![r] = l]
  BY <1>1, <1>5, <1>7
<1>10. PhraseSpans' = PhraseSpans
  BY WithinSentence
<1>11. ListsInv'
  <2>1. collection' \in [PhraseSpans -> Seq(AnyOptions)]
    BY <1>8, <1>9 DEF ListsInv
  <2>2. collection'[r] = l /\ \A q \in PhraseSpans \ {r} : collection'[q] = collection[q]
    BY <1>9 DEF ListsInv
  <2>3. \A q \in PhraseSpans : collection'[q] \in Seq(OptionsOn(q))
    BY <2>2 DEF ListsInv
  <2>4. QED
    BY <1>10, <2>1, <2>3 DEF ListsInv
<1>12. now' \in Nat /\ CacheMoves(cache, cache', now', conf.cacheMax, conf.tick)
  BY <1>1, <1>4
<1>13. CacheInv'
  BY <1>2, <1>12, CacheInvAfter DEF Within
<1>14. QED
  BY <1>11, <1>12, <1>13

------------------------------------------------------------------------------
(****************************************************************************)
(* The steps within a sentence.                                             *)
(****************************************************************************)

\* What every step does to the cache.
CacheStep == CacheInv' /\ CacheMoves(cache, cache', now', conf.cacheMax, conf.tick)

\* A step that touches no cache, or no list.
LEMMA CacheAlone ==
  ASSUME OptionsInv, UNCHANGED <<conf, cache, now>>
  PROVE  CacheStep
<1>1. CacheInv /\ now \in Nat /\ CacheTyped(cache, now)
  BY DEF OptionsInv, CacheInv
<1>2. CacheMoves(cache, cache, now, conf.cacheMax, conf.tick)
  BY <1>1, CacheStays
<1>3. now' = now /\ cache' = cache /\ conf' = conf
  OBVIOUS
<1>4. CacheInv'
  BY <1>1, <1>3 DEF CacheInv
<1>5. QED
  BY <1>2, <1>3, <1>4 DEF CacheStep

LEMMA ListsAlone ==
  ASSUME ListsInv, PhraseSpans' = PhraseSpans, UNCHANGED collection
  PROVE  ListsInv'
BY DEF ListsInv

\* The calls of the other loops are among those of the first.
LEMMA OneWordCalls ==
  ASSUME OptionsInv
  PROVE  AllCalls(1) \in Seq(CallsOf(conf.graphs, Size, conf.maxPhraseLength))
<1>1. conf \in Confs /\ read \in Readings
  BY DEF OptionsInv
<1>2. PICK size \in Nat : size = Size
  BY <1>1, SizeIs
<1>3. PICK max \in Nat \ {0} : max = conf.maxPhraseLength
  BY <1>1, ConfIs
<1>4. PICK graphs : graphs = conf.graphs /\ graphs \in Seq(Range(graphs))
  BY <1>1, ConfIs
<1>5. AllCalls(1) = LoopCalls(graphs, size, 1)
  BY <1>2, <1>4 DEF AllCalls, LoopCalls
<1>6. LoopCalls(graphs, size, 1) \in Seq(CallsOf(graphs, size, 1))
  BY <1>4, LoopsCall
<1>7. CallsOf(graphs, size, 1) \subseteq CallsOf(graphs, size, max)
  <2>1. PhrasesOf(size, 1) \subseteq PhrasesOf(size, max)
    <3>1. ASSUME NEW r \in PhrasesOf(size, 1)
          PROVE  r \in PhrasesOf(size, max)
      <4>1. r \in SpansOf(size) /\ r[2] - r[1] < 1
        BY DEF PhrasesOf
      <4>2. r[1] \in Int /\ r[2] \in Int
        BY <4>1 DEF SpansOf
      <4>3. r[2] - r[1] < max
        BY <1>3, <4>1, <4>2
      <4>4. QED
        BY <4>1, <4>3 DEF PhrasesOf
    <3>2. QED
      BY <3>1
  <2>2. QED
    BY <2>1 DEF CallsOf
<1>8. Seq(CallsOf(graphs, size, 1)) \subseteq Seq(CallsOf(graphs, size, max))
  BY <1>7, SeqMonotonic
<1>9. QED
  BY <1>2, <1>3, <1>4, <1>5, <1>6, <1>8

\* The step of the loop of CreateTranslationOptions.
LEMMA CreateKeeps ==
  ASSUME OptionsInv, CreateNextRange
  PROVE  OptionsInv' /\ CacheStep
<1>1. pc = "create" /\ pc' = "create" /\ todo # <<>> /\ todo' = Tail(todo) /\ Within
  BY DEF CreateNextRange, Within
<1>2. PICK g, r : g = todo[1][1] /\ r = <<todo[1][2], todo[1][3]>>
  OBVIOUS
<1>3. /\ g \in DOMAIN conf.graphs /\ r \in PhraseSpans
      /\ Tail(todo) \in Seq(CallsOf(conf.graphs, Size, conf.maxPhraseLength))
  BY <1>1, <1>2, CallIs
<1>4. CreateTranslationOptionsForRange(g, r, TRUE)
  BY <1>2 DEF CreateNextRange
<1>5. ListsInv /\ n > 0
  BY <1>1 DEF OptionsInv, States
<1>6. ListsInv' /\ CacheStep
  BY <1>1, <1>3, <1>4, <1>5, RangeCreated DEF CacheStep
<1>7. /\ conf' \in Confs /\ session' \in Seq(Seq(Tokens)) /\ n' \in Nat /\ read' \in Readings
      /\ Size' = Size /\ conf' = conf /\ n' = n
  BY <1>1, WithinSentence DEF Within
<1>8. todo' \in Seq(CallsOf(conf'.graphs, Size', conf'.maxPhraseLength))
  BY <1>1, <1>3, <1>7
<1>9. OptionsInv'
  BY <1>1, <1>5, <1>6, <1>7, <1>8 DEF OptionsInv, States, CacheStep
<1>10. QED
  BY <1>6, <1>9

\* The end of the loop.
LEMMA EndCreateKeeps ==
  ASSUME OptionsInv, EndCreate
  PROVE  OptionsInv' /\ CacheStep
<1>1. pc = "create" /\ pc' = "expand" /\ todo' = AllCalls(1) /\ Within
      /\ UNCHANGED <<collection, cache, now>>
  BY DEF EndCreate, Within
<1>2. ListsInv /\ n > 0
  BY <1>1 DEF OptionsInv, States
<1>3. /\ conf' \in Confs /\ session' \in Seq(Seq(Tokens)) /\ n' \in Nat /\ read' \in Readings
      /\ Size' = Size /\ PhraseSpans' = PhraseSpans /\ conf' = conf /\ n' = n
  BY <1>1, WithinSentence DEF Within
<1>4. CacheStep
  BY <1>1, <1>3, CacheAlone
<1>5. ListsInv'
  BY <1>1, <1>2, <1>3, ListsAlone
<1>6. todo' \in Seq(CallsOf(conf'.graphs, Size', conf'.maxPhraseLength))
  BY <1>1, <1>3, OneWordCalls
<1>7. OptionsInv'
  BY <1>1, <1>2, <1>3, <1>4, <1>5, <1>6 DEF OptionsInv, States, CacheStep
<1>8. QED
  BY <1>4, <1>7

\* A word without options is tried without the limits.
LEMMA ExpandKeeps ==
  ASSUME OptionsInv, ExpandTableLimit
  PROVE  OptionsInv' /\ CacheStep
<1>1. pc = "expand" /\ pc' = "expand" /\ todo # <<>> /\ todo' = Tail(todo) /\ Within
  BY DEF ExpandTableLimit, Within
<1>2. PICK g, r : g = todo[1][1] /\ r = <<todo[1][2], todo[1][3]>>
  OBVIOUS
<1>3. /\ g \in DOMAIN conf.graphs /\ r \in PhraseSpans
      /\ Tail(todo) \in Seq(CallsOf(conf.graphs, Size, conf.maxPhraseLength))
  BY <1>1, <1>2, CallIs
<1>4. \/ CreateTranslationOptionsForRange(g, r, FALSE)
      \/ UNCHANGED <<collection, cache, now>>
  BY <1>2 DEF ExpandTableLimit
<1>5. ListsInv /\ n > 0
  BY <1>1 DEF OptionsInv, States
<1>6. /\ conf' \in Confs /\ session' \in Seq(Seq(Tokens)) /\ n' \in Nat /\ read' \in Readings
      /\ Size' = Size /\ PhraseSpans' = PhraseSpans /\ conf' = conf /\ n' = n
  BY <1>1, WithinSentence DEF Within
<1>7. ListsInv' /\ CacheStep
  <2>1. CASE CreateTranslationOptionsForRange(g, r, FALSE)
    BY <1>1, <1>3, <1>5, <2>1, RangeCreated DEF CacheStep
  <2>2. CASE UNCHANGED <<collection, cache, now>>
    BY <1>1, <1>5, <1>6, <2>2, CacheAlone, ListsAlone
  <2>3. QED
    BY <1>4, <2>1, <2>2
<1>8. todo' \in Seq(CallsOf(conf'.graphs, Size', conf'.maxPhraseLength))
  BY <1>1, <1>3, <1>6
<1>9. OptionsInv'
  BY <1>1, <1>5, <1>6, <1>7, <1>8 DEF OptionsInv, States, CacheStep
<1>10. QED
  BY <1>7, <1>9

\* A word that no table has is copied or dropped.
LEMMA UnknownWord ==
  ASSUME OptionsInv, NEW p \in 0 .. Size - 1
  PROVE  UnknownOption(p) \in OptionsOn(<<p, p>>)
<1>1. Words[p + 1] \in STRING
  BY SizeIs DEF OptionsInv
<1>2. PICK word \in STRING : word = Words[p + 1]
  BY <1>1
<1>3. <<word, "UNK">> \in FullWords
  BY DEF FullWords, Factors
<1>4. <<<<word, "UNK">>>> \in FullPhrases /\ <<>> \in FullPhrases
  BY <1>3 DEF FullPhrases
<1>5. PICK out \in FullPhrases : out = UnknownOption(p).out
  BY <1>2, <1>4 DEF UnknownOption
<1>6. UnknownOption(p) = [out |-> out, score |-> UnknownScore, span |-> <<p, p>>,
                          from |-> "unknown"]
  BY <1>5 DEF UnknownOption
<1>7. QED
  BY <1>6, UnknownAssumption DEF OptionsOn, Origins

\* Every word has an option now.
LEMMA UnknownKeeps ==
  ASSUME OptionsInv, ProcessUnknownWord
  PROVE  OptionsInv' /\ CacheStep
<1>1. pc = "expand" /\ pc' = "prune" /\ Within /\ UNCHANGED <<cache, now>>
  BY DEF ProcessUnknownWord, Within
<1>2. ListsInv /\ n > 0
  BY <1>1 DEF OptionsInv, States
<1>3. /\ conf' \in Confs /\ session' \in Seq(Seq(Tokens)) /\ n' \in Nat /\ read' \in Readings
      /\ Size' = Size /\ PhraseSpans' = PhraseSpans /\ conf' = conf /\ n' = n
  BY <1>1, WithinSentence DEF Within
<1>4. CacheStep
  BY <1>1, <1>3, CacheAlone
<1>5. /\ PhraseSpans \subseteq Int \X Int
      /\ \A p \in 0 .. Size - 1 : <<p, p>> \in PhraseSpans
  BY SizeIs DEF OptionsInv
<1>6. PICK list : list = [r \in PhraseSpans |->
                            IF r[1] = r[2] /\ IsUnknown(r[1])
                            THEN Append(collection[r], UnknownOption(r[1])) ELSE collection[r]]
  OBVIOUS
<1>7. collection' = list
  BY <1>6 DEF ProcessUnknownWord
<1>8. ASSUME NEW r \in PhraseSpans
      PROVE  list[r] \in Seq(OptionsOn(r)) /\ list[r] \in Seq(AnyOptions)
  <2>1. collection[r] \in Seq(OptionsOn(r))
    BY <1>2 DEF ListsInv
  <2>2. list[r] \in Seq(OptionsOn(r))
    <3>1. CASE r[1] = r[2] /\ IsUnknown(r[1])
      <4>1. PICK p : p = r[1]
        OBVIOUS
      <4>2. r \in SpansOf(Size) /\ Size \in Nat
        BY SizeIs DEF OptionsInv, PhraseSpans
      <4>3. r = <<p, p>> /\ p \in 0 .. Size - 1
        BY <3>1, <4>1, <4>2 DEF SpansOf
      <4>4. UnknownOption(p) \in OptionsOn(r)
        BY <4>3, UnknownWord
      <4>5. Append(collection[r], UnknownOption(p)) \in Seq(OptionsOn(r))
        BY <2>1, <4>4, AppendProperties
      <4>6. QED
        BY <1>6, <3>1, <4>1, <4>5
    <3>2. CASE ~(r[1] = r[2] /\ IsUnknown(r[1]))
      BY <1>6, <2>1, <3>2
    <3>3. QED
      BY <3>1, <3>2
  <2>3. QED
    BY <1>5, <2>2, SomeOptions
<1>9. ListsInv'
  <2>1. list \in [PhraseSpans -> Seq(AnyOptions)]
    BY <1>6, <1>8
  <2>2. QED
    BY <1>3, <1>7, <1>8, <2>1 DEF ListsInv
<1>10. WordsHaveOptions'
  <2>1. ASSUME NEW p \in 0 .. Size - 1
        PROVE  list[<<p, p>>] # <<>>
    <3>1. PICK r \in PhraseSpans : r = <<p, p>>
      BY <1>5
    <3>2. CASE IsUnknown(p)
      <4>1. list[r] = Append(collection[r], UnknownOption(p))
        BY <1>6, <3>1, <3>2
      <4>2. collection[r] \in Seq(AnyOptions) /\ UnknownOption(p) \in AnyOptions
        <5>1. UnknownOption(p) \in OptionsOn(r) /\ r \in Int \X Int
          BY <1>5, <3>1, UnknownWord
        <5>2. UnknownOption(p) \in AnyOptions
          BY <5>1, SomeOptions
        <5>3. QED
          BY <1>2, <5>2 DEF ListsInv
      <4>3. PICK l, o : l = collection[r] /\ o = UnknownOption(p)
        OBVIOUS
      <4>4. Append(l, o) # <<>>
        BY <4>2, <4>3, AppendProperties, EmptySeq
      <4>5. QED
        BY <3>1, <4>1, <4>3, <4>4
    <3>3. CASE ~IsUnknown(p)
      <4>1. collection[r] # <<>>
        BY <3>1, <3>3 DEF IsUnknown
      <4>2. list[r] = collection[r]
        BY <1>6, <3>1, <3>3
      <4>3. QED
        BY <3>1, <4>1, <4>2
    <3>4. QED
      BY <3>2, <3>3
  <2>2. QED
    BY <1>3, <1>7, <2>1 DEF WordsHaveOptions
<1>11. OptionsInv'
  BY <1>1, <1>2, <1>3, <1>4, <1>9, <1>10 DEF OptionsInv, States, CacheStep
<1>12. QED
  BY <1>4, <1>11

\* Pruning loses the worst, and leaves every word an option.
LEMMA PruneKeeps ==
  ASSUME OptionsInv, Prune
  PROVE  /\ OptionsInv' /\ CacheStep
         /\ \A r \in PhraseSpans : KeepsBest(collection[r], collection'[r])
<1>1. pc = "prune" /\ pc' = "sort" /\ Within /\ UNCHANGED <<cache, now>>
  BY DEF Prune, Within
<1>2. ListsInv /\ WordsHaveOptions /\ n > 0 /\ conf \in Confs /\ Size \in Nat
  BY <1>1, SizeIs DEF OptionsInv, States
<1>3. /\ conf' \in Confs /\ session' \in Seq(Seq(Tokens)) /\ n' \in Nat /\ read' \in Readings
      /\ Size' = Size /\ PhraseSpans' = PhraseSpans /\ conf' = conf /\ n' = n
  BY <1>1, WithinSentence DEF Within
<1>4. CacheStep
  BY <1>1, <1>3, CacheAlone
<1>5. PICK list \in PrunedLists : list = collection'
  BY DEF Prune
<1>6. list \in [PhraseSpans -> Seq(AnyOptions)]
      /\ \A r \in PhraseSpans : list[r] \in Pruned(collection[r])
  BY <1>2, AllPruned DEF ListsInv
<1>7. ASSUME NEW r \in PhraseSpans
      PROVE  /\ list[r] \in Seq(OptionsOn(r)) /\ (collection[r] # <<>> => list[r] # <<>>)
             /\ KeepsBest(collection[r], list[r])
  <2>1. PICK O : O = OptionsOn(r)
    OBVIOUS
  <2>2. Scored(O) /\ collection[r] \in Seq(O) /\ list[r] \in Pruned(collection[r])
    BY <1>2, <1>6, <2>1, OptionsScored DEF ListsInv
  <2>3. QED
    BY <1>2, <2>1, <2>2, PrunedOf
<1>8. ListsInv'
  BY <1>3, <1>5, <1>6, <1>7 DEF ListsInv
<1>9. WordsHaveOptions'
  <2>1. \A p \in 0 .. Size - 1 : <<p, p>> \in PhraseSpans /\ collection[<<p, p>>] # <<>>
    BY <1>2, SizeIs DEF OptionsInv, WordsHaveOptions
  <2>2. \A p \in 0 .. Size - 1 : list[<<p, p>>] # <<>>
    BY <1>7, <2>1
  <2>3. QED
    BY <1>3, <1>5, <2>2 DEF WordsHaveOptions
<1>10. OptionsInv'
  BY <1>1, <1>2, <1>3, <1>4, <1>8, <1>9 DEF OptionsInv, States, CacheStep
<1>11. QED
  BY <1>4, <1>5, <1>7, <1>10

\* The best option is in front, and the matrix is filled with it.
LEMMA SortKeeps ==
  ASSUME OptionsInv, SortAndCalcFutureScore
  PROVE  OptionsInv' /\ CacheStep
<1>1. pc = "sort" /\ pc' = "done" /\ Within /\ UNCHANGED <<cache, now>>
  BY DEF SortAndCalcFutureScore, Within
<1>2. ListsInv /\ WordsHaveOptions /\ n > 0
  BY <1>1 DEF OptionsInv, States
<1>3. /\ conf' \in Confs /\ session' \in Seq(Seq(Tokens)) /\ n' \in Nat /\ read' \in Readings
      /\ Size' = Size /\ PhraseSpans' = PhraseSpans /\ conf' = conf /\ n' = n
  BY <1>1, WithinSentence DEF Within
<1>4. CacheStep
  BY <1>1, <1>3, CacheAlone
<1>5. PICK list : list = [r \in PhraseSpans |-> Sorted(collection[r])] /\ collection' = list
  BY DEF SortAndCalcFutureScore
<1>6. ASSUME NEW r \in PhraseSpans
      PROVE  /\ list[r] \in Seq(OptionsOn(r)) /\ list[r] \in Seq(AnyOptions)
             /\ Len(list[r]) = Len(collection[r])
             /\ Descending(list[r])
             /\ collection[r] # <<>> => list[r] # <<>> /\ list[r][1].score = BestScore(collection[r])
  <2>1. PICK O : O = OptionsOn(r)
    OBVIOUS
  <2>2. PICK old \in Seq(O) : old = collection[r]
    BY <1>2, <2>1 DEF ListsInv
  <2>3. Scored(O) /\ r \in Int \X Int
    BY <2>1, OptionsScored, SizeIs DEF OptionsInv
  <2>4. PICK new : new = Sorted(old) /\ list[r] = new
    BY <1>5, <2>2
  <2>5. /\ new \in Seq(O) /\ Len(new) = Len(old)
        /\ Descending(new)
        /\ old # <<>> => new # <<>> /\ new[1].score = BestScore(old)
    BY <2>2, <2>3, <2>4, SortedOf
  <2>6. new \in Seq(AnyOptions)
    BY <2>1, <2>3, <2>5, SomeOptions
  <2>7. QED
    BY <2>1, <2>2, <2>4, <2>5, <2>6
<1>7. ListsInv'
  <2>1. list \in [PhraseSpans -> Seq(AnyOptions)]
    BY <1>5, <1>6
  <2>2. QED
    BY <1>3, <1>5, <1>6, <2>1 DEF ListsInv
<1>8. WordsHaveOptions'
  <2>1. \A p \in 0 .. Size - 1 : <<p, p>> \in PhraseSpans /\ collection[<<p, p>>] # <<>>
    BY <1>2, SizeIs DEF OptionsInv, WordsHaveOptions
  <2>2. \A p \in 0 .. Size - 1 : list[<<p, p>>] # <<>>
    BY <1>6, <2>1
  <2>3. QED
    BY <1>3, <1>5, <2>2 DEF WordsHaveOptions
<1>9. Known' = Known
  <2>1. ASSUME NEW r \in PhraseSpans
        PROVE  list[r] # <<>> <=> collection[r] # <<>>
    <3>1. Len(list[r]) = Len(collection[r]) /\ list[r] \in Seq(AnyOptions)
          /\ collection[r] \in Seq(AnyOptions)
      BY <1>2, <1>6 DEF ListsInv
    <3>2. QED
      BY <3>1, EmptySeq
  <2>2. QED
    BY <1>3, <1>5, <2>1 DEF Known
<1>10. ReadyInv'
  <2>1. \A r \in Known : r \in PhraseSpans /\ collection[r] # <<>>
    BY DEF Known
  <2>2. \A r \in Known : list[r][1].score = BestScore(collection[r])
    BY <1>6, <2>1
  <2>3. \A r \in PhraseSpans : Descending(list[r])
    BY <1>6
  <2>4. [r \in Known |-> BestScore(collection[r])] = [r \in Known |-> list[r][1].score]
    BY <2>2
  <2>5. future' = FillMatrix(Size, [r \in Known |-> list[r][1].score])
    BY <2>4 DEF SortAndCalcFutureScore
  <2>6. QED
    BY <1>3, <1>5, <1>9, <2>3, <2>5 DEF ReadyInv
<1>11. OptionsInv'
  BY <1>1, <1>2, <1>3, <1>4, <1>7, <1>8, <1>10 DEF OptionsInv, States, CacheStep
<1>12. QED
  BY <1>4, <1>11

------------------------------------------------------------------------------
(****************************************************************************)
(* The theorems.                                                            *)
(****************************************************************************)

\* What a step that prunes does.
PruneStep == pc = "prune" => \A r \in PhraseSpans : KeepsBest(collection[r], collection'[r])

\* All the steps, and none.
LEMMA Steps ==
  ASSUME OptionsInv, Next
  PROVE  OptionsInv' /\ CacheStep /\ PruneStep
<1>1. CASE StartSentence
  <2>1. CacheStep /\ pc = "done"
    BY <1>1, NextLineReads DEF StartSentence, NextLine, CacheStep
  <2>2. QED
    BY <1>1, <2>1, StartKeeps DEF PruneStep
<1>2. CASE RefuseLine
  <2>1. CacheStep /\ pc = "done"
    BY <1>2, NextLineReads DEF RefuseLine, NextLine, CacheStep
  <2>2. QED
    BY <1>2, <2>1, RefuseKeeps DEF PruneStep
<1>3. CASE CreateNextRange
  BY <1>3, CreateKeeps DEF CreateNextRange, PruneStep
<1>4. CASE EndCreate
  BY <1>4, EndCreateKeeps DEF EndCreate, PruneStep
<1>5. CASE ExpandTableLimit
  BY <1>5, ExpandKeeps DEF ExpandTableLimit, PruneStep
<1>6. CASE ProcessUnknownWord
  BY <1>6, UnknownKeeps DEF ProcessUnknownWord, PruneStep
<1>7. CASE Prune
  BY <1>7, PruneKeeps DEF PruneStep
<1>8. CASE SortAndCalcFutureScore
  BY <1>8, SortKeeps DEF SortAndCalcFutureScore, PruneStep
<1>9. QED
  BY <1>1, <1>2, <1>3, <1>4, <1>5, <1>6, <1>7, <1>8 DEF Next

LEMMA Stutters ==
  ASSUME OptionsInv, UNCHANGED vars
  PROVE  OptionsInv'
<1>1. Within /\ UNCHANGED <<pc, todo, collection, future, cache, now>>
  BY DEF vars, Within
<1>2. /\ conf' \in Confs /\ session' \in Seq(Seq(Tokens)) /\ n' \in Nat /\ read' \in Readings
      /\ Size' = Size /\ PhraseSpans' = PhraseSpans /\ conf' = conf /\ n' = n
  BY <1>1, WithinSentence DEF Within
<1>3. CacheInv'
  BY <1>1, <1>2, CacheAlone DEF CacheStep
<1>4. ListsInv => ListsInv'
  BY <1>1, <1>2 DEF ListsInv
<1>5. WordsHaveOptions => WordsHaveOptions'
  BY <1>1, <1>2 DEF WordsHaveOptions
<1>6. ReadyInv => ReadyInv'
  BY <1>1, <1>2 DEF ReadyInv, Known
<1>7. QED
  BY <1>1, <1>2, <1>3, <1>4, <1>5, <1>6 DEF OptionsInv

\* The invariant: the lists have options of their span, with scores, the cache
\* is in order, and what is done is ready for the search.
THEOREM OptionsInvariant == Spec => []OptionsInv
<1>1. Init => OptionsInv
  BY InitOptions
<1>2. OptionsInv /\ [Next]_vars => OptionsInv'
  BY Steps, Stutters
<1>3. QED
  BY <1>1, <1>2, PTL DEF Spec

\* What is done is ready, and has exact costs.
LEMMA Ready == OptionsInv => ListsReady
<1>1. SUFFICES ASSUME OptionsInv, pc = "done", n > 0
               PROVE  /\ \A r \in WordSpans : collection[r] # <<>>
                      /\ \A r \in PhraseSpans :
                           /\ IsSorted(collection[r], LAMBDA a, b : a.score >= b.score)
                           /\ \A o \in ToSet(collection[r]) : o.span = r
  BY DEF ListsReady
<1>2. ListsInv /\ WordsHaveOptions /\ ReadyInv
  BY <1>1 DEF OptionsInv, States
<1>3. \A r \in WordSpans : collection[r] # <<>>
  BY <1>2 DEF WordSpans, WordsHaveOptions
<1>4. ASSUME NEW r \in PhraseSpans
      PROVE  IsSorted(collection[r], LAMBDA a, b : a.score >= b.score)
  <2>1. Descending(collection[r])
    BY <1>2 DEF ReadyInv
  <2>2. QED
    BY <2>1 DEF IsSorted, Descending
<1>5. ASSUME NEW r \in PhraseSpans, NEW o \in ToSet(collection[r])
      PROVE  o.span = r
  <2>1. PICK list \in Seq(OptionsOn(r)) : list = collection[r]
    BY <1>2 DEF ListsInv
  <2>2. PICK i \in 1 .. Len(list) : o = list[i]
    BY <2>1 DEF ToSet
  <2>3. o \in OptionsOn(r)
    BY <2>2, ElementOfSeq
  <2>4. QED
    BY <2>3 DEF OptionsOn
<1>6. QED
  BY <1>3, <1>4, <1>5

\* The search finds what it takes for granted: an option for every word, the
\* best in front, and none that covers another span
\* (TranslationOptionCollection::CreateTranslationOptions), whatever tables,
\* cache and markup gave.
THEOREM ReadyForSearch == Spec => []ListsReady
BY OptionsInvariant, Ready, PTL

LEMMA CostsExact == OptionsInv => FutureCostExact
<1>1. SUFFICES ASSUME OptionsInv, pc = "done", n > 0,
                      NEW b \in SUBSET (0 .. Size - 1)
               PROVE  /\ CalcFutureScore(future, Size, b) = Total(BestTiling, OpenRuns(Size, b))
                      /\ \A r \in {q \in SpansOf(Size) : (q[1] .. q[2]) \cap b = {}} :
                           CalcFutureScoreWith(future, Size, b, r[1], r[2])
                             = CalcFutureScore(future, Size, b \cup (r[1] .. r[2]))
  BY DEF FutureCostExact
<1>2. ListsInv /\ WordsHaveOptions /\ ReadyInv
  BY <1>1 DEF OptionsInv, States
<1>3. PICK size \in Nat : size = Size
  BY <1>1, SizeIs DEF OptionsInv
<1>4. \A p \in 0 .. size - 1 : <<p, p>> \in PhraseSpans
  BY <1>1, <1>3, SizeIs DEF OptionsInv
<1>5. PICK best : best = [r \in Known |-> collection[r][1].score]
  OBVIOUS
<1>6. DOMAIN best = Known
  BY <1>5
<1>7. BestScores(size, best)
  <2>1. Known \subseteq SpansOf(size)
    BY <1>3 DEF Known, PhraseSpans
  <2>2. \A p \in 0 .. size - 1 : <<p, p>> \in Known
    BY <1>2, <1>3, <1>4 DEF Known, WordsHaveOptions
  <2>3. ASSUME NEW r \in Known
        PROVE  best[r] \in Int
    <3>1. PICK list \in Seq(AnyOptions) : list = collection[r] /\ list # <<>>
      BY <1>2 DEF ListsInv, Known
    <3>2. Len(list) \in Nat \ {0}
      BY <3>1, EmptySeq
    <3>3. list[1] \in AnyOptions
      BY <3>2, ElementOfSeq
    <3>4. QED
      BY <1>5, <3>1, <3>3 DEF AnyOptions
  <2>4. QED
    BY <1>6, <2>1, <2>2, <2>3 DEF BestScores
<1>8. PICK M : M = FillMatrix(size, best) /\ future = M
  BY <1>2, <1>3, <1>5 DEF ReadyInv
<1>9. PICK tiling : tiling = [r \in SpansOf(size) |-> Max(TilingScores(best, r))]
  OBVIOUS
<1>10. BestTiling = tiling
  <2>1. \A first, last : Tilings(first, last) = TilingsWith(Known, first, last)
    BY DEF Tilings, TilingsWith, Tiled
  <2>2. ASSUME NEW r
        PROVE  TilingScores(best, r) = {Total(best, T) : T \in Tilings(r[1], r[2])}
    BY <1>6, <2>1 DEF TilingScores
  <2>3. BestTiling = [r \in SpansOf(size) |-> Max({Total(best, T) : T \in Tilings(r[1], r[2])})]
    BY <1>3, <1>5 DEF BestTiling
  <2>4. QED
    BY <1>9, <2>2, <2>3
<1>11. b \in SUBSET (0 .. size - 1)
  BY <1>3
<1>12. QED
  BY <1>3, <1>7, <1>8, <1>9, <1>10, <1>11, FutureOfTilings

\* The future cost of what a bitmap leaves open is that of the best way to
\* translate it gap by gap, and that of a bitmap and a span is that of the
\* bitmap with the span (TranslationOptionCollection::CalcFutureScore and both
\* SquareMatrix::CalcFutureScore), for all tables, markup and lengths.
THEOREM FutureCosts == Spec => []FutureCostExact
BY OptionsInvariant, CostsExact, PTL

\* What a step does to the lists, and to the cache.
LEMMA PruneIsBest ==
  ASSUME OptionsInv, [Next]_vars
  PROVE  [pc = "prune" => \A r \in PhraseSpans : KeepsBest(collection[r], collection'[r])]_vars
BY Steps DEF PruneStep

LEMMA CacheIsRecent ==
  ASSUME OptionsInv, Next
  PROVE  /\ \A gone \in DOMAIN cache \ DOMAIN cache', stays \in DOMAIN cache' :
              cache[gone].used < cache'[stays].used
         /\ conf.tick = 1 /\ conf.cacheMax > 1 =>
              Cardinality(DOMAIN cache') <= conf.cacheMax
         /\ DOMAIN cache' # {} \/ DOMAIN cache = {}
<1>1. CacheMoves(cache, cache', now', conf.cacheMax, conf.tick)
  BY Steps DEF CacheStep
<1>2. ASSUME conf.tick = 1, conf.cacheMax > 1
      PROVE  Cardinality(DOMAIN cache') <= conf.cacheMax
  <2>1. CacheDistinct(cache) /\ CacheWithin(cache, conf.cacheMax)
    BY <1>2 DEF OptionsInv, CacheInv
  <2>2. CacheWithin(cache', conf.cacheMax)
    BY <1>1, <1>2, <2>1 DEF CacheMoves
  <2>3. QED
    BY <1>2, <2>2 DEF CacheWithin
<1>3. QED
  BY <1>1, <1>2 DEF CacheMoves

\* Whatever is bounded loses the least: lists of options their worst
\* (TranslationOptionCollection::Prune), the cache what was not used for the
\* longest time (StaticData::ReduceTransOptCache), whatever the sentences are.
THEOREM Limits == Spec => LimitsDropWorst
<1>1. OptionsInv /\ [Next]_vars =>
        [pc = "prune" =>
           \A r \in PhraseSpans :
             LET old  == collection[r]
                 kept == collection'[r]
                 high == {o \in ToSet(old) : \A x \in ToSet(old) : o.score >= x.score}
             IN  /\ ToSet(kept) \subseteq ToSet(old)
                 /\ high # {} => high \cap ToSet(kept) # {}
                 /\ conf.maxOptions > 0 => Len(kept) <= conf.maxOptions
                 /\ \A o \in ToSet(kept), b \in high : o.score >= b.score + conf.threshold
                 /\ \A o \in ToSet(old) \ ToSet(kept) :
                      /\ \A x \in ToSet(kept) : o.score <= x.score
                      /\ \/ conf.maxOptions > 0 /\ Len(old) > conf.maxOptions
                         \/ \E b \in high : o.score < b.score + conf.threshold]_vars
  BY PruneIsBest DEF KeepsBest
<1>2. OptionsInv /\ [Next]_vars =>
        [/\ \A gone \in DOMAIN cache \ DOMAIN cache', stays \in DOMAIN cache' :
              cache[gone].used < cache'[stays].used
         /\ conf.tick = 1 /\ conf.cacheMax > 1 =>
              Cardinality(DOMAIN cache') <= conf.cacheMax
         /\ DOMAIN cache' # {} \/ DOMAIN cache = {}]_vars
  BY CacheIsRecent
<1>3. Spec => PruningKeepsBest
  BY <1>1, OptionsInvariant, PTL DEF Spec, PruningKeepsBest
<1>4. Spec => CacheKeepsRecent
  BY <1>2, OptionsInvariant, PTL DEF Spec, CacheKeepsRecent
<1>5. QED
  BY <1>3, <1>4 DEF LimitsDropWorst

==============================================================================
