---------------------------- MODULE FoldTheorems ----------------------------
(***************************************************************************)
(* What FoldLeft of SequencesExt computes, for any operator and any start. *)
(* The operator is a constant of this module, so that an instance of it    *)
(* has the theorems for an operator of another module.  Induction is       *)
(* stated with sets in place of predicates, from the well-foundedness of   *)
(* the natural numbers.                                                    *)
(***************************************************************************)
EXTENDS Naturals, Sequences, SequencesExt, SequenceTheorems, WellFoundedInduction, TLAPS

CONSTANTS
    Op(_, _),  \* the operator that is folded: what there is so far, and the next element
    Base       \* what there is to begin with

Fold(s) == FoldLeft(Op, Base, s)

-----------------------------------------------------------------------------
\* A set of natural numbers that has 0 and every successor has them all.
THEOREM NaturalInduction ==
    ASSUME NEW T \in SUBSET Nat, 0 \in T, \A n \in T : n + 1 \in T
    PROVE  T = Nat
<1> DEFINE less == OpToRel(<, Nat)
           rest == Nat \ T
<1>1. IsWellFoundedOn(less, Nat)
  BY NatLessThanWellFounded
<1>2. \A x, y \in Nat : x < y => <<x, y>> \in less
  BY DEF OpToRel
<1> HIDE DEF less
<1>3. ASSUME rest # {} PROVE FALSE
  <2>1. PICK x \in rest : \A y \in rest : ~ (<<y, x>> \in less)
    BY <1>1, <1>3, WFMin
  <2>2. x \in Nat /\ x # 0
    OBVIOUS
  <2>3. x - 1 \in Nat /\ x - 1 < x /\ x = x - 1 + 1
    BY <2>2
  <2>4. x - 1 \in T
    BY <1>2, <2>1, <2>2, <2>3
  <2> QED  BY <2>3, <2>4
<1> QED  BY <1>3

\* A set of sequences over S that has the empty one, and with a sequence each of its
\* extensions by one element, has them all.
THEOREM SequenceInduction ==
    ASSUME NEW S, NEW T \in SUBSET Seq(S), <<>> \in T,
           \A s \in T, e \in S : Append(s, e) \in T
    PROVE  T = Seq(S)
<1> DEFINE N == {n \in Nat : \A s \in Seq(S) : Len(s) = n => s \in T}
<1>1. 0 \in N
  BY EmptySeq
<1>2. ASSUME NEW n \in N PROVE n + 1 \in N
  <2> SUFFICES ASSUME NEW s \in Seq(S), Len(s) = n + 1 PROVE s \in T
    OBVIOUS
  <2>1. s # <<>>
    BY EmptySeq
  <2>2. PICK r \in Seq(S), e \in S : s = Append(r, e)
    BY <2>1, SequenceEmptyOrAppend
  <2>3. Len(s) = Len(r) + 1 /\ Len(r) \in Nat
    BY <2>2, AppendProperties, LenProperties
  <2>4. Len(r) = n
    <3>1. n \in Nat
      BY DEF N
    <3> QED  BY <2>3, <3>1
  <2>5. r \in T
    BY <2>2, <2>4
  <2> QED  BY <2>2, <2>5
<1>3. N = Nat
  <2> HIDE DEF N
  <2>1. N \in SUBSET Nat
    BY DEF N
  <2> QED  BY <1>1, <1>2, <2>1, NaturalInduction
<1>4. \A s \in Seq(S) : Len(s) \in Nat
  BY LenProperties
<1> QED  BY <1>3, <1>4

-----------------------------------------------------------------------------
\* FoldLeft is defined by a function on sets of positions, which takes the greatest
\* position last.  Over the positions 1 .. n of s:
Step(g, s, set) == IF set = {} THEN Base ELSE Op(g[set \ {Max(set)}], s[Max(set)])
Folds(g, s, n) == g = [set \in SUBSET (1..n) |-> Step(g, s, set)]

LEMMA MaxOfLast ==
    ASSUME NEW n \in Nat, NEW set \in SUBSET (1..(n + 1)), n + 1 \in set
    PROVE  Max(set) = n + 1 /\ set \ {Max(set)} \in SUBSET (1..n)
<1>1. \A y \in set : n + 1 >= y
  OBVIOUS
<1>2. \A x \in set : (\A y \in set : x >= y) => x = n + 1
  OBVIOUS
<1>3. Max(set) = n + 1
  BY <1>1, <1>2 DEF Max
<1> QED  BY <1>3

\* There is such a function.
LEMMA FoldsExists == ASSUME NEW s, NEW n \in Nat PROVE \E g : Folds(g, s, n)
<1> DEFINE N == {k \in Nat : \E g : Folds(g, s, k)}
<1>1. 0 \in N
  <2> DEFINE g == [set \in SUBSET (1..0) |-> Base]
  <2>1. \A set \in SUBSET (1..0) : Step(g, s, set) = Base
    BY DEF Step
  <2> QED  BY <2>1 DEF Folds
<1>2. ASSUME NEW k \in N PROVE k + 1 \in N
  <2>1. PICK g : Folds(g, s, k)
    OBVIOUS
  <2> DEFINE h == [set \in SUBSET (1..(k + 1)) |->
                      IF k + 1 \in set THEN Op(g[set \ {k + 1}], s[k + 1]) ELSE g[set]]
  <2>2. ASSUME NEW set \in SUBSET (1..(k + 1)) PROVE h[set] = Step(h, s, set)
    <3>1. CASE k + 1 \in set
      <4>1. Max(set) = k + 1 /\ set \ {k + 1} \in SUBSET (1..k)
        BY <3>1, MaxOfLast
      <4>2. h[set \ {k + 1}] = g[set \ {k + 1}]
        BY <4>1
      <4>3. set # {} /\ h[set] = Op(g[set \ {k + 1}], s[k + 1])
        BY <3>1
      <4> QED  BY <4>1, <4>2, <4>3 DEF Step
    <3>2. CASE k + 1 \notin set
      <4>1. set \in SUBSET (1..k) /\ set \ {Max(set)} \in SUBSET (1..k)
        <5>1. \A i \in 1..(k + 1) : i = k + 1 \/ i \in 1..k
          OBVIOUS
        <5>2. \A i \in set : i \in 1..k
          BY <3>2, <5>1
        <5> QED  BY <5>2
      <4>2. h[set] = g[set] /\ h[set \ {Max(set)}] = g[set \ {Max(set)}]
        BY <4>1
      <4>3. g[set] = Step(g, s, set)
        BY <2>1, <4>1 DEF Folds
      <4> QED  BY <4>2, <4>3 DEF Step
    <3> QED  BY <3>1, <3>2
  <2>3. Folds(h, s, k + 1)
    <3>1. h = [set \in SUBSET (1..(k + 1)) |-> h[set]]
      OBVIOUS
    <3> HIDE DEF h
    <3> QED  BY <2>2, <3>1 DEF Folds
  <2> QED  BY <2>3
<1>3. N = Nat
  <2> HIDE DEF N
  <2>1. N \in SUBSET Nat
    BY DEF N
  <2> QED  BY <1>1, <1>2, <2>1, NaturalInduction
<1> QED  BY <1>3

\* It goes up to a position by one step from the one before.
LEMMA LastStep ==
    ASSUME NEW s, NEW n \in Nat, NEW g, Folds(g, s, n), NEW k \in Nat, k + 1 <= n
    PROVE  g[1..(k + 1)] = Op(g[1..k], s[k + 1])
<1> DEFINE set == 1..(k + 1)
<1>1. k + 1 \in set /\ set \subseteq 1..n /\ set \ {k + 1} = 1..k
  OBVIOUS
<1>2. Max(set) = k + 1
  BY <1>1, MaxOfLast
<1> HIDE DEF set
<1>3. g[set] = Step(g, s, set)
  BY <1>1 DEF Folds
<1>4. set # {}
  BY <1>1
<1>5. g[set] = Op(g[1..k], s[k + 1])
  BY <1>1, <1>2, <1>3, <1>4 DEF Step
<1> QED  BY <1>5 DEF set

\* On 1 .. n it depends on the first n elements alone.
LEMMA FoldsAgree ==
    ASSUME NEW s, NEW t, NEW n \in Nat, NEW m \in Nat, NEW g, NEW h,
           Folds(g, s, n), Folds(h, t, m), n <= m, \A i \in 1..n : s[i] = t[i]
    PROVE  g[1..n] = h[1..n]
<1> DEFINE N == {k \in Nat : k <= n => g[1..k] = h[1..k]}
<1>1. 0 \in N
  BY DEF Folds, Step
<1>2. ASSUME NEW k \in N PROVE k + 1 \in N
  <2> SUFFICES ASSUME k + 1 <= n PROVE g[1..(k + 1)] = h[1..(k + 1)]
    OBVIOUS
  <2>1. k \in Nat /\ g[1..k] = h[1..k]
    OBVIOUS
  <2>2. g[1..(k + 1)] = Op(g[1..k], s[k + 1])
    BY <2>1, LastStep
  <2>3. h[1..(k + 1)] = Op(h[1..k], t[k + 1])
    BY <2>1, LastStep
  <2>4. s[k + 1] = t[k + 1]
    BY <2>1
  <2> QED  BY <2>1, <2>2, <2>3, <2>4
<1>3. N = Nat
  <2> HIDE DEF N
  <2>1. N \in SUBSET Nat
    BY DEF N
  <2> QED  BY <1>1, <1>2, <2>1, NaturalInduction
<1> QED  BY <1>3

\* Fold is the value of such a function for all positions.
LEMMA FoldIsFolds ==
    ASSUME NEW S, NEW s \in Seq(S)
    PROVE  \E g : Folds(g, s, Len(s)) /\ Fold(s) = g[1..Len(s)]
<1> DEFINE g == CHOOSE g : g = [set \in SUBSET (DOMAIN s) |->
                                   IF set = {} THEN Base ELSE Op(g[set \ {Max(set)}], s[Max(set)])]
<1>1. Fold(s) = g[DOMAIN s]
  BY DEF Fold, FoldLeft, MapThenFoldSet
<1>2. DOMAIN s = 1..Len(s) /\ Len(s) \in Nat
  BY LenProperties
<1>3. g = CHOOSE f : Folds(f, s, Len(s))
  BY <1>2 DEF Folds, Step
<1>4. \E f : Folds(f, s, Len(s))
  BY <1>2, FoldsExists
<1> HIDE DEF g
<1>5. Folds(g, s, Len(s))
  BY <1>3, <1>4
<1> QED  BY <1>1, <1>2, <1>5

\* The two equations of a fold.
THEOREM FoldOfEmpty == Fold(<<>>) = Base
<1>1. <<>> \in Seq({}) /\ Len(<<>>) = 0
  BY EmptySeq
<1>2. PICK g : Folds(g, <<>>, 0) /\ Fold(<<>>) = g[1..0]
  BY <1>1, FoldIsFolds
<1> QED  BY <1>2 DEF Folds, Step

THEOREM FoldOfAppend ==
    ASSUME NEW S, NEW s \in Seq(S), NEW e \in S
    PROVE  Fold(Append(s, e)) = Op(Fold(s), e)
<1> DEFINE t == Append(s, e)
           n == Len(s)
<1>1. /\ t \in Seq(S) /\ Len(t) = n + 1 /\ n \in Nat
      /\ t[n + 1] = e /\ \A i \in 1..n : t[i] = s[i]
  BY AppendProperties, LenProperties
<1> HIDE DEF t, n
<1>2. PICK g : Folds(g, s, n) /\ Fold(s) = g[1..n]
  BY FoldIsFolds DEF n
<1>3. PICK h : Folds(h, t, n + 1) /\ Fold(t) = h[1..(n + 1)]
  BY <1>1, FoldIsFolds
<1>4. g[1..n] = h[1..n]
  <2>1. n + 1 \in Nat /\ n <= n + 1 /\ \A i \in 1..n : s[i] = t[i]
    BY <1>1
  <2> QED  BY <1>1, <1>2, <1>3, <2>1, FoldsAgree
<1>5. h[1..(n + 1)] = Op(h[1..n], t[n + 1])
  BY <1>1, <1>3, LastStep
<1> QED  BY <1>1, <1>2, <1>3, <1>4, <1>5 DEF t

=============================================================================
