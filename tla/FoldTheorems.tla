---------------------------- MODULE FoldTheorems ----------------------------
(***************************************************************************)
(* Induction and left folds, in a form the provers can use.  The library's *)
(* induction theorems take the property as an operator, which no backend   *)
(* instantiates; here the property is a set of numbers, and the operator   *)
(* that is folded a constant of the module, so that an INSTANCE replaces   *)
(* it before any prover sees it:                                           *)
(*                                                                         *)
(*   Best == INSTANCE FoldTheorems WITH Op <- BetterEntry                  *)
(*                                                                         *)
(* FoldLeft of the community modules chooses a function on subsets of the  *)
(* domain that satisfies a recursive equation; UnfoldingExists is the      *)
(* proof that there is one.                                                *)
(***************************************************************************)
EXTENDS SequencesExt, TLAPS, WellFoundedInduction

CONSTANT Op(_, _)

(* FoldLeft with its operator, so that no prover meets an operator as an   *)
(* argument.                                                               *)
Fold(base, s) == FoldLeft(Op, base, s)

(* A set of natural numbers has a least element, unless it is empty. *)
LEMMA LeastElement ==
  ASSUME NEW T, T \subseteq Nat, T # {}
  PROVE  \E n \in T : \A m \in T : n <= m
<1> DEFINE R == OpToRel(<, Nat)
<1>1. IsWellFoundedOn(R, Nat)
  BY NatLessThanWellFounded
<1>2. \A m, n \in Nat : m < n => <<m, n>> \in R
  BY DEF OpToRel
<1> HIDE DEF R
<1>3. PICK n \in T : \A m \in T : ~(<<m, n>> \in R)
  BY <1>1, WFMin
<1>4. ASSUME NEW m \in T PROVE n <= m
  <2>1. m \in Nat /\ n \in Nat
    OBVIOUS
  <2>2. ~(m < n)
    BY <1>2, <1>3, <2>1
  <2> QED BY <2>1, <2>2
<1> QED BY <1>4

(* Induction: T are the numbers that have the property. *)
LEMMA SetInduction ==
  ASSUME NEW T, 0 \in T, \A n \in Nat : n \in T => n + 1 \in T
  PROVE  Nat \subseteq T
<1> DEFINE U == Nat \ T
<1> SUFFICES ASSUME U # {} PROVE FALSE
  OBVIOUS
<1>1. PICK n \in U : \A m \in U : n <= m
  BY LeastElement
<1>2. n - 1 \in Nat /\ n - 1 \in T
  BY <1>1
<1> QED BY <1>1, <1>2

----------------------------------------------------------------------------
(* The equation FoldLeft solves, for a sequence of length n: the fold over *)
(* the elements at the indices in I, the greatest index last.              *)
Unfolds(g, base, s, n) ==
  g = [I \in SUBSET (1..n) |->
         IF I = {} THEN base ELSE Op(g[I \ {Max(I)}], s[Max(I)])]

LEMMA FoldUnfolded ==
  ASSUME NEW base, NEW s, NEW n \in Nat, DOMAIN s = 1..n
  PROVE  Fold(base, s) = (CHOOSE g : Unfolds(g, base, s, n))[1..n]
BY DEF Fold, FoldLeft, MapThenFoldSet, Unfolds

(* Max without a search: the greatest number of an interval. *)
LEMMA MaxWith ==
  ASSUME NEW n \in Nat, NEW I \in SUBSET (1..(n + 1)), n + 1 \in I
  PROVE  Max(I) = n + 1
<1>1. \A y \in I : n + 1 >= y
  OBVIOUS
<1>2. ASSUME NEW x \in I, \A y \in I : x >= y PROVE x = n + 1
  <2>1. x \in Int /\ x >= n + 1 /\ x <= n + 1
    BY <1>2
  <2> QED BY <2>1
<1> QED BY <1>1, <1>2 DEF Max

(* A solution for n + 1 extends one for n by the sets with n + 1 in them. *)
LEMMA UnfoldingExists ==
  ASSUME NEW base, NEW s
  PROVE  \A n \in Nat : \E g : Unfolds(g, base, s, n)
<1> DEFINE T == {n \in Nat : \E g : Unfolds(g, base, s, n)}
<1>1. 0 \in T
  <2>1. Unfolds([I \in SUBSET (1..0) |-> base], base, s, 0)
    BY DEF Unfolds
  <2> QED BY <2>1
<1>2. ASSUME NEW n \in Nat, n \in T
      PROVE  n + 1 \in T
  <2>1. PICK g : Unfolds(g, base, s, n)
    BY <1>2
  <2> DEFINE h == [I \in SUBSET (1..(n + 1)) |->
                     IF n + 1 \in I THEN Op(g[I \ {n + 1}], s[n + 1]) ELSE g[I]]
  <2>2. ASSUME NEW I \in SUBSET (1..(n + 1))
        PROVE  h[I] = IF I = {} THEN base ELSE Op(h[I \ {Max(I)}], s[Max(I)])
    <3>1. CASE n + 1 \in I
      <4>1. Max(I) = n + 1
        BY <3>1, MaxWith
      <4>2. I \ {n + 1} \in SUBSET (1..(n + 1)) /\ n + 1 \notin I \ {n + 1}
        OBVIOUS
      <4>3. h[I \ {n + 1}] = g[I \ {n + 1}]
        BY <4>2
      <4> QED BY <3>1, <4>1, <4>3
    <3>2. CASE n + 1 \notin I
      <4>1. I \in SUBSET (1..n)
        BY <3>2
      <4>2. h[I] = IF I = {} THEN base ELSE Op(g[I \ {Max(I)}], s[Max(I)])
        BY <2>1, <3>2, <4>1 DEF Unfolds
      <4>3. I \ {Max(I)} \in SUBSET (1..(n + 1)) /\ n + 1 \notin I \ {Max(I)}
        BY <3>2
      <4>4. h[I \ {Max(I)}] = g[I \ {Max(I)}]
        BY <4>3
      <4> QED BY <4>2, <4>4
    <3> QED BY <3>1, <3>2
  <2>3. Unfolds(h, base, s, n + 1)
    BY <2>2 DEF Unfolds
  <2> QED BY <2>3
<1>3. Nat \subseteq T
  BY <1>1, <1>2, SetInduction
<1> QED BY <1>3

(* A solution on an initial segment of the indices. *)
LEMMA UnfoldingAt ==
  ASSUME NEW base, NEW s, NEW g, NEW n \in Nat, Unfolds(g, base, s, n), NEW k \in 0..(n - 1)
  PROVE  g[1..(k + 1)] = Op(g[1..k], s[k + 1])
<1>1. k \in Nat /\ Max(1..(k + 1)) = k + 1
  BY MaxWith
<1>2. /\ (1..(k + 1)) \ {k + 1} = 1..k /\ 1..(k + 1) # {}
      /\ 1..(k + 1) \in SUBSET (1..n)
  OBVIOUS
<1>3. \A I \in SUBSET (1..n) :
        g[I] = IF I = {} THEN base ELSE Op(g[I \ {Max(I)}], s[Max(I)])
  BY DEF Unfolds
<1> HIDE DEF Unfolds
<1> DEFINE I == 1..(k + 1)
<1>4. g[I] = Op(g[I \ {Max(I)}], s[Max(I)])
  BY <1>2, <1>3
<1> QED BY <1>1, <1>2, <1>4

LEMMA FoldUnfolding ==
  ASSUME NEW base, NEW S, NEW s \in Seq(S)
  PROVE  \E g : Unfolds(g, base, s, Len(s)) /\ Fold(base, s) = g[1..Len(s)]
<1>1. DOMAIN s = 1..Len(s) /\ Len(s) \in Nat
  OBVIOUS
<1>2. \E g : Unfolds(g, base, s, Len(s))
  BY <1>1, UnfoldingExists
<1>3. Unfolds(CHOOSE g : Unfolds(g, base, s, Len(s)), base, s, Len(s))
  BY <1>2
<1> QED BY <1>1, <1>3, FoldUnfolded

(* Folding nothing gives the base. *)
LEMMA FoldOfEmpty == \A base : Fold(base, <<>>) = base
<1> TAKE base
<1>1. <<>> \in Seq({}) /\ Len(<<>>) = 0
  OBVIOUS
<1>2. PICK g : Unfolds(g, base, <<>>, 0) /\ Fold(base, <<>>) = g[1..0]
  BY <1>1, FoldUnfolding
<1>3. 1..0 = {} /\ {} \in SUBSET (1..0)
  OBVIOUS
<1> QED BY <1>2, <1>3 DEF Unfolds

(* Folding one more element applies Op once more. *)
LEMMA FoldOfAppend ==
  ASSUME NEW base, NEW S, NEW s \in Seq(S), NEW x \in S
  PROVE  Fold(base, Append(s, x)) = Op(Fold(base, s), x)
<1>1. Append(s, x) \in Seq(S)
  OBVIOUS
<1>2. PICK t \in Seq(S) : t = Append(s, x)
  BY <1>1
<1>3. PICK n \in Nat, m \in Nat : n = Len(s) /\ m = Len(t) /\ n \in 0..(m - 1) /\ n + 1 = m
  BY <1>2
<1>4. t[m] = x /\ \A i \in 1..n : s[i] = t[i]
  BY <1>2, <1>3
<1>5. PICK g : Unfolds(g, base, s, n) /\ Fold(base, s) = g[1..n]
  BY <1>3, FoldUnfolding
<1>6. PICK h : Unfolds(h, base, t, m) /\ Fold(base, t) = h[1..m]
  BY <1>3, FoldUnfolding
<1>7. g[1..n] = h[1..n]
  <2> DEFINE T == {k \in Nat : k <= n => g[1..k] = h[1..k]}
  <2>1. 0 \in T
    <3>1. 1..0 = {} /\ {} \in SUBSET (1..n) /\ {} \in SUBSET (1..m)
      OBVIOUS
    <3> QED BY <1>5, <1>6, <3>1 DEF Unfolds
  <2>2. ASSUME NEW k \in Nat, k \in T PROVE k + 1 \in T
    <3> SUFFICES ASSUME k + 1 <= n PROVE g[1..(k + 1)] = h[1..(k + 1)]
      OBVIOUS
    <3>1. k \in 0..(n - 1) /\ k \in 0..(m - 1)
      BY <1>3
    <3>2. g[1..(k + 1)] = Op(g[1..k], s[k + 1])
      BY <1>5, <3>1, UnfoldingAt
    <3>3. h[1..(k + 1)] = Op(h[1..k], t[k + 1])
      BY <1>6, <3>1, UnfoldingAt
    <3>4. g[1..k] = h[1..k] /\ s[k + 1] = t[k + 1]
      BY <1>4, <2>2
    <3> QED BY <3>2, <3>3, <3>4
  <2>3. Nat \subseteq T
    BY <2>1, <2>2, SetInduction
  <2> QED BY <2>3
<1>8. h[1..m] = Op(h[1..n], t[m])
  BY <1>3, <1>6, UnfoldingAt
<1> QED BY <1>2, <1>4, <1>5, <1>6, <1>7, <1>8
====
