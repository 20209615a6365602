---------------------------- MODULE NaturalLoops ----------------------------
(***************************************************************************)
(* What the proofs know of loops over a list: that they have a result, and *)
(* that what holds at the start and is kept by every pass holds at the     *)
(* end.  Both rest on the least element that every set of naturals has.    *)
(***************************************************************************)
EXTENDS WellFoundedInduction, TLAPS

\* A set of naturals that is not empty has a least element.
LEMMA LeastNatural ==
    ASSUME NEW T, T \subseteq Nat, T # {}
    PROVE  \E m \in T : \A k \in T : m <= k
<1> DEFINE R == OpToRel(<, Nat)
<1>1. \A k, m \in Nat : k < m => <<k, m>> \in R
  BY DEF OpToRel
<1>2. IsWellFoundedOn(R, Nat)
  BY NatLessThanWellFounded
<1> HIDE DEF R
<1>3. PICK m \in T : \A k \in T : ~(<<k, m>> \in R)
  BY <1>2, WFMin
<1>4. \A k \in T : ~(k < m)
  BY <1>1, <1>3
<1> QED
  BY <1>3, <1>4

\* A set with 0 and the successor of each of its naturals has them all.
LEMMA SetInduction ==
    ASSUME NEW T, 0 \in T, \A n \in Nat : n \in T => n + 1 \in T
    PROVE  Nat \subseteq T
<1> SUFFICES ASSUME Nat \ T # {}
             PROVE  FALSE
  OBVIOUS
<1>1. PICK m \in Nat \ T : \A k \in Nat \ T : m <= k
  BY LeastNatural
<1>2. m - 1 \in Nat /\ m - 1 \in T
  BY <1>1
<1> QED
  BY <1>1, <1>2

\* What a loop from base, whose pass n makes step[<<v, n>>] of v, has computed
\* after each of its passes.
LoopRuns(S, base, step, last, f) ==
    /\ f \in [0..last -> S]
    /\ f[0] = base
    /\ \A n \in 1..last : f[n] = step[<<f[n - 1], n>>]

\* Every loop runs.
LEMMA LoopExists ==
    ASSUME NEW S, NEW base \in S, NEW step \in [S \X Nat -> S],
           NEW last \in Nat
    PROVE  \E f : LoopRuns(S, base, step, last, f)
<1> DEFINE Runs(m, f) == /\ f \in [0..m -> S]
                         /\ f[0] = base
                         /\ \A n \in 1..m : f[n] = step[<<f[n - 1], n>>]
           T == {m \in Nat : \E f : Runs(m, f)}
<1>1. 0 \in T
  <2>1. Runs(0, [n \in 0..0 |-> base])
    OBVIOUS
  <2> QED
    BY <2>1
<1>2. ASSUME NEW m \in Nat, m \in T
      PROVE  m + 1 \in T
  <2>1. PICK f : Runs(m, f)
    BY <1>2
  <2> DEFINE g == [n \in 0..m + 1 |->
                     IF n = m + 1 THEN step[<<f[m], m + 1>>] ELSE f[n]]
  <2>2. g \in [0..m + 1 -> S]
    <3>1. \A n \in 0..m + 1 : n # m + 1 => n \in 0..m
      OBVIOUS
    <3>2. f[m] \in S /\ m + 1 \in Nat
      BY <2>1
    <3> QED
      BY <2>1, <3>1, <3>2
  <2>3. g[0] = base
    BY <2>1
  <2>4. ASSUME NEW n \in 1..m + 1
        PROVE  g[n] = step[<<g[n - 1], n>>]
    <3>1. n - 1 \in 0..m /\ n - 1 \in 0..m + 1 /\ n - 1 # m + 1
          /\ n \in 0..m + 1
      OBVIOUS
    <3>2. g[n - 1] = f[n - 1]
      BY <3>1
    <3>3. CASE n = m + 1
      BY <3>1, <3>2, <3>3
    <3>4. CASE n # m + 1
      <4>1. n \in 1..m
        BY <3>4
      <4> QED
        BY <2>1, <3>1, <3>2, <3>4, <4>1
    <3> QED
      BY <3>3, <3>4
  <2>5. Runs(m + 1, g)
    BY <2>2, <2>3, <2>4
  <2> HIDE DEF Runs, g
  <2> QED
    BY <2>5
<1> HIDE DEF Runs
<1>3. Nat \subseteq T
  BY <1>1, <1>2, SetInduction
<1>4. PICK f : Runs(last, f)
  BY <1>3
<1> QED
  BY <1>4 DEF Runs, LoopRuns

=============================================================================
