----------------------------- MODULE Induction ------------------------------
(***************************************************************************)
(* Induction on the natural numbers, for sets, and what a loop that is     *)
(* repeated a number of times computes.  The proofs about the components   *)
(* use these lemmas for their lists, queues and loops.                     *)
(***************************************************************************)
EXTENDS Integers, FiniteSetTheorems, WellFoundedInduction, TLAPS

(* A finite set of integers that is not empty has a smallest member: the   *)
(* one with the fewest members up to it.                                   *)
LEMMA Smallest ==
  ASSUME NEW S, S \subseteq Int, IsFiniteSet(S), S # {}
  PROVE  \E m \in S : \A k \in S : m <= k
<1> DEFINE upTo(m) == {k \in S : k <= m}
           initials == {upTo(m) : m \in S}
<1>1. initials \subseteq FiniteSubsetsOf(S) /\ initials # {}
  <2>1. \A m \in S : upTo(m) \in SUBSET S
    OBVIOUS
  <2>2. \A m \in S : IsFiniteSet(upTo(m))
    <3> HIDE DEF upTo
    <3> QED  BY <2>1, FS_Subset
  <2> QED  BY <2>1, <2>2 DEF FiniteSubsetsOf
<1>2. PICK u \in initials :
         \A v \in initials : ~(<<v, u>> \in StrictSubsetOrdering(S))
  <2> HIDE DEF initials
  <2> QED  BY <1>1, FS_StrictSubsetOrderingWellFounded, WFMin
<1>3. PICK m \in S : u = upTo(m)
  OBVIOUS
<1>4. \A k \in S : m <= k
  <2> SUFFICES ASSUME NEW k \in S, k < m PROVE FALSE
    OBVIOUS
  <2>1. upTo(k) \subseteq upTo(m)
    <3> SUFFICES ASSUME NEW i \in S, i <= k PROVE i <= m
      OBVIOUS
    <3> QED  OBVIOUS
  <2>2. m \in upTo(m) /\ ~(m \in upTo(k))
    OBVIOUS
  <2>3. <<upTo(k), upTo(m)>> \in StrictSubsetOrdering(S)
    BY <2>1, <2>2 DEF StrictSubsetOrdering
  <2> QED  BY <1>2, <1>3, <2>3
<1> QED  BY <1>4

(* Induction on the natural numbers, for a set.                            *)
LEMMA SetInduction ==
  ASSUME NEW S, 0 \in S, \A n \in Nat : n \in S => n + 1 \in S
  PROVE  \A n \in Nat : n \in S
<1> SUFFICES ASSUME NEW n \in Nat, n \notin S PROVE FALSE
  OBVIOUS
<1> DEFINE out == {k \in 0 .. n : k \notin S}
<1>1. out \subseteq Int /\ IsFiniteSet(out) /\ out # {}
  <2>1. IsFiniteSet(0 .. n)
    BY FS_Interval
  <2> QED  BY <2>1, FS_Subset
<1>2. PICK m \in out : \A k \in out : m <= k
  <2> HIDE DEF out
  <2> QED  BY <1>1, Smallest
<1>3. m \in Nat /\ m \notin S /\ m # 0 /\ m <= n
  OBVIOUS
<1>4. m - 1 \in Nat /\ m - 1 \in 0 .. n /\ (m - 1) + 1 = m
  BY <1>3
<1>5. m - 1 \in S
  BY <1>2, <1>3, <1>4
<1> QED  BY <1>3, <1>4, <1>5

(* Steps that lead from S into S can be taken in turn: the values that they*)
(* lead through are those of a recursive function.                         *)
InTurn(h, N, base, steps) ==
  h = [n \in 0 .. N |-> IF n = 0 THEN base ELSE steps[n][h[n - 1]]]

LEMMA StepsInTurn ==
  ASSUME NEW N \in Nat, NEW S, NEW base \in S, NEW steps \in [1 .. N -> [S -> S]]
  PROVE  \E h \in [0 .. N -> S] : InTurn(h, N, base, steps)
<1> DEFINE Upto(n, h) == /\ h \in [0 .. n -> S]
                         /\ h[0] = base
                         /\ \A i \in 1 .. n : h[i] = steps[i][h[i - 1]]
           T == {n \in Nat : n <= N => \E h : Upto(n, h)}
<1>1. 0 \in T
  <2>1. Upto(0, [i \in 0 .. 0 |-> base])
    OBVIOUS
  <2> QED  BY <2>1
<1>2. ASSUME NEW n \in Nat, n \in T PROVE n + 1 \in T
  <2> SUFFICES ASSUME n + 1 <= N PROVE \E h : Upto(n + 1, h)
    OBVIOUS
  <2>1. PICK h : Upto(n, h)
    BY <1>2
  <2> DEFINE k == [i \in 0 .. n + 1 |-> IF i = n + 1 THEN steps[n + 1][h[n]] ELSE h[i]]
  <2>2. k \in [0 .. n + 1 -> S] /\ k[0] = base
    <3>1. n + 1 \in 1 .. N /\ h[n] \in S
      BY <2>1
    <3>2. steps[n + 1][h[n]] \in S
      BY <3>1
    <3> QED  BY <2>1, <3>2
  <2>3. ASSUME NEW i \in 1 .. n + 1 PROVE k[i] = steps[i][k[i - 1]]
    <3>1. CASE i = n + 1
      BY <3>1
    <3>2. CASE i # n + 1
      <4>1. i \in 1 .. n /\ k[i] = h[i] /\ k[i - 1] = h[i - 1]
        BY <3>2
      <4> QED  BY <2>1, <4>1
    <3> QED  BY <3>1, <3>2
  <2>4. Upto(n + 1, k)
    BY <2>2, <2>3
  <2> HIDE DEF k, Upto
  <2> QED  BY <2>4
<1>3. \A n \in Nat : n \in T
  <2> HIDE DEF T
  <2> QED  BY <1>1, <1>2, SetInduction
<1>4. PICK h : Upto(N, h)
  BY <1>3
<1>5. InTurn(h, N, base, steps)
  <2>1. h = [n \in 0 .. N |-> h[n]]
    BY <1>4
  <2>2. \A n \in 0 .. N : h[n] = IF n = 0 THEN base ELSE steps[n][h[n - 1]]
    BY <1>4
  <2> HIDE DEF Upto
  <2> QED  BY <2>1, <2>2 DEF InTurn
<1> QED  BY <1>4, <1>5

(* One step can be repeated.                                               *)
Repeats(h, N, base, step) ==
  h = [n \in 0 .. N |-> IF n = 0 THEN base ELSE step[h[n - 1]]]

LEMMA Iterates ==
  ASSUME NEW N \in Nat, NEW S, NEW base \in S, NEW step \in [S -> S]
  PROVE  \E h \in [0 .. N -> S] : Repeats(h, N, base, step)
<1> DEFINE steps == [n \in 1 .. N |-> step]
<1>1. steps \in [1 .. N -> [S -> S]]
  OBVIOUS
<1>2. PICK h \in [0 .. N -> S] : InTurn(h, N, base, steps)
  <2> HIDE DEF steps
  <2> QED  BY <1>1, StepsInTurn
<1>3. \A n \in 0 .. N : (IF n = 0 THEN base ELSE steps[n][h[n - 1]]) =
                         (IF n = 0 THEN base ELSE step[h[n - 1]])
  OBVIOUS
<1>4. Repeats(h, N, base, step)
  <2> HIDE DEF steps
  <2> QED  BY <1>2, <1>3 DEF InTurn, Repeats
<1> QED  BY <1>4

(* A recursive function of that form has all its values in S.              *)
LEMMA IteratesIn ==
  ASSUME NEW N \in Nat, NEW S, NEW base \in S, NEW g,
         g[0] = base,
         \A n \in 1 .. N : g[n - 1] \in S => g[n] \in S
  PROVE  \A n \in 0 .. N : g[n] \in S
<1> DEFINE T == {n \in Nat : n <= N => g[n] \in S}
<1>1. 0 \in T
  OBVIOUS
<1>2. ASSUME NEW n \in Nat, n \in T PROVE n + 1 \in T
  <2> SUFFICES ASSUME n + 1 <= N PROVE g[n + 1] \in S
    OBVIOUS
  <2> DEFINE m == n + 1
  <2>1. m \in 1 .. N /\ m - 1 = n /\ g[n] \in S
    BY <1>2
  <2> HIDE DEF m
  <2>2. g[m] \in S
    BY <2>1
  <2> QED  BY <2>2 DEF m
<1>3. \A n \in Nat : n \in T
  <2> HIDE DEF T
  <2> QED  BY <1>1, <1>2, SetInduction
<1> QED  BY <1>3
=============================================================================
