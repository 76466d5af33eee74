---------------------------- MODULE SetInduction ----------------------------
(***************************************************************************)
(* Induction and recursion over an initial part of the natural numbers.    *)
(* The induction hypothesis is a set of numbers and a recursion step is a  *)
(* function, so that the lemmas have no operator as a parameter.  The      *)
(* proofs about the recursive definitions of the models rest on them.      *)
(***************************************************************************)
EXTENDS Integers, WellFoundedInduction, TLAPS

(* A set that has 0 and with every number its successor has all numbers. *)
LEMMA NatSetInduction ==
  ASSUME NEW P, 0 \in P, \A n \in Nat : n \in P => n + 1 \in P
  PROVE  \A n \in Nat : n \in P
<1> DEFINE R == {ss \in Nat \X Nat : ss[1] < ss[2]}
           T == {n \in Nat : n \notin P}
<1>1. IsWellFoundedOn(R, Nat)
  BY NatLessThanWellFounded DEF OpToRel
<1>2. T \subseteq Nat
  OBVIOUS
<1>3. ASSUME T # {} PROVE FALSE
  <2>1. PICK x \in T : \A y \in T : ~(<<y, x>> \in R)
    <3> HIDE DEF R, T
    <3> QED BY <1>1, <1>2, <1>3, WFMin
  <2>2. x \in Nat /\ x # 0
    OBVIOUS
  <2>3. x - 1 \in T
    BY <2>2
  <2>4. <<x - 1, x>> \in R
    BY <2>2, <2>3
  <2> QED BY <2>1, <2>3, <2>4
<1> QED BY <1>3

(* Of the numbers of a set one is the smallest. *)
LEMMA SmallestExists ==
  ASSUME NEW S, S \subseteq Nat, S # {}
  PROVE  \E n \in S : \A k \in S : n <= k
<1> DEFINE P == {n \in Nat : \A k \in S : k > n}
<1>1. SUFFICES ASSUME ~\E n \in S : \A k \in S : n <= k PROVE FALSE
  OBVIOUS
<1>2. 0 \in P
  BY <1>1
<1>3. ASSUME NEW n \in Nat, n \in P PROVE n + 1 \in P
  BY <1>1, <1>3
<1>4. \A n \in Nat : n \in P
  <2> HIDE DEF P
  <2> QED BY <1>2, <1>3, NatSetInduction
<1>5. PICK n \in S : TRUE
  OBVIOUS
<1>6. n \in Nat /\ n > n
  BY <1>4
<1> QED BY <1>6

(* f starts from a, and f[i] comes from f[i - 1] by the step G[i]. *)
Steps(f, a, G, n) == f[0] = a /\ \A i \in 1 .. n : f[i] = G[i][f[i - 1]]

(* There is such an f for all steps within S. *)
LEMMA RecursionExists ==
  ASSUME NEW N \in Nat, NEW S, NEW a \in S, NEW G \in [1 .. N -> [S -> S]]
  PROVE  \E f \in [0 .. N -> S] : Steps(f, a, G, N)
<1> DEFINE P == {n \in Nat : n <= N => \E f \in [0 .. n -> S] : Steps(f, a, G, n)}
<1>1. 0 \in P
  <2> DEFINE f == [i \in 0 .. 0 |-> a]
  <2>1. f \in [0 .. 0 -> S] /\ Steps(f, a, G, 0)
    BY DEF Steps
  <2> QED BY <2>1
<1>2. ASSUME NEW n \in Nat, n \in P PROVE n + 1 \in P
  <2> SUFFICES ASSUME n + 1 <= N
               PROVE  \E f \in [0 .. n + 1 -> S] : Steps(f, a, G, n + 1)
    OBVIOUS
  <2>1. PICK f \in [0 .. n -> S] : Steps(f, a, G, n)
    BY <1>2
  <2> DEFINE g == [i \in 0 .. n + 1 |-> IF i = n + 1 THEN G[n + 1][f[n]] ELSE f[i]]
  <2>2. f[n] \in S /\ n + 1 \in 1 .. N
    OBVIOUS
  <2>3. G[n + 1][f[n]] \in S
    BY <2>2
  <2>4. g \in [0 .. n + 1 -> S]
    BY <2>3
  <2>5. ASSUME NEW i \in 1 .. n + 1 PROVE g[i] = G[i][g[i - 1]]
    BY <2>1, <2>5 DEF Steps
  <2>6. g[0] = a
    BY <2>1 DEF Steps
  <2> QED BY <2>4, <2>5, <2>6 DEF Steps
<1>3. N \in P
  <2> HIDE DEF P
  <2> QED BY <1>1, <1>2, NatSetInduction
<1> QED BY <1>3

(* There is only one. *)
LEMMA RecursionUnique ==
  ASSUME NEW N \in Nat, NEW a, NEW G, NEW f, NEW g,
         Steps(f, a, G, N), Steps(g, a, G, N)
  PROVE  \A n \in 0 .. N : f[n] = g[n]
<1> DEFINE P == {n \in Nat : n <= N => f[n] = g[n]}
<1>1. 0 \in P
  BY DEF Steps
<1>2. ASSUME NEW n \in Nat, n \in P PROVE n + 1 \in P
  BY <1>2 DEF Steps
<1>3. \A n \in Nat : n \in P
  <2> HIDE DEF P
  <2> QED BY <1>1, <1>2, NatSetInduction
<1> QED BY <1>3
=============================================================================
