----------------------------- MODULE DataLemmas -----------------------------
(***************************************************************************)
(* What the proofs about data rest on: induction over the natural numbers, *)
(* stated for a set of numbers and got from the least number of its        *)
(* complement; the greatest and least members of sets of numbers.          *)
(***************************************************************************)
EXTENDS Integers, SequencesExt, SequenceTheorems, FiniteSetTheorems,
        WellFoundedInduction, TLAPS

LEMMA LeastMember ==
  ASSUME NEW T, T \subseteq Nat, T # {}
  PROVE  \E n \in T : \A m \in T : n <= m
<1> DEFINE R == OpToRel(<, Nat)
<1>1. IsWellFoundedOn(R, Nat)
  BY NatLessThanWellFounded
<1> HIDE DEF R
<1>2. PICK n \in T : \A m \in T : <<m, n>> \notin R
  BY <1>1, WFMin
<1>3. ASSUME NEW m \in T PROVE n <= m
  <2>1. m \in Nat /\ n \in Nat
    OBVIOUS
  <2>2. <<m, n>> \notin R
    BY <1>2
  <2>3. ~(m < n)
    BY <2>1, <2>2 DEF R, OpToRel
  <2> QED BY <2>1, <2>3
<1> QED BY <1>3

(* T holds the numbers of which something is true.                         *)
LEMMA Induction ==
  ASSUME NEW T, 0 \in T, \A n \in Nat : n \in T => n + 1 \in T
  PROVE  \A n \in Nat : n \in T
<1> SUFFICES ASSUME Nat \ T # {} PROVE FALSE
  OBVIOUS
<1>1. PICK n \in Nat \ T : \A m \in Nat \ T : n <= m
  BY LeastMember
<1> QED BY <1>1, n - 1 \in Nat

(* The same up to a bound.                                                 *)
LEMMA InductionUpTo ==
  ASSUME NEW N \in Nat, NEW T, 0 \in T,
         \A n \in 0 .. N - 1 : n \in T => n + 1 \in T
  PROVE  \A n \in 0 .. N : n \in T
<1> DEFINE U == {n \in Nat : n <= N => n \in T}
<1>1. 0 \in U
  OBVIOUS
<1>2. \A n \in Nat : n \in U => n + 1 \in U
  OBVIOUS
<1> HIDE DEF U
<1>3. \A n \in Nat : n \in U
  BY <1>1, <1>2, Induction
<1> QED BY <1>3 DEF U

LEMMA MinIsLeast ==
  ASSUME NEW T, T \subseteq Nat, T # {}
  PROVE  Min(T) \in T /\ \A m \in T : Min(T) <= m
<1>1. \E n \in T : \A m \in T : n <= m
  BY LeastMember
<1> QED BY <1>1, Zenon DEF Min

LEMMA MaxIsGreatest ==
  ASSUME NEW N \in Nat, NEW T, T \subseteq 0 .. N, T # {}
  PROVE  Max(T) \in T /\ \A m \in T : Max(T) >= m
<1> DEFINE U == {N - n : n \in T}
<1>0. ASSUME NEW n \in T PROVE n \in Nat /\ n <= N
  <2>1. n \in 0 .. N
    OBVIOUS
  <2> QED BY <2>1
<1>1. U \subseteq Nat /\ U # {}
  <2>1. \A n \in T : N - n \in Nat
    BY <1>0
  <2>2. U \subseteq Nat
    BY <2>1
  <2>3. U # {}
    OBVIOUS
  <2> QED BY <2>2, <2>3
<1>2. PICK u \in U : \A v \in U : u <= v
  BY <1>1, LeastMember
<1>3. PICK n \in T : u = N - n
  BY <1>2
<1>4. \A m \in T : n >= m
  <2>1. ASSUME NEW m \in T PROVE n >= m
    <3>1. u <= N - m
      BY <1>2
    <3>2. n \in Nat /\ m \in Nat
      BY <1>0
    <3> QED BY <1>3, <3>1, <3>2
  <2> QED BY <2>1
<1>5. \E k \in T : \A m \in T : k >= m
  BY <1>4
<1> QED BY <1>5, Zenon DEF Max

(* The numbers up to n without the greatest.                               *)
LEMMA MaxOfInterval ==
  ASSUME NEW n \in Nat
  PROVE  /\ 1 .. n + 1 # {}
         /\ Max(1 .. n + 1) = n + 1
         /\ (1 .. n + 1) \ {n + 1} = 1 .. n
<1> DEFINE T == 1 .. n + 1
<1>1. T \subseteq 0 .. n + 1 /\ n + 1 \in Nat /\ n + 1 \in T
  OBVIOUS
<1> HIDE DEF T
<1>2. Max(T) \in T /\ \A m \in T : Max(T) >= m
  BY <1>1, MaxIsGreatest
<1>3. Max(T) = n + 1
  BY <1>1, <1>2 DEF T
<1> QED BY <1>1, <1>3 DEF T

-----------------------------------------------------------------------------
(* Strictly increasing sequences: as many members as positions.            *)

Increasing(s) == \A i, j \in 1 .. Len(s) : i < j => s[i] < s[j]

LEMMA PrefixCounts ==
  ASSUME NEW s, Len(s) \in Nat, \A i \in 1 .. Len(s) : s[i] \in Nat,
         Increasing(s)
  PROVE  \A n \in 0 .. Len(s) :
           /\ IsFiniteSet({s[i] : i \in 1 .. n})
           /\ Cardinality({s[i] : i \in 1 .. n}) = n
<1> DEFINE N == Len(s)
           P(n) == {s[i] : i \in 1 .. n}
           T == {n \in 0 .. N : IsFiniteSet(P(n)) /\ Cardinality(P(n)) = n}
<1>1. 0 \in T
  <2>1. P(0) = {} /\ 0 \in 0 .. N
    OBVIOUS
  <2> QED BY <2>1, FS_EmptySet
<1>2. ASSUME NEW n \in 0 .. N - 1, n \in T PROVE n + 1 \in T
  <2>1. n \in Nat /\ n + 1 \in 1 .. N /\ n + 1 \in 0 .. N
    OBVIOUS
  <2>2. P(n + 1) = P(n) \cup {s[n + 1]}
    <3>1. 1 .. n + 1 = (1 .. n) \cup {n + 1}
      BY <2>1
    <3> QED BY <3>1
  <2>3. s[n + 1] \notin P(n)
    <3>1. ASSUME NEW i \in 1 .. n PROVE s[i] # s[n + 1]
      <4>1. i \in 1 .. N /\ i < n + 1
        BY <2>1
      <4>2. s[i] < s[n + 1] /\ s[i] \in Nat
        BY <2>1, <4>1 DEF Increasing
      <4> QED BY <4>2
    <3> QED BY <3>1
  <2>4. IsFiniteSet(P(n)) /\ Cardinality(P(n)) = n
    BY <1>2
  <2> DEFINE Q == P(n)
             x == s[n + 1]
  <2>5. P(n + 1) = Q \cup {x} /\ x \notin Q
    BY <2>2, <2>3
  <2>6. IsFiniteSet(Q) /\ Cardinality(Q) = n
    BY <2>4
  <2> HIDE DEF P, Q, x
  <2>7. IsFiniteSet(P(n + 1)) /\ Cardinality(P(n + 1)) = n + 1
    BY <2>5, <2>6, FS_AddElement
  <2> QED BY <2>1, <2>7 DEF P
<1>3. \A n \in 0 .. N - 1 : n \in T => n + 1 \in T
  BY <1>2
<1> HIDE DEF T
<1>4. \A n \in 0 .. N : n \in T
  BY <1>1, <1>3, InductionUpTo
<1> QED BY <1>4 DEF T

-----------------------------------------------------------------------------
(* Folds.  FoldLeft is a function on sets of positions that takes their    *)
(* greatest first (MapThenFoldSet).  F is the step at a position; from b   *)
(* it never leaves S.                                                      *)

Iterates(h, F, b, N) ==
  \A t \in SUBSET (1 .. N) :
    h[t] = IF t = {} THEN b ELSE F[Max(t)][h[t \ {Max(t)}]]

LEMMA MaxOfPositions ==
  ASSUME NEW N \in Nat, NEW t \in SUBSET (1 .. N), t # {}
  PROVE  /\ Max(t) \in t /\ Max(t) \in 1 .. N
         /\ t \ {Max(t)} \in SUBSET (1 .. N)
         /\ N \in t => Max(t) = N
<1>1. t \subseteq 0 .. N
  OBVIOUS
<1>2. Max(t) \in t /\ \A m \in t : Max(t) >= m
  BY <1>1, MaxIsGreatest
<1>3. \A m \in t : m \in 1 .. N
  OBVIOUS
<1>4. ASSUME N \in t PROVE Max(t) = N
  <2>1. Max(t) \in 1 .. N /\ Max(t) >= N
    BY <1>2, <1>3, <1>4
  <2> QED BY <2>1
<1> QED BY <1>2, <1>3, <1>4

LEMMA IterationExists ==
  ASSUME NEW S, NEW b \in S, NEW N \in Nat, NEW F,
         \A k \in 1 .. N : F[k] \in [S -> S]
  PROVE  \E h \in [SUBSET (1 .. N) -> S] : Iterates(h, F, b, N)
<1> DEFINE T == {n \in 0 .. N :
                  \E h \in [SUBSET (1 .. n) -> S] : Iterates(h, F, b, n)}
<1>1. 0 \in T
  <2> DEFINE h == [t \in SUBSET (1 .. 0) |-> b]
  <2>1. h \in [SUBSET (1 .. 0) -> S]
    OBVIOUS
  <2>2. \A t \in SUBSET (1 .. 0) : t = {}
    BY 1 .. 0 = {}
  <2>3. Iterates(h, F, b, 0)
    BY <2>2 DEF Iterates
  <2> QED BY <2>1, <2>3
<1>2. ASSUME NEW n \in 0 .. N - 1, n \in T
      PROVE  n + 1 \in T
  <2>1. PICK h \in [SUBSET (1 .. n) -> S] : Iterates(h, F, b, n)
    BY <1>2
  <2> DEFINE g == [t \in SUBSET (1 .. n + 1) |->
                     IF n + 1 \in t THEN F[n + 1][h[t \ {n + 1}]] ELSE h[t]]
  <2>2. \A t \in SUBSET (1 .. n + 1) :
          /\ t \ {n + 1} \in SUBSET (1 .. n)
          /\ n + 1 \notin t => t \in SUBSET (1 .. n)
    OBVIOUS
  <2>3. n \in Nat /\ n + 1 \in Nat /\ n + 1 \in 1 .. N
    OBVIOUS
  <2>4. g \in [SUBSET (1 .. n + 1) -> S]
    <3>1. \A t \in SUBSET (1 .. n + 1) : g[t] \in S
      BY <2>2, <2>3
    <3> QED BY <3>1
  <2>5. ASSUME NEW t \in SUBSET (1 .. n + 1)
        PROVE  g[t] = IF t = {} THEN b ELSE F[Max(t)][g[t \ {Max(t)}]]
    <3>1. CASE n + 1 \in t
      <4>1. Max(t) = n + 1
        BY <2>3, <3>1, MaxOfPositions
      <4>2. t \ {n + 1} \in SUBSET (1 .. n + 1) /\ n + 1 \notin t \ {n + 1}
        OBVIOUS
      <4>3. g[t \ {n + 1}] = h[t \ {n + 1}]
        BY <4>2
      <4> QED BY <3>1, <4>1, <4>3
    <3>2. CASE t = {}
      <4>1. g[t] = h[t]
        BY <3>2
      <4>2. t \in SUBSET (1 .. n)
        BY <3>2
      <4> QED BY <2>1, <3>2, <4>1, <4>2 DEF Iterates
    <3>3. CASE n + 1 \notin t /\ t # {}
      <4>1. t \in SUBSET (1 .. n)
        BY <2>2, <3>3
      <4>2. Max(t) \in t /\ t \ {Max(t)} \in SUBSET (1 .. n)
        BY <2>3, <3>3, <4>1, MaxOfPositions
      <4>3. /\ t \ {Max(t)} \in SUBSET (1 .. n + 1)
            /\ n + 1 \notin t \ {Max(t)}
        BY <3>3
      <4>4. g[t] = h[t] /\ g[t \ {Max(t)}] = h[t \ {Max(t)}]
        BY <3>3, <4>3
      <4>5. h[t] = F[Max(t)][h[t \ {Max(t)}]]
        BY <2>1, <3>3, <4>1 DEF Iterates
      <4> QED BY <3>3, <4>4, <4>5
    <3> QED BY <3>1, <3>2, <3>3
  <2>6. Iterates(g, F, b, n + 1)
    <3> HIDE DEF g
    <3> QED BY <2>5 DEF Iterates
  <2> HIDE DEF g
  <2>7. n + 1 \in 0 .. N
    OBVIOUS
  <2> QED BY <2>4, <2>6, <2>7
<1>3. \A n \in 0 .. N - 1 : n \in T => n + 1 \in T
  BY <1>2
<1>5. N \in 0 .. N
  OBVIOUS
<1> HIDE DEF T
<1>4. N \in T
  BY <1>1, <1>3, <1>5, InductionUpTo
<1> QED BY <1>4 DEF T

(* A fold takes the positions in order.                                    *)
LEMMA IterationWalks ==
  ASSUME NEW F, NEW b, NEW N \in Nat, NEW h, Iterates(h, F, b, N)
  PROVE  /\ h[1 .. 0] = b
         /\ \A n \in 0 .. N - 1 : h[1 .. n + 1] = F[n + 1][h[1 .. n]]
<1>1. 1 .. 0 = {} /\ 1 .. 0 \in SUBSET (1 .. N)
  OBVIOUS
<1>2. h[1 .. 0] = b
  BY <1>1 DEF Iterates
<1>3. ASSUME NEW n \in 0 .. N - 1
      PROVE  h[1 .. n + 1] = F[n + 1][h[1 .. n]]
  <2>1. n \in Nat /\ 1 .. n + 1 \in SUBSET (1 .. N)
    OBVIOUS
  <2>2. /\ 1 .. n + 1 # {} /\ Max(1 .. n + 1) = n + 1
        /\ (1 .. n + 1) \ {n + 1} = 1 .. n
    BY <2>1, MaxOfInterval
  <2> QED BY <2>1, <2>2 DEF Iterates
<1> QED BY <1>2, <1>3
=============================================================================
