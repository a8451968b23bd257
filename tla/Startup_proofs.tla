--------------------------- MODULE Startup_proofs ---------------------------
(***************************************************************************)
(* What is proved of the start for any files and any set of failing calls: *)
(* a server that runs watches a socket for every port of its configuration *)
(* and no other, and however main ends it leaves nothing open.  And what   *)
(* the walk over the tokens of a file makes of the braces.                 *)
(***************************************************************************)
EXTENDS Startup, DataLemmas

-----------------------------------------------------------------------------
(* Sequences of ports.                                                     *)

LEMMA AppendAdds ==
  ASSUME NEW S, NEW s \in Seq(S), NEW e \in S
  PROVE  /\ Append(s, e) \in Seq(S)
         /\ ToSet(Append(s, e)) = ToSet(s) \cup {e}
         /\ IsInjective(s) /\ e \notin ToSet(s) => IsInjective(Append(s, e))
<1> DEFINE a == Append(s, e)
           N == Len(s)
<1>1. /\ a \in Seq(S) /\ Len(a) = N + 1 /\ N \in Nat
      /\ \A i \in 1 .. N : a[i] = s[i]
      /\ a[N + 1] = e
  BY AppendProperties, LenProperties
<1>2. DOMAIN s = 1 .. N /\ DOMAIN a = 1 .. N + 1
  BY <1>1, LenProperties
<1> HIDE DEF a, N
<1>3. ToSet(a) = ToSet(s) \cup {e}
  <2>1. ASSUME NEW x \in ToSet(a) PROVE x \in ToSet(s) \cup {e}
    <3>1. PICK i \in 1 .. N + 1 : a[i] = x
      BY <1>2, <2>1 DEF ToSet
    <3>2. CASE i = N + 1
      BY <1>1, <3>1, <3>2
    <3>3. CASE i # N + 1
      <4>1. i \in 1 .. N
        BY <1>1, <3>3
      <4> QED BY <1>1, <1>2, <3>1, <4>1 DEF ToSet
    <3> QED BY <3>2, <3>3
  <2>2. ASSUME NEW x \in ToSet(s) PROVE x \in ToSet(a)
    <3>1. PICK i \in 1 .. N : s[i] = x
      BY <1>2, <2>2 DEF ToSet
    <3>2. i \in DOMAIN a /\ a[i] = x
      BY <1>1, <1>2, <3>1
    <3> QED BY <3>2 DEF ToSet
  <2>3. e \in ToSet(a)
    <3>1. N + 1 \in DOMAIN a
      BY <1>1, <1>2
    <3> QED BY <1>1, <3>1 DEF ToSet
  <2> QED BY <2>1, <2>2, <2>3
<1>4. ASSUME IsInjective(s), e \notin ToSet(s)
      PROVE  IsInjective(a)
  <2>1. ASSUME NEW i \in 1 .. N + 1, NEW j \in 1 .. N + 1, a[i] = a[j], i < j
        PROVE  FALSE
    <3>1. i \in 1 .. N /\ a[i] = s[i] /\ s[i] \in ToSet(s)
      BY <1>1, <1>2, <2>1 DEF ToSet
    <3>2. CASE j = N + 1
      BY <1>1, <1>4, <2>1, <3>1, <3>2
    <3>3. CASE j # N + 1
      <4>1. j \in 1 .. N /\ a[j] = s[j]
        BY <1>1, <3>3
      <4>2. i \in DOMAIN s /\ j \in DOMAIN s /\ s[i] = s[j]
        BY <1>2, <2>1, <3>1, <4>1
      <4>3. i = j
        BY <1>4, <4>2, Zenon DEF IsInjective
      <4> QED BY <1>1, <2>1, <4>1, <4>3
    <3> QED BY <3>2, <3>3
  <2>2. \A i, j \in 1 .. N + 1 : i < j \/ j < i \/ i = j
    BY <1>1
  <2> QED BY <1>2, <2>1, <2>2 DEF IsInjective
<1> QED BY <1>1, <1>3, <1>4 DEF a

LEMMA ConcatAdds ==
  ASSUME NEW S, NEW s \in Seq(S), NEW t \in Seq(S)
  PROVE  s \o t \in Seq(S) /\ ToSet(s \o t) = ToSet(s) \cup ToSet(t)
<1> DEFINE c == s \o t
           M == Len(s)
           N == Len(t)
<1>1. /\ c \in Seq(S) /\ Len(c) = M + N /\ M \in Nat /\ N \in Nat
      /\ \A i \in 1 .. M + N : c[i] = IF i <= M THEN s[i] ELSE t[i - M]
  BY ConcatProperties, LenProperties
<1>2. DOMAIN s = 1 .. M /\ DOMAIN t = 1 .. N /\ DOMAIN c = 1 .. M + N
  BY <1>1, LenProperties
<1> HIDE DEF c, M, N
<1>3. ASSUME NEW x \in ToSet(c) PROVE x \in ToSet(s) \cup ToSet(t)
  <2>1. PICK i \in 1 .. M + N : c[i] = x
    BY <1>2, <1>3 DEF ToSet
  <2>2. CASE i <= M
    <3>1. i \in 1 .. M /\ s[i] = x
      BY <1>1, <2>1, <2>2
    <3> QED BY <1>2, <3>1 DEF ToSet
  <2>3. CASE ~(i <= M)
    <3>1. i - M \in 1 .. N /\ t[i - M] = x
      BY <1>1, <2>1, <2>3
    <3> QED BY <1>2, <3>1 DEF ToSet
  <2> QED BY <2>2, <2>3
<1>4. ASSUME NEW x \in ToSet(s) PROVE x \in ToSet(c)
  <2>1. PICK i \in 1 .. M : s[i] = x
    BY <1>2, <1>4 DEF ToSet
  <2>2. i \in 1 .. M + N /\ c[i] = x
    BY <1>1, <2>1
  <2> QED BY <1>2, <2>2 DEF ToSet
<1>5. ASSUME NEW x \in ToSet(t) PROVE x \in ToSet(c)
  <2>1. PICK i \in 1 .. N : t[i] = x
    BY <1>2, <1>5 DEF ToSet
  <2>2. M + i \in 1 .. M + N /\ ~(M + i <= M) /\ (M + i) - M = i
    BY <1>1
  <2>3. c[M + i] = x
    BY <1>1, <2>1, <2>2
  <2> QED BY <1>2, <2>2, <2>3 DEF ToSet
<1> QED BY <1>1, <1>3, <1>4, <1>5 DEF c

-----------------------------------------------------------------------------
(* getUniquePorts.                                                         *)

LEMMA AddOnePortAdds ==
  ASSUME NEW P, NEW ps \in Seq(P), NEW p \in P
  PROVE  /\ AddOnePort(ps, p) \in Seq(P)
         /\ ToSet(AddOnePort(ps, p)) = ToSet(ps) \cup {p}
         /\ IsInjective(ps) => IsInjective(AddOnePort(ps, p))
<1>1. CASE p \in ToSet(ps)
  BY <1>1 DEF AddOnePort
<1>2. CASE p \notin ToSet(ps)
  BY <1>2, AppendAdds DEF AddOnePort
<1> QED BY <1>1, <1>2

(* The fold over the ports, one after the other.                           *)
LEMMA AddPortsCollects ==
  ASSUME NEW P, NEW n \in Nat, NEW s \in [1 .. n -> P]
  PROVE  LET ps == FoldLeft(AddOnePort, <<>>, s) IN
           /\ ps \in Seq(P)
           /\ ToSet(ps) = {s[i] : i \in 1 .. n}
           /\ IsInjective(ps)
<1> DEFINE F == [k \in 1 .. n |-> [q \in Seq(P) |-> AddOnePort(q, s[k])]]
           iter == CHOOSE g : g =
                     [t \in SUBSET DOMAIN s |->
                        IF t = {} THEN <<>>
                        ELSE AddOnePort(g[t \ {Max(t)}], s[Max(t)])]
<1>1. PICK h \in [SUBSET (1 .. n) -> Seq(P)] : Iterates(h, F, <<>>, n)
  <2>1. \A k \in 1 .. n : F[k] \in [Seq(P) -> Seq(P)]
    BY AddOnePortAdds
  <2>2. <<>> \in Seq(P)
    OBVIOUS
  <2> HIDE DEF F
  <2> QED BY <2>1, <2>2, IterationExists
<1>2. h = [t \in SUBSET DOMAIN s |->
             IF t = {} THEN <<>>
             ELSE AddOnePort(h[t \ {Max(t)}], s[Max(t)])]
  <2>1. ASSUME NEW t \in SUBSET (1 .. n)
        PROVE  h[t] = IF t = {} THEN <<>>
                      ELSE AddOnePort(h[t \ {Max(t)}], s[Max(t)])
    <3>1. h[t] = IF t = {} THEN <<>> ELSE F[Max(t)][h[t \ {Max(t)}]]
      BY <1>1 DEF Iterates
    <3>2. CASE t # {}
      <4>1. Max(t) \in 1 .. n /\ t \ {Max(t)} \in SUBSET (1 .. n)
        BY <3>2, MaxOfPositions
      <4>2. h[t \ {Max(t)}] \in Seq(P)
        BY <4>1
      <4> QED BY <3>1, <3>2, <4>1, <4>2
    <3> QED BY <3>1, <3>2
  <2>2. DOMAIN s = 1 .. n
    OBVIOUS
  <2>3. h = [t \in SUBSET (1 .. n) |-> h[t]]
    OBVIOUS
  <2> HIDE DEF F
  <2> QED BY <2>1, <2>2, <2>3, Zenon
<1>3. iter = [t \in SUBSET DOMAIN s |->
                IF t = {} THEN <<>>
                ELSE AddOnePort(iter[t \ {Max(t)}], s[Max(t)])]
  <2> HIDE DEF F
  <2> QED BY <1>2, Zenon
<1>4. FoldLeft(AddOnePort, <<>>, s) = iter[DOMAIN s]
  BY Zenon DEF FoldLeft, MapThenFoldSet
<1> HIDE DEF iter, F
<1>5. DOMAIN s = 1 .. n
  OBVIOUS
<1>6. iter[1 .. 0] = <<>>
  <2>1. 1 .. 0 = {} /\ {} \in SUBSET (1 .. n)
    OBVIOUS
  <2> QED BY <1>3, <1>5, <2>1
<1>7. ASSUME NEW k \in 0 .. n - 1
      PROVE  iter[1 .. k + 1] = AddOnePort(iter[1 .. k], s[k + 1])
  <2>1. k \in Nat /\ 1 .. k + 1 \in SUBSET (1 .. n)
    OBVIOUS
  <2>2. /\ 1 .. k + 1 # {} /\ Max(1 .. k + 1) = k + 1
        /\ (1 .. k + 1) \ {k + 1} = 1 .. k
    BY <2>1, MaxOfInterval
  <2> QED BY <1>3, <1>5, <2>1, <2>2
<1> DEFINE Good(k) == /\ iter[1 .. k] \in Seq(P)
                      /\ ToSet(iter[1 .. k]) = {s[i] : i \in 1 .. k}
                      /\ IsInjective(iter[1 .. k])
           T == {k \in 0 .. n : Good(k)}
<1>8. 0 \in T
  <2>1. ToSet(<<>>) = {} /\ IsInjective(<<>>) /\ <<>> \in Seq(P)
    BY DEF ToSet, IsInjective
  <2>2. {s[i] : i \in 1 .. 0} = {}
    OBVIOUS
  <2>3. Good(0)
    BY <1>6, <2>1, <2>2
  <2> QED BY <2>3
<1>9. ASSUME NEW k \in 0 .. n - 1, k \in T
      PROVE  k + 1 \in T
  <2>1. Good(k) /\ k + 1 \in 1 .. n /\ k + 1 \in 0 .. n
    BY <1>9
  <2>2. s[k + 1] \in P
    BY <2>1
  <2>3. {s[i] : i \in 1 .. k + 1} = {s[i] : i \in 1 .. k} \cup {s[k + 1]}
    <3>1. 1 .. k + 1 = (1 .. k) \cup {k + 1}
      OBVIOUS
    <3> QED BY <3>1
  <2>4. LET a == AddOnePort(iter[1 .. k], s[k + 1]) IN
          /\ a \in Seq(P)
          /\ ToSet(a) = ToSet(iter[1 .. k]) \cup {s[k + 1]}
          /\ IsInjective(a)
    <3> DEFINE q == iter[1 .. k]
               e == s[k + 1]
    <3>1. q \in Seq(P) /\ IsInjective(q) /\ e \in P
      BY <2>1, <2>2
    <3> HIDE DEF q, e
    <3>2. /\ AddOnePort(q, e) \in Seq(P)
          /\ ToSet(AddOnePort(q, e)) = ToSet(q) \cup {e}
          /\ IsInjective(AddOnePort(q, e))
      BY <3>1, AddOnePortAdds
    <3> QED BY <3>2 DEF q, e
  <2>5. Good(k + 1)
    BY <1>7, <2>1, <2>3, <2>4
  <2> QED BY <2>1, <2>5
<1>10. n \in 0 .. n
  OBVIOUS
<1>11. \A k \in 0 .. n - 1 : k \in T => k + 1 \in T
  BY <1>9
<1>12. n \in T
  <2> HIDE DEF T
  <2> QED BY <1>8, <1>10, <1>11, InductionUpTo
<1> QED BY <1>4, <1>5, <1>12

(* The sequences of ports of the servers, one behind the other.            *)
LEMMA FlattenCollects ==
  ASSUME NEW P, NEW n \in Nat, NEW seqs \in [1 .. n -> Seq(P)]
  PROVE  /\ FlattenSeq(seqs) \in Seq(P)
         /\ ToSet(FlattenSeq(seqs)) = UNION {ToSet(seqs[i]) : i \in 1 .. n}
<1> DEFINE flatten == CHOOSE f : f =
             [i \in 1 .. Len(seqs) |-> IF i = 1 THEN seqs[i]
                                       ELSE f[i - 1] \o seqs[i]]
           Flattens(f, k) ==
             \A i \in 1 .. k : f[i] = IF i = 1 THEN seqs[i]
                                      ELSE f[i - 1] \o seqs[i]
           T == {k \in 0 .. n : \E f \in [1 .. k -> Seq(P)] : Flattens(f, k)}
<1>1. Len(seqs) = n
  OBVIOUS
<1>2. CASE n = 0
  <2>1. FlattenSeq(seqs) = seqs
    BY <1>1, <1>2 DEF FlattenSeq
  <2>2. seqs \in Seq(P) /\ DOMAIN seqs = {}
    BY <1>1, <1>2
  <2> QED BY <1>2, <2>1, <2>2 DEF ToSet
<1>3. CASE n # 0
  <2>1. 0 \in T
    <3>1. [i \in 1 .. 0 |-> <<>>] \in [1 .. 0 -> Seq(P)]
      OBVIOUS
    <3>2. Flattens([i \in 1 .. 0 |-> <<>>], 0)
      OBVIOUS
    <3>3. 0 \in 0 .. n
      OBVIOUS
    <3> HIDE DEF Flattens
    <3> QED BY <3>1, <3>2, <3>3
  <2>2. ASSUME NEW k \in 0 .. n - 1, k \in T PROVE k + 1 \in T
    <3>1. PICK f \in [1 .. k -> Seq(P)] : Flattens(f, k)
      BY <2>2
    <3> DEFINE next == IF k = 0 THEN seqs[1] ELSE f[k] \o seqs[k + 1]
               g == [i \in 1 .. k + 1 |-> IF i = k + 1 THEN next ELSE f[i]]
    <3>2. k \in Nat /\ k + 1 \in 1 .. n /\ k + 1 \in 0 .. n
      OBVIOUS
    <3>3. next \in Seq(P)
      <4>1. seqs[k + 1] \in Seq(P)
        BY <3>2
      <4>2. CASE k = 0
        BY <4>1, <4>2
      <4>3. CASE k # 0
        <5>1. f[k] \in Seq(P)
          BY <3>2, <4>3
        <5> QED BY <4>1, <4>3, <5>1, ConcatAdds
      <4> QED BY <4>2, <4>3
    <3>4. g \in [1 .. k + 1 -> Seq(P)]
      <4> HIDE DEF next
      <4> QED BY <3>2, <3>3
    <3>5. ASSUME NEW i \in 1 .. k + 1
          PROVE  g[i] = IF i = 1 THEN seqs[i] ELSE g[i - 1] \o seqs[i]
      <4>1. CASE i = k + 1
        <5>1. g[i] = next
          BY <4>1
        <5>2. i # 1 => i - 1 \in 1 .. k + 1 /\ i - 1 # k + 1 /\ i - 1 = k
          BY <3>2, <4>1
        <5>3. i # 1 => g[i - 1] = f[k]
          BY <5>2
        <5> QED BY <3>2, <4>1, <5>1, <5>3
      <4>2. CASE i # k + 1
        <5>1. i \in 1 .. k
          BY <3>2, <4>2
        <5>2. g[i] = f[i]
          BY <4>2
        <5>3. i # 1 => i - 1 \in 1 .. k + 1 /\ i - 1 # k + 1
          BY <3>2, <5>1
        <5>4. i # 1 => g[i - 1] = f[i - 1]
          BY <5>3
        <5>5. f[i] = IF i = 1 THEN seqs[i] ELSE f[i - 1] \o seqs[i]
          BY <3>1, <5>1
        <5> QED BY <5>2, <5>4, <5>5
      <4> QED BY <4>1, <4>2
    <3>6. Flattens(g, k + 1)
      <4> HIDE DEF g
      <4> QED BY <3>5
    <3> HIDE DEF g
    <3> QED BY <3>2, <3>4, <3>6
  <2>3. \A k \in 0 .. n - 1 : k \in T => k + 1 \in T
    BY <2>2
  <2>4. n \in 0 .. n /\ 1 \in 1 .. n
    BY <1>3
  <2>5. n \in T
    <3> HIDE DEF T
    <3> QED BY <2>1, <2>3, <2>4, InductionUpTo
  <2>6. PICK f \in [1 .. n -> Seq(P)] : Flattens(f, n)
    BY <2>5
  <2>7. f = [i \in 1 .. Len(seqs) |-> IF i = 1 THEN seqs[i]
                                      ELSE f[i - 1] \o seqs[i]]
    <3>1. f = [i \in 1 .. n |-> f[i]]
      OBVIOUS
    <3>2. \A i \in 1 .. n : f[i] = IF i = 1 THEN seqs[i]
                                   ELSE f[i - 1] \o seqs[i]
      BY <2>6
    <3> QED BY <1>1, <3>1, <3>2, Zenon
  <2>8. flatten = [i \in 1 .. Len(seqs) |-> IF i = 1 THEN seqs[i]
                                            ELSE flatten[i - 1] \o seqs[i]]
    BY <2>7, Zenon
  <2>9. FlattenSeq(seqs) = flatten[Len(seqs)]
    <3>1. Len(seqs) # 0
      BY <1>1, <1>3
    <3> QED BY <3>1, Zenon DEF FlattenSeq
  <2> HIDE DEF flatten
  <2>10. \A i \in 1 .. n : flatten[i] = IF i = 1 THEN seqs[i]
                                        ELSE flatten[i - 1] \o seqs[i]
    BY <1>1, <2>8
  <2> DEFINE Good(k) ==
               /\ flatten[k] \in Seq(P)
               /\ ToSet(flatten[k]) = UNION {ToSet(seqs[i]) : i \in 1 .. k}
             U == {k \in 0 .. n : k = 0 \/ Good(k)}
  <2>11. ASSUME NEW k \in 0 .. n - 1, k \in U PROVE k + 1 \in U
    <3>1. k \in Nat /\ k + 1 \in 1 .. n /\ k + 1 \in 0 .. n
      OBVIOUS
    <3>2. seqs[k + 1] \in Seq(P)
      BY <3>1
    <3>3. CASE k = 0
      <4>1. flatten[1] = seqs[1] /\ k + 1 = 1 /\ seqs[1] \in Seq(P)
        BY <2>4, <2>10, <3>3
      <4>2. 1 .. 1 = {1}
        OBVIOUS
      <4>3. UNION {ToSet(seqs[i]) : i \in 1 .. 1} = ToSet(seqs[1])
        BY <4>2
      <4> QED BY <2>4, <3>1, <4>1, <4>3
    <3>4. CASE k # 0
      <4>1. Good(k) /\ (k + 1) - 1 = k /\ k + 1 # 1
        BY <2>11, <3>1, <3>4
      <4>2. flatten[k + 1] = flatten[k] \o seqs[k + 1]
        BY <2>10, <3>1, <4>1
      <4>3. UNION {ToSet(seqs[i]) : i \in 1 .. k + 1}
              = (UNION {ToSet(seqs[i]) : i \in 1 .. k}) \cup ToSet(seqs[k + 1])
        <5>1. 1 .. k + 1 = (1 .. k) \cup {k + 1}
          BY <3>1
        <5> QED BY <5>1
      <4>4. /\ flatten[k] \o seqs[k + 1] \in Seq(P)
            /\ ToSet(flatten[k] \o seqs[k + 1])
                 = ToSet(flatten[k]) \cup ToSet(seqs[k + 1])
        BY <3>2, <4>1, ConcatAdds
      <4>5. Good(k + 1)
        BY <4>1, <4>2, <4>3, <4>4
      <4> QED BY <3>1, <4>5
    <3> QED BY <3>3, <3>4
  <2>12. 0 \in U
    OBVIOUS
  <2>13. \A k \in 0 .. n - 1 : k \in U => k + 1 \in U
    BY <2>11
  <2>14. n \in U
    <3> HIDE DEF U
    <3> QED BY <2>4, <2>12, <2>13, InductionUpTo
  <2> QED BY <1>1, <1>3, <2>9, <2>14
<1> QED BY <1>2, <1>3

(* getUniquePorts returns every port some server listens to, and each of   *)
(* them once.                                                              *)
THEOREM UniquePortsCollects ==
  ASSUME NEW P, NEW n \in Nat, NEW srvs, DOMAIN srvs = 1 .. n,
         \A i \in 1 .. n : srvs[i].settings.ports \in Seq(P)
  PROVE  /\ UniquePorts(srvs) \in Seq(P)
         /\ ToSet(UniquePorts(srvs)) =
              UNION {ToSet(srvs[i].settings.ports) : i \in DOMAIN srvs}
         /\ IsInjective(UniquePorts(srvs))
<1> DEFINE seqs == [i \in DOMAIN srvs |-> srvs[i].settings.ports]
           all  == FlattenSeq(seqs)
<1>1. seqs \in [1 .. n -> Seq(P)]
  OBVIOUS
<1>2. \A i \in 1 .. n : seqs[i] = srvs[i].settings.ports
  OBVIOUS
<1>3. UniquePorts(srvs) = FoldLeft(AddOnePort, <<>>, all)
  BY Zenon DEF UniquePorts
<1> HIDE DEF seqs
<1>4. all \in Seq(P) /\ ToSet(all) = UNION {ToSet(seqs[i]) : i \in 1 .. n}
  BY <1>1, FlattenCollects
<1> HIDE DEF all
<1>5. /\ Len(all) \in Nat /\ all \in [1 .. Len(all) -> P]
      /\ DOMAIN all = 1 .. Len(all)
  BY <1>4, LenProperties
<1> DEFINE ps == FoldLeft(AddOnePort, <<>>, all)
<1>6. /\ ps \in Seq(P) /\ IsInjective(ps)
      /\ ToSet(ps) = {all[i] : i \in 1 .. Len(all)}
  BY <1>5, AddPortsCollects, ZenonT(40)
<1> HIDE DEF ps
<1>7. ToSet(ps) = ToSet(all)
  BY <1>5, <1>6 DEF ToSet
<1>8. UNION {ToSet(seqs[i]) : i \in 1 .. n}
        = UNION {ToSet(srvs[i].settings.ports) : i \in DOMAIN srvs}
  BY <1>2
<1> QED BY <1>3, <1>4, <1>6, <1>7, <1>8 DEF ps


-----------------------------------------------------------------------------
(* The settings: whatever directives were applied, their ports are a       *)
(* sequence of port numbers.                                               *)

SettingsFields == {"ok", "names", "ports", "firstNameApply",
                   "firstListenApply", "pages", "value"}

PortsOK(s) == DOMAIN s = SettingsFields /\ s.ports \in Seq(PortNumbers)

LEMMA RefusedPortsOK ==
  ASSUME NEW s, PortsOK(s)
  PROVE  PortsOK([s EXCEPT !.ok = FALSE])
BY DEF PortsOK, SettingsFields

LEMMA ApplyPortsOK ==
  ASSUME NEW s, PortsOK(s), NEW d
  PROVE  PortsOK(Apply(s, d))
<1>1. CASE ~s.ok
  BY <1>1, Zenon DEF Apply
<1>2. CASE s.ok
  <2>1. PortsOK(ApplyListen(s, d.value))
    <3> DEFINE port  == NumberOf(d.value[1])
               known == IF s.firstListenApply THEN <<>> ELSE s.ports
               more  == Append(known, port)
               t     == [s EXCEPT !.firstListenApply = FALSE, !.ports = more]
    <3>1. known \in Seq(PortNumbers)
      BY <1>2 DEF PortsOK
    <3>2. ApplyListen(s, d.value) =
            IF port \in PortNumbers \ ToSet(known) THEN t
            ELSE [s EXCEPT !.ok = FALSE]
      BY DEF ApplyListen
    <3> HIDE DEF known, port
    <3>3. ASSUME port \in PortNumbers \ ToSet(known)
          PROVE  more \in Seq(PortNumbers)
      <4>1. port \in PortNumbers
        BY <3>3
      <4> QED BY <3>1, <4>1, AppendProperties
    <3> HIDE DEF more
    <3>4. more \in Seq(PortNumbers) => PortsOK(t)
      BY DEF PortsOK, SettingsFields
    <3>5. PortsOK([s EXCEPT !.ok = FALSE])
      BY RefusedPortsOK
    <3> HIDE DEF t, PortsOK
    <3> QED BY <3>2, <3>3, <3>4, <3>5, Zenon
  <2>2. PortsOK(ApplyServerName(s, d.value))
    BY DEF ApplyServerName, PortsOK, SettingsFields
  <2>3. PortsOK(ApplyErrorPage(s, d.value))
    BY <1>2 DEF ApplyErrorPage, PortsOK, SettingsFields
  <2>4. PortsOK(ApplyValue(s, d.name, d.value))
    BY DEF ApplyValue, PortsOK, SettingsFields
  <2> HIDE DEF PortsOK
  <2>5. \/ Apply(s, d) = ApplyListen(s, d.value)
        \/ Apply(s, d) = ApplyServerName(s, d.value)
        \/ Apply(s, d) = ApplyErrorPage(s, d.value)
        \/ Apply(s, d) = s
        \/ Apply(s, d) = ApplyValue(s, d.name, d.value)
    BY <1>2, Zenon DEF Apply
  <2> QED BY <2>1, <2>2, <2>3, <2>4, <2>5
<1> QED BY <1>1, <1>2

LEMMA ApplyOneIsApply ==
  ASSUME NEW s, NEW d
  PROVE  ApplyOne(s, d) = Apply(s, d)
<1>1. {Apply(u, d) : u \in {s}} = {Apply(s, d)}
  OBVIOUS
<1> QED BY <1>1, Zenon DEF ApplyOne

(* The fold over the directives at some positions of the file.             *)
LEMMA AppliedPortsOK ==
  ASSUME NEW s, PortsOK(s), NEW n \in Nat, NEW S, S \subseteq 1 .. n,
         NEW dirs, DOMAIN dirs = S
  PROVE  PortsOK(ApplyAllDirectives(dirs, s))
<1> DEFINE Step(h, t) == IF t = {} THEN s
                         ELSE ApplyOne(h[t \ {Max(t)}], dirs[Max(t)])
           iter == CHOOSE g : g = [t \in SUBSET S |-> Step(g, t)]
           Upto(k) == SUBSET (S \cap (1 .. k))
           T == {k \in 0 .. n : \E h : h = [t \in Upto(k) |-> Step(h, t)]}
<1>0. ASSUME NEW t \in SUBSET S, t # {}
      PROVE  /\ Max(t) \in t /\ Max(t) \in 1 .. n /\ t \ {Max(t)} \in SUBSET S
             /\ \A m \in t : m \in Nat /\ m <= Max(t)
  <2>1. t \subseteq 0 .. n
    OBVIOUS
  <2>2. Max(t) \in t /\ \A m \in t : Max(t) >= m
    BY <1>0, <2>1, MaxIsGreatest
  <2>3. \A m \in t : m \in 1 .. n
    OBVIOUS
  <2> DEFINE top == Max(t)
  <2>4. top \in t /\ \A m \in t : top >= m
    BY <2>2
  <2> HIDE DEF top
  <2>5. top \in 1 .. n /\ t \ {top} \in SUBSET S
    BY <2>3, <2>4
  <2>6. \A m \in t : m \in Nat /\ m <= top
    BY <2>3, <2>4, <2>5
  <2> QED BY <2>4, <2>5, <2>6 DEF top
<1>1. 0 \in T
  <2> DEFINE h == [t \in Upto(0) |-> s]
  <2>1. \A t \in Upto(0) : t = {}
    BY 1 .. 0 = {}
  <2>2. \A t \in Upto(0) : s = Step(h, t)
    BY <2>1
  <2>3. h = [t \in Upto(0) |-> Step(h, t)]
    BY <2>2
  <2>4. 0 \in 0 .. n
    OBVIOUS
  <2> HIDE DEF h
  <2> QED BY <2>3, <2>4
<1>2. ASSUME NEW k \in 0 .. n - 1, k \in T PROVE k + 1 \in T
  <2>1. PICK h : h = [t \in Upto(k) |-> Step(h, t)]
    BY <1>2
  <2> DEFINE g == [t \in Upto(k + 1) |->
                     IF k + 1 \in t
                     THEN ApplyOne(h[t \ {k + 1}], dirs[k + 1]) ELSE h[t]]
  <2>2. k \in Nat /\ k + 1 \in 0 .. n
    OBVIOUS
  <2>3. ASSUME NEW t \in Upto(k + 1) PROVE g[t] = Step(g, t)
    <3>1. CASE k + 1 \in t
      <4>1. Max(t) = k + 1
        <5>1. t \subseteq 0 .. k + 1 /\ k + 1 \in Nat
          BY <2>2
        <5>2. Max(t) \in t /\ Max(t) >= k + 1
          BY <3>1, <5>1, MaxIsGreatest
        <5>3. Max(t) \in 1 .. k + 1
          BY <5>2
        <5> QED BY <2>2, <5>2, <5>3
      <4>2. t \ {k + 1} \in Upto(k + 1) /\ k + 1 \notin t \ {k + 1}
        OBVIOUS
      <4>3. g[t \ {k + 1}] = h[t \ {k + 1}]
        BY <4>2
      <4> QED BY <3>1, <4>1, <4>3
    <3>2. CASE k + 1 \notin t
      <4>1. t \in Upto(k)
        BY <2>2, <3>2
      <4>2. g[t] = h[t] /\ h[t] = Step(h, t)
        BY <2>1, <3>2, <4>1
      <4>3. CASE t = {}
        BY <4>2, <4>3
      <4>4. CASE t # {}
        <5>1. t \ {Max(t)} \in Upto(k + 1) /\ k + 1 \notin t \ {Max(t)}
          BY <3>2
        <5>2. g[t \ {Max(t)}] = h[t \ {Max(t)}]
          BY <5>1
        <5> QED BY <4>2, <4>4, <5>2
      <4> QED BY <4>3, <4>4
    <3> QED BY <3>1, <3>2
  <2>4. g = [t \in Upto(k + 1) |-> g[t]]
    OBVIOUS
  <2> HIDE DEF g
  <2>5. g = [t \in Upto(k + 1) |-> Step(g, t)]
    <3> HIDE DEF Step, Upto
    <3> QED BY <2>3, <2>4
  <2> HIDE DEF Step, Upto
  <2> QED BY <2>2, <2>5
<1>3. n \in T
  <2>1. n \in 0 .. n
    OBVIOUS
  <2> HIDE DEF T
  <2>2. \A k \in 0 .. n - 1 : k \in T => k + 1 \in T
    BY <1>2
  <2> QED BY <1>1, <2>1, <2>2, InductionUpTo
<1>4. iter = [t \in SUBSET S |-> Step(iter, t)]
  <2>1. Upto(n) = SUBSET S
    OBVIOUS
  <2>2. \E h : h = [t \in SUBSET S |-> Step(h, t)]
    BY <1>3, <2>1
  <2> HIDE DEF Step
  <2> QED BY <2>2, Zenon
<1>5. ApplyAllDirectives(dirs, s) = iter[S]
  BY Zenon DEF ApplyAllDirectives, MapThenFoldSet
<1> HIDE DEF iter, T
<1> DEFINE U == {k \in 0 .. n : \A t \in Upto(k) : PortsOK(iter[t])}
<1>6. 0 \in U
  <2>1. \A t \in Upto(0) : t = {}
    BY 1 .. 0 = {}
  <2>2. iter[{}] = s
    BY <1>4
  <2>3. 0 \in 0 .. n
    OBVIOUS
  <2> HIDE DEF PortsOK
  <2> QED BY <2>1, <2>2, <2>3
<1>7. ASSUME NEW k \in 0 .. n - 1, k \in U PROVE k + 1 \in U
  <2>1. ASSUME NEW t \in Upto(k + 1) PROVE PortsOK(iter[t])
    <3>1. CASE t = {}
      BY <1>4, <3>1
    <3>2. CASE t # {}
      <4>1. /\ Max(t) \in t /\ Max(t) \in 1 .. n /\ t \in SUBSET S
            /\ \A m \in t : m \in Nat /\ m <= Max(t)
        BY <1>0, <3>2
      <4>2. t \ {Max(t)} \in Upto(k)
        <5>1. ASSUME NEW m \in t, m # Max(t) PROVE m \in S \cap (1 .. k)
          <6>1. m \in 1 .. k + 1 /\ Max(t) \in 1 .. k + 1 /\ m <= Max(t)
            BY <4>1
          <6> QED BY <5>1, <6>1
        <5> QED BY <5>1
      <4>3. PortsOK(iter[t \ {Max(t)}])
        BY <1>7, <4>2
      <4>4. iter[t] = ApplyOne(iter[t \ {Max(t)}], dirs[Max(t)])
        BY <1>4, <3>2, <4>1
      <4> HIDE DEF PortsOK
      <4> QED BY <4>3, <4>4, ApplyOneIsApply, ApplyPortsOK
    <3> QED BY <3>1, <3>2
  <2>2. k + 1 \in 0 .. n
    OBVIOUS
  <2> QED BY <2>1, <2>2
<1>8. n \in U
  <2>1. n \in 0 .. n
    OBVIOUS
  <2> HIDE DEF U
  <2>2. \A k \in 0 .. n - 1 : k \in U => k + 1 \in U
    BY <1>7
  <2> QED BY <1>6, <2>1, <2>2, InductionUpTo
<1>9. S \in Upto(n)
  OBVIOUS
<1> QED BY <1>5, <1>8, <1>9

LEMMA CheckedPortsOK ==
  ASSUME NEW s, PortsOK(s), NEW n \in Nat, NEW S, S \subseteq 1 .. n, NEW tokens
  PROVE  PortsOK(CheckAndApply(DirectivesAt(tokens, S), s))
<1> DEFINE dirs == DirectivesAt(tokens, S)
<1>1. DOMAIN dirs = S
  BY DEF DirectivesAt
<1> HIDE DEF dirs
<1>2. PortsOK(ApplyAllDirectives(dirs, s)) /\ PortsOK([s EXCEPT !.ok = FALSE])
  BY <1>1, AppliedPortsOK, RefusedPortsOK
<1>3. PortsOK(CheckAndApply(dirs, s))
  BY <1>2, Zenon DEF CheckAndApply
<1> QED BY <1>3 DEF dirs

LEMMA DefaultPortsOK == PortsOK(DefaultSettings)
BY DEF PortsOK, SettingsFields, PortNumbers, DefaultSettings, DefaultPort

LEMMA HttpPortsOK ==
  ASSUME NEW n \in Nat, NEW tokens, DOMAIN tokens = 1 .. n
  PROVE  PortsOK(HttpSettings(tokens))
<1> DEFINE own == {i \in DOMAIN tokens :
                     IsTokenHttpDirective(tokens, tokens[i])}
<1>1. own \subseteq 1 .. n
  OBVIOUS
<1>2. \/ HttpSettings(tokens) =
           CheckAndApply(DirectivesAt(tokens, own), DefaultSettings)
      \/ HttpSettings(tokens) = [DefaultSettings EXCEPT !.ok = FALSE]
  BY Zenon DEF HttpSettings
<1> HIDE DEF own
<1> QED BY <1>1, <1>2, DefaultPortsOK, CheckedPortsOK, RefusedPortsOK

LEMMA NewServerOK ==
  ASSUME NEW n \in Nat, NEW tokens, DOMAIN tokens = 1 .. n,
         NEW id, NEW base, PortsOK(base)
  PROVE  PortsOK(NewVirtualServer(tokens, id, base).settings)
<1> DEFINE inside == {i \in DOMAIN tokens :
                        IsServerToken(tokens, tokens[i], id)}
           dirs   == {i \in inside : tokens[i].type = "DIRECTIVE"}
           own    == ServerLevel(tokens, dirs)
           valid  == \A i \in dirs : IsDirective(tokens, tokens[i])
           server == IF valid
                     THEN CheckAndApply(DirectivesAt(tokens, own), base)
                     ELSE [base EXCEPT !.ok = FALSE]
           locs   == ServerLocations(tokens, inside, server)
<1>1. own \subseteq 1 .. n
  BY DEF ServerLevel
<1>2. PortsOK(server)
  <2> HIDE DEF own, valid, PortsOK
  <2> QED BY <1>1, CheckedPortsOK, RefusedPortsOK
<1>3. NewVirtualServer(tokens, id, base) =
        [id |-> id, settings |-> server,
         locations |-> WithDefaultLocation(locs, server),
         ok |-> /\ server.ok
                /\ \A i \in DOMAIN locs : locs[i].settings.ok
                /\ ~DuplicateLocations(locs)]
  BY Zenon DEF NewVirtualServer
<1> HIDE DEF server, locs
<1> QED BY <1>2, <1>3


-----------------------------------------------------------------------------
(* The reader and the walk: tokens are only appended and only changed in   *)
(* place, so they stay a sequence.                                         *)

ReaderFields == {"tokens", "info", "serverId", "ok"}
WalkFields   == {"tokens", "path", "ok"}

ReaderOK(r) == DOMAIN r = ReaderFields /\ r.tokens \in Seq(ToSet(r.tokens))

WalkOK(w) == /\ DOMAIN w = WalkFields
             /\ \E n \in Nat : DOMAIN w.tokens = 1 .. n

LEMMA AppendKeepsSeq ==
  ASSUME NEW s, s \in Seq(ToSet(s)), NEW e
  PROVE  Append(s, e) \in Seq(ToSet(Append(s, e)))
<1> DEFINE S == ToSet(s) \cup {e}
<1>1. s \in Seq(S) /\ e \in S /\ S = ToSet(s) \cup {e}
  BY SeqMonotonic
<1> HIDE DEF S
<1> QED BY <1>1, AppendAdds

LEMMA CreateOneTokenOK ==
  ASSUME NEW r, ReaderOK(r), NEW type, NEW info
  PROVE  ReaderOK(CreateOneToken(r, type, info))
<1> DEFINE next == CreateOneToken(r, type, info)
<1>1. DOMAIN r = ReaderFields /\ r.tokens \in Seq(ToSet(r.tokens))
  BY DEF ReaderOK
<1>2. DOMAIN next = ReaderFields
  BY <1>1, Zenon DEF CreateOneToken, ReaderFields
<1>3. \E e : next.tokens = Append(r.tokens, e)
  BY <1>1, Zenon DEF CreateOneToken, ReaderFields
<1> HIDE DEF next
<1>4. next.tokens \in Seq(ToSet(next.tokens))
  BY <1>1, <1>3, AppendKeepsSeq
<1>5. ReaderOK(next)
  BY <1>2, <1>4 DEF ReaderOK
<1> QED BY <1>5 DEF next

LEMMA ReadLexemeOK ==
  ASSUME NEW r, ReaderOK(r), NEW l \in Lexemes
  PROVE  ReaderOK(ReadLexeme(r, l))
<1> DEFINE c == CreateContextToken(r)
<1>1. ReaderOK(c)
  BY CreateOneTokenOK, Zenon DEF CreateContextToken
<1>2. ReaderOK([r EXCEPT !.info = Glue(@, l.text)])
  BY DEF ReaderOK, ReaderFields
<1>3. l.delim \in {"", "{", "}", ";"}
  BY DEF Lexemes, Delimiters
<1>4. \/ ReadLexeme(r, l) = [r EXCEPT !.info = Glue(@, l.text)]
      \/ ReadLexeme(r, l) = CreateOneToken(r, "DIRECTIVE", r.info)
      \/ ReadLexeme(r, l) = CreateOneToken(c, "OPENING_BRACE", <<>>)
      \/ ReadLexeme(r, l) = CreateOneToken(c, "CLOSING_BRACE", <<>>)
  BY <1>3, Zenon DEF ReadLexeme
<1> HIDE DEF c
<1> QED BY <1>1, <1>2, <1>4, CreateOneTokenOK

LEMMA WalkTokenOK ==
  ASSUME NEW w, WalkOK(w), NEW i
  PROVE  WalkOK(WalkToken(w, i))
<1> DEFINE v    == [w EXCEPT !.tokens[i].path = w.path]
           next == WalkToken(w, i)
<1>1. DOMAIN w = WalkFields /\ \E n \in Nat : DOMAIN w.tokens = 1 .. n
  BY DEF WalkOK
<1>2. DOMAIN v = WalkFields /\ DOMAIN v.tokens = DOMAIN w.tokens
  BY <1>1, Zenon DEF WalkFields
<1>3. \/ next = [v EXCEPT !.path = Append(@, i),
                          !.ok   = @ /\ w.tokens[i].type = "CONTEXT"]
      \/ next = [v EXCEPT !.ok = FALSE]
      \/ next = [v EXCEPT !.path = Front(@)]
      \/ next = v
  BY Zenon DEF WalkToken
<1> HIDE DEF v, next
<1>4. DOMAIN next = WalkFields /\ next.tokens = v.tokens
  BY <1>2, <1>3, Zenon DEF WalkFields
<1>5. WalkOK(next)
  BY <1>1, <1>2, <1>4 DEF WalkOK
<1> QED BY <1>5 DEF next

-----------------------------------------------------------------------------
(* Sequences in order: InOrder gives the one a set has.                    *)

LEMMA InOrderIs ==
  ASSUME NEW S, S \subseteq Nat, NEW s \in Seq(S), ToSet(s) = S, Increasing(s)
  PROVE  InOrder(S) = s
<1> DEFINE N == Len(s)
           Upto(i) == {j \in S : j <= i}
<1>1. /\ N \in Nat /\ DOMAIN s = 1 .. N /\ s = [n \in 1 .. N |-> s[n]]
      /\ \A n \in 1 .. N : s[n] \in S /\ s[n] \in Nat
  <2>1. N \in Nat /\ DOMAIN s = 1 .. N /\ s \in [1 .. N -> S]
    BY LenProperties
  <2> QED BY <2>1
<1>2. S = {s[i] : i \in 1 .. N}
  BY <1>1 DEF ToSet
<1>3. \A n \in 0 .. N : Cardinality({s[i] : i \in 1 .. n}) = n
  BY <1>1, PrefixCounts
<1>4. Cardinality(S) = N
  <2>1. N \in 0 .. N
    BY <1>1
  <2> QED BY <1>2, <1>3, <2>1
<1>5. ASSUME NEW n \in 1 .. N PROVE Cardinality(Upto(s[n])) = n
  <2>1. Upto(s[n]) = {s[i] : i \in 1 .. n}
    <3>1. ASSUME NEW i \in 1 .. N PROVE s[i] <= s[n] <=> i \in 1 .. n
      <4>1. i < n => s[i] < s[n]
        BY DEF Increasing
      <4>2. n < i => s[n] < s[i]
        BY DEF Increasing
      <4>3. s[i] \in Nat /\ s[n] \in Nat /\ i \in Nat /\ n \in Nat
        BY <1>1
      <4> QED BY <4>1, <4>2, <4>3
    <3>2. ASSUME NEW j \in Upto(s[n]) PROVE j \in {s[i] : i \in 1 .. n}
      <4>1. PICK i \in 1 .. N : j = s[i]
        BY <1>2
      <4>2. i \in 1 .. n
        BY <3>1, <4>1
      <4> QED BY <4>1, <4>2
    <3>3. ASSUME NEW i \in 1 .. n PROVE s[i] \in Upto(s[n])
      <4>1. i \in 1 .. N
        BY <1>1
      <4>2. s[i] <= s[n] /\ s[i] \in S
        BY <1>1, <3>1, <4>1
      <4> QED BY <4>2
    <3> QED BY <3>2, <3>3
  <2>2. n \in 0 .. N
    BY <1>1
  <2> QED BY <1>3, <2>1, <2>2
<1>6. ASSUME NEW n \in 1 .. N
      PROVE  (CHOOSE i \in S : Cardinality(Upto(i)) = n) = s[n]
  <2> DEFINE i == CHOOSE i \in S : Cardinality(Upto(i)) = n
  <2>1. \E j \in S : Cardinality(Upto(j)) = n
    BY <1>1, <1>5
  <2>2. i \in S /\ Cardinality(Upto(i)) = n
    BY <2>1
  <2> HIDE DEF i
  <2>3. PICK m \in 1 .. N : i = s[m]
    BY <1>2, <2>2
  <2>4. m = n
    BY <1>5, <2>2, <2>3
  <2> QED BY <2>3, <2>4 DEF i
<1>7. InOrder(S) = [n \in 1 .. Cardinality(S) |->
                      CHOOSE i \in S : Cardinality(Upto(i)) = n]
  BY DEF InOrder
<1> HIDE DEF Upto, N
<1> QED BY <1>1, <1>4, <1>6, <1>7

-----------------------------------------------------------------------------
(* Braces.                                                                 *)

Delta(type) == IF type = "OPENING_BRACE" THEN 1
               ELSE IF type = "CLOSING_BRACE" THEN -1 ELSE 0

LEMMA OpenedSteps ==
  ASSUME NEW tokens, NEW a \in Nat, NEW b \in Nat, a <= b + 1, NEW type
  PROVE  /\ Opened(tokens, a, b, type) \in Nat
         /\ Opened(tokens, a, b + 1, type) = Opened(tokens, a, b, type)
              + (IF tokens[b + 1].type = type THEN 1 ELSE 0)
<1> DEFINE K(n) == {k \in a .. n : tokens[k].type = type}
<1>1. IsFiniteSet(K(b)) /\ Cardinality(K(b)) \in Nat
  <2>1. IsFiniteSet(a .. b)
    BY FS_Interval
  <2>2. IsFiniteSet(K(b))
    BY <2>1, FS_Subset
  <2> QED BY <2>2, FS_CardinalityType
<1>2. K(b + 1) = IF tokens[b + 1].type = type THEN K(b) \cup {b + 1} ELSE K(b)
  <2>1. a .. b + 1 = (a .. b) \cup {b + 1}
    OBVIOUS
  <2> QED BY <2>1
<1>3. b + 1 \notin K(b)
  OBVIOUS
<1>4. /\ Opened(tokens, a, b, type) = Cardinality(K(b))
      /\ Opened(tokens, a, b + 1, type) = Cardinality(K(b + 1))
  BY DEF Opened
<1> HIDE DEF K
<1> QED BY <1>1, <1>2, <1>3, <1>4, FS_AddElement

LEMMA DepthSteps ==
  ASSUME NEW tokens, NEW a \in Nat, NEW b \in Nat, a <= b + 1
  PROVE  /\ Depth(tokens, a, b) \in Int
         /\ Depth(tokens, a, b + 1)
              = Depth(tokens, a, b) + Delta(tokens[b + 1].type)
BY OpenedSteps DEF Depth, Delta

LEMMA DepthOfNone ==
  ASSUME NEW tokens, NEW a \in Nat, NEW b \in Int, b < a
  PROVE  Depth(tokens, a, b) = 0
<1>1. ASSUME NEW type PROVE Opened(tokens, a, b, type) = 0
  <2>1. {k \in a .. b : tokens[k].type = type} = {}
    OBVIOUS
  <2> QED BY <2>1, FS_EmptySet DEF Opened
<1> QED BY <1>1 DEF Depth

-----------------------------------------------------------------------------
(* The path at token i is the contexts around it.                          *)

IsPath(tokens, i, path) ==
  /\ path \in Seq(Enclosing(tokens, i))
  /\ ToSet(path) = Enclosing(tokens, i)
  /\ Increasing(path)
  /\ \A m \in 1 .. Len(path) : 
       /\ tokens[path[m]].type = "CONTEXT"
       /\ Depth(tokens, path[m] + 1, i) = Len(path) - m + 1
  /\ Depth(tokens, 2, i) = Len(path)

LEMMA FirstPath ==
  ASSUME NEW tokens
  PROVE  IsPath(tokens, 1, <<>>)
<1>1. Enclosing(tokens, 1) = {}
  BY DEF Enclosing
<1>2. <<>> \in Seq({}) /\ Len(<<>>) = 0 /\ ToSet(<<>>) = {} /\ 1 .. 0 = {}
  BY DEF ToSet
<1>3. Depth(tokens, 2, 1) = 0
  BY DepthOfNone
<1> QED BY <1>1, <1>2, <1>3 DEF IsPath, Increasing

LEMMA EnclosingSteps ==
  ASSUME NEW tokens, NEW i \in Nat \ {0}
  PROVE  Enclosing(tokens, i + 1) =
           {j \in Enclosing(tokens, i) : Depth(tokens, j + 1, i + 1) >= 1}
             \cup (IF tokens[i + 1].type = "OPENING_BRACE" THEN {i} ELSE {})
<1> DEFINE Stays == {j \in Enclosing(tokens, i) :
                       Depth(tokens, j + 1, i + 1) >= 1}
           Opens == IF tokens[i + 1].type = "OPENING_BRACE" THEN {i} ELSE {}
<1>1. ASSUME NEW j \in Enclosing(tokens, i + 1) PROVE j \in Stays \cup Opens
  <2>1. /\ j \in 1 .. i /\ tokens[j + 1].type = "OPENING_BRACE"
        /\ \A k \in j + 1 .. i + 1 : Depth(tokens, j + 1, k) >= 1
    BY DEF Enclosing
  <2>2. CASE j = i
    BY <2>1, <2>2
  <2>3. CASE j # i
    <3>1. j \in 1 .. i - 1 /\ i + 1 \in j + 1 .. i + 1
      BY <2>1, <2>3
    <3>2. \A k \in j + 1 .. i : k \in j + 1 .. i + 1
      BY <2>1
    <3>3. j \in Enclosing(tokens, i)
      BY <2>1, <3>1, <3>2 DEF Enclosing
    <3> QED BY <2>1, <3>1, <3>3
  <2> QED BY <2>2, <2>3
<1>2. ASSUME NEW j \in Stays PROVE j \in Enclosing(tokens, i + 1)
  <2>1. /\ j \in 1 .. i - 1 /\ tokens[j + 1].type = "OPENING_BRACE"
        /\ \A k \in j + 1 .. i : Depth(tokens, j + 1, k) >= 1
        /\ Depth(tokens, j + 1, i + 1) >= 1
    BY DEF Enclosing
  <2>2. j \in 1 .. i /\ \A k \in j + 1 .. i + 1 : k \in j + 1 .. i \/ k = i + 1
    BY <2>1
  <2>3. \A k \in j + 1 .. i + 1 : Depth(tokens, j + 1, k) >= 1
    BY <2>1, <2>2
  <2>4. j \in 1 .. (i + 1) - 1
    BY <2>2
  <2> QED BY <2>1, <2>3, <2>4 DEF Enclosing
<1>3. ASSUME tokens[i + 1].type = "OPENING_BRACE"
      PROVE  i \in Enclosing(tokens, i + 1)
  <2>1. Depth(tokens, i + 1, i) = 0
    BY DepthOfNone
  <2>2. Depth(tokens, i + 1, i + 1) = 1
    BY <1>3, <2>1, DepthSteps DEF Delta
  <2>3. \A k \in i + 1 .. i + 1 : k = i + 1
    OBVIOUS
  <2>4. i \in 1 .. (i + 1) - 1
    OBVIOUS
  <2> QED BY <1>3, <2>2, <2>3, <2>4 DEF Enclosing
<1> QED BY <1>1, <1>2, <1>3

LEMMA EnclosingAreBefore ==
  ASSUME NEW tokens, NEW i \in Nat \ {0}
  PROVE  Enclosing(tokens, i) \subseteq 1 .. i - 1
BY DEF Enclosing

LEMMA PathFacts ==
  ASSUME NEW tokens, NEW i \in Nat \ {0}, NEW path, IsPath(tokens, i, path)
  PROVE  /\ Len(path) \in Nat /\ DOMAIN path = 1 .. Len(path)
         /\ Enclosing(tokens, i) = {path[m] : m \in 1 .. Len(path)}
         /\ \A m \in 1 .. Len(path) :
              /\ path[m] \in Enclosing(tokens, i)
              /\ path[m] \in 1 .. i - 1
              /\ Depth(tokens, path[m] + 1, i + 1)
                   = Len(path) - m + 1 + Delta(tokens[i + 1].type)
         /\ Depth(tokens, 2, i + 1) = Len(path) + Delta(tokens[i + 1].type)
<1>1. /\ path \in Seq(Enclosing(tokens, i))
      /\ ToSet(path) = Enclosing(tokens, i)
      /\ \A m \in 1 .. Len(path) :
           Depth(tokens, path[m] + 1, i) = Len(path) - m + 1
      /\ Depth(tokens, 2, i) = Len(path)
  BY DEF IsPath
<1>2. Len(path) \in Nat /\ DOMAIN path = 1 .. Len(path)
  BY <1>1, LenProperties
<1>3. Enclosing(tokens, i) = {path[m] : m \in 1 .. Len(path)}
  BY <1>1, <1>2 DEF ToSet
<1>4. ASSUME NEW m \in 1 .. Len(path)
      PROVE  /\ path[m] \in Enclosing(tokens, i) /\ path[m] \in 1 .. i - 1
             /\ Depth(tokens, path[m] + 1, i + 1)
                  = Len(path) - m + 1 + Delta(tokens[i + 1].type)
  <2>1. path[m] \in Enclosing(tokens, i)
    BY <1>3
  <2>2. path[m] \in 1 .. i - 1
    BY <2>1, EnclosingAreBefore
  <2>3. path[m] + 1 \in Nat /\ path[m] + 1 <= i + 1
    BY <2>2
  <2> QED BY <1>1, <2>1, <2>2, <2>3, DepthSteps
<1>5. Depth(tokens, 2, i + 1) = Len(path) + Delta(tokens[i + 1].type)
  BY <1>1, DepthSteps
<1> QED BY <1>2, <1>3, <1>4, <1>5

LEMMA PathOpens ==
  ASSUME NEW tokens, NEW i \in Nat \ {0}, NEW path, IsPath(tokens, i, path),
         tokens[i + 1].type = "OPENING_BRACE", tokens[i].type = "CONTEXT"
  PROVE  IsPath(tokens, i + 1, Append(path, i))
<1> DEFINE E == Enclosing(tokens, i)
           F == Enclosing(tokens, i + 1)
           L == Len(path)
           q == Append(path, i)
<1>1. Delta(tokens[i + 1].type) = 1
  BY DEF Delta
<1>2. /\ L \in Nat /\ DOMAIN path = 1 .. L /\ E = {path[m] : m \in 1 .. L}
      /\ \A m \in 1 .. L :
           /\ path[m] \in E /\ path[m] \in 1 .. i - 1
           /\ Depth(tokens, path[m] + 1, i + 1) = L - m + 2
      /\ Depth(tokens, 2, i + 1) = L + 1
  <2>1. /\ L \in Nat /\ DOMAIN path = 1 .. L
        /\ E = {path[m] : m \in 1 .. L}
        /\ \A m \in 1 .. L :
             /\ path[m] \in E /\ path[m] \in 1 .. i - 1
             /\ Depth(tokens, path[m] + 1, i + 1)
                  = L - m + 1 + Delta(tokens[i + 1].type)
        /\ Depth(tokens, 2, i + 1) = L + Delta(tokens[i + 1].type)
    <3>1. /\ L \in Nat /\ DOMAIN path = 1 .. L
          /\ E = {path[m] : m \in 1 .. L}
      BY PathFacts
    <3>2. ASSUME NEW m \in 1 .. L
          PROVE  /\ path[m] \in E /\ path[m] \in 1 .. i - 1
                 /\ Depth(tokens, path[m] + 1, i + 1)
                      = L - m + 1 + Delta(tokens[i + 1].type)
      BY PathFacts, SMTT(30)
    <3>3. Depth(tokens, 2, i + 1) = L + Delta(tokens[i + 1].type)
      BY PathFacts
    <3> QED BY <3>1, <3>2, <3>3
  <2> HIDE DEF L, E
  <2>2. \A m \in 1 .. L : L - m + 1 + 1 = L - m + 2
    BY <2>1
  <2> QED BY <1>1, <2>1, <2>2
<1>3. /\ path \in Seq(E) /\ ToSet(path) = E /\ Increasing(path)
      /\ \A m \in 1 .. L : tokens[path[m]].type = "CONTEXT"
  BY DEF IsPath
<1>4. F = E \cup {i}
  <2>1. ASSUME NEW j \in E PROVE Depth(tokens, j + 1, i + 1) >= 1
    <3>1. PICK m \in 1 .. L : j = path[m]
      BY <1>2
    <3> QED BY <1>2, <3>1
  <2>2. F = {j \in E : Depth(tokens, j + 1, i + 1) >= 1} \cup {i}
    BY EnclosingSteps
  <2> HIDE DEF E, F
  <2> QED BY <2>1, <2>2
<1> HIDE DEF E, F
<1>5. path \in Seq(F) /\ i \in F
  BY <1>3, <1>4, SeqMonotonic
<1>6. q \in Seq(F) /\ ToSet(q) = F
  BY <1>3, <1>4, <1>5, AppendAdds
<1>7. /\ Len(q) = L + 1 /\ q[L + 1] = i
      /\ \A m \in 1 .. L : q[m] = path[m]
  BY <1>5, AppendProperties
<1>8. Depth(tokens, i + 1, i + 1) = 1
  BY <1>1, DepthOfNone, DepthSteps
<1> HIDE DEF L, q
<1>9. \A m \in 1 .. L + 1 : m \in 1 .. L \/ m = L + 1
  BY <1>2
<1>10. Increasing(q)
  <2> SUFFICES ASSUME NEW a \in 1 .. L + 1, NEW b \in 1 .. L + 1, a < b
               PROVE  q[a] < q[b]
    BY <1>7 DEF Increasing
  <2>1. a \in 1 .. L
    BY <1>2
  <2>2. CASE b = L + 1
    BY <1>2, <1>7, <2>1, <2>2
  <2>3. CASE b \in 1 .. L
    BY <1>3, <1>7, <2>1, <2>3 DEF Increasing, L
  <2> QED BY <1>9, <2>2, <2>3
<1>11. ASSUME NEW m \in 1 .. Len(q)
       PROVE  /\ tokens[q[m]].type = "CONTEXT"
              /\ Depth(tokens, q[m] + 1, i + 1) = Len(q) - m + 1
  <2>1. CASE m \in 1 .. L
    <3>1. q[m] = path[m] /\ tokens[path[m]].type = "CONTEXT"
      BY <1>3, <1>7, <2>1
    <3>2. Depth(tokens, path[m] + 1, i + 1) = L - m + 2
      BY <1>2, <2>1
    <3>3. L - m + 2 = Len(q) - m + 1
      BY <1>2, <1>7, <2>1
    <3> QED BY <3>1, <3>2, <3>3
  <2>2. CASE m = L + 1
    <3>1. q[m] = i /\ Len(q) - m + 1 = 1
      BY <1>2, <1>7, <2>2
    <3> QED BY <1>8, <3>1
  <2> QED BY <1>7, <1>9, <2>1, <2>2
<1>12. Depth(tokens, 2, i + 1) = Len(q)
  BY <1>2, <1>7
<1> QED BY <1>6, <1>10, <1>11, <1>12 DEF IsPath, q, F

LEMMA PathCloses ==
  ASSUME NEW tokens, NEW i \in Nat \ {0}, NEW path, IsPath(tokens, i, path),
         tokens[i + 1].type = "CLOSING_BRACE", path # <<>>
  PROVE  IsPath(tokens, i + 1, Front(path))
<1> DEFINE E == Enclosing(tokens, i)
           F == Enclosing(tokens, i + 1)
           L == Len(path)
           q == Front(path)
<1>1. Delta(tokens[i + 1].type) = -1
  BY DEF Delta
<1>2. /\ L \in Nat /\ DOMAIN path = 1 .. L /\ E = {path[m] : m \in 1 .. L}
      /\ \A m \in 1 .. L :
           /\ path[m] \in E /\ path[m] \in 1 .. i - 1
           /\ Depth(tokens, path[m] + 1, i + 1) = L - m
      /\ Depth(tokens, 2, i + 1) = L - 1
  <2>1. /\ L \in Nat /\ DOMAIN path = 1 .. L
        /\ E = {path[m] : m \in 1 .. L}
        /\ \A m \in 1 .. L :
             /\ path[m] \in E /\ path[m] \in 1 .. i - 1
             /\ Depth(tokens, path[m] + 1, i + 1) = L - m + 1 + (-1)
        /\ Depth(tokens, 2, i + 1) = L + (-1)
    BY <1>1, PathFacts, SMTT(30)
  <2> HIDE DEF L, E
  <2>2. \A m \in 1 .. L : L - m + 1 + (-1) = L - m
    BY <2>1
  <2> QED BY <2>1, <2>2
<1>3. /\ path \in Seq(E) /\ ToSet(path) = E /\ Increasing(path)
      /\ \A m \in 1 .. L : tokens[path[m]].type = "CONTEXT"
  BY DEF IsPath
<1>4. L >= 1
  BY <1>2, <1>3, EmptySeq
<1>5. F = {path[m] : m \in 1 .. L - 1}
  <2>1. F = {j \in E : Depth(tokens, j + 1, i + 1) >= 1}
    BY EnclosingSteps
  <2>2. ASSUME NEW j \in F PROVE j \in {path[m] : m \in 1 .. L - 1}
    <3>1. PICK m \in 1 .. L : j = path[m]
      BY <1>2, <2>1
    <3>2. L - m >= 1
      BY <1>2, <2>1, <3>1
    <3>3. m \in 1 .. L - 1
      BY <1>2, <3>2
    <3> QED BY <3>1, <3>3
  <2>3. ASSUME NEW m \in 1 .. L - 1 PROVE path[m] \in F
    <3>1. m \in 1 .. L /\ L - m >= 1
      BY <1>2
    <3> QED BY <1>2, <2>1, <3>1
  <2> QED BY <2>2, <2>3
<1> HIDE DEF E, F
<1>6. /\ q \in Seq(E) /\ Len(q) = L - 1
      /\ \A m \in 1 .. L - 1 : q[m] = path[m]
  <2>1. \A m \in 1 .. L - 1 : path[m] \in E /\ 1 + m - 1 = m
    BY <1>2
  <2>2. 1 \in Int /\ L - 1 \in Int /\ L - 1 - 1 + 1 = L - 1
    BY <1>2
  <2>3. L - 1 = IF 1 <= L - 1 THEN L - 1 - 1 + 1 ELSE 0
    BY <1>2, <1>4
  <2>4. q = SubSeq(path, 1, L - 1)
    BY DEF Front
  <2> HIDE DEF q, L
  <2> QED BY <2>1, <2>2, <2>3, <2>4, SubSeqProperties
<1>7. DOMAIN q = 1 .. L - 1
  BY <1>6, LenProperties
<1>8. ToSet(q) = F
  BY <1>5, <1>6, <1>7 DEF ToSet
<1>9. q \in Seq(F)
  <2>1. \A m \in 1 .. L - 1 : q[m] \in F
    BY <1>5, <1>6
  <2>2. q \in [1 .. L - 1 -> F]
    <3>1. q = [m \in 1 .. L - 1 |-> q[m]]
      <4> HIDE DEF q, L
      <4>1. q \in [1 .. L - 1 -> E]
        BY <1>6, LenProperties
      <4> QED BY <4>1
    <3> HIDE DEF q, L
    <3> QED BY <2>1, <3>1
  <2>3. L - 1 \in Nat
    BY <1>2, <1>4
  <2> HIDE DEF q, L
  <2> QED BY <2>2, <2>3, SeqDef
<1> HIDE DEF L, q
<1>10. \A m \in 1 .. L - 1 : m \in 1 .. L
  BY <1>2
<1>11. Increasing(q)
  BY <1>3, <1>6, <1>10 DEF Increasing, L
<1>12. ASSUME NEW m \in 1 .. Len(q)
       PROVE  /\ tokens[q[m]].type = "CONTEXT"
              /\ Depth(tokens, q[m] + 1, i + 1) = Len(q) - m + 1
  <2>1. m \in 1 .. L - 1 /\ m \in 1 .. L
    BY <1>6, <1>10
  <2>2. q[m] = path[m] /\ tokens[path[m]].type = "CONTEXT"
    BY <1>3, <1>6, <2>1
  <2>3. Depth(tokens, path[m] + 1, i + 1) = L - m
    BY <1>2, <2>1
  <2>4. L - m = Len(q) - m + 1
    BY <1>2, <1>6, <2>1
  <2> QED BY <2>2, <2>3, <2>4
<1>13. Depth(tokens, 2, i + 1) = Len(q)
  BY <1>2, <1>6
<1>14. IsPath(tokens, i + 1, q)
  BY <1>8, <1>9, <1>11, <1>12, <1>13 DEF IsPath, F
<1> QED BY <1>14 DEF q

LEMMA PathGoesOn ==
  ASSUME NEW tokens, NEW i \in Nat \ {0}, NEW path, IsPath(tokens, i, path),
         tokens[i + 1].type \notin {"OPENING_BRACE", "CLOSING_BRACE"}
  PROVE  IsPath(tokens, i + 1, path)
<1> DEFINE E == Enclosing(tokens, i)
           L == Len(path)
<1>1. Delta(tokens[i + 1].type) = 0
  BY DEF Delta
<1>2. /\ L \in Nat /\ E = {path[m] : m \in 1 .. L}
      /\ \A m \in 1 .. L : Depth(tokens, path[m] + 1, i + 1) = L - m + 1
      /\ Depth(tokens, 2, i + 1) = L
  BY <1>1, PathFacts
<1>3. Enclosing(tokens, i + 1) = E
  <2>1. ASSUME NEW j \in E PROVE Depth(tokens, j + 1, i + 1) >= 1
    <3>1. PICK m \in 1 .. L : j = path[m]
      BY <1>2
    <3> QED BY <1>2, <3>1
  <2> QED BY <2>1, EnclosingSteps
<1> QED BY <1>2, <1>3 DEF IsPath

(* What a path is depends on the types of the tokens only.                 *)
LEMMA SamePaths ==
  ASSUME NEW n \in Nat, NEW s, NEW t,
         \A k \in 1 .. n : s[k].type = t[k].type,
         NEW i \in 1 .. n, NEW path, IsPath(s, i, path)
  PROVE  IsPath(t, i, path)
<1>1. ASSUME NEW a \in Nat \ {0}, NEW b \in Int, b <= n
      PROVE  Depth(s, a, b) = Depth(t, a, b)
  <2>1. \A k \in a .. b : k \in 1 .. n
    BY <1>1
  <2>2. ASSUME NEW type PROVE Opened(s, a, b, type) = Opened(t, a, b, type)
    <3>1. {k \in a .. b : s[k].type = type} = {k \in a .. b : t[k].type = type}
      BY <2>1
    <3> QED BY <3>1 DEF Opened
  <2> QED BY <2>2 DEF Depth
<1>2. ASSUME NEW j \in 1 .. i - 1
      PROVE  /\ s[j + 1].type = t[j + 1].type /\ s[j].type = t[j].type
             /\ \A k \in j + 1 .. i : Depth(s, j + 1, k) = Depth(t, j + 1, k)
  <2>1. j \in 1 .. n /\ j + 1 \in 1 .. n /\ j + 1 \in Nat \ {0}
    OBVIOUS
  <2>2. \A k \in j + 1 .. i : k \in Int /\ k <= n
    OBVIOUS
  <2> QED BY <1>1, <2>1, <2>2
<1>3. Enclosing(s, i) = Enclosing(t, i)
  BY <1>2 DEF Enclosing
<1>4. /\ path \in Seq(Enclosing(s, i)) /\ ToSet(path) = Enclosing(s, i)
      /\ Increasing(path) /\ Depth(s, 2, i) = Len(path)
      /\ \A m \in 1 .. Len(path) :
           /\ s[path[m]].type = "CONTEXT"
           /\ Depth(s, path[m] + 1, i) = Len(path) - m + 1
  BY DEF IsPath
<1>5. ASSUME NEW m \in 1 .. Len(path)
      PROVE  /\ t[path[m]].type = "CONTEXT"
             /\ Depth(t, path[m] + 1, i) = Len(path) - m + 1
  <2>1. path[m] \in 1 .. i - 1
    BY <1>4, ElementOfSeq, EnclosingAreBefore
  <2>2. path[m] + 1 \in Nat \ {0} /\ i \in Int /\ i <= n
    BY <2>1
  <2> QED BY <1>1, <1>2, <1>4, <2>1, <2>2
<1>6. Depth(t, 2, i) = Len(path)
  BY <1>1, <1>4
<1> QED BY <1>3, <1>4, <1>5, <1>6 DEF IsPath

(* The reader makes tokens without a path.                                 *)
TokenFields == {"type", "info", "serverId", "path", "context"}

FreshTokens(tokens) ==
  \A t \in ToSet(tokens) : DOMAIN t = TokenFields /\ t.path = <<>>

LEMMA CreateOneTokenFresh ==
  ASSUME NEW r, ReaderOK(r), FreshTokens(r.tokens), NEW type, NEW info
  PROVE  FreshTokens(CreateOneToken(r, type, info).tokens)
<1>1. \E id : CreateOneToken(r, type, info).tokens
                = Append(r.tokens, NewToken(type, info, id))
  BY Zenon DEF CreateOneToken, ReaderOK, ReaderFields
<1>2. PICK id : CreateOneToken(r, type, info).tokens
                  = Append(r.tokens, NewToken(type, info, id))
  BY <1>1
<1> DEFINE t == NewToken(type, info, id)
           S == ToSet(r.tokens) \cup {t}
<1>3. DOMAIN t = TokenFields /\ t.path = <<>>
  BY DEF NewToken, TokenFields
<1> HIDE DEF t
<1>4. r.tokens \in Seq(S) /\ t \in S
  BY SeqMonotonic DEF ReaderOK
<1>5. ToSet(Append(r.tokens, t)) = S
  BY <1>4, AppendAdds
<1> QED BY <1>2, <1>3, <1>5 DEF FreshTokens, t

LEMMA ReadLexemeFresh ==
  ASSUME NEW r, ReaderOK(r), FreshTokens(r.tokens), NEW l \in Lexemes
  PROVE  FreshTokens(ReadLexeme(r, l).tokens)
<1> DEFINE c == CreateContextToken(r)
           g == [r EXCEPT !.info = Glue(@, l.text)]
<1>1. c = r \/ c = CreateOneToken(r, "CONTEXT", r.info)
  BY Zenon DEF CreateContextToken
<1>2. g.tokens = r.tokens
  BY DEF ReaderOK, ReaderFields
<1>3. l.delim \in {"", "{", "}", ";"}
  BY DEF Lexemes, Delimiters
<1>4. \/ ReadLexeme(r, l) = g
      \/ ReadLexeme(r, l) = CreateOneToken(r, "DIRECTIVE", r.info)
      \/ ReadLexeme(r, l) = CreateOneToken(c, "OPENING_BRACE", <<>>)
      \/ ReadLexeme(r, l) = CreateOneToken(c, "CLOSING_BRACE", <<>>)
  BY <1>3, Zenon DEF ReadLexeme
<1> HIDE DEF c, g
<1>5. ReaderOK(c) /\ FreshTokens(c.tokens)
  BY <1>1, CreateOneTokenOK, CreateOneTokenFresh
<1> QED BY <1>2, <1>4, <1>5, CreateOneTokenFresh

-----------------------------------------------------------------------------
(* The walk: the tokens in front of p have their paths, those from p on    *)
(* none, and the path so far is that of token p.                           *)

Walking(w, p) ==
  LET n == Len(w.tokens) IN
    /\ w.tokens \in Seq(ToSet(w.tokens))
    /\ p \in 1 .. n
    /\ w.ok = TRUE
    /\ \A i \in 1 .. n : DOMAIN w.tokens[i] = TokenFields
    /\ \A i \in 1 .. p - 1 : IsPath(w.tokens, i, w.tokens[i].path)
    /\ \A i \in p .. n : w.tokens[i].path = <<>>
    /\ IsPath(w.tokens, p, w.path)

LEMMA WalkBegins ==
  ASSUME NEW tokens, tokens \in Seq(ToSet(tokens)), FreshTokens(tokens),
         Len(tokens) >= 3
  PROVE  Walking(EmptyWalk(tokens), 1)
<1> DEFINE w == EmptyWalk(tokens)
           n == Len(tokens)
<1>1. w.tokens = tokens /\ w.path = <<>> /\ w.ok = TRUE
  BY DEF EmptyWalk
<1>2. n \in Nat /\ DOMAIN tokens = 1 .. n
  BY LenProperties
<1>3. \A i \in 1 .. n : DOMAIN tokens[i] = TokenFields /\ tokens[i].path = <<>>
  BY <1>2 DEF FreshTokens, ToSet
<1>4. 1 \in 1 .. n /\ 1 .. 1 - 1 = {}
  BY <1>2
<1>5. IsPath(tokens, 1, <<>>)
  BY FirstPath
<1>6. /\ \A i \in 1 .. n : DOMAIN w.tokens[i] = TokenFields
      /\ \A i \in 1 .. 1 - 1 : IsPath(w.tokens, i, w.tokens[i].path)
      /\ \A i \in 1 .. n : w.tokens[i].path = <<>>
      /\ IsPath(w.tokens, 1, w.path)
  BY <1>1, <1>3, <1>4, <1>5
<1> HIDE DEF w
<1>7. Walking(w, 1)
  BY <1>1, <1>4, <1>6 DEF Walking
<1> QED BY <1>7 DEF w

(* One token: it gets the path so far, and the path becomes the next's.    *)
LEMMA WalkGoesOn ==
  ASSUME NEW w, DOMAIN w = WalkFields, NEW i, Walking(w, i),
         i < Len(w.tokens), WalkToken(w, i).ok = TRUE
  PROVE  Walking(WalkToken(w, i), i + 1)
<1> DEFINE n    == Len(w.tokens)
           t    == w.tokens
           u    == [t EXCEPT ![i].path = w.path]
           next == WalkToken(w, i)
<1>1. /\ t \in Seq(ToSet(t)) /\ i \in 1 .. n /\ w.ok = TRUE
      /\ \A k \in 1 .. n : DOMAIN t[k] = TokenFields
      /\ \A k \in 1 .. i - 1 : IsPath(t, k, t[k].path)
      /\ \A k \in i .. n : t[k].path = <<>>
      /\ IsPath(t, i, w.path)
  BY DEF Walking
<1>2. n \in Nat /\ DOMAIN t = 1 .. n
  BY <1>1, LenProperties
<1>3. /\ DOMAIN u = 1 .. n
      /\ u[i].path = w.path
      /\ DOMAIN u[i] = TokenFields /\ u[i].type = t[i].type
      /\ \A k \in 1 .. n : k # i => u[k] = t[k]
  BY <1>1, <1>2 DEF TokenFields
<1>4. u \in Seq(ToSet(u)) /\ Len(u) = n
  <2>1. u \in [1 .. n -> ToSet(u)]
    <3>1. u = [k \in 1 .. n |-> u[k]]
      BY <1>2
    <3>2. \A k \in 1 .. n : u[k] \in ToSet(u)
      BY <1>3 DEF ToSet
    <3> HIDE DEF u
    <3> QED BY <3>1, <3>2
  <2> HIDE DEF u, n
  <2>2. u \in Seq(ToSet(u))
    BY <1>2, <2>1, SeqDef
  <2> QED BY <1>2, <1>3, <2>2, LenProperties
<1> DEFINE v == [w EXCEPT !.tokens[i].path = w.path]
<1>5. DOMAIN v = WalkFields /\ v.tokens = u /\ v.path = w.path /\ v.ok = w.ok
  BY Zenon DEF WalkFields
<1>6. /\ t[i + 1].type = "OPENING_BRACE" =>
           next = [v EXCEPT !.path = Append(@, i),
                            !.ok   = @ /\ t[i].type = "CONTEXT"]
      /\ t[i + 1].type = "CLOSING_BRACE" =>
           next = IF w.path = <<>> THEN [v EXCEPT !.ok = FALSE]
                  ELSE [v EXCEPT !.path = Front(@)]
      /\ t[i + 1].type \notin {"OPENING_BRACE", "CLOSING_BRACE"} => next = v
  BY Zenon DEF WalkToken
<1> HIDE DEF u, v, next, t, n
<1>7. /\ next.tokens = u
      /\ t[i + 1].type = "OPENING_BRACE" =>
           t[i].type = "CONTEXT" /\ next.path = Append(w.path, i)
      /\ t[i + 1].type = "CLOSING_BRACE" =>
           w.path # <<>> /\ next.path = Front(w.path)
      /\ t[i + 1].type \notin {"OPENING_BRACE", "CLOSING_BRACE"} =>
           next.path = w.path
  <2>1. next.ok = TRUE
    BY DEF next
  <2> QED BY <1>5, <1>6, <2>1, Zenon DEF WalkFields
<1>8. IsPath(t, i + 1, next.path)
  <2>1. i \in Nat \ {0}
    BY <1>1, <1>2
  <2>2. \/ t[i + 1].type = "OPENING_BRACE"
        \/ t[i + 1].type = "CLOSING_BRACE"
        \/ t[i + 1].type \notin {"OPENING_BRACE", "CLOSING_BRACE"}
    OBVIOUS
  <2> QED BY <1>1, <1>7, <2>1, <2>2, PathOpens, PathCloses, PathGoesOn
<1>9. \A k \in 1 .. n : t[k].type = u[k].type
  BY <1>3
<1>10. ASSUME NEW k \in 1 .. n, NEW path, IsPath(t, k, path)
       PROVE  IsPath(u, k, path)
  BY <1>2, <1>9, <1>10, SamePaths
<1>11. /\ i + 1 \in 1 .. n /\ (i + 1) - 1 = i
       /\ \A k \in 1 .. i : k \in 1 .. n /\ (k = i \/ k \in 1 .. i - 1)
       /\ \A k \in i + 1 .. n : k \in i .. n /\ k \in 1 .. n /\ k # i
  BY <1>1, <1>2 DEF n, t
<1>12. \A k \in 1 .. i : IsPath(u, k, u[k].path)
  BY <1>1, <1>3, <1>10, <1>11
<1>13. \A k \in i + 1 .. n : u[k].path = <<>>
  BY <1>1, <1>3, <1>11
<1>14. \A k \in 1 .. n : DOMAIN u[k] = TokenFields
  BY <1>1, <1>3
<1>15. next.ok = TRUE
  BY DEF next
<1>16. IsPath(u, i + 1, next.path)
  BY <1>8, <1>10, <1>11
<1>17. Walking(next, i + 1)
  BY <1>4, <1>7, <1>11, <1>12, <1>13, <1>14, <1>15, <1>16 DEF Walking
<1> QED BY <1>17 DEF next

(* All tokens walked over and every brace closed.                          *)
LEMMA WalkEnds ==
  ASSUME NEW w, NEW p, Walking(w, p), p >= Len(w.tokens), WalkEndsWell(w)
  PROVE  LET tokens == w.tokens IN
           /\ \A i \in DOMAIN tokens :
                /\ tokens[i].path = InOrder(Enclosing(tokens, i))
                /\ \A j \in Enclosing(tokens, i) : tokens[j].type = "CONTEXT"
           /\ Depth(tokens, 2, Len(tokens)) = 0
           /\ \A i \in DOMAIN tokens \ {1} : Depth(tokens, 2, i) >= 0
<1> DEFINE t == w.tokens
           n == Len(t)
<1>1. /\ t \in Seq(ToSet(t)) /\ p \in 1 .. n
      /\ \A i \in 1 .. p - 1 : IsPath(t, i, t[i].path)
      /\ t[p].path = <<>>
      /\ IsPath(t, p, <<>>)
  BY DEF Walking, WalkEndsWell
<1>2. n \in Nat /\ DOMAIN t = 1 .. n /\ p = n
  BY <1>1, LenProperties
<1> HIDE DEF t, n
<1>3. ASSUME NEW i \in 1 .. n PROVE IsPath(t, i, t[i].path)
  BY <1>1, <1>2
<1>4. ASSUME NEW i \in 1 .. n
      PROVE  /\ t[i].path = InOrder(Enclosing(t, i))
             /\ \A j \in Enclosing(t, i) : t[j].type = "CONTEXT"
             /\ Depth(t, 2, i) >= 0
  <2> DEFINE path == t[i].path
             E == Enclosing(t, i)
  <2>1. /\ path \in Seq(E) /\ ToSet(path) = E /\ Increasing(path)
        /\ \A m \in 1 .. Len(path) : t[path[m]].type = "CONTEXT"
        /\ Depth(t, 2, i) = Len(path)
    BY <1>3 DEF IsPath
  <2>2. E \subseteq Nat
    BY <1>2, EnclosingAreBefore
  <2> HIDE DEF path, E
  <2>3. InOrder(E) = path
    BY <2>1, <2>2, InOrderIs
  <2>4. DOMAIN path = 1 .. Len(path) /\ Len(path) \in Nat
    BY <2>1, LenProperties
  <2>5. \A j \in E : \E m \in 1 .. Len(path) : j = path[m]
    BY <2>1, <2>4 DEF ToSet
  <2> QED BY <2>1, <2>3, <2>4, <2>5 DEF path, E
<1>5. Depth(t, 2, n) = 0
  <2>1. Len(<<>>) = 0
    OBVIOUS
  <2> QED BY <1>1, <1>2, <2>1 DEF IsPath
<1>6. /\ \A i \in DOMAIN t :
           /\ t[i].path = InOrder(Enclosing(t, i))
           /\ \A j \in Enclosing(t, i) : t[j].type = "CONTEXT"
      /\ Depth(t, 2, Len(t)) = 0
      /\ \A i \in DOMAIN t \ {1} : Depth(t, 2, i) >= 0
  BY <1>2, <1>4, <1>5 DEF n
<1> QED BY <1>6 DEF t

-----------------------------------------------------------------------------
(* What the variables hold.                                                *)

ServersTyped ==
  /\ servers \in Seq(ToSet(servers))
  /\ \A v \in ToSet(servers) : PortsOK(v.settings)

TInv ==
  /\ phase \in Phases
  /\ file \in Files
  /\ pos \in Nat \ {0}
  /\ ReaderOK(reader)
  /\ WalkOK(walk)
  /\ PortsOK(http)
  /\ ServersTyped
  /\ epoll \in {"none", "open", "closed"}

LEMMA InitTyped == Init => TInv
<1> SUFFICES ASSUME Init PROVE TInv
  OBVIOUS
<1>1. /\ reader = EmptyReader /\ walk = EmptyWalk(<<>>) /\ servers = <<>>
      /\ http = DefaultSettings /\ phase = "file" /\ pos = 1 /\ file \in Files
      /\ epoll \in {"none", "open", "closed"}
  BY DEF Init
<1>2. ReaderOK(reader)
  BY <1>1 DEF ReaderOK, ReaderFields, EmptyReader
<1>3. WalkOK(walk)
  <2>1. DOMAIN <<>> = 1 .. 0
    OBVIOUS
  <2> QED BY <1>1, <2>1 DEF WalkOK, WalkFields, EmptyWalk
<1>4. ServersTyped
  BY <1>1 DEF ServersTyped, ToSet
<1> QED BY <1>1, <1>2, <1>3, <1>4, DefaultPortsOK DEF TInv, Phases

(* A step that only goes on in what was built before.                      *)
LEMMA GoesOnTyped ==
  ASSUME TInv, UNCHANGED <<file, reader, walk, http, servers>>,
         phase' \in Phases, pos' \in Nat \ {0},
         epoll' \in {"none", "open", "closed"}
  PROVE  TInv'
BY DEF TInv, ServersTyped, ReaderOK, WalkOK, PortsOK, ToSet

LEMMA StepTyped == TInv /\ [Next]_vars => TInv'
<1> SUFFICES ASSUME TInv, [Next]_vars PROVE TInv'
  OBVIOUS
<1> DEFINE Eps == {"none", "open", "closed"}
<1>0. /\ phase \in Phases /\ pos \in Nat \ {0} /\ epoll \in Eps
      /\ pos + 1 \in Nat \ {0}
  BY DEF TInv
<1>1. CASE UNCHANGED vars
  BY <1>0, <1>1, GoesOnTyped DEF vars
<1>2. CASE CheckFileAccessType
  BY <1>0, <1>2, GoesOnTyped
     DEF CheckFileAccessType, configVars, socketVars, Phases
<1>3. CASE FillTokensVector
  <2>1. /\ phase = "read" /\ pos <= Len(file) /\ pos' = pos + 1
        /\ reader' = ReadLexeme(reader, file[pos])
        /\ phase' \in {"read", "thrown"}
        /\ UNCHANGED <<file, walk, http, servers, epoll>>
    BY <1>3 DEF FillTokensVector, socketVars
  <2>2. file[pos] \in Lexemes
    <3>1. file \in Seq(Lexemes)
      BY FilesAssumption DEF TInv
    <3>2. pos \in 1 .. Len(file)
      BY <1>0, <2>1, <3>1, LenProperties
    <3> QED BY <3>1, <3>2, ElementOfSeq
  <2>3. ReaderOK(reader')
    BY <2>1, <2>2, ReadLexemeOK DEF TInv
  <2> QED BY <1>0, <2>1, <2>3 DEF TInv, ServersTyped, WalkOK, PortsOK, ToSet,
                                  Phases
<1>4. CASE EndOfFile
  <2>1. /\ pos' \in {pos, 1} /\ phase' \in {"thrown", "walk"}
        /\ walk' = walk \/ walk' = EmptyWalk(reader.tokens)
        /\ UNCHANGED <<file, reader, http, servers, epoll>>
    BY <1>4 DEF EndOfFile, socketVars
  <2>2. WalkOK(EmptyWalk(reader.tokens))
    <3>1. reader.tokens \in Seq(ToSet(reader.tokens))
      BY DEF TInv, ReaderOK
    <3>2. /\ DOMAIN reader.tokens = 1 .. Len(reader.tokens)
          /\ Len(reader.tokens) \in Nat
      BY <3>1, LenProperties
    <3> QED BY <3>2 DEF WalkOK, WalkFields, EmptyWalk
  <2>3. WalkOK(walk')
    BY <2>1, <2>2 DEF TInv
  <2> QED BY <1>0, <2>1, <2>3 DEF TInv, ServersTyped, ReaderOK, PortsOK, ToSet,
                                  Phases
<1>5. CASE FillAllTokensPaths
  <2>1. /\ walk' = WalkToken(walk, pos) /\ phase' \in {"walk", "thrown"}
        /\ pos' = pos + 1 /\ UNCHANGED <<file, reader, http, servers, epoll>>
    BY <1>5 DEF FillAllTokensPaths, socketVars
  <2>2. WalkOK(walk')
    BY <2>1, WalkTokenOK DEF TInv
  <2> QED BY <1>0, <2>1, <2>2 DEF TInv, ServersTyped, ReaderOK, PortsOK, ToSet,
                                  Phases
<1>6. CASE EndOfWalk
  BY <1>0, <1>6, GoesOnTyped DEF EndOfWalk, configVars, socketVars, Phases
<1>7. CASE SetHttpDirectives
  <2>1. /\ http' = HttpSettings(walk.tokens)
        /\ phase' \in {"servers", "thrown"}
        /\ UNCHANGED <<pos, file, reader, walk, servers, epoll>>
    BY <1>7 DEF SetHttpDirectives, socketVars
  <2>2. PortsOK(http')
    <3>1. \E n \in Nat : DOMAIN walk.tokens = 1 .. n
      BY DEF TInv, WalkOK
    <3> QED BY <2>1, <3>1, HttpPortsOK
  <2> QED BY <1>0, <2>1, <2>2 DEF TInv, ServersTyped, ReaderOK, WalkOK, ToSet,
                                  Phases
<1>8. CASE MakeVirtualServer
  <2> DEFINE s == NewVirtualServer(walk.tokens, Len(servers) + 1, http)
  <2>1. /\ servers' = Append(servers, s)
        /\ phase' \in {"servers", "thrown"}
        /\ UNCHANGED <<pos, file, reader, walk, http, epoll>>
    BY <1>8 DEF MakeVirtualServer, socketVars
  <2>2. PortsOK(s.settings)
    <3>1. \E n \in Nat : DOMAIN walk.tokens = 1 .. n
      BY DEF TInv, WalkOK
    <3>2. PortsOK(http)
      BY DEF TInv
    <3> HIDE DEF PortsOK
    <3> QED BY <3>1, <3>2, NewServerOK
  <2> HIDE DEF s
  <2>3. ServersTyped'
    <3> DEFINE S == ToSet(servers) \cup {s}
    <3>1. servers \in Seq(S) /\ s \in S /\ S = ToSet(servers) \cup {s}
      BY SeqMonotonic DEF TInv, ServersTyped
    <3>2. \A v \in S : PortsOK(v.settings)
      BY <2>2 DEF TInv, ServersTyped
    <3> HIDE DEF S, PortsOK
    <3>3. servers' \in Seq(S) /\ ToSet(servers') = S
      BY <2>1, <3>1, AppendAdds
    <3> QED BY <3>2, <3>3 DEF ServersTyped
  <2> QED BY <1>0, <2>1, <2>3 DEF TInv, ReaderOK, WalkOK, PortsOK, ToSet,
                                  Phases
<1>9. CASE GetUniquePorts
  BY <1>0, <1>9, GoesOnTyped DEF GetUniquePorts, socketVars, Phases
<1>10. CASE OpenSocket
  <2>1. /\ phase' \in {"sockets", "thrown"} /\ pos' = pos + 1
        /\ UNCHANGED <<file, reader, walk, http, servers, epoll>>
    BY <1>10 DEF OpenSocket, configVars
  <2> QED BY <1>0, <2>1, GoesOnTyped DEF Phases
<1>11. CASE NewConnectionManager
  BY <1>0, <1>11, GoesOnTyped
     DEF NewConnectionManager, configVars, socketVars, Phases
<1>12. CASE AddServerSocketToEpoll
  <2>1. /\ phase' \in {phase, "thrown"} /\ pos' = pos + 1
        /\ UNCHANGED <<file, reader, walk, http, servers, epoll>>
    BY <1>12 DEF AddServerSocketToEpoll, configVars
  <2> QED BY <1>0, <2>1, GoesOnTyped DEF Phases
<1>13. CASE EnterMainLoop
  BY <1>0, <1>13, GoesOnTyped DEF EnterMainLoop, configVars, socketVars, Phases
<1>14. CASE LeaveMainLoop
  BY <1>0, <1>14, GoesOnTyped DEF LeaveMainLoop, configVars, socketVars, Phases
<1>15. CASE LeaveMain
  <2>1. /\ phase' = "exit" /\ epoll' \in {epoll, "closed"}
        /\ UNCHANGED <<pos, file, reader, walk, http, servers>>
    BY <1>15 DEF LeaveMain, configVars
  <2> QED BY <1>0, <2>1, GoesOnTyped DEF Phases
<1> QED
  BY <1>1, <1>2, <1>3, <1>4, <1>5, <1>6, <1>7, <1>8, <1>9, <1>10, <1>11,
     <1>12, <1>13, <1>14, <1>15 DEF Next, StartNext

LEMMA Typed == Spec => []TInv
BY InitTyped, StepTyped, PTL DEF Spec

-----------------------------------------------------------------------------
(* The descriptors.                                                        *)

(* An open socket is one that Socket keeps for main to close; only such a  *)
(* socket is registered; and nothing is closed before the end.             *)
Kept ==
  /\ sockets \in Seq(fds)
  /\ fds = ToSet(sockets)
  /\ registered \subseteq fds
  /\ epoll \in {"none", "open"}

(* The sockets in front of pos are registered: all of them at the end.     *)
Watched ==
  /\ phase \in {"epoll", "running"} => epoll = "open"
  /\ phase = "epoll" =>
       /\ pos \in Nat \ {0}
       /\ \A i \in DOMAIN sockets : i < pos => sockets[i] \in registered
  /\ phase = "running" => registered = fds

KInv == (phase # "exit" /\ Kept /\ Watched) \/ (phase = "exit" /\ ExitsClean)

LEMMA InitKept == Init => KInv
<1> SUFFICES ASSUME Init PROVE KInv
  OBVIOUS
<1>1. sockets = <<>> /\ fds = {} /\ registered = {} /\ phase = "file"
  BY DEF Init
<1>2. epoll \in {"none", "open"}
  BY DEF Init
<1>3. sockets \in Seq(fds) /\ ToSet(sockets) = {}
  BY <1>1, EmptySeq DEF ToSet
<1> QED BY <1>1, <1>2, <1>3 DEF KInv, Kept, Watched

(* The steps before the first socket touch none of all this.               *)
LEMMA ReadingKeeps ==
  ASSUME KInv, UNCHANGED socketVars,
         phase # "exit", phase' \notin {"exit", "epoll", "running"}
  PROVE  KInv'
BY DEF KInv, Kept, Watched, socketVars, ToSet

LEMMA StepKeeps == KInv /\ [Next]_vars => KInv'
<1> SUFFICES ASSUME KInv, [Next]_vars PROVE KInv'
  OBVIOUS
<1>1. CASE UNCHANGED vars
  BY <1>1 DEF KInv, Kept, Watched, ExitsClean, vars, ToSet
<1>2. CASE CheckFileAccessType
  BY <1>2, ReadingKeeps DEF CheckFileAccessType
<1>3. CASE FillTokensVector
  BY <1>3, ReadingKeeps DEF FillTokensVector
<1>4. CASE EndOfFile
  BY <1>4, ReadingKeeps DEF EndOfFile
<1>5. CASE FillAllTokensPaths
  BY <1>5, ReadingKeeps DEF FillAllTokensPaths
<1>6. CASE EndOfWalk
  BY <1>6, ReadingKeeps DEF EndOfWalk
<1>7. CASE SetHttpDirectives
  BY <1>7, ReadingKeeps DEF SetHttpDirectives
<1>8. CASE MakeVirtualServer
  BY <1>8, ReadingKeeps DEF MakeVirtualServer
<1>9. CASE GetUniquePorts
  BY <1>9, ReadingKeeps DEF GetUniquePorts
<1>10. CASE OpenSocket
  <2>1. PICK failed \in {"none"} \cup (Failures \cap SocketCalls) :
          /\ fds' = FdsAfter(failed, ports[pos])
          /\ sockets' = IF failed = "none" THEN Append(sockets, ports[pos])
                        ELSE sockets
          /\ phase' = IF failed = "none" THEN "sockets" ELSE "thrown"
    BY <1>10 DEF OpenSocket
  <2>2. phase = "sockets" /\ UNCHANGED <<epoll, registered>>
    BY <1>10 DEF OpenSocket
  <2>3. Kept
    BY <2>2 DEF KInv
  <2>4. CASE failed = "none"
    <3>1. fds' = fds \cup {ports[pos]} /\ sockets' = Append(sockets, ports[pos])
      BY <2>1, <2>4 DEF FdsAfter
    <3>2. sockets' \in Seq(fds') /\ fds' = ToSet(sockets')
      <4>1. sockets \in Seq(fds') /\ ports[pos] \in fds'
        BY <2>3, <3>1, SeqMonotonic DEF Kept
      <4> QED BY <2>3, <3>1, <4>1, AppendAdds DEF Kept
    <3>3. Kept'
      BY <2>2, <2>3, <3>1, <3>2 DEF Kept, ToSet
    <3> QED BY <2>1, <2>4, <3>3 DEF KInv, Watched
  <2>5. CASE failed # "none"
    <3>1. UNCHANGED socketVars /\ phase' = "thrown"
      BY <2>1, <2>2, <2>5 DEF FdsAfter, socketVars
    <3> QED BY <2>2, <3>1, ReadingKeeps
  <2> QED BY <2>4, <2>5
<1>11. CASE NewConnectionManager
  <2>1. /\ phase = "sockets" /\ UNCHANGED socketVars /\ pos' = 1
        /\ phase' = IF epoll = "none" THEN "thrown" ELSE "epoll"
    BY <1>11 DEF NewConnectionManager
  <2>2. Kept /\ Kept'
    BY <2>1 DEF KInv, Kept, socketVars, ToSet
  <2>3. \A i \in DOMAIN sockets' : ~(i < 1)
    BY <2>2, LenProperties DEF Kept
  <2>4. Watched'
    BY <2>1, <2>2, <2>3 DEF Kept, Watched, socketVars
  <2> QED BY <2>1, <2>2, <2>4 DEF KInv
<1>12. CASE AddServerSocketToEpoll
  <2>1. /\ phase = "epoll" /\ pos <= Len(sockets) /\ pos' = pos + 1
        /\ UNCHANGED <<sockets, fds, epoll>>
        /\ \/ registered' = registered \cup {sockets[pos]} /\ phase' = phase
           \/ phase' = "thrown" /\ UNCHANGED registered
    BY <1>12 DEF AddServerSocketToEpoll
  <2>2. Kept /\ Watched
    BY <2>1 DEF KInv
  <2>3. DOMAIN sockets = 1 .. Len(sockets) /\ Len(sockets) \in Nat
    BY <2>2, LenProperties DEF Kept
  <2>4. CASE phase' = "thrown" /\ UNCHANGED registered
    BY <2>1, <2>2, <2>4 DEF KInv, Kept, Watched, ToSet
  <2>5. CASE registered' = registered \cup {sockets[pos]} /\ phase' = phase
    <3>1. pos \in Nat \ {0} /\ \A i \in DOMAIN sockets :
                            i < pos => sockets[i] \in registered
      BY <2>1, <2>2 DEF Watched
    <3>2. sockets[pos] \in fds
      BY <2>1, <2>2, <2>3, <3>1 DEF Kept, ToSet
    <3>3. Kept'
      BY <2>1, <2>2, <2>5, <3>2 DEF Kept, ToSet
    <3>4. Watched'
      BY <2>1, <2>2, <2>3, <2>5, <3>1 DEF Watched
    <3> QED BY <2>1, <2>5, <3>3, <3>4 DEF KInv
  <2> QED BY <2>1, <2>4, <2>5
<1>13. CASE EnterMainLoop
  <2>1. phase = "epoll" /\ pos > Len(sockets) /\ phase' = "running"
        /\ UNCHANGED socketVars
    BY <1>13 DEF EnterMainLoop
  <2>2. Kept /\ Watched /\ Kept'
    BY <2>1 DEF KInv, Kept, socketVars, ToSet
  <2>3. \A i \in DOMAIN sockets : sockets[i] \in registered
    BY <2>1, <2>2, LenProperties DEF Kept, Watched
  <2>4. registered = fds
    BY <2>2, <2>3 DEF Kept, ToSet
  <2>5. Watched'
    BY <2>1, <2>2, <2>4 DEF Watched, socketVars
  <2> QED BY <2>1, <2>2, <2>5 DEF KInv
<1>14. CASE LeaveMainLoop
  <2>1. /\ phase = "running" /\ phase' \in {"stopped", "thrown"}
        /\ UNCHANGED socketVars
    BY <1>14 DEF LeaveMainLoop
  <2> QED BY <2>1, ReadingKeeps
<1>15. CASE LeaveMain
  <2>1. /\ phase \in {"stopped", "thrown"} /\ phase' = "exit"
        /\ epoll' = IF epoll = "open" THEN "closed" ELSE epoll
        /\ fds' = fds \ ToSet(sockets)
        /\ registered' = registered \ ToSet(sockets)
    BY <1>15 DEF LeaveMain
  <2>2. Kept
    BY <2>1 DEF KInv
  <2> QED BY <2>1, <2>2 DEF KInv, Kept, ExitsClean
<1> QED
  BY <1>1, <1>2, <1>3, <1>4, <1>5, <1>6, <1>7, <1>8, <1>9, <1>10, <1>11,
     <1>12, <1>13, <1>14, <1>15 DEF Next, StartNext

LEMMA Keeps == Spec => []KInv
BY InitKept, StepKeeps, PTL DEF Spec

(* Whichever call of the start or of the server's life fails, main closes  *)
(* every socket it opened and the epoll descriptor before it exits.        *)
THEOREM ExitsWithNothingOpen == Spec => []ExitsClean
<1>1. KInv => ExitsClean
  BY DEF KInv, ExitsClean
<1> QED BY <1>1, Keeps, PTL


-----------------------------------------------------------------------------
(* The ports that were opened.                                             *)

Early == {"file", "read", "walk", "http", "servers"}

(* The sockets are opened in the order of the ports, none of them twice.   *)
OpenedInOrder ==
  /\ IsInjective(sockets)
  /\ phase = "sockets" =>
       fds = {ports[i] : i \in {j \in DOMAIN ports : j < pos}}
  /\ phase \in {"epoll", "running"} => fds = ToSet(ports)

OInv ==
  /\ phase \in Early => sockets = <<>>
  /\ phase \in {"sockets", "epoll", "running"} => ports = UniquePorts(servers)
  /\ ports \in Seq(PortNumbers)
  /\ ToSet(sockets) \subseteq ToSet(ports)
  /\ OpenedInOrder

LEMMA PortsCollected ==
  ASSUME ServersTyped
  PROVE  LET ps == UniquePorts(servers) IN
           /\ ps \in Seq(PortNumbers) /\ IsInjective(ps)
           /\ ToSet(ps) = UNION {ToSet(servers[i].settings.ports) :
                                   i \in DOMAIN servers}
<1> DEFINE n == Len(servers)
<1>1. n \in Nat /\ DOMAIN servers = 1 .. n
  BY LenProperties DEF ServersTyped
<1>2. \A i \in 1 .. n : servers[i].settings.ports \in Seq(PortNumbers)
  BY <1>1 DEF ServersTyped, ToSet, PortsOK
<1> HIDE DEF n
<1> QED BY <1>1, <1>2, UniquePortsCollects

LEMMA NothingOpenedYet ==
  ASSUME sockets = <<>>
  PROVE  IsInjective(sockets)
BY DEF IsInjective

LEMMA InitOpened == Init => OInv
<1> SUFFICES ASSUME Init PROVE OInv
  OBVIOUS
<1>1. sockets = <<>> /\ ports = <<>> /\ phase = "file"
  BY DEF Init
<1>2. ports \in Seq(PortNumbers) /\ ToSet(sockets) = {}
  BY <1>1 DEF ToSet
<1> QED BY <1>1, <1>2, NothingOpenedYet DEF OInv, OpenedInOrder

(* A step that opens nothing and does not begin to.                        *)
LEMMA OpensNothing ==
  ASSUME OInv, UNCHANGED <<ports, sockets>>,
         phase' \notin {"sockets", "epoll", "running"},
         phase' \in Early => phase \in Early
  PROVE  OInv'
<1>1. IsInjective(sockets)
  BY DEF OInv, OpenedInOrder
<1>2. IsInjective(sockets') /\ ToSet(sockets') \subseteq ToSet(ports')
  BY <1>1 DEF OInv
<1> QED BY <1>2 DEF OInv, OpenedInOrder

LEMMA StepOpens == KInv /\ TInv /\ OInv /\ [Next]_vars => OInv'
<1> SUFFICES ASSUME KInv, TInv, OInv, [Next]_vars PROVE OInv'
  OBVIOUS
<1> USE DEF Early
<1>0. ServersTyped /\ pos \in Nat \ {0}
  BY DEF TInv
<1>1. CASE UNCHANGED vars
  BY <1>1, SMTT(30) DEF OInv, OpenedInOrder, IsInjective, ToSet, vars
<1>2. CASE CheckFileAccessType
  BY <1>2, OpensNothing DEF CheckFileAccessType, configVars, socketVars
<1>3. CASE FillTokensVector
  BY <1>3, OpensNothing DEF FillTokensVector, socketVars
<1>4. CASE EndOfFile
  BY <1>4, OpensNothing DEF EndOfFile, socketVars
<1>5. CASE FillAllTokensPaths
  BY <1>5, OpensNothing DEF FillAllTokensPaths, socketVars
<1>6. CASE EndOfWalk
  BY <1>6, OpensNothing DEF EndOfWalk, configVars, socketVars
<1>7. CASE SetHttpDirectives
  BY <1>7, OpensNothing DEF SetHttpDirectives, socketVars
<1>8. CASE MakeVirtualServer
  BY <1>8, OpensNothing DEF MakeVirtualServer, socketVars
<1>9. CASE GetUniquePorts
  <2>1. /\ phase = "servers" /\ ports' = UniquePorts(servers) /\ pos' = 1
        /\ phase' \in {"sockets", "thrown"}
        /\ UNCHANGED <<servers, sockets, fds>>
    BY <1>9 DEF GetUniquePorts, socketVars
  <2>2. sockets' = <<>>
    BY <2>1 DEF OInv
  <2>3. fds' = {}
    BY <2>1, <2>2 DEF KInv, Kept, ToSet
  <2>4. ports' \in Seq(PortNumbers)
    BY <1>0, <2>1, PortsCollected
  <2>5. {j \in DOMAIN ports' : j < 1} = {}
    BY <2>4, LenProperties
  <2>6. {ports'[i] : i \in {j \in DOMAIN ports' : j < pos'}} = {}
    BY <2>1, <2>5
  <2>7. IsInjective(sockets') /\ ToSet(sockets') = {}
    BY <2>2 DEF IsInjective, ToSet
  <2> QED BY <2>1, <2>3, <2>4, <2>6, <2>7 DEF OInv, OpenedInOrder
<1>10. CASE OpenSocket
  <2>1. PICK failed \in {"none"} \cup (Failures \cap SocketCalls) :
          /\ fds' = FdsAfter(failed, ports[pos])
          /\ sockets' = IF failed = "none" THEN Append(sockets, ports[pos])
                        ELSE sockets
          /\ phase' = IF failed = "none" THEN "sockets" ELSE "thrown"
    BY <1>10 DEF OpenSocket
  <2>2. /\ phase = "sockets" /\ pos <= Len(ports) /\ pos' = pos + 1
        /\ UNCHANGED <<servers, ports>>
    BY <1>10 DEF OpenSocket, configVars
  <2>3. CASE failed # "none"
    BY <2>1, <2>2, <2>3, OpensNothing
  <2>4. CASE failed = "none"
    <3>1. /\ fds' = fds \cup {ports[pos]} /\ phase' = "sockets"
          /\ sockets' = Append(sockets, ports[pos])
      BY <2>1, <2>4 DEF FdsAfter
    <3>2. /\ ports \in Seq(PortNumbers) /\ ports = UniquePorts(servers)
          /\ fds = {ports[i] : i \in {j \in DOMAIN ports : j < pos}}
      BY <2>2 DEF OInv, OpenedInOrder
    <3>3. IsInjective(ports)
      BY <1>0, <3>2, PortsCollected
    <3>4. /\ DOMAIN ports = 1 .. Len(ports) /\ Len(ports) \in Nat
          /\ pos \in DOMAIN ports
      BY <1>0, <2>2, <3>2, LenProperties
    <3>5. {j \in DOMAIN ports : j < pos + 1}
            = {j \in DOMAIN ports : j < pos} \cup {pos}
      BY <1>0, <3>4
    <3>6. fds' = {ports'[i] : i \in {j \in DOMAIN ports' : j < pos'}}
      BY <2>2, <3>1, <3>2, <3>5
    <3>7. ASSUME ports[pos] \in fds PROVE FALSE
      <4>1. PICK i \in DOMAIN ports : i < pos /\ ports[i] = ports[pos]
        BY <3>2, <3>7
      <4>2. i = pos
        BY <3>3, <3>4, <4>1, Zenon DEF IsInjective
      <4> QED BY <1>0, <4>1, <4>2
    <3>8. /\ IsInjective(sockets')
          /\ ToSet(sockets') = ToSet(sockets) \cup {ports[pos]}
      <4> DEFINE S == fds \cup {ports[pos]}
                 p == ports[pos]
      <4>1. /\ sockets \in Seq(fds) /\ fds = ToSet(sockets)
            /\ IsInjective(sockets)
        BY <2>2 DEF KInv, Kept, OInv, OpenedInOrder
      <4>2. sockets \in Seq(S) /\ p \in S /\ p \notin ToSet(sockets)
        BY <3>7, <4>1, SeqMonotonic
      <4>3. sockets' = Append(sockets, p)
        BY <3>1
      <4> HIDE DEF S, p
      <4>4. /\ IsInjective(Append(sockets, p))
            /\ ToSet(Append(sockets, p)) = ToSet(sockets) \cup {p}
        BY <4>1, <4>2, AppendAdds
      <4> QED BY <4>3, <4>4 DEF p
    <3>9. ports[pos] \in ToSet(ports)
      BY <3>4 DEF ToSet
    <3>10. ToSet(sockets') \subseteq ToSet(ports')
      BY <2>2, <3>8, <3>9 DEF OInv
    <3>11. ports' \in Seq(PortNumbers) /\ ports' = UniquePorts(servers')
      BY <2>2, <3>2
    <3> QED BY <3>1, <3>6, <3>8, <3>10, <3>11 DEF OInv, OpenedInOrder
  <2> QED BY <2>3, <2>4
<1>11. CASE NewConnectionManager
  <2>1. /\ phase = "sockets" /\ pos > Len(ports)
        /\ phase' \in {"thrown", "epoll"}
        /\ UNCHANGED <<servers, ports, sockets, fds>>
    BY <1>11 DEF NewConnectionManager, configVars, socketVars
  <2>2. /\ ports \in Seq(PortNumbers) /\ ports = UniquePorts(servers)
        /\ fds = {ports[i] : i \in {j \in DOMAIN ports : j < pos}}
        /\ IsInjective(sockets) /\ ToSet(sockets) \subseteq ToSet(ports)
    BY <2>1 DEF OInv, OpenedInOrder
  <2>3. {j \in DOMAIN ports : j < pos} = DOMAIN ports
    <3>1. DOMAIN ports = 1 .. Len(ports) /\ Len(ports) \in Nat
      BY <2>2, LenProperties
    <3> QED BY <1>0, <2>1, <3>1
  <2>4. fds' = ToSet(ports')
    BY <2>1, <2>2, <2>3 DEF ToSet
  <2>5. IsInjective(sockets') /\ ToSet(sockets') \subseteq ToSet(ports')
    BY <2>1, <2>2
  <2>6. ports' \in Seq(PortNumbers) /\ ports' = UniquePorts(servers')
    BY <2>1, <2>2
  <2> QED BY <2>1, <2>4, <2>5, <2>6 DEF OInv, OpenedInOrder
<1>12. CASE AddServerSocketToEpoll \/ EnterMainLoop
  <2>1. /\ phase = "epoll" /\ phase' \in {"epoll", "thrown", "running"}
        /\ UNCHANGED <<servers, ports, sockets, fds>>
    BY <1>12
       DEF AddServerSocketToEpoll, EnterMainLoop, configVars, socketVars
  <2>2. /\ ports \in Seq(PortNumbers) /\ ports = UniquePorts(servers)
        /\ fds = ToSet(ports)
        /\ IsInjective(sockets) /\ ToSet(sockets) \subseteq ToSet(ports)
    BY <2>1 DEF OInv, OpenedInOrder
  <2>3. IsInjective(sockets') /\ ToSet(sockets') \subseteq ToSet(ports')
    BY <2>1, <2>2
  <2>4. /\ ports' \in Seq(PortNumbers) /\ ports' = UniquePorts(servers')
        /\ fds' = ToSet(ports')
    BY <2>1, <2>2
  <2> QED BY <2>1, <2>3, <2>4 DEF OInv, OpenedInOrder
<1>13. CASE LeaveMainLoop
  BY <1>13, OpensNothing DEF LeaveMainLoop, configVars, socketVars
<1>14. CASE LeaveMain
  BY <1>14, OpensNothing DEF LeaveMain, configVars
<1> QED
  BY <1>1, <1>2, <1>3, <1>4, <1>5, <1>6, <1>7, <1>8, <1>9, <1>10, <1>11,
     <1>12, <1>13, <1>14 DEF Next, StartNext

LEMMA Opens == Spec => []OInv
BY Keeps, Typed, InitOpened, StepOpens, PTL DEF Spec

(* Where the start stands: the descriptors it has open and registered are  *)
(* those of ports some server listens to, and the ports are port numbers   *)
(* whatever the file says.                                                 *)
THEOREM StartupTypeCorrect == Spec => []TypeOK
<1>1. KInv /\ TInv /\ OInv => TypeOK
  <2> SUFFICES ASSUME KInv, TInv, OInv PROVE TypeOK
    OBVIOUS
  <2>1. fds \subseteq ToSet(ports) /\ registered \subseteq ToSet(ports)
    BY DEF KInv, Kept, ExitsClean, OInv
  <2>2. ToSet(ports) \subseteq PortNumbers
    BY LenProperties DEF OInv, ToSet
  <2> QED BY <2>1, <2>2 DEF TypeOK, TInv, OInv
<1> QED BY <1>1, Keeps, Typed, Opens, PTL

(* A server that runs watches an open socket for every port of every one   *)
(* of its servers, and no other.                                           *)
THEOREM ServerStartsWhole == Spec => []StartsWhole
<1>1. KInv /\ TInv /\ OInv => StartsWhole
  <2> SUFFICES ASSUME KInv, TInv, OInv, phase = "running"
               PROVE  /\ epoll = "open" /\ registered = fds
                      /\ fds = UNION {ToSet(servers[i].settings.ports) :
                                        i \in DOMAIN servers}
    BY DEF StartsWhole
  <2>1. epoll = "open" /\ registered = fds
    BY DEF KInv, Watched
  <2>2. ports = UniquePorts(servers) /\ fds = ToSet(ports)
    BY DEF OInv, OpenedInOrder
  <2> QED BY <2>1, <2>2, PortsCollected DEF TInv
<1> QED BY <1>1, Keeps, Typed, Opens, PTL

(* No port is opened twice, although several servers may listen to it: a   *)
(* second bind of a port would end the server.                             *)
THEOREM NoPortOpenedTwice == Spec => []IsInjective(sockets)
<1>1. OInv => IsInjective(sockets)
  BY DEF OInv, OpenedInOrder
<1> QED BY <1>1, Opens, PTL

-----------------------------------------------------------------------------
(* The paths.                                                              *)

PInv ==
  /\ FreshTokens(reader.tokens)
  /\ phase = "walk" => Walking(walk, pos)
  /\ PathsAreLexical

LEMMA InitWalked == Init => PInv
<1> SUFFICES ASSUME Init PROVE PInv
  OBVIOUS
<1>1. phase = "file" /\ reader.tokens = <<>>
  BY DEF Init, EmptyReader
<1> QED BY <1>1 DEF PInv, FreshTokens, ToSet, PathsAreLexical

(* The steps after the walk.                                               *)
LEMMA PathsStay ==
  ASSUME PInv, UNCHANGED reader, phase' \notin {"walk", "http"}
  PROVE  PInv'
BY DEF PInv, FreshTokens, PathsAreLexical, ToSet

LEMMA StepWalks == PInv /\ TInv /\ [Next]_vars => PInv'
<1> SUFFICES ASSUME PInv, TInv, [Next]_vars PROVE PInv'
  OBVIOUS
<1>1. CASE UNCHANGED vars
  <2>1. UNCHANGED <<reader, phase, walk, pos>>
    BY <1>1 DEF vars
  <2>2. FreshTokens(reader.tokens)' /\ (phase = "walk" => Walking(walk, pos))'
    BY <2>1 DEF PInv
  <2>3. PathsAreLexical'
    BY <2>1 DEF PInv, PathsAreLexical
  <2> QED BY <2>2, <2>3 DEF PInv
<1>3. CASE FillTokensVector
  <2>1. /\ phase = "read" /\ pos <= Len(file)
        /\ reader' = ReadLexeme(reader, file[pos])
        /\ phase' \in {"read", "thrown"}
    BY <1>3 DEF FillTokensVector
  <2>2. file[pos] \in Lexemes
    <3>1. file \in Seq(Lexemes) /\ pos \in Nat \ {0}
      BY FilesAssumption DEF TInv
    <3>2. pos \in 1 .. Len(file)
      BY <2>1, <3>1, LenProperties
    <3> QED BY <3>1, <3>2, ElementOfSeq
  <2>3. FreshTokens(reader'.tokens)
    BY <2>1, <2>2, ReadLexemeFresh DEF PInv, TInv
  <2> QED BY <2>1, <2>3 DEF PInv, PathsAreLexical
<1>4. CASE EndOfFile
  <2>1. /\ UNCHANGED reader
        /\ \/ phase' = "thrown"
           \/ /\ phase' = "walk" /\ pos' = 1
              /\ walk' = EmptyWalk(reader.tokens)
              /\ ~ Len(reader.tokens) < 3
    BY <1>4 DEF EndOfFile
  <2>2. CASE phase' = "thrown"
    BY <2>1, <2>2, PathsStay
  <2>3. CASE phase' = "walk"
    <3>1. /\ reader.tokens \in Seq(ToSet(reader.tokens))
          /\ FreshTokens(reader.tokens)
      BY DEF TInv, ReaderOK, PInv
    <3>2. Len(reader.tokens) \in Nat
      BY <3>1, LenProperties
    <3>3. Walking(EmptyWalk(reader.tokens), 1)
      BY <2>1, <2>3, <3>1, <3>2, WalkBegins
    <3> QED BY <2>1, <2>3, <3>1, <3>3 DEF PInv, PathsAreLexical
  <2> QED BY <2>1, <2>2, <2>3
<1>5. CASE FillAllTokensPaths
  <2>1. /\ phase = "walk" /\ pos < Len(walk.tokens) /\ pos' = pos + 1
        /\ walk' = WalkToken(walk, pos) /\ UNCHANGED reader
        /\ phase' = IF walk'.ok THEN "walk" ELSE "thrown"
    BY <1>5 DEF FillAllTokensPaths
  <2>2. CASE phase' = "thrown"
    BY <2>1, <2>2, PathsStay
  <2>3. CASE phase' = "walk"
    <3> DEFINE w == WalkToken(walk, pos)
    <3>1. w.ok = TRUE
      BY <2>1, <2>3
    <3>2. DOMAIN walk = WalkFields /\ Walking(walk, pos)
      BY <2>1 DEF TInv, WalkOK, PInv
    <3>3. Walking(w, pos + 1)
      BY <2>1, <3>1, <3>2, WalkGoesOn
    <3> HIDE DEF w
    <3>4. walk' = w
      BY <2>1 DEF w
    <3> QED BY <2>1, <2>3, <3>3, <3>4 DEF PInv, PathsAreLexical
  <2> QED BY <2>1, <2>2, <2>3
<1>6. CASE EndOfWalk
  <2>1. /\ phase = "walk" /\ pos >= Len(walk.tokens)
        /\ UNCHANGED <<reader, walk>>
        /\ phase' \in {"http", "thrown"}
        /\ phase' = "http" => WalkEndsWell(walk)
    BY <1>6 DEF EndOfWalk, configVars
  <2>2. CASE phase' = "thrown"
    BY <2>1, <2>2, PathsStay
  <2>3. CASE phase' = "http"
    <3>1. Walking(walk, pos)
      BY <2>1 DEF PInv
    <3>2. PathsAreLexical'
      BY <2>1, <2>3, <3>1, WalkEnds DEF PathsAreLexical
    <3> QED BY <2>1, <2>3, <3>2 DEF PInv
  <2> QED BY <2>1, <2>2, <2>3
<1>7. CASE \/ CheckFileAccessType \/ SetHttpDirectives \/ MakeVirtualServer
           \/ GetUniquePorts \/ OpenSocket \/ NewConnectionManager
           \/ AddServerSocketToEpoll \/ EnterMainLoop \/ LeaveMainLoop
           \/ LeaveMain
  <2>1. UNCHANGED reader /\ phase' \notin {"walk", "http"}
    BY <1>7 DEF CheckFileAccessType, SetHttpDirectives, MakeVirtualServer,
                GetUniquePorts, OpenSocket, NewConnectionManager,
                AddServerSocketToEpoll, EnterMainLoop, LeaveMainLoop,
                LeaveMain, configVars
  <2> QED BY <2>1, PathsStay
<1> QED BY <1>1, <1>3, <1>4, <1>5, <1>6, <1>7 DEF Next, StartNext

(* Whatever the file, a walk that _fillAllTokensPaths accepted gave every  *)
(* token the contexts whose braces are open around it, outermost first.    *)
THEOREM PathsAreContexts == Spec => []PathsAreLexical
<1>1. PInv => PathsAreLexical
  BY DEF PInv
<1>2. Spec => []PInv
  BY InitWalked, StepWalks, Typed, PTL DEF Spec
<1> QED BY <1>1, <1>2, PTL
=============================================================================
