--------------------------- MODULE Framing_proofs ---------------------------
(***************************************************************************)
(* What is proved of the way a message is put together, for any stream of  *)
(* bytes, any size of the buffer and any way recv cuts the stream: no size *)
(* that Node.cpp computes is negative or reaches behind the buffer, and    *)
(* one buffer does to a message what module Webserv lets it do.  And of a  *)
(* request without a body or with a Content-Length: where no buffer ends   *)
(* behind a line of its header, it is framed as it was sent, and in time.  *)
(***************************************************************************)
EXTENDS Framing, DataLemmas

-----------------------------------------------------------------------------
(* What the folds over a string give.                                      *)

LEMMA ScanStep ==
  ASSUME NEW s \in ScanStates, NEW b \in Bytes
  PROVE  CgiScan(b)[s] \in ScanStates
BY Zenon DEF CgiScan, ScanStates

LEMMA ScanStays ==
  ASSUME NEW scan \in ScanStates, NEW n \in Nat, NEW bytes \in [1 .. n -> Bytes]
  PROVE  /\ ScanCgi(scan, bytes) \in ScanStates
         /\ n = 0 => ScanCgi(scan, bytes) = scan
<1> DEFINE F == [k \in 1 .. n |-> [q \in ScanStates |-> CgiScan(bytes[k])[q]]]
           iter == CHOOSE g : g =
                     [t \in SUBSET DOMAIN bytes |->
                        IF t = {} THEN scan
                        ELSE CgiScan(bytes[Max(t)])[g[t \ {Max(t)}]]]
<1>1. PICK h \in [SUBSET (1 .. n) -> ScanStates] : Iterates(h, F, scan, n)
  <2>1. \A k \in 1 .. n : F[k] \in [ScanStates -> ScanStates]
    BY ScanStep
  <2> HIDE DEF F
  <2> QED BY <2>1, IterationExists
<1>2. h = [t \in SUBSET DOMAIN bytes |->
             IF t = {} THEN scan
             ELSE CgiScan(bytes[Max(t)])[h[t \ {Max(t)}]]]
  <2>1. ASSUME NEW t \in SUBSET (1 .. n)
        PROVE  h[t] = IF t = {} THEN scan
                      ELSE CgiScan(bytes[Max(t)])[h[t \ {Max(t)}]]
    <3>1. h[t] = IF t = {} THEN scan ELSE F[Max(t)][h[t \ {Max(t)}]]
      BY <1>1 DEF Iterates
    <3>2. CASE t # {}
      <4>1. Max(t) \in 1 .. n /\ t \ {Max(t)} \in SUBSET (1 .. n)
        BY <3>2, MaxOfPositions
      <4>2. h[t \ {Max(t)}] \in ScanStates
        BY <4>1
      <4> QED BY <3>1, <3>2, <4>1, <4>2, Zenon
    <3> QED BY <3>1, <3>2
  <2>2. DOMAIN bytes = 1 .. n
    OBVIOUS
  <2>3. h = [t \in SUBSET (1 .. n) |-> h[t]]
    OBVIOUS
  <2> HIDE DEF F
  <2> QED BY <2>1, <2>2, <2>3, Zenon
<1>3. iter = [t \in SUBSET DOMAIN bytes |->
                IF t = {} THEN scan
                ELSE CgiScan(bytes[Max(t)])[iter[t \ {Max(t)}]]]
  <2> HIDE DEF F
  <2> QED BY <1>2, Zenon
<1>4. ScanCgi(scan, bytes) = iter[DOMAIN bytes]
  BY Zenon DEF ScanCgi, FoldLeft, MapThenFoldSet
<1> HIDE DEF iter, F
<1>5. DOMAIN bytes = 1 .. n
  OBVIOUS
<1> DEFINE T == {k \in 0 .. n : iter[1 .. k] \in ScanStates}
<1>6. 0 \in T
  <2>1. 1 .. 0 = {} /\ {} \in SUBSET (1 .. n) /\ 0 \in 0 .. n
    OBVIOUS
  <2>2. iter[{}] = scan
    BY <1>3, <1>5, <2>1, Zenon
  <2> QED BY <2>1, <2>2
<1>7. ASSUME NEW k \in 0 .. n - 1, k \in T PROVE k + 1 \in T
  <2>1. k \in Nat /\ 1 .. k + 1 \in SUBSET (1 .. n) /\ k + 1 \in 0 .. n
    OBVIOUS
  <2>2. /\ 1 .. k + 1 # {} /\ Max(1 .. k + 1) = k + 1
        /\ (1 .. k + 1) \ {k + 1} = 1 .. k
    BY <2>1, MaxOfInterval
  <2>3. iter[1 .. k + 1] = CgiScan(bytes[k + 1])[iter[1 .. k]]
    <3> DEFINE t == 1 .. k + 1
    <3>1. t \in SUBSET DOMAIN bytes /\ t # {}
      BY <1>5, <2>1, <2>2
    <3> HIDE DEF t
    <3>2. iter[t] = CgiScan(bytes[Max(t)])[iter[t \ {Max(t)}]]
      BY <1>3, <3>1, Zenon
    <3> QED BY <2>2, <3>2 DEF t
  <2>4. bytes[k + 1] \in Bytes /\ iter[1 .. k] \in ScanStates
    BY <1>7
  <2>5. iter[1 .. k + 1] \in ScanStates
    BY <2>3, <2>4, ScanStep
  <2> QED BY <2>1, <2>5
<1>8. n \in 0 .. n /\ \A k \in 0 .. n - 1 : k \in T => k + 1 \in T
  BY <1>7
<1>9. n \in T
  <2> HIDE DEF T
  <2> QED BY <1>6, <1>8, InductionUpTo
<1>10. n = 0 => iter[1 .. n] = scan
  <2>1. 1 .. 0 = {} /\ {} \in SUBSET (1 .. n)
    OBVIOUS
  <2>2. iter[{}] = scan
    BY <1>3, <1>5, <2>1, Zenon
  <2> QED BY <2>1, <2>2
<1>11. iter[1 .. n] \in ScanStates
  BY <1>9
<1>12. ScanCgi(scan, bytes) = iter[1 .. n]
  BY <1>4, <1>5
<1> QED BY <1>10, <1>11, <1>12

LEMMA DigitStep ==
  ASSUME NEW size \in Nat, NEW d \in DOMAIN HexDigit
  PROVE  AddDigit(size, d) \in Nat
<1>1. HexDigit[d] \in Nat
  BY DEF HexDigit
<1> QED BY <1>1 DEF AddDigit

LEMMA DigitsAreNumber ==
  ASSUME NEW n \in Nat, NEW bytes \in [1 .. n -> DOMAIN HexDigit]
  PROVE  FoldLeft(AddDigit, 0, bytes) \in Nat
<1> DEFINE F == [k \in 1 .. n |-> [q \in Nat |-> AddDigit(q, bytes[k])]]
           iter == CHOOSE g : g =
                     [t \in SUBSET DOMAIN bytes |->
                        IF t = {} THEN 0
                        ELSE AddDigit(g[t \ {Max(t)}], bytes[Max(t)])]
<1>1. PICK h \in [SUBSET (1 .. n) -> Nat] : Iterates(h, F, 0, n)
  <2>1. \A k \in 1 .. n : F[k] \in [Nat -> Nat]
    BY DigitStep
  <2> HIDE DEF F
  <2> QED BY <2>1, IterationExists
<1>2. h = [t \in SUBSET DOMAIN bytes |->
             IF t = {} THEN 0
             ELSE AddDigit(h[t \ {Max(t)}], bytes[Max(t)])]
  <2>1. ASSUME NEW t \in SUBSET (1 .. n)
        PROVE  h[t] = IF t = {} THEN 0
                      ELSE AddDigit(h[t \ {Max(t)}], bytes[Max(t)])
    <3>1. h[t] = IF t = {} THEN 0 ELSE F[Max(t)][h[t \ {Max(t)}]]
      BY <1>1 DEF Iterates
    <3>2. CASE t # {}
      <4>1. Max(t) \in 1 .. n /\ t \ {Max(t)} \in SUBSET (1 .. n)
        BY <3>2, MaxOfPositions
      <4>2. h[t \ {Max(t)}] \in Nat
        BY <4>1
      <4> QED BY <3>1, <3>2, <4>1, <4>2, Zenon
    <3> QED BY <3>1, <3>2
  <2>2. DOMAIN bytes = 1 .. n
    OBVIOUS
  <2>3. h = [t \in SUBSET (1 .. n) |-> h[t]]
    OBVIOUS
  <2> HIDE DEF F
  <2> QED BY <2>1, <2>2, <2>3, Zenon
<1>3. iter = [t \in SUBSET DOMAIN bytes |->
                IF t = {} THEN 0
                ELSE AddDigit(iter[t \ {Max(t)}], bytes[Max(t)])]
  <2> HIDE DEF F
  <2> QED BY <1>2, Zenon
<1>4. FoldLeft(AddDigit, 0, bytes) = iter[DOMAIN bytes]
  BY Zenon DEF FoldLeft, MapThenFoldSet
<1> HIDE DEF iter, F
<1>5. DOMAIN bytes = 1 .. n
  OBVIOUS
<1> DEFINE T == {k \in 0 .. n : iter[1 .. k] \in Nat}
<1>6. 0 \in T
  <2>1. 1 .. 0 = {} /\ {} \in SUBSET (1 .. n) /\ 0 \in 0 .. n
    OBVIOUS
  <2>2. iter[{}] = 0
    BY <1>3, <1>5, <2>1, Zenon
  <2> QED BY <2>1, <2>2
<1>7. ASSUME NEW k \in 0 .. n - 1, k \in T PROVE k + 1 \in T
  <2>1. k \in Nat /\ 1 .. k + 1 \in SUBSET (1 .. n) /\ k + 1 \in 0 .. n
    OBVIOUS
  <2>2. /\ 1 .. k + 1 # {} /\ Max(1 .. k + 1) = k + 1
        /\ (1 .. k + 1) \ {k + 1} = 1 .. k
    BY <2>1, MaxOfInterval
  <2>3. iter[1 .. k + 1] = AddDigit(iter[1 .. k], bytes[k + 1])
    <3> DEFINE t == 1 .. k + 1
    <3>1. t \in SUBSET DOMAIN bytes /\ t # {}
      BY <1>5, <2>1, <2>2
    <3> HIDE DEF t
    <3>2. iter[t] = AddDigit(iter[t \ {Max(t)}], bytes[Max(t)])
      BY <1>3, <3>1, Zenon
    <3> QED BY <2>2, <3>2 DEF t
  <2>4. bytes[k + 1] \in DOMAIN HexDigit /\ iter[1 .. k] \in Nat
    BY <1>7
  <2>5. iter[1 .. k + 1] \in Nat
    BY <2>3, <2>4, DigitStep
  <2> QED BY <2>1, <2>5
<1>8. n \in 0 .. n /\ \A k \in 0 .. n - 1 : k \in T => k + 1 \in T
  BY <1>7
<1>9. n \in T
  <2> HIDE DEF T
  <2> QED BY <1>6, <1>8, InductionUpTo
<1> QED BY <1>4, <1>5, <1>9

-----------------------------------------------------------------------------
(* Delimiters and the sizes that _setBtr computes.                         *)

Placed ==
  /\ stream \in Streams
  /\ got \in 0 .. Len(stream.bytes) /\ start \in 0 .. got
  /\ pos \in start .. got

LEMMA StreamIs ==
  ASSUME stream \in Streams
  PROVE  /\ stream.bytes \in Seq(Bytes) /\ Len(stream.bytes) \in Nat
         /\ stream.length \in Nat
         /\ {stream.request, stream.chunked, stream.trailer} \subseteq BOOLEAN
<1>1. stream \in StreamRec
  BY StreamsAssumption
<1>2. stream.bytes \in Seq(Bytes)
  BY <1>1 DEF StreamRec
<1> QED BY <1>1, <1>2, LenProperties DEF StreamRec

LEMMA SliceIs ==
  ASSUME stream \in Streams, NEW from \in Nat,
         NEW to \in 0 .. Len(stream.bytes), from <= to
  PROVE  /\ Slice(from, to) \in Seq(Bytes)
         /\ Len(Slice(from, to)) = to - from
<1>1. \A i \in from + 1 .. to : stream.bytes[i] \in Bytes
  <2>1. \A i \in from + 1 .. to : i \in 1 .. Len(stream.bytes)
    OBVIOUS
  <2> QED BY <2>1, StreamIs, ElementOfSeq
<1>2. from + 1 \in Int /\ to \in Int
  OBVIOUS
<1>3. /\ Slice(from, to) \in Seq(Bytes)
      /\ Len(Slice(from, to))
           = IF from + 1 <= to THEN to - (from + 1) + 1 ELSE 0
  BY <1>1, <1>2, SubSeqProperties DEF Slice
<1> QED BY <1>3

LEMMA RestIs ==
  ASSUME Placed
  PROVE  Rest \in Seq(Bytes) /\ Len(Rest) = got - pos /\ Len(Rest) \in Nat
<1>1. pos \in Nat /\ got \in 0 .. Len(stream.bytes) /\ pos <= got
  BY StreamIs DEF Placed
<1>2. Slice(pos, got) \in Seq(Bytes) /\ Len(Slice(pos, got)) = got - pos
  BY <1>1, SliceIs DEF Placed
<1>3. got \in Nat /\ got - pos \in Nat
  BY <1>1
<1> QED BY <1>2, <1>3 DEF Rest

Delimiters == {LineEnd, HeaderEnd}

LEMMA DelimitersAre ==
  ASSUME NEW del \in Delimiters
  PROVE  del \in Seq(Bytes) /\ Len(del) \in {2, 4}
<1>1. CR \in Bytes /\ LF \in Bytes
  BY DEF Bytes
<1>2. <<CR, LF>> \in Seq(Bytes) /\ Len(<<CR, LF>>) = 2
  BY <1>1
<1>3. <<CR, LF, CR, LF>> \in Seq(Bytes) /\ Len(<<CR, LF, CR, LF>>) = 4
  BY <1>1
<1> QED BY <1>2, <1>3 DEF Delimiters, LineEnd, HeaderEnd

LEMMA ReverseIs ==
  ASSUME NEW s \in Seq(Bytes)
  PROVE  Reverse(s) \in Seq(Bytes) /\ Len(Reverse(s)) = Len(s)
<1> DEFINE n == Len(s)
<1>1. n \in Nat /\ \A i \in 1 .. n : s[i] \in Bytes
  BY LenProperties, ElementOfSeq
<1>2. \A i \in 1 .. n : n - i + 1 \in 1 .. n
  BY <1>1
<1>3. Reverse(s) = [i \in 1 .. n |-> s[(n - i) + 1]]
  BY Zenon DEF Reverse
<1> HIDE DEF n
<1>4. \A i \in 1 .. n : s[(n - i) + 1] \in Bytes
  BY <1>1, <1>2
<1>5. Reverse(s) \in [1 .. n -> Bytes]
  BY <1>3, <1>4
<1>6. Reverse(s) \in Seq(Bytes) /\ Len(Reverse(s)) = n
  BY <1>1, <1>5
<1> QED BY <1>6 DEF n

LEMMA RemainIs ==
  ASSUME NEW s \in Seq(Bytes), NEW del \in Delimiters
  PROVE  /\ Len(RemainDel(s, del)) \in Nat
         /\ RemainDel(s, del) \in Seq(Bytes)
         /\ Len(s) = 0 => Len(RemainDel(s, del)) > 0
<1> DEFINE K == {k \in 0 .. Len(del) : IsSuffix(SubSeq(del, 1, k), s)}
           there == Max(K)
<1>1. del \in Seq(Bytes) /\ Len(del) \in Nat /\ Len(del) > 0
  BY DelimitersAre
<1>2. \A i \in 1 .. Len(del) : del[i] \in Bytes
  BY <1>1, ElementOfSeq
<1>3. ASSUME NEW k \in 0 .. Len(del)
      PROVE  SubSeq(del, 1, k) \in Seq(Bytes) /\ Len(SubSeq(del, 1, k)) = k
  <2>1. \A i \in 1 .. k : del[i] \in Bytes
    BY <1>1, <1>2
  <2>2. 1 \in Int /\ k \in Int
    BY <1>1
  <2>3. /\ SubSeq(del, 1, k) \in Seq(Bytes)
        /\ Len(SubSeq(del, 1, k)) = IF 1 <= k THEN k - 1 + 1 ELSE 0
    BY <2>1, <2>2, SubSeqProperties
  <2> QED BY <2>2, <2>3, <1>1
<1>4. 0 \in K
  <2>1. 0 \in 0 .. Len(del) /\ Len(SubSeq(del, 1, 0)) = 0
    BY <1>1, <1>3
  <2> DEFINE r == Reverse(SubSeq(del, 1, 0))
             t == Reverse(s)
  <2>2. Len(r) = 0 /\ Len(t) \in Nat
    BY <1>3, <2>1, ReverseIs, LenProperties
  <2> HIDE DEF r, t
  <2>3. SubSeq(r, 1, Len(r)) = <<>> /\ SubSeq(t, 1, Len(r)) = <<>>
    BY <2>2, SubSeqEmpty
  <2>4. IsPrefix(r, t)
    BY <2>2, <2>3 DEF IsPrefix
  <2>5. IsSuffix(SubSeq(del, 1, 0), s)
    BY <2>4 DEF IsSuffix, r, t
  <2> QED BY <2>1, <2>5
<1>5. K \subseteq 0 .. Len(del) /\ K # {}
  BY <1>4
<1>6. ASSUME Len(s) = 0, NEW k \in K PROVE k = 0
  <2>1. k \in 0 .. Len(del) /\ IsSuffix(SubSeq(del, 1, k), s)
    OBVIOUS
  <2>2. Len(Reverse(SubSeq(del, 1, k))) <= Len(Reverse(s))
    BY <2>1 DEF IsSuffix, IsPrefix
  <2>3. Len(Reverse(SubSeq(del, 1, k))) = k /\ Len(Reverse(s)) = 0
    BY <1>3, <1>6, <2>1, ReverseIs
  <2> QED BY <2>1, <2>2, <2>3
<1> HIDE DEF K
<1>7. there \in K
  BY <1>1, <1>5, MaxIsGreatest
<1>8. there \in 0 .. Len(del)
  BY <1>5, <1>7
<1>9. RemainDel(s, del) = SubSeq(del, there + 1, Len(del))
  BY Zenon DEF RemainDel, K
<1> HIDE DEF there
<1>10. \A i \in there + 1 .. Len(del) : del[i] \in Bytes
  BY <1>1, <1>2, <1>8
<1>11. there + 1 \in Int /\ Len(del) \in Int
  BY <1>1, <1>8
<1>12. /\ RemainDel(s, del) \in Seq(Bytes)
       /\ Len(RemainDel(s, del)) = IF there + 1 <= Len(del)
                                   THEN Len(del) - (there + 1) + 1 ELSE 0
  BY <1>9, <1>10, <1>11, SubSeqProperties
<1>13. Len(s) = 0 => there = 0
  BY <1>6, <1>7
<1> QED BY <1>1, <1>8, <1>12, <1>13

LEMMA FtStrstrIs ==
  ASSUME NEW s, NEW del, Len(s) \in Int, Len(del) \in Int
  PROVE  FtStrstr(s, del) \in Nat
<1> DEFINE O == Occurrences(s, del)
<1>1. O \subseteq Nat
  BY DEF Occurrences
<1> HIDE DEF O
<1>2. O # {} => Min(O) \in Nat
  BY <1>1, MinIsLeast
<1>3. FtStrstr(s, del) = IF O = {} THEN 0 ELSE Min(O)
  BY Zenon DEF FtStrstr, O
<1> QED BY <1>2, <1>3

(* A node that ends where the bytes not yet taken begin.                   *)
AtEdge(n) == n \in NodeRec /\ n.from <= n.to /\ n.to = pos

LEMMA StrIs ==
  ASSUME Placed, NEW n, AtEdge(n)
  PROVE  Str(n) \in Seq(Bytes) /\ Len(Str(n)) = Length(n) /\ Length(n) \in Nat
<1>1. n.from \in Nat /\ n.to \in Nat /\ n.from <= n.to
  BY DEF AtEdge, NodeRec
<1>2. n.to \in 0 .. Len(stream.bytes)
  BY <1>1, StreamIs DEF AtEdge, Placed
<1>3. stream \in Streams
  BY DEF Placed
<1>4. /\ Slice(n.from, n.to) \in Seq(Bytes)
      /\ Len(Slice(n.from, n.to)) = n.to - n.from
  BY <1>1, <1>2, <1>3, SliceIs
<1>5. n.to - n.from \in Nat
  BY <1>1
<1> QED BY <1>4, <1>5, Zenon DEF Str, Length

LEMMA CalcBtrIs ==
  ASSUME Placed, NEW n, AtEdge(n), NEW del \in Delimiters
  PROVE  /\ CalcBtr(n, del) \in Nat
         /\ Length(n) = 0 /\ pos < got => CalcBtr(n, del) > 0
<1> DEFINE remain == RemainDel(Str(n), del)
           found == FtStrstr(Rest, remain)
<1>1. Len(remain) \in Nat /\ (Length(n) = 0 => Len(remain) > 0)
  BY StrIs, RemainIs
<1>2. Len(Rest) = got - pos /\ Len(Rest) \in Nat
  BY RestIs
<1>3. found \in Nat
  BY <1>1, <1>2, FtStrstrIs
<1>4. CalcBtr(n, del) =
        IF pos = start /\ IsPrefix(remain, Rest) THEN Len(remain)
        ELSE IF found = 0 THEN Len(Rest) ELSE found + Len(remain)
  <2>1. CASE pos = start /\ IsPrefix(remain, Rest)
    BY <2>1, Zenon DEF CalcBtr
  <2>2. CASE ~(pos = start /\ IsPrefix(remain, Rest))
    BY <2>2, Zenon DEF CalcBtr
  <2> QED BY <2>1, <2>2
<1>5. pos \in Int /\ got \in Int
  BY StreamIs DEF Placed
<1> HIDE DEF remain, found
<1> QED BY <1>1, <1>2, <1>3, <1>4, <1>5

-----------------------------------------------------------------------------
Found == {"with", "before"}

(* What a node under construction is: a chunk whose header was read is no  *)
(* longer than the header says, a sized body no longer than its size, and  *)
(* the end of a script's header is still to come.                          *)
Fits(n) ==
  /\ n.chunkHeader => /\ n.type \in {"CHUNK", "LCHUNK"}
                      /\ Length(n) <= n.chunkHeaderSize + n.chunkSize + 2
  /\ ~n.chunkHeader => n.chunkSize = 0
  /\ n.type = "BODY" /\ (stream.request \/ n.bodySize > 0) =>
       Length(n) <= n.bodySize
  /\ n.type \in {"HEADER", "TRAILER"} /\ ~stream.request
       /\ n.state = "INCOMPLETE" => n.scan \notin Found

LEMMA CalcBtrCgiIs ==
  ASSUME Placed, pos < got, NEW n, AtEdge(n), n.scan \notin Found
  PROVE  /\ CalcBtrCgi(n).scan \in ScanStates
         /\ CalcBtrCgi(n).btr \in Nat
         /\ CalcBtrCgi(n).scan # "before" => CalcBtrCgi(n).btr > 0
<1> DEFINE L == Len(Rest)
           Behind(k) == ScanCgi(n.scan, SubSeq(Rest, 1, k))
           ends == {k \in 0 .. L : Behind(k) \in Found}
           last == IF ends = {} THEN L ELSE Min(ends)
<1>1. Rest \in Seq(Bytes) /\ L \in Nat /\ L > 0
  <2>1. pos \in Int /\ got \in Int
    BY StreamIs DEF Placed
  <2> QED BY <2>1, RestIs
<1>2. n.scan \in ScanStates
  BY DEF AtEdge, NodeRec
<1>3. ASSUME NEW k \in 0 .. L
      PROVE  Behind(k) \in ScanStates /\ (k = 0 => Behind(k) = n.scan)
  <2> DEFINE s == SubSeq(Rest, 1, k)
  <2>1. \A i \in 1 .. k : Rest[i] \in Bytes
    BY <1>1, ElementOfSeq
  <2>2. 1 \in Int /\ k \in Int /\ k \in Nat
    BY <1>1
  <2>3. s \in Seq(Bytes) /\ Len(s) = IF 1 <= k THEN k - 1 + 1 ELSE 0
    BY <2>1, <2>2, SubSeqProperties
  <2>4. Len(s) = k
    BY <2>2, <2>3
  <2> HIDE DEF s
  <2>5. s \in [1 .. k -> Bytes]
    BY <2>3, <2>4, LenProperties
  <2>6. /\ ScanCgi(n.scan, s) \in ScanStates
        /\ k = 0 => ScanCgi(n.scan, s) = n.scan
    BY <1>2, <2>2, <2>5, ScanStays
  <2> QED BY <2>6 DEF s
<1>4. CalcBtrCgi(n) =
        [scan |-> Behind(last),
         btr  |-> IF Behind(last) = "before" THEN last - 1 ELSE last]
  BY Zenon DEF CalcBtrCgi, Found
<1> HIDE DEF Behind, L
<1>5. ends \subseteq Nat /\ 0 \notin ends
  BY <1>1, <1>3
<1>6. last \in 0 .. L /\ last > 0
  <2>1. CASE ends = {}
    BY <1>1, <2>1
  <2>2. CASE ends # {}
    <3>1. Min(ends) \in ends
      BY <1>5, <2>2, MinIsLeast
    <3>2. Min(ends) \in 0 .. L /\ Min(ends) # 0
      BY <1>5, <3>1
    <3> QED BY <1>1, <2>2, <3>2
  <2> QED BY <2>1, <2>2
<1> HIDE DEF last
<1>7. CalcBtrCgi(n).scan = Behind(last)
  BY <1>4
<1>8. CalcBtrCgi(n).btr = IF Behind(last) = "before" THEN last - 1 ELSE last
  BY <1>4
<1>9. Behind(last) \in ScanStates
  BY <1>3, <1>6
<1> QED BY <1>1, <1>6, <1>7, <1>8, <1>9

LEMMA BtrIs ==
  ASSUME Placed, pos < got, NEW n, AtEdge(n), Fits(n)
  PROVE  /\ Btr(n) \in Nat
         /\ n.type = "HEADER" /\ Length(n) = 0 => Btr(n) > 0
         /\ n.chunkHeader =>
              Length(n) + Btr(n) <= n.chunkHeaderSize + n.chunkSize + 2
         /\ n.type = "BODY" /\ (stream.request \/ n.bodySize > 0) =>
              Length(n) + Btr(n) <= n.bodySize
<1>1. Length(n) \in Nat
  BY StrIs
<1>2. Len(Rest) \in Nat
  BY RestIs
<1>3. /\ n.type \in NodeTypes /\ n.chunkHeader \in BOOLEAN
      /\ n.chunkHeaderSize \in Nat /\ n.chunkSize \in Nat /\ n.bodySize \in Nat
  BY DEF AtEdge, NodeRec
<1>4. CASE n.type = "BODY"
  <2>1. ~n.chunkHeader
    BY <1>4 DEF Fits
  <2>2. Btr(n) = IF stream.request \/ n.bodySize > 0
                 THEN n.bodySize - Length(n) ELSE Len(Rest)
    BY <1>4, <2>1, Zenon DEF Btr
  <2> QED BY <1>1, <1>2, <1>3, <1>4, <2>1, <2>2 DEF Fits
<1>5. CASE n.chunkHeader
  <2>1. n.type \in {"CHUNK", "LCHUNK"} /\ n.type # "BODY"
    BY <1>5 DEF Fits
  <2>2. Btr(n) = n.chunkHeaderSize + n.chunkSize + 2 - Length(n)
    BY <1>5, <2>1, Zenon DEF Btr
  <2> QED BY <1>1, <1>3, <1>5, <2>1, <2>2 DEF Fits
<1>6. CASE n.type # "BODY" /\ ~n.chunkHeader
  <2>1. \E del \in Delimiters : Btr(n) = CalcBtr(n, del)
    <3>1. CASE n.type \in {"CHUNK", "LCHUNK"}
      BY <1>6, <3>1, Zenon DEF Btr, Delimiters
    <3>2. CASE n.type \notin {"CHUNK", "LCHUNK"}
      BY <1>6, <3>2, Zenon DEF Btr, Delimiters
    <3> QED BY <3>1, <3>2
  <2>2. PICK del \in Delimiters : Btr(n) = CalcBtr(n, del)
    BY <2>1
  <2>3. /\ CalcBtr(n, del) \in Nat
        /\ Length(n) = 0 /\ pos < got => CalcBtr(n, del) > 0
    BY CalcBtrIs
  <2> QED BY <1>6, <2>2, <2>3
<1> QED BY <1>3, <1>4, <1>5, <1>6

LEMMA BytesTakenIs ==
  ASSUME Placed, NEW btr \in Nat
  PROVE  /\ BytesTaken(btr) \in 0 .. got - pos
         /\ BytesTaken(btr) <= btr
         /\ btr > 0 /\ pos < got => BytesTaken(btr) > 0
<1>1. Len(Rest) = got - pos /\ Len(Rest) \in Nat
  BY RestIs
<1> DEFINE T == {btr, Len(Rest)}
<1>2. T \subseteq Nat /\ T # {}
  BY <1>1
<1>3. \A m \in T : m = btr \/ m = Len(Rest)
  OBVIOUS
<1>4. btr \in T /\ Len(Rest) \in T
  OBVIOUS
<1>5. BytesTaken(btr) = Min(T)
  BY DEF BytesTaken
<1> HIDE DEF T
<1>6. Min(T) \in T /\ \A m \in T : Min(T) <= m
  BY <1>2, MinIsLeast
<1>7. pos \in Int /\ got \in Int
  BY StreamIs DEF Placed
<1>8. /\ Min(T) = btr \/ Min(T) = Len(Rest)
      /\ Min(T) <= btr /\ Min(T) <= Len(Rest)
  BY <1>3, <1>4, <1>6, Zenon
<1> QED BY <1>1, <1>5, <1>7, <1>8

(* concatString takes bytes of the buffer only, and what it finds.         *)
LEMMA ConcatIs ==
  ASSUME Placed, pos < got, NEW n, AtEdge(n), Fits(n), n.state = "INCOMPLETE",
         NEW c, c = ConcatString(n)
  PROVE  /\ c \in NodeRec /\ c.from = n.from /\ c.to \in pos .. got
         /\ c.from <= c.to
         /\ c.type = n.type /\ c.chunkHeader = n.chunkHeader
         /\ c.chunkSize = n.chunkSize
         /\ c.state = "COMPLETE" => n.type \in {"HEADER", "TRAILER"}
         /\ Fits(c)
         /\ c.type = "HEADER" => c.from < c.to \/ c.state = "COMPLETE"
<1>1. /\ n \in NodeRec /\ n.to = pos /\ n.from <= n.to
      /\ n.from \in Nat /\ n.to \in Nat
      /\ n.bodySize \in Nat /\ n.chunkHeaderSize \in Nat /\ n.chunkSize \in Nat
      /\ n.chunkHeader \in BOOLEAN
  BY DEF AtEdge, NodeRec
<1>2. pos \in Nat /\ got \in Nat
  BY StreamIs DEF Placed
<1>3. CASE n.type \in {"HEADER", "TRAILER"} /\ ~stream.request
  <2> DEFINE b == CalcBtrCgi(n)
             e == IF b.scan \in Found THEN "COMPLETE" ELSE n.state
             t == BytesTaken(b.btr)
  <2>1. n.scan \notin Found
    BY <1>3 DEF Fits
  <2>2. /\ b.scan \in ScanStates /\ b.btr \in Nat
        /\ b.scan # "before" => b.btr > 0
    BY <2>1, CalcBtrCgiIs
  <2>3. c = [n EXCEPT !.to = @ + t, !.scan = b.scan, !.state = e]
    BY <1>3, Zenon DEF ConcatString, Found
  <2> HIDE DEF b
  <2>4. /\ t \in 0 .. got - pos
        /\ b.btr > 0 => t > 0
    BY <2>2, BytesTakenIs
  <2>5. e \in NodeStates
    BY DEF NodeStates
  <2>6. t \in Nat
    BY <1>2, <2>4
  <2> HIDE DEF t, e
  <2>7. n.to + t \in Nat
    BY <1>1, <2>6
  <2>8. c \in NodeRec
    BY <1>1, <2>2, <2>3, <2>5, <2>7 DEF NodeRec
  <2>9. /\ c.from = n.from /\ c.to = n.to + t /\ c.type = n.type
        /\ c.scan = b.scan /\ c.state = e /\ c.chunkHeader = n.chunkHeader
        /\ c.chunkSize = n.chunkSize /\ c.bodySize = n.bodySize
        /\ c.chunkHeaderSize = n.chunkHeaderSize
    BY <1>1, <2>3 DEF NodeRec
  <2>10. ~n.chunkHeader /\ n.type # "BODY"
    BY <1>3 DEF Fits
  <2>11. e = "INCOMPLETE" => b.scan \notin Found
    BY DEF e
  <2>12. Fits(c)
    BY <1>3, <2>9, <2>10, <2>11 DEF Fits
  <2>13. b.scan = "before" => e = "COMPLETE"
    BY DEF e, Found
  <2>14. c.from <= c.to /\ c.to \in pos .. got
    BY <1>1, <1>2, <2>4, <2>9
  <2>15. c.type = "HEADER" => c.from < c.to \/ c.state = "COMPLETE"
    BY <1>1, <1>2, <2>2, <2>4, <2>9, <2>13
  <2> QED BY <1>3, <2>8, <2>9, <2>12, <2>14, <2>15
<1>4. CASE ~(n.type \in {"HEADER", "TRAILER"} /\ ~stream.request)
  <2> DEFINE t == BytesTaken(Btr(n))
  <2>1. c = [n EXCEPT !.to = @ + t]
    BY <1>4, Zenon DEF ConcatString
  <2>2. /\ Btr(n) \in Nat
        /\ n.type = "HEADER" /\ Length(n) = 0 => Btr(n) > 0
        /\ n.chunkHeader =>
              Length(n) + Btr(n) <= n.chunkHeaderSize + n.chunkSize + 2
        /\ n.type = "BODY" /\ (stream.request \/ n.bodySize > 0) =>
              Length(n) + Btr(n) <= n.bodySize
    BY BtrIs
  <2>3. t \in 0 .. got - pos /\ t <= Btr(n) /\ (Btr(n) > 0 => t > 0)
    BY <2>2, BytesTakenIs
  <2>4. t \in Nat
    BY <1>2, <2>3
  <2> HIDE DEF t
  <2>5. n.to + t \in Nat
    BY <1>1, <2>4
  <2>6. c \in NodeRec
    BY <1>1, <2>1, <2>5 DEF NodeRec
  <2>7. /\ c.from = n.from /\ c.to = n.to + t /\ c.type = n.type
        /\ c.scan = n.scan /\ c.state = n.state /\ c.chunkHeader = n.chunkHeader
        /\ c.chunkSize = n.chunkSize /\ c.bodySize = n.bodySize
        /\ c.chunkHeaderSize = n.chunkHeaderSize
    BY <1>1, <2>1 DEF NodeRec
  <2>8. Length(n) = n.to - n.from /\ Length(c) = Length(n) + t
    BY <1>1, <2>4, <2>7 DEF Length
  <2>9. /\ n.chunkHeader =>
             Length(c) <= n.chunkHeaderSize + n.chunkSize + 2
        /\ n.type = "BODY" /\ (stream.request \/ n.bodySize > 0) =>
             Length(c) <= n.bodySize
    BY <1>1, <2>2, <2>3, <2>4, <2>8
  <2>10. Fits(c)
    BY <2>7, <2>9 DEF Fits
  <2>11. c.type = "HEADER" => c.from < c.to
    BY <1>1, <1>2, <2>2, <2>3, <2>7, <2>8
  <2>12. c.from <= c.to /\ c.to \in pos .. got
    BY <1>1, <1>2, <2>3, <2>7
  <2> QED BY <2>6, <2>7, <2>10, <2>11, <2>12
<1> QED BY <1>3, <1>4

-----------------------------------------------------------------------------
(* Chains of nodes.                                                        *)

MessageRec ==
  [state : {"INCOMPLETE", "COMPLETE", "ERROR"}, header : BOOLEAN,
   chunked : BOOLEAN, trailer : BOOLEAN, bodySize : Nat, chain : Seq(NodeRec)]

(* A chain begins with a header at the start of the stream, its nodes      *)
(* follow one another without a gap; behind the header there is something  *)
(* only when it is complete, and a trailer has a body before it.           *)
Linked(chain) ==
  /\ Len(chain) >= 1
  /\ chain[1].type = "HEADER" /\ chain[1].from = 0
  /\ \A i \in 1 .. Len(chain) : chain[i].from <= chain[i].to
  /\ \A i \in 2 .. Len(chain) : /\ chain[i].from = chain[i - 1].to
                                /\ chain[i].type # "HEADER"
                                /\ chain[i].type = "TRAILER" => i >= 3
  /\ Len(chain) > 1 => chain[1].state = "COMPLETE"

Whole(m) == m \in MessageRec /\ Linked(m.chain)

LEMMA WholeIs ==
  ASSUME NEW m, Whole(m)
  PROVE  /\ m.chain \in Seq(NodeRec) /\ Len(m.chain) \in Nat \ {0}
         /\ \A i \in 1 .. Len(m.chain) : m.chain[i] \in NodeRec
         /\ Current(m) = m.chain[Len(m.chain)] /\ Current(m) \in NodeRec
         /\ Current(m).from <= Current(m).to
         /\ Current(m).type = "HEADER" <=> Len(m.chain) = 1
         /\ Current(m).type = "TRAILER" => Len(m.chain) >= 3
<1> DEFINE N == Len(m.chain)
<1>1. m.chain \in Seq(NodeRec)
  BY DEF Whole, MessageRec
<1>2. N \in Nat /\ N >= 1
  BY <1>1, LenProperties DEF Whole, Linked
<1>3. \A i \in 1 .. N : m.chain[i] \in NodeRec
  BY <1>1, ElementOfSeq
<1>4. Current(m) = m.chain[N]
  BY Zenon DEF Current, Last
<1>5. N \in 1 .. N /\ (N = 1 \/ N \in 2 .. N)
  <2> HIDE DEF N
  <2> QED BY <1>2
<1>6. Linked(m.chain)
  BY DEF Whole
<1>7. Current(m) \in NodeRec /\ Current(m).from <= Current(m).to
  BY <1>3, <1>4, <1>5, <1>6 DEF Linked
<1>8. N = 1 => Current(m).type = "HEADER"
  BY <1>4, <1>6 DEF Linked
<1>9. N # 1 => /\ Current(m).type # "HEADER"
               /\ Current(m).type = "TRAILER" => N >= 3
  BY <1>4, <1>5, <1>6 DEF Linked
<1> HIDE DEF N
<1>10. N \in Nat \ {0}
  BY <1>2
<1>11. Current(m).type = "HEADER" <=> N = 1
  BY <1>8, <1>9
<1>12. Current(m).type = "TRAILER" => N >= 3
  BY <1>8, <1>9
<1> QED BY <1>1, <1>3, <1>4, <1>7, <1>10, <1>11, <1>12 DEF N

(* What the last node may be replaced by.                                  *)
Grows(n, d) ==
  /\ d \in NodeRec /\ d.from = n.from /\ d.from <= d.to
  /\ d.type = n.type \/ (n.type = "CHUNK" /\ d.type = "LCHUNK")

LEMMA SetCurrentIs ==
  ASSUME NEW m, Whole(m), NEW d, Grows(Current(m), d),
         NEW q, q = SetCurrent(m, d)
  PROVE  /\ Whole(q) /\ Current(q) = d /\ Len(q.chain) = Len(m.chain)
         /\ q.state = m.state /\ q.chunked = m.chunked
         /\ q.trailer = m.trailer /\ q.header = m.header
         /\ q.bodySize = m.bodySize
         /\ Len(m.chain) > 1 => q.chain[1] = m.chain[1]
<1> DEFINE s == m.chain
           N == Len(s)
           t == [s EXCEPT ![N] = d]
<1>1. /\ s \in Seq(NodeRec) /\ N \in Nat \ {0}
      /\ Current(m) = s[N]
      /\ Current(m).type = "HEADER" <=> N = 1
      /\ Current(m).type = "TRAILER" => N >= 3
  BY WholeIs
<1>2. d \in NodeRec /\ N \in 1 .. N
  BY <1>1 DEF Grows
<1>3. /\ t \in Seq(NodeRec) /\ Len(t) = N
      /\ \A i \in 1 .. N : t[i] = IF i = N THEN d ELSE s[i]
  BY <1>1, <1>2, ExceptSeq
<1>4. m \in MessageRec
  BY DEF Whole
<1>5. q = [m EXCEPT !.chain = t]
  BY Zenon DEF SetCurrent
<1> HIDE DEF t
<1>6. /\ q \in MessageRec /\ q.chain = t
      /\ q.state = m.state /\ q.chunked = m.chunked
      /\ q.trailer = m.trailer /\ q.header = m.header
      /\ q.bodySize = m.bodySize
  BY <1>3, <1>4, <1>5 DEF MessageRec
<1>7. Linked(s)
  BY DEF Whole
<1> HIDE DEF s, N
<1>8. Linked(t)
  <2>1. t[N] = d /\ \A i \in 1 .. N : i # N => t[i] = s[i]
    BY <1>2, <1>3
  <2>2. N > 1 => t[1] = s[1] /\ s[1].state = "COMPLETE"
    BY <1>1, <1>7, <2>1 DEF Linked, N
  <2>3. t[1].type = "HEADER" /\ t[1].from = 0
    <3>1. CASE N = 1
      BY <1>1, <1>7, <2>1, <3>1 DEF Linked, Grows
    <3>2. CASE N > 1
      BY <1>7, <2>2, <3>2 DEF Linked
    <3> QED BY <1>1, <3>1, <3>2
  <2>4. ASSUME NEW i \in 1 .. N PROVE t[i].from <= t[i].to
    <3>1. CASE i = N
      BY <2>1, <3>1 DEF Grows
    <3>2. CASE i # N
      BY <1>7, <2>1, <3>2 DEF Linked, N
    <3> QED BY <3>1, <3>2
  <2>5. ASSUME NEW i \in 2 .. N
        PROVE  /\ t[i].from = t[i - 1].to /\ t[i].type # "HEADER"
               /\ t[i].type = "TRAILER" => i >= 3
    <3>1. i \in 1 .. N /\ i - 1 \in 1 .. N /\ i - 1 # N /\ i >= 2
      BY <1>1
    <3>2. t[i - 1] = s[i - 1]
      BY <2>1, <3>1
    <3>3. /\ s[i].from = s[i - 1].to /\ s[i].type # "HEADER"
          /\ s[i].type = "TRAILER" => i >= 3
      BY <1>7 DEF Linked, N
    <3>4. CASE i = N
      BY <1>1, <2>1, <3>2, <3>3, <3>4 DEF Grows
    <3>5. CASE i # N
      BY <2>1, <3>1, <3>2, <3>3, <3>5
    <3> QED BY <3>4, <3>5
  <2> QED BY <1>1, <1>3, <2>2, <2>3, <2>4, <2>5 DEF Linked
<1>9. N > 1 => t[1] = s[1]
  <2> SUFFICES ASSUME N > 1 PROVE t[1] = s[1]
    OBVIOUS
  <2>1. 1 \in 1 .. N /\ 1 # N
    BY <1>1
  <2> QED BY <1>3, <2>1
<1>10. Current(q) = d
  BY <1>2, <1>3, <1>6 DEF Current, Last
<1> QED BY <1>3, <1>6, <1>8, <1>9, <1>10 DEF Whole, s, N

(* A message that only differs in its other members.                       *)
LEMMA SameChain ==
  ASSUME NEW m, Whole(m), NEW q \in MessageRec, q.chain = m.chain
  PROVE  Whole(q) /\ Current(q) = Current(m)
BY DEF Whole, Current

LEMMA NewNodeIs ==
  ASSUME Placed, NEW type \in NodeTypes, NEW size \in Nat
  PROVE  /\ NewNode(type, size, pos) \in NodeRec
         /\ NewNode(type, size, pos).type = type
         /\ NewNode(type, size, pos).state = "INCOMPLETE"
         /\ AtEdge(NewNode(type, size, pos))
         /\ NewNode(type, size, pos).from = pos
         /\ Fits(NewNode(type, size, pos))
<1>1. pos \in Nat
  BY StreamIs DEF Placed
<1> DEFINE n == NewNode(type, size, pos)
<1>2. n \in NodeRec
  BY <1>1 DEF NewNode, NodeRec, NodeStates, ScanStates
<1>3. /\ n.type = type /\ n.state = "INCOMPLETE" /\ n.from = pos /\ n.to = pos
      /\ n.chunkHeader = FALSE /\ n.chunkSize = 0 /\ n.bodySize = size
      /\ n.scan = "line"
  BY DEF NewNode
<1> HIDE DEF n
<1>4. AtEdge(n)
  BY <1>1, <1>2, <1>3 DEF AtEdge
<1>5. Length(n) = 0
  BY <1>1, <1>3 DEF Length
<1>6. Fits(n)
  BY <1>3, <1>5 DEF Fits, Found
<1> QED BY <1>2, <1>3, <1>4, <1>6 DEF n

(* _addNewNode: what follows a complete node is known.                     *)
LEMMA AddNewNodeIs ==
  ASSUME Placed, NEW m, Whole(m), Current(m).to = pos, Fits(Current(m)),
         NEW a, a = AddNewNode(m)
  PROVE  /\ Whole(a) /\ a.state = m.state
         /\ AtEdge(Current(a)) /\ Fits(Current(a))
         /\ Current(a).state = "INCOMPLETE"
         /\ m.chain[1].state = "COMPLETE" =>
              Len(a.chain) > 1 /\ a.chain[1].state = "COMPLETE"
<1> DEFINE n == Current(m)
           s == m.chain
           N == Len(s)
<1>1. /\ s \in Seq(NodeRec) /\ N \in Nat \ {0} /\ n = s[N] /\ n \in NodeRec
      /\ n.from <= n.to /\ (n.type = "HEADER" <=> N = 1)
      /\ m \in MessageRec /\ Linked(s)
  BY WholeIs DEF Whole
<1>2. CASE n.state # "COMPLETE"
  <2>1. a = m
    BY <1>2, Zenon DEF AddNewNode
  <2>2. n.state = "INCOMPLETE"
    BY <1>1, <1>2 DEF NodeRec, NodeStates
  <2>3. m.chain[1].state = "COMPLETE" => Len(m.chain) > 1
    BY <1>1, <1>2
  <2> QED BY <1>1, <2>1, <2>2, <2>3 DEF AtEdge, Linked
<1>3. CASE n.state = "COMPLETE"
  <2>1. PICK type \in NodeTypes \ {"HEADER"}, size \in Nat :
           /\ a = [m EXCEPT !.chain = Append(@, NewNode(type, size, pos))]
           /\ type = "TRAILER" => n.type # "HEADER"
    <3>1. CASE n.type = "HEADER" /\ ~m.chunked
      <4>1. a = [m EXCEPT !.chain = Append(@, NewNode("BODY", n.bodySize, pos))]
        BY <1>3, <3>1, Zenon DEF AddNewNode
      <4>2. n.bodySize \in Nat /\ "BODY" \in NodeTypes \ {"HEADER"}
        BY <1>1 DEF NodeRec, NodeTypes
      <4> QED BY <4>1, <4>2
    <3>2. CASE n.type # "LCHUNK" /\ m.chunked
      <4>1. a = [m EXCEPT !.chain = Append(@, NewNode("CHUNK", 0, pos))]
        BY <1>3, <3>2, Zenon DEF AddNewNode
      <4>2. 0 \in Nat /\ "CHUNK" \in NodeTypes \ {"HEADER"}
        BY DEF NodeTypes
      <4> QED BY <4>1, <4>2
    <3>3. CASE /\ ~(n.type = "HEADER" /\ ~m.chunked)
               /\ ~(n.type # "LCHUNK" /\ m.chunked)
      <4>1. a = [m EXCEPT !.chain = Append(@, NewNode("TRAILER", 0, pos))]
        BY <1>3, <3>3, Zenon DEF AddNewNode
      <4>2. 0 \in Nat /\ "TRAILER" \in NodeTypes \ {"HEADER"}
        BY DEF NodeTypes
      <4>3. n.type # "HEADER"
        BY <3>3
      <4> QED BY <4>1, <4>2, <4>3
    <3> QED BY <3>1, <3>2, <3>3
  <2> DEFINE e == NewNode(type, size, pos)
             t == Append(s, e)
  <2>2. /\ e \in NodeRec /\ e.type = type /\ e.state = "INCOMPLETE"
        /\ AtEdge(e) /\ e.from = pos /\ Fits(e)
    BY NewNodeIs
  <2> HIDE DEF e
  <2>3. /\ t \in Seq(NodeRec) /\ Len(t) = N + 1
        /\ \A i \in 1 .. N : t[i] = s[i]
        /\ t[N + 1] = e
    BY <1>1, <2>2, AppendProperties
  <2>4. a = [m EXCEPT !.chain = t]
    BY <2>1 DEF e
  <2> HIDE DEF t
  <2>5. a \in MessageRec /\ a.chain = t /\ a.state = m.state
    BY <1>1, <2>3, <2>4 DEF MessageRec
  <2>6. Current(a) = e
    BY <2>3, <2>5 DEF Current, Last
  <2>7. t[1] = s[1] /\ s[1].state = "COMPLETE"
    <3>1. 1 \in 1 .. N
      BY <1>1
    <3>2. N = 1 \/ N > 1
      <4> HIDE DEF N
      <4> QED BY <1>1
    <3>3. s[1].state = "COMPLETE"
      <4>1. N = 1 => s[1] = n
        BY <1>1, Zenon
      <4>2. N > 1 => s[1].state = "COMPLETE"
        BY <1>1 DEF Linked
      <4> QED BY <1>3, <3>2, <4>1, <4>2
    <3> QED BY <2>3, <3>1, <3>3
  <2>8. Linked(t)
    <3>1. ASSUME NEW i \in 1 .. N + 1 PROVE t[i].from <= t[i].to
      <4>1. CASE i = N + 1
        BY <2>2, <2>3, <4>1 DEF AtEdge
      <4>2. CASE i # N + 1
        <5>1. i \in 1 .. N
          BY <1>1, <4>2
        <5> QED BY <1>1, <2>3, <5>1 DEF Linked
      <4> QED BY <4>1, <4>2
    <3>2. ASSUME NEW i \in 2 .. N + 1
          PROVE  /\ t[i].from = t[i - 1].to /\ t[i].type # "HEADER"
                 /\ t[i].type = "TRAILER" => i >= 3
      <4>1. CASE i = N + 1
        <5>1. t[i] = e /\ i - 1 = N /\ N \in 1 .. N
          BY <1>1, <2>3, <4>1
        <5>2. t[i - 1] = n
          BY <1>1, <2>3, <5>1
        <5>3. t[i].from = t[i - 1].to /\ t[i].type # "HEADER"
          BY <2>1, <2>2, <5>1, <5>2
        <5>4. t[i].type = "TRAILER" => i >= 3
          <6>1. t[i].type = "TRAILER" => N # 1
            BY <1>1, <2>1, <2>2, <5>1
          <6> HIDE DEF N
          <6>2. N # 1 => N + 1 >= 3
            BY <1>1
          <6> QED BY <4>1, <6>1, <6>2
        <5> QED BY <5>3, <5>4
      <4>2. CASE i # N + 1
        <5>1. i \in 2 .. N /\ i \in 1 .. N /\ i - 1 \in 1 .. N
          BY <1>1, <4>2
        <5>2. t[i] = s[i] /\ t[i - 1] = s[i - 1]
          BY <2>3, <5>1
        <5> QED BY <1>1, <5>1, <5>2 DEF Linked
      <4> QED BY <4>1, <4>2
    <3>3. t[1].type = "HEADER" /\ t[1].from = 0
      BY <1>1, <2>7 DEF Linked
    <3> QED BY <1>1, <2>3, <2>7, <3>1, <3>2, <3>3 DEF Linked
  <2>9. Len(a.chain) > 1
    BY <1>1, <2>3, <2>5
  <2> QED BY <2>2, <2>5, <2>6, <2>7, <2>8, <2>9 DEF Whole
<1> QED BY <1>2, <1>3

-----------------------------------------------------------------------------
(* One pass of the loop.                                                   *)

(* After _setNodeComplete a chunk may have its header and not yet its size *)
Marked(n) ==
  Fits(n) \/ (n.type = "CHUNK" /\ n.chunkHeader /\ n.chunkSize = 0)

(* What one look at the last node makes of a message.                      *)
Looked(m, q) ==
  /\ Whole(q) /\ Len(q.chain) = Len(m.chain)
  /\ Current(q).to = Current(m).to
  /\ Current(m).state = "COMPLETE" => Current(q).state = "COMPLETE"
  /\ m.state = "INCOMPLETE" =>
       q.state = "INCOMPLETE" \/ Current(m).type \in {"CHUNK", "LCHUNK"}

LEMMA CompletesNode ==
  ASSUME NEW n \in NodeRec, n.from <= n.to, Fits(n),
         NEW c,
         (c = [n EXCEPT !.chunkHeader = TRUE] /\ n.type = "CHUNK") \/ c = n,
         NEW d, d = c \/ d = [c EXCEPT !.state = "COMPLETE"]
  PROVE  /\ Grows(n, d) /\ d.type = n.type /\ d.to = n.to /\ Marked(d)
         /\ n.state = "COMPLETE" => d.state = "COMPLETE"
<1>1. c \in NodeRec
  BY DEF NodeRec
<1>2. /\ c.type = n.type /\ c.from = n.from /\ c.to = n.to
      /\ c.chunkHeaderSize = n.chunkHeaderSize /\ c.chunkSize = n.chunkSize
      /\ c.bodySize = n.bodySize /\ c.scan = n.scan /\ c.state = n.state
      /\ c.chunkHeader = n.chunkHeader \/ (c.chunkHeader /\ n.type = "CHUNK")
  BY DEF NodeRec
<1>3. d \in NodeRec
  BY <1>1 DEF NodeRec, NodeStates
<1>4. /\ d.type = c.type /\ d.from = c.from /\ d.to = c.to
      /\ d.chunkHeaderSize = c.chunkHeaderSize /\ d.chunkSize = c.chunkSize
      /\ d.bodySize = c.bodySize /\ d.scan = c.scan
      /\ d.chunkHeader = c.chunkHeader
      /\ d.state = c.state \/ d.state = "COMPLETE"
  BY <1>1 DEF NodeRec
<1>5. Length(d) = Length(n)
  BY <1>2, <1>4 DEF Length
<1>6. Marked(d)
  <2>1. CASE d.chunkHeader = n.chunkHeader
    <3>1. Fits(d)
      BY <1>2, <1>4, <1>5, <2>1 DEF Fits
    <3> QED BY <3>1 DEF Marked
  <2>2. CASE d.chunkHeader # n.chunkHeader
    <3>1. d.chunkHeader /\ n.type = "CHUNK" /\ ~n.chunkHeader
      BY <1>2, <1>4, <2>2 DEF NodeRec
    <3> QED BY <1>2, <1>4, <3>1 DEF Fits, Marked
  <2> QED BY <2>1, <2>2
<1> QED BY <1>2, <1>3, <1>4, <1>6 DEF Grows

(* _setNodeComplete.                                                       *)
LEMMA SetNodeCompleteIs ==
  ASSUME NEW m, Whole(m), Fits(Current(m)), NEW q, q = SetNodeComplete(m)
  PROVE  Looked(m, q) /\ Marked(Current(q))
<1> DEFINE n == Current(m)
           c == IF n.type = "CHUNK" /\ Occurrences(Str(n), LineEnd) # {}
                THEN [n EXCEPT !.chunkHeader = TRUE] ELSE n
           e == [c EXCEPT !.state = "COMPLETE"]
           complete == SetCurrent(m, e)
           marked == SetCurrent(m, c)
<1>1. n \in NodeRec /\ n.from <= n.to
  BY WholeIs
<1>2. (c = [n EXCEPT !.chunkHeader = TRUE] /\ n.type = "CHUNK") \/ c = n
  OBVIOUS
<1>3. q = CASE n.type = "HEADER" ->
                 IF stream.request /\ Occurrences(Str(n), HeaderEnd) # {}
                 THEN complete ELSE m
            [] n.type = "TRAILER" ->
                 IF Occurrences(Str(n), HeaderEnd) # {} THEN complete ELSE m
            [] n.type = "BODY" ->
                 [(IF BodyDone(n) THEN complete ELSE m)
                    EXCEPT !.bodySize = n.bodySize]
            [] c.chunkHeader /\ (n.type = "CHUNK" \/ ~m.trailer)
                 /\ ChunkDone(c) ->
                 IF ChunkEndsWell(c) THEN complete
                                     ELSE [complete EXCEPT !.state = "ERROR"]
            [] OTHER -> marked
  BY Zenon DEF SetNodeComplete
<1> HIDE DEF c
<1>4. /\ Grows(n, c) /\ c.to = n.to /\ Marked(c)
      /\ n.state = "COMPLETE" => c.state = "COMPLETE"
  BY <1>1, <1>2, CompletesNode
<1>5. /\ Grows(n, e) /\ e.to = n.to /\ Marked(e)
  BY <1>1, <1>2, CompletesNode
<1>6. e.state = "COMPLETE"
  BY <1>1, <1>2 DEF NodeRec
<1> HIDE DEF e
<1>7. /\ Whole(complete) /\ Current(complete) = e
      /\ Len(complete.chain) = Len(m.chain) /\ complete.state = m.state
  BY <1>5, SetCurrentIs
<1>8. /\ Whole(marked) /\ Current(marked) = c
      /\ Len(marked.chain) = Len(m.chain) /\ marked.state = m.state
  BY <1>4, SetCurrentIs
<1> HIDE DEF n, complete, marked
<1>9. Looked(m, complete) /\ Marked(Current(complete))
  BY <1>5, <1>6, <1>7 DEF Looked, n
<1>10. Looked(m, marked) /\ Marked(Current(marked))
  BY <1>4, <1>8 DEF Looked, n
<1>11. Looked(m, m) /\ Marked(Current(m))
  BY DEF Looked, Marked
<1>12. n.bodySize \in Nat /\ n.type \in NodeTypes
  BY <1>1 DEF NodeRec
<1>13. ASSUME NEW p, Looked(m, p), Marked(Current(p)), p.state = m.state,
              q = [p EXCEPT !.bodySize = n.bodySize]
       PROVE  Looked(m, q) /\ Marked(Current(q))
  <2>1. p \in MessageRec
    BY <1>13 DEF Looked, Whole
  <2>2. q \in MessageRec /\ q.chain = p.chain /\ q.state = p.state
    BY <1>12, <1>13, <2>1 DEF MessageRec
  <2>3. Whole(q) /\ Current(q) = Current(p)
    BY <1>13, <2>2, SameChain DEF Looked
  <2> QED BY <1>13, <2>2, <2>3 DEF Looked
<1>14. ASSUME n.type \in {"CHUNK", "LCHUNK"},
              q = [complete EXCEPT !.state = "ERROR"]
       PROVE  Looked(m, q) /\ Marked(Current(q))
  <2>1. complete \in MessageRec
    BY <1>7 DEF Whole
  <2>2. q \in MessageRec /\ q.chain = complete.chain
    BY <1>14, <2>1 DEF MessageRec
  <2>3. Whole(q) /\ Current(q) = Current(complete)
    BY <1>7, <2>2, SameChain
  <2> QED BY <1>9, <1>14, <2>2, <2>3 DEF Looked, n
<1>18. n.type \notin {"CHUNK", "LCHUNK"} => ~c.chunkHeader
  BY <1>1, <1>2 DEF Fits, n
<1>15. CASE n.type \in {"HEADER", "TRAILER"}
  <2>1. q = complete \/ q = m
    <3>1. CASE n.type = "HEADER"
      <4>1. n.type # "TRAILER" /\ n.type # "BODY" /\ ~c.chunkHeader
        BY <1>18, <3>1
      <4> QED BY <1>3, <3>1, <4>1, Zenon
    <3>2. CASE n.type = "TRAILER"
      <4>1. n.type # "HEADER" /\ n.type # "BODY" /\ ~c.chunkHeader
        BY <1>18, <3>2
      <4> QED BY <1>3, <3>2, <4>1, Zenon
    <3> QED BY <1>15, <3>1, <3>2
  <2> QED BY <1>9, <1>11, <2>1
<1>16. CASE n.type = "BODY"
  <2>1. \/ q = [complete EXCEPT !.bodySize = n.bodySize]
        \/ q = [m EXCEPT !.bodySize = n.bodySize]
    <3>1. n.type # "HEADER" /\ n.type # "TRAILER" /\ ~c.chunkHeader
      BY <1>18, <1>16
    <3> QED BY <1>3, <1>16, <3>1, Zenon
  <2> QED BY <1>7, <1>9, <1>11, <1>13, <2>1
<1>17. CASE n.type \in {"CHUNK", "LCHUNK"}
  <2>1. \/ q = complete \/ q = [complete EXCEPT !.state = "ERROR"]
        \/ q = marked
    <3>1. n.type # "HEADER" /\ n.type # "TRAILER" /\ n.type # "BODY"
      BY <1>17
    <3> QED BY <1>3, <3>1, Zenon
  <2> QED BY <1>9, <1>10, <1>14, <1>17, <2>1
<1> QED BY <1>12, <1>15, <1>16, <1>17 DEF NodeTypes

LEMMA StringIs ==
  ASSUME Placed, NEW n \in NodeRec, n.from <= n.to, n.to <= got
  PROVE  Str(n) \in Seq(Bytes) /\ Len(Str(n)) = Length(n) /\ Length(n) \in Nat
<1>1. n.from \in Nat /\ n.to \in Nat
  BY DEF NodeRec
<1>2. n.to \in 0 .. Len(stream.bytes) /\ stream \in Streams
  BY <1>1, StreamIs DEF Placed
<1>3. /\ Slice(n.from, n.to) \in Seq(Bytes)
      /\ Len(Slice(n.from, n.to)) = n.to - n.from
  BY <1>1, <1>2, SliceIs
<1>4. n.to - n.from \in Nat
  BY <1>1
<1> QED BY <1>3, <1>4, Zenon DEF Str, Length

(* Whatever stands at the beginning of a chunk, its size is a number.      *)
LEMMA ChunkSizeIs ==
  ASSUME NEW s \in Seq(Bytes), NEW unset \in Unset
  PROVE  ChunkSize(s, unset) \in Nat
<1> DEFINE D == DOMAIN HexDigit
           digits == {k \in 0 .. Len(s) : \A i \in 1 .. k : s[i] \in D}
           k == Max(digits)
           t == SubSeq(s, 1, k)
<1>1. Len(s) \in Nat
  BY LenProperties
<1>2. 0 \in digits
  <2>1. 0 \in 0 .. Len(s) /\ \A i \in 1 .. 0 : s[i] \in D
    BY <1>1
  <2> QED BY <2>1
<1>3. digits \subseteq 0 .. Len(s) /\ digits # {}
  BY <1>2
<1>4. \A j \in digits : \A i \in 1 .. j : s[i] \in D
  OBVIOUS
<1>5. SizeDigits(s) = t
  BY Zenon DEF SizeDigits
<1> HIDE DEF digits, D
<1>6. k \in digits
  BY <1>1, <1>3, MaxIsGreatest
<1>7. k \in Nat /\ \A i \in 1 .. k : s[i] \in D
  <2>1. k \in 0 .. Len(s)
    BY <1>3, <1>6
  <2>2. \A i \in 1 .. k : s[i] \in D
    BY <1>4, <1>6, Zenon
  <2> HIDE DEF k
  <2>3. k \in Nat
    BY <1>1, <2>1
  <2> QED BY <2>2, <2>3
<1> HIDE DEF k
<1>8. 1 \in Int /\ k \in Int
  BY <1>7
<1>9. t \in Seq(D) /\ Len(t) = IF 1 <= k THEN k - 1 + 1 ELSE 0
  BY <1>7, <1>8, SubSeqProperties
<1>10. Len(t) = k
  BY <1>7, <1>9
<1> HIDE DEF t
<1>11. t \in [1 .. k -> D]
  BY <1>9, <1>10, LenProperties
<1>12. FoldLeft(AddDigit, 0, t) \in Nat
  BY <1>7, <1>11, DigitsAreNumber DEF D
<1>13. unset \in Nat
  BY UnsetAssumption
<1> QED BY <1>5, <1>12, <1>13, Zenon DEF ChunkSize

(* _parseNode, first half.                                                 *)
LEMMA ReadChunkHeaderIs ==
  ASSUME Placed, NEW m, Whole(m), Current(m).to <= got, Marked(Current(m)),
         NEW unset \in Unset, NEW q, q = ReadChunkHeader(m, unset)
  PROVE  Looked(m, q) /\ Fits(Current(q))
<1> DEFINE n == Current(m)
           size == ChunkSize(Str(n), unset)
           e == [n EXCEPT !.chunkHeaderSize = Length(n), !.chunkSize = size,
                          !.type = IF size = 0 THEN "LCHUNK" ELSE @,
                          !.state = IF size = 0 /\ m.trailer
                                    THEN "COMPLETE" ELSE @]
           d == SetCurrent(m, e)
           judged == IF SizeDigits(Str(n)) = <<>> THEN "ERROR" ELSE m.state
           Reads == n.type = "CHUNK" /\ n.chunkHeader /\ n.chunkSize = 0
<1>1. n \in NodeRec /\ n.from <= n.to
  BY WholeIs
<1>2. Str(n) \in Seq(Bytes) /\ Length(n) \in Nat
  BY <1>1, StringIs
<1>3. size \in Nat
  BY <1>2, ChunkSizeIs
<1>4. CASE ~Reads
  <2>1. q = m
    BY <1>4, Zenon DEF ReadChunkHeader
  <2>2. Fits(n)
    BY <1>4 DEF Marked
  <2> QED BY <2>1, <2>2 DEF Looked
<1>5. CASE Reads
  <2>1. q = [d EXCEPT !.bodySize = Count(@, size),
                      !.state = IF SizeDigits(Str(n)) = <<>>
                                THEN "ERROR" ELSE @]
    BY <1>5, Zenon DEF ReadChunkHeader
  <2> HIDE DEF size
  <2>2. e \in NodeRec
    BY <1>1, <1>2, <1>3 DEF NodeRec, NodeTypes, NodeStates
  <2>3. /\ e.from = n.from /\ e.to = n.to /\ e.chunkHeader = n.chunkHeader
        /\ e.chunkHeaderSize = Length(n) /\ e.chunkSize = size
        /\ e.type \in {"CHUNK", "LCHUNK"}
        /\ n.state = "COMPLETE" => e.state = "COMPLETE"
    BY <1>1, <1>5 DEF NodeRec
  <2> HIDE DEF e
  <2>4. Grows(n, e)
    BY <1>1, <1>5, <2>2, <2>3 DEF Grows
  <2>5. Length(e) = Length(n)
    BY <2>3 DEF Length
  <2>6. Fits(e)
    <3>1. Length(e) <= e.chunkHeaderSize + e.chunkSize + 2
      BY <1>2, <1>3, <2>3, <2>5
    <3> QED BY <1>5, <2>3, <3>1 DEF Fits
  <2>7. /\ Whole(d) /\ Current(d) = e /\ Len(d.chain) = Len(m.chain)
        /\ d.state = m.state /\ d.bodySize = m.bodySize
    BY <2>4, SetCurrentIs
  <2> HIDE DEF d
  <2>8. d \in MessageRec /\ m.bodySize \in Nat
    BY <2>7 DEF Whole, MessageRec
  <2>9. Count(m.bodySize, size) \in Nat
    BY <1>3, <2>8 DEF Count
  <2>10. q = [d EXCEPT !.bodySize = Count(m.bodySize, size), !.state = judged]
    BY <2>1, <2>7
  <2>11. q \in MessageRec /\ q.chain = d.chain
    BY <2>7, <2>8, <2>9, <2>10 DEF MessageRec
  <2>12. Whole(q) /\ Current(q) = e
    BY <2>7, <2>11, SameChain
  <2> QED BY <1>5, <2>3, <2>6, <2>7, <2>11, <2>12 DEF Looked
<1> QED BY <1>4, <1>5

(* A trailer leaves the message it completes.                              *)
LEMMA FrontIs ==
  ASSUME NEW m, Whole(m), Len(m.chain) >= 2, NEW q \in MessageRec,
         q.chain = Front(m.chain)
  PROVE  /\ Whole(q) /\ Len(q.chain) = Len(m.chain) - 1
         /\ Current(q).to <= Current(m).to
         /\ q.chain[1] = m.chain[1]
<1> DEFINE s == m.chain
           N == Len(s)
           t == q.chain
<1>1. /\ s \in Seq(NodeRec) /\ N \in Nat \ {0} /\ Current(m) = s[N]
      /\ \A i \in 1 .. N : s[i] \in NodeRec
  BY WholeIs
<1>2. N >= 2 /\ Linked(s)
  BY DEF Whole
<1>3. t = SubSeq(s, 1, N - 1)
  BY Zenon DEF Front
<1> HIDE DEF s, N
<1>4. \A i \in 1 .. N - 1 : i \in 1 .. N
  BY <1>1
<1>5. 1 \in Int /\ N - 1 \in Int /\ \A i \in 1 .. N - 1 : s[i] \in NodeRec
  BY <1>1, <1>4
<1>6. /\ t \in Seq(NodeRec)
      /\ Len(t) = IF 1 <= N - 1 THEN N - 1 - 1 + 1 ELSE 0
      /\ \A i \in 1 .. N - 1 - 1 + 1 : t[i] = s[1 + i - 1]
  BY <1>3, <1>5, SubSeqProperties
<1>7. Len(t) = N - 1
  BY <1>1, <1>2, <1>6
<1>8. \A i \in 1 .. N - 1 : t[i] = s[i]
  <2>1. \A i \in 1 .. N - 1 : i \in 1 .. N - 1 - 1 + 1 /\ 1 + i - 1 = i
    BY <1>1
  <2> QED BY <1>6, <2>1
<1>9. \A i \in 1 .. N : s[i].from <= s[i].to
  BY <1>2 DEF Linked, N
<1>10. \A i \in 2 .. N : /\ s[i].from = s[i - 1].to /\ s[i].type # "HEADER"
                         /\ s[i].type = "TRAILER" => i >= 3
  BY <1>2 DEF Linked, N
<1>11. /\ s[1].type = "HEADER" /\ s[1].from = 0 /\ s[1].state = "COMPLETE"
       /\ 1 \in 1 .. N - 1
  BY <1>1, <1>2 DEF Linked, N
<1>12. t[1] = s[1]
  BY <1>8, <1>11
<1> HIDE DEF t
<1>13. Linked(t)
  <2>1. Len(t) >= 1
    BY <1>1, <1>2, <1>7
  <2>2. \A i \in 1 .. Len(t) : t[i].from <= t[i].to
    BY <1>4, <1>7, <1>8, <1>9
  <2>3. ASSUME NEW i \in 2 .. Len(t)
        PROVE  /\ t[i].from = t[i - 1].to /\ t[i].type # "HEADER"
               /\ t[i].type = "TRAILER" => i >= 3
    <3>1. i \in 2 .. N /\ i \in 1 .. N - 1 /\ i - 1 \in 1 .. N - 1
      BY <1>1, <1>7
    <3>2. t[i] = s[i] /\ t[i - 1] = s[i - 1]
      BY <1>8, <3>1
    <3> QED BY <1>10, <3>1, <3>2
  <2> QED BY <1>11, <1>12, <2>1, <2>2, <2>3 DEF Linked
<1>14. Current(q) = s[N - 1]
  <2>1. N - 1 \in 1 .. N - 1
    BY <1>1, <1>2
  <2>2. Current(q) = t[N - 1]
    BY <1>7 DEF Current, Last, t
  <2> QED BY <1>8, <2>1, <2>2
<1>15. s[N - 1].to <= s[N].to
  <2>1. N \in 1 .. N /\ N \in 2 .. N
    BY <1>1, <1>2
  <2> QED BY <1>9, <1>10, <2>1
<1>16. Whole(q)
  BY <1>13 DEF Whole, t
<1> QED BY <1>1, <1>7, <1>12, <1>14, <1>15, <1>16 DEF s, N, t

(* _parseNode, second half: a message ends with its header only if it is a *)
(* request.                                                                *)
LEMMA CompleteNodeIs ==
  ASSUME Placed, NEW m, Whole(m), Fits(Current(m)),
         m.state # "INCOMPLETE" => Len(m.chain) > 1,
         NEW q, q = CompleteNode(m)
  PROVE  /\ Whole(q) /\ Current(q).to <= Current(m).to
         /\ q.chain[1].to = m.chain[1].to
         /\ q.chain[1].state = m.chain[1].state
         /\ Len(m.chain) > 1 => Len(q.chain) > 1
         /\ q.state = "INCOMPLETE" =>
              Current(q).to = Current(m).to /\ Fits(Current(q))
         /\ q.state # "INCOMPLETE" =>
              \/ Len(q.chain) > 1
              \/ stream.request /\ q.chain[1].state = "COMPLETE"
<1> DEFINE n == Current(m)
           N == Len(m.chain)
           h == HeaderInfo(m)
           complete == [m EXCEPT !.state = "COMPLETE"]
           headed == [h EXCEPT !.state = IF EndsWithHeader(h)
                                         THEN "COMPLETE" ELSE @]
           short == [complete EXCEPT !.chain = Front(@), !.trailer = FALSE]
<1>1. /\ n \in NodeRec /\ n.from <= n.to /\ n = m.chain[N]
      /\ N \in Nat \ {0} /\ (n.type = "HEADER" <=> N = 1)
      /\ n.type = "TRAILER" => N >= 3
  BY WholeIs
<1>2. m \in MessageRec
  BY DEF Whole
<1>3. /\ complete \in MessageRec /\ complete.chain = m.chain
      /\ complete.state = "COMPLETE"
  BY <1>2 DEF MessageRec
<1>4. Whole(complete) /\ Current(complete) = n
  BY <1>3, SameChain
<1>5. /\ n.to \in Nat /\ n.to <= n.to
  BY <1>1 DEF NodeRec
<1>6. CASE q = m
  BY <1>1, <1>5, <1>6
<1>7. CASE q = complete /\ n.type # "HEADER"
  <2>1. N > 1
    <3> HIDE DEF N
    <3> QED BY <1>1, <1>7
  <2> QED BY <1>3, <1>4, <1>5, <1>7, <2>1
<1>8. CASE n.state = "COMPLETE" /\ n.type = "HEADER"
  <2> DEFINE e == [n EXCEPT !.bodySize = stream.length]
             d == SetCurrent(m, e)
  <2>1. q = headed
    BY <1>8, Zenon DEF CompleteNode
  <2>2. stream.length \in Nat /\ stream.chunked \in BOOLEAN
        /\ stream.trailer \in BOOLEAN
    BY StreamIs DEF Placed
  <2>3. e \in NodeRec
    BY <1>1, <2>2 DEF NodeRec
  <2>4. /\ e.from = n.from /\ e.to = n.to /\ e.type = n.type
        /\ e.state = n.state /\ e.chunkHeader = n.chunkHeader
        /\ e.chunkHeaderSize = n.chunkHeaderSize /\ e.chunkSize = n.chunkSize
        /\ e.scan = n.scan
    BY <1>1 DEF NodeRec
  <2>5. h = [d EXCEPT !.header = TRUE, !.chunked = stream.chunked,
                      !.trailer = stream.trailer]
    BY Zenon DEF HeaderInfo
  <2> HIDE DEF e
  <2>6. Grows(n, e)
    BY <1>1, <2>3, <2>4 DEF Grows
  <2>7. Whole(d) /\ Current(d) = e /\ Len(d.chain) = N /\ d.state = m.state
    BY <2>6, SetCurrentIs
  <2> HIDE DEF d
  <2>8. d \in MessageRec
    BY <2>7 DEF Whole
  <2>9. h \in MessageRec /\ h.chain = d.chain
    BY <2>2, <2>5, <2>8 DEF MessageRec
  <2> HIDE DEF h
  <2>10. /\ q \in MessageRec /\ q.chain = d.chain
         /\ q.state = IF EndsWithHeader(h) THEN "COMPLETE" ELSE h.state
    BY <2>1, <2>9 DEF MessageRec
  <2>11. Whole(q) /\ Current(q) = e
    BY <2>7, <2>10, SameChain
  <2>12. N = 1
    BY <1>1, <1>8
  <2>13. q.chain[1] = e /\ m.chain[1] = n
    BY <1>1, <2>7, <2>10, <2>12, Zenon DEF Current, Last
  <2>14. Fits(e)
    BY <1>8, <2>4 DEF Fits, Length
  <2>15. EndsWithHeader(h) => stream.request
    BY DEF EndsWithHeader
  <2>16. h.state = m.state
    BY <2>5, <2>7, <2>8, <2>2 DEF MessageRec
  <2>17. ~(N > 1)
    <3> HIDE DEF N
    <3> QED BY <2>12
  <2>18. q.chain[1].to = m.chain[1].to /\ q.chain[1].state = m.chain[1].state
    BY <2>4, <2>13
  <2>19. q.state = "INCOMPLETE" \/ m.state # "INCOMPLETE" \/ stream.request
    BY <2>10, <2>15, <2>16
  <2>20. Current(q).to = n.to /\ Fits(Current(q))
    BY <2>4, <2>11, <2>14
  <2>21. m.state = "INCOMPLETE"
    BY <2>17
  <2>22. q.state # "INCOMPLETE" =>
           stream.request /\ q.chain[1].state = "COMPLETE"
    BY <1>8, <2>4, <2>13, <2>19, <2>21
  <2>23. Current(q).to <= Current(m).to
    BY <1>5, <2>20
  <2>24. ~(Len(m.chain) > 1)
    BY <2>17
  <2> QED BY <2>11, <2>18, <2>20, <2>22, <2>23, <2>24, Zenon
<1>9. CASE n.state = "COMPLETE" /\ n.type = "TRAILER"
  <2>1. q = short
    BY <1>9, Zenon DEF CompleteNode
  <2>2. N >= 3
    BY <1>1, <1>9
  <2>3. m.chain \in Seq(NodeRec) /\ \A i \in 1 .. N : m.chain[i] \in NodeRec
    BY WholeIs
  <2>4. Front(m.chain) \in Seq(NodeRec)
    <3> DEFINE s == m.chain
    <3>1. 1 \in Int /\ N - 1 \in Int /\ \A i \in 1 .. N - 1 : s[i] \in NodeRec
      BY <1>1, <2>3
    <3>2. Front(s) = SubSeq(s, 1, N - 1)
      BY Zenon DEF Front
    <3> HIDE DEF s, N
    <3> QED BY <3>1, <3>2, SubSeqProperties DEF s
  <2>5. /\ q \in MessageRec /\ q.chain = Front(m.chain)
        /\ q.state = "COMPLETE"
    BY <1>2, <2>1, <2>4 DEF MessageRec
  <2>6. /\ Whole(q) /\ Len(q.chain) = N - 1 /\ Current(q).to <= n.to
        /\ q.chain[1] = m.chain[1]
    BY <2>2, <2>5, FrontIs
  <2>7. Len(q.chain) > 1
    BY <1>1, <2>2, <2>6
  <2> QED BY <2>5, <2>6, <2>7
<1>10. CASE ~(n.state = "COMPLETE" /\ n.type \in {"HEADER", "TRAILER"})
  <2>1. CASE n.state # "COMPLETE"
    <3>1. q = m
      BY <2>1, Zenon DEF CompleteNode
    <3> QED BY <1>6, <3>1
  <2>2. CASE n.state = "COMPLETE"
    <3>1. n.type # "HEADER" /\ n.type # "TRAILER"
      BY <1>10, <2>2
    <3>2. q = m \/ q = complete
      BY <2>2, <3>1, Zenon DEF CompleteNode
    <3> QED BY <1>6, <1>7, <3>1, <3>2
  <2> QED BY <2>1, <2>2
<1> QED BY <1>8, <1>9, <1>10

(* A message that is being received.                                       *)
Underway(m) ==
  Whole(m) /\ Current(m).to = pos /\ Fits(Current(m))

(* One pass of the loop of bufferToNodes.                                  *)
LEMMA PassIs ==
  ASSUME Placed, Underway(msg), Pass
  PROVE  /\ Placed' /\ pos <= pos'
         /\ Whole(msg') /\ Current(msg').to <= pos'
         /\ msg'.state = "INCOMPLETE" =>
              Current(msg').to = pos' /\ Fits(Current(msg'))
         /\ msg'.chain[1].to > 0 \/ msg'.chain[1].state = "COMPLETE"
         /\ msg.chain[1].state = "COMPLETE" => Len(msg'.chain) > 1
         /\ msg'.state # "INCOMPLETE" =>
              \/ Len(msg'.chain) > 1
              \/ stream.request /\ msg'.chain[1].state = "COMPLETE"
<1>1. /\ pos < got /\ msg.state = "INCOMPLETE"
      /\ pos \in Nat /\ got \in Nat
      /\ UNCHANGED <<stream, got, start, before>>
  <2>1. pos # got /\ msg.state = "INCOMPLETE"
    BY DEF Pass, Consumed
  <2>2. pos \in Nat /\ got \in Nat /\ pos <= got
    BY StreamIs DEF Placed
  <2> QED BY <2>1, <2>2 DEF Pass
<1> DEFINE a == AddNewNode(msg)
           k == Current(a)
           n == ConcatString(k)
           b == SetCurrent(a, n)
           m == SetNodeComplete(b)
<1>19. PICK unset \in Unset :
        pos' = n.to /\ msg' = CompleteNode(ReadChunkHeader(m, unset))
  BY Zenon DEF Pass, ParseNode
<1> DEFINE r == ReadChunkHeader(m, unset)
           q == CompleteNode(r)
<1>2. pos' = n.to /\ msg' = q
  BY <1>19
<1>3. /\ Whole(a) /\ a.state = "INCOMPLETE"
      /\ AtEdge(k) /\ Fits(k) /\ k.state = "INCOMPLETE"
      /\ msg.chain[1].state = "COMPLETE" =>
           Len(a.chain) > 1 /\ a.chain[1].state = "COMPLETE"
  BY <1>1, AddNewNodeIs DEF Underway
<1> DEFINE L == Len(a.chain)
<1>4. L \in Nat \ {0} /\ (k.type = "HEADER" <=> L = 1)
  BY <1>3, WholeIs
<1>18. L > 1 <=> L # 1
  <2> HIDE DEF L
  <2> QED BY <1>4
<1> HIDE DEF a, k, L
<1>5. /\ n \in NodeRec /\ n.from = k.from /\ n.to \in pos .. got
      /\ n.from <= n.to /\ n.type = k.type
      /\ n.state = "COMPLETE" => k.type \in {"HEADER", "TRAILER"}
      /\ Fits(n)
      /\ n.type = "HEADER" => n.from < n.to \/ n.state = "COMPLETE"
  BY <1>1, <1>3, ConcatIs
<1> HIDE DEF n
<1>6. Grows(k, n)
  BY <1>5 DEF Grows
<1>7. /\ Whole(b) /\ Current(b) = n /\ Len(b.chain) = L
      /\ b.state = "INCOMPLETE"
  BY <1>3, <1>6, SetCurrentIs DEF k, L
<1> HIDE DEF b
<1>8. Looked(b, m) /\ Marked(Current(m))
  BY <1>5, <1>7, SetNodeCompleteIs
<1> HIDE DEF m
<1>9. Whole(m) /\ Current(m).to <= got
  BY <1>1, <1>5, <1>7, <1>8 DEF Looked
<1>10. Looked(m, r) /\ Fits(Current(r))
  BY <1>8, <1>9, ReadChunkHeaderIs
<1> HIDE DEF r
<1>11. /\ Whole(r) /\ Current(r).to = n.to /\ Len(r.chain) = L
       /\ n.state = "COMPLETE" => Current(r).state = "COMPLETE"
  BY <1>7, <1>8, <1>10 DEF Looked
<1>12. r.state # "INCOMPLETE" => Len(r.chain) > 1
  <2> SUFFICES ASSUME r.state # "INCOMPLETE", ~(L > 1) PROVE FALSE
    BY <1>11
  <2>1. L = 1 /\ Len(b.chain) = 1 /\ Len(m.chain) = 1
    BY <1>7, <1>8, <1>18 DEF Looked
  <2>2. Current(b).type = "HEADER" /\ Current(m).type = "HEADER"
    BY <1>7, <1>9, <2>1, WholeIs
  <2>3. m.state = "INCOMPLETE"
    BY <1>7, <1>8, <2>2 DEF Looked
  <2> QED BY <1>10, <2>2, <2>3 DEF Looked
<1>13. /\ Whole(q) /\ Current(q).to <= Current(r).to
       /\ q.chain[1].to = r.chain[1].to
       /\ q.chain[1].state = r.chain[1].state
       /\ Len(r.chain) > 1 => Len(q.chain) > 1
       /\ q.state = "INCOMPLETE" =>
            Current(q).to = Current(r).to /\ Fits(Current(q))
       /\ q.state # "INCOMPLETE" =>
            \/ Len(q.chain) > 1
            \/ stream.request /\ q.chain[1].state = "COMPLETE"
  BY <1>10, <1>11, <1>12, CompleteNodeIs
<1>14. r.chain[1].to > 0 \/ r.chain[1].state = "COMPLETE"
  <2>1. CASE Len(r.chain) = 1
    <3>1. n.type = "HEADER"
      BY <1>4, <1>5, <1>11, <2>1
    <3>2. r.chain[1] = Current(r)
      BY <2>1, Zenon DEF Current, Last
    <3>3. n.from \in Nat /\ n.to \in Nat
      BY <1>5 DEF NodeRec
    <3> QED BY <1>5, <1>11, <3>1, <3>2, <3>3
  <2>2. CASE Len(r.chain) # 1
    <3>1. Len(r.chain) > 1
      BY <1>11, <1>18, <2>2
    <3> QED BY <1>11, <3>1 DEF Whole, Linked
  <2> QED BY <2>1, <2>2
<1> HIDE DEF q
<1>15. Placed' /\ pos <= pos'
  BY <1>1, <1>2, <1>5 DEF Placed
<1>16. stream' = stream
  BY <1>1
<1> QED BY <1>2, <1>3, <1>5, <1>11, <1>12, <1>13, <1>14, <1>15 DEF L

-----------------------------------------------------------------------------
(* The invariant.                                                          *)

FInv ==
  /\ Placed /\ Whole(msg) /\ Whole(before)
  /\ Current(msg).to <= pos /\ Current(before).to <= pos
  /\ msg.state = "INCOMPLETE" => Underway(msg)
  /\ before.chain[1].state = "COMPLETE" => msg.chain[1].state = "COMPLETE"

LEMMA InitFraming == Init => FInv
<1> SUFFICES ASSUME Init PROVE FInv
  OBVIOUS
<1> DEFINE n == NewNode("HEADER", 0, 0)
           m == NewMessage
<1>1. stream \in Streams /\ got = 0 /\ start = 0 /\ pos = 0
      /\ msg = m /\ before = m
  BY DEF Init
<1>2. Placed
  BY <1>1, StreamIs DEF Placed
<1>3. "HEADER" \in NodeTypes /\ 0 \in Nat
  BY DEF NodeTypes
<1>4. n = NewNode("HEADER", 0, pos)
  BY <1>1
<1>5. /\ n \in NodeRec /\ n.type = "HEADER" /\ n.state = "INCOMPLETE"
      /\ n.from = pos /\ AtEdge(n) /\ Fits(n)
  BY <1>2, <1>3, <1>4, NewNodeIs
<1>6. /\ m.chain = <<n>> /\ m.state = "INCOMPLETE" /\ m.bodySize = 0
      /\ m.header = FALSE /\ m.chunked = FALSE /\ m.trailer = FALSE
      /\ m = [state |-> "INCOMPLETE", header |-> FALSE, chunked |-> FALSE,
              trailer |-> FALSE, bodySize |-> 0, chain |-> <<n>>]
  BY DEF NewMessage
<1> HIDE DEF n, m
<1>7. <<n>> \in Seq(NodeRec) /\ Len(<<n>>) = 1 /\ <<n>>[1] = n
  BY <1>5
<1>8. m \in MessageRec
  BY <1>6, <1>7 DEF MessageRec
<1>9. Linked(m.chain)
  BY <1>1, <1>5, <1>6, <1>7 DEF Linked, AtEdge
<1>10. Current(m) = n
  BY <1>6, <1>7 DEF Current, Last
<1>11. Whole(m) /\ Underway(m)
  BY <1>5, <1>8, <1>9, <1>10 DEF Whole, Underway, AtEdge
<1>12. pos <= pos
  BY <1>1
<1> QED BY <1>1, <1>2, <1>5, <1>10, <1>11, <1>12 DEF FInv, AtEdge

LEMMA NextFraming == FInv /\ [Next]_vars => FInv'
<1> SUFFICES ASSUME FInv, [Next]_vars PROVE FInv'
  OBVIOUS
<1> USE DEF FInv
<1>0. pos \in Nat /\ got \in Nat /\ pos <= got
  BY StreamIs DEF Placed
<1>1. ASSUME UNCHANGED <<stream, msg, pos>>
      PROVE  /\ Whole(msg)' /\ Current(msg)'.to <= pos'
             /\ (msg.state = "INCOMPLETE" => Underway(msg))'
  BY <1>1 DEF Whole, Current, Underway, Fits, Length
<1>2. CASE ReceiveBuffer
  <2>1. /\ start' = got /\ before' = msg /\ UNCHANGED <<stream, pos, msg>>
        /\ msg.state = "INCOMPLETE"
        /\ Consumed
    BY <1>2 DEF ReceiveBuffer
  <2>2. pos = got
    BY <2>1 DEF Consumed
  <2>3. PICK n \in 1 .. Min({MaxLine, Len(stream.bytes) - got}) :
           got' = got + n
    BY <1>2 DEF ReceiveBuffer
  <2> DEFINE T == {MaxLine, Len(stream.bytes) - got}
  <2>4. T \subseteq Nat /\ T # {}
    BY StreamIs, MaxLineAssumption, <1>0 DEF Placed
  <2>5. Len(stream.bytes) - got \in T
    OBVIOUS
  <2> HIDE DEF T
  <2>6. Min(T) \in Nat /\ Min(T) <= Len(stream.bytes) - got
    BY <2>4, <2>5, MinIsLeast
  <2>7. n \in 1 .. Min(T)
    BY <2>3 DEF T
  <2>8. got' \in 0 .. Len(stream.bytes) /\ got' >= got
    BY <1>0, <2>3, <2>6, <2>7, StreamIs DEF Placed
  <2>9. Placed'
    BY <1>0, <2>1, <2>2, <2>8 DEF Placed
  <2>10. Whole(before)' /\ Current(before)'.to <= pos'
    BY <2>1, <1>1 DEF Whole, Current
  <2>11. (before.chain[1].state = "COMPLETE" =>
            msg.chain[1].state = "COMPLETE")'
    BY <2>1
  <2> QED BY <1>1, <2>1, <2>9, <2>10, <2>11
<1>3. CASE Pass
  <2>1. /\ msg.state = "INCOMPLETE" /\ Underway(msg)
        /\ UNCHANGED <<stream, got, start, before>>
    BY <1>3 DEF Pass, Consumed
  <2>2. /\ Placed' /\ pos <= pos'
        /\ Whole(msg') /\ Current(msg').to <= pos'
        /\ msg'.state = "INCOMPLETE" =>
              Current(msg').to = pos' /\ Fits(Current(msg'))
        /\ msg.chain[1].state = "COMPLETE" => Len(msg'.chain) > 1
    BY <1>3, <2>1, PassIs
  <2>3. Whole(msg)' /\ Current(msg)'.to <= pos'
    BY <2>2 DEF Whole, Current
  <2>4. (msg.state = "INCOMPLETE" => Underway(msg))'
    BY <2>1, <2>2, <2>3 DEF Underway, Fits, Current, Length
  <2>5. Whole(before)'
    BY <2>1 DEF Whole
  <2>6. Current(before)'.to <= pos'
    <3>1. Current(before)' = Current(before) /\ Current(before) \in NodeRec
      BY <2>1, WholeIs DEF Current
    <3>2. pos <= pos' /\ pos' \in Nat
      <4>1. /\ pos' \in start' .. got' /\ start' \in 0 .. got'
            /\ got' \in 0 .. Len(stream'.bytes)
        BY <2>2 DEF Placed
      <4>2. start' \in Nat /\ got' \in Nat
        BY <4>1
      <4> QED BY <2>2, <4>1, <4>2
    <3> QED BY <1>0, <3>1, <3>2 DEF NodeRec
  <2>7. (before.chain[1].state = "COMPLETE" =>
           msg.chain[1].state = "COMPLETE")'
    BY <2>1, <2>2 DEF Whole, Linked
  <2> QED BY <2>2, <2>3, <2>4, <2>5, <2>6, <2>7
<1>4. CASE EndOfStream
  <2> DEFINE n == [msg.chain[1] EXCEPT !.state = "COMPLETE"]
             t == [msg.chain EXCEPT ![1] = n]
             N == Len(msg.chain)
  <2>1. /\ msg.state = "INCOMPLETE"
        /\ UNCHANGED <<stream, got, start, pos, before>>
        /\ msg' = [msg EXCEPT !.state = "COMPLETE", !.header = TRUE,
                              !.chain[1].state = "COMPLETE"]
    BY <1>4 DEF EndOfStream
  <2>2. msg' = [msg EXCEPT !.state = "COMPLETE", !.header = TRUE, !.chain = t]
    BY <2>1, Zenon
  <2>3. /\ msg.chain \in Seq(NodeRec) /\ N \in Nat \ {0}
        /\ \A i \in 1 .. N : msg.chain[i] \in NodeRec
        /\ Current(msg) = msg.chain[N]
    BY WholeIs
  <2>4. 1 \in 1 .. N
    <3> HIDE DEF N
    <3> QED BY <2>3
  <2>5. n \in NodeRec
    BY <2>3, <2>4 DEF NodeRec, NodeStates
  <2>6. /\ n.from = msg.chain[1].from /\ n.to = msg.chain[1].to
        /\ n.type = msg.chain[1].type /\ n.state = "COMPLETE"
    BY <2>3, <2>4 DEF NodeRec
  <2> HIDE DEF n
  <2>7. /\ t \in Seq(NodeRec) /\ Len(t) = N
        /\ \A i \in 1 .. N : t[i] = IF i = 1 THEN n ELSE msg.chain[i]
    BY <2>3, <2>4, <2>5, ExceptSeq
  <2>8. t[1] = n
    BY <2>4, <2>7
  <2>9. \A i \in 1 .. N : /\ t[i].from = msg.chain[i].from
                          /\ t[i].to = msg.chain[i].to
                          /\ t[i].type = msg.chain[i].type
    BY <2>6, <2>7
  <2> HIDE DEF t
  <2>10. /\ msg' \in MessageRec /\ msg'.chain = t /\ msg'.state = "COMPLETE"
    BY <2>2, <2>7 DEF Whole, MessageRec
  <2>11. Linked(t)
    <3>1. Linked(msg.chain)
      BY DEF Whole
    <3>2. \A i \in 2 .. N : i \in 1 .. N /\ i - 1 \in 1 .. N
      <4> HIDE DEF N
      <4> QED BY <2>3
    <3>3. Len(t) >= 1
      BY <3>1, <2>7 DEF Linked
    <3>4. t[1].type = "HEADER" /\ t[1].from = 0
      BY <3>1, <2>6, <2>8 DEF Linked
    <3>5. \A i \in 1 .. N : t[i].from <= t[i].to
      BY <3>1, <2>9 DEF Linked
    <3>6. \A i \in 2 .. N : /\ t[i].from = t[i - 1].to
                            /\ t[i].type # "HEADER"
                            /\ t[i].type = "TRAILER" => i >= 3
      BY <3>1, <3>2, <2>9 DEF Linked
    <3> QED BY <2>6, <2>7, <2>8, <3>3, <3>4, <3>5, <3>6 DEF Linked
  <2>12. Current(msg').to = Current(msg).to
    <3>1. N \in 1 .. N
      <4> HIDE DEF N
      <4> QED BY <2>3
    <3>2. Current(msg') = t[N]
      BY <2>7, <2>10, Zenon DEF Current, Last
    <3> QED BY <2>3, <2>9, <3>1, <3>2
  <2>13. Whole(msg)' /\ Current(msg)'.to <= pos'
    BY <2>1, <2>10, <2>11, <2>12 DEF Whole, Current
  <2>14. Whole(before)' /\ Current(before)'.to <= pos' /\ Placed'
    BY <2>1 DEF Whole, Current, Placed
  <2>15. (before.chain[1].state = "COMPLETE" =>
            msg.chain[1].state = "COMPLETE")'
    BY <2>6, <2>8, <2>10
  <2> QED BY <2>10, <2>13, <2>14, <2>15
<1>5. CASE UNCHANGED vars
  <2>1. UNCHANGED <<stream, got, start, pos, msg, before>>
    BY <1>5 DEF vars
  <2>2. Placed' /\ Whole(before)' /\ Current(before)'.to <= pos'
    BY <2>1 DEF Placed, Whole, Current
  <2>3. (before.chain[1].state = "COMPLETE" =>
           msg.chain[1].state = "COMPLETE")'
    BY <2>1
  <2> QED BY <1>1, <2>1, <2>2, <2>3
<1> QED BY <1>2, <1>3, <1>4, <1>5 DEF Next

LEMMA TypeOfFraming == FInv => TypeOK
<1> SUFFICES ASSUME FInv PROVE TypeOK
  OBVIOUS
<1>1. /\ stream \in Streams
      /\ start \in 0 .. got /\ pos \in start .. got
      /\ got \in 0 .. Len(stream.bytes)
  BY DEF FInv, Placed
<1>2. ASSUME NEW m, Whole(m), Current(m).to <= pos
      PROVE  /\ m.state \in {"INCOMPLETE", "COMPLETE", "ERROR"}
             /\ {m.header, m.chunked, m.trailer} \subseteq BOOLEAN
             /\ m.bodySize \in Nat
             /\ m.chain # <<>> /\ m.chain[1].from = 0
             /\ Last(m.chain).to <= pos
             /\ \A i \in DOMAIN m.chain :
                  /\ m.chain[i] \in NodeRec /\ m.chain[i].from <= m.chain[i].to
                  /\ i > 1 => m.chain[i].from = m.chain[i - 1].to
  <2> DEFINE N == Len(m.chain)
  <2>1. /\ m.chain \in Seq(NodeRec) /\ N \in Nat \ {0}
        /\ \A i \in 1 .. N : m.chain[i] \in NodeRec
    BY <1>2, WholeIs
  <2>2. m \in MessageRec /\ Linked(m.chain)
    BY <1>2 DEF Whole
  <2>3. DOMAIN m.chain = 1 .. N
    BY <2>1, LenProperties
  <2>4. m.chain # <<>>
    BY <2>1
  <2>5. Last(m.chain).to <= pos
    BY <1>2 DEF Current
  <2>6. \A i \in 1 .. N : i > 1 => i \in 2 .. N
    <3> HIDE DEF N
    <3> QED BY <2>1
  <2>7. ASSUME NEW i \in DOMAIN m.chain
        PROVE  /\ m.chain[i] \in NodeRec /\ m.chain[i].from <= m.chain[i].to
               /\ i > 1 => m.chain[i].from = m.chain[i - 1].to
    BY <2>1, <2>2, <2>3, <2>6 DEF Linked
  <2>8. /\ m.state \in {"INCOMPLETE", "COMPLETE", "ERROR"}
        /\ m.header \in BOOLEAN /\ m.chunked \in BOOLEAN
        /\ m.trailer \in BOOLEAN
        /\ m.bodySize \in Nat
    BY <2>2 DEF MessageRec
  <2> QED BY <2>2, <2>4, <2>5, <2>7, <2>8 DEF Linked
<1>3. \A m \in {msg, before} : Whole(m) /\ Current(m).to <= pos
  BY DEF FInv
<1> QED BY <1>1, <1>2, <1>3 DEF TypeOK

(* Whatever the stream and however it is cut, the nodes follow one another *)
(* without gap or overlap, none reaches behind the bytes received, and no  *)
(* size or offset of _setBtr, _calcBtr and _calcChunkSize is negative.     *)
THEOREM FramingTypeCorrect == Spec => []TypeOK
<1>1. Spec => []FInv
  BY InitFraming, NextFraming, PTL DEF Spec
<1> QED BY <1>1, TypeOfFraming, PTL

LEMMA PassIsParsed ==
  ASSUME FInv, Pass
  PROVE  View(msg') \in Server!Parsed(View(before), IF stream.request
                                                      THEN "REQ_MSG"
                                                      ELSE "RESP_MSG")
<1> DEFINE p == View(msg')
           b == View(before)
           kind == IF stream.request THEN "REQ_MSG" ELSE "RESP_MSG"
<1>1. msg.state = "INCOMPLETE" /\ Underway(msg) /\ Placed
  BY DEF Pass, Consumed, FInv
<1>2. /\ Whole(msg')
      /\ msg'.chain[1].to > 0 \/ msg'.chain[1].state = "COMPLETE"
      /\ msg.chain[1].state = "COMPLETE" => Len(msg'.chain) > 1
      /\ msg'.state # "INCOMPLETE" =>
           \/ Len(msg'.chain) > 1
           \/ stream.request /\ msg'.chain[1].state = "COMPLETE"
  BY <1>1, PassIs
<1>3. Len(msg'.chain) > 1 => msg'.chain[1].state = "COMPLETE"
  BY <1>2 DEF Whole, Linked
<1>4. msg'.chain[1].to # 0 \/ msg'.chain[1].state = "COMPLETE"
  BY <1>2
<1>5. msg'.state \in {"INCOMPLETE", "COMPLETE", "ERROR"}
  BY <1>2 DEF Whole, MessageRec
<1>6. before.chain[1].state = "COMPLETE" => msg.chain[1].state = "COMPLETE"
  BY DEF FInv
<1>7. /\ p.head = IF msg'.chain[1].state = "COMPLETE" THEN "complete"
                  ELSE IF msg'.chain[1].to = 0 THEN "empty" ELSE "partial"
      /\ p.state = msg'.state /\ p.body = (Len(msg'.chain) > 1)
      /\ p = [head |-> p.head, state |-> p.state, body |-> p.body]
  BY DEF View
<1>8. b.head = IF before.chain[1].state = "COMPLETE" THEN "complete"
               ELSE IF before.chain[1].to = 0 THEN "empty" ELSE "partial"
  BY DEF View
<1> HIDE DEF p, b
<1>9. p \in Server!ParseResult
  <2>1. p.head \in Server!HeadStates
    BY <1>7 DEF Server!HeadStates
  <2>2. p.state \in Server!MsgStates
    BY <1>5, <1>7 DEF Server!MsgStates
  <2>3. (Len(msg'.chain) > 1) \in BOOLEAN
    OBVIOUS
  <2>4. p.body \in BOOLEAN
    BY <1>7, <2>3, Zenon
  <2>5. p = [head |-> p.head, state |-> p.state, body |-> p.body]
    BY <1>7
  <2> QED BY <2>1, <2>2, <2>4, <2>5, Zenon DEF Server!ParseResult
<1>10. p.head \in {"partial", "complete"} /\ b.head # "bad"
  BY <1>4, <1>7, <1>8
<1>11. b.head = "complete" => p.head = "complete" /\ p.body
  BY <1>2, <1>3, <1>6, <1>7, <1>8
<1>12. p.head # "complete" => p.state = "INCOMPLETE" /\ ~p.body
  BY <1>2, <1>3, <1>7
<1>13. kind = "RESP_MSG" => (p.state # "INCOMPLETE" => p.body)
  BY <1>2, <1>7
<1> HIDE DEF kind
<1>14. p \in Server!Parsed(b, kind)
  BY <1>9, <1>10, <1>11, <1>12, <1>13 DEF Server!Parsed
<1> QED BY <1>14 DEF p, b, kind

(* One buffer full of bytes, taken in any number of passes, leaves the     *)
(* message as Client!Parsed says: a header once complete stays so and is   *)
(* followed by a body, nothing follows one that is not, only a request can *)
(* end with its header, and some byte was taken.  Module Webserv, and with *)
(* it every theorem about it, rests on this.                               *)
THEOREM BuffersDoWhatClientAllows == Spec => ResultsAreParsed
<1>1. Spec => []FInv
  BY InitFraming, NextFraming, PTL DEF Spec
<1>2. FInv /\ [Next]_vars =>
        [Pass /\ Consumed' =>
           View(msg') \in Server!Parsed(View(before), IF stream.request
                                                        THEN "REQ_MSG"
                                                        ELSE "RESP_MSG")]_vars
  BY PassIsParsed
<1> QED BY <1>1, <1>2, PTL DEF Spec, ResultsAreParsed

-----------------------------------------------------------------------------
(* Strings byte by byte.                                                   *)

LEMMA PieceIs ==
  ASSUME NEW s \in Seq(Bytes), NEW a \in Nat, NEW b \in Nat,
         a <= b, b <= Len(s)
  PROVE  /\ SubSeq(s, a + 1, b) \in Seq(Bytes)
         /\ Len(SubSeq(s, a + 1, b)) = b - a
         /\ \A j \in 1 .. b - a : SubSeq(s, a + 1, b)[j] = s[a + j]
<1> DEFINE t == SubSeq(s, a + 1, b)
<1>1. a + 1 \in Int /\ b \in Int /\ Len(s) \in Nat
  BY LenProperties
<1>2. \A i \in a + 1 .. b : s[i] \in Bytes
  <2>1. \A i \in a + 1 .. b : i \in 1 .. Len(s)
    BY <1>1
  <2> QED BY <2>1, ElementOfSeq
<1>3. /\ t \in Seq(Bytes)
      /\ Len(t) = IF a + 1 <= b THEN b - (a + 1) + 1 ELSE 0
      /\ \A i \in 1 .. b - (a + 1) + 1 : t[i] = s[(a + 1) + i - 1]
  <2>1. a + 1 \in Int /\ b \in Int
    BY <1>1
  <2> QED BY <1>2, <2>1, SubSeqProperties
<1> HIDE DEF t
<1>4. Len(t) = b - a
  BY <1>3
<1>5. ASSUME NEW j \in 1 .. b - a PROVE t[j] = s[a + j]
  <2>1. j \in 1 .. b - (a + 1) + 1 /\ (a + 1) + j - 1 = a + j
    OBVIOUS
  <2> QED BY <1>3, <2>1
<1> QED BY <1>3, <1>4, <1>5 DEF t

LEMMA SameString ==
  ASSUME NEW s \in Seq(Bytes), NEW t \in Seq(Bytes)
  PROVE  s = t <=> Len(s) = Len(t) /\ \A j \in 1 .. Len(s) : s[j] = t[j]
BY SeqEqual

LEMMA PrefixIs ==
  ASSUME NEW s \in Seq(Bytes), NEW t \in Seq(Bytes)
  PROVE  IsPrefix(t, s) <=> /\ Len(t) <= Len(s)
                            /\ \A j \in 1 .. Len(t) : t[j] = s[j]
<1> DEFINE k == Len(t)
<1>1. k \in Nat /\ Len(s) \in Nat
  BY LenProperties
<1>2. IsPrefix(t, s) <=> k <= Len(s) /\ SubSeq(t, 1, k) = SubSeq(s, 1, k)
  BY Zenon DEF IsPrefix
<1>3. ASSUME k <= Len(s)
      PROVE  SubSeq(t, 1, k) = SubSeq(s, 1, k) <=>
               \A j \in 1 .. k : t[j] = s[j]
  <2> DEFINE x == SubSeq(t, 0 + 1, k)
             y == SubSeq(s, 0 + 1, k)
  <2>1. k <= Len(t) /\ 0 <= k
    BY <1>1
  <2>2. /\ x \in Seq(Bytes) /\ Len(x) = k - 0
        /\ \A j \in 1 .. k - 0 : x[j] = t[0 + j]
    BY <1>1, <2>1, PieceIs
  <2>3. /\ y \in Seq(Bytes) /\ Len(y) = k - 0
        /\ \A j \in 1 .. k - 0 : y[j] = s[0 + j]
    BY <1>1, <1>3, <2>1, PieceIs
  <2>4. SubSeq(t, 1, k) = x /\ SubSeq(s, 1, k) = y
    OBVIOUS
  <2> HIDE DEF x, y, k
  <2>5. \A j \in 1 .. k : x[j] = t[j] /\ y[j] = s[j]
    BY <1>1, <2>2, <2>3
  <2>6. Len(x) = k /\ Len(y) = k
    BY <1>1, <2>2, <2>3
  <2>7. x = y <=> \A j \in 1 .. k : x[j] = y[j]
    BY <2>2, <2>3, <2>6, SameString
  <2> QED BY <2>4, <2>5, <2>7
<1> QED BY <1>2, <1>3 DEF k

LEMMA SuffixIs ==
  ASSUME NEW s \in Seq(Bytes), NEW t \in Seq(Bytes)
  PROVE  IsSuffix(t, s) <=>
           /\ Len(t) <= Len(s)
           /\ \A j \in 1 .. Len(t) : t[j] = s[Len(s) - Len(t) + j]
<1> DEFINE k == Len(t)
           n == Len(s)
           u == Reverse(t)
           v == Reverse(s)
<1>1. k \in Nat /\ n \in Nat
  BY LenProperties
<1>2. u \in Seq(Bytes) /\ Len(u) = k /\ v \in Seq(Bytes) /\ Len(v) = n
  BY ReverseIs
<1>3. /\ \A i \in 1 .. k : u[i] = t[(k - i) + 1]
      /\ \A i \in 1 .. n : v[i] = s[(n - i) + 1]
  <2>1. /\ u = [i \in 1 .. k |-> t[(k - i) + 1]]
        /\ v = [i \in 1 .. n |-> s[(n - i) + 1]]
    BY Zenon DEF Reverse
  <2> HIDE DEF u, v, k, n
  <2> QED BY <2>1
<1>4. IsSuffix(t, s) <=> k <= n /\ \A i \in 1 .. k : u[i] = v[i]
  <2>1. IsSuffix(t, s) <=> IsPrefix(u, v)
    BY Zenon DEF IsSuffix
  <2> HIDE DEF u, v, k, n
  <2> QED BY <1>2, <2>1, PrefixIs
<1> HIDE DEF u, v, k, n
<1>5. ASSUME k <= n
      PROVE  (\A i \in 1 .. k : u[i] = v[i]) <=>
               \A j \in 1 .. k : t[j] = s[n - k + j]
  <2>1. ASSUME NEW i \in 1 .. k, u[i] = v[i]
        PROVE  t[(k - i) + 1] = s[n - k + ((k - i) + 1)]
    <3>1. i \in 1 .. n /\ (n - i) + 1 = n - k + ((k - i) + 1)
      BY <1>1, <1>5
    <3>2. u[i] = t[(k - i) + 1] /\ v[i] = s[(n - i) + 1]
      BY <1>3, <3>1
    <3>3. s[(n - i) + 1] = s[n - k + ((k - i) + 1)]
      BY <3>1
    <3> QED BY <2>1, <3>2, <3>3
  <2>2. ASSUME \A i \in 1 .. k : u[i] = v[i], NEW j \in 1 .. k
        PROVE  t[j] = s[n - k + j]
    <3> DEFINE i == (k - j) + 1
    <3>1. i \in 1 .. k /\ (k - i) + 1 = j
      BY <1>1
    <3>2. t[(k - i) + 1] = s[n - k + ((k - i) + 1)]
      BY <2>1, <2>2, <3>1
    <3> QED BY <3>1, <3>2
  <2>3. ASSUME \A j \in 1 .. k : t[j] = s[n - k + j], NEW i \in 1 .. k
        PROVE  u[i] = v[i]
    <3> DEFINE j == (k - i) + 1
    <3>1. j \in 1 .. k /\ i \in 1 .. n /\ (n - i) + 1 = n - k + j
      BY <1>1, <1>5
    <3>2. u[i] = t[j] /\ v[i] = s[(n - i) + 1]
      BY <1>3, <3>1
    <3>3. t[j] = s[n - k + j]
      BY <2>3, <3>1
    <3> QED BY <3>1, <3>2, <3>3
  <2> QED BY <2>2, <2>3
<1> QED BY <1>4, <1>5 DEF k, n

LEMMA OccursIs ==
  ASSUME NEW s \in Seq(Bytes), NEW del \in Seq(Bytes), NEW i
  PROVE  i \in Occurrences(s, del) <=>
           /\ i \in 0 .. Len(s) - Len(del)
           /\ \A j \in 1 .. Len(del) : s[i + j] = del[j]
<1>1. Len(s) \in Nat /\ Len(del) \in Nat
  BY LenProperties
<1>2. i \in Occurrences(s, del) <=>
        /\ i \in 0 .. Len(s) - Len(del)
        /\ SubSeq(s, i + 1, i + Len(del)) = del
  BY DEF Occurrences
<1>3. ASSUME i \in 0 .. Len(s) - Len(del)
      PROVE  SubSeq(s, i + 1, i + Len(del)) = del <=>
               \A j \in 1 .. Len(del) : s[i + j] = del[j]
  <2> DEFINE b == i + Len(del)
             t == SubSeq(s, i + 1, b)
  <2>1. i \in Nat /\ b \in Nat /\ i <= b /\ b <= Len(s) /\ b - i = Len(del)
    BY <1>1, <1>3
  <2> HIDE DEF b
  <2>2. /\ t \in Seq(Bytes) /\ Len(t) = b - i
        /\ \A j \in 1 .. b - i : t[j] = s[i + j]
    BY <2>1, PieceIs
  <2> HIDE DEF t
  <2>3. t = del <=> \A j \in 1 .. Len(del) : t[j] = del[j]
    BY <2>1, <2>2, SameString
  <2>4. t = del <=> \A j \in 1 .. Len(del) : s[i + j] = del[j]
    BY <2>1, <2>2, <2>3
  <2> QED BY <2>4 DEF t, b
<1> QED BY <1>2, <1>3

-----------------------------------------------------------------------------
(* Requests that say how long their body is.                               *)

(* A request as HTTP sends one with a Content-Length: CR and LF stand in   *)
(* its header only together, its first empty line ends it, and the body    *)
(* is as long as the header says.                                          *)
BlankLineAt(i) == SubSeq(stream.bytes, i + 1, i + 4) = HeaderEnd

SizedRequest ==
  /\ stream.request /\ stream.framed /\ ~stream.chunked
  /\ stream.head \in 4 .. Len(stream.bytes)
  /\ stream.end = stream.head + stream.length
  /\ stream.end <= Len(stream.bytes)
  /\ stream.body = Slice(stream.head, stream.end)
  /\ \A i \in 1 .. stream.head - 1 :
       stream.bytes[i] = CR <=> stream.bytes[i + 1] = LF
  /\ \A i \in 0 .. stream.head - 4 : BlankLineAt(i) <=> i = stream.head - 4

LEMMA HeaderEndIs ==
  /\ HeaderEnd \in Seq(Bytes) /\ Len(HeaderEnd) = 4
  /\ HeaderEnd[1] = CR /\ HeaderEnd[2] = LF
  /\ HeaderEnd[3] = CR /\ HeaderEnd[4] = LF
  /\ CR # LF
<1>1. HeaderEnd \in Seq(Bytes)
  BY DelimitersAre DEF Delimiters
<1>2. CR # LF
  BY DEF CR, LF
<1> HIDE DEF CR, LF
<1>3. /\ Len(HeaderEnd) = 4
      /\ HeaderEnd[1] = CR /\ HeaderEnd[2] = LF
      /\ HeaderEnd[3] = CR /\ HeaderEnd[4] = LF
  BY DEF HeaderEnd
<1> QED BY <1>1, <1>2, <1>3

LEMMA LineEndIs ==
  /\ LineEnd \in Seq(Bytes) /\ Len(LineEnd) = 2
  /\ LineEnd[1] = CR /\ LineEnd[2] = LF
<1>1. LineEnd \in Seq(Bytes)
  BY DelimitersAre DEF Delimiters
<1>2. Len(LineEnd) = 2 /\ LineEnd[1] = CR /\ LineEnd[2] = LF
  BY DEF LineEnd
<1> QED BY <1>1, <1>2

(* The string ends with the first k bytes of the delimiter.                *)
Ends(s, k) ==
  k <= Len(s) /\ \A j \in 1 .. k : s[Len(s) - k + j] = HeaderEnd[j]

LEMMA RemainOfHeader ==
  ASSUME NEW s \in Seq(Bytes)
  PROVE  \E k \in 0 .. 4 :
           /\ Ends(s, k) /\ \A l \in 0 .. 4 : Ends(s, l) => l <= k
           /\ RemainDel(s, HeaderEnd) \in Seq(Bytes)
           /\ Len(RemainDel(s, HeaderEnd)) = 4 - k
           /\ \A j \in 1 .. 4 - k :
                RemainDel(s, HeaderEnd)[j] = HeaderEnd[k + j]
<1> DEFINE del == HeaderEnd
           K == {k \in 0 .. Len(del) : IsSuffix(SubSeq(del, 1, k), s)}
           there == Max(K)
           r == SubSeq(del, there + 1, Len(del))
<1>1. RemainDel(s, del) = r
  BY Zenon DEF RemainDel
<1>2. del \in Seq(Bytes) /\ Len(del) = 4 /\ Len(s) \in Nat
  BY HeaderEndIs, LenProperties
<1> HIDE DEF del
<1>3. ASSUME NEW k \in 0 .. 4 PROVE k \in K <=> Ends(s, k)
  <2> DEFINE t == SubSeq(del, 0 + 1, k)
  <2>1. 0 \in Nat /\ k \in Nat /\ 0 <= k /\ k <= Len(del)
    BY <1>2
  <2>2. /\ t \in Seq(Bytes) /\ Len(t) = k - 0
        /\ \A j \in 1 .. k - 0 : t[j] = del[0 + j]
    BY <1>2, <2>1, PieceIs
  <2>3. k \in K <=> IsSuffix(t, s)
    BY <1>2
  <2> HIDE DEF t
  <2>4. Len(t) = k /\ \A j \in 1 .. k : t[j] = del[j]
    BY <2>1, <2>2
  <2>5. IsSuffix(t, s) <=>
          k <= Len(s) /\ \A j \in 1 .. k : t[j] = s[Len(s) - k + j]
    BY <2>2, <2>4, SuffixIs
  <2>6. IsSuffix(t, s) <=>
          k <= Len(s) /\ \A j \in 1 .. k : s[Len(s) - k + j] = del[j]
    BY <2>4, <2>5
  <2> QED BY <2>3, <2>6 DEF Ends, del
<1>4. 0 \in K
  <2>1. Ends(s, 0)
    BY <1>2 DEF Ends
  <2> QED BY <1>3, <2>1
<1>5. K \subseteq 0 .. 4 /\ K # {}
  BY <1>2, <1>4
<1> HIDE DEF K
<1>6. there \in K /\ \A m \in K : there >= m
  BY <1>5, MaxIsGreatest
<1> HIDE DEF there
<1>7. there \in 0 .. 4
  BY <1>5, <1>6
<1>8. /\ r \in Seq(Bytes) /\ Len(r) = 4 - there
      /\ \A j \in 1 .. 4 - there : r[j] = del[there + j]
  <2> DEFINE N == Len(del)
  <2>1. N = 4 /\ there \in Nat /\ N \in Nat /\ there <= N
    BY <1>2, <1>7
  <2> HIDE DEF N
  <2>2. N <= Len(del)
    BY <2>1, <1>2
  <2>3. LET x == SubSeq(del, there + 1, N) IN
          /\ x \in Seq(Bytes) /\ Len(x) = N - there
          /\ \A j \in 1 .. N - there : x[j] = del[there + j]
    <3>1. del \in Seq(Bytes)
      BY <1>2
    <3> QED BY <3>1, <2>1, <2>2, PieceIs
  <2>4. r = SubSeq(del, there + 1, N)
    BY DEF N
  <2> HIDE DEF r
  <2> QED BY <2>1, <2>3, <2>4
<1>9. Ends(s, there) /\ \A l \in 0 .. 4 : Ends(s, l) => l <= there
  <2>1. Ends(s, there)
    BY <1>3, <1>6, <1>7
  <2>2. ASSUME NEW l \in 0 .. 4, Ends(s, l) PROVE l <= there
    <3>1. l \in K
      BY <1>3, <2>2
    <3> QED BY <1>6, <1>7, <3>1
  <2> QED BY <2>1, <2>2
<1>10. RemainDel(s, HeaderEnd) = r
  BY <1>1 DEF del
<1> HIDE DEF r
<1> QED BY <1>7, <1>8, <1>9, <1>10 DEF del

LEMMA BytesOfSlice ==
  ASSUME stream \in Streams, NEW from \in Nat,
         NEW to \in 0 .. Len(stream.bytes), from <= to
  PROVE  \A j \in 1 .. to - from :
           Slice(from, to)[j] = stream.bytes[from + j]
<1>1. /\ stream.bytes \in Seq(Bytes) /\ to \in Nat
      /\ to <= Len(stream.bytes)
  BY StreamIs
<1> QED BY <1>1, PieceIs DEF Slice

(* Where the stream has the four bytes that end a header.                  *)
EndsAt(p) ==
  /\ stream.bytes[p + 1] = CR /\ stream.bytes[p + 2] = LF
  /\ stream.bytes[p + 3] = CR /\ stream.bytes[p + 4] = LF

LEMMA SizedIs ==
  ASSUME stream \in Streams, SizedRequest
  PROVE  /\ stream.head \in Nat /\ stream.head >= 4
         /\ stream.end \in Nat /\ stream.head <= stream.end
         /\ stream.end <= Len(stream.bytes)
         /\ stream.length \in Nat
         /\ \A p \in 0 .. stream.head - 4 :
              EndsAt(p) <=> p = stream.head - 4
<1>1. /\ stream.bytes \in Seq(Bytes) /\ Len(stream.bytes) \in Nat
      /\ stream.length \in Nat
  BY StreamIs
<1>2. /\ stream.head \in Nat /\ stream.head >= 4
      /\ stream.end \in Nat /\ stream.head <= stream.end
      /\ stream.end <= Len(stream.bytes)
  BY <1>1 DEF SizedRequest
<1>3. ASSUME NEW p \in 0 .. stream.head - 4
      PROVE  EndsAt(p) <=> BlankLineAt(p)
  <2> DEFINE b == p + 4
             t == SubSeq(stream.bytes, p + 1, b)
  <2>1. p \in Nat /\ b \in Nat /\ p <= b /\ b <= Len(stream.bytes)
        /\ b - p = 4
    BY <1>1, <1>2
  <2> HIDE DEF b
  <2>2. /\ t \in Seq(Bytes) /\ Len(t) = b - p
        /\ \A j \in 1 .. b - p : t[j] = stream.bytes[p + j]
    BY <1>1, <2>1, PieceIs
  <2>3. BlankLineAt(p) <=> t = HeaderEnd
    BY DEF BlankLineAt, b
  <2> HIDE DEF t
  <2>4. Len(t) = 4 /\ \A j \in 1 .. 4 : t[j] = stream.bytes[p + j]
    BY <2>1, <2>2
  <2>5. t = HeaderEnd <=> \A j \in 1 .. 4 : t[j] = HeaderEnd[j]
    <3>1. t = HeaderEnd <=> /\ Len(t) = Len(HeaderEnd)
                            /\ \A j \in 1 .. Len(t) : t[j] = HeaderEnd[j]
      <4>1. t \in Seq(Bytes) /\ HeaderEnd \in Seq(Bytes)
        BY <2>2, HeaderEndIs
      <4> QED BY <4>1, SameString
    <3>2. Len(t) = 4 /\ Len(HeaderEnd) = 4
      BY <2>4, HeaderEndIs
    <3> QED BY <3>1, <3>2, Zenon
  <2>6. t = HeaderEnd <=> /\ t[1] = CR /\ t[2] = LF
                          /\ t[3] = CR /\ t[4] = LF
    BY <2>5, HeaderEndIs
  <2> QED BY <2>3, <2>4, <2>6 DEF EndsAt
<1> QED BY <1>1, <1>2, <1>3 DEF SizedRequest

(* What of the end of the header is still missing, wherever the buffer     *)
(* begins but behind a line: it ends where the header does, and there is   *)
(* no other place for it before.                                           *)
LEMMA MissingIs ==
  ASSUME stream \in Streams, SizedRequest, NEW p \in 0 .. stream.head - 1,
         ~BehindLine(p)
  PROVE  \E R \in {1, 3, 4} :
           /\ Len(RemainDel(Slice(0, p), HeaderEnd)) = R
           /\ RemainDel(Slice(0, p), HeaderEnd) \in Seq(Bytes)
           /\ p + R <= stream.head
           /\ \A i \in 0 .. stream.head - p - R :
                (\A j \in 1 .. R :
                   stream.bytes[p + i + j]
                     = RemainDel(Slice(0, p), HeaderEnd)[j])
                  <=> i = stream.head - p - R
<1> DEFINE s == Slice(0, p)
           B == stream.bytes
           H == stream.head
           d == RemainDel(s, HeaderEnd)
           E(k) == k <= p /\ \A j \in 1 .. k : B[p - k + j] = HeaderEnd[j]
<1>1. /\ H \in Nat /\ H >= 4 /\ H <= Len(B) /\ p \in Nat /\ p < H
      /\ p \in 0 .. Len(B) /\ B \in Seq(Bytes)
  BY SizedIs, StreamIs
<1>2. s \in Seq(Bytes) /\ Len(s) = p /\ \A j \in 1 .. p : s[j] = B[j]
  <2>1. 0 \in Nat /\ 0 <= p
    BY <1>1
  <2>2. s \in Seq(Bytes) /\ Len(s) = p - 0
    BY <1>1, <2>1, SliceIs
  <2>3. \A j \in 1 .. p - 0 : s[j] = B[0 + j]
    BY <1>1, <2>1, BytesOfSlice
  <2> HIDE DEF s, B
  <2> QED BY <1>1, <2>2, <2>3
<1> HIDE DEF s
<1>3. ASSUME NEW k \in 0 .. 4 PROVE Ends(s, k) <=> E(k)
  <2>1. k <= p => \A j \in 1 .. k : p - k + j \in 1 .. p
    BY <1>1
  <2> HIDE DEF B
  <2> QED BY <1>2, <2>1 DEF Ends
<1>4. PICK k \in 0 .. 4 :
        /\ E(k) /\ \A l \in 0 .. 4 : E(l) => l <= k
        /\ d \in Seq(Bytes) /\ Len(d) = 4 - k
        /\ \A j \in 1 .. 4 - k : d[j] = HeaderEnd[k + j]
  <2>1. \E k \in 0 .. 4 :
           /\ Ends(s, k) /\ \A l \in 0 .. 4 : Ends(s, l) => l <= k
           /\ d \in Seq(Bytes) /\ Len(d) = 4 - k
           /\ \A j \in 1 .. 4 - k : d[j] = HeaderEnd[k + j]
    BY <1>2, RemainOfHeader
  <2> HIDE DEF d, E
  <2> QED BY <1>3, <2>1
<1> HIDE DEF d
<1>5. /\ E(1) <=> p >= 1 /\ B[p] = CR
      /\ E(2) <=> p >= 2 /\ B[p - 1] = CR /\ B[p] = LF
      /\ E(3) <=> p >= 3 /\ B[p - 2] = CR /\ B[p - 1] = LF /\ B[p] = CR
      /\ E(4) <=> /\ p >= 4 /\ B[p - 3] = CR /\ B[p - 2] = LF
                  /\ B[p - 1] = CR /\ B[p] = LF
  <2> HIDE DEF B
  <2>1. 1 .. 1 = {1} /\ 1 .. 2 = {1, 2} /\ 1 .. 3 = {1, 2, 3}
        /\ 1 .. 4 = {1, 2, 3, 4}
    OBVIOUS
  <2>2. /\ p - 1 + 1 = p
        /\ p - 2 + 1 = p - 1 /\ p - 2 + 2 = p
        /\ p - 3 + 1 = p - 2 /\ p - 3 + 2 = p - 1 /\ p - 3 + 3 = p
        /\ p - 4 + 1 = p - 3 /\ p - 4 + 2 = p - 2 /\ p - 4 + 3 = p - 1
        /\ p - 4 + 4 = p
    BY <1>1
  <2>3. E(1) <=> p >= 1 /\ B[p] = CR
    BY <1>1, <2>1, <2>2, HeaderEndIs
  <2>4. E(2) <=> p >= 2 /\ B[p - 1] = CR /\ B[p] = LF
    BY <1>1, <2>1, <2>2, HeaderEndIs
  <2>5. E(3) <=> p >= 3 /\ B[p - 2] = CR /\ B[p - 1] = LF /\ B[p] = CR
    BY <1>1, <2>1, <2>2, HeaderEndIs
  <2>6. E(4) <=> /\ p >= 4 /\ B[p - 3] = CR /\ B[p - 2] = LF
                 /\ B[p - 1] = CR /\ B[p] = LF
    BY <1>1, <2>1, <2>2, HeaderEndIs
  <2> QED BY <2>3, <2>4, <2>5, <2>6
<1> HIDE DEF E
<1>6. ~E(2)
  <2> SUFFICES ASSUME E(2) PROVE FALSE
    OBVIOUS
  <2>1. /\ p >= 2 /\ s[p - 1] = CR /\ s[p] = LF
    <3>1. p >= 2 => p - 1 \in 1 .. p /\ p \in 1 .. p
      BY <1>1
    <3> QED BY <1>2, <1>5, <3>1
  <2>2. IsSuffix(LineEnd, s)
    <3>1. 1 .. 2 = {1, 2} /\ p - 2 + 1 = p - 1 /\ p - 2 + 2 = p
      BY <1>1
    <3>2. \A j \in 1 .. 2 : LineEnd[j] = s[p - 2 + j]
      BY <2>1, <3>1, LineEndIs
    <3> QED BY <1>2, <2>1, <3>2, LineEndIs, SuffixIs
  <2> QED BY <1>1, <2>2 DEF BehindLine, s
<1>7. k \in {0, 1, 3}
  <2>1. E(4) => E(2)
    BY <1>1, <1>5
  <2> QED BY <1>4, <1>6, <2>1
<1>8. /\ \A i \in 1 .. H - 1 : B[i] = CR <=> B[i + 1] = LF
      /\ \A q \in 0 .. H - 4 : EndsAt(q) <=> q = H - 4
  BY SizedIs DEF SizedRequest
<1> HIDE DEF B, H
<1>9. \A q \in 0 .. H - 4 :
        /\ B[q + 1] = CR /\ B[q + 2] = LF /\ B[q + 3] = CR /\ B[q + 4] = LF
          <=> q = H - 4
  BY <1>8 DEF EndsAt, B
<1>10. B[H - 3] = CR /\ B[H - 2] = LF /\ B[H - 1] = CR /\ B[H] = LF
  <2> DEFINE q == H - 4
  <2>1. q \in 0 .. H - 4 /\ q + 1 = H - 3 /\ q + 2 = H - 2 /\ q + 3 = H - 1
        /\ q + 4 = H
    BY <1>1
  <2> HIDE DEF q
  <2>2. q = H - 4
    BY DEF q
  <2> QED BY <1>9, <2>1, <2>2
<1> DEFINE R == 4 - k
           Occurs(i) == \A j \in 1 .. R : B[p + i + j] = d[j]
<1>11. p + R <= H
  <2>1. CASE k = 0
    <3>1. p # H - 1
      BY <1>1, <1>4, <1>5, <1>10, <2>1
    <3>2. p # H - 2
      BY <1>1, <1>4, <1>5, <1>10, <2>1
    <3>3. p # H - 3
      BY <1>1, <1>4, <1>5, <1>10, <2>1
    <3> QED BY <1>1, <2>1, <3>1, <3>2, <3>3
  <2>2. CASE k = 1
    <3>1. p # H - 1
      BY <1>1, <1>4, <1>5, <1>10, <2>2
    <3>2. p # H - 2
      BY <1>1, <1>5, <1>6, <1>10, <2>2
    <3> QED BY <1>1, <2>2, <3>1, <3>2
  <2>3. CASE k = 3
    BY <1>1, <2>3
  <2> QED BY <1>7, <2>1, <2>2, <2>3
<1>12. ASSUME NEW i \in 0 .. H - p - R
       PROVE  Occurs(i) <=> i = H - p - R
  <2>1. CASE k = 0
    <3> DEFINE q == p + i
    <3>1. q \in 0 .. H - 4 /\ (q = H - 4 <=> i = H - p - R)
      BY <1>1, <2>1
    <3>2. Occurs(i) <=> /\ B[q + 1] = CR /\ B[q + 2] = LF
                        /\ B[q + 3] = CR /\ B[q + 4] = LF
      <4> HIDE DEF q
      <4>1. 1 .. R = {1, 2, 3, 4}
        BY <2>1
      <4>2. d[1] = CR /\ d[2] = LF /\ d[3] = CR /\ d[4] = LF
        BY <1>4, <2>1, HeaderEndIs
      <4> QED BY <4>1, <4>2 DEF q
    <3> HIDE DEF q, Occurs
    <3> QED BY <1>9, <3>1, <3>2
  <2>2. CASE k = 1
    <3> DEFINE q == p + i - 1
    <3>1. /\ p >= 1
          /\ q \in 0 .. H - 4 /\ (q = H - 4 <=> i = H - p - R)
          /\ p + i + 1 = q + 2 /\ p + i + 2 = q + 3 /\ p + i + 3 = q + 4
          /\ q + 1 \in 1 .. H - 1 /\ q + 1 + 1 = q + 2
      BY <1>1, <1>4, <1>5, <2>2
    <3> HIDE DEF q
    <3>2. Occurs(i) <=> B[q + 2] = LF /\ B[q + 3] = CR /\ B[q + 4] = LF
      <4>1. 1 .. R = {1, 2, 3}
        BY <2>2
      <4>2. d[1] = LF /\ d[2] = CR /\ d[3] = LF
        BY <1>4, <2>2, HeaderEndIs
      <4>3. Occurs(i) <=> /\ B[p + i + 1] = LF /\ B[p + i + 2] = CR
                          /\ B[p + i + 3] = LF
        BY <4>1, <4>2
      <4> QED BY <3>1, <4>3
    <3> HIDE DEF Occurs
    <3>3. B[q + 1] = CR <=> B[q + 2] = LF
      BY <1>8, <3>1
    <3> QED BY <1>9, <3>1, <3>2, <3>3
  <2>3. CASE k = 3
    <3> DEFINE q == p - 3
    <3>1. /\ p >= 3 /\ B[p - 2] = CR /\ B[p - 1] = LF /\ B[p] = CR
      BY <1>4, <1>5, <2>3
    <3>2. /\ q + 1 = p - 2 /\ q + 2 = p - 1 /\ q + 3 = p /\ q + 4 = p + 1
          /\ p \in 1 .. H - 1 /\ q \in 0 .. H - 4 /\ (q = H - 4 <=> p = H - 1)
      BY <1>1, <3>1
    <3> HIDE DEF q
    <3>3. B[p + 1] = LF
      BY <1>8, <3>1, <3>2
    <3>4. p = H - 1
      BY <1>9, <3>1, <3>2, <3>3
    <3>5. i = 0 /\ H - p - R = 0 /\ p + i + 1 = p + 1
      BY <1>1, <2>3, <3>4
    <3>6. Occurs(i) <=> B[p + i + 1] = LF
      <4>1. 1 .. R = {1}
        BY <2>3
      <4>2. d[1] = LF
        BY <1>4, <2>3, HeaderEndIs
      <4> QED BY <4>1, <4>2
    <3> QED BY <3>3, <3>5, <3>6
  <2> QED BY <1>7, <2>1, <2>2, <2>3
<1>13. R \in {1, 3, 4}
  BY <1>7
<1> HIDE DEF R
<1>14. Len(d) = R /\ d \in Seq(Bytes)
  BY <1>4 DEF R
<1> QED BY <1>11, <1>12, <1>13, <1>14 DEF d, s, B, H

(* A header of a sized request takes all of the buffer or ends where it    *)
(* ends: _calcBtr finds no other place.                                    *)
LEMMA HeaderBytes ==
  ASSUME Placed, SizedRequest, start = pos, pos < got, pos < stream.head,
         ~BehindLine(pos), NEW n, AtEdge(n), n.from = 0
  PROVE  BytesTaken(CalcBtr(n, HeaderEnd))
           = IF got < stream.head THEN got - pos ELSE stream.head - pos
<1> DEFINE B == stream.bytes
           H == stream.head
           d == RemainDel(Slice(0, pos), HeaderEnd)
           L == Len(Rest)
           O == Occurrences(Rest, d)
           found == FtStrstr(Rest, d)
           btr == CalcBtr(n, HeaderEnd)
<1>1. /\ H \in Nat /\ H <= Len(B) /\ pos \in Nat /\ got \in Nat
      /\ got \in 0 .. Len(B) /\ pos \in 0 .. H - 1 /\ stream \in Streams
  BY SizedIs, StreamIs DEF Placed
<1>2. Rest \in Seq(Bytes) /\ L = got - pos /\ L \in Nat /\ L > 0
  BY <1>1, RestIs
<1>3. \A j \in 1 .. L : Rest[j] = B[pos + j]
  <2>1. \A j \in 1 .. got - pos : Slice(pos, got)[j] = B[pos + j]
    BY <1>1, BytesOfSlice
  <2> QED BY <1>2, <2>1 DEF Rest
<1>4. Str(n) = Slice(0, pos)
  BY DEF Str, AtEdge
<1>5. PICK R \in {1, 3, 4} :
        /\ Len(d) = R /\ d \in Seq(Bytes) /\ pos + R <= H
        /\ \A i \in 0 .. H - pos - R :
             (\A j \in 1 .. R : B[pos + i + j] = d[j]) <=> i = H - pos - R
  BY <1>1, MissingIs
<1>6. btr = IF IsPrefix(d, Rest) THEN R
            ELSE IF found = 0 THEN L ELSE found + R
  <2>1. CASE IsPrefix(d, Rest)
    <3>1. btr = Len(d)
      BY <1>4, <2>1, Zenon DEF CalcBtr
    <3> QED BY <1>5, <2>1, <3>1
  <2>2. CASE ~IsPrefix(d, Rest)
    <3>1. btr = IF found = 0 THEN L ELSE found + Len(d)
      BY <1>4, <2>2, Zenon DEF CalcBtr
    <3> QED BY <1>5, <2>2, <3>1
  <2> QED BY <2>1, <2>2
<1>7. found = IF O = {} THEN 0 ELSE Min(O)
  BY Zenon DEF FtStrstr
<1>8. BytesTaken(btr) = Min({btr, L})
  BY DEF BytesTaken
<1> HIDE DEF btr, found, L, H, B
<1>9. \A i : i \in O <=> /\ i \in 0 .. L - R
                         /\ \A j \in 1 .. R : Rest[i + j] = d[j]
  <2>1. \A i : i \in O <=> /\ i \in 0 .. Len(Rest) - Len(d)
                           /\ \A j \in 1 .. Len(d) : Rest[i + j] = d[j]
    BY <1>2, <1>5, OccursIs
  <2> HIDE DEF O, d
  <2>2. Len(Rest) = L /\ Len(d) = R
    BY <1>5 DEF L
  <2> QED BY <2>1, <2>2
<1>10. IsPrefix(d, Rest) <=> R <= L /\ \A j \in 1 .. R : d[j] = Rest[j]
  BY <1>2, <1>5, PrefixIs DEF L
<1> HIDE DEF O, d
<1>11. ASSUME NEW i \in 0 .. L - R
       PROVE  i \in O <=> \A j \in 1 .. R : B[pos + i + j] = d[j]
  <2>1. \A j \in 1 .. R : i + j \in 1 .. L /\ pos + (i + j) = pos + i + j
    BY <1>1, <1>2
  <2>2. \A j \in 1 .. R : Rest[i + j] = B[pos + i + j]
    BY <1>3, <2>1
  <2> QED BY <1>9, <2>2
<1> DEFINE e == H - pos - R
<1>12. e \in Nat /\ (got < H <=> e > L - R)
  BY <1>1, <1>2, <1>5
<1>13. ASSUME NEW i \in 0 .. L - R, i <= e
       PROVE  i \in O <=> i = e
  <2>1. i \in 0 .. H - pos - R
    BY <1>1, <1>5, <1>12, <1>13
  <2> QED BY <1>5, <1>11, <2>1
<1>14. IsPrefix(d, Rest) <=> 0 \in O
  <2>1. \A j \in 1 .. R : 0 + j = j
    BY <1>5
  <2>2. 0 \in 0 .. L - R <=> R <= L
    BY <1>2, <1>5
  <2> QED BY <1>9, <1>10, <2>1, <2>2
<1>15. O \subseteq 0 .. L - R /\ O \subseteq Nat
  BY <1>9
<1>16. R \in Nat /\ R > 0
  BY <1>5
<1>17. btr \in Nat /\ IF got < H THEN btr >= L ELSE btr = e + R /\ btr <= L
  <2>1. CASE got < H
    <3>1. O = {}
      <4> SUFFICES ASSUME NEW i \in O PROVE FALSE
        OBVIOUS
      <4>1. i \in 0 .. L - R
        BY <1>15
      <4>2. i <= e /\ i # e
        BY <1>2, <1>12, <1>16, <2>1, <4>1
      <4> QED BY <1>13, <4>1, <4>2
    <3>2. btr = L
      BY <1>6, <1>7, <1>14, <3>1
    <3> QED BY <1>2, <2>1, <3>2
  <2>2. CASE ~(got < H)
    <3>1. e \in 0 .. L - R /\ e <= e
      BY <1>2, <1>12, <1>16, <2>2
    <3>2. e \in O
      BY <1>13, <3>1
    <3>3. Min(O) \in O /\ Min(O) <= e
      BY <1>15, <3>2, MinIsLeast
    <3>4. Min(O) = e
      BY <1>13, <1>15, <3>3
    <3>5. e + R <= L
      BY <1>2, <1>12, <1>16, <3>1
    <3>6. CASE e = 0
      BY <1>6, <1>12, <1>14, <1>16, <2>2, <3>2, <3>5, <3>6
    <3>7. CASE e # 0
      <4>1. ~IsPrefix(d, Rest)
        <5>1. CASE 0 \in O
          <6>1. 0 \in 0 .. L - R /\ 0 <= e
            BY <1>12, <1>15, <5>1
          <6> QED BY <1>13, <3>7, <5>1, <6>1
        <5> QED BY <1>14, <5>1
      <4>2. found = e
        BY <1>7, <3>2, <3>4
      <4> QED BY <1>6, <1>12, <1>16, <2>2, <3>5, <3>7, <4>1, <4>2
    <3> QED BY <3>6, <3>7
  <2> QED BY <2>1, <2>2
<1>18. {btr, L} \subseteq Nat /\ {btr, L} # {}
  BY <1>2, <1>17
<1>19. Min({btr, L}) \in {btr, L} /\ Min({btr, L}) <= btr
       /\ Min({btr, L}) <= L
  BY <1>18, MinIsLeast
<1>20. BytesTaken(btr) = IF got < H THEN L ELSE e + R
  BY <1>2, <1>8, <1>17, <1>19
<1>21. e + R = H - pos /\ L = got - pos
  BY <1>1, <1>2, <1>16
<1> HIDE DEF e
<1> QED BY <1>20, <1>21 DEF btr, H

(* Where the message stands: in the header, behind it, in the body, done.  *)
InHeader ==
  /\ msg.state = "INCOMPLETE" /\ Len(msg.chain) = 1
  /\ msg.chain[1].state = "INCOMPLETE" /\ msg.bodySize = 0
  /\ pos < stream.head /\ pos \in {start, got}

BehindHeader ==
  /\ msg.state = "INCOMPLETE" /\ Len(msg.chain) = 1 /\ ~msg.chunked
  /\ msg.chain[1].state = "COMPLETE" /\ pos = stream.head
  /\ msg.chain[1].bodySize = stream.length /\ stream.length > 0

InBody ==
  /\ msg.state = "INCOMPLETE" /\ Len(msg.chain) = 2 /\ ~msg.chunked
  /\ msg.chain[2].type = "BODY" /\ msg.chain[2].state = "INCOMPLETE"
  /\ msg.chain[2].bodySize = stream.length
  /\ msg.chain[1].to = stream.head /\ pos < stream.end

Received ==
  /\ msg.state = "COMPLETE" /\ msg.bodySize = stream.length
  /\ msg.chain[1].to = stream.head /\ pos = stream.end
  /\ \/ Len(msg.chain) = 1 /\ stream.length = 0
     \/ /\ Len(msg.chain) = 2 /\ msg.chain[2].type = "BODY"
        /\ msg.chain[2].to = stream.end

InOrder ==
  /\ ~BehindLine(start) /\ ~BehindLine(got)
  /\ InHeader \/ BehindHeader \/ InBody \/ Received

LEMMA BytesTakenExact ==
  ASSUME Placed, NEW btr \in Nat
  PROVE  BytesTaken(btr) = IF btr <= got - pos THEN btr ELSE got - pos
<1> DEFINE T == {btr, Len(Rest)}
<1>1. Len(Rest) = got - pos /\ Len(Rest) \in Nat
  BY RestIs
<1>2. BytesTaken(btr) = Min(T)
  BY DEF BytesTaken
<1>3. T \subseteq Nat /\ T # {}
  BY <1>1
<1>4. btr \in T /\ Len(Rest) \in T /\ \A m \in T : m = btr \/ m = Len(Rest)
  OBVIOUS
<1> HIDE DEF T
<1>5. Min(T) \in T /\ \A m \in T : Min(T) <= m
  BY <1>3, MinIsLeast
<1>6. /\ Min(T) = btr \/ Min(T) = Len(Rest)
      /\ Min(T) <= btr /\ Min(T) <= Len(Rest)
  BY <1>4, <1>5, Zenon
<1> QED BY <1>1, <1>2, <1>6

LEMMA HeaderEndsOnce ==
  ASSUME stream \in Streams, SizedRequest, NEW p \in 0 .. stream.head
  PROVE  Occurrences(Slice(0, p), HeaderEnd) # {} <=> p = stream.head
<1> DEFINE s == Slice(0, p)
           B == stream.bytes
           H == stream.head
<1>1. /\ H \in Nat /\ H >= 4 /\ p \in Nat /\ p <= H
      /\ p \in 0 .. Len(B) /\ 0 \in Nat /\ 0 <= p
  BY SizedIs, StreamIs
<1>2. s \in Seq(Bytes) /\ Len(s) = p - 0
  BY <1>1, SliceIs
<1>3. \A j \in 1 .. p - 0 : s[j] = B[0 + j]
  BY <1>1, BytesOfSlice
<1>4. \A i \in 0 .. H - 4 : EndsAt(i) <=> i = H - 4
  BY SizedIs
<1> HIDE DEF s, H
<1>5. Len(s) = p /\ \A j \in 1 .. p : s[j] = B[j]
  BY <1>1, <1>2, <1>3
<1> DEFINE OccursAt(x, del, i) ==
             /\ i \in 0 .. Len(x) - Len(del)
             /\ \A j \in 1 .. Len(del) : x[i + j] = del[j]
<1>5a. \A i : i \in Occurrences(s, HeaderEnd) <=> OccursAt(s, HeaderEnd, i)
  <2>1. s \in Seq(Bytes) /\ HeaderEnd \in Seq(Bytes)
    BY <1>2, HeaderEndIs
  <2>2. ASSUME NEW k
        PROVE  k \in Occurrences(s, HeaderEnd) <=> OccursAt(s, HeaderEnd, k)
    BY <2>1, OccursIs
  <2> QED BY <2>2
<1>6. ASSUME NEW i
      PROVE  i \in Occurrences(s, HeaderEnd) <=> i \in 0 .. p - 4 /\ EndsAt(i)
  <2>1. i \in Occurrences(s, HeaderEnd) <=>
          i \in 0 .. p - 4 /\ \A j \in 1 .. 4 : s[i + j] = HeaderEnd[j]
    <3>1. i \in Occurrences(s, HeaderEnd) <=>
            /\ i \in 0 .. Len(s) - Len(HeaderEnd)
            /\ \A j \in 1 .. Len(HeaderEnd) : s[i + j] = HeaderEnd[j]
      BY <1>5a
    <3>2. Len(s) = p /\ Len(HeaderEnd) = 4
      BY <1>5, HeaderEndIs
    <3> QED BY <3>1, <3>2, Zenon
  <2>2. ASSUME i \in 0 .. p - 4
        PROVE  (\A j \in 1 .. 4 : s[i + j] = HeaderEnd[j]) <=> EndsAt(i)
    <3>1. 1 .. 4 = {1, 2, 3, 4}
      OBVIOUS
    <3>2. /\ i + 1 \in 1 .. p /\ i + 2 \in 1 .. p
          /\ i + 3 \in 1 .. p /\ i + 4 \in 1 .. p
      BY <1>1, <2>2
    <3>3. /\ s[i + 1] = B[i + 1] /\ s[i + 2] = B[i + 2]
          /\ s[i + 3] = B[i + 3] /\ s[i + 4] = B[i + 4]
      BY <1>5, <3>2
    <3>4. (\A j \in 1 .. 4 : s[i + j] = HeaderEnd[j]) <=>
            /\ s[i + 1] = CR /\ s[i + 2] = LF
            /\ s[i + 3] = CR /\ s[i + 4] = LF
      BY <3>1, HeaderEndIs
    <3> QED BY <3>3, <3>4 DEF EndsAt
  <2> QED BY <2>1, <2>2
<1>7. ASSUME NEW i \in 0 .. p - 4 PROVE i \in 0 .. H - 4 /\ (i = H - 4 => p = H)
  BY <1>1
<1>8. p = H => H - 4 \in 0 .. p - 4 /\ H - 4 \in 0 .. H - 4
  BY <1>1
<1>9. ASSUME NEW i \in Occurrences(s, HeaderEnd) PROVE p = H
  <2>1. i \in 0 .. p - 4 /\ EndsAt(i)
    BY <1>6
  <2> QED BY <1>4, <1>7, <2>1
<1>10. p = H => H - 4 \in Occurrences(s, HeaderEnd)
  BY <1>4, <1>6, <1>8
<1> QED BY <1>9, <1>10 DEF s, H

(* What is not a chunk is not looked at a second time.                     *)
LEMMA NoChunk ==
  ASSUME NEW m, NEW unset, Current(m).type # "CHUNK"
  PROVE  ReadChunkHeader(m, unset) = m
BY Zenon DEF ReadChunkHeader

LEMMA HeaderPass ==
  ASSUME FInv, SizedRequest, InOrder, InHeader, Pass
  PROVE  InOrder'
<1> DEFINE h == msg.chain[1]
           H == stream.head
           n == ConcatString(h)
           b == SetCurrent(msg, n)
           e == [n EXCEPT !.state = "COMPLETE"]
           m == SetNodeComplete(b)
<1>1. /\ Placed /\ Underway(msg) /\ pos < got /\ pos = start /\ pos < H
      /\ pos \in Nat /\ got \in Nat /\ H \in Nat /\ stream \in Streams
      /\ ~BehindLine(start) /\ ~BehindLine(got)
      /\ UNCHANGED <<stream, got, start, before>>
      /\ msg.state = "INCOMPLETE" /\ msg.bodySize = 0
      /\ stream.request /\ ~stream.chunked
  <2>1. pos # got /\ msg.state = "INCOMPLETE"
    BY DEF Pass, Consumed
  <2>2. pos \in Nat /\ got \in Nat /\ pos <= got /\ stream \in Streams
    BY StreamIs DEF FInv, Placed
  <2>3. H \in Nat
    BY <2>2, SizedIs
  <2> QED BY <2>1, <2>2, <2>3
          DEF FInv, InOrder, InHeader, Pass, SizedRequest
<1>2. /\ h \in NodeRec /\ Current(msg) = h /\ h.type = "HEADER" /\ h.from = 0
      /\ h.to = pos /\ h.state = "INCOMPLETE" /\ Fits(h) /\ ~h.chunkHeader
      /\ Len(msg.chain) = 1 /\ Whole(msg)
  <2>1. Len(msg.chain) = 1 /\ h.state = "INCOMPLETE" /\ Whole(msg)
    BY <1>1 DEF InHeader, Underway
  <2>2. Current(msg) = h /\ h \in NodeRec /\ h.type = "HEADER" /\ h.from = 0
    <3>1. /\ msg.chain \in Seq(NodeRec)
          /\ Current(msg) = msg.chain[Len(msg.chain)]
          /\ Current(msg) \in NodeRec
      BY <2>1, WholeIs
    <3>2. h.type = "HEADER" /\ h.from = 0
      BY <2>1 DEF Whole, Linked
    <3> QED BY <2>1, <3>1, <3>2
  <2> QED BY <1>1, <2>1, <2>2 DEF Underway, Fits
<1>3. AddNewNode(msg) = msg
  BY <1>2, Zenon DEF AddNewNode
<1>4. PICK unset \in Unset :
        pos' = n.to /\ msg' = CompleteNode(ReadChunkHeader(m, unset))
  BY <1>2, <1>3, Zenon DEF Pass, ParseNode
<1>5. n = [h EXCEPT !.to = @ + BytesTaken(CalcBtr(h, HeaderEnd))]
  <2>1. h.type # "BODY" /\ h.type \notin {"CHUNK", "LCHUNK"}
    BY <1>2
  <2>2. Btr(h) = CalcBtr(h, HeaderEnd)
    BY <1>2, <2>1, Zenon DEF Btr
  <2>3. n = [h EXCEPT !.to = @ + BytesTaken(Btr(h))]
    BY <1>1, Zenon DEF ConcatString
  <2> QED BY <2>2, <2>3
<1>6. BytesTaken(CalcBtr(h, HeaderEnd)) = IF got < H THEN got - pos ELSE H - pos
  BY <1>1, <1>2, HeaderBytes DEF AtEdge
<1> HIDE DEF h
<1>7. /\ n \in NodeRec /\ n.from = 0 /\ n.type = "HEADER"
      /\ n.state = "INCOMPLETE"
      /\ n.to = (IF got < H THEN got ELSE H) /\ n.to \in 0 .. H
      /\ n.from <= n.to
  <2> DEFINE t == BytesTaken(CalcBtr(h, HeaderEnd))
             z == h.to + t
  <2>1. z = IF got < H THEN got ELSE H
    BY <1>1, <1>2, <1>6
  <2>2. z \in Nat /\ z \in 0 .. H
    BY <1>1, <2>1
  <2>3. n = [h EXCEPT !.to = z]
    BY <1>5
  <2> HIDE DEF z, n, H
  <2>4. n \in NodeRec
    BY <1>2, <2>2, <2>3 DEF NodeRec
  <2>5. /\ n.from = 0 /\ n.type = "HEADER" /\ n.state = "INCOMPLETE"
        /\ n.to = z
    BY <1>2, <2>3 DEF NodeRec
  <2> QED BY <2>1, <2>2, <2>4, <2>5
<1> HIDE DEF n
<1>8. /\ Whole(b) /\ Current(b) = n /\ Len(b.chain) = 1
      /\ b.state = "INCOMPLETE" /\ b.bodySize = 0
  <2>1. Grows(Current(msg), n)
    BY <1>2, <1>7 DEF Grows
  <2> QED BY <1>1, <1>2, <2>1, SetCurrentIs
<1> HIDE DEF b
<1>9. m = IF Occurrences(Str(n), HeaderEnd) # {} THEN SetCurrent(b, e) ELSE b
  <2>1. n.type # "CHUNK" /\ n.type # "TRAILER" /\ n.type # "BODY"
    BY <1>7
  <2>2. m = LET c == IF n.type = "CHUNK" /\ Occurrences(Str(n), LineEnd) # {}
                     THEN [n EXCEPT !.chunkHeader = TRUE] ELSE n
            IN IF stream.request /\ Occurrences(Str(n), HeaderEnd) # {}
               THEN SetCurrent(b, [c EXCEPT !.state = "COMPLETE"]) ELSE b
    <3>1. ~(IF n.type = "CHUNK" /\ Occurrences(Str(n), LineEnd) # {}
            THEN [n EXCEPT !.chunkHeader = TRUE] ELSE n).chunkHeader
      <4>1. n.chunkHeader = h.chunkHeader
        BY <1>2, <1>5 DEF NodeRec
      <4> QED BY <1>2, <2>1, <4>1
    <3> QED BY <1>7, <1>8, <2>1, <3>1, Zenon DEF SetNodeComplete
  <2> QED BY <1>1, <2>1, <2>2
<1>10. Occurrences(Str(n), HeaderEnd) # {} <=> ~(got < H)
  <2>1. Occurrences(Slice(0, n.to), HeaderEnd) # {} <=> n.to = H
    BY <1>1, <1>7, HeaderEndsOnce
  <2>2. n.to = H <=> ~(got < H)
    BY <1>1, <1>7
  <2> QED BY <1>7, <2>1, <2>2 DEF Str
<1> HIDE DEF m, e
<1>11. CASE got < H
  <2>1. m = b
    BY <1>9, <1>10, <1>11
  <2>2. ReadChunkHeader(m, unset) = b
    BY <1>7, <1>8, <2>1, NoChunk
  <2>3. CompleteNode(b) = b
    BY <1>7, <1>8, Zenon DEF CompleteNode
  <2>4. msg' = b /\ pos' = got
    BY <1>4, <1>7, <1>11, <2>2, <2>3
  <2>5. b.chain[1] = n
    BY <1>8, Zenon DEF Current, Last
  <2>6. InHeader'
    BY <1>1, <1>7, <1>8, <1>11, <2>4, <2>5 DEF InHeader
  <2>7. (~BehindLine(start) /\ ~BehindLine(got))'
    BY <1>1 DEF BehindLine, Slice
  <2> QED BY <2>6, <2>7 DEF InOrder
<1>12. CASE ~(got < H)
  <2> DEFINE f == [e EXCEPT !.bodySize = stream.length]
             d == SetCurrent(m, f)
             g == HeaderInfo(m)
             q == [g EXCEPT !.state = IF EndsWithHeader(g)
                                      THEN "COMPLETE" ELSE @]
  <2>1. m = SetCurrent(b, e)
    BY <1>9, <1>10, <1>12
  <2>2. /\ e \in NodeRec /\ e.from = 0 /\ e.type = "HEADER" /\ e.to = H
        /\ e.state = "COMPLETE" /\ e.from <= e.to
    BY <1>7, <1>12 DEF e, NodeRec, NodeStates
  <2>3. /\ Whole(m) /\ Current(m) = e /\ Len(m.chain) = 1
        /\ m.state = "INCOMPLETE" /\ m.bodySize = 0
    <3>1. Grows(Current(b), e)
      BY <1>7, <1>8, <2>2 DEF Grows
    <3> QED BY <1>8, <2>1, <3>1, SetCurrentIs
  <2>4. ReadChunkHeader(m, unset) = m
    BY <2>2, <2>3, NoChunk
  <2>5. msg' = q /\ pos' = H
    <3>1. CompleteNode(m) = q
      BY <2>2, <2>3, Zenon DEF CompleteNode
    <3> QED BY <1>4, <1>7, <1>12, <2>4, <3>1
  <2>6. stream.length \in Nat /\ stream.trailer \in BOOLEAN
        /\ stream.chunked = FALSE
    BY <1>1, StreamIs
  <2>7. /\ f \in NodeRec /\ f.from = 0 /\ f.type = "HEADER" /\ f.to = H
        /\ f.state = "COMPLETE" /\ f.bodySize = stream.length /\ f.from <= f.to
    BY <2>2, <2>6 DEF NodeRec
  <2>8. g = [d EXCEPT !.header = TRUE, !.chunked = stream.chunked,
                      !.trailer = stream.trailer]
    BY <2>3, Zenon DEF HeaderInfo
  <2> HIDE DEF f
  <2>9. /\ Whole(d) /\ Current(d) = f /\ Len(d.chain) = 1
        /\ d.state = "INCOMPLETE" /\ d.bodySize = 0
    <3>1. Grows(Current(m), f)
      BY <2>2, <2>3, <2>7 DEF Grows
    <3> QED BY <2>3, <3>1, SetCurrentIs
  <2>10. d \in MessageRec
    BY <2>9 DEF Whole
  <2> HIDE DEF d, g
  <2>11. /\ g \in MessageRec /\ g.chain = d.chain /\ g.chunked = FALSE
         /\ g.state = "INCOMPLETE" /\ g.bodySize = 0
    BY <2>6, <2>8, <2>9, <2>10 DEF MessageRec
  <2>12. Current(g) = f
    BY <2>9, <2>11 DEF Current
  <2>13. EndsWithHeader(g) <=> stream.length = 0
    BY <1>1, <2>7, <2>11, <2>12 DEF EndsWithHeader
  <2>14. /\ q.chain = d.chain /\ q.chunked = FALSE /\ q.bodySize = 0
         /\ q.state = IF stream.length = 0 THEN "COMPLETE" ELSE "INCOMPLETE"
    BY <2>11, <2>13 DEF MessageRec
  <2>15. d.chain[1] = f
    BY <2>9, Zenon DEF Current, Last
  <2>16. (~BehindLine(start) /\ ~BehindLine(got))'
    BY <1>1 DEF BehindLine, Slice
  <2> HIDE DEF q
  <2>17. CASE stream.length = 0
    <3>1. stream.end = H
      BY <1>1, <2>17 DEF SizedRequest
    <3>2. Received'
      BY <1>1, <2>5, <2>7, <2>9, <2>14, <2>15, <2>17, <3>1 DEF Received
    <3> QED BY <2>16, <3>2 DEF InOrder
  <2>18. CASE stream.length # 0
    <3>1. stream.length > 0
      BY <2>6, <2>18
    <3>2. BehindHeader'
      BY <1>1, <2>5, <2>7, <2>9, <2>14, <2>15, <2>18, <3>1 DEF BehindHeader
    <3> QED BY <2>16, <3>2 DEF InOrder
  <2> QED BY <2>17, <2>18
<1> QED BY <1>11, <1>12

(* What a pass that meets the body begins with.                            *)
LEMMA BodyNodeIs ==
  ASSUME FInv, SizedRequest, BehindHeader \/ InBody,
         NEW a, a = AddNewNode(msg), NEW k, k = Current(a)
  PROVE  /\ Whole(a) /\ a.state = "INCOMPLETE" /\ Len(a.chain) = 2
         /\ ~a.chunked /\ a.chain[1].to = stream.head
         /\ k \in NodeRec /\ k.type = "BODY" /\ k.state = "INCOMPLETE"
         /\ k.from = stream.head /\ k.to = pos /\ ~k.chunkHeader
         /\ k.bodySize = stream.length /\ pos < stream.end
<1>1. Placed /\ Underway(msg) /\ msg.state = "INCOMPLETE" /\ stream \in Streams
  BY DEF FInv, BehindHeader, InBody, Placed
<1>2. /\ Whole(a) /\ a.state = "INCOMPLETE"
      /\ AtEdge(k) /\ Fits(k) /\ k.state = "INCOMPLETE"
  BY <1>1, AddNewNodeIs DEF Underway
<1>3. CASE InBody
  <2>1. /\ Len(msg.chain) = 2 /\ ~msg.chunked /\ msg.chain[2].type = "BODY"
        /\ msg.chain[2].state = "INCOMPLETE"
        /\ msg.chain[2].bodySize = stream.length
        /\ msg.chain[1].to = stream.head /\ pos < stream.end
    BY <1>3 DEF InBody
  <2>2. Current(msg) = msg.chain[2]
    BY <1>1, <2>1, WholeIs DEF Underway
  <2>3. a = msg
    BY <2>1, <2>2, Zenon DEF AddNewNode
  <2>4. msg.chain[2].from = msg.chain[1].to
    BY <1>1, <2>1 DEF Underway, Whole, Linked
  <2>5. k \in NodeRec /\ k.to = pos /\ ~k.chunkHeader
    BY <1>2, <2>1, <2>2, <2>3 DEF AtEdge, Fits
  <2> QED BY <1>1, <1>2, <2>1, <2>2, <2>3, <2>4, <2>5
<1>4. CASE BehindHeader
  <2> DEFINE h == msg.chain[1]
             e == NewNode("BODY", h.bodySize, pos)
             t == Append(msg.chain, e)
  <2>1. /\ Len(msg.chain) = 1 /\ ~msg.chunked /\ h.state = "COMPLETE"
        /\ h.bodySize = stream.length /\ stream.length > 0
        /\ pos = stream.head
    BY <1>4 DEF BehindHeader
  <2>2. /\ Current(msg) = h /\ h.type = "HEADER" /\ h \in NodeRec
        /\ h.to = pos /\ msg.chain \in Seq(NodeRec)
    BY <1>1, <2>1, WholeIs DEF Underway
  <2>3. a = [msg EXCEPT !.chain = t]
    BY <2>1, <2>2, Zenon DEF AddNewNode
  <2>4. stream.length \in Nat /\ "BODY" \in NodeTypes
    BY <1>1, StreamIs DEF NodeTypes
  <2>5. e \in NodeRec /\ e.type = "BODY" /\ e.from = pos /\ AtEdge(e) /\ Fits(e)
    BY <1>1, <2>1, <2>4, NewNodeIs
  <2>6. e.bodySize = h.bodySize
    BY DEF NewNode
  <2> HIDE DEF e
  <2>7. /\ t \in Seq(NodeRec) /\ Len(t) = 2 /\ t[1] = h /\ t[2] = e
    <3>1. 1 \in 1 .. 1 /\ 1 + 1 = 2
      OBVIOUS
    <3> QED BY <2>1, <2>2, <2>5, <3>1, AppendProperties
  <2> HIDE DEF t
  <2>8. a.chain = t /\ a.chunked = msg.chunked
    BY <1>1, <2>3, <2>7 DEF Underway, Whole, MessageRec
  <2>9. k = e
    BY <2>7, <2>8, Zenon DEF Current, Last
  <2>10. pos < stream.end
    BY <1>1, <2>1, <2>4, SizedIs DEF SizedRequest
  <2> QED BY <1>2, <2>1, <2>2, <2>5, <2>6, <2>7, <2>8, <2>9, <2>10
          DEF AtEdge, Fits
<1> QED BY <1>3, <1>4

LEMMA BodyPass ==
  ASSUME FInv, SizedRequest, InOrder, BehindHeader \/ InBody, Pass
  PROVE  InOrder'
<1> DEFINE H == stream.head
           E == stream.end
           a == AddNewNode(msg)
           k == Current(a)
           n == ConcatString(k)
           b == SetCurrent(a, n)
           e == [n EXCEPT !.state = "COMPLETE"]
           m == SetNodeComplete(b)
           c == IF BodyDone(n) THEN SetCurrent(b, e) ELSE b
           q == CompleteNode(m)
<1>1. /\ Placed /\ pos < got /\ pos \in Nat /\ got \in Nat
      /\ H \in Nat /\ E \in Nat /\ E = H + stream.length
      /\ stream.length \in Nat
      /\ stream \in Streams
      /\ ~BehindLine(start) /\ ~BehindLine(got)
      /\ UNCHANGED <<stream, got, start, before>>
      /\ stream.request
  <2>1. pos # got /\ msg.state = "INCOMPLETE"
    BY DEF Pass, Consumed
  <2>2. pos \in Nat /\ got \in Nat /\ pos <= got /\ stream \in Streams
    BY StreamIs DEF FInv, Placed
  <2>3. H \in Nat /\ E \in Nat /\ stream.length \in Nat
    BY <2>2, SizedIs
  <2> QED BY <2>1, <2>2, <2>3 DEF FInv, InOrder, Pass, SizedRequest
<1>2. /\ Whole(a) /\ a.state = "INCOMPLETE" /\ Len(a.chain) = 2
      /\ ~a.chunked /\ a.chain[1].to = H
      /\ k \in NodeRec /\ k.type = "BODY" /\ k.state = "INCOMPLETE"
      /\ k.from = H /\ k.to = pos /\ ~k.chunkHeader
      /\ k.bodySize = stream.length /\ pos < E
  BY BodyNodeIs
<1>3. PICK unset \in Unset :
        pos' = n.to /\ msg' = CompleteNode(ReadChunkHeader(m, unset))
  BY Zenon DEF Pass, ParseNode
<1>4. n = [k EXCEPT !.to = @ + BytesTaken(k.bodySize - Length(k))]
  <2>1. k.type \notin {"HEADER", "TRAILER"}
    BY <1>2
  <2>2. Btr(k) = k.bodySize - Length(k)
    BY <1>1, <1>2, Zenon DEF Btr
  <2>3. n = [k EXCEPT !.to = @ + BytesTaken(Btr(k))]
    BY <2>1, Zenon DEF ConcatString
  <2> QED BY <2>2, <2>3
<1> HIDE DEF a, k
<1>5. BytesTaken(k.bodySize - Length(k))
       = IF E <= got THEN E - pos ELSE got - pos
  <2> DEFINE btr == k.bodySize - Length(k)
  <2>1. btr = E - pos
    BY <1>1, <1>2 DEF Length
  <2>2. btr \in Nat /\ (btr <= got - pos <=> E <= got)
    BY <1>1, <1>2, <2>1
  <2> HIDE DEF btr
  <2>3. BytesTaken(btr) = IF btr <= got - pos THEN btr ELSE got - pos
    BY <1>1, <2>2, BytesTakenExact
  <2>4. BytesTaken(btr) = IF E <= got THEN E - pos ELSE got - pos
    BY <2>1, <2>2, <2>3
  <2> QED BY <2>4 DEF btr
<1>6. /\ n \in NodeRec /\ n.from = H /\ n.type = "BODY"
      /\ n.state = "INCOMPLETE" /\ n.bodySize = stream.length
      /\ ~n.chunkHeader
      /\ n.to = (IF E <= got THEN E ELSE got) /\ n.from <= n.to
  <2> DEFINE t == BytesTaken(k.bodySize - Length(k))
             z == k.to + t
  <2>1. z = IF E <= got THEN E ELSE got
    BY <1>1, <1>2, <1>5
  <2>2. z \in Nat
    BY <1>1, <2>1
  <2>3. n = [k EXCEPT !.to = z]
    BY <1>4
  <2> HIDE DEF z, n
  <2>4. n \in NodeRec
    BY <1>2, <2>2, <2>3 DEF NodeRec
  <2>5. /\ n.from = H /\ n.type = "BODY" /\ n.state = "INCOMPLETE"
        /\ n.to = z /\ n.bodySize = stream.length /\ ~n.chunkHeader
    BY <1>2, <2>3 DEF NodeRec
  <2>6. H <= pos
    <3>1. k.from <= k.to
      BY <1>2, WholeIs DEF k
    <3> QED BY <1>2, <3>1
  <2>7. n.from <= n.to
    BY <1>1, <1>2, <2>1, <2>5, <2>6
  <2> QED BY <2>1, <2>4, <2>5, <2>7
<1> HIDE DEF n
<1>7. /\ Whole(b) /\ Current(b) = n /\ Len(b.chain) = 2
      /\ b.state = "INCOMPLETE" /\ ~b.chunked /\ b.chain[1].to = H
  <2>1. Grows(Current(a), n)
    BY <1>2, <1>6 DEF Grows, k
  <2>4. b = SetCurrent(a, n) /\ Whole(a)
    BY <1>2
  <2> HIDE DEF b
  <2>2. /\ Whole(b) /\ Current(b) = n /\ Len(b.chain) = Len(a.chain)
        /\ b.state = a.state /\ b.chunked = a.chunked
        /\ Len(a.chain) > 1 => b.chain[1] = a.chain[1]
    BY <2>1, <2>4, SetCurrentIs
  <2>3. Len(a.chain) > 1
    BY <1>2
  <2> QED BY <1>2, <2>2, <2>3
<1> HIDE DEF b
<1>8. m = [c EXCEPT !.bodySize = n.bodySize]
  <2>1. n.type # "HEADER" /\ n.type # "TRAILER" /\ n.type # "CHUNK"
    BY <1>6
  <2> QED BY <1>6, <1>7, <2>1, Zenon DEF SetNodeComplete
<1>9. BodyDone(n) <=> E <= got
  BY <1>1, <1>2, <1>6 DEF BodyDone, Length
<1>10. /\ e \in NodeRec /\ e.from = H /\ e.type = "BODY" /\ e.to = n.to
       /\ e.state = "COMPLETE" /\ e.from <= e.to
       /\ e.bodySize = stream.length
  BY <1>6 DEF NodeRec, NodeStates
<1> HIDE DEF e
<1> DEFINE w == IF E <= got THEN e ELSE n
<1>11. /\ Whole(c) /\ Current(c) = w /\ Len(c.chain) = 2
       /\ c.state = "INCOMPLETE" /\ ~c.chunked /\ c.chain[1].to = H
  <2>1. CASE E <= got
    <3>1. c = SetCurrent(b, e)
      BY <1>9, <2>1
    <3>2. Grows(Current(b), e)
      BY <1>6, <1>7, <1>10 DEF Grows
    <3>3. Whole(b) /\ Len(b.chain) > 1
      BY <1>7
    <3> HIDE DEF c
    <3>4. /\ Whole(c) /\ Current(c) = e /\ Len(c.chain) = Len(b.chain)
          /\ c.state = b.state /\ c.chunked = b.chunked
          /\ Len(b.chain) > 1 => c.chain[1] = b.chain[1]
      BY <3>1, <3>2, <3>3, SetCurrentIs
    <3> QED BY <1>7, <2>1, <3>3, <3>4
  <2>2. CASE ~(E <= got)
    BY <1>7, <1>9, <2>2
  <2> QED BY <2>1, <2>2
<1>12. /\ w.type = "BODY" /\ w.to = n.to
       /\ w.state = IF E <= got THEN "COMPLETE" ELSE "INCOMPLETE"
       /\ w.bodySize = stream.length
  BY <1>6, <1>10
<1> HIDE DEF c, m, w
<1>13. /\ m.chain = c.chain /\ m.state = "INCOMPLETE" /\ ~m.chunked
       /\ m.bodySize = stream.length /\ m \in MessageRec
  BY <1>1, <1>6, <1>8, <1>11 DEF Whole, MessageRec
<1>14. Current(m) = w
  BY <1>11, <1>13 DEF Current
<1>15. ReadChunkHeader(m, unset) = m
  BY <1>12, <1>14, NoChunk
<1>16. q = IF E <= got THEN [m EXCEPT !.state = "COMPLETE"] ELSE m
  <2>1. CASE E <= got
    <3>1. w.state = "COMPLETE" /\ w.type # "HEADER" /\ w.type # "TRAILER"
          /\ w.type # "CHUNK" /\ w.type # "LCHUNK"
      BY <1>12, <2>1
    <3>2. q = [m EXCEPT !.state = "COMPLETE"]
      BY <1>14, <3>1, Zenon DEF CompleteNode
    <3> QED BY <2>1, <3>2
  <2>2. CASE ~(E <= got)
    <3>1. w.state # "COMPLETE"
      BY <1>12, <2>2
    <3>2. q = m
      BY <1>14, <3>1, Zenon DEF CompleteNode
    <3> QED BY <2>2, <3>2
  <2> QED BY <2>1, <2>2
<1>17. /\ q.chain = c.chain /\ ~q.chunked /\ q.bodySize = stream.length
       /\ q.state = IF E <= got THEN "COMPLETE" ELSE "INCOMPLETE"
  BY <1>13, <1>16 DEF MessageRec
<1>18. msg' = q /\ pos' = IF E <= got THEN E ELSE got
  BY <1>3, <1>6, <1>15
<1>19. c.chain[2] = w
  BY <1>11, Zenon DEF Current, Last
<1> HIDE DEF q
<1>20. (~BehindLine(start) /\ ~BehindLine(got))'
  BY <1>1 DEF BehindLine, Slice
<1>21. CASE E <= got
  <2>1. Received'
    BY <1>1, <1>6, <1>11, <1>12, <1>17, <1>18, <1>19, <1>21 DEF Received
  <2> QED BY <1>20, <2>1 DEF InOrder
<1>22. CASE ~(E <= got)
  <2>1. InBody'
    BY <1>1, <1>6, <1>11, <1>12, <1>17, <1>18, <1>19, <1>22 DEF InBody
  <2> QED BY <1>20, <2>1 DEF InOrder
<1> QED BY <1>21, <1>22

(* The body of a message that is not chunked is its second node.           *)
LEMMA BodyStringIs ==
  ASSUME NEW s \in Seq(NodeRec), Len(s) \in {0, 1},
         Len(s) = 1 => s[1].type = "BODY" /\ Str(s[1]) \in Seq(Bytes)
  PROVE  FoldLeft(LAMBDA body, n : body \o StringUnchunked(n), <<>>, s)
           = IF Len(s) = 0 THEN <<>> ELSE Str(s[1])
<1> DEFINE D == DOMAIN s
           Add(x, n) == x \o StringUnchunked(n)
           iter == CHOOSE g : g =
                     [t \in SUBSET D |->
                        IF t = {} THEN <<>>
                        ELSE g[t \ {Max(t)}] \o StringUnchunked(s[Max(t)])]
           h == [t \in SUBSET D |-> IF t = {} THEN <<>> ELSE Str(s[1])]
<1>1. D = 1 .. Len(s)
  BY LenProperties
<1>2. D = {} \/ (D = {1} /\ Len(s) = 1)
  <2>1. 1 .. 0 = {} /\ 1 .. 1 = {1}
    OBVIOUS
  <2> QED BY <1>1, <2>1
<1>3. FoldLeft(LAMBDA body, n : body \o StringUnchunked(n), <<>>, s) = iter[D]
  BY Zenon DEF FoldLeft, MapThenFoldSet
<1> HIDE DEF D
<1>4. ASSUME NEW t \in SUBSET D, t # {}
      PROVE  h[t] = h[t \ {Max(t)}] \o StringUnchunked(s[Max(t)])
  <2>1. t = {1} /\ D = {1} /\ Len(s) = 1
    BY <1>2, <1>4
  <2>2. Max(t) \in t
    <3>1. {1} \subseteq 0 .. 1 /\ {1} # {} /\ 1 \in Nat
      OBVIOUS
    <3> QED BY <2>1, <3>1, MaxIsGreatest
  <2>3. Max(t) = 1 /\ t \ {Max(t)} = {}
    BY <2>1, <2>2
  <2>4. h[t] = Str(s[1]) /\ h[{}] = <<>>
    BY <2>1
  <2>5. StringUnchunked(s[1]) = Str(s[1])
    BY <2>1 DEF StringUnchunked
  <2>6. <<>> \o Str(s[1]) = Str(s[1])
    BY <2>1, ConcatEmptySeq
  <2> HIDE DEF h
  <2> QED BY <2>3, <2>4, <2>5, <2>6
<1>5. h = [t \in SUBSET D |->
             IF t = {} THEN <<>>
             ELSE h[t \ {Max(t)}] \o StringUnchunked(s[Max(t)])]
  <2>1. \A t \in SUBSET D : t = {} => h[t] = <<>>
    OBVIOUS
  <2>2. h = [t \in SUBSET D |-> h[t]]
    OBVIOUS
  <2> HIDE DEF h
  <2>3. ASSUME NEW t \in SUBSET D
        PROVE  h[t] = IF t = {} THEN <<>>
                      ELSE h[t \ {Max(t)}] \o StringUnchunked(s[Max(t)])
    BY <1>4, <2>1, Zenon
  <2> QED BY <2>2, <2>3, Zenon
<1> HIDE DEF h
<1>6. iter = [t \in SUBSET D |->
                IF t = {} THEN <<>>
                ELSE iter[t \ {Max(t)}] \o StringUnchunked(s[Max(t)])]
  BY <1>5, Zenon
<1> HIDE DEF iter
<1>7. iter[{}] = <<>>
  <2>1. {} \in SUBSET D
    OBVIOUS
  <2> QED BY <1>6, <2>1, Zenon
<1>8. CASE D = {}
  <2>1. Len(s) = 0
    <3>1. 1 .. 1 # {}
      OBVIOUS
    <3> QED BY <1>1, <1>8, <3>1
  <2> QED BY <1>3, <1>7, <1>8, <2>1
<1>9. CASE D = {1} /\ Len(s) = 1
  <2>1. D \in SUBSET D /\ D # {}
    BY <1>9
  <2>2. iter[D] = iter[D \ {Max(D)}] \o StringUnchunked(s[Max(D)])
    BY <1>6, <2>1, Zenon
  <2>3. Max(D) = 1
    <3>1. {1} \subseteq 0 .. 1 /\ {1} # {} /\ 1 \in Nat
      OBVIOUS
    <3>2. Max(D) \in D
      BY <1>9, <3>1, MaxIsGreatest
    <3> QED BY <1>9, <3>2
  <2>4. D \ {Max(D)} = {}
    BY <1>9, <2>3
  <2>5. StringUnchunked(s[1]) = Str(s[1])
    BY <1>9 DEF StringUnchunked
  <2>6. <<>> \o Str(s[1]) = Str(s[1])
    BY <1>9, ConcatEmptySeq
  <2>7. iter[D] = iter[{}] \o StringUnchunked(s[1])
    BY <2>2, <2>3, <2>4, Zenon
  <2>8. iter[D] = Str(s[1])
    BY <1>7, <2>5, <2>6, <2>7, Zenon
  <2>9. Len(s) # 0
    BY <1>9
  <2> QED BY <1>3, <2>8, <2>9, Zenon
<1> QED BY <1>2, <1>8, <1>9

(* The invariant of the theorems below.                                    *)
GInv == FInv /\ (SizedRequest => InOrder)

LEMMA InitInOrder == Init => GInv
<1> SUFFICES ASSUME Init PROVE SizedRequest => InOrder
  BY InitFraming DEF GInv
<1> SUFFICES ASSUME SizedRequest PROVE InOrder
  OBVIOUS
<1>1. /\ stream \in Streams /\ got = 0 /\ start = 0 /\ pos = 0
      /\ msg = NewMessage
  BY DEF Init
<1>2. stream.head \in Nat /\ stream.head >= 4
  BY <1>1, SizedIs
<1>3. /\ msg.state = "INCOMPLETE" /\ Len(msg.chain) = 1
      /\ msg.chain[1].state = "INCOMPLETE" /\ msg.bodySize = 0
  BY <1>1 DEF NewMessage, NewNode
<1>4. InHeader
  BY <1>1, <1>2, <1>3 DEF InHeader
<1>5. ~BehindLine(0)
  <2>1. 0 \in 0 .. Len(stream.bytes) /\ 0 \in Nat
    BY <1>1, StreamIs
  <2>2. Slice(0, 0) \in Seq(Bytes) /\ Len(Slice(0, 0)) = 0
    BY <1>1, <2>1, SliceIs
  <2>3. ~IsSuffix(LineEnd, Slice(0, 0))
    <3>1. LineEnd \in Seq(Bytes) /\ Len(LineEnd) = 2
      BY LineEndIs
    <3>2. IsSuffix(LineEnd, Slice(0, 0)) => Len(LineEnd) <= Len(Slice(0, 0))
      BY <2>2, <3>1, SuffixIs
    <3> QED BY <2>2, <3>1, <3>2
  <2> QED BY <2>3 DEF BehindLine
<1> QED BY <1>1, <1>4, <1>5 DEF InOrder

LEMMA NextInOrder ==
  ASSUME ~LineCuts, GInv, [Next]_vars
  PROVE  GInv'
<1>1. FInv /\ FInv'
  BY NextFraming DEF GInv
<1>2. stream' = stream
  BY DEF Next, ReceiveBuffer, Pass, EndOfStream, vars
<1> SUFFICES ASSUME SizedRequest PROVE InOrder'
  BY <1>1, <1>2 DEF GInv, SizedRequest, BlankLineAt, Slice
<1>3. InOrder
  BY DEF GInv
<1>4. CASE ReceiveBuffer
  <2>1. /\ start' = got /\ UNCHANGED <<stream, pos, msg>>
        /\ msg.state = "INCOMPLETE" /\ Consumed
    BY <1>4 DEF ReceiveBuffer
  <2>2. pos = got
    BY <2>1 DEF Consumed
  <2>3. ~BehindLine(got)'
    <3>1. PICK k \in 1 .. Min({MaxLine, Len(stream.bytes) - got}) :
             (BehindLine(got + k) => LineCuts) /\ got' = got + k
      BY <1>4 DEF ReceiveBuffer
    <3>2. ~BehindLine(got + k)
      BY <3>1
    <3> QED BY <2>1, <3>1, <3>2 DEF BehindLine, Slice
  <2>4. ~BehindLine(start)'
    BY <1>3, <2>1 DEF InOrder, BehindLine, Slice
  <2>5. ~Received
    BY <2>1 DEF Received
  <2>6. InHeader => InHeader'
    BY <2>1, <2>2 DEF InHeader
  <2>7. /\ BehindHeader => BehindHeader'
        /\ InBody => InBody'
    BY <2>1 DEF BehindHeader, InBody
  <2> QED BY <1>3, <2>3, <2>4, <2>5, <2>6, <2>7 DEF InOrder
<1>5. CASE Pass
  <2>1. msg.state = "INCOMPLETE"
    BY <1>5 DEF Pass, Consumed
  <2>2. ~Received
    BY <2>1 DEF Received
  <2>3. CASE InHeader
    BY <1>1, <1>3, <1>5, <2>3, HeaderPass
  <2>4. CASE BehindHeader \/ InBody
    BY <1>1, <1>3, <1>5, <2>4, BodyPass
  <2> QED BY <1>3, <2>2, <2>3, <2>4 DEF InOrder
<1>6. CASE EndOfStream
  BY <1>6 DEF EndOfStream, SizedRequest
<1>7. CASE UNCHANGED vars
  <2>1. UNCHANGED <<stream, got, start, pos, msg>>
    BY <1>7 DEF vars
  <2> QED BY <1>3, <2>1 DEF InOrder, InHeader, BehindHeader, InBody, Received,
                            BehindLine, Slice
<1> QED BY <1>4, <1>5, <1>6, <1>7 DEF Next

LEMMA SizedSafety ==
  ASSUME GInv, SizedRequest
  PROVE  FramedAsSent /\ CompleteWhenDelivered /\ BodySizeExact
<1> DEFINE H == stream.head
           E == stream.end
           s == Tail(msg.chain)
<1>1. /\ FInv /\ InOrder /\ Placed /\ Whole(msg) /\ stream \in Streams
      /\ pos \in Nat /\ got \in Nat /\ pos <= got
  BY StreamIs DEF GInv, FInv, Placed
<1>2. /\ H \in Nat /\ E \in Nat /\ H <= E /\ E <= Len(stream.bytes)
      /\ stream.length \in Nat /\ E = H + stream.length
      /\ stream.body = Slice(H, E)
  BY <1>1, SizedIs DEF SizedRequest
<1>3. /\ Slice(H, E) \in Seq(Bytes) /\ Len(Slice(H, E)) = stream.length
  <2>1. E \in 0 .. Len(stream.bytes)
    BY <1>1, <1>2, StreamIs
  <2>2. Slice(H, E) \in Seq(Bytes) /\ Len(Slice(H, E)) = E - H
    BY <1>1, <1>2, <2>1, SliceIs
  <2> QED BY <1>2, <2>2
<1>4. FramedAsSent
  <2> SUFFICES ASSUME msg.state = "COMPLETE"
               PROVE  /\ Str(msg.chain[1]) = Slice(0, H)
                      /\ BodyString(msg) = stream.body
                      /\ pos = E
    BY DEF FramedAsSent
  <2>1. Received
    BY <1>1 DEF InOrder, InHeader, BehindHeader, InBody
  <2>2. Str(msg.chain[1]) = Slice(0, H)
    <3>1. msg.chain[1].from = 0
      BY <1>1 DEF Whole, Linked
    <3> QED BY <2>1, <3>1 DEF Received, Str
  <2>3. msg.chain \in Seq(NodeRec) /\ Len(msg.chain) \in {1, 2}
    BY <1>1, <2>1, WholeIs DEF Received
  <2>4. /\ s \in Seq(NodeRec) /\ Len(s) = Len(msg.chain) - 1
        /\ \A i \in 1 .. Len(s) : s[i] = msg.chain[i + 1]
    <3>1. msg.chain # <<>>
      <4>1. \A n \in {1, 2} : n # 0
        OBVIOUS
      <4>2. Len(<<>>) = 0
        OBVIOUS
      <4> QED BY <2>3, <4>1, <4>2, Zenon
    <3>2. /\ Tail(msg.chain) \in Seq(NodeRec)
          /\ Len(Tail(msg.chain)) = Len(msg.chain) - 1
          /\ \A i \in 1 .. Len(Tail(msg.chain)) :
               Tail(msg.chain)[i] = msg.chain[i + 1]
      BY <2>3, <3>1, HeadTailProperties
    <3> QED BY <3>2
  <2>5. BodyString(msg)
          = FoldLeft(LAMBDA body, n : body \o StringUnchunked(n), <<>>, s)
    BY DEF BodyString
  <2> HIDE DEF s
  <2>6. CASE Len(msg.chain) = 1
    <3>1. Len(s) = 0 /\ Len(s) \in {0, 1} /\ Len(s) # 1
      BY <2>4, <2>6
    <3>2. FoldLeft(LAMBDA body, n : body \o StringUnchunked(n), <<>>, s) = <<>>
      BY <2>4, <3>1, BodyStringIs
    <3>3. stream.length = 0
      BY <2>1, <2>6 DEF Received
    <3>4. Slice(H, E) = <<>>
      BY <1>3, <3>3, EmptySeq
    <3> QED BY <1>2, <2>1, <2>2, <2>5, <3>2, <3>4 DEF Received
  <2>7. CASE Len(msg.chain) = 2
    <3>1. Len(s) = 1 /\ s[1] = msg.chain[2]
      <4>1. Len(s) = 1
        BY <2>4, <2>7
      <4>2. 1 \in 1 .. 1 /\ 1 + 1 = 2
        OBVIOUS
      <4> QED BY <2>4, <4>1, <4>2
    <3>2. /\ s[1].type = "BODY" /\ s[1].from = H /\ s[1].to = E
      <4>1. 2 \in 2 .. 2 /\ 2 - 1 = 1
        OBVIOUS
      <4>2. msg.chain[2].from = msg.chain[1].to
        BY <1>1, <2>7, <4>1 DEF Whole, Linked
      <4> QED BY <2>1, <2>7, <3>1, <4>2 DEF Received
    <3>3. Str(s[1]) = Slice(H, E)
      BY <3>2 DEF Str
    <3>4. FoldLeft(LAMBDA body, n : body \o StringUnchunked(n), <<>>, s)
            = Str(s[1])
      <4>1. Len(s) \in {0, 1} /\ Len(s) # 0
        BY <3>1
      <4> QED BY <1>3, <2>4, <3>2, <3>3, <4>1, BodyStringIs
    <3> QED BY <1>2, <2>1, <2>2, <2>5, <3>3, <3>4 DEF Received
  <2> QED BY <2>3, <2>6, <2>7
<1>5. CompleteWhenDelivered
  <2> SUFFICES ASSUME got >= E, Consumed, msg.state # "COMPLETE" PROVE FALSE
    BY DEF CompleteWhenDelivered
  <2>1. InHeader \/ BehindHeader \/ InBody
    BY <1>1 DEF InOrder, Received
  <2>2. pos = got
    BY <2>1 DEF Consumed, InHeader, BehindHeader, InBody
  <2>3. pos < E
    BY <1>1, <1>2, <2>1 DEF InHeader, BehindHeader, InBody
  <2> QED BY <1>1, <1>2, <2>2, <2>3
<1>6. BodySizeExact
  <2>1. msg.state = "COMPLETE" => msg.bodySize = stream.length
    BY <1>1 DEF InOrder, InHeader, BehindHeader, InBody, Received
  <2> QED BY <1>2, <1>3, <2>1 DEF BodySizeExact
<1> QED BY <1>4, <1>5, <1>6

(* However recv cuts a request with a Content-Length into buffers, but for *)
(* a cut behind a line of its header: when bufferToNodes calls it complete *)
(* its header and body are what was sent, and no byte behind it was taken. *)
THEOREM RequestsAsSent ==
  ASSUME ~LineCuts
  PROVE  Spec => [](SizedRequest => FramedAsSent)
<1>1. GInv /\ [Next]_vars => GInv'
  BY NextInOrder
<1>2. GInv => (SizedRequest => FramedAsSent)
  BY SizedSafety
<1> QED BY <1>1, <1>2, InitInOrder, PTL DEF Spec

(* ... and it calls it so as soon as its last byte is there: the server    *)
(* does not wait for bytes nobody will send.                               *)
THEOREM RequestsCompleteInTime ==
  ASSUME ~LineCuts
  PROVE  Spec => [](SizedRequest => CompleteWhenDelivered)
<1>1. GInv /\ [Next]_vars => GInv'
  BY NextInOrder
<1>2. GInv => (SizedRequest => CompleteWhenDelivered)
  BY SizedSafety
<1> QED BY <1>1, <1>2, InitInOrder, PTL DEF Spec

(* ... and what _checkBodySizeLimit compares with the limit is the size of *)
(* the body that was sent.                                                 *)
THEOREM RequestsAreMeasured ==
  ASSUME ~LineCuts
  PROVE  Spec => [](SizedRequest => BodySizeExact)
<1>1. GInv /\ [Next]_vars => GInv'
  BY NextInOrder
<1>2. GInv => (SizedRequest => BodySizeExact)
  BY SizedSafety
<1> QED BY <1>1, <1>2, InitInOrder, PTL DEF Spec
=============================================================================
