--------------------------- MODULE Service_proofs ---------------------------
(***************************************************************************)
(* What is proved of the chain a response is sent as and of the files, for *)
(* every value of the constants of Service: any configuration, requests    *)
(* and files, any size of a body, of a chunk and of a header, any number   *)
(* of requests served and of changes by somebody else between two calls.   *)
(***************************************************************************)
EXTENDS Service, DataLemmas

-----------------------------------------------------------------------------
(* Arithmetic.                                                             *)

LEMMA ProductsGrow ==
  ASSUME NEW x \in Int, NEW y \in Int, NEW k \in Nat, x <= y
  PROVE  k * x <= k * y
<1>1. k * (y - x) >= 0 OBVIOUS
<1>2. k * (y - x) = k * y - k * x OBVIOUS
<1> QED BY <1>1, <1>2

(* The division rounded up is the least number of parts that is enough.    *)
LEMMA CeilingBounds ==
  ASSUME NEW a \in Nat, NEW b \in Nat \ {0}
  PROVE  /\ Ceiling(a, b) \in Nat
         /\ a <= b * Ceiling(a, b)
         /\ b * Ceiling(a, b) < a + b
         /\ a > 0 => Ceiling(a, b) > 0
<1> DEFINE q == (a + b - 1) \div b
<1>1. q \in Int /\ b * q <= a + b - 1 /\ a + b - 1 < b * q + b
  OBVIOUS
<1>2. ASSUME q < 0 PROVE FALSE
  <2>1. b * q <= b * (-1) BY <1>1, <1>2, ProductsGrow
  <2> QED BY <1>1, <2>1
<1>3. ASSUME a > 0, q <= 0 PROVE FALSE
  <2>1. b * q <= b * 0 BY <1>1, <1>3, ProductsGrow
  <2> QED BY <1>1, <1>3, <2>1
<1> QED BY <1>1, <1>2, <1>3 DEF Ceiling

(* A part of a body is not empty and fits in a chunk.                      *)
LEMMA PartFits ==
  ASSUME NEW size \in Nat \ {0}
  PROVE  CalcOptimalChunkSize(size) \in 1 .. MAX_CHUNKSIZE
<1> DEFINE k == Ceiling(size, MAX_CHUNKSIZE)
           part == Ceiling(size, k)
<1>1. k \in Nat \ {0} /\ size <= MAX_CHUNKSIZE * k
  BY CeilingBounds, SizesAssumption
<1> HIDE DEF k
<1>2. part \in Nat \ {0} /\ k * part < size + k
  BY CeilingBounds, <1>1
<1>3. ASSUME part > MAX_CHUNKSIZE PROVE FALSE
  <2>1. k * (MAX_CHUNKSIZE + 1) <= k * part
    BY <1>1, <1>2, <1>3, ProductsGrow, SizesAssumption
  <2>2. k * (MAX_CHUNKSIZE + 1) = MAX_CHUNKSIZE * k + k
    BY <1>1, SizesAssumption
  <2> QED BY <1>1, <1>2, <2>1, <2>2, SizesAssumption
<1> QED BY <1>1, <1>2, <1>3, SizesAssumption DEF CalcOptimalChunkSize, k

-----------------------------------------------------------------------------
(* The chunks of a body.                                                   *)

LEMMA DigitsCount ==
  ASSUME NEW n \in Nat
  PROVE  HexDigits(n) \in Nat
<1> DEFINE Powers == { d \in 1 .. 7 : 16 ^ d <= n }
<1>1. IsFiniteSet(1 .. 7)
  <2>1. 1 \in Int /\ 7 \in Int
    OBVIOUS
  <2> QED BY <2>1, FS_Interval, Zenon
<1>2. IsFiniteSet(Powers)
  BY <1>1, FS_Subset, Zenon
<1>3. Cardinality(Powers) \in Nat
  BY <1>2, FS_CardinalityType
<1> HIDE DEF Powers
<1>4. 1 + Cardinality(Powers) \in Nat
  BY <1>3
<1> QED BY <1>4 DEF HexDigits, Powers

(* Tail of a sequence that begins with one more element.                   *)
LEMMA TailOfJoined ==
  ASSUME NEW S, NEW a \in S, NEW s \in Seq(S)
  PROVE  /\ Tail(<< a >> \o s) = s
         /\ (<< a >> \o s)[1] = a
<1> DEFINE t == << a >> \o s
<1>1. t \in Seq(S) /\ Len(t) = Len(s) + 1 /\ t[1] = a
  OBVIOUS
<1>2. \A i \in 1 .. Len(s) : t[i + 1] = s[i]
  OBVIOUS
<1>3. Tail(t) \in Seq(S) /\ Len(Tail(t)) = Len(s)
  BY <1>1
<1>4. \A i \in 1 .. Len(s) : Tail(t)[i] = s[i]
  BY <1>1, <1>2
<1>5. Tail(t) = s
  BY <1>3, <1>4, SeqEqual
<1> QED BY <1>1, <1>5

(* The chunks follow one another and end where the body ends.              *)
LEMMA ChunksFollow ==
  ASSUME NEW size \in Nat \ {0}
  PROVE  LET body == BodyToChunks(size)
         IN /\ Len(body) \in Nat \ {0, 1}
            /\ body \in Seq({ body[i] : i \in 1 .. Len(body) })
            /\ body[Len(body)] = LastChunk(size)
            /\ body[1].from = 0
            /\ \A i \in 1 .. Len(body) : body[i].size \in Nat \ {0}
            /\ \A i \in 1 .. Len(body) - 1 :
                 /\ body[i].type = "CHUNK"
                 /\ body[i].payload \in 1 .. MAX_CHUNKSIZE
                 /\ body[i + 1].from = body[i].from + body[i].payload
<1> DEFINE part == CalcOptimalChunkSize(size)
           n    == Ceiling(size, part)
           Left(i) == size - (i - 1) * part
           Part(i) == IF Left(i) > part THEN part ELSE Left(i)
           Chunk(i) == ChunkNode((i - 1) * part, Part(i))
           chunks == [i \in 1 .. n |-> Chunk(i)]
           Nodes  == { Chunk(i) : i \in 1 .. n } \cup { LastChunk(size) }
           body   == chunks \o << LastChunk(size) >>
<1>1. part \in 1 .. MAX_CHUNKSIZE /\ part \in Nat \ {0}
  BY PartFits, SizesAssumption
<1>2. BodyToChunks(size) = body
  BY DEF BodyToChunks
<1> HIDE DEF part
<1>3. n \in Nat \ {0} /\ size <= part * n /\ part * n < size + part
  <2>1. size \in Nat /\ size > 0
    OBVIOUS
  <2>2. /\ n \in Nat
        /\ size <= part * n
        /\ part * n < size + part
        /\ size > 0 => n > 0
    BY <1>1, <2>1, CeilingBounds, Zenon
  <2> HIDE DEF n
  <2> QED BY <2>1, <2>2
<1> HIDE DEF n
<1>4. chunks \in Seq(Nodes) /\ Len(chunks) = n /\ LastChunk(size) \in Nodes
  <2> HIDE DEF Chunk
  <2> QED BY <1>3
<1>5. \A i \in 1 .. n : chunks[i] = Chunk(i)
  OBVIOUS
<1> HIDE DEF chunks, Nodes
<1>6. /\ body \in Seq(Nodes)
      /\ Len(body) = n + 1
      /\ body[n + 1] = LastChunk(size)
      /\ \A i \in 1 .. n : body[i] = chunks[i]
  <2> HIDE DEF Chunk
  <2> QED BY <1>3, <1>4
<1> HIDE DEF body
<1>7. ASSUME NEW i \in 1 .. n
      PROVE  /\ body[i].type = "CHUNK"
             /\ body[i].from = (i - 1) * part
             /\ body[i].payload = Part(i)
             /\ body[i].size = HexDigits(Part(i)) + 4 + Part(i)
  <2>1. body[i] = ChunkNode((i - 1) * part, Part(i))
    BY <1>5, <1>6, Zenon
  <2> HIDE DEF Part
  <2> QED BY <2>1 DEF ChunkNode, Node
<1>8. \A i \in 1 .. n - 1 : Part(i) = part
  <2> SUFFICES ASSUME NEW i \in 1 .. n - 1 PROVE Left(i) > part
    OBVIOUS
  <2>1. part * i <= part * (n - 1)
    BY <1>1, <1>3, ProductsGrow
  <2>2. part * (n - 1) = part * n - part /\ (i - 1) * part = part * i - part
    BY <1>1, <1>3
  <2> QED BY <1>1, <1>3, <2>1, <2>2
<1>9. Part(n) = Left(n) /\ Left(n) \in 1 .. part
  <2>1. (n - 1) * part = part * n - part
    BY <1>1, <1>3
  <2> QED BY <1>1, <1>3, <2>1
<1>10. ASSUME NEW i \in 1 .. n
       PROVE  /\ body[i].payload \in 1 .. MAX_CHUNKSIZE
              /\ body[i + 1].from = body[i].from + body[i].payload
  <2>1. CASE i = n
    <3>1. body[i + 1].from = size
      BY <1>6, <2>1 DEF LastChunk, Node
    <3>2. body[i].payload = Left(n) /\ body[i].from = (n - 1) * part
      BY <1>7, <1>9, <2>1
    <3> DEFINE m == (n - 1) * part
    <3>3. m \in Int
      BY <1>1, <1>3
    <3>4. size - m \in 1 .. part
      BY <1>9
    <3>5. body[i].payload = size - m /\ body[i].from = m
      BY <3>2
    <3> HIDE DEF m, Left
    <3> QED BY <1>1, <3>1, <3>3, <3>4, <3>5, SizesAssumption
  <2>2. CASE i # n
    <3>1. i \in 1 .. n - 1 /\ i + 1 \in 1 .. n BY <1>3, <2>2
    <3>2. body[i].payload = part BY <1>7, <1>8, <3>1
    <3>3. body[i + 1].from = i * part BY <1>7, <3>1
    <3>4. (i - 1) * part + part = i * part BY <1>1
    <3> QED BY <1>1, <1>7, <3>2, <3>3, <3>4
  <2> QED BY <2>1, <2>2
<1>11. body[1].from = 0
  BY <1>1, <1>3, <1>7
<1>12. body \in Seq({ body[i] : i \in 1 .. Len(body) })
  BY <1>6
<1>13. ASSUME NEW i \in 1 .. n + 1 PROVE body[i].size \in Nat \ {0}
  <2>1. CASE i = n + 1
    BY <1>6, <2>1 DEF LastChunk, Node
  <2>2. CASE i # n + 1
    <3>1. i \in 1 .. n
      BY <1>3, <2>2
    <3>2. Part(i) \in Nat
      <4>1. body[i].payload = Part(i) /\ body[i].payload \in 1 .. MAX_CHUNKSIZE
        BY <1>7, <1>10, <3>1
      <4> HIDE DEF Part
      <4> QED BY <4>1, SizesAssumption
    <3>3. body[i].size = HexDigits(Part(i)) + 4 + Part(i)
      BY <1>7, <3>1
    <3> HIDE DEF Part
    <3> QED BY <3>2, <3>3, DigitsCount
  <2> QED BY <2>1, <2>2
<1> QED BY <1>2, <1>3, <1>6, <1>7, <1>10, <1>11, <1>12, <1>13

(* Whatever the sizes: what stringsToChain makes of a header and a body    *)
(* tells a receiver the body and its end.  It is sent by its length, or in *)
(* chunks that join to it in order, none of them empty or longer than      *)
(* MAX_CHUNKSIZE, with an empty one at the end.                            *)
THEOREM ChainFramesBody ==
  ASSUME NEW size \in Nat
  PROVE  FramesBody(StringsToChain(size), size)
<1> DEFINE header == Node("HEADER", HeaderSize, 0, 0)
           whole  == << Node("BODY", size, 0, size) >>
           parts  == BodyToChunks(size)
           chain  == StringsToChain(size)
<1>1. CASE size < MAX_BODY_SIZE
  <2>1. chain = << header >> \o whole
    BY <1>1 DEF StringsToChain
  <2>2. header \in { header } \cup { whole[1] }
        /\ whole \in Seq({ header } \cup { whole[1] })
    <3> HIDE DEF header
    <3> QED BY DEF Node
  <2>3. Tail(chain) = whole /\ chain[1] = header
    <3> HIDE DEF chain, header, whole
    <3> QED BY <2>1, <2>2, TailOfJoined
  <2>4. /\ chain[1].type = "HEADER"
        /\ Len(whole) = 1
        /\ whole[1].type = "BODY" /\ whole[1].size = size
    BY <2>3 DEF Node
  <2> HIDE DEF whole, chain, header
  <2> QED BY <2>3, <2>4 DEF FramesBody, chain
<1>2. CASE ~ size < MAX_BODY_SIZE
  <2>1. size \in Nat \ {0}
    BY <1>2, SizesAssumption
  <2>2. chain = << header >> \o parts
    BY <1>2 DEF StringsToChain
  <2> DEFINE Nodes == { parts[i] : i \in 1 .. Len(parts) }
  <2>3. /\ Len(parts) \in Nat \ {0, 1}
        /\ parts \in Seq(Nodes)
        /\ parts[Len(parts)] = LastChunk(size)
        /\ parts[1].from = 0
        /\ \A i \in 1 .. Len(parts) - 1 :
             /\ parts[i].type = "CHUNK"
             /\ parts[i].payload \in 1 .. MAX_CHUNKSIZE
             /\ parts[i + 1].from = parts[i].from + parts[i].payload
    BY <2>1, ChunksFollow
  <2> HIDE DEF parts
  <2>4. parts \in Seq(Nodes \cup { header })
    <3> HIDE DEF Nodes, header
    <3> QED BY <2>3
  <2>5. Tail(chain) = parts /\ chain[1] = header
    <3> HIDE DEF Nodes, header
    <3> QED BY <2>2, <2>4, TailOfJoined
  <2>6. chain[1].type = "HEADER"
    BY <2>5 DEF Node
  <2>7. parts[Len(parts)].type = "LCHUNK" /\ parts[Len(parts)].from = size
    BY <2>3 DEF LastChunk, Node
  <2> HIDE DEF chain, header
  <2> QED BY <2>3, <2>5, <2>6, <2>7 DEF FramesBody, chain
<1> QED BY <1>1, <1>2

-----------------------------------------------------------------------------
(* The bytes of the nodes.                                                 *)

(* Only the last node of a chain may be empty.                             *)
LEMMA ChainSizes ==
  ASSUME NEW size \in Nat
  PROVE  LET chain == StringsToChain(size)
         IN /\ Len(chain) \in Nat \ {0}
            /\ DOMAIN chain = 1 .. Len(chain)
            /\ chain[1].size > 0
            /\ \A i \in 1 .. Len(chain) :
                 chain[i].size \in Nat /\ (chain[i].size = 0 => i = Len(chain))
<1> DEFINE header == Node("HEADER", HeaderSize, 0, 0)
           whole  == << Node("BODY", size, 0, size) >>
           parts  == BodyToChunks(size)
           chain  == StringsToChain(size)
<1>1. header.size \in Nat \ {0}
  BY SizesAssumption DEF Node
<1>2. CASE size < MAX_BODY_SIZE
  <2>1. chain = << header >> \o whole
    BY <1>2 DEF StringsToChain
  <2>2. Len(chain) = 2 /\ chain[1] = header /\ chain[2] = whole[1]
    <3> HIDE DEF header
    <3> QED BY <2>1
  <2>3. whole[1].size = size
    BY DEF Node
  <2> HIDE DEF header, chain, whole
  <2> QED BY <1>1, <2>2, <2>3 DEF chain
<1>3. CASE ~ size < MAX_BODY_SIZE
  <2>1. size \in Nat \ {0}
    BY <1>3, SizesAssumption
  <2>2. chain = << header >> \o parts
    BY <1>3 DEF StringsToChain
  <2>3. /\ Len(parts) \in Nat \ {0, 1}
        /\ parts \in Seq({ parts[i] : i \in 1 .. Len(parts) })
        /\ \A i \in 1 .. Len(parts) : parts[i].size \in Nat \ {0}
    BY <2>1, ChunksFollow
  <2> HIDE DEF parts
  <2> DEFINE Nodes == { parts[i] : i \in 1 .. Len(parts) } \cup { header }
  <2>4. parts \in Seq(Nodes) /\ header \in Nodes
    <3> HIDE DEF header
    <3> QED BY <2>3
  <2> HIDE DEF Nodes, header
  <2>5. /\ Len(chain) = Len(parts) + 1
        /\ chain[1] = header
        /\ \A i \in 2 .. Len(parts) + 1 : chain[i] = parts[i - 1]
    BY <2>2, <2>4
  <2> HIDE DEF chain
  <2>6. ASSUME NEW i \in 1 .. Len(chain)
        PROVE  chain[i].size \in Nat \ {0}
    <3>1. CASE i = 1
      BY <1>1, <2>5, <3>1
    <3>2. CASE i # 1
      <4>1. i \in 2 .. Len(parts) + 1 /\ i - 1 \in 1 .. Len(parts)
        BY <2>3, <2>5, <3>2
      <4> QED BY <2>3, <2>5, <4>1
    <3> QED BY <3>1, <3>2
  <2> QED BY <2>3, <2>5, <2>6 DEF chain
<1> QED BY <1>2, <1>3

-----------------------------------------------------------------------------
(* Sending.                                                                *)

(* The wire when the iterator is at node it and n bytes of it are sent.    *)
Whole(chain, i) == Sent(i, 0, chain[i].size)

WireUpTo(chain, it, n) ==
  [i \in 1 .. (IF n = 0 THEN it - 1 ELSE it) |->
     IF i < it THEN Whole(chain, i) ELSE Sent(i, 0, n)]

(* The message is on its way: every node before the iterator was sent once *)
(* and whole, and the bytes of the present one that are counted as sent.   *)
Underway(o, size) ==
  /\ DOMAIN o = {"chain", "it", "bytesSent", "wire"}
  /\ o.chain = StringsToChain(size)
  /\ o.it \in 1 .. Len(o.chain) + 1
  /\ o.bytesSent \in Nat
  /\ o.bytesSent > 0 =>
       o.it <= Len(o.chain) /\ o.bytesSent < o.chain[o.it].size
  /\ o.wire = WireUpTo(o.chain, o.it, o.bytesSent)

LEMMA StartsUnderway ==
  ASSUME NEW size \in Nat
  PROVE  Underway(StartSending(size), size) /\ ~AllSent(StartSending(size))
<1> DEFINE o == StartSending(size)
<1>1. /\ DOMAIN o = {"chain", "it", "bytesSent", "wire"}
      /\ o.chain = StringsToChain(size)
      /\ o.it = 1 /\ o.bytesSent = 0 /\ o.wire = <<>>
  BY DEF StartSending
<1> HIDE DEF o
<1>2. Len(o.chain) \in Nat \ {0} /\ o.chain[1].size > 0
  BY <1>1, ChainSizes
<1>3. WireUpTo(o.chain, 1, 0) = <<>>
  BY DEF WireUpTo
<1>4. Underway(o, size)
  BY <1>1, <1>2, <1>3 DEF Underway
<1>5. ~AllSent(o)
  <2>1. o.chain[1].size \in Nat
    BY <1>1, <1>2, ChainSizes
  <2>2. ~ 1 > Len(o.chain) /\ ~ 0 >= o.chain[1].size
    BY <1>2, <2>1
  <2> QED BY <1>1, <2>2 DEF AllSent
<1> QED BY <1>4, <1>5 DEF o

(* What send takes continues the wire.                                     *)
LEMMA WireContinues ==
  ASSUME NEW chain, NEW it \in Nat \ {0}, NEW k \in Nat, NEW n \in Nat \ {0},
         \A i \in 1 .. it : chain[i].size \in Nat
  PROVE  OnWire(WireUpTo(chain, it, k), it, k, n) = WireUpTo(chain, it, k + n)
<1> DEFINE old == WireUpTo(chain, it, k)
           new == WireUpTo(chain, it, k + n)
           Parts == { Whole(chain, i) : i \in 1 .. it }
                      \cup { Sent(it, 0, k), Sent(it, 0, k + n), Sent(it, k, n) }
<1>1. new = [i \in 1 .. it |-> IF i < it THEN Whole(chain, i)
                               ELSE Sent(i, 0, k + n)]
  BY DEF WireUpTo
<1>2. new \in Seq(Parts) /\ Len(new) = it /\ new[it] = Sent(it, 0, k + n)
      /\ \A i \in 1 .. it - 1 : new[i] = Whole(chain, i)
  <2> HIDE DEF new
  <2>1. \A i \in 1 .. it : new[i] \in Parts
    BY <1>1
  <2> HIDE DEF Parts
  <2> QED BY <1>1, <2>1
<1>3. CASE k = 0
  <2>1. old = [i \in 1 .. it - 1 |-> Whole(chain, i)]
    BY <1>3 DEF WireUpTo
  <2>2. old \in Seq(Parts) /\ Len(old) = it - 1
        /\ \A i \in 1 .. it - 1 : old[i] = Whole(chain, i)
    <3> HIDE DEF old
    <3>1. \A i \in 1 .. it - 1 : old[i] \in Parts
      BY <2>1
    <3> HIDE DEF Parts
    <3> QED BY <2>1, <3>1
  <2> HIDE DEF old, new
  <2>3. ASSUME old # <<>> PROVE Last(old).node # it
    <3>1. it - 1 \in 1 .. it - 1
      BY <2>2, <2>3
    <3>2. Last(old) = Whole(chain, it - 1)
      BY <2>2, <3>1 DEF Last
    <3> QED BY <3>2 DEF Whole, Sent
  <2>4. OnWire(old, it, k, n) = Append(old, Sent(it, k, n))
    BY <2>3 DEF OnWire
  <2>5. Sent(it, k, n) = Sent(it, 0, k + n) /\ Sent(it, k, n) \in Parts
    BY <1>3
  <2> DEFINE s == Append(old, Sent(it, k, n))
  <2>6. s \in Seq(Parts) /\ Len(s) = it /\ s[it] = Sent(it, k, n)
        /\ \A i \in 1 .. it - 1 : s[i] = old[i]
    <3> HIDE DEF Parts
    <3> QED BY <2>2, <2>5
  <2> HIDE DEF s, Parts
  <2>7. \A i \in 1 .. it : s[i] = new[i]
    BY <1>2, <2>2, <2>5, <2>6
  <2>8. s = new
    BY <1>2, <2>6, <2>7, SeqEqual
  <2> QED BY <2>4, <2>8 DEF s, old, new
<1>4. CASE k # 0
  <2>1. old = [i \in 1 .. it |-> IF i < it THEN Whole(chain, i)
                                 ELSE Sent(i, 0, k)]
    BY <1>4 DEF WireUpTo
  <2>2. old \in Seq(Parts) /\ Len(old) = it /\ old[it] = Sent(it, 0, k)
        /\ \A i \in 1 .. it - 1 : old[i] = Whole(chain, i)
    <3> HIDE DEF old
    <3>1. \A i \in 1 .. it : old[i] \in Parts
      BY <2>1
    <3> HIDE DEF Parts
    <3> QED BY <2>1, <3>1
  <2> HIDE DEF old, new
  <2>3. /\ old # <<>> /\ Last(old) = Sent(it, 0, k)
        /\ Last(old).node = it /\ Last(old).from + Last(old).bytes = k
    BY <2>2 DEF Last, Sent
  <2>4. [Last(old) EXCEPT !.bytes = @ + n] = Sent(it, 0, k + n)
    BY <2>3 DEF Sent
  <2>5. OnWire(old, it, k, n) = Front(old) \o << Sent(it, 0, k + n) >>
    BY <2>3, <2>4 DEF OnWire
  <2>6. Sent(it, 0, k + n) \in Parts
    OBVIOUS
  <2> HIDE DEF Parts
  <2>7. Front(old) \in Seq(Parts) /\ Len(Front(old)) = it - 1
        /\ \A i \in 1 .. it - 1 : Front(old)[i] = old[i]
    BY <2>2 DEF Front
  <2> DEFINE s == Front(old) \o << Sent(it, 0, k + n) >>
  <2>8. s \in Seq(Parts) /\ Len(s) = it /\ s[it] = Sent(it, 0, k + n)
        /\ \A i \in 1 .. it - 1 : s[i] = Front(old)[i]
    BY <2>6, <2>7
  <2> HIDE DEF s
  <2>9. \A i \in 1 .. it : s[i] = new[i]
    BY <1>2, <2>2, <2>7, <2>8
  <2>10. s = new
    BY <1>2, <2>8, <2>9, SeqEqual
  <2> QED BY <2>5, <2>10 DEF s, old, new
<1> QED BY <1>3, <1>4

(* A send leaves the message on its way, however many bytes it takes.      *)
LEMMA SendStaysUnderway ==
  ASSUME NEW size \in Nat, NEW o, Underway(o, size), ~AllSent(o),
         NEW n \in 1 .. o.chain[o.it].size - o.bytesSent
  PROVE  Underway(SendBytes(o, n), size)
<1> DEFINE whole == o.chain[o.it].size
           wire  == OnWire(o.wire, o.it, o.bytesSent, n)
           mid   == [o EXCEPT !.wire = wire, !.bytesSent = @ + n]
<1>1. /\ DOMAIN o = {"chain", "it", "bytesSent", "wire"}
      /\ o.chain = StringsToChain(size)
      /\ o.bytesSent \in Nat
  BY DEF Underway
<1>2. /\ o.it \in 1 .. Len(o.chain) /\ Len(o.chain) \in Nat
      /\ \A i \in 1 .. Len(o.chain) : o.chain[i].size \in Nat
      /\ o.bytesSent < whole /\ whole \in Nat
  <2>1. /\ Len(o.chain) \in Nat
        /\ \A i \in 1 .. Len(o.chain) : o.chain[i].size \in Nat
    BY <1>1, ChainSizes
  <2>2. o.it \in 1 .. Len(o.chain) + 1 /\ ~ o.it > Len(o.chain)
        /\ ~ o.bytesSent >= whole
    BY DEF Underway, AllSent
  <2>3. o.it \in 1 .. Len(o.chain)
    BY <2>1, <2>2
  <2>4. whole \in Nat
    BY <2>1, <2>3
  <2> HIDE DEF whole
  <2> QED BY <1>1, <2>1, <2>2, <2>3, <2>4
<1>3. n \in Nat \ {0} /\ o.bytesSent + n <= whole
  BY <1>1, <1>2
<1> HIDE DEF whole
<1>4. wire = WireUpTo(o.chain, o.it, o.bytesSent + n)
  <2>1. o.wire = WireUpTo(o.chain, o.it, o.bytesSent)
    BY DEF Underway
  <2>2. /\ o.it \in Nat \ {0}
        /\ \A i \in 1 .. o.it : o.chain[i].size \in Nat
    BY <1>2
  <2>3. o.bytesSent \in Nat /\ n \in Nat \ {0}
    BY <1>1, <1>3
  <2> DEFINE chain == o.chain
             it == o.it
             k  == o.bytesSent
  <2>4. /\ it \in Nat \ {0} /\ k \in Nat /\ n \in Nat \ {0}
        /\ \A i \in 1 .. it : chain[i].size \in Nat
    BY <2>2, <2>3
  <2>5. wire = OnWire(WireUpTo(chain, it, k), it, k, n)
    BY <2>1 DEF wire
  <2> HIDE DEF chain, it, k, wire
  <2>6. OnWire(WireUpTo(chain, it, k), it, k, n) = WireUpTo(chain, it, k + n)
    BY <2>4, WireContinues
  <2> QED BY <2>5, <2>6 DEF chain, it, k
<1>5. /\ DOMAIN mid = {"chain", "it", "bytesSent", "wire"}
      /\ mid.chain = o.chain /\ mid.it = o.it /\ mid.wire = wire
      /\ mid.bytesSent = o.bytesSent + n
  BY <1>1
<1> HIDE DEF mid, wire
<1>6. SendBytes(o, n) = Advance(mid)
  BY DEF SendBytes, mid, wire
<1>7. CASE o.bytesSent + n = whole
  <2> DEFINE new == [mid EXCEPT !.it = @ + 1, !.bytesSent = 0]
  <2>1. Advance(mid) = new
    BY <1>5, <1>7 DEF Advance, whole
  <2>2. /\ DOMAIN new = {"chain", "it", "bytesSent", "wire"}
        /\ new.chain = o.chain /\ new.it = o.it + 1 /\ new.bytesSent = 0
        /\ new.wire = wire
    BY <1>5
  <2> HIDE DEF new
  <2>3. WireUpTo(o.chain, o.it, whole) = WireUpTo(o.chain, o.it + 1, 0)
    <3> DEFINE s == WireUpTo(o.chain, o.it, whole)
               t == WireUpTo(o.chain, o.it + 1, 0)
    <3>1. s = [i \in 1 .. o.it |-> IF i < o.it THEN Whole(o.chain, i)
                                   ELSE Sent(i, 0, whole)]
      BY <1>1, <1>2 DEF WireUpTo
    <3>2. t = [i \in 1 .. o.it |-> Whole(o.chain, i)]
      BY <1>2 DEF WireUpTo
    <3>3. Whole(o.chain, o.it) = Sent(o.it, 0, whole)
      BY DEF Whole, whole
    <3>4. \A i \in 1 .. o.it : s[i] = t[i]
      BY <1>2, <3>1, <3>2, <3>3
    <3> HIDE DEF s, t
    <3> QED BY <3>1, <3>2, <3>4 DEF s, t
  <2>4. Underway(new, size)
    BY <1>1, <1>2, <1>4, <1>7, <2>2, <2>3 DEF Underway
  <2> QED BY <1>6, <2>1, <2>4
<1>8. CASE o.bytesSent + n # whole
  <2>1. Advance(mid) = mid
    BY <1>5, <1>8 DEF Advance, whole
  <2>2. Underway(mid, size)
    BY <1>1, <1>2, <1>3, <1>4, <1>5, <1>8, SMTT(30) DEF Underway, whole
  <2> QED BY <1>6, <2>1, <2>2
<1> QED BY <1>7, <1>8

(* What a receiver has got, on the way and in the end.                     *)
LEMMA UnderwayInOrder ==
  ASSUME NEW size \in Nat, NEW o, Underway(o, size)
  PROVE  /\ IsPrefixOfChain(o)
         /\ AllSent(o) => IsWhole(o, size)
<1> DEFINE k == IF o.bytesSent = 0 THEN o.it - 1 ELSE o.it
<1>1. /\ o.chain = StringsToChain(size) /\ o.bytesSent \in Nat
      /\ o.it \in 1 .. Len(o.chain) + 1
      /\ Len(o.chain) \in Nat \ {0}
      /\ \A i \in 1 .. Len(o.chain) :
           /\ o.chain[i].size \in Nat
           /\ o.chain[i].size = 0 => i = Len(o.chain)
      /\ o.bytesSent > 0 =>
           o.it <= Len(o.chain) /\ o.bytesSent < o.chain[o.it].size
  BY ChainSizes DEF Underway
<1>2. k \in Nat /\ k <= Len(o.chain)
  BY <1>1
<1>3. /\ DOMAIN o.wire = 1 .. k /\ Len(o.wire) = k
      /\ \A i \in 1 .. k : o.wire[i] = IF i < o.it THEN Whole(o.chain, i)
                                       ELSE Sent(i, 0, o.bytesSent)
  <2>1. o.wire = [i \in 1 .. k |-> IF i < o.it THEN Whole(o.chain, i)
                                   ELSE Sent(i, 0, o.bytesSent)]
    BY DEF Underway, WireUpTo
  <2> HIDE DEF k
  <2> QED BY <1>2, <2>1
<1>4. ASSUME NEW i \in 1 .. k
      PROVE  /\ o.wire[i].node = i /\ o.wire[i].from = 0
             /\ o.wire[i].bytes <= o.chain[i].size
             /\ i < o.it => o.wire[i].bytes = o.chain[i].size
  <2>1. CASE i < o.it
    <3>1. o.wire[i] = Whole(o.chain, i)
      BY <1>3, <2>1
    <3>2. i \in 1 .. Len(o.chain)
      BY <1>1, <1>2
    <3>3. o.chain[i].size \in Nat
      BY <1>1, <3>2
    <3> QED BY <3>1, <3>3 DEF Whole, Sent
  <2>2. CASE ~ i < o.it
    <3>1. i = o.it /\ o.bytesSent > 0
      BY <1>1, <2>2
    <3>2. o.wire[i] = Sent(i, 0, o.bytesSent)
      BY <1>3, <2>2
    <3> QED BY <1>1, <2>2, <3>1, <3>2 DEF Sent
  <2> QED BY <2>1, <2>2
<1>5. IsPrefixOfChain(o)
  <2>1. \A i \in 1 .. k : i < k => i < o.it
    BY <1>1
  <2> HIDE DEF k
  <2> QED BY <1>3, <1>4, <2>1 DEF IsPrefixOfChain
<1>6. ASSUME AllSent(o) PROVE IsWhole(o, size)
  <2>1. FramesBody(o.chain, size)
    BY <1>1, ChainFramesBody
  <2>2. DOMAIN o.chain = 1 .. Len(o.chain)
    BY <1>1, ChainSizes
  <2>3. ASSUME NEW i \in 1 .. Len(o.chain), o.chain[i].size > 0
        PROVE  i \in 1 .. k /\ i < o.it
    <3>1. i < o.it
      <4>1. CASE o.it > Len(o.chain)
        BY <1>1, <4>1
      <4>2. CASE o.it <= Len(o.chain) /\ o.bytesSent >= o.chain[o.it].size
        <5>1. o.it \in 1 .. Len(o.chain) /\ o.bytesSent = 0
          BY <1>1, <4>2
        <5>2. o.chain[o.it].size = 0
          BY <1>1, <4>2, <5>1
        <5>3. o.it = Len(o.chain) /\ i # o.it
          BY <1>1, <2>3, <5>1, <5>2
        <5> QED BY <1>1, <5>3
      <4> QED BY <1>1, <1>6, <4>1, <4>2 DEF AllSent
    <3>2. i <= k
      BY <1>1, <3>1
    <3> HIDE DEF k
    <3> QED BY <1>2, <3>1, <3>2
  <2> HIDE DEF k
  <2> QED BY <1>3, <1>4, <2>1, <2>2, <2>3 DEF IsWhole
<1> QED BY <1>5, <1>6

-----------------------------------------------------------------------------
(* The invariant.                                                          *)

GenFields  == {"status", "response", "then", "reading", "linked", "n"}
HistFields == {"served", "changes", "before", "during", "touched", "kept"}

IsSequence(s) == s \in Seq({ s[i] : i \in 1 .. Len(s) })

(* Every directory above the path may be searched.                         *)
MayReach(segs) ==
  \A n \in DOMAIN segs : SubSeq(segs, 1, n - 1) \notin Denied

(* The calls made while nothing was changed yet for the request, and those *)
(* that read a file, for the answer or for its page.                       *)
BeforeChange == {"menu", "stat", "opendir", "readdir", "name", "create",
                 "remove"}
Reading == {"open", "fstat", "read"}

GenOK == DOMAIN gen = GenFields /\ gen.then \in {"file", "index", "page"}

RecordsOK ==
  /\ GenOK
  /\ DOMAIN hist = HistFields
  /\ pc # "idle" => \E r \in Requests : client = NewClient(r)

(* An upload that was kept was put where stat finds it.                    *)
KeptReachable == \A segs \in DOMAIN hist.kept : MayReach(segs)

(* A name chosen is the name of no upload, nor of anything else but what   *)
(* somebody else put there since, or what stat cannot see.                 *)
ChosenIsFree ==
  /\ pc \in {"menu", "name", "create"} => gen.linked = TRUE
  /\ pc = "create" =>
       LET segs == gen.reading.segs
       IN /\ IsSequence(segs)
          /\ gen.reading = Path(segs, FALSE)
          /\ segs \notin DOMAIN hist.kept
          /\ MayReach(segs) /\ segs \in DOMAIN fs => segs \in hist.touched

(* A file opened for an upload is the only change, and new.                *)
OpenedIsNew ==
  pc = "write" =>
    LET segs == gen.reading.segs
    IN /\ MayReach(segs)
       /\ segs \notin DOMAIN hist.kept
       /\ Own \subseteq {segs}
       /\ segs \notin hist.touched =>
            segs \notin DOMAIN hist.before /\ gen.linked = TRUE

(* A file that is read is read before any change, or for the page of 201.  *)
ReadsAfterUpload ==
  /\ pc \in BeforeChange => Own = {}
  /\ pc \in Reading =>
       Own = {} \/ (gen.then = "page" /\ gen.status = 201 /\ OneUpload)

IInv ==
  /\ RecordsOK
  /\ UploadsKept
  /\ KeptReachable
  /\ ChosenIsFree
  /\ OpenedIsNew
  /\ ReadsAfterUpload
  /\ ChangesAreAnswered

(* A request that the generator gets without an error has a location.      *)
HasLocation == LocationUriFromPath(ClientServer, client.request.path) # NoUri

Located ==
  /\ pc \notin {"idle", "down"} /\ client.errorCode = 0 => HasLocation
  /\ pc = "name" => client.errorCode = 0

-----------------------------------------------------------------------------
(* What the calls on files tell.                                           *)

LEMMA ErrorsAreApart ==
  ASSUME NEW f, NEW segs
  PROVE  LookupError(f, segs) \notin {"file", "dir"}
BY DEF LookupError, Lookup

LEMMA FoundIsReached ==
  ASSUME NEW f, NEW p, Stat(f, p) \in {"file", "dir"}
  PROVE  p.segs \in DOMAIN f /\ MayReach(p.segs)
BY ErrorsAreApart DEF Stat, Reaches, MayReach

LEMMA ReachedIsFound ==
  ASSUME NEW f, NEW p, p.segs \in DOMAIN f, MayReach(p.segs), p.slash = FALSE
  PROVE  Stat(f, p) \in {"file", "dir"}
BY DEF Stat, Reaches, MayReach

(* What may be searched up to the parent, and the parent as well.          *)
LEMMA ParentReached ==
  ASSUME NEW S, NEW segs \in Seq(S),
         MayReach(Parent(segs)), Parent(segs) \notin Denied
  PROVE  MayReach(segs)
<1> SUFFICES ASSUME NEW n \in DOMAIN segs
             PROVE  SubSeq(segs, 1, n - 1) \notin Denied
  BY DEF MayReach
<1>1. Len(segs) \in Nat /\ n \in 1 .. Len(segs)
  OBVIOUS
<1>2. CASE n = Len(segs)
  BY <1>2 DEF Parent
<1>3. CASE n < Len(segs)
  <2> DEFINE above == Parent(segs)
  <2>1. above \in Seq(S) /\ Len(above) = Len(segs) - 1
    <3> DEFINE m == Len(segs) - 1
    <3>1. m \in Nat /\ m <= Len(segs) /\ above = SubSeq(segs, 1, m)
      BY <1>1 DEF Parent
    <3> HIDE DEF m, above
    <3>2. SubSeq(segs, 1, m) \in Seq(S) /\ Len(SubSeq(segs, 1, m)) = m
      BY <3>1
    <3> QED BY <3>1, <3>2 DEF m
  <2>2. n \in DOMAIN above
    BY <1>1, <1>3, <2>1
  <2>3. \A i \in 1 .. Len(segs) - 1 : above[i] = segs[i]
    BY <1>1 DEF Parent
  <2> HIDE DEF above
  <2> DEFINE s == SubSeq(segs, 1, n - 1)
             t == SubSeq(above, 1, n - 1)
  <2>4. s \in Seq(S) /\ Len(s) = n - 1 /\ \A i \in 1 .. n - 1 : s[i] = segs[i]
    BY <1>1
  <2>5. t \in Seq(S) /\ Len(t) = n - 1 /\ \A i \in 1 .. n - 1 : t[i] = above[i]
    BY <1>1, <1>3, <2>1
  <2> HIDE DEF s, t
  <2>6. \A i \in 1 .. Len(s) : s[i] = t[i]
    BY <1>1, <1>3, <2>3, <2>4, <2>5
  <2>7. s = t
    BY <2>4, <2>5, <2>6, SeqEqual
  <2> QED BY <2>2, <2>7 DEF MayReach, above, s, t
<1> QED BY <1>1, <1>2, <1>3

LEMMA CreatableReached ==
  ASSUME NEW f, NEW segs, IsSequence(segs), Creatable(f, Path(segs, FALSE))
  PROVE  MayReach(segs)
<1> DEFINE p == Path(segs, FALSE)
           above == [p EXCEPT !.segs = Parent(@)]
<1>1. p.segs = segs /\ above.segs = Parent(segs)
  BY DEF Path
<1>2. \/ Stat(f, p) = "file"
      \/ Parent(segs) \notin Denied /\ Stat(f, above) = "dir"
  BY <1>1, Zenon DEF Creatable
<1> HIDE DEF p, above
<1>3. CASE Stat(f, p) = "file"
  BY <1>1, <1>3, FoundIsReached
<1>4. CASE Parent(segs) \notin Denied /\ Stat(f, above) = "dir"
  <2>1. MayReach(Parent(segs))
    BY <1>1, <1>4, FoundIsReached
  <2> QED BY <1>4, <2>1, ParentReached DEF IsSequence
<1> QED BY <1>2, <1>3, <1>4

-----------------------------------------------------------------------------
(* What the steps inside the generator leave: its fields, and where they   *)
(* lead.                                                                   *)

SameFields == GenOK' /\ gen'.linked = gen.linked

(* The answer with this code, or its page first.                           *)
Answers(code) ==
  /\ SameFields
  /\ pc' \in {"open", "answer", "down"}
  /\ pc' = "open" => gen'.then = "page" /\ gen'.status = code
  /\ pc' = "answer" => gen'.status = code

(* Something more to read, or the answer.                                  *)
Proceeds == SameFields /\ pc' \in Reading \cup {"opendir", "answer", "down"}

LEMMA AnswerWithFacts ==
  ASSUME GenOK, NEW code, NEW response,
         AnswerWith(code, response)
  PROVE  /\ SameFields
         /\ pc' \in {"answer", "down"}
         /\ gen'.status = code
         /\ gen'.reading = gen.reading
BY DEF AnswerWith, SameFields, GenOK, GenFields

LEMMA ErrorPageFacts ==
  ASSUME GenOK, NEW settings, NEW code,
         RenderErrorPage(settings, code)
  PROVE  Answers(code)
<1>1. CASE AnswerWith(code, PageFor(code))
  BY <1>1, AnswerWithFacts DEF Answers
<1>2. ASSUME NEW segs,
             gen' = [gen EXCEPT !.reading = Path(segs, FALSE),
                                !.then = "page", !.status = code],
             pc' = "open"
      PROVE  Answers(code)
  BY <1>2 DEF Answers, SameFields, GenOK, GenFields
<1> QED BY <1>1, <1>2 DEF RenderErrorPage

LEMMA LocationPageFacts ==
  ASSUME GenOK, NEW code, RenderLocationErrorPage(code)
  PROVE  Answers(code) /\ Proceeds
BY ErrorPageFacts
   DEF RenderLocationErrorPage, Answers, Proceeds, Reading

LEMMA TryIndexFacts ==
  ASSUME GenOK, NEW n, NEW directory, TryIndex(n, directory)
  PROVE  Proceeds
<1>1. CASE /\ gen' = [gen EXCEPT !.n = n, !.then = "index", !.reading =
                        Path(directory \o IndexesOf(ClientLocation)[n], FALSE)]
           /\ pc' = "open"
  BY <1>1 DEF Proceeds, SameFields, GenOK, GenFields, Reading
<1>2. CASE pc' = "opendir" /\ gen' = [gen EXCEPT !.reading = Target]
  BY <1>2 DEF Proceeds, SameFields, GenOK, GenFields
<1>3. CASE RenderLocationErrorPage(404)
  BY <1>3, LocationPageFacts
<1> QED BY <1>1, <1>2, <1>3 DEF TryIndex

(* A page that cannot be read is replaced by one with the same status.     *)
LEMMA NotReadFacts ==
  ASSUME GenOK, NotRead
  PROVE  /\ Proceeds
         /\ gen.then = "page" =>
              pc' \in {"answer", "down"} /\ gen'.status = gen.status
<1>1. CASE gen.then = "file"
  <2>1. RenderLocationErrorPage(404)
    BY <1>1 DEF NotRead
  <2> QED BY <1>1, <2>1, LocationPageFacts
<1>2. CASE gen.then = "index"
  <2>1. TryIndex(gen.n + 1, Target.segs)
    BY <1>2 DEF NotRead
  <2> QED BY <1>2, <2>1, TryIndexFacts
<1>3. CASE gen.then = "page"
  <2>1. AnswerWith(gen.status, PageFor(gen.status))
    BY <1>3 DEF NotRead
  <2> QED BY <2>1, AnswerWithFacts DEF Proceeds
<1> QED BY <1>1, <1>2, <1>3 DEF GenOK

LEMMA IsReadFacts ==
  ASSUME GenOK, NEW data, IsRead(data)
  PROVE  /\ Proceeds
         /\ pc' \in {"answer", "down"}
         /\ gen.then = "page" => gen'.status = gen.status
BY AnswerWithFacts DEF IsRead, Proceeds

-----------------------------------------------------------------------------
(* Steps that leave the files alone.                                       *)

LEMMA NothingToAnswer ==
  ASSUME Own = {}
  PROVE  OneUpload /\ ChangesAreAnswered
<1>1. OneUpload
  BY DEF OneUpload
<1> QED BY <1>1 DEF ChangesAreAnswered

LEMMA UploadIsAnswered ==
  ASSUME OneUpload, gen.status = 201
  PROVE  ChangesAreAnswered
BY DEF ChangesAreAnswered

LEMMA OwnStays ==
  ASSUME UNCHANGED <<fs, hist>>
  PROVE  /\ Own' = Own
         /\ UploadsKept => UploadsKept'
         /\ KeptReachable => KeptReachable'
BY DEF Own, UploadsKept, KeptReachable, MayReach

LEMMA QuietStep ==
  ASSUME IInv, Own = {}, UNCHANGED <<fs, client, hist>>, GenOK', pc # "idle",
         pc' \notin {"menu", "name", "create", "write"}
  PROVE  IInv'
<1>1. RecordsOK'
  BY DEF IInv, RecordsOK
<1>2. UploadsKept' /\ KeptReachable' /\ Own' = {}
  BY OwnStays DEF IInv
<1>3. ChosenIsFree' /\ OpenedIsNew'
  BY DEF ChosenIsFree, OpenedIsNew
<1>4. ReadsAfterUpload'
  BY <1>2 DEF ReadsAfterUpload
<1>5. ChangesAreAnswered'
  BY <1>2 DEF ChangesAreAnswered, OneUpload
<1> QED BY <1>1, <1>2, <1>3, <1>4, <1>5 DEF IInv

(* A file that is read, for the answer or for the page of an upload.       *)
LEMMA ReadingStep ==
  ASSUME IInv, pc \in Reading, UNCHANGED <<fs, client, hist>>, GenOK',
         pc' \in Reading \cup {"opendir", "answer", "down"},
         gen.then = "page" =>
           \/ pc' \in {"answer", "down"} /\ gen'.status = gen.status
           \/ pc' \in Reading /\ UNCHANGED gen
  PROVE  IInv'
<1>1. CASE Own = {}
  BY <1>1, QuietStep DEF Reading
<1>2. CASE gen.then = "page" /\ gen.status = 201 /\ OneUpload
  <2>1. RecordsOK'
    BY DEF IInv, RecordsOK, Reading
  <2>2. UploadsKept' /\ KeptReachable' /\ Own' = Own
    BY OwnStays DEF IInv
  <2>3. ChosenIsFree' /\ OpenedIsNew'
    BY DEF ChosenIsFree, OpenedIsNew, Reading
  <2>4. OneUpload'
    BY <1>2, <2>2 DEF OneUpload
  <2>5. ReadsAfterUpload'
    BY <1>2, <2>4 DEF ReadsAfterUpload, Reading, BeforeChange
  <2>6. ChangesAreAnswered'
    BY <1>2, <2>4 DEF ChangesAreAnswered, Reading
  <2> QED BY <2>1, <2>2, <2>3, <2>5, <2>6 DEF IInv
<1> QED BY <1>1, <1>2 DEF IInv, ReadsAfterUpload

LEMMA ReceiveStep ==
  ASSUME IInv, Receive
  PROVE  IInv'
<1>1. RecordsOK'
  BY DEF Receive, IInv, RecordsOK, NewGenerator, GenOK, GenFields, HistFields
<1>2. hist'.before = fs /\ hist'.touched = {} /\ hist'.kept = hist.kept
  BY DEF Receive, IInv, RecordsOK, HistFields
<1>3. Own' = {}
  BY <1>2 DEF Own, Receive
<1>4. UploadsKept' /\ KeptReachable'
  BY <1>2 DEF Receive, IInv, UploadsKept, KeptReachable, MayReach
<1>5. ChosenIsFree' /\ OpenedIsNew'
  BY DEF Receive, NewGenerator, ChosenIsFree, OpenedIsNew
<1>6. ReadsAfterUpload'
  BY <1>3 DEF ReadsAfterUpload
<1>7. ChangesAreAnswered'
  BY DEF Receive, ChangesAreAnswered
<1> QED BY <1>1, <1>4, <1>5, <1>6, <1>7 DEF IInv

LEMMA MenuStep ==
  ASSUME IInv, ResponseMenu
  PROVE  IInv'
<1>1. pc = "menu" /\ UNCHANGED <<fs, client, hist>> /\ GenOK /\ Own = {}
  BY DEF ResponseMenu, IInv, RecordsOK, ReadsAfterUpload, BeforeChange
<1>2. ASSUME NEW settings, NEW code, RenderErrorPage(settings, code)
      PROVE  IInv'
  <2>1. Answers(code)
    BY <1>1, <1>2, ErrorPageFacts
  <2> QED BY <1>1, <2>1, QuietStep DEF Answers, SameFields
<1>3. ASSUME pc' \in {"stat", "name", "remove"},
             gen' = [gen EXCEPT !.reading = Target]
      PROVE  IInv'
  <2>1. SameFields
    BY <1>1, <1>3 DEF SameFields, GenOK, GenFields
  <2>2. CASE pc' # "name"
    BY <1>1, <1>3, <2>1, <2>2, QuietStep DEF SameFields
  <2>3. CASE pc' = "name"
    <3>1. RecordsOK' /\ UploadsKept' /\ KeptReachable' /\ Own' = {}
      BY <1>1, <2>1, OwnStays DEF IInv, RecordsOK, SameFields
    <3>2. ChosenIsFree' /\ OpenedIsNew' /\ ChangesAreAnswered'
      BY <1>1, <2>1, <2>3
         DEF IInv, ChosenIsFree, OpenedIsNew, ChangesAreAnswered, SameFields
    <3>3. ReadsAfterUpload'
      BY <3>1 DEF ReadsAfterUpload
    <3> QED BY <3>1, <3>2, <3>3 DEF IInv
  <2> QED BY <2>2, <2>3
<1>4. CASE client.errorCode # 0
  <2>1. RenderErrorPage(ClientServer.settings, client.errorCode)
    BY <1>4, Zenon DEF ResponseMenu
  <2> QED BY <1>2, <2>1
<1>5. CASE client.errorCode = 0 /\ IsRedirect(ClientLocation)
  <2>1. RenderLocationErrorPage(RedirectCode(ClientLocation))
    BY <1>5 DEF ResponseMenu
  <2> QED BY <1>2, <2>1 DEF RenderLocationErrorPage
<1>6. CASE client.errorCode = 0 /\ ~IsRedirect(ClientLocation)
  <2>1. client.request.method \in Methods
    BY <1>1, RequestsAssumption DEF IInv, RecordsOK, NewClient
  <2>2. pc' \in {"stat", "name", "remove"}
        /\ gen' = [gen EXCEPT !.reading = Target]
    BY <1>6, <2>1 DEF ResponseMenu, Methods
  <2> QED BY <1>3, <2>2
<1> QED BY <1>4, <1>5, <1>6

LEMMA LookStep ==
  ASSUME IInv,
         \/ IsPathFileOrFolder \/ OpenFile \/ StatFile \/ ReadFile
         \/ IsDirectoryValid \/ CreateHtmlMenu
  PROVE  IInv'
<1>1. GenOK
  BY DEF IInv, RecordsOK
<1>2. CASE IsPathFileOrFolder
  <2>1. pc = "stat" /\ UNCHANGED <<fs, client, hist>> /\ Own = {}
    BY <1>2 DEF IsPathFileOrFolder, IInv, ReadsAfterUpload, BeforeChange
  <2>2. CASE ReadNext(gen.reading, "file")
    <3>1. GenOK' /\ pc' = "open"
      BY <1>1, <2>2 DEF ReadNext, GenOK, GenFields
    <3> QED BY <2>1, <3>1, QuietStep
  <2>3. CASE TryIndex(1, gen.reading.segs)
    <3>1. Proceeds
      BY <1>1, <2>3, TryIndexFacts
    <3> QED BY <2>1, <3>1, QuietStep DEF Proceeds, SameFields, Reading
  <2>4. CASE RenderLocationErrorPage(
               FileOrFolderStatusCode(Stat(fs, gen.reading)))
    <3>1. Proceeds
      BY <1>1, <2>4, LocationPageFacts
    <3> QED BY <2>1, <3>1, QuietStep DEF Proceeds, SameFields, Reading
  <2> QED BY <1>2, <2>2, <2>3, <2>4 DEF IsPathFileOrFolder
<1>3. CASE OpenFile
  <2>1. pc = "open" /\ UNCHANGED <<fs, client, hist>>
    BY <1>3 DEF OpenFile
  <2>2. CASE pc' = "fstat" /\ UNCHANGED gen
    BY <1>1, <2>1, <2>2, ReadingStep DEF GenOK, Reading
  <2>3. CASE NotRead
    BY <1>1, <2>1, <2>3, NotReadFacts, ReadingStep
       DEF Proceeds, SameFields, Reading
  <2> QED BY <1>3, <2>2, <2>3 DEF OpenFile
<1>4. CASE StatFile
  <2>1. pc = "fstat" /\ UNCHANGED <<fs, client, hist>>
    BY <1>4 DEF StatFile
  <2>2. CASE pc' = "read" /\ UNCHANGED gen
    BY <1>1, <2>1, <2>2, ReadingStep DEF GenOK, Reading
  <2>3. CASE NotRead
    BY <1>1, <2>1, <2>3, NotReadFacts, ReadingStep
       DEF Proceeds, SameFields, Reading
  <2>4. CASE pc' = "down" /\ UNCHANGED gen
    BY <1>1, <2>1, <2>4, ReadingStep DEF GenOK, Reading
  <2> QED BY <1>4, <2>2, <2>3, <2>4 DEF StatFile
<1>5. CASE ReadFile
  <2>1. pc = "read" /\ UNCHANGED <<fs, client, hist>>
    BY <1>5 DEF ReadFile
  <2>2. ASSUME NEW data, IsRead(data) PROVE IInv'
    BY <1>1, <2>1, <2>2, IsReadFacts, ReadingStep
       DEF Proceeds, SameFields, Reading
  <2>3. CASE NotRead
    BY <1>1, <2>1, <2>3, NotReadFacts, ReadingStep
       DEF Proceeds, SameFields, Reading
  <2> QED BY <1>5, <2>2, <2>3 DEF ReadFile
<1>6. CASE IsDirectoryValid
  <2>1. pc = "opendir" /\ UNCHANGED <<fs, client, hist>> /\ Own = {}
    BY <1>6 DEF IsDirectoryValid, IInv, ReadsAfterUpload, BeforeChange
  <2>2. CASE pc' = "readdir" /\ UNCHANGED gen
    BY <1>1, <2>1, <2>2, QuietStep DEF GenOK
  <2>3. CASE RenderLocationErrorPage(
               DirFailStatusCode(OpenDir(fs, gen.reading)))
    <3>1. Proceeds
      BY <1>1, <2>3, LocationPageFacts
    <3> QED BY <2>1, <3>1, QuietStep DEF Proceeds, SameFields, Reading
  <2> QED BY <1>6, <2>2, <2>3 DEF IsDirectoryValid
<1>7. CASE CreateHtmlMenu
  <2>1. pc = "readdir" /\ UNCHANGED <<fs, client, hist>> /\ Own = {}
    BY <1>7 DEF CreateHtmlMenu, IInv, ReadsAfterUpload, BeforeChange
  <2>2. CASE AnswerWith(200, Listing(fs, gen.reading.segs))
    <3>1. SameFields /\ pc' \in {"answer", "down"}
      BY <1>1, <2>2, AnswerWithFacts
    <3> QED BY <2>1, <3>1, QuietStep DEF SameFields
  <2>3. CASE RenderLocationErrorPage(500)
    <3>1. Proceeds
      BY <1>1, <2>3, LocationPageFacts
    <3> QED BY <2>1, <3>1, QuietStep DEF Proceeds, SameFields, Reading
  <2> QED BY <1>7, <2>2, <2>3 DEF CreateHtmlMenu
<1> QED BY <1>2, <1>3, <1>4, <1>5, <1>6, <1>7

LEMMA SendingStep ==
  ASSUME IInv, MakeMessage \/ SendMsg \/ Delete \/ PeerLeaves
  PROVE  IInv'
<1>1. UNCHANGED fs /\ hist'.kept = hist.kept /\ DOMAIN hist' = HistFields
  BY DEF MakeMessage, SendMsg, Delete, PeerLeaves, DeleteClient, IInv,
         RecordsOK, HistFields
<1>2. pc' \in {"send", "sent", "idle"}
  BY DEF MakeMessage, SendMsg, Delete, PeerLeaves, DeleteClient
<1>3. GenOK'
  <2>1. CASE MakeMessage \/ SendMsg
    BY <2>1 DEF MakeMessage, SendMsg, IInv, RecordsOK, GenOK
  <2>2. CASE Delete \/ PeerLeaves
    <3>1. gen' = NewGenerator
      BY <2>2 DEF Delete, PeerLeaves, DeleteClient
    <3> QED BY <3>1 DEF GenOK, GenFields, NewGenerator
  <2> QED BY <2>1, <2>2
<1>4. pc' # "idle" => client' = client /\ pc # "idle"
  BY DEF MakeMessage, SendMsg, Delete, PeerLeaves, DeleteClient
<1>5. RecordsOK'
  BY <1>1, <1>3, <1>4 DEF IInv, RecordsOK
<1>6. UploadsKept' /\ KeptReachable'
  BY <1>1 DEF IInv, UploadsKept, KeptReachable, MayReach
<1>7. ChosenIsFree' /\ OpenedIsNew' /\ ReadsAfterUpload' /\ ChangesAreAnswered'
  BY <1>2 DEF ChosenIsFree, OpenedIsNew, ReadsAfterUpload, ChangesAreAnswered,
              BeforeChange, Reading
<1> QED BY <1>5, <1>6, <1>7 DEF IInv

-----------------------------------------------------------------------------
(* Uploads.                                                                *)

LEMMA NameStep ==
  ASSUME IInv, Located, GenerateFilename
  PROVE  IInv'
<1> DEFINE folder == UploadFolder(ClientLocation)
           segs   == Append(folder, Filename(client.request.query, gen.n))
<1>1. /\ pc = "name" /\ UNCHANGED <<fs, client, hist>>
      /\ GenOK /\ gen.linked = TRUE /\ Own = {}
  BY DEF GenerateFilename, IInv, RecordsOK, ChosenIsFree, ReadsAfterUpload,
         BeforeChange
<1>2. RecordsOK'
  BY <1>1 DEF GenerateFilename, IInv, RecordsOK, GenOK, GenFields
<1>3. UploadsKept' /\ KeptReachable' /\ Own' = {}
  BY <1>1, OwnStays DEF IInv
<1>4. gen'.linked = TRUE /\ pc' \in {"name", "create"}
  BY <1>1 DEF GenerateFilename, GenOK, GenFields
<1>5. OpenedIsNew' /\ ReadsAfterUpload' /\ ChangesAreAnswered'
  BY <1>3, <1>4 DEF OpenedIsNew, ReadsAfterUpload, ChangesAreAnswered
<1>6. CASE pc' = "name"
  <2>1. ChosenIsFree'
    BY <1>4, <1>6 DEF ChosenIsFree
  <2> QED BY <1>2, <1>3, <1>5, <2>1 DEF IInv
<1>7. CASE pc' = "create"
  <2>1. ~ IsTaken(segs) /\ gen' = [gen EXCEPT !.reading = Path(segs, FALSE)]
    BY <1>1, <1>7 DEF GenerateFilename
  <2>2. folder \in Seq(STRING)
    <3>1. PICK r \in Requests : client = NewClient(r)
      BY <1>1 DEF IInv, RecordsOK
    <3>2. client.request = r
      BY <3>1 DEF NewClient
    <3>3. LocationUriFromPath(Servers[client.server], r.path) # NoUri
      BY <1>1, <3>2 DEF Located, HasLocation, ClientServer
    <3>4. UploadFolder(LocationOf(Servers[client.server], r.path))
            \in Seq(STRING)
      BY <3>1, <3>3, FoldersAssumption
    <3> QED BY <3>2, <3>4 DEF ClientLocation, ClientServer
  <2>3. IsSequence(segs)
    <3> DEFINE name == Filename(client.request.query, gen.n)
               S    == STRING \cup { name }
    <3>1. folder \in Seq(S) /\ name \in S
      BY <2>2
    <3> HIDE DEF folder, name, S
    <3>2. Append(folder, name) \in Seq(S)
      BY <3>1
    <3>3. ASSUME NEW s \in Seq(S) PROVE IsSequence(s)
      BY <3>3 DEF IsSequence
    <3> QED BY <3>2, <3>3 DEF name
  <2> HIDE DEF segs
  <2>4. ~ (MayReach(segs) /\ segs \in DOMAIN fs)
    <3>1. Path(segs, FALSE).segs = segs /\ Path(segs, FALSE).slash = FALSE
      BY DEF Path
    <3> QED BY <2>1, <3>1, ReachedIsFound DEF IsTaken
  <2>5. segs \notin DOMAIN hist.kept
    BY <2>4 DEF IInv, UploadsKept, KeptReachable
  <2>6. gen'.reading = Path(segs, FALSE) /\ gen'.reading.segs = segs
    BY <1>1, <2>1 DEF GenOK, GenFields, Path
  <2>7. ChosenIsFree'
    BY <1>1, <1>4, <2>3, <2>4, <2>5, <2>6
       DEF ChosenIsFree, MayReach, IsSequence
  <2> QED BY <1>2, <1>3, <1>5, <2>7 DEF IInv
<1> QED BY <1>4, <1>6, <1>7

LEMMA OpenOutputStep ==
  ASSUME IInv, OpenOutputFile
  PROVE  IInv'
<1> DEFINE segs == gen.reading.segs
<1>1. /\ pc = "create" /\ UNCHANGED <<client, hist>>
      /\ GenOK /\ gen.linked = TRUE /\ Own = {}
      /\ IsSequence(segs) /\ gen.reading = Path(segs, FALSE)
      /\ segs \notin DOMAIN hist.kept
      /\ MayReach(segs) /\ segs \in DOMAIN fs => segs \in hist.touched
  BY DEF OpenOutputFile, IInv, RecordsOK, ChosenIsFree, ReadsAfterUpload,
         BeforeChange
<1> HIDE DEF segs
<1>2. CASE /\ Creatable(fs, gen.reading)
           /\ fs' = With(fs, segs, "")
           /\ pc' = "write" /\ UNCHANGED gen
  <2>1. MayReach(segs)
    BY <1>1, <1>2, CreatableReached
  <2>2. \A q : /\ q \in DOMAIN fs' <=> q \in DOMAIN fs \/ q = segs
               /\ q \in DOMAIN fs /\ q # segs => fs'[q] = fs[q]
    BY <1>2 DEF With
  <2>3. RecordsOK'
    BY <1>1, <1>2 DEF IInv, RecordsOK, GenOK
  <2>4. UploadsKept' /\ KeptReachable'
    BY <1>1, <2>2 DEF IInv, UploadsKept, KeptReachable, MayReach
  <2>5. Own' \subseteq {segs}
    BY <1>1, <2>2 DEF Own
  <2>6. segs \notin hist.touched => segs \notin DOMAIN hist.before
    BY <1>1, <2>1 DEF Own
  <2>7. gen'.reading.segs = segs
    BY <1>2 DEF segs
  <2>8. OpenedIsNew'
    BY <1>1, <1>2, <2>1, <2>5, <2>6, <2>7 DEF OpenedIsNew, MayReach
  <2>9. ChosenIsFree' /\ ReadsAfterUpload' /\ ChangesAreAnswered'
    BY <1>2 DEF ChosenIsFree, ReadsAfterUpload, ChangesAreAnswered,
                BeforeChange, Reading
  <2> QED BY <2>3, <2>4, <2>8, <2>9 DEF IInv
<1>3. CASE UNCHANGED fs /\ RenderLocationErrorPage(500)
  <2>1. Proceeds
    BY <1>1, <1>3, LocationPageFacts
  <2> QED BY <1>1, <1>3, <2>1, QuietStep DEF Proceeds, SameFields, Reading
<1> QED BY <1>2, <1>3 DEF OpenOutputFile, segs

LEMMA PutBodyStep ==
  ASSUME IInv, PutBody
  PROVE  IInv'
<1> DEFINE segs == gen.reading.segs
           data == client.request.body
<1>1. /\ pc = "write" /\ UNCHANGED client /\ GenOK
      /\ MayReach(segs) /\ segs \notin DOMAIN hist.kept
      /\ Own \subseteq {segs}
      /\ segs \notin hist.touched =>
           segs \notin DOMAIN hist.before /\ gen.linked = TRUE
  BY DEF PutBody, IInv, RecordsOK, OpenedIsNew
<1>2. Answers(201) /\ Proceeds
  BY <1>1, LocationPageFacts DEF PutBody
<1> HIDE DEF segs, data
<1>3. /\ DOMAIN hist' = HistFields
      /\ hist'.before = hist.before /\ hist'.touched = hist.touched
      /\ UploadsKept' /\ KeptReachable' /\ OneUpload'
  <2>1. CASE /\ gen.linked
             /\ fs' = With(fs, segs, data)
             /\ hist' = [hist EXCEPT !.kept = With(@, segs, data)]
    <3>1. /\ DOMAIN hist' = HistFields
          /\ hist'.before = hist.before /\ hist'.touched = hist.touched
          /\ hist'.kept = With(hist.kept, segs, data)
      BY <2>1 DEF IInv, RecordsOK, HistFields
    <3>2. /\ DOMAIN hist'.kept = {segs} \cup DOMAIN hist.kept
          /\ hist'.kept[segs] = data
          /\ \A q \in DOMAIN hist.kept : hist'.kept[q] = hist.kept[q]
      BY <1>1, <3>1 DEF With
    <3>3. /\ DOMAIN fs' = {segs} \cup DOMAIN fs
          /\ fs'[segs] = data
          /\ \A q \in DOMAIN fs : q # segs => fs'[q] = fs[q]
      BY <2>1 DEF With
    <3>4. UploadsKept' /\ KeptReachable'
      BY <1>1, <3>2, <3>3 DEF IInv, UploadsKept, KeptReachable, MayReach
    <3>5. Own' \subseteq {segs}
      BY <1>1, <3>1, <3>3 DEF Own
    <3>6. Own' = {} \/ segs \notin hist'.touched
      BY <3>5 DEF Own
    <3>7. OneUpload'
      BY <1>1, <3>1, <3>3, <3>5, <3>6 DEF OneUpload, data
    <3> QED BY <3>1, <3>4, <3>7
  <2>2. CASE ~ gen.linked /\ UNCHANGED <<fs, hist>>
    <3>1. Own = {}
      BY <1>1, <2>2 DEF Own
    <3>2. Own' = {} /\ UploadsKept' /\ KeptReachable'
      BY <2>2, <3>1, OwnStays DEF IInv
    <3> QED BY <2>2, <3>2 DEF OneUpload, IInv, RecordsOK
  <2> QED BY <2>1, <2>2 DEF PutBody, segs, data
<1>4. RecordsOK'
  BY <1>1, <1>2, <1>3 DEF IInv, RecordsOK, Proceeds, SameFields
<1>5. ChosenIsFree' /\ OpenedIsNew'
  BY <1>2 DEF ChosenIsFree, OpenedIsNew, Answers
<1>6. ReadsAfterUpload'
  BY <1>2, <1>3 DEF ReadsAfterUpload, Answers, BeforeChange, Reading
<1>7. ChangesAreAnswered'
  BY <1>2, <1>3 DEF ChangesAreAnswered, Answers
<1> QED BY <1>3, <1>4, <1>5, <1>6, <1>7 DEF IInv

-----------------------------------------------------------------------------
(* Files that go, and what somebody else changes.                          *)

LEMMA DeleteStep ==
  ASSUME IInv, DeleteHandler
  PROVE  IInv'
<1> DEFINE segs == gen.reading.segs
<1>1. pc = "remove" /\ UNCHANGED client /\ GenOK /\ Own = {}
  BY DEF DeleteHandler, IInv, RecordsOK, ReadsAfterUpload, BeforeChange
<1>2. CASE /\ fs' = Without(fs, segs)
           /\ hist' = [hist EXCEPT !.kept = Without(@, segs)]
           /\ AnswerWith(204, NoBody)
  <2>1. /\ SameFields /\ pc' \in {"answer", "down"}
        /\ gen'.status = 204 /\ gen'.reading.segs = segs
    BY <1>1, <1>2, AnswerWithFacts
  <2> HIDE DEF segs
  <2>2. /\ DOMAIN hist' = HistFields
        /\ hist'.before = hist.before /\ hist'.touched = hist.touched
        /\ hist'.kept = Without(hist.kept, segs)
    BY <1>2 DEF IInv, RecordsOK, HistFields
  <2>3. UploadsKept' /\ KeptReachable'
    BY <1>2, <2>2
       DEF IInv, UploadsKept, KeptReachable, MayReach, Without
  <2>4. Own' \subseteq {segs} \ DOMAIN fs'
    BY <1>1, <1>2, <2>2 DEF Own, Without
  <2>5. RecordsOK'
    BY <1>1, <2>1, <2>2 DEF IInv, RecordsOK, SameFields
  <2>6. ChosenIsFree' /\ OpenedIsNew' /\ ReadsAfterUpload'
    BY <2>1 DEF ChosenIsFree, OpenedIsNew, ReadsAfterUpload, BeforeChange,
                Reading
  <2>7. ChangesAreAnswered'
    BY <2>1, <2>4 DEF ChangesAreAnswered
  <2> QED BY <2>3, <2>5, <2>6, <2>7 DEF IInv
<1>3. CASE UNCHANGED <<fs, hist>> /\ RenderLocationErrorPage(404)
  <2>1. Proceeds
    BY <1>1, <1>3, LocationPageFacts
  <2> QED BY <1>1, <1>3, <2>1, QuietStep DEF Proceeds, SameFields, Reading
<1> QED BY <1>2, <1>3 DEF DeleteHandler

LEMMA ChangedStep ==
  ASSUME IInv, NEW segs, NEW f, Changed(f, segs),
         \A q : q # segs => /\ q \in DOMAIN f <=> q \in DOMAIN fs
                            /\ q \in DOMAIN fs => f[q] = fs[q]
  PROVE  IInv'
<1>1. /\ pc \notin {"answer", "send", "sent", "down"}
      /\ fs' = f /\ UNCHANGED <<pc, client>>
  BY DEF Changed
<1>2. /\ DOMAIN hist' = HistFields
      /\ hist'.kept = Without(hist.kept, segs)
      /\ hist'.before = hist.before
      /\ hist'.touched = IF pc = "idle" THEN hist.touched
                         ELSE hist.touched \cup {segs}
  BY DEF Changed, IInv, RecordsOK, HistFields
<1>3. /\ GenOK'
      /\ gen'.reading = gen.reading
      /\ gen'.then = gen.then /\ gen'.status = gen.status
      /\ gen'.linked
           = (gen.linked /\ ~(pc = "write" /\ segs = gen.reading.segs))
  BY DEF Changed, IInv, RecordsOK, GenOK, GenFields
<1>4. RecordsOK'
  BY <1>1, <1>2, <1>3 DEF IInv, RecordsOK
<1>5. UploadsKept' /\ KeptReachable'
  BY <1>1, <1>2 DEF IInv, UploadsKept, KeptReachable, MayReach, Without
<1>6. pc # "idle" => /\ Own' \subseteq Own
                     /\ \A p \in Own' : /\ p # segs
                                        /\ p \in DOMAIN fs <=> p \in DOMAIN f
                                        /\ p \in DOMAIN fs => f[p] = fs[p]
  BY <1>1, <1>2 DEF Own
<1>7. ChosenIsFree'
  <2>1. pc \in {"menu", "name", "create"} => gen'.linked = TRUE
    BY <1>3 DEF IInv, ChosenIsFree
  <2> DEFINE s == gen.reading.segs
  <2>2. pc = "create" => /\ IsSequence(s)
                         /\ gen.reading = Path(s, FALSE)
                         /\ s \notin DOMAIN hist.kept
                         /\ MayReach(s) /\ s \in DOMAIN fs => s \in hist.touched
    BY DEF IInv, ChosenIsFree
  <2>3. s = gen'.reading.segs
    BY <1>3
  <2> HIDE DEF s
  <2>4. s \notin DOMAIN hist.kept => s \notin DOMAIN hist'.kept
    BY <1>2 DEF Without
  <2>5. pc = "create" /\ MayReach(s) /\ s \in DOMAIN fs'
          => s \in hist'.touched
    BY <1>1, <1>2, <2>2
  <2> QED BY <1>1, <1>3, <2>1, <2>2, <2>3, <2>4, <2>5, ZenonT(40)
             DEF ChosenIsFree, MayReach, IsSequence
<1>8. OpenedIsNew'
  <2> DEFINE s == gen.reading.segs
  <2>1. pc = "write" => /\ MayReach(s)
                        /\ s \notin DOMAIN hist.kept
                        /\ Own \subseteq {s}
                        /\ s \notin hist.touched =>
                             s \notin DOMAIN hist.before /\ gen.linked = TRUE
    BY DEF IInv, OpenedIsNew
  <2>2. s = gen'.reading.segs
    BY <1>3
  <2>3. pc = "write" => (gen'.linked = (gen.linked /\ segs # s))
    BY <1>3
  <2> HIDE DEF s
  <2>4. s \notin DOMAIN hist.kept => s \notin DOMAIN hist'.kept
    BY <1>2 DEF Without
  <2>5. pc = "write" /\ s \notin hist'.touched =>
          s \notin DOMAIN hist'.before /\ gen'.linked = TRUE
    BY <1>2, <2>1, <2>3
  <2>6. pc = "write" => Own' \subseteq {s}
    BY <1>6, <2>1
  <2> QED BY <1>1, <2>1, <2>2, <2>4, <2>5, <2>6 DEF OpenedIsNew, MayReach
<1>9. pc # "idle" /\ OneUpload => OneUpload'
  BY <1>1, <1>2, <1>6 DEF OneUpload
<1>10. ReadsAfterUpload'
  BY <1>1, <1>3, <1>6, <1>9 DEF IInv, ReadsAfterUpload, BeforeChange, Reading
<1>11. ChangesAreAnswered'
  BY <1>1 DEF ChangesAreAnswered
<1> QED BY <1>4, <1>5, <1>7, <1>8, <1>10, <1>11 DEF IInv

LEMMA OthersStep ==
  ASSUME IInv, Appears \/ Vanishes
  PROVE  IInv'
<1>1. ASSUME NEW segs, NEW data, Changed(With(fs, segs, data), segs)
      PROVE  IInv'
  <2>1. \A q : q # segs =>
               /\ q \in DOMAIN With(fs, segs, data) <=> q \in DOMAIN fs
               /\ q \in DOMAIN fs => With(fs, segs, data)[q] = fs[q]
    BY DEF With
  <2> QED BY <1>1, <2>1, ChangedStep
<1>2. ASSUME NEW segs, Changed(Without(fs, segs), segs)
      PROVE  IInv'
  <2>1. \A q : q # segs =>
               /\ q \in DOMAIN Without(fs, segs) <=> q \in DOMAIN fs
               /\ q \in DOMAIN fs => Without(fs, segs)[q] = fs[q]
    BY DEF Without
  <2> QED BY <1>2, <2>1, ChangedStep
<1> QED BY <1>1, <1>2 DEF Appears, Vanishes

-----------------------------------------------------------------------------
(* The theorems.                                                           *)

LEMMA InitHolds == Init => IInv
<1> SUFFICES ASSUME Init PROVE IInv
  OBVIOUS
<1>1. pc = "idle" /\ hist.kept = <<>>
  BY DEF Init
<1>2. RecordsOK
  BY DEF Init, RecordsOK, NewGenerator, GenOK, GenFields, HistFields
<1>3. UploadsKept /\ KeptReachable
  BY <1>1 DEF UploadsKept, KeptReachable
<1>4. ChosenIsFree /\ OpenedIsNew /\ ReadsAfterUpload /\ ChangesAreAnswered
  BY <1>1 DEF ChosenIsFree, OpenedIsNew, ReadsAfterUpload, ChangesAreAnswered,
              BeforeChange, Reading
<1> QED BY <1>2, <1>3, <1>4 DEF IInv

(* Only where the request comes in is it looked at for the first time.     *)
LEMMA LocatedStep == IInv /\ Located /\ [Next]_vars => Located'
<1> SUFFICES ASSUME IInv, Located, [Next]_vars PROVE Located'
  OBVIOUS
<1>1. CASE Receive
  <2>1. PICK r \in Requests :
          /\ client' = NewClient(r)
          /\ pc' = IF NoLocation(r) THEN "down" ELSE "menu"
    BY <1>1, Zenon DEF Receive
  <2> DEFINE a == Assigned(r)
             next == CheckIfRequestAllowed(Servers[a.server], r)
             code == IF a.errorCode # 0 \/ NoLocation(r) THEN a.errorCode
                     ELSE next
  <2>2. NewClient(r) = [request |-> r, server |-> a.server, errorCode |-> code]
    BY Zenon DEF NewClient
  <2>3. NoLocation(r) <=>
          /\ a.errorCode = 0
          /\ LocationUriFromPath(Servers[a.server], r.path) = NoUri
    BY Zenon DEF NoLocation
  <2> HIDE DEF a, next
  <2>4. pc' # "down" /\ client'.errorCode = 0 => HasLocation'
    BY <2>1, <2>2, <2>3 DEF HasLocation, ClientServer
  <2> QED BY <2>1, <2>4 DEF Located
<1>2. ASSUME client' = client, pc \notin {"idle", "down"} \/ pc' = pc,
             pc' = "name" => pc = "name" \/ client.errorCode = 0
      PROVE  Located'
  BY <1>2 DEF Located, HasLocation, ClientServer
<1>3. ASSUME NEW settings, NEW code, RenderErrorPage(settings, code)
      PROVE  pc' # "name"
  BY <1>3 DEF RenderErrorPage, AnswerWith
<1>4. ASSUME NEW n, NEW directory, TryIndex(n, directory)
      PROVE  pc' # "name"
  BY <1>3, <1>4 DEF TryIndex, RenderLocationErrorPage
<1>5. ASSUME NotRead PROVE pc' # "name"
  <2>1. ASSUME NEW status, NEW response, AnswerWith(status, response)
        PROVE  pc' # "name"
    BY <2>1 DEF AnswerWith
  <2>2. \/ RenderLocationErrorPage(404)
        \/ TryIndex(gen.n + 1, Target.segs)
        \/ AnswerWith(gen.status, PageFor(gen.status))
    BY <1>5 DEF NotRead, IInv, RecordsOK, GenOK
  <2> QED BY <1>3, <1>4, <2>1, <2>2 DEF RenderLocationErrorPage
<1>6. CASE ResponseMenu
  <2>1. client' = client /\ pc = "menu"
    BY <1>6 DEF ResponseMenu
  <2>2. CASE client.errorCode # 0
    <3>1. RenderErrorPage(ClientServer.settings, client.errorCode)
      BY <1>6, <2>2, Zenon DEF ResponseMenu
    <3> QED BY <1>2, <1>3, <2>1, <3>1
  <2>3. CASE client.errorCode = 0
    BY <1>2, <2>1, <2>3
  <2> QED BY <2>2, <2>3 DEF IInv, RecordsOK
<1>7. CASE \/ IsPathFileOrFolder \/ OpenFile \/ StatFile \/ ReadFile
           \/ IsDirectoryValid \/ CreateHtmlMenu
  <2>1. client' = client /\ pc \notin {"idle", "down"}
    BY <1>7 DEF IsPathFileOrFolder, OpenFile, StatFile, ReadFile,
                IsDirectoryValid, CreateHtmlMenu
  <2>2. ASSUME NEW code, RenderLocationErrorPage(code) PROVE pc' # "name"
    BY <1>3, <2>2 DEF RenderLocationErrorPage
  <2>3. pc' # "name"
    <3>1. CASE IsPathFileOrFolder
      BY <1>4, <2>2, <3>1 DEF IsPathFileOrFolder, ReadNext
    <3>2. CASE OpenFile \/ StatFile
      BY <1>5, <3>2 DEF OpenFile, StatFile
    <3>3. CASE ReadFile
      BY <1>5, <3>3 DEF ReadFile, IsRead, AnswerWith
    <3>4. CASE IsDirectoryValid \/ CreateHtmlMenu
      BY <2>2, <3>4 DEF IsDirectoryValid, CreateHtmlMenu, AnswerWith
    <3> QED BY <1>7, <3>1, <3>2, <3>3, <3>4
  <2> QED BY <1>2, <2>1, <2>3
<1>8. CASE GenerateFilename \/ OpenOutputFile \/ PutBody \/ DeleteHandler
  <2>1. client' = client /\ pc \notin {"idle", "down"}
    BY <1>8 DEF GenerateFilename, OpenOutputFile, PutBody, DeleteHandler
  <2>2. pc' = "name" => pc = "name"
    BY <1>3, <1>8
       DEF GenerateFilename, OpenOutputFile, PutBody, DeleteHandler,
           AnswerWith, RenderLocationErrorPage
  <2> QED BY <1>2, <2>1, <2>2
<1>9. CASE MakeMessage \/ SendMsg
  BY <1>2, <1>9 DEF MakeMessage, SendMsg
<1>10. CASE Delete \/ PeerLeaves
  BY <1>10 DEF Delete, PeerLeaves, DeleteClient, Located
<1>11. CASE Appears \/ Vanishes
  BY <1>2, <1>11 DEF Appears, Vanishes, Changed
<1>12. CASE UNCHANGED vars
  BY <1>2, <1>12 DEF vars
<1> QED BY <1>1, <1>6, <1>7, <1>8, <1>9, <1>10, <1>11, <1>12
           DEF Next, Server

LEMMA NextPreserves == IInv /\ Located /\ [Next]_vars => IInv'
<1> SUFFICES ASSUME IInv, Located, [Next]_vars PROVE IInv'
  OBVIOUS
<1>1. CASE Receive BY <1>1, ReceiveStep
<1>2. CASE ResponseMenu BY <1>2, MenuStep
<1>3. CASE \/ IsPathFileOrFolder \/ OpenFile \/ StatFile \/ ReadFile
           \/ IsDirectoryValid \/ CreateHtmlMenu
  BY <1>3, LookStep
<1>4. CASE GenerateFilename BY <1>4, NameStep
<1>5. CASE OpenOutputFile BY <1>5, OpenOutputStep
<1>6. CASE PutBody BY <1>6, PutBodyStep
<1>7. CASE DeleteHandler BY <1>7, DeleteStep
<1>8. CASE MakeMessage \/ SendMsg \/ Delete \/ PeerLeaves
  BY <1>8, SendingStep
<1>9. CASE Appears \/ Vanishes BY <1>9, OthersStep
<1>10. CASE UNCHANGED vars
  <2>1. UNCHANGED <<fs, pc, client, gen, hist>>
    BY <1>10 DEF vars
  <2>2. RecordsOK' /\ UploadsKept' /\ KeptReachable' /\ Own' = Own
    BY <2>1, OwnStays DEF IInv, RecordsOK, GenOK
  <2>3. OneUpload => OneUpload'
    BY <2>1, <2>2 DEF OneUpload
  <2>4. ChosenIsFree' /\ OpenedIsNew'
    BY <2>1, <2>2 DEF IInv, ChosenIsFree, OpenedIsNew, MayReach, IsSequence
  <2>5. ReadsAfterUpload'
    BY <2>1, <2>2, <2>3 DEF IInv, ReadsAfterUpload
  <2>6. ChangesAreAnswered'
    BY <2>1, <2>2, <2>3 DEF IInv, ChangesAreAnswered
  <2> QED BY <2>2, <2>4, <2>5, <2>6 DEF IInv
<1> QED
  BY <1>1, <1>2, <1>3, <1>4, <1>5, <1>6, <1>7, <1>8, <1>9, <1>10
     DEF Next, Server

LEMMA Invariance == Spec => [](IInv /\ Located)
<1>1. Init => Located
  BY DEF Init, Located
<1> QED BY <1>1, InitHolds, NextPreserves, LocatedStep, PTL DEF Spec

(* An upload answered with 201 keeps its content and its name until it is  *)
(* deleted, whatever is requested, and whatever somebody else does to      *)
(* other files between any two calls of _postHandler and generateFilename. *)
THEOREM UploadsAreKept == Spec => []UploadsKept
<1>1. IInv => UploadsKept
  BY DEF IInv
<1> QED BY <1>1, Invariance, PTL

(* What the server itself has changed when the answer is made is what the  *)
(* answer says: one new file with the whole body for 201, the file asked   *)
(* for gone for 204, nothing otherwise, error pages and redirects included.*)
THEOREM AnswersTellChanges == Spec => []ChangesAreAnswered
<1>1. IInv => ChangesAreAnswered
  BY DEF IInv
<1> QED BY <1>1, Invariance, PTL

-----------------------------------------------------------------------------
(* The location of a path.                                                 *)

UriUpTo(path, n) == Path(SubSeq(path.segs, 1, n), TRUE)

LEMMA UriLength ==
  ASSUME NEW path \in Paths, NEW n \in 0 .. Len(path.segs)
  PROVE  /\ UriUpTo(path, n).slash = TRUE
         /\ UriUpTo(path, n).segs = SubSeq(path.segs, 1, n)
         /\ Len(UriUpTo(path, n).segs) = n
         /\ n > 0 => Len(DirName(UriUpTo(path, n)).segs) = n - 1
<1>1. path.segs \in Seq(STRING)
  BY DEF Paths
<1> DEFINE u == SubSeq(path.segs, 1, n)
<1>2. u \in Seq(STRING) /\ Len(u) = n
  BY <1>1
<1>3. n > 0 => Len(SubSeq(u, 1, Len(u) - 1)) = n - 1
  <2> HIDE DEF u
  <2> QED BY <1>2
<1> QED BY <1>2, <1>3 DEF UriUpTo, Path, DirName, Front

(* Shortening a path ends at the longest part of it that is the uri of a   *)
(* location, or with nothing.                                              *)
LEMMA LongestUri ==
  ASSUME NEW server, NEW path \in Paths
  PROVE  \E k \in 0 .. Len(path.segs) :
           /\ LocationUriFromPath(server, path) = UriUpTo(path, k)
           /\ k = 0 \/ AmIServerLocation(server, UriUpTo(path, k))
           /\ \A n \in 0 .. Len(path.segs) :
                AmIServerLocation(server, UriUpTo(path, n)) => n <= k
<1> DEFINE N == Len(path.segs)
           Is(n) == n = 0 \/ AmIServerLocation(server, UriUpTo(path, n))
           G(n) == {m \in 0 .. n : Is(m)}
           Below(n) == Len(DirName(UriUpTo(path, n)).segs)
           g == [n \in 0 .. N |-> UriUpTo(path, Max(G(n)))]
           try == CHOOSE t : t = [n \in 0 .. N |->
                    IF n = 0
                       \/ AmIServerLocation(server,
                                            Path(SubSeq(path.segs, 1, n), TRUE))
                    THEN Path(SubSeq(path.segs, 1, n), TRUE)
                    ELSE t[Len(DirName(
                               Path(SubSeq(path.segs, 1, n), TRUE)).segs)]]
<1>1. N \in Nat
  BY DEF Paths
<1>2. Is(0)
  OBVIOUS
<1>3. \A n \in 0 .. N : n > 0 => Below(n) = n - 1
  BY UriLength
<1>4. LocationUriFromPath(server, path) = try[N]
  BY Zenon DEF LocationUriFromPath
<1> HIDE DEF Is, Below
<1>5. \A n \in 0 .. N : /\ Max(G(n)) \in G(n)
                        /\ \A m \in G(n) : Max(G(n)) >= m
  <2> SUFFICES ASSUME NEW n \in 0 .. N
               PROVE  /\ Max(G(n)) \in G(n)
                      /\ \A m \in G(n) : Max(G(n)) >= m
    OBVIOUS
  <2>1. n \in Nat /\ G(n) \subseteq 0 .. n /\ 0 \in G(n)
    BY <1>1, <1>2
  <2> HIDE DEF G
  <2> QED BY <2>1, MaxIsGreatest
<1>6. ASSUME NEW n \in 0 .. N
      PROVE  g[n] = IF Is(n) THEN UriUpTo(path, n) ELSE g[Below(n)]
  <2>1. Max(G(n)) \in G(n) /\ \A m \in G(n) : Max(G(n)) >= m
    BY <1>5
  <2>2. CASE Is(n)
    <3>1. n \in G(n)
      BY <1>1, <2>2
    <3>2. Max(G(n)) \in 0 .. n /\ Max(G(n)) >= n
      BY <2>1, <3>1
    <3>3. Max(G(n)) = n
      BY <1>1, <3>2
    <3> QED BY <2>2, <3>3
  <2>3. CASE ~Is(n)
    <3>1. n > 0 /\ n - 1 \in 0 .. N /\ 0 .. n = (0 .. n - 1) \cup {n}
      BY <1>1, <1>2, <2>3
    <3>2. G(n) = G(n - 1)
      BY <2>3, <3>1
    <3>3. Below(n) = n - 1
      BY <1>3, <3>1
    <3> HIDE DEF G
    <3> QED BY <2>3, <3>1, <3>2, <3>3
  <2> QED BY <2>2, <2>3
<1>7. g = [n \in 0 .. N |->
             IF n = 0 \/ AmIServerLocation(
                           server, Path(SubSeq(path.segs, 1, n), TRUE))
             THEN Path(SubSeq(path.segs, 1, n), TRUE)
             ELSE g[Len(DirName(Path(SubSeq(path.segs, 1, n), TRUE)).segs)]]
  <2>1. g = [n \in 0 .. N |-> g[n]]
    OBVIOUS
  <2> HIDE DEF g
  <2>2. \A n \in 0 .. N :
          g[n] = IF n = 0 \/ AmIServerLocation(
                                server, Path(SubSeq(path.segs, 1, n), TRUE))
                 THEN Path(SubSeq(path.segs, 1, n), TRUE)
                 ELSE g[Len(DirName(Path(SubSeq(path.segs, 1, n), TRUE)).segs)]
    BY <1>6, Zenon DEF Is, Below, UriUpTo
  <2> QED BY <2>1, <2>2, Zenon
<1>8. try = [n \in 0 .. N |->
               IF n = 0 \/ AmIServerLocation(
                             server, Path(SubSeq(path.segs, 1, n), TRUE))
               THEN Path(SubSeq(path.segs, 1, n), TRUE)
               ELSE try[Len(DirName(Path(SubSeq(path.segs, 1, n), TRUE)).segs)]]
  <2> HIDE DEF g
  <2> QED BY <1>7, Zenon
<1> HIDE DEF try
<1>9. \A n \in 0 .. N :
        try[n] = IF Is(n) THEN UriUpTo(path, n) ELSE try[Below(n)]
  BY <1>8, Zenon DEF Is, Below, UriUpTo
<1> DEFINE T == {n \in 0 .. N : try[n] = g[n]}
<1> HIDE DEF g
<1>10. 0 \in T
  <2>1. 0 \in 0 .. N
    BY <1>1
  <2> QED BY <1>2, <1>6, <1>9, <2>1
<1>11. ASSUME NEW n \in 0 .. N - 1, n \in T PROVE n + 1 \in T
  <2>1. n + 1 \in 0 .. N /\ n + 1 > 0 /\ (n + 1) - 1 = n
    BY <1>1
  <2>2. Below(n + 1) = n
    BY <1>3, <2>1
  <2> QED BY <1>6, <1>9, <1>11, <2>1, <2>2
<1> HIDE DEF T
<1>12. \A n \in 0 .. N : n \in T
  BY <1>1, <1>10, <1>11, InductionUpTo
<1>13. N \in 0 .. N
  BY <1>1
<1>14. try[N] = UriUpTo(path, Max(G(N)))
  <2>1. g[N] = UriUpTo(path, Max(G(N)))
    BY <1>13 DEF g
  <2>2. N \in T
    BY <1>12, <1>13
  <2> QED BY <2>1, <2>2 DEF T
<1>15. /\ Max(G(N)) \in 0 .. N
       /\ Is(Max(G(N)))
       /\ \A n \in 0 .. N : Is(n) => n <= Max(G(N))
  <2>1. Max(G(N)) \in G(N) /\ \A m \in G(N) : Max(G(N)) >= m
    BY <1>5, <1>13
  <2>2. Max(G(N)) \in 0 .. N /\ Is(Max(G(N)))
    BY <2>1
  <2>3. ASSUME NEW n \in 0 .. N, Is(n) PROVE n <= Max(G(N))
    <3>1. n \in G(N)
      BY <2>3
    <3>2. Max(G(N)) >= n
      BY <2>1, <3>1
    <3> HIDE DEF G
    <3> QED BY <2>2, <3>2
  <2> QED BY <2>2, <2>3
<1> QED BY <1>4, <1>14, <1>15 DEF Is

(* The parts of a path are the uris that end with a slash and that the     *)
(* path begins with.                                                       *)
LEMMA FittingUri ==
  ASSUME NEW path \in Paths, NEW uri \in Paths
  PROVE  uri.slash /\ IsPrefix(uri.segs, path.segs)
           <=> \E n \in 0 .. Len(path.segs) : uri = UriUpTo(path, n)
<1>1. /\ path.segs \in Seq(STRING) /\ uri.segs \in Seq(STRING)
      /\ uri.slash \in BOOLEAN
      /\ uri = [segs |-> uri.segs, slash |-> uri.slash]
  BY DEF Paths
<1>2. ASSUME uri.slash, IsPrefix(uri.segs, path.segs)
      PROVE  \E n \in 0 .. Len(path.segs) : uri = UriUpTo(path, n)
  <2>1. /\ Len(uri.segs) \in 0 .. Len(path.segs)
        /\ SubSeq(uri.segs, 1, Len(uri.segs))
             = SubSeq(path.segs, 1, Len(uri.segs))
    BY <1>1, <1>2 DEF IsPrefix
  <2>2. SubSeq(uri.segs, 1, Len(uri.segs)) = uri.segs
    BY <1>1
  <2>3. uri = UriUpTo(path, Len(uri.segs))
    BY <1>1, <1>2, <2>1, <2>2 DEF UriUpTo, Path
  <2> QED BY <2>1, <2>3
<1>3. ASSUME NEW n \in 0 .. Len(path.segs), uri = UriUpTo(path, n)
      PROVE  uri.slash /\ IsPrefix(uri.segs, path.segs)
  <2>1. uri.slash = TRUE /\ uri.segs = SubSeq(path.segs, 1, n)
        /\ Len(uri.segs) = n
    BY <1>3, UriLength
  <2>2. SubSeq(uri.segs, 1, Len(uri.segs)) = uri.segs
    BY <1>1
  <2> QED BY <1>1, <2>1, <2>2 DEF IsPrefix
<1> QED BY <1>2, <1>3

(* Shortening the path comes to nothing when there is no location whose    *)
(* uri it begins with.                                                     *)
LEMMA NothingFits ==
  ASSUME NEW i \in DOMAIN Servers, NEW path \in Paths,
         LocationUriFromPath(Servers[i], path) = NoUri
  PROVE  FittingLocations(Servers[i], path) = {}
<1> DEFINE server == Servers[i]
<1>1. \A n \in DOMAIN server.locations :
        /\ server.locations[n].uri \in Paths
        /\ server.locations[n].uri.segs # <<>>
  BY ServersAssumption
<1> HIDE DEF server
<1>2. PICK k \in 0 .. Len(path.segs) :
        /\ LocationUriFromPath(server, path) = UriUpTo(path, k)
        /\ \A n \in 0 .. Len(path.segs) :
             AmIServerLocation(server, UriUpTo(path, n)) => n <= k
  BY LongestUri
<1>3. k = 0
  <2>1. UriUpTo(path, k).segs = NoUri.segs
    BY <1>2 DEF server
  <2>2. Len(UriUpTo(path, k).segs) = k
    BY UriLength
  <2>3. NoUri.segs = <<>> /\ Len(<<>>) = 0
    BY DEF NoUri, Path
  <2> QED BY <2>1, <2>2, <2>3
<1>4. ASSUME NEW j \in FittingLocations(server, path) PROVE FALSE
  <2> DEFINE uri == server.locations[j].uri
  <2>1. /\ j \in DOMAIN server.locations /\ uri \in Paths /\ uri.segs # <<>>
        /\ uri.slash /\ IsPrefix(uri.segs, path.segs)
    BY <1>1, <1>4 DEF FittingLocations
  <2>2. PICK n \in 0 .. Len(path.segs) : uri = UriUpTo(path, n)
    BY <2>1, FittingUri
  <2>3. AmIServerLocation(server, UriUpTo(path, n))
    BY <2>1, <2>2, Zenon DEF AmIServerLocation
  <2>4. n = 0
    BY <1>2, <1>3, <2>3
  <2>5. uri.segs = SubSeq(path.segs, 1, 0)
    BY <2>2, <2>4, UriLength
  <2>6. SubSeq(path.segs, 1, 0) = <<>>
    BY DEF Paths
  <2> QED BY <2>1, <2>5, <2>6
<1> QED BY <1>4 DEF server

(* Else it finds the location with the longest uri.                        *)
LEMMA LocationIsLongest ==
  ASSUME NEW i \in DOMAIN Servers, NEW path \in Paths,
         LocationUriFromPath(Servers[i], path) # NoUri
  PROVE  /\ LocationOf(Servers[i], path) = LongestLocation(Servers[i], path)
         /\ \E n \in DOMAIN Servers[i].locations :
              LocationOf(Servers[i], path) = Servers[i].locations[n]
<1> DEFINE server == Servers[i]
           locs == server.locations
           Fits(l) == l.uri.slash /\ IsPrefix(l.uri.segs, path.segs)
           fitting == FittingLocations(server, path)
<1>1. /\ DOMAIN locs \subseteq Nat
      /\ ~DuplicateLocations(locs)
      /\ \A n \in DOMAIN locs : locs[n].uri \in Paths
  BY ServersAssumption
<1>2. LocationUriFromPath(server, path) # NoUri
  OBVIOUS
<1> HIDE DEF server
<1>3. PICK k \in 0 .. Len(path.segs) :
        /\ LocationUriFromPath(server, path) = UriUpTo(path, k)
        /\ AmIServerLocation(server, UriUpTo(path, k))
        /\ \A n \in 0 .. Len(path.segs) :
             AmIServerLocation(server, UriUpTo(path, n)) => n <= k
  <2>1. PICK k \in 0 .. Len(path.segs) :
          /\ LocationUriFromPath(server, path) = UriUpTo(path, k)
          /\ k = 0 \/ AmIServerLocation(server, UriUpTo(path, k))
          /\ \A n \in 0 .. Len(path.segs) :
               AmIServerLocation(server, UriUpTo(path, n)) => n <= k
    BY LongestUri
  <2>2. k # 0
    <3>1. SubSeq(path.segs, 1, 0) = <<>>
      BY DEF Paths
    <3>2. UriUpTo(path, 0) = NoUri
      BY <3>1 DEF UriUpTo, NoUri
    <3> QED BY <1>2, <2>1, <3>2
  <2> QED BY <2>1, <2>2
<1> DEFINE found == {n \in DOMAIN server.locations :
                       server.locations[n].uri = UriUpTo(path, k)}
           a == CHOOSE n \in found : \A j \in found : n <= j
           b == CHOOSE n \in fitting : \A j \in fitting :
                  Len(server.locations[j].uri.segs)
                    <= Len(server.locations[n].uri.segs)
<1>4. LocationOf(server, path) = locs[a]
  BY <1>3, Zenon DEF LocationOf, FetchLocationWithUri
<1>5. LongestLocation(server, path) = locs[b]
  BY Zenon DEF LongestLocation
<1>13. \A n : n \in fitting <=> n \in DOMAIN locs /\ Fits(locs[n])
  BY Zenon DEF FittingLocations
<1>6. a \in found
  <2>1. found \subseteq Nat /\ found # {}
    BY <1>1, <1>3 DEF AmIServerLocation
  <2> HIDE DEF found
  <2>2. \E n \in found : \A m \in found : n <= m
    BY <2>1, LeastMember
  <2> QED BY <2>2, Zenon
<1>7. a \in DOMAIN locs /\ locs[a].uri = UriUpTo(path, k)
  <2> HIDE DEF a
  <2> QED BY <1>6
<1> HIDE DEF a
<1>8. Len(locs[a].uri.segs) = k /\ a \in fitting
  BY <1>1, <1>7, <1>13, UriLength, FittingUri
<1>9. ASSUME NEW j \in fitting
      PROVE  \E n \in 0 .. k : locs[j].uri = UriUpTo(path, n)
                               /\ Len(locs[j].uri.segs) = n
  <2>1. j \in DOMAIN locs /\ locs[j].uri \in Paths /\ Fits(locs[j])
    BY <1>1, <1>13
  <2>2. PICK n \in 0 .. Len(path.segs) : locs[j].uri = UriUpTo(path, n)
    BY <2>1, FittingUri
  <2>3. n <= k
    BY <1>3, <2>1, <2>2 DEF AmIServerLocation
  <2>4. Len(locs[j].uri.segs) = n
    BY <2>2, UriLength
  <2>5. n \in 0 .. k
    BY <2>3
  <2> QED BY <2>2, <2>4, <2>5
<1>10. b \in fitting /\ \A j \in fitting :
         Len(locs[j].uri.segs) <= Len(locs[b].uri.segs)
  <2>1. \A j \in fitting : Len(locs[j].uri.segs) <= Len(locs[a].uri.segs)
    BY <1>8, <1>9
  <2> HIDE DEF fitting
  <2> QED BY <1>8, <2>1, Zenon
<1> HIDE DEF b
<1>11. locs[b].uri = locs[a].uri
  <2>1. PICK n \in 0 .. k : locs[b].uri = UriUpTo(path, n)
                            /\ Len(locs[b].uri.segs) = n
    BY <1>9, <1>10
  <2>2. k <= n
    BY <1>8, <1>10, <2>1
  <2>3. n = k
    BY <2>2
  <2> QED BY <1>7, <2>1, <2>3
<1>12. a = b
  <2>1. a \in Nat /\ b \in Nat /\ b \in DOMAIN locs
    BY <1>1, <1>7, <1>10, <1>13
  <2>2. ~(a < b) /\ ~(b < a)
    BY <1>1, <1>7, <1>11, <2>1 DEF DuplicateLocations
  <2> QED BY <2>1, <2>2
<1> QED BY <1>4, <1>5, <1>7, <1>12 DEF server

(* A request without an error has a server.                                *)
LEMMA ServedHasServer ==
  ASSUME NEW r \in Requests, NewClient(r).errorCode = 0
  PROVE  /\ NewClient(r).request = r
         /\ NewClient(r).server \in DOMAIN Servers
<1> DEFINE a == AssignVirtualServer(Servers, r.hostPort, r.hostName,
                                    r.clientPort)
           s == ServerByPort(Servers, r.hostPort, r.hostName)
           b == Assigned(r)
           code == IF b.errorCode # 0 \/ NoLocation(r) THEN b.errorCode
                   ELSE CheckIfRequestAllowed(Servers[b.server], r)
<1>1. NewClient(r) = [request |-> r, server |-> b.server, errorCode |-> code]
  BY Zenon DEF NewClient
<1> HIDE DEF code, b
<1>2. code = 0
  BY <1>1
<1>3. b.errorCode = 0
  BY <1>2 DEF code
<1>4. a = IF s = NoServer THEN [server |-> 1, errorCode |-> 400]
          ELSE IF r.clientPort = 0 THEN [server |-> 1, errorCode |-> 500]
          ELSE IF ~IsListeningToPort(Servers[s], r.clientPort)
          THEN [server |-> 1, errorCode |-> 400]
          ELSE [server |-> s, errorCode |-> 0]
  BY Zenon DEF AssignVirtualServer
<1> HIDE DEF s, a
<1>5. b = IF r.error = 400 THEN [server |-> 1, errorCode |-> 400]
          ELSE [a EXCEPT !.errorCode = IF @ # 0 THEN @ ELSE r.error]
  BY Zenon DEF Assigned, a, b
<1>6. b.server = s /\ s # NoServer
  <2>1. DOMAIN a = {"server", "errorCode"}
    BY <1>4
  <2>2. /\ r.error # 400
        /\ b = [a EXCEPT !.errorCode = IF @ # 0 THEN @ ELSE r.error]
    BY <1>3, <1>5
  <2>3. b.server = a.server /\ a.errorCode = 0
    BY <1>3, <2>1, <2>2
  <2> QED BY <1>4, <2>3
<1> DEFINE onPort == ServersOfPort(Servers, r.hostPort)
           named  == {i \in onPort : IsContainingName(Servers[i], r.hostName)}
<1>7. s = CASE onPort = {} -> NoServer
            [] named # {}  -> CHOOSE i \in named : \A j \in named : i <= j
            [] OTHER       -> CHOOSE i \in onPort : \A j \in onPort : i <= j
  BY Zenon DEF ServerByPort, s
<1>8. onPort \subseteq DOMAIN Servers /\ named \subseteq onPort
      /\ DOMAIN Servers \subseteq Nat
  BY ServersAssumption DEF ServersOfPort
<1> HIDE DEF onPort, named
<1>9. \A T : T \subseteq Nat /\ T # {}
               => (CHOOSE i \in T : \A j \in T : i <= j) \in T
  <2> SUFFICES ASSUME NEW T, T \subseteq Nat, T # {}
               PROVE  (CHOOSE i \in T : \A j \in T : i <= j) \in T
    OBVIOUS
  <2>1. \E i \in T : \A j \in T : i <= j
    BY LeastMember
  <2> QED BY <2>1, Zenon
<1>10. s \in DOMAIN Servers
  <2>1. CASE named # {}
    <3>1. s = CHOOSE i \in named : \A j \in named : i <= j
      BY <1>7, <1>8, <2>1
    <3> QED BY <1>8, <1>9, <2>1, <3>1
  <2>2. CASE named = {}
    <3>1. s = (CHOOSE i \in onPort : \A j \in onPort : i <= j) /\ onPort # {}
      BY <1>6, <1>7, <2>2
    <3> QED BY <1>8, <1>9, <3>1
  <2> QED BY <2>1, <2>2
<1> QED BY <1>1, <1>6, <1>10

-----------------------------------------------------------------------------
(* What the response is made of, and what may end the server.              *)

Sizable(data) == data \in Contents \cup {Dir}

FilesSizable == \A p \in DOMAIN fs : Sizable(fs[p])

(* A file's content is that of a file.                                     *)
ResponseSizable == gen.response.kind = "file" => gen.response.data \in Contents

(* A redirect with a code that has no phrase.                              *)
OddRedirect ==
  /\ client.errorCode = 0 /\ IsRedirect(ClientLocation)
  /\ RedirectCode(ClientLocation) \notin KnownCodes

Answerable(code) == code \in KnownCodes \/ OddRedirect

(* A file between open and stat can still be looked at, or was touched.    *)
LookedAt ==
  pc = "fstat" =>
    Opens(fs, gen.reading) \/ gen.reading.segs \in hist.touched

PageAnswerable ==
  pc \in Reading /\ gen.then = "page" => Answerable(gen.status)

SendingInOrder ==
  pc \in {"send", "sent"} =>
    /\ Underway(out, BodySize(gen.response))
    /\ AllSent(out) <=> pc = "sent"

RInv ==
  /\ FilesSizable
  /\ ResponseSizable
  /\ LookedAt
  /\ PageAnswerable
  /\ SendingInOrder
  /\ StopsOnlyThen

(* What a step of the generator leaves: an answer that can be sent, or a   *)
(* page to read first.                                                     *)
Sound ==
  /\ ResponseSizable'
  /\ pc' \notin {"fstat", "send", "sent"}
  /\ pc' = "down" => OddRedirect
  /\ pc' = "open" /\ gen'.then = "page" =>
       gen'.status \in KnownCodes \/ OddRedirect
  /\ pc' \in Reading => pc' = "open"

LEMMA SoundStep ==
  ASSUME Sound, FilesSizable', UNCHANGED client
  PROVE  RInv'
<1>1. OddRedirect' <=> OddRedirect
  BY DEF OddRedirect, ClientLocation, ClientServer
<1>2. LookedAt' /\ SendingInOrder' /\ ResponseSizable'
  BY DEF Sound, LookedAt, SendingInOrder
<1>3. PageAnswerable'
  BY <1>1 DEF Sound, PageAnswerable, Answerable, Reading
<1>4. pc' = "down" => OddRedirect'
  BY <1>1 DEF Sound
<1>5. StopsOnlyThen'
  BY <1>4 DEF StopsOnlyThen, OddRedirect
<1> QED BY <1>2, <1>3, <1>5 DEF RInv

LEMMA AnswerIsSound ==
  ASSUME GenOK, NEW code, Answerable(code), NEW response,
         AnswerWith(code, response),
         response.kind = "file" => response.data \in Contents
  PROVE  Sound
<1>1. gen'.response = response /\ gen'.status = code
  BY DEF AnswerWith, GenOK, GenFields
<1>2. pc' = IF code \in KnownCodes THEN "answer" ELSE "down"
  BY DEF AnswerWith
<1> QED BY <1>1, <1>2 DEF Sound, ResponseSizable, Answerable, Reading

LEMMA PageIsSound ==
  ASSUME GenOK, ResponseSizable, NEW settings, NEW code, Answerable(code),
         RenderErrorPage(settings, code)
  PROVE  Sound
<1>1. CASE AnswerWith(code, PageFor(code))
  <2>1. PageFor(code).kind # "file"
    BY DEF PageFor, Response
  <2> QED BY <1>1, <2>1, AnswerIsSound
<1>2. ASSUME NEW segs,
             gen' = [gen EXCEPT !.reading = Path(segs, FALSE),
                                !.then = "page", !.status = code],
             pc' = "open"
      PROVE  Sound
  <2>1. gen'.response = gen.response /\ gen'.status = code
    BY <1>2 DEF GenOK, GenFields
  <2> QED BY <1>2, <2>1 DEF Sound, ResponseSizable, Answerable
<1> QED BY <1>1, <1>2 DEF RenderErrorPage

LEMMA OwnCodes ==
  \A code \in {200, 201, 204, 400, 403, 404, 413, 500} : Answerable(code)
BY KnownCodesAssumption DEF Answerable

LEMMA LocationPageIsSound ==
  ASSUME GenOK, ResponseSizable, NEW code, Answerable(code),
         RenderLocationErrorPage(code)
  PROVE  Sound
BY PageIsSound DEF RenderLocationErrorPage

LEMMA IndexIsSound ==
  ASSUME GenOK, ResponseSizable, NEW n, NEW directory, TryIndex(n, directory)
  PROVE  Sound
<1>1. CASE /\ gen' = [gen EXCEPT !.n = n, !.then = "index", !.reading =
                        Path(directory \o IndexesOf(ClientLocation)[n], FALSE)]
           /\ pc' = "open"
  BY <1>1 DEF Sound, ResponseSizable, GenOK, GenFields
<1>2. CASE pc' = "opendir" /\ gen' = [gen EXCEPT !.reading = Target]
  BY <1>2 DEF Sound, ResponseSizable, GenOK, GenFields, Reading
<1>3. CASE RenderLocationErrorPage(404)
  BY <1>3, LocationPageIsSound, OwnCodes
<1> QED BY <1>1, <1>2, <1>3 DEF TryIndex

LEMMA NotReadIsSound ==
  ASSUME GenOK, ResponseSizable, PageAnswerable, pc \in Reading, NotRead
  PROVE  Sound
<1>1. CASE gen.then = "file"
  <2>1. RenderLocationErrorPage(404)
    BY <1>1 DEF NotRead
  <2> QED BY <2>1, LocationPageIsSound, OwnCodes
<1>2. CASE gen.then = "index"
  <2>1. TryIndex(gen.n + 1, Target.segs)
    BY <1>2 DEF NotRead
  <2> QED BY <2>1, IndexIsSound
<1>3. CASE gen.then = "page"
  <2>1. AnswerWith(gen.status, PageFor(gen.status))
    BY <1>3 DEF NotRead
  <2>2. Answerable(gen.status)
    BY <1>3 DEF PageAnswerable
  <2>3. PageFor(gen.status).kind # "file"
    BY DEF PageFor, Response
  <2> QED BY <2>1, <2>2, <2>3, AnswerIsSound
<1> QED BY <1>1, <1>2, <1>3 DEF GenOK

(* The error a request has when the generator gets it.                     *)
LEMMA ErrorsHavePhrases ==
  ASSUME NEW r \in Requests
  PROVE  NewClient(r).errorCode \in KnownCodes \cup {0}
<1> DEFINE a == AssignVirtualServer(Servers, r.hostPort, r.hostName,
                                    r.clientPort)
<1>1. {0, 400, 403, 413, 500} \subseteq KnownCodes \cup {0}
  BY KnownCodesAssumption
<1>2. /\ a.errorCode \in {0, 400, 500}
      /\ DOMAIN a = {"server", "errorCode"}
  <2> DEFINE s == ServerByPort(Servers, r.hostPort, r.hostName)
  <2> HIDE DEF s
  <2> QED BY DEF AssignVirtualServer, s
<1> HIDE DEF a
<1>3. Assigned(r).errorCode \in KnownCodes \cup {0}
  BY <1>1, <1>2, RequestsAssumption DEF Assigned, a
<1>4. \A server : CheckIfRequestAllowed(server, r) \in KnownCodes \cup {0}
  BY <1>1 DEF CheckIfRequestAllowed
<1> DEFINE b    == Assigned(r)
           next == CheckIfRequestAllowed(Servers[b.server], r)
           code == IF b.errorCode # 0 \/ NoLocation(r) THEN b.errorCode
                   ELSE next
<1>5. code \in KnownCodes \cup {0}
  <2>1. next \in KnownCodes \cup {0}
    BY <1>4
  <2>2. b.errorCode \in KnownCodes \cup {0}
    BY <1>3
  <2> HIDE DEF next, b
  <2> QED BY <2>1, <2>2
<1>6. NewClient(r) = [request |-> r, server |-> b.server, errorCode |-> code]
  BY Zenon DEF NewClient
<1> HIDE DEF code, b
<1> QED BY <1>5, <1>6

LEMMA ReceiveSound ==
  ASSUME IInv, RInv, Receive
  PROVE  RInv'
<1>1. pc' \in {"menu", "down"} /\ gen'.response = NoBody
  BY DEF Receive, NewGenerator
<1>4. ASSUME pc' = "down" PROVE StopsOnlyThen'
  <2>1. PICK r \in Requests : client' = NewClient(r) /\ NoLocation(r)
    BY <1>4 DEF Receive
  <2> DEFINE a == Assigned(r)
  <2>2. /\ a.errorCode = 0
        /\ LocationUriFromPath(Servers[a.server], r.path) = NoUri
    BY <2>1 DEF NoLocation
  <2>3. NewClient(r) = [request |-> r, server |-> a.server,
                        errorCode |-> a.errorCode]
    BY <2>1, Zenon DEF NewClient
  <2> HIDE DEF a
  <2>4. a.server \in DOMAIN Servers
    BY <2>2, <2>3, ServedHasServer
  <2>5. FittingLocations(Servers[a.server], r.path) = {}
    BY <2>2, <2>4, NothingFits, RequestsAssumption
  <2> QED BY <2>1, <2>2, <2>3, <2>5 DEF StopsOnlyThen, ClientServer
<1>5. pc' # "down" => StopsOnlyThen'
  BY DEF StopsOnlyThen
<1>2. ResponseSizable'
  <2>1. NoBody.kind # "file"
    BY DEF NoBody, Response
  <2> QED BY <1>1, <2>1 DEF ResponseSizable
<1>3. FilesSizable'
  BY DEF RInv, FilesSizable, Receive
<1> QED BY <1>1, <1>2, <1>3, <1>4, <1>5
           DEF RInv, LookedAt, PageAnswerable, SendingInOrder, Reading

LEMMA MenuSound ==
  ASSUME IInv, RInv, ResponseMenu
  PROVE  RInv'
<1>1. pc = "menu" /\ UNCHANGED <<fs, client>> /\ GenOK /\ ResponseSizable
  BY DEF ResponseMenu, IInv, RInv, RecordsOK
<1>2. FilesSizable'
  BY <1>1 DEF RInv, FilesSizable
<1>3. Sound
  <2>1. CASE client.errorCode # 0
    <3>1. RenderErrorPage(ClientServer.settings, client.errorCode)
      BY <2>1, Zenon DEF ResponseMenu
    <3>2. client.errorCode \in KnownCodes
      BY <1>1, <2>1, ErrorsHavePhrases DEF IInv, RecordsOK
    <3> QED BY <1>1, <3>1, <3>2, PageIsSound DEF Answerable
  <2>2. CASE client.errorCode = 0 /\ IsRedirect(ClientLocation)
    <3>1. RenderLocationErrorPage(RedirectCode(ClientLocation))
      BY <2>2 DEF ResponseMenu
    <3>2. Answerable(RedirectCode(ClientLocation))
      BY <2>2 DEF Answerable, OddRedirect
    <3> QED BY <1>1, <3>1, <3>2, LocationPageIsSound
  <2>3. CASE client.errorCode = 0 /\ ~IsRedirect(ClientLocation)
    <3>1. client.request.method \in Methods
      BY <1>1, RequestsAssumption DEF IInv, RecordsOK, NewClient
    <3>2. pc' \in {"stat", "name", "remove"}
          /\ gen' = [gen EXCEPT !.reading = Target]
      BY <2>3, <3>1 DEF ResponseMenu, Methods
    <3>3. gen'.response = gen.response
      BY <1>1, <3>2 DEF GenOK, GenFields
    <3> QED BY <1>1, <3>2, <3>3 DEF Sound, ResponseSizable, Reading
  <2> QED BY <2>1, <2>2, <2>3
<1> QED BY <1>1, <1>2, <1>3, SoundStep

LEMMA LookSound ==
  ASSUME IInv, RInv,
         \/ IsPathFileOrFolder \/ OpenFile \/ StatFile \/ ReadFile
         \/ IsDirectoryValid \/ CreateHtmlMenu
  PROVE  RInv'
<1>1. /\ UNCHANGED <<fs, client, hist>> /\ GenOK /\ ResponseSizable
      /\ PageAnswerable
  BY DEF IsPathFileOrFolder, OpenFile, StatFile, ReadFile, IsDirectoryValid,
         CreateHtmlMenu, IInv, RInv, RecordsOK
<1>2. FilesSizable'
  BY <1>1 DEF RInv, FilesSizable
<1>3. Sound => RInv'
  BY <1>1, <1>2, SoundStep
<1>4. UNCHANGED gen /\ pc' \in {"fstat", "read", "readdir", "down"}
        => /\ ResponseSizable'
           /\ pc \in Reading => PageAnswerable'
  BY <1>1 DEF ResponseSizable, PageAnswerable, Answerable, OddRedirect,
              ClientLocation, ClientServer, Reading
<1>5. CASE IsPathFileOrFolder
  <2>1. CASE ReadNext(gen.reading, "file")
    <3>1. pc' = "open" /\ gen'.then = "file" /\ gen'.response = gen.response
      BY <1>1, <2>1 DEF ReadNext, GenOK, GenFields
    <3> QED BY <1>1, <1>3, <3>1 DEF Sound, ResponseSizable
  <2>2. CASE TryIndex(1, gen.reading.segs)
    BY <1>1, <1>3, <2>2, IndexIsSound
  <2>3. CASE RenderLocationErrorPage(
               FileOrFolderStatusCode(Stat(fs, gen.reading)))
    <3>1. Answerable(FileOrFolderStatusCode(Stat(fs, gen.reading)))
      BY OwnCodes DEF FileOrFolderStatusCode
    <3> QED BY <1>1, <1>3, <2>3, <3>1, LocationPageIsSound
  <2> QED BY <1>5, <2>1, <2>2, <2>3 DEF IsPathFileOrFolder
<1>6. CASE OpenFile
  <2>1. pc = "open" /\ pc \in Reading
    BY <1>6 DEF OpenFile, Reading
  <2>2. CASE Opens(fs, gen.reading) /\ pc' = "fstat" /\ UNCHANGED gen
    <3>1. ResponseSizable' /\ PageAnswerable'
      BY <1>4, <2>1, <2>2
    <3>2. LookedAt'
      BY <1>1, <2>2 DEF LookedAt
    <3> QED BY <1>2, <2>2, <3>1, <3>2
               DEF RInv, SendingInOrder, StopsOnlyThen
  <2>3. CASE NotRead
    BY <1>1, <1>3, <2>1, <2>3, NotReadIsSound
  <2> QED BY <1>6, <2>2, <2>3 DEF OpenFile
<1>7. CASE StatFile
  <2>1. pc = "fstat" /\ pc \in Reading
    BY <1>7 DEF StatFile, Reading
  <2>2. CASE pc' = "read" /\ UNCHANGED gen
    <3>1. ResponseSizable' /\ PageAnswerable'
      BY <1>4, <2>1, <2>2
    <3> QED BY <1>2, <2>2, <3>1
               DEF RInv, LookedAt, SendingInOrder, StopsOnlyThen
  <2>3. CASE NotRead
    BY <1>1, <1>3, <2>1, <2>3, NotReadIsSound
  <2>4. CASE /\ Stat(fs, gen.reading) \notin {"file", "dir"}
             /\ pc' = "down" /\ UNCHANGED gen
    <3>1. ResponseSizable' /\ PageAnswerable'
      BY <1>4, <2>1, <2>4
    <3>2. gen.reading.segs \in hist.touched
      BY <2>1, <2>4 DEF RInv, LookedAt, Opens
    <3>3. StopsOnlyThen'
      BY <1>1, <2>4, <3>2 DEF StopsOnlyThen
    <3> QED BY <1>2, <2>4, <3>1, <3>3 DEF RInv, LookedAt, SendingInOrder
  <2> QED BY <1>7, <2>2, <2>3, <2>4 DEF StatFile
<1>8. CASE ReadFile
  <2>1. pc = "read" /\ pc \in Reading
    BY <1>8 DEF ReadFile, Reading
  <2> DEFINE data == IF fs[gen.reading.segs] = Dir THEN ""
                     ELSE fs[gen.reading.segs]
  <2>2. CASE Opens(fs, gen.reading) /\ IsRead(data)
    <3>1. gen.reading.segs \in DOMAIN fs
      <4>1. Stat(fs, gen.reading) \in {"file", "dir"}
        BY <2>2 DEF Opens
      <4> HIDE DEF data
      <4> QED BY <4>1, FoundIsReached
    <3>2. data \in Contents
      BY <3>1, SizesOfAssumption DEF RInv, FilesSizable, Sizable
    <3>3. Answerable(IF gen.then = "page" THEN gen.status ELSE 200)
      BY <1>1, <2>1, OwnCodes DEF PageAnswerable
    <3>4. FileBody(data).data = data
      BY DEF FileBody, Response
    <3> HIDE DEF data
    <3> QED BY <1>1, <1>3, <2>2, <3>2, <3>3, <3>4, AnswerIsSound DEF IsRead
  <2>3. CASE NotRead
    BY <1>1, <1>3, <2>1, <2>3, NotReadIsSound
  <2> QED BY <1>8, <2>2, <2>3 DEF ReadFile
<1>9. CASE IsDirectoryValid
  <2>1. CASE pc = "opendir" /\ pc' = "readdir" /\ UNCHANGED gen
    BY <1>2, <1>4, <2>1
       DEF RInv, LookedAt, PageAnswerable, SendingInOrder, StopsOnlyThen,
           Reading
  <2>2. CASE RenderLocationErrorPage(
               DirFailStatusCode(OpenDir(fs, gen.reading)))
    <3>1. Answerable(DirFailStatusCode(OpenDir(fs, gen.reading)))
      BY OwnCodes DEF DirFailStatusCode
    <3> QED BY <1>1, <1>3, <2>2, <3>1, LocationPageIsSound
  <2> QED BY <1>9, <2>1, <2>2 DEF IsDirectoryValid
<1>10. CASE CreateHtmlMenu
  <2>1. CASE AnswerWith(200, Listing(fs, gen.reading.segs))
    <3>1. Listing(fs, gen.reading.segs).kind # "file"
      BY DEF Listing, Response
    <3> QED BY <1>1, <1>3, <2>1, <3>1, AnswerIsSound, OwnCodes
  <2>2. CASE RenderLocationErrorPage(500)
    BY <1>1, <1>3, <2>2, LocationPageIsSound, OwnCodes
  <2> QED BY <1>10, <2>1, <2>2 DEF CreateHtmlMenu
<1> QED BY <1>5, <1>6, <1>7, <1>8, <1>9, <1>10

(* Contents that are written have a size as well.                          *)
LEMMA WrittenSizable ==
  ASSUME FilesSizable, NEW segs
  PROVE  /\ fs' = Without(fs, segs) => FilesSizable'
         /\ \A data : Sizable(data) /\ fs' = With(fs, segs, data)
                        => FilesSizable'
<1>1. ASSUME fs' = Without(fs, segs) PROVE FilesSizable'
  BY <1>1 DEF FilesSizable, Without, Sizable
<1>2. ASSUME NEW data, Sizable(data), fs' = With(fs, segs, data)
      PROVE  FilesSizable'
  BY <1>2 DEF FilesSizable, With, Sizable
<1> QED BY <1>1, <1>2

LEMMA FileHandlersSound ==
  ASSUME IInv, RInv,
         \/ GenerateFilename \/ OpenOutputFile \/ PutBody \/ DeleteHandler
  PROVE  RInv'
<1>1. /\ UNCHANGED client /\ GenOK /\ ResponseSizable /\ FilesSizable
  BY DEF GenerateFilename, OpenOutputFile, PutBody, DeleteHandler, IInv, RInv,
         RecordsOK
<1>2. CASE GenerateFilename
  <2>1. pc' \in {"name", "create"} /\ gen'.response = gen.response
    BY <1>1, <1>2 DEF GenerateFilename, GenOK, GenFields
  <2>2. Sound
    BY <1>1, <2>1 DEF Sound, ResponseSizable, Reading
  <2>3. FilesSizable'
    BY <1>1, <1>2 DEF GenerateFilename, FilesSizable
  <2> QED BY <1>1, <2>2, <2>3, SoundStep
<1>3. CASE OpenOutputFile
  <2>1. CASE /\ fs' = With(fs, gen.reading.segs, "")
             /\ pc' = "write" /\ UNCHANGED gen
    <3>1. FilesSizable'
      BY <1>1, <2>1, WrittenSizable, SizesOfAssumption DEF Sizable
    <3>2. Sound
      BY <1>1, <2>1 DEF Sound, ResponseSizable, Reading
    <3> QED BY <1>1, <3>1, <3>2, SoundStep
  <2>2. CASE UNCHANGED fs /\ RenderLocationErrorPage(500)
    <3>1. FilesSizable'
      BY <1>1, <2>2 DEF FilesSizable
    <3> QED BY <1>1, <2>2, <3>1, LocationPageIsSound, OwnCodes, SoundStep
  <2> QED BY <1>3, <2>1, <2>2 DEF OpenOutputFile
<1>4. CASE PutBody
  <2>1. Sizable(client.request.body)
    BY <1>4, RequestsAssumption
       DEF PutBody, IInv, RecordsOK, NewClient, Sizable
  <2>2. \/ fs' = With(fs, gen.reading.segs, client.request.body)
        \/ UNCHANGED fs
    BY <1>4 DEF PutBody
  <2>3. FilesSizable'
    BY <1>1, <2>1, <2>2, WrittenSizable DEF FilesSizable
  <2>4. RenderLocationErrorPage(201)
    BY <1>4 DEF PutBody
  <2> QED BY <1>1, <2>3, <2>4, LocationPageIsSound, OwnCodes, SoundStep
<1>5. CASE DeleteHandler
  <2>1. CASE /\ fs' = Without(fs, gen.reading.segs)
             /\ AnswerWith(204, NoBody)
    <3>1. FilesSizable'
      BY <1>1, <2>1, WrittenSizable
    <3>2. NoBody.kind # "file"
      BY DEF NoBody, Response
    <3> QED BY <1>1, <2>1, <3>1, <3>2, AnswerIsSound, OwnCodes, SoundStep
  <2>2. CASE UNCHANGED fs /\ RenderLocationErrorPage(404)
    <3>1. FilesSizable'
      BY <1>1, <2>2 DEF FilesSizable
    <3> QED BY <1>1, <2>2, <3>1, LocationPageIsSound, OwnCodes, SoundStep
  <2> QED BY <1>5, <2>1, <2>2 DEF DeleteHandler
<1> QED BY <1>2, <1>3, <1>4, <1>5

LEMMA BodyHasSize == ResponseSizable => BodySize(gen.response) \in Nat
BY SizesOfAssumption DEF ResponseSizable, BodySize

LEMMA SendingSound ==
  ASSUME IInv, RInv, MakeMessage \/ SendMsg \/ Delete \/ PeerLeaves
  PROVE  RInv'
<1> DEFINE size == BodySize(gen.response)
<1>1. size \in Nat
  BY BodyHasSize DEF RInv
<1> HIDE DEF size
<1>2. FilesSizable'
  BY DEF RInv, FilesSizable, MakeMessage, SendMsg, Delete, PeerLeaves,
         DeleteClient
<1>3. pc' \in {"send", "sent", "idle"}
  BY DEF MakeMessage, SendMsg, Delete, PeerLeaves, DeleteClient
<1>4. LookedAt' /\ PageAnswerable' /\ StopsOnlyThen'
  BY <1>3 DEF LookedAt, PageAnswerable, StopsOnlyThen, Reading
<1>5. ResponseSizable'
  <2>1. gen' = gen \/ gen' = NewGenerator
    BY DEF MakeMessage, SendMsg, Delete, PeerLeaves, DeleteClient
  <2>2. NewGenerator.response.kind # "file"
    BY DEF NewGenerator, NoBody, Response
  <2> QED BY <2>1, <2>2 DEF RInv, ResponseSizable
<1>6. CASE MakeMessage
  <2>1. out' = StartSending(size) /\ pc' = "send" /\ gen' = gen
    BY <1>6 DEF MakeMessage, size
  <2>2. Underway(out', size) /\ ~AllSent(out')
    BY <1>1, <2>1, StartsUnderway
  <2>3. SendingInOrder'
    BY <2>1, <2>2 DEF SendingInOrder, size
  <2> QED BY <1>2, <1>4, <1>5, <2>3 DEF RInv
<1>7. CASE SendMsg
  <2>1. /\ pc = "send" /\ gen' = gen
        /\ pc' = IF AllSent(out') THEN "sent" ELSE "send"
    BY <1>7 DEF SendMsg
  <2>2. Underway(out, size) /\ ~AllSent(out)
    BY <2>1 DEF RInv, SendingInOrder, size
  <2> DEFINE rest == out.chain[out.it].size - out.bytesSent
  <2>3. rest \in Nat \ {0}
    <3>1. /\ Len(out.chain) \in Nat
          /\ \A i \in 1 .. Len(out.chain) : out.chain[i].size \in Nat
          /\ out.it \in 1 .. Len(out.chain) + 1 /\ out.bytesSent \in Nat
      BY <1>1, <2>2, ChainSizes DEF Underway
    <3>2. out.it \in 1 .. Len(out.chain)
      BY <2>2, <3>1 DEF AllSent
    <3>3. out.chain[out.it].size \in Nat
          /\ ~ out.bytesSent >= out.chain[out.it].size
      BY <2>2, <3>1, <3>2 DEF AllSent
    <3> DEFINE whole == out.chain[out.it].size
    <3> HIDE DEF whole
    <3> QED BY <3>1, <3>3 DEF whole
  <2>4. PICK n \in {rest - 1, rest} \ {0} : out' = SendBytes(out, n)
    BY <1>7 DEF SendMsg
  <2>5. n \in 1 .. rest
    <3> HIDE DEF rest
    <3> QED BY <2>3
  <2>6. Underway(out', size)
    BY <1>1, <2>2, <2>4, <2>5, SendStaysUnderway
  <2>7. SendingInOrder'
    BY <2>1, <2>6 DEF SendingInOrder, size
  <2> QED BY <1>2, <1>4, <1>5, <2>7 DEF RInv
<1>8. CASE Delete \/ PeerLeaves
  <2>1. SendingInOrder'
    BY <1>8 DEF Delete, PeerLeaves, DeleteClient, SendingInOrder
  <2> QED BY <1>2, <1>4, <1>5, <2>1 DEF RInv
<1> QED BY <1>6, <1>7, <1>8

(* What somebody else does to another file does not hide this one.         *)
LEMMA OthersSound ==
  ASSUME IInv, RInv, Appears \/ Vanishes
  PROVE  RInv'
<1>1. ASSUME NEW segs, NEW f, Changed(f, segs), FilesSizable',
             \A q : q # segs => /\ q \in DOMAIN f <=> q \in DOMAIN fs
                                /\ q \in DOMAIN fs => f[q] = fs[q]
      PROVE  RInv'
  <2>1. /\ pc \notin {"answer", "send", "sent", "down"}
        /\ fs' = f /\ UNCHANGED <<pc, client>>
    BY <1>1 DEF Changed
  <2>2. /\ gen'.reading = gen.reading /\ gen'.response = gen.response
        /\ gen'.then = gen.then /\ gen'.status = gen.status
    BY <1>1 DEF Changed, IInv, RecordsOK, GenOK, GenFields
  <2>3. pc = "fstat" => hist'.touched = hist.touched \cup {segs}
    BY <1>1 DEF Changed, IInv, RecordsOK, HistFields
  <2>4. LookedAt'
    <3> DEFINE p == gen.reading
    <3>1. CASE p.segs = segs
      BY <2>1, <2>2, <2>3, <3>1 DEF LookedAt
    <3>2. CASE p.segs # segs /\ pc = "fstat" /\ Opens(fs, p)
      <4>1. p.segs \in DOMAIN fs /\ MayReach(p.segs)
        BY <3>2, FoundIsReached DEF Opens
      <4>2. p.segs \in DOMAIN f /\ f[p.segs] = fs[p.segs]
        BY <1>1, <3>2, <4>1
      <4>3. Stat(f, p) = Stat(fs, p)
        BY <4>1, <4>2 DEF Stat, Reaches, MayReach
      <4> QED BY <2>1, <2>2, <3>2, <4>3 DEF LookedAt, Opens
    <3>3. CASE pc = "fstat" /\ p.segs \in hist.touched
      BY <2>2, <2>3, <3>3 DEF LookedAt
    <3> QED BY <2>1, <3>1, <3>2, <3>3 DEF RInv, LookedAt
  <2>5. PageAnswerable' /\ ResponseSizable'
    BY <2>1, <2>2 DEF RInv, PageAnswerable, ResponseSizable, Answerable,
                      OddRedirect, ClientLocation, ClientServer
  <2> QED BY <1>1, <2>1, <2>4, <2>5 DEF RInv, SendingInOrder, StopsOnlyThen
<1>2. CASE Appears
  <2>1. PICK segs \in DOMAIN Changes :
               Changed(With(fs, segs, Changes[segs]), segs)
    BY <1>2 DEF Appears
  <2>2. FilesSizable'
    BY <2>1, WrittenSizable, FilesAssumption DEF RInv, Sizable, Changed
  <2>3. \A q : q # segs =>
          /\ q \in DOMAIN With(fs, segs, Changes[segs]) <=> q \in DOMAIN fs
          /\ q \in DOMAIN fs => With(fs, segs, Changes[segs])[q] = fs[q]
    BY DEF With
  <2> QED BY <1>1, <2>1, <2>2, <2>3
<1>3. CASE Vanishes
  <2>1. PICK segs : Changed(Without(fs, segs), segs)
    BY <1>3 DEF Vanishes
  <2>2. FilesSizable'
    BY <2>1, WrittenSizable DEF RInv, Changed
  <2>3. \A q : q # segs =>
          /\ q \in DOMAIN Without(fs, segs) <=> q \in DOMAIN fs
          /\ q \in DOMAIN fs => Without(fs, segs)[q] = fs[q]
    BY DEF Without
  <2> QED BY <1>1, <2>1, <2>2, <2>3
<1> QED BY <1>2, <1>3

LEMMA ResponsesAreSound == Spec => []RInv
<1>1. Init => RInv
  <2> SUFFICES ASSUME Init PROVE RInv
    OBVIOUS
  <2>1. FilesSizable
    BY FilesAssumption DEF Init, FilesSizable, Sizable
  <2>2. ResponseSizable
    BY DEF Init, NewGenerator, ResponseSizable, NoBody, Response
  <2> QED BY <2>1, <2>2
             DEF Init, RInv, LookedAt, PageAnswerable, SendingInOrder,
                 StopsOnlyThen, Reading
<1>2. IInv /\ RInv /\ [Next]_vars => RInv'
  <2> SUFFICES ASSUME IInv, RInv, [Next]_vars PROVE RInv'
    OBVIOUS
  <2>1. CASE Receive BY <2>1, ReceiveSound
  <2>2. CASE ResponseMenu BY <2>2, MenuSound
  <2>3. CASE \/ IsPathFileOrFolder \/ OpenFile \/ StatFile \/ ReadFile
             \/ IsDirectoryValid \/ CreateHtmlMenu
    BY <2>3, LookSound
  <2>4. CASE GenerateFilename \/ OpenOutputFile \/ PutBody \/ DeleteHandler
    BY <2>4, FileHandlersSound
  <2>5. CASE MakeMessage \/ SendMsg \/ Delete \/ PeerLeaves
    BY <2>5, SendingSound
  <2>6. CASE Appears \/ Vanishes BY <2>6, OthersSound
  <2>7. CASE UNCHANGED vars
    BY <2>7 DEF vars, RInv, FilesSizable, ResponseSizable, LookedAt,
                PageAnswerable, SendingInOrder, StopsOnlyThen, Answerable,
                OddRedirect, ClientLocation, ClientServer
  <2> QED BY <2>1, <2>2, <2>3, <2>4, <2>5, <2>6, <2>7 DEF Next, Server
<1> QED BY <1>1, <1>2, Invariance, PTL DEF Spec

(* An exception ends the server only when a request asks for a target that *)
(* begins with the uri of no location, when somebody else touched the very *)
(* file that was between open and stat, or for a configured redirect with  *)
(* a code that HttpStatusCode does not know: nothing else that is asked,   *)
(* and no content of the files, reaches a throw.                           *)
THEOREM ServerStopsOnlyThen == Spec => []StopsOnlyThen
<1>1. RInv => StopsOnlyThen
  BY DEF RInv
<1> QED BY <1>1, ResponsesAreSound, PTL

(* Whatever send takes at a time, the peer has a prefix of the response,   *)
(* no byte twice, and in the end all of it, with a framing that tells its  *)
(* end.                                                                    *)
THEOREM PeerGetsResponse == Spec => []WireIsResponse
<1>1. RInv => WireIsResponse
  <2> SUFFICES ASSUME RInv, pc \in {"send", "sent"}
               PROVE  /\ IsPrefixOfChain(out)
                      /\ pc = "sent" => IsWhole(out, BodySize(gen.response))
    BY DEF WireIsResponse
  <2>1. BodySize(gen.response) \in Nat
    BY BodyHasSize DEF RInv
  <2>2. Underway(out, BodySize(gen.response)) /\ (AllSent(out) <=> pc = "sent")
    BY DEF RInv, SendingInOrder
  <2> QED BY <2>1, <2>2, UnderwayInOrder
<1> QED BY <1>1, ResponsesAreSound, PTL

-----------------------------------------------------------------------------
(* ServersAssumption is what WithDefaultLocation makes of locations that   *)
(* NewVirtualServer has found to be different.                             *)
LEMMA DefaultLocationIsAdded ==
  ASSUME NEW L, NEW locs \in Seq(L), NEW server,
         ~DuplicateLocations(locs)
  PROVE  LET all == WithDefaultLocation(locs, server)
         IN /\ DOMAIN all \subseteq Nat
            /\ ~DuplicateLocations(all)
            /\ \E n \in DOMAIN all : all[n].uri = RootUri
<1> DEFINE root == [uri |-> RootUri, settings |-> server]
           all  == WithDefaultLocation(locs, server)
           N == Len(locs)
<1>1. root.uri = RootUri /\ N \in Nat /\ DOMAIN locs = 1 .. N
  OBVIOUS
<1>2. CASE \E i \in DOMAIN locs : locs[i].uri = RootUri
  <2>1. all = locs
    BY <1>2 DEF WithDefaultLocation
  <2> QED BY <1>1, <1>2, <2>1
<1>3. CASE ~\E i \in DOMAIN locs : locs[i].uri = RootUri
  <2>1. all = Append(locs, root)
    BY <1>3, Zenon DEF WithDefaultLocation
  <2> HIDE DEF root, all
  <2>2. /\ DOMAIN all = 1 .. N + 1
        /\ all[N + 1] = root
        /\ \A i \in 1 .. N : all[i] = locs[i]
    BY <1>1, <2>1
  <2>3. \A i \in 1 .. N : all[i].uri # RootUri
    BY <1>1, <1>3, <2>2
  <2>4. ASSUME NEW i \in DOMAIN all, NEW j \in DOMAIN all, i < j
        PROVE  all[i].uri # all[j].uri
    <3>1. i \in 1 .. N
      BY <1>1, <2>2, <2>4
    <3>2. CASE j \in 1 .. N
      BY <1>1, <2>2, <2>4, <3>1, <3>2 DEF DuplicateLocations
    <3>3. CASE j = N + 1
      BY <1>1, <2>2, <2>3, <3>1, <3>3
    <3> QED BY <1>1, <2>2, <3>2, <3>3
  <2>5. N + 1 \in DOMAIN all /\ DOMAIN all \subseteq Nat
    BY <1>1, <2>2
  <2>6. ~DuplicateLocations(all)
    BY <2>4 DEF DuplicateLocations
  <2>7. all[N + 1].uri = RootUri
    BY <1>1, <2>2
  <2> HIDE DEF N
  <2> QED BY <2>5, <2>6, <2>7 DEF all
<1> QED BY <1>2, <1>3

-----------------------------------------------------------------------------
(* What the answer must be.                                                *)

Wanted == Expected(hist.before, client)

WantedPage(code) == PageOf(hist.before, ClientLocation.settings, code)

(* A request that is neither refused nor redirected.                       *)
IsPlain(method) ==
  /\ client.errorCode = 0
  /\ ~IsRedirect(ClientLocation)
  /\ client.request.method = method

LEMMA LocationFacts ==
  ASSUME NEW r \in Requests, client = NewClient(r), client.errorCode = 0,
         HasLocation
  PROVE  /\ LongestLocation(Servers[client.server], client.request.path)
              = ClientLocation
         /\ IndexesOf(ClientLocation) \in Seq(Seq(STRING))
         /\ UploadFolder(ClientLocation) \in Seq(STRING)
<1>1. client.request = r /\ client.server \in DOMAIN Servers
  BY ServedHasServer
<1>2. r.path \in Paths
  BY RequestsAssumption
<1>3. /\ ClientLocation = LocationOf(Servers[client.server], r.path)
      /\ LocationUriFromPath(Servers[client.server], r.path) # NoUri
  BY <1>1 DEF ClientLocation, ClientServer, HasLocation
<1>4. PICK n \in DOMAIN Servers[client.server].locations :
        ClientLocation = Servers[client.server].locations[n]
  BY <1>1, <1>2, <1>3, LocationIsLongest
<1>5. IndexesOf(ClientLocation) \in Seq(Seq(STRING))
  BY <1>1, <1>4, ServersAssumption
<1>6. UploadFolder(ClientLocation) \in Seq(STRING)
  BY <1>3, FoldersAssumption
<1>7. LongestLocation(Servers[client.server], r.path) = ClientLocation
  BY <1>1, <1>2, <1>3, LocationIsLongest
<1> QED BY <1>1, <1>5, <1>6, <1>7

LEMMA WantedOfRefused ==
  ASSUME client.errorCode # 0
  PROVE  Wanted = PageOf(hist.before, ClientServer.settings, client.errorCode)
BY Zenon DEF Wanted, Expected, ClientServer

LEMMA WantedOfOthers ==
  ASSUME NEW r \in Requests, client = NewClient(r), client.errorCode = 0,
         HasLocation
  PROVE  /\ IsRedirect(ClientLocation) =>
              Wanted = WantedPage(RedirectCode(ClientLocation))
         /\ IsPlain("GET") =>
              Wanted = Fetched(hist.before, ClientLocation, Target)
         /\ IsPlain("DELETE") =>
              Wanted = IF Removable(hist.before, Target)
                       THEN Answer(204, NoBody) ELSE WantedPage(404)
         /\ IsPlain("POST") =>
              LET folder == Path(UploadFolder(ClientLocation), FALSE)
              IN Wanted = IF Stat(hist.before, folder) = "dir"
                              /\ folder.segs \notin Denied
                          THEN WantedPage(201) ELSE WantedPage(500)
<1> DEFINE server == Servers[client.server]
           location == LongestLocation(server, client.request.path)
           target == PathRelativeToExecutable(location, client.request.path)
           folder == Path(UploadFolder(location), FALSE)
           Page(code) == PageOf(hist.before, location.settings, code)
           method == client.request.method
           redirected == IsRedirect(location)
           plain == CASE method = "GET" ->
                           Fetched(hist.before, location, target)
                      [] method = "DELETE" ->
                           IF Removable(hist.before, target)
                           THEN Answer(204, NoBody) ELSE Page(404)
                      [] method = "POST" ->
                           IF Stat(hist.before, folder) = "dir"
                                /\ folder.segs \notin Denied
                           THEN Page(201) ELSE Page(500)
<1>1. location = ClientLocation
  BY LocationFacts
<1>2. Wanted = CASE client.errorCode # 0 ->
                      PageOf(hist.before, server.settings, client.errorCode)
                 [] client.errorCode = 0 /\ redirected ->
                      Page(RedirectCode(location))
                 [] OTHER -> plain
  BY Zenon DEF Wanted, Expected
<1>3. target = Target
  BY <1>1 DEF Target
<1> HIDE DEF plain, redirected, location, Page, target
<1>4. redirected => Wanted = Page(RedirectCode(location))
  BY <1>2
<1>5. ~redirected => Wanted = plain
  BY <1>2
<1>6. redirected <=> IsRedirect(ClientLocation)
  BY <1>1 DEF redirected
<1>7. \A code : Page(code) = WantedPage(code)
  BY <1>1 DEF Page, WantedPage
<1>8. folder = Path(UploadFolder(ClientLocation), FALSE)
  BY <1>1
<1> HIDE DEF folder
<1>9. /\ method = "GET" => plain = Fetched(hist.before, location, target)
      /\ method = "DELETE" =>
           plain = IF Removable(hist.before, target)
                   THEN Answer(204, NoBody) ELSE Page(404)
      /\ method = "POST" =>
           plain = IF Stat(hist.before, folder) = "dir"
                        /\ folder.segs \notin Denied
                   THEN Page(201) ELSE Page(500)
  BY "GET" # "DELETE" /\ "GET" # "POST" /\ "DELETE" # "POST", Zenon DEF plain
<1>10. ASSUME NEW m, IsPlain(m) PROVE method = m /\ Wanted = plain
  BY <1>5, <1>6, <1>10 DEF IsPlain
<1>11. Page(404) = WantedPage(404) /\ Page(201) = WantedPage(201)
       /\ Page(500) = WantedPage(500)
  BY <1>7
<1> HIDE DEF method, folder
<1>12. IsRedirect(ClientLocation) =>
         Wanted = WantedPage(RedirectCode(ClientLocation))
  BY <1>1, <1>4, <1>6, <1>7
<1>13. IsPlain("GET") => Wanted = Fetched(hist.before, ClientLocation, Target)
  BY <1>1, <1>3, <1>9, <1>10
<1>14. IsPlain("DELETE") =>
         Wanted = IF Removable(hist.before, Target)
                  THEN Answer(204, NoBody) ELSE WantedPage(404)
  BY <1>3, <1>9, <1>10, <1>11
<1>15. IsPlain("POST") =>
         Wanted = IF Stat(hist.before, folder) = "dir"
                       /\ folder.segs \notin Denied
                  THEN WantedPage(201) ELSE WantedPage(500)
  BY <1>9, <1>10, <1>11
<1> QED BY <1>8, <1>12, <1>13, <1>14, <1>15

IndexPath(n) == Path(Target.segs \o IndexesOf(ClientLocation)[n], FALSE)

NoIndexBelow(n) ==
  \A m \in DOMAIN IndexesOf(ClientLocation) :
    m < n => ~IsFile(hist.before, IndexPath(m))

(* What a directory without, and one with an index answers.                *)
LEMMA FetchedFile ==
  ASSUME Stat(hist.before, Target) = "file"
  PROVE  Fetched(hist.before, ClientLocation, Target)
           = IF Target.segs \notin Denied
             THEN Answer(200, FileBody(hist.before[Target.segs]))
             ELSE WantedPage(404)
BY DEF Fetched, IsFile, WantedPage

LEMMA FetchedError ==
  ASSUME Stat(hist.before, Target) \notin {"file", "dir"}
  PROVE  Fetched(hist.before, ClientLocation, Target)
           = WantedPage(FileOrFolderStatusCode(Stat(hist.before, Target)))
BY DEF Fetched, IsFile, WantedPage

LEMMA FetchedIndex ==
  ASSUME IndexesOf(ClientLocation) \in Seq(Seq(STRING)),
         Stat(hist.before, Target) = "dir",
         NEW n \in DOMAIN IndexesOf(ClientLocation), NoIndexBelow(n),
         IsFile(hist.before, IndexPath(n))
  PROVE  Fetched(hist.before, ClientLocation, Target)
           = Answer(200, FileBody(hist.before[IndexPath(n).segs]))
<1> DEFINE indexes == IndexIn(hist.before, ClientLocation, Target.segs)
<1>1. DOMAIN IndexesOf(ClientLocation) \subseteq Nat
  OBVIOUS
<1>2. /\ indexes \subseteq DOMAIN IndexesOf(ClientLocation)
      /\ n \in indexes
      /\ \A m \in indexes : ~(m < n)
  BY DEF IndexIn, NoIndexBelow, IndexPath
<1>3. IndexPath(n).segs = Target.segs \o IndexesOf(ClientLocation)[n]
  BY DEF IndexPath, Path
<1>4. Fetched(hist.before, ClientLocation, Target)
        = IF indexes # {}
          THEN Answer(200, FileBody(hist.before[
                 Target.segs \o IndexesOf(ClientLocation)[Min(indexes)]]))
          ELSE IF ~Autoindexes(ClientLocation) THEN WantedPage(404)
          ELSE IF Target.segs \in Denied THEN WantedPage(403)
          ELSE Answer(200, Listing(hist.before, Target.segs))
  BY "dir" # "file" DEF Fetched, IsFile, WantedPage
<1> HIDE DEF indexes
<1>5. Min(indexes) = n
  <2>1. indexes \subseteq Nat /\ indexes # {}
    BY <1>1, <1>2
  <2>2. Min(indexes) \in indexes /\ \A m \in indexes : Min(indexes) <= m
    BY <2>1, MinIsLeast
  <2>3. Min(indexes) \in Nat /\ n \in Nat /\ Min(indexes) <= n
    BY <1>2, <2>1, <2>2
  <2>4. ~(Min(indexes) < n)
    BY <1>2, <2>2
  <2> QED BY <2>3, <2>4
<1>6. indexes # {}
  BY <1>2
<1> QED BY <1>3, <1>4, <1>5, <1>6

LEMMA FetchedDirectory ==
  ASSUME Stat(hist.before, Target) = "dir",
         \A m \in DOMAIN IndexesOf(ClientLocation) :
           ~IsFile(hist.before, IndexPath(m))
  PROVE  Fetched(hist.before, ClientLocation, Target)
           = IF ~Autoindexes(ClientLocation) THEN WantedPage(404)
             ELSE IF Target.segs \in Denied THEN WantedPage(403)
             ELSE Answer(200, Listing(hist.before, Target.segs))
<1> DEFINE indexes == IndexIn(hist.before, ClientLocation, Target.segs)
<1>1. indexes = {}
  BY DEF IndexIn, IndexPath
<1>2. Fetched(hist.before, ClientLocation, Target)
        = IF indexes # {}
          THEN Answer(200, FileBody(hist.before[
                 Target.segs \o IndexesOf(ClientLocation)[Min(indexes)]]))
          ELSE IF ~Autoindexes(ClientLocation) THEN WantedPage(404)
          ELSE IF Target.segs \in Denied THEN WantedPage(403)
          ELSE Answer(200, Listing(hist.before, Target.segs))
  BY "dir" # "file" DEF Fetched, IsFile, WantedPage
<1> HIDE DEF indexes
<1> QED BY <1>1, <1>2

-----------------------------------------------------------------------------
(* The invariant: what has been found so far leads to that answer.         *)

(* The page of an error or of an upload.                                   *)
PageIsDue ==
  \E settings :
    /\ gen.reading = Path(gen.reading.segs, FALSE)
    /\ gen.reading.segs \in ErrorPagePath(settings, gen.status)
    /\ Wanted = PageOf(hist.before, settings, gen.status)
    /\ \/ fs = hist.before
       \/ gen.status = 201 /\ settings = ClientLocation.settings

(* The file asked for, or an index when none before it is one.             *)
FileIsDue ==
  /\ fs = hist.before
  /\ IsPlain("GET")
  /\ \/ /\ gen.then = "file"
        /\ gen.reading = Target /\ Stat(fs, Target) = "file"
     \/ /\ gen.then = "index"
        /\ Stat(fs, Target) = "dir"
        /\ gen.n \in DOMAIN IndexesOf(ClientLocation)
        /\ gen.reading = IndexPath(gen.n)
        /\ NoIndexBelow(gen.n)

ReadingIsDue ==
  pc \in Reading =>
    /\ IF gen.then = "page" THEN PageIsDue ELSE FileIsDue
    /\ pc \in {"fstat", "read"} => Opens(fs, gen.reading)
    /\ pc = "read" => Stat(fs, gen.reading) = "file"

ListingIsDue ==
  pc \in {"opendir", "readdir"} =>
    /\ fs = hist.before
    /\ IsPlain("GET")
    /\ gen.reading = Target /\ Stat(fs, Target) = "dir"
    /\ \A m \in DOMAIN IndexesOf(ClientLocation) : ~IsFile(fs, IndexPath(m))
    /\ Autoindexes(ClientLocation)
    /\ pc = "readdir" => Target.segs \notin Denied

UploadIsDue ==
  /\ pc \in {"name", "create"} => fs = hist.before /\ IsPlain("POST")
  /\ pc = "create" =>
       /\ ~IsTaken(gen.reading.segs)
       /\ \E name : gen.reading =
            Path(Append(UploadFolder(ClientLocation), name), FALSE)
  /\ pc = "write" => Wanted = WantedPage(201)

StartIsDue ==
  /\ pc \in {"menu", "stat", "remove"} => fs = hist.before
  /\ pc = "stat" => IsPlain("GET") /\ gen.reading = Target
  /\ pc = "remove" => IsPlain("DELETE") /\ gen.reading = Target

(* The upload is not the very page that acknowledges it.                   *)
UploadIsNoPage == ErrorPagePath(ClientLocation.settings, 201) \cap Own = {}

AnswerIsDue ==
  pc = "answer" =>
    (UploadIsNoPage => Answer(gen.status, gen.response) = Wanted)

Due ==
  /\ hist.during = {hist.before}
  /\ StartIsDue
  /\ ReadingIsDue
  /\ ListingIsDue
  /\ UploadIsDue
  /\ AnswerIsDue

(* Nobody else has changed a file since the request came.                  *)
Undisturbed == pc # "idle" /\ hist.touched = {}

TInv == Undisturbed => Due

-----------------------------------------------------------------------------
(* Steps of the generator.                                                 *)

(* The request and what it is measured by stay.                            *)
Same ==
  /\ client' = client
  /\ hist'.before = hist.before /\ hist'.during = hist.during
  /\ hist.during = {hist.before}

LEMMA SameWanted ==
  ASSUME Same
  PROVE  /\ Wanted' = Wanted
         /\ ClientLocation' = ClientLocation
         /\ ClientServer' = ClientServer
         /\ Target' = Target
         /\ hist'.during = {hist'.before}
         /\ \A code : WantedPage(code)' = WantedPage(code)
         /\ \A m : IsPlain(m)' <=> IsPlain(m)
         /\ \A n : IndexPath(n)' = IndexPath(n)
         /\ \A n : NoIndexBelow(n)' <=> NoIndexBelow(n)
BY DEF Same, Wanted, ClientLocation, ClientServer, Target, WantedPage, IsPlain,
       IndexPath, NoIndexBelow

(* Where the generator goes next.                                          *)
LEMMA DueNext ==
  ASSUME hist'.during = {hist'.before},
         pc' \notin {"menu", "stat", "remove", "opendir", "readdir", "name",
                     "create", "write"},
         ReadingIsDue', AnswerIsDue'
  PROVE  Due'
BY DEF Due, StartIsDue, ListingIsDue, UploadIsDue

LEMMA AnswerLeads ==
  ASSUME GenOK, Same, NEW status, NEW response, AnswerWith(status, response),
         UploadIsNoPage' => Answer(status, response) = Wanted
  PROVE  Due'
<1>1. pc' \in {"answer", "down"}
      /\ gen'.status = status /\ gen'.response = response
  BY DEF AnswerWith, GenOK, GenFields
<1>2. AnswerIsDue'
  BY <1>1, SameWanted DEF AnswerIsDue
<1>3. ReadingIsDue'
  BY <1>1 DEF ReadingIsDue, Reading
<1> QED BY <1>1, <1>2, <1>3, SameWanted, DueNext

(* Without a readable page the server writes one.                          *)
LEMMA NoPageIsRead ==
  ASSUME NEW f, NEW settings, NEW code,
         \A segs \in ErrorPagePath(settings, code) :
           ~IsFile(f, Path(segs, FALSE))
  PROVE  PageOf(f, settings, code) = Answer(code, PageFor(code))
<1> DEFINE readable == {segs \in ErrorPagePath(settings, code) :
                          IsFile(f, Path(segs, FALSE))}
<1>1. readable = {}
  OBVIOUS
<1>2. PageOf(f, settings, code)
        = Answer(code, IF readable = {} THEN PageFor(code)
                       ELSE FileBody(f[CHOOSE segs \in readable : TRUE]))
  BY Zenon DEF PageOf
<1> QED BY <1>1, <1>2

LEMMA NoPageIsNamed ==
  ASSUME NEW f, NEW settings, NEW code, ErrorPagePath(settings, code) = {}
  PROVE  PageOf(f, settings, code) = Answer(code, PageFor(code))
<1>1. \A segs \in ErrorPagePath(settings, code) :
        ~IsFile(f, Path(segs, FALSE))
  OBVIOUS
<1> QED BY <1>1, NoPageIsRead

LEMMA OnePage ==
  ASSUME NEW settings, NEW code,
         NEW s \in ErrorPagePath(settings, code),
         NEW t \in ErrorPagePath(settings, code)
  PROVE  s = t
BY DEF ErrorPagePath

LEMMA PageIsNotRead ==
  ASSUME NEW f, NEW settings, NEW code, NEW s \in ErrorPagePath(settings, code),
         ~IsFile(f, Path(s, FALSE))
  PROVE  PageOf(f, settings, code) = Answer(code, PageFor(code))
<1>1. ASSUME NEW t \in ErrorPagePath(settings, code)
      PROVE  ~IsFile(f, Path(t, FALSE))
  <2>1. s = t
    BY OnePage
  <2> QED BY <2>1
<1>2. \A t \in ErrorPagePath(settings, code) : ~IsFile(f, Path(t, FALSE))
  BY <1>1
<1> QED BY <1>2, NoPageIsRead

LEMMA PageIsRead ==
  ASSUME NEW f, NEW settings, NEW code, NEW s \in ErrorPagePath(settings, code),
         IsFile(f, Path(s, FALSE))
  PROVE  PageOf(f, settings, code) = Answer(code, FileBody(f[s]))
<1> DEFINE readable == {segs \in ErrorPagePath(settings, code) :
                          IsFile(f, Path(segs, FALSE))}
<1>1. readable = {s}
  <2>1. s \in readable
    OBVIOUS
  <2>2. \A t \in readable : t = s
    BY OnePage
  <2> HIDE DEF readable
  <2> QED BY <2>1, <2>2
<1>2. PageOf(f, settings, code)
        = Answer(code, IF readable = {} THEN PageFor(code)
                       ELSE FileBody(f[CHOOSE segs \in readable : TRUE]))
  BY Zenon DEF PageOf
<1> HIDE DEF readable
<1>3. (CHOOSE segs \in readable : TRUE) = s
  BY <1>1
<1>4. readable # {}
  BY <1>1
<1> QED BY <1>2, <1>3, <1>4

LEMMA PageLeads ==
  ASSUME GenOK, Same, NEW settings, NEW code, RenderErrorPage(settings, code),
         Wanted = PageOf(hist.before, settings, code),
         \/ fs' = hist.before
         \/ code = 201 /\ settings = ClientLocation.settings
  PROVE  Due'
<1>1. CASE ErrorPagePath(settings, code) = {}
  <2>1. AnswerWith(code, PageFor(code))
    BY <1>1 DEF RenderErrorPage
  <2>2. PageOf(hist.before, settings, code) = Answer(code, PageFor(code))
    BY <1>1, NoPageIsNamed
  <2> QED BY <2>1, <2>2, AnswerLeads
<1>2. CASE ErrorPagePath(settings, code) # {}
  <2>1. PICK segs \in ErrorPagePath(settings, code) :
          /\ gen' = [gen EXCEPT !.reading = Path(segs, FALSE),
                                !.then = "page", !.status = code]
          /\ pc' = "open"
    BY <1>2 DEF RenderErrorPage
  <2>2. /\ gen'.reading = Path(segs, FALSE) /\ gen'.reading.segs = segs
        /\ gen'.then = "page" /\ gen'.status = code
    BY <2>1 DEF GenOK, GenFields, Path
  <2>3. PageIsDue'
    <3>1. hist'.before = hist.before
      BY DEF Same
    <3>2. Wanted' = Wanted /\ ClientLocation' = ClientLocation
      BY SameWanted
    <3>3. /\ gen'.reading = Path(gen'.reading.segs, FALSE)
          /\ gen'.reading.segs \in ErrorPagePath(settings, gen'.status)
          /\ Wanted' = PageOf(hist'.before, settings, gen'.status)
          /\ \/ fs' = hist'.before
             \/ gen'.status = 201 /\ settings = ClientLocation'.settings
      BY <2>2, <3>1, <3>2
    <3> QED BY <3>3, Zenon DEF PageIsDue
  <2>4. ReadingIsDue'
    BY <2>1, <2>2, <2>3 DEF ReadingIsDue
  <2>5. AnswerIsDue'
    BY <2>1 DEF AnswerIsDue
  <2> QED BY <2>1, <2>4, <2>5, SameWanted, DueNext
<1> QED BY <1>1, <1>2

LEMMA LocationPageLeads ==
  ASSUME GenOK, Same, NEW code, RenderLocationErrorPage(code),
         Wanted = WantedPage(code), fs' = hist.before
  PROVE  Due'
BY PageLeads DEF RenderLocationErrorPage, WantedPage

LEMMA IndexLeads ==
  ASSUME GenOK, Same, UNCHANGED fs, fs = hist.before, IsPlain("GET"),
         IndexesOf(ClientLocation) \in Seq(Seq(STRING)),
         Wanted = Fetched(hist.before, ClientLocation, Target),
         Stat(fs, Target) = "dir",
         NEW n \in 1 .. Len(IndexesOf(ClientLocation)) + 1, NoIndexBelow(n),
         TryIndex(n, Target.segs)
  PROVE  Due'
<1>1. CASE n <= Len(IndexesOf(ClientLocation))
  <2>1. n \in DOMAIN IndexesOf(ClientLocation)
    BY <1>1
  <2>2. /\ gen' = [gen EXCEPT !.n = n, !.then = "index",
                              !.reading = IndexPath(n)]
        /\ pc' = "open"
    BY <1>1 DEF TryIndex, IndexPath
  <2>3. gen'.n = n /\ gen'.then = "index" /\ gen'.reading = IndexPath(n)
    BY <2>2 DEF GenOK, GenFields
  <2>4. hist'.before = hist.before /\ fs' = fs
    BY DEF Same
  <2>5. FileIsDue'
    BY <2>1, <2>3, <2>4, SameWanted DEF FileIsDue
  <2>6. ReadingIsDue' /\ AnswerIsDue'
    BY <2>2, <2>3, <2>5 DEF ReadingIsDue, AnswerIsDue
  <2> QED BY <2>2, <2>6, SameWanted, DueNext
<1>2. CASE ~(n <= Len(IndexesOf(ClientLocation)))
  <2>1. \A m \in DOMAIN IndexesOf(ClientLocation) :
          ~IsFile(hist.before, IndexPath(m))
    <3>1. \A m \in DOMAIN IndexesOf(ClientLocation) : m < n
      BY <1>2
    <3> QED BY <3>1 DEF NoIndexBelow
  <2>2. Wanted = IF ~Autoindexes(ClientLocation) THEN WantedPage(404)
                 ELSE IF Target.segs \in Denied THEN WantedPage(403)
                 ELSE Answer(200, Listing(hist.before, Target.segs))
    BY <2>1, FetchedDirectory
  <2>3. CASE Autoindexes(ClientLocation)
    <3>1. pc' = "opendir" /\ gen' = [gen EXCEPT !.reading = Target]
      BY <1>2, <2>3 DEF TryIndex
    <3>2. gen'.reading = Target
      BY <3>1 DEF GenOK, GenFields
    <3>3. hist'.before = hist.before /\ fs' = fs
      BY DEF Same
    <3>4. ListingIsDue'
      BY <2>1, <2>3, <3>1, <3>2, <3>3, SameWanted DEF ListingIsDue
    <3>5. StartIsDue' /\ ReadingIsDue' /\ UploadIsDue' /\ AnswerIsDue'
      BY <3>1 DEF StartIsDue, ReadingIsDue, UploadIsDue, AnswerIsDue, Reading
    <3> QED BY <3>4, <3>5, SameWanted DEF Due
  <2>4. CASE ~Autoindexes(ClientLocation)
    <3>1. RenderLocationErrorPage(404)
      BY <1>2, <2>4 DEF TryIndex
    <3> QED BY <2>2, <2>4, <3>1, LocationPageLeads
  <2> QED BY <2>3, <2>4
<1> QED BY <1>1, <1>2

(* What reading a page finds is what it was before the request.            *)
LEMMA FileIsReached ==
  ASSUME NEW f, NEW segs
  PROVE  IsFile(f, Path(segs, FALSE))
           <=> /\ segs \in DOMAIN f /\ f[segs] # Dir
               /\ MayReach(segs) /\ segs \notin Denied
<1> DEFINE p == Path(segs, FALSE)
<1>1. p.segs = segs /\ p.slash = FALSE
  BY DEF Path
<1> HIDE DEF p
<1>2. LookupError(f, segs) # "file"
  BY ErrorsAreApart
<1>3. Stat(f, p) = IF ~Reaches(f, segs) THEN LookupError(f, segs)
                   ELSE IF f[segs] = Dir THEN "dir" ELSE "file"
  BY <1>1 DEF Stat
<1>4. Stat(f, p) = "file" <=> Reaches(f, segs) /\ f[segs] # Dir
  BY <1>2, <1>3, "dir" # "file"
<1>5. IsFile(f, p) <=> Stat(f, p) = "file" /\ segs \notin Denied
  BY <1>1 DEF IsFile
<1> QED BY <1>4, <1>5 DEF Reaches, MayReach, p

LEMMA OthersAsBefore ==
  ASSUME hist.touched = {}, NEW segs, segs \notin Own
  PROVE  /\ IsFile(fs, Path(segs, FALSE))
              <=> IsFile(hist.before, Path(segs, FALSE))
         /\ IsFile(fs, Path(segs, FALSE)) => fs[segs] = hist.before[segs]
<1>1. segs \in DOMAIN fs <=> segs \in DOMAIN hist.before
  BY DEF Own
<1>2. segs \in DOMAIN fs => fs[segs] = hist.before[segs]
  BY <1>1 DEF Own
<1> QED BY <1>1, <1>2, FileIsReached

LEMMA PageRead ==
  ASSUME hist.touched = {}, PageIsDue, UploadIsNoPage
  PROVE  /\ ~IsFile(fs, gen.reading) =>
              Answer(gen.status, PageFor(gen.status)) = Wanted
         /\ IsFile(fs, gen.reading) =>
              Answer(gen.status, FileBody(fs[gen.reading.segs])) = Wanted
<1> DEFINE s == gen.reading.segs
           f == hist.before
<1>1. PICK settings :
        /\ gen.reading = Path(s, FALSE)
        /\ s \in ErrorPagePath(settings, gen.status)
        /\ Wanted = PageOf(f, settings, gen.status)
        /\ \/ fs = f
           \/ gen.status = 201 /\ settings = ClientLocation.settings
  BY DEF PageIsDue
<1>2. /\ IsFile(fs, Path(s, FALSE)) <=> IsFile(f, Path(s, FALSE))
      /\ IsFile(fs, Path(s, FALSE)) => fs[s] = f[s]
  <2>1. CASE fs = f
    BY <2>1
  <2>2. CASE gen.status = 201 /\ settings = ClientLocation.settings
    <3>1. s \notin Own
      BY <1>1, <2>2 DEF UploadIsNoPage
    <3> HIDE DEF s
    <3> QED BY <3>1, OthersAsBefore
  <2> QED BY <1>1, <2>1, <2>2
<1> HIDE DEF s, f
<1>4. CASE ~IsFile(fs, Path(s, FALSE))
  <2>1. PageOf(f, settings, gen.status)
          = Answer(gen.status, PageFor(gen.status))
    <3>1. /\ s \in ErrorPagePath(settings, gen.status)
          /\ ~IsFile(f, Path(s, FALSE))
      BY <1>1, <1>2, <1>4
    <3> QED BY <3>1, PageIsNotRead, Zenon
  <2> QED BY <1>1, <1>4, <2>1
<1>5. CASE IsFile(fs, Path(s, FALSE))
  <2>1. PageOf(f, settings, gen.status) = Answer(gen.status, FileBody(f[s]))
    <3>1. /\ s \in ErrorPagePath(settings, gen.status)
          /\ IsFile(f, Path(s, FALSE))
      BY <1>1, <1>2, <1>5
    <3> QED BY <3>1, PageIsRead, Zenon
  <2> QED BY <1>1, <1>2, <1>5, <2>1 DEF s
<1> QED BY <1>4, <1>5

-----------------------------------------------------------------------------
(* Every step keeps it.                                                    *)

LEMMA PageLooksSame ==
  ASSUME UNCHANGED <<fs, client, hist>>
  PROVE  UploadIsNoPage' => UploadIsNoPage
<1>1. Own' = Own
  BY OwnStays
<1>2. ClientLocation' = ClientLocation
  BY DEF ClientLocation, ClientServer
<1> QED BY <1>1, <1>2 DEF UploadIsNoPage

LEMMA NotReadLeads ==
  ASSUME RecordsOK, Located, hist.touched = {}, Due, pc \in Reading,
         UNCHANGED <<fs, client, hist>>,
         NotRead, ~IsFile(fs, gen.reading)
  PROVE  Due'
<1>1. /\ GenOK /\ Same /\ pc # "idle"
      /\ IF gen.then = "page" THEN PageIsDue ELSE FileIsDue
  BY DEF RecordsOK, Same, Due, ReadingIsDue, Reading
<1>2. CASE gen.then = "page"
  <2>1. AnswerWith(gen.status, PageFor(gen.status))
    BY <1>2, "page" # "file" /\ "page" # "index", Zenon DEF NotRead
  <2>2. UploadIsNoPage' => UploadIsNoPage
    BY PageLooksSame
  <2>3. UploadIsNoPage' =>
          Answer(gen.status, PageFor(gen.status)) = Wanted
    BY <1>1, <1>2, <2>2, PageRead
  <2> QED BY <1>1, <2>1, <2>3, AnswerLeads
<1>3. CASE gen.then \in {"file", "index"}
  <2>1. FileIsDue /\ fs = hist.before /\ IsPlain("GET")
    BY <1>1, <1>3 DEF FileIsDue
  <2>2. PICK r \in Requests : client = NewClient(r)
    BY <1>1 DEF RecordsOK
  <2>3. client.errorCode = 0 /\ HasLocation
    BY <1>1, <2>1 DEF IsPlain, Located, Reading
  <2>4. /\ Wanted = Fetched(hist.before, ClientLocation, Target)
        /\ IndexesOf(ClientLocation) \in Seq(Seq(STRING))
    BY <2>1, <2>2, <2>3, WantedOfOthers, LocationFacts
  <2>5. CASE gen.then = "file"
    <3>1. gen.reading = Target /\ Stat(hist.before, Target) = "file"
      BY <2>1, <2>5 DEF FileIsDue
    <3>2. Target.segs \in Denied
      BY <2>1, <3>1 DEF IsFile
    <3>3. Wanted = WantedPage(404)
      BY <2>4, <3>1, <3>2, FetchedFile
    <3>4. RenderLocationErrorPage(404)
      BY <2>5, "file" # "index" /\ "file" # "page", Zenon DEF NotRead
    <3> QED BY <1>1, <2>1, <3>3, <3>4, LocationPageLeads
  <2>6. CASE gen.then = "index"
    <3>1. /\ gen.reading = IndexPath(gen.n) /\ Stat(fs, Target) = "dir"
          /\ gen.n \in DOMAIN IndexesOf(ClientLocation)
          /\ NoIndexBelow(gen.n)
      BY <2>1, <2>6 DEF FileIsDue
    <3>2. /\ gen.n \in Nat
          /\ gen.n + 1 \in 1 .. Len(IndexesOf(ClientLocation)) + 1
          /\ \A m \in DOMAIN IndexesOf(ClientLocation) :
               m < gen.n + 1 => m < gen.n \/ m = gen.n
      <4> DEFINE indexes == IndexesOf(ClientLocation)
      <4>1. indexes \in Seq(Seq(STRING)) /\ gen.n \in DOMAIN indexes
        BY <2>4, <3>1
      <4> HIDE DEF indexes
      <4> QED BY <4>1 DEF indexes
    <3>3. NoIndexBelow(gen.n + 1)
      BY <2>1, <3>1, <3>2 DEF NoIndexBelow
    <3>4. TryIndex(gen.n + 1, Target.segs)
      BY <2>6, "file" # "index" /\ "index" # "page", Zenon DEF NotRead
    <3> QED BY <1>1, <2>1, <2>4, <3>1, <3>2, <3>3, <3>4, IndexLeads
  <2> QED BY <1>3, <2>5, <2>6
<1> QED BY <1>1, <1>2, <1>3 DEF GenOK

(* The same file is looked at again.                                       *)
LEMMA SameFileIsDue ==
  ASSUME Due, hist.touched = {}, pc \in Reading,
         UNCHANGED <<fs, client, gen, hist>>, pc' \in {"fstat", "read"},
         Opens(fs, gen.reading),
         pc' = "read" => Stat(fs, gen.reading) = "file"
  PROVE  Due'
<1>1. Same
  BY DEF Due, Same
<1>2. PageIsDue => PageIsDue'
  <2> SUFFICES ASSUME PageIsDue PROVE PageIsDue'
    OBVIOUS
  <2>1. PICK settings :
          /\ gen.reading = Path(gen.reading.segs, FALSE)
          /\ gen.reading.segs \in ErrorPagePath(settings, gen.status)
          /\ Wanted = PageOf(hist.before, settings, gen.status)
          /\ \/ fs = hist.before
             \/ gen.status = 201 /\ settings = ClientLocation.settings
    BY DEF PageIsDue
  <2>2. Wanted' = Wanted /\ ClientLocation' = ClientLocation
    BY <1>1, SameWanted
  <2>3. /\ gen'.reading = Path(gen'.reading.segs, FALSE)
        /\ gen'.reading.segs \in ErrorPagePath(settings, gen'.status)
        /\ Wanted' = PageOf(hist'.before, settings, gen'.status)
        /\ \/ fs' = hist'.before
           \/ gen'.status = 201 /\ settings = ClientLocation'.settings
    BY <2>1, <2>2
  <2> QED BY <2>3, Zenon DEF PageIsDue
<1>3. FileIsDue => FileIsDue'
  BY <1>1, SameWanted DEF FileIsDue
<1>4. ReadingIsDue'
  BY <1>2, <1>3 DEF Due, ReadingIsDue
<1>5. AnswerIsDue'
  BY DEF AnswerIsDue
<1> QED BY <1>1, <1>4, <1>5, SameWanted, DueNext

LEMMA ReadingDue ==
  ASSUME RecordsOK, Located, hist.touched = {}, Due,
         OpenFile \/ StatFile \/ ReadFile
  PROVE  Due'
<1>1. /\ pc \in Reading /\ UNCHANGED <<fs, client, hist>>
      /\ GenOK /\ Same
  BY DEF OpenFile, StatFile, ReadFile, Reading, RecordsOK, Due, Same
<1>2. CASE OpenFile
  <2>1. CASE Opens(fs, gen.reading)
    <3>1. pc' = "fstat" /\ UNCHANGED gen
      BY <1>2, <2>1 DEF OpenFile
    <3> QED BY <1>1, <2>1, <3>1, SameFileIsDue
  <2>2. CASE ~Opens(fs, gen.reading)
    <3>1. NotRead
      BY <1>2, <2>2 DEF OpenFile
    <3>2. ~IsFile(fs, gen.reading)
      BY <2>2 DEF IsFile, Opens
    <3> QED BY <1>1, <3>1, <3>2, NotReadLeads
  <2> QED BY <2>1, <2>2
<1>3. CASE StatFile
  <2>0. pc = "fstat" /\ Opens(fs, gen.reading)
    BY <1>3 DEF StatFile, Due, ReadingIsDue, Reading
  <2>1. CASE Stat(fs, gen.reading) = "file"
    <3>1. pc' = "read" /\ UNCHANGED gen
      BY <1>3, <2>1, "file" # "dir", Zenon DEF StatFile
    <3> QED BY <1>1, <2>0, <2>1, <3>1, SameFileIsDue
  <2>2. CASE Stat(fs, gen.reading) = "dir"
    <3>1. NotRead
      BY <1>3, <2>2, "file" # "dir", Zenon DEF StatFile
    <3>2. ~IsFile(fs, gen.reading)
      BY <2>2, "file" # "dir" DEF IsFile
    <3> QED BY <1>1, <3>1, <3>2, NotReadLeads
  <2> QED BY <2>0, <2>1, <2>2 DEF Opens
<1>4. CASE ReadFile
  <2>1. /\ Opens(fs, gen.reading) /\ Stat(fs, gen.reading) = "file"
        /\ IF gen.then = "page" THEN PageIsDue ELSE FileIsDue
    BY <1>4 DEF ReadFile, Due, ReadingIsDue, Reading
  <2>2. IsFile(fs, gen.reading)
    BY <2>1 DEF IsFile, Opens
  <2>3. fs[gen.reading.segs] # Dir
    BY <2>1, "file" # "dir" DEF Stat, LookupError, Lookup
  <2> DEFINE body == FileBody(fs[gen.reading.segs])
             code == IF gen.then = "page" THEN gen.status ELSE 200
  <2>4. AnswerWith(code, body)
    BY <1>4, <2>1, <2>3 DEF ReadFile, IsRead
  <2>5. UploadIsNoPage' => Answer(code, body) = Wanted
    <3>1. CASE gen.then = "page"
      <4>1. UploadIsNoPage' => UploadIsNoPage
        BY <1>1, PageLooksSame
      <4> QED BY <2>1, <2>2, <3>1, <4>1, PageRead
    <3>2. CASE gen.then # "page"
      <4>1. FileIsDue /\ fs = hist.before /\ IsPlain("GET")
        BY <2>1, <3>2 DEF FileIsDue
      <4>2. PICK r \in Requests : client = NewClient(r)
        BY <1>1 DEF RecordsOK, Reading
      <4>3. client.errorCode = 0 /\ HasLocation
        BY <1>1, <4>1 DEF IsPlain, Located, Reading
      <4>4. /\ Wanted = Fetched(hist.before, ClientLocation, Target)
            /\ IndexesOf(ClientLocation) \in Seq(Seq(STRING))
        BY <4>1, <4>2, <4>3, WantedOfOthers, LocationFacts
      <4>5. CASE gen.then = "file"
        <5>1. gen.reading = Target /\ Stat(hist.before, Target) = "file"
          BY <4>1, <4>5, "file" # "index" DEF FileIsDue
        <5>2. Target.segs \notin Denied
          BY <2>2, <5>1 DEF IsFile
        <5>3. Wanted = Answer(200, FileBody(hist.before[Target.segs]))
          BY <4>4, <5>1, <5>2, FetchedFile
        <5> QED BY <3>2, <4>1, <5>1, <5>3
      <4>6. CASE gen.then = "index"
        <5>1. /\ gen.reading = IndexPath(gen.n)
              /\ Stat(hist.before, Target) = "dir"
              /\ gen.n \in DOMAIN IndexesOf(ClientLocation)
              /\ NoIndexBelow(gen.n)
          BY <4>1, <4>6, "file" # "index" DEF FileIsDue
        <5>2. IsFile(hist.before, IndexPath(gen.n))
          BY <2>2, <4>1, <5>1
        <5>3. Fetched(hist.before, ClientLocation, Target)
                = Answer(200, FileBody(hist.before[IndexPath(gen.n).segs]))
          BY <4>4, <5>1, <5>2, FetchedIndex
        <5> QED BY <3>2, <4>1, <4>4, <5>1, <5>3
      <4> QED BY <1>1, <3>2, <4>5, <4>6 DEF GenOK
    <3> QED BY <3>1, <3>2
  <2> HIDE DEF body, code
  <2> QED BY <1>1, <2>4, <2>5, AnswerLeads
<1> QED BY <1>2, <1>3, <1>4

LEMMA ReceiveDue ==
  ASSUME RecordsOK, Receive
  PROVE  Due'
<1>1. /\ pc' \in {"menu", "down"} /\ fs' = fs /\ hist'.before = fs /\ hist'.during = {fs}
  BY DEF Receive, RecordsOK, HistFields
<1> QED BY <1>1 DEF Due, StartIsDue, ReadingIsDue, ListingIsDue, UploadIsDue,
                    AnswerIsDue, Reading

LEMMA MenuDue ==
  ASSUME RecordsOK, Located, hist.touched = {}, Due, ResponseMenu
  PROVE  Due'
<1>1. /\ pc = "menu" /\ UNCHANGED <<fs, client, hist>> /\ fs = hist.before
      /\ GenOK /\ Same
  BY DEF ResponseMenu, RecordsOK, Due, StartIsDue, Same
<1>2. PICK r \in Requests : client = NewClient(r)
  BY <1>1 DEF RecordsOK
<1>3. CASE client.errorCode # 0
  <2>1. RenderErrorPage(ClientServer.settings, client.errorCode)
    BY <1>3, Zenon DEF ResponseMenu
  <2>2. Wanted = PageOf(hist.before, ClientServer.settings, client.errorCode)
    BY <1>3, WantedOfRefused
  <2> QED BY <1>1, <2>1, <2>2, PageLeads
<1>4. CASE client.errorCode = 0 /\ IsRedirect(ClientLocation)
  <2>1. RenderLocationErrorPage(RedirectCode(ClientLocation))
    BY <1>4, Zenon DEF ResponseMenu
  <2>2. Wanted = WantedPage(RedirectCode(ClientLocation))
    BY <1>1, <1>2, <1>4, WantedOfOthers DEF Located
  <2> QED BY <1>1, <2>1, <2>2, LocationPageLeads
<1>5. CASE client.errorCode = 0 /\ ~IsRedirect(ClientLocation)
  <2>1. /\ pc' = CASE client.request.method = "GET"    -> "stat"
                   [] client.request.method = "POST"   -> "name"
                   [] client.request.method = "DELETE" -> "remove"
        /\ gen' = [gen EXCEPT !.reading = Target]
    BY <1>5, Zenon DEF ResponseMenu
  <2>2. gen'.reading = Target
    BY <1>1, <2>1 DEF GenOK, GenFields
  <2>3. client.request.method \in {"GET", "POST", "DELETE"}
    BY <1>2, <1>5, ServedHasServer, RequestsAssumption DEF Methods
  <2>4. /\ pc' \in {"stat", "name", "remove"}
        /\ pc' = "stat" => IsPlain("GET")
        /\ pc' = "name" => IsPlain("POST")
        /\ pc' = "remove" => IsPlain("DELETE")
    BY <1>5, <2>1, <2>3 DEF IsPlain
  <2>5. /\ StartIsDue' /\ UploadIsDue'
    BY <1>1, <2>2, <2>4, SameWanted DEF StartIsDue, UploadIsDue
  <2>6. ReadingIsDue' /\ ListingIsDue' /\ AnswerIsDue'
    BY <2>4 DEF ReadingIsDue, ListingIsDue, AnswerIsDue, Reading
  <2> QED BY <1>1, <2>5, <2>6, SameWanted DEF Due
<1> QED BY <1>3, <1>4, <1>5

(* What a plain request is answered with.                                  *)
LEMMA PlainFacts ==
  ASSUME RecordsOK, Located, pc \notin {"idle", "down"}, IsPlain("GET")
  PROVE  /\ Wanted = Fetched(hist.before, ClientLocation, Target)
         /\ IndexesOf(ClientLocation) \in Seq(Seq(STRING))
<1>1. PICK r \in Requests : client = NewClient(r)
  BY DEF RecordsOK
<1>2. client.errorCode = 0
  BY DEF IsPlain
<1>3. HasLocation
  BY <1>2 DEF Located
<1> QED BY <1>1, <1>2, <1>3, WantedOfOthers, LocationFacts

LEMMA StatDue ==
  ASSUME RecordsOK, Located, hist.touched = {}, Due, IsPathFileOrFolder
  PROVE  Due'
<1>1. /\ pc = "stat" /\ UNCHANGED <<fs, client, hist>> /\ fs = hist.before
      /\ GenOK /\ Same /\ IsPlain("GET") /\ gen.reading = Target
  BY DEF IsPathFileOrFolder, RecordsOK, Due, StartIsDue, Same
<1>2. /\ Wanted = Fetched(hist.before, ClientLocation, Target)
      /\ IndexesOf(ClientLocation) \in Seq(Seq(STRING))
  BY <1>1, PlainFacts
<1> DEFINE found == Stat(fs, gen.reading)
<1>3. CASE found = "file"
  <2>1. ReadNext(Target, "file")
    BY <1>1, <1>3, Zenon DEF IsPathFileOrFolder
  <2>2. gen'.reading = Target /\ gen'.then = "file" /\ pc' = "open"
    BY <1>1, <2>1 DEF ReadNext, GenOK, GenFields
  <2>3. FileIsDue'
    BY <1>1, <1>3, <2>2, SameWanted DEF FileIsDue
  <2>4. ReadingIsDue' /\ AnswerIsDue'
    BY <2>2, <2>3 DEF ReadingIsDue, AnswerIsDue
  <2> QED BY <1>1, <2>2, <2>4, SameWanted, DueNext
<1>4. CASE found = "dir"
  <2>1. TryIndex(1, Target.segs)
    BY <1>1, <1>4, "file" # "dir", Zenon DEF IsPathFileOrFolder
  <2>2. /\ NoIndexBelow(1) /\ 1 \in 1 .. Len(IndexesOf(ClientLocation)) + 1
    BY <1>2 DEF NoIndexBelow
  <2> QED BY <1>1, <1>2, <1>4, <2>1, <2>2, IndexLeads
<1>5. CASE found \notin {"file", "dir"}
  <2>1. RenderLocationErrorPage(FileOrFolderStatusCode(found))
    <3>1. found # "file" /\ found # "dir"
      BY <1>5
    <3> QED BY <3>1, Zenon DEF IsPathFileOrFolder
  <2>2. Wanted = WantedPage(FileOrFolderStatusCode(found))
    BY <1>1, <1>2, <1>5, FetchedError
  <2> QED BY <1>1, <2>1, <2>2, LocationPageLeads
<1> QED BY <1>3, <1>4, <1>5

LEMMA ListingDue ==
  ASSUME RecordsOK, Located, hist.touched = {}, Due,
         IsDirectoryValid \/ CreateHtmlMenu
  PROVE  Due'
<1>1. /\ pc \in {"opendir", "readdir"} /\ UNCHANGED <<fs, client, hist>>
      /\ fs = hist.before /\ GenOK /\ Same /\ IsPlain("GET")
      /\ gen.reading = Target /\ Stat(fs, Target) = "dir"
      /\ \A m \in DOMAIN IndexesOf(ClientLocation) : ~IsFile(fs, IndexPath(m))
      /\ Autoindexes(ClientLocation)
      /\ pc = "readdir" => Target.segs \notin Denied
  BY DEF IsDirectoryValid, CreateHtmlMenu, RecordsOK, Due, ListingIsDue, Same
<1>2. Wanted = Fetched(hist.before, ClientLocation, Target)
  BY <1>1, PlainFacts
<1>3. Wanted = IF Target.segs \in Denied THEN WantedPage(403)
               ELSE Answer(200, Listing(hist.before, Target.segs))
  BY <1>1, <1>2, FetchedDirectory
<1>4. OpenDir(fs, gen.reading)
        = IF Target.segs \in Denied THEN "EACCES" ELSE "dir"
  BY <1>1, "file" # "dir", Zenon DEF OpenDir
<1>5. CASE IsDirectoryValid
  <2>1. CASE Target.segs \notin Denied
    <3>1. pc' = "readdir" /\ UNCHANGED gen
      BY <1>4, <1>5, <2>1 DEF IsDirectoryValid
    <3>2. ListingIsDue'
      BY <1>1, <2>1, <3>1, SameWanted DEF ListingIsDue
    <3>3. StartIsDue' /\ ReadingIsDue' /\ UploadIsDue' /\ AnswerIsDue'
      BY <3>1 DEF StartIsDue, ReadingIsDue, UploadIsDue, AnswerIsDue, Reading
    <3> QED BY <1>1, <3>2, <3>3, SameWanted DEF Due
  <2>2. CASE Target.segs \in Denied
    <3>1. RenderLocationErrorPage(DirFailStatusCode("EACCES"))
      BY <1>4, <1>5, <2>2, "EACCES" # "dir" DEF IsDirectoryValid
    <3>2. DirFailStatusCode("EACCES") = 403
      BY DEF DirFailStatusCode
    <3> QED BY <1>1, <1>3, <2>2, <3>1, <3>2, LocationPageLeads
  <2> QED BY <2>1, <2>2
<1>6. CASE CreateHtmlMenu
  <2>1. Target.segs \notin Denied
    BY <1>1, <1>6 DEF CreateHtmlMenu
  <2>2. AnswerWith(200, Listing(fs, Target.segs))
    BY <1>1, <1>4, <1>6, <2>1 DEF CreateHtmlMenu
  <2> QED BY <1>1, <1>3, <2>1, <2>2, AnswerLeads
<1> QED BY <1>5, <1>6

LEMMA FilenameDue ==
  ASSUME RecordsOK, Located, hist.touched = {}, Due, GenerateFilename
  PROVE  Due'
<1> DEFINE name == Filename(client.request.query, gen.n)
           segs == Append(UploadFolder(ClientLocation), name)
<1>1. /\ pc = "name" /\ UNCHANGED <<fs, client, hist>> /\ fs = hist.before
      /\ GenOK /\ Same /\ IsPlain("POST")
  BY DEF GenerateFilename, RecordsOK, Due, UploadIsDue, Same
<1>2. IF IsTaken(segs)
      THEN pc' = pc /\ gen' = [gen EXCEPT !.n = @ + 1]
      ELSE pc' = "create" /\ gen' = [gen EXCEPT !.reading = Path(segs, FALSE)]
  BY Zenon DEF GenerateFilename
<1> HIDE DEF name
<1>3. pc' \in {"name", "create"}
  BY <1>1, <1>2
<1>4. UploadIsDue'
  <2>1. fs' = hist'.before /\ IsPlain("POST")'
    BY <1>1, SameWanted
  <2>2. CASE pc' = "create"
    <3>1. ~IsTaken(segs) /\ gen' = [gen EXCEPT !.reading = Path(segs, FALSE)]
      BY <1>1, <1>2, <2>2
    <3>2. gen'.reading = Path(segs, FALSE) /\ gen'.reading.segs = segs
      BY <1>1, <3>1 DEF GenOK, GenFields, Path
    <3>3. (~IsTaken(gen.reading.segs))'
      BY <1>1, <3>1, <3>2 DEF IsTaken
    <3>4. gen'.reading
            = Path(Append(UploadFolder(ClientLocation'), name), FALSE)
      BY <1>1, <3>2, SameWanted
    <3> QED BY <2>1, <2>2, <3>3, <3>4 DEF UploadIsDue
  <2>3. CASE pc' = "name"
    BY <2>1, <2>3 DEF UploadIsDue
  <2> QED BY <1>3, <2>2, <2>3
<1>5. StartIsDue' /\ ReadingIsDue' /\ ListingIsDue' /\ AnswerIsDue'
  BY <1>3 DEF StartIsDue, ReadingIsDue, ListingIsDue, AnswerIsDue, Reading
<1> QED BY <1>1, <1>4, <1>5, SameWanted DEF Due

LEMMA ParentPath ==
  ASSUME NEW segs, NEW slash
  PROVE  [[segs |-> segs, slash |-> slash] EXCEPT !.segs = Parent(@)]
           = [segs |-> Parent(segs), slash |-> slash]
OBVIOUS

LEMMA CreateDue ==
  ASSUME RecordsOK, Located, hist.touched = {}, Due, OpenOutputFile
  PROVE  Due'
<1> DEFINE folder == UploadFolder(ClientLocation)
           p == Path(folder, FALSE)
<1>1. /\ pc = "create" /\ UNCHANGED <<client, hist>> /\ fs = hist.before
      /\ GenOK /\ Same /\ IsPlain("POST") /\ ~IsTaken(gen.reading.segs)
  BY DEF OpenOutputFile, RecordsOK, Due, UploadIsDue, Same
<1>2. PICK name : gen.reading = Path(Append(folder, name), FALSE)
  BY <1>1 DEF Due, UploadIsDue
<1>3. PICK r \in Requests : client = NewClient(r)
  BY <1>1 DEF RecordsOK
<1>4. client.errorCode = 0 /\ HasLocation
  BY <1>1 DEF IsPlain, Located
<1>5. folder \in Seq(STRING)
  BY <1>3, <1>4, LocationFacts
<1>6. Wanted = IF Stat(hist.before, p) = "dir" /\ p.segs \notin Denied
               THEN WantedPage(201) ELSE WantedPage(500)
  BY <1>1, <1>3, <1>4, WantedOfOthers
<1> DEFINE segs == Append(folder, name)
           U == STRING \cup {name}
<1> HIDE DEF folder
<1>7. p = [segs |-> folder, slash |-> FALSE] /\ p.segs = folder
  BY DEF Path
<1> HIDE DEF p
<1>8. folder \in Seq(U)
  BY <1>5
<1>9. segs \in Seq(U) /\ Parent(segs) = folder
  <2>1. name \in U
    OBVIOUS
  <2> HIDE DEF U
  <2> QED BY <1>8, <2>1 DEF Parent
<1> HIDE DEF U, segs
<1>10. /\ gen.reading = Path(segs, FALSE)
       /\ gen.reading.segs = segs
       /\ gen.reading.slash = FALSE
       /\ [gen.reading EXCEPT !.segs = Parent(@)] = p
  <2>1. gen.reading = Path(segs, FALSE)
    BY <1>2 DEF segs
  <2>2. gen.reading = [segs |-> segs, slash |-> FALSE]
    BY <2>1 DEF Path
  <2>3. /\ gen.reading.segs = segs
        /\ gen.reading.slash = FALSE
    BY <2>2
  <2>4. [gen.reading EXCEPT !.segs = Parent(@)]
          = [segs |-> Parent(segs), slash |-> FALSE]
    BY <2>2, ParentPath, Zenon
  <2>5. [gen.reading EXCEPT !.segs = Parent(@)] = p
    BY <1>7, <1>9, <2>4
  <2> QED BY <2>1, <2>3, <2>5
<1>11. Stat(fs, gen.reading) \notin {"file", "dir"}
  BY <1>1, <1>10 DEF IsTaken
<1>12. Creatable(fs, gen.reading)
         <=> Stat(fs, p) = "dir" /\ folder \notin Denied
  <2>1. Creatable(fs, gen.reading)
          <=> /\ segs \notin DOMAIN fs /\ folder \notin Denied
              /\ Stat(fs, p) = "dir"
    BY <1>9, <1>10, <1>11 DEF Creatable
  <2>2. ASSUME Stat(fs, p) = "dir", folder \notin Denied, segs \in DOMAIN fs
        PROVE  FALSE
    <3>1. MayReach(folder)
      <4>1. p.segs \in DOMAIN fs /\ MayReach(p.segs)
        BY <2>2, FoundIsReached
      <4> QED BY <1>7, <4>1
    <3>2. MayReach(segs)
      BY <1>9, <2>2, <3>1, ParentReached
    <3> QED BY <1>10, <1>11, <2>2, <3>2, ReachedIsFound
  <2> QED BY <2>1, <2>2
<1>13. CASE Creatable(fs, gen.reading)
  <2>1. pc' = "write" /\ Wanted = WantedPage(201)
    BY <1>1, <1>6, <1>7, <1>12, <1>13 DEF OpenOutputFile
  <2>2. UploadIsDue'
    BY <1>1, <2>1, SameWanted DEF UploadIsDue
  <2>3. StartIsDue' /\ ReadingIsDue' /\ ListingIsDue' /\ AnswerIsDue'
    BY <2>1 DEF StartIsDue, ReadingIsDue, ListingIsDue, AnswerIsDue, Reading
  <2> QED BY <1>1, <2>2, <2>3, SameWanted DEF Due
<1>14. CASE ~Creatable(fs, gen.reading)
  <2>1. fs' = fs /\ RenderLocationErrorPage(500)
    BY <1>14 DEF OpenOutputFile
  <2>2. Wanted = WantedPage(500)
    BY <1>1, <1>6, <1>7, <1>12, <1>14
  <2> QED BY <1>1, <2>1, <2>2, LocationPageLeads
<1> QED BY <1>13, <1>14

LEMMA WriteDue ==
  ASSUME RecordsOK, hist.touched = {}, Due, PutBody
  PROVE  Due'
<1>1. /\ pc = "write" /\ GenOK /\ Wanted = WantedPage(201)
      /\ hist.during = {hist.before} /\ client' = client
      /\ RenderLocationErrorPage(201)
  BY DEF PutBody, RecordsOK, Due, UploadIsDue
<1>2. \/ \E kept : hist' = [hist EXCEPT !.kept = kept]
      \/ hist' = hist
  BY DEF PutBody
<1>3. Same
  BY <1>1, <1>2 DEF Same, RecordsOK, HistFields
<1> QED BY <1>1, <1>3, PageLeads DEF RenderLocationErrorPage, WantedPage

LEMMA RemoveDue ==
  ASSUME RecordsOK, Located, hist.touched = {}, Due, DeleteHandler
  PROVE  Due'
<1>1. /\ pc = "remove" /\ GenOK /\ IsPlain("DELETE")
      /\ hist.during = {hist.before} /\ client' = client
      /\ fs = hist.before /\ gen.reading = Target
  BY DEF DeleteHandler, RecordsOK, Due, StartIsDue
<1>2. PICK r \in Requests : client = NewClient(r)
  BY <1>1 DEF RecordsOK
<1>3. client.errorCode = 0 /\ HasLocation
  BY <1>1 DEF IsPlain, Located
<1>4. Wanted = IF Removable(hist.before, Target)
               THEN Answer(204, NoBody) ELSE WantedPage(404)
  BY <1>1, <1>2, <1>3, WantedOfOthers
<1>5. \/ \E kept : hist' = [hist EXCEPT !.kept = kept]
      \/ hist' = hist
  BY DEF DeleteHandler
<1>6. Same
  BY <1>1, <1>5 DEF Same, RecordsOK, HistFields
<1>7. CASE Removable(fs, gen.reading)
  <2>1. AnswerWith(204, NoBody)
    BY <1>7 DEF DeleteHandler
  <2> QED BY <1>1, <1>4, <1>6, <1>7, <2>1, AnswerLeads
<1>8. CASE ~Removable(fs, gen.reading)
  <2>1. fs' = fs /\ RenderLocationErrorPage(404)
    BY <1>8 DEF DeleteHandler
  <2> QED BY <1>1, <1>4, <1>6, <1>8, <2>1, LocationPageLeads
<1> QED BY <1>7, <1>8

LEMMA SendingDue ==
  ASSUME RecordsOK, Due, MakeMessage \/ SendMsg
  PROVE  Due'
<1>1. /\ hist'.during = {hist'.before} /\ pc' \in {"send", "sent"}
  BY DEF Due, MakeMessage, SendMsg
<1>2. ReadingIsDue' /\ AnswerIsDue'
  BY <1>1 DEF ReadingIsDue, AnswerIsDue, Reading
<1> QED BY <1>1, <1>2, DueNext

LEMMA StutterDue ==
  ASSUME Due, UNCHANGED vars
  PROVE  Due'
<1>1. UNCHANGED <<fs, pc, client, gen, hist>> /\ Same
  BY DEF vars, Same, Due
<1>2. Own' = Own
  BY <1>1, OwnStays
<1>3. PageIsDue => PageIsDue'
  BY <1>1 DEF PageIsDue, Wanted, ClientLocation, ClientServer
<1>4. FileIsDue => FileIsDue'
  BY <1>1, SameWanted DEF FileIsDue
<1>5. ReadingIsDue'
  BY <1>1, <1>3, <1>4 DEF Due, ReadingIsDue
<1>6. StartIsDue' /\ ListingIsDue' /\ UploadIsDue'
  <2>1. StartIsDue'
    BY <1>1, SameWanted DEF Due, StartIsDue
  <2>2. ListingIsDue'
    BY <1>1, SameWanted DEF Due, ListingIsDue
  <2>3. UploadIsDue'
    BY <1>1, SameWanted DEF Due, UploadIsDue, IsTaken
  <2> QED BY <2>1, <2>2, <2>3
<1>7. AnswerIsDue'
  BY <1>1, <1>2, SameWanted DEF Due, AnswerIsDue, UploadIsNoPage
<1> QED BY <1>1, <1>5, <1>6, <1>7, SameWanted DEF Due

(* Only another request forgets that somebody else has changed a file.     *)
LEMMA StillUndisturbed ==
  ASSUME RecordsOK, [Next]_vars, ~Receive, Undisturbed'
  PROVE  /\ Undisturbed
         /\ ~Delete /\ ~PeerLeaves /\ ~Appears /\ ~Vanishes
<1>1. ~Delete /\ ~PeerLeaves
  BY DEF Undisturbed, Delete, PeerLeaves, DeleteClient
<1>2. ASSUME NEW f, NEW segs, Changed(f, segs) PROVE FALSE
  <2>1. pc' = pc /\ hist'.touched = IF pc = "idle" THEN hist.touched
                                    ELSE hist.touched \cup {segs}
    BY <1>2 DEF Changed, RecordsOK, HistFields
  <2> QED BY <2>1 DEF Undisturbed
<1>3. ~Appears /\ ~Vanishes
  BY <1>2 DEF Appears, Vanishes
<1>4. CASE Server
  <2>1. pc # "idle"
    BY <1>1, <1>4
       DEF Server, ResponseMenu, IsPathFileOrFolder, OpenFile, StatFile,
           ReadFile, IsDirectoryValid, CreateHtmlMenu, GenerateFilename,
           OpenOutputFile, PutBody, DeleteHandler, MakeMessage, SendMsg
  <2>2. \/ hist' = hist
        \/ \E kept : hist' = [hist EXCEPT !.kept = kept]
    <3>1. CASE PutBody
      BY <3>1 DEF PutBody
    <3>2. CASE DeleteHandler
      BY <3>2 DEF DeleteHandler
    <3> QED BY <1>1, <1>4, <3>1, <3>2
       DEF Server, ResponseMenu, IsPathFileOrFolder, OpenFile, StatFile,
           ReadFile, IsDirectoryValid, CreateHtmlMenu, GenerateFilename,
           OpenOutputFile, MakeMessage, SendMsg
  <2>3. hist'.touched = hist.touched
    BY <2>2 DEF RecordsOK, HistFields
  <2> QED BY <1>1, <1>3, <2>1, <2>3 DEF Undisturbed
<1>5. CASE UNCHANGED vars
  BY <1>1, <1>3, <1>5 DEF vars, Undisturbed
<1> QED BY <1>1, <1>3, <1>4, <1>5 DEF Next

LEMMA AnswersAreDue == Spec => []TInv
<1>1. Init => TInv
  BY DEF Init, TInv, Undisturbed
<1>2. IInv /\ Located /\ TInv /\ [Next]_vars => TInv'
  <2> SUFFICES ASSUME IInv, Located, TInv, [Next]_vars, Undisturbed' PROVE Due'
    BY DEF TInv
  <2>1. RecordsOK /\ Located
    BY DEF IInv
  <2>2. CASE Receive
    BY <2>1, <2>2, ReceiveDue
  <2>3. CASE ~Receive
    <3>1. /\ hist.touched = {} /\ Due
          /\ ~Delete /\ ~PeerLeaves /\ ~Appears /\ ~Vanishes
      BY <2>1, <2>3, StillUndisturbed DEF TInv, Undisturbed
    <3>2. CASE ResponseMenu BY <2>1, <3>1, <3>2, MenuDue
    <3>3. CASE IsPathFileOrFolder BY <2>1, <3>1, <3>3, StatDue
    <3>4. CASE OpenFile \/ StatFile \/ ReadFile
      BY <2>1, <3>1, <3>4, ReadingDue
    <3>5. CASE IsDirectoryValid \/ CreateHtmlMenu
      BY <2>1, <3>1, <3>5, ListingDue
    <3>6. CASE GenerateFilename BY <2>1, <3>1, <3>6, FilenameDue
    <3>7. CASE OpenOutputFile BY <2>1, <3>1, <3>7, CreateDue
    <3>8. CASE PutBody BY <2>1, <3>1, <3>8, WriteDue
    <3>9. CASE DeleteHandler BY <2>1, <3>1, <3>9, RemoveDue
    <3>10. CASE MakeMessage \/ SendMsg BY <2>1, <3>1, <3>10, SendingDue
    <3>11. CASE UNCHANGED vars BY <3>1, <3>11, StutterDue
    <3> QED BY <2>3, <3>1, <3>2, <3>3, <3>4, <3>5, <3>6, <3>7, <3>8, <3>9,
               <3>10, <3>11 DEF Next, Server
  <2> QED BY <2>2, <2>3
<1> QED BY <1>1, <1>2, Invariance, PTL DEF Spec

(* Found call by call, the answer is the one that can be read off the      *)
(* files and the settings at once, for every request, unless somebody else *)
(* changes a file meanwhile or the upload itself is the page configured    *)
(* for its 201.                                                            *)
THEOREM AnswersAreTrue ==
  Spec => [](hist.touched = {} /\ UploadIsNoPage => AnswerIsTrue)
<1>1. TInv => (hist.touched = {} /\ UploadIsNoPage => AnswerIsTrue)
  <2> SUFFICES ASSUME TInv, hist.touched = {}, UploadIsNoPage, pc = "answer"
               PROVE  \E f \in hist.during :
                        Answer(gen.status, gen.response) = Expected(f, client)
    BY DEF AnswerIsTrue
  <2>1. Due
    BY DEF TInv, Undisturbed
  <2> QED BY <2>1 DEF Due, AnswerIsDue, Wanted
<1> QED BY <1>1, AnswersAreDue, PTL
=============================================================================
