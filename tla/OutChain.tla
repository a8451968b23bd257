------------------------------ MODULE OutChain ------------------------------
(***************************************************************************)
(* The response on its way out: the chain of nodes that stringsToChain     *)
(* makes of a header and a body (Message.cpp, Node.cpp), and what          *)
(* _sendMsg has sent of it (Io.cpp).  Bytes are counted; the content of a  *)
(* node is the part of the body in it, from one offset on.                 *)
(***************************************************************************)
EXTENDS Integers, Sequences, SequencesExt

CONSTANTS MAX_BODY_SIZE,     \* from this size on a body is chunked
          MAX_CHUNKSIZE,     \* the most bytes of the body in one chunk
          HeaderSize         \* the bytes of a header

ASSUME SizesAssumption == /\ MAX_BODY_SIZE \in Nat \ {0}
                          /\ MAX_CHUNKSIZE \in Nat \ {0}
                          /\ HeaderSize \in Nat \ {0}

Ceiling(a, b) == (a + b - 1) \div b

(* The digits of a chunk's size, which is below 16^8.                      *)
HexDigits(n) == 1 + Cardinality({d \in 1 .. 7 : 16 ^ d <= n})

(* A node: its bytes, the bytes of the body in it and where they begin.    *)
Node(type, size, from, payload) ==
  [type |-> type, size |-> size, from |-> from, payload |-> payload]

(* The body in as few chunks as there must be, all of nearly one size.     *)
CalcOptimalChunkSize(size) == Ceiling(size, Ceiling(size, MAX_CHUNKSIZE))

(* setStringChunked: the size in hexadecimal, and a CRLF before and after. *)
ChunkNode(from, payload) ==
  Node("CHUNK", HexDigits(payload) + 4 + payload, from, payload)

LastChunk(from) == Node("LCHUNK", 5, from, 0)

BodyToChunks(size) ==
  LET part   == CalcOptimalChunkSize(size)
      Left(i) == size - (i - 1) * part
  IN [i \in 1 .. Ceiling(size, part) |->
        ChunkNode((i - 1) * part, IF Left(i) > part THEN part ELSE Left(i))]
     \o << LastChunk(size) >>

(* The header says which of the two it is.                                 *)
StringsToChain(size) ==
  << Node("HEADER", HeaderSize, 0, 0) >> \o
  IF size < MAX_BODY_SIZE THEN << Node("BODY", size, 0, size) >>
  ELSE BodyToChunks(size)

-----------------------------------------------------------------------------
(* Sending: the node the iterator points to, the bytes of it that are      *)
(* sent, and the wire, a sequence of what was sent of which node.          *)

StartSending(size) ==
  [chain |-> StringsToChain(size), it |-> 1, bytesSent |-> 0, wire |-> <<>>]

Sent(node, from, n) == [node |-> node, from |-> from, bytes |-> n]

(* What send puts on the wire, joined to what it continues.                *)
OnWire(wire, node, from, n) ==
  IF /\ wire # <<>>
     /\ Last(wire).node = node
     /\ Last(wire).from + Last(wire).bytes = from
  THEN Front(wire) \o << [Last(wire) EXCEPT !.bytes = @ + n] >>
  ELSE Append(wire, Sent(node, from, n))

(* Mutant: the bytes sent are not counted anew for the next node.          *)
AdvanceKeeping(o) ==
  IF o.bytesSent >= o.chain[o.it].size THEN [o EXCEPT !.it = @ + 1] ELSE o

(* A node sent to the end makes place for the next one.                    *)
Advance(o) ==
  IF o.bytesSent = o.chain[o.it].size
  THEN [o EXCEPT !.it = @ + 1, !.bytesSent = 0]
  ELSE o

(* send took n bytes, at least one.                                        *)
SendBytes(o, n) ==
  Advance([o EXCEPT !.wire = OnWire(@, o.it, o.bytesSent, n),
                    !.bytesSent = @ + n])

(* Nothing of the node the iterator points to is left to send: the end of  *)
(* the chain, or an empty node.                                            *)
AllSent(o) == o.it > Len(o.chain) \/ o.bytesSent >= o.chain[o.it].size

-----------------------------------------------------------------------------
(* What a receiver must find: everything that precedes node n, then its    *)
(* first bytes.                                                            *)

IsPrefixOfChain(o) ==
  \A i \in DOMAIN o.wire :
    /\ o.wire[i].node = i
    /\ o.wire[i].from = 0
    /\ o.wire[i].bytes <= o.chain[i].size
    /\ i < Len(o.wire) => o.wire[i].bytes = o.chain[i].size

(* A body of this size by its length, or in chunks: in order, without gap, *)
(* none empty but the last.                                                *)
FramesBody(chain, size) ==
  LET body == Tail(chain)
      end  == body[Len(body)]
  IN /\ chain[1].type = "HEADER"
     /\ \/ /\ Len(body) = 1
           /\ end.type = "BODY" /\ end.size = size
        \/ /\ end.type = "LCHUNK" /\ end.from = size
           /\ body[1].from = 0
           /\ \A i \in 1 .. Len(body) - 1 :
                /\ body[i].type = "CHUNK"
                /\ body[i].payload \in 1 .. MAX_CHUNKSIZE
                /\ body[i + 1].from = body[i].from + body[i].payload

IsWhole(o, size) ==
  /\ FramesBody(o.chain, size)
  /\ \A i \in DOMAIN o.chain :
       o.chain[i].size > 0 => i \in DOMAIN o.wire /\ o.wire[i].bytes = o.chain[i].size
=============================================================================
