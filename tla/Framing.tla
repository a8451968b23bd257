------------------------------ MODULE Framing ------------------------------
(***************************************************************************)
(* How a message is put together from the buffers recv fills (the          *)
(* receiving half of srcs_new/Message): a chain of nodes, header, body or  *)
(* chunks, trailer, each the bytes of the stream from one offset to        *)
(* another.  One action receives a buffer, one runs one pass of the loop   *)
(* of bufferToNodes, one ends the stream.                                  *)
(*                                                                         *)
(* Module Webserv takes from here that one buffer does to a message what   *)
(* Client!Parsed allows: ResultsAreParsed.                                 *)
(***************************************************************************)
EXTENDS Integers, SequencesExt

CONSTANTS
  Streams,   \* what the peer or a script may send, see StreamRec
  MaxLine,   \* MAXLINE: the size of the buffer
  LineCuts,  \* TRUE: a buffer may end behind a line of the header
  Unset      \* what a size_t nobody initialised may hold

CR == "\r"
LF == "\n"

(* One hexadecimal digit is enough for the sizes of small chunks; "x"      *)
(* stands for every other byte.                                            *)
HexDigit == [d \in {"0", "1", "2", "3"} |->
               CASE d = "0" -> 0 [] d = "1" -> 1 [] d = "2" -> 2 [] OTHER -> 3]
Bytes == {CR, LF, "x"} \cup DOMAIN HexDigit

(* What was sent: the bytes, whether they are a request, what the header   *)
(* says (Content-Length, Transfer-Encoding, Trailer), and how the sender   *)
(* means them: where the header ends, the body, where the message ends,    *)
(* whether its end can be known from the bytes, whether they are well      *)
(* formed.                                                                 *)
StreamRec == [bytes : Seq(Bytes), request : BOOLEAN, length : Nat,
              chunked : BOOLEAN, trailer : BOOLEAN, head : Nat,
              body : Seq(Bytes), end : Nat, framed : BOOLEAN, valid : BOOLEAN]

ASSUME StreamsAssumption == Streams \subseteq StreamRec
ASSUME MaxLineAssumption == MaxLine \in Nat \ {0}
ASSUME LineCutsAssumption == LineCuts \in BOOLEAN
ASSUME UnsetAssumption == Unset \subseteq Nat /\ Unset # {}

NodeTypes  == {"HEADER", "BODY", "CHUNK", "LCHUNK", "TRAILER"}
NodeStates == {"INCOMPLETE", "COMPLETE"}

(* How far the search for the end of a script's header has got             *)
(* (_hasNewline, _hasCgiDel): in a line, behind LF, behind LF CR; the      *)
(* header ends with this byte or before it.                                *)
ScanStates == {"line", "newline", "del", "with", "before"}

(* Node.  Its string is the bytes of the stream behind from up to to.      *)
NodeRec == [type : NodeTypes, state : NodeStates, from : Nat, to : Nat,
            chunkHeader : BOOLEAN, chunkHeaderSize : Nat, chunkSize : Nat,
            bodySize : Nat, scan : ScanStates]

NewNode(type, size, at) ==
  [type |-> type, state |-> "INCOMPLETE", from |-> at, to |-> at,
   chunkHeader |-> FALSE, chunkHeaderSize |-> 0, chunkSize |-> 0,
   bodySize |-> size, scan |-> "line"]

VARIABLES
  stream,   \* what is being sent
  got,      \* bytes received: the end of the current buffer
  start,    \* where the current buffer begins
  pos,      \* bytes taken into nodes: start + bufferPos
  msg,      \* the message: its chain and the members of Message
  before    \* history: the message when the last buffer arrived

vars == <<stream, got, start, pos, msg, before>>

NewMessage == [state |-> "INCOMPLETE", header |-> FALSE, chunked |-> FALSE,
               trailer |-> FALSE, bodySize |-> 0,
               chain |-> << NewNode("HEADER", 0, 0) >>]

-----------------------------------------------------------------------------
(* Strings of nodes.                                                       *)

Slice(from, to) == SubSeq(stream.bytes, from + 1, to)
Str(n)    == Slice(n.from, n.to)
Length(n) == n.to - n.from
Rest      == Slice(pos, got)

(* Where del occurs in s.                                                  *)
Occurrences(s, del) ==
  { i \in 0..(Len(s) - Len(del)) : SubSeq(s, i + 1, i + Len(del)) = del }

HeaderEnd == <<CR, LF, CR, LF>>
LineEnd   == <<CR, LF>>

(* Mutant: the delimiter is always looked for as a whole.                  *)
RemainDelWhole(s, del) == del

(* _getRemainDel: what of the delimiter is still missing behind the        *)
(* longest part of it that ends the string.                                *)
RemainDel(s, del) ==
  LET there == Max({ k \in 0..Len(del) : IsSuffix(SubSeq(del, 1, k), s) })
  IN  SubSeq(del, there + 1, Len(del))

(* ft_strstr answers 0 both for "not found" and for "found at once".       *)
FtStrstr(s, del) ==
  IF Occurrences(s, del) = {} THEN 0 ELSE Min(Occurrences(s, del))

(* _calcBtr.  In the last case the code returns the size of the buffer;    *)
(* concatString takes what is left of it.                                  *)
CalcBtr(n, del) ==
  LET remain == RemainDel(Str(n), del)
      found  == FtStrstr(Rest, remain)
  IN  CASE pos = start /\ IsPrefix(remain, Rest) -> Len(remain)
        [] OTHER -> IF found = 0 THEN Len(Rest) ELSE found + Len(remain)

(* _calcBtrCgi goes from byte to byte: what a byte makes of each state.    *)
CgiScan(byte) == [scan \in ScanStates |->
  CASE scan \in {"with", "before"}                  -> scan
    [] scan = "line" /\ byte = LF                   -> "newline"
    [] scan = "line" /\ byte # LF                   -> "line"
    [] scan \in {"newline", "del"} /\ byte = LF     -> "with"
    [] scan \in {"newline", "del"} /\ byte = CR     -> "del"
    [] OTHER -> IF scan = "del" THEN "before" ELSE "line"]

ScanCgi(scan, bytes) == FoldLeft(LAMBDA s, b : CgiScan(b)[s], scan, bytes)

CalcBtrCgi(n) ==
  LET Behind(k) == ScanCgi(n.scan, SubSeq(Rest, 1, k))
      ends == { k \in 0..Len(Rest) : Behind(k) \in {"with", "before"} }
      last == IF ends = {} THEN Len(Rest) ELSE Min(ends)
  IN  [scan |-> Behind(last),
       btr  |-> IF Behind(last) = "before" THEN last - 1 ELSE last]

(* _setBtr for the nodes whose end is not looked for in the bytes.         *)
Btr(n) ==
  CASE n.type = "BODY" ->
         IF stream.request \/ n.bodySize > 0 THEN n.bodySize - Length(n)
                                             ELSE Len(Rest)
    [] n.chunkHeader -> n.chunkHeaderSize + n.chunkSize + 2 - Length(n)
    [] n.type \in {"CHUNK", "LCHUNK"} /\ ~n.chunkHeader -> CalcBtr(n, LineEnd)
    [] OTHER -> CalcBtr(n, HeaderEnd)

(* Mutant: the end of the buffer is not looked at.                         *)
BytesTakenUnbounded(btr) == btr

BytesTaken(btr) == Min({btr, Len(Rest)})

(* concatString, with what _setBtr does to the node.                       *)
ConcatString(n) ==
  IF n.type \in {"HEADER", "TRAILER"} /\ ~stream.request
  THEN LET c == CalcBtrCgi(n) IN
       [n EXCEPT !.to = @ + BytesTaken(c.btr), !.scan = c.scan,
                 !.state = IF c.scan \in {"with", "before"}
                           THEN "COMPLETE" ELSE @]
  ELSE [n EXCEPT !.to = @ + BytesTaken(Btr(n))]

-----------------------------------------------------------------------------
(* The message.  _it names the last node of the chain.                     *)

Current(m) == Last(m.chain)
SetCurrent(m, n) == [m EXCEPT !.chain[Len(m.chain)] = n]

(* _addNewNode.                                                            *)
AddNewNode(m) ==
  LET n == Current(m)
      Push(type, size) ==
        [m EXCEPT !.chain = Append(@, NewNode(type, size, pos))]
  IN  CASE n.state # "COMPLETE" -> m
        [] n.state = "COMPLETE" /\ n.type = "HEADER" /\ ~m.chunked ->
             Push("BODY", n.bodySize)
        [] n.state = "COMPLETE" /\ n.type # "LCHUNK" /\ m.chunked ->
             Push("CHUNK", 0)
        [] OTHER -> Push("TRAILER", 0)

(* Mutant: a body may be longer than its size.                             *)
BodyDoneLater(n) == Length(n) > n.bodySize

BodyDone(n) == Length(n) = n.bodySize

ChunkDone(n) == n.chunkHeaderSize + n.chunkSize + 2 = Length(n)

(* Mutant: what stands behind a chunk is not looked at.                    *)
ChunkEndsAnyhow(n) == TRUE

ChunkEndsWell(n) == IsSuffix(LineEnd, Str(n))

(* _setNodeComplete.                                                       *)
SetNodeComplete(m) ==
  LET n == Current(m)
      c == IF n.type = "CHUNK" /\ Occurrences(Str(n), LineEnd) # {}
           THEN [n EXCEPT !.chunkHeader = TRUE] ELSE n
      complete == SetCurrent(m, [c EXCEPT !.state = "COMPLETE"])
  IN  CASE n.type = "HEADER" ->
             IF stream.request /\ Occurrences(Str(n), HeaderEnd) # {}
             THEN complete ELSE m
        [] n.type = "TRAILER" ->
             IF Occurrences(Str(n), HeaderEnd) # {} THEN complete ELSE m
        [] n.type = "BODY" ->
             [(IF BodyDone(n) THEN complete ELSE m)
                EXCEPT !.bodySize = n.bodySize]
        [] c.chunkHeader /\ (n.type = "CHUNK" \/ ~m.trailer) /\ ChunkDone(c) ->
             IF ChunkEndsWell(c) THEN complete
                                 ELSE [complete EXCEPT !.state = "ERROR"]
        [] OTHER -> SetCurrent(m, c)

(* _calcChunkSize: the digits the line begins with; none is an error.      *)
SizeDigits(s) ==
  LET digits == { k \in 0..Len(s) :
                    \A i \in 1..k : s[i] \in DOMAIN HexDigit }
  IN  SubSeq(s, 1, Max(digits))

AddDigit(size, digit) == 16 * size + HexDigit[digit]

(* Of an empty line nothing is converted: x keeps what it held, unset.     *)
ChunkSize(s, unset) ==
  IF \A i \in DOMAIN s : s[i] \in {CR, LF} THEN unset
                                         ELSE FoldLeft(AddDigit, 0, SizeDigits(s))

(* Mutant: the size of the body is that of the last chunk.                 *)
CountLast(bodySize, size) == size

Count(bodySize, size) == bodySize + size

(* _parseNode, first half: the header of a chunk has been read.            *)
ReadChunkHeader(m, unset) ==
  LET n    == Current(m)
      size == ChunkSize(Str(n), unset)
      d    == SetCurrent(m,
                [n EXCEPT !.chunkHeaderSize = Length(n), !.chunkSize = size,
                          !.type = IF size = 0 THEN "LCHUNK" ELSE @,
                          !.state = IF size = 0 /\ m.trailer
                                    THEN "COMPLETE" ELSE @])
  IN  IF n.type = "CHUNK" /\ n.chunkHeader /\ n.chunkSize = 0
      THEN [d EXCEPT !.bodySize = Count(@, size),
                     !.state = IF SizeDigits(Str(n)) = <<>> THEN "ERROR" ELSE @]
      ELSE m

(* createHeader and _headerInfoToNode.                                     *)
HeaderInfo(m) ==
  [SetCurrent(m, [Current(m) EXCEPT !.bodySize = stream.length])
     EXCEPT !.header = TRUE, !.chunked = stream.chunked,
            !.trailer = stream.trailer]

(* Mutant: a script's output ends with its header, too.                    *)
EndsWithAnyHeader(m) == ~m.chunked /\ Current(m).bodySize = 0

EndsWithHeader(m) ==
  ~m.chunked /\ Current(m).bodySize = 0 /\ stream.request

(* _parseNode, second half: the node is complete.                          *)
CompleteNode(m) ==
  LET n == Current(m)
      h == HeaderInfo(m)
      complete == [m EXCEPT !.state = "COMPLETE"]
  IN  CASE n.state # "COMPLETE" -> m
        [] n.state = "COMPLETE" /\ n.type = "HEADER" ->
             [h EXCEPT !.state = IF EndsWithHeader(h) THEN "COMPLETE" ELSE @]
        [] n.state = "COMPLETE" /\ n.type = "TRAILER" ->
             [complete EXCEPT !.chain = Front(@), !.trailer = FALSE]
        [] n.state = "COMPLETE" /\ n.type = "CHUNK" -> m
        [] n.state = "COMPLETE" /\ n.type = "LCHUNK" /\ m.trailer -> m
        [] OTHER -> complete

ParseNode(m, unset) == CompleteNode(ReadChunkHeader(m, unset))

-----------------------------------------------------------------------------
(* The loop of bufferToNodes is over.                                      *)
Consumed == pos = got \/ msg.state # "INCOMPLETE"

(* Where the header has lines that end but is not at its end.              *)
BehindLine(k) == k < stream.head /\ IsSuffix(LineEnd, Slice(0, k))

Init ==
  /\ stream \in Streams
  /\ got = 0 /\ start = 0 /\ pos = 0
  /\ msg = NewMessage /\ before = NewMessage

(* recv delivers the next bytes into a cleared buffer.                     *)
ReceiveBuffer ==
  /\ Consumed /\ msg.state = "INCOMPLETE"
  /\ \E n \in 1..Min({MaxLine, Len(stream.bytes) - got}) :
       /\ BehindLine(got + n) => LineCuts
       /\ got' = got + n
  /\ start' = got
  /\ before' = msg
  /\ UNCHANGED <<stream, pos, msg>>

(* One pass of the loop of bufferToNodes: a node is added if the current   *)
(* one is complete, gets its bytes, and is looked at twice.                *)
Pass ==
  /\ ~Consumed
  /\ \E a \in {AddNewNode(msg)} : \E n \in {ConcatString(Current(a))} :
       \E m \in {SetNodeComplete(SetCurrent(a, n))} :
         /\ pos' = n.to
         /\ \E unset \in Unset : msg' = ParseNode(m, unset)
  /\ UNCHANGED <<stream, got, start, before>>

(* The script closes its output: setFinishedReceiving completes what there *)
(* is.  Only for output whose end nothing else shows.                      *)
EndOfStream ==
  /\ Consumed /\ msg.state = "INCOMPLETE"
  /\ ~stream.framed /\ got = Len(stream.bytes)
  /\ msg' = [msg EXCEPT !.state = "COMPLETE", !.header = TRUE,
                        !.chain[1].state = "COMPLETE"]
  /\ UNCHANGED <<stream, got, start, pos, before>>

Next == ReceiveBuffer \/ Pass \/ EndOfStream

Spec == Init /\ [][Next]_vars

(* The loop runs until it is over.                                         *)
FairSpec == Spec /\ WF_vars(Pass)

-----------------------------------------------------------------------------
(* Types; the nodes of a chain follow one another in the stream, and take  *)
(* no byte the buffer does not hold (concatString).                        *)
TypeOK ==
  /\ stream \in Streams
  /\ start \in 0..got /\ pos \in start..got /\ got \in 0..Len(stream.bytes)
  /\ \A m \in {msg, before} :
       /\ m.state \in {"INCOMPLETE", "COMPLETE", "ERROR"}
       /\ {m.header, m.chunked, m.trailer} \subseteq BOOLEAN
       /\ m.bodySize \in Nat
       /\ m.chain # <<>> /\ m.chain[1].from = 0 /\ Last(m.chain).to <= pos
       /\ \A i \in DOMAIN m.chain :
            /\ m.chain[i] \in NodeRec /\ m.chain[i].from <= m.chain[i].to
            /\ i > 1 => m.chain[i].from = m.chain[i - 1].to

(* The body handed on: getBodyString over the chunks, without their        *)
(* headers (_unChunk).  Mutant: the CRLF behind a chunk stays.             *)
UnChunkHeaderOnly(s) ==
  IF Occurrences(s, LineEnd) = {} THEN s
  ELSE SubSeq(s, Min(Occurrences(s, LineEnd)) + 3, Len(s))

UnChunk(s) ==
  IF Occurrences(s, LineEnd) = {} THEN s
  ELSE SubSeq(s, Min(Occurrences(s, LineEnd)) + 3, Len(s) - 2)

StringUnchunked(n) == IF n.type \in {"CHUNK", "LCHUNK"} THEN UnChunk(Str(n))
                                                        ELSE Str(n)

BodyString(m) ==
  FoldLeft(LAMBDA body, n : body \o StringUnchunked(n), <<>>, Tail(m.chain))

(* However recv cut the stream into buffers, a complete message is what    *)
(* was sent: its header, its body (getBodyString), nothing behind it.      *)
FramedAsSent ==
  msg.state = "COMPLETE" /\ stream.valid =>
    /\ Str(msg.chain[1]) = Slice(0, stream.head)
    /\ BodyString(msg) = stream.body
    /\ pos = stream.end

(* A message whose last byte has been received and given to bufferToNodes  *)
(* is complete: the server does not wait for bytes nobody will send.       *)
CompleteWhenDelivered ==
  stream.valid /\ stream.framed /\ got >= stream.end /\ Consumed =>
    msg.state = "COMPLETE"

(* Of what is not well formed only the end is forgiven, whatever the cuts: *)
(* a last chunk that does not end well, or an empty line in its place, for *)
(* which _calcChunkSize and _setNodeComplete set ERROR and _parseNode then *)
(* COMPLETE.  A chunk with data that does not end where its size says is   *)
(* never accepted, and nothing behind the last one gets into the body.     *)
OnlyLastChunkForgiven ==
  ~stream.valid /\ msg.state = "COMPLETE" =>
    /\ Current(msg).type = "LCHUNK"
    /\ \A i \in 2..(Len(msg.chain) - 1) :
         IsSuffix(LineEnd, Str(msg.chain[i]))
    /\ BodyString(msg) = stream.body

(* The size _checkBodySizeLimit compares with the limit is the size of the *)
(* body, chunked or not.                                                   *)
BodySizeExact ==
  msg.state = "COMPLETE" /\ stream.valid /\ stream.framed =>
    msg.bodySize = Len(stream.body)

(* Every buffer is dealt with: the loop of bufferToNodes never turns       *)
(* without taking bytes or finishing a node.                               *)
LoopEnds == []<>Consumed

(* What the model of the server assumes: one buffer does to a message one  *)
(* of the things in Client!Parsed.                                         *)
Server == INSTANCE Client WITH Faults <- {}, Refusals <- {}, Endings <- {},
                               CgiFrames <- TRUE, Throws <- {}

View(m) ==
  [head  |-> CASE m.chain[1].state = "COMPLETE" -> "complete"
               [] OTHER -> IF m.chain[1].to = 0 THEN "empty" ELSE "partial",
   state |-> m.state,
   body  |-> Len(m.chain) > 1]

ResultsAreParsed ==
  [][Pass /\ Consumed' =>
       View(msg') \in Server!Parsed(View(before), IF stream.request
                                                   THEN "REQ_MSG"
                                                   ELSE "RESP_MSG")]_vars
=============================================================================
