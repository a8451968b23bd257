---------------------------- MODULE Requests_proofs ----------------------------
(***************************************************************************)
(* What is proved of a request on its way through the handlers, for every  *)
(* value of the constants of Webserv: what each handler takes for granted  *)
(* (headers, child descriptors, a request received or sent on whole) was   *)
(* established by the handlers that ran before it; and, which rests on     *)
(* it, that Webserv implements Connection.                                 *)
(***************************************************************************)
EXTENDS Webserv_proofs

-----------------------------------------------------------------------------
(* Frames: what a setter leaves alone.                                     *)

HasOutput(c) == c.fd["FROMCHILD_FD"] # "ABSENT"

(* The child, the flags that other components read, and what kernel and    *)
(* clock know of d are those of c; its bytes may have been read.           *)
Kept(c, d) ==
  /\ d \in ClientRec
  /\ d.cgiFlag = c.cgiFlag
  /\ d.waitReturn = c.waitReturn
  /\ d.proc = c.proc
  /\ d.age = c.age
  /\ d.fromChild => c.fromChild
  /\ HasChildFds(d) <=> HasChildFds(c)
  /\ HasOutput(d) <=> HasOutput(c)
  /\ d.hist.earlySideEffect = c.hist.earlySideEffect
  /\ c.hist.cut => d.hist.cut

Untouched(c, d) == Kept(c, d) /\ d.hist.rawSent = c.hist.rawSent

SameMessages(c, d) == Untouched(c, d) /\ d.msg = c.msg

SameOutcome(c, d) ==
  d.errorCode = c.errorCode /\ d.clientState = c.clientState

OtherMessages(c, d, m) == \A n \in MsgTypes \ {m} : d.msg[n] = c.msg[n]

(* The client has a descriptor of that type.                               *)
Present(c, t) == t \in FdTypes /\ (c.fd[t] # "ABSENT" \/ t = "CLIENT_FD")

LEMMA UntouchedReflexive ==
  ASSUME NEW c \in ClientRec
  PROVE  SameMessages(c, c) /\ Untouched(c, c) /\ Kept(c, c)
BY DEF SameMessages, Untouched, Kept

LEMMA UntouchedTransitive ==
  ASSUME NEW c, NEW d, NEW e
  PROVE  /\ SameMessages(c, d) /\ SameMessages(d, e) => SameMessages(c, e)
         /\ Untouched(c, d) /\ Untouched(d, e) => Untouched(c, e)
         /\ Kept(c, d) /\ Kept(d, e) => Kept(c, e)
BY DEF SameMessages, Untouched, Kept

LEMMA MessageTypes ==
  ASSUME NEW c \in ClientRec
  PROVE  /\ \A m \in MsgTypes : c.msg[m] \in Message
         /\ c.msg["REQ_MSG"] \in Message /\ c.msg["RESP_MSG"] \in Message
BY DEF ClientRec, MsgTypes

LEMMA SetClientStateUntouched ==
  ASSUME NEW c \in ClientRec, NEW s \in ClientStates \ {RESETME}
  PROVE  LET d == SetClientState(c, s) IN
           /\ SameMessages(c, d)
           /\ d.errorCode = c.errorCode
           /\ d.clientState = IF s <= c.clientState THEN c.clientState ELSE s
BY StatesOrdered DEF SetClientState, ClientRec, SameMessages, Untouched, Kept,
                     HasChildFds, HasOutput

LEMMA SetErrorCodeUntouched ==
  ASSUME NEW c \in ClientRec, NEW e \in ErrorCodes
  PROVE  LET d == SetErrorCode(c, e) IN
           /\ SameMessages(c, d)
           /\ d.errorCode = e
           /\ d.clientState = c.clientState
BY DEF SetErrorCode, ClientRec, SameMessages, Untouched, Kept, HasChildFds,
       HasOutput

LEMMA SetFdUntouched ==
  ASSUME NEW c \in ClientRec, NEW t, Present(c, t),
         NEW s \in FdStates \ {"ABSENT"}
  PROVE  LET d == SetFd(c, t, s) IN SameMessages(c, d) /\ SameOutcome(c, d)
BY DEF SetFd, ClientRec, SameMessages, Untouched, Kept, HasChildFds,
       HasOutput, Present, FdTypes, SameOutcome

LEMMA MessageSetUntouched ==
  ASSUME NEW c \in ClientRec, NEW m \in MsgTypes, NEW y \in Message
  PROVE  LET d == [c EXCEPT !.msg[m] = y] IN
           /\ Untouched(c, d) /\ SameOutcome(c, d) /\ OtherMessages(c, d, m)
           /\ d.msg[m] = y
BY DEF ClientRec, Untouched, Kept, HasChildFds, HasOutput, SameOutcome,
       OtherMessages

LEMMA HistorySetKept ==
  ASSUME NEW c \in ClientRec, NEW h \in History,
         h.earlySideEffect = c.hist.earlySideEffect, c.hist.cut => h.cut
  PROVE  LET d == [c EXCEPT !.hist = h] IN
           /\ Kept(c, d) /\ d.msg = c.msg /\ SameOutcome(c, d)
           /\ d.hist = h
BY DEF ClientRec, Kept, HasChildFds, HasOutput, SameOutcome

LEMMA PresentKept ==
  ASSUME NEW c, NEW d, NEW t, Present(c, t), Kept(c, d)
  PROVE  Present(d, t)
BY DEF Present, Kept, HasChildFds, HasOutput, FdTypes

LEMMA FdDataByTypePresent ==
  ASSUME NEW c \in ClientRec, NEW t \in FdTypes
  PROVE  Present(c, FdDataByType(c, t))
BY DEF FdDataByType, Present, FdTypes

-----------------------------------------------------------------------------
(* The steps of receiving.                                                 *)

LEMMA CreateHeaderUntouched ==
  ASSUME NEW c \in ClientRec, NEW m \in MsgTypes, NEW r \in HeaderResults
  PROVE  LET d == CreateHeader(c, m, r) IN
           /\ Untouched(c, d) /\ OtherMessages(c, d, m)
           /\ d.clientState = c.clientState
           /\ d.errorCode = 0 => c.errorCode = 0
           /\ d.msg[m] = [c.msg[m] EXCEPT !.header = TRUE]
<1> DEFINE y == [c.msg[m] EXCEPT !.header = TRUE]
           e == HeaderError(c, m, r)
           d == [c EXCEPT !.msg[m] = y]
<1>1. y \in Message
  BY MessageTypes, MessageFields DEF SameState
<1>2. e \in ErrorCodes /\ (e = 0 => c.errorCode = 0)
  BY DEF HeaderError, HeaderResults, ErrorCodes, ClientRec
<1>3. CASE c.msg[m].header
  <2>1. CreateHeader(c, m, r) = c
    BY <1>3 DEF CreateHeader
  <2>2. c.msg[m] = [c.msg[m] EXCEPT !.header = TRUE]
    BY <1>3, MessageTypes DEF Message
  <2> QED BY <2>1, <2>2, UntouchedReflexive DEF OtherMessages
<1>4. CASE ~c.msg[m].header
  <2>1. CreateHeader(c, m, r) = SetErrorCode(d, e)
    BY <1>4, Zenon DEF CreateHeader, SetErrorCode
  <2>2. /\ Untouched(c, d) /\ SameOutcome(c, d) /\ OtherMessages(c, d, m)
        /\ d.msg[m] = y
    BY <1>1, MessageSetUntouched, ZenonT(40)
  <2> HIDE DEF d, e
  <2>3. /\ SameMessages(d, SetErrorCode(d, e))
        /\ SetErrorCode(d, e).errorCode = e
        /\ SetErrorCode(d, e).clientState = d.clientState
    BY <1>2, <2>2, SetErrorCodeUntouched DEF Untouched, Kept
  <2>4. Untouched(c, SetErrorCode(d, e))
    BY <2>2, <2>3, UntouchedTransitive DEF SameMessages
  <2> HIDE DEF y
  <2>5. /\ Untouched(c, CreateHeader(c, m, r))
        /\ OtherMessages(c, CreateHeader(c, m, r), m)
        /\ CreateHeader(c, m, r).clientState = c.clientState
        /\ CreateHeader(c, m, r).errorCode = 0 => c.errorCode = 0
        /\ CreateHeader(c, m, r).msg[m] = y
    BY <1>2, <2>1, <2>2, <2>3, <2>4
       DEF SameMessages, OtherMessages, SameOutcome
  <2> QED BY <2>5 DEF y
<1> QED BY <1>3, <1>4

(* A later state, but RESETME is none of them.                             *)
StateAfter(c, s) == IF s <= c.clientState THEN c.clientState ELSE s

(* d is c once the message m has been received to its end through t.       *)
Finished(c, d, t, m) ==
  /\ Untouched(c, d) /\ OtherMessages(c, d, m)
  /\ d.errorCode = 0 => c.errorCode = 0
  /\ d.msg[m].kind = c.msg[m].kind
  /\ \/ d.clientState = DELETEME
     \/ /\ d.clientState = IF t = "FROMCHILD_FD"
                           THEN StateAfter(c, DO_RESPONSE) ELSE c.clientState
        /\ d.msg[m].header

LEMMA SetFinishedReceivingEffect ==
  ASSUME NEW c \in ClientRec, c.clientState # RESETME,
         NEW t, Present(c, t), NEW m \in MsgTypes,
         NEW o, o.result \in HeaderResults
  PROVE  Finished(c, SetFinishedReceiving(c, t, m, o), t, m)
<1> DEFINE s == SetClientState(c, DO_RESPONSE)
           k == IF t = "FROMCHILD_FD" THEN SetFd(s, t, "CLOSE") ELSE c
           gone == SetClientState(k, DELETEME)
           made == CreateHeader(k, m, o.result)
           e == IF o.alloc /\ ~k.msg[m].header THEN gone ELSE made
           y == [e.msg[m] EXCEPT !.head = "complete", !.state = "COMPLETE",
                                 !.it = "head"]
           g == [e EXCEPT !.msg[m] = y]
           b == e.hist.cut \/ (m = "REQ_MSG" /\ c.msg[m].state # "COMPLETE")
           h == [e.hist EXCEPT !.cut = b]
           f == [g EXCEPT !.hist = h]
           to == IF t = "FROMCHILD_FD" THEN StateAfter(c, DO_RESPONSE)
                                       ELSE c.clientState
<1>1. /\ SameMessages(c, k) /\ k.errorCode = c.errorCode
      /\ k.clientState = to
  <2>1. CASE t = "FROMCHILD_FD"
    <3>1. /\ SameMessages(c, s) /\ s.errorCode = c.errorCode
          /\ s.clientState = StateAfter(c, DO_RESPONSE)
      BY SetClientStateUntouched, StatesOrdered DEF StateAfter
    <3> HIDE DEF s
    <3>2. Present(s, t) /\ s \in ClientRec
      BY <3>1, PresentKept DEF SameMessages, Untouched, Kept
    <3>3. SameMessages(s, SetFd(s, t, "CLOSE"))
          /\ SameOutcome(s, SetFd(s, t, "CLOSE"))
      BY <3>2, SetFdUntouched DEF FdStates
    <3> QED BY <2>1, <3>1, <3>3, UntouchedTransitive DEF SameOutcome
  <2>2. CASE t # "FROMCHILD_FD"
    BY <2>2, UntouchedReflexive
  <2> QED BY <2>1, <2>2
<1> HIDE DEF k
<1>2. k \in ClientRec /\ k.msg = c.msg /\ k.clientState # RESETME
      /\ Untouched(c, k)
  BY <1>1, StatesOrdered
     DEF SameMessages, Untouched, Kept, StateAfter, ClientRec
<1>3. /\ SameMessages(k, gone) /\ gone.errorCode = k.errorCode
      /\ gone.clientState = DELETEME
  BY <1>2, SetClientStateUntouched, StatesOrdered DEF ClientRec
<1>4. /\ Untouched(k, made) /\ OtherMessages(k, made, m)
      /\ made.clientState = k.clientState
      /\ made.errorCode = 0 => k.errorCode = 0
      /\ made.msg[m] = [k.msg[m] EXCEPT !.header = TRUE]
  BY <1>2, CreateHeaderUntouched
<1>5. /\ made.msg[m].kind = k.msg[m].kind /\ made.msg[m].header
  <2>1. k.msg[m] \in Message
    BY <1>2, MessageTypes
  <2> HIDE DEF made
  <2> QED BY <1>4, <2>1 DEF Message
<1> HIDE DEF gone, made
<1>6. /\ Untouched(k, e) /\ OtherMessages(k, e, m)
      /\ e.errorCode = 0 => k.errorCode = 0
      /\ e.msg[m].kind = k.msg[m].kind
      /\ \/ e.clientState = DELETEME
         \/ e.clientState = k.clientState /\ e.msg[m].header
  BY <1>3, <1>4, <1>5 DEF SameMessages, OtherMessages
<1> HIDE DEF e
<1>7. e.msg[m] \in Message /\ e \in ClientRec
  BY <1>6, MessageTypes DEF Untouched, Kept
<1>8. /\ y \in Message /\ y.kind = e.msg[m].kind
      /\ y.header = e.msg[m].header
  BY <1>7 DEF Message, HeadStates, MsgStates
<1> HIDE DEF y
<1>9. /\ Untouched(e, f) /\ SameOutcome(e, f) /\ OtherMessages(e, f, m)
      /\ f.msg[m] = y
  <2>1. /\ Untouched(e, g) /\ SameOutcome(e, g) /\ OtherMessages(e, g, m)
        /\ g.msg[m] = y /\ g.hist = e.hist
    BY <1>7, <1>8, MessageSetUntouched DEF ClientRec
  <2> HIDE DEF g
  <2>2. /\ h \in History /\ h.rawSent = e.hist.rawSent
        /\ h.earlySideEffect = e.hist.earlySideEffect
        /\ e.hist.cut => h.cut
    <3>1. e.hist \in History /\ b \in BOOLEAN /\ (e.hist.cut => b)
      BY <1>7 DEF ClientRec
    <3> HIDE DEF b
    <3> QED BY <3>1 DEF History
  <2> HIDE DEF h
  <2>3. /\ Kept(g, f) /\ f.msg = g.msg /\ SameOutcome(g, f) /\ f.hist = h
    <3>1. g \in ClientRec
      BY <2>1 DEF Untouched, Kept
    <3> QED BY <2>1, <2>2, <3>1, HistorySetKept, Zenon
  <2> HIDE DEF f
  <2>4. Untouched(e, f)
    BY <2>1, <2>2, <2>3, UntouchedTransitive DEF Untouched
  <2> QED BY <2>1, <2>3, <2>4 DEF SameOutcome, OtherMessages
<1> HIDE DEF f, g
<1>10. Finished(c, f, t, m)
  <2>1. Untouched(c, f)
    BY <1>2, <1>6, <1>9, UntouchedTransitive
  <2> QED BY <1>1, <1>2, <1>6, <1>8, <1>9, <2>1
          DEF OtherMessages, SameOutcome, Finished
<1>11. SetFinishedReceiving(c, t, m, o) \in {f, gone}
  <2>1. f = [e EXCEPT !.msg[m].head = "complete",
                      !.msg[m].state = "COMPLETE", !.msg[m].it = "head",
                      !.hist.cut = b]
    <3> HIDE DEF b
    <3> QED BY Zenon DEF f, g, h, y
  <2>2. SetFinishedReceiving(c, t, m, o) =
          IF t = "CLIENT_FD" /\ c.msg[m].head = "empty" THEN gone
          ELSE [e EXCEPT !.msg[m].head = "complete",
                         !.msg[m].state = "COMPLETE", !.msg[m].it = "head",
                         !.hist.cut = b]
    BY Zenon DEF SetFinishedReceiving, e, gone, made, k
  <2> QED BY <2>1, <2>2
<1>12. Finished(c, gone, t, m)
  BY <1>1, <1>2, <1>3, UntouchedTransitive
     DEF SameMessages, OtherMessages, Finished
<1> QED BY <1>10, <1>11, <1>12

(* d is c with what one buffer of bytes, or none, added to message m.      *)
Filled(c, d, m) ==
  /\ Untouched(c, d) /\ OtherMessages(c, d, m)
  /\ d.errorCode = 0 => c.errorCode = 0
  /\ d.clientState = c.clientState
  /\ d.msg[m].kind = c.msg[m].kind
  /\ d.msg[m].head = "complete" => d.msg[m].header \/ d.msg[m] = c.msg[m]

LEMMA BufferToNodesEffect ==
  ASSUME NEW c \in ClientRec, NEW m \in MsgTypes, NEW o, Outcome(o),
         o.parse \in ParseResult
  PROVE  LET d == BufferToNodes(c, m, o) IN
           /\ Filled(c, d, m)
           /\ /\ c.msg[m].state = "INCOMPLETE"
              /\ o.parse.state = "INCOMPLETE"
              => d.msg[m].state = "INCOMPLETE"
<1> DEFINE p == o.parse
           pos == IF p.body THEN "body" ELSE "head"
           y == [c.msg[m] EXCEPT !.head = p.head, !.state = p.state,
                                 !.body = p.body, !.it = pos]
           f == [c EXCEPT !.msg[m] = y]
           g == CreateHeader(f, m, o.result)
           d == BufferToNodes(c, m, o)
<1>1. /\ p.head \in HeadStates /\ p.state \in MsgStates /\ p.body \in BOOLEAN
      /\ pos \in {"head", "body", "end"}
  BY DEF ParseResult
<1>2. c.msg[m] \in Message
  BY MessageTypes
<1>3. /\ y \in Message /\ y.kind = c.msg[m].kind
      /\ y.head = p.head /\ y.state = p.state
  <2> HIDE DEF p, pos
  <2> QED BY <1>1, <1>2 DEF Message
<1>4. d = IF c.msg[m].state # "INCOMPLETE" THEN c
          ELSE IF p.head = "complete" THEN g ELSE f
  <2> DEFINE x == [c EXCEPT !.msg[m].head = p.head, !.msg[m].state = p.state,
                            !.msg[m].body = p.body, !.msg[m].it = pos]
  <2>1. d = IF c.msg[m].state # "INCOMPLETE" THEN c
            ELSE IF p.head = "complete" THEN CreateHeader(x, m, o.result)
                                        ELSE x
    BY Zenon DEF BufferToNodes
  <2>2. x = f
    <3> HIDE DEF p, pos
    <3> QED BY ZenonT(40)
  <2> HIDE DEF x, f, d
  <2> QED BY <2>1, <2>2
<1> HIDE DEF y, p, d
<1>5. /\ Untouched(c, f) /\ SameOutcome(c, f) /\ OtherMessages(c, f, m)
      /\ f.msg[m] = y
  BY <1>3, MessageSetUntouched
<1> HIDE DEF f
<1>6. /\ Untouched(f, g) /\ OtherMessages(f, g, m)
      /\ g.clientState = f.clientState
      /\ g.errorCode = 0 => f.errorCode = 0
      /\ g.msg[m] = [f.msg[m] EXCEPT !.header = TRUE]
  BY <1>5, CreateHeaderUntouched DEF Untouched, Kept, Outcome
<1>7. /\ g.msg[m].kind = y.kind /\ g.msg[m].header
      /\ g.msg[m].state = y.state
  <2> HIDE DEF g
  <2> QED BY <1>3, <1>5, <1>6 DEF Message
<1> HIDE DEF g
<1>8. Untouched(c, g)
  BY <1>5, <1>6, UntouchedTransitive
<1>9. Filled(c, g, m) /\ (p.head # "complete" => Filled(c, f, m))
  BY <1>3, <1>5, <1>6, <1>7, <1>8 DEF Filled, SameOutcome, OtherMessages
<1>10. Filled(c, c, m)
  BY UntouchedReflexive DEF Filled, OtherMessages
<1> QED BY <1>3, <1>4, <1>5, <1>7, <1>9, <1>10 DEF p, d

(* What recv leaves in the kernel's buffer, and what is noted about it.    *)
LEMMA TakeBytesUntouched ==
  ASSUME NEW c \in ClientRec, NEW t, NEW more \in BOOLEAN, NEW b \in BOOLEAN
  PROVE  LET d == [TakeBytes(c, t, more) EXCEPT !.hist.idleRecv = b] IN
           SameMessages(c, d) /\ SameOutcome(c, d)
BY SMTT(30) DEF TakeBytes, ClientRec, History, SameMessages, Untouched, Kept,
       HasChildFds, HasOutput, SameOutcome

(* The child has ended and all it wrote was read, or the client failed.    *)
Drained(c) == c.errorCode # 0 \/ (~c.fromChild /\ c.proc # "running")

(* The parser holds that the message m is still incomplete.                *)
Open(c, m, o) ==
  c.msg[m].state = "INCOMPLETE" /\ o.parse.state = "INCOMPLETE"

(* d is c after one recv on t: the message m has been received so far, or  *)
(* no memory was left for it, or it has been received to its end.          *)
Received(c, d, t, m, o) ==
  /\ Untouched(c, d) /\ OtherMessages(c, d, m)
  /\ d.errorCode = 0 => c.errorCode = 0
  /\ d.msg[m].kind = c.msg[m].kind
  /\ \/ /\ d.clientState = c.clientState
        /\ d.msg[m].head = "complete" =>
             d.msg[m].header \/ d.msg[m] = c.msg[m]
        /\ Open(c, m, o) => d.msg[m].state = "INCOMPLETE"
     \/ d.clientState = DELETEME
     \/ c.clientState = DO_CGIREC /\ d.clientState = CRITICAL_ERROR
     \/ /\ ~AwaitsChild(c)
        /\ d.msg[m].header
        /\ d.clientState = IF t = "FROMCHILD_FD"
                           THEN StateAfter(c, DO_RESPONSE) ELSE c.clientState
        /\ t = "FROMCHILD_FD" => Drained(d) \/ ~Open(c, m, o)

LEMMA ReceiveMsgEffect ==
  ASSUME NEW c \in ClientRec, c.clientState \in {DO_REQUEST, DO_CGIREC},
         NEW t, Present(c, t), NEW m \in MsgTypes,
         NEW o, Outcome(o), o.parse \in ParseResult, o.more \in BOOLEAN
  PROVE  Received(c, ReceiveMsg(c, t, m, o), t, m, o)
<1> DEFINE v == RecvValue(c, t)
           k == [TakeBytes(c, t, o.more) EXCEPT
                   !.hist.idleRecv = @ \/ WouldBlockRecv(c, t)]
           s == IF c.clientState = DO_CGIREC THEN CRITICAL_ERROR ELSE DELETEME
           lost == SetClientState(k, s)
           more == BufferToNodes(k, m, o)
           d == CASE v <= 0 -> k
                  [] v > 0 /\ o.alloc -> lost
                  [] OTHER -> more
           e == IF v < 0 THEN SetErrorCode(d, 500) ELSE d
           end == SetFinishedReceiving(e, t, m, o)
           r == ReceiveMsg(c, t, m, o)
<1>1. SameMessages(c, k) /\ SameOutcome(c, k)
  <2> DEFINE b == TakeBytes(c, t, o.more).hist.idleRecv \/ WouldBlockRecv(c, t)
  <2>1. b \in BOOLEAN
    OBVIOUS
  <2>2. k = [TakeBytes(c, t, o.more) EXCEPT !.hist.idleRecv = b]
    BY Zenon
  <2> HIDE DEF b, k
  <2> QED BY <2>1, <2>2, TakeBytesUntouched
<1> HIDE DEF k
<1>2. k \in ClientRec /\ k.clientState \in {DO_REQUEST, DO_CGIREC}
  BY <1>1 DEF SameMessages, Untouched, Kept, SameOutcome
<1>3. /\ SameMessages(k, lost) /\ lost.errorCode = k.errorCode
      /\ lost.clientState = s
  <2>1. s \in ClientStates \ {RESETME} /\ s > k.clientState
    BY <1>2, StatesOrdered
  <2> HIDE DEF s
  <2> QED BY <1>2, <2>1, SetClientStateUntouched, StatesOrdered
<1> HIDE DEF lost, s
<1>4. /\ Filled(k, more, m)
      /\ Open(c, m, o) => more.msg[m].state = "INCOMPLETE"
  BY <1>1, <1>2, BufferToNodesEffect DEF Open, SameMessages
<1> HIDE DEF more
<1>5. /\ Untouched(c, k) /\ Untouched(c, lost) /\ Untouched(c, more)
  BY <1>1, <1>3, <1>4, UntouchedTransitive DEF SameMessages, Filled
<1>6. /\ \/ d.clientState = c.clientState
         \/ v > 0 /\ d.clientState = s
      /\ Untouched(c, d) /\ OtherMessages(c, d, m)
      /\ d.errorCode = 0 => c.errorCode = 0
      /\ d.msg[m].kind = c.msg[m].kind
      /\ \/ d.clientState = s
         \/ /\ d.msg[m].head = "complete" =>
                 d.msg[m].header \/ d.msg[m] = c.msg[m]
            /\ Open(c, m, o) => d.msg[m].state = "INCOMPLETE"
      /\ Open(c, m, o) => d.msg[m].state = "INCOMPLETE"
  <2>1. CASE d = k
    BY <1>1, <1>5, <2>1 DEF SameMessages, SameOutcome, OtherMessages, Open
  <2>2. CASE d = lost /\ v > 0
    <3> HIDE DEF d, v
    <3> QED BY <1>1, <1>3, <1>5, <2>2
            DEF SameMessages, SameOutcome, OtherMessages, Open
  <2>3. CASE d = more
    <3> HIDE DEF d, v
    <3> QED BY <1>1, <1>4, <1>5, <2>3
            DEF SameMessages, SameOutcome, OtherMessages, Filled
  <2>4. v \in {-1, 0, 1}
    BY DEF RecvValue
  <2> QED
    <3> HIDE DEF v
    <3> QED BY <2>1, <2>2, <2>3, <2>4
<1>7. v \in {-1, 0, 1}
  BY DEF RecvValue
<1>8. v = 0 /\ t = "FROMCHILD_FD" => ~c.fromChild /\ c.proc # "running"
  BY DEF RecvValue
<1>9. r = IF AwaitsChild(d) THEN d
          ELSE IF v <= 0 \/ d.msg[m].state = "COMPLETE" THEN end ELSE d
  BY Zenon DEF ReceiveMsg, k, lost, more, s
<1> HIDE DEF d, v, r
<1>10. AwaitsChild(d) <=> AwaitsChild(c)
  BY <1>6 DEF AwaitsChild, Untouched, Kept
<1>11. /\ Untouched(c, e) /\ e.msg = d.msg /\ e.clientState = d.clientState
       /\ e.errorCode = 0 => d.errorCode = 0
       /\ v < 0 => e.errorCode # 0
  <2>1. SameMessages(d, SetErrorCode(d, 500))
        /\ SetErrorCode(d, 500).errorCode = 500
        /\ SetErrorCode(d, 500).clientState = d.clientState
    BY <1>6, SetErrorCodeUntouched DEF Untouched, Kept, ErrorCodes
  <2> QED BY <1>6, <2>1, UntouchedTransitive DEF SameMessages
<1> HIDE DEF e
<1>12. Finished(e, end, t, m)
  <2>1. e \in ClientRec /\ e.clientState # RESETME /\ Present(e, t)
    BY <1>6, <1>11, PresentKept, StatesOrdered DEF Untouched, Kept, s
  <2> QED BY <2>1, SetFinishedReceivingEffect DEF Outcome
<1> HIDE DEF end
<1>13. Untouched(c, end)
  BY <1>11, <1>12, UntouchedTransitive DEF Finished
<1>14. CASE r = d
  BY <1>6, <1>14 DEF Received, s, r
<1>15. CASE /\ r = end /\ ~AwaitsChild(d)
            /\ v <= 0 \/ d.msg[m].state = "COMPLETE"
  <2>1. /\ OtherMessages(c, r, m)
        /\ r.errorCode = 0 => c.errorCode = 0
        /\ r.msg[m].kind = c.msg[m].kind
    BY <1>6, <1>11, <1>12, <1>15 DEF Finished, OtherMessages
  <2>2. CASE r.clientState = DELETEME
    BY <1>13, <1>15, <2>1, <2>2 DEF Received, r
  <2>3. CASE d.clientState = s /\ r.clientState # DELETEME
    <3>1. c.clientState = DO_CGIREC /\ r.clientState = CRITICAL_ERROR
      BY <1>11, <1>12, <1>15, <2>3, StatesOrdered
         DEF Finished, StateAfter, s
    <3> QED BY <1>13, <1>15, <2>1, <3>1 DEF Received, r
  <2>4. CASE d.clientState = c.clientState /\ r.clientState # DELETEME
    <3>1. Open(c, m, o) => v <= 0
      BY <1>6, <1>15
    <3>2. t = "FROMCHILD_FD" => Drained(r) \/ ~Open(c, m, o)
      <4>1. CASE v < 0
        BY <1>11, <1>12, <1>15, <4>1 DEF Drained, Finished
      <4>2. CASE v = 0
        BY <1>8, <1>13, <1>15, <4>2 DEF Drained, Untouched, Kept
      <4>3. CASE v > 0
        BY <1>7, <3>1, <4>3
      <4> QED BY <1>7, <4>1, <4>2, <4>3
    <3>3. r.msg[m].header
          /\ r.clientState = IF t = "FROMCHILD_FD"
                             THEN StateAfter(c, DO_RESPONSE) ELSE c.clientState
      BY <1>11, <1>12, <1>15, <2>4 DEF Finished, StateAfter
    <3> QED BY <1>10, <1>13, <1>15, <2>1, <3>2, <3>3 DEF Received, r
  <2> QED BY <1>6, <2>2, <2>3, <2>4
<1> QED BY <1>9, <1>14, <1>15 DEF r

-----------------------------------------------------------------------------
(* The steps of sending.                                                   *)

(* Nothing of the message has changed but how much of it is sent.          *)
SameButPosition(y, z) ==
  /\ z.state = y.state /\ z.kind = y.kind /\ z.body = y.body
  /\ z.head = y.head /\ z.header = y.header
  /\ y.it # "head" => z.it # "head"

Advanced(c, d, m) ==
  /\ Kept(c, d) /\ OtherMessages(c, d, m)
  /\ SameButPosition(c.msg[m], d.msg[m])

LEMMA AdvancedTransitive ==
  ASSUME NEW c, NEW d, NEW e, NEW m, Advanced(c, d, m), Advanced(d, e, m)
  PROVE  Advanced(c, e, m)
BY UntouchedTransitive DEF Advanced, OtherMessages, SameButPosition

LEMMA SameMessagesAdvanced ==
  ASSUME NEW c, NEW d, NEW m, SameMessages(c, d)
  PROVE  Advanced(c, d, m)
BY DEF SameMessages, Untouched, Advanced, OtherMessages, SameButPosition

LEMMA AdvanceIteratorEffect ==
  ASSUME NEW c \in ClientRec, NEW m \in MsgTypes
  PROVE  LET d == AdvanceIterator(c, m) IN
           /\ Untouched(c, d) /\ SameOutcome(c, d) /\ Advanced(c, d, m)
<1> DEFINE pos == IF c.msg[m].it = "head" /\ c.msg[m].body
                  THEN "body" ELSE "end"
           y == [c.msg[m] EXCEPT !.it = pos]
           d == [c EXCEPT !.msg[m] = y]
<1>1. y \in Message /\ SameButPosition(c.msg[m], y)
  BY MessageTypes DEF Message, SameButPosition
<1>2. AdvanceIterator(c, m) = d
  BY Zenon DEF AdvanceIterator
<1> HIDE DEF y
<1>3. /\ Untouched(c, d) /\ SameOutcome(c, d) /\ OtherMessages(c, d, m)
      /\ d.msg[m] = y
  BY <1>1, MessageSetUntouched
<1> HIDE DEF d
<1> QED BY <1>1, <1>2, <1>3 DEF Untouched, Advanced

LEMMA SetFinishedSendingEffect ==
  ASSUME NEW c \in ClientRec, c.clientState # RESETME,
         NEW t, Present(c, t)
  PROVE  LET d == SetFinishedSending(c, t) IN
           /\ SameMessages(c, d) /\ d.errorCode = c.errorCode
           /\ \/ d.clientState = c.clientState
              \/ t = "CLIENT_FD" /\ d.clientState = DELETEME
              \/ /\ t = "TOCHILD_FD" /\ d.errorCode = 0
                 /\ d.clientState = StateAfter(c, DO_CGIREC)
<1> DEFINE gone == SetClientState(c, DELETEME)
           through == SetClientState(c, DO_CGIREC)
           d == CASE t = "CLIENT_FD" -> gone
                  [] t = "TOCHILD_FD" /\ c.errorCode = 0 -> through
                  [] OTHER -> c
           e == SetFd(d, t, "CLOSE")
<1>1. /\ SameMessages(c, gone) /\ gone.errorCode = c.errorCode
      /\ gone.clientState = DELETEME
      /\ SameMessages(c, through) /\ through.errorCode = c.errorCode
      /\ through.clientState = StateAfter(c, DO_CGIREC)
      /\ SameMessages(c, c)
  BY SetClientStateUntouched, UntouchedReflexive, StatesOrdered
     DEF StateAfter, ClientRec
<1> HIDE DEF gone, through
<1>2. /\ SameMessages(c, d) /\ d.errorCode = c.errorCode
      /\ \/ d.clientState = c.clientState
         \/ t = "CLIENT_FD" /\ d.clientState = DELETEME
         \/ /\ t = "TOCHILD_FD" /\ d.errorCode = 0
            /\ d.clientState = StateAfter(c, DO_CGIREC)
  BY <1>1
<1> HIDE DEF d
<1>3. SameMessages(d, e) /\ SameOutcome(d, e)
  BY <1>2, SetFdUntouched, PresentKept
     DEF SameMessages, Untouched, Kept, FdStates
<1>4. SetFinishedSending(c, t) = e
  BY Zenon DEF SetFinishedSending, d, gone, through
<1> HIDE DEF e
<1>5. SameMessages(c, e)
  BY <1>2, <1>3, UntouchedTransitive
<1> QED BY <1>2, <1>3, <1>4, <1>5 DEF SameOutcome

LEMMA PutBytesUntouched ==
  ASSUME NEW c \in ClientRec, NEW t, NEW full
  PROVE  LET d == PutBytes(c, t, full) IN
           SameMessages(c, d) /\ SameOutcome(c, d)
BY ZenonT(40)
   DEF PutBytes, ClientRec, SameMessages, Untouched, Kept, HasChildFds,
       HasOutput, SameOutcome

(* What SendMsg puts on the wire is a message as it was received.          *)
SendsRaw(c, t, m) ==
  /\ t = "CLIENT_FD" /\ c.msg[m].state = "COMPLETE" /\ ~HeldBack(c)
  /\ c.msg[m].kind = "raw"

(* d is c after one send of message m on t.                                *)
Sent(c, d, t, m) ==
  /\ Advanced(c, d, m)
  /\ d.errorCode = 0 => c.errorCode = 0
  /\ d.hist.rawSent => c.hist.rawSent \/ SendsRaw(c, t, m)
  /\ \/ d.clientState = c.clientState
     \/ t = "CLIENT_FD" /\ d.clientState = DELETEME
     \/ /\ t = "TOCHILD_FD" /\ d.msg[m].it = "end"
        /\ d.clientState = StateAfter(c, DO_CGIREC)

(* Sending ends with e: nothing, or the whole message, is left to be sent. *)
LEMMA SendingEnds ==
  ASSUME NEW c \in ClientRec, c.clientState # RESETME,
         NEW t, Present(c, t), NEW m \in MsgTypes,
         NEW e, Advanced(c, e, m), e.clientState = c.clientState,
         e.errorCode = 0 => c.errorCode = 0,
         e.hist.rawSent => c.hist.rawSent \/ SendsRaw(c, t, m),
         e.errorCode # 0 \/ e.msg[m].it = "end"
  PROVE  Sent(c, SetFinishedSending(e, t), t, m)
<1> DEFINE d == SetFinishedSending(e, t)
<1>1. e \in ClientRec /\ Present(e, t)
  BY PresentKept DEF Advanced, Kept
<1>2. /\ SameMessages(e, d) /\ d.errorCode = e.errorCode
      /\ \/ d.clientState = e.clientState
         \/ t = "CLIENT_FD" /\ d.clientState = DELETEME
         \/ /\ t = "TOCHILD_FD" /\ d.errorCode = 0
            /\ d.clientState = StateAfter(e, DO_CGIREC)
  BY <1>1, SetFinishedSendingEffect
<1> HIDE DEF d
<1>3. Advanced(c, d, m)
  BY <1>2, SameMessagesAdvanced, AdvancedTransitive
<1>4. d.msg = e.msg /\ d.hist.rawSent = e.hist.rawSent
  BY <1>2 DEF SameMessages, Untouched
<1>5. Sent(c, d, t, m)
  BY <1>2, <1>3, <1>4 DEF Sent, StateAfter
<1> QED BY <1>5 DEF d

LEMMA SendMsgEffect ==
  ASSUME NEW c \in ClientRec, c.clientState # RESETME,
         NEW t, Present(c, t), NEW m \in MsgTypes, NEW o
  PROVE  Sent(c, SendMsg(c, t, m, o), t, m)
<1> DEFINE skipped == IF t = "TOCHILD_FD" /\ c.msg[m].it = "head"
                      THEN AdvanceIterator(c, m) ELSE c
           f == skipped.hist.fullSend \/ WouldBlockSend(c, t)
           raw == /\ t = "CLIENT_FD" /\ HasRoom(c, t)
                  /\ ~o.failed
                  /\ c.msg[m].kind = "raw"
           r == skipped.hist.rawSent \/ raw
           trying == [skipped EXCEPT !.hist.fullSend = f, !.hist.rawSent = r]
           failing == SetErrorCode(trying, 500)
           went == IF o.whole THEN AdvanceIterator(trying, m) ELSE trying
           sent == PutBytes(went, t, o.full)
           d == SendMsg(c, t, m, o)
<1>1. \/ d = c
      \/ /\ c.msg[m].state = "COMPLETE" /\ ~HeldBack(c)
         /\ \/ /\ skipped.msg[m].it = "end"
               /\ d = SetFinishedSending(skipped, t)
            \/ d = SetFinishedSending(failing, t)
            \/ sent.msg[m].it = "end" /\ d = SetFinishedSending(sent, t)
            \/ d = sent
  <2>1. d =
          (CASE c.msg[m].state # "COMPLETE" \/ HeldBack(c) -> c
             [] OTHER ->
                  CASE skipped.msg[m].it = "end" ->
                         SetFinishedSending(skipped, t)
                    [] /\ skipped.msg[m].it # "end"
                       /\ o.failed \/ ~HasRoom(c, t) ->
                         SetFinishedSending(failing, t)
                    [] OTHER -> IF sent.msg[m].it = "end"
                                THEN SetFinishedSending(sent, t) ELSE sent)
    BY Zenon DEF SendMsg
  <2> HIDE DEF d, sent, skipped, failing
  <2> QED BY <2>1
<1> HIDE DEF d
<1>2. CASE d = c
  BY <1>2, UntouchedReflexive, SameMessagesAdvanced DEF Sent, d
<1>3. CASE c.msg[m].state = "COMPLETE" /\ ~HeldBack(c) /\ d # c
  <2> DEFINE Sending(e) ==
               /\ Advanced(c, e, m) /\ e.clientState = c.clientState
               /\ e.errorCode = 0 => c.errorCode = 0
               /\ e.hist.rawSent => c.hist.rawSent \/ SendsRaw(c, t, m)
  <2>1. Sending(skipped)
    BY AdvanceIteratorEffect, UntouchedReflexive, SameMessagesAdvanced
       DEF Untouched, SameOutcome
  <2>2. Sending(trying)
    <3> HIDE DEF skipped
    <3>1. skipped \in ClientRec /\ f \in BOOLEAN /\ r \in BOOLEAN
      BY <2>1 DEF Advanced, Kept
    <3> HIDE DEF f
    <3>2. /\ Kept(skipped, trying) /\ trying.msg = skipped.msg
          /\ SameOutcome(skipped, trying) /\ trying.hist.rawSent = r
      <4> HIDE DEF r
      <4> DEFINE h == [skipped.hist EXCEPT !.fullSend = f, !.rawSent = r]
      <4>1. /\ h \in History /\ h.rawSent = r
            /\ h.earlySideEffect = skipped.hist.earlySideEffect
            /\ skipped.hist.cut => h.cut
        BY <3>1 DEF ClientRec, History
      <4>2. trying = [skipped EXCEPT !.hist = h]
        BY Zenon
      <4> HIDE DEF h, trying
      <4> QED BY <3>1, <4>1, <4>2, HistorySetKept
    <3> HIDE DEF trying
    <3>3. Advanced(skipped, trying, m)
      BY <3>2 DEF Advanced, OtherMessages, SameButPosition
    <3>4. Advanced(c, trying, m)
      BY <2>1, <3>3, AdvancedTransitive
    <3>5. trying.hist.rawSent => c.hist.rawSent \/ SendsRaw(c, t, m)
      BY <1>3, <2>1, <3>2 DEF SendsRaw
    <3> QED BY <2>1, <3>2, <3>4, <3>5 DEF SameOutcome
  <2> HIDE DEF trying
  <2>3. Sending(failing) /\ failing.errorCode # 0
    <3>1. /\ SameMessages(trying, failing) /\ failing.errorCode = 500
          /\ failing.clientState = trying.clientState
      BY <2>2, SetErrorCodeUntouched DEF Advanced, Kept, ErrorCodes
    <3> HIDE DEF failing
    <3>2. Advanced(c, failing, m)
      BY <2>2, <3>1, SameMessagesAdvanced, AdvancedTransitive
    <3> QED BY <2>2, <3>1, <3>2 DEF SameMessages, Untouched
  <2>4. Sending(went)
    <3>1. trying \in ClientRec
      BY <2>2 DEF Advanced, Kept
    <3> DEFINE a == AdvanceIterator(trying, m)
    <3>2. /\ Untouched(trying, a) /\ SameOutcome(trying, a)
          /\ Advanced(trying, a, m)
      BY <3>1, AdvanceIteratorEffect
    <3> HIDE DEF a
    <3>3. Advanced(c, a, m)
      BY <2>2, <3>2, AdvancedTransitive
    <3>4. Sending(a)
      BY <2>2, <3>2, <3>3 DEF Untouched, SameOutcome
    <3> QED BY <2>2, <3>4 DEF a
  <2> HIDE DEF went
  <2>5. Sending(sent)
    <3>1. SameMessages(went, sent) /\ SameOutcome(went, sent)
      BY <2>4, PutBytesUntouched DEF Advanced, Kept
    <3> HIDE DEF sent
    <3>2. Advanced(c, sent, m)
      BY <2>4, <3>1, SameMessagesAdvanced, AdvancedTransitive
    <3> QED BY <2>4, <3>1, <3>2 DEF SameMessages, Untouched, SameOutcome
  <2> HIDE DEF sent, skipped, failing
  <2>6. \A e : Sending(e) /\ (e.errorCode # 0 \/ e.msg[m].it = "end") =>
                 Sent(c, SetFinishedSending(e, t), t, m)
    BY SendingEnds
  <2>7. Sent(c, sent, t, m)
    BY <2>5 DEF Sent
  <2>8. Sent(c, d, t, m)
    BY <1>1, <1>3, <2>1, <2>3, <2>5, <2>6, <2>7
  <2> QED BY <2>8 DEF d
<1> QED BY <1>1, <1>2, <1>3

-----------------------------------------------------------------------------
(* What holds of a client between two steps, part by part.                 *)

(* A client that works for a script is a CGI request, its two child        *)
(* descriptors come and go together, before DO_CGISEND it has none, and it *)
(* gets them in that state.                                                *)
Connected(c) ==
  /\ c.clientState # RESETME
  /\ HasOutput(c) <=> HasChildFds(c)
  /\ c.waitReturn # 0 => HasChildFds(c)
  /\ HasChildFds(c) => c.clientState >= DO_CGISEND
  /\ c.clientState \in {DO_CGISEND, DO_CGIREC} => c.cgiFlag
  /\ c.cgiFlag => c.clientState >= DO_CGISEND
  /\ Unstarted(c) => c.clientState = DO_CGISEND

(* A complete header was parsed, unless there was no memory for it; so was *)
(* that of CGI output which is going to be converted.                      *)
HeadersKept(c) ==
  /\ c.msg["REQ_MSG"].head = "complete" =>
       c.msg["REQ_MSG"].header \/ c.clientState = DELETEME
  /\ c.cgiFlag /\ c.clientState = DO_RESPONSE =>
       \/ c.errorCode # 0 \/ TimedOut(c)
       \/ c.msg["RESP_MSG"].header

(* Output is read once the request was passed on.                          *)
BodySent(c) == c.clientState = DO_CGIREC => c.msg["REQ_MSG"].it = "end"

(* Without an error the child that was waited for ended with status 0.     *)
EndedWell(c) ==
  /\ c.cgiFlag /\ c.waitReturn # 0 /\ c.errorCode = 0 => c.proc = "reaped0"
  /\ c.msg["RESP_MSG"].kind = "cgi" =>
       c.proc = "reaped0" /\ ~c.cgiFlag /\ c.clientState >= DO_RESPONSE

(* Output that does not delimit itself was read to its end, and a complete *)
(* message of raw bytes is held back.                                      *)
OutputRead(c) ==
  /\ c.cgiFlag /\ c.clientState = DO_RESPONSE => Drained(c) \/ TimedOut(c)
  /\ c.msg["RESP_MSG"].kind = "cgi" => ~c.fromChild

OutputHeld(c) ==
  /\ c.clientState < DO_RESPONSE => c.msg["RESP_MSG"].state = "INCOMPLETE"
  /\ /\ c.clientState = DO_RESPONSE /\ c.msg["RESP_MSG"].state = "COMPLETE"
     /\ c.msg["RESP_MSG"].kind = "raw"
     => HeldBack(c)
  /\ ~c.hist.rawSent

(* A client that is not refused goes past DO_REQUEST with its request      *)
(* complete, whole or cut short by the peer.                               *)
WholeFirst(c) ==
  /\ c.cgiFlag => c.msg["REQ_MSG"].state = "COMPLETE"
  /\ c.errorCode = 0 /\ c.clientState \in DO_CGISEND..DO_RESPONSE =>
       c.msg["REQ_MSG"].state = "COMPLETE"
  /\ c.hist.earlySideEffect => c.hist.cut

Sound(c) ==
  /\ Connected(c) /\ HeadersKept(c) /\ BodySent(c) /\ EndedWell(c)
  /\ ~CgiFrames => OutputRead(c) /\ OutputHeld(c)
  /\ flag = 0 => WholeFirst(c)

-----------------------------------------------------------------------------
(* Io.                                                                     *)

(* d is c after its request was received further.                          *)
RequestReceived(c, d) ==
  /\ Untouched(c, d) /\ OtherMessages(c, d, "REQ_MSG")
  /\ d.errorCode = 0 => c.errorCode = 0
  /\ \/ d.clientState = DELETEME
     \/ /\ \/ d.clientState = DO_REQUEST
           \/ d.clientState = DO_RESPONSE /\ d.errorCode # 0
        /\ d.msg["REQ_MSG"].head = "complete" => d.msg["REQ_MSG"].header

LEMMA RequestReceivedSound ==
  ASSUME NEW c \in ClientRec, Sound(c), c.clientState = DO_REQUEST, ~c.cgiFlag,
         NEW d, RequestReceived(c, d)
  PROVE  Sound(d)
<1>1. d.msg["RESP_MSG"] = c.msg["RESP_MSG"]
  BY DEF RequestReceived, OtherMessages, MsgTypes
<1>2. Connected(d)
  BY StatesOrdered DEF Sound, Connected, Unstarted, RequestReceived,
                       Untouched, Kept
<1>3. HeadersKept(d) /\ BodySent(d) /\ EndedWell(d)
  BY <1>1, StatesOrdered
     DEF Sound, HeadersKept, BodySent, EndedWell, RequestReceived, Untouched,
         Kept
<1>4. ~CgiFrames => OutputRead(d) /\ OutputHeld(d)
  BY <1>1, StatesOrdered
     DEF Sound, OutputRead, OutputHeld, RequestReceived, Untouched, Kept,
         EndedWell
<1>5. flag = 0 => WholeFirst(d)
  BY <1>1, StatesOrdered
     DEF Sound, WholeFirst, RequestReceived, Untouched, Kept
<1> QED BY <1>2, <1>3, <1>4, <1>5 DEF Sound

LEMMA CheckHeaderEffect ==
  ASSUME NEW c \in ClientRec, NEW o, Outcome(o),
         NEW b \in ClientRec, RequestReceived(b, c),
         c.clientState # DO_RESPONSE
  PROVE  RequestReceived(b,
           CheckHeaderBeforeComplete(c, "CLIENT_FD", "REQ_MSG", o))
<1> DEFINE s == SetClientState(c, DO_RESPONSE)
           e == SetErrorCode(s, 400)
           f == SetFinishedReceiving(e, "CLIENT_FD", "REQ_MSG", o)
           d == CheckHeaderBeforeComplete(c, "CLIENT_FD", "REQ_MSG", o)
<1>1. d = IF c.clientState = DO_REQUEST /\ c.msg["REQ_MSG"].head = "bad"
          THEN f ELSE c
  BY Zenon DEF CheckHeaderBeforeComplete
<1>2. CASE d = c
  BY <1>2
<1>3. CASE c.clientState = DO_REQUEST /\ d = f
  <2> HIDE DEF d
  <2>1. SameMessages(c, s) /\ s.clientState = DO_RESPONSE
    BY <1>3, SetClientStateUntouched, StatesOrdered
  <2> HIDE DEF s
  <2>2. /\ SameMessages(s, e) /\ e.clientState = DO_RESPONSE
        /\ e.errorCode = 400
    BY <2>1, SetErrorCodeUntouched
       DEF SameMessages, Untouched, Kept, ErrorCodes
  <2> HIDE DEF e
  <2>3. Finished(e, f, "CLIENT_FD", "REQ_MSG")
    BY <2>2, SetFinishedReceivingEffect, StatesOrdered
       DEF SameMessages, Untouched, Kept, Present, FdTypes, MsgTypes, Outcome
  <2> HIDE DEF f
  <2>4. Untouched(b, f) /\ c.msg = e.msg
    BY <2>1, <2>2, <2>3, UntouchedTransitive
       DEF SameMessages, Finished, RequestReceived
  <2>5. RequestReceived(b, f)
    BY <2>2, <2>3, <2>4
       DEF Finished, RequestReceived, OtherMessages
  <2> QED BY <1>3, <2>5 DEF d
<1> QED BY <1>1, <1>2, <1>3

LEMMA IoRequestSound ==
  ASSUME NEW c \in ClientRec, Sound(c), c.clientState = DO_REQUEST, ~c.cgiFlag,
         NEW o \in IoOutcomes(c)
  PROVE  Sound(IoClient(c, o))
<1> DEFINE rest(x) == CheckHeaderBeforeComplete(x, "CLIENT_FD", "REQ_MSG", o)
           e == ReceiveMsg(c, "CLIENT_FD", "REQ_MSG", o)
<1>1. /\ FdDataByType(c, FdTypeOf(c)) = "CLIENT_FD" /\ MsgOf(c) = "REQ_MSG"
      /\ ~Sends(c)
  BY StatesOrdered DEF FdDataByType, FdTypeOf, MsgOf, Sends
<1>2. IoClient(c, o) = IF Receives(c) THEN rest(e) ELSE rest(c)
  <2> HIDE DEF rest, e
  <2>1. c.clientState \notin {DELETEME, CRITICAL_ERROR, RESETME}
    BY StatesOrdered
  <2> QED BY <1>1, <2>1 DEF IoClient, rest, e
<1>3. RequestReceived(c, c)
  BY UntouchedReflexive, StatesOrdered
     DEF RequestReceived, OtherMessages, Sound, HeadersKept
<1>4. CASE Receives(c)
  <2>1. /\ Outcome(o) /\ o.parse \in ParseResult /\ o.more \in BOOLEAN
    BY <1>1, <1>4, OutcomeTypes DEF IoOutcomes
  <2>2. Received(c, e, "CLIENT_FD", "REQ_MSG", o)
    BY <2>1, ReceiveMsgEffect DEF Present, FdTypes, MsgTypes
  <2> HIDE DEF e
  <2>3. RequestReceived(c, e) /\ e.clientState # DO_RESPONSE
    BY <1>3, <2>2, StatesOrdered DEF Received, RequestReceived
  <2>4. RequestReceived(c, rest(e))
    BY <2>1, <2>3, CheckHeaderEffect DEF RequestReceived, Untouched, Kept
  <2> HIDE DEF rest
  <2> QED BY <1>2, <1>4, <2>4, RequestReceivedSound
<1>5. CASE ~Receives(c)
  <2>1. Outcome(o)
    BY <1>1, <1>5, OutcomeTypes DEF IoOutcomes
  <2>2. RequestReceived(c, rest(c))
    BY <1>3, <2>1, CheckHeaderEffect, StatesOrdered
  <2> HIDE DEF rest
  <2> QED BY <1>2, <1>5, <2>2, RequestReceivedSound
<1> QED BY <1>4, <1>5

(* A client whose state says that its script's output is being read reads  *)
(* it from the script's descriptor.                                        *)
LEMMA IoOutputSound ==
  ASSUME NEW c \in ClientRec, Sound(c), c.clientState = DO_CGIREC,
         HasChildFds(c), NEW o \in IoOutcomes(c)
  PROVE  Sound(IoClient(c, o))
<1> DEFINE t == "FROMCHILD_FD"
           e == ReceiveMsg(c, t, "RESP_MSG", o)
           d == IoClient(c, o)
<1>1. /\ FdDataByType(c, FdTypeOf(c)) = t /\ MsgOf(c) = "RESP_MSG"
      /\ ~Sends(c) /\ Present(c, t)
  BY StatesOrdered
     DEF FdDataByType, FdTypeOf, MsgOf, Sends, Sound, Connected, HasOutput,
         Present, FdTypes
<1>2. \A x : x.clientState # DO_REQUEST =>
               CheckHeaderBeforeComplete(x, t, "RESP_MSG", o) = x
  BY DEF CheckHeaderBeforeComplete
<1>3. CASE ~Receives(c)
  <2>1. d = c
    BY <1>1, <1>2, <1>3, StatesOrdered DEF IoClient
  <2> QED BY <2>1
<1>4. CASE Receives(c)
  <2>1. o \in RecvOutcomes(c, t, "RESP_MSG")
    BY <1>1, <1>4 DEF IoOutcomes
  <2>2. /\ Outcome(o) /\ o.parse \in ParseResult /\ o.more \in BOOLEAN
    BY <2>1, OutcomeTypes
  <2>3. Received(c, e, t, "RESP_MSG", o)
    BY <1>1, <2>2, ReceiveMsgEffect DEF MsgTypes
  <2> HIDE DEF e
  <2>4. /\ e.clientState \in {DO_CGIREC, DO_RESPONSE, CRITICAL_ERROR, DELETEME}
        /\ e.clientState = DO_RESPONSE =>
             /\ c.waitReturn # 0 /\ e.msg["RESP_MSG"].header
             /\ Drained(e) \/ ~Open(c, "RESP_MSG", o)
        /\ e.clientState = DO_CGIREC /\ Open(c, "RESP_MSG", o) =>
             e.msg["RESP_MSG"].state = "INCOMPLETE"
    BY <2>3, StatesOrdered
       DEF Received, StateAfter, AwaitsChild, Sound, Connected
  <2>5. d = e
    <3>1. d = CheckHeaderBeforeComplete(e, t, "RESP_MSG", o)
      BY <1>1, <1>4, StatesOrdered DEF IoClient, e
    <3> QED BY <1>2, <2>4, <3>1, StatesOrdered
  <2> HIDE DEF d
  <2>6. /\ Untouched(c, e) /\ e.msg["REQ_MSG"] = c.msg["REQ_MSG"]
        /\ e.errorCode = 0 => c.errorCode = 0
        /\ e.msg["RESP_MSG"].kind = c.msg["RESP_MSG"].kind
    BY <2>3 DEF Received, OtherMessages, MsgTypes
  <2>7. ~CgiFrames => Open(c, "RESP_MSG", o)
    <3>1. o.parse.state # "INCOMPLETE" => CgiFrames
      <4>1. \/ o.parse \in Parsed(c.msg["RESP_MSG"], "RESP_MSG")
            \/ o.parse = NoBytes
        BY <2>1 DEF RecvOutcomes
      <4>2. NoBytes.state = "INCOMPLETE"
        BY DEF NoBytes
      <4> QED BY <4>1, <4>2 DEF Parsed
    <3> QED BY <3>1, StatesOrdered DEF Open, Sound, OutputHeld
  <2>8. Connected(e) /\ HeadersKept(e) /\ BodySent(e) /\ EndedWell(e)
    BY <2>4, <2>6, StatesOrdered
       DEF Sound, Connected, Unstarted, HeadersKept, BodySent, EndedWell,
           Untouched, Kept
  <2>9. ~CgiFrames => OutputRead(e) /\ OutputHeld(e)
    BY <2>4, <2>6, <2>7, StatesOrdered
       DEF Sound, Connected, Unstarted, OutputRead, OutputHeld, HeldBack,
           Untouched, Kept, EndedWell
  <2>10. flag = 0 => WholeFirst(e)
    BY <2>4, <2>6, StatesOrdered
       DEF Sound, Connected, Unstarted, WholeFirst, Untouched, Kept
  <2> QED BY <2>5, <2>8, <2>9, <2>10 DEF Sound, d
<1> QED BY <1>3, <1>4 DEF d

(* The request is sent on to the script's descriptor.                      *)
LEMMA IoPassOnSound ==
  ASSUME NEW c \in ClientRec, Sound(c), c.clientState = DO_CGISEND,
         HasChildFds(c), NEW o
  PROVE  Sound(IoClient(c, o))
<1> DEFINE t == "TOCHILD_FD"
           e == SendMsg(c, t, "REQ_MSG", o)
           d == IoClient(c, o)
<1>1. /\ FdDataByType(c, FdTypeOf(c)) = t /\ MsgOf(c) = "REQ_MSG"
      /\ ~Receives(c) /\ Present(c, t) /\ c.clientState # RESETME
  BY StatesOrdered
     DEF FdDataByType, FdTypeOf, MsgOf, Receives, HasChildFds, Present,
         FdTypes
<1>2. d = IF Sends(c) THEN e ELSE c
  <2>1. d = IF Sends(c) THEN e
            ELSE CheckHeaderBeforeComplete(c, t, "REQ_MSG", o)
    <3> HIDE DEF e
    <3> QED BY <1>1, StatesOrdered DEF IoClient, e
  <2>2. CheckHeaderBeforeComplete(c, t, "REQ_MSG", o) = c
    BY StatesOrdered DEF CheckHeaderBeforeComplete
  <2> HIDE DEF d, e
  <2> QED BY <2>1, <2>2
<1>3. Sent(c, e, t, "REQ_MSG")
  BY <1>1, SendMsgEffect DEF MsgTypes
<1> HIDE DEF e, d
<1>4. /\ Kept(c, e) /\ e.msg["RESP_MSG"] = c.msg["RESP_MSG"]
      /\ SameButPosition(c.msg["REQ_MSG"], e.msg["REQ_MSG"])
      /\ e.errorCode = 0 => c.errorCode = 0
      /\ e.hist.rawSent => c.hist.rawSent
      /\ \/ e.clientState = DO_CGISEND
         \/ e.clientState = DO_CGIREC /\ e.msg["REQ_MSG"].it = "end"
  BY <1>3, StatesOrdered
     DEF Sent, Advanced, OtherMessages, MsgTypes, SendsRaw, StateAfter
<1>5. Connected(e) /\ HeadersKept(e) /\ BodySent(e) /\ EndedWell(e)
  BY <1>4, StatesOrdered
     DEF Sound, Connected, Unstarted, HeadersKept, BodySent, EndedWell, Kept,
         SameButPosition
<1>6. ~CgiFrames => OutputRead(e) /\ OutputHeld(e)
  BY <1>4, StatesOrdered
     DEF Sound, Connected, Unstarted, OutputRead, OutputHeld, Kept, EndedWell
<1>7. flag = 0 => WholeFirst(e)
  BY <1>4, StatesOrdered DEF Sound, WholeFirst, Kept, SameButPosition
<1> QED BY <1>2, <1>5, <1>6, <1>7 DEF Sound, d

(* The response is sent to the peer.                                       *)
LEMMA IoRespondSound ==
  ASSUME NEW c \in ClientRec, Sound(c), c.clientState = DO_RESPONSE, NEW o
  PROVE  LET d == IoClient(c, o) IN
           /\ Sound(d)
           /\ SameButPosition(c.msg["RESP_MSG"], d.msg["RESP_MSG"])
<1> DEFINE t == "CLIENT_FD"
           e == SendMsg(c, t, "RESP_MSG", o)
           d == IoClient(c, o)
<1>1. /\ FdDataByType(c, FdTypeOf(c)) = t /\ MsgOf(c) = "RESP_MSG"
      /\ ~Receives(c) /\ Present(c, t) /\ c.clientState # RESETME
  BY StatesOrdered
     DEF FdDataByType, FdTypeOf, MsgOf, Receives, Present, FdTypes
<1>2. d = IF Sends(c) THEN e ELSE c
  <2>1. d = IF Sends(c) THEN e
            ELSE CheckHeaderBeforeComplete(c, t, "RESP_MSG", o)
    <3> HIDE DEF e
    <3> QED BY <1>1, StatesOrdered DEF IoClient, e
  <2>2. CheckHeaderBeforeComplete(c, t, "RESP_MSG", o) = c
    BY StatesOrdered DEF CheckHeaderBeforeComplete
  <2> HIDE DEF d, e
  <2> QED BY <2>1, <2>2
<1>3. Sent(c, e, t, "RESP_MSG")
  BY <1>1, SendMsgEffect DEF MsgTypes
<1> HIDE DEF e, d
<1>4. /\ Kept(c, e) /\ e.msg["REQ_MSG"] = c.msg["REQ_MSG"]
      /\ SameButPosition(c.msg["RESP_MSG"], e.msg["RESP_MSG"])
      /\ e.errorCode = 0 => c.errorCode = 0
      /\ e.hist.rawSent => c.hist.rawSent \/ SendsRaw(c, t, "RESP_MSG")
      /\ e.clientState = DO_RESPONSE \/ e.clientState = DELETEME
  BY <1>3, StatesOrdered
     DEF Sent, Advanced, OtherMessages, MsgTypes
<1>5. Connected(e) /\ HeadersKept(e) /\ BodySent(e) /\ EndedWell(e)
  BY <1>4, StatesOrdered
     DEF Sound, Connected, Unstarted, HeadersKept, BodySent, EndedWell, Kept,
         SameButPosition, TimedOut
<1>6. ~CgiFrames => OutputRead(e) /\ OutputHeld(e)
  BY <1>4, StatesOrdered
     DEF Sound, Connected, Unstarted, OutputRead, OutputHeld, HeldBack, Kept,
         EndedWell, SendsRaw, SameButPosition, Drained, TimedOut
<1>7. flag = 0 => WholeFirst(e)
  BY <1>4, StatesOrdered DEF Sound, WholeFirst, Kept, SameButPosition
<1>8. SameButPosition(c.msg["RESP_MSG"], c.msg["RESP_MSG"])
  BY DEF SameButPosition
<1> QED BY <1>2, <1>4, <1>5, <1>6, <1>7, <1>8 DEF Sound, d

(* One visit of Io.                                                        *)
LEMMA IoClientSound ==
  ASSUME NEW c \in ClientRec, Sound(c), ~Unstarted(c), NEW o \in IoOutcomes(c)
  PROVE  LET d == IoClient(c, o) IN
           /\ Sound(d)
           /\ c.clientState >= DO_RESPONSE =>
                SameButPosition(c.msg["RESP_MSG"], d.msg["RESP_MSG"])
<1>1. CASE c.clientState = DO_REQUEST
  <2>1. ~c.cgiFlag
    BY <1>1, StatesOrdered DEF Sound, Connected, Unstarted
  <2> QED BY <1>1, <2>1, IoRequestSound, StatesOrdered
<1>2. CASE c.clientState \in {DO_CGISEND, DO_CGIREC}
  <2>1. HasChildFds(c)
    BY <1>2 DEF Sound, Connected, Unstarted
  <2> QED BY <1>2, <2>1, IoPassOnSound, IoOutputSound, StatesOrdered
<1>3. CASE c.clientState = DO_RESPONSE
  BY <1>3, IoRespondSound
<1>4. CASE c.clientState \in {CRITICAL_ERROR, DELETEME}
  <2> DEFINE d == IoClient(c, o)
  <2>1. d = IF c.clientState = DELETEME THEN c ELSE SetClientState(c, DELETEME)
    <3>1. ~Receives(c) /\ ~Sends(c)
      BY <1>4, StatesOrdered DEF Receives, Sends
    <3> QED BY <1>4, <3>1, StatesOrdered DEF IoClient
  <2> HIDE DEF d
  <2>2. /\ SameMessages(c, d) /\ d.errorCode = c.errorCode
        /\ d.clientState = DELETEME
    BY <1>4, <2>1, SetClientStateUntouched, UntouchedReflexive, StatesOrdered
  <2>3. Connected(d) /\ HeadersKept(d) /\ BodySent(d) /\ EndedWell(d)
    BY <1>4, <2>2, StatesOrdered
       DEF Sound, Connected, Unstarted, HeadersKept, BodySent, EndedWell,
           SameMessages, Untouched, Kept
  <2>4. ~CgiFrames => OutputRead(d) /\ OutputHeld(d)
    BY <1>4, <2>2, StatesOrdered
       DEF Sound, OutputRead, OutputHeld, SameMessages, Untouched, Kept
  <2>5. flag = 0 => WholeFirst(d)
    BY <1>4, <2>2, StatesOrdered
       DEF Sound, WholeFirst, SameMessages, Untouched, Kept
  <2>6. SameButPosition(c.msg["RESP_MSG"], d.msg["RESP_MSG"])
    BY <2>2 DEF SameMessages, SameButPosition
  <2> QED BY <2>3, <2>4, <2>5, <2>6 DEF Sound, d
<1>5. c.clientState \in 0..5
  BY StatesOrdered DEF ClientRec, Sound, Connected
<1> QED BY <1>1, <1>2, <1>3, <1>4, <1>5, StatesOrdered

-----------------------------------------------------------------------------
(* ServerManager.                                                          *)

(* d is c looked at by the server manager, and refused if it is answered.  *)
Refused(c, d) ==
  /\ SameMessages(c, d)
  /\ d.errorCode = 0 => c.errorCode = 0
  /\ \/ d.clientState = c.clientState
     \/ d.errorCode # 0 /\ d.clientState = StateAfter(c, DO_RESPONSE)

LEMMA RefusedReflexive ==
  ASSUME NEW c \in ClientRec
  PROVE  Refused(c, c)
BY UntouchedReflexive DEF Refused

LEMMA RefusedTransitive ==
  ASSUME NEW c \in ClientRec, NEW d, NEW e, Refused(c, d), Refused(d, e)
  PROVE  Refused(c, e)
BY UntouchedTransitive, StatesOrdered DEF Refused, StateAfter, ClientRec

LEMMA RefusedSound ==
  ASSUME NEW c \in ClientRec, Sound(c), ~Unstarted(c), NEW d, Refused(c, d)
  PROVE  Sound(d)
<1>1. c.clientState \in 0..5
  BY StatesOrdered DEF ClientRec, Sound, Connected
<1>2. Connected(d)
  BY <1>1, StatesOrdered
     DEF Sound, Connected, Unstarted, Refused, SameMessages, Untouched, Kept,
         StateAfter
<1>3. HeadersKept(d) /\ BodySent(d) /\ EndedWell(d)
  BY <1>1, StatesOrdered
     DEF Sound, HeadersKept, BodySent, EndedWell, Refused, SameMessages,
         Untouched, Kept, StateAfter, TimedOut
<1>4. ~CgiFrames => OutputRead(d) /\ OutputHeld(d)
  BY <1>1, StatesOrdered
     DEF Sound, OutputRead, OutputHeld, HeldBack, Refused, SameMessages,
         Untouched, Kept, StateAfter, TimedOut, Drained
<1>5. flag = 0 => WholeFirst(d)
  BY <1>1, StatesOrdered
     DEF Sound, WholeFirst, Refused, SameMessages, Untouched, Kept, StateAfter
<1> QED BY <1>2, <1>3, <1>4, <1>5 DEF Sound

LEMMA MarksUntouched ==
  ASSUME NEW c \in ClientRec
  PROVE  /\ SameMessages(c, [c EXCEPT !.virtualServer = TRUE])
         /\ SameOutcome(c, [c EXCEPT !.virtualServer = TRUE])
         /\ SameMessages(c, [c EXCEPT !.isRequestChecked = TRUE])
         /\ SameOutcome(c, [c EXCEPT !.isRequestChecked = TRUE])
BY DEF ClientRec, SameMessages, Untouched, Kept, HasChildFds, HasOutput,
       SameOutcome

(* Refusing a client: an error code, then DO_RESPONSE or not yet.          *)
LEMMA ErrorRefused ==
  ASSUME NEW c \in ClientRec, NEW e \in ErrorCodes \ {0}
  PROVE  Refused(c, SetErrorCode(c, e))
BY SetErrorCodeUntouched DEF Refused

LEMMA StateRefused ==
  ASSUME NEW c \in ClientRec, c.errorCode # 0
  PROVE  Refused(c, SetClientState(c, DO_RESPONSE))
BY SetClientStateUntouched, StatesOrdered DEF Refused, StateAfter

LEMMA AssignVirtualServerRefused ==
  ASSUME NEW c \in ClientRec, NEW q
  PROVE  Refused(c, AssignVirtualServer(c, q))
<1> DEFINE d == [c EXCEPT !.virtualServer = TRUE]
<1>1. Refused(c, d) /\ d \in ClientRec
  BY MarksUntouched DEF Refused, SameOutcome, SameMessages, Untouched, Kept
<1>2. AssignVirtualServer(c, q) \in
        {c, d, SetErrorCode(d, 400), SetErrorCode(d, 500)}
  <2> HIDE DEF d
  <2> QED BY DEF AssignVirtualServer, d
<1> HIDE DEF d
<1>3. Refused(d, SetErrorCode(d, 400)) /\ Refused(d, SetErrorCode(d, 500))
  BY <1>1, ErrorRefused DEF ErrorCodes
<1>4. Refused(c, SetErrorCode(d, 400)) /\ Refused(c, SetErrorCode(d, 500))
  BY <1>1, <1>3, RefusedTransitive
<1> QED BY <1>1, <1>2, <1>4, RefusedReflexive

LEMMA CheckIfRequestAllowedRefused ==
  ASSUME NEW c \in ClientRec, NEW q
  PROVE  Refused(c, CheckIfRequestAllowed(c, q))
<1> DEFINE d == CASE c.errorCode # 0 \/ q.allowed = "yes" -> c
                  [] c.errorCode = 0 /\ q.allowed = "refused" ->
                       SetErrorCode(c, 403)
                  [] OTHER -> SetErrorCode(c, 400)
           e == IF d.errorCode = 0 THEN d ELSE SetClientState(d, DO_RESPONSE)
           f == [e EXCEPT !.isRequestChecked = TRUE]
<1>1. Refused(c, d)
  <2>1. Refused(c, SetErrorCode(c, 403)) /\ Refused(c, SetErrorCode(c, 400))
        /\ Refused(c, c)
    BY ErrorRefused, RefusedReflexive DEF ErrorCodes
  <2> QED BY <2>1
<1> HIDE DEF d
<1>2. Refused(c, e)
  BY <1>1, StateRefused, RefusedTransitive
     DEF Refused, SameMessages, Untouched, Kept
<1> HIDE DEF e
<1>3. Refused(e, f)
  BY <1>2, MarksUntouched
     DEF Refused, SameOutcome, SameMessages, Untouched, Kept
<1>4. CheckIfRequestAllowed(c, q) \in {c, f}
  BY Zenon DEF CheckIfRequestAllowed, d, e
<1> HIDE DEF f
<1> QED BY <1>2, <1>3, <1>4, RefusedReflexive, RefusedTransitive

LEMMA CheckBodySizeLimitRefused ==
  ASSUME NEW c \in ClientRec, NEW q
  PROVE  Refused(c, CheckBodySizeLimit(c, q))
<1> DEFINE e == SetErrorCode(c, 403)
           r == SetClientState(e, DO_RESPONSE)
<1>1. /\ Refused(c, e) /\ e \in ClientRec /\ e.errorCode # 0
  <2>1. 403 \in ErrorCodes \ {0}
    BY DEF ErrorCodes
  <2> QED BY <2>1, ErrorRefused, SetErrorCodeUntouched
          DEF SameMessages, Untouched, Kept
<1> HIDE DEF e
<1>2. Refused(c, r)
  BY <1>1, StateRefused, RefusedTransitive
<1> HIDE DEF r
<1>3. \/ CheckBodySizeLimit(c, q) \in {c, r}
      \/ /\ c.errorCode # 0
         /\ CheckBodySizeLimit(c, q) = SetClientState(c, DO_RESPONSE)
  BY DEF CheckBodySizeLimit, e, r
<1> QED BY <1>2, <1>3, RefusedReflexive, StateRefused

(* d is c but for its answer: the flag of a CGI request, the response and  *)
(* the state.                                                              *)
Answering(c, d) ==
  /\ d \in ClientRec
  /\ d.waitReturn = c.waitReturn
  /\ d.proc = c.proc
  /\ d.age = c.age
  /\ d.fromChild => c.fromChild
  /\ d.errorCode = c.errorCode
  /\ HasChildFds(d) <=> HasChildFds(c)
  /\ HasOutput(d) <=> HasOutput(c)
  /\ d.hist.rawSent = c.hist.rawSent
  /\ c.hist.cut => d.hist.cut
  /\ d.msg["REQ_MSG"] = c.msg["REQ_MSG"]

LEMMA CgiFlagUpdate ==
  ASSUME NEW c \in ClientRec, NEW b \in BOOLEAN
  PROVE  LET d == [c EXCEPT !.cgiFlag = b] IN
           /\ Answering(c, d) /\ d.cgiFlag = b /\ d.msg = c.msg
           /\ d.clientState = c.clientState
           /\ d.hist = c.hist
BY DEF ClientRec, Answering, HasChildFds, HasOutput

(* d is c once its whole request was found to be for a script.             *)
ForScript(c, d) ==
  /\ c.clientState = DO_REQUEST /\ c.msg["REQ_MSG"].state = "COMPLETE"
  /\ d \in ClientRec /\ d.cgiFlag /\ d.clientState = DO_CGISEND
  /\ d.msg = c.msg
  /\ d.hist.rawSent = c.hist.rawSent
  /\ d.hist.earlySideEffect = c.hist.earlySideEffect
  /\ c.hist.cut => d.hist.cut
  /\ d.waitReturn = c.waitReturn /\ d.proc = c.proc
  /\ d.errorCode = 0 => c.errorCode = 0
  /\ HasChildFds(d) <=> HasChildFds(c)
  /\ HasOutput(d) <=> HasOutput(c)

LEMMA ForScriptSound ==
  ASSUME NEW c \in ClientRec, Sound(c), NEW d, ForScript(c, d)
  PROVE  Sound(d)
<1>1. Connected(d) /\ HeadersKept(d) /\ BodySent(d) /\ EndedWell(d)
  BY StatesOrdered
     DEF Sound, Connected, Unstarted, HeadersKept, BodySent, EndedWell,
         ForScript
<1>2. ~CgiFrames => OutputRead(d) /\ OutputHeld(d)
  BY StatesOrdered DEF Sound, OutputRead, OutputHeld, ForScript, EndedWell
<1>3. flag = 0 => WholeFirst(d)
  BY StatesOrdered DEF Sound, WholeFirst, ForScript
<1> QED BY <1>1, <1>2, <1>3 DEF Sound

(* d is c once its whole request was found to be answered by the server.   *)
ForServer(c, d) ==
  /\ c.clientState = DO_REQUEST /\ c.msg["REQ_MSG"].state = "COMPLETE"
  /\ SameMessages(c, d) /\ d.clientState = DO_RESPONSE
  /\ d.errorCode = 0 => c.errorCode = 0

LEMMA ForServerSound ==
  ASSUME NEW c \in ClientRec, Sound(c), ~c.cgiFlag, NEW d, ForServer(c, d)
  PROVE  Sound(d)
<1>1. Connected(d) /\ HeadersKept(d) /\ BodySent(d) /\ EndedWell(d)
  BY StatesOrdered
     DEF Sound, Connected, Unstarted, HeadersKept, BodySent, EndedWell,
         ForServer, SameMessages, Untouched, Kept
<1>2. ~CgiFrames => OutputRead(d) /\ OutputHeld(d)
  BY StatesOrdered
     DEF Sound, OutputRead, OutputHeld, ForServer, SameMessages, Untouched,
         Kept, EndedWell
<1>3. flag = 0 => WholeFirst(d)
  BY StatesOrdered
     DEF Sound, WholeFirst, ForServer, SameMessages, Untouched, Kept
<1> QED BY <1>1, <1>2, <1>3 DEF Sound

LEMMA StartCgiOrRespondEffect ==
  ASSUME NEW c \in ClientRec, NEW q
  PROVE  LET d == StartCgiOrRespond(c, q) IN
           d = c \/ ForScript(c, d) \/ ForServer(c, d)
<1> DEFINE x == CASE q.cgi \in {"unsupported", "badPathInfo"} ->
                       SetErrorCode(c, 502)
                  [] q.cgi = "badExtension" -> SetErrorCode(c, 403)
                  [] OTHER -> c
           y == [x EXCEPT !.cgiFlag = TRUE]
           script == SetClientState(y, DO_CGISEND)
           server == SetClientState(x, DO_RESPONSE)
           d == StartCgiOrRespond(c, q)
<1>1. SameMessages(c, x) /\ x.clientState = c.clientState
      /\ (x.errorCode = 0 => c.errorCode = 0)
  <2>1. /\ SameMessages(c, SetErrorCode(c, 502))
        /\ SetErrorCode(c, 502).clientState = c.clientState
        /\ SetErrorCode(c, 502).errorCode = 502
        /\ SameMessages(c, SetErrorCode(c, 403))
        /\ SetErrorCode(c, 403).clientState = c.clientState
        /\ SetErrorCode(c, 403).errorCode = 403
        /\ SameMessages(c, c)
    BY SetErrorCodeUntouched, UntouchedReflexive DEF ErrorCodes
  <2>2. x \in {SetErrorCode(c, 502), SetErrorCode(c, 403), c}
    OBVIOUS
  <2> HIDE DEF x
  <2> QED BY <2>1, <2>2
<1>2. \/ d = c
      \/ /\ c.clientState = DO_REQUEST /\ c.msg["REQ_MSG"].state = "COMPLETE"
         /\ d = script \/ d = server
  <2>1. d =
          (CASE ~(/\ c.clientState = DO_REQUEST
                  /\ c.msg["REQ_MSG"].state = "COMPLETE") -> c
             [] /\ c.clientState = DO_REQUEST
                /\ c.msg["REQ_MSG"].state = "COMPLETE"
                /\ q.cgi \in {"yes", "badPathInfo"} -> script
             [] OTHER -> server)
    <3> HIDE DEF x
    <3> QED BY Zenon DEF StartCgiOrRespond, x
  <2> HIDE DEF d, script, server
  <2> QED BY <2>1
<1> HIDE DEF x, d
<1>3. CASE c.clientState = DO_REQUEST /\ c.msg["REQ_MSG"].state = "COMPLETE"
           /\ d = server
  <2>1. SameMessages(x, server) /\ server.errorCode = x.errorCode
        /\ server.clientState = DO_RESPONSE
    BY <1>1, <1>3, SetClientStateUntouched, StatesOrdered
       DEF SameMessages, Untouched, Kept
  <2> HIDE DEF server
  <2>2. SameMessages(c, server)
    BY <1>1, <2>1, UntouchedTransitive
  <2>3. ForServer(c, server)
    BY <1>1, <1>3, <2>1, <2>2 DEF ForServer
  <2> QED BY <1>3, <2>3 DEF d
<1>4. CASE c.clientState = DO_REQUEST /\ c.msg["REQ_MSG"].state = "COMPLETE"
           /\ d = script
  <2>1. x \in ClientRec
    BY <1>1 DEF SameMessages, Untouched, Kept
  <2>2. /\ Answering(x, y) /\ y.cgiFlag /\ y.msg = x.msg /\ y.hist = x.hist
        /\ y.clientState = x.clientState
    BY <2>1, CgiFlagUpdate
  <2> HIDE DEF y
  <2>3. /\ script = [y EXCEPT !.clientState = DO_CGISEND]
    BY <1>1, <1>4, <2>2, StatesOrdered DEF SetClientState
  <2>4. ForScript(c, script)
    BY <1>1, <1>4, <2>1, <2>2, <2>3, StatesOrdered
       DEF ForScript, Answering, SameMessages, Untouched, Kept, ClientRec,
           HasChildFds, HasOutput
  <2> QED BY <1>4, <2>4 DEF d
<1> QED BY <1>2, <1>3, <1>4 DEF d

LEMMA AnsweringTransitive ==
  ASSUME NEW c, NEW d, NEW e, Answering(c, d), Answering(d, e)
  PROVE  Answering(c, e)
BY DEF Answering

LEMMA ResponseUpdate ==
  ASSUME NEW c \in ClientRec, NEW y \in Message
  PROVE  LET d == [c EXCEPT !.msg["RESP_MSG"] = y] IN
           /\ Answering(c, d) /\ d.cgiFlag = c.cgiFlag
           /\ d.clientState = c.clientState /\ d.hist = c.hist
           /\ d.msg["RESP_MSG"] = y
BY DEF ClientRec, Answering, HasChildFds, HasOutput, MsgTypes

LEMMA AnswerNoted ==
  ASSUME NEW c \in ClientRec, NEW h \in History, h.rawSent = c.hist.rawSent,
         c.hist.cut => h.cut
  PROVE  LET d == [c EXCEPT !.hist = h] IN
           /\ Answering(c, d) /\ d.cgiFlag = c.cgiFlag
           /\ d.clientState = c.clientState /\ d.hist = h
           /\ d.msg = c.msg
BY DEF ClientRec, Answering, HasChildFds, HasOutput

(* d is c once its answer is made, or there was no memory for it.          *)
Generated(c, d) ==
  /\ Answering(c, d) /\ ~d.cgiFlag
  /\ d.hist.earlySideEffect =>
       \/ c.hist.earlySideEffect
       \/ /\ c.errorCode = 0
          /\ c.msg["REQ_MSG"].state # "COMPLETE" \/ c.hist.cut
  /\ \/ /\ d.clientState = DELETEME
        /\ d.msg["RESP_MSG"].kind = c.msg["RESP_MSG"].kind
     \/ /\ d.clientState = c.clientState
        /\ d.msg["RESP_MSG"].kind \in {"own", "mixed"}
     \/ /\ d.clientState = c.clientState
        /\ d.msg["RESP_MSG"].kind = "cgi"
        /\ ~NotYet(c) /\ ~AnswersItself(c)

LEMMA GeneratedSound ==
  ASSUME NEW c \in ClientRec, Sound(c), c.clientState = DO_RESPONSE,
         NEW d, Generated(c, d)
  PROVE  Sound(d)
<1>1. d.msg["RESP_MSG"].kind = "cgi" =>
        /\ d.proc = "reaped0"
        /\ ~CgiFrames => ~d.fromChild
  BY StatesOrdered
     DEF Sound, EndedWell, OutputRead, Drained, Generated, Answering, NotYet,
         AnswersItself
<1>2. Connected(d) /\ HeadersKept(d) /\ BodySent(d) /\ EndedWell(d)
  BY <1>1, StatesOrdered
     DEF Sound, Connected, Unstarted, HeadersKept, BodySent, EndedWell,
         Generated, Answering
<1>3. d.msg["RESP_MSG"].kind = "raw" => d.clientState = DELETEME
  BY DEF Generated
<1>4. ~CgiFrames => OutputRead(d) /\ OutputHeld(d)
  BY <1>1, <1>3, StatesOrdered
     DEF Sound, OutputRead, OutputHeld, Generated, Answering
<1>5. flag = 0 => WholeFirst(d)
  BY StatesOrdered DEF Sound, WholeFirst, Generated, Answering
<1> QED BY <1>2, <1>4, <1>5 DEF Sound

LEMMA GenerateClientResponseEffect ==
  ASSUME NEW c \in ClientRec, c.clientState = DO_RESPONSE,
         NEW q \in ServerOutcome
  PROVE  LET d == GenerateClientResponse(c, q) IN
           IF NotYet(c) THEN d = c ELSE Generated(c, d)
<1> DEFINE n == IF c.hist.generated = 2 THEN 2 ELSE c.hist.generated + 1
           s == c.hist.earlySideEffect
                  \/ (/\ AnswersItself(c) /\ c.errorCode = 0
                      /\ c.msg["REQ_MSG"].state # "COMPLETE" \/ c.hist.cut)
           x == [c EXCEPT !.cgiFlag = FALSE]
           y1 == [x.msg["RESP_MSG"] EXCEPT !.it = "head"]
           z == [x EXCEPT !.msg["RESP_MSG"] = y1]
           h == [z.hist EXCEPT !.generated = n, !.earlySideEffect = s]
           once == [z EXCEPT !.hist = h]
           gone == SetClientState(once, DELETEME)
           y2 == [once.msg["RESP_MSG"] EXCEPT !.state = "COMPLETE"]
           done == [once EXCEPT !.msg["RESP_MSG"] = y2]
           y3 == [done.msg["RESP_MSG"] EXCEPT
                    !.kind = OwnKind(c), !.header = TRUE, !.body = q.page]
           own == [done EXCEPT !.msg["RESP_MSG"] = y3]
           y4 == [done.msg["RESP_MSG"] EXCEPT !.kind = "cgi"]
           cgi == [done EXCEPT !.msg["RESP_MSG"] = y4]
           d == GenerateClientResponse(c, q)
<1>1. d = CASE NotYet(c) -> c
            [] ~NotYet(c) /\ q.alloc -> gone
            [] ~NotYet(c) /\ ~q.alloc /\ AnswersItself(c) -> own
            [] OTHER -> cgi
  <2> DEFINE once0 == [c EXCEPT
                !.cgiFlag = FALSE, !.msg["RESP_MSG"].it = "head",
                !.hist.generated = n, !.hist.earlySideEffect = s]
             done0 == [once0 EXCEPT !.msg["RESP_MSG"].state = "COMPLETE"]
             own0 == [done0 EXCEPT !.msg["RESP_MSG"].kind = OwnKind(c),
                                   !.msg["RESP_MSG"].header = TRUE,
                                   !.msg["RESP_MSG"].body = q.page]
             cgi0 == [done0 EXCEPT !.msg["RESP_MSG"].kind = "cgi"]
  <2>1. d = CASE NotYet(c) -> c
              [] ~NotYet(c) /\ q.alloc -> SetClientState(once0, DELETEME)
              [] ~NotYet(c) /\ ~q.alloc /\ AnswersItself(c) -> own0
              [] OTHER -> cgi0
    BY Zenon DEF GenerateClientResponse
  <2>2. once0 = once
    <3> HIDE DEF n, s
    <3> QED BY Zenon
  <2> HIDE DEF once0, once
  <2>3. done0 = done
    BY <2>2, Zenon
  <2> HIDE DEF done0, done
  <2>4. own0 = own /\ cgi0 = cgi
    BY <2>3, ZenonT(40)
  <2> HIDE DEF own0, own, cgi0, cgi, d
  <2> QED BY <2>1, <2>2, <2>3, <2>4
<1> HIDE DEF d
<1>2. /\ Answering(c, x) /\ ~x.cgiFlag /\ x.msg = c.msg
      /\ x.clientState = c.clientState /\ x.hist = c.hist
  BY CgiFlagUpdate
<1>3. x \in ClientRec
  BY <1>2 DEF Answering
<1> HIDE DEF x
<1>4. y1 \in Message /\ y1.kind = c.msg["RESP_MSG"].kind
  BY <1>2, <1>3, MessageTypes DEF Message
<1> HIDE DEF y1
<1>5. /\ Answering(x, z) /\ ~z.cgiFlag /\ z.hist = x.hist
      /\ z.clientState = x.clientState /\ z.msg["RESP_MSG"] = y1
  BY <1>2, <1>3, <1>4, ResponseUpdate
<1>6. z \in ClientRec
  BY <1>5 DEF Answering
<1> HIDE DEF z
<1>7. /\ h \in History /\ h.rawSent = z.hist.rawSent
      /\ h.earlySideEffect = s /\ h.cut = z.hist.cut
  <2>1. n \in 0..2 /\ s \in BOOLEAN
    <3>1. c.hist.generated \in 0..2 /\ c.hist.earlySideEffect \in BOOLEAN
      BY DEF ClientRec, History
    <3>2. n \in 0..2
      BY <3>1
    <3> QED BY <3>2
  <2> HIDE DEF n, s
  <2> QED BY <1>6, <2>1 DEF ClientRec, History
<1> HIDE DEF h
<1>8. /\ Answering(z, once) /\ ~once.cgiFlag /\ once.hist = h
      /\ once.clientState = z.clientState /\ once.msg = z.msg
  BY <1>5, <1>6, <1>7, AnswerNoted
<1>9. once \in ClientRec /\ Answering(c, once)
  BY <1>2, <1>5, <1>8, AnsweringTransitive DEF Answering
<1> HIDE DEF once
<1>10. /\ Answering(once, gone) /\ ~gone.cgiFlag
       /\ gone.clientState = DELETEME /\ gone.msg = once.msg
       /\ gone.hist = once.hist
  BY <1>2, <1>5, <1>8, <1>9, StatesOrdered
     DEF SetClientState, ClientRec, Answering, HasChildFds, HasOutput
<1> HIDE DEF gone
<1>11. y2 \in Message
  BY <1>9, MessageTypes DEF Message, MsgStates
<1> HIDE DEF y2
<1>12. /\ Answering(once, done) /\ ~done.cgiFlag /\ done.hist = once.hist
       /\ done.clientState = once.clientState
  BY <1>8, <1>9, <1>11, ResponseUpdate
<1>13. done \in ClientRec
  BY <1>12 DEF Answering
<1> HIDE DEF done
<1>14. /\ y3 \in Message /\ y3.kind \in {"own", "mixed"}
       /\ y4 \in Message /\ y4.kind = "cgi"
  BY <1>13, MessageTypes, ZenonT(40) DEF Message, Kinds, OwnKind, ServerOutcome
<1> HIDE DEF y3, y4
<1>15. /\ Answering(done, own) /\ ~own.cgiFlag /\ own.hist = done.hist
       /\ own.clientState = done.clientState /\ own.msg["RESP_MSG"] = y3
       /\ Answering(done, cgi) /\ ~cgi.cgiFlag /\ cgi.hist = done.hist
       /\ cgi.clientState = done.clientState /\ cgi.msg["RESP_MSG"] = y4
  BY <1>12, <1>13, <1>14, ResponseUpdate
<1> HIDE DEF own, cgi
<1>16. /\ Answering(c, gone) /\ Answering(c, own) /\ Answering(c, cgi)
  BY <1>9, <1>10, <1>12, <1>15, AnsweringTransitive
<1>17. CASE ~NotYet(c) /\ d = gone
  BY <1>2, <1>4, <1>5, <1>7, <1>8, <1>10, <1>16, <1>17 DEF Generated, d
<1>18. CASE ~NotYet(c) /\ d = own
  BY <1>2, <1>5, <1>7, <1>8, <1>12, <1>14, <1>15, <1>16, <1>18
     DEF Generated, d
<1>19. CASE ~NotYet(c) /\ d = cgi /\ ~AnswersItself(c)
  BY <1>2, <1>5, <1>7, <1>8, <1>12, <1>14, <1>15, <1>16, <1>19
     DEF Generated, d
<1> QED BY <1>1, <1>17, <1>18, <1>19 DEF d

(* One visit of the server manager.  An answer made before is left alone.  *)
LEMMA ServeClientSound ==
  ASSUME NEW c \in ClientRec, Sound(c), ~Unstarted(c), NEW q \in ServerOutcome
  PROVE  LET d == ServeClient(c, q) IN
           /\ Sound(d)
           /\ ~c.cgiFlag /\ c.clientState >= DO_RESPONSE
              /\ c.msg["RESP_MSG"].state = "COMPLETE"
              => d.msg["RESP_MSG"] = c.msg["RESP_MSG"]
<1> DEFINE failed == IF c.errorCode = 0 THEN c
                     ELSE SetClientState(c, DO_RESPONSE)
           assigned == AssignVirtualServer(failed, q)
           checked == CheckIfRequestAllowed(assigned, q)
           limited == CheckBodySizeLimit(checked, q)
           routed == StartCgiOrRespond(limited, q)
           made == GenerateClientResponse(routed, q)
           d == ServeClient(c, q)
           Stays(x) == ~c.cgiFlag /\ c.clientState >= DO_RESPONSE
                       /\ c.msg["RESP_MSG"].state = "COMPLETE"
                       => x.msg["RESP_MSG"] = c.msg["RESP_MSG"]
<1>1. \/ d = c \/ d = failed
      \/ routed.clientState # DO_RESPONSE /\ d = routed
      \/ routed.clientState = DO_RESPONSE /\ d = made
  <2>1. d = CASE c.clientState = DELETEME -> c
              [] c.clientState # DELETEME /\ ~HeadComplete(failed) -> failed
              [] OTHER -> IF routed.clientState = DO_RESPONSE
                          THEN made ELSE routed
    BY Zenon DEF ServeClient, Failed, Assigned, Routed
  <2> HIDE DEF failed, routed, made, d
  <2> QED BY <2>1
<1>2. Refused(c, failed)
  BY StateRefused, RefusedReflexive
<1> HIDE DEF failed
<1>3. Refused(c, assigned)
  BY <1>2, AssignVirtualServerRefused, RefusedTransitive
     DEF Refused, SameMessages, Untouched, Kept
<1> HIDE DEF assigned
<1>4. Refused(c, checked)
  BY <1>3, CheckIfRequestAllowedRefused, RefusedTransitive
     DEF Refused, SameMessages, Untouched, Kept
<1> HIDE DEF checked
<1>5. Refused(c, limited)
  BY <1>4, CheckBodySizeLimitRefused, RefusedTransitive
     DEF Refused, SameMessages, Untouched, Kept
<1> HIDE DEF limited
<1>6. \A x : Refused(c, x) => Sound(x) /\ Stays(x) /\ x \in ClientRec
  BY RefusedSound DEF Refused, SameMessages, Untouched, Kept
<1>7. routed = limited \/ ForScript(limited, routed)
      \/ ForServer(limited, routed)
  BY <1>5, <1>6, StartCgiOrRespondEffect
<1> HIDE DEF routed
<1>8. ~Unstarted(limited)
  BY <1>5 DEF Refused, SameMessages, Untouched, Kept, Unstarted
<1>9. limited.clientState = DO_REQUEST => ~limited.cgiFlag
  BY <1>5, <1>6, <1>8, StatesOrdered DEF Sound, Connected, Unstarted
<1>10. Sound(routed) /\ routed \in ClientRec /\ Stays(routed)
  <2>1. routed = limited =>
          Sound(routed) /\ routed \in ClientRec /\ Stays(routed)
    BY <1>5, <1>6
  <2>2. ForScript(limited, routed) \/ ForServer(limited, routed) =>
          Sound(routed) /\ routed \in ClientRec
    BY <1>5, <1>6, <1>9, ForScriptSound, ForServerSound
       DEF ForScript, ForServer, SameMessages, Untouched, Kept
  <2>3. ForScript(limited, routed) \/ ForServer(limited, routed) =>
          routed.msg = limited.msg
    BY DEF ForScript, ForServer, SameMessages
  <2> QED BY <1>5, <1>6, <1>7, <2>1, <2>2, <2>3
<1>11. CASE routed.clientState = DO_RESPONSE /\ d = made
  <2>1. IF NotYet(routed) THEN made = routed ELSE Generated(routed, made)
    BY <1>10, <1>11, GenerateClientResponseEffect
  <2> HIDE DEF made
  <2>2. Sound(made)
    BY <1>10, <1>11, <2>1, GeneratedSound
  <2>3. ASSUME ~c.cgiFlag, c.clientState >= DO_RESPONSE,
               c.msg["RESP_MSG"].state = "COMPLETE"
        PROVE  made.msg["RESP_MSG"] = c.msg["RESP_MSG"]
    <3>1. limited.clientState >= DO_RESPONSE /\ ~limited.cgiFlag
      BY <1>5, <2>3, StatesOrdered
         DEF Refused, SameMessages, Untouched, Kept, StateAfter, ClientRec
    <3>2. routed = limited
      BY <1>7, <3>1, StatesOrdered DEF ForScript, ForServer
    <3>3. NotYet(routed)
      BY <1>10, <2>3, <3>1, <3>2 DEF NotYet
    <3> QED BY <1>10, <2>1, <2>3, <3>3
  <2> QED BY <1>11, <2>2, <2>3 DEF d
<1>12. CASE d = c \/ d = failed
         \/ (routed.clientState # DO_RESPONSE /\ d = routed)
  BY <1>2, <1>6, <1>10, <1>12, RefusedReflexive DEF d
<1> QED BY <1>1, <1>11, <1>12

-----------------------------------------------------------------------------
(* Cgi.                                                                    *)

(* What the end of a script, or the failure to start one, leaves alone.    *)
SameChildState(c, d) ==
  /\ d \in ClientRec
  /\ d.waitReturn = c.waitReturn
  /\ d.proc = c.proc
  /\ d.age = c.age
  /\ d.fromChild = c.fromChild
  /\ HasChildFds(d) <=> HasChildFds(c)
  /\ HasOutput(d) <=> HasOutput(c)
  /\ d.hist.rawSent = c.hist.rawSent
  /\ d.hist.earlySideEffect = c.hist.earlySideEffect
  /\ c.hist.cut => d.hist.cut
  /\ d.msg["REQ_MSG"] = c.msg["REQ_MSG"]
  /\ d.msg["RESP_MSG"].kind = c.msg["RESP_MSG"].kind
  /\ d.msg["RESP_MSG"].header = c.msg["RESP_MSG"].header

(* d is c once its script is given up: the client failed, and a client     *)
(* that has no child descriptors is no CGI request any more.               *)
Stopped(c, d) ==
  /\ SameChildState(c, d)
  /\ d.errorCode # 0
  /\ d.clientState = StateAfter(c, DO_RESPONSE)
  /\ d.cgiFlag <=> c.cgiFlag /\ HasChildFds(c)
  /\ ~HasChildFds(c) => d.msg = c.msg

LEMMA StopCgiEffect ==
  ASSUME NEW c \in ClientRec, HasOutput(c) <=> HasChildFds(c),
         NEW code \in {500, 502}
  PROVE  Stopped(c, StopCgiSetErrorCode(c, code))
<1> DEFINE s == SetClientState(c, DO_RESPONSE)
           e == IF s.errorCode = 0
                THEN SetErrorCode(s, IF TimedOut(s) THEN 504 ELSE code) ELSE s
           y == [e.msg["RESP_MSG"] EXCEPT !.state = "COMPLETE"]
           f == [e EXCEPT !.msg["RESP_MSG"] = y]
           g == CloseOutput(f)
           h == [e EXCEPT !.cgiFlag = FALSE]
           d == StopCgiSetErrorCode(c, code)
<1>1. d = IF HasChildFds(e) THEN g ELSE h
  BY Zenon DEF StopCgiSetErrorCode
<1> HIDE DEF d
<1>2. /\ SameMessages(c, s) /\ s.errorCode = c.errorCode
      /\ s.clientState = StateAfter(c, DO_RESPONSE)
      /\ s.fromChild = c.fromChild
  <2>1. s.fromChild = c.fromChild
    BY DEF SetClientState, ClientRec
  <2> QED BY <2>1, SetClientStateUntouched, StatesOrdered DEF StateAfter
<1>3. s \in ClientRec
  BY <1>2 DEF SameMessages, Untouched, Kept
<1> HIDE DEF s
<1>4. /\ SameMessages(c, e) /\ e.errorCode # 0
      /\ e.clientState = s.clientState /\ e.fromChild = c.fromChild
  <2> DEFINE v == IF TimedOut(s) THEN 504 ELSE code
             w == SetErrorCode(s, v)
  <2>1. v \in ErrorCodes \ {0}
    BY DEF ErrorCodes
  <2> HIDE DEF v
  <2>2. /\ SameMessages(s, w) /\ w.errorCode = v
        /\ w.clientState = s.clientState /\ w.fromChild = s.fromChild
    <3>1. w.fromChild = s.fromChild
      BY <1>3 DEF SetErrorCode, ClientRec
    <3> QED BY <1>3, <2>1, <3>1, SetErrorCodeUntouched
  <2>3. e = IF s.errorCode = 0 THEN w ELSE s
    BY DEF v
  <2> HIDE DEF w, e
  <2> QED BY <1>2, <2>1, <2>2, <2>3, UntouchedTransitive
<1>5. e \in ClientRec
  BY <1>4 DEF SameMessages, Untouched, Kept
<1> HIDE DEF e
<1>6. CASE HasChildFds(e)
  <2>1. /\ y \in Message /\ y.kind = e.msg["RESP_MSG"].kind
        /\ y.header = e.msg["RESP_MSG"].header
    BY <1>5, MessageTypes DEF Message, MsgStates
  <2> HIDE DEF y
  <2>2. /\ Untouched(e, f) /\ SameOutcome(e, f) /\ f.fromChild = e.fromChild
        /\ f.msg["REQ_MSG"] = e.msg["REQ_MSG"] /\ f.msg["RESP_MSG"] = y
    <3>1. f.fromChild = e.fromChild
      BY <1>5 DEF ClientRec
    <3> QED BY <1>5, <2>1, <3>1, MessageSetUntouched
            DEF OtherMessages, MsgTypes
  <2>3. f \in ClientRec /\ Present(f, "FROMCHILD_FD")
    BY <1>4, <1>6, <2>2
       DEF SameMessages, Untouched, Kept, Present, FdTypes, HasOutput
  <2> HIDE DEF f
  <2>4. SameMessages(f, g) /\ SameOutcome(f, g) /\ g.fromChild = f.fromChild
    <3>1. g.fromChild = f.fromChild
      BY <2>3 DEF CloseOutput, SetFd, ClientRec
    <3> QED BY <2>3, <3>1, SetFdUntouched DEF CloseOutput, FdStates
  <2> HIDE DEF g
  <2>5. SameChildState(c, g)
    BY <1>4, <2>1, <2>2, <2>4
       DEF SameChildState, SameMessages, Untouched, Kept
  <2>6. g.cgiFlag = c.cgiFlag /\ HasChildFds(c)
    BY <1>4, <1>6, <2>2, <2>4 DEF SameMessages, Untouched, Kept
  <2>7. Stopped(c, g)
    BY <1>2, <1>4, <2>2, <2>4, <2>5, <2>6 DEF Stopped, SameOutcome
  <2> QED BY <1>1, <1>6, <2>7 DEF d
<1>7. CASE ~HasChildFds(e)
  <2>1. /\ Answering(e, h) /\ ~h.cgiFlag /\ h.msg = e.msg
        /\ h.clientState = e.clientState /\ h.hist = e.hist
        /\ h.fromChild = e.fromChild
    <3>1. h.fromChild = e.fromChild
      BY <1>5 DEF ClientRec
    <3> QED BY <1>5, <3>1, CgiFlagUpdate, ZenonT(40)
  <2> HIDE DEF h
  <2>2. SameChildState(c, h)
    BY <1>4, <2>1
       DEF SameChildState, SameMessages, Untouched, Kept, Answering
  <2>3. ~HasChildFds(c) /\ h.msg = c.msg
    BY <1>4, <1>7, <2>1 DEF SameMessages, Untouched, Kept
  <2>4. Stopped(c, h)
    BY <1>2, <1>4, <2>1, <2>2, <2>3 DEF Stopped, Answering
  <2> QED BY <1>1, <1>7, <2>4 DEF d
<1> QED BY <1>6, <1>7

(* w is c with waitpid's answer about its child.                           *)
Waited(c, w) ==
  /\ w \in ClientRec
  /\ w.waitReturn # 0
  /\ w.clientState = c.clientState /\ w.errorCode = c.errorCode
  /\ w.cgiFlag = c.cgiFlag /\ w.fd = c.fd /\ w.msg = c.msg
  /\ w.age = c.age /\ w.fromChild = c.fromChild /\ w.hist = c.hist

LEMMA WaitedUpdate ==
  ASSUME NEW c \in ClientRec, NEW p \in ProcState
  PROVE  /\ Waited(c, [c EXCEPT !.waitReturn = -1])
         /\ LET w == [c EXCEPT !.waitReturn = 1, !.proc = p] IN
              Waited(c, w) /\ w.proc = p
<1> DEFINE w == [c EXCEPT !.waitReturn = 1]
           x == [w EXCEPT !.proc = p]
<1>1. Waited(c, [c EXCEPT !.waitReturn = -1]) /\ Waited(c, w)
  BY DEF Waited, ClientRec
<1> HIDE DEF w
<1>2. Waited(c, x) /\ x.proc = p
  BY <1>1 DEF Waited, ClientRec
<1> QED BY <1>1, <1>2, Zenon DEF w

(* A script that ran is given up.                                          *)
LEMMA StoppedSound ==
  ASSUME NEW c \in ClientRec, Sound(c), c.cgiFlag, HasChildFds(c),
         NEW w, Waited(c, w), NEW d, Stopped(w, d)
  PROVE  Sound(d)
<1>1. HasChildFds(w) /\ (HasOutput(w) <=> HasOutput(c))
  BY DEF Waited, HasChildFds, HasOutput
<1>3. /\ d.waitReturn # 0 /\ d.cgiFlag /\ HasChildFds(d) /\ HasOutput(d)
      /\ d.errorCode # 0 /\ d.clientState = StateAfter(c, DO_RESPONSE)
      /\ d.msg["REQ_MSG"] = c.msg["REQ_MSG"]
      /\ d.msg["RESP_MSG"].kind = c.msg["RESP_MSG"].kind
      /\ d.hist.rawSent = c.hist.rawSent
      /\ d.hist.earlySideEffect = c.hist.earlySideEffect
      /\ c.hist.cut => d.hist.cut
  BY <1>1
     DEF Stopped, SameChildState, StateAfter, Sound, Connected, Waited
<1>4. c.clientState \in 0..5 /\ c.msg["RESP_MSG"].kind # "cgi"
  BY StatesOrdered DEF ClientRec, Sound, Connected, EndedWell
<1>5. Connected(d) /\ HeadersKept(d) /\ BodySent(d) /\ EndedWell(d)
  BY <1>3, <1>4, StatesOrdered
     DEF Sound, Connected, Unstarted, HeadersKept, BodySent, EndedWell,
         StateAfter
<1>6. ~CgiFrames => OutputRead(d) /\ OutputHeld(d)
  BY <1>3, <1>4, StatesOrdered
     DEF Sound, OutputRead, OutputHeld, HeldBack, Drained, StateAfter
<1>7. flag = 0 => WholeFirst(d)
  BY <1>3, <1>4, StatesOrdered DEF Sound, WholeFirst
<1> QED BY <1>5, <1>6, <1>7 DEF Sound

(* w is c with what fork returned.                                         *)
Forked(c, w) ==
  /\ w \in ClientRec
  /\ w.waitReturn = c.waitReturn
  /\ w.clientState = c.clientState /\ w.errorCode = c.errorCode
  /\ w.cgiFlag = c.cgiFlag /\ w.fd = c.fd /\ w.msg = c.msg
  /\ w.age = c.age /\ w.hist = c.hist

(* A script that could not be started is given up.                         *)
LEMMA NotStartedSound ==
  ASSUME NEW c \in ClientRec, Sound(c), Unstarted(c),
         NEW w, Forked(c, w), NEW d, Stopped(w, d)
  PROVE  Sound(d) /\ ~Unstarted(d)
<1>1. /\ w.waitReturn = c.waitReturn /\ w.cgiFlag /\ ~HasChildFds(w)
      /\ HasOutput(w) <=> HasOutput(c)
      /\ w.msg = c.msg /\ w.hist = c.hist /\ w.clientState = c.clientState
  BY DEF Forked, HasChildFds, HasOutput, Unstarted
<1>2. /\ d.waitReturn = 0 /\ ~d.cgiFlag /\ ~HasChildFds(d) /\ ~HasOutput(d)
      /\ d.errorCode # 0 /\ d.clientState = DO_RESPONSE
      /\ d.msg = c.msg
      /\ d.hist.rawSent = c.hist.rawSent
      /\ d.hist.earlySideEffect = c.hist.earlySideEffect
      /\ c.hist.cut => d.hist.cut
  BY <1>1, StatesOrdered
     DEF Stopped, SameChildState, StateAfter, Sound, Connected, Unstarted
<1>3. c.clientState = DO_CGISEND /\ c.msg["RESP_MSG"].kind # "cgi"
  BY DEF Sound, Connected, EndedWell, Unstarted
<1>4. Connected(d) /\ HeadersKept(d) /\ BodySent(d) /\ EndedWell(d)
  BY <1>2, <1>3, StatesOrdered
     DEF Sound, Connected, Unstarted, HeadersKept, BodySent, EndedWell
<1>5. ~CgiFrames => OutputRead(d) /\ OutputHeld(d)
  BY <1>2, <1>3, StatesOrdered DEF Sound, OutputRead, OutputHeld
<1>6. flag = 0 => WholeFirst(d)
  BY <1>2, <1>3, StatesOrdered DEF Sound, WholeFirst
<1> QED BY <1>2, <1>4, <1>5, <1>6 DEF Sound, Unstarted

(* A script that ended with status 0 is waited for no more.                *)
LEMMA ReapedSound ==
  ASSUME NEW c \in ClientRec, Sound(c), c.cgiFlag, c.waitReturn = 0,
         HasChildFds(c), c.proc = "exit0"
  PROVE  Sound([c EXCEPT !.waitReturn = 1, !.proc = "reaped0"])
<1> DEFINE d == [c EXCEPT !.waitReturn = 1, !.proc = "reaped0"]
<1>1. /\ d.waitReturn = 1 /\ d.proc = "reaped0" /\ d.cgiFlag = c.cgiFlag
      /\ d.msg = c.msg /\ d.hist = c.hist /\ d.clientState = c.clientState
      /\ d.errorCode = c.errorCode /\ d.age = c.age
      /\ d.fromChild = c.fromChild /\ d.fd = c.fd
  BY DEF ClientRec
<1> HIDE DEF d
<1>2. HasChildFds(d) /\ (HasOutput(d) <=> HasOutput(c))
  BY <1>1 DEF HasChildFds, HasOutput
<1>3. Connected(d) /\ HeadersKept(d) /\ BodySent(d) /\ EndedWell(d)
  BY <1>1, <1>2, StatesOrdered
     DEF Sound, Connected, Unstarted, HeadersKept, BodySent, EndedWell,
         TimedOut
<1>4. ~CgiFrames => OutputRead(d) /\ OutputHeld(d)
  BY <1>1, StatesOrdered
     DEF Sound, OutputRead, OutputHeld, HeldBack, Drained, TimedOut,
         EndedWell
<1>5. flag = 0 => WholeFirst(d)
  BY <1>1 DEF Sound, WholeFirst
<1> QED BY <1>3, <1>4, <1>5 DEF Sound, d

(* A script that ended well is of no use to a client that had no memory    *)
(* for its output.                                                         *)
LEMMA AbandonedSound ==
  ASSUME NEW c \in ClientRec, Sound(c), c.clientState = CRITICAL_ERROR,
         c.cgiFlag, HasChildFds(c), NEW w, Waited(c, w)
  PROVE  Sound([SetClientState(w, DELETEME) EXCEPT !.cgiFlag = FALSE])
<1> DEFINE s == SetClientState(w, DELETEME)
           d == [s EXCEPT !.cgiFlag = FALSE]
<1>1. HasChildFds(w) /\ (HasOutput(w) <=> HasOutput(c))
  BY DEF Waited, HasChildFds, HasOutput
<1>2. SameMessages(w, s) /\ s.clientState = DELETEME
  BY SetClientStateUntouched, StatesOrdered DEF Waited
<1>3. s \in ClientRec
  BY <1>2 DEF SameMessages, Untouched, Kept
<1> HIDE DEF s
<1>4. /\ Answering(s, d) /\ ~d.cgiFlag /\ d.msg = s.msg
      /\ d.clientState = s.clientState /\ d.hist = s.hist
  BY <1>3, CgiFlagUpdate
<1> HIDE DEF d
<1>5. /\ d.clientState = DELETEME /\ d.msg = c.msg
      /\ HasChildFds(d) /\ (HasOutput(d) <=> HasOutput(c))
      /\ d.hist.rawSent = c.hist.rawSent
      /\ d.hist.earlySideEffect = c.hist.earlySideEffect
      /\ c.hist.cut => d.hist.cut
  BY <1>1, <1>2, <1>4
     DEF SameMessages, Untouched, Kept, Answering, Waited
<1>6. c.msg["RESP_MSG"].kind # "cgi"
  BY DEF Sound, EndedWell
<1>7. Connected(d) /\ HeadersKept(d) /\ BodySent(d) /\ EndedWell(d)
  BY <1>4, <1>5, <1>6, StatesOrdered
     DEF Sound, Connected, Unstarted, HeadersKept, BodySent, EndedWell
<1>8. ~CgiFrames => OutputRead(d) /\ OutputHeld(d)
  BY <1>4, <1>5, <1>6, StatesOrdered DEF Sound, OutputRead, OutputHeld
<1>9. flag = 0 => WholeFirst(d)
  BY <1>4, <1>5, StatesOrdered DEF Sound, WholeFirst
<1> QED BY <1>7, <1>8, <1>9, Zenon DEF Sound, d, s

LEMMA WaitForChildSound ==
  ASSUME NEW c \in ClientRec, Sound(c), c.cgiFlag, c.waitReturn = 0,
         HasChildFds(c), NEW fails \in BOOLEAN
  PROVE  Sound(WaitForChild(c, fails))
<1> DEFINE p == IF c.proc = "exit0" THEN "reaped0" ELSE "reapedN"
           r == [c EXCEPT !.waitReturn = 1, !.proc = p]
           f == [c EXCEPT !.waitReturn = -1]
           x == [SetClientState(r, DELETEME) EXCEPT !.cgiFlag = FALSE]
           d == WaitForChild(c, fails)
<1>1. p \in ProcState /\ c.proc \in ProcState
  BY DEF ProcState, Reaped, ClientRec
<1>2. \/ d = StopCgiSetErrorCode(f, 500)
      \/ d = [c EXCEPT !.waitReturn = 0]
      \/ /\ c.proc \in Ended
         /\ \/ d = StopCgiSetErrorCode(r, 500)
            \/ c.clientState = CRITICAL_ERROR /\ d = x
            \/ d = StopCgiSetErrorCode(r, 502)
            \/ c.proc = "exit0" /\ d = r
  <2>1. d = CASE c.waitReturn > 0 -> c
              [] c.waitReturn <= 0 /\ fails -> StopCgiSetErrorCode(f, 500)
              [] c.waitReturn <= 0 /\ ~fails /\ c.proc \in Ended ->
                   HandleReturnStatus(r, c.proc)
              [] OTHER -> [c EXCEPT !.waitReturn = 0]
    BY Zenon DEF WaitForChild
  <2>2. r.clientState = c.clientState
    OBVIOUS
  <2>3. HandleReturnStatus(r, c.proc) =
          CASE c.proc = "signaled" -> StopCgiSetErrorCode(r, 500)
            [] c.proc # "signaled" /\ r.clientState = CRITICAL_ERROR -> x
            [] c.proc = "exitN" /\ r.clientState # CRITICAL_ERROR ->
                 StopCgiSetErrorCode(r, 502)
            [] OTHER -> r
    <3> HIDE DEF r
    <3> QED BY Zenon DEF HandleReturnStatus, x
  <2> HIDE DEF r, f, x, d
  <2> QED BY <2>1, <2>2, <2>3 DEF Ended
<1> HIDE DEF p, d
<1>3. Waited(c, f) /\ Waited(c, r) /\ r.proc = p
  BY <1>1, WaitedUpdate
<1>4. CASE \/ d = StopCgiSetErrorCode(f, 500)
           \/ d = StopCgiSetErrorCode(r, 500)
           \/ d = StopCgiSetErrorCode(r, 502)
  <2> HIDE DEF f, r
  <2>1. \A w : Waited(c, w) =>
                 w \in ClientRec /\ (HasOutput(w) <=> HasChildFds(w))
    BY DEF Waited, HasOutput, HasChildFds, Sound, Connected
  <2>2. Stopped(f, d) \/ Stopped(r, d)
    BY <1>3, <1>4, <2>1, StopCgiEffect
  <2>3. Sound(d)
    BY <1>3, <2>2, StoppedSound
  <2> QED BY <2>3 DEF d
<1>5. CASE c.clientState = CRITICAL_ERROR /\ d = x
  <2> HIDE DEF r
  <2> QED BY <1>3, <1>5, AbandonedSound, Zenon DEF d
<1>6. CASE c.proc = "exit0" /\ d = r
  BY <1>6, ReapedSound DEF d, p
<1>7. CASE d = [c EXCEPT !.waitReturn = 0]
  <2>1. d = c
    BY <1>7 DEF ClientRec
  <2> QED BY <2>1 DEF d
<1> QED BY <1>2, <1>4, <1>5, <1>6, <1>7

(* The child of a script that was started keeps its descriptors.           *)
LEMMA WaitForChildStarted ==
  ASSUME NEW c \in ClientRec, HasChildFds(c), NEW fails \in BOOLEAN
  PROVE  ~Unstarted(WaitForChild(c, fails))
BY WaitForChildEffect DEF SameRequest, Unstarted

(* A script has been started.                                              *)
Started(c, d) ==
  /\ d \in ClientRec
  /\ d.waitReturn = c.waitReturn
  /\ d.clientState = c.clientState /\ d.errorCode = c.errorCode
  /\ d.cgiFlag = c.cgiFlag /\ d.msg = c.msg /\ d.age = c.age
  /\ HasChildFds(d) /\ HasOutput(d)
  /\ d.hist.rawSent = c.hist.rawSent
  /\ d.hist.earlySideEffect = c.hist.earlySideEffect
  /\ c.hist.cut => d.hist.cut

LEMMA StartChildEffects ==
  ASSUME NEW c \in ClientRec, ~HasOutput(c), ~HasChildFds(c),
         NEW o \in CgiOutcome
  PROVE  LET d == StartChild(c, o) IN
           /\ o.start = "started" => Started(c, d)
           /\ o.start # "started" =>
                \E w : Forked(c, w) /\ Stopped(w, d)
<1> DEFINE w == [c EXCEPT !.childPid = -1]
           d == StartChild(c, o)
<1>1. CASE o.start = "prepare"
  <2>1. d = StopCgiSetErrorCode(c, 500)
    BY <1>1 DEF StartChild
  <2>2. Forked(c, c)
    BY DEF Forked
  <2> QED BY <1>1, <2>1, <2>2, StopCgiEffect
<1>2. CASE o.start = "fork"
  <2>1. d = StopCgiSetErrorCode(w, 500)
    BY <1>2 DEF StartChild
  <2>2. Forked(c, w)
    BY DEF Forked, ClientRec
  <2> HIDE DEF w, d
  <2>3. w \in ClientRec /\ (HasOutput(w) <=> HasChildFds(w))
    BY <2>2 DEF Forked, HasOutput, HasChildFds
  <2>4. Stopped(w, d)
    BY <2>1, <2>3, StopCgiEffect
  <2> QED BY <1>2, <2>2, <2>4 DEF d
<1>3. CASE o.start = "started"
  <2> DEFINE h == [c.hist EXCEPT !.forks = IF @ = 2 THEN 2 ELSE @ + 1]
             e == SetChildSocket(c)
             f == [e EXCEPT !.childPid = 1, !.proc = o.child,
                            !.toChild = TRUE, !.fromChild = o.output,
                            !.hist = h]
  <2>1. d = [e EXCEPT !.childPid = 1, !.proc = o.child,
                      !.toChild = TRUE, !.fromChild = o.output,
                      !.hist.forks = IF @ = 2 THEN 2 ELSE @ + 1]
    BY <1>3 DEF StartChild
  <2>2. /\ h \in History /\ h.rawSent = c.hist.rawSent
        /\ h.earlySideEffect = c.hist.earlySideEffect
        /\ c.hist.cut => h.cut
    BY DEF ClientRec, History
  <2>3. /\ e \in ClientRec /\ HasChildFds(e) /\ HasOutput(e)
        /\ e = [c EXCEPT !.fd = e.fd]
    BY DEF SetChildSocket, ClientRec, HasChildFds, HasOutput, FdTypes,
           FdStates
  <2>4. e.hist = c.hist
    BY <2>3 DEF ClientRec
  <2>5. d = f
    <3> HIDE DEF e
    <3> QED BY <2>1, <2>3, <2>4 DEF ClientRec
  <2> HIDE DEF h, d
  <2>6. Started(c, f)
    <3>2. Started(c, e) /\ e.hist = c.hist
      BY <2>3, <2>4 DEF Started, ClientRec
    <3>3. e \in ClientRec /\ h \in History
      BY <2>2, <2>3
    <3> HIDE DEF e
    <3>4. f \in ClientRec
      BY <2>5, StartChildEffect DEF SameRequest, SameAnswer, d
    <3>5. /\ f.waitReturn = e.waitReturn /\ f.clientState = e.clientState
          /\ f.errorCode = e.errorCode /\ f.cgiFlag = e.cgiFlag
          /\ f.msg = e.msg /\ f.age = e.age /\ f.hist = h
          /\ f.fd = e.fd
      BY <3>3 DEF ClientRec
    <3> HIDE DEF f
    <3> QED BY <2>2, <3>2, <3>4, <3>5
            DEF Started, HasChildFds, HasOutput
  <2> HIDE DEF f
  <2> QED BY <1>3, <2>5, <2>6 DEF d
<1> QED BY <1>1, <1>2, <1>3 DEF CgiOutcome

LEMMA StartedSound ==
  ASSUME NEW c \in ClientRec, Sound(c), Unstarted(c), NEW d, Started(c, d)
  PROVE  /\ d \in ClientRec /\ Sound(d) /\ d.cgiFlag /\ d.waitReturn = 0
         /\ HasChildFds(d)
<1>1. c.clientState = DO_CGISEND /\ c.msg["RESP_MSG"].kind # "cgi"
      /\ c.cgiFlag /\ c.waitReturn = 0
  BY DEF Sound, Connected, EndedWell, Unstarted
<1>2. Connected(d) /\ HeadersKept(d) /\ BodySent(d) /\ EndedWell(d)
  BY <1>1, StatesOrdered
     DEF Sound, Connected, Unstarted, HeadersKept, BodySent, EndedWell,
         Started
<1>3. ~CgiFrames => OutputRead(d) /\ OutputHeld(d)
  BY <1>1, StatesOrdered DEF Sound, OutputRead, OutputHeld, Started
<1>4. flag = 0 => WholeFirst(d)
  BY <1>1, StatesOrdered DEF Sound, WholeFirst, Started
<1> QED BY <1>1, <1>2, <1>3, <1>4 DEF Sound, Started

(* The body of the CGI loop.  Afterwards no script is still to be started. *)
LEMMA CgiClientSound ==
  ASSUME NEW c \in ClientRec, Sound(c), NEW o \in CgiOutcomes(c)
  PROVE  LET d == CgiClient(c, o) IN
           /\ Sound(d) /\ ~Unstarted(d)
           /\ ~c.cgiFlag => d = c
<1> DEFINE started == StartChild(c, o)
<1>1. o \in CgiOutcome /\ o.waitFails \in BOOLEAN
  BY CgiOutcomeTypes DEF CgiOutcome
<1>2. CASE ~IsAllowedCgi(c)
  BY <1>2 DEF CgiClient, IsAllowedCgi, Unstarted, Sound, Connected
<1>3. CASE IsAllowedCgi(c) /\ HasChildFds(c)
  BY <1>1, <1>3, WaitForChildSound, WaitForChildStarted
     DEF CgiClient, IsAllowedCgi
<1>4. CASE IsAllowedCgi(c) /\ ~HasChildFds(c)
  <2>1. Unstarted(c) /\ c.cgiFlag /\ ~HasOutput(c) /\ ~HasChildFds(c)
    BY <1>4 DEF Unstarted, IsAllowedCgi, Sound, Connected
  <2>2. CASE o.start # "started"
    <3>1. CgiClient(c, o) = started
      BY <1>4, <2>2 DEF CgiClient
    <3>2. \E w : Forked(c, w) /\ Stopped(w, started)
      BY <1>1, <2>1, <2>2, StartChildEffects
    <3> HIDE DEF started
    <3> QED BY <2>1, <3>1, <3>2, NotStartedSound
  <2>3. CASE o.start = "started"
    <3>1. CgiClient(c, o) = WaitForChild(started, o.waitFails)
      BY <1>4, <2>3 DEF CgiClient
    <3>2. Started(c, started)
      BY <1>1, <2>1, <2>3, StartChildEffects
    <3> HIDE DEF started
    <3>3. /\ started \in ClientRec /\ Sound(started) /\ started.cgiFlag
          /\ started.waitReturn = 0 /\ HasChildFds(started)
      BY <2>1, <3>2, StartedSound
    <3> QED BY <1>1, <2>1, <3>1, <3>3, WaitForChildSound,
               WaitForChildStarted
  <2> QED BY <2>2, <2>3
<1> QED BY <1>2, <1>3, <1>4

-----------------------------------------------------------------------------
(* The events.                                                             *)

LEMMA SameSound ==
  ASSUME NEW c \in ClientRec, Sound(c), NEW d,
         SameMessages(c, d), SameOutcome(c, d)
  PROVE  Sound(d) /\ (Unstarted(d) <=> Unstarted(c))
<1>1. Connected(d) /\ HeadersKept(d) /\ BodySent(d) /\ EndedWell(d)
      /\ (Unstarted(d) <=> Unstarted(c))
  BY DEF Sound, Connected, Unstarted, HeadersKept, BodySent, EndedWell,
         SameMessages, Untouched, Kept, SameOutcome, TimedOut
<1>2. ~CgiFrames => OutputRead(d) /\ OutputHeld(d)
  BY DEF Sound, OutputRead, OutputHeld, HeldBack, Drained, TimedOut,
         SameMessages, Untouched, Kept, SameOutcome
<1>3. flag = 0 => WholeFirst(d)
  BY DEF Sound, WholeFirst, SameMessages, Untouched, Kept, SameOutcome
<1> QED BY <1>1, <1>2, <1>3 DEF Sound

LEMMA KillUntouched ==
  ASSUME NEW c \in ClientRec, NEW n \in 1..2
  PROVE  SameMessages(c, Kill(c, n)) /\ SameOutcome(c, Kill(c, n))
<1> DEFINE own == c.childPid = 1 /\ Unreaped(c)
           g == IF own THEN n ELSE c.signal
           y == c.hist.stray \/ ~own
           h == [c.hist EXCEPT !.stray = y]
           e == [c EXCEPT !.signal = g]
           d == [e EXCEPT !.hist = h]
<1>1. g \in 0..2 /\ y \in BOOLEAN
  BY DEF ClientRec
<1> HIDE DEF g, y
<1>2. /\ h \in History /\ h.rawSent = c.hist.rawSent
      /\ h.earlySideEffect = c.hist.earlySideEffect
      /\ c.hist.cut => h.cut
  BY <1>1 DEF ClientRec, History
<1>3. Kill(c, n) = d
  BY DEF Kill, g, y, ClientRec, History
<1>4. SameMessages(c, e) /\ SameOutcome(c, e) /\ e.hist = c.hist
  BY <1>1 DEF ClientRec, SameMessages, Untouched, Kept, HasChildFds,
              HasOutput, SameOutcome
<1> HIDE DEF e, h
<1>5. SameMessages(e, d) /\ SameOutcome(e, d)
  <2>1. e \in ClientRec
    BY <1>4 DEF SameMessages, Untouched, Kept
  <2> QED BY <1>2, <1>4, <2>1
          DEF ClientRec, SameMessages, Untouched, Kept, HasChildFds,
              HasOutput, SameOutcome
<1> HIDE DEF d
<1> QED BY <1>3, <1>4, <1>5, UntouchedTransitive DEF SameOutcome

(* d is c once its child was sent a signal, or none: a client that does    *)
(* not wait for a script goes on to be answered.                           *)
Signalled(c, d) ==
  /\ SameMessages(c, d) /\ d.errorCode = c.errorCode
  /\ \/ d.clientState = c.clientState
     \/ /\ c.waitReturn = 0
        /\ d.clientState = StateAfter(c, DO_RESPONSE)
        /\ TimedOut(c) \/ (~c.cgiFlag /\ (flag > 0 \/ c.errorCode # 0))

LEMMA SignalSentUntouched ==
  ASSUME NEW c \in ClientRec, NEW n \in 1..2
  PROVE  LET d == [c EXCEPT !.signalSent = n] IN
           SameMessages(c, d) /\ SameOutcome(c, d)
BY DEF ClientRec, SameMessages, Untouched, Kept, HasChildFds, HasOutput,
       SameOutcome

(* What Terminate and KillLate have in common.                             *)
LEMMA SignalledBy ==
  ASSUME NEW c \in ClientRec, NEW n \in 1..2, NEW kill \in BOOLEAN
  PROVE  LET d == [c EXCEPT !.signalSent = n]
             e == IF kill THEN Kill(d, n) ELSE d
             f == SetClientState(e, DO_RESPONSE)
         IN  /\ SameMessages(c, e) /\ SameOutcome(c, e)
             /\ SameMessages(c, f) /\ f.errorCode = c.errorCode
             /\ f.clientState = StateAfter(c, DO_RESPONSE)
<1> DEFINE d == [c EXCEPT !.signalSent = n]
           e == IF kill THEN Kill(d, n) ELSE d
           f == SetClientState(e, DO_RESPONSE)
<1>1. SameMessages(c, d) /\ SameOutcome(c, d) /\ d \in ClientRec
  BY SignalSentUntouched DEF SameMessages, Untouched, Kept
<1> HIDE DEF d
<1>2. SameMessages(c, e) /\ SameOutcome(c, e)
  BY <1>1, KillUntouched, UntouchedTransitive DEF SameOutcome
<1>3. e \in ClientRec
  BY <1>2 DEF SameMessages, Untouched, Kept
<1> HIDE DEF e
<1>4. /\ SameMessages(e, f) /\ f.errorCode = e.errorCode
      /\ f.clientState = StateAfter(e, DO_RESPONSE)
  BY <1>3, SetClientStateUntouched, StatesOrdered DEF StateAfter
<1> HIDE DEF f
<1>5. SameMessages(c, f) /\ f.errorCode = c.errorCode
      /\ f.clientState = StateAfter(c, DO_RESPONSE)
  BY <1>2, <1>4, UntouchedTransitive DEF SameOutcome, StateAfter
<1> QED BY <1>2, <1>5 DEF d, e, f

LEMMA HandleClientSignals ==
  ASSUME NEW c \in ClientRec
  PROVE  Signalled(c, HandleClient(c, flag))
<1> DEFINE kill == c.cgiFlag /\ c.childPid # 0
           d == [c EXCEPT !.signalSent = 1]
           e == IF kill THEN Kill(d, 1) ELSE d
           f == SetClientState(e, DO_RESPONSE)
           b == Terminate(c, flag)
<1>1. kill \in BOOLEAN
  BY DEF ClientRec
<1>2. b = IF /\ TimedOut(c) \/ flag > 0 \/ c.errorCode # 0
             /\ c.waitReturn = 0
             /\ c.signalSent = 0
          THEN IF ~c.cgiFlag /\ c.clientState # DELETEME THEN f ELSE e
          ELSE c
  BY Zenon DEF Terminate
<1>3. /\ SameMessages(c, e) /\ SameOutcome(c, e)
      /\ SameMessages(c, f) /\ f.errorCode = c.errorCode
      /\ f.clientState = StateAfter(c, DO_RESPONSE)
  <2>1. 1 \in 1..2
    OBVIOUS
  <2> HIDE DEF kill
  <2> QED BY <1>1, <2>1, SignalledBy, Zenon
<1> HIDE DEF e, f, b
<1>4. Signalled(c, b)
  BY <1>2, <1>3, UntouchedReflexive DEF Signalled, SameOutcome
<1>5. b \in ClientRec
  BY <1>4 DEF Signalled, SameMessages, Untouched, Kept
<1> DEFINE late == b.childPid # 0
           d2 == [b EXCEPT !.signalSent = 2]
           e2 == IF late THEN Kill(d2, 2) ELSE d2
           f2 == SetClientState(e2, DO_RESPONSE)
<1>6. KillLate(b) = IF /\ TimedOutHalf(b) /\ b.waitReturn = 0
                       /\ b.signalSent = 1
                    THEN f2 ELSE b
  BY Zenon DEF KillLate
<1>7. /\ SameMessages(b, f2) /\ f2.errorCode = b.errorCode
      /\ f2.clientState = StateAfter(b, DO_RESPONSE)
  <2>1. late \in BOOLEAN /\ 2 \in 1..2
    OBVIOUS
  <2> HIDE DEF late
  <2> QED BY <1>5, <2>1, SignalledBy, Zenon
<1> HIDE DEF f2
<1>8. ASSUME TimedOutHalf(b), b.waitReturn = 0 PROVE Signalled(c, f2)
  <2>1. TimedOut(c) /\ c.waitReturn = 0
    BY <1>4, <1>8 DEF Signalled, SameMessages, Untouched, Kept, TimedOut,
                      TimedOutHalf, ClientRec, Ages
  <2>2. SameMessages(c, f2)
    BY <1>4, <1>7, UntouchedTransitive DEF Signalled
  <2>3. StateAfter(b, DO_RESPONSE) = StateAfter(c, DO_RESPONSE)
    BY <1>4, StatesOrdered DEF Signalled, StateAfter, ClientRec
  <2> QED BY <1>4, <1>7, <2>1, <2>2, <2>3 DEF Signalled
<1>9. Signalled(c, KillLate(b))
  BY <1>4, <1>6, <1>8
<1> QED BY <1>9 DEF HandleClient, b

(* A client that is signalled and not deleted.                             *)
LEMMA SignalledSound ==
  ASSUME NEW c \in ClientRec, Sound(c), ~Unstarted(c), NEW d, Signalled(c, d),
         ~SafeToDelete(d)
  PROVE  Sound(d) /\ ~Unstarted(d)
<1>1. CASE d.clientState = c.clientState
  BY <1>1, SameSound DEF Signalled, SameOutcome
<1>2. CASE d.clientState # c.clientState
  <2>1. /\ c.waitReturn = 0
        /\ c.clientState < DO_RESPONSE /\ d.clientState = DO_RESPONSE
        /\ TimedOut(c) \/ (~c.cgiFlag /\ (flag > 0 \/ c.errorCode # 0))
        /\ SameMessages(c, d)
    BY <1>2, StatesOrdered DEF Signalled, StateAfter, ClientRec
  <2>2. c.cgiFlag \/ ~TimedOut(c)
    BY <2>1 DEF SafeToDelete, SameMessages, Untouched, Kept, TimedOut
  <2>3. ~Unstarted(d)
    BY <2>1 DEF SameMessages, Untouched, Kept, Unstarted
  <2>4. Connected(d) /\ BodySent(d) /\ EndedWell(d)
    BY <2>1, <2>3, StatesOrdered
       DEF Sound, Connected, BodySent, EndedWell, SameMessages, Untouched,
           Kept, Signalled
  <2>5. HeadersKept(d)
    BY <2>1, StatesOrdered
       DEF Sound, HeadersKept, SameMessages, Untouched, Kept, TimedOut
  <2>6. ~CgiFrames => OutputRead(d) /\ OutputHeld(d)
    BY <2>1, StatesOrdered
       DEF Sound, OutputRead, OutputHeld, SameMessages, Untouched, Kept,
           TimedOut
  <2>7. flag = 0 => WholeFirst(d)
    BY <2>1, <2>2, StatesOrdered
       DEF Sound, WholeFirst, SameMessages, Untouched, Kept, Signalled
  <2> QED BY <2>3, <2>4, <2>5, <2>6, <2>7 DEF Sound
<1> QED BY <1>1, <1>2

(* d is c but for what the client's handlers never ask.                    *)
Stays(c, d) == SameMessages(c, d) /\ SameOutcome(c, d)

LEMMA UpdateClientFdsStays ==
  ASSUME NEW c \in ClientRec, NEW t, Present(c, t),
         NEW send \in BOOLEAN, NEW receive \in BOOLEAN
  PROVE  Stays(c, UpdateClientFds(c, t, send, receive))
<1> DEFINE s == CASE send /\ ~receive -> "R_SEND"
                  [] ~send /\ receive -> "R_RECEIVE"
                  [] send /\ receive  -> "R_SENDREC"
                  [] OTHER -> "NONE"
<1>1. s \in FdStates \ {"ABSENT"}
  BY DEF FdStates
<1>2. UpdateClientFds(c, t, send, receive) =
        IF c.fd[t] \in {"CLOSED", "CLOSE"} THEN c ELSE SetFd(c, t, s)
  BY Zenon DEF UpdateClientFds
<1> HIDE DEF s
<1> QED BY <1>1, <1>2, SetFdUntouched, UntouchedReflexive
        DEF Stays, SameOutcome

LEMMA EpollUntouched ==
  ASSUME NEW c \in ClientRec, NEW e \in SUBSET FdTypes
  PROVE  Stays(c, [c EXCEPT !.epoll = e])
BY DEF ClientRec, SameMessages, Untouched, Kept, HasChildFds, HasOutput,
       SameOutcome, Stays

LEMMA StaysTransitive ==
  ASSUME NEW c, NEW d, NEW e, Stays(c, d), Stays(d, e)
  PROVE  Stays(c, e)
BY UntouchedTransitive DEF Stays, SameOutcome

LEMMA HandleCgiFdsStays ==
  ASSUME NEW c \in ClientRec, NEW t \in ChildFds, c.fd[t] # "ABSENT",
         NEW send \in BOOLEAN, NEW receive \in BOOLEAN
  PROVE  Stays(c, HandleCgiFds(c, t, send, receive))
<1> DEFINE e == SetFd(c, t, "CLOSED")
           p == c.epoll \ {t}
           d == [e EXCEPT !.epoll = p]
<1>1. Present(c, t)
  BY DEF Present, ChildFds, FdTypes
<1>2. Stays(c, e) /\ e.epoll = c.epoll
  <2>1. e.epoll = c.epoll
    BY DEF SetFd, ClientRec
  <2> QED BY <1>1, <2>1, SetFdUntouched DEF Stays, FdStates
<1>3. p \in SUBSET FdTypes /\ e \in ClientRec
  BY <1>2 DEF ClientRec, Stays, SameMessages, Untouched, Kept
<1>4. HandleCgiFds(c, t, send, receive) =
        IF c.fd[t] = "CLOSE" THEN d ELSE UpdateClientFds(c, t, send, receive)
  <2> HIDE DEF d
  <2>1. [SetFd(c, t, "CLOSED") EXCEPT !.epoll = @ \ {t}] = d
    BY <1>2, Zenon DEF d
  <2> QED BY <2>1 DEF HandleCgiFds
<1> HIDE DEF e, p
<1>5. Stays(c, d)
  BY <1>2, <1>3, EpollUntouched, StaysTransitive
<1> HIDE DEF d
<1> QED BY <1>1, <1>4, <1>5, UpdateClientFdsStays

LEMMA AddChildSocketsToEpollStays ==
  ASSUME NEW c \in ClientRec
  PROVE  Stays(c, AddChildSocketsToEpoll(c))
<1> DEFINE new == { t \in ChildFds : c.fd[t] = "NEW" }
           e == c.epoll \cup new
           f == [t \in FdTypes |-> IF t \in new THEN "NONE" ELSE c.fd[t]]
<1>1. e \in SUBSET FdTypes /\ f \in [FdTypes -> FdStates]
  BY DEF ClientRec, ChildFds, FdTypes, FdStates
<1>2. \A t \in FdTypes : f[t] = "ABSENT" <=> c.fd[t] = "ABSENT"
  OBVIOUS
<1>3. AddChildSocketsToEpoll(c) = [c EXCEPT !.epoll = e, !.fd = f]
  BY Zenon DEF AddChildSocketsToEpoll
<1> HIDE DEF e, f
<1>4. Stays(c, [c EXCEPT !.epoll = e, !.fd = f])
  BY <1>1, <1>2
     DEF ClientRec, SameMessages, Untouched, Kept, HasChildFds, HasOutput,
         SameOutcome, Stays, FdTypes
<1> QED BY <1>3, <1>4

LEMMA MarkedSound ==
  ASSUME NEW c \in ClientRec, Sound(c), ~Unstarted(c)
  PROVE  LET d == SetClientState(c, DELETEME) IN
           Sound(d) /\ ~Unstarted(d) /\ SameMessages(c, d)
<1> DEFINE d == SetClientState(c, DELETEME)
<1>1. SameMessages(c, d) /\ d.errorCode = c.errorCode
      /\ d.clientState = StateAfter(c, DELETEME)
  BY SetClientStateUntouched, StatesOrdered DEF StateAfter
<1>2. d.clientState = DELETEME /\ c.clientState \in 0..5
  BY <1>1, StatesOrdered DEF Sound, Connected, StateAfter, ClientRec
<1> HIDE DEF d
<1>3. ~Unstarted(d)
  BY <1>1 DEF SameMessages, Untouched, Kept, Unstarted
<1>4. Connected(d) /\ HeadersKept(d) /\ BodySent(d) /\ EndedWell(d)
  BY <1>1, <1>2, <1>3, StatesOrdered
     DEF Sound, Connected, HeadersKept, BodySent, EndedWell, SameMessages,
         Untouched, Kept
<1>5. ~CgiFrames => OutputRead(d) /\ OutputHeld(d)
  BY <1>1, <1>2, StatesOrdered
     DEF Sound, OutputRead, OutputHeld, SameMessages, Untouched, Kept
<1>6. flag = 0 => WholeFirst(d)
  BY <1>1, <1>2, StatesOrdered
     DEF Sound, WholeFirst, SameMessages, Untouched, Kept
<1> QED BY <1>1, <1>3, <1>4, <1>5, <1>6 DEF Sound, d

LEMMA NewClientSound ==
  ASSUME NEW allocated \in BOOLEAN
  PROVE  Sound(NewClient(allocated)) /\ ~Unstarted(NewClient(allocated))
<1> DEFINE c == NewClient(allocated)
<1>1. /\ c.clientState \in {DO_REQUEST, DELETEME}
      /\ ~c.cgiFlag /\ c.waitReturn = 0
      /\ c.msg["REQ_MSG"].head = "empty" /\ c.msg["RESP_MSG"].kind = "raw"
      /\ c.msg["RESP_MSG"].state = "INCOMPLETE"
      /\ ~HasChildFds(c) /\ ~HasOutput(c)
      /\ ~c.hist.rawSent /\ ~c.hist.earlySideEffect
  BY DEF NewClient, EmptyMessage, NoHistory, HasChildFds, HasOutput, FdTypes,
         MsgTypes
<1> HIDE DEF c
<1>2. Connected(c) /\ HeadersKept(c) /\ BodySent(c) /\ EndedWell(c)
  BY <1>1, StatesOrdered
     DEF Connected, HeadersKept, BodySent, EndedWell, Unstarted
<1>3. OutputRead(c) /\ OutputHeld(c) /\ WholeFirst(c)
  BY <1>1, StatesOrdered DEF OutputRead, OutputHeld, WholeFirst
<1> QED BY <1>1, <1>2, <1>3 DEF Sound, Unstarted, c

(* What peer, child and clock do between two steps of the server.          *)
Disturbed(c, d) ==
  /\ d \in ClientRec
  /\ d.clientState = c.clientState /\ d.errorCode = c.errorCode
  /\ d.cgiFlag = c.cgiFlag /\ d.waitReturn = c.waitReturn
  /\ d.fd = c.fd /\ d.msg = c.msg /\ d.hist = c.hist
  /\ d.age >= c.age
  /\ d.proc = c.proc \/ (c.proc = "running" /\ d.proc \in Ended)
  /\ d.fromChild = c.fromChild \/ c.proc = "running"

LEMMA DisturbedSound ==
  ASSUME NEW c \in ClientRec, Sound(c), NEW d, Disturbed(c, d)
  PROVE  Sound(d) /\ (Unstarted(d) <=> Unstarted(c))
<1>1. TimedOut(c) => TimedOut(d)
  BY DEF TimedOut, Disturbed, ClientRec, Ages
<1>2. Connected(d) /\ HeadersKept(d) /\ BodySent(d) /\ EndedWell(d)
      /\ (Unstarted(d) <=> Unstarted(c))
  BY <1>1
     DEF Sound, Connected, Unstarted, HeadersKept, BodySent, EndedWell,
         Disturbed, HasChildFds, HasOutput
<1>3. ~CgiFrames => OutputRead(d) /\ OutputHeld(d)
  BY <1>1
     DEF Sound, OutputRead, OutputHeld, HeldBack, Drained, EndedWell,
         Disturbed, Ended
<1>4. flag = 0 => WholeFirst(d)
  BY DEF Sound, WholeFirst, Disturbed
<1> QED BY <1>2, <1>3, <1>4 DEF Sound

LEMMA ClientMovesDisturb ==
  ASSUME IInv, NEW s \in Live, ClientMoves(s)
  PROVE  /\ \E d : /\ Disturbed(clients[s], d)
                  /\ clients' = [clients EXCEPT ![s] = d]
         /\ UNCHANGED <<phase, todo>>
<1> DEFINE c == clients[s]
           Disturbs == /\ \E d : /\ Disturbed(c, d)
                               /\ clients' = [clients EXCEPT ![s] = d]
                       /\ UNCHANGED <<phase, todo>>
<1>1. c \in ClientRec
  BY LiveClients DEF IInv
<1>2. ASSUME NEW d, Disturbed(c, d), ChangeClient(s, d) PROVE Disturbs
  BY <1>2 DEF ChangeClient
<1>3. ASSUME NEW d \in ClientRec,
             d.clientState = c.clientState, d.errorCode = c.errorCode,
             d.cgiFlag = c.cgiFlag, d.waitReturn = c.waitReturn,
             d.fd = c.fd, d.msg = c.msg, d.hist = c.hist,
             d.proc = c.proc, d.fromChild = c.fromChild,
             d.age = c.age \/ d.age = c.age + 1
      PROVE  Disturbed(c, d)
  <2> HIDE DEF c
  <2>1. c.age \in 0..3
    BY <1>1 DEF ClientRec, Ages
  <2> QED BY <1>3, <2>1 DEF Disturbed
<1>4. c.proc = "running" => Disturbed(c, [c EXCEPT !.fromChild = TRUE])
  <2> HIDE DEF c
  <2> SUFFICES ASSUME c.proc = "running"
               PROVE  Disturbed(c, [c EXCEPT !.fromChild = TRUE])
    OBVIOUS
  <2> DEFINE d == [c EXCEPT !.fromChild = TRUE]
  <2>1. d \in ClientRec
    BY <1>1 DEF ClientRec
  <2>2. /\ d.clientState = c.clientState /\ d.errorCode = c.errorCode
        /\ d.cgiFlag = c.cgiFlag /\ d.waitReturn = c.waitReturn
        /\ d.fd = c.fd /\ d.msg = c.msg /\ d.hist = c.hist
        /\ d.age = c.age /\ d.proc = c.proc
    BY <1>1 DEF ClientRec
  <2>3. c.age \in 0..3
    BY <1>1 DEF ClientRec, Ages
  <2> HIDE DEF d
  <2> QED BY <2>1, <2>2, <2>3 DEF Disturbed, d
<1>5. \A e \in Ended :
        c.proc = "running" => Disturbed(c, [c EXCEPT !.proc = e])
  <2> HIDE DEF c
  <2> SUFFICES ASSUME NEW e \in Ended, c.proc = "running"
               PROVE  Disturbed(c, [c EXCEPT !.proc = e])
    OBVIOUS
  <2> DEFINE d == [c EXCEPT !.proc = e]
  <2>1. d \in ClientRec
    BY <1>1 DEF ClientRec, ProcState
  <2>2. /\ d.clientState = c.clientState /\ d.errorCode = c.errorCode
        /\ d.cgiFlag = c.cgiFlag /\ d.waitReturn = c.waitReturn
        /\ d.fd = c.fd /\ d.msg = c.msg /\ d.hist = c.hist
        /\ d.age = c.age /\ d.proc = e /\ d.fromChild = c.fromChild
    BY <1>1 DEF ClientRec
  <2>3. c.age \in 0..3
    BY <1>1 DEF ClientRec, Ages
  <2> HIDE DEF d
  <2> QED BY <2>1, <2>2, <2>3 DEF Disturbed, d
<1>6. ASSUME Tick(s) PROVE Disturbs
  <2> DEFINE d == [c EXCEPT !.age = @ + 1]
  <2>1. c.age + 1 \in Ages /\ ChangeClient(s, d)
    BY <1>1, <1>6, BoundsAssumption DEF Tick, ClientRec, Ages
  <2> HIDE DEF c, Disturbs
  <2>2. Disturbed(c, d)
    BY <1>1, <1>3, <2>1 DEF ClientRec
  <2> HIDE DEF d
  <2> QED BY <1>2, <2>1, <2>2, Zenon
<1>7. ASSUME PeerSends(s) PROVE Disturbs
  <2>1. PICK i \in {"data", "eof", "error"} :
          ChangeClient(s, [c EXCEPT !.in = i])
    BY <1>7 DEF PeerSends
  <2> DEFINE d == [c EXCEPT !.in = i]
  <2> HIDE DEF c, Disturbs
  <2>2. Disturbed(c, d)
    BY <1>1, <1>3 DEF ClientRec
  <2> QED BY <1>2, <2>1, <2>2, Zenon
<1>8. ASSUME PeerReads(s) \/ ChildReads(s) PROVE Disturbs
  <2>1. \/ ChangeClient(s, [c EXCEPT !.out = TRUE])
        \/ ChangeClient(s, [c EXCEPT !.toChild = TRUE])
    BY <1>8 DEF PeerReads, ChildReads
  <2> HIDE DEF c, Disturbs
  <2> DEFINE d == [c EXCEPT !.out = TRUE]
             e == [c EXCEPT !.toChild = TRUE]
  <2>2. d \in ClientRec /\ e \in ClientRec
    BY <1>1 DEF ClientRec
  <2>3. Disturbed(c, d)
    BY <1>1, <1>3, <2>2 DEF ClientRec
  <2>4. Disturbed(c, e)
    BY <1>1, <1>3, <2>2 DEF ClientRec
  <2> QED BY <1>2, <2>1, <2>3, <2>4, Zenon
<1>9. ASSUME ChildWrites(s) PROVE Disturbs
  <2>1. /\ ChangeClient(s, [c EXCEPT !.fromChild = TRUE])
        /\ c.proc = "running"
    BY <1>9 DEF ChildWrites
  <2> HIDE DEF c, Disturbs
  <2> QED BY <1>2, <1>4, <2>1, Zenon
<1>10. ASSUME ChildEnds(s) PROVE Disturbs
  <2>1. PICK e \in Ended : /\ ChangeClient(s, [c EXCEPT !.proc = e])
                           /\ c.proc = "running"
    BY <1>10 DEF ChildEnds
  <2> HIDE DEF c, Disturbs
  <2> QED BY <1>2, <1>5, <2>1, Zenon
<1> QED BY <1>6, <1>7, <1>8, <1>9, <1>10 DEF ClientMoves

-----------------------------------------------------------------------------
(* The steps.                                                              *)

(* How a step of the server or of its environment changes the client of    *)
(* position s, in the words of the lemmas above.                           *)
Proceeds(s) ==
  LET c == clients[s]
      d == clients'[s]
  IN  \/ Stays(c, d) \/ Disturbed(c, d)
      \/ phase = "shutdown" /\ d = SetClientState(c, DELETEME)
      \/ /\ phase = "events"
         /\ \E e : Signalled(c, e) /\ ~SafeToDelete(e) /\ Stays(e, d)
      \/ phase = "io" /\ \E o \in IoOutcomes(c) : d = IoClient(c, o)
      \/ /\ phase = "server" /\ s \in todo
         /\ \E q \in ServerOutcome : d = ServeClient(c, q)
         /\ phase' = "server" /\ s \notin todo'
      \/ /\ phase = "cgi" /\ s \in todo
         /\ \E o \in CgiOutcomes(c) : d = CgiClient(c, o)

(* A step that changes the client of one position, or removes it.          *)
LEMMA OneClientProceeds ==
  ASSUME IInv, NEW s \in Live, NEW d,
         clients' = [clients EXCEPT ![s] = d],
         d # NoClient /\ clients'[s] = d => Proceeds(s)
  PROVE  \A r \in Live' : r \in Live /\ Proceeds(r)
<1> SUFFICES ASSUME NEW r \in Live' PROVE r \in Live /\ Proceeds(r)
  OBVIOUS
<1>1. r \in Slots /\ clients'[r] # NoClient /\ s \in Slots
  BY DEF Live
<1>2. CASE r = s
  BY <1>1, <1>2 DEF IInv, TypeOK
<1>3. CASE r # s
  <2>1. r \in Live /\ clients'[r] = clients[r]
    BY <1>1, <1>3 DEF IInv, TypeOK, Live
  <2>2. clients[r] \in ClientRec
    BY <2>1, LiveClients DEF IInv
  <2> QED BY <2>1, <2>2, UntouchedReflexive DEF Proceeds, Stays, SameOutcome
<1> QED BY <1>2, <1>3

LEMMA EventFlags ==
  ASSUME IInv, NEW e \in batch
  PROVE  e.send \in BOOLEAN /\ e.receive \in BOOLEAN
<1>1. e \in ClientEvents \/ e = Listen
  BY DEF IInv, TypeOK, Events
<1>2. CASE e \in ClientEvents
  BY <1>2 DEF ClientEvents
<1>3. CASE e = Listen
  BY <1>3 DEF Listen
<1> QED BY <1>1, <1>2, <1>3

LEMMA HandleClientProceeds ==
  ASSUME IInv, NEW e \in batch, HandleClientEvent(e), NEW r \in Live'
  PROVE  r \in Live /\ Proceeds(r)
<1> DEFINE c == HandleClient(clients[e.slot], flag)
           d == UpdateClientFds(c, e.fd, e.send, e.receive)
<1>1. /\ e.slot \in Live /\ clients[e.slot] \in ClientRec
      /\ e.fd = "CLIENT_FD" /\ phase = "events"
  BY LiveClients DEF HandleClientEvent, IInv
<1>2. e.send \in BOOLEAN /\ e.receive \in BOOLEAN
  BY EventFlags
<1>3. Signalled(clients[e.slot], c)
  BY <1>1, HandleClientSignals
<1>4. CASE SafeToDelete(c)
  <2>1. clients' = [clients EXCEPT ![e.slot] = NoClient]
    BY <1>4, Zenon DEF HandleClientEvent
  <2> QED BY <1>1, <2>1, OneClientProceeds
<1>5. CASE ~SafeToDelete(c)
  <2>1. clients' = [clients EXCEPT ![e.slot] = d]
    BY <1>5, Zenon DEF HandleClientEvent
  <2> HIDE DEF c
  <2>2. Stays(c, d)
    <3>1. c \in ClientRec /\ Present(c, e.fd)
      BY <1>1, <1>3
         DEF Signalled, SameMessages, Untouched, Kept, Present, FdTypes
    <3> QED BY <1>2, <3>1, UpdateClientFdsStays
  <2> HIDE DEF d
  <2>3. clients'[e.slot] = d => Proceeds(e.slot)
    BY <1>1, <1>3, <1>5, <2>2 DEF Proceeds
  <2> QED BY <1>1, <2>1, <2>3, OneClientProceeds
<1> QED BY <1>4, <1>5

LEMMA HandleCgiProceeds ==
  ASSUME IInv, NEW e \in batch, HandleCgiEvent(e), clients' # clients,
         NEW r \in Live'
  PROVE  r \in Live /\ Proceeds(r)
<1> DEFINE c == clients[e.slot]
           d == HandleCgiFds(c, e.fd, e.send, e.receive)
<1>1. /\ e.slot \in Live /\ c.fd[e.fd] # "ABSENT"
      /\ e.fd \in ChildFds /\ clients' = [clients EXCEPT ![e.slot] = d]
  BY DEF HandleCgiEvent
<1>2. e.send \in BOOLEAN /\ e.receive \in BOOLEAN
  BY EventFlags
<1>3. Stays(c, d)
  BY <1>1, <1>2, LiveClients, HandleCgiFdsStays DEF IInv
<1> HIDE DEF d
<1>4. clients'[e.slot] = d => Proceeds(e.slot)
  BY <1>3 DEF Proceeds
<1> QED BY <1>1, <1>4, OneClientProceeds

LEMMA VisitProceeds ==
  ASSUME IInv, NEW s \in todo, IoStep(s) \/ ServerStep(s) \/ CgiStep(s),
         NEW r \in Live'
  PROVE  r \in Live /\ Proceeds(r)
<1>1. s \in Live
  BY DEF IInv, LoopOK
<1>2. CASE IoStep(s)
  <2>1. phase = "io" /\ \E o \in IoOutcomes(clients[s]) :
          clients' = [clients EXCEPT ![s] = IoClient(clients[s], o)]
    BY <1>2 DEF IoStep, Visit
  <2>2. PICK o \in IoOutcomes(clients[s]) :
          clients' = [clients EXCEPT ![s] = IoClient(clients[s], o)]
    BY <2>1
  <2> DEFINE d == IoClient(clients[s], o)
  <2>3. clients'[s] = d => Proceeds(s)
    BY <2>1 DEF Proceeds
  <2> HIDE DEF d
  <2>4. clients' = [clients EXCEPT ![s] = d]
    BY <2>2 DEF d
  <2> QED BY <1>1, <2>3, <2>4, OneClientProceeds
<1>3. CASE ServerStep(s)
  <2>1. phase = "server" /\ phase' = "server" /\ s \notin todo'
    BY <1>3 DEF ServerStep, Visit
  <2>2. PICK q \in ServerOutcomes(clients[s]) :
          clients' = [clients EXCEPT ![s] = ServeClient(clients[s], q)]
    BY <1>3 DEF ServerStep
  <2> DEFINE d == ServeClient(clients[s], q)
  <2>3. clients'[s] = d => Proceeds(s)
    <3>1. q \in ServerOutcome
      BY ServerOutcomesTyped
    <3> QED BY <2>1, <3>1 DEF Proceeds
  <2> HIDE DEF d
  <2>4. clients' = [clients EXCEPT ![s] = d]
    BY <2>2 DEF d
  <2> QED BY <1>1, <2>3, <2>4, OneClientProceeds
<1>4. CASE CgiStep(s)
  <2>1. phase = "cgi"
    BY <1>4 DEF CgiStep, Visit
  <2>2. PICK o \in CgiOutcomes(clients[s]) :
          clients' = [clients EXCEPT ![s] = CgiClient(clients[s], o)]
    BY <1>4 DEF CgiStep
  <2> DEFINE d == CgiClient(clients[s], o)
  <2>3. clients'[s] = d => Proceeds(s)
    BY <2>1 DEF Proceeds
  <2> HIDE DEF d
  <2>4. clients' = [clients EXCEPT ![s] = d]
    BY <2>2 DEF d
  <2> QED BY <1>1, <2>3, <2>4, OneClientProceeds
<1> QED BY <1>2, <1>3, <1>4

(* An exception that nobody catches leaves the loop.                       *)
Thrown == \E s \in todo : IoThrow(s) \/ ServerThrow(s)

LEMMA ThrownEffect ==
  ASSUME IInv, Thrown
  PROVE  /\ phase \in {"io", "server"} /\ phase' = "down"
         /\ clients' = [r \in Slots |-> NoClient] /\ Live' = {}
         /\ batch' = {} /\ todo' = {}
         /\ UNCHANGED <<flag, backlog, conns>>
         /\ left' = left \cup UNION { LeftBy(clients[r]) : r \in Live }
<1>1. PICK s \in todo : IoThrow(s) \/ ServerThrow(s)
  BY DEF Thrown
<1> QED BY <1>1, ThrowEffect

(* Every step makes a client proceed, or accepts a new one.                *)
LEMMA ClientsProceed ==
  ASSUME IInv, [Next]_vars, NEW r \in Live'
  PROVE  \/ r \in Live /\ Proceeds(r)
         \/ r \notin Live
            /\ \E allocated \in BOOLEAN : clients'[r] = NewClient(allocated)
<1>1. \A s \in Live : clients[s] \in ClientRec /\ Stays(clients[s], clients[s])
  BY LiveClients, UntouchedReflexive DEF IInv, Stays, SameOutcome
<1>2. CASE UNCHANGED clients
  BY <1>1, <1>2 DEF Live, Proceeds
<1>3. CASE PrepareWait
  <2>1. r \in Live /\ clients'[r] = AddChildSocketsToEpoll(clients[r])
    BY <1>3 DEF PrepareWait, Live
  <2> QED BY <1>1, <2>1, AddChildSocketsToEpollStays DEF Proceeds
<1>4. CASE ShutdownServer /\ clients' # clients
  <2>1. r \in Live
    BY <1>4, ShutdownLive
  <2>2. clients'[r] = SetClientState(clients[r], DELETEME)
    BY <1>4, <2>1, LiveClients DEF ShutdownServer, MarkAll, IInv
  <2> QED BY <1>4, <2>1, <2>2 DEF ShutdownServer, Proceeds
<1>5. CASE AcceptNewClient /\ clients' # clients
  <2>1. PICK s \in Slots \ Live, allocated \in BOOLEAN :
          clients' = [clients EXCEPT ![s] = NewClient(allocated)]
    BY <1>5 DEF AcceptNewClient
  <2>2. CASE r = s
    BY <2>1, <2>2 DEF IInv, TypeOK
  <2>3. CASE r # s
    <3>1. r \in Live /\ clients'[r] = clients[r]
      BY <2>1, <2>3 DEF IInv, TypeOK, Live
    <3> QED BY <1>1, <3>1 DEF Proceeds
  <2> QED BY <2>2, <2>3
<1>6. ASSUME NEW s \in Live, ClientMoves(s)
      PROVE  r \in Live /\ Proceeds(r)
  <2>1. PICK d : /\ Disturbed(clients[s], d)
                 /\ clients' = [clients EXCEPT ![s] = d]
    BY <1>6, ClientMovesDisturb
  <2>2. clients'[s] = d => Proceeds(s)
    BY <2>1 DEF Proceeds
  <2> QED BY <2>1, <2>2, OneClientProceeds
<1>7. CASE EpollWait \/ EndOfBatch \/ NextLoop \/ Connect \/ Sigint
           \/ UNCHANGED vars
  BY <1>2, <1>7 DEF EpollWait, EndOfBatch, NextLoop, Connect, Sigint, vars
<1>8. ~Thrown
  BY ThrownEffect
<1> QED
  BY <1>2, <1>3, <1>4, <1>5, <1>6, <1>7, <1>8, HandleClientProceeds,
     HandleCgiProceeds, VisitProceeds
     DEF Next, Server, Environment, ClientMoves, Thrown

(* A request whose script is still to be started only exists between       *)
(* ServerManager::loop and Cgi::loop of one turn.                          *)
AboutToStart(s) ==
  Unstarted(clients[s]) => \/ phase = "server" /\ s \notin todo
                           \/ phase = "cgi" /\ s \in todo

QInv ==
  /\ IInv
  /\ \A s \in Live : Sound(clients[s]) /\ AboutToStart(s)

(* Cgi::loop visits, in the same turn, every client that ServerManager's   *)
(* loop has visited.                                                       *)
LEMMA TurnAdvances ==
  ASSUME IInv, [Next]_vars, ~Thrown, NEW s \in Live
  PROVE  /\ phase = "server" /\ s \notin todo =>
              \/ phase' = "server" /\ s \notin todo'
              \/ phase' = "cgi" /\ s \in todo'
         /\ phase = "cgi" /\ s \in todo =>
              CgiStep(s) \/ (phase' = "cgi" /\ s \in todo')
<1>1. CASE UNCHANGED <<phase, todo>>
  BY <1>1
<1>2. CASE NextLoop
  BY <1>2 DEF NextLoop
<1>3. ASSUME NEW r \in todo, IoStep(r) \/ ServerStep(r) \/ CgiStep(r)
      PROVE  /\ phase' = phase /\ todo' = todo \ {r}
             /\ phase = "cgi" => CgiStep(r)
  BY <1>3 DEF IoStep, ServerStep, CgiStep, Visit
<1>4. CASE PrepareWait \/ EpollWait \/ EndOfBatch \/ ShutdownServer
  BY <1>4 DEF PrepareWait, EpollWait, EndOfBatch, ShutdownServer
<1>5. CASE Sigint
  <2>1. UNCHANGED <<phase, todo>> \/ phase = "wait"
    BY <1>5 DEF Sigint
  <2> QED BY <1>1, <2>1
<1>6. ASSUME NEW e \in batch, HandleClientEvent(e) \/ HandleCgiEvent(e)
      PROVE  UNCHANGED <<phase, todo>>
  BY <1>6 DEF HandleClientEvent, HandleCgiEvent
<1>7. ASSUME NEW r \in Live, ClientMoves(r) PROVE UNCHANGED <<phase, todo>>
  BY <1>7, ClientMovesDisturb
<1>8. ASSUME AcceptNewClient \/ Connect \/ UNCHANGED vars
      PROVE  UNCHANGED <<phase, todo>>
  BY <1>8 DEF AcceptNewClient, Connect, vars
<1> QED BY <1>1, <1>2, <1>3, <1>4, <1>5, <1>6, <1>7, <1>8
        DEF Next, Server, Environment, ClientMoves, Thrown

LEMMA ProceedsSound ==
  ASSUME QInv, [Next]_vars, NEW s \in Live, Proceeds(s)
  PROVE  /\ Sound(clients'[s])
         /\ \/ ~Unstarted(clients'[s]) \/ Unstarted(clients[s])
            \/ phase' = "server" /\ s \notin todo'
<1> DEFINE c == clients[s]
           d == clients'[s]
<1>1. /\ c \in ClientRec /\ Sound(c)
      /\ phase \notin {"server", "cgi"} => ~Unstarted(c)
      /\ phase = "server" /\ s \in todo => ~Unstarted(c)
  BY LiveClients DEF QInv, IInv, AboutToStart
<1>2. CASE Stays(c, d)
  <2> HIDE DEF c, d
  <2>1. Sound(d) /\ (Unstarted(d) <=> Unstarted(c))
    BY <1>1, <1>2, SameSound DEF Stays
  <2> QED BY <2>1 DEF c, d
<1>3. CASE Disturbed(c, d)
  <2> HIDE DEF c, d
  <2>1. Sound(d) /\ (Unstarted(d) <=> Unstarted(c))
    BY <1>1, <1>3, DisturbedSound
  <2> QED BY <2>1 DEF c, d
<1>4. CASE phase = "shutdown" /\ d = SetClientState(c, DELETEME)
  <2> HIDE DEF c, d
  <2>1. Sound(d) /\ ~Unstarted(d)
    BY <1>1, <1>4, MarkedSound
  <2> QED BY <2>1 DEF c, d
<1>5. CASE /\ phase = "events"
           /\ \E e : Signalled(c, e) /\ ~SafeToDelete(e) /\ Stays(e, d)
  <2> HIDE DEF c, d
  <2>1. PICK e : Signalled(c, e) /\ ~SafeToDelete(e) /\ Stays(e, d)
    BY <1>5
  <2>2. e \in ClientRec /\ Sound(e) /\ ~Unstarted(e)
    BY <1>1, <1>5, <2>1, SignalledSound
       DEF Signalled, SameMessages, Untouched, Kept
  <2>3. Sound(d) /\ ~Unstarted(d)
    BY <2>1, <2>2, SameSound DEF Stays
  <2> QED BY <2>3 DEF c, d
<1>6. CASE phase = "io" /\ \E o \in IoOutcomes(c) : d = IoClient(c, o)
  <2> HIDE DEF c, d
  <2>1. PICK o \in IoOutcomes(c) : d = IoClient(c, o)
    BY <1>6
  <2>2. Sound(d) /\ d.cgiFlag = c.cgiFlag
        /\ (HasChildFds(d) <=> HasChildFds(c))
    BY <1>1, <1>6, <2>1, IoClientSound, IoClientLeaves
       DEF Leaves, SameChild, SameScript
  <2> QED BY <2>2 DEF c, d, Unstarted
<1>7. CASE /\ phase = "server" /\ s \in todo
           /\ \E q \in ServerOutcome : d = ServeClient(c, q)
           /\ phase' = "server" /\ s \notin todo'
  <2> HIDE DEF c, d
  <2>1. Sound(d)
    BY <1>1, <1>7, ServeClientSound
  <2> QED BY <1>7, <2>1 DEF d
<1>8. CASE /\ phase = "cgi" /\ s \in todo
           /\ \E o \in CgiOutcomes(c) : d = CgiClient(c, o)
  <2> HIDE DEF c, d
  <2>1. Sound(d) /\ ~Unstarted(d)
    BY <1>1, <1>8, CgiClientSound
  <2> QED BY <2>1 DEF d
<1> QED BY <1>2, <1>3, <1>4, <1>5, <1>6, <1>7, <1>8 DEF Proceeds

LEMMA NextSound ==
  ASSUME QInv, [Next]_vars
  PROVE  QInv'
<1>1. IInv /\ IInv'
  BY NextTypes DEF QInv
<1>2. flag' = 0 => flag = 0
  BY <1>1, FlagAdvances DEF Sigint, ShutdownServer
<1>3. ASSUME NEW s \in Live', s \notin Live
      PROVE  Sound(clients'[s]) /\ AboutToStart(s)'
  <2>1. Sound(clients'[s]) /\ ~Unstarted(clients'[s])
    BY <1>1, <1>3, ClientsProceed, NewClientSound
  <2> QED BY <2>1 DEF AboutToStart
<1>4. ASSUME NEW s \in Live', s \in Live
      PROVE  Sound(clients'[s]) /\ AboutToStart(s)'
  <2>1. Proceeds(s)
    BY <1>1, <1>4, ClientsProceed
  <2>2. /\ Sound(clients'[s])
        /\ \/ ~Unstarted(clients'[s]) \/ Unstarted(clients[s])
           \/ phase' = "server" /\ s \notin todo'
    BY <1>4, <2>1, ProceedsSound
  <2>3. CASE CgiStep(s)
    <3>1. PICK o \in CgiOutcomes(clients[s]) :
            clients' = [clients EXCEPT ![s] = CgiClient(clients[s], o)]
      BY <2>3 DEF CgiStep
    <3>2. clients'[s] = CgiClient(clients[s], o)
      BY <1>1, <1>4, <3>1, LiveClients DEF IInv, TypeOK
    <3>3. ~Unstarted(clients'[s])
      BY <1>1, <1>4, <3>2, CgiClientSound, LiveClients DEF QInv, IInv
    <3> QED BY <2>2, <3>3 DEF AboutToStart
  <2>4. CASE ~CgiStep(s)
    <3>1. AboutToStart(s)
      BY <1>4 DEF QInv
    <3>2. ~Thrown
      BY <1>1, <1>4, ThrownEffect
    <3> QED BY <1>1, <1>4, <2>2, <2>4, <3>1, <3>2, TurnAdvances
            DEF AboutToStart
  <2> QED BY <2>3, <2>4
<1>5. ASSUME NEW s \in Live' PROVE Sound(clients[s])' /\ AboutToStart(s)'
  <2>1. Sound(clients'[s]) /\ AboutToStart(s)'
    BY <1>3, <1>4, <1>5
  <2> QED BY <1>2, <2>1 DEF Sound
<1> QED BY <1>1, <1>5 DEF QInv

LEMMA Soundness == Spec => []QInv
<1>1. Init => QInv
  BY InitTypes DEF Init, QInv, Live
<1>2. QInv /\ [Next]_vars => QInv'
  BY NextSound
<1> QED BY <1>1, <1>2, PTL DEF Spec

(* A child descriptor is only asked for when there is one: neither a late  *)
(* client, nor a script that could not be started, reaches Io with a state *)
(* that works for a script it does not have.                               *)
THEOREM ChildDescriptorsExist == Spec => []ChildFdsPresent
<1>1. QInv => ChildFdsPresent
  <2> SUFFICES ASSUME QInv, NEW s \in Live, phase = "io",
                      clients[s].clientState \in {DO_CGISEND, DO_CGIREC}
               PROVE  HasChildFds(clients[s])
    BY DEF ChildFdsPresent
  <2> QED BY DEF QInv, Sound, Connected, AboutToStart, Unstarted
<1> QED BY <1>1, Soundness, PTL

(* ServerManager::loop and generateClientResponse dereference the header   *)
(* of a message without a test, and never find it missing.                 *)
THEOREM HeadersExist == Spec => []HeadersPresent
<1>1. QInv => HeadersPresent
  <2> SUFFICES ASSUME QInv, NEW s \in Live, phase = "server", s \in todo,
                      clients[s].clientState # DELETEME
               PROVE  LET c == clients[s] IN
                        /\ HeadComplete(c) => c.msg["REQ_MSG"].header
                        /\ /\ c.clientState = DO_RESPONSE /\ ~NotYet(c)
                           /\ ~AnswersItself(c)
                           => c.msg["RESP_MSG"].header
    BY DEF HeadersPresent
  <2> QED BY DEF QInv, Sound, HeadersKept, HeadComplete, NotYet,
                 AnswersItself
<1> QED BY <1>1, Soundness, PTL

(* A script's output is read only once the script got all of the request's *)
(* body, whatever the socket took at a time.                               *)
THEOREM ScriptGetsWholeBody == Spec => []BodyDeliveredWhole
<1>1. QInv => BodyDeliveredWhole
  BY DEF QInv, Sound, BodySent, BodyDeliveredWhole
<1> QED BY <1>1, Soundness, PTL

(* An answer made of CGI output is the output of a script that ended with  *)
(* status 0, and nothing the script wrote before it ended is missing from  *)
(* it, unless the script announced the end itself.                         *)
THEOREM OnlySuccessForwarded == Spec => []CgiForwardedOnSuccess
<1>1. QInv => CgiForwardedOnSuccess
  BY CgiFramesAssumption
     DEF QInv, Sound, EndedWell, OutputRead, CgiForwardedOnSuccess
<1> QED BY <1>1, Soundness, PTL

(* As long as no script delimits its own output, no client is sent that    *)
(* output with the script's own header: it is held back until the header   *)
(* has been converted.                                                     *)
THEOREM OutputIsConverted ==
  ASSUME ~CgiFrames
  PROVE  Spec => []OnlyGeneratedSent
<1>1. QInv => OnlyGeneratedSent
  BY DEF QInv, Sound, OutputHeld, OnlyGeneratedSent
<1> QED BY <1>1, Soundness, PTL

(* A handler that stores, deletes or reads a file runs on a request that   *)
(* was received whole, with two exceptions: the peer closed its side and   *)
(* what it sent is taken for the whole (Io.cpp:92), or SIGINT arrived.  No *)
(* timeout, refusal, failure or order of events is a third one.            *)
THEOREM PartActedOnAtEnd == Spec => []PartOnlyAtEnd
<1>1. QInv => PartOnlyAtEnd
  BY DEF QInv, IInv, TypeOK, Sound, WholeFirst, PartOnlyAtEnd
<1> QED BY <1>1, Soundness, PTL

-----------------------------------------------------------------------------
(* The answer, once it is made.                                            *)

LEMMA SameButPositionReflexive ==
  ASSUME NEW y
  PROVE  SameButPosition(y, y)
BY DEF SameButPosition

LEMMA AnswerKept ==
  ASSUME QInv, RInv, NEW s \in Live, Proceeds(s),
         clients[s].hist.generated = 1
  PROVE  SameButPosition(clients[s].msg["RESP_MSG"],
                         clients'[s].msg["RESP_MSG"])
<1> DEFINE c == clients[s]
           d == clients'[s]
<1>1. /\ c \in ClientRec /\ Sound(c)
      /\ ~c.cgiFlag /\ ~Unstarted(c) /\ c.clientState >= DO_RESPONSE
      /\ c.msg["RESP_MSG"].state = "COMPLETE" \/ c.clientState = DELETEME
  BY LiveClients DEF QInv, IInv, RInv, Settled, Unstarted
<1>2. CASE \/ Stays(c, d) \/ Disturbed(c, d)
           \/ \E e : Signalled(c, e) /\ ~SafeToDelete(e) /\ Stays(e, d)
  BY <1>2, SameButPositionReflexive
     DEF Stays, SameMessages, Disturbed, Signalled
<1>3. CASE d = SetClientState(c, DELETEME)
  <2> HIDE DEF c, d
  <2>1. SameMessages(c, SetClientState(c, DELETEME))
    BY <1>1, SetClientStateUntouched, StatesOrdered
  <2>2. d.msg = c.msg
    BY <1>3, <2>1 DEF SameMessages
  <2> QED BY <2>2, SameButPositionReflexive DEF c, d
<1>4. CASE \E o \in IoOutcomes(c) : d = IoClient(c, o)
  <2> HIDE DEF c, d
  <2>1. SameButPosition(c.msg["RESP_MSG"], d.msg["RESP_MSG"])
    BY <1>1, <1>4, IoClientSound
  <2> QED BY <2>1 DEF c, d
<1>5. CASE \E q \in ServerOutcome : d = ServeClient(c, q)
  <2> HIDE DEF c, d
  <2>1. CASE c.clientState = DELETEME
    <3>1. d = c
      BY <1>5, <2>1 DEF ServeClient
    <3> QED BY <3>1, SameButPositionReflexive DEF c, d
  <2>2. CASE c.msg["RESP_MSG"].state = "COMPLETE"
    <3>1. d.msg["RESP_MSG"] = c.msg["RESP_MSG"]
      BY <1>1, <1>5, <2>2, ServeClientSound
    <3> QED BY <3>1, SameButPositionReflexive DEF c, d
  <2> QED BY <1>1, <2>1, <2>2
<1>6. CASE \E o \in CgiOutcomes(c) : d = CgiClient(c, o)
  <2> HIDE DEF c, d
  <2>1. d = c
    BY <1>1, <1>6, CgiClientSound
  <2> QED BY <2>1, SameButPositionReflexive DEF c, d
<1> QED BY <1>2, <1>3, <1>4, <1>5, <1>6 DEF Proceeds

(* What is sent once the answer is made is that answer: neither bytes that *)
(* are received later, nor a script that ends later, nor a second visit of *)
(* generateClientResponse, change it.                                      *)
THEOREM AnswerStays == Spec => AnswerIsFinal
<1> DEFINE Final ==
      \A s \in Live :
        LET old == clients[s].msg["RESP_MSG"]
            new == clients'[s].msg["RESP_MSG"]
        IN  clients[s].hist.generated = 1 /\ clients'[s] # NoClient =>
              /\ new.kind = old.kind
              /\ new.body = old.body
              /\ old.it # "head" => new.it # "head"
<1>1. Init => RInv
  BY DEF Init, RInv, Live
<1>2. QInv /\ RInv /\ [Next]_vars => RInv'
  BY NextSettled DEF QInv
<1>3. QInv /\ RInv /\ [Next]_vars => Final
  <2> SUFFICES ASSUME QInv, RInv, [Next]_vars, NEW s \in Live,
                      clients[s].hist.generated = 1, clients'[s] # NoClient
               PROVE  SameButPosition(clients[s].msg["RESP_MSG"],
                                      clients'[s].msg["RESP_MSG"])
    BY DEF Final, SameButPosition
  <2>1. s \in Live' /\ IInv
    BY DEF Live, QInv
  <2> QED BY <2>1, ClientsProceed, AnswerKept
<1>4. Final => [Final]_vars
  OBVIOUS
<1> QED BY <1>1, <1>2, <1>3, Soundness, PTL DEF Spec, AnswerIsFinal

-----------------------------------------------------------------------------
(* The refinement.  Webserv implements Connection, for every value of its  *)
(* constants but waitpid failing: seen from outside, every step of the     *)
(* loops, of the handlers and of their environment is one step of one      *)
(* connection, a step of the shutdown, or nothing.                         *)

-----------------------------------------------------------------------------
(* What a step shows of one client.                                        *)

(* A child that was started has left the client its sockets.               *)
Held(c) == c.proc = "none" \/ HasChildFds(c)

HInv == \A s \in Live : Held(clients[s])

SameProc(c, d) == d.proc = c.proc \/ (c.proc = "running" /\ d.proc \in Ended)

(* Cgi::loop: a script is started where there was none, or reaped.         *)
LEMMA CgiClientShows ==
  ASSUME "waitpid" \notin Faults,
         NEW c \in ClientRec, c.waitReturn >= 0, Held(c),
         NEW o \in CgiOutcomes(c)
  PROVE  LET d == CgiClient(c, o) IN
           /\ Held(d)
           /\ \/ d.proc = c.proc
              \/ Unreaped(c) /\ d.proc \in Reaped
              \/ /\ c.proc = "none" /\ Unstarted(c)
                 /\ d.proc \in {"running"} \cup Ended \cup Reaped
<1> DEFINE started == StartChild(c, o)
<1>1. o \in CgiOutcome /\ o.waitFails = FALSE /\ FALSE \in BOOLEAN
  BY CgiOutcomeTypes DEF CgiOutcome
<1>2. CASE ~IsAllowedCgi(c)
  BY <1>2 DEF CgiClient
<1>3. CASE IsAllowedCgi(c) /\ HasChildFds(c)
  <2> DEFINE w == WaitForChild(c, FALSE)
  <2>1. /\ SameRequest(c, w)
        /\ \/ c.proc \in Ended /\ w.proc \in Reaped
           \/ w.proc = c.proc
    BY <1>1, WaitForChildEffect
  <2>2. CgiClient(c, o) = w
    BY <1>1, <1>3 DEF CgiClient
  <2> HIDE DEF w
  <2> QED BY <1>3, <2>1, <2>2 DEF Held, SameRequest, Unreaped
<1>4. CASE IsAllowedCgi(c) /\ ~HasChildFds(c)
  <2>0. c.proc = "none" /\ Unstarted(c)
    BY <1>4 DEF Held, Unstarted, IsAllowedCgi
  <2>1. CASE o.start # "started"
    <3>1. started.proc = c.proc
      BY <1>1, <1>4, <2>1, StartChildEffect
    <3>2. CgiClient(c, o) = started
      BY <1>4, <2>1 DEF CgiClient
    <3> HIDE DEF started
    <3> QED BY <2>0, <3>1, <3>2 DEF Held
  <2>2. CASE o.start = "started"
    <3> DEFINE w == WaitForChild(started, FALSE)
    <3>1. /\ started \in ClientRec /\ started.waitReturn = c.waitReturn
          /\ started.proc = o.child /\ HasChildFds(started)
      BY <1>1, <1>4, <2>2, StartChildEffect DEF SameRequest
    <3>2. CgiClient(c, o) = w
      BY <1>1, <1>4, <2>2 DEF CgiClient
    <3>3. /\ SameRequest(started, w)
          /\ w.proc \in Reaped \/ w.proc = started.proc
      <4> HIDE DEF started
      <4> QED BY <1>1, <3>1, WaitForChildEffect
    <3>4. o.child \in {"running"} \cup Ended
      BY <1>1 DEF CgiOutcome
    <3> HIDE DEF started, w
    <3> QED BY <2>0, <3>1, <3>2, <3>3, <3>4 DEF Held, SameRequest
  <2> QED BY <2>1, <2>2
<1> QED BY <1>2, <1>3, <1>4

(* Only Cgi::loop starts and reaps a child.                                *)
LEMMA ProceedsProc ==
  ASSUME IInv, NEW s \in Live, Proceeds(s)
  PROVE  \/ SameProc(clients[s], clients'[s])
         \/ \E o \in CgiOutcomes(clients[s]) :
              clients'[s] = CgiClient(clients[s], o)
<1> DEFINE c == clients[s]
           d == clients'[s]
<1>1. c \in ClientRec
  BY LiveClients DEF IInv
<1> HIDE DEF c, d
<1>2. CASE \/ Stays(c, d) \/ Disturbed(c, d)
           \/ \E e : Signalled(c, e) /\ ~SafeToDelete(e) /\ Stays(e, d)
  <2>1. SameProc(c, d)
    BY <1>2 DEF Stays, Disturbed, Signalled, SameMessages, Untouched, Kept,
                SameProc
  <2> QED BY <2>1 DEF c, d
<1>3. CASE d = SetClientState(c, DELETEME)
  <2>1. DELETEME \in ClientStates \ {RESETME}
    BY StatesOrdered
  <2>2. SameProc(c, d)
    BY <1>1, <1>3, <2>1, SetClientStateLeaves
       DEF Leaves, SameChild, SameScript, SameProc
  <2> QED BY <2>2 DEF c, d
<1>4. CASE \E o \in IoOutcomes(c) : d = IoClient(c, o)
  <2>1. SameProc(c, d)
    BY <1>1, <1>4, IoClientLeaves
       DEF Leaves, SameChild, SameScript, SameProc
  <2> QED BY <2>1 DEF c, d
<1>5. CASE \E q \in ServerOutcome : d = ServeClient(c, q)
  <2>1. SameProc(c, d)
    BY <1>1, <1>5, ServeClientServes DEF Serves, SameScript, SameProc
  <2> QED BY <2>1 DEF c, d
<1>6. CASE \E o \in CgiOutcomes(c) : d = CgiClient(c, o)
  BY <1>6 DEF c, d
<1> QED BY <1>2, <1>3, <1>4, <1>5, <1>6 DEF Proceeds, c, d

(* Only ServerManager::loop makes an answer, and no step takes a client's  *)
(* child sockets.                                                          *)
LEMMA FollowsShows ==
  ASSUME NEW c \in ClientRec, NEW d, Follows(c, d)
  PROVE  /\ d \in ClientRec
         /\ HasChildFds(c) => HasChildFds(d)
         /\ \/ d.hist.generated = c.hist.generated
            \/ \E q \in ServerOutcome : d = ServeClient(c, q)
<1>1. CASE Leaves(c, d) \/ SameClient(c, d)
  BY <1>1 DEF Leaves, SameClient, SameChild, SameScript, SameAnswer
<1>2. CASE Leaves(HandleClient(c, flag), d)
  BY <1>2, HandleClientType
     DEF Leaves, SameChild, SameScript, SameAnswer, SameButSignals
<1>3. CASE \E q \in ServerOutcome : d = ServeClient(c, q)
  BY <1>3, ServeClientServes DEF Serves, SameScript
<1>4. CASE \E o \in CgiOutcomes(c) : d = CgiClient(c, o)
  BY <1>4, CgiClientType DEF SameRequest, SameAnswer
<1> QED BY <1>1, <1>2, <1>3, <1>4 DEF Follows

-----------------------------------------------------------------------------
(* The invariant: what was proved before, put together.                    *)

CInv ==
  /\ AInv /\ QInv /\ RInv /\ HInv
  /\ ShutdownMarksAll /\ EmptyAtExit

LEMMA NextHeld ==
  ASSUME "waitpid" \notin Faults, AInv, HInv, [Next]_vars
  PROVE  HInv'
<1> SUFFICES ASSUME NEW s \in Live' PROVE Held(clients'[s])
  BY DEF HInv
<1>1. CASE s \notin Live
  <2>1. PICK allocated \in BOOLEAN : clients'[s] = NewClient(allocated)
    BY <1>1, ClientsFollow DEF AInv
  <2> QED BY <2>1 DEF NewClient, Held
<1>2. CASE s \in Live
  <2> DEFINE c == clients[s]
             d == clients'[s]
  <2>1. /\ c \in ClientRec /\ Held(c) /\ c.waitReturn >= 0
        /\ Follows(c, d) /\ Proceeds(s)
    BY <1>2, LiveClients, ClientsFollow, ClientsProceed
       DEF AInv, IInv, HInv, Accounted
  <2>2. \/ SameProc(c, d)
        \/ \E o \in CgiOutcomes(c) : d = CgiClient(c, o)
    BY <1>2, <2>1, ProceedsProc DEF AInv
  <2> HIDE DEF c, d
  <2>3. HasChildFds(c) => HasChildFds(d)
    BY <2>1, FollowsShows
  <2>4. Held(d)
    BY <2>1, <2>2, <2>3, CgiClientShows DEF Held, SameProc
  <2> QED BY <2>4 DEF d
<1> QED BY <1>1, <1>2

LEMMA NextConnected ==
  ASSUME "waitpid" \notin Faults, CInv, [Next]_vars
  PROVE  CInv'
<1>1. IInv
  BY DEF CInv, AInv
<1> QED BY <1>1, NextAccounted, NextSound, NextSettled, NextHeld,
           NextMarksAll, NextEmptyAtExit DEF CInv

-----------------------------------------------------------------------------
(* What a step shows of a client that stays: nothing, that its script      *)
(* ends, that its script starts, or that it gets its answer.               *)

SameViews(c, d) ==
  ScriptSeen(d) = ScriptSeen(c) /\ AnswerSeen(d) = AnswerSeen(c)

ScriptEnds(c, d) ==
  /\ ScriptSeen(c) = "running" /\ ScriptSeen(d) \in {"failed", "succeeded"}
  /\ AnswerSeen(d) = AnswerSeen(c)

ScriptStarts(c, d) ==
  /\ flag # 2
  /\ ScriptSeen(c) = "none"
  /\ ScriptSeen(d) \in {"running", "failed", "succeeded"}
  /\ AnswerSeen(c) = "none" /\ AnswerSeen(d) = "none"

GetsAnswer(c, d) ==
  /\ flag # 2
  /\ ScriptSeen(c) # "running" /\ ScriptSeen(d) = ScriptSeen(c)
  /\ AnswerSeen(c) = "none" /\ AnswerSeen(d) \in {"own", "script", "lost"}
  /\ AnswerSeen(d) = "script" => ScriptSeen(c) = "succeeded"

Shows(c, d) ==
  \/ SameViews(c, d) \/ ScriptEnds(c, d)
  \/ ScriptStarts(c, d) \/ GetsAnswer(c, d)

LEMMA ScriptViews ==
  ASSUME NEW c \in ClientRec
  PROVE  /\ ScriptSeen(c) = "none" <=> c.proc = "none"
         /\ ScriptSeen(c) = "running" <=> Unreaped(c)
         /\ ScriptSeen(c) = "succeeded" <=> c.proc = "reaped0"
         /\ ScriptSeen(c) = "failed" <=> c.proc = "reapedN"
         /\ ScriptSeen(c) \in {"none", "running", "failed", "succeeded"}
<1>1. c.proc \in ProcState
  BY DEF ClientRec
<1> QED BY <1>1 DEF ScriptSeen, Unreaped, ProcState, Ended, Reaped

LEMMA AnswerViews ==
  ASSUME NEW c \in ClientRec, Settled(c)
  PROVE  /\ c.hist.generated \in {0, 1}
         /\ AnswerSeen(c) = "none" <=> c.hist.generated = 0
         /\ AnswerSeen(c) \in {"none", "own", "script", "lost"}
         /\ AnswerSeen(c) = "script" => c.msg["RESP_MSG"].kind = "cgi"
BY DEF AnswerSeen, Settled

LEMMA SameProcViews ==
  ASSUME NEW c \in ClientRec, NEW d \in ClientRec, SameProc(c, d)
  PROVE  ScriptSeen(d) = ScriptSeen(c)
BY DEF SameProc, ScriptSeen, Unreaped, Ended

LEMMA ClientShows ==
  ASSUME "waitpid" \notin Faults, CInv, CInv', [Next]_vars,
         NEW s \in Live, s \in Live'
  PROVE  Shows(clients[s], clients'[s])
<1> DEFINE c == clients[s]
           d == clients'[s]
<1>0. /\ IInv /\ c \in ClientRec /\ Sound(c) /\ Settled(c) /\ Held(c)
      /\ Accounted(c)
      /\ flag = 2 => c.clientState >= DELETEME
  BY LiveClients DEF CInv, AInv, QInv, RInv, HInv, ShutdownMarksAll, IInv
<1>2. Follows(c, d) /\ Proceeds(s)
  BY <1>0, ClientsFollow, ClientsProceed
<1>1. /\ IInv /\ c \in ClientRec /\ Sound(c) /\ Settled(c) /\ Held(c)
      /\ Accounted(c)
      /\ flag = 2 => c.clientState >= DELETEME
      /\ Unstarted(c) => c.clientState = DO_CGISEND
      /\ d \in ClientRec /\ EndedWell(d) /\ Settled(d) /\ Accounted(d)
  <2>1. d \in ClientRec
    BY <1>0, <1>2, FollowsShows
  <2>2. EndedWell(d) /\ Settled(d) /\ Accounted(d)
    BY DEF CInv, AInv, QInv, RInv, Sound
  <2> QED BY <1>0, <2>1, <2>2 DEF Sound, Connected
<1>3. \/ SameProc(c, d)
      \/ \E o \in CgiOutcomes(c) : d = CgiClient(c, o)
  BY <1>1, <1>2, ProceedsProc
<1>4. c.hist.generated = 1 =>
        SameButPosition(c.msg["RESP_MSG"], d.msg["RESP_MSG"])
  BY <1>2, AnswerKept DEF CInv
<1> HIDE DEF c, d
<1>5. \/ d.hist.generated = c.hist.generated
      \/ \E q \in ServerOutcome : d = ServeClient(c, q)
  BY <1>1, <1>2, FollowsShows
<1>6. CASE d.hist.generated = c.hist.generated
  <2>1. AnswerSeen(d) = AnswerSeen(c)
    BY <1>1, <1>4, <1>6, AnswerViews DEF AnswerSeen, SameButPosition
  <2>2. CASE ScriptSeen(d) = ScriptSeen(c)
    BY <2>1, <2>2 DEF Shows, SameViews, c, d
  <2>3. CASE ScriptSeen(d) # ScriptSeen(c)
    <3>1. PICK o \in CgiOutcomes(c) : d = CgiClient(c, o)
      BY <1>1, <1>3, <2>3, SameProcViews
    <3>2. \/ d.proc = c.proc
          \/ Unreaped(c) /\ d.proc \in Reaped
          \/ /\ c.proc = "none" /\ Unstarted(c)
             /\ d.proc \in {"running"} \cup Ended \cup Reaped
      BY <1>1, <3>1, CgiClientShows DEF Accounted
    <3>3. d.proc # c.proc
      BY <1>1, <2>3, SameProcViews DEF SameProc
    <3>4. CASE Unreaped(c) /\ d.proc \in Reaped
      <4>1. ScriptEnds(c, d)
        BY <1>1, <2>1, <3>4, ScriptViews DEF ScriptEnds, Reaped
      <4> QED BY <4>1 DEF Shows, c, d
    <3>5. CASE /\ c.proc = "none" /\ Unstarted(c)
               /\ d.proc \in {"running"} \cup Ended \cup Reaped
      <4>1. c.cgiFlag /\ c.hist.generated = 0
        BY <1>1, <3>5 DEF Unstarted, Settled
      <4>2. flag # 2
        BY <1>1, <3>5, StatesOrdered
      <4>3. ScriptSeen(c) = "none" /\ ScriptSeen(d) # "none"
        BY <1>1, <3>5, ScriptViews DEF Ended, Reaped
      <4>4. ScriptStarts(c, d)
        BY <1>1, <2>1, <4>1, <4>2, <4>3, ScriptViews, AnswerViews
           DEF ScriptStarts
      <4> QED BY <4>4 DEF Shows, c, d
    <3> QED BY <3>2, <3>3, <3>4, <3>5
  <2> QED BY <2>2, <2>3
<1>7. CASE d.hist.generated # c.hist.generated
  <2>1. PICK q \in ServerOutcome : d = ServeClient(c, q)
    BY <1>5, <1>7
  <2>2. /\ d.proc = c.proc
        /\ c.hist.generated = 1 => d.hist.generated = 1
    BY <1>1, <2>1, ServeClientServes DEF Serves, SameScript, StaysSettled
  <2>3. c.hist.generated = 0 /\ d.hist.generated = 1
    BY <1>1, <1>7, <2>2, AnswerViews
  <2>4. c.clientState # DELETEME
    BY <1>7, <2>1 DEF ServeClient
  <2>5. flag # 2
    BY <1>1, <2>4, StatesOrdered DEF Settled, ClientRec
  <2>6. ScriptSeen(d) = ScriptSeen(c)
    BY <1>1, <2>2, SameProcViews DEF SameProc
  <2>7. ~Unreaped(d)
    BY <1>1, <2>3 DEF Settled, Accounted
  <2>8. AnswerSeen(d) = "script" => ScriptSeen(d) = "succeeded"
    BY <1>1, AnswerViews, ScriptViews DEF EndedWell
  <2>9. ScriptSeen(d) # "running"
    BY <1>1, <2>7, ScriptViews
  <2>10. AnswerSeen(c) = "none" /\ AnswerSeen(d) \in {"own", "script", "lost"}
    BY <1>1, <2>3, AnswerViews
  <2> QED BY <2>5, <2>6, <2>8, <2>9, <2>10 DEF Shows, GetsAnswer, c, d
<1> QED BY <1>6, <1>7

(* A new client shows nothing yet.                                         *)
LEMMA NewClientShows ==
  ASSUME NEW allocated \in BOOLEAN
  PROVE  /\ ScriptSeen(NewClient(allocated)) = "none"
         /\ AnswerSeen(NewClient(allocated)) = "none"
BY DEF NewClient, NoHistory, ScriptSeen, AnswerSeen, Unreaped, Ended

-----------------------------------------------------------------------------
(* The steps.                                                              *)

(* A step changes no client, one, or all of them in a way seen from every  *)
(* one of them.                                                            *)
OneChanges(s) == \E d : clients' = [clients EXCEPT ![s] = d]

LEMMA StepsAreLocal ==
  ASSUME IInv, [Next]_vars, ~Thrown
  PROVE  \/ UNCHANGED clients
         \/ PrepareWait \/ ShutdownServer
         \/ \E s \in Slots : OneChanges(s)
<1>1. CASE AcceptNewClient
  BY <1>1 DEF AcceptNewClient, OneChanges
<1>2. ASSUME NEW e \in batch, HandleClientEvent(e) \/ HandleCgiEvent(e)
      PROVE  UNCHANGED clients \/ \E s \in Slots : OneChanges(s)
  BY <1>2 DEF HandleClientEvent, HandleCgiEvent, OneChanges, Live
<1>3. ASSUME NEW s \in todo, IoStep(s) \/ ServerStep(s) \/ CgiStep(s)
      PROVE  \E r \in Slots : OneChanges(r)
  <2>1. s \in Slots
    BY DEF IInv, TypeOK
  <2> QED BY <1>3, <2>1 DEF IoStep, ServerStep, CgiStep, OneChanges
<1>4. ASSUME NEW s \in Live, ClientMoves(s)
      PROVE  \E r \in Slots : OneChanges(r)
  <2>1. s \in Slots
    BY DEF Live
  <2>2. \E c : clients' = [clients EXCEPT ![s] = c]
    BY <1>4, ClientMovesEffect DEF Moved
  <2> QED BY <2>1, <2>2 DEF OneChanges
<1>5. CASE EpollWait \/ EndOfBatch \/ NextLoop \/ Connect \/ Sigint
           \/ UNCHANGED vars
  BY <1>5 DEF EpollWait, EndOfBatch, NextLoop, Connect, Sigint, vars
<1> QED BY <1>1, <1>2, <1>3, <1>4, <1>5
        DEF Next, Server, Environment, ClientMoves, Thrown

(* Only the signal, shutdownServer() and an exception change what is seen  *)
(* of the server.                                                          *)
LEMMA ModeKept ==
  ASSUME IInv, [Next]_vars, ~Sigint, ~ShutdownServer, ~Thrown
  PROVE  ModeSeen' = ModeSeen /\ (Over' <=> Over)
<1>1. flag' = flag
  BY FlagAdvances
<1>2. Over' <=> Over
  <2>1. CASE \/ PrepareWait \/ EpollWait \/ AcceptNewClient \/ EndOfBatch
             \/ NextLoop \/ Connect \/ UNCHANGED vars
    BY <2>1 DEF PrepareWait, EpollWait, AcceptNewClient, EndOfBatch, NextLoop,
                Connect, vars, Over
  <2>2. ASSUME NEW e \in batch, HandleClientEvent(e) \/ HandleCgiEvent(e)
        PROVE  phase' = phase
    BY <2>2 DEF HandleClientEvent, HandleCgiEvent
  <2>3. ASSUME NEW s \in todo, IoStep(s) \/ ServerStep(s) \/ CgiStep(s)
        PROVE  phase' = phase
    BY <2>3 DEF IoStep, ServerStep, CgiStep, Visit
  <2>4. ASSUME NEW s \in Live, ClientMoves(s)
        PROVE  phase' = phase
    BY <2>4, ClientMovesEffect DEF Moved
  <2> QED BY <2>1, <2>2, <2>3, <2>4
          DEF Next, Server, Environment, ClientMoves, Thrown, Over
<1> QED BY <1>1, <1>2 DEF ModeSeen

(* A server that has ended takes no step.                                  *)
LEMMA OverStutters ==
  ASSUME IInv, EmptyAtExit, Over, [Next]_vars
  PROVE  UNCHANGED vars
<1>1. /\ phase \in {"exit", "down"} /\ todo = {} /\ batch = {} /\ Live = {}
  BY DEF IInv, LoopOK, EmptyAtExit, Over
<1>2. ~Sigint /\ ~Connect
  BY <1>1 DEF Sigint, Over, Connect
<1>3. ~(\/ PrepareWait \/ EpollWait \/ AcceptNewClient \/ EndOfBatch
        \/ NextLoop \/ ShutdownServer)
  BY <1>1 DEF PrepareWait, EpollWait, AcceptNewClient, EndOfBatch, NextLoop,
              ShutdownServer
<1> QED BY <1>1, <1>2, <1>3 DEF Next, Server, Environment

(* What is seen of the clients but one.                                    *)
LEMMA ViewsAreLocal ==
  ASSUME NEW s \in Slots, \A r \in Slots \ {s} : clients'[r] = clients[r]
  PROVE  /\ ScriptsSeen' = [ScriptsSeen EXCEPT ![s] = ScriptsSeen'[s]]
         /\ AnswersSeen' = [AnswersSeen EXCEPT ![s] = AnswersSeen'[s]]
         /\ Live' \ {s} = Live \ {s}
<1>1. \A r \in Slots \ {s} : r \in Live' <=> r \in Live
  BY DEF Live
<1> QED BY <1>1 DEF ScriptsSeen, AnswersSeen, Live

(* A step that every client only shows the same way changes nothing seen.  *)
LEMMA NothingShows ==
  ASSUME Live' = Live, \A s \in Live : SameViews(clients[s], clients'[s])
  PROVE  ScriptsSeen' = ScriptsSeen /\ AnswersSeen' = AnswersSeen
BY DEF ScriptsSeen, AnswersSeen, SameViews

LEMMA LeavesViews ==
  ASSUME NEW c \in ClientRec, NEW d, Leaves(c, d), d.msg = c.msg
  PROVE  SameViews(c, d)
BY DEF Leaves, SameChild, SameScript, SameAnswer, SameViews, ScriptSeen,
       AnswerSeen, Unreaped

LEMMA PrepareWaitShows ==
  ASSUME IInv, PrepareWait
  PROVE  Live' = Live /\ \A s \in Live : SameViews(clients[s], clients'[s])
<1>1. ASSUME NEW s \in Live
      PROVE  SameViews(clients[s], clients'[s]) /\ clients'[s] # NoClient
  <2> DEFINE c == clients[s]
             d == AddChildSocketsToEpoll(c)
  <2>1. clients'[s] = d /\ c \in ClientRec
    BY LiveClients DEF PrepareWait, IInv, Live
  <2> HIDE DEF c
  <2>2. Leaves(c, d) /\ Stays(c, d)
    BY <2>1, AddChildSocketsToEpollLeaves, AddChildSocketsToEpollStays
  <2> HIDE DEF d
  <2>3. SameViews(c, d)
    BY <2>1, <2>2, LeavesViews DEF Stays, SameMessages
  <2> QED BY <2>1, <2>2, <2>3, NoClientAssumption DEF c, Leaves
<1>2. \A s \in Slots \ Live : clients'[s] = NoClient
  BY DEF PrepareWait
<1> QED BY <1>1, <1>2 DEF Live

LEMMA ShutdownShows ==
  ASSUME IInv, ShutdownServer
  PROVE  Live' = Live /\ \A s \in Live : SameViews(clients[s], clients'[s])
<1>1. Live' = Live
  BY ShutdownLive
<1>2. ASSUME NEW s \in Live
      PROVE  SameViews(clients[s], clients'[s])
  <2> DEFINE c == clients[s]
             d == clients'[s]
  <2>1. c \in ClientRec /\ Leaves(c, d)
    BY LiveClients, ShutdownLive DEF IInv
  <2>2. d = c \/ d = SetClientState(c, DELETEME)
    BY DEF ShutdownServer, MarkAll, Live
  <2> HIDE DEF c, d
  <2>3. d.msg = c.msg
    BY <2>1, <2>2, SetClientStateUntouched, StatesOrdered DEF SameMessages
  <2> QED BY <2>1, <2>3, LeavesViews DEF c, d
<1> QED BY <1>1, <1>2

(* A step that changes one client shows as a step of its connection.       *)
LEMMA OneClientKeepsPromise ==
  ASSUME "waitpid" \notin Faults, CInv, CInv', [Next]_vars,
         ~Over, ~Over', ModeSeen' = ModeSeen, NEW s \in Slots, OneChanges(s)
  PROVE  [Promise!Next]_(Promise!vars)
<1>1. IInv /\ "alive" \notin left /\ "alive" \notin left'
  BY DEF CInv, AInv, Over
<1>2. \A r \in Slots \ {s} : clients'[r] = clients[r]
  BY <1>1 DEF OneChanges, IInv, TypeOK
<1>3. /\ ScriptsSeen' = [ScriptsSeen EXCEPT ![s] = ScriptsSeen'[s]]
      /\ AnswersSeen' = [AnswersSeen EXCEPT ![s] = AnswersSeen'[s]]
      /\ Live' \ {s} = Live \ {s}
  BY <1>2, ViewsAreLocal
<1>4. Live \subseteq Slots /\ Live' \subseteq Slots
  BY DEF Live
<1>5. UNCHANGED ("alive" \in left)
  BY <1>1
<1>6. /\ flag \in 0..2
      /\ flag = 0 => ModeSeen = "open"
      /\ flag = 1 => ModeSeen = "asked"
  BY <1>1 DEF IInv, TypeOK, ModeSeen
<1>7. CASE s \notin Live /\ s \notin Live'
  <2>1. /\ ScriptsSeen'[s] = ScriptsSeen[s] /\ AnswersSeen'[s] = AnswersSeen[s]
        /\ Live' = Live
    BY <1>3, <1>4, <1>7 DEF ScriptsSeen, AnswersSeen
  <2>2. UNCHANGED <<ScriptsSeen, AnswersSeen>>
    BY <1>3, <2>1 DEF ScriptsSeen, AnswersSeen
  <2> QED BY <1>5, <2>1, <2>2 DEF Promise!vars
<1>8. CASE s \notin Live /\ s \in Live'
  <2>1. AcceptNewClient /\ flag = 0
    BY <1>1, <1>8, NoneJoins DEF Live
  <2>2. ModeSeen = "open"
    BY <1>6, <2>1
  <2>3. PICK allocated \in BOOLEAN : clients'[s] = NewClient(allocated)
    BY <1>1, <1>8, ClientsFollow
  <2>4. ScriptsSeen'[s] = "none" /\ AnswersSeen'[s] = "none"
    BY <1>8, <2>3, NewClientShows DEF ScriptsSeen, AnswersSeen
  <2>5. UNCHANGED <<ScriptsSeen, AnswersSeen>>
    <3>1. /\ ScriptsSeen[s] = "none" /\ AnswersSeen[s] = "none"
          /\ ScriptsSeen = [r \in Slots |-> ScriptsSeen[r]]
          /\ AnswersSeen = [r \in Slots |-> AnswersSeen[r]]
      BY <1>8 DEF ScriptsSeen, AnswersSeen
    <3>2. ScriptsSeen' = ScriptsSeen
      BY <1>3, <2>4, <3>1
    <3>3. AnswersSeen' = AnswersSeen
      BY <1>3, <2>4, <3>1
    <3> QED BY <3>2, <3>3
  <2>6. Live' = Live \cup {s}
    BY <1>3, <1>8
  <2>7. Promise!Accept(s)
    BY <1>5, <1>8, <2>2, <2>5, <2>6 DEF Promise!Accept
  <2> QED BY <2>7 DEF Promise!Next
<1>9. CASE s \in Live /\ s \notin Live'
  <2>1. ScriptsSeen'[s] = "none" /\ AnswersSeen'[s] = "none"
    BY <1>9 DEF ScriptsSeen, AnswersSeen
  <2>2. Live' = Live \ {s}
    BY <1>3, <1>9
  <2>3. Promise!Leave(s)
    BY <1>3, <1>5, <1>9, <2>1, <2>2 DEF Promise!Leave
  <2> QED BY <2>3 DEF Promise!Next
<1>10. CASE s \in Live /\ s \in Live'
  <2> DEFINE c == clients[s]
             d == clients'[s]
  <2>1. Shows(c, d)
    BY <1>10, ClientShows
  <2>2. /\ ScriptsSeen[s] = ScriptSeen(c) /\ ScriptsSeen'[s] = ScriptSeen(d)
        /\ AnswersSeen[s] = AnswerSeen(c) /\ AnswersSeen'[s] = AnswerSeen(d)
    BY <1>10 DEF ScriptsSeen, AnswersSeen
  <2>3. Live' = Live
    BY <1>3, <1>10
  <2>4. flag # 2 => ModeSeen \in {"open", "asked"}
    BY <1>6
  <2>5. /\ ScriptsSeen'[s] = ScriptsSeen[s] => UNCHANGED ScriptsSeen
        /\ AnswersSeen'[s] = AnswersSeen[s] => UNCHANGED AnswersSeen
    BY <1>3 DEF ScriptsSeen, AnswersSeen
  <2> HIDE DEF c, d
  <2>6. CASE SameViews(c, d)
    BY <1>5, <2>2, <2>3, <2>5, <2>6 DEF SameViews, Promise!vars
  <2>7. CASE ScriptEnds(c, d)
    <3>1. Promise!End(s)
      BY <1>3, <1>5, <1>10, <2>2, <2>3, <2>5, <2>7
         DEF ScriptEnds, Promise!End
    <3> QED BY <3>1 DEF Promise!Next
  <2>8. CASE ScriptStarts(c, d)
    <3>1. Promise!Start(s)
      BY <1>3, <1>5, <1>10, <2>2, <2>3, <2>4, <2>5, <2>8
         DEF ScriptStarts, Promise!Start, Promise!Working
    <3> QED BY <3>1 DEF Promise!Next
  <2>9. CASE GetsAnswer(c, d)
    <3>1. Promise!Answer(s)
      BY <1>3, <1>5, <1>10, <2>2, <2>3, <2>4, <2>5, <2>9
         DEF GetsAnswer, Promise!Answer, Promise!Working
    <3> QED BY <3>1 DEF Promise!Next
  <2> QED BY <2>1, <2>6, <2>7, <2>8, <2>9 DEF Shows
<1> QED BY <1>7, <1>8, <1>9, <1>10

(* A SIGINT, and what shutdownServer() makes of it.                        *)
LEMMA ShutdownKeepsPromise ==
  ASSUME CInv, CInv', [Next]_vars, Sigint \/ ShutdownServer
  PROVE  [Promise!Next]_(Promise!vars)
<1>1. IInv /\ flag \in 0..2 /\ UNCHANGED left
  BY DEF CInv, AInv, IInv, TypeOK, Sigint, ShutdownServer
<1>2. CASE Sigint
  <2>1. UNCHANGED <<Live, ScriptsSeen, AnswersSeen>>
    BY <1>2 DEF Sigint, Live, ScriptsSeen, AnswersSeen
  <2>2. ModeSeen = "open" /\ ModeSeen' = "asked"
    BY <1>2 DEF Sigint, ModeSeen, Over
  <2>3. Promise!Ask
    BY <1>1, <2>1, <2>2 DEF Promise!Ask
  <2> QED BY <2>3 DEF Promise!Next
<1>3. CASE ShutdownServer
  <2>1. UNCHANGED <<Live, ScriptsSeen, AnswersSeen>>
    BY <1>1, <1>3, ShutdownShows, NothingShows
  <2>2. CASE flag # 0 /\ Live = {}
    <3>1. ModeSeen \in {"asked", "closing"} /\ ModeSeen' = "over"
      BY <1>1, <1>3, <2>2 DEF ShutdownServer, MayExit, ModeSeen, Over
    <3>2. Promise!Stop
      BY <1>1, <2>1, <2>2, <3>1 DEF Promise!Stop
    <3> QED BY <3>2 DEF Promise!Next
  <2>3. CASE flag = 1 /\ Live # {}
    <3>1. ModeSeen = "asked" /\ ModeSeen' = "closing"
      BY <1>3, <2>3 DEF ShutdownServer, MayExit, ModeSeen, Over
    <3>2. Promise!Close
      BY <1>1, <2>1, <3>1 DEF Promise!Close
    <3> QED BY <3>2 DEF Promise!Next
  <2>4. CASE flag = 0 \/ (flag = 2 /\ Live # {})
    <3>1. ModeSeen' = ModeSeen
      BY <1>3, <2>4 DEF ShutdownServer, MayExit, ModeSeen, Over
    <3> QED BY <1>1, <2>1, <3>1 DEF Promise!vars
  <2> QED BY <1>1, <2>2, <2>3, <2>4
<1> QED BY <1>2, <1>3

(* A request header, or a script's, is only made of bytes received before  *)
(* there is an answer.                                                     *)
LEMMA IoThrowsUnanswered ==
  ASSUME NEW c \in ClientRec, Settled(c), NEW o, IoThrows(c, o)
  PROVE  c.hist.generated = 0 /\ c.clientState < DELETEME
BY StatesOrdered DEF IoThrows, Receives, Settled, ClientRec

(* ServerManager::loop looks up a location for a request it has not        *)
(* checked, and answers a request it has not answered.                     *)
LEMMA ServerThrowsUnanswered ==
  ASSUME NEW c \in ClientRec, Settled(c),
         NEW q \in ServerOutcome, ServerThrows(c, q)
  PROVE  c.hist.generated = 0 /\ c.clientState < DELETEME
<1>1. c.clientState < DELETEME
  BY StatesOrdered DEF ServerThrows, Settled, ClientRec, ClientStates
<1>2. CASE ~c.isRequestChecked
  BY <1>1, <1>2 DEF Settled
<1>3. CASE c.isRequestChecked
  <2> DEFINE d == Routed(c, q)
  <2>1. d.clientState = DO_RESPONSE /\ ~NotYet(d)
    BY <1>3 DEF ServerThrows
  <2>2. Keeps(c, d) /\ (d.cgiFlag = c.cgiFlag \/ d.clientState = DO_CGISEND)
    BY RoutedKeeps
  <2> HIDE DEF d
  <2>3. d.cgiFlag = c.cgiFlag
    BY <2>1, <2>2, StatesOrdered
  <2>4. SUFFICES ASSUME c.hist.generated = 1 PROVE FALSE
    BY <1>1 DEF Settled
  <2>5. ~c.cgiFlag /\ c.msg["RESP_MSG"].state = "COMPLETE"
    BY <1>1, <2>4, StatesOrdered DEF Settled
  <2>6. d.msg["RESP_MSG"].state = "COMPLETE"
    BY <2>2, <2>5 DEF Keeps, SameChild, SameAnswer
  <2> QED BY <2>1, <2>3, <2>5, <2>6 DEF NotYet
<1> QED BY <1>1, <1>2, <1>3

(* An exception that leaves the loop shows as the failure of the server at *)
(* work on the request of one connection.                                  *)
LEMMA ThrowKeepsPromise ==
  ASSUME CInv, Thrown
  PROVE  Promise!Next
<1>1. /\ IInv /\ ~Over /\ "alive" \notin left
      /\ \A r \in Live : Accounted(clients[r]) /\ Settled(clients[r])
      /\ Live \subseteq Slots
  BY ThrownEffect DEF CInv, AInv, RInv, Over, Live
<1>2. /\ phase' = "down" /\ clients' = [r \in Slots |-> NoClient]
      /\ Live' = {}
      /\ left' = left \cup UNION { LeftBy(clients[r]) : r \in Live }
  BY <1>1, ThrownEffect
<1>3. PICK s \in todo : IoThrow(s) \/ ServerThrow(s)
  BY DEF Thrown
<1>4. s \in Live /\ clients[s] \in ClientRec /\ Settled(clients[s])
  BY <1>1, LiveClients DEF IInv, LoopOK
<1>5. clients[s].hist.generated = 0 /\ clients[s].clientState < DELETEME
  <2>1. CASE IoThrow(s)
    BY <1>4, <2>1, IoThrowsUnanswered DEF IoThrow
  <2>2. CASE ServerThrow(s)
    BY <1>4, <2>2, ServerThrowsUnanswered DEF ServerThrow, ServerOutcomes
  <2> QED BY <1>3, <2>1, <2>2
<1>6. flag # 2 /\ flag \in 0..2
  <2>1. flag = 2 => clients[s].clientState >= DELETEME
    BY <1>4 DEF CInv, ShutdownMarksAll
  <2> QED BY <1>1, <1>4, <1>5, <2>1, StatesOrdered
          DEF IInv, TypeOK, ClientRec, ClientStates
<1>7. Promise!Working(s)
  <2>1. AnswersSeen[s] = "none"
    BY <1>1, <1>4, <1>5, AnswerViews DEF AnswersSeen
  <2>2. ModeSeen \in {"open", "asked"}
    BY <1>1, <1>6 DEF ModeSeen
  <2> QED BY <1>4, <2>1, <2>2 DEF Promise!Working
<1>8. /\ ScriptsSeen' = [r \in Slots |-> "none"]
      /\ AnswersSeen' = [r \in Slots |-> "none"]
      /\ ModeSeen' = "over"
  BY <1>2 DEF ScriptsSeen, AnswersSeen, ModeSeen, Over
<1>9. ("alive" \in left')
        \in {"alive" \in left, \E r \in Live : ScriptsSeen[r] = "running"}
  <2>1. ASSUME "alive" \in left'
        PROVE  \E r \in Live : ScriptsSeen[r] = "running"
    <3>1. PICK r \in Live : "alive" \in LeftBy(clients[r])
      BY <1>1, <1>2, <2>1
    <3>2. Unreaped(clients[r]) /\ clients[r] \in ClientRec
      BY <1>1, <3>1, LiveClients DEF LeftBy, IInv
    <3>3. ScriptsSeen[r] = "running"
      BY <1>1, <3>1, <3>2, ScriptViews DEF ScriptsSeen
    <3> QED BY <3>1, <3>3
  <2>2. CASE "alive" \in left'
    <3>1. ("alive" \in left') = \E r \in Live : ScriptsSeen[r] = "running"
      BY <2>1, <2>2
    <3> QED BY <3>1
  <2>3. CASE "alive" \notin left'
    <3>1. ("alive" \in left') = ("alive" \in left)
      BY <1>1, <2>3
    <3> QED BY <3>1
  <2> QED BY <2>2, <2>3
<1>10. Promise!Fail(s)
  BY <1>2, <1>7, <1>8, <1>9 DEF Promise!Fail
<1> QED BY <1>1, <1>4, <1>10 DEF Promise!Next

LEMMA StepKeepsPromise ==
  ASSUME "waitpid" \notin Faults, CInv, CInv', [Next]_vars
  PROVE  [Promise!Next]_(Promise!vars)
<1>1. IInv /\ EmptyAtExit
  BY DEF CInv, AInv
<1>2. CASE Sigint \/ ShutdownServer
  BY <1>2, ShutdownKeepsPromise
<1>3. CASE Thrown
  BY <1>3, ThrowKeepsPromise
<1>4. CASE Over
  <2>1. UNCHANGED vars
    BY <1>1, <1>4, OverStutters
  <2> QED BY <2>1 DEF vars, Promise!vars, Live, ScriptsSeen, AnswersSeen,
                      ModeSeen, Over
<1>5. CASE ~Sigint /\ ~ShutdownServer /\ ~Thrown /\ ~Over
  <2>1. ModeSeen' = ModeSeen /\ ~Over'
    BY <1>1, <1>5, ModeKept
  <2>2. UNCHANGED ("alive" \in left)
    BY <1>5, <2>1 DEF CInv, AInv, Over
  <2>3. CASE UNCHANGED clients
    <3>1. UNCHANGED <<Live, ScriptsSeen, AnswersSeen>>
      BY <2>3 DEF Live, ScriptsSeen, AnswersSeen
    <3> QED BY <2>1, <2>2, <3>1 DEF Promise!vars
  <2>4. CASE PrepareWait
    <3>1. UNCHANGED <<Live, ScriptsSeen, AnswersSeen>>
      BY <1>1, <2>4, PrepareWaitShows, NothingShows
    <3> QED BY <2>1, <2>2, <3>1 DEF Promise!vars
  <2>5. CASE \E s \in Slots : OneChanges(s)
    BY <1>5, <2>1, <2>5, OneClientKeepsPromise
  <2> QED BY <1>1, <1>5, <2>3, <2>4, <2>5, StepsAreLocal
<1> QED BY <1>2, <1>3, <1>4, <1>5

(* As long as waitpid does not fail, the server is an implementation of    *)
(* Connection: every client starts one script at most and gets one answer  *)
(* at most, a script's only once the script succeeded; none joins, starts  *)
(* a script or is answered once the shutdown has begun; no running script  *)
(* is left behind while the server runs; and it ends in two ways: asked    *)
(* to, with nobody connected, or by an exception thrown at work on a       *)
(* request it has not answered, which drops every connection and may leave *)
(* running scripts.                                                        *)
THEOREM ServerKeepsPromise ==
  ASSUME "waitpid" \notin Faults
  PROVE  Spec => KeepsPromise
<1>1. Init => CInv
  <2> SUFFICES ASSUME Init PROVE CInv
    OBVIOUS
  <2>1. IInv /\ Live = {} /\ flag = 0 /\ left = {} /\ ~Over
    BY InitTypes DEF Init, Live, Over
  <2> QED BY <2>1 DEF CInv, AInv, QInv, RInv, HInv, ShutdownMarksAll,
                     EmptyAtExit, Over
<1>2. CInv /\ [Next]_vars => CInv'
  BY NextConnected
<1>3. Init => Promise!Init
  <2> SUFFICES ASSUME Init PROVE Promise!Init
    OBVIOUS
  <2>1. Live = {} /\ flag = 0 /\ ~Over /\ "alive" \notin left
    BY DEF Init, Live, Over
  <2>2. /\ ScriptsSeen = [s \in Slots |-> "none"]
        /\ AnswersSeen = [s \in Slots |-> "none"]
        /\ ModeSeen = "open"
    BY <2>1 DEF ScriptsSeen, AnswersSeen, ModeSeen
  <2> QED BY <2>1, <2>2 DEF Promise!Init
<1>4. CInv /\ CInv' /\ [Next]_vars => [Promise!Next]_(Promise!vars)
  BY StepKeepsPromise
<1> QED BY <1>1, <1>2, <1>3, <1>4, PTL DEF Spec, KeepsPromise, Promise!Spec
=============================================================================
