---------------------------- MODULE ClientLemmas ----------------------------
(***************************************************************************)
(* What every handler returns for a client record of the right type: a     *)
(* record of the right type that agrees with the first one on what the     *)
(* accounting of the CGI child rests on, or differs from it as stated.     *)
(***************************************************************************)
EXTENDS Io, Cgi, ServerManager, ConnectionManager, TLAPS

(* d agrees with c on the child, its pid, its wait status and the signals  *)
(* sent to it, its state is not earlier, and it has child sockets if c has.*)
SameScript(c, d) ==
  /\ d.waitReturn = c.waitReturn
  /\ d.childPid = c.childPid
  /\ d.signalSent = c.signalSent
  /\ d.proc = c.proc
  /\ d.signal = c.signal
  /\ d.hist.stray = c.hist.stray
  /\ d.hist.forks = c.hist.forks
  /\ d.errorCode = 0 => c.errorCode = 0
  /\ d.age = c.age
  /\ d.clientState >= c.clientState
  /\ c.isRequestChecked => d.isRequestChecked
  /\ HasChildFds(d) <=> HasChildFds(c)

(* No answer was made meanwhile, and a complete response is so still.      *)
SameAnswer(c, d) ==
  /\ d.hist.generated = c.hist.generated
  /\ c.msg["RESP_MSG"].state = "COMPLETE"
       => d.msg["RESP_MSG"].state = "COMPLETE"
  /\ d.clientState = RESETME => c.clientState = RESETME

SameChild(c, d) == SameScript(c, d) /\ SameAnswer(c, d)

(* A handler that makes an answer may count it.                            *)
Serves(c, d) ==
  /\ d \in ClientRec
  /\ SameScript(c, d)
  /\ d.clientState = RESETME => c.clientState = RESETME

(* A handler that does not touch the child; one that does not touch        *)
(* anything about it either, the flag that a request is a CGI request.     *)
Keeps(c, d)  == d \in ClientRec /\ SameChild(c, d)
Leaves(c, d) == d \in ClientRec /\ SameChild(c, d) /\ d.cgiFlag = c.cgiFlag

(* A descriptor type a handler may set: the client has one of that type,   *)
(* or it is not the one that tells whether there are child sockets.        *)
MaySet(c, t) == t \in FdTypes /\ (t = "TOCHILD_FD" => HasChildFds(c))

LEMMA StatesOrdered ==
  ClientStates = 0..6 /\ DO_REQUEST = 0 /\ DO_CGISEND = 1 /\ DO_CGIREC = 2
  /\ DO_RESPONSE = 3 /\ CRITICAL_ERROR = 4 /\ DELETEME = 5 /\ RESETME = 6
BY DEF ClientStates, DO_REQUEST, DO_CGISEND, DO_CGIREC, DO_RESPONSE,
       CRITICAL_ERROR, DELETEME, RESETME

LEMMA LeavesReflexive == ASSUME NEW c \in ClientRec PROVE Leaves(c, c)
BY StatesOrdered DEF Leaves, SameChild, ClientRec, SameScript, SameAnswer

LEMMA LeavesTransitive ==
  ASSUME NEW c \in ClientRec, NEW d, NEW e, Leaves(c, d), Leaves(d, e)
  PROVE  Leaves(c, e)
BY StatesOrdered DEF Leaves, SameChild, ClientRec, SameScript, SameAnswer

LEMMA MaySetKept ==
  ASSUME NEW c, NEW d, NEW t, MaySet(c, t), Leaves(c, d)
  PROVE  MaySet(d, t)
BY DEF MaySet, Leaves, SameChild, SameScript, SameAnswer

LEMMA FdDataByTypeMaySet ==
  ASSUME NEW c \in ClientRec, NEW t \in FdTypes
  PROVE  MaySet(c, FdDataByType(c, t))
BY DEF MaySet, FdDataByType, HasChildFds, FdTypes

LEMMA SetClientStateLeaves ==
  ASSUME NEW c \in ClientRec, NEW s \in ClientStates \ {RESETME}
  PROVE  /\ Leaves(c, SetClientState(c, s))
         /\ SetClientState(c, s).clientState >= s
BY StatesOrdered DEF SetClientState, ClientRec, Leaves, SameChild,
                     HasChildFds, SameScript, SameAnswer

LEMMA SetErrorCodeLeaves ==
  ASSUME NEW c \in ClientRec, NEW e \in ErrorCodes \ {0}
  PROVE  /\ Leaves(c, SetErrorCode(c, e))
         /\ SetErrorCode(c, e).clientState = c.clientState
BY StatesOrdered
   DEF SetErrorCode, ClientRec, Leaves, SameChild, HasChildFds, SameScript,
       SameAnswer

LEMMA SetFdLeaves ==
  ASSUME NEW c \in ClientRec, NEW t, MaySet(c, t),
         NEW s \in FdStates \ {"ABSENT"}
  PROVE  Leaves(c, SetFd(c, t, s))
BY StatesOrdered DEF SetFd, ClientRec, MaySet, Leaves, SameChild, HasChildFds,
                     FdTypes, SameScript, SameAnswer

-----------------------------------------------------------------------------
(* Changing one field.                                                     *)

SameState(y, z) == z \in Message /\ z.state = y.state

LEMMA MessageFields ==
  ASSUME NEW y \in Message
  PROVE  /\ \A v \in MsgStates  : /\ [y EXCEPT !.state = v] \in Message
                                 /\ [y EXCEPT !.state = v].state = v
         /\ \A v \in HeadStates : SameState(y, [y EXCEPT !.head = v])
         /\ \A v \in BOOLEAN    : SameState(y, [y EXCEPT !.header = v])
         /\ \A v \in BOOLEAN    : SameState(y, [y EXCEPT !.body = v])
         /\ \A v \in {"head", "body", "end"} : SameState(y, [y EXCEPT !.it = v])
         /\ \A v \in Kinds      : SameState(y, [y EXCEPT !.kind = v])
BY DEF Message, SameState

(* The same signals went astray, as many scripts were started and answers  *)
(* made.                                                                   *)
SameCounts(h, g) ==
  /\ g \in History
  /\ g.stray = h.stray /\ g.forks = h.forks /\ g.generated = h.generated

LEMMA HistoryFields ==
  ASSUME NEW h \in History
  PROVE  /\ \A v \in 0..2 : LET g == [h EXCEPT !.generated = v] IN
              /\ g \in History /\ g.generated = v
              /\ g.stray = h.stray /\ g.forks = h.forks
         /\ \A v \in 0..2 : LET g == [h EXCEPT !.forks = v] IN
              /\ g \in History /\ g.forks = v
              /\ g.stray = h.stray /\ g.generated = h.generated
         /\ \A v \in BOOLEAN : SameCounts(h, [h EXCEPT !.rawSent = v])
         /\ \A v \in BOOLEAN : SameCounts(h, [h EXCEPT !.cut = v])
         /\ \A v \in BOOLEAN : SameCounts(h, [h EXCEPT !.earlySideEffect = v])
         /\ \A v \in BOOLEAN : SameCounts(h, [h EXCEPT !.idleRecv = v])
         /\ \A v \in BOOLEAN : SameCounts(h, [h EXCEPT !.fullSend = v])
BY DEF History, SameCounts

LEMMA ClientFields ==
  ASSUME NEW c \in ClientRec
  PROVE  /\ \A v \in ErrorCodes :
              (v = 0 => c.errorCode = 0)
              => Leaves(c, [c EXCEPT !.errorCode = v])
         /\ \A v \in [MsgTypes -> Message] :
              (c.msg["RESP_MSG"].state = "COMPLETE"
                 => v["RESP_MSG"].state = "COMPLETE")
              => Leaves(c, [c EXCEPT !.msg = v])
         /\ \A v \in BOOLEAN :
              (c.isRequestChecked => v)
              => LET d == [c EXCEPT !.isRequestChecked = v]
                 IN  Leaves(c, d) /\ d.isRequestChecked = v
         /\ \A v \in BOOLEAN : Leaves(c, [c EXCEPT !.virtualServer = v])
         /\ \A v \in BOOLEAN : Leaves(c, [c EXCEPT !.out = v])
         /\ \A v \in BOOLEAN : Leaves(c, [c EXCEPT !.toChild = v])
         /\ \A v \in BOOLEAN : Leaves(c, [c EXCEPT !.fromChild = v])
         /\ \A v \in SUBSET FdTypes : Leaves(c, [c EXCEPT !.epoll = v])
         /\ \A v \in {"idle", "data", "eof", "error"} :
              Leaves(c, [c EXCEPT !.in = v])
         /\ \A v \in History :
              SameCounts(c.hist, v) => Leaves(c, [c EXCEPT !.hist = v])
<1> USE StatesOrdered DEF ClientRec, Leaves, SameChild, HasChildFds,
                          SameScript, SameAnswer, SameCounts
<1>1. \A v \in ErrorCodes :
        (v = 0 => c.errorCode = 0) => Leaves(c, [c EXCEPT !.errorCode = v])
  OBVIOUS
<1>2. \A v \in [MsgTypes -> Message] :
        (c.msg["RESP_MSG"].state = "COMPLETE"
           => v["RESP_MSG"].state = "COMPLETE")
        => Leaves(c, [c EXCEPT !.msg = v])
  OBVIOUS
<1>3. \A v \in BOOLEAN :
        (c.isRequestChecked => v)
        => LET d == [c EXCEPT !.isRequestChecked = v]
           IN  Leaves(c, d) /\ d.isRequestChecked = v
  OBVIOUS
<1>4. \A v \in BOOLEAN : Leaves(c, [c EXCEPT !.virtualServer = v])
  OBVIOUS
<1>5. \A v \in BOOLEAN : Leaves(c, [c EXCEPT !.out = v])
  OBVIOUS
<1>6. \A v \in BOOLEAN : Leaves(c, [c EXCEPT !.toChild = v])
  OBVIOUS
<1>7. \A v \in BOOLEAN : Leaves(c, [c EXCEPT !.fromChild = v])
  OBVIOUS
<1>8. \A v \in SUBSET FdTypes : Leaves(c, [c EXCEPT !.epoll = v])
  OBVIOUS
<1>9. \A v \in {"idle", "data", "eof", "error"} :
        Leaves(c, [c EXCEPT !.in = v])
  OBVIOUS
<1>10. \A v \in History :
         SameCounts(c.hist, v) => Leaves(c, [c EXCEPT !.hist = v])
  OBVIOUS
<1> QED
  BY <1>1, <1>2, <1>3, <1>4, <1>5, <1>6, <1>7, <1>8, <1>9, <1>10, Zenon

(* One field of one message, one field of the history.                     *)
LEMMA MessageUpdate ==
  ASSUME NEW c \in ClientRec, NEW m \in MsgTypes
  PROVE  /\ \A v \in MsgStates  :
              (c.msg[m].state = "COMPLETE" => v = "COMPLETE")
              => Leaves(c, [c EXCEPT !.msg[m].state = v])
         /\ \A v \in HeadStates : Leaves(c, [c EXCEPT !.msg[m].head = v])
         /\ \A v \in BOOLEAN    : Leaves(c, [c EXCEPT !.msg[m].header = v])
         /\ \A v \in BOOLEAN    : Leaves(c, [c EXCEPT !.msg[m].body = v])
         /\ \A v \in {"head", "body", "end"} :
              Leaves(c, [c EXCEPT !.msg[m].it = v])
         /\ \A v \in Kinds      : Leaves(c, [c EXCEPT !.msg[m].kind = v])
<1>1. c.msg[m] \in Message
  BY DEF ClientRec
<1>2. \A y \in Message :
        (c.msg[m].state = "COMPLETE" => y.state = "COMPLETE")
        => Leaves(c, [c EXCEPT !.msg[m] = y])
  <2>1. ASSUME NEW y \in Message,
               c.msg[m].state = "COMPLETE" => y.state = "COMPLETE"
        PROVE  Leaves(c, [c EXCEPT !.msg[m] = y])
    <3> DEFINE v == [c.msg EXCEPT ![m] = y]
    <3>1. v \in [MsgTypes -> Message]
      BY DEF ClientRec
    <3>2. c.msg["RESP_MSG"].state = "COMPLETE"
            => v["RESP_MSG"].state = "COMPLETE"
      BY <2>1 DEF ClientRec, MsgTypes
    <3>3. Leaves(c, [c EXCEPT !.msg = v])
      <4> HIDE DEF v
      <4> QED BY <3>1, <3>2, ClientFields, Zenon
    <3> QED BY <3>3
  <2> QED BY <2>1
<1>3. QED
  BY <1>1, <1>2, MessageFields, ZenonT(40) DEF SameState

(* The count of the answers.                                               *)
LEMMA GeneratedUpdate ==
  ASSUME NEW c \in ClientRec, NEW v \in 0..2
  PROVE  LET d == [c EXCEPT !.hist.generated = v] IN
           /\ Serves(c, d)
           /\ d.cgiFlag = c.cgiFlag /\ d.clientState = c.clientState
           /\ d.msg = c.msg
           /\ d.hist.generated = v
<1> DEFINE h == [c.hist EXCEPT !.generated = v]
           d == [c EXCEPT !.hist = h]
<1>1. /\ h \in History /\ h.stray = c.hist.stray
      /\ h.forks = c.hist.forks /\ h.generated = v
  BY HistoryFields DEF ClientRec
<1>2. /\ Serves(c, d)
      /\ d.cgiFlag = c.cgiFlag /\ d.clientState = c.clientState
      /\ d.msg = c.msg /\ d.hist.generated = v
  <2> HIDE DEF h
  <2> QED BY <1>1, StatesOrdered
          DEF Serves, SameScript, ClientRec, HasChildFds
<1> QED BY <1>2

LEMMA HistoryUpdate ==
  ASSUME NEW c \in ClientRec
  PROVE  /\ \A v \in BOOLEAN : Leaves(c, [c EXCEPT !.hist.rawSent = v])
         /\ \A v \in BOOLEAN : Leaves(c, [c EXCEPT !.hist.cut = v])
         /\ \A v \in BOOLEAN : Leaves(c, [c EXCEPT !.hist.earlySideEffect = v])
         /\ \A v \in BOOLEAN : Leaves(c, [c EXCEPT !.hist.idleRecv = v])
         /\ \A v \in BOOLEAN : Leaves(c, [c EXCEPT !.hist.fullSend = v])
<1>1. c.hist \in History
  BY DEF ClientRec
<1>2. \A v : SameCounts(c.hist, v) => Leaves(c, [c EXCEPT !.hist = v])
  BY ClientFields, Zenon DEF SameCounts
<1>3. QED
  BY <1>1, <1>2, HistoryFields, Zenon

-----------------------------------------------------------------------------
(* Messages.                                                               *)

LEMMA CreateHeaderLeaves ==
  ASSUME NEW c \in ClientRec, NEW m \in MsgTypes, NEW r \in HeaderResults
  PROVE  Leaves(c, CreateHeader(c, m, r))
<1> DEFINE e == HeaderError(c, m, r)
           d == [c EXCEPT !.msg[m].header = TRUE]
<1>1. e \in ErrorCodes /\ (e = 0 => c.errorCode = 0)
  BY DEF HeaderError, HeaderResults, ErrorCodes, ClientRec
<1>2. d.errorCode = c.errorCode
  BY DEF ClientRec
<1>3. Leaves(c, d)
  BY MessageUpdate
<1>4. Leaves(d, [d EXCEPT !.errorCode = e])
  <2>1. d \in ClientRec /\ (e = 0 => d.errorCode = 0)
    <3> HIDE DEF e, d
    <3> QED BY <1>1, <1>2, <1>3 DEF Leaves
  <2> HIDE DEF e, d
  <2> QED BY <1>1, <2>1, ClientFields, Zenon
<1>5. Leaves(c, [c EXCEPT !.msg[m].header = TRUE, !.errorCode = e])
  BY <1>3, <1>4, LeavesTransitive, Zenon
<1>6. QED
  BY <1>5, LeavesReflexive DEF CreateHeader

-----------------------------------------------------------------------------
(* Io.                                                                     *)

LEMMA IoTypes ==
  ASSUME NEW c \in ClientRec
  PROVE  /\ FdTypeOf(c) \in FdTypes
         /\ MaySet(c, FdDataByType(c, FdTypeOf(c)))
         /\ MsgOf(c) \in MsgTypes
<1>1. FdTypeOf(c) \in FdTypes
  BY DEF FdTypeOf, FdTypes
<1>2. QED
  BY <1>1, FdDataByTypeMaySet DEF MsgOf, MsgTypes

LEMMA TakeBytesLeaves ==
  ASSUME NEW c \in ClientRec, NEW t, NEW more \in BOOLEAN
  PROVE  Leaves(c, TakeBytes(c, t, more))
<1>1. /\ (c.fromChild /\ more) \in BOOLEAN
      /\ "idle" \in {"idle", "data", "eof", "error"}
  OBVIOUS
<1>2. QED
  BY <1>1, ClientFields, LeavesReflexive, Zenon DEF TakeBytes

LEMMA SetFinishedSendingLeaves ==
  ASSUME NEW c \in ClientRec, NEW t, MaySet(c, t)
  PROVE  Leaves(c, SetFinishedSending(c, t))
<1> DEFINE d == CASE t = "CLIENT_FD" -> SetClientState(c, DELETEME)
                  [] t = "TOCHILD_FD" /\ c.errorCode = 0 ->
                       SetClientState(c, DO_CGIREC)
                  [] OTHER -> c
<1>1. Leaves(c, d)
  <2>1. /\ Leaves(c, SetClientState(c, DELETEME))
        /\ Leaves(c, SetClientState(c, DO_CGIREC))
        /\ Leaves(c, c)
    BY SetClientStateLeaves, LeavesReflexive, StatesOrdered
  <2>2. d \in {c, SetClientState(c, DELETEME), SetClientState(c, DO_CGIREC)}
    OBVIOUS
  <2>3. QED BY <2>1, <2>2
<1>2. Leaves(d, SetFd(d, t, "CLOSE"))
  <2>1. d \in ClientRec /\ MaySet(d, t)
    BY <1>1, MaySetKept DEF Leaves
  <2>2. QED
    BY <2>1, SetFdLeaves DEF FdStates
<1>3. QED
  BY <1>1, <1>2, LeavesTransitive DEF SetFinishedSending

(* A message is whole as it is, and the history notes whether it was cut.   *)
LEMMA FinishedUpdate ==
  ASSUME NEW c \in ClientRec, NEW m \in MsgTypes, NEW cut \in BOOLEAN
  PROVE  Leaves(c, [c EXCEPT !.msg[m].head = "complete",
                             !.msg[m].state = "COMPLETE",
                             !.msg[m].it = "head",
                             !.hist.cut = cut])
<1> DEFINE d == [c EXCEPT !.msg[m].head = "complete"]
           e == [d EXCEPT !.msg[m].state = "COMPLETE"]
           f == [e EXCEPT !.msg[m].it = "head"]
           g == [f EXCEPT !.hist.cut = cut]
<1>1. Leaves(c, d)
  BY MessageUpdate DEF HeadStates
<1>2. Leaves(d, e)
  <2> HIDE DEF d
  <2> QED BY <1>1, MessageUpdate DEF MsgStates, Leaves
<1>3. Leaves(e, f)
  <2> HIDE DEF e
  <2> QED BY <1>2, MessageUpdate DEF Leaves
<1>4. Leaves(f, g)
  <2> HIDE DEF f
  <2> QED BY <1>3, HistoryUpdate, Zenon DEF Leaves
<1>5. Leaves(c, g)
  <2> HIDE DEF d, e, f, g
  <2> QED BY <1>1, <1>2, <1>3, <1>4, LeavesTransitive
<1>6. QED
  BY <1>5, Zenon

LEMMA SetFinishedReceivingLeaves ==
  ASSUME NEW c \in ClientRec, NEW t \in FdTypes, NEW m \in MsgTypes, NEW o,
         o.result \in HeaderResults
  PROVE  Leaves(c, SetFinishedReceiving(c, t, m, o))
<1> DEFINE d == IF t = "FROMCHILD_FD"
                THEN SetFd(SetClientState(c, DO_RESPONSE), t, "CLOSE") ELSE c
           e == IF o.alloc /\ ~d.msg[m].header
                THEN SetClientState(d, DELETEME) ELSE CreateHeader(d, m,
                o.result)
<1>1. Leaves(c, d)
  <2>1. CASE t = "FROMCHILD_FD"
    <3>1. Leaves(c, SetClientState(c, DO_RESPONSE))
      BY SetClientStateLeaves, StatesOrdered
    <3>2. Leaves(SetClientState(c, DO_RESPONSE), d)
      BY <2>1, <3>1, SetFdLeaves DEF Leaves, MaySet, FdTypes, FdStates
    <3>3. QED BY <3>1, <3>2, LeavesTransitive
  <2>2. CASE t # "FROMCHILD_FD"
    BY <2>2, LeavesReflexive
  <2>3. QED BY <2>1, <2>2
<1>2. Leaves(c, SetClientState(d, DELETEME))
  <2> HIDE DEF d
  <2> QED BY <1>1, SetClientStateLeaves, StatesOrdered,
       LeavesTransitive DEF Leaves
<1>3. Leaves(c, e)
  <2> HIDE DEF d
  <2>1. Leaves(d, CreateHeader(d, m, o.result))
    BY <1>1, CreateHeaderLeaves DEF Leaves
  <2>2. QED BY <1>1, <1>2, <2>1, LeavesTransitive, Zenon
<1>4. \A v \in BOOLEAN :
        Leaves(c, [e EXCEPT !.msg[m].head = "complete",
                            !.msg[m].state = "COMPLETE",
                            !.msg[m].it = "head",
                            !.hist.cut = v])
  <2> SUFFICES ASSUME NEW v \in BOOLEAN
               PROVE  Leaves(c, [e EXCEPT !.msg[m].head = "complete",
                                          !.msg[m].state = "COMPLETE",
                                          !.msg[m].it = "head",
                                          !.hist.cut = v])
    OBVIOUS
  <2> DEFINE f == [e EXCEPT !.msg[m].head = "complete",
                            !.msg[m].state = "COMPLETE",
                            !.msg[m].it = "head",
                            !.hist.cut = v]
  <2>1. Leaves(e, f)
    <3> HIDE DEF e
    <3>1. e \in ClientRec
      BY <1>3 DEF Leaves
    <3>2. QED
      BY <3>1, FinishedUpdate, Zenon
  <2>2. Leaves(c, f)
    <3> HIDE DEF e, f
    <3> QED BY <1>3, <2>1, LeavesTransitive
  <2>3. QED
    <3> HIDE DEF e
    <3> QED BY <2>2, Zenon
<1>5. Leaves(c, SetClientState(c, DELETEME))
  BY SetClientStateLeaves, StatesOrdered
<1>6. (e.hist.cut \/ (m = "REQ_MSG" /\ c.msg[m].state # "COMPLETE"))
        \in BOOLEAN
  OBVIOUS
<1>7. QED
  <2>1. SetFinishedReceiving(c, t, m, o) =
          IF t = "CLIENT_FD" /\ c.msg[m].head = "empty"
          THEN SetClientState(d, DELETEME)
          ELSE [e EXCEPT !.msg[m].head = "complete",
                         !.msg[m].state = "COMPLETE",
                         !.msg[m].it = "head",
                         !.hist.cut = e.hist.cut
                           \/ (m = "REQ_MSG" /\ c.msg[m].state # "COMPLETE")]
    BY DEF SetFinishedReceiving
  <2> HIDE DEF d, e
  <2>2. QED BY <1>2, <1>4, <1>6, <2>1, Zenon

(* What may become of the call: a verdict and a parse of the right types.  *)
Outcome(o) == o.result \in HeaderResults /\ o.alloc \in BOOLEAN

LEMMA BufferToNodesLeaves ==
  ASSUME NEW c \in ClientRec, NEW m \in MsgTypes, NEW o, Outcome(o),
         o.parse \in ParseResult
  PROVE  Leaves(c, BufferToNodes(c, m, o))
<1> DEFINE p == o.parse
           pos == IF p.body THEN "body" ELSE "head"
           d1 == [c EXCEPT !.msg[m].head = p.head]
           d2 == [d1 EXCEPT !.msg[m].state = p.state]
           d3 == [d2 EXCEPT !.msg[m].body = p.body]
           d  == [d3 EXCEPT !.msg[m].it = pos]
<1>1. /\ p.head \in HeadStates /\ p.state \in MsgStates /\ p.body \in BOOLEAN
      /\ pos \in {"head", "body", "end"}
  BY DEF ParseResult
<1> SUFFICES ASSUME c.msg[m].state = "INCOMPLETE"
             PROVE  Leaves(c, BufferToNodes(c, m, o))
  BY LeavesReflexive, Zenon DEF BufferToNodes
<1>2. Leaves(c, d1)
  BY <1>1, MessageUpdate, Zenon
<1>3. Leaves(d1, d2)
  <2>1. d1.msg[m].state # "COMPLETE"
    BY DEF ClientRec, Message
  <2> HIDE DEF d1, p
  <2> QED BY <1>1, <1>2, <2>1, MessageUpdate, Zenon DEF Leaves
<1>4. Leaves(d2, d3)
  <2> HIDE DEF d2, p
  <2> QED BY <1>1, <1>3, MessageUpdate, ZenonT(40) DEF Leaves
<1>5. Leaves(d3, d)
  <2> HIDE DEF d3, pos
  <2> QED BY <1>1, <1>4, MessageUpdate, Zenon DEF Leaves
<1>6. Leaves(c, d)
  <2> HIDE DEF d1, d2, d3, d
  <2> QED BY <1>2, <1>3, <1>4, <1>5, LeavesTransitive
<1>7. Leaves(c, CreateHeader(d, m, o.result))
  <2> HIDE DEF d
  <2> QED BY <1>6, CreateHeaderLeaves, LeavesTransitive DEF Leaves, Outcome
<1>8. BufferToNodes(c, m, o) \in {c, d, CreateHeader(d, m, o.result)}
  BY Zenon DEF BufferToNodes
<1>9. QED
  <2> HIDE DEF d
  <2> QED BY <1>6, <1>7, <1>8, LeavesReflexive

LEMMA ReceiveMsgLeaves ==
  ASSUME NEW c \in ClientRec, NEW t \in FdTypes, NEW m \in MsgTypes,
         NEW o, Outcome(o), o.parse \in ParseResult, o.more \in BOOLEAN
  PROVE  Leaves(c, ReceiveMsg(c, t, m, o))
<1> DEFINE v == RecvValue(c, t)
           k0 == TakeBytes(c, t, o.more)
           k == [k0 EXCEPT !.hist.idleRecv = @ \/ WouldBlockRecv(c, t)]
           s == IF c.clientState = DO_CGIREC THEN CRITICAL_ERROR ELSE DELETEME
           d == CASE v <= 0 -> k
                  [] v > 0 /\ o.alloc -> SetClientState(k, s)
                  [] OTHER -> BufferToNodes(k, m, o)
           e == IF v < 0 THEN SetErrorCode(d, 500) ELSE d
<1>1. Leaves(c, k0)
  BY TakeBytesLeaves
<1>2. Leaves(k0, k)
  <2> HIDE DEF k0
  <2>1. (k0.hist.idleRecv \/ WouldBlockRecv(c, t)) \in BOOLEAN
    OBVIOUS
  <2>2. QED BY <1>1, <2>1, HistoryUpdate, Zenon DEF Leaves
<1>3. Leaves(c, k)
  <2> HIDE DEF k0, k
  <2> QED BY <1>1, <1>2, LeavesTransitive
<1>4. Leaves(c, d)
  <2> HIDE DEF k
  <2>1. Leaves(c, SetClientState(k, s))
    <3>1. s \in ClientStates \ {RESETME}
      BY StatesOrdered
    <3>2. QED
      <4> HIDE DEF s
      <4> QED BY <1>3, <3>1, SetClientStateLeaves, LeavesTransitive DEF Leaves
  <2>2. Leaves(c, BufferToNodes(k, m, o))
    BY <1>3, BufferToNodesLeaves, LeavesTransitive DEF Leaves
  <2>3. d \in {k, SetClientState(k, s), BufferToNodes(k, m, o)}
    <3> HIDE DEF s
    <3> QED OBVIOUS
  <2>4. QED
    <3> HIDE DEF d, s
    <3> QED BY <1>3, <2>1, <2>2, <2>3
<1>5. Leaves(c, e)
  <2> HIDE DEF d
  <2> QED BY <1>4, SetErrorCodeLeaves, LeavesTransitive DEF Leaves, ErrorCodes
<1>6. Leaves(c, SetFinishedReceiving(e, t, m, o))
  <2> HIDE DEF e
  <2> QED BY <1>5, SetFinishedReceivingLeaves, LeavesTransitive
          DEF Leaves, Outcome
<1>7. ReceiveMsg(c, t, m, o) \in {d, SetFinishedReceiving(e, t, m, o)}
  BY Zenon DEF ReceiveMsg
<1>8. QED
  <2> HIDE DEF d, e
  <2> QED BY <1>4, <1>6, <1>7

LEMMA AdvanceIteratorLeaves ==
  ASSUME NEW c \in ClientRec, NEW m \in MsgTypes
  PROVE  Leaves(c, AdvanceIterator(c, m))
<1> DEFINE pos == IF c.msg[m].it = "head" /\ c.msg[m].body
                  THEN "body" ELSE "end"
<1>1. pos \in {"head", "body", "end"}
  OBVIOUS
<1>2. AdvanceIterator(c, m) = [c EXCEPT !.msg[m].it = pos]
  BY Zenon DEF AdvanceIterator
<1>3. Leaves(c, [c EXCEPT !.msg[m].it = pos])
  <2> HIDE DEF pos
  <2> QED BY <1>1, MessageUpdate, Zenon
<1>4. QED
  BY <1>2, <1>3, Zenon

LEMMA SendMsgLeaves ==
  ASSUME NEW c \in ClientRec, NEW t, NEW m \in MsgTypes, NEW o, MaySet(c, t)
  PROVE  Leaves(c, SendMsg(c, t, m, o))
<1> DEFINE skipped == IF t = "TOCHILD_FD" /\ c.msg[m].it = "head"
                      THEN AdvanceIterator(c, m) ELSE c
           tried0  == [skipped EXCEPT
                        !.hist.fullSend = @ \/ WouldBlockSend(c, t)]
           raw == /\ t = "CLIENT_FD" /\ HasRoom(c, t)
                  /\ ~o.failed
                  /\ c.msg[m].kind = "raw"
           trying == [tried0 EXCEPT
                        !.hist.rawSent = skipped.hist.rawSent \/ raw]
           went == IF o.whole THEN AdvanceIterator(trying, m) ELSE trying
           sent == PutBytes(went, t, o.full)
           lost == SetFinishedSending(SetErrorCode(trying, 500), t)
<1>1. Leaves(c, skipped)
  BY AdvanceIteratorLeaves, LeavesReflexive
<1>2. Leaves(c, tried0)
  <2>1. Leaves(skipped, tried0)
    <3> HIDE DEF skipped
    <3>1. (skipped.hist.fullSend \/ WouldBlockSend(c, t)) \in BOOLEAN
      OBVIOUS
    <3>2. QED BY <1>1, <3>1, HistoryUpdate, Zenon DEF Leaves
  <2>2. QED
    <3> HIDE DEF skipped, tried0
    <3> QED BY <1>1, <2>1, LeavesTransitive
<1>3. Leaves(c, trying)
  <2>1. Leaves(tried0, trying)
    <3> HIDE DEF tried0, raw, skipped
    <3>1. (skipped.hist.rawSent \/ raw) \in BOOLEAN
      OBVIOUS
    <3>2. QED BY <1>2, <3>1, HistoryUpdate, Zenon DEF Leaves
  <2>2. QED
    <3> HIDE DEF tried0, trying
    <3> QED BY <1>2, <2>1, LeavesTransitive
<1>4. Leaves(c, went)
  <2> HIDE DEF trying
  <2> QED BY <1>3, AdvanceIteratorLeaves, LeavesTransitive DEF Leaves
<1>5. Leaves(c, sent)
  <2> HIDE DEF went
  <2>1. Leaves(went, sent)
    BY <1>4, ClientFields, LeavesReflexive, Zenon DEF PutBytes, Leaves
  <2>2. QED
    <3> HIDE DEF sent
    <3> QED BY <1>4, <2>1, LeavesTransitive
<1>6. \A d : Leaves(c, d) => Leaves(c, SetFinishedSending(d, t))
  BY SetFinishedSendingLeaves, MaySetKept, LeavesTransitive DEF Leaves
<1>7. Leaves(c, lost)
  <2> HIDE DEF trying
  <2>1. Leaves(c, SetErrorCode(trying, 500))
    BY <1>3, SetErrorCodeLeaves, LeavesTransitive DEF Leaves, ErrorCodes
  <2>2. QED BY <1>6, <2>1
<1>8. SendMsg(c, t, m, o) \in {c, SetFinishedSending(skipped, t), lost,
                               SetFinishedSending(sent, t), sent}
  <2> HIDE DEF lost, sent, skipped
  <2>1. SendMsg(c, t, m, o) =
          (CASE c.msg[m].state # "COMPLETE" \/ HeldBack(c) -> c
             [] OTHER ->
                  CASE skipped.msg[m].it = "end" ->
                         SetFinishedSending(skipped, t)
                    [] /\ skipped.msg[m].it # "end"
                       /\ o.failed \/ ~HasRoom(c, t) -> lost
                    [] OTHER -> IF sent.msg[m].it = "end"
                                THEN SetFinishedSending(sent, t) ELSE sent)
    BY Zenon DEF SendMsg, lost, sent, skipped
  <2>2. QED BY <2>1
<1>9. QED
  <2> HIDE DEF lost, sent, skipped
  <2> QED BY <1>1, <1>5, <1>6, <1>7, <1>8, LeavesReflexive

LEMMA CheckHeaderBeforeCompleteLeaves ==
  ASSUME NEW c \in ClientRec, NEW t \in FdTypes, NEW m \in MsgTypes,
         NEW o, Outcome(o)
  PROVE  Leaves(c, CheckHeaderBeforeComplete(c, t, m, o))
<1> DEFINE d == SetErrorCode(SetClientState(c, DO_RESPONSE), 400)
<1>1. Leaves(c, d)
  BY SetClientStateLeaves, SetErrorCodeLeaves, StatesOrdered, LeavesTransitive
     DEF Leaves, ErrorCodes
<1>2. Leaves(c, SetFinishedReceiving(d, t, m, o))
  <2> HIDE DEF d
  <2> QED BY <1>1, SetFinishedReceivingLeaves, LeavesTransitive
          DEF Leaves, Outcome
<1>3. QED
  BY <1>2, LeavesReflexive, Zenon DEF CheckHeaderBeforeComplete

LEMMA OutcomeTypes ==
  /\ \A c \in ClientRec : \A t, m : \A o \in RecvOutcomes(c, t, m) :
       Outcome(o) /\ o.parse \in ParseResult /\ o.more \in BOOLEAN
  /\ Outcome([alloc |-> FALSE, result |-> 0])
<1>1. NoBytes \in ParseResult
  BY DEF NoBytes, ParseResult, HeadStates, MsgStates
<1>2. \A x, m : Parsed(x, m) \subseteq ParseResult
  BY DEF Parsed
<1>3. HeaderVerdicts \subseteq HeaderResults /\ 0 \in HeaderResults
  BY DEF HeaderVerdicts, HeaderResults
<1>4. QED
  BY <1>1, <1>2, <1>3 DEF RecvOutcomes, Outcome

(* _ioClient as a whole.                                                   *)
LEMMA IoClientLeaves ==
  ASSUME NEW c \in ClientRec, NEW o \in IoOutcomes(c)
  PROVE  Leaves(c, IoClient(c, o))
<1> DEFINE t == FdDataByType(c, FdTypeOf(c))
           m == MsgOf(c)
<1>1. t \in FdTypes /\ MaySet(c, t) /\ m \in MsgTypes
  BY IoTypes DEF MaySet
<1>0. /\ Receives(c) => c.clientState \in {DO_REQUEST, DO_CGIREC}
      /\ Sends(c) => c.clientState \in {DO_RESPONSE, DO_CGISEND}
  BY DEF Receives, Sends
<1>2. CASE c.clientState \in {DELETEME, CRITICAL_ERROR, RESETME}
  BY <1>0, <1>2, SetClientStateLeaves, LeavesReflexive, StatesOrdered
     DEF IoClient
<1>3. CASE /\ c.clientState \notin {DELETEME, CRITICAL_ERROR, RESETME}
           /\ Receives(c)
  <2>1. o \in RecvOutcomes(c, t, m)
    BY <1>0, <1>3, StatesOrdered DEF IoOutcomes
  <2>2. Outcome(o) /\ o.parse \in ParseResult /\ o.more \in BOOLEAN
    BY <2>1, OutcomeTypes
  <2>3. IoClient(c, o) =
          CheckHeaderBeforeComplete(ReceiveMsg(c, t, m, o), t, m, o)
    BY <1>0, <1>3, StatesOrdered DEF IoClient
  <2> HIDE DEF t, m
  <2>4. Leaves(c, ReceiveMsg(c, t, m, o))
    BY <1>1, <2>2, ReceiveMsgLeaves
  <2>5. Leaves(ReceiveMsg(c, t, m, o), IoClient(c, o))
    BY <1>1, <2>2, <2>3, <2>4, CheckHeaderBeforeCompleteLeaves DEF Leaves
  <2>6. QED BY <2>4, <2>5, LeavesTransitive
<1>4. CASE /\ c.clientState \notin {DELETEME, CRITICAL_ERROR, RESETME}
           /\ ~Receives(c) /\ Sends(c)
  <2>1. IoClient(c, o) = SendMsg(c, t, m, o)
    BY <1>0, <1>4, StatesOrdered DEF IoClient
  <2> HIDE DEF t, m
  <2>2. QED BY <1>1, <2>1, SendMsgLeaves
<1>5. CASE /\ c.clientState \notin {DELETEME, CRITICAL_ERROR, RESETME}
           /\ ~Receives(c) /\ ~Sends(c)
  <2>1. o = [alloc |-> FALSE, result |-> 0]
    BY <1>5 DEF IoOutcomes
  <2>2. Outcome(o)
    BY <2>1, OutcomeTypes
  <2>3. IoClient(c, o) = CheckHeaderBeforeComplete(c, t, m, o)
    BY <1>0, <1>5, StatesOrdered DEF IoClient
  <2> HIDE DEF t, m
  <2>4. QED BY <1>1, <2>2, <2>3, CheckHeaderBeforeCompleteLeaves
<1>6. QED
  BY <1>2, <1>3, <1>4, <1>5

-----------------------------------------------------------------------------
(* ServerManager.                                                          *)

LEMMA KeepsTransitive ==
  ASSUME NEW c \in ClientRec, NEW d, NEW e, Keeps(c, d), Keeps(d, e)
  PROVE  Keeps(c, e)
BY StatesOrdered DEF Keeps, SameChild, ClientRec, SameScript, SameAnswer

LEMMA LeavesKeeps ==
  ASSUME NEW c, NEW d, Leaves(c, d)
  PROVE  Keeps(c, d) /\ d \in ClientRec
BY DEF Leaves, Keeps

LEMMA CgiFlagKeeps ==
  ASSUME NEW c \in ClientRec, NEW v \in BOOLEAN
  PROVE  Keeps(c,
  [c EXCEPT !.cgiFlag = v]) /\ [c EXCEPT !.cgiFlag = v].cgiFlag = v
BY StatesOrdered
   DEF Keeps, SameChild, ClientRec, HasChildFds, SameScript, SameAnswer

LEMMA AssignVirtualServerLeaves ==
  ASSUME NEW c \in ClientRec, NEW q
  PROVE  Leaves(c, AssignVirtualServer(c, q))
<1> DEFINE d == [c EXCEPT !.virtualServer = TRUE]
<1>1. Leaves(c, d)
  BY ClientFields
<1>2. \A e \in {400, 500} : Leaves(c, SetErrorCode(d, e))
  <2> HIDE DEF d
  <2> QED BY <1>1, SetErrorCodeLeaves, LeavesTransitive DEF Leaves, ErrorCodes
<1>3. AssignVirtualServer(c, q) \in
        {c, d, SetErrorCode(d, 400), SetErrorCode(d, 500)}
  <2>1. AssignVirtualServer(c, q) =
          CASE c.virtualServer -> c
            [] ~c.virtualServer /\ c.errorCode = 400 -> d
            [] ~c.virtualServer /\ c.errorCode # 400 /\ q.server = "none" ->
                 SetErrorCode(d, 400)
            [] ~c.virtualServer /\ c.errorCode # 400 /\ q.server = "sockname" ->
                 SetErrorCode(d, 500)
            [] OTHER -> d
    BY Zenon DEF AssignVirtualServer
  <2> HIDE DEF d
  <2>2. QED BY <2>1
<1>4. QED
  <2> HIDE DEF d
  <2> QED BY <1>1, <1>2, <1>3, LeavesReflexive

LEMMA CheckIfRequestAllowedLeaves ==
  ASSUME NEW c \in ClientRec, NEW q
  PROVE  /\ Leaves(c, CheckIfRequestAllowed(c, q))
         /\ CheckIfRequestAllowed(c, q).isRequestChecked
<1> DEFINE d == CASE c.errorCode # 0 \/ q.allowed = "yes" -> c
                  [] c.errorCode = 0 /\ q.allowed = "refused" ->
                       SetErrorCode(c, 403)
                  [] OTHER -> SetErrorCode(c, 400)
           e == IF d.errorCode = 0 THEN d ELSE SetClientState(d, DO_RESPONSE)
           f == [e EXCEPT !.isRequestChecked = TRUE]
<1>1. Leaves(c, d)
  <2>1. d \in {c, SetErrorCode(c, 403), SetErrorCode(c, 400)}
    OBVIOUS
  <2>2. \A x \in {403, 400} : Leaves(c, SetErrorCode(c, x))
    BY SetErrorCodeLeaves DEF ErrorCodes
  <2>3. QED
    <3> HIDE DEF d
    <3> QED BY <2>1, <2>2, LeavesReflexive
<1>2. Leaves(c, e)
  <2> HIDE DEF d
  <2> QED BY <1>1, SetClientStateLeaves, StatesOrdered,
       LeavesTransitive DEF Leaves
<1>3. Leaves(c, f) /\ f.isRequestChecked
  <2>1. Leaves(e, f) /\ f.isRequestChecked
    <3>1. \A v \in BOOLEAN :
            (e.isRequestChecked => v)
            => LET g == [e EXCEPT !.isRequestChecked = v]
               IN  Leaves(e, g) /\ g.isRequestChecked = v
      <4> HIDE DEF e
      <4> QED BY <1>2, ClientFields DEF Leaves
    <3> HIDE DEF e
    <3> QED BY <3>1, Zenon
  <2>2. QED
    <3> HIDE DEF e, f
    <3> QED BY <1>2, <2>1, LeavesTransitive
<1>4. CheckIfRequestAllowed(c, q) = IF c.isRequestChecked THEN c ELSE f
  BY Zenon DEF CheckIfRequestAllowed
<1>5. QED
  <2> HIDE DEF f
  <2> QED BY <1>3, <1>4, LeavesReflexive

LEMMA CheckBodySizeLimitLeaves ==
  ASSUME NEW c \in ClientRec, NEW q
  PROVE  Leaves(c, CheckBodySizeLimit(c, q))
<1>1. Leaves(c, SetClientState(c, DO_RESPONSE))
  BY SetClientStateLeaves, StatesOrdered
<1>2. Leaves(c, SetClientState(SetErrorCode(c, 403), DO_RESPONSE))
  BY SetErrorCodeLeaves, SetClientStateLeaves, StatesOrdered, LeavesTransitive
     DEF Leaves, ErrorCodes
<1>3. QED
  BY <1>1, <1>2, LeavesReflexive DEF CheckBodySizeLimit

(* Only a request still being received becomes a CGI request, and it moves *)
(* on to DO_CGISEND then.                                                  *)
LEMMA StartCgiOrRespondKeeps ==
  ASSUME NEW c \in ClientRec, NEW q
  PROVE  LET d == StartCgiOrRespond(c, q) IN
           /\ Keeps(c, d)
           /\ d.cgiFlag = c.cgiFlag \/ (d.cgiFlag /\ c.clientState = DO_REQUEST
                                         /\ d.clientState = DO_CGISEND)
<1> DEFINE d == CASE q.cgi \in {"unsupported", "badPathInfo"} ->
                       SetErrorCode(c, 502)
                  [] q.cgi = "badExtension" -> SetErrorCode(c, 403)
                  [] OTHER -> c
           e == [d EXCEPT !.cgiFlag = TRUE]
           f == SetClientState(e, DO_CGISEND)
           g == SetClientState(d, DO_RESPONSE)
<1>1. Leaves(c, d) /\ d.clientState = c.clientState
  <2>1. d \in {c, SetErrorCode(c, 502), SetErrorCode(c, 403)}
    OBVIOUS
  <2>2. \A x \in {502, 403} : /\ Leaves(c, SetErrorCode(c, x))
                              /\ SetErrorCode(c, x).clientState = c.clientState
    BY SetErrorCodeLeaves DEF ErrorCodes
  <2>3. QED
    <3> HIDE DEF d
    <3> QED BY <2>1, <2>2, LeavesReflexive
<1>2. Keeps(c, e) /\ e.cgiFlag /\ e.clientState = c.clientState
  <2> HIDE DEF d
  <2>1. Keeps(d, e) /\ e.cgiFlag
    BY <1>1, CgiFlagKeeps DEF Leaves
  <2>2. e.clientState = d.clientState
    BY <1>1 DEF Leaves, ClientRec
  <2>3. QED
    <3> HIDE DEF e
    <3> QED BY <1>1, <2>1, <2>2, KeepsTransitive, LeavesKeeps
<1>3. ASSUME c.clientState = DO_REQUEST
      PROVE  Keeps(c, f) /\ f.cgiFlag /\ f.clientState = DO_CGISEND
  <2> HIDE DEF e
  <2>1. Leaves(e, f)
    BY <1>2, SetClientStateLeaves, StatesOrdered DEF Keeps
  <2>2. f.clientState = DO_CGISEND
    BY <1>2, <1>3, StatesOrdered DEF SetClientState, Keeps, ClientRec
  <2>3. QED
    <3> HIDE DEF f
    <3> QED BY <1>2, <2>1, <2>2, LeavesKeeps, KeepsTransitive DEF Leaves
<1>4. Keeps(c, g) /\ g.cgiFlag = c.cgiFlag
  <2> HIDE DEF d
  <2>1. Leaves(d, g)
    BY <1>1, SetClientStateLeaves, StatesOrdered DEF Leaves
  <2>2. QED
    <3> HIDE DEF g
    <3> QED BY <1>1, <2>1, LeavesTransitive, LeavesKeeps DEF Leaves
<1>5. Keeps(c, c)
  BY LeavesReflexive, LeavesKeeps
<1>6. \/ StartCgiOrRespond(c, q) \in {c, g}
      \/ c.clientState = DO_REQUEST /\ StartCgiOrRespond(c, q) = f
  <2>1. StartCgiOrRespond(c, q) =
          CASE ~(/\ c.clientState = DO_REQUEST
                 /\ c.msg["REQ_MSG"].state = "COMPLETE") -> c
            [] /\ c.clientState = DO_REQUEST
               /\ c.msg["REQ_MSG"].state = "COMPLETE"
               /\ q.cgi \in {"yes", "badPathInfo"} -> f
            [] OTHER -> g
    BY Zenon DEF StartCgiOrRespond
  <2> HIDE DEF f, g
  <2>2. QED BY <2>1
<1>7. QED
  <2> HIDE DEF f, g
  <2> QED BY <1>3, <1>4, <1>5, <1>6

(* The answer is only made once the child, if there is one, was reaped.    *)
LEMMA GenerateClientResponseServes ==
  ASSUME NEW c \in ClientRec, NEW q \in ServerOutcome
  PROVE  LET d == GenerateClientResponse(c, q) IN
           /\ Serves(c, d)
           /\ IF NotYet(c) THEN d = c
              ELSE /\ ~d.cgiFlag
                   /\ c.hist.generated = 0 => d.hist.generated = 1
                   /\ \/ d.msg["RESP_MSG"].state = "COMPLETE"
                      \/ d.clientState >= DELETEME
<1> DEFINE n == IF c.hist.generated = 2 THEN 2 ELSE c.hist.generated + 1
           s == c.hist.earlySideEffect
                  \/ (/\ AnswersItself(c) /\ c.errorCode = 0
                      /\ c.msg["REQ_MSG"].state # "COMPLETE" \/ c.hist.cut)
           d1 == [c EXCEPT !.cgiFlag = FALSE]
           d2 == [d1 EXCEPT !.msg["RESP_MSG"].it = "head"]
           d3 == [d2 EXCEPT !.hist.generated = n]
           once == [d3 EXCEPT !.hist.earlySideEffect = s]
           done == [once EXCEPT !.msg["RESP_MSG"].state = "COMPLETE"]
           own1 == [done EXCEPT !.msg["RESP_MSG"].kind = OwnKind(c)]
           own2 == [own1 EXCEPT !.msg["RESP_MSG"].header = TRUE]
           own  == [own2 EXCEPT !.msg["RESP_MSG"].body = q.page]
           cgi  == [done EXCEPT !.msg["RESP_MSG"].kind = "cgi"]
<1>1. /\ n \in 0..2
      /\ s \in BOOLEAN
      /\ OwnKind(c) \in Kinds /\ q.page \in BOOLEAN
      /\ "RESP_MSG" \in MsgTypes
  <2>1. c.hist.generated \in 0..2 /\ c.hist.earlySideEffect \in BOOLEAN
    BY DEF ClientRec, History
  <2>2. s \in BOOLEAN
    OBVIOUS
  <2>3. QED
    BY <2>1, <2>2 DEF OwnKind, Kinds, ServerOutcome, MsgTypes
<1>2. Keeps(c, d1) /\ ~d1.cgiFlag
  BY CgiFlagKeeps
<1>3. Leaves(d1, d2)
  <2>1. d1 \in ClientRec /\ "head" \in {"head", "body", "end"}
    BY <1>2 DEF Keeps
  <2> HIDE DEF d1
  <2> QED BY <1>1, <2>1, MessageUpdate, Zenon
<1>4. Serves(d2, d3) /\ d3.cgiFlag = d2.cgiFlag /\ d3.hist.generated = n
  <2> HIDE DEF d2, n
  <2> QED BY <1>1, <1>3, GeneratedUpdate, Zenon DEF Leaves
<1>5. Leaves(d3, once)
  <2> HIDE DEF d3, s
  <2> QED BY <1>1, <1>4, HistoryUpdate, Zenon DEF Serves
<1>6. Leaves(once, done) /\ done.msg["RESP_MSG"].state = "COMPLETE"
  <2>1. once \in ClientRec /\ "COMPLETE" \in MsgStates
    BY <1>5 DEF Leaves, MsgStates
  <2> HIDE DEF once
  <2>2. Leaves(once, done)
    BY <1>1, <2>1, MessageUpdate, Zenon
  <2> QED BY <1>1, <2>1, <2>2 DEF ClientRec, Message
<1>7. Leaves(done, own1)
  <2> HIDE DEF done, n, s
  <2>1. done \in ClientRec
    BY <1>6 DEF Leaves
  <2> QED BY <1>1, <2>1, MessageUpdate, Zenon
<1>8. Leaves(own1, own2)
  <2> HIDE DEF own1, n, s
  <2>1. own1 \in ClientRec
    BY <1>7 DEF Leaves
  <2> QED BY <1>1, <2>1, MessageUpdate, Zenon
<1>9. Leaves(own2, own)
  <2> HIDE DEF own2, n, s
  <2>1. own2 \in ClientRec
    BY <1>8 DEF Leaves
  <2> QED BY <1>1, <2>1, MessageUpdate, Zenon
<1>10. Leaves(done, cgi)
  <2> HIDE DEF done
  <2> QED BY <1>1, <1>6, MessageUpdate DEF Leaves, Kinds
<1> DEFINE Made(e) == /\ Serves(c, e) /\ ~e.cgiFlag
                      /\ e.hist.generated = n
           Whole(e) == e.msg["RESP_MSG"].state = "COMPLETE"
<1>11. ASSUME NEW e, NEW f, Made(e), Leaves(e, f)
       PROVE  Made(f) /\ (Whole(e) => Whole(f))
  <2> HIDE DEF n
  <2> QED BY <1>11, StatesOrdered, SMTT(30)
          DEF Serves, Leaves, SameChild, SameScript, SameAnswer, ClientRec
<1>12. Made(once)
  <2>1. Made(d3)
    <3> HIDE DEF d1, d2, d3, n
    <3> QED BY <1>2, <1>3, <1>4, StatesOrdered
            DEF Keeps, Serves, Leaves, SameChild, SameScript, SameAnswer,
                ClientRec
  <2> HIDE DEF Made, d3, once
  <2> QED BY <1>5, <1>11, <2>1
<1>13. /\ Made(own) /\ Whole(own)
       /\ Made(cgi) /\ Whole(cgi)
  <2> HIDE DEF Made, Whole, once, done, own1, own2, own, cgi
  <2>1. Made(done) /\ Whole(done)
    BY <1>6, <1>11, <1>12 DEF Whole
  <2> QED BY <1>7, <1>8, <1>9, <1>10, <1>11, <2>1
<1>14. LET d == SetClientState(once, DELETEME) IN
         Made(d) /\ d.clientState >= DELETEME
  <2>1. once \in ClientRec
    BY <1>12 DEF Serves
  <2> HIDE DEF Made, once
  <2> QED BY <1>11, <1>12, <2>1, SetClientStateLeaves, StatesOrdered
<1>15. GenerateClientResponse(c, q) \in
         IF NotYet(c) THEN {c}
         ELSE {SetClientState(once, DELETEME), own, cgi}
  <2>1. GenerateClientResponse(c, q) =
          CASE NotYet(c) -> c
            [] ~NotYet(c) /\ q.alloc -> SetClientState(once, DELETEME)
            [] ~NotYet(c) /\ ~q.alloc /\ AnswersItself(c) -> own
            [] OTHER -> cgi
    BY Zenon DEF GenerateClientResponse
  <2> HIDE DEF once, own, cgi
  <2>2. QED BY <2>1
<1>16. Serves(c, c)
  BY LeavesReflexive DEF Leaves, SameChild, SameAnswer, Serves
<1>17. c.hist.generated = 0 => n = 1
  OBVIOUS
<1>18. QED
  <2> HIDE DEF once, own, cgi, n
  <2> QED BY <1>13, <1>14, <1>15, <1>16, <1>17

(* The answer was made once and for all, of a request that was checked     *)
(* before, or it is still to be made: what came out of it is complete, or  *)
(* the client is to be deleted.                                            *)
Settled(c) ==
  /\ c.clientState # RESETME
  /\ \/ c.hist.generated = 0
     \/ /\ c.hist.generated = 1
        /\ ~c.cgiFlag
        /\ c.isRequestChecked
        /\ c.clientState >= DO_RESPONSE
        /\ \/ c.msg["RESP_MSG"].state = "COMPLETE"
           \/ c.clientState = DELETEME

LEMMA LeavesSettled ==
  ASSUME NEW c \in ClientRec, NEW d, Leaves(c, d), Settled(c)
  PROVE  Settled(d)
BY StatesOrdered
   DEF Settled, Leaves, SameChild, SameScript, SameAnswer, ClientRec

(* ServerManager::loop as a whole: an answer once made stays made.         *)
StaysSettled(c, d) ==
  Settled(c) => /\ Settled(d)
                /\ c.hist.generated = 1 => d.hist.generated = 1

(* ServerManager::loop up to the making of the answer: the request has     *)
(* been checked, and may be one for a script now.                          *)
LEMMA RoutedKeeps ==
  ASSUME NEW c \in ClientRec, NEW q \in ServerOutcome
  PROVE  LET d == Routed(c, q) IN
           /\ Keeps(c, d) /\ d.isRequestChecked
           /\ \/ d.cgiFlag = c.cgiFlag
              \/ /\ d.cgiFlag /\ c.clientState = DO_REQUEST
                 /\ d.clientState = DO_CGISEND
<1> DEFINE failed  == IF c.errorCode = 0 THEN c
                      ELSE SetClientState(c, DO_RESPONSE)
           assigned == AssignVirtualServer(failed, q)
           checked == CheckIfRequestAllowed(assigned, q)
           limited == CheckBodySizeLimit(checked, q)
           routed  == StartCgiOrRespond(limited, q)
<1>1. Leaves(c, failed)
  BY SetClientStateLeaves, LeavesReflexive, StatesOrdered
<1>2. Leaves(c, assigned)
  <2> HIDE DEF failed
  <2> QED BY <1>1, AssignVirtualServerLeaves, LeavesTransitive DEF Leaves
<1>3. Leaves(c, checked)
  <2> HIDE DEF assigned
  <2> QED BY <1>2, CheckIfRequestAllowedLeaves, LeavesTransitive DEF Leaves
<1>4. Leaves(c, limited) /\ limited.isRequestChecked
  <2>1. checked.isRequestChecked
    <3> HIDE DEF assigned
    <3> QED BY <1>2, CheckIfRequestAllowedLeaves DEF Leaves
  <2>2. Leaves(checked, limited)
    <3> HIDE DEF checked
    <3> QED BY <1>3, CheckBodySizeLimitLeaves DEF Leaves
  <2> HIDE DEF checked, limited
  <2> QED BY <1>3, <2>1, <2>2, LeavesTransitive
          DEF Leaves, SameChild, SameScript
<1>5. /\ Keeps(limited, routed)
      /\ \/ routed.cgiFlag = limited.cgiFlag
         \/ /\ routed.cgiFlag /\ limited.clientState = DO_REQUEST
            /\ routed.clientState = DO_CGISEND
  <2> HIDE DEF limited
  <2> QED BY <1>4, StartCgiOrRespondKeeps DEF Leaves
<1>6. limited.clientState = DO_REQUEST => c.clientState = DO_REQUEST
  <2> HIDE DEF limited
  <2> QED BY <1>4, StatesOrdered
             DEF Leaves, SameChild, ClientRec, SameScript, SameAnswer
<1>7. /\ Keeps(c, routed) /\ routed.isRequestChecked
      /\ \/ routed.cgiFlag = c.cgiFlag
         \/ /\ routed.cgiFlag /\ c.clientState = DO_REQUEST
            /\ routed.clientState = DO_CGISEND
  <2> HIDE DEF limited, routed
  <2>1. routed.isRequestChecked
    BY <1>4, <1>5 DEF Keeps, SameChild, SameScript
  <2> QED BY <1>4, <1>5, <1>6, <2>1, KeepsTransitive, LeavesKeeps DEF Leaves
<1>8. Routed(c, q) = routed
  BY Zenon DEF Routed, Assigned, Failed
<1> QED
  <2> HIDE DEF routed
  <2> QED BY <1>7, <1>8

LEMMA ServeClientServes ==
  ASSUME NEW c \in ClientRec, NEW q \in ServerOutcome
  PROVE  LET d == ServeClient(c, q) IN
           /\ Serves(c, d)
           /\ StaysSettled(c, d)
           /\ \/ d.cgiFlag = c.cgiFlag
              \/ d.cgiFlag /\ c.clientState = DO_REQUEST
              \/ ~d.cgiFlag /\ ~(c.cgiFlag /\ c.waitReturn = 0)
<1> DEFINE failed == Failed(c)
           routed == Routed(c, q)
           served == GenerateClientResponse(routed, q)
<1>1. Leaves(c, failed)
  BY SetClientStateLeaves, LeavesReflexive, StatesOrdered DEF Failed
<1>2. /\ Keeps(c, routed) /\ routed.isRequestChecked
      /\ \/ routed.cgiFlag = c.cgiFlag
         \/ /\ routed.cgiFlag /\ c.clientState = DO_REQUEST
            /\ routed.clientState = DO_CGISEND
  BY RoutedKeeps
<1>3. /\ Serves(routed, served)
      /\ IF NotYet(routed) THEN served = routed
         ELSE /\ ~served.cgiFlag
              /\ routed.hist.generated = 0 => served.hist.generated = 1
              /\ \/ served.msg["RESP_MSG"].state = "COMPLETE"
                 \/ served.clientState >= DELETEME
  <2> HIDE DEF routed
  <2> QED BY <1>2, GenerateClientResponseServes DEF Keeps
<1>4. routed.clientState # DO_RESPONSE \/ routed.cgiFlag = c.cgiFlag
  <2> HIDE DEF routed
  <2> QED BY <1>2, StatesOrdered
<1>5. routed.waitReturn = c.waitReturn
  <2> HIDE DEF routed
  <2> QED BY <1>2 DEF Keeps, SameChild, SameScript, SameAnswer
<1>6. Serves(c, routed) /\ Serves(c, served)
  <2> HIDE DEF routed, served
  <2> QED BY <1>2, <1>3, StatesOrdered
          DEF Keeps, Serves, SameChild, SameScript, SameAnswer, ClientRec
<1>7. ServeClient(c, q) \in {c, failed, routed}
       \/ (routed.clientState = DO_RESPONSE /\ ServeClient(c, q) = served)
  <2>1. ServeClient(c, q) =
          CASE c.clientState = DELETEME -> c
            [] c.clientState # DELETEME /\ ~HeadComplete(failed) -> failed
            [] OTHER -> IF routed.clientState = DO_RESPONSE
                        THEN served ELSE routed
    BY Zenon DEF ServeClient
  <2> HIDE DEF failed, routed, served
  <2>2. QED BY <2>1
<1>8. Serves(c, failed) /\ Serves(c, c)
  <2> HIDE DEF failed
  <2> QED BY <1>1, LeavesReflexive
          DEF Leaves, SameChild, SameAnswer, Serves
<1>9. StaysSettled(c, failed) /\ StaysSettled(c, c)
  <2> HIDE DEF failed
  <2> QED BY <1>1, LeavesSettled
          DEF StaysSettled, Leaves, SameChild, SameAnswer
<1>10. c.clientState # DELETEME => StaysSettled(c, routed)
  <2> HIDE DEF routed
  <2> QED BY <1>2, StatesOrdered
          DEF StaysSettled, Settled, Keeps, SameChild, SameScript, SameAnswer,
              ClientRec
<1>11. routed.clientState = DO_RESPONSE => StaysSettled(routed, served)
  <2> HIDE DEF routed, served
  <2> QED BY <1>2, <1>3, StatesOrdered
          DEF StaysSettled, Settled, NotYet, Serves, SameScript, Keeps,
              ClientRec
<1>12. \/ served.cgiFlag = routed.cgiFlag
       \/ ~served.cgiFlag /\ ~(routed.cgiFlag /\ routed.waitReturn = 0)
  <2> HIDE DEF routed, served
  <2> QED BY <1>3 DEF NotYet
<1>13. c.clientState = DELETEME => ServeClient(c, q) = c
  BY DEF ServeClient
<1>14. StaysSettled(c, ServeClient(c, q))
  <2> HIDE DEF failed, routed, served
  <2> QED BY <1>7, <1>9, <1>10, <1>11, <1>13 DEF StaysSettled
<1>15. QED
  <2> HIDE DEF failed, routed, served, Settled
  <2> QED BY <1>1, <1>2, <1>4, <1>5, <1>6, <1>7, <1>8, <1>12, <1>14
          DEF Leaves

-----------------------------------------------------------------------------
(* ConnectionManager.                                                      *)

LEMMA UpdateClientFdsLeaves ==
  ASSUME NEW c \in ClientRec, NEW t, MaySet(c, t), NEW send, NEW receive
  PROVE  Leaves(c, UpdateClientFds(c, t, send, receive))
<1> DEFINE s == CASE send /\ ~receive -> "R_SEND"
                  [] ~send /\ receive -> "R_RECEIVE"
                  [] send /\ receive  -> "R_SENDREC"
                  [] OTHER -> "NONE"
<1>1. s \in FdStates \ {"ABSENT"}
  BY DEF FdStates
<1>2. Leaves(c, SetFd(c, t, s))
  <2> HIDE DEF s
  <2> QED BY <1>1, SetFdLeaves
<1>3. QED
  BY <1>2, LeavesReflexive, Zenon DEF UpdateClientFds

LEMMA HandleCgiFdsLeaves ==
  ASSUME NEW c \in ClientRec, NEW t, MaySet(c, t), NEW send, NEW receive
  PROVE  Leaves(c, HandleCgiFds(c, t, send, receive))
<1> DEFINE d == SetFd(c, t, "CLOSED")
           e == d.epoll \ {t}
<1>1. Leaves(c, d)
  BY SetFdLeaves DEF FdStates
<1>2. Leaves(d, [d EXCEPT !.epoll = e])
  <2> HIDE DEF d
  <2>1. d \in ClientRec /\ d.epoll \in SUBSET FdTypes
    BY <1>1 DEF Leaves, ClientRec
  <2>2. e \in SUBSET FdTypes
    BY <2>1
  <2> HIDE DEF e
  <2>3. QED
    BY <2>1, <2>2, ClientFields, Zenon
<1>3. Leaves(c, [d EXCEPT !.epoll = e])
  <2> HIDE DEF d, e
  <2> QED BY <1>1, <1>2, LeavesTransitive, LeavesKeeps, Zenon
<1>4. QED
  BY <1>3, UpdateClientFdsLeaves, Zenon DEF HandleCgiFds

LEMMA AddChildSocketsToEpollLeaves ==
  ASSUME NEW c \in ClientRec
  PROVE  Leaves(c, AddChildSocketsToEpoll(c))
<1> DEFINE new == { t \in ChildFds : c.fd[t] = "NEW" }
           p == c.epoll \cup new
           d == [c EXCEPT !.epoll = p]
           f == [t \in FdTypes |-> IF t \in new THEN "NONE" ELSE c.fd[t]]
           e == [d EXCEPT !.fd = f]
<1>1. p \in SUBSET FdTypes
  BY DEF ChildFds, FdTypes, ClientRec
<1>2. Leaves(c, d)
  <2> HIDE DEF p
  <2> QED BY <1>1, ClientFields, Zenon
<1>3. /\ f \in [FdTypes -> FdStates]
      /\ f["TOCHILD_FD"] # "ABSENT" <=> c.fd["TOCHILD_FD"] # "ABSENT"
  BY DEF FdStates, FdTypes, ChildFds, ClientRec
<1>4. d.fd = c.fd
  BY DEF ClientRec
<1>5. Leaves(d, e)
  <2> HIDE DEF d, f
  <2> QED BY <1>2, <1>3, <1>4, StatesOrdered
          DEF Leaves, SameChild, HasChildFds, ClientRec, SameScript, SameAnswer
<1>6. Leaves(c, e)
  <2> HIDE DEF d, e
  <2> QED BY <1>2, <1>5, LeavesTransitive
<1>7. AddChildSocketsToEpoll(c) = e
  BY Zenon DEF AddChildSocketsToEpoll
<1>8. QED
  <2> HIDE DEF e
  <2> QED BY <1>6, <1>7

(* d is the same client, but for the signals sent to its child.            *)
SameButSignals(c, d) ==
  /\ d \in ClientRec
  /\ SameAnswer(c, d)
  /\ d.cgiFlag = c.cgiFlag
  /\ d.waitReturn = c.waitReturn
  /\ d.childPid = c.childPid
  /\ d.proc = c.proc
  /\ d.hist.forks = c.hist.forks
  /\ d.errorCode = 0 => c.errorCode = 0
  /\ d.age = c.age
  /\ d.clientState >= c.clientState
  /\ c.isRequestChecked => d.isRequestChecked
  /\ HasChildFds(d) <=> HasChildFds(c)

Own(c) == c.childPid = 1 /\ Unreaped(c)

LEMMA LeavesSameButSignals ==
  ASSUME NEW c, NEW d, Leaves(c, d)
  PROVE  /\ SameButSignals(c, d)
         /\ d.signalSent = c.signalSent /\ d.signal = c.signal
         /\ d.hist.stray = c.hist.stray
BY DEF Leaves, SameChild, SameButSignals, SameScript, SameAnswer

LEMMA SignalSentUpdate ==
  ASSUME NEW c \in ClientRec, NEW n \in 0..2
  PROVE  LET d == [c EXCEPT !.signalSent = n] IN
           /\ SameButSignals(c, d)
           /\ d.signalSent = n /\ d.signal = c.signal
           /\ d.hist.stray = c.hist.stray
BY StatesOrdered DEF SameButSignals, ClientRec, HasChildFds, SameAnswer

LEMMA KillEffect ==
  ASSUME NEW c \in ClientRec, NEW n \in 1..2
  PROVE  LET d == Kill(c, n) IN
           /\ SameButSignals(c, d)
           /\ d.signalSent = c.signalSent
           /\ Own(c) => d.signal = n /\ d.hist.stray = c.hist.stray
<1> DEFINE own == Own(c)
           g == IF own THEN n ELSE c.signal
           y == c.hist.stray \/ ~own
           d1 == [c EXCEPT !.signal = g]
           h == [c.hist EXCEPT !.stray = y]
           d == [d1 EXCEPT !.hist = h]
<1>1. g \in 0..2 /\ y \in BOOLEAN
  BY DEF ClientRec
<1>2. /\ SameButSignals(c, d1) /\ d1.signalSent = c.signalSent
      /\ d1.signal = g /\ d1.hist = c.hist
  <2> HIDE DEF g
  <2> QED BY <1>1, StatesOrdered
             DEF SameButSignals, ClientRec, HasChildFds, SameAnswer
<1>3. h \in History /\ (own => h.stray = c.hist.stray)
      /\ h.forks = c.hist.forks /\ h.generated = c.hist.generated
  <2>1. c.hist \in History
    BY DEF ClientRec
  <2>2. /\ h \in History /\ h.stray = y /\ h.forks = c.hist.forks
        /\ h.generated = c.hist.generated
    <3> HIDE DEF y
    <3> QED BY <1>1, <2>1 DEF History
  <2>3. own => y = c.hist.stray
    BY <2>1 DEF History
  <2>4. QED BY <2>2, <2>3
<1>4. /\ SameButSignals(d1, d) /\ d.signalSent = d1.signalSent
      /\ d.signal = d1.signal /\ d.hist = h
  <2> HIDE DEF d1, h
  <2> QED BY <1>2, <1>3, StatesOrdered DEF SameButSignals, ClientRec,
                                           HasChildFds, SameAnswer
<1>5. Kill(c, n) = d
  BY Zenon DEF Kill, Own
<1>6. QED
  <2> HIDE DEF d1, d, h
  <2> QED BY <1>2, <1>3, <1>4, <1>5, StatesOrdered DEF SameButSignals,
                                                       ClientRec, SameAnswer

LEMMA SameButSignalsTransitive ==
  ASSUME NEW c \in ClientRec, NEW d, NEW e,
         SameButSignals(c, d), SameButSignals(d, e)
  PROVE  SameButSignals(c, e)
BY StatesOrdered DEF SameButSignals, ClientRec, SameAnswer

LEMMA SameButSignalsReflexive ==
  ASSUME NEW c \in ClientRec PROVE SameButSignals(c, c)
BY StatesOrdered DEF SameButSignals, ClientRec, SameAnswer

(* The first signal: sent once, and to the client's own child if every     *)
(* child that may be waited for is its own.                                *)
LEMMA TerminateEffect ==
  ASSUME NEW c \in ClientRec, NEW flag
  PROVE  LET d == Terminate(c, flag) IN
           /\ SameButSignals(c, d)
           /\ c.signalSent # 0 \/ c.waitReturn # 0 => d = c
           /\ d.signalSent \in {c.signalSent, 1}
           /\ TimedOut(c) /\ c.waitReturn = 0 => d.signalSent # 0
           /\ (c.childPid # 0 /\ c.waitReturn = 0 => Own(c))
                => d.hist.stray = c.hist.stray
<1> DEFINE d == [c EXCEPT !.signalSent = 1]
           e == IF c.cgiFlag /\ c.childPid # 0 THEN Kill(d, 1) ELSE d
           f == IF ~c.cgiFlag /\ c.clientState # DELETEME
                THEN SetClientState(e, DO_RESPONSE) ELSE e
           late == /\ TimedOut(c) \/ flag > 0 \/ c.errorCode # 0
                   /\ c.waitReturn = 0
                   /\ c.signalSent = 0
<1>1. /\ SameButSignals(c, d) /\ d.signalSent = 1
      /\ d.hist.stray = c.hist.stray
  <2>1. 1 \in 0..2
    OBVIOUS
  <2>2. QED
    BY <2>1, SignalSentUpdate, Zenon
<1>2. Own(d) <=> Own(c)
  <2> HIDE DEF d
  <2> QED BY <1>1 DEF Own, SameButSignals, Unreaped, SameAnswer
<1>3. /\ SameButSignals(c, e) /\ e.signalSent = 1
      /\ (c.childPid # 0 => Own(c)) => e.hist.stray = c.hist.stray
  <2> HIDE DEF d
  <2>1. CASE c.cgiFlag /\ c.childPid # 0
    <3>1. /\ SameButSignals(d, e) /\ e.signalSent = 1
          /\ Own(d) => e.hist.stray = d.hist.stray
      <4>1. d \in ClientRec /\ 1 \in 1..2 /\ e = Kill(d, 1)
        BY <1>1, <2>1 DEF SameButSignals, SameAnswer
      <4> HIDE DEF e
      <4>2. QED
        BY <1>1, <4>1, KillEffect
    <3>2. QED
      BY <1>1, <1>2, <2>1, <3>1, SameButSignalsTransitive
  <2>2. CASE ~(c.cgiFlag /\ c.childPid # 0)
    BY <1>1, <2>2
  <2>3. QED BY <2>1, <2>2
<1>4. /\ SameButSignals(c, f) /\ f.signalSent = 1
      /\ (c.childPid # 0 => Own(c)) => f.hist.stray = c.hist.stray
  <2> HIDE DEF e
  <2>1. Leaves(e, SetClientState(e, DO_RESPONSE))
    BY <1>3, SetClientStateLeaves, StatesOrdered DEF SameButSignals, SameAnswer
  <2>2. QED
    BY <1>3, <2>1, LeavesSameButSignals, SameButSignalsTransitive
<1>5. Terminate(c, flag) = IF late THEN f ELSE c
  BY Zenon DEF Terminate
<1>6. c.signalSent \in 0..2
  BY DEF ClientRec
<1>7. QED
  <2> HIDE DEF f
  <2> QED BY <1>4, <1>5, <1>6, SameButSignalsReflexive

(* The second signal: SIGKILL to the client's own child.                   *)
LEMMA KillLateEffect ==
  ASSUME NEW c \in ClientRec
  PROVE  LET d == KillLate(c) IN
           /\ SameButSignals(c, d)
           /\ d = c \/ (/\ d.signalSent = 2
                        /\ d.clientState >= DO_RESPONSE
                        /\ Own(c) => d.signal = 2)
           /\ TimedOutHalf(c) /\ c.waitReturn = 0 /\ c.signalSent = 1
                => d.signalSent = 2
           /\ (c.childPid # 0 /\ c.waitReturn = 0 => Own(c))
                => d.hist.stray = c.hist.stray
<1> DEFINE d == [c EXCEPT !.signalSent = 2]
           e == IF c.childPid # 0 THEN Kill(d, 2) ELSE d
           f == SetClientState(e, DO_RESPONSE)
           late == TimedOutHalf(c) /\ c.waitReturn = 0 /\ c.signalSent = 1
<1>1. /\ SameButSignals(c, d) /\ d.signalSent = 2
      /\ d.hist.stray = c.hist.stray
  <2>1. 2 \in 0..2
    OBVIOUS
  <2>2. QED
    BY <2>1, SignalSentUpdate, Zenon
<1>2. Own(d) <=> Own(c)
  <2> HIDE DEF d
  <2> QED BY <1>1 DEF Own, SameButSignals, Unreaped, SameAnswer
<1>3. /\ SameButSignals(c, e) /\ e.signalSent = 2
      /\ Own(c) => e.signal = 2
      /\ (c.childPid # 0 => Own(c)) => e.hist.stray = c.hist.stray
  <2> HIDE DEF d
  <2>1. CASE c.childPid # 0
    <3>1. /\ SameButSignals(d, e) /\ e.signalSent = 2
          /\ Own(d) => e.signal = 2 /\ e.hist.stray = d.hist.stray
      BY <1>1, <2>1, KillEffect DEF SameButSignals, SameAnswer
    <3>2. QED
      BY <1>1, <1>2, <2>1, <3>1, SameButSignalsTransitive
  <2>2. CASE c.childPid = 0
    BY <1>1, <2>2 DEF Own
  <2>3. QED BY <2>1, <2>2
<1>4. /\ SameButSignals(c, f) /\ f.signalSent = 2
      /\ f.clientState >= DO_RESPONSE
      /\ Own(c) => f.signal = 2
      /\ (c.childPid # 0 => Own(c)) => f.hist.stray = c.hist.stray
  <2> HIDE DEF e
  <2>1. /\ Leaves(e, SetClientState(e, DO_RESPONSE))
        /\ SetClientState(e, DO_RESPONSE).clientState >= DO_RESPONSE
    BY <1>3, SetClientStateLeaves, StatesOrdered DEF SameButSignals, SameAnswer
  <2>2. QED
    BY <1>3, <2>1, LeavesSameButSignals, SameButSignalsTransitive
<1>5. KillLate(c) = IF late THEN f ELSE c
  BY Zenon DEF KillLate
<1>6. QED
  <2> HIDE DEF f
  <2> QED BY <1>4, <1>5, SameButSignalsReflexive

-----------------------------------------------------------------------------
(* Cgi.                                                                    *)

LEMMA StopCgiSetErrorCodeKeeps ==
  ASSUME NEW c \in ClientRec, NEW code \in {500, 502}
  PROVE  LET d == StopCgiSetErrorCode(c, code) IN
           /\ Keeps(c, d)
           /\ IF HasChildFds(c) THEN d.cgiFlag = c.cgiFlag ELSE ~d.cgiFlag
<1> DEFINE d == SetClientState(c, DO_RESPONSE)
           x == IF TimedOut(d) THEN 504 ELSE code
           e == IF d.errorCode = 0 THEN SetErrorCode(d, x) ELSE d
           f == [e EXCEPT !.msg["RESP_MSG"].state = "COMPLETE"]
           g == CloseOutput(f)
           h == [e EXCEPT !.cgiFlag = FALSE]
<1>1. Leaves(c, d)
  BY SetClientStateLeaves, StatesOrdered
<1>2. Leaves(c, e)
  <2> HIDE DEF d
  <2>1. x \in ErrorCodes \ {0}
    BY DEF ErrorCodes
  <2> HIDE DEF x
  <2>2. QED
    BY <1>1, <2>1, SetErrorCodeLeaves, LeavesTransitive DEF Leaves
<1>3. Leaves(c, g)
  <2>1. Leaves(e, f)
    <3> HIDE DEF e
    <3> QED BY <1>2, MessageUpdate DEF Leaves, MsgTypes, MsgStates
  <2>2. Leaves(f, g)
    <3> HIDE DEF f
    <3> QED BY <2>1, SetFdLeaves
            DEF Leaves, CloseOutput, MaySet, FdTypes, FdStates
  <2> HIDE DEF e, f, g
  <2>3. QED
    BY <1>2, <2>1, <2>2, LeavesTransitive
<1>4. Keeps(c, h) /\ ~h.cgiFlag
  <2>1. Keeps(e, h) /\ ~h.cgiFlag
    <3> HIDE DEF e
    <3> QED BY <1>2, CgiFlagKeeps DEF Leaves
  <2> HIDE DEF e, h
  <2>2. QED
    BY <1>2, <2>1, KeepsTransitive, LeavesKeeps
<1>5. HasChildFds(e) <=> HasChildFds(c)
  <2> HIDE DEF e
  <2> QED BY <1>2 DEF Leaves, SameChild, SameScript, SameAnswer
<1>6. StopCgiSetErrorCode(c, code) = IF HasChildFds(e) THEN g ELSE h
  BY Zenon DEF StopCgiSetErrorCode
<1>7. QED
  <2> HIDE DEF e, g, h
  <2> QED BY <1>3, <1>4, <1>5, <1>6, LeavesKeeps DEF Leaves

LEMMA HandleReturnStatusKeeps ==
  ASSUME NEW c \in ClientRec, NEW status
  PROVE  Keeps(c, HandleReturnStatus(c, status))
<1> DEFINE d == SetClientState(c, DELETEME)
           e == [d EXCEPT !.cgiFlag = FALSE]
<1>1. Keeps(c, e)
  <2>1. Leaves(c, d)
    BY SetClientStateLeaves, StatesOrdered
  <2>2. Keeps(d, e)
    <3> HIDE DEF d
    <3> QED BY <2>1, CgiFlagKeeps DEF Leaves
  <2> HIDE DEF d, e
  <2>3. QED
    BY <2>1, <2>2, KeepsTransitive, LeavesKeeps
<1>2. Keeps(c, c)
  BY LeavesReflexive, LeavesKeeps
<1>3. /\ Keeps(c, StopCgiSetErrorCode(c, 500))
      /\ Keeps(c, StopCgiSetErrorCode(c, 502))
  BY StopCgiSetErrorCodeKeeps
<1>4. HandleReturnStatus(c, status) \in
        {c, e, StopCgiSetErrorCode(c, 500), StopCgiSetErrorCode(c, 502)}
  <2>1. HandleReturnStatus(c, status) =
          CASE status = "signaled" -> StopCgiSetErrorCode(c, 500)
            [] status # "signaled" /\ c.clientState = CRITICAL_ERROR -> e
            [] status = "exitN" /\ c.clientState # CRITICAL_ERROR ->
                 StopCgiSetErrorCode(c, 502)
            [] OTHER -> c
    BY Zenon DEF HandleReturnStatus
  <2> HIDE DEF e
  <2>2. QED BY <2>1
<1>5. QED
  <2> HIDE DEF e
  <2> QED BY <1>1, <1>2, <1>3, <1>4

(* d is the same client, but for the child and what is known of it; it     *)
(* has its child sockets still.                                            *)
SameRequest(c, d) ==
  /\ d \in ClientRec
  /\ SameAnswer(c, d)
  /\ d.signalSent = c.signalSent
  /\ d.signal = c.signal
  /\ d.hist.stray = c.hist.stray
  /\ d.errorCode = 0 => c.errorCode = 0
  /\ d.clientState >= c.clientState
  /\ c.isRequestChecked => d.isRequestChecked
  /\ HasChildFds(c) => HasChildFds(d)

LEMMA KeepsSameRequest ==
  ASSUME NEW c \in ClientRec, NEW d, NEW e, SameRequest(c, d), Keeps(d, e)
  PROVE  SameRequest(c, e)
BY StatesOrdered
   DEF Keeps, SameChild, SameRequest, ClientRec, SameScript, SameAnswer

LEMMA WaitReturnUpdate ==
  ASSUME NEW c \in ClientRec, NEW v \in -1..1
  PROVE  LET d == [c EXCEPT !.waitReturn = v] IN
           /\ SameRequest(c, d)
           /\ d.waitReturn = v /\ d.proc = c.proc
           /\ d.hist.forks = c.hist.forks
           /\ d.cgiFlag = c.cgiFlag /\ d.childPid = c.childPid
BY StatesOrdered DEF SameRequest, ClientRec, HasChildFds, SameAnswer

LEMMA ChildPidUpdate ==
  ASSUME NEW c \in ClientRec, NEW v \in -1..1
  PROVE  LET d == [c EXCEPT !.childPid = v] IN
           /\ SameRequest(c, d)
           /\ d.waitReturn = c.waitReturn /\ d.proc = c.proc
           /\ d.hist.forks = c.hist.forks
           /\ d.cgiFlag = c.cgiFlag /\ d.childPid = v
           /\ HasChildFds(d) <=> HasChildFds(c)
BY StatesOrdered DEF SameRequest, ClientRec, HasChildFds, SameAnswer

LEMMA ProcUpdate ==
  ASSUME NEW c \in ClientRec, NEW v \in ProcState
  PROVE  LET d == [c EXCEPT !.proc = v] IN
           /\ SameRequest(c, d)
           /\ d.waitReturn = c.waitReturn /\ d.proc = v
           /\ d.hist.forks = c.hist.forks
           /\ d.cgiFlag = c.cgiFlag /\ d.childPid = c.childPid
BY StatesOrdered DEF SameRequest, ClientRec, HasChildFds, SameAnswer

(* The count of the children started.                                      *)
LEMMA ForksUpdate ==
  ASSUME NEW c \in ClientRec, NEW v \in 0..2
  PROVE  LET d == [c EXCEPT !.hist.forks = v] IN
           /\ SameRequest(c, d)
           /\ d.waitReturn = c.waitReturn /\ d.proc = c.proc
           /\ d.cgiFlag = c.cgiFlag /\ d.childPid = c.childPid
           /\ d.hist.forks = v
<1> DEFINE h == [c.hist EXCEPT !.forks = v]
           d == [c EXCEPT !.hist = h]
<1>1. /\ h \in History /\ h.forks = v
      /\ h.stray = c.hist.stray /\ h.generated = c.hist.generated
  BY HistoryFields DEF ClientRec
<1>2. /\ SameRequest(c, d)
      /\ d.waitReturn = c.waitReturn /\ d.proc = c.proc
      /\ d.cgiFlag = c.cgiFlag /\ d.childPid = c.childPid
      /\ d.hist.forks = v
  <2> HIDE DEF h
  <2> QED BY <1>1, StatesOrdered
             DEF SameRequest, ClientRec, HasChildFds, SameAnswer
<1> QED BY <1>2

(* waitpid: without a failure it reports a child that has ended, once, and *)
(* changes nothing else.                                                   *)
LEMMA WaitForChildEffect ==
  ASSUME NEW c \in ClientRec, NEW fails \in BOOLEAN
  PROVE  LET d == WaitForChild(c, fails) IN
           /\ SameRequest(c, d) /\ d.hist.forks = c.hist.forks
           /\ ~fails /\ c.waitReturn >= 0 =>
                \/ /\ c.waitReturn = 0 /\ c.proc \in Ended
                   /\ d.waitReturn = 1 /\ d.proc \in Reaped
                   /\ d.childPid = c.childPid
                \/ /\ ~(c.waitReturn = 0 /\ c.proc \in Ended)
                   /\ d.waitReturn = c.waitReturn /\ d.proc = c.proc
                   /\ d.childPid = c.childPid /\ d.cgiFlag = c.cgiFlag
<1> DEFINE w == [c EXCEPT !.waitReturn = 1]
           p == IF c.proc = "exit0" THEN "reaped0" ELSE "reapedN"
           reaped == [w EXCEPT !.proc = p]
           failed == [c EXCEPT !.waitReturn = -1]
           still  == [c EXCEPT !.waitReturn = 0]
<1>1. /\ SameRequest(c, reaped) /\ reaped.waitReturn = 1
      /\ reaped.proc \in Reaped /\ reaped.childPid = c.childPid
      /\ reaped.hist.forks = c.hist.forks
  <2>1. p \in ProcState /\ p \in Reaped /\ 1 \in -1..1
    BY DEF ProcState, Reaped
  <2>2. /\ SameRequest(c, w) /\ w.waitReturn = 1 /\ w.childPid = c.childPid
        /\ w.hist.forks = c.hist.forks
    BY <2>1, WaitReturnUpdate, Zenon
  <2>3. /\ SameRequest(w, reaped) /\ reaped.waitReturn = w.waitReturn
        /\ reaped.proc = p /\ reaped.childPid = w.childPid
        /\ reaped.hist.forks = w.hist.forks
    <3> HIDE DEF w, p
    <3>1. w \in ClientRec
      BY <2>2 DEF SameRequest, SameAnswer
    <3>2. QED
      BY <2>1, <3>1, ProcUpdate, Zenon
  <2>4. QED
    <3> HIDE DEF w, p, reaped
    <3> QED BY <2>1, <2>2, <2>3, StatesOrdered
               DEF SameRequest, ClientRec, SameAnswer
<1>2. SameRequest(c, failed) /\ failed.hist.forks = c.hist.forks
  <2>1. -1 \in -1..1
    OBVIOUS
  <2>2. QED
    BY <2>1, WaitReturnUpdate, Zenon
<1>3. /\ SameRequest(c, still) /\ still.waitReturn = 0
      /\ still.proc = c.proc /\ still.cgiFlag = c.cgiFlag
      /\ still.childPid = c.childPid
      /\ still.hist.forks = c.hist.forks
  <2>1. 0 \in -1..1
    OBVIOUS
  <2>2. QED
    BY <2>1, WaitReturnUpdate, Zenon
<1>4. LET d == StopCgiSetErrorCode(failed, 500) IN
        SameRequest(c, d) /\ d.hist.forks = c.hist.forks
  <2> HIDE DEF failed
  <2>1. Keeps(failed, StopCgiSetErrorCode(failed, 500))
    BY <1>2, StopCgiSetErrorCodeKeeps DEF SameRequest, SameAnswer
  <2> QED BY <1>2, <2>1, KeepsSameRequest
             DEF Keeps, SameChild, SameScript, SameAnswer
<1>5. LET d == HandleReturnStatus(reaped, c.proc) IN
        /\ SameRequest(c, d)
        /\ d.waitReturn = 1 /\ d.proc \in Reaped /\ d.childPid = c.childPid
        /\ d.hist.forks = c.hist.forks
  <2> HIDE DEF reaped
  <2>1. Keeps(reaped, HandleReturnStatus(reaped, c.proc))
    BY <1>1, HandleReturnStatusKeeps DEF SameRequest, SameAnswer
  <2>2. QED
    BY <1>1, <2>1, KeepsSameRequest
       DEF Keeps, SameChild, SameScript, SameAnswer
<1>6. WaitForChild(c, fails) =
        CASE c.waitReturn > 0 -> c
          [] c.waitReturn <= 0 /\ fails -> StopCgiSetErrorCode(failed, 500)
          [] c.waitReturn <= 0 /\ ~fails /\ c.proc \in Ended ->
               HandleReturnStatus(reaped, c.proc)
          [] OTHER -> still
  BY Zenon DEF WaitForChild
<1>7. SameRequest(c, c)
  BY StatesOrdered DEF SameRequest, ClientRec, SameAnswer
<1>8. c.waitReturn \in -1..1
  BY DEF ClientRec
<1>9. QED
  <2> HIDE DEF reaped, failed, still
  <2> QED BY <1>3, <1>4, <1>5, <1>6, <1>7, <1>8

LEMMA SetChildSocketEffect ==
  ASSUME NEW c \in ClientRec
  PROVE  LET d == SetChildSocket(c) IN
           /\ SameRequest(c, d) /\ HasChildFds(d)
           /\ d.hist.forks = c.hist.forks
           /\ d.waitReturn = c.waitReturn /\ d.proc = c.proc
           /\ d.cgiFlag = c.cgiFlag /\ d.childPid = c.childPid
<1> DEFINE d1 == [c EXCEPT !.fd["TOCHILD_FD"] = "NEW"]
           d  == [d1 EXCEPT !.fd["FROMCHILD_FD"] = "NEW"]
<1>1. /\ SameRequest(c, d1) /\ HasChildFds(d1)
      /\ d1.hist.forks = c.hist.forks
      /\ d1.waitReturn = c.waitReturn /\ d1.proc = c.proc
      /\ d1.cgiFlag = c.cgiFlag /\ d1.childPid = c.childPid
  BY StatesOrdered
     DEF SameRequest, ClientRec, HasChildFds, FdTypes, FdStates, SameAnswer
<1>2. Leaves(d1, d)
  <2> HIDE DEF d1
  <2>1. d1 \in ClientRec
    BY <1>1 DEF SameRequest, SameAnswer
  <2>2. MaySet(d1, "FROMCHILD_FD") /\ "NEW" \in FdStates \ {"ABSENT"}
    BY DEF MaySet, FdTypes, FdStates
  <2>3. Leaves(d1, SetFd(d1, "FROMCHILD_FD", "NEW"))
    BY <2>1, <2>2, SetFdLeaves
  <2>4. QED
    BY <2>3, Zenon DEF SetFd
<1>3. SetChildSocket(c) = d
  BY Zenon DEF SetChildSocket
<1>4. QED
  <2> HIDE DEF d1, d
  <2> QED BY <1>1, <1>2, <1>3, KeepsSameRequest, LeavesKeeps
          DEF Leaves, SameChild, SameScript, SameAnswer

LEMMA StartChildEffect ==
  ASSUME NEW c \in ClientRec, NEW o \in CgiOutcome, ~HasChildFds(c)
  PROVE  LET d == StartChild(c, o) IN
           /\ SameRequest(c, d) /\ d.waitReturn = c.waitReturn
           /\ o.start = "started" =>
                /\ d.childPid = 1 /\ d.proc = o.child
                /\ d.cgiFlag = c.cgiFlag /\ HasChildFds(d)
                /\ c.hist.forks = 0 => d.hist.forks = 1
           /\ o.start # "started" =>
                /\ d.proc = c.proc /\ ~d.cgiFlag /\ ~HasChildFds(d)
                /\ d.hist.forks = c.hist.forks
           /\ o.start = "prepare" => d.childPid = c.childPid
<1> DEFINE s0 == SetChildSocket(c)
           s1 == [s0 EXCEPT !.childPid = 1]
           s2 == [s1 EXCEPT !.proc = o.child]
           s3 == [s2 EXCEPT !.toChild = TRUE]
           s4 == [s3 EXCEPT !.fromChild = o.output]
           n  == IF s0.hist.forks = 2 THEN 2 ELSE s0.hist.forks + 1
           s5 == [s4 EXCEPT !.hist.forks = n]
           f0 == [c EXCEPT !.childPid = -1]
<1>1. o.child \in ProcState /\ o.output \in BOOLEAN
      /\ 1 \in -1..1 /\ -1 \in -1..1
  BY DEF CgiOutcome, ProcState
<1>2. /\ SameRequest(c, s0) /\ HasChildFds(s0)
      /\ s0.waitReturn = c.waitReturn /\ s0.cgiFlag = c.cgiFlag
      /\ s0.hist.forks = c.hist.forks
  BY SetChildSocketEffect
<1>3. /\ SameRequest(s0, s1)
      /\ s1.waitReturn = s0.waitReturn /\ s1.cgiFlag = s0.cgiFlag
      /\ s1.childPid = 1
  <2> HIDE DEF s0
  <2>1. s0 \in ClientRec
    BY <1>2 DEF SameRequest, SameAnswer
  <2>2. 1 \in -1..1
    OBVIOUS
  <2>3. SameRequest(s0, s1)
    BY <2>1, <2>2, ChildPidUpdate, Zenon
  <2>4. /\ s1.waitReturn = s0.waitReturn /\ s1.cgiFlag = s0.cgiFlag
        /\ s1.childPid = 1
    BY <2>1 DEF ClientRec
  <2>5. QED
    BY <2>3, <2>4
<1>4. /\ SameRequest(s1, s2)
      /\ s2.waitReturn = s1.waitReturn /\ s2.cgiFlag = s1.cgiFlag
      /\ s2.childPid = s1.childPid /\ s2.proc = o.child
  <2> HIDE DEF s1
  <2>1. s1 \in ClientRec
    BY <1>3 DEF SameRequest, SameAnswer
  <2>2. QED
    BY <1>1, <2>1, ProcUpdate, Zenon
<1>5. Leaves(s2, s4)
  <2>1. Leaves(s2, s3)
    <3> HIDE DEF s2
    <3> QED BY <1>4, ClientFields DEF SameRequest, SameAnswer
  <2>2. Leaves(s3, s4)
    <3> HIDE DEF s3
    <3> QED BY <1>1, <2>1, ClientFields, Zenon DEF Leaves
  <2> HIDE DEF s2, s3, s4
  <2>3. QED
    BY <1>4, <2>1, <2>2, LeavesTransitive DEF SameRequest, SameAnswer
<1>6. n \in 0..2
  <2> HIDE DEF s0
  <2> QED BY <1>2 DEF SameRequest, ClientRec, History, SameAnswer
<1>7. /\ SameRequest(s4, s5)
      /\ s5.waitReturn = s4.waitReturn /\ s5.proc = s4.proc
      /\ s5.cgiFlag = s4.cgiFlag /\ s5.childPid = s4.childPid
      /\ s5.hist.forks = n
  <2> HIDE DEF s2, s4, n
  <2>1. s4 \in ClientRec
    BY <1>5 DEF Leaves
  <2> QED BY <1>6, <2>1, ForksUpdate, Zenon
<1>8. /\ SameRequest(c, s5) /\ HasChildFds(s5)
      /\ s5.waitReturn = c.waitReturn /\ s5.cgiFlag = c.cgiFlag
      /\ s5.childPid = 1 /\ s5.proc = o.child
      /\ c.hist.forks = 0 => s5.hist.forks = 1
  <2>0. c.hist.forks = 0 => n = 1
    <3> HIDE DEF s0
    <3> QED BY <1>2
  <2> HIDE DEF s0, s1, s2, s4, s5, n
  <2>1. /\ SameRequest(c, s2) /\ HasChildFds(s2)
        /\ s2.waitReturn = c.waitReturn /\ s2.cgiFlag = c.cgiFlag
        /\ s2.childPid = 1 /\ s2.proc = o.child
    BY <1>2, <1>3, <1>4, StatesOrdered DEF SameRequest, ClientRec, SameAnswer
  <2>2. SameRequest(c, s4)
    BY <1>5, <2>1, LeavesKeeps, KeepsSameRequest DEF SameRequest, SameAnswer
  <2>3. SameRequest(c, s5)
    BY <1>7, <2>2, StatesOrdered DEF SameRequest, ClientRec, SameAnswer
  <2>4. QED
    BY <1>5, <1>7, <2>0, <2>1, <2>3
       DEF Leaves, SameChild, SameRequest, SameScript, SameAnswer
<1>9. LET d == StopCgiSetErrorCode(c, 500) IN
        /\ SameRequest(c, d) /\ d.waitReturn = c.waitReturn
        /\ d.proc = c.proc /\ ~d.cgiFlag /\ ~HasChildFds(d)
        /\ d.childPid = c.childPid /\ d.hist.forks = c.hist.forks
  BY StopCgiSetErrorCodeKeeps, StatesOrdered
     DEF Keeps, SameChild, SameRequest, SameScript, SameAnswer
<1>10. LET d == StopCgiSetErrorCode(f0, 500) IN
         /\ SameRequest(c, d) /\ d.waitReturn = c.waitReturn
         /\ d.proc = c.proc /\ ~d.cgiFlag /\ ~HasChildFds(d)
         /\ d.hist.forks = c.hist.forks
  <2>1. /\ SameRequest(c, f0) /\ f0.waitReturn = c.waitReturn
        /\ f0.proc = c.proc /\ ~HasChildFds(f0)
        /\ f0.hist.forks = c.hist.forks
    BY <1>1, ChildPidUpdate, ZenonT(40)
  <2> HIDE DEF f0
  <2>2. QED
    BY <2>1, StopCgiSetErrorCodeKeeps, KeepsSameRequest
       DEF Keeps, SameChild, SameRequest, SameScript, SameAnswer
<1>11. StartChild(c, o) =
         CASE o.start = "prepare" -> StopCgiSetErrorCode(c, 500)
           [] o.start = "fork" -> StopCgiSetErrorCode(f0, 500)
           [] OTHER -> s5
  BY Zenon DEF StartChild
<1>12. o.start \in {"started", "prepare", "fork"}
  BY DEF CgiOutcome
<1>13. QED
  <2> HIDE DEF f0, s5
  <2> QED BY <1>8, <1>9, <1>10, <1>11, <1>12

LEMMA CgiOutcomeTypes ==
  ASSUME NEW c, NEW o \in CgiOutcomes(c)
  PROVE  o \in CgiOutcome /\ (o.waitFails => "waitpid" \in Faults)
<1>1. StartResults \subseteq {"started", "prepare", "fork"}
  BY DEF StartResults
<1>2. {"running"} \cup Endings \subseteq {"running"} \cup Ended
  BY EndingsAssumption DEF Ended
<1>3. QED
  BY <1>1, <1>2 DEF CgiOutcomes, CgiOutcome

(* _cgiClient as a whole.                                                  *)
LEMMA CgiClientType ==
  ASSUME NEW c \in ClientRec, NEW o \in CgiOutcomes(c)
  PROVE  SameRequest(c, CgiClient(c, o))
<1> DEFINE d == StartChild(c, o)
<1>1. o \in CgiOutcome /\ o.waitFails \in BOOLEAN
  BY CgiOutcomeTypes DEF CgiOutcome
<1>2. SameRequest(c, c)
  BY StatesOrdered DEF SameRequest, ClientRec, SameAnswer
<1>3. SameRequest(c, WaitForChild(c, o.waitFails))
  BY <1>1, WaitForChildEffect
<1>4. CASE HasChildFds(c)
  BY <1>2, <1>3, <1>4 DEF CgiClient
<1>5. CASE ~HasChildFds(c)
  <2>1. SameRequest(c, d)
    BY <1>1, <1>5, StartChildEffect
  <2>2. SameRequest(c, WaitForChild(d, o.waitFails))
    <3> HIDE DEF d
    <3>1. SameRequest(d, WaitForChild(d, o.waitFails))
      BY <1>1, <2>1, WaitForChildEffect DEF SameRequest, SameAnswer
    <3>2. QED
      BY <2>1, <3>1, StatesOrdered DEF SameRequest, ClientRec, SameAnswer
  <2>3. QED
    BY <1>2, <1>5, <2>1, <2>2 DEF CgiClient
<1>6. QED
  BY <1>4, <1>5
=============================================================================
