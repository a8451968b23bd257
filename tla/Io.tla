--------------------------------- MODULE Io ---------------------------------
(***************************************************************************)
(* The I/O component (srcs_new/Io/Io.cpp): for every client, one recv or   *)
(* one send on the descriptor that its state selects, and what follows     *)
(* from the end of a message.                                              *)
(***************************************************************************)
EXTENDS Client

-----------------------------------------------------------------------------
(* The kernel's answer to recv and send.                                   *)

(* What recv returns: 1 bytes, 0 end of file, -1 error or nothing to read. *)
RecvValue(c, t) ==
  IF t = "FROMCHILD_FD"
  THEN IF c.fromChild THEN 1 ELSE IF c.proc = "running" THEN -1 ELSE 0
  ELSE CASE c.in = "data" -> 1 [] c.in = "eof" -> 0 [] OTHER -> -1

(* There is nothing to read and no end of file: recv answers EAGAIN.       *)
WouldBlockRecv(c, t) ==
  IF t = "FROMCHILD_FD" THEN ~c.fromChild /\ c.proc = "running"
                        ELSE c.in = "idle"

(* The bytes are taken out of the kernel's buffer, which may hold more.    *)
TakeBytes(c, t, more) ==
  IF t = "FROMCHILD_FD"
  THEN [c EXCEPT !.fromChild = c.fromChild /\ more]
  ELSE IF c.in = "data" /\ ~more THEN [c EXCEPT !.in = "idle"] ELSE c

(* send puts bytes in the kernel's buffer: not when it is full, nor to a   *)
(* child that has ended (EPIPE).                                           *)
HasRoom(c, t) ==
  IF t = "CLIENT_FD" THEN c.out ELSE c.toChild /\ c.proc = "running"

WouldBlockSend(c, t) ==
  IF t = "CLIENT_FD" THEN ~c.out ELSE ~c.toChild /\ c.proc = "running"

PutBytes(c, t, full) ==
  IF ~full THEN c
  ELSE IF t = "CLIENT_FD" THEN [c EXCEPT !.out = FALSE]
                          ELSE [c EXCEPT !.toChild = FALSE]

-----------------------------------------------------------------------------
(* setFdTypeAndMsg.                                                        *)

FdTypeOf(c) ==
  CASE c.clientState = DO_CGISEND -> "TOCHILD_FD"
    [] c.clientState = DO_CGIREC  -> "FROMCHILD_FD"
    [] OTHER -> "CLIENT_FD"

MsgOf(c) ==
  IF c.clientState \in {DO_REQUEST, DO_CGISEND} THEN "REQ_MSG" ELSE "RESP_MSG"

(* setFinishedSending.  Mutant: the error code is not looked at.           *)
SetFinishedSendingAnyway(c, t) ==
  LET d == CASE t = "CLIENT_FD" -> SetClientState(c, DELETEME)
             [] OTHER -> SetClientState(c, DO_CGIREC)
  IN  SetFd(d, t, "CLOSE")

SetFinishedSending(c, t) ==
  LET d == CASE t = "CLIENT_FD" -> SetClientState(c, DELETEME)
             [] t = "TOCHILD_FD" /\ c.errorCode = 0 ->
                  SetClientState(c, DO_CGIREC)
             [] OTHER -> c
  IN  SetFd(d, t, "CLOSE")

(* setFinishedReceiving.  A request that was not whole is so no longer.    *)
SetFinishedReceiving(c, t, m, o) ==
  LET d == IF t = "FROMCHILD_FD"
           THEN SetFd(SetClientState(c, DO_RESPONSE), t, "CLOSE") ELSE c
      e == IF o.alloc /\ ~d.msg[m].header THEN SetClientState(d, DELETEME)
           ELSE CreateHeader(d, m, o.result)
  IN  IF t = "CLIENT_FD" /\ c.msg[m].head = "empty"
      THEN SetClientState(d, DELETEME)
      ELSE [e EXCEPT !.msg[m].head = "complete", !.msg[m].state = "COMPLETE",
                     !.msg[m].it = "head",
                     !.hist.cut = @ \/ (/\ m = "REQ_MSG"
                                        /\ c.msg[m].state # "COMPLETE")]

-----------------------------------------------------------------------------
(* _receiveMsg.  o is what the call meets: the parse of the bytes, the     *)
(* verdict on the header, whether an allocation fails, whether the kernel  *)
(* holds more bytes.                                                       *)
RecvOutcome == [parse : ParseResult, result : HeaderResults,
                alloc : BOOLEAN, more : BOOLEAN]

RecvOutcomes(c, t, m) ==
  [parse  : IF RecvValue(c, t) > 0 THEN Parsed(c.msg[m], m) ELSE {NoBytes},
   result : IF c.msg[m].header THEN {0} ELSE HeaderVerdicts,
   alloc  : IF "alloc" \in Faults THEN BOOLEAN ELSE {FALSE},
   more   : IF RecvValue(c, t) > 0 THEN BOOLEAN ELSE {FALSE}]

BufferToNodes(c, m, o) ==
  LET p == o.parse
      d == [c EXCEPT !.msg[m].head = p.head, !.msg[m].state = p.state,
                     !.msg[m].body = p.body,
                     !.msg[m].it = IF p.body THEN "body" ELSE "head"]
  IN  IF c.msg[m].state # "INCOMPLETE" THEN c
      ELSE IF p.head = "complete" THEN CreateHeader(d, m, o.result) ELSE d

(* Nothing is concluded from what was read while the child is unreaped.    *)
AwaitsChild(c) == c.cgiFlag /\ c.waitReturn = 0

ReceiveMsg(c, t, m, o) ==
  LET v == RecvValue(c, t)
      k == [TakeBytes(c, t, o.more) EXCEPT
              !.hist.idleRecv = @ \/ WouldBlockRecv(c, t)]
      d == CASE v <= 0 -> k
             [] v > 0 /\ o.alloc ->
                  SetClientState(k, IF c.clientState = DO_CGIREC
                                    THEN CRITICAL_ERROR ELSE DELETEME)
             [] OTHER -> BufferToNodes(k, m, o)
      e == IF v < 0 THEN SetErrorCode(d, 500) ELSE d
  IN  IF AwaitsChild(d) THEN d
      ELSE IF v <= 0 \/ d.msg[m].state = "COMPLETE"
      THEN SetFinishedReceiving(e, t, m, o)
      ELSE d

-----------------------------------------------------------------------------
(* _sendMsg.  The chain is its first node and the rest of it.  o: the      *)
(* current part has gone out whole, the kernel's buffer is full afterwards,*)
(* the connection failed.                                                  *)
SendOutcome == [whole : BOOLEAN, full : BOOLEAN, failed : BOOLEAN]

SendOutcomes ==
  { o \in SendOutcome : o.failed => "net" \in Faults /\ ~o.whole /\ ~o.full }

AdvanceIterator(c, m) ==
  [c EXCEPT !.msg[m].it =
     IF @ = "head" /\ c.msg[m].body THEN "body" ELSE "end"]

(* CGI output whose header has not been converted yet is held back.        *)
(* Mutant: it is not.                                                      *)
NeverHeldBack(c) == FALSE

HeldBack(c) ==
  c.cgiFlag /\ c.waitReturn # 0 /\ c.clientState = DO_RESPONSE

SendMsg(c, t, m, o) ==
  LET skipped == IF t = "TOCHILD_FD" /\ c.msg[m].it = "head"
                 THEN AdvanceIterator(c, m) ELSE c
      trying  == [skipped EXCEPT
                    !.hist.fullSend = @ \/ WouldBlockSend(c, t),
                    !.hist.rawSent = @ \/ (/\ t = "CLIENT_FD" /\ HasRoom(c, t)
                                           /\ ~o.failed
                                           /\ c.msg[m].kind = "raw")]
      sent    == PutBytes(IF o.whole THEN AdvanceIterator(trying, m)
                          ELSE trying, t, o.full)
  IN  CASE c.msg[m].state # "COMPLETE" \/ HeldBack(c) -> c
        [] OTHER ->
             CASE skipped.msg[m].it = "end" -> SetFinishedSending(skipped, t)
               [] skipped.msg[m].it # "end" /\ (o.failed \/ ~HasRoom(c, t))
                    -> SetFinishedSending(SetErrorCode(trying, 500), t)
               [] OTHER -> IF sent.msg[m].it = "end"
                           THEN SetFinishedSending(sent, t) ELSE sent

-----------------------------------------------------------------------------
(* checkHeaderBeforeComplete: a request whose header is still incomplete   *)
(* is refused as soon as one of its lines is wrong.                        *)
CheckHeaderBeforeComplete(c, t, m, o) ==
  IF c.clientState = DO_REQUEST /\ c.msg[m].head = "bad"
  THEN SetFinishedReceiving(
         SetErrorCode(SetClientState(c, DO_RESPONSE), 400), t, m, o)
  ELSE c

(* _ioClient.  Mutants of the first condition: readiness is not asked for; *)
(* a client that is being answered reads on.                               *)
ReceivesUnasked(c) ==
  /\ c.clientState \in {DO_REQUEST, DO_CGIREC}
  /\ ~(c.msg[MsgOf(c)].head = "complete" /\ ~c.isRequestChecked)

ReceivesOn(c) ==
  /\ c.clientState \in {DO_REQUEST, DO_CGIREC, DO_RESPONSE}
  /\ c.fd[FdDataByType(c, FdTypeOf(c))] \in {"R_RECEIVE", "R_SENDREC"}

Receives(c) ==
  /\ c.clientState \in {DO_REQUEST, DO_CGIREC}
  /\ c.fd[FdDataByType(c, FdTypeOf(c))] \in {"R_RECEIVE", "R_SENDREC"}
  /\ ~(c.msg[MsgOf(c)].head = "complete" /\ ~c.isRequestChecked)

Sends(c) ==
  /\ c.clientState \in {DO_RESPONSE, DO_CGISEND}
  /\ c.fd[FdDataByType(c, FdTypeOf(c))] \in {"R_SEND", "R_SENDREC"}

IoOutcomes(c) ==
  CASE Receives(c) -> RecvOutcomes(c, FdDataByType(c, FdTypeOf(c)), MsgOf(c))
    [] Sends(c) -> SendOutcomes
    [] OTHER -> {[alloc |-> FALSE, result |-> 0]}

(* A header is created of what was received, or of what there is at the    *)
(* end of file, and its constructor throws.  Only bad_alloc is caught.     *)
IoThrows(c, o) ==
  LET m == MsgOf(c)
      v == RecvValue(c, FdDataByType(c, FdTypeOf(c)))
  IN  /\ Receives(c)
      /\ ~o.alloc
      /\ \/ /\ v > 0 /\ c.msg[m].state = "INCOMPLETE"
            /\ o.parse.head = "complete"
            /\ HeaderThrows([c EXCEPT !.msg[m].head = "complete"], m)
         \/ v = 0 /\ ~AwaitsChild(c) /\ HeaderThrows(c, m)

IoClient(c, o) ==
  LET t == FdDataByType(c, FdTypeOf(c))
      m == MsgOf(c)
  IN  CASE c.clientState = DELETEME -> c
        [] c.clientState \in {CRITICAL_ERROR, RESETME} ->
             SetClientState(c, DELETEME)
        [] Receives(c) ->
             CheckHeaderBeforeComplete(ReceiveMsg(c, t, m, o), t, m, o)
        [] Sends(c) -> SendMsg(c, t, m, o)
        [] OTHER -> CheckHeaderBeforeComplete(c, t, m, o)
=============================================================================
