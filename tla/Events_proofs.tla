----------------------------- MODULE Events_proofs ---------------------------
(***************************************************************************)
(* What is proved of the events of epoll_wait, for every value of the      *)
(* constants of Webserv: that an event is applied to the descriptor it was *)
(* reported for, and that recv finds what the event announced.             *)
(***************************************************************************)
EXTENDS Requests_proofs, FiniteSetTheorems

-----------------------------------------------------------------------------
(* Frames.  Of a client record only these fields matter here, so nothing   *)
(* is asked of the values a handler gives the others.                      *)

Watched == {"clientState", "fd", "epoll", "out", "in", "proc", "fromChild",
            "hist"}

Shaped(c) ==
  /\ Watched \subseteq DOMAIN c
  /\ DOMAIN c.fd = FdTypes
  /\ "idleRecv" \in DOMAIN c.hist
  /\ c.clientState \in ClientStates

(* The descriptors that recv is called on.                                 *)
Inputs == {"CLIENT_FD", "FROMCHILD_FD"}

(* Neither the descriptors nor what the kernel holds for them changed.     *)
Calm(c, d) ==
  /\ Shaped(d)
  /\ d.fd = c.fd /\ d.epoll = c.epoll /\ d.out = c.out /\ d.in = c.in
  /\ d.proc = c.proc /\ d.fromChild = c.fromChild
  /\ d.hist.idleRecv = c.hist.idleRecv
  /\ d.clientState >= c.clientState

(* The kernel may hold more for them than before.                          *)
Stirred(c, d) ==
  /\ Shaped(d)
  /\ d.fd = c.fd /\ d.epoll = c.epoll
  /\ c.out => d.out
  /\ \A t \in Inputs : WouldBlockRecv(d, t) => WouldBlockRecv(c, t)
  /\ d.hist.idleRecv = c.hist.idleRecv
  /\ d.clientState >= c.clientState

(* Descriptors may be made, or marked to be closed.  The peer's may only   *)
(* be full once the client is being answered.                              *)
Loose(c, d) ==
  /\ Shaped(d)
  /\ d.epoll = c.epoll
  /\ \A t \in FdTypes : d.fd[t] = c.fd[t] \/ d.fd[t] \in {"CLOSE", "NEW"}
  /\ c.out => d.out \/ d.clientState >= DO_RESPONSE
  /\ d.clientState >= c.clientState

Steady(c, d) == Loose(c, d) /\ d.hist.idleRecv = c.hist.idleRecv

LEMMA ClientsShaped == ASSUME NEW c \in ClientRec PROVE Shaped(c)
BY DEF ClientRec, Shaped, Watched, History

LEMMA CalmReflexive == ASSUME NEW c, Shaped(c) PROVE Calm(c, c) /\ Steady(c, c)
BY StatesOrdered DEF Calm, Steady, Loose, Shaped

LEMMA CalmShaped == ASSUME NEW c, NEW d, Calm(c, d) PROVE Shaped(d)
BY DEF Calm

LEMMA CalmTransitive ==
  ASSUME NEW c, Shaped(c), NEW d, NEW e
  PROVE  /\ Calm(c, d) /\ Calm(d, e) => Calm(c, e)
         /\ Steady(c, d) /\ Steady(d, e) => Steady(c, e)
<1>1. Calm(c, d) /\ Calm(d, e) => Calm(c, e)
  BY StatesOrdered DEF Calm, Shaped
<1>2. Steady(c, d) /\ Steady(d, e) => Steady(c, e)
  <2> SUFFICES ASSUME Steady(c, d), Steady(d, e) PROVE Steady(c, e)
    OBVIOUS
  <2>1. /\ c.clientState \in 0..6 /\ d.clientState \in 0..6
        /\ e.clientState \in 0..6
    BY StatesOrdered DEF Steady, Loose, Shaped
  <2> QED BY <2>1, StatesOrdered DEF Steady, Loose
<1> QED BY <1>1, <1>2

LEMMA LooseTransitive ==
  ASSUME NEW c, Shaped(c), NEW d, Loose(c, d), NEW e, Steady(d, e)
  PROVE  Loose(c, e)
<1>1. /\ c.clientState \in 0..6 /\ d.clientState \in 0..6
      /\ e.clientState \in 0..6
  BY StatesOrdered DEF Steady, Loose, Shaped
<1> QED BY <1>1, StatesOrdered DEF Steady, Loose

LEMMA CalmIsQuiet ==
  ASSUME NEW c, NEW d, Calm(c, d)
  PROVE  Steady(c, d) /\ Stirred(c, d)
BY DEF Calm, Steady, Loose, Stirred, WouldBlockRecv, Inputs

LEMMA FieldCalm ==
  ASSUME NEW c, Shaped(c), NEW x, x \notin Watched, NEW v
  PROVE  Calm(c, [c EXCEPT ![x] = v])
BY StatesOrdered DEF Calm, Shaped, Watched

LEMMA HistoryCalm ==
  ASSUME NEW c, Shaped(c), NEW v
  PROVE  /\ Calm(c, [c EXCEPT !.hist.rawSent = v])
         /\ Calm(c, [c EXCEPT !.hist.fullSend = v])
         /\ Calm(c, [c EXCEPT !.hist.earlySideEffect = v])
         /\ Calm(c, [c EXCEPT !.hist.generated = v])
         /\ Calm(c, [c EXCEPT !.hist.stray = v])
         /\ Calm(c, [c EXCEPT !.hist.cut = v])
<1> USE StatesOrdered DEF Calm, Shaped, Watched
<1>1. Calm(c, [c EXCEPT !.hist.rawSent = v])
  OBVIOUS
<1>2. Calm(c, [c EXCEPT !.hist.fullSend = v])
  OBVIOUS
<1>3. Calm(c, [c EXCEPT !.hist.earlySideEffect = v])
  OBVIOUS
<1>4. Calm(c, [c EXCEPT !.hist.generated = v])
  OBVIOUS
<1>5. Calm(c, [c EXCEPT !.hist.stray = v])
  OBVIOUS
<1>6. Calm(c, [c EXCEPT !.hist.cut = v])
  OBVIOUS
<1> QED BY <1>1, <1>2, <1>3, <1>4, <1>5, <1>6, Zenon

LEMMA SetClientStateCalm ==
  ASSUME NEW c, Shaped(c), NEW s \in ClientStates
  PROVE  /\ Calm(c, SetClientState(c, s))
         /\ SetClientState(c, s).clientState >= s
BY StatesOrdered DEF Calm, Shaped, Watched, SetClientState

LEMMA SetErrorCodeCalm ==
  ASSUME NEW c, Shaped(c), NEW v
  PROVE  Calm(c, SetErrorCode(c, v))
BY FieldCalm DEF SetErrorCode, Watched

LEMMA MessageCalm ==
  ASSUME NEW c, Shaped(c), NEW m, NEW v
  PROVE  Calm(c, [c EXCEPT !.msg[m] = v])
BY StatesOrdered DEF Calm, Shaped, Watched

LEMMA SetFdSteady ==
  ASSUME NEW c, Shaped(c), NEW t \in FdTypes
  PROVE  Steady(c, SetFd(c, t, "CLOSE"))
BY StatesOrdered DEF Steady, Loose, Shaped, Watched, SetFd

-----------------------------------------------------------------------------
(* Io.                                                                     *)

LEMMA CreateHeaderCalm ==
  ASSUME NEW c, Shaped(c), NEW m, NEW r
  PROVE  Calm(c, CreateHeader(c, m, r))
<1> DEFINE e == HeaderError(c, m, r)
<1>1. Calm(c, [c EXCEPT !.msg[m].header = TRUE, !.errorCode = e])
  <2> HIDE DEF e
  <2> QED BY StatesOrdered DEF Calm, Shaped, Watched
<1> QED BY <1>1, CalmReflexive, Zenon DEF CreateHeader

LEMMA SetFinishedReceivingSteady ==
  ASSUME NEW c, Shaped(c), NEW t, NEW m, NEW o
  PROVE  Steady(c, SetFinishedReceiving(c, t, m, o))
<1> DEFINE s == SetClientState(c, DO_RESPONSE)
           d == IF t = "FROMCHILD_FD" THEN SetFd(s, t, "CLOSE") ELSE c
           gone == SetClientState(d, DELETEME)
           made == CreateHeader(d, m, o.result)
           e == IF o.alloc /\ ~d.msg[m].header THEN gone ELSE made
           g == [e EXCEPT !.msg[m].head = "complete",
                          !.msg[m].state = "COMPLETE", !.msg[m].it = "head"]
           b == e.hist.cut \/ (m = "REQ_MSG" /\ c.msg[m].state # "COMPLETE")
           f == [g EXCEPT !.hist.cut = b]
           written == [e EXCEPT !.msg[m].head = "complete",
                         !.msg[m].state = "COMPLETE", !.msg[m].it = "head",
                         !.hist.cut = @ \/ (/\ m = "REQ_MSG"
                                            /\ c.msg[m].state # "COMPLETE")]
<1>1. Steady(c, d) /\ Shaped(d)
  <2>1. Calm(c, s) /\ Shaped(s)
    BY SetClientStateCalm, StatesOrdered DEF Calm
  <2> HIDE DEF s
  <2>2. Steady(s, SetFd(s, "FROMCHILD_FD", "CLOSE"))
    BY <2>1, SetFdSteady DEF FdTypes
  <2>3. Steady(c, SetFd(s, "FROMCHILD_FD", "CLOSE"))
    BY <2>1, <2>2, CalmIsQuiet, CalmTransitive
  <2> QED BY <2>3, CalmReflexive DEF Steady, Loose
<1> HIDE DEF d
<1>2. Calm(d, gone) /\ Calm(d, made)
  BY <1>1, SetClientStateCalm, CreateHeaderCalm, StatesOrdered
<1>3. Calm(d, e) /\ Shaped(e)
  <2> HIDE DEF gone, made
  <2> QED BY <1>2 DEF Calm
<1> HIDE DEF e
<1>4. Calm(e, f)
  <2>1. Calm(e, g) /\ Shaped(g)
    BY <1>3, StatesOrdered DEF Calm, Shaped, Watched
  <2> HIDE DEF g, b
  <2>2. Calm(g, f)
    BY <2>1, HistoryCalm, Zenon
  <2> QED BY <1>3, <2>1, <2>2, CalmTransitive
<1>5. f = written
  BY <1>3 DEF Shaped, Watched
<1> HIDE DEF f, written
<1>6. Calm(d, f)
  BY <1>1, <1>3, <1>4, CalmTransitive
<1>7. Steady(c, gone) /\ Steady(c, f)
  BY <1>1, <1>2, <1>6, CalmIsQuiet, CalmTransitive
<1> HIDE DEF gone
<1>8. SetFinishedReceiving(c, t, m, o) =
        IF t = "CLIENT_FD" /\ c.msg[m].head = "empty" THEN gone ELSE written
  BY Zenon DEF SetFinishedReceiving, d, e, written, gone, made
<1> QED BY <1>5, <1>7, <1>8

LEMMA BufferToNodesCalm ==
  ASSUME NEW c, Shaped(c), NEW m, NEW o
  PROVE  Calm(c, BufferToNodes(c, m, o))
<1> DEFINE p == o.parse
           pos == IF p.body THEN "body" ELSE "head"
           d == [c EXCEPT !.msg[m].head = p.head, !.msg[m].state = p.state,
                          !.msg[m].body = p.body, !.msg[m].it = pos]
<1>1. Calm(c, d) /\ Shaped(d)
  <2>1. Calm(c, d)
    <3> HIDE DEF p, pos
    <3> QED BY StatesOrdered DEF Calm, Shaped, Watched
  <2> QED BY <2>1 DEF Calm
<1> HIDE DEF d
<1>2. Calm(c, CreateHeader(d, m, o.result))
  BY <1>1, CreateHeaderCalm, CalmTransitive
<1>3. BufferToNodes(c, m, o) \in {c, d, CreateHeader(d, m, o.result)}
  BY Zenon DEF BufferToNodes, d
<1> QED BY <1>1, <1>2, <1>3, CalmReflexive

(* recv itself: it only notes a call that has nothing to read.             *)
LEMMA ReceiveMsgSteady ==
  ASSUME NEW c, Shaped(c), NEW t, NEW m, NEW o,
         c.hist.idleRecv \in BOOLEAN
  PROVE  LET d == ReceiveMsg(c, t, m, o) IN
           /\ Loose(c, d)
           /\ ~WouldBlockRecv(c, t) => d.hist.idleRecv = c.hist.idleRecv
<1> DEFINE v == RecvValue(c, t)
           k0 == TakeBytes(c, t, o.more)
           k == [k0 EXCEPT !.hist.idleRecv = @ \/ WouldBlockRecv(c, t)]
           s == IF c.clientState = DO_CGIREC THEN CRITICAL_ERROR ELSE DELETEME
           lost == SetClientState(k, s)
           more == BufferToNodes(k, m, o)
           d == CASE v <= 0 -> k
                  [] v > 0 /\ o.alloc -> lost
                  [] OTHER -> more
           failed == SetErrorCode(d, 500)
           e == IF v < 0 THEN failed ELSE d
           end == SetFinishedReceiving(e, t, m, o)
<1>1. Steady(c, k0) /\ Shaped(k0)
  BY StatesOrdered DEF TakeBytes, Steady, Loose, Shaped, Watched
<1> HIDE DEF k0
<1>2. /\ Loose(c, k) /\ Shaped(k)
      /\ ~WouldBlockRecv(c, t) => k.hist.idleRecv = c.hist.idleRecv
  BY <1>1, StatesOrdered DEF Steady, Loose, Shaped, Watched
<1> HIDE DEF k
<1>5. Calm(k, lost) /\ Calm(k, more)
  BY <1>2, SetClientStateCalm, BufferToNodesCalm, StatesOrdered
<1> HIDE DEF lost, more
<1>6. Calm(k, d) /\ Shaped(d)
  <2>1. d \in {k, lost, more}
    <3> HIDE DEF v
    <3> QED OBVIOUS
  <2> HIDE DEF d
  <2> QED BY <1>2, <1>5, <2>1, CalmReflexive DEF Calm
<1> HIDE DEF d
<1>7. Calm(d, e) /\ Shaped(e)
  <2>1. Calm(d, failed)
    BY <1>6, SetErrorCodeCalm
  <2> HIDE DEF failed
  <2> QED BY <1>6, <2>1, CalmReflexive DEF Calm
<1> HIDE DEF e
<1>8. Steady(e, end)
  BY <1>7, SetFinishedReceivingSteady
<1> HIDE DEF end
<1>9. Steady(k, d) /\ Steady(k, end)
  BY <1>2, <1>6, <1>7, <1>8, CalmIsQuiet, CalmTransitive
<1>10. ReceiveMsg(c, t, m, o) \in {d, end}
  BY Zenon DEF ReceiveMsg, d, e, k, k0, lost, more, end
<1> QED BY <1>2, <1>9, <1>10, LooseTransitive DEF Steady

LEMMA CheckHeaderBeforeCompleteSteady ==
  ASSUME NEW c, Shaped(c), NEW t, NEW m, NEW o
  PROVE  Steady(c, CheckHeaderBeforeComplete(c, t, m, o))
<1> DEFINE a == SetClientState(c, DO_RESPONSE)
           d == SetErrorCode(a, 400)
<1>1. Calm(c, a) /\ Shaped(a)
  BY SetClientStateCalm, StatesOrdered DEF Calm
<1> HIDE DEF a
<1>2. Calm(c, d) /\ Shaped(d)
  BY <1>1, SetErrorCodeCalm, CalmTransitive DEF Calm
<1> HIDE DEF d
<1>3. Steady(c, SetFinishedReceiving(d, t, m, o))
  BY <1>2, SetFinishedReceivingSteady, CalmIsQuiet, CalmTransitive
<1> QED BY <1>3, CalmReflexive, Zenon DEF CheckHeaderBeforeComplete, d, a

LEMMA SetFinishedSendingSteady ==
  ASSUME NEW c, Shaped(c), NEW t \in FdTypes
  PROVE  Steady(c, SetFinishedSending(c, t))
<1> DEFINE gone == SetClientState(c, DELETEME)
           next == SetClientState(c, DO_CGIREC)
           d == CASE t = "CLIENT_FD" -> gone
                  [] t = "TOCHILD_FD" /\ c.errorCode = 0 -> next
                  [] OTHER -> c
<1>1. Calm(c, gone) /\ Calm(c, next) /\ Calm(c, c)
  BY SetClientStateCalm, CalmReflexive, StatesOrdered
<1> HIDE DEF gone, next
<1>2. Calm(c, d) /\ Shaped(d)
  BY <1>1 DEF Calm
<1>3. SetFinishedSending(c, t) = SetFd(d, t, "CLOSE")
  BY Zenon DEF SetFinishedSending, gone, next
<1> HIDE DEF d
<1>4. Steady(d, SetFd(d, t, "CLOSE"))
  BY <1>2, SetFdSteady
<1> QED BY <1>2, <1>3, <1>4, CalmIsQuiet, CalmTransitive

LEMMA AdvanceIteratorCalm ==
  ASSUME NEW c, Shaped(c), NEW m
  PROVE  Calm(c, AdvanceIterator(c, m))
<1> DEFINE pos == IF c.msg[m].it = "head" /\ c.msg[m].body
                  THEN "body" ELSE "end"
<1>1. AdvanceIterator(c, m) = [c EXCEPT !.msg[m].it = pos]
  BY Zenon DEF AdvanceIterator
<1> HIDE DEF pos
<1> QED BY <1>1, StatesOrdered DEF Calm, Shaped, Watched

(* The peer's buffer is only filled by the answer.                         *)
LEMMA SendMsgSteady ==
  ASSUME NEW c, Shaped(c), NEW t \in FdTypes, NEW m, NEW o,
         t = "CLIENT_FD" => c.clientState >= DO_RESPONSE
  PROVE  Steady(c, SendMsg(c, t, m, o))
<1> DEFINE skipped == IF t = "TOCHILD_FD" /\ c.msg[m].it = "head"
                      THEN AdvanceIterator(c, m) ELSE c
           full == skipped.hist.fullSend \/ WouldBlockSend(c, t)
           raw  == skipped.hist.rawSent
                   \/ (/\ t = "CLIENT_FD" /\ HasRoom(c, t)
                       /\ ~o.failed
                       /\ c.msg[m].kind = "raw")
           trying == [skipped EXCEPT
                        !.hist.fullSend = @ \/ WouldBlockSend(c, t),
                        !.hist.rawSent =
                          @ \/ (/\ t = "CLIENT_FD" /\ HasRoom(c, t)
                                /\ ~o.failed
                                /\ c.msg[m].kind = "raw")]
           noted == [skipped EXCEPT !.hist.fullSend = full]
           tried == [noted EXCEPT !.hist.rawSent = raw]
           went == IF o.whole THEN AdvanceIterator(trying, m) ELSE trying
           sent == PutBytes(went, t, o.full)
           failed == SetErrorCode(trying, 500)
           r == SendMsg(c, t, m, o)
<1>1. Calm(c, skipped) /\ Shaped(skipped)
  <2>1. Calm(c, AdvanceIterator(c, m)) /\ Calm(c, c)
    BY AdvanceIteratorCalm, CalmReflexive
  <2> QED BY <2>1 DEF Calm
<1>2. trying = tried
  <2> HIDE DEF skipped
  <2> QED BY <1>1 DEF Shaped, Watched
<1>3. Calm(skipped, trying) /\ Shaped(trying)
  <2> HIDE DEF skipped, full, raw
  <2>1. Calm(skipped, noted) /\ Shaped(noted)
    BY <1>1, HistoryCalm, CalmShaped, Zenon
  <2> HIDE DEF noted
  <2>2. Calm(noted, tried) /\ Shaped(tried)
    BY <2>1, HistoryCalm, CalmShaped, Zenon
  <2> HIDE DEF trying, tried
  <2> QED BY <1>1, <1>2, <2>1, <2>2, CalmTransitive
<1>4. Calm(c, trying)
  <2> HIDE DEF skipped, trying
  <2> QED BY <1>1, <1>3, CalmTransitive
<1>5. Calm(c, went) /\ Shaped(went)
  <2> HIDE DEF trying
  <2>1. Calm(c, AdvanceIterator(trying, m))
    BY <1>3, <1>4, AdvanceIteratorCalm, CalmTransitive
  <2> QED BY <1>4, <2>1 DEF Calm
<1>6. Steady(went, sent) /\ Shaped(sent)
  <2> HIDE DEF went
  <2>1. t = "CLIENT_FD" => went.clientState >= DO_RESPONSE
    BY <1>5, StatesOrdered DEF Calm, Shaped
  <2> QED BY <1>5, <2>1, StatesOrdered
             DEF PutBytes, Steady, Loose, Shaped, Watched
<1>7. Calm(c, failed) /\ Shaped(failed)
  <2> HIDE DEF trying
  <2> QED BY <1>3, <1>4, SetErrorCodeCalm, CalmTransitive DEF Calm
<1>8. r \in {c, SetFinishedSending(skipped, t), SetFinishedSending(failed, t),
             SetFinishedSending(sent, t), sent}
  <2> HIDE DEF sent, skipped, trying
  <2>1. r = (CASE c.msg[m].state # "COMPLETE" \/ HeldBack(c) -> c
               [] OTHER ->
                    CASE skipped.msg[m].it = "end" ->
                           SetFinishedSending(skipped, t)
                      [] /\ skipped.msg[m].it # "end"
                         /\ o.failed \/ ~HasRoom(c, t) ->
                           SetFinishedSending(failed, t)
                      [] OTHER -> IF sent.msg[m].it = "end"
                                  THEN SetFinishedSending(sent, t) ELSE sent)
    BY Zenon DEF SendMsg, sent, skipped, trying
  <2> HIDE DEF r, failed
  <2>2. QED BY <2>1
<1> HIDE DEF sent, skipped, failed, went, r
<1>9. /\ Steady(skipped, SetFinishedSending(skipped, t))
      /\ Steady(failed, SetFinishedSending(failed, t))
      /\ Steady(sent, SetFinishedSending(sent, t))
  BY <1>1, <1>6, <1>7, SetFinishedSendingSteady
<1>10. Steady(c, sent) /\ Steady(c, skipped) /\ Steady(c, failed)
  BY <1>1, <1>5, <1>6, <1>7, CalmIsQuiet, CalmTransitive
<1>11. \A x \in {skipped, failed, sent} : Steady(c, SetFinishedSending(x, t))
  BY <1>9, <1>10, CalmTransitive
<1>12. Steady(c, r)
  BY <1>8, <1>10, <1>11, CalmReflexive
<1> QED BY <1>12 DEF r

(* There is nothing to read on a descriptor that was found readable.       *)
Stale(c, t) ==
  /\ c.clientState < DO_RESPONSE
  /\ c.fd[t] \in {"R_RECEIVE", "R_SENDREC"}
  /\ WouldBlockRecv(c, t)

LEMMA IoClientSteady ==
  ASSUME NEW c \in ClientRec, NEW o,
         c.clientState \in {DO_CGISEND, DO_CGIREC} => HasChildFds(c)
  PROVE  /\ Loose(c, IoClient(c, o))
         /\ (\A t \in Inputs : ~Stale(c, t)) => Steady(c, IoClient(c, o))
<1> DEFINE t == FdDataByType(c, FdTypeOf(c))
           m == MsgOf(c)
           r == IoClient(c, o)
<1>1. /\ Shaped(c) /\ c.hist.idleRecv \in BOOLEAN /\ t \in FdTypes
      /\ c.clientState \in 0..6
  BY ClientsShaped, IoTypes, StatesOrdered
     DEF ClientRec, History, MaySet
<1>2. /\ Receives(c) => c.clientState \in {DO_REQUEST, DO_CGIREC}
      /\ Sends(c) => c.clientState \in {DO_RESPONSE, DO_CGISEND}
  BY DEF Receives, Sends
<1>3. CASE c.clientState \in {DELETEME, CRITICAL_ERROR, RESETME}
  <2>1. r = c \/ r = SetClientState(c, DELETEME)
    BY <1>2, <1>3, StatesOrdered DEF IoClient
  <2>2. Steady(c, r)
    BY <1>1, <2>1, SetClientStateCalm, CalmReflexive, CalmIsQuiet,
       StatesOrdered
  <2> QED BY <2>2 DEF Steady
<1>4. CASE /\ c.clientState \notin {DELETEME, CRITICAL_ERROR, RESETME}
           /\ Receives(c)
  <2> DEFINE d == ReceiveMsg(c, t, m, o)
  <2>1. r = CheckHeaderBeforeComplete(d, t, m, o)
    BY <1>2, <1>4, StatesOrdered DEF IoClient
  <2>2. (\A i \in Inputs : ~Stale(c, i)) => ~WouldBlockRecv(c, t)
    <3>1. t \in Inputs
      BY <1>2, <1>4, StatesOrdered DEF FdDataByType, FdTypeOf, Inputs
    <3>2. c.clientState < DO_RESPONSE
          /\ c.fd[t] \in {"R_RECEIVE", "R_SENDREC"}
      BY <1>2, <1>4, StatesOrdered DEF Receives
    <3> QED BY <3>1, <3>2 DEF Stale
  <2> HIDE DEF t, m, r
  <2>3. /\ Loose(c, d) /\ Shaped(d)
        /\ ~WouldBlockRecv(c, t) => d.hist.idleRecv = c.hist.idleRecv
    BY <1>1, ReceiveMsgSteady DEF Loose
  <2> HIDE DEF d
  <2>4. Steady(d, r)
    BY <2>1, <2>3, CheckHeaderBeforeCompleteSteady
  <2>5. Loose(c, r)
    BY <1>1, <2>3, <2>4, LooseTransitive
  <2> QED BY <2>2, <2>3, <2>4, <2>5 DEF r, Steady
<1>5. CASE /\ c.clientState \notin {DELETEME, CRITICAL_ERROR, RESETME}
           /\ ~Receives(c) /\ Sends(c)
  <2>1. r = SendMsg(c, t, m, o)
    BY <1>2, <1>5, StatesOrdered DEF IoClient
  <2>2. t = "CLIENT_FD" => c.clientState >= DO_RESPONSE
    BY <1>2, <1>5, StatesOrdered DEF FdDataByType, FdTypeOf, HasChildFds
  <2> HIDE DEF t, m
  <2>3. Steady(c, r)
    BY <1>1, <2>1, <2>2, SendMsgSteady
  <2> QED BY <2>3 DEF Steady
<1>6. CASE /\ c.clientState \notin {DELETEME, CRITICAL_ERROR, RESETME}
           /\ ~Receives(c) /\ ~Sends(c)
  <2>1. r = CheckHeaderBeforeComplete(c, t, m, o)
    BY <1>2, <1>6, StatesOrdered DEF IoClient
  <2> HIDE DEF t, m
  <2>2. Steady(c, r)
    BY <1>1, <2>1, CheckHeaderBeforeCompleteSteady
  <2> QED BY <2>2 DEF Steady
<1> QED BY <1>3, <1>4, <1>5, <1>6

-----------------------------------------------------------------------------
(* ServerManager: no descriptor is touched.                                *)

LEMMA AssignVirtualServerCalm ==
  ASSUME NEW c, Shaped(c), NEW q
  PROVE  Calm(c, AssignVirtualServer(c, q))
<1> DEFINE d == [c EXCEPT !.virtualServer = TRUE]
<1>1. Calm(c, d) /\ Shaped(d)
  BY StatesOrdered DEF Calm, Shaped, Watched
<1> HIDE DEF d
<1>2. \A v : Calm(c, SetErrorCode(d, v))
  BY <1>1, SetErrorCodeCalm, CalmTransitive
<1>3. AssignVirtualServer(c, q) \in
        {c, d, SetErrorCode(d, 400), SetErrorCode(d, 500)}
  BY DEF AssignVirtualServer, d
<1> QED BY <1>1, <1>2, <1>3, CalmReflexive

LEMMA CheckIfRequestAllowedCalm ==
  ASSUME NEW c, Shaped(c), NEW q
  PROVE  Calm(c, CheckIfRequestAllowed(c, q))
<1> DEFINE d == CASE c.errorCode # 0 \/ q.allowed = "yes" -> c
                  [] c.errorCode = 0 /\ q.allowed = "refused" ->
                       SetErrorCode(c, 403)
                  [] OTHER -> SetErrorCode(c, 400)
           e == IF d.errorCode = 0 THEN d ELSE SetClientState(d, DO_RESPONSE)
           f == [e EXCEPT !.isRequestChecked = TRUE]
<1>1. Calm(c, d)
  BY SetErrorCodeCalm, CalmReflexive
<1> HIDE DEF d
<1>2. Calm(c, e) /\ Shaped(e)
  <2>1. Calm(d, SetClientState(d, DO_RESPONSE)) /\ Shaped(d)
    BY <1>1, SetClientStateCalm, CalmShaped, StatesOrdered
  <2>2. Calm(c, SetClientState(d, DO_RESPONSE))
    BY <1>1, <2>1, CalmTransitive
  <2>3. Calm(c, e)
    BY <1>1, <2>2
  <2> QED BY <2>3, CalmShaped
<1> HIDE DEF e
<1>3. Calm(e, f)
  BY <1>2, StatesOrdered DEF Calm, Shaped, Watched
<1> HIDE DEF f
<1>4. CheckIfRequestAllowed(c, q) = IF c.isRequestChecked THEN c ELSE f
  BY Zenon DEF CheckIfRequestAllowed, d, e, f
<1> QED BY <1>2, <1>3, <1>4, CalmReflexive, CalmTransitive

LEMMA CheckBodySizeLimitCalm ==
  ASSUME NEW c, Shaped(c), NEW q
  PROVE  Calm(c, CheckBodySizeLimit(c, q))
<1> DEFINE d == SetErrorCode(c, 403)
<1>1. Calm(c, d) /\ Shaped(d)
  BY SetErrorCodeCalm, CalmShaped
<1> HIDE DEF d
<1>2. /\ Calm(c, SetClientState(c, DO_RESPONSE))
      /\ Calm(c, SetClientState(d, DO_RESPONSE))
  BY <1>1, SetClientStateCalm, CalmTransitive, StatesOrdered
<1>3. CheckBodySizeLimit(c, q) \in
        {c, SetClientState(c, DO_RESPONSE), SetClientState(d, DO_RESPONSE)}
  BY DEF CheckBodySizeLimit, d
<1> QED BY <1>2, <1>3, CalmReflexive

LEMMA StartCgiOrRespondCalm ==
  ASSUME NEW c, Shaped(c), NEW q
  PROVE  Calm(c, StartCgiOrRespond(c, q))
<1> DEFINE d == CASE q.cgi \in {"unsupported", "badPathInfo"} ->
                       SetErrorCode(c, 502)
                  [] q.cgi = "badExtension" -> SetErrorCode(c, 403)
                  [] OTHER -> c
           e == [d EXCEPT !.cgiFlag = TRUE]
<1>1. Calm(c, d) /\ Shaped(d)
  <2>1. Calm(c, d)
    BY SetErrorCodeCalm, CalmReflexive
  <2> QED BY <2>1, CalmShaped
<1> HIDE DEF d
<1>2. Calm(d, e)
  BY <1>1, StatesOrdered DEF Calm, Shaped, Watched
<1> HIDE DEF e
<1>3. Calm(c, e) /\ Shaped(e)
  BY <1>1, <1>2, CalmShaped, CalmTransitive
<1>4. /\ Calm(c, SetClientState(e, DO_CGISEND))
      /\ Calm(c, SetClientState(d, DO_RESPONSE))
  BY <1>1, <1>3, SetClientStateCalm, CalmTransitive, StatesOrdered
<1> DEFINE asked == /\ c.clientState = DO_REQUEST
                    /\ c.msg["REQ_MSG"].state = "COMPLETE"
<1>5. StartCgiOrRespond(c, q) =
        CASE ~asked -> c
          [] asked /\ q.cgi \in {"yes", "badPathInfo"} ->
               SetClientState(e, DO_CGISEND)
          [] OTHER -> SetClientState(d, DO_RESPONSE)
  BY DEF StartCgiOrRespond, d, e
<1> HIDE DEF asked
<1> QED BY <1>4, <1>5, CalmReflexive

LEMMA GenerateClientResponseCalm ==
  ASSUME NEW c, Shaped(c), NEW q
  PROVE  Calm(c, GenerateClientResponse(c, q))
<1> DEFINE number == IF c.hist.generated = 2 THEN 2 ELSE c.hist.generated + 1
           early == \/ c.hist.earlySideEffect
                    \/ /\ AnswersItself(c) /\ c.errorCode = 0
                       /\ c.msg["REQ_MSG"].state # "COMPLETE" \/ c.hist.cut
           c1 == [c EXCEPT !.cgiFlag = FALSE]
           c2 == [c1 EXCEPT !.msg["RESP_MSG"].it = "head"]
           c3 == [c2 EXCEPT !.hist.generated = number]
           once == [c3 EXCEPT !.hist.earlySideEffect = early]
           done == [once EXCEPT !.msg["RESP_MSG"].state = "COMPLETE"]
           own == [done EXCEPT !.msg["RESP_MSG"].kind = OwnKind(c),
                               !.msg["RESP_MSG"].header = TRUE,
                               !.msg["RESP_MSG"].body = q.page]
           cgi == [done EXCEPT !.msg["RESP_MSG"].kind = "cgi"]
           gone == SetClientState(once, DELETEME)
           noted == [c EXCEPT
             !.cgiFlag = FALSE, !.msg["RESP_MSG"].it = "head",
             !.hist.generated = IF @ = 2 THEN 2 ELSE @ + 1,
             !.hist.earlySideEffect =
                @ \/ (/\ AnswersItself(c) /\ c.errorCode = 0
                      /\ c.msg["REQ_MSG"].state # "COMPLETE" \/ c.hist.cut)]
<1>1. Calm(c, c2) /\ Shaped(c2)
  BY StatesOrdered DEF Calm, Shaped, Watched
<1> HIDE DEF c2
<1>2. Calm(c2, c3) /\ Shaped(c3)
  BY <1>1, HistoryCalm, CalmShaped, Zenon
<1> HIDE DEF c3
<1>3. Calm(c3, once) /\ Shaped(once)
  BY <1>2, HistoryCalm, CalmShaped, Zenon
<1> HIDE DEF once
<1>4. Calm(c, once)
  BY <1>1, <1>2, <1>3, CalmTransitive
<1>5. Calm(once, done) /\ Shaped(done)
  BY <1>3, StatesOrdered DEF Calm, Shaped, Watched
<1> HIDE DEF done
<1>6. Calm(done, own) /\ Calm(done, cgi)
  BY <1>5, StatesOrdered DEF Calm, Shaped, Watched
<1> HIDE DEF own, cgi
<1>7. Calm(once, gone)
  BY <1>3, SetClientStateCalm, StatesOrdered
<1> HIDE DEF gone
<1>8. Calm(c, own) /\ Calm(c, cgi) /\ Calm(c, gone) /\ Calm(c, c)
  BY <1>4, <1>5, <1>6, <1>7, CalmTransitive, CalmReflexive
<1>9. noted = once
  BY DEF c1, c2, c3, once, Shaped, Watched
<1>10. GenerateClientResponse(c, q) \in {c, gone, own, cgi}
  <2> HIDE DEF noted
  <2>1. GenerateClientResponse(c, q) =
          CASE NotYet(c) -> c
            [] ~NotYet(c) /\ q.alloc -> SetClientState(noted, DELETEME)
            [] ~NotYet(c) /\ ~q.alloc /\ AnswersItself(c) ->
                 [[noted EXCEPT !.msg["RESP_MSG"].state = "COMPLETE"] EXCEPT
                    !.msg["RESP_MSG"].kind = OwnKind(c),
                    !.msg["RESP_MSG"].header = TRUE,
                    !.msg["RESP_MSG"].body = q.page]
            [] OTHER ->
                 [[noted EXCEPT !.msg["RESP_MSG"].state = "COMPLETE"] EXCEPT
                    !.msg["RESP_MSG"].kind = "cgi"]
    BY Zenon DEF GenerateClientResponse, noted
  <2>2. GenerateClientResponse(c, q) =
          CASE NotYet(c) -> c
            [] ~NotYet(c) /\ q.alloc -> gone
            [] ~NotYet(c) /\ ~q.alloc /\ AnswersItself(c) -> own
            [] OTHER -> cgi
    BY <1>9, <2>1, Zenon DEF own, cgi, done, gone
  <2> QED BY <2>2
<1> QED BY <1>8, <1>10

LEMMA ServeClientCalm ==
  ASSUME NEW c, Shaped(c), NEW q
  PROVE  Calm(c, ServeClient(c, q))
<1> DEFINE failed == IF c.errorCode = 0 THEN c
                     ELSE SetClientState(c, DO_RESPONSE)
           assigned == AssignVirtualServer(failed, q)
           checked == CheckIfRequestAllowed(assigned, q)
           limited == CheckBodySizeLimit(checked, q)
           routed == StartCgiOrRespond(limited, q)
           made == GenerateClientResponse(routed, q)
<1>1. Calm(c, failed) /\ Shaped(failed)
  BY SetClientStateCalm, CalmReflexive, StatesOrdered DEF Calm
<1> HIDE DEF failed
<1>2. Calm(c, assigned) /\ Shaped(assigned)
  BY <1>1, AssignVirtualServerCalm, CalmTransitive, CalmShaped
<1> HIDE DEF assigned
<1>3. Calm(c, checked) /\ Shaped(checked)
  BY <1>2, CheckIfRequestAllowedCalm, CalmTransitive, CalmShaped
<1> HIDE DEF checked
<1>4. Calm(c, limited) /\ Shaped(limited)
  BY <1>3, CheckBodySizeLimitCalm, CalmTransitive, CalmShaped
<1> HIDE DEF limited
<1>5. Calm(c, routed) /\ Shaped(routed)
  BY <1>4, StartCgiOrRespondCalm, CalmTransitive, CalmShaped
<1> HIDE DEF routed
<1>6. Calm(c, made)
  BY <1>5, GenerateClientResponseCalm, CalmTransitive
<1> HIDE DEF made
<1>7. ServeClient(c, q) \in {c, failed, routed, made}
  BY DEF ServeClient, Failed, Assigned, Routed, failed, assigned, checked,
         limited, routed, made
<1> QED BY <1>1, <1>5, <1>6, <1>7, CalmReflexive

-----------------------------------------------------------------------------
(* Cgi: descriptors are made and marked, none is read.                     *)

LEMMA StopCgiSetErrorCodeSteady ==
  ASSUME NEW c, Shaped(c), NEW code
  PROVE  Steady(c, StopCgiSetErrorCode(c, code))
<1> DEFINE d == SetClientState(c, DO_RESPONSE)
           v == IF TimedOut(d) THEN 504 ELSE code
           e == IF d.errorCode = 0 THEN SetErrorCode(d, v) ELSE d
           f == [e EXCEPT !.msg["RESP_MSG"].state = "COMPLETE"]
           off == [e EXCEPT !.cgiFlag = FALSE]
           closed == SetFd(f, "FROMCHILD_FD", "CLOSE")
<1>1. Calm(c, d) /\ Shaped(d)
  BY SetClientStateCalm, CalmShaped, StatesOrdered
<1> HIDE DEF d
<1>2. Calm(c, e) /\ Shaped(e)
  <2> HIDE DEF v
  <2>1. Calm(c, SetErrorCode(d, v))
    BY <1>1, SetErrorCodeCalm, CalmTransitive
  <2>2. Calm(c, e)
    BY <1>1, <2>1
  <2> QED BY <2>2, CalmShaped
<1> HIDE DEF e
<1>3. Calm(e, f) /\ Calm(e, off)
  BY <1>2, StatesOrdered DEF Calm, Shaped, Watched
<1> HIDE DEF f, off
<1>4. Calm(c, f) /\ Calm(c, off) /\ Shaped(f)
  BY <1>2, <1>3, CalmTransitive, CalmShaped
<1>5. Steady(f, closed)
  BY <1>4, SetFdSteady DEF FdTypes
<1> HIDE DEF closed
<1>6. Steady(c, closed) /\ Steady(c, off)
  BY <1>4, <1>5, CalmIsQuiet, CalmTransitive
<1>7. StopCgiSetErrorCode(c, code) = IF HasChildFds(e) THEN closed ELSE off
  BY Zenon DEF StopCgiSetErrorCode, CloseOutput, closed, f, off, e, d
<1> QED BY <1>6, <1>7

LEMMA HandleReturnStatusSteady ==
  ASSUME NEW c, Shaped(c), NEW status
  PROVE  Steady(c, HandleReturnStatus(c, status))
<1> DEFINE d == SetClientState(c, DELETEME)
           off == [d EXCEPT !.cgiFlag = FALSE]
<1>1. Calm(c, d) /\ Shaped(d)
  BY SetClientStateCalm, CalmShaped, StatesOrdered
<1> HIDE DEF d
<1>2. Calm(d, off)
  BY <1>1, StatesOrdered DEF Calm, Shaped, Watched
<1> HIDE DEF off
<1>3. Calm(c, off)
  BY <1>1, <1>2, CalmTransitive
<1>4. HandleReturnStatus(c, status) \in
        {c, off, StopCgiSetErrorCode(c, 500), StopCgiSetErrorCode(c, 502)}
  BY DEF HandleReturnStatus, off, d
<1> QED BY <1>3, <1>4, CalmIsQuiet, CalmReflexive, StopCgiSetErrorCodeSteady

LEMMA ChildFieldsSteady ==
  ASSUME NEW c, Shaped(c), NEW v
  PROVE  /\ Steady(c, [c EXCEPT !.waitReturn = v])
         /\ Steady(c, [c EXCEPT !.childPid = v])
         /\ Steady(c, [c EXCEPT !.toChild = v])
         /\ Steady(c, [c EXCEPT !.proc = v])
         /\ Steady(c, [c EXCEPT !.fromChild = v])
         /\ Steady(c, [c EXCEPT !.hist.forks = v])
<1> USE StatesOrdered DEF Steady, Loose, Shaped, Watched
<1>1. Steady(c, [c EXCEPT !.waitReturn = v])
  OBVIOUS
<1>2. Steady(c, [c EXCEPT !.childPid = v])
  OBVIOUS
<1>3. Steady(c, [c EXCEPT !.toChild = v])
  OBVIOUS
<1>4. Steady(c, [c EXCEPT !.proc = v])
  OBVIOUS
<1>5. Steady(c, [c EXCEPT !.fromChild = v])
  OBVIOUS
<1>6. Steady(c, [c EXCEPT !.hist.forks = v])
  OBVIOUS
<1> QED BY <1>1, <1>2, <1>3, <1>4, <1>5, <1>6, Zenon

LEMMA SteadyShaped == ASSUME NEW c, NEW d, Steady(c, d) PROVE Shaped(d)
BY DEF Steady, Loose

LEMMA WaitForChildSteady ==
  ASSUME NEW c, Shaped(c), NEW fails
  PROVE  Steady(c, WaitForChild(c, fails))
<1> DEFINE p == IF c.proc = "exit0" THEN "reaped0" ELSE "reapedN"
           w == [c EXCEPT !.waitReturn = 1]
           reaped == [w EXCEPT !.proc = p]
           lost == [c EXCEPT !.waitReturn = -1]
           none == [c EXCEPT !.waitReturn = 0]
<1>1. Steady(c, w) /\ Steady(c, lost) /\ Steady(c, none)
  BY ChildFieldsSteady
<1>2. Steady(w, reaped)
  <2> HIDE DEF w, p
  <2> QED BY <1>1, SteadyShaped, ChildFieldsSteady
<1>3. [c EXCEPT !.waitReturn = 1,
                !.proc = IF @ = "exit0" THEN "reaped0" ELSE "reapedN"] = reaped
  BY Zenon
<1> HIDE DEF w, reaped, lost, none
<1>4. Steady(c, reaped) /\ Shaped(reaped) /\ Shaped(lost)
  BY <1>1, <1>2, CalmTransitive, SteadyShaped
<1>5. /\ Steady(c, HandleReturnStatus(reaped, c.proc))
      /\ Steady(c, StopCgiSetErrorCode(lost, 500))
  BY <1>1, <1>4, HandleReturnStatusSteady, StopCgiSetErrorCodeSteady,
     CalmTransitive
<1>6. WaitForChild(c, fails) \in
        {c, StopCgiSetErrorCode(lost, 500),
         HandleReturnStatus(reaped, c.proc), none}
  <2>1. WaitForChild(c, fails) =
          CASE c.waitReturn > 0 -> c
            [] c.waitReturn <= 0 /\ fails -> StopCgiSetErrorCode(lost, 500)
            [] c.waitReturn <= 0 /\ ~fails /\ c.proc \in Ended ->
                 HandleReturnStatus(reaped, c.proc)
            [] OTHER -> none
    BY <1>3, Zenon DEF WaitForChild, lost, none
  <2> QED BY <2>1
<1> QED BY <1>1, <1>5, <1>6, CalmReflexive

LEMMA StartChildSteady ==
  ASSUME NEW c, Shaped(c), NEW o
  PROVE  Steady(c, StartChild(c, o))
<1> DEFINE s == SetChildSocket(c)
           s1 == [s EXCEPT !.childPid = 1]
           s2 == [s1 EXCEPT !.proc = o.child]
           s3 == [s2 EXCEPT !.toChild = TRUE]
           s4 == [s3 EXCEPT !.fromChild = o.output]
           v == IF s4.hist.forks = 2 THEN 2 ELSE s4.hist.forks + 1
           made == [s4 EXCEPT !.hist.forks = v]
           lost == [c EXCEPT !.childPid = -1]
<1>1. Steady(c, s) /\ Shaped(s)
  BY StatesOrdered DEF SetChildSocket, Steady, Loose, Shaped, Watched, FdTypes
<1> HIDE DEF s
<1>2. Steady(s, s1) /\ Shaped(s1)
  BY <1>1, ChildFieldsSteady, SteadyShaped, Zenon
<1> HIDE DEF s1
<1>3. Steady(s1, s2) /\ Shaped(s2)
  BY <1>2, ChildFieldsSteady, SteadyShaped, Zenon
<1> HIDE DEF s2
<1>4. Steady(s2, s3) /\ Shaped(s3)
  BY <1>3, ChildFieldsSteady, SteadyShaped, Zenon
<1> HIDE DEF s3
<1>5. Steady(s3, s4) /\ Shaped(s4)
  BY <1>4, ChildFieldsSteady, SteadyShaped, Zenon
<1> HIDE DEF s4
<1>6. Steady(s4, made)
  <2> HIDE DEF v
  <2> QED BY <1>5, ChildFieldsSteady, Zenon
<1> HIDE DEF made
<1>7. Steady(c, made)
  <2>1. Steady(s, made)
    <3>1. Steady(s2, made)
      BY <1>3, <1>4, <1>5, <1>6, CalmTransitive
    <3> QED BY <1>1, <1>2, <1>3, <3>1, CalmTransitive
  <2> QED BY <1>1, <2>1, CalmTransitive
<1>8. Steady(c, lost) /\ Shaped(lost)
  BY ChildFieldsSteady, SteadyShaped, Zenon
<1> HIDE DEF lost
<1>9. /\ Steady(c, StopCgiSetErrorCode(c, 500))
      /\ Steady(c, StopCgiSetErrorCode(lost, 500))
  BY <1>8, StopCgiSetErrorCodeSteady, CalmTransitive
<1>10. StartChild(c, o) \in {StopCgiSetErrorCode(c, 500),
                             StopCgiSetErrorCode(lost, 500), made}
  <2>1. StartChild(c, o) =
          CASE o.start = "prepare" -> StopCgiSetErrorCode(c, 500)
            [] o.start = "fork" -> StopCgiSetErrorCode(lost, 500)
            [] OTHER -> made
    BY ZenonT(40) DEF StartChild, lost, made, s4, s3, s2, s1, s
  <2> QED BY <2>1
<1> QED BY <1>7, <1>9, <1>10

LEMMA CgiClientSteady ==
  ASSUME NEW c, Shaped(c), NEW o
  PROVE  Steady(c, CgiClient(c, o))
<1> DEFINE d == StartChild(c, o)
<1>1. Steady(c, d) /\ Shaped(d)
  BY StartChildSteady, SteadyShaped
<1> HIDE DEF d
<1>2. Steady(c, WaitForChild(d, o.waitFails))
  BY <1>1, WaitForChildSteady, CalmTransitive
<1>3. CgiClient(c, o) \in {c, d, WaitForChild(c, o.waitFails),
                           WaitForChild(d, o.waitFails)}
  BY DEF CgiClient, d
<1> QED BY <1>1, <1>2, <1>3, WaitForChildSteady, CalmReflexive

-----------------------------------------------------------------------------
(* ConnectionManager.                                                      *)

LEMMA KillCalm ==
  ASSUME NEW c, Shaped(c), NEW n
  PROVE  Calm(c, Kill(c, n))
<1> DEFINE own == c.childPid = 1 /\ Unreaped(c)
           v == IF own THEN n ELSE c.signal
           d == [c EXCEPT !.signal = v]
           w == c.hist.stray \/ ~own
           e == [d EXCEPT !.hist.stray = w]
<1>1. Calm(c, d) /\ Shaped(d) /\ d.hist = c.hist
  <2> HIDE DEF v
  <2> QED BY StatesOrdered DEF Calm, Shaped, Watched
<1>2. Calm(d, e)
  <2> HIDE DEF d, w
  <2> QED BY <1>1, HistoryCalm, Zenon
<1>3. Kill(c, n) = e
  BY DEF Kill, Shaped, Watched
<1> HIDE DEF e, d
<1> QED BY <1>1, <1>2, <1>3, CalmTransitive

LEMMA TerminateCalm ==
  ASSUME NEW c, Shaped(c), NEW f
  PROVE  Calm(c, Terminate(c, f))
<1> DEFINE d == [c EXCEPT !.signalSent = 1]
           e == IF c.cgiFlag /\ c.childPid # 0 THEN Kill(d, 1) ELSE d
           g == SetClientState(e, DO_RESPONSE)
<1>1. Calm(c, d) /\ Shaped(d)
  BY StatesOrdered DEF Calm, Shaped, Watched
<1> HIDE DEF d
<1>2. Calm(c, e) /\ Shaped(e)
  <2>1. Calm(c, Kill(d, 1))
    BY <1>1, KillCalm, CalmTransitive
  <2>2. Calm(c, e)
    BY <1>1, <2>1
  <2> QED BY <2>2, CalmShaped
<1> HIDE DEF e
<1>3. Calm(c, g)
  BY <1>2, SetClientStateCalm, CalmTransitive, StatesOrdered
<1> HIDE DEF g
<1>4. Terminate(c, f) \in {c, e, g}
  BY Zenon DEF Terminate, d, e, g
<1> QED BY <1>2, <1>3, <1>4, CalmReflexive

LEMMA KillLateCalm ==
  ASSUME NEW c, Shaped(c)
  PROVE  Calm(c, KillLate(c))
<1> DEFINE d == [c EXCEPT !.signalSent = 2]
           e == IF c.childPid # 0 THEN Kill(d, 2) ELSE d
           g == SetClientState(e, DO_RESPONSE)
<1>1. Calm(c, d) /\ Shaped(d)
  BY StatesOrdered DEF Calm, Shaped, Watched
<1> HIDE DEF d
<1>2. Calm(c, e) /\ Shaped(e)
  <2>1. Calm(c, Kill(d, 2))
    BY <1>1, KillCalm, CalmTransitive
  <2>2. Calm(c, e)
    BY <1>1, <2>1
  <2> QED BY <2>2, CalmShaped
<1> HIDE DEF e
<1>3. Calm(c, g)
  BY <1>2, SetClientStateCalm, CalmTransitive, StatesOrdered
<1> HIDE DEF g
<1>4. KillLate(c) \in {c, g}
  BY Zenon DEF KillLate, d, e, g
<1> QED BY <1>3, <1>4, CalmReflexive

LEMMA HandleClientCalm ==
  ASSUME NEW c, Shaped(c), NEW f
  PROVE  Calm(c, HandleClient(c, f))
<1> DEFINE d == Terminate(c, f)
<1>1. Calm(c, d) /\ Shaped(d)
  BY TerminateCalm, CalmShaped
<1> HIDE DEF d
<1>2. Calm(c, KillLate(d))
  BY <1>1, KillLateCalm, CalmTransitive
<1> QED BY <1>2 DEF HandleClient, d

FdFlags == {"NONE", "R_RECEIVE", "R_SEND", "R_SENDREC"}

(* d is c after the event e was applied to it: only the flag of e's        *)
(* descriptor changed, or that descriptor was closed.                      *)
Noted(c, d, e) ==
  /\ Shaped(d)
  /\ \A t \in FdTypes \ {e.fd} :
       d.fd[t] = c.fd[t] /\ (t \in d.epoll <=> t \in c.epoll)
  /\ c.fd[e.fd] # "ABSENT" => d.fd[e.fd] # "ABSENT"
  /\ d.fd[e.fd] \in FdFlags \/ e.fd = "CLIENT_FD" =>
       (e.fd \in d.epoll <=> e.fd \in c.epoll)
  /\ d.fd[e.fd] \in {"R_RECEIVE", "R_SENDREC"} => e.receive
  /\ c.out => d.out
  /\ \A t \in Inputs : WouldBlockRecv(d, t) => WouldBlockRecv(c, t)
  /\ d.hist.idleRecv = c.hist.idleRecv
  /\ d.clientState >= c.clientState

LEMMA UpdateClientFdsNotes ==
  ASSUME NEW c, Shaped(c), NEW e, e.fd \in FdTypes,
         e.send \in BOOLEAN, e.receive \in BOOLEAN
  PROVE  Noted(c, UpdateClientFds(c, e.fd, e.send, e.receive), e)
<1> DEFINE s == CASE e.send /\ ~e.receive -> "R_SEND"
                  [] ~e.send /\ e.receive -> "R_RECEIVE"
                  [] e.send /\ e.receive  -> "R_SENDREC"
                  [] OTHER -> "NONE"
           d == SetFd(c, e.fd, s)
<1>1. /\ s \in FdFlags
      /\ s \in {"R_RECEIVE", "R_SENDREC"} => e.receive
  BY DEF FdFlags
<1>2. UpdateClientFds(c, e.fd, e.send, e.receive) =
        IF c.fd[e.fd] \in {"CLOSED", "CLOSE"} THEN c ELSE d
  BY Zenon DEF UpdateClientFds
<1>3. Noted(c, d, e)
  <2> HIDE DEF s
  <2>1. /\ Shaped(d) /\ d.fd[e.fd] = s
        /\ \A t \in FdTypes \ {e.fd} : d.fd[t] = c.fd[t]
        /\ d.epoll = c.epoll /\ d.out = c.out
        /\ d.in = c.in /\ d.proc = c.proc /\ d.fromChild = c.fromChild
        /\ d.hist = c.hist /\ d.clientState = c.clientState
    BY DEF SetFd, Shaped, Watched
  <2> HIDE DEF d
  <2>2. s # "ABSENT"
    BY <1>1 DEF FdFlags
  <2>3. d.clientState >= c.clientState
    BY <2>1, StatesOrdered DEF Shaped
  <2> QED BY <1>1, <2>1, <2>2, <2>3 DEF Noted, WouldBlockRecv
<1>4. c.fd[e.fd] \in {"CLOSED", "CLOSE"} => Noted(c, c, e)
  <2>1. c.clientState >= c.clientState
    BY StatesOrdered DEF Shaped
  <2> QED BY <2>1 DEF Noted, FdFlags
<1> HIDE DEF d
<1> QED BY <1>2, <1>3, <1>4

LEMMA HandleCgiFdsNotes ==
  ASSUME NEW c, Shaped(c), NEW e, e.fd \in ChildFds,
         e.send \in BOOLEAN, e.receive \in BOOLEAN
  PROVE  Noted(c, HandleCgiFds(c, e.fd, e.send, e.receive), e)
<1> DEFINE t0 == e.fd
           d == [SetFd(c, t0, "CLOSED") EXCEPT !.epoll = @ \ {t0}]
<1>1. t0 \in FdTypes /\ t0 # "CLIENT_FD"
  BY DEF ChildFds, FdTypes
<1>2. HandleCgiFds(c, t0, e.send, e.receive) =
        IF c.fd[t0] = "CLOSE" THEN d
        ELSE UpdateClientFds(c, t0, e.send, e.receive)
  BY Zenon DEF HandleCgiFds
<1>3. Noted(c, d, e)
  <2>1. /\ Shaped(d) /\ d.fd[t0] = "CLOSED"
        /\ \A t \in FdTypes \ {t0} :
             d.fd[t] = c.fd[t] /\ (t \in d.epoll <=> t \in c.epoll)
        /\ d.out = c.out
        /\ d.in = c.in /\ d.proc = c.proc /\ d.fromChild = c.fromChild
        /\ d.hist = c.hist /\ d.clientState = c.clientState
    <3> HIDE DEF t0
    <3> QED BY <1>1 DEF SetFd, Shaped, Watched
  <2> HIDE DEF d
  <2>2. d.clientState >= c.clientState
    BY <2>1, StatesOrdered DEF Shaped
  <2> QED BY <1>1, <2>1, <2>2 DEF Noted, WouldBlockRecv, FdFlags
<1> HIDE DEF d
<1> QED BY <1>1, <1>2, <1>3, UpdateClientFdsNotes

LEMMA CalmNoted ==
  ASSUME NEW c, Shaped(c), NEW d, Calm(c, d), NEW f, NEW e, Noted(d, f, e)
  PROVE  Noted(c, f, e)
<1>1. f.clientState >= c.clientState
  BY StatesOrdered DEF Calm, Shaped, Noted
<1> QED BY <1>1 DEF Calm, Noted, WouldBlockRecv

-----------------------------------------------------------------------------
(* A client and the events reported for it.                                *)

(* epoll watches the peer's descriptor, and every other whose flags the    *)
(* handlers may read.  The peer's buffer has room until the client is      *)
(* being answered.                                                         *)
Registered(c) ==
  /\ "CLIENT_FD" \in c.epoll /\ c.fd["CLIENT_FD"] # "ABSENT"
  /\ \A t \in FdTypes : c.fd[t] \in FdFlags => t \in c.epoll
  /\ c.clientState < DO_RESPONSE => c.out

(* The event e is of a descriptor that c still has open, and what it said  *)
(* could be read is still there; or c never had such a descriptor.         *)
Current(c, e) ==
  c.fd[e.fd] # "ABSENT" =>
    /\ e.fd \in c.epoll
    /\ e.receive /\ e.fd \in Inputs => ~WouldBlockRecv(c, e.fd)

LEMMA StatesCompare ==
  ASSUME NEW c, NEW d, Shaped(c), Shaped(d), d.clientState >= c.clientState
  PROVE  d.clientState < DO_RESPONSE => c.clientState < DO_RESPONSE
BY StatesOrdered DEF Shaped

LEMMA LooseRegistered ==
  ASSUME NEW c, Shaped(c), Registered(c), NEW d, Loose(c, d)
  PROVE  Registered(d)
<1>1. d.clientState < DO_RESPONSE => c.clientState < DO_RESPONSE
  BY StatesCompare DEF Steady, Loose
<1>2. d.clientState < DO_RESPONSE => ~ d.clientState >= DO_RESPONSE
  BY StatesOrdered DEF Steady, Loose, Shaped
<1> QED BY <1>1, <1>2 DEF Registered, Steady, Loose, FdFlags, FdTypes

LEMMA StirredKeeps ==
  ASSUME NEW c, Shaped(c), Registered(c), NEW d, Stirred(c, d)
  PROVE  /\ Registered(d)
         /\ \A t \in Inputs : Stale(d, t) => Stale(c, t)
         /\ \A e : Current(c, e) => Current(d, e)
<1>1. d.clientState < DO_RESPONSE => c.clientState < DO_RESPONSE
  BY StatesCompare DEF Stirred
<1> QED BY <1>1 DEF Registered, Stirred, Stale, Current

LEMMA NotedKeeps ==
  ASSUME NEW c, Shaped(c), Registered(c), NEW d, NEW e, e.fd \in FdTypes,
         Noted(c, d, e), e.fd \in c.epoll,
         e.receive /\ e.fd \in Inputs => ~WouldBlockRecv(c, e.fd)
  PROVE  /\ Registered(d)
         /\ \A t \in Inputs : Stale(d, t) => Stale(c, t) /\ t # e.fd
         /\ \A f : f.fd \in FdTypes \ {e.fd} /\ Current(c, f) => Current(d, f)
<1>1. d.clientState < DO_RESPONSE => c.clientState < DO_RESPONSE
  BY StatesCompare DEF Noted
<1>2. Registered(d)
  <2>1. "CLIENT_FD" \in d.epoll /\ d.fd["CLIENT_FD"] # "ABSENT"
    BY DEF Registered, Noted, FdTypes
  <2>2. \A t \in FdTypes : d.fd[t] \in FdFlags => t \in d.epoll
    BY DEF Registered, Noted
  <2> QED BY <1>1, <2>1, <2>2 DEF Registered, Noted
<1>3. \A t \in Inputs : Stale(d, t) => Stale(c, t) /\ t # e.fd
  BY <1>1 DEF Stale, Noted, Inputs, FdTypes
<1>4. \A f : f.fd \in FdTypes \ {e.fd} /\ Current(c, f) => Current(d, f)
  BY DEF Current, Noted
<1> QED BY <1>2, <1>3, <1>4

-----------------------------------------------------------------------------
(* The invariant.                                                          *)

Clean == \A s \in Live : Registered(clients[s])

(* The events still to be handled are about descriptors that the clients   *)
(* they name have open, and no two are about the same one.                 *)
BatchOK ==
  /\ \A e \in batch \ {Listen} :
       /\ e.fd = "CLIENT_FD" => e.slot \in Live
       /\ e.slot \in Live => Current(clients[e.slot], e)
  /\ \A e, f \in batch : e.slot = f.slot /\ e.fd = f.fd => e = f

(* One epoll_wait can report every descriptor there may be.                *)
Fits == IsFiniteSet(Slots) /\ 3 * Cardinality(Slots) < MaxEvents

NoIdleRecv == \A s \in Live : ~clients[s].hist.idleRecv

(* What an earlier turn has read up is reported anew before ioLoop looks   *)
(* at it.                                                                  *)
StaleReported ==
  phase = "events" =>
    \A s \in Live, t \in Inputs :
      Stale(clients[s], t) => \E e \in batch : e.slot = s /\ e.fd = t

TodoFresh ==
  phase = "io" => \A s \in todo, t \in Inputs : ~Stale(clients[s], t)

ReadsOK == Fits => NoIdleRecv /\ StaleReported /\ TodoFresh

EParts == Clean /\ BatchOK /\ ReadsOK

EInv == QInv /\ EParts

LEMMA LiveShaped ==
  ASSUME IInv
  PROVE  \A s \in Live : Shaped(clients[s])
BY LiveClients, ClientsShaped DEF IInv

LEMMA BatchTyped ==
  ASSUME IInv, NEW e \in batch \ {Listen}
  PROVE  /\ e \in ClientEvents /\ e.slot \in Slots /\ e.fd \in FdTypes
         /\ e.send \in BOOLEAN /\ e.receive \in BOOLEAN
BY DEF IInv, TypeOK, Events, ClientEvents

LEMMA OneChanged ==
  ASSUME IInv, NEW s \in Live, NEW d, clients' = [clients EXCEPT ![s] = d]
  PROVE  \A r \in Live' : /\ r \in Live
                          /\ clients'[r] = IF r = s THEN d ELSE clients[r]
BY DEF IInv, TypeOK, Live

-----------------------------------------------------------------------------
(* Steps outside epollLoop, after which no event is left.                  *)

LEMMA QuietStep ==
  ASSUME EInv, batch' = {}, phase' # "events",
         \A r \in Live' : /\ r \in Live /\ Loose(clients[r], clients'[r])
                          /\ Fits => Steady(clients[r], clients'[r]),
         phase' = "io" => /\ phase = "io" /\ todo' \subseteq todo
                          /\ \A r \in todo' : clients'[r] = clients[r]
  PROVE  EParts'
<1>1. IInv
  BY DEF EInv, QInv
<1>2. Clean'
  BY <1>1, LiveShaped, LooseRegistered DEF EInv, EParts, Clean
<1>3. BatchOK'
  BY DEF BatchOK
<1>4. ReadsOK'
  BY DEF EInv, EParts, ReadsOK, NoIdleRecv, StaleReported, TodoFresh, Steady,
         Loose, Fits
<1> QED BY <1>2, <1>3, <1>4 DEF EParts

(* The kernel, the peers and the children move.                            *)
LEMMA StirredStep ==
  ASSUME EInv, IInv', UNCHANGED <<phase, batch, todo>>, Live' = Live,
         \A r \in Live : Stirred(clients[r], clients'[r])
  PROVE  EParts'
<1>1. IInv
  BY DEF EInv, QInv
<1>2. ASSUME NEW r \in Live
      PROVE  /\ Registered(clients'[r])
             /\ \A t \in Inputs : Stale(clients'[r], t) => Stale(clients[r], t)
             /\ \A e : Current(clients[r], e) => Current(clients'[r], e)
             /\ clients'[r].hist.idleRecv = clients[r].hist.idleRecv
  <2>1. Shaped(clients[r]) /\ Registered(clients[r])
    BY <1>1, LiveShaped DEF EInv, EParts, Clean
  <2> QED BY <2>1, StirredKeeps DEF Stirred
<1>3. Clean'
  BY <1>2 DEF Clean
<1>4. BatchOK'
  <2>1. \A e \in batch \ {Listen} :
          /\ e.fd = "CLIENT_FD" => e.slot \in Live'
          /\ e.slot \in Live' => Current(clients'[e.slot], e)
    BY <1>2 DEF EInv, EParts, BatchOK
  <2>2. BatchOK
    BY DEF EInv, EParts
  <2> QED BY <2>1, <2>2 DEF BatchOK
<1>5. ReadsOK'
  <2> SUFFICES ASSUME Fits PROVE (NoIdleRecv /\ StaleReported /\ TodoFresh)'
    BY DEF ReadsOK, Fits
  <2>1. NoIdleRecv /\ StaleReported /\ TodoFresh
    BY DEF EInv, EParts, ReadsOK
  <2>2. NoIdleRecv'
    BY <1>2, <2>1 DEF NoIdleRecv
  <2>3. StaleReported'
    BY <1>2, <2>1 DEF StaleReported
  <2>4. TodoFresh'
    <3>1. todo \subseteq Live
      BY <1>1 DEF IInv, LoopOK
    <3> QED BY <1>2, <2>1, <3>1 DEF TodoFresh
  <2> QED BY <2>2, <2>3, <2>4
<1> QED BY <1>3, <1>4, <1>5 DEF EParts

-----------------------------------------------------------------------------
(* The handlers of events.                                                 *)

(* The event is handled and its client only notes it.                      *)
LEMMA NotedStep ==
  ASSUME EInv, NEW e \in batch \ {Listen}, batch' = batch \ {e},
         UNCHANGED <<phase, todo>>, phase = "events",
         e.slot \in Live, NEW d, Noted(clients[e.slot], d, e),
         clients[e.slot].fd[e.fd] # "ABSENT", Live' = Live,
         clients' = [clients EXCEPT ![e.slot] = d]
  PROVE  EParts'
<1> DEFINE s == e.slot
           c == clients[s]
<1>1. /\ IInv /\ Shaped(c) /\ Registered(c) /\ e.fd \in FdTypes
      /\ Current(c, e)
  BY LiveShaped, BatchTyped DEF EInv, QInv, EParts, Clean, BatchOK
<1>2. /\ Registered(d)
      /\ \A t \in Inputs : Stale(d, t) => Stale(c, t) /\ t # e.fd
      /\ \A f : f.fd \in FdTypes \ {e.fd} /\ Current(c, f) => Current(d, f)
      /\ d.hist.idleRecv = c.hist.idleRecv
  <2>1. e.fd \in c.epoll
        /\ (e.receive /\ e.fd \in Inputs => ~WouldBlockRecv(c, e.fd))
    BY <1>1 DEF Current
  <2>2. Shaped(c) /\ Registered(c) /\ Noted(c, d, e)
    BY <1>1
  <2> HIDE DEF c
  <2> QED BY <1>1, <2>1, <2>2, NotedKeeps DEF Noted
<1>3. \A r \in Live : clients'[r] = IF r = s THEN d ELSE clients[r]
  <2>1. clients \in [Slots -> ClientRec \cup {NoClient}] /\ Live \subseteq Slots
    BY <1>1 DEF IInv, TypeOK, Live
  <2> QED BY <2>1
<1>4. Clean'
  BY <1>2, <1>3 DEF EInv, EParts, Clean
<1>5. BatchOK'
  <2>1. BatchOK
    BY DEF EInv, EParts
  <2>2. ASSUME NEW f \in batch' \ {Listen}
        PROVE  /\ f.fd = "CLIENT_FD" => f.slot \in Live'
               /\ f.slot \in Live' => Current(clients'[f.slot], f)
    <3>1. /\ f \in batch \ {Listen} /\ f # e /\ f.fd \in FdTypes
          /\ f.slot = s => f.fd # e.fd
      BY <1>1, <2>1, <2>2, BatchTyped DEF BatchOK
    <3> QED BY <1>2, <1>3, <2>1, <3>1 DEF BatchOK
  <2> QED BY <2>1, <2>2 DEF BatchOK
<1>6. ReadsOK'
  <2> SUFFICES ASSUME Fits PROVE (NoIdleRecv /\ StaleReported /\ TodoFresh)'
    BY DEF ReadsOK, Fits
  <2>1. NoIdleRecv /\ StaleReported
    BY DEF EInv, EParts, ReadsOK
  <2>2. NoIdleRecv'
    BY <1>2, <1>3, <2>1 DEF NoIdleRecv
  <2>3. StaleReported'
    <3> SUFFICES ASSUME NEW r \in Live, NEW t \in Inputs, Stale(clients'[r], t)
                 PROVE  \E f \in batch' : f.slot = r /\ f.fd = t
      BY DEF StaleReported
    <3>1. Stale(clients[r], t) /\ (r = s => t # e.fd)
      BY <1>2, <1>3
    <3> QED BY <2>1, <3>1 DEF StaleReported
  <2> QED BY <2>2, <2>3 DEF TodoFresh
<1> QED BY <1>4, <1>5, <1>6 DEF EParts

(* The event is handled and its client is gone, or has no such descriptor. *)
LEMMA DroppedStep ==
  ASSUME EInv, NEW e \in batch \ {Listen}, batch' = batch \ {e},
         UNCHANGED <<phase, todo>>, phase = "events",
         \A r \in Live' : r \in Live /\ clients'[r] = clients[r],
         \A r \in Live \ Live' : r = e.slot /\ e.fd = "CLIENT_FD",
         e.slot \in Live' => clients[e.slot].fd[e.fd] = "ABSENT"
  PROVE  EParts'
<1>1. Clean'
  BY DEF EInv, EParts, Clean
<1>2. BatchOK'
  <2>1. BatchOK
    BY DEF EInv, EParts
  <2>2. ASSUME NEW f \in batch' \ {Listen}
        PROVE  /\ f.fd = "CLIENT_FD" => f.slot \in Live'
               /\ f.slot \in Live' => Current(clients'[f.slot], f)
    <3>1. f \in batch \ {Listen} /\ ~(f.slot = e.slot /\ f.fd = e.fd)
      BY <2>1, <2>2 DEF BatchOK
    <3> QED BY <2>1, <3>1 DEF BatchOK
  <2> QED BY <2>1, <2>2 DEF BatchOK
<1>3. ReadsOK'
  <2> SUFFICES ASSUME Fits PROVE (NoIdleRecv /\ StaleReported /\ TodoFresh)'
    BY DEF ReadsOK, Fits
  <2>1. NoIdleRecv /\ StaleReported
    BY DEF EInv, EParts, ReadsOK
  <2>2. StaleReported'
    <3> SUFFICES ASSUME NEW r \in Live', NEW t \in Inputs,
                        Stale(clients'[r], t)
                 PROVE  \E f \in batch' : f.slot = r /\ f.fd = t
      BY DEF StaleReported
    <3>1. PICK f \in batch : f.slot = r /\ f.fd = t
      BY <2>1 DEF StaleReported
    <3>2. f # e
      BY <3>1 DEF Stale
    <3> QED BY <3>1, <3>2
  <2> QED BY <2>1, <2>2 DEF NoIdleRecv, TodoFresh
<1> QED BY <1>1, <1>2, <1>3 DEF EParts

-----------------------------------------------------------------------------
(* epollLoop.                                                              *)

LEMMA PrepareWaitEvents == ASSUME EInv, PrepareWait PROVE EParts'
<1>1. IInv /\ batch' = {} /\ phase' = "wait"
  BY DEF EInv, QInv, IInv, LoopOK, PrepareWait
<1>2. ASSUME NEW c, Shaped(c), Registered(c)
      PROVE  /\ Registered(AddChildSocketsToEpoll(c))
             /\ AddChildSocketsToEpoll(c).hist = c.hist
  BY <1>2
     DEF Registered, AddChildSocketsToEpoll, Shaped, Watched, FdFlags, FdTypes,
         ChildFds
<1>3. \A r \in Live' : /\ r \in Live
                       /\ clients'[r] = AddChildSocketsToEpoll(clients[r])
  BY DEF PrepareWait, Live
<1>4. \A r \in Live' : /\ Registered(clients'[r])
                       /\ clients'[r].hist = clients[r].hist
  BY <1>1, <1>2, <1>3, LiveShaped DEF EInv, EParts, Clean
<1>5. Clean'
  BY <1>4 DEF Clean
<1>6. BatchOK'
  BY <1>1 DEF BatchOK
<1>7. ReadsOK'
  BY <1>1, <1>3, <1>4
     DEF EInv, EParts, ReadsOK, Fits, NoIdleRecv, StaleReported, TodoFresh
<1> QED BY <1>5, <1>6, <1>7 DEF EParts

(* Two events that are ready at once are about different descriptors.      *)
LEMMA ReadyDiffer ==
  /\ \A e \in Ready \ {Listen} :
       /\ e \in ClientEvents /\ e.slot \in Live /\ e.fd \in FdTypes
       /\ e.fd \in clients[e.slot].epoll
       /\ e.receive = Readable(clients[e.slot], e.fd)
  /\ \A e, f \in Ready : e.slot = f.slot /\ e.fd = f.fd => e = f
<1>1. \A e \in Ready \ {Listen} :
        /\ e \in ClientEvents /\ e.slot \in Live /\ e.fd \in FdTypes
        /\ e.fd \in clients[e.slot].epoll
        /\ e.send = Writable(clients[e.slot], e.fd)
        /\ e.receive = Readable(clients[e.slot], e.fd)
  BY DEF Ready, ClientEvents
<1>2. \A e, f \in Ready \ {Listen} : e.slot = f.slot /\ e.fd = f.fd => e = f
  <2> SUFFICES ASSUME NEW e \in Ready \ {Listen}, NEW f \in Ready \ {Listen},
                      e.slot = f.slot, e.fd = f.fd
               PROVE  e = f
    OBVIOUS
  <2>1. e \in ClientEvents /\ f \in ClientEvents
    BY <1>1
  <2>2. e.send = f.send /\ e.receive = f.receive
    BY <1>1
  <2> QED BY <2>1, <2>2 DEF ClientEvents
<1>3. \A e \in Ready \ {Listen} : e.fd # Listen.fd
  BY <1>1 DEF Listen, FdTypes
<1> QED BY <1>1, <1>2, <1>3

LEMMA ReadyFits ==
  ASSUME IInv, Fits
  PROVE  /\ IsFiniteSet(Ready)
         /\ Cardinality(Ready) \in Nat /\ Cardinality(Ready) <= MaxEvents
<1> DEFINE P == Slots \X FdTypes
           T == P \cup {<<0, "LISTEN">>}
           f == [e \in Ready |-> <<e.slot, e.fd>>]
<1>1. IsFiniteSet(FdTypes) /\ Cardinality(FdTypes) = 3
  <2>1. IsFiniteSet({}) /\ Cardinality({}) = 0
    BY FS_EmptySet
  <2> DEFINE A == {} \cup {"CLIENT_FD"}
             B == A \cup {"TOCHILD_FD"}
             C == B \cup {"FROMCHILD_FD"}
  <2>2. IsFiniteSet(A) /\ Cardinality(A) = 1
    BY <2>1, FS_AddElement
  <2>3. IsFiniteSet(B) /\ Cardinality(B) = 2
    BY <2>2, FS_AddElement
  <2>4. IsFiniteSet(C) /\ Cardinality(C) = 3
    BY <2>3, FS_AddElement
  <2>5. C = FdTypes
    BY DEF FdTypes
  <2> QED BY <2>4, <2>5
<1>2. IsFiniteSet(P) /\ Cardinality(P) = Cardinality(Slots) * 3
  BY <1>1, FS_Product DEF Fits
<1>3. /\ IsFiniteSet(T) /\ Cardinality(T) \in Nat
      /\ Cardinality(T) <= MaxEvents
  <2>1. Cardinality(Slots) \in Nat
    BY FS_CardinalityType DEF Fits
  <2> HIDE DEF P
  <2>2. /\ IsFiniteSet(T)
        /\ Cardinality(T) = IF <<0, "LISTEN">> \in P THEN Cardinality(P)
                            ELSE Cardinality(P) + 1
    BY <1>2, FS_AddElement
  <2> HIDE DEF T
  <2>3. Cardinality(P) \in Nat /\ Cardinality(P) < MaxEvents
    BY <1>2, <2>1 DEF Fits
  <2> QED BY <2>2, <2>3, BoundsAssumption
<1>4. f \in Injection(Ready, T)
  <2>1. \A e \in Ready : <<e.slot, e.fd>> \in T
    <3>1. \A e \in Ready \ {Listen} : e.slot \in Slots /\ e.fd \in FdTypes
      BY ReadyDiffer DEF ClientEvents
    <3>2. <<Listen.slot, Listen.fd>> = <<0, "LISTEN">>
      BY DEF Listen
    <3> QED BY <3>1, <3>2
  <2>2. f \in [Ready -> T]
    BY <2>1
  <2>3. \A e, g \in Ready : f[e] = f[g] => e = g
    BY ReadyDiffer
  <2> HIDE DEF f, T
  <2> QED BY <2>2, <2>3 DEF Injection, IsInjective
<1> HIDE DEF f, T
<1>5. IsFiniteSet(Ready) /\ Cardinality(Ready) <= Cardinality(T)
  BY <1>3, <1>4, FS_Injection
<1>6. Cardinality(Ready) \in Nat
  BY <1>5, FS_CardinalityType
<1> QED BY <1>3, <1>5, <1>6, BoundsAssumption

(* What a client has read up is ready again: the peer's buffer has room,   *)
(* and the kernel always takes bytes for the child's output socket.        *)
LEMMA StaleIsReady ==
  ASSUME IInv, Clean, NEW s \in Live, NEW t \in Inputs, Stale(clients[s], t)
  PROVE  \E e \in Ready : e.slot = s /\ e.fd = t
<1> DEFINE c == clients[s]
           e == [slot |-> s, fd |-> t, send |-> Writable(c, t),
                 receive |-> Readable(c, t)]
<1>1. s \in Slots /\ c \in ClientRec /\ t \in FdTypes
  BY LiveClients DEF IInv, Inputs, FdTypes
<1>2. t \in c.epoll /\ Writable(c, t)
  BY <1>1 DEF Clean, Registered, Stale, FdFlags, Writable, Inputs
<1>3. Readable(c, t) \in BOOLEAN /\ Writable(c, t) \in BOOLEAN
  BY <1>1 DEF Readable, Writable, Inputs, ClientRec
<1>4. e \in Ready
  BY <1>1, <1>2, <1>3 DEF Ready, ClientEvents
<1> QED BY <1>4

LEMMA EpollWaitEvents == ASSUME EInv, EpollWait PROVE EParts'
<1>1. /\ IInv /\ clients' = clients /\ Live' = Live /\ phase' = "events"
      /\ Clean
  BY DEF EInv, QInv, EParts, EpollWait, Live
<1>2. PICK b \in SUBSET Ready :
        /\ b = Ready \/ Cardinality(b) = MaxEvents
        /\ batch' = b
  BY DEF EpollWait
<1>3. Clean'
  BY <1>1 DEF Clean
<1>4. BatchOK'
  <2>1. \A e \in Ready \ {Listen} :
          e.slot \in Live /\ Current(clients[e.slot], e)
    <3> SUFFICES ASSUME NEW e \in Ready \ {Listen}
                 PROVE  e.slot \in Live /\ Current(clients[e.slot], e)
      OBVIOUS
    <3>1. /\ e.slot \in Live
          /\ e.fd \in clients[e.slot].epoll
          /\ e.receive = Readable(clients[e.slot], e.fd)
      BY ReadyDiffer
    <3> QED BY <3>1 DEF Current, Readable, WouldBlockRecv, Inputs
  <2> QED BY <1>1, <1>2, <2>1, ReadyDiffer DEF BatchOK
<1>5. ReadsOK'
  <2> SUFFICES ASSUME Fits PROVE (NoIdleRecv /\ StaleReported /\ TodoFresh)'
    BY DEF ReadsOK, Fits
  <2>1. b = Ready
    <3>1. Cardinality(b) <= Cardinality(Ready) /\ IsFiniteSet(b)
          /\ (Cardinality(Ready) = Cardinality(b) => Ready = b)
      BY <1>1, ReadyFits, FS_Subset
    <3>2. Cardinality(b) \in Nat
      BY <3>1, FS_CardinalityType
    <3> QED BY <1>1, <1>2, <3>1, <3>2, ReadyFits, BoundsAssumption
  <2>2. NoIdleRecv'
    BY <1>1 DEF EInv, EParts, ReadsOK, NoIdleRecv
  <2>3. StaleReported'
    BY <1>1, <1>2, <2>1, StaleIsReady DEF StaleReported
  <2> QED BY <1>1, <2>2, <2>3 DEF TodoFresh
<1> QED BY <1>3, <1>4, <1>5 DEF EParts

(* A new client has no descriptor of a child, and nothing was reported for *)
(* its own yet; the events left of a client that had its position are      *)
(* about descriptors of a child.                                           *)
LEMMA AcceptEvents == ASSUME EInv, IInv', AcceptNewClient PROVE EParts'
<1>1. /\ IInv /\ Clean /\ BatchOK /\ batch' = batch \ {Listen}
      /\ phase = "events" /\ phase' = phase
  BY DEF EInv, QInv, EParts, AcceptNewClient, Done
<1>2. Fits => NoIdleRecv /\ StaleReported
  BY DEF EInv, EParts, ReadsOK
<1>3. CASE UNCHANGED clients
  <2>1. Live' = Live
    BY <1>3 DEF Live
  <2>2. Clean' /\ BatchOK'
    BY <1>1, <1>3, <2>1 DEF Clean, BatchOK
  <2>3. Listen.fd \notin Inputs
    BY DEF Listen, Inputs
  <2>4. ReadsOK'
    BY <1>1, <1>2, <1>3, <2>1, <2>3
       DEF ReadsOK, Fits, NoIdleRecv, StaleReported, TodoFresh
  <2> QED BY <2>2, <2>4 DEF EParts
<1>4. CASE clients' # clients
  <2>1. PICK s \in Slots \ Live, allocated \in BOOLEAN :
          clients' = [clients EXCEPT ![s] = NewClient(allocated)]
    BY <1>4 DEF AcceptNewClient
  <2> DEFINE d == NewClient(allocated)
  <2>2. /\ Registered(d) /\ ~d.hist.idleRecv
        /\ \A t \in Inputs : ~Stale(d, t)
        /\ \A t \in FdTypes \ {"CLIENT_FD"} : d.fd[t] = "ABSENT"
    BY StatesOrdered
       DEF NewClient, NoHistory, Registered, Stale, FdFlags, FdTypes, Inputs
  <2> HIDE DEF d
  <2>3. \A r \in Live' : \/ r = s /\ clients'[r] = d
                         \/ r # s /\ r \in Live /\ clients'[r] = clients[r]
    BY <1>1, <2>1 DEF IInv, TypeOK, Live, d
  <2>4. Live \subseteq Live'
    <3>1. d # NoClient
      BY NewClientType, NoClientAssumption DEF d
    <3> QED BY <1>1, <2>1, <3>1 DEF IInv, TypeOK, Live
  <2>5. Clean'
    BY <1>1, <2>2, <2>3 DEF Clean
  <2>6. BatchOK'
    <3>1. ASSUME NEW e \in batch' \ {Listen}
          PROVE  /\ e.fd = "CLIENT_FD" => e.slot \in Live'
                 /\ e.slot \in Live' => Current(clients'[e.slot], e)
      <4>1. e \in batch \ {Listen} /\ e.fd \in FdTypes
        BY <1>1, <3>1, BatchTyped
      <4>2. e.slot = s => e.fd # "CLIENT_FD"
        BY <1>1, <2>1, <4>1 DEF BatchOK
      <4> QED BY <1>1, <2>2, <2>3, <2>4, <4>1, <4>2 DEF BatchOK, Current
    <3> QED BY <1>1, <3>1 DEF BatchOK
  <2>7. ReadsOK'
    <3> SUFFICES ASSUME Fits
                 PROVE  (NoIdleRecv /\ StaleReported /\ TodoFresh)'
      BY DEF ReadsOK, Fits
    <3>1. NoIdleRecv'
      BY <1>2, <2>2, <2>3 DEF NoIdleRecv
    <3>2. StaleReported'
      <4> SUFFICES ASSUME NEW r \in Live', NEW t \in Inputs,
                          Stale(clients'[r], t)
                   PROVE  \E e \in batch' : e.slot = r /\ e.fd = t
        BY DEF StaleReported
      <4>1. r \in Live /\ Stale(clients[r], t)
        BY <2>2, <2>3
      <4>2. PICK e \in batch : e.slot = r /\ e.fd = t
        BY <1>1, <1>2, <4>1 DEF StaleReported
      <4>3. e # Listen
        BY <4>2 DEF Listen, Inputs
      <4> QED BY <1>1, <4>2, <4>3
    <3> QED BY <1>1, <3>1, <3>2 DEF TodoFresh
  <2> QED BY <2>5, <2>6, <2>7 DEF EParts
<1> QED BY <1>3, <1>4

(* How an event of a client's descriptor is handled.                       *)
Handled(e) ==
  /\ e \in batch \ {Listen} /\ batch' = batch \ {e} /\ phase = "events"
  /\ UNCHANGED <<phase, todo>>
  /\ \/ /\ \A r \in Live' : r \in Live /\ clients'[r] = clients[r]
        /\ \A r \in Live \ Live' : r = e.slot /\ e.fd = "CLIENT_FD"
        /\ e.slot \in Live' => clients[e.slot].fd[e.fd] = "ABSENT"
     \/ /\ e.slot \in Live /\ clients[e.slot].fd[e.fd] # "ABSENT"
        /\ Live' = Live
        /\ \E d : /\ Noted(clients[e.slot], d, e)
                  /\ clients' = [clients EXCEPT ![e.slot] = d]

LEMMA HandledEvents ==
  ASSUME EInv, NEW e, Handled(e)
  PROVE  EParts'
<1>1. e \in batch \ {Listen}
  BY DEF Handled
<1>2. CASE /\ \A r \in Live' : r \in Live /\ clients'[r] = clients[r]
           /\ \A r \in Live \ Live' : r = e.slot /\ e.fd = "CLIENT_FD"
           /\ e.slot \in Live' => clients[e.slot].fd[e.fd] = "ABSENT"
  BY <1>1, <1>2, DroppedStep DEF Handled
<1>3. CASE /\ e.slot \in Live /\ clients[e.slot].fd[e.fd] # "ABSENT"
           /\ Live' = Live
           /\ \E d : /\ Noted(clients[e.slot], d, e)
                     /\ clients' = [clients EXCEPT ![e.slot] = d]
  <2>1. PICK d : /\ Noted(clients[e.slot], d, e)
                 /\ clients' = [clients EXCEPT ![e.slot] = d]
    BY <1>3
  <2>2. /\ batch' = batch \ {e} /\ phase = "events"
        /\ UNCHANGED <<phase, todo>>
    BY DEF Handled
  <2> QED BY <1>1, <1>3, <2>1, <2>2, NotedStep
<1> QED BY <1>2, <1>3 DEF Handled

LEMMA ClientEventHandled ==
  ASSUME EInv, NEW e \in batch, HandleClientEvent(e)
  PROVE  Handled(e)
<1> DEFINE c == clients[e.slot]
           h == HandleClient(c, flag)
           d == UpdateClientFds(h, e.fd, e.send, e.receive)
<1>1. /\ IInv /\ e \in batch \ {Listen} /\ e.fd = "CLIENT_FD"
      /\ e.slot \in Live /\ batch' = batch \ {e} /\ phase = "events"
      /\ UNCHANGED <<phase, todo>>
  BY DEF EInv, QInv, HandleClientEvent, Done, Listen
<1>2. /\ c \in ClientRec /\ Shaped(c) /\ Registered(c) /\ e.fd \in FdTypes
      /\ e.send \in BOOLEAN /\ e.receive \in BOOLEAN
  BY <1>1, LiveClients, LiveShaped, BatchTyped
     DEF EInv, EParts, Clean, IInv
<1>3. CASE SafeToDelete(h)
  <2>1. clients' = [clients EXCEPT ![e.slot] = NoClient]
    BY <1>3, Zenon DEF HandleClientEvent
  <2>2. /\ \A r \in Live' : r \in Live /\ clients'[r] = clients[r]
        /\ \A r \in Live \ Live' : r = e.slot
        /\ e.slot \notin Live'
    BY <1>1, <2>1 DEF IInv, TypeOK, Live
  <2> QED BY <1>1, <2>2 DEF Handled
<1>4. CASE ~SafeToDelete(h)
  <2>1. clients' = [clients EXCEPT ![e.slot] = d]
    BY <1>4, Zenon DEF HandleClientEvent
  <2>2. Noted(c, d, e)
    <3> HIDE DEF c
    <3>1. Calm(c, h) /\ Shaped(h)
      BY <1>2, HandleClientCalm, CalmShaped
    <3> HIDE DEF h
    <3>2. Noted(h, d, e)
      BY <1>2, <3>1, UpdateClientFdsNotes
    <3> HIDE DEF d
    <3> QED BY <1>2, <3>1, <3>2, CalmNoted
  <2>3. c.fd[e.fd] # "ABSENT"
    BY <1>1, <1>2 DEF Registered
  <2>4. d \in ClientRec
    <3>1. h \in ClientRec
      BY <1>2, HandleClientType DEF SameButSignals, SameAnswer
    <3>2. MaySet(h, e.fd)
      BY <1>1 DEF MaySet, FdTypes
    <3> HIDE DEF h
    <3> QED BY <3>1, <3>2, UpdateClientFdsLeaves DEF Leaves
  <2> HIDE DEF d
  <2>5. Live' = Live
    BY <1>1, <2>1, <2>4, ClientChanged
  <2> QED BY <1>1, <2>1, <2>2, <2>3, <2>5 DEF Handled
<1> QED BY <1>3, <1>4

LEMMA CgiEventHandled ==
  ASSUME EInv, NEW e \in batch, HandleCgiEvent(e)
  PROVE  Handled(e)
<1> DEFINE c == clients[e.slot]
           d == HandleCgiFds(c, e.fd, e.send, e.receive)
<1>1. /\ IInv /\ e \in batch \ {Listen} /\ e.fd \in ChildFds
      /\ batch' = batch \ {e} /\ phase = "events"
      /\ UNCHANGED <<phase, todo>>
  BY DEF EInv, QInv, HandleCgiEvent, Done, Listen, ChildFds
<1>2. CASE e.slot \in Live /\ c.fd[e.fd] # "ABSENT"
  <2>1. clients' = [clients EXCEPT ![e.slot] = d]
    BY <1>2 DEF HandleCgiEvent
  <2>2. /\ c \in ClientRec /\ Shaped(c)
        /\ e.send \in BOOLEAN /\ e.receive \in BOOLEAN
    BY <1>1, <1>2, LiveClients, LiveShaped, BatchTyped DEF IInv
  <2>3. Noted(c, d, e)
    <3> HIDE DEF c
    <3> QED BY <1>1, <2>2, HandleCgiFdsNotes
  <2>4. d \in ClientRec
    <3>1. MaySet(c, e.fd)
      BY <1>1, <1>2 DEF MaySet, HasChildFds, ChildFds, FdTypes
    <3> HIDE DEF c
    <3> QED BY <2>2, <3>1, HandleCgiFdsLeaves DEF Leaves
  <2> HIDE DEF d
  <2>5. Live' = Live
    BY <1>1, <1>2, <2>1, <2>4, ClientChanged
  <2> QED BY <1>1, <1>2, <2>1, <2>3, <2>5 DEF Handled
<1>3. CASE ~(e.slot \in Live /\ c.fd[e.fd] # "ABSENT")
  <2>1. clients' = clients
    BY <1>3 DEF HandleCgiEvent
  <2>2. Live' = Live
    BY <2>1 DEF Live
  <2> QED BY <1>1, <1>3, <2>1, <2>2 DEF Handled
<1> QED BY <1>2, <1>3

LEMMA EndOfBatchEvents == ASSUME EInv, EndOfBatch PROVE EParts'
<1>1. /\ Live' = Live /\ clients' = clients /\ phase = "events"
      /\ batch = {} /\ batch' = {} /\ todo' = Live /\ phase' = "io"
  BY DEF EndOfBatch, Live
<1>2. Clean' /\ BatchOK'
  BY <1>1 DEF EInv, EParts, Clean, BatchOK
<1>3. ReadsOK'
  BY <1>1
     DEF EInv, EParts, ReadsOK, Fits, NoIdleRecv, StaleReported, TodoFresh
<1> QED BY <1>2, <1>3 DEF EParts

-----------------------------------------------------------------------------
(* The loops over the clients, and what happens around the server.         *)

LEMMA VisitEvents ==
  ASSUME EInv, NEW s \in todo, IoStep(s) \/ ServerStep(s) \/ CgiStep(s)
  PROVE  EParts'
<1> DEFINE c == clients[s]
           Calmer(d) == Loose(c, d) /\ (Fits => Steady(c, d))
<1>1. /\ IInv /\ s \in Live /\ c \in ClientRec /\ Shaped(c)
  BY LiveClients, LiveShaped DEF EInv, QInv, IInv, LoopOK
<1>2. /\ phase \in {"io", "server", "cgi"} /\ phase' = phase
      /\ todo' = todo \ {s} /\ batch' = batch /\ todo \subseteq Live
  BY <1>1 DEF IoStep, ServerStep, CgiStep, Visit, IInv, LoopOK
<1>3. batch' = {}
  BY <1>1, <1>2 DEF IInv, LoopOK
<1>4. ASSUME NEW d, Calmer(d), clients' = [clients EXCEPT ![s] = d]
      PROVE  EParts'
  <2>1. \A r \in Live' : /\ r \in Live
                         /\ clients'[r] = IF r = s THEN d ELSE clients[r]
    BY <1>1, <1>4, OneChanged
  <2>2. \A r \in Live : Steady(clients[r], clients[r])
    BY <1>1, LiveShaped, CalmReflexive
  <2>3. \A r \in Live' : /\ r \in Live /\ Loose(clients[r], clients'[r])
                         /\ Fits => Steady(clients[r], clients'[r])
    <3>1. \A r \in Live : Loose(clients[r], clients[r])
      BY <2>2 DEF Steady
    <3> QED BY <1>4, <2>1, <2>2, <3>1
  <2>4. \A r \in todo' : clients'[r] = clients[r]
    BY <1>1, <1>2, <1>4 DEF IInv, TypeOK, Live
  <2> QED BY <1>2, <1>3, <2>3, <2>4, QuietStep
<1>5. CASE IoStep(s)
  <2>1. PICK o \in IoOutcomes(c) :
          clients' = [clients EXCEPT ![s] = IoClient(c, o)]
    BY <1>5 DEF IoStep
  <2> DEFINE d == IoClient(c, o)
  <2>2. phase = "io"
    BY <1>5 DEF IoStep, Visit
  <2>3. c.clientState \in {DO_CGISEND, DO_CGIREC} => HasChildFds(c)
    BY <1>1, <2>2 DEF EInv, QInv, Sound, Connected, AboutToStart, Unstarted
  <2>4. Fits => \A t \in Inputs : ~Stale(c, t)
    BY <2>2 DEF EInv, EParts, ReadsOK, TodoFresh
  <2> HIDE DEF c
  <2>5. Calmer(d)
    BY <1>1, <2>3, <2>4, IoClientSteady
  <2> HIDE DEF d, Calmer
  <2> QED BY <1>4, <2>1, <2>5 DEF d
<1>6. ASSUME NEW d, Steady(c, d) PROVE Calmer(d)
  BY <1>6 DEF Steady
<1>7. CASE ServerStep(s)
  <2>1. PICK q \in ServerOutcomes(c) :
          clients' = [clients EXCEPT ![s] = ServeClient(c, q)]
    BY <1>7 DEF ServerStep
  <2> DEFINE d == ServeClient(c, q)
  <2> HIDE DEF c, Calmer
  <2>2. Calmer(d)
    BY <1>1, <1>6, ServeClientCalm, CalmIsQuiet
  <2> HIDE DEF d
  <2> QED BY <1>4, <2>1, <2>2 DEF d
<1>8. CASE CgiStep(s)
  <2>1. PICK o \in CgiOutcomes(c) :
          clients' = [clients EXCEPT ![s] = CgiClient(c, o)]
    BY <1>8 DEF CgiStep
  <2> DEFINE d == CgiClient(c, o)
  <2> HIDE DEF c, Calmer
  <2>2. Calmer(d)
    BY <1>1, <1>6, CgiClientSteady
  <2> HIDE DEF d
  <2> QED BY <1>4, <2>1, <2>2 DEF d
<1> QED BY <1>5, <1>7, <1>8

(* No client changes, no event is left and ioLoop does not begin.          *)
LEMMA IdleStep ==
  ASSUME EInv, UNCHANGED clients, batch' = {}, phase' \notin {"events", "io"}
  PROVE  EParts'
<1>1. Live' = Live
  BY DEF Live
<1>2. \A r \in Live : Steady(clients[r], clients'[r])
  BY LiveShaped, CalmReflexive DEF EInv, QInv
<1> QED BY <1>1, <1>2, QuietStep DEF Steady

LEMMA NextLoopEvents == ASSUME EInv, NextLoop PROVE EParts'
<1>1. /\ UNCHANGED clients /\ batch' = {}
      /\ phase' \in {"server", "cgi", "shutdown"}
  BY DEF NextLoop, EInv, QInv, IInv, LoopOK
<1> QED BY <1>1, IdleStep

LEMMA ShutdownServerEvents == ASSUME EInv, ShutdownServer PROVE EParts'
<1>1. /\ IInv /\ batch' = {} /\ phase' \in {"exit", "prepare"} /\ Live' = Live
  BY ShutdownLive DEF ShutdownServer, EInv, QInv, IInv, LoopOK
<1>2. ASSUME NEW r \in Live PROVE Steady(clients[r], clients'[r])
  <2>1. Shaped(clients[r]) /\ r \in Slots
    BY <1>1, LiveShaped, LiveClients DEF IInv
  <2>2. clients'[r] \in {clients[r], SetClientState(clients[r], DELETEME)}
    BY <2>1 DEF ShutdownServer, MarkAll
  <2> QED BY <2>1, <2>2, SetClientStateCalm, CalmIsQuiet, CalmReflexive,
             StatesOrdered
<1> QED BY <1>1, <1>2, QuietStep DEF Steady

(* An epoll_wait is only interrupted while nothing is ready, so nothing    *)
(* that was read up is taken for readable in the turn that follows.        *)
LEMMA SigintEvents == ASSUME EInv, IInv', Sigint PROVE EParts'
<1>1. /\ IInv /\ Clean /\ UNCHANGED <<clients, batch>> /\ Live' = Live
  BY DEF EInv, QInv, EParts, Sigint, Live
<1>2. CASE phase = "wait" /\ Ready = {}
  <2>1. phase' = "io" /\ todo' = Live /\ batch' = {}
    BY <1>1, <1>2 DEF Sigint, IInv, LoopOK
  <2>2. \A s \in Live, t \in Inputs : ~Stale(clients[s], t)
    BY <1>1, <1>2, StaleIsReady
  <2>3. Clean' /\ BatchOK'
    BY <1>1, <2>1 DEF Clean, BatchOK
  <2>4. ReadsOK'
    BY <1>1, <2>1, <2>2
       DEF EInv, EParts, ReadsOK, Fits, NoIdleRecv, StaleReported, TodoFresh
  <2> QED BY <2>3, <2>4 DEF EParts
<1>3. CASE ~(phase = "wait" /\ Ready = {})
  <2>1. UNCHANGED <<phase, todo>>
    BY <1>3 DEF Sigint
  <2>2. \A r \in Live : Stirred(clients[r], clients'[r])
    BY <1>1, LiveShaped, CalmReflexive, CalmIsQuiet
  <2> QED BY <1>1, <2>1, <2>2, StirredStep
<1> QED BY <1>2, <1>3

LEMMA KernelStirs ==
  ASSUME NEW c \in ClientRec
  PROVE  /\ \A v : Stirred(c, [c EXCEPT !.age = v])
         /\ \A v : Stirred(c, [c EXCEPT !.toChild = v])
         /\ \A v \in {"data", "eof", "error"} : Stirred(c, [c EXCEPT !.in = v])
         /\ Stirred(c, [c EXCEPT !.out = TRUE])
         /\ Stirred(c, [c EXCEPT !.fromChild = TRUE])
         /\ \A v \in Ended : Stirred(c, [c EXCEPT !.proc = v])
<1> USE ClientsShaped, StatesOrdered
        DEF Stirred, Shaped, Watched, WouldBlockRecv, Inputs
<1>1. \A v : Stirred(c, [c EXCEPT !.age = v])
  OBVIOUS
<1>2. \A v : Stirred(c, [c EXCEPT !.toChild = v])
  OBVIOUS
<1>3. \A v \in {"data", "eof", "error"} : Stirred(c, [c EXCEPT !.in = v])
  OBVIOUS
<1>4. Stirred(c, [c EXCEPT !.out = TRUE])
  OBVIOUS
<1>5. Stirred(c, [c EXCEPT !.fromChild = TRUE])
  OBVIOUS
<1>6. \A v \in Ended : Stirred(c, [c EXCEPT !.proc = v])
  BY DEF Ended
<1> QED BY <1>1, <1>2, <1>3, <1>4, <1>5, <1>6, Zenon

LEMMA ClientMovesStir ==
  ASSUME EInv, NEW s \in Live, ClientMoves(s)
  PROVE  /\ UNCHANGED <<phase, batch, todo, backlog, conns>> /\ Live' = Live
         /\ \A r \in Live : Stirred(clients[r], clients'[r])
<1> DEFINE c == clients[s]
<1>1. IInv /\ c \in ClientRec
  BY LiveClients DEF EInv, QInv, IInv
<1>2. PICK d : Stirred(c, d) /\ ChangeClient(s, d)
  <2> DEFINE Stirs == \E d : Stirred(c, d) /\ ChangeClient(s, d)
  <2>1. CASE Tick(s)
    <3>1. ChangeClient(s, [c EXCEPT !.age = @ + 1])
      BY <2>1 DEF Tick
    <3> HIDE DEF c
    <3> QED BY <1>1, <3>1, KernelStirs, Zenon
  <2>2. CASE PeerSends(s)
    <3>1. PICK i \in {"data", "eof", "error"} :
            ChangeClient(s, [c EXCEPT !.in = i])
      BY <2>2 DEF PeerSends
    <3> HIDE DEF c
    <3> QED BY <1>1, <3>1, KernelStirs, Zenon
  <2>3. CASE PeerReads(s)
    <3>1. ChangeClient(s, [c EXCEPT !.out = TRUE])
      BY <2>3 DEF PeerReads
    <3> HIDE DEF c
    <3> QED BY <1>1, <3>1, KernelStirs, Zenon
  <2>4. CASE ChildReads(s)
    <3>1. ChangeClient(s, [c EXCEPT !.toChild = TRUE])
      BY <2>4 DEF ChildReads
    <3> HIDE DEF c
    <3> QED BY <1>1, <3>1, KernelStirs, Zenon
  <2>5. CASE ChildWrites(s)
    <3>1. ChangeClient(s, [c EXCEPT !.fromChild = TRUE])
      BY <2>5 DEF ChildWrites
    <3> HIDE DEF c
    <3> QED BY <1>1, <3>1, KernelStirs, Zenon
  <2>6. CASE ChildEnds(s)
    <3>1. PICK v \in Ended : ChangeClient(s, [c EXCEPT !.proc = v])
      BY <2>6 DEF ChildEnds
    <3> HIDE DEF c
    <3> QED BY <1>1, <3>1, KernelStirs, Zenon
  <2> QED BY <2>1, <2>2, <2>3, <2>4, <2>5, <2>6 DEF ClientMoves
<1>3. /\ clients' = [clients EXCEPT ![s] = d]
      /\ UNCHANGED <<phase, batch, todo, backlog, conns>>
  BY <1>2 DEF ChangeClient
<1>4. \A r \in Live : clients'[r] = IF r = s THEN d ELSE clients[r]
  BY <1>1, <1>3 DEF IInv, TypeOK, Live
<1>5. Live' = Live
  BY <1>1, ClientMovesEffect, ClientChanged
     DEF Moved, SameClient, SameAnswer
<1>6. \A r \in Live : Stirred(clients[r], clients'[r])
  BY <1>1, <1>2, <1>4, LiveShaped, CalmReflexive, CalmIsQuiet
<1> QED BY <1>3, <1>5, <1>6

LEMMA StandStillEvents ==
  ASSUME EInv, IInv', UNCHANGED <<clients, phase, batch, todo>>
  PROVE  EParts'
<1>1. Live' = Live
  BY DEF Live
<1>2. \A r \in Live : Stirred(clients[r], clients'[r])
  BY LiveShaped, CalmReflexive, CalmIsQuiet DEF EInv, QInv
<1> QED BY <1>1, <1>2, StirredStep

LEMMA ThrownEvents == ASSUME EInv, Thrown PROVE EParts'
<1>1. Live' = {} /\ batch' = {} /\ todo' = {} /\ phase' = "down"
  BY ThrownEffect DEF EInv, QInv
<1> QED BY <1>1 DEF EParts, Clean, BatchOK, ReadsOK, NoIdleRecv, StaleReported,
                    TodoFresh

LEMMA NextEvents == ASSUME EInv, [Next]_vars PROVE EInv'
<1>1. QInv' /\ IInv'
  BY NextSound DEF EInv, QInv
<1>2. CASE PrepareWait \/ EpollWait \/ AcceptNewClient \/ EndOfBatch
  BY <1>1, <1>2, PrepareWaitEvents, EpollWaitEvents, AcceptEvents,
     EndOfBatchEvents DEF EInv
<1>3. CASE NextLoop \/ ShutdownServer \/ Sigint
  BY <1>1, <1>3, NextLoopEvents, ShutdownServerEvents, SigintEvents DEF EInv
<1>4. ASSUME NEW e \in batch, HandleClientEvent(e) \/ HandleCgiEvent(e)
      PROVE  EInv'
  BY <1>1, <1>4, ClientEventHandled, CgiEventHandled, HandledEvents
     DEF EInv
<1>5. ASSUME NEW s \in todo, IoStep(s) \/ ServerStep(s) \/ CgiStep(s)
      PROVE  EInv'
  BY <1>1, <1>5, VisitEvents DEF EInv
<1>6. CASE Connect \/ UNCHANGED vars
  BY <1>1, <1>6, StandStillEvents DEF EInv, Connect, vars
<1>7. ASSUME NEW s \in Live, ClientMoves(s) PROVE EInv'
  BY <1>1, <1>7, ClientMovesStir, StirredStep DEF EInv
<1>8. CASE Thrown
  BY <1>1, <1>8, ThrownEvents DEF EInv
<1> QED BY <1>2, <1>3, <1>4, <1>5, <1>6, <1>7, <1>8
        DEF Next, Server, Environment, ClientMoves, Thrown

LEMMA EventsInOrder == Spec => []EInv
<1>1. Init => EInv
  <2>1. Init => QInv
    BY InitTypes DEF Init, QInv, Live
  <2>2. Init => EParts
    BY DEF Init, EParts, Clean, BatchOK, ReadsOK, NoIdleRecv, StaleReported,
           TodoFresh, Live
  <2> QED BY <2>1, <2>2 DEF EInv
<1>2. EInv /\ [Next]_vars => EInv'
  BY NextEvents
<1> QED BY <1>1, <1>2, PTL DEF Spec

-----------------------------------------------------------------------------
(* What follows.                                                           *)

(* No event is applied to a descriptor it was not reported for: when its   *)
(* turn comes, the client it names still has that descriptor in epoll, and *)
(* what was readable is still there; or it never had such a descriptor and *)
(* the event is dropped.  An event of a deleted client's own descriptor is *)
(* never left in the batch.  This holds whatever the events before it did, *)
(* deleting clients and accepting others in their place included.  (The    *)
(* model numbers clients, not the sockets of children: a connection that   *)
(* takes the number of a child's closed socket is outside it.)             *)
THEOREM EventsAreCurrent == Spec => []BatchOK
<1>1. EInv => BatchOK
  BY DEF EInv, EParts
<1> QED BY <1>1, EventsInOrder, PTL

(* recv is only called when there is something for it, provided one        *)
(* epoll_wait can report all descriptors: the flags that ioLoop reads are  *)
(* of this turn.  (A recv that finds nothing would make the client a       *)
(* failed one.)                                                            *)
THEOREM RecvFindsData ==
  ASSUME IsFiniteSet(Slots), 3 * Cardinality(Slots) < MaxEvents
  PROVE  Spec => []RecvOnlyWhenReadable
<1>1. EInv => RecvOnlyWhenReadable
  BY DEF EInv, EParts, ReadsOK, Fits, NoIdleRecv, RecvOnlyWhenReadable
<1> QED BY <1>1, EventsInOrder, PTL

(* With one connection no position is taken again, so a client has every   *)
(* descriptor that the events of the batch name.                           *)
NamesOpen == \A e \in batch \ {Listen} :
               e.slot \in Live => e.fd \in clients[e.slot].epoll

Solo ==
  /\ conns = 0 => Live = {} /\ backlog = 0
  /\ backlog > 0 => backlog = 1 /\ Live = {} /\ batch \subseteq {Listen}
  /\ NamesOpen

(* A step that neither connects nor accepts.                               *)
LEMMA NoneComes ==
  ASSUME Solo, UNCHANGED <<backlog, conns>>, Live' \subseteq Live,
         batch' \subseteq batch, NamesOpen'
  PROVE  Solo'
BY DEF Solo

LEMMA HandledSolo ==
  ASSUME EInv, Solo, NEW e, Handled(e), UNCHANGED <<backlog, conns>>
  PROVE  Solo'
<1>1. IInv /\ BatchOK /\ batch' = batch \ {e} /\ e \in batch
  BY DEF Handled, EInv, QInv, EParts
<1>2. Live' \subseteq Live
  BY DEF Handled
<1>3. NamesOpen'
  <2> SUFFICES ASSUME NEW f \in batch' \ {Listen}, f.slot \in Live'
               PROVE  f.fd \in clients'[f.slot].epoll
    BY DEF NamesOpen
  <2>1. /\ f \in batch \ {Listen} /\ f.slot \in Live /\ f.fd \in FdTypes
        /\ f.slot = e.slot => f.fd # e.fd
        /\ f.fd \in clients[f.slot].epoll
    BY <1>1, <1>2, BatchTyped DEF BatchOK, Solo, NamesOpen
  <2>2. CASE clients'[f.slot] = clients[f.slot]
    BY <2>1, <2>2
  <2>3. CASE clients'[f.slot] # clients[f.slot]
    <3>1. PICK d : /\ Noted(clients[e.slot], d, e) /\ e.slot \in Live
                   /\ clients' = [clients EXCEPT ![e.slot] = d]
      BY <2>3 DEF Handled
    <3>2. f.slot = e.slot /\ clients'[f.slot] = d
      BY <1>1, <2>1, <2>3, <3>1 DEF IInv, TypeOK, Live
    <3> QED BY <2>1, <3>1, <3>2 DEF Noted
  <2> QED BY <2>2, <2>3
<1> QED BY <1>1, <1>2, <1>3, NoneComes

LEMMA AcceptSolo == ASSUME EInv, Solo, AcceptNewClient PROVE Solo'
<1>1. /\ backlog = 1 /\ Live = {} /\ batch \subseteq {Listen}
      /\ batch' = {} /\ conns' = conns /\ conns # 0
  BY DEF EInv, QInv, IInv, TypeOK, LoopOK, Solo, AcceptNewClient, Done
<1>2. NamesOpen'
  BY <1>1 DEF NamesOpen
<1>3. CASE UNCHANGED <<clients, backlog>>
  BY <1>1, <1>2, <1>3 DEF Solo, Live
<1>4. CASE backlog' = backlog - 1
  BY <1>1, <1>2, <1>4 DEF Solo
<1> QED BY <1>3, <1>4 DEF AcceptNewClient

LEMMA EpollWaitSolo == ASSUME Solo, EpollWait PROVE Solo'
<1>1. /\ UNCHANGED <<clients, backlog, conns>> /\ Live' = Live
      /\ batch' \subseteq Ready
  BY DEF EpollWait, Live
<1>2. Live = {} => Ready \subseteq {Listen}
  BY ReadyDiffer
<1>3. NamesOpen'
  BY <1>1, ReadyDiffer DEF NamesOpen
<1> QED BY <1>1, <1>2, <1>3 DEF Solo

LEMMA NextSolo ==
  ASSUME MaxConns <= 1, EInv, Solo, [Next]_vars PROVE Solo'
<1>1. IInv /\ IInv'
  BY NextTypes DEF EInv, QInv
<1>2. CASE Connect
  <2>1. /\ conns = 0 /\ conns' = 1 /\ backlog' = backlog + 1
        /\ UNCHANGED <<clients, batch>> /\ batch = {}
    BY <1>1, <1>2, BoundsAssumption DEF Connect, IInv, TypeOK, LoopOK
  <2> QED BY <2>1 DEF Solo, NamesOpen, Live
<1>3. ASSUME NEW e \in batch, HandleClientEvent(e) \/ HandleCgiEvent(e)
      PROVE  Solo'
  <2>1. UNCHANGED <<backlog, conns>>
    BY <1>3 DEF HandleClientEvent, HandleCgiEvent
  <2> QED BY <1>3, <2>1, ClientEventHandled, CgiEventHandled, HandledSolo
<1>4. ASSUME NEW s \in Live, ClientMoves(s) PROVE Solo'
  <2>1. /\ UNCHANGED <<batch, backlog, conns>> /\ Live' = Live
        /\ \A r \in Live : clients'[r].epoll = clients[r].epoll
    BY <1>4, ClientMovesStir DEF Stirred
  <2> QED BY <2>1, NoneComes DEF Solo, NamesOpen
<1>5. CASE Sigint \/ UNCHANGED vars
  <2>1. UNCHANGED <<clients, batch, backlog, conns>>
    BY <1>5 DEF Sigint, vars
  <2> QED BY <2>1 DEF Solo, NamesOpen, Live
<1>6. CASE PrepareWait \/ EndOfBatch \/ NextLoop \/ ShutdownServer
           \/ \E s \in todo : IoStep(s) \/ ServerStep(s) \/ CgiStep(s)
  <2>1. /\ UNCHANGED <<backlog, conns>> /\ batch' = {}
        /\ ~AcceptNewClient
    BY <1>1, <1>6
       DEF PrepareWait, EndOfBatch, NextLoop, ShutdownServer, IoStep,
           ServerStep, CgiStep, Visit, IInv, LoopOK, AcceptNewClient
  <2>2. Live' \subseteq Live
    BY <1>1, <2>1, NoneJoins DEF Live
  <2> QED BY <2>1, <2>2, NoneComes DEF NamesOpen
<1>7. CASE Thrown
  <2>1. UNCHANGED <<backlog, conns>> /\ Live' = {} /\ batch' = {}
    BY <1>1, <1>7, ThrownEffect
  <2> QED BY <2>1, NoneComes DEF NamesOpen
<1> QED BY <1>2, <1>3, <1>4, <1>5, <1>6, <1>7, AcceptSolo, EpollWaitSolo
        DEF Next, Server, Environment, ClientMoves, Thrown

(* An event of the batch names a descriptor that is still in epoll when    *)
(* its turn comes, for one connection and whatever its script, its peer    *)
(* and the operator do between two events.                                 *)
THEOREM EventsFindTheirDescriptor ==
  ASSUME MaxConns <= 1
  PROVE  Spec => []EventsNameOpenFds
<1>1. Init => Solo
  BY DEF Init, Solo, NamesOpen, Live
<1>2. Solo /\ EInv /\ [Next]_vars => Solo'
  BY NextSolo
<1>3. Solo => EventsNameOpenFds
  BY DEF Solo, NamesOpen, EventsNameOpenFds
<1> QED BY <1>1, <1>2, <1>3, EventsInOrder, PTL DEF Spec
=============================================================================
