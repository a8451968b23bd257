-------------------------- MODULE ConnectionManager -------------------------
(***************************************************************************)
(* The event side of the server (srcs_new/Server/ConnectionManager.cpp):   *)
(* what one event of epoll_wait does to the client it belongs to.          *)
(***************************************************************************)
EXTENDS Client

(* What the kernel reports for the descriptors in c.epoll: all of them are *)
(* registered for EPOLLIN and EPOLLOUT, level-triggered.                   *)
Readable(c, t) ==
  CASE t = "CLIENT_FD" -> c.in # "idle"
    [] t = "TOCHILD_FD" -> c.proc # "running"
    [] OTHER -> c.fromChild \/ c.proc # "running"

Writable(c, t) ==
  CASE t = "CLIENT_FD" -> c.out
    [] t = "TOCHILD_FD" -> c.toChild \/ c.proc # "running"
    [] OTHER -> TRUE

(* updateClientFds.                                                        *)
UpdateClientFds(c, t, send, receive) ==
  IF c.fd[t] \in {"CLOSED", "CLOSE"} THEN c
  ELSE SetFd(c, t, CASE send /\ ~receive -> "R_SEND"
                     [] ~send /\ receive -> "R_RECEIVE"
                     [] send /\ receive  -> "R_SENDREC"
                     [] OTHER -> "NONE")

(* _handleCgiFds, for the client that owns the descriptor.  Mutant: both   *)
(* sockets of the child are closed at once.                                *)
HandleCgiFdsBoth(c, t, send, receive) ==
  IF c.fd[t] = "CLOSE"
  THEN [c EXCEPT !.fd["TOCHILD_FD"] = "CLOSED", !.fd["FROMCHILD_FD"] = "CLOSED",
                 !.epoll = @ \ ChildFds]
  ELSE UpdateClientFds(c, t, send, receive)

HandleCgiFds(c, t, send, receive) ==
  IF c.fd[t] = "CLOSE"
  THEN [SetFd(c, t, "CLOSED") EXCEPT !.epoll = @ \ {t}]
  ELSE UpdateClientFds(c, t, send, receive)

(* _addChildSocketsToEpoll, for one client.                                *)
AddChildSocketsToEpoll(c) ==
  LET new == { t \in ChildFds : c.fd[t] = "NEW" }
  IN  [c EXCEPT !.epoll = @ \cup new,
                !.fd = [t \in FdTypes |->
                          IF t \in new THEN "NONE" ELSE c.fd[t]]]

-----------------------------------------------------------------------------
(* kill(): signal n (1 SIGTERM, 2 SIGKILL) to the client's childPid.       *)
Kill(c, n) ==
  LET own == c.childPid = 1 /\ Unreaped(c)
  IN  [c EXCEPT !.signal = IF own THEN n ELSE @,
                !.hist.stray = @ \/ ~own]

(* The first part of _handleClient: a client that is late or has failed,   *)
(* or any client once SIGINT arrived, has its child stopped.               *)
Terminate(c, flag) ==
  LET d == [c EXCEPT !.signalSent = 1]
      e == IF c.cgiFlag /\ c.childPid # 0 THEN Kill(d, 1) ELSE d
  IN  IF /\ TimedOut(c) \/ flag > 0 \/ c.errorCode # 0
         /\ c.waitReturn = 0
         /\ c.signalSent = 0
      THEN IF ~c.cgiFlag /\ c.clientState # DELETEME
           THEN SetClientState(e, DO_RESPONSE) ELSE e
      ELSE c

(* Its second part, for a child that is still there much later.  Mutant:   *)
(* whether the child was reaped is not asked.                              *)
KillLateReaped(c) ==
  LET d == [c EXCEPT !.signalSent = 2]
      e == IF c.childPid # 0 THEN Kill(d, 2) ELSE d
  IN  IF TimedOutHalf(c) /\ c.signalSent = 1
      THEN SetClientState(e, DO_RESPONSE) ELSE c

KillLate(c) ==
  LET d == [c EXCEPT !.signalSent = 2]
      e == IF c.childPid # 0 THEN Kill(d, 2) ELSE d
  IN  IF TimedOutHalf(c) /\ c.waitReturn = 0 /\ c.signalSent = 1
      THEN SetClientState(e, DO_RESPONSE) ELSE c

(* safeToDelete.  Mutants: time alone is enough; time is not looked at.    *)
SafeToDeleteLate(c) ==
  \/ c.clientState = DELETEME /\ ~c.cgiFlag
  \/ c.clientState = DELETEME /\ c.waitReturn # 0
  \/ TimedOut(c) /\ c.waitReturn = 0
  \/ TimedOutTwice(c)

SafeToDeleteWhenDone(c) ==
  c.clientState = DELETEME /\ (~c.cgiFlag \/ c.waitReturn # 0)

SafeToDelete(c) ==
  \/ c.clientState = DELETEME /\ ~c.cgiFlag
  \/ c.clientState = DELETEME /\ c.waitReturn # 0
  \/ ~c.cgiFlag /\ TimedOut(c) /\ c.waitReturn = 0
  \/ TimedOutTwice(c)

(* _handleClient up to the point where it deletes the client or not.       *)
HandleClient(c, flag) == KillLate(Terminate(c, flag))
=============================================================================
