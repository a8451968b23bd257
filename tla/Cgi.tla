--------------------------------- MODULE Cgi --------------------------------
(***************************************************************************)
(* The CGI component (srcs_new/Cgi/Cgi.cpp): starts one child per request, *)
(* asks waitpid about it once per turn of the main loop, and turns its end *)
(* into an error code.                                                     *)
(***************************************************************************)
EXTENDS Client

(* _stopCgiSetErrorCode.                                                   *)
CloseOutput(c) == SetFd(c, "FROMCHILD_FD", "CLOSE")

StopCgiSetErrorCode(c, code) ==
  LET d == SetClientState(c, DO_RESPONSE)
      e == IF d.errorCode = 0
           THEN SetErrorCode(d, IF TimedOut(d) THEN 504 ELSE code) ELSE d
  IN  IF HasChildFds(e)
      THEN CloseOutput([e EXCEPT !.msg["RESP_MSG"].state = "COMPLETE"])
      ELSE [e EXCEPT !.cgiFlag = FALSE]

(* _handleReturnStatus, for the three ways a child ends.                   *)
HandleReturnStatus(c, status) ==
  CASE status = "signaled" -> StopCgiSetErrorCode(c, 500)
    [] status # "signaled" /\ c.clientState = CRITICAL_ERROR ->
         [SetClientState(c, DELETEME) EXCEPT !.cgiFlag = FALSE]
    [] status = "exitN" /\ c.clientState # CRITICAL_ERROR ->
         StopCgiSetErrorCode(c, 502)
    [] OTHER -> c

(* _waitForChild.  waitpid(WNOHANG) reaps a child that has ended.          *)
WaitForChild(c, fails) ==
  LET reaped == [c EXCEPT !.waitReturn = 1,
                          !.proc = IF @ = "exit0" THEN "reaped0"
                                                  ELSE "reapedN"]
  IN  CASE c.waitReturn > 0 -> c
        [] c.waitReturn <= 0 /\ fails ->
             StopCgiSetErrorCode([c EXCEPT !.waitReturn = -1], 500)
        [] c.waitReturn <= 0 /\ ~fails /\ c.proc \in Ended ->
             HandleReturnStatus(reaped, c.proc)
        [] OTHER -> [c EXCEPT !.waitReturn = 0]

(* What starting a script may meet: arguments, environment or socketpairs  *)
(* that cannot be had (script missing, not executable, a link; no memory;  *)
(* no descriptors), or fork failing.                                       *)
StartResults == {"started", "prepare"} \cup (Faults \cap {"fork"})

(* The child may have ended before waitpid is first asked about it, with   *)
(* or without output.                                                      *)
CgiOutcome == [start : {"started", "prepare", "fork"},
               child : {"running"} \cup Ended, output : BOOLEAN,
               waitFails : BOOLEAN]

CgiOutcomes(c) ==
  { o \in [start : StartResults, child : {"running"} \cup Endings,
           output : BOOLEAN,
           waitFails : IF "waitpid" \in Faults THEN BOOLEAN ELSE {FALSE}] :
      /\ HasChildFds(c) \/ o.start # "started" => o.child = "running"
      /\ o.child = "running" => ~o.output }

(* The part of _cgiClient that runs while there are no child descriptors.  *)
(* fork() returns -1 into the client's childPid when it fails.             *)
StartChild(c, o) ==
  CASE o.start = "prepare" -> StopCgiSetErrorCode(c, 500)
    [] o.start = "fork" -> StopCgiSetErrorCode([c EXCEPT !.childPid = -1], 500)
    [] OTHER -> [SetChildSocket(c) EXCEPT
                   !.childPid = 1, !.proc = o.child,
                   !.toChild = TRUE, !.fromChild = o.output,
                   !.hist.forks = IF @ = 2 THEN 2 ELSE @ + 1]

(* isAllowedCgi and _cgiClient.  Mutant: no script after an error.         *)
IsAllowedUnlessError(c) == c.cgiFlag /\ c.waitReturn = 0 /\ c.errorCode = 0

IsAllowedCgi(c) == c.cgiFlag /\ c.waitReturn = 0

CgiClient(c, o) ==
  CASE ~IsAllowedCgi(c) -> c
    [] IsAllowedCgi(c) /\ HasChildFds(c) -> WaitForChild(c, o.waitFails)
    [] IsAllowedCgi(c) /\ ~HasChildFds(c) /\ o.start # "started" ->
         StartChild(c, o)
    [] OTHER -> WaitForChild(StartChild(c, o), o.waitFails)
=============================================================================
