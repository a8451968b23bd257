------------------------------- MODULE Client -------------------------------
(***************************************************************************)
(* The Client object of the server (srcs_new/Client): one accepted         *)
(* connection, the two messages it owns, its file descriptors and the CGI  *)
(* child started for it.  The operators of this module and of Io, Cgi,     *)
(* ServerManager and ConnectionManager take a client record and return the *)
(* record the C++ function leaves behind; module Webserv owns the          *)
(* variables and runs them in the order of the main loop.                  *)
(*                                                                         *)
(* A record also carries what the kernel knows of the connection (what is  *)
(* readable and writable, what became of the child) and a history, hist,   *)
(* on which nothing but later history depends.                             *)
(***************************************************************************)
EXTENDS Integers

CONSTANTS
  Faults,     \* the failures of the environment that may happen
  Refusals,   \* bound: what may be wrong with a request
  Endings,    \* bound: how a child may end when no signal was sent to it
  Throws,     \* bound: the exceptions nobody catches that may be thrown
  CgiFrames   \* TRUE: a CGI script may delimit its own output
              \* (Content-Length or chunked)

FaultKinds ==
  {"eof", "alloc", "fork", "waitpid", "net", "accept", "sockname"}

RefusalKinds == {"header", "server", "allowed", "limit"}

(* Exceptions that leave main's loop.  "host": the port in the Host field  *)
(* is not a number that fits (stringToSizeT); "status": the same of the    *)
(* Status field of a script's output; "target": the target does not begin  *)
(* with "/", so no location is ever found (getDirName); "answer": a file   *)
(* vanishes while it is looked at, a code has no phrase (Service has both).*)
ThrowKinds == {"host", "status", "target", "answer"}

ASSUME FaultsAssumption == Faults \subseteq FaultKinds
ASSUME RefusalsAssumption == Refusals \subseteq RefusalKinds
ASSUME EndingsAssumption == Endings \subseteq {"exit0", "exitN", "signaled"}
ASSUME ThrowsAssumption == Throws \subseteq ThrowKinds
ASSUME CgiFramesAssumption == CgiFrames \in BOOLEAN

-----------------------------------------------------------------------------
(* Client::e_clientState: an order, setClientState only moves up it.       *)

DO_REQUEST     == 0
DO_CGISEND     == 1
DO_CGIREC      == 2
DO_RESPONSE    == 3
CRITICAL_ERROR == 4
DELETEME       == 5
RESETME        == 6

ClientStates == DO_REQUEST .. RESETME

(* FdData.  "ABSENT": the vector holds no entry of that type.              *)
FdTypes   == {"CLIENT_FD", "TOCHILD_FD", "FROMCHILD_FD"}
ChildFds  == {"TOCHILD_FD", "FROMCHILD_FD"}
FdStates  == {"ABSENT", "NEW", "NONE", "R_RECEIVE", "R_SEND", "R_SENDREC",
              "CLOSE", "CLOSED"}
MsgTypes  == {"REQ_MSG", "RESP_MSG"}
MsgStates == {"INCOMPLETE", "COMPLETE", "ERROR"}

(* The first node of a message: nothing yet, an unfinished header, an      *)
(* unfinished header with a complete line that checkHeaderByLine refuses,  *)
(* a node whose state is COMPLETE.                                         *)
HeadStates == {"empty", "partial", "bad", "complete"}

(* What the chain of a message holds: bytes as they were received, a       *)
(* response made by this server, CGI output behind a header made by this   *)
(* server, both of these.                                                  *)
Kinds == {"raw", "own", "cgi", "mixed"}

(* 403 stands for every refusal of a well-formed request (403, 404, 405,   *)
(* 413, 505).                                                              *)
ErrorCodes == {0, 400, 403, 500, 502, 504}

(* CPU time since the constructor ran, against MAX_TIMEOUT: at most 1,     *)
(* more than 1, more than 1.5, more than 2 of them.                        *)
Ages == 0..3

(* The child process.  "reaped" is split by what waitpid reported.         *)
Ended     == {"exit0", "exitN", "signaled"}
Reaped    == {"reaped0", "reapedN"}
ProcState == {"none", "running"} \cup Ended \cup Reaped

Message == [state : MsgStates, head : HeadStates, header : BOOLEAN,
            body : BOOLEAN, it : {"head", "body", "end"}, kind : Kinds]

History == [generated : 0..2, forks : 0..2, stray : BOOLEAN,
            rawSent : BOOLEAN, cut : BOOLEAN, earlySideEffect : BOOLEAN,
            idleRecv : BOOLEAN, fullSend : BOOLEAN]

ClientRec ==
  [clientState : ClientStates, errorCode : ErrorCodes, cgiFlag : BOOLEAN,
   waitReturn : -1..1, childPid : -1..1, signalSent : 0..2,
   isRequestChecked : BOOLEAN, virtualServer : BOOLEAN,
   fd : [FdTypes -> FdStates], msg : [MsgTypes -> Message],
   age : Ages, epoll : SUBSET FdTypes,
   proc : ProcState, signal : 0..2,
   in : {"idle", "data", "eof", "error"}, out : BOOLEAN,
   toChild : BOOLEAN, fromChild : BOOLEAN,
   hist : History]

-----------------------------------------------------------------------------
(* Setters and queries.                                                    *)

SetClientState(c, s) ==
  IF s <= c.clientState THEN c ELSE [c EXCEPT !.clientState = s]

SetErrorCode(c, e) == [c EXCEPT !.errorCode = e]

(* The child has been started and waitpid has not reported its end.        *)
Unreaped(c) == c.proc \in {"running"} \cup Ended

(* Mutant: a closed socket counts as none.                                 *)
HasOpenChildFds(c) == c.fd["TOCHILD_FD"] \notin {"ABSENT", "CLOSED"}

HasChildFds(c) == c.fd["TOCHILD_FD"] # "ABSENT"

(* getFdDataByType: the first entry of the vector when there is none of    *)
(* that type.                                                              *)
FdDataByType(c, t) == IF c.fd[t] = "ABSENT" THEN "CLIENT_FD" ELSE t

SetFd(c, t, s) == [c EXCEPT !.fd[t] = s]

SetChildSocket(c) ==
  [c EXCEPT !.fd["TOCHILD_FD"] = "NEW", !.fd["FROMCHILD_FD"] = "NEW"]

(* checkTimeout(k * MAX_TIMEOUT) == false, for k = 1, 1.5 and 2.           *)
TimedOut(c)      == c.age >= 1
TimedOutHalf(c)  == c.age >= 2
TimedOutTwice(c) == c.age >= 3

EmptyMessage == [state |-> "INCOMPLETE", head |-> "empty", header |-> FALSE,
                 body |-> FALSE, it |-> "head", kind |-> "raw"]

NoHistory == [generated |-> 0, forks |-> 0, stray |-> FALSE,
              rawSent |-> FALSE, cut |-> FALSE, earlySideEffect |-> FALSE,
              idleRecv |-> FALSE, fullSend |-> FALSE]

(* The constructor.  A message that cannot be allocated makes the client   *)
(* DELETEME.                                                               *)
NewClient(allocated) ==
  [clientState |-> IF allocated THEN DO_REQUEST ELSE DELETEME,
   errorCode |-> 0, cgiFlag |-> FALSE, waitReturn |-> 0, childPid |-> 0,
   signalSent |-> 0, isRequestChecked |-> FALSE, virtualServer |-> FALSE,
   fd |-> [t \in FdTypes |-> IF t = "CLIENT_FD" THEN "NEW" ELSE "ABSENT"],
   msg |-> [m \in MsgTypes |-> EmptyMessage],
   age |-> 0, epoll |-> {"CLIENT_FD"}, proc |-> "none", signal |-> 0,
   in |-> "idle", out |-> TRUE, toChild |-> TRUE, fromChild |-> FALSE,
   hist |-> NoHistory]

-----------------------------------------------------------------------------
(* Message operations used by several components.                          *)

(* Message::createHeader: the parsers of the header write the client's     *)
(* error code through a reference.  r is what they find: 0, nothing wrong. *)
(* A request header that never completed is always refused with 400; CGI   *)
(* output without a header, or received after an error, always gives 502.  *)
(* Instead of finding anything a parser may throw (HeaderThrows).          *)
HeaderResults == {0, 400, 403, 500}

HeaderVerdicts == IF "header" \in Refusals THEN HeaderResults ELSE {0}

HeaderError(c, m, r) ==
  IF m = "REQ_MSG"
  THEN IF c.msg[m].head # "complete" THEN 400
       ELSE IF r = 0 THEN c.errorCode ELSE r
  ELSE IF r = 0 /\ c.errorCode = 0 /\ c.msg[m].head # "empty" THEN 0 ELSE 502

CreateHeader(c, m, r) ==
  IF c.msg[m].header THEN c
  ELSE [c EXCEPT !.msg[m].header = TRUE, !.errorCode = HeaderError(c, m, r)]

(* The constructor of the header throws something other than bad_alloc: a  *)
(* whole request header at its Host field, any header of a script at its   *)
(* Status field, which is only looked at while there is no error.          *)
HeaderThrows(c, m) ==
  /\ ~c.msg[m].header
  /\ \/ m = "REQ_MSG" /\ "host" \in Throws /\ c.msg[m].head = "complete"
     \/ /\ m = "RESP_MSG" /\ "status" \in Throws
        /\ c.msg[m].head # "empty" /\ c.errorCode = 0

(* What one buffer of received bytes may make of a message (bufferToNodes):*)
(* the header gets further, completes, a body starts, the message          *)
(* completes or turns out malformed.                                       *)
ParseResult == [head : HeadStates, state : MsgStates, body : BOOLEAN]

NoBytes == [head |-> "empty", state |-> "INCOMPLETE", body |-> FALSE]

Parsed(msg, m) ==
  { p \in ParseResult :
      /\ p.head # "empty"
      /\ p.head = "bad" => "header" \in Refusals
      /\ msg.head = "complete" => p.head = "complete" /\ p.body
      /\ msg.head = "bad" => p.head \in {"bad", "complete"}
      /\ p.head # "complete" => p.state = "INCOMPLETE" /\ ~p.body
      /\ m = "RESP_MSG" =>
           /\ p.head # "bad"
           /\ p.state # "INCOMPLETE" => CgiFrames /\ p.body }
=============================================================================
