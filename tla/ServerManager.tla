---------------------------- MODULE ServerManager ---------------------------
(***************************************************************************)
(* The request side of the server: ServerManager::loop                     *)
(* (srcs_new/Server/ServerManager.cpp), which decides what to do with a    *)
(* request once its header is complete, and generateClientResponse         *)
(* (srcs_new/Server/ResponseGenerator.cpp).  Which server, location and    *)
(* file a request names is input here: q holds what those lookups answer.  *)
(***************************************************************************)
EXTENDS Client

CgiAnswers == {"no", "unsupported", "badPathInfo", "badExtension", "yes"}

ServerOutcome ==
  [server : {"match", "none", "sockname"},
   allowed : {"yes", "refused", "badLength"},
   limit : BOOLEAN,
   cgi : CgiAnswers,
   alloc : BOOLEAN, page : BOOLEAN]

(* _assignVirtualServer.  Mutant: the error code becomes what the lookup   *)
(* answered, also when it answered that all is well.                       *)
AssignVirtualServerAnew(c, q) ==
  LET d == [c EXCEPT !.virtualServer = TRUE]
  IN  CASE c.virtualServer -> c
        [] ~c.virtualServer /\ c.errorCode = 400 -> d
        [] OTHER -> SetErrorCode(d, CASE q.server = "none" -> 400
                                      [] q.server = "sockname" -> 500
                                      [] OTHER -> 0)

AssignVirtualServer(c, q) ==
  LET d == [c EXCEPT !.virtualServer = TRUE]
  IN  CASE c.virtualServer -> c
        [] ~c.virtualServer /\ c.errorCode = 400 -> d
        [] ~c.virtualServer /\ c.errorCode # 400 /\ q.server = "none" ->
             SetErrorCode(d, 400)
        [] ~c.virtualServer /\ c.errorCode # 400 /\ q.server = "sockname" ->
             SetErrorCode(d, 500)
        [] OTHER -> d

(* _checkIfRequestAllowed, and what the loop does with its answer.         *)
CheckIfRequestAllowed(c, q) ==
  LET d == CASE c.errorCode # 0 \/ q.allowed = "yes" -> c
             [] c.errorCode = 0 /\ q.allowed = "refused" -> SetErrorCode(c, 403)
             [] OTHER -> SetErrorCode(c, 400)
      e == IF d.errorCode = 0 THEN d ELSE SetClientState(d, DO_RESPONSE)
  IN  IF c.isRequestChecked THEN c ELSE [e EXCEPT !.isRequestChecked = TRUE]

(* _checkBodySizeLimit, asked while the request is still being received.   *)
(* Mutant: a body over the limit gets no error code.                       *)
CheckBodySizeLimitSilent(c, q) ==
  CASE c.clientState # DO_REQUEST \/ (c.errorCode = 0 /\ q.limit) -> c
    [] OTHER -> SetClientState(c, DO_RESPONSE)

CheckBodySizeLimit(c, q) ==
  CASE c.clientState # DO_REQUEST \/ (c.errorCode = 0 /\ q.limit) -> c
    [] c.clientState = DO_REQUEST /\ c.errorCode # 0 ->
         SetClientState(c, DO_RESPONSE)
    [] OTHER -> SetClientState(SetErrorCode(c, 403), DO_RESPONSE)

(* _isCgi with _parseCgiURLInfo, _setCgiPathInfo and                       *)
(* _isSupportedScriptExtenstion.  A path info that is not valid sets 502   *)
(* and the request is a CGI request all the same.                          *)
StartCgiOrRespond(c, q) ==
  LET d == CASE q.cgi \in {"unsupported", "badPathInfo"} ->
                  SetErrorCode(c, 502)
             [] q.cgi = "badExtension" -> SetErrorCode(c, 403)
             [] OTHER -> c
  IN  CASE ~(/\ c.clientState = DO_REQUEST
             /\ c.msg["REQ_MSG"].state = "COMPLETE") -> c
        [] /\ c.clientState = DO_REQUEST
           /\ c.msg["REQ_MSG"].state = "COMPLETE"
           /\ q.cgi \in {"yes", "badPathInfo"} ->
             SetClientState([d EXCEPT !.cgiFlag = TRUE], DO_CGISEND)
        [] OTHER -> SetClientState(d, DO_RESPONSE)

-----------------------------------------------------------------------------
(* generateClientResponse.  The handlers behind an own response with       *)
(* errorCode 0 read, store or delete the file the request names.           *)
(* Mutants of the first test: half of it each.                             *)
NotYetWaiting(c) == c.cgiFlag /\ c.waitReturn = 0

NotYetDone(c) == c.msg["RESP_MSG"].state = "COMPLETE" /\ ~c.cgiFlag

NotYet(c) ==
  \/ c.msg["RESP_MSG"].state = "COMPLETE" /\ ~c.cgiFlag
  \/ c.cgiFlag /\ c.waitReturn = 0

(* Mutant: the error code is not looked at.                                *)
AnswersItselfInTime(c) == ~c.cgiFlag \/ TimedOut(c)

AnswersItself(c) == ~c.cgiFlag \/ c.errorCode # 0 \/ TimedOut(c)

OwnKind(c) ==
  IF c.errorCode = 0 /\ c.msg["RESP_MSG"].body THEN "mixed" ELSE "own"

GenerateClientResponse(c, q) ==
  LET once == [c EXCEPT
        !.cgiFlag = FALSE, !.msg["RESP_MSG"].it = "head",
        !.hist.generated = IF @ = 2 THEN 2 ELSE @ + 1,
        !.hist.earlySideEffect =
           @ \/ (/\ AnswersItself(c) /\ c.errorCode = 0
                 /\ c.msg["REQ_MSG"].state # "COMPLETE" \/ c.hist.cut)]
      done == [once EXCEPT !.msg["RESP_MSG"].state = "COMPLETE"]
  IN  CASE NotYet(c) -> c
        [] ~NotYet(c) /\ q.alloc -> SetClientState(once, DELETEME)
        [] ~NotYet(c) /\ ~q.alloc /\ AnswersItself(c) ->
             [done EXCEPT !.msg["RESP_MSG"].kind = OwnKind(c),
                          !.msg["RESP_MSG"].header = TRUE,
                          !.msg["RESP_MSG"].body = q.page]
        [] OTHER -> [done EXCEPT !.msg["RESP_MSG"].kind = "cgi"]

-----------------------------------------------------------------------------
(* The body of ServerManager::loop for one client.                         *)
(* Mutant of the loop's first test: any header will do.                    *)
HeadStarted(c) == c.msg["REQ_MSG"].head # "empty"

HeadComplete(c) == c.msg["REQ_MSG"].head = "complete"

Failed(c) == IF c.errorCode = 0 THEN c ELSE SetClientState(c, DO_RESPONSE)

Assigned(c, q) == AssignVirtualServer(Failed(c), q)

Routed(c, q) ==
  LET checked == CheckIfRequestAllowed(Assigned(c, q), q)
  IN  StartCgiOrRespond(CheckBodySizeLimit(checked, q), q)

ServeClient(c, q) ==
  CASE c.clientState = DELETEME -> c
    [] c.clientState # DELETEME /\ ~HeadComplete(Failed(c)) -> Failed(c)
    [] OTHER -> IF Routed(c, q).clientState = DO_RESPONSE
                THEN GenerateClientResponse(Routed(c, q), q)
                ELSE Routed(c, q)

(* It throws something other than bad_alloc: _checkIfRequestAllowed, which *)
(* looks for the location first, or the making of an answer of its own.    *)
ServerThrows(c, q) ==
  /\ c.clientState # DELETEME
  /\ HeadComplete(c)
  /\ \/ /\ "target" \in Throws
        /\ Assigned(c, q).errorCode = 0 /\ ~c.isRequestChecked
     \/ /\ "answer" \in Throws /\ ~q.alloc
        /\ Routed(c, q).clientState = DO_RESPONSE
        /\ ~NotYet(Routed(c, q)) /\ AnswersItself(Routed(c, q))

Idle == [server |-> "match", allowed |-> "yes", limit |-> TRUE,
         cgi |-> "no", alloc |-> FALSE, page |-> TRUE]

(* Only the lookups that the call makes are left open.                     *)
ServerOutcomes(c) ==
  { q \in ServerOutcome :
      /\ q.server = "sockname" => "sockname" \in Faults
      /\ q.alloc => "alloc" \in Faults
      /\ q.server # "match" => "server" \in Refusals
      /\ q.allowed # "yes" => "allowed" \in Refusals
      /\ ~q.limit => "limit" \in Refusals
      /\ ~HeadComplete(c) \/ c.clientState = DELETEME => q = Idle
      /\ c.virtualServer => q.server = "match"
      /\ c.isRequestChecked => q.allowed = "yes"
      /\ c.clientState # DO_REQUEST => q.limit /\ q.cgi = "no"
      /\ c.msg["REQ_MSG"].state # "COMPLETE" => q.cgi = "no" }
=============================================================================
