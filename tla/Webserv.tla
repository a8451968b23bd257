------------------------------- MODULE Webserv ------------------------------
(***************************************************************************)
(* The running server: the main loop of main.cpp over all clients, with    *)
(* the kernel, the peers, the CGI children and SIGINT around it.           *)
(*                                                                         *)
(*   while (true) { epollLoop; ioLoop; ServerManager::loop; Cgi::loop;     *)
(*                  if (shutdownServer()) break; }                         *)
(*                                                                         *)
(* The server is one thread: a step of it is one handler call for one      *)
(* client.  The environment moves between any two of its steps.  The loop  *)
(* ends by its break ("exit") or by an exception that main catches around  *)
(* it ("down").                                                            *)
(***************************************************************************)
EXTENDS Io, Cgi, ServerManager, ConnectionManager, FiniteSets

CONSTANTS
  Slots,      \* positions of the clients map (client descriptors), in order
  NoClient,   \* the value of a free position
  MaxEvents,  \* MAX_EVENTS: how many events one epoll_wait returns
  MaxConns,   \* bound: connections made during a behaviour
  MaxAge,     \* bound: how far a client's CPU time may advance
  Routes,     \* bound: what _isCgi may answer about a request
  Signals     \* the signals the operator may send: a subset of {"SIGINT"}

ASSUME SlotsAssumption == Slots \subseteq Nat
ASSUME NoClientAssumption == NoClient \notin ClientRec
ASSUME BoundsAssumption ==
  /\ MaxEvents \in Nat \ {0}
  /\ MaxConns \in Nat
  /\ MaxAge \in Ages
  /\ Routes \subseteq CgiAnswers
ASSUME SignalsAssumption == Signals \subseteq {"SIGINT"}

VARIABLES
  clients,   \* Client::clients
  phase,     \* where the main loop is
  batch,     \* events of the last epoll_wait not handled yet
  todo,      \* positions the current loop has not visited yet
  flag,      \* the flag the SIGINT handler sets
  backlog,   \* connections the kernel holds for accept
  conns,     \* connections made so far
  left       \* history: what deleted clients left behind them

vars == <<clients, phase, batch, todo, flag, backlog, conns, left>>

Phases == {"prepare", "wait", "events", "io", "server", "cgi", "shutdown",
           "exit", "down"}

(* The server has ended, in one way or the other.                          *)
Over == phase \in {"exit", "down"}

Live == { s \in Slots : clients[s] # NoClient }

Listen == [slot |-> 0, fd |-> "LISTEN", send |-> FALSE, receive |-> TRUE]

ClientEvents == [slot : Slots, fd : FdTypes, send : BOOLEAN, receive : BOOLEAN]

Events == ClientEvents \cup {Listen}

Init ==
  /\ clients = [s \in Slots |-> NoClient]
  /\ phase = "prepare"
  /\ batch = {}
  /\ todo = {}
  /\ flag = 0
  /\ backlog = 0
  /\ conns = 0
  /\ left = {}

-----------------------------------------------------------------------------
(* epollLoop.                                                              *)

PrepareWait ==
  /\ phase = "prepare"
  /\ phase' = "wait"
  /\ clients' = [s \in Slots |-> IF s \in Live
                                 THEN AddChildSocketsToEpoll(clients[s])
                                 ELSE NoClient]
  /\ UNCHANGED <<batch, todo, flag, backlog, conns, left>>

Ready ==
  { e \in ClientEvents :
      /\ e.slot \in Live
      /\ LET c == clients[e.slot] IN
           /\ e.fd \in c.epoll
           /\ e.send = Writable(c, e.fd) /\ e.receive = Readable(c, e.fd)
           /\ e.send \/ e.receive }
  \cup (IF backlog > 0 THEN {Listen} ELSE {})

EpollWait ==
  /\ phase = "wait"
  /\ Ready # {}
  /\ \E b \in SUBSET Ready :
       /\ b # {}
       /\ b = Ready \/ Cardinality(b) = MaxEvents
       /\ Cardinality(b) <= MaxEvents
       /\ batch' = b
  /\ phase' = "events"
  /\ UNCHANGED <<clients, todo, flag, backlog, conns, left>>

(* The event has been handled.  Mutant: it is handled again.               *)
DoneAgain(e) == e \in batch /\ batch' = batch

Done(e) == batch' = batch \ {e}

(* _acceptNewClient.  Once the flag is set the connection stays in the     *)
(* backlog.  The new client takes the lowest free descriptor; failures of  *)
(* accept, of the constructor and of epoll_ctl leave no client.  An accept *)
(* that finds no free descriptor leaves the connection where it is.        *)
AcceptNewClient ==
  /\ phase = "events"
  /\ Listen \in batch
  /\ Done(Listen)
  /\ \/ flag # 0 /\ UNCHANGED <<clients, backlog>>
     \/ /\ flag = 0
        /\ "accept" \in Faults
        /\ backlog' \in {backlog, backlog - 1}
        /\ UNCHANGED clients
     \/ /\ flag = 0
        /\ backlog' = backlog - 1
        /\ \E s \in Slots \ Live, allocated \in BOOLEAN :
             /\ \A r \in Slots \ Live : s <= r
             /\ ~allocated => "alloc" \in Faults
             /\ clients' = [clients EXCEPT ![s] = NewClient(allocated)]
  /\ UNCHANGED <<phase, todo, flag, conns, left>>

(* A child nobody waits for any more, sent SIGKILL or not; a kill() that   *)
(* was not for the client's own child.                                     *)
LeftBy(c) ==
  { x \in {"alive", "killed", "stray"} :
      CASE x = "alive"  -> Unreaped(c) /\ c.signal # 2
        [] x = "killed" -> Unreaped(c) /\ c.signal = 2
        [] OTHER -> c.hist.stray }

(* _handleClient.  Deleting a client closes its descriptors.               *)
HandleClientEvent(e) ==
  LET c == HandleClient(clients[e.slot], flag)
  IN  /\ phase = "events"
      /\ e \in batch
      /\ e.fd = "CLIENT_FD"
      /\ e.slot \in Live
      /\ Done(e)
      /\ IF SafeToDelete(c)
         THEN /\ clients' = [clients EXCEPT ![e.slot] = NoClient]
              /\ left' = left \cup LeftBy(c)
         ELSE /\ clients' = [clients EXCEPT ![e.slot] =
                               UpdateClientFds(c, e.fd, e.send, e.receive)]
              /\ UNCHANGED left
      /\ UNCHANGED <<phase, todo, flag, backlog, conns>>

(* _handleCgiFds.  A descriptor that no client has any more is only        *)
(* logged.                                                                 *)
HandleCgiEvent(e) ==
  /\ phase = "events"
  /\ e \in batch
  /\ e.fd \in ChildFds
  /\ Done(e)
  /\ clients' =
       IF e.slot \in Live /\ clients[e.slot].fd[e.fd] # "ABSENT"
       THEN [clients EXCEPT ![e.slot] =
               HandleCgiFds(@, e.fd, e.send, e.receive)]
       ELSE clients
  /\ UNCHANGED <<phase, todo, flag, backlog, conns, left>>

EndOfBatch ==
  /\ phase = "events"
  /\ batch = {}
  /\ phase' = "io"
  /\ todo' = Live
  /\ UNCHANGED <<clients, batch, flag, backlog, conns, left>>

-----------------------------------------------------------------------------
(* The three loops over the clients, and the step from one to the next.    *)

Visit(p, s) ==
  /\ phase = p
  /\ s \in todo
  /\ \A r \in todo : s <= r
  /\ todo' = todo \ {s}
  /\ UNCHANGED <<phase, batch, flag, backlog, conns, left>>

IoStep(s) ==
  /\ Visit("io", s)
  /\ \E o \in IoOutcomes(clients[s]) :
       clients' = [clients EXCEPT ![s] = IoClient(@, o)]

ServerStep(s) ==
  /\ Visit("server", s)
  /\ \E q \in ServerOutcomes(clients[s]) :
       /\ q.cgi \in Routes \cup {"no"}
       /\ clients' = [clients EXCEPT ![s] = ServeClient(@, q)]

CgiStep(s) ==
  /\ Visit("cgi", s)
  /\ \E o \in CgiOutcomes(clients[s]) :
       clients' = [clients EXCEPT ![s] = CgiClient(@, o)]

(* An exception other than bad_alloc leaves the loop while it is at client *)
(* s.  main deletes all clients, closes its sockets and returns 1; it does *)
(* not signal the children.                                                *)
Uncaught(p, s) ==
  /\ phase = p
  /\ s \in todo
  /\ \A r \in todo : s <= r
  /\ phase' = "down"
  /\ clients' = [r \in Slots |-> NoClient]
  /\ left' = left \cup UNION { LeftBy(clients[r]) : r \in Live }
  /\ batch' = {}
  /\ todo' = {}
  /\ UNCHANGED <<flag, backlog, conns>>

IoThrow(s) ==
  /\ Uncaught("io", s)
  /\ \E o \in IoOutcomes(clients[s]) : IoThrows(clients[s], o)

ServerThrow(s) ==
  /\ Uncaught("server", s)
  /\ \E q \in ServerOutcomes(clients[s]) :
       q.cgi \in Routes \cup {"no"} /\ ServerThrows(clients[s], q)

NextLoop ==
  /\ phase \in {"io", "server", "cgi"}
  /\ todo = {}
  /\ phase' = CASE phase = "io" -> "server"
                [] phase = "server" -> "cgi"
                [] OTHER -> "shutdown"
  /\ todo' = IF phase = "cgi" THEN {} ELSE Live
  /\ UNCHANGED <<clients, batch, flag, backlog, conns, left>>

(* shutdownServer.  MarkAll is its loop; mutant: clients that are being    *)
(* answered are left to finish.                                            *)
MarkRequests ==
  [s \in Slots |-> IF s \in Live /\ clients[s].clientState = DO_REQUEST
                   THEN SetClientState(clients[s], DELETEME) ELSE clients[s]]

MarkAll ==
  [s \in Slots |-> IF s \in Live THEN SetClientState(clients[s], DELETEME)
                                  ELSE clients[s]]

(* Its result.  Mutants: without asking for clients; only in the turn that *)
(* sees the signal first.                                                  *)
MayExitAtOnce == flag # 0

MayExitFirst == flag = 1 /\ Live = {}

MayExit == flag # 0 /\ Live = {}

ShutdownServer ==
  /\ phase = "shutdown"
  /\ clients' = IF flag = 1 THEN MarkAll ELSE clients
  /\ flag' = IF flag = 1 THEN 2 ELSE flag
  /\ phase' = IF MayExit THEN "exit" ELSE "prepare"
  /\ UNCHANGED <<batch, todo, backlog, conns, left>>

Server ==
  \/ PrepareWait \/ EpollWait \/ AcceptNewClient \/ EndOfBatch
  \/ NextLoop \/ ShutdownServer
  \/ \E e \in batch : HandleClientEvent(e) \/ HandleCgiEvent(e)
  \/ \E s \in todo : IoStep(s) \/ ServerStep(s) \/ CgiStep(s)
  \/ \E s \in todo : IoThrow(s) \/ ServerThrow(s)

-----------------------------------------------------------------------------
(* The environment.  It moves at any time; a move is only offered in the   *)
(* phases that look at what it changes, because it commutes with the steps *)
(* of the other phases.                                                    *)

Connect ==
  /\ phase = "wait"
  /\ conns < MaxConns
  /\ Cardinality(Live) + backlog < Cardinality(Slots)
  /\ backlog' = backlog + 1
  /\ conns' = conns + 1
  /\ UNCHANGED <<clients, phase, batch, todo, flag, left>>

(* SIGINT interrupts an epoll_wait that is blocked; otherwise it only sets *)
(* the flag.                                                               *)
Sigint ==
  /\ "SIGINT" \in Signals
  /\ flag = 0
  /\ ~Over
  /\ flag' = 1
  /\ IF phase = "wait" /\ Ready = {}
     THEN phase' = "io" /\ todo' = Live
     ELSE UNCHANGED <<phase, todo>>
  /\ UNCHANGED <<clients, batch, backlog, conns, left>>

ChangeClient(s, c) ==
  /\ clients' = [clients EXCEPT ![s] = c]
  /\ UNCHANGED <<phase, batch, todo, flag, backlog, conns, left>>

(* CPU time passes while the server runs, not while it is blocked.         *)
Tick(s) ==
  /\ phase \in {"events", "server", "cgi"}
  /\ clients[s].age < MaxAge
  /\ ChangeClient(s, [clients[s] EXCEPT !.age = @ + 1])

(* What the peer sends after its request is never read: left out.          *)
PeerSends(s) ==
  \E i \in {"data", "eof", "error"} :
    /\ phase \in {"wait", "io"}
    /\ clients[s].in = "idle"
    /\ i = "eof" => "eof" \in Faults
    /\ i = "error" => "net" \in Faults
    /\ i = "data" => clients[s].clientState = DO_REQUEST
    /\ ChangeClient(s, [clients[s] EXCEPT !.in = i])

PeerReads(s) ==
  /\ phase \in {"wait", "io"}
  /\ ~clients[s].out
  /\ ChangeClient(s, [clients[s] EXCEPT !.out = TRUE])

ChildReads(s) ==
  /\ phase \in {"wait", "io"}
  /\ clients[s].proc = "running" /\ ~clients[s].toChild
  /\ ChangeClient(s, [clients[s] EXCEPT !.toChild = TRUE])

ChildWrites(s) ==
  /\ phase \in {"wait", "events", "io", "cgi"}
  /\ clients[s].proc = "running" /\ ~clients[s].fromChild
  /\ ChangeClient(s, [clients[s] EXCEPT !.fromChild = TRUE])

(* A child may end in any way at any time; SIGTERM may be caught or        *)
(* ignored, SIGKILL may not.                                               *)
ChildEnds(s) ==
  \E status \in Ended :
    /\ phase \in {"wait", "events", "io", "cgi"}
    /\ clients[s].proc = "running"
    /\ clients[s].signal = 0 => status \in Endings
    /\ clients[s].signal = 2 => status = "signaled"
    /\ ChangeClient(s, [clients[s] EXCEPT !.proc = status])

Environment ==
  \/ Connect
  \/ Sigint
  \/ \E s \in Live : \/ Tick(s) \/ PeerSends(s) \/ PeerReads(s)
                     \/ ChildReads(s) \/ ChildWrites(s) \/ ChildEnds(s)

Next == Server \/ Environment

Spec == Init /\ [][Next]_vars

(* Scheduling.  The thread keeps running; every turn of the loop costs CPU *)
(* time, so the clock of a client that is looked at again and again        *)
(* advances; a child that got SIGKILL ends; the peer reads what is sent; a *)
(* message is finite, so a send repeated for ever goes out whole.          *)
SendsWhole(s) ==
  /\ Visit("io", s)
  /\ Sends(clients[s])
  /\ \E o \in SendOutcomes :
       o.whole /\ clients' = [clients EXCEPT ![s] = IoClient(@, o)]

FairSpec ==
  /\ Spec
  /\ WF_vars(Server)
  /\ \A s \in Slots :
       /\ SF_vars(s \in Live /\ Tick(s))
       /\ SF_vars(s \in Live /\ PeerReads(s))
       /\ SF_vars(s \in Live /\ SendsWhole(s))
       /\ WF_vars(s \in Live /\ clients[s].signal = 2 /\ ChildEnds(s))

-----------------------------------------------------------------------------
(* Types.                                                                  *)

(* Every variable, and every field of every client, stays in its range.    *)
TypeOK ==
  /\ clients \in [Slots -> ClientRec \cup {NoClient}]
  /\ phase \in Phases
  /\ batch \subseteq Events
  /\ todo \subseteq Slots
  /\ flag \in 0..2
  /\ backlog \in Nat
  /\ conns \in 0..MaxConns
  /\ left \subseteq {"alive", "killed", "stray"}

-----------------------------------------------------------------------------
(* What the handlers rely on without asking.                               *)

(* ServerManager::loop, generateClientResponse and the handlers below them *)
(* dereference the header of a message without a test: it is there         *)
(* whenever they get that far.                                             *)
HeadersPresent ==
  \A s \in Live :
    LET c == clients[s] IN
      phase = "server" /\ s \in todo /\ c.clientState # DELETEME =>
        /\ HeadComplete(c) => c.msg["REQ_MSG"].header
        /\ c.clientState = DO_RESPONSE /\ ~NotYet(c) /\ ~AnswersItself(c)
             => c.msg["RESP_MSG"].header

(* getFdDataByType falls back on the client's own descriptor: _ioClient    *)
(* only asks for a child descriptor when there is one, so it never sends   *)
(* the request back to the peer nor takes the peer's bytes for CGI output. *)
ChildFdsPresent ==
  \A s \in Live :
    phase = "io" /\ clients[s].clientState \in {DO_CGISEND, DO_CGIREC} =>
      HasChildFds(clients[s])

(* An event of the batch names a descriptor that is still in epoll when    *)
(* its turn comes: no event is applied to a descriptor that an earlier     *)
(* event of the batch closed.  (One connection: a position taken again by  *)
(* accept in the same batch is another matter.)                            *)
EventsNameOpenFds ==
  \A e \in batch :
    e # Listen /\ e.slot \in Live => e.fd \in clients[e.slot].epoll

-----------------------------------------------------------------------------
(* The CGI child.                                                          *)

(* While a child has not been reaped the client says so: the flag, the pid *)
(* and waitReturn that every other handler decides by agree with the       *)
(* process, whatever timeouts, errors and signals happen meanwhile.        *)
CgiFlagTracksChild ==
  \A s \in Live :
    LET c == clients[s] IN
      Unreaped(c) => c.cgiFlag /\ c.waitReturn = 0 /\ c.childPid = 1

(* While the loop runs, a client is only deleted once its child was reaped *)
(* or sent SIGKILL: a script never outlives the connection that started    *)
(* it, unless an uncaught exception ends the server.                       *)
NoChildLeftAlive == phase # "down" => "alive" \notin left

(* kill() is only called with the pid of this client's own child while     *)
(* that child has not been reaped: never with -1, and never with a pid the *)
(* system may have given to another process.                               *)
SignalsOwnChild ==
  "stray" \notin left /\ \A s \in Live : ~clients[s].hist.stray

(* One request starts at most one script.                                  *)
OneChild == \A s \in Live : clients[s].hist.forks <= 1

(* The script gets the whole body of the request before its output is      *)
(* read.                                                                   *)
BodyDeliveredWhole ==
  \A s \in Live : clients[s].clientState = DO_CGIREC =>
                    clients[s].msg["REQ_MSG"].it = "end"

-----------------------------------------------------------------------------
(* The answer.                                                             *)

(* A client's answer is made once.                                         *)
AnsweredOnce == \A s \in Live : clients[s].hist.generated <= 1

(* CGI output only becomes the answer when the script was reaped with exit *)
(* status 0 and all it wrote has been read, up to the end it announced     *)
(* itself where it did.                                                    *)
CgiForwardedOnSuccess ==
  \A s \in Live :
    LET c == clients[s] IN
      c.msg["RESP_MSG"].kind = "cgi" => c.proc = "reaped0" /\ (CgiFrames \/ ~c.fromChild)

(* What goes out to the peer is a response this server made or converted,  *)
(* never a script's output as it was received.                             *)
OnlyGeneratedSent == \A s \in Live : ~clients[s].hist.rawSent

(* The handlers that store, delete or read files run on a part of a        *)
(* request in two cases only: the peer closed its side, so that the part   *)
(* is all there will be (setFinishedReceiving takes it for the whole), or  *)
(* SIGINT came.  Never because of a timeout, a refusal or a failure.       *)
PartOnlyAtEnd ==
  \A s \in Live :
    clients[s].hist.earlySideEffect => clients[s].hist.cut \/ flag # 0

(* A client for which a script ran and that is answered by the server      *)
(* itself gets an error: its script did not produce an answer.             *)
CgiTimeoutAnsweredWithError ==
  \A s \in Live :
    LET c == clients[s] IN
      c.msg["RESP_MSG"].kind \in {"own", "mixed"} /\ c.hist.forks > 0 =>
        c.errorCode # 0

-----------------------------------------------------------------------------
(* Descriptor readiness.                                                   *)

(* recv is only called on a descriptor that has something for it.          *)
RecvOnlyWhenReadable == \A s \in Live : ~clients[s].hist.idleRecv

-----------------------------------------------------------------------------
(* Steps.                                                                  *)

(* A client recorded as failed stays failed until it is deleted: no later  *)
(* handler, and no header parsed later, turns its error back into success. *)
ErrorIsFinal ==
  [][\A s \in Live : /\ clients[s].errorCode # 0
                     /\ clients'[s] # NoClient
                     => clients'[s].errorCode # 0]_vars

(* Once the answer is made, what is sent is that answer: output of a child *)
(* still running, or bytes of the peer, no longer reach the message.       *)
AnswerIsFinal ==
  [][\A s \in Live :
       LET old == clients[s].msg["RESP_MSG"]
           new == clients'[s].msg["RESP_MSG"]
       IN  clients[s].hist.generated = 1 /\ clients'[s] # NoClient =>
             /\ new.kind = old.kind
             /\ new.body = old.body
             /\ old.it # "head" => new.it # "head"]_vars

-----------------------------------------------------------------------------
(* Shutdown and progress.                                                  *)

(* When the shutdown has begun no client works on, and none is accepted.   *)
ShutdownMarksAll ==
  flag = 2 => \A s \in Live : clients[s].clientState >= DELETEME

(* shutdownServer only ends the loop when the operator asked for it, with  *)
(* no client connected and no script left behind alive.                    *)
ExitIsClean == phase = "exit" => flag # 0 /\ Live = {} /\ "alive" \notin left

(* Every client is deleted in the end, whatever its script does, because   *)
(* its time runs out.                                                      *)
ClientsLeave == \A s \in Slots : s \in Live ~> s \notin Live

(* A SIGINT that arrives while clients are connected ends the server.      *)
ShutdownCompletes == flag # 0 /\ Live # {} ~> Over

-----------------------------------------------------------------------------
(* What all this is for: module Connection.                                *)

ScriptSeen(c) ==
  CASE c.proc = "none" -> "none"
    [] Unreaped(c) -> "running"
    [] c.proc = "reaped0" -> "succeeded"
    [] c.proc = "reapedN" -> "failed"

AnswerSeen(c) ==
  CASE c.hist.generated = 0 -> "none"
    [] c.hist.generated = 1 ->
         CASE c.msg["RESP_MSG"].kind = "cgi" -> "script"
           [] c.msg["RESP_MSG"].kind = "raw" -> "lost"
           [] OTHER -> "own"
    [] c.hist.generated = 2 -> "another"

ScriptsSeen ==
  [s \in Slots |-> IF s \in Live THEN ScriptSeen(clients[s]) ELSE "none"]

AnswersSeen ==
  [s \in Slots |-> IF s \in Live THEN AnswerSeen(clients[s]) ELSE "none"]

ModeSeen ==
  CASE Over -> "over"
    [] ~Over /\ flag = 0 -> "open"
    [] ~Over /\ flag = 1 -> "asked"
    [] ~Over /\ flag = 2 -> "closing"

Promise == INSTANCE Connection
             WITH connected <- Live, script <- ScriptsSeen,
                  answer <- AnswersSeen, behind <- "alive" \in left,
                  mode <- ModeSeen

(* Loops, events, timeouts and signals in whatever order never show: every *)
(* step of the server is one a connection was promised, or shows nothing.  *)
KeepsPromise == Promise!Spec
=============================================================================
