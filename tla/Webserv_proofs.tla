--------------------------- MODULE Webserv_proofs ---------------------------
(***************************************************************************)
(* What is proved of the server for every value of the constants of        *)
(* Webserv: its type invariant, the accounting of the CGI children, the    *)
(* clean shutdown, and what holds of a client over its whole life: it      *)
(* starts one script at most and gets one answer, an error recorded for it *)
(* is never forgotten, and no signal sent for it reaches another process.  *)
(***************************************************************************)
EXTENDS Webserv, ClientLemmas

(* What TypeOK needs to be inductive: the loops visit clients that exist,  *)
(* events are only left while a batch is handled, and an event of the      *)
(* listening socket stands for a connection that is still there.           *)
LoopOK ==
  /\ todo \subseteq Live
  /\ phase \notin {"io", "server", "cgi"} => todo = {}
  /\ phase # "events" => batch = {}
  /\ Listen \in batch => backlog > 0

IInv == TypeOK /\ LoopOK

LEMMA LiveClients ==
  ASSUME TypeOK
  PROVE  /\ Live \subseteq Slots
         /\ \A s \in Live : clients[s] \in ClientRec
         /\ \A s \in Slots \ Live : clients[s] = NoClient
BY DEF Live, TypeOK

(* The listening socket is not a client's descriptor.                      *)
LEMMA ListenApart == Listen \notin ClientEvents
BY DEF Listen, ClientEvents, FdTypes

LEMMA ClientChanged ==
  ASSUME IInv, NEW s \in Live, NEW c \in ClientRec,
         clients' = [clients EXCEPT ![s] = c]
  PROVE  /\ clients' \in [Slots -> ClientRec \cup {NoClient}]
         /\ Live' = Live
<1>1. clients \in [Slots -> ClientRec \cup {NoClient}] /\ s \in Slots
  BY LiveClients DEF IInv, TypeOK
<1>2. c # NoClient
  BY NoClientAssumption
<1>3. clients' \in [Slots -> ClientRec \cup {NoClient}]
  BY <1>1
<1>4. \A r \in Slots : (clients'[r] # NoClient) <=> (clients[r] # NoClient)
  BY <1>1, <1>2 DEF Live
<1>5. QED
  BY <1>3, <1>4 DEF Live

LEMMA InitTypes == Init => IInv
<1>1. NoClient \notin ClientRec /\ MaxConns \in Nat
  BY NoClientAssumption, BoundsAssumption
<1>2. QED
  BY <1>1 DEF Init, IInv, TypeOK, LoopOK, Phases, Live

(* A step that changes one client, and of the loop's own state at most     *)
(* what is left to visit or to handle.                                     *)
LEMMA OneClientStep ==
  ASSUME IInv, NEW s \in Live, NEW c \in ClientRec,
         clients' = [clients EXCEPT ![s] = c],
         todo' \subseteq todo, batch' \subseteq batch,
         UNCHANGED <<phase, flag, backlog, conns, left>>
  PROVE  IInv'
<1>1. clients' \in [Slots -> ClientRec \cup {NoClient}] /\ Live' = Live
  BY ClientChanged
<1>2. QED
  BY <1>1 DEF IInv, TypeOK, LoopOK

LEMMA PrepareWaitTypes == ASSUME IInv, PrepareWait PROVE IInv'
<1>1. \A s \in Slots : clients'[s] \in ClientRec \cup {NoClient}
  BY LiveClients, AddChildSocketsToEpollLeaves DEF PrepareWait, IInv, Leaves
<1>2. \A s \in Slots : clients'[s] # NoClient <=> clients[s] # NoClient
  BY LiveClients, AddChildSocketsToEpollLeaves, NoClientAssumption
     DEF PrepareWait, IInv, Leaves, Live
<1>3. clients' \in [Slots -> ClientRec \cup {NoClient}] /\ Live' = Live
  BY <1>1, <1>2 DEF PrepareWait, Live
<1>4. QED
  BY <1>3 DEF PrepareWait, IInv, TypeOK, LoopOK, Phases

LEMMA EpollWaitTypes == ASSUME IInv, EpollWait PROVE IInv'
<1>1. PICK b \in SUBSET Ready : batch' = b
  BY DEF EpollWait
<1>2. Ready \subseteq Events
  BY DEF Ready, Events
<1>3. Listen \in Ready => backlog > 0
  BY ListenApart DEF Ready
<1>4. Live' = Live
  BY DEF EpollWait, Live
<1>5. QED
  BY <1>1, <1>2, <1>3, <1>4 DEF EpollWait, IInv, TypeOK, LoopOK, Phases

LEMMA NewClientType ==
  ASSUME NEW allocated \in BOOLEAN
  PROVE  NewClient(allocated) \in ClientRec
<1>1. EmptyMessage \in Message
  BY DEF EmptyMessage, Message, MsgStates, HeadStates, Kinds
<1>2. NoHistory \in History
  BY DEF NoHistory, History
<1>3. QED
  BY <1>1, <1>2, StatesOrdered
     DEF NewClient, ClientRec, ErrorCodes, FdTypes, FdStates, MsgTypes, Ages,
         ProcState, Reaped, Ended

LEMMA AcceptTypes == ASSUME IInv, AcceptNewClient PROVE IInv'
<1>1. backlog \in Nat /\ backlog > 0 /\ batch' = batch \ {Listen}
  BY DEF AcceptNewClient, Done, IInv, TypeOK, LoopOK
<1>2. CASE UNCHANGED clients
  <2>1. backlog' \in Nat
    BY <1>1 DEF AcceptNewClient
  <2>2. Live' = Live
    BY <1>2 DEF Live
  <2>3. QED
    BY <1>1, <1>2, <2>1, <2>2 DEF AcceptNewClient, IInv, TypeOK, LoopOK
<1>3. CASE clients' # clients
  <2>1. PICK s \in Slots \ Live, allocated \in BOOLEAN :
          clients' = [clients EXCEPT ![s] = NewClient(allocated)]
    BY <1>3 DEF AcceptNewClient
  <2>2. backlog' \in Nat
    BY <1>1, <1>3 DEF AcceptNewClient
  <2>3. NewClient(allocated) \in ClientRec /\ NewClient(allocated) # NoClient
    BY NewClientType, NoClientAssumption
  <2>4. clients' \in [Slots -> ClientRec \cup {NoClient}]
    BY <2>1, <2>3 DEF IInv, TypeOK
  <2>5. todo \subseteq Live'
    BY <2>1, <2>3, LiveClients DEF IInv, TypeOK, LoopOK, Live
  <2>6. QED
    BY <1>1, <2>2, <2>4, <2>5 DEF AcceptNewClient, IInv, TypeOK, LoopOK
<1>4. QED
  BY <1>2, <1>3

(* An exception that nobody catches ends the server and frees its clients. *)
LEMMA ThrowEffect ==
  ASSUME IInv, NEW s \in todo, IoThrow(s) \/ ServerThrow(s)
  PROVE  /\ phase \in {"io", "server"} /\ phase' = "down"
         /\ clients' = [r \in Slots |-> NoClient] /\ Live' = {}
         /\ batch' = {} /\ todo' = {}
         /\ UNCHANGED <<flag, backlog, conns>>
         /\ left' = left \cup UNION { LeftBy(clients[r]) : r \in Live }
BY Zenon DEF IoThrow, ServerThrow, Uncaught, Live

LEMMA ThrowTypes ==
  ASSUME IInv, NEW s \in todo, IoThrow(s) \/ ServerThrow(s) PROVE IInv'
<1>1. left' \subseteq {"alive", "killed", "stray"}
  BY ThrowEffect DEF IInv, TypeOK, LeftBy
<1>2. QED
  BY <1>1, ThrowEffect DEF IInv, TypeOK, LoopOK, Phases

LEMMA HandleClientType ==
  ASSUME NEW c \in ClientRec
  PROVE  SameButSignals(c, HandleClient(c, flag))
<1>1. SameButSignals(c, Terminate(c, flag))
  BY TerminateEffect
<1>2. QED
  BY <1>1, KillLateEffect, SameButSignalsTransitive
     DEF HandleClient, SameButSignals, SameAnswer

LEMMA HandleClientEventTypes ==
  ASSUME IInv, NEW e \in batch, HandleClientEvent(e) PROVE IInv'
<1> DEFINE c == HandleClient(clients[e.slot], flag)
           d == UpdateClientFds(c, e.fd, e.send, e.receive)
<1>1. /\ e.slot \in Live /\ e.fd = "CLIENT_FD" /\ batch' = batch \ {e}
      /\ UNCHANGED <<phase, todo, flag, backlog, conns>>
  BY DEF HandleClientEvent, Done
<1>2. c \in ClientRec /\ LeftBy(c) \subseteq {"alive", "killed", "stray"}
  BY <1>1, LiveClients, HandleClientType
     DEF IInv, SameButSignals, LeftBy, SameAnswer
<1>3. CASE SafeToDelete(c)
  <2>1. /\ clients' = [clients EXCEPT ![e.slot] = NoClient]
        /\ left' = left \cup LeftBy(c)
    BY <1>3, Zenon DEF HandleClientEvent
  <2>2. clients' \in [Slots -> ClientRec \cup {NoClient}]
    BY <2>1 DEF IInv, TypeOK
  <2>3. todo = {}
    BY DEF HandleClientEvent, IInv, LoopOK
  <2> HIDE DEF c
  <2>4. QED
    BY <1>1, <1>2, <2>1, <2>2, <2>3 DEF IInv, TypeOK, LoopOK
<1>4. CASE ~SafeToDelete(c)
  <2>1. clients' = [clients EXCEPT ![e.slot] = d] /\ left' = left
    BY <1>4, Zenon DEF HandleClientEvent
  <2>2. MaySet(c, e.fd)
    BY <1>1 DEF MaySet, FdTypes
  <2>3. d \in ClientRec
    <3> HIDE DEF c
    <3> QED BY <1>2, <2>2, UpdateClientFdsLeaves DEF Leaves
  <2> HIDE DEF d
  <2>4. QED
    BY <1>1, <2>1, <2>3, OneClientStep
<1>5. QED
  BY <1>3, <1>4

LEMMA HandleCgiEventTypes ==
  ASSUME IInv, NEW e \in batch, HandleCgiEvent(e) PROVE IInv'
<1>1. /\ e.fd \in ChildFds /\ batch' = batch \ {e}
      /\ UNCHANGED <<phase, todo, flag, backlog, conns, left>>
  BY DEF HandleCgiEvent, Done
<1>2. CASE UNCHANGED clients
  <2>1. Live' = Live
    BY <1>2 DEF Live
  <2>2. QED
    BY <1>1, <1>2, <2>1 DEF IInv, TypeOK, LoopOK
<1>3. CASE e.slot \in Live /\ clients[e.slot].fd[e.fd] # "ABSENT"
  <2> DEFINE d == HandleCgiFds(clients[e.slot], e.fd, e.send, e.receive)
  <2>1. clients' = [clients EXCEPT ![e.slot] = d]
    BY <1>3 DEF HandleCgiEvent
  <2>2. MaySet(clients[e.slot], e.fd)
    BY <1>1, <1>3 DEF MaySet, HasChildFds, ChildFds, FdTypes
  <2>3. d \in ClientRec
    BY <1>3, <2>2, LiveClients, HandleCgiFdsLeaves DEF IInv, Leaves
  <2> HIDE DEF d
  <2>4. QED
    BY <1>1, <1>3, <2>1, <2>3, OneClientStep
<1>4. QED
  BY <1>2, <1>3 DEF HandleCgiEvent

LEMMA EndOfBatchTypes == ASSUME IInv, EndOfBatch PROVE IInv'
<1>1. Live' = Live /\ Live \subseteq Slots
  BY DEF EndOfBatch, Live
<1>2. QED
  BY <1>1 DEF EndOfBatch, IInv, TypeOK, LoopOK, Phases

LEMMA VisitTypes ==
  ASSUME IInv, NEW p, NEW s \in todo, Visit(p, s),
         NEW c \in ClientRec, clients' = [clients EXCEPT ![s] = c]
  PROVE  IInv'
<1>1. s \in Live /\ todo' \subseteq todo
  BY DEF Visit, IInv, LoopOK
<1>2. UNCHANGED <<phase, batch, flag, backlog, conns, left>>
  BY DEF Visit
<1>3. QED
  BY <1>1, <1>2, OneClientStep

LEMMA ServerOutcomesTyped ==
  ASSUME NEW c, NEW q \in ServerOutcomes(c) PROVE q \in ServerOutcome
BY DEF ServerOutcomes

LEMMA IoStepTypes == ASSUME IInv, NEW s \in todo, IoStep(s) PROVE IInv'
<1>1. PICK o \in IoOutcomes(clients[s]) :
        clients' = [clients EXCEPT ![s] = IoClient(clients[s], o)]
  BY DEF IoStep
<1>2. clients[s] \in ClientRec
  BY LiveClients DEF IInv, LoopOK
<1>3. IoClient(clients[s], o) \in ClientRec
  BY <1>2, IoClientLeaves DEF Leaves
<1>4. QED
  BY <1>1, <1>3, VisitTypes DEF IoStep

LEMMA ServerStepTypes == ASSUME IInv, NEW s \in todo, ServerStep(s) PROVE IInv'
<1>1. PICK q \in ServerOutcomes(clients[s]) :
        clients' = [clients EXCEPT ![s] = ServeClient(clients[s], q)]
  BY DEF ServerStep
<1>2. clients[s] \in ClientRec
  BY LiveClients DEF IInv, LoopOK
<1>3. ServeClient(clients[s], q) \in ClientRec
  BY <1>2, ServeClientServes, ServerOutcomesTyped DEF Serves
<1>4. QED
  BY <1>1, <1>3, VisitTypes DEF ServerStep

LEMMA CgiStepTypes == ASSUME IInv, NEW s \in todo, CgiStep(s) PROVE IInv'
<1>1. PICK o \in CgiOutcomes(clients[s]) :
        clients' = [clients EXCEPT ![s] = CgiClient(clients[s], o)]
  BY DEF CgiStep
<1>2. clients[s] \in ClientRec
  BY LiveClients DEF IInv, LoopOK
<1>3. CgiClient(clients[s], o) \in ClientRec
  BY <1>2, CgiClientType DEF SameRequest, SameAnswer
<1>4. QED
  BY <1>1, <1>3, VisitTypes DEF CgiStep

LEMMA NextLoopTypes == ASSUME IInv, NextLoop PROVE IInv'
<1>1. Live' = Live /\ Live \subseteq Slots
  BY DEF NextLoop, Live
<1>2. phase' \in {"server", "cgi", "shutdown"}
      /\ (phase' = "shutdown" => phase = "cgi")
  BY DEF NextLoop
<1>3. QED
  BY <1>1, <1>2 DEF NextLoop, IInv, TypeOK, LoopOK, Phases

LEMMA MarkAllTypes ==
  ASSUME IInv
  PROVE  /\ MarkAll \in [Slots -> ClientRec \cup {NoClient}]
         /\ \A s \in Live : /\ Leaves(clients[s], MarkAll[s])
                            /\ MarkAll[s].clientState >= DELETEME
         /\ \A s \in Slots \ Live : MarkAll[s] = NoClient
<1>1. \A s \in Live : MarkAll[s] = SetClientState(clients[s], DELETEME)
  BY LiveClients DEF MarkAll, IInv
<1>2. \A s \in Live : /\ Leaves(clients[s], MarkAll[s])
                      /\ MarkAll[s].clientState >= DELETEME
  BY <1>1, LiveClients, SetClientStateLeaves, StatesOrdered DEF IInv
<1>3. \A s \in Slots \ Live : MarkAll[s] = NoClient
  BY LiveClients DEF MarkAll, IInv
<1>4. MarkAll \in [Slots -> ClientRec \cup {NoClient}]
  <2>1. \A s \in Slots : MarkAll[s] \in ClientRec \cup {NoClient}
    BY <1>2, <1>3 DEF Leaves
  <2>2. QED
    BY <2>1 DEF MarkAll
<1>5. QED
  BY <1>2, <1>3, <1>4

LEMMA ShutdownLive ==
  ASSUME IInv, ShutdownServer
  PROVE  /\ clients' \in [Slots -> ClientRec \cup {NoClient}]
         /\ Live' = Live
         /\ \A s \in Live : Leaves(clients[s], clients'[s])
         /\ flag = 1 => \A s \in Live : clients'[s].clientState >= DELETEME
<1>1. CASE flag = 1
  <2>1. clients' = MarkAll
    BY <1>1 DEF ShutdownServer
  <2>2. \A s \in Slots : clients'[s] # NoClient <=> clients[s] # NoClient
    BY <2>1, MarkAllTypes, NoClientAssumption DEF Leaves, Live
  <2>3. Live' = Live
    BY <2>2 DEF Live
  <2>4. QED
    BY <2>1, <2>3, MarkAllTypes
<1>2. CASE flag # 1
  <2>1. clients' = clients
    BY <1>2 DEF ShutdownServer
  <2>2. Live' = Live
    BY <2>1 DEF Live
  <2>3. QED
    BY <1>2, <2>1, <2>2, LiveClients, LeavesReflexive DEF IInv, TypeOK
<1>3. QED
  BY <1>1, <1>2

LEMMA ShutdownServerTypes == ASSUME IInv, ShutdownServer PROVE IInv'
<1>1. /\ clients' \in [Slots -> ClientRec \cup {NoClient}]
      /\ Live' = Live
  BY ShutdownLive
<1>2. phase' \in {"exit", "prepare"} /\ flag' \in 0..2
  BY DEF ShutdownServer, IInv, TypeOK
<1>3. QED
  BY <1>1, <1>2 DEF ShutdownServer, IInv, TypeOK, LoopOK, Phases

-----------------------------------------------------------------------------
(* The environment.                                                        *)

LEMMA ConnectTypes == ASSUME IInv, Connect PROVE IInv'
<1>1. Live' = Live
  BY DEF Connect, Live
<1>2. conns' \in 0..MaxConns /\ backlog' \in Nat /\ backlog' > backlog
  BY BoundsAssumption DEF Connect, IInv, TypeOK
<1>3. QED
  BY <1>1, <1>2 DEF Connect, IInv, TypeOK, LoopOK

LEMMA SigintTypes == ASSUME IInv, Sigint PROVE IInv'
<1>1. Live' = Live /\ Live \subseteq Slots
  BY DEF Sigint, Live
<1>2. QED
  BY <1>1 DEF Sigint, IInv, TypeOK, LoopOK, Phases

(* What the environment changes of a client is neither what the client     *)
(* knows of its child nor what it sent to it; a child that has not been    *)
(* reaped stays so.                                                        *)
SameClient(c, d) ==
  /\ d \in ClientRec
  /\ SameAnswer(c, d)
  /\ d.cgiFlag = c.cgiFlag
  /\ d.waitReturn = c.waitReturn
  /\ d.childPid = c.childPid
  /\ d.signalSent = c.signalSent
  /\ d.signal = c.signal
  /\ d.hist.stray = c.hist.stray
  /\ d.hist.forks = c.hist.forks
  /\ d.errorCode = c.errorCode
  /\ d.clientState = c.clientState
  /\ d.isRequestChecked = c.isRequestChecked
  /\ HasChildFds(d) <=> HasChildFds(c)
  /\ Unreaped(d) <=> Unreaped(c)

ClientMoves(s) ==
  \/ Tick(s) \/ PeerSends(s) \/ PeerReads(s)
  \/ ChildReads(s) \/ ChildWrites(s) \/ ChildEnds(s)

Moved(s) ==
  /\ \E c : SameClient(clients[s], c) /\ clients' = [clients EXCEPT ![s] = c]
  /\ UNCHANGED <<phase, batch, todo, flag, backlog, conns, left>>

LEMMA ClientMovesEffect ==
  ASSUME IInv, NEW s \in Live, ClientMoves(s)
  PROVE  Moved(s)
<1>1. clients[s] \in ClientRec
  BY LiveClients DEF IInv
<1>2. ASSUME NEW c, SameClient(clients[s], c), ChangeClient(s, c)
      PROVE  Moved(s)
  BY <1>2 DEF ChangeClient, Moved
<1>3. CASE Tick(s)
  <2> DEFINE d == [clients[s] EXCEPT !.age = @ + 1]
  <2>1. clients[s].age + 1 \in Ages
    BY <1>1, <1>3, BoundsAssumption DEF Tick, ClientRec, Ages
  <2>2. SameClient(clients[s], d)
    BY <1>1, <2>1 DEF SameClient, ClientRec, HasChildFds, Unreaped, SameAnswer
  <2>3. QED
    <3>1. ChangeClient(s, d)
      BY <1>3 DEF Tick
    <3> HIDE DEF d
    <3>2. QED
      BY <1>2, <2>2, <3>1
<1>4. CASE PeerSends(s)
  <2>1. PICK i \in {"data", "eof", "error"} :
          ChangeClient(s, [clients[s] EXCEPT !.in = i])
    BY <1>4 DEF PeerSends
  <2> DEFINE d == [clients[s] EXCEPT !.in = i]
  <2>2. SameClient(clients[s], d)
    BY <1>1 DEF SameClient, ClientRec, HasChildFds, Unreaped, SameAnswer
  <2>3. ChangeClient(s, d)
    BY <2>1
  <2> HIDE DEF d
  <2>4. QED
    BY <1>2, <2>2, <2>3
<1>5. CASE PeerReads(s)
  <2> DEFINE d == [clients[s] EXCEPT !.out = TRUE]
  <2>1. SameClient(clients[s], d)
    BY <1>1 DEF SameClient, ClientRec, HasChildFds, Unreaped, SameAnswer
  <2>2. ChangeClient(s, d)
    BY <1>5 DEF PeerReads
  <2> HIDE DEF d
  <2>3. QED
    BY <1>2, <2>1, <2>2
<1>6. CASE ChildReads(s)
  <2> DEFINE d == [clients[s] EXCEPT !.toChild = TRUE]
  <2>1. SameClient(clients[s], d)
    BY <1>1 DEF SameClient, ClientRec, HasChildFds, Unreaped, SameAnswer
  <2>2. ChangeClient(s, d)
    BY <1>6 DEF ChildReads
  <2> HIDE DEF d
  <2>3. QED
    BY <1>2, <2>1, <2>2
<1>7. CASE ChildWrites(s)
  <2> DEFINE d == [clients[s] EXCEPT !.fromChild = TRUE]
  <2>1. SameClient(clients[s], d)
    BY <1>1 DEF SameClient, ClientRec, HasChildFds, Unreaped, SameAnswer
  <2>2. ChangeClient(s, d)
    BY <1>7 DEF ChildWrites
  <2> HIDE DEF d
  <2>3. QED
    BY <1>2, <2>1, <2>2
<1>8. CASE ChildEnds(s)
  <2>1. PICK status \in Ended :
          /\ clients[s].proc = "running"
          /\ ChangeClient(s, [clients[s] EXCEPT !.proc = status])
    BY <1>8 DEF ChildEnds
  <2> DEFINE d == [clients[s] EXCEPT !.proc = status]
  <2>2. SameClient(clients[s], d)
    BY <1>1, <2>1
       DEF SameClient, ClientRec, HasChildFds, Unreaped, ProcState, Ended,
           SameAnswer
  <2>3. ChangeClient(s, d)
    BY <2>1
  <2> HIDE DEF d
  <2>4. QED
    BY <1>2, <2>2, <2>3
<1>9. QED
  BY <1>3, <1>4, <1>5, <1>6, <1>7, <1>8 DEF ClientMoves

LEMMA ClientMovesTypes ==
  ASSUME IInv, NEW s \in Live, ClientMoves(s) PROVE IInv'
BY ClientMovesEffect, OneClientStep DEF SameClient, Moved, SameAnswer

(* Every step keeps the types.                                             *)
LEMMA NextTypes == ASSUME IInv, [Next]_vars PROVE IInv'
<1>1. CASE PrepareWait
  BY <1>1, PrepareWaitTypes
<1>2. CASE EpollWait
  BY <1>2, EpollWaitTypes
<1>3. CASE AcceptNewClient
  BY <1>3, AcceptTypes
<1>4. CASE EndOfBatch
  BY <1>4, EndOfBatchTypes
<1>5. CASE NextLoop
  BY <1>5, NextLoopTypes
<1>6. CASE ShutdownServer
  BY <1>6, ShutdownServerTypes
<1>7. ASSUME NEW e \in batch, HandleClientEvent(e) PROVE IInv'
  BY <1>7, HandleClientEventTypes
<1>8. ASSUME NEW e \in batch, HandleCgiEvent(e) PROVE IInv'
  BY <1>8, HandleCgiEventTypes
<1>9. ASSUME NEW s \in todo, IoStep(s) PROVE IInv'
  BY <1>9, IoStepTypes
<1>10. ASSUME NEW s \in todo, ServerStep(s) PROVE IInv'
  BY <1>10, ServerStepTypes
<1>11. ASSUME NEW s \in todo, CgiStep(s) PROVE IInv'
  BY <1>11, CgiStepTypes
<1>12. CASE Connect
  BY <1>12, ConnectTypes
<1>13. CASE Sigint
  BY <1>13, SigintTypes
<1>14. ASSUME NEW s \in Live, ClientMoves(s) PROVE IInv'
  BY <1>14, ClientMovesTypes
<1>15. CASE UNCHANGED vars
  BY <1>15 DEF vars, IInv, TypeOK, LoopOK, Live
<1>16. ASSUME NEW s \in todo, IoThrow(s) \/ ServerThrow(s) PROVE IInv'
  BY <1>16, ThrowTypes
<1>17. QED
  BY <1>1, <1>2, <1>3, <1>4, <1>5, <1>6, <1>7, <1>8, <1>9, <1>10, <1>11,
     <1>12, <1>13, <1>14, <1>15, <1>16
     DEF Next, Server, Environment, ClientMoves

(* Every variable, and every field of every client record, stays in its    *)
(* range in every behaviour of the server: no handler leaves a record that *)
(* the next one does not expect, whatever fails around it.                 *)
THEOREM TypeCorrect == Spec => []TypeOK
<1>1. Init => IInv
  BY InitTypes
<1>2. IInv /\ [Next]_vars => IInv'
  BY NextTypes
<1>3. IInv => TypeOK
  BY DEF IInv
<1>4. QED
  BY <1>1, <1>2, <1>3, PTL DEF Spec

-----------------------------------------------------------------------------
(* The accounting of the CGI children.                                     *)

(* While a child has not been reaped the client says so, and it got        *)
(* SIGKILL if the client recorded the second signal.                       *)
Accounted(c) ==
  /\ Unreaped(c) => /\ c.cgiFlag /\ c.waitReturn = 0 /\ c.childPid = 1
                    /\ HasChildFds(c)
  /\ c.waitReturn >= 0
  /\ c.waitReturn # 0 => HasChildFds(c)
  /\ c.signalSent = 2 => c.clientState >= DO_RESPONSE
  /\ Unreaped(c) /\ c.signalSent = 2 => c.signal = 2

(* A request that is to start a script but has not yet done so only exists *)
(* between ServerManager::loop and Cgi::loop of one turn, where no signal  *)
(* is sent.                                                                *)
Unstarted(c) == c.cgiFlag /\ ~HasChildFds(c)

StartsThisTurn(s) ==
  Unstarted(clients[s]) =>
    /\ clients[s].signalSent # 2
    /\ \/ phase = "server" /\ s \notin todo
       \/ phase = "cgi" /\ s \in todo

AInv ==
  /\ IInv
  /\ \A s \in Live : Accounted(clients[s]) /\ StartsThisTurn(s)
  /\ phase # "down" => "alive" \notin left

LEMMA LeavesAccounted ==
  ASSUME NEW c \in ClientRec, NEW d, Leaves(c, d), Accounted(c)
  PROVE  /\ Accounted(d)
         /\ Unstarted(d) <=> Unstarted(c)
         /\ d.signalSent = c.signalSent
BY StatesOrdered
   DEF Leaves, SameChild, Accounted, Unreaped, Unstarted, ClientRec, SameScript,
       SameAnswer

LEMMA SameClientAccounted ==
  ASSUME NEW c \in ClientRec, NEW d, SameClient(c, d), Accounted(c)
  PROVE  /\ Accounted(d)
         /\ Unstarted(d) <=> Unstarted(c)
         /\ d.signalSent = c.signalSent
BY DEF SameClient, Accounted, Unstarted, SameAnswer

LEMMA NewClientAccounted ==
  ASSUME NEW allocated \in BOOLEAN
  PROVE  Accounted(NewClient(allocated)) /\ ~Unstarted(NewClient(allocated))
BY DEF NewClient, Accounted, Unstarted, Unreaped, HasChildFds, FdTypes, Ended

(* The signals: SIGKILL is recorded when it was sent to the child.         *)
LEMMA HandleClientAccounted ==
  ASSUME NEW c \in ClientRec, Accounted(c)
  PROVE  LET d == HandleClient(c, flag) IN
           /\ Accounted(d)
           /\ Unstarted(d) <=> Unstarted(c)
           /\ Unreaped(d) /\ SafeToDelete(d) => d.signal = 2
<1> DEFINE b == Terminate(c, flag)
           d == KillLate(b)
<1>1. /\ SameButSignals(c, b)
      /\ c.signalSent # 0 \/ c.waitReturn # 0 => b = c
      /\ b.signalSent \in {c.signalSent, 1}
      /\ TimedOut(c) /\ c.waitReturn = 0 => b.signalSent # 0
  BY TerminateEffect
<1>2. /\ Accounted(b)
      /\ Unstarted(b) <=> Unstarted(c)
  <2> HIDE DEF b
  <2>1. c.signalSent \in 0..2 /\ c.clientState \in 0..6
    BY StatesOrdered DEF ClientRec
  <2>2. b.signalSent = 2 => b = c
    BY <1>1, <2>1
  <2>3. QED
    BY <1>1, <2>2, StatesOrdered
       DEF SameButSignals, Accounted, Unreaped, Unstarted, ClientRec,
           SameAnswer
<1>3. /\ SameButSignals(b, d)
      /\ d = b \/ (/\ d.signalSent = 2
                   /\ d.clientState >= DO_RESPONSE
                   /\ Own(b) => d.signal = 2)
      /\ TimedOutHalf(b) /\ b.waitReturn = 0 /\ b.signalSent = 1
           => d.signalSent = 2
  <2> HIDE DEF b
  <2> QED BY <1>1, KillLateEffect DEF SameButSignals, SameAnswer
<1>4. /\ Accounted(d)
      /\ Unstarted(d) <=> Unstarted(c)
  <2> HIDE DEF b, d
  <2>1. CASE d = b
    BY <1>2, <2>1
  <2>2. CASE d # b
    BY <1>2, <1>3, <2>2
       DEF SameButSignals, Accounted, Unreaped, Unstarted, Own, SameAnswer
  <2>3. QED BY <2>1, <2>2
<1>5. Unreaped(d) /\ SafeToDelete(d) => d.signal = 2
  <2> HIDE DEF b, d
  <2> SUFFICES ASSUME Unreaped(d), SafeToDelete(d) PROVE d.signal = 2
    OBVIOUS
  <2>1. d.cgiFlag /\ d.waitReturn = 0
    BY <1>4 DEF Accounted
  <2>2. d.age >= 3
    BY <2>1 DEF SafeToDelete, TimedOutTwice
  <2>3. c.age = d.age /\ b.age = d.age /\ b.waitReturn = 0 /\ c.waitReturn = 0
    BY <1>1, <1>3, <2>1 DEF SameButSignals, SameAnswer
  <2>4. TimedOut(c) /\ TimedOutHalf(b)
    BY <1>1, <2>2, <2>3 DEF TimedOut, TimedOutHalf, SameButSignals, ClientRec,
                            Ages, SameAnswer
  <2>5. b.signalSent \in {1, 2}
    BY <1>1, <2>3, <2>4 DEF SameButSignals, ClientRec, SameAnswer
  <2>6. d.signalSent = 2
    BY <1>3, <2>3, <2>4, <2>5
  <2>7. QED
    BY <1>4, <2>6 DEF Accounted
<1>6. HandleClient(c, flag) = d
  BY DEF HandleClient
<1>7. QED
  <2> HIDE DEF b, d
  <2> QED BY <1>4, <1>5, <1>6

LEMMA ServeClientAccounted ==
  ASSUME NEW c \in ClientRec, Accounted(c), NEW q \in ServerOutcome
  PROVE  LET d == ServeClient(c, q) IN
           /\ Accounted(d)
           /\ Unstarted(d) => Unstarted(c) \/ d.signalSent # 2
           /\ d.signalSent = c.signalSent
<1> DEFINE d == ServeClient(c, q)
<1>1. /\ Serves(c, d)
      /\ \/ d.cgiFlag = c.cgiFlag
         \/ d.cgiFlag /\ c.clientState = DO_REQUEST
         \/ ~d.cgiFlag /\ ~(c.cgiFlag /\ c.waitReturn = 0)
  BY ServeClientServes
<1> HIDE DEF d
<1>2. Accounted(d)
  BY <1>1, StatesOrdered DEF Serves, SameScript, Accounted, Unreaped, ClientRec
<1>3. Unstarted(d) => Unstarted(c) \/ d.signalSent # 2
  <2>1. HasChildFds(d) <=> HasChildFds(c)
    BY <1>1 DEF Serves, SameScript
  <2>2. c.clientState = DO_REQUEST => c.signalSent # 2
    BY StatesOrdered DEF Accounted
  <2>3. d.signalSent = c.signalSent
    BY <1>1 DEF Serves, SameScript
  <2>4. QED
    BY <1>1, <2>1, <2>2, <2>3, Zenon DEF Unstarted
<1>4. QED
  BY <1>1, <1>2, <1>3 DEF Serves, SameScript, d

(* Cgi::loop leaves no request behind that is still to start its script.   *)
LEMMA CgiClientAccounted ==
  ASSUME "waitpid" \notin Faults,
         NEW c \in ClientRec, Accounted(c),
         Unstarted(c) => c.signalSent # 2,
         NEW o \in CgiOutcomes(c)
  PROVE  LET d == CgiClient(c, o) IN Accounted(d) /\ ~Unstarted(d)
<1> DEFINE started == StartChild(c, o)
<1>1. o \in CgiOutcome /\ o.waitFails = FALSE
  BY CgiOutcomeTypes DEF CgiOutcome
<1>2. \A x \in ClientRec :
        Accounted(x) => /\ Accounted(WaitForChild(x, o.waitFails))
                        /\ HasChildFds(x) =>
                             ~Unstarted(WaitForChild(x, o.waitFails))
  <2> SUFFICES ASSUME NEW x \in ClientRec, Accounted(x)
               PROVE  /\ Accounted(WaitForChild(x, FALSE))
                      /\ HasChildFds(x) => ~Unstarted(WaitForChild(x, FALSE))
    BY <1>1
  <2> DEFINE w == WaitForChild(x, FALSE)
  <2>1. /\ SameRequest(x, w)
        /\ \/ /\ x.waitReturn = 0 /\ x.proc \in Ended
              /\ w.waitReturn = 1 /\ w.proc \in Reaped
              /\ w.childPid = x.childPid
           \/ /\ ~(x.waitReturn = 0 /\ x.proc \in Ended)
              /\ w.waitReturn = x.waitReturn /\ w.proc = x.proc
              /\ w.childPid = x.childPid /\ w.cgiFlag = x.cgiFlag
    BY WaitForChildEffect DEF Accounted
  <2> HIDE DEF w
  <2>0. w.signalSent = 2 => w.clientState >= DO_RESPONSE
    <3>1. x.clientState \in 0..6 /\ w.clientState \in 0..6
      BY <2>1, StatesOrdered DEF SameRequest, ClientRec, SameAnswer
    <3>2. w.clientState >= x.clientState /\ w.signalSent = x.signalSent
      BY <2>1 DEF SameRequest, SameAnswer
    <3>3. x.signalSent = 2 => x.clientState >= DO_RESPONSE
      BY DEF Accounted
    <3>4. QED
      BY <3>1, <3>2, <3>3, StatesOrdered
  <2>2. ASSUME x.waitReturn = 0, x.proc \in Ended
        PROVE  Accounted(w) /\ (HasChildFds(x) => ~Unstarted(w))
    <3>1. Unreaped(x) /\ ~Unreaped(w)
      BY <2>1, <2>2 DEF Unreaped, Ended, Reaped
    <3>2. HasChildFds(x) /\ HasChildFds(w)
      BY <2>1, <3>1 DEF Accounted, SameRequest, SameAnswer
    <3>3. QED
      BY <2>1, <2>2, <2>0, <3>1, <3>2 DEF Accounted, Unstarted
  <2>3. ASSUME ~(x.waitReturn = 0 /\ x.proc \in Ended)
        PROVE  Accounted(w) /\ (HasChildFds(x) => ~Unstarted(w))
    <3>1. /\ w.waitReturn = x.waitReturn /\ w.proc = x.proc
          /\ w.childPid = x.childPid /\ w.cgiFlag = x.cgiFlag
          /\ w.signal = x.signal /\ w.signalSent = x.signalSent
          /\ HasChildFds(x) => HasChildFds(w)
      BY <2>1, <2>3 DEF SameRequest, SameAnswer
    <3>2. QED
      BY <2>0, <3>1 DEF Accounted, Unreaped, Unstarted
  <2>4. QED
    BY <2>2, <2>3 DEF w
<1>3. CASE ~IsAllowedCgi(c)
  <2>1. CgiClient(c, o) = c
    BY <1>3 DEF CgiClient
  <2>2. ~Unstarted(c)
    BY <1>3 DEF IsAllowedCgi, Unstarted, Accounted
  <2>3. QED
    BY <2>1, <2>2
<1>4. CASE IsAllowedCgi(c) /\ HasChildFds(c)
  BY <1>2, <1>4 DEF CgiClient
<1>5. CASE IsAllowedCgi(c) /\ ~HasChildFds(c)
  <2>1. /\ SameRequest(c, started) /\ started.waitReturn = c.waitReturn
        /\ o.start = "started" =>
             /\ started.childPid = 1 /\ started.proc = o.child
             /\ started.cgiFlag = c.cgiFlag /\ HasChildFds(started)
        /\ o.start # "started" =>
             /\ started.proc = c.proc /\ ~started.cgiFlag
             /\ ~HasChildFds(started)
    BY <1>1, <1>5, StartChildEffect
  <2> HIDE DEF started
  <2>2. c.signalSent # 2 /\ c.waitReturn = 0 /\ ~Unreaped(c)
    BY <1>5 DEF Unstarted, IsAllowedCgi, Accounted
  <2>3. Accounted(started)
    BY <1>5, <2>1, <2>2
       DEF SameRequest, Accounted, IsAllowedCgi, Unreaped, SameAnswer
  <2>4. CASE o.start = "started"
    <3>1. CgiClient(c, o) = WaitForChild(started, o.waitFails)
      BY <1>5, <2>4 DEF CgiClient, started
    <3>2. QED
      BY <1>2, <2>1, <2>3, <2>4, <3>1 DEF SameRequest, SameAnswer
  <2>5. CASE o.start # "started"
    <3>1. CgiClient(c, o) = started
      BY <1>5, <2>5 DEF CgiClient, started
    <3>2. QED
      BY <2>1, <2>3, <2>5, <3>1 DEF Unstarted
  <2>6. QED
    BY <2>4, <2>5
<1>6. QED
  BY <1>3, <1>4, <1>5

LEMMA NoneUnstarted ==
  ASSUME AInv, phase \notin {"server", "cgi"}
  PROVE  \A s \in Live : ~Unstarted(clients[s])
BY DEF AInv, StartsThisTurn

(* A step that leaves the clients alone.                                   *)
LEMMA ClientsKept ==
  ASSUME AInv, IInv', UNCHANGED <<clients, left>>,
         phase = "down" => phase' = "down",
         \/ UNCHANGED <<phase, todo>>
         \/ \A s \in Live : ~Unstarted(clients[s])
  PROVE  AInv'
<1>1. Live' = Live
  BY DEF Live
<1>2. \A s \in Live : Accounted(clients'[s]) /\ StartsThisTurn(s)'
  BY DEF AInv, StartsThisTurn
<1>3. QED
  BY <1>1, <1>2 DEF AInv

(* A step that changes one client and at most takes it off the loop.       *)
LEMMA OneClientAccounted ==
  ASSUME AInv, IInv', NEW s \in Live, NEW d \in ClientRec, Accounted(d),
         clients' = [clients EXCEPT ![s] = d],
         todo' = todo \/ todo' = todo \ {s},
         UNCHANGED <<phase, left>>,
         Unstarted(d) => /\ d.signalSent # 2
                         /\ \/ phase = "server" /\ s \notin todo'
                            \/ phase = "cgi" /\ s \in todo'
  PROVE  AInv'
<1>1. Live' = Live
  BY ClientChanged DEF AInv
<1>2. clients'[s] = d /\ \A r \in Live \ {s} : clients'[r] = clients[r]
  BY LiveClients DEF AInv, IInv, TypeOK
<1>3. Accounted(clients'[s]) /\ StartsThisTurn(s)'
  BY <1>2 DEF StartsThisTurn
<1>4. ASSUME NEW r \in Live \ {s}
      PROVE  Accounted(clients'[r]) /\ StartsThisTurn(r)'
  BY <1>2, <1>4 DEF AInv, StartsThisTurn
<1>5. \A r \in Live : Accounted(clients'[r]) /\ StartsThisTurn(r)'
  BY <1>3, <1>4
<1>6. QED
  BY <1>1, <1>5 DEF AInv

(* A step outside the server's and the CGI loop.                           *)
LEMMA OutsideAccounted ==
  ASSUME AInv, IInv', NEW s \in Live, NEW d \in ClientRec, Accounted(d),
         Unstarted(d) <=> Unstarted(clients[s]),
         clients' = [clients EXCEPT ![s] = d],
         todo' = todo \/ todo' = todo \ {s},
         UNCHANGED <<phase, left>>, phase \notin {"server", "cgi"}
  PROVE  AInv'
<1>1. ~Unstarted(d)
  BY NoneUnstarted
<1>2. QED
  BY <1>1, OneClientAccounted

LEMMA PrepareWaitAccounted == ASSUME AInv, PrepareWait PROVE AInv'
<1>1. IInv'
  BY PrepareWaitTypes DEF AInv
<1>2. ASSUME NEW s \in Live
      PROVE  clients'[s] \in ClientRec /\ Leaves(clients[s], clients'[s])
  BY LiveClients, AddChildSocketsToEpollLeaves DEF PrepareWait, AInv, IInv,
                                                   Leaves
<1>3. \A s \in Slots : clients'[s] # NoClient => clients[s] # NoClient
  <2> SUFFICES ASSUME NEW s \in Slots, s \notin Live
               PROVE  clients'[s] = NoClient
    BY DEF Live
  <2> QED
    BY DEF PrepareWait
<1>4. ASSUME NEW s \in Live
      PROVE  Accounted(clients'[s]) /\ ~Unstarted(clients'[s])
  <2>1. /\ Accounted(clients[s]) /\ ~Unstarted(clients[s])
        /\ clients[s] \in ClientRec
    BY NoneUnstarted, LiveClients DEF AInv, PrepareWait, IInv
  <2>2. QED
    BY <1>2, <2>1, LeavesAccounted
<1>5. QED
  BY <1>1, <1>3, <1>4 DEF AInv, StartsThisTurn, Live, PrepareWait

LEMMA ShutdownServerAccounted == ASSUME AInv, ShutdownServer PROVE AInv'
<1>1. IInv' /\ IInv
  BY ShutdownServerTypes DEF AInv
<1>2. ASSUME NEW s \in Live
      PROVE  Accounted(clients'[s]) /\ ~Unstarted(clients'[s])
  <2>1. /\ Accounted(clients[s]) /\ ~Unstarted(clients[s])
        /\ clients[s] \in ClientRec
    BY NoneUnstarted, LiveClients DEF AInv, ShutdownServer, IInv
  <2>2. Leaves(clients[s], clients'[s])
    BY <1>1, ShutdownLive
  <2>3. QED
    BY <2>1, <2>2, LeavesAccounted
<1>3. Live' = Live
  BY <1>1, ShutdownLive
<1>4. QED
  BY <1>1, <1>2, <1>3 DEF AInv, StartsThisTurn, ShutdownServer

LEMMA AcceptAccounted == ASSUME AInv, AcceptNewClient PROVE AInv'
<1>1. IInv'
  BY AcceptTypes DEF AInv
<1>2. CASE UNCHANGED clients
  BY <1>1, <1>2, ClientsKept DEF AcceptNewClient
<1>3. CASE clients' # clients
  <2>1. PICK s \in Slots \ Live, allocated \in BOOLEAN :
          clients' = [clients EXCEPT ![s] = NewClient(allocated)]
    BY <1>3 DEF AcceptNewClient
  <2>2. clients'[s] = NewClient(allocated)
        /\ \A r \in Slots \ {s} : clients'[r] = clients[r]
    BY <2>1 DEF AInv, IInv, TypeOK
  <2>3. Accounted(clients'[s]) /\ ~Unstarted(clients'[s])
    BY <2>2, NewClientAccounted
  <2>4. ASSUME NEW r \in Live', r # s
        PROVE  Accounted(clients'[r]) /\ ~Unstarted(clients'[r])
    <3>1. r \in Live /\ clients'[r] = clients[r]
      BY <2>2, <2>4 DEF Live
    <3>2. QED
      BY <3>1, NoneUnstarted DEF AInv, AcceptNewClient
  <2>5. QED
    BY <1>1, <2>3, <2>4 DEF AInv, StartsThisTurn, AcceptNewClient
<1>4. QED
  BY <1>2, <1>3

LEMMA HandleClientEventAccounted ==
  ASSUME AInv, NEW e \in batch, HandleClientEvent(e) PROVE AInv'
<1> DEFINE c == HandleClient(clients[e.slot], flag)
           d == UpdateClientFds(c, e.fd, e.send, e.receive)
<1>1. /\ e.slot \in Live /\ e.fd = "CLIENT_FD" /\ phase = "events"
      /\ UNCHANGED <<phase, todo>>
  BY DEF HandleClientEvent
<1>2. IInv' /\ clients[e.slot] \in ClientRec /\ Accounted(clients[e.slot])
  BY <1>1, LiveClients, HandleClientEventTypes DEF AInv, IInv
<1>3. /\ c \in ClientRec /\ Accounted(c)
      /\ Unstarted(c) <=> Unstarted(clients[e.slot])
      /\ Unreaped(c) /\ SafeToDelete(c) => c.signal = 2
  BY <1>2, HandleClientType, HandleClientAccounted
     DEF SameButSignals, SameAnswer
<1>4. CASE SafeToDelete(c)
  <2>1. /\ clients' = [clients EXCEPT ![e.slot] = NoClient]
        /\ left' = left \cup LeftBy(c)
    BY <1>4, Zenon DEF HandleClientEvent
  <2> HIDE DEF c
  <2>2. "alive" \notin LeftBy(c)
    BY <1>3, <1>4 DEF LeftBy
  <2>3. \A r \in Live' : r \in Live /\ clients'[r] = clients[r]
    BY <2>1, LiveClients DEF AInv, IInv, TypeOK, Live
  <2>4. QED
    BY <1>1, <1>2, <2>1, <2>2, <2>3 DEF AInv, StartsThisTurn
<1>5. CASE ~SafeToDelete(c)
  <2>1. clients' = [clients EXCEPT ![e.slot] = d] /\ left' = left
    BY <1>5, Zenon DEF HandleClientEvent
  <2>2. MaySet(c, e.fd)
    BY <1>1 DEF MaySet, FdTypes
  <2>3. d \in ClientRec /\ Leaves(c, d)
    <3> HIDE DEF c
    <3> QED BY <1>3, <2>2, UpdateClientFdsLeaves DEF Leaves
  <2> HIDE DEF d, c
  <2>4. Accounted(d) /\ (Unstarted(d) <=> Unstarted(clients[e.slot]))
    BY <1>3, <2>3, LeavesAccounted
  <2>5. QED
    BY <1>1, <1>2, <2>1, <2>3, <2>4, OutsideAccounted
<1>6. QED
  BY <1>4, <1>5

LEMMA HandleCgiEventAccounted ==
  ASSUME AInv, NEW e \in batch, HandleCgiEvent(e) PROVE AInv'
<1>1. /\ e.fd \in ChildFds /\ phase = "events"
      /\ UNCHANGED <<phase, todo, left>>
  BY DEF HandleCgiEvent
<1>2. IInv' /\ IInv
  BY HandleCgiEventTypes DEF AInv
<1>3. CASE UNCHANGED clients
  BY <1>1, <1>2, <1>3, ClientsKept
<1>4. CASE e.slot \in Live /\ clients[e.slot].fd[e.fd] # "ABSENT"
  <2> DEFINE c == clients[e.slot]
             d == HandleCgiFds(c, e.fd, e.send, e.receive)
  <2>1. clients' = [clients EXCEPT ![e.slot] = d]
    BY <1>4 DEF HandleCgiEvent
  <2>2. MaySet(c, e.fd) /\ c \in ClientRec /\ Accounted(c)
    BY <1>1, <1>2, <1>4, LiveClients
       DEF MaySet, HasChildFds, ChildFds, FdTypes, AInv, IInv
  <2>3. Leaves(c, d) /\ d \in ClientRec
    BY <2>2, HandleCgiFdsLeaves DEF Leaves
  <2> HIDE DEF d
  <2>4. Accounted(d) /\ (Unstarted(d) <=> Unstarted(c))
    BY <2>2, <2>3, LeavesAccounted
  <2>5. QED
    BY <1>1, <1>2, <1>4, <2>1, <2>3, <2>4, OutsideAccounted
<1>5. QED
  BY <1>3, <1>4 DEF HandleCgiEvent

LEMMA IoStepAccounted ==
  ASSUME AInv, NEW s \in todo, IoStep(s) PROVE AInv'
<1>1. IInv' /\ s \in Live /\ clients[s] \in ClientRec
  BY IoStepTypes, LiveClients DEF AInv, IInv, LoopOK
<1>2. PICK o \in IoOutcomes(clients[s]) :
        clients' = [clients EXCEPT ![s] = IoClient(clients[s], o)]
  BY DEF IoStep
<1> DEFINE d == IoClient(clients[s], o)
<1>3. Leaves(clients[s], d) /\ d \in ClientRec
  BY <1>1, IoClientLeaves DEF Leaves
<1> HIDE DEF d
<1>4. clients' = [clients EXCEPT ![s] = d]
  BY <1>2 DEF d
<1>5. Accounted(d) /\ (Unstarted(d) <=> Unstarted(clients[s]))
  BY <1>1, <1>3, LeavesAccounted DEF AInv
<1>6. phase = "io" /\ todo' = todo \ {s} /\ UNCHANGED <<phase, left>>
  BY DEF IoStep, Visit
<1>7. QED
  BY <1>1, <1>3, <1>4, <1>5, <1>6, OutsideAccounted

LEMMA ServerStepAccounted ==
  ASSUME AInv, NEW s \in todo, ServerStep(s) PROVE AInv'
<1>1. IInv' /\ s \in Live /\ clients[s] \in ClientRec
  BY ServerStepTypes, LiveClients DEF AInv, IInv, LoopOK
<1>2. PICK q \in ServerOutcomes(clients[s]) :
        clients' = [clients EXCEPT ![s] = ServeClient(clients[s], q)]
  BY DEF ServerStep
<1>3. phase = "server" /\ todo' = todo \ {s} /\ UNCHANGED <<phase, left>>
  BY DEF ServerStep, Visit
<1>4. ~Unstarted(clients[s]) /\ Accounted(clients[s])
  BY <1>1, <1>3 DEF AInv, StartsThisTurn
<1> DEFINE d == ServeClient(clients[s], q)
<1>5. d \in ClientRec
  BY <1>1, ServeClientServes, ServerOutcomesTyped DEF Serves
<1>6. Accounted(d) /\ (Unstarted(d) => d.signalSent # 2)
  BY <1>1, <1>4, ServeClientAccounted, ServerOutcomesTyped
<1> HIDE DEF d
<1>7. clients' = [clients EXCEPT ![s] = d]
  BY <1>2 DEF d
<1>8. QED
  BY <1>1, <1>3, <1>5, <1>6, <1>7, OneClientAccounted

LEMMA CgiStepAccounted ==
  ASSUME "waitpid" \notin Faults, AInv, NEW s \in todo, CgiStep(s) PROVE AInv'
<1>1. IInv' /\ s \in Live /\ clients[s] \in ClientRec
  BY CgiStepTypes, LiveClients DEF AInv, IInv, LoopOK
<1>2. PICK o \in CgiOutcomes(clients[s]) :
        clients' = [clients EXCEPT ![s] = CgiClient(clients[s], o)]
  BY DEF CgiStep
<1>3. phase = "cgi" /\ todo' = todo \ {s} /\ UNCHANGED <<phase, left>>
  BY DEF CgiStep, Visit
<1>4. /\ Accounted(clients[s])
      /\ Unstarted(clients[s]) => clients[s].signalSent # 2
  BY <1>1 DEF AInv, StartsThisTurn
<1> DEFINE d == CgiClient(clients[s], o)
<1>5. d \in ClientRec
  BY <1>1, CgiClientType DEF SameRequest, SameAnswer
<1>6. Accounted(d) /\ ~Unstarted(d)
  BY <1>1, <1>4, CgiClientAccounted
<1> HIDE DEF d
<1>7. clients' = [clients EXCEPT ![s] = d]
  BY <1>2 DEF d
<1>8. QED
  BY <1>1, <1>3, <1>5, <1>6, <1>7, OneClientAccounted

LEMMA NextLoopAccounted == ASSUME AInv, NextLoop PROVE AInv'
<1>1. IInv' /\ Live' = Live
  BY NextLoopTypes DEF AInv, NextLoop, Live
<1>2. ASSUME NEW s \in Live
      PROVE  Accounted(clients'[s]) /\ StartsThisTurn(s)'
  <2>1. clients' = clients /\ todo = {}
    BY DEF NextLoop
  <2>2. CASE phase = "server"
    <3>1. phase' = "cgi" /\ todo' = Live
      BY <2>2 DEF NextLoop
    <3>2. QED
      BY <1>1, <2>1, <3>1 DEF AInv, StartsThisTurn
  <2>3. CASE phase # "server"
    BY <1>1, <2>1, <2>3 DEF AInv, StartsThisTurn, NextLoop
  <2>4. QED
    BY <2>2, <2>3
<1>3. QED
  BY <1>1, <1>2 DEF AInv, NextLoop

LEMMA SigintAccounted == ASSUME AInv, Sigint PROVE AInv'
<1>1. IInv'
  BY SigintTypes DEF AInv
<1>2. UNCHANGED <<phase, todo>> \/ phase = "wait"
  BY DEF Sigint
<1>3. UNCHANGED <<phase, todo>> \/ \A s \in Live : ~Unstarted(clients[s])
  BY <1>2, NoneUnstarted
<1>4. QED
  BY <1>1, <1>3, ClientsKept DEF Sigint, Over

LEMMA ClientMovesAccounted ==
  ASSUME AInv, NEW s \in Live, ClientMoves(s) PROVE AInv'
<1>1. IInv' /\ clients[s] \in ClientRec
  BY ClientMovesTypes, LiveClients DEF AInv, IInv
<1>2. PICK d : /\ SameClient(clients[s], d)
               /\ clients' = [clients EXCEPT ![s] = d]
  BY ClientMovesEffect DEF AInv, Moved
<1>3. UNCHANGED <<phase, todo, left>>
  BY ClientMovesEffect DEF AInv, Moved
<1>4. /\ d \in ClientRec /\ Accounted(d)
      /\ Unstarted(d) <=> Unstarted(clients[s])
      /\ d.signalSent = clients[s].signalSent
  BY <1>1, <1>2, SameClientAccounted DEF AInv, SameClient, SameAnswer
<1>5. StartsThisTurn(s)
  BY DEF AInv
<1>6. Unstarted(d) => /\ d.signalSent # 2
                      /\ \/ phase = "server" /\ s \notin todo'
                         \/ phase = "cgi" /\ s \in todo'
  BY <1>3, <1>4, <1>5 DEF StartsThisTurn
<1>7. QED
  BY <1>1, <1>2, <1>3, <1>4, <1>6, OneClientAccounted

LEMMA InitAccounted == Init => AInv
BY InitTypes DEF Init, AInv, Live

LEMMA NextAccounted ==
  ASSUME "waitpid" \notin Faults, AInv, [Next]_vars PROVE AInv'
<1>0. IInv'
  BY NextTypes DEF AInv
<1>1. CASE PrepareWait
  BY <1>1, PrepareWaitAccounted
<1>2. CASE EpollWait
  BY <1>0, <1>2, NoneUnstarted, ClientsKept DEF EpollWait
<1>3. CASE AcceptNewClient
  BY <1>3, AcceptAccounted
<1>4. CASE EndOfBatch
  BY <1>0, <1>4, NoneUnstarted, ClientsKept DEF EndOfBatch
<1>5. CASE NextLoop
  BY <1>5, NextLoopAccounted
<1>6. CASE ShutdownServer
  BY <1>6, ShutdownServerAccounted
<1>7. ASSUME NEW e \in batch, HandleClientEvent(e) PROVE AInv'
  BY <1>7, HandleClientEventAccounted
<1>8. ASSUME NEW e \in batch, HandleCgiEvent(e) PROVE AInv'
  BY <1>8, HandleCgiEventAccounted
<1>9. ASSUME NEW s \in todo, IoStep(s) PROVE AInv'
  BY <1>9, IoStepAccounted
<1>10. ASSUME NEW s \in todo, ServerStep(s) PROVE AInv'
  BY <1>10, ServerStepAccounted
<1>11. ASSUME NEW s \in todo, CgiStep(s) PROVE AInv'
  BY <1>11, CgiStepAccounted
<1>12. CASE Connect
  BY <1>0, <1>12, ClientsKept DEF Connect
<1>13. CASE Sigint
  BY <1>13, SigintAccounted
<1>14. ASSUME NEW s \in Live, ClientMoves(s) PROVE AInv'
  BY <1>14, ClientMovesAccounted
<1>15. CASE UNCHANGED vars
  BY <1>0, <1>15, ClientsKept DEF vars
<1>16. ASSUME NEW s \in todo, IoThrow(s) \/ ServerThrow(s) PROVE AInv'
  BY <1>0, <1>16, ThrowEffect DEF AInv
<1>17. QED
  BY <1>1, <1>2, <1>3, <1>4, <1>5, <1>6, <1>7, <1>8, <1>9, <1>10, <1>11,
     <1>12, <1>13, <1>14, <1>15, <1>16
     DEF Next, Server, Environment, ClientMoves

LEMMA Accounting ==
  ASSUME "waitpid" \notin Faults
  PROVE  Spec => []AInv
<1>1. Init => AInv
  BY InitAccounted
<1>2. AInv /\ [Next]_vars => AInv'
  BY NextAccounted
<1>3. QED
  BY <1>1, <1>2, PTL DEF Spec

(* As long as waitpid does not fail, a child that has not been reaped is   *)
(* one its client knows of: the CGI flag, the pid and waitReturn agree     *)
(* with the process in every reachable state, for any number of clients,   *)
(* any mix of timeouts, I/O errors, fork failures and SIGINT.              *)
THEOREM ChildIsTracked ==
  ASSUME "waitpid" \notin Faults
  PROVE  Spec => []CgiFlagTracksChild
<1>1. AInv => CgiFlagTracksChild
  BY DEF AInv, Accounted, CgiFlagTracksChild
<1>2. QED
  BY <1>1, Accounting, PTL

(* As long as waitpid does not fail, the loop never deletes a client and   *)
(* leaves behind a script that is neither reaped nor was sent SIGKILL:     *)
(* isSafeToDelete holds a client back until one of the two has happened,   *)
(* whatever order SIGTERM, SIGKILL, the exit of the child and the shutdown *)
(* come in. Only the end by an uncaught exception is another matter.       *)
THEOREM NoScriptOutlivesItsClient ==
  ASSUME "waitpid" \notin Faults
  PROVE  Spec => []NoChildLeftAlive
<1>1. AInv => NoChildLeftAlive
  BY DEF AInv, NoChildLeftAlive
<1>2. QED
  BY <1>1, Accounting, PTL

-----------------------------------------------------------------------------
(* The shutdown.                                                           *)

(* Nothing moves a client back to an earlier state.                        *)
LEMMA StatesGrow ==
  ASSUME IInv, [Next]_vars, NEW s \in Live, clients'[s] # NoClient
  PROVE  clients'[s].clientState >= clients[s].clientState
<1>1. clients[s] \in ClientRec /\ clients[s].clientState \in 0..6
  BY LiveClients, StatesOrdered DEF IInv, ClientRec
<1>2. CASE clients' = clients
  BY <1>1, <1>2
<1>3. ASSUME NEW r \in Live, NEW d, clients' = [clients EXCEPT ![r] = d],
             d.clientState >= clients[r].clientState
      PROVE  clients'[s].clientState >= clients[s].clientState
  BY <1>1, <1>3 DEF IInv, TypeOK, Live
<1>4. CASE PrepareWait
  BY <1>1, <1>4, AddChildSocketsToEpollLeaves
     DEF PrepareWait, Leaves, SameChild, Live, SameScript, SameAnswer
<1>5. CASE AcceptNewClient
  BY <1>1, <1>5 DEF AcceptNewClient, IInv, TypeOK, Live
<1>6. CASE ShutdownServer
  BY <1>6, ShutdownLive DEF Leaves, SameChild, SameScript, SameAnswer
<1>7. ASSUME NEW e \in batch, HandleClientEvent(e)
      PROVE  clients'[s].clientState >= clients[s].clientState
  <2> DEFINE c == HandleClient(clients[e.slot], flag)
             d == UpdateClientFds(c, e.fd, e.send, e.receive)
  <2>1. /\ e.slot \in Live /\ clients[e.slot] \in ClientRec
        /\ MaySet(c, e.fd)
    BY <1>7, LiveClients DEF HandleClientEvent, IInv, MaySet, FdTypes
  <2>2. SameButSignals(clients[e.slot], c)
    BY <2>1, HandleClientType
  <2>3. CASE SafeToDelete(c)
    <3>1. clients' = [clients EXCEPT ![e.slot] = NoClient]
      BY <1>7, <2>3, Zenon DEF HandleClientEvent
    <3>2. clients'[s] = clients[s]
      BY <2>1, <3>1 DEF IInv, TypeOK, Live
    <3>3. QED
      BY <1>1, <3>2
  <2>4. CASE ~SafeToDelete(c)
    <3>1. clients' = [clients EXCEPT ![e.slot] = d]
      BY <1>7, <2>4, Zenon DEF HandleClientEvent
    <3> HIDE DEF c
    <3>2. c \in ClientRec /\ Leaves(c, d)
      BY <2>1, <2>2, UpdateClientFdsLeaves DEF SameButSignals, SameAnswer
    <3> HIDE DEF d
    <3>3. c.clientState \in 0..6 /\ d.clientState \in 0..6
          /\ clients[e.slot].clientState \in 0..6
      BY <2>1, <3>2, StatesOrdered DEF Leaves, ClientRec
    <3>4. d.clientState >= clients[e.slot].clientState
      BY <2>2, <3>2, <3>3
         DEF Leaves, SameChild, SameButSignals, SameScript, SameAnswer
    <3>5. QED
      BY <1>3, <2>1, <3>1, <3>4
  <2>5. QED
    BY <2>3, <2>4
<1>8. ASSUME NEW e \in batch, HandleCgiEvent(e)
      PROVE  clients'[s].clientState >= clients[s].clientState
  <2>1. CASE e.slot \in Live /\ clients[e.slot].fd[e.fd] # "ABSENT"
    <3> DEFINE d == HandleCgiFds(clients[e.slot], e.fd, e.send, e.receive)
    <3>1. clients' = [clients EXCEPT ![e.slot] = d]
      BY <1>8, <2>1 DEF HandleCgiEvent
    <3>2. /\ clients[e.slot] \in ClientRec
          /\ MaySet(clients[e.slot], e.fd)
      BY <1>8, <2>1, LiveClients
         DEF HandleCgiEvent, MaySet, HasChildFds, ChildFds, FdTypes, IInv
    <3>3. Leaves(clients[e.slot], d)
      BY <3>2, HandleCgiFdsLeaves
    <3> HIDE DEF d
    <3>4. QED
      BY <1>3, <2>1, <3>1, <3>3 DEF Leaves, SameChild, SameScript, SameAnswer
  <2>2. QED
    BY <1>2, <1>8, <2>1 DEF HandleCgiEvent
<1>9. ASSUME NEW r \in todo, IoStep(r)
      PROVE  clients'[s].clientState >= clients[s].clientState
  <2>1. PICK o \in IoOutcomes(clients[r]) :
          clients' = [clients EXCEPT ![r] = IoClient(clients[r], o)]
    BY <1>9 DEF IoStep
  <2>2. r \in Live /\ clients[r] \in ClientRec
    BY LiveClients DEF IInv, LoopOK
  <2>3. IoClient(clients[r], o).clientState >= clients[r].clientState
    BY <2>2, IoClientLeaves DEF Leaves, SameChild, SameScript, SameAnswer
  <2>4. QED
    BY <1>3, <2>1, <2>2, <2>3
<1>10. ASSUME NEW r \in todo, ServerStep(r)
       PROVE  clients'[s].clientState >= clients[s].clientState
  <2>1. PICK q \in ServerOutcomes(clients[r]) :
          clients' = [clients EXCEPT ![r] = ServeClient(clients[r], q)]
    BY <1>10 DEF ServerStep
  <2>2. r \in Live /\ clients[r] \in ClientRec
    BY LiveClients DEF IInv, LoopOK
  <2>3. ServeClient(clients[r], q).clientState >= clients[r].clientState
    BY <2>2, ServeClientServes, ServerOutcomesTyped DEF Serves, SameScript
  <2>4. QED
    BY <1>3, <2>1, <2>2, <2>3
<1>11. ASSUME NEW r \in todo, CgiStep(r)
       PROVE  clients'[s].clientState >= clients[s].clientState
  <2>1. PICK o \in CgiOutcomes(clients[r]) :
          clients' = [clients EXCEPT ![r] = CgiClient(clients[r], o)]
    BY <1>11 DEF CgiStep
  <2>2. r \in Live /\ clients[r] \in ClientRec
    BY LiveClients DEF IInv, LoopOK
  <2>3. CgiClient(clients[r], o).clientState >= clients[r].clientState
    BY <2>2, CgiClientType DEF SameRequest, SameAnswer
  <2>4. QED
    BY <1>3, <2>1, <2>2, <2>3
<1>12. ASSUME NEW r \in Live, ClientMoves(r)
       PROVE  clients'[s].clientState >= clients[s].clientState
  <2>1. PICK d : /\ SameClient(clients[r], d)
                 /\ clients' = [clients EXCEPT ![r] = d]
    BY <1>12, ClientMovesEffect DEF Moved
  <2>2. clients[r].clientState \in 0..6
    BY LiveClients, StatesOrdered DEF IInv, ClientRec
  <2>3. d.clientState >= clients[r].clientState
    BY <2>1, <2>2 DEF SameClient, SameAnswer
  <2>4. QED
    BY <1>3, <2>1, <2>3
<1>13. CASE EpollWait \/ EndOfBatch \/ NextLoop \/ Connect \/ Sigint
            \/ UNCHANGED vars
  BY <1>2, <1>13 DEF EpollWait, EndOfBatch, NextLoop, Connect, Sigint, vars
<1>14. ASSUME NEW r \in todo, IoThrow(r) \/ ServerThrow(r) PROVE FALSE
  BY <1>14, ThrowEffect, LiveClients DEF IInv
<1>15. QED
  BY <1>4, <1>5, <1>6, <1>7, <1>8, <1>9, <1>10, <1>11, <1>12, <1>13, <1>14
     DEF Next, Server, Environment, ClientMoves

(* Only accept makes a client, and only before a signal.                   *)
LEMMA NoneJoins ==
  ASSUME IInv, [Next]_vars, NEW s \in Slots \ Live, clients'[s] # NoClient
  PROVE  AcceptNewClient /\ flag = 0
<1>1. clients[s] = NoClient /\ todo \subseteq Live
  BY LiveClients DEF IInv, LoopOK
<1>2. clients' # clients
  BY <1>1
<1>3. ASSUME NEW r \in Live, NEW d, clients' = [clients EXCEPT ![r] = d]
      PROVE  FALSE
  BY <1>1, <1>3 DEF IInv, TypeOK
<1>4. CASE AcceptNewClient
  BY <1>2, <1>4 DEF AcceptNewClient
<1>5. ASSUME PrepareWait PROVE FALSE
  BY <1>5 DEF PrepareWait
<1>6. ASSUME ShutdownServer PROVE FALSE
  BY <1>1, <1>6, ShutdownLive DEF Live
<1>7. ASSUME NEW e \in batch, HandleClientEvent(e) PROVE FALSE
  <2> DEFINE c == HandleClient(clients[e.slot], flag)
             d == UpdateClientFds(c, e.fd, e.send, e.receive)
  <2>1. e.slot \in Live
    BY <1>7 DEF HandleClientEvent
  <2>2. CASE SafeToDelete(c)
    <3>1. clients' = [clients EXCEPT ![e.slot] = NoClient]
      BY <1>7, <2>2, Zenon DEF HandleClientEvent
    <3>2. QED
      BY <1>3, <2>1, <3>1
  <2>3. CASE ~SafeToDelete(c)
    <3>1. clients' = [clients EXCEPT ![e.slot] = d]
      BY <1>7, <2>3, Zenon DEF HandleClientEvent
    <3> HIDE DEF d
    <3>2. QED
      BY <1>3, <2>1, <3>1
  <2>4. QED
    BY <2>2, <2>3
<1>8. ASSUME NEW e \in batch, HandleCgiEvent(e) PROVE FALSE
  BY <1>2, <1>3, <1>8 DEF HandleCgiEvent
<1>9. ASSUME NEW r \in todo, IoStep(r) \/ ServerStep(r) \/ CgiStep(r)
      PROVE  FALSE
  BY <1>1, <1>3, <1>9 DEF IoStep, ServerStep, CgiStep
<1>10. ASSUME NEW r \in Live, ClientMoves(r) PROVE FALSE
  BY <1>3, <1>10, ClientMovesEffect DEF Moved
<1>11. ~(EpollWait \/ EndOfBatch \/ NextLoop \/ Connect \/ Sigint
         \/ UNCHANGED vars)
  BY <1>2 DEF EpollWait, EndOfBatch, NextLoop, Connect, Sigint, vars
<1>12. ASSUME NEW r \in todo, IoThrow(r) \/ ServerThrow(r) PROVE FALSE
  BY <1>12, ThrowEffect
<1>13. QED
  BY <1>4, <1>5, <1>6, <1>7, <1>8, <1>9, <1>10, <1>11, <1>12
     DEF Next, Server, Environment, ClientMoves

(* Only shutdownServer sets the flag to 2.                                 *)
LEMMA FlagAdvances ==
  ASSUME IInv, [Next]_vars, flag' # flag
  PROVE  Sigint \/ ShutdownServer
<1>1. ASSUME NEW e \in batch, HandleClientEvent(e) \/ HandleCgiEvent(e)
      PROVE  FALSE
  BY <1>1 DEF HandleClientEvent, HandleCgiEvent
<1>2. ASSUME NEW r \in todo, IoStep(r) \/ ServerStep(r) \/ CgiStep(r)
      PROVE  FALSE
  BY <1>2 DEF IoStep, ServerStep, CgiStep, Visit
<1>3. ASSUME NEW r \in Live, ClientMoves(r) PROVE FALSE
  BY <1>3, ClientMovesEffect DEF Moved
<1>4. ~(PrepareWait \/ EpollWait \/ AcceptNewClient \/ EndOfBatch
         \/ NextLoop \/ Connect \/ UNCHANGED vars)
  BY DEF PrepareWait, EpollWait, AcceptNewClient, EndOfBatch, NextLoop,
         Connect, vars
<1>5. ASSUME NEW r \in todo, IoThrow(r) \/ ServerThrow(r) PROVE FALSE
  BY <1>5, ThrowEffect
<1>6. QED
  BY <1>1, <1>2, <1>3, <1>4, <1>5 DEF Next, Server, Environment, ClientMoves

LEMMA NextMarksAll ==
  ASSUME IInv, ShutdownMarksAll, [Next]_vars
  PROVE  ShutdownMarksAll'
<1>1. IInv'
  BY NextTypes
<1> SUFFICES ASSUME flag' = 2, NEW s \in Slots, clients'[s] # NoClient
             PROVE  clients'[s].clientState >= DELETEME
  BY DEF ShutdownMarksAll, Live
<1>2. CASE flag = 2
  <2>1. s \in Live
    BY <1>2, NoneJoins
  <2>2. /\ clients'[s].clientState >= clients[s].clientState
        /\ clients[s].clientState >= DELETEME
    BY <1>2, <2>1, StatesGrow DEF ShutdownMarksAll
  <2>3. clients'[s].clientState \in 0..6 /\ clients[s].clientState \in 0..6
    BY <1>1, <2>1, LiveClients, StatesOrdered DEF IInv, TypeOK, Live, ClientRec
  <2>4. QED
    BY <2>2, <2>3, StatesOrdered
<1>3. CASE flag # 2
  <2>1. ShutdownServer /\ flag = 1
    BY <1>3, FlagAdvances DEF Sigint, ShutdownServer
  <2>2. QED
    BY <2>1, ShutdownLive DEF Live
<1>4. QED
  BY <1>2, <1>3

(* Once shutdownServer has seen the signal, every client is marked for     *)
(* deletion in every later state: none accepted afterwards, none moved     *)
(* back to work by a handler that was under way.                           *)
THEOREM ShutdownIsFinal == Spec => []ShutdownMarksAll
<1>1. Init => IInv /\ ShutdownMarksAll
  BY InitTypes DEF Init, ShutdownMarksAll
<1>2. IInv /\ ShutdownMarksAll /\ [Next]_vars => IInv' /\ ShutdownMarksAll'
  BY NextTypes, NextMarksAll
<1>3. QED
  BY <1>1, <1>2, PTL DEF Spec

(* shutdownServer only ends the loop when it was asked to, with no client. *)
EmptyAtExit == /\ phase = "exit" => flag # 0
               /\ Over => Live = {}

LEMMA NextEmptyAtExit ==
  ASSUME IInv, EmptyAtExit, [Next]_vars
  PROVE  EmptyAtExit'
<1> SUFFICES ASSUME Over'
             PROVE  /\ phase' = "exit" => flag' # 0
                    /\ Live' = {}
  BY DEF EmptyAtExit, Over
<1>1. CASE ShutdownServer
  BY <1>1, ShutdownLive DEF ShutdownServer, MayExit, Over
<1>2. CASE \E r \in todo : IoThrow(r) \/ ServerThrow(r)
  <2>1. PICK r \in todo : IoThrow(r) \/ ServerThrow(r)
    BY <1>2
  <2>2. phase' = "down" /\ Live' = {}
    BY <2>1, ThrowEffect
  <2> QED BY <2>2
<1>3. CASE /\ ~ShutdownServer
           /\ ~\E r \in todo : IoThrow(r) \/ ServerThrow(r)
  <2>1. phase' = phase /\ Over
    <3>1. ASSUME NEW e \in batch, HandleClientEvent(e) \/ HandleCgiEvent(e)
          PROVE  FALSE
      BY <3>1 DEF HandleClientEvent, HandleCgiEvent, Over
    <3>2. ASSUME NEW r \in todo, IoStep(r) \/ ServerStep(r) \/ CgiStep(r)
          PROVE  FALSE
      BY <3>2 DEF IoStep, ServerStep, CgiStep, Visit, Over
    <3>3. ASSUME NEW r \in Live, ClientMoves(r) PROVE phase' = phase
      BY <3>3, ClientMovesEffect DEF Moved
    <3>4. ~(PrepareWait \/ EpollWait \/ AcceptNewClient \/ EndOfBatch
             \/ NextLoop \/ Connect \/ Sigint)
      BY DEF PrepareWait, EpollWait, AcceptNewClient, EndOfBatch, NextLoop,
             Connect, Sigint, Over
    <3>5. CASE UNCHANGED vars
      BY <3>5 DEF vars, Over
    <3>6. QED
      BY <1>3, <3>1, <3>2, <3>3, <3>4, <3>5
         DEF Next, Server, Environment, ClientMoves, Over
  <2>2. ASSUME NEW s \in Slots, clients'[s] # NoClient PROVE FALSE
    <3>1. s \notin Live
      BY <2>1 DEF EmptyAtExit
    <3>2. AcceptNewClient
      BY <2>2, <3>1, NoneJoins
    <3>3. QED
      BY <2>1, <3>2 DEF AcceptNewClient, Over
  <2>3. flag' = flag
    <3>1. ~Sigint
      BY <2>1 DEF Sigint, Over
    <3>2. QED
      BY <1>3, <3>1, FlagAdvances
  <2>4. QED
    BY <2>1, <2>2, <2>3 DEF Live, EmptyAtExit
<1>4. QED
  BY <1>1, <1>2, <1>3

(* As long as waitpid does not fail, shutdownServer only ends the loop     *)
(* when the operator asked for it and every client has been deleted, each  *)
(* of them after its script was reaped or sent SIGKILL.  The server has    *)
(* one other end, an uncaught exception (phase "down"): nothing of this is *)
(* claimed of it.                                                          *)
THEOREM ExitLeavesNothing ==
  ASSUME "waitpid" \notin Faults
  PROVE  Spec => []ExitIsClean
<1>1. Init => IInv /\ EmptyAtExit
  BY InitTypes DEF Init, EmptyAtExit, Over
<1>2. IInv /\ EmptyAtExit /\ [Next]_vars => IInv' /\ EmptyAtExit'
  BY NextTypes, NextEmptyAtExit
<1>3. AInv /\ EmptyAtExit => ExitIsClean
  BY DEF AInv, EmptyAtExit, ExitIsClean, Over
<1>4. Spec => []EmptyAtExit
  BY <1>1, <1>2, PTL DEF Spec
<1>5. QED
  BY <1>3, <1>4, Accounting, PTL

-----------------------------------------------------------------------------
(* A client over its whole life: how one step may change it.               *)

(* How a step may change a client that lives on: d comes of c.             *)
Follows(c, d) ==
  \/ Leaves(c, d) \/ SameClient(c, d)
  \/ Leaves(HandleClient(c, flag), d)
  \/ \E q \in ServerOutcome : d = ServeClient(c, q)
  \/ \E o \in CgiOutcomes(c) : d = CgiClient(c, o)

(* A step that changes the client of one position, or removes it.          *)
LEMMA OneClientFollows ==
  ASSUME IInv, NEW s \in Live, NEW d,
         d = NoClient \/ Follows(clients[s], d),
         clients' = [clients EXCEPT ![s] = d]
  PROVE  \A r \in Live' : r \in Live /\ Follows(clients[r], clients'[r])
<1>1. ASSUME NEW r \in Live'
      PROVE  r \in Live /\ Follows(clients[r], clients'[r])
  <2>1. r \in Slots /\ clients'[r] # NoClient
    BY <1>1 DEF Live
  <2>2. CASE r = s
    BY <2>1, <2>2 DEF IInv, TypeOK
  <2>3. CASE r # s
    <3>1. r \in Live /\ clients'[r] = clients[r]
      BY <2>1, <2>3 DEF IInv, TypeOK, Live
    <3>2. Leaves(clients[r], clients[r])
      BY <3>1, LiveClients, LeavesReflexive DEF IInv
    <3> QED BY <3>1, <3>2 DEF Follows
  <2> QED BY <2>2, <2>3
<1> QED BY <1>1

(* Every step makes of a client one that follows, or accepts a new one.    *)
LEMMA ClientsFollow ==
  ASSUME IInv, [Next]_vars, NEW r \in Live'
  PROVE  \/ r \in Live /\ Follows(clients[r], clients'[r])
         \/ r \notin Live
            /\ \E allocated \in BOOLEAN : clients'[r] = NewClient(allocated)
<1>0. \A s \in Live : /\ clients[s] \in ClientRec /\ s \in Slots
                      /\ Leaves(clients[s], clients[s])
  BY LiveClients, LeavesReflexive DEF IInv
<1>1. CASE UNCHANGED clients
  BY <1>0, <1>1 DEF Live, Follows
<1>2. CASE PrepareWait
  <2>1. r \in Live
    BY <1>2 DEF PrepareWait, Live
  <2> QED BY <1>0, <1>2, <2>1, AddChildSocketsToEpollLeaves
          DEF PrepareWait, Follows
<1>3. CASE ShutdownServer
  BY <1>3, ShutdownLive DEF Follows
<1>4. CASE AcceptNewClient /\ clients' # clients
  <2>1. PICK s \in Slots \ Live, allocated \in BOOLEAN :
          clients' = [clients EXCEPT ![s] = NewClient(allocated)]
    BY <1>4 DEF AcceptNewClient
  <2>2. CASE r = s
    BY <2>1, <2>2 DEF IInv, TypeOK
  <2>3. CASE r # s
    <3>1. r \in Live /\ clients'[r] = clients[r]
      BY <2>1, <2>3 DEF IInv, TypeOK, Live
    <3> QED BY <1>0, <3>1 DEF Follows
  <2> QED BY <2>2, <2>3
<1>5. ASSUME NEW e \in batch, HandleClientEvent(e)
      PROVE  r \in Live /\ Follows(clients[r], clients'[r])
  <2> DEFINE c == HandleClient(clients[e.slot], flag)
             d == UpdateClientFds(c, e.fd, e.send, e.receive)
  <2>1. e.slot \in Live /\ MaySet(c, e.fd)
    BY <1>5 DEF HandleClientEvent, MaySet, FdTypes
  <2>2. c \in ClientRec
    BY <1>0, <2>1, HandleClientType DEF SameButSignals, SameAnswer
  <2>3. Leaves(c, d)
    <3> HIDE DEF c
    <3> QED BY <2>1, <2>2, UpdateClientFdsLeaves, <1>5
            DEF Leaves, HandleClientEvent
  <2>4. \/ clients' = [clients EXCEPT ![e.slot] = NoClient]
        \/ clients' = [clients EXCEPT ![e.slot] = d]
    BY <1>5, Zenon DEF HandleClientEvent
  <2>5. Follows(clients[e.slot], d)
    BY <2>3, Zenon DEF Follows
  <2> HIDE DEF d
  <2> QED BY <2>1, <2>4, <2>5, OneClientFollows
<1>6. ASSUME NEW e \in batch, HandleCgiEvent(e), clients' # clients
      PROVE  r \in Live /\ Follows(clients[r], clients'[r])
  <2> DEFINE d == HandleCgiFds(clients[e.slot], e.fd, e.send, e.receive)
  <2>1. /\ e.slot \in Live /\ clients[e.slot].fd[e.fd] # "ABSENT"
        /\ e.fd \in ChildFds /\ clients' = [clients EXCEPT ![e.slot] = d]
    BY <1>6 DEF HandleCgiEvent
  <2>2. MaySet(clients[e.slot], e.fd)
    BY <2>1 DEF MaySet, HasChildFds, ChildFds, FdTypes
  <2>3. Leaves(clients[e.slot], d)
    BY <1>0, <2>1, <2>2, HandleCgiFdsLeaves
  <2> HIDE DEF d
  <2>4. Follows(clients[e.slot], d)
    BY <2>3, Zenon DEF Follows
  <2> QED BY <2>1, <2>4, OneClientFollows
<1>7. ASSUME NEW s \in todo, IoStep(s) \/ ServerStep(s) \/ CgiStep(s)
      PROVE  r \in Live /\ Follows(clients[r], clients'[r])
  <2>1. s \in Live
    BY <1>7 DEF IInv, LoopOK, IoStep, ServerStep, CgiStep, Visit
  <2>2. PICK d : /\ Follows(clients[s], d)
                 /\ clients' = [clients EXCEPT ![s] = d]
    <3>1. CASE IoStep(s)
      <4>1. PICK o \in IoOutcomes(clients[s]) :
              clients' = [clients EXCEPT ![s] = IoClient(clients[s], o)]
        BY <3>1 DEF IoStep
      <4> QED BY <1>0, <2>1, <4>1, IoClientLeaves DEF Follows
    <3>2. CASE ServerStep(s)
      <4>1. PICK q \in ServerOutcomes(clients[s]) :
              clients' = [clients EXCEPT ![s] = ServeClient(clients[s], q)]
        BY <3>2 DEF ServerStep
      <4> QED BY <4>1, ServerOutcomesTyped DEF Follows
    <3>3. CASE CgiStep(s)
      <4>1. PICK o \in CgiOutcomes(clients[s]) :
              clients' = [clients EXCEPT ![s] = CgiClient(clients[s], o)]
        BY <3>3 DEF CgiStep
      <4> QED BY <4>1 DEF Follows
    <3> QED BY <1>7, <3>1, <3>2, <3>3
  <2> QED BY <2>1, <2>2, OneClientFollows
<1>8. ASSUME NEW s \in Live, ClientMoves(s)
      PROVE  r \in Live /\ Follows(clients[r], clients'[r])
  <2>1. PICK d : /\ SameClient(clients[s], d)
                 /\ clients' = [clients EXCEPT ![s] = d]
    BY <1>8, ClientMovesEffect DEF Moved
  <2>2. Follows(clients[s], d)
    BY <2>1 DEF Follows
  <2> QED BY <2>1, <2>2, OneClientFollows
<1>9. CASE EpollWait \/ EndOfBatch \/ NextLoop \/ Connect \/ Sigint
           \/ UNCHANGED vars
  BY <1>1, <1>9 DEF EpollWait, EndOfBatch, NextLoop, Connect, Sigint, vars
<1>10. ASSUME NEW s \in todo, IoThrow(s) \/ ServerThrow(s) PROVE FALSE
  BY <1>10, ThrowEffect
<1> QED
  BY <1>1, <1>2, <1>3, <1>4, <1>5, <1>6, <1>7, <1>8, <1>9, <1>10
     DEF Next, Server, Environment, ClientMoves

-----------------------------------------------------------------------------
(* Scripts.                                                                *)

(* One script at most, and the child sockets stay with the client as long  *)
(* as it lives: they are what keeps Cgi::loop from starting another one.   *)
StartedOnce(c) ==
  /\ c.hist.forks <= 1
  /\ c.hist.forks = 0 \/ HasChildFds(c)

OInv == \A s \in Live : StartedOnce(clients[s])

LEMMA KeepsStartedOnce ==
  ASSUME NEW c, NEW d, SameScript(c, d), StartedOnce(c)
  PROVE  StartedOnce(d)
BY DEF SameScript, StartedOnce

LEMMA NewClientStartedOnce ==
  ASSUME NEW allocated \in BOOLEAN
  PROVE  StartedOnce(NewClient(allocated))
BY DEF NewClient, StartedOnce, NoHistory

LEMMA HandleClientStartedOnce ==
  ASSUME NEW c \in ClientRec, StartedOnce(c)
  PROVE  StartedOnce(HandleClient(c, flag))
BY HandleClientType DEF SameButSignals, StartedOnce, SameAnswer

LEMMA WaitForChildStartedOnce ==
  ASSUME NEW c \in ClientRec, NEW fails \in BOOLEAN, StartedOnce(c)
  PROVE  StartedOnce(WaitForChild(c, fails))
BY WaitForChildEffect DEF SameRequest, StartedOnce, SameAnswer

(* Cgi::loop: without child sockets no script was started before.          *)
LEMMA CgiClientStartedOnce ==
  ASSUME NEW c \in ClientRec, StartedOnce(c), NEW o \in CgiOutcomes(c)
  PROVE  StartedOnce(CgiClient(c, o))
<1> DEFINE started == StartChild(c, o)
<1>1. o \in CgiOutcome /\ o.waitFails \in BOOLEAN
  BY CgiOutcomeTypes DEF CgiOutcome
<1>2. StartedOnce(WaitForChild(c, o.waitFails))
  BY <1>1, WaitForChildStartedOnce
<1>3. CASE HasChildFds(c)
  BY <1>2, <1>3 DEF CgiClient
<1>4. CASE ~HasChildFds(c)
  <2>1. started \in ClientRec /\ StartedOnce(started)
    <3>1. /\ SameRequest(c, started)
          /\ o.start = "started" =>
               HasChildFds(started) /\ started.hist.forks = 1
          /\ o.start # "started" => started.hist.forks = c.hist.forks
      BY <1>1, <1>4, StartChildEffect DEF StartedOnce
    <3> HIDE DEF started
    <3> QED BY <1>4, <3>1 DEF SameRequest, StartedOnce, SameAnswer
  <2>2. StartedOnce(WaitForChild(started, o.waitFails))
    <3> HIDE DEF started
    <3> QED BY <1>1, <2>1, WaitForChildStartedOnce
  <2> QED BY <1>4, <2>1, <2>2 DEF CgiClient
<1> QED BY <1>3, <1>4

LEMMA FollowsStartedOnce ==
  ASSUME NEW c \in ClientRec, StartedOnce(c), NEW d, Follows(c, d)
  PROVE  StartedOnce(d)
<1>1. CASE Leaves(c, d)
  BY <1>1, KeepsStartedOnce DEF Leaves, SameChild
<1>2. CASE SameClient(c, d)
  BY <1>2 DEF SameClient, StartedOnce
<1>3. CASE Leaves(HandleClient(c, flag), d)
  BY <1>3, HandleClientStartedOnce, KeepsStartedOnce DEF Leaves, SameChild
<1>4. CASE \E q \in ServerOutcome : d = ServeClient(c, q)
  BY <1>4, ServeClientServes, KeepsStartedOnce DEF Serves
<1>5. CASE \E o \in CgiOutcomes(c) : d = CgiClient(c, o)
  BY <1>5, CgiClientStartedOnce
<1> QED BY <1>1, <1>2, <1>3, <1>4, <1>5 DEF Follows

LEMMA NextStartedOnce ==
  ASSUME IInv, OInv, [Next]_vars
  PROVE  OInv'
<1>1. ASSUME NEW r \in Live' PROVE StartedOnce(clients'[r])
  BY <1>1, ClientsFollow, LiveClients, FollowsStartedOnce,
     NewClientStartedOnce DEF IInv, OInv
<1> QED BY <1>1 DEF OInv

(* One request starts at most one script, whichever calls fail and however *)
(* the four loops and the children interleave.                             *)
THEOREM OneScriptPerRequest == Spec => []OneChild
<1>1. Init => IInv /\ OInv
  BY InitTypes DEF Init, OInv, Live
<1>2. IInv /\ OInv /\ [Next]_vars => IInv' /\ OInv'
  BY NextTypes, NextStartedOnce
<1>3. OInv => OneChild
  BY DEF OInv, StartedOnce, OneChild
<1> QED BY <1>1, <1>2, <1>3, PTL DEF Spec

-----------------------------------------------------------------------------
(* Answers.                                                                *)

RInv == \A s \in Live : Settled(clients[s])

LEMMA NewClientSettled ==
  ASSUME NEW allocated \in BOOLEAN
  PROVE  Settled(NewClient(allocated))
BY StatesOrdered DEF NewClient, Settled, NoHistory

LEMMA HandleClientSettled ==
  ASSUME NEW c \in ClientRec, Settled(c)
  PROVE  /\ HandleClient(c, flag) \in ClientRec
         /\ Settled(HandleClient(c, flag))
BY HandleClientType, StatesOrdered
   DEF SameButSignals, SameAnswer, Settled, ClientRec

(* Cgi::loop leaves an answered request alone: it is none of a script.     *)
LEMMA CgiClientSettled ==
  ASSUME NEW c \in ClientRec, Settled(c), NEW o \in CgiOutcomes(c)
  PROVE  Settled(CgiClient(c, o))
<1>1. CASE c.cgiFlag
  BY <1>1, CgiClientType DEF SameRequest, SameAnswer, Settled
<1>2. CASE ~c.cgiFlag
  BY <1>2 DEF CgiClient, IsAllowedCgi
<1> QED BY <1>1, <1>2 DEF ClientRec

LEMMA FollowsSettled ==
  ASSUME NEW c \in ClientRec, Settled(c), NEW d, Follows(c, d)
  PROVE  Settled(d)
<1>1. CASE Leaves(c, d)
  BY <1>1, LeavesSettled
<1>2. CASE SameClient(c, d)
  BY <1>2 DEF SameClient, SameAnswer, Settled
<1>3. CASE Leaves(HandleClient(c, flag), d)
  BY <1>3, HandleClientSettled, LeavesSettled
<1>4. CASE \E q \in ServerOutcome : d = ServeClient(c, q)
  BY <1>4, ServeClientServes DEF StaysSettled
<1>5. CASE \E o \in CgiOutcomes(c) : d = CgiClient(c, o)
  BY <1>5, CgiClientSettled
<1> QED BY <1>1, <1>2, <1>3, <1>4, <1>5 DEF Follows

LEMMA NextSettled ==
  ASSUME IInv, RInv, [Next]_vars
  PROVE  RInv'
<1>1. ASSUME NEW r \in Live' PROVE Settled(clients'[r])
  BY <1>1, ClientsFollow, LiveClients, FollowsSettled, NewClientSettled
     DEF IInv, RInv
<1> QED BY <1>1 DEF RInv

(* No client gets a second answer: once one is made the client waits for   *)
(* nothing but its being sent, or to be deleted, in whatever order the     *)
(* errors, the signals and the end of its script come.                     *)
THEOREM OneAnswer == Spec => []AnsweredOnce
<1>1. Init => IInv /\ RInv
  BY InitTypes DEF Init, RInv, Live
<1>2. IInv /\ RInv /\ [Next]_vars => IInv' /\ RInv'
  BY NextTypes, NextSettled
<1>3. RInv => AnsweredOnce
  BY DEF RInv, Settled, AnsweredOnce
<1> QED BY <1>1, <1>2, <1>3, PTL DEF Spec

-----------------------------------------------------------------------------
(* Errors.                                                                 *)

LEMMA FollowsKeepsError ==
  ASSUME NEW c \in ClientRec, NEW d, Follows(c, d), d.errorCode = 0
  PROVE  c.errorCode = 0
<1>1. CASE Leaves(c, d) \/ SameClient(c, d)
  BY <1>1 DEF Leaves, SameChild, SameClient, SameScript
<1>2. CASE Leaves(HandleClient(c, flag), d)
  BY <1>2, HandleClientType
     DEF Leaves, SameChild, SameScript, SameButSignals
<1>3. CASE \E q \in ServerOutcome : d = ServeClient(c, q)
  BY <1>3, ServeClientServes DEF Serves, SameScript
<1>4. CASE \E o \in CgiOutcomes(c) : d = CgiClient(c, o)
  BY <1>4, CgiClientType DEF SameRequest
<1> QED BY <1>1, <1>2, <1>3, <1>4 DEF Follows

(* A client recorded as failed stays failed until it is deleted, with any  *)
(* number of clients and whatever fails: neither a header parsed later,    *)
(* nor the end of its script, turns the error back into success.           *)
THEOREM ErrorsStay == Spec => ErrorIsFinal
<1> DEFINE Stays == \A s \in Live : /\ clients[s].errorCode # 0
                                    /\ clients'[s] # NoClient
                                    => clients'[s].errorCode # 0
<1>1. Init => IInv
  BY InitTypes
<1>2. IInv /\ [Next]_vars => IInv'
  BY NextTypes
<1>3. IInv /\ [Next]_vars => Stays
  <2> SUFFICES ASSUME IInv, [Next]_vars, NEW s \in Live,
                      clients'[s] # NoClient, clients'[s].errorCode = 0
               PROVE  clients[s].errorCode = 0
    BY DEF Stays
  <2>1. s \in Live' /\ clients[s] \in ClientRec
    BY LiveClients DEF IInv, Live
  <2>2. Follows(clients[s], clients'[s])
    BY <2>1, ClientsFollow
  <2> QED BY <2>1, <2>2, FollowsKeepsError
<1>4. Stays => [Stays]_vars
  OBVIOUS
<1> QED BY <1>1, <1>2, <1>3, PTL DEF Spec, ErrorIsFinal

-----------------------------------------------------------------------------
(* The signals.                                                            *)

(* No signal went astray, and the pid in the client is that of its own     *)
(* child whenever the next signal may be sent.                             *)
OwnSignals(c) ==
  /\ c.hist.stray = FALSE
  /\ c.childPid # 0 /\ c.waitReturn = 0 => Own(c)

SInv ==
  /\ \A s \in Live : OwnSignals(clients[s])
  /\ "stray" \notin left

-----------------------------------------------------------------------------
(* The handlers.                                                           *)

LEMMA KeepsSignalled ==
  ASSUME NEW c, NEW d, SameScript(c, d), OwnSignals(c)
  PROVE  OwnSignals(d)
BY DEF SameScript, OwnSignals, Own, Unreaped

LEMMA NewClientSignalled ==
  ASSUME NEW allocated \in BOOLEAN
  PROVE  OwnSignals(NewClient(allocated))
BY DEF NewClient, OwnSignals, NoHistory

(* SIGTERM and SIGKILL.                                                    *)
LEMMA HandleClientSignalled ==
  ASSUME NEW c \in ClientRec, OwnSignals(c)
  PROVE  OwnSignals(HandleClient(c, flag))
<1> DEFINE b == Terminate(c, flag)
           d == KillLate(b)
<1>1. SameButSignals(c, b) /\ b.hist.stray = c.hist.stray
  BY TerminateEffect DEF OwnSignals
<1>2. b \in ClientRec /\ OwnSignals(b)
  <2> HIDE DEF b
  <2> QED BY <1>1 DEF SameButSignals, OwnSignals, Own, Unreaped, SameAnswer
<1>3. SameButSignals(b, d) /\ d.hist.stray = b.hist.stray
  <2> HIDE DEF b
  <2> QED BY <1>2, KillLateEffect DEF OwnSignals
<1>4. OwnSignals(d)
  <2> HIDE DEF b, d
  <2> QED BY <1>2, <1>3
             DEF SameButSignals, OwnSignals, Own, Unreaped, SameAnswer
<1> QED BY <1>4, Zenon DEF HandleClient

(* waitpid: a child that was reaped is not signalled any more.             *)
LEMMA WaitForChildSignalled ==
  ASSUME NEW c \in ClientRec, c.waitReturn = 0, OwnSignals(c)
  PROVE  OwnSignals(WaitForChild(c, FALSE))
<1> DEFINE w == WaitForChild(c, FALSE)
<1>1. /\ SameRequest(c, w)
      /\ \/ w.waitReturn = 1
         \/ /\ w.waitReturn = c.waitReturn /\ w.proc = c.proc
            /\ w.childPid = c.childPid
  <2>1. FALSE \in BOOLEAN OBVIOUS
  <2>2. 0 >= 0 OBVIOUS
  <2> QED BY <2>1, <2>2, WaitForChildEffect, Zenon
<1> HIDE DEF w
<1>2. OwnSignals(w)
  BY <1>1 DEF SameRequest, OwnSignals, Own, Unreaped, SameAnswer
<1> QED BY <1>2 DEF w

(* A child started is the client's own from the first moment on.           *)
LEMMA CgiClientSignalled ==
  ASSUME {"fork", "waitpid"} \cap Faults = {},
         NEW c \in ClientRec, OwnSignals(c), NEW o \in CgiOutcomes(c)
  PROVE  OwnSignals(CgiClient(c, o))
<1> DEFINE started == StartChild(c, o)
<1>1. o \in CgiOutcome /\ o.waitFails = FALSE /\ o.start # "fork"
  BY CgiOutcomeTypes DEF CgiOutcome, CgiOutcomes, StartResults
<1>2. CASE ~IsAllowedCgi(c)
  BY <1>2 DEF CgiClient
<1>3. CASE IsAllowedCgi(c) /\ HasChildFds(c)
  BY <1>1, <1>3, WaitForChildSignalled DEF CgiClient, IsAllowedCgi
<1>4. CASE IsAllowedCgi(c) /\ ~HasChildFds(c)
  <2>1. /\ SameRequest(c, started) /\ started.waitReturn = 0
        /\ o.start = "started" =>
             started.childPid = 1 /\ started.proc = o.child
        /\ o.start = "prepare" =>
             started.childPid = c.childPid /\ started.proc = c.proc
    BY <1>1, <1>4, StartChildEffect DEF IsAllowedCgi
  <2>2. o.start \in {"started", "prepare"}
        /\ o.child \in {"running"} \cup Ended
    BY <1>1 DEF CgiOutcome
  <2>3. started \in ClientRec /\ OwnSignals(started)
    <3> HIDE DEF started
    <3> QED BY <1>4, <2>1, <2>2
            DEF SameRequest, OwnSignals, Own, Unreaped, IsAllowedCgi, SameAnswer
  <2>4. CgiClient(c, o) = IF o.start = "started"
                          THEN WaitForChild(started, FALSE) ELSE started
    BY <1>1, <1>4 DEF CgiClient
  <2> HIDE DEF started
  <2> QED BY <2>1, <2>3, <2>4, WaitForChildSignalled
<1> QED BY <1>2, <1>3, <1>4

-----------------------------------------------------------------------------
(* The steps.                                                              *)

LEMMA ClientsKeptSignalled ==
  ASSUME SInv, UNCHANGED <<clients, left>>
  PROVE  SInv'
BY DEF SInv, Live

(* A step that changes one client.                                         *)
LEMMA OneClientSignalled ==
  ASSUME IInv, SInv, NEW s \in Slots, NEW d, OwnSignals(d),
         clients' = [clients EXCEPT ![s] = d], UNCHANGED left
  PROVE  SInv'
<1>1. clients'[s] = d /\ \A r \in Slots \ {s} : clients'[r] = clients[r]
  BY DEF IInv, TypeOK
<1>2. ASSUME NEW r \in Live' PROVE OwnSignals(clients'[r])
  BY <1>1, <1>2 DEF SInv, Live
<1> QED BY <1>2 DEF SInv

LEMMA EventSignalled ==
  ASSUME IInv, SInv, NEW e \in batch, HandleClientEvent(e)
  PROVE  SInv'
<1> DEFINE c == HandleClient(clients[e.slot], flag)
           d == UpdateClientFds(c, e.fd, e.send, e.receive)
<1>1. /\ e.slot \in Live /\ e.slot \in Slots
      /\ clients[e.slot] \in ClientRec
      /\ OwnSignals(clients[e.slot]) /\ MaySet(c, e.fd)
  BY LiveClients DEF HandleClientEvent, IInv, SInv, MaySet, FdTypes
<1>2. c \in ClientRec /\ OwnSignals(c)
  BY <1>1, HandleClientType, HandleClientSignalled
     DEF SameButSignals, SameAnswer
<1>3. CASE SafeToDelete(c)
  <2>1. /\ clients' = [clients EXCEPT ![e.slot] = NoClient]
        /\ left' = left \cup LeftBy(c)
    BY <1>3, Zenon DEF HandleClientEvent
  <2> HIDE DEF c
  <2>2. "stray" \notin LeftBy(c)
    BY <1>2 DEF LeftBy, OwnSignals
  <2>3. \A r \in Live' : r \in Live /\ clients'[r] = clients[r]
    BY <1>1, <2>1 DEF IInv, TypeOK, Live
  <2> QED BY <2>1, <2>2, <2>3 DEF SInv
<1>4. CASE ~SafeToDelete(c)
  <2>1. clients' = [clients EXCEPT ![e.slot] = d] /\ UNCHANGED left
    BY <1>4, Zenon DEF HandleClientEvent
  <2> HIDE DEF c
  <2>2. SameScript(c, d)
    BY <1>1, <1>2, UpdateClientFdsLeaves DEF Leaves, SameChild
  <2> HIDE DEF d
  <2>3. OwnSignals(d)
    BY <1>2, <2>2, KeepsSignalled
  <2> QED BY <1>1, <2>1, <2>3, OneClientSignalled
<1> QED BY <1>3, <1>4

LEMMA CgiEventSignalled ==
  ASSUME IInv, SInv, NEW e \in batch, HandleCgiEvent(e)
  PROVE  SInv'
<1>1. UNCHANGED left /\ e.fd \in ChildFds
  BY DEF HandleCgiEvent
<1>2. CASE e.slot \in Live /\ clients[e.slot].fd[e.fd] # "ABSENT"
  <2> DEFINE d == HandleCgiFds(clients[e.slot], e.fd, e.send, e.receive)
  <2>1. clients' = [clients EXCEPT ![e.slot] = d] /\ e.slot \in Slots
    BY <1>2 DEF HandleCgiEvent, Live
  <2>2. clients[e.slot] \in ClientRec /\ MaySet(clients[e.slot], e.fd)
    BY <1>1, <1>2, LiveClients DEF MaySet, HasChildFds, ChildFds, FdTypes, IInv
  <2>3. SameScript(clients[e.slot], d)
    BY <2>2, HandleCgiFdsLeaves DEF Leaves, SameChild
  <2> HIDE DEF d
  <2>4. OwnSignals(d)
    BY <1>2, <2>3, KeepsSignalled DEF SInv
  <2> QED BY <1>1, <2>1, <2>4, OneClientSignalled
<1>3. CASE UNCHANGED clients
  BY <1>1, <1>3, ClientsKeptSignalled
<1> QED BY <1>2, <1>3 DEF HandleCgiEvent

LEMMA AcceptSignalled ==
  ASSUME IInv, SInv, AcceptNewClient
  PROVE  SInv'
<1>1. UNCHANGED left
  BY DEF AcceptNewClient
<1>2. CASE UNCHANGED clients
  BY <1>1, <1>2, ClientsKeptSignalled
<1>3. CASE clients' # clients
  <2>1. PICK s \in Slots \ Live, allocated \in BOOLEAN :
          clients' = [clients EXCEPT ![s] = NewClient(allocated)]
    BY <1>3 DEF AcceptNewClient
  <2> QED BY <1>1, <2>1, NewClientSignalled, OneClientSignalled
<1> QED BY <1>2, <1>3

(* The steps for all clients: each of them leaves the children alone.      *)
LEMMA AllClientsSignalled ==
  ASSUME IInv, SInv, UNCHANGED left, Live' \subseteq Live,
         \A s \in Live : SameScript(clients[s], clients'[s])
  PROVE  SInv'
BY KeepsSignalled DEF SInv

LEMMA NextSignalled ==
  ASSUME {"fork", "waitpid"} \cap Faults = {}, IInv, SInv, [Next]_vars
  PROVE  SInv'
<1>0. \A s \in Live : clients[s] \in ClientRec /\ s \in Slots
  BY LiveClients DEF IInv
<1>1. CASE PrepareWait
  <2>1. Live' \subseteq Live /\ UNCHANGED left
    <3>1. ASSUME NEW s \in Slots, s \notin Live PROVE clients'[s] = NoClient
      BY <1>1, <3>1 DEF PrepareWait
    <3> QED BY <1>1, <3>1 DEF PrepareWait, Live
  <2>2. \A s \in Live : SameScript(clients[s], clients'[s])
    BY <1>0, <1>1, AddChildSocketsToEpollLeaves
       DEF PrepareWait, Leaves, SameChild
  <2> QED BY <2>1, <2>2, AllClientsSignalled
<1>2. CASE ShutdownServer
  BY <1>2, ShutdownLive, AllClientsSignalled
     DEF Leaves, SameChild, ShutdownServer
<1>3. CASE AcceptNewClient
  BY <1>3, AcceptSignalled
<1>4. ASSUME NEW e \in batch, HandleClientEvent(e) PROVE SInv'
  BY <1>4, EventSignalled
<1>5. ASSUME NEW e \in batch, HandleCgiEvent(e) PROVE SInv'
  BY <1>5, CgiEventSignalled
<1>6. ASSUME NEW s \in todo, IoStep(s) PROVE SInv'
  <2>1. s \in Live /\ UNCHANGED left
    BY <1>6 DEF IInv, LoopOK, IoStep, Visit
  <2>2. PICK o \in IoOutcomes(clients[s]) :
          clients' = [clients EXCEPT ![s] = IoClient(clients[s], o)]
    BY <1>6 DEF IoStep
  <2>3. SameScript(clients[s], IoClient(clients[s], o))
    BY <1>0, <2>1, IoClientLeaves DEF Leaves, SameChild
  <2>4. OwnSignals(IoClient(clients[s], o))
    BY <2>1, <2>3, KeepsSignalled DEF SInv
  <2> QED BY <1>0, <2>1, <2>2, <2>4, OneClientSignalled
<1>7. ASSUME NEW s \in todo, ServerStep(s) PROVE SInv'
  <2>1. s \in Live /\ UNCHANGED left
    BY <1>7 DEF IInv, LoopOK, ServerStep, Visit
  <2>2. PICK q \in ServerOutcomes(clients[s]) :
          clients' = [clients EXCEPT ![s] = ServeClient(clients[s], q)]
    BY <1>7 DEF ServerStep
  <2>3. SameScript(clients[s], ServeClient(clients[s], q))
    BY <1>0, <2>1, ServeClientServes, ServerOutcomesTyped DEF Serves
  <2>4. OwnSignals(ServeClient(clients[s], q))
    BY <2>1, <2>3, KeepsSignalled DEF SInv
  <2> QED BY <1>0, <2>1, <2>2, <2>4, OneClientSignalled
<1>8. ASSUME NEW s \in todo, CgiStep(s) PROVE SInv'
  <2>1. s \in Live /\ UNCHANGED left
    BY <1>8 DEF IInv, LoopOK, CgiStep, Visit
  <2>2. PICK o \in CgiOutcomes(clients[s]) :
          clients' = [clients EXCEPT ![s] = CgiClient(clients[s], o)]
    BY <1>8 DEF CgiStep
  <2>3. OwnSignals(CgiClient(clients[s], o))
    BY <1>0, <2>1, CgiClientSignalled DEF SInv
  <2> QED BY <1>0, <2>1, <2>2, <2>3, OneClientSignalled
<1>9. ASSUME NEW s \in Live, ClientMoves(s) PROVE SInv'
  <2>1. PICK d : /\ SameClient(clients[s], d)
                 /\ clients' = [clients EXCEPT ![s] = d]
                 /\ UNCHANGED left
    BY <1>9, ClientMovesEffect DEF Moved
  <2>2. OwnSignals(d)
    BY <2>1 DEF SInv, SameClient, OwnSignals, Own, SameAnswer
  <2> QED BY <1>0, <2>1, <2>2, OneClientSignalled
<1>10. CASE EpollWait \/ EndOfBatch \/ NextLoop \/ Connect \/ Sigint
            \/ UNCHANGED vars
  <2>1. UNCHANGED <<clients, left>>
    BY <1>10 DEF EpollWait, EndOfBatch, NextLoop, Connect, Sigint, vars
  <2> QED BY <2>1, ClientsKeptSignalled
<1>11. ASSUME NEW s \in todo, IoThrow(s) \/ ServerThrow(s) PROVE SInv'
  <2>1. \A r \in Live : "stray" \notin LeftBy(clients[r])
    BY DEF SInv, OwnSignals, LeftBy
  <2> QED BY <1>11, <2>1, ThrowEffect DEF SInv
<1> QED
  BY <1>1, <1>2, <1>3, <1>4, <1>5, <1>6, <1>7, <1>8, <1>9, <1>10, <1>11
     DEF Next, Server, Environment, ClientMoves

(* As long as fork and waitpid do not fail, kill() is only called with the *)
(* pid of the client's own child, and only while that child has not been   *)
(* reaped: never with -1, and never with a pid that may belong to another  *)
(* process by now, whatever timeouts, errors and SIGINT come together.     *)
THEOREM SignalsGoToOwnChild ==
  ASSUME {"fork", "waitpid"} \cap Faults = {}
  PROVE  Spec => []SignalsOwnChild
<1>1. Init => IInv /\ SInv
  BY InitTypes DEF Init, SInv, Live
<1>2. IInv /\ SInv /\ [Next]_vars => IInv' /\ SInv'
  BY NextTypes, NextSignalled
<1>3. SInv => SignalsOwnChild
  BY DEF SInv, OwnSignals, SignalsOwnChild
<1> QED BY <1>1, <1>2, <1>3, PTL DEF Spec
=============================================================================
