------------------------------ MODULE Startup ------------------------------
(***************************************************************************)
(* From main to the main loop: the configuration is read, the servers are  *)
(* built, one listening socket is opened for every port and registered     *)
(* with epoll (main.cpp, Configuration.cpp, ServerManager.cpp, Socket.cpp, *)
(* ConnectionManager.cpp).  Any step may throw; main then closes what is   *)
(* open and exits with 1.                                                  *)
(***************************************************************************)
EXTENDS VirtualServers

CONSTANTS Files,             \* the texts: sequences of lexemes
          MaxUniquePorts,    \* MAX_UNIQUE_PORTS
          Failures           \* the calls that may fail

ASSUME MaxUniquePortsAssumption == MaxUniquePorts \in Nat

(* The calls of the start that can fail.                                   *)
SocketCalls  == {"socket", "setsockopt", "bind", "listen"}
StartupCalls == SocketCalls \cup {"arguments", "open", "stat", "regular",
                                  "epoll_create", "epoll_ctl"}

(* A file is read as the delimiters and the texts between them.            *)
Lexemes == [delim : {""} \cup Delimiters, text : Seq(Seq(STRING))]

ASSUME FilesAssumption == Files \subseteq Seq(Lexemes)

ASSUME FailuresAssumption == Failures \subseteq StartupCalls

VARIABLES
  phase,       \* what launchWebServer does next
  file,        \* the text of the configuration file
  pos,         \* the position in what is read, walked over or opened
  reader,      \* Configuration while it reads
  walk,        \* Configuration while it sets the paths
  http,        \* the settings of the http context
  servers,     \* ServerManager::_servers
  ports,       \* what getUniquePorts returned
  sockets,     \* Socket::_allSockets: the ports of the sockets listening
  fds,         \* the ports with an open socket
  epoll,       \* _epollFd: not created, open or closed
  registered   \* the ports whose socket epoll watches

vars == <<phase, file, pos, reader, walk, http, servers, ports, sockets, fds,
          epoll, registered>>

Phases == {"file", "read", "walk", "http", "servers", "sockets",
           "epoll", "running", "stopped", "thrown", "exit"}

(* Static initialisation creates the epoll descriptor before main runs.    *)
Init ==
  /\ phase = "file"
  /\ file \in Files
  /\ pos = 1
  /\ reader = EmptyReader
  /\ walk = EmptyWalk(<<>>)
  /\ http = DefaultSettings
  /\ servers = <<>>
  /\ ports = <<>>
  /\ sockets = <<>>
  /\ fds = {}
  /\ epoll \in {"open"} \cup {"none" : f \in Failures \cap {"epoll_create"}}
  /\ registered = {}

configVars == <<file, reader, walk, http, servers, ports>>
socketVars == <<sockets, fds, epoll, registered>>

-----------------------------------------------------------------------------
(* Configuration::Configuration.                                           *)

CheckFileAccessType ==
  /\ phase = "file"
  /\ \E f \in {"none"} \cup
              (Failures \cap {"arguments", "open", "stat", "regular"}) :
       phase' = IF f = "none" THEN "read" ELSE "thrown"
  /\ UNCHANGED <<pos, configVars, socketVars>>

FillTokensVector ==
  /\ phase = "read"
  /\ pos <= Len(file)
  /\ \E r \in {ReadLexeme(reader, file[pos])} :
       /\ reader' = r
       /\ phase' = IF r.ok THEN "read" ELSE "thrown"
  /\ pos' = pos + 1
  /\ UNCHANGED <<file, walk, http, servers, ports, socketVars>>

(* A text at the end that nothing delimits, and less than three tokens.    *)
EndOfFile ==
  /\ phase = "read"
  /\ pos > Len(file)
  /\ IF reader.info # <<>> \/ Len(reader.tokens) < 3
     THEN phase' = "thrown" /\ UNCHANGED <<pos, walk>>
     ELSE phase' = "walk" /\ pos' = 1 /\ walk' = EmptyWalk(reader.tokens)
  /\ UNCHANGED <<file, reader, http, servers, ports, socketVars>>

FillAllTokensPaths ==
  /\ phase = "walk"
  /\ pos < Len(walk.tokens)
  /\ \E w \in {WalkToken(walk, pos)} :
       /\ walk' = w
       /\ phase' = IF w.ok THEN "walk" ELSE "thrown"
  /\ pos' = pos + 1
  /\ UNCHANGED <<file, reader, http, servers, ports, socketVars>>

(* What ServerManager requires of the tokens.                              *)
EndOfWalk ==
  /\ phase = "walk"
  /\ pos >= Len(walk.tokens)
  /\ phase' = IF /\ WalkEndsWell(walk)
                 /\ Len(walk.tokens) <= MaxTokens
                 /\ reader.serverId >= 1
              THEN "http" ELSE "thrown"
  /\ UNCHANGED <<pos, configVars, socketVars>>

-----------------------------------------------------------------------------
(* ServerManager::ServerManager.                                           *)

SetHttpDirectives ==
  /\ phase = "http"
  /\ \E s \in {HttpSettings(walk.tokens)} :
       /\ http' = s
       /\ phase' = IF s.ok THEN "servers" ELSE "thrown"
  /\ UNCHANGED <<pos, file, reader, walk, servers, ports, socketVars>>

MakeVirtualServer ==
  /\ phase = "servers"
  /\ Len(servers) < reader.serverId
  /\ \E s \in {NewVirtualServer(walk.tokens, Len(servers) + 1, http)} :
       /\ servers' = Append(servers, s)
       /\ phase' = IF s.ok THEN "servers" ELSE "thrown"
  /\ UNCHANGED <<pos, file, reader, walk, http, ports, socketVars>>

GetUniquePorts ==
  /\ phase = "servers"
  /\ Len(servers) = reader.serverId
  /\ \E ps \in {UniquePorts(servers)} :
       /\ ports' = ps
       /\ phase' = IF Len(ps) <= MaxUniquePorts THEN "sockets" ELSE "thrown"
  /\ pos' = 1
  /\ UNCHANGED <<file, reader, walk, http, servers, socketVars>>

-----------------------------------------------------------------------------
(* Socket::Socket and ConnectionManager::ConnectionManager.                *)

(* Mutant: the descriptor of a socket that could not be set up stays open. *)
FdsAfterLeak(failed, p) == IF failed # "socket" THEN fds \cup {p} ELSE fds

(* The constructor closes the descriptor of a socket it could not set up.  *)
FdsAfter(failed, p) == IF failed = "none" THEN fds \cup {p} ELSE fds

OpenSocket ==
  /\ phase = "sockets"
  /\ pos <= Len(ports)
  /\ \E failed \in {"none"} \cup (Failures \cap SocketCalls) :
       /\ fds' = FdsAfter(failed, ports[pos])
       /\ sockets' = IF failed = "none" THEN Append(sockets, ports[pos])
                     ELSE sockets
       /\ phase' = IF failed = "none" THEN "sockets" ELSE "thrown"
  /\ pos' = pos + 1
  /\ UNCHANGED <<configVars, epoll, registered>>

NewConnectionManager ==
  /\ phase = "sockets"
  /\ pos > Len(ports)
  /\ phase' = IF epoll = "none" THEN "thrown" ELSE "epoll"
  /\ pos' = 1
  /\ UNCHANGED <<configVars, socketVars>>

AddServerSocketToEpoll ==
  /\ phase = "epoll"
  /\ pos <= Len(sockets)
  /\ \/ registered' = registered \cup {sockets[pos]} /\ phase' = phase
     \/ "epoll_ctl" \in Failures /\ phase' = "thrown" /\ UNCHANGED registered
  /\ pos' = pos + 1
  /\ UNCHANGED <<configVars, sockets, fds, epoll>>

EnterMainLoop ==
  /\ phase = "epoll"
  /\ pos > Len(sockets)
  /\ phase' = "running"
  /\ UNCHANGED <<pos, configVars, socketVars>>

(* The loop ends after a shutdown, or with an exception it does not catch. *)
LeaveMainLoop ==
  /\ phase = "running"
  /\ phase' \in {"stopped", "thrown"}
  /\ UNCHANGED <<pos, configVars, socketVars>>

(* Either way main closes the epoll descriptor and the listening sockets,  *)
(* and with its descriptor a socket leaves epoll.                          *)
LeaveMain ==
  /\ phase \in {"stopped", "thrown"}
  /\ phase' = "exit"
  /\ epoll' = IF epoll = "open" THEN "closed" ELSE epoll
  /\ fds' = fds \ ToSet(sockets)
  /\ registered' = registered \ ToSet(sockets)
  /\ UNCHANGED <<pos, configVars, sockets>>

StartNext ==
  \/ CheckFileAccessType \/ FillTokensVector \/ EndOfFile
  \/ FillAllTokensPaths \/ EndOfWalk
  \/ SetHttpDirectives \/ MakeVirtualServer \/ GetUniquePorts
  \/ OpenSocket \/ NewConnectionManager \/ AddServerSocketToEpoll
  \/ EnterMainLoop \/ LeaveMain

Next == StartNext \/ LeaveMainLoop

Spec == Init /\ [][Next]_vars

-----------------------------------------------------------------------------
(* What the tokens mean, without the walk: the contexts around token i are *)
(* those whose brace is open behind every token from the brace to i.       *)

Opened(tokens, a, b, type) ==
  Cardinality({k \in a .. b : tokens[k].type = type})

Depth(tokens, a, b) == Opened(tokens, a, b, "OPENING_BRACE")
                         - Opened(tokens, a, b, "CLOSING_BRACE")

Enclosing(tokens, i) ==
  {j \in 1 .. i - 1 :
     /\ tokens[j + 1].type = "OPENING_BRACE"
     /\ \A k \in j + 1 .. i : Depth(tokens, j + 1, k) >= 1}

(* The directives of this name directly inside the context at token c.     *)
Written(tokens, c, name) ==
  {i \in DOMAIN tokens :
     /\ tokens[i].type = "DIRECTIVE"
     /\ tokens[i].info # <<>> /\ Head(tokens[i].info) = <<name>>
     /\ c \in Enclosing(tokens, i)
     /\ \A e \in Enclosing(tokens, i) : e <= c}

(* The same for a context at this depth, and for every http context.       *)
WrittenAt(tokens, c, depth, name) ==
  IF Cardinality(Enclosing(tokens, c)) = depth THEN Written(tokens, c, name)
  ELSE {}

WrittenInHttp(tokens, name) ==
  UNION {WrittenAt(tokens, c, 0, name) :
           c \in {c \in DOMAIN tokens : tokens[c].context = "HTTP"}}

(* The n-th "server" of the file, and the "location"s inside it.           *)
ServerToken(tokens, n) ==
  CHOOSE c \in DOMAIN tokens :
    tokens[c].context = "SERVER" /\ tokens[c].serverId = n

LocationsInside(tokens, c) ==
  {l \in DOMAIN tokens : /\ tokens[l].context = "LOCATION"
                         /\ c \in Enclosing(tokens, l)
                         /\ Cardinality(Enclosing(tokens, c)) = 1}

(* The last directive of the innermost context that has one.               *)
Innermost(scopes) ==
  LET given == {k \in DOMAIN scopes : scopes[k] # {}}
  IN IF given = {} THEN {} ELSE {Max(scopes[Max(given)])}

LexicalValue(tokens, name, scopes) ==
  IF Innermost(scopes) = {} THEN DefaultValue(name)
  ELSE LET i == CHOOSE i \in Innermost(scopes) : TRUE
       IN Supported(name, Tail(tokens[i].info))

LexicalPages(tokens, scopes) ==
  LET CodeOf(i)  == NumberOf(tokens[i].info[2])
      With(code) == [k \in DOMAIN scopes |->
                       {i \in scopes[k] : CodeOf(i) = code}]
      PageOf(i)  == Tail(Tail(tokens[i].info))
  IN [code \in {CodeOf(i) : i \in UNION ToSet(scopes)} |->
        PageOf(CHOOSE i \in Innermost(With(code)) : TRUE)]

(* The settings that the scopes of each name give, the outermost first.    *)
AreLexical(tokens, settings, Scopes(_)) ==
  /\ \A n \in SingleValued :
       settings.value[n] = LexicalValue(tokens, n, Scopes(n))
  /\ settings.pages = LexicalPages(tokens, Scopes("error_page"))

-----------------------------------------------------------------------------
(* Properties.                                                             *)

(* Where the start stands.                                                 *)
TypeOK ==
  /\ phase \in Phases
  /\ pos \in Nat
  /\ epoll \in {"none", "open", "closed"}
  /\ fds \subseteq ToSet(ports)
  /\ registered \subseteq ToSet(ports)
  /\ ToSet(sockets) \subseteq ToSet(ports)
  /\ ToSet(ports) \subseteq PortNumbers

(* In a file that _fillAllTokensPaths accepted every token's path is the   *)
(* contexts around it, and from the second token on every brace has its    *)
(* partner.                                                                *)
PathsAreLexical ==
  phase = "http" =>
    LET tokens == walk.tokens IN
      /\ \A i \in DOMAIN tokens :
           /\ tokens[i].path = InOrder(Enclosing(tokens, i))
           /\ \A j \in Enclosing(tokens, i) : tokens[j].type = "CONTEXT"
      /\ Depth(tokens, 2, Len(tokens)) = 0
      /\ \A i \in DOMAIN tokens \ {1} : Depth(tokens, 2, i) >= 0

(* A setting of a server is what was last written for it in the server,    *)
(* else in http, else the default; a setting of a location is what was     *)
(* written in the location, else that of its server, wherever in the file  *)
(* each of them stands.                                                    *)
SettingsAreLexical ==
  phase = "running" =>
    \A n \in DOMAIN servers :
      LET tokens == walk.tokens
          c      == ServerToken(tokens, n)
          named  == InOrder(LocationsInside(tokens, c))
          InServer(name) == << WrittenInHttp(tokens, name),
                               WrittenAt(tokens, c, 1, name) >>
          InLocation(l, name) ==
            Append(InServer(name), WrittenAt(tokens, l, 2, name))
          listens == InOrder(WrittenAt(tokens, c, 1, "listen"))
          naming  == WrittenAt(tokens, c, 1, "server_name")
      IN /\ AreLexical(tokens, servers[n].settings, InServer)
         /\ servers[n].settings.ports =
              IF listens = <<>> THEN <<DefaultPort>>
              ELSE [k \in DOMAIN listens |->
                      NumberOf(tokens[listens[k]].info[2])]
         /\ ToSet(servers[n].settings.names) =
              IF naming = {} THEN {DefaultName}
              ELSE {Tail(tokens[i].info) : i \in naming}
         /\ \A k \in DOMAIN servers[n].locations :
              LET loc == servers[n].locations[k] IN
                IF k \in DOMAIN named
                THEN AreLexical(tokens, loc.settings,
                                LAMBDA name : InLocation(named[k], name))
                ELSE /\ k = Len(named) + 1
                     /\ loc.uri = RootUri
                     /\ AreLexical(tokens, loc.settings, InServer)

(* A server that runs watches an open socket for every port of every one   *)
(* of its servers, and no other.                                           *)
StartsWhole ==
  phase = "running" =>
    /\ epoll = "open"
    /\ registered = fds
    /\ fds = UNION {ToSet(servers[i].settings.ports) : i \in DOMAIN servers}

(* Whatever failed, main exits with nothing left open.                     *)
ExitsClean == phase = "exit" => fds = {} /\ registered = {} /\ epoll # "open"
=============================================================================
