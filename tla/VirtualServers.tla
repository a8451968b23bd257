--------------------------- MODULE VirtualServers ---------------------------
(***************************************************************************)
(* The servers and locations a configuration describes, and which of them  *)
(* a request gets (VirtualServer.cpp, LocationSettings.cpp,                *)
(* ServerManager.cpp).                                                     *)
(***************************************************************************)
EXTENDS Settings

CONSTANT UriPaths            \* the paths the words of location uris spell

(* A path: its segments, and whether it ends with a slash.  The segments   *)
(* of a uri are what stands between its slashes: a uri that begins with    *)
(* one has "" as the first.  Without any segment it is the empty string.   *)
Path(segs, slash) == [segs |-> segs, slash |-> slash]
RootUri == Path(<< "" >>, TRUE)
NoUri   == Path(<<>>, TRUE)

-----------------------------------------------------------------------------
(* Building a server.                                                      *)

(* Selections of tokens are sets of positions; a directive keeps that of   *)
(* its token.                                                              *)
DirectivesAt(tokens, S) == [i \in S |-> Directive(tokens[i])]

(* The directives directly inside http.                                    *)
HttpSettings(tokens) ==
  LET own == {i \in DOMAIN tokens : IsTokenHttpDirective(tokens, tokens[i])}
  IN IF \A i \in own : IsDirective(tokens, tokens[i])
     THEN CheckAndApply(DirectivesAt(tokens, own), DefaultSettings)
     ELSE [DefaultSettings EXCEPT !.ok = FALSE]

(* What the text of a location has behind the word "location".             *)
UriFromToken(info) ==
  (IF Tail(Head(info)) = <<>> THEN <<>> ELSE << Tail(Head(info)) >>)
    \o Tail(info)

(* The path of such a text; one glued together from several words is the   *)
(* uri of no request.                                                      *)
LocationUri(uri) ==
  IF uri \in DOMAIN UriPaths THEN UriPaths[uri]
  ELSE Path(FlattenSeq(uri), FALSE)

(* The tokens directly inside a location of this name: every one must be a *)
(* directive.                                                              *)
LocationTokens(tokens, inServer, info) ==
  {i \in inServer : /\ Len(tokens[i].path) = 3
                    /\ tokens[tokens[i].path[3]].info = info}

NewLocation(tokens, inServer, server, info) ==
  LET uri   == UriFromToken(info)
      own   == LocationTokens(tokens, inServer, info)
      valid == /\ FlattenSeq(uri) # <<>>
               /\ \A i \in own : IsDirective(tokens, tokens[i])
  IN [uri |-> LocationUri(uri),
      settings |-> IF valid
                   THEN CheckAndApply(DirectivesAt(tokens, own), server)
                   ELSE [server EXCEPT !.ok = FALSE]]

DuplicateLocations(locs) ==
  \E i, j \in DOMAIN locs : i < j /\ locs[i].uri = locs[j].uri

(* A server without a location "/" gets one with its own settings.         *)
WithDefaultLocation(locs, server) ==
  IF \E i \in DOMAIN locs : locs[i].uri = RootUri THEN locs
  ELSE Append(locs, [uri |-> RootUri, settings |-> server])

(* The directives directly inside a server.                                *)
ServerLevel(tokens, dirs) == {i \in dirs : Len(tokens[i].path) = 2}

(* Its locations, on copies of its settings.                               *)
ServerLocations(tokens, inside, server) ==
  LET named == InOrder({i \in inside : tokens[i].context = "LOCATION"})
  IN [n \in DOMAIN named |->
        NewLocation(tokens, inside, server, tokens[named[n]].info)]

(* The server with this number: its own directives first, on a copy of the *)
(* settings of http, then its locations.                                   *)
NewVirtualServer(tokens, id, http) ==
  LET inside == {i \in DOMAIN tokens : IsServerToken(tokens, tokens[i], id)}
      dirs   == {i \in inside : tokens[i].type = "DIRECTIVE"}
      valid  == \A i \in dirs : IsDirective(tokens, tokens[i])
      own    == ServerLevel(tokens, dirs)
      server == IF valid THEN CheckAndApply(DirectivesAt(tokens, own), http)
                ELSE [http EXCEPT !.ok = FALSE]
      locs   == ServerLocations(tokens, inside, server)
  IN [id        |-> id,
      settings  |-> server,
      locations |-> WithDefaultLocation(locs, server),
      ok        |-> /\ server.ok
                    /\ \A i \in DOMAIN locs : locs[i].settings.ok
                    /\ ~DuplicateLocations(locs)]

(* Every port some server listens to, once, in the order they are found.   *)
AddOnePort(ports, p) == IF p \in ToSet(ports) THEN ports ELSE Append(ports, p)

(* Mutant: only the first port of every server is collected.               *)
UniquePortsFirst(servers) ==
  FoldLeft(AddOnePort, <<>>,
           [i \in DOMAIN servers |-> Head(servers[i].settings.ports)])

UniquePorts(servers) ==
  FoldLeft(AddOnePort, <<>>,
           FlattenSeq([i \in DOMAIN servers |-> servers[i].settings.ports]))

-----------------------------------------------------------------------------
(* Choosing a server and a location.                                       *)

IsListeningToPort(server, port) == port \in ToSet(server.settings.ports)
IsContainingName(server, name)  == name \in ToSet(server.settings.names)

NoServer == 0

ServersOfPort(servers, port) ==
  {i \in DOMAIN servers : IsListeningToPort(servers[i], port)}

(* The first server of the port with this name, else the first of the port.*)
(* The server is given by its number.                                      *)
ServerByPort(servers, port, name) ==
  LET onPort == ServersOfPort(servers, port)
      named  == {i \in onPort : IsContainingName(servers[i], name)}
  IN CASE onPort = {} -> NoServer
       [] named # {}  -> CHOOSE i \in named : \A j \in named : i <= j
       [] OTHER       -> CHOOSE i \in onPort : \A j \in onPort : i <= j

(* The server the client gets and the error it is refused with: the Host   *)
(* field names a port and a server, and the connection must have come in   *)
(* on a port of that server.  The port is 0 when getsockname failed.       *)
AssignVirtualServer(servers, hostPort, hostName, clientPort) ==
  LET s == ServerByPort(servers, hostPort, hostName)
  IN IF s = NoServer THEN [server |-> 1, errorCode |-> 400]
     ELSE IF clientPort = 0 THEN [server |-> 1, errorCode |-> 500]
     ELSE IF ~IsListeningToPort(servers[s], clientPort)
     THEN [server |-> 1, errorCode |-> 400]
     ELSE [server |-> s, errorCode |-> 0]

AmIServerLocation(server, uri) ==
  \E i \in DOMAIN server.locations : server.locations[i].uri = uri

FetchLocationWithUri(server, uri) ==
  LET found == {i \in DOMAIN server.locations : server.locations[i].uri = uri}
  IN server.locations[CHOOSE i \in found : \A j \in found : i <= j]

(* getDirName: a path without its last segment.  Of NoUri it throws.       *)
DirName(p) == Path(Front(p.segs), TRUE)

(* Mutant: every path belongs to the location "/".                         *)
LocationUriFromPathRoot(server, path) == RootUri

(* The path with a slash, shortened until it is the uri of a location: at  *)
(* the latest at "/" when it begins so.  Otherwise it may come to NoUri,   *)
(* and the next getDirName throws.                                         *)
LocationUriFromPath(server, path) ==
  LET try[n \in 0 .. Len(path.segs)] ==
        LET uri == Path(SubSeq(path.segs, 1, n), TRUE)
        IN IF n = 0 \/ AmIServerLocation(server, uri) THEN uri
           ELSE try[Len(DirName(uri).segs)]
  IN try[Len(path.segs)]

LocationOf(server, path) ==
  FetchLocationWithUri(server, LocationUriFromPath(server, path))

IsMethodAllowed(location, method) ==
  <<method>> \in ToSet(location.settings.value["limit_except"])
=============================================================================
