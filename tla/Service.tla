------------------------------ MODULE Service ------------------------------
(***************************************************************************)
(* What the server makes of a request that no script answers: the server   *)
(* and the location it belongs to, what is read from or written to the     *)
(* files below www/, one call at a time, and the response on its way to    *)
(* the peer (ServerManager.cpp, ResponseGenerator.cpp, FileUtils.cpp,      *)
(* Autoindex.cpp).  One thread serves one request after the other; the     *)
(* files may be changed by somebody else between any two calls.            *)
(***************************************************************************)
EXTENDS VirtualServers, Files, OutChain

CONSTANTS Servers,           \* what Startup made of the configuration
          Requests,          \* the requests that may come
          Decoded,           \* what uriDecode makes of a name
          Now,               \* the name that the time of day gives a file
          SizeOf,            \* the bytes of every content
          PageSize,          \* the bytes of a page the server writes itself
          KnownCodes,        \* the codes HttpStatusCode has a phrase for
          FirstFiles,        \* the files when the server starts
          Changes,           \* what somebody else may create or remove
          MaxRequests,       \* bound: the requests served
          MaxChanges         \* bound: the changes by somebody else

Paths == [segs : Seq(STRING), slash : BOOLEAN]

IndexesOf(location) == location.settings.value["index"]

(* Every server that was started has its locations under different uris,   *)
(* "/" among them.                                                         *)
ASSUME ServersAssumption ==
  /\ DOMAIN Servers \subseteq Nat
  /\ \A i \in DOMAIN Servers :
       LET locs == Servers[i].locations
       IN /\ Servers[i].ok
          /\ DOMAIN locs \subseteq Nat /\ ~DuplicateLocations(locs)
          /\ \E n \in DOMAIN locs : locs[n].uri = RootUri
          /\ \A n \in DOMAIN locs : /\ locs[n].uri \in Paths
                                    /\ locs[n].uri.segs # <<>>
                                    /\ IndexesOf(locs[n]) \in Seq(Seq(STRING))

Contents == DOMAIN SizeOf

(* Every content a file may have has a size, and so has a page.            *)
ASSUME SizesOfAssumption ==
  /\ SizeOf \in [Contents -> Nat]
  /\ "" \in Contents
  /\ PageSize \in Nat

ASSUME FilesAssumption ==
  /\ IsTree(FirstFiles)
  /\ \A p \in DOMAIN FirstFiles : FirstFiles[p] \in Contents \cup {Dir}
  /\ \A p \in DOMAIN Changes : Changes[p] \in Contents \cup {Dir}

(* There is a phrase for every code the server itself answers with.        *)
ASSUME KnownCodesAssumption ==
  {200, 201, 204, 400, 403, 404, 413, 500} \subseteq KnownCodes

(* Another method is refused before, by limit_except.                      *)
ASSUME RequestsAssumption ==
  \A r \in Requests : /\ r.method \in Methods /\ r.path \in Paths
                      /\ r.body \in Contents
                      /\ r.error \in KnownCodes \cup {0}

ASSUME BoundsAssumption == MaxRequests \in Nat /\ MaxChanges \in Nat

VARIABLES
  fs,          \* the files below www/
  pc,          \* the call that comes next
  client,      \* the request, its error code, its server
  gen,         \* ResponseGenerator: the status, the response, the lookup
  out,         \* the response message on its way
  hist         \* what the properties need to know of the past

vars == <<fs, pc, client, gen, out, hist>>

-----------------------------------------------------------------------------
(* Responses.                                                              *)

Response(kind, data, code, names) ==
  [kind |-> kind, data |-> data, code |-> code, names |-> names]

NoBody         == Response("empty", "", 0, {})
FileBody(data) == Response("file", data, 0, {})
PageFor(code)  == Response("page", "", code, {})
Listing(f, segs) == Response("listing", "", 0, Children(f, segs))

BodySize(response) ==
  CASE response.kind = "file"  -> SizeOf[response.data]
    [] response.kind = "empty" -> 0
    [] OTHER                   -> PageSize

(* The path that words of the configuration spell, below www/.             *)
SegsOf(value) == SelectSeq(FlattenSeq(value), LAMBDA s : s # "")

(* What getErrorPagePath finds, as a set.                                  *)
ErrorPagePath(settings, code) ==
  {SegsOf(settings.pages[c]) : c \in {code} \cap DOMAIN settings.pages}

IsRedirect(location)   == location.settings.value["return"] # <<>>
RedirectCode(location) == NumberOf(location.settings.value["return"][1])

MaxBodyOf(location) ==
  NumberOf(location.settings.value["client_max_body_size"][1])

Autoindexes(location) == location.settings.value["autoindex"] = Word("on")
UploadFolder(location) == SegsOf(location.settings.value["upload_folder"])

(* The root of the location instead of its uri, which the path begins with *)
(* but for a slash at the end.                                             *)
PathRelativeToExecutable(location, path) ==
  LET rest == SubSeq(path.segs, Len(location.uri.segs) + 1, Len(path.segs))
  IN Path(SegsOf(location.settings.value["root"]) \o rest,
          path.slash \/ rest = <<>>)

(* The n-th name tried for an upload, from the query or the time.          *)
UploadBase(query) == IF query.name = "" THEN Now ELSE Decoded[query.name]

Filename(query, n) ==
  UploadBase(query)
    \o (IF n = 0 THEN "" ELSE "_" \o ToString(n))
    \o (IF query.ext = "" THEN ".bin" ELSE query.ext)

-----------------------------------------------------------------------------
(* ServerManager::loop up to the generator.  The error a request has when  *)
(* its header was read is part of the request.                             *)

(* _checkIfRequestAllowed and _checkBodySizeLimit: the error found.  The   *)
(* length is that of the field or of the body, -1 for a field that is no   *)
(* number.                                                                 *)
CheckIfRequestAllowed(server, r) ==
  LET location == LocationOf(server, r.path)
  IN CASE ~IsMethodAllowed(location, r.method)     -> 403
       [] IsMethodAllowed(location, r.method) /\ r.length = -1 -> 400
       [] OTHER -> IF r.length > MaxBodyOf(location) THEN 413 ELSE 0

Assigned(r) ==
  IF r.error = 400 THEN [server |-> 1, errorCode |-> 400]
  ELSE LET a == AssignVirtualServer(Servers, r.hostPort, r.hostName,
                                    r.clientPort)
       IN [a EXCEPT !.errorCode = IF @ # 0 THEN @ ELSE r.error]

(* _checkIfRequestAllowed looks for the location and throws: no uri fits.  *)
NoLocation(r) ==
  LET a == Assigned(r)
  IN a.errorCode = 0 /\ LocationUriFromPath(Servers[a.server], r.path) = NoUri

NewClient(r) ==
  LET a == Assigned(r)
  IN [request |-> r, server |-> a.server,
      errorCode |-> IF a.errorCode # 0 \/ NoLocation(r) THEN a.errorCode
                    ELSE CheckIfRequestAllowed(Servers[a.server], r)]

(* The folder for uploads of every request's location is a path.           *)
ASSUME FoldersAssumption ==
  \A r \in Requests :
    LET server == Servers[NewClient(r).server]
    IN LocationUriFromPath(server, r.path) # NoUri =>
         UploadFolder(LocationOf(server, r.path)) \in Seq(STRING)

ClientServer   == Servers[client.server]
ClientLocation == LocationOf(ClientServer, client.request.path)
Target == PathRelativeToExecutable(ClientLocation, client.request.path)

NoRequest == [request |-> CHOOSE r \in Requests : TRUE,
              server |-> 0, errorCode |-> 0]

(* reading is the path the calls are about, then what they are made for,   *)
(* n the indexes or the names tried so far; linked: the output file still  *)
(* has its name.                                                           *)
NewGenerator == [status |-> 0, response |-> NoBody, then |-> "file",
                 reading |-> Path(<<>>, TRUE), linked |-> TRUE, n |-> 0]

Init ==
  /\ fs = FirstFiles
  /\ pc = "idle"
  /\ client = NoRequest
  /\ gen = NewGenerator
  /\ out = StartSending(0)
  /\ hist = [served |-> 0, changes |-> 0, before |-> FirstFiles,
             during |-> {}, touched |-> {}, kept |-> <<>>]

-----------------------------------------------------------------------------
(* Steps inside the generator.                                             *)

(* HttpStatusCode::getReasonPhrase throws for a code it does not know, and *)
(* nothing below main catches that.                                        *)
AnswerWith(status, response) ==
  /\ gen' = [gen EXCEPT !.status = status, !.response = response]
  /\ pc' = IF status \in KnownCodes THEN "answer" ELSE "down"

ReadNext(path, purpose) ==
  /\ gen' = [gen EXCEPT !.reading = path, !.then = purpose]
  /\ pc' = "open"

(* _renderErrorPage: the configured page when it can be read, else one     *)
(* that the server writes.                                                 *)
RenderErrorPage(settings, code) ==
  IF ErrorPagePath(settings, code) = {} THEN AnswerWith(code, PageFor(code))
  ELSE \E segs \in ErrorPagePath(settings, code) :
         /\ gen' = [gen EXCEPT !.reading = Path(segs, FALSE),
                               !.then = "page", !.status = code]
         /\ pc' = "open"

RenderLocationErrorPage(code) == RenderErrorPage(ClientLocation.settings, code)

(* _constructIndex: the next index of the directory, after the last one    *)
(* _autoindexHtml.                                                         *)
TryIndex(n, directory) ==
  IF n <= Len(IndexesOf(ClientLocation))
  THEN /\ gen' = [gen EXCEPT !.n = n, !.then = "index", !.reading =
                    Path(directory \o IndexesOf(ClientLocation)[n], FALSE)]
       /\ pc' = "open"
  ELSE IF Autoindexes(ClientLocation)
  THEN pc' = "opendir" /\ gen' = [gen EXCEPT !.reading = Target]
  ELSE RenderLocationErrorPage(404)

(* Mutant: the same index is tried again.                                  *)
NotReadAgain ==
  CASE gen.then = "file"  -> RenderLocationErrorPage(404)
    [] gen.then = "index" -> TryIndex(gen.n, Target.segs)
    [] gen.then = "page"  -> AnswerWith(gen.status, PageFor(gen.status))

(* What follows when a file could not be put into a string.                *)
NotRead ==
  CASE gen.then = "file"  -> RenderLocationErrorPage(404)
    [] gen.then = "index" -> TryIndex(gen.n + 1, Target.segs)
    [] gen.then = "page"  -> AnswerWith(gen.status, PageFor(gen.status))

IsRead(data) ==
  AnswerWith(IF gen.then = "page" THEN gen.status ELSE 200, FileBody(data))

-----------------------------------------------------------------------------
(* Actions of the server.                                                  *)

(* A request comes and is looked at; nothing below main catches what       *)
(* getDirName throws.                                                      *)
Receive ==
  /\ pc = "idle"
  /\ hist.served < MaxRequests
  /\ \E r \in Requests : /\ client' = NewClient(r)
                         /\ pc' = IF NoLocation(r) THEN "down" ELSE "menu"
  /\ gen' = NewGenerator
  /\ hist' = [hist EXCEPT !.served = @ + 1, !.before = fs,
                          !.during = {fs}, !.touched = {}]
  /\ UNCHANGED <<fs, out>>

(* _responseMenu.                                                          *)
ResponseMenu ==
  /\ pc = "menu"
  /\ CASE client.errorCode # 0 ->
            RenderErrorPage(ClientServer.settings, client.errorCode)
       [] client.errorCode = 0 /\ IsRedirect(ClientLocation) ->
            RenderLocationErrorPage(RedirectCode(ClientLocation))
       [] OTHER ->
            /\ pc' = CASE client.request.method = "GET"    -> "stat"
                       [] client.request.method = "POST"   -> "name"
                       [] client.request.method = "DELETE" -> "remove"
            /\ gen' = [gen EXCEPT !.reading = Target]
  /\ UNCHANGED <<fs, client, out, hist>>

(* isPathFileOrFolder.                                                     *)
IsPathFileOrFolder ==
  /\ pc = "stat"
  /\ LET found == Stat(fs, gen.reading)
     IN CASE found = "file" -> ReadNext(gen.reading, "file")
          [] found = "dir"  -> TryIndex(1, gen.reading.segs)
          [] OTHER -> RenderLocationErrorPage(FileOrFolderStatusCode(found))
  /\ UNCHANGED <<fs, client, out, hist>>

(* isPathValid opens the file, ...                                         *)
OpenFile ==
  /\ pc = "open"
  /\ IF Opens(fs, gen.reading) THEN pc' = "fstat" /\ UNCHANGED gen ELSE NotRead
  /\ UNCHANGED <<fs, client, out, hist>>

(* Mutant: it throws for everything but a file.                            *)
StatFileThrowing ==
  /\ pc = "fstat"
  /\ pc' = IF Stat(fs, gen.reading) = "file" THEN "read" ELSE "down"
  /\ UNCHANGED <<fs, client, gen, out, hist>>

(* ... asks for its type, and throws when it is gone.                      *)
StatFile ==
  /\ pc = "fstat"
  /\ CASE Stat(fs, gen.reading) = "file" -> pc' = "read" /\ UNCHANGED gen
       [] Stat(fs, gen.reading) = "dir"  -> NotRead
       [] OTHER                          -> pc' = "down" /\ UNCHANGED gen
  /\ UNCHANGED <<fs, client, out, hist>>

(* putFileInString opens it again and reads it.  A directory that came in  *)
(* its place has no bytes.                                                 *)
ReadFile ==
  /\ pc = "read"
  /\ IF Opens(fs, gen.reading)
     THEN IsRead(IF fs[gen.reading.segs] = Dir THEN ""
                 ELSE fs[gen.reading.segs])
     ELSE NotRead
  /\ UNCHANGED <<fs, client, out, hist>>

(* Autoindex opens the directory to see whether it can, ...                *)
IsDirectoryValid ==
  /\ pc = "opendir"
  /\ IF OpenDir(fs, gen.reading) = "dir" THEN pc' = "readdir" /\ UNCHANGED gen
     ELSE RenderLocationErrorPage(DirFailStatusCode(OpenDir(fs, gen.reading)))
  /\ UNCHANGED <<fs, client, out, hist>>

(* ... and again to list it.                                               *)
CreateHtmlMenu ==
  /\ pc = "readdir"
  /\ IF OpenDir(fs, gen.reading) = "dir"
     THEN AnswerWith(200, Listing(fs, gen.reading.segs))
     ELSE RenderLocationErrorPage(500)
  /\ UNCHANGED <<fs, client, out, hist>>

(* Mutant: one name is tried only.                                         *)
IsTakenNever(segs) == FALSE

IsTaken(segs) == Stat(fs, Path(segs, FALSE)) \in {"file", "dir"}

(* generateFilename: a name nothing has yet; one stat is one step.         *)
GenerateFilename ==
  /\ pc = "name"
  /\ LET segs == Append(UploadFolder(ClientLocation),
                        Filename(client.request.query, gen.n))
     IN IF IsTaken(segs)
        THEN pc' = pc /\ gen' = [gen EXCEPT !.n = @ + 1]
        ELSE pc' = "create" /\ gen' = [gen EXCEPT !.reading = Path(segs, FALSE)]
  /\ UNCHANGED <<fs, client, out, hist>>

(* _postHandler opens the file, which empties one that came meanwhile, ... *)
OpenOutputFile ==
  /\ pc = "create"
  /\ IF Creatable(fs, gen.reading)
     THEN /\ fs' = With(fs, gen.reading.segs, "")
          /\ pc' = "write" /\ UNCHANGED gen
     ELSE UNCHANGED fs /\ RenderLocationErrorPage(500)
  /\ UNCHANGED <<client, out, hist>>

(* ... and writes the body into what it opened, removed by now or not.  It *)
(* is not asked whether that worked; here it does.                         *)
PutBody ==
  /\ pc = "write"
  /\ LET segs == gen.reading.segs
         data == client.request.body
     IN IF gen.linked
        THEN /\ fs' = With(fs, segs, data)
             /\ hist' = [hist EXCEPT !.kept = With(@, segs, data)]
        ELSE UNCHANGED <<fs, hist>>
  /\ RenderLocationErrorPage(201)
  /\ UNCHANGED <<client, out>>

(* _deleteHandler.                                                         *)
DeleteHandler ==
  /\ pc = "remove"
  /\ IF Removable(fs, gen.reading)
     THEN /\ fs' = Without(fs, gen.reading.segs)
          /\ hist' = [hist EXCEPT !.kept = Without(@, gen.reading.segs)]
          /\ AnswerWith(204, NoBody)
     ELSE UNCHANGED <<fs, hist>> /\ RenderLocationErrorPage(404)
  /\ UNCHANGED <<client, out>>

(* createRgResponseHeader and stringsToChain.                              *)
MakeMessage ==
  /\ pc = "answer"
  /\ out' = StartSending(BodySize(gen.response))
  /\ pc' = "send"
  /\ UNCHANGED <<fs, client, gen, hist>>

(* _sendMsg; the peer takes what is left of the node or a byte less.       *)
SendMsg ==
  /\ pc = "send"
  /\ LET left == out.chain[out.it].size - out.bytesSent
     IN \E n \in {left - 1, left} \ {0} : out' = SendBytes(out, n)
  /\ pc' = IF AllSent(out') THEN "sent" ELSE "send"
  /\ UNCHANGED <<fs, client, gen, hist>>

(* The client is deleted with its request and what there is of a response. *)
DeleteClient ==
  /\ pc' = "idle"
  /\ client' = NoRequest
  /\ gen' = NewGenerator
  /\ out' = StartSending(0)
  /\ hist' = [hist EXCEPT !.before = FirstFiles, !.during = {}, !.touched = {}]
  /\ UNCHANGED fs

(* send fails when the peer has left.                                      *)
PeerLeaves == pc = "send" /\ DeleteClient

(* Everything is sent.                                                     *)
Delete == pc = "sent" /\ DeleteClient

Server ==
  \/ ResponseMenu \/ IsPathFileOrFolder \/ OpenFile \/ StatFile \/ ReadFile
  \/ IsDirectoryValid \/ CreateHtmlMenu
  \/ GenerateFilename \/ OpenOutputFile \/ PutBody \/ DeleteHandler
  \/ MakeMessage \/ SendMsg \/ Delete

-----------------------------------------------------------------------------
(* Somebody else: a script, another program, a user.  What is changed      *)
(* while the response is sent is changed before the next request as well.  *)

Changed(f, segs) ==
  /\ pc \notin {"answer", "send", "sent", "down"}
  /\ hist.changes < MaxChanges
  /\ fs' = f
  /\ hist' = [hist EXCEPT !.changes = @ + 1, !.kept = Without(@, segs),
                          !.during  = IF pc = "idle" THEN @ ELSE @ \cup {f},
                          !.touched = IF pc = "idle" THEN @ ELSE @ \cup {segs}]
  /\ gen' = [gen EXCEPT !.linked = @ /\ ~(pc = "write" /\ segs = gen.reading.segs)]
  /\ UNCHANGED <<pc, client, out>>

Appears ==
  \E segs \in DOMAIN Changes \ DOMAIN fs :
    /\ Parent(segs) \in DOMAIN fs
    /\ fs[Parent(segs)] = Dir
    /\ Changed(With(fs, segs, Changes[segs]), segs)

Vanishes ==
  \E segs \in DOMAIN Changes \cap DOMAIN fs :
    /\ Children(fs, segs) = {}
    /\ Changed(Without(fs, segs), segs)

Next == Receive \/ Server \/ PeerLeaves \/ Appears \/ Vanishes

Spec == Init /\ [][Next]_vars

(* The loop of the server goes on as long as there is something to do.     *)
FairSpec == Spec /\ WF_vars(Server)

-----------------------------------------------------------------------------
(* What the answer must be, were the files not to change.                  *)

(* The locations whose uri the path begins with; it ends with a slash.     *)
FittingLocations(server, path) ==
  LET Fits(l) == l.uri.slash /\ IsPrefix(l.uri.segs, path.segs)
  IN {i \in DOMAIN server.locations : Fits(server.locations[i])}

(* The one of them with the longest uri.                                   *)
LongestLocation(server, path) ==
  LET fitting == FittingLocations(server, path)
  IN server.locations[CHOOSE i \in fitting : \A j \in fitting :
                        Len(server.locations[j].uri.segs)
                          <= Len(server.locations[i].uri.segs)]

IsFile(f, p) == Stat(f, p) = "file" /\ p.segs \notin Denied

Answer(status, response) == [status |-> status, response |-> response]

PageOf(f, settings, code) ==
  LET readable == {segs \in ErrorPagePath(settings, code) :
                     IsFile(f, Path(segs, FALSE))}
  IN Answer(code, IF readable = {} THEN PageFor(code)
                  ELSE FileBody(f[CHOOSE segs \in readable : TRUE]))

IndexIn(f, location, segs) ==
  {n \in DOMAIN IndexesOf(location) :
     IsFile(f, Path(segs \o IndexesOf(location)[n], FALSE))}

Fetched(f, location, p) ==
  LET indexes == IndexIn(f, location, p.segs)
      Page(code) == PageOf(f, location.settings, code)
  IN CASE IsFile(f, p) -> Answer(200, FileBody(f[p.segs]))
       [] Stat(f, p) = "file" /\ p.segs \in Denied -> Page(404)
       [] Stat(f, p) = "dir" ->
            IF indexes # {}
            THEN Answer(200, FileBody(f[p.segs \o IndexesOf(location)[Min(indexes)]]))
            ELSE IF ~Autoindexes(location) THEN Page(404)
            ELSE IF p.segs \in Denied THEN Page(403)
            ELSE Answer(200, Listing(f, p.segs))
       [] OTHER -> Page(FileOrFolderStatusCode(Stat(f, p)))

Expected(f, c) ==
  LET server   == Servers[c.server]
      location == LongestLocation(server, c.request.path)
      target   == PathRelativeToExecutable(location, c.request.path)
      folder   == Path(UploadFolder(location), FALSE)
      Page(code) == PageOf(f, location.settings, code)
  IN CASE c.errorCode # 0 -> PageOf(f, server.settings, c.errorCode)
       [] c.errorCode = 0 /\ IsRedirect(location) -> Page(RedirectCode(location))
       [] OTHER ->
            CASE c.request.method = "GET" -> Fetched(f, location, target)
              [] c.request.method = "DELETE" ->
                   IF Removable(f, target) THEN Answer(204, NoBody) ELSE Page(404)
              [] c.request.method = "POST" ->
                   IF Stat(f, folder) = "dir" /\ folder.segs \notin Denied
                   THEN Page(201) ELSE Page(500)

-----------------------------------------------------------------------------
(* Properties.                                                             *)

PCs == {"idle", "menu", "stat", "open", "fstat", "read", "opendir", "readdir",
        "name", "create", "write", "remove", "answer", "send", "sent", "down"}

TypeOK ==
  /\ pc \in PCs
  /\ IsTree(fs)
  /\ client.server \in DOMAIN Servers \cup {0}
  /\ gen.n \in 0 .. MaxRequests + MaxChanges + Cardinality(DOMAIN FirstFiles)
  /\ out.it \in 1 .. Len(out.chain) + 1

(* An upload that was acknowledged stays, whole and under its own name,    *)
(* until it is deleted: later uploads of the same name get another one.    *)
UploadsKept ==
  \A segs \in DOMAIN hist.kept :
    segs \in DOMAIN fs /\ fs[segs] = hist.kept[segs]

(* What differs from the files before the request and was not changed by   *)
(* somebody else.                                                          *)
Own ==
  {segs \in DOMAIN hist.before \cup DOMAIN fs :
     /\ segs \notin hist.touched
     /\ \/ segs \notin DOMAIN hist.before \cap DOMAIN fs
        \/ hist.before[segs] # fs[segs]}

(* At most one of them, a new file with the whole body.                    *)
OneUpload ==
  /\ \A p, q \in Own : p = q
  /\ \A p \in Own : /\ p \notin DOMAIN hist.before
                    /\ p \in DOMAIN fs
                    /\ fs[p] = client.request.body

(* When the answer is made the server itself has changed what the answer   *)
(* says and nothing else: one new file with the body after 201, the file   *)
(* that was asked for gone after 204, nothing after any other answer.      *)
ChangesAreAnswered ==
  pc = "answer" =>
    CASE gen.status = 201 -> OneUpload
      [] gen.status = 204 -> Own \subseteq {gen.reading.segs} \ DOMAIN fs
      [] OTHER            -> Own = {}

(* What is looked for may be the page of its error as well: a file that    *)
(* comes and goes is then missed as the one and found as the other.        *)
FoundAsPage ==
  LET indexes == IndexesOf(ClientLocation)
  IN /\ gen.then = "page"
     /\ gen.reading.segs \in hist.touched
     /\ gen.reading.segs \in
          {Target.segs} \cup {Target.segs \o indexes[n] : n \in DOMAIN indexes}

(* The answer is the right one for the files as they were at some moment   *)
(* of the request, if there were two states of them at most; a change may  *)
(* also end in 500.                                                        *)
AnswerIsTrue ==
  pc = "answer" /\ Cardinality(hist.during) <= 2 =>
    \/ \E f \in hist.during :
         Answer(gen.status, gen.response) = Expected(f, client)
    \/ gen.status = 500 /\ Cardinality(hist.during) = 2
    \/ FoundAsPage

(* An exception ends the server only when a request asks for a target that *)
(* begins with the uri of no location, not even with "/"; when somebody    *)
(* else touched the very file it was looking at, between two calls; or     *)
(* when a configured redirect has a code without a reason phrase.          *)
StopsOnlyThen ==
  pc = "down" =>
    \/ /\ client.errorCode = 0
       /\ FittingLocations(ClientServer, client.request.path) = {}
    \/ gen.reading.segs \in hist.touched
    \/ /\ client.errorCode = 0 /\ IsRedirect(ClientLocation)
       /\ RedirectCode(ClientLocation) \notin KnownCodes

(* No request ends the server because its target is in another form than   *)
(* the origin form, which begins with "/".  (In the code it does.)         *)
OtherTargetsSurvived ==
  pc = "down" => Head(client.request.path.segs) = ""

(* What is on the wire is the response from its first byte on, no byte     *)
(* twice; when all is sent it is the whole body, framed as the header says.*)
WireIsResponse ==
  /\ pc \in {"send", "sent"} => IsPrefixOfChain(out)
  /\ pc = "sent" => IsWhole(out, BodySize(gen.response))

(* Every request is answered, unless the server stops.                     *)
Answered == pc = "menu" ~> pc \in {"idle", "down"}
=============================================================================
