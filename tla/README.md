# TLA+ model of webserv 2.0

webserv is a single-threaded, non-blocking HTTP/1.1 server with CGI, written in
C++98 (`src/srcs_new`). This directory holds TLA+ models of it, from the reading
of the configuration file to the exit: what one turn of the main loop does to
every connection, with the kernel, the peers, the CGI children and SIGINT around
it; how a message is put together; which server and location a request belongs
to, what the handlers do to the files, and what the peer gets. TLC checks the
models on small instances, and TLAPS proves the most important invariants for
every value of the constants.

Paths below are relative to `src/srcs_new` unless they start with `src/`.

## 1. The system

### Components

| Component | Code | State it keeps | Operations | In the model |
|---|---|---|---|---|
| Main loop, shutdown | `main.cpp` | the signal flag | `launchWebServer`, `epollLoop`, `ioLoop`, `ServerManager::loop`, `Cgi::loop`, `shutdownServer`; SIGINT handler | `Webserv`; before and after the loop `Startup` |
| Client | `Client/` | client state, error code, the vector of descriptors with their readiness, the two messages, start time, child pid, `waitReturn`, `signalSent`, CGI flag | setters, `checkTimeout`, `getFdDataByType`, constructor, destructor | `Client` |
| ConnectionManager | `Server/ConnectionManager.cpp` | the epoll set | `_acceptNewClient`, `_handleClient`, `_handleCgiFds`, `_addChildSocketsToEpoll`, `safeToDelete` | `ConnectionManager`, `Webserv`; the listening sockets in `Startup` |
| Io | `Io/Io.cpp` | none | `_receiveMsg`, `_sendMsg`, `setFinishedReceiving`, `setFinishedSending`, `checkHeaderBeforeComplete` | `Io`; the bytes sent in `OutChain` |
| ServerManager | `Server/ServerManager.cpp` | the virtual servers | constructor, choice of server and location, permission and body limit, CGI decision | `ServerManager` (lookups are inputs), `VirtualServers`, `Service`, `Startup` |
| ResponseGenerator | `Server/ResponseGenerator.cpp` | status, response | `generateClientResponse`; the GET, POST, DELETE handlers, redirects and error pages | when: `ServerManager`; what: `Service` |
| Cgi | `Cgi/Cgi.cpp` | none | start of a child, `_waitForChild`, `_handleReturnStatus`, `_stopCgiSetErrorCode` | `Cgi` |
| Message, Node | `Message/Message.cpp`, `Node.cpp` | chain of nodes, framing state, send iterator | `bufferToNodes`, `_parseNode`, `createHeader`, `stringsToChain` | receiving: `Framing`, its results in the server: `Parsed`; sending: `OutChain` |
| Headers | `Message/*Header.cpp` | parsed fields, a reference to the client's error code | line checks, CGI header conversion | the verdict and the precedence of error codes (`HeaderError`) |
| Virtual servers, locations | `Server/VirtualServer.cpp`, `LocationSettings.cpp`, `DefaultSettings.cpp` | settings | construction, lookup by port, name and path | `Settings`, `VirtualServers` |
| Configuration | `Parsing/` | tokens, paths, directives | reading, nesting, checks and application of directives | `Configuration`, `Settings`, `Startup` |
| Listening sockets | `Server/Socket.cpp` | listening descriptors | socket, setsockopt, bind, listen, close | `Startup` |
| Status codes, error pages | `Utils/HttpStatusCode.cpp` | constants | reason phrase, page | `Service` |
| Files, directory index | `Utils/FileUtils.cpp`, `Autoindex.cpp` | none; the file system | checks, reading, listing | `Files`, `Service` |
| URL | `Utils/UrlSuffix.cpp` | parts of the URL | split, decoding | not modelled; a request has its path and query |
| Logging, constants | `Utils/Logger.cpp`, `Data.cpp` | none | | not modelled |

### How they interact

There is one thread and all components work on the same static map
`Client::clients`. They never call each other; they communicate through the
fields of a client, and each reads what the others left behind in the same or an
earlier turn (before the loop starts, `launchWebServer` calls one constructor after the
other; what they leave behind is the vector of servers and the set of sockets):

* `ConnectionManager` stores readiness in the descriptors, `Io` acts on it later
  in the turn, or in a later turn when epoll reported nothing new.
* `Io` completes a message, `ServerManager` reads its header, decides, and sets
  the CGI flag and the state; `Cgi` starts the child in the same turn; `Io`
  feeds it from the next turn on.
* `Cgi` reaps the child and records `waitReturn`; `Io`, `ResponseGenerator`,
  and both halves of `_handleClient` decide by it.
* The error code is one integer of the client, shared by reference with both
  messages and both headers.
* SIGINT sets a global flag that three components read at different points.

### What is hard about it

* **Ordering within a turn.** Each of the four loops sees every client once; what
  happens between two of them (a child ends, bytes arrive) decides which handler
  learns of it first.
* **Three clocks in one.** SIGTERM, SIGKILL and deletion follow at 1, 1.5 and 2
  times the timeout, measured in CPU time, looked at only when the socket has an
  event, and racing the exit of the child.
* **Stale readiness.** `FdData` keeps the state of an earlier turn.
* **Children.** Forked, fed, read, reaped, signalled and abandoned by four
  different components.
* **Failures.** Each of recv, send, fork, waitpid, accept, getsockname and every
  allocation may fail, and most failures are turned into a state or an error code
  that later handlers interpret.
* **Exceptions.** The handlers catch `bad_alloc`. What else they throw leaves the main
  loop: `main` drops all clients and returns 1.
* **Shutdown** while any of this is going on.
* **Files.** A file is looked at by several calls, an index and an error page by
  more, and scripts or users may change it between any two of them.
* **The configuration** is one flat vector of tokens with paths; settings are
  copied from level to level at different moments; and any text may come.

### What makes each component correct

* Main loop: SIGINT ends the server, with no connection and no script left; nothing
  a peer or a script says does.
* Client: its record of the child (flag, pid, `waitReturn`) agrees with the
  process; an error, once recorded, stays.
* ConnectionManager: events are applied to descriptors that are still open;
  only the client's own child is signalled; a client leaves in the end, and not
  before its script is dealt with.
* Io: it calls recv and send only when they can work; the script gets the whole
  body; what is sent is the answer that was made.
* ServerManager, ResponseGenerator: one answer per request; a handler with side
  effects runs only on a whole request that was not refused; a script's output is
  an answer only when the script succeeded.
* Message, Node: what is put together from the buffers is what was sent, however
  recv cut it.
* Cgi: one child per request, none for a refused one.
* Configuration, servers, locations: what is accepted means what its braces say;
  a setting is the one of the innermost context that has it.
* Sockets: every configured port is listened to, once; whatever fails, nothing
  stays open.
* File handlers: the answer tells what was done and is true of the files; an
  upload that was acknowledged stays.
* Sending: the peer gets every byte of the response once, with a framing that
  tells the end.

The hazards behind these, each at its line, are listed in `PROJECT.json`.

## 2. The modules

| Module | What it is |
|---|---|
| `Client` | The record of one connection, with the constants that say which faults may happen, and what all handlers share: setters, timeout, header verdicts, the result of parsing one buffer |
| `Io` | `_ioClient` and everything below it, as operators from a client record and an outcome to a client record |
| `Cgi` | `_cgiClient` and everything below it |
| `ServerManager` | The body of `ServerManager::loop` for one client, with `generateClientResponse` |
| `ConnectionManager` | What one event does to a client; the signals; `safeToDelete`; what the kernel reports as ready |
| `Webserv`, `MCWebserv` | The VARIABLES, the main loop, the environment, fairness, and all properties; values of its constants for TLC |
| `Connection` | What all this promises of a connection: the abstract specification that `Webserv` implements |
| `Framing`, `MCFraming` | How a message is put together from buffers; connected to `Webserv` by `ResultsAreParsed`. The byte streams for TLC |
| `Configuration` | Lexemes to tokens, tokens to paths: operators |
| `Settings` | Directives, their checks and effects, the default settings: operators |
| `VirtualServers` | Servers and locations built from tokens; which of them a request gets: operators |
| `Startup`, `MCStartup` | `main` up to the main loop and after it; the files for TLC |
| `Files` | What the system calls answer about a tree of files: operators |
| `OutChain` | The chain of a response and what was sent of it: operators |
| `Service`, `MCService` | A request from its header to its deletion, on `VirtualServers`, `Files` and `OutChain`; a small site for TLC |
| `ClientLemmas`, `Webserv_proofs` | Proved: what each operator of the five component modules of `Webserv` does to a client; types, the accounting of children, the shutdown; one script and one answer for a client, errors that stay, whom the server sends signals |
| `Requests_proofs` | Proved: what each handler takes for granted of a request was established by those before it; `Webserv` implements `Connection` |
| `Events_proofs` | Proved: the events of one epoll_wait and the readiness they report |
| `Framing_proofs` | Proved: the sizes and positions of `Framing`; a buffer does to a message what `Webserv` assumes; a request with a Content-Length is framed as it was sent |
| `DataLemmas` | Proved: induction over numbers, least and greatest members, folds |
| `Startup_proofs` | Proved: the ports of any configuration, the descriptors of the start and of the exit |
| `Service_proofs` | Proved: the chain of a response of any size, uploads and answers, the right answer for undisturbed files, what may end the server, what the peer receives |

Three specifications with VARIABLES of their own look at three scales: `Webserv`
at the connections in one thread, `Framing` at the bytes of one message, `Service`
at the calls inside what is one step of `Webserv` (`ServerStep` and the sends that
follow). `Startup` comes before all of them, and `Service` takes its servers from
the operators of `Startup`.

`Connection` has neither loops, events, timeouts nor descriptors. A connection is
accepted while the server is open, starts one script at most, is answered once at
most, and leaves; the server is open, asked to stop, closing, over. It stops when it is
closing and nobody is connected; or it fails (`Fail`), at work on a connection that is
not answered, and then every connection is gone. The mapping is at
the end of `Webserv`: `connected` is `Live`; `script` is what became of the child
(`ScriptSeen`: an ended child runs until it is reaped, since only then the server
knows); `answer` is what `generateClientResponse` made (`AnswerSeen`; a second answer
would be a value that `Connection` does not have); `behind`, that a deleted client left a
running child; `mode` comes of the signal flag and of the end of the loop, by its break or
by an exception. One `CgiStep`
may start a script and find it over, so `Start` may lead to any of its results.

A handler of the code works on one client and returns before anything else of
the program runs, so each is an operator `Handler(c, o)`: `c` the client record
before, `o` the outcome of the calls it makes (what recv returned, whether an
allocation failed, what a lookup answered). An action of `Webserv` is one such
call, with `\E o` over the outcomes possible in that state. Where a handler
calls another, so does the operator.

### State

| Variable | Code |
|---|---|
| `clients` | `Client::clients`: from positions (client descriptors in ascending order) to records or `NoClient` |
| `phase` | where the thread is in the loop of `main` |
| `batch` | events of the last epoll_wait not handled yet |
| `todo` | clients the present loop has not reached |
| `flag` | `flag` of `main.cpp`: 0, 1 (signal), 2 (all clients marked) |
| `backlog`, `conns` | connections the kernel holds; connections ever made (bound) |
| `left` | history: what deleted clients left behind |

A client record has the fields of the C++ object (`clientState`, `errorCode`,
`cgiFlag`, `waitReturn`, `childPid`, `signalSent`, `isRequestChecked`,
`virtualServer`, `fd`, `msg`), its time (`age`), its part of the epoll set
(`epoll`), what the kernel knows (`proc`, `signal`, `in`, `out`, `toChild`,
`fromChild`) and a history (`hist`) on which nothing but later history depends.
`proc` and `waitReturn` are two things: the first is what the process did, the
second what the client believes. Several properties are about their agreement.

### Actions

| Action | Code |
|---|---|
| `PrepareWait`, `EpollWait`, `EndOfBatch` | `epollLoop` |
| `AcceptNewClient` | `_acceptNewClient` with `Client::_initVars` |
| `HandleClientEvent` | `_handleClient`: terminate, kill, delete or update readiness |
| `HandleCgiEvent` | `_handleCgiFds` |
| `IoStep` | `Io::_ioClient` |
| `ServerStep` | one pass of `ServerManager::loop` |
| `CgiStep` | `Cgi::_cgiClient` |
| `NextLoop` | from one loop to the next in `main` |
| `ShutdownServer` | `shutdownServer` |
| `IoThrow`, `ServerThrow` | an exception other than `bad_alloc` leaves `ioLoop` or `ServerManager::loop`, and the catch block of `main` runs (`Uncaught`) |
| `Connect`, `Sigint`, `Tick`, `PeerSends`, `PeerReads`, `ChildReads`, `ChildWrites`, `ChildEnds` | the environment |

The environment moves between any two steps of the server. A move is offered
only in the phases that look at what it changes; in the others it commutes with
the steps of the server, so an earlier or later place stands for it. SIGINT is
offered everywhere.

### Abstractions

* **Messages.** In `Webserv` a message is its first node (`head`), whether a body
  follows, its framing state, whether the header object exists, the position of
  the send iterator, and what it is (`kind`). What one received buffer may do is
  the set `Parsed`; the rest of the chain counts as one part. `Framing` has the
  chain itself and shows that each buffer stays within `Parsed`.
* **Error codes.** 403 stands for every refusal of a well-formed request (403,
  404, 405, 413, 505); 400, 500, 502 and 504 are kept apart.
* **Lookups** of server, location and CGI extension are inputs of `ServeClient`.
* **Time.** `age` counts the passed thresholds: 1, 1.5 and 2 timeouts. A handler
  reads one clock value. Clients' clocks advance independently of each other
  (a superset of what one clock does).
* **Descriptors** are a position and a type, never a number; two descriptors are
  never confused. What depends on reuse of numbers is out of this model.
* **Memory.** A failed allocation in the parser leaves the message as it was. Only the
  allocations inside the try blocks of `Io.cpp` and `ServerManager.cpp` fail.
* **Exceptions.** `Throws` says which of them may be thrown: by the port of a Host field
  (`host`), by the Status field of a script (`status`), by a target that does not begin
  with "/" (`target`), in the making of an answer (`answer`; `Service` says when).
  An accept that fails is none: it leaves the connection with the kernel (no descriptor
  is free) or has lost it.
* **Kernel.** The child holds its ends of the sockets until it ends; epoll_wait
  fails only with EINTR; epoll_ctl for child sockets does not fail.
* **Peer.** After the request only an end of file or an error is modelled: later
  data is never read by the code.
* One SIGINT; a second one writes the flag's value again or restarts the marking,
  which changes nothing.

### Framing

`Framing` works on bytes: CR, LF, a few hexadecimal digits, and `x` for all others.
A stream is chosen at the start, with what its sender means by it (where the header
ends, the body, where the message ends). A node's string is an interval of the
stream, so the chain is a sequence of intervals with the members of `Node`.

| Definition | Code |
|---|---|
| `got`, `start`, `pos` | end of the current buffer, its begin, `bufferPos` in it, counted in the stream |
| `ReceiveBuffer` | `recv` into the cleared buffer: any number of bytes up to `MaxLine` |
| `Pass` | one pass of the loop of `bufferToNodes`: `AddNewNode`, `ConcatString`, `SetNodeComplete`, `ParseNode`, in the order of the calls |
| `EndOfStream` | `setFinishedReceiving` for a script that closes its output |
| `CalcBtr`, `RemainDel`, `FtStrstr` | the search for a delimiter that may have begun in an earlier buffer |
| `CgiScan` | `_calcBtrCgi` as the automaton it is: the states are the values of `_hasNewline` and `_hasCgiDel` that occur |
| `BodyString`, `UnChunk` | `getBodyString`, what the handlers read |

What the header says (Content-Length, chunked, Trailer) is given with the stream;
the parsing of its lines is not modelled. Chunk sizes have one digit, so their
arithmetic does not overflow here. When the line of a chunk's size is empty,
`_calcChunkSize` returns a variable nobody has set (`Message/Message.cpp:270-277`): any
member of `Unset`.

### Startup

A file is a sequence of lexemes: the three delimiters and the texts between them.
A text is a sequence of words, a word a sequence of the parts it was glued
together from, because the reader drops line ends: two lines without a
delimiter become one text, and the word in the middle has two parts.

| Variable, action | Code |
|---|---|
| `reader`, `FillTokensVector`, `EndOfFile` | the loop of `Configuration::_fillTokensVector`; one lexeme is one step (`ReadLexeme`) |
| `walk`, `FillAllTokensPaths`, `EndOfWalk` | `_fillAllTokensPaths`: the stack of open contexts (`WalkToken`) |
| `http`, `SetHttpDirectives` | the constructor of `ServerManager` |
| `servers`, `MakeVirtualServer` | one `VirtualServer` per step: its directives, then its locations on copies |
| `ports`, `GetUniquePorts` | `getUniquePorts` |
| `sockets`, `fds`, `OpenSocket` | the constructor of `Socket`; `fds` is what the kernel holds |
| `epoll`, `registered`, `AddServerSocketToEpoll` | the constructor of `ConnectionManager` |
| `LeaveMainLoop`, `LeaveMain` | the catch blocks and the end of `main` |

Every step may end in `"thrown"`, where the code throws. `Failures` names the calls
that may fail. What words spell is given by tables: `Numbers` (what a word reads
as), `UriPaths` (the path of a location uri), `Traversals` (words
with `..`), `Directories` (folders that exist below `www/`), `Interpreters`.
Comments, white space and the character set of a line are left out.

The properties compare what the incremental code makes of a file with a reading
of the same tokens that knows no stack and no copies: `Enclosing` counts braces,
`LexicalValue` looks for the last directive of the innermost context.

### Service

One request at a time, because the thread serves one client without a break; a
step is one system call, because between two of them another process may change the
files (`Appears`, `Vanishes`: a file the configuration of the run names is created or
removed).

| Action | Code |
|---|---|
| `Receive` | `ServerManager::loop` up to the generator: `AssignVirtualServer`, `CheckIfRequestAllowed` |
| `ResponseMenu` | `_responseMenu`, the choice between error, redirect and the three handlers |
| `IsPathFileOrFolder` | `stat` of `_getHandler` |
| `OpenFile`, `StatFile`, `ReadFile` | `isPathValid` and `putFileInString`, for the file, an index or an error page (`gen.then` says which) |
| `IsDirectoryValid`, `CreateHtmlMenu` | `Autoindex` |
| `GenerateFilename` | one round of `generateFilename` |
| `OpenOutputFile`, `PutBody` | `_postHandler` |
| `DeleteHandler` | `_deleteHandler` |
| `MakeMessage`, `SendMsg` | `createRgResponseHeader` with `stringsToChain` (`StartSending`), then one `send` |
| `Delete`, `PeerLeaves` | the end of the client, with everything sent or not |

An exception that only `main` catches ends in `"down"`: in `Receive`, when no location
fits the target (`NoLocation`), in `StatFile` and in `MakeMessage`.

`fs` is a function from paths to contents; a path is a sequence of segments and
whether it ends with a slash. The path of a request is what stands in its target, where
the first segment is empty when it begins with "/". `hist` remembers the files before the request, every
state of the files since, what others touched, and the uploads acknowledged and
not yet deleted (`kept`); the server does not look at it.

Left out: the fields of the response header (Location, Connection, Date), the
text of generated pages (their kind, code and the names listed are kept; their size is
the constant `PageSize`), the check of the query of an upload beyond its name
and ending. `readdir` returns the directory as it is; the first two entries,
which `Autoindex` skips, are taken to be `.` and `..`. Writing the body always works.
A message is sent `left` or `left - 1` bytes at a time.

## 3. What TLC checks

`framing` and `line_cut` use `MCFraming`, `startup` `MCStartup`,
`service` and `other_target` `MCService`, all others `MCWebserv`. `CHECK_DEADLOCK FALSE` everywhere: the server
really stops, in `epoll_wait` when nothing happens any more, and at its exit; a
message stops at its end; the requests of `service` are bounded.

| Run | Question | Bounds | Result |
|---|---|---|---|
| `requests` | One connection from accept to deletion, all refusals, all ways a script is chosen, started, fails, hangs, is killed; early end of the peer's data, network errors, SIGINT and uncaught exceptions at any point | 1 connection, age to 2 timeouts | 10 properties hold, 4.6 M states |
| `faults` | The same with failures of memory, and a script that may delimit its own output; is every step one that `Connection` has? | 1 connection, age to 2 timeouts, refusals of the header only | 5 properties hold, 2.1 M states |
| `two_clients` | Two connections and SIGINT, accept and getsockname failing, early end of the peers' data: accept against shutdown; what an exit and an exception leave; readiness when one epoll_wait can report all | 2 positions, 2 connections, no timeout | 4 properties hold, 2.5 M states |
| `progress` | Is every client deleted in the end, if no script ever ends by itself? | 1 connection, fair | holds, 0.16 M states |
| `shutdown_progress` | Does a SIGINT that finds a client end the server? | 1 connection, fair | holds, 42 k states |
| `framing` | Does the result of framing depend on the cuts? Does the loop end? Does a buffer do what `Webserv` assumes? | 21 streams of up to 29 bytes, every cut but those behind a header line | 7 properties hold, 9 k states |
| `startup` | Is a configuration that is accepted used as it is written? Is nothing left open if the start fails? | 5 files and every text one edit away from two of them; every call failing once | 5 properties hold, 84 k states |
| `service` | Is the answer right for the files, does it tell what was done, do uploads stay, does the peer get it whole? | 2 of 28 requests, 2 servers, 7 locations, 2 changes by others out of 5 files | 7 properties hold, 0.14 M states |
| `late_success`, `fork_failure`, `line_cut`, `other_target` | See section 5 | 1 connection; all streams and all cuts; the site and the bounds of `service` | each violates its property |

**The properties.** The modules state each with its reason. In groups:

* *What handlers rely on without asking*: `HeadersPresent` (header pointers are
  dereferenced without a test), `ChildFdsPresent` (`getFdDataByType` falls back
  on the peer's own socket), `EventsNameOpenFds`.
* *The child*: `CgiFlagTracksChild`, `NoChildLeftAlive`, `SignalsOwnChild`,
  `OneChild`, `BodyDeliveredWhole`.
* *The answer*: `AnsweredOnce`, `CgiForwardedOnSuccess`, `OnlyGeneratedSent`,
  `PartOnlyAtEnd`, and over steps `ErrorIsFinal`, `AnswerIsFinal`.
* *Readiness*: `RecvOnlyWhenReadable`.
* *Framing*: `FramedAsSent`, `CompleteWhenDelivered`, `OnlyLastChunkForgiven`,
  `BodySizeExact`, `LoopEnds`, `ResultsAreParsed`.
* *Shutdown and progress*: `ShutdownMarksAll`, `ExitIsClean`, `ClientsLeave`,
  `ShutdownCompletes`.
* *All of it seen from outside*: `KeepsPromise`, that `Webserv` implements `Connection`.
* *Configuration and start*: `PathsAreLexical`, `SettingsAreLexical`, `StartsWhole`,
  `ExitsClean`.
* *Files and answers*: `UploadsKept`, `ChangesAreAnswered`, `AnswerIsTrue` (against
  `Expected`, which computes the answer from one state of the files at once),
  `StopsOnlyThen`, `WireIsResponse`, `Answered`.

Some of these say how far a promise goes that the code does not keep in full (section 5):
`PartOnlyAtEnd` names the two cases in which a part of a request is acted on,
`OnlyLastChunkForgiven` the malformed end that is accepted, `KeepsPromise`,
`ExitIsClean` and `StopsOnlyThen` when and how the server ends without being asked to: at
work on an unanswered request, for a target, a file or a redirect of a certain kind.

Every property of a passing run is paired in `PROJECT.json` with a mutated
operator that stands beside the original (`SafeToDeleteLate` beside
`SafeToDelete`, and so on): a plausible mistake in that function, under which TLC
finds the property violated in the same run.

**Why the bounds are enough.** Handlers touch one client only. Clients interact
in four ways: the order of a loop, the events of a batch, accept, and the end of
the server. One connection therefore covers the whole life of a request, and two
cover the rest. All three thresholds of the clock are inside `MaxAge = 3`. Where
a run caps the age, faults or refusals, another one opens them. `MaxEvents = 9`
lets one epoll_wait report everything; with fewer, some clients keep the
readiness of an earlier turn, and `RecvOnlyWhenReadable` no longer holds: the
constant `MAX_EVENTS` is 40 (`Server/ConnectionManager.hpp:7`), so this needs more
than forty ready descriptors.

For `Framing`: the streams hold every kind of node, in every order the code can
make of well-formed messages, bodies that contain the delimiters themselves, bytes
behind the end, both line endings of scripts, and six malformed bodies: without a size,
with an empty line in its place, with chunks longer or shorter than their size, in the
middle and at the end. `MaxLine` is longer than any stream,
so a buffer may be cut at every pair of places. A node depends on the bytes before
it only through its own string, so longer bodies and more chunks repeat these
cases. `LineCuts = FALSE` keeps the cuts of finding 4 out of `framing`; `line_cut`
has them.

For `Startup`: the two files that are edited have every context, both orders of
a directive and the context it is inherited by, repeated and unique directives,
several ports and names; the edits leave out, double or exchange each lexeme and
insert each delimiter at each place, which gives unbalanced braces, contexts in the wrong
place, directives without value, and values out of range. `MaxTokens` and
`MaxUniquePorts` are small, so that files exceed them.

For `Service`: the requests reach every branch of the handlers and of the lookups,
including a slash behind a file, a denied file and directory, a missing or nested
index, names that are equal after decoding, and targets without a leading "/" or without
anything at all; the sizes are one below, at and above
the limits between one node and chunks. Two requests are enough for what one leaves to
the next (uploads of the same name, a deletion); two changes put a file between
two calls and take it away again.

**Fairness** (`FairSpec` of `Framing` and `Service`): `WF(Pass)`, `WF(Server)`: the
thread runs. Neither the main loop's end, nor new
requests, nor changes by others are assumed to happen.

**Fairness** (`FairSpec` of `Webserv`), only for its two liveness runs:

* `WF(Server)`: the thread is scheduled.
* `SF(Tick)`: a turn of the loop costs CPU time, so the clock of a client advances
  if the loop keeps turning. Time does not pass while the server is blocked:
  `clock()` counts CPU time.
* `SF(PeerReads)`: the peer reads what was sent. Without it an idle full socket
  keeps a client for as long as nothing wakes the loop.
* `SF(SendsWhole)`: a message is finite, so among the sends repeated for ever one
  completes the part.
* `WF(ChildEnds)` after SIGKILL only. No child is assumed to end by itself, and
  none is assumed to heed SIGTERM.

## 4. What is proved

The theorems hold for **all** values of the constants: `Webserv_proofs`,
`Requests_proofs` and `Events_proofs` for any
number of positions and connections, any `MaxEvents`, any set of faults, refusals, endings, where TLC looks
at one or two connections; `Framing_proofs` for any streams of any length, any size of
the buffer and all ways to cut a stream; `Service_proofs` for any site, requests, files, changes
number of requests, and sizes of a body, chunk and header; `Startup_proofs` for any texts
of a configuration and any failing calls:

| Theorem | Says | Assumes |
|---|---|---|
| `TypeCorrect` | `Spec => []TypeOK` | nothing |
| `ChildIsTracked` | `Spec => []CgiFlagTracksChild` | waitpid does not fail |
| `NoScriptOutlivesItsClient` | `Spec => []NoChildLeftAlive` | waitpid does not fail |
| `SignalsGoToOwnChild` | `Spec => []SignalsOwnChild` | fork and waitpid do not fail |
| `OneScriptPerRequest` | `Spec => []OneChild` | nothing |
| `OneAnswer` | `Spec => []AnsweredOnce` | nothing |
| `ErrorsStay` | `Spec => ErrorIsFinal`, an action property | nothing |
| `ChildDescriptorsExist` | `Spec => []ChildFdsPresent` | nothing |
| `HeadersExist` | `Spec => []HeadersPresent` | nothing |
| `ScriptGetsWholeBody` | `Spec => []BodyDeliveredWhole` | nothing |
| `OnlySuccessForwarded` | `Spec => []CgiForwardedOnSuccess` | nothing |
| `AnswerStays` | `Spec => AnswerIsFinal`, an action property | nothing |
| `OutputIsConverted` | `Spec => []OnlyGeneratedSent` | no script delimits its own output (`CgiFrames = FALSE`) |
| `PartActedOnAtEnd` | `Spec => []PartOnlyAtEnd` | nothing |
| `ShutdownIsFinal` | `Spec => []ShutdownMarksAll` | nothing |
| `ExitLeavesNothing` | `Spec => []ExitIsClean` | waitpid does not fail |
| `ServerKeepsPromise` | `Spec => KeepsPromise`: the refinement of `Connection` | waitpid does not fail |
| `EventsAreCurrent` | `Spec => []BatchOK` | nothing |
| `RecvFindsData` | `Spec => []RecvOnlyWhenReadable` | one epoll_wait can report every descriptor: 3 times the positions is less than `MaxEvents` (13 clients with `MAX_EVENTS` 40) |
| `EventsFindTheirDescriptor` | `Spec => []EventsNameOpenFds` | one connection, the scope of the property |
| `UploadsAreKept` | `Spec => []UploadsKept` (`Service`) | nothing |
| `AnswersTellChanges` | `Spec => []ChangesAreAnswered` (`Service`) | nothing |
| `AnswersAreTrue` | `Spec => [](hist.touched = {} /\ UploadIsNoPage => AnswerIsTrue)` (`Service`) | nobody else changes a file during the request; the upload is not itself the page configured for its 201 |
| `ServerStopsOnlyThen` | `Spec => []StopsOnlyThen` (`Service`) | nothing |
| `PeerGetsResponse` | `Spec => []WireIsResponse` (`Service`) | nothing |
| `ExitsWithNothingOpen` | `Spec => []ExitsClean` (`Startup`) | nothing |
| `StartupTypeCorrect` | `Spec => []TypeOK` (`Startup`) | nothing |
| `ServerStartsWhole` | `Spec => []StartsWhole` (`Startup`) | nothing |
| `PathsAreContexts` | `Spec => []PathsAreLexical` (`Startup`) | nothing |
| `NoPortOpenedTwice` | `Spec => []IsInjective(sockets)` (`Startup`) | nothing |
| `UniquePortsCollects` | what `UniquePorts` makes of any servers: every port of every one of them, once | nothing |
| `FramingTypeCorrect` | `Spec => []TypeOK` (`Framing`) | nothing |
| `BuffersDoWhatClientAllows` | `Spec => []ResultsAreParsed` (`Framing`) | nothing |
| `RequestsAsSent` | `Spec => [](SizedRequest => FramedAsSent)` (`Framing`) | no buffer ends behind a line of the header (`LineCuts = FALSE`) |
| `RequestsCompleteInTime` | `Spec => [](SizedRequest => CompleteWhenDelivered)` (`Framing`) | the same |
| `RequestsAreMeasured` | `Spec => [](SizedRequest => BodySizeExact)` (`Framing`) | the same |
| `ChainFramesBody` | `FramesBody(StringsToChain(size), size)` for every `size \in Nat` | `MAX_CHUNKSIZE > 0` |

The assumption on waitpid is needed: after a failure `waitReturn` is -1, the
handlers take the child for reaped, and it is neither signalled nor waited for
again. So is the one on fork: the run `fork_failure` is the counterexample without it;
and the one on the cuts: `line_cut` is. A `SizedRequest` is a request without a body, or
with a Content-Length, that is well formed: CR and LF come in pairs in its header, the
first empty line ends it, and the body is as long as announced. Its body may be
any bytes, and anything may follow it. In `MCFraming` these are the six requests that are
not chunked.

Beyond this only the named assumptions on the constants are used, which TLC evaluates in
every run: for `Service` that the first files are a tree, that the locations of a server
have different uris, none of them empty and "/" among them (what `NewVirtualServer` checks and
`WithDefaultLocation` adds, `DefaultLocationIsAdded`), that paths and the indexes of a
location are sequences, that the upload folder of a request's location is a path, that
the codes the server sets itself, and those the
header of a request can give, have a reason phrase, and that sizes are naturals.

The argument for `Webserv`:

* `ClientLemmas` describes each operator by relations on records. `Leaves(c, d)`:
  the handler does not touch the child or the CGI flag, makes no answer, forgets no
  error, and moves the client state only forward. `Keeps`: the same but for the flag.
  `Serves`: an answer may be made. `SameButSignals`: only
  the signals. `SameRequest`: what starting or reaping a child keeps. The lemmas
  follow the calls of the code, from setters to whole handlers.
* `IInv` is `TypeOK` with `LoopOK`: the loops visit clients that exist, a batch
  is left only while it is handled, an event of the listening socket stands for a
  connection. `TypeOK` alone is not inductive: a loop could visit a free position.
* `AInv` adds `Accounted` for each client and `StartsThisTurn`. That an unreaped
  child has a flag, pid and `waitReturn = 0` is not inductive: it also needs that
  a signal recorded as sent (`signalSent = 2`) was sent to the child, that nothing
  is reaped without having been started, and that a client with the flag but no
  child sockets exists only between `ServerManager::loop` and `Cgi::loop` of one
  turn. Otherwise `_handleClient` could record SIGKILL for a child that is started
  afterwards, and `safeToDelete` would let the client go at twice the timeout.
* `StatesGrow`, `NoneJoins` and `FlagAdvances` carry the shutdown: client states
  only move up, only accept makes a client and not after a signal, only
  `shutdownServer` sets the flag to 2.
* `SInv` carries the signals: for each client `Signalled`, no signal went astray so
  far and, while `waitReturn` is 0, a pid in the client is that of its own child. Only
  `startChild` writes the pid and only `waitForChild` reaps, which changes
  `waitReturn` in the same step; the handlers that signal test it before.
* `ClientsFollow` says once for all steps what may become of a client (`Follows`): one
  handler acted on it, its environment moved, or it was just accepted. Three facts about
  single clients are carried along it. `StartedOnce`: at most one script was started, and
  a client that started one has its child sockets, whose presence keeps `Cgi::loop` from
  starting another; the count alone is not inductive. `Settled`: an answered request is
  none of a script, is at `DO_RESPONSE` or later, and its response is complete or the
  client is to be deleted, which is what keeps `generateClientResponse` from running
  again. The last needs no invariant but `IInv`: every handler keeps an error.
* `QInv` carries what a handler relies on without asking (`Sound` of each client, in the
  parts `Connected`, `HeadersKept`, `BodySent`, `EndedWell`, `OutputRead`, `OutputHeld`,
  `WholeFirst`). None of the seven properties of `Requests_proofs` is inductive: a
  header is there because it was parsed by Io some turns before; a message of raw bytes is
  not sent because whatever moves a script's client to `DO_RESPONSE` leaves the flag
  set until the child is reaped, and then the header is converted in the same
  pass that clears it; a late client has an answer of the server's own. A client with the
  flag and without child sockets is `Unstarted`; that `Io` never meets one needs the
  order of the loops: `ServerManager::loop` makes it and `Cgi::loop` ends it
  before the turn is over (`AboutToStart`). `AnswerStays` needs `Proceeds`, what
  one handler may do to a response: after the answer `Io` moves its iterator and
  nothing else touches it.
* `EInv` carries the events, with `QInv`: each client's epoll set agrees with its
  descriptors (`Clean`, `Registered`), each event of the batch still finds what it was
  reported for (`BatchOK`), and so does each readable flag `ioLoop` is going to look at
  (`ReadsOK`). An event may be handled after others of its batch deleted clients,
  closed a script's sockets and accepted a connection in the place of another, which is
  why `BatchOK` speaks of every position. The flags are harder: a flag stays from one
  turn to the next and is overwritten only when the descriptor is reported again.
  A flag older than this turn is one whose descriptor is ready again (`StaleReported`),
  since the peer's socket has room until the client is answered and a script's output
  is always writable; that every ready descriptor is in the batch is where
  `3 * Cardinality(Slots) < MaxEvents` is needed. With a smaller `MaxEvents` TLC finds
  the old flag being read. An interrupted epoll_wait reports nothing, but then nothing
  was ready either. What a handler does to descriptors is one of four relations: `Calm`
  (nothing), `Stirred` (the kernel holds more), `Steady` and `Loose` (descriptors are
  made or marked to be closed), `Noted` (flags are set).
* `CInv` carries the refinement: `AInv`, `QInv`, `Settled` of each client,
  `ShutdownMarksAll` and `EmptyAtExit`, and one thing more, `Held`: a client whose child
  was ever started has child sockets, so that no second child hides the first. The
  initial states map to the initial state of `Connection`. A step changes no client,
  one client, or all of them in a way that shows from none (`StepsAreLocal`,
  `PrepareWaitShows`, `ShutdownShows`); what it shows of one is `Shows`: nothing, a script
  that ends or starts, or an answer. That a step shows no more than one of them, in
  the order `Connection` asks for, is the content of the invariant: an answer is not made
  while the script runs because of `Accounted` and `Settled`, it is a script's only
  after success because of `EndedWell`, and neither is begun while the server
  closes because clients are marked by then. An exception shows as `Fail` of the connection
  whose turn it is (`ThrowKeepsPromise`): a header is only made of bytes received before
  there is an answer (`IoThrowsUnanswered`), and a location is looked up for a request not
  checked yet, which `Settled` says of no answered one (`ServerThrowsUnanswered`). After
  either end no step is possible (`OverStutters`). If waitpid fails, a client may leave
  while its script runs, so the assumption cannot be dropped.

The argument for `Framing`.

* `FInv` is what a message looks like between two passes. Its nodes are `Linked`: the first is the
  header, from 0, each begins where the one before ends, nothing but a trailer or a body lies
  behind the first, and a trailer has some node of a body before it. While the
  message is incomplete (`Underway`) the last node ends where parsing has come to, and it `Fits`: a
  body is not longer than its size, a chunk not longer than the header it has read says,
  a script's header has not seen its end. `_setNodeComplete` breaks `Fits` in the middle of
  a pass (the next node has no size yet, `Marked` holds) and reading the chunk's header restores it
  before the pass is over. From `Fits` every subtraction of `Node.cpp` is of a smaller
  number from a larger one. What the folds over bytes return (the state of the search in
  a script's header, the number of a chunk's line) is bounded by induction over their prefixes.
* `ResultsAreParsed` compares a message with what it was when the buffer was received,
  so `FInv` carries both: each is whole, and a header complete before is complete still.
  With this theorem the results that `Webserv` allows a buffer to have (`Parsed`) are
  an over-approximation of `Message::bufferToNodes` for every stream, and the
  theorems about `Webserv` rest on the framing by proof and not by the streams of one run.
* `InOrder` says how far a sized request is: `InHeader`, `BehindHeader`, `InBody` or
  `Received`. None of the three properties is inductive: what is searched in
  a buffer depends on how the last one ended. `_getRemainDel` returns what is missing of
  the empty line at the end of what came so far; `MissingIs` says that this piece is found in
  the rest of the header at its end and nowhere else, unless the buffer begins behind a
  line. So `_calcBtr` takes either all of the buffer or the header up to its end
  (`HeaderBytes`), although `ft_strstr` returns 0 for "not found" and for "found at the
  beginning" alike: at the beginning of a buffer `_calcBtr` compares before it searches. That no
  buffer begins behind a line is therefore part of the invariant, and is where
  `LineCuts = FALSE` is needed.

TLC checked `SizedRequest => InOrder` on the streams of `MCFraming` before it was proved.

The argument for `Service`. None of its properties is inductive: what makes an upload
safe was looked up some steps before. `IInv` adds

* `ChosenIsFree`: the name that `generateFilename` settled on belongs to no kept
  upload and, where `stat` can see, to nothing but what others put there since;
* `KeptReachable`: every kept upload lies where `stat` sees it, since its file could be
  created only in a directory that may be searched (`CreatableReached`,
  `ParentReached`). Without it a new upload could take the name of an old one below a
  directory without search permission;
* `OpenedIsNew`: while the output file is open it is the only change of this request,
  and it was not there before, or others touched it;
* `ReadsAfterUpload`: nothing has changed in the calls before, and a file read
  afterwards is read for the page of a 201.

`RInv` adds what a response is made of:

* `FilesSizable`, `ResponseSizable`: every file the server may still read has a size, so
  has the page or listing of the answer;
* `LookedAt`: between open and stat the file is the one that was opened, unless it was
  touched since, which is the first of three ways to end the server;
* `PageAnswerable`: an error code on its way to a page is one with a phrase, or comes
  of a configured redirect, the second way;
* `Located`: a request that gets past `Receive` without an error has a location. The
  third way is a target no uri fits: shortening it came to nothing (`NoLocation`) just when
  the uri of no location is a prefix of it, since every prefix is tried, "/" included;
* `SendingInOrder`: what was sent is a prefix of the chain (`Underway` of
  the chain), nodes before the iterator are out whole, and those behind it not
  begun.

`TInv` leads to `AnswersAreTrue`. While nobody else has touched a file, `Due` says for
every call that what was found so far leads to the answer `Expected` computes at once:

* `ReadingIsDue`: the file that is read is the one asked for, or the first index that can be read,
  none before it having been one (`NoIndexBelow`), or the page of the answer
  (`PageIsDue`); what was opened can still be opened;
* `ListingIsDue`: a listing is made for a directory without a readable index;
* `UploadIsDue`: the name chosen is free, so creating it succeeds just when the folder
  is there and may be searched (`CreateDue`);
* `LocationIsLongest`: shortening the path segment by segment until it is a uri, as
  `LocationUriFromPath` does, ends at the location with the longest uri that fits
  (`LongestUri`), and since uris differ that is one location.

After an upload the page of 201 is looked for in files that are no longer those of
before. `OthersAsBefore` says that every other file still is, so the answer is due
unless the upload is that page: `UploadIsNoPage`. The attempt to do without this showed
how far `AnswerIsTrue` goes when others change files as well: a file that is asked for, or
is an index, and is also the page of its error may be missed in the one role and found in
the other. `FoundAsPage` names that case, and `MCService` has a request for such a file.

The argument for `Startup` has four parts.

* `KInv`: an open descriptor is one of `Socket::_allSockets` (`Kept`), and the
  registration walks through them in order (`Watched`). `ExitsClean` is not inductive:
  what main closes is the list of sockets, and only because a constructor that fails
  closes its own descriptor is that list all there is.
* `TInv`: what the variables hold. That a configuration's ports are port numbers is
  a fact about a fold: the directives of a level are applied one behind the other to a copy
  of the settings of the level above, and no directive makes the ports anything but
  a sequence of numbers from 1 to 65535 (`ApplyPortsOK`, `AppliedPortsOK`), whatever
  lexemes the file consists of.
* `OInv`: `UniquePorts` is a fold over the concatenated ports of all servers; it
  returns each of them once (`FlattenCollects`, `AddPortsCollects`,
  `UniquePortsCollects`). The sockets behind `pos` are opened in their order, so none is
  opened twice (a second `bind` would end the server), and when the registration
  begins all are open. With `KInv` this is `StartsWhole`.
* `PInv`: the path `_fillAllTokensPaths` has in hand holds the positions of the context
  tokens whose brace is still open, in their order, and the paths it has already given
  were right (`Walking`). That the braces are still open is put in numbers: behind the
  `m`-th of the path, as many braces were opened and not closed as the path is long from
  there (`DepthSteps`). `PathsAreLexical` reads the path as the set of open contexts put in order;
  a set of numbers has one increasing sequence, the path is one (`InOrderIs`).

`DataLemmas` has the induction this needs. The theorems of the library take an operator
as a parameter, which the provers cannot instantiate; so `Induction` speaks of a set
of numbers, and comes from the least number outside of it, whose existence the library
states without operators (`WFMin`, `NatLessThanWellFounded`). The folds of the community
modules are recursive functions chosen by their equation; that a function with this
equation exists is proved by the same induction (`IterationExists`, and inside
`FlattenCollects` and `AppliedPortsOK`).

The argument for `OutChain`: a division rounded up is the least number of parts that is
enough (`CeilingBounds`), so the size that `_calcOptimalChunkSize` computes by dividing twice
is neither 0 nor above `MAX_CHUNKSIZE` (`PartFits`); each chunk begins where the one
before ends (`ChunksFollow`), and the last takes what is left. Of the line in front of
a chunk only its length counts on the wire, and that it is positive: nothing is
asked of `HexDigits` beyond that it is a natural number.

Only model-checked, and why:

* Liveness (`ClientsLeave`, `ShutdownCompletes`, `LoopEnds`, `Answered`): the prover handles neither fairness nor ENABLED.
* `FramedAsSent`, `CompleteWhenDelivered` and `BodySizeExact` for chunked requests and for script
  output, and `OnlyLastChunkForgiven`: what such a stream should become is given for each stream of
  `MCFraming` by hand, and a general definition would be a parser of its own, recursive in
  the chunks.
* `SettingsAreLexical`, which compares the settings applied level by level with a reading of
  all directives at once: two folds over maps that are built key by key.
* `AnswerIsTrue` of a request during which somebody else changes a file: one change may
  come between any two calls, and the cases are those of every pair of calls.
* The type invariant of `Service`. It bounds the names tried by the files there can be,
  which needs the text of different numbers to differ; and it says that the files are a tree,
  which a DELETE of "/" ends when nothing is left below `www/`: `remove` takes the
  directory itself (`Server/ResponseGenerator.cpp:298`). No site of a run gets that empty.

## 5. Where the code disagrees with what it states

Each has a run that shows the behaviour; the statement it contradicts is quoted in
`PROJECT.json` ("findings").

1. `late_success`. A script past the timeout that exits 0 (also on SIGTERM) is
   answered by the server itself with error code 0: status 200 and the script
   file, where the test suite expects 504.
2. `fork_failure`. After fork() failed the pid is -1, and 1.5 timeouts later
   `kill(-1, SIGKILL)` is called.
3. `line_cut`. When a buffer ends behind a line of the header, `_calcBtr` looks for
   the second CRLF of the end of the header alone. It finds it behind the next line,
   and then at offset 0, which `ft_strstr` returns as 0 and `_calcBtr` takes for
   "not found": the rest of the buffer goes into the header, and the server waits
   for a body that has already come. One segment per header line is enough.
4. `other_target`. A target that does not begin with "/" is accepted by the checks of the
   request line; `getLocationURIfromPath` cuts it down to nothing, and `getDirName` throws
   (`Parsing/ParsingUtils.cpp:110`). Nothing catches it below `main.cpp:108`: the server
   ends, for all its clients, and the scripts that run are not signalled.

Seen while modelling, without a run of its own:

* The port in a Host field is converted by `stringToSizeT`
  (`Message/RequestHeader.cpp:209`), which throws when it is not a number that fits. The
  server ends as in 4, where `src/_notes/notes.md:441-444` asks for 400. So does the
  number in a script's Status field (`Message/ResponseHeader.cpp:94`), where line 128
  means to answer 502. Both are members of `Throws`.
* An end of file in the middle of a body completes the request
  (`Io/Io.cpp:92-93`), and the handler stores the part that arrived, where
  `src/_notes/notes.md:405-408` calls such a message incomplete. `PartOnlyAtEnd` without
  its `cut` is violated by it. The same end of file completes a message framed
  as malformed.
* When the bytes behind the last chunk are not CRLF, `_setNodeComplete` sets ERROR
  (`Message/Message.cpp:310`) and `_parseNode` overwrites it with COMPLETE (351). An
  empty line in the place of a size may be taken for the last chunk as well, when the
  variable nobody set (270) holds 0.
* Script output with Content-Length or chunks whose header is refused is sent unconverted
  when it completes before the child is reaped (`Io/Io.cpp:124`): `OnlyGeneratedSent`
  does not hold with `CgiFrames = TRUE`.
* Path info with `/..` or `~` is logged as not valid and gives 502, but the script
  is started (`Server/ServerManager.cpp:385`).
* A Trailer field announces a trailer that may be empty; the trailer node then
  waits for an empty line behind the one that ends the message.
* SIGINT during an upload moves the client to DO_RESPONSE with no error, and the
  POST handler stores what had arrived.
* SIGINT between the test in `shutdownServer` and `epoll_wait`, with nobody
  connected, leaves the server blocked until the next event. Hence
  `ShutdownCompletes` speaks of a SIGINT that finds a client connected.
* After a failed waitpid the child is never signalled or waited for again.
* A full client socket keeps the state `R_SEND` (`Client/FdData.hpp:21`); when
  something else wakes the loop, the send fails with EAGAIN and the connection is
  dropped (`Io/Io.cpp:166`).
* One closing brace too many as the first token is accepted
  (`Parsing/Configuration.cpp:184`); `PathsAreLexical` therefore begins with the second.
* `return` accepts every code from 100 to 599 (`Parsing/Directive.cpp:365`), but
  `getReasonPhrase` throws for one it has no phrase for: the first request for such a
  location ends the server. `StopsOnlyThen` names this case.
* `isPathValid` throws when a file vanishes between its `open` and its `stat`
  (`Utils/FileUtils.cpp:61`); only `bad_alloc` is caught above it. `StopsOnlyThen`
  names this case as well.
* Where a missing directory should give 404, `ENONET` is tested instead of
  `ENOENT` (`Utils/FileUtils.cpp:119`): the answer is 500.
* The write of an upload is not tested (`Server/ResponseGenerator.cpp:287`): a full disk
  is acknowledged with 201.
* `Autoindex` skips the first two entries of a directory whatever they are
  (`Utils/Autoindex.cpp:83`).

## 6. Plan

Done: the request life cycle, first because everything else hangs on it, with its
environment and the first theorems; the framing of received messages; the start of the
server with its configuration; the handlers, their files and the response, with the
theorems about uploads and chunks; `Connection` and its refinement. Next, in this order:

1. `FdTable`: descriptor numbers, their reuse within one batch, the vector of a
   client and the epoll set. Properties: an event reaches the client it was
   reported for; no number is closed twice. Composes with the batch of `Webserv`.
2. `OutChain` for a response appended to CGI output that was already received, where an
   empty node in the middle ends the send.
3. `ChunkArithmetic`: the size computations of `Node.cpp` and of Content-Length
   with their widths, as functions; TLC against a reference, TLAPS for bounds.
4. The way of a URL: `UrlSuffix`, `_parseCgiURLInfo`, and the arguments and environment
   of a script.
5. Proofs: `SettingsAreLexical`, over the directives of each level, and the framing of
   chunked requests.

### Not modelled

* Logging, constants and the command line: output and wording only.
* The lines of a header (`*Header.cpp`): character classes and spelling; the verdicts
  they lead to are inputs of `Webserv`.
* The percent decoding and splitting of URLs: text processing; `Service` starts from its
  result, with the table `Decoded` where two spellings must meet.
* The arguments and the environment of a script (`Cgi.cpp`): strings for `execve`; that
  they cannot be prepared is an outcome of `Cgi`.
* The text of pages and reason phrases, dates, client ids and addresses.
* Descriptor numbers and integer widths: planned, see above.
