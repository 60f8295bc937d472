# Verification of webserv

`webserv` is an HTTP/1.1 server in C++98: one process, one thread, one epoll
loop, CGI scripts in child processes. This directory models it in TLA+, checks
the models with TLC on small instances and proves theorems about them with
TLAPS. Every definition that stands for code is listed with its lines in
`PROJECT.json` ("map"); paths below are relative to the repository's root.

## 1. The system

| component | state | operations | talks to |
|---|---|---|---|
| event loop: `HTTPServer` (`src/Server/*.cpp`) | `_connectionHandlers` and `_cgis` (descriptor to handler), `_connAmount`, `_gotStopSignal`, the epoll set | `start`, `_createNewConnections`, `_handleConnectionEvent`, `_delegateToConnectionHandler`, `_closeConnection`, `_addCgi`, `_processCgi`, `checkCgiTimeouts`, `stop`, destructor | calls the handlers and their Cgi objects; the kernel |
| timers: `IntervalTimer`, `Timer` | start times, whole seconds | `update` (calls `checkCgiTimeouts` back), `getDuration` | called once per turn of the loop |
| connection: `ConnectionHandler` | request, `_cgi`, `_shouldClose`, the two EPOLLOUT flags | `handleHTTP` (with the retry of a failed send), `sendCgiResponse`, `killCgi` | parser, routes, actions; the server reads its flags |
| parser: `HTTPRequest` | buffer, current function, headers, body, counters, error code | `parseRequest`, `reset` | called with whatever `recv` returned; sets the route |
| routes: `ServerConfig` | locations; the mutable current route | `setCorrectRoute`, `_findRoute` and the getters of the current route | shared by all connections of a server |
| script: `Cgi` | pid, two pipes, current function, output, timer | `startCgi`, `processCgi`, destructor | the script through pipes; epoll through the server |
| dispatch: `HTTPAction`, `MethodRegistry` | the response | `run`: redirect, method allowed, script or method | routes, methods, `Cgi` |
| methods GET, POST, DELETE, OPTIONS | files | one request each | file system |
| `HTTPResponse` | status, headers, body | pages, error pages | file system |
| `ConfigParser`, `MyConfig` | tokens, the server and the location being read, servers by address | one function per directive, `parseServer`, `parseLocation`, validation; `findServerConfig` | read once by `main`; asked by parser, connection and start-up |
| `Path` | a string | `normalize`, `join`, `removePrefix`, ... | routes and uploads |
| `main`, `HTTPServer::init` | epoll, the listening sockets | read the configuration, open a socket per address, install the SIGINT handler, `start`, destructor | configuration, kernel |
| `users/` | | example sites and scripts | content |

How they interact. All of the server runs on one thread; nothing is locked. The
concurrency is with the kernel, the clients and the scripts: between any two
system calls a script may read, write, close or exit, messages may arrive in
pieces, sockets fill and drain, seconds pass. epoll is edge triggered, so an
event the code does not use up is gone. Handlers and scripts are reached
through raw pointers in two maps keyed by descriptors, and descriptors are
reused at once.

What makes each part correct, and what makes it hard:

* **Script.** A good answer is everything a successful script wrote after it was
  given the whole body; one answer per request, 504 only past the limit; no
  script is left running; the two sides never wait for each other. Hard:
  blocking pipe ends, edges, early exits, a timer racing the end.
* **Event loop.** An event is handled by the object it is about; a descriptor is
  closed once, by its owner; pointers in the maps are alive; the loop survives.
  Hard: batches, descriptor reuse, two entries per script, copies of descriptors
  in child processes.
* **Connection.** Answers in order, one each, by the request's own route; no
  lost wakeup; limits, queries and script environments are those of the
  connection's own request. Hard: shared mutable route, edges, retries of sends,
  partial sends, members that `reset` forgets.
* **Parser.** The result does not depend on how the bytes were cut or on earlier
  requests; limits are exact. Hard: state kept between calls and between
  requests.
* **Routes.** The cached route is the route of the cached path, and the longest
  location wins.
* **Methods and responses.** The answer says what became of the files: what 201
  stored can be read under its URL, what was deleted is gone, a failure has
  touched nothing but what it named; an error has its page. Hard: uploads in
  parts that fail one by one, a disk that fills up, error pages that are missing,
  two ways from a path to a file.
* **Configuration.** A file is read as written; what is accepted is safe for the
  rest of the program; a mistake is noticed or spoils one server only. Each
  request is answered by the server its `Host` names. Hard: no grammar, lists that
  run to the next semicolon wherever it is, loops that also end with the file.
* **Start-up.** Every address is served or nothing is left open, whatever call
  fails. Hard: failure in the middle, descriptors closed where they fail and
  again by the caller.

`PROJECT.json` ("hazards") lists, line by line, what is hard to test here.

## 2. Modules

`CgiExchange` is the contract of a request answered by a script, without pipes,
epoll or loop: launched or refused, given the body, producing output, ending; at
most one answer; 200 carries all the output and needs a successful script that
was given everything; 504 needs lateness; no script outlives the answer.

`Cgi` is the code: one `Cgi` object, its script, both pipes and the turns of the
loop that drive it. `pc` is where the thread is, including inside a blocking
`write` or `waitpid` and `"down"` when a signal (SIGPIPE) or a null pointer ends
the server. Data are byte counts. `ready` holds the edges epoll has not
delivered, `batch` those the loop has not handled. Actions are the system calls
between which the script can move: `Fork`, `CheckAlive` (waitpid WNOHANG),
`SetupLarge`/`SetupSmall` (`_setupParentPipes` and `_addCgi`), `TimerCheck`,
`EpollWait`, `HandleEvent` (`_handleConnectionEvent` down to `_writeInput`,
`_readOutput` and `_finishCgi`), `ResumeWrite`, `ResumeFinish`. The script is any
program. `Cgi` implements `CgiExchange` (`ImplementsExchange`).

`HTTPServer` is the loop with many connections: the descriptor table, what epoll
watches, both maps, which handlers are alive, each handler's Cgi. Member
functions are operators on the record `srv`, so a handler that calls another is
their composition; actions are the turns of `start`. What a request comes to is
chosen (`Outcomes`). The history `srv.astray` records *accidents*: a handler
deleted under its Cgi ("orphan"), a Cgi with two entries ("twin") or with an
entry for a pipe it has closed ("stale"), a handler twice in `toKill` ("twice"),
a closed descriptor kept open, and watched, by another script ("ghost"), and a script
started by a second try ("unheard": `handleHTTP` returns false behind the retry of a
send, so `_addCgi` is not called and the Cgi is in no map; `added` is FALSE). The
code does have these; the properties say which accident is needed before a
promise breaks, and that every promise holds without it. A step with no defined
outcome (dangling or null pointer) sets `srv.defined` to FALSE and ends the run.

`HTTPRequest` is the parser, member function by member function, on a keep-alive
connection whose messages are cut anywhere. A message is a sequence of symbols:
line ends and body bytes one each, a word of a line one. `Receive` is a turn of
`_createRequest`, `Answer` the reset in `_delegateToHTTPAction`.

`Path` has the operations on paths, sequences of characters, as pure operators.
`ServerConfig` is the lookup of a route, its cache, and what the current route
makes of a path: files, scripts, uploads, limits.

`ConfigParser` extends it with the configuration file. The text of a file is a
sequence of lines of words, in which a word is a sequence of characters where the
code looks at characters (a semicolon at its end, a colon, digits, a comment).
`parser` is the `ConfigParser`; its `block` is the loop it is in, or how it ended:
"done", "refused", or "astray" where the message of an exception reads a token
behind the last one. One step is one directive. What a file *says* is defined
apart from the parser, on the sequence of servers and directives that was written
down (`Said`), and every file of an instance is checked with every mistake of one
kind at every place (`Mistakes`): a word missing, a semicolon missing, a space
before a semicolon, an early end.

`Webserv` extends `ConfigParser` with the program around it: `main` is where
`main()` is and the `HTTPServer` it has made, `fds` the open descriptors. Its
actions are the configuration, `_initEpoll`, one address of one host at a time
(`_getAddressInfo`, `TryAddress`, `_startListening`), installing the handler,
serving, SIGINT, the destructor; every system call may fail. `Serve` is the lookup
of a route, so the properties of `ServerConfig` are checked with routes that the
parser has read.

`ConnectionHandler` extends `ServerConfig` with several connections that share one
configuration: `Event` is `_handleConnectionEvent` down to `handleHTTP`, with the
retry, the decomposition of the path, the limit and the route lookups (in the
parser and again in `_setServerConfig`), the action, the send that takes what
there is room for, the EPOLLOUT flags and `shouldClose`; `sendCgiResponse` is the
end of a script. Each of these is a chain of operators on one record, a handler
together with the configuration it shares; what is said of a connection is said of
such a record and its client, so it can be proved of one function after the other.
A message has a method, which decides what `_initEnv` tells a script. `Size` is how
large an answer is, by its target and how it is sent, and may exceed the socket. The
retry and the run behind it each choose whether a script can be started.
Messages are whole, with an absolute path (`ConnectionAssumption`): a client that
stops in the middle of one is not part of the model, nor is what is behind the end of
a message in one piece. `fails` (history) says what sends have failed: "page", the first try
of an answer; "cgi", the answer of a script; "again", a retry, or one that
started a script. `patient` (history) is a client that had all its answers, and
had read them, when it sent the next message or ended.

`HTTPResponse` builds responses from a file system that is a function from names
to contents; its member functions are operators. `HTTPAction` extends it with the
methods: each step is one request, `run` from redirect to error page, on files
the requests share. An upload is a sequence of parts; at each write the disk
takes nothing, one symbol or all (`rooms`). `Locked` are files that can be
neither opened nor removed. `ResourceStore` is what clients may expect: resources
with URLs, `Look`, `Save`, `Delete` and their failures; `HTTPAction` implements it
(`ImplementsStore`) through the file each URL stands for. Two things of the code are
part of this contract because a client sees them: `BodyEnd`, the characters that
`setBody` puts behind every body, and that an empty part is taken and not stored
(`Stores`).

`CgiProofs`, `HTTPServerProofs`, `ServerConfigProofs`, `ConfigParserProofs`,
`WebservProofs`, `HTTPRequestProofs`, `ConnectionHandlerProofs` and `HTTPActionProofs` hold the theorems and the lemmas they rest on. `MC*` modules are the TLC instances.

How the modules fit together: `Cgi` has the inside of one exchange and a loop
with nothing else in it; `HTTPServer` has all the connections and takes from an
exchange only when it starts, closes its stdin, ends or is late;
`ConnectionHandler` has the sockets' edges and takes from the parser only where a
piece leaves it (`line`, `head`, `end`, `bad`); `HTTPRequest` shows that these
do not depend on the cuts.

## 3. Runs

| run | shows |
|---|---|
| `cgi` | all of `Cgi`'s safety properties, its inductive invariant, the refinement and the liveness |
| `cgi_blocks` (violation) | the thread waits for a script, against `README.md:192` |
| `cgi_lost_edge` (violation) | output left unannounced by one read per edge, against `README.md:193` |
| `server` | maps, descriptors, batches and pointers are right up to named accidents; overdue scripts that were added end, unless the end of another takes their entries |
| `server_stop` | everything is released, also when descriptors run out |
| `server_timer` (violation) | the timer collects one handler twice and follows a null pointer, against `HTTPServer.cpp:186` |
| `request_parsing` | requests with a length: cuts, limits, reuse of the parser; chunked bodies are prefixes of the data |
| `request_chunked` (violation) | a chunked request that ends before its first chunk, against `README.md:125` |
| `routes` | the program from its file on: read as written, mistakes are noticed or stay in their server, servers by name, sockets for every address or none left open; every accepted file usable; cache, longest location, files below the root, uploads where requests look |
| `actions` | the methods are a store of resources; error pages; index files; who may change which file |
| `connections` | own answers by own routes, own limits and script environments, what second tries may do, no lost wakeup |
| `connections_liveness` | script environments for every method with and without query and body; every request is answered; who reads gets its answers at the first try, whole if the socket takes them, and is closed at its end; who is cut off asked for it or was not reading |

Some properties are the conjunction of parts that are about one question, each
stated and commented on its own:

| property | parts |
|---|---|
| `Cgi!IInv` | `TypeOK`, `PhaseInv`, `ChildInv`, `BytesInv`, `FdInv`, `EdgeInv`, and the four safety properties `CgiProofs` proves |
| `HTTPServer!MapsAreRight` | `IInv` (`TypeOK`, `HandlersInv`, `EntriesInv`, `OwnersInv`, `KillInv`), `EventsInv`, `RecordInv`, `ConnectionsAreAccountedFor`, `CgisAreRunning` |
| `HTTPRequest!CompleteAtTheEnd` | `TypeOK`, `CompleteIsWhole`, `EndIsSeen` |
| `ServerConfig!PathsNameTheirFiles` | `FilesAreBelowTheRoot`, `UploadsAreServed` |
| `ConfigParser!MistakesAreContained` | `MistakesDoNotSpread`, `EndIsNoticed` |
| `HTTPAction!AnswerFitsTheFiles` | `ActionTypeOK`, `ErrorsAreExplained` |
| `ConnectionHandler!AnswersHaveRequests` | `AnswersAreOwn`, `AnswersHaveTheirCause` |
| `ConnectionHandler!RequestsAreNotMixedUp` | `LimitIsOfOwnLocation`, `ScriptsGetTheirRequest` |
| `ConnectionHandler!WhatWaitsIsWoken` | `ConnTypeOK`, `ConnInv` (for each connection `HandlerInv`: `OpenInv`, `WokenInv`, `OneAtATime`, `AnswersAreCounted` and the parts of the two lines above), `PendingIsWatched`, `NoWakeupIsLost` |

### Bounds

* `cgi`: bodies of 0..3 bytes with `SmallBody` 1 and `PipeCap` 2, so a body can be
  empty, written at once, fit the pipe exactly, or not fit; `ReadChunk` 1 and
  `MaxOut` 3, so output can exceed one read and the pipe; a limit of one second
  on a clock that stops at two. The order of the real sizes (4096 <= 65536) is
  the assumption `SizesAssumption`; that a small body fits the pipe is used.
* `server`: a script takes 4 descriptors to start and keeps 1 or 2, its
  connection one. With 7 descriptors and 2 connections both can have a script, a
  closed pipe's number can become the second client's socket, and a script can
  keep a copy of the other's descriptors; a batch of 2 is the least in which one
  event can spoil another.
* `server_stop`: 5 descriptors and 3 connections, so that the descriptors run out, both
  for `pipe` and for `accept`.
* `server_timer`: 5 and 1, which is all it takes.
* `request_parsing`: two messages, the first of any kind; bodies of up to 3 bytes
  against a limit of 2, with line ends and digits in them; chunks of up to 2
  bytes. The words that are numbers are the constant `Digit`, here 0 to 3.
* `routes`: five files of one to three servers with every directive, repeated
  directives, a server that ends in a list and an empty location, two servers at one address, three names shared between servers; one
  mistake of each kind at each word. Two addresses, one host with two of them (the
  second taken by the other host), three descriptors: epoll and two sockets, so
  the last socket that is tried fills the table. All paths of up to 4 characters over
  `/ a b ?`, four nested locations, in an order that is not by length.
* `actions`: a site with a start page behind a missing index file, a location for
  uploads, a redirect, scripts and a file that cannot be opened; of the error
  pages one is there, one missing, one unreadable. Two upload names and the
  default file, forms of two parts for different names, for the same name, with
  an empty or unnamed part, and cut off; files of up to 5 symbols, enough for a
  replaced file and one whole appended entry with a failed one before it.
* `connections`: 2 connections, the first with 2 requests and the second with 1:
  enough for a failed send with another connection's lookup before the retry. A
  page and a script location, each with a limit, and with a query the path of the script
  is in the location of the page; a `GET` for a page, for a script, for a script with a
  query and a body in two pieces. A socket has room for 2 pages or 1 answer of a script,
  so an answer may go whole, in part or not at all.
* `connections_liveness`: one connection, as connections share no more than the route;
  3 requests of ten kinds: besides those above a picture larger than the socket, a `POST`
  with another query and a body or none, a body above the limit, a message that is not
  HTTP, and two with `Connection: close`.

Deadlock is not checked: in every model the run may end (the client has all its
answers; the server has stopped; `srv.defined` or `pc = "down"`), and the bounds
end it too.

### Fairness

* `Cgi!LiveSpec`: weak fairness of the server's thread as a whole and of the clock;
  nothing is asked of the script. That is what an operating system gives a
  process that can run; a blocked call is not enabled, so it is not helped.
* `HTTPServer!LiveSpec`: weak fairness of the loop, strong fairness of the timer's
  check: `epoll_wait` returns after a second at the latest and `update` looks at
  the clock once per turn, so a loop that keeps turning finds a second gone by
  again and again. It assumes member functions return; `cgi_blocks` shows when
  they do not.
* `ConnectionHandler!LiveConnSpec`: each connection's event is handled, scripts end
  (the time limit sees to that), sent pieces arrive, clients read. The fairness of
  `Event` is written out with its guard in the place of `ENABLED`
  (`EventsAreHandled`), which TLC evaluates much faster.

## 4. What the checks found

Four runs find what a line of the repository rules out (`PROJECT.json`, "findings"):

* `cgi_blocks`: the thread waits in `waitpid` or `write`; `cgi_lost_edge`: one `read`
  per edge.
* `server_timer`: a handler collected twice by the timer, whose second `processCgi` is
  called on a null Cgi.
* `request_chunked`: chunked requests are complete at the end of their headers.

Beyond these, the exceptions in the properties are behaviour of the code worth knowing:

* `UndefinedHasACause`, `CgisAreRunning`: closing a connection with a running
  script leaves a dangling pointer in `_cgis`.
* `CgisAreRunning`, `OverdueCgiEnds`: a script that a second try has started ("unheard")
  is in no map, so nothing is heard of it and no timeout ends it. Neither is one ended
  whose only entry the end of another has taken: that one kept an entry for a pipe it had
  closed, and `_processCgi` drops the entries of both its numbers, whoever has them by
  then.
* `CompleteAtTheEnd` ends with a chunked message: what is left of it in the buffer is read
  as lines, whatever it says. A word that is a method in the data of a client is a request
  on the path of the chunked one, which `reset` has kept; and a line without a method can
  do as much, as the branch for scripts in `HTTPAction.cpp:80-93` asks only for the path.
  So of what follows on such a connection nothing is promised.
* `NoScriptOutlivesItsAnswer` is about scripts that run: one that was killed is not waited
  for and stays in the process table as long as the server runs.
* `SocketsAreNotStolen`, `ConnectionsAreAccountedFor`, `StopReleasesDescriptors`:
  `_isWriteDone` closes a pipe whose number stays in `_cgis`; the end of the Cgi
  closes that number, whoever has it by then.
* `BatchIsFresh`: descriptors are inherited by scripts (no close-on-exec).
* `PendingIsWatched`, `EveryRequestIsAnswered`: a retried send that fails again, a
  script's answer that cannot be sent, and a script started by a retry are lost.
  A retry also runs the action again and answers twice, which is why
  `AnswersAreOwn` speaks of connections on which no send has failed.
* `AnswersHaveTheirCause`: a second try may run by the route of another connection,
  and one that succeeds is followed by a third run of the same request in the same
  call, answered once more.
* `PatientClientsAreServed`: a client that asks again before it has read may get a
  part of an answer that an empty socket would have taken, with nothing to follow; and
  what `send` does not take of an answer is dropped, so also a client that reads
  everything gets a part of what is larger than the socket's buffer.
* `OnlyTheAskedAreCutOff`: a `Connection: close` in a request that arrives in more
  than one piece, or that starts a script, closes the connection before the answer;
  in one that is answered at once it is cleared with the request and the connection
  stays open.
* `PatientEndsAreNoticed`: the end of a client that comes together with its request,
  or while its script runs, uses up its edge unseen, and the connection stays.
* `ScriptsGetTheirRequest`: a `POST` is told no query and a `GET` no length, even if it
  has one; a `GET` without a query of its own is told that of an earlier request of its
  connection. `PATH_INFO` is always "/": the loop of `_parsePath` tests the same path in
  every turn.
* `ReadAsWritten` and the properties of mistakes: a file that ends inside a directive
  reads behind the last token. A missing semicolon is noticed only where no list
  swallows what follows: `users/multipleServers.conf:91` has none after `index`, so
  its location gets `autoindex` and `on` for index files and no listing. A missing
  upload directory is an error, as for `users/evilcorp/Uploads` of that file.
* `MistakesAreContained`: a list without its semicolon may run on into the next server
  (`RunsOn`), over the end of its own and the head of the other, and the two become one:
  an address of the file is not served then, without a message. It takes an `error_page`
  or `server_name` as the last directive of a server whose locations are empty. An
  `error_page` with one word left takes its semicolon for the page and runs on likewise.
  The property had said that no server can be lost; it held only for the files TLC was
  given, as the attempt to prove it showed.
* `DescriptorsAreAccountedFor`: a socket that cannot be bound is closed twice; as the
  program has one thread, the second `close` finds nothing. `EveryAddressIsServed`:
  two addresses that differ in the file and not for `bind` end the start-up, and
  `main` returns 0 then.
* `ChunkedBodyIsAPrefix` and not more: even with a length, a piece that ends between
  a chunk and its CRLF makes `_setChunkSize` read the CRLF as a chunk of size 0.
* `UploadsAreServed`, `ImplementsStore` speak of locations whose `upload_path` is
  a file right below their root, like those of `users/multipleServers.conf`. The
  default, `/uploads.txt` appended to the location's path, is below the root *and*
  the path: what is uploaded there is not what the location serves. An
  `upload_path` without a slash has `getDirectory` return nothing, and the upload
  goes to the root of the file system; one that ends with a slash keeps its last
  segment as a directory (`NamesAFile`).
* `LocationsAreNormal`: a path is compared with the locations as it stands and cut
  off after it is normalised. `getUploadPath` cannot cut off a location like `/a//b`
  that is not in normal form; and `//a/b`, which no location but `/` matches, is
  served by the first location of a server without `/`, and is cut if that is `/a`.
* `ErrorsAreExplained`: a missing error page turns a 405 into a 404, an unreadable
  one a 403 into a 500, above a page that names the old status.
* `FirstIndexIsServed`: index files and listings are always those of the location,
  whichever directory below it was asked for.
* `ImplementsStore`: what is read is what is there with the `"\n\r"` behind it that
  `setBody` adds and counts (`BodyEnd`), so a file that is uploaded comes back two
  characters longer; and a part without content is answered 201 and not stored (`Stores`).
* A failed upload may empty the file it was to replace (`SaveFails`), and 409 is never
  sent: `remove` does not fail with EISDIR.
* `EventuallyAnswered`: SIGPIPE ends the server when a script closes its stdin.

## 5. Proofs

`CgiProofs` proves, for all sizes that satisfy `SizesAssumption` and
`TimeAssumption`, that `IInv` is inductive, and from it `TypeOK`,
`GoodAnswerIsWhole`, `ListensAfterClosingStdin`, `NeverBlocksInRead`,
`NoScriptOutlivesItsAnswer`, the action property `AnswersOnce`, and the refinement
`ImplementsExchange`: every step is a step of `CgiExchange` or a stutter.

`IInv` is checked by TLC (run `cgi`) and is a conjunction of named parts. None of
the safety properties is inductive alone. `PhaseInv` ties `pc` to how far the Cgi
has come; `ChildInv` says a dead script holds no pipe end, so end of file is
certain once it ended; `BytesInv` is conservation (`produced = rawOutput +
outPipe`), which with end of file gives `GoodAnswerIsWhole`; `FdInv` says which
ends are open in which phase; `EdgeInv` says a delivered edge still finds what it
announced, because only the server takes bytes out of the output pipe, which is
why `read` cannot block. The proof goes action by action; the leaves under an
action are the parts it can disturb. `FirstEdgeIsKept` is inductive on top of it: a
body that was written at once leaves nothing to be handled before the output.

`HTTPServerProofs` proves for any number of descriptors and connections and any size of
a batch that `MapsAreRight`, `UndefinedHasACause`, `StopReleasesDescriptors` and the
action property `SocketsAreNotStolen` hold in `HTTPServer`. None of the invariants is
inductive: that a pointer is followed safely depends on whose pipes the entries of
`_cgis` are, and that on nobody else being given their numbers. `IInv` says so in
parts. `HandlersInv` is what holds after any accident: descriptors lead to living
handlers, each from one descriptor, and the count is not below theirs. `EntriesInv`
holds until a handler is deleted under its Cgi: an entry leads to a Cgi that runs and
was added. `OwnersInv` holds until a Cgi keeps an entry for a closed pipe: every open
descriptor has one owner and is in that owner's map, unless it is a pipe of a Cgi that
was not added (`IsOwned`, `OwnsItsPipes`), and the count is
exact (`AreCounted`). `KillInv` says that what is left to kill still runs unless it
was twice in the list. A first group of lemmas says what each member function does to
the data (`CloseEffect` to `NewConnectionEffect`), a second one that it keeps the
invariant (`Right`), so that a handler that calls several is a composition; a third
one has a lemma for each step. That pipes get different descriptors is
`PipesAreFree`, from the fact that a set of descriptors has a lowest element.

The second half of the module adds what a batch needs: `RecordInv`, that what is
watched is open and that ghosts, Cgis with two pipes and Cgis in no map are on record, and `EventsInv`,
that only the loop over a batch has one and, without the accidents, that an event of it is
about a descriptor that was open when the batch was made, each at most once. From these it proves `BatchIsFresh`, and with them the whole
of `MapsAreRight`. For every member function it has a lemma on what it puts on record and
one on the descriptors it spares.

`ServerConfigProofs` proves `CacheIsCoherent` for any locations and any sequence of
lookups: the cache is filled only by the lookup of the path it is kept for; and
`LongestLocationWins` for any locations in any order: the loop of `_findRoute` is the
recursive function `Found`, and `LongestStep` says what one more location does to the
longest so far.

It also proves `PathsNameTheirFiles` (`PathsAreTheirFiles`; `ProgramNamesItsFiles` for the
whole program) for all locations, roots, upload paths and requests, under the assumption
`LocationsAreNormal` on the configuration (section 4), which TLC evaluates for the
instance. `Segments` and `normalize` are functions of the whole path. `SegmentsAre` counts
the characters that begin a segment, from which a path that is cut behind a slash has the
segments of both its parts (`SegmentsSplit`); `normalize` is followed character by
character (`NormalStep`) until it is known to end in a slash or not as its path does
(`NormalEnds`) and to keep the segments (`NormalKeepsSegments`). Then each operation gets a
lemma on what it does to the segments: `JoinIs`, `RelativeIs`, `RemoveIs`,
`DirectoryOfFile`. `RestOfPath` and `FileOfPath` follow `getFullFilesystemPath` for a
location that matches, for `/` and for the default; `UploadOfPath` follows `getUploadPath`,
whose result is relative because the file's name is behind a slash (`EndsInName`).

`ConnectionHandlerProofs` proves for any number of connections, any messages, locations,
limits, and sizes of answers and sockets that `AnswersHaveRequests`, `RequestsAreNotMixedUp`,
`OnlyTheAskedAreCutOff`, `PatientClientsAreServed` and `WhatWaitsIsWoken` hold in
`ConnSpec`. They are proved together, from `ConnIInv`: of every connection, taken together
with the configuration it shares, holds `Good`: `HandlerInv`, who may be cut off, what a
patient client has, and that there is a current route once a path was looked up.
`HandlerInv` is a conjunction of parts that hold until something has failed. `OpenInv`
holds as long as a connection is open: each answer that was given or is owed, second tries
apart, has a message of its own that has left the pipe, and what is still in the pipe is
made of the client's messages. `WokenInv` holds until a second try or a script's answer has
failed: epoll has an event, or will have one. `OneAtATime` and `AnswersAreCounted` hold
until any send has failed: there is one request at a time, and what is left in the pipe is
the rest of it. The argument follows the calls: `ParseEffect`, `ReadStep` and
`CreateEffect` (the `recv` loop, by induction on the pieces it has read), `FetchEffect`
(up to `_setServerConfig`), then a lemma for each way `handleHTTP` may end (`Refused`,
`Started`, `Answered`, `Postponed`, `Waiting`), `Retried` for its first branch, and one for
each other step. Connections touch each other only in the shared route: `OthersLookUp` says
that a lookup of another one does no harm, because every use of the route is behind a
lookup of the connection's own path, except in a second try. The proof found a mistake:
`WokenInv` had said that a message is under way *or* an event is there, which is not
inductive, as an event with nothing whole to read is used up by a read that ends nowhere;
it now asks for the end of a message, in the pipe or behind the event.

`HTTPRequestProofs` proves `CompleteAtTheEnd`, `LimitIsExact`, `CutsMakeNoDifference` and
`ChunkedBodyIsAPrefix` for any messages (paths, versions, data and chunks of any length and
content, line ends included), any limit and any cuts. It assumes of a client what
`MessagesAssumption` says: a message that is not chunked has the length it announces, and
the sizes of chunks can be written. `ParserInvariant` says that a message is sent to an
idle parser, short of a chunked one before it, and *arrives*: what is in the buffer,
followed by what is still on the wire, is the rest of the message, from the place where the
parser is (`InHeaders`, `InBody`, `InChunks`). It does not mention the cut, so it is the
same for all of them, and a call only moves what is received from the wire to the buffer
(`MessageArrives`). Both loops are `Repeat`: a set of requests that its turns do not leave
is not left by the loop (`LinesAreRead`, `ChunksAreRead`), so there is a lemma for each kind
of turn: a start line, a header, the empty line; a size, the data of a chunk, its end, and
its end that came too late and is taken for a size of 0 (`LateEndTurn`), after which the
body is a prefix and no more. The least that had to be known of texts is in `FirstLine` (a
line is found where it was sent) and `SplitBoth` (two ways to cut a text agree).
`CutsMakeNoDifference` follows because there is one request a message can end as (`OneEnd`).


`WebservProofs` proves for any files, hosts and number of descriptors that
`DescriptorsAreAccountedFor` holds in `Webserv`. It is not inductive: `DescriptorInv`
adds where a socket may be while its address is being tried (only at "address", and
never one that the server has already), that an address gets one socket, that no
open file has the number `None`, and that the server owns nothing before "init"; each
failure is then one lemma about which descriptor is closed and who knew of it.
`ProgramKeepsCacheCoherent` proves that every step of the program is a step of
`ConfigSpec` or leaves the cache alone, so `CacheIsCoherent` and `LongestLocationWins`
hold in it too.

`ConfigParserProofs` has the invariant of the parser for whatever is written in a file
and whatever mistake is made in it, without any grammar. The tokens are a sequence of
words (`TokensAreWords`): `FlattenSeq` is a recursive function, so that follows by
induction on the lines. `ParserInv` says that the server and the location being read
have all their fields, that the locations a server has were validated, and that its host
has no colon in it, as `setListen` cuts it off before the first (`ServerIsSound`,
`RouteIsSound`); and that the servers that were kept are valid, each under its own key
(`ConfigsAreSound`). There is one lemma for
each directive and each end of a block. From it follow `SoundIsUsable` and, because the
host has no colon, that servers with the same key have the same host and port
(`KeyNamesTheAddress`): the server that `findServerConfig` finds listens where the first
one of the key does, which is the one whose address is opened.

The larger half of the module is about what the parser makes of a text, for any files,
servers, locations, directives and words under `FilesAreRight`: a file without a mistake
is read as what it says (`FilesAreReadAsWritten`; `NamesLeadToTheFirst` for the choice by
name), and one that ends too early is refused or is read as what it says up to there
(`EndsAreNoticed`).
`FilesAreRight` is the grammar that the code accepts, and TLC evaluates it for the
instance: each directive has as many words as its setter takes, no word ends with a
semicolon or has a comment in it, each server has an address, and what is said passes
`validateRoutes` and `validateServer`. Without it the theorem would be false, as a file
that breaks one of these is refused, and `ReadAsWritten` says that none is.

`ReadAsWritten` says nothing of the time before a file is accepted, so it cannot be
inductive. `ReadInv` adds to `ParserInv` where the parser is (`IsOnTheWay`): between two
servers (`ReadsFile`), behind the i-th directive of the k-th (`ReadsServer`), behind its
j-th location (`ReadsLocations`), or behind the i-th directive of that
(`ReadsLocation`); and that what it holds there is what the text says *up to there*. The
argument has four layers. `TokensOfTheHeads` and its neighbours say which token is at
which place: `tokenize` flattens the lines, so every line has a place in the whole
(`PiecesAreInPlace`), and the words of a line that is right are its tokens, with the
semicolon cut off the last (`LineOfADirective`, `TokenIsSeen`, `ArgumentsAreSeen`). Each setter has a
lemma on what it makes of its words (`ServerNameReads` to `CgiReads`), the loops among them
by induction on the words. `Said` is not defined by the parser's steps but looks at the
text as a whole (the last of a name, all of a name, the last pair a word begins), so
`ReadServer` and `ReadRoute`, what a text says up to a directive, each get a lemma on one
directive more. Then one turn of each loop keeps `IsOnTheWay`: `ServerBegins`,
`ServerGoesOn`, `DirectivesEnd`, `LocationStarts`, `LocationGoesOn`, `LocationEnds`,
`ServerEnds` (with `OneMoreServer`, for the map by keys) and `FileEnds`. The proof needed no change of the properties;
`Named`, `Final`, `SaidPairs` and `SaidPages` are now written with sets of places, and
`PairsOf` is a recursive function, as nothing can be proved about folds.

The same lemmas serve for a file that ends too early. What they ask of the tokens is only
that they are those of the written servers up to some place in the last of them
(`EndsInTheLast`), which `TokensUpToTheEnd` proves of such a file: the lines before its end
are as they were written, and the words that are left of the last one give the first tokens
of that line (`TokensOfTheFirstWords`). Every line that is complete is read as before; when
the parser meets the one that is not (`SeesStart`), it is refused, runs astray, or stands
in an open block behind the last token (`Lost`), whatever the directive is
(`CutDirectiveIsLost`, `CutServerHeadIsLost`, `CutLocationHeadIsLost`, `CutBraceIsLost`),
and stays so (`LostStaysLost`), because the loops end there and `expectToken` then misses
the brace. So `ReadInv` says of such a file that the parser is on its way through the
servers up to the last or is lost; and a parser that is lost accepts nothing.

`FindingIsRight` adds the choice of a server. `PlacesOfKey` says where the servers of a key
are in its list, and that they are there in the order of the file, so the first with a name
in the list is the first with it in the file (`FirstOfKey`, `FirstWithTheName`).

With these, `WebservProofs` proves `AcceptedIsUsable` (`AcceptedFilesAreUsable`) and
`EveryAddressIsServed` (`AddressesAreServed`) for the whole program. The latter is the
end of a chain that `AddressInv` describes: the addresses left to be tried belong to the
host of the key, the socket being made has one of them and the port of the key
(`SocketIsMade`), the sockets that were made have theirs, listen, are watched and are
all different (`SocketsServe`), and `Start` waits for one per key (`AllAreServed`). What
must not happen in between is that a descriptor of one key is closed for the failure of
another, which `DescriptorInv` rules out.

`HTTPActionProofs` proves for any site, any requests and any failures of the disk that
`AnswerFitsTheFiles`, `FirstIndexIsServed` and `OnlyNamedFilesChange` hold in `ActionSpec`
and that it implements `ResourceStore` (`ImplementsStore`). The invariant is
`CacheIsCoherent`, so that a request runs by its own route, and `IsTree`: what is there has
a path, directories above it, and content if it is not a directory. The argument follows
the code. A first group of lemmas says that the operations on paths lead from paths to
paths; then each member function has one on what it leaves: `FileOrError` and
`ErrorPageExplains` (`setBodyFromFile`, `buildErrorPage`), `FirstIndexIsFound` (the loop of
`_checkForIndexFiles`), `PartIsWritten` and `PartsAreStored` (`saveFile`, `downloadFile` and
the loop of `downloadMultiPart`, in which a part that fails leaves a status that no later
part takes back), `DeleteIs`; and `RunAnswers` lists the ways a request may end
(`Answered`). The properties are about these alone. For the store the items of an upload
are its parts, one each (`ItemsAreParts`): an empty one leaves both the file and the
resource as they were (`ContentIsStored`); `PutIsWritten` says that a file that is written
is a resource that is written, and `RunRefines` that each request is one step of the store.

Two assumptions on the site go into it, which TLC evaluates for the instance
(`SiteAssumption`). `UploadsGoBelow`: what is uploaded to a path is the file a request for
that path is answered with; without it the default `upload_path` makes both the store and
`OnlyNamedFilesChange` false. `ResourcesAreFiles`: `Urls`, the resources one looks at, are
different files, none of them run as a script; whatever is deleted is one of them; and a
redirect has no code that says that all is well, as a `return 200` in a file would.

Induction is on the numbers that have a property, as a set without a least element outside
(`AllNaturals`, from the well-foundedness of `<`). It reaches recursive functions, not
folds: `Found`, `Reads` and `Repeat` are written that way, `FlattenSeq` is.

Only model-checked: liveness (out of the prover's reach, with `ENABLED`), and one half of
one safety property, `MistakesDoNotSpread` in `MistakesAreContained`; the other half,
`EndIsNoticed`, is `EndsAreNoticed`. What is read behind a mistake in the middle of a file
is no longer what the text says up to there, so `IsOnTheWay` does not carry over: a list without its semicolon
swallows up to the next one, whatever blocks begin and end in between, and whether that is
noticed depends on which words the next block begins with. It needs an invariant for each
kind of mistake and each thing that may follow it. TLC makes each of the mistakes at
each place of the files of the instance.

## 6. Not modelled

Pipelined requests, that is what follows a message in the same `recv`; headers
other than `Host`, `Location`, `Content-Length`, `Transfer-Encoding` and
`Connection`; the bytes of forms and pages; `..` in paths; files changed by
scripts; `atoi` of words that are not digits only; the text of messages and logs;
a second SIGINT during the destructor; connections together with scripts' pipes in
one machine (`HTTPServer` and `ConnectionHandler` each have one half); the example
sites and `src/test.py`.

## 7. Plan

In order of importance; 1 to 9 are done.

1. `CgiExchange`, `Cgi`, refinement, `CgiProofs`.
2. `HTTPServer`: descriptors, maps, accidents.
3. `HTTPRequest`: parser under all cuts.
4. `ServerConfig` with its proof.
5. `ConnectionHandler` on top of it.
6. `Path`, `HTTPResponse`, `HTTPAction`, `ResourceStore`: answers over files that
   requests share.
7. `ConfigParser`: files with mistakes, servers by name.
8. `Webserv`: start-up, signal, end, with `WebservProofs`.
9. `Connection: close`, queries, limits and partial sends in `ConnectionHandler`;
   chunked messages followed by others in `HTTPRequest`.
10. Pipelining in `ConnectionHandler`.
11. Abstract specification of `HTTPServer` (connections come, are served, go) and a
    refinement for runs without accidents.
12. Theorems: `MistakesDoNotSpread`, kind by kind (word, semicolon, space).
