------------------------- MODULE ConnectionHandler --------------------------
(***************************************************************************)
(* Connections (ConnectionHandler.cpp) in the edge-triggered loop, with    *)
(* the ServerConfig they share.  An event makes the server call handleHTTP *)
(* once; what is left in the socket then is not reported again until more  *)
(* arrives.  A send that finds the socket full is to be tried again when   *)
(* epoll says there is room, with a request that is run once more.         *)
(*                                                                         *)
(* What recv returns is one piece of a message: "line", the headers are    *)
(* not over; "head", they are, but the body is not; "end", the message is  *)
(* whole; "bad", an error; "eof".  A piece says what has come up to there: *)
(* the method and the path, how long the body is, and whether there was a  *)
(* "Connection: close".  The client waits for the answer before it sends   *)
(* the next message, but need not have read it; and it may end, or give    *)
(* up, at any time.                                                        *)
(***************************************************************************)
EXTENDS ServerConfig

CONSTANTS
  Conn,                   \* the connections
  Messages,               \* what clients send: sequences of pieces
  Present,                \* the paths of files that exist
  client_max_body_size,   \* the server's
  Size,                   \* of an answer, by its target and how it is sent (see Fail)
  Room,                   \* bound: what an empty socket has room for
  MaxRequests             \* bound: messages of a connection

PieceKinds == {"line", "head", "end", "bad"}
Final == {"end", "bad"}
Methods == {"GET", "POST", "DELETE"}

\* What comes before the last piece of a message.
Leads(piece, last) ==
  /\ piece.kind \in {"line", "head"}
  /\ piece.close => last.close
  /\ piece.kind = "head" => /\ piece.method = last.method /\ piece.path = last.path
                            /\ piece.length = last.length

\* A message has one piece that ends it, its last, and asks for an absolute path.
ASSUME ConnectionAssumption ==
  /\ Room \in Nat \ {0} /\ MaxRequests \in [Conn -> Nat]
  /\ Messages \subseteq
       Seq([kind : PieceKinds, method : Methods, path : Seq(STRING), length : Nat,
            close : BOOLEAN])
  /\ \A message \in Messages :
       /\ message # <<>> /\ Last(message).kind \in Final
       /\ \A i \in 1..(Len(message) - 1) : Leads(message[i], Last(message))
       /\ \A i \in 1..Len(message) :
            message[i].kind \in {"head", "end"} =>
              message[i].path # <<>> /\ message[i].path[1] = "/"

Pieces == UNION {ToSet(message) : message \in Messages}

\* A path without its query, and the query.
Plain(path) ==
  LET mark == SelectInSeq(path, LAMBDA c : c = "?") IN
  IF mark = 0 THEN path ELSE SubSeq(path, 1, mark - 1)
QueryIn(path) == SubSeq(path, Len(Plain(path)) + 2, Len(path))

Targets == {Plain(p.path) : p \in Pieces} \cup {<<>>}
Queries == {QueryIn(p.path) : p \in Pieces} \cup {<<>>}
Lengths == {p.length : p \in Pieces} \cup {0}

\* How an answer is sent: that of an action for the first time, that of a script, and
\* that of an action that is run again after one of these has failed.
Fail == {"page", "cgi", "again"}

\* No answer is empty; it may be larger than the socket.
ASSUME SizeAssumption == Size \in [Targets -> [Fail -> Nat \ {0}]]

VARIABLES
  conn,   \* ConnectionHandler, and its socket in epoll
  net     \* the client and the network of each connection

connVars == <<config, conn, net>>

NoRequest == [state |-> "none", method |-> "", target |-> <<>>, query |-> <<>>,
              length |-> 0, close |-> FALSE]

\* A script's environment, an answer: what they are made from.
Made(request, route) ==
  [method |-> request.method, target |-> request.target, route |-> route,
   length |-> request.length, query |-> request.query]
NoCgi == Made(NoRequest, NoRoute)

ConnInit ==
  /\ ConfigInit
  /\ conn = [c \in Conn |->
       [request |-> NoRequest,            \* _request
        cgi |-> NoCgi,                    \* _cgi
        epolloutShouldOpen |-> FALSE,
        epolloutShouldClose |-> FALSE,
        shouldClose |-> FALSE,            \* _shouldClose
        closed |-> FALSE,
        watchesCgi |-> FALSE,             \* _addCgi was called
        epollout |-> FALSE,               \* EPOLLOUT is asked for
        edge |-> FALSE,                   \* epoll has something to report
        inbox |-> <<>>,                   \* the pieces recv has not returned
        room |-> Room,                    \* what the socket has room for
        answers |-> <<>>,                 \* what was sent
        fails |-> {}]]                    \* (history) what was not sent, see Fail
  /\ net = [c \in Conn |->
       [coming |-> <<>>,    \* the pieces on their way
        asked |-> <<>>,     \* the messages that were sent, by their last pieces
        owed |-> FALSE,     \* the last of them has no answer
        ended |-> FALSE,
        patient |-> TRUE]]  \* (history) it had read all when it sent the next
----------------------------------------------------------------------------
(* ConnectionHandler.  The members of a handler h together with config are *)
(* a record s; a member function is an operator from s to s.               *)

SizeOf(made, kind) == Size[made.target][kind]

\* What send takes of an answer is all that is sent of it.
Answer(made, kind, n) ==
  [target |-> made.target, route |-> made.route, kind |-> kind,
   cut |-> n < SizeOf(made, kind)]
Send(s, made, kind, n) ==
  [s EXCEPT !.room = @ - n, !.answers = Append(@, Answer(made, kind, n))]

SentInPart(s, made, kind) == Send(s, made, kind, 1)

_sendResponse(s, made, kind) ==
  IF s.room = 0
    THEN [s EXCEPT !.epolloutShouldOpen = TRUE, !.fails = @ \cup {kind}]
    ELSE Send(s, made, kind,
              IF SizeOf(made, kind) < s.room THEN SizeOf(made, kind) ELSE s.room)

\* HTTPRequest::reset, which leaves the query.
reset(r) == [NoRequest EXCEPT !.query = r.query]

\* The request is reset once its answer is on its way.
ResetUnlessPending(s) ==
  IF s.epolloutShouldOpen THEN s ELSE [s EXCEPT !.request = reset(@)]

TellsAll(request, route) == Made(request, route)

\* What a script is told: the query of a GET, the length of the body of a POST.
_initEnv(request, route) ==
  [Made(request, route) EXCEPT
     !.query = IF request.method = "GET" THEN @ ELSE <<>>,
     !.length = IF request.method = "POST" THEN @ ELSE 0]

\* _delegateToHTTPAction.  The action is one of the current route; a script
\* that does not start is answered like a page.
_delegateToHTTPAction(s, starts, kind) ==
  LET route == s.config.route IN
  IF isAllowedCgi(route, s.request.target) /\ starts
    THEN [s EXCEPT !.cgi = _initEnv(s.request, route)]
    ELSE ResetUnlessPending(_sendResponse(s, Made(s.request, route), kind))

QueryOf(r, query) == query

\* _parsePath: the route of the path with its query, the path without; of a file
\* that does not exist what is before the first slash.
_parsePath(s, path) ==
  LET mark  == SelectInSeq(path, LAMBDA c : c = "?")
      plain == IF mark = 0 THEN path ELSE SubSeq(path, 1, mark - 1)
      slash == SelectInSeq(plain, LAMBDA c : c = "/")
  IN  [s EXCEPT
        !.config = Correct(@, path),
        !.request.query = IF mark = 0 THEN @
                          ELSE QueryOf(s.request, SubSeq(path, mark + 1, Len(path))),
        !.request.target = IF plain \in Present \/ slash <= 1 THEN plain
                           ELSE SubSeq(plain, 1, slash - 1)]

LimitAsItIs(s, length) == length > getClientMaxBodySize(s.config.route, client_max_body_size)
\* _setMaxBodySize, and the comparison with the length.
TooLong(s, length) ==
  length > getClientMaxBodySize(Correct(s.config, s.request.target).route,
                                client_max_body_size)

\* The empty line behind the headers.
EndHeaders(s, piece) ==
  LET t == _parsePath(s, piece.path) IN
  [t EXCEPT !.config = Correct(@, t.request.target),
            !.request.method = piece.method,
            !.request.length = piece.length,
            !.request.state = IF TooLong(t, piece.length) THEN "bad" ELSE piece.kind]

NothingRead(s) == s
\* recv returns 0.
ClientClosed(s) == [s EXCEPT !.shouldClose = TRUE]

\* One piece for parseRequest; what comes after the end is swallowed.
Parse(s, piece) ==
  LET t == [s EXCEPT !.inbox = Tail(@)]
      u == [t EXCEPT !.request.close = @ \/ piece.close]
  IN  IF piece.kind = "eof" THEN ClientClosed(t)
      ELSE IF s.request.state = "end" THEN t
      ELSE IF piece.kind \in {"head", "end"} /\ s.request.state # "head"
        THEN EndHeaders(u, piece)
      ELSE [u EXCEPT !.request.state = piece.kind]

NothingLeftIsTheEnd(s) == ClientClosed(FoldLeft(Parse, s, s.inbox))
OnePiece(s) == IF s.inbox = <<>> THEN s ELSE Parse(s, Head(s.inbox))

\* recv until there is a request, an error, the end of file or nothing left: the
\* record after each of the pieces.
Reads(s) ==
  LET read[i \in 0..Len(s.inbox)] ==
        IF i = 0 THEN s
        ELSE LET t == read[i - 1] IN
             IF \/ t.shouldClose
                \/ t.request.state \in Final /\ t.inbox # s.inbox
               THEN t ELSE Parse(t, s.inbox[i])
  IN  read

_createRequest(s) == Reads(s)[Len(s.inbox)]

ConfigNotSet(s) == s
_setServerConfig(s) == [s EXCEPT !.config = Correct(@, s.request.target)]

\* The first branch of handleHTTP.  A script that starts now is one that the
\* server does not hear of.
Retry(s, starts) ==
  LET t == _delegateToHTTPAction(s, starts, "again") IN
  IF ~s.epolloutShouldOpen THEN s
  ELSE [t EXCEPT !.epolloutShouldOpen = FALSE,
                 !.epolloutShouldClose = TRUE,
                 !.fails = @ \cup (IF t.cgi = NoCgi THEN {} ELSE {"again"})]

\* handleHTTP, when no script runs.
handleHTTP(s, starts) ==
  LET t == _setServerConfig(_createRequest(s)) IN
  IF t.request.state = "bad"
    THEN [_sendResponse(t, NoCgi, "page") EXCEPT !.shouldClose = TRUE]
  ELSE IF t.request.state = "end"
    THEN _delegateToHTTPAction(
           t, starts, IF t.epolloutShouldClose THEN "again" ELSE "page")
  ELSE t

\* EPOLL_CTL_MOD looks at the socket again.
SetEPOLLOUT(s, on) ==
  [s EXCEPT !.epollout = on, !.edge = s.inbox # <<>> \/ (on /\ s.room > 0)]

NeverOpened(s) == s
OpenEPOLLOUT(s) == IF s.epolloutShouldOpen THEN SetEPOLLOUT(s, TRUE) ELSE s
CloseEPOLLOUT(s) ==
  IF s.epolloutShouldClose
    THEN [SetEPOLLOUT(s, FALSE) EXCEPT !.epolloutShouldClose = FALSE]
    ELSE s

shouldClose(s) == s.request.close \/ s.shouldClose

\* HTTPServer::_delegateToConnectionHandler, once handleHTTP has returned true.
Delegate(t) ==
  LET u == [t EXCEPT !.watchesCgi = t.cgi # NoCgi] IN
  IF shouldClose(u) THEN [u EXCEPT !.closed = TRUE]
  ELSE CloseEPOLLOUT(OpenEPOLLOUT(u))

\* The record of c, and back.
Load(c) ==
  [f \in DOMAIN conn[c] \cup {"config"} |->
     IF f = "config" THEN config ELSE conn[c][f]]
Store(c, s) ==
  /\ config' = s.config
  /\ conn' = [conn EXCEPT ![c] = [f \in DOMAIN conn[c] |-> s[f]]]
  /\ net' = [net EXCEPT ![c].owed =
               @ /\ Len(s.answers) = Len(conn[c].answers)]
----------------------------------------------------------------------------
\* An event of the socket.  The retry and the request behind it may each find a script
\* that starts.
Event(c) ==
  /\ conn[c].edge /\ ~conn[c].closed
  /\ \E again \in BOOLEAN, starts \in BOOLEAN :
     \E r \in {Retry([Load(c) EXCEPT !.edge = FALSE], again)} :
       IF r.cgi # NoCgi THEN Store(c, r)
       ELSE \E t \in {handleHTTP(r, starts)} :
            \E u \in {Delegate(t)} : Store(c, u)

\* The script has ended: sendCgiResponse, from _processCgi.
sendCgiResponse(c) ==
  /\ ~conn[c].closed
  /\ conn[c].watchesCgi
  /\ Store(c, [_sendResponse(Load(c), conn[c].cgi, "cgi") EXCEPT
                 !.cgi = NoCgi, !.watchesCgi = FALSE, !.request = reset(@)])

\* The client sends a message.
Ask(c) ==
  /\ ~net[c].owed /\ ~net[c].ended /\ ~conn[c].closed
  /\ net[c].coming = <<>>
  /\ Len(net[c].asked) < MaxRequests[c]
  /\ \E message \in Messages :
       net' = [net EXCEPT
         ![c].coming = message,
         ![c].asked = Append(@, Last(message)),
         ![c].owed = TRUE,
         ![c].patient = @ /\ conn[c].room = Room]
  /\ UNCHANGED <<config, conn>>

EndOfFile == [kind |-> "eof", method |-> "", path |-> <<>>, length |-> 0, close |-> FALSE]

\* It has nothing more to send; it may give up waiting.
End(c) ==
  /\ ~net[c].ended
  /\ net' = [net EXCEPT ![c].ended = TRUE,
                        ![c].coming = Append(@, EndOfFile),
                        ![c].patient = @ /\ ~net[c].owed]
  /\ UNCHANGED <<config, conn>>

Arrive(c) ==
  /\ net[c].coming # <<>>
  /\ net' = [net EXCEPT ![c].coming = Tail(@)]
  /\ conn' = [conn EXCEPT ![c].inbox = Append(@, Head(net[c].coming)),
                          ![c].edge = TRUE]
  /\ UNCHANGED config

\* The client reads, and the socket is empty again.
Drain(c) ==
  /\ conn[c].room < Room
  /\ conn' = [conn EXCEPT ![c].room = Room, ![c].edge = @ \/ conn[c].epollout]
  /\ UNCHANGED <<config, net>>

ConnNext ==
  \E c \in Conn :
    Event(c) \/ sendCgiResponse(c) \/ Ask(c) \/ End(c) \/ Arrive(c) \/ Drain(c)

ConnSpec == ConnInit /\ [][ConnNext]_connVars

\* WF_connVars(Event(c)), with the guard of Event in the place of ENABLED.
EventsAreHandled(c) ==
  []<>~(conn[c].edge /\ ~conn[c].closed) \/ []<><<Event(c)>>_connVars

\* The loop goes on, scripts end (or are ended), messages arrive, clients read.
LiveConnSpec ==
  ConnSpec /\ \A c \in Conn : /\ EventsAreHandled(c)
                              /\ WF_connVars(sendCgiResponse(c))
                              /\ WF_connVars(Arrive(c))
                              /\ WF_connVars(Drain(c))
----------------------------------------------------------------------------
Requests == [state : PieceKinds \cup {"none"}, method : Methods \cup {""},
             target : Targets, query : Queries, length : Lengths, close : BOOLEAN]
Environments == [method : Methods \cup {""}, target : Targets,
                 route : Routes \cup {NoRoute}, query : Queries, length : Lengths]
Answers == [target : Targets, route : Routes \cup {NoRoute}, kind : Fail, cut : BOOLEAN]
Handlers == [request : Requests, cgi : Environments,
             epolloutShouldOpen : BOOLEAN, epolloutShouldClose : BOOLEAN,
             shouldClose : BOOLEAN, closed : BOOLEAN, watchesCgi : BOOLEAN,
             epollout : BOOLEAN, edge : BOOLEAN,
             inbox : Seq(Pieces \cup {EndOfFile}), room : 0..Room,
             answers : Seq(Answers), fails : SUBSET Fail]
Clients == [coming : Seq(Pieces \cup {EndOfFile}),
            asked : Seq({p \in Pieces : p.kind \in Final}),
            owed : BOOLEAN, ended : BOOLEAN, patient : BOOLEAN]

ConnTypeOK ==
  /\ conn \in [Conn -> Handlers]
  /\ net \in [Conn -> Clients]
  /\ \A c \in Conn : Len(net[c].asked) <= MaxRequests[c]

(* The properties of a connection are about its handler h and its client n. *)

\* An error closes the connection, and is not made by the action of a route.
IsError(a) == a.route = NoRoute

\* As long as no send has failed on it a connection gets its answers in the
\* order of its requests, one each, and each made by the route of its own path,
\* whatever the other connections have looked up in between (handleHTTP,
\* setCorrectRoute).
AnswersAreOwn(h, n) ==
  h.fails = {} =>
    /\ Len(h.answers) <= Len(n.asked)
    /\ \A i \in 1..Len(h.answers) :
         LET a == h.answers[i] IN
         \/ a.target = Plain(n.asked[i].path) /\ a.route = _findRoute(a.target)
         \/ IsError(a) /\ h.closed

FirstTries(answers) == {i \in 1..Len(answers) : answers[i].kind # "again"}
Asked(n) == {Plain(message.path) : message \in ToSet(n.asked)}

\* Also after sends have failed, an answer is that to a request of this connection;
\* only what is made by a second try may come from another's route, or be one
\* answer too many, and only where a script's answer was lost there is no request left
\* to answer (handleHTTP, sendCgiResponse).
AnswersHaveTheirCause(h, n) ==
  /\ Cardinality(FirstTries(h.answers)) <= Len(n.asked)
  /\ \A i \in 1..Len(h.answers) :
       LET a == h.answers[i] IN
       \/ IsError(a) /\ h.closed
       \/ a.target \in Asked(n) /\ (a.kind = "again" \/ a.route = _findRoute(a.target))
       \/ a.target = <<>> /\ a.kind = "again" /\ "cgi" \in h.fails

\* Every answer belongs to a request of its connection, on the first try to the one
\* whose turn it is (handleHTTP).
AnswersHaveRequests ==
  \A c \in Conn :
    AnswersAreOwn(conn[c], net[c]) /\ AnswersHaveTheirCause(conn[c], net[c])

LimitOf(path) ==
  getClientMaxBodySize(_findRoute(Plain(path)), client_max_body_size)

\* A body is refused for its length by the limit of the location of its own path,
\* without the query, whichever route was current when its headers ended
\* (_setMaxBodySize).
LimitIsOfOwnLocation(h, n) ==
  h.fails = {} =>
    \A i \in 1..Len(h.answers) :
      LET message == n.asked[i] IN
      message.kind # "bad" =>
        (IsError(h.answers[i]) <=> message.length > LimitOf(message.path))

\* The queries a script may be told for the last of the messages: that of an earlier
\* one only if it has none of its own.
QueriesFor(n) ==
  LET own == QueryIn(Last(n.asked).path) IN
  IF own # <<>> THEN {own}
  ELSE {<<>>} \cup {QueryIn(message.path) : message \in ToSet(n.asked)}

\* A script is told the method and the path of the request it is to answer; for a POST
\* the length of its body, but not its query; for a GET its query, but not the length of
\* its body.  A GET without a query may be told the last one that was asked on this
\* connection, which reset keeps, never that of another connection (_initEnv).
ScriptsGetTheirRequest(h, n) ==
  h.watchesCgi /\ h.fails = {} =>
    LET message == Last(n.asked) IN
    /\ h.cgi.method = message.method /\ h.cgi.target = Plain(message.path)
    /\ h.cgi.length = IF message.method = "POST" THEN message.length ELSE 0
    /\ h.cgi.query \in IF message.method = "GET" THEN QueriesFor(n) ELSE {<<>>}

\* What connections and requests share does not mix them up: neither the current
\* route nor the members that reset keeps (_setMaxBodySize, _initEnv).
RequestsAreNotMixedUp ==
  \A c \in Conn :
    LimitIsOfOwnLocation(conn[c], net[c]) /\ ScriptsGetTheirRequest(conn[c], net[c])

\* A client that is owed an answer is cut off only if it has asked for the
\* connection to be closed, or a send to it has failed; a "Connection: close" of
\* an earlier request that was answered does not count (reset, shouldClose).
OnlyTheAskedAreCutOff ==
  \A c \in Conn :
    conn[c].closed /\ net[c].owed =>
      Last(net[c].asked).close \/ net[c].ended \/ conn[c].fails # {}

\* A client that reads each answer before it sends the next request gets its answers at
\* the first try, and whole if an empty socket takes them; of a larger one what does not
\* fit is lost, as nothing is kept of what send has not taken (_sendResponse).
PatientClientsAreServed ==
  \A c \in Conn :
    net[c].patient =>
      /\ conn[c].fails = {}
      /\ \A i \in 1..Len(conn[c].answers) :
           LET a == conn[c].answers[i] IN a.cut <=> SizeOf(a, a.kind) > Room

\* An answer still to be sent is waited for: EPOLLOUT is asked for until it has
\* gone, unless the second try has failed too, or has started a script, or it is the
\* answer of a script (_delegateToConnectionHandler, sendCgiResponse).
PendingIsWatched(h) ==
  h.epolloutShouldOpen /\ ~h.closed /\ h.fails \subseteq {"page"} => h.epollout

\* No wakeup is lost: a client that waits for an answer has a message under way,
\* or epoll has its event, or a script runs that epoll watches, or the answer
\* waits for room, with the same exceptions (_createRequest, _addCgi).
NoWakeupIsLost(h, n) ==
  n.owed /\ ~h.closed /\ h.fails \subseteq {"page"} =>
    n.coming # <<>> \/ h.edge \/ h.watchesCgi \/ (h.epollout /\ h.room = 0)

\* What was sent on a connection and not read there.
Pipe(h, n) == h.inbox \o n.coming
Finals(pieces) == {i \in 1..Len(pieces) : pieces[i].kind \in Final}
Silent(pieces) == \A i \in 1..Len(pieces) : pieces[i] = EndOfFile
\* The rest of the message that ends with the piece last.
IsRest(pieces, last) ==
  \E k \in 1..Len(pieces) :
    /\ pieces[k] = last
    /\ \A i \in 1..(k - 1) : Leads(pieces[i], last)
    /\ \A i \in (k + 1)..Len(pieces) : pieces[i] = EndOfFile

\* While a connection is open, who waits is known, and each answer but those of
\* second tries, given or owed, has a message of its own that has left the pipe
\* (handleHTTP, sendCgiResponse).
OpenInv(h, n) ==
  /\ ~h.shouldClose
  /\ h.epolloutShouldClose => h.cgi # NoCgi /\ ~h.watchesCgi
  /\ h.request.state # "bad"
  /\ h.request.state = "end" => h.cgi # NoCgi \/ h.epolloutShouldOpen
  /\ h.request.state \in {"head", "end"} => h.request.target \in Asked(n)
  /\ h.epolloutShouldOpen =>
       /\ h.cgi = NoCgi
       /\ \/ h.request.state = "end"
          \/ h.request.target = <<>> /\ h.request.state = "none" /\ "cgi" \in h.fails
  /\ h.watchesCgi =>
       h.cgi # NoCgi /\ h.cgi.target \in Asked(n) /\ h.cgi.route = _findRoute(h.cgi.target)
  /\ \A i \in 1..Len(Pipe(h, n)) :
       LET piece == Pipe(h, n)[i] IN
       /\ piece.kind \in {"head", "end"} => Plain(piece.path) \in Asked(n)
       /\ piece.kind = "eof" => n.ended
       /\ piece.kind \in {"line", "head"} => \E j \in Finals(Pipe(h, n)) : j > i
  /\ Cardinality(FirstTries(h.answers)) + Cardinality(Finals(Pipe(h, n)))
       + (IF h.watchesCgi \/ h.epolloutShouldOpen THEN 1 ELSE 0) <= Len(n.asked)

\* As long as no second try and no script's answer has failed, epoll will report
\* what is left to do (_delegateToConnectionHandler).
WokenInv(h, n) ==
  /\ h.epollout = h.epolloutShouldOpen
  /\ h.epollout /\ h.room > 0 => h.edge
  /\ h.cgi # NoCgi => h.watchesCgi
  /\ n.owed /\ ~h.watchesCgi /\ ~h.epollout =>
       Finals(n.coming) # {} \/ (h.edge /\ Finals(h.inbox) # {})

\* As long as no send has failed a connection has one request at a time: none, one
\* that is being read, or one whose script runs (_createRequest).
OneAtATime(h, n) ==
  LET last == Last(n.asked) IN
  /\ ~h.epolloutShouldOpen /\ ~h.request.close
  /\ h.request.query \in {<<>>} \cup {QueryIn(m.path) : m \in ToSet(n.asked)}
  /\ h.request.state \in {"head", "end"} =>
       /\ n.owed
       /\ h.request.method = last.method
       /\ h.request.target = Plain(last.path) /\ h.request.length = last.length
       /\ h.request.query \in QueriesFor(n)
       /\ ~(last.length > LimitOf(last.path))
  /\ ~n.owed => Silent(Pipe(h, n)) /\ h.request.state = "none" /\ ~h.watchesCgi
  /\ n.owed /\ h.cgi = NoCgi => IsRest(Pipe(h, n), last)
  /\ h.watchesCgi => Silent(Pipe(h, n)) /\ h.request.state = "end"
  /\ n.patient /\ n.owed => h.room = Room /\ ~n.ended

\* Every message that was asked has its answer, but for the last if it is owed.
AnswersAreCounted(h, n) ==
  Len(n.asked) = Len(h.answers) + (IF n.owed THEN 1 ELSE 0)

\* A path has been looked up, on this connection at least.
HasLookedUp(h) ==
  h.epolloutShouldOpen \/ h.watchesCgi \/ h.request.state \in {"head", "end"}

\* The inductive invariant of one connection.
HandlerInv(h, n) ==
  /\ ~h.closed => OpenInv(h, n)
  /\ ~h.closed /\ h.fails \subseteq {"page"} => WokenInv(h, n)
  /\ ~h.closed /\ h.fails = {} => OneAtATime(h, n)
  /\ h.fails = {} => AnswersAreCounted(h, n)
  /\ AnswersAreOwn(h, n) /\ AnswersHaveTheirCause(h, n)
  /\ LimitIsOfOwnLocation(h, n) /\ ScriptsGetTheirRequest(h, n)

ConnInv ==
  /\ CacheIsCoherent
  /\ \A c \in Conn :
       /\ HandlerInv(conn[c], net[c])
       /\ ~conn[c].closed /\ HasLookedUp(conn[c]) => config.route # NoRoute

\* Nothing waits without something that will wake it (_createRequest, _addCgi,
\* _delegateToConnectionHandler).
WhatWaitsIsWoken ==
  /\ ConnTypeOK /\ ConnInv
  /\ \A c \in Conn : PendingIsWatched(conn[c]) /\ NoWakeupIsLost(conn[c], net[c])

\* Every request is answered, or answered with an error and the connection
\* closed, also when the first try to send has failed; with the same
\* exceptions (handleHTTP).
EveryRequestIsAnswered ==
  \A c \in Conn :
    net[c].owed ~> \/ ~net[c].owed
                   \/ conn[c].closed
                   \/ ~(conn[c].fails \subseteq {"page"})

\* The connection of a client that has its answers and ends is closed
\* (_createRequest).
PatientEndsAreNoticed ==
  \A c \in Conn : net[c].ended /\ net[c].patient ~> conn[c].closed
=============================================================================
