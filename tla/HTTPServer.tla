----------------------------- MODULE HTTPServer -----------------------------
(***************************************************************************)
(* The event loop (src/src/Server): descriptors, the maps that say whose   *)
(* they are, and who deletes what.  Connection handlers and their Cgi      *)
(* objects are heap objects the maps point to; the kernel gives every new  *)
(* descriptor the lowest free number.  What a request or a script does is  *)
(* chosen by the environment; Cgi.tla has the inside of an exchange.       *)
(*                                                                         *)
(* The server's data are one record "srv", and each member function an     *)
(* operator from record to record, so that a handler that calls another    *)
(* is a composition.  Handlers are numbered in the order of their making,  *)
(* so a deleted one is never mistaken for a new one.  A step that follows  *)
(* a dangling pointer, or calls a method of a null Cgi, has no defined     *)
(* outcome: srv.defined becomes FALSE and the run ends there.              *)
(***************************************************************************)
EXTENDS Naturals, FiniteSets

CONSTANTS
  NumFds,     \* bound: descriptors left to connections and pipes
  MaxConns,   \* bound: connections accepted in a run
  MaxBatch    \* _maxEpollEvents

ASSUME BoundsAssumption ==
  /\ NumFds \in Nat /\ MaxConns \in Nat
  /\ MaxBatch \in Nat \ {0}

Fd == 1..NumFds
Handler == 1..MaxConns      \* 0 stands for the null pointer

VARIABLES
  srv,     \* the server's data
  pc,      \* where HTTPServer::start is
  toKill,  \* checkCgiTimeouts: what is left of toKill
  batch    \* the events of epoll_wait not handled yet

vars == <<srv, pc, toKill, batch>>

Closed == [kind |-> "closed", owner |-> 0]
Ghost == [kind |-> "ghost", owner |-> 0]
NoCgi == [out |-> 0, in |-> 0, inOpen |-> FALSE, added |-> FALSE, late |-> FALSE,
          copies |-> {}]

Init ==
  /\ srv = [fds     |-> [f \in Fd |-> Closed],   \* what the kernel has open
            watched |-> {},                      \* what epoll watches
            ghosts  |-> {},     \* <<fd, h>>: epoll watches what was fd and is
                                \* kept open by the script of h
            handlers |-> [f \in Fd |-> 0],       \* _connectionHandlers
            cgis    |-> [f \in Fd |-> 0],        \* _cgis
            alive   |-> {},                      \* handlers not deleted
            unsent  |-> {},     \* those with an answer that could not be sent:
                                \* epolloutShouldOpen
            cgi     |-> [h \in Handler |-> NoCgi],  \* ConnectionHandler::_cgi
            amount  |-> 0,                       \* _connAmount
            made    |-> 0,                       \* handlers ever made
            defined |-> TRUE,
            astray  |-> {}]     \* which accidents have happened
  /\ pc = "timer"
  /\ toKill = {}
  /\ batch = {}

\* What has happened before (a history): a handler was deleted while its Cgi was
\* in _cgis ("orphan"); a Cgi had two entries in _cgis ("twin"), closed one of
\* the two pipes and kept its entry ("stale"), was twice in toKill ("twice"), or was
\* started by a second try and has no entry ("unheard"); a closed descriptor lived
\* on in the script of another handler ("ghost").
Accident == {"orphan", "twin", "stale", "twice", "unheard", "ghost"}
----------------------------------------------------------------------------
(* Descriptors.                                                            *)

isCgiRunning(s, h) == s.cgi[h].out # 0

FreeFds(s) == {f \in Fd : s.fds[f] = Closed}

\* The n-th lowest free descriptor.
Lowest(s, n) ==
  CHOOSE f \in FreeFds(s) : Cardinality({g \in FreeFds(s) : g < f}) = n - 1

\* EPOLL_CTL_DEL and close().
Close(s, F) ==
  [s EXCEPT !.fds = [f \in Fd |-> IF f \in F THEN Closed ELSE s.fds[f]],
            !.watched = @ \ F,
            !.cgi = [h \in Handler |-> [s.cgi[h] EXCEPT !.copies = @ \ F]]]

\* close() alone.  fork() copies every descriptor and exec keeps them, so the
\* script of another handler may hold a copy, and then epoll goes on watching
\* what was behind the number.
CloseQuietly(s, F) ==
  LET kept == {p \in F \X Handler : p[1] \in s.watched \cap s.cgi[p[2]].copies} IN
  [Close(s, F) EXCEPT
     !.ghosts = @ \cup kept,
     !.astray = @ \cup (IF kept = {} THEN {} ELSE {"ghost"})]

Undefined(s) == [s EXCEPT !.defined = FALSE]

\* ~Cgi: closes the ends it still has, whoever uses their numbers by now, and
\* kills the script, whose copies go with it.
DeleteCgi(s, h) ==
  LET c == s.cgi[h]
      t == CloseQuietly(s, {c.out} \cup (IF c.inOpen THEN {c.in} ELSE {}))
  IN  [t EXCEPT !.cgi[h] = NoCgi,
                !.ghosts = {p \in @ : p[2] # h}]

NoKill(s, h) == s

\* killCgi of a handler about to be deleted.
KillCgi(s, h) ==
  IF isCgiRunning(s, h)
    THEN [DeleteCgi(s, h) EXCEPT
            !.astray = @ \cup (IF s.cgi[h].added THEN {"orphan"} ELSE {})]
    ELSE s

KeepEntry(s, f) ==
  [s EXCEPT !.alive = @ \ {s.handlers[f]}, !.amount = @ - 1]

\* The deletion of a handler in _closeConnection.
Forget(s, f) ==
  [s EXCEPT !.alive = @ \ {s.handlers[f]}, !.unsent = @ \ {s.handlers[f]},
            !.amount = @ - 1, !.handlers[f] = 0]

\* _closeConnection(_connectionHandlers, fd): _cgis is left as it is.
CloseConnection(s, f) ==
  IF s.handlers[f] = 0
    THEN [s EXCEPT !.watched = @ \ {f}]
    ELSE Close(Forget(KillCgi(s, s.handlers[f]), f), {f})

\* _closeConnection(_cgis, fd): closes the number, whoever uses it by now.
CloseCgiEntry(s, f) ==
  IF s.cgis[f] = 0 THEN [s EXCEPT !.watched = @ \ {f}]
  ELSE [Close(s, {f}) EXCEPT !.cgis[f] = 0]
----------------------------------------------------------------------------
(* A Cgi and the server.                                                   *)

PipesNeeded == 4

NotRegistered(s, h) == s

\* _addCgi
AddCgi(s, h) ==
  LET F == {s.cgi[h].out, s.cgi[h].in} \ {0} IN
  [s EXCEPT !.watched = @ \cup F,
            !.cgis = [f \in Fd |-> IF f \in F THEN h ELSE s.cgis[f]],
            !.cgi[h].added = TRUE,
            !.astray = @ \cup (IF s.cgi[h].in # 0 THEN {"twin"} ELSE {})]

\* startCgi.  pipe() twice takes four descriptors, in this order: pipeIn[0],
\* pipeIn[1], pipeOut[0], pipeOut[1]; the first and the last are closed again,
\* and the second too unless the body is large.  Without four descriptors the
\* answer is 500 and nothing changes.
StartCgi(s, h, large) ==
  LET in  == Lowest(s, 2)
      out == Lowest(s, 3)
  IN  IF Cardinality(FreeFds(s)) < PipesNeeded THEN s
      ELSE [s EXCEPT
              !.fds = [f \in Fd |-> IF f = out
                                      THEN [kind |-> "cgiOut", owner |-> h]
                                    ELSE IF f = in /\ large
                                      THEN [kind |-> "cgiIn", owner |-> h]
                                    ELSE s.fds[f]],
              !.cgi[h] = [out |-> out, in |-> IF large THEN in ELSE 0,
                          inOpen |-> large, added |-> FALSE, late |-> FALSE,
                          copies |-> Fd \ FreeFds(s)]]

EntryKept(s, h) == DeleteCgi(s, h)
ClosesClientToo(s, h) ==
  LET t == DeleteCgi(CloseCgiEntry(s, s.cgi[h].out), h)
  IN  CloseConnection(t, CHOOSE f \in Fd : s.handlers[f] = h)

\* The end of _processCgi: the answer is sent, _cgi is null, both entries are
\* closed and the Cgi is deleted.
EndCgi(s, h) ==
  LET c == s.cgi[h]
      t == CloseCgiEntry(s, c.out)
      u == IF c.in # 0 THEN CloseCgiEntry(t, c.in) ELSE t
  IN  DeleteCgi(u, h)

\* processCgi: past the limit, or when the script has ended or failed, the Cgi
\* is at its end; in the second case it has closed the end it was using.  A
\* write that is done closes pipeIn[1] and no more.
ProcessCgi(s, h, ends) ==
  LET c == s.cgi[h]
      writeDone == [CloseQuietly(s, {c.in}) EXCEPT !.cgi[h].inOpen = FALSE,
                                                   !.astray = @ \cup {"stale"}]
  IN  IF h \notin s.alive \/ ~isCgiRunning(s, h) THEN Undefined(s)
      ELSE IF c.late THEN EndCgi(s, h)
      ELSE IF ends THEN EndCgi(IF c.inOpen THEN writeDone
                               ELSE CloseQuietly(s, {c.out}), h)
      ELSE IF c.inOpen THEN writeDone ELSE s
----------------------------------------------------------------------------
(* Connections.                                                            *)

\* What handleHTTP can come to: an answer or an incomplete request ("page"), an
\* answer that cannot be sent yet ("unsent"), the client's end of file or a bad
\* request ("close"), a script, with a large body or a "Connection: close" header
\* or not ("cgi"), or a script that only the second try of an answer starts
\* ("again").
Outcomes == [to : {"page", "unsent", "close"}, large : {FALSE}, closeHeader : {FALSE}]
            \cup [to : {"cgi"}, large : BOOLEAN, closeHeader : BOOLEAN]
            \cup [to : {"again"}, large : BOOLEAN, closeHeader : {FALSE}]

\* handleHTTP does nothing while the handler's Cgi runs.
Handles(s, f) == s.handlers[f] # 0 /\ ~isCgiRunning(s, s.handlers[f])

\* handleHTTP returns false when the second try has started a script: it is not
\* added, and nothing is closed.
StartUnheard(s, h, large) ==
  LET t == StartCgi(s, h, large) IN
  IF isCgiRunning(t, h) THEN [t EXCEPT !.astray = @ \cup {"unheard"}] ELSE t

\* After _addCgi the close header of the request, which is not reset while the Cgi
\* runs, closes the connection.
StartHeard(s, f, outcome) ==
  LET h == s.handlers[f]
      t == StartCgi(s, h, outcome.large)
  IN  IF ~isCgiRunning(t, h) THEN t
      ELSE IF outcome.closeHeader THEN CloseConnection(AddCgi(t, h), f)
      ELSE AddCgi(t, h)

\* _delegateToConnectionHandler.  An answer is tried a second time at the next event
\* whatever that is, and never again.
Delegate(s, f, outcome) ==
  LET h == s.handlers[f]
      t == [s EXCEPT !.unsent = IF outcome.to = "unsent" THEN @ \cup {h} ELSE @ \ {h}]
  IN  IF ~Handles(s, f) THEN s
      ELSE IF outcome.to = "close" THEN CloseConnection(t, f)
      ELSE IF outcome.to = "cgi" THEN StartHeard(t, f, outcome)
      ELSE IF outcome.to = "again" /\ h \in s.unsent
        THEN StartUnheard(t, h, outcome.large)
      ELSE t

\* accept() and _setNewHandler, which replaces what the map may hold for fd.
NewConnection(s, f) ==
  [s EXCEPT !.fds[f] = [kind |-> "conn", owner |-> s.made + 1],
            !.watched = @ \cup {f},
            !.handlers[f] = s.made + 1,
            !.alive = @ \cup {s.made + 1},
            !.amount = @ + 1,
            !.made = @ + 1]
----------------------------------------------------------------------------
(* HTTPServer::start.  No step is taken once srv is no longer defined.     *)

NothingOverdue(s) == {}

\* checkCgiTimeouts, its first loop: an entry of toKill per entry of _cgis.
Overdue(s) ==
  {<<f, s.cgis[f]>> : f \in {g \in Fd : s.cgis[g] # 0 /\ s.cgi[s.cgis[g]].late}}

CheckCgiTimeouts ==
  /\ pc = "timer" /\ srv.defined
  /\ IF \E f \in Fd : srv.cgis[f] \notin srv.alive \cup {0}
       THEN /\ srv' = Undefined(srv)
            /\ UNCHANGED <<pc, toKill>>
       ELSE /\ toKill' = Overdue(srv)
            /\ pc' = "kill"
            /\ srv' = [srv EXCEPT !.astray = @ \cup
                 (IF \E a, b \in toKill' : a # b /\ a[2] = b[2]
                    THEN {"twice"} ELSE {})]
  /\ UNCHANGED batch

\* IntervalTimer::update: less than the interval has passed.
SkipTimer ==
  /\ pc = "timer" /\ srv.defined
  /\ pc' = "wait"
  /\ UNCHANGED <<srv, toKill, batch>>

\* checkCgiTimeouts, its second loop.
KillOne ==
  /\ pc = "kill" /\ srv.defined
  /\ \E entry \in toKill :
       /\ \A other \in toKill : entry[1] <= other[1]
       /\ srv' = ProcessCgi(srv, entry[2], FALSE)
       /\ toKill' = toKill \ {entry}
  /\ UNCHANGED <<pc, batch>>

KillDone ==
  /\ pc = "kill" /\ srv.defined
  /\ toKill = {}
  /\ pc' = "wait"
  /\ UNCHANGED <<srv, toKill, batch>>

\* epoll_wait: events of watched descriptors, at most MaxBatch, in no order
\* that can be relied on; "was" remembers whose they were.  Descriptor 0 is
\* the listening socket.
Ready(s) ==
  {[fd |-> 0, hup |-> FALSE, was |-> Closed]}
    \cup {[fd |-> f, hup |-> h, was |-> s.fds[f]] :
             f \in s.watched, h \in BOOLEAN}
    \cup {[fd |-> p[1], hup |-> h, was |-> Ghost] :
             p \in s.ghosts, h \in BOOLEAN}

EpollWait ==
  /\ pc = "wait" /\ srv.defined
  /\ \E B \in SUBSET Ready(srv) :
       /\ Cardinality(B) <= MaxBatch
       /\ \A a, b \in B : a.fd = b.fd /\ a.was = b.was => a = b
       /\ batch' = B
  /\ pc' = "batch"
  /\ UNCHANGED <<srv, toKill>>

\* _handleConnectionEvent
HandleConnectionEvent ==
  /\ pc = "batch" /\ srv.defined
  /\ \E ev \in batch :
       /\ ev.fd # 0
       /\ batch' = batch \ {ev}
       /\ IF srv.cgis[ev.fd] # 0
            THEN \E ends \in BOOLEAN :
                   srv' = ProcessCgi(srv, srv.cgis[ev.fd], ends)
          ELSE IF ev.hup
            THEN srv' = CloseConnection(srv, ev.fd)
            ELSE \E outcome \in Outcomes : srv' = Delegate(srv, ev.fd, outcome)
  /\ UNCHANGED <<pc, toKill>>

\* _createNewConnections: accept until nobody waits any more.
StartAccepting ==
  /\ pc = "batch" /\ srv.defined
  /\ \E ev \in batch : ev.fd = 0 /\ batch' = batch \ {ev}
  /\ pc' = "accept"
  /\ UNCHANGED <<srv, toKill>>

AcceptOne ==
  /\ pc = "accept" /\ srv.defined
  /\ srv.made < MaxConns
  /\ FreeFds(srv) # {}
  /\ LET f == Lowest(srv, 1) IN
     \E outcome \in Outcomes :
       srv' = Delegate(NewConnection(srv, f), f, outcome)
  /\ UNCHANGED <<pc, toKill, batch>>

\* EMFILE and any other error of accept() than EAGAIN is thrown out of start().
AcceptFails ==
  /\ pc = "accept" /\ srv.defined
  /\ FreeFds(srv) = {}
  /\ pc' = "stopping"
  /\ batch' = {}
  /\ UNCHANGED <<srv, toKill>>

AcceptDone ==
  /\ pc = "accept" /\ srv.defined
  /\ pc' = "batch"
  /\ UNCHANGED <<srv, toKill, batch>>

\* Once more around the loop, or out of it after stop().
BatchDone ==
  /\ pc = "batch" /\ srv.defined
  /\ batch = {}
  /\ pc' \in {"timer", "stopping"}
  /\ UNCHANGED <<srv, toKill, batch>>

\* ~HTTPServer closes every connection.
CloseOne ==
  /\ pc = "stopping" /\ srv.defined
  /\ \E f \in Fd : srv.handlers[f] # 0 /\ srv' = CloseConnection(srv, f)
  /\ UNCHANGED <<pc, toKill, batch>>

Stopped ==
  /\ pc = "stopping" /\ srv.defined
  /\ \A f \in Fd : srv.handlers[f] = 0
  /\ pc' = "stopped"
  /\ UNCHANGED <<srv, toKill, batch>>

\* A script exceeds its time limit.
Expire ==
  /\ srv.defined
  /\ \E h \in Handler :
       /\ isCgiRunning(srv, h)
       /\ ~srv.cgi[h].late
       /\ srv' = [srv EXCEPT !.cgi[h].late = TRUE]
  /\ UNCHANGED <<pc, toKill, batch>>

Loop ==
  \/ CheckCgiTimeouts \/ SkipTimer \/ KillOne \/ KillDone
  \/ EpollWait \/ HandleConnectionEvent
  \/ StartAccepting \/ AcceptOne \/ AcceptFails \/ AcceptDone
  \/ BatchDone \/ CloseOne \/ Stopped

Next == Loop \/ Expire

Spec == Init /\ [][Next]_vars

\* The thread keeps running, and seconds pass while it does: the interval timer
\* fires again and again.
LiveSpec ==
  Spec /\ WF_vars(Loop) /\ SF_vars(CheckCgiTimeouts)
----------------------------------------------------------------------------
Description == [kind : {"closed", "conn", "cgiOut", "cgiIn", "ghost"},
                owner : Handler \cup {0}]

CgiData == [out : Fd \cup {0}, in : Fd \cup {0}, inOpen : BOOLEAN, added : BOOLEAN,
            late : BOOLEAN, copies : SUBSET Fd]

Server ==
  [fds : [Fd -> Description], watched : SUBSET Fd, ghosts : SUBSET (Fd \X Handler),
   handlers : [Fd -> Handler \cup {0}], cgis : [Fd -> Handler \cup {0}],
   alive : SUBSET Handler, unsent : SUBSET Handler,
   cgi : [Handler -> CgiData],
   amount : 0..MaxConns, made : 0..MaxConns, defined : BOOLEAN,
   astray : SUBSET Accident]

TypeOK ==
  /\ srv \in Server
  /\ pc \in {"timer", "kill", "wait", "batch", "accept", "stopping", "stopped"}
  /\ toKill \in SUBSET (Fd \X Handler)
  /\ batch \in SUBSET [fd : Fd \cup {0}, hup : BOOLEAN, was : Description]

\* Nothing of these has happened.
Without(A) == srv.astray \cap A = {}

\* Undefined behaviour has one of two causes: a handler was deleted while its
\* Cgi was in _cgis, or a Cgi was twice in toKill.  Without them no event, timer
\* or close ever follows a dangling or null pointer, not even after a descriptor
\* was misrouted (_closeConnection, _handleConnectionEvent, checkCgiTimeouts).
UndefinedHasACause == Without({"orphan", "twice"}) => srv.defined

\* A client's socket is closed only together with its entry in
\* _connectionHandlers: the end of a Cgi never closes it, unless a Cgi kept an
\* entry for a pipe it had closed (_closeConnection, ~Cgi).
SocketsAreNotStolen ==
  [][\A f \in Fd :
       srv.fds[f].kind = "conn" /\ srv'.fds[f] # srv.fds[f]
         => srv'.handlers[f] # srv.handlers[f] \/ "stale" \in srv'.astray]_vars

\* On the same condition _connAmount counts the connections, every connection
\* is watched, and no handler is left that no descriptor leads to
\* (_setNewHandler, _closeConnection).
ConnectionsAreAccountedFor ==
  Without({"stale"}) =>
    LET C == {f \in Fd : srv.fds[f].kind = "conn"} IN
    /\ srv.amount = Cardinality(C)
    /\ srv.alive = {srv.handlers[f] : f \in C}
    /\ \A f \in C : srv.handlers[f] = srv.fds[f].owner /\ f \in srv.watched
    /\ \A f \in Fd \ C : srv.handlers[f] = 0

\* An event still in the batch is about the descriptor it was reported for: no
\* earlier event of the batch closed it or gave its number to another, unless a
\* handler went with its Cgi or a ghost stirred.  Of a Cgi with two pipes, or one
\* the server does not hear of, that only holds for clients' sockets: the end of one
\* pipe takes the other with it (start, accept, pipe).
BatchIsFresh ==
  Without({"orphan", "stale", "ghost"}) =>
    \A ev \in batch :
      \/ ev.fd = 0
      \/ srv.fds[ev.fd] = ev.was
      \/ ev.was.kind # "conn" /\ ~Without({"twin", "unheard"})

\* The entries of _cgis are the pipes of the Cgis that run and were not started by a
\* second try, and both pipes when there are two, unless a handler was deleted under
\* its Cgi or a Cgi kept an entry for a pipe it had closed (_addCgi, _processCgi).
CgisAreRunning ==
  Without({"orphan", "stale"}) =>
    \A f \in Fd, h \in Handler :
      srv.cgis[f] = h <=>
        /\ isCgiRunning(srv, h) /\ f \in {srv.cgi[h].out, srv.cgi[h].in}
        /\ srv.cgi[h].added

\* The inductive invariant, on the server's data s.  _connectionHandlers leads to
\* handlers that are alive, each from one descriptor, and _connAmount counts them
\* all or more.
HandlersInv(s) ==
  LET C == {f \in Fd : s.handlers[f] # 0} IN
  /\ \A f \in C : s.handlers[f] \in s.alive
  /\ \A f, g \in C : s.handlers[f] = s.handlers[g] => f = g
  /\ \A h \in s.alive : h <= s.made
  /\ Cardinality(C) <= s.amount /\ s.amount <= s.made

\* A Cgi that runs is that of a handler that is alive, and one that does not is
\* null; an entry of _cgis leads to a Cgi that runs, was added, and has that pipe, or
\* had it.
EntriesInv(s) ==
  /\ \A h \in Handler : IF isCgiRunning(s, h) THEN h \in s.alive ELSE s.cgi[h].in = 0
  /\ "orphan" \notin s.astray =>
       \A f \in Fd :
         s.cgis[f] # 0 =>
           /\ isCgiRunning(s, s.cgis[f]) /\ s.cgi[s.cgis[f]].added
           /\ f \in {s.cgi[s.cgis[f]].out, s.cgi[s.cgis[f]].in}

\* A descriptor that is open belongs to a connection that is watched or to a Cgi.
IsOwned(s, f) ==
  IF s.handlers[f] # 0
    THEN s.fds[f] = [kind |-> "conn", owner |-> s.handlers[f]] /\ f \in s.watched
  ELSE \/ s.fds[f] = Closed
       \/ \E h \in Handler :
            \/ s.fds[f] = [kind |-> "cgiOut", owner |-> h] /\ s.cgi[h].out = f
            \/ s.fds[f] = [kind |-> "cgiIn", owner |-> h] /\ s.cgi[h].in = f

\* The pipes of a Cgi are its own and have their entries if it was added.
OwnsItsPipes(s, h) ==
  LET c == s.cgi[h] IN
  /\ c.out # 0 => s.fds[c.out] = [kind |-> "cgiOut", owner |-> h]
  /\ c.in # 0 => s.fds[c.in] = [kind |-> "cgiIn", owner |-> h] /\ c.inOpen
  /\ c.added /\ "orphan" \notin s.astray => \A f \in {c.out, c.in} \ {0} : s.cgis[f] = h

AreCounted(s) ==
  /\ \A h \in s.alive : \E f \in Fd : s.handlers[f] = h
  /\ s.amount = Cardinality({f \in Fd : s.handlers[f] # 0})

\* All that holds as long as no number is kept in _cgis that has been closed.
OwnersInv(s) ==
  "stale" \notin s.astray =>
    /\ \A f \in Fd : IsOwned(s, f)
    /\ \A h \in Handler : OwnsItsPipes(s, h)
    /\ AreCounted(s)

\* The Cgis that are to be killed run, and each is killed once.
KillInv ==
  /\ pc # "kill" => toKill = {}
  /\ Without({"orphan", "twice"}) =>
       /\ \A entry \in toKill :
            /\ isCgiRunning(srv, entry[2]) /\ srv.cgi[entry[2]].late
       /\ \A a, b \in toKill : a[2] = b[2] => a = b

IInv ==
  /\ TypeOK /\ HandlersInv(srv) /\ EntriesInv(srv) /\ OwnersInv(srv) /\ KillInv
  /\ UndefinedHasACause
  /\ pc = "stopped" => \A f \in Fd : srv.handlers[f] = 0

\* What is watched is open, and what can only come of an accident has its accident
\* on record.
RecordInv(s) ==
  /\ \A f \in s.watched : s.fds[f] # Closed
  /\ s.ghosts # {} => "ghost" \in s.astray
  /\ \A h \in Handler :
       isCgiRunning(s, h) =>
         /\ s.cgi[h].added /\ s.cgi[h].in # 0 => "twin" \in s.astray
         /\ ~s.cgi[h].added => "unheard" \in s.astray

\* Events are handled in one place, and without ghosts there is one for a descriptor,
\* which was open.
EventsInv ==
  /\ pc \notin {"batch", "accept"} => batch = {}
  /\ Without({"orphan", "stale", "ghost"}) =>
       /\ \A ev \in batch : ev.fd # 0 => ev.was # Closed
       /\ \A a, b \in batch : a.fd = b.fd => a = b

\* What the server has noted of its descriptors is right: both maps, the count and
\* the epoll set agree with each other and with the objects there are
\* (_connectionHandlers, _cgis, _connAmount).
MapsAreRight ==
  /\ IInv /\ RecordInv(srv) /\ EventsInv
  /\ ConnectionsAreAccountedFor /\ CgisAreRunning

\* After the destructor nothing is open, unless a socket was closed under its
\* handler before (~HTTPServer).
StopReleasesDescriptors ==
  pc = "stopped" /\ Without({"stale"}) =>
    /\ srv.amount = 0
    /\ FreeFds(srv) = Fd

HasEntry(h) == \E f \in Fd : srv.cgis[f] = h

\* A script over its limit that was added is got rid of, whatever events arrive and
\* whatever the other script does, unless the server has come to its end or the end
\* of another Cgi took its entries, which that one had kept for a number that was
\* not its own any more (checkCgiTimeouts, _closeConnection).
OverdueCgiEnds ==
  \A h \in Handler :
    isCgiRunning(srv, h) /\ srv.cgi[h].late /\ srv.cgi[h].added
      ~> \/ ~isCgiRunning(srv, h) \/ ~srv.defined \/ pc = "stopped"
         \/ ~HasEntry(h) /\ ~Without({"stale"})

\* HTTPServer.cpp:186 on the timer's update: "kill cgis if needed".  The check of
\* the time limits must survive the Cgis it kills, where no handler was deleted
\* before its Cgi.
TimerSurvives == pc \in {"timer", "kill"} /\ Without({"orphan"}) => srv.defined
=============================================================================
