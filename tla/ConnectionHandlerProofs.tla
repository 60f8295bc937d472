---------------------- MODULE ConnectionHandlerProofs -----------------------
(***************************************************************************)
(* Connections, for any number of them, any messages and any locations:    *)
(* answers and requests belong together, nothing that waits is forgotten,  *)
(* and nobody is cut off who did not ask for it.                           *)
(***************************************************************************)
EXTENDS ConnectionHandler, ServerConfigProofs, FiniteSetTheorems

----------------------------------------------------------------------------
(* Types.                                                                  *)

Members == {"request", "cgi", "epolloutShouldOpen", "epolloutShouldClose",
            "shouldClose", "closed", "watchesCgi", "epollout", "edge", "inbox",
            "room", "answers", "fails", "config"}

Coherent(cfg) ==
  cfg.route = _findRoute(cfg.path) \/ cfg = [path |-> <<>>, route |-> NoRoute]

\* The record that member functions work on.
Typed(s) ==
  /\ DOMAIN s = Members /\ s = [f \in Members |-> s[f]]
  /\ s.request \in Requests /\ s.cgi \in Environments
  /\ s.epolloutShouldOpen \in BOOLEAN /\ s.epolloutShouldClose \in BOOLEAN
  /\ s.shouldClose \in BOOLEAN /\ s.closed \in BOOLEAN /\ s.watchesCgi \in BOOLEAN
  /\ s.epollout \in BOOLEAN /\ s.edge \in BOOLEAN
  /\ s.inbox \in Seq(Pieces \cup {EndOfFile}) /\ s.room \in 0..Room
  /\ s.answers \in Seq(Answers) /\ s.fails \in SUBSET Fail
  /\ Coherent(s.config)

\* What is left alone by a function that changes the members F.
SameBut(t, s, F) == \A f \in Members \ F : t[f] = s[f]

LEMMA PieceOfAMessage ==
  ASSUME NEW p \in Pieces
  PROVE  p \in [kind : PieceKinds, method : Methods, path : Seq(STRING), length : Nat, close : BOOLEAN]
<1>1. PICK m \in Messages : p \in ToSet(m)
  <2>1. PICK T \in {ToSet(message) : message \in Messages} : p \in T
    BY DEF Pieces
  <2> QED BY <2>1
<1>2. m \in Seq([kind : PieceKinds, method : Methods, path : Seq(STRING), length : Nat, close : BOOLEAN])
  BY ConnectionAssumption
<1>3. PICK i \in DOMAIN m : p = m[i]
  BY <1>1 DEF ToSet
<1> DEFINE P == [kind : PieceKinds, method : Methods, path : Seq(STRING), length : Nat, close : BOOLEAN]
<1> HIDE DEF P
<1>4. m \in Seq(P)
  BY <1>2 DEF P
<1>5. p \in P
  BY <1>3, <1>4
<1> QED BY <1>5 DEF P

LEMMA EndIsEof ==
  EndOfFile.kind = "eof" /\ EndOfFile.close = FALSE /\ EndOfFile.length = 0
BY DEF EndOfFile

\* What a piece is (ConnectionAssumption).
LEMMA PiecesAre ==
  ASSUME NEW p \in Pieces \cup {EndOfFile}
  PROVE  /\ p.kind \in PieceKinds \cup {"eof"} /\ p.close \in BOOLEAN
         /\ p.kind = "eof" <=> p = EndOfFile
         /\ p.length \in Nat
         /\ p.length \in Lengths
         /\ p \in Pieces => /\ Plain(p.path) \in Targets /\ QueryIn(p.path) \in Queries
                            /\ p.method \in Methods
<1>1. CASE p = EndOfFile
  <2>1. /\ p.kind = "eof" /\ p.close = FALSE /\ p.length = 0
    BY <1>1 DEF EndOfFile
  <2>2. p \notin Pieces
    <3> SUFFICES ASSUME p \in Pieces PROVE FALSE
      OBVIOUS
    <3>1. p.kind \in PieceKinds
      BY PieceOfAMessage
    <3> QED BY <2>1, <3>1 DEF PieceKinds
  <2>3. p.close \in BOOLEAN
    BY <2>1
  <2>4. p.length \in Nat /\ p.length \in Lengths
    BY <2>1 DEF Lengths
  <2> QED BY <1>1, <2>1, <2>2, <2>3, <2>4
<1>2. CASE p \in Pieces
  <2>3. p \in [kind : PieceKinds, method : Methods, path : Seq(STRING), length : Nat, close : BOOLEAN]
    BY <1>2, PieceOfAMessage
  <2>4. p.kind # "eof" /\ EndOfFile.kind = "eof"
    BY <2>3 DEF PieceKinds, EndOfFile
  <2> QED BY <1>2, <2>3, <2>4 DEF Lengths, Targets, Queries
<1> QED BY <1>1, <1>2

\* The first route is none (ServerConfig::ServerConfig).
LEMMA RouteIsKnown ==
  ASSUME NEW cfg, Coherent(cfg)
  PROVE  cfg.route \in Routes \cup {NoRoute}
BY FindRouteFinds DEF Coherent

\* A lookup (setCorrectRoute).
LEMMA CorrectEffect ==
  ASSUME NEW cfg, NEW path, Coherent(cfg)
  PROVE  /\ Coherent(Correct(cfg, path))
         /\ cfg.route # NoRoute => Correct(cfg, path).route # NoRoute
         /\ path # <<>> => /\ Correct(cfg, path).route = _findRoute(path)
                           /\ Correct(cfg, path).route # NoRoute
BY FindRouteFinds DEF Coherent, Correct

LEMMA NoRequestIs ==
  NoRequest.state = "none" /\ NoRequest.close = FALSE /\ NoRequest.query = <<>>
BY DEF NoRequest

LEMMA MadeIsTyped ==
  ASSUME NEW request \in Requests, NEW route \in Routes \cup {NoRoute}
  PROVE  /\ Made(request, route) \in Environments
         /\ _initEnv(request, route) \in Environments
         /\ _initEnv(request, route).target = request.target
         /\ _initEnv(request, route).route = route
         /\ _initEnv(request, route).method = request.method
         /\ _initEnv(request, route).length = IF request.method = "POST" THEN request.length ELSE 0
         /\ _initEnv(request, route).query = IF request.method = "GET" THEN request.query ELSE <<>>
         /\ NoCgi \in Environments /\ NoCgi.route = NoRoute
BY DEF Requests, Environments, Made, _initEnv, NoCgi, NoRequest, Targets, Queries, Lengths

LEMMA ResetIsTyped ==
  ASSUME NEW r \in Requests
  PROVE  /\ reset(r) \in Requests /\ reset(r).state = "none" /\ reset(r).close = FALSE
         /\ reset(r).target = <<>> /\ reset(r).query = r.query
BY DEF reset, NoRequest, Requests, PieceKinds, Targets, Queries, Lengths

----------------------------------------------------------------------------
(* What the member functions do.                                           *)

\* An answer is on its way, in part at least, or is to be sent again.
Sending(t, s, made, kind) ==
  \/ /\ s.room = 0 /\ t.epolloutShouldOpen = TRUE
     /\ t.answers = s.answers /\ t.fails = s.fails \cup {kind}
  \/ /\ s.room # 0 /\ t.epolloutShouldOpen = s.epolloutShouldOpen /\ t.fails = s.fails
     /\ \E m \in 1..s.room : /\ t.answers = Append(s.answers, Answer(made, kind, m))
                             /\ s.room = Room => (m < SizeOf(made, kind)
                                                    <=> SizeOf(made, kind) > Room)

LEMMA SizeIsPositive ==
  ASSUME NEW made \in Environments, NEW kind \in Fail
  PROVE  SizeOf(made, kind) \in Nat \ {0}
BY SizeAssumption DEF SizeOf, Environments
\* A send takes an answer, or what there is room for of it, or nothing
\* (_sendResponse).
LEMMA SendEffect ==
  ASSUME NEW s, Typed(s), NEW made \in Environments, NEW kind \in Fail,
         NEW t, t = _sendResponse(s, made, kind)
  PROVE  /\ Typed(t) /\ Sending(t, s, made, kind)
         /\ SameBut(t, s, {"epolloutShouldOpen", "fails", "room", "answers"})
<1>1. CASE s.room = 0
  <2>1. t = [s EXCEPT !.epolloutShouldOpen = TRUE, !.fails = s.fails \cup {kind}]
    BY <1>1 DEF _sendResponse
  <2> DEFINE fs == s.fails \cup {kind}
  <2>2. fs \in SUBSET Fail
    BY DEF Typed
  <2> HIDE DEF fs
  <2>3. Typed(t)
    BY <2>1, <2>2 DEF Typed, Members, fs
  <2>4. SameBut(t, s, {"epolloutShouldOpen", "fails"})
    BY <2>1 DEF Typed, Members, SameBut
  <2>5. t.epolloutShouldOpen = TRUE /\ t.fails = s.fails \cup {kind}
    BY <2>1 DEF Typed, Members
  <2>6. t.answers = s.answers
    BY <2>4 DEF SameBut, Members
  <2>7. Sending(t, s, made, kind)
    BY <1>1, <2>5, <2>6 DEF Sending
  <2> QED BY <2>3, <2>4, <2>7 DEF SameBut
<1>2. CASE s.room # 0
  <2> DEFINE z == SizeOf(made, kind)
             n == IF z < s.room THEN z ELSE s.room
             as == Append(s.answers, Answer(made, kind, n))
  <2>1. z \in Nat \ {0}
    BY SizeIsPositive
  <2>2. s.room \in 1..Room /\ Room \in Nat
    BY <1>2, ConnectionAssumption DEF Typed
  <2>3. n \in 1..s.room /\ (s.room = Room => (n < z <=> z > Room)) /\ s.room - n \in 0..Room
    <3> HIDE DEF z
    <3> QED BY <2>1, <2>2
  <2>4. t = [s EXCEPT !.room = s.room - n, !.answers = as]
    BY <1>2 DEF _sendResponse, Send
  <2>5. Answer(made, kind, n) \in Answers
    <3>1. (n < z) \in BOOLEAN
      OBVIOUS
    <3> QED BY <3>1 DEF Answer, Answers, Environments
  <2>6. as \in Seq(Answers)
    BY <2>5 DEF Typed
  <2> HIDE DEF n, as
  <2>7. Typed(t)
    BY <2>3, <2>4, <2>6 DEF Typed, Members
  <2>8. SameBut(t, s, {"room", "answers"}) /\ t.answers = as
    BY <2>4 DEF Typed, Members, SameBut
  <2>9. t.epolloutShouldOpen = s.epolloutShouldOpen /\ t.fails = s.fails
    BY <2>8 DEF SameBut, Members
  <2>10. Sending(t, s, made, kind)
    BY <1>2, <2>3, <2>8, <2>9 DEF Sending, as
  <2> QED BY <2>7, <2>8, <2>10 DEF SameBut
<1> QED BY <1>1, <1>2

\* An action runs a script, which is told of the request, or its answer is sent; the
\* request is reset unless it is to be tried again (_delegateToHTTPAction).
LEMMA ActionEffect ==
  ASSUME NEW s, Typed(s), NEW starts \in BOOLEAN, NEW kind \in Fail,
         NEW t, t = _delegateToHTTPAction(s, starts, kind)
  PROVE  /\ Typed(t)
         /\ \/ /\ SameBut(t, s, {"cgi"})
               /\ t.cgi = _initEnv(s.request, s.config.route)
            \/ /\ SameBut(t, s, {"epolloutShouldOpen", "fails", "room", "answers", "request"})
               /\ Sending(t, s, Made(s.request, s.config.route), kind)
               /\ t.epolloutShouldOpen => t.request = s.request
               /\ ~t.epolloutShouldOpen => t.request = reset(s.request)
<1> DEFINE route == s.config.route
<1>1. s.request \in Requests /\ route \in Routes \cup {NoRoute}
  BY RouteIsKnown DEF Typed
<1>2. CASE isAllowedCgi(route, s.request.target) /\ starts
  <2>1. t = [s EXCEPT !.cgi = _initEnv(s.request, route)]
    BY <1>2 DEF _delegateToHTTPAction
  <2>2. _initEnv(s.request, route) \in Environments
    BY <1>1, MadeIsTyped
  <2>3. Typed(t)
    BY <2>1, <2>2 DEF Typed, Members
  <2>4. SameBut(t, s, {"cgi"}) /\ t.cgi = _initEnv(s.request, route)
    BY <2>1 DEF Typed, Members, SameBut
  <2> QED BY <2>3, <2>4
<1>3. CASE ~(isAllowedCgi(route, s.request.target) /\ starts)
  <2> DEFINE u == _sendResponse(s, Made(s.request, route), kind)
  <2>1. t = ResetUnlessPending(u)
    BY <1>3 DEF _delegateToHTTPAction
  <2>2. Made(s.request, route) \in Environments
    BY <1>1, MadeIsTyped
  <2>3. /\ Typed(u) /\ u.request = s.request
        /\ SameBut(u, s, {"epolloutShouldOpen", "fails", "room", "answers"})
        /\ Sending(u, s, Made(s.request, route), kind)
    <3> HIDE DEF u
    <3>1. u = _sendResponse(s, Made(s.request, route), kind)
      BY DEF u
    <3>2. /\ Typed(u) /\ Sending(u, s, Made(s.request, route), kind)
          /\ SameBut(u, s, {"epolloutShouldOpen", "fails", "room", "answers"})
      BY <2>2, <3>1, SendEffect
    <3> QED BY <3>2 DEF SameBut, Members
  <2>4. CASE u.epolloutShouldOpen
    <3>1. t = u
      BY <2>1, <2>4 DEF ResetUnlessPending
    <3> HIDE DEF u
    <3>2. SameBut(t, s, {"epolloutShouldOpen", "fails", "room", "answers", "request"})
      BY <2>3, <3>1 DEF SameBut
    <3> QED BY <2>3, <2>4, <3>1, <3>2
  <2>5. CASE ~u.epolloutShouldOpen
    <3>1. t = [u EXCEPT !.request = reset(s.request)]
      BY <2>1, <2>3, <2>5 DEF ResetUnlessPending
    <3>2. reset(s.request) \in Requests
      BY <1>1, ResetIsTyped
    <3> HIDE DEF u
    <3>3. Typed(t)
      BY <2>3, <3>1, <3>2 DEF Typed, Members
    <3>4. SameBut(t, u, {"request"}) /\ t.request = reset(s.request)
      BY <2>3, <3>1 DEF Typed, Members, SameBut
    <3>5. SameBut(t, s, {"epolloutShouldOpen", "fails", "room", "answers", "request"})
      BY <2>3, <3>4 DEF SameBut
    <3>6. t.epolloutShouldOpen = u.epolloutShouldOpen /\ t.answers = u.answers /\ t.fails = u.fails
      BY <3>4 DEF SameBut, Members
    <3>7. Sending(t, s, Made(s.request, route), kind)
      BY <2>3, <3>6 DEF Sending
    <3> QED BY <2>5, <3>3, <3>4, <3>5, <3>6, <3>7
  <2> QED BY <2>4, <2>5
<1> QED BY <1>2, <1>3

----------------------------------------------------------------------------
(* The path of a request.                                                  *)

LEMMA MinIsLeast ==
  ASSUME NEW S \in SUBSET Nat, S # {}
  PROVE  Min(S) \in S /\ \A y \in S : Min(S) <= y
<1> DEFINE R == OpToRel(<, Nat)
<1>1. IsWellFoundedOn(R, Nat)
  BY NatLessThanWellFounded
<1>2. PICK x \in S : \A y \in S : <<y, x>> \notin R
  BY ONLY <1>1, S \in SUBSET Nat, S # {}, WFMin
<1>3. \A y \in S : ~(y < x)
  BY <1>2 DEF OpToRel
<1>4. \A y \in S : x <= y
  BY <1>3
<1> QED BY <1>4 DEF Min

\* Clients ask for absolute paths (ConnectionAssumption).
LEMMA PathsAreAbsolute ==
  ASSUME NEW p \in Pieces, p.kind \in {"head", "end"}
  PROVE  p.path # <<>> /\ p.path[1] = "/"
<1>1. PICK m \in Messages : p \in ToSet(m)
  <2>1. PICK T \in {ToSet(message) : message \in Messages} : p \in T
    BY DEF Pieces
  <2> QED BY <2>1
<1>2. PICK i \in DOMAIN m : p = m[i]
  BY <1>1 DEF ToSet
<1>3. i \in 1..Len(m)
  <2>1. m \in Seq([kind : PieceKinds, method : Methods, path : Seq(STRING), length : Nat, close : BOOLEAN])
    BY ConnectionAssumption
  <2> QED BY <1>2, <2>1
<1> QED BY <1>2, <1>3, ConnectionAssumption

\* The target of an absolute path is what is before the question mark, what is behind
\* it is the query; without one the query is kept (_parsePath).
LEMMA PathEffect ==
  ASSUME NEW s, Typed(s), NEW p \in Pieces, p.kind \in {"head", "end"},
         NEW t, t = _parsePath(s, p.path)
  PROVE  /\ Typed(t) /\ SameBut(t, s, {"config", "request"})
         /\ t.config = Correct(s.config, p.path)
         /\ Plain(p.path) # <<>>
         /\ SameBut(t, s, {"config", "request"})
         /\ t.request.target = Plain(p.path)
         /\ t.request.query \in {s.request.query, QueryIn(p.path)}
         /\ QueryIn(p.path) # <<>> => t.request.query = QueryIn(p.path)
         /\ t.request.state = s.request.state /\ t.request.close = s.request.close
<1> DEFINE path == p.path
           I == {i \in 1..Len(path) : path[i] = "?"}
           mark == SelectInSeq(path, LAMBDA c : c = "?")
           plain == IF mark = 0 THEN path ELSE SubSeq(path, 1, mark - 1)
           J == {i \in 1..Len(plain) : plain[i] = "/"}
           slash == SelectInSeq(plain, LAMBDA c : c = "/")
<1>1. path \in Seq(STRING) /\ Len(path) \in Nat /\ Len(path) > 0 /\ path[1] = "/"
  BY PieceOfAMessage, PathsAreAbsolute
<1>2. mark = IF I # {} THEN Min(I) ELSE 0
  BY DEF SelectInSeq
<1>3. (mark = 0 /\ I = {}) \/ mark \in I
  <2>1. CASE I = {}
    BY <1>2, <2>1
  <2>2. CASE I # {}
    <3>1. I \in SUBSET Nat
      OBVIOUS
    <3> HIDE DEF I
    <3>2. Min(I) \in I
      BY <2>2, <3>1, MinIsLeast
    <3> QED BY <1>2, <2>2, <3>2
  <2> QED BY <2>1, <2>2
<1>4. mark = 0 \/ mark \in 2..Len(path)
  <2>1. mark = 0 \/ (mark \in 1..Len(path) /\ path[mark] = "?")
    BY <1>3
  <2>2. mark # 1
    BY <1>1, <2>1
  <2> QED BY <2>1, <2>2
<1> HIDE DEF mark
<1>5. plain \in Seq(STRING) /\ plain # <<>> /\ plain[1] = "/"
      /\ Len(plain) = IF mark = 0 THEN Len(path) ELSE mark - 1
  <2>1. CASE mark = 0
    BY <1>1, <2>1
  <2>2. CASE mark \in 2..Len(path)
    <3>1. plain = SubSeq(path, 1, mark - 1)
      BY <2>2
    <3>2. ASSUME NEW C, NEW w \in Seq(C), NEW k \in 1..Len(w)
          PROVE  SubSeq(w, 1, k) \in Seq(C) /\ Len(SubSeq(w, 1, k)) = k
                 /\ SubSeq(w, 1, k)[1] = w[1]
      OBVIOUS
    <3>3. mark - 1 \in 1..Len(path) /\ mark # 0
      BY <1>1, <2>2
    <3>4. Len(plain) = mark - 1 /\ plain[1] = path[1] /\ plain \in Seq(STRING)
      <4> HIDE DEF plain, path
      <4> QED BY <1>1, <3>1, <3>2, <3>3
    <3>5. plain # <<>>
      BY <2>2, <3>4
    <3> QED BY <1>1, <3>3, <3>4, <3>5
  <2> QED BY <1>4, <2>1, <2>2
<1>6. Plain(path) = plain
  BY DEF Plain, mark
<1> HIDE DEF plain
<1>7. slash <= 1
  <2>1. slash = IF J # {} THEN Min(J) ELSE 0
    BY DEF SelectInSeq
  <2>2. 1 \in J /\ J \in SUBSET Nat
    BY <1>5
  <2> HIDE DEF J
  <2>3. Min(J) <= 1
    BY <2>2, MinIsLeast
  <2> QED BY <2>1, <2>2, <2>3
<1>8. QueryIn(path) = IF mark = 0 THEN <<>> ELSE SubSeq(path, mark + 1, Len(path))
  <2>1. QueryIn(path) = SubSeq(path, Len(plain) + 2, Len(path))
    BY <1>6 DEF QueryIn
  <2>2. CASE mark = 0
    BY <1>1, <1>5, <2>1, <2>2
  <2>3. CASE mark \in 2..Len(path)
    <3>1. Len(plain) + 2 = mark + 1
      BY <1>5, <2>3
    <3>2. QueryIn(path) = SubSeq(path, mark + 1, Len(path))
      BY ONLY <2>1, <3>1, Zenon
    <3>3. mark # 0
      BY <2>3
    <3> QED BY <3>2, <3>3
  <2> QED BY <1>4, <2>2, <2>3
<1> HIDE DEF slash, path
<1> DEFINE query == IF mark = 0 THEN s.request.query ELSE QueryIn(path)
           cfg == Correct(s.config, path)
           r == [s.request EXCEPT !.query = query, !.target = plain]
<1>9. t = [s EXCEPT !.config = cfg, !.request = r]
  <2>1. t = [s EXCEPT
        !.config = Correct(@, path),
        !.request.query = IF mark = 0 THEN @
                          ELSE QueryOf(s.request, SubSeq(path, mark + 1, Len(path))),
        !.request.target = IF plain \in Present \/ slash <= 1 THEN plain
                           ELSE SubSeq(plain, 1, slash - 1)]
    BY DEF _parsePath, mark, plain, slash, path
  <2>2. mark # 0 => QueryOf(s.request, SubSeq(path, mark + 1, Len(path))) = QueryIn(path)
    BY <1>8 DEF QueryOf
  <2>3. t = [s EXCEPT !.config = cfg, !.request.query = query, !.request.target = plain]
    BY <1>7, <2>1, <2>2
  <2> QED BY <2>3 DEF Typed, Members
<1>10. plain \in Targets /\ QueryIn(path) \in Queries
  BY <1>6, PiecesAre DEF path
<1>11. Coherent(cfg)
  BY CorrectEffect DEF Typed
<1>12. query \in Queries /\ query \in {s.request.query, QueryIn(path)}
       /\ (QueryIn(path) # <<>> => query = QueryIn(path))
  BY <1>8, <1>10 DEF Typed, Requests
<1> HIDE DEF query, cfg
<1>13. r \in Requests /\ r.target = plain /\ r.query = query
       /\ r.state = s.request.state /\ r.close = s.request.close
  BY <1>10, <1>12 DEF Typed, Requests
<1> HIDE DEF r
<1>14. Typed(t) /\ SameBut(t, s, {"config", "request"}) /\ t.config = cfg /\ t.request = r
  <2>1. Typed(t)
    BY <1>9, <1>11, <1>13 DEF Typed, Members
  <2>2. SameBut(t, s, {"config", "request"}) /\ t.config = cfg /\ t.request = r
    BY <1>9 DEF Typed, Members, SameBut
  <2> QED BY <2>1, <2>2
<1> QED BY <1>5, <1>6, <1>12, <1>13, <1>14 DEF path, cfg


----------------------------------------------------------------------------
(* One piece of a message.                                                 *)

\* The last piece's own query, or one that may be kept.
OwnQueries(last, kept) ==
  IF QueryIn(last.path) # <<>> THEN {QueryIn(last.path)} ELSE kept

\* The request is what has come of the message that ends with the piece last, and its
\* query may be one of those that are kept.
Fits(r, last, kept) ==
  /\ r.close => last.close
  /\ r.query \in kept
  /\ r.state \in {"head", "end"} =>
       /\ r.method = last.method /\ r.target = Plain(last.path) /\ r.length = last.length
       /\ r.query \in OwnQueries(last, kept)
       /\ ~(last.length > LimitOf(last.path))
  /\ r.state = "bad" => last.kind = "bad" \/ last.length > LimitOf(last.path)

\* The empty line behind the headers: the target, its limit, its query
\* (_parsePath, _setMaxBodySize).
LEMMA HeadersEffect ==
  ASSUME NEW s, Typed(s), NEW p \in Pieces, p.kind \in {"head", "end"},
         NEW t, t = EndHeaders(s, p)
  PROVE  /\ Typed(t) /\ SameBut(t, s, {"config", "request"})
         /\ t.config.route # NoRoute
         /\ t.request.method = p.method
         /\ t.request.target = Plain(p.path) /\ t.request.length = p.length
         /\ t.request.query \in {s.request.query, QueryIn(p.path)}
         /\ QueryIn(p.path) # <<>> => t.request.query = QueryIn(p.path)
         /\ t.request.state = IF p.length > LimitOf(p.path) THEN "bad" ELSE p.kind
         /\ t.request.close = s.request.close
<1> DEFINE u == _parsePath(s, p.path)
           cfg == Correct(u.config, u.request.target)
           state == IF p.length > LimitOf(p.path) THEN "bad" ELSE p.kind
           r == [u.request EXCEPT !.method = p.method, !.length = p.length, !.state = state]
<1>1. /\ Typed(u) /\ SameBut(u, s, {"config", "request"})
      /\ Plain(p.path) # <<>> /\ u.request.target = Plain(p.path)
      /\ u.request.query \in {s.request.query, QueryIn(p.path)}
      /\ QueryIn(p.path) # <<>> => u.request.query = QueryIn(p.path)
      /\ u.request.close = s.request.close
  <2> HIDE DEF u
  <2>1. u = _parsePath(s, p.path)
    BY DEF u
  <2> QED BY <2>1, PathEffect
<1>2. t = [u EXCEPT !.config = Correct(@, u.request.target),
                    !.request.method = p.method,
                    !.request.length = p.length,
                    !.request.state = IF TooLong(u, p.length) THEN "bad" ELSE p.kind]
  BY DEF EndHeaders
<1> HIDE DEF u
<1>3. Coherent(cfg) /\ cfg.route = _findRoute(Plain(p.path)) /\ cfg.route # NoRoute
  BY <1>1, CorrectEffect DEF Typed
<1>4. TooLong(u, p.length) <=> p.length > LimitOf(p.path)
  BY <1>3 DEF TooLong, LimitOf
<1>5. (IF TooLong(u, p.length) THEN "bad" ELSE p.kind) = state
  BY <1>4
<1> HIDE DEF cfg
<1>6. state \in PieceKinds \cup {"none"}
  BY DEF PieceKinds
<1> HIDE DEF state
<1>7. t = [u EXCEPT !.config = cfg, !.request = r]
  BY <1>1, <1>2, <1>5 DEF Typed, Members, cfg
<1>8. p.length \in Lengths /\ p.method \in Methods
  BY PiecesAre
<1>9. /\ r \in Requests /\ r.target = u.request.target /\ r.length = p.length
      /\ r.method = p.method
      /\ r.query = u.request.query /\ r.state = state /\ r.close = u.request.close
  BY <1>1, <1>6, <1>8 DEF Typed, Requests
<1> HIDE DEF r
<1>10. Typed(t)
  BY <1>1, <1>3, <1>7, <1>9 DEF Typed, Members
<1>11. SameBut(t, u, {"config", "request"}) /\ t.config = cfg /\ t.request = r
  BY <1>1, <1>7 DEF Typed, Members, SameBut
<1>12. SameBut(t, s, {"config", "request"})
  BY <1>1, <1>11 DEF SameBut
<1> QED BY <1>1, <1>3, <1>9, <1>10, <1>11, <1>12 DEF state

\* The path has been looked up.
InTarget(r) == r.state \in {"head", "end"}

\* What a piece of a message makes of the request q.
Advances(r, q, p) ==
  /\ r.close => q.close \/ p.close
  /\ \/ /\ p.kind \in {"head", "end"} /\ q.state # "head"
        /\ r.method = p.method /\ r.target = Plain(p.path) /\ r.length = p.length
        /\ r.query \in {q.query, QueryIn(p.path)}
        /\ QueryIn(p.path) # <<>> => r.query = QueryIn(p.path)
        /\ r.state = IF p.length > LimitOf(p.path) THEN "bad" ELSE p.kind
     \/ /\ ~(p.kind \in {"head", "end"} /\ q.state # "head")
        /\ r.method = q.method /\ r.target = q.target /\ r.length = q.length
        /\ r.query = q.query /\ r.state = p.kind

\* A piece is taken from the socket; the end of file is noted; what comes behind the
\* end of a message is swallowed; the others are for the request.
IsParsed(t, s, p) ==
  /\ Typed(t) /\ SameBut(t, s, {"config", "request", "inbox", "shouldClose"})
  /\ t.inbox = Tail(s.inbox)
  /\ s.config.route # NoRoute => t.config.route # NoRoute
  /\ p.kind \in {"head", "end"} /\ ~InTarget(s.request) => t.config.route # NoRoute
  /\ p.kind = "eof" => t.shouldClose = TRUE /\ t.request = s.request
  /\ p.kind # "eof" => t.shouldClose = s.shouldClose
  /\ s.request.state = "end" => t.request = s.request
  /\ p.kind # "eof" /\ s.request.state # "end" => Advances(t.request, s.request, p)

\* One round of the loop (_createRequest).
LEMMA ParseEffect ==
  ASSUME NEW s, Typed(s), s.inbox # <<>>, NEW p, p = Head(s.inbox),
         NEW t, t = Parse(s, p)
  PROVE  IsParsed(t, s, p)
<1> DEFINE v == [s EXCEPT !.inbox = Tail(s.inbox)]
           close == s.request.close \/ p.close
           r == [s.request EXCEPT !.close = close]
           u == [v EXCEPT !.request = r]
<1>1. p \in Pieces \cup {EndOfFile} /\ Tail(s.inbox) \in Seq(Pieces \cup {EndOfFile})
  BY DEF Typed
<1>2. Typed(v) /\ SameBut(v, s, {"inbox"}) /\ v.inbox = Tail(s.inbox)
  <2> DEFINE rest == Tail(s.inbox)
  <2>1. rest \in Seq(Pieces \cup {EndOfFile})
    BY <1>1
  <2> HIDE DEF rest
  <2>2. v = [s EXCEPT !.inbox = rest]
    BY DEF rest
  <2> HIDE DEF v
  <2>3. Typed(v)
    BY <2>1, <2>2 DEF Typed, Members
  <2>4. SameBut(v, s, {"inbox"}) /\ v.inbox = rest
    BY <2>2 DEF Typed, Members, SameBut
  <2> QED BY <2>3, <2>4 DEF rest
<1>3. Parse(s, p) =
        IF p.kind = "eof" THEN ClientClosed(v)
        ELSE IF s.request.state = "end" THEN v
        ELSE IF p.kind \in {"head", "end"} /\ s.request.state # "head"
          THEN EndHeaders([v EXCEPT !.request.close = @ \/ p.close], p)
        ELSE [[v EXCEPT !.request.close = @ \/ p.close] EXCEPT !.request.state = p.kind]
  BY DEF Parse
<1> HIDE DEF v
<1>4. v.request = s.request /\ v.shouldClose = s.shouldClose /\ v.config = s.config
  BY <1>2 DEF SameBut, Members
<1>5. close \in BOOLEAN
  OBVIOUS
<1> HIDE DEF close
<1>6. [v EXCEPT !.request.close = @ \/ p.close] = u
  BY <1>2, <1>4 DEF Typed, Members, close
<1>7. /\ r \in Requests /\ r.close = close /\ r.target = s.request.target
      /\ r.method = s.request.method /\ r.length = s.request.length /\ r.query = s.request.query /\ r.state = s.request.state
  BY <1>5 DEF Typed, Requests
<1>8. Typed(u) /\ SameBut(u, v, {"request"}) /\ u.request = r
  <2> HIDE DEF r
  <2>1. Typed(u)
    BY <1>2, <1>7 DEF Typed, Members
  <2>2. SameBut(u, v, {"request"}) /\ u.request = r
    BY <1>2 DEF Typed, Members, SameBut
  <2> QED BY <2>1, <2>2
<1> HIDE DEF u, r
<1>9. CASE p.kind = "eof"
  <2>1. t = [v EXCEPT !.shouldClose = TRUE]
    BY <1>3, <1>9 DEF ClientClosed
  <2>2. Typed(t) /\ SameBut(t, v, {"shouldClose"}) /\ t.shouldClose = TRUE
    <3>1. Typed(t)
      BY <1>2, <2>1 DEF Typed, Members
    <3>2. SameBut(t, v, {"shouldClose"}) /\ t.shouldClose = TRUE
      BY <1>2, <2>1 DEF Typed, Members, SameBut
    <3> QED BY <3>1, <3>2
  <2>3. t.request = s.request /\ t.config = s.config /\ t.inbox = Tail(s.inbox)
    BY <1>2, <1>4, <2>2 DEF SameBut, Members
  <2>4. SameBut(t, s, {"config", "request", "inbox", "shouldClose"})
    BY <1>2, <2>2 DEF SameBut
  <2> QED BY <1>9, <2>2, <2>3, <2>4 DEF IsParsed
<1>10. CASE p.kind # "eof" /\ s.request.state = "end"
  <2>1. t = v
    BY <1>3, <1>10
  <2>2. SameBut(t, s, {"config", "request", "inbox", "shouldClose"})
    BY <1>2, <2>1 DEF SameBut
  <2>3. InTarget(s.request)
    BY <1>10 DEF InTarget
  <2> QED BY <1>2, <1>4, <1>10, <2>1, <2>2, <2>3 DEF IsParsed
<1>11. CASE p.kind # "eof" /\ s.request.state # "end"
            /\ p.kind \in {"head", "end"} /\ s.request.state # "head"
  <2>1. t = EndHeaders(u, p)
    BY <1>3, <1>6, <1>11
  <2>2. p \in Pieces
    BY <1>1, <1>11, PiecesAre
  <2>3. /\ Typed(t) /\ SameBut(t, u, {"config", "request"})
        /\ t.config.route # NoRoute
        /\ t.request.method = p.method
        /\ t.request.target = Plain(p.path) /\ t.request.length = p.length
        /\ t.request.query \in {u.request.query, QueryIn(p.path)}
        /\ QueryIn(p.path) # <<>> => t.request.query = QueryIn(p.path)
        /\ t.request.state = IF p.length > LimitOf(p.path) THEN "bad" ELSE p.kind
        /\ t.request.close = u.request.close
    BY <1>8, <1>11, <2>1, <2>2, HeadersEffect
  <2>4. SameBut(t, s, {"config", "request", "inbox", "shouldClose"})
    BY <1>2, <1>8, <2>3 DEF SameBut
  <2>5. t.inbox = Tail(s.inbox) /\ t.shouldClose = s.shouldClose
    BY <1>2, <1>4, <1>8, <2>3 DEF SameBut, Members
  <2>6. t.request.close = close /\ u.request.query = s.request.query
    BY <1>7, <1>8, <2>3
  <2>7. Advances(t.request, s.request, p)
    BY <1>11, <2>3, <2>6 DEF close, Advances
  <2>8. t.config.route # NoRoute
    BY <2>3
  <2> QED BY <1>11, <2>3, <2>4, <2>5, <2>7, <2>8 DEF IsParsed
<1>12. CASE p.kind # "eof" /\ s.request.state # "end"
            /\ ~(p.kind \in {"head", "end"} /\ s.request.state # "head")
  <2> DEFINE q == [r EXCEPT !.state = p.kind]
  <2>1. t = [u EXCEPT !.request.state = p.kind]
    BY <1>3, <1>6, <1>12
  <2>2. p.kind \in PieceKinds
    BY <1>1, <1>12, PiecesAre
  <2>3. /\ q \in Requests /\ q.close = close /\ q.target = s.request.target
        /\ q.method = s.request.method
        /\ q.length = s.request.length /\ q.query = s.request.query /\ q.state = p.kind
    BY <1>7, <2>2 DEF Requests
  <2>4. t = [u EXCEPT !.request = q]
    BY <1>8, <2>1 DEF Typed, Members
  <2> HIDE DEF q
  <2>5. Typed(t)
    BY <1>8, <2>3, <2>4 DEF Typed, Members
  <2>6. SameBut(t, u, {"request"}) /\ t.request = q
    BY <1>8, <2>4 DEF Typed, Members, SameBut
  <2>7. SameBut(t, s, {"config", "request", "inbox", "shouldClose"})
    BY <1>2, <1>8, <2>6 DEF SameBut
  <2>8. t.inbox = Tail(s.inbox) /\ t.shouldClose = s.shouldClose /\ t.config = s.config
    BY <1>2, <1>4, <1>8, <2>6 DEF SameBut, Members
  <2>9. Advances(t.request, s.request, p)
    BY <1>12, <2>3, <2>6 DEF close, Advances
  <2>10. p.kind \in {"head", "end"} => InTarget(s.request)
    BY <1>12 DEF InTarget
  <2> QED BY <1>12, <2>5, <2>7, <2>8, <2>9, <2>10 DEF IsParsed
<1> QED BY <1>9, <1>10, <1>11, <1>12


----------------------------------------------------------------------------
(* The loop of recv.                                                       *)

Begun == {"none", "line", "head"}

\* The loop goes no further.
Stopped(t, s) == t.shouldClose \/ (t.request.state \in Final /\ t.inbox # s.inbox)

\* The path is in A.
Targeted(r, A) == InTarget(r) => r.target \in A

\* The pieces ask for targets in A; they are of the message that ends with last.
AskFor(pieces, A) ==
  \A i \in 1..Len(pieces) : pieces[i].kind \in {"head", "end"} => Plain(pieces[i].path) \in A
BelongTo(pieces, last) ==
  \A i \in 1..Len(pieces) :
    pieces[i] = EndOfFile \/ pieces[i] = last \/ Leads(pieces[i], last)

\* What has become of s when k pieces were read.
HasRead(t, s, k, A, last, kept) ==
  /\ Typed(t) /\ SameBut(t, s, {"config", "request", "inbox", "shouldClose"})
  /\ k \in 0..Len(s.inbox) /\ t.inbox = SubSeq(s.inbox, k + 1, Len(s.inbox))
  /\ s.config.route # NoRoute => t.config.route # NoRoute
  /\ (InTarget(s.request) => s.config.route # NoRoute)
       => (InTarget(t.request) => t.config.route # NoRoute)
  /\ t.shouldClose => k > 0 /\ s.inbox[k].kind = "eof"
  /\ k = 0 => t.request = s.request
  /\ s.request.state = "end" => k <= 1 /\ t.request = s.request
  /\ s.request.state \in Begun =>
       /\ \A i \in 1..(k - 1) : s.inbox[i].kind \in {"line", "head"}
       /\ k > 0 =>
            \/ s.inbox[k].kind = "eof" /\ t.shouldClose /\ t.request.state \in Begun
            \/ s.inbox[k].kind \in {"line", "head"} /\ t.request.state \in Begun \cup {"bad"}
            \/ /\ s.inbox[k].kind \in Final /\ t.request.state \in Final
               /\ t.request.state = "end" => s.inbox[k].kind = "end"
  /\ Targeted(s.request, A) /\ AskFor(s.inbox, A) => Targeted(t.request, A)
  /\ /\ last \in Pieces /\ QueryIn(last.path) \in kept
     /\ Fits(s.request, last, kept) /\ BelongTo(s.inbox, last)
     => Fits(t.request, last, kept)

\* A piece that belongs to a message leaves what fits it (EndHeaders, Parse).
LEMMA FitsStep ==
  ASSUME NEW s, NEW t, NEW p, NEW last, NEW kept,
         s.request.close \in BOOLEAN, last.close \in BOOLEAN, p.close \in BOOLEAN,
         Fits(s.request, last, kept), QueryIn(last.path) \in kept,
         p = last \/ Leads(p, last), p.kind # "eof", s.request.state # "end",
         Advances(t.request, s.request, p)
  PROVE  Fits(t.request, last, kept)
<1> USE DEF Advances
<1>1. p.kind \in {"head", "end"} =>
        p.method = last.method /\ p.path = last.path /\ p.length = last.length
  BY DEF Leads
<1>2. p.kind = "bad" => p = last
  BY DEF Leads
<1>3. t.request.close => last.close
  <2>1. s.request.close => last.close
    BY DEF Fits
  <2>2. p.close => last.close
    <3>1. CASE p = last
      BY <3>1
    <3>2. CASE Leads(p, last)
      BY <3>2 DEF Leads
    <3> QED BY <3>1, <3>2
  <2> QED BY <2>1, <2>2
<1>4. t.request.query \in kept
  <2>1. s.request.query \in kept
    BY DEF Fits
  <2>2. t.request.query = s.request.query
          \/ (p.kind \in {"head", "end"} /\ t.request.query = QueryIn(p.path))
    OBVIOUS
  <2> QED BY <1>1, <2>1, <2>2
<1>5. t.request.state = "bad" => last.kind = "bad" \/ last.length > LimitOf(last.path)
  BY <1>1, <1>2
<1>6. t.request.state \in {"head", "end"} =>
        /\ t.request.method = last.method
        /\ t.request.target = Plain(last.path) /\ t.request.length = last.length
        /\ t.request.query \in OwnQueries(last, kept)
        /\ ~(last.length > LimitOf(last.path))
  <2>1. CASE p.kind \in {"head", "end"} /\ s.request.state # "head"
    BY <1>1, <1>4, <2>1 DEF OwnQueries
  <2>2. CASE ~(p.kind \in {"head", "end"} /\ s.request.state # "head")
    BY <2>2 DEF Fits
  <2> QED BY <2>1, <2>2
<1> QED BY <1>3, <1>4, <1>5, <1>6 DEF Fits

LEMMA ReadStep ==
  ASSUME NEW s, NEW t, NEW k, NEW A, NEW last, NEW kept, Typed(s),
         HasRead(t, s, k, A, last, kept), ~Stopped(t, s), k < Len(s.inbox),
         s.request.state \in Begun \cup {"end"}
  PROVE  HasRead(Parse(t, s.inbox[k + 1]), s, k + 1, A, last, kept)
<1> DEFINE p == s.inbox[k + 1]
           u == Parse(t, p)
<1>1. /\ Typed(t) /\ k \in Nat /\ Len(s.inbox) \in Nat /\ k + 1 \in 1..Len(s.inbox)
      /\ s.inbox \in Seq(Pieces \cup {EndOfFile})
      /\ t.inbox = SubSeq(s.inbox, k + 1, Len(s.inbox))
  <2> HIDE DEF u
  <2>1. Typed(t) /\ k \in 0..Len(s.inbox) /\ t.inbox = SubSeq(s.inbox, k + 1, Len(s.inbox))
    BY DEF HasRead
  <2>2. s.inbox \in Seq(Pieces \cup {EndOfFile})
    BY DEF Typed
  <2>3. Len(s.inbox) \in Nat
    BY <2>2
  <2> QED BY <2>1, <2>2, <2>3
<1>2. /\ t.inbox # <<>> /\ p = Head(t.inbox) /\ Tail(t.inbox) = SubSeq(s.inbox, k + 2, Len(s.inbox))
      /\ k > 0 => t.inbox # s.inbox
  <2>1. ASSUME NEW C, NEW w \in Seq(C), NEW i \in Nat, i < Len(w)
        PROVE  LET v == SubSeq(w, i + 1, Len(w)) IN
               /\ v # <<>> /\ w[i + 1] = Head(v) /\ Tail(v) = SubSeq(w, i + 2, Len(w))
               /\ i > 0 => v # w
    <3> DEFINE v == SubSeq(w, i + 1, Len(w))
    <3>1. v \in Seq(C) /\ Len(v) = Len(w) - i /\ \A j \in 1..Len(v) : v[j] = w[i + j]
      BY SMTT(40), <2>1
    <3>2. v # <<>> /\ Head(v) = w[i + 1] /\ (i > 0 => v # w)
      <4>1. Len(v) > 0 /\ (i > 0 => Len(v) # Len(w))
        BY <2>1, <3>1
      <4>2. v[1] = w[i + 1]
        BY <3>1, <4>1
      <4> HIDE DEF v
      <4> QED BY <3>1, <4>1, <4>2
    <3>3. /\ Tail(v) \in Seq(C) /\ Len(Tail(v)) = Len(w) - i - 1
          /\ \A j \in 1..(Len(w) - i - 1) : Tail(v)[j] = w[i + 1 + j]
      <4> HIDE DEF v
      <4> QED BY <2>1, <3>1, <3>2
    <3>4. LET x == SubSeq(w, i + 2, Len(w)) IN
          /\ x \in Seq(C) /\ Len(x) = Len(w) - i - 1
          /\ \A j \in 1..(Len(w) - i - 1) : x[j] = w[i + 1 + j]
      BY <2>1
    <3>5. Tail(v) = SubSeq(w, i + 2, Len(w))
      <4> HIDE DEF v
      <4> QED BY <3>3, <3>4, SeqEqual
    <3> QED BY <3>2, <3>5
  <2> HIDE DEF u
  <2> QED BY <1>1, <2>1
<1>3. p \in Pieces \cup {EndOfFile}
  BY <1>1
<1>4. /\ ~t.shouldClose
      /\ k > 0 => t.request.state \notin Final
  BY <1>2 DEF Stopped
<1> HIDE DEF u, p
<1>5. IsParsed(u, t, p)
  <2>1. u = Parse(t, p)
    BY DEF u
  <2>2. t.inbox # <<>> /\ p = Head(t.inbox)
    BY <1>2
  <2>3. Typed(t)
    BY <1>1
  <2> QED BY ONLY <2>1, <2>2, <2>3, ParseEffect
<1>6. p.kind \in {"line", "head", "end", "bad", "eof"}
  BY <1>3, PiecesAre DEF PieceKinds
<1>7. /\ SameBut(u, s, {"config", "request", "inbox", "shouldClose"})
      /\ u.inbox = SubSeq(s.inbox, k + 2, Len(s.inbox))
      /\ s.config.route # NoRoute => u.config.route # NoRoute
  BY <1>2, <1>5 DEF HasRead, SameBut, IsParsed
<1>8. u.shouldClose => p.kind = "eof"
  BY <1>4, <1>5 DEF IsParsed
<1>9. s.request.state = "end" => k + 1 <= 1 /\ u.request = s.request
  <2> SUFFICES ASSUME s.request.state = "end" PROVE k + 1 <= 1 /\ u.request = s.request
    OBVIOUS
  <2>1. t.request = s.request
    BY DEF HasRead
  <2>2. k = 0
    BY <1>1, <1>4, <2>1 DEF Final
  <2> QED BY <1>5, <2>1, <2>2 DEF IsParsed
<1>10. s.request.state \in Begun =>
         /\ \A i \in 1..k : s.inbox[i].kind \in {"line", "head"}
         /\ \/ p.kind = "eof" /\ u.shouldClose /\ u.request.state \in Begun
            \/ p.kind \in {"line", "head"} /\ u.request.state \in Begun \cup {"bad"}
            \/ /\ p.kind \in Final /\ u.request.state \in Final
               /\ u.request.state = "end" => p.kind = "end"
  <2> SUFFICES ASSUME s.request.state \in Begun
               PROVE  /\ \A i \in 1..k : s.inbox[i].kind \in {"line", "head"}
                      /\ \/ p.kind = "eof" /\ u.shouldClose /\ u.request.state \in Begun
                         \/ p.kind \in {"line", "head"} /\ u.request.state \in Begun \cup {"bad"}
                         \/ /\ p.kind \in Final /\ u.request.state \in Final
                            /\ u.request.state = "end" => p.kind = "end"
    OBVIOUS
  <2>1. k > 0 => s.inbox[k].kind \in {"line", "head"} /\ t.request.state \in Begun
    BY <1>4 DEF HasRead, Final
  <2>2. t.request.state \in Begun
    BY <1>1, <2>1 DEF HasRead
  <2>3. \A i \in 1..k : s.inbox[i].kind \in {"line", "head"}
    <3>1. \A i \in 1..(k - 1) : s.inbox[i].kind \in {"line", "head"}
      BY DEF HasRead
    <3> QED BY <1>1, <2>1, <3>1
  <2>4. CASE p.kind = "eof"
    BY <1>5, <2>2, <2>3, <2>4 DEF IsParsed
  <2>5. CASE p.kind # "eof"
    <3>1. t.request.state # "end"
      BY <2>2 DEF Begun
    <3>2. u.request.state = p.kind \/ (u.request.state = "bad" /\ p.kind \in {"head", "end"})
      BY <1>5, <2>5, <3>1 DEF IsParsed, Advances
    <3> QED BY <1>6, <2>3, <2>5, <3>2 DEF Begun, Final
  <2> QED BY <2>4, <2>5
<1>11. Targeted(s.request, A) /\ AskFor(s.inbox, A) => Targeted(u.request, A)
  <2> SUFFICES ASSUME Targeted(s.request, A), AskFor(s.inbox, A) PROVE Targeted(u.request, A)
    OBVIOUS
  <2>1. Targeted(t.request, A)
    BY DEF HasRead
  <2>2. p.kind \in {"head", "end"} => Plain(p.path) \in A
    BY <1>1 DEF AskFor, p
  <2>3. CASE p.kind = "eof" \/ t.request.state = "end"
    BY <1>5, <2>1, <2>3 DEF IsParsed
  <2>4. CASE p.kind # "eof" /\ t.request.state # "end"
    BY <1>5, <2>1, <2>2, <2>4 DEF Targeted, InTarget, IsParsed, Advances
  <2> QED BY <2>3, <2>4
<1>12. /\ last \in Pieces /\ QueryIn(last.path) \in kept
       /\ Fits(s.request, last, kept) /\ BelongTo(s.inbox, last)
       => Fits(u.request, last, kept)
  <2> SUFFICES ASSUME last \in Pieces, Fits(s.request, last, kept), BelongTo(s.inbox, last), QueryIn(last.path) \in kept
               PROVE  Fits(u.request, last, kept)
    OBVIOUS
  <2>1. Fits(t.request, last, kept)
    BY DEF HasRead
  <2>2. p = EndOfFile \/ p = last \/ Leads(p, last)
    BY <1>1 DEF BelongTo, p
  <2>3. CASE p.kind = "eof" \/ t.request.state = "end"
    BY <1>5, <2>1, <2>3 DEF IsParsed
  <2>4. CASE p.kind # "eof" /\ t.request.state # "end"
    <3>1. p = last \/ Leads(p, last)
      BY <2>2, <2>4, EndIsEof
    <3>2. t.request.close \in BOOLEAN /\ last.close \in BOOLEAN /\ p.close \in BOOLEAN
      <4>1. t.request.close \in BOOLEAN
        BY <1>1 DEF Typed, Requests
      <4>2. last.close \in BOOLEAN
        BY PiecesAre
      <4>3. p.close \in BOOLEAN
        BY <1>3, PiecesAre
      <4> QED BY <4>1, <4>2, <4>3
    <3>3. Advances(u.request, t.request, p)
      BY <1>5, <2>4 DEF IsParsed
    <3> QED BY ONLY <2>1, <2>4, <3>1, <3>2, <3>3, QueryIn(last.path) \in kept, FitsStep
  <2> QED BY <2>3, <2>4
<1>13. (InTarget(s.request) => s.config.route # NoRoute)
         => (InTarget(u.request) => u.config.route # NoRoute)
  <2> SUFFICES ASSUME InTarget(s.request) => s.config.route # NoRoute, InTarget(u.request)
               PROVE  u.config.route # NoRoute
    OBVIOUS
  <2>1. InTarget(t.request) => t.config.route # NoRoute
    BY DEF HasRead
  <2>2. CASE InTarget(t.request)
    BY <1>5, <2>1, <2>2 DEF IsParsed
  <2>3. CASE ~InTarget(t.request)
    <3>1. p.kind \in {"head", "end"}
      <4>1. p.kind # "eof" /\ t.request.state # "end"
        BY <1>5, <2>3 DEF IsParsed, InTarget
      <4> QED BY <1>5, <2>3, <4>1 DEF IsParsed, Advances, InTarget
    <3> QED BY <1>5, <2>3, <3>1 DEF IsParsed
  <2> QED BY <2>2, <2>3
<1>14. k + 1 \in 0..Len(s.inbox) /\ k + 1 > 0 /\ (k + 1) - 1 = k /\ (k + 1) + 1 = k + 2
  BY <1>1
<1> HIDE DEF HasRead
<1>15. HasRead(u, s, k + 1, A, last, kept)
  <2> DEFINE j == k + 1
  <2>1. j \in 0..Len(s.inbox) /\ j > 0 /\ j # 0 /\ j - 1 = k /\ j + 1 = k + 2 /\ s.inbox[j] = p
    BY <1>14 DEF p
  <2> HIDE DEF j
  <2>2. s.request.state \in Begun =>
         /\ \A i \in 1..(j - 1) : s.inbox[i].kind \in {"line", "head"}
         /\ j > 0 =>
              \/ s.inbox[j].kind = "eof" /\ u.shouldClose /\ u.request.state \in Begun
              \/ s.inbox[j].kind \in {"line", "head"} /\ u.request.state \in Begun \cup {"bad"}
              \/ /\ s.inbox[j].kind \in Final /\ u.request.state \in Final
                 /\ u.request.state = "end" => s.inbox[j].kind = "end"
    BY <1>10, <2>1
  <2>3. u.shouldClose => j > 0 /\ s.inbox[j].kind = "eof"
    BY <1>8, <2>1
  <2>4. s.request.state = "end" => j <= 1 /\ u.request = s.request
    BY <1>9 DEF j
  <2>5. u.inbox = SubSeq(s.inbox, j + 1, Len(s.inbox))
    BY <1>7, <2>1
  <2>6. HasRead(u, s, j, A, last, kept)
    BY <1>5, <1>7, <1>11, <1>12, <1>13, <2>1, <2>2, <2>3, <2>4, <2>5 DEF HasRead, IsParsed
  <2> QED BY <2>6 DEF j
<1> QED BY <1>15 DEF u, p

\* One turn of the loop.
Turn(t, i, s) == IF Stopped(t, s) THEN t ELSE Parse(t, s.inbox[i])

\* The loop does what it says: its recursive definition has a value (_createRequest).
LEMMA ReadsAre ==
  ASSUME NEW s, Len(s.inbox) \in Nat
  PROVE  Reads(s) = [i \in 0..Len(s.inbox) |->
           IF i = 0 THEN s ELSE Turn(Reads(s)[i - 1], i, s)]
<1> DEFINE Is(f, n) == f = [i \in 0..n |-> IF i = 0 THEN s ELSE Turn(f[i - 1], i, s)]
           S == {n \in Nat : \E f : Is(f, n)}
<1>1. 0 \in S
  <2>1. Is([i \in 0..0 |-> s], 0)
    OBVIOUS
  <2> QED BY <2>1
<1>2. ASSUME NEW n \in Nat, n \in S PROVE n + 1 \in S
  <2>1. PICK g : Is(g, n)
    BY <1>2
  <2> DEFINE f == [i \in 0..(n + 1) |-> IF i <= n THEN g[i] ELSE Turn(g[n], n + 1, s)]
  <2>2. ASSUME NEW i \in 0..(n + 1)
        PROVE  f[i] = IF i = 0 THEN s ELSE Turn(f[i - 1], i, s)
    <3>1. CASE i = 0
      BY <2>1, <3>1
    <3>2. CASE i \in 1..n
      <4>1. f[i] = g[i] /\ f[i - 1] = g[i - 1]
        BY <3>2
      <4>2. g[i] = Turn(g[i - 1], i, s)
        BY <2>1, <3>2
      <4> QED BY <3>2, <4>1, <4>2
    <3>3. CASE i = n + 1
      <4>1. f[i] = Turn(g[n], i, s) /\ f[i - 1] = g[n]
        BY <3>3
      <4> QED BY <3>3, <4>1
    <3> QED BY <3>1, <3>2, <3>3
  <2>3. Is(f, n + 1)
    <3> HIDE DEF f
    <3>1. f = [i \in 0..(n + 1) |-> f[i]]
      BY DEF f
    <3> QED BY <2>2, <3>1
  <2> HIDE DEF f, Is
  <2>4. \E h : Is(h, n + 1)
    BY <2>3
  <2> QED BY <2>4
<1>3. Len(s.inbox) \in S
  <2> HIDE DEF S
  <2>1. \A n \in Nat : n \in S
    BY ONLY <1>1, <1>2, AllNaturals
  <2> QED BY <2>1
<1>4. \E f : Is(f, Len(s.inbox))
  BY <1>3
<1>5. Reads(s) = CHOOSE f : Is(f, Len(s.inbox))
  BY DEF Reads, Turn, Stopped
<1> HIDE DEF Is
<1>6. Is(Reads(s), Len(s.inbox))
  BY <1>4, <1>5
<1> QED BY <1>6 DEF Is

\* What is read is a part of what has arrived, all of it unless there is a request,
\* an error or the end of file (_createRequest).
LEMMA CreateEffect ==
  ASSUME NEW s, NEW A, NEW last, NEW kept, Typed(s), ~s.shouldClose,
         s.request.state \in Begun \cup {"end"}
  PROVE  \E k : /\ HasRead(_createRequest(s), s, k, A, last, kept)
                /\ ~Stopped(_createRequest(s), s) => k = Len(s.inbox)
<1> DEFINE f == Reads(s)
           Good(t, i) == \E k \in 0..i : HasRead(t, s, k, A, last, kept)
                                          /\ (~Stopped(t, s) => k = i)
           S == {n \in Nat : n <= Len(s.inbox) => Good(f[n], n)}
<1>1. s.inbox \in Seq(Pieces \cup {EndOfFile}) /\ Len(s.inbox) \in Nat
  BY DEF Typed
<1>2. \A i \in 0..Len(s.inbox) : f[i] = IF i = 0 THEN s ELSE Turn(f[i - 1], i, s)
  <2>1. f = [i \in 0..Len(s.inbox) |-> IF i = 0 THEN s ELSE Turn(f[i - 1], i, s)]
    BY <1>1, ReadsAre
  <2> HIDE DEF f
  <2> QED BY <2>1
<1> HIDE DEF f
<1>3. 0 \in S
  <2>1. f[0] = s
    BY <1>1, <1>2
  <2>2. s.inbox = SubSeq(s.inbox, 1, Len(s.inbox))
    BY <1>1
  <2>3. HasRead(s, s, 0, A, last, kept)
    BY <1>1, <2>2 DEF HasRead, SameBut
  <2>4. Good(s, 0)
    BY <2>3
  <2> QED BY <2>1, <2>4
<1>4. ASSUME NEW n \in Nat, n \in S PROVE n + 1 \in S
  <2> SUFFICES ASSUME n + 1 <= Len(s.inbox) PROVE Good(f[n + 1], n + 1)
    OBVIOUS
  <2>1. Good(f[n], n)
    BY <1>1, <1>4
  <2>2. f[n + 1] = Turn(f[n], n + 1, s)
    BY <1>1, <1>2
  <2>3. PICK k \in 0..n : HasRead(f[n], s, k, A, last, kept) /\ (~Stopped(f[n], s) => k = n)
    BY <2>1
  <2>4. CASE Stopped(f[n], s)
    <3>1. f[n + 1] = f[n]
      BY <2>2, <2>4 DEF Turn
    <3>2. k \in 0..(n + 1)
      BY <2>3
    <3> QED BY <2>3, <2>4, <3>1, <3>2
  <2>5. CASE ~Stopped(f[n], s)
    <3>1. f[n + 1] = Parse(f[n], s.inbox[n + 1])
      BY <2>2, <2>5 DEF Turn
    <3>2. n < Len(s.inbox) /\ k = n
      BY <1>1, <2>3, <2>5
    <3> DEFINE t == f[n]
    <3>3. HasRead(t, s, n, A, last, kept) /\ ~Stopped(t, s)
      BY <2>3, <2>5, <3>2
    <3> HIDE DEF t
    <3>4. HasRead(Parse(t, s.inbox[n + 1]), s, n + 1, A, last, kept)
      BY <3>2, <3>3, ReadStep
    <3>5. HasRead(f[n + 1], s, n + 1, A, last, kept)
      BY <3>1, <3>4 DEF t
    <3>6. n + 1 \in 0..(n + 1)
      OBVIOUS
    <3> QED BY <3>5, <3>6
  <2> QED BY <2>4, <2>5
<1>5. \A n \in Nat : n \in S
  <2> HIDE DEF S
  <2> QED BY ONLY <1>3, <1>4, AllNaturals
<1>6. Good(f[Len(s.inbox)], Len(s.inbox))
  BY <1>1, <1>5
<1> QED BY <1>6 DEF f, _createRequest

\* The route is that of the request, once one is complete (_setServerConfig).
LEMMA RequestEffect ==
  ASSUME NEW s, NEW A, NEW last, NEW kept, Typed(s), ~s.shouldClose,
         s.request.state \in Begun \cup {"end"},
         InTarget(s.request) => s.config.route # NoRoute,
         NEW q, q = _setServerConfig(_createRequest(s))
  PROVE  /\ \E k : /\ HasRead(q, s, k, A, last, kept)
                   /\ q.request.state \in Begun /\ ~q.shouldClose => k = Len(s.inbox)
         /\ InTarget(q.request) => /\ q.config.route = _findRoute(q.request.target)
                                   /\ q.config.route # NoRoute
<1> DEFINE t == _createRequest(s)
           cfg == Correct(t.config, t.request.target)
<1>1. PICK k : HasRead(t, s, k, A, last, kept) /\ (~Stopped(t, s) => k = Len(s.inbox))
  BY CreateEffect
<1>2. q = [t EXCEPT !.config = cfg]
  BY DEF _setServerConfig
<1> HIDE DEF t
<1>3. Typed(t)
  BY <1>1 DEF HasRead
<1>4. Coherent(cfg) /\ (t.config.route # NoRoute => cfg.route # NoRoute)
  BY <1>3, CorrectEffect DEF Typed
<1>5. t.config.route # NoRoute => cfg.route = _findRoute(t.request.target)
  <2> SUFFICES ASSUME t.config.route # NoRoute PROVE cfg.route = _findRoute(t.request.target)
    OBVIOUS
  <2>1. t.config.route = _findRoute(t.config.path)
    BY <1>3 DEF Typed, Coherent
  <2> QED BY <2>1 DEF Correct
<1> HIDE DEF cfg
<1>6. Typed(q)
  BY <1>2, <1>3, <1>4 DEF Typed, Members
<1>7. SameBut(q, t, {"config"}) /\ q.config = cfg
  BY <1>2, <1>3 DEF Typed, Members, SameBut
<1>8. q.request = t.request /\ q.inbox = t.inbox /\ q.shouldClose = t.shouldClose
  BY <1>7 DEF SameBut, Members
<1>9. SameBut(q, s, {"config", "request", "inbox", "shouldClose"})
  BY <1>1, <1>7 DEF HasRead, SameBut
<1>10. s.config.route # NoRoute => q.config.route # NoRoute
  BY <1>1, <1>4, <1>7 DEF HasRead
<1>11. InTarget(t.request) => t.config.route # NoRoute
  BY <1>1 DEF HasRead
<1>12. HasRead(q, s, k, A, last, kept)
  BY <1>1, <1>4, <1>6, <1>7, <1>8, <1>9, <1>10, <1>11 DEF HasRead
<1>13. q.request.state \in Begun /\ ~q.shouldClose => k = Len(s.inbox)
  BY <1>1, <1>8 DEF Stopped, Begun, Final
<1> QED BY <1>4, <1>5, <1>7, <1>8, <1>11, <1>12, <1>13

----------------------------------------------------------------------------
(* Pieces on their way, and how many messages end there.                   *)

\* What can be in the pipe.
Flow == Pieces \cup {EndOfFile}

\* What is said of the pipe of an open connection (OpenInv).
PipeIsRight(P, A, ended) ==
  \A i \in 1..Len(P) :
    /\ P[i].kind \in {"head", "end"} => Plain(P[i].path) \in A
    /\ P[i].kind = "eof" => ended
    /\ P[i].kind \in {"line", "head"} => \E j \in Finals(P) : j > i

\* The sequence Q is P without its first k pieces.
Behind(Q, P, k) == Len(Q) = Len(P) - k /\ \A i \in 1..Len(Q) : Q[i] = P[i + k]

LEMMA FinalsAreFinite ==
  ASSUME NEW P, Len(P) \in Nat
  PROVE  /\ IsFiniteSet(Finals(P)) /\ Cardinality(Finals(P)) \in Nat
         /\ Finals(P) # {} => Cardinality(Finals(P)) > 0
<1>1. IsFiniteSet(1..Len(P)) /\ Finals(P) \in SUBSET (1..Len(P))
  BY FS_Interval DEF Finals
<1>2. IsFiniteSet(Finals(P))
  BY <1>1, FS_Subset
<1>3. Cardinality(Finals(P)) \in Nat /\ (Cardinality(Finals(P)) = 0 <=> Finals(P) = {})
  BY <1>2, FS_CardinalityType, FS_EmptySet
<1> QED BY <1>2, <1>3

\* Where the rest of P has its ends, P has them too.
LEMMA FinalsBehind ==
  ASSUME NEW P, Len(P) \in Nat, NEW k \in 0..Len(P), NEW Q, Len(Q) \in Nat, Behind(Q, P, k)
  PROVE  /\ \A i : i \in Finals(Q) <=> i \in 1..Len(Q) /\ i + k \in Finals(P)
         /\ \A j \in Finals(P) : j > k => j - k \in Finals(Q)
         /\ Cardinality(Finals(Q)) <= Cardinality(Finals(P))
         /\ (\E j \in Finals(P) : j <= k) => Cardinality(Finals(Q)) + 1 <= Cardinality(Finals(P))
<1>1. \A i : i \in Finals(Q) <=> i \in 1..Len(Q) /\ i + k \in Finals(P)
  BY DEF Behind, Finals
<1>2. \A j \in Finals(P) : j > k => j - k \in Finals(Q)
  <2> SUFFICES ASSUME NEW j \in Finals(P), j > k PROVE j - k \in Finals(Q)
    OBVIOUS
  <2>1. j \in 1..Len(P)
    BY DEF Finals
  <2>2. j - k \in 1..Len(Q) /\ (j - k) + k = j
    BY <2>1 DEF Behind
  <2> QED BY <1>1, <2>2
<1> DEFINE D == {j \in Finals(P) : j > k}
           f == [i \in Finals(Q) |-> i + k]
<1>3. f \in Injection(Finals(Q), D)
  <2>1. \A i \in Finals(Q) : i \in Nat /\ i > 0 /\ i + k \in D
    BY <1>1
  <2>2. \A i, j \in Finals(Q) : f[i] = f[j] => i = j
    BY <2>1
  <2> QED BY <2>1, <2>2 DEF Injection, IsInjective
<1>4. IsFiniteSet(Finals(P)) /\ Cardinality(Finals(P)) \in Nat
  BY FinalsAreFinite
<1>5. D \in SUBSET Finals(P)
  OBVIOUS
<1> HIDE DEF f, D
<1>6. IsFiniteSet(D) /\ Cardinality(D) <= Cardinality(Finals(P))
      /\ (Cardinality(D) = Cardinality(Finals(P)) => D = Finals(P))
  BY <1>4, <1>5, FS_Subset
<1>7. Cardinality(Finals(Q)) <= Cardinality(D)
  BY <1>3, <1>6, FS_Injection
<1>8. Cardinality(D) \in Nat /\ Cardinality(Finals(Q)) \in Nat
  BY <1>6, FS_CardinalityType, FinalsAreFinite
<1>9. (\E j \in Finals(P) : j <= k) => D # Finals(P)
  <2> SUFFICES ASSUME NEW j \in Finals(P), j <= k PROVE j \notin D
    OBVIOUS
  <2> QED BY DEF D, Finals
<1> QED BY <1>1, <1>2, <1>4, <1>6, <1>7, <1>8, <1>9

\* What is right of the pipe is right of the rest of it.
LEMMA RestIsRight ==
  ASSUME NEW P, Len(P) \in Nat, NEW k \in 0..Len(P), NEW Q, Len(Q) \in Nat, Behind(Q, P, k),
         NEW A, NEW ended, PipeIsRight(P, A, ended)
  PROVE  PipeIsRight(Q, A, ended)
<1> SUFFICES ASSUME NEW i \in 1..Len(Q)
             PROVE  /\ Q[i].kind \in {"head", "end"} => Plain(Q[i].path) \in A
                    /\ Q[i].kind = "eof" => ended
                    /\ Q[i].kind \in {"line", "head"} => \E j \in Finals(Q) : j > i
  BY DEF PipeIsRight
<1>1. Q[i] = P[i + k] /\ i + k \in 1..Len(P)
  BY DEF Behind
<1>2. /\ Q[i].kind \in {"head", "end"} => Plain(Q[i].path) \in A
      /\ Q[i].kind = "eof" => ended
      /\ Q[i].kind \in {"line", "head"} => \E j \in Finals(P) : j > i + k
  BY <1>1 DEF PipeIsRight
<1>3. ASSUME NEW j \in Finals(P), j > i + k PROVE \E m \in Finals(Q) : m > i
  <2>1. j \in Nat
    BY DEF Finals
  <2>2. j > k /\ j - k > i
    BY <1>3, <2>1
  <2>3. j - k \in Finals(Q)
    BY <2>2, FinalsBehind
  <2> QED BY <2>2, <2>3
<1> QED BY <1>2, <1>3

\* Behind what comes first of a message is its rest; behind its end nothing is left.
LEMMA RestOfMessage ==
  ASSUME NEW P, Len(P) \in Nat, NEW k \in 0..Len(P), NEW Q, Len(Q) \in Nat, Behind(Q, P, k),
         NEW last, last.kind \in Final, IsRest(P, last),
         \A i \in 1..(k - 1) : P[i].kind \in {"line", "head"}
  PROVE  /\ k > 0 => P[k].kind \in {"line", "head"} \/ P[k] = last
         /\ (k > 0 => P[k].kind \in {"line", "head"}) => IsRest(Q, last)
         /\ k > 0 /\ P[k].kind \in Final => Silent(Q)
<1>1. PICK m \in 1..Len(P) :
        /\ P[m] = last /\ \A i \in 1..(m - 1) : Leads(P[i], last)
        /\ \A i \in (m + 1)..Len(P) : P[i] = EndOfFile
  BY DEF IsRest
<1>2. \A i \in 1..(m - 1) : P[i].kind \in {"line", "head"}
  BY <1>1 DEF Leads
<1>3. last.kind \notin {"line", "head", "eof"} /\ EndOfFile.kind = "eof"
  BY DEF Final, EndOfFile
<1>4. k <= m
  BY <1>1, <1>3
<1>5. k > 0 => P[k].kind \in {"line", "head"} \/ P[k] = last
  BY <1>1, <1>2, <1>4
<1>6. (k > 0 => P[k].kind \in {"line", "head"}) => IsRest(Q, last)
  <2> SUFFICES ASSUME k > 0 => P[k].kind \in {"line", "head"} PROVE IsRest(Q, last)
    OBVIOUS
  <2>1. k # m
    BY <1>1, <1>3
  <2> DEFINE j == m - k
  <2>2. j \in 1..Len(Q) /\ j + k = m
    BY <1>4, <2>1 DEF Behind
  <2>3. Q[j] = last
    BY <1>1, <2>2 DEF Behind
  <2>4. \A i \in 1..(j - 1) : Leads(Q[i], last)
    BY <1>1, <2>2 DEF Behind
  <2>5. \A i \in (j + 1)..Len(Q) : Q[i] = EndOfFile
    BY <1>1, <2>2 DEF Behind
  <2> HIDE DEF j
  <2> QED BY <2>2, <2>3, <2>4, <2>5 DEF IsRest
<1>7. k > 0 /\ P[k].kind \in Final => Silent(Q)
  <2> SUFFICES ASSUME k > 0, P[k].kind \in Final PROVE Silent(Q)
    OBVIOUS
  <2>1. k = m
    BY <1>2, <1>4 DEF Final
  <2> QED BY SMTT(40), <1>1, <2>1 DEF Silent, Behind
<1> QED BY <1>5, <1>6, <1>7

\* Reading from the socket takes from the front of the pipe.
LEMMA PipeBehind ==
  ASSUME NEW r, NEW n, r.inbox \in Seq(Flow), n.coming \in Seq(Flow), NEW k \in 0..Len(r.inbox),
         NEW q, q.inbox = SubSeq(r.inbox, k + 1, Len(r.inbox))
  PROVE  /\ Behind(Pipe(q, n), Pipe(r, n), k)
         /\ Len(Pipe(q, n)) \in Nat /\ Len(Pipe(r, n)) \in Nat
         /\ k \in 0..Len(Pipe(r, n)) /\ Len(r.inbox) <= Len(Pipe(r, n))
         /\ \A i \in 1..Len(r.inbox) : Pipe(r, n)[i] = r.inbox[i]
<1> DEFINE inbox == r.inbox
           coming == n.coming
           left == q.inbox
<1>a. inbox \in Seq(Flow) /\ coming \in Seq(Flow) /\ k \in 0..Len(inbox)
  OBVIOUS
<1>b. left = SubSeq(inbox, k + 1, Len(inbox))
  OBVIOUS
<1>c. Pipe(q, n) = left \o coming /\ Pipe(r, n) = inbox \o coming
  BY DEF Pipe
<1> HIDE DEF inbox, coming, left
<1> USE <1>a
<1> DEFINE rest == SubSeq(inbox, k + 1, Len(inbox))
<1>1. rest \in Seq(Flow) /\ Len(rest) = Len(inbox) - k
      /\ \A i \in 1..Len(rest) : rest[i] = inbox[i + k]
  OBVIOUS
<1> HIDE DEF rest
<1>2. Pipe(q, n) = rest \o coming
  BY <1>b, <1>c, Zenon DEF rest
<1>3. Len(inbox) \in Nat /\ Len(coming) \in Nat
  OBVIOUS
<1>4. /\ Len(inbox \o coming) = Len(inbox) + Len(coming)
      /\ \A i \in 1..(Len(inbox) + Len(coming)) :
           (inbox \o coming)[i] = IF i <= Len(inbox) THEN inbox[i] ELSE coming[i - Len(inbox)]
  BY ConcatProperties
<1>5. /\ Len(rest \o coming) = Len(rest) + Len(coming)
      /\ \A i \in 1..(Len(rest) + Len(coming)) :
           (rest \o coming)[i] = IF i <= Len(rest) THEN rest[i] ELSE coming[i - Len(rest)]
  <2>1. rest \in Seq(Flow)
    BY <1>1
  <2> QED BY ONLY <1>a, <2>1, ConcatProperties
<1> DEFINE P == inbox \o coming
           Q == rest \o coming
<1>6. /\ Len(P) = Len(inbox) + Len(coming)
      /\ \A i \in 1..(Len(inbox) + Len(coming)) :
           P[i] = IF i <= Len(inbox) THEN inbox[i] ELSE coming[i - Len(inbox)]
  BY <1>4
<1>7. /\ Len(Q) = Len(rest) + Len(coming)
      /\ \A i \in 1..(Len(rest) + Len(coming)) :
           Q[i] = IF i <= Len(rest) THEN rest[i] ELSE coming[i - Len(rest)]
  BY <1>5
<1> HIDE DEF P, Q
<1>8. Len(Q) = Len(P) - k
  BY <1>1, <1>3, <1>6, <1>7
<1>9. ASSUME NEW i \in 1..Len(Q) PROVE Q[i] = P[i + k]
  <2>1. i \in 1..(Len(rest) + Len(coming)) /\ i + k \in 1..(Len(inbox) + Len(coming))
    BY <1>1, <1>3, <1>7
  <2>2. CASE i <= Len(rest)
    <3>1. Q[i] = rest[i] /\ rest[i] = inbox[i + k] /\ P[i + k] = inbox[i + k]
      BY <1>1, <1>3, <1>6, <1>7, <2>1, <2>2
    <3> QED BY <3>1
  <2>3. CASE ~(i <= Len(rest))
    <3>1. i - Len(rest) = i + k - Len(inbox) /\ ~(i + k <= Len(inbox))
      BY <1>1, <1>3, <2>3
    <3>2. Q[i] = coming[i - Len(rest)] /\ P[i + k] = coming[i + k - Len(inbox)]
      BY SMTT(40), <1>6, <1>7, <2>1, <2>3, <3>1
    <3> QED BY <3>1, <3>2
  <2> QED BY <2>2, <2>3
<1>10. Behind(Q, P, k)
  BY <1>8, <1>9 DEF Behind
<1>11. Len(Q) \in Nat /\ Len(P) \in Nat /\ k \in 0..Len(P)
       /\ Len(inbox) <= Len(P) /\ \A i \in 1..Len(inbox) : P[i] = inbox[i]
  BY SMTT(40), <1>1, <1>3, <1>6, <1>7
<1> QED BY <1>2, <1>c, <1>10, <1>11 DEF P, Q, inbox

\* One more answer is one more first try, unless it is a second.
LEMMA TriesOfAppend ==
  ASSUME NEW C, NEW old \in Seq(C), NEW a \in C
  PROVE  /\ Cardinality(FirstTries(old)) \in Nat /\ Cardinality(FirstTries(Append(old, a))) \in Nat
         /\ Cardinality(FirstTries(Append(old, a))) =
              Cardinality(FirstTries(old)) + (IF a.kind = "again" THEN 0 ELSE 1)
         /\ Len(Append(old, a)) = Len(old) + 1 /\ Append(old, a)[Len(old) + 1] = a
         /\ \A i \in 1..Len(old) : Append(old, a)[i] = old[i]
         /\ \A i \in 1..(Len(old) + 1) : i \in 1..Len(old) \/ i = Len(old) + 1
<1> DEFINE bs == Append(old, a)
           n == Len(old)
<1>1. /\ n \in Nat /\ Len(bs) = n + 1 /\ bs[n + 1] = a
      /\ \A i \in 1..n : bs[i] = old[i]
  OBVIOUS
<1> HIDE DEF bs
<1>2. FirstTries(bs) = FirstTries(old) \cup (IF a.kind = "again" THEN {} ELSE {n + 1})
  <2>1. \A i : i \in 1..(n + 1) <=> i \in 1..n \/ i = n + 1
    BY <1>1
  <2> HIDE DEF n
  <2> QED BY <1>1, <2>1 DEF FirstTries, n
<1>3. IsFiniteSet(FirstTries(old)) /\ n + 1 \notin FirstTries(old)
  <2>1. FirstTries(old) \in SUBSET (1..n) /\ IsFiniteSet(1..n)
    BY <1>1, FS_Interval DEF FirstTries
  <2> QED BY <1>1, <2>1, FS_Subset
<1>4. Cardinality(FirstTries(old)) \in Nat
  BY <1>3, FS_CardinalityType
<1>5. Cardinality(FirstTries(bs)) =
        Cardinality(FirstTries(old)) + (IF a.kind = "again" THEN 0 ELSE 1)
  <2>1. CASE a.kind = "again"
    BY <1>2, <1>4, <2>1
  <2>2. CASE a.kind # "again"
    <3>1. FirstTries(bs) = FirstTries(old) \cup {n + 1}
      BY <1>2, <2>2
    <3>2. Cardinality(FirstTries(old) \cup {n + 1}) = Cardinality(FirstTries(old)) + 1
      BY <1>3, FS_AddElement
    <3> QED BY <2>2, <3>1, <3>2
  <2> QED BY <2>1, <2>2
<1>6. Cardinality(FirstTries(bs)) \in Nat
  BY <1>4, <1>5
<1>7. \A i \in 1..(n + 1) : i \in 1..n \/ i = n + 1
  BY <1>1
<1> QED BY <1>1, <1>4, <1>5, <1>6, <1>7 DEF bs

----------------------------------------------------------------------------
(* What handleHTTP starts from, and what it has read.                      *)

\* The queries that may be kept from one request to the next.
Kept(n) == {<<>>} \cup {QueryIn(m.path) : m \in ToSet(n.asked)}

\* Whole if an empty socket takes it.
Fair(a) == a.cut <=> SizeOf(a, a.kind) > Room

\* A client that reads each answer has them whole, but for those that are too large.
Served(h, n) ==
  n.patient => h.fails = {} /\ \A i \in 1..Len(h.answers) : Fair(h.answers[i])

\* No script runs, and nothing waits to be sent: so it is when handleHTTP is called, or
\* goes on after a second try.
Ready(r, n) ==
  /\ Typed(r) /\ n \in Clients
  /\ r.cgi = NoCgi /\ ~r.epolloutShouldOpen /\ ~r.watchesCgi /\ ~r.shouldClose /\ ~r.closed
  /\ r.request.state \in Begun \cup {"end"}
  /\ r.request.state = "end" => r.epolloutShouldClose
  /\ r.epolloutShouldClose => r.fails # {}
  /\ Targeted(r.request, Asked(n))
  /\ InTarget(r.request) => r.config.route # NoRoute
  /\ PipeIsRight(Pipe(r, n), Asked(n), n.ended)
  /\ Cardinality(FirstTries(r.answers)) + Cardinality(Finals(Pipe(r, n)))
       + (IF r.request.state = "end" THEN 1 ELSE 0) <= Len(n.asked)
  /\ r.fails = {} => OneAtATime(r, n) /\ AnswersAreCounted(r, n)
  /\ AnswersAreOwn(r, n) /\ AnswersHaveTheirCause(r, n) /\ LimitIsOfOwnLocation(r, n)
  /\ r.fails \subseteq {"page"} =>
       IF r.epolloutShouldClose THEN ~n.owed
       ELSE ~r.epollout /\ (n.owed => Finals(n.coming) # {} \/ Finals(r.inbox) # {})
  /\ Served(r, n)

\* As long as no send has failed what is read is of the message that is owed.
LEMMA LastIsAPiece ==
  ASSUME NEW h, NEW n \in Clients, AnswersAreCounted(h, n), n.owed, Len(h.answers) \in Nat
  PROVE  /\ Last(n.asked) \in Pieces /\ Last(n.asked).kind \in Final
         /\ Len(n.asked) = Len(h.answers) + 1 /\ Last(n.asked) = n.asked[Len(h.answers) + 1]
         /\ QueryIn(Last(n.asked).path) \in Kept(n)
         /\ Plain(Last(n.asked).path) \in Asked(n)
<1> DEFINE L == {p \in Pieces : p.kind \in Final}
<1>1. n.asked \in Seq(L)
  BY DEF Clients
<1>2. Len(n.asked) = Len(h.answers) + 1
  BY DEF AnswersAreCounted
<1> HIDE DEF L
<1>3. Len(n.asked) \in 1..Len(n.asked) /\ DOMAIN n.asked = 1..Len(n.asked)
  BY <1>1, <1>2
<1>4. n.asked[Len(n.asked)] \in L /\ n.asked[Len(n.asked)] \in ToSet(n.asked)
  BY <1>1, <1>3 DEF ToSet
<1>5. Last(n.asked) = n.asked[Len(n.asked)]
  BY DEF Last
<1>6. Last(n.asked) \in L /\ Last(n.asked) \in ToSet(n.asked)
  BY <1>4, <1>5
<1> QED BY <1>2, <1>5, <1>6 DEF L, Kept, Asked

LEMMA ReadFacts ==
  ASSUME NEW r, NEW n, Ready(r, n), NEW q, NEW k,
         HasRead(q, r, k, Asked(n), Last(n.asked), Kept(n)),
         q.request.state \in Begun /\ ~q.shouldClose => k = Len(r.inbox)
  PROVE  /\ PipeIsRight(Pipe(q, n), Asked(n), n.ended)
         /\ q.shouldClose => n.ended
         /\ Cardinality(Finals(Pipe(q, n))) \in Nat
         /\ Cardinality(FirstTries(r.answers)) + Cardinality(Finals(Pipe(q, n)))
              + (IF q.request.state = "end" THEN 1 ELSE 0) <= Len(n.asked)
         /\ q.request.state = "bad" => Cardinality(FirstTries(r.answers)) + 1 <= Len(n.asked)
         /\ q.request.state \in Begun \/ q.request.state \in Final
         /\ r.fails = {} /\ q.request.state \in Final => n.owed /\ ~q.shouldClose
         /\ q.request.state \in Begun /\ ~q.shouldClose => Finals(r.inbox) = {}
         /\ r.fails = {} =>
              /\ n.owed \/ ~q.shouldClose => Fits(q.request, Last(n.asked), Kept(n))
              /\ q.request.state = "end" => Silent(Pipe(q, n))
              /\ ~n.owed /\ ~q.shouldClose =>
                   Silent(Pipe(q, n)) /\ q.request.state = "none"
              /\ n.owed /\ q.request.state \in Begun /\ ~q.shouldClose =>
                   IsRest(Pipe(q, n), Last(n.asked))
<1> DEFINE P == Pipe(r, n)
           Q == Pipe(q, n)
           last == Last(n.asked)
<1>1. /\ r.inbox \in Seq(Flow) /\ n.coming \in Seq(Flow) /\ Len(r.inbox) \in Nat
      /\ k \in 0..Len(r.inbox) /\ q.inbox = SubSeq(r.inbox, k + 1, Len(r.inbox))
  <2>1. r.inbox \in Seq(Flow)
    BY DEF Ready, Typed, Flow
  <2>2. n.coming \in Seq(Flow)
    BY DEF Ready, Clients, Flow
  <2>3. k \in 0..Len(r.inbox) /\ q.inbox = SubSeq(r.inbox, k + 1, Len(r.inbox))
    BY DEF HasRead
  <2> QED BY <2>1, <2>2, <2>3
<1>2. /\ Behind(Q, P, k) /\ Len(Q) \in Nat /\ Len(P) \in Nat /\ k \in 0..Len(P)
      /\ Len(r.inbox) <= Len(P) /\ \A i \in 1..Len(r.inbox) : P[i] = r.inbox[i]
  BY <1>1, PipeBehind
<1>3. PipeIsRight(P, Asked(n), n.ended)
  BY DEF Ready
<1> HIDE DEF P, Q
<1>4. PipeIsRight(Q, Asked(n), n.ended)
  BY <1>2, <1>3, RestIsRight
<1>5. k > 0 => P[k] = r.inbox[k] /\ k \in 1..Len(P)
  BY <1>1, <1>2
<1>6. q.shouldClose => n.ended
  BY <1>3, <1>5 DEF HasRead, PipeIsRight
<1>7. /\ Cardinality(Finals(P)) \in Nat /\ Cardinality(Finals(Q)) \in Nat
      /\ Cardinality(Finals(Q)) <= Cardinality(Finals(P))
      /\ (\E j \in Finals(P) : j <= k) => Cardinality(Finals(Q)) + 1 <= Cardinality(Finals(P))
      /\ Finals(P) # {} => Cardinality(Finals(P)) >= 1
  BY <1>2, FinalsBehind, FinalsAreFinite
<1>8. r.request.state \in Begun \cup {"end"}
  BY DEF Ready
<1>9. r.request.state = "end" => q.request = r.request
  BY DEF HasRead
<1>10. r.request.state \in Begun =>
         /\ \A i \in 1..(k - 1) : r.inbox[i].kind \in {"line", "head"}
         /\ k > 0 =>
              \/ r.inbox[k].kind = "eof" /\ q.shouldClose /\ q.request.state \in Begun
              \/ r.inbox[k].kind \in {"line", "head"} /\ q.request.state \in Begun \cup {"bad"}
              \/ /\ r.inbox[k].kind \in Final /\ q.request.state \in Final
                 /\ q.request.state = "end" => r.inbox[k].kind = "end"
         /\ k = 0 => q.request = r.request
  BY DEF HasRead
<1>11. q.request.state \in Begun \/ q.request.state \in Final
  <2>1. CASE r.request.state = "end"
    BY <1>9, <2>1 DEF Final
  <2>2. CASE r.request.state \in Begun
    <3>1. k = 0 \/ k > 0
      BY <1>1
    <3> QED BY <1>10, <2>2, <3>1 DEF Final
  <2> QED BY <1>8, <2>1, <2>2
<1>12. ASSUME r.request.state \in Begun, q.request.state \in Final
       PROVE  /\ k > 0 /\ r.inbox[k].kind \in {"line", "head"} \cup Final
              /\ q.request.state = "end" => r.inbox[k].kind = "end"
              /\ ~q.shouldClose
  <2>1. k # 0
    BY <1>10, <1>12 DEF Begun, Final
  <2>2. k > 0
    BY <1>1, <2>1
  <2>3. r.inbox[k].kind \in {"line", "head"} \cup Final /\ (q.request.state = "end" => r.inbox[k].kind = "end")
    BY <1>10, <1>12, <2>2 DEF Begun, Final
  <2>4. q.shouldClose => r.inbox[k].kind = "eof"
    BY DEF HasRead
  <2> QED BY <2>2, <2>3, <2>4 DEF Final
<1> DEFINE tries == Cardinality(FirstTries(r.answers))
           asked == Len(n.asked)
<1>13. tries + Cardinality(Finals(P)) + (IF r.request.state = "end" THEN 1 ELSE 0) <= asked
  BY DEF Ready, P
<1>14. tries \in Nat /\ asked \in Nat
  <2>1. Len(r.answers) \in Nat
    BY DEF Ready, Typed
  <2>2. FirstTries(r.answers) \in SUBSET (1..Len(r.answers)) /\ IsFiniteSet(1..Len(r.answers))
    BY <2>1, FS_Interval DEF FirstTries
  <2>3. IsFiniteSet(FirstTries(r.answers))
    BY <2>2, FS_Subset
  <2>4. n.asked \in Seq({p \in Pieces : p.kind \in Final})
    BY DEF Ready, Clients
  <2> QED BY <2>3, <2>4, FS_CardinalityType
<1> HIDE DEF tries, asked
<1>15. tries + Cardinality(Finals(Q)) + (IF q.request.state = "end" THEN 1 ELSE 0) <= asked
  <2>1. CASE r.request.state = "end"
    <3>1. tries + Cardinality(Finals(P)) + 1 <= asked
      BY <1>13, <2>1
    <3>2. tries + Cardinality(Finals(Q)) + 1 <= asked
      BY <1>7, <1>14, <3>1
    <3> QED BY <1>7, <1>14, <3>2
  <2>2. CASE r.request.state \in Begun
    <3>1. tries + Cardinality(Finals(P)) <= asked
      BY <1>7, <1>13, <1>14, <2>2 DEF Begun
    <3>2. CASE q.request.state = "end"
      <4>1. k > 0 /\ P[k].kind = "end" /\ k \in 1..Len(P)
        BY <1>5, <1>12, <2>2, <3>2 DEF Final
      <4>2. k \in Finals(P) /\ k <= k
        BY <1>1, <4>1 DEF Finals, Final
      <4>3. Cardinality(Finals(Q)) + 1 <= Cardinality(Finals(P))
        BY <1>7, <4>2
      <4> QED BY <1>7, <1>14, <3>1, <3>2, <4>3
    <3>3. CASE q.request.state # "end"
      BY <1>7, <1>14, <3>1, <3>3
    <3> QED BY <3>2, <3>3
  <2> QED BY <1>8, <2>1, <2>2
<1>16. q.request.state = "bad" => tries + 1 <= asked
  <2> SUFFICES ASSUME q.request.state = "bad" PROVE tries + 1 <= asked
    OBVIOUS
  <2>1. r.request.state \in Begun
    BY <1>8, <1>9
  <2>2. k \in 1..Len(P) /\ P[k].kind \in {"line", "head"} \cup Final
    BY <1>5, <1>12, <2>1 DEF Final
  <2>3. Finals(P) # {}
    <3>1. CASE P[k].kind \in {"line", "head"}
      BY <1>3, <2>2, <3>1 DEF PipeIsRight
    <3>2. CASE P[k].kind \in Final
      BY <2>2, <3>2 DEF Finals
    <3> QED BY <2>2, <3>1, <3>2
  <2> QED BY <1>7, <1>13, <1>14, <2>1, <2>3 DEF Begun
<1>17. q.request.state \in Begun /\ ~q.shouldClose => Finals(r.inbox) = {}
  <2> SUFFICES ASSUME q.request.state \in Begun, ~q.shouldClose, NEW i \in Finals(r.inbox)
               PROVE  FALSE
    OBVIOUS
  <2>1. r.request.state \in Begun
    BY <1>8, <1>9 DEF Begun
  <2>2. k = Len(r.inbox) /\ i \in 1..k /\ r.inbox[i].kind \in Final
    BY DEF Finals
  <2>3. i = k \/ i \in 1..(k - 1)
    BY <1>1, <2>2
  <2>4. k > 0
    BY <2>2
  <2> QED BY <1>10, <2>1, <2>2, <2>3, <2>4 DEF Begun, Final
<1>18. ASSUME r.fails = {}
       PROVE  /\ q.request.state \in Final => n.owed /\ ~q.shouldClose
              /\ n.owed \/ ~q.shouldClose => Fits(q.request, last, Kept(n))
              /\ q.request.state = "end" => Silent(Q)
              /\ ~n.owed /\ ~q.shouldClose => Silent(Q) /\ q.request.state = "none"
              /\ n.owed /\ q.request.state \in Begun /\ ~q.shouldClose => IsRest(Q, last)
  <2>1. OneAtATime(r, n) /\ AnswersAreCounted(r, n) /\ r.request.state \in Begun
        /\ r.cgi = NoCgi /\ Len(r.answers) \in Nat /\ n \in Clients
    BY <1>8, <1>18 DEF Ready, Typed
  <2>2. \A i \in 1..(k - 1) : P[i].kind \in {"line", "head"}
    <3>1. \A i \in 1..(k - 1) : i \in 1..Len(r.inbox) /\ P[i] = r.inbox[i]
      BY <1>1, <1>2
    <3> QED BY <1>10, <2>1, <3>1
  <2>3. ASSUME ~n.owed
        PROVE  /\ Silent(P) /\ Silent(Q) /\ r.request.state = "none"
               /\ k = 0 \/ (q.shouldClose /\ q.request.state \in Begun)
    <3>1. Silent(P) /\ r.request.state = "none"
      BY <2>1, <2>3 DEF OneAtATime, P
    <3>2. Silent(Q)
      BY <1>2, <3>1 DEF Silent, Behind
    <3>3. ASSUME k > 0 PROVE q.shouldClose /\ q.request.state \in Begun
      <4>1. r.inbox[k].kind = "eof"
        BY <1>5, <3>1, <3>3, EndIsEof DEF Silent
      <4> QED BY <1>10, <2>1, <3>3, <4>1 DEF Final
    <3>4. k = 0 \/ k > 0
      BY <1>1
    <3> QED BY <3>1, <3>2, <3>3, <3>4
  <2>4. q.request.state \in Final => n.owed /\ ~q.shouldClose
    <3> SUFFICES ASSUME q.request.state \in Final PROVE n.owed /\ ~q.shouldClose
      OBVIOUS
    <3>1. k > 0 /\ ~q.shouldClose
      BY <1>12, <2>1
    <3>2. n.owed
      BY <2>3, <3>1
    <3> QED BY <3>1, <3>2
  <2>5. ~n.owed /\ ~q.shouldClose => Silent(Q) /\ q.request.state = "none"
    BY <1>10, <2>1, <2>3
  <2>6. n.owed \/ ~q.shouldClose => Fits(q.request, last, Kept(n))
    <3>1. Fits(r.request, last, Kept(n))
      BY <2>1 DEF OneAtATime, Fits, OwnQueries, QueriesFor, Kept, Begun
    <3>2. CASE n.owed
      <4>1. last \in Pieces /\ QueryIn(last.path) \in Kept(n)
        BY <2>1, <3>2, LastIsAPiece
      <4>2. BelongTo(r.inbox, last)
        <5>1. IsRest(P, last)
          BY <2>1, <3>2 DEF OneAtATime, P
        <5>2. PICK m \in 1..Len(P) :
                /\ P[m] = last /\ \A i \in 1..(m - 1) : Leads(P[i], last)
                /\ \A i \in (m + 1)..Len(P) : P[i] = EndOfFile
          BY <5>1 DEF IsRest
        <5>3. \A i \in 1..Len(P) : P[i] = EndOfFile \/ P[i] = last \/ Leads(P[i], last)
          BY <1>2, <5>2
        <5> QED BY SMTT(40), <1>1, <1>2, <5>3 DEF BelongTo
      <4> QED BY <3>1, <4>1, <4>2 DEF HasRead
    <3>3. CASE ~n.owed /\ ~q.shouldClose
      <4>1. q.request = r.request
        BY <1>10, <2>1, <2>3, <3>3
      <4> QED BY <3>1, <4>1
    <3> QED BY <3>2, <3>3
  <2>7. ASSUME n.owed
        PROVE  /\ q.request.state \in Begun /\ ~q.shouldClose => IsRest(Q, last)
               /\ q.request.state = "end" => Silent(Q)
    <3>1. IsRest(P, last) /\ last.kind \in Final
      BY <2>1, <2>7, LastIsAPiece DEF OneAtATime, P
    <3>2. /\ (k > 0 => P[k].kind \in {"line", "head"}) => IsRest(Q, last)
          /\ k > 0 /\ P[k].kind \in Final => Silent(Q)
      BY <1>2, <2>2, <3>1, RestOfMessage
    <3>3. q.request.state \in Begun /\ ~q.shouldClose /\ k > 0 => P[k].kind \in {"line", "head"}
      BY <1>5, <1>10, <2>1 DEF Begun, Final
    <3>4. q.request.state = "end" => k > 0 /\ P[k].kind \in Final
      BY <1>5, <1>12, <2>1 DEF Final
    <3> QED BY <3>2, <3>3, <3>4
  <2>8. q.request.state = "end" => Silent(Q)
    BY <2>4, <2>7 DEF Final
  <2>9. n.owed /\ q.request.state \in Begun /\ ~q.shouldClose => IsRest(Q, last)
    BY <2>7
  <2> QED BY <2>4, <2>5, <2>6, <2>8, <2>9
<1> QED BY <1>4, <1>6, <1>7, <1>11, <1>15, <1>16, <1>17, <1>18 DEF P, Q, tries, asked

----------------------------------------------------------------------------
(* One call of handleHTTP, and what the server does after it.              *)

\* The server closes the connection, or looks at what it is to watch
\* (_delegateToConnectionHandler).
LEMMA DelegateEffect ==
  ASSUME NEW t, Typed(t), ~t.closed, NEW u, u = Delegate(t)
  PROVE  /\ Typed(u)
         /\ SameBut(u, t, {"watchesCgi", "closed", "epollout", "edge", "epolloutShouldClose"})
         /\ u.watchesCgi <=> t.cgi # NoCgi
         /\ u.closed <=> t.request.close \/ t.shouldClose
         /\ ~u.closed =>
              /\ ~u.epolloutShouldClose
              /\ t.epolloutShouldClose => ~u.epollout
              /\ ~t.epolloutShouldClose /\ t.epolloutShouldOpen =>
                   u.epollout /\ (u.room > 0 => u.edge)
              /\ ~t.epolloutShouldClose /\ ~t.epolloutShouldOpen => u.epollout = t.epollout
<1> DEFINE watches == t.cgi # NoCgi
           v == [t EXCEPT !.watchesCgi = watches]
<1>1. watches \in BOOLEAN
  OBVIOUS
<1>2. u = IF shouldClose(v) THEN [v EXCEPT !.closed = TRUE] ELSE CloseEPOLLOUT(OpenEPOLLOUT(v))
  BY DEF Delegate
<1> HIDE DEF watches
<1>3. Typed(v)
  BY <1>1 DEF Typed, Members
<1>4. SameBut(v, t, {"watchesCgi"}) /\ v.watchesCgi = watches
  <2>1. SameBut(v, t, {"watchesCgi"})
    BY DEF Typed, Members, SameBut
  <2>2. v.watchesCgi = watches
    BY DEF Typed, Members
  <2> QED BY <2>1, <2>2
<1> HIDE DEF v
<1>5. v.request = t.request /\ v.shouldClose = t.shouldClose /\ v.closed = t.closed
      /\ v.epolloutShouldOpen = t.epolloutShouldOpen /\ v.epolloutShouldClose = t.epolloutShouldClose
      /\ v.epollout = t.epollout
  BY <1>4 DEF SameBut, Members
<1>6. shouldClose(v) <=> t.request.close \/ t.shouldClose
  BY <1>5 DEF shouldClose
<1>7. CASE shouldClose(v)
  <2>1. u = [v EXCEPT !.closed = TRUE]
    BY <1>2, <1>7
  <2>2. Typed(u)
    BY <1>3, <2>1 DEF Typed, Members
  <2>3. SameBut(u, v, {"closed"}) /\ u.closed = TRUE
    BY <1>3, <2>1 DEF Typed, Members, SameBut
  <2>4. SameBut(u, t, {"watchesCgi", "closed", "epollout", "edge", "epolloutShouldClose"})
    BY <1>4, <2>3 DEF SameBut
  <2>5. u.watchesCgi = watches
    BY <1>4, <2>3 DEF SameBut, Members
  <2> QED BY <1>6, <1>7, <2>2, <2>3, <2>4, <2>5 DEF watches
<1>8. CASE ~shouldClose(v)
  <2> DEFINE w == OpenEPOLLOUT(v)
             pending == v.inbox # <<>> \/ (TRUE /\ v.room > 0)
  <2>1. u = CloseEPOLLOUT(w)
    BY <1>2, <1>8
  <2>2. pending \in BOOLEAN
    OBVIOUS
  <2>3. v.epolloutShouldOpen => w = [v EXCEPT !.epollout = TRUE, !.edge = pending]
    BY DEF OpenEPOLLOUT, SetEPOLLOUT
  <2>4. ~v.epolloutShouldOpen => w = v
    BY DEF OpenEPOLLOUT
  <2>5. v.room > 0 => pending
    OBVIOUS
  <2> HIDE DEF w, pending
  <2>6. /\ Typed(w) /\ SameBut(w, v, {"epollout", "edge"})
        /\ v.epolloutShouldOpen => w.epollout = TRUE /\ w.edge = pending
        /\ ~v.epolloutShouldOpen => w.epollout = v.epollout
    <3>1. CASE v.epolloutShouldOpen
      <4>1. w = [v EXCEPT !.epollout = TRUE, !.edge = pending]
        BY <2>3, <3>1
      <4>2. Typed(w)
        BY <1>3, <2>2, <4>1 DEF Typed, Members
      <4>3. SameBut(w, v, {"epollout", "edge"}) /\ w.epollout = TRUE /\ w.edge = pending
        BY <1>3, <4>1 DEF Typed, Members, SameBut
      <4> QED BY <3>1, <4>2, <4>3
    <3>2. CASE ~v.epolloutShouldOpen
      BY <1>3, <2>4, <3>2 DEF SameBut
    <3> QED BY <3>1, <3>2
  <2> DEFINE more == w.inbox # <<>> \/ (FALSE /\ w.room > 0)
  <2>7. more \in BOOLEAN
    OBVIOUS
  <2>8. w.epolloutShouldClose =>
          u = [[w EXCEPT !.epollout = FALSE, !.edge = more] EXCEPT !.epolloutShouldClose = FALSE]
    BY <2>1 DEF CloseEPOLLOUT, SetEPOLLOUT
  <2>9. ~w.epolloutShouldClose => u = w
    BY <2>1 DEF CloseEPOLLOUT
  <2> HIDE DEF more
  <2>10. w.epolloutShouldClose = t.epolloutShouldClose /\ w.closed = t.closed /\ w.room = v.room
         /\ w.watchesCgi = watches
    BY <1>4, <1>5, <2>6 DEF SameBut, Members
  <2>11. SameBut(w, t, {"watchesCgi", "epollout", "edge"})
    BY <1>4, <2>6 DEF SameBut
  <2>12. CASE w.epolloutShouldClose
    <3>1. u = [w EXCEPT !.epollout = FALSE, !.edge = more, !.epolloutShouldClose = FALSE]
      BY <2>6, <2>8, <2>12 DEF Typed, Members
    <3>2. Typed(u)
      BY <2>6, <2>7, <3>1 DEF Typed, Members
    <3>3. SameBut(u, w, {"epollout", "edge", "epolloutShouldClose"})
          /\ u.epollout = FALSE /\ u.epolloutShouldClose = FALSE
      BY <2>6, <3>1 DEF Typed, Members, SameBut
    <3>4. SameBut(u, t, {"watchesCgi", "closed", "epollout", "edge", "epolloutShouldClose"})
      BY <2>11, <3>3 DEF SameBut
    <3>5. u.closed = t.closed /\ u.watchesCgi = watches
      BY <2>10, <3>3 DEF SameBut, Members
    <3> QED BY <1>6, <1>8, <2>10, <2>12, <3>2, <3>3, <3>4, <3>5 DEF watches
  <2>13. CASE ~w.epolloutShouldClose
    <3>1. u = w
      BY <2>9, <2>13
    <3>2. SameBut(u, t, {"watchesCgi", "closed", "epollout", "edge", "epolloutShouldClose"})
      BY <2>11, <3>1 DEF SameBut
    <3>3. t.epolloutShouldOpen => u.epollout /\ (u.room > 0 => u.edge)
      BY <1>5, <2>5, <2>6, <2>10, <3>1
    <3>4. ~t.epolloutShouldOpen => u.epollout = t.epollout
      BY <1>5, <2>6, <3>1
    <3> QED BY <1>6, <1>8, <2>6, <2>10, <2>13, <3>1, <3>2, <3>3, <3>4 DEF watches
  <2> QED BY <2>12, <2>13
<1> QED BY <1>7, <1>8

----------------------------------------------------------------------------
(* The answers of a connection.                                            *)

\* What is said of them (AnswersAreOwn, AnswersHaveTheirCause, LimitIsOfOwnLocation).
AnswersRight(h, n) ==
  AnswersAreOwn(h, n) /\ AnswersHaveTheirCause(h, n) /\ LimitIsOfOwnLocation(h, n)

\* A step that sends nothing.
LEMMA AnswersKept ==
  ASSUME NEW h, NEW n, AnswersRight(h, n), NEW g, NEW m,
         g.answers = h.answers, h.fails \subseteq g.fails, h.closed => g.closed, m.asked = n.asked
  PROVE  AnswersRight(g, m)
<1>1. AnswersAreOwn(g, m)
  BY DEF AnswersRight, AnswersAreOwn
<1>2. AnswersHaveTheirCause(g, m)
  BY DEF AnswersRight, AnswersHaveTheirCause, Asked
<1>3. LimitIsOfOwnLocation(g, m)
  BY DEF AnswersRight, LimitIsOfOwnLocation
<1> QED BY <1>1, <1>2, <1>3 DEF AnswersRight

\* A step that sends an answer a: it is one of this connection, and as long as no send
\* has failed the one to the last message.
LEMMA AnswerAdded ==
  ASSUME NEW h, NEW n, AnswersRight(h, n), NEW g, NEW m, NEW a \in Answers,
         h.answers \in Seq(Answers),
         g.answers = Append(h.answers, a), g.fails = h.fails, h.closed => g.closed,
         m.asked = n.asked,
         Cardinality(FirstTries(Append(h.answers, a))) <= Len(n.asked),
         \/ IsError(a) /\ g.closed
         \/ a.target \in Asked(n) /\ (a.kind = "again" \/ a.route = _findRoute(a.target))
         \/ a.target = <<>> /\ a.kind = "again" /\ "cgi" \in h.fails,
         h.fails = {} =>
           /\ Len(n.asked) = Len(h.answers) + 1
           /\ LET last == n.asked[Len(h.answers) + 1] IN
              /\ \/ a.target = Plain(last.path) /\ a.route = _findRoute(a.target)
                 \/ IsError(a) /\ g.closed
              /\ last.kind # "bad" => (IsError(a) <=> last.length > LimitOf(last.path))
  PROVE  AnswersRight(g, m)
<1> DEFINE old == h.answers
           k == Len(old)
<1>1. /\ k \in Nat /\ Len(g.answers) = k + 1 /\ g.answers[k + 1] = a
      /\ \A i \in 1..k : g.answers[i] = old[i]
      /\ \A i \in 1..Len(g.answers) : i \in 1..k \/ i = k + 1
  BY TriesOfAppend
<1>2. AnswersAreOwn(g, m)
  <2> SUFFICES ASSUME h.fails = {}
               PROVE  /\ Len(g.answers) <= Len(n.asked)
                      /\ \A i \in 1..Len(g.answers) :
                           LET b == g.answers[i] IN
                           \/ b.target = Plain(n.asked[i].path) /\ b.route = _findRoute(b.target)
                           \/ IsError(b) /\ g.closed
    BY DEF AnswersAreOwn
  <2>1. \A i \in 1..k : LET b == old[i] IN
           \/ b.target = Plain(n.asked[i].path) /\ b.route = _findRoute(b.target)
           \/ IsError(b) /\ g.closed
    BY DEF AnswersRight, AnswersAreOwn
  <2> HIDE DEF k, old
  <2>2. Len(n.asked) = k + 1
    BY DEF k, old
  <2>3. \/ a.target = Plain(n.asked[k + 1].path) /\ a.route = _findRoute(a.target)
        \/ IsError(a) /\ g.closed
    BY DEF k, old
  <2> QED BY <1>1, <2>1, <2>2, <2>3
<1>3. AnswersHaveTheirCause(g, m)
  <2>1. \A i \in 1..k : LET b == old[i] IN
          \/ IsError(b) /\ g.closed
          \/ b.target \in Asked(n) /\ (b.kind = "again" \/ b.route = _findRoute(b.target))
          \/ b.target = <<>> /\ b.kind = "again" /\ "cgi" \in g.fails
    BY DEF AnswersRight, AnswersHaveTheirCause
  <2>2. Asked(m) = Asked(n)
    BY DEF Asked
  <2> HIDE DEF k, old
  <2>3. \A i \in 1..Len(g.answers) : LET b == g.answers[i] IN
          \/ IsError(b) /\ g.closed
          \/ b.target \in Asked(n) /\ (b.kind = "again" \/ b.route = _findRoute(b.target))
          \/ b.target = <<>> /\ b.kind = "again" /\ "cgi" \in g.fails
    BY <1>1, <2>1
  <2> QED BY <2>2, <2>3 DEF AnswersHaveTheirCause
<1>4. LimitIsOfOwnLocation(g, m)
  <2> SUFFICES ASSUME h.fails = {}, NEW i \in 1..Len(g.answers), n.asked[i].kind # "bad"
               PROVE  IsError(g.answers[i]) <=> n.asked[i].length > LimitOf(n.asked[i].path)
    BY DEF LimitIsOfOwnLocation
  <2>1. \A j \in 1..k : n.asked[j].kind # "bad" =>
          (IsError(old[j]) <=> n.asked[j].length > LimitOf(n.asked[j].path))
    BY DEF AnswersRight, LimitIsOfOwnLocation
  <2> HIDE DEF k, old
  <2>2. n.asked[k + 1].kind # "bad" =>
          (IsError(a) <=> n.asked[k + 1].length > LimitOf(n.asked[k + 1].path))
    BY DEF k, old
  <2> QED BY <1>1, <2>1, <2>2
<1> QED BY <1>2, <1>3, <1>4 DEF AnswersRight

----------------------------------------------------------------------------
(* What has been read, and what becomes of it.                             *)

\* q is r with what was read for the client n (_createRequest, _setServerConfig).
Fetched(q, r, n) ==
  /\ Typed(q) /\ SameBut(q, r, {"config", "request", "inbox", "shouldClose"})
  /\ Targeted(q.request, Asked(n))
  /\ InTarget(q.request) => q.config.route # NoRoute /\ q.config.route = _findRoute(q.request.target)
  /\ PipeIsRight(Pipe(q, n), Asked(n), n.ended)
  /\ q.shouldClose => n.ended
  /\ Cardinality(Finals(Pipe(q, n))) \in Nat
  /\ Cardinality(FirstTries(r.answers)) + Cardinality(Finals(Pipe(q, n)))
       + (IF q.request.state = "end" THEN 1 ELSE 0) <= Len(n.asked)
  /\ q.request.state = "bad" => Cardinality(FirstTries(r.answers)) + 1 <= Len(n.asked)
  /\ q.request.state \in Begun \/ q.request.state \in Final
  /\ q.request.state \in Begun /\ ~q.shouldClose => Finals(r.inbox) = {}
  /\ r.fails = {} =>
       /\ q.request.state \in Final => n.owed /\ ~q.shouldClose
       /\ n.owed \/ ~q.shouldClose => Fits(q.request, Last(n.asked), Kept(n))
       /\ q.request.state = "end" => Silent(Pipe(q, n))
       /\ ~n.owed /\ ~q.shouldClose => Silent(Pipe(q, n)) /\ q.request.state = "none"
       /\ n.owed /\ q.request.state \in Begun /\ ~q.shouldClose =>
            IsRest(Pipe(q, n), Last(n.asked))

LEMMA FetchEffect ==
  ASSUME NEW r, NEW n, Ready(r, n), NEW q, q = _setServerConfig(_createRequest(r))
  PROVE  Fetched(q, r, n)
<1>1. Typed(r) /\ ~r.shouldClose /\ r.request.state \in Begun \cup {"end"}
      /\ (InTarget(r.request) => r.config.route # NoRoute)
  BY DEF Ready
<1>2. /\ \E k : /\ HasRead(q, r, k, Asked(n), Last(n.asked), Kept(n))
                /\ q.request.state \in Begun /\ ~q.shouldClose => k = Len(r.inbox)
      /\ InTarget(q.request) => /\ q.config.route = _findRoute(q.request.target)
                                /\ q.config.route # NoRoute
  BY <1>1, RequestEffect
<1>3. PICK k : /\ HasRead(q, r, k, Asked(n), Last(n.asked), Kept(n))
               /\ q.request.state \in Begun /\ ~q.shouldClose => k = Len(r.inbox)
  BY <1>2
<1>4. Typed(q) /\ SameBut(q, r, {"config", "request", "inbox", "shouldClose"})
  BY <1>3 DEF HasRead
<1>5. Targeted(q.request, Asked(n))
  <2>1. Targeted(r.request, Asked(n))
    BY DEF Ready
  <2>2. AskFor(r.inbox, Asked(n))
    <3>1. PipeIsRight(Pipe(r, n), Asked(n), n.ended) /\ r.inbox \in Seq(Flow) /\ n.coming \in Seq(Flow)
      BY DEF Ready, Typed, Clients, Flow
    <3>2. r.inbox = SubSeq(r.inbox, 1, Len(r.inbox)) /\ Len(r.inbox) \in Nat
      BY <3>1
    <3>3. /\ Len(Pipe(r, n)) \in Nat /\ Len(r.inbox) <= Len(Pipe(r, n))
          /\ \A i \in 1..Len(r.inbox) : Pipe(r, n)[i] = r.inbox[i]
      <4>1. 0 \in 0..Len(r.inbox) /\ r.inbox = SubSeq(r.inbox, 0 + 1, Len(r.inbox))
        BY <3>2
      <4> QED BY ONLY <3>1, <4>1, PipeBehind
    <3> QED BY <3>1, <3>2, <3>3 DEF AskFor, PipeIsRight
  <2> QED BY <1>3, <2>1, <2>2 DEF HasRead
<1>6. \* ReadFacts
      /\ PipeIsRight(Pipe(q, n), Asked(n), n.ended)
      /\ q.shouldClose => n.ended
      /\ Cardinality(Finals(Pipe(q, n))) \in Nat
      /\ Cardinality(FirstTries(r.answers)) + Cardinality(Finals(Pipe(q, n)))
           + (IF q.request.state = "end" THEN 1 ELSE 0) <= Len(n.asked)
      /\ q.request.state = "bad" => Cardinality(FirstTries(r.answers)) + 1 <= Len(n.asked)
      /\ q.request.state \in Begun \/ q.request.state \in Final
      /\ r.fails = {} /\ q.request.state \in Final => n.owed /\ ~q.shouldClose
      /\ q.request.state \in Begun /\ ~q.shouldClose => Finals(r.inbox) = {}
      /\ r.fails = {} =>
           /\ n.owed \/ ~q.shouldClose => Fits(q.request, Last(n.asked), Kept(n))
           /\ q.request.state = "end" => Silent(Pipe(q, n))
           /\ ~n.owed /\ ~q.shouldClose => Silent(Pipe(q, n)) /\ q.request.state = "none"
           /\ n.owed /\ q.request.state \in Begun /\ ~q.shouldClose =>
                IsRest(Pipe(q, n), Last(n.asked))
  BY ONLY <1>3, Ready(r, n), ReadFacts
<1>7. r.fails = {} =>
       /\ q.request.state \in Final => n.owed /\ ~q.shouldClose
       /\ n.owed \/ ~q.shouldClose => Fits(q.request, Last(n.asked), Kept(n))
       /\ q.request.state = "end" => Silent(Pipe(q, n))
       /\ ~n.owed /\ ~q.shouldClose => Silent(Pipe(q, n)) /\ q.request.state = "none"
       /\ n.owed /\ q.request.state \in Begun /\ ~q.shouldClose =>
            IsRest(Pipe(q, n), Last(n.asked))
  BY <1>6
<1> QED BY <1>2, <1>4, <1>5, <1>6, <1>7 DEF Fetched

\* The server's step leaves the client n as m.
ClientAfter(m, n, u, r) ==
  /\ m.asked = n.asked /\ m.coming = n.coming /\ m.ended = n.ended /\ m.patient = n.patient
  /\ m.owed <=> n.owed /\ Len(u.answers) = Len(r.answers)

\* Who is cut off has asked for it (OnlyTheAskedAreCutOff).
CutOff(h, n) ==
  h.closed /\ n.owed => Last(n.asked).close \/ n.ended \/ h.fails # {}

\* All that is said of a connection.
Good(h, n) ==
  /\ HandlerInv(h, n) /\ CutOff(h, n) /\ Served(h, n)
  /\ ~h.closed /\ HasLookedUp(h) => h.config.route # NoRoute

LEMMA AnswerIsTyped ==
  ASSUME NEW made \in Environments, NEW kind \in Fail, NEW i \in Int
  PROVE  /\ Answer(made, kind, i) \in Answers
         /\ Answer(made, kind, i).target = made.target /\ Answer(made, kind, i).route = made.route
         /\ Answer(made, kind, i).kind = kind
         /\ (i < SizeOf(made, kind) <=> SizeOf(made, kind) > Room) => Fair(Answer(made, kind, i))
<1> DEFINE cut == i < SizeOf(made, kind)
<1>1. cut \in BOOLEAN
  OBVIOUS
<1>2. Answer(made, kind, i) =
        [target |-> made.target, route |-> made.route, kind |-> kind, cut |-> cut]
  BY DEF Answer
<1>3. (i < SizeOf(made, kind) <=> SizeOf(made, kind) > Room)
        <=> (cut <=> SizeOf(made, kind) > Room)
  OBVIOUS
<1> HIDE DEF cut
<1>4. Answer(made, kind, i) \in Answers
  <2>1. made.target \in Targets /\ made.route \in Routes \cup {NoRoute}
    BY DEF Environments
  <2> QED BY <1>1, <1>2, <2>1 DEF Answers
<1>5. /\ Answer(made, kind, i).cut = cut /\ Answer(made, kind, i).kind = kind
      /\ Answer(made, kind, i).target = made.target /\ Answer(made, kind, i).route = made.route
  BY <1>2
<1>6. SizeOf(Answer(made, kind, i), kind) = SizeOf(made, kind)
  BY <1>5 DEF SizeOf
<1> QED BY <1>3, <1>4, <1>5, <1>6 DEF Fair

\* What a patient client gets is whole if an empty socket takes it (_sendResponse).
LEMMA SendingServes ==
  ASSUME NEW s, NEW t, NEW n, NEW m, Typed(s), Served(s, n), m.patient => n.patient,
         NEW made \in Environments, NEW kind \in Fail, Sending(t, s, made, kind),
         n.patient => s.room = Room
  PROVE  Served(t, m)
<1> SUFFICES ASSUME m.patient PROVE t.fails = {} /\ \A i \in 1..Len(t.answers) : Fair(t.answers[i])
  BY DEF Served
<1>1. s.room = Room /\ s.room # 0 /\ s.fails = {}
      /\ \A i \in 1..Len(s.answers) : Fair(s.answers[i])
  BY ConnectionAssumption DEF Served
<1>2. t.fails = {}
  BY <1>1 DEF Sending
<1>3. PICK j \in 1..s.room : /\ t.answers = Append(s.answers, Answer(made, kind, j))
                             /\ j < SizeOf(made, kind) <=> SizeOf(made, kind) > Room
  BY <1>1 DEF Sending
<1> DEFINE a == Answer(made, kind, j)
<1>4. a \in Answers /\ Fair(a)
  BY <1>1, <1>3, AnswerIsTyped
<1> HIDE DEF a
<1>5. s.answers \in Seq(Answers) /\ t.answers = Append(s.answers, a)
  BY <1>3 DEF Typed, a
<1>6. /\ Len(t.answers) = Len(s.answers) + 1 /\ t.answers[Len(s.answers) + 1] = a
      /\ \A i \in 1..Len(s.answers) : t.answers[i] = s.answers[i]
      /\ \A i \in 1..(Len(s.answers) + 1) : i \in 1..Len(s.answers) \/ i = Len(s.answers) + 1
  BY <1>4, <1>5, TriesOfAppend
<1>7. \A i \in 1..Len(t.answers) : Fair(t.answers[i])
  BY <1>1, <1>4, <1>6
<1> QED BY <1>2, <1>7

\* What reading leaves alone.
LEMMA FetchedFields ==
  ASSUME NEW r, NEW n, Ready(r, n), NEW q, Fetched(q, r, n)
  PROVE  /\ q.cgi = NoCgi /\ ~q.epolloutShouldOpen /\ ~q.watchesCgi /\ ~q.closed
         /\ q.epolloutShouldClose = r.epolloutShouldClose /\ q.epollout = r.epollout
         /\ q.answers = r.answers /\ q.fails = r.fails /\ q.room = r.room
         /\ q.request \in Requests /\ q.answers \in Seq(Answers) /\ Len(q.answers) \in Nat
         /\ q.room \in 0..Room
<1>1. Typed(q) /\ SameBut(q, r, {"config", "request", "inbox", "shouldClose"})
  BY DEF Fetched
<1>2. /\ r.cgi = NoCgi /\ ~r.epolloutShouldOpen /\ ~r.watchesCgi /\ ~r.closed
  BY DEF Ready
<1>3. /\ q.cgi = r.cgi /\ q.epolloutShouldOpen = r.epolloutShouldOpen
      /\ q.watchesCgi = r.watchesCgi /\ q.closed = r.closed
      /\ q.epolloutShouldClose = r.epolloutShouldClose /\ q.epollout = r.epollout
      /\ q.answers = r.answers /\ q.fails = r.fails /\ q.room = r.room
  BY <1>1 DEF SameBut, Members
<1>4. q.request \in Requests /\ q.answers \in Seq(Answers) /\ q.room \in 0..Room
  BY <1>1 DEF Typed
<1> QED BY <1>2, <1>3, <1>4

\* A patient client whose request is complete, or wrong, has read all answers.
LEMMA PatientHasRoom ==
  ASSUME NEW r, NEW n, Ready(r, n), NEW q, Fetched(q, r, n), q.request.state \in Final, n.patient
  PROVE  q.room = Room
<1>1. r.fails = {}
  BY DEF Ready, Served
<1>2. n.owed
  BY <1>1 DEF Fetched
<1>3. OneAtATime(r, n)
  BY <1>1 DEF Ready
<1> QED BY <1>2, <1>3, FetchedFields DEF OneAtATime

\* A bad request: the answer is an error, and the connection is closed.
LEMMA Refused ==
  ASSUME NEW r, NEW n, Ready(r, n), NEW q, Fetched(q, r, n), q.request.state = "bad",
         NEW t, Typed(t),
         SameBut(t, q, {"epolloutShouldOpen", "fails", "room", "answers", "shouldClose"}),
         Sending(t, q, NoCgi, "page"), t.shouldClose = TRUE,
         NEW u, u = Delegate(t), NEW m, ClientAfter(m, n, u, r)
  PROVE  Good(u, m)
<1>1. /\ q.cgi = NoCgi /\ ~q.closed /\ q.answers = r.answers /\ q.fails = r.fails
      /\ q.room = r.room /\ q.answers \in Seq(Answers) /\ Len(q.answers) \in Nat
  BY FetchedFields
<1>2. t.cgi = NoCgi /\ ~t.closed
  BY <1>1 DEF SameBut, Members
<1>3. /\ SameBut(u, t, {"watchesCgi", "closed", "epollout", "edge", "epolloutShouldClose"})
      /\ ~u.watchesCgi /\ u.closed
  BY <1>2, DelegateEffect
<1>4. u.answers = t.answers /\ u.fails = t.fails
  BY <1>3 DEF SameBut, Members
<1>5. AnswersRight(r, n) /\ Typed(r) /\ Served(r, n) /\ ~r.closed
  BY DEF Ready, AnswersRight
<1>6. q.request.state \in Final
  BY DEF Final
<1>7. m.asked = n.asked
  BY DEF ClientAfter
<1>8. NoCgi \in Environments /\ NoCgi.route = NoRoute /\ "page" \in Fail
  <2>1. NoCgi \in Environments /\ NoCgi.route = NoRoute
    BY DEF NoCgi, Made, NoRequest, Environments, Targets, Queries, Lengths
  <2> QED BY <2>1 DEF Fail
<1>9. Served(u, m)
  <2>1. Served(q, n)
    BY <1>1, <1>5 DEF Served
  <2>2. n.patient => q.room = Room
    BY <1>6, PatientHasRoom
  <2>3. Typed(q) /\ (m.patient => n.patient)
    BY DEF Fetched, ClientAfter
  <2>4. Served(t, m)
    BY <1>8, <2>1, <2>2, <2>3, SendingServes
  <2> QED BY <1>4, <2>4 DEF Served
<1>10. CASE q.room = 0
  <2>1. u.answers = r.answers /\ u.fails = r.fails \cup {"page"}
    BY <1>1, <1>4, <1>10 DEF Sending
  <2>2. AnswersRight(u, m)
    BY <1>5, <1>7, <2>1, AnswersKept
  <2>3. u.fails # {}
    BY <2>1
  <2>4. HandlerInv(u, m)
    BY <1>3, <2>2, <2>3 DEF HandlerInv, AnswersRight, ScriptsGetTheirRequest
  <2> QED BY <1>3, <1>9, <2>3, <2>4 DEF Good, CutOff
<1>11. CASE q.room # 0
  <2>1. PICK j \in 1..q.room : u.answers = Append(r.answers, Answer(NoCgi, "page", j))
    BY <1>1, <1>4, <1>11 DEF Sending
  <2> DEFINE a == Answer(NoCgi, "page", j)
  <2>2. /\ a \in Answers /\ a.route = NoRoute /\ a.kind = "page"
    BY <1>8, AnswerIsTyped
  <2> HIDE DEF a
  <2>3. u.answers = Append(r.answers, a) /\ r.answers \in Seq(Answers) /\ u.fails = r.fails
    BY <1>1, <1>4, <1>11, <2>1 DEF a, Sending
  <2>4. /\ Cardinality(FirstTries(Append(r.answers, a))) = Cardinality(FirstTries(r.answers)) + 1
        /\ Len(u.answers) = Len(r.answers) + 1
    BY <2>2, <2>3, TriesOfAppend
  <2>5. Cardinality(FirstTries(Append(r.answers, a))) <= Len(n.asked)
    BY <2>4 DEF Fetched
  <2>6. ~m.owed
    BY <1>1, <2>4 DEF ClientAfter
  <2>7. ASSUME r.fails = {}
        PROVE  /\ Len(n.asked) = Len(r.answers) + 1
               /\ n.asked[Len(r.answers) + 1].kind # "bad" =>
                    n.asked[Len(r.answers) + 1].length > LimitOf(n.asked[Len(r.answers) + 1].path)
    <3>1. AnswersAreCounted(r, n) /\ n \in Clients
      BY <2>7 DEF Ready
    <3>2. n.owed /\ Fits(q.request, Last(n.asked), Kept(n))
      BY <1>6, <2>7 DEF Fetched
    <3>3. Len(n.asked) = Len(r.answers) + 1 /\ Last(n.asked) = n.asked[Len(r.answers) + 1]
      BY <1>1, <3>1, <3>2, LastIsAPiece
    <3>4. Last(n.asked).kind = "bad" \/ Last(n.asked).length > LimitOf(Last(n.asked).path)
      BY <3>2 DEF Fits
    <3> QED BY <3>3, <3>4
  <2>8. IsError(a)
    BY <2>2 DEF IsError
  <2>9. AnswersRight(u, m)
    BY <1>3, <1>5, <1>7, <2>2, <2>3, <2>5, <2>7, <2>8, AnswerAdded
  <2>10. u.fails = {} => AnswersAreCounted(u, m)
    <3>1. u.fails = {} => Len(n.asked) = Len(r.answers) + 1
      BY <2>3, <2>7
    <3> QED BY <1>1, <1>7, <2>4, <2>6, <3>1 DEF AnswersAreCounted
  <2>11. HandlerInv(u, m)
    BY <1>3, <2>9, <2>10 DEF HandlerInv, AnswersRight, ScriptsGetTheirRequest
  <2> QED BY <1>3, <1>9, <2>6, <2>11 DEF Good, CutOff
<1> QED BY <1>10, <1>11

\* What the server leaves alone, and what it decides.
LEMMA DelegatedFields ==
  ASSUME NEW t, Typed(t), ~t.closed, NEW u, u = Delegate(t),
         NEW r, NEW n, NEW m, ClientAfter(m, n, u, r)
  PROVE  /\ u.request = t.request /\ u.cgi = t.cgi /\ u.epolloutShouldOpen = t.epolloutShouldOpen
         /\ u.shouldClose = t.shouldClose /\ u.inbox = t.inbox /\ u.room = t.room
         /\ u.answers = t.answers /\ u.fails = t.fails /\ u.config = t.config
         /\ u.epollout \in BOOLEAN
         /\ Pipe(u, m) = Pipe(t, n) /\ Asked(m) = Asked(n) /\ Kept(m) = Kept(n)
         /\ QueriesFor(m) = OwnQueries(Last(n.asked), Kept(n))
<1>1. SameBut(u, t, {"watchesCgi", "closed", "epollout", "edge", "epolloutShouldClose"})
      /\ Typed(u)
  BY DelegateEffect
<1>2. u.inbox = t.inbox
  BY <1>1 DEF SameBut, Members
<1>3. /\ u.request = t.request /\ u.cgi = t.cgi /\ u.epolloutShouldOpen = t.epolloutShouldOpen
      /\ u.shouldClose = t.shouldClose /\ u.room = t.room
      /\ u.answers = t.answers /\ u.fails = t.fails /\ u.config = t.config
  BY <1>1 DEF SameBut, Members
<1>4. u.epollout \in BOOLEAN
  BY <1>1 DEF Typed
<1>5. m.coming = n.coming /\ m.asked = n.asked
  BY DEF ClientAfter
<1>6. Pipe(u, m) = Pipe(t, n)
  BY <1>2, <1>5 DEF Pipe
<1>7. Asked(m) = Asked(n) /\ Kept(m) = Kept(n)
  BY <1>5 DEF Asked, Kept
<1>8. QueriesFor(m) = OwnQueries(Last(n.asked), Kept(n))
  BY <1>5 DEF QueriesFor, OwnQueries, Kept
<1> QED BY <1>2, <1>3, <1>4, <1>6, <1>7, <1>8

\* A script is started: it is told what the request asks for, and is heard of
\* (_delegateToHTTPAction, _addCgi).
LEMMA Started ==
  ASSUME NEW r, NEW n, Ready(r, n), NEW q, Fetched(q, r, n), q.request.state = "end",
         NEW t, Typed(t), SameBut(t, q, {"cgi"}), t.cgi = _initEnv(q.request, q.config.route),
         NEW u, u = Delegate(t), NEW m, ClientAfter(m, n, u, r)
  PROVE  Good(u, m)
<1> DEFINE last == Last(n.asked)
<1>1. /\ q.cgi = NoCgi /\ ~q.closed /\ q.answers = r.answers /\ q.fails = r.fails
      /\ q.room = r.room /\ q.epolloutShouldClose = r.epolloutShouldClose
      /\ q.epollout = r.epollout /\ ~q.epolloutShouldOpen /\ q.request \in Requests
  BY FetchedFields
<1>2. /\ ~t.closed /\ ~t.epolloutShouldOpen /\ t.request = q.request /\ t.config = q.config
      /\ t.shouldClose = q.shouldClose /\ t.inbox = q.inbox /\ t.room = r.room
      /\ t.answers = r.answers /\ t.fails = r.fails
      /\ t.epolloutShouldClose = r.epolloutShouldClose /\ t.epollout = r.epollout
  BY <1>1 DEF SameBut, Members
<1>3. q.config.route # NoRoute /\ q.config.route = _findRoute(q.request.target)
      /\ q.request.target \in Asked(n)
  BY DEF Fetched, InTarget, Targeted
<1>4. /\ t.cgi.target = q.request.target /\ t.cgi.route = q.config.route
      /\ t.cgi.method = q.request.method
      /\ t.cgi.length = IF q.request.method = "POST" THEN q.request.length ELSE 0
      /\ t.cgi.query = IF q.request.method = "GET" THEN q.request.query ELSE <<>>
  BY DEF _initEnv, Made
<1>5. t.cgi # NoCgi
  BY <1>3, <1>4 DEF NoCgi, Made
<1>6. /\ u.request = q.request /\ u.cgi = t.cgi /\ ~u.epolloutShouldOpen
      /\ u.shouldClose = q.shouldClose /\ u.room = r.room
      /\ u.answers = r.answers /\ u.fails = r.fails /\ u.config = q.config
      /\ u.epollout \in BOOLEAN
      /\ Pipe(u, m) = Pipe(t, n) /\ Asked(m) = Asked(n) /\ Kept(m) = Kept(n)
      /\ QueriesFor(m) = OwnQueries(last, Kept(n))
  BY <1>2, DelegatedFields
<1>7. Pipe(u, m) = Pipe(q, n)
  BY <1>2, <1>6 DEF Pipe
<1>8. /\ u.watchesCgi
      /\ u.closed <=> q.request.close \/ q.shouldClose
      /\ ~u.closed => /\ ~u.epolloutShouldClose
                      /\ t.epolloutShouldClose => ~u.epollout
                      /\ ~t.epolloutShouldClose /\ ~t.epolloutShouldOpen => u.epollout = t.epollout
  BY <1>2, <1>5, DelegateEffect
<1>9. m.asked = n.asked /\ m.ended = n.ended /\ m.patient = n.patient /\ (m.owed <=> n.owed)
  BY <1>6 DEF ClientAfter
<1>10. AnswersRight(u, m)
  <2>1. AnswersRight(r, n) /\ ~r.closed
    BY DEF Ready, AnswersRight
  <2> QED BY <1>6, <1>9, <2>1, AnswersKept
<1>11. ASSUME ~u.closed PROVE OpenInv(u, m)
  <2>1. ~u.shouldClose /\ ~u.epolloutShouldClose
    BY <1>6, <1>8, <1>11
  <2>2. /\ PipeIsRight(Pipe(u, m), Asked(m), m.ended)
        /\ Cardinality(FirstTries(u.answers)) + Cardinality(Finals(Pipe(u, m))) + 1 <= Len(m.asked)
    BY <1>6, <1>7, <1>9 DEF Fetched
  <2>3. u.cgi.target \in Asked(m) /\ u.cgi.route = _findRoute(u.cgi.target) /\ u.cgi # NoCgi
    BY <1>3, <1>4, <1>5, <1>6
  <2> QED BY <1>3, <1>6, <1>8, <2>1, <2>2, <2>3 DEF OpenInv, PipeIsRight
<1>12. ASSUME ~u.closed, u.fails \subseteq {"page"} PROVE WokenInv(u, m)
  <2>1. ~r.epolloutShouldClose => ~r.epollout
    BY <1>6, <1>12 DEF Ready
  <2>2. ~u.epollout
    BY <1>2, <1>8, <1>12, <2>1
  <2>3. u.epollout = u.epolloutShouldOpen
    <3>1. u.epolloutShouldOpen \in BOOLEAN
      BY <1>2, DelegateEffect DEF Typed
    <3> QED BY <1>6, <2>2, <3>1
  <2> QED BY <1>8, <2>2, <2>3 DEF WokenInv
<1>13. ASSUME r.fails = {}
       PROVE  /\ n.owed /\ Fits(q.request, last, Kept(n)) /\ Silent(Pipe(q, n))
              /\ ~q.shouldClose /\ OneAtATime(r, n) /\ AnswersAreCounted(r, n)
  <2>1. q.request.state \in Final
    BY DEF Final
  <2> QED BY <1>13, <2>1 DEF Fetched, Ready
<1>14. ASSUME ~u.closed, u.fails = {} PROVE OneAtATime(u, m)
  <2>1. n.owed /\ Fits(q.request, last, Kept(n)) /\ Silent(Pipe(q, n)) /\ OneAtATime(r, n)
    BY <1>6, <1>13, <1>14
  <2>2. m.owed /\ Last(m.asked) = last
    BY <1>9, <2>1
  <2>3. ~u.request.close
    BY <1>6, <1>8, <1>14
  <2>4. m.patient => u.room = Room /\ ~m.ended
    BY <1>6, <1>9, <2>1 DEF OneAtATime
  <2>5. /\ u.request.query \in Kept(m) /\ u.request.method = last.method
        /\ u.request.target = Plain(last.path) /\ u.request.length = last.length
        /\ u.request.query \in QueriesFor(m)
        /\ ~(last.length > LimitOf(last.path))
    BY <1>6, <2>1 DEF Fits
  <2> QED BY <1>5, <1>6, <1>7, <2>1, <2>2, <2>3, <2>4, <2>5 DEF OneAtATime, Kept
<1>15. u.fails = {} => AnswersAreCounted(u, m)
  <2> SUFFICES ASSUME u.fails = {} PROVE AnswersAreCounted(u, m)
    OBVIOUS
  <2>1. AnswersAreCounted(r, n)
    BY <1>6, <1>13
  <2>2. (IF m.owed THEN 1 ELSE 0) = IF n.owed THEN 1 ELSE 0
    BY <1>9
  <2> QED BY <1>6, <1>9, <2>1, <2>2 DEF AnswersAreCounted
<1>16. ScriptsGetTheirRequest(u, m)
  <2> SUFFICES ASSUME u.fails = {}
               PROVE  /\ u.cgi.method = last.method /\ u.cgi.target = Plain(last.path)
                      /\ u.cgi.length = IF last.method = "POST" THEN last.length ELSE 0
                      /\ u.cgi.query \in IF last.method = "GET" THEN QueriesFor(m) ELSE {<<>>}
    BY <1>9 DEF ScriptsGetTheirRequest
  <2>1. Fits(q.request, last, Kept(n)) /\ n.owed /\ AnswersAreCounted(r, n)
    BY <1>6, <1>13
  <2>2. /\ q.request.method = last.method
        /\ q.request.target = Plain(last.path) /\ q.request.length = last.length
        /\ q.request.query \in QueriesFor(m)
    BY <1>6, <2>1 DEF Fits
  <2> QED BY <1>4, <1>6, <2>2
<1>17. CutOff(u, m)
  <2> SUFFICES ASSUME u.closed, m.owed, u.fails = {} PROVE last.close \/ m.ended
    BY <1>9 DEF CutOff
  <2>1. Fits(q.request, last, Kept(n)) /\ ~q.shouldClose
    BY <1>6, <1>13
  <2> QED BY <1>8, <2>1 DEF Fits
<1>18. Served(u, m)
  BY <1>6, <1>9 DEF Served, Ready
<1>19. HandlerInv(u, m)
  BY <1>10, <1>11, <1>12, <1>14, <1>15, <1>16 DEF HandlerInv, AnswersRight
<1> QED BY <1>3, <1>6, <1>17, <1>18, <1>19 DEF Good

\* An answer is sent, in part at least, and the next request can come
\* (_delegateToHTTPAction).
LEMMA Answered ==
  ASSUME NEW r, NEW n, Ready(r, n), NEW q, Fetched(q, r, n), q.request.state = "end",
         NEW t, Typed(t), q.room # 0,
         SameBut(t, q, {"epolloutShouldOpen", "fails", "room", "answers", "request"}),
         NEW kind, kind = IF q.epolloutShouldClose THEN "again" ELSE "page",
         Sending(t, q, Made(q.request, q.config.route), kind), t.request = reset(q.request),
         NEW u, u = Delegate(t), NEW m, ClientAfter(m, n, u, r)
  PROVE  Good(u, m)
<1> DEFINE last == Last(n.asked)
           made == Made(q.request, q.config.route)
<1>1. /\ q.cgi = NoCgi /\ ~q.closed /\ q.answers = r.answers /\ q.fails = r.fails
      /\ q.room = r.room /\ q.epolloutShouldClose = r.epolloutShouldClose
      /\ q.epollout = r.epollout /\ ~q.epolloutShouldOpen /\ q.request \in Requests
      /\ q.answers \in Seq(Answers) /\ Len(q.answers) \in Nat
  BY FetchedFields
<1>2. /\ ~t.closed /\ t.cgi = NoCgi /\ t.config = q.config
      /\ t.shouldClose = q.shouldClose /\ t.inbox = q.inbox
      /\ t.epolloutShouldClose = r.epolloutShouldClose /\ t.epollout = r.epollout
  BY <1>1 DEF SameBut, Members
<1>3. q.config.route # NoRoute /\ q.config.route = _findRoute(q.request.target)
      /\ q.request.target \in Asked(n)
  BY DEF Fetched, InTarget, Targeted
<1>4. ~t.epolloutShouldOpen /\ t.fails = r.fails
  BY <1>1 DEF Sending
<1>5. /\ t.request.state = "none" /\ t.request.close = FALSE /\ t.request.target = <<>>
      /\ t.request.query = q.request.query
  BY <1>1, ResetIsTyped
<1>6. /\ u.request = t.request /\ u.cgi = NoCgi /\ ~u.epolloutShouldOpen
      /\ u.shouldClose = q.shouldClose
      /\ u.answers = t.answers /\ u.fails = r.fails /\ u.config = q.config
      /\ u.epollout \in BOOLEAN
      /\ Pipe(u, m) = Pipe(t, n) /\ Asked(m) = Asked(n) /\ Kept(m) = Kept(n)
  BY <1>2, <1>4, DelegatedFields
<1>7. Pipe(u, m) = Pipe(q, n)
  BY <1>2, <1>6 DEF Pipe
<1>8. /\ ~u.watchesCgi
      /\ u.closed <=> q.shouldClose
      /\ ~u.closed => /\ ~u.epolloutShouldClose
                      /\ t.epolloutShouldClose => ~u.epollout
                      /\ ~t.epolloutShouldClose /\ ~t.epolloutShouldOpen => u.epollout = t.epollout
  BY <1>2, <1>5, DelegateEffect
<1>9. m.asked = n.asked /\ m.ended = n.ended /\ m.patient = n.patient
  BY DEF ClientAfter
<1>10. made \in Environments /\ made.target = q.request.target /\ made.route = q.config.route
       /\ kind \in Fail
  <2>1. q.config.route \in Routes \cup {NoRoute}
    BY RouteIsKnown DEF Fetched, Typed
  <2>2. made \in Environments
    BY <1>1, <2>1, MadeIsTyped
  <2> QED BY <2>2 DEF Made, Fail
<1> HIDE DEF made
<1>11. PICK j \in 1..q.room : u.answers = Append(r.answers, Answer(made, kind, j))
  BY <1>1, <1>6 DEF Sending, made
<1> DEFINE a == Answer(made, kind, j)
<1>12. /\ a \in Answers /\ a.route = q.config.route /\ a.kind = kind /\ a.target = q.request.target
  BY <1>10, AnswerIsTyped
<1> HIDE DEF a
<1>13. u.answers = Append(r.answers, a) /\ r.answers \in Seq(Answers) /\ Len(r.answers) \in Nat
  BY <1>1, <1>11 DEF a
<1>14. /\ Cardinality(FirstTries(r.answers)) \in Nat
       /\ Cardinality(FirstTries(u.answers)) \in Nat
       /\ Cardinality(FirstTries(u.answers)) <= Cardinality(FirstTries(r.answers)) + 1
       /\ Len(u.answers) = Len(r.answers) + 1
  BY <1>12, <1>13, TriesOfAppend
<1>15. /\ PipeIsRight(Pipe(q, n), Asked(n), n.ended) /\ Cardinality(Finals(Pipe(q, n))) \in Nat
       /\ Cardinality(FirstTries(r.answers)) + Cardinality(Finals(Pipe(q, n))) + 1 <= Len(n.asked)
  BY DEF Fetched
<1>16. Len(n.asked) \in Nat
  BY DEF Ready, Clients
<1>17. /\ Cardinality(FirstTries(u.answers)) <= Len(n.asked)
       /\ Cardinality(FirstTries(u.answers)) + Cardinality(Finals(Pipe(q, n))) + 0 <= Len(n.asked)
  BY <1>14, <1>15, <1>16
<1>18. ~m.owed
  BY <1>13, <1>14 DEF ClientAfter
<1>19. ASSUME r.fails = {}
       PROVE  /\ n.owed /\ Fits(q.request, last, Kept(n)) /\ Silent(Pipe(q, n))
              /\ Len(n.asked) = Len(r.answers) + 1 /\ last = n.asked[Len(r.answers) + 1]
  <2>1. q.request.state \in Final
    BY DEF Final
  <2>2. n.owed /\ Fits(q.request, last, Kept(n)) /\ Silent(Pipe(q, n))
    BY <1>19, <2>1 DEF Fetched
  <2>3. AnswersAreCounted(r, n) /\ n \in Clients
    BY <1>19 DEF Ready
  <2> QED BY <1>13, <2>2, <2>3, LastIsAPiece
<1>20. ~IsError(a)
  BY <1>3, <1>12 DEF IsError
<1>21. AnswersRight(u, m)
  <2>1. AnswersRight(r, n) /\ ~r.closed
    BY DEF Ready, AnswersRight
  <2>2. a.target \in Asked(n) /\ a.route = _findRoute(a.target)
    BY <1>3, <1>12
  <2>3. ASSUME r.fails = {}
        PROVE  /\ Len(n.asked) = Len(r.answers) + 1
               /\ a.target = Plain(n.asked[Len(r.answers) + 1].path)
               /\ ~(n.asked[Len(r.answers) + 1].length > LimitOf(n.asked[Len(r.answers) + 1].path))
    BY <1>12, <1>19, <2>3 DEF Fits
  <2>4. Cardinality(FirstTries(Append(r.answers, a))) <= Len(n.asked)
    BY <1>13, <1>17
  <2> QED BY <1>6, <1>9, <1>12, <1>13, <1>20, <2>1, <2>2, <2>3, <2>4, AnswerAdded
<1>22. ASSUME ~u.closed PROVE OpenInv(u, m)
  <2>1. ~u.shouldClose /\ ~u.epolloutShouldClose
    BY <1>6, <1>8, <1>22
  <2>2. /\ PipeIsRight(Pipe(u, m), Asked(m), m.ended)
        /\ Cardinality(FirstTries(u.answers)) + Cardinality(Finals(Pipe(u, m))) + 0 <= Len(m.asked)
    BY <1>6, <1>7, <1>9, <1>15, <1>17
  <2> QED BY <1>5, <1>6, <1>8, <2>1, <2>2 DEF OpenInv, PipeIsRight
<1>23. ASSUME ~u.closed, u.fails \subseteq {"page"} PROVE WokenInv(u, m)
  <2>1. ~r.epolloutShouldClose => ~r.epollout
    BY <1>6, <1>23 DEF Ready
  <2>2. ~u.epollout
    BY <1>2, <1>4, <1>8, <1>23, <2>1
  <2>3. u.epollout = u.epolloutShouldOpen
    <3>1. u.epolloutShouldOpen \in BOOLEAN
      BY <1>2, DelegateEffect DEF Typed
    <3> QED BY <1>6, <2>2, <3>1
  <2> QED BY <1>6, <1>18, <2>2, <2>3 DEF WokenInv
<1>24. ASSUME u.fails = {} PROVE OneAtATime(u, m)
  <2>1. Fits(q.request, last, Kept(n)) /\ Silent(Pipe(q, n))
    BY <1>6, <1>19, <1>24
  <2>2. u.request.query \in Kept(m)
    BY <1>5, <1>6, <2>1 DEF Fits
  <2> QED BY <1>5, <1>6, <1>7, <1>8, <1>18, <2>1, <2>2 DEF OneAtATime, Kept
<1>25. u.fails = {} => AnswersAreCounted(u, m)
  <2> SUFFICES ASSUME u.fails = {} PROVE Len(m.asked) = Len(u.answers) + (IF m.owed THEN 1 ELSE 0)
    BY DEF AnswersAreCounted
  <2>1. Len(n.asked) = Len(r.answers) + 1
    BY <1>6, <1>19
  <2> QED BY <1>9, <1>13, <1>14, <1>18, <2>1
<1>26. Served(u, m)
  <2>1. Served(q, n) /\ Typed(q)
    BY <1>1 DEF Served, Ready, Fetched
  <2>2. n.patient => q.room = Room
    <3>1. q.request.state \in Final
      BY DEF Final
    <3> QED BY <3>1, PatientHasRoom
  <2>3. m.patient => n.patient
    BY <1>9
  <2>4. Served(t, m)
    BY <1>10, <2>1, <2>2, <2>3, SendingServes DEF made
  <2> QED BY <1>4, <1>6, <2>4 DEF Served
<1>27. HandlerInv(u, m)
  BY <1>8, <1>21, <1>22, <1>23, <1>24, <1>25 DEF HandlerInv, AnswersRight, ScriptsGetTheirRequest
<1>28. ~HasLookedUp(u)
  BY <1>5, <1>6, <1>8 DEF HasLookedUp
<1> QED BY <1>18, <1>26, <1>27, <1>28 DEF Good, CutOff

\* There is no room for the answer: it waits, with its request, until there is
\* (_sendResponse, _delegateToConnectionHandler).
LEMMA Postponed ==
  ASSUME NEW r, NEW n, Ready(r, n), NEW q, Fetched(q, r, n), q.request.state = "end",
         NEW t, Typed(t), q.room = 0,
         SameBut(t, q, {"epolloutShouldOpen", "fails", "room", "answers", "request"}),
         NEW kind, kind = IF q.epolloutShouldClose THEN "again" ELSE "page",
         t.epolloutShouldOpen = TRUE, t.answers = q.answers, t.fails = q.fails \cup {kind},
         t.request = q.request,
         NEW u, u = Delegate(t), NEW m, ClientAfter(m, n, u, r)
  PROVE  Good(u, m)
<1>1. /\ q.cgi = NoCgi /\ ~q.closed /\ q.answers = r.answers /\ q.fails = r.fails
      /\ q.room = r.room /\ q.epolloutShouldClose = r.epolloutShouldClose
      /\ q.epollout = r.epollout /\ ~q.epolloutShouldOpen /\ q.request \in Requests
      /\ q.answers \in Seq(Answers) /\ Len(q.answers) \in Nat
  BY FetchedFields
<1>2. /\ ~t.closed /\ t.cgi = NoCgi /\ t.config = q.config
      /\ t.shouldClose = q.shouldClose /\ t.inbox = q.inbox
      /\ t.epolloutShouldClose = r.epolloutShouldClose /\ t.epollout = r.epollout
  BY <1>1 DEF SameBut, Members
<1>3. q.config.route # NoRoute /\ q.request.target \in Asked(n)
  BY DEF Fetched, InTarget, Targeted
<1>4. /\ u.request = q.request /\ u.cgi = NoCgi /\ u.epolloutShouldOpen = TRUE
      /\ u.shouldClose = q.shouldClose
      /\ u.answers = r.answers /\ u.fails = r.fails \cup {kind} /\ u.config = q.config
      /\ u.epollout \in BOOLEAN
      /\ Pipe(u, m) = Pipe(t, n) /\ Asked(m) = Asked(n)
  BY <1>1, <1>2, DelegatedFields
<1>5. Pipe(u, m) = Pipe(q, n)
  BY <1>2, <1>4 DEF Pipe
<1>6. /\ ~u.watchesCgi
      /\ u.closed <=> q.request.close \/ q.shouldClose
      /\ ~u.closed => /\ ~u.epolloutShouldClose
                      /\ ~t.epolloutShouldClose /\ t.epolloutShouldOpen =>
                           u.epollout /\ (u.room > 0 => u.edge)
  BY <1>2, DelegateEffect
<1>7. m.asked = n.asked /\ m.ended = n.ended /\ m.patient = n.patient
  BY DEF ClientAfter
<1>8. u.fails # {}
  BY <1>4
<1>9. AnswersRight(u, m)
  <2>1. AnswersRight(r, n) /\ ~r.closed
    BY DEF Ready, AnswersRight
  <2> QED BY <1>4, <1>7, <2>1, AnswersKept
<1>10. ASSUME ~u.closed PROVE OpenInv(u, m)
  <2>1. ~u.shouldClose /\ ~u.epolloutShouldClose
    BY <1>4, <1>6, <1>10
  <2>2. /\ PipeIsRight(Pipe(u, m), Asked(m), m.ended)
        /\ Cardinality(FirstTries(u.answers)) + Cardinality(Finals(Pipe(u, m))) + 1 <= Len(m.asked)
    BY <1>4, <1>5, <1>7 DEF Fetched
  <2> QED BY <1>3, <1>4, <1>6, <2>1, <2>2 DEF OpenInv, PipeIsRight
<1>11. ASSUME ~u.closed, u.fails \subseteq {"page"} PROVE WokenInv(u, m)
  <2>1. ~t.epolloutShouldClose
    <3>1. kind \in u.fails
      BY <1>4
    <3>2. kind = "page"
      BY <1>11, <3>1
    <3>3. ~q.epolloutShouldClose
      BY <3>2
    <3> QED BY <1>1, <1>2, <3>3
  <2>2. u.epollout /\ (u.room > 0 => u.edge)
    BY <1>6, <1>11, <2>1
  <2>3. u.epollout = u.epolloutShouldOpen
    BY <1>4, <2>2
  <2> QED BY <1>4, <2>2, <2>3 DEF WokenInv
<1>12. ~n.patient
  <2> SUFFICES ASSUME n.patient PROVE FALSE
    OBVIOUS
  <2>1. q.request.state \in Final
    BY DEF Final
  <2>2. q.room = Room
    BY <2>1, PatientHasRoom
  <2> QED BY <2>2, ConnectionAssumption
<1>13. Served(u, m)
  BY <1>7, <1>12 DEF Served
<1>14. HandlerInv(u, m)
  BY <1>6, <1>8, <1>9, <1>10, <1>11 DEF HandlerInv, AnswersRight, ScriptsGetTheirRequest
<1> QED BY <1>3, <1>4, <1>8, <1>13, <1>14 DEF Good, CutOff

\* The rest of the request is waited for (_createRequest).
LEMMA Waiting ==
  ASSUME NEW r, NEW n, Ready(r, n), NEW q, Fetched(q, r, n), q.request.state \in Begun,
         NEW u, u = Delegate(q), NEW m, ClientAfter(m, n, u, r)
  PROVE  Good(u, m)
<1> DEFINE last == Last(n.asked)
<1>1. /\ q.cgi = NoCgi /\ ~q.closed /\ q.answers = r.answers /\ q.fails = r.fails
      /\ q.room = r.room /\ q.epolloutShouldClose = r.epolloutShouldClose
      /\ q.epollout = r.epollout /\ ~q.epolloutShouldOpen /\ q.request \in Requests
      /\ Typed(q)
  BY FetchedFields DEF Fetched
<1>2. InTarget(q.request) => q.config.route # NoRoute /\ q.request.target \in Asked(n)
  BY DEF Fetched, Targeted
<1>3. q.request.state # "end" /\ q.request.state # "bad"
  BY DEF Begun
<1>4. /\ u.request = q.request /\ u.cgi = NoCgi /\ ~u.epolloutShouldOpen
      /\ u.shouldClose = q.shouldClose /\ u.room = r.room
      /\ u.answers = r.answers /\ u.fails = r.fails /\ u.config = q.config
      /\ u.epollout \in BOOLEAN
      /\ Pipe(u, m) = Pipe(q, n) /\ Asked(m) = Asked(n) /\ Kept(m) = Kept(n)
      /\ QueriesFor(m) = OwnQueries(last, Kept(n))
  BY <1>1, DelegatedFields
<1>5. /\ ~u.watchesCgi
      /\ u.closed <=> q.request.close \/ q.shouldClose
      /\ ~u.closed => /\ ~u.epolloutShouldClose
                      /\ q.epolloutShouldClose => ~u.epollout
                      /\ ~q.epolloutShouldClose /\ ~q.epolloutShouldOpen => u.epollout = q.epollout
  BY <1>1, DelegateEffect
<1>6. /\ m.asked = n.asked /\ m.ended = n.ended /\ m.patient = n.patient /\ (m.owed <=> n.owed)
      /\ m.coming = n.coming
  BY <1>4 DEF ClientAfter
<1>7. AnswersRight(u, m)
  <2>1. AnswersRight(r, n) /\ ~r.closed
    BY DEF Ready, AnswersRight
  <2> QED BY <1>4, <1>6, <2>1, AnswersKept
<1>8. ASSUME ~u.closed PROVE OpenInv(u, m)
  <2>1. ~u.shouldClose /\ ~u.epolloutShouldClose
    BY <1>4, <1>5, <1>8
  <2>2. /\ PipeIsRight(Pipe(u, m), Asked(m), m.ended)
        /\ Cardinality(FirstTries(u.answers)) + Cardinality(Finals(Pipe(u, m))) + 0 <= Len(m.asked)
    BY <1>3, <1>4, <1>6 DEF Fetched
  <2> QED BY <1>2, <1>3, <1>4, <1>5, <2>1, <2>2 DEF OpenInv, PipeIsRight, InTarget
<1>9. ASSUME ~u.closed, u.fails \subseteq {"page"} PROVE WokenInv(u, m)
  <2>1. IF r.epolloutShouldClose THEN ~n.owed
        ELSE ~r.epollout /\ (n.owed => Finals(n.coming) # {} \/ Finals(r.inbox) # {})
    BY <1>4, <1>9 DEF Ready
  <2>2. ~u.epollout
    BY <1>1, <1>5, <1>9, <2>1
  <2>3. u.epollout = u.epolloutShouldOpen
    <3>1. u.epolloutShouldOpen \in BOOLEAN
      BY <1>1, DelegateEffect DEF Typed
    <3> QED BY <1>4, <2>2, <3>1
  <2>4. Finals(r.inbox) = {}
    BY <1>5, <1>9 DEF Fetched
  <2>5. m.owed => Finals(m.coming) # {}
    BY <1>6, <2>1, <2>4
  <2> QED BY <1>4, <2>2, <2>3, <2>5 DEF WokenInv
<1>10. ASSUME r.fails = {}
       PROVE  /\ n.owed \/ ~q.shouldClose => Fits(q.request, last, Kept(n))
              /\ ~n.owed /\ ~q.shouldClose => Silent(Pipe(q, n)) /\ q.request.state = "none"
              /\ n.owed /\ ~q.shouldClose => IsRest(Pipe(q, n), last)
              /\ OneAtATime(r, n) /\ AnswersAreCounted(r, n)
  BY <1>10 DEF Fetched, Ready
<1>11. ASSUME ~u.closed, u.fails = {} PROVE OneAtATime(u, m)
  <2>1. /\ Fits(q.request, last, Kept(n)) /\ OneAtATime(r, n)
        /\ ~n.owed => Silent(Pipe(q, n)) /\ q.request.state = "none"
        /\ n.owed => IsRest(Pipe(q, n), last)
    BY <1>4, <1>5, <1>10, <1>11
  <2>2. ~u.request.close
    BY <1>4, <1>5, <1>11
  <2>3. m.patient /\ m.owed => u.room = Room /\ ~m.ended
    BY <1>4, <1>6, <2>1 DEF OneAtATime
  <2>4. u.request.query \in Kept(m)
    BY <1>4, <2>1 DEF Fits
  <2>5. u.request.state \in {"head", "end"} =>
          /\ m.owed
          /\ u.request.method = last.method
          /\ u.request.target = Plain(last.path) /\ u.request.length = last.length
          /\ u.request.query \in QueriesFor(m)
          /\ ~(last.length > LimitOf(last.path))
    BY <1>4, <1>6, <2>1 DEF Fits
  <2>6. Last(m.asked) = last
    BY <1>6
  <2>7. /\ ~m.owed => Silent(Pipe(u, m)) /\ u.request.state = "none"
        /\ m.owed => IsRest(Pipe(u, m), last)
    BY <1>4, <1>6, <2>1
  <2> QED BY <1>4, <1>5, <2>2, <2>3, <2>4, <2>5, <2>6, <2>7 DEF OneAtATime, Kept
<1>12. u.fails = {} => AnswersAreCounted(u, m)
  <2> SUFFICES ASSUME u.fails = {} PROVE AnswersAreCounted(u, m)
    OBVIOUS
  <2>1. AnswersAreCounted(r, n)
    BY <1>4, <1>10
  <2>2. (IF m.owed THEN 1 ELSE 0) = IF n.owed THEN 1 ELSE 0
    BY <1>6
  <2> QED BY <1>4, <1>6, <2>1, <2>2 DEF AnswersAreCounted
<1>13. CutOff(u, m)
  <2> SUFFICES ASSUME u.closed, m.owed, u.fails = {} PROVE last.close \/ m.ended
    BY <1>6 DEF CutOff
  <2>1. Fits(q.request, last, Kept(n))
    BY <1>4, <1>6, <1>10
  <2>2. q.shouldClose => n.ended
    BY DEF Fetched
  <2> QED BY <1>5, <1>6, <2>1, <2>2 DEF Fits
<1>14. Served(u, m)
  BY <1>4, <1>6 DEF Served, Ready
<1>15. HandlerInv(u, m)
  BY <1>5, <1>7, <1>8, <1>9, <1>11, <1>12 DEF HandlerInv, AnswersRight, ScriptsGetTheirRequest
<1>16. HasLookedUp(u) => u.config.route # NoRoute
  BY <1>2, <1>4, <1>5 DEF HasLookedUp, InTarget
<1> QED BY <1>13, <1>14, <1>15, <1>16 DEF Good

\* Answers are only added.
Grown(u, r) ==
  Len(r.answers) \in Nat /\ Len(u.answers) \in Nat /\ Len(r.answers) <= Len(u.answers)

LEMMA SendingGrows ==
  ASSUME NEW t, NEW s, NEW made, NEW kind, Sending(t, s, made, kind), s.answers \in Seq(Answers)
  PROVE  Grown(t, s)
<1>1. ASSUME NEW C, NEW v \in Seq(C), NEW w PROVE Len(v) \in Nat /\ Len(Append(v, w)) = Len(v) + 1
  OBVIOUS
<1>2. t.answers = s.answers \/ \E w : t.answers = Append(s.answers, w)
  BY DEF Sending
<1> QED BY <1>1, <1>2 DEF Grown

\* handleHTTP from a connection that is ready for it, and what the server does then.
LEMMA Handled ==
  ASSUME NEW r, NEW n, Ready(r, n), NEW starts \in BOOLEAN,
         NEW t, t = handleHTTP(r, starts),
         NEW u, u = Delegate(t), NEW m, ClientAfter(m, n, u, r)
  PROVE  /\ Typed(u) /\ Good(u, m) /\ Grown(u, r)
         /\ r.config.route # NoRoute => u.config.route # NoRoute
<1> DEFINE q == _setServerConfig(_createRequest(r))
<1>1. t = IF q.request.state = "bad"
            THEN [_sendResponse(q, NoCgi, "page") EXCEPT !.shouldClose = TRUE]
          ELSE IF q.request.state = "end"
            THEN _delegateToHTTPAction(q, starts, IF q.epolloutShouldClose THEN "again" ELSE "page")
          ELSE q
  BY DEF handleHTTP
<1>2. Fetched(q, r, n)
  <2> DEFINE x == q
  <2> HIDE DEF q
  <2>1. q = _setServerConfig(_createRequest(r))
    BY DEF q
  <2> QED BY <2>1, FetchEffect
<1>3. r.config.route # NoRoute => q.config.route # NoRoute
  <2>1. Typed(r) /\ ~r.shouldClose /\ r.request.state \in Begun \cup {"end"}
        /\ (InTarget(r.request) => r.config.route # NoRoute)
    BY DEF Ready
  <2>2. PICK k : HasRead(q, r, k, {}, {}, {})
    <3> HIDE DEF q
    <3>1. q = _setServerConfig(_createRequest(r))
      BY DEF q
    <3> QED BY <2>1, <3>1, RequestEffect
  <2> QED BY <2>2 DEF HasRead
<1> HIDE DEF q
<1>4. Typed(q) /\ ~q.closed /\ q.answers = r.answers /\ q.answers \in Seq(Answers)
  BY <1>2, FetchedFields DEF Fetched
<1>5. CASE q.request.state = "bad"
  <2> DEFINE v == _sendResponse(q, NoCgi, "page")
  <2>1. t = [v EXCEPT !.shouldClose = TRUE]
    BY <1>1, <1>5
  <2>2. v = _sendResponse(q, NoCgi, "page")
    OBVIOUS
  <2>3. NoCgi \in Environments /\ "page" \in Fail
    <3>1. NoCgi \in Environments
      BY DEF NoCgi, Made, NoRequest, Environments, Targets, Queries, Lengths
    <3> QED BY <3>1 DEF Fail
  <2> HIDE DEF v
  <2>4. /\ Typed(v) /\ Sending(v, q, NoCgi, "page")
        /\ SameBut(v, q, {"epolloutShouldOpen", "fails", "room", "answers"})
    BY <1>4, <2>2, <2>3, SendEffect
  <2>5. Typed(t)
    BY <2>1, <2>4 DEF Typed, Members
  <2>6. SameBut(t, v, {"shouldClose"}) /\ t.shouldClose = TRUE
    BY <2>1, <2>4 DEF Typed, Members, SameBut
  <2>7. SameBut(t, q, {"epolloutShouldOpen", "fails", "room", "answers", "shouldClose"})
    BY <2>4, <2>6 DEF SameBut
  <2>8. t.epolloutShouldOpen = v.epolloutShouldOpen /\ t.answers = v.answers /\ t.fails = v.fails
        /\ t.config = q.config /\ t.closed = q.closed
    BY <2>6, <2>7 DEF SameBut, Members
  <2>9. Sending(t, q, NoCgi, "page")
    BY <2>4, <2>8 DEF Sending
  <2>10. Good(u, m)
    BY <1>2, <1>5, <2>5, <2>6, <2>7, <2>9, Refused
  <2>11. Typed(u) /\ u.config = t.config /\ u.answers = t.answers
    BY <1>4, <2>5, <2>8, DelegateEffect, DelegatedFields
  <2>12. Grown(u, r)
    BY <1>4, <2>9, <2>11, SendingGrows DEF Grown
  <2> QED BY <1>3, <2>8, <2>10, <2>11, <2>12
<1>6. CASE q.request.state = "end"
  <2> DEFINE kind == IF q.epolloutShouldClose THEN "again" ELSE "page"
  <2>1. t = _delegateToHTTPAction(q, starts, kind)
    BY <1>1, <1>6
  <2>2. kind \in Fail
    BY DEF Fail
  <2> HIDE DEF kind
  <2>3. /\ Typed(t)
        /\ \/ /\ SameBut(t, q, {"cgi"})
              /\ t.cgi = _initEnv(q.request, q.config.route)
           \/ /\ SameBut(t, q, {"epolloutShouldOpen", "fails", "room", "answers", "request"})
              /\ Sending(t, q, Made(q.request, q.config.route), kind)
              /\ t.epolloutShouldOpen => t.request = q.request
              /\ ~t.epolloutShouldOpen => t.request = reset(q.request)
    BY <1>4, <2>1, <2>2, ActionEffect
  <2>4. t.config = q.config /\ t.closed = q.closed
    BY <2>3 DEF SameBut, Members
  <2>5. Typed(u) /\ u.config = t.config /\ u.answers = t.answers
    BY <1>4, <2>3, <2>4, DelegateEffect, DelegatedFields
  <2>6. CASE SameBut(t, q, {"cgi"}) /\ t.cgi = _initEnv(q.request, q.config.route)
    <3>1. Good(u, m)
      BY <1>2, <1>6, <2>3, <2>6, Started
    <3>2. t.answers = q.answers
      BY <2>6 DEF SameBut, Members
    <3>3. Grown(u, r)
      BY <1>4, <2>5, <3>2 DEF Grown
    <3> QED BY <1>3, <2>4, <2>5, <3>1, <3>3
  <2>7. CASE /\ SameBut(t, q, {"epolloutShouldOpen", "fails", "room", "answers", "request"})
             /\ Sending(t, q, Made(q.request, q.config.route), kind)
             /\ t.epolloutShouldOpen => t.request = q.request
             /\ ~t.epolloutShouldOpen => t.request = reset(q.request)
    <3>1. kind = IF q.epolloutShouldClose THEN "again" ELSE "page"
      BY DEF kind
    <3>4. Grown(u, r)
      BY <1>4, <2>5, <2>7, SendingGrows DEF Grown
    <3>2. CASE q.room = 0
      <4>1. /\ t.epolloutShouldOpen = TRUE /\ t.answers = q.answers /\ t.fails = q.fails \cup {kind}
        BY <2>7, <3>2 DEF Sending
      <4>2. t.request = q.request
        BY <2>7, <4>1
      <4>3. Good(u, m)
        BY <1>2, <1>6, <2>3, <2>7, <3>1, <3>2, <4>1, <4>2, Postponed
      <4> QED BY <1>3, <2>4, <2>5, <3>4, <4>3
    <3>3. CASE q.room # 0
      <4>1. ~t.epolloutShouldOpen
        BY <1>2, <2>7, <3>3, FetchedFields DEF Sending
      <4>2. t.request = reset(q.request)
        BY <2>7, <4>1
      <4>3. Good(u, m)
        BY <1>2, <1>6, <2>3, <2>7, <3>1, <3>3, <4>2, Answered
      <4> QED BY <1>3, <2>4, <2>5, <3>4, <4>3
    <3> QED BY <3>2, <3>3
  <2> QED BY <2>3, <2>6, <2>7
<1>7. CASE q.request.state \in Begun
  <2>1. t = q
    BY <1>1, <1>7 DEF Begun
  <2>2. Good(u, m)
    BY <1>2, <1>7, <2>1, Waiting
  <2>3. Typed(u) /\ u.config = q.config /\ u.answers = q.answers
    BY <1>4, <2>1, DelegateEffect, DelegatedFields
  <2>4. Grown(u, r)
    BY <1>4, <2>3 DEF Grown
  <2> QED BY <1>3, <2>2, <2>3, <2>4
<1>8. q.request.state \in Begun \/ q.request.state \in Final
  BY <1>2 DEF Fetched
<1> QED BY <1>5, <1>6, <1>7, <1>8 DEF Final

----------------------------------------------------------------------------
(* The second try.                                                         *)

\* An event of a connection on which nothing waits to be sent and no script runs.
LEMMA ReadyAtOnce ==
  ASSUME NEW h, NEW n \in Clients, Good(h, n), ~h.closed,
         NEW r, Typed(r), SameBut(r, h, {"edge"}), ~r.epolloutShouldOpen, r.cgi = NoCgi,
         NEW m \in Clients, ClientAfter(m, n, r, h)
  PROVE  Ready(r, m)
<1>1. /\ r.request = h.request /\ r.cgi = h.cgi /\ r.epolloutShouldOpen = h.epolloutShouldOpen
      /\ r.epolloutShouldClose = h.epolloutShouldClose /\ r.shouldClose = h.shouldClose
      /\ r.closed = h.closed /\ r.watchesCgi = h.watchesCgi /\ r.epollout = h.epollout
      /\ r.inbox = h.inbox /\ r.room = h.room /\ r.answers = h.answers /\ r.fails = h.fails
      /\ r.config = h.config
  BY DEF SameBut, Members
<1>2. /\ m.asked = n.asked /\ m.coming = n.coming /\ m.ended = n.ended /\ m.patient = n.patient
      /\ m.owed <=> n.owed
  BY <1>1 DEF ClientAfter
<1>3. Pipe(r, m) = Pipe(h, n) /\ Asked(m) = Asked(n)
  BY <1>1, <1>2 DEF Pipe, Asked
<1>4. HandlerInv(h, n) /\ OpenInv(h, n) /\ ~h.epolloutShouldOpen /\ h.cgi = NoCgi
  BY <1>1 DEF Good, HandlerInv
<1>5. ~r.shouldClose /\ ~r.closed /\ ~r.watchesCgi /\ ~r.epolloutShouldClose
  BY <1>1, <1>4 DEF OpenInv
<1>6. r.request.state \in Begun
  <2>1. r.request.state \in PieceKinds \cup {"none"}
    BY DEF Typed, Requests
  <2>2. r.request.state # "bad" /\ r.request.state # "end"
    BY <1>1, <1>4 DEF OpenInv
  <2> QED BY <2>1, <2>2 DEF PieceKinds, Begun
<1>7. Targeted(r.request, Asked(m))
  BY <1>1, <1>3, <1>4 DEF OpenInv, Targeted, InTarget
<1>8. InTarget(r.request) => r.config.route # NoRoute
  BY <1>1 DEF Good, HasLookedUp, InTarget
<1>9. PipeIsRight(Pipe(r, m), Asked(m), m.ended)
  BY <1>2, <1>3, <1>4 DEF OpenInv, PipeIsRight
<1>10. Cardinality(FirstTries(r.answers)) + Cardinality(Finals(Pipe(r, m)))
         + (IF r.request.state = "end" THEN 1 ELSE 0) <= Len(m.asked)
  BY <1>1, <1>2, <1>3, <1>4, <1>5, <1>6 DEF OpenInv, Begun
<1>11. r.fails = {} => OneAtATime(r, m) /\ AnswersAreCounted(r, m)
  <2> SUFFICES ASSUME r.fails = {} PROVE OneAtATime(r, m) /\ AnswersAreCounted(r, m)
    OBVIOUS
  <2>1. OneAtATime(h, n) /\ AnswersAreCounted(h, n)
    BY <1>1, <1>4 DEF HandlerInv
  <2>2. OneAtATime(r, m)
    <3>1. QueriesFor(m) = QueriesFor(n)
      BY <1>2 DEF QueriesFor
    <3> QED BY <1>1, <1>2, <1>3, <2>1, <3>1 DEF OneAtATime
  <2>3. (IF m.owed THEN 1 ELSE 0) = IF n.owed THEN 1 ELSE 0
    BY <1>2
  <2>4. AnswersAreCounted(r, m)
    BY <1>1, <1>2, <2>1, <2>3 DEF AnswersAreCounted
  <2> QED BY <2>2, <2>4
<1>12. AnswersRight(r, m)
  <2>1. AnswersRight(h, n)
    BY <1>4 DEF HandlerInv, AnswersRight
  <2> QED BY <1>1, <1>2, <2>1, AnswersKept
<1>13. r.fails \subseteq {"page"} =>
         ~r.epollout /\ (m.owed => Finals(m.coming) # {} \/ Finals(r.inbox) # {})
  <2> SUFFICES ASSUME r.fails \subseteq {"page"}
               PROVE  ~r.epollout /\ (m.owed => Finals(m.coming) # {} \/ Finals(r.inbox) # {})
    OBVIOUS
  <2>1. WokenInv(h, n)
    BY <1>1, <1>4 DEF HandlerInv
  <2>2. ~h.epollout
    BY <1>4, <2>1 DEF WokenInv
  <2>3. n.owed => Finals(n.coming) # {} \/ Finals(h.inbox) # {}
    BY <1>1, <1>5, <2>1, <2>2 DEF WokenInv
  <2> QED BY <1>1, <1>2, <2>2, <2>3
<1>14. Served(r, m)
  BY <1>1, <1>2 DEF Good, Served
<1>15. r.request.state # "end"
  BY <1>6 DEF Begun
<1> QED BY <1>1, <1>5, <1>6, <1>7, <1>8, <1>9, <1>10, <1>11, <1>12, <1>13, <1>14, <1>15
        DEF Ready, AnswersRight

\* An event while a script runs changes nothing.
LEMMA ScriptGoesOn ==
  ASSUME NEW h, NEW n \in Clients, Good(h, n), ~h.closed,
         NEW r, Typed(r), SameBut(r, h, {"edge"}), ~r.epolloutShouldOpen, r.cgi # NoCgi,
         NEW m \in Clients, ClientAfter(m, n, r, h)
  PROVE  Good(r, m)
<1>1. /\ r.request = h.request /\ r.cgi = h.cgi /\ r.epolloutShouldOpen = h.epolloutShouldOpen
      /\ r.epolloutShouldClose = h.epolloutShouldClose /\ r.shouldClose = h.shouldClose
      /\ r.closed = h.closed /\ r.watchesCgi = h.watchesCgi /\ r.epollout = h.epollout
      /\ r.inbox = h.inbox /\ r.room = h.room /\ r.answers = h.answers /\ r.fails = h.fails
      /\ r.config = h.config
  BY DEF SameBut, Members
<1>2. /\ m.asked = n.asked /\ m.coming = n.coming /\ m.ended = n.ended /\ m.patient = n.patient
      /\ m.owed <=> n.owed
  BY <1>1 DEF ClientAfter
<1>3. Pipe(r, m) = Pipe(h, n) /\ Asked(m) = Asked(n) /\ QueriesFor(m) = QueriesFor(n)
  BY <1>1, <1>2 DEF Pipe, Asked, QueriesFor
<1>4. HandlerInv(h, n) /\ OpenInv(h, n) /\ ~h.epolloutShouldOpen
  BY <1>1 DEF Good, HandlerInv
<1>5. OpenInv(r, m)
  BY <1>1, <1>2, <1>3, <1>4 DEF OpenInv
<1>6. r.fails \subseteq {"page"} => WokenInv(r, m)
  <2> SUFFICES ASSUME r.fails \subseteq {"page"} PROVE WokenInv(r, m)
    OBVIOUS
  <2>1. WokenInv(h, n)
    BY <1>1, <1>4 DEF HandlerInv
  <2>2. h.watchesCgi /\ ~h.epollout
    BY <1>1, <1>4, <2>1 DEF WokenInv
  <2>3. r.epollout = r.epolloutShouldOpen
    BY <1>1, <2>1 DEF WokenInv
  <2> QED BY <1>1, <2>2, <2>3 DEF WokenInv
<1>7. r.fails = {} => OneAtATime(r, m)
  BY <1>1, <1>2, <1>3, <1>4 DEF HandlerInv, OneAtATime
<1>8. r.fails = {} => AnswersAreCounted(r, m)
  <2>1. (IF m.owed THEN 1 ELSE 0) = IF n.owed THEN 1 ELSE 0
    BY <1>2
  <2> QED BY <1>1, <1>2, <1>4, <2>1 DEF HandlerInv, AnswersAreCounted
<1>9. AnswersRight(r, m)
  <2>1. AnswersRight(h, n)
    BY <1>4 DEF HandlerInv, AnswersRight
  <2> QED BY <1>1, <1>2, <2>1, AnswersKept
<1>10. ScriptsGetTheirRequest(r, m)
  BY <1>1, <1>2, <1>3, <1>4 DEF HandlerInv, ScriptsGetTheirRequest
<1>11. HandlerInv(r, m)
  BY <1>5, <1>6, <1>7, <1>8, <1>9, <1>10 DEF HandlerInv, AnswersRight
<1>12. Served(r, m)
  BY <1>1, <1>2 DEF Good, Served
<1>13. HasLookedUp(r) => r.config.route # NoRoute
  BY <1>1 DEF Good, HasLookedUp
<1> QED BY <1>1, <1>11, <1>12, <1>13 DEF Good, CutOff

\* A connection whose answer is to be sent again.
Pending(h, n) ==
  /\ OpenInv(h, n) /\ ~h.closed /\ h.epolloutShouldOpen /\ h.cgi = NoCgi /\ ~h.watchesCgi
  /\ h.fails # {} /\ ~n.patient /\ h.config.route # NoRoute /\ AnswersRight(h, n)

LEMMA PendingIs ==
  ASSUME NEW h, NEW n, Good(h, n), ~h.closed, h.epolloutShouldOpen
  PROVE  Pending(h, n)
<1>1. HandlerInv(h, n) /\ OpenInv(h, n) /\ AnswersRight(h, n)
  BY DEF Good, HandlerInv, AnswersRight
<1>2. h.cgi = NoCgi /\ ~h.watchesCgi
  BY <1>1 DEF OpenInv
<1>3. h.fails # {}
  BY <1>1 DEF HandlerInv, OneAtATime
<1>4. ~n.patient
  BY <1>3 DEF Good, Served
<1>5. h.config.route # NoRoute
  BY DEF Good, HasLookedUp
<1> QED BY <1>1, <1>2, <1>3, <1>4, <1>5 DEF Pending

LEMMA FirstTriesAreFinite ==
  ASSUME NEW answers, Len(answers) \in Nat
  PROVE  Cardinality(FirstTries(answers)) \in Nat
<1>1. FirstTries(answers) \in SUBSET (1..Len(answers))
  BY DEF FirstTries
<1>2. IsFiniteSet(1..Len(answers))
  BY FS_Interval
<1>3. IsFiniteSet(FirstTries(answers))
  BY <1>1, <1>2, FS_Subset
<1> QED BY <1>3, FS_CardinalityType

\* The second try starts a script, which the server does not hear of (Retry).
LEMMA TriedWithScript ==
  ASSUME NEW h, NEW n \in Clients, Pending(h, n), h.answers \in Seq(Answers),
         h.inbox \in Seq(Flow),
         NEW r, SameBut(r, h, {"edge", "cgi", "epolloutShouldOpen", "epolloutShouldClose", "fails"}),
         r.cgi # NoCgi, ~r.epolloutShouldOpen, r.fails = h.fails \cup {"again"},
         NEW m, ClientAfter(m, n, r, h)
  PROVE  Good(r, m)
<1>1. /\ r.request = h.request /\ r.shouldClose = h.shouldClose
      /\ r.closed = h.closed /\ r.watchesCgi = h.watchesCgi
      /\ r.inbox = h.inbox /\ r.answers = h.answers /\ r.config = h.config
  BY DEF SameBut, Members
<1>2. m.asked = n.asked /\ m.coming = n.coming /\ m.ended = n.ended /\ m.patient = n.patient
  BY DEF ClientAfter
<1>3. Pipe(r, m) = Pipe(h, n) /\ Asked(m) = Asked(n)
  BY <1>1, <1>2 DEF Pipe, Asked
<1>4. r.fails # {} /\ ~(r.fails \subseteq {"page"})
  <2>1. "again" \in r.fails /\ "again" \notin {"page"}
    OBVIOUS
  <2> QED BY <2>1
<1>5. /\ PipeIsRight(Pipe(r, m), Asked(m), m.ended)
      /\ Cardinality(FirstTries(r.answers)) + Cardinality(Finals(Pipe(r, m))) + 1 <= Len(m.asked)
  BY <1>1, <1>2, <1>3 DEF Pending, OpenInv, PipeIsRight
<1>6. Cardinality(FirstTries(r.answers)) + Cardinality(Finals(Pipe(r, m))) + 0 <= Len(m.asked)
  <2>1. Cardinality(FirstTries(r.answers)) \in Nat /\ Len(m.asked) \in Nat
    <3>1. Len(r.answers) \in Nat
      BY <1>1
    <3> QED BY <1>2, <3>1, FirstTriesAreFinite DEF Clients
  <2>2. Cardinality(Finals(Pipe(r, m))) \in Nat
    <3>1. Len(Pipe(r, m)) \in Nat
      BY <1>1, <1>2 DEF Pipe, Clients
    <3> QED BY <3>1, FinalsAreFinite
  <2> QED BY <1>5, <2>1, <2>2
<1>7. OpenInv(r, m)
  BY <1>1, <1>3, <1>5, <1>6 DEF Pending, OpenInv, PipeIsRight
<1>8. AnswersRight(r, m)
  BY <1>1, <1>2, AnswersKept DEF Pending
<1>9. HandlerInv(r, m)
  BY <1>1, <1>4, <1>7, <1>8 DEF HandlerInv, AnswersRight, ScriptsGetTheirRequest, Pending
<1> QED BY <1>1, <1>2, <1>9 DEF Good, CutOff, Served, Pending

\* The second try sends the answer, or fails too: in either case nothing more is waited
\* for, and the request stays what it is (Retry).
LEMMA TriedWithAnswer ==
  ASSUME NEW h, NEW n \in Clients, Pending(h, n), Typed(h),
         NEW r, Typed(r),
         SameBut(r, h, {"edge", "epolloutShouldOpen", "epolloutShouldClose", "fails",
                        "room", "answers"}),
         ~r.epolloutShouldOpen, r.epolloutShouldClose,
         \/ r.answers = h.answers /\ r.fails = h.fails \cup {"again"}
         \/ /\ r.fails = h.fails
            /\ \E a \in Answers : /\ r.answers = Append(h.answers, a)
                                  /\ a.kind = "again" /\ a.target = h.request.target,
         NEW m \in Clients, ClientAfter(m, n, r, h)
  PROVE  Ready(r, m)
<1>1. /\ r.request = h.request /\ r.cgi = h.cgi /\ r.shouldClose = h.shouldClose
      /\ r.closed = h.closed /\ r.watchesCgi = h.watchesCgi
      /\ r.inbox = h.inbox /\ r.config = h.config
  BY DEF SameBut, Members
<1>2. m.asked = n.asked /\ m.coming = n.coming /\ m.ended = n.ended /\ m.patient = n.patient
  BY DEF ClientAfter
<1>3. Pipe(r, m) = Pipe(h, n) /\ Asked(m) = Asked(n)
  BY <1>1, <1>2 DEF Pipe, Asked
<1>4. OpenInv(h, n) /\ AnswersRight(h, n) /\ h.fails # {} /\ ~n.patient /\ h.config.route # NoRoute
      /\ h.epolloutShouldOpen
  BY DEF Pending
<1>5. r.cgi = NoCgi /\ ~r.watchesCgi /\ ~r.shouldClose /\ ~r.closed
  BY <1>1 DEF Pending, OpenInv
<1>6. /\ r.request.state \in {"none", "end"}
      /\ \/ h.request.target \in Asked(n)
         \/ h.request.target = <<>> /\ "cgi" \in h.fails
  BY <1>1, <1>4 DEF OpenInv
<1>7. Targeted(r.request, Asked(m))
  BY <1>1, <1>3, <1>4 DEF OpenInv, Targeted, InTarget
<1>8. PipeIsRight(Pipe(r, m), Asked(m), m.ended)
  BY <1>2, <1>3, <1>4 DEF OpenInv, PipeIsRight
<1>9. r.fails # {}
  BY <1>4
<1>10. /\ h.answers \in Seq(Answers) /\ Len(h.answers) \in Nat /\ Len(m.asked) \in Nat
       /\ Cardinality(Finals(Pipe(r, m))) \in Nat
       /\ Cardinality(FirstTries(h.answers)) \in Nat
  <2>1. h.answers \in Seq(Answers) /\ r.inbox \in Seq(Flow)
    BY DEF Typed, Flow
  <2>2. Len(h.answers) \in Nat
    BY <2>1
  <2>3. m.coming \in Seq(Flow) /\ Len(m.asked) \in Nat
    BY DEF Clients, Flow
  <2>4. Len(Pipe(r, m)) \in Nat
    <3>1. ASSUME NEW C, NEW v \in Seq(C), NEW w \in Seq(C) PROVE Len(v \o w) \in Nat
      OBVIOUS
    <3> QED BY ONLY <2>1, <2>3, <3>1 DEF Pipe
  <2> QED BY <2>1, <2>2, <2>3, <2>4, FinalsAreFinite, FirstTriesAreFinite
<1>11. Cardinality(FirstTries(h.answers)) + Cardinality(Finals(Pipe(r, m))) + 1 <= Len(m.asked)
  BY <1>2, <1>3, <1>4 DEF OpenInv
<1>12. /\ Cardinality(FirstTries(r.answers)) = Cardinality(FirstTries(h.answers))
       /\ AnswersRight(r, m)
       /\ r.fails \subseteq {"page"} => ~m.owed
  <2>1. CASE r.answers = h.answers /\ r.fails = h.fails \cup {"again"}
    <3>1. AnswersRight(r, m)
      BY <1>1, <1>2, <1>4, <2>1, AnswersKept
    <3>2. "again" \in r.fails /\ "again" \notin {"page"}
      BY <2>1
    <3> QED BY <2>1, <3>1, <3>2
  <2>2. CASE /\ r.fails = h.fails
             /\ \E a \in Answers : /\ r.answers = Append(h.answers, a)
                                   /\ a.kind = "again" /\ a.target = h.request.target
    <3>1. PICK a \in Answers : /\ r.answers = Append(h.answers, a)
                               /\ a.kind = "again" /\ a.target = h.request.target
      BY <2>2
    <3>2. /\ Cardinality(FirstTries(Append(h.answers, a))) =
               Cardinality(FirstTries(h.answers)) + 0
          /\ Len(r.answers) = Len(h.answers) + 1
      BY <1>10, <3>1, TriesOfAppend
    <3>3. Cardinality(FirstTries(r.answers)) = Cardinality(FirstTries(h.answers))
      BY <1>10, <3>1, <3>2
    <3>4. Cardinality(FirstTries(Append(h.answers, a))) <= Len(n.asked)
      BY <1>2, <1>10, <1>11, <3>1, <3>3
    <3>5. AnswersRight(r, m)
      <4>1. \/ a.target \in Asked(n) /\ a.kind = "again"
            \/ a.target = <<>> /\ a.kind = "again" /\ "cgi" \in h.fails
        BY <1>6, <3>1
      <4> QED BY <1>1, <1>2, <1>4, <1>10, <2>2, <3>1, <3>4, <4>1, AnswerAdded
    <3>6. ~m.owed
      BY <1>10, <3>2 DEF ClientAfter
    <3> QED BY <3>3, <3>5, <3>6
  <2> QED BY <2>1, <2>2
<1>13. Cardinality(FirstTries(r.answers)) + Cardinality(Finals(Pipe(r, m)))
         + (IF r.request.state = "end" THEN 1 ELSE 0) <= Len(m.asked)
  <2>1. Cardinality(FirstTries(r.answers)) + Cardinality(Finals(Pipe(r, m))) + 1 <= Len(m.asked)
    BY <1>11, <1>12
  <2>2. Cardinality(FirstTries(r.answers)) + Cardinality(Finals(Pipe(r, m))) + 0 <= Len(m.asked)
    BY <1>10, <1>12, <2>1
  <2> QED BY <2>1, <2>2
<1>14. Served(r, m)
  BY <1>2, <1>4 DEF Served
<1>15. r.request.state \in Begun \cup {"end"}
  BY <1>6 DEF Begun
<1> QED BY <1>1, <1>4, <1>5, <1>7, <1>8, <1>9, <1>12, <1>13, <1>14, <1>15 DEF Ready, AnswersRight

\* The branch for a socket that has room again, or none of it (Retry).
LEMMA Retried ==
  ASSUME NEW h, NEW n \in Clients, Good(h, n), ~h.closed, Typed(h),
         NEW s, Typed(s), SameBut(s, h, {"edge"}), NEW starts \in BOOLEAN,
         NEW r, r = Retry(s, starts), NEW m \in Clients, ClientAfter(m, n, r, h)
  PROVE  /\ Typed(r) /\ r.config = h.config /\ Grown(r, h)
         /\ r.cgi # NoCgi => Good(r, m)
         /\ r.cgi = NoCgi => Ready(r, m)
<1> DEFINE t == _delegateToHTTPAction(s, starts, "again")
           fs == t.fails \cup (IF t.cgi = NoCgi THEN {} ELSE {"again"})
<1>1. /\ s.request = h.request /\ s.cgi = h.cgi /\ s.epolloutShouldOpen = h.epolloutShouldOpen
      /\ s.answers = h.answers /\ s.fails = h.fails /\ s.config = h.config
      /\ s.room = h.room
  BY DEF SameBut, Members
<1>2. /\ ~s.epolloutShouldOpen => r = s
      /\ s.epolloutShouldOpen =>
           r = [t EXCEPT !.epolloutShouldOpen = FALSE, !.epolloutShouldClose = TRUE, !.fails = fs]
  BY DEF Retry
<1>3. h.answers \in Seq(Answers) /\ Len(h.answers) \in Nat
  BY DEF Typed
<1>4. CASE ~s.epolloutShouldOpen
  <2>1. r = s
    BY <1>2, <1>4
  <2>2. r.cgi # NoCgi => Good(r, m)
    BY <1>4, <2>1, ScriptGoesOn
  <2>3. r.cgi = NoCgi => Ready(r, m)
    BY <1>4, <2>1, ReadyAtOnce
  <2> QED BY <1>1, <1>3, <2>1, <2>2, <2>3 DEF Grown
<1>5. CASE s.epolloutShouldOpen
  <2>1. Pending(h, n)
    BY <1>1, <1>5, PendingIs
  <2>2. t = _delegateToHTTPAction(s, starts, "again") /\ "again" \in Fail
    BY DEF Fail
  <2>3. r = [t EXCEPT !.epolloutShouldOpen = FALSE, !.epolloutShouldClose = TRUE, !.fails = fs]
    BY <1>2, <1>5
  <2> HIDE DEF t
  <2>4. /\ Typed(t)
        /\ \/ /\ SameBut(t, s, {"cgi"})
              /\ t.cgi = _initEnv(s.request, s.config.route)
           \/ /\ SameBut(t, s, {"epolloutShouldOpen", "fails", "room", "answers", "request"})
              /\ Sending(t, s, Made(s.request, s.config.route), "again")
              /\ t.epolloutShouldOpen => t.request = s.request
    BY <2>2, ActionEffect
  <2>5. fs \in SUBSET Fail
    BY <2>4 DEF Typed, Fail
  <2>6. fs = IF t.cgi = NoCgi THEN t.fails ELSE t.fails \cup {"again"}
    OBVIOUS
  <2> HIDE DEF fs
  <2>7. Typed(r)
    BY <2>3, <2>4, <2>5 DEF Typed, Members
  <2>8. /\ SameBut(r, t, {"epolloutShouldOpen", "epolloutShouldClose", "fails"})
        /\ r.epolloutShouldOpen = FALSE /\ r.epolloutShouldClose = TRUE /\ r.fails = fs
    BY <2>3, <2>4 DEF Typed, Members, SameBut
  <2>9. r.cgi = t.cgi /\ r.answers = t.answers /\ r.config = t.config /\ r.request = t.request
    BY <2>8 DEF SameBut, Members
  <2>10. CASE SameBut(t, s, {"cgi"}) /\ t.cgi = _initEnv(s.request, s.config.route)
    <3>1. t.cgi.route # NoRoute
      BY <1>1, <2>1, <2>10 DEF Pending, _initEnv, Made
    <3>2. t.cgi # NoCgi
      BY <3>1 DEF NoCgi, Made
    <3>3. t.answers = h.answers /\ t.config = h.config /\ t.fails = h.fails
      BY <1>1, <2>10 DEF SameBut, Members
    <3>4. SameBut(r, h, {"edge", "cgi", "epolloutShouldOpen", "epolloutShouldClose", "fails"})
      BY <2>8, <2>10 DEF SameBut
    <3>5. h.inbox \in Seq(Flow)
      BY DEF Typed, Flow
    <3>6. r.fails = h.fails \cup {"again"} /\ ~r.epolloutShouldOpen
      BY <2>6, <2>8, <3>2, <3>3
    <3>7. Good(r, m)
      BY <1>3, <2>1, <2>9, <3>2, <3>4, <3>5, <3>6, TriedWithScript
    <3> QED BY <1>3, <2>7, <2>9, <3>2, <3>3, <3>7 DEF Grown
  <2>11. CASE /\ SameBut(t, s, {"epolloutShouldOpen", "fails", "room", "answers", "request"})
              /\ Sending(t, s, Made(s.request, s.config.route), "again")
              /\ t.epolloutShouldOpen => t.request = s.request
    <3> DEFINE made == Made(s.request, s.config.route)
    <3>1. t.epolloutShouldOpen
      BY <1>5, <2>11 DEF Sending
    <3>2. t.request = h.request /\ t.cgi = h.cgi /\ t.config = h.config
      BY <1>1, <2>11, <3>1 DEF SameBut, Members
    <3>3. t.cgi = NoCgi
      BY <2>1, <3>2 DEF Pending
    <3>4. SameBut(t, s, {"epolloutShouldOpen", "fails", "room", "answers"})
      BY <1>1, <2>11, <3>2 DEF SameBut, Members
    <3>5. SameBut(r, h, {"edge", "epolloutShouldOpen", "epolloutShouldClose", "fails",
                         "room", "answers"})
      BY <2>8, <3>4 DEF SameBut
    <3>6. r.fails = t.fails /\ ~r.epolloutShouldOpen /\ r.epolloutShouldClose
      BY <2>6, <2>8, <3>3
    <3>7. made \in Environments /\ made.target = h.request.target
      <4>1. s.request \in Requests /\ s.config.route \in Routes \cup {NoRoute}
        BY RouteIsKnown DEF Typed
      <4> QED BY <1>1, <4>1, MadeIsTyped DEF Made
    <3> HIDE DEF made
    <3>8. /\ \/ r.answers = h.answers /\ r.fails = h.fails \cup {"again"}
             \/ /\ r.fails = h.fails
                /\ \E a \in Answers : /\ r.answers = Append(h.answers, a)
                                      /\ a.kind = "again" /\ a.target = h.request.target
          /\ Grown(r, h)
      <4>1. CASE s.room = 0
        <5>1. r.answers = h.answers /\ r.fails = h.fails \cup {"again"}
          BY <1>1, <2>9, <2>11, <3>6, <4>1 DEF Sending
        <5> QED BY <1>3, <5>1 DEF Grown
      <4>2. CASE s.room # 0
        <5>1. PICK j \in 1..s.room : t.answers = Append(s.answers, Answer(made, "again", j))
          BY <2>11, <4>2 DEF Sending, made
        <5> DEFINE a == Answer(made, "again", j)
        <5>2. a \in Answers /\ a.kind = "again" /\ a.target = h.request.target
          BY <2>2, <3>7, AnswerIsTyped
        <5> HIDE DEF a
        <5>3. r.answers = Append(h.answers, a) /\ r.fails = h.fails
          BY <1>1, <2>9, <2>11, <3>6, <4>2, <5>1 DEF Sending, a
        <5>4. Len(r.answers) = Len(h.answers) + 1
          BY <1>3, <5>2, <5>3, TriesOfAppend
        <5>5. Grown(r, h)
          BY <1>3, <5>4 DEF Grown
        <5> QED BY <5>2, <5>3, <5>5
      <4> QED BY <4>1, <4>2
    <3>9. Ready(r, m)
      BY <2>1, <2>7, <3>5, <3>6, <3>8, TriedWithAnswer
    <3> QED BY <2>7, <2>9, <3>2, <3>3, <3>8, <3>9
  <2> QED BY <2>4, <2>10, <2>11
<1> QED BY <1>4, <1>5

----------------------------------------------------------------------------
(* The end of a script, the network, the client.                           *)

\* The server learns that the script has ended, and sends what it has written
\* (sendCgiResponse).
LEMMA ScriptIsAnswered ==
  ASSUME NEW h, Typed(h), NEW n \in Clients, Good(h, n), ~h.closed, h.watchesCgi,
         NEW v, v = _sendResponse(h, h.cgi, "cgi"),
         NEW t, Typed(t), SameBut(t, v, {"cgi", "watchesCgi", "request"}),
         t.cgi = NoCgi, ~t.watchesCgi, t.request = reset(h.request),
         NEW m, ClientAfter(m, n, t, h)
  PROVE  Good(t, m)
<1> DEFINE last == Last(n.asked)
<1>1. HandlerInv(h, n) /\ OpenInv(h, n) /\ AnswersRight(h, n) /\ Served(h, n)
  BY DEF Good, HandlerInv, AnswersRight
<1>2. /\ ~h.epolloutShouldOpen /\ ~h.epolloutShouldClose /\ ~h.shouldClose
      /\ h.cgi.target \in Asked(n) /\ h.cgi.route = _findRoute(h.cgi.target)
      /\ h.cgi.route # NoRoute
  BY <1>1, FindRouteFinds DEF OpenInv
<1>3. h.cgi \in Environments /\ "cgi" \in Fail /\ h.request \in Requests
  BY DEF Typed, Fail
<1>4. /\ Sending(v, h, h.cgi, "cgi")
      /\ SameBut(v, h, {"epolloutShouldOpen", "fails", "room", "answers"})
  BY <1>3, SendEffect
<1>5. /\ t.answers = v.answers /\ t.fails = v.fails /\ t.epolloutShouldOpen = v.epolloutShouldOpen
      /\ t.room = v.room /\ t.closed = h.closed /\ t.shouldClose = h.shouldClose
      /\ t.epolloutShouldClose = h.epolloutShouldClose /\ t.epollout = h.epollout
      /\ t.edge = h.edge /\ t.inbox = h.inbox /\ t.config = h.config
  BY <1>4 DEF SameBut, Members
<1>6. /\ t.request.state = "none" /\ t.request.close = FALSE /\ t.request.target = <<>>
      /\ t.request.query = h.request.query
  BY <1>3, ResetIsTyped
<1>7. /\ m.asked = n.asked /\ m.coming = n.coming /\ m.ended = n.ended /\ m.patient = n.patient
  BY DEF ClientAfter
<1>8. Pipe(t, m) = Pipe(h, n) /\ Asked(m) = Asked(n) /\ Kept(m) = Kept(n)
  BY <1>5, <1>7 DEF Pipe, Asked, Kept
<1>9. /\ h.answers \in Seq(Answers) /\ Len(h.answers) \in Nat /\ Len(n.asked) \in Nat
      /\ Cardinality(Finals(Pipe(h, n))) \in Nat
      /\ Cardinality(FirstTries(h.answers)) \in Nat
  <2>1. h.answers \in Seq(Answers) /\ h.inbox \in Seq(Flow)
    BY DEF Typed, Flow
  <2>2. Len(h.answers) \in Nat
    BY <2>1
  <2>3. n.coming \in Seq(Flow) /\ Len(n.asked) \in Nat
    BY DEF Clients, Flow
  <2>4. Len(Pipe(h, n)) \in Nat
    <3>1. ASSUME NEW C, NEW x \in Seq(C), NEW w \in Seq(C) PROVE Len(x \o w) \in Nat
      OBVIOUS
    <3> QED BY ONLY <2>1, <2>3, <3>1 DEF Pipe
  <2> QED BY <2>1, <2>2, <2>3, <2>4, FinalsAreFinite, FirstTriesAreFinite
<1>10. /\ PipeIsRight(Pipe(h, n), Asked(n), n.ended)
       /\ Cardinality(FirstTries(h.answers)) + Cardinality(Finals(Pipe(h, n))) + 1 <= Len(n.asked)
  BY <1>1 DEF OpenInv, PipeIsRight
<1>11. ASSUME h.fails = {}
       PROVE  /\ OneAtATime(h, n) /\ n.owed /\ last.kind \in Final
              /\ Len(n.asked) = Len(h.answers) + 1 /\ last = n.asked[Len(h.answers) + 1]
              /\ h.cgi.target = Plain(last.path) /\ ~(last.length > LimitOf(last.path))
  <2>1. OneAtATime(h, n) /\ AnswersAreCounted(h, n) /\ ScriptsGetTheirRequest(h, n)
    BY <1>1, <1>11 DEF HandlerInv
  <2>2. n.owed /\ h.request.state = "end"
    BY <2>1 DEF OneAtATime
  <2>3. ~(last.length > LimitOf(last.path))
    BY <2>1, <2>2 DEF OneAtATime
  <2>4. h.cgi.target = Plain(last.path)
    BY <1>11, <2>1 DEF ScriptsGetTheirRequest
  <2> QED BY <1>9, <2>1, <2>2, <2>3, <2>4, LastIsAPiece
<1>12. n.patient => h.room = Room
  BY <1>1, <1>11 DEF Served, OneAtATime
<1>13. Served(t, m)
  <2>1. Served(v, m)
    BY <1>1, <1>3, <1>4, <1>7, <1>12, SendingServes
  <2> QED BY <1>5, <2>1 DEF Served
<1>14. h.config.route # NoRoute
  BY DEF Good, HasLookedUp
<1>15. CASE h.room = 0
  <2>1. t.epolloutShouldOpen = TRUE /\ t.answers = h.answers /\ t.fails = h.fails \cup {"cgi"}
    BY <1>4, <1>5, <1>15 DEF Sending
  <2>2. "cgi" \in t.fails /\ "cgi" \notin {"page"}
    BY <2>1
  <2>3. t.fails # {} /\ ~(t.fails \subseteq {"page"})
    BY <2>2
  <2>4. OpenInv(t, m)
    BY <1>2, <1>5, <1>6, <1>7, <1>8, <1>10, <2>1, <2>2 DEF OpenInv, PipeIsRight
  <2>5. AnswersRight(t, m)
    BY <1>1, <1>7, <2>1, AnswersKept
  <2>6. HandlerInv(t, m)
    BY <2>3, <2>4, <2>5 DEF HandlerInv, AnswersRight, ScriptsGetTheirRequest
  <2> QED BY <1>5, <1>13, <1>14, <2>6 DEF Good, CutOff
<1>16. CASE h.room # 0
  <2>1. PICK j \in 1..h.room : t.answers = Append(h.answers, Answer(h.cgi, "cgi", j))
    BY <1>4, <1>5, <1>16 DEF Sending
  <2>2. ~t.epolloutShouldOpen /\ t.fails = h.fails
    BY <1>2, <1>4, <1>5, <1>16 DEF Sending
  <2> DEFINE a == Answer(h.cgi, "cgi", j)
  <2>3. /\ a \in Answers /\ a.route = h.cgi.route /\ a.kind = "cgi" /\ a.target = h.cgi.target
    BY <1>3, AnswerIsTyped
  <2> HIDE DEF a
  <2>4. t.answers = Append(h.answers, a)
    BY <2>1 DEF a
  <2>5. /\ Cardinality(FirstTries(t.answers)) \in Nat
        /\ Cardinality(FirstTries(t.answers)) = Cardinality(FirstTries(h.answers)) + 1
        /\ Len(t.answers) = Len(h.answers) + 1
    BY <1>9, <2>3, <2>4, TriesOfAppend
  <2>6. ~m.owed
    BY <1>9, <2>5 DEF ClientAfter
  <2>7. /\ Cardinality(FirstTries(t.answers)) <= Len(n.asked)
        /\ Cardinality(FirstTries(t.answers)) + Cardinality(Finals(Pipe(h, n))) + 0 <= Len(n.asked)
    BY <1>9, <1>10, <2>5
  <2>8. ~IsError(a)
    BY <1>2, <2>3 DEF IsError
  <2>9. AnswersRight(t, m)
    <3>1. a.target \in Asked(n) /\ a.route = _findRoute(a.target)
      BY <1>2, <2>3
    <3>2. ASSUME h.fails = {}
          PROVE  /\ Len(n.asked) = Len(h.answers) + 1
                 /\ a.target = Plain(n.asked[Len(h.answers) + 1].path)
                 /\ ~(n.asked[Len(h.answers) + 1].length > LimitOf(n.asked[Len(h.answers) + 1].path))
      BY <1>11, <2>3, <3>2
    <3>3. Cardinality(FirstTries(Append(h.answers, a))) <= Len(n.asked)
      BY <2>4, <2>7
    <3> QED BY <1>1, <1>7, <1>9, <2>2, <2>3, <2>4, <2>8, <3>1, <3>2, <3>3, AnswerAdded
  <2>10. OpenInv(t, m)
    BY <1>2, <1>5, <1>6, <1>7, <1>8, <1>10, <2>2, <2>7 DEF OpenInv, PipeIsRight
  <2>11. t.fails \subseteq {"page"} => WokenInv(t, m)
    <3> SUFFICES ASSUME t.fails \subseteq {"page"} PROVE WokenInv(t, m)
      OBVIOUS
    <3>1. WokenInv(h, n)
      BY <1>1, <2>2 DEF HandlerInv
    <3>2. ~h.epollout
      BY <1>2, <3>1 DEF WokenInv
    <3>3. t.epolloutShouldOpen = h.epolloutShouldOpen
      BY <1>4, <1>5, <1>16 DEF Sending
    <3>4. t.epollout = t.epolloutShouldOpen
      BY <1>5, <3>1, <3>3 DEF WokenInv
    <3> QED BY <1>5, <2>6, <3>2, <3>4 DEF WokenInv
  <2>12. t.fails = {} => OneAtATime(t, m)
    <3> SUFFICES ASSUME t.fails = {} PROVE OneAtATime(t, m)
      OBVIOUS
    <3>1. OneAtATime(h, n)
      BY <1>11, <2>2
    <3>2. Silent(Pipe(h, n)) /\ h.request.query \in Kept(n)
      BY <3>1 DEF OneAtATime, Kept
    <3> QED BY <1>6, <1>8, <2>2, <2>6, <3>2 DEF OneAtATime, Kept
  <2>13. t.fails = {} => AnswersAreCounted(t, m)
    <3> SUFFICES ASSUME t.fails = {} PROVE Len(m.asked) = Len(t.answers) + (IF m.owed THEN 1 ELSE 0)
      BY DEF AnswersAreCounted
    <3>1. Len(n.asked) = Len(h.answers) + 1
      BY <1>11, <2>2
    <3> QED BY <1>7, <1>9, <2>5, <2>6, <3>1
  <2>14. HandlerInv(t, m)
    BY <2>9, <2>10, <2>11, <2>12, <2>13 DEF HandlerInv, AnswersRight, ScriptsGetTheirRequest
  <2> QED BY <1>13, <1>14, <1>5, <2>6, <2>14 DEF Good, CutOff
<1> QED BY <1>15, <1>16

\* What does not depend on the wakeups: what else a step leaves alone.
LEMMA HandlerStays ==
  ASSUME NEW h, NEW n, HandlerInv(h, n), NEW g, NEW m,
         SameBut(g, h, {"config", "edge", "room", "inbox"}),
         m.asked = n.asked, m.owed <=> n.owed, m.ended <=> n.ended, m.patient <=> n.patient,
         Pipe(g, m) = Pipe(h, n), h.room = Room => g.room = Room,
         ~h.closed /\ h.fails \subseteq {"page"} /\ WokenInv(h, n) => WokenInv(g, m)
  PROVE  HandlerInv(g, m)
<1>1. /\ g.request = h.request /\ g.cgi = h.cgi /\ g.epolloutShouldOpen = h.epolloutShouldOpen
      /\ g.epolloutShouldClose = h.epolloutShouldClose /\ g.shouldClose = h.shouldClose
      /\ g.closed = h.closed /\ g.watchesCgi = h.watchesCgi /\ g.epollout = h.epollout
      /\ g.answers = h.answers /\ g.fails = h.fails
  BY DEF SameBut, Members
<1>2. Asked(m) = Asked(n) /\ QueriesFor(m) = QueriesFor(n)
  BY DEF Asked, QueriesFor
<1>3. ~g.closed => OpenInv(g, m)
  BY <1>1, <1>2 DEF HandlerInv, OpenInv
<1>4. ~g.closed /\ g.fails \subseteq {"page"} => WokenInv(g, m)
  BY <1>1 DEF HandlerInv
<1>5. ~g.closed /\ g.fails = {} => OneAtATime(g, m)
  BY <1>1, <1>2 DEF HandlerInv, OneAtATime
<1>6. g.fails = {} => AnswersAreCounted(g, m)
  <2>1. (IF m.owed THEN 1 ELSE 0) = IF n.owed THEN 1 ELSE 0
    OBVIOUS
  <2> QED BY <1>1, <2>1 DEF HandlerInv, AnswersAreCounted
<1>7. AnswersRight(g, m)
  <2>1. AnswersRight(h, n)
    BY DEF HandlerInv, AnswersRight
  <2> QED BY <1>1, <2>1, AnswersKept
<1>8. ScriptsGetTheirRequest(g, m)
  BY <1>1, <1>2 DEF HandlerInv, ScriptsGetTheirRequest
<1> QED BY <1>3, <1>4, <1>5, <1>6, <1>7, <1>8 DEF HandlerInv, AnswersRight

\* A message is a sequence of pieces (ConnectionAssumption).
LEMMA MessageIs ==
  ASSUME NEW message \in Messages
  PROVE  /\ message \in Seq(Flow) /\ message \in Seq(Pieces) /\ Len(message) \in Nat \ {0}
         /\ Last(message) = message[Len(message)]
         /\ Last(message) \in Pieces /\ Last(message).kind \in Final
         /\ \A i \in 1..(Len(message) - 1) : Leads(message[i], Last(message))
<1> DEFINE R == [kind : PieceKinds, method : Methods, path : Seq(STRING), length : Nat, close : BOOLEAN]
<1>1. /\ message \in Seq(R) /\ message # <<>> /\ Last(message).kind \in Final
      /\ \A i \in 1..(Len(message) - 1) : Leads(message[i], Last(message))
  BY ConnectionAssumption
<1> HIDE DEF R
<1>2. Len(message) \in Nat \ {0} /\ message \in [1..Len(message) -> R] /\ DOMAIN message = 1..Len(message)
  BY <1>1
<1>3. \A i \in 1..Len(message) : message[i] \in Pieces
  <2> SUFFICES ASSUME NEW i \in 1..Len(message) PROVE message[i] \in Pieces
    OBVIOUS
  <2>1. message[i] \in ToSet(message)
    BY <1>2 DEF ToSet
  <2>2. ToSet(message) \in {ToSet(mm) : mm \in Messages}
    OBVIOUS
  <2> QED BY <2>1, <2>2 DEF Pieces
<1>4. message \in [1..Len(message) -> Pieces]
  BY <1>2, <1>3
<1>5. message \in Seq(Pieces)
  BY ONLY <1>2, <1>4, SeqDef
<1>6. message \in Seq(Flow)
  <2>1. Pieces \subseteq Flow
    BY DEF Flow
  <2> QED BY ONLY <1>5, <2>1, SeqMonotonic
<1>7. Last(message) = message[Len(message)]
  BY DEF Last
<1>8. Last(message) \in Pieces
  BY <1>2, <1>3, <1>7
<1> QED BY <1>1, <1>2, <1>5, <1>6, <1>7, <1>8

\* One message behind what is in the pipe: one end more.
Followed(P, B, ended, v, message) ==
  /\ PipeIsRight(P, B, ended)
  /\ Cardinality(Finals(v)) \in Nat /\ Cardinality(Finals(P)) \in Nat
  /\ Cardinality(Finals(P)) = Cardinality(Finals(v)) + 1
  /\ v = <<>> => P = message /\ IsRest(P, Last(message))
  /\ Finals(message) # {}

LEMMA MessageFollows ==
  ASSUME NEW v \in Seq(Flow), NEW message \in Messages, NEW P, P = v \o message,
         NEW A, NEW B, A \subseteq B, Plain(Last(message).path) \in B, NEW ended,
         PipeIsRight(v, A, ended)
  PROVE  Followed(P, B, ended, v, message)
<1> DEFINE last == Last(message)
           k == Len(message)
<1>1. /\ message \in Seq(Flow) /\ k \in Nat \ {0} /\ last = message[k]
      /\ last \in Pieces /\ last.kind \in Final
      /\ \A i \in 1..(k - 1) : Leads(message[i], last)
  BY MessageIs
<1> HIDE DEF last, k
<1>2. Len(v) \in Nat
  OBVIOUS
<1>3. /\ P \in Seq(Flow) /\ Len(P) = Len(v) + k
      /\ \A i \in 1..(Len(v) + k) : P[i] = IF i <= Len(v) THEN v[i] ELSE message[i - Len(v)]
  BY <1>1, ConcatProperties DEF k
<1>4. /\ \A i \in 1..Len(v) : i \in 1..Len(P) /\ P[i] = v[i]
      /\ P[Len(v) + k] = last /\ Len(v) + k \in 1..Len(P)
      /\ \A i \in 1..Len(P) : i \in 1..Len(v) \/ i = Len(v) + k \/ Leads(P[i], last)
      /\ \A i \in 1..Len(P) : i <= Len(v) + k
  <2>1. \A i \in 1..Len(v) : i \in 1..Len(P) /\ P[i] = v[i]
    BY <1>1, <1>2, <1>3
  <2>2. P[Len(v) + k] = last /\ Len(v) + k \in 1..Len(P)
    BY <1>1, <1>2, <1>3
  <2>3. ASSUME NEW i \in 1..Len(P), i \notin 1..Len(v), i # Len(v) + k
        PROVE  Leads(P[i], last)
    <3>1. i - Len(v) \in 1..(k - 1) /\ ~(i <= Len(v)) /\ i \in 1..(Len(v) + k)
      BY <1>1, <1>2, <1>3, <2>3
    <3>2. P[i] = message[i - Len(v)]
      BY <1>3, <3>1
    <3> QED BY <1>1, <3>1, <3>2
  <2> QED BY <1>1, <1>2, <1>3, <2>1, <2>2, <2>3
<1>5. Finals(P) = Finals(v) \cup {Len(v) + k}
  <2>1. ASSUME NEW i \in Finals(P) PROVE i \in Finals(v) \cup {Len(v) + k}
    <3>1. i \in 1..Len(P) /\ P[i].kind \in Final
      BY <2>1 DEF Finals
    <3>2. ~Leads(P[i], last)
      BY <3>1 DEF Leads, Final
    <3> QED BY <1>4, <3>1, <3>2 DEF Finals
  <2>2. ASSUME NEW i \in Finals(v) \cup {Len(v) + k} PROVE i \in Finals(P)
    BY <1>1, <1>4, <2>2 DEF Finals
  <2> QED BY <2>1, <2>2
<1>6. IsFiniteSet(Finals(v)) /\ Len(v) + k \notin Finals(v) /\ Cardinality(Finals(v)) \in Nat
  BY <1>1, <1>2, FinalsAreFinite DEF Finals
<1>7. Cardinality(Finals(P)) = Cardinality(Finals(v)) + 1
  BY <1>5, <1>6, FS_AddElement
<1>8. PipeIsRight(P, B, ended)
  <2> SUFFICES ASSUME NEW i \in 1..Len(P)
               PROVE  /\ P[i].kind \in {"head", "end"} => Plain(P[i].path) \in B
                      /\ P[i].kind = "eof" => ended
                      /\ P[i].kind \in {"line", "head"} => \E j \in Finals(P) : j > i
    BY DEF PipeIsRight
  <2>1. CASE i \in 1..Len(v)
    <3>1. /\ v[i].kind \in {"head", "end"} => Plain(v[i].path) \in A
          /\ v[i].kind = "eof" => ended
          /\ v[i].kind \in {"line", "head"} => \E j \in Finals(v) : j > i
      BY <2>1 DEF PipeIsRight
    <3> QED BY <1>4, <1>5, <2>1, <3>1
  <2>2. CASE i = Len(v) + k
    <3>1. P[i] = last /\ Plain(last.path) \in B
      BY <1>4, <2>2 DEF last
    <3> QED BY <1>1, <3>1 DEF Final
  <2>3. CASE Leads(P[i], last) /\ i \notin 1..Len(v) /\ i # Len(v) + k
    <3>1. /\ P[i].kind \in {"line", "head"}
          /\ P[i].kind = "head" => P[i].path = last.path
      BY <2>3 DEF Leads
    <3>2. Plain(last.path) \in B
      BY DEF last
    <3>3. Len(v) + k \in Finals(P)
      BY <1>5
    <3>4. i \in 1..(Len(v) + k) /\ i # Len(v) + k
      BY <1>3, <2>3
    <3>5. i < Len(v) + k
      <4>1. k \in Nat
        BY <1>1
      <4>2. i \in 1..(Len(v) + k) /\ i # Len(v) + k
        BY <3>4
      <4> QED BY ONLY <1>2, <4>1, <4>2
    <3>6. \E j \in Finals(P) : j > i
      BY <1>1, <1>2, <3>3, <3>4, <3>5
    <3>7. P[i].kind # "end" /\ P[i].kind # "eof"
      BY <3>1
    <3>8. P[i].kind \in {"head", "end"} => Plain(P[i].path) = Plain(last.path)
      BY <3>1, <3>7
    <3> QED BY <3>2, <3>6, <3>7, <3>8
  <2> QED BY <1>4, <2>1, <2>2, <2>3
<1>9. ASSUME v = <<>> PROVE P = message /\ IsRest(P, last)
  <2>1. P = message
    BY <1>1, <1>9, ConcatEmptySeq
  <2>2. k \in 1..Len(P) /\ k = Len(P) /\ P[k] = last
    BY <1>1, <2>1 DEF k
  <2>3. \A i \in (k + 1)..Len(P) : FALSE
    BY <1>1, <2>2
  <2>4. \A i \in 1..(k - 1) : Leads(P[i], last)
    BY <1>1, <2>1
  <2>5. IsRest(P, last)
    BY <2>2, <2>3, <2>4 DEF IsRest
  <2> QED BY <2>1, <2>5
<1>10. Finals(message) # {}
  <2>1. k \in Finals(message)
    BY <1>1 DEF Finals, k
  <2> QED BY <2>1
<1> QED BY <1>6, <1>7, <1>8, <1>9, <1>10 DEF last, Followed

\* The end of file behind what is in the pipe.
EndedPipe(Q, P) ==
  /\ \A A, ended : PipeIsRight(P, A, ended) => PipeIsRight(Q, A, TRUE)
  /\ Cardinality(Finals(Q)) = Cardinality(Finals(P))
  /\ Silent(P) => Silent(Q)
  /\ \A last : last.kind \in Final /\ IsRest(P, last) => IsRest(Q, last)

LEMMA EndFollows ==
  ASSUME NEW v \in Seq(Flow), NEW w \in Seq(Flow), NEW x, x = Append(w, EndOfFile),
         NEW P, P = v \o w, NEW Q, Q = v \o x
  PROVE  EndedPipe(Q, P) /\ (Finals(w) # {} => Finals(x) # {})
<1> DEFINE k == Len(v) + Len(w)
<1>1. EndOfFile \in Flow /\ EndOfFile.kind = "eof"
  BY DEF Flow, EndOfFile
<1>2. /\ Len(v) \in Nat /\ Len(w) \in Nat /\ x \in Seq(Flow) /\ Len(x) = Len(w) + 1
      /\ x[Len(w) + 1] = EndOfFile /\ \A i \in 1..Len(w) : x[i] = w[i]
  BY <1>1
<1>3. P \in Seq(Flow) /\ Len(P) = k
      /\ \A i \in 1..k : P[i] = IF i <= Len(v) THEN v[i] ELSE w[i - Len(v)]
  BY ConcatProperties
<1>4. Q \in Seq(Flow) /\ Len(Q) = Len(v) + Len(x)
      /\ \A i \in 1..(Len(v) + Len(x)) : Q[i] = IF i <= Len(v) THEN v[i] ELSE x[i - Len(v)]
  BY <1>2, ConcatProperties
<1>5. k \in Nat /\ Len(Q) = k + 1 /\ Q[k + 1] = EndOfFile
  BY <1>2, <1>4
<1>6. \A i \in 1..k : Q[i] = P[i]
  <2> SUFFICES ASSUME NEW i \in 1..k PROVE Q[i] = P[i]
    OBVIOUS
  <2>1. CASE i <= Len(v)
    BY <1>2, <1>3, <1>4, <2>1
  <2>2. CASE ~(i <= Len(v))
    <3>1. i - Len(v) \in 1..Len(w) /\ i \in 1..(Len(v) + Len(x))
      BY <1>2, <2>2
    <3> QED BY <1>2, <1>3, <1>4, <2>2, <3>1
  <2> QED BY <2>1, <2>2
<1> HIDE DEF k
<1>7. \A i : i \in 1..Len(Q) <=> i \in 1..k \/ i = k + 1
  BY <1>5
<1>8. Finals(Q) = Finals(P)
  <2>1. EndOfFile.kind \notin Final
    BY <1>1 DEF Final
  <2> QED BY <1>3, <1>5, <1>6, <1>7, <2>1 DEF Finals
<1>9. ASSUME NEW A, NEW ended, PipeIsRight(P, A, ended) PROVE PipeIsRight(Q, A, TRUE)
  BY <1>9, <1>1, <1>3, <1>5, <1>6, <1>7, <1>8 DEF PipeIsRight
<1>10. Silent(P) => Silent(Q)
  BY SMTT(40), <1>3, <1>5, <1>6, <1>7 DEF Silent
<1>11. ASSUME NEW last, last.kind \in Final, IsRest(P, last) PROVE IsRest(Q, last)
  <2>1. PICK j \in 1..Len(P) :
          /\ P[j] = last
          /\ \A i \in 1..(j - 1) : Leads(P[i], last)
          /\ \A i \in (j + 1)..Len(P) : P[i] = EndOfFile
    BY <1>11 DEF IsRest
  <2>2. j \in 1..Len(Q) /\ Q[j] = last
    BY <1>3, <1>5, <1>6, <2>1
  <2>3. \A i \in 1..(j - 1) : i \in 1..k
    BY <1>3, <1>5, <2>1
  <2>4. \A i \in 1..(j - 1) : Leads(Q[i], last)
    BY <1>6, <2>1, <2>3
  <2>5. ASSUME NEW i \in (j + 1)..Len(Q) PROVE Q[i] = EndOfFile
    <3>1. i = k + 1 \/ (i \in 1..k /\ i \in (j + 1)..Len(P))
      BY <1>3, <1>5, <2>1
    <3> QED BY <1>5, <1>6, <2>1, <3>1
  <2> QED BY <2>2, <2>4, <2>5 DEF IsRest
<1>12. Finals(w) # {} => Finals(x) # {}
  <2> SUFFICES ASSUME NEW i \in Finals(w) PROVE i \in Finals(x)
    OBVIOUS
  <2>1. i \in 1..Len(w) /\ w[i].kind \in Final
    BY DEF Finals
  <2>2. i \in 1..Len(x) /\ x[i] = w[i]
    BY <1>2, <2>1
  <2> QED BY <2>1, <2>2 DEF Finals
<1> QED BY <1>8, <1>9, <1>10, <1>11, <1>12 DEF EndedPipe

\* What arrives was in the pipe.
LEMMA PipeFlows ==
  ASSUME NEW C, NEW v \in Seq(C), NEW w \in Seq(C), w # <<>>
  PROVE  /\ Append(v, Head(w)) \in Seq(C) /\ Tail(w) \in Seq(C)
         /\ Append(v, Head(w)) \o Tail(w) = v \o w
<1> DEFINE a == Head(w)
           x == Tail(w)
           y == Append(v, a)
<1>1. /\ a \in C /\ x \in Seq(C) /\ Len(x) = Len(w) - 1 /\ Len(w) \in Nat \ {0}
      /\ a = w[1] /\ \A i \in 1..Len(x) : x[i] = w[i + 1]
  BY HeadTailProperties, EmptySeq
<1> HIDE DEF a, x
<1>2. /\ y \in Seq(C) /\ Len(y) = Len(v) + 1 /\ y[Len(v) + 1] = a /\ Len(v) \in Nat
      /\ \A i \in 1..Len(v) : y[i] = v[i]
  BY <1>1
<1> HIDE DEF y
<1>3. /\ y \o x \in Seq(C) /\ Len(y \o x) = Len(y) + Len(x)
      /\ \A i \in 1..(Len(y) + Len(x)) : (y \o x)[i] = IF i <= Len(y) THEN y[i] ELSE x[i - Len(y)]
  BY <1>1, <1>2, ConcatProperties
<1>4. /\ v \o w \in Seq(C) /\ Len(v \o w) = Len(v) + Len(w)
      /\ \A i \in 1..(Len(v) + Len(w)) : (v \o w)[i] = IF i <= Len(v) THEN v[i] ELSE w[i - Len(v)]
  BY ConcatProperties
<1>5. Len(y \o x) = Len(v \o w)
  BY <1>1, <1>2, <1>3, <1>4
<1>6. ASSUME NEW i \in 1..Len(y \o x) PROVE (y \o x)[i] = (v \o w)[i]
  <2>1. i \in 1..(Len(v) + Len(w)) /\ i \in 1..(Len(y) + Len(x))
    BY <1>3, <1>4, <1>5
  <2>2. CASE i <= Len(v)
    BY <1>2, <1>3, <1>4, <2>1, <2>2
  <2>3. CASE i = Len(v) + 1
    <3>1. (y \o x)[i] = y[i]
      BY <1>2, <1>3, <2>1, <2>3
    <3>2. (v \o w)[i] = w[i - Len(v)]
      BY <1>2, <1>4, <2>1, <2>3
    <3>3. i - Len(v) = 1
      BY <1>2, <2>3
    <3> QED BY <1>1, <1>2, <2>3, <3>1, <3>2, <3>3
  <2>4. CASE i > Len(v) + 1
    <3>1. (y \o x)[i] = x[i - Len(y)]
      BY <1>2, <1>3, <2>1, <2>4
    <3>2. (v \o w)[i] = w[i - Len(v)]
      BY <1>2, <1>4, <2>1, <2>4
    <3>3. i - Len(y) \in 1..Len(x) /\ (i - Len(y)) + 1 = i - Len(v)
      BY <1>1, <1>2, <2>1, <2>4
    <3>4. x[i - Len(y)] = w[(i - Len(y)) + 1]
      BY <1>1, <3>3
    <3> QED BY <3>1, <3>2, <3>3, <3>4
  <2> QED BY <1>2, <2>1, <2>2, <2>3, <2>4
<1>7. y \o x = v \o w
  BY <1>3, <1>4, <1>5, <1>6, SeqEqual
<1> QED BY <1>1, <1>2, <1>7 DEF a, x, y

\* A client that has its answers asks again (handleHTTP).
LEMMA Asks ==
  ASSUME NEW h, Typed(h), NEW n \in Clients, Good(h, n), ~h.closed, ~n.owed, ~n.ended,
         n.coming = <<>>, NEW message \in Messages,
         NEW m \in Clients, m.coming = message, m.asked = Append(n.asked, Last(message)),
         m.owed = TRUE, m.ended = n.ended, m.patient => n.patient /\ h.room = Room
  PROVE  Good(h, m)
<1> DEFINE last == Last(message)
           L == {p \in Pieces : p.kind \in Final}
<1>1. HandlerInv(h, n) /\ OpenInv(h, n) /\ Served(h, n)
  BY DEF Good, HandlerInv
<1>2. last \in L /\ n.asked \in Seq(L) /\ last \in Pieces
  BY MessageIs DEF Clients
<1>3. /\ message \in Seq(Flow) /\ h.inbox \in Seq(Flow) /\ h.answers \in Seq(Answers)
      /\ Len(h.answers) \in Nat /\ Len(h.inbox) \in Nat
  <2>1. h.inbox \in Seq(Flow) /\ h.answers \in Seq(Answers)
    BY DEF Typed, Flow
  <2> QED BY <2>1, MessageIs
<1> HIDE DEF last, L
<1>4. /\ Len(n.asked) \in Nat /\ Len(m.asked) = Len(n.asked) + 1
      /\ m.asked[Len(n.asked) + 1] = last
      /\ \A i \in 1..Len(n.asked) : m.asked[i] = n.asked[i]
      /\ DOMAIN n.asked = 1..Len(n.asked) /\ DOMAIN m.asked = 1..(Len(n.asked) + 1)
  <2>1. ASSUME NEW C, NEW w \in Seq(C), NEW x \in C, NEW y, y = Append(w, x)
        PROVE  /\ Len(w) \in Nat /\ Len(y) = Len(w) + 1 /\ y[Len(w) + 1] = x
               /\ \A i \in 1..Len(w) : y[i] = w[i]
               /\ DOMAIN w = 1..Len(w) /\ DOMAIN y = 1..(Len(w) + 1)
    BY <2>1
  <2>2. m.asked = Append(n.asked, last)
    BY DEF last
  <2> QED BY ONLY <1>2, <2>1, <2>2
<1>5. Last(m.asked) = last
  BY <1>4 DEF Last
<1>6. ToSet(n.asked) \subseteq ToSet(m.asked) /\ last \in ToSet(m.asked)
  <2>1. ASSUME NEW x \in ToSet(n.asked) PROVE x \in ToSet(m.asked)
    <3>1. PICK i \in 1..Len(n.asked) : x = n.asked[i]
      BY <1>4, <2>1 DEF ToSet
    <3>2. i \in 1..(Len(n.asked) + 1) /\ x = m.asked[i]
      BY <1>4, <3>1
    <3> QED BY <1>4, <3>2 DEF ToSet
  <2>2. Len(n.asked) + 1 \in 1..(Len(n.asked) + 1)
    BY <1>4
  <2>3. last \in ToSet(m.asked)
    BY <1>4, <2>2 DEF ToSet
  <2> QED BY <2>1, <2>3
<1>7. Asked(n) \subseteq Asked(m) /\ Plain(last.path) \in Asked(m) /\ Kept(n) \subseteq Kept(m)
  BY <1>6 DEF Asked, Kept
<1>8. Pipe(h, n) = h.inbox /\ Pipe(h, m) = h.inbox \o message
  BY <1>3, ConcatEmptySeq DEF Pipe
<1>9. /\ PipeIsRight(h.inbox, Asked(n), n.ended)
      /\ Cardinality(FirstTries(h.answers)) + Cardinality(Finals(h.inbox))
           + (IF h.watchesCgi \/ h.epolloutShouldOpen THEN 1 ELSE 0) <= Len(n.asked)
  BY <1>1, <1>8 DEF OpenInv, PipeIsRight
<1>10. /\ PipeIsRight(Pipe(h, m), Asked(m), n.ended)
       /\ Cardinality(Finals(h.inbox)) \in Nat /\ Cardinality(Finals(Pipe(h, m))) \in Nat
       /\ Cardinality(Finals(Pipe(h, m))) = Cardinality(Finals(h.inbox)) + 1
       /\ h.inbox = <<>> => IsRest(Pipe(h, m), last)
       /\ Finals(message) # {}
  <2> DEFINE A == Asked(n)
             B == Asked(m)
             P == Pipe(h, m)
             v == h.inbox
             ended == n.ended
  <2>1. /\ v \in Seq(Flow) /\ message \in Messages /\ P = v \o message /\ A \subseteq B
        /\ Plain(Last(message).path) \in B /\ PipeIsRight(v, A, ended)
    BY <1>3, <1>7, <1>8, <1>9 DEF last
  <2> HIDE DEF A, B, P, v, ended
  <2>2. Followed(P, B, ended, v, message)
    BY ONLY <2>1, MessageFollows
  <2> QED BY <2>2 DEF A, B, P, v, ended, last, Followed
<1>11. Cardinality(FirstTries(h.answers)) \in Nat
  BY <1>3, FirstTriesAreFinite
<1>12. OpenInv(h, m)
  <2>1. Cardinality(FirstTries(h.answers)) + Cardinality(Finals(Pipe(h, m)))
          + (IF h.watchesCgi \/ h.epolloutShouldOpen THEN 1 ELSE 0) <= Len(m.asked)
    <3>1. CASE h.watchesCgi \/ h.epolloutShouldOpen
      <4>1. Cardinality(FirstTries(h.answers)) + Cardinality(Finals(h.inbox)) + 1 <= Len(n.asked)
        BY <1>9, <3>1
      <4>2. Cardinality(FirstTries(h.answers)) + Cardinality(Finals(Pipe(h, m))) + 1 <= Len(m.asked)
        BY <1>4, <1>10, <1>11, <4>1
      <4> QED BY <3>1, <4>2
    <3>2. CASE ~(h.watchesCgi \/ h.epolloutShouldOpen)
      <4>1. Cardinality(FirstTries(h.answers)) + Cardinality(Finals(h.inbox)) + 0 <= Len(n.asked)
        BY <1>9, <3>2
      <4>2. Cardinality(FirstTries(h.answers)) + Cardinality(Finals(Pipe(h, m))) + 0 <= Len(m.asked)
        BY <1>4, <1>10, <1>11, <4>1
      <4> QED BY <3>2, <4>2
    <3> QED BY <3>1, <3>2
  <2>2. h.request.state \in {"head", "end"} => h.request.target \in Asked(m)
    BY <1>1, <1>7 DEF OpenInv
  <2>3. h.watchesCgi => h.cgi.target \in Asked(m)
    BY <1>1, <1>7 DEF OpenInv
  <2> QED BY <1>1, <1>10, <2>1, <2>2, <2>3 DEF OpenInv, PipeIsRight
<1>13. h.fails \subseteq {"page"} => WokenInv(h, m)
  BY <1>1, <1>10 DEF HandlerInv, WokenInv
<1>14. h.fails = {} => OneAtATime(h, n) /\ AnswersAreCounted(h, n)
  BY <1>1 DEF HandlerInv
<1>15. ASSUME h.fails = {} PROVE OneAtATime(h, m)
  <2>1. Silent(h.inbox) /\ h.request.state = "none" /\ ~h.watchesCgi /\ ~h.epolloutShouldOpen
        /\ ~h.request.close /\ h.request.query \in Kept(m)
    BY <1>7, <1>8, <1>14, <1>15 DEF OneAtATime, Kept
  <2>2. h.inbox = <<>>
    <3>1. Len(h.inbox) = 0
      <4> SUFFICES ASSUME Len(h.inbox) # 0 PROVE FALSE
        OBVIOUS
      <4>1. 1 \in 1..Len(h.inbox)
        BY <1>3
      <4>2. h.inbox[1].kind = "eof"
        BY <2>1, <4>1, EndIsEof DEF Silent
      <4> QED BY <1>9, <4>1, <4>2 DEF PipeIsRight
    <3> QED BY <1>3, <3>1, EmptySeq
  <2>3. IsRest(Pipe(h, m), Last(m.asked))
    BY <1>5, <1>10, <2>2
  <2> QED BY <2>1, <2>3 DEF OneAtATime, Kept
<1>16. h.fails = {} => AnswersAreCounted(h, m) /\ Len(h.answers) = Len(n.asked)
  <2> SUFFICES ASSUME h.fails = {}
               PROVE  Len(m.asked) = Len(h.answers) + 1 /\ Len(h.answers) = Len(n.asked)
    BY DEF AnswersAreCounted
  <2>1. Len(n.asked) = Len(h.answers) + 0
    BY <1>14 DEF AnswersAreCounted
  <2> QED BY <1>3, <1>4, <2>1
<1>17. AnswersAreOwn(h, m) /\ LimitIsOfOwnLocation(h, m)
  <2>1. h.fails = {} => \A i \in 1..Len(h.answers) : m.asked[i] = n.asked[i]
    BY <1>4, <1>16
  <2>2. AnswersAreOwn(h, m)
    <3>1. h.fails = {} => Len(h.answers) <= Len(m.asked)
      BY <1>3, <1>4, <1>16
    <3> QED BY <1>1, <2>1, <3>1 DEF HandlerInv, AnswersAreOwn
  <2>3. LimitIsOfOwnLocation(h, m)
    BY <1>1, <2>1 DEF HandlerInv, LimitIsOfOwnLocation
  <2> QED BY <2>2, <2>3
<1>18. AnswersHaveTheirCause(h, m)
  <2>1. AnswersHaveTheirCause(h, n)
    BY <1>1 DEF HandlerInv
  <2>2. Cardinality(FirstTries(h.answers)) <= Len(m.asked)
    BY <1>4, <1>11, <2>1 DEF AnswersHaveTheirCause
  <2> QED BY <1>7, <2>1, <2>2 DEF AnswersHaveTheirCause
<1>19. ScriptsGetTheirRequest(h, m)
  BY <1>14 DEF ScriptsGetTheirRequest, OneAtATime
<1>20. HandlerInv(h, m)
  BY <1>12, <1>13, <1>15, <1>16, <1>17, <1>18, <1>19 DEF HandlerInv
<1>21. Served(h, m)
  BY <1>1 DEF Served
<1> QED BY <1>20, <1>21 DEF Good, CutOff

\* A client ends, having its answers or not (_createRequest).
LEMMA EndIsAwaited ==
  ASSUME NEW h, Typed(h), NEW n \in Clients, Good(h, n),
         NEW m \in Clients, m.coming = Append(n.coming, EndOfFile), m.asked = n.asked,
         m.owed = n.owed, m.ended = TRUE, m.patient => n.patient /\ ~n.owed
  PROVE  Good(h, m)
<1>1. HandlerInv(h, n) /\ Served(h, n)
  BY DEF Good
<1>2. h.inbox \in Seq(Flow) /\ n.coming \in Seq(Flow) /\ h.answers \in Seq(Answers)
      /\ Len(h.answers) \in Nat
  <2>1. h.inbox \in Seq(Flow) /\ n.coming \in Seq(Flow) /\ h.answers \in Seq(Answers)
    BY DEF Typed, Clients, Flow
  <2> QED BY <2>1
<1>3. Pipe(h, n) = h.inbox \o n.coming /\ Pipe(h, m) = h.inbox \o Append(n.coming, EndOfFile)
  BY DEF Pipe
<1>4. EndedPipe(Pipe(h, m), Pipe(h, n)) /\ (Finals(n.coming) # {} => Finals(m.coming) # {})
  <2> DEFINE v == h.inbox
             w == n.coming
             x == m.coming
             P == Pipe(h, n)
             Q == Pipe(h, m)
  <2>1. v \in Seq(Flow) /\ w \in Seq(Flow) /\ x = Append(w, EndOfFile) /\ P = v \o w /\ Q = v \o x
    BY <1>2, <1>3
  <2> HIDE DEF v, w, x, P, Q
  <2>2. EndedPipe(Q, P) /\ (Finals(w) # {} => Finals(x) # {})
    BY ONLY <2>1, EndFollows
  <2> QED BY <2>2 DEF w, x, P, Q
<1>5. Asked(m) = Asked(n) /\ QueriesFor(m) = QueriesFor(n)
  BY DEF Asked, QueriesFor
<1>6. ~h.closed => OpenInv(h, m)
  <2> SUFFICES ASSUME ~h.closed PROVE OpenInv(h, m)
    OBVIOUS
  <2>1. OpenInv(h, n)
    BY <1>1 DEF HandlerInv
  <2>2. PipeIsRight(Pipe(h, m), Asked(m), m.ended)
    <3>1. PipeIsRight(Pipe(h, n), Asked(n), n.ended)
      BY <2>1 DEF OpenInv, PipeIsRight
    <3> QED BY <1>4, <1>5, <3>1 DEF EndedPipe
  <2>3. Cardinality(Finals(Pipe(h, m))) = Cardinality(Finals(Pipe(h, n)))
    BY <1>4 DEF EndedPipe
  <2> QED BY <1>5, <2>1, <2>2, <2>3 DEF OpenInv, PipeIsRight
<1>7. ~h.closed /\ h.fails \subseteq {"page"} => WokenInv(h, m)
  BY <1>1, <1>4 DEF HandlerInv, WokenInv
<1>8. ~h.closed /\ h.fails = {} => OneAtATime(h, m)
  <2> SUFFICES ASSUME ~h.closed, h.fails = {} PROVE OneAtATime(h, m)
    OBVIOUS
  <2>1. OneAtATime(h, n) /\ AnswersAreCounted(h, n)
    BY <1>1 DEF HandlerInv
  <2>2. m.owed /\ h.cgi = NoCgi => IsRest(Pipe(h, m), Last(m.asked))
    <3> SUFFICES ASSUME m.owed, h.cgi = NoCgi PROVE IsRest(Pipe(h, m), Last(m.asked))
      OBVIOUS
    <3>1. Last(n.asked).kind \in Final
      BY <1>2, <2>1, LastIsAPiece
    <3>2. IsRest(Pipe(h, n), Last(n.asked))
      BY <2>1 DEF OneAtATime
    <3> QED BY <1>4, <3>1, <3>2 DEF EndedPipe
  <2>3. Silent(Pipe(h, n)) => Silent(Pipe(h, m))
    BY <1>4 DEF EndedPipe
  <2> QED BY <1>5, <2>1, <2>2, <2>3 DEF OneAtATime
<1>9. h.fails = {} => AnswersAreCounted(h, m)
  BY <1>1 DEF HandlerInv, AnswersAreCounted
<1>10. AnswersRight(h, m)
  <2>1. AnswersRight(h, n)
    BY <1>1 DEF HandlerInv, AnswersRight
  <2> QED BY <2>1, AnswersKept
<1>11. ScriptsGetTheirRequest(h, m)
  BY <1>1, <1>5 DEF HandlerInv, ScriptsGetTheirRequest
<1>12. HandlerInv(h, m)
  BY <1>6, <1>7, <1>8, <1>9, <1>10, <1>11 DEF HandlerInv, AnswersRight
<1>13. Served(h, m)
  BY <1>1 DEF Served
<1> QED BY <1>12, <1>13 DEF Good, CutOff

\* A piece arrives, and epoll has an event.
LEMMA Arrives ==
  ASSUME NEW h, Typed(h), NEW n \in Clients, Good(h, n), n.coming # <<>>,
         NEW g, SameBut(g, h, {"inbox", "edge"}), g.inbox = Append(h.inbox, Head(n.coming)),
         g.edge = TRUE,
         NEW m, m.coming = Tail(n.coming), m.asked = n.asked, m.owed = n.owed,
         m.ended = n.ended, m.patient = n.patient
  PROVE  Good(g, m)
<1>1. h.inbox \in Seq(Flow) /\ n.coming \in Seq(Flow)
  BY DEF Typed, Clients, Flow
<1>2. Pipe(g, m) = Pipe(h, n)
  <2>1. Append(h.inbox, Head(n.coming)) \o Tail(n.coming) = h.inbox \o n.coming
    BY ONLY <1>1, n.coming # <<>>, PipeFlows
  <2> QED BY <2>1 DEF Pipe
<1>3. ASSUME NEW C, NEW v \in Seq(C), NEW w \in Seq(C), w # <<>>
      PROVE  /\ Finals(w) # {} => Finals(Tail(w)) # {} \/ Finals(Append(v, Head(w))) # {}
             /\ Finals(v) # {} => Finals(Append(v, Head(w))) # {}
  <2> DEFINE y == Append(v, Head(w))
             x == Tail(w)
  <2>1. /\ x \in Seq(C) /\ Len(x) = Len(w) - 1 /\ Len(w) \in Nat \ {0}
        /\ \A i \in 1..Len(x) : x[i] = w[i + 1]
    BY <1>3, HeadTailProperties, EmptySeq
  <2>2. /\ y \in Seq(C) /\ Len(y) = Len(v) + 1 /\ y[Len(v) + 1] = w[1] /\ Len(v) \in Nat
        /\ \A i \in 1..Len(v) : y[i] = v[i]
    BY <1>3
  <2> HIDE DEF x, y
  <2>3. ASSUME NEW i \in Finals(w) PROVE Finals(x) # {} \/ Finals(y) # {}
    <3>1. i \in 1..Len(w) /\ w[i].kind \in Final
      BY <2>3 DEF Finals
    <3>2. CASE i = 1
      <4>1. Len(v) + 1 \in Finals(y)
        BY <2>2, <3>1, <3>2 DEF Finals
      <4> QED BY <4>1
    <3>3. CASE i # 1
      <4>1. i - 1 \in 1..Len(x) /\ (i - 1) + 1 = i
        BY <2>1, <3>1, <3>3
      <4>2. x[i - 1] = w[i]
        BY <2>1, <4>1
      <4>3. i - 1 \in Finals(x)
        BY <3>1, <4>1, <4>2 DEF Finals
      <4> QED BY <4>3
    <3> QED BY <3>2, <3>3
  <2>4. ASSUME NEW i \in Finals(v) PROVE i \in Finals(y)
    <3>1. i \in 1..Len(v) /\ v[i].kind \in Final
      BY <2>4 DEF Finals
    <3>2. i \in 1..Len(y) /\ y[i] = v[i]
      BY <2>2, <3>1
    <3> QED BY <3>1, <3>2 DEF Finals
  <2> QED BY <2>3, <2>4 DEF x, y
<1>4. /\ Finals(n.coming) # {} => Finals(m.coming) # {} \/ Finals(g.inbox) # {}
      /\ Finals(h.inbox) # {} => Finals(g.inbox) # {}
  BY ONLY <1>1, <1>3, n.coming # <<>>, g.inbox = Append(h.inbox, Head(n.coming)),
          m.coming = Tail(n.coming)
<1>5. /\ g.closed = h.closed /\ g.fails = h.fails /\ g.answers = h.answers
      /\ g.epolloutShouldOpen = h.epolloutShouldOpen /\ g.watchesCgi = h.watchesCgi
      /\ g.request = h.request /\ g.config = h.config /\ g.epollout = h.epollout
      /\ g.cgi = h.cgi /\ g.room = h.room
  BY DEF SameBut, Members
<1>6. WokenInv(h, n) => WokenInv(g, m)
  <2> SUFFICES ASSUME WokenInv(h, n) PROVE WokenInv(g, m)
    OBVIOUS
  <2>1. g.epollout = g.epolloutShouldOpen
    BY <1>5 DEF WokenInv
  <2>2. g.cgi # NoCgi => g.watchesCgi
    BY <1>5 DEF WokenInv
  <2>3. m.owed /\ ~g.watchesCgi /\ ~g.epollout => Finals(m.coming) # {} \/ Finals(g.inbox) # {}
    BY <1>4, <1>5 DEF WokenInv
  <2> QED BY <2>1, <2>2, <2>3 DEF WokenInv
<1>7. HandlerInv(h, n) /\ SameBut(g, h, {"config", "edge", "room", "inbox"})
  BY DEF Good, SameBut
<1>8. HandlerInv(g, m)
  BY <1>2, <1>5, <1>6, <1>7, HandlerStays
<1> QED BY <1>5, <1>8 DEF Good, CutOff, Served, HasLookedUp

\* The client reads, and epoll has an event if it was asked to.
LEMMA Drains ==
  ASSUME NEW h, Typed(h), NEW n \in Clients, Good(h, n),
         NEW g, SameBut(g, h, {"room", "edge"}), g.room = Room,
         g.edge <=> h.edge \/ h.epollout
  PROVE  Good(g, n)
<1>1. /\ g.closed = h.closed /\ g.fails = h.fails /\ g.answers = h.answers
      /\ g.epolloutShouldOpen = h.epolloutShouldOpen /\ g.watchesCgi = h.watchesCgi
      /\ g.request = h.request /\ g.config = h.config /\ g.epollout = h.epollout
      /\ g.cgi = h.cgi /\ g.inbox = h.inbox
  BY DEF SameBut, Members
<1>2. Pipe(g, n) = Pipe(h, n)
  BY <1>1 DEF Pipe
<1>3. WokenInv(h, n) => WokenInv(g, n)
  BY <1>1 DEF WokenInv
<1>4. HandlerInv(h, n) /\ SameBut(g, h, {"config", "edge", "room", "inbox"})
  BY DEF Good, SameBut
<1>5. HandlerInv(g, n)
  BY <1>1, <1>2, <1>3, <1>4, HandlerStays
<1> QED BY <1>1, <1>5 DEF Good, CutOff, Served, HasLookedUp

\* Another connection looks up a path.
LEMMA OthersLookUp ==
  ASSUME NEW h, NEW n, Good(h, n), NEW g, SameBut(g, h, {"config"}),
         h.config.route # NoRoute => g.config.route # NoRoute
  PROVE  Good(g, n)
<1>1. /\ g.closed = h.closed /\ g.fails = h.fails /\ g.answers = h.answers
      /\ g.epolloutShouldOpen = h.epolloutShouldOpen /\ g.watchesCgi = h.watchesCgi
      /\ g.request = h.request /\ g.epollout = h.epollout /\ g.room = h.room
      /\ g.cgi = h.cgi /\ g.inbox = h.inbox /\ g.edge = h.edge
  BY DEF SameBut, Members
<1>2. Pipe(g, n) = Pipe(h, n)
  BY <1>1 DEF Pipe
<1>3. WokenInv(h, n) => WokenInv(g, n)
  BY <1>1 DEF WokenInv
<1>4. HandlerInv(h, n) /\ SameBut(g, h, {"config", "edge", "room", "inbox"})
  BY DEF Good, SameBut
<1>5. HandlerInv(g, n)
  BY <1>1, <1>2, <1>3, <1>4, HandlerStays
<1> QED BY <1>1, <1>5 DEF Good, CutOff, Served, HasLookedUp

----------------------------------------------------------------------------
(* The steps of one connection.                                            *)

\* An event keeps what is said of its connection (handleHTTP, Delegate).
LEMMA EventHandled ==
  ASSUME NEW h, Typed(h), NEW n \in Clients, Good(h, n), ~h.closed,
         NEW s, Typed(s), SameBut(s, h, {"edge"}), NEW again \in BOOLEAN, NEW starts \in BOOLEAN,
         NEW r, r = Retry(s, again),
         NEW u, u = IF r.cgi # NoCgi THEN r ELSE Delegate(handleHTTP(r, starts)),
         NEW m \in Clients, ClientAfter(m, n, u, h)
  PROVE  Typed(u) /\ Good(u, m) /\ (h.config.route # NoRoute => u.config.route # NoRoute)
<1> DEFINE l == [n EXCEPT !.owed = n.owed /\ Len(r.answers) = Len(h.answers)]
<1>1. l \in Clients /\ ClientAfter(l, n, r, h)
  <2>1. n.owed \in BOOLEAN
    BY DEF Clients
  <2>2. l \in Clients
    BY <2>1 DEF Clients
  <2>3. l.owed <=> n.owed /\ Len(r.answers) = Len(h.answers)
    BY DEF Clients
  <2>4. l.asked = n.asked /\ l.coming = n.coming /\ l.ended = n.ended /\ l.patient = n.patient
    BY DEF Clients
  <2> HIDE DEF l
  <2> QED BY <2>2, <2>3, <2>4 DEF ClientAfter
<1> HIDE DEF l
<1>2. /\ Typed(r) /\ r.config = h.config /\ Grown(r, h)
      /\ r.cgi # NoCgi => Good(r, l)
      /\ r.cgi = NoCgi => Ready(r, l)
  BY <1>1, Retried
<1>3. CASE r.cgi # NoCgi
  <2>1. u = r
    BY <1>3
  <2>2. m = l
    <3>1. /\ m.asked = l.asked /\ m.coming = l.coming /\ m.ended = l.ended /\ m.patient = l.patient
          /\ m.owed <=> l.owed
      BY <1>1, <2>1 DEF ClientAfter
    <3>2. m.owed \in BOOLEAN /\ l.owed \in BOOLEAN
      BY <1>1 DEF Clients
    <3>3. /\ m = [coming |-> m.coming, asked |-> m.asked, owed |-> m.owed, ended |-> m.ended,
                  patient |-> m.patient]
          /\ l = [coming |-> l.coming, asked |-> l.asked, owed |-> l.owed, ended |-> l.ended,
                  patient |-> l.patient]
      BY <1>1 DEF Clients
    <3> QED BY <3>1, <3>2, <3>3
  <2> QED BY <1>2, <1>3, <2>1, <2>2
<1>4. CASE r.cgi = NoCgi
  <2> DEFINE t == handleHTTP(r, starts)
  <2>1. u = Delegate(t)
    BY <1>4
  <2> HIDE DEF t
  <2>2. Ready(r, l)
    BY <1>2, <1>4
  <2>3. ASSUME ClientAfter(m, l, u, r)
        PROVE  /\ Typed(u) /\ Good(u, m) /\ Grown(u, r)
               /\ r.config.route # NoRoute => u.config.route # NoRoute
    BY <2>1, <2>2, <2>3, Handled DEF t
  <2>4. Grown(u, r)
    <3> DEFINE k == [l EXCEPT !.owed = l.owed /\ Len(u.answers) = Len(r.answers)]
    <3>1. k \in Clients /\ ClientAfter(k, l, u, r)
      <4>1. l.owed \in BOOLEAN
        BY <1>1 DEF Clients
      <4>2. k \in Clients
        BY <1>1, <4>1 DEF Clients
      <4>3. k.owed <=> l.owed /\ Len(u.answers) = Len(r.answers)
        BY <1>1 DEF Clients
      <4>4. k.asked = l.asked /\ k.coming = l.coming /\ k.ended = l.ended /\ k.patient = l.patient
        BY <1>1 DEF Clients
      <4> HIDE DEF k
      <4> QED BY <4>2, <4>3, <4>4 DEF ClientAfter
    <3> HIDE DEF k
    <3> QED BY <2>1, <2>2, <3>1, Handled DEF t
  <2>5. /\ Len(u.answers) \in Nat /\ Len(r.answers) \in Nat /\ Len(h.answers) \in Nat
        /\ Len(u.answers) >= Len(r.answers) /\ Len(r.answers) >= Len(h.answers)
    BY <1>2, <2>4 DEF Grown
  <2>6. Len(u.answers) = Len(h.answers) <=>
          Len(u.answers) = Len(r.answers) /\ Len(r.answers) = Len(h.answers)
    BY ONLY <2>5
  <2>7. ClientAfter(m, l, u, r)
    BY <1>1, <2>6 DEF ClientAfter
  <2> QED BY <1>2, <2>3, <2>7
<1> QED BY <1>3, <1>4

----------------------------------------------------------------------------
(* The state.                                                              *)

Own == Members \ {"config"}

\* A handler together with the ServerConfig (Load).
Whole(g, cfg) ==
  [f \in DOMAIN g \cup {"config"} |-> IF f = "config" THEN cfg ELSE g[f]]

LEMMA WholeIs ==
  ASSUME NEW g \in Handlers, NEW cfg, Coherent(cfg), NEW h, h = Whole(g, cfg)
  PROVE  /\ Typed(h) /\ h.config = cfg /\ \A f \in Own : h[f] = g[f]
         /\ DOMAIN g = Own
<1>1. DOMAIN g = Own
  BY DEF Handlers, Own, Members
<1>2. Own \cup {"config"} = Members /\ "config" \in Members /\ "config" \notin Own
  BY DEF Own, Members
<1>3. h = [f \in Members |-> IF f = "config" THEN cfg ELSE g[f]]
  BY <1>1, <1>2 DEF Whole
<1>4. h.config = cfg /\ DOMAIN h = Members /\ h = [f \in Members |-> h[f]]
  BY <1>2, <1>3
<1>5. \A f \in Own : h[f] = g[f]
  BY <1>2, <1>3
<1>6. /\ h.request = g.request /\ h.cgi = g.cgi
      /\ h.epolloutShouldOpen = g.epolloutShouldOpen
      /\ h.epolloutShouldClose = g.epolloutShouldClose
      /\ h.shouldClose = g.shouldClose /\ h.closed = g.closed /\ h.watchesCgi = g.watchesCgi
      /\ h.epollout = g.epollout /\ h.edge = g.edge /\ h.inbox = g.inbox /\ h.room = g.room
      /\ h.answers = g.answers /\ h.fails = g.fails
  BY <1>5 DEF Own, Members
<1> HIDE DEF Members
<1>7. /\ g.request \in Requests /\ g.cgi \in Environments
      /\ g.epolloutShouldOpen \in BOOLEAN /\ g.epolloutShouldClose \in BOOLEAN
      /\ g.shouldClose \in BOOLEAN /\ g.closed \in BOOLEAN /\ g.watchesCgi \in BOOLEAN
      /\ g.epollout \in BOOLEAN /\ g.edge \in BOOLEAN
      /\ g.inbox \in Seq(Pieces \cup {EndOfFile}) /\ g.room \in 0..Room
      /\ g.answers \in Seq(Answers) /\ g.fails \in SUBSET Fail
  BY DEF Handlers
<1>8. Typed(h)
  BY <1>4, <1>6, <1>7 DEF Typed
<1> QED BY <1>1, <1>4, <1>5, <1>8

LEMMA PartIs ==
  ASSUME NEW s, Typed(s), NEW g, g = [f \in Own |-> s[f]]
  PROVE  g \in Handlers /\ Whole(g, s.config) = s
<1>1. Own \cup {"config"} = Members /\ "config" \in Members /\ "config" \notin Own
  BY DEF Own, Members
<1>2. DOMAIN g = Own /\ \A f \in Own : g[f] = s[f]
  OBVIOUS
<1>3. Whole(g, s.config) = s
  <2>1. Whole(g, s.config) = [f \in Members |-> IF f = "config" THEN s.config ELSE g[f]]
    BY <1>1, <1>2 DEF Whole
  <2>2. \A f \in Members : f = "config" \/ f \in Own
    BY <1>1
  <2>3. s = [f \in Members |-> s[f]]
    BY DEF Typed
  <2> QED BY <1>1, <1>2, <2>1, <2>2, <2>3
<1>4. g = [request |-> s.request, cgi |-> s.cgi,
           epolloutShouldOpen |-> s.epolloutShouldOpen,
           epolloutShouldClose |-> s.epolloutShouldClose,
           shouldClose |-> s.shouldClose, closed |-> s.closed, watchesCgi |-> s.watchesCgi,
           epollout |-> s.epollout, edge |-> s.edge, inbox |-> s.inbox, room |-> s.room,
           answers |-> s.answers, fails |-> s.fails]
  BY DEF Own, Members
<1>5. /\ s.request \in Requests /\ s.cgi \in Environments
      /\ s.epolloutShouldOpen \in BOOLEAN /\ s.epolloutShouldClose \in BOOLEAN
      /\ s.shouldClose \in BOOLEAN /\ s.closed \in BOOLEAN /\ s.watchesCgi \in BOOLEAN
      /\ s.epollout \in BOOLEAN /\ s.edge \in BOOLEAN
      /\ s.inbox \in Seq(Pieces \cup {EndOfFile}) /\ s.room \in 0..Room
      /\ s.answers \in Seq(Answers) /\ s.fails \in SUBSET Fail
  BY DEF Typed
<1>6. g \in Handlers
  BY ONLY <1>4, <1>5 DEF Handlers
<1> QED BY <1>3, <1>6

\* The inductive invariant of the connections.
ConnIInv ==
  /\ ConnTypeOK /\ Coherent(config)
  /\ \A c \in Conn : Good(Whole(conn[c], config), net[c])

\* One connection takes a step, and the others keep what is theirs
\* (setCorrectRoute).
LEMMA StepOfOne ==
  ASSUME ConnIInv, NEW c \in Conn, NEW s, Typed(s),
         config.route # NoRoute => s.config.route # NoRoute,
         NEW m \in Clients, Len(m.asked) <= MaxRequests[c], Good(s, m),
         config' = s.config, net' = [net EXCEPT ![c] = m],
         conn' = [conn EXCEPT ![c] = [f \in Own |-> s[f]]]
  PROVE  ConnIInv'
<1> DEFINE g == [f \in Own |-> s[f]]
<1>1. g \in Handlers /\ Whole(g, s.config) = s
  BY PartIs
<1> HIDE DEF g
<1>2. /\ conn \in [Conn -> Handlers] /\ net \in [Conn -> Clients]
      /\ \A d \in Conn : Len(net[d].asked) <= MaxRequests[d]
      /\ Coherent(config)
      /\ \A d \in Conn : Good(Whole(conn[d], config), net[d])
  BY DEF ConnIInv, ConnTypeOK
<1>3. conn' = [conn EXCEPT ![c] = g]
  BY DEF g
<1>4. /\ conn' \in [Conn -> Handlers] /\ net' \in [Conn -> Clients]
      /\ \A d \in Conn : Len(net'[d].asked) <= MaxRequests[d]
      /\ conn'[c] = g /\ net'[c] = m
      /\ \A d \in Conn : d # c => conn'[d] = conn[d] /\ net'[d] = net[d]
  BY <1>1, <1>2, <1>3
<1>5. Coherent(config')
  BY DEF Typed
<1>6. ASSUME NEW d \in Conn PROVE Good(Whole(conn'[d], config'), net'[d])
  <2>1. CASE d = c
    <3>1. Whole(conn'[d], config') = s
      BY <1>1, <1>4, <2>1
    <3> QED BY <1>4, <2>1, <3>1
  <2>2. CASE d # c
    <3> DEFINE h == Whole(conn[d], config)
               k == Whole(conn[d], config')
    <3>1. Typed(h) /\ h.config = config /\ \A f \in Own : h[f] = conn[d][f]
      BY <1>2, WholeIs
    <3>2. Typed(k) /\ k.config = config' /\ \A f \in Own : k[f] = conn[d][f]
      BY <1>2, <1>5, WholeIs
    <3>3. Good(h, net[d])
      BY <1>2
    <3> HIDE DEF h, k
    <3>4. SameBut(k, h, {"config"})
      BY <3>1, <3>2 DEF SameBut, Own
    <3>5. h.config.route # NoRoute => k.config.route # NoRoute
      BY <3>1, <3>2
    <3>6. Good(k, net[d])
      BY <3>3, <3>4, <3>5, OthersLookUp
    <3> QED BY <1>4, <2>2, <3>6 DEF k
  <2> QED BY <2>1, <2>2
<1> QED BY <1>4, <1>5, <1>6 DEF ConnIInv, ConnTypeOK

\* What the invariant says of the connection of a step.
LEMMA OneOf ==
  ASSUME ConnIInv, NEW c \in Conn, NEW h, h = Load(c)
  PROVE  /\ Typed(h) /\ h.config = config /\ \A f \in Own : h[f] = conn[c][f]
         /\ DOMAIN conn[c] = Own /\ conn[c] \in Handlers /\ net[c] \in Clients
         /\ Good(h, net[c]) /\ Len(net[c].asked) <= MaxRequests[c]
<1>1. /\ conn[c] \in Handlers /\ net[c] \in Clients /\ Len(net[c].asked) <= MaxRequests[c]
      /\ Coherent(config) /\ Good(Whole(conn[c], config), net[c])
  BY DEF ConnIInv, ConnTypeOK
<1>2. h = Whole(conn[c], config)
  BY DEF Load, Whole
<1> QED BY <1>1, <1>2, WholeIs

\* A handler is stored, and the client has its answer if one was added (Store).
LEMMA StoreIs ==
  ASSUME ConnIInv, NEW c \in Conn, NEW s, Store(c, s), NEW n, n = net[c],
         NEW m, m = [n EXCEPT !.owed = n.owed /\ Len(s.answers) = Len(conn[c].answers)]
  PROVE  /\ config' = s.config /\ conn' = [conn EXCEPT ![c] = [f \in Own |-> s[f]]]
         /\ net' = [net EXCEPT ![c] = m] /\ m \in Clients
         /\ \A u, r : u = s /\ r.answers = conn[c].answers => ClientAfter(m, n, u, r)
<1>1. DOMAIN conn[c] = Own /\ n \in Clients
  BY OneOf
<1>2. config' = s.config /\ conn' = [conn EXCEPT ![c] = [f \in Own |-> s[f]]]
  BY <1>1 DEF Store
<1>3. net' = [net EXCEPT ![c].owed = @ /\ Len(s.answers) = Len(conn[c].answers)]
  BY DEF Store
<1>4. net' = [net EXCEPT ![c] = m]
  BY <1>3
<1>5. n.owed \in BOOLEAN
  BY <1>1 DEF Clients
<1>6. m \in Clients
  BY <1>1, <1>5 DEF Clients
<1>7. m.owed <=> n.owed /\ Len(s.answers) = Len(conn[c].answers)
  BY <1>1 DEF Clients
<1>8. m.asked = n.asked /\ m.coming = n.coming /\ m.ended = n.ended /\ m.patient = n.patient
  BY <1>1 DEF Clients
<1> QED BY <1>2, <1>4, <1>6, <1>7, <1>8 DEF ClientAfter

LEMMA EventKeeps ==
  ASSUME ConnIInv, NEW c \in Conn, Event(c)
  PROVE  ConnIInv'
<1> DEFINE h == Load(c)
           n == net[c]
           s == [h EXCEPT !.edge = FALSE]
<1>1. PICK again \in BOOLEAN, starts \in BOOLEAN :
        \E r \in {Retry(s, again)} :
          IF r.cgi # NoCgi THEN Store(c, r)
          ELSE \E t \in {handleHTTP(r, starts)} : \E u \in {Delegate(t)} : Store(c, u)
  BY DEF Event
<1> DEFINE r == Retry(s, again)
           u == IF r.cgi # NoCgi THEN r ELSE Delegate(handleHTTP(r, starts))
           m == [n EXCEPT !.owed = n.owed /\ Len(u.answers) = Len(conn[c].answers)]
<1>2. Store(c, u)
  BY <1>1
<1>3. /\ Typed(h) /\ h.config = config /\ \A f \in Own : h[f] = conn[c][f]
      /\ n \in Clients /\ Good(h, n) /\ Len(n.asked) <= MaxRequests[c]
  <2> HIDE DEF r, u
  <2> QED BY OneOf
<1> HIDE DEF h, n, r, u, m
<1>4. ~h.closed /\ h.answers = conn[c].answers
  <2>1. ~conn[c].closed
    BY DEF Event
  <2>2. "closed" \in Own /\ "answers" \in Own
    BY DEF Own, Members
  <2> QED BY <1>3, <2>1, <2>2
<1>5. Typed(s) /\ SameBut(s, h, {"edge"})
  <2>1. Typed(s)
    BY <1>3 DEF Typed, Members
  <2>2. SameBut(s, h, {"edge"})
    BY <1>3 DEF SameBut, Typed, Members
  <2> QED BY <2>1, <2>2
<1> HIDE DEF s
<1>6. /\ config' = u.config /\ conn' = [conn EXCEPT ![c] = [f \in Own |-> u[f]]]
      /\ net' = [net EXCEPT ![c] = m] /\ m \in Clients
      /\ \A uu, rr : uu = u /\ rr.answers = conn[c].answers => ClientAfter(m, n, uu, rr)
  <2>1. n = net[c]
    BY DEF n
  <2>2. m = [n EXCEPT !.owed = n.owed /\ Len(u.answers) = Len(conn[c].answers)]
    BY DEF m
  <2> QED BY ONLY ConnIInv, c \in Conn, <1>2, <2>1, <2>2, StoreIs
<1>7. ClientAfter(m, n, u, h)
  BY <1>4, <1>6
<1>8. Typed(u) /\ Good(u, m) /\ (h.config.route # NoRoute => u.config.route # NoRoute)
  <2>1. r = Retry(s, again)
    BY DEF r
  <2>2. u = IF r.cgi # NoCgi THEN r ELSE Delegate(handleHTTP(r, starts))
    BY DEF u
  <2>3. Typed(h) /\ n \in Clients /\ Good(h, n) /\ ~h.closed /\ m \in Clients /\ again \in BOOLEAN /\ starts \in BOOLEAN
    BY <1>3, <1>4, <1>6
  <2> QED BY ONLY <2>1, <2>2, <2>3, <1>5, <1>7, EventHandled
<1>9. Len(m.asked) <= MaxRequests[c]
  BY <1>3, <1>7 DEF ClientAfter
<1> QED BY <1>3, <1>6, <1>8, <1>9, StepOfOne

LEMMA sendCgiResponseKeeps ==
  ASSUME ConnIInv, NEW c \in Conn, sendCgiResponse(c)
  PROVE  ConnIInv'
<1> DEFINE h == Load(c)
           n == net[c]
           v == _sendResponse(h, h.cgi, "cgi")
           t == [v EXCEPT !.cgi = NoCgi, !.watchesCgi = FALSE, !.request = reset(v.request)]
           m == [n EXCEPT !.owed = n.owed /\ Len(t.answers) = Len(conn[c].answers)]
<1>1. /\ Typed(h) /\ h.config = config /\ \A f \in Own : h[f] = conn[c][f]
      /\ n \in Clients /\ Good(h, n) /\ Len(n.asked) <= MaxRequests[c]
  BY OneOf
<1>2. ~h.closed /\ h.answers = conn[c].answers /\ h.watchesCgi /\ h.cgi = conn[c].cgi
  <2>1. ~conn[c].closed /\ conn[c].watchesCgi
    BY DEF sendCgiResponse
  <2>2. "closed" \in Own /\ "answers" \in Own /\ "watchesCgi" \in Own /\ "cgi" \in Own
    BY DEF Own, Members
  <2> HIDE DEF h
  <2> QED BY <1>1, <2>1, <2>2
<1>3. Store(c, t)
  <2>1. Store(c, [_sendResponse(h, conn[c].cgi, "cgi") EXCEPT
                    !.cgi = NoCgi, !.watchesCgi = FALSE, !.request = reset(@)])
    BY DEF sendCgiResponse
  <2> HIDE DEF h
  <2> QED BY <1>2, <2>1
<1> HIDE DEF h, n, m
<1>4. Typed(v) /\ SameBut(v, h, {"epolloutShouldOpen", "fails", "room", "answers"})
  <2>1. h.cgi \in Environments /\ "cgi" \in Fail
    BY <1>1 DEF Typed, Fail
  <2> QED BY <1>1, <2>1, SendEffect
<1> HIDE DEF v
<1>5. /\ Typed(t) /\ SameBut(t, v, {"cgi", "watchesCgi", "request"})
      /\ t.cgi = NoCgi /\ ~t.watchesCgi /\ t.request = reset(h.request)
      /\ t.config = v.config
  <2>1. v.request = h.request /\ v.request \in Requests
    BY <1>4 DEF SameBut, Members, Typed
  <2>2. reset(v.request) \in Requests /\ NoCgi \in Environments
    <3>1. NoRoute \in Routes \cup {NoRoute} /\ v.request \in Requests
      BY <2>1
    <3> QED BY <3>1, ResetIsTyped, MadeIsTyped
  <2>3. Typed(t)
    BY <1>4, <2>2 DEF Typed, Members
  <2>4. SameBut(t, v, {"cgi", "watchesCgi", "request"})
    BY <1>4 DEF SameBut, Typed, Members
  <2>5. t.cgi = NoCgi /\ ~t.watchesCgi /\ t.request = reset(v.request) /\ t.config = v.config
    BY <1>4 DEF Typed, Members
  <2> QED BY <2>1, <2>3, <2>4, <2>5
<1> HIDE DEF t
<1>6. /\ config' = t.config /\ conn' = [conn EXCEPT ![c] = [f \in Own |-> t[f]]]
      /\ net' = [net EXCEPT ![c] = m] /\ m \in Clients
      /\ \A uu, rr : uu = t /\ rr.answers = conn[c].answers => ClientAfter(m, n, uu, rr)
  <2>1. n = net[c]
    BY DEF n
  <2>2. m = [n EXCEPT !.owed = n.owed /\ Len(t.answers) = Len(conn[c].answers)]
    BY DEF m
  <2> QED BY ONLY ConnIInv, c \in Conn, <1>3, <2>1, <2>2, StoreIs
<1>7. ClientAfter(m, n, t, h)
  BY <1>2, <1>6
<1>8. Good(t, m)
  <2>1. v = _sendResponse(h, h.cgi, "cgi")
    BY DEF v
  <2> QED BY ONLY <2>1, <1>1, <1>2, <1>5, <1>6, <1>7, ScriptIsAnswered
<1>9. t.config = config
  BY <1>1, <1>4, <1>5 DEF SameBut, Members
<1>10. Len(m.asked) <= MaxRequests[c]
  BY <1>1, <1>7 DEF ClientAfter
<1> QED BY <1>5, <1>6, <1>8, <1>9, <1>10, StepOfOne

\* Only the client takes a step.
LEMMA ClientStep ==
  ASSUME ConnIInv, NEW c \in Conn, NEW m \in Clients, Len(m.asked) <= MaxRequests[c],
         Good(Load(c), m), UNCHANGED <<config, conn>>, net' = [net EXCEPT ![c] = m]
  PROVE  ConnIInv'
<1> DEFINE h == Load(c)
<1>1. /\ Typed(h) /\ h.config = config /\ \A f \in Own : h[f] = conn[c][f]
      /\ DOMAIN conn[c] = Own /\ conn[c] \in Handlers
  BY OneOf
<1>2. Good(h, m)
  OBVIOUS
<1> HIDE DEF h
<1>3. conn[c] = [f \in Own |-> h[f]]
  <2>1. conn[c] = [f \in Own |-> conn[c][f]]
    BY <1>1 DEF Handlers
  <2> QED BY <1>1, <2>1
<1>4. conn' = [conn EXCEPT ![c] = [f \in Own |-> h[f]]]
  <2>1. conn = [conn EXCEPT ![c] = conn[c]]
    BY DEF ConnIInv, ConnTypeOK
  <2> QED BY <1>3, <2>1
<1> QED BY <1>1, <1>2, <1>4, StepOfOne

LEMMA AskKeeps ==
  ASSUME ConnIInv, NEW c \in Conn, Ask(c)
  PROVE  ConnIInv'
<1> DEFINE h == Load(c)
           n == net[c]
<1>1. /\ Typed(h) /\ \A f \in Own : h[f] = conn[c][f]
      /\ n \in Clients /\ Good(h, n)
  BY OneOf
<1>2. PICK message \in Messages :
        net' = [net EXCEPT ![c].coming = message, ![c].asked = Append(@, Last(message)),
                           ![c].owed = TRUE, ![c].patient = @ /\ conn[c].room = Room]
  BY Zenon DEF Ask
<1> DEFINE m == [n EXCEPT !.coming = message, !.asked = Append(n.asked, Last(message)),
                          !.owed = TRUE, !.patient = n.patient /\ conn[c].room = Room]
<1>3. net' = [net EXCEPT ![c] = m]
  BY <1>2
<1>4. /\ ~n.owed /\ ~n.ended /\ ~conn[c].closed /\ n.coming = <<>>
      /\ Len(n.asked) < MaxRequests[c] /\ UNCHANGED <<config, conn>>
  BY DEF Ask
<1> HIDE DEF h, n
<1>5. ~h.closed /\ h.room = conn[c].room
  <2>1. "closed" \in Own /\ "room" \in Own
    BY DEF Own, Members
  <2> QED BY <1>1, <1>4, <2>1
<1> DEFINE L == {p \in Pieces : p.kind \in Final}
<1>6. message \in Seq(Flow) /\ Last(message) \in L
  BY MessageIs
<1>7. /\ n.asked \in Seq(L) /\ n.coming \in Seq(Flow) /\ n.owed \in BOOLEAN
      /\ n.ended \in BOOLEAN /\ n.patient \in BOOLEAN
      /\ n = [coming |-> n.coming, asked |-> n.asked, owed |-> n.owed, ended |-> n.ended,
              patient |-> n.patient]
  BY <1>1 DEF Clients, Flow
<1>8. /\ m.coming = message /\ m.asked = Append(n.asked, Last(message)) /\ m.owed = TRUE
      /\ m.ended = n.ended /\ (m.patient => n.patient /\ h.room = Room)
      /\ m = [coming |-> message, asked |-> Append(n.asked, Last(message)), owed |-> TRUE,
              ended |-> n.ended, patient |-> n.patient /\ conn[c].room = Room]
  <2> DEFINE A == Append(n.asked, Last(message))
             p == n.patient /\ conn[c].room = Room
  <2>1. p => n.patient /\ h.room = Room
    BY <1>5
  <2> HIDE DEF A, p
  <2>2. m = [n EXCEPT !.coming = message, !.asked = A, !.owed = TRUE, !.patient = p]
    BY DEF A, p
  <2> HIDE DEF m
  <2>3. m = [coming |-> message, asked |-> A, owed |-> TRUE, ended |-> n.ended, patient |-> p]
    BY ONLY <1>7, <2>2
  <2> QED BY <2>1, <2>3 DEF A, p
<1> HIDE DEF m, L
<1>9. m \in Clients
  <2> DEFINE A == Append(n.asked, Last(message))
             p == n.patient /\ conn[c].room = Room
  <2>1. A \in Seq(L)
    BY <1>6, <1>7
  <2>2. p \in BOOLEAN
    OBVIOUS
  <2> HIDE DEF A, p
  <2>3. m = [coming |-> message, asked |-> A, owed |-> TRUE, ended |-> n.ended, patient |-> p]
    BY <1>8 DEF A, p
  <2>4. Clients = [coming : Seq(Flow), asked : Seq(L), owed : BOOLEAN, ended : BOOLEAN,
                   patient : BOOLEAN]
    BY DEF Clients, Flow, L
  <2> QED BY ONLY <1>6, <1>7, <2>1, <2>2, <2>3, <2>4
<1>10. Len(m.asked) <= MaxRequests[c]
  <2>1. Len(m.asked) = Len(n.asked) + 1 /\ Len(n.asked) \in Nat
    <3>1. ASSUME NEW C, NEW w \in Seq(C), NEW x PROVE Len(Append(w, x)) = Len(w) + 1 /\ Len(w) \in Nat
      OBVIOUS
    <3> QED BY ONLY <3>1, <1>7, <1>8
  <2>2. MaxRequests[c] \in Nat
    BY ConnectionAssumption
  <2> QED BY <1>4, <2>1, <2>2
<1>11. Good(h, m)
  BY ONLY <1>1, <1>4, <1>5, <1>8, <1>9, message \in Messages, Asks
<1> QED BY <1>3, <1>4, <1>9, <1>10, <1>11, ClientStep DEF h

LEMMA EndKeeps ==
  ASSUME ConnIInv, NEW c \in Conn, End(c)
  PROVE  ConnIInv'
<1> DEFINE h == Load(c)
           n == net[c]
           m == [n EXCEPT !.ended = TRUE, !.coming = Append(n.coming, EndOfFile),
                          !.patient = n.patient /\ ~n.owed]
<1>1. Typed(h) /\ n \in Clients /\ Good(h, n) /\ Len(n.asked) <= MaxRequests[c]
  BY OneOf
<1>2. net' = [net EXCEPT ![c] = m] /\ UNCHANGED <<config, conn>>
  BY DEF End
<1> HIDE DEF h, n
<1> DEFINE L == {p \in Pieces : p.kind \in Final}
<1>3. /\ n.asked \in Seq(L) /\ n.coming \in Seq(Flow) /\ n.owed \in BOOLEAN
      /\ n.ended \in BOOLEAN /\ n.patient \in BOOLEAN
      /\ n = [coming |-> n.coming, asked |-> n.asked, owed |-> n.owed, ended |-> n.ended,
              patient |-> n.patient]
  BY <1>1 DEF Clients, Flow
<1>4. /\ m.coming = Append(n.coming, EndOfFile) /\ m.asked = n.asked /\ m.owed = n.owed
      /\ m.ended = TRUE /\ (m.patient => n.patient /\ ~n.owed)
      /\ m = [coming |-> Append(n.coming, EndOfFile), asked |-> n.asked, owed |-> n.owed,
              ended |-> TRUE, patient |-> n.patient /\ ~n.owed]
  <2> DEFINE A == Append(n.coming, EndOfFile)
             p == n.patient /\ ~n.owed
  <2>1. p => n.patient /\ ~n.owed
    OBVIOUS
  <2> HIDE DEF A, p
  <2>2. m = [n EXCEPT !.ended = TRUE, !.coming = A, !.patient = p]
    BY DEF A, p
  <2> HIDE DEF m
  <2>3. m = [coming |-> A, asked |-> n.asked, owed |-> n.owed, ended |-> TRUE, patient |-> p]
    BY ONLY <1>3, <2>2
  <2> QED BY <2>1, <2>3 DEF A, p
<1> HIDE DEF m, L
<1>5. m \in Clients
  <2> DEFINE A == Append(n.coming, EndOfFile)
             p == n.patient /\ ~n.owed
  <2>1. A \in Seq(Flow)
    <3>1. EndOfFile \in Flow
      BY DEF Flow
    <3> QED BY ONLY <1>3, <3>1
  <2>2. p \in BOOLEAN
    OBVIOUS
  <2> HIDE DEF A, p
  <2>3. m = [coming |-> A, asked |-> n.asked, owed |-> n.owed, ended |-> TRUE, patient |-> p]
    BY <1>4 DEF A, p
  <2>4. Clients = [coming : Seq(Flow), asked : Seq(L), owed : BOOLEAN, ended : BOOLEAN,
                   patient : BOOLEAN]
    BY DEF Clients, Flow, L
  <2> QED BY ONLY <1>3, <2>1, <2>2, <2>3, <2>4
<1>6. Good(h, m)
  BY ONLY <1>1, <1>4, <1>5, EndIsAwaited
<1> QED BY <1>1, <1>2, <1>4, <1>5, <1>6, ClientStep DEF h

LEMMA ArriveKeeps ==
  ASSUME ConnIInv, NEW c \in Conn, Arrive(c)
  PROVE  ConnIInv'
<1> DEFINE h == Load(c)
           n == net[c]
           box == Append(conn[c].inbox, Head(n.coming))
           g == [h EXCEPT !.inbox = box, !.edge = TRUE]
           m == [n EXCEPT !.coming = Tail(n.coming)]
<1>1. /\ Typed(h) /\ h.config = config /\ \A f \in Own : h[f] = conn[c][f]
      /\ DOMAIN conn[c] = Own /\ conn[c] \in Handlers /\ n \in Clients /\ Good(h, n)
      /\ Len(n.asked) <= MaxRequests[c]
  BY OneOf
<1>2. /\ net' = [net EXCEPT ![c] = m] /\ config' = config /\ n.coming # <<>>
      /\ conn' = [conn EXCEPT ![c] = [conn[c] EXCEPT !.inbox = box, !.edge = TRUE]]
  BY DEF Arrive
<1> HIDE DEF h, n, box
<1>3. h.inbox = conn[c].inbox
  <2>1. "inbox" \in Own
    BY DEF Own, Members
  <2> QED BY <1>1, <2>1
<1>4. /\ n.coming \in Seq(Flow) /\ h.inbox \in Seq(Flow)
      /\ n = [coming |-> n.coming, asked |-> n.asked, owed |-> n.owed, ended |-> n.ended,
              patient |-> n.patient]
  BY <1>1 DEF Clients, Typed, Flow
<1>5. box \in Seq(Flow) /\ Tail(n.coming) \in Seq(Flow)
  <2>1. box = Append(h.inbox, Head(n.coming))
    BY <1>3 DEF box
  <2> QED BY ONLY <1>2, <1>4, <2>1, PipeFlows
<1>6. /\ m \in Clients /\ m.coming = Tail(n.coming) /\ m.asked = n.asked /\ m.owed = n.owed
      /\ m.ended = n.ended /\ m.patient = n.patient
  BY <1>1, <1>4, <1>5 DEF Clients, Flow
<1>7. Typed(g)
  BY <1>1, <1>5 DEF Typed, Members, Flow
<1>8. SameBut(g, h, {"inbox", "edge"}) /\ g.inbox = box /\ g.edge = TRUE
  <2>1. DOMAIN h = Members
    BY <1>1 DEF Typed
  <2>2. SameBut(g, h, {"inbox", "edge"})
    BY ONLY <2>1 DEF g, SameBut
  <2>3. g.inbox = box /\ g.edge = TRUE
    BY ONLY <2>1 DEF g, Members
  <2> QED BY <2>2, <2>3
<1>9. [conn[c] EXCEPT !.inbox = box, !.edge = TRUE] = [f \in Own |-> g[f]]
  <2> DEFINE k == [conn[c] EXCEPT !.inbox = box, !.edge = TRUE]
  <2>1. k = [f \in Own |-> k[f]]
    BY <1>1 DEF Handlers
  <2>2. \A f \in Own : k[f] = IF f = "inbox" THEN box ELSE IF f = "edge" THEN TRUE ELSE conn[c][f]
    BY <1>1
  <2>3. \A f \in Own : g[f] = IF f = "inbox" THEN box ELSE IF f = "edge" THEN TRUE ELSE conn[c][f]
    BY <1>1 DEF Typed, Own
  <2> HIDE DEF k
  <2>4. k = [f \in Own |-> g[f]]
    BY <2>1, <2>2, <2>3
  <2> QED BY <2>4 DEF k
<1>10. g.config = config
  BY <1>1, <1>8 DEF SameBut, Members
<1> HIDE DEF g, m
<1>11. Good(g, m)
  <2>1. g.inbox = Append(h.inbox, Head(n.coming))
    BY <1>3, <1>8 DEF box
  <2> QED BY ONLY <1>1, <1>2, <1>6, <1>8, <2>1, Arrives
<1> QED BY <1>1, <1>2, <1>6, <1>7, <1>9, <1>10, <1>11, StepOfOne

LEMMA DrainKeeps ==
  ASSUME ConnIInv, NEW c \in Conn, Drain(c)
  PROVE  ConnIInv'
<1> DEFINE h == Load(c)
           n == net[c]
           e == conn[c].edge \/ conn[c].epollout
           g == [h EXCEPT !.room = Room, !.edge = e]
<1>1. /\ Typed(h) /\ h.config = config /\ \A f \in Own : h[f] = conn[c][f]
      /\ DOMAIN conn[c] = Own /\ conn[c] \in Handlers /\ n \in Clients /\ Good(h, n)
      /\ Len(n.asked) <= MaxRequests[c]
  BY OneOf
<1>2. /\ net' = [net EXCEPT ![c] = n] /\ config' = config
      /\ conn' = [conn EXCEPT ![c] = [conn[c] EXCEPT !.room = Room, !.edge = e]]
  <2>1. net = [net EXCEPT ![c] = net[c]]
    BY DEF ConnIInv, ConnTypeOK
  <2> QED BY <2>1 DEF Drain
<1> HIDE DEF h, n
<1>3. e \in BOOLEAN /\ (e <=> h.edge \/ h.epollout)
  <2>1. "edge" \in Own /\ "epollout" \in Own
    BY DEF Own, Members
  <2>2. h.edge = conn[c].edge /\ h.epollout = conn[c].epollout
    BY <1>1, <2>1
  <2> QED BY <2>2
<1> HIDE DEF e
<1>4. Typed(g)
  <2>1. Room \in 0..Room
    BY ConnectionAssumption
  <2> QED BY <1>1, <1>3, <2>1 DEF Typed, Members
<1>5. SameBut(g, h, {"room", "edge"}) /\ g.room = Room /\ g.edge = e
  <2>1. DOMAIN h = Members
    BY <1>1 DEF Typed
  <2>2. SameBut(g, h, {"room", "edge"})
    BY ONLY <2>1 DEF g, SameBut
  <2>3. g.room = Room /\ g.edge = e
    BY ONLY <2>1 DEF g, Members
  <2> QED BY <2>2, <2>3
<1>6. [conn[c] EXCEPT !.room = Room, !.edge = e] = [f \in Own |-> g[f]]
  <2> DEFINE k == [conn[c] EXCEPT !.room = Room, !.edge = e]
  <2>1. k = [f \in Own |-> k[f]]
    BY <1>1 DEF Handlers
  <2>2. \A f \in Own : k[f] = IF f = "room" THEN Room ELSE IF f = "edge" THEN e ELSE conn[c][f]
    BY <1>1
  <2>3. \A f \in Own : g[f] = IF f = "room" THEN Room ELSE IF f = "edge" THEN e ELSE conn[c][f]
    BY <1>1 DEF Typed, Own
  <2> HIDE DEF k
  <2>4. k = [f \in Own |-> g[f]]
    BY <2>1, <2>2, <2>3
  <2> QED BY <2>4 DEF k
<1>7. g.config = config
  BY <1>1, <1>5 DEF SameBut, Members
<1> HIDE DEF g
<1>8. Good(g, n)
  <2>1. g.edge <=> h.edge \/ h.epollout
    BY <1>3, <1>5
  <2> QED BY ONLY <1>1, <1>5, <2>1, Drains
<1> QED BY <1>1, <1>2, <1>4, <1>6, <1>7, <1>8, StepOfOne

LEMMA NextKeeps ==
  ASSUME ConnIInv, [ConnNext]_connVars
  PROVE  ConnIInv'
<1>1. ASSUME NEW c \in Conn, Event(c) PROVE ConnIInv'
  BY <1>1, EventKeeps
<1>2. ASSUME NEW c \in Conn, sendCgiResponse(c) PROVE ConnIInv'
  BY <1>2, sendCgiResponseKeeps
<1>3. ASSUME NEW c \in Conn, Ask(c) PROVE ConnIInv'
  BY <1>3, AskKeeps
<1>4. ASSUME NEW c \in Conn, End(c) PROVE ConnIInv'
  BY <1>4, EndKeeps
<1>5. ASSUME NEW c \in Conn, Arrive(c) PROVE ConnIInv'
  BY <1>5, ArriveKeeps
<1>6. ASSUME NEW c \in Conn, Drain(c) PROVE ConnIInv'
  BY <1>6, DrainKeeps
<1>7. CASE UNCHANGED connVars
  <2>1. config' = config /\ conn' = conn /\ net' = net
    BY <1>7 DEF connVars
  <2>2. \A c \in Conn : Good(Whole(conn'[c], config'), net'[c])
    BY <2>1 DEF ConnIInv
  <2> QED BY <2>1, <2>2 DEF ConnIInv, ConnTypeOK
<1> QED BY <1>1, <1>2, <1>3, <1>4, <1>5, <1>6, <1>7 DEF ConnNext

\* A connection nobody has written to.
LEMMA FirstIsGood ==
  ASSUME NEW h, Typed(h), h.request = NoRequest, h.cgi = NoCgi,
         ~h.epolloutShouldOpen, ~h.epolloutShouldClose, ~h.shouldClose, ~h.closed,
         ~h.watchesCgi, ~h.epollout, h.inbox = <<>>, h.answers = <<>>, h.fails = {},
         NEW n \in Clients, n.coming = <<>>, n.asked = <<>>, ~n.owed
  PROVE  Good(h, n)
<1>1. Len(h.answers) = 0 /\ Len(n.asked) = 0
  BY EmptySeq
<1>2. Pipe(h, n) = <<>>
  <2>1. <<>> \in Seq(Flow)
    BY EmptySeq
  <2> QED BY <2>1, ConcatEmptySeq DEF Pipe
<1>3. Len(Pipe(h, n)) = 0 /\ Finals(Pipe(h, n)) = {}
  <2>1. Len(Pipe(h, n)) = 0
    BY <1>2, EmptySeq
  <2> QED BY <2>1 DEF Finals
<1>4. FirstTries(h.answers) = {}
  BY <1>1 DEF FirstTries
<1>5. Cardinality(Finals(Pipe(h, n))) = 0 /\ Cardinality(FirstTries(h.answers)) = 0
  BY <1>3, <1>4, FS_EmptySet
<1>6. /\ h.request.state = "none" /\ h.request.close = FALSE /\ h.request.query = <<>>
  BY NoRequestIs
<1>7. OpenInv(h, n)
  BY <1>1, <1>3, <1>5, <1>6 DEF OpenInv
<1>8. WokenInv(h, n)
  BY DEF WokenInv, Typed
<1>9. OneAtATime(h, n)
  BY <1>3, <1>6 DEF OneAtATime, Silent
<1>10. AnswersAreCounted(h, n)
  BY <1>1 DEF AnswersAreCounted
<1>11. AnswersAreOwn(h, n) /\ LimitIsOfOwnLocation(h, n)
  BY <1>1 DEF AnswersAreOwn, LimitIsOfOwnLocation
<1>12. AnswersHaveTheirCause(h, n)
  BY <1>1, <1>5 DEF AnswersHaveTheirCause
<1>13. ScriptsGetTheirRequest(h, n)
  BY DEF ScriptsGetTheirRequest
<1>14. HandlerInv(h, n)
  BY <1>7, <1>8, <1>9, <1>10, <1>11, <1>12, <1>13 DEF HandlerInv
<1>15. CutOff(h, n) /\ Served(h, n) /\ ~HasLookedUp(h)
  BY <1>1, <1>6 DEF CutOff, Served, HasLookedUp
<1> QED BY <1>14, <1>15 DEF Good

LEMMA InitHolds == ConnInit => ConnIInv
<1> SUFFICES ASSUME ConnInit PROVE ConnIInv
  OBVIOUS
<1> DEFINE g == [request |-> NoRequest, cgi |-> NoCgi,
                 epolloutShouldOpen |-> FALSE, epolloutShouldClose |-> FALSE,
                 shouldClose |-> FALSE, closed |-> FALSE, watchesCgi |-> FALSE,
                 epollout |-> FALSE, edge |-> FALSE, inbox |-> <<>>, room |-> Room,
                 answers |-> <<>>, fails |-> {}]
           n == [coming |-> <<>>, asked |-> <<>>, owed |-> FALSE, ended |-> FALSE,
                 patient |-> TRUE]
<1>1. conn = [c \in Conn |-> g] /\ net = [c \in Conn |-> n]
  BY DEF ConnInit
<1>2. config = [path |-> <<>>, route |-> NoRoute] /\ Coherent(config)
  BY DEF ConnInit, ConfigInit, Coherent
<1>3. NoRequest \in Requests /\ NoCgi \in Environments
  <2>1. NoRequest \in Requests
    BY DEF NoRequest, Requests, PieceKinds, Targets, Queries, Lengths
  <2>2. NoRoute \in Routes \cup {NoRoute}
    OBVIOUS
  <2> QED BY <2>1, <2>2, MadeIsTyped
<1>4. g \in Handlers
  <2>1. Room \in 0..Room
    BY ConnectionAssumption
  <2>2. <<>> \in Seq(Pieces \cup {EndOfFile}) /\ <<>> \in Seq(Answers)
    BY EmptySeq
  <2>3. {} \in SUBSET Fail
    OBVIOUS
  <2> QED BY <1>3, <2>1, <2>2, <2>3 DEF Handlers
<1>5. n \in Clients
  <2>1. <<>> \in Seq(Pieces \cup {EndOfFile}) /\ <<>> \in Seq({p \in Pieces : p.kind \in Final})
    BY EmptySeq
  <2> QED BY <2>1 DEF Clients
<1>6. /\ g.request = NoRequest /\ g.cgi = NoCgi /\ ~g.epolloutShouldOpen
      /\ ~g.epolloutShouldClose /\ ~g.shouldClose /\ ~g.closed /\ ~g.watchesCgi /\ ~g.epollout
      /\ g.inbox = <<>> /\ g.answers = <<>> /\ g.fails = {}
  OBVIOUS
<1>7. n.coming = <<>> /\ n.asked = <<>> /\ ~n.owed
  OBVIOUS
<1> HIDE DEF g, n
<1>8. Good(Whole(g, config), n)
  <2> DEFINE h == Whole(g, config)
  <2>1. Typed(h) /\ \A f \in Own : h[f] = g[f]
    BY <1>2, <1>4, WholeIs
  <2> HIDE DEF h
  <2>2. /\ h.request = g.request /\ h.cgi = g.cgi
        /\ h.epolloutShouldOpen = g.epolloutShouldOpen
        /\ h.epolloutShouldClose = g.epolloutShouldClose
        /\ h.shouldClose = g.shouldClose /\ h.closed = g.closed
        /\ h.watchesCgi = g.watchesCgi /\ h.epollout = g.epollout
        /\ h.inbox = g.inbox /\ h.answers = g.answers /\ h.fails = g.fails
    BY <2>1 DEF Own, Members
  <2>3. Good(h, n)
    BY <1>5, <1>6, <1>7, <2>1, <2>2, FirstIsGood
  <2> QED BY <2>3 DEF h
<1>9. \A c \in Conn : Len(net[c].asked) <= MaxRequests[c]
  BY <1>1, <1>7, EmptySeq, ConnectionAssumption
<1>10. ConnTypeOK
  BY <1>1, <1>4, <1>5, <1>9 DEF ConnTypeOK
<1> QED BY <1>1, <1>2, <1>8, <1>10 DEF ConnIInv

LEMMA ConnectionsHold == ConnSpec => []ConnIInv
<1>1. ConnInit => ConnIInv
  BY InitHolds
<1>2. ConnIInv /\ [ConnNext]_connVars => ConnIInv'
  BY NextKeeps
<1> QED BY <1>1, <1>2, PTL DEF ConnSpec
----------------------------------------------------------------------------
(* What it comes to.                                                       *)

\* The invariant without the record that holds handler and ServerConfig together.
LEMMA EachHolds ==
  ASSUME ConnIInv, NEW c \in Conn
  PROVE  /\ HandlerInv(conn[c], net[c]) /\ CutOff(conn[c], net[c]) /\ Served(conn[c], net[c])
         /\ ~conn[c].closed /\ HasLookedUp(conn[c]) => config.route # NoRoute
<1> DEFINE h == Load(c)
           g == conn[c]
           n == net[c]
<1>1. /\ Typed(h) /\ h.config = config /\ \A f \in Own : h[f] = g[f]
      /\ Good(h, n)
  BY OneOf
<1> HIDE DEF h, g, n
<1>2. /\ g.closed = h.closed /\ g.fails = h.fails /\ g.answers = h.answers
      /\ g.epolloutShouldOpen = h.epolloutShouldOpen /\ g.watchesCgi = h.watchesCgi
      /\ g.request = h.request /\ g.epollout = h.epollout /\ g.room = h.room
      /\ g.cgi = h.cgi /\ g.inbox = h.inbox /\ g.edge = h.edge
  BY <1>1 DEF Own, Members
<1>3. Pipe(g, n) = Pipe(h, n)
  BY <1>2 DEF Pipe
<1>4. WokenInv(h, n) => WokenInv(g, n)
  BY <1>2 DEF WokenInv
<1>5. HandlerInv(h, n) /\ SameBut(g, h, {"config", "edge", "room", "inbox"})
  <2>1. Members \ {"config", "edge", "room", "inbox"} \subseteq Own
    BY DEF Own
  <2> QED BY <1>1, <2>1 DEF Good, SameBut
<1>6. HandlerInv(g, n)
  BY <1>2, <1>3, <1>4, <1>5, HandlerStays
<1>7. CutOff(g, n) /\ Served(g, n)
  BY <1>1, <1>2 DEF Good, CutOff, Served
<1>8. ~g.closed /\ HasLookedUp(g) => config.route # NoRoute
  BY <1>1, <1>2 DEF Good, HasLookedUp
<1> QED BY <1>6, <1>7, <1>8 DEF g, n

\* Every answer belongs to a request of its connection, on the first try to the one
\* whose turn it is, and is made by the route of that request's own path, whatever
\* other connections look up in the ServerConfig they share (handleHTTP,
\* sendCgiResponse, setCorrectRoute).
THEOREM AnswersBelongToRequests == ConnSpec => []AnswersHaveRequests
<1>1. ConnIInv => AnswersHaveRequests
  BY EachHolds DEF AnswersHaveRequests, HandlerInv
<1> QED BY <1>1, ConnectionsHold, PTL

\* A body is refused by the limit of its own location, and a script is told its own
\* request: neither the shared current route nor what reset keeps mixes them up
\* (_setMaxBodySize, _initEnv, reset).
THEOREM RequestsStayApart == ConnSpec => []RequestsAreNotMixedUp
<1>1. ConnIInv => RequestsAreNotMixedUp
  BY EachHolds DEF RequestsAreNotMixedUp, HandlerInv
<1> QED BY <1>1, ConnectionsHold, PTL

\* Nobody who is owed an answer is cut off without having asked for it or having made
\* a send fail (shouldClose, reset).
THEOREM NobodyElseIsCutOff == ConnSpec => []OnlyTheAskedAreCutOff
<1>1. ConnIInv => OnlyTheAskedAreCutOff
  BY EachHolds DEF OnlyTheAskedAreCutOff, CutOff
<1> QED BY <1>1, ConnectionsHold, PTL

\* A client that reads each answer before it sends the next request has all its answers
\* at the first try, and whole exactly if an empty socket takes them (_sendResponse).
THEOREM ThePatientAreServed == ConnSpec => []PatientClientsAreServed
<1>1. ConnIInv => PatientClientsAreServed
  BY EachHolds DEF PatientClientsAreServed, Served, Fair
<1> QED BY <1>1, ConnectionsHold, PTL

\* What waits is woken: what handler, request and pipe are when they wait, and that epoll
\* has an event, or will have one, for whoever is owed an answer (_createRequest, _addCgi,
\* _delegateToConnectionHandler).
THEOREM WaitingIsWoken == ConnSpec => []WhatWaitsIsWoken
<1>1. ConnIInv => WhatWaitsIsWoken
  <2> SUFFICES ASSUME ConnIInv PROVE WhatWaitsIsWoken
    OBVIOUS
  <2>1. ConnTypeOK /\ CacheIsCoherent
    BY DEF ConnIInv, Coherent, CacheIsCoherent
  <2>2. ConnInv
    BY <2>1, EachHolds DEF ConnInv
  <2>3. ASSUME NEW c \in Conn
        PROVE  PendingIsWatched(conn[c]) /\ NoWakeupIsLost(conn[c], net[c])
    <3> DEFINE h == conn[c]
               n == net[c]
    <3>1. ~h.closed /\ h.fails \subseteq {"page"} => WokenInv(h, n)
      BY EachHolds DEF HandlerInv
    <3>2. h.room \in 0..Room /\ Room \in Nat
      BY <2>1, ConnectionAssumption DEF ConnTypeOK, Handlers
    <3>3. Finals(n.coming) # {} => n.coming # <<>>
      BY EmptySeq DEF Finals
    <3> HIDE DEF h, n
    <3>4. PendingIsWatched(h)
      BY <3>1 DEF PendingIsWatched, WokenInv
    <3>5. NoWakeupIsLost(h, n)
      BY <3>1, <3>2, <3>3 DEF NoWakeupIsLost, WokenInv
    <3> QED BY <3>4, <3>5 DEF h, n
  <2> QED BY <2>1, <2>2, <2>3 DEF WhatWaitsIsWoken
<1> QED BY <1>1, ConnectionsHold, PTL
=============================================================================
