-------------------------- MODULE HTTPServerProofs --------------------------
(***************************************************************************)
(* The event loop, for every number of descriptors and connections and for *)
(* every size of a batch: what the two maps and the descriptors have to do *)
(* with each other, and what it takes to follow a dangling pointer.  There *)
(* is one lemma for each member function of HTTPServer, on the server's    *)
(* data before and after, and one for each step of the loop.               *)
(***************************************************************************)
EXTENDS HTTPServer, FiniteSetTheorems, WellFoundedInduction, TLAPS

(***************************************************************************)
(* Descriptors.                                                            *)
(***************************************************************************)

\* A set of descriptors that is not empty has a lowest one.
LEMMA LowestExists ==
  ASSUME NEW S \in SUBSET Fd, S # {}
  PROVE  \E f \in S : \A g \in S : f <= g
<1> DEFINE R == OpToRel(<, Nat)
<1>1. IsWellFoundedOn(R, Nat)
  BY NatLessThanWellFounded
<1>2. S \subseteq Nat
  BY BoundsAssumption DEF Fd
<1>3. PICK f \in S : \A g \in S : <<g, f>> \notin R
  BY ONLY <1>1, <1>2, S # {}, WFMin
<1>4. \A g \in S : ~(g < f)
  BY <1>2, <1>3 DEF OpToRel
<1> QED BY <1>2, <1>4

\* The descriptors, and those of them that are free, are finitely many.
LEMMA FiniteFds ==
  ASSUME NEW S \in SUBSET Fd
  PROVE  IsFiniteSet(S) /\ Cardinality(S) \in Nat
<1>1. IsFiniteSet(Fd)
  BY FS_Interval, BoundsAssumption DEF Fd
<1> QED BY <1>1, FS_Subset, FS_CardinalityType

Below(S, f) == {g \in S : g < f}

\* T are the lowest elements of S.
IsBottom(T, S) == T \in SUBSET S /\ \A f \in T, g \in S \ T : f < g

\* The lowest descriptors of a set can be followed by one more.
LEMMA OneMore ==
  ASSUME NEW S \in SUBSET Fd, NEW T, IsBottom(T, S), T # S
  PROVE  \E f \in S : f \notin T /\ Below(S, f) = T /\ IsBottom(T \cup {f}, S)
<1>1. \A f \in S : f \in Nat
  BY BoundsAssumption DEF Fd
<1>2. PICK f \in S \ T : \A g \in S \ T : f <= g
  BY LowestExists DEF IsBottom
<1>3. \A g \in S : g < f <=> g \in T
  BY <1>1, <1>2 DEF IsBottom
<1>4. Below(S, f) = T
  BY ONLY <1>3, IsBottom(T, S) DEF Below, IsBottom
<1>5. \A k \in S \ (T \cup {f}) : f < k
  BY <1>1, <1>2
<1>6. IsBottom(T \cup {f}, S)
  BY <1>2, <1>5 DEF IsBottom
<1> QED BY <1>2, <1>4, <1>6

\* A set of n descriptors has an n-th lowest.
LEMMA NthLowest ==
  ASSUME NEW S \in SUBSET Fd, NEW n \in 1..3, n <= Cardinality(S)
  PROVE  \E f \in S : Cardinality(Below(S, f)) = n - 1
<1>0. \A T : IsBottom(T, S) /\ T # S
               => \E f \in S : f \notin T /\ Below(S, f) = T /\ IsBottom(T \cup {f}, S)
  BY OneMore
<1>1. Cardinality({}) = 0 /\ {} # S
  BY FS_EmptySet
<1>2. PICK f1 \in S : Below(S, f1) = {} /\ IsBottom({} \cup {f1}, S)
  <2>1. IsBottom({}, S)
    BY DEF IsBottom
  <2> QED BY <1>0, <1>1, <2>1
<1>3. IsFiniteSet({f1}) /\ Cardinality({f1}) = 1 /\ {} \cup {f1} = {f1}
  BY FS_Singleton
<1>4. CASE n = 1
  BY <1>1, <1>2, <1>4
<1>5. CASE n # 1
  <2>1. {f1} # S /\ IsBottom({f1}, S)
    BY <1>2, <1>3, <1>5
  <2> DEFINE T == {f1}
  <2>2. PICK f2 \in S : f2 \notin T /\ Below(S, f2) = T /\ IsBottom(T \cup {f2}, S)
    BY <1>0, <2>1
  <2>3. IsFiniteSet(T \cup {f2}) /\ Cardinality(T \cup {f2}) = 2
    BY <1>3, <2>2, FS_AddElement
  <2>4. CASE n = 2
    BY <1>3, <2>2, <2>4
  <2>5. CASE n = 3
    <3> DEFINE U == T \cup {f2}
    <3>1. U # S /\ IsBottom(U, S)
      BY <2>2, <2>3, <2>5
    <3>2. PICK f3 \in S : Below(S, f3) = U
      BY <1>0, <3>1
    <3> QED BY <2>3, <2>5, <3>2
  <2> QED BY <1>5, <2>4, <2>5
<1> QED BY <1>4, <1>5

\* The n-th lowest free descriptor is free if there are n of them.
LEMMA LowestIsFree ==
  ASSUME NEW s, NEW n \in 1..3, n <= Cardinality(FreeFds(s))
  PROVE  /\ Lowest(s, n) \in FreeFds(s)
         /\ Cardinality({g \in FreeFds(s) : g < Lowest(s, n)}) = n - 1
<1>1. FreeFds(s) \in SUBSET Fd
  BY DEF FreeFds
<1>2. \E f \in FreeFds(s) : Cardinality(Below(FreeFds(s), f)) = n - 1
  BY <1>1, NthLowest
<1> QED BY <1>2 DEF Lowest, Below

\* pipe() gives different descriptors.
LEMMA PipesAreFree ==
  ASSUME NEW s, PipesNeeded <= Cardinality(FreeFds(s))
  PROVE  /\ Lowest(s, 2) \in FreeFds(s) /\ Lowest(s, 3) \in FreeFds(s)
         /\ Lowest(s, 2) # Lowest(s, 3)
<1>1. Cardinality(FreeFds(s)) \in Nat
  BY FiniteFds DEF FreeFds
<1>2. /\ 2 <= Cardinality(FreeFds(s)) /\ 3 <= Cardinality(FreeFds(s))
      /\ 2 \in 1..3 /\ 3 \in 1..3
  BY <1>1 DEF PipesNeeded
<1>3. /\ Lowest(s, 2) \in FreeFds(s)
      /\ Cardinality({g \in FreeFds(s) : g < Lowest(s, 2)}) = 2 - 1
  BY <1>2, LowestIsFree
<1>4. /\ Lowest(s, 3) \in FreeFds(s)
      /\ Cardinality({g \in FreeFds(s) : g < Lowest(s, 3)}) = 3 - 1
  BY <1>2, LowestIsFree
<1> QED BY <1>3, <1>4

(***************************************************************************)
(* Member functions: what each does to the data.                           *)
(***************************************************************************)

SameCgi(s, t, h) ==
  /\ t.cgi[h].out = s.cgi[h].out /\ t.cgi[h].in = s.cgi[h].in
  /\ t.cgi[h].inOpen = s.cgi[h].inOpen /\ t.cgi[h].late = s.cgi[h].late
  /\ t.cgi[h].added = s.cgi[h].added

\* The objects are as they were.
SameHandlers(s, t) ==
  /\ t.handlers = s.handlers /\ t.alive = s.alive /\ t.amount = s.amount
  /\ t.made = s.made /\ t.defined = s.defined

\* The descriptors in F are closed, and no other.
Closes(s, t, F) ==
  \A f \in Fd :
    /\ f \in F => t.fds[f] = Closed
    /\ f \notin F => t.fds[f] = s.fds[f] /\ (f \in t.watched <=> f \in s.watched)

\* No accident but that a closed descriptor is kept by a script.
OnlyGhosts(s, t) == t.astray \ {"ghost"} = s.astray \ {"ghost"}

LEMMA CloseEffect ==
  ASSUME NEW s \in Server, NEW F
  PROVE  /\ Close(s, F) \in Server
         /\ SameHandlers(s, Close(s, F)) /\ Close(s, F).cgis = s.cgis
         /\ Closes(s, Close(s, F), F)
         /\ Close(s, F).astray = s.astray /\ Close(s, F).ghosts = s.ghosts
         /\ \A h \in Handler : SameCgi(s, Close(s, F), h)
<1>1. Closed \in Description
  BY DEF Closed, Description
<1>2. Close(s, F) \in Server
  <2> DEFINE fds == [f \in Fd |-> IF f \in F THEN Closed ELSE s.fds[f]]
             cgi == [h \in Handler |-> [s.cgi[h] EXCEPT !.copies = @ \ F]]
  <2>1. fds \in [Fd -> Description]
    BY <1>1 DEF Server
  <2>2. cgi \in [Handler -> CgiData]
    BY DEF Server, CgiData
  <2>3. Close(s, F) = [s EXCEPT !.fds = fds, !.watched = s.watched \ F, !.cgi = cgi]
    BY DEF Close, Server
  <2>4. s.watched \ F \in SUBSET Fd
    BY DEF Server
  <2> HIDE DEF fds, cgi
  <2> QED BY <2>1, <2>2, <2>3, <2>4 DEF Server
<1>3. SameHandlers(s, Close(s, F)) /\ Close(s, F).cgis = s.cgis
  BY DEF Close, Server, SameHandlers
<1>4. Closes(s, Close(s, F), F)
  BY DEF Close, Server, Closes
<1>5. Close(s, F).astray = s.astray /\ Close(s, F).ghosts = s.ghosts
  BY DEF Close, Server
<1>6. ASSUME NEW h \in Handler
      PROVE  SameCgi(s, Close(s, F), h)
  BY DEF Close, Server, CgiData, SameCgi
<1> QED BY <1>2, <1>3, <1>4, <1>5, <1>6

LEMMA CloseQuietlyEffect ==
  ASSUME NEW s \in Server, NEW F
  PROVE  /\ CloseQuietly(s, F) \in Server
         /\ SameHandlers(s, CloseQuietly(s, F)) /\ CloseQuietly(s, F).cgis = s.cgis
         /\ Closes(s, CloseQuietly(s, F), F)
         /\ OnlyGhosts(s, CloseQuietly(s, F))
         /\ \A h \in Handler : SameCgi(s, CloseQuietly(s, F), h)
<1> DEFINE t == Close(s, F)
           kept == {p \in F \X Handler : p[1] \in s.watched \cap s.cgi[p[2]].copies}
           ghosts == t.ghosts \cup kept
           astray == t.astray \cup (IF kept = {} THEN {} ELSE {"ghost"})
<1>1. CloseQuietly(s, F) = [t EXCEPT !.ghosts = ghosts, !.astray = astray]
  BY CloseEffect DEF CloseQuietly, Server
<1>2. t \in Server /\ ghosts \in SUBSET (Fd \X Handler)
  BY CloseEffect DEF Server
<1>3. astray \in SUBSET Accident /\ astray \ {"ghost"} = s.astray \ {"ghost"}
  BY <1>2, CloseEffect DEF Server, Accident
<1> HIDE DEF ghosts, astray
<1>4. CloseQuietly(s, F) \in Server
  BY <1>1, <1>2, <1>3 DEF Server
<1>5. /\ SameHandlers(t, CloseQuietly(s, F)) /\ CloseQuietly(s, F).cgis = t.cgis
      /\ CloseQuietly(s, F).fds = t.fds /\ CloseQuietly(s, F).watched = t.watched
      /\ CloseQuietly(s, F).cgi = t.cgi /\ CloseQuietly(s, F).astray = astray
  BY <1>1, <1>2 DEF Server, SameHandlers
<1> HIDE DEF t
<1>6. SameHandlers(s, t) /\ t.cgis = s.cgis /\ Closes(s, t, F)
      /\ \A h \in Handler : SameCgi(s, t, h)
  BY CloseEffect DEF t
<1> QED
  BY <1>3, <1>4, <1>5, <1>6 DEF SameHandlers, Closes, OnlyGhosts, SameCgi

\* The pipes a Cgi has open.
Ends(c) == {c.out} \cup (IF c.inOpen THEN {c.in} ELSE {})

\* The Cgi of h is gone and those of the others are not.
OnlyCgiGone(s, t, h) ==
  /\ t.cgi[h] = NoCgi
  /\ \A k \in Handler \ {h} : SameCgi(s, t, k)

LEMMA DeleteCgiEffect ==
  ASSUME NEW s \in Server, NEW h \in Handler
  PROVE  /\ DeleteCgi(s, h) \in Server
         /\ SameHandlers(s, DeleteCgi(s, h)) /\ DeleteCgi(s, h).cgis = s.cgis
         /\ Closes(s, DeleteCgi(s, h), Ends(s.cgi[h]))
         /\ OnlyGhosts(s, DeleteCgi(s, h)) /\ OnlyCgiGone(s, DeleteCgi(s, h), h)
<1> DEFINE t == CloseQuietly(s, Ends(s.cgi[h]))
           u == DeleteCgi(s, h)
           cgi == [t.cgi EXCEPT ![h] = NoCgi]
           ghosts == {p \in t.ghosts : p[2] # h}
<1>1. /\ t \in Server /\ SameHandlers(s, t) /\ t.cgis = s.cgis
      /\ Closes(s, t, Ends(s.cgi[h])) /\ OnlyGhosts(s, t)
      /\ \A k \in Handler : SameCgi(s, t, k)
  BY CloseQuietlyEffect
<1>2. u = [t EXCEPT !.cgi = cgi, !.ghosts = ghosts]
  BY <1>1 DEF DeleteCgi, Ends, Server
<1> HIDE DEF t, u
<1>3. NoCgi \in CgiData
  BY DEF NoCgi, CgiData
<1>4. cgi \in [Handler -> CgiData] /\ ghosts \in SUBSET (Fd \X Handler)
  BY <1>1, <1>3 DEF Server
<1>5. cgi[h] = NoCgi /\ \A k \in Handler \ {h} : cgi[k] = t.cgi[k]
  BY <1>1 DEF Server
<1> HIDE DEF cgi, ghosts
<1>6. u \in Server
  BY <1>1, <1>2, <1>4 DEF Server
<1>7. /\ SameHandlers(t, u) /\ u.cgis = t.cgis /\ u.cgi = cgi
      /\ u.fds = t.fds /\ u.watched = t.watched /\ u.astray = t.astray
  BY <1>1, <1>2 DEF Server, SameHandlers
<1> QED
  BY <1>1, <1>5, <1>6, <1>7 DEF u, SameHandlers, Closes, OnlyGhosts, OnlyCgiGone, SameCgi

\* No descriptor changes but those in F, which may be closed.
Within(s, t, F) ==
  \A f \in Fd :
    /\ f \in F => t.fds[f] \in {s.fds[f], Closed}
    /\ f \notin F => t.fds[f] = s.fds[f] /\ (f \in t.watched <=> f \in s.watched)

LEMMA CloseCgiEntryEffect ==
  ASSUME NEW s \in Server, NEW f \in Fd
  PROVE  LET t == CloseCgiEntry(s, f) IN
         /\ t \in Server /\ SameHandlers(s, t) /\ t.astray = s.astray
         /\ \A h \in Handler : SameCgi(s, t, h)
         /\ \A g \in Fd : t.cgis[g] = IF g = f THEN 0 ELSE s.cgis[g]
         /\ Within(s, t, {f})
<1> DEFINE t == CloseCgiEntry(s, f)
<1>1. CASE s.cgis[f] = 0
  <2>1. t = [s EXCEPT !.watched = s.watched \ {f}]
    BY <1>1 DEF CloseCgiEntry, Server
  <2> HIDE DEF t
  <2>2. t \in Server
    BY <2>1 DEF Server
  <2> QED
    BY <1>1, <2>1, <2>2 DEF t, Server, SameHandlers, SameCgi, Within
<1>2. CASE s.cgis[f] # 0
  <2> DEFINE u == Close(s, {f})
             cgis == [u.cgis EXCEPT ![f] = 0]
  <2>1. t = [u EXCEPT !.cgis = cgis]
    BY <1>2, CloseEffect DEF CloseCgiEntry, Server
  <2>2. /\ u \in Server /\ SameHandlers(s, u) /\ u.cgis = s.cgis /\ Closes(s, u, {f})
        /\ u.astray = s.astray /\ \A h \in Handler : SameCgi(s, u, h)
    BY CloseEffect
  <2> HIDE DEF t, u
  <2>3. cgis \in [Fd -> Handler \cup {0}]
    BY <2>2 DEF Server
  <2>4. \A g \in Fd : cgis[g] = IF g = f THEN 0 ELSE s.cgis[g]
    BY <2>2 DEF Server
  <2> HIDE DEF cgis
  <2>5. t \in Server
    BY <2>1, <2>2, <2>3 DEF Server
  <2>6. /\ SameHandlers(u, t) /\ t.cgis = cgis /\ t.fds = u.fds
        /\ t.watched = u.watched /\ t.cgi = u.cgi /\ t.astray = u.astray
    BY <2>1, <2>2 DEF Server, SameHandlers
  <2>7. SameHandlers(s, t) /\ t.astray = s.astray
    BY <2>2, <2>6 DEF SameHandlers
  <2>8. \A h \in Handler : SameCgi(s, t, h)
    BY <2>2, <2>6 DEF SameCgi
  <2>9. Within(s, t, {f})
    BY <2>2, <2>6 DEF Within, Closes
  <2> QED BY <2>4, <2>5, <2>6, <2>7, <2>8, <2>9 DEF t
<1> QED BY <1>1, <1>2

\* The Cgi of h has ended: its descriptors are closed and its entries are cleared.
Ended(s, t, h) ==
  LET c == s.cgi[h] IN
  /\ t \in Server /\ SameHandlers(s, t) /\ OnlyGhosts(s, t) /\ OnlyCgiGone(s, t, h)
  /\ \A f \in Fd : t.cgis[f] = IF f \in {c.out, c.in} THEN 0 ELSE s.cgis[f]
  /\ Within(s, t, {c.out, c.in})
  /\ \A f \in Fd \cap Ends(c) : t.fds[f] = Closed

LEMMA DeleteCgiEnds ==
  ASSUME NEW s \in Server, NEW u \in Server, NEW h \in Handler,
         SameHandlers(s, u), s.astray = u.astray,
         \A k \in Handler : SameCgi(s, u, k),
         \A f \in Fd : u.cgis[f] = IF f \in {s.cgi[h].out, s.cgi[h].in} THEN 0
                                   ELSE s.cgis[f],
         Within(s, u, {s.cgi[h].out, s.cgi[h].in})
  PROVE  Ended(s, DeleteCgi(u, h), h)
<1> DEFINE t == DeleteCgi(u, h)
<1>1. /\ t \in Server /\ SameHandlers(u, t) /\ t.cgis = u.cgis
      /\ Closes(u, t, Ends(u.cgi[h])) /\ OnlyGhosts(u, t) /\ OnlyCgiGone(u, t, h)
  BY DeleteCgiEffect
<1> HIDE DEF t
<1>2. SameCgi(s, u, h) /\ Ends(u.cgi[h]) = Ends(s.cgi[h])
  BY DEF SameCgi, Ends
<1>3. OnlyCgiGone(s, t, h)
  BY <1>1 DEF OnlyCgiGone, SameCgi
<1>a. /\ Closes(u, t, Ends(s.cgi[h]))
      /\ Ends(s.cgi[h]) \subseteq {s.cgi[h].out, s.cgi[h].in}
  BY <1>1, <1>2 DEF Ends
<1>4. Within(s, t, {s.cgi[h].out, s.cgi[h].in})
  BY <1>a DEF Within, Closes
<1>5. \A f \in Fd \cap Ends(s.cgi[h]) : t.fds[f] = Closed
  BY <1>a DEF Closes
<1>6. SameHandlers(s, t) /\ OnlyGhosts(s, t)
  BY <1>1 DEF SameHandlers, OnlyGhosts
<1> QED BY <1>1, <1>3, <1>4, <1>5, <1>6 DEF t, Ended

LEMMA EndCgiEnds ==
  ASSUME NEW s \in Server, NEW h \in Handler, isCgiRunning(s, h)
  PROVE  Ended(s, EndCgi(s, h), h)
<1> DEFINE c == s.cgi[h]
           t == CloseCgiEntry(s, c.out)
           u == IF c.in # 0 THEN CloseCgiEntry(t, c.in) ELSE t
<1>1. c.out \in Fd /\ c.in \in Fd \cup {0} /\ 0 \notin Fd
  BY BoundsAssumption DEF Server, CgiData, isCgiRunning, Fd
<1>2. /\ t \in Server /\ SameHandlers(s, t) /\ t.astray = s.astray
      /\ \A k \in Handler : SameCgi(s, t, k)
      /\ \A g \in Fd : t.cgis[g] = IF g = c.out THEN 0 ELSE s.cgis[g]
      /\ Within(s, t, {c.out})
  BY <1>1, CloseCgiEntryEffect
<1>3. EndCgi(s, h) = DeleteCgi(u, h)
  BY DEF EndCgi
<1> HIDE DEF t
<1>4. CASE c.in = 0
  <2>1. u = t
    BY <1>4
  <2> HIDE DEF u
  <2>2. /\ \A f \in Fd : t.cgis[f] = IF f \in {c.out, c.in} THEN 0 ELSE s.cgis[f]
        /\ Within(s, t, {c.out, c.in})
    BY <1>1, <1>2, <1>4 DEF Within
  <2> QED BY <1>2, <1>3, <2>1, <2>2, DeleteCgiEnds
<1>5. CASE c.in # 0
  <2>1. u = CloseCgiEntry(t, c.in)
    BY <1>5
  <2>2. /\ u \in Server /\ SameHandlers(t, u) /\ u.astray = t.astray
        /\ \A k \in Handler : SameCgi(t, u, k)
        /\ \A g \in Fd : u.cgis[g] = IF g = c.in THEN 0 ELSE t.cgis[g]
        /\ Within(t, u, {c.in})
    <3>1. t \in Server /\ c.in \in Fd
      BY <1>1, <1>2, <1>5
    <3> HIDE DEF c, u
    <3> QED BY <2>1, <3>1, CloseCgiEntryEffect
  <2> HIDE DEF u
  <2>3. SameHandlers(s, u) /\ \A k \in Handler : SameCgi(s, u, k)
    BY <1>2, <2>2 DEF SameHandlers, SameCgi
  <2>4. /\ \A f \in Fd : u.cgis[f] = IF f \in {c.out, c.in} THEN 0 ELSE s.cgis[f]
        /\ Within(s, u, {c.out, c.in})
    BY <1>2, <2>2 DEF Within
  <2> QED BY <1>2, <1>3, <2>2, <2>3, <2>4, DeleteCgiEnds
<1> QED BY <1>4, <1>5

\* The Cgi of h has written all of its input and has closed that pipe.
Written(s, t, h) ==
  /\ t \in Server /\ SameHandlers(s, t) /\ t.cgis = s.cgis
  /\ "stale" \in t.astray /\ t.astray \ {"ghost", "stale"} = s.astray \ {"ghost", "stale"}
  /\ \A k \in Handler :
       /\ t.cgi[k].out = s.cgi[k].out /\ t.cgi[k].in = s.cgi[k].in
       /\ t.cgi[k].late = s.cgi[k].late /\ t.cgi[k].added = s.cgi[k].added

LEMMA WriteDone ==
  ASSUME NEW s \in Server, NEW h \in Handler
  PROVE  Written(s, [CloseQuietly(s, {s.cgi[h].in}) EXCEPT
                       !.cgi[h].inOpen = FALSE, !.astray = @ \cup {"stale"}], h)
<1> DEFINE u == CloseQuietly(s, {s.cgi[h].in})
           t == [u EXCEPT !.cgi[h].inOpen = FALSE, !.astray = @ \cup {"stale"}]
           cgi == [u.cgi EXCEPT ![h] = [u.cgi[h] EXCEPT !.inOpen = FALSE]]
<1>1. /\ u \in Server /\ SameHandlers(s, u) /\ u.cgis = s.cgis /\ OnlyGhosts(s, u)
      /\ \A k \in Handler : SameCgi(s, u, k)
  BY CloseQuietlyEffect
<1> HIDE DEF u
<1>2. t = [u EXCEPT !.cgi = cgi, !.astray = u.astray \cup {"stale"}]
  BY <1>1 DEF Server
<1>3. /\ cgi \in [Handler -> CgiData]
      /\ \A k \in Handler : /\ cgi[k].out = u.cgi[k].out /\ cgi[k].in = u.cgi[k].in
                            /\ cgi[k].late = u.cgi[k].late
                            /\ cgi[k].added = u.cgi[k].added
  <2> DEFINE c == [u.cgi[h] EXCEPT !.inOpen = FALSE]
  <2>1. u.cgi \in [Handler -> CgiData]
    BY <1>1 DEF Server
  <2>2. /\ c \in CgiData /\ c.out = u.cgi[h].out /\ c.in = u.cgi[h].in
        /\ c.late = u.cgi[h].late /\ c.added = u.cgi[h].added
    BY <2>1 DEF CgiData
  <2> HIDE DEF c
  <2>3. cgi = [u.cgi EXCEPT ![h] = c]
    BY DEF c
  <2> HIDE DEF cgi
  <2>4. cgi \in [Handler -> CgiData]
    BY <2>1, <2>2, <2>3
  <2>5. cgi[h] = c /\ \A k \in Handler \ {h} : cgi[k] = u.cgi[k]
    BY <2>1, <2>3
  <2> QED BY <2>2, <2>4, <2>5
<1> HIDE DEF t, cgi
<1>4. t \in Server
  BY <1>1, <1>2, <1>3 DEF Server, Accident
<1>5. /\ SameHandlers(u, t) /\ t.cgis = u.cgis /\ t.cgi = cgi
      /\ t.astray = u.astray \cup {"stale"}
  BY <1>1, <1>2 DEF Server, SameHandlers
<1>6. SameHandlers(s, t) /\ t.cgis = s.cgis
  BY <1>1, <1>5 DEF SameHandlers
<1>7. \A k \in Handler : /\ t.cgi[k].out = s.cgi[k].out /\ t.cgi[k].in = s.cgi[k].in
                         /\ t.cgi[k].late = s.cgi[k].late
                         /\ t.cgi[k].added = s.cgi[k].added
  BY <1>1, <1>3, <1>5 DEF SameCgi
<1>8. t.astray \ {"ghost", "stale"} = s.astray \ {"ghost", "stale"}
  BY <1>1, <1>5 DEF OnlyGhosts
<1> QED BY <1>4, <1>5, <1>6, <1>7, <1>8 DEF t, u, Written

\* The ways processCgi can go.
LEMMA ProcessCgiCases ==
  ASSUME NEW s \in Server, NEW h \in Handler, NEW ends \in BOOLEAN,
         NEW t, t = ProcessCgi(s, h, ends)
  PROVE  \/ (h \notin s.alive \/ ~isCgiRunning(s, h)) /\ t = Undefined(s)
         \/ Ended(s, t, h)
         \/ Written(s, t, h)
         \/ \E u \in Server : Written(s, u, h) /\ isCgiRunning(u, h) /\ Ended(u, t, h)
         \/ t = s /\ ~s.cgi[h].late
<1> DEFINE c == s.cgi[h]
           writeDone == [CloseQuietly(s, {c.in}) EXCEPT !.cgi[h].inOpen = FALSE,
                                                        !.astray = @ \cup {"stale"}]
           quiet == CloseQuietly(s, {c.out})
<1>1. CASE h \notin s.alive \/ ~isCgiRunning(s, h)
  BY <1>1 DEF ProcessCgi
<1>2. CASE h \in s.alive /\ isCgiRunning(s, h) /\ c.late
  BY <1>2, EndCgiEnds DEF ProcessCgi
<1>3. CASE h \in s.alive /\ isCgiRunning(s, h) /\ ~c.late
  <2>1. Written(s, writeDone, h)
    BY WriteDone
  <2>2. CASE ends /\ c.inOpen
    <3>1. t = EndCgi(writeDone, h)
      BY <1>3, <2>2 DEF ProcessCgi
    <3> HIDE DEF writeDone
    <3>2. writeDone \in Server /\ isCgiRunning(writeDone, h)
      BY <1>3, <2>1 DEF Written, isCgiRunning
    <3> QED BY <2>1, <3>1, <3>2, EndCgiEnds
  <2>3. CASE ends /\ ~c.inOpen
    <3>1. t = EndCgi(quiet, h)
      BY <1>3, <2>3 DEF ProcessCgi
    <3>2. /\ quiet \in Server /\ SameHandlers(s, quiet) /\ quiet.cgis = s.cgis
          /\ Closes(s, quiet, {c.out}) /\ OnlyGhosts(s, quiet)
          /\ \A k \in Handler : SameCgi(s, quiet, k)
      BY CloseQuietlyEffect
    <3> HIDE DEF quiet
    <3>3. Ended(quiet, t, h)
      BY <1>3, <3>1, <3>2, EndCgiEnds DEF isCgiRunning, SameCgi
    <3>4. /\ quiet.cgi[h].out = c.out /\ quiet.cgi[h].in = c.in
          /\ quiet.cgi[h].inOpen = c.inOpen
      BY <3>2 DEF SameCgi
    <3>5. t \in Server /\ SameHandlers(s, t) /\ OnlyGhosts(s, t)
      BY <3>2, <3>3 DEF Ended, SameHandlers, OnlyGhosts
    <3>6. OnlyCgiGone(s, t, h)
      BY <3>2, <3>3 DEF Ended, OnlyCgiGone, SameCgi
    <3>7. /\ \A f \in Fd : t.cgis[f] = IF f \in {c.out, c.in} THEN 0 ELSE s.cgis[f]
          /\ \A f \in Fd \cap Ends(c) : t.fds[f] = Closed
      BY <3>2, <3>3, <3>4 DEF Ended, Ends
    <3>8. Within(s, t, {c.out, c.in})
      <4>1. Within(quiet, t, {c.out, c.in})
        BY <3>3, <3>4 DEF Ended
      <4> QED BY <3>2, <4>1 DEF Within, Closes
    <3> QED BY <3>5, <3>6, <3>7, <3>8 DEF Ended
  <2>4. CASE ~ends /\ c.inOpen
    BY <1>3, <2>1, <2>4 DEF ProcessCgi
  <2>5. CASE ~ends /\ ~c.inOpen
    BY <1>3, <2>5 DEF ProcessCgi
  <2> QED BY <2>2, <2>3, <2>4, <2>5
<1> QED BY <1>1, <1>2, <1>3

(***************************************************************************)
(* Member functions: what each keeps.                                      *)
(***************************************************************************)

DataInv(s) == HandlersInv(s) /\ EntriesInv(s) /\ OwnersInv(s)

\* The entry f of _cgis leads to the Cgi of h, which runs, was added and has that pipe.
IsEntry(s, f, h) ==
  isCgiRunning(s, h) /\ s.cgi[h].added /\ f \in {s.cgi[h].out, s.cgi[h].in}

\* A client's socket is not closed behind the back of its handler.
NotStolen(s, t) ==
  "stale" \notin t.astray =>
    \A f \in Fd :
      s.fds[f].kind = "conn" /\ t.fds[f] # s.fds[f] => t.handlers[f] # s.handlers[f]

\* What has gone wrong stays so.
Remembers(s, t) ==
  \A accident \in {"orphan", "stale", "twice"} :
    accident \in s.astray => accident \in t.astray

\* A step of the data that the invariant allows.
Right(s, t) == t \in Server /\ DataInv(t) /\ NotStolen(s, t) /\ Remembers(s, t)

\* A pipe of a Cgi is that Cgi's alone, and no client's socket.
LEMMA PipeIsOwn ==
  ASSUME NEW s \in Server, OwnersInv(s), "stale" \notin s.astray, EntriesInv(s),
         NEW h \in Handler, NEW f \in Fd, f \in {s.cgi[h].out, s.cgi[h].in}
  PROVE  /\ s.fds[f].kind # "conn" /\ s.fds[f].owner = h /\ s.fds[f] # Closed
         /\ f \in Ends(s.cgi[h]) /\ isCgiRunning(s, h)
         /\ s.handlers[f] = 0
<1>1. f # 0
  BY BoundsAssumption DEF Fd
<1>2. isCgiRunning(s, h)
  BY <1>1 DEF EntriesInv, isCgiRunning
<1>3. /\ s.fds[f] \in {[kind |-> "cgiOut", owner |-> h], [kind |-> "cgiIn", owner |-> h]}
      /\ f \in Ends(s.cgi[h])
  <2>1. OwnsItsPipes(s, h)
    BY DEF OwnersInv
  <2> QED BY <1>1, <2>1 DEF OwnsItsPipes, Ends
<1>4. s.fds[f].kind # "conn" /\ s.fds[f].owner = h /\ s.fds[f] # Closed
  BY <1>3 DEF Closed
<1>5. s.handlers[f] = 0
  <2>1. IsOwned(s, f)
    BY DEF OwnersInv
  <2> QED BY <1>4, <2>1 DEF IsOwned
<1> QED BY <1>2, <1>3, <1>4, <1>5

LEMMA EndedIsRight ==
  ASSUME NEW s \in Server, NEW h \in Handler, DataInv(s), NEW t, Ended(s, t, h)
  PROVE  Right(s, t)
<1> DEFINE F == {s.cgi[h].out, s.cgi[h].in}
<1>1. t \in Server /\ SameHandlers(s, t) /\ OnlyGhosts(s, t)
  BY DEF Ended
<1>2. /\ t.cgi[h] = NoCgi /\ ~isCgiRunning(t, h)
      /\ \A k \in Handler \ {h} : /\ SameCgi(s, t, k)
                                  /\ isCgiRunning(t, k) <=> isCgiRunning(s, k)
  BY DEF Ended, OnlyCgiGone, SameCgi, isCgiRunning, NoCgi
<1>3. \A f \in Fd : t.cgis[f] = IF f \in F THEN 0 ELSE s.cgis[f]
  BY DEF Ended
<1>4. Remembers(s, t)
  BY <1>1 DEF Remembers, OnlyGhosts
<1>5. HandlersInv(t)
  BY <1>1 DEF DataInv, HandlersInv, SameHandlers
<1>6. EntriesInv(t)
  <2>1. \A k \in Handler : IF isCgiRunning(t, k) THEN k \in t.alive ELSE t.cgi[k].in = 0
    BY <1>1, <1>2 DEF DataInv, EntriesInv, SameHandlers, SameCgi, NoCgi
  <2>2. ASSUME "orphan" \notin t.astray, NEW f \in Fd, t.cgis[f] # 0
        PROVE  IsEntry(t, f, t.cgis[f])
    <3>1. t.cgis[f] = s.cgis[f] /\ f \notin F /\ s.cgis[f] \in Handler
      BY <1>3, <2>2 DEF Server
    <3>2. IsEntry(s, f, s.cgis[f])
      BY <1>4, <2>2, <3>1 DEF Remembers, DataInv, EntriesInv, IsEntry
    <3> QED BY <1>2, <3>1, <3>2 DEF SameCgi, IsEntry
  <2> QED BY <2>1, <2>2 DEF EntriesInv, IsEntry
<1>7. CASE "stale" \in t.astray
  BY <1>1, <1>4, <1>5, <1>6, <1>7 DEF Right, DataInv, OwnersInv, NotStolen
<1>8. CASE "stale" \notin t.astray
  <2>1. /\ "stale" \notin s.astray /\ OwnersInv(s) /\ EntriesInv(s) /\ AreCounted(s)
        /\ \A f \in Fd : IsOwned(s, f)
        /\ \A k \in Handler : OwnsItsPipes(s, k)
    BY <1>4, <1>8 DEF Remembers, DataInv, OwnersInv
  <2>2. \A f \in Fd \cap F : t.fds[f] = Closed /\ s.handlers[f] = 0
                              /\ s.fds[f].owner = h /\ s.fds[f].kind # "conn"
    BY <2>1, PipeIsOwn DEF Ended
  <2>3. \A f \in Fd \ F : t.fds[f] = s.fds[f] /\ (f \in t.watched <=> f \in s.watched)
    BY DEF Ended, Within
  <2>4. NotStolen(s, t)
    BY <2>2, <2>3 DEF NotStolen
  <2>5. ASSUME NEW f \in Fd
        PROVE  IsOwned(t, f)
    <3>1. t.handlers[f] = s.handlers[f]
      BY <1>1 DEF SameHandlers
    <3>2. CASE f \in F
      BY <2>2, <3>1, <3>2 DEF IsOwned
    <3>3. CASE f \notin F
      <4>1. /\ \A k \in Handler : /\ s.cgi[k].out = f => t.cgi[k].out = f
                                  /\ s.cgi[k].in = f => t.cgi[k].in = f
            /\ t.fds[f] = s.fds[f] /\ (f \in t.watched <=> f \in s.watched)
            /\ IsOwned(s, f)
        BY <1>2, <2>1, <2>3, <3>3 DEF SameCgi
      <4> QED BY <3>1, <4>1 DEF IsOwned
    <3> QED BY <3>2, <3>3
  <2>6. ASSUME NEW k \in Handler
        PROVE  OwnsItsPipes(t, k)
    <3>1. CASE k = h
      BY <1>2, <3>1 DEF NoCgi, OwnsItsPipes
    <3>2. CASE k # h
      <4>1. SameCgi(s, t, k) /\ OwnsItsPipes(s, k)
        BY <1>2, <2>1, <3>2
      <4>2. s.cgi[k].out \in Fd \cup {0} /\ s.cgi[k].in \in Fd \cup {0}
        BY DEF Server, CgiData
      <4>3. \A f \in Fd \cap {s.cgi[k].out, s.cgi[k].in} : s.fds[f].owner = k
        BY <2>1, PipeIsOwn
      <4>4. \A f \in {s.cgi[k].out, s.cgi[k].in} \ {0} :
              t.fds[f] = s.fds[f] /\ t.cgis[f] = s.cgis[f]
        BY <1>3, <2>2, <2>3, <3>2, <4>2, <4>3
      <4>5. "orphan" \notin t.astray => "orphan" \notin s.astray
        BY <1>4 DEF Remembers
      <4> QED BY <4>1, <4>4, <4>5 DEF OwnsItsPipes, SameCgi
    <3> QED BY <3>1, <3>2
  <2>7. AreCounted(t)
    BY <1>1, <2>1 DEF AreCounted, SameHandlers
  <2>8. OwnersInv(t)
    BY <2>5, <2>6, <2>7 DEF OwnersInv
  <2> QED BY <1>1, <1>4, <1>5, <1>6, <2>4, <2>8 DEF Right, DataInv
<1> QED BY <1>7, <1>8

LEMMA WrittenIsRight ==
  ASSUME NEW s \in Server, NEW h \in Handler, DataInv(s), NEW t, Written(s, t, h)
  PROVE  Right(s, t)
<1>1. t \in Server /\ SameHandlers(s, t) /\ t.cgis = s.cgis /\ "stale" \in t.astray
  BY DEF Written
<1>2. \A k \in Handler : /\ t.cgi[k].out = s.cgi[k].out /\ t.cgi[k].in = s.cgi[k].in
                         /\ t.cgi[k].added = s.cgi[k].added
                         /\ isCgiRunning(t, k) <=> isCgiRunning(s, k)
  BY DEF Written, isCgiRunning
<1>3. Remembers(s, t)
  BY DEF Remembers, Written
<1>4. HandlersInv(t)
  BY <1>1 DEF DataInv, HandlersInv, SameHandlers
<1>5. EntriesInv(t)
  <2>1. \A k \in Handler : IF isCgiRunning(t, k) THEN k \in t.alive ELSE t.cgi[k].in = 0
    BY <1>1, <1>2 DEF DataInv, EntriesInv, SameHandlers
  <2>2. ASSUME "orphan" \notin t.astray, NEW f \in Fd, t.cgis[f] # 0
        PROVE  IsEntry(t, f, t.cgis[f])
    <3>1. t.cgis[f] = s.cgis[f] /\ s.cgis[f] \in Handler
      BY <1>1, <2>2 DEF Server
    <3>2. IsEntry(s, f, s.cgis[f])
      BY <1>3, <2>2, <3>1 DEF Remembers, DataInv, EntriesInv, IsEntry
    <3> QED BY <1>2, <3>1, <3>2 DEF IsEntry
  <2> QED BY <2>1, <2>2 DEF EntriesInv, IsEntry
<1> QED BY <1>1, <1>3, <1>4, <1>5 DEF Right, DataInv, OwnersInv, NotStolen

LEMMA RightIsTransitive ==
  ASSUME NEW s \in Server, NEW t \in Server, NEW u, Right(s, t), Right(t, u),
         \A f \in Fd : s.fds[f].kind = "conn" => t.handlers[f] = s.handlers[f]
  PROVE  Right(s, u)
<1>1. Remembers(s, u)
  BY DEF Right, Remembers
<1>2. NotStolen(s, u)
  <2> SUFFICES ASSUME "stale" \notin u.astray, NEW f \in Fd, s.fds[f].kind = "conn",
                      u.fds[f] # s.fds[f]
               PROVE  u.handlers[f] # s.handlers[f]
    BY DEF NotStolen
  <2>1. "stale" \notin t.astray
    BY DEF Right, Remembers
  <2>2. t.fds[f] = s.fds[f]
    BY <2>1 DEF Right, NotStolen
  <2> QED BY <2>2 DEF Right, NotStolen
<1> QED BY <1>1, <1>2 DEF Right

\* An undefined step is the end, and so it need not be right in anything else.
LEMMA UndefinedIsRight ==
  ASSUME NEW s \in Server, DataInv(s)
  PROVE  Right(s, Undefined(s)) /\ Undefined(s).handlers = s.handlers
<1> DEFINE t == Undefined(s)
<1>1. t \in Server
  BY DEF Undefined, Server
<1>2. /\ t.fds = s.fds /\ t.watched = s.watched /\ t.handlers = s.handlers
      /\ t.cgis = s.cgis /\ t.alive = s.alive /\ t.cgi = s.cgi /\ t.amount = s.amount
      /\ t.made = s.made /\ t.astray = s.astray
  BY DEF Undefined, Server
<1> HIDE DEF t
<1>3. HandlersInv(t)
  BY <1>2 DEF DataInv, HandlersInv
<1>4. EntriesInv(t)
  BY <1>2 DEF DataInv, EntriesInv, isCgiRunning
<1>5. OwnersInv(t)
  BY <1>2 DEF DataInv, OwnersInv, IsOwned, OwnsItsPipes, AreCounted
<1>6. NotStolen(s, t) /\ Remembers(s, t)
  BY <1>2 DEF NotStolen, Remembers
<1> QED BY <1>1, <1>2, <1>3, <1>4, <1>5, <1>6 DEF t, Right, DataInv

\* Nothing but a Cgi that is not there makes processCgi undefined, and the other
\* Cgis do not feel it.
LEMMA ProcessCgiEffect ==
  ASSUME NEW s \in Server, NEW h \in Handler, NEW ends \in BOOLEAN, DataInv(s)
  PROVE  LET t == ProcessCgi(s, h, ends) IN
         /\ Right(s, t) /\ t.handlers = s.handlers
         /\ t.astray \ {"ghost", "stale"} = s.astray \ {"ghost", "stale"}
         /\ \A k \in Handler \ {h} : t.cgi[k].out = s.cgi[k].out /\ t.cgi[k].late = s.cgi[k].late
         /\ h \in s.alive /\ isCgiRunning(s, h) => t.defined = s.defined
<1> DEFINE t == ProcessCgi(s, h, ends)
<1>1. CASE (h \notin s.alive \/ ~isCgiRunning(s, h)) /\ t = Undefined(s)
  <2>1. t.astray = s.astray /\ t.cgi = s.cgi
    BY <1>1 DEF Undefined, Server
  <2> HIDE DEF t
  <2> QED BY <1>1, <2>1, UndefinedIsRight DEF t
<1>2. CASE Ended(s, t, h)
  <2> HIDE DEF t
  <2>1. SameHandlers(s, t) /\ OnlyGhosts(s, t) /\ OnlyCgiGone(s, t, h)
    BY <1>2 DEF Ended
  <2> QED
    BY <1>2, <2>1, EndedIsRight DEF t, SameHandlers, OnlyGhosts, OnlyCgiGone, SameCgi
<1>3. CASE Written(s, t, h)
  <2> HIDE DEF t
  <2> QED BY <1>3, WrittenIsRight DEF t, Written, SameHandlers
<1>4. CASE \E u \in Server : Written(s, u, h) /\ isCgiRunning(u, h) /\ Ended(u, t, h)
  <2> HIDE DEF t
  <2>1. PICK u \in Server : Written(s, u, h) /\ isCgiRunning(u, h) /\ Ended(u, t, h)
    BY <1>4
  <2>2. Right(s, u)
    BY <2>1, WrittenIsRight
  <2>3. Right(u, t)
    BY <2>1, <2>2, EndedIsRight DEF Right
  <2>4. /\ SameHandlers(s, u) /\ SameHandlers(u, t) /\ OnlyGhosts(u, t)
        /\ u.astray \ {"ghost", "stale"} = s.astray \ {"ghost", "stale"}
        /\ \A k \in Handler \ {h} : u.cgi[k].out = s.cgi[k].out /\ u.cgi[k].late = s.cgi[k].late
        /\ \A k \in Handler \ {h} : t.cgi[k].out = u.cgi[k].out /\ t.cgi[k].late = u.cgi[k].late
    BY <2>1 DEF Written, Ended, OnlyCgiGone, SameCgi
  <2>5. Right(s, t)
    BY <2>2, <2>3, <2>4, RightIsTransitive DEF SameHandlers
  <2>6. t.astray \ {"ghost", "stale"} = s.astray \ {"ghost", "stale"}
    BY <2>4 DEF OnlyGhosts
  <2>7. t.handlers = s.handlers /\ t.defined = s.defined
    BY <2>4 DEF SameHandlers
  <2> QED BY <2>4, <2>5, <2>6, <2>7 DEF t
<1>5. CASE t = s
  <2> HIDE DEF t
  <2>1. Right(s, s)
    BY DEF Right, NotStolen, Remembers
  <2> QED BY <1>5, <2>1 DEF t
<1> HIDE DEF t
<1>6. \/ (h \notin s.alive \/ ~isCgiRunning(s, h)) /\ t = Undefined(s)
      \/ Ended(s, t, h)
      \/ Written(s, t, h)
      \/ \E u \in Server : Written(s, u, h) /\ isCgiRunning(u, h) /\ Ended(u, t, h)
      \/ t = s
  BY ProcessCgiCases DEF t
<1> QED BY <1>1, <1>2, <1>3, <1>4, <1>5, <1>6 DEF t

\* The Cgi of a handler that is about to be deleted is gone.
KilledFor(s, t, h) ==
  LET F == IF isCgiRunning(s, h) THEN Ends(s.cgi[h]) ELSE {} IN
  /\ t \in Server /\ SameHandlers(s, t) /\ t.cgis = s.cgis /\ Closes(s, t, F)
  /\ ~isCgiRunning(t, h) /\ t.cgi[h].in = 0
  /\ \A k \in Handler \ {h} : SameCgi(s, t, k)
  /\ isCgiRunning(s, h) /\ s.cgi[h].added => "orphan" \in t.astray
  /\ t.astray \ {"orphan", "ghost"} = s.astray \ {"orphan", "ghost"}
  /\ "orphan" \in s.astray => "orphan" \in t.astray

LEMMA KillCgiEffect ==
  ASSUME NEW s \in Server, NEW h \in Handler, EntriesInv(s)
  PROVE  KilledFor(s, KillCgi(s, h), h)
<1> DEFINE t == KillCgi(s, h)
<1>1. CASE isCgiRunning(s, h)
  <2> DEFINE u == DeleteCgi(s, h)
  <2>1. /\ u \in Server /\ SameHandlers(s, u) /\ u.cgis = s.cgis
        /\ Closes(s, u, Ends(s.cgi[h])) /\ OnlyGhosts(s, u) /\ OnlyCgiGone(s, u, h)
    BY DeleteCgiEffect
  <2> DEFINE A == IF s.cgi[h].added THEN {"orphan"} ELSE {}
  <2>2. t = [u EXCEPT !.astray = u.astray \cup A]
    BY <1>1, <2>1 DEF KillCgi, Server
  <2>a. A \in SUBSET {"orphan"} /\ (s.cgi[h].added => "orphan" \in A)
    OBVIOUS
  <2> HIDE DEF t, u, A
  <2>3. t \in Server
    BY <2>1, <2>2, <2>a DEF Server, Accident
  <2>4. /\ SameHandlers(u, t) /\ t.cgis = u.cgis /\ t.fds = u.fds /\ t.cgi = u.cgi
        /\ t.watched = u.watched /\ t.astray = u.astray \cup A
    BY <2>1, <2>2 DEF Server, SameHandlers
  <2>5. SameHandlers(s, t) /\ Closes(s, t, Ends(s.cgi[h]))
    BY <2>1, <2>4 DEF SameHandlers, Closes
  <2>6. /\ ~isCgiRunning(t, h) /\ t.cgi[h].in = 0
        /\ \A k \in Handler \ {h} : SameCgi(s, t, k)
    BY <2>1, <2>4 DEF OnlyCgiGone, SameCgi, isCgiRunning, NoCgi
  <2>7. /\ s.cgi[h].added => "orphan" \in t.astray
        /\ t.astray \ {"orphan", "ghost"} = s.astray \ {"orphan", "ghost"}
        /\ "orphan" \in s.astray => "orphan" \in t.astray
    BY <2>1, <2>4, <2>a DEF OnlyGhosts
  <2> QED BY <1>1, <2>1, <2>3, <2>4, <2>5, <2>6, <2>7 DEF t, KilledFor
<1>2. CASE ~isCgiRunning(s, h)
  <2>1. t = s
    BY <1>2 DEF KillCgi
  <2> HIDE DEF t
  <2>2. s.cgi[h].in = 0
    BY <1>2 DEF EntriesInv
  <2>3. SameHandlers(s, s) /\ Closes(s, s, {}) /\ \A k \in Handler \ {h} : SameCgi(s, s, k)
    BY DEF SameHandlers, Closes, SameCgi
  <2> QED BY <1>2, <2>1, <2>2, <2>3 DEF t, KilledFor
<1> QED BY <1>1, <1>2

\* The connection f with the handler h is closed.
Gone(s, t, f, h) ==
  LET F == IF isCgiRunning(s, h) THEN Ends(s.cgi[h]) ELSE {} IN
  /\ t \in Server
  /\ t.handlers[f] = 0 /\ \A g \in Fd \ {f} : t.handlers[g] = s.handlers[g]
  /\ t.alive = s.alive \ {h} /\ t.amount = s.amount - 1
  /\ t.made = s.made /\ t.defined = s.defined /\ t.cgis = s.cgis
  /\ Closes(s, t, F \cup {f})
  /\ ~isCgiRunning(t, h) /\ t.cgi[h].in = 0
  /\ \A k \in Handler \ {h} : SameCgi(s, t, k)
  /\ isCgiRunning(s, h) /\ s.cgi[h].added => "orphan" \in t.astray
  /\ Remembers(s, t) /\ ("stale" \in t.astray => "stale" \in s.astray)
LEMMA CloseConnectionEffect ==
  ASSUME NEW s \in Server, NEW f \in Fd, s.handlers[f] # 0, DataInv(s)
  PROVE  Gone(s, CloseConnection(s, f), f, s.handlers[f])
<1> DEFINE h == s.handlers[f]
           F == IF isCgiRunning(s, h) THEN Ends(s.cgi[h]) ELSE {}
           u == KillCgi(s, h)
           v == Forget(u, f)
           t == Close(v, {f})
           handlers == [u.handlers EXCEPT ![f] = 0]
<1>1. h \in Handler
  BY DEF Server
<1>2. CloseConnection(s, f) = t
  BY DEF CloseConnection
<1>3. KilledFor(s, u, h)
  BY <1>1, KillCgiEffect DEF DataInv
<1> HIDE DEF u
<1>4. u \in Server /\ SameHandlers(s, u)
  BY <1>3 DEF KilledFor
<1>5. s.amount \in 1..MaxConns
  <2> DEFINE C == {g \in Fd : s.handlers[g] # 0}
  <2>1. IsFiniteSet(C) /\ Cardinality(C) \in Nat
    BY FiniteFds
  <2>2. Cardinality(C) # 0
    BY <2>1, FS_EmptySet
  <2>3. Cardinality(C) <= s.amount
    BY DEF DataInv, HandlersInv
  <2> QED BY <2>1, <2>2, <2>3, BoundsAssumption DEF Server
<1>6. v = [u EXCEPT !.alive = u.alive \ {h}, !.unsent = u.unsent \ {h},
                    !.amount = u.amount - 1, !.handlers = handlers]
  BY <1>4 DEF Forget, Server, SameHandlers
<1>7. /\ handlers \in [Fd -> Handler \cup {0}]
      /\ handlers[f] = 0 /\ \A g \in Fd \ {f} : handlers[g] = s.handlers[g]
  BY <1>4 DEF Server, SameHandlers
<1> HIDE DEF v, handlers
<1>8. u.amount - 1 \in 0..MaxConns
  BY <1>4, <1>5, BoundsAssumption DEF SameHandlers
<1>9. v \in Server
  BY <1>4, <1>6, <1>7, <1>8 DEF Server
<1>10. /\ v.handlers = handlers /\ v.alive = s.alive \ {h} /\ v.amount = s.amount - 1
       /\ v.made = s.made /\ v.defined = s.defined /\ v.cgis = u.cgis /\ v.fds = u.fds
       /\ v.watched = u.watched /\ v.cgi = u.cgi /\ v.astray = u.astray
  BY <1>4, <1>6 DEF Server, SameHandlers
<1>11. /\ t \in Server /\ SameHandlers(v, t) /\ t.cgis = v.cgis /\ Closes(v, t, {f})
       /\ t.astray = v.astray /\ \A k \in Handler : SameCgi(v, t, k)
  BY <1>9, CloseEffect
<1> HIDE DEF t
<1>12. Closes(s, t, F \cup {f})
  <2>1. Closes(s, u, F)
    BY <1>3 DEF KilledFor
  <2> HIDE DEF F
  <2> QED BY <1>10, <1>11, <2>1 DEF Closes
<1>13. /\ ~isCgiRunning(t, h) /\ t.cgi[h].in = 0
       /\ \A k \in Handler \ {h} : SameCgi(s, t, k)
  BY SMTT(40), <1>1, <1>3, <1>10, <1>11 DEF KilledFor, SameCgi, isCgiRunning
<1>14. /\ isCgiRunning(s, h) /\ s.cgi[h].added => "orphan" \in t.astray
       /\ Remembers(s, t) /\ ("stale" \in t.astray => "stale" \in s.astray)
  BY <1>3, <1>10, <1>11 DEF KilledFor, Remembers
<1>15. /\ t.handlers[f] = 0 /\ \A g \in Fd \ {f} : t.handlers[g] = s.handlers[g]
       /\ t.alive = s.alive \ {h} /\ t.amount = s.amount - 1
       /\ t.made = s.made /\ t.defined = s.defined
  BY <1>7, <1>10, <1>11 DEF SameHandlers
<1>16. t.cgis = s.cgis
  BY <1>3, <1>10, <1>11 DEF KilledFor
<1> QED BY <1>2, <1>11, <1>12, <1>13, <1>14, <1>15, <1>16 DEF Gone

\* One descriptor less leads to a handler.
LEMMA OneLess ==
  ASSUME NEW s \in Server, NEW t \in Server, NEW f \in Fd, s.handlers[f] # 0,
         t.handlers[f] = 0, \A g \in Fd \ {f} : t.handlers[g] = s.handlers[g]
  PROVE  /\ Cardinality({g \in Fd : t.handlers[g] # 0})
              = Cardinality({g \in Fd : s.handlers[g] # 0}) - 1
         /\ Cardinality({g \in Fd : s.handlers[g] # 0}) \in Nat
<1> DEFINE C == {g \in Fd : s.handlers[g] # 0}
           D == {g \in Fd : t.handlers[g] # 0}
<1>1. D = C \ {f} /\ f \in C
  OBVIOUS
<1>2. IsFiniteSet(C) /\ Cardinality(C) \in Nat
  BY FiniteFds
<1> HIDE DEF C, D
<1>3. Cardinality(C \ {f}) = Cardinality(C) - 1
  BY <1>1, <1>2, FS_RemoveElement
<1> QED BY <1>1, <1>2, <1>3 DEF C, D

LEMMA GoneIsRight ==
  ASSUME NEW s \in Server, NEW f \in Fd, s.handlers[f] # 0, DataInv(s),
         NEW t, Gone(s, t, f, s.handlers[f])
  PROVE  Right(s, t)
<1> DEFINE h == s.handlers[f]
           F == IF isCgiRunning(s, h) THEN Ends(s.cgi[h]) ELSE {}
<1>1. /\ t \in Server /\ t.handlers[f] = 0
      /\ \A g \in Fd \ {f} : t.handlers[g] = s.handlers[g]
      /\ t.alive = s.alive \ {h} /\ t.amount = s.amount - 1 /\ t.made = s.made
      /\ t.cgis = s.cgis /\ ~isCgiRunning(t, h) /\ t.cgi[h].in = 0
      /\ \A k \in Handler \ {h} : /\ SameCgi(s, t, k)
                                  /\ isCgiRunning(t, k) <=> isCgiRunning(s, k)
      /\ Remembers(s, t) /\ ("stale" \in t.astray => "stale" \in s.astray)
      /\ isCgiRunning(s, h) /\ s.cgi[h].added => "orphan" \in t.astray
  BY DEF Gone, SameCgi, isCgiRunning
<1>2. Closes(s, t, F \cup {f})
  BY DEF Gone
<1>3. h \in Handler /\ h # 0
  BY BoundsAssumption DEF Server, Handler
<1>4. HandlersInv(t)
  <2>1. /\ Cardinality({g \in Fd : t.handlers[g] # 0})
             = Cardinality({g \in Fd : s.handlers[g] # 0}) - 1
        /\ Cardinality({g \in Fd : s.handlers[g] # 0}) \in Nat
    BY <1>1, OneLess
  <2>2. /\ Cardinality({g \in Fd : s.handlers[g] # 0}) <= s.amount
        /\ s.amount <= s.made /\ s.amount \in Nat /\ s.made \in Nat
    BY BoundsAssumption DEF DataInv, HandlersInv, Server
  <2>3. /\ Cardinality({g \in Fd : t.handlers[g] # 0}) <= t.amount
        /\ t.amount <= t.made
    BY <1>1, <2>1, <2>2
  <2>4. ASSUME NEW g \in Fd, t.handlers[g] # 0
        PROVE  t.handlers[g] \in t.alive
    BY <1>1, <2>4 DEF DataInv, HandlersInv
  <2>5. ASSUME NEW g \in Fd, t.handlers[g] # 0, NEW k \in Fd, t.handlers[g] = t.handlers[k]
        PROVE  g = k
    BY <1>1, <2>5 DEF DataInv, HandlersInv
  <2>6. \A k \in t.alive : k <= t.made
    BY <1>1 DEF DataInv, HandlersInv
  <2> QED BY <2>3, <2>4, <2>5, <2>6 DEF HandlersInv
<1>5. EntriesInv(t)
  <2>1. ASSUME NEW k \in Handler
        PROVE  IF isCgiRunning(t, k) THEN k \in t.alive ELSE t.cgi[k].in = 0
    BY <1>1 DEF DataInv, EntriesInv, SameCgi
  <2>2. ASSUME "orphan" \notin t.astray, NEW g \in Fd, t.cgis[g] # 0
        PROVE  IsEntry(t, g, t.cgis[g])
    <3>1. t.cgis[g] = s.cgis[g] /\ s.cgis[g] \in Handler
      BY <1>1, <2>2 DEF Server
    <3>2. IsEntry(s, g, s.cgis[g])
      BY <1>1, <2>2, <3>1 DEF Remembers, DataInv, EntriesInv, IsEntry
    <3>3. s.cgis[g] # h
      BY <1>1, <2>2, <3>2 DEF IsEntry
    <3> QED BY <1>1, <3>1, <3>2, <3>3 DEF SameCgi, IsEntry
  <2> QED BY <2>1, <2>2 DEF EntriesInv, IsEntry
<1>6. CASE "stale" \in t.astray
  BY <1>1, <1>4, <1>5, <1>6 DEF Right, DataInv, OwnersInv, NotStolen
<1>7. CASE "stale" \notin t.astray
  <2>1. /\ "stale" \notin s.astray /\ OwnersInv(s) /\ EntriesInv(s) /\ AreCounted(s)
        /\ \A g \in Fd : IsOwned(s, g)
        /\ \A k \in Handler : OwnsItsPipes(s, k)
    BY <1>1, <1>7 DEF Remembers, DataInv, OwnersInv
  <2>2. \A g \in Fd \cap F : /\ t.fds[g] = Closed /\ s.handlers[g] = 0 /\ g # f
                             /\ s.fds[g].owner = h /\ s.fds[g].kind # "conn"
    <3>1. \A g \in Fd \cap F : g \in {s.cgi[h].out, s.cgi[h].in}
      BY DEF Ends
    <3> QED BY <1>2, <1>3, <2>1, <3>1, PipeIsOwn DEF Closes
  <2>3. \A g \in Fd \ F : g # f =>
          t.fds[g] = s.fds[g] /\ (g \in t.watched <=> g \in s.watched)
    BY <1>2 DEF Closes
  <2>a. t.fds[f] = Closed /\ s.fds[f].kind = "conn"
    <3>1. t.fds[f] = Closed
      BY <1>2 DEF Closes
    <3>2. IsOwned(s, f)
      BY <2>1
    <3> QED BY <3>1, <3>2 DEF IsOwned
  <2>4. NotStolen(s, t)
    BY <1>1, <2>2, <2>3 DEF NotStolen
  <2>5. ASSUME NEW g \in Fd
        PROVE  IsOwned(t, g)
    <3>1. CASE g \in F \cup {f}
      BY <1>1, <2>2, <2>a, <3>1 DEF IsOwned
    <3>2. CASE g \notin F \cup {f}
      <4>1. s.cgi[h].out # g /\ s.cgi[h].in # g
        BY <1>3, <2>1, <3>2, PipeIsOwn
      <4>2. /\ \A k \in Handler : /\ s.cgi[k].out = g => t.cgi[k].out = g
                                  /\ s.cgi[k].in = g => t.cgi[k].in = g
            /\ t.fds[g] = s.fds[g] /\ (g \in t.watched <=> g \in s.watched)
            /\ IsOwned(s, g) /\ t.handlers[g] = s.handlers[g]
        BY <1>1, <2>1, <2>3, <3>2, <4>1 DEF SameCgi
      <4> QED BY <4>2 DEF IsOwned
    <3> QED BY <3>1, <3>2
  <2>6. ASSUME NEW k \in Handler
        PROVE  OwnsItsPipes(t, k)
    <3>1. CASE k = h
      <4>1. t.cgi[h].out = 0 /\ t.cgi[h].in = 0
        BY <1>1 DEF isCgiRunning
      <4> QED BY <3>1, <4>1 DEF OwnsItsPipes
    <3>2. CASE k # h
      <4>1. SameCgi(s, t, k) /\ OwnsItsPipes(s, k)
        BY <1>1, <2>1, <3>2
      <4>2. s.cgi[k].out \in Fd \cup {0} /\ s.cgi[k].in \in Fd \cup {0}
        BY DEF Server, CgiData
      <4>3. \A g \in Fd \cap {s.cgi[k].out, s.cgi[k].in} :
              s.fds[g].owner = k /\ s.fds[g].kind # "conn"
        BY <2>1, PipeIsOwn
      <4>4. \A g \in {s.cgi[k].out, s.cgi[k].in} \ {0} :
              t.fds[g] = s.fds[g] /\ t.cgis[g] = s.cgis[g]
        BY <1>1, <2>2, <2>3, <2>a, <3>2, <4>2, <4>3
      <4>5. "orphan" \notin t.astray => "orphan" \notin s.astray
        BY <1>1 DEF Remembers
      <4> QED BY <4>1, <4>4, <4>5 DEF OwnsItsPipes, SameCgi
    <3> QED BY <3>1, <3>2
  <2>7. AreCounted(t)
    <3>1. t.amount = Cardinality({g \in Fd : t.handlers[g] # 0})
      BY <1>1, <2>1, OneLess DEF AreCounted
    <3>2. \A k \in t.alive : \E g \in Fd : t.handlers[g] = k
      BY <1>1, <2>1 DEF AreCounted
    <3> QED BY <3>1, <3>2 DEF AreCounted
  <2>8. OwnersInv(t)
    BY <2>5, <2>6, <2>7 DEF OwnersInv
  <2> QED BY <1>1, <1>4, <1>5, <2>4, <2>8 DEF Right, DataInv
<1> QED BY <1>6, <1>7

\* The handlers of the descriptors other than f are as they were.
OnlyHandlerOf(s, t, f) == \A g \in Fd \ {f} : t.handlers[g] = s.handlers[g]

LEMMA CloseConnectionIsRight ==
  ASSUME NEW s \in Server, NEW f \in Fd, DataInv(s)
  PROVE  LET t == CloseConnection(s, f) IN
         /\ Right(s, t) /\ t.defined = s.defined
         /\ t.handlers[f] = 0 /\ OnlyHandlerOf(s, t, f)
<1> DEFINE t == CloseConnection(s, f)
<1>1. CASE s.handlers[f] # 0
  <2>1. Gone(s, t, f, s.handlers[f])
    BY <1>1, CloseConnectionEffect
  <2> HIDE DEF t
  <2>2. Right(s, t)
    BY <1>1, <2>1, GoneIsRight
  <2> QED BY <2>1, <2>2 DEF t, Gone, OnlyHandlerOf
<1>2. CASE s.handlers[f] = 0
  <2>1. t = [s EXCEPT !.watched = s.watched \ {f}]
    BY <1>2 DEF CloseConnection, Server
  <2> HIDE DEF t
  <2>2. /\ t \in Server /\ t.watched = s.watched \ {f}
        /\ t.fds = s.fds /\ t.handlers = s.handlers /\ t.cgis = s.cgis /\ t.alive = s.alive
        /\ t.cgi = s.cgi /\ t.amount = s.amount /\ t.made = s.made
        /\ t.defined = s.defined /\ t.astray = s.astray
    BY <2>1 DEF Server
  <2>3. HandlersInv(t)
    BY <2>2 DEF DataInv, HandlersInv
  <2>4. EntriesInv(t)
    BY <2>2 DEF DataInv, EntriesInv, isCgiRunning
  <2>5. \A g \in Fd : IsOwned(s, g) => IsOwned(t, g)
    BY <1>2, <2>2 DEF IsOwned
  <2>6. OwnersInv(t)
    BY <2>2, <2>5 DEF DataInv, OwnersInv, OwnsItsPipes, AreCounted
  <2>7. NotStolen(s, t) /\ Remembers(s, t)
    BY <2>2 DEF NotStolen, Remembers
  <2> QED BY <1>2, <2>2, <2>3, <2>4, <2>6, <2>7 DEF t, Right, DataInv, OnlyHandlerOf
<1> QED BY <1>1, <1>2

\* The Cgi of h is started on the pipe out, and on in as well if F has it, and is
\* not in the maps yet.
Started(s, t, h, F) ==
  LET c == t.cgi[h] IN
  /\ t \in Server /\ SameHandlers(s, t)
  /\ t.cgis = s.cgis /\ t.watched = s.watched /\ t.ghosts = s.ghosts
  /\ t.astray = s.astray
  /\ c.out # 0 /\ F = {c.out, c.in} \ {0} /\ F \subseteq FreeFds(s) /\ ~c.added
  /\ t.fds[c.out] = [kind |-> "cgiOut", owner |-> h]
  /\ c.in # 0 => t.fds[c.in] = [kind |-> "cgiIn", owner |-> h] /\ c.inOpen
  /\ \A k \in Handler \ {h} : SameCgi(s, t, k)
  /\ \A g \in Fd \ F : t.fds[g] = s.fds[g]

LEMMA StartCgiEffect ==
  ASSUME NEW s \in Server, NEW h \in Handler, NEW large \in BOOLEAN
  PROVE  StartCgi(s, h, large) = s \/ \E F : Started(s, StartCgi(s, h, large), h, F)
<1> DEFINE in == Lowest(s, 2)
           out == Lowest(s, 3)
           F == IF large THEN {in, out} ELSE {out}
           c == [out |-> out, in |-> IF large THEN in ELSE 0, inOpen |-> large,
                 added |-> FALSE, late |-> FALSE, copies |-> Fd \ FreeFds(s)]
           fds == [f \in Fd |-> IF f = out THEN [kind |-> "cgiOut", owner |-> h]
                                ELSE IF f = in /\ large
                                  THEN [kind |-> "cgiIn", owner |-> h]
                                ELSE s.fds[f]]
           cgi == [s.cgi EXCEPT ![h] = c]
           t == [s EXCEPT !.fds = fds, !.cgi = cgi]
<1>1. CASE Cardinality(FreeFds(s)) < PipesNeeded
  BY <1>1 DEF StartCgi
<1>2. CASE ~(Cardinality(FreeFds(s)) < PipesNeeded)
  <2>1. StartCgi(s, h, large) = t
    BY <1>2 DEF StartCgi, Server
  <2>2. in \in FreeFds(s) /\ out \in FreeFds(s) /\ in # out
    <3>1. Cardinality(FreeFds(s)) \in Nat
      BY FiniteFds DEF FreeFds
    <3> QED BY <1>2, <3>1, PipesAreFree DEF PipesNeeded
  <2> HIDE DEF in, out
  <2>3. in \in Fd /\ out \in Fd /\ 0 \notin Fd
    BY <2>2, BoundsAssumption DEF FreeFds, Fd
  <2>4. /\ c \in CgiData /\ c.out = out /\ c.in = IF large THEN in ELSE 0
        /\ c.inOpen = large /\ c.added = FALSE
    BY <2>3 DEF CgiData
  <2>5. F = {c.out, c.in} \ {0} /\ F \subseteq FreeFds(s)
    BY <2>2, <2>3, <2>4
  <2>6. fds \in [Fd -> Description]
    BY DEF Server, Description
  <2>7. /\ fds[c.out] = [kind |-> "cgiOut", owner |-> h]
        /\ c.in # 0 => fds[c.in] = [kind |-> "cgiIn", owner |-> h] /\ c.inOpen
        /\ \A g \in Fd \ F : fds[g] = s.fds[g]
    BY <2>2, <2>3, <2>4
  <2> HIDE DEF c, fds, F
  <2>8. cgi \in [Handler -> CgiData] /\ cgi[h] = c
        /\ \A k \in Handler \ {h} : cgi[k] = s.cgi[k]
    BY <2>4 DEF Server
  <2> HIDE DEF cgi
  <2>9. t \in Server
    BY <2>6, <2>8 DEF Server
  <2>10. /\ t.fds = fds /\ t.cgi = cgi /\ t.cgis = s.cgis /\ t.watched = s.watched
         /\ t.ghosts = s.ghosts /\ SameHandlers(s, t) /\ t.astray = s.astray
    BY DEF Server, SameHandlers
  <2> HIDE DEF t
  <2>11. \A k \in Handler \ {h} : SameCgi(s, t, k)
    BY <2>8, <2>10 DEF SameCgi
  <2>12. t.cgi[h] = c /\ c.out # 0
    BY <2>3, <2>4, <2>8, <2>10
  <2>13. Started(s, t, h, F)
    BY <2>4, <2>5, <2>7, <2>9, <2>10, <2>11, <2>12 DEF Started
  <2> QED BY <2>1, <2>13
<1> QED BY <1>1, <1>2

LEMMA StartedIsRight ==
  ASSUME NEW s \in Server, NEW h \in s.alive, ~isCgiRunning(s, h), DataInv(s),
         NEW t, NEW F, Started(s, t, h, F)
  PROVE  Right(s, t)
<1>1. /\ t \in Server /\ h \in Handler
      /\ t.handlers = s.handlers /\ t.alive = s.alive /\ t.amount = s.amount
      /\ t.made = s.made /\ t.watched = s.watched /\ t.cgis = s.cgis
      /\ t.astray = s.astray
      /\ isCgiRunning(t, h) /\ F = {t.cgi[h].out, t.cgi[h].in} \ {0} /\ F \subseteq FreeFds(s)
      /\ \A k \in Handler \ {h} : /\ SameCgi(s, t, k)
                                  /\ isCgiRunning(t, k) <=> isCgiRunning(s, k)
      /\ \A g \in Fd \ F : t.fds[g] = s.fds[g]
  BY DEF Started, SameHandlers, SameCgi, isCgiRunning, Server
<1>2. /\ t.fds[t.cgi[h].out] = [kind |-> "cgiOut", owner |-> h]
      /\ t.cgi[h].in # 0 => /\ t.fds[t.cgi[h].in] = [kind |-> "cgiIn", owner |-> h]
                            /\ t.cgi[h].inOpen
      /\ ~t.cgi[h].added
  BY DEF Started
<1>3. 0 \notin Fd /\ F \subseteq Fd /\ \A g \in F : s.fds[g] = Closed
  BY <1>1, BoundsAssumption DEF Fd, FreeFds
<1>4. Remembers(s, t)
  BY <1>1 DEF Remembers
<1>5. HandlersInv(t)
  BY <1>1 DEF DataInv, HandlersInv
<1>6. EntriesInv(t)
  <2>1. ASSUME NEW k \in Handler
        PROVE  IF isCgiRunning(t, k) THEN k \in t.alive ELSE t.cgi[k].in = 0
    BY <1>1 DEF DataInv, EntriesInv, SameCgi
  <2>2. ASSUME "orphan" \notin t.astray, NEW g \in Fd, t.cgis[g] # 0
        PROVE  IsEntry(t, g, t.cgis[g])
    <3>1. t.cgis[g] = s.cgis[g] /\ s.cgis[g] \in Handler
      BY <1>1, <2>2 DEF Server
    <3>2. IsEntry(s, g, s.cgis[g])
      BY <1>1, <2>2, <3>1 DEF DataInv, EntriesInv, IsEntry
    <3>3. s.cgis[g] # h
      BY <3>2 DEF IsEntry
    <3> QED BY <1>1, <3>1, <3>2, <3>3 DEF SameCgi, IsEntry
  <2> QED BY <2>1, <2>2 DEF EntriesInv, IsEntry
<1>7. NotStolen(s, t)
  <2>1. \A g \in Fd : s.fds[g].kind = "conn" => t.fds[g] = s.fds[g]
    BY <1>1, <1>3 DEF Closed
  <2> QED BY <2>1 DEF NotStolen
<1>8. CASE "stale" \in t.astray
  BY <1>1, <1>4, <1>5, <1>6, <1>7, <1>8 DEF Right, DataInv, OwnersInv
<1>9. CASE "stale" \notin t.astray
  <2>1. /\ "stale" \notin s.astray /\ OwnersInv(s) /\ EntriesInv(s) /\ AreCounted(s)
        /\ \A g \in Fd : IsOwned(s, g)
        /\ \A k \in Handler : OwnsItsPipes(s, k)
    BY <1>1, <1>9 DEF DataInv, OwnersInv
  <2>2. \A k \in Handler : \A g \in F : g # s.cgi[k].out /\ g # s.cgi[k].in
    BY <1>3, <2>1, PipeIsOwn
  <2>3. ASSUME NEW g \in Fd
        PROVE  IsOwned(t, g)
    <3>1. CASE g \in F
      <4>1. IsOwned(s, g) /\ s.fds[g] = Closed
        BY <1>3, <2>1, <3>1
      <4>2. s.handlers[g] = 0
        BY <4>1 DEF IsOwned, Closed
      <4> QED BY <1>1, <1>2, <3>1, <4>2 DEF IsOwned
    <3>2. CASE g \notin F
      <4>1. s.cgi[h].out = 0 /\ s.cgi[h].in = 0
        BY <1>1, <2>1 DEF EntriesInv, isCgiRunning
      <4>2. /\ \A k \in Handler : /\ s.cgi[k].out = g => t.cgi[k].out = g
                                  /\ s.cgi[k].in = g => t.cgi[k].in = g
            /\ t.fds[g] = s.fds[g]
            /\ IsOwned(s, g)
        BY <1>1, <1>3, <2>1, <3>2, <4>1 DEF SameCgi
      <4> QED BY <1>1, <4>2 DEF IsOwned
    <3> QED BY <3>1, <3>2
  <2>4. ASSUME NEW k \in Handler
        PROVE  OwnsItsPipes(t, k)
    <3>1. CASE k = h
      BY <1>1, <1>2, <3>1 DEF OwnsItsPipes
    <3>2. CASE k # h
      <4>1. SameCgi(s, t, k) /\ OwnsItsPipes(s, k)
        BY <1>1, <2>1, <3>2
      <4>2. s.cgi[k].out \in Fd \cup {0} /\ s.cgi[k].in \in Fd \cup {0}
        BY DEF Server, CgiData
      <4>3. \A g \in {s.cgi[k].out, s.cgi[k].in} \ {0} : t.fds[g] = s.fds[g]
        BY <1>1, <2>2, <4>2
      <4> QED BY <1>1, <4>1, <4>3 DEF OwnsItsPipes, SameCgi
    <3> QED BY <3>1, <3>2
  <2>5. AreCounted(t)
    BY <1>1, <2>1 DEF AreCounted
  <2> QED BY <1>1, <1>4, <1>5, <1>6, <1>7, <2>3, <2>4, <2>5 DEF Right, DataInv, OwnersInv
<1> QED BY <1>8, <1>9

\* The Cgi of h is in the maps.
Added(s, t, h) ==
  LET F == {s.cgi[h].out, s.cgi[h].in} IN
  /\ t \in Server /\ SameHandlers(s, t) /\ t.fds = s.fds /\ t.ghosts = s.ghosts
  /\ t.watched = s.watched \cup (F \ {0})
  /\ \A f \in Fd : t.cgis[f] = IF f \in F THEN h ELSE s.cgis[f]
  /\ t.cgi[h].out = s.cgi[h].out /\ t.cgi[h].in = s.cgi[h].in
  /\ t.cgi[h].inOpen = s.cgi[h].inOpen /\ t.cgi[h].added
  /\ \A k \in Handler \ {h} : t.cgi[k] = s.cgi[k]
  /\ s.astray \subseteq t.astray /\ t.astray \subseteq s.astray \cup {"twin"}
  /\ s.cgi[h].in # 0 => "twin" \in t.astray

LEMMA AddCgiEffect ==
  ASSUME NEW s \in Server, NEW h \in Handler
  PROVE  Added(s, AddCgi(s, h), h)
<1> DEFINE F == {s.cgi[h].out, s.cgi[h].in} \ {0}
           c == [s.cgi[h] EXCEPT !.added = TRUE]
           cgi == [s.cgi EXCEPT ![h] = c]
           cgis == [f \in Fd |-> IF f \in F THEN h ELSE s.cgis[f]]
           astray == s.astray \cup (IF s.cgi[h].in # 0 THEN {"twin"} ELSE {})
           t == [s EXCEPT !.watched = s.watched \cup F, !.cgis = cgis, !.cgi = cgi,
                          !.astray = astray]
<1>1. AddCgi(s, h) = t
  BY DEF AddCgi, Server
<1>2. /\ c \in CgiData /\ c.out = s.cgi[h].out /\ c.in = s.cgi[h].in
      /\ c.inOpen = s.cgi[h].inOpen /\ c.added
  <2>1. s.cgi[h] \in CgiData
    BY DEF Server
  <2> QED BY <2>1 DEF CgiData
<1>3. F \subseteq Fd /\ 0 \notin Fd
  BY BoundsAssumption DEF Server, CgiData, Fd
<1> HIDE DEF c
<1>4. cgi \in [Handler -> CgiData] /\ cgi[h] = c
      /\ \A k \in Handler \ {h} : cgi[k] = s.cgi[k]
  BY <1>2 DEF Server
<1>5. cgis \in [Fd -> Handler \cup {0}]
      /\ \A f \in Fd : cgis[f] = IF f \in {s.cgi[h].out, s.cgi[h].in} THEN h ELSE s.cgis[f]
  BY <1>3 DEF Server
<1>6. /\ astray \in SUBSET Accident /\ s.astray \subseteq astray
      /\ astray \subseteq s.astray \cup {"twin"}
      /\ s.cgi[h].in # 0 => "twin" \in astray
  BY DEF Server, Accident
<1> HIDE DEF cgi, cgis, astray
<1>7. s.watched \cup F \in SUBSET Fd
  BY <1>3 DEF Server
<1>8. t \in Server
  <2> HIDE DEF F
  <2> QED BY <1>4, <1>5, <1>6, <1>7 DEF Server
<1>9. /\ t.fds = s.fds /\ t.ghosts = s.ghosts /\ SameHandlers(s, t)
      /\ t.watched = s.watched \cup F /\ t.cgis = cgis /\ t.cgi = cgi /\ t.astray = astray
  BY DEF Server, SameHandlers
<1> HIDE DEF t
<1>10. Added(s, t, h)
  BY <1>2, <1>4, <1>5, <1>6, <1>8, <1>9 DEF Added
<1> QED BY <1>1, <1>10

LEMMA AddedIsRight ==
  ASSUME NEW s \in Server, NEW h \in Handler, isCgiRunning(s, h), DataInv(s),
         NEW t, Added(s, t, h)
  PROVE  Right(s, t)
<1> DEFINE F == {s.cgi[h].out, s.cgi[h].in}
<1>1. /\ t \in Server
      /\ t.handlers = s.handlers /\ t.alive = s.alive /\ t.amount = s.amount
      /\ t.made = s.made /\ t.fds = s.fds /\ s.watched \subseteq t.watched
      /\ \A f \in Fd : t.cgis[f] = IF f \in F THEN h ELSE s.cgis[f]
      /\ \A k \in Handler : /\ t.cgi[k].out = s.cgi[k].out /\ t.cgi[k].in = s.cgi[k].in
                            /\ t.cgi[k].inOpen = s.cgi[k].inOpen
                            /\ isCgiRunning(t, k) <=> isCgiRunning(s, k)
      /\ t.cgi[h].added /\ \A k \in Handler \ {h} : t.cgi[k].added = s.cgi[k].added
      /\ s.astray \subseteq t.astray
      /\ "stale" \in t.astray => "stale" \in s.astray
      /\ "orphan" \in t.astray => "orphan" \in s.astray
  BY DEF Added, SameHandlers, isCgiRunning
<1>2. Remembers(s, t) /\ NotStolen(s, t)
  BY <1>1 DEF Remembers, NotStolen
<1>3. HandlersInv(t)
  BY <1>1 DEF DataInv, HandlersInv
<1>4. EntriesInv(t)
  <2>1. ASSUME NEW k \in Handler
        PROVE  IF isCgiRunning(t, k) THEN k \in t.alive ELSE t.cgi[k].in = 0
    BY <1>1 DEF DataInv, EntriesInv
  <2>2. ASSUME "orphan" \notin t.astray, NEW f \in Fd, t.cgis[f] # 0
        PROVE  IsEntry(t, f, t.cgis[f])
    <3>1. CASE f \in F
      BY <1>1, <3>1 DEF IsEntry
    <3>2. CASE f \notin F
      <4>1. t.cgis[f] = s.cgis[f] /\ s.cgis[f] \in Handler
        BY <1>1, <2>2, <3>2 DEF Server
      <4>2. IsEntry(s, f, s.cgis[f])
        BY <1>1, <2>2, <4>1 DEF DataInv, EntriesInv, IsEntry
      <4> QED BY <1>1, <4>1, <4>2 DEF IsEntry
    <3> QED BY <3>1, <3>2
  <2> QED BY <2>1, <2>2 DEF EntriesInv, IsEntry
<1>5. CASE "stale" \in t.astray
  BY <1>1, <1>2, <1>3, <1>4, <1>5 DEF Right, DataInv, OwnersInv
<1>6. CASE "stale" \notin t.astray
  <2>1. /\ "stale" \notin s.astray /\ OwnersInv(s) /\ EntriesInv(s) /\ AreCounted(s)
        /\ \A f \in Fd : IsOwned(s, f)
        /\ \A k \in Handler : OwnsItsPipes(s, k)
    BY <1>1, <1>6 DEF DataInv, OwnersInv
  <2>2. \A f \in Fd : IsOwned(t, f)
    BY <1>1, <2>1 DEF IsOwned
  <2>3. ASSUME NEW k \in Handler
        PROVE  OwnsItsPipes(t, k)
    <3>1. OwnsItsPipes(s, k) /\ s.cgi[k].out \in Fd \cup {0} /\ s.cgi[k].in \in Fd \cup {0}
      BY <2>1 DEF Server, CgiData
    <3>2. CASE k = h
      BY <1>1, <3>1, <3>2 DEF OwnsItsPipes
    <3>3. CASE k # h
      <4>1. \A f \in {s.cgi[k].out, s.cgi[k].in} \ {0} : f \in Fd /\ f \notin F
        <5>1. ASSUME NEW f \in Fd, f \in {s.cgi[k].out, s.cgi[k].in}
              PROVE  f \notin F
          <6>1. s.fds[f].owner = k
            BY <2>1, <5>1, PipeIsOwn
          <6>2. f \in F => s.fds[f].owner = h
            BY <2>1, PipeIsOwn
          <6> QED BY <3>3, <6>1, <6>2
        <5> QED BY <3>1, <5>1
      <4>2. \A f \in {s.cgi[k].out, s.cgi[k].in} \ {0} : t.cgis[f] = s.cgis[f]
        BY <1>1, <4>1
      <4> QED BY <1>1, <3>1, <3>3, <4>2 DEF OwnsItsPipes
    <3> QED BY <3>2, <3>3
  <2>4. AreCounted(t)
    BY <1>1, <2>1 DEF AreCounted
  <2> QED BY <1>1, <1>2, <1>3, <1>4, <2>2, <2>3, <2>4 DEF Right, DataInv, OwnersInv
<1> QED BY <1>5, <1>6

\* A history that changes in nothing but A changes nothing else.
Noted(s, A) == [s EXCEPT !.astray = s.astray \cup A]

LEMMA NotedIsRight ==
  ASSUME NEW s \in Server, NEW A \in SUBSET {"twice", "unheard"}, DataInv(s)
  PROVE  LET t == Noted(s, A) IN
         /\ Right(s, t) /\ t.cgi = s.cgi /\ t.cgis = s.cgis /\ t.defined = s.defined
         /\ t.handlers = s.handlers /\ t.astray = s.astray \cup A
         /\ t.fds = s.fds /\ t.watched = s.watched /\ t.ghosts = s.ghosts
<1> DEFINE t == Noted(s, A)
<1>1. t \in Server
  BY DEF Noted, Server, Accident
<1>2. /\ t.fds = s.fds /\ t.watched = s.watched /\ t.handlers = s.handlers
      /\ t.cgis = s.cgis /\ t.alive = s.alive /\ t.cgi = s.cgi /\ t.amount = s.amount
      /\ t.made = s.made /\ t.defined = s.defined /\ t.astray = s.astray \cup A
      /\ t.ghosts = s.ghosts
  BY DEF Noted, Server
<1> HIDE DEF t
<1>3. /\ "orphan" \in t.astray <=> "orphan" \in s.astray
      /\ "stale" \in t.astray <=> "stale" \in s.astray
      /\ Remembers(s, t)
  BY <1>2 DEF Remembers
<1>4. HandlersInv(t)
  BY <1>2 DEF DataInv, HandlersInv
<1>5. EntriesInv(t)
  BY <1>2, <1>3 DEF DataInv, EntriesInv, isCgiRunning
<1>6. OwnersInv(t)
  <2>1. \A f \in Fd : IsOwned(s, f) => IsOwned(t, f)
    BY <1>2 DEF IsOwned
  <2>2. \A h \in Handler : OwnsItsPipes(s, h) => OwnsItsPipes(t, h)
    BY <1>2, <1>3 DEF OwnsItsPipes
  <2>3. AreCounted(s) => AreCounted(t)
    BY <1>2 DEF AreCounted
  <2> QED BY <1>3, <2>1, <2>2, <2>3 DEF DataInv, OwnersInv
<1>7. NotStolen(s, t)
  BY <1>2 DEF NotStolen
<1> QED BY <1>1, <1>2, <1>3, <1>4, <1>5, <1>6, <1>7 DEF t, Right, DataInv

\* Nothing has changed but which handlers have an answer to send.
OnlyUnsent(s, t) ==
  /\ t \in Server /\ SameHandlers(s, t) /\ t.fds = s.fds /\ t.watched = s.watched
  /\ t.ghosts = s.ghosts /\ t.cgis = s.cgis /\ t.cgi = s.cgi /\ t.astray = s.astray

LEMMA UnsentIsRight ==
  ASSUME NEW s \in Server, NEW t, OnlyUnsent(s, t), DataInv(s)
  PROVE  Right(s, t)
<1>1. HandlersInv(t)
  BY DEF DataInv, HandlersInv, OnlyUnsent, SameHandlers
<1>2. EntriesInv(t)
  BY DEF DataInv, EntriesInv, isCgiRunning, OnlyUnsent, SameHandlers
<1>3. OwnersInv(t)
  BY DEF DataInv, OwnersInv, IsOwned, OwnsItsPipes, AreCounted, OnlyUnsent, SameHandlers
<1> QED BY <1>1, <1>2, <1>3 DEF Right, DataInv, NotStolen, Remembers, OnlyUnsent

\* accept() and its handler.
LEMMA NewConnectionEffect ==
  ASSUME NEW s \in Server, NEW f \in Fd, s.made < MaxConns, s.amount <= s.made
  PROVE  LET t == NewConnection(s, f)  h == s.made + 1 IN
         /\ t \in Server /\ h \in Handler /\ h # 0
         /\ t.fds[f] = [kind |-> "conn", owner |-> h]
         /\ \A g \in Fd \ {f} : /\ t.fds[g] = s.fds[g] /\ t.handlers[g] = s.handlers[g]
                                /\ g \in t.watched <=> g \in s.watched
         /\ t.handlers[f] = h /\ f \in t.watched
         /\ t.alive = s.alive \cup {h} /\ t.amount = s.amount + 1 /\ t.made = h
         /\ t.cgis = s.cgis /\ t.cgi = s.cgi /\ t.defined = s.defined /\ t.astray = s.astray
<1> DEFINE t == NewConnection(s, f)
           h == s.made + 1
           fds == [s.fds EXCEPT ![f] = [kind |-> "conn", owner |-> h]]
           handlers == [s.handlers EXCEPT ![f] = h]
<1>1. s.made \in Nat /\ s.amount \in Nat /\ h \in Handler /\ h # 0 /\ h \in 0..MaxConns
      /\ s.amount + 1 \in 0..MaxConns
  BY BoundsAssumption DEF Server, Handler
<1>2. t = [s EXCEPT !.fds = fds, !.watched = s.watched \cup {f}, !.handlers = handlers,
                    !.alive = s.alive \cup {h}, !.amount = s.amount + 1, !.made = h]
  BY DEF NewConnection, Server
<1>3. /\ fds \in [Fd -> Description] /\ fds[f] = [kind |-> "conn", owner |-> h]
      /\ \A g \in Fd \ {f} : fds[g] = s.fds[g]
  <2> HIDE DEF h
  <2> QED BY <1>1 DEF Server, Description
<1>4. /\ handlers \in [Fd -> Handler \cup {0}] /\ handlers[f] = h
      /\ \A g \in Fd \ {f} : handlers[g] = s.handlers[g]
  <2> HIDE DEF h
  <2> QED BY <1>1 DEF Server
<1> HIDE DEF t, h, fds, handlers
<1>5. t \in Server
  BY <1>1, <1>2, <1>3, <1>4 DEF Server
<1>6. /\ t.fds = fds /\ t.watched = s.watched \cup {f} /\ t.handlers = handlers
      /\ t.alive = s.alive \cup {h} /\ t.amount = s.amount + 1 /\ t.made = h
      /\ t.cgis = s.cgis /\ t.cgi = s.cgi /\ t.defined = s.defined /\ t.astray = s.astray
  BY <1>2 DEF Server
<1> QED BY <1>1, <1>3, <1>4, <1>5, <1>6 DEF t, h

LEMMA NewConnectionIsRight ==
  ASSUME NEW s \in Server, NEW f \in FreeFds(s), s.made < MaxConns, DataInv(s)
  PROVE  LET t == NewConnection(s, f) IN
         Right(s, t) /\ t.defined = s.defined /\ OnlyHandlerOf(s, t, f)
<1> DEFINE t == NewConnection(s, f)
           h == s.made + 1
<1>0. f \in Fd /\ s.fds[f] = Closed /\ s.amount <= s.made /\ s.made \in Nat
      /\ s.amount \in Nat
  BY BoundsAssumption DEF FreeFds, DataInv, HandlersInv, Server
<1>1. /\ t \in Server /\ h \in Handler /\ h # 0
      /\ t.fds[f] = [kind |-> "conn", owner |-> h]
      /\ \A g \in Fd \ {f} : /\ t.fds[g] = s.fds[g] /\ t.handlers[g] = s.handlers[g]
                             /\ g \in t.watched <=> g \in s.watched
      /\ t.handlers[f] = h /\ f \in t.watched
      /\ t.alive = s.alive \cup {h} /\ t.amount = s.amount + 1 /\ t.made = h
      /\ t.cgis = s.cgis /\ t.cgi = s.cgi /\ t.defined = s.defined /\ t.astray = s.astray
  BY <1>0, NewConnectionEffect
<1> HIDE DEF t
<1>2. \A k \in s.alive : k <= s.made /\ k # h
  <2>1. \A k \in s.alive : k <= s.made /\ k \in Nat
    BY BoundsAssumption DEF DataInv, HandlersInv, Server, Handler
  <2> QED BY <1>0, <2>1
<1>3. \A g \in Fd : s.handlers[g] # 0 => s.handlers[g] \in s.alive
  BY DEF DataInv, HandlersInv
<1>4. Remembers(s, t)
  BY <1>1 DEF Remembers
<1>5. NotStolen(s, t)
  <2>1. \A g \in Fd : s.fds[g].kind = "conn" => g # f
    BY <1>0 DEF Closed
  <2> QED BY <1>1, <2>1 DEF NotStolen
<1> DEFINE C == {g \in Fd : s.handlers[g] # 0}
           D == {g \in Fd : t.handlers[g] # 0}
<1>6. D = C \cup {f} /\ IsFiniteSet(C) /\ Cardinality(C) \in Nat
  BY <1>0, <1>1, FiniteFds
<1>7. /\ f \notin C => Cardinality(D) = Cardinality(C) + 1
      /\ f \in C => D = C
  <2> HIDE DEF C, D
  <2>1. Cardinality(C \cup {f}) = IF f \in C THEN Cardinality(C) ELSE Cardinality(C) + 1
    BY <1>6, FS_AddElement
  <2>2. f \in C => C \cup {f} = C
    OBVIOUS
  <2> QED BY <1>6, <2>1, <2>2
<1>8. HandlersInv(t)
  <2>1. Cardinality(C) <= s.amount
    BY DEF DataInv, HandlersInv
  <2>2. Cardinality(D) <= t.amount /\ t.amount <= t.made
    <3>1. Cardinality(D) \in {Cardinality(C), Cardinality(C) + 1}
      BY <1>7
    <3> HIDE DEF C, D
    <3> QED BY <1>0, <1>1, <1>6, <2>1, <3>1
  <2>3. \A g \in Fd : t.handlers[g] # 0 => t.handlers[g] \in t.alive
    BY <1>1, <1>3
  <2>4. \A k \in t.alive : k <= t.made
    <3>1. \A k \in s.alive : k <= h
      <4>1. \A k \in s.alive : k \in Nat
        BY BoundsAssumption DEF Server, Handler
      <4> QED BY <1>0, <1>2, <4>1
    <3> QED BY <1>0, <1>1, <3>1
  <2>5. ASSUME NEW g \in Fd, t.handlers[g] # 0, NEW k \in Fd, t.handlers[g] = t.handlers[k]
        PROVE  g = k
    <3>1. CASE g # f /\ k # f
      BY <1>1, <2>5, <3>1 DEF DataInv, HandlersInv
    <3>2. CASE g = f \/ k = f
      BY <1>1, <1>2, <1>3, <2>5, <3>2
    <3> QED BY <3>1, <3>2
  <2> QED BY <2>2, <2>3, <2>4, <2>5 DEF HandlersInv
<1>9. EntriesInv(t)
  BY <1>1 DEF DataInv, EntriesInv, isCgiRunning
<1>a. t.defined = s.defined /\ OnlyHandlerOf(s, t, f)
  BY <1>1 DEF OnlyHandlerOf
<1> HIDE DEF C, D, h
<1>10. CASE "stale" \in t.astray
  <2>1. OwnersInv(t)
    BY <1>10 DEF OwnersInv
  <2> QED BY <1>1, <1>4, <1>5, <1>8, <1>9, <1>a, <2>1 DEF t, Right, DataInv
<1>11. CASE "stale" \notin t.astray
  <2>1. /\ "stale" \notin s.astray /\ OwnersInv(s) /\ EntriesInv(s) /\ AreCounted(s)
        /\ \A g \in Fd : IsOwned(s, g)
        /\ \A k \in Handler : OwnsItsPipes(s, k)
    BY <1>1, <1>11 DEF DataInv, OwnersInv
  <2>2. s.handlers[f] = 0
    <3>1. IsOwned(s, f)
      BY <1>0, <2>1
    <3> QED BY <1>0, <3>1 DEF IsOwned, Closed
  <2>3. \A k \in Handler : s.cgi[k].out # f /\ s.cgi[k].in # f
    BY <1>0, <2>1, PipeIsOwn
  <2>4. ASSUME NEW g \in Fd
        PROVE  IsOwned(t, g)
    <3>1. CASE g = f
      BY <1>1, <3>1 DEF IsOwned
    <3>2. CASE g # f
      <4>1. IsOwned(s, g) /\ t.fds[g] = s.fds[g] /\ t.handlers[g] = s.handlers[g]
            /\ (g \in t.watched <=> g \in s.watched) /\ t.cgi = s.cgi
        BY <1>1, <2>1, <3>2
      <4> QED BY <4>1 DEF IsOwned
    <3> QED BY <3>1, <3>2
  <2>5. ASSUME NEW k \in Handler
        PROVE  OwnsItsPipes(t, k)
    <3>1. s.cgi[k].out \in Fd \cup {0} /\ s.cgi[k].in \in Fd \cup {0}
      BY DEF Server, CgiData
    <3>2. OwnsItsPipes(s, k)
      BY <2>1
    <3>3. \A g \in {s.cgi[k].out, s.cgi[k].in} \ {0} : t.fds[g] = s.fds[g]
      BY <1>1, <2>3, <3>1
    <3> QED BY <1>1, <3>2, <3>3 DEF OwnsItsPipes
  <2>6. AreCounted(t)
    <3>1. s.amount = Cardinality(C)
      BY <2>1 DEF AreCounted, C
    <3>2. t.amount = Cardinality(D)
      <4>1. f \notin C
        BY <2>2 DEF C
      <4> QED BY <1>1, <1>7, <3>1, <4>1
    <3>3. \A k \in t.alive : \E g \in Fd : t.handlers[g] = k
      <4>1. \A k \in s.alive : \E g \in Fd : s.handlers[g] = k /\ g # f
        BY <1>3, <2>1, <2>2 DEF AreCounted, Server, Handler
      <4> QED BY <1>0, <1>1, <4>1
    <3> QED BY <3>2, <3>3 DEF AreCounted, D
  <2>7. OwnersInv(t)
    BY <2>4, <2>5, <2>6 DEF OwnersInv
  <2> QED BY <1>1, <1>4, <1>5, <1>8, <1>9, <1>a, <2>7 DEF t, Right, DataInv
<1> QED BY <1>10, <1>11

\* The ways _delegateToConnectionHandler can go: nothing, an answer, an end, a script
\* that is added, whether the connection is closed behind it or not, and a script that
\* is not.
Handled(u, t, f, h) ==
  \/ t = u \/ t = CloseConnection(u, f)
  \/ \E v, F : /\ Started(u, v, h, F)
               /\ \/ t = Noted(v, {"unheard"})
                  \/ \E w : Added(v, w, h) /\ t \in {w, CloseConnection(w, f)}

Delegated(s, t, f) ==
  LET h == s.handlers[f] IN
  \/ t = s
  \/ \E u : /\ OnlyUnsent(s, u) /\ h \in Handler /\ ~isCgiRunning(s, h)
            /\ Handled(u, t, f, h)

LEMMA DelegateCases ==
  ASSUME NEW s \in Server, NEW f \in Fd, NEW outcome \in Outcomes
  PROVE  Delegated(s, Delegate(s, f, outcome), f)
<1> DEFINE h == s.handlers[f]
           unsent == IF outcome.to = "unsent" THEN s.unsent \cup {h} ELSE s.unsent \ {h}
           u == [s EXCEPT !.unsent = unsent]
           v == StartCgi(u, h, outcome.large)
           t == Delegate(s, f, outcome)
<1>1. CASE ~Handles(s, f)
  BY <1>1 DEF Delegate, Delegated
<1>2. CASE Handles(s, f)
  <2>1. h \in Handler /\ ~isCgiRunning(s, h)
    BY <1>2 DEF Handles, Server
  <2>2. OnlyUnsent(s, u)
    <3>1. unsent \in SUBSET Handler
      BY <2>1 DEF Server
    <3> HIDE DEF unsent
    <3> QED BY <3>1 DEF OnlyUnsent, Server, SameHandlers
  <2>3. t = IF outcome.to = "close" THEN CloseConnection(u, f)
            ELSE IF outcome.to = "cgi" THEN StartHeard(u, f, outcome)
            ELSE IF outcome.to = "again" /\ h \in s.unsent
              THEN StartUnheard(u, h, outcome.large)
            ELSE u
    BY <1>2 DEF Delegate, Server
  <2>4. u.handlers[f] = h /\ ~isCgiRunning(u, h) /\ outcome.large \in BOOLEAN
        /\ u \in Server
    BY <2>1, <2>2 DEF OnlyUnsent, SameHandlers, isCgiRunning, Outcomes
  <2> HIDE DEF u
  <2>5. v = u \/ \E F : Started(u, v, h, F)
    BY <2>1, <2>4, StartCgiEffect
  <2>6. StartHeard(u, f, outcome)
          = IF ~isCgiRunning(v, h) THEN v
            ELSE IF outcome.closeHeader THEN CloseConnection(AddCgi(v, h), f)
            ELSE AddCgi(v, h)
    BY <2>4 DEF StartHeard
  <2>7. StartUnheard(u, h, outcome.large)
          = IF isCgiRunning(v, h) THEN Noted(v, {"unheard"}) ELSE v
    <3> HIDE DEF h
    <3> QED BY DEF StartUnheard, Noted
  <2> HIDE DEF v, t, h
  <2>8. CASE v = u
    <3>1. t \in {u, CloseConnection(u, f)}
      BY <2>3, <2>4, <2>6, <2>7, <2>8
    <3> QED BY <2>1, <2>2, <3>1 DEF Delegated, Handled, h, t
  <2>9. ASSUME NEW F, Started(u, v, h, F)
        PROVE  Delegated(s, t, f)
    <3>1. v \in Server /\ isCgiRunning(v, h)
      BY <2>9 DEF Started, isCgiRunning
    <3>2. Added(v, AddCgi(v, h), h)
      BY <2>1, <3>1, AddCgiEffect
    <3>3. \/ t \in {u, CloseConnection(u, f)}
          \/ t = Noted(v, {"unheard"})
          \/ t \in {AddCgi(v, h), CloseConnection(AddCgi(v, h), f)}
      BY <2>3, <2>6, <2>7, <3>1
    <3> QED BY <2>1, <2>2, <2>9, <3>2, <3>3 DEF Delegated, Handled, h
  <2> QED BY <2>5, <2>8, <2>9 DEF t
<1> QED BY <1>1, <1>2

\* A script that is started is right, added or not.
LEMMA StartIsRight ==
  ASSUME NEW s \in Server, NEW u, NEW v, NEW h \in s.alive, NEW F, DataInv(s),
         ~isCgiRunning(s, h), OnlyUnsent(s, u), Started(u, v, h, F)
  PROVE  /\ Right(s, u) /\ Right(s, v) /\ v.defined = s.defined /\ v.handlers = s.handlers
         /\ isCgiRunning(v, h)
<1>1. Right(s, u) /\ u \in Server /\ SameHandlers(s, u) /\ ~isCgiRunning(u, h)
  BY UnsentIsRight DEF OnlyUnsent, isCgiRunning
<1>2. h \in u.alive /\ DataInv(u)
  BY <1>1 DEF SameHandlers, Right
<1>3. Right(u, v) /\ SameHandlers(u, v) /\ v \in Server /\ isCgiRunning(v, h)
  <2>1. Right(u, v)
    BY <1>1, <1>2, StartedIsRight
  <2> QED BY <2>1 DEF Started, isCgiRunning
<1>4. Right(s, v)
  BY <1>1, <1>3, RightIsTransitive DEF SameHandlers
<1> QED BY <1>1, <1>3, <1>4 DEF SameHandlers

LEMMA DelegateIsRight ==
  ASSUME NEW s \in Server, NEW f \in Fd, NEW outcome \in Outcomes, DataInv(s)
  PROVE  LET t == Delegate(s, f, outcome) IN Right(s, t) /\ t.defined = s.defined
<1> DEFINE h == s.handlers[f]
           t == Delegate(s, f, outcome)
<1>1. Delegated(s, t, f)
  BY DelegateCases
<1> SUFFICES Right(s, t) /\ t.defined = s.defined
  BY DEF t
<1> HIDE DEF t
<1>2. CASE t = s
  BY <1>2 DEF Right, NotStolen, Remembers
<1>3. ASSUME NEW u, OnlyUnsent(s, u), h \in Handler, ~isCgiRunning(s, h),
             Handled(u, t, f, h)
      PROVE  Right(s, t) /\ t.defined = s.defined
  <2>1. /\ Right(s, u) /\ u.defined = s.defined /\ u.handlers = s.handlers /\ u \in Server
        /\ DataInv(u)
    BY <1>3, UnsentIsRight DEF OnlyUnsent, SameHandlers, Right
  <2>2. ASSUME NEW w, Right(s, w), w.defined = s.defined, w.handlers = s.handlers,
               t = CloseConnection(w, f)
        PROVE  Right(s, t) /\ t.defined = s.defined
    <3>1. w \in Server /\ DataInv(w)
      BY <2>2 DEF Right
    <3>2. Right(w, t) /\ t.defined = w.defined
      BY <2>2, <3>1, CloseConnectionIsRight
    <3>3. Right(s, t)
      BY <2>2, <3>1, <3>2, RightIsTransitive
    <3> QED BY <2>2, <3>2, <3>3
  <2>3. CASE t = u \/ t = CloseConnection(u, f)
    BY <2>1, <2>2, <2>3
  <2>4. ASSUME NEW v, NEW F, Started(u, v, h, F),
               \/ t = Noted(v, {"unheard"})
               \/ \E w : Added(v, w, h) /\ t \in {w, CloseConnection(w, f)}
        PROVE  Right(s, t) /\ t.defined = s.defined
    <3>1. h \in s.alive
      <4>1. h # 0
        BY <1>3, BoundsAssumption DEF Handler
      <4> QED BY <4>1 DEF DataInv, HandlersInv
    <3>2. /\ Right(s, v) /\ v.defined = s.defined /\ v.handlers = s.handlers
          /\ isCgiRunning(v, h) /\ v \in Server /\ DataInv(v)
      <4> HIDE DEF h
      <4> QED BY <1>3, <2>4, <3>1, StartIsRight DEF Right
    <3>3. CASE t = Noted(v, {"unheard"})
      <4>1. Right(v, t) /\ t.defined = v.defined
        BY <3>2, <3>3, NotedIsRight
      <4> QED BY <3>2, <4>1, RightIsTransitive
    <3>4. ASSUME NEW w, Added(v, w, h), t \in {w, CloseConnection(w, f)}
          PROVE  Right(s, t) /\ t.defined = s.defined
      <4>1. Right(v, w)
        BY <1>3, <3>2, <3>4, AddedIsRight
      <4>2. w.defined = s.defined /\ w.handlers = s.handlers
        BY <3>2, <3>4 DEF Added, SameHandlers
      <4>3. Right(s, w)
        BY <3>2, <4>1, RightIsTransitive
      <4> QED BY <2>2, <3>4, <4>2, <4>3
    <3> QED BY <2>4, <3>3, <3>4
  <2> QED BY <1>3, <2>3, <2>4 DEF Handled
<1> HIDE DEF h
<1> QED BY <1>1, <1>2, <1>3 DEF Delegated, h

\* A connection is accepted and its first request handled.
LEMMA AcceptIsRight ==
  ASSUME NEW s \in Server, FreeFds(s) # {}, s.made < MaxConns, DataInv(s),
         NEW outcome \in Outcomes
  PROVE  LET f == Lowest(s, 1)
             t == Delegate(NewConnection(s, f), f, outcome) IN
         Right(s, t) /\ t.defined = s.defined
<1> DEFINE f == Lowest(s, 1)
           u == NewConnection(s, f)
           t == Delegate(u, f, outcome)
<1>1. f \in FreeFds(s)
  <2>1. /\ IsFiniteSet(FreeFds(s)) /\ Cardinality(FreeFds(s)) \in Nat
    BY FiniteFds DEF FreeFds
  <2>2. Cardinality(FreeFds(s)) # 0
    BY <2>1, FS_EmptySet
  <2>3. 1 \in 1..3 /\ 1 <= Cardinality(FreeFds(s))
    BY <2>1, <2>2
  <2> QED BY <2>3, LowestIsFree
<1> HIDE DEF f
<1>2. f \in Fd /\ s.fds[f] = Closed
  BY <1>1 DEF FreeFds
<1>3. Right(s, u) /\ u.defined = s.defined /\ OnlyHandlerOf(s, u, f)
  BY <1>1, NewConnectionIsRight
<1> HIDE DEF u
<1>4. Right(u, t) /\ t.defined = u.defined
  BY <1>2, <1>3, DelegateIsRight DEF Right
<1> HIDE DEF t
<1>5. \A g \in Fd : s.fds[g].kind = "conn" => u.handlers[g] = s.handlers[g]
  <2>1. \A g \in Fd : s.fds[g].kind = "conn" => g # f
    BY <1>2 DEF Closed
  <2> QED BY <1>3, <2>1 DEF OnlyHandlerOf
<1>6. Right(s, t)
  BY <1>3, <1>4, <1>5, RightIsTransitive DEF Right
<1> QED BY <1>3, <1>4, <1>6 DEF t, u, f

(***************************************************************************)
(* Steps of the loop.                                                      *)
(***************************************************************************)

Where == {"timer", "kill", "wait", "batch", "accept", "stopping", "stopped"}
Event == [fd : Fd \cup {0}, hup : BOOLEAN, was : Description]

\* What every step keeps.
Kept == IInv' /\ NotStolen(srv, srv')

LEMMA RightIsReflexive ==
  ASSUME NEW s \in Server, DataInv(s)
  PROVE  Right(s, s)
BY DEF Right, NotStolen, Remembers

LEMMA InvHasData ==
  ASSUME IInv
  PROVE  /\ srv \in Server /\ DataInv(srv) /\ toKill \in SUBSET (Fd \X Handler)
         /\ batch \in SUBSET Event /\ pc \in Where /\ KillInv /\ UndefinedHasACause
         /\ pc = "stopped" => \A f \in Fd : srv.handlers[f] = 0
BY DEF IInv, TypeOK, DataInv, Where, Event

\* The invariant after a step, from its parts.
LEMMA InvFromData ==
  ASSUME srv' \in Server, DataInv(srv'), toKill' \in SUBSET (Fd \X Handler),
         batch' \in SUBSET Event, pc' \in Where, KillInv', UndefinedHasACause',
         pc' = "stopped" => \A f \in Fd : srv'.handlers[f] = 0
  PROVE  IInv'
<1>1. TypeOK'
  BY DEF TypeOK, Where, Event
<1>2. HandlersInv(srv)' /\ EntriesInv(srv)' /\ OwnersInv(srv)'
  BY DEF DataInv
<1> QED BY <1>1, <1>2 DEF IInv

\* A step outside of the timer that is right keeps the invariant.
LEMMA RightStep ==
  ASSUME IInv, Right(srv, srv'), batch' \in SUBSET Event, toKill' = toKill,
         pc # "kill", pc' \in Where \ {"kill", "stopped"},
         \/ srv'.defined = srv.defined
         \/ srv'.astray \cap {"orphan", "twice"} # {}
  PROVE  Kept
<1>1. toKill = {} /\ toKill' = {}
  BY InvHasData DEF KillInv
<1>2. KillInv'
  BY <1>1 DEF KillInv
<1>3. UndefinedHasACause'
  BY InvHasData DEF UndefinedHasACause, Without, Right, Remembers
<1>4. IInv'
  BY <1>1, <1>2, <1>3, InvHasData, InvFromData DEF Right
<1> QED BY <1>4 DEF Kept, Right

\* A step that leaves the data alone.
LEMMA IdleStep ==
  ASSUME IInv, srv' = srv, batch' \in SUBSET Event, toKill' = toKill,
         pc # "kill" \/ toKill = {}, pc' \in Where \ {"kill"},
         pc' = "stopped" => \A f \in Fd : srv.handlers[f] = 0
  PROVE  Kept
<1>1. toKill = {}
  BY InvHasData DEF KillInv
<1>2. KillInv'
  BY <1>1 DEF KillInv
<1>3. UndefinedHasACause'
  BY InvHasData DEF UndefinedHasACause, Without
<1>4. NotStolen(srv, srv')
  BY DEF NotStolen
<1>5. IInv'
  BY <1>1, <1>2, <1>3, InvHasData, InvFromData
<1> QED BY <1>4, <1>5 DEF Kept

\* Every entry of _cgis leads to a handler that is alive and has its Cgi, unless
\* a handler was deleted under its Cgi.
LEMMA EntryLeadsToHandler ==
  ASSUME IInv, NEW f \in Fd, srv.cgis[f] # 0
  PROVE  /\ srv.cgis[f] \in Handler
         /\ "orphan" \notin srv.astray =>
              isCgiRunning(srv, srv.cgis[f]) /\ srv.cgis[f] \in srv.alive
<1>1. srv.cgis[f] \in Handler
  BY InvHasData DEF Server
<1>2. "orphan" \notin srv.astray => isCgiRunning(srv, srv.cgis[f])
  BY InvHasData DEF DataInv, EntriesInv
<1>3. isCgiRunning(srv, srv.cgis[f]) => srv.cgis[f] \in srv.alive
  BY <1>1, InvHasData DEF DataInv, EntriesInv
<1> QED BY <1>1, <1>2, <1>3

LEMMA CheckCgiTimeoutsStep ==
  ASSUME IInv, CheckCgiTimeouts
  PROVE  Kept
<1>1. pc = "timer" /\ srv.defined /\ batch' = batch
  BY DEF CheckCgiTimeouts
<1>2. CASE \E f \in Fd : srv.cgis[f] \notin srv.alive \cup {0}
  <2>1. srv' = Undefined(srv) /\ UNCHANGED <<pc, toKill>>
    BY <1>2 DEF CheckCgiTimeouts
  <2>2. Right(srv, srv') /\ srv'.astray = srv.astray
    BY <2>1, InvHasData, UndefinedIsRight DEF Undefined, Server
  <2>3. "orphan" \in srv.astray
    BY <1>2, EntryLeadsToHandler
  <2> QED BY <1>1, <2>1, <2>2, <2>3, InvHasData, RightStep DEF Where
<1>3. CASE ~\E f \in Fd : srv.cgis[f] \notin srv.alive \cup {0}
  <2> DEFINE A == IF \E a, b \in toKill' : a # b /\ a[2] = b[2] THEN {"twice"} ELSE {}
  <2>1. /\ toKill' = Overdue(srv) /\ pc' = "kill"
        /\ srv' = Noted(srv, A)
    BY <1>3, InvHasData DEF CheckCgiTimeouts, Noted, Server
  <2>2. A \in SUBSET {"twice", "unheard"} /\ srv \in Server /\ DataInv(srv)
    BY InvHasData
  <2>3. ~("twice" \in A) => \A a, b \in toKill' : a[2] = b[2] => a = b
    OBVIOUS
  <2> HIDE DEF A
  <2>4. /\ Right(srv, srv') /\ srv'.cgi = srv.cgi /\ srv'.defined = srv.defined
        /\ srv'.astray = srv.astray \cup A
    BY <2>1, <2>2, NotedIsRight
  <2>5. ASSUME NEW entry \in toKill'
        PROVE  /\ entry \in Fd \X Handler
               /\ "orphan" \notin srv.astray =>
                    isCgiRunning(srv, entry[2]) /\ srv.cgi[entry[2]].late
    <3>1. PICK f \in Fd : /\ srv.cgis[f] # 0 /\ srv.cgi[srv.cgis[f]].late
                          /\ entry = <<f, srv.cgis[f]>>
      BY <2>1 DEF Overdue
    <3> QED BY <3>1, EntryLeadsToHandler
  <2>6. KillInv'
    <3>1. \A entry \in toKill' : Without({"orphan", "twice"})' =>
            isCgiRunning(srv', entry[2]) /\ srv'.cgi[entry[2]].late
      BY <2>4, <2>5 DEF Without, isCgiRunning
    <3>2. Without({"orphan", "twice"})' => \A a, b \in toKill' : a[2] = b[2] => a = b
      BY <2>3, <2>4 DEF Without
    <3> QED BY <2>1, <3>1, <3>2 DEF KillInv
  <2>7. UndefinedHasACause'
    BY <1>1, <2>4 DEF UndefinedHasACause
  <2>8. IInv'
    BY <1>1, <2>1, <2>4, <2>5, <2>6, <2>7, InvHasData, InvFromData DEF Right, Where
  <2> QED BY <2>4, <2>8 DEF Kept, Right
<1> QED BY <1>2, <1>3

LEMMA KillOneStep ==
  ASSUME IInv, KillOne
  PROVE  Kept
<1>1. PICK entry \in toKill : /\ srv' = ProcessCgi(srv, entry[2], FALSE)
                              /\ toKill' = toKill \ {entry}
  BY DEF KillOne
<1>2. pc = "kill" /\ pc' = pc /\ batch' = batch /\ srv.defined
  BY DEF KillOne
<1> DEFINE h == entry[2]
<1>3. h \in Handler /\ srv \in Server /\ DataInv(srv)
  BY InvHasData
<1>a. PICK ends \in BOOLEAN : srv' = ProcessCgi(srv, h, ends)
  BY <1>1
<1> HIDE DEF h
<1>4. /\ Right(srv, srv')
      /\ srv'.astray \ {"ghost", "stale"} = srv.astray \ {"ghost", "stale"}
      /\ \A k \in Handler \ {h} : /\ srv'.cgi[k].out = srv.cgi[k].out
                                  /\ srv'.cgi[k].late = srv.cgi[k].late
      /\ h \in srv.alive /\ isCgiRunning(srv, h) => srv'.defined = srv.defined
  <2> DEFINE t == ProcessCgi(srv, h, ends)
  <2>1. /\ Right(srv, t)
        /\ t.astray \ {"ghost", "stale"} = srv.astray \ {"ghost", "stale"}
        /\ \A k \in Handler \ {h} : t.cgi[k].out = srv.cgi[k].out /\ t.cgi[k].late = srv.cgi[k].late
        /\ h \in srv.alive /\ isCgiRunning(srv, h) => t.defined = srv.defined
    BY <1>3, ProcessCgiEffect
  <2>2. srv' = t
    BY <1>a
  <2> HIDE DEF t
  <2> QED BY <2>1, <2>2
<1>5. Without({"orphan", "twice"})' => Without({"orphan", "twice"})
  BY <1>4 DEF Without
<1>6. UndefinedHasACause'
  <2>1. Without({"orphan", "twice"}) => isCgiRunning(srv, h)
    BY InvHasData DEF KillInv, h
  <2>2. isCgiRunning(srv, h) => h \in srv.alive
    BY <1>3 DEF DataInv, EntriesInv
  <2> QED BY <1>2, <1>4, <1>5, <2>1, <2>2 DEF UndefinedHasACause
<1>7. KillInv'
  <2> SUFFICES ASSUME Without({"orphan", "twice"})
               PROVE  /\ \A e \in toKill' : /\ isCgiRunning(srv', e[2])
                                            /\ srv'.cgi[e[2]].late
                      /\ \A a, b \in toKill' : a[2] = b[2] => a = b
    BY <1>2, <1>5 DEF KillInv
  <2>1. /\ \A e \in toKill : isCgiRunning(srv, e[2]) /\ srv.cgi[e[2]].late
        /\ \A a, b \in toKill : a[2] = b[2] => a = b
    BY InvHasData DEF KillInv
  <2>2. \A e \in toKill' : e \in toKill /\ e[2] # h /\ e[2] \in Handler
    BY <1>1, <2>1, InvHasData DEF h
  <2> QED BY <1>4, <2>1, <2>2 DEF isCgiRunning
<1>8. IInv'
  BY <1>1, <1>2, <1>4, <1>6, <1>7, InvHasData, InvFromData DEF Right
<1> QED BY <1>4, <1>8 DEF Kept, Right

LEMMA HandleConnectionEventStep ==
  ASSUME IInv, HandleConnectionEvent
  PROVE  Kept
<1>1. PICK ev \in batch :
        /\ ev.fd # 0
        /\ batch' = batch \ {ev}
        /\ IF srv.cgis[ev.fd] # 0
             THEN \E ends \in BOOLEAN : srv' = ProcessCgi(srv, srv.cgis[ev.fd], ends)
           ELSE IF ev.hup
             THEN srv' = CloseConnection(srv, ev.fd)
             ELSE \E outcome \in Outcomes : srv' = Delegate(srv, ev.fd, outcome)
  BY DEF HandleConnectionEvent
<1>2. pc = "batch" /\ pc' = pc /\ toKill' = toKill /\ srv.defined
  BY DEF HandleConnectionEvent
<1>3. srv \in Server /\ DataInv(srv) /\ batch \in SUBSET Event /\ UndefinedHasACause
  BY InvHasData
<1>4. ev.fd \in Fd /\ batch' \in SUBSET Event
  BY <1>1, <1>3 DEF Event
<1>5. CASE srv.cgis[ev.fd] # 0
  <2> DEFINE h == srv.cgis[ev.fd]
  <2>1. PICK ends \in BOOLEAN : srv' = ProcessCgi(srv, h, ends)
    BY <1>1, <1>5
  <2>2. /\ h \in Handler
        /\ "orphan" \notin srv.astray => isCgiRunning(srv, h) /\ h \in srv.alive
    BY <1>4, <1>5, EntryLeadsToHandler
  <2> HIDE DEF h
  <2>3. /\ Right(srv, srv')
        /\ h \in srv.alive /\ isCgiRunning(srv, h) => srv'.defined = srv.defined
    BY <1>3, <2>1, <2>2, ProcessCgiEffect
  <2>4. "orphan" \in srv.astray => "orphan" \in srv'.astray
    BY <2>3 DEF Right, Remembers
  <2> QED BY <1>2, <1>4, <2>2, <2>3, <2>4, RightStep DEF Where
<1>6. CASE srv.cgis[ev.fd] = 0 /\ ev.hup
  <2>1. srv' = CloseConnection(srv, ev.fd)
    BY <1>1, <1>6
  <2>2. Right(srv, srv') /\ srv'.defined = srv.defined
    BY <1>3, <1>4, <2>1, CloseConnectionIsRight
  <2> QED BY <1>2, <1>4, <2>2, RightStep DEF Where
<1>7. CASE srv.cgis[ev.fd] = 0 /\ ~ev.hup
  <2>1. PICK outcome \in Outcomes : srv' = Delegate(srv, ev.fd, outcome)
    BY <1>1, <1>7
  <2>2. Right(srv, srv') /\ srv'.defined = srv.defined
    BY <1>3, <1>4, <2>1, DelegateIsRight
  <2> QED BY <1>2, <1>4, <2>2, RightStep DEF Where
<1> QED BY <1>5, <1>6, <1>7

LEMMA AcceptOneStep ==
  ASSUME IInv, AcceptOne
  PROVE  Kept
<1>1. PICK outcome \in Outcomes :
        srv' = Delegate(NewConnection(srv, Lowest(srv, 1)), Lowest(srv, 1), outcome)
  BY DEF AcceptOne
<1>2. /\ pc = "accept" /\ pc' = pc /\ toKill' = toKill /\ batch' = batch
      /\ srv.made < MaxConns /\ FreeFds(srv) # {}
  BY DEF AcceptOne
<1>3. srv \in Server /\ DataInv(srv) /\ batch \in SUBSET Event
  BY InvHasData
<1>4. Right(srv, srv') /\ srv'.defined = srv.defined
  BY <1>1, <1>2, <1>3, AcceptIsRight
<1> QED BY <1>2, <1>3, <1>4, RightStep DEF Where

LEMMA CloseOneStep ==
  ASSUME IInv, CloseOne
  PROVE  Kept
<1>1. PICK f \in Fd : srv' = CloseConnection(srv, f)
  BY DEF CloseOne
<1>2. pc = "stopping" /\ pc' = pc /\ toKill' = toKill /\ batch' = batch
  BY DEF CloseOne
<1>3. srv \in Server /\ DataInv(srv) /\ batch \in SUBSET Event
  BY InvHasData
<1>4. Right(srv, srv') /\ srv'.defined = srv.defined
  BY <1>1, <1>3, CloseConnectionIsRight
<1> QED BY <1>2, <1>3, <1>4, RightStep DEF Where

LEMMA ExpireStep ==
  ASSUME IInv, Expire
  PROVE  Kept
<1>1. PICK h \in Handler : srv' = [srv EXCEPT !.cgi[h].late = TRUE]
  BY DEF Expire
<1>2. pc' = pc /\ toKill' = toKill /\ batch' = batch
  BY DEF Expire
<1>3. srv \in Server /\ DataInv(srv)
  BY InvHasData
<1> DEFINE c == [srv.cgi[h] EXCEPT !.late = TRUE]
           cgi == [srv.cgi EXCEPT ![h] = c]
<1>4. srv' = [srv EXCEPT !.cgi = cgi]
  BY <1>1, <1>3 DEF Server
<1>5. /\ c \in CgiData /\ c.late /\ c.out = srv.cgi[h].out /\ c.in = srv.cgi[h].in
      /\ c.inOpen = srv.cgi[h].inOpen /\ c.added = srv.cgi[h].added
  <2>1. srv.cgi[h] \in CgiData
    BY <1>3 DEF Server
  <2> QED BY <2>1 DEF CgiData
<1> HIDE DEF c
<1>6. cgi \in [Handler -> CgiData] /\ cgi[h] = c
      /\ \A k \in Handler \ {h} : cgi[k] = srv.cgi[k]
  BY <1>3, <1>5 DEF Server
<1> HIDE DEF cgi
<1>7. /\ srv' \in Server /\ srv'.cgi = cgi
      /\ srv'.fds = srv.fds /\ srv'.watched = srv.watched
      /\ srv'.handlers = srv.handlers /\ srv'.cgis = srv.cgis /\ srv'.alive = srv.alive
      /\ srv'.amount = srv.amount /\ srv'.made = srv.made
      /\ srv'.defined = srv.defined /\ srv'.astray = srv.astray
  BY <1>3, <1>4, <1>6 DEF Server
<1>8. \A k \in Handler :
        /\ srv'.cgi[k].out = srv.cgi[k].out /\ srv'.cgi[k].in = srv.cgi[k].in
        /\ srv'.cgi[k].inOpen = srv.cgi[k].inOpen
        /\ srv'.cgi[k].added = srv.cgi[k].added
        /\ srv.cgi[k].late => srv'.cgi[k].late
        /\ isCgiRunning(srv', k) <=> isCgiRunning(srv, k)
  BY <1>5, <1>6, <1>7 DEF isCgiRunning
<1>9. HandlersInv(srv')
  BY <1>3, <1>7 DEF DataInv, HandlersInv
<1>10. EntriesInv(srv')
  <2>1. ASSUME NEW k \in Handler
        PROVE  IF isCgiRunning(srv', k) THEN k \in srv'.alive ELSE srv'.cgi[k].in = 0
    BY <1>3, <1>7, <1>8 DEF DataInv, EntriesInv
  <2>2. ASSUME "orphan" \notin srv.astray, NEW f \in Fd, srv.cgis[f] # 0
        PROVE  IsEntry(srv', f, srv.cgis[f])
    <3>1. srv.cgis[f] \in Handler
      BY <1>3, <2>2 DEF Server
    <3>2. IsEntry(srv, f, srv.cgis[f])
      BY <1>3, <2>2 DEF DataInv, EntriesInv, IsEntry
    <3> QED BY <1>8, <3>1, <3>2 DEF IsEntry
  <2> QED BY <1>7, <2>1, <2>2 DEF EntriesInv, IsEntry
<1>11. OwnersInv(srv')
  <2>1. ASSUME NEW f \in Fd, IsOwned(srv, f)
        PROVE  IsOwned(srv', f)
    <3>1. \A k \in Handler : srv'.cgi[k].out = srv.cgi[k].out /\ srv'.cgi[k].in = srv.cgi[k].in
      BY <1>8
    <3> QED BY <1>7, <2>1, <3>1 DEF IsOwned
  <2>2. ASSUME NEW k \in Handler, OwnsItsPipes(srv, k)
        PROVE  OwnsItsPipes(srv', k)
    BY <1>7, <1>8, <2>2 DEF OwnsItsPipes
  <2>3. AreCounted(srv) => AreCounted(srv')
    BY <1>7 DEF AreCounted
  <2> QED BY <1>3, <1>7, <2>1, <2>2, <2>3 DEF DataInv, OwnersInv
<1>12. KillInv'
  <2>1. KillInv /\ \A e \in toKill : e[2] \in Handler
    BY InvHasData
  <2> QED BY <1>2, <1>7, <1>8, <2>1 DEF KillInv, Without
<1>13. UndefinedHasACause'
  BY <1>7, InvHasData DEF UndefinedHasACause, Without
<1>14. IInv'
  BY <1>2, <1>7, <1>9, <1>10, <1>11, <1>12, <1>13, InvHasData, InvFromData DEF DataInv
<1> QED BY <1>7, <1>14 DEF Kept, NotStolen

\* The steps of start() that touch no data.
LEMMA IdleSteps ==
  ASSUME IInv,
         \/ SkipTimer \/ KillDone \/ EpollWait \/ StartAccepting \/ AcceptFails
         \/ AcceptDone \/ BatchDone \/ Stopped
  PROVE  Kept
<1>1. srv \in Server /\ batch \in SUBSET Event
  BY InvHasData
<1>2. CASE SkipTimer \/ KillDone \/ AcceptDone \/ BatchDone \/ Stopped
  <2>1. /\ srv' = srv /\ batch' = batch /\ toKill' = toKill
        /\ pc # "kill" \/ toKill = {}
        /\ pc' \in Where \ {"kill"}
        /\ pc' = "stopped" => \A f \in Fd : srv.handlers[f] = 0
    BY <1>2 DEF SkipTimer, KillDone, AcceptDone, BatchDone, Stopped, Where
  <2>2. batch' \in SUBSET Event
    BY <1>1, <2>1
  <2> QED BY <2>1, <2>2, IdleStep
<1>3. CASE EpollWait
  <2>1. Ready(srv) \subseteq Event
    <3>1. Closed \in Description /\ Ghost \in Description
      BY DEF Closed, Ghost, Description
    <3>2. /\ \A f \in srv.watched : f \in Fd /\ srv.fds[f] \in Description
          /\ \A p \in srv.ghosts : p[1] \in Fd
      BY <1>1 DEF Server
    <3>3. ASSUME NEW fd \in Fd \cup {0}, NEW hup \in BOOLEAN, NEW was \in Description
          PROVE  [fd |-> fd, hup |-> hup, was |-> was] \in Event
      BY DEF Event
    <3>4. ASSUME NEW ev \in Ready(srv)
          PROVE  \E fd \in Fd \cup {0}, hup \in BOOLEAN, was \in Description :
                   ev = [fd |-> fd, hup |-> hup, was |-> was]
      <4>1. \/ ev = [fd |-> 0, hup |-> FALSE, was |-> Closed]
            \/ \E f \in srv.watched, h \in BOOLEAN :
                 ev = [fd |-> f, hup |-> h, was |-> srv.fds[f]]
            \/ \E p \in srv.ghosts, h \in BOOLEAN :
                 ev = [fd |-> p[1], hup |-> h, was |-> Ghost]
        BY DEF Ready
      <4>2. CASE ev = [fd |-> 0, hup |-> FALSE, was |-> Closed]
        <5>1. 0 \in Fd \cup {0} /\ FALSE \in BOOLEAN
          OBVIOUS
        <5> QED BY <3>1, <4>2, <5>1
      <4>3. ASSUME NEW f \in srv.watched, NEW h \in BOOLEAN,
                   ev = [fd |-> f, hup |-> h, was |-> srv.fds[f]]
            PROVE  \E fd \in Fd \cup {0}, hup \in BOOLEAN, was \in Description :
                     ev = [fd |-> fd, hup |-> hup, was |-> was]
        <5>1. f \in Fd \cup {0} /\ srv.fds[f] \in Description
          BY <3>2
        <5> QED BY <4>3, <5>1
      <4>4. ASSUME NEW p \in srv.ghosts, NEW h \in BOOLEAN,
                   ev = [fd |-> p[1], hup |-> h, was |-> Ghost]
            PROVE  \E fd \in Fd \cup {0}, hup \in BOOLEAN, was \in Description :
                     ev = [fd |-> fd, hup |-> hup, was |-> was]
        <5>1. p[1] \in Fd \cup {0}
          BY <3>2
        <5> QED BY <3>1, <4>4, <5>1
      <4> QED BY <4>1, <4>2, <4>3, <4>4
    <3> QED BY <3>3, <3>4
  <2>2. /\ srv' = srv /\ toKill' = toKill /\ pc = "wait" /\ pc' = "batch"
        /\ batch' \subseteq Ready(srv)
    BY <1>3 DEF EpollWait
  <2> QED BY <2>1, <2>2, IdleStep DEF Where
<1>4. CASE StartAccepting
  <2>1. /\ srv' = srv /\ toKill' = toKill /\ pc = "batch" /\ pc' = "accept"
        /\ batch' \subseteq batch
    BY <1>4 DEF StartAccepting
  <2> QED BY <1>1, <2>1, IdleStep DEF Where
<1>5. CASE AcceptFails
  <2>1. /\ srv' = srv /\ toKill' = toKill /\ pc = "accept" /\ pc' = "stopping"
        /\ batch' = {}
    BY <1>5 DEF AcceptFails
  <2> QED BY <2>1, IdleStep DEF Where
<1> QED BY <1>2, <1>3, <1>4, <1>5

LEMMA StutterStep ==
  ASSUME IInv, UNCHANGED vars
  PROVE  Kept
<1>1. /\ srv' = srv /\ pc' = pc /\ toKill' = toKill /\ batch' = batch
  BY DEF vars
<1>2. KillInv' /\ UndefinedHasACause'
  BY <1>1, InvHasData DEF KillInv, UndefinedHasACause, Without
<1>3. IInv'
  BY <1>1, <1>2, InvHasData, InvFromData
<1> QED BY <1>1, <1>3 DEF Kept, NotStolen

LEMMA EveryStep ==
  ASSUME IInv, [Next]_vars
  PROVE  Kept
BY CheckCgiTimeoutsStep, KillOneStep, HandleConnectionEventStep, AcceptOneStep,
   CloseOneStep, ExpireStep, IdleSteps, StutterStep
   DEF Next, Loop

(***************************************************************************)
(* Theorems.                                                               *)
(***************************************************************************)

LEMMA InitInv == Init => IInv
<1> SUFFICES ASSUME Init
             PROVE  IInv
  OBVIOUS
<1>1. /\ srv.fds = [f \in Fd |-> Closed] /\ srv.watched = {} /\ srv.ghosts = {}
      /\ srv.handlers = [f \in Fd |-> 0] /\ srv.cgis = [f \in Fd |-> 0]
      /\ srv.alive = {} /\ srv.unsent = {} /\ srv.cgi = [h \in Handler |-> NoCgi] /\ srv.amount = 0
      /\ srv.made = 0 /\ srv.defined = TRUE /\ srv.astray = {}
      /\ pc = "timer" /\ toKill = {} /\ batch = {}
  BY DEF Init
<1>2. TypeOK
  <2>1. Closed \in Description /\ NoCgi \in CgiData
    BY DEF Closed, Description, NoCgi, CgiData
  <2>2. srv.fds \in [Fd -> Description] /\ srv.cgi \in [Handler -> CgiData]
    BY <1>1, <2>1
  <2>3. 0 \in 0..MaxConns
    BY BoundsAssumption
  <2>4. srv \in Server
    BY <1>1, <2>2, <2>3 DEF Init, Server
  <2> QED BY <1>1, <2>4 DEF TypeOK
<1>3. {f \in Fd : srv.handlers[f] # 0} = {}
  BY <1>1
<1>4. Cardinality({}) = 0
  BY FS_EmptySet
<1>5. HandlersInv(srv)
  BY <1>1, <1>3, <1>4 DEF HandlersInv
<1>6. EntriesInv(srv)
  BY <1>1 DEF EntriesInv, isCgiRunning, NoCgi
<1>7. OwnersInv(srv)
  <2>1. \A f \in Fd : IsOwned(srv, f)
    BY <1>1 DEF IsOwned
  <2>2. \A h \in Handler : OwnsItsPipes(srv, h)
    BY <1>1 DEF OwnsItsPipes, NoCgi
  <2>3. AreCounted(srv)
    BY <1>1, <1>3, <1>4 DEF AreCounted
  <2> QED BY <2>1, <2>2, <2>3 DEF OwnersInv
<1>8. KillInv /\ UndefinedHasACause
  BY <1>1 DEF KillInv, UndefinedHasACause
<1> QED BY <1>1, <1>2, <1>5, <1>6, <1>7, <1>8 DEF IInv

\* The invariant holds always: both maps, the descriptors and the handlers agree
\* for every number of descriptors, connections and events.
THEOREM InvHolds == Spec => []IInv
<1>1. IInv /\ [Next]_vars => IInv'
  BY EveryStep DEF Kept
<1> QED BY <1>1, InitInv, PTL DEF Spec

\* The server's data, where start() is and its lists have their types.
THEOREM TypeCorrect == Spec => []TypeOK
<1>1. IInv => TypeOK
  BY DEF IInv
<1> QED BY <1>1, InvHolds, PTL

\* Undefined behaviour needs a handler that was deleted while its Cgi was in
\* _cgis, or a Cgi that was twice in toKill.
THEOREM UndefinedNeedsACause == Spec => []UndefinedHasACause
<1>1. IInv => UndefinedHasACause
  BY DEF IInv
<1> QED BY <1>1, InvHolds, PTL

\* No step closes a client's socket and leaves its handler in
\* _connectionHandlers, unless a Cgi kept an entry for a pipe it had closed.
THEOREM NoSocketIsStolen == Spec => SocketsAreNotStolen
<1>1. IInv /\ [Next]_vars => NotStolen(srv, srv')
  BY EveryStep DEF Kept
<1>2. NotStolen(srv, srv') =>
        \A f \in Fd :
          srv.fds[f].kind = "conn" /\ srv'.fds[f] # srv.fds[f]
            => srv'.handlers[f] # srv.handlers[f] \/ "stale" \in srv'.astray
  BY DEF NotStolen
<1>3. IInv /\ [Next]_vars =>
        [\A f \in Fd :
           srv.fds[f].kind = "conn" /\ srv'.fds[f] # srv.fds[f]
             => srv'.handlers[f] # srv.handlers[f] \/ "stale" \in srv'.astray]_vars
  BY <1>1, <1>2
<1> QED BY <1>3, InvHolds, PTL DEF Spec, SocketsAreNotStolen

\* The invariant accounts for the connections.
LEMMA InvCountsConnections ==
  ASSUME IInv
  PROVE  ConnectionsAreAccountedFor
<1> SUFFICES ASSUME "stale" \notin srv.astray
             PROVE  LET C == {f \in Fd : srv.fds[f].kind = "conn"} IN
                    /\ srv.amount = Cardinality(C)
                    /\ srv.alive = {srv.handlers[f] : f \in C}
                    /\ \A f \in C : /\ srv.handlers[f] = srv.fds[f].owner
                                    /\ f \in srv.watched
                    /\ \A f \in Fd \ C : srv.handlers[f] = 0
  BY DEF ConnectionsAreAccountedFor, Without
<1> DEFINE C == {f \in Fd : srv.fds[f].kind = "conn"}
<1>1. srv \in Server /\ DataInv(srv) /\ 0 \notin srv.alive
  <2>1. srv \in Server /\ DataInv(srv)
    BY InvHasData
  <2> QED BY <2>1, BoundsAssumption DEF Server, Handler
<1>2. AreCounted(srv) /\ \A f \in Fd : IsOwned(srv, f)
  BY <1>1 DEF DataInv, OwnersInv
<1>3. ASSUME NEW f \in Fd
      PROVE  /\ srv.handlers[f] # 0 <=> srv.fds[f].kind = "conn"
             /\ srv.handlers[f] # 0 => srv.handlers[f] = srv.fds[f].owner /\ f \in srv.watched
  <2>1. IsOwned(srv, f)
    BY <1>2
  <2>2. CASE srv.handlers[f] # 0
    BY <2>1, <2>2 DEF IsOwned
  <2>3. CASE srv.handlers[f] = 0
    <3>1. srv.fds[f].kind \in {"closed", "cgiOut", "cgiIn"}
      <4>1. \/ srv.fds[f] = Closed
            \/ \E h \in Handler : srv.fds[f] \in {[kind |-> "cgiOut", owner |-> h],
                                                  [kind |-> "cgiIn", owner |-> h]}
        BY <2>1, <2>3 DEF IsOwned
      <4> QED BY <4>1 DEF Closed
    <3> QED BY <2>3, <3>1
  <2> QED BY <2>2, <2>3
<1>4. C = {f \in Fd : srv.handlers[f] # 0}
  BY <1>3
<1>5. \A h : h \in srv.alive <=> h \in {srv.handlers[f] : f \in C}
  <2>1. \A f \in C : srv.handlers[f] \in srv.alive
    BY <1>1, <1>3 DEF DataInv, HandlersInv
  <2>2. \A h \in srv.alive : \E f \in C : srv.handlers[f] = h
    BY <1>1, <1>2, <1>3 DEF AreCounted
  <2> QED BY <2>1, <2>2
<1>6. srv.alive = {srv.handlers[f] : f \in C}
  BY ONLY <1>5
<1>7. srv.amount = Cardinality(C)
  BY <1>2, <1>4 DEF AreCounted
<1> QED BY <1>3, <1>6, <1>7

\* The invariant says which entries _cgis has.
LEMMA InvKnowsTheCgis ==
  ASSUME IInv
  PROVE  CgisAreRunning
<1> SUFFICES ASSUME "orphan" \notin srv.astray, "stale" \notin srv.astray,
                    NEW f \in Fd, NEW h \in Handler
             PROVE  srv.cgis[f] = h <=>
                      /\ isCgiRunning(srv, h) /\ f \in {srv.cgi[h].out, srv.cgi[h].in}
                      /\ srv.cgi[h].added
  BY DEF CgisAreRunning, Without
<1>1. DataInv(srv) /\ f # 0 /\ h # 0
  BY InvHasData, BoundsAssumption DEF Fd, Handler
<1>2. srv.cgis[f] = h => /\ isCgiRunning(srv, h) /\ f \in {srv.cgi[h].out, srv.cgi[h].in}
                         /\ srv.cgi[h].added
  BY <1>1 DEF DataInv, EntriesInv
<1>3. srv.cgi[h].added /\ f \in {srv.cgi[h].out, srv.cgi[h].in} => srv.cgis[f] = h
  <2>1. OwnsItsPipes(srv, h)
    BY <1>1 DEF DataInv, OwnersInv
  <2> QED BY <1>1, <2>1 DEF OwnsItsPipes
<1> QED BY <1>2, <1>3

\* Nothing is open after ~HTTPServer, unless a Cgi kept an entry for a pipe it had
\* closed.
THEOREM StopIsClean == Spec => []StopReleasesDescriptors
<1>1. ASSUME IInv, pc = "stopped", "stale" \notin srv.astray
      PROVE  srv.amount = 0 /\ FreeFds(srv) = Fd
  <2>1. srv \in Server /\ DataInv(srv) /\ \A f \in Fd : srv.handlers[f] = 0
    BY <1>1, InvHasData
  <2>2. AreCounted(srv) /\ \A f \in Fd : IsOwned(srv, f)
    BY <1>1, <2>1 DEF DataInv, OwnersInv
  <2>3. \A h \in srv.alive : FALSE
    BY <2>1, <2>2, BoundsAssumption DEF AreCounted, Server, Handler
  <2>4. \A h \in Handler : srv.cgi[h].out = 0 /\ srv.cgi[h].in = 0
    BY <2>1, <2>3 DEF DataInv, EntriesInv, isCgiRunning
  <2>5. ASSUME NEW f \in Fd
        PROVE  srv.fds[f] = Closed
    <3>1. f # 0 /\ IsOwned(srv, f)
      BY <2>2, BoundsAssumption DEF Fd
    <3> QED BY <2>1, <2>4, <3>1 DEF IsOwned
  <2>6. {f \in Fd : srv.handlers[f] # 0} = {}
    BY <2>1
  <2>7. srv.amount = 0
    BY <2>2, <2>6, FS_EmptySet DEF AreCounted
  <2> QED BY <2>5, <2>7 DEF FreeFds
<1>2. IInv => StopReleasesDescriptors
  BY <1>1 DEF StopReleasesDescriptors, Without
<1> QED BY <1>2, InvHolds, PTL

----------------------------------------------------------------------------
(* The events of a batch (HTTPServer::start): no handler gives a number    *)
(* that is still in the batch to something else, but for the accidents on  *)
(* record.  There is one lemma for each member function on what it has on  *)
(* record, one on the descriptors it leaves alone, and one for each step   *)
(* of the loop.                                                            *)

(***************************************************************************)
(* Member functions: what they put on record.                              *)
(***************************************************************************)

\* What t has is on record, and what s has on record still is.
Recorded(s, t) == RecordInv(t) /\ s.astray \subseteq t.astray

LEMMA CloseIsRecorded ==
  ASSUME NEW s \in Server, NEW F, RecordInv(s)
  PROVE  Recorded(s, Close(s, F))
<1> DEFINE t == Close(s, F)
<1>1. /\ t \in Server /\ Closes(s, t, F) /\ t.astray = s.astray /\ t.ghosts = s.ghosts
      /\ \A h \in Handler : SameCgi(s, t, h)
  BY CloseEffect
<1>2. t.watched = s.watched \ F
  BY DEF Close, Server
<1> HIDE DEF t
<1>3. \A f \in t.watched : t.fds[f] # Closed
  BY <1>1, <1>2 DEF Closes, RecordInv, Server
<1> QED BY <1>1, <1>3 DEF t, Recorded, RecordInv, SameCgi, isCgiRunning

LEMMA CloseQuietlyIsRecorded ==
  ASSUME NEW s \in Server, NEW F, RecordInv(s)
  PROVE  Recorded(s, CloseQuietly(s, F))
<1> DEFINE t == Close(s, F)
           kept == {p \in F \X Handler : p[1] \in s.watched \cap s.cgi[p[2]].copies}
           ghosts == t.ghosts \cup kept
           astray == t.astray \cup (IF kept = {} THEN {} ELSE {"ghost"})
           u == CloseQuietly(s, F)
<1>1. u = [t EXCEPT !.ghosts = ghosts, !.astray = astray]
  BY CloseEffect DEF CloseQuietly, Server
<1>2. t \in Server /\ Recorded(s, t)
  BY CloseEffect, CloseIsRecorded
<1>3. ghosts # {} => "ghost" \in astray
  BY <1>2 DEF Recorded, RecordInv
<1>4. t.astray \subseteq astray
  OBVIOUS
<1> HIDE DEF t, ghosts, astray, u
<1>5. /\ u.fds = t.fds /\ u.watched = t.watched /\ u.cgi = t.cgi
      /\ u.ghosts = ghosts /\ u.astray = astray
  BY <1>1, <1>2 DEF Server
<1> QED BY <1>2, <1>3, <1>4, <1>5 DEF u, Recorded, RecordInv, isCgiRunning

\* Nothing new to be put on record.
LEMMA LessIsRecorded ==
  ASSUME NEW s, NEW t, NEW u, Recorded(s, t),
         u.watched \subseteq t.watched, u.fds = t.fds, t.astray \subseteq u.astray,
         u.ghosts \subseteq t.ghosts,
         \A h \in Handler :
           \/ u.cgi[h].out = 0
           \/ /\ u.cgi[h].out = t.cgi[h].out /\ u.cgi[h].in = t.cgi[h].in
              /\ u.cgi[h].added = t.cgi[h].added
  PROVE  Recorded(s, u)
<1>1. ASSUME NEW h \in Handler, isCgiRunning(u, h)
      PROVE  /\ u.cgi[h].added /\ u.cgi[h].in # 0 => "twin" \in u.astray
             /\ ~u.cgi[h].added => "unheard" \in u.astray
  <2>1. /\ u.cgi[h].in = t.cgi[h].in /\ u.cgi[h].added = t.cgi[h].added
        /\ isCgiRunning(t, h)
    BY <1>1 DEF isCgiRunning
  <2> QED BY <2>1 DEF Recorded, RecordInv
<1>2. \A f \in u.watched : u.fds[f] # Closed
  BY DEF Recorded, RecordInv
<1>3. (u.ghosts # {} => "ghost" \in u.astray) /\ s.astray \subseteq u.astray
  BY DEF Recorded, RecordInv
<1> QED BY <1>1, <1>2, <1>3 DEF Recorded, RecordInv

LEMMA DeleteCgiIsRecorded ==
  ASSUME NEW s \in Server, NEW h \in Handler, RecordInv(s)
  PROVE  Recorded(s, DeleteCgi(s, h))
<1> DEFINE t == CloseQuietly(s, Ends(s.cgi[h]))
           u == DeleteCgi(s, h)
           cgi == [t.cgi EXCEPT ![h] = NoCgi]
           ghosts == {p \in t.ghosts : p[2] # h}
<1>1. t \in Server /\ Recorded(s, t)
  BY CloseQuietlyEffect, CloseQuietlyIsRecorded
<1>2. u = [t EXCEPT !.cgi = cgi, !.ghosts = ghosts]
  BY <1>1 DEF DeleteCgi, Ends, Server
<1> HIDE DEF t, u
<1>3. \A k \in Handler :
        \/ cgi[k].out = 0
        \/ /\ cgi[k].out = t.cgi[k].out /\ cgi[k].in = t.cgi[k].in
           /\ cgi[k].added = t.cgi[k].added
  BY <1>1 DEF Server, NoCgi
<1>4. ghosts \subseteq t.ghosts
  OBVIOUS
<1> HIDE DEF cgi, ghosts
<1>5. /\ u.fds = t.fds /\ u.watched = t.watched /\ u.cgi = cgi
      /\ u.ghosts = ghosts /\ u.astray = t.astray
  BY <1>1, <1>2 DEF Server
<1>6. Recorded(s, u)
  BY <1>1, <1>3, <1>4, <1>5, LessIsRecorded
<1> QED BY <1>6 DEF u

LEMMA RecordedIsTransitive ==
  ASSUME NEW s, NEW t, NEW u, Recorded(s, t), Recorded(t, u)
  PROVE  Recorded(s, u)
BY DEF Recorded

LEMMA CloseCgiEntryIsRecorded ==
  ASSUME NEW s \in Server, NEW f \in Fd, RecordInv(s)
  PROVE  Recorded(s, CloseCgiEntry(s, f))
<1> DEFINE u == CloseCgiEntry(s, f)
<1>1. CASE s.cgis[f] = 0
  <2>1. u = [s EXCEPT !.watched = s.watched \ {f}]
    BY <1>1 DEF CloseCgiEntry, Server
  <2>2. Recorded(s, s)
    BY DEF Recorded
  <2> HIDE DEF u
  <2>3. /\ u.fds = s.fds /\ u.watched \subseteq s.watched /\ u.cgi = s.cgi
        /\ u.ghosts = s.ghosts /\ u.astray = s.astray
    BY <2>1 DEF Server
  <2>4. Recorded(s, u)
    BY <2>2, <2>3, LessIsRecorded
  <2> QED BY <2>4 DEF u
<1>2. CASE s.cgis[f] # 0
  <2> DEFINE t == Close(s, {f})
             cgis == [t.cgis EXCEPT ![f] = 0]
  <2>1. t \in Server /\ Recorded(s, t)
    BY CloseEffect, CloseIsRecorded
  <2>2. u = [t EXCEPT !.cgis = cgis]
    BY <1>2, <2>1 DEF CloseCgiEntry, Server
  <2> HIDE DEF t, u, cgis
  <2>3. /\ u.fds = t.fds /\ u.watched = t.watched /\ u.cgi = t.cgi
        /\ u.ghosts = t.ghosts /\ u.astray = t.astray
    BY <2>1, <2>2 DEF Server
  <2>4. Recorded(s, u)
    BY <2>1, <2>3, LessIsRecorded
  <2> QED BY <2>4 DEF u
<1> QED BY <1>1, <1>2

LEMMA EndCgiIsRecorded ==
  ASSUME NEW s \in Server, NEW h \in Handler, isCgiRunning(s, h), RecordInv(s)
  PROVE  Recorded(s, EndCgi(s, h)) /\ EndCgi(s, h) \in Server
<1> DEFINE c == s.cgi[h]
           t == CloseCgiEntry(s, c.out)
           u == IF c.in # 0 THEN CloseCgiEntry(t, c.in) ELSE t
<1>1. c.out \in Fd /\ c.in \in Fd \cup {0}
  BY BoundsAssumption DEF Server, CgiData, isCgiRunning, Fd
<1>2. t \in Server /\ Recorded(s, t)
  BY <1>1, CloseCgiEntryEffect, CloseCgiEntryIsRecorded
<1>3. EndCgi(s, h) = DeleteCgi(u, h)
  BY DEF EndCgi
<1> HIDE DEF t, c
<1>4. u \in Server /\ Recorded(t, u)
  <2>1. RecordInv(t)
    BY <1>2 DEF Recorded
  <2>2. CASE c.in # 0
    <3>1. CloseCgiEntry(t, c.in) \in Server /\ Recorded(t, CloseCgiEntry(t, c.in))
      BY <1>1, <1>2, <2>1, <2>2, CloseCgiEntryEffect, CloseCgiEntryIsRecorded
    <3> QED BY <2>2, <3>1
  <2>3. CASE c.in = 0
    BY <1>2, <2>1, <2>3 DEF Recorded
  <2> QED BY <2>2, <2>3
<1> HIDE DEF u
<1>5. DeleteCgi(u, h) \in Server /\ Recorded(u, DeleteCgi(u, h))
  BY <1>4, DeleteCgiEffect, DeleteCgiIsRecorded DEF Recorded
<1> QED BY <1>2, <1>3, <1>4, <1>5, RecordedIsTransitive

LEMMA WriteDoneIsRecorded ==
  ASSUME NEW s \in Server, NEW h \in Handler, RecordInv(s)
  PROVE  Recorded(s, [CloseQuietly(s, {s.cgi[h].in}) EXCEPT
                        !.cgi[h].inOpen = FALSE, !.astray = @ \cup {"stale"}])
<1> DEFINE t == CloseQuietly(s, {s.cgi[h].in})
           u == [t EXCEPT !.cgi[h].inOpen = FALSE, !.astray = @ \cup {"stale"}]
           cgi == [t.cgi EXCEPT ![h] = [t.cgi[h] EXCEPT !.inOpen = FALSE]]
<1>1. t \in Server /\ Recorded(s, t)
  BY CloseQuietlyEffect, CloseQuietlyIsRecorded
<1> HIDE DEF t
<1>2. u = [t EXCEPT !.cgi = cgi, !.astray = t.astray \cup {"stale"}]
  BY <1>1 DEF Server
<1>3. \A k \in Handler : /\ cgi[k].out = t.cgi[k].out /\ cgi[k].in = t.cgi[k].in
                         /\ cgi[k].added = t.cgi[k].added
  <2> DEFINE c == [t.cgi[h] EXCEPT !.inOpen = FALSE]
  <2>1. t.cgi \in [Handler -> CgiData]
    BY <1>1 DEF Server
  <2>2. c.out = t.cgi[h].out /\ c.in = t.cgi[h].in /\ c.added = t.cgi[h].added
    BY <2>1 DEF CgiData
  <2> HIDE DEF c
  <2>3. cgi = [t.cgi EXCEPT ![h] = c]
    BY DEF c
  <2> QED BY <2>1, <2>2, <2>3
<1> HIDE DEF u, cgi
<1>4. /\ u.fds = t.fds /\ u.watched = t.watched /\ u.cgi = cgi
      /\ u.ghosts = t.ghosts /\ u.astray = t.astray \cup {"stale"}
  BY <1>1, <1>2 DEF Server
<1>5. Recorded(s, u)
  BY <1>1, <1>3, <1>4, LessIsRecorded
<1> QED BY <1>5 DEF u, t

LEMMA UndefinedIsRecorded ==
  ASSUME NEW s \in Server, RecordInv(s)
  PROVE  Recorded(s, Undefined(s))
BY DEF Recorded, RecordInv, Undefined, Server, isCgiRunning

LEMMA ProcessCgiIsRecorded ==
  ASSUME NEW s \in Server, NEW h \in Handler, NEW ends \in BOOLEAN, RecordInv(s)
  PROVE  Recorded(s, ProcessCgi(s, h, ends))
<1> DEFINE c == s.cgi[h]
           writeDone == [CloseQuietly(s, {c.in}) EXCEPT !.cgi[h].inOpen = FALSE,
                                                        !.astray = @ \cup {"stale"}]
           t == ProcessCgi(s, h, ends)
<1>0. Recorded(s, s)
  BY DEF Recorded
<1>1. CASE h \notin s.alive \/ ~isCgiRunning(s, h)
  <2>1. t = Undefined(s)
    BY <1>1 DEF ProcessCgi
  <2> QED BY <2>1, UndefinedIsRecorded
<1>2. CASE h \in s.alive /\ isCgiRunning(s, h)
  <2>1. Recorded(s, writeDone) /\ Written(s, writeDone, h)
    BY WriteDoneIsRecorded, WriteDone
  <2>2. CASE c.late
    <3>1. t = EndCgi(s, h)
      BY <1>2, <2>2 DEF ProcessCgi
    <3> QED BY <1>2, <3>1, EndCgiIsRecorded
  <2>3. CASE ~c.late /\ ends
    <3> DEFINE u == IF c.inOpen THEN writeDone ELSE CloseQuietly(s, {c.out})
    <3>1. t = EndCgi(u, h)
      BY <1>2, <2>3 DEF ProcessCgi
    <3>2. Recorded(s, u) /\ u \in Server /\ isCgiRunning(u, h)
      <4>1. CASE c.inOpen
        <5>1. writeDone \in Server /\ isCgiRunning(writeDone, h)
          BY <1>2, <2>1 DEF Written, isCgiRunning
        <5> QED BY <2>1, <4>1, <5>1
      <4>2. CASE ~c.inOpen
        <5> DEFINE v == CloseQuietly(s, {c.out})
        <5>1. v \in Server /\ Recorded(s, v) /\ SameCgi(s, v, h)
          BY CloseQuietlyEffect, CloseQuietlyIsRecorded
        <5>2. u = v
          BY <4>2
        <5> HIDE DEF u, v
        <5> QED BY <1>2, <5>1, <5>2 DEF SameCgi, isCgiRunning
      <4> QED BY <4>1, <4>2
    <3> HIDE DEF u
    <3>3. Recorded(u, EndCgi(u, h))
      BY <3>2, EndCgiIsRecorded DEF Recorded
    <3> QED BY <3>1, <3>2, <3>3, RecordedIsTransitive
  <2>4. CASE ~c.late /\ ~ends /\ c.inOpen
    <3>1. t = writeDone
      BY <1>2, <2>4 DEF ProcessCgi
    <3> QED BY <2>1, <3>1
  <2>5. CASE ~c.late /\ ~ends /\ ~c.inOpen
    <3>1. t = s
      BY <1>2, <2>5 DEF ProcessCgi
    <3> QED BY <1>0, <3>1
  <2> QED BY <2>2, <2>3, <2>4, <2>5
<1> QED BY <1>1, <1>2

LEMMA CloseConnectionIsRecorded ==
  ASSUME NEW s \in Server, NEW f \in Fd, DataInv(s), RecordInv(s)
  PROVE  Recorded(s, CloseConnection(s, f))
<1> DEFINE h == s.handlers[f]
           t == KillCgi(s, h)
           u == Forget(t, f)
           v == CloseConnection(s, f)
<1>1. CASE h = 0
  <2>1. v = [s EXCEPT !.watched = s.watched \ {f}]
    BY <1>1 DEF CloseConnection, Server
  <2>2. Recorded(s, s)
    BY DEF Recorded
  <2> HIDE DEF v
  <2>3. /\ v.fds = s.fds /\ v.watched \subseteq s.watched /\ v.cgi = s.cgi
        /\ v.ghosts = s.ghosts /\ v.astray = s.astray
    BY <2>1 DEF Server
  <2>4. Recorded(s, v)
    BY <2>2, <2>3, LessIsRecorded
  <2> QED BY <2>4 DEF v
<1>2. CASE h # 0
  <2>0. h \in Handler
    BY <1>2 DEF Server
  <2>1. v = Close(u, {f})
    BY <1>2 DEF CloseConnection
  <2>2. t \in Server /\ Recorded(s, t)
    <3> DEFINE d == DeleteCgi(s, h)
    <3>1. d \in Server /\ Recorded(s, d)
      BY <2>0, DeleteCgiEffect, DeleteCgiIsRecorded
    <3>2. CASE isCgiRunning(s, h)
      <4> DEFINE A == IF s.cgi[h].added THEN {"orphan"} ELSE {}
      <4>1. t = [d EXCEPT !.astray = d.astray \cup A] /\ A \in SUBSET {"orphan"}
        BY <3>1, <3>2 DEF KillCgi, Server
      <4> HIDE DEF t, d, A
      <4>2. /\ t.fds = d.fds /\ t.watched = d.watched /\ t.cgi = d.cgi
            /\ t.ghosts = d.ghosts /\ d.astray \subseteq t.astray
        BY <3>1, <4>1 DEF Server
      <4>3. t \in Server
        BY <3>1, <4>1 DEF Server, Accident
      <4> QED BY <3>1, <4>2, <4>3, LessIsRecorded
    <3>3. CASE ~isCgiRunning(s, h)
      <4>1. t = s
        BY <3>3 DEF KillCgi
      <4> HIDE DEF t
      <4> QED BY <4>1 DEF Recorded
    <3> QED BY <3>2, <3>3
  <2>3. /\ u.fds = t.fds /\ u.watched = t.watched /\ u.cgi = t.cgi
        /\ u.ghosts = t.ghosts /\ u.astray = t.astray
    <3> HIDE DEF t
    <3> QED BY <2>2 DEF Forget, Server
  <2>4. Close(u, {f}).fds = Close(t, {f}).fds /\ Close(u, {f}).watched = Close(t, {f}).watched
        /\ Close(u, {f}).cgi = Close(t, {f}).cgi /\ Close(u, {f}).ghosts = Close(t, {f}).ghosts
        /\ Close(u, {f}).astray = Close(t, {f}).astray
    <3> HIDE DEF t
    <3>1. \E alive, unsent, amount, handlers :
            u = [t EXCEPT !.alive = alive, !.unsent = unsent, !.amount = amount,
                          !.handlers = handlers]
      BY <2>2 DEF Forget, Server
    <3> HIDE DEF u
    <3> QED BY <2>2, <2>3, <3>1 DEF Close, Server
  <2>5. Recorded(t, Close(t, {f}))
    BY <2>2, CloseIsRecorded DEF Recorded
  <2> HIDE DEF t, u, v
  <2>6. Recorded(t, v)
    BY <2>1, <2>4, <2>5, LessIsRecorded
  <2>7. Recorded(s, v)
    BY <2>2, <2>6, RecordedIsTransitive
  <2> QED BY <2>7 DEF v
<1> QED BY <1>1, <1>2

\* A script that is started and added has its second pipe on record.
LEMMA HeardIsRecorded ==
  ASSUME NEW s \in Server, NEW u, NEW v, NEW w, NEW h \in Handler, NEW F, RecordInv(s),
         OnlyUnsent(s, u), Started(u, v, h, F), Added(v, w, h)
  PROVE  Recorded(s, w)
<1>1. /\ w.fds = v.fds /\ w.ghosts = s.ghosts /\ w \in Server
      /\ w.watched = s.watched \cup F /\ F = {v.cgi[h].out, v.cgi[h].in} \ {0}
      /\ s.astray \subseteq w.astray /\ 0 \notin Fd
  BY BoundsAssumption DEF OnlyUnsent, Started, Added, Fd
<1>2. ASSUME NEW f \in w.watched
      PROVE  w.fds[f] # Closed
  <2>1. f \in Fd
    BY <1>1 DEF Server
  <2>2. CASE f \in F
    BY <1>1, <2>2 DEF Started, Closed
  <2>3. CASE f \notin F
    BY <1>1, <2>1, <2>3 DEF OnlyUnsent, Started, RecordInv
  <2> QED BY <2>2, <2>3
<1>3. ASSUME NEW k \in Handler, isCgiRunning(w, k)
      PROVE  /\ w.cgi[k].added /\ w.cgi[k].in # 0 => "twin" \in w.astray
             /\ ~w.cgi[k].added => "unheard" \in w.astray
  <2>1. CASE k = h
    BY <2>1 DEF Added
  <2>2. CASE k # h
    <3>1. /\ w.cgi[k].out = s.cgi[k].out /\ w.cgi[k].in = s.cgi[k].in
          /\ w.cgi[k].added = s.cgi[k].added
      BY <2>2 DEF OnlyUnsent, Started, Added, SameCgi
    <3> QED BY <1>1, <1>3, <3>1 DEF RecordInv, isCgiRunning
  <2> QED BY <2>1, <2>2
<1>4. w.ghosts # {} => "ghost" \in w.astray
  BY <1>1 DEF RecordInv
<1> QED BY <1>1, <1>2, <1>3, <1>4 DEF Recorded, RecordInv

\* A script that is started and not added is on record itself.
LEMMA UnheardIsRecorded ==
  ASSUME NEW s \in Server, NEW u, NEW v, NEW h \in Handler, NEW F, RecordInv(s),
         OnlyUnsent(s, u), Started(u, v, h, F)
  PROVE  Recorded(s, Noted(v, {"unheard"}))
<1> DEFINE w == Noted(v, {"unheard"})
<1>1. /\ w.fds = v.fds /\ w.ghosts = v.ghosts /\ w.watched = v.watched /\ w.cgi = v.cgi
      /\ w.astray = v.astray \cup {"unheard"} /\ v \in Server
  BY DEF Started, Noted, Server
<1> HIDE DEF w
<1>2. ASSUME NEW f \in w.watched
      PROVE  w.fds[f] # Closed
  <2>1. f \in Fd /\ f \in s.watched /\ s.fds[f] # Closed
    BY <1>1 DEF OnlyUnsent, Started, RecordInv, Server
  <2>2. f \notin F
    BY <2>1 DEF OnlyUnsent, Started, FreeFds
  <2> QED BY <1>1, <2>1, <2>2 DEF OnlyUnsent, Started
<1>3. ASSUME NEW k \in Handler, isCgiRunning(w, k)
      PROVE  /\ w.cgi[k].added /\ w.cgi[k].in # 0 => "twin" \in w.astray
             /\ ~w.cgi[k].added => "unheard" \in w.astray
  <2>1. CASE k = h
    BY <1>1, <2>1 DEF Started
  <2>2. CASE k # h
    <3>1. /\ w.cgi[k].out = s.cgi[k].out /\ w.cgi[k].in = s.cgi[k].in
          /\ w.cgi[k].added = s.cgi[k].added /\ s.astray \subseteq w.astray
      BY <1>1, <2>2 DEF OnlyUnsent, Started, SameCgi
    <3> QED BY <1>3, <3>1 DEF RecordInv, isCgiRunning
  <2> QED BY <2>1, <2>2
<1>4. (w.ghosts # {} => "ghost" \in w.astray) /\ s.astray \subseteq w.astray
  BY <1>1 DEF OnlyUnsent, Started, RecordInv
<1>5. Recorded(s, w)
  BY <1>2, <1>3, <1>4 DEF Recorded, RecordInv
<1> QED BY <1>5 DEF w

LEMMA NewConnectionIsRecorded ==
  ASSUME NEW s \in Server, NEW f \in Fd, s.made < MaxConns, s.amount <= s.made,
         RecordInv(s)
  PROVE  Recorded(s, NewConnection(s, f))
<1> DEFINE t == NewConnection(s, f)
           h == s.made + 1
<1>1. /\ t \in Server /\ t.fds[f] = [kind |-> "conn", owner |-> h]
      /\ \A g \in Fd \ {f} : t.fds[g] = s.fds[g] /\ (g \in t.watched <=> g \in s.watched)
      /\ t.cgi = s.cgi /\ t.astray = s.astray
  BY NewConnectionEffect
<1>2. t.ghosts = s.ghosts
  <2>1. \E fds, watched, handlers, alive, amount, made :
          t = [s EXCEPT !.fds = fds, !.watched = watched, !.handlers = handlers,
                        !.alive = alive, !.amount = amount, !.made = made]
    BY DEF NewConnection
  <2> HIDE DEF t
  <2> QED BY <2>1 DEF Server
<1> HIDE DEF t
<1>3. \A g \in t.watched : t.fds[g] # Closed
  BY <1>1 DEF Server, RecordInv, Closed
<1> QED BY <1>1, <1>2, <1>3 DEF t, Recorded, RecordInv, isCgiRunning

LEMMA DelegateIsRecorded ==
  ASSUME NEW s \in Server, NEW f \in Fd, NEW outcome \in Outcomes, DataInv(s),
         RecordInv(s)
  PROVE  Recorded(s, Delegate(s, f, outcome))
<1> DEFINE h == s.handlers[f]
           t == Delegate(s, f, outcome)
<1>1. Delegated(s, t, f)
  BY DelegateCases
<1> SUFFICES Recorded(s, t)
  BY DEF t
<1> HIDE DEF t
<1>2. CASE t = s
  BY <1>2 DEF Recorded
<1>3. ASSUME NEW u, OnlyUnsent(s, u), h \in Handler, ~isCgiRunning(s, h),
             Handled(u, t, f, h)
      PROVE  Recorded(s, t)
  <2>1. ASSUME NEW w, Recorded(s, w), Right(s, w), t = CloseConnection(w, f)
        PROVE  Recorded(s, t)
    <3>1. w \in Server /\ DataInv(w) /\ RecordInv(w)
      BY <2>1 DEF Right, Recorded
    <3>2. Recorded(w, t)
      BY <2>1, <3>1, CloseConnectionIsRecorded
    <3> QED BY <2>1, <3>2, RecordedIsTransitive
  <2>2. Recorded(s, u) /\ Right(s, u)
    BY <1>3, UnsentIsRight DEF OnlyUnsent, Recorded, RecordInv, isCgiRunning
  <2>3. CASE t = u \/ t = CloseConnection(u, f)
    BY <2>1, <2>2, <2>3
  <2>4. ASSUME NEW v, NEW F, Started(u, v, h, F),
               \/ t = Noted(v, {"unheard"})
               \/ \E w : Added(v, w, h) /\ t \in {w, CloseConnection(w, f)}
        PROVE  Recorded(s, t)
    <3>1. CASE t = Noted(v, {"unheard"})
      BY <1>3, <2>4, <3>1, UnheardIsRecorded
    <3>2. ASSUME NEW w, Added(v, w, h), t \in {w, CloseConnection(w, f)}
          PROVE  Recorded(s, t)
      <4>1. Recorded(s, w)
        BY <1>3, <2>4, <3>2, HeardIsRecorded
      <4>2. h \in s.alive
        <5>1. h # 0
          BY <1>3, BoundsAssumption DEF Handler
        <5> QED BY <5>1 DEF DataInv, HandlersInv
      <4> HIDE DEF h
      <4>3. /\ Right(s, v) /\ v.handlers = s.handlers /\ isCgiRunning(v, h)
            /\ v \in Server /\ DataInv(v)
        BY <1>3, <2>4, <4>2, StartIsRight DEF Right
      <4>4. Right(v, w)
        BY <1>3, <3>2, <4>3, AddedIsRight
      <4>5. Right(s, w)
        BY <4>3, <4>4, RightIsTransitive
      <4> QED BY <2>1, <3>2, <4>1, <4>5
    <3> QED BY <2>4, <3>1, <3>2
  <2> QED BY <1>3, <2>3, <2>4 DEF Handled
<1> HIDE DEF h
<1> QED BY <1>1, <1>2, <1>3 DEF Delegated, h

(***************************************************************************)
(* Member functions: which descriptors they leave alone.                   *)
(***************************************************************************)

Unpaired(t) == t.astray \cap {"twin", "unheard"} = {}

\* Outside of F only free descriptors have changed, and pipes of a Cgi that has two
\* or that the server does not hear of, unless a handler went with its Cgi or a Cgi
\* kept an entry.
Spares(s, t, F) ==
  t.astray \cap {"orphan", "stale"} = {} =>
    \A f \in Fd \ F :
      \/ t.fds[f] = s.fds[f] \/ s.fds[f] = Closed
      \/ s.fds[f].kind # "conn" /\ ~Unpaired(t)

LEMMA SparesIsTransitive ==
  ASSUME NEW s, NEW t, NEW u, NEW F, Spares(s, t, F), Spares(t, u, F),
         t.astray \subseteq u.astray
  PROVE  Spares(s, u, F)
BY DEF Spares, Unpaired

\* The end of a Cgi takes the pipe of the event, and the other if there is one.
LEMMA ProcessCgiSpares ==
  ASSUME NEW s \in Server, DataInv(s), RecordInv(s), NEW f \in Fd, s.cgis[f] # 0,
         NEW ends \in BOOLEAN
  PROVE  Spares(s, ProcessCgi(s, s.cgis[f], ends), {f})
<1> DEFINE h == s.cgis[f]
           t == ProcessCgi(s, h, ends)
<1>1. h \in Handler /\ Recorded(s, t)
  <2>1. h \in Handler
    BY DEF Server
  <2> HIDE DEF h
  <2> QED BY <2>1, ProcessCgiIsRecorded
<1>2. \/ t = Undefined(s)
      \/ Ended(s, t, h)
      \/ Written(s, t, h)
      \/ \E u \in Server : Written(s, u, h) /\ Ended(u, t, h)
      \/ t = s
  <2> HIDE DEF h
  <2> QED BY <1>1, ProcessCgiCases
<1> SUFFICES ASSUME t.astray \cap {"orphan", "stale"} = {}, NEW g \in Fd \ {f}
             PROVE  \/ t.fds[g] = s.fds[g]
                    \/ s.fds[g].kind # "conn" /\ ~Unpaired(t)
  BY DEF Spares
<1>3. "orphan" \notin s.astray /\ "stale" \notin s.astray
  BY <1>1 DEF Recorded
<1>4. IsEntry(s, f, h)
  BY <1>3 DEF DataInv, EntriesInv, IsEntry
<1>5. s.cgi[h].in # 0 => ~Unpaired(t)
  BY <1>1, <1>4 DEF Recorded, RecordInv, IsEntry, Unpaired
<1> HIDE DEF t
<1>6. CASE t = Undefined(s) \/ t = s
  BY <1>6 DEF Undefined, Server
<1>7. CASE Ended(s, t, h)
  <2>1. CASE g \notin {s.cgi[h].out, s.cgi[h].in}
    BY <1>7, <2>1 DEF Ended, Within
  <2>2. CASE g \in {s.cgi[h].out, s.cgi[h].in}
    <3>1. s.fds[g].kind # "conn"
      BY <1>1, <1>3, <2>2, PipeIsOwn DEF DataInv
    <3>2. s.cgi[h].in # 0
      BY <1>4, <2>2, BoundsAssumption DEF Fd, IsEntry
    <3> QED BY <1>5, <3>1, <3>2
  <2> QED BY <2>1, <2>2
<1>8. CASE Written(s, t, h)
  BY <1>8 DEF Written
<1>9. CASE \E u \in Server : Written(s, u, h) /\ Ended(u, t, h)
  BY <1>9 DEF Written, Ended, OnlyGhosts
<1> QED BY <1>2, <1>6, <1>7, <1>8, <1>9

\* The end of a connection takes the pipes of a script the server does not hear of.
LEMMA CloseConnectionSpares ==
  ASSUME NEW s \in Server, NEW f \in Fd, DataInv(s), RecordInv(s)
  PROVE  Spares(s, CloseConnection(s, f), {f})
<1> DEFINE t == CloseConnection(s, f)
           h == s.handlers[f]
<1>1. CASE h = 0
  <2>1. t = [s EXCEPT !.watched = s.watched \ {f}]
    BY <1>1 DEF CloseConnection, Server
  <2> HIDE DEF t
  <2>2. t.fds = s.fds
    BY <2>1 DEF Server
  <2>3. Spares(s, t, {f})
    BY <2>2 DEF Spares
  <2> QED BY <2>3 DEF t
<1>2. CASE h # 0
  <2>1. Gone(s, t, f, h) /\ Recorded(s, t) /\ h \in Handler
    <3>1. h \in Handler
      BY <1>2 DEF Server
    <3> QED BY <1>2, <3>1, CloseConnectionEffect, CloseConnectionIsRecorded
  <2> HIDE DEF t, h
  <2>2. ~isCgiRunning(s, h) => Closes(s, t, {} \cup {f})
    BY <2>1 DEF Gone
  <2>3. isCgiRunning(s, h) => Closes(s, t, Ends(s.cgi[h]) \cup {f})
    BY <2>1 DEF Gone
  <2>4. ASSUME ~isCgiRunning(s, h)
        PROVE  Spares(s, t, {f})
    BY <2>2, <2>4 DEF Spares, Closes
  <2>5. ASSUME isCgiRunning(s, h)
        PROVE  Spares(s, t, {f})
    <3> SUFFICES ASSUME t.astray \cap {"orphan", "stale"} = {}, NEW g \in Fd \ {f},
                        t.fds[g] # s.fds[g]
                 PROVE  s.fds[g].kind # "conn" /\ ~Unpaired(t)
      BY DEF Spares
    <3>1. g \in {s.cgi[h].out, s.cgi[h].in}
      BY <2>3, <2>5 DEF Closes, Ends
    <3>2. "stale" \notin s.astray /\ "unheard" \in t.astray
      BY <2>1, <2>5 DEF Gone, Recorded, RecordInv
    <3>3. s.fds[g].kind # "conn"
      BY <2>1, <3>1, <3>2, PipeIsOwn DEF DataInv
    <3> QED BY <3>2, <3>3 DEF Unpaired
  <2>6. Spares(s, t, {f})
    BY <2>4, <2>5
  <2> QED BY <2>6 DEF t
<1> QED BY <1>1, <1>2

LEMMA DelegateSpares ==
  ASSUME NEW s \in Server, NEW f \in Fd, NEW outcome \in Outcomes, DataInv(s),
         RecordInv(s)
  PROVE  Spares(s, Delegate(s, f, outcome), {f})
<1> DEFINE h == s.handlers[f]
           t == Delegate(s, f, outcome)
<1>1. Delegated(s, t, f)
  BY DelegateCases
<1> SUFFICES Spares(s, t, {f})
  BY DEF t
<1> HIDE DEF t
<1>2. CASE t = s
  BY <1>2 DEF Spares
<1>3. ASSUME NEW u, OnlyUnsent(s, u), h \in Handler, ~isCgiRunning(s, h),
             Handled(u, t, f, h)
      PROVE  Spares(s, t, {f})
  <2>1. ASSUME NEW w, Spares(s, w, {f}), Recorded(s, w), Right(s, w),
               t = CloseConnection(w, f)
        PROVE  Spares(s, t, {f})
    <3>1. w \in Server /\ DataInv(w) /\ RecordInv(w)
      BY <2>1 DEF Right, Recorded
    <3>2. Spares(w, t, {f}) /\ w.astray \subseteq t.astray
      BY <2>1, <3>1, CloseConnectionSpares, CloseConnectionIsRecorded DEF Recorded
    <3> QED BY <2>1, <3>2, SparesIsTransitive
  <2>2. Recorded(s, u) /\ Right(s, u) /\ Spares(s, u, {f})
    BY <1>3, UnsentIsRight DEF OnlyUnsent, Recorded, RecordInv, isCgiRunning, Spares
  <2>3. CASE t = u \/ t = CloseConnection(u, f)
    BY <2>1, <2>2, <2>3
  <2>4. ASSUME NEW v, NEW F, Started(u, v, h, F),
               \/ t = Noted(v, {"unheard"})
               \/ \E w : Added(v, w, h) /\ t \in {w, CloseConnection(w, f)}
        PROVE  Spares(s, t, {f})
    <3>1. \A g \in Fd : v.fds[g] = s.fds[g] \/ s.fds[g] = Closed
      <4>1. u.fds = s.fds /\ \A g \in F : g \in Fd /\ u.fds[g] = Closed
        BY <1>3, <2>4 DEF OnlyUnsent, Started, FreeFds
      <4>2. \A g \in Fd \ F : v.fds[g] = u.fds[g]
        BY <2>4 DEF Started
      <4> QED BY <4>1, <4>2
    <3>2. CASE t = Noted(v, {"unheard"})
      <4>1. t.fds = v.fds
        BY <2>4, <3>2 DEF Started, Noted, Server
      <4> QED BY <3>1, <4>1 DEF Spares
    <3>3. ASSUME NEW w, Added(v, w, h), t \in {w, CloseConnection(w, f)}
          PROVE  Spares(s, t, {f})
      <4>1. Spares(s, w, {f})
        BY <3>1, <3>3 DEF Spares, Added
      <4>2. Recorded(s, w)
        BY <1>3, <2>4, <3>3, HeardIsRecorded
      <4>3. h \in s.alive
        <5>1. h # 0
          BY <1>3, BoundsAssumption DEF Handler
        <5> QED BY <5>1 DEF DataInv, HandlersInv
      <4> HIDE DEF h
      <4>4. /\ Right(s, v) /\ v.handlers = s.handlers /\ isCgiRunning(v, h)
            /\ v \in Server /\ DataInv(v)
        BY <1>3, <2>4, <4>3, StartIsRight DEF Right
      <4>5. Right(v, w)
        BY <1>3, <3>3, <4>4, AddedIsRight
      <4>6. Right(s, w)
        BY <4>4, <4>5, RightIsTransitive
      <4> QED BY <2>1, <3>3, <4>1, <4>2, <4>6
    <3> QED BY <2>4, <3>2, <3>3
  <2> QED BY <1>3, <2>3, <2>4 DEF Handled
<1> HIDE DEF h
<1> QED BY <1>1, <1>2, <1>3 DEF Delegated, h

\* A new connection gets a number nobody had.
LEMMA AcceptSpares ==
  ASSUME NEW s \in Server, FreeFds(s) # {}, s.made < MaxConns, DataInv(s), RecordInv(s),
         NEW outcome \in Outcomes
  PROVE  LET f == Lowest(s, 1)
             t == Delegate(NewConnection(s, f), f, outcome) IN
         Recorded(s, t) /\ Spares(s, t, {})
<1> DEFINE f == Lowest(s, 1)
           u == NewConnection(s, f)
           t == Delegate(u, f, outcome)
<1>1. f \in FreeFds(s)
  <2>1. /\ IsFiniteSet(FreeFds(s)) /\ Cardinality(FreeFds(s)) \in Nat
    BY FiniteFds DEF FreeFds
  <2>2. Cardinality(FreeFds(s)) # 0
    BY <2>1, FS_EmptySet
  <2>3. 1 \in 1..3 /\ 1 <= Cardinality(FreeFds(s))
    BY <2>1, <2>2
  <2> QED BY <2>3, LowestIsFree
<1> HIDE DEF f
<1>2. f \in Fd /\ s.fds[f] = Closed /\ s.amount <= s.made
  BY <1>1 DEF FreeFds, DataInv, HandlersInv
<1>3. /\ Right(s, u) /\ Recorded(s, u)
      /\ \A g \in Fd \ {f} : u.fds[g] = s.fds[g]
  BY <1>1, <1>2, NewConnectionIsRight, NewConnectionIsRecorded, NewConnectionEffect
<1> HIDE DEF u
<1>4. Recorded(u, t) /\ Spares(u, t, {f})
  BY <1>2, <1>3, DelegateIsRecorded, DelegateSpares DEF Right, Recorded
<1> HIDE DEF t
<1>5. Recorded(s, t)
  BY <1>3, <1>4, RecordedIsTransitive
<1>6. Spares(s, t, {})
  BY <1>2, <1>3, <1>4 DEF Spares
<1> QED BY <1>5, <1>6 DEF t, u, f

(***************************************************************************)
(* Steps of the loop.                                                      *)
(***************************************************************************)

\* The inductive invariant with what is on record, and what is to be shown of it.
BatchInv == IInv /\ RecordInv(srv) /\ EventsInv /\ BatchIsFresh
Renewed == RecordInv(srv') /\ EventsInv' /\ BatchIsFresh'

\* A step that handles what there is of F in the batch, or none of it.
LEMMA HandledStep ==
  ASSUME BatchInv, NEW F, Recorded(srv, srv'), Spares(srv, srv', F),
         batch' \subseteq batch,
         pc' \notin {"batch", "accept"} => batch' = {},
         Without({"orphan", "stale", "ghost"}) => \A ev \in batch' : ev.fd \notin F
  PROVE  Renewed
<1>1. RecordInv(srv') /\ srv.astray \subseteq srv'.astray
  BY DEF Recorded
<1>2. /\ Without({"orphan", "stale", "ghost"})' => Without({"orphan", "stale", "ghost"})
      /\ ~Without({"twin", "unheard"}) => ~Unpaired(srv')
  BY <1>1 DEF Without, Unpaired
<1>3. EventsInv'
  BY <1>2 DEF EventsInv, BatchInv
<1>4. BatchIsFresh'
  <2> SUFFICES ASSUME Without({"orphan", "stale", "ghost"})', NEW ev \in batch',
                      ev.fd # 0
               PROVE  \/ srv'.fds[ev.fd] = ev.was
                      \/ ev.was.kind # "conn" /\ ~Unpaired(srv')
    BY DEF BatchIsFresh, Without, Unpaired
  <2>1. /\ ev \in batch /\ ev.fd \in Fd \ F /\ ev.was # Closed
        /\ \/ srv.fds[ev.fd] = ev.was
           \/ ev.was.kind # "conn" /\ ~Without({"twin", "unheard"})
    BY <1>2, InvHasData DEF BatchInv, EventsInv, BatchIsFresh, Event
  <2>2. \/ srv'.fds[ev.fd] = srv.fds[ev.fd] \/ srv.fds[ev.fd] = Closed
        \/ srv.fds[ev.fd].kind # "conn" /\ ~Unpaired(srv')
    BY <2>1 DEF Spares, Without
  <2> QED BY <1>2, <2>1, <2>2
<1> QED BY <1>1, <1>3, <1>4 DEF Renewed

\* A step that leaves the descriptors and the accidents alone.
LEMMA QuietStep ==
  ASSUME BatchInv, Recorded(srv, srv'), srv'.fds = srv.fds, batch' \subseteq batch,
         pc' \notin {"batch", "accept"} => batch' = {}
  PROVE  Renewed
<1>1. Spares(srv, srv', {})
  BY DEF Spares
<1> QED BY <1>1, HandledStep

\* A descriptor has one event in the batch, unless a ghost may stir.
LEMMA HandledOnce ==
  ASSUME BatchInv, NEW ev \in batch, batch' = batch \ {ev}
  PROVE  Without({"orphan", "stale", "ghost"}) => \A e \in batch' : e.fd \notin {ev.fd}
BY DEF BatchInv, EventsInv

LEMMA HandleConnectionEventRenews ==
  ASSUME BatchInv, HandleConnectionEvent
  PROVE  Renewed
<1>1. PICK ev \in batch :
        /\ ev.fd # 0
        /\ batch' = batch \ {ev}
        /\ IF srv.cgis[ev.fd] # 0
             THEN \E ends \in BOOLEAN : srv' = ProcessCgi(srv, srv.cgis[ev.fd], ends)
           ELSE IF ev.hup
             THEN srv' = CloseConnection(srv, ev.fd)
             ELSE \E outcome \in Outcomes : srv' = Delegate(srv, ev.fd, outcome)
  BY DEF HandleConnectionEvent
<1>2. pc' = "batch"
  BY DEF HandleConnectionEvent
<1>3. /\ srv \in Server /\ DataInv(srv) /\ RecordInv(srv) /\ ev.fd \in Fd
  BY <1>1, InvHasData DEF BatchInv, Event
<1>4. Recorded(srv, srv') /\ Spares(srv, srv', {ev.fd})
  <2>1. CASE srv.cgis[ev.fd] # 0
    <3> DEFINE h == srv.cgis[ev.fd]
    <3>1. PICK ends \in BOOLEAN : srv' = ProcessCgi(srv, h, ends)
      BY <1>1, <2>1
    <3>2. Spares(srv, ProcessCgi(srv, h, ends), {ev.fd})
      BY <1>3, <2>1, ProcessCgiSpares
    <3>3. h \in Handler
      BY <1>3, <2>1 DEF Server
    <3> HIDE DEF h
    <3>4. Recorded(srv, ProcessCgi(srv, h, ends))
      BY <1>3, <3>3, ProcessCgiIsRecorded
    <3> QED BY <3>1, <3>2, <3>4
  <2>2. CASE srv.cgis[ev.fd] = 0 /\ ev.hup
    BY <1>1, <1>3, <2>2, CloseConnectionIsRecorded, CloseConnectionSpares
  <2>3. CASE srv.cgis[ev.fd] = 0 /\ ~ev.hup
    BY <1>1, <1>3, <2>3, DelegateIsRecorded, DelegateSpares
  <2> QED BY <2>1, <2>2, <2>3
<1> QED BY <1>1, <1>2, <1>4, HandledOnce, HandledStep

LEMMA AcceptOneRenews ==
  ASSUME BatchInv, AcceptOne
  PROVE  Renewed
<1>1. PICK outcome \in Outcomes :
        srv' = Delegate(NewConnection(srv, Lowest(srv, 1)), Lowest(srv, 1), outcome)
  BY DEF AcceptOne
<1>2. /\ pc' = "accept" /\ batch' = batch /\ srv.made < MaxConns /\ FreeFds(srv) # {}
      /\ srv \in Server /\ DataInv(srv) /\ RecordInv(srv)
  BY InvHasData DEF AcceptOne, BatchInv
<1>3. Recorded(srv, srv') /\ Spares(srv, srv', {})
  BY <1>1, <1>2, AcceptSpares
<1> QED BY <1>2, <1>3, HandledStep

\* epoll_wait reports what is watched as it is.
LEMMA EpollWaitRenews ==
  ASSUME BatchInv, EpollWait
  PROVE  Renewed
<1>1. /\ pc' = "batch" /\ srv' = srv /\ batch' \subseteq Ready(srv)
      /\ \A a, b \in batch' : a.fd = b.fd /\ a.was = b.was => a = b
  BY DEF EpollWait
<1>2. srv \in Server /\ RecordInv(srv)
  BY InvHasData DEF BatchInv
<1>3. ASSUME Without({"ghost"}), NEW ev \in batch'
      PROVE  \/ ev.fd = 0 /\ ev.was = Closed
             \/ ev.fd \in Fd /\ ev.was = srv.fds[ev.fd] /\ ev.was # Closed
  <2>1. srv.ghosts = {}
    BY <1>2, <1>3 DEF RecordInv, Without
  <2>2. \/ ev.fd = 0 /\ ev.was = Closed
        \/ ev.fd \in srv.watched /\ ev.was = srv.fds[ev.fd]
    BY <1>1, <2>1 DEF Ready
  <2> QED BY <1>2, <2>2 DEF RecordInv, Server
<1>4. Without({"orphan", "stale", "ghost"})' => Without({"ghost"})
  BY <1>1 DEF Without
<1>5. EventsInv'
  <2>1. ASSUME Without({"ghost"}), NEW a \in batch', NEW b \in batch', a.fd = b.fd
        PROVE  a = b
    <3>1. 0 \notin Fd
      BY BoundsAssumption DEF Fd
    <3>2. a.was = b.was
      BY <1>3, <2>1, <3>1
    <3> QED BY <1>1, <2>1, <3>2
  <2>2. \A ev \in batch' : Without({"ghost"}) /\ ev.fd # 0 => ev.was # Closed
    BY <1>3
  <2> QED BY <1>1, <1>4, <2>1, <2>2 DEF EventsInv
<1>6. BatchIsFresh'
  BY <1>1, <1>3, <1>4 DEF BatchIsFresh
<1> QED BY <1>1, <1>2, <1>5, <1>6 DEF Renewed

LEMMA KillOneRenews ==
  ASSUME BatchInv, KillOne
  PROVE  Renewed
<1>1. PICK entry \in toKill : srv' = ProcessCgi(srv, entry[2], FALSE)
  BY DEF KillOne
<1>2. /\ entry[2] \in Handler /\ srv \in Server /\ RecordInv(srv)
      /\ batch = {} /\ batch' = {}
  BY InvHasData DEF BatchInv, EventsInv, KillOne
<1>3. PICK ends \in BOOLEAN : srv' = ProcessCgi(srv, entry[2], ends)
  BY <1>1
<1>4. Recorded(srv, srv')
  BY <1>2, <1>3, ProcessCgiIsRecorded
<1> QED BY <1>2, <1>4 DEF Renewed, Recorded, EventsInv, BatchIsFresh

LEMMA CloseOneRenews ==
  ASSUME BatchInv, CloseOne
  PROVE  Renewed
<1>1. PICK f \in Fd : srv' = CloseConnection(srv, f)
  BY DEF CloseOne
<1>2. /\ srv \in Server /\ DataInv(srv) /\ RecordInv(srv)
      /\ batch = {} /\ batch' = {}
  BY InvHasData DEF BatchInv, EventsInv, CloseOne
<1>3. Recorded(srv, srv')
  BY <1>1, <1>2, CloseConnectionIsRecorded
<1> QED BY <1>2, <1>3 DEF Renewed, Recorded, EventsInv, BatchIsFresh

LEMMA CheckCgiTimeoutsRenews ==
  ASSUME BatchInv, CheckCgiTimeouts
  PROVE  Renewed
<1>1. srv \in Server /\ RecordInv(srv) /\ batch = {} /\ batch' = {}
  BY InvHasData DEF BatchInv, EventsInv, CheckCgiTimeouts
<1>2. Recorded(srv, srv')
  <2>1. CASE \E f \in Fd : srv.cgis[f] \notin srv.alive \cup {0}
    BY <1>1, <2>1, UndefinedIsRecorded DEF CheckCgiTimeouts
  <2>2. CASE ~\E f \in Fd : srv.cgis[f] \notin srv.alive \cup {0}
    <3>1. \E A : srv' = [srv EXCEPT !.astray = srv.astray \cup A]
      BY <1>1, <2>2 DEF CheckCgiTimeouts, Server
    <3>2. /\ srv'.fds = srv.fds /\ srv'.watched = srv.watched /\ srv'.cgi = srv.cgi
          /\ srv'.ghosts = srv.ghosts /\ srv.astray \subseteq srv'.astray
      BY <1>1, <3>1 DEF Server
    <3>3. Recorded(srv, srv)
      BY <1>1 DEF Recorded
    <3> QED BY <3>2, <3>3, LessIsRecorded
  <2> QED BY <2>1, <2>2
<1> QED BY <1>1, <1>2 DEF Renewed, Recorded, EventsInv, BatchIsFresh

LEMMA ExpireRenews ==
  ASSUME BatchInv, Expire
  PROVE  Renewed
<1>1. PICK h \in Handler : srv' = [srv EXCEPT !.cgi[h].late = TRUE]
  BY DEF Expire
<1>2. /\ srv \in Server /\ RecordInv(srv) /\ batch' = batch /\ pc' = pc
  BY InvHasData DEF BatchInv, Expire
<1> DEFINE cgi == [srv.cgi EXCEPT ![h] = [srv.cgi[h] EXCEPT !.late = TRUE]]
<1>3. srv' = [srv EXCEPT !.cgi = cgi]
  BY <1>1, <1>2 DEF Server
<1>4. \A k \in Handler : /\ cgi[k].out = srv.cgi[k].out /\ cgi[k].in = srv.cgi[k].in
                         /\ cgi[k].added = srv.cgi[k].added
  <2> DEFINE c == [srv.cgi[h] EXCEPT !.late = TRUE]
  <2>1. srv.cgi \in [Handler -> CgiData]
    BY <1>2 DEF Server
  <2>2. c.out = srv.cgi[h].out /\ c.in = srv.cgi[h].in /\ c.added = srv.cgi[h].added
    BY <2>1 DEF CgiData
  <2> HIDE DEF c
  <2>3. cgi = [srv.cgi EXCEPT ![h] = c]
    BY DEF c
  <2> QED BY <2>1, <2>2, <2>3
<1> HIDE DEF cgi
<1>5. /\ srv'.fds = srv.fds /\ srv'.watched = srv.watched /\ srv'.cgi = cgi
      /\ srv'.ghosts = srv.ghosts /\ srv'.astray = srv.astray
  BY <1>2, <1>3 DEF Server
<1>6. Recorded(srv, srv')
  <2>1. Recorded(srv, srv)
    BY <1>2 DEF Recorded
  <2> QED BY <1>4, <1>5, <2>1, LessIsRecorded
<1>7. pc' \notin {"batch", "accept"} => batch' = {}
  BY <1>2 DEF BatchInv, EventsInv
<1> QED BY <1>2, <1>5, <1>6, <1>7, QuietStep

LEMMA OtherStepsRenew ==
  ASSUME BatchInv,
         \/ SkipTimer \/ KillDone \/ StartAccepting \/ AcceptFails
         \/ AcceptDone \/ BatchDone \/ Stopped \/ UNCHANGED vars
  PROVE  Renewed
<1>1. srv' = srv /\ Recorded(srv, srv')
  BY DEF SkipTimer, KillDone, StartAccepting, AcceptFails, AcceptDone, BatchDone,
         Stopped, vars, BatchInv, Recorded
<1>2. batch' \subseteq batch
  BY DEF SkipTimer, KillDone, StartAccepting, AcceptFails, AcceptDone, BatchDone,
         Stopped, vars
<1>3. pc' \notin {"batch", "accept"} => batch' = {}
  BY DEF SkipTimer, KillDone, StartAccepting, AcceptFails, AcceptDone, BatchDone,
         Stopped, vars, BatchInv, EventsInv
<1> QED BY <1>1, <1>2, <1>3, QuietStep

LEMMA EveryStepRenews ==
  ASSUME BatchInv, [Next]_vars
  PROVE  BatchInv'
<1>1. Renewed
  BY CheckCgiTimeoutsRenews, KillOneRenews, EpollWaitRenews, HandleConnectionEventRenews,
     AcceptOneRenews, CloseOneRenews, ExpireRenews, OtherStepsRenew DEF Next, Loop
<1>2. IInv'
  BY EveryStep DEF Kept, BatchInv
<1> QED BY <1>1, <1>2 DEF Renewed, BatchInv

(***************************************************************************)
(* Theorems.                                                               *)
(***************************************************************************)

THEOREM BatchInvHolds == Spec => []BatchInv
<1>1. Init => BatchInv
  <2> SUFFICES ASSUME Init PROVE BatchInv
    OBVIOUS
  <2>1. /\ srv.watched = {} /\ srv.ghosts = {} /\ batch = {}
        /\ \A h \in Handler : ~isCgiRunning(srv, h)
    BY DEF Init, NoCgi, isCgiRunning
  <2> QED BY <2>1, InitInv DEF BatchInv, RecordInv, EventsInv, BatchIsFresh
<1> QED BY <1>1, EveryStepRenews, PTL DEF Spec

\* No handler of an event closes a descriptor of another event of the batch, or
\* gives its number to something else, in any batch of any size (start, accept,
\* pipe).
THEOREM BatchesStayFresh == Spec => []BatchIsFresh
<1>1. BatchInv => BatchIsFresh
  BY DEF BatchInv
<1> QED BY <1>1, BatchInvHolds, PTL

\* Both maps, the count and the epoll set agree with each other and with the
\* objects there are, and every accident is on record.
THEOREM MapsStayRight == Spec => []MapsAreRight
<1>1. BatchInv => MapsAreRight
  BY InvCountsConnections, InvKnowsTheCgis DEF BatchInv, MapsAreRight
<1> QED BY <1>1, BatchInvHolds, PTL
=============================================================================
