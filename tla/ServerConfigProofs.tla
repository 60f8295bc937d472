------------------------- MODULE ServerConfigProofs -------------------------
(***************************************************************************)
(* The cache of ServerConfig, for every list of routes and every path.     *)
(***************************************************************************)
EXTENDS ServerConfig, NaturalsInduction, WellFoundedInduction, SequenceTheorems, TLAPS

\* Induction, for the set of the numbers that have a property.
LEMMA AllNaturals ==
  ASSUME NEW S, 0 \in S, \A n \in Nat : n \in S => n + 1 \in S
  PROVE  \A n \in Nat : n \in S
<1> SUFFICES ASSUME Nat \ S # {} PROVE FALSE
  OBVIOUS
<1> DEFINE R == OpToRel(<, Nat)
           T == Nat \ S
<1>1. IsWellFoundedOn(R, Nat)
  BY NatLessThanWellFounded
<1>2. T \subseteq Nat /\ T # {}
  OBVIOUS
<1>3. PICK n \in T : \A m \in T : <<m, n>> \notin R
  BY ONLY <1>1, <1>2, WFMin
<1>4. \A m \in T : ~(m < n)
  BY <1>2, <1>3 DEF OpToRel
<1>5. n \in Nat /\ n # 0 /\ n - 1 \notin T
  BY <1>4
<1> QED BY <1>5

----------------------------------------------------------------------------
(* The loop of _findRoute.                                                 *)

First == [route |-> routes[1], length |-> 0]
Better(best, i, path) ==
  IF Matches(routes[i], path) /\ Len(routes[i].path) > best.length
    THEN [route |-> routes[i], length |-> Len(routes[i].path)]
    ELSE best

\* The loop has a result after each of the locations (_findRoute).
LEMMA FoundIs ==
  ASSUME NEW path
  PROVE  Found(path) = [i \in 0..Len(routes) |->
           IF i = 0 THEN First ELSE Better(Found(path)[i - 1], i, path)]
<1> DEFINE Is(f, n) == f = [i \in 0..n |-> IF i = 0 THEN First ELSE Better(f[i - 1], i, path)]
           S == {n \in Nat : \E f : Is(f, n)}
<1>1. 0 \in S
  <2>1. Is([i \in 0..0 |-> First], 0)
    OBVIOUS
  <2> QED BY <2>1
<1>2. ASSUME NEW n \in Nat, n \in S PROVE n + 1 \in S
  <2>1. PICK g : Is(g, n)
    BY <1>2
  <2> DEFINE f == [i \in 0..(n + 1) |-> IF i <= n THEN g[i] ELSE Better(g[n], n + 1, path)]
  <2>2. ASSUME NEW i \in 0..(n + 1)
        PROVE  f[i] = IF i = 0 THEN First ELSE Better(f[i - 1], i, path)
    <3>1. CASE i = 0
      BY <2>1, <3>1
    <3>2. CASE i \in 1..n
      <4>1. f[i] = g[i] /\ f[i - 1] = g[i - 1]
        BY <3>2
      <4>2. g[i] = Better(g[i - 1], i, path)
        BY <2>1, <3>2
      <4> QED BY <3>2, <4>1, <4>2
    <3>3. CASE i = n + 1
      <4>1. f[i] = Better(g[n], i, path) /\ f[i - 1] = g[n]
        BY <3>3
      <4> QED BY <3>3, <4>1
    <3> QED BY <3>1, <3>2, <3>3
  <2>3. Is(f, n + 1)
    <3> HIDE DEF f
    <3>1. f = [i \in 0..(n + 1) |-> f[i]]
      BY DEF f
    <3> QED BY <2>2, <3>1
  <2> HIDE DEF f, Is
  <2>4. \E h : Is(h, n + 1)
    BY <2>3
  <2> QED BY <2>4
<1>3. Len(routes) \in S
  <2> HIDE DEF S
  <2>1. \A n \in Nat : n \in S
    BY ONLY <1>1, <1>2, AllNaturals
  <2> QED BY <2>1, RoutesAssumption
<1>4. \E f : Is(f, Len(routes))
  BY <1>3
<1>5. Found(path) = CHOOSE f : Is(f, Len(routes))
  BY DEF Found, First, Better
<1> HIDE DEF Is
<1>6. Is(Found(path), Len(routes))
  BY <1>4, <1>5
<1> QED BY <1>6 DEF Is

\* What the loop has after the first n locations: the first of the longest of those
\* that match, the first of all if none does (_findRoute).
IsLongest(best, n, path) ==
  LET S == {i \in 1..n : Matches(routes[i], path)} IN
  \/ S = {} /\ best = First
  \/ \E i \in S :
       /\ best = [route |-> routes[i], length |-> Len(routes[i].path)]
       /\ \A j \in S : \/ Len(routes[j].path) < Len(routes[i].path)
                       \/ Len(routes[j].path) = Len(routes[i].path) /\ j >= i

\* One turn of the loop (_findRoute).
LEMMA LongestStep ==
  ASSUME NEW path, NEW n \in Nat, n + 1 <= Len(routes), NEW best, IsLongest(best, n, path)
  PROVE  IsLongest(Better(best, n + 1, path), n + 1, path)
<1> DEFINE S == {i \in 1..n : Matches(routes[i], path)}
           T == {i \in 1..(n + 1) : Matches(routes[i], path)}
           new == Better(best, n + 1, path)
           L(i) == Len(routes[i].path)
<1>1. \A i \in 1..(n + 1) : L(i) \in Nat /\ L(i) > 0
  BY RoutesAssumption
<1>2. \A i : i \in T <=> i \in S \/ (i = n + 1 /\ Matches(routes[n + 1], path))
  OBVIOUS
<1>3. \/ S = {} /\ best = First
      \/ \E i \in S : /\ best = [route |-> routes[i], length |-> L(i)]
                     /\ \A j \in S : L(j) < L(i) \/ (L(j) = L(i) /\ j >= i)
  BY DEF IsLongest
<1>4. new = IF Matches(routes[n + 1], path) /\ L(n + 1) > best.length
              THEN [route |-> routes[n + 1], length |-> L(n + 1)] ELSE best
  BY DEF Better
<1>5. \A i \in S : i \in 1..n
  OBVIOUS
<1> HIDE DEF S, T, L, new
<1>6. \/ T = {} /\ new = First
      \/ \E i \in T : /\ new = [route |-> routes[i], length |-> L(i)]
                     /\ \A j \in T : L(j) < L(i) \/ (L(j) = L(i) /\ j >= i)
  <2>1. CASE S = {} /\ best = First
    <3>1. First.length = 0
      BY DEF First
    <3> QED BY <1>1, <1>2, <1>4, <2>1, <3>1
  <2>2. CASE \E i \in S : /\ best = [route |-> routes[i], length |-> L(i)]
                         /\ \A j \in S : L(j) < L(i) \/ (L(j) = L(i) /\ j >= i)
    <3>1. PICK i \in S : /\ best = [route |-> routes[i], length |-> L(i)]
                        /\ \A j \in S : L(j) < L(i) \/ (L(j) = L(i) /\ j >= i)
      BY <2>2
    <3>2. best.length = L(i) /\ i \in 1..n
      BY <1>5, <3>1
    <3>3. CASE Matches(routes[n + 1], path) /\ L(n + 1) > L(i)
      <4>1. n + 1 \in T /\ new = [route |-> routes[n + 1], length |-> L(n + 1)]
        BY <1>2, <1>4, <3>2, <3>3
      <4>2. \A j \in T : L(j) < L(n + 1) \/ (L(j) = L(n + 1) /\ j >= n + 1)
        BY <1>1, <1>2, <1>5, <3>1, <3>3
      <4> QED BY <4>1, <4>2
    <3>4. CASE ~(Matches(routes[n + 1], path) /\ L(n + 1) > L(i))
      <4>1. i \in T /\ new = [route |-> routes[i], length |-> L(i)]
        BY <1>2, <1>4, <3>1, <3>2, <3>4
      <4>2. \A j \in T : L(j) < L(i) \/ (L(j) = L(i) /\ j >= i)
        <5>1. ASSUME NEW j \in T, j \in S
              PROVE  L(j) < L(i) \/ (L(j) = L(i) /\ j >= i)
          BY <3>1, <5>1
        <5>2. ASSUME NEW j \in T, j \notin S
              PROVE  L(j) < L(i) \/ (L(j) = L(i) /\ j >= i)
          <6>1. j = n + 1 /\ ~(L(n + 1) > L(i))
            BY <1>2, <3>4, <5>2
          <6>2. L(i) \in Nat /\ L(n + 1) \in Nat /\ i <= n /\ i \in Nat
            BY <1>1, <3>2
          <6> QED BY <6>1, <6>2
        <5> QED BY <5>1, <5>2
      <4> QED BY <4>1, <4>2
    <3> QED BY <3>3, <3>4
  <2> QED BY <1>3, <2>1, <2>2
<1> QED BY <1>6 DEF T, L, new, IsLongest

\* The route of a path is the longest that matches it (_findRoute).
LEMMA FindRouteIsLongest ==
  ASSUME NEW path
  PROVE  \E best : IsLongest(best, Len(routes), path) /\ _findRoute(path) = best.route
<1> DEFINE f == Found(path)
           S == {n \in Nat : n <= Len(routes) => IsLongest(f[n], n, path)}
<1>1. \A i \in 0..Len(routes) :
        f[i] = IF i = 0 THEN First ELSE Better(f[i - 1], i, path)
  <2>1. f = [i \in 0..Len(routes) |-> IF i = 0 THEN First ELSE Better(f[i - 1], i, path)]
    BY FoundIs
  <2> HIDE DEF f
  <2> QED BY <2>1
<1> HIDE DEF f
<1>2. Len(routes) \in Nat
  BY RoutesAssumption
<1>3. 0 \in S
  <2>1. f[0] = First
    BY <1>1, <1>2
  <2> QED BY <2>1 DEF IsLongest
<1>4. ASSUME NEW n \in Nat, n \in S PROVE n + 1 \in S
  <2> SUFFICES ASSUME n + 1 <= Len(routes) PROVE IsLongest(f[n + 1], n + 1, path)
    OBVIOUS
  <2>1. IsLongest(f[n], n, path)
    BY <1>2, <1>4
  <2>2. f[n + 1] = Better(f[n], n + 1, path)
    BY <1>1, <1>2
  <2>3. IsLongest(Better(f[n], n + 1, path), n + 1, path)
    BY <2>1, LongestStep
  <2> QED BY <2>2, <2>3
<1>5. \A n \in Nat : n \in S
  <2> HIDE DEF S
  <2> QED BY ONLY <1>3, <1>4, AllNaturals
<1>6. IsLongest(f[Len(routes)], Len(routes), path)
  BY <1>2, <1>5
<1> QED BY <1>6 DEF f, _findRoute

\* What is found is one of the locations (_findRoute).
LEMMA FindRouteFinds ==
  ASSUME NEW path
  PROVE  _findRoute(path) \in Routes /\ _findRoute(path) # NoRoute
<1>1. PICK best : IsLongest(best, Len(routes), path) /\ _findRoute(path) = best.route
  BY FindRouteIsLongest
<1>2. \E i \in 1..Len(routes) : best.route = routes[i]
  BY <1>1, RoutesAssumption DEF IsLongest, First
<1> QED BY <1>1, <1>2, RoutesAssumption DEF Routes, ToSet

----------------------------------------------------------------------------

\* A lookup leaves the cache coherent (setCorrectRoute).
LEMMA CorrectIsCoherent ==
  ASSUME NEW path, CacheIsCoherent, setCorrectRoute(path)
  PROVE  CacheIsCoherent'
<1>1. config' = IF config.path = path THEN config
                ELSE [path |-> path, route |-> _findRoute(path)]
  BY DEF setCorrectRoute, Correct
<1>2. CASE config.path = path
  BY <1>1, <1>2 DEF CacheIsCoherent
<1>3. CASE config.path # path
  <2>1. config'.path = path /\ config'.route = _findRoute(path)
    BY <1>1, <1>3
  <2>2. config'.route = _findRoute(config'.path)
    BY <2>1
  <2> QED BY <2>2 DEF CacheIsCoherent
<1> QED BY <1>2, <1>3

\* Whoever asks for the current route gets the route of the path that was set
\* last, or none when none was ever set (setCorrectRoute, getCurentRoute).
THEOREM CacheStaysCoherent == ConfigSpec => []CacheIsCoherent
<1>1. ConfigInit => CacheIsCoherent
  BY DEF ConfigInit, CacheIsCoherent
<1>2. CacheIsCoherent /\ [ConfigNext]_config => CacheIsCoherent'
  <2> SUFFICES ASSUME CacheIsCoherent, [ConfigNext]_config
               PROVE  CacheIsCoherent'
    OBVIOUS
  <2>1. CASE ConfigNext
    BY <2>1, CorrectIsCoherent DEF ConfigNext
  <2>2. CASE UNCHANGED config
    BY <2>2 DEF CacheIsCoherent
  <2> QED BY <2>1, <2>2
<1> QED BY <1>1, <1>2, PTL DEF ConfigSpec

----------------------------------------------------------------------------
\* The provers do not know that a slash is a string.
Chars == STRING \cup {"/", "."}

\* Slash is a path of one character, and paths are paths of these characters.

LEMMA SlashIsAPath ==
  /\ Slash \in Seq(Chars) /\ Len(Slash) = 1 /\ Slash[1] = "/"
  /\ \A path \in Seq(STRING) : path \in Seq(Chars)
<1>1. "/" \in Chars
  BY DEF Chars
<1>2. ASSUME NEW S, NEW x \in S
      PROVE  <<x>> \in Seq(S) /\ Len(<<x>>) = 1 /\ <<x>>[1] = x
  OBVIOUS
<1>3. <<"/">> \in Seq(Chars) /\ Len(<<"/">>) = 1 /\ <<"/">>[1] = "/"
  BY <1>1, <1>2
<1>4. ASSUME NEW path \in Seq(STRING) PROVE path \in Seq(Chars)
  <2>1. \A i \in 1..Len(path) : path[i] \in STRING
    OBVIOUS
  <2> QED BY <2>1 DEF Chars
<1> QED BY <1>3, <1>4 DEF Slash

\* To match is to be the path, or to be followed by a slash in it, or to be the
\* slash it begins with (_findRoute).
LEMMA MatchesAre ==
  ASSUME NEW i \in 1..Len(routes), NEW path \in Seq(STRING)
  PROVE  Matches(routes[i], path) <=>
           \/ routes[i].path = path
           \/ IsPrefix(routes[i].path \o Slash, path)
           \/ routes[i].path = Slash /\ IsPrefix(Slash, path)
<1> DEFINE r == routes[i].path
           n == Len(r)
<1>1. r \in Seq(Chars) /\ n \in Nat /\ path \in Seq(Chars)
  BY RoutesAssumption, SlashIsAPath
<1>2. Slash \in Seq(Chars) /\ Len(Slash) = 1 /\ Slash[1] = "/"
  BY SlashIsAPath
<1> HIDE DEF r
<1>3. r \o Slash \in Seq(Chars) /\ Len(r \o Slash) = n + 1 /\ (r \o Slash)[n + 1] = "/"
  <2> HIDE DEF n
  <2>1. n + 1 = Len(r) + 1 /\ Len(r) \in Nat
    BY <1>1 DEF n
  <2>2. \A s \in Seq(Chars), t \in Seq(Chars) :
          s \o t \in Seq(Chars) /\ Len(s \o t) = Len(s) + Len(t)
            /\ \A k \in 1..Len(s \o t) :
                 (s \o t)[k] = IF k <= Len(s) THEN s[k] ELSE t[k - Len(s)]
    BY ConcatProperties
  <2>3. r \o Slash \in Seq(Chars) /\ Len(r \o Slash) = Len(r) + Len(Slash)
    BY ONLY <1>1, <1>2, <2>2, Zenon
  <2>4. (r \o Slash)[Len(r) + 1] = Slash[1]
    <3> DEFINE k == Len(r) + 1
    <3>1. k \in 1..Len(r \o Slash) /\ ~(k <= Len(r)) /\ k - Len(r) = 1
      BY <1>2, <2>1, <2>3
    <3> HIDE DEF k
    <3>2. (r \o Slash)[k] = Slash[k - Len(r)]
      BY <1>1, <1>2, <2>2, <3>1
    <3>3. (r \o Slash)[k] = Slash[1]
      BY <3>1, <3>2
    <3> QED BY <3>3 DEF k
  <2> QED BY <1>2, <2>1, <2>3, <2>4
<1>4. \A k \in 1..n : (r \o Slash)[k] = r[k]
  BY <1>1, <1>2
<1>5. IsPrefix(r \o Slash, path) <=>
        n + 1 <= Len(path) /\ path[n + 1] = "/" /\ \A k \in 1..n : path[k] = r[k]
  BY <1>1, <1>3, <1>4 DEF IsPrefix
<1>6. IsPrefix(Slash, path) <=> 1 <= Len(path) /\ path[1] = "/"
  BY <1>2 DEF IsPrefix
<1>7. (n <= Len(path) /\ SubSeq(path, 1, n) = r) <=>
        n <= Len(path) /\ \A k \in 1..n : path[k] = r[k]
  BY <1>1
<1>8. r = path <=> n = Len(path) /\ \A k \in 1..n : path[k] = r[k]
  BY <1>1
<1>9. r = Slash <=> n = 1 /\ r[1] = "/"
  BY <1>1, <1>2
<1>10. Matches(routes[i], path) <=>
         /\ n <= Len(path) /\ SubSeq(path, 1, n) = r
         /\ Len(path) = n \/ path[n + 1] = "/" \/ r = Slash
  BY DEF Matches, r
<1> DEFINE same == \A k \in 1..n : path[k] = r[k]
<1>11. r = Slash => (same <=> path[1] = "/")
  <2> SUFFICES ASSUME r = Slash PROVE same <=> path[1] = "/"
    OBVIOUS
  <2>1. n = 1 /\ r[1] = "/"
    BY <1>9
  <2> HIDE DEF n
  <2>2. same <=> path[1] = r[1]
    BY <2>1
  <2> QED BY <2>1, <2>2
<1>12. Len(path) \in Nat
  OBVIOUS
<1> HIDE DEF same, n
<1>13. Matches(routes[i], path) <=>
         n <= Len(path) /\ same /\ (Len(path) = n \/ path[n + 1] = "/" \/ r = Slash)
  BY <1>7, <1>10 DEF same
<1>14. IsPrefix(r \o Slash, path) <=> n + 1 <= Len(path) /\ path[n + 1] = "/" /\ same
  BY <1>5 DEF same
<1>15. r = path <=> n = Len(path) /\ same
  BY <1>8 DEF same
<1>16. Matches(routes[i], path) =>
         r = path \/ IsPrefix(r \o Slash, path) \/ (r = Slash /\ IsPrefix(Slash, path))
  BY <1>1, <1>6, <1>9, <1>11, <1>12, <1>13, <1>14, <1>15
<1>17. r = path \/ IsPrefix(r \o Slash, path) \/ (r = Slash /\ IsPrefix(Slash, path))
         => Matches(routes[i], path)
  BY <1>1, <1>6, <1>9, <1>11, <1>12, <1>13, <1>14, <1>15
<1> QED BY <1>16, <1>17 DEF r

\* The current route is the location with the most of its path's leading segments,
\* the first of these, and never one whose last segment goes on (_findRoute).
THEOREM LongestLocationIsFound == ConfigSpec => []LongestLocationWins
<1>1. ConfigInit => config.path \in Seq(STRING)
  BY DEF ConfigInit
<1>2. config.path \in Seq(STRING) /\ [ConfigNext]_config
        => (config.path \in Seq(STRING))'
  BY RoutesAssumption DEF ConfigNext, setCorrectRoute, Correct
<1>3. CacheIsCoherent /\ config.path \in Seq(STRING) => LongestLocationWins
  <2> SUFFICES ASSUME CacheIsCoherent, config.path \in Seq(STRING),
                      config # [path |-> <<>>, route |-> NoRoute]
               PROVE  LongestLocationWins
    BY DEF LongestLocationWins
  <2> DEFINE path == config.path
             S == {i \in 1..Len(routes) : Matches(routes[i], path)}
             T == {i \in 1..Len(routes) :
                     \/ routes[i].path = path
                     \/ IsPrefix(routes[i].path \o Slash, path)
                     \/ routes[i].path = Slash /\ IsPrefix(Slash, path)}
  <2>1. config.route = _findRoute(path)
    BY DEF CacheIsCoherent
  <2>2. S = T
    BY MatchesAre
  <2>3. PICK best : IsLongest(best, Len(routes), path) /\ _findRoute(path) = best.route
    BY FindRouteIsLongest
  <2>4. \/ S = {} /\ config.route = routes[1]
        \/ \E i \in S : /\ config.route = routes[i]
                       /\ \A j \in S : \/ Len(routes[j].path) < Len(routes[i].path)
                                       \/ Len(routes[j].path) = Len(routes[i].path) /\ j >= i
    BY <2>1, <2>3 DEF IsLongest, First
  <2> HIDE DEF S
  <2>5. \/ T = {} /\ config.route = routes[1]
        \/ \E i \in T : /\ config.route = routes[i]
                       /\ \A j \in T : \/ Len(routes[j].path) < Len(routes[i].path)
                                       \/ Len(routes[j].path) = Len(routes[i].path) /\ j >= i
    BY <2>2, <2>4
  <2> QED BY <2>5 DEF LongestLocationWins
<1> QED BY <1>1, <1>2, <1>3, CacheStaysCoherent, PTL DEF ConfigSpec

----------------------------------------------------------------------------
(* Sequences of sequences, end to end.                                     *)

\* One after the other.
Cat(x, y) == x \o y

\* It is a sequence of the same set.
LEMMA CatIn ==
  ASSUME NEW S, NEW x \in Seq(S), NEW y \in Seq(S)
  PROVE  Cat(x, y) \in Seq(S)
BY ConcatProperties DEF Cat

\* Nothing is added by the empty sequence.
LEMMA CatEmpty ==
  ASSUME NEW S, NEW x \in Seq(S)
  PROVE  Cat(x, <<>>) = x /\ Cat(<<>>, x) = x
BY ConcatEmptySeq DEF Cat

\* What FlattenSeq has made after each of the sequences.
Flattens(f, s, S) ==
  /\ f \in [0..Len(s) -> Seq(S)] /\ f[0] = <<>> /\ f[Len(s)] = FlattenSeq(s)
  /\ \A k \in 0..(Len(s) - 1) : f[k + 1] = Cat(f[k], s[k + 1])

\* FlattenSeq adds one sequence after the other.
LEMMA FlattenIs ==
  ASSUME NEW S, NEW s \in Seq(Seq(S))
  PROVE  \E f : Flattens(f, s, S)
<1> DEFINE Is(f, n) == f = [i \in 1..n |-> IF i = 1 THEN s[i] ELSE Cat(f[i - 1], s[i])]
           N == {n \in Nat : \E f : Is(f, n)}
<1>0. Len(s) \in Nat /\ \A i \in 1..Len(s) : s[i] \in Seq(S)
  BY LenProperties, ElementOfSeq
<1>1. 0 \in N
  <2>1. Is([i \in 1..0 |-> s[i]], 0)
    OBVIOUS
  <2> QED BY <2>1
<1>2. ASSUME NEW n \in Nat, n \in N PROVE n + 1 \in N
  <2>1. PICK g : Is(g, n)
    BY <1>2
  <2> DEFINE f == [i \in 1..(n + 1) |->
                     IF i <= n THEN g[i] ELSE IF i = 1 THEN s[i] ELSE Cat(g[n], s[n + 1])]
  <2>2. ASSUME NEW i \in 1..(n + 1)
        PROVE  f[i] = IF i = 1 THEN s[i] ELSE Cat(f[i - 1], s[i])
    <3>1. CASE i = 1
      <4>1. n >= 1 => g[i] = s[i]
        BY <2>1, <3>1
      <4> QED BY <3>1, <4>1
    <3>2. CASE i \in 2..n
      <4>1. f[i] = g[i] /\ f[i - 1] = g[i - 1]
        BY <3>2
      <4>2. g[i] = Cat(g[i - 1], s[i])
        BY <2>1, <3>2
      <4> QED BY <3>2, <4>1, <4>2
    <3>3. CASE i = n + 1 /\ i # 1
      <4>1. f[i] = Cat(g[n], s[i]) /\ f[i - 1] = g[n]
        BY <3>3
      <4> QED BY <3>3, <4>1
    <3> QED BY <3>1, <3>2, <3>3
  <2>3. Is(f, n + 1)
    <3> HIDE DEF f
    <3>1. f = [i \in 1..(n + 1) |-> f[i]]
      BY DEF f
    <3> QED BY <2>2, <3>1
  <2> HIDE DEF f, Is
  <2>4. \E h : Is(h, n + 1)
    BY <2>3
  <2> QED BY <2>4
<1>3. \E h : Is(h, Len(s))
  <2>1. \A n \in Nat : n \in N
    <3> HIDE DEF N
    <3> QED BY ONLY <1>1, <1>2, AllNaturals
  <2> QED BY <1>0, <2>1
<1> DEFINE fl == CHOOSE h : Is(h, Len(s))
<1>4. Is(fl, Len(s))
  <2> HIDE DEF Is
  <2> QED BY <1>3
<1>5. FlattenSeq(s) = IF Len(s) = 0 THEN s ELSE fl[Len(s)]
  BY DEF FlattenSeq, Cat
<1> HIDE DEF fl
<1> DEFINE f == [k \in 0..Len(s) |-> IF k = 0 THEN <<>> ELSE fl[k]]
<1>6. \A k \in 0..(Len(s) - 1) : f[k + 1] = Cat(f[k], s[k + 1])
  <2> TAKE k \in 0..(Len(s) - 1)
  <2>1. s[k + 1] \in Seq(S) /\ k \in 0..Len(s) /\ k + 1 \in 0..Len(s) /\ k + 1 # 0
    BY <1>0
  <2>2. CASE k = 0
    <3>1. f[k] = <<>> /\ f[k + 1] = s[k + 1]
      BY <1>0, <1>4, <2>1, <2>2
    <3> HIDE DEF f
    <3>2. Cat(<<>>, s[k + 1]) = s[k + 1]
      BY ONLY <2>1, CatEmpty
    <3> QED BY <3>1, <3>2
  <2>3. CASE k # 0
    <3>1. f[k] = fl[k] /\ f[k + 1] = fl[k + 1]
      BY <2>1, <2>3
    <3>2. fl[k + 1] = Cat(fl[k], s[k + 1])
      BY <1>0, <1>4, <2>1, <2>3
    <3> HIDE DEF f
    <3> QED BY <3>1, <3>2
  <2> QED BY <2>2, <2>3
<1>7. f[0] = <<>> /\ f[Len(s)] = FlattenSeq(s) /\ f = [k \in 0..Len(s) |-> f[k]]
  BY <1>0, <1>5
<1> HIDE DEF f
<1>8. \A n \in Nat : n \in {k \in Nat : k <= Len(s) => f[k] \in Seq(S)}
  <2> DEFINE T == {k \in Nat : k <= Len(s) => f[k] \in Seq(S)}
  <2>1. 0 \in T
    BY <1>7, EmptySeq
  <2>2. ASSUME NEW n \in Nat, n \in T PROVE n + 1 \in T
    <3> SUFFICES ASSUME n + 1 <= Len(s) PROVE f[n + 1] \in Seq(S)
      OBVIOUS
    <3>1. f[n] \in Seq(S) /\ s[n + 1] \in Seq(S) /\ f[n + 1] = Cat(f[n], s[n + 1])
      BY <1>0, <1>6, <2>2
    <3> QED BY <3>1, CatIn
  <2> HIDE DEF T
  <2>3. \A n \in Nat : n \in T
    BY ONLY <2>1, <2>2, AllNaturals
  <2> QED BY <2>3 DEF T
<1>9. f \in [0..Len(s) -> Seq(S)]
  BY <1>0, <1>7, <1>8
<1> QED BY <1>6, <1>7, <1>9 DEF Flattens

----------------------------------------------------------------------------
(* Numbers one by one, some of them kept.                                  *)

\* Those of the first n numbers that are in F, in order.
Keep(n, F) == FlattenSeq([i \in 1..n |-> IF i \in F THEN <<i>> ELSE <<>>])

\* What is kept of none, and of one more (FlattenSeq).
LEMMA KeepStep ==
  ASSUME NEW F
  PROVE  /\ Keep(0, F) = <<>>
         /\ \A n \in Nat :
              /\ Keep(n, F) \in Seq(Nat)
              /\ Keep(n + 1, F) = IF n + 1 \in F THEN Append(Keep(n, F), n + 1)
                                                  ELSE Keep(n, F)
<1> DEFINE s(n) == [i \in 1..n |-> IF i \in F THEN <<i>> ELSE <<>>]
           Is(f, n) == /\ f \in [0..n -> Seq(Nat)] /\ f[0] = <<>> /\ f[n] = Keep(n, F)
                       /\ \A k \in 0..(n - 1) : f[k + 1] = Cat(f[k], s(n)[k + 1])
<1>1. ASSUME NEW n \in Nat PROVE \E f : Is(f, n)
  <2>1. \A i \in 1..n : <<i>> \in Seq(Nat)
    OBVIOUS
  <2>2. s(n) \in Seq(Seq(Nat)) /\ Len(s(n)) = n
    BY <2>1
  <2>3. Keep(n, F) = FlattenSeq(s(n))
    BY DEF Keep
  <2> HIDE DEF s
  <2>4. PICK t \in Seq(Seq(Nat)) : t = s(n)
    BY <2>2
  <2>5. PICK f : Flattens(f, t, Nat)
    BY FlattenIs
  <2>6. Is(f, n)
    BY <2>2, <2>3, <2>4, <2>5 DEF Flattens
  <2> HIDE DEF Is
  <2> QED BY <2>6
<1>2. \A n \in Nat : Keep(n, F) \in Seq(Nat)
  <2> TAKE n \in Nat
  <2> HIDE DEF Is
  <2>1. PICK f : Is(f, n)
    BY <1>1
  <2> HIDE DEF s
  <2>2. f \in [0..n -> Seq(Nat)] /\ f[n] = Keep(n, F)
    BY <2>1 DEF Is
  <2> QED BY <2>2
<1>3. Keep(0, F) = <<>>
  <2> HIDE DEF Is
  <2>1. PICK f : Is(f, 0)
    BY <1>1
  <2> HIDE DEF s
  <2> QED BY <2>1 DEF Is
<1>4. ASSUME NEW n \in Nat
      PROVE  Keep(n + 1, F) = IF n + 1 \in F THEN Append(Keep(n, F), n + 1)
                                              ELSE Keep(n, F)
  <2>1. PICK f : Is(f, n)
    <3> HIDE DEF Is
    <3> QED BY <1>1
  <2>2. PICK g : Is(g, n + 1)
    <3> HIDE DEF Is
    <3>1. n + 1 \in Nat
      OBVIOUS
    <3> QED BY ONLY <1>1, <3>1
  <2> DEFINE N == {k \in Nat : k <= n => f[k] = g[k]}
  <2>3. \A k \in 0..(n - 1) : s(n)[k + 1] = s(n + 1)[k + 1]
    OBVIOUS
  <2>4. 0 \in N
    BY <2>1, <2>2
  <2>5. ASSUME NEW k \in Nat, k \in N PROVE k + 1 \in N
    <3> SUFFICES ASSUME k + 1 <= n PROVE f[k + 1] = g[k + 1]
      OBVIOUS
    <3> HIDE DEF s
    <3>1. f[k] = g[k] /\ k \in 0..(n - 1) /\ k \in 0..(n + 1 - 1)
      BY <2>5
    <3> QED BY <2>1, <2>2, <2>3, <3>1
  <2>6. \A k \in Nat : k \in N
    <3> HIDE DEF N
    <3> QED BY ONLY <2>4, <2>5, AllNaturals
  <2>7. g[n] = Keep(n, F)
    BY <2>1, <2>6
  <2>8. g[n + 1] = Cat(g[n], s(n + 1)[n + 1])
    <3> HIDE DEF s
    <3>1. n \in 0..(n + 1 - 1)
      OBVIOUS
    <3> QED BY <2>2, <3>1
  <2>9. s(n + 1)[n + 1] = IF n + 1 \in F THEN <<n + 1>> ELSE <<>>
    OBVIOUS
  <2> HIDE DEF s
  <2>10. Keep(n + 1, F) = Cat(Keep(n, F), IF n + 1 \in F THEN <<n + 1>> ELSE <<>>)
    BY <2>2, <2>7, <2>8, <2>9
  <2>11. Keep(n, F) \in Seq(Nat)
    BY <1>2
  <2>12. ASSUME NEW x \in Seq(Nat), NEW y \in Nat PROVE Cat(x, <<y>>) = Append(x, y)
    BY AppendIsConcat DEF Cat
  <2> HIDE DEF N
  <2>13. CASE n + 1 \in F
    BY <2>10, <2>11, <2>12, <2>13
  <2>14. CASE n + 1 \notin F
    <3>1. Cat(Keep(n, F), <<>>) = Keep(n, F)
      BY ONLY <2>11, CatEmpty
    <3> QED BY <2>10, <2>14, <3>1
  <2> QED BY <2>13, <2>14
<1> QED BY <1>2, <1>3, <1>4

\* What is kept is among the first n, and in F.
LEMMA KeepIn ==
  ASSUME NEW F, NEW n \in Nat
  PROVE  \A k \in 1..Len(Keep(n, F)) : Keep(n, F)[k] \in 1..n /\ Keep(n, F)[k] \in F
<1> DEFINE N == {m \in Nat : \A k \in 1..Len(Keep(m, F)) :
                                Keep(m, F)[k] \in 1..m /\ Keep(m, F)[k] \in F}
<1>1. 0 \in N
  BY KeepStep
<1>2. ASSUME NEW m \in Nat, m \in N PROVE m + 1 \in N
  <2> DEFINE s == Keep(m, F)
             t == Keep(m + 1, F)
  <2>1. s \in Seq(Nat) /\ t = IF m + 1 \in F THEN Append(s, m + 1) ELSE s
    BY KeepStep
  <2>2. \A k \in 1..Len(s) : s[k] \in 1..m /\ s[k] \in F
    BY <1>2
  <2> HIDE DEF s, t
  <2>3. \A k \in 1..Len(t) : t[k] \in 1..(m + 1) /\ t[k] \in F
    BY <2>1, <2>2
  <2> QED BY <2>3 DEF t
<1>3. \A m \in Nat : m \in N
  <2> HIDE DEF N
  <2> QED BY ONLY <1>1, <1>2, AllNaturals
<1> QED BY <1>3

\* Only what F has of the first n tells.
LEMMA KeepSame ==
  ASSUME NEW F, NEW G, NEW n \in Nat, \A i \in 1..n : i \in F <=> i \in G
  PROVE  Keep(n, F) = Keep(n, G)
BY DEF Keep

\* c is a and what is in b, n greater.
Then(a, b, c, n) ==
  /\ Len(c) = Len(a) + Len(b)
  /\ \A k \in 1..Len(a) : c[k] = a[k]
  /\ \A k \in 1..Len(b) : c[Len(a) + k] = b[k] + n

\* What is kept after the first n, of numbers n greater.
LEMMA KeepMore ==
  ASSUME NEW F, NEW G, NEW n \in Nat, NEW m \in Nat,
         \A j \in 1..m : j \in G <=> n + j \in F
  PROVE  Then(Keep(n, F), Keep(m, G), Keep(n + m, F), n)
<1> DEFINE Ok(a, b, c) == /\ Len(c) = Len(a) + Len(b)
                          /\ \A k \in 1..Len(a) : c[k] = a[k]
                          /\ \A k \in 1..Len(b) : c[Len(a) + k] = b[k] + n
           N == {i \in Nat : i <= m => Ok(Keep(n, F), Keep(i, G), Keep(n + i, F))}
<1>1. 0 \in N
  <2>1. Keep(0, G) = <<>> /\ n + 0 = n
    BY KeepStep
  <2>2. PICK a \in Seq(Nat) : a = Keep(n, F)
    BY KeepStep
  <2> QED BY <2>1, <2>2
<1>2. ASSUME NEW i \in Nat, i \in N PROVE i + 1 \in N
  <2> SUFFICES ASSUME i + 1 <= m
               PROVE  Ok(Keep(n, F), Keep(i + 1, G), Keep(n + (i + 1), F))
    OBVIOUS
  <2>1. PICK a \in Seq(Nat) : a = Keep(n, F)
    BY KeepStep
  <2>2. PICK b \in Seq(Nat) : b = Keep(i, G)
    BY KeepStep
  <2>3. PICK c \in Seq(Nat) : c = Keep(n + i, F)
    <3>1. n + i \in Nat
      OBVIOUS
    <3> QED BY ONLY <3>1, KeepStep
  <2>4. Ok(a, b, c)
    BY <1>2, <2>1, <2>2, <2>3
  <2>5. Keep(i + 1, G) = IF i + 1 \in G THEN Append(b, i + 1) ELSE b
    BY <2>2, KeepStep
  <2>6. n + (i + 1) = n + i + 1 /\ (i + 1 \in G <=> n + i + 1 \in F)
    BY SMT
  <2>7. Keep(n + i + 1, F) = IF n + i + 1 \in F THEN Append(c, n + i + 1) ELSE c
    <3>1. n + i \in Nat
      OBVIOUS
    <3> QED BY ONLY <2>3, <3>1, KeepStep
  <2>8. Ok(a, Append(b, i + 1), Append(c, n + i + 1))
    <3>1. Len(Append(b, i + 1)) = Len(b) + 1 /\ Len(Append(c, n + i + 1)) = Len(c) + 1
      OBVIOUS
    <3>2. \A k \in 1..Len(a) : Append(c, n + i + 1)[k] = a[k]
      BY <2>4
    <3>3. ASSUME NEW k \in 1..(Len(b) + 1)
          PROVE  Append(c, n + i + 1)[Len(a) + k] = Append(b, i + 1)[k] + n
      <4>1. CASE k <= Len(b)
        <5>1. k \in 1..Len(b) /\ Len(a) + k \in 1..Len(c)
          BY <2>4, <4>1
        <5>2. Append(c, n + i + 1)[Len(a) + k] = c[Len(a) + k] /\ Append(b, i + 1)[k] = b[k]
          BY <5>1
        <5> QED BY <2>4, <5>1, <5>2
      <4>2. CASE ~(k <= Len(b))
        <5>0. k = Len(b) + 1
          BY <4>2
        <5>1. Len(a) + k = Len(c) + 1
          BY <2>4, <5>0
        <5>2. Append(c, n + i + 1)[Len(c) + 1] = n + i + 1
              /\ Append(b, i + 1)[Len(b) + 1] = i + 1
          OBVIOUS
        <5>3. n + i + 1 = (i + 1) + n
          OBVIOUS
        <5>4. Append(c, n + i + 1)[Len(a) + k] = n + i + 1
          BY <5>1, <5>2
        <5>5. Append(b, i + 1)[k] = i + 1
          BY <5>0, <5>2
        <5> QED BY ONLY <5>3, <5>4, <5>5
      <4> QED BY <4>1, <4>2
    <3> DEFINE b2 == Append(b, i + 1)
               c2 == Append(c, n + i + 1)
    <3>4. /\ Len(b2) = Len(b) + 1 /\ Len(c2) = Len(c) + 1 /\ Len(c) = Len(a) + Len(b)
          /\ Len(a) \in Nat /\ Len(b) \in Nat /\ \A k \in 1..Len(a) : c2[k] = a[k]
      BY <2>4, <3>1, <3>2
    <3>5. \A k \in 1..(Len(b) + 1) : c2[Len(a) + k] = b2[k] + n
      BY <3>3
    <3> HIDE DEF b2, c2
    <3>6. Ok(a, b2, c2)
      BY ONLY <3>4, <3>5
    <3> QED BY <3>6 DEF b2, c2
  <2> HIDE DEF Ok
  <2> QED BY <2>1, <2>4, <2>5, <2>6, <2>7, <2>8
<1>3. \A i \in Nat : i \in N
  <2> HIDE DEF N
  <2> QED BY ONLY <1>1, <1>2, AllNaturals
<1>4. Ok(Keep(n, F), Keep(m, G), Keep(n + m, F))
  <2> HIDE DEF Ok
  <2> QED BY <1>3
<1> QED BY <1>4 DEF Then

\* Induction over sequences, for the set of those that have a property.
LEMMA AllSequences ==
  ASSUME NEW S, NEW T, <<>> \in T, \A s \in Seq(S), x \in S : s \in T => Append(s, x) \in T
  PROVE  \A s \in Seq(S) : s \in T
<1> DEFINE N == {n \in Nat : \A s \in Seq(S) : Len(s) = n => s \in T}
<1>1. 0 \in N
  BY EmptySeq
<1>2. ASSUME NEW n \in Nat, n \in N PROVE n + 1 \in N
  <2> SUFFICES ASSUME NEW s \in Seq(S), Len(s) = n + 1 PROVE s \in T
    OBVIOUS
  <2>1. PICK t \in Seq(S), x \in S : s = Append(t, x)
    <3>1. s # <<>>
      OBVIOUS
    <3> QED BY <3>1, SequenceEmptyOrAppend
  <2>2. Len(t) = n
    BY <2>1
  <2> QED BY <1>2, <2>1, <2>2
<1>3. \A n \in Nat : n \in N
  <2> HIDE DEF N
  <2> QED BY ONLY <1>1, <1>2, AllNaturals
<1> QED BY <1>3

----------------------------------------------------------------------------
(* The names in a path (Segments).                                         *)

NameAt(p, i) == p[i] # "/" /\ ~(p[i] = "." /\ Starts(p, i) /\ Ends(p, i))
Begins(p) == {i \in 1..Len(p) : NameAt(p, i) /\ Starts(p, i)}
Finishes(p) == {i \in 1..Len(p) : NameAt(p, i) /\ Ends(p, i)}
Firsts(p) == Keep(Len(p), Begins(p))
Lasts(p) == Keep(Len(p), Finishes(p))

\* A name is from where it begins to where it ends.
LEMMA SegmentsAre ==
  ASSUME NEW p
  PROVE  Segments(p) = [n \in 1..Len(Firsts(p)) |-> SubSeq(p, Firsts(p)[n], Lasts(p)[n])]
<1> DEFINE names(i) == p[i] # "/" /\ ~(p[i] = "." /\ Starts(p, i) /\ Ends(p, i))
           first == Positions(p, LAMBDA i : names(i) /\ Starts(p, i))
           last == Positions(p, LAMBDA i : names(i) /\ Ends(p, i))
<1>1. Segments(p) = [n \in 1..Len(first) |-> SubSeq(p, first[n], last[n])]
  BY DEF Segments
<1>2. \A i : names(i) <=> NameAt(p, i)
  BY DEF NameAt
<1>3. first = Firsts(p)
  <2> HIDE DEF names
  <2>1. [i \in 1..Len(p) |-> IF i \in Begins(p) THEN <<i>> ELSE <<>>]
          = [i \in 1..Len(p) |-> IF names(i) /\ Starts(p, i) THEN <<i>> ELSE <<>>]
    BY <1>2 DEF Begins
  <2> QED BY <2>1 DEF Positions, Firsts, Keep
<1>4. last = Lasts(p)
  <2> HIDE DEF names
  <2>1. [i \in 1..Len(p) |-> IF i \in Finishes(p) THEN <<i>> ELSE <<>>]
          = [i \in 1..Len(p) |-> IF names(i) /\ Ends(p, i) THEN <<i>> ELSE <<>>]
    BY <1>2 DEF Finishes
  <2> QED BY <2>1 DEF Positions, Lasts, Keep
<1> HIDE DEF first, last
<1> QED BY <1>1, <1>3, <1>4

\* Every name that begins ends.
LEMMA AsManyLasts ==
  ASSUME NEW p \in Seq(Chars)
  PROVE  Len(Firsts(p)) = Len(Lasts(p))
<1> DEFINE n == Len(p)
           Within(k) == k >= 1 /\ NameAt(p, k) /\ ~Ends(p, k)
           Ok(k) == Len(Keep(k, Begins(p)))
                      = Len(Keep(k, Finishes(p))) + (IF Within(k) THEN 1 ELSE 0)
           N == {k \in Nat : k <= n => Ok(k)}
<1>0. n \in Nat
  OBVIOUS
<1>1. 0 \in N
  <2>1. Keep(0, Begins(p)) = <<>> /\ Keep(0, Finishes(p)) = <<>>
    BY KeepStep
  <2> QED BY <2>1
<1>2. ASSUME NEW k \in Nat, k \in N PROVE k + 1 \in N
  <2> SUFFICES ASSUME k + 1 <= n PROVE Ok(k + 1)
    OBVIOUS
  <2>1. Ok(k) /\ k + 1 \in 1..n
    BY <1>0, <1>2
  <2>2. k + 1 \in Begins(p) <=> NameAt(p, k + 1) /\ Starts(p, k + 1)
    BY <2>1 DEF Begins
  <2>3. k + 1 \in Finishes(p) <=> NameAt(p, k + 1) /\ Ends(p, k + 1)
    BY <2>1 DEF Finishes
  <2>4. Len(Keep(k + 1, Begins(p)))
          = Len(Keep(k, Begins(p))) + (IF k + 1 \in Begins(p) THEN 1 ELSE 0)
    <3>1. Keep(k + 1, Begins(p)) = IF k + 1 \in Begins(p)
            THEN Append(Keep(k, Begins(p)), k + 1) ELSE Keep(k, Begins(p))
      BY KeepStep
    <3>2. PICK s \in Seq(Nat) : s = Keep(k, Begins(p))
      BY KeepStep
    <3>3. Len(Append(s, k + 1)) = Len(s) + 1 /\ Len(s) = Len(s) + 0
      OBVIOUS
    <3> QED BY ONLY <3>1, <3>2, <3>3
  <2>5. Len(Keep(k + 1, Finishes(p)))
          = Len(Keep(k, Finishes(p))) + (IF k + 1 \in Finishes(p) THEN 1 ELSE 0)
    <3>1. Keep(k + 1, Finishes(p)) = IF k + 1 \in Finishes(p)
            THEN Append(Keep(k, Finishes(p)), k + 1) ELSE Keep(k, Finishes(p))
      BY KeepStep
    <3>2. PICK s \in Seq(Nat) : s = Keep(k, Finishes(p))
      BY KeepStep
    <3>3. Len(Append(s, k + 1)) = Len(s) + 1 /\ Len(s) = Len(s) + 0
      OBVIOUS
    <3> QED BY ONLY <3>1, <3>2, <3>3
  <2>6. NameAt(p, k + 1) => (Starts(p, k + 1) <=> ~Within(k))
    <3> SUFFICES ASSUME NameAt(p, k + 1) PROVE Starts(p, k + 1) <=> ~Within(k)
      OBVIOUS
    <3>1. CASE k = 0
      BY <3>1 DEF Starts
    <3>2. CASE k # 0
      <4>1. p[k + 1] # "/" /\ k + 1 - 1 = k /\ k # n
        BY <2>1 DEF NameAt
      <4>2. ~Ends(p, k)
        BY <4>1 DEF Ends
      <4>3. Starts(p, k + 1) <=> p[k] = "/"
        BY <3>2, <4>1 DEF Starts
      <4>4. NameAt(p, k) <=> p[k] # "/"
        BY <4>2 DEF NameAt
      <4> QED BY <3>2, <4>2, <4>3, <4>4
    <3> QED BY <3>1, <3>2
  <2>7. ~NameAt(p, k + 1) => ~Within(k)
    <3> SUFFICES ASSUME ~NameAt(p, k + 1), k >= 1, NameAt(p, k) PROVE Ends(p, k)
      OBVIOUS
    <3>1. CASE p[k + 1] = "/"
      BY <3>1 DEF Ends
    <3>2. CASE p[k + 1] # "/"
      <4>1. Starts(p, k + 1)
        BY <3>2 DEF NameAt
      <4>2. p[k] = "/"
        BY <4>1 DEF Starts
      <4> QED BY <4>2 DEF NameAt
    <3> QED BY <3>1, <3>2
  <2> DEFINE a == Len(Keep(k, Begins(p)))
             b == Len(Keep(k, Finishes(p)))
  <2>8. a \in Nat /\ b \in Nat
    BY KeepStep
  <2>9. a = b + (IF Within(k) THEN 1 ELSE 0)
    BY <2>1
  <2>10. Within(k + 1) <=> NameAt(p, k + 1) /\ ~Ends(p, k + 1)
    OBVIOUS
  <2> DEFINE w == Within(k)
             w2 == Within(k + 1)
  <2>11. Len(Keep(k + 1, Begins(p))) = a + (IF k + 1 \in Begins(p) THEN 1 ELSE 0)
    BY <2>4
  <2>12. Len(Keep(k + 1, Finishes(p))) = b + (IF k + 1 \in Finishes(p) THEN 1 ELSE 0)
    BY <2>5
  <2> SUFFICES Len(Keep(k + 1, Begins(p)))
                 = Len(Keep(k + 1, Finishes(p))) + (IF w2 THEN 1 ELSE 0)
    OBVIOUS
  <2>13. (NameAt(p, k + 1) => (Starts(p, k + 1) <=> ~w)) /\ (~NameAt(p, k + 1) => ~w)
    BY <2>6, <2>7
  <2>14. a = b + (IF w THEN 1 ELSE 0)
    BY <2>9
  <2>15. w2 <=> NameAt(p, k + 1) /\ ~Ends(p, k + 1)
    BY <2>10
  <2> HIDE DEF a, b, w, w2
  <2> QED BY <2>2, <2>3, <2>8, <2>11, <2>12, <2>13, <2>14, <2>15
<1>3. \A k \in Nat : k \in N
  <2> HIDE DEF N
  <2> QED BY ONLY <1>1, <1>2, AllNaturals
<1>4. Ok(n)
  <2> HIDE DEF Ok
  <2> QED BY <1>0, <1>3
<1>5. ~Within(n)
  BY DEF Ends
<1>6. Len(Keep(n, Begins(p))) \in Nat /\ Len(Keep(n, Finishes(p))) \in Nat
  BY <1>0, KeepStep
<1> QED BY <1>4, <1>5, <1>6 DEF Firsts, Lasts

\* What p \o Slash \o q is, character by character.
LEMMA WithASlash ==
  ASSUME NEW p \in Seq(Chars), NEW q \in Seq(Chars)
  PROVE  LET w == p \o Slash \o q IN
         /\ w \in Seq(Chars) /\ Len(w) = Len(p) + 1 + Len(q)
         /\ \A i \in 1..Len(p) : w[i] = p[i]
         /\ w[Len(p) + 1] = "/"
         /\ \A i \in 1..Len(q) : w[Len(p) + 1 + i] = q[i]
<1>1. Slash \in Seq(Chars) /\ Len(Slash) = 1 /\ Slash[1] = "/"
  BY SlashIsAPath
<1>2. PICK s \in Seq(Chars) : s = Slash
  BY <1>1
<1>3. PICK v \in Seq(Chars) : v = p \o s
  BY ConcatProperties
<1>4. /\ Len(v) = Len(p) + 1 /\ v[Len(p) + 1] = "/"
      /\ \A i \in 1..Len(p) : v[i] = p[i]
  <2>0. Len(s) = 1 /\ Len(p) \in Nat
    BY <1>1, <1>2
  <2>1. Len(v) = Len(p) + 1 /\ \A i \in 1..Len(p) : v[i] = p[i]
    <3>1. Len(v) = Len(p) + 1
      <4>1. Len(p \o s) = Len(p) + Len(s)
        BY ConcatProperties
      <4> QED BY <1>3, <2>0, <4>1
    <3>2. \A i \in 1..(Len(p) + 1) : v[i] = IF i <= Len(p) THEN p[i] ELSE s[i - Len(p)]
      BY <1>3, <2>0, ConcatProperties
    <3> QED BY ONLY <2>0, <3>1, <3>2
  <2>2. v[Len(p) + 1] = s[1]
    <3>1. Len(p) + 1 \in 1..(Len(p) + Len(s)) /\ ~(Len(p) + 1 <= Len(p))
          /\ Len(p) + 1 - Len(p) = 1
      BY <2>0
    <3>2. \A i \in 1..(Len(p) + Len(s)) :
            (p \o s)[i] = IF i <= Len(p) THEN p[i] ELSE s[i - Len(p)]
      BY ConcatProperties
    <3> QED BY <1>3, <3>1, <3>2
  <2> QED BY <1>1, <1>2, <2>1, <2>2
<1>5. PICK w \in Seq(Chars) : w = v \o q
  BY ConcatProperties
<1>6. /\ Len(w) = Len(v) + Len(q) /\ \A i \in 1..Len(v) : w[i] = v[i]
      /\ \A i \in 1..Len(q) : w[Len(v) + i] = q[i]
  <2>1. Len(w) = Len(v) + Len(q) /\ Len(v) \in Nat /\ Len(q) \in Nat
    BY <1>5, ConcatProperties
  <2>2. \A i \in 1..(Len(v) + Len(q)) : w[i] = IF i <= Len(v) THEN v[i] ELSE q[i - Len(v)]
    BY <1>5, ConcatProperties
  <2>3. \A i \in 1..Len(q) : Len(v) + i \in 1..(Len(v) + Len(q)) /\ ~(Len(v) + i <= Len(v))
                             /\ Len(v) + i - Len(v) = i
    BY <2>1
  <2>4. \A i \in 1..Len(v) : i \in 1..(Len(v) + Len(q)) /\ i <= Len(v)
    BY <2>1
  <2> QED BY ONLY <2>1, <2>2, <2>3, <2>4
<1>7. Len(p) + 1 \in 1..Len(v) /\ \A i \in 1..Len(p) : i \in 1..Len(v)
  BY <1>4
<1>8. /\ Len(w) = Len(p) + 1 + Len(q)
      /\ \A i \in 1..Len(p) : w[i] = p[i]
      /\ w[Len(p) + 1] = "/"
      /\ \A i \in 1..Len(q) : w[Len(p) + 1 + i] = q[i]
  BY <1>4, <1>6, <1>7
<1>9. w = p \o Slash \o q
  BY <1>2, <1>3, <1>5
<1> QED BY <1>8, <1>9

\* Where names begin and end in p \o Slash \o q.
LEMMA NamesWithASlash ==
  ASSUME NEW p \in Seq(Chars), NEW q \in Seq(Chars), NEW w, w = p \o Slash \o q
  PROVE  /\ \A i \in 1..Len(p) : /\ i \in Begins(p) <=> i \in Begins(w)
                                 /\ i \in Finishes(p) <=> i \in Finishes(w)
         /\ Len(p) + 1 \notin Begins(w) \cup Finishes(w)
         /\ \A i \in 1..Len(q) :
              /\ i \in Begins(q) <=> Len(p) + 1 + i \in Begins(w)
              /\ i \in Finishes(q) <=> Len(p) + 1 + i \in Finishes(w)
<1> DEFINE n == Len(p)
           m == Len(q)
<1>1. /\ n \in Nat /\ m \in Nat
      /\ w \in Seq(Chars) /\ Len(w) = n + 1 + m
      /\ \A i \in 1..n : w[i] = p[i]
      /\ w[n + 1] = "/"
      /\ \A i \in 1..m : w[n + 1 + i] = q[i]
  <2>1. n \in Nat /\ m \in Nat
    OBVIOUS
  <2> QED BY <2>1, WithASlash
<1> HIDE DEF n, m
<1>2. ASSUME NEW i \in 1..n
      PROVE  (i \in Begins(p) <=> i \in Begins(w)) /\ (i \in Finishes(p) <=> i \in Finishes(w))
  <2>1. i \in 1..Len(w) /\ w[i] = p[i] /\ (i # 1 => w[i - 1] = p[i - 1])
    <3>1. i \in 1..Len(w) /\ w[i] = p[i]
      BY <1>1
    <3>2. i # 1 => i - 1 \in 1..n
      BY <1>1
    <3> QED BY <1>1, <3>1, <3>2
  <2>2. Starts(w, i) <=> Starts(p, i)
    BY <2>1 DEF Starts
  <2>3. Ends(w, i) <=> Ends(p, i)
    <3>1. CASE i = n
      BY <1>1, <3>1 DEF Ends, n
    <3>2. CASE i # n
      <4>1. w[i + 1] = p[i + 1] /\ i # Len(w)
        BY <1>1, <3>2
      <4> QED BY <3>2, <4>1 DEF Ends, n
    <3> QED BY <3>1, <3>2
  <2>4. NameAt(w, i) <=> NameAt(p, i)
    BY <2>1, <2>2, <2>3 DEF NameAt
  <2> QED BY <2>1, <2>2, <2>3, <2>4 DEF Begins, Finishes, n
<1>3. n + 1 \notin Begins(w) \cup Finishes(w)
  BY <1>1 DEF Begins, Finishes, NameAt
<1>4. ASSUME NEW i \in 1..m
      PROVE  /\ i \in Begins(q) <=> n + 1 + i \in Begins(w)
             /\ i \in Finishes(q) <=> n + 1 + i \in Finishes(w)
  <2>1. PICK j \in 1..Len(w) : j = n + 1 + i
    BY <1>1
  <2>2. w[j] = q[i]
    BY <1>1, <2>1
  <2>3. Starts(w, j) <=> Starts(q, i)
    <3>1. CASE i = 1
      BY <1>1, <2>1, <3>1 DEF Starts
    <3>2. CASE i # 1
      <4>1. i - 1 \in 1..m /\ n + 1 + (i - 1) = j - 1 /\ j # 1
        BY <1>1, <2>1, <3>2
      <4>2. w[j - 1] = q[i - 1]
        BY <1>1, <4>1
      <4> QED BY <3>2, <4>1, <4>2 DEF Starts
    <3> QED BY <3>1, <3>2
  <2>4. Ends(w, j) <=> Ends(q, i)
    <3>1. CASE i = m
      BY <1>1, <2>1, <3>1 DEF Ends, m
    <3>2. CASE i # m
      <4>1. i + 1 \in 1..m /\ n + 1 + (i + 1) = j + 1 /\ j # Len(w)
        BY <1>1, <2>1, <3>2
      <4>2. w[j + 1] = q[i + 1]
        BY <1>1, <4>1
      <4> QED BY <3>2, <4>1, <4>2 DEF Ends, m
    <3> QED BY <3>1, <3>2
  <2>5. NameAt(w, j) <=> NameAt(q, i)
    BY <2>2, <2>3, <2>4 DEF NameAt
  <2>6. (i \in Begins(q) <=> j \in Begins(w)) /\ (i \in Finishes(q) <=> j \in Finishes(w))
    BY <2>3, <2>4, <2>5 DEF Begins, Finishes, m
  <2> QED BY <2>1, <2>6
<1> QED BY <1>2, <1>3, <1>4 DEF n, m

\* What is kept before and after a place where nothing is.
LEMMA KeepBoth ==
  ASSUME NEW A, NEW B, NEW C, NEW n \in Nat, NEW m \in Nat,
         \A i \in 1..n : i \in A <=> i \in C,
         n + 1 \notin C,
         \A i \in 1..m : i \in B <=> n + 1 + i \in C
  PROVE  Then(Keep(n, A), Keep(m, B), Keep(n + 1 + m, C), n + 1)
<1>1. Keep(n, A) = Keep(n, C)
  BY KeepSame
<1>2. Keep(n + 1, C) = Keep(n, C)
  BY KeepStep
<1>3. PICK l \in Nat : l = n + 1
  OBVIOUS
<1>4. \A i \in 1..m : i \in B <=> l + i \in C
  BY <1>3
<1>5. Then(Keep(l, C), Keep(m, B), Keep(l + m, C), l)
  BY ONLY <1>4, l \in Nat, m \in Nat, KeepMore
<1> QED BY <1>1, <1>2, <1>3, <1>5

\* Where the names of a path begin and end is within it.
LEMMA FirstsAre ==
  ASSUME NEW p \in Seq(Chars)
  PROVE  /\ Firsts(p) \in Seq(Nat) /\ Lasts(p) \in Seq(Nat)
         /\ Len(Firsts(p)) = Len(Lasts(p))
         /\ \A k \in 1..Len(Firsts(p)) : Firsts(p)[k] \in 1..Len(p) /\ Lasts(p)[k] \in 1..Len(p)
<1>1. Len(p) \in Nat
  OBVIOUS
<1>2. Firsts(p) \in Seq(Nat) /\ \A k \in 1..Len(Firsts(p)) : Firsts(p)[k] \in 1..Len(p)
  BY <1>1, KeepStep, KeepIn DEF Firsts
<1>3. Lasts(p) \in Seq(Nat) /\ \A k \in 1..Len(Lasts(p)) : Lasts(p)[k] \in 1..Len(p)
  BY <1>1, KeepStep, KeepIn DEF Lasts
<1> QED BY <1>2, <1>3, AsManyLasts

\* A path has as many segments as names begin, and these are paths.
LEMMA SegmentsAreSome ==
  ASSUME NEW p \in Seq(Chars)
  PROVE  /\ Segments(p) \in Seq(Seq(Chars))
         /\ Len(Segments(p)) = Len(Firsts(p))
         /\ \A k \in 1..Len(Firsts(p)) : Segments(p)[k] = SubSeq(p, Firsts(p)[k], Lasts(p)[k])
<1> DEFINE f == [n \in 1..Len(Firsts(p)) |-> SubSeq(p, Firsts(p)[n], Lasts(p)[n])]
           m == Len(Firsts(p))
<1>1. Segments(p) = f
  BY SegmentsAre
<1>2. m \in Nat
  BY FirstsAre
<1>3. \A k \in 1..m : f[k] \in Seq(Chars)
  BY FirstsAre
<1>4. f = [k \in 1..m |-> f[k]] /\ \A k \in 1..m : f[k] = SubSeq(p, Firsts(p)[k], Lasts(p)[k])
  OBVIOUS
<1> HIDE DEF f
<1> HIDE DEF m
<1>5. f \in Seq(Seq(Chars)) /\ Len(f) = m
  <2> DEFINE T == Seq(Chars)
  <2>1. \A k \in 1..m : f[k] \in T
    BY <1>3
  <2> HIDE DEF T
  <2>2. f \in Seq(T) /\ Len(f) = m
    BY <1>2, <1>4, <2>1
  <2> QED BY <2>2 DEF T
<1> QED BY <1>1, <1>4, <1>5 DEF m

\* The segments of what is before a slash, and those of what is after it.
LEMMA SegmentsSplit ==
  ASSUME NEW p \in Seq(Chars), NEW q \in Seq(Chars)
  PROVE  Segments(p \o Slash \o q) = Cat(Segments(p), Segments(q))
<1> DEFINE w == p \o Slash \o q
<1>1. /\ w \in Seq(Chars) /\ Len(w) = Len(p) + 1 + Len(q)
      /\ \A i \in 1..Len(p) : w[i] = p[i]
      /\ \A i \in 1..Len(q) : w[Len(p) + 1 + i] = q[i]
  BY WithASlash
<1>2. /\ \A i \in 1..Len(p) : /\ i \in Begins(p) <=> i \in Begins(w)
                              /\ i \in Finishes(p) <=> i \in Finishes(w)
      /\ Len(p) + 1 \notin Begins(w) \cup Finishes(w)
      /\ \A i \in 1..Len(q) :
           /\ i \in Begins(q) <=> Len(p) + 1 + i \in Begins(w)
           /\ i \in Finishes(q) <=> Len(p) + 1 + i \in Finishes(w)
  BY NamesWithASlash
<1> HIDE DEF w
<1>3. PICK n \in Nat : n = Len(p)
  OBVIOUS
<1>4. PICK m \in Nat : m = Len(q)
  OBVIOUS
<1> DEFINE Ok(a, b, c) == Then(a, b, c, n + 1)
<1>5. Ok(Firsts(p), Firsts(q), Firsts(w))
  <2>1. /\ \A i \in 1..n : i \in Begins(p) <=> i \in Begins(w)
        /\ n + 1 \notin Begins(w)
        /\ \A i \in 1..m : i \in Begins(q) <=> n + 1 + i \in Begins(w)
    BY <1>2, <1>3, <1>4
  <2>2. Ok(Keep(n, Begins(p)), Keep(m, Begins(q)), Keep(n + 1 + m, Begins(w)))
    BY ONLY <2>1, n \in Nat, m \in Nat, KeepBoth
  <2> HIDE DEF Ok
  <2> QED BY <1>1, <1>3, <1>4, <2>2 DEF Firsts
<1>6. Ok(Lasts(p), Lasts(q), Lasts(w))
  <2>1. /\ \A i \in 1..n : i \in Finishes(p) <=> i \in Finishes(w)
        /\ n + 1 \notin Finishes(w)
        /\ \A i \in 1..m : i \in Finishes(q) <=> n + 1 + i \in Finishes(w)
    BY <1>2, <1>3, <1>4
  <2>2. Ok(Keep(n, Finishes(p)), Keep(m, Finishes(q)), Keep(n + 1 + m, Finishes(w)))
    BY ONLY <2>1, n \in Nat, m \in Nat, KeepBoth
  <2> HIDE DEF Ok
  <2> QED BY <1>1, <1>3, <1>4, <2>2 DEF Lasts
<1>7. PICK a \in Seq(Seq(Chars)) : a = Segments(p)
  BY SegmentsAreSome
<1>8. PICK b \in Seq(Seq(Chars)) : b = Segments(q)
  BY SegmentsAreSome
<1>9. PICK c \in Seq(Seq(Chars)) : c = Segments(w)
  BY <1>1, SegmentsAreSome
<1>10. Len(a) = Len(Firsts(p)) /\ Len(b) = Len(Firsts(q)) /\ Len(c) = Len(Firsts(w))
  BY <1>1, <1>7, <1>8, <1>9, SegmentsAreSome
<1>11. Len(c) = Len(a) + Len(b)
  BY <1>5, <1>10 DEF Then
<1>12. ASSUME NEW k \in 1..Len(a) PROVE c[k] = a[k]
  <2>1. k \in 1..Len(Firsts(p)) /\ k \in 1..Len(Lasts(p)) /\ k \in 1..Len(Firsts(w))
    BY <1>10, <1>11, FirstsAre
  <2>2. Firsts(w)[k] = Firsts(p)[k] /\ Lasts(w)[k] = Lasts(p)[k]
    BY <1>5, <1>6, <2>1 DEF Then
  <2>3. PICK s \in 1..n : s = Firsts(p)[k]
    BY <1>3, <2>1, FirstsAre
  <2>4. PICK t \in 1..n : t = Lasts(p)[k]
    BY <1>3, <2>1, FirstsAre
  <2>5. a[k] = SubSeq(p, s, t) /\ c[k] = SubSeq(w, s, t)
    BY <1>1, <1>7, <1>9, <2>1, <2>2, <2>3, <2>4, SegmentsAreSome
  <2>6. SubSeq(w, s, t) = SubSeq(p, s, t)
    <3>1. w \in Seq(Chars) /\ t \in 1..Len(w) /\ t \in 1..Len(p)
      BY <1>1, <1>3
    <3>2. \A i \in 1..n : w[i] = p[i]
      BY <1>1, <1>3
    <3> QED BY <3>1, <3>2
  <2> QED BY <2>5, <2>6
<1>13. ASSUME NEW k \in 1..Len(b) PROVE c[Len(a) + k] = b[k]
  <2>0. PICK j \in Nat : j = Len(a) + k
    OBVIOUS
  <2>1. k \in 1..Len(Firsts(q)) /\ k \in 1..Len(Lasts(q)) /\ j \in 1..Len(Firsts(w))
    BY <1>10, <1>11, <2>0, FirstsAre
  <2>2. Firsts(w)[j] = Firsts(q)[k] + (n + 1) /\ Lasts(w)[j] = Lasts(q)[k] + (n + 1)
    <3>1. Len(Firsts(p)) = Len(a) /\ Len(Lasts(p)) = Len(a)
      BY <1>10, FirstsAre
    <3> QED BY <1>5, <1>6, <2>0, <2>1, <3>1 DEF Then
  <2>3. PICK s \in 1..m : s = Firsts(q)[k]
    BY <1>4, <2>1, FirstsAre
  <2>4. PICK t \in 1..m : t = Lasts(q)[k]
    BY <1>4, <2>1, FirstsAre
  <2>5. b[k] = SubSeq(q, s, t) /\ c[j] = SubSeq(w, s + (n + 1), t + (n + 1))
    BY <1>1, <1>8, <1>9, <2>1, <2>2, <2>3, <2>4, SegmentsAreSome
  <2>6. SubSeq(w, s + (n + 1), t + (n + 1)) = SubSeq(q, s, t)
    <3>1. w \in Seq(Chars) /\ Len(w) = n + 1 + m /\ t \in 1..Len(q)
      BY <1>1, <1>3, <1>4
    <3>2. \A i \in 1..m : w[i + (n + 1)] = q[i]
      BY <1>1, <1>3, <1>4
    <3>3. SubSeq(q, s, t) = [i \in 1..(t - s + 1) |-> q[s + i - 1]]
      BY <3>1
    <3>4. SubSeq(w, s + (n + 1), t + (n + 1)) = [i \in 1..(t - s + 1) |-> w[s + (n + 1) + i - 1]]
      BY <3>1
    <3>5. ASSUME NEW i \in 1..(t - s + 1) PROVE w[s + (n + 1) + i - 1] = q[s + i - 1]
      <4>1. PICK l \in 1..m : l = s + i - 1
        OBVIOUS
      <4>2. s + (n + 1) + i - 1 = l + (n + 1)
        BY <4>1
      <4> QED BY <3>2, <4>1, <4>2
    <3> QED BY <3>3, <3>4, <3>5
  <2> QED BY <2>0, <2>5, <2>6
<1>14. c = Cat(a, b)
  <2>1. Cat(a, b) \in Seq(Seq(Chars)) /\ Len(Cat(a, b)) = Len(a) + Len(b)
    BY DEF Cat
  <2>2. /\ \A k \in 1..Len(a) : Cat(a, b)[k] = a[k]
        /\ \A k \in 1..Len(b) : Cat(a, b)[Len(a) + k] = b[k]
    BY DEF Cat
  <2>3. ASSUME NEW k \in 1..Len(c) PROVE c[k] = Cat(a, b)[k]
    <3>1. CASE k <= Len(a)
      BY <1>12, <2>2, <3>1
    <3>2. CASE k > Len(a)
      <4>1. PICK l \in 1..Len(b) : k = Len(a) + l
        <5>1. k - Len(a) \in 1..Len(b) /\ k = Len(a) + (k - Len(a))
          BY <1>11, <3>2
        <5> QED BY <5>1
      <4> QED BY <1>13, <2>2, <4>1
    <3> QED BY <3>1, <3>2
  <2>4. PICK e \in Seq(Seq(Chars)) : e = Cat(a, b)
    BY <2>1
  <2>5. Len(c) = Len(e) /\ \A k \in 1..Len(c) : c[k] = e[k]
    BY <1>11, <2>1, <2>3, <2>4
  <2>6. c = e
    BY <2>5, SeqEqual
  <2> QED BY <2>4, <2>6
<1> QED BY <1>7, <1>8, <1>9, <1>14 DEF w

\* Nothing has no segments, nor has a dot; a name has one.
LEMMA SegmentsOfOne ==
  /\ Segments(<<>>) = <<>>
  /\ Segments(<<".">>) = <<>>
  /\ \A x \in Seq(Chars) : x # <<>> /\ x # <<".">> /\ (\A i \in 1..Len(x) : x[i] # "/")
       => Segments(x) = <<x>>
<1>1. ASSUME NEW p \in Seq(Chars), Begins(p) = {} PROVE Segments(p) = <<>>
  <2>1. Firsts(p) \in Seq(Nat)
    BY FirstsAre
  <2>2. \A k \in 1..Len(Firsts(p)) : FALSE
    BY <1>1, KeepIn DEF Firsts
  <2>3. Len(Firsts(p)) = 0
    BY <2>1, <2>2
  <2> QED BY <2>3, SegmentsAreSome
<1>2. Segments(<<>>) = <<>>
  <2>1. <<>> \in Seq(Chars) /\ Begins(<<>>) = {}
    BY DEF Begins
  <2> QED BY <1>1, <2>1
<1>3. Segments(<<".">>) = <<>>
  <2>1. "." \in Chars
    BY DEF Chars
  <2> DEFINE p == <<".">>
  <2>3. p \in Seq(Chars) /\ Len(p) = 1 /\ p[1] = "."
    BY <2>1
  <2> HIDE DEF p
  <2>4. Begins(p) = {}
    BY <2>3 DEF Begins, NameAt, Starts, Ends
  <2>5. Segments(p) = <<>>
    BY <1>1, <2>3, <2>4
  <2> QED BY <2>5 DEF p
<1>4. ASSUME NEW x \in Seq(Chars), x # <<>>, x # <<".">>, \A i \in 1..Len(x) : x[i] # "/"
      PROVE  Segments(x) = <<x>>
  <2> DEFINE n == Len(x)
  <2>1. n \in Nat /\ n >= 1 /\ \A i \in 1..n : x[i] # "/"
    BY <1>4
  <2>2. x[1] = "." => n # 1
    <3>1. "." \in Chars
      BY DEF Chars
    <3> DEFINE p == <<".">>
    <3>2. p \in Seq(Chars) /\ Len(p) = 1 /\ p[1] = "."
      BY <3>1
    <3>3. x # p
      BY <1>4
    <3> HIDE DEF p
    <3>4. x[1] = "." /\ n = 1 => x = p
      BY <3>2, SeqEqual
    <3> QED BY <3>3, <3>4
  <2> HIDE DEF n
  <2>3. \A i \in 1..n : (Starts(x, i) <=> i = 1) /\ (Ends(x, i) <=> i = n)
    <3> SUFFICES ASSUME NEW i \in 1..n
                 PROVE  (Starts(x, i) <=> i = 1) /\ (Ends(x, i) <=> i = n)
      OBVIOUS
    <3>1. i # 1 => x[i - 1] # "/"
      BY <2>1
    <3>2. i # n => x[i + 1] # "/"
      BY <2>1
    <3> QED BY <3>1, <3>2 DEF Starts, Ends, n
  <2>4. \A i \in 1..n : NameAt(x, i)
    BY <2>1, <2>2, <2>3 DEF NameAt
  <2>5. Begins(x) = {1} /\ Finishes(x) = {n}
    BY <2>1, <2>3, <2>4 DEF Begins, Finishes, n
  <2>6. ASSUME NEW F, NEW i \in 1..n, F = {i}
        PROVE  Len(Keep(n, F)) = 1 /\ Keep(n, F)[1] = i
    <3> DEFINE N == {k \in Nat : Keep(k, F) = IF k < i THEN <<>> ELSE <<i>>}
    <3>1. 0 \in N
      BY KeepStep
    <3>2. ASSUME NEW k \in Nat, k \in N PROVE k + 1 \in N
      <4>1. Keep(k + 1, F) = IF k + 1 = i THEN Append(Keep(k, F), k + 1) ELSE Keep(k, F)
        BY <2>6, KeepStep
      <4>2. Append(<<>>, k + 1) = <<k + 1>>
        BY EmptySeq, ConcatEmptySeq, AppendIsConcat
      <4>3. Keep(k, F) = IF k < i THEN <<>> ELSE <<i>>
        BY <3>2
      <4>4. CASE k + 1 = i
        <5>1. k < i /\ ~(k + 1 < i)
          BY <4>4
        <5> QED BY <4>1, <4>2, <4>3, <4>4, <5>1
      <4>5. CASE k + 1 # i
        <5>1. k < i <=> k + 1 < i
          BY <4>5
        <5>2. Keep(k + 1, F) = Keep(k, F)
          BY <4>1, <4>5
        <5> QED BY <4>3, <5>1, <5>2
      <4> QED BY <4>4, <4>5
    <3>3. \A k \in Nat : k \in N
      <4> HIDE DEF N
      <4> QED BY ONLY <3>1, <3>2, AllNaturals
    <3>4. Keep(n, F) = <<i>>
      BY <2>1, <3>3
    <3> QED BY <3>4
  <2>7. Len(Firsts(x)) = 1 /\ Firsts(x)[1] = 1 /\ Lasts(x)[1] = n
    BY <2>1, <2>5, <2>6 DEF Firsts, Lasts, n
  <2>8. PICK c \in Seq(Seq(Chars)) : c = Segments(x)
    BY SegmentsAreSome
  <2>9. Len(c) = 1 /\ c[1] = SubSeq(x, 1, n)
    <3>1. Len(c) = 1
      BY <2>7, <2>8, SegmentsAreSome
    <3>2. 1 \in 1..Len(Firsts(x))
      BY <2>7
    <3>3. c[1] = SubSeq(x, Firsts(x)[1], Lasts(x)[1])
      BY <2>8, <3>2, SegmentsAreSome
    <3> QED BY <2>7, <3>1, <3>3
  <2>10. SubSeq(x, 1, n) = x
    BY DEF n
  <2>11. c = <<x>>
    <3> DEFINE T == Seq(Chars)
    <3>1. c \in Seq(T) /\ Len(c) = 1 /\ c[1] = x /\ x \in T
      BY <2>9, <2>10
    <3> HIDE DEF T
    <3>2. <<x>> \in Seq(T) /\ Len(<<x>>) = 1 /\ <<x>>[1] = x
      BY <3>1
    <3> QED BY <3>1, <3>2, SeqEqual
  <2> QED BY <2>8, <2>11
<1> QED BY <1>2, <1>3, <1>4

----------------------------------------------------------------------------
(* The normal form of a path.                                              *)

EndsInSlash(p) == Len(p) > 0 /\ p[Len(p)] = "/"

\* One character after the other: a slash after a slash is left out (Path's
\* constructors).
LEMMA NormalStep ==
  /\ normalize(<<>>) = <<>>
  /\ \A p \in Seq(Chars), c \in Chars :
       /\ normalize(p) \in Seq(Chars)
       /\ normalize(Append(p, c)) = IF c = "/" /\ EndsInSlash(p) THEN normalize(p)
                                                                 ELSE Append(normalize(p), c)
<1> DEFINE K(p) == {i \in 1..Len(p) : p[i] # "/" \/ i = 1 \/ p[i - 1] # "/"}
           kept(p) == Keep(Len(p), K(p))
<1>1. ASSUME NEW p PROVE normalize(p) = [n \in 1..Len(kept(p)) |-> p[kept(p)[n]]]
  <2>1. [i \in 1..Len(p) |-> IF i \in K(p) THEN <<i>> ELSE <<>>]
          = [i \in 1..Len(p) |-> IF p[i] # "/" \/ i = 1 \/ p[i - 1] # "/" THEN <<i>> ELSE <<>>]
    OBVIOUS
  <2>2. Positions(p, LAMBDA i : p[i] # "/" \/ i = 1 \/ p[i - 1] # "/") = kept(p)
    BY <2>1 DEF Positions, Keep
  <2> HIDE DEF kept
  <2> QED BY <2>2 DEF normalize
<1>2. ASSUME NEW p \in Seq(Chars)
      PROVE  kept(p) \in Seq(Nat) /\ \A k \in 1..Len(kept(p)) : kept(p)[k] \in 1..Len(p)
  <2>1. Len(p) \in Nat
    OBVIOUS
  <2> HIDE DEF K
  <2> QED BY <2>1, KeepStep, KeepIn
<1>3. ASSUME NEW p \in Seq(Chars)
      PROVE  /\ normalize(p) \in Seq(Chars) /\ Len(normalize(p)) = Len(kept(p))
             /\ \A k \in 1..Len(kept(p)) : normalize(p)[k] = p[kept(p)[k]]
  <2> DEFINE f == [n \in 1..Len(kept(p)) |-> p[kept(p)[n]]]
  <2>1. PICK m \in Nat : m = Len(kept(p))
    <3>1. Len(kept(p)) \in Nat
      BY <1>2, LenProperties
    <3> HIDE DEF kept
    <3> QED BY <3>1
  <2>2. \A k \in 1..m : f[k] = p[kept(p)[k]]
    BY <2>1
  <2>3. \A k \in 1..m : f[k] \in Chars
    BY SMTT(40), <1>2, <2>1, <2>2
  <2>4. f = [k \in 1..m |-> f[k]]
    BY <2>1
  <2> HIDE DEF f
  <2>5. f \in Seq(Chars) /\ Len(f) = m
    BY <2>3, <2>4
  <2>6. normalize(p) = f
    BY <1>1 DEF f
  <2> QED BY <2>1, <2>2, <2>5, <2>6
<1>4. normalize(<<>>) = <<>>
  <2>1. <<>> \in Seq(Chars) /\ kept(<<>>) = <<>>
    BY KeepStep
  <2> HIDE DEF kept
  <2>2. Len(normalize(<<>>)) = 0 /\ normalize(<<>>) \in Seq(Chars)
    BY <1>3, <2>1
  <2> QED BY <2>2
<1>5. ASSUME NEW p \in Seq(Chars), NEW c \in Chars
      PROVE  normalize(Append(p, c)) = IF c = "/" /\ EndsInSlash(p) THEN normalize(p)
                                                                    ELSE Append(normalize(p), c)
  <2> DEFINE n == Len(p)
  <2>1. PICK q \in Seq(Chars) : q = Append(p, c)
    BY AppendProperties
  <2>2. Len(q) = n + 1 /\ q[n + 1] = c /\ (\A i \in 1..n : q[i] = p[i]) /\ n \in Nat
    BY <2>1
  <2>3. \A i \in 1..n : i \in K(p) <=> i \in K(q)
    BY <2>2
  <2>4. n + 1 \in K(q) <=> ~(c = "/" /\ EndsInSlash(p))
    BY <2>2 DEF EndsInSlash
  <2>5. kept(q) = IF n + 1 \in K(q) THEN Append(kept(p), n + 1) ELSE kept(p)
    <3>1. PICK m \in Nat : m = n
      BY <2>2
    <3> HIDE DEF K
    <3>2. Keep(m, K(q)) = Keep(m, K(p))
      BY <2>3, <3>1, KeepSame
    <3> QED BY <2>2, <3>1, <3>2, KeepStep
  <2>6. PICK s \in Seq(Chars) : s = normalize(p)
    BY <1>3
  <2>7. PICK t \in Seq(Chars) : t = normalize(q)
    BY <1>3
  <2>8. PICK k \in Seq(Nat) : k = kept(p) /\ \A i \in 1..Len(k) : k[i] \in 1..n
    BY <1>2
  <2>9. Len(s) = Len(k) /\ \A i \in 1..Len(k) : s[i] = p[k[i]]
    BY <1>3, <2>6, <2>8
  <2> HIDE DEF K, n
  <2>10. CASE n + 1 \notin K(q)
    <3>1. Len(t) = Len(k) /\ \A i \in 1..Len(k) : t[i] = q[k[i]]
      BY <1>3, <2>5, <2>7, <2>8, <2>10
    <3>2. Len(t) = Len(s) /\ \A i \in 1..Len(s) : t[i] = s[i]
      BY <2>2, <2>8, <2>9, <3>1
    <3>3. t = s
      BY <3>2, SeqEqual
    <3> QED BY <2>1, <2>4, <2>6, <2>7, <2>10, <3>3
  <2>11. CASE n + 1 \in K(q)
    <3>1. PICK l \in Seq(Nat) : l = Append(k, n + 1)
      <4>1. n + 1 \in Nat
        BY <2>2
      <4> QED BY <4>1, AppendProperties
    <3>2. kept(q) = l
      BY <2>5, <2>8, <2>11, <3>1
    <3>3. Len(t) = Len(l) /\ \A i \in 1..Len(l) : t[i] = q[l[i]]
      BY <1>3, <2>7, <3>2
    <3>4. Len(l) = Len(k) + 1 /\ l[Len(k) + 1] = n + 1 /\ \A i \in 1..Len(k) : l[i] = k[i]
      BY <2>2, <3>1
    <3>5. Len(t) = Len(s) + 1 /\ t[Len(s) + 1] = c /\ \A i \in 1..Len(s) : t[i] = s[i]
      <4>1. Len(t) = Len(s) + 1 /\ Len(s) \in Nat
        BY <2>9, <3>3, <3>4
      <4>2. t[Len(s) + 1] = q[l[Len(k) + 1]]
        BY <2>9, <3>3, <3>4, <4>1
      <4>3. t[Len(s) + 1] = c
        BY <2>2, <3>4, <4>2
      <4>4. ASSUME NEW i \in 1..Len(s) PROVE t[i] = s[i]
        <5>1. i \in 1..Len(k) /\ i \in 1..Len(l) /\ k[i] \in 1..n
          BY <2>8, <2>9, <3>4
        <5>2. t[i] = q[k[i]] /\ s[i] = p[k[i]]
          BY <2>9, <3>3, <3>4, <5>1
        <5> QED BY <2>2, <5>1, <5>2
      <4> QED BY <4>1, <4>3, <4>4
    <3>6. t = Append(s, c)
      <4>1. PICK e \in Seq(Chars) : e = Append(s, c)
        BY AppendProperties
      <4>2. Len(e) = Len(t) /\ \A i \in 1..Len(t) : t[i] = e[i]
        BY <3>5, <4>1
      <4> QED BY <4>1, <4>2, SeqEqual
    <3> QED BY <2>1, <2>4, <2>6, <2>7, <2>11, <3>6
  <2> QED BY <2>10, <2>11
<1> HIDE DEF kept
<1> QED BY <1>3, <1>4, <1>5

BeginsInSlash(p) == Len(p) > 0 /\ p[1] = "/"

\* One character more, at the end of the second of two paths.
LEMMA CatAppend ==
  ASSUME NEW S, NEW x \in Seq(S), NEW y \in Seq(S), NEW c \in S
  PROVE  Cat(x, Append(y, c)) = Append(Cat(x, y), c)
<1>1. Append(y, c) = y \o <<c>> /\ <<c>> \in Seq(S) /\ x \o y \in Seq(S)
  BY AppendIsConcat, ConcatProperties
<1>2. Append(x \o y, c) = (x \o y) \o <<c>>
  BY <1>1, AppendIsConcat
<1>3. x \o (y \o <<c>>) = (x \o y) \o <<c>>
  BY <1>1, ConcatAssociative
<1> QED BY <1>1, <1>2, <1>3 DEF Cat

\* z has the elements of x, then those of y.
Elements(z, x, y) ==
  /\ Len(z) = Len(x) + Len(y)
  /\ \A i \in 1..Len(x) : z[i] = x[i]
  /\ \A i \in 1..Len(y) : z[Len(x) + i] = y[i]

\* The elements of two, one after the other.
LEMMA CatElements ==
  ASSUME NEW S, NEW x \in Seq(S), NEW y \in Seq(S)
  PROVE  Elements(Cat(x, y), x, y)
<1>1. Cat(x, y) \in Seq(S) /\ Len(Cat(x, y)) = Len(x) + Len(y)
  BY ConcatProperties DEF Cat
<1>2. \A i \in 1..(Len(x) + Len(y)) : Cat(x, y)[i] = IF i <= Len(x) THEN x[i] ELSE y[i - Len(x)]
  BY ConcatProperties DEF Cat
<1>3. Len(x) \in Nat /\ Len(y) \in Nat
  OBVIOUS
<1>4. \A i \in 1..Len(y) : Len(x) + i \in 1..(Len(x) + Len(y)) /\ ~(Len(x) + i <= Len(x))
                           /\ Len(x) + i - Len(x) = i
  BY <1>3
<1>5. \A i \in 1..Len(x) : i \in 1..(Len(x) + Len(y)) /\ i <= Len(x)
  BY <1>3
<1>6. \A i \in 1..Len(y) : Cat(x, y)[Len(x) + i] = y[i]
  BY ONLY <1>2, <1>4
<1>7. \A i \in 1..Len(x) : Cat(x, y)[i] = x[i]
  BY ONLY <1>2, <1>5
<1> QED BY <1>1, <1>6, <1>7 DEF Elements

\* The last of two, one after the other, is that of the second.
LEMMA CatEnds ==
  ASSUME NEW x \in Seq(Chars), NEW y \in Seq(Chars)
  PROVE  /\ EndsInSlash(Cat(x, y)) <=> IF y = <<>> THEN EndsInSlash(x) ELSE EndsInSlash(y)
         /\ BeginsInSlash(Cat(x, y)) <=> IF x = <<>> THEN BeginsInSlash(y) ELSE BeginsInSlash(x)
<1>1. /\ Len(Cat(x, y)) = Len(x) + Len(y)
      /\ \A i \in 1..Len(x) : Cat(x, y)[i] = x[i]
      /\ \A i \in 1..Len(y) : Cat(x, y)[Len(x) + i] = y[i]
  BY CatElements DEF Elements
<1>2. Len(x) \in Nat /\ Len(y) \in Nat /\ (x = <<>> <=> Len(x) = 0) /\ (y = <<>> <=> Len(y) = 0)
  OBVIOUS
<1>3. CASE y = <<>>
  <2>1. Cat(x, y) = x
    BY ONLY <1>3, CatEmpty, x \in Seq(Chars)
  <2>2. ~BeginsInSlash(y)
    BY <1>3 DEF BeginsInSlash
  <2>3. x = <<>> => ~BeginsInSlash(x)
    BY DEF BeginsInSlash
  <2> QED BY <1>3, <2>1, <2>2, <2>3
<1>4. CASE y # <<>>
  <2>1. Cat(x, y)[Len(x) + Len(y)] = y[Len(y)] /\ Len(Cat(x, y)) > 0 /\ Len(y) > 0
    BY <1>1, <1>2, <1>4
  <2>2. EndsInSlash(Cat(x, y)) <=> EndsInSlash(y)
    BY <1>1, <2>1 DEF EndsInSlash
  <2>3. CASE x = <<>>
    <3>1. Cat(x, y) = y
      BY ONLY <2>3, CatEmpty, y \in Seq(Chars)
    <3> QED BY <1>4, <2>2, <2>3, <3>1
  <2>4. CASE x # <<>>
    <3>1. Cat(x, y)[1] = x[1] /\ Len(x) > 0
      BY <1>1, <1>2, <2>4
    <3> QED BY <1>4, <2>1, <2>2, <2>4, <3>1 DEF BeginsInSlash
  <2> QED BY <2>3, <2>4
<1> QED BY <1>3, <1>4

\* The normal form of two paths between which there is at most one slash.
LEMMA NormalOfTwo ==
  ASSUME NEW p \in Seq(Chars), NEW b \in Seq(Chars), ~(EndsInSlash(p) /\ BeginsInSlash(b))
  PROVE  normalize(Cat(p, b)) = Cat(normalize(p), normalize(b))
<1> DEFINE Ok(x) == ~(EndsInSlash(p) /\ BeginsInSlash(x))
                      => normalize(Cat(p, x)) = Cat(normalize(p), normalize(x))
           T == {x \in Seq(Chars) : Ok(x)}
<1>0. \A x \in Seq(Chars) : normalize(x) \in Seq(Chars)
  <2>1. "/" \in Chars
    BY DEF Chars
  <2> QED BY <2>1, NormalStep
<1>1. <<>> \in T
  <2>1. Cat(p, <<>>) = p /\ Cat(normalize(p), <<>>) = normalize(p) /\ normalize(<<>>) = <<>>
    BY <1>0, CatEmpty, NormalStep
  <2> QED BY <2>1
<1>2. ASSUME NEW x \in Seq(Chars), NEW c \in Chars, x \in T PROVE Append(x, c) \in T
  <2> DEFINE y == Append(x, c)
  <2>1. /\ y \in Seq(Chars) /\ y # <<>> /\ Len(y) > 0 /\ y[Len(y)] = c
        /\ y[1] = IF x = <<>> THEN c ELSE x[1]
    <3>1. y \in Seq(Chars) /\ y # <<>> /\ Len(y) = Len(x) + 1 /\ y[Len(x) + 1] = c
          /\ \A i \in 1..Len(x) : y[i] = x[i]
      BY AppendProperties
    <3>2. Len(x) \in Nat /\ (x = <<>> <=> Len(x) = 0)
      OBVIOUS
    <3> HIDE DEF y
    <3> QED BY <3>1, <3>2
  <2>2. Cat(p, y) = Append(Cat(p, x), c)
    BY CatAppend
  <2>3. normalize(y) = IF c = "/" /\ EndsInSlash(x) THEN normalize(x)
                                                    ELSE Append(normalize(x), c)
    BY NormalStep
  <2>4. Cat(p, x) \in Seq(Chars)
    BY CatIn
  <2>5. normalize(Cat(p, y)) = IF c = "/" /\ EndsInSlash(Cat(p, x)) THEN normalize(Cat(p, x))
                                 ELSE Append(normalize(Cat(p, x)), c)
    BY <2>2, <2>4, NormalStep
  <2>6. EndsInSlash(Cat(p, x)) <=> IF x = <<>> THEN EndsInSlash(p) ELSE EndsInSlash(x)
    BY CatEnds
  <2>7. BeginsInSlash(y) <=> IF x = <<>> THEN c = "/" ELSE BeginsInSlash(x)
    <3>1. x # <<>> => Len(x) > 0
      OBVIOUS
    <3> HIDE DEF y
    <3> QED BY <2>1, <3>1 DEF BeginsInSlash
  <2>8. normalize(p) \in Seq(Chars) /\ normalize(x) \in Seq(Chars)
    BY <1>0
  <2>9. Cat(normalize(p), Append(normalize(x), c)) = Append(Cat(normalize(p), normalize(x)), c)
    BY <2>8, CatAppend
  <2> HIDE DEF y
  <2> SUFFICES ASSUME ~(EndsInSlash(p) /\ BeginsInSlash(y))
               PROVE  normalize(Cat(p, y)) = Cat(normalize(p), normalize(y))
    BY <2>1 DEF y
  <2>10. CASE x = <<>>
    <3>1. ~EndsInSlash(x) /\ ~BeginsInSlash(x)
      BY <2>10 DEF EndsInSlash, BeginsInSlash
    <3>2. normalize(Cat(p, x)) = Cat(normalize(p), normalize(x))
      BY <1>2, <3>1
    <3> QED BY <2>3, <2>5, <2>6, <2>7, <2>9, <2>10, <3>1, <3>2
  <2>11. CASE x # <<>>
    <3>1. normalize(Cat(p, x)) = Cat(normalize(p), normalize(x))
      BY <1>2, <2>7, <2>11
    <3> QED BY <2>3, <2>5, <2>6, <2>9, <2>11, <3>1
  <2> QED BY <2>10, <2>11
<1>3. \A x \in Seq(Chars) : x \in T
  <2> HIDE DEF T
  <2> QED BY ONLY <1>1, <1>2, AllSequences
<1> QED BY <1>3

\* What a path begins and ends with, its normal form does.
LEMMA NormalEnds ==
  ASSUME NEW p \in Seq(Chars)
  PROVE  /\ normalize(p) \in Seq(Chars)
         /\ p # <<>> => normalize(p) # <<>>
         /\ p = <<>> => normalize(p) = <<>>
         /\ EndsInSlash(normalize(p)) <=> EndsInSlash(p)
         /\ BeginsInSlash(normalize(p)) <=> BeginsInSlash(p)
<1> DEFINE Ok(x) == /\ normalize(x) \in Seq(Chars)
                    /\ (x = <<>> <=> normalize(x) = <<>>)
                    /\ EndsInSlash(normalize(x)) <=> EndsInSlash(x)
                    /\ BeginsInSlash(normalize(x)) <=> BeginsInSlash(x)
           T == {x \in Seq(Chars) : Ok(x)}
<1>1. <<>> \in T
  BY NormalStep, EmptySeq DEF EndsInSlash, BeginsInSlash
<1>2. ASSUME NEW x \in Seq(Chars), NEW c \in Chars, x \in T PROVE Append(x, c) \in T
  <2>1. PICK n \in Seq(Chars) : n = normalize(x)
    BY <1>2
  <2>2. (x = <<>> <=> n = <<>>) /\ (EndsInSlash(n) <=> EndsInSlash(x))
        /\ (BeginsInSlash(n) <=> BeginsInSlash(x))
    BY <1>2, <2>1
  <2>3. normalize(Append(x, c)) = IF c = "/" /\ EndsInSlash(x) THEN n ELSE Append(n, c)
    BY <2>1, NormalStep
  <2>4. ASSUME NEW s \in Seq(Chars)
        PROVE  /\ Append(s, c) \in Seq(Chars) /\ Append(s, c) # <<>>
               /\ EndsInSlash(Append(s, c)) <=> c = "/"
               /\ BeginsInSlash(Append(s, c)) <=> IF s = <<>> THEN c = "/" ELSE BeginsInSlash(s)
    <3> DEFINE y == Append(s, c)
    <3>1. y \in Seq(Chars) /\ y # <<>> /\ Len(y) = Len(s) + 1 /\ y[Len(s) + 1] = c
          /\ \A i \in 1..Len(s) : y[i] = s[i]
      BY AppendProperties
    <3>2. Len(s) \in Nat /\ (s = <<>> <=> Len(s) = 0)
      OBVIOUS
    <3> HIDE DEF y
    <3>3. /\ y \in Seq(Chars) /\ y # <<>>
          /\ EndsInSlash(y) <=> c = "/"
          /\ BeginsInSlash(y) <=> IF s = <<>> THEN c = "/" ELSE BeginsInSlash(s)
      BY <3>1, <3>2 DEF EndsInSlash, BeginsInSlash
    <3> QED BY <3>3 DEF y
  <2>5. EndsInSlash(x) => x # <<>>
    BY DEF EndsInSlash
  <2>6. Ok(Append(x, c))
    <3>1. CASE c = "/" /\ EndsInSlash(x)
      BY <2>2, <2>3, <2>4, <2>5, <3>1
    <3>2. CASE ~(c = "/" /\ EndsInSlash(x))
      BY <2>2, <2>3, <2>4, <3>2
    <3> QED BY <3>1, <3>2
  <2> HIDE DEF Ok
  <2> QED BY <2>4, <2>6
<1>3. \A x \in Seq(Chars) : x \in T
  <2> HIDE DEF T
  <2> QED BY ONLY <1>1, <1>2, AllSequences
<1> QED BY <1>3

\* The slash is a character, and a path of one.
LEMMA SlashIs ==
  /\ "/" \in Chars /\ Slash \in Seq(Chars)
  /\ \A p \in Seq(Chars) : Cat(p, Slash) = Append(p, "/") /\ Append(p, "/") \in Seq(Chars)
  /\ Append(<<>>, "/") = Slash
<1>1. "/" \in Chars
  BY DEF Chars
<1>2. Slash \in Seq(Chars)
  BY <1>1 DEF Slash
<1>3. \A p \in Seq(Chars) : Cat(p, Slash) = Append(p, "/") /\ Append(p, "/") \in Seq(Chars)
  BY <1>1, AppendProperties, AppendIsConcat DEF Cat, Slash
<1>4. Append(<<>>, "/") = Slash
  <2>1. <<>> \in Seq(Chars) /\ Cat(<<>>, Slash) = Slash
    BY <1>2, CatEmpty, EmptySeq
  <2> QED BY <1>3, <2>1
<1> QED BY <1>1, <1>2, <1>3, <1>4

\* Which of two are joined first is the same.
LEMMA CatCat ==
  ASSUME NEW S, NEW x \in Seq(S), NEW y \in Seq(S), NEW z \in Seq(S)
  PROVE  Cat(Cat(x, y), z) = Cat(x, Cat(y, z))
BY ConcatAssociative DEF Cat

\* A path that ends in a slash is a path and a slash.
LEMMA WhatEndsInSlash ==
  ASSUME NEW p \in Seq(Chars), EndsInSlash(p)
  PROVE  \E d \in Seq(Chars) : p = Append(d, "/")
<1>1. p # <<>>
  BY DEF EndsInSlash
<1>2. PICK d \in Seq(Chars), c \in Chars : p = Append(d, c)
  BY <1>1, SequenceEmptyOrAppend
<1>3. Len(Append(d, c)) = Len(d) + 1 /\ Append(d, c)[Len(d) + 1] = c
  BY AppendProperties
<1>4. c = "/"
  BY <1>2, <1>3 DEF EndsInSlash
<1> QED BY <1>2, <1>4

\* The segments of what is before a slash and those of what is after it, again.
LEMMA SegmentsOfBoth ==
  /\ \A p \in Seq(Chars), q \in Seq(Chars) :
       Segments(Cat(Append(p, "/"), q)) = Cat(Segments(p), Segments(q))
  /\ \A p \in Seq(Chars) : Segments(Append(p, "/")) = Segments(p)
  /\ \A q \in Seq(Chars) : Segments(Cat(Slash, q)) = Segments(q)
<1>1. ASSUME NEW p \in Seq(Chars), NEW q \in Seq(Chars)
      PROVE  Segments(Cat(Append(p, "/"), q)) = Cat(Segments(p), Segments(q))
  <2>1. Append(p, "/") = p \o Slash
    BY SlashIs DEF Cat
  <2>2. Cat(Append(p, "/"), q) = p \o Slash \o q
    BY <2>1 DEF Cat
  <2> QED BY <2>2, SegmentsSplit
<1>2. ASSUME NEW p \in Seq(Chars) PROVE Segments(Append(p, "/")) = Segments(p)
  <2>1. <<>> \in Seq(Chars) /\ Cat(Append(p, "/"), <<>>) = Append(p, "/")
    BY SlashIs, CatEmpty, EmptySeq
  <2>2. Segments(p) \in Seq(Seq(Chars)) /\ Segments(<<>>) = <<>>
    BY SegmentsAreSome, SegmentsOfOne
  <2>3. Cat(Segments(p), <<>>) = Segments(p)
    BY <2>2, CatEmpty
  <2>4. Segments(Cat(Append(p, "/"), <<>>)) = Cat(Segments(p), Segments(<<>>))
    BY <1>1, <2>1
  <2> QED BY <2>1, <2>2, <2>3, <2>4
<1>3. ASSUME NEW q \in Seq(Chars) PROVE Segments(Cat(Slash, q)) = Segments(q)
  <2>1. <<>> \in Seq(Chars) /\ Append(<<>>, "/") = Slash
    BY SlashIs, EmptySeq
  <2>2. Segments(q) \in Seq(Seq(Chars)) /\ Segments(<<>>) = <<>>
    BY SegmentsAreSome, SegmentsOfOne
  <2>3. Cat(<<>>, Segments(q)) = Segments(q)
    BY <2>2, CatEmpty
  <2>4. Segments(Cat(Append(<<>>, "/"), q)) = Cat(Segments(<<>>), Segments(q))
    BY <1>1, <2>1
  <2> QED BY <2>1, <2>2, <2>3, <2>4
<1> QED BY <1>1, <1>2, <1>3

\* The normal form of the beginning of a path leaves its segments what they are.
LEMMA NormalKeepsSegments ==
  ASSUME NEW p \in Seq(Chars)
  PROVE  /\ \A z \in Seq(Chars) : Segments(Cat(normalize(p), z)) = Segments(Cat(p, z))
         /\ Segments(normalize(p)) = Segments(p)
<1> DEFINE Ok(x, z) == Segments(Cat(normalize(x), z)) = Segments(Cat(x, z))
           T == {x \in Seq(Chars) : \A z \in Seq(Chars) : Ok(x, z)}
<1>1. <<>> \in T
  BY NormalStep, EmptySeq
<1>2. ASSUME NEW x \in Seq(Chars), NEW c \in Chars, x \in T PROVE Append(x, c) \in T
  <2>1. PICK n \in Seq(Chars) : n = normalize(x)
    BY NormalEnds
  <2>2. normalize(Append(x, c)) = IF c = "/" /\ EndsInSlash(x) THEN n ELSE Append(n, c)
    BY <2>1, NormalStep
  <2>3. \A z \in Seq(Chars) : Segments(Cat(n, z)) = Segments(Cat(x, z))
    BY <1>2, <2>1
  <2>4. ASSUME NEW z \in Seq(Chars) PROVE Ok(Append(x, c), z)
    <3>1. CASE c = "/" /\ EndsInSlash(x)
      <4>1. PICK d \in Seq(Chars) : x = Append(d, "/")
        BY <3>1, WhatEndsInSlash
      <4>2. Segments(Cat(x, z)) = Cat(Segments(d), Segments(z))
        BY <4>1, SegmentsOfBoth
      <4>3. Segments(Cat(Append(x, c), z)) = Cat(Segments(x), Segments(z))
        BY <3>1, SegmentsOfBoth
      <4>4. Segments(x) = Segments(d)
        BY <4>1, SegmentsOfBoth
      <4> QED BY <2>2, <2>3, <3>1, <4>2, <4>3, <4>4
    <3>2. CASE ~(c = "/" /\ EndsInSlash(x))
      <4>1. <<c>> \in Seq(Chars) /\ Append(n, c) = Cat(n, <<c>>) /\ Append(x, c) = Cat(x, <<c>>)
        BY AppendIsConcat DEF Cat
      <4>2. PICK y \in Seq(Chars) : y = <<c>>
        BY <4>1
      <4>3. Cat(y, z) \in Seq(Chars)
        BY CatIn
      <4>4. Cat(Cat(n, y), z) = Cat(n, Cat(y, z)) /\ Cat(Cat(x, y), z) = Cat(x, Cat(y, z))
        BY CatCat
      <4>5. Segments(Cat(n, Cat(y, z))) = Segments(Cat(x, Cat(y, z)))
        BY <2>3, <4>3
      <4> QED BY <2>2, <3>2, <4>1, <4>2, <4>4, <4>5
    <3> QED BY <3>1, <3>2
  <2>5. Append(x, c) \in Seq(Chars)
    BY AppendProperties
  <2> HIDE DEF Ok
  <2> QED BY <2>4, <2>5
<1>3. \A x \in Seq(Chars) : x \in T
  <2> HIDE DEF T
  <2> QED BY ONLY <1>1, <1>2, AllSequences
<1>4. \A z \in Seq(Chars) : Segments(Cat(normalize(p), z)) = Segments(Cat(p, z))
  BY <1>3
<1>5. Segments(normalize(p)) = Segments(p)
  <2>1. Cat(normalize(p), <<>>) = normalize(p) /\ Cat(p, <<>>) = p /\ <<>> \in Seq(Chars)
    BY NormalEnds, CatEmpty, EmptySeq
  <2> QED BY <1>4, <2>1
<1> QED BY <1>4, <1>5

\* A name is in normal form.
LEMMA NormalOfName ==
  ASSUME NEW p \in Seq(Chars), \A i \in 1..Len(p) : p[i] # "/"
  PROVE  normalize(p) = p
<1> DEFINE T == {x \in Seq(Chars) : (\A i \in 1..Len(x) : x[i] # "/") => normalize(x) = x}
<1>1. <<>> \in T
  BY NormalStep, EmptySeq
<1>2. ASSUME NEW x \in Seq(Chars), NEW c \in Chars, x \in T PROVE Append(x, c) \in T
  <2>1. Append(x, c) \in Seq(Chars) /\ Len(Append(x, c)) = Len(x) + 1
        /\ Append(x, c)[Len(x) + 1] = c /\ \A i \in 1..Len(x) : Append(x, c)[i] = x[i]
    BY AppendProperties
  <2> SUFFICES ASSUME \A i \in 1..Len(Append(x, c)) : Append(x, c)[i] # "/"
               PROVE  normalize(Append(x, c)) = Append(x, c)
    BY <2>1
  <2>2. c # "/" /\ \A i \in 1..Len(x) : x[i] # "/"
    <3>1. Len(x) \in Nat
      OBVIOUS
    <3> QED BY <2>1, <3>1
  <2>3. normalize(x) = x
    BY <1>2, <2>2
  <2> QED BY <2>2, <2>3, NormalStep
<1>3. \A x \in Seq(Chars) : x \in T
  <2> HIDE DEF T
  <2> QED BY ONLY <1>1, <1>2, AllSequences
<1> QED BY <1>3

----------------------------------------------------------------------------
(* What is made of paths.                                                  *)

\* What it is to begin and to end with a slash.
LEMMA SlashAtTheEnds ==
  ASSUME NEW p \in Seq(Chars)
  PROVE  /\ IsPrefix(Slash, p) <=> BeginsInSlash(p)
         /\ IsSuffix(Slash, p) <=> EndsInSlash(p)
<1>1. Slash \in Seq(Chars) /\ Len(Slash) = 1 /\ Slash[1] = "/" /\ Len(p) \in Nat
  BY SlashIsAPath
<1>2. ASSUME NEW s \in Seq(Chars), NEW t \in Seq(Chars), Len(s) = 1, s[1] = "/"
      PROVE  IsPrefix(s, t) <=> BeginsInSlash(t)
  <2>1. SubSeq(s, 1, 1) = s
    BY <1>2
  <2>2. Len(t) > 0 => (SubSeq(t, 1, 1) = s <=> t[1] = "/")
    <3> SUFFICES ASSUME Len(t) > 0 PROVE SubSeq(t, 1, 1) = s <=> t[1] = "/"
      OBVIOUS
    <3>1. PICK u \in Seq(Chars) : u = SubSeq(t, 1, 1) /\ Len(u) = 1 /\ u[1] = t[1]
      <4>1. SubSeq(t, 1, 1) \in Seq(Chars) /\ Len(SubSeq(t, 1, 1)) = 1
            /\ SubSeq(t, 1, 1)[1] = t[1]
        OBVIOUS
      <4> QED BY <4>1
    <3>2. u[1] = "/" => u = s
      BY <1>2, <3>1, SeqEqual
    <3> QED BY <1>2, <3>1, <3>2
  <2> QED BY <1>2, <2>1, <2>2 DEF IsPrefix, BeginsInSlash
<1>3. IsPrefix(Slash, p) <=> BeginsInSlash(p)
  BY <1>1, <1>2
<1>4. /\ Reverse(p) \in Seq(Chars) /\ Len(Reverse(p)) = Len(p)
      /\ Len(p) > 0 => Reverse(p)[1] = p[Len(p)]
  <2> DEFINE r == [i \in 1..Len(p) |-> p[Len(p) - i + 1]]
  <2>1. Reverse(p) = r
    BY DEF Reverse
  <2>2. \A i \in 1..Len(p) : r[i] \in Chars
    <3>1. \A i \in 1..Len(p) : Len(p) - i + 1 \in 1..Len(p)
      BY <1>1
    <3> QED BY <3>1
  <2>3. r = [i \in 1..Len(p) |-> r[i]]
    OBVIOUS
  <2>4. Len(p) > 0 => r[1] = p[Len(p)]
    BY <1>1
  <2> HIDE DEF r
  <2>5. r \in Seq(Chars) /\ Len(r) = Len(p)
    BY <1>1, <2>2, <2>3
  <2> QED BY <2>1, <2>4, <2>5
<1>5. Reverse(Slash) \in Seq(Chars) /\ Len(Reverse(Slash)) = 1 /\ Reverse(Slash)[1] = "/"
  <2> DEFINE r == [i \in 1..Len(Slash) |-> Slash[Len(Slash) - i + 1]]
  <2>1. Reverse(Slash) = r
    BY DEF Reverse
  <2>2. r = [i \in 1..1 |-> r[i]] /\ r[1] = "/"
    BY <1>1
  <2>3. "/" \in Chars
    BY SlashIs
  <2>4. \A i \in 1..1 : r[i] \in Chars
    BY <2>2, <2>3
  <2> HIDE DEF r
  <2>5. r \in Seq(Chars) /\ Len(r) = 1
    BY <2>2, <2>4
  <2> QED BY <2>1, <2>2, <2>5
<1>6. IsSuffix(Slash, p) <=> BeginsInSlash(Reverse(p))
  BY <1>2, <1>4, <1>5 DEF IsSuffix
<1>7. BeginsInSlash(Reverse(p)) <=> EndsInSlash(p)
  BY <1>4 DEF BeginsInSlash, EndsInSlash
<1> QED BY <1>3, <1>6, <1>7

\* A path that begins with a slash is a slash and a path.
LEMMA WhatBeginsInSlash ==
  ASSUME NEW p \in Seq(Chars), BeginsInSlash(p)
  PROVE  Tail(p) \in Seq(Chars) /\ p = Cat(Slash, Tail(p))
<1>1. p # <<>> /\ Len(p) \in Nat /\ Len(p) > 0
  BY DEF BeginsInSlash
<1>2. Tail(p) \in Seq(Chars) /\ Len(Tail(p)) = Len(p) - 1
      /\ \A i \in 1..Len(Tail(p)) : Tail(p)[i] = p[i + 1]
  BY <1>1, HeadTailProperties
<1>3. Slash \in Seq(Chars) /\ Len(Slash) = 1 /\ Slash[1] = "/"
  BY SlashIsAPath
<1>4. PICK t \in Seq(Chars) : t = Tail(p)
  BY <1>2
<1>5. PICK s \in Seq(Chars) : s = Slash
  BY <1>3
<1>6. PICK w \in Seq(Chars) : w = Cat(s, t) /\ Elements(w, s, t)
  BY CatIn, CatElements
<1>7. Len(w) = Len(p)
  <2>1. Len(w) = Len(s) + Len(t)
    BY <1>6 DEF Elements
  <2>2. Len(s) = 1 /\ Len(t) = Len(p) - 1 /\ Len(p) \in Nat
    BY <1>1, <1>2, <1>3, <1>4, <1>5
  <2> QED BY ONLY <2>1, <2>2
<1>8. ASSUME NEW i \in 1..Len(p) PROVE w[i] = p[i]
  <2>1. CASE i = 1
    <3>1. Len(s) = 1 /\ s[1] = "/"
      BY <1>3, <1>5
    <3>2. p[1] = "/"
      BY DEF BeginsInSlash
    <3>3. 1 \in 1..Len(s)
      BY <3>1
    <3>4. w[1] = s[1]
      BY <1>6, <3>3 DEF Elements
    <3> QED BY <2>1, <3>1, <3>2, <3>4
  <2>2. CASE i # 1
    <3>1. i - 1 \in 1..Len(t) /\ 1 + (i - 1) = i
      BY <1>1, <1>2, <1>4, <2>2
    <3>2. w[Len(s) + (i - 1)] = t[i - 1]
      BY <1>6, <3>1 DEF Elements
    <3>3. t[i - 1] = p[i]
      <4>1. t[i - 1] = p[i - 1 + 1]
        BY <1>2, <1>4, <3>1
      <4>2. i - 1 + 1 = i
        OBVIOUS
      <4> QED BY <4>1, <4>2
    <3> QED BY <1>3, <1>5, <3>1, <3>2, <3>3
  <2> QED BY <2>1, <2>2
<1>9. w = p
  BY <1>7, <1>8, SeqEqual
<1> QED BY <1>2, <1>4, <1>5, <1>6, <1>9

\* What join puts before the second path.
JoinsBy(e, p, q) ==
  /\ join(p, q) = normalize(Cat(e, q))
  /\ Segments(Cat(e, q)) = Cat(Segments(p), Segments(q))
  /\ BeginsInSlash(Cat(e, q)) <=> IF p = <<>> THEN BeginsInSlash(q) ELSE BeginsInSlash(p)

\* Two paths are joined by at least one slash (Path).
LEMMA JoinIs ==
  ASSUME NEW p \in Seq(Chars), NEW q \in Seq(Chars)
  PROVE  \E e \in Seq(Chars) : JoinsBy(e, p, q)
<1>1. /\ IsPrefix(Slash, q) <=> BeginsInSlash(q)
      /\ IsSuffix(Slash, p) <=> EndsInSlash(p)
  BY SlashAtTheEnds
<1>2. BeginsInSlash(q) => Tail(q) \in Seq(Chars) /\ q = Cat(Slash, Tail(q))
  BY WhatBeginsInSlash
<1>3. EndsInSlash(p) => \E d \in Seq(Chars) : p = Append(d, "/")
  BY WhatEndsInSlash
<1>4. Slash \in Seq(Chars) /\ Cat(p, Slash) = Append(p, "/") /\ Append(p, "/") \in Seq(Chars)
  BY SlashIs
<1>5. BeginsInSlash(Cat(p, q)) <=> IF p = <<>> THEN BeginsInSlash(q) ELSE BeginsInSlash(p)
  BY CatEnds
<1>6. CASE p = <<>> \/ q = <<>>
  <2>1. join(p, q) = normalize(Cat(p, q))
    BY <1>6 DEF join, Cat
  <2>2. Segments(Cat(p, q)) = Cat(Segments(p), Segments(q))
    <3>1. Segments(<<>>) = <<>>
      BY SegmentsOfOne
    <3>2. Segments(p) \in Seq(Seq(Chars)) /\ Segments(q) \in Seq(Seq(Chars))
      BY SegmentsAreSome
    <3>3. Cat(Segments(p), <<>>) = Segments(p) /\ Cat(<<>>, Segments(q)) = Segments(q)
      BY <3>2, CatEmpty
    <3>4. Cat(p, <<>>) = p /\ Cat(<<>>, q) = q
      BY CatEmpty
    <3> QED BY <1>6, <3>1, <3>3, <3>4
  <2>3. JoinsBy(p, p, q)
    BY <1>5, <2>1, <2>2 DEF JoinsBy
  <2> QED BY <2>3
<1>7. CASE ~(p = <<>> \/ q = <<>>) /\ EndsInSlash(p) /\ BeginsInSlash(q)
  <2>1. PICK d \in Seq(Chars) : p = Append(d, "/")
    BY <1>3, <1>7
  <2>2. PICK t \in Seq(Chars) : t = Tail(q) /\ q = Cat(Slash, t)
    BY <1>2, <1>7
  <2>3. join(p, q) = normalize(Cat(p, t))
    BY <1>1, <1>7, <2>2 DEF join, Cat
  <2>4. Cat(p, t) = Cat(d, q)
    <3>1. Append(d, "/") = Cat(d, Slash)
      BY SlashIs
    <3>2. Cat(Cat(d, Slash), t) = Cat(d, Cat(Slash, t))
      BY <1>4, CatCat
    <3> QED BY <2>1, <2>2, <3>1, <3>2
  <2>5. Segments(Cat(p, t)) = Cat(Segments(d), Segments(t)) /\ Segments(p) = Segments(d)
        /\ Segments(q) = Segments(t)
    BY <2>1, <2>2, SegmentsOfBoth
  <2>6. BeginsInSlash(Cat(p, t)) <=> BeginsInSlash(p)
    BY <1>7, CatEnds
  <2>7. JoinsBy(d, p, q)
    BY <1>7, <2>3, <2>4, <2>5, <2>6 DEF JoinsBy
  <2> QED BY <2>7
<1>8. CASE ~(p = <<>> \/ q = <<>>) /\ ~EndsInSlash(p) /\ ~BeginsInSlash(q)
  <2>1. join(p, q) = normalize(Cat(Append(p, "/"), q))
    <3>1. p \o Slash = Append(p, "/")
      BY <1>4 DEF Cat
    <3>2. join(p, q) = normalize(p \o Slash \o q)
      BY <1>1, <1>8 DEF join
    <3> QED BY <3>1, <3>2 DEF Cat
  <2>2. Segments(Cat(Append(p, "/"), q)) = Cat(Segments(p), Segments(q))
    BY SegmentsOfBoth
  <2>3. BeginsInSlash(Cat(Append(p, "/"), q)) <=> BeginsInSlash(p)
    <3>1. BeginsInSlash(Cat(p, Slash)) <=> BeginsInSlash(p)
      BY <1>4, <1>8, CatEnds
    <3>2. Append(p, "/") # <<>>
      BY SlashIs, AppendProperties
    <3> QED BY <1>4, <3>1, <3>2, CatEnds
  <2>4. JoinsBy(Append(p, "/"), p, q)
    BY <1>8, <2>1, <2>2, <2>3 DEF JoinsBy
  <2> QED BY <1>4, <2>4
<1>9. CASE ~(p = <<>> \/ q = <<>>) /\ (EndsInSlash(p) <=> ~BeginsInSlash(q))
  <2>1. join(p, q) = normalize(Cat(p, q))
    BY <1>1, <1>9 DEF join, Cat
  <2>2. Segments(Cat(p, q)) = Cat(Segments(p), Segments(q))
    <3>1. CASE EndsInSlash(p)
      <4>1. PICK d \in Seq(Chars) : p = Append(d, "/")
        BY <1>3, <3>1
      <4> QED BY <4>1, SegmentsOfBoth
    <3>2. CASE BeginsInSlash(q)
      <4>1. PICK t \in Seq(Chars) : q = Cat(Slash, t)
        BY <1>2, <3>2
      <4>2. Cat(p, q) = Cat(Append(p, "/"), t)
        <5>1. PICK s \in Seq(Chars) : s = Slash
          BY <1>4
        <5>2. Cat(Cat(p, s), t) = Cat(p, Cat(s, t))
          BY CatCat
        <5> QED BY <1>4, <4>1, <5>1, <5>2
      <4> QED BY <4>1, <4>2, SegmentsOfBoth
    <3> QED BY <1>9, <3>1, <3>2
  <2>3. JoinsBy(p, p, q)
    BY <1>5, <2>1, <2>2 DEF JoinsBy
  <2> QED BY <2>3
<1> QED BY <1>6, <1>7, <1>8, <1>9

\* The segments of a path below another, and what it begins with (join).
LEMMA JoinHas ==
  ASSUME NEW p \in Seq(Chars), NEW q \in Seq(Chars)
  PROVE  /\ join(p, q) \in Seq(Chars)
         /\ Segments(join(p, q)) = Cat(Segments(p), Segments(q))
         /\ BeginsInSlash(join(p, q)) <=> IF p = <<>> THEN BeginsInSlash(q) ELSE BeginsInSlash(p)
<1>1. PICK e \in Seq(Chars) : JoinsBy(e, p, q)
  BY JoinIs
<1>2. PICK w \in Seq(Chars) : w = Cat(e, q)
  BY CatIn
<1>3. join(p, q) = normalize(w) /\ Segments(w) = Cat(Segments(p), Segments(q))
      /\ (BeginsInSlash(w) <=> IF p = <<>> THEN BeginsInSlash(q) ELSE BeginsInSlash(p))
  BY <1>1, <1>2 DEF JoinsBy
<1> QED BY <1>3, NormalEnds, NormalKeepsSegments

\* "./" and a path (makeRelative).
LEMMA RelativeHas ==
  ASSUME NEW p \in Seq(Chars)
  PROVE  \E e \in Seq(Chars) :
           /\ makeRelative(p) = IF e = <<>> THEN p ELSE normalize(Cat(e, p))
           /\ Segments(Cat(e, p)) = Segments(p)
           /\ ~BeginsInSlash(Cat(e, p))
<1> DEFINE dot == <<".">>
           s == <<".", "/">>
<1>1. dot \in Seq(Chars) /\ Len(dot) = 1 /\ dot[1] = "."
  <2>1. "." \in Chars
    BY DEF Chars
  <2> QED BY <2>1
<1>2. s = Append(dot, "/") /\ s \in Seq(Chars) /\ Len(s) = 2 /\ s[1] = "." /\ s # <<>>
  <2>1. "." \in Chars /\ "/" \in Chars
    BY DEF Chars
  <2>2. s = Append(dot, "/")
    BY <2>1
  <2> QED BY <2>1, <2>2
<1>3. "." # "/"
  OBVIOUS
<1>4. CASE IsPrefix(s, p)
  <2>1. makeRelative(p) = p
    BY <1>4 DEF makeRelative
  <2>2. Cat(<<>>, p) = p
    BY CatEmpty
  <2>3. ~BeginsInSlash(p)
    <3>1. SubSeq(s, 1, Len(s)) = SubSeq(p, 1, Len(s)) /\ Len(s) <= Len(p)
      BY <1>4 DEF IsPrefix
    <3> HIDE DEF s
    <3>2. SubSeq(s, 1, 2)[1] = s[1] /\ SubSeq(p, 1, 2)[1] = p[1]
      BY <1>2, <3>1
    <3>3. p[1] = "."
      BY <1>2, <3>1, <3>2
    <3> QED BY <1>3, <3>3 DEF BeginsInSlash
  <2> QED BY <2>1, <2>2, <2>3, EmptySeq
<1>5. CASE ~IsPrefix(s, p)
  <2>1. makeRelative(p) = normalize(Cat(s, p))
    BY <1>5 DEF makeRelative, Cat
  <2> HIDE DEF s, dot
  <2>2. Segments(Cat(s, p)) = Segments(p)
    <3>1. Segments(dot) = <<>>
      BY SegmentsOfOne DEF dot
    <3>2. Segments(Cat(Append(dot, "/"), p)) = Cat(Segments(dot), Segments(p))
      BY <1>1, SegmentsOfBoth
    <3>3. Segments(p) \in Seq(Seq(Chars))
      BY SegmentsAreSome
    <3>4. Cat(<<>>, Segments(p)) = Segments(p)
      BY <3>3, CatEmpty
    <3> QED BY <1>2, <3>1, <3>2, <3>4
  <2>3. ~BeginsInSlash(Cat(s, p))
    <3>1. BeginsInSlash(Cat(s, p)) <=> BeginsInSlash(s)
      BY <1>2, CatEnds
    <3> QED BY <1>2, <1>3, <3>1 DEF BeginsInSlash
  <2> QED BY <1>2, <2>1, <2>2, <2>3
<1> QED BY <1>4, <1>5

\* A relative path has the segments it had, and is relative (makeRelative).
LEMMA RelativeIs ==
  ASSUME NEW p \in Seq(Chars)
  PROVE  /\ makeRelative(p) \in Seq(Chars) /\ Segments(makeRelative(p)) = Segments(p)
         /\ ~BeginsInSlash(makeRelative(p))
<1>1. PICK e \in Seq(Chars) :
           /\ makeRelative(p) = IF e = <<>> THEN p ELSE normalize(Cat(e, p))
           /\ Segments(Cat(e, p)) = Segments(p)
           /\ ~BeginsInSlash(Cat(e, p))
  BY RelativeHas
<1>2. Cat(e, p) \in Seq(Chars) /\ Cat(<<>>, p) = p
  BY CatIn, CatEmpty
<1>3. CASE e = <<>>
  BY <1>1, <1>2, <1>3
<1>4. CASE e # <<>>
  BY <1>1, <1>2, <1>4, NormalEnds, NormalKeepsSegments
<1> QED BY <1>3, <1>4

\* A path that ends in a slash and x.
EndsInName(p, x) == \E d \in Seq(Chars) : p = Cat(Append(d, "/"), x)

IsName(x) == x \in Seq(Chars) /\ x # <<>> /\ x # <<".">> /\ \A i \in 1..Len(x) : x[i] # "/"

\* A file keeps its name in the normal form, below a path, and in a relative path.
LEMMA NameIsKept ==
  ASSUME NEW p \in Seq(Chars), NEW x, IsName(x), EndsInName(p, x)
  PROVE  /\ EndsInName(normalize(p), x)
         /\ \A e \in Seq(Chars) : EndsInName(Cat(e, p), x)
         /\ \A q \in Seq(Chars) : EndsInName(join(q, p), x)
         /\ EndsInName(makeRelative(p), x)
<1> USE DEF IsName
<1>1. ASSUME NEW q \in Seq(Chars), EndsInName(q, x) PROVE EndsInName(normalize(q), x)
  <2>1. PICK d \in Seq(Chars) : q = Cat(Append(d, "/"), x)
    BY <1>1 DEF EndsInName
  <2>2. PICK s \in Seq(Chars) : s = Append(d, "/")
    BY SlashIs
  <2>3. EndsInSlash(s) /\ ~BeginsInSlash(x)
    <3>1. Len(s) = Len(d) + 1 /\ s[Len(d) + 1] = "/" /\ Len(d) \in Nat
      BY <2>2, SlashIs, AppendProperties
    <3> QED BY <3>1 DEF EndsInSlash, BeginsInSlash
  <2>4. normalize(q) = Cat(normalize(s), normalize(x)) /\ normalize(x) = x
    BY <2>1, <2>2, <2>3, NormalOfTwo, NormalOfName
  <2>5. normalize(s) \in Seq(Chars) /\ EndsInSlash(normalize(s))
    BY <2>3, NormalEnds
  <2>6. PICK e \in Seq(Chars) : normalize(s) = Append(e, "/")
    BY <2>5, WhatEndsInSlash
  <2> QED BY <2>4, <2>6 DEF EndsInName
<1>2. ASSUME NEW e \in Seq(Chars) PROVE EndsInName(Cat(e, p), x)
  <2>1. PICK d \in Seq(Chars) : p = Cat(Append(d, "/"), x)
    BY DEF EndsInName
  <2>2. PICK s \in Seq(Chars) : s = Append(d, "/")
    BY SlashIs
  <2>3. Cat(e, Cat(s, x)) = Cat(Cat(e, s), x)
    BY CatCat
  <2>4. Cat(e, s) = Append(Cat(e, d), "/") /\ Cat(e, d) \in Seq(Chars)
    <3>1. "/" \in Chars
      BY SlashIs
    <3>2. Cat(e, Append(d, "/")) = Append(Cat(e, d), "/")
      BY <3>1, CatAppend
    <3> QED BY <2>2, <3>2, CatIn
  <2> QED BY <2>1, <2>2, <2>3, <2>4 DEF EndsInName
<1>3. ASSUME NEW q \in Seq(Chars) PROVE EndsInName(join(q, p), x)
  <2>1. PICK e \in Seq(Chars) : join(q, p) = normalize(Cat(e, p))
    BY JoinIs DEF JoinsBy
  <2>2. Cat(e, p) \in Seq(Chars)
    BY CatIn
  <2> QED BY <1>1, <1>2, <2>1, <2>2
<1>4. EndsInName(makeRelative(p), x)
  <2>1. PICK e \in Seq(Chars) : makeRelative(p) = IF e = <<>> THEN p ELSE normalize(Cat(e, p))
    BY RelativeHas
  <2>2. Cat(e, p) \in Seq(Chars)
    BY CatIn
  <2> QED BY <1>1, <1>2, <2>1, <2>2
<1> QED BY <1>1, <1>2, <1>3, <1>4

\* r is q with c at its end.
Longer(r, q, c) ==
  /\ r = Append(q, c) /\ Len(r) = Len(q) + 1 /\ r[Len(q) + 1] = c
  /\ \A i \in 1..Len(q) : r[i] = q[i]

\* One more than a sequence has.
LEMMA OneLonger ==
  ASSUME NEW S, NEW q \in Seq(S), NEW c \in S
  PROVE  \E r \in Seq(S) : Longer(r, q, c)
<1>1. Append(q, c) \in Seq(S) /\ Longer(Append(q, c), q, c)
  BY AppendProperties DEF Longer
<1> QED BY <1>1

\* A name has no slash in it, and the last one before it is where the directory ends
\* (getDirectory).
LEMMA DirectoryOfFile ==
  ASSUME NEW d \in Seq(Chars), d # <<>>, NEW x, IsName(x), NEW p, p = Cat(Append(d, "/"), x)
  PROVE  /\ p \in Seq(Chars)
         /\ getDirectory(p) = d
         /\ Segments(p) = Append(Segments(d), x)
         /\ Front(Segments(p)) = Segments(d)
         /\ BeginsInSlash(p) <=> BeginsInSlash(d)
<1>1. PICK s \in Seq(Chars) : Longer(s, d, "/")
  BY SlashIs, OneLonger
<1>2. x \in Seq(Chars) /\ x # <<>> /\ \A i \in 1..Len(x) : x[i] # "/"
  BY DEF IsName
<1>3. p \in Seq(Chars) /\ Elements(p, s, x)
  BY <1>1, <1>2, CatIn, CatElements DEF Longer
<1>4. Len(d) \in Nat /\ Len(d) > 0 /\ Len(x) \in Nat /\ Len(p) = Len(d) + 1 + Len(x)
  <2>1. Len(d) \in Nat /\ Len(d) > 0 /\ Len(x) \in Nat
    BY <1>2
  <2>2. Len(p) = Len(s) + Len(x)
    BY <1>3 DEF Elements
  <2> QED BY <1>1, <2>1, <2>2 DEF Longer
<1> DEFINE n == Len(d)
           I == {i \in 1..Len(p) : p[i] = "/"}
<1>5. p[n + 1] = "/" /\ \A i \in 1..n : p[i] = d[i]
  <2>1. Len(s) = n + 1 /\ s[n + 1] = "/" /\ \A i \in 1..n : s[i] = d[i]
    BY <1>1 DEF Longer
  <2>2. \A i \in 1..Len(s) : p[i] = s[i]
    BY <1>3 DEF Elements
  <2>3. n + 1 \in 1..Len(s) /\ \A i \in 1..n : i \in 1..Len(s)
    BY <1>4, <2>1
  <2> QED BY ONLY <2>1, <2>2, <2>3
<1>6. \A i \in 1..Len(x) : p[n + 1 + i] = x[i]
  <2>1. Len(s) = n + 1
    BY <1>1 DEF Longer
  <2> QED BY <1>3, <2>1 DEF Elements
<1>7. n + 1 \in I /\ \A i \in I : i <= n + 1
  <2>1. n + 1 \in I
    BY <1>4, <1>5
  <2>2. ASSUME NEW i \in I, i > n + 1 PROVE FALSE
    <3>1. PICK j \in 1..Len(x) : i = n + 1 + j
      <4>1. i - (n + 1) \in 1..Len(x) /\ i = n + 1 + (i - (n + 1))
        BY <1>4, <2>2
      <4> QED BY <4>1
    <3>2. p[i] = x[j] /\ p[i] = "/"
      BY <1>6, <3>1
    <3> QED BY <1>2, <3>2
  <2>3. \A i \in I : i \in Nat
    BY <1>4
  <2> QED BY <1>4, <2>1, <2>2, <2>3
<1>8. SelectLastInSeq(p, LAMBDA c : c = "/") = n + 1
  <2>1. SelectLastInSeq(p, LAMBDA c : c = "/") = IF I # {} THEN Max(I) ELSE 0
    BY DEF SelectLastInSeq
  <2>2. \A i \in I : i \in Nat
    BY <1>4
  <2>3. n + 1 \in Nat
    BY <1>4
  <2> HIDE DEF I
  <2>4. Max(I) = CHOOSE i \in I : \A j \in I : i >= j
    BY DEF Max
  <2>5. \E i \in I : \A j \in I : i >= j
    BY <1>7, <2>2, <2>3
  <2>6. Max(I) \in I /\ \A j \in I : Max(I) >= j
    BY <2>4, <2>5
  <2>7. Max(I) = n + 1
    BY <1>7, <2>2, <2>3, <2>6
  <2> QED BY <1>7, <2>1, <2>7
<1>9. getDirectory(p) = d
  <2>1. n + 1 # 1 /\ n + 1 - 1 = n
    BY <1>4
  <2>2. getDirectory(p) = SubSeq(p, 1, n)
    <3>1. getDirectory(p) = IF n + 1 = 1 THEN Slash ELSE SubSeq(p, 1, n + 1 - 1)
      BY <1>8 DEF getDirectory
    <3> HIDE DEF n
    <3> QED BY <2>1, <3>1
  <2>3. PICK e \in Seq(Chars) : e = SubSeq(p, 1, n) /\ Len(e) = n /\ \A i \in 1..n : e[i] = p[i]
    <3>1. SubSeq(p, 1, n) \in Seq(Chars) /\ Len(SubSeq(p, 1, n)) = n
          /\ \A i \in 1..n : SubSeq(p, 1, n)[i] = p[i]
      BY <1>3, <1>4
    <3> QED BY <3>1
  <2>4. e = d
    BY <1>5, <2>3, SeqEqual
  <2> QED BY <2>2, <2>3, <2>4
<1>10. Segments(p) = Append(Segments(d), x) /\ Front(Segments(p)) = Segments(d)
  <2> DEFINE T == Seq(Chars)
  <2>1. Segments(p) = Cat(Segments(d), <<x>>)
    <3>1. Segments(x) = <<x>>
      BY SegmentsOfOne DEF IsName
    <3> QED BY <1>2, <3>1, SegmentsOfBoth
  <2>2. PICK t \in Seq(T) : t = Segments(d)
    BY SegmentsAreSome
  <2>3. x \in T
    BY <1>2
  <2> HIDE DEF T
  <2>4. Cat(t, <<x>>) = Append(t, x)
    BY <2>3, AppendIsConcat DEF Cat
  <2>5. PICK u \in Seq(T) : Longer(u, t, x)
    BY <2>3, OneLonger
  <2>6. SubSeq(u, 1, Len(t)) = t
    <3>1. Len(t) \in Nat
      OBVIOUS
    <3>2. PICK v \in Seq(T) : v = SubSeq(u, 1, Len(t)) /\ Len(v) = Len(t)
                             /\ \A i \in 1..Len(t) : v[i] = u[i]
      <4>1. SubSeq(u, 1, Len(t)) \in Seq(T) /\ Len(SubSeq(u, 1, Len(t))) = Len(t)
            /\ \A i \in 1..Len(t) : SubSeq(u, 1, Len(t))[i] = u[i]
        BY <2>5, <3>1 DEF Longer
      <4> QED BY <4>1
    <3>3. v = t
      BY <2>5, <3>2, SeqEqual DEF Longer
    <3> QED BY <3>2, <3>3
  <2>7. Front(u) = t
    <3>1. Len(u) - 1 = Len(t)
      BY <2>5 DEF Longer
    <3> QED BY <2>6, <3>1 DEF Front
  <2> QED BY <2>1, <2>2, <2>4, <2>5, <2>7 DEF Longer
<1>11. BeginsInSlash(p) <=> BeginsInSlash(d)
  BY <1>4, <1>5 DEF BeginsInSlash
<1> QED BY <1>3, <1>9, <1>10, <1>11

\* A path with a slash in it is what is up to the last and what is after it.
LEMMA LastSlash ==
  ASSUME NEW p \in Seq(Chars), \E i \in 1..Len(p) : p[i] = "/"
  PROVE  \E d \in Seq(Chars), x \in Seq(Chars) :
           p = Cat(Append(d, "/"), x) /\ \A i \in 1..Len(x) : x[i] # "/"
<1> DEFINE Ok(q) == (\E i \in 1..Len(q) : q[i] = "/")
                      => \E d \in Seq(Chars), x \in Seq(Chars) :
                           q = Cat(Append(d, "/"), x) /\ \A i \in 1..Len(x) : x[i] # "/"
           T == {q \in Seq(Chars) : Ok(q)}
<1>1. <<>> \in T
  BY EmptySeq
<1>2. ASSUME NEW q \in Seq(Chars), NEW c \in Chars, q \in T PROVE Append(q, c) \in T
  <2>0. PICK r \in Seq(Chars) : Longer(r, q, c)
    BY OneLonger
  <2>1. r = Append(q, c) /\ Len(r) = Len(q) + 1 /\ r[Len(q) + 1] = c
        /\ \A i \in 1..Len(q) : r[i] = q[i]
    BY <2>0 DEF Longer
  <2>2. Ok(r)
    <3>1. CASE c = "/"
      <4>1. Cat(r, <<>>) = Append(q, "/") /\ <<>> \in Seq(Chars)
        BY <2>1, <3>1, CatEmpty, EmptySeq
      <4>2. r = Cat(Append(q, "/"), <<>>)
        BY <2>1, <3>1, <4>1
      <4>3. \A i \in 1..Len(<<>>) : <<>>[i] # "/"
        BY EmptySeq
      <4> QED BY <4>1, <4>2, <4>3
    <3>2. CASE c # "/"
      <4> SUFFICES ASSUME NEW i \in 1..Len(r), r[i] = "/"
                   PROVE  \E d \in Seq(Chars), x \in Seq(Chars) :
                            r = Cat(Append(d, "/"), x) /\ \A j \in 1..Len(x) : x[j] # "/"
        OBVIOUS
      <4>1. i \in 1..Len(q) /\ q[i] = "/"
        BY <2>1, <3>2
      <4>2. PICK d \in Seq(Chars), x \in Seq(Chars) :
              q = Cat(Append(d, "/"), x) /\ \A j \in 1..Len(x) : x[j] # "/"
        BY <1>2, <4>1
      <4>3. PICK s \in Seq(Chars) : s = Append(d, "/")
        BY SlashIs
      <4>4. Cat(s, Append(x, c)) = Append(Cat(s, x), c)
        BY CatAppend
      <4>5. PICK y \in Seq(Chars) : Longer(y, x, c)
        BY OneLonger
      <4>6. \A j \in 1..Len(y) : y[j] # "/"
        <5> SUFFICES ASSUME NEW j \in 1..Len(y) PROVE y[j] # "/"
          OBVIOUS
        <5>1. Len(y) = Len(x) + 1 /\ Len(x) \in Nat
          BY <4>5 DEF Longer
        <5>2. j \in 1..Len(x) \/ j = Len(x) + 1
          BY <5>1
        <5> QED BY <3>2, <4>2, <4>5, <5>2 DEF Longer
      <4>7. r = Cat(Append(d, "/"), y)
        BY <2>1, <4>2, <4>3, <4>4, <4>5 DEF Longer
      <4> QED BY <4>6, <4>7
    <3> QED BY <3>1, <3>2
  <2> HIDE DEF Ok
  <2> QED BY <2>1, <2>2
<1>3. \A q \in Seq(Chars) : q \in T
  <2> HIDE DEF T
  <2> QED BY ONLY <1>1, <1>2, AllSequences
<1> HIDE DEF Ok
<1>4. Ok(p)
  BY <1>3
<1> QED BY <1>4 DEF Ok

\* A path that begins with another is this and the rest.
LEMMA PrefixAndRest ==
  ASSUME NEW S, NEW s \in Seq(S), NEW t \in Seq(S)
  PROVE  /\ IsPrefix(s, t) => \E v \in Seq(S) : t = Cat(s, v)
         /\ \A v \in Seq(S) : t = Cat(s, v) =>
              IsPrefix(s, t) /\ SubSeq(t, Len(s) + 1, Len(t)) = v
<1>1. ASSUME IsPrefix(s, t) PROVE \E v \in Seq(S) : t = Cat(s, v)
  <2>1. Len(s) \in Nat /\ Len(t) \in Nat /\ Len(s) <= Len(t)
    BY <1>1 DEF IsPrefix
  <2>2. SubSeq(t, 1, Len(s)) = s
    <3>1. SubSeq(s, 1, Len(s)) = SubSeq(t, 1, Len(s)) /\ SubSeq(s, 1, Len(s)) = s
      BY <1>1, SubSeqFull DEF IsPrefix
    <3> QED BY <3>1
  <2>3. SubSeq(t, 1, Len(s)) \o SubSeq(t, Len(s) + 1, Len(t)) = SubSeq(t, 1, Len(t))
    <3>1. 1 \in 1..(Len(t) + 1) /\ Len(s) \in (1 - 1)..Len(t) /\ Len(t) \in Len(s)..Len(t)
      BY <2>1
    <3> QED BY <3>1, ConcatAdjacentSubSeq
  <2>4. SubSeq(t, 1, Len(t)) = t
    BY SubSeqFull
  <2>5. SubSeq(t, Len(s) + 1, Len(t)) \in Seq(S)
    BY <2>1
  <2>6. t = Cat(s, SubSeq(t, Len(s) + 1, Len(t)))
    BY <2>2, <2>3, <2>4 DEF Cat
  <2> QED BY <2>5, <2>6
<1>2. ASSUME NEW v \in Seq(S), t = Cat(s, v)
      PROVE  IsPrefix(s, t) /\ SubSeq(t, Len(s) + 1, Len(t)) = v
  <2>1. Elements(t, s, v)
    BY <1>2, CatElements
  <2>2. Len(t) = Len(s) + Len(v) /\ Len(s) \in Nat /\ Len(v) \in Nat
    BY <2>1 DEF Elements
  <2>3. /\ \A i \in 1..Len(s) : t[i] = s[i]
        /\ \A i \in 1..Len(v) : t[Len(s) + i] = v[i]
    BY <2>1 DEF Elements
  <2>4. IsPrefix(s, t)
    <3>1. /\ SubSeq(t, 1, Len(s)) \in Seq(S) /\ Len(SubSeq(t, 1, Len(s))) = Len(s)
          /\ \A i \in 1..Len(s) : SubSeq(t, 1, Len(s))[i] = t[i]
      BY <2>2
    <3>2. SubSeq(t, 1, Len(s)) = s
      <4>1. PICK u \in Seq(S) : u = SubSeq(t, 1, Len(s))
        BY <3>1
      <4> QED BY <2>3, <3>1, <4>1, SeqEqual
    <3> QED BY <2>2, <3>2, SubSeqFull DEF IsPrefix
  <2>5. SubSeq(t, Len(s) + 1, Len(t)) = v
    <3>1. PICK u \in Seq(S) : u = SubSeq(t, Len(s) + 1, Len(t))
      <4>1. SubSeq(t, Len(s) + 1, Len(t)) \in Seq(S)
        BY <2>2
      <4> QED BY <4>1
    <3>2. u = [i \in 1..(Len(t) - (Len(s) + 1) + 1) |-> t[Len(s) + 1 + i - 1]]
      BY <2>2, <3>1
    <3>3. Len(t) - (Len(s) + 1) + 1 = Len(v)
      BY <2>2
    <3>4. Len(u) = Len(v)
      BY <2>2, <3>1, <3>3
    <3>5. ASSUME NEW i \in 1..Len(v) PROVE u[i] = v[i]
      <4>1. Len(s) + 1 + i - 1 = Len(s) + i
        BY <2>2
      <4> QED BY <2>3, <3>2, <3>3, <4>1
    <3>6. u = v
      BY <3>4, <3>5, SeqEqual
    <3> QED BY <3>1, <3>6
  <2> QED BY <2>4, <2>5
<1> QED BY <1>1, <1>2

\* What is left of a path without the one it is below (removePrefix).
LEMMA RemoveIs ==
  ASSUME NEW a \in Seq(Chars), a # Slash, NEW b \in Seq(Chars), b = <<>> \/ BeginsInSlash(b)
  PROVE  removePrefix(Cat(a, b), a) = b
<1>1. PICK w \in Seq(Chars) : w = Cat(a, b) /\ Elements(w, a, b)
  BY CatIn, CatElements
<1>2. IsPrefix(a, w) /\ SubSeq(w, Len(a) + 1, Len(w)) = b
  BY <1>1, PrefixAndRest
<1>3. w = a \/ w[Len(a) + 1] = "/"
  <2>1. CASE b = <<>>
    BY <1>1, <2>1, CatEmpty
  <2>2. CASE BeginsInSlash(b)
    <3>1. 1 \in 1..Len(b) /\ b[1] = "/"
      BY <2>2 DEF BeginsInSlash
    <3> QED BY <1>1, <3>1 DEF Elements
  <2> QED BY <2>1, <2>2
<1>4. startsWith(w, a)
  BY <1>2, <1>3 DEF startsWith
<1> QED BY <1>1, <1>2, <1>4 DEF removePrefix

\* A location is a path, and one in normal form (LocationsAreNormal).
LEMMA LocationIsNormal ==
  ASSUME LocationsAreNormal, NEW i \in 1..Len(routes)
  PROVE  LET a == routes[i].path IN
         /\ a \in Seq(STRING) /\ a \in Seq(Chars) /\ a # <<>> /\ normalize(a) = a
         /\ a # Slash => ~EndsInSlash(a)
<1>1. PICK a \in Seq(STRING) : a = routes[i].path /\ a # <<>> /\ a \in Seq(Chars)
  BY RoutesAssumption, SlashIsAPath
<1>2. a = Slash \/ (normalize(a) = a /\ ~IsSuffix(Slash, a))
  BY <1>1 DEF LocationsAreNormal
<1>3. normalize(Slash) = Slash
  <2>1. <<>> \in Seq(Chars) /\ ~EndsInSlash(<<>>) /\ "/" \in Chars
    BY SlashIs, EmptySeq DEF EndsInSlash
  <2>2. normalize(Append(<<>>, "/")) = Append(normalize(<<>>), "/")
    BY <2>1, NormalStep
  <2> QED BY <2>2, NormalStep, SlashIs
<1>4. IsSuffix(Slash, a) <=> EndsInSlash(a)
  BY <1>1, SlashAtTheEnds
<1> QED BY <1>1, <1>2, <1>3, <1>4

\* A path in a location is this, or this and what is after a slash (_findRoute).
LEMMA WhatMatches ==
  ASSUME LocationsAreNormal, NEW i \in 1..Len(routes), NEW path \in Seq(STRING),
         routes[i].path # Slash
  PROVE  /\ Matches(routes[i], path) =>
              \E b \in Seq(Chars) : /\ path = Cat(routes[i].path, b)
                                    /\ b = <<>> \/ BeginsInSlash(b)
         /\ path \in Seq(Chars)
<1>1. PICK a \in Seq(Chars) : a = routes[i].path /\ a # Slash
  BY LocationIsNormal
<1>2. path \in Seq(Chars)
  BY SlashIsAPath
<1>3. ASSUME Matches(routes[i], path)
      PROVE  \E b \in Seq(Chars) : path = Cat(a, b) /\ (b = <<>> \/ BeginsInSlash(b))
  <2>1. a = path \/ IsPrefix(a \o Slash, path)
    BY <1>1, <1>3, MatchesAre
  <2>2. CASE a = path
    <3>1. path = Cat(a, <<>>) /\ <<>> \in Seq(Chars)
      BY <2>2, CatEmpty, EmptySeq
    <3> QED BY <3>1
  <2>3. CASE IsPrefix(a \o Slash, path)
    <3>1. PICK s \in Seq(Chars) : s = Slash
      BY SlashIs
    <3>2. PICK t \in Seq(Chars) : t = Cat(a, s)
      BY CatIn
    <3>3. IsPrefix(t, path)
      BY <2>3, <3>1, <3>2 DEF Cat
    <3>4. PICK v \in Seq(Chars) : path = Cat(t, v)
      BY <1>2, <3>3, PrefixAndRest
    <3>5. path = Cat(a, Cat(s, v)) /\ Cat(s, v) \in Seq(Chars)
      BY <3>2, <3>4, CatCat, CatIn
    <3>6. BeginsInSlash(s) /\ s # <<>>
      <4>1. Len(s) = 1 /\ s[1] = "/"
        BY <3>1, SlashIsAPath
      <4>2. s = <<>> <=> Len(s) = 0
        OBVIOUS
      <4> QED BY <4>1, <4>2 DEF BeginsInSlash
    <3>7. BeginsInSlash(Cat(s, v))
      BY <3>6, CatEnds
    <3> QED BY <3>5, <3>7
  <2> QED BY <2>1, <2>2, <2>3
<1> QED BY <1>1, <1>2, <1>3

\* What a path has after its location.
RestPathIs(f, i, path) ==
  LET a == routes[i].path
      names == Segments(path)
  IN  /\ f \in Seq(Chars)
      /\ Segments(f) = IF Matches(routes[i], path)
                         THEN SubSeq(names, Len(Segments(a)) + 1, Len(names)) ELSE names
      /\ a # Slash /\ Matches(routes[i], path) =>
           \/ path = a /\ f = <<>>
           \/ path # a /\ f # <<>> /\ BeginsInSlash(f)

\* What is left of a path without its location has the segments after those of the
\* location (getFullFilesystemPath).
LEMMA RestOfPath ==
  ASSUME LocationsAreNormal, NEW i \in 1..Len(routes), NEW path \in Paths,
         \/ Matches(routes[i], path)
         \/ i = 1 /\ \A j \in 1..Len(routes) : ~Matches(routes[j], path)
  PROVE  /\ normalize(routes[i].path) = routes[i].path
         /\ RestPathIs(removePrefix(normalize(path), routes[i].path), i, path)
<1>1. PICK a \in Seq(Chars) : a = routes[i].path /\ a # <<>> /\ normalize(a) = a
                              /\ (a # Slash => ~EndsInSlash(a))
  BY LocationIsNormal
<1>2. path \in Seq(STRING) /\ path \in Seq(Chars)
  BY RoutesAssumption, SlashIsAPath
<1>3. PICK n \in Seq(Chars) : n = normalize(path) /\ Segments(n) = Segments(path)
  BY <1>2, NormalEnds, NormalKeepsSegments
<1>4. PICK names \in Seq(Seq(Chars)) : names = Segments(path)
  BY <1>2, SegmentsAreSome
<1>5. CASE a = Slash
  <2>1. removePrefix(n, a) = n
    BY <1>5 DEF removePrefix
  <2>2. Segments(a) = <<>>
    <3>1. Segments(Append(<<>>, "/")) = Segments(<<>>)
      BY SegmentsOfBoth, EmptySeq
    <3> QED BY <1>5, <3>1, SlashIs, SegmentsOfOne
  <2>3. SubSeq(names, Len(Segments(a)) + 1, Len(names)) = names
    <3>1. Len(Segments(a)) + 1 = 1
      BY <2>2, EmptySeq
    <3> QED BY <3>1, SubSeqFull
  <2> QED BY <1>1, <1>3, <1>4, <1>5, <2>1, <2>3 DEF RestPathIs
<1>6. CASE a # Slash /\ Matches(routes[i], path)
  <2>1. PICK b \in Seq(Chars) : path = Cat(a, b) /\ (b = <<>> \/ BeginsInSlash(b))
    BY <1>1, <1>2, <1>6, WhatMatches
  <2>2. PICK m \in Seq(Chars) : m = normalize(b) /\ (m = <<>> <=> b = <<>>)
                               /\ (BeginsInSlash(m) <=> BeginsInSlash(b))
                               /\ Segments(m) = Segments(b)
    BY NormalEnds, NormalKeepsSegments
  <2>3. n = Cat(a, m)
    <3>1. ~(EndsInSlash(a) /\ BeginsInSlash(b))
      BY <1>1, <1>6
    <3> QED BY <1>1, <1>3, <2>1, <2>2, <3>1, NormalOfTwo
  <2>4. removePrefix(n, a) = m
    BY <1>6, <2>1, <2>2, <2>3, RemoveIs
  <2>5. PICK l \in Seq(Seq(Chars)) : l = Segments(a)
    BY SegmentsAreSome
  <2>6. PICK r \in Seq(Seq(Chars)) : r = Segments(b)
    BY SegmentsAreSome
  <2>7. names = Cat(l, r)
    <3>1. CASE b = <<>>
      <4>1. path = a /\ r = <<>>
        BY <2>1, <2>6, <3>1, CatEmpty, SegmentsOfOne
      <4>2. Cat(l, <<>>) = l
        BY CatEmpty
      <4> QED BY <1>4, <2>5, <4>1, <4>2
    <3>2. CASE BeginsInSlash(b)
      <4>1. PICK v \in Seq(Chars) : b = Cat(Slash, v)
        BY <3>2, WhatBeginsInSlash
      <4>2. PICK s \in Seq(Chars) : s = Slash
        BY SlashIs
      <4>3. path = Cat(Append(a, "/"), v)
        <5>1. Cat(Cat(a, s), v) = Cat(a, Cat(s, v))
          BY CatCat
        <5>2. Cat(a, Slash) = Append(a, "/")
          BY SlashIs
        <5> QED BY <2>1, <4>1, <4>2, <5>1, <5>2
      <4>4. Segments(path) = Cat(Segments(a), Segments(v)) /\ Segments(b) = Segments(v)
        BY <4>1, <4>3, SegmentsOfBoth
      <4> QED BY <1>4, <2>5, <2>6, <4>4
    <3> QED BY <2>1, <3>1, <3>2
  <2>8. SubSeq(names, Len(l) + 1, Len(names)) = r
    <3> DEFINE T == Seq(Chars)
    <3>1. PICK x \in Seq(T) : x = l
      OBVIOUS
    <3>2. PICK y \in Seq(T) : y = r
      OBVIOUS
    <3>3. PICK z \in Seq(T) : z = names
      OBVIOUS
    <3> HIDE DEF T
    <3>4. z = Cat(x, y)
      BY <2>7, <3>1, <3>2, <3>3
    <3>5. SubSeq(z, Len(x) + 1, Len(z)) = y
      BY SMTT(40), <3>4, PrefixAndRest
    <3> QED BY <3>1, <3>2, <3>3, <3>5
  <2>9. path = a <=> b = <<>>
    <3>1. Elements(path, a, b) /\ Len(a) \in Nat /\ Len(b) \in Nat /\ (b = <<>> <=> Len(b) = 0)
      BY <2>1, CatElements
    <3>2. Len(path) = Len(a) + Len(b)
      BY <3>1 DEF Elements
    <3>3. b = <<>> => path = a
      BY <2>1, CatEmpty
    <3> QED BY <3>1, <3>2, <3>3
  <2> QED BY <1>1, <1>3, <1>4, <1>6, <2>1, <2>2, <2>4, <2>5, <2>6, <2>8, <2>9 DEF RestPathIs
<1>7. CASE a # Slash /\ ~Matches(routes[i], path)
  <2>1. ~Matches(routes[i], n)
    BY <1>1, <1>3, <1>7 DEF LocationsAreNormal
  <2>2. ~startsWith(n, a)
    <3> SUFFICES ASSUME IsPrefix(a, n), n = a \/ n[Len(a) + 1] = "/" PROVE FALSE
      BY <1>1 DEF startsWith
    <3>1. Len(a) <= Len(n) /\ SubSeq(n, 1, Len(a)) = a
      BY SubSeqFull DEF IsPrefix
    <3>2. Len(n) = Len(a) \/ n[Len(a) + 1] = "/"
      OBVIOUS
    <3> QED BY <1>1, <2>1, <3>1, <3>2 DEF Matches
  <2>3. removePrefix(n, a) = n
    BY <2>2 DEF removePrefix
  <2> QED BY <1>1, <1>3, <1>4, <1>7, <2>3 DEF RestPathIs
<1> QED BY <1>5, <1>6, <1>7

\* Roots are paths (getDocumentRoot).
LEMMA RootIs ==
  ASSUME NEW i \in 1..Len(routes)
  PROVE  getDocumentRoot(routes[i]) \in Seq(Chars) /\ routes[i].uploadPath \in Seq(Chars)
<1>1. routes[i].root \in Seq(Chars) /\ root \in Seq(Chars) /\ routes[i].uploadPath \in Seq(Chars)
  BY RoutesAssumption, LocationsAssumption, SlashIsAPath
<1>2. (IF routes[i].root # <<>> THEN routes[i].root ELSE root) \in Seq(Chars)
  BY <1>1
<1> QED BY <1>1, <1>2, NormalEnds DEF getDocumentRoot

\* The file of a path is below the root what the path is below its location
\* (getFullFilesystemPath).
LEMMA FileOfPath ==
  ASSUME NEW i \in 1..Len(routes), NEW path, NEW f, f \in Seq(Chars),
         normalize(routes[i].path) = routes[i].path,
         f = removePrefix(normalize(path), routes[i].path)
  PROVE  Segments(getFullFilesystemPath(routes[i], path))
           = Cat(Segments(getDocumentRoot(routes[i])), Segments(f))
<1>1. PICK d \in Seq(Chars) : d = getDocumentRoot(routes[i])
  BY RootIs
<1>2. getFullFilesystemPath(routes[i], path) = makeRelative(join(d, f))
  BY <1>1 DEF getFullFilesystemPath
<1>3. join(d, f) \in Seq(Chars) /\ Segments(join(d, f)) = Cat(Segments(d), Segments(f))
  BY JoinHas
<1>4. Segments(makeRelative(join(d, f))) = Segments(join(d, f))
  BY <1>3, RelativeIs
<1> QED BY <1>1, <1>2, <1>3, <1>4

\* What is made of n things of a set.
LEMMA MadeOf ==
  ASSUME NEW S, NEW n \in Nat, NEW f, f = [i \in 1..n |-> f[i]], \A i \in 1..n : f[i] \in S
  PROVE  f \in Seq(S) /\ Len(f) = n
OBVIOUS

\* A file in a directory has a name (NamesAFile).
LEMMA FileIsNamed ==
  ASSUME NEW p \in Seq(Chars), NamesAFile(p)
  PROVE  \E x : IsName(x) /\ EndsInName(p, x)
<1>1. \E i \in 1..Len(p) : p[i] = "/"
  BY DEF NamesAFile, ToSet
<1>2. PICK d \in Seq(Chars), x \in Seq(Chars) :
        p = Cat(Append(d, "/"), x) /\ \A i \in 1..Len(x) : x[i] # "/"
  BY <1>1, LastSlash
<1>3. PICK s \in Seq(Chars) : Longer(s, d, "/")
  BY SlashIs, OneLonger
<1>4. p = Cat(s, x) /\ Elements(p, s, x)
  BY <1>2, <1>3, CatElements DEF Longer
<1>5. EndsInSlash(s) /\ Len(s) \in Nat /\ Len(s) > 0
  BY <1>3 DEF Longer, EndsInSlash
<1>6. x # <<>>
  <2> SUFFICES ASSUME x = <<>> PROVE FALSE
    OBVIOUS
  <2>1. EndsInSlash(p)
    BY <1>4, <1>5, CatEnds
  <2> QED BY <2>1, SlashAtTheEnds DEF NamesAFile
<1>7. x # <<".">>
  <2> SUFFICES ASSUME x = <<".">> PROVE FALSE
    OBVIOUS
  <2> DEFINE n == Len(p)
             t == <<"/", ".">>
             r == [k \in 1..n |-> p[n - k + 1]]
             u == [k \in 1..Len(t) |-> t[Len(t) - k + 1]]
  <2>1. Len(x) = 1 /\ x[1] = "."
    OBVIOUS
  <2>2. n = Len(s) + 1 /\ p[n] = "." /\ p[n - 1] = "/"
    <3>1. n = Len(s) + Len(x) /\ p[Len(s) + 1] = x[1] /\ p[Len(s)] = s[Len(s)]
      BY <1>4, <1>5, <2>1 DEF Elements
    <3>2. s[Len(s)] = "/"
      BY <1>5 DEF EndsInSlash
    <3> QED BY <1>5, <2>1, <3>1, <3>2
  <2>3. "/" \in Chars /\ "." \in Chars
    BY DEF Chars
  <2>4. t \in Seq(Chars) /\ Len(t) = 2 /\ t[1] = "/" /\ t[2] = "."
    BY <2>3
  <2>5. Reverse(p) = r /\ Reverse(t) = u
    BY DEF Reverse
  <2>6. n \in Nat /\ n >= 2
    BY <1>5, <2>2
  <2> HIDE DEF t
  <2>7. r \in Seq(Chars) /\ Len(r) = n /\ r[1] = "." /\ r[2] = "/"
    <3>1. r[1] = "." /\ r[2] = "/"
      BY <2>2, <2>6
    <3>2. \A k \in 1..n : r[k] \in Chars
      <4>1. \A k \in 1..n : n - k + 1 \in 1..n
        BY <2>6
      <4> QED BY <4>1
    <3>3. r = [k \in 1..n |-> r[k]]
      OBVIOUS
    <3> HIDE DEF r
    <3> HIDE DEF n
    <3>4. r \in Seq(Chars) /\ Len(r) = n
      <4>1. PICK m \in Nat : m = n
        BY <2>6
      <4>2. r = [k \in 1..m |-> r[k]] /\ \A k \in 1..m : r[k] \in Chars
        BY <3>2, <3>3, <4>1
      <4>3. r \in Seq(Chars) /\ Len(r) = m
        BY <4>2, MadeOf
      <4> QED BY <4>1, <4>3
    <3> QED BY <3>1, <3>4
  <2>8. u \in Seq(Chars) /\ Len(u) = 2 /\ u[1] = "." /\ u[2] = "/"
    <3>1. u[1] = "." /\ u[2] = "/"
      BY <2>4
    <3>2. u = [k \in 1..2 |-> u[k]]
      BY <2>4
    <3>3. \A k \in 1..2 : u[k] \in Chars
      <4>1. \A k \in 1..2 : k = 1 \/ k = 2
        OBVIOUS
      <4> QED BY <2>3, <3>1, <4>1
    <3> HIDE DEF u
    <3>4. u \in Seq(Chars) /\ Len(u) = 2
      BY <3>2, <3>3
    <3> QED BY <3>1, <3>4
  <2> HIDE DEF r, u, n
  <2>9. IsPrefix(u, r)
    <3>1. PICK v \in Seq(Chars) : v = SubSeq(r, 1, 2) /\ Len(v) = 2 /\ v[1] = r[1] /\ v[2] = r[2]
      <4>1. SubSeq(r, 1, 2) \in Seq(Chars) /\ Len(SubSeq(r, 1, 2)) = 2
            /\ SubSeq(r, 1, 2)[1] = r[1] /\ SubSeq(r, 1, 2)[2] = r[2]
        BY <2>6, <2>7
      <4> QED BY <4>1
    <3>2. \A k \in 1..Len(v) : v[k] = u[k]
      <4>1. \A k \in 1..Len(v) : k = 1 \/ k = 2
        BY <3>1
      <4> QED BY <2>7, <2>8, <3>1, <4>1
    <3>3. v = u
      BY <2>8, <3>1, <3>2, SeqEqual
    <3>4. SubSeq(u, 1, 2) = u
      BY <2>8, SubSeqFull
    <3> QED BY <2>6, <2>7, <2>8, <3>1, <3>3, <3>4 DEF IsPrefix
  <2>10. IsSuffix(t, p)
    BY <2>5, <2>9 DEF IsSuffix
  <2> QED BY <2>10 DEF NamesAFile, t
<1> QED BY <1>2, <1>6, <1>7 DEF IsName, EndsInName

\* Where the location's file is, and what is beside it (getUploadPath).
LEMMA UploadOfPath ==
  ASSUME NEW i \in 1..Len(routes), NEW path \in Paths, LocationsAreNormal,
         Matches(routes[i], path), routes[i].path # Slash,
         routes[i].uploadAllowed, NamesAFile(routes[i].uploadPath),
         NEW file, file = IF isRelative(routes[i].uploadPath) THEN Segments(routes[i].uploadPath)
                          ELSE Cat(Segments(getDocumentRoot(routes[i])),
                                   Segments(routes[i].uploadPath)),
         Front(file) = Segments(getDocumentRoot(routes[i]))
  PROVE  /\ isRelative(getUploadPath(routes[i], path))
         /\ Segments(getUploadPath(routes[i], path))
              = IF path = routes[i].path THEN file
                ELSE Segments(getFullFilesystemPath(routes[i], path))
<1>1. PICK d \in Seq(Chars) : d = getDocumentRoot(routes[i])
  BY RootIs
<1>2. PICK p \in Seq(Chars) : p = routes[i].uploadPath
  BY RootIs
<1>3. PICK a \in Seq(Chars) : a = routes[i].path /\ normalize(a) = a
  BY LocationIsNormal
<1> DEFINE rest == removePrefix(normalize(path), routes[i].path)
<1>4. RestPathIs(rest, i, path)
  BY RestOfPath
<1> HIDE DEF rest
<1>0. PICK f \in Seq(Chars) : f = rest
  BY <1>4 DEF RestPathIs
<1>5. /\ f = removePrefix(normalize(path), routes[i].path)
      /\ \/ path = a /\ f = <<>>
         \/ path # a /\ f # <<>> /\ BeginsInSlash(f)
  <2>1. routes[i].path # Slash /\ Matches(routes[i], path) =>
           \/ path = routes[i].path /\ f = <<>>
           \/ path # routes[i].path /\ f # <<>> /\ BeginsInSlash(f)
    BY <1>0, <1>4 DEF RestPathIs
  <2> QED BY <1>0, <1>3, <2>1 DEF rest
<1>6. PICK raw \in Seq(Chars) : raw = normalize(p) /\ Segments(raw) = Segments(p)
                               /\ (BeginsInSlash(raw) <=> BeginsInSlash(p))
  BY NormalEnds, NormalKeepsSegments
<1>7. PICK x : IsName(x) /\ EndsInName(p, x)
  BY <1>2, FileIsNamed
<1>8. EndsInName(raw, x)
  BY <1>6, <1>7, NameIsKept
<1>9. \A q \in Seq(Chars) : isRelative(q) <=> ~BeginsInSlash(q)
  BY SlashAtTheEnds DEF isRelative
<1> DEFINE rooted == IF isRelative(raw) THEN raw ELSE makeRelative(join(d, raw))
<1>10. /\ rooted \in Seq(Chars) /\ Segments(rooted) = file /\ ~BeginsInSlash(rooted)
       /\ EndsInName(rooted, x)
  <2>1. CASE isRelative(raw)
    <3>1. isRelative(p)
      BY <1>6, <1>9, <2>1
    <3> QED BY <1>2, <1>6, <1>8, <1>9, <2>1, <3>1
  <2>2. CASE ~isRelative(raw)
    <3>1. ~isRelative(p)
      BY <1>6, <1>9, <2>2
    <3>2. PICK j \in Seq(Chars) : j = join(d, raw) /\ Segments(j) = Cat(Segments(d), Segments(raw))
      BY JoinHas
    <3>3. EndsInName(j, x)
      BY <1>7, <1>8, <3>2, NameIsKept
    <3>4. makeRelative(j) \in Seq(Chars) /\ Segments(makeRelative(j)) = Segments(j)
          /\ ~BeginsInSlash(makeRelative(j)) /\ EndsInName(makeRelative(j), x)
      BY <1>7, <3>3, NameIsKept, RelativeIs
    <3> QED BY <1>1, <1>2, <1>6, <2>2, <3>1, <3>2, <3>4
  <2> QED BY <2>1, <2>2
<1>11. getUploadPath(routes[i], path)
         = IF f = <<>> THEN rooted ELSE join(getDirectory(rooted), f)
  BY <1>1, <1>2, <1>5, <1>6 DEF getUploadPath
<1> HIDE DEF rooted
<1>12. CASE path = a /\ f = <<>>
  BY <1>3, <1>9, <1>10, <1>11, <1>12
<1>13. CASE path # a /\ f # <<>> /\ BeginsInSlash(f)
  <2>1. PICK e \in Seq(Chars) : rooted = Cat(Append(e, "/"), x)
    BY <1>10 DEF EndsInName
  <2>2. e # <<>>
    <3> SUFFICES ASSUME e = <<>> PROVE FALSE
      OBVIOUS
    <3>1. rooted = Cat(Slash, x) /\ x \in Seq(Chars)
      BY <1>7, <2>1, SlashIs DEF IsName
    <3>2. PICK s \in Seq(Chars) : s = Slash /\ Len(s) = 1 /\ s[1] = "/"
      BY SlashIsAPath
    <3>3. BeginsInSlash(s) /\ s # <<>>
      <4>0. s = <<>> <=> Len(s) = 0
        OBVIOUS
      <4>1. Len(s) > 0 /\ s # <<>>
        BY <3>2, <4>0
      <4> QED BY <3>2, <4>1 DEF BeginsInSlash
    <3>4. BeginsInSlash(Cat(s, x))
      BY <3>1, <3>3, CatEnds
    <3> QED BY <1>10, <3>1, <3>2, <3>4
  <2>3. /\ getDirectory(rooted) = e /\ Segments(e) = Front(Segments(rooted))
        /\ BeginsInSlash(rooted) <=> BeginsInSlash(e)
    BY <1>7, <2>1, <2>2, DirectoryOfFile
  <2>4. /\ join(e, f) \in Seq(Chars) /\ Segments(join(e, f)) = Cat(Segments(e), Segments(f))
        /\ BeginsInSlash(join(e, f)) <=> BeginsInSlash(e)
    BY <2>2, JoinHas
  <2>5. Segments(getFullFilesystemPath(routes[i], path)) = Cat(Segments(d), Segments(f))
    BY <1>1, <1>3, <1>5, FileOfPath
  <2> QED BY <1>1, <1>3, <1>9, <1>10, <1>11, <1>13, <2>3, <2>4, <2>5
<1> QED BY <1>5, <1>12, <1>13

\* The current route is a location the path is in, or the first if it is in none
\* (setCorrectRoute).
LEMMA CurrentRoute ==
  ASSUME CacheIsCoherent, config # [path |-> <<>>, route |-> NoRoute]
  PROVE  \E i \in 1..Len(routes) :
           /\ config.route = routes[i]
           /\ \/ Matches(routes[i], config.path)
              \/ i = 1 /\ \A j \in 1..Len(routes) : ~Matches(routes[j], config.path)
<1> DEFINE path == config.path
           S == {i \in 1..Len(routes) : Matches(routes[i], path)}
<1>1. config.route = _findRoute(path)
  BY DEF CacheIsCoherent
<1>2. PICK best : IsLongest(best, Len(routes), path) /\ _findRoute(path) = best.route
  BY FindRouteIsLongest
<1>3. \/ S = {} /\ best = First
      \/ \E i \in S : best = [route |-> routes[i], length |-> Len(routes[i].path)]
  BY <1>2 DEF IsLongest
<1>4. 1 \in 1..Len(routes)
  BY RoutesAssumption
<1>5. CASE S = {} /\ best = First
  <2>1. config.route = routes[1]
    BY <1>1, <1>2, <1>5 DEF First
  <2> QED BY <1>4, <1>5, <2>1
<1>6. CASE \E i \in S : best = [route |-> routes[i], length |-> Len(routes[i].path)]
  <2>1. PICK i \in S : best = [route |-> routes[i], length |-> Len(routes[i].path)]
    BY <1>6
  <2>2. config.route = routes[i]
    BY <1>1, <1>2, <2>1
  <2> QED BY <2>1, <2>2
<1> QED BY <1>3, <1>5, <1>6

\* With the cache coherent, every path asked for has its file (getFullFilesystemPath,
\* getUploadPath).
LEMMA CoherentPathsHaveFiles ==
  ASSUME LocationsAreNormal, CacheIsCoherent,
         config.path \in Paths \/ config = [path |-> <<>>, route |-> NoRoute]
  PROVE  PathsNameTheirFiles
<1>1. CASE config = [path |-> <<>>, route |-> NoRoute]
  <2>1. config.route = NoRoute
    BY <1>1
  <2> QED BY <2>1 DEF PathsNameTheirFiles, FilesAreBelowTheRoot, UploadsAreServed
<1>2. CASE config # [path |-> <<>>, route |-> NoRoute]
  <2>1. PICK path \in Paths : path = config.path
    BY <1>2
  <2>2. PICK i \in 1..Len(routes) :
           /\ config.route = routes[i]
           /\ \/ Matches(routes[i], path)
              \/ i = 1 /\ \A j \in 1..Len(routes) : ~Matches(routes[j], path)
    BY <1>2, <2>1, CurrentRoute
  <2> DEFINE r == routes[i]
             f == removePrefix(normalize(path), r.path)
             names == Segments(path)
             above == Segments(getDocumentRoot(r))
             rest == IF Matches(r, path)
                       THEN SubSeq(names, Len(Segments(r.path)) + 1, Len(names)) ELSE names
  <2>3. normalize(r.path) = r.path /\ f \in Seq(Chars) /\ Segments(f) = rest
    <3>1. normalize(r.path) = r.path /\ RestPathIs(f, i, path)
      BY <2>2, RestOfPath
    <3> HIDE DEF f
    <3> QED BY <3>1 DEF RestPathIs
  <2>4. Segments(getFullFilesystemPath(r, path)) = above \o rest
    <3>1. Segments(getFullFilesystemPath(r, path)) = Cat(above, Segments(f))
      BY <2>3, FileOfPath
    <3> HIDE DEF f, rest, above, r
    <3> QED BY <2>3, <3>1 DEF Cat
  <2>5. FilesAreBelowTheRoot
    BY <2>1, <2>2, <2>4 DEF FilesAreBelowTheRoot
  <2> DEFINE u == r.uploadPath
             file == IF isRelative(u) THEN Segments(u) ELSE above \o Segments(u)
  <2>6. /\ r.uploadAllowed /\ NamesAFile(u) /\ Front(file) = above
        /\ Matches(r, path) /\ r.path # Slash
        => /\ isRelative(getUploadPath(r, path))
           /\ Segments(getUploadPath(r, path))
                = IF path = r.path THEN file ELSE Segments(getFullFilesystemPath(r, path))
    <3> SUFFICES ASSUME r.uploadAllowed, NamesAFile(u), Front(file) = above,
                        Matches(r, path), r.path # Slash
                 PROVE  /\ isRelative(getUploadPath(r, path))
                        /\ Segments(getUploadPath(r, path))
                             = IF path = r.path THEN file
                               ELSE Segments(getFullFilesystemPath(r, path))
      OBVIOUS
    <3>1. file = IF isRelative(u) THEN Segments(u) ELSE Cat(above, Segments(u))
      BY DEF Cat
    <3> HIDE DEF file
    <3> QED BY <3>1, UploadOfPath
  <2>7. UploadsAreServed
    <3> HIDE DEF PathsNameTheirFiles
    <3> QED BY <2>1, <2>2, <2>6 DEF UploadsAreServed
  <2> QED BY <2>5, <2>7 DEF PathsNameTheirFiles
<1> QED BY <1>1, <1>2

\* With locations in normal form, a request is always for the file below the root of
\* its location that the rest of its path names, and what was uploaded under a name is
\* what a request for the name gets (getFullFilesystemPath, getUploadPath).
THEOREM PathsAreTheirFiles ==
  ASSUME LocationsAreNormal
  PROVE  ConfigSpec => []PathsNameTheirFiles
<1> DEFINE Asked == config.path \in Paths \/ config = [path |-> <<>>, route |-> NoRoute]
<1>1. ConfigInit => Asked
  BY DEF ConfigInit
<1>2. Asked /\ [ConfigNext]_config => Asked'
  <2> SUFFICES ASSUME Asked, [ConfigNext]_config PROVE Asked'
    OBVIOUS
  <2>1. CASE ConfigNext
    <3>1. PICK path \in Paths : config' = Correct(config, path)
      BY <2>1 DEF ConfigNext, setCorrectRoute
    <3>2. config' = config \/ config'.path = path
      BY <3>1 DEF Correct
    <3> QED BY <3>2
  <2>2. CASE UNCHANGED config
    BY <2>2
  <2> QED BY <2>1, <2>2
<1>3. CacheIsCoherent /\ Asked => PathsNameTheirFiles
  BY CoherentPathsHaveFiles
<1> QED BY <1>1, <1>2, <1>3, CacheStaysCoherent, PTL DEF ConfigSpec
=============================================================================
