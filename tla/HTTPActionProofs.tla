-------------------------- MODULE HTTPActionProofs ---------------------------
(***************************************************************************)
(* The answers to requests, for every site and every sequence of requests. *)
(***************************************************************************)
EXTENDS HTTPAction, ServerConfigProofs

----------------------------------------------------------------------------
(* Paths are sequences of something.                                       *)

\* What a path is, whatever its characters are.
IsPath(p) == \E S : p \in Seq(S)

\* Two paths are of one alphabet, and so is one after the other.
LEMMA PathsJoined ==
  ASSUME NEW p, NEW q, IsPath(p), IsPath(q)
  PROVE  IsPath(p \o q) /\ Len(p \o q) = Len(p) + Len(q)
<1>1. PICK S : p \in Seq(S)
  BY DEF IsPath
<1>2. PICK T : q \in Seq(T)
  BY DEF IsPath
<1>3. \E U : p \in Seq(U) /\ q \in Seq(U)
  <2> DEFINE U == S \cup T
  <2>1. (\A i \in 1..Len(p) : p[i] \in U) /\ \A i \in 1..Len(q) : q[i] \in U
    BY <1>1, <1>2
  <2>2. p \in Seq(U) /\ q \in Seq(U)
    <3> HIDE DEF U
    <3> QED BY <1>1, <1>2, <2>1
  <2> QED BY <2>2
<1>4. PICK U : p \in Seq(U) /\ q \in Seq(U)
  BY <1>3
<1>5. p \o q \in Seq(U) /\ Len(p \o q) = Len(p) + Len(q)
  BY <1>4, ConcatProperties
<1> QED BY <1>5 DEF IsPath

\* A part of a path is one.
LEMMA PartIsAPath ==
  ASSUME NEW p, IsPath(p), NEW m \in 1..(Len(p) + 1), NEW n \in 0..Len(p)
  PROVE  IsPath(SubSeq(p, m, n))
<1>1. PICK S : p \in Seq(S)
  BY DEF IsPath
<1>2. SubSeq(p, m, n) \in Seq(S)
  BY <1>1
<1> QED BY <1>2 DEF IsPath

\* What is made of n things is a path.
LEMMA MadeIsAPath ==
  ASSUME NEW f, NEW n \in Nat, f = [i \in 1..n |-> f[i]]
  PROVE  IsPath(f) /\ Len(f) = n
<1> DEFINE S == {f[i] : i \in 1..n}
<1>1. \A i \in 1..n : f[i] \in S
  OBVIOUS
<1> HIDE DEF S
<1>2. f \in Seq(S) /\ Len(f) = n
  BY <1>1
<1> QED BY <1>2 DEF IsPath

\* Of numbers one by one, those that are kept are a sequence, and not an empty one if
\* the first is kept.
LEMMA KeptAre ==
  ASSUME NEW n \in Nat, NEW K \in SUBSET (1..n)
  PROVE  LET kept == FlattenSeq([i \in 1..n |-> IF i \in K THEN <<i>> ELSE <<>>]) IN
         /\ kept \in Seq(Nat)
         /\ 1 \in K => Len(kept) >= 1
<1> DEFINE s == [i \in 1..n |-> IF i \in K THEN <<i>> ELSE <<>>]
<1>1. s \in Seq(Seq(Nat)) /\ Len(s) = n
  <2>1. \A i \in 1..n : <<i>> \in Seq(Nat)
    OBVIOUS
  <2>2. \A i \in 1..n : s[i] \in Seq(Nat)
    BY <2>1
  <2>3. s = [i \in 1..n |-> s[i]]
    OBVIOUS
  <2> HIDE DEF s
  <2> QED BY <2>2, <2>3
<1>2. \A i \in 1..n : s[i] = IF i \in K THEN <<i>> ELSE <<>>
  OBVIOUS
<1> HIDE DEF s
<1>3. PICK f : /\ f \in [0..Len(s) -> Seq(Nat)] /\ f[0] = <<>> /\ f[Len(s)] = FlattenSeq(s)
               /\ \A k \in 0..(Len(s) - 1) : f[k + 1] = Cat(f[k], s[k + 1])
  BY <1>1, FlattenIs DEF Flattens
<1>4. FlattenSeq(s) \in Seq(Nat)
  BY <1>1, <1>3
<1>5. ASSUME 1 \in K PROVE Len(FlattenSeq(s)) >= 1
  <2> DEFINE N == {k \in Nat : k + 1 <= n => Len(f[k + 1]) >= 1}
  <2>1. 0 \in N
    <3>1. n >= 1 /\ s[1] = <<1>> /\ <<1>> \in Seq(Nat) /\ f[1] = Cat(f[0], s[1])
      BY <1>1, <1>2, <1>3, <1>5
    <3>2. f[1] = <<1>>
      BY <1>3, <3>1, CatEmpty
    <3> QED BY <3>2
  <2>2. ASSUME NEW k \in Nat, k \in N PROVE k + 1 \in N
    <3> SUFFICES ASSUME k + 1 + 1 <= n PROVE Len(f[k + 1 + 1]) >= 1
      OBVIOUS
    <3>1. PICK j \in 1..(n - 1) : j = k + 1
      OBVIOUS
    <3>2. Len(f[j]) >= 1 /\ f[j] \in Seq(Nat) /\ s[j + 1] \in Seq(Nat)
      BY <1>1, <1>3, <2>2, <3>1
    <3>3. PICK x \in Seq(Nat), y \in Seq(Nat) : f[j + 1] = Cat(x, y) /\ Len(x) >= 1
      BY <1>1, <1>3, <3>2
    <3>4. Len(Cat(x, y)) = Len(x) + Len(y)
      BY ONLY ConcatProperties, x \in Seq(Nat), y \in Seq(Nat) DEF Cat
    <3>5. Len(x) \in Nat /\ Len(y) \in Nat
      OBVIOUS
    <3>6. Len(f[j + 1]) >= 1
      BY <3>3, <3>4, <3>5
    <3> QED BY <3>1, <3>6
  <2> HIDE DEF N
  <2>3. \A k \in Nat : k \in N
    BY ONLY <2>1, <2>2, AllNaturals
  <2>4. n - 1 \in N /\ n >= 1
    BY <1>5, <2>3
  <2> QED BY <1>1, <1>3, <2>4 DEF N
<1> QED BY <1>4, <1>5 DEF s


\* The normal form is a path, and nothing only of nothing (Path's constructors).
LEMMA NormalIsAPath ==
  ASSUME NEW p, IsPath(p)
  PROVE  IsPath(normalize(p)) /\ (p # <<>> => normalize(p) # <<>>)
<1> DEFINE n == Len(p)
           K == {i \in 1..n : p[i] # "/" \/ i = 1 \/ p[i - 1] # "/"}
           kept == FlattenSeq([i \in 1..n |-> IF i \in K THEN <<i>> ELSE <<>>])
           kept2 == Positions(p, LAMBDA i : p[i] # "/" \/ i = 1 \/ p[i - 1] # "/")
           f == [i \in 1..Len(kept) |-> p[kept[i]]]
<1>1. n \in Nat /\ (p # <<>> => n >= 1)
  BY DEF IsPath
<1>2. kept = kept2
  <2>1. [i \in 1..n |-> IF i \in K THEN <<i>> ELSE <<>>]
          = [i \in 1..n |-> IF p[i] # "/" \/ i = 1 \/ p[i - 1] # "/" THEN <<i>> ELSE <<>>]
    OBVIOUS
  <2> QED BY <2>1 DEF Positions
<1>3. kept \in Seq(Nat) /\ (1 \in K => Len(kept) >= 1)
  <2> HIDE DEF n, kept
  <2>1. K \in SUBSET (1..n)
    OBVIOUS
  <2> HIDE DEF K
  <2> QED BY ONLY <1>1, <2>1, KeptAre DEF kept
<1> HIDE DEF kept
<1>4. normalize(p) = f
  BY <1>2 DEF normalize
<1>5. Len(kept) \in Nat
  BY <1>3
<1>6. IsPath(f) /\ Len(f) = Len(kept)
  <2>1. f = [i \in 1..Len(kept) |-> f[i]]
    OBVIOUS
  <2> HIDE DEF f
  <2> QED BY <1>5, <2>1, MadeIsAPath
<1>7. p # <<>> => f # <<>>
  <2>1. p # <<>> => 1 \in K
    BY <1>1
  <2>2. Len(<<>>) = 0
    OBVIOUS
  <2> QED BY <1>3, <1>6, <2>1, <2>2
<1> QED BY <1>4, <1>6, <1>7

\* So is what the file system makes of a path.
LEMMA SegmentsAreAPath ==
  ASSUME NEW p, IsPath(p)
  PROVE  IsPath(Segments(p))
<1> DEFINE names(i) == p[i] # "/" /\ ~(p[i] = "." /\ Starts(p, i) /\ Ends(p, i))
           K == {i \in 1..Len(p) : names(i) /\ Starts(p, i)}
           kept == FlattenSeq([i \in 1..Len(p) |-> IF i \in K THEN <<i>> ELSE <<>>])
           last == Positions(p, LAMBDA i : names(i) /\ Ends(p, i))
           f == [i \in 1..Len(kept) |-> SubSeq(p, kept[i], last[i])]
<1>1. Len(p) \in Nat
  BY DEF IsPath
<1>2. kept = Positions(p, LAMBDA i : names(i) /\ Starts(p, i))
  <2> HIDE DEF names
  <2>1. [i \in 1..Len(p) |-> IF i \in K THEN <<i>> ELSE <<>>]
          = [i \in 1..Len(p) |-> IF names(i) /\ Starts(p, i) THEN <<i>> ELSE <<>>]
    OBVIOUS
  <2> QED BY <2>1 DEF Positions
<1>3. kept \in Seq(Nat)
  <2> HIDE DEF names, kept
  <2>1. K \in SUBSET (1..Len(p))
    OBVIOUS
  <2> HIDE DEF K
  <2> QED BY ONLY <1>1, <2>1, KeptAre DEF kept
<1> HIDE DEF kept
<1>4. Segments(p) = f
  <2> HIDE DEF last
  <2> QED BY <1>2 DEF Segments, last
<1>5. IsPath(f)
  <2>1. f = [i \in 1..Len(kept) |-> f[i]]
    OBVIOUS
  <2>2. Len(kept) \in Nat
    BY <1>3
  <2> HIDE DEF f
  <2> QED BY <2>1, <2>2, MadeIsAPath
<1> QED BY <1>4, <1>5

\* Two paths are joined to one (Path).
LEMMA JoinIsAPath ==
  ASSUME NEW p, NEW q, IsPath(p), IsPath(q)
  PROVE  IsPath(join(p, q))
<1>1. IsPath(p \o q) /\ IsPath(Slash) /\ IsPath(p \o Slash \o q)
  <2>1. Slash \in Seq({"/"})
    BY DEF Slash
  <2>2. IsPath(Slash)
    BY <2>1 DEF IsPath
  <2> QED BY <2>2, PathsJoined
<1>2. q # <<>> => IsPath(Tail(q))
  <2>1. PICK S : q \in Seq(S)
    BY DEF IsPath
  <2>2. q # <<>> => Tail(q) \in Seq(S)
    BY <2>1
  <2> QED BY <2>2 DEF IsPath
<1>3. q # <<>> => IsPath(p \o Tail(q))
  BY <1>2, PathsJoined
<1> QED BY <1>1, <1>3, NormalIsAPath DEF join

\* A path without its prefix is one.
LEMMA RestIsAPath ==
  ASSUME NEW p, NEW q, IsPath(p), IsPath(q)
  PROVE  IsPath(removePrefix(p, q))
<1>1. CASE startsWith(p, q)
  <2>1. PICK S : p \in Seq(S)
    BY DEF IsPath
  <2>2. PICK T : q \in Seq(T)
    BY DEF IsPath
  <2>3. Len(q) <= Len(p) /\ Len(q) \in Nat /\ Len(p) \in Nat
    BY <1>1, <2>1, <2>2 DEF startsWith, IsPrefix
  <2>4. IsPath(SubSeq(p, Len(q) + 1, Len(p)))
    BY <2>3, PartIsAPath
  <2> QED BY <2>4 DEF removePrefix
<1>2. CASE ~startsWith(p, q)
  BY <1>2 DEF removePrefix
<1> QED BY <1>1, <1>2

\* A path from the working directory is one, and never nothing (makeRelative).
LEMMA RelativeIsAPath ==
  ASSUME NEW p, IsPath(p)
  PROVE  IsPath(makeRelative(p)) /\ makeRelative(p) # <<>>
<1>1. PICK d : d = <<".", "/">> /\ IsPath(d) /\ Len(d) = 2
  <2>1. <<".", "/">> \in Seq({".", "/"}) /\ Len(<<".", "/">>) = 2
    OBVIOUS
  <2> QED BY <2>1 DEF IsPath
<1>2. IsPath(d \o p) /\ d \o p # <<>>
  <2>1. Len(d \o p) = 2 + Len(p) /\ IsPath(d \o p)
    BY <1>1, PathsJoined
  <2>2. Len(p) \in Nat /\ Len(<<>>) = 0
    BY DEF IsPath
  <2> QED BY <2>1, <2>2
<1>3. IsPrefix(d, p) => p # <<>>
  BY <1>1 DEF IsPrefix
<1>4. IsPath(normalize(d \o p)) /\ normalize(d \o p) # <<>>
  BY <1>2, NormalIsAPath
<1> QED BY <1>1, <1>3, <1>4 DEF makeRelative


\* Of some numbers up to n there is a last.
LEMMA LastThereIs ==
  ASSUME NEW n \in Nat, NEW I \in SUBSET (1..n), I # {}
  PROVE  Max(I) \in I /\ \A i \in I : Max(I) >= i
<1> DEFINE N == {k \in Nat : \A J \in SUBSET (1..k) :
                   J # {} => \E x \in J : \A y \in J : x >= y}
<1>1. 0 \in N
  <2>1. 1..0 = {}
    OBVIOUS
  <2>2. \A J \in SUBSET (1..0) : J = {}
    BY <2>1
  <2> QED BY <2>2
<1>2. ASSUME NEW k \in Nat, k \in N PROVE k + 1 \in N
  <2> SUFFICES ASSUME NEW J \in SUBSET (1..(k + 1)), J # {}
               PROVE  \E x \in J : \A y \in J : x >= y
    OBVIOUS
  <2>1. CASE k + 1 \in J
    <3>1. \A y \in J : k + 1 >= y
      OBVIOUS
    <3> QED BY <2>1, <3>1
  <2>2. CASE k + 1 \notin J
    <3>1. J \in SUBSET (1..k)
      <4>1. \A y \in J : y \in 1..(k + 1) /\ y # k + 1
        BY <2>2
      <4>2. \A y \in J : y \in 1..k
        BY <4>1
      <4> QED BY <4>2
    <3> QED BY <1>2, <3>1
  <2> QED BY <2>1, <2>2
<1>3. \A k \in Nat : k \in N
  <2> HIDE DEF N
  <2> QED BY ONLY <1>1, <1>2, AllNaturals
<1>4. \E x \in I : \A y \in I : x >= y
  BY <1>3
<1> QED BY <1>4 DEF Max

\* What is before the last slash is a path (getDirectory).
LEMMA DirectoryIsAPath ==
  ASSUME NEW p, IsPath(p)
  PROVE  IsPath(getDirectory(p))
<1> DEFINE I == {i \in 1..Len(p) : p[i] = "/"}
           last == SelectLastInSeq(p, LAMBDA c : c = "/")
<1>1. Len(p) \in Nat
  BY DEF IsPath
<1>2. last \in 0..Len(p)
  <2>1. last = IF I # {} THEN Max(I) ELSE 0
    BY DEF SelectLastInSeq
  <2>2. I # {} => Max(I) \in I
    <3>1. I \in SUBSET (1..Len(p))
      OBVIOUS
    <3> HIDE DEF I
    <3> QED BY ONLY <1>1, <3>1, LastThereIs
  <2> HIDE DEF last
  <2> QED BY <1>1, <2>1, <2>2
<1>3. Slash \in Seq({"/"})
  BY DEF Slash
<1>4. IsPath(Slash)
  BY <1>3 DEF IsPath
<1>5. getDirectory(p) = IF last = 1 THEN Slash ELSE SubSeq(p, 1, last - 1)
  BY DEF getDirectory
<1> HIDE DEF last
<1>6. IsPath(SubSeq(p, 1, last - 1))
  <2>1. PICK S : p \in Seq(S)
    BY DEF IsPath
  <2>2. CASE last = 0
    <3>1. SubSeq(p, 1, last - 1) = <<>>
      BY <2>1, <2>2
    <3>2. <<>> \in Seq(S)
      OBVIOUS
    <3> QED BY <3>1, <3>2 DEF IsPath
  <2>3. CASE last # 0
    <3>1. SubSeq(p, 1, last - 1) \in Seq(S)
      BY <1>1, <1>2, <2>1, <2>3
    <3> QED BY <3>1 DEF IsPath
  <2> QED BY <2>2, <2>3
<1> QED BY <1>4, <1>5, <1>6

\* The root, the path and the index files of a location are paths.
LEMMA RoutesHavePaths ==
  ASSUME NEW r \in Routes
  PROVE  /\ IsPath(r.path) /\ IsPath(r.uploadPath) /\ IsPath(getDocumentRoot(r))
         /\ Len(r.defaultFiles) \in Nat
         /\ \A i \in 1..Len(r.defaultFiles) : IsPath(r.defaultFiles[i])
<1>1. PICK i \in 1..Len(routes) : r = routes[i]
  BY RoutesAssumption DEF Routes, ToSet
<1>2. r.path \in Seq(STRING) /\ r.root \in Seq(STRING) /\ r.uploadPath \in Seq(STRING)
      /\ r.defaultFiles \in Seq(Seq(STRING)) /\ root \in Seq(STRING)
  BY <1>1, RoutesAssumption, LocationsAssumption
<1>3. Len(r.defaultFiles) \in Nat /\ \A k \in 1..Len(r.defaultFiles) :
                                       r.defaultFiles[k] \in Seq(STRING)
  BY <1>2
<1>4. IsPath(IF r.root # <<>> THEN r.root ELSE root)
  BY <1>2 DEF IsPath
<1>5. IsPath(getDocumentRoot(r))
  BY <1>4, NormalIsAPath DEF getDocumentRoot
<1> QED BY <1>2, <1>3, <1>5 DEF IsPath

\* Whatever is asked for, there is a path to its file (getFullFilesystemPath).
LEMMA FileHasAPath ==
  ASSUME NEW r \in Routes, NEW p, IsPath(p)
  PROVE  LET path == getFullFilesystemPath(r, p) IN
         IsPath(path) /\ path # <<>> /\ IsPath(Segments(path))
<1>1. IsPath(normalize(p)) /\ IsPath(normalize(r.path)) /\ IsPath(getDocumentRoot(r))
  BY RoutesHavePaths, NormalIsAPath
<1>2. IsPath(removePrefix(normalize(p), normalize(r.path)))
  BY <1>1, RestIsAPath
<1>3. IsPath(join(getDocumentRoot(r), removePrefix(normalize(p), normalize(r.path))))
  BY <1>1, <1>2, JoinIsAPath
<1> QED BY <1>3, RelativeIsAPath, SegmentsAreAPath DEF getFullFilesystemPath

\* Whatever is uploaded, there is a path to its file (getUploadPath).
LEMMA UploadHasAPath ==
  ASSUME NEW r \in Routes, NEW p, IsPath(p)
  PROVE  IsPath(getUploadPath(r, p)) /\ IsPath(Segments(getUploadPath(r, p)))
<1> DEFINE rawPath == normalize(r.uploadPath)
           rootedPath == IF isRelative(rawPath) THEN rawPath
                         ELSE makeRelative(join(getDocumentRoot(r), rawPath))
           fileName == removePrefix(normalize(p), r.path)
<1>1. IsPath(rawPath) /\ IsPath(normalize(p)) /\ IsPath(r.path) /\ IsPath(getDocumentRoot(r))
  BY RoutesHavePaths, NormalIsAPath
<1>2. IsPath(rootedPath) /\ IsPath(fileName)
  BY <1>1, JoinIsAPath, RelativeIsAPath, RestIsAPath
<1>3. getUploadPath(r, p) = IF ~r.uploadAllowed THEN <<>>
                            ELSE IF fileName = <<>> THEN rootedPath
                            ELSE join(getDirectory(rootedPath), fileName)
  BY DEF getUploadPath
<1> HIDE DEF rootedPath, fileName
<1>5. IsPath(<<>>)
  BY DEF IsPath
<1>4. IsPath(getUploadPath(r, p))
  BY <1>2, <1>3, <1>5, DirectoryIsAPath, JoinIsAPath
<1> QED BY <1>4, SegmentsAreAPath


----------------------------------------------------------------------------
(* Responses.                                                              *)

\* What a response is made of.
IsResponse(t) ==
  /\ t = [status |-> t.status, location |-> t.location, body |-> t.body]
  /\ t.body = [from |-> t.body.from, code |-> t.body.code, content |-> t.body.content]

\* A body.
IsBody(b) == b = [from |-> b.from, code |-> b.code, content |-> b.content]

\* A response starts as one.
LEMMA NewIsAResponse ==
  IsResponse(NewResponse) /\ NewResponse.status = 200
BY DEF IsResponse, NewResponse, Body

\* setStatusCode changes the status only.
LEMMA StatusIsSet ==
  ASSUME NEW t, IsResponse(t), NEW code
  PROVE  /\ IsResponse(setStatusCode(t, code)) /\ setStatusCode(t, code).status = code
         /\ setStatusCode(t, code).body = t.body
BY DEF IsResponse, setStatusCode

\* setBody changes the body only.
LEMMA BodyIsSet ==
  ASSUME NEW t, IsResponse(t), NEW b, IsBody(b)
  PROVE  /\ IsResponse(setBody(t, b)) /\ setBody(t, b).status = t.status
         /\ setBody(t, b).body.from = b.from /\ setBody(t, b).body.code = b.code
         /\ setBody(t, b).body.content = b.content \o <<"\n", "\r">>
<1>1. PICK f, c, x : b = [from |-> f, code |-> c, content |-> x]
  BY DEF IsBody
<1>2. PICK y : y = x \o <<"\n", "\r">>
  OBVIOUS
<1>3. [b EXCEPT !.content = @ \o <<"\n", "\r">>] = [from |-> f, code |-> c, content |-> y]
  <2>1. b.content = x
    BY <1>1
  <2>2. [b EXCEPT !.content = @ \o <<"\n", "\r">>] = [b EXCEPT !.content = y]
    BY <1>2, <2>1
  <2>3. [b EXCEPT !.content = y] = [from |-> f, code |-> c, content |-> y]
    BY <1>1
  <2> QED BY <2>2, <2>3
<1>4. setBody(t, b) = [t EXCEPT !.body = [from |-> f, code |-> c, content |-> y]]
  BY <1>3 DEF setBody
<1>5. IsResponse(setBody(t, b)) /\ setBody(t, b).status = t.status
      /\ setBody(t, b).body = [from |-> f, code |-> c, content |-> y]
  BY <1>4 DEF IsResponse
<1> HIDE DEF setBody
<1> QED BY <1>1, <1>2, <1>5

\* The built-in page is for the status the response has.
LEMMA BuiltInPage ==
  ASSUME NEW t, IsResponse(t)
  PROVE  LET page == _setCustomErrorBody(t) IN
         /\ IsResponse(page) /\ page.status = t.status
         /\ page.body.from = "built in" /\ page.body.code = t.status
<1> DEFINE b == [from |-> "built in", code |-> t.status, content |-> <<>>]
<1>1. IsBody(b) /\ b.from = "built in" /\ b.code = t.status
  BY DEF IsBody
<1>2. _setCustomErrorBody(t) = setBody(t, b)
  BY DEF _setCustomErrorBody
<1> HIDE DEF b
<1>3. /\ IsResponse(setBody(t, b)) /\ setBody(t, b).status = t.status
      /\ setBody(t, b).body.from = b.from /\ setBody(t, b).body.code = b.code
  BY <1>1, BodyIsSet
<1> QED BY <1>1, <1>2, <1>3

\* What a response has of a file that is opened, and of one that is not.
HasFile(t, u, filePath, fs) ==
  LET e == Errno(fs, Segments(filePath)) IN
  /\ IsResponse(u)
  /\ filePath = <<>> => /\ u.status = t.status /\ u.body.from = "built in"
                        /\ u.body.code = t.status
  /\ filePath # <<>> /\ e = "0" =>
       /\ u.status = t.status /\ u.body.from = "file"
       /\ u.body.content = Contents(fs, Segments(filePath)) \o <<"\n", "\r">>
  /\ filePath # <<>> /\ e # "0" =>
       /\ u.status = OpenError(e)
       /\ ~Good(t.status) => u.body.from = "built in" /\ u.body.code = t.status

\* A file is put into a response (setBodyFromFile).
LEMMA FileOrError ==
  ASSUME NEW t, IsResponse(t), NEW filePath, NEW fs
  PROVE  HasFile(t, setBodyFromFile(t, filePath, fs), filePath, fs)
<1> DEFINE p == Segments(filePath)
           page == IF Good(t.status) THEN t ELSE _setCustomErrorBody(t)
           b == Body("file", Contents(fs, p))
<1>1. IsResponse(page) /\ (~Good(t.status) => page.body.from = "built in"
                                            /\ page.body.code = t.status)
  BY BuiltInPage
<1>2. IsBody(b) /\ b.from = "file" /\ b.content = Contents(fs, p)
  BY DEF IsBody, Body
<1>3. setBodyFromFile(t, filePath, fs) =
        IF filePath = <<>> THEN _setCustomErrorBody(t)
        ELSE IF Errno(fs, p) # "0" THEN setStatusCode(page, OpenError(Errno(fs, p)))
        ELSE setBody(t, b)
  BY DEF setBodyFromFile
<1> HIDE DEF page, b
<1>4. CASE filePath = <<>>
  BY <1>3, <1>4, BuiltInPage DEF HasFile
<1>5. CASE filePath # <<>> /\ Errno(fs, p) # "0"
  <2>1. PICK c : c = OpenError(Errno(fs, p))
    OBVIOUS
  <2>2. /\ IsResponse(setStatusCode(page, c)) /\ setStatusCode(page, c).status = c
        /\ setStatusCode(page, c).body = page.body
    BY <1>1, StatusIsSet
  <2> QED BY <1>1, <1>3, <1>5, <2>1, <2>2 DEF HasFile
<1>6. CASE filePath # <<>> /\ Errno(fs, p) = "0"
  <2>1. /\ IsResponse(setBody(t, b)) /\ setBody(t, b).status = t.status
        /\ setBody(t, b).body.from = b.from
        /\ setBody(t, b).body.content = b.content \o <<"\n", "\r">>
    BY <1>2, BodyIsSet
  <2> QED BY <1>2, <1>3, <1>6, <2>1 DEF HasFile
<1> QED BY <1>4, <1>5, <1>6

\* The statuses there are, one of a redirect aside.
Codes == {200, 201, 204, 400, 403, 404, 405, 409, 500, 501}

\* A page of an error says what the matter is: the error itself, or, where its own page
\* cannot be opened, why.
Explains(t, fs) ==
  \/ /\ t.body.from = "file" /\ t.status \in DOMAIN error_pages
     /\ t.body.content = Contents(fs, Segments(getErrorPagePath(t.status)))
                           \o <<"\n", "\r">>
  \/ /\ t.body.from = "built in"
     /\ IF t.body.code \notin DOMAIN error_pages THEN t.body.code = t.status
        ELSE LET e == Errno(fs, Segments(getErrorPagePath(t.body.code))) IN
             e # "0" /\ t.status = OpenError(e)

\* Whatever the response was before, an error is answered with its page
\* (buildErrorPage).
LEMMA ErrorPageExplains ==
  ASSUME NEW t, IsResponse(t), NEW code \in Codes, ~Good(code), NEW fs
  PROVE  LET u == buildErrorPage(t, code, fs) IN
         IsResponse(u) /\ u.status \in Codes /\ ~Good(u.status) /\ Explains(u, fs)
<1> DEFINE s == setStatusCode(t, code)
           path == getErrorPagePath(code)
           u == setBodyFromFile(s, path, fs)
           e == Errno(fs, Segments(path))
<1>1. IsResponse(s) /\ s.status = code
  BY StatusIsSet
<1>2. path = <<>> <=> code \notin DOMAIN error_pages
  <2>1. code \notin DOMAIN error_pages => path = <<>>
    BY DEF getErrorPagePath
  <2>2. ASSUME code \in DOMAIN error_pages PROVE path # <<>>
    <3>1. PICK d : d = <<".", "/">> /\ IsPath(d) /\ Len(d) = 2
      <4>1. <<".", "/">> \in Seq({".", "/"}) /\ Len(<<".", "/">>) = 2
        OBVIOUS
      <4> QED BY <4>1 DEF IsPath
    <3>2. PICK x, y : x = root /\ y = error_pages[code] /\ IsPath(x) /\ IsPath(y)
      BY <2>2, RoutesAssumption DEF IsPath
    <3>3. path = (d \o x) \o y
      BY <2>2, <3>1, <3>2 DEF getErrorPagePath
    <3>4. Len((d \o x) \o y) = 2 + Len(x) + Len(y)
      BY <3>1, <3>2, PathsJoined
    <3>5. Len(x) \in Nat /\ Len(y) \in Nat /\ Len(<<>>) = 0
      BY <3>2 DEF IsPath
    <3> HIDE DEF path
    <3> QED BY <3>3, <3>4, <3>5
  <2> QED BY <2>1, <2>2
<1>3. buildErrorPage(t, code, fs) = u
  BY DEF buildErrorPage
<1>4. OpenError(e) \in Codes /\ ~Good(OpenError(e))
  BY DEF OpenError, Codes, Good
<1>5. /\ IsResponse(u)
      /\ path = <<>> => /\ u.status = s.status /\ u.body.from = "built in"
                        /\ u.body.code = s.status
      /\ path # <<>> /\ e = "0" =>
           /\ u.status = s.status /\ u.body.from = "file"
           /\ u.body.content = Contents(fs, Segments(path)) \o <<"\n", "\r">>
      /\ path # <<>> /\ e # "0" =>
           /\ u.status = OpenError(e)
           /\ ~Good(s.status) => u.body.from = "built in" /\ u.body.code = s.status
  <2> HIDE DEF s, path
  <2>1. HasFile(s, u, path, fs)
    BY <1>1, FileOrError
  <2> HIDE DEF u, e
  <2> QED BY <2>1 DEF HasFile, e
<1> HIDE DEF s, u
<1>6. u.status \in Codes /\ ~Good(u.status)
  BY <1>1, <1>4, <1>5
<1>7. Explains(u, fs)
  <2>1. CASE path = <<>>
    BY <1>1, <1>2, <1>5, <2>1 DEF Explains
  <2>2. CASE path # <<>> /\ e = "0"
    BY <1>1, <1>2, <1>5, <2>2 DEF Explains
  <2>3. CASE path # <<>> /\ e # "0"
    BY <1>1, <1>2, <1>5, <2>3 DEF Explains
  <2> QED BY <2>1, <2>2, <2>3
<1> QED BY <1>3, <1>5, <1>6, <1>7


----------------------------------------------------------------------------
(* Files.                                                                  *)

\* There is a directory above everything, and everything is a directory or has content.
IsTree(fs) ==
  \A p \in DOMAIN fs :
    /\ p # <<>>
    /\ fs[p] = Directory \/ IsPath(fs[p])
    /\ \A d \in Parents(p) : IsDirectory(fs, d)

\* What is above a path is its directory, or above that.
LEMMA ParentsAre ==
  ASSUME NEW p, IsPath(p), p # <<>>, NEW d \in Parents(p)
  PROVE  Front(p) # <<>> /\ (d = Front(p) \/ d \in Parents(Front(p)))
<1>1. PICK S : p \in Seq(S)
  BY DEF IsPath
<1>2. PICK i \in 1..(Len(p) - 1) : d = SubSeq(p, 1, i)
  BY DEF Parents
<1>3. PICK n \in Nat : n = Len(p) /\ n >= 2
  BY <1>1, <1>2
<1>4. PICK f : f = Front(p) /\ f = SubSeq(p, 1, n - 1)
  BY <1>3 DEF Front
<1>5. f \in Seq(S) /\ Len(f) = n - 1 /\ \A k \in 1..(n - 1) : f[k] = p[k]
  BY <1>1, <1>3, <1>4
<1>6. f # <<>>
  <2>1. Len(<<>>) = 0
    OBVIOUS
  <2> QED BY <1>3, <1>5, <2>1
<1>7. CASE i = n - 1
  BY <1>2, <1>4, <1>6, <1>7
<1>8. CASE i # n - 1
  <2>1. i \in 1..(Len(f) - 1)
    BY <1>2, <1>3, <1>5, <1>8
  <2>2. d \in Seq(S) /\ Len(d) = i /\ \A k \in 1..i : d[k] = p[k]
    BY <1>1, <1>2, <1>3
  <2>3. SubSeq(f, 1, i) \in Seq(S) /\ Len(SubSeq(f, 1, i)) = i
        /\ \A k \in 1..i : SubSeq(f, 1, i)[k] = f[k]
    BY <1>5, <2>1
  <2>4. \A k \in 1..i : d[k] = SubSeq(f, 1, i)[k]
    BY <1>2, <1>3, <1>5, <2>2, <2>3
  <2>5. d = SubSeq(f, 1, i)
    BY <2>2, <2>3, <2>4
  <2> QED BY <1>4, <1>6, <2>1, <2>5 DEF Parents
<1> QED BY <1>7, <1>8

\* What is written is below directories, and no directory is written over.
LEMMA PutKeepsTheTree ==
  ASSUME NEW fs, IsTree(fs), NEW p, IsPath(p), CanWrite(fs, p), NEW content, IsPath(content)
  PROVE  IsTree(Put(fs, p, content))
<1>1. p # <<>> /\ ~IsDirectory(fs, p) /\ IsDirectory(fs, Front(p))
  BY DEF CanWrite, IsDirectory
<1>2. ASSUME NEW d, IsDirectory(fs, d) PROVE IsDirectory(Put(fs, p, content), d)
  <2>1. d # p
    BY <1>1, <1>2
  <2> QED BY <1>2, <2>1 DEF IsDirectory, Put
<1>3. ASSUME NEW n \in DOMAIN Put(fs, p, content), NEW d \in Parents(n)
      PROVE  IsDirectory(fs, d)
  <2>1. CASE n \in DOMAIN fs
    BY <1>3, <2>1 DEF IsTree
  <2>2. CASE n = p
    <3>1. Front(p) # <<>> /\ (d = Front(p) \/ d \in Parents(Front(p)))
      BY <1>1, <1>3, <2>2, ParentsAre
    <3>2. Front(p) \in DOMAIN fs
      BY <1>1, <3>1 DEF IsDirectory
    <3> QED BY <1>1, <3>1, <3>2 DEF IsTree
  <2>3. n \in DOMAIN fs \cup {p}
    BY <1>3 DEF Put
  <2> QED BY <2>1, <2>2, <2>3
<1>4. ASSUME NEW n \in DOMAIN Put(fs, p, content)
      PROVE  n # <<>> /\ (Put(fs, p, content)[n] = Directory \/ IsPath(Put(fs, p, content)[n]))
  <2>1. CASE n = p
    <3>1. Put(fs, p, content)[n] = content
      BY <2>1 DEF Put
    <3> QED BY <1>1, <2>1, <3>1
  <2>2. CASE n # p
    <3>1. n \in DOMAIN fs /\ Put(fs, p, content)[n] = fs[n]
      BY <1>4, <2>2 DEF Put
    <3> QED BY <3>1 DEF IsTree
  <2> QED BY <2>1, <2>2
<1> QED BY <1>2, <1>3, <1>4 DEF IsTree

\* Nothing but p is different.
SameBut(fs, new, p) ==
  \A n : n # p => /\ n \in DOMAIN fs <=> n \in DOMAIN new
                  /\ n \in DOMAIN fs => new[n] = fs[n]

\* What is put in a place is nowhere else.
LEMMA PutIsThere ==
  ASSUME NEW fs, NEW p, NEW content
  PROVE  SameBut(fs, Put(fs, p, content), p) /\ SameBut(fs, fs, p)
BY DEF SameBut, Put

\* An upload: the files and the response.
IsUpload(u) ==
  /\ u = [fs |-> u.fs, response |-> u.response]
  /\ IsTree(u.fs) /\ IsResponse(u.response) /\ u.response.status \in Codes

\* What an upload does to its response alone.
LEMMA AnswerIsSet ==
  ASSUME NEW u, IsUpload(u), NEW t, IsResponse(t), t.status \in Codes
  PROVE  LET v == [u EXCEPT !.response = t] IN
         IsUpload(v) /\ v.fs = u.fs /\ v.response = t
BY DEF IsUpload

\* The body of success.
LEMMA SuccessIsSet ==
  ASSUME NEW u, IsUpload(u)
  PROVE  LET v == [u EXCEPT !.response = setBody(@, Body("success", <<>>))] IN
         IsUpload(v) /\ v.fs = u.fs /\ v.response.status = u.response.status
<1> DEFINE b == Body("success", <<>>)
           t == setBody(u.response, b)
<1>1. IsBody(b)
  BY DEF IsBody, Body
<1>2. IsResponse(t) /\ t.status = u.response.status
  BY <1>1, BodyIsSet DEF IsUpload
<1>3. [u EXCEPT !.response = setBody(@, b)] = [u EXCEPT !.response = t]
  BY DEF IsUpload
<1> HIDE DEF t
<1>4. t.status \in Codes
  BY <1>2 DEF IsUpload
<1>5. IsUpload([u EXCEPT !.response = t]) /\ [u EXCEPT !.response = t].fs = u.fs
      /\ [u EXCEPT !.response = t].response = t
  BY <1>2, <1>4, AnswerIsSet
<1> QED BY <1>2, <1>3, <1>5

\* The status of failure.
LEMMA FailureIsSet ==
  ASSUME NEW u, IsUpload(u), NEW code \in Codes
  PROVE  LET v == [u EXCEPT !.response.status = code] IN
         IsUpload(v) /\ v.fs = u.fs /\ v.response.status = code
<1> DEFINE t == setStatusCode(u.response, code)
<1>1. IsResponse(t) /\ t.status = code
  BY StatusIsSet DEF IsUpload
<1>2. [u EXCEPT !.response.status = code] = [u EXCEPT !.response = t]
  BY DEF IsUpload, setStatusCode
<1> HIDE DEF t
<1>3. IsUpload([u EXCEPT !.response = t]) /\ [u EXCEPT !.response = t].fs = u.fs
      /\ [u EXCEPT !.response = t].response = t
  BY <1>1, AnswerIsSet
<1> QED BY <1>1, <1>2, <1>3


----------------------------------------------------------------------------
(* Uploads.                                                                *)

\* Where a part goes, what it adds, and what it adds that to.
PlaceOf(q, r, part) ==
  Segments(getUploadPath(r, IF part.name # <<>> THEN part.name ELSE q.target))

TextOf(part) ==
  IF part.name # <<>> THEN part.content
  ELSE <<"time">> \o part.content \o <<"\n", "\n">>

OldOf(fs, p, part) ==
  IF part.name # <<>> \/ p \notin DOMAIN fs THEN <<>> ELSE fs[p]

\* From u to v something is written at p, and all of it if v says so.
Writes(u, v, p, text) ==
  /\ IsUpload(v)
  /\ SameBut(u.fs, v.fs, p)
  /\ v.response.status \in {u.response.status, 500}
  /\ v.response.status # 500 => v.fs = Put(u.fs, p, text)

\* What is written before the disk is full (saveFile, downloadFile).
LEMMA WriteOutWrites ==
  ASSUME NEW u, IsUpload(u), NEW p, IsPath(p), CanWrite(u.fs, p), NEW old,
         IsPath(old), NEW text, IsPath(text), NEW room \in Nat
  PROVE  LET length == IF room < Len(text) THEN room ELSE Len(text)
             v == WriteOut(u, p, old, text, length)
         IN  /\ Writes(u, v, p, old \o text)
             /\ room < Len(text) => v.response.status = 500
<1> DEFINE length == IF room < Len(text) THEN room ELSE Len(text)
           v == WriteOut(u, p, old, text, length)
           fs == Put(u.fs, p, old \o SubSeq(text, 1, length))
           t == IF length < Len(text) THEN setStatusCode(u.response, 500) ELSE u.response
<1>1. v = [fs |-> fs, response |-> t]
  BY DEF WriteOut
<1>2. IsTree(fs) /\ SameBut(u.fs, fs, p)
  <2>1. Len(text) \in Nat
    BY DEF IsPath
  <2>2. length \in 0..Len(text)
    BY <2>1
  <2>3. IsPath(SubSeq(text, 1, length))
    BY <2>1, <2>2, PartIsAPath
  <2>4. IsPath(old \o SubSeq(text, 1, length))
    BY <2>3, PathsJoined
  <2> QED BY <2>4, PutKeepsTheTree, PutIsThere DEF IsUpload
<1>3. IsResponse(t) /\ t.status \in Codes /\ t.status \in {u.response.status, 500}
  BY StatusIsSet DEF IsUpload, Codes
<1>4. room < Len(text) => t.status = 500
  BY StatusIsSet DEF IsUpload
<1>5. ~(room < Len(text)) => fs = Put(u.fs, p, old \o text)
  <2>1. PICK S : text \in Seq(S)
    BY DEF IsPath
  <2>2. SubSeq(text, 1, Len(text)) = text
    BY <2>1
  <2> QED BY <2>2
<1> HIDE DEF t, fs, v, length
<1>6. v.fs = fs /\ v.response = t /\ v = [fs |-> v.fs, response |-> v.response]
  BY <1>1
<1>7. IsUpload(v)
  BY <1>2, <1>3, <1>6 DEF IsUpload
<1>8. Writes(u, v, p, old \o text)
  BY <1>2, <1>3, <1>4, <1>5, <1>6, <1>7 DEF Writes
<1> QED BY <1>4, <1>6, <1>8 DEF v, length

\* A named part is put in the place of what is there (saveFile).
LEMMA SaveFileWrites ==
  ASSUME NEW u, IsUpload(u), NEW filePath, IsPath(Segments(filePath)), NEW content,
         IsPath(content), content # <<>>, NEW room \in Nat
  PROVE  Writes(u, saveFile(u, filePath, content, room), Segments(filePath),
                <<>> \o content)
<1> DEFINE p == Segments(filePath)
           length == IF room < Len(content) THEN room ELSE Len(content)
<1>1. CASE ~CanWrite(u.fs, p)
  <2> DEFINE v == [u EXCEPT !.response.status = 500]
  <2>1. saveFile(u, filePath, content, room) = v
    BY <1>1 DEF saveFile
  <2>2. IsUpload(v) /\ v.fs = u.fs /\ v.response.status = 500
    <3>1. 500 \in Codes
      BY DEF Codes
    <3> QED BY <3>1, FailureIsSet
  <2>3. SameBut(u.fs, u.fs, p)
    BY PutIsThere
  <2> HIDE DEF v
  <2> QED BY <2>1, <2>2, <2>3 DEF Writes
<1>2. CASE CanWrite(u.fs, p)
  <2>1. saveFile(u, filePath, content, room) = WriteOut(u, p, <<>>, content, length)
    BY <1>2 DEF saveFile
  <2>2. Writes(u, WriteOut(u, p, <<>>, content, length), p, <<>> \o content)
    <3>1. IsPath(<<>>)
      BY EmptySeq DEF IsPath
    <3>2. IsPath(p)
      OBVIOUS
    <3> HIDE DEF p
    <3> QED BY ZenonT(60), <1>2, <3>1, <3>2, WriteOutWrites
  <2> QED BY <2>1, <2>2
<1> QED BY <1>1, <1>2

\* A part without a name is added to the file of the target (downloadFile).
LEMMA DownloadFileWrites ==
  ASSUME NEW u, IsUpload(u), NEW q, NEW r, NEW body, IsPath(body), body # <<>>, NEW room \in Nat,
         IsPath(Segments(getUploadPath(r, q.target)))
  PROVE  LET p == Segments(getUploadPath(r, q.target))
             old == IF p \in DOMAIN u.fs THEN u.fs[p] ELSE <<>>
         IN  Writes(u, downloadFile(u, q, r, body, room), p,
                    old \o (<<"time">> \o body \o <<"\n", "\n">>))
<1> DEFINE p == Segments(getUploadPath(r, q.target))
           text == <<"time">> \o body \o <<"\n", "\n">>
           old == IF p \in DOMAIN u.fs THEN u.fs[p] ELSE <<>>
           length == IF room < Len(text) THEN room ELSE Len(text)
           w == WriteOut(u, p, old, text, length)
<1>1. IsPath(text)
  <2>1. <<"time">> \in Seq({"time"}) /\ <<"\n", "\n">> \in Seq({"\n"})
    OBVIOUS
  <2>2. IsPath(<<"time">>) /\ IsPath(<<"\n", "\n">>)
    BY <2>1 DEF IsPath
  <2> QED BY <2>2, PathsJoined
<1>2. downloadFile(u, q, r, body, room) =
        IF ~CanWrite(u.fs, p) THEN [u EXCEPT !.response.status = 500]
        ELSE IF room < Len(text) THEN w
        ELSE [w EXCEPT !.response = setBody(@, Body("success", <<>>))]
  BY DEF downloadFile
<1>3. CASE ~CanWrite(u.fs, p)
  <2> DEFINE v == [u EXCEPT !.response.status = 500]
  <2>1. IsUpload(v) /\ v.fs = u.fs /\ v.response.status = 500
    <3>1. 500 \in Codes
      BY DEF Codes
    <3> QED BY <3>1, FailureIsSet
  <2>2. SameBut(u.fs, u.fs, p)
    BY PutIsThere
  <2>3. downloadFile(u, q, r, body, room) = v
    BY <1>2, <1>3
  <2> HIDE DEF v
  <2> QED BY <2>1, <2>2, <2>3 DEF Writes
<1>4. CASE CanWrite(u.fs, p)
  <2>1. Writes(u, w, p, old \o text) /\ (room < Len(text) => w.response.status = 500)
    <3>1. IsPath(old)
      <4>1. IsPath(<<>>)
        BY EmptySeq DEF IsPath
      <4>2. ~IsDirectory(u.fs, p) /\ IsTree(u.fs)
        BY <1>4 DEF CanWrite, IsUpload
      <4>3. p \in DOMAIN u.fs => IsPath(u.fs[p])
        <5> HIDE DEF p
        <5> QED BY <4>2 DEF IsTree, IsDirectory
      <4> QED BY <4>1, <4>3
    <3>2. IsPath(p)
      OBVIOUS
    <3> HIDE DEF p, text, old
    <3> QED BY <1>1, <1>4, <3>1, <3>2, WriteOutWrites
  <2> HIDE DEF w
  <2>2. CASE room < Len(text)
    BY <1>2, <1>4, <2>1, <2>2
  <2>3. CASE ~(room < Len(text))
    <3> DEFINE v == [w EXCEPT !.response = setBody(@, Body("success", <<>>))]
    <3>1. IsUpload(v) /\ v.fs = w.fs /\ v.response.status = w.response.status
      BY <2>1, SuccessIsSet DEF Writes
    <3>2. downloadFile(u, q, r, body, room) = v
      BY <1>2, <1>4, <2>3
    <3> HIDE DEF v, text, old, p
    <3>3. Writes(u, v, p, old \o text)
      BY <2>1, <3>1 DEF Writes
    <3> QED BY <3>2, <3>3 DEF text, old, p
  <2> QED BY <2>2, <2>3
<1> QED BY <1>3, <1>4

\* The parts of an upload.
PartSet == [name : Seq(STRING), content : Seq(STRING)]

\* An empty part stores nothing, another one is written in its place (downloadMultiPart).
LEMMA PartIsWritten ==
  ASSUME NEW u, IsUpload(u), NEW r \in Routes, NEW q, IsPath(q.target),
         NEW part \in PartSet, NEW room \in Nat
  PROVE  LET v == downloadPart(u, q, r, part, room)
             p == PlaceOf(q, r, part)
         IN  IF part.content = <<>>
               THEN IsUpload(v) /\ v.fs = u.fs /\ v.response.status = u.response.status
               ELSE Writes(u, v, p, OldOf(u.fs, p, part) \o TextOf(part))
<1> DEFINE v == downloadPart(u, q, r, part, room)
           p == PlaceOf(q, r, part)
<1>1. IsPath(part.name) /\ IsPath(part.content)
  BY DEF PartSet, IsPath
<1>2. IsPath(p)
  BY <1>1, UploadHasAPath DEF PlaceOf
<1>3. CASE part.content = <<>>
  <2>1. v = [u EXCEPT !.response = setBody(@, Body("success", <<>>))]
    BY <1>3 DEF downloadPart, saveFile, downloadFile
  <2>2. LET w == [u EXCEPT !.response = setBody(@, Body("success", <<>>))] IN
        IsUpload(w) /\ w.fs = u.fs /\ w.response.status = u.response.status
    BY SuccessIsSet
  <2> HIDE DEF v
  <2> QED BY <1>3, <2>1, <2>2 DEF v
<1>4. CASE part.content # <<>> /\ part.name # <<>>
  <2>1. v = saveFile(u, getUploadPath(r, part.name), part.content, room)
    BY <1>4 DEF downloadPart
  <2>2. p = Segments(getUploadPath(r, part.name))
    BY <1>4 DEF PlaceOf
  <2>3. Writes(u, saveFile(u, getUploadPath(r, part.name), part.content, room), p,
               <<>> \o part.content)
    BY <1>1, <1>2, <1>4, <2>2, SaveFileWrites
  <2>4. OldOf(u.fs, p, part) = <<>> /\ TextOf(part) = part.content
    BY <1>4 DEF OldOf, TextOf
  <2> HIDE DEF v, p
  <2>5. Writes(u, v, p, OldOf(u.fs, p, part) \o TextOf(part))
    BY <2>1, <2>3, <2>4
  <2> QED BY <1>4, <2>5 DEF v, p
<1>5. CASE part.content # <<>> /\ part.name = <<>>
  <2>1. v = downloadFile(u, q, r, part.content, room)
    BY <1>5 DEF downloadPart
  <2>2. p = Segments(getUploadPath(r, q.target))
    BY <1>5 DEF PlaceOf
  <2> DEFINE old == IF p \in DOMAIN u.fs THEN u.fs[p] ELSE <<>>
  <2>3. Writes(u, downloadFile(u, q, r, part.content, room), p,
               old \o (<<"time">> \o part.content \o <<"\n", "\n">>))
    BY <1>1, <1>2, <1>5, <2>2, DownloadFileWrites
  <2>4. OldOf(u.fs, p, part) = old
        /\ TextOf(part) = <<"time">> \o part.content \o <<"\n", "\n">>
    BY <1>5 DEF OldOf, TextOf
  <2> HIDE DEF v, p, old
  <2>5. Writes(u, v, p, OldOf(u.fs, p, part) \o TextOf(part))
    BY <2>1, <2>3, <2>4
  <2> QED BY <1>5, <2>5 DEF v, p
<1> QED BY <1>3, <1>4, <1>5


\* The loop has a result after each of the parts (downloadMultiPart).
LEMMA StoredAre ==
  ASSUME NEW u, NEW q, NEW r, NEW rooms, NEW n, n = Len(q.parts), n \in Nat
  PROVE  \E f : /\ f[0] = u
                /\ \A i \in 1..n : f[i] = downloadPart(f[i - 1], q, r, q.parts[i], rooms[i])
                /\ downloadMultiPart(u, q, r, rooms) =
                     IF ~q.closed THEN [f[n] EXCEPT !.response.status = 400]
                     ELSE IF f[n].response.status = 201
                       THEN [f[n] EXCEPT !.response = setBody(@, Body("success", <<>>))]
                     ELSE f[n]
<1> DEFINE Turn(x, i) == downloadPart(x, q, r, q.parts[i], rooms[i])
           Is(f, m) == f = [i \in 0..m |-> IF i = 0 THEN u ELSE Turn(f[i - 1], i)]
           N == {m \in Nat : \E f : Is(f, m)}
<1> HIDE DEF Turn
<1>1. 0 \in N
  <2>1. Is([i \in 0..0 |-> u], 0)
    OBVIOUS
  <2> QED BY <2>1
<1>2. ASSUME NEW m \in Nat, m \in N PROVE m + 1 \in N
  <2>1. PICK g : Is(g, m)
    BY <1>2
  <2> DEFINE f == [i \in 0..(m + 1) |-> IF i <= m THEN g[i] ELSE Turn(g[m], m + 1)]
  <2>2. ASSUME NEW i \in 0..(m + 1)
        PROVE  f[i] = IF i = 0 THEN u ELSE Turn(f[i - 1], i)
    <3>1. CASE i = 0
      BY <2>1, <3>1
    <3>2. CASE i \in 1..m
      <4>1. f[i] = g[i] /\ f[i - 1] = g[i - 1]
        BY <3>2
      <4>2. g[i] = Turn(g[i - 1], i)
        BY <2>1, <3>2
      <4> QED BY <3>2, <4>1, <4>2
    <3>3. CASE i = m + 1
      <4>1. f[i] = Turn(g[m], i) /\ f[i - 1] = g[m]
        BY <3>3
      <4> QED BY <3>3, <4>1
    <3> QED BY <3>1, <3>2, <3>3
  <2>3. Is(f, m + 1)
    <3> HIDE DEF f
    <3>1. f = [i \in 0..(m + 1) |-> f[i]]
      BY DEF f
    <3> QED BY <2>2, <3>1
  <2> HIDE DEF f, Is
  <2>4. \E h : Is(h, m + 1)
    BY <2>3
  <2> QED BY <2>4
<1>3. \E h : Is(h, n)
  <2>1. \A m \in Nat : m \in N
    <3> HIDE DEF N
    <3> QED BY ONLY <1>1, <1>2, AllNaturals
  <2> QED BY <2>1
<1> DEFINE f == CHOOSE h : Is(h, n)
<1>4. Is(f, n)
  <2> HIDE DEF Is
  <2> QED BY <1>3
<1>5. downloadMultiPart(u, q, r, rooms) =
        IF ~q.closed THEN [f[n] EXCEPT !.response.status = 400]
        ELSE IF f[n].response.status = 201
          THEN [f[n] EXCEPT !.response = setBody(@, Body("success", <<>>))]
        ELSE f[n]
  BY DEF downloadMultiPart, Turn
<1> HIDE DEF f
<1>6. f[0] = u /\ \A i \in 1..n : f[i] = Turn(f[i - 1], i)
  BY <1>4
<1> QED BY <1>5, <1>6 DEF Turn


\* n is different.
Changed(fs, new, n) ==
  \/ n \in DOMAIN fs /\ n \notin DOMAIN new
  \/ n \notin DOMAIN fs /\ n \in DOMAIN new
  \/ n \in DOMAIN fs /\ new[n] # fs[n]

\* One of the parts with content is for n.
Aims(q, r, n) ==
  \E i \in 1..Len(q.parts) :
    q.parts[i].content # <<>> /\ n = PlaceOf(q, r, q.parts[i])

\* Of what an upload is told, 201 is the only good news.
LEMMA StoredIsGood == \A code \in {201, 400, 403, 500} : Good(code) => code = 201
BY DEF Good

\* From fs to new the part is stored.
Stores(fs, new, q, r, part) ==
  LET p == PlaceOf(q, r, part) IN
  new = IF part.content = <<>> THEN fs
        ELSE Put(fs, p, OldOf(fs, p, part) \o TextOf(part))

\* What an upload may leave: other files only where its parts go, and all of the parts
\* one after the other if the status says so.
PostLeaves(fs, v, q, r) ==
  /\ IsUpload(v)
  /\ \A n : Changed(fs, v.fs, n) => Aims(q, r, n)
  /\ Good(v.response.status) => v.response.status = 201
  /\ v.response.status = 201 =>
       \E g : /\ g[0] = fs /\ g[Len(q.parts)] = v.fs
              /\ \A i \in 1..Len(q.parts) : Stores(g[i - 1], g[i], q, r, q.parts[i])

\* What a part may leave.
PartLeaves(u, v, q, r, part) ==
  /\ IsUpload(v)
  /\ \A n : Changed(u.fs, v.fs, n) => part.content # <<>> /\ n = PlaceOf(q, r, part)
  /\ v.response.status \in {u.response.status, 500}
  /\ v.response.status = 201 =>
       u.response.status = 201 /\ Stores(u.fs, v.fs, q, r, part)

\* A part changes nothing but its place, and is all there unless the status is that of a
\* failure (downloadMultiPart).
LEMMA PartChangesItsPlace ==
  ASSUME NEW u, IsUpload(u), NEW r \in Routes, NEW q, IsPath(q.target),
         NEW part \in PartSet, NEW room \in Nat
  PROVE  PartLeaves(u, downloadPart(u, q, r, part, room), q, r, part)
<1>1. PICK v, p : v = downloadPart(u, q, r, part, room) /\ p = PlaceOf(q, r, part)
  OBVIOUS
<1>2. IF part.content = <<>>
        THEN IsUpload(v) /\ v.fs = u.fs /\ v.response.status = u.response.status
        ELSE Writes(u, v, p, OldOf(u.fs, p, part) \o TextOf(part))
  BY <1>1, PartIsWritten
<1>3. CASE part.content = <<>>
  BY <1>1, <1>2, <1>3 DEF Changed, Stores, PartLeaves
<1>4. CASE part.content # <<>>
  <2>1. Writes(u, v, p, OldOf(u.fs, p, part) \o TextOf(part))
    BY <1>2, <1>4
  <2>2. ASSUME NEW n, Changed(u.fs, v.fs, n) PROVE n = p
    BY <2>1, <2>2 DEF Writes, SameBut, Changed
  <2>3. ASSUME v.response.status = 201
        PROVE  u.response.status = 201 /\ Stores(u.fs, v.fs, q, r, part)
    <3>1. u.response.status = 201 /\ v.fs = Put(u.fs, p, OldOf(u.fs, p, part) \o TextOf(part))
      BY <2>1, <2>3 DEF Writes
    <3> QED BY <1>1, <1>4, <3>1 DEF Stores
  <2> QED BY <1>1, <1>4, <2>1, <2>2, <2>3 DEF Writes, PartLeaves
<1> QED BY <1>3, <1>4

\* Changes add up.
LEMMA ChangesAddUp ==
  ASSUME NEW fs, NEW mid, NEW new, NEW n, Changed(fs, new, n)
  PROVE  Changed(fs, mid, n) \/ Changed(mid, new, n)
BY DEF Changed

\* What a request is made of.
LEMMA RequestIs ==
  ASSUME NEW q \in Requests
  PROVE  /\ q.target \in Paths /\ q.target # <<>> /\ IsPath(q.target)
         /\ Len(q.parts) \in Nat
         /\ \A i \in 1..Len(q.parts) : q.parts[i] \in PartSet
<1>1. q.target \in Paths \ {<<>>} /\ q.parts \in Seq(PartSet)
  BY RequestsAssumption DEF PartSet
<1>2. q.target \in Seq(STRING)
  BY <1>1, RoutesAssumption
<1>3. Len(q.parts) \in Nat /\ \A i \in 1..Len(q.parts) : q.parts[i] \in PartSet
  BY ONLY <1>1, LenProperties, ElementOfSeq
<1> QED BY <1>1, <1>2, <1>3 DEF IsPath

\* The parts one after the other (downloadMultiPart).
LEMMA PartsAreStored ==
  ASSUME NEW u, IsUpload(u), u.response.status = 201, NEW r \in Routes, NEW q \in Requests,
         NEW rooms, \A i \in 1..Len(q.parts) : rooms[i] \in Nat
  PROVE  PostLeaves(u.fs, downloadMultiPart(u, q, r, rooms), q, r)
<1>1. PICK n \in Nat : n = Len(q.parts)
  BY RequestIs
<1>2. IsPath(q.target) /\ \A i \in 1..n : q.parts[i] \in PartSet
  BY <1>1, RequestIs
<1>3. PICK f : /\ f[0] = u
               /\ \A i \in 1..n : f[i] = downloadPart(f[i - 1], q, r, q.parts[i], rooms[i])
               /\ downloadMultiPart(u, q, r, rooms) =
                    IF ~q.closed THEN [f[n] EXCEPT !.response.status = 400]
                    ELSE IF f[n].response.status = 201
                      THEN [f[n] EXCEPT !.response = setBody(@, Body("success", <<>>))]
                    ELSE f[n]
  BY ONLY <1>1, StoredAre
<1> DEFINE All(k) == \A i \in 1..k : Stores(f[i - 1].fs, f[i].fs, q, r, q.parts[i])
           Good1(k) == /\ IsUpload(f[k])
                       /\ \A p : Changed(u.fs, f[k].fs, p) => Aims(q, r, p)
                       /\ f[k].response.status \in {201, 500}
                       /\ f[k].response.status = 201 => All(k)
           N == {k \in Nat : k <= n => Good1(k)}
<1>4. 0 \in N
  BY <1>3 DEF Changed
<1>5. ASSUME NEW k \in Nat, k \in N PROVE k + 1 \in N
  <2> SUFFICES ASSUME k + 1 <= n PROVE Good1(k + 1)
    OBVIOUS
  <2>1. Good1(k)
    BY <1>1, <1>5
  <2>2. PICK i \in 1..n : i = k + 1 /\ i - 1 = k
    BY <1>1
  <2>0. PICK part \in PartSet : part = q.parts[i]
    BY <1>2
  <2>3. PICK v : part = q.parts[i] /\ v = downloadPart(f[k], q, r, part, rooms[i])
    BY <2>0
  <2>4. f[k + 1] = v
    BY <1>3, <2>2, <2>3
  <2>5. /\ IsUpload(v)
        /\ \A p : Changed(f[k].fs, v.fs, p) =>
             part.content # <<>> /\ p = PlaceOf(q, r, part)
        /\ v.response.status = 201 =>
             f[k].response.status = 201 /\ Stores(f[k].fs, v.fs, q, r, part)
        /\ v.response.status \in {f[k].response.status, 500}
    <3>0. PICK room \in Nat : room = rooms[i]
      BY <1>1
    <3>1. PICK x : x = f[k] /\ room = rooms[i] /\ IsUpload(x)
      BY <2>1, <3>0
    <3>2. PartLeaves(x, downloadPart(x, q, r, part, room), q, r, part)
      BY ONLY <1>2, <3>1, PartChangesItsPlace, r \in Routes, part \in PartSet,
              room \in Nat
    <3> QED BY <2>3, <3>1, <3>2 DEF PartLeaves
  <2>6. ASSUME NEW p, Changed(u.fs, v.fs, p) PROVE Aims(q, r, p)
    <3>1. Changed(u.fs, f[k].fs, p) \/ Changed(f[k].fs, v.fs, p)
      BY <2>6, ChangesAddUp
    <3>2. CASE Changed(f[k].fs, v.fs, p)
      BY <1>1, <2>2, <2>3, <2>5, <3>2 DEF Aims
    <3> QED BY <2>1, <3>1, <3>2
  <2>7. ASSUME v.response.status = 201 PROVE All(k + 1)
    <3>1. Stores(f[k].fs, f[k + 1].fs, q, r, q.parts[k + 1]) /\ All(k)
      BY <2>1, <2>2, <2>3, <2>4, <2>5, <2>7
    <3> SUFFICES ASSUME NEW j \in 1..(k + 1)
                 PROVE  Stores(f[j - 1].fs, f[j].fs, q, r, q.parts[j])
      OBVIOUS
    <3>2. CASE j = k + 1
      BY <2>2, <3>1, <3>2
    <3>3. CASE j # k + 1
      <4>1. j \in 1..k
        BY <3>3
      <4> QED BY <3>1, <4>1
    <3> QED BY <3>2, <3>3
  <2>8. v.response.status \in {201, 500}
    BY <2>1, <2>5
  <2> HIDE DEF All
  <2> QED BY <2>4, <2>5, <2>6, <2>7, <2>8
<1>6. Good1(n)
  <2>1. \A k \in Nat : k \in N
    <3> HIDE DEF N
    <3> QED BY ONLY <1>4, <1>5, AllNaturals
  <2> QED BY <1>1, <2>1
<1> DEFINE v == downloadMultiPart(u, q, r, rooms)
<1>7. /\ IsUpload(v) /\ v.fs = f[n].fs /\ v.response.status \in {201, 400, 500}
      /\ v.response.status = 201 => f[n].response.status = 201
  <2>1. 400 \in Codes
    BY DEF Codes
  <2>2. LET w == [f[n] EXCEPT !.response.status = 400] IN
        IsUpload(w) /\ w.fs = f[n].fs /\ w.response.status = 400
    BY <1>6, <2>1, FailureIsSet
  <2>3. LET w == [f[n] EXCEPT !.response = setBody(@, Body("success", <<>>))] IN
        IsUpload(w) /\ w.fs = f[n].fs /\ w.response.status = f[n].response.status
    BY <1>6, SuccessIsSet
  <2> HIDE DEF v
  <2>4. CASE ~q.closed
    BY <1>3, <2>2, <2>4 DEF v
  <2>5. CASE q.closed
    BY <1>3, <1>6, <2>3, <2>5 DEF v
  <2> QED BY <2>4, <2>5
<1> DEFINE g == [i \in 0..n |-> f[i].fs]
<1>8. g[0] = u.fs /\ g[n] = f[n].fs
  BY <1>1, <1>3
<1>9. ASSUME All(n), NEW i \in 1..n PROVE Stores(g[i - 1], g[i], q, r, q.parts[i])
  <2>1. g[i - 1] = f[i - 1].fs /\ g[i] = f[i].fs
    BY <1>1
  <2> HIDE DEF g
  <2> QED BY <1>9, <2>1
<1> HIDE DEF v, g, N
<1>10. Good(v.response.status) => v.response.status = 201
  BY <1>7, StoredIsGood
<1>11. PostLeaves(u.fs, v, q, r)
  BY <1>1, <1>6, <1>7, <1>8, <1>9, <1>10 DEF PostLeaves
<1> QED BY <1>11 DEF v

\* Any upload (post).
LEMMA PostIsStored ==
  ASSUME IsTree(files), NEW r \in Routes, NEW q \in Requests, NEW rooms,
         \A i \in 1..Len(q.parts) : rooms[i] \in Nat
  PROVE  /\ PostLeaves(files, Post(q, r, rooms), q, r)
         /\ ~r.uploadAllowed => Post(q, r, rooms).fs = files
                                /\ Post(q, r, rooms).response.status = 403
<1> DEFINE u == [fs |-> files, response |-> setStatusCode(NewResponse, 201)]
           w == [fs |-> files, response |-> setStatusCode(NewResponse, 403)]
<1>1. /\ IsUpload(u) /\ u.fs = files /\ u.response.status = 201
      /\ IsUpload(w) /\ w.fs = files /\ w.response.status = 403
  BY NewIsAResponse, StatusIsSet DEF IsUpload, Codes
<1>2. Post(q, r, rooms) =
        IF ~r.uploadAllowed THEN w
        ELSE IF q.multipart THEN downloadMultiPart(u, q, r, rooms)
        ELSE downloadFile(u, q, r, q.parts[1].content, rooms[1])
  BY DEF Post
<1> HIDE DEF u, w
<1>3. CASE ~r.uploadAllowed
  <2>1. PostLeaves(files, w, q, r)
    BY <1>1 DEF PostLeaves, Changed, Good
  <2> QED BY <1>1, <1>2, <1>3, <2>1
<1>4. CASE r.uploadAllowed /\ q.multipart
  BY <1>1, <1>2, <1>4, PartsAreStored
<1>5. CASE r.uploadAllowed /\ ~q.multipart
  <2>1. Len(q.parts) = 1 /\ q.parts[1].name = <<>> /\ IsPath(q.target)
    BY <1>5, RequestsAssumption, RequestIs
  <2>2. PICK part \in PartSet : part = q.parts[1]
    BY <2>1, RequestIs
  <2>3. PICK v : v = downloadPart(u, q, r, part, rooms[1]) /\ v = Post(q, r, rooms)
    BY <1>2, <1>5, <2>1, <2>2 DEF downloadPart
  <2>4. /\ IsUpload(v)
        /\ \A n : Changed(files, v.fs, n) => part.content # <<>> /\ n = PlaceOf(q, r, part)
        /\ v.response.status \in {201, 500}
        /\ v.response.status = 201 => Stores(files, v.fs, q, r, part)
    <3>1. PICK room \in Nat : room = rooms[1]
      BY <2>1
    <3>2. PartLeaves(u, downloadPart(u, q, r, part, room), q, r, part)
      BY ONLY <1>1, <2>1, PartChangesItsPlace, r \in Routes, part \in PartSet,
              room \in Nat
    <3>3. PartLeaves(u, v, q, r, part)
      BY <2>3, <3>1, <3>2
    <3>4. Stores(u.fs, v.fs, q, r, part) <=> Stores(files, v.fs, q, r, part)
      BY <1>1
    <3>5. \A n : Changed(files, v.fs, n) => Changed(u.fs, v.fs, n)
      BY <1>1
    <3> QED BY ONLY <1>1, <3>3, <3>4, <3>5 DEF PartLeaves
  <2>5. \A n : Changed(files, v.fs, n) => Aims(q, r, n)
    BY <2>1, <2>2, <2>4 DEF Aims
  <2>6. ASSUME v.response.status = 201
        PROVE  \E g : /\ g[0] = files /\ g[Len(q.parts)] = v.fs
                      /\ \A i \in 1..Len(q.parts) : Stores(g[i - 1], g[i], q, r, q.parts[i])
    <3> DEFINE g == [i \in 0..1 |-> IF i = 0 THEN files ELSE v.fs]
    <3>1. g[0] = files /\ g[1] = v.fs
      OBVIOUS
    <3> HIDE DEF g
    <3>2. \A i \in 1..1 : Stores(g[i - 1], g[i], q, r, q.parts[i])
      BY <2>2, <2>4, <2>6, <3>1
    <3> QED BY <2>1, <3>1, <3>2
  <2>7. PostLeaves(files, v, q, r)
    BY <2>4, <2>5, <2>6, StoredIsGood DEF PostLeaves
  <2> QED BY <1>5, <2>3, <2>7
<1> QED BY <1>3, <1>4, <1>5


----------------------------------------------------------------------------
(* What is read.                                                           *)

\* The path of an index file, and whether it can be opened.
IndexPath(r, i) == getFullFilesystemPath(r, r.defaultFiles[i])
Opens(r, fs, i) == Errno(fs, Segments(IndexPath(r, i))) = "0"

\* What one index file is answered with.
TryOf(r, fs, i) == setBodyFromFile(NewResponse, IndexPath(r, i), fs)

\* One turn of the loop; whether a file was found.
Tried(x, t) == IF x.found THEN x ELSE [found |-> t.status = 200, response |-> t]
HasFound(x) == x.found = TRUE

\* What is found is kept.
LEMMA TriedIs ==
  ASSUME NEW x, NEW t
  PROVE  /\ HasFound(x) => Tried(x, t) = x
         /\ ~HasFound(x) => /\ HasFound(Tried(x, t)) <=> t.status = 200
                            /\ Tried(x, t).response = t
<1>1. HasFound(x) => Tried(x, t) = x
  BY DEF Tried, HasFound
<1>2. ~HasFound(x) => Tried(x, t) = [found |-> t.status = 200, response |-> t]
  BY DEF Tried, HasFound
<1>3. HasFound([found |-> t.status = 200, response |-> t]) <=> t.status = 200
  BY DEF HasFound
<1> QED BY <1>1, <1>2, <1>3

\* What there is after each of the index files.
IndexLoop(f, n, r, fs) ==
  /\ ~HasFound(f[0]) /\ f[0].response = NewResponse
  /\ \A i \in 1..n : f[i] = Tried(f[i - 1], TryOf(r, fs, i))
  /\ _checkForIndexFiles(r, fs) = f[n]

\* The loop has a result after each of the index files (_checkForIndexFiles).
LEMMA TriedAre ==
  ASSUME NEW r, NEW fs, NEW n, n = Len(r.defaultFiles), n \in Nat
  PROVE  \E f : IndexLoop(f, n, r, fs)
<1> DEFINE v == [found |-> FALSE, response |-> NewResponse]
           Turn(x, i) == Tried(x, TryOf(r, fs, i))
           Is(f, m) == f = [i \in 0..m |-> IF i = 0 THEN v ELSE Turn(f[i - 1], i)]
           N == {m \in Nat : \E f : Is(f, m)}
<1> HIDE DEF Turn, v
<1>1. 0 \in N
  <2>1. Is([i \in 0..0 |-> v], 0)
    OBVIOUS
  <2> QED BY <2>1
<1>2. ASSUME NEW m \in Nat, m \in N PROVE m + 1 \in N
  <2>1. PICK g : Is(g, m)
    BY <1>2
  <2> DEFINE f == [i \in 0..(m + 1) |-> IF i <= m THEN g[i] ELSE Turn(g[m], m + 1)]
  <2>2. ASSUME NEW i \in 0..(m + 1)
        PROVE  f[i] = IF i = 0 THEN v ELSE Turn(f[i - 1], i)
    <3>1. CASE i = 0
      BY <2>1, <3>1
    <3>2. CASE i \in 1..m
      <4>1. f[i] = g[i] /\ f[i - 1] = g[i - 1]
        BY <3>2
      <4>2. g[i] = Turn(g[i - 1], i)
        BY <2>1, <3>2
      <4> QED BY <3>2, <4>1, <4>2
    <3>3. CASE i = m + 1
      <4>1. f[i] = Turn(g[m], i) /\ f[i - 1] = g[m]
        BY <3>3
      <4> QED BY <3>3, <4>1
    <3> QED BY <3>1, <3>2, <3>3
  <2>3. Is(f, m + 1)
    <3> HIDE DEF f
    <3>1. f = [i \in 0..(m + 1) |-> f[i]]
      BY DEF f
    <3> QED BY <2>2, <3>1
  <2> HIDE DEF f, Is
  <2>4. \E h : Is(h, m + 1)
    BY <2>3
  <2> QED BY <2>4
<1>3. \E h : Is(h, n)
  <2>1. \A m \in Nat : m \in N
    <3> HIDE DEF N
    <3> QED BY ONLY <1>1, <1>2, AllNaturals
  <2> QED BY <2>1
<1> DEFINE f == CHOOSE h : Is(h, n)
<1>4. Is(f, n)
  <2> HIDE DEF Is
  <2> QED BY <1>3
<1>5. _checkForIndexFiles(r, fs) = f[n]
  BY DEF _checkForIndexFiles, Turn, Tried, TryOf, IndexPath, reset, v
<1> HIDE DEF f
<1>6. f[0] = v /\ \A i \in 1..n : f[i] = Turn(f[i - 1], i)
  BY SMTT(40), <1>4
<1>7. ~HasFound(v) /\ v.response = NewResponse
  BY DEF v, HasFound
<1>8. IndexLoop(f, n, r, fs)
  BY <1>5, <1>6, <1>7 DEF Turn, IndexLoop
<1> QED BY <1>8

\* An index file that can be opened is answered with what it holds, and 200; another one
\* with an error.
LEMMA TryIs ==
  ASSUME NEW r \in Routes, NEW fs, NEW i \in 1..Len(r.defaultFiles)
  PROVE  LET t == TryOf(r, fs, i) IN
         /\ IsResponse(t) /\ t.status \in Codes
         /\ t.status = 200 <=> Opens(r, fs, i)
         /\ Opens(r, fs, i) =>
              t.body.content = Contents(fs, Segments(IndexPath(r, i))) \o <<"\n", "\r">>
<1>1. PICK path : path = IndexPath(r, i)
  OBVIOUS
<1>2. path # <<>>
  BY <1>1, RoutesHavePaths, FileHasAPath DEF IndexPath
<1>3. PICK e : e = Errno(fs, Segments(path))
  OBVIOUS
<1>4. PICK t : t = TryOf(r, fs, i) /\ t = setBodyFromFile(NewResponse, path, fs)
  BY <1>1 DEF TryOf
<1>5. /\ IsResponse(t)
      /\ e = "0" => t.status = 200
                    /\ t.body.content = Contents(fs, Segments(path)) \o <<"\n", "\r">>
      /\ e # "0" => t.status = OpenError(e)
  <2>1. PICK s : s = NewResponse /\ IsResponse(s) /\ s.status = 200
    BY NewIsAResponse
  <2>2. HasFile(s, t, path, fs)
    BY <1>4, <2>1, FileOrError
  <2> QED BY <1>2, <1>3, <2>1, <2>2 DEF HasFile
<1>6. OpenError(e) \in {404, 500}
  BY DEF OpenError
<1> QED BY <1>1, <1>3, <1>4, <1>5, <1>6 DEF Opens, Codes

\* The first index file that can be opened, if there is one (_checkForIndexFiles).
LEMMA FirstIndexIsFound ==
  ASSUME NEW r \in Routes, NEW fs
  PROVE  LET c == _checkForIndexFiles(r, fs) IN
         /\ IsResponse(c.response) /\ c.response.status \in Codes
         /\ (\E i \in 1..Len(r.defaultFiles) : Opens(r, fs, i)) =>
              \E i \in 1..Len(r.defaultFiles) :
                /\ Opens(r, fs, i)
                /\ \A j \in 1..Len(r.defaultFiles) : Opens(r, fs, j) => i <= j
                /\ HasFound(c) /\ c.response = TryOf(r, fs, i)
<1>1. PICK n \in Nat : n = Len(r.defaultFiles)
  BY RoutesHavePaths
<1>2. PICK f : /\ ~HasFound(f[0]) /\ f[0].response = NewResponse
               /\ \A i \in 1..n : f[i] = Tried(f[i - 1], TryOf(r, fs, i))
               /\ _checkForIndexFiles(r, fs) = f[n]
  <2>1. \E f : IndexLoop(f, n, r, fs)
    BY ONLY <1>1, TriedAre
  <2> QED BY <2>1 DEF IndexLoop
<1> DEFINE FirstTo(k) ==
             \/ /\ \A j \in 1..k : ~Opens(r, fs, j)
                /\ ~HasFound(f[k])
             \/ \E i \in 1..k :
                  /\ Opens(r, fs, i)
                  /\ \A j \in 1..n : Opens(r, fs, j) => i <= j
                  /\ HasFound(f[k]) /\ f[k].response = TryOf(r, fs, i)
           Is(k) == /\ IsResponse(f[k].response) /\ f[k].response.status \in Codes
                    /\ FirstTo(k)
           N == {k \in Nat : k <= n => Is(k)}
<1>3. 0 \in N
  <2>1. 200 \in Codes
    BY DEF Codes
  <2> QED BY <1>2, <2>1, NewIsAResponse
<1>4. ASSUME NEW k \in Nat, k \in N PROVE k + 1 \in N
  <2> SUFFICES ASSUME k + 1 <= n PROVE Is(k + 1)
    OBVIOUS
  <2>1. Is(k)
    BY <1>1, <1>4
  <2>2. PICK t : t = TryOf(r, fs, k + 1)
    OBVIOUS
  <2>3. f[k + 1] = Tried(f[k], t)
    BY <1>2, <2>2
  <2>4. /\ IsResponse(t) /\ t.status \in Codes
        /\ t.status = 200 <=> Opens(r, fs, k + 1)
    BY <1>1, <2>2, TryIs
  <2>5. CASE HasFound(f[k])
    <3>1. PICK i \in 1..k :
            /\ Opens(r, fs, i)
            /\ \A j \in 1..n : Opens(r, fs, j) => i <= j
            /\ HasFound(f[k]) /\ f[k].response = TryOf(r, fs, i)
      BY <2>1, <2>5
    <3>2. f[k + 1] = f[k] /\ i \in 1..(k + 1)
      BY <2>3, <2>5, TriedIs
    <3>3. FirstTo(k + 1)
      BY <3>1, <3>2
    <3> HIDE DEF FirstTo
    <3> QED BY <2>1, <3>2, <3>3
  <2>6. CASE ~HasFound(f[k])
    <3>1. \A j \in 1..k : ~Opens(r, fs, j)
      BY <2>1, <2>6
    <3>2. /\ HasFound(f[k + 1]) <=> Opens(r, fs, k + 1)
          /\ f[k + 1].response = t
      BY <2>3, <2>4, <2>6, TriedIs
    <3>3. CASE Opens(r, fs, k + 1)
      <4>1. \A j \in 1..n : Opens(r, fs, j) => k + 1 <= j
        <5> SUFFICES ASSUME NEW j \in 1..n, j <= k PROVE ~Opens(r, fs, j)
          OBVIOUS
        <5> QED BY <3>1
      <4>2. FirstTo(k + 1)
        BY <2>2, <3>2, <3>3, <4>1
      <4> HIDE DEF FirstTo
      <4> QED BY <2>4, <3>2, <4>2
    <3>4. CASE ~Opens(r, fs, k + 1)
      <4>1. \A j \in 1..(k + 1) : ~Opens(r, fs, j)
        <5>1. \A j \in 1..(k + 1) : j \in 1..k \/ j = k + 1
          OBVIOUS
        <5> QED BY <3>1, <3>4, <5>1
      <4>2. FirstTo(k + 1)
        BY <3>2, <3>4, <4>1
      <4> HIDE DEF FirstTo
      <4> QED BY <2>4, <3>2, <4>2
    <3> QED BY <3>3, <3>4
  <2> QED BY <2>5, <2>6
<1>5. Is(n)
  <2>1. \A k \in Nat : k \in N
    <3> HIDE DEF N
    <3> QED BY ONLY <1>3, <1>4, AllNaturals
  <2> QED BY <1>1, <2>1
<1> QED BY <1>1, <1>2, <1>5


\* A directory is there, if it can be opened or not.
LEMMA DirectoryIsThere ==
  ASSUME NEW fs, IsTree(fs), NEW p, IsDirectory(fs, p)
  PROVE  Errno(fs, p) \in {"0", "EACCES"}
<1>1. CASE p = <<>>
  <2>1. Len(<<>>) = 0 /\ 1..(0 - 1) = {}
    OBVIOUS
  <2>2. Parents(p) = {}
    BY <1>1, <2>1 DEF Parents
  <2> QED BY <1>1, <2>2 DEF Errno
<1>2. CASE p # <<>>
  <2>1. p \in DOMAIN fs /\ \A d \in Parents(p) : IsDirectory(fs, d)
    BY <1>2 DEF IsDirectory, IsTree
  <2> QED BY <2>1 DEF Errno
<1> QED BY <1>1, <1>2

\* What a GET is answered with: of a directory the first index file that can be opened,
\* of a file what it holds.
Fetched(t, p, r, fs) ==
  /\ IsResponse(t) /\ t.status \in Codes
  /\ IsDirectory(fs, p) /\ (\E i \in 1..Len(r.defaultFiles) : Opens(r, fs, i)) =>
       \E i \in 1..Len(r.defaultFiles) :
         /\ Opens(r, fs, i)
         /\ \A j \in 1..Len(r.defaultFiles) : Opens(r, fs, j) => i <= j
         /\ t = TryOf(r, fs, i)
  /\ ~IsDirectory(fs, p) /\ t.status = 200 =>
       t.body.content = Contents(fs, p) \o <<"\n", "\r">>

\* _fetchFile
LEMMA FetchIs ==
  ASSUME NEW r \in Routes, NEW q, IsPath(q.target), NEW fs, IsTree(fs)
  PROVE  Fetched(_fetchFile(q, r, fs), Segments(getFullFilesystemPath(r, q.target)), r, fs)
<1>1. PICK path : path = getFullFilesystemPath(r, q.target) /\ path # <<>>
  BY FileHasAPath
<1>2. PICK p, e : p = Segments(path) /\ e = Errno(fs, p)
  OBVIOUS
<1>3. PICK c : c = _checkForIndexFiles(r, fs)
  OBVIOUS
<1>4. /\ IsResponse(c.response) /\ c.response.status \in Codes
      /\ (\E i \in 1..Len(r.defaultFiles) : Opens(r, fs, i)) =>
           \E i \in 1..Len(r.defaultFiles) :
             /\ Opens(r, fs, i)
             /\ \A j \in 1..Len(r.defaultFiles) : Opens(r, fs, j) => i <= j
             /\ HasFound(c) /\ c.response = TryOf(r, fs, i)
  BY <1>3, FirstIndexIsFound
<1>5. PICK t : t = _fetchFile(q, r, fs)
  OBVIOUS
<1> DEFINE listing == buildDirectoryPage(c.response, getFullFilesystemPath(r, r.path), fs)
<1>6. t = IF e \in {"ENOENT", "ENOTDIR"} THEN setStatusCode(NewResponse, 404)
          ELSE IF ~IsDirectory(fs, p) THEN setBodyFromFile(NewResponse, path, fs)
          ELSE IF HasFound(c) THEN c.response
          ELSE IF r.isDirectoryListing THEN listing
          ELSE setStatusCode(c.response, 404)
  BY <1>1, <1>2, <1>3, <1>5 DEF _fetchFile, HasFound
<1>7. 404 \in Codes /\ 200 \in Codes /\ 500 \in Codes /\ 501 \in Codes
  BY DEF Codes
<1>8. PICK s : s = NewResponse /\ IsResponse(s) /\ s.status = 200
  BY NewIsAResponse
<1>9. CASE e \in {"ENOENT", "ENOTDIR"}
  <2>1. t = setStatusCode(s, 404)
    BY <1>6, <1>8, <1>9
  <2>2. IsResponse(t) /\ t.status = 404
    BY <1>8, <2>1, StatusIsSet
  <2>3. ~IsDirectory(fs, p)
    BY <1>2, <1>9, DirectoryIsThere
  <2>4. Fetched(t, p, r, fs)
    BY <1>7, <2>2, <2>3 DEF Fetched
  <2> QED BY <1>1, <1>2, <1>5, <2>4
<1>10. CASE e \notin {"ENOENT", "ENOTDIR"} /\ ~IsDirectory(fs, p)
  <2>1. t = setBodyFromFile(s, path, fs)
    BY <1>6, <1>8, <1>10
  <2>2. HasFile(s, t, path, fs)
    BY <1>8, <2>1, FileOrError
  <2>3. /\ IsResponse(t)
        /\ e = "0" => t.status = 200 /\ t.body.content = Contents(fs, p) \o <<"\n", "\r">>
        /\ e # "0" => t.status \in {404, 500}
    BY ZenonT(60), <1>1, <1>2, <1>8, <2>2 DEF HasFile, OpenError
  <2>4. Fetched(t, p, r, fs)
    BY <1>7, <1>10, <2>3 DEF Fetched
  <2> QED BY <1>1, <1>2, <1>5, <2>4
<1>11. CASE e \notin {"ENOENT", "ENOTDIR"} /\ IsDirectory(fs, p) /\ HasFound(c)
  <2>1. t = c.response
    BY <1>6, <1>11
  <2>2. Fetched(t, p, r, fs)
    BY <1>4, <1>11, <2>1 DEF Fetched
  <2> QED BY <1>1, <1>2, <1>5, <2>2
<1>12. CASE e \notin {"ENOENT", "ENOTDIR"} /\ IsDirectory(fs, p) /\ ~HasFound(c)
  <2>1. t = IF r.isDirectoryListing THEN listing ELSE setStatusCode(c.response, 404)
    BY <1>6, <1>12
  <2>2. IsResponse(listing) /\ listing.status \in Codes
    <3> DEFINE b == Body("listing", <<>>)
    <3>1. IsBody(b)
      BY DEF IsBody, Body
    <3>2. PICK w : w = setBody(c.response, b) /\ IsResponse(w)
      BY <1>4, <3>1, BodyIsSet
    <3>3. listing \in {setStatusCode(w, 200), setStatusCode(c.response, 501)}
      BY <3>2 DEF buildDirectoryPage
    <3>4. IsResponse(setStatusCode(w, 200)) /\ setStatusCode(w, 200).status = 200
          /\ IsResponse(setStatusCode(c.response, 501))
          /\ setStatusCode(c.response, 501).status = 501
      BY <1>4, <3>2, StatusIsSet
    <3> HIDE DEF listing
    <3> QED BY <1>7, <3>3, <3>4
  <2>3. IsResponse(setStatusCode(c.response, 404))
        /\ setStatusCode(c.response, 404).status \in Codes
    BY <1>4, <1>7, StatusIsSet
  <2> HIDE DEF listing
  <2>4. IsResponse(t) /\ t.status \in Codes
    BY <2>1, <2>2, <2>3
  <2>5. ~\E i \in 1..Len(r.defaultFiles) : Opens(r, fs, i)
    BY <1>4, <1>12
  <2>6. Fetched(t, p, r, fs)
    BY <1>12, <2>4, <2>5 DEF Fetched
  <2> QED BY <1>1, <1>2, <1>5, <2>6
<1> QED BY <1>9, <1>10, <1>11, <1>12

----------------------------------------------------------------------------
(* DELETE.                                                                 *)

\* What a DELETE leaves: without the file at p if the status is 200, everything if not.
Deleted(fs, v, p) ==
  /\ IsUpload(v)
  /\ v.response.status = 200 =>
       p \in DOMAIN fs /\ v.fs = [n \in DOMAIN fs \ {p} |-> fs[n]]
  /\ v.response.status # 200 => v.fs = fs /\ ~Good(v.response.status)

\* Delete; what has something below it stays.
LEMMA DeleteIs ==
  ASSUME IsTree(files), NEW r \in Routes, NEW q
  PROVE  Deleted(files, Delete(q, r), Segments(getFullFilesystemPath(r, q.target)))
<1>1. PICK p : p = Segments(getFullFilesystemPath(r, q.target))
  OBVIOUS
<1>2. PICK e, v : e = RemoveErrno(files, p) /\ v = Delete(q, r)
  OBVIOUS
<1> DEFINE gone == [n \in DOMAIN files \ {p} |-> files[n]]
<1>3. \E fs, code :
        /\ v = [fs |-> fs, response |-> setStatusCode(NewResponse, code)]
        /\ code \in Codes
        /\ code = 200 => e = "0" /\ fs = gone
        /\ code # 200 => fs = files /\ ~Good(code)
  <2>1. CASE \E i \in 1..Len(q.parts) : q.parts[i].content # <<>>
    <3>1. v = [fs |-> files, response |-> setStatusCode(NewResponse, 400)]
      BY <1>2, <2>1 DEF Delete
    <3>2. 400 \in Codes /\ 400 # 200 /\ ~Good(400)
      BY DEF Codes, Good
    <3> HIDE DEF gone
    <3> QED BY <3>1, <3>2
  <2>2. CASE ~\E i \in 1..Len(q.parts) : q.parts[i].content # <<>>
    <3>1. v = [fs |-> IF e = "0" THEN gone ELSE files,
               response |-> setStatusCode(NewResponse, DeleteStatus(e))]
      BY <1>1, <1>2, <2>2 DEF Delete
    <3>2. /\ DeleteStatus(e) \in Codes /\ (DeleteStatus(e) = 200 <=> e = "0")
          /\ DeleteStatus(e) # 200 => ~Good(DeleteStatus(e))
      BY DEF DeleteStatus, Codes, Good
    <3> HIDE DEF gone
    <3> QED BY SMTT(40), <3>1, <3>2
  <2> QED BY <2>1, <2>2
<1>4. PICK fs, code :
        /\ v = [fs |-> fs, response |-> setStatusCode(NewResponse, code)]
        /\ code \in Codes
        /\ code = 200 => e = "0" /\ fs = gone
        /\ code # 200 => fs = files /\ ~Good(code)
  BY <1>3
<1>5. PICK t : t = setStatusCode(NewResponse, code) /\ IsResponse(t) /\ t.status = code
  BY NewIsAResponse, StatusIsSet
<1>6. v = [fs |-> fs, response |-> t] /\ v.fs = fs /\ v.response = t
  BY <1>4, <1>5
<1>7. ASSUME e = "0" PROVE p \in DOMAIN files /\ IsTree(gone)
  <2>1. /\ Errno(files, p) = "0" /\ p # <<>>
        /\ \A n \in DOMAIN files : p \notin Parents(n)
    BY <1>2, <1>7 DEF RemoveErrno
  <2>2. p \in DOMAIN files
    BY <2>1 DEF Errno
  <2>3. ASSUME NEW n \in DOMAIN gone, NEW d \in Parents(n) PROVE IsDirectory(gone, d)
    <3>1. n \in DOMAIN files /\ d # p
      BY <2>1, <2>3
    <3>2. IsDirectory(files, d)
      BY <2>3, <3>1 DEF IsTree
    <3> QED BY <3>1, <3>2 DEF IsDirectory
  <2>4. \A n \in DOMAIN gone : n \in DOMAIN files /\ gone[n] = files[n]
    OBVIOUS
  <2> HIDE DEF gone
  <2> QED BY <2>2, <2>3, <2>4 DEF IsTree
<1> HIDE DEF gone
<1>8. IsTree(fs)
  BY <1>4, <1>7
<1>9. IsUpload(v)
  BY <1>4, <1>5, <1>6, <1>8 DEF IsUpload
<1>10. Deleted(files, v, p)
  BY <1>4, <1>5, <1>6, <1>7, <1>9 DEF Deleted, gone
<1> QED BY <1>1, <1>2, <1>10


----------------------------------------------------------------------------
(* One request.                                                            *)

\* What a method leaves is sent if its status is good, and the page of the error if not.
Sent(u, fs, t) ==
  /\ fs = u.fs
  /\ IsResponse(t) /\ t.status \in Codes
  /\ Good(u.response.status) => t = u.response
  /\ ~Good(u.response.status) => ~Good(t.status) /\ Explains(t, fs)

\* Finish
LEMMA FinishSends ==
  ASSUME NEW u, IsUpload(u), Finish(u)
  PROVE  Sent(u, files', response')
<1>1. files' = u.fs /\ IsResponse(u.response) /\ u.response.status \in Codes
  BY DEF Finish, IsUpload
<1>2. PICK t : t = response'
  OBVIOUS
<1>3. CASE Good(u.response.status)
  <2>1. t = u.response
    BY <1>2, <1>3 DEF Finish
  <2> QED BY <1>1, <1>2, <1>3, <2>1 DEF Sent
<1>4. CASE ~Good(u.response.status)
  <2>1. PICK x, code : x = u.response /\ code = u.response.status
    OBVIOUS
  <2>2. t = buildErrorPage(x, code, u.fs)
    BY <1>2, <1>4, <2>1 DEF Finish
  <2>3. IsResponse(t) /\ t.status \in Codes /\ ~Good(t.status) /\ Explains(t, u.fs)
    <3>1. IsResponse(x) /\ code \in Codes /\ ~Good(code)
      BY <1>1, <1>4, <2>1
    <3> QED BY <2>2, <3>1, ErrorPageExplains
  <2> QED BY <1>1, <1>2, <1>4, <2>3 DEF Sent
<1> QED BY <1>3, <1>4

\* The file a request is for.
FileFor(q) == Segments(getFullFilesystemPath(_findRoute(q.target), q.target))

\* What becomes of a request, by its method; t is the response and fs the files.
Redirected(r, t) == r.redirectPath # <<>> /\ t.status = r.redirectCode
Refused(q, r, fs, t) ==
  /\ r.redirectPath = <<>> /\ ~isAllowedMethod(r, q.method)
  /\ fs = files /\ ~Good(t.status) /\ t.status \in Codes /\ Explains(t, fs)
Scripted(q, r, fs, t) ==
  /\ Allowed(q, r) /\ isAllowedCgi(r, q.target) /\ fs = files /\ t.status \in Codes
  /\ t.body.from = "script" \/ (~Good(t.status) /\ Explains(t, fs))
Got(q, r, fs, t) ==
  /\ q.method = "GET"
  /\ \E x : Fetched(x, FileFor(q), r, files)
            /\ Sent([fs |-> files, response |-> x], fs, t)
Posted(q, r, fs, t) ==
  /\ q.method = "POST"
  /\ \E v : /\ PostLeaves(files, v, q, r) /\ Sent(v, fs, t)
            /\ ~r.uploadAllowed => v.fs = files /\ v.response.status = 403
Removed(q, fs, t) ==
  /\ q.method = "DELETE"
  /\ \E v : Deleted(files, v, FileFor(q)) /\ Sent(v, fs, t)
Plainly(q, fs, t) ==
  /\ q.method \notin {"GET", "POST", "DELETE"}
  /\ \E x : /\ IsResponse(x) /\ x.status \in {204, 501}
            /\ Sent([fs |-> files, response |-> x], fs, t)

\* Nothing but a script is run where one is configured.
Answered(q, r, fs, t) ==
  \/ Redirected(r, t) /\ fs = files
  \/ Refused(q, r, fs, t)
  \/ Scripted(q, r, fs, t)
  \/ /\ Allowed(q, r) /\ ~isAllowedCgi(r, q.target)
     /\ Got(q, r, fs, t) \/ Posted(q, r, fs, t) \/ Removed(q, fs, t) \/ Plainly(q, fs, t)

\* The route a request is answered with is its own (setCorrectRoute).
LEMMA RouteOfRequest ==
  ASSUME NEW q \in Requests, CacheIsCoherent, run(q)
  PROVE  /\ CacheIsCoherent' /\ config'.route = _findRoute(q.target)
         /\ _findRoute(q.target) \in Routes
<1>1. setCorrectRoute(q.target) /\ q.target # <<>>
  BY RequestIs DEF run
<1>2. CacheIsCoherent'
  BY <1>1, CorrectIsCoherent
<1>3. config' = IF config.path = q.target THEN config
                ELSE [path |-> q.target, route |-> _findRoute(q.target)]
  BY <1>1 DEF setCorrectRoute, Correct
<1>4. CASE config.path = q.target
  <2>1. config.path # <<>>
    BY <1>1, <1>4
  <2>2. config # [path |-> <<>>, route |-> NoRoute]
    BY <2>1
  <2>3. config.route = _findRoute(config.path)
    BY <2>2 DEF CacheIsCoherent
  <2> QED BY <1>2, <1>3, <1>4, <2>3, FindRouteFinds
<1>5. CASE config.path # q.target
  BY <1>2, <1>3, <1>5, FindRouteFinds
<1> QED BY <1>4, <1>5

\* Every request is answered in one of these ways (run).
LEMMA RunAnswers ==
  ASSUME NEW q \in Requests, CacheIsCoherent, IsTree(files), run(q)
  PROVE  Answered(q, _findRoute(q.target), files', response')
<1>1. PICK r \in Routes : r = _findRoute(q.target) /\ r = config'.route
  BY RouteOfRequest
<1>2. Redirect(q, r) \/ NotAllowed(q, r) \/ RunCgi(q, r) \/ implementMethod(q, r)
  BY <1>1 DEF run
<1>3. IsPath(q.target)
  BY RequestIs
<1>4. PICK s : s = NewResponse /\ IsResponse(s) /\ s.status = 200
  BY NewIsAResponse
<1>5. PICK p : p = Segments(getFullFilesystemPath(r, q.target)) /\ p = FileFor(q)
  BY <1>1 DEF FileFor
<1>6. CASE Redirect(q, r)
  <2>1. /\ response' = buildReturnPage(s, r.redirectCode, r.redirectPath)
        /\ files' = files /\ r.redirectPath # <<>>
    BY <1>4, <1>6 DEF Redirect
  <2>2. PICK x : x = setStatusCode(s, r.redirectCode) /\ IsResponse(x)
                 /\ x.status = r.redirectCode
    BY <1>4, StatusIsSet
  <2>3. response' = [x EXCEPT !.location = r.redirectPath]
    BY <2>1, <2>2 DEF buildReturnPage
  <2>4. response'.status = r.redirectCode
    BY <2>2, <2>3 DEF IsResponse
  <2> QED BY <1>1, <2>1, <2>4 DEF Answered, Redirected
<1>7. CASE NotAllowed(q, r)
  <2>1. 405 \in Codes /\ ~Good(405)
    BY DEF Codes, Good
  <2>2. response' = buildErrorPage(s, 405, files) /\ files' = files
    BY <1>4, <1>7 DEF NotAllowed
  <2>3. response'.status \in Codes /\ ~Good(response'.status) /\ Explains(response', files)
    BY <1>4, <2>1, <2>2, ErrorPageExplains
  <2>4. Refused(q, r, files', response')
    BY <1>7, <2>2, <2>3 DEF Refused, NotAllowed
  <2> QED BY <1>1, <2>4 DEF Answered
<1>8. CASE RunCgi(q, r)
  <2>1. Allowed(q, r) /\ isAllowedCgi(r, q.target) /\ files' = files
    BY <1>8 DEF RunCgi
  <2>2. CASE \E code \in {403, 404, 500} : response' = buildErrorPage(NewResponse, code, files)
    <3>1. PICK code \in {403, 404, 500} : response' = buildErrorPage(s, code, files)
      BY <1>4, <2>2
    <3>2. code \in Codes /\ ~Good(code)
      BY DEF Codes, Good
    <3>3. response'.status \in Codes /\ ~Good(response'.status)
          /\ Explains(response', files)
      BY <1>4, <3>1, <3>2, ErrorPageExplains
    <3>4. Scripted(q, r, files', response')
      BY <2>1, <3>3 DEF Scripted
    <3> QED BY <1>1, <3>4 DEF Answered
  <2>3. CASE \E code \in ScriptCodes : response' = buildCgiPage(NewResponse, code)
    <3>1. PICK code \in ScriptCodes : response' = buildCgiPage(s, code)
      BY <1>4, <2>3
    <3> DEFINE b == Body("script", <<>>)
    <3>2. IsBody(b) /\ b.from = "script"
      BY DEF IsBody, Body
    <3>3. PICK x : x = setStatusCode(s, code) /\ IsResponse(x) /\ x.status = code
      BY <1>4, StatusIsSet
    <3>4. response' = setBody(x, b)
      BY <3>1, <3>3 DEF buildCgiPage
    <3> HIDE DEF b
    <3>5. response'.status = code /\ response'.body.from = "script"
      BY <3>2, <3>3, <3>4, BodyIsSet
    <3>6. code \in Codes
      BY DEF ScriptCodes, Codes
    <3>7. Scripted(q, r, files', response')
      BY <2>1, <3>5, <3>6 DEF Scripted
    <3> QED BY <1>1, <3>7 DEF Answered
  <2> QED BY <1>8, <2>2, <2>3 DEF RunCgi
<1>9. CASE implementMethod(q, r)
  <2>1. Allowed(q, r) /\ ~isAllowedCgi(r, q.target)
    BY <1>9 DEF implementMethod
  <2>2. CASE q.method = "GET" /\ Finish(Unchanged(_fetchFile(q, r, files)))
    <3>1. PICK x : x = _fetchFile(q, r, files) /\ Fetched(x, p, r, files)
      BY <1>3, <1>5, FetchIs
    <3>2. PICK u : u = [fs |-> files, response |-> x] /\ Finish(u)
      BY <2>2, <3>1 DEF Unchanged
    <3>3. IsUpload(u)
      BY <3>1, <3>2 DEF IsUpload, Fetched
    <3>4. Sent(u, files', response')
      BY <3>2, <3>3, FinishSends
    <3>5. Got(q, r, files', response')
      BY <1>5, <2>2, <3>1, <3>2, <3>4 DEF Got
    <3> QED BY <1>1, <2>1, <3>5 DEF Answered
  <2>3. CASE q.method = "DELETE" /\ Finish(Delete(q, r))
    <3>1. PICK v : v = Delete(q, r) /\ Deleted(files, v, p)
      BY <1>5, DeleteIs
    <3>2. Sent(v, files', response')
      BY <2>3, <3>1, FinishSends DEF Deleted
    <3>3. Removed(q, files', response')
      BY <1>5, <2>3, <3>1, <3>2 DEF Removed
    <3> QED BY <1>1, <2>1, <3>3 DEF Answered
  <2>4. CASE q.method = "OPTIONS" /\ Finish(Options)
    <3>1. PICK x : x = setStatusCode(s, 204) /\ IsResponse(x) /\ x.status = 204
      BY <1>4, StatusIsSet
    <3>2. PICK u : u = [fs |-> files, response |-> x] /\ Finish(u)
      BY <1>4, <2>4, <3>1 DEF Unchanged, Options
    <3>3. IsUpload(u)
      BY <3>1, <3>2 DEF IsUpload, Codes
    <3>4. Sent(u, files', response')
      BY <3>2, <3>3, FinishSends
    <3>5. Plainly(q, files', response')
      BY <2>4, <3>1, <3>2, <3>4 DEF Plainly
    <3> QED BY <1>1, <2>1, <3>5 DEF Answered
  <2>5. CASE q.method = "POST" /\ \E rooms \in [1..Len(q.parts) -> {0, 1, MaxContent}] :
                                     Finish(Post(q, r, rooms))
    <3>0. PICK rooms \in [1..Len(q.parts) -> {0, 1, MaxContent}] :
            Finish(Post(q, r, rooms))
      BY <2>5
    <3>1. \A i \in 1..Len(q.parts) : rooms[i] \in Nat
      <4>1. MaxContent \in Nat
        BY RequestsAssumption
      <4> QED BY <4>1
    <3>2. PICK v : v = Post(q, r, rooms) /\ PostLeaves(files, v, q, r)
                   /\ (~r.uploadAllowed => v.fs = files /\ v.response.status = 403)
      BY <3>1, PostIsStored
    <3>3. Sent(v, files', response')
      BY <3>0, <3>2, FinishSends DEF PostLeaves
    <3>4. Posted(q, r, files', response')
      BY <2>5, <3>2, <3>3 DEF Posted
    <3> QED BY <1>1, <2>1, <3>4 DEF Answered
  <2>6. CASE q.method \notin MethodRegistry
             /\ Finish(Unchanged(setStatusCode(NewResponse, 501)))
    <3>1. PICK x : x = setStatusCode(s, 501) /\ IsResponse(x) /\ x.status = 501
      BY <1>4, StatusIsSet
    <3>2. PICK u : u = [fs |-> files, response |-> x] /\ Finish(u)
      BY <1>4, <2>6, <3>1 DEF Unchanged
    <3>3. IsUpload(u)
      BY <3>1, <3>2 DEF IsUpload, Codes
    <3>4. Sent(u, files', response')
      BY <3>2, <3>3, FinishSends
    <3>5. Plainly(q, files', response')
      BY <2>6, <3>1, <3>2, <3>4 DEF Plainly, MethodRegistry
    <3> QED BY <1>1, <2>1, <3>5 DEF Answered
  <2> QED BY <1>9, <2>2, <2>3, <2>4, <2>5, <2>6 DEF implementMethod
<1> QED BY <1>2, <1>6, <1>7, <1>8, <1>9


----------------------------------------------------------------------------
(* Every request.                                                          *)

\* ErrorsAreExplained and FirstIndexIsServed, of what they speak about.
Explained(r, fs, t) ==
  ~Good(t.status) /\ t.body.from # "script" /\ r.redirectPath = <<>> => Explains(t, fs)

IndexServed(q, r, fs, t) ==
  LET S == {i \in 1..Len(r.defaultFiles) : Opens(r, fs, i)}
  IN  /\ q.method = "GET" /\ Allowed(q, r) /\ ~isAllowedCgi(r, q.target)
      /\ IsDirectory(fs, FileFor(q)) /\ S # {}
      => /\ t.status = 200
         /\ \E i \in S :
              /\ \A j \in S : i <= j
              /\ t.body.content = Contents(fs, Segments(IndexPath(r, i))) \o <<"\n", "\r">>

\* A method leaves directories above the files, and one of the statuses.
LEMMA AnswersAreTyped ==
  ASSUME IsTree(files), NEW q, NEW r \in Routes, NEW fs, NEW t,
         Answered(q, r, fs, t)
  PROVE  IsTree(fs)
         /\ t.status \in Codes \cup {routes[i].redirectCode : i \in 1..Len(routes)}
<1>1. CASE Redirected(r, t) /\ fs = files
  <2>1. \E i \in 1..Len(routes) : r = routes[i]
    BY RoutesAssumption DEF Routes, ToSet
  <2> QED BY <1>1, <2>1 DEF Redirected
<1>2. CASE Refused(q, r, fs, t)
  BY <1>2 DEF Refused
<1>3. CASE Scripted(q, r, fs, t)
  BY <1>3 DEF Scripted
<1>4. CASE Got(q, r, fs, t)
  BY <1>4 DEF Got, Sent
<1>5. CASE Posted(q, r, fs, t)
  BY <1>5 DEF Posted, Sent, PostLeaves, IsUpload
<1>6. CASE Removed(q, fs, t)
  BY <1>6 DEF Removed, Sent, Deleted, IsUpload
<1>7. CASE Plainly(q, fs, t)
  BY <1>7 DEF Plainly, Sent
<1> QED BY <1>1, <1>2, <1>3, <1>4, <1>5, <1>6, <1>7 DEF Answered

\* Whatever the answer, an error is explained.
LEMMA AnswersAreExplained ==
  ASSUME NEW q, NEW r, NEW fs, NEW t, Answered(q, r, fs, t)
  PROVE  Explained(r, fs, t)
<1>1. ASSUME NEW u, Sent(u, fs, t) PROVE Explained(r, fs, t)
  BY <1>1 DEF Sent, Explained
<1>2. CASE Redirected(r, t) /\ fs = files
  BY <1>2 DEF Redirected, Explained
<1>3. CASE Refused(q, r, fs, t)
  BY <1>3 DEF Refused, Explained
<1>4. CASE Scripted(q, r, fs, t)
  BY <1>4 DEF Scripted, Explained
<1>5. CASE Got(q, r, fs, t)
  BY <1>1, <1>5 DEF Got
<1>6. CASE Posted(q, r, fs, t)
  BY <1>1, <1>6 DEF Posted
<1>7. CASE Removed(q, fs, t)
  BY <1>1, <1>7 DEF Removed
<1>8. CASE Plainly(q, fs, t)
  BY <1>1, <1>8 DEF Plainly
<1> QED BY <1>2, <1>3, <1>4, <1>5, <1>6, <1>7, <1>8 DEF Answered

\* Whatever the answer, a directory with an index file is answered with the first.
LEMMA AnswersHaveTheIndex ==
  ASSUME NEW q \in Requests, NEW r \in Routes, NEW fs, NEW t, Answered(q, r, fs, t)
  PROVE  IndexServed(q, r, fs, t)
<1>1. CASE Redirected(r, t) \/ Refused(q, r, fs, t) \/ Scripted(q, r, fs, t)
  BY <1>1 DEF Redirected, Refused, Scripted, Allowed, IndexServed
<1>2. CASE q.method # "GET"
  BY <1>2 DEF IndexServed
<1>3. CASE Got(q, r, fs, t)
  <2>1. PICK x : Fetched(x, FileFor(q), r, files)
                 /\ Sent([fs |-> files, response |-> x], fs, t)
    BY <1>3 DEF Got
  <2>2. fs = files /\ (Good(x.status) => t = x)
    BY <2>1 DEF Sent
  <2> SUFFICES ASSUME IsDirectory(fs, FileFor(q)),
                      \E i \in 1..Len(r.defaultFiles) : Opens(r, fs, i)
               PROVE  \E i \in 1..Len(r.defaultFiles) :
                        /\ Opens(r, fs, i)
                        /\ \A j \in 1..Len(r.defaultFiles) : Opens(r, fs, j) => i <= j
                        /\ t.status = 200
                        /\ t.body.content =
                             Contents(fs, Segments(IndexPath(r, i))) \o <<"\n", "\r">>
    BY DEF IndexServed
  <2>3. PICK i \in 1..Len(r.defaultFiles) :
          /\ Opens(r, fs, i)
          /\ \A j \in 1..Len(r.defaultFiles) : Opens(r, fs, j) => i <= j
          /\ x = TryOf(r, fs, i)
    BY <2>1, <2>2 DEF Fetched
  <2>4. x.status = 200
        /\ x.body.content = Contents(fs, Segments(IndexPath(r, i))) \o <<"\n", "\r">>
    BY SMTT(40), <2>3, TryIs
  <2>5. t = x
    BY <2>2, <2>4 DEF Good
  <2> QED BY <2>3, <2>4, <2>5
<1> QED BY <1>1, <1>2, <1>3 DEF Answered, Posted, Removed, Plainly

\* What is true after every request.
ActionInvariant ==
  CacheIsCoherent /\ IsTree(files) /\ AnswerFitsTheFiles /\ FirstIndexIsServed

\* It is true at first.
LEMMA InvariantAtFirst == ActionInit => ActionInvariant
<1> SUFFICES ASSUME ActionInit PROVE ActionInvariant
  OBVIOUS
<1>1. CacheIsCoherent
  BY DEF ActionInit, ConfigInit, CacheIsCoherent
<1>2. ActionTypeOK /\ IsTree(files)
  <2>1. \A p \in DOMAIN Disk : Disk[p] = Directory \/ IsPath(Disk[p])
    BY DiskAssumption DEF IsPath
  <2> QED BY <2>1, DiskAssumption, NewIsAResponse DEF ActionInit, ActionTypeOK, IsTree
<1>3. ErrorsAreExplained
  <2>1. response.status = 200 /\ Good(200)
    BY NewIsAResponse DEF ActionInit, Good
  <2> QED BY <2>1 DEF ErrorsAreExplained
<1>4. FirstIndexIsServed
  BY DEF ActionInit, FirstIndexIsServed
<1> QED BY <1>1, <1>2, <1>3, <1>4 DEF ActionInvariant, AnswerFitsTheFiles

\* Every request leaves it true.
LEMMA InvariantIsKept ==
  ASSUME ActionInvariant, NEW q \in Requests, run(q)
  PROVE  ActionInvariant'
<1>1. IsTree(files)
  BY DEF ActionInvariant
<1>2. CacheIsCoherent' /\ request' = q
  BY RouteOfRequest DEF ActionInvariant, run
<1>3. PICK r \in Routes : r = _findRoute(q.target) /\ r = config'.route
  BY RouteOfRequest DEF ActionInvariant
<1>4. Answered(q, r, files', response')
  BY <1>1, <1>3, RunAnswers DEF ActionInvariant
<1>5. ActionTypeOK' /\ IsTree(files')
  <2>1. IsTree(files')
        /\ response'.status \in Codes \cup {routes[i].redirectCode : i \in 1..Len(routes)}
    BY <1>1, <1>4, AnswersAreTyped
  <2> QED BY <1>2, <2>1 DEF ActionTypeOK, IsTree, Codes
<1>6. ErrorsAreExplained'
  <2>1. Explained(r, files', response')
    BY <1>4, AnswersAreExplained
  <2> QED BY <1>3, <2>1 DEF Explained, Explains, ErrorsAreExplained
<1>7. FirstIndexIsServed'
  <2>1. IndexServed(q, r, files', response')
    BY <1>4, AnswersHaveTheIndex
  <2>2. FileOf[q.target] = FileFor(q)
    BY RequestIs DEF FileOf, FileFor
  <2>3. IndexServed(request', config'.route, files', response')
    BY <1>2, <1>3, <2>1
  <2>4. FileOf[request'.target] = FileFor(request')
    BY <1>2, <2>2
  <2> QED BY ONLY <2>3, <2>4 DEF IndexServed, FirstIndexIsServed, Opens, IndexPath
<1> QED BY <1>2, <1>5, <1>6, <1>7 DEF ActionInvariant, AnswerFitsTheFiles

\* It is always true.
LEMMA InvariantAlways == ActionSpec => []ActionInvariant
<1>1. ActionInvariant /\ [ActionNext]_actionVars => ActionInvariant'
  <2> SUFFICES ASSUME ActionInvariant, [ActionNext]_actionVars PROVE ActionInvariant'
    OBVIOUS
  <2>1. CASE ActionNext
    BY <2>1, InvariantIsKept DEF ActionNext
  <2>2. CASE UNCHANGED actionVars
    <3>1. config' = config /\ files' = files /\ request' = request /\ response' = response
      BY <2>2 DEF actionVars
    <3>2. CacheIsCoherent' /\ IsTree(files')
      BY <3>1 DEF ActionInvariant, CacheIsCoherent
    <3>3. ActionTypeOK'
      BY <3>1 DEF ActionInvariant, AnswerFitsTheFiles, ActionTypeOK
    <3>4. ErrorsAreExplained'
      BY <3>1 DEF ActionInvariant, AnswerFitsTheFiles, ErrorsAreExplained
    <3>5. FirstIndexIsServed'
      <4>1. CASE request = NoRequest
        BY <3>1, <4>1 DEF FirstIndexIsServed
      <4>2. CASE request # NoRequest
        <5>1. request \in Requests
          BY <4>2 DEF ActionInvariant, AnswerFitsTheFiles, ActionTypeOK
        <5>2. FileOf[request.target] = FileFor(request)
          BY <5>1, RequestIs DEF FileOf, FileFor
        <5>3. FirstIndexIsServed
          BY DEF ActionInvariant
        <5>4. IndexServed(request, config.route, files, response)
          BY ONLY <4>2, <5>2, <5>3 DEF IndexServed, FirstIndexIsServed, Opens, IndexPath
        <5>5. IndexServed(request', config'.route, files', response')
              /\ FileOf[request'.target] = FileFor(request')
          BY <3>1, <5>2, <5>4
        <5> QED BY ONLY <5>5 DEF IndexServed, FirstIndexIsServed, Opens, IndexPath
      <4> QED BY <4>1, <4>2
    <3> QED BY <3>2, <3>3, <3>4, <3>5 DEF ActionInvariant, AnswerFitsTheFiles
  <2> QED BY <2>1, <2>2
<1> QED BY <1>1, InvariantAtFirst, PTL DEF ActionSpec

\* On every site and after any requests there are directories above all files, and an
\* error is answered with the page configured for it, or with the built-in page that
\* says what happened, or why the configured page is missing (run, buildErrorPage).
THEOREM AnswersFit == ActionSpec => []AnswerFitsTheFiles
<1>1. ActionInvariant => AnswerFitsTheFiles
  BY DEF ActionInvariant
<1> QED BY <1>1, InvariantAlways, PTL

\* However many index files a location has, and whatever was uploaded and deleted before,
\* a directory is answered with the first that can be opened (_checkForIndexFiles).
THEOREM IndexIsServed == ActionSpec => []FirstIndexIsServed
<1>1. ActionInvariant => FirstIndexIsServed
  BY DEF ActionInvariant
<1> QED BY <1>1, InvariantAlways, PTL


----------------------------------------------------------------------------
(* What clients see of the files.                                          *)

\* Items are the parts, in their order.
LEMMA ItemsAreParts ==
  ASSUME NEW q \in Requests
  PROVE  /\ Len(Items[q]) = Len(q.parts) /\ Len(q.parts) \in Nat
         /\ \A i \in 1..Len(q.parts) : Items[q][i] = Item(q, i)
<1>1. PICK n \in Nat : n = Len(q.parts)
  BY RequestIs
<1>2. PICK s : s = [i \in 1..n |-> Item(q, i)] /\ s = Items[q]
  BY <1>1 DEF Items
<1>3. Len(s) = n /\ \A i \in 1..n : s[i] = Item(q, i)
  BY <1>2
<1> QED BY <1>1, <1>2, <1>3

\* What a part with content asks to be stored is not empty.
LEMMA ContentIsStored ==
  ASSUME NEW q \in Requests, NEW i \in 1..Len(q.parts)
  PROVE  Item(q, i).content # <<>> <=> q.parts[i].content # <<>>
<1>1. PICK part : part = q.parts[i] /\ IsPath(part.content)
  BY RequestIs DEF PartSet, IsPath
<1>2. Item(q, i).content = IF part.name # <<>> \/ part.content = <<>> THEN part.content
                           ELSE <<"time">> \o part.content \o <<"\n", "\n">>
  BY <1>1 DEF Item
<1>3. PICK c : c = part.content /\ IsPath(c)
  BY <1>1
<1>4. PICK text : text = <<"time">> \o c \o <<"\n", "\n">> /\ text # <<>>
  <2>1. PICK x, y : /\ x = <<"time">> /\ Len(x) = 1 /\ IsPath(x)
                    /\ y = <<"\n", "\n">> /\ Len(y) = 2 /\ IsPath(y)
    <3>1. <<"time">> \in Seq({"time"}) /\ <<"\n", "\n">> \in Seq({"\n"})
      OBVIOUS
    <3>2. Len(<<"time">>) = 1 /\ Len(<<"\n", "\n">>) = 2
      OBVIOUS
    <3>3. IsPath(<<"time">>) /\ IsPath(<<"\n", "\n">>)
      BY <3>1 DEF IsPath
    <3> QED BY ONLY <3>2, <3>3
  <2>2. PICK z : z = x \o c /\ IsPath(z) /\ Len(z) = Len(x) + Len(c)
    BY <1>3, <2>1, PathsJoined
  <2>3. Len(z \o y) = Len(z) + Len(y)
    BY <2>1, <2>2, PathsJoined
  <2>4. Len(c) \in Nat
    BY <1>3 DEF IsPath
  <2>5. Len(z \o y) > 0
    BY ONLY <2>1, <2>2, <2>3, <2>4
  <2>6. z \o y # <<>>
    <3>1. Len(<<>>) = 0
      OBVIOUS
    <3> QED BY ONLY <2>5, <3>1
  <2> QED BY <2>1, <2>2, <2>6
<1>5. Item(q, i).content = IF part.name # <<>> \/ c = <<>> THEN c ELSE text
  BY <1>2, <1>3, <1>4
<1> QED BY ONLY <1>1, <1>3, <1>4, <1>5

\* Where a part goes is one of the resources the request names.
LEMMA AimsAreNamed ==
  ASSUME UploadsGoBelow, NEW q \in Requests, q.method = "POST",
         _findRoute(q.target).uploadAllowed, Allowed(q, _findRoute(q.target)),
         ~isAllowedCgi(_findRoute(q.target), q.target),
         NEW n, Aims(q, _findRoute(q.target), n)
  PROVE  \E j \in 1..Len(q.parts) :
           /\ q.parts[j].content # <<>>
           /\ UrlOf(q, j) \in Urls /\ n = FileOf[UrlOf(q, j)]
<1>1. PICK r : r = _findRoute(q.target)
  OBVIOUS
<1>2. PICK i \in 1..Len(q.parts) :
        q.parts[i].content # <<>> /\ n = PlaceOf(q, r, q.parts[i])
  BY <1>1 DEF Aims
<1>3. UrlOf(q, i) \in Urls /\ FileOf[UrlOf(q, i)] = PlaceOf(q, r, q.parts[i])
  BY <1>1, <1>2 DEF UploadsGoBelow, PlaceOf
<1> QED BY <1>2, <1>3

\* OnlyNamedFilesChange, of one request.
OnlyNamed(q, fs, new, t) ==
  LET r == _findRoute(q.target)
      touched == {p \in DOMAIN fs \cup DOMAIN new :
                    \/ p \notin DOMAIN fs \/ p \notin DOMAIN new
                    \/ fs[p] # new[p]}
  IN  /\ r.redirectPath = <<>>
      /\ r.allowedMethods = {} \/ <<q.method>> \in r.allowedMethods
      /\ \/ /\ q.method = "POST" /\ r.uploadAllowed
            /\ \A p \in touched : \E i \in 1..Len(q.parts) :
                 q.parts[i].content # <<>> /\ p = FileOf[UrlOf(q, i)]
         \/ /\ q.method = "DELETE" /\ t.status = 200
            /\ touched = {FileOf[q.target]}

\* A request that changes something is a POST or a DELETE that its location allows.
LEMMA AnswersTouchTheNamed ==
  ASSUME UploadsGoBelow, NEW q \in Requests, NEW new, NEW t,
         Answered(q, _findRoute(q.target), new, t), new # files
  PROVE  OnlyNamed(q, files, new, t)
<1>1. PICK r : r = _findRoute(q.target) /\ Answered(q, r, new, t)
  OBVIOUS
<1> DEFINE touched == {p \in DOMAIN files \cup DOMAIN new :
                         \/ p \notin DOMAIN files \/ p \notin DOMAIN new
                         \/ files[p] # new[p]}
<1>2. \A p \in touched : Changed(files, new, p)
  BY DEF Changed
<1>3. ~Redirected(r, t) \/ new # files
  OBVIOUS
<1>4. Allowed(q, r) /\ ~isAllowedCgi(r, q.target)
      /\ (Posted(q, r, new, t) \/ Removed(q, new, t))
  <2>1. ~Refused(q, r, new, t) /\ ~Scripted(q, r, new, t)
    BY DEF Refused, Scripted
  <2>2. ~Got(q, r, new, t) /\ ~Plainly(q, new, t)
    BY DEF Got, Plainly, Sent
  <2> QED BY <1>1, <2>1, <2>2 DEF Answered
<1>5. r.redirectPath = <<>> /\ (r.allowedMethods = {} \/ <<q.method>> \in r.allowedMethods)
  BY <1>4 DEF Allowed, isAllowedMethod
<1>6. CASE Posted(q, r, new, t)
  <2>1. PICK v : /\ PostLeaves(files, v, q, r) /\ Sent(v, new, t)
                 /\ ~r.uploadAllowed => v.fs = files /\ v.response.status = 403
    BY <1>6 DEF Posted
  <2>2. v.fs = new /\ q.method = "POST"
    BY <1>6, <2>1 DEF Sent, Posted
  <2>3. r.uploadAllowed
    BY <2>1, <2>2
  <2>4. ASSUME NEW p \in touched
        PROVE  \E i \in 1..Len(q.parts) :
                 q.parts[i].content # <<>> /\ p = FileOf[UrlOf(q, i)]
    <3>1. Aims(q, r, p)
      BY <1>2, <2>1, <2>2 DEF PostLeaves
    <3> HIDE DEF touched
    <3> QED BY <1>1, <1>4, <2>2, <2>3, <3>1, AimsAreNamed
  <2> QED BY <1>1, <1>5, <2>2, <2>3, <2>4 DEF OnlyNamed
<1>7. CASE Removed(q, new, t)
  <2>1. PICK v : Deleted(files, v, FileFor(q)) /\ Sent(v, new, t)
    BY <1>7 DEF Removed
  <2>2. v.fs = new /\ q.method = "DELETE"
    BY <1>7, <2>1 DEF Sent, Removed
  <2>3. v.response.status = 200
    BY <2>1, <2>2 DEF Deleted
  <2>4. t.status = 200
    BY <2>1, <2>3 DEF Sent, Good
  <2>5. PICK p : p = FileFor(q) /\ p = FileOf[q.target]
    BY RequestIs DEF FileOf, FileFor
  <2>6. p \in DOMAIN files /\ new = [n \in DOMAIN files \ {p} |-> files[n]]
    BY <2>1, <2>2, <2>3, <2>5 DEF Deleted
  <2>7. touched = {p}
    BY <2>6
  <2> QED BY <1>1, <1>5, <2>2, <2>4, <2>5, <2>7 DEF OnlyNamed
<1> QED BY <1>4, <1>6, <1>7

\* Where uploads go below the root of their location, whatever the requests, nothing
\* changes the files but a POST or a DELETE the location allows, and these change nothing
\* but what they name, if they succeed or not (run and the methods).
THEOREM OnlyTheNamedChange ==
  ASSUME UploadsGoBelow
  PROVE  ActionSpec => OnlyNamedFilesChange
<1>1. ASSUME ActionInvariant, ActionNext, files' # files
      PROVE  OnlyNamed(request', files, files', response')
  <2>1. PICK q \in Requests : run(q)
    BY <1>1 DEF ActionNext
  <2>2. request' = q /\ CacheIsCoherent /\ IsTree(files)
    BY <1>1, <2>1 DEF run, ActionInvariant
  <2>3. Answered(q, _findRoute(q.target), files', response')
    BY <2>1, <2>2, RunAnswers
  <2>4. OnlyNamed(q, files, files', response')
    BY <1>1, <2>3, AnswersTouchTheNamed
  <2> QED BY <2>2, <2>4
<1>2. ActionInvariant /\ [ActionNext]_actionVars
        => [files' # files => OnlyNamed(request', files, files', response')]_actionVars
  BY <1>1
<1> QED BY <1>2, InvariantAlways, PTL DEF ActionSpec, OnlyNamedFilesChange, OnlyNamed


----------------------------------------------------------------------------
(* The store.                                                              *)

\* The store that some files are.
StoreOf(fs) == [u \in {v \in Urls : FileOf[v] \in DOMAIN fs} |-> fs[FileOf[u]]]

\* What there is after each of the items.
WriteLoop(f, n, st, items) ==
  /\ f[0] = st
  /\ \A i \in 1..n : f[i] = Store!Write(f[i - 1], items[i])
  /\ Store!Written(st, items) = f[n]

\* The items are written one after the other (ResourceStore).
LEMMA WrittenAre ==
  ASSUME NEW st, NEW items, NEW n, n = Len(items), n \in Nat
  PROVE  \E f : WriteLoop(f, n, st, items)
<1> DEFINE Turn(x, i) == Store!Write(x, items[i])
           Is(f, m) == f = [i \in 0..m |-> IF i = 0 THEN st ELSE Turn(f[i - 1], i)]
           N == {m \in Nat : \E f : Is(f, m)}
<1> HIDE DEF Turn
<1>1. 0 \in N
  <2>1. Is([i \in 0..0 |-> st], 0)
    OBVIOUS
  <2> QED BY <2>1
<1>2. ASSUME NEW m \in Nat, m \in N PROVE m + 1 \in N
  <2>1. PICK g : Is(g, m)
    BY <1>2
  <2> DEFINE f == [i \in 0..(m + 1) |-> IF i <= m THEN g[i] ELSE Turn(g[m], m + 1)]
  <2>2. ASSUME NEW i \in 0..(m + 1)
        PROVE  f[i] = IF i = 0 THEN st ELSE Turn(f[i - 1], i)
    <3>1. CASE i = 0
      BY <2>1, <3>1
    <3>2. CASE i \in 1..m
      <4>1. f[i] = g[i] /\ f[i - 1] = g[i - 1]
        BY <3>2
      <4>2. g[i] = Turn(g[i - 1], i)
        BY <2>1, <3>2
      <4> QED BY <3>2, <4>1, <4>2
    <3>3. CASE i = m + 1
      <4>1. f[i] = Turn(g[m], i) /\ f[i - 1] = g[m]
        BY <3>3
      <4> QED BY <3>3, <4>1
    <3> QED BY <3>1, <3>2, <3>3
  <2>3. Is(f, m + 1)
    <3> HIDE DEF f
    <3>1. f = [i \in 0..(m + 1) |-> f[i]]
      BY DEF f
    <3> QED BY <2>2, <3>1
  <2> HIDE DEF f, Is
  <2>4. \E h : Is(h, m + 1)
    BY <2>3
  <2> QED BY <2>4
<1>3. \E h : Is(h, n)
  <2>1. \A m \in Nat : m \in N
    <3> HIDE DEF N
    <3> QED BY ONLY <1>1, <1>2, AllNaturals
  <2> QED BY <2>1
<1> DEFINE f == CHOOSE h : Is(h, n)
<1>4. Is(f, n)
  <2> HIDE DEF Is
  <2> QED BY <1>3
<1>5. Store!Written(st, items) = f[n]
  BY DEF Store!Written, Turn
<1> HIDE DEF f
<1>6. f[0] = st /\ \A i \in 1..n : f[i] = Turn(f[i - 1], i)
  BY <1>4
<1>7. WriteLoop(f, n, st, items)
  BY <1>5, <1>6 DEF Turn, WriteLoop
<1> QED BY <1>7

\* A file that is written is a resource that is written.
LEMMA PutIsWritten ==
  ASSUME ResourcesAreFiles, NEW fs, NEW q \in Requests, NEW i \in 1..Len(q.parts),
         NEW part, part = q.parts[i], part.content # <<>>,
         NEW p, UrlOf(q, i) \in Urls, FileOf[UrlOf(q, i)] = p
  PROVE  StoreOf(Put(fs, p, OldOf(fs, p, part) \o TextOf(part)))
           = Store!Write(StoreOf(fs), Item(q, i))
<1>1. PICK url \in Urls : url = UrlOf(q, i) /\ FileOf[url] = p
  OBVIOUS
<1>2. PICK item : item = Item(q, i)
  OBVIOUS
<1>3. /\ item.url = url /\ item.content = TextOf(part)
      /\ item.append <=> part.name = <<>>
  <2>1. item.url = url
    BY <1>1, <1>2 DEF Item
  <2>2. item.content = TextOf(part)
    BY <1>2, ContentIsStored DEF Item, TextOf
  <2>3. item.append <=> part.name = <<>>
    BY <1>2 DEF Item
  <2> QED BY <2>1, <2>2, <2>3
<1>4. PICK st : st = StoreOf(fs)
  OBVIOUS
<1>5. /\ DOMAIN st = {v \in Urls : FileOf[v] \in DOMAIN fs}
      /\ \A v \in DOMAIN st : st[v] = fs[FileOf[v]]
  BY <1>4 DEF StoreOf
<1>6. PICK old : old = IF item.append /\ item.url \in DOMAIN st THEN st[item.url] ELSE <<>>
  OBVIOUS
<1>7. old = OldOf(fs, p, part)
  <2>1. url \in DOMAIN st <=> p \in DOMAIN fs
    BY <1>1, <1>5
  <2>2. url \in DOMAIN st => st[url] = fs[p]
    BY <1>1, <1>5
  <2> QED BY <1>3, <1>6, <2>1, <2>2 DEF OldOf
<1>8. PICK content : content = old \o TextOf(part)
  OBVIOUS
<1>9. PICK new : new = Put(fs, p, content)
  OBVIOUS
<1>10. DOMAIN new = DOMAIN fs \cup {p} /\ new[p] = content
       /\ \A n \in DOMAIN fs : n # p => new[n] = fs[n]
  BY <1>9 DEF Put
<1>11. \A v \in Urls : FileOf[v] = p <=> v = url
  BY <1>1 DEF ResourcesAreFiles
<1> DEFINE D == {v \in Urls : FileOf[v] \in DOMAIN new}
<1>12. D = DOMAIN st \cup {url}
  BY <1>1, <1>5, <1>10, <1>11
<1>13. \A v \in D : new[FileOf[v]] = IF v = url THEN content ELSE st[v]
  BY <1>1, <1>5, <1>10, <1>11
<1>14. StoreOf(new) = [v \in D |-> new[FileOf[v]]]
  BY DEF StoreOf
<1> HIDE DEF D
<1>15. StoreOf(new) = [v \in DOMAIN st \cup {url} |-> IF v = url THEN content ELSE st[v]]
  BY <1>12, <1>13, <1>14
<1>16. Store!Write(st, item) =
         [v \in DOMAIN st \cup {url} |-> IF v = url THEN content ELSE st[v]]
  <2>1. Store!Stores(item)
    BY <1>2, ContentIsStored DEF Store!Stores
  <2> QED BY <1>3, <1>6, <1>8, <2>1 DEF Store!Write
<1> QED BY <1>2, <1>4, <1>7, <1>8, <1>9, <1>15, <1>16


\* An upload answered 201 has written its items to the store, in their order
\* (downloadMultiPart).
LEMMA UploadIsWritten ==
  ASSUME UploadsGoBelow, ResourcesAreFiles, NEW q \in Requests, q.method = "POST",
         _findRoute(q.target).uploadAllowed, Allowed(q, _findRoute(q.target)),
         ~isAllowedCgi(_findRoute(q.target), q.target),
         NEW v, PostLeaves(files, v, q, _findRoute(q.target)), v.response.status = 201
  PROVE  StoreOf(v.fs) = Store!Written(StoreOf(files), Items[q])
<1>1. PICK r : r = _findRoute(q.target) /\ PostLeaves(files, v, q, r)
  OBVIOUS
<1>2. PICK n \in Nat : n = Len(q.parts)
  BY RequestIs
<1>3. PICK g : /\ g[0] = files /\ g[n] = v.fs
               /\ \A i \in 1..n : Stores(g[i - 1], g[i], q, r, q.parts[i])
  BY <1>1, <1>2 DEF PostLeaves
<1>5. n = Len(Items[q]) /\ \A i \in 1..n : Items[q][i] = Item(q, i)
  BY <1>2, ItemsAreParts
<1>6. PICK st : st = StoreOf(files)
  OBVIOUS
<1>7. PICK f : /\ f[0] = st
               /\ \A i \in 1..n : f[i] = Store!Write(f[i - 1], Items[q][i])
               /\ Store!Written(st, Items[q]) = f[n]
  <2>1. \E f : WriteLoop(f, n, st, Items[q])
    BY ONLY <1>5, WrittenAre
  <2> QED BY <2>1 DEF WriteLoop
<1> DEFINE N == {k \in Nat : k <= n => f[k] = StoreOf(g[k])}
<1>9. 0 \in N
  BY <1>3, <1>6, <1>7
<1>10. ASSUME NEW k \in Nat, k \in N PROVE k + 1 \in N
  <2> SUFFICES ASSUME k + 1 <= n PROVE f[k + 1] = StoreOf(g[k + 1])
    OBVIOUS
  <2>1. PICK i \in 1..n : i = k + 1 /\ i - 1 = k
    OBVIOUS
  <2>2. f[k] = StoreOf(g[k])
    BY <1>10
  <2>3. PICK part : part = q.parts[i]
    OBVIOUS
  <2>4. Stores(g[k], g[i], q, r, part)
    BY <1>3, <2>1, <2>3
  <2>7. f[i] = Store!Write(f[k], Item(q, i))
    BY <1>5, <1>7, <2>1
  <2>5. CASE part.content = <<>>
    <3>1. ~Store!Stores(Item(q, i))
      BY <1>2, <2>3, <2>5, ContentIsStored DEF Store!Stores
    <3>2. g[i] = g[k]
      BY <2>4, <2>5 DEF Stores
    <3>3. f[i] = f[k]
      BY <2>7, <3>1 DEF Store!Write
    <3> QED BY <2>1, <2>2, <3>2, <3>3
  <2>6. CASE part.content # <<>>
    <3>2. PICK p : p = PlaceOf(q, r, part)
      OBVIOUS
    <3>3. g[i] = Put(g[k], p, OldOf(g[k], p, part) \o TextOf(part))
      BY <2>4, <2>6, <3>2 DEF Stores
    <3>4. UrlOf(q, i) \in Urls /\ FileOf[UrlOf(q, i)] = p
      <4>1. i \in 1..Len(q.parts)
        BY <1>2
      <4> QED BY <1>1, <2>3, <2>6, <3>2, <4>1 DEF UploadsGoBelow, PlaceOf
    <3>5. StoreOf(g[i]) = Store!Write(StoreOf(g[k]), Item(q, i))
      BY <1>2, <2>3, <2>6, <3>3, <3>4, PutIsWritten
    <3> QED BY <2>1, <2>2, <2>7, <3>5
  <2> QED BY <2>5, <2>6
<1>11. f[n] = StoreOf(g[n])
  <2>1. \A k \in Nat : k \in N
    <3> HIDE DEF N
    <3> QED BY ONLY <1>9, <1>10, AllNaturals
  <2> QED BY <2>1
<1> QED BY <1>3, <1>6, <1>7, <1>11

\* What an upload stores, if it succeeds.
Kept(q) == {Items[q][i].url : i \in {j \in 1..Len(Items[q]) : Store!Stores(Items[q][j])}}

\* What an upload does not name it leaves alone, if it succeeds or not.
LEMMA OthersAreKept ==
  ASSUME UploadsGoBelow, ResourcesAreFiles, NEW q \in Requests, q.method = "POST",
         _findRoute(q.target).uploadAllowed, Allowed(q, _findRoute(q.target)),
         ~isAllowedCgi(_findRoute(q.target), q.target),
         NEW v, PostLeaves(files, v, q, _findRoute(q.target)),
         NEW u \in Urls \ Kept(q)
  PROVE  /\ u \in DOMAIN StoreOf(files) <=> u \in DOMAIN StoreOf(v.fs)
         /\ u \in DOMAIN StoreOf(files) => StoreOf(v.fs)[u] = StoreOf(files)[u]
<1>1. PICK n : n = FileOf[u]
  OBVIOUS
<1>2. ASSUME Changed(files, v.fs, n) PROVE FALSE
  <2>1. Aims(q, _findRoute(q.target), n)
    BY <1>2 DEF PostLeaves
  <2>2. PICK j \in 1..Len(q.parts) :
          q.parts[j].content # <<>> /\ UrlOf(q, j) \in Urls /\ n = FileOf[UrlOf(q, j)]
    BY <2>1, AimsAreNamed
  <2>3. u = UrlOf(q, j)
    BY <1>1, <2>2 DEF ResourcesAreFiles
  <2>4. j \in 1..Len(Items[q]) /\ Items[q][j] = Item(q, j) /\ Store!Stores(Item(q, j))
    BY <2>2, ItemsAreParts, ContentIsStored DEF Store!Stores
  <2>5. Item(q, j).url = UrlOf(q, j)
    BY DEF Item
  <2> QED BY <2>3, <2>4, <2>5 DEF Kept
<1>3. n \in DOMAIN files <=> n \in DOMAIN v.fs
  BY <1>2 DEF Changed
<1>4. n \in DOMAIN files => v.fs[n] = files[n]
  BY <1>2 DEF Changed
<1>5. ASSUME NEW fs
      PROVE  /\ u \in DOMAIN StoreOf(fs) <=> n \in DOMAIN fs
             /\ u \in DOMAIN StoreOf(fs) => StoreOf(fs)[u] = fs[n]
  BY <1>1 DEF StoreOf
<1>6. /\ u \in DOMAIN StoreOf(v.fs) <=> n \in DOMAIN v.fs
      /\ u \in DOMAIN StoreOf(v.fs) => StoreOf(v.fs)[u] = v.fs[n]
  BY <1>5
<1>7. /\ u \in DOMAIN StoreOf(files) <=> n \in DOMAIN files
      /\ u \in DOMAIN StoreOf(files) => StoreOf(files)[u] = files[n]
  BY <1>5
<1> QED BY <1>3, <1>4, <1>6, <1>7

\* A file that is removed is a resource that is removed.
LEMMA RemovedIsDeleted ==
  ASSUME ResourcesAreFiles, NEW url \in Urls, FileOf[url] \in DOMAIN files
  PROVE  LET st == StoreOf(files)  p == FileOf[url] IN
         /\ url \in DOMAIN st
         /\ StoreOf([n \in DOMAIN files \ {p} |-> files[n]])
              = [u \in DOMAIN st \ {url} |-> st[u]]
<1>1. PICK p : p = FileOf[url]
  OBVIOUS
<1>2. PICK st : st = StoreOf(files)
  OBVIOUS
<1>3. /\ DOMAIN st = {v \in Urls : FileOf[v] \in DOMAIN files}
      /\ \A v \in DOMAIN st : st[v] = files[FileOf[v]]
  BY <1>2 DEF StoreOf
<1>4. PICK new : new = [n \in DOMAIN files \ {p} |-> files[n]]
  OBVIOUS
<1>5. DOMAIN new = DOMAIN files \ {p} /\ \A n \in DOMAIN new : new[n] = files[n]
  BY <1>4
<1>6. \A v \in Urls : FileOf[v] = p <=> v = url
  BY <1>1 DEF ResourcesAreFiles
<1> DEFINE D == {v \in Urls : FileOf[v] \in DOMAIN new}
<1>7. D = DOMAIN st \ {url}
  BY <1>3, <1>5, <1>6
<1>8. \A v \in D : new[FileOf[v]] = st[v]
  BY <1>3, <1>5, <1>7
<1>9. StoreOf(new) = [v \in D |-> new[FileOf[v]]]
  BY DEF StoreOf
<1> HIDE DEF D
<1>10. StoreOf(new) = [u \in DOMAIN st \ {url} |-> st[u]]
  BY <1>7, <1>8, <1>9
<1>11. url \in DOMAIN st
  BY <1>1, <1>3
<1> QED BY <1>1, <1>2, <1>4, <1>10, <1>11


\* The store after a request whose files are known.
LEMMA StoreIs ==
  storeOf = StoreOf(files) /\ storeOf' = StoreOf(files')
<1>1. storeOf = StoreOf(files)
  BY DEF storeOf, StoreOf
<1>2. storeOf' = StoreOf(files')
  BY DEF storeOf, StoreOf
<1> QED BY <1>1, <1>2

\* The reply to a request.
LEMMA ReplyIs ==
  ASSUME NEW q \in Requests, request' = q
  PROVE  /\ replyOf'.method = q.method /\ replyOf'.url = q.target
         /\ replyOf'.status = response'.status
         /\ replyOf'.script <=> response'.body.from = "script"
         /\ replyOf'.content = response'.body.content
         /\ replyOf'.items = Items[q]
<1>1. q # NoRequest
  BY RequestsAssumption
<1>2. replyOf' = [method  |-> q.method,
                  url     |-> q.target,
                  status  |-> response'.status,
                  script  |-> response'.body.from = "script",
                  content |-> response'.body.content,
                  items   |-> Items[q]]
  BY <1>1 DEF replyOf
<1>3. replyOf'.script <=> response'.body.from = "script"
  BY <1>2
<1> QED BY <1>2, <1>3

\* A request that leaves the files alone: one that fails, or that looks at them.
LEMMA LookOrFail ==
  ASSUME NEW q \in Requests, request' = q, files' = files,
         q.method \in {"POST", "DELETE"} => ~Good(response'.status),
         response'.status = 200 /\ q.target \in Urls /\ FileFor(q) \in DOMAIN files
         /\ files[FileFor(q)] # Directory
           => replyOf'.content = files[FileFor(q)] \o <<"\n", "\r">>
  PROVE  Store!StoreNext
<1>1. PICK st : st = storeOf /\ st = storeOf' /\ st = StoreOf(files)
  BY StoreIs
<1>2. PICK p : p = FileFor(q) /\ p = FileOf[q.target]
  BY RequestIs DEF FileOf, FileFor
<1>3. /\ replyOf'.method = q.method /\ replyOf'.url = q.target
      /\ replyOf'.status = response'.status
  BY ReplyIs
<1>4. CASE q.method = "POST"
  <2>1. ~Store!Good(replyOf'.status)
    BY <1>3, <1>4 DEF Store!Good, Good
  <2>2. Store!SameExcept({replyOf'.items[i].url :
                            i \in {j \in 1..Len(replyOf'.items) :
                                     Store!Stores(replyOf'.items[j])}})
    BY <1>1 DEF Store!SameExcept
  <2>3. Store!SaveFails
    BY <1>3, <1>4, <2>1, <2>2 DEF Store!SaveFails
  <2> QED BY <2>3 DEF Store!StoreNext
<1>5. CASE q.method = "DELETE"
  <2>1. ~Store!Good(replyOf'.status)
    BY <1>3, <1>5 DEF Store!Good, Good
  <2>2. Store!DeleteFails
    BY <1>1, <1>3, <1>5, <2>1 DEF Store!DeleteFails
  <2> QED BY <2>2 DEF Store!StoreNext
<1>6. CASE q.method \notin {"POST", "DELETE"}
  <2>1. ASSUME response'.status = 200, q.target \in Store!Resources
        PROVE  replyOf'.content = st[q.target] \o <<"\n", "\r">>
    <3>1. q.target \in DOMAIN st /\ st[q.target] # Directory
      BY <1>1, <2>1 DEF Store!Resources
    <3>2. q.target \in Urls /\ p \in DOMAIN files /\ st[q.target] = files[p]
      BY <1>1, <1>2, <3>1 DEF StoreOf
    <3> QED BY <1>2, <2>1, <3>1, <3>2
  <2>2. replyOf'.method \notin {"POST", "DELETE"} /\ storeOf' = storeOf
    BY <1>1, <1>3, <1>6
  <2>3. replyOf'.status = 200 /\ replyOf'.url \in Store!Resources =>
          replyOf'.content = storeOf[replyOf'.url] \o <<"\n", "\r">>
    BY <1>1, <1>3, <2>1
  <2>4. Store!Look
    BY <2>2, <2>3 DEF Store!Look
  <2> QED BY <2>4 DEF Store!StoreNext
<1> QED BY <1>4, <1>5, <1>6

\* A GET of a file that is there is answered with what it holds.
LEMMA GotIsRead ==
  ASSUME IsTree(files), NEW q \in Requests, request' = q,
         Got(q, _findRoute(q.target), files', response'), response'.status = 200,
         FileFor(q) \in DOMAIN files, files[FileFor(q)] # Directory
  PROVE  replyOf'.content = files[FileFor(q)] \o <<"\n", "\r">>
<1>1. PICK p : p = FileFor(q)
  OBVIOUS
<1>2. PICK x : /\ Fetched(x, p, _findRoute(q.target), files)
               /\ Sent([fs |-> files, response |-> x], files', response')
  BY <1>1 DEF Got
<1>3. 200 \in 200..226
  OBVIOUS
<1>4. response' = x
  BY <1>2, <1>3 DEF Sent, Good
<1>5. p # <<>> /\ IsPath(files[p])
  BY <1>1 DEF IsTree
<1>6. ~IsDirectory(files, p) /\ Contents(files, p) = files[p]
  BY <1>1, <1>5 DEF IsDirectory, Contents
<1>7. response'.body.content = files[p] \o <<"\n", "\r">>
  BY <1>2, <1>4, <1>6 DEF Fetched
<1> QED BY <1>1, <1>7, ReplyIs

\* What a POST does is one step of the store.
LEMMA PostedIsSaved ==
  ASSUME UploadsGoBelow, ResourcesAreFiles, NEW q \in Requests, request' = q,
         Allowed(q, _findRoute(q.target)), ~isAllowedCgi(_findRoute(q.target), q.target),
         Posted(q, _findRoute(q.target), files', response')
  PROVE  Store!StoreNext
<1>1. PICK r : r = _findRoute(q.target)
  OBVIOUS
<1>2. PICK v : /\ PostLeaves(files, v, q, r) /\ Sent(v, files', response')
               /\ ~r.uploadAllowed => v.fs = files /\ v.response.status = 403
  BY <1>1 DEF Posted
<1>3. q.method = "POST" /\ files' = v.fs
  BY <1>1, <1>2 DEF Posted, Sent
<1>4. PICK st, new : st = StoreOf(files) /\ new = StoreOf(v.fs)
                     /\ storeOf = st /\ storeOf' = new
  BY <1>3, StoreIs
<1>5. /\ replyOf'.method = "POST" /\ replyOf'.status = response'.status
      /\ replyOf'.items = Items[q]
  BY <1>3, ReplyIs
<1>6. CASE Good(v.response.status)
  <2>1. v.response.status = 201 /\ response' = v.response
    BY <1>2, <1>6 DEF PostLeaves, Sent
  <2>2. r.uploadAllowed
    BY <1>2, <2>1
  <2>3. new = Store!Written(st, Items[q])
    BY <1>1, <1>2, <1>3, <1>4, <2>1, <2>2, UploadIsWritten
  <2>4. Store!Save
    BY <1>4, <1>5, <2>1, <2>3 DEF Store!Save
  <2> QED BY <2>4 DEF Store!StoreNext
<1>7. CASE ~Good(v.response.status)
  <2>1. ~Store!Good(replyOf'.status)
    BY <1>2, <1>5, <1>7 DEF Sent, Store!Good, Good
  <2>2. ASSUME NEW u \in Urls \ Kept(q)
        PROVE  /\ u \in DOMAIN st <=> u \in DOMAIN new
               /\ u \in DOMAIN st => new[u] = st[u]
    <3>1. CASE r.uploadAllowed
      BY <1>1, <1>2, <1>3, <1>4, <3>1, OthersAreKept
    <3>2. CASE ~r.uploadAllowed
      BY <1>2, <1>4, <3>2
    <3> QED BY <3>1, <3>2
  <2>3. Store!SameExcept(Kept(q))
    BY <1>4, <2>2 DEF Store!SameExcept
  <2>4. Store!SaveFails
    BY <1>5, <2>1, <2>3 DEF Store!SaveFails, Kept
  <2> QED BY <2>4 DEF Store!StoreNext
<1> QED BY <1>6, <1>7

\* What a DELETE does is one step of the store.
LEMMA RemovedIsGone ==
  ASSUME ResourcesAreFiles, NEW q \in Requests, request' = q,
         Removed(q, files', response')
  PROVE  Store!StoreNext
<1>1. PICK p : p = FileFor(q) /\ p = FileOf[q.target]
  BY RequestIs DEF FileOf, FileFor
<1>2. PICK v : Deleted(files, v, p) /\ Sent(v, files', response')
  BY <1>1 DEF Removed
<1>3. q.method = "DELETE" /\ files' = v.fs
  BY <1>2 DEF Removed, Sent
<1>4. CASE v.response.status = 200
  <2>1. response'.status = 200
    BY <1>2, <1>4 DEF Sent, Good
  <2>2. p \in DOMAIN files /\ files' = [n \in DOMAIN files \ {p} |-> files[n]]
    BY <1>2, <1>3, <1>4 DEF Deleted
  <2>3. q.target \in Urls
    BY <1>3 DEF ResourcesAreFiles
  <2>4. PICK st : st = StoreOf(files) /\ st = storeOf
    BY StoreIs
  <2>5. q.target \in DOMAIN st
        /\ storeOf' = [u \in DOMAIN st \ {q.target} |-> st[u]]
    BY <1>1, <2>2, <2>3, <2>4, StoreIs, RemovedIsDeleted
  <2>6. replyOf'.method = "DELETE" /\ replyOf'.url = q.target /\ replyOf'.status = 200
    BY <1>3, <2>1, ReplyIs
  <2>7. Store!Delete
    BY <2>4, <2>5, <2>6 DEF Store!Delete
  <2> QED BY <2>7 DEF Store!StoreNext
<1>5. CASE v.response.status # 200
  <2>1. files' = files /\ ~Good(response'.status)
    BY <1>2, <1>3, <1>5 DEF Deleted, Sent
  <2>2. response'.status # 200
    BY <2>1 DEF Good
  <2> QED BY <2>1, <2>2, LookOrFail
<1> QED BY <1>4, <1>5

\* Every request is one step of the store.
LEMMA RunRefines ==
  ASSUME UploadsGoBelow, ResourcesAreFiles, CacheIsCoherent, IsTree(files),
         NEW q \in Requests, run(q)
  PROVE  Store!StoreNext
<1>1. PICK r : r = _findRoute(q.target)
  OBVIOUS
<1>2. request' = q /\ Answered(q, r, files', response')
  BY <1>1, RunAnswers DEF run
<1>3. ASSUME files' = files, ~Good(response'.status)
      PROVE  Store!StoreNext
  <2>1. response'.status # 200
    BY <1>3 DEF Good
  <2> QED BY <1>2, <1>3, <2>1, LookOrFail
<1>4. CASE Redirected(r, response') /\ files' = files
  <2>1. ~Good(response'.status)
    BY <1>1, <1>4 DEF Redirected, ResourcesAreFiles
  <2> QED BY <1>3, <1>4, <2>1
<1>5. CASE Refused(q, r, files', response')
  BY <1>3, <1>5 DEF Refused
<1>6. CASE Scripted(q, r, files', response')
  <2>1. files' = files /\ isAllowedCgi(r, q.target)
        /\ (response'.body.from = "script" \/ ~Good(response'.status))
    BY <1>6 DEF Scripted
  <2>2. q.target \notin Urls /\ q.method # "DELETE"
    BY <1>1, <2>1 DEF ResourcesAreFiles
  <2>3. CASE ~Good(response'.status)
    BY <1>3, <2>1, <2>3
  <2>4. CASE q.method = "POST" /\ response'.body.from = "script"
    <3>1. storeOf' = storeOf
      BY <2>1, StoreIs
    <3>2. replyOf'.method = "POST" /\ replyOf'.script
      BY <1>2, <2>4, ReplyIs
    <3>3. Store!Run
      BY <3>1, <3>2 DEF Store!Run
    <3> QED BY <3>3 DEF Store!StoreNext
  <2>5. CASE q.method # "POST"
    BY <1>2, <2>1, <2>2, <2>5, LookOrFail
  <2> QED BY <2>1, <2>3, <2>4, <2>5
<1>7. CASE /\ Allowed(q, r) /\ ~isAllowedCgi(r, q.target)
           /\ \/ Got(q, r, files', response') \/ Posted(q, r, files', response')
              \/ Removed(q, files', response') \/ Plainly(q, files', response')
  <2>1. CASE Got(q, r, files', response')
    <3>1. files' = files /\ q.method = "GET"
      BY <2>1 DEF Got, Sent
    <3>2. q.method \notin {"POST", "DELETE"}
      BY <3>1
    <3>3. response'.status = 200 /\ q.target \in Urls /\ FileFor(q) \in DOMAIN files
          /\ files[FileFor(q)] # Directory
            => replyOf'.content = files[FileFor(q)] \o <<"\n", "\r">>
      BY <1>1, <1>2, <2>1, GotIsRead
    <3> QED BY <1>2, <3>1, <3>2, <3>3, LookOrFail
  <2>2. CASE Posted(q, r, files', response')
    BY <1>1, <1>2, <1>7, <2>2, PostedIsSaved
  <2>3. CASE Removed(q, files', response')
    BY <1>2, <2>3, RemovedIsGone
  <2>4. CASE Plainly(q, files', response')
    <3>1. files' = files /\ q.method \notin {"POST", "DELETE"}
      BY <2>4 DEF Plainly, Sent
    <3>2. PICK x : IsResponse(x) /\ x.status \in {204, 501}
                   /\ Sent([fs |-> files, response |-> x], files', response')
      BY <2>4 DEF Plainly
    <3>3. response'.status # 200
      BY <3>2 DEF Sent, Good
    <3> QED BY <1>2, <3>1, <3>3, LookOrFail
  <2> QED BY <1>7, <2>1, <2>2, <2>3, <2>4
<1> QED BY <1>2, <1>4, <1>5, <1>6, <1>7 DEF Answered

\* Where uploads go below the root of their location and resources are files, whatever
\* the requests, their number and the failures of the disk, the answers are those of a
\* store of resources: 201 has stored every part that is not empty, in their order, GET
\* returns what was stored last with the end that every body has, 200 to a DELETE has
\* removed its target, and an answer that is not good has changed nothing but what its own
\* parts name (run and the methods).
THEOREM StoreIsImplemented ==
  ASSUME UploadsGoBelow, ResourcesAreFiles
  PROVE  ActionSpec => ImplementsStore
<1>1. ActionInit => Store!StoreInit
  <2>1. DOMAIN storeOf \subseteq Urls
    BY DEF storeOf
  <2> QED BY <2>1 DEF Store!StoreInit
<1>2. ActionInvariant /\ [ActionNext]_actionVars => [Store!StoreNext]_Store!storeVars
  <2> SUFFICES ASSUME ActionInvariant, [ActionNext]_actionVars
               PROVE  [Store!StoreNext]_Store!storeVars
    OBVIOUS
  <2>1. CASE ActionNext
    <3>1. PICK q \in Requests : run(q)
      BY <2>1 DEF ActionNext
    <3>2. Store!StoreNext
      BY <3>1, RunRefines DEF ActionInvariant
    <3> QED BY <3>2
  <2>2. CASE UNCHANGED actionVars
    <3>1. files' = files /\ request' = request /\ response' = response
      BY <2>2 DEF actionVars
    <3>2. storeOf' = storeOf
      BY <3>1, StoreIs
    <3>3. replyOf' = replyOf
      BY <3>1 DEF replyOf
    <3> QED BY <3>2, <3>3 DEF Store!storeVars
  <2> QED BY <2>1, <2>2
<1> QED BY <1>1, <1>2, InvariantAlways, PTL DEF ActionSpec, ImplementsStore, Store!StoreSpec
=============================================================================
