------------------------- MODULE ConfigParserProofs --------------------------
(***************************************************************************)
(* What the parser accepts, for every configuration file and every mistake *)
(* in it.                                                                  *)
(***************************************************************************)
EXTENDS ConfigParser, ServerConfigProofs

----------------------------------------------------------------------------
(* A file is a sequence of words.                                          *)

\* One turn of the recursion of FlattenSeq.
Joined(seqs, before, i) == IF i = 1 THEN seqs[i] ELSE before \o seqs[i]

IsJoined(f, seqs, n) == f = [i \in 1..n |-> Joined(seqs, f[i - 1], i)]

LEMMA JoinedExists ==
  ASSUME NEW seqs, NEW n \in Nat
  PROVE  \E f : IsJoined(f, seqs, n)
<1> DEFINE T == {k \in Nat : \E f : IsJoined(f, seqs, k)}
<1>1. 0 \in T
  <2>1. IsJoined([i \in 1..0 |-> <<>>], seqs, 0)
    BY DEF IsJoined
  <2> QED BY <2>1
<1>2. ASSUME NEW k \in Nat, k \in T PROVE k + 1 \in T
  <2>1. PICK g : IsJoined(g, seqs, k)
    BY <1>2
  <2> DEFINE f == [i \in 1..(k + 1) |-> IF i <= k THEN g[i] ELSE Joined(seqs, g[k], k + 1)]
  <2>2. ASSUME NEW i \in 1..(k + 1)
        PROVE  f[i] = Joined(seqs, f[i - 1], i)
    <3>1. CASE i = 1 /\ k = 0
      <4>1. f[i] = Joined(seqs, g[k], 1)
        BY <3>1
      <4> HIDE DEF f
      <4> QED BY <3>1, <4>1 DEF Joined
    <3>2. CASE i = 1 /\ k # 0
      <4>1. f[i] = g[i]
        BY <3>2
      <4>2. g[i] = Joined(seqs, g[i - 1], i)
        BY <2>1, <3>2 DEF IsJoined
      <4> HIDE DEF f
      <4> QED BY <3>2, <4>1, <4>2 DEF Joined
    <3>3. CASE i \in 2..k
      <4>1. f[i] = g[i] /\ f[i - 1] = g[i - 1]
        BY <3>3
      <4>2. g[i] = Joined(seqs, g[i - 1], i)
        BY <2>1, <3>3 DEF IsJoined
      <4> HIDE DEF f
      <4> QED BY <3>3, <4>1, <4>2
    <3>4. CASE i = k + 1 /\ i # 1
      <4>1. f[i] = Joined(seqs, g[k], k + 1) /\ f[i - 1] = g[k]
        BY <3>4
      <4> HIDE DEF f
      <4> QED BY <3>4, <4>1
    <3> QED BY <3>1, <3>2, <3>3, <3>4
  <2>3. f = [i \in 1..(k + 1) |-> f[i]]
    OBVIOUS
  <2> HIDE DEF f
  <2>4. IsJoined(f, seqs, k + 1)
    BY <2>2, <2>3 DEF IsJoined
  <2> QED BY <2>4
<1>3. \A k \in Nat : k \in T
  <2> HIDE DEF T
  <2> QED BY ONLY <1>1, <1>2, AllNaturals
<1> QED BY <1>3

\* Sequences, one behind the other, are one.
LEMMA FlattenIsASequence ==
  ASSUME NEW S, NEW seqs \in Seq(Seq(S))
  PROVE  FlattenSeq(seqs) \in Seq(S)
<1>1. CASE Len(seqs) = 0
  <2>1. FlattenSeq(seqs) = <<>>
    BY <1>1 DEF FlattenSeq
  <2> QED BY <2>1
<1>2. CASE Len(seqs) # 0
  <2> DEFINE n == Len(seqs)
             f == CHOOSE g : IsJoined(g, seqs, n)
             U == {k \in Nat : k + 1 \in 1..n => f[k + 1] \in Seq(S)}
  <2>1. FlattenSeq(seqs) = f[n]
    <3>1. FlattenSeq(seqs) = IF Len(seqs) = 0 THEN seqs
                             ELSE (CHOOSE g : IsJoined(g, seqs, Len(seqs)))[Len(seqs)]
      BY DEF FlattenSeq, IsJoined, Joined
    <3> QED BY <1>2, <3>1
  <2>2. IsJoined(f, seqs, n)
    <3>1. n \in Nat
      OBVIOUS
    <3>2. \E g : IsJoined(g, seqs, n)
      BY <3>1, JoinedExists
    <3> QED BY <3>2
  <2> HIDE DEF f
  <2>3. \A i \in 1..n : f[i] = Joined(seqs, f[i - 1], i)
    BY <2>2 DEF IsJoined
  <2>4. 0 \in U
    BY <2>3 DEF Joined
  <2>5. ASSUME NEW k \in Nat, k \in U PROVE k + 1 \in U
    <3> SUFFICES ASSUME k + 2 \in 1..n PROVE f[k + 2] \in Seq(S)
      OBVIOUS
    <3>1. f[k + 2] = Joined(seqs, f[k + 1], k + 2)
      BY <2>3
    <3>2. f[k + 1] \in Seq(S) /\ seqs[k + 2] \in Seq(S)
      BY <2>5
    <3> QED BY <3>1, <3>2 DEF Joined
  <2>6. \A k \in Nat : k \in U
    <3> HIDE DEF U
    <3> QED BY ONLY <2>4, <2>5, AllNaturals
  <2>7. n - 1 \in Nat /\ n - 1 + 1 = n
    BY <1>2
  <2>8. n - 1 \in U
    <3> HIDE DEF U
    <3> QED BY <2>6, <2>7
  <2> QED BY <1>2, <2>1, <2>7, <2>8
<1> QED BY <1>1, <1>2

\* The least of some numbers is one of them.
LEMMA LeastIsOne ==
  ASSUME NEW I \in SUBSET Nat, I # {}
  PROVE  Min(I) \in I /\ \A i \in I : Min(I) <= i
<1> DEFINE T == {n \in Nat : \A m \in 0..n : m \notin I}
<1>1. \E x \in I : \A y \in I : x <= y
  <2> SUFFICES ASSUME ~\E x \in I : \A y \in I : x <= y PROVE FALSE
    OBVIOUS
  <2>1. 0 \in T
    <3>1. 0 \notin I
      OBVIOUS
    <3> QED BY <3>1
  <2>2. ASSUME NEW n \in Nat, n \in T PROVE n + 1 \in T
    <3>1. n + 1 \notin I
      <4> SUFFICES ASSUME n + 1 \in I PROVE FALSE
        OBVIOUS
      <4>1. PICK y \in I : y < n + 1
        OBVIOUS
      <4>2. y \in 0..n
        BY <4>1
      <4> QED BY <2>2, <4>2
    <3>2. \A m \in 0..(n + 1) : m \in 0..n \/ m = n + 1
      OBVIOUS
    <3> QED BY <2>2, <3>1, <3>2
  <2>3. \A n \in Nat : n \in T
    <3> HIDE DEF T
    <3> QED BY ONLY <2>1, <2>2, AllNaturals
  <2>4. \A n \in Nat : n \notin I
    BY <2>3
  <2> QED BY <2>4
<1> QED BY <1>1 DEF Min

\* A piece of a sequence.
LEMMA PieceIsASequence ==
  ASSUME NEW S, NEW s \in Seq(S), NEW m \in Nat \ {0}, NEW n \in Int, n <= Len(s)
  PROVE  /\ SubSeq(s, m, n) \in Seq(S)
         /\ Len(SubSeq(s, m, n)) = IF m <= n THEN n - m + 1 ELSE 0
         /\ \A i \in 1..(n - m + 1) : SubSeq(s, m, n)[i] = s[m + i - 1]
OBVIOUS

LEMMA FrontIsASequence ==
  ASSUME NEW S, NEW s \in Seq(S)
  PROVE  Front(s) \in Seq(S) /\ (s # <<>> => Last(s) \in S)
BY DEF Front, Last

LEMMA OneIsASequence ==
  ASSUME NEW S, NEW x \in S
  PROVE  <<x>> \in Seq(S) \ {<<>>} /\ Len(<<x>>) = 1
OBVIOUS

LEMMA TwoAreASequence ==
  ASSUME NEW S, NEW x \in S, NEW y \in S
  PROVE  <<x, y>> \in Seq(S) \ {<<>>} /\ Len(<<x, y>>) = 2
OBVIOUS

LEMMA AppendIsASequence ==
  ASSUME NEW S, NEW s \in Seq(S), NEW x \in S
  PROVE  Append(s, x) \in Seq(S) \ {<<>>}
BY AppendProperties

\* The symbols the parser compares with or puts in, and those of the file.
Symbols ==
  STRING \cup {";", "{", "}", "#", "/", "location", "server", "127.0.0.1", "uploads.txt"}

\* The words of a file.
Tokens == Seq(Symbols)

LEMMA WordsAreTokens ==
  ASSUME NEW word \in Words
  PROVE  word \in Tokens
<1>1. word = [i \in 1..Len(word) |-> word[i]] /\ Len(word) \in Nat
  BY DEF Words
<1>2. \A i \in 1..Len(word) : word[i] \in STRING
  BY DEF Words
<1>3. STRING \subseteq Symbols
  BY DEF Symbols
<1>4. \A i \in 1..Len(word) : word[i] \in Symbols
  BY <1>2, <1>3
<1> QED BY <1>1, <1>4 DEF Tokens

LEMMA SymbolsAreTokens ==
  ASSUME NEW c \in Symbols
  PROVE  <<c>> \in Tokens
BY OneIsASequence DEF Tokens

LEMMA MarksAreTokens ==
  /\ Semicolon \in Tokens /\ Opens \in Tokens /\ Closes \in Tokens
  /\ <<"location">> \in Tokens /\ <<"server">> \in Tokens /\ <<"#">> \in Tokens
  /\ <<"127.0.0.1">> \in Tokens /\ DEFAULT_UPLOAD_FILE \in Tokens
<1>1. /\ ";" \in Symbols /\ "{" \in Symbols /\ "}" \in Symbols
      /\ "location" \in Symbols /\ "server" \in Symbols /\ "#" \in Symbols
      /\ "127.0.0.1" \in Symbols /\ "/" \in Symbols /\ "uploads.txt" \in Symbols
  BY DEF Symbols
<1>2. DEFAULT_UPLOAD_FILE \in Tokens
  BY <1>1, TwoAreASequence DEF DEFAULT_UPLOAD_FILE, Tokens
<1> QED BY <1>1, <1>2, SymbolsAreTokens DEF Semicolon, Opens, Closes

\* A line is not empty when it is written, and a file may have empty ones.
Lines == Seq(Seq(Tokens) \ {<<>>})
AnyLines == Seq(Seq(Tokens))

LEMMA LineIsALine ==
  ASSUME NEW d \in Directives
  PROVE  Line(d) \in Seq(Tokens) \ {<<>>}
<1>1. d.name \in Symbols /\ d.args \in Seq(Tokens) /\ d.args # <<>>
  <2>1. d.name \in STRING /\ d.args \in Seq(Words) /\ d.args # <<>>
    BY DEF Directives
  <2>2. d.args = [i \in 1..Len(d.args) |-> d.args[i]] /\ Len(d.args) \in Nat
    BY <2>1
  <2>3. \A i \in 1..Len(d.args) : d.args[i] \in Tokens
    BY <2>1, WordsAreTokens
  <2>4. d.name \in Symbols
    <3>1. STRING \subseteq Symbols
      BY DEF Symbols
    <3> QED BY <2>1, <3>1
  <2> QED BY <2>1, <2>2, <2>3, <2>4
<1>2. Front(d.args) \in Seq(Tokens) /\ Last(d.args) \in Tokens
  BY <1>1, FrontIsASequence
<1>3. <<<<d.name>>>> \in Seq(Tokens)
  <2>1. <<d.name>> \in Tokens
    BY <1>1, SymbolsAreTokens
  <2> QED BY <2>1, OneIsASequence
<1>4. Last(d.args) \o Semicolon \in Tokens
  BY <1>2, MarksAreTokens DEF Tokens
<1>5. <<Last(d.args) \o Semicolon>> \in Seq(Tokens)
  BY <1>4
<1> DEFINE a == <<<<d.name>>>>
           b == Front(d.args)
           c == <<Last(d.args) \o Semicolon>>
<1>6. Len(c) = 1
  OBVIOUS
<1>7. Line(d) = a \o b \o c
  BY DEF Line
<1> HIDE DEF a, b, c
<1>8. Len(a \o b \o c) > 0 /\ a \o b \o c \in Seq(Tokens)
  BY <1>2, <1>3, <1>5, <1>6 DEF a, b, c
<1> QED BY <1>7, <1>8

LEMMA LinesOfAreLines ==
  ASSUME NEW ds \in Seq(Directives)
  PROVE  LinesOf(ds) \in Lines
<1>1. \A i \in 1..Len(ds) : Line(ds[i]) \in Seq(Tokens) \ {<<>>}
  BY LineIsALine
<1> QED BY <1>1 DEF LinesOf, Lines

LEMMA BlockIsLines ==
  ASSUME NEW head \in Seq(Tokens), NEW inner \in Lines
  PROVE  Block(head, inner) \in Lines
<1>1. Append(head, Opens) \in Seq(Tokens) \ {<<>>}
  BY MarksAreTokens, AppendIsASequence
<1>2. <<Closes>> \in Seq(Tokens) \ {<<>>}
  BY MarksAreTokens, OneIsASequence
<1> DEFINE L == Seq(Tokens) \ {<<>>}
           a == Append(head, Opens)
           c == <<Closes>>
<1>3. Block(head, inner) = <<a>> \o inner \o <<c>> /\ inner \in Seq(L)
  BY DEF Block, Lines
<1> HIDE DEF a, c, L
<1>4. a \in L /\ c \in L
  BY <1>1, <1>2 DEF a, c, L
<1>5. <<a>> \o inner \o <<c>> \in Seq(L)
  BY <1>3, <1>4
<1> QED BY <1>3, <1>5 DEF Lines, L

LEMMA LinesOfServerAreLines ==
  ASSUME NEW s \in Servers
  PROVE  LinesOfServer(s) \in Lines
<1>1. s.directives \in Seq(Directives) /\ s.locations \in Seq(Locations)
  BY DEF Servers
<1> DEFINE ls == [i \in 1..Len(s.locations) |-> LinesOfLocation(s.locations[i])]
<1>2. ASSUME NEW l \in Locations PROVE LinesOfLocation(l) \in Lines
  <2>1. l.path \in Tokens /\ l.directives \in Seq(Directives)
    BY WordsAreTokens DEF Locations
  <2>2. <<<<"location">>, l.path>> \in Seq(Tokens)
    BY <2>1, MarksAreTokens, TwoAreASequence
  <2> QED BY <2>1, <2>2, LinesOfAreLines, BlockIsLines DEF LinesOfLocation
<1>3. ls \in Seq(Lines)
  BY <1>1, <1>2
<1>4. FlattenSeq(ls) \in Lines
  <2> HIDE DEF ls
  <2> QED BY <1>3, FlattenIsASequence DEF Lines
<1>5. LinesOf(s.directives) \in Lines
  BY <1>1, LinesOfAreLines
<1>6. LinesOf(s.directives) \o FlattenSeq(ls) \in Lines
  <2> HIDE DEF ls
  <2> QED BY <1>4, <1>5 DEF Lines
<1>7. <<<<"server">>>> \in Seq(Tokens)
  BY MarksAreTokens, OneIsASequence
<1> QED BY <1>6, <1>7, BlockIsLines DEF LinesOfServer

\* Where a mistake is.
IsMistakeIn(m, lines) ==
  /\ m.kind \in {"word", "end", "semicolon", "space"}
  /\ m.line \in 1..Len(lines)
  /\ m.word \in 1..Len(lines[m.line])

LEMMA MistakeIsInAServer ==
  ASSUME NEW w \in Seq(Servers), NEW m \in Mistakes(w), m # NoMistake
  PROVE  m.server \in 1..Len(w) /\ IsMistakeIn(m, LinesOfServer(w[m.server]))
<1> DEFINE OneWord(k, i, line) ==
             [kind : {"word", "end"}, server : {k}, line : {i}, word : 1..Len(line)]
           AtEnd(k, i, line) ==
             [kind : IF IsSuffix(Semicolon, Last(line)) THEN {"semicolon", "space"} ELSE {},
              server : {k}, line : {i}, word : {Len(line)}]
           InServer(k, lines) ==
             UNION {OneWord(k, i, lines[i]) \cup AtEnd(k, i, lines[i]) : i \in 1..Len(lines)}
<1>1. m \in UNION {InServer(k, LinesOfServer(w[k])) : k \in 1..Len(w)}
  BY DEF Mistakes
<1> HIDE DEF InServer
<1>2. PICK k \in 1..Len(w) : m \in InServer(k, LinesOfServer(w[k]))
  BY <1>1
<1> DEFINE lines == LinesOfServer(w[k])
<1>3. lines \in Lines
  BY LinesOfServerAreLines
<1> HIDE DEF lines, OneWord, AtEnd
<1>4. m \in InServer(k, lines)
  BY <1>2 DEF lines
<1>5. PICK i \in 1..Len(lines) : m \in OneWord(k, i, lines[i]) \cup AtEnd(k, i, lines[i])
  BY <1>4 DEF InServer
<1>6. lines[i] \in Seq(Tokens) \ {<<>>} /\ Len(lines[i]) \in 1..Len(lines[i])
  <2>1. lines[i] \in Seq(Tokens) \ {<<>>}
    BY <1>3 DEF Lines
  <2> QED BY <2>1
<1>7. CASE m \in OneWord(k, i, lines[i])
  <2>1. /\ m.kind \in {"word", "end"} /\ m.server = k /\ m.line = i
        /\ m.word \in 1..Len(lines[i])
    BY <1>7 DEF OneWord
  <2> QED BY <2>1 DEF lines, IsMistakeIn
<1>8. CASE m \in AtEnd(k, i, lines[i])
  <2>1. /\ m.kind \in {"semicolon", "space"} /\ m.server = k /\ m.line = i
        /\ m.word = Len(lines[i])
    BY <1>8 DEF AtEnd
  <2> QED BY <1>6, <2>1 DEF lines, IsMistakeIn
<1> QED BY <1>5, <1>7, <1>8

\* A spoilt line in the place of a written one.
LEMMA ReplacedLineIsALine ==
  ASSUME NEW lines \in AnyLines, NEW i \in 1..Len(lines), NEW line \in Seq(Tokens)
  PROVE  [lines EXCEPT ![i] = line] \in AnyLines
BY DEF AnyLines

LEMMA SpoiltAreLines ==
  ASSUME NEW lines \in Lines, NEW m, IsMistakeIn(m, lines)
  PROVE  Spoilt(lines, m) \in AnyLines
<1> DEFINE line == lines[m.line]
<1>1. lines \in AnyLines /\ m.line \in 1..Len(lines) /\ m.word \in 1..Len(line)
  BY DEF Lines, AnyLines, IsMistakeIn
<1>2. line \in Seq(Tokens) /\ line # <<>>
  BY <1>1 DEF Lines
<1>3. CASE m.kind = "word"
  <2> DEFINE a == SubSeq(line, 1, m.word - 1)
             b == SubSeq(line, m.word + 1, Len(line))
  <2>1. a \in Seq(Tokens) /\ b \in Seq(Tokens)
    BY <1>1, <1>2
  <2>2. RemoveAt(line, m.word) = a \o b
    BY DEF RemoveAt
  <2>3. RemoveAt(line, m.word) \in Seq(Tokens)
    <3> HIDE DEF a, b
    <3> QED BY <2>1, <2>2
  <2>4. Spoilt(lines, m) = [lines EXCEPT ![m.line] = RemoveAt(line, m.word)]
    BY <1>3 DEF Spoilt
  <2> QED BY ZenonT(60), <1>1, <2>3, <2>4, ReplacedLineIsALine
<1>4. CASE m.kind = "semicolon"
  <2>1. line[m.word] \in Seq(Symbols)
    BY <1>1, <1>2 DEF Tokens
  <2>2. Front(line[m.word]) \in Tokens
    BY <2>1, FrontIsASequence DEF Tokens
  <2> DEFINE new == [line EXCEPT ![m.word] = Front(line[m.word])]
  <2>3. new \in Seq(Tokens)
    BY <1>1, <1>2, <2>2
  <2>4. Spoilt(lines, m) = [lines EXCEPT ![m.line] = new]
    BY <1>1, <1>4 DEF Spoilt, AnyLines
  <2> HIDE DEF new
  <2>5. [lines EXCEPT ![m.line] = new] \in AnyLines
    BY <1>1, <2>3, ReplacedLineIsALine
  <2> QED BY <2>4, <2>5
<1>5. CASE m.kind = "space"
  <2>1. Last(line) \in Seq(Symbols) /\ Front(line) \in Seq(Tokens)
    BY <1>2, FrontIsASequence DEF Tokens
  <2>2. Front(Last(line)) \in Tokens
    BY <2>1, FrontIsASequence DEF Tokens
  <2>3. <<Front(Last(line)), Semicolon>> \in Seq(Tokens)
    BY <2>2, MarksAreTokens, TwoAreASequence
  <2> DEFINE b == <<Front(Last(line)), Semicolon>>
             new == Front(line) \o b
  <2>4. new \in Seq(Tokens)
    <3> HIDE DEF b
    <3> QED BY <2>1, <2>3 DEF b
  <2>5. Spoilt(lines, m) = [lines EXCEPT ![m.line] = new]
    BY <1>1, <1>5 DEF Spoilt, AnyLines
  <2> HIDE DEF new
  <2>6. [lines EXCEPT ![m.line] = new] \in AnyLines
    BY <1>1, <2>4, ReplacedLineIsALine
  <2> QED BY <2>5, <2>6
<1>6. CASE m.kind = "end"
  <2>1. SubSeq(line, 1, m.word) \in Seq(Tokens)
    BY <1>1, <1>2
  <2>2. SubSeq(lines, 1, m.line - 1) \in AnyLines
    BY <1>1 DEF AnyLines
  <2>3. Spoilt(lines, m) = Append(SubSeq(lines, 1, m.line - 1), SubSeq(line, 1, m.word))
    BY <1>6 DEF Spoilt
  <2> QED BY <2>1, <2>2, <2>3, AppendIsASequence DEF AnyLines
<1> QED BY <1>3, <1>4, <1>5, <1>6 DEF IsMistakeIn

\* A file is lines of words, whatever mistake there is in it.
LEMMA FileIsLines ==
  ASSUME NEW w \in Written, NEW m \in Mistakes(w)
  PROVE  LinesOfFile(w, m) \in AnyLines
<1>1. w \in Seq(Servers)
  BY WrittenAssumption
<1> DEFINE last == IF m.kind = "end" THEN m.server ELSE Len(w)
           block(k) == IF k = m.server THEN Spoilt(LinesOfServer(w[k]), m)
                       ELSE LinesOfServer(w[k])
           blocks == [k \in 1..last |-> block(k)]
           lines == FlattenSeq(blocks)
           comment == <<<<"#">>, Closes>>
<1>2. last \in Nat /\ last <= Len(w)
  <2>1. CASE m = NoMistake
    <3>1. last = Len(w)
      BY <2>1 DEF NoMistake
    <3> QED BY <1>1, <3>1
  <2>2. CASE m # NoMistake
    <3>1. m.server \in 1..Len(w)
      BY <1>1, <2>2, MistakeIsInAServer
    <3> QED BY <1>1, <3>1
  <2> QED BY <2>1, <2>2
<1>3. ASSUME NEW k \in 1..Len(w)
      PROVE  block(k) \in AnyLines
  <2>1. LinesOfServer(w[k]) \in Lines
    BY <1>1, LinesOfServerAreLines
  <2>2. CASE k # m.server
    <3>1. block(k) = LinesOfServer(w[k])
      BY <2>2
    <3> HIDE DEF block
    <3> QED BY <2>1, <3>1 DEF Lines, AnyLines
  <2>3. CASE k = m.server
    <3>1. m # NoMistake
      BY <2>3 DEF NoMistake
    <3>2. IsMistakeIn(m, LinesOfServer(w[k]))
      BY <1>1, <2>3, <3>1, MistakeIsInAServer
    <3>3. block(k) = Spoilt(LinesOfServer(w[k]), m)
      BY <2>3
    <3> HIDE DEF block
    <3> QED BY <2>1, <3>2, <3>3, SpoiltAreLines
  <2> QED BY <2>2, <2>3
<1> HIDE DEF block
<1>4. blocks \in Seq(AnyLines)
  <2> HIDE DEF last
  <2> QED BY <1>2, <1>3
<1>5. lines \in AnyLines
  <2> HIDE DEF blocks
  <2> QED BY <1>4, FlattenIsASequence DEF AnyLines
<1>6. comment \in Seq(Tokens)
  BY MarksAreTokens, TwoAreASequence
<1>7. LinesOfFile(w, m) = [i \in 1..Len(lines) |-> lines[i] \o comment]
  BY DEF LinesOfFile, block
<1> HIDE DEF lines, comment
<1>8. Len(lines) \in Nat /\ \A i \in 1..Len(lines) : lines[i] \o comment \in Seq(Tokens)
  BY <1>5, <1>6 DEF AnyLines
<1> QED BY <1>7, <1>8 DEF AnyLines

\* Without its comment a line is still words.
LEMMA LineUpToCommentIsWords ==
  ASSUME NEW line \in Seq(Tokens)
  PROVE  UpToComment(line) \in Seq(Tokens)
<1> DEFINE I == {i \in 1..Len(line) : Contains(line[i], "#")}
           k == IF I # {} THEN Min(I) ELSE 0
           J == {i \in 1..Len(line[k]) : line[k][i] = "#"}
           j == IF J # {} THEN Min(J) ELSE 0
           kept == SubSeq(line[k], 1, j - 1)
<1>1. UpToComment(line) =
        IF k = 0 THEN line
        ELSE SubSeq(line, 1, k - 1) \o (IF kept = <<>> THEN <<>> ELSE <<kept>>)
  BY DEF UpToComment, SelectInSeq
<1>2. k \in 0..Len(line)
  <2>1. CASE I = {}
    BY <2>1
  <2>2. CASE I # {}
    <3>1. Min(I) \in I
      BY <2>2, LeastIsOne
    <3> QED BY <2>2, <3>1
  <2> QED BY <2>1, <2>2
<1> HIDE DEF k
<1>3. ASSUME k # 0
      PROVE  kept \in Tokens
  <2>1. line[k] \in Seq(Symbols)
    BY <1>2, <1>3 DEF Tokens
  <2>2. j \in 0..Len(line[k])
    <3>1. CASE J = {}
      BY <2>1, <3>1
    <3>2. CASE J # {}
      <4>1. J \in SUBSET Nat
        BY <2>1
      <4>2. Min(J) \in J
        <5> HIDE DEF J
        <5> QED BY <3>2, <4>1, LeastIsOne
      <4> QED BY <3>2, <4>2
    <3> QED BY <3>1, <3>2
  <2> HIDE DEF j
  <2> QED BY <2>1, <2>2 DEF Tokens
<1> HIDE DEF kept
<1> DEFINE rest == IF kept = <<>> THEN <<>> ELSE <<kept>>
<1>4. ASSUME k # 0
      PROVE  rest \in Seq(Tokens) /\ SubSeq(line, 1, k - 1) \in Seq(Tokens)
  <2>1. rest \in Seq(Tokens)
    BY <1>3, <1>4, OneIsASequence
  <2>2. SubSeq(line, 1, k - 1) \in Seq(Tokens)
    BY <1>2, <1>4
  <2> QED BY <2>1, <2>2
<1> HIDE DEF rest
<1>5. UpToComment(line) = IF k = 0 THEN line ELSE SubSeq(line, 1, k - 1) \o rest
  BY <1>1 DEF rest
<1> QED BY <1>4, <1>5

\* The tokens of a file are words (tokenize).
LEMMA TokensAreWords ==
  ASSUME NEW lines \in AnyLines
  PROVE  tokenize(lines) \in Seq(Tokens)
<1>1. ASSUME NEW word \in Tokens PROVE Split(word) \in Seq(Tokens)
  <2>1. Front(word) \in Tokens
    BY FrontIsASequence DEF Tokens
  <2>2. <<Front(word), Semicolon>> \in Seq(Tokens)
    BY <2>1, MarksAreTokens, TwoAreASequence
  <2>3. <<word>> \in Seq(Tokens)
    BY OneIsASequence
  <2> QED BY <2>2, <2>3 DEF Split
<1>2. ASSUME NEW line \in Seq(Tokens) PROVE SplitAll(line) \in Seq(Tokens)
  <2> DEFINE parts == [j \in 1..Len(line) |-> Split(line[j])]
  <2>1. parts \in Seq(Seq(Tokens))
    BY <1>1
  <2> HIDE DEF parts
  <2>2. FlattenSeq(parts) \in Seq(Tokens)
    BY <2>1, FlattenIsASequence
  <2> QED BY <2>2 DEF parts, SplitAll
<1> DEFINE parts == [i \in 1..Len(lines) |-> SplitAll(UpToComment(lines[i]))]
<1>3. parts \in Seq(Seq(Tokens))
  BY <1>2, LineUpToCommentIsWords DEF AnyLines
<1> HIDE DEF parts
<1>4. FlattenSeq(parts) \in Seq(Tokens)
  BY <1>3, FlattenIsASequence
<1> QED BY <1>4 DEF parts, tokenize

----------------------------------------------------------------------------
(* The state of the parser, in parts.                                      *)

IsAList(s) == s \in Seq(Range(s))

\* A server while it is read: its host ends where the first colon is, and the
\* locations it has are validated.
ServerIsSound(s) ==
  /\ DOMAIN s = DOMAIN BlankServer
  /\ s.host \in Tokens /\ s.port \in Tokens
  /\ ~Contains(s.host, ":")
  /\ IsAList(s.routes)
  /\ \A r \in Range(s.routes) : r.path # <<>> /\ r.uploadPath # <<>>

RouteIsSound(r) ==
  /\ DOMAIN r = DOMAIN BlankRoute
  /\ r.path \in Tokens /\ r.uploadPath \in Tokens

\* The servers that are kept are validated, each under its own key.
ConfigsAreSound(configs) ==
  \A key \in DOMAIN configs :
    /\ IsAList(configs[key]) /\ configs[key] # <<>>
    /\ \A s \in Range(configs[key]) :
         ServerIsSound(s) /\ validateServer(s) /\ getServerKey(s) = key

ParserIsSound(p) ==
  /\ DOMAIN p = DOMAIN NewParser
  /\ p.tokens \in Seq(Tokens) /\ p.at \in Nat \ {0}
  /\ ServerIsSound(p.server) /\ RouteIsSound(p.route)
  /\ ConfigsAreSound(p.configs)

ParserInv ==
  /\ file.written \in Written /\ file.mistake \in Mistakes(file.written)
  /\ ParserIsSound(parser)
  /\ Accepted => DOMAIN parser.configs # {}

\* q is the parser p after a directive: in the same block, or stopped.
FollowsOn(p, q) ==
  ParserIsSound(q) /\ q.block \in {p.block, "refused", "astray"}

----------------------------------------------------------------------------
(* Tokens.                                                                 *)

LEMMA FieldsOfTheParser ==
  /\ DOMAIN NewParser = {"block", "tokens", "at", "server", "route", "configs"}
  /\ DOMAIN BlankServer = {"host", "port", "root", "server_names", "error_pages",
                           "client_max_body_size", "routes"}
  /\ DOMAIN BlankRoute = {"path", "allowedMethods", "redirectPath", "redirectCode",
                          "root", "isDirectoryListing", "defaultFiles", "cgiExtensions",
                          "uploadAllowed", "uploadPath", "client_max_body_size"}
BY DEF NewParser, BlankServer, BlankRoute

LEMMA RefusedFollows ==
  ASSUME NEW p, ParserIsSound(p)
  PROVE  FollowsOn(p, Refused(p)) /\ Refused(p).block = "refused"
<1>1. "block" \in DOMAIN p /\ DOMAIN Refused(p) = DOMAIN p
  BY FieldsOfTheParser DEF ParserIsSound, Refused
<1>2. /\ Refused(p).tokens = p.tokens /\ Refused(p).at = p.at
      /\ Refused(p).server = p.server /\ Refused(p).route = p.route
      /\ Refused(p).configs = p.configs /\ Refused(p).block = "refused"
  BY <1>1, FieldsOfTheParser DEF ParserIsSound, Refused
<1> QED BY <1>1, <1>2 DEF ParserIsSound, FollowsOn

LEMMA AstrayFollows ==
  ASSUME NEW p, ParserIsSound(p)
  PROVE  FollowsOn(p, [p EXCEPT !.block = "astray"])
<1> DEFINE q == [p EXCEPT !.block = "astray"]
<1>1. "block" \in DOMAIN p /\ DOMAIN q = DOMAIN p
  BY FieldsOfTheParser DEF ParserIsSound
<1>2. /\ q.tokens = p.tokens /\ q.at = p.at
      /\ q.server = p.server /\ q.route = p.route
      /\ q.configs = p.configs /\ q.block = "astray"
  BY <1>1, FieldsOfTheParser DEF ParserIsSound
<1> HIDE DEF q
<1>3. FollowsOn(p, q)
  BY <1>1, <1>2 DEF ParserIsSound, FollowsOn
<1> QED BY <1>3 DEF q

LEMMA SkipFollows ==
  ASSUME NEW p, ParserIsSound(p), NEW n \in Nat
  PROVE  ParserIsSound(Skip(p, n)) /\ Skip(p, n).block = p.block
<1>1. "at" \in DOMAIN p /\ DOMAIN Skip(p, n) = DOMAIN p
  BY FieldsOfTheParser DEF ParserIsSound, Skip
<1>2. /\ Skip(p, n).tokens = p.tokens /\ Skip(p, n).at = p.at + n
      /\ Skip(p, n).server = p.server /\ Skip(p, n).route = p.route
      /\ Skip(p, n).configs = p.configs /\ Skip(p, n).block = p.block
  BY <1>1, FieldsOfTheParser DEF ParserIsSound, Skip
<1>3. Skip(p, n).at \in Nat \ {0}
  BY <1>2 DEF ParserIsSound
<1> QED BY <1>1, <1>2, <1>3 DEF ParserIsSound

LEMMA ExpectFollows ==
  ASSUME NEW p, ParserIsSound(p), NEW token
  PROVE  FollowsOn(p, expectToken(p, token))
<1>1. ParserIsSound(Skip(p, 1)) /\ Skip(p, 1).block = p.block
  BY SkipFollows
<1>2. FollowsOn(p, Skip(p, 1))
  BY <1>1 DEF FollowsOn
<1> QED BY <1>2, RefusedFollows, AstrayFollows DEF expectToken

LEMMA TokenIsAWord ==
  ASSUME NEW p, ParserIsSound(p), hasMoreTokens(p)
  PROVE  getCurrentToken(p) \in Tokens
BY DEF ParserIsSound, hasMoreTokens, getCurrentToken

LEMMA FollowsTransitive ==
  ASSUME NEW p, NEW q, NEW r, FollowsOn(q, r), q.block = p.block
  PROVE  FollowsOn(p, r)
BY DEF FollowsOn

LEMMA OneValueFollows ==
  ASSUME NEW p, ParserIsSound(p), NEW q,
         hasMoreTokens(p) => ParserIsSound(q) /\ q.block = p.block
  PROVE  FollowsOn(p, OneValue(p, q))
<1>1. CASE ~hasMoreTokens(p)
  BY <1>1, RefusedFollows DEF OneValue
<1>2. CASE hasMoreTokens(p)
  <2>1. ParserIsSound(Skip(q, 1)) /\ Skip(q, 1).block = p.block
    BY <1>2, SkipFollows
  <2>2. FollowsOn(p, expectToken(Skip(q, 1), Semicolon))
    BY <2>1, ExpectFollows, FollowsTransitive
  <2> QED BY <1>2, <2>2 DEF OneValue
<1> QED BY <1>1, <1>2

LEMMA TwoValuesFollow ==
  ASSUME NEW p, ParserIsSound(p), NEW q, ParserIsSound(q), q.block = p.block
  PROVE  FollowsOn(p, TwoValues(p, q))
<1>1. ParserIsSound(Skip(q, 2)) /\ Skip(q, 2).block = p.block
  BY SkipFollows
<1>2. FollowsOn(p, expectToken(Skip(q, 2), Semicolon))
  BY <1>1, ExpectFollows, FollowsTransitive
<1> QED BY <1>2, RefusedFollows DEF TwoValues

LEMMA SemicolonIsSomewhere ==
  ASSUME NEW p, ParserIsSound(p), NEW ahead \in Nat
  PROVE  NextSemicolon(p, ahead) \in Nat
<1> DEFINE I == {i \in (p.at + ahead)..Len(p.tokens) : p.tokens[i] = Semicolon}
<1>1. NextSemicolon(p, ahead) = IF I # {} THEN Min(I) ELSE 0
  BY DEF NextSemicolon, SelectInSubSeq
<1>2. I \in SUBSET Nat
  BY DEF ParserIsSound
<1> HIDE DEF I
<1>3. ASSUME I # {} PROVE NextSemicolon(p, ahead) \in Nat
  <2>1. Min(I) \in I
    BY <1>2, <1>3, LeastIsOne
  <2> QED BY <1>1, <1>2, <1>3, <2>1
<1> QED BY <1>1, <1>3

\* The parser with another place in the file.
LEMMA MovedIsSound ==
  ASSUME NEW p, ParserIsSound(p), NEW n \in Nat \ {0}
  PROVE  ParserIsSound([p EXCEPT !.at = n]) /\ [p EXCEPT !.at = n].block = p.block
<1> DEFINE q == [p EXCEPT !.at = n]
<1>1. "at" \in DOMAIN p /\ DOMAIN q = DOMAIN p
  BY FieldsOfTheParser DEF ParserIsSound
<1>2. /\ q.tokens = p.tokens /\ q.at = n
      /\ q.server = p.server /\ q.route = p.route
      /\ q.configs = p.configs /\ q.block = p.block
  BY <1>1, FieldsOfTheParser DEF ParserIsSound
<1> HIDE DEF q
<1>3. ParserIsSound(q) /\ q.block = p.block
  BY <1>1, <1>2 DEF ParserIsSound
<1> QED BY <1>3 DEF q

LEMMA ListFollows ==
  ASSUME NEW p, ParserIsSound(p), NEW q, ParserIsSound(q), q.block = p.block
  PROVE  FollowsOn(p, ListOf(p, q))
<1> DEFINE n == NextSemicolon(p, 0) + 1
<1>1. n \in Nat \ {0}
  BY SemicolonIsSomewhere
<1> HIDE DEF n
<1>2. FollowsOn(p, [q EXCEPT !.at = n])
  BY <1>1, MovedIsSound DEF FollowsOn
<1> QED BY <1>2, RefusedFollows DEF n, ListOf

----------------------------------------------------------------------------
(* The directives of a server.                                             *)

\* The parser with another server, and with another location.
LEMMA ServerMayChange ==
  ASSUME NEW p, ParserIsSound(p), NEW s, ServerIsSound(s)
  PROVE  ParserIsSound([p EXCEPT !.server = s]) /\ [p EXCEPT !.server = s].block = p.block
<1> DEFINE q == [p EXCEPT !.server = s]
<1>1. "server" \in DOMAIN p /\ DOMAIN q = DOMAIN p
  BY FieldsOfTheParser DEF ParserIsSound
<1>2. /\ q.tokens = p.tokens /\ q.at = p.at /\ q.server = s /\ q.route = p.route
      /\ q.configs = p.configs /\ q.block = p.block
  BY <1>1, FieldsOfTheParser DEF ParserIsSound
<1> HIDE DEF q
<1>3. ParserIsSound(q) /\ q.block = p.block
  BY <1>1, <1>2 DEF ParserIsSound
<1> QED BY <1>3 DEF q

LEMMA RouteMayChange ==
  ASSUME NEW p, ParserIsSound(p), NEW r, RouteIsSound(r)
  PROVE  ParserIsSound([p EXCEPT !.route = r]) /\ [p EXCEPT !.route = r].block = p.block
<1> DEFINE q == [p EXCEPT !.route = r]
<1>1. "route" \in DOMAIN p /\ DOMAIN q = DOMAIN p
  BY FieldsOfTheParser DEF ParserIsSound
<1>2. /\ q.tokens = p.tokens /\ q.at = p.at /\ q.server = p.server /\ q.route = r
      /\ q.configs = p.configs /\ q.block = p.block
  BY <1>1, FieldsOfTheParser DEF ParserIsSound
<1> HIDE DEF q
<1>3. ParserIsSound(q) /\ q.block = p.block
  BY <1>1, <1>2 DEF ParserIsSound
<1> QED BY <1>3 DEF q

\* What nothing is said about may have any value.
LEMMA ServerFieldMayChange ==
  ASSUME NEW s, ServerIsSound(s), NEW v,
         NEW f \in {"root", "server_names", "error_pages", "client_max_body_size"}
  PROVE  ServerIsSound([s EXCEPT ![f] = v])
<1> DEFINE t == [s EXCEPT ![f] = v]
<1>1. DOMAIN t = DOMAIN s /\ {"host", "port", "routes"} \subseteq DOMAIN s
  BY FieldsOfTheParser DEF ServerIsSound
<1>2. f # "host" /\ f # "port" /\ f # "routes"
  OBVIOUS
<1>3. t.host = s.host /\ t.port = s.port /\ t.routes = s.routes
  BY <1>1, <1>2
<1> HIDE DEF t
<1>4. ServerIsSound(t)
  BY <1>1, <1>3 DEF ServerIsSound
<1> QED BY <1>4 DEF t

LEMMA RouteFieldMayChange ==
  ASSUME NEW r, RouteIsSound(r), NEW v,
         NEW f \in {"allowedMethods", "redirectPath", "redirectCode", "root",
                    "isDirectoryListing", "defaultFiles", "cgiExtensions",
                    "uploadAllowed", "client_max_body_size"}
  PROVE  RouteIsSound([r EXCEPT ![f] = v])
<1> DEFINE t == [r EXCEPT ![f] = v]
<1>1. DOMAIN t = DOMAIN r /\ {"path", "uploadPath"} \subseteq DOMAIN r
  BY FieldsOfTheParser DEF RouteIsSound
<1>2. f # "path" /\ f # "uploadPath"
  OBVIOUS
<1>3. t.path = r.path /\ t.uploadPath = r.uploadPath
  BY <1>1, <1>2
<1> HIDE DEF t
<1>4. RouteIsSound(t)
  BY <1>1, <1>3 DEF RouteIsSound
<1> QED BY <1>4 DEF t

LEMMA PlainServerFieldFollows ==
  ASSUME NEW p, ParserIsSound(p), NEW v,
         NEW f \in {"root", "server_names", "error_pages", "client_max_body_size"}
  PROVE  /\ ParserIsSound([p EXCEPT !.server = [p.server EXCEPT ![f] = v]])
         /\ [p EXCEPT !.server = [p.server EXCEPT ![f] = v]].block = p.block
<1> DEFINE s == [p.server EXCEPT ![f] = v]
<1>1. ServerIsSound(s)
  BY ServerFieldMayChange DEF ParserIsSound
<1> HIDE DEF s
<1>2. ParserIsSound([p EXCEPT !.server = s]) /\ [p EXCEPT !.server = s].block = p.block
  BY <1>1, ServerMayChange
<1> QED BY <1>2 DEF s

LEMMA PlainRouteFieldFollows ==
  ASSUME NEW p, ParserIsSound(p), NEW v,
         NEW f \in {"allowedMethods", "redirectPath", "redirectCode", "root",
                    "isDirectoryListing", "defaultFiles", "cgiExtensions",
                    "uploadAllowed", "client_max_body_size"}
  PROVE  /\ ParserIsSound([p EXCEPT !.route = [p.route EXCEPT ![f] = v]])
         /\ [p EXCEPT !.route = [p.route EXCEPT ![f] = v]].block = p.block
<1> DEFINE r == [p.route EXCEPT ![f] = v]
<1>1. RouteIsSound(r)
  BY RouteFieldMayChange DEF ParserIsSound
<1> HIDE DEF r
<1>2. ParserIsSound([p EXCEPT !.route = r]) /\ [p EXCEPT !.route = r].block = p.block
  BY <1>1, RouteMayChange
<1> QED BY <1>2 DEF r

LEMMA ServerNameFollows ==
  ASSUME NEW p, ParserIsSound(p)
  PROVE  FollowsOn(p, setServerName(p))
<1> DEFINE q == [p EXCEPT !.server = [p.server EXCEPT
                   !["server_names"] = p.server.server_names \o Values(p)]]
<1>1. ParserIsSound(q) /\ q.block = p.block
  BY PlainServerFieldFollows
<1>2. setServerName(p) = ListOf(p, q)
  BY DEF setServerName
<1> HIDE DEF q
<1> QED BY <1>1, <1>2, ListFollows

LEMMA BodySizeFollows ==
  ASSUME NEW p, ParserIsSound(p)
  PROVE  FollowsOn(p, setServerBodySize(p))
<1> DEFINE q == [p EXCEPT !.server = [p.server EXCEPT
                   !["client_max_body_size"] = atoi(getCurrentToken(p))]]
<1>1. ParserIsSound(q) /\ q.block = p.block
  BY PlainServerFieldFollows
<1>2. setServerBodySize(p) = OneValue(p, q)
  BY DEF setServerBodySize
<1> HIDE DEF q
<1> QED BY <1>1, <1>2, OneValueFollows

LEMMA ServerRootFollows ==
  ASSUME NEW p, ParserIsSound(p)
  PROVE  FollowsOn(p, setServerRoot(p))
<1> DEFINE q == [p EXCEPT !.server = [p.server EXCEPT !["root"] = getCurrentToken(p)]]
<1>1. ParserIsSound(q) /\ q.block = p.block
  BY PlainServerFieldFollows
<1>2. setServerRoot(p) = OneValue(p, q)
  BY DEF setServerRoot
<1> HIDE DEF q
<1> QED BY <1>1, <1>2, OneValueFollows

LEMMA ErrorPageFollows ==
  ASSUME NEW p, ParserIsSound(p)
  PROVE  FollowsOn(p, setErrorPage(p))
<1> DEFINE end == NextSemicolon(p, 2)
           codes == {atoi(p.tokens[i]) : i \in CodesUpTo(p, end)}
           pages == Over([code \in codes |-> p.tokens[end - 1]], p.server.error_pages)
           q == [p EXCEPT !.server = [p.server EXCEPT !["error_pages"] = pages]]
<1>1. ParserIsSound(q) /\ q.block = p.block
  <2> HIDE DEF pages
  <2> QED BY PlainServerFieldFollows
<1>2. end + 1 \in Nat \ {0}
  BY SemicolonIsSomewhere
<1>3. setErrorPage(p) = IF end = 0 THEN Refused(p) ELSE [q EXCEPT !.at = end + 1]
  <2>1. "at" # "server"
    OBVIOUS
  <2> QED BY <2>1, FieldsOfTheParser DEF setErrorPage, ParserIsSound
<1> HIDE DEF q, end
<1>4. FollowsOn(p, [q EXCEPT !.at = end + 1])
  BY <1>1, <1>2, MovedIsSound DEF FollowsOn
<1> QED BY <1>3, <1>4, RefusedFollows

\* The host ends where the first colon is, the port begins behind it (setListen).
LEMMA AddressIsSound ==
  ASSUME NEW value \in Tokens
  PROVE  LET colon == SelectInSeq(value, LAMBDA c : c = ":")
             host  == IF colon = 0 THEN <<"127.0.0.1">> ELSE SubSeq(value, 1, colon - 1)
         IN  /\ host \in Tokens /\ ~Contains(host, ":")
             /\ SubSeq(value, colon + 1, Len(value)) \in Tokens
<1> DEFINE I == {i \in 1..Len(value) : value[i] = ":"}
           colon == IF I # {} THEN Min(I) ELSE 0
           host == IF colon = 0 THEN <<"127.0.0.1">> ELSE SubSeq(value, 1, colon - 1)
<1>1. SelectInSeq(value, LAMBDA c : c = ":") = colon
  BY DEF SelectInSeq
<1>2. value \in Seq(Symbols) /\ Len(value) \in Nat
  BY DEF Tokens
<1>3. colon \in 0..Len(value) /\ \A i \in 1..(colon - 1) : value[i] # ":"
  <2>1. CASE I = {}
    BY <1>2, <2>1
  <2>2. CASE I # {}
    <3>1. I \in SUBSET Nat
      BY <1>2
    <3>2. Min(I) \in I /\ \A i \in I : Min(I) <= i
      <4> HIDE DEF I
      <4> QED BY <2>2, <3>1, LeastIsOne
    <3>3. colon = Min(I)
      BY <2>2
    <3> HIDE DEF colon
    <3>4. colon \in 1..Len(value)
      BY <3>2, <3>3
    <3>5. ASSUME NEW i \in 1..(colon - 1) PROVE value[i] # ":"
      <4>1. i < Min(I) /\ i \in 1..Len(value)
        BY <1>2, <3>3, <3>4
      <4>2. i \notin I
        <5> HIDE DEF I
        <5>1. Min(I) \in Nat
          BY <3>1, <3>2
        <5> QED BY <3>2, <4>1, <5>1
      <4> QED BY <4>1, <4>2
    <3> QED BY <1>2, <3>4, <3>5
  <2> QED BY <2>1, <2>2
<1> HIDE DEF colon
<1>4. SubSeq(value, colon + 1, Len(value)) \in Tokens
  BY <1>2, <1>3 DEF Tokens
<1>5. host \in Tokens /\ ~Contains(host, ":")
  <2>1. CASE colon = 0
    <3>1. host = <<"127.0.0.1">>
      BY <2>1
    <3>2. ~Contains(<<"127.0.0.1">>, ":")
      BY DEF Contains
    <3> HIDE DEF host
    <3> QED BY <3>1, <3>2, MarksAreTokens
  <2>2. CASE colon # 0
    <3>1. host = SubSeq(value, 1, colon - 1)
      BY <2>2
    <3>2. /\ SubSeq(value, 1, colon - 1) \in Tokens
          /\ Len(SubSeq(value, 1, colon - 1)) = colon - 1
          /\ \A i \in 1..(colon - 1) : SubSeq(value, 1, colon - 1)[i] = value[i]
      BY <1>2, <1>3, <2>2 DEF Tokens
    <3> QED BY <1>3, <3>1, <3>2 DEF Contains
  <2> QED BY <2>1, <2>2
<1> QED BY <1>1, <1>4, <1>5

LEMMA ListenFollows ==
  ASSUME NEW p, ParserIsSound(p)
  PROVE  FollowsOn(p, setListen(p))
<1> DEFINE value == getCurrentToken(p)
           colon == SelectInSeq(value, LAMBDA c : c = ":")
           host  == IF colon = 0 THEN <<"127.0.0.1">> ELSE SubSeq(value, 1, colon - 1)
           port  == SubSeq(value, colon + 1, Len(value))
           s == [p.server EXCEPT !.host = host, !.port = port]
           q == [p EXCEPT !.server = s]
<1>1. ASSUME hasMoreTokens(p) PROVE ParserIsSound(q) /\ q.block = p.block
  <2>1. host \in Tokens /\ ~Contains(host, ":") /\ port \in Tokens
    <3>1. value \in Tokens
      BY <1>1, TokenIsAWord
    <3> HIDE DEF value
    <3> QED BY <3>1, AddressIsSound
  <2> HIDE DEF host, port
  <2>2. ServerIsSound(p.server)
    BY DEF ParserIsSound
  <2>3. DOMAIN s = DOMAIN p.server /\ {"host", "port", "routes"} \subseteq DOMAIN p.server
    BY <2>2, FieldsOfTheParser DEF ServerIsSound
  <2>4. s.host = host /\ s.port = port /\ s.routes = p.server.routes
    BY <2>3
  <2> HIDE DEF s
  <2>5. ServerIsSound(s)
    BY <2>1, <2>2, <2>3, <2>4 DEF ServerIsSound
  <2> QED BY <2>5, ServerMayChange
<1>2. setListen(p) = OneValue(p, q)
  <2> HIDE DEF host, port
  <2>1. setListen(p) = OneValue(p, [p EXCEPT !.server.host = host, !.server.port = port])
    BY DEF setListen, host, port
  <2>2. "server" \in DOMAIN p
    BY FieldsOfTheParser DEF ParserIsSound
  <2>3. [p EXCEPT !.server.host = host, !.server.port = port] = q
    BY <2>2
  <2> QED BY <2>1, <2>3
<1> HIDE DEF q
<1> QED BY <1>1, <1>2, OneValueFollows

----------------------------------------------------------------------------
(* The directives of a location.                                           *)

LEMMA OneValueOfALocationFollows ==
  ASSUME NEW p, ParserIsSound(p)
  PROVE  /\ FollowsOn(p, setRoot(p)) /\ FollowsOn(p, setAutoIndex(p))
         /\ FollowsOn(p, setAllowUpload(p)) /\ FollowsOn(p, setRouteBodySize(p))
<1> DEFINE q(f, v) == [p EXCEPT !.route = [p.route EXCEPT ![f] = v]]
           on == getCurrentToken(p) = <<"on">>
<1>1. ASSUME NEW v,
             NEW f \in {"root", "isDirectoryListing", "uploadAllowed",
                        "client_max_body_size"}
      PROVE  FollowsOn(p, OneValue(p, q(f, v)))
  <2>1. f \in {"allowedMethods", "redirectPath", "redirectCode", "root",
               "isDirectoryListing", "defaultFiles", "cgiExtensions",
               "uploadAllowed", "client_max_body_size"}
    OBVIOUS
  <2>2. ParserIsSound(q(f, v)) /\ q(f, v).block = p.block
    BY <2>1, PlainRouteFieldFollows
  <2> HIDE DEF q
  <2> QED BY <2>2, OneValueFollows
<1>2. setRoot(p) = OneValue(p, q("root", getCurrentToken(p)))
  BY DEF setRoot
<1>3. setAutoIndex(p) = OneValue(p, q("isDirectoryListing", on))
  BY DEF setAutoIndex
<1>4. setAllowUpload(p) = OneValue(p, q("uploadAllowed", on))
  BY DEF setAllowUpload
<1>5. setRouteBodySize(p) = OneValue(p, q("client_max_body_size", atoi(getCurrentToken(p))))
  BY DEF setRouteBodySize
<1> HIDE DEF q
<1> QED BY <1>1, <1>2, <1>3, <1>4, <1>5

LEMMA ListOfALocationFollows ==
  ASSUME NEW p, ParserIsSound(p)
  PROVE  FollowsOn(p, setAllowedMethods(p)) /\ FollowsOn(p, setIndex(p))
<1> DEFINE q(f, v) == [p EXCEPT !.route = [p.route EXCEPT ![f] = v]]
           methods == p.route.allowedMethods \cup Range(Values(p))
           files == p.route.defaultFiles \o Values(p)
<1>1. ASSUME NEW v, NEW f \in {"allowedMethods", "defaultFiles"}
      PROVE  FollowsOn(p, ListOf(p, q(f, v)))
  <2>1. f \in {"allowedMethods", "redirectPath", "redirectCode", "root",
               "isDirectoryListing", "defaultFiles", "cgiExtensions",
               "uploadAllowed", "client_max_body_size"}
    OBVIOUS
  <2>2. ParserIsSound(q(f, v)) /\ q(f, v).block = p.block
    BY <2>1, PlainRouteFieldFollows
  <2> HIDE DEF q
  <2> QED BY <2>2, ListFollows
<1>2. setAllowedMethods(p) = ListOf(p, q("allowedMethods", methods))
  BY DEF setAllowedMethods
<1>3. setIndex(p) = ListOf(p, q("defaultFiles", files))
  BY DEF setIndex
<1> HIDE DEF q
<1> QED BY <1>1, <1>2, <1>3

LEMMA UploadPathFollows ==
  ASSUME NEW p, ParserIsSound(p)
  PROVE  FollowsOn(p, setUploadPath(p))
<1> DEFINE r == [p.route EXCEPT !.uploadPath = getCurrentToken(p)]
           q == [p EXCEPT !.route = r]
<1>1. ASSUME hasMoreTokens(p) PROVE ParserIsSound(q) /\ q.block = p.block
  <2>1. getCurrentToken(p) \in Tokens
    BY <1>1, TokenIsAWord
  <2>2. RouteIsSound(p.route)
    BY DEF ParserIsSound
  <2>3. DOMAIN r = DOMAIN p.route /\ {"path", "uploadPath"} \subseteq DOMAIN p.route
    BY <2>2, FieldsOfTheParser DEF RouteIsSound
  <2>4. r.path = p.route.path /\ r.uploadPath = getCurrentToken(p)
    BY <2>3
  <2> HIDE DEF r
  <2>5. RouteIsSound(r)
    BY <2>1, <2>2, <2>3, <2>4 DEF RouteIsSound
  <2> QED BY <2>5, RouteMayChange
<1>2. setUploadPath(p) = OneValue(p, q)
  BY DEF setUploadPath
<1> HIDE DEF q
<1> QED BY <1>1, <1>2, OneValueFollows

LEMMA ReturnFollows ==
  ASSUME NEW p, ParserIsSound(p)
  PROVE  FollowsOn(p, setReturn(p))
<1> DEFINE code == atoi(getCurrentToken(p))
           path == p.tokens[p.at + 1]
           q1 == [p EXCEPT !.route = [p.route EXCEPT !["redirectCode"] = code]]
           q2 == [q1 EXCEPT !.route = [q1.route EXCEPT !["redirectPath"] = path]]
<1> HIDE DEF code, path
<1>1. ParserIsSound(q1) /\ q1.block = p.block
  BY PlainRouteFieldFollows
<1>2. ParserIsSound(q2) /\ q2.block = p.block
  <2> HIDE DEF q1
  <2> QED BY <1>1, PlainRouteFieldFollows
<1>3. setReturn(p) = TwoValues(p, q2)
  <2>1. setReturn(p) =
          TwoValues(p, [p EXCEPT !.route.redirectCode = code, !.route.redirectPath = path])
    BY DEF setReturn, code, path
  <2>2. "route" \in DOMAIN p
    BY FieldsOfTheParser DEF ParserIsSound
  <2>3. [p EXCEPT !.route.redirectCode = code, !.route.redirectPath = path] = q2
    BY <2>2
  <2> QED BY <2>1, <2>3
<1> HIDE DEF q2
<1> QED BY <1>2, <1>3, TwoValuesFollow

LEMMA CgiFollows ==
  ASSUME NEW p, ParserIsSound(p)
  PROVE  FollowsOn(p, setCgi(p))
<1> DEFINE end   == NextSemicolon(p, 0)
           words == IF end = 0 THEN SubSeq(p.tokens, p.at, Len(p.tokens)) ELSE Values(p)
           whole == words # <<>> /\ Len(words) % 2 = 0
           pairs == Over(PairsOf(words), p.route.cgiExtensions)
           at    == IF words = <<>> THEN p.at + 2
                    ELSE IF end = 0 THEN Len(p.tokens) + 1 ELSE end + 1
           q == [p EXCEPT !.route = [p.route EXCEPT !["cgiExtensions"] = pairs]]
           t == [q EXCEPT !.at = at]
<1>1. at \in Nat \ {0}
  <2>1. end \in Nat /\ p.at \in Nat /\ Len(p.tokens) \in Nat
    BY SemicolonIsSomewhere DEF ParserIsSound
  <2> HIDE DEF end, words
  <2> QED BY <2>1
<1>2. ParserIsSound(q) /\ q.block = p.block
  <2> HIDE DEF pairs
  <2> QED BY PlainRouteFieldFollows
<1>3. ParserIsSound(t) /\ t.block = p.block
  <2> HIDE DEF q, at
  <2> QED BY <1>1, <1>2, MovedIsSound
<1>4. setCgi(p) =
        IF ~hasMoreTokens(Skip(p, 1)) \/ (end = 0 /\ ~whole) THEN Refused(p)
        ELSE IF ~whole /\ hasMoreTokens(t) /\ getCurrentToken(t) = Semicolon
          THEN Skip(t, 1) ELSE t
  <2> DEFINE t2 == [p EXCEPT !.route.cgiExtensions = Over(PairsOf(words), @), !.at = at]
  <2>1. setCgi(p) =
          IF ~hasMoreTokens(Skip(p, 1)) \/ (end = 0 /\ ~whole) THEN Refused(p)
          ELSE IF ~whole /\ hasMoreTokens(t2) /\ getCurrentToken(t2) = Semicolon
            THEN Skip(t2, 1) ELSE t2
    BY FieldsOfTheParser DEF setCgi, ParserIsSound
  <2>2. t2 = t
    <3> HIDE DEF at, words
    <3> QED BY FieldsOfTheParser DEF ParserIsSound
  <2> HIDE DEF t, t2
  <2> QED BY <2>1, <2>2
<1> HIDE DEF t
<1>5. FollowsOn(p, t)
  BY <1>3 DEF FollowsOn
<1>6. FollowsOn(p, Skip(t, 1))
  BY <1>3, SkipFollows DEF FollowsOn
<1> QED BY <1>4, <1>5, <1>6, RefusedFollows

----------------------------------------------------------------------------
(* The blocks.                                                             *)

Going == {"file", "server", "location", "refused", "astray"}

\* q is the parser at work or stopped by an exception.
GoesOn(q) == ParserIsSound(q) /\ q.block \in Going

LEMMA FollowingGoesOn ==
  ASSUME NEW p, p.block \in Going, NEW q, FollowsOn(p, q)
  PROVE  GoesOn(q)
BY DEF FollowsOn, GoesOn, Going

\* The parser in another block.
LEMMA BlockMayChange ==
  ASSUME NEW p, ParserIsSound(p), NEW block
  PROVE  /\ ParserIsSound([p EXCEPT !.block = block])
         /\ [p EXCEPT !.block = block].block = block
         /\ [p EXCEPT !.block = block].configs = p.configs
<1> DEFINE q == [p EXCEPT !.block = block]
<1>1. "block" \in DOMAIN p /\ DOMAIN q = DOMAIN p
  BY FieldsOfTheParser DEF ParserIsSound
<1>2. /\ q.tokens = p.tokens /\ q.at = p.at /\ q.server = p.server /\ q.route = p.route
      /\ q.configs = p.configs /\ q.block = block
  BY <1>1, FieldsOfTheParser DEF ParserIsSound
<1> HIDE DEF q
<1>3. ParserIsSound(q) /\ q.block = block /\ q.configs = p.configs
  BY <1>1, <1>2 DEF ParserIsSound
<1> QED BY <1>3 DEF q

LEMMA BlanksAreSound == ServerIsSound(BlankServer)
<1>1. <<>> \in Tokens /\ Len(<<>>) = 0
  BY DEF Tokens
<1>2. BlankServer.host = <<>> /\ BlankServer.port = <<>> /\ BlankServer.routes = <<>>
  BY DEF BlankServer
<1>3. Range(<<>>) = {} /\ IsAList(<<>>) /\ ~Contains(<<>>, ":")
  BY DEF Range, IsAList, Contains
<1> QED BY <1>1, <1>2, <1>3 DEF ServerIsSound

LEMMA OpenServerGoesOn ==
  ASSUME NEW p, ParserIsSound(p), p.block = "file"
  PROVE  GoesOn(openServer(p))
<1> DEFINE t == expectToken(p, <<"server">>)
           u == expectToken(t, Opens)
           v == [u EXCEPT !.server = BlankServer]
           w == [v EXCEPT !.block = "server"]
<1>1. FollowsOn(p, t)
  BY ExpectFollows
<1>2. ParserIsSound(t)
  BY <1>1 DEF FollowsOn
<1>3. FollowsOn(t, u)
  BY <1>2, ExpectFollows
<1>4. openServer(p) = IF t.block # "file" THEN t ELSE IF u.block # "file" THEN u ELSE w
  <2> HIDE DEF t
  <2>1. openServer(p) = IF t.block # "file" THEN t ELSE IF u.block # "file" THEN u
          ELSE [u EXCEPT !.block = "server", !.server = BlankServer]
    BY DEF openServer, t
  <2>2. [u EXCEPT !.block = "server", !.server = BlankServer] = w
    <3> HIDE DEF u
    <3>1. DOMAIN u = DOMAIN NewParser
      BY <1>3 DEF FollowsOn, ParserIsSound
    <3> QED BY <3>1, FieldsOfTheParser
  <2> QED BY <2>1, <2>2
<1> HIDE DEF t, u
<1>5. GoesOn(t)
  BY <1>1, FollowingGoesOn DEF Going
<1>6. GoesOn(u)
  BY <1>3, <1>5, FollowingGoesOn DEF GoesOn
<1>7. ParserIsSound(v)
  BY <1>6, BlanksAreSound, ServerMayChange DEF GoesOn
<1> HIDE DEF v
<1>8. GoesOn(w)
  BY <1>7, BlockMayChange DEF GoesOn, Going
<1> HIDE DEF w
<1> QED BY <1>4, <1>5, <1>6, <1>8

\* A list with one more element.
LEMMA LongerList ==
  ASSUME NEW s, IsAList(s), NEW x
  PROVE  /\ IsAList(Append(s, x)) /\ Append(s, x) # <<>>
         /\ Range(Append(s, x)) = Range(s) \cup {x}
<1> DEFINE S == Range(s) \cup {x}
           t == Append(s, x)
<1>1. s \in Seq(S) /\ x \in S
  <2> HIDE DEF IsAList
  <2>1. s \in Seq(Range(s)) /\ Range(s) \subseteq S
    BY DEF IsAList
  <2> QED BY <2>1, SeqMonotonic
<1>2. s = [i \in 1..Len(s) |-> s[i]] /\ Len(s) \in Nat
  BY <1>1
<1> HIDE DEF S
<1>3. /\ t \in Seq(S) /\ t # <<>> /\ Len(t) = Len(s) + 1
      /\ \A i \in 1..Len(s) : t[i] = s[i]
      /\ t[Len(s) + 1] = x
  BY <1>1, AppendProperties
<1> HIDE DEF t
<1>4. Range(t) = {t[i] : i \in 1..Len(t)} /\ Range(s) = {s[i] : i \in 1..Len(s)}
  BY <1>1, <1>3, RangeEquality
<1>5. Range(t) = Range(s) \cup {x}
  <2>1. \A i \in 1..Len(t) : i \in 1..Len(s) \/ i = Len(s) + 1
    BY <1>2, <1>3
  <2>2. 1..Len(s) \subseteq 1..Len(t) /\ Len(s) + 1 \in 1..Len(t)
    BY <1>2, <1>3
  <2> QED BY <1>3, <1>4, <2>1, <2>2
<1>6. IsAList(t)
  BY <1>3, SeqOfRange DEF IsAList
<1> QED BY <1>3, <1>5, <1>6 DEF t

\* One more server for its key (the end of parseServer).
LEMMA PushBackIsSound ==
  ASSUME NEW p, ParserIsSound(p), validateServer(p.server)
  PROVE  GoesOn(push_back(p))
<1> DEFINE key == getServerKey(p.server)
           others == IF key \in DOMAIN p.configs THEN p.configs[key] ELSE <<>>
           servers == Append(others, p.server)
           configs == [k \in DOMAIN p.configs \cup {key} |->
                         IF k = key THEN servers ELSE p.configs[k]]
           q == [p EXCEPT !.configs = configs]
<1>1. IsAList(others) /\ Range(others) \subseteq
        (IF key \in DOMAIN p.configs THEN Range(p.configs[key]) ELSE {})
  <2>1. IsAList(<<>>) /\ Range(<<>>) = {}
    BY DEF Range, IsAList
  <2>2. key \in DOMAIN p.configs => IsAList(p.configs[key])
    BY DEF ParserIsSound, ConfigsAreSound
  <2> HIDE DEF key
  <2> QED BY <2>1, <2>2
<1>2. ASSUME NEW s \in Range(others)
      PROVE  ServerIsSound(s) /\ validateServer(s) /\ getServerKey(s) = key
  BY <1>1, <1>2 DEF ParserIsSound, ConfigsAreSound
<1>3. ServerIsSound(p.server)
  BY DEF ParserIsSound
<1> HIDE DEF others
<1>4. IsAList(servers) /\ servers # <<>> /\ Range(servers) = Range(others) \cup {p.server}
  BY <1>1, LongerList
<1>5. ASSUME NEW s \in Range(servers)
      PROVE  ServerIsSound(s) /\ validateServer(s) /\ getServerKey(s) = key
  BY <1>2, <1>3, <1>4
<1> HIDE DEF servers
<1>6. /\ DOMAIN configs = DOMAIN p.configs \cup {key}
      /\ \A k \in DOMAIN configs : configs[k] = IF k = key THEN servers ELSE p.configs[k]
  OBVIOUS
<1> HIDE DEF configs
<1>7. ConfigsAreSound(p.configs)
  BY DEF ParserIsSound
<1>8. ASSUME NEW k \in DOMAIN configs
      PROVE  /\ IsAList(configs[k]) /\ configs[k] # <<>>
             /\ \A s \in Range(configs[k]) :
                  ServerIsSound(s) /\ validateServer(s) /\ getServerKey(s) = k
  <2>1. CASE k = key
    BY <1>4, <1>5, <1>6, <2>1
  <2>2. CASE k # key
    BY <1>6, <1>7, <2>2 DEF ConfigsAreSound
  <2> QED BY <2>1, <2>2
<1>9. ConfigsAreSound(configs)
  BY <1>8 DEF ConfigsAreSound
<1>10. ParserIsSound(q)
  <2>1. "configs" \in DOMAIN p /\ DOMAIN q = DOMAIN p
    BY FieldsOfTheParser DEF ParserIsSound
  <2>2. /\ q.tokens = p.tokens /\ q.at = p.at /\ q.server = p.server
        /\ q.route = p.route /\ q.configs = configs
    BY <2>1, FieldsOfTheParser DEF ParserIsSound
  <2> HIDE DEF q
  <2> QED BY <1>9, <2>1, <2>2 DEF ParserIsSound
<1>11. push_back(p) = [q EXCEPT !.block = "file"]
  <2>1. push_back(p) = [p EXCEPT !.block = "file", !.configs = configs]
    BY DEF push_back, configs, servers, others
  <2>2. DOMAIN p = DOMAIN NewParser
    BY DEF ParserIsSound
  <2> QED BY <2>1, <2>2, FieldsOfTheParser
<1> HIDE DEF q
<1> QED BY <1>10, <1>11, BlockMayChange DEF GoesOn, Going

LEMMA CloseServerGoesOn ==
  ASSUME NEW p, ParserIsSound(p), p.block = "server"
  PROVE  GoesOn(closeServer(p))
<1> DEFINE t == Closed(p)
<1>1. FollowsOn(p, t)
  BY ExpectFollows DEF Closed
<1>2. GoesOn(t)
  BY <1>1, FollowingGoesOn DEF Going
<1> HIDE DEF t
<1>3. GoesOn(Refused(t))
  BY <1>2, RefusedFollows DEF GoesOn, Going, FollowsOn
<1>4. validateServer(t.server) => GoesOn(push_back(t))
  BY <1>2, PushBackIsSound DEF GoesOn
<1>5. closeServer(p) = IF t.block # "server" THEN t
                       ELSE IF ~validateServer(t.server) THEN Refused(t)
                       ELSE push_back(t)
  BY DEF closeServer, t
<1> QED BY <1>2, <1>3, <1>4, <1>5

LEMMA OpenLocationGoesOn ==
  ASSUME NEW p, ParserIsSound(p)
  PROVE  GoesOn(openLocation(p))
<1> DEFINE r == [BlankRoute EXCEPT !.path = getCurrentToken(p)]
           q == [p EXCEPT !.route = r]
           t == [q EXCEPT !.at = p.at + 2]
<1>1. GoesOn(Refused(p))
  BY RefusedFollows DEF GoesOn, Going, FollowsOn
<1>2. CASE hasMoreTokens(Skip(p, 1))
  <2>1. Skip(p, 1).at = p.at + 1 /\ Skip(p, 1).tokens = p.tokens
    BY FieldsOfTheParser DEF ParserIsSound, Skip
  <2>2. hasMoreTokens(p)
    BY <1>2, <2>1 DEF hasMoreTokens, ParserIsSound
  <2>3. getCurrentToken(p) \in Tokens /\ <<>> \in Tokens
    BY <2>2, TokenIsAWord DEF Tokens
  <2>4. DOMAIN r = DOMAIN BlankRoute /\ r.path = getCurrentToken(p) /\ r.uploadPath = <<>>
    BY DEF BlankRoute
  <2> HIDE DEF r
  <2>5. RouteIsSound(r)
    BY <2>3, <2>4 DEF RouteIsSound
  <2>6. ParserIsSound(q)
    BY <2>5, RouteMayChange
  <2>7. p.at + 2 \in Nat \ {0}
    BY DEF ParserIsSound
  <2>8. openLocation(p) = [t EXCEPT !.block = "location"]
    <3>1. openLocation(p) = [p EXCEPT !.at = p.at + 2, !.block = "location", !.route = r]
      BY <1>2 DEF openLocation, r
    <3>2. DOMAIN p = DOMAIN NewParser
      BY DEF ParserIsSound
    <3> QED BY <3>1, <3>2, FieldsOfTheParser
  <2> HIDE DEF q
  <2>9. ParserIsSound(t)
    BY <2>6, <2>7, MovedIsSound
  <2> HIDE DEF t
  <2> QED BY <2>8, <2>9, BlockMayChange DEF GoesOn, Going
<1>3. CASE ~hasMoreTokens(Skip(p, 1))
  BY <1>1, <1>3 DEF openLocation
<1> QED BY <1>2, <1>3

\* A location has its upload path in the end, given or not (validateRoutes).
LEMMA ReadRouteIsUsable ==
  ASSUME NEW r, RouteIsSound(r), validateRoutes(r)
  PROVE  LET done == [r EXCEPT !.uploadPath = UploadPath(r)]
         IN  done.path # <<>> /\ done.uploadPath # <<>>
<1> DEFINE file1 == r.path \o DEFAULT_UPLOAD_FILE
           file2 == r.uploadPath \o DEFAULT_UPLOAD_FILE
           done == [r EXCEPT !.uploadPath = UploadPath(r)]
<1>1. /\ r.path \in Seq(Symbols) /\ r.uploadPath \in Seq(Symbols)
      /\ DEFAULT_UPLOAD_FILE \in Seq(Symbols)
  BY MarksAreTokens DEF RouteIsSound, Tokens
<1>2. Len(DEFAULT_UPLOAD_FILE) = 2
  BY DEF DEFAULT_UPLOAD_FILE
<1>3. file1 # <<>> /\ file2 # <<>>
  <2>1. Len(file1) = Len(r.path) + 2 /\ Len(file2) = Len(r.uploadPath) + 2
    <3>1. Len(file1) = Len(r.path) + Len(DEFAULT_UPLOAD_FILE)
      BY <1>1, ConcatProperties
    <3>2. Len(file2) = Len(r.uploadPath) + Len(DEFAULT_UPLOAD_FILE)
      BY <1>1, ConcatProperties
    <3> HIDE DEF file1, file2
    <3> QED BY <1>2, <3>1, <3>2
  <2>2. Len(file1) # 0 /\ Len(file2) # 0
    BY <1>1, <2>1
  <2> HIDE DEF file1, file2
  <2>3. Len(<<>>) = 0
    OBVIOUS
  <2> QED BY <2>2, <2>3
<1> HIDE DEF file1, file2
<1>4. UploadPath(r) # <<>>
  BY <1>3 DEF UploadPath, file1, file2
<1>5. done.path = r.path /\ done.uploadPath = UploadPath(r)
  BY FieldsOfTheParser DEF RouteIsSound
<1> QED BY <1>4, <1>5 DEF validateRoutes

LEMMA CloseLocationGoesOn ==
  ASSUME NEW p, ParserIsSound(p), p.block = "location"
  PROVE  GoesOn(closeLocation(p))
<1> DEFINE t == Closed(p)
<1>1. FollowsOn(p, t)
  BY ExpectFollows DEF Closed
<1>2. GoesOn(t)
  BY <1>1, FollowingGoesOn DEF Going
<1> HIDE DEF t
<1>3. GoesOn(Refused(t))
  BY <1>2, RefusedFollows DEF GoesOn, Going, FollowsOn
<1> DEFINE done == [t.route EXCEPT !.uploadPath = UploadPath(t.route)]
           list == Append(t.server.routes, done)
           s == [t.server EXCEPT !.routes = list]
           q == [t EXCEPT !.server = s]
           u == [q EXCEPT !.block = "server"]
<1>4. closeLocation(p) = IF t.block # "location" THEN t
                         ELSE IF ~validateRoutes(t.route) THEN Refused(t) ELSE u
  <2>1. closeLocation(p) = IF t.block # "location" THEN t
          ELSE IF ~validateRoutes(t.route) THEN Refused(t)
          ELSE [t EXCEPT !.block = "server", !.server.routes = list]
    BY DEF closeLocation, t
  <2>2. DOMAIN t = DOMAIN NewParser
    BY <1>2 DEF GoesOn, ParserIsSound
  <2> HIDE DEF list
  <2>3. [t EXCEPT !.block = "server", !.server.routes = list] = u
    BY <2>2, FieldsOfTheParser
  <2> QED BY <2>1, <2>3
<1>5. ASSUME validateRoutes(t.route) PROVE GoesOn(u)
  <2>1. ServerIsSound(t.server) /\ RouteIsSound(t.route) /\ ParserIsSound(t)
    BY <1>2 DEF GoesOn, ParserIsSound
  <2>2. done.path # <<>> /\ done.uploadPath # <<>>
    BY <1>5, <2>1, ReadRouteIsUsable
  <2> HIDE DEF done
  <2>3. IsAList(list) /\ Range(list) = Range(t.server.routes) \cup {done}
    BY <2>1, LongerList DEF ServerIsSound
  <2> HIDE DEF list
  <2>4. DOMAIN s = DOMAIN t.server /\ {"host", "port", "routes"} \subseteq DOMAIN t.server
    BY <2>1, FieldsOfTheParser DEF ServerIsSound
  <2>5. s.host = t.server.host /\ s.port = t.server.port /\ s.routes = list
    BY <2>4
  <2> HIDE DEF s
  <2>6. ServerIsSound(s)
    BY <2>1, <2>2, <2>3, <2>4, <2>5 DEF ServerIsSound
  <2>7. ParserIsSound(q)
    BY <2>1, <2>6, ServerMayChange
  <2> HIDE DEF q
  <2> QED BY <2>7, BlockMayChange DEF GoesOn, Going
<1> HIDE DEF u
<1> QED BY <1>2, <1>3, <1>4, <1>5

----------------------------------------------------------------------------
(* The parser from the file to its end.                                    *)

LEMMA BlankRouteIsSound == RouteIsSound(BlankRoute)
<1>1. <<>> \in Tokens
  BY DEF Tokens
<1>2. BlankRoute.path = <<>> /\ BlankRoute.uploadPath = <<>>
  BY DEF BlankRoute
<1> QED BY <1>1, <1>2 DEF RouteIsSound

LEMMA NewParserIsSound == ParserIsSound(NewParser) /\ NewParser.block = "unread"
<1>1. <<>> \in Seq(Tokens) /\ DOMAIN <<>> = {}
  OBVIOUS
<1>2. /\ NewParser.tokens = <<>> /\ NewParser.at = 1 /\ NewParser.server = BlankServer
      /\ NewParser.route = BlankRoute /\ NewParser.configs = <<>>
      /\ NewParser.block = "unread"
  BY DEF NewParser
<1>3. ConfigsAreSound(<<>>)
  BY <1>1 DEF ConfigsAreSound
<1> QED BY <1>1, <1>2, <1>3, BlanksAreSound, BlankRouteIsSound DEF ParserIsSound

LEMMA ParserInitSound == ParserInit => ParserInv
BY NewParserIsSound DEF ParserInit, ParserInv, Accepted

LEMMA AfterIsSound ==
  ASSUME ParserIsSound(parser)
  PROVE  ParserIsSound(After) /\ After.block = parser.block
BY SkipFollows DEF After

LEMMA ServerDirectiveGoesOn ==
  ASSUME ParserIsSound(parser), ServerDirective
  PROVE  GoesOn(parser')
<1>1. ParserIsSound(After) /\ After.block = "server"
  BY AfterIsSound DEF ServerDirective, Reads
<1>2. /\ FollowsOn(After, setServerName(After)) /\ FollowsOn(After, setListen(After))
      /\ FollowsOn(After, setServerBodySize(After)) /\ FollowsOn(After, setErrorPage(After))
      /\ FollowsOn(After, setServerRoot(After))
  BY <1>1, ServerNameFollows, ListenFollows, BodySizeFollows, ErrorPageFollows,
     ServerRootFollows
<1>3. After.block \in Going
  BY <1>1 DEF Going
<1>4. GoesOn(openLocation(After))
  BY <1>1, OpenLocationGoesOn
<1> QED BY <1>2, <1>3, <1>4, FollowingGoesOn DEF ServerDirective

LEMMA LocationDirectiveGoesOn ==
  ASSUME ParserIsSound(parser), LocationDirective
  PROVE  GoesOn(parser')
<1>1. ParserIsSound(After) /\ After.block = "location"
  BY AfterIsSound DEF LocationDirective, Reads
<1>2. /\ FollowsOn(After, setRoot(After)) /\ FollowsOn(After, setAllowedMethods(After))
      /\ FollowsOn(After, setIndex(After)) /\ FollowsOn(After, setAutoIndex(After))
      /\ FollowsOn(After, setAllowUpload(After)) /\ FollowsOn(After, setUploadPath(After))
      /\ FollowsOn(After, setCgi(After)) /\ FollowsOn(After, setReturn(After))
      /\ FollowsOn(After, setRouteBodySize(After))
  BY <1>1, OneValueOfALocationFollows, ListOfALocationFollows, UploadPathFollows,
     CgiFollows, ReturnFollows
<1>3. After.block \in Going
  BY <1>1 DEF Going
<1> QED BY <1>2, <1>3, FollowingGoesOn DEF LocationDirective

LEMMA OpenFileGoesOn ==
  ASSUME ParserInv, OpenFile
  PROVE  GoesOn(parser')
<1> DEFINE tokens == tokenize(LinesOfFile(file.written, file.mistake))
           q == [parser EXCEPT !.tokens = tokens]
<1>1. ParserIsSound(parser)
  BY DEF ParserInv
<1>2. CASE parser' = Refused(parser)
  BY <1>1, <1>2, RefusedFollows DEF GoesOn, Going, FollowsOn
<1>3. CASE parser' = [parser EXCEPT !.block = "file", !.tokens = tokens]
  <2>1. tokens \in Seq(Tokens)
    BY FileIsLines, TokensAreWords DEF ParserInv
  <2> HIDE DEF tokens
  <2>2. DOMAIN q = DOMAIN parser /\ DOMAIN parser = DOMAIN NewParser
    BY <1>1 DEF ParserIsSound
  <2>3. /\ q.tokens = tokens /\ q.at = parser.at /\ q.server = parser.server
        /\ q.route = parser.route /\ q.configs = parser.configs
    BY <2>2, FieldsOfTheParser
  <2>4. parser' = [q EXCEPT !.block = "file"]
    BY <1>3, <2>2, FieldsOfTheParser
  <2> HIDE DEF q
  <2>5. ParserIsSound(q)
    BY <1>1, <2>1, <2>2, <2>3 DEF ParserIsSound
  <2> QED BY <2>4, <2>5, BlockMayChange DEF GoesOn, Going
<1> QED BY <1>2, <1>3 DEF OpenFile

\* Every turn of the parser's loops keeps what it has made sound (parse,
\* parseServer, parseLocation).
LEMMA ParseKeepsInv ==
  ASSUME ParserInv, Parse
  PROVE  ParserInv'
<1>1. ParserIsSound(parser) /\ file' = file
  BY DEF ParserInv, Parse
<1>2. ASSUME GoesOn(parser') PROVE ParserInv'
  <2>1. parser'.block # "done"
    BY <1>2 DEF GoesOn, Going
  <2>2. ParserIsSound(parser')
    BY <1>2 DEF GoesOn
  <2> QED BY <1>1, <2>1, <2>2 DEF ParserInv, Accepted
<1>3. CASE OpenFile
  BY <1>2, <1>3, OpenFileGoesOn
<1>4. CASE OpenServer
  BY <1>1, <1>2, <1>4, OpenServerGoesOn DEF OpenServer
<1>5. CASE ServerDirective
  BY <1>1, <1>2, <1>5, ServerDirectiveGoesOn
<1>6. CASE LocationDirective
  BY <1>1, <1>2, <1>6, LocationDirectiveGoesOn
<1>7. CASE UnknownDirective
  BY <1>1, <1>2, <1>7, RefusedFollows DEF UnknownDirective, GoesOn, Going, FollowsOn
<1>8. CASE CloseServer
  BY <1>1, <1>2, <1>8, CloseServerGoesOn DEF CloseServer
<1>9. CASE CloseLocation
  BY <1>1, <1>2, <1>9, CloseLocationGoesOn DEF CloseLocation
<1>10. CASE EndFile
  <2>1. CASE DOMAIN parser.configs = {}
    BY <1>1, <1>2, <1>10, <2>1, RefusedFollows DEF EndFile, GoesOn, Going, FollowsOn
  <2>2. CASE DOMAIN parser.configs # {}
    <3>1. parser' = [parser EXCEPT !.block = "done"]
      BY <1>10, <2>2 DEF EndFile
    <3>2. ParserIsSound(parser') /\ parser'.configs = parser.configs
      BY <1>1, <3>1, BlockMayChange
    <3> QED BY <1>1, <2>2, <3>2 DEF ParserInv, Accepted
  <2> QED BY <2>1, <2>2
<1> QED BY <1>3, <1>4, <1>5, <1>6, <1>7, <1>8, <1>9, <1>10 DEF Parse

\* What has been read so far can be used as soon as the file is accepted.
LEMMA SoundIsUsable == ParserInv => AcceptedIsUsable
<1> SUFFICES ASSUME ParserInv, Accepted PROVE AcceptedIsUsable
  BY DEF AcceptedIsUsable
<1>1. ConfigsAreSound(parser.configs) /\ DOMAIN parser.configs # {}
  BY DEF ParserInv, ParserIsSound
<1>2. ASSUME NEW key \in DOMAIN parser.configs
      PROVE  /\ parser.configs[key] # <<>>
             /\ \A s \in Range(parser.configs[key]) :
                  /\ getServerKey(s) = key
                  /\ s.server_names # <<>> /\ s.host # <<>>
                  /\ s.client_max_body_size # 0
                  /\ s.routes # <<>>
                  /\ \A r \in Range(s.routes) : r.path # <<>> /\ r.uploadPath # <<>>
  BY <1>1 DEF ConfigsAreSound, ServerIsSound, validateServer
<1> QED BY <1>1, <1>2 DEF AcceptedIsUsable

----------------------------------------------------------------------------
(* The choice of a server.                                                 *)

\* A host has no colon: where the first one is, the port begins.
LEMMA FirstColonIsTheHosts ==
  ASSUME NEW host \in Tokens, ~Contains(host, ":"), NEW port \in Tokens
  PROVE  LET key == host \o <<":">> \o port
             n   == Len(host)
         IN  /\ key[n + 1] = ":" /\ \A i \in 1..n : key[i] = host[i] /\ key[i] # ":"
             /\ Len(key) = n + 1 + Len(port) /\ n \in Nat /\ Len(port) \in Nat
             /\ \A i \in 1..Len(port) : key[n + 1 + i] = port[i]
<1> DEFINE S == Symbols \cup {":"}
           colon == <<":">>
           front == host \o colon
           n == Len(host)
<1>1. host \in Seq(S) /\ port \in Seq(S)
  <2>1. host \in Seq(Symbols) /\ port \in Seq(Symbols) /\ Symbols \subseteq S
    BY DEF Tokens
  <2> HIDE DEF S
  <2> QED BY <2>1, SeqMonotonic
<1>2. colon \in Seq(S) /\ Len(colon) = 1 /\ colon[1] = ":"
  <2>1. ":" \in S
    OBVIOUS
  <2> HIDE DEF S
  <2> QED BY <2>1
<1>3. \A i \in 1..n : host[i] # ":"
  BY DEF Contains
<1> HIDE DEF S, colon
<1>4. /\ front \in Seq(S) /\ Len(front) = n + 1 /\ front[n + 1] = ":"
      /\ \A i \in 1..n : front[i] = host[i]
  <2>1. n \in Nat
    BY <1>1
  <2>2. /\ front \in Seq(S) /\ Len(front) = n + Len(colon)
        /\ \A i \in 1..(n + Len(colon)) :
             front[i] = IF i <= n THEN host[i] ELSE colon[i - n]
    BY <1>1, <1>2, ConcatProperties
  <2> HIDE DEF front, n
  <2> QED BY <1>2, <2>1, <2>2
<1>5. n \in Nat /\ Len(port) \in Nat
  BY <1>1
<1> HIDE DEF front
<1>6. /\ Len(front \o port) = n + 1 + Len(port)
      /\ \A i \in 1..(n + 1) : (front \o port)[i] = front[i]
      /\ \A i \in 1..Len(port) : (front \o port)[n + 1 + i] = port[i]
  BY <1>1, <1>4, <1>5
<1>7. /\ (front \o port)[n + 1] = ":"
      /\ \A i \in 1..n : (front \o port)[i] = host[i] /\ (front \o port)[i] # ":"
  BY <1>3, <1>4, <1>5, <1>6
<1> QED BY <1>5, <1>6, <1>7 DEF front, colon

\* Servers with one key have one address (getServerKey).
LEMMA KeyNamesTheAddress ==
  ASSUME NEW s, ServerIsSound(s), NEW t, ServerIsSound(t),
         getServerKey(s) = getServerKey(t)
  PROVE  s.host = t.host /\ s.port = t.port
<1> DEFINE key == getServerKey(s)
           m == Len(s.host)
           n == Len(t.host)
<1>1. /\ s.host \in Tokens /\ s.port \in Tokens /\ ~Contains(s.host, ":")
      /\ t.host \in Tokens /\ t.port \in Tokens /\ ~Contains(t.host, ":")
  BY DEF ServerIsSound
<1>2. /\ key[m + 1] = ":" /\ \A i \in 1..m : key[i] = s.host[i] /\ key[i] # ":"
      /\ Len(key) = m + 1 + Len(s.port) /\ m \in Nat /\ Len(s.port) \in Nat
      /\ \A i \in 1..Len(s.port) : key[m + 1 + i] = s.port[i]
  BY <1>1, FirstColonIsTheHosts DEF getServerKey
<1>3. /\ key[n + 1] = ":" /\ \A i \in 1..n : key[i] = t.host[i] /\ key[i] # ":"
      /\ Len(key) = n + 1 + Len(t.port) /\ n \in Nat /\ Len(t.port) \in Nat
      /\ \A i \in 1..Len(t.port) : key[n + 1 + i] = t.port[i]
  <2>1. key = t.host \o <<":">> \o t.port
    BY DEF getServerKey
  <2> HIDE DEF key
  <2> QED BY ZenonT(60), <1>1, <2>1, FirstColonIsTheHosts
<1> HIDE DEF key
<1>4. m = n
  <2>1. ~(m < n)
    <3> SUFFICES ASSUME m < n PROVE FALSE
      OBVIOUS
    <3>1. m + 1 \in 1..n
      BY <1>2, <1>3
    <3> QED BY <1>2, <1>3, <3>1
  <2>2. ~(n < m)
    <3> SUFFICES ASSUME n < m PROVE FALSE
      OBVIOUS
    <3>1. n + 1 \in 1..m
      BY <1>2, <1>3
    <3> QED BY <1>2, <1>3, <3>1
  <2> QED BY <1>2, <1>3, <2>1, <2>2
<1>5. s.host = t.host
  <2>1. \A i \in 1..m : s.host[i] = t.host[i]
    BY <1>2, <1>3, <1>4
  <2>2. s.host \in Seq(Symbols) /\ t.host \in Seq(Symbols)
    BY <1>1 DEF Tokens
  <2> QED BY <1>4, <2>1, <2>2, SeqEqual
<1>6. s.port = t.port
  <2>1. Len(s.port) = Len(t.port)
    <3>1. /\ m \in Nat /\ Len(s.port) \in Nat /\ Len(t.port) \in Nat
          /\ m + 1 + Len(s.port) = m + 1 + Len(t.port)
      BY <1>2, <1>3, <1>4
    <3>2. \A a, b \in Nat : m + 1 + a = m + 1 + b => a = b
      <4> HIDE DEF m
      <4> QED BY <3>1
    <3> HIDE DEF m
    <3> QED BY <3>1, <3>2
  <2>2. \A i \in 1..Len(s.port) : s.port[i] = t.port[i]
    BY <1>2, <1>3, <1>4, <2>1
  <2>3. s.port \in Seq(Symbols) /\ t.port \in Seq(Symbols)
    BY <1>1 DEF Tokens
  <2> QED BY <2>1, <2>2, <2>3, SeqEqual
<1> QED BY <1>5, <1>6

\* Whatever the name, the server of a key is one of its own, at the address of the
\* first (findServerConfig).
LEMMA FoundServerIsOfTheKey ==
  ASSUME ConfigsAreSound(parser.configs), NEW key \in DOMAIN parser.configs, NEW name
  PROVE  /\ findServerConfig(key, name) \in Range(parser.configs[key])
         /\ findServerConfig(key, name).host = parser.configs[key][1].host
         /\ findServerConfig(key, name).port = parser.configs[key][1].port
<1> DEFINE servers == parser.configs[key]
           I == {i \in 1..Len(servers) : HasName(servers[i], name)}
           named == IF I # {} THEN Min(I) ELSE 0
           chosen == IF named = 0 THEN 1 ELSE named
<1>1. /\ IsAList(servers) /\ servers # <<>>
      /\ \A s \in Range(servers) : ServerIsSound(s) /\ getServerKey(s) = key
  BY DEF ConfigsAreSound
<1>2. findServerConfig(key, name) = servers[chosen]
  BY DEF findServerConfig, SelectInSeq
<1> HIDE DEF servers
<1>3. /\ 1 \in 1..Len(servers) /\ Len(servers) \in Nat
      /\ \A i \in 1..Len(servers) : servers[i] \in Range(servers)
  BY <1>1 DEF IsAList, Range
<1>4. chosen \in 1..Len(servers)
  <2>1. CASE I = {}
    BY <1>3, <2>1
  <2>2. CASE I # {}
    <3>1. I \in SUBSET Nat
      BY <1>3
    <3>2. Min(I) \in I
      <4> HIDE DEF I
      <4> QED BY <2>2, <3>1, LeastIsOne
    <3>3. named = Min(I)
      BY <2>2
    <3> HIDE DEF named
    <3>4. named \in 1..Len(servers)
      BY <3>2, <3>3
    <3> QED BY <1>3, <3>4
  <2> QED BY <2>1, <2>2
<1> HIDE DEF chosen
<1>5. servers[chosen] \in Range(servers) /\ servers[1] \in Range(servers)
  BY <1>3, <1>4
<1>6. /\ servers[chosen].host = servers[1].host
      /\ servers[chosen].port = servers[1].port
  BY <1>1, <1>5, KeyNamesTheAddress
<1> QED BY <1>2, <1>5, <1>6 DEF servers

----------------------------------------------------------------------------
(* What FlattenSeq makes of sequences: where the parts of the whole are.   *)

LEMMA FlattenTakesTurns ==
  ASSUME NEW S, NEW seqs \in Seq(Seq(S)), Len(seqs) # 0
  PROVE  \E f : IsJoined(f, seqs, Len(seqs)) /\ FlattenSeq(seqs) = f[Len(seqs)]
<1> DEFINE f == CHOOSE g : IsJoined(g, seqs, Len(seqs))
<1>1. FlattenSeq(seqs) = f[Len(seqs)]
  <2>1. FlattenSeq(seqs) = IF Len(seqs) = 0 THEN seqs
                           ELSE (CHOOSE g : IsJoined(g, seqs, Len(seqs)))[Len(seqs)]
    BY DEF FlattenSeq, IsJoined, Joined
  <2> QED BY <2>1
<1>2. IsJoined(f, seqs, Len(seqs))
  <2>1. Len(seqs) \in Nat
    OBVIOUS
  <2>2. \E g : IsJoined(g, seqs, Len(seqs))
    BY <2>1, JoinedExists
  <2> QED BY <2>2
<1> QED BY <1>1, <1>2

LEMMA FlattenOfNothing ==
  ASSUME NEW seqs, Len(seqs) = 0
  PROVE  FlattenSeq(seqs) = seqs
BY DEF FlattenSeq

\* One sequence more.
LEMMA FlattenAppend ==
  ASSUME NEW S, NEW seqs \in Seq(Seq(S)), NEW x \in Seq(S)
  PROVE  FlattenSeq(Append(seqs, x)) = FlattenSeq(seqs) \o x
<1> DEFINE n == Len(seqs)
           more == Append(seqs, x)
<1>1. more \in Seq(Seq(S)) /\ Len(more) = n + 1 /\ n \in Nat
      /\ more[n + 1] = x /\ \A i \in 1..n : more[i] = seqs[i]
  OBVIOUS
<1> HIDE DEF more
<1>2. PICK g : IsJoined(g, more, n + 1) /\ FlattenSeq(more) = g[n + 1]
  <2>1. Len(more) # 0
    BY <1>1
  <2>2. \E g : IsJoined(g, more, Len(more)) /\ FlattenSeq(more) = g[Len(more)]
    BY ONLY <1>1, <2>1, FlattenTakesTurns
  <2> QED BY <1>1, <2>2
<1>3. \A i \in 1..(n + 1) : g[i] = Joined(more, g[i - 1], i)
  BY <1>2 DEF IsJoined
<1>4. CASE n = 0
  <2>1. g[1] = more[1]
    BY <1>1, <1>3, <1>4 DEF Joined
  <2>2. FlattenSeq(seqs) = seqs /\ seqs = <<>>
    BY <1>4, FlattenOfNothing
  <2>3. FlattenSeq(more) = x /\ <<>> \o x = x
    BY <1>1, <1>2, <1>4, <2>1
  <2> QED BY <2>2, <2>3 DEF more
<1>5. CASE n # 0
  <2>1. PICK f : IsJoined(f, seqs, n) /\ FlattenSeq(seqs) = f[n]
    BY <1>5, FlattenTakesTurns
  <2>2. \A i \in 1..n : f[i] = Joined(seqs, f[i - 1], i)
    BY <2>1 DEF IsJoined
  <2> DEFINE T == {k \in Nat : k + 1 \in 1..n => f[k + 1] = g[k + 1]}
  <2>3. 0 \in T
    BY <1>1, <1>3, <2>2 DEF Joined
  <2>4. ASSUME NEW k \in Nat, k \in T PROVE k + 1 \in T
    <3> SUFFICES ASSUME k + 2 \in 1..n PROVE f[k + 2] = g[k + 2]
      OBVIOUS
    <3>1. f[k + 2] = Joined(seqs, f[k + 1], k + 2)
      BY <2>2
    <3>2. g[k + 2] = Joined(more, g[k + 1], k + 2)
      BY <1>3
    <3>3. f[k + 1] = g[k + 1] /\ more[k + 2] = seqs[k + 2]
      BY <1>1, <2>4
    <3> QED BY <3>1, <3>2, <3>3 DEF Joined
  <2>5. \A k \in Nat : k \in T
    <3> HIDE DEF T
    <3> QED BY ONLY <2>3, <2>4, AllNaturals
  <2>6. n - 1 \in Nat /\ n - 1 + 1 = n
    BY <1>1, <1>5
  <2>7. f[n] = g[n]
    <3>1. n - 1 \in T
      <4> HIDE DEF T
      <4> QED BY <2>5, <2>6
    <3> QED BY <1>1, <2>6, <3>1
  <2>8. g[n + 1] = g[n] \o x
    <3>1. g[n + 1] = Joined(more, g[n], n + 1)
      BY <1>1, <1>3
    <3> QED BY <1>1, <1>5, <3>1 DEF Joined
  <2> QED BY <1>2, <2>1, <2>7, <2>8 DEF more
<1> QED BY <1>4, <1>5

\* How far the first k of some sequences reach.
Upto(seqs, k) == FlattenSeq(SubSeq(seqs, 1, k))
Reach(seqs, k) == Len(Upto(seqs, k))

LEMMA UptoTheNext ==
  ASSUME NEW S, NEW seqs \in Seq(Seq(S)), NEW k \in 0..Len(seqs)
  PROVE  /\ Upto(seqs, k) \in Seq(S) /\ Reach(seqs, k) \in Nat
         /\ k = 0 => Upto(seqs, k) = <<>> /\ Reach(seqs, k) = 0
         /\ k < Len(seqs) =>
              /\ Upto(seqs, k + 1) = Upto(seqs, k) \o seqs[k + 1]
              /\ Reach(seqs, k + 1) = Reach(seqs, k) + Len(seqs[k + 1])
         /\ k = Len(seqs) => Upto(seqs, k) = FlattenSeq(seqs)
<1> DEFINE s == SubSeq(seqs, 1, k)
<1>1. s \in Seq(Seq(S)) /\ Len(s) = k
  OBVIOUS
<1> HIDE DEF s
<1>2. Upto(seqs, k) = FlattenSeq(s)
  BY DEF Upto, s
<1>3. Upto(seqs, k) \in Seq(S) /\ Reach(seqs, k) \in Nat
  <2>1. FlattenSeq(s) \in Seq(S)
    BY <1>1, FlattenIsASequence
  <2> QED BY <1>2, <2>1 DEF Reach
<1>4. ASSUME k = 0 PROVE Upto(seqs, k) = <<>> /\ Reach(seqs, k) = 0
  <2>1. FlattenSeq(s) = s /\ s = <<>>
    BY <1>1, <1>4, FlattenOfNothing
  <2> QED BY <1>2, <2>1 DEF Reach
<1>5. ASSUME k < Len(seqs)
      PROVE  /\ Upto(seqs, k + 1) = Upto(seqs, k) \o seqs[k + 1]
             /\ Reach(seqs, k + 1) = Reach(seqs, k) + Len(seqs[k + 1])
  <2>1. seqs[k + 1] \in Seq(S)
    BY <1>5
  <2>2. SubSeq(seqs, 1, k + 1) = Append(s, seqs[k + 1])
    BY <1>5 DEF s
  <2>3. Upto(seqs, k + 1) = Upto(seqs, k) \o seqs[k + 1]
    BY <1>1, <1>2, <2>1, <2>2, FlattenAppend DEF Upto
  <2> QED BY <1>3, <2>1, <2>3 DEF Reach
<1>6. ASSUME k = Len(seqs) PROVE Upto(seqs, k) = FlattenSeq(seqs)
  <2>1. SubSeq(seqs, 1, k) = seqs
    BY <1>6
  <2> QED BY <2>1 DEF Upto
<1> QED BY <1>3, <1>4, <1>5, <1>6

\* Every sequence is a part of the whole, behind those before it.
PiecesUpto(seqs, n) ==
  \A k \in 1..n :
    /\ 0 <= Reach(seqs, k - 1) /\ Reach(seqs, k - 1) <= Reach(seqs, k)
    /\ Reach(seqs, k) <= Reach(seqs, n)
    /\ Reach(seqs, k) = Reach(seqs, k - 1) + Len(seqs[k])
    /\ \A m \in 1..Len(seqs[k]) : Upto(seqs, n)[Reach(seqs, k - 1) + m] = seqs[k][m]

\* And there is nothing else in the whole.
NothingElseUpto(seqs, n) ==
  \A x \in 1..Reach(seqs, n) :
    \E k \in 1..n : x \in (Reach(seqs, k - 1) + 1)..Reach(seqs, k)

LEMMA NextPieceIsInPlace ==
  ASSUME NEW S, NEW seqs \in Seq(Seq(S)), NEW n \in Nat, n < Len(seqs),
         PiecesUpto(seqs, n), NothingElseUpto(seqs, n)
  PROVE  PiecesUpto(seqs, n + 1) /\ NothingElseUpto(seqs, n + 1)
<1> DEFINE r(k) == Reach(seqs, k)
           whole == Upto(seqs, n)
           more == Upto(seqs, n + 1)
           next == seqs[n + 1]
<1>1. /\ whole \in Seq(S) /\ r(n) \in Nat /\ next \in Seq(S) /\ r(n) = Len(whole)
      /\ more = whole \o next /\ r(n + 1) = r(n) + Len(next)
  <2>1. n \in 0..Len(seqs) /\ next \in Seq(S)
    OBVIOUS
  <2> QED BY <2>1, UptoTheNext DEF Reach
<1>2. ASSUME NEW k \in 0..n PROVE r(k) \in Nat
  <2>1. k \in 0..Len(seqs)
    OBVIOUS
  <2> QED BY <2>1, UptoTheNext
<1>3. ASSUME NEW k \in 1..n
      PROVE  /\ 0 <= r(k - 1) /\ r(k - 1) <= r(k) /\ r(k) <= r(n)
             /\ r(k) = r(k - 1) + Len(seqs[k])
             /\ \A m \in 1..Len(seqs[k]) : whole[r(k - 1) + m] = seqs[k][m]
  BY DEF PiecesUpto
<1>4. ASSUME NEW x \in 1..r(n)
      PROVE  \E k \in 1..n : x \in (r(k - 1) + 1)..r(k)
  BY DEF NothingElseUpto
<1> HIDE DEF whole, more, next, r
<1>5. ASSUME NEW k \in 1..(n + 1)
      PROVE  /\ 0 <= r(k - 1) /\ r(k - 1) <= r(k) /\ r(k) <= r(n + 1)
             /\ r(k) = r(k - 1) + Len(seqs[k])
             /\ \A m \in 1..Len(seqs[k]) : more[r(k - 1) + m] = seqs[k][m]
  <2>1. CASE k \in 1..n
    <3>1. r(k - 1) \in Nat /\ r(k) \in Nat
      BY <1>2, <2>1
    <3>2. /\ r(k - 1) <= r(k) /\ r(k) <= r(n) /\ r(k) = r(k - 1) + Len(seqs[k])
          /\ \A m \in 1..Len(seqs[k]) : whole[r(k - 1) + m] = seqs[k][m]
      BY <1>3, <2>1
    <3>3. Len(next) \in Nat
      BY <1>1
    <3>4. r(k) <= r(n + 1)
      BY <1>1, <3>1, <3>2, <3>3
    <3>5. seqs[k] \in Seq(S)
      BY <2>1
    <3>6. ASSUME NEW m \in 1..Len(seqs[k])
          PROVE  more[r(k - 1) + m] = seqs[k][m]
      <4>1. r(k - 1) + m \in 1..Len(whole)
        <5>1. m \in Nat /\ 1 <= m /\ m <= Len(seqs[k]) /\ Len(seqs[k]) \in Nat
          BY <3>5
        <5>2. r(k) = r(k - 1) + Len(seqs[k]) /\ r(k) <= r(n)
          BY <3>2
        <5>3. r(n) = Len(whole) /\ r(n) \in Nat
          BY <1>1
        <5> QED BY ONLY SMTT(40), <3>1, <5>1, <5>2, <5>3
      <4>2. more[r(k - 1) + m] = whole[r(k - 1) + m]
        BY ONLY <1>1, <4>1
      <4> QED BY <3>2, <4>2
    <3> QED BY <3>1, <3>2, <3>4, <3>6
  <2>2. CASE k = n + 1
    <3>1. k - 1 = n /\ seqs[k] = next
      BY <2>2 DEF next
    <3>2. ASSUME NEW m \in 1..Len(next)
          PROVE  more[r(n) + m] = next[m]
      BY ONLY <1>1, <3>2
    <3>3. Len(next) \in Nat
      BY <1>1
    <3>4. r(n) <= r(n + 1) /\ 0 <= r(n)
      BY ONLY <1>1, <3>3
    <3>5. \A m \in 1..Len(seqs[k]) : more[r(k - 1) + m] = seqs[k][m]
      BY ONLY <3>1, <3>2
    <3>6. r(k - 1) = r(n) /\ r(k) = r(n + 1)
      BY ONLY <2>2, <3>1
    <3>7. r(n + 1) = r(n) + Len(next) /\ r(n) \in Nat
      BY <1>1
    <3>8. /\ 0 <= r(k - 1) /\ r(k - 1) <= r(k) /\ r(k) <= r(n + 1)
          /\ r(k) = r(k - 1) + Len(seqs[k])
      BY ONLY <3>1, <3>3, <3>4, <3>6, <3>7
    <3> QED BY ONLY <3>5, <3>8
  <2> QED BY <2>1, <2>2
<1>6. ASSUME NEW x \in 1..r(n + 1)
      PROVE  \E k \in 1..(n + 1) : x \in (r(k - 1) + 1)..r(k)
  <2>1. CASE x \in 1..r(n)
    <3>1. PICK k \in 1..n : x \in (r(k - 1) + 1)..r(k)
      BY <1>4, <2>1
    <3>2. k \in 1..(n + 1)
      OBVIOUS
    <3> QED BY <3>1, <3>2
  <2>2. CASE x \notin 1..r(n)
    <3>1. x \in (r(n) + 1)..r(n + 1)
      BY <1>1, <2>2
    <3>2. n + 1 \in 1..(n + 1) /\ n + 1 - 1 = n
      OBVIOUS
    <3> QED BY <3>1, <3>2
  <2> QED BY <2>1, <2>2
<1>7. PiecesUpto(seqs, n + 1)
  BY <1>5 DEF PiecesUpto, r, more
<1>8. NothingElseUpto(seqs, n + 1)
  BY <1>6 DEF NothingElseUpto, r
<1> QED BY <1>7, <1>8

LEMMA PiecesAreInPlace ==
  ASSUME NEW S, NEW seqs \in Seq(Seq(S))
  PROVE  PiecesUpto(seqs, Len(seqs)) /\ NothingElseUpto(seqs, Len(seqs))
<1> DEFINE T == {n \in Nat : n <= Len(seqs) =>
                               PiecesUpto(seqs, n) /\ NothingElseUpto(seqs, n)}
<1>1. 0 \in T
  <2>1. Reach(seqs, 0) = 0
    <3>1. 0 \in 0..Len(seqs)
      OBVIOUS
    <3> QED BY <3>1, UptoTheNext
  <2>2. 1..0 = {}
    OBVIOUS
  <2> QED BY <2>1, <2>2 DEF PiecesUpto, NothingElseUpto
<1>2. ASSUME NEW n \in Nat, n \in T PROVE n + 1 \in T
  <2> SUFFICES ASSUME n + 1 <= Len(seqs)
               PROVE  PiecesUpto(seqs, n + 1) /\ NothingElseUpto(seqs, n + 1)
    OBVIOUS
  <2>1. n < Len(seqs)
    OBVIOUS
  <2> QED BY <1>2, <2>1, NextPieceIsInPlace
<1>3. \A n \in Nat : n \in T
  <2> HIDE DEF T
  <2> QED BY ONLY <1>1, <1>2, AllNaturals
<1> QED BY <1>3

LEMMA ReachGrows ==
  ASSUME NEW S, NEW seqs \in Seq(Seq(S)), NEW k \in 0..Len(seqs), NEW j \in 0..k
  PROVE  Reach(seqs, j) <= Reach(seqs, k)
<1> DEFINE n == Len(seqs)
           T == {i \in Nat : i <= n => \A m \in 0..i : Reach(seqs, m) <= Reach(seqs, i)}
<1>1. n \in Nat /\ \A i \in 0..n : Reach(seqs, i) \in Nat
  BY UptoTheNext
<1>2. PiecesUpto(seqs, n)
  BY <1>1, PiecesAreInPlace
<1> HIDE DEF n
<1>3. 0 \in T
  <2>1. \A m \in 0..0 : m = 0
    OBVIOUS
  <2>2. Reach(seqs, 0) \in Nat
    BY <1>1
  <2>3. \A m \in 0..0 : Reach(seqs, m) <= Reach(seqs, 0)
    BY <2>1, <2>2
  <2> QED BY <2>3
<1>4. ASSUME NEW i \in Nat, i \in T PROVE i + 1 \in T
  <2> SUFFICES ASSUME i + 1 <= n, NEW m \in 0..(i + 1)
               PROVE  Reach(seqs, m) <= Reach(seqs, i + 1)
    OBVIOUS
  <2>1. i + 1 \in 1..n /\ (i + 1) - 1 = i /\ i \in 0..n /\ i + 1 \in 0..n /\ m \in 0..n /\ i <= n
    BY <1>1
  <2>2. Reach(seqs, i) <= Reach(seqs, i + 1)
    <3>1. Reach(seqs, (i + 1) - 1) <= Reach(seqs, i + 1)
      BY <1>2, <2>1 DEF PiecesUpto
    <3> QED BY <2>1, <3>1
  <2>3. Reach(seqs, i) \in Nat /\ Reach(seqs, i + 1) \in Nat /\ Reach(seqs, m) \in Nat
    BY <1>1, <2>1
  <2>4. CASE m = i + 1
    BY <2>3, <2>4
  <2>5. CASE m # i + 1
    <3>1. m \in 0..i
      BY <2>5
    <3>2. Reach(seqs, m) <= Reach(seqs, i)
      BY <1>4, <2>1, <3>1
    <3> QED BY <2>2, <2>3, <3>2
  <2> QED BY <2>4, <2>5
<1>5. \A i \in Nat : i \in T
  <2> HIDE DEF T
  <2> QED BY ONLY <1>3, <1>4, AllNaturals
<1>6. k \in Nat /\ k <= n
  BY <1>1 DEF n
<1> QED BY <1>5, <1>6

LEMMA PutBehind ==
  ASSUME NEW S, NEW s \in Seq(S), NEW t \in Seq(S)
  PROVE  /\ s \o t \in Seq(S) /\ Len(s \o t) = Len(s) + Len(t)
         /\ \A i \in 1..Len(s) : (s \o t)[i] = s[i]
         /\ \A j \in 1..Len(t) : (s \o t)[Len(s) + j] = t[j]
OBVIOUS

\* What is reached does not change.
LEMMA UptoGrows ==
  ASSUME NEW S, NEW seqs \in Seq(Seq(S)), NEW k \in 0..Len(seqs), NEW j \in 0..k
  PROVE  \A y \in 1..Reach(seqs, j) : Upto(seqs, k)[y] = Upto(seqs, j)[y]
<1> DEFINE n == Len(seqs)
           before == Upto(seqs, j)
           r == Reach(seqs, j)
           T == {i \in Nat : i <= n /\ j <= i => \A y \in 1..r : Upto(seqs, i)[y] = before[y]}
<1>1. n \in Nat /\ j \in Nat /\ k \in Nat /\ k <= n /\ j <= k /\ j \in 0..n
  OBVIOUS
<1>2. before \in Seq(S) /\ r \in Nat /\ \A i \in 0..n : Upto(seqs, i) \in Seq(S)
  BY <1>1, UptoTheNext
<1>3. 0 \in T
  <2>1. j <= 0 => j = 0
    BY <1>1
  <2> QED BY <2>1
<1>4. ASSUME NEW i \in Nat, i \in T PROVE i + 1 \in T
  <2> SUFFICES ASSUME i + 1 <= n, j <= i + 1, NEW y \in 1..r
               PROVE  Upto(seqs, i + 1)[y] = before[y]
    OBVIOUS
  <2>1. CASE j = i + 1
    BY <2>1
  <2>2. CASE j # i + 1
    <3>1. i \in 0..n /\ i < n /\ j <= i /\ i + 1 \in 1..n /\ j \in 0..i /\ i <= n
      BY <1>1, <2>2
    <3>2. Upto(seqs, i)[y] = before[y]
      BY <1>4, <3>1
    <3>3. Upto(seqs, i + 1) = Upto(seqs, i) \o seqs[i + 1] /\ Upto(seqs, i) \in Seq(S)
      BY <1>1, <3>1, UptoTheNext
    <3>4. seqs[i + 1] \in Seq(S)
      BY <3>1
    <3>5. y \in 1..Len(Upto(seqs, i))
      <4>1. Reach(seqs, j) <= Reach(seqs, i) /\ Reach(seqs, i) \in Nat
        BY <3>1, ReachGrows, UptoTheNext
      <4> QED BY <1>2, <4>1 DEF Reach
    <3> DEFINE a == Upto(seqs, i)
               b == seqs[i + 1]
    <3>6. a \in Seq(S) /\ b \in Seq(S) /\ y \in 1..Len(a)
      BY <3>3, <3>4, <3>5
    <3> HIDE DEF a, b
    <3>7. (a \o b)[y] = a[y]
      BY ONLY <3>6, PutBehind
    <3> QED BY <3>2, <3>3, <3>7 DEF a, b
  <2> QED BY <2>1, <2>2
<1>5. \A i \in Nat : i \in T
  <2> HIDE DEF T
  <2> QED BY ONLY <1>3, <1>4, AllNaturals
<1> QED BY <1>1, <1>5

\* Some of the sequences, and a part of the next.
LEMMA PartOfTheWhole ==
  ASSUME NEW S, NEW seqs \in Seq(Seq(S)), NEW n \in Nat, n < Len(seqs), NEW part \in Seq(S),
         Len(part) <= Len(seqs[n + 1]), \A i \in 1..Len(part) : part[i] = seqs[n + 1][i]
  PROVE  LET t == Upto(seqs, n) \o part IN
         /\ Len(t) \in 0..Len(FlattenSeq(seqs)) /\ Len(t) = Reach(seqs, n) + Len(part)
         /\ \A y \in 1..Len(t) : t[y] = FlattenSeq(seqs)[y]
<1> DEFINE a == Upto(seqs, n)
           t == a \o part
           whole == FlattenSeq(seqs)
           z == Len(seqs)
           l == Len(part)
           r == Reach(seqs, n)
           r1 == Reach(seqs, n + 1)
           all == Reach(seqs, z)
<1>1. z \in Nat /\ n \in 0..z /\ n + 1 \in 1..z /\ z \in 0..z /\ n + 1 - 1 = n /\ n + 1 \in 0..z
  OBVIOUS
<1>2. /\ a \in Seq(S) /\ r \in Nat /\ r = Len(a) /\ Upto(seqs, z) = whole /\ all \in Nat
      /\ r1 \in Nat /\ all = Len(whole)
  BY <1>1, UptoTheNext DEF Reach
<1>3. PiecesUpto(seqs, z)
  BY PiecesAreInPlace
<1>4. /\ r1 <= all /\ r1 = r + Len(seqs[n + 1])
      /\ \A i \in 1..Len(seqs[n + 1]) : whole[r + i] = seqs[n + 1][i]
  <2> DEFINE m == n + 1
  <2>1. m \in 1..z /\ m - 1 = n
    BY <1>1
  <2> HIDE DEF m
  <2>2. /\ Reach(seqs, m) <= Reach(seqs, z) /\ Reach(seqs, m) = Reach(seqs, m - 1) + Len(seqs[m])
        /\ \A i \in 1..Len(seqs[m]) : Upto(seqs, z)[Reach(seqs, m - 1) + i] = seqs[m][i]
    BY <1>3, <2>1 DEF PiecesUpto
  <2>3. Reach(seqs, m - 1) = Reach(seqs, n)
    BY <2>1
  <2> QED BY <1>2, <2>2, <2>3 DEF m
<1>5. seqs[n + 1] \in Seq(S) /\ Len(seqs[n + 1]) \in Nat /\ l \in Nat /\ l <= Len(seqs[n + 1])
  BY <1>1
<1>6. \A y \in 1..r : whole[y] = a[y]
  <2>1. n \in 0..z
    BY <1>1
  <2>2. \A y \in 1..Reach(seqs, n) : Upto(seqs, z)[y] = Upto(seqs, n)[y]
    BY <1>1, <2>1, UptoGrows
  <2> QED BY <1>2, <2>2
<1> HIDE DEF a
<1>7. /\ t \in Seq(S) /\ Len(t) = r + l
      /\ \A y \in 1..r : t[y] = a[y]
      /\ \A i \in 1..l : t[r + i] = part[i]
  <2>1. /\ a \o part \in Seq(S) /\ Len(a \o part) = Len(a) + Len(part)
        /\ \A i \in 1..Len(a) : (a \o part)[i] = a[i]
        /\ \A i \in 1..Len(part) : (a \o part)[Len(a) + i] = part[i]
    BY ONLY <1>2, part \in Seq(S), PutBehind
  <2> QED BY <1>2, <2>1
<1> HIDE DEF t, whole, z, l, r, r1, all
<1>8. Len(t) \in 0..Len(whole)
  <2>1. r + l <= all /\ r + l \in Nat
    BY <1>2, <1>4, <1>5
  <2> QED BY <1>2, <1>7, <2>1
<1>9. ASSUME NEW y \in 1..Len(t) PROVE t[y] = whole[y]
  <2>1. CASE y <= r
    <3>1. y \in 1..r
      BY <1>2, <1>7, <2>1
    <3> QED BY <1>6, <1>7, <3>1
  <2>2. CASE y > r
    <3> DEFINE i == y - r
    <3>1. i \in 1..l /\ y = r + i /\ i \in 1..Len(seqs[n + 1])
      BY <1>2, <1>5, <1>7, <2>2
    <3> HIDE DEF i
    <3>2. whole[r + i] = seqs[n + 1][i] /\ t[r + i] = part[i]
      BY <1>4, <1>7, <3>1
    <3>3. part[i] = seqs[n + 1][i]
      BY <3>1 DEF l
    <3> QED BY <3>1, <3>2, <3>3
  <2> QED BY <1>2, <1>7, <2>1, <2>2
<1> QED BY <1>7, <1>8, <1>9 DEF t, whole, l, r, a

----------------------------------------------------------------------------
(* The tokens of what is written.                                          *)

\* A word without a semicolon at its end is a token, and one with it is two.
Whole(word) == ~IsSuffix(Semicolon, word)

LEMMA ReverseIsASequence ==
  ASSUME NEW S, NEW s \in Seq(S)
  PROVE  /\ Reverse(s) \in Seq(S) /\ Len(Reverse(s)) = Len(s)
         /\ s # <<>> => Reverse(s)[1] = s[Len(s)]
BY DEF Reverse

LEMMA FirstOnly ==
  ASSUME NEW S, NEW s \in Seq(S), s # <<>>
  PROVE  SubSeq(s, 1, 1) = <<s[1]>>
<1> DEFINE t == SubSeq(s, 1, 1)
           u == <<s[1]>>
<1>1. 1 <= Len(s)
  OBVIOUS
<1>2. t \in Seq(S) /\ Len(t) = 1 /\ t[1] = s[1]
  BY <1>1, PieceIsASequence
<1>3. u \in Seq(S) /\ Len(u) = 1 /\ u[1] = s[1]
  BY <1>1
<1> HIDE DEF t, u
<1>4. t = u
  BY <1>2, <1>3
<1> QED BY <1>4 DEF t, u

LEMMA EndsWithSemicolon ==
  ASSUME NEW word \in Tokens
  PROVE  IsSuffix(Semicolon, word) <=> word # <<>> /\ word[Len(word)] = ";"
<1> DEFINE r == Reverse(word)
           c == Reverse(Semicolon)
<1>1. word \in Seq(Symbols) /\ Len(word) \in Nat
  BY DEF Tokens
<1>2. r \in Seq(Symbols) /\ Len(r) = Len(word) /\ (word # <<>> => r[1] = word[Len(word)])
  BY <1>1, ReverseIsASequence
<1>3. Semicolon \in Seq({";"}) /\ Semicolon # <<>> /\ Len(Semicolon) = 1 /\ Semicolon[1] = ";"
  BY DEF Semicolon
<1>4. c \in Seq({";"}) /\ Len(c) = 1 /\ c[1] = ";"
  BY <1>3, ReverseIsASequence
<1>5. IsSuffix(Semicolon, word) <=> Len(c) <= Len(r) /\ SubSeq(c, 1, Len(c)) = SubSeq(r, 1, Len(c))
  BY DEF IsSuffix, IsPrefix
<1> HIDE DEF r, c
<1>6. CASE word = <<>>
  <2>1. Len(r) = 0
    BY ONLY <1>2, <1>6
  <2>2. ~(Len(c) <= Len(r))
    <3>1. Len(c) = 1
      BY <1>4
    <3> QED BY ONLY <2>1, <3>1
  <2> QED BY ONLY <1>5, <1>6, <2>2
<1>7. CASE word # <<>>
  <2>1. 1 <= Len(r) /\ r # <<>> /\ c # <<>>
    <3>1. 1 <= Len(word)
      BY ONLY <1>1, <1>7
    <3>2. Len(r) = Len(word) /\ Len(c) = 1
      BY <1>2, <1>4
    <3>3. Len(<<>>) = 0
      OBVIOUS
    <3> QED BY ONLY <3>1, <3>2, <3>3
  <2>2. SubSeq(c, 1, 1) = <<c[1]>> /\ SubSeq(r, 1, 1) = <<r[1]>>
    BY <1>2, <1>4, <2>1, FirstOnly
  <2>3. <<c[1]>> = <<r[1]>> <=> c[1] = r[1]
    OBVIOUS
  <2>4. IsSuffix(Semicolon, word) <=> <<c[1]>> = <<r[1]>>
    BY ONLY <1>4, <1>5, <2>1, <2>2
  <2> QED BY ONLY <1>2, <1>4, <1>7, <2>3, <2>4
<1> QED BY <1>6, <1>7

LEMMA SplitOfAWhole ==
  ASSUME NEW word, Whole(word)
  PROVE  Split(word) = <<word>>
BY DEF Whole, Split

LEMMA SplitOfTheLast ==
  ASSUME NEW word \in Tokens
  PROVE  Split(word \o Semicolon) = <<word, Semicolon>>
<1> DEFINE last == word \o Semicolon
<1>1. last \in Tokens /\ Len(last) = Len(word) + 1 /\ last[Len(last)] = ";" /\ last # <<>>
  <2>1. word \in Seq(Symbols) /\ Semicolon \in Seq(Symbols) /\ Len(Semicolon) = 1
        /\ Semicolon[1] = ";"
    BY MarksAreTokens DEF Tokens, Semicolon
  <2>2. last \in Seq(Symbols) /\ Len(last) = Len(word) + 1 /\ last[Len(word) + 1] = Semicolon[1]
    <3>1. word \in Seq(Symbols) /\ Semicolon \in Seq(Symbols) /\ Len(Semicolon) = 1
      BY <2>1
    <3>2. 1 \in 1..Len(Semicolon)
      BY ONLY <3>1
    <3> QED BY ONLY SMTT(40), <3>1, <3>2, PutBehind
  <2>3. Len(word) \in Nat
    <3>1. word \in Seq(Symbols)
      BY <2>1
    <3> QED BY ONLY <3>1
  <2>4. last # <<>>
    BY <2>2, <2>3
  <2> HIDE DEF last
  <2> QED BY <2>1, <2>2, <2>4 DEF Tokens
<1>2. Front(last) = word
  BY DEF Front, Semicolon, Tokens
<1> HIDE DEF last
<1>3. IsSuffix(Semicolon, last)
  BY <1>1, EndsWithSemicolon
<1>4. Split(last) = <<word, Semicolon>>
  BY <1>2, <1>3 DEF Split
<1> QED BY <1>4 DEF last

LEMMA SplitIsWords ==
  ASSUME NEW word \in Tokens
  PROVE  Split(word) \in Seq(Tokens)
<1>1. Front(word) \in Tokens
  BY FrontIsASequence DEF Tokens
<1>2. <<Front(word), Semicolon>> \in Seq(Tokens)
  BY <1>1, MarksAreTokens, TwoAreASequence
<1>3. <<word>> \in Seq(Tokens)
  BY OneIsASequence
<1> QED BY <1>2, <1>3 DEF Split

LEMMA SplitAllAppend ==
  ASSUME NEW line \in Seq(Tokens), NEW word \in Tokens
  PROVE  SplitAll(Append(line, word)) = SplitAll(line) \o Split(word)
<1> DEFINE parts == [j \in 1..Len(line) |-> Split(line[j])]
           more == Append(line, word)
<1>1. parts \in Seq(Seq(Tokens))
  BY SplitIsWords
<1>2. Split(word) \in Seq(Tokens)
  BY SplitIsWords
<1>3. Len(more) = Len(line) + 1 /\ more[Len(line) + 1] = word
      /\ \A j \in 1..Len(line) : more[j] = line[j]
  OBVIOUS
<1> HIDE DEF more
<1>4. [j \in 1..Len(more) |-> Split(more[j])] = Append(parts, Split(word))
  BY <1>3
<1> HIDE DEF parts
<1>5. FlattenSeq(Append(parts, Split(word))) = FlattenSeq(parts) \o Split(word)
  BY <1>1, <1>2, FlattenAppend
<1> QED BY <1>4, <1>5 DEF SplitAll, parts, more

LEMMA SplitAllOfWholes ==
  ASSUME NEW line \in Seq(Tokens), \A i \in 1..Len(line) : Whole(line[i])
  PROVE  SplitAll(line) = line
<1> DEFINE T == {n \in Nat : n <= Len(line) => SplitAll(SubSeq(line, 1, n)) = SubSeq(line, 1, n)}
<1>1. 0 \in T
  <2>1. SubSeq(line, 1, 0) = <<>>
    OBVIOUS
  <2>2. SplitAll(<<>>) = <<>>
    BY FlattenOfNothing DEF SplitAll
  <2> QED BY <2>1, <2>2
<1>2. ASSUME NEW n \in Nat, n \in T PROVE n + 1 \in T
  <2> SUFFICES ASSUME n + 1 <= Len(line)
               PROVE  SplitAll(SubSeq(line, 1, n + 1)) = SubSeq(line, 1, n + 1)
    OBVIOUS
  <2> DEFINE s == SubSeq(line, 1, n)
  <2>1. SubSeq(line, 1, n + 1) = Append(s, line[n + 1])
    OBVIOUS
  <2>2. s \in Seq(Tokens) /\ line[n + 1] \in Tokens
    OBVIOUS
  <2>3. SplitAll(s) = s
    BY <1>2
  <2>4. Split(line[n + 1]) = <<line[n + 1]>>
    BY SplitOfAWhole
  <2> HIDE DEF s
  <2>5. SplitAll(Append(s, line[n + 1])) = s \o <<line[n + 1]>>
    BY <2>2, <2>3, <2>4, SplitAllAppend
  <2>6. s \o <<line[n + 1]>> = Append(s, line[n + 1])
    BY <2>2
  <2> QED BY <2>1, <2>5, <2>6
<1>3. \A n \in Nat : n \in T
  <2> HIDE DEF T
  <2> QED BY ONLY <1>1, <1>2, AllNaturals
<1>4. SubSeq(line, 1, Len(line)) = line /\ Len(line) \in Nat
  OBVIOUS
<1>5. Len(line) \in T
  <2> HIDE DEF T
  <2> QED BY <1>3, <1>4
<1>6. Len(line) <= Len(line)
  BY <1>4
<1> QED BY <1>4, <1>5, <1>6

\* A symbol that is neither is a word like others.
LEMMA SymbolIsPlain ==
  ASSUME NEW symbol \in Symbols, symbol # ";", symbol # "#"
  PROVE  <<symbol>> \in Tokens /\ IsPlain(<<symbol>>)
<1>1. <<symbol>> \in Tokens
  BY SymbolsAreTokens
<1>2. ~IsSuffix(Semicolon, <<symbol>>)
  <2>1. Len(<<symbol>>) = 1 /\ <<symbol>>[1] = symbol
    OBVIOUS
  <2> DEFINE word == <<symbol>>
  <2>2. word[Len(word)] # ";"
    BY <2>1
  <2>3. word \in Tokens
    BY <1>1
  <2> HIDE DEF word
  <2>4. ~IsSuffix(Semicolon, word)
    BY <2>2, <2>3, EndsWithSemicolon
  <2> QED BY <2>4 DEF word
<1>3. ~Contains(<<symbol>>, "#")
  <2>1. Len(<<symbol>>) = 1 /\ <<symbol>>[1] = symbol
    OBVIOUS
  <2>2. ASSUME NEW n, n = 1, NEW i \in 1..n PROVE i = 1
    BY ONLY <2>2
  <2>3. \A i \in 1..Len(<<symbol>>) : <<symbol>>[i] = symbol
    BY ONLY <2>1, <2>2
  <2> QED BY <2>3 DEF Contains
<1> QED BY <1>1, <1>2, <1>3 DEF IsPlain

\* The words of a directive, with the semicolon.
LineWords(d) == <<<<d.name>>>> \o d.args \o <<Semicolon>>

LEMMA PutLast ==
  ASSUME NEW S, NEW s \in Seq(S), NEW x \in S, NEW y \in S
  PROVE  /\ s \o <<x>> = Append(s, x)
         /\ s \o <<x, y>> = Append(Append(s, x), y)
OBVIOUS

LEMMA FrontAndLast ==
  ASSUME NEW S, NEW s \in Seq(S), s # <<>>
  PROVE  /\ Front(s) \in Seq(S) /\ Last(s) \in S /\ s = Append(Front(s), Last(s))
         /\ \A i \in 1..Len(Front(s)) : i \in 1..Len(s) /\ Front(s)[i] = s[i]
         /\ Len(s) \in 1..Len(s) /\ Last(s) = s[Len(s)]
BY DEF Front, Last

LEMMA AppendBehind ==
  ASSUME NEW S, NEW s \in Seq(S), NEW t \in Seq(S), NEW x \in S
  PROVE  s \o Append(t, x) = Append(s \o t, x)
OBVIOUS

LEMMA TokensOfALine ==
  ASSUME NEW d \in Directives, IsPlain(<<d.name>>),
         \A word \in Range(d.args) : IsPlain(word)
  PROVE  SplitAll(Line(d)) = LineWords(d)
<1> DEFINE name == <<d.name>>
           args == d.args
           last == Last(args)
           words == <<name>> \o Front(args)
<1>1. name \in Tokens /\ args \in Seq(Tokens) /\ args # <<>>
  <2>1. d.name \in STRING /\ d.args \in Seq(Words) /\ d.args # <<>>
    BY DEF Directives
  <2>2. d.args = [i \in 1..Len(d.args) |-> d.args[i]] /\ Len(d.args) \in Nat
    BY <2>1
  <2>3. \A i \in 1..Len(d.args) : d.args[i] \in Tokens
    BY <2>1, WordsAreTokens
  <2>4. d.name \in Symbols
    BY <2>1 DEF Symbols
  <2>5. name \in Tokens
    BY <2>4, SymbolsAreTokens
  <2> QED BY <2>1, <2>2, <2>3, <2>5
<1>2. /\ Front(args) \in Seq(Tokens) /\ last \in Tokens /\ args = Append(Front(args), last)
      /\ \A i \in 1..Len(Front(args)) : i \in 1..Len(args) /\ Front(args)[i] = args[i]
  BY <1>1, FrontAndLast
<1>3. <<name>> \in Seq(Tokens) /\ Len(<<name>>) = 1 /\ <<name>>[1] = name
  BY <1>1
<1>4. words \in Seq(Tokens) /\ Len(words) = 1 + Len(Front(args)) /\ words[1] = name
      /\ \A j \in 1..Len(Front(args)) : words[1 + j] = Front(args)[j]
  <2>1. 1 \in 1..Len(<<name>>)
    BY <1>3
  <2> QED BY <1>2, <1>3, <2>1, PutBehind
<1>5. ASSUME NEW i \in 1..Len(words) PROVE Whole(words[i])
  <2>1. CASE i = 1
    BY <1>4, <2>1 DEF IsPlain, Whole
  <2>2. CASE i # 1
    <3>1. i - 1 \in 1..Len(Front(args)) /\ i = 1 + (i - 1)
      <4>1. Len(Front(args)) \in Nat
        BY <1>2
      <4> QED BY <1>4, <2>2, <4>1
    <3>2. words[i] = Front(args)[i - 1]
      BY <1>4, <3>1
    <3>3. words[i] \in Range(args)
      BY <1>1, <1>2, <3>1, <3>2 DEF Range
    <3> QED BY <3>3 DEF IsPlain, Whole
  <2> QED BY <2>1, <2>2
<1>6. Line(d) = Append(words, last \o Semicolon)
  <2>1. Line(d) = words \o <<last \o Semicolon>>
    BY DEF Line
  <2>2. last \o Semicolon \in Tokens
    BY <1>2, MarksAreTokens DEF Tokens
  <2> HIDE DEF words, last
  <2> QED BY <1>4, <2>1, <2>2
<1>7. LineWords(d) = Append(Append(words, last), Semicolon)
  <2>1. LineWords(d) = (<<name>> \o args) \o <<Semicolon>>
    BY DEF LineWords
  <2>2. <<name>> \o args = Append(words, last)
    <3>1. <<name>> \o Append(Front(args), last) = Append(<<name>> \o Front(args), last)
      <4> HIDE DEF name, args, last
      <4> QED BY <1>2, <1>3, AppendBehind
    <3> QED BY <1>2, <3>1
  <2>3. Append(words, last) \in Seq(Tokens) /\ Semicolon \in Tokens
    <3> HIDE DEF words, last
    <3> QED BY <1>2, <1>4, MarksAreTokens
  <2> HIDE DEF words, last, name, args
  <2> QED BY <2>1, <2>2, <2>3, PutLast
<1> HIDE DEF words, last
<1>8. SplitAll(Append(words, last \o Semicolon)) = SplitAll(words) \o Split(last \o Semicolon)
  <2>1. last \o Semicolon \in Tokens
    BY <1>2, MarksAreTokens DEF Tokens
  <2> QED BY <1>4, <2>1, SplitAllAppend
<1>9. SplitAll(words) = words
  BY <1>4, <1>5, SplitAllOfWholes
<1>10. Split(last \o Semicolon) = <<last, Semicolon>>
  BY <1>2, SplitOfTheLast
<1>11. words \o <<last, Semicolon>> = Append(Append(words, last), Semicolon)
  BY <1>2, <1>4, MarksAreTokens, PutLast
<1> QED BY <1>6, <1>7, <1>8, <1>9, <1>10, <1>11

\* Lines without a comment, and the one every line has behind it.
CleanLines == {line \in Seq(Tokens) : \A i \in 1..Len(line) : ~Contains(line[i], "#")}
Comment == <<<<"#">>, Closes>>

LEMMA CommentIsCut ==
  ASSUME NEW line \in CleanLines
  PROVE  UpToComment(line \o Comment) = line
<1> DEFINE full == line \o Comment
           n == Len(line)
           I == {i \in 1..Len(full) : Contains(full[i], "#")}
           J == {i \in 1..Len(full[n + 1]) : full[n + 1][i] = "#"}
<1>1. line \in Seq(Tokens) /\ n \in Nat
  BY DEF CleanLines
<1>2. Comment \in Seq(Tokens) /\ Len(Comment) = 2 /\ Comment[1] = <<"#">>
  <2>1. <<"#">> \in Tokens /\ Closes \in Tokens
    BY MarksAreTokens
  <2> QED BY <2>1, TwoAreASequence DEF Comment
<1>3. /\ full \in Seq(Tokens) /\ Len(full) = n + 2 /\ full[n + 1] = <<"#">>
      /\ \A i \in 1..n : full[i] = line[i]
  <2>1. 1 \in 1..Len(Comment)
    BY <1>2
  <2> QED BY <1>1, <1>2, <2>1, PutBehind
<1> HIDE DEF full
<1>4. Len(<<"#">>) = 1 /\ <<"#">>[1] = "#"
  OBVIOUS
<1>5. I # {} /\ Min(I) = n + 1
  <2>1. n + 1 \in I
    <3>1. 1 \in 1..Len(<<"#">>)
      BY <1>4
    <3>2. Contains(<<"#">>, "#")
      BY <1>4, <3>1 DEF Contains
    <3>3. n + 1 \in 1..Len(full)
      BY <1>1, <1>3
    <3> QED BY <1>3, <3>2, <3>3
  <2>2. \A i \in I : i \notin 1..n
    BY <1>3 DEF CleanLines
  <2>3. I \in SUBSET Nat
    OBVIOUS
  <2> HIDE DEF I
  <2>4. Min(I) \in I /\ \A i \in I : Min(I) <= i
    BY <2>1, <2>3, LeastIsOne
  <2>5. Min(I) \in Nat /\ Min(I) \notin 1..n /\ Min(I) <= n + 1
    BY <2>1, <2>2, <2>3, <2>4
  <2>6. 1 <= Min(I)
    <3>1. I \subseteq 1..Len(full)
      BY DEF I
    <3>2. Min(I) \in 1..Len(full)
      BY <2>4, <3>1
    <3>3. Len(full) \in Nat
      BY <1>1, <1>3
    <3> QED BY ONLY <3>2, <3>3
  <2> QED BY <1>1, <2>1, <2>5, <2>6
<1>6. J # {} /\ Min(J) = 1
  <2>1. J = {1}
    BY <1>3, <1>4
  <2>2. {1} \in SUBSET Nat
    OBVIOUS
  <2>3. Min({1}) \in {1}
    BY <2>2, LeastIsOne
  <2> QED BY <2>1, <2>3
<1> DEFINE k == SelectInSeq(full, LAMBDA w : Contains(w, "#"))
<1>7. k = n + 1
  BY <1>5 DEF SelectInSeq
<1>8. SelectInSeq(full[n + 1], LAMBDA c : c = "#") = 1
  BY <1>6 DEF SelectInSeq
<1> DEFINE kept == SubSeq(full[k], 1, SelectInSeq(full[k], LAMBDA c : c = "#") - 1)
<1>9. UpToComment(full) =
        IF k = 0 THEN full
        ELSE SubSeq(full, 1, k - 1) \o (IF kept = <<>> THEN <<>> ELSE <<kept>>)
  BY DEF UpToComment
<1>10. kept = SubSeq(<<"#">>, 1, 0)
  <2>1. kept = SubSeq(full[n + 1], 1, SelectInSeq(full[n + 1], LAMBDA c : c = "#") - 1)
    BY <1>7
  <2>2. SelectInSeq(full[n + 1], LAMBDA c : c = "#") - 1 = 0
    BY <1>8
  <2> QED BY <1>3, <2>1, <2>2
<1>11. SubSeq(<<"#">>, 1, 0) = <<>>
  OBVIOUS
<1> HIDE DEF k, kept, I, J
<1>12. k # 0 /\ k - 1 = n
  BY <1>1, <1>7
<1>13. SubSeq(full, 1, n) = line
  BY <1>1, <1>2 DEF full
<1>14. line \o <<>> = line
  BY <1>1
<1>15. UpToComment(full) = line
  BY <1>9, <1>10, <1>11, <1>12, <1>13, <1>14
<1> QED BY <1>15 DEF full

\* What the directives of a right file have in common.
DirectiveIsRight(d) == IsPlain(<<d.name>>) /\ \A word \in Range(d.args) : IsPlain(word)

LEMMA RightDirectives ==
  ASSUME NEW d \in Directives, ServerDirectiveIsRight(d) \/ LocationDirectiveIsRight(d)
  PROVE  DirectiveIsRight(d)
<1>1. d.name \in {"server_name", "listen", "client_max_body_size", "root", "error_page",
                  "allowed_methods", "index", "autoindex", "allow_upload", "upload_path",
                  "cgi_extension", "return"}
  BY DEF ServerDirectiveIsRight, LocationDirectiveIsRight
<1>2. d.name # ";" /\ d.name # "#"
  BY <1>1
<1>3. d.name \in Symbols
  BY DEF Directives, Symbols
<1>4. IsPlain(<<d.name>>)
  BY <1>2, <1>3, SymbolIsPlain
<1> QED BY <1>4 DEF DirectiveIsRight, ServerDirectiveIsRight, LocationDirectiveIsRight

LEMMA ArgumentsAreTokens ==
  ASSUME NEW d \in Directives
  PROVE  /\ d.args \in Seq(Tokens) /\ d.args # <<>> /\ d.name \in Symbols
         /\ <<d.name>> \in Tokens
<1>1. d.name \in STRING /\ d.args \in Seq(Words) /\ d.args # <<>>
  BY DEF Directives
<1>2. d.args = [i \in 1..Len(d.args) |-> d.args[i]] /\ Len(d.args) \in Nat
  BY <1>1
<1>3. \A i \in 1..Len(d.args) : d.args[i] \in Tokens
  BY <1>1, WordsAreTokens
<1>4. d.name \in Symbols
  BY <1>1 DEF Symbols
<1> QED BY <1>1, <1>2, <1>3, <1>4, SymbolsAreTokens

LEMMA CleanAppend ==
  ASSUME NEW line \in CleanLines, NEW word \in Tokens, ~Contains(word, "#")
  PROVE  Append(line, word) \in CleanLines
<1>1. line \in Seq(Tokens) /\ \A i \in 1..Len(line) : ~Contains(line[i], "#")
  BY DEF CleanLines
<1> DEFINE more == Append(line, word)
<1>2. /\ more \in Seq(Tokens) /\ Len(more) = Len(line) + 1 /\ Len(line) \in Nat
      /\ more[Len(line) + 1] = word /\ \A i \in 1..Len(line) : more[i] = line[i]
  BY <1>1
<1> HIDE DEF more
<1>3. ASSUME NEW i \in 1..Len(more) PROVE ~Contains(more[i], "#")
  <2>1. i \in 1..Len(line) \/ i = Len(line) + 1
    BY <1>2
  <2> QED BY <1>1, <1>2, <2>1
<1> QED BY <1>2, <1>3 DEF CleanLines, more

\* A semicolon puts no comment in a word.
LEMMA SemicolonIsNoComment ==
  ASSUME NEW word \in Tokens, ~Contains(word, "#")
  PROVE  word \o Semicolon \in Tokens /\ ~Contains(word \o Semicolon, "#")
<1> DEFINE more == word \o Semicolon
<1>1. word \in Seq(Symbols) /\ Semicolon \in Seq(Symbols)
  BY MarksAreTokens DEF Tokens
<1>2. Len(Semicolon) = 1 /\ Semicolon[1] = ";"
  BY DEF Semicolon
<1>3. /\ more \in Seq(Symbols) /\ Len(more) = Len(word) + Len(Semicolon)
      /\ \A i \in 1..Len(word) : more[i] = word[i]
      /\ \A j \in 1..Len(Semicolon) : more[Len(word) + j] = Semicolon[j]
  BY <1>1, PutBehind
<1> HIDE DEF more
<1>4. Len(word) \in Nat
  BY <1>1
<1>5. more[Len(word) + 1] = ";"
  <2>1. Len(Semicolon) = 1
    BY <1>2
  <2>2. 1 \in 1..Len(Semicolon)
    BY ONLY <2>1
  <2> QED BY <1>2, <1>3, <2>2
<1>6. ASSUME NEW i \in 1..Len(more) PROVE more[i] # "#"
  <2>1. i \in 1..Len(word) \/ i = Len(word) + 1
    <3>1. Len(more) = Len(word) + 1
      BY <1>2, <1>3
    <3> QED BY <1>4, <3>1
  <2>2. CASE i \in 1..Len(word)
    BY <1>3, <2>2 DEF Contains
  <2>3. CASE i = Len(word) + 1
    BY <1>5, <2>3
  <2> QED BY <2>1, <2>2, <2>3
<1>7. more \in Tokens /\ ~Contains(more, "#")
  BY <1>3, <1>6 DEF Contains, Tokens
<1> QED BY <1>7 DEF more

LEMMA LineIsClean ==
  ASSUME NEW d \in Directives, DirectiveIsRight(d)
  PROVE  Line(d) \in CleanLines
<1> DEFINE words == <<<<d.name>>>> \o Front(d.args)
           last == Last(d.args)
<1>1. d.args \in Seq(Tokens) /\ d.args # <<>> /\ <<d.name>> \in Tokens
  BY ArgumentsAreTokens
<1>2. /\ Front(d.args) \in Seq(Tokens) /\ last \in Tokens
      /\ \A i \in 1..Len(Front(d.args)) : i \in 1..Len(d.args) /\ Front(d.args)[i] = d.args[i]
      /\ Len(d.args) \in 1..Len(d.args) /\ last = d.args[Len(d.args)]
  BY <1>1, FrontAndLast
<1>3. \A i \in 1..Len(d.args) : ~Contains(d.args[i], "#")
  <2>1. \A i \in 1..Len(d.args) : d.args[i] \in Range(d.args)
    BY <1>1 DEF Range
  <2> QED BY <2>1 DEF DirectiveIsRight, IsPlain
<1>4. last \o Semicolon \in Tokens /\ ~Contains(last \o Semicolon, "#")
  BY <1>2, <1>3, SemicolonIsNoComment
<1>5. <<<<d.name>>>> \in Seq(Tokens) /\ Len(<<<<d.name>>>>) = 1 /\ <<<<d.name>>>>[1] = <<d.name>>
  BY <1>1
<1>6. /\ words \in Seq(Tokens) /\ Len(words) = 1 + Len(Front(d.args)) /\ words[1] = <<d.name>>
      /\ \A j \in 1..Len(Front(d.args)) : words[1 + j] = Front(d.args)[j]
  <2>1. 1 \in 1..Len(<<<<d.name>>>>)
    BY <1>5
  <2> QED BY <1>2, <1>5, <2>1, PutBehind
<1>7. Line(d) = Append(words, last \o Semicolon)
  <2>1. Line(d) = words \o <<last \o Semicolon>>
    BY DEF Line
  <2> HIDE DEF words, last
  <2> QED BY <1>4, <1>6, <2>1
<1> HIDE DEF words, last
<1>8. ASSUME NEW i \in 1..Len(words) PROVE ~Contains(words[i], "#")
  <2>1. CASE i = 1
    BY <1>6, <2>1 DEF DirectiveIsRight, IsPlain
  <2>2. CASE i # 1
    <3>1. i - 1 \in 1..Len(Front(d.args)) /\ i = 1 + (i - 1)
      <4>1. Len(Front(d.args)) \in Nat
        BY <1>2
      <4> QED BY <1>6, <2>2, <4>1
    <3>2. words[i] = Front(d.args)[i - 1]
      BY <1>6, <3>1
    <3> QED BY <1>2, <1>3, <3>1, <3>2
  <2> QED BY <2>1, <2>2
<1>9. words \in CleanLines
  BY <1>6, <1>8 DEF CleanLines
<1> QED BY <1>4, <1>7, <1>9, CleanAppend

LEMMA LinesOfAreClean ==
  ASSUME NEW ds \in Seq(Directives), \A d \in Range(ds) : DirectiveIsRight(d)
  PROVE  LinesOf(ds) \in Seq(CleanLines) /\ Len(LinesOf(ds)) = Len(ds)
         /\ \A i \in 1..Len(ds) : LinesOf(ds)[i] = Line(ds[i])
<1>1. ASSUME NEW i \in 1..Len(ds) PROVE Line(ds[i]) \in CleanLines
  <2>1. ds[i] \in Directives /\ ds[i] \in Range(ds)
    BY DEF Range
  <2> QED BY <2>1, LineIsClean
<1> QED BY <1>1 DEF LinesOf

LEMMA OneMore ==
  ASSUME NEW x, NEW y, NEW z
  PROVE  /\ Append(<<>>, x) = <<x>> /\ Append(<<x>>, y) = <<x, y>>
         /\ Append(<<x, y>>, z) = <<x, y, z>>
<1> DEFINE S == {x, y, z}
<1>1. x \in S /\ y \in S /\ z \in S
  OBVIOUS
<1>2. <<>> \in Seq(S) /\ <<x>> \in Seq(S) /\ <<x, y>> \in Seq(S) /\ <<x, y, z>> \in Seq(S)
  BY <1>1
<1> HIDE DEF S
<1>3. Append(<<>>, x) = <<x>>
  BY <1>1, <1>2
<1>4. Append(<<x>>, y) = <<x, y>>
  <2>1. <<>> \o <<x, y>> = Append(Append(<<>>, x), y)
    BY <1>1, <1>2, PutLast
  <2>2. <<>> \o <<x, y>> = <<x, y>>
    BY <1>2
  <2> QED BY <1>3, <2>1, <2>2
<1>5. Append(<<x, y>>, z) = <<x, y, z>>
  <2> DEFINE s == <<x, y>>
             t == Append(s, z)
             u == <<x, y, z>>
  <2>1. s \in Seq(S) /\ Len(s) = 2 /\ s[1] = x /\ s[2] = y
    BY <1>2
  <2>2. u \in Seq(S) /\ Len(u) = 3 /\ u[1] = x /\ u[2] = y /\ u[3] = z
    BY <1>2
  <2> HIDE DEF s, u
  <2>3. t \in Seq(S) /\ Len(t) = 3 /\ t[1] = x /\ t[2] = y /\ t[3] = z
    <3>1. t \in Seq(S) /\ Len(t) = Len(s) + 1 /\ t[Len(s) + 1] = z
          /\ \A i \in 1..Len(s) : t[i] = s[i]
      <4>1. s \in Seq(S) /\ z \in S
        BY <1>1, <2>1
      <4> QED BY ONLY <4>1
    <3>2. Len(s) = 2
      BY <2>1
    <3>3. Len(s) + 1 = 3 /\ 1 \in 1..Len(s) /\ 2 \in 1..Len(s)
      BY ONLY <3>2
    <3> QED BY <2>1, <3>1, <3>3
  <2> HIDE DEF t
  <2>4. \A i \in 1..3 : i = 1 \/ i = 2 \/ i = 3
    OBVIOUS
  <2>5. t = u
    <3>1. \A i \in 1..3 : t[i] = u[i]
      BY <2>2, <2>3, <2>4
    <3> QED BY <2>2, <2>3, <3>1
  <2> QED BY <2>5 DEF s, t, u
<1> QED BY <1>3, <1>4, <1>5

\* A block is a line, those in it, and a bracket.
LEMMA BlockHasLines ==
  ASSUME NEW head \in CleanLines, NEW inner \in Seq(CleanLines)
  PROVE  /\ Block(head, inner) \in Seq(CleanLines)
         /\ Len(Block(head, inner)) = Len(inner) + 2
         /\ Block(head, inner)[1] = Append(head, Opens)
         /\ \A i \in 1..Len(inner) : Block(head, inner)[1 + i] = inner[i]
         /\ Block(head, inner)[Len(inner) + 2] = <<Closes>>
<1> DEFINE a == Append(head, Opens)
           c == <<Closes>>
<1>1. Opens \in Tokens /\ Closes \in Tokens /\ ~Contains(Opens, "#") /\ ~Contains(Closes, "#")
  <2>1. "{" \in Symbols /\ "}" \in Symbols
    BY DEF Symbols
  <2> QED BY <2>1, SymbolIsPlain DEF Opens, Closes, IsPlain
<1>2. a \in CleanLines
  BY <1>1, CleanAppend
<1>3. c \in CleanLines
  <2>1. <<>> \in CleanLines
    BY DEF CleanLines
  <2>2. Append(<<>>, Closes) \in CleanLines
    BY <1>1, <2>1, CleanAppend
  <2>3. Append(<<>>, Closes) = <<Closes>>
    OBVIOUS
  <2> QED BY <2>2, <2>3
<1>4. Block(head, inner) = (<<a>> \o inner) \o <<c>>
  BY DEF Block
<1> HIDE DEF a, c
<1> DEFINE upper == <<a>> \o inner
<1>5. <<a>> \in Seq(CleanLines) /\ Len(<<a>>) = 1 /\ <<a>>[1] = a
  BY <1>2
<1>6. <<c>> \in Seq(CleanLines) /\ Len(<<c>>) = 1 /\ <<c>>[1] = c
  BY <1>3
<1>7. 1 \in 1..Len(<<a>>) /\ 1 \in 1..Len(<<c>>)
  BY <1>5, <1>6
<1>8. /\ upper \in Seq(CleanLines) /\ Len(upper) = 1 + Len(inner) /\ upper[1] = a
      /\ \A j \in 1..Len(inner) : upper[1 + j] = inner[j]
  BY <1>5, <1>7, PutBehind
<1> HIDE DEF upper
<1>9. /\ upper \o <<c>> \in Seq(CleanLines) /\ Len(upper \o <<c>>) = Len(upper) + 1
      /\ \A i \in 1..Len(upper) : (upper \o <<c>>)[i] = upper[i]
      /\ (upper \o <<c>>)[Len(upper) + 1] = c
  BY <1>6, <1>7, <1>8, PutBehind
<1>10. Len(inner) \in Nat
  OBVIOUS
<1>11. 1 \in 1..Len(upper) /\ \A j \in 1..Len(inner) : 1 + j \in 1..Len(upper)
  BY <1>8, <1>10
<1>12. Len(upper) + 1 = Len(inner) + 2
  BY <1>8, <1>10
<1> QED BY <1>4, <1>8, <1>9, <1>11, <1>12 DEF upper, a, c

LocationLines(s) == [j \in 1..Len(s.locations) |-> LinesOfLocation(s.locations[j])]

LocationHead(l) == <<<<"location">>, l.path, Opens>>
ServerHead == <<<<"server">>, Opens>>

LEMMA LinesOfALocation ==
  ASSUME NEW l \in Locations, LocationIsRight(l)
  PROVE  /\ LinesOfLocation(l) \in Seq(CleanLines)
         /\ Len(LinesOfLocation(l)) = Len(l.directives) + 2
         /\ LinesOfLocation(l)[1] = LocationHead(l)
         /\ \A i \in 1..Len(l.directives) : LinesOfLocation(l)[1 + i] = Line(l.directives[i])
         /\ LinesOfLocation(l)[Len(l.directives) + 2] = <<Closes>>
<1> DEFINE head == <<<<"location">>, l.path>>
           inner == LinesOf(l.directives)
<1>1. l.directives \in Seq(Directives) /\ l.path \in Tokens
  BY WordsAreTokens DEF Locations
<1>2. \A d \in Range(l.directives) : DirectiveIsRight(d)
  <2>1. \A d \in Range(l.directives) : d \in Directives
    BY <1>1 DEF Range
  <2> QED BY <2>1, RightDirectives DEF LocationIsRight
<1>3. /\ inner \in Seq(CleanLines) /\ Len(inner) = Len(l.directives)
      /\ \A i \in 1..Len(l.directives) : inner[i] = Line(l.directives[i])
  BY <1>1, <1>2, LinesOfAreClean
<1>4. head \in CleanLines
  <2>1. <<>> \in CleanLines
    BY DEF CleanLines
  <2>2. <<"location">> \in Tokens /\ ~Contains(<<"location">>, "#")
    <3>1. "location" \in Symbols
      BY DEF Symbols
    <3> QED BY <3>1, SymbolIsPlain DEF IsPlain
  <2>3. Append(<<>>, <<"location">>) \in CleanLines
    BY <2>1, <2>2, CleanAppend
  <2>4. ~Contains(l.path, "#")
    BY DEF LocationIsRight, IsPlain
  <2>5. Append(Append(<<>>, <<"location">>), l.path) \in CleanLines
    BY <1>1, <2>3, <2>4, CleanAppend
  <2>6. Append(Append(<<>>, <<"location">>), l.path) = head
    BY OneMore
  <2> QED BY <2>5, <2>6
<1>5. LinesOfLocation(l) = Block(head, inner)
  BY DEF LinesOfLocation
<1>6. Append(head, Opens) = LocationHead(l)
  BY OneMore DEF LocationHead
<1> HIDE DEF head, inner
<1>7. /\ Block(head, inner) \in Seq(CleanLines)
      /\ Len(Block(head, inner)) = Len(inner) + 2
      /\ Block(head, inner)[1] = Append(head, Opens)
      /\ \A i \in 1..Len(inner) : Block(head, inner)[1 + i] = inner[i]
      /\ Block(head, inner)[Len(inner) + 2] = <<Closes>>
  BY <1>3, <1>4, BlockHasLines
<1>8. \A i \in 1..Len(l.directives) : Block(head, inner)[1 + i] = Line(l.directives[i])
  BY <1>3, <1>7
<1> QED BY <1>3, <1>5, <1>6, <1>7, <1>8

LEMMA LocationLinesAreClean ==
  ASSUME NEW s \in Servers, ServerIsRight(s)
  PROVE  LocationLines(s) \in Seq(Seq(CleanLines)) /\ Len(LocationLines(s)) = Len(s.locations)
<1>1. s.locations \in Seq(Locations)
  BY DEF Servers
<1>2. ASSUME NEW j \in 1..Len(s.locations)
      PROVE  LinesOfLocation(s.locations[j]) \in Seq(CleanLines)
  <2>1. s.locations[j] \in Locations /\ s.locations[j] \in Range(s.locations)
    BY <1>1 DEF Range
  <2> QED BY <2>1, LinesOfALocation DEF ServerIsRight
<1> QED BY <1>1, <1>2 DEF LocationLines

\* Where in a server the lines of its locations are.
LocationBegins(s, j) == Len(s.directives) + Reach(LocationLines(s), j - 1) + 2

LEMMA LinesOfAServer ==
  ASSUME NEW s \in Servers, ServerIsRight(s)
  PROVE  /\ LinesOfServer(s) \in Seq(CleanLines)
         /\ LinesOfServer(s)[1] = ServerHead
         /\ \A i \in 1..Len(s.directives) :
              LinesOfServer(s)[1 + i] = Line(s.directives[i])
         /\ \A j \in 1..Len(s.locations) :
              \A q \in 1..Len(LinesOfLocation(s.locations[j])) :
                LinesOfServer(s)[LocationBegins(s, j) + q - 1]
                  = LinesOfLocation(s.locations[j])[q]
         /\ Len(LinesOfServer(s)) = LocationBegins(s, Len(s.locations) + 1)
         /\ LinesOfServer(s)[LocationBegins(s, Len(s.locations) + 1)] = <<Closes>>
<1> DEFINE ds == s.directives
           lls == LocationLines(s)
           n == Len(s.locations)
           upper == LinesOf(ds)
           lower == FlattenSeq(lls)
           inner == upper \o lower
           head == <<<<"server">>>>
<1>1. ds \in Seq(Directives) /\ s.locations \in Seq(Locations) /\ n \in Nat
  BY DEF Servers
<1>2. \A d \in Range(ds) : DirectiveIsRight(d)
  <2>1. \A d \in Range(ds) : d \in Directives
    BY <1>1 DEF Range
  <2> QED BY <2>1, RightDirectives DEF ServerIsRight
<1>3. /\ upper \in Seq(CleanLines) /\ Len(upper) = Len(ds)
      /\ \A i \in 1..Len(ds) : upper[i] = Line(ds[i])
  BY <1>1, <1>2, LinesOfAreClean
<1>4. lls \in Seq(Seq(CleanLines)) /\ Len(lls) = n
  BY LocationLinesAreClean
<1>5. lower \in Seq(CleanLines) /\ lower = Upto(lls, n) /\ Len(lower) = Reach(lls, n)
  <2>1. lower \in Seq(CleanLines)
    BY <1>4, FlattenIsASequence
  <2>2. n \in 0..Len(lls)
    BY <1>1, <1>4
  <2>3. Upto(lls, n) = lower
    BY <1>4, <2>2, UptoTheNext
  <2> QED BY <2>1, <2>3 DEF Reach
<1>6. PiecesUpto(lls, n)
  BY <1>4, PiecesAreInPlace
<1>7. head \in CleanLines /\ Append(head, Opens) = ServerHead
  <2>1. <<>> \in CleanLines
    BY DEF CleanLines
  <2>2. <<"server">> \in Tokens /\ ~Contains(<<"server">>, "#")
    <3>1. "server" \in Symbols
      BY DEF Symbols
    <3> QED BY <3>1, SymbolIsPlain DEF IsPlain
  <2>3. Append(<<>>, <<"server">>) \in CleanLines
    BY <2>1, <2>2, CleanAppend
  <2>4. Append(<<>>, <<"server">>) = head
    OBVIOUS
  <2>5. Append(head, Opens) = ServerHead
    BY OneMore DEF ServerHead
  <2> QED BY <2>3, <2>4, <2>5
<1>8. LinesOfServer(s) = Block(head, inner)
  BY DEF LinesOfServer, LocationLines
<1> HIDE DEF head, upper, lower
<1>9. /\ inner \in Seq(CleanLines) /\ Len(inner) = Len(ds) + Reach(lls, n)
      /\ \A i \in 1..Len(ds) : inner[i] = upper[i]
      /\ \A i \in 1..Reach(lls, n) : inner[Len(ds) + i] = lower[i]
  BY <1>3, <1>5, PutBehind
<1> HIDE DEF inner
<1> DEFINE lines == LinesOfServer(s)
<1>10. /\ lines \in Seq(CleanLines) /\ Len(lines) = Len(inner) + 2
       /\ lines[1] = ServerHead
       /\ \A i \in 1..Len(inner) : lines[1 + i] = inner[i]
       /\ lines[Len(inner) + 2] = <<Closes>>
  <2>1. /\ Block(head, inner) \in Seq(CleanLines)
        /\ Len(Block(head, inner)) = Len(inner) + 2
        /\ Block(head, inner)[1] = Append(head, Opens)
        /\ \A i \in 1..Len(inner) : Block(head, inner)[1 + i] = inner[i]
        /\ Block(head, inner)[Len(inner) + 2] = <<Closes>>
    BY <1>7, <1>9, BlockHasLines
  <2>2. lines = Block(head, inner)
    BY <1>8
  <2> HIDE DEF lines
  <2> QED BY <1>7, <2>1, <2>2
<1> HIDE DEF lines
<1>11. Len(ds) \in Nat /\ Reach(lls, n) \in Nat
  <2>1. n \in 0..Len(lls)
    BY <1>1, <1>4
  <2> QED BY <1>1, <1>4, <2>1, UptoTheNext
<1>12. Len(inner) + 2 = LocationBegins(s, n + 1)
  <2>1. n + 1 - 1 = n
    BY <1>1
  <2> QED BY <1>9, <1>11, <2>1 DEF LocationBegins
<1>13. ASSUME NEW i \in 1..Len(ds) PROVE lines[1 + i] = Line(ds[i])
  <2>1. i \in 1..Len(inner)
    BY <1>9, <1>11
  <2> QED BY <1>3, <1>9, <1>10, <2>1
<1>14. ASSUME NEW j \in 1..n, NEW q \in 1..Len(LinesOfLocation(s.locations[j]))
       PROVE  lines[LocationBegins(s, j) + q - 1] = LinesOfLocation(s.locations[j])[q]
  <2> DEFINE r == Reach(lls, j - 1)
  <2>1. lls[j] = LinesOfLocation(s.locations[j]) /\ lls[j] \in Seq(CleanLines)
    <3>1. lls[j] = LinesOfLocation(s.locations[j])
      BY DEF LocationLines
    <3> QED BY <1>4, <3>1
  <2>2. /\ 0 <= r /\ Reach(lls, j) <= Reach(lls, n) /\ Reach(lls, j) = r + Len(lls[j])
        /\ \A m \in 1..Len(lls[j]) : Upto(lls, n)[r + m] = lls[j][m]
    BY <1>6 DEF PiecesUpto
  <2>3. r \in Nat
    <3>1. j - 1 \in 0..Len(lls)
      BY <1>1, <1>4
    <3> QED BY <1>4, <3>1, UptoTheNext
  <2> HIDE DEF r
  <2>4. Len(lls[j]) \in Nat /\ q \in 1..Len(lls[j])
    BY <2>1
  <2>5. r + q \in 1..Reach(lls, n)
    BY ONLY <1>11, <2>2, <2>3, <2>4
  <2>6. Len(ds) + (r + q) \in 1..Len(inner)
    BY ONLY <1>9, <1>11, <2>5
  <2>7. lines[1 + (Len(ds) + (r + q))] = lower[r + q]
    BY <1>9, <1>10, <2>5, <2>6
  <2>8. LocationBegins(s, j) + q - 1 = 1 + (Len(ds) + (r + q))
    <3>1. LocationBegins(s, j) = Len(ds) + r + 2
      BY DEF LocationBegins, r
    <3>2. q \in Nat
      BY <2>4
    <3>3. Len(ds) \in Nat
      BY <1>11
    <3> DEFINE a == Len(ds)
               b == LocationBegins(s, j)
    <3>4. a \in Nat /\ b = a + r + 2
      BY <3>1, <3>3
    <3> HIDE DEF a, b
    <3>5. b + q - 1 = 1 + (a + (r + q))
      BY ONLY <2>3, <3>2, <3>4
    <3> QED BY <3>5 DEF a, b
  <2>9. lower[r + q] = lls[j][q]
    BY <1>5, <2>2, <2>4
  <2> QED BY <2>1, <2>7, <2>8, <2>9
<1> QED BY <1>10, <1>12, <1>13, <1>14 DEF lines

\* A file such as the theorems suppose.
RightFile(w) == w \in Seq(Servers) /\ w # <<>> /\ \A s \in Range(w) : ServerIsRight(s)

ServerLines(w) == [k \in 1..Len(w) |-> LinesOfServer(w[k])]
FileLines(w) == FlattenSeq(ServerLines(w))
LineTokens(w) == [i \in 1..Len(FileLines(w)) |-> SplitAll(FileLines(w)[i])]
FileTokens(w) == FlattenSeq(LineTokens(w))

LEMMA RightServers ==
  ASSUME NEW w, RightFile(w), NEW k \in 1..Len(w)
  PROVE  w[k] \in Servers /\ ServerIsRight(w[k])
BY DEF RightFile, Range

LEMMA FileIsClean ==
  ASSUME NEW w, RightFile(w)
  PROVE  /\ ServerLines(w) \in Seq(Seq(CleanLines)) /\ Len(ServerLines(w)) = Len(w)
         /\ FileLines(w) \in Seq(CleanLines) /\ Len(w) \in Nat
         /\ LineTokens(w) \in Seq(Seq(Tokens)) /\ Len(LineTokens(w)) = Len(FileLines(w))
<1>1. Len(w) \in Nat
  BY DEF RightFile
<1>2. \A k \in 1..Len(w) : LinesOfServer(w[k]) \in Seq(CleanLines)
  BY RightServers, LinesOfAServer
<1>3. ServerLines(w) \in Seq(Seq(CleanLines)) /\ Len(ServerLines(w)) = Len(w)
  BY <1>1, <1>2 DEF ServerLines
<1>4. FileLines(w) \in Seq(CleanLines)
  BY <1>3, FlattenIsASequence DEF FileLines
<1>5. ASSUME NEW line \in CleanLines PROVE SplitAll(line) \in Seq(Tokens)
  <2> DEFINE parts == [j \in 1..Len(line) |-> Split(line[j])]
  <2>1. parts \in Seq(Seq(Tokens))
    BY SplitIsWords DEF CleanLines
  <2> HIDE DEF parts
  <2>2. FlattenSeq(parts) \in Seq(Tokens)
    BY <2>1, FlattenIsASequence
  <2> QED BY <2>2 DEF parts, SplitAll
<1>6. LineTokens(w) \in Seq(Seq(Tokens)) /\ Len(LineTokens(w)) = Len(FileLines(w))
  <2> DEFINE lines == FileLines(w)
             tokens == [i \in 1..Len(lines) |-> SplitAll(lines[i])]
  <2>1. Len(lines) \in Nat /\ \A i \in 1..Len(lines) : SplitAll(lines[i]) \in Seq(Tokens)
    BY <1>4, <1>5
  <2>2. LineTokens(w) = tokens
    BY DEF LineTokens
  <2> HIDE DEF lines
  <2>3. tokens \in Seq(Seq(Tokens)) /\ Len(tokens) = Len(lines)
    BY <2>1
  <2> QED BY <2>2, <2>3 DEF lines
<1> QED BY <1>1, <1>3, <1>4, <1>6

\* The tokens the parser gets when there is no mistake.
LEMMA TokensOfTheFile ==
  ASSUME NEW w, RightFile(w)
  PROVE  tokenize(LinesOfFile(w, NoMistake)) = FileTokens(w)
<1> DEFINE lines == FileLines(w)
           commented == [i \in 1..Len(lines) |-> lines[i] \o Comment]
<1>1. lines \in Seq(CleanLines) /\ Len(w) \in Nat
  BY FileIsClean
<1>2. LinesOfFile(w, NoMistake) = commented
  <2>1. NoMistake.kind = "none" /\ NoMistake.server = 0
    BY DEF NoMistake
  <2>2. [k \in 1..Len(w) |-> IF k = NoMistake.server THEN Spoilt(LinesOfServer(w[k]), NoMistake)
                             ELSE LinesOfServer(w[k])] = ServerLines(w)
    <3>1. \A k \in 1..Len(w) : k # NoMistake.server
      BY <2>1
    <3> QED BY <3>1 DEF ServerLines
  <2>3. (IF NoMistake.kind = "end" THEN NoMistake.server ELSE Len(w)) = Len(w)
    BY <2>1
  <2> QED BY <2>2, <2>3 DEF LinesOfFile, FileLines, Comment
<1> HIDE DEF lines
<1>3. Len(commented) = Len(lines) /\ \A i \in 1..Len(lines) : commented[i] = lines[i] \o Comment
  BY <1>1
<1> HIDE DEF commented
<1>4. ASSUME NEW i \in 1..Len(lines) PROVE UpToComment(commented[i]) = lines[i]
  <2>1. lines[i] \in CleanLines
    BY <1>1
  <2>2. UpToComment(lines[i] \o Comment) = lines[i]
    BY <2>1, CommentIsCut
  <2> QED BY <1>3, <2>2
<1>5. [i \in 1..Len(commented) |-> SplitAll(UpToComment(commented[i]))] = LineTokens(w)
  BY <1>3, <1>4 DEF LineTokens, lines
<1> QED BY <1>2, <1>5 DEF tokenize, FileTokens

\* Where the tokens of a line of a server begin.
At(w, k, m) == 1 + Reach(LineTokens(w), Reach(ServerLines(w), k - 1) + m - 1)

LEMMA LineIsInPlace ==
  ASSUME NEW w, RightFile(w), NEW k \in 1..Len(w), NEW m \in 1..Len(LinesOfServer(w[k]))
  PROVE  LET words == SplitAll(LinesOfServer(w[k])[m]) IN
         /\ At(w, k, m) \in Nat \ {0}
         /\ words \in Seq(Tokens)
         /\ At(w, k, m + 1) = At(w, k, m) + Len(words)
         /\ At(w, k, m + 1) <= Len(FileTokens(w)) + 1
         /\ \A i \in 1..Len(words) : FileTokens(w)[At(w, k, m) + i - 1] = words[i]
<1> DEFINE sl == ServerLines(w)
           lt == LineTokens(w)
           n == Len(w)
           r == Reach(sl, k - 1)
           i == r + m
           words == SplitAll(LinesOfServer(w[k])[m])
<1>1. /\ sl \in Seq(Seq(CleanLines)) /\ Len(sl) = n /\ n \in Nat
      /\ FileLines(w) = FlattenSeq(sl) /\ FileLines(w) \in Seq(CleanLines)
      /\ lt \in Seq(Seq(Tokens)) /\ Len(lt) = Len(FileLines(w))
  BY FileIsClean DEF FileLines
<1>2. sl[k] = LinesOfServer(w[k]) /\ sl[k] \in Seq(CleanLines)
  <2>1. sl[k] = LinesOfServer(w[k])
    BY DEF ServerLines
  <2> QED BY <1>1, <2>1
<1>3. FileLines(w) = Upto(sl, n) /\ Len(FileLines(w)) = Reach(sl, n)
  <2>1. n \in 0..Len(sl)
    BY <1>1
  <2>2. Upto(sl, n) = FlattenSeq(sl)
    BY <1>1, <2>1, UptoTheNext
  <2> QED BY <1>1, <2>2 DEF Reach
<1>4. /\ 0 <= r /\ Reach(sl, k) <= Reach(sl, n) /\ Reach(sl, k) = r + Len(sl[k])
      /\ Upto(sl, n)[r + m] = sl[k][m]
  <2>1. PiecesUpto(sl, n)
    BY <1>1, PiecesAreInPlace
  <2>2. m \in 1..Len(sl[k])
    BY <1>2
  <2> QED BY <2>1, <2>2 DEF PiecesUpto
<1>5. r \in Nat /\ Reach(sl, n) \in Nat
  <2>1. k - 1 \in 0..Len(sl) /\ n \in 0..Len(sl)
    BY <1>1
  <2> QED BY <1>1, <2>1, UptoTheNext
<1>6. m \in Nat /\ 1 <= m /\ m <= Len(sl[k]) /\ Len(sl[k]) \in Nat
  BY <1>2
<1> HIDE DEF sl, r
<1>7. i \in 1..Len(lt) /\ i \in Nat
  <2>1. Len(lt) = Reach(sl, n)
    BY <1>1, <1>3
  <2> QED BY ONLY <1>4, <1>5, <1>6, <2>1
<1>8. lt[i] = words
  <2>1. FileLines(w)[i] = LinesOfServer(w[k])[m]
    BY <1>2, <1>3, <1>4
  <2>2. lt[i] = SplitAll(FileLines(w)[i])
    BY <1>1, <1>7 DEF LineTokens
  <2> QED BY <2>1, <2>2
<1>9. At(w, k, m) = 1 + Reach(lt, i - 1)
  <2>1. At(w, k, m) = 1 + Reach(lt, r + m - 1)
    BY DEF At, sl, r
  <2>2. r + m - 1 = i - 1
    BY <1>5, <1>6
  <2> QED BY <2>1, <2>2
<1>10. At(w, k, m + 1) = 1 + Reach(lt, i)
  <2>1. r + (m + 1) - 1 = i
    BY <1>5, <1>6
  <2> QED BY <2>1 DEF At, sl, r
<1> HIDE DEF lt, i
<1>11. /\ 0 <= Reach(lt, i - 1) /\ Reach(lt, i) <= Reach(lt, Len(lt))
       /\ Reach(lt, i) = Reach(lt, i - 1) + Len(lt[i])
       /\ \A j \in 1..Len(lt[i]) : Upto(lt, Len(lt))[Reach(lt, i - 1) + j] = lt[i][j]
  <2>1. PiecesUpto(lt, Len(lt))
    BY <1>1, PiecesAreInPlace
  <2> QED BY <1>7, <2>1 DEF PiecesUpto
<1>12. Reach(lt, i - 1) \in Nat /\ Reach(lt, Len(lt)) \in Nat
  <2>1. i - 1 \in 0..Len(lt) /\ Len(lt) \in 0..Len(lt)
    BY <1>7
  <2> QED BY <1>1, <2>1, UptoTheNext
<1>13. Upto(lt, Len(lt)) = FileTokens(w) /\ Len(FileTokens(w)) = Reach(lt, Len(lt))
  <2>1. Len(lt) \in 0..Len(lt)
    BY <1>1, <1>7
  <2>2. Upto(lt, Len(lt)) = FlattenSeq(lt)
    BY <1>1, <2>1, UptoTheNext
  <2> QED BY <2>2 DEF FileTokens, lt, Reach
<1>14. words \in Seq(Tokens)
  BY <1>1, <1>7, <1>8
<1> HIDE DEF words
<1>15. Len(words) \in Nat
  BY <1>14
<1>16. At(w, k, m) \in Nat \ {0}
  BY <1>9, <1>12
<1>17. At(w, k, m + 1) = At(w, k, m) + Len(words)
  BY <1>8, <1>9, <1>10, <1>11, <1>12, <1>15
<1>18. At(w, k, m + 1) <= Len(FileTokens(w)) + 1
  <2>1. Reach(lt, i) \in Nat
    BY <1>8, <1>11, <1>12, <1>15
  <2> QED BY <1>10, <1>11, <1>12, <1>13, <2>1
<1>19. ASSUME NEW j \in 1..Len(words)
       PROVE  FileTokens(w)[At(w, k, m) + j - 1] = words[j]
  <2>1. At(w, k, m) + j - 1 = Reach(lt, i - 1) + j
    BY <1>9, <1>12, <1>15
  <2> QED BY <1>8, <1>11, <1>13, <2>1
<1> QED BY <1>14, <1>16, <1>17, <1>18, <1>19 DEF words

LEMMA ServersFollow ==
  ASSUME NEW w, RightFile(w)
  PROVE  /\ At(w, 1, 1) = 1
         /\ At(w, Len(w) + 1, 1) = Len(FileTokens(w)) + 1
         /\ \A k \in 1..Len(w) : At(w, k, Len(LinesOfServer(w[k])) + 1) = At(w, k + 1, 1)
<1> DEFINE sl == ServerLines(w)
           lt == LineTokens(w)
           n == Len(w)
<1>1. /\ sl \in Seq(Seq(CleanLines)) /\ Len(sl) = n /\ n \in Nat
      /\ FileLines(w) = FlattenSeq(sl)
      /\ lt \in Seq(Seq(Tokens)) /\ Len(lt) = Len(FileLines(w))
  BY FileIsClean DEF FileLines
<1>2. At(w, 1, 1) = 1
  <2>1. Reach(sl, 0) = 0 /\ Reach(lt, 0) = 0
    <3>1. 0 \in 0..Len(sl) /\ 0 \in 0..Len(lt)
      BY <1>1
    <3> QED BY <1>1, <3>1, UptoTheNext
  <2>2. At(w, 1, 1) = 1 + Reach(lt, Reach(sl, 1 - 1) + 1 - 1)
    BY DEF At
  <2> HIDE DEF sl, lt
  <2>3. 1 - 1 = 0 /\ Reach(sl, 0) + 1 - 1 = 0
    BY <2>1
  <2> QED BY <2>1, <2>2, <2>3
<1>3. At(w, n + 1, 1) = Len(FileTokens(w)) + 1
  <2>1. n \in 0..Len(sl) /\ Len(lt) \in 0..Len(lt)
    BY <1>1
  <2>2. Upto(sl, n) = FileLines(w) /\ Upto(lt, Len(lt)) = FlattenSeq(lt)
    BY <1>1, <2>1, UptoTheNext
  <2>3. Reach(sl, n) = Len(lt) /\ Reach(lt, Len(lt)) = Len(FileTokens(w))
    BY <1>1, <2>2 DEF Reach, FileTokens
  <2>4. Reach(sl, n) \in Nat /\ Reach(lt, Len(lt)) \in Nat
    BY <1>1, <2>1, UptoTheNext
  <2>5. At(w, n + 1, 1) = 1 + Reach(lt, Reach(sl, n + 1 - 1) + 1 - 1)
    BY DEF At
  <2> HIDE DEF sl, lt, n
  <2>6. n + 1 - 1 = n /\ Reach(sl, n) + 1 - 1 = Reach(sl, n)
    BY <1>1, <2>4
  <2> QED BY <2>3, <2>4, <2>5, <2>6
<1>4. ASSUME NEW k \in 1..n
      PROVE  At(w, k, Len(LinesOfServer(w[k])) + 1) = At(w, k + 1, 1)
  <2>1. sl[k] = LinesOfServer(w[k])
    BY DEF ServerLines
  <2>2. Reach(sl, k) = Reach(sl, k - 1) + Len(sl[k])
    <3>1. PiecesUpto(sl, n)
      BY <1>1, PiecesAreInPlace
    <3> QED BY <3>1 DEF PiecesUpto
  <2>3. Reach(sl, k) \in Nat /\ Reach(sl, k - 1) \in Nat
    <3>1. k \in 0..Len(sl) /\ k - 1 \in 0..Len(sl)
      BY <1>1
    <3> QED BY <1>1, <3>1, UptoTheNext
  <2>4. Len(sl[k]) \in Nat
    BY <1>1
  <2>5. At(w, k, Len(sl[k]) + 1) = 1 + Reach(lt, Reach(sl, k - 1) + (Len(sl[k]) + 1) - 1)
    BY DEF At
  <2>6. At(w, k + 1, 1) = 1 + Reach(lt, Reach(sl, k + 1 - 1) + 1 - 1)
    BY DEF At
  <2> HIDE DEF sl, lt, n
  <2>7. /\ Reach(sl, k - 1) + (Len(sl[k]) + 1) - 1 = Reach(sl, k)
        /\ k + 1 - 1 = k /\ Reach(sl, k) + 1 - 1 = Reach(sl, k)
    BY <2>2, <2>3, <2>4
  <2> QED BY <2>1, <2>5, <2>6, <2>7
<1> QED BY <1>2, <1>3, <1>4

----------------------------------------------------------------------------
(* What one more directive says.                                           *)

\* The greatest of some of the first numbers is one of them.
LEMMA GreatestIsOne ==
  ASSUME NEW n \in Nat, NEW I \in SUBSET (1..n), I # {}
  PROVE  Max(I) \in I /\ \A i \in I : i <= Max(I)
<1> DEFINE T == {m \in Nat : \A J \in SUBSET (1..m) :
                               J # {} => \E x \in J : \A y \in J : x >= y}
<1>1. 0 \in T
  <2>1. 1..0 = {}
    OBVIOUS
  <2> QED BY <2>1
<1>2. ASSUME NEW m \in Nat, m \in T PROVE m + 1 \in T
  <2> SUFFICES ASSUME NEW J \in SUBSET (1..(m + 1)), J # {}
               PROVE  \E x \in J : \A y \in J : x >= y
    OBVIOUS
  <2>1. CASE m + 1 \in J
    <3>1. \A y \in J : m + 1 >= y
      OBVIOUS
    <3> QED BY <2>1, <3>1
  <2>2. CASE m + 1 \notin J
    <3>1. J \in SUBSET (1..m)
      BY <2>2
    <3> QED BY <1>2, <3>1
  <2> QED BY <2>1, <2>2
<1>3. \A m \in Nat : m \in T
  <2> HIDE DEF T
  <2> QED BY ONLY <1>1, <1>2, AllNaturals
<1>4. n \in T
  <2> HIDE DEF T
  <2> QED BY <1>3
<1>5. \E x \in I : \A y \in I : x >= y
  BY <1>4
<1>6. Max(I) \in I /\ \A y \in I : Max(I) >= y
  BY <1>5 DEF Max
<1> QED BY <1>6

\* It is the only one that is.
LEMMA GreatestIs ==
  ASSUME NEW n \in Nat, NEW I \in SUBSET (1..n), NEW m \in I, \A i \in I : i <= m
  PROVE  Max(I) = m
<1>1. Max(I) \in I /\ \A i \in I : i <= Max(I)
  BY GreatestIsOne
<1>2. Max(I) <= m /\ m <= Max(I)
  BY <1>1
<1>3. Max(I) \in Nat /\ m \in Nat
  <2>1. I \subseteq Nat
    OBVIOUS
  <2> QED BY <1>1, <2>1
<1> QED BY ONLY <1>2, <1>3

LEMMA OneMoreNamed ==
  ASSUME NEW ds \in Seq(Directives), NEW d \in Directives, NEW name
  PROVE  /\ Named(Append(ds, d), name) =
              IF d.name = name THEN Named(ds, name) \cup {Len(ds) + 1} ELSE Named(ds, name)
         /\ \A i \in 1..Len(ds) : Append(ds, d)[i] = ds[i]
         /\ Append(ds, d)[Len(ds) + 1] = d /\ Len(Append(ds, d)) = Len(ds) + 1
         /\ Append(ds, d) \in Seq(Directives)
<1> DEFINE more == Append(ds, d)
<1>1. /\ \A i \in 1..Len(ds) : more[i] = ds[i]
      /\ more[Len(ds) + 1] = d /\ Len(more) = Len(ds) + 1 /\ Len(ds) \in Nat
      /\ more \in Seq(Directives)
  OBVIOUS
<1> HIDE DEF more
<1>2. Named(more, name) =
        IF d.name = name THEN Named(ds, name) \cup {Len(ds) + 1} ELSE Named(ds, name)
  <2>1. ASSUME NEW i
        PROVE  i \in Named(more, name) <=>
                 i \in Named(ds, name) \/ (i = Len(ds) + 1 /\ d.name = name)
    <3>1. i \in 1..Len(more) <=> i \in 1..Len(ds) \/ i = Len(ds) + 1
      BY <1>1
    <3>2. CASE i \in 1..Len(ds)
      <4>1. i # Len(ds) + 1 /\ more[i] = ds[i]
        BY <1>1, <3>2
      <4> QED BY <3>1, <3>2, <4>1 DEF Named
    <3>3. CASE i = Len(ds) + 1
      <4>1. i \notin 1..Len(ds) /\ more[i] = d
        BY <1>1, <3>3
      <4> QED BY <3>1, <3>3, <4>1 DEF Named
    <3>4. CASE i \notin 1..Len(more)
      BY <3>1, <3>4 DEF Named
    <3> QED BY <3>1, <3>2, <3>3, <3>4
  <2> QED BY <2>1
<1> QED BY <1>1, <1>2 DEF more

LEMMA OneMoreFinal ==
  ASSUME NEW ds \in Seq(Directives), NEW d \in Directives, NEW name
  PROVE  Final(Append(ds, d), name) = IF d.name = name THEN d.args ELSE Final(ds, name)
<1> DEFINE more == Append(ds, d)
           n == Len(ds)
<1>1. /\ Named(more, name) =
           IF d.name = name THEN Named(ds, name) \cup {n + 1} ELSE Named(ds, name)
      /\ \A i \in 1..n : more[i] = ds[i]
      /\ more[n + 1] = d
  BY OneMoreNamed
<1>2. n \in Nat /\ Named(ds, name) \in SUBSET (1..n)
  BY DEF Named
<1> HIDE DEF more, n
<1>3. CASE d.name = name
  <2> DEFINE I == Named(ds, name) \cup {n + 1}
  <2>1. I \in SUBSET (1..(n + 1)) /\ n + 1 \in I /\ n + 1 \in Nat
    BY <1>2
  <2>2. \A i \in I : i <= n + 1
    BY <1>2
  <2> HIDE DEF I
  <2>3. Max(I) = n + 1
    BY <2>1, <2>2, GreatestIs
  <2>4. Named(more, name) = I
    BY <1>1, <1>3 DEF I
  <2>5. Named(more, name) # {}
    BY <2>1, <2>4
  <2>6. Final(more, name) = more[Max(Named(more, name))].args
    BY <2>5 DEF Final
  <2> QED BY <1>1, <1>3, <2>3, <2>4, <2>6 DEF more
<1>4. CASE d.name # name
  <2>1. Named(more, name) = Named(ds, name)
    BY <1>1, <1>4
  <2>2. ASSUME Named(ds, name) # {}
        PROVE  more[Max(Named(ds, name))] = ds[Max(Named(ds, name))]
    <3>1. Max(Named(ds, name)) \in Named(ds, name)
      BY <1>2, <2>2, GreatestIsOne
    <3>2. Max(Named(ds, name)) \in 1..n
      BY <1>2, <3>1
    <3> QED BY <1>1, <3>2
  <2>3. Final(more, name) =
          IF Named(ds, name) = {} THEN <<>> ELSE more[Max(Named(ds, name))].args
    BY <2>1 DEF Final
  <2>4. Final(ds, name) =
          IF Named(ds, name) = {} THEN <<>> ELSE ds[Max(Named(ds, name))].args
    BY DEF Final
  <2> QED BY <1>4, <2>2, <2>3, <2>4 DEF more
<1> QED BY <1>3, <1>4 DEF more

\* Values are those of the last directive, lists grow.
LEMMA OneMoreSays ==
  ASSUME NEW ds \in Seq(Directives), NEW d \in Directives, NEW name
  PROVE  /\ Value(Append(ds, d), name) = IF d.name = name THEN d.args[1] ELSE Value(ds, name)
         /\ All(Append(ds, d), name) =
              IF d.name = name THEN All(ds, name) \o d.args ELSE All(ds, name)
         /\ All(ds, name) \in Seq(Tokens)
<1> DEFINE more == Append(ds, d)
           n == Len(ds)
           part(s, i) == IF i \in Named(s, name) THEN s[i].args ELSE <<>>
           parts == [i \in 1..n |-> part(ds, i)]
           next == IF d.name = name THEN d.args ELSE <<>>
<1>1. d.args # <<>> /\ d.args \in Seq(Tokens)
  BY ArgumentsAreTokens
<1>2. Value(more, name) = IF d.name = name THEN d.args[1] ELSE Value(ds, name)
  BY <1>1, OneMoreFinal DEF Value
<1>3. /\ Named(more, name) =
           IF d.name = name THEN Named(ds, name) \cup {n + 1} ELSE Named(ds, name)
      /\ \A i \in 1..n : more[i] = ds[i]
      /\ more[n + 1] = d /\ Len(more) = n + 1
  BY OneMoreNamed
<1>4. n \in Nat /\ Named(ds, name) \in SUBSET (1..n)
  BY DEF Named
<1>5. <<>> \in Seq(Tokens) /\ next \in Seq(Tokens)
  BY <1>1
<1>6. \A i \in 1..n : part(ds, i) \in Seq(Tokens)
  <2>1. \A i \in 1..n : ds[i] \in Directives
    OBVIOUS
  <2> QED BY <1>5, <2>1, ArgumentsAreTokens
<1>7. parts \in Seq(Seq(Tokens))
  <2> HIDE DEF part
  <2> QED BY <1>4, <1>6
<1>8. All(ds, name) = FlattenSeq(parts)
  BY DEF All
<1>9. All(more, name) = FlattenSeq([i \in 1..Len(more) |-> part(more, i)])
  BY DEF All
<1> HIDE DEF more, n
<1>10. \A i \in 1..n : part(more, i) = part(ds, i)
  <2>1. \A i \in 1..n : i # n + 1
    BY <1>4
  <2> QED BY <1>3, <2>1
<1>11. part(more, n + 1) = next
  <2>1. n + 1 \notin Named(ds, name)
    BY <1>4
  <2> QED BY <1>3, <2>1
<1> HIDE DEF part, next
<1>12. [i \in 1..Len(more) |-> part(more, i)] = Append(parts, next)
  <2>1. [i \in 1..(n + 1) |-> part(more, i)] = Append(parts, next)
    BY <1>4, <1>7, <1>10, <1>11
  <2> QED BY <1>3, <2>1
<1> HIDE DEF parts
<1>13. All(more, name) = All(ds, name) \o next
  BY <1>5, <1>7, <1>8, <1>9, <1>12, FlattenAppend
<1>14. All(ds, name) \in Seq(Tokens)
  BY <1>7, <1>8, FlattenIsASequence
<1>15. All(ds, name) \o <<>> = All(ds, name)
  BY <1>14
<1> QED BY <1>2, <1>13, <1>14, <1>15 DEF more, next

\* The directives that give a page to a code.
Codes(d) == {atoi(word) : word \in Range(Front(d.args))}
PagesFor(ds, code) == {i \in Named(ds, "error_page") : code \in Codes(ds[i])}
PagesCodes(ds) == UNION {Codes(ds[i]) : i \in Named(ds, "error_page")}

LEMMA PagesAre ==
  ASSUME NEW ds
  PROVE  /\ SaidPages(ds) = [code \in PagesCodes(ds) |-> Last(ds[Max(PagesFor(ds, code))].args)]
         /\ \A code : code \in PagesCodes(ds) <=> PagesFor(ds, code) # {}
<1>1. SaidPages(ds) = [code \in PagesCodes(ds) |-> Last(ds[Max(PagesFor(ds, code))].args)]
  BY DEF SaidPages, PagesCodes, PagesFor, Codes
<1>2. ASSUME NEW code PROVE code \in PagesCodes(ds) <=> PagesFor(ds, code) # {}
  BY DEF PagesCodes, PagesFor
<1> QED BY <1>1, <1>2

LEMMA OneMorePage ==
  ASSUME NEW ds \in Seq(Directives), NEW d \in Directives
  PROVE  SaidPages(Append(ds, d)) =
           IF d.name = "error_page"
             THEN Over([code \in Codes(d) |-> Last(d.args)], SaidPages(ds))
             ELSE SaidPages(ds)
<1> DEFINE more == Append(ds, d)
           n == Len(ds)
           new == [code \in Codes(d) |-> Last(d.args)]
           said == SaidPages(ds)
           saidMore == SaidPages(more)
<1>1. /\ Named(more, "error_page") =
           IF d.name = "error_page" THEN Named(ds, "error_page") \cup {n + 1}
                                    ELSE Named(ds, "error_page")
      /\ \A i \in 1..n : more[i] = ds[i]
      /\ more[n + 1] = d
  BY OneMoreNamed
<1>2. n \in Nat /\ Named(ds, "error_page") \in SUBSET (1..n)
  BY DEF Named
<1>3. /\ said = [code \in PagesCodes(ds) |-> Last(ds[Max(PagesFor(ds, code))].args)]
      /\ \A code : code \in PagesCodes(ds) <=> PagesFor(ds, code) # {}
      /\ saidMore = [code \in PagesCodes(more) |-> Last(more[Max(PagesFor(more, code))].args)]
      /\ \A code : code \in PagesCodes(more) <=> PagesFor(more, code) # {}
  BY PagesAre
<1>4. \A code : PagesFor(ds, code) \in SUBSET (1..n)
  BY <1>2 DEF PagesFor
<1>5. ASSUME NEW code
      PROVE  PagesFor(more, code) =
               IF d.name = "error_page" /\ code \in Codes(d)
                 THEN PagesFor(ds, code) \cup {n + 1} ELSE PagesFor(ds, code)
  <2> HIDE DEF more, n
  <2>1. ASSUME NEW i
        PROVE  i \in PagesFor(more, code) <=>
                 \/ i \in PagesFor(ds, code)
                 \/ i = n + 1 /\ d.name = "error_page" /\ code \in Codes(d)
    <3>1. CASE i = n + 1
      <4>1. i \notin Named(ds, "error_page") /\ more[i] = d
        BY <1>1, <1>2, <3>1
      <4> QED BY <1>1, <3>1, <4>1 DEF PagesFor
    <3>2. CASE i # n + 1
      <4>1. i \in Named(more, "error_page") <=> i \in Named(ds, "error_page")
        BY <1>1, <3>2
      <4>2. i \in Named(ds, "error_page") => more[i] = ds[i]
        BY <1>1, <1>2
      <4> QED BY <3>2, <4>1, <4>2 DEF PagesFor
    <3> QED BY <3>1, <3>2
  <2> QED BY <2>1
<1> HIDE DEF more, n
<1>6. ASSUME NEW code, PagesFor(more, code) = PagesFor(ds, code), PagesFor(ds, code) # {}
      PROVE  Last(more[Max(PagesFor(more, code))].args)
               = Last(ds[Max(PagesFor(ds, code))].args)
  <2>1. Max(PagesFor(ds, code)) \in PagesFor(ds, code)
    BY <1>2, <1>4, <1>6, GreatestIsOne
  <2>2. Max(PagesFor(ds, code)) \in 1..n
    BY <1>4, <2>1
  <2> QED BY <1>1, <1>6, <2>2
<1>7. ASSUME NEW code, PagesFor(more, code) = PagesFor(ds, code) \cup {n + 1}
      PROVE  more[Max(PagesFor(more, code))] = d
  <2>1. /\ PagesFor(more, code) \in SUBSET (1..(n + 1))
        /\ n + 1 \in PagesFor(more, code) /\ n + 1 \in Nat
        /\ \A i \in PagesFor(more, code) : i <= n + 1
    BY <1>2, <1>4, <1>7
  <2>2. Max(PagesFor(more, code)) = n + 1
    BY <2>1, GreatestIs
  <2> QED BY <1>1, <2>2
<1> HIDE DEF said, saidMore
<1>8. CASE d.name = "error_page"
  <2> DEFINE both == Over(new, said)
  <2>1. both = [code \in Codes(d) \cup PagesCodes(ds) |->
                  IF code \in Codes(d) THEN Last(d.args) ELSE said[code]]
    BY <1>3 DEF Over
  <2>2. PagesCodes(more) = Codes(d) \cup PagesCodes(ds)
    <3>1. ASSUME NEW code
          PROVE  code \in PagesCodes(more) <=> code \in Codes(d) \/ code \in PagesCodes(ds)
      BY <1>3, <1>5, <1>8
    <3> QED BY <3>1
  <2>3. ASSUME NEW code \in PagesCodes(more)
        PROVE  Last(more[Max(PagesFor(more, code))].args) =
                 IF code \in Codes(d) THEN Last(d.args) ELSE said[code]
    <3>1. CASE code \in Codes(d)
      <4>1. more[Max(PagesFor(more, code))] = d
        BY <1>5, <1>7, <1>8, <3>1
      <4> QED BY <3>1, <4>1
    <3>2. CASE code \notin Codes(d)
      <4>1. PagesFor(more, code) = PagesFor(ds, code)
        BY <1>5, <3>2
      <4>2. PagesFor(ds, code) # {} /\ code \in PagesCodes(ds)
        BY <1>3, <4>1
      <4>3. said[code] = Last(ds[Max(PagesFor(ds, code))].args)
        BY <1>3, <4>2
      <4> QED BY <1>6, <3>2, <4>1, <4>2, <4>3
    <3> QED BY <3>1, <3>2
  <2>4. saidMore = both
    <3> HIDE DEF both
    <3> QED BY <1>3, <2>1, <2>2, <2>3
  <2> QED BY <1>8, <2>4 DEF saidMore, said, more
<1>9. CASE d.name # "error_page"
  <2>1. \A code : PagesFor(more, code) = PagesFor(ds, code)
    BY <1>5, <1>9
  <2>2. PagesCodes(more) = PagesCodes(ds)
    <3>1. \A code : code \in PagesCodes(more) <=> code \in PagesCodes(ds)
      BY <1>3, <2>1
    <3> QED BY <3>1
  <2>3. ASSUME NEW code \in PagesCodes(ds)
        PROVE  Last(more[Max(PagesFor(more, code))].args)
                 = Last(ds[Max(PagesFor(ds, code))].args)
    BY <1>3, <1>6, <2>1
  <2>4. saidMore = said
    BY <1>3, <2>2, <2>3
  <2> QED BY <1>9, <2>4 DEF saidMore, said, more
<1> QED BY <1>8, <1>9

\* The places where a word begins a pair.
BeginsAt(words, word) == {i \in 1..Len(words) : i % 2 = 1 /\ words[i] = word}
Begun(words) == {words[i] : i \in {j \in 1..Len(words) : j % 2 = 1}}

LEMMA PairsAre ==
  ASSUME NEW words
  PROVE  /\ SaidPairs(words) = [word \in Begun(words) |-> words[1 + Max(BeginsAt(words, word))]]
         /\ \A word : word \in Begun(words) <=> BeginsAt(words, word) # {}
<1>1. SaidPairs(words) = [word \in Begun(words) |-> words[1 + Max(BeginsAt(words, word))]]
  BY DEF SaidPairs, Begun, BeginsAt
<1>2. ASSUME NEW word PROVE word \in Begun(words) <=> BeginsAt(words, word) # {}
  BY DEF Begun, BeginsAt
<1> QED BY <1>1, <1>2

LEMMA EvenAndOdd ==
  /\ \A m, i \in Nat : m % 2 = 0 => (m + i) % 2 = i % 2
  /\ \A m \in Nat : m % 2 = 0 \/ m % 2 = 1
  /\ \A m, i \in Nat : m % 2 = 0 /\ i % 2 = 1 /\ i <= m => i + 1 <= m
OBVIOUS

\* The pairs behind others are put in their map.
LEMMA PairsBehind ==
  ASSUME NEW S, NEW a \in Seq(S), NEW b \in Seq(S), Len(a) % 2 = 0, Len(b) % 2 = 0
  PROVE  SaidPairs(a \o b) = Over(SaidPairs(b), SaidPairs(a))
<1> DEFINE c == a \o b
           n == Len(a)
           m == Len(b)
           sa == SaidPairs(a)
           sb == SaidPairs(b)
           sc == SaidPairs(c)
           value(s, word) == s[1 + Max(BeginsAt(s, word))]
<1>1. /\ n \in Nat /\ m \in Nat /\ Len(c) = n + m
      /\ \A i \in 1..n : c[i] = a[i]
      /\ \A j \in 1..m : c[n + j] = b[j]
  BY PutBehind
<1> HIDE DEF c
<1>2. /\ sa = [word \in Begun(a) |-> value(a, word)]
      /\ sb = [word \in Begun(b) |-> value(b, word)]
      /\ sc = [word \in Begun(c) |-> value(c, word)]
  BY PairsAre
<1>3. /\ \A word : word \in Begun(a) <=> BeginsAt(a, word) # {}
      /\ \A word : word \in Begun(b) <=> BeginsAt(b, word) # {}
      /\ \A word : word \in Begun(c) <=> BeginsAt(c, word) # {}
  BY PairsAre
<1>4. \A word : BeginsAt(a, word) \in SUBSET (1..n) /\ BeginsAt(b, word) \in SUBSET (1..m)
  BY DEF BeginsAt
<1>5. ASSUME NEW word, NEW i \in 1..n
      PROVE  i \in BeginsAt(c, word) <=> i \in BeginsAt(a, word)
  <2>1. i \in 1..Len(c)
    BY <1>1
  <2> QED BY <1>1, <2>1 DEF BeginsAt
<1>6. ASSUME NEW word, NEW j \in 1..m
      PROVE  n + j \in BeginsAt(c, word) <=> j \in BeginsAt(b, word)
  <2>1. n + j \in 1..Len(c) /\ j \in Nat
    BY <1>1
  <2>2. (n + j) % 2 = j % 2
    BY <1>1, <2>1, EvenAndOdd
  <2> QED BY <1>1, <2>1, <2>2 DEF BeginsAt
<1>7. ASSUME NEW word, NEW i \in BeginsAt(c, word)
      PROVE  i \in 1..n \/ \E j \in 1..m : i = n + j
  <2>1. i \in 1..Len(c)
    BY DEF BeginsAt
  <2>2. CASE i > n
    <3>1. i - n \in 1..m /\ i = n + (i - n)
      BY <1>1, <2>1, <2>2
    <3> QED BY <3>1
  <2>3. CASE ~(i > n)
    BY <1>1, <2>1, <2>3
  <2> QED BY <2>2, <2>3
<1>8. ASSUME NEW word, BeginsAt(b, word) # {}
      PROVE  BeginsAt(c, word) # {} /\ value(c, word) = value(b, word)
  <2> DEFINE last == Max(BeginsAt(b, word))
  <2>1. last \in BeginsAt(b, word) /\ \A j \in BeginsAt(b, word) : j <= last
    BY <1>1, <1>4, <1>8, GreatestIsOne
  <2> HIDE DEF last
  <2>2. last \in 1..m /\ last \in Nat /\ last % 2 = 1
    BY <1>4, <2>1 DEF BeginsAt
  <2>3. n + last \in BeginsAt(c, word)
    BY <1>6, <2>1, <2>2
  <2>4. ASSUME NEW i \in BeginsAt(c, word) PROVE i <= n + last
    <3>1. CASE i \in 1..n
      BY <1>1, <2>2, <3>1
    <3>2. CASE \E j \in 1..m : i = n + j
      <4>1. PICK j \in 1..m : i = n + j
        BY <3>2
      <4>2. j \in BeginsAt(b, word)
        BY <1>6, <2>4, <4>1
      <4>3. j <= last /\ j \in Nat
        BY <1>1, <2>1, <4>2
      <4> QED BY <1>1, <2>2, <4>1, <4>3
    <3> QED BY <1>7, <3>1, <3>2
  <2>5. Max(BeginsAt(c, word)) = n + last
    <3>1. BeginsAt(c, word) \in SUBSET (1..(n + m)) /\ n + m \in Nat
      BY <1>1 DEF BeginsAt
    <3> QED BY <2>3, <2>4, <3>1, GreatestIs
  <2>6. last + 1 \in 1..m
    <3>1. last <= m
      BY <1>1, <2>2
    <3>2. last + 1 <= m
      BY <1>1, <2>2, <3>1, EvenAndOdd
    <3> QED BY <1>1, <2>2, <3>2
  <2>7. c[n + (last + 1)] = b[last + 1]
    BY <1>1, <2>6
  <2>8. 1 + (n + last) = n + (last + 1) /\ 1 + last = last + 1
    BY <1>1, <2>2
  <2> QED BY <2>3, <2>5, <2>7, <2>8 DEF last
<1>9. ASSUME NEW word, BeginsAt(b, word) = {}
      PROVE  BeginsAt(c, word) = BeginsAt(a, word)
  <2>1. ASSUME NEW i PROVE i \in BeginsAt(c, word) <=> i \in BeginsAt(a, word)
    <3>1. CASE i \in 1..n
      BY <1>5, <3>1
    <3>2. CASE i \notin 1..n
      <4>1. i \notin BeginsAt(a, word)
        BY <1>4, <3>2
      <4>2. ASSUME i \in BeginsAt(c, word) PROVE FALSE
        <5>1. PICK j \in 1..m : i = n + j
          BY <1>7, <3>2, <4>2
        <5>2. j \in BeginsAt(b, word)
          BY <1>6, <4>2, <5>1
        <5> QED BY <1>9, <5>2
      <4> QED BY <4>1, <4>2
    <3> QED BY <3>1, <3>2
  <2> QED BY <2>1
<1>10. ASSUME NEW word, BeginsAt(b, word) = {}, BeginsAt(a, word) # {}
       PROVE  value(c, word) = value(a, word)
  <2> DEFINE last == Max(BeginsAt(a, word))
  <2>1. last \in BeginsAt(a, word)
    BY <1>1, <1>4, <1>10, GreatestIsOne
  <2>2. BeginsAt(c, word) = BeginsAt(a, word)
    BY <1>9, <1>10
  <2> HIDE DEF last
  <2>3. last \in 1..n /\ last \in Nat /\ last % 2 = 1
    BY <1>4, <2>1 DEF BeginsAt
  <2>4. 1 + last \in 1..n
    <3>1. last <= n
      BY <1>1, <2>3
    <3>2. last + 1 <= n
      BY <1>1, <2>3, <3>1, EvenAndOdd
    <3> QED BY <1>1, <2>3, <3>2
  <2> QED BY <1>1, <2>2, <2>4 DEF last
<1> HIDE DEF value
<1>11. Begun(c) = Begun(b) \cup Begun(a)
  <2>1. ASSUME NEW word PROVE word \in Begun(c) <=> word \in Begun(b) \/ word \in Begun(a)
    BY <1>3, <1>8, <1>9
  <2> QED BY <2>1
<1>12. ASSUME NEW word \in Begun(c)
       PROVE  value(c, word) = IF word \in Begun(b) THEN value(b, word) ELSE value(a, word)
  BY <1>3, <1>8, <1>9, <1>10
<1>13. Over(sb, sa) =
         [word \in Begun(b) \cup Begun(a) |->
            IF word \in Begun(b) THEN value(b, word) ELSE value(a, word)]
  <2> HIDE DEF sa, sb
  <2>1. DOMAIN sb = Begun(b) /\ DOMAIN sa = Begun(a)
    BY <1>2
  <2>2. \A word \in Begun(b) \cup Begun(a) :
          (IF word \in Begun(b) THEN sb[word] ELSE sa[word])
            = IF word \in Begun(b) THEN value(b, word) ELSE value(a, word)
    BY <1>2
  <2> QED BY <2>1, <2>2 DEF Over
<1> HIDE DEF sc
<1>14. sc = Over(sb, sa)
  BY <1>2, <1>11, <1>12, <1>13
<1> QED BY <1>14 DEF sc, c

LEMMA NoPairs == SaidPairs(<<>>) = <<>>
<1>1. Begun(<<>>) = {}
  BY DEF Begun
<1>2. SaidPairs(<<>>) = [word \in {} |-> <<>>[1 + Max(BeginsAt(<<>>, word))]]
  BY <1>1, PairsAre
<1> QED BY <1>2

LEMMA OnePair ==
  ASSUME NEW x, NEW y
  PROVE  SaidPairs(<<x, y>>) = [word \in {x} |-> y]
<1> DEFINE words == <<x, y>>
<1>1. Len(words) = 2
  OBVIOUS
<1>2. words[1] = x /\ words[2] = y
  OBVIOUS
<1> HIDE DEF words
<1>3. {j \in 1..Len(words) : j % 2 = 1} = {1}
  BY ONLY <1>1
<1>4. Begun(words) = {x}
  BY <1>2, <1>3 DEF Begun
<1>5. BeginsAt(words, x) = {1}
  <2>1. BeginsAt(words, x) = {i \in {j \in 1..Len(words) : j % 2 = 1} : words[i] = x}
    BY DEF BeginsAt
  <2> QED BY <1>2, <1>3, <2>1
<1>6. Max({1}) = 1
  <2>1. 1 \in Nat /\ {1} \in SUBSET (1..1) /\ 1 \in {1} /\ \A i \in {1} : i <= 1
    OBVIOUS
  <2> QED BY <2>1, GreatestIs
<1>7. SaidPairs(words) = [word \in {x} |-> words[1 + Max(BeginsAt(words, word))]]
  BY <1>4, PairsAre
<1>8. \A word \in {x} : words[1 + Max(BeginsAt(words, word))] = y
  <2>1. 1 + 1 = 2
    OBVIOUS
  <2> QED BY <1>2, <1>5, <1>6, <2>1
<1> QED BY <1>7, <1>8 DEF words

IsPaired(f, words, n) ==
  f = [i \in 0..n |->
         IF i = 0 THEN <<>>
         ELSE Over([word \in {words[2 * i - 1]} |-> words[2 * i]], f[i - 1])]

\* What the loop makes of the words is what they say (setCgi).
LEMMA PairsAreSaid ==
  ASSUME NEW S, NEW words \in Seq(S), Len(words) % 2 = 0
  PROVE  PairsOf(words) = SaidPairs(words)
<1> DEFINE n == Len(words) \div 2
           said(i) == SaidPairs(SubSeq(words, 1, 2 * i))
           pair(i) == [word \in {words[2 * i - 1]} |-> words[2 * i]]
           turn(f, i) == IF i = 0 THEN <<>> ELSE Over(pair(i), f[i - 1])
           g == [i \in 0..n |-> said(i)]
           f == CHOOSE h : IsPaired(h, words, n)
<1>1. PairsOf(words) = f[n]
  BY DEF PairsOf, IsPaired
<1>2. n \in Nat /\ 2 * n = Len(words) /\ Len(words) \in Nat
  OBVIOUS
<1>3. said(0) = <<>>
  <2>1. 2 * 0 = 0 /\ SubSeq(words, 1, 0) = <<>>
    OBVIOUS
  <2> QED BY <2>1, NoPairs
<1>4. ASSUME NEW i \in 1..n
      PROVE  said(i) = Over(pair(i), said(i - 1))
  <2> DEFINE a == SubSeq(words, 1, 2 * (i - 1))
             b == <<words[2 * i - 1], words[2 * i]>>
  <2>1. /\ 2 * (i - 1) \in Nat /\ 2 * (i - 1) <= Len(words) /\ 2 * (i - 1) % 2 = 0
        /\ 2 * i - 1 \in 1..Len(words) /\ 2 * i \in 1..Len(words)
    BY <1>2
  <2>2. a \in Seq(S) /\ Len(a) = 2 * (i - 1)
    BY <2>1
  <2>3. words[2 * i - 1] \in S /\ words[2 * i] \in S
    BY <2>1
  <2>4. b \in Seq(S) /\ Len(b) = 2
    BY <2>3, TwoAreASequence
  <2>5. SubSeq(words, 1, 2 * i) = a \o b
    <3> DEFINE k == 2 * i - 2
    <3>1. k \in Nat /\ k + 2 <= Len(words) /\ 2 * i = k + 2 /\ 2 * i - 1 = k + 1 /\ 2 * (i - 1) = k
      BY <2>1
    <3> HIDE DEF k
    <3>2. SubSeq(words, 1, k + 2) = SubSeq(words, 1, k) \o <<words[k + 1], words[k + 2]>>
      <4>1. SubSeq(words, 1, k + 1) = Append(SubSeq(words, 1, k), words[k + 1])
        BY <3>1
      <4>2. SubSeq(words, 1, k + 2) = Append(SubSeq(words, 1, k + 1), words[k + 2])
        BY <3>1
      <4>3. SubSeq(words, 1, k) \in Seq(S) /\ words[k + 1] \in S /\ words[k + 2] \in S
        BY <3>1
      <4> DEFINE s == SubSeq(words, 1, k)
      <4>4. s \o <<words[k + 1], words[k + 2]>> = Append(Append(s, words[k + 1]), words[k + 2])
        <5>1. s \in Seq(S)
          BY <4>3
        <5> HIDE DEF s
        <5> QED BY SMTT(40), <5>1, <4>3, PutLast
      <4> QED BY <4>1, <4>2, <4>4
    <3> QED BY <3>1, <3>2
  <2> HIDE DEF a, b
  <2>6. Len(a) % 2 = 0 /\ Len(b) % 2 = 0
    BY <2>1, <2>2, <2>4
  <2>7. SaidPairs(a \o b) = Over(SaidPairs(b), SaidPairs(a))
    BY <2>2, <2>4, <2>6, PairsBehind
  <2>8. SaidPairs(b) = [word \in {words[2 * i - 1]} |-> words[2 * i]]
    BY ZenonT(60), OnePair DEF b
  <2> QED BY <2>5, <2>7, <2>8 DEF a
<1> HIDE DEF said, n
<1>5. \A i \in 0..n : g[i] = turn(g, i)
  <2> SUFFICES ASSUME NEW i \in 0..n PROVE g[i] = turn(g, i)
    OBVIOUS
  <2>1. CASE i = 0
    BY <1>2, <1>3, <2>1
  <2>2. CASE i # 0
    <3>1. i \in 1..n /\ i - 1 \in 0..n
      BY <1>2, <2>2
    <3>2. g[i] = said(i) /\ g[i - 1] = said(i - 1)
      BY <3>1
    <3> HIDE DEF g
    <3> QED BY <1>4, <2>2, <3>1, <3>2
  <2> QED BY <2>1, <2>2
<1>6. g = [i \in 0..n |-> turn(g, i)]
  <2>1. g = [i \in 0..n |-> g[i]]
    OBVIOUS
  <2> HIDE DEF g, turn
  <2> QED BY <1>5, <2>1
<1>7. \E h : IsPaired(h, words, n)
  <2>1. IsPaired(g, words, n)
    <3> HIDE DEF g
    <3> QED BY <1>6 DEF IsPaired
  <2> QED BY <2>1
<1>8. IsPaired(f, words, n)
  BY <1>7
<1> HIDE DEF f
<1>9. f[0] = <<>> /\ \A i \in 1..n : f[i] = Over(pair(i), f[i - 1])
  <2>1. \A i \in 0..n : f[i] = turn(f, i)
    BY <1>8 DEF IsPaired
  <2>2. 0 \in 0..n /\ \A i \in 1..n : i \in 0..n /\ i # 0
    BY <1>2
  <2> HIDE DEF pair
  <2> QED BY <2>1, <2>2
<1> HIDE DEF pair
<1> DEFINE T == {i \in Nat : i <= n => f[i] = said(i)}
<1>10. 0 \in T
  BY <1>2, <1>3, <1>9
<1>11. ASSUME NEW i \in Nat, i \in T PROVE i + 1 \in T
  <2> SUFFICES ASSUME i + 1 <= n PROVE f[i + 1] = said(i + 1)
    OBVIOUS
  <2>1. i + 1 \in 1..n /\ i + 1 \in 0..n /\ i + 1 # 0 /\ i + 1 - 1 = i
    BY <1>2
  <2>2. f[i] = said(i)
    BY <1>2, <1>11
  <2>3. f[i + 1] = Over(pair(i + 1), f[i])
    BY <1>9, <2>1
  <2>4. said(i + 1) = Over(pair(i + 1), said(i))
    BY <1>4, <2>1
  <2> QED BY <2>2, <2>3, <2>4
<1>12. \A i \in Nat : i \in T
  <2> HIDE DEF T
  <2> QED BY ONLY <1>10, <1>11, AllNaturals
<1>13. f[n] = said(n)
  BY <1>2, <1>12
<1>14. said(n) = SaidPairs(words)
  <2>1. SubSeq(words, 1, Len(words)) = words
    OBVIOUS
  <2> QED BY <1>2, <2>1 DEF said
<1> QED BY <1>1, <1>13, <1>14

----------------------------------------------------------------------------
(* What has been read is what was said up to there.                        *)

\* No digits are no number.
LEMMA NoDigits == atoi(<<>>) = 0
<1> DEFINE I == {i \in 1..Len(<<>>) : ~IsDigit(<<>>[i])}
           value(c) == SelectInSeq(Digits, LAMBDA d : d = c)
           turn(n, c) == 10 * n + value(c) - 1
<1>1. I = {}
  OBVIOUS
<1>2. SelectInSeq(<<>>, LAMBDA c : ~IsDigit(c)) = 0
  BY <1>1 DEF SelectInSeq
<1>3. atoi(<<>>) = FoldLeft(turn, 0, <<>>)
  BY <1>2 DEF atoi
<1>4. DOMAIN <<>> = {}
  OBVIOUS
<1> DEFINE fold == CHOOSE f : f = [s \in SUBSET {} |->
                     IF s = {} THEN 0
                     ELSE LET x == Max(s) IN turn(f[s \ {x}], <<>>[x])]
<1>5. FoldLeft(turn, 0, <<>>) = fold[{}]
  BY <1>4 DEF FoldLeft, MapThenFoldSet
<1>6. \E f : f = [s \in SUBSET {} |->
                    IF s = {} THEN 0
                    ELSE LET x == Max(s) IN turn(f[s \ {x}], <<>>[x])]
  <2> DEFINE g == [s \in SUBSET {} |-> 0]
  <2>1. \A s \in SUBSET {} : s = {}
    OBVIOUS
  <2>2. g = [s \in SUBSET {} |->
                    IF s = {} THEN 0
                    ELSE LET x == Max(s) IN turn(g[s \ {x}], <<>>[x])]
    <3> HIDE DEF turn
    <3> QED BY <2>1
  <2> HIDE DEF g, turn
  <2> QED BY <2>2
<1>7. fold = [s \in SUBSET {} |->
                    IF s = {} THEN 0
                    ELSE LET x == Max(s) IN turn(fold[s \ {x}], <<>>[x])]
  <2> HIDE DEF turn
  <2> QED BY <1>6
<1> HIDE DEF fold, turn
<1>8. fold[{}] = 0
  <2>1. {} \in SUBSET {}
    OBVIOUS
  <2> QED BY <1>7, <2>1
<1> QED BY <1>3, <1>5, <1>8

LEMMA NothingIsSaid ==
  ASSUME NEW name
  PROVE  /\ Named(<<>>, name) = {} /\ Final(<<>>, name) = <<>> /\ Value(<<>>, name) = <<>>
         /\ All(<<>>, name) = <<>> /\ SaidPages(<<>>) = <<>>
<1>1. Named(<<>>, name) = {} /\ Named(<<>>, "error_page") = {}
  BY DEF Named
<1>2. Final(<<>>, name) = <<>> /\ Value(<<>>, name) = <<>>
  BY <1>1 DEF Final, Value
<1>3. All(<<>>, name) = <<>>
  <2> DEFINE parts == [i \in 1..Len(<<>>) |-> IF i \in Named(<<>>, name) THEN <<>>[i].args
                                              ELSE <<>>]
  <2>1. parts = <<>>
    OBVIOUS
  <2>2. Len(<<>>) = 0
    OBVIOUS
  <2> HIDE DEF parts
  <2>3. FlattenSeq(parts) = parts
    BY <2>1, <2>2, FlattenOfNothing
  <2> QED BY <2>1, <2>3 DEF All, parts
<1>4. SaidPages(<<>>) = <<>>
  <2>1. PagesCodes(<<>>) = {}
    BY <1>1 DEF PagesCodes
  <2>2. SaidPages(<<>>) = [code \in {} |-> Last(<<>>[Max(PagesFor(<<>>, code))].args)]
    BY <2>1, PagesAre
  <2> QED BY <2>2
<1> QED BY <1>1, <1>2, <1>3, <1>4

\* The parts of an address, and a server and a location by their fields.
HostOf(address) ==
  LET n == SelectInSeq(address, LAMBDA c : c = ":") IN
  IF n = 0 THEN <<"127.0.0.1">> ELSE SubSeq(address, 1, n - 1)
PortOf(address) ==
  LET n == SelectInSeq(address, LAMBDA c : c = ":") IN
  SubSeq(address, n + 1, Len(address))

ServerOf(host, port, home, names, pages, limit, read) ==
  [host |-> host, port |-> port, root |-> home, server_names |-> names,
   error_pages |-> pages, client_max_body_size |-> limit, routes |-> read]

RouteOf(path, methods, target, code, home, listing, files, cgi, upload, place, limit) ==
  [path |-> path, allowedMethods |-> methods, redirectPath |-> target, redirectCode |-> code,
   root |-> home, isDirectoryListing |-> listing, defaultFiles |-> files,
   cgiExtensions |-> cgi, uploadAllowed |-> upload, uploadPath |-> place,
   client_max_body_size |-> limit]

LEMMA PathOfARoute ==
  ASSUME NEW path, NEW methods, NEW target, NEW code, NEW home, NEW listing, NEW files,
         NEW cgi, NEW upload, NEW place, NEW limit, NEW v
  PROVE  [RouteOf(path, methods, target, code, home, listing, files, cgi, upload, place, limit)
            EXCEPT !.path = v]
           = RouteOf(v, methods, target, code, home, listing, files, cgi, upload, place, limit)
  BY DEF RouteOf

LEMMA RouteFields ==
  ASSUME NEW path, NEW methods, NEW target, NEW code, NEW home, NEW listing, NEW files,
         NEW cgi, NEW upload, NEW place, NEW limit, NEW v, NEW u
  PROVE  LET r ==
           RouteOf(path, methods, target, code, home, listing, files, cgi, upload, place, limit)
         IN
         /\ [r EXCEPT !.allowedMethods = v]
              = RouteOf(path, v, target, code, home, listing, files, cgi, upload, place, limit)
         /\ [r EXCEPT !.redirectCode = v, !.redirectPath = u]
              = RouteOf(path, methods, u, v, home, listing, files, cgi, upload, place, limit)
         /\ [r EXCEPT !.root = v]
              = RouteOf(path, methods, target, code, v, listing, files, cgi, upload, place, limit)
         /\ [r EXCEPT !.isDirectoryListing = v]
              = RouteOf(path, methods, target, code, home, v, files, cgi, upload, place, limit)
         /\ [r EXCEPT !.defaultFiles = v]
              = RouteOf(path, methods, target, code, home, listing, v, cgi, upload, place, limit)
         /\ [r EXCEPT !.cgiExtensions = v]
              = RouteOf(path, methods, target, code, home, listing, files, v, upload, place, limit)
         /\ [r EXCEPT !.uploadAllowed = v]
              = RouteOf(path, methods, target, code, home, listing, files, cgi, v, place, limit)
         /\ [r EXCEPT !.uploadPath = v]
              = RouteOf(path, methods, target, code, home, listing, files, cgi, upload, v, limit)
         /\ [r EXCEPT !.client_max_body_size = v]
              = RouteOf(path, methods, target, code, home, listing, files, cgi, upload, place, v)
         /\ [r EXCEPT !.path = v]
              = RouteOf(v, methods, target, code, home, listing, files, cgi, upload, place, limit)
         /\ r.allowedMethods = methods /\ r.defaultFiles = files /\ r.cgiExtensions = cgi
         /\ r.path = path /\ r.uploadPath = place
<1> DEFINE r ==
           RouteOf(path, methods, target, code, home, listing, files, cgi, upload, place, limit)
<1>1. [r EXCEPT !.allowedMethods = v]
       = RouteOf(path, v, target, code, home, listing, files, cgi, upload, place, limit)
  BY DEF RouteOf
<1>2. [r EXCEPT !.redirectCode = v, !.redirectPath = u]
       = RouteOf(path, methods, u, v, home, listing, files, cgi, upload, place, limit)
  <2>1. [r EXCEPT !.redirectCode = v]
          = RouteOf(path, methods, target, v, home, listing, files, cgi, upload, place, limit)
    BY DEF RouteOf
  <2>2. [RouteOf(path, methods, target, v, home, listing, files, cgi, upload, place, limit)
           EXCEPT !.redirectPath = u]
          = RouteOf(path, methods, u, v, home, listing, files, cgi, upload, place, limit)
    BY DEF RouteOf
  <2> HIDE DEF r
  <2>3. [r EXCEPT !.redirectCode = v, !.redirectPath = u]
          = [[r EXCEPT !.redirectCode = v] EXCEPT !.redirectPath = u]
    OBVIOUS
  <2> QED BY <2>1, <2>2, <2>3
<1>3. [r EXCEPT !.root = v]
       = RouteOf(path, methods, target, code, v, listing, files, cgi, upload, place, limit)
  BY DEF RouteOf
<1>4. [r EXCEPT !.isDirectoryListing = v]
       = RouteOf(path, methods, target, code, home, v, files, cgi, upload, place, limit)
  BY DEF RouteOf
<1>5. [r EXCEPT !.defaultFiles = v]
       = RouteOf(path, methods, target, code, home, listing, v, cgi, upload, place, limit)
  BY DEF RouteOf
<1>6. [r EXCEPT !.cgiExtensions = v]
       = RouteOf(path, methods, target, code, home, listing, files, v, upload, place, limit)
  BY DEF RouteOf
<1>7. [r EXCEPT !.uploadAllowed = v]
       = RouteOf(path, methods, target, code, home, listing, files, cgi, v, place, limit)
  BY DEF RouteOf
<1>8. [r EXCEPT !.uploadPath = v]
       = RouteOf(path, methods, target, code, home, listing, files, cgi, upload, v, limit)
  BY DEF RouteOf
<1>9. [r EXCEPT !.client_max_body_size = v]
       = RouteOf(path, methods, target, code, home, listing, files, cgi, upload, place, v)
  BY DEF RouteOf
<1>10. [r EXCEPT !.path = v]
       = RouteOf(v, methods, target, code, home, listing, files, cgi, upload, place, limit)
  BY DEF RouteOf
<1>11. /\ r.allowedMethods = methods /\ r.defaultFiles = files /\ r.cgiExtensions = cgi
       /\ r.path = path /\ r.uploadPath = place
  BY DEF RouteOf
<1> HIDE DEF r
<1> QED BY <1>1, <1>2, <1>3, <1>4, <1>5, <1>6, <1>7, <1>8, <1>9, <1>10, <1>11 DEF r

\* A server and a location when these directives have been read.
ReadServer(ds, read) ==
  ServerOf(IF Named(ds, "listen") = {} THEN <<>> ELSE HostOf(Value(ds, "listen")),
           IF Named(ds, "listen") = {} THEN <<>> ELSE PortOf(Value(ds, "listen")),
           Value(ds, "root"), All(ds, "server_name"), SaidPages(ds),
           atoi(Value(ds, "client_max_body_size")), read)

Target(ds) == IF Final(ds, "return") = <<>> THEN <<>> ELSE Final(ds, "return")[2]
IsOn(word) == word = <<"on">>

ReadRoute(path, ds) ==
  RouteOf(path, Range(All(ds, "allowed_methods")), Target(ds), atoi(Value(ds, "return")),
          Value(ds, "root"), IsOn(Value(ds, "autoindex")), All(ds, "index"),
          SaidPairs(All(ds, "cgi_extension")), IsOn(Value(ds, "allow_upload")),
          Value(ds, "upload_path"), atoi(Value(ds, "client_max_body_size")))

LEMMA BlanksAreRead ==
  /\ ReadServer(<<>>, <<>>) = BlankServer
  /\ \A path : ReadRoute(path, <<>>) = [BlankRoute EXCEPT !.path = path]
<1>1. ReadServer(<<>>, <<>>) = BlankServer
  <2>1. BlankServer = ServerOf(<<>>, <<>>, <<>>, <<>>, <<>>, 0, <<>>)
    BY DEF BlankServer, ServerOf
  <2> QED BY <2>1, NothingIsSaid, NoDigits DEF ReadServer
<1>2. ASSUME NEW path PROVE ReadRoute(path, <<>>) = [BlankRoute EXCEPT !.path = path]
  <2>1. Range(<<>>) = {}
    BY DEF Range
  <2>2. IsOn(<<>>) = FALSE
    BY DEF IsOn
  <2>3. BlankRoute = RouteOf(<<>>, {}, <<>>, 0, <<>>, FALSE, <<>>, <<>>, FALSE, <<>>, 0)
    BY DEF BlankRoute, RouteOf
  <2>4. Target(<<>>) = <<>>
    BY NothingIsSaid DEF Target
  <2>5. ReadRoute(path, <<>>) =
          RouteOf(path, {}, <<>>, 0, <<>>, FALSE, <<>>, <<>>, FALSE, <<>>, 0)
    <3>1. /\ All(<<>>, "allowed_methods") = <<>> /\ Value(<<>>, "return") = <<>>
          /\ Value(<<>>, "root") = <<>> /\ Value(<<>>, "autoindex") = <<>>
          /\ All(<<>>, "index") = <<>> /\ All(<<>>, "cgi_extension") = <<>>
          /\ Value(<<>>, "allow_upload") = <<>> /\ Value(<<>>, "upload_path") = <<>>
          /\ Value(<<>>, "client_max_body_size") = <<>>
      BY NothingIsSaid
    <3> QED BY <2>1, <2>2, <2>4, <3>1, NoDigits, NoPairs DEF ReadRoute
  <2>6. [RouteOf(<<>>, {}, <<>>, 0, <<>>, FALSE, <<>>, <<>>, FALSE, <<>>, 0) EXCEPT !.path = path]
          = RouteOf(path, {}, <<>>, 0, <<>>, FALSE, <<>>, <<>>, FALSE, <<>>, 0)
    <3> DEFINE s == <<>>
               none == {}
               off == FALSE
               zero == 0
    <3> HIDE DEF s, none, off, zero
    <3>1. [RouteOf(s, none, s, zero, s, off, s, s, off, s, zero) EXCEPT !.path = path]
            = RouteOf(path, none, s, zero, s, off, s, s, off, s, zero)
      BY ONLY PathOfARoute
    <3> QED BY <3>1 DEF s, none, off, zero
  <2> QED BY ONLY <2>3, <2>5, <2>6
<1> QED BY <1>1, <1>2

\* A server with one directive more.
LEMMA OneMoreOfAServer ==
  ASSUME NEW ds \in Seq(Directives), NEW d \in Directives, ServerDirectiveIsRight(d), NEW read
  PROVE  LET s    == ReadServer(ds, read)
             more == ReadServer(Append(ds, d), read)
         IN
         /\ d.name = "server_name" => more = [s EXCEPT !.server_names = s.server_names \o d.args]
         /\ d.name = "listen" => more = [s EXCEPT !.host = HostOf(d.args[1]),
                                                 !.port = PortOf(d.args[1])]
         /\ d.name = "client_max_body_size" =>
              more = [s EXCEPT !.client_max_body_size = atoi(d.args[1])]
         /\ d.name = "error_page" =>
              more = [s EXCEPT !.error_pages =
                        Over([code \in Codes(d) |-> Last(d.args)], s.error_pages)]
         /\ d.name = "root" => more = [s EXCEPT !.root = d.args[1]]
<1> DEFINE more == Append(ds, d)
           s == ReadServer(ds, read)
           pages == Over([code \in Codes(d) |-> Last(d.args)], SaidPages(ds))
           host == IF Named(ds, "listen") = {} THEN <<>> ELSE HostOf(Value(ds, "listen"))
           port == IF Named(ds, "listen") = {} THEN <<>> ELSE PortOf(Value(ds, "listen"))
           home == Value(ds, "root")
           names == All(ds, "server_name")
           limit == atoi(Value(ds, "client_max_body_size"))
           said == SaidPages(ds)
<1>1. ASSUME NEW name
      PROVE  /\ Value(more, name) = IF d.name = name THEN d.args[1] ELSE Value(ds, name)
             /\ All(more, name) = IF d.name = name THEN All(ds, name) \o d.args
                                  ELSE All(ds, name)
             /\ Named(more, name) = IF d.name = name THEN Named(ds, name) \cup {Len(ds) + 1}
                                    ELSE Named(ds, name)
  BY OneMoreSays, OneMoreNamed
<1>2. SaidPages(more) = IF d.name = "error_page" THEN pages ELSE SaidPages(ds)
  BY OneMorePage
<1>3. /\ s = ServerOf(host, port, home, names, said, limit, read)
      /\ s.server_names = names /\ s.error_pages = said
  <2>1. s = ServerOf(host, port, home, names, said, limit, read)
    BY DEF ReadServer
  <2> HIDE DEF s, host, port, home, names, said, limit
  <2>2. s.server_names = names /\ s.error_pages = said
    BY <2>1 DEF ServerOf
  <2> QED BY <2>1, <2>2
<1>4. ReadServer(more, read) =
        ServerOf(IF d.name = "listen" THEN HostOf(d.args[1]) ELSE host,
                 IF d.name = "listen" THEN PortOf(d.args[1]) ELSE port,
                 IF d.name = "root" THEN d.args[1] ELSE home,
                 IF d.name = "server_name" THEN names \o d.args ELSE names,
                 IF d.name = "error_page" THEN pages ELSE said,
                 IF d.name = "client_max_body_size" THEN atoi(d.args[1]) ELSE limit, read)
  <2>1. Named(more, "listen") = {} <=> d.name # "listen" /\ Named(ds, "listen") = {}
    <3>1. Named(ds, "listen") \cup {Len(ds) + 1} # {}
      OBVIOUS
    <3> QED BY <1>1, <3>1
  <2>2. /\ Value(more, "listen") = IF d.name = "listen" THEN d.args[1] ELSE Value(ds, "listen")
        /\ Value(more, "root") = IF d.name = "root" THEN d.args[1] ELSE home
        /\ All(more, "server_name") =
             IF d.name = "server_name" THEN names \o d.args ELSE names
        /\ Value(more, "client_max_body_size") =
             IF d.name = "client_max_body_size" THEN d.args[1]
             ELSE Value(ds, "client_max_body_size")
    BY <1>1
  <2> HIDE DEF more, pages
  <2> QED BY <1>2, <2>1, <2>2 DEF ReadServer
<1> HIDE DEF more, s, pages, host, port, home, names, limit, said
<1> DEFINE next == ReadServer(more, read)
<1> HIDE DEF next
<1>5. ASSUME d.name = "server_name"
     PROVE  next = [s EXCEPT !.server_names = names \o d.args]
  <2> DEFINE v == names \o d.args
  <2>1. next = ServerOf(host, port, home, v, said, limit, read)
    BY <1>4, <1>5 DEF next
  <2> HIDE DEF v
  <2>2. [s EXCEPT !.server_names = v] = ServerOf(host, port, home, v, said, limit, read)
    BY <1>3 DEF ServerOf
  <2> QED BY <2>1, <2>2 DEF v
<1>6. ASSUME d.name = "client_max_body_size"
     PROVE  next = [s EXCEPT !.client_max_body_size = atoi(d.args[1])]
  <2> DEFINE v == atoi(d.args[1])
  <2>1. next = ServerOf(host, port, home, names, said, v, read)
    BY <1>4, <1>6 DEF next
  <2> HIDE DEF v
  <2>2. [s EXCEPT !.client_max_body_size = v] = ServerOf(host, port, home, names, said, v, read)
    BY <1>3 DEF ServerOf
  <2> QED BY <2>1, <2>2 DEF v
<1>7. ASSUME d.name = "error_page"
     PROVE  next = [s EXCEPT !.error_pages = pages]
  <2> DEFINE v == pages
  <2>1. next = ServerOf(host, port, home, names, v, limit, read)
    BY <1>4, <1>7 DEF next
  <2> HIDE DEF v
  <2>2. [s EXCEPT !.error_pages = v] = ServerOf(host, port, home, names, v, limit, read)
    BY <1>3 DEF ServerOf
  <2> QED BY <2>1, <2>2 DEF v
<1>8. ASSUME d.name = "root"
     PROVE  next = [s EXCEPT !.root = d.args[1]]
  <2> DEFINE v == d.args[1]
  <2>1. next = ServerOf(host, port, v, names, said, limit, read)
    BY <1>4, <1>8 DEF next
  <2> HIDE DEF v
  <2>2. [s EXCEPT !.root = v] = ServerOf(host, port, v, names, said, limit, read)
    BY <1>3 DEF ServerOf
  <2> QED BY <2>1, <2>2 DEF v
<1>9. ASSUME d.name = "listen"
     PROVE  next = [s EXCEPT !.host = HostOf(d.args[1]), !.port = PortOf(d.args[1])]
  <2> DEFINE v == HostOf(d.args[1])
             u == PortOf(d.args[1])
             t == [s EXCEPT !.host = v]
  <2>1. next = ServerOf(v, u, home, names, said, limit, read)
    BY <1>4, <1>9 DEF next
  <2> HIDE DEF v, u
  <2>2. t = ServerOf(v, port, home, names, said, limit, read)
    BY <1>3 DEF ServerOf
  <2>3. [s EXCEPT !.host = v, !.port = u] = [t EXCEPT !.port = u]
    OBVIOUS
  <2> HIDE DEF t
  <2>4. [t EXCEPT !.port = u] = ServerOf(v, u, home, names, said, limit, read)
    BY <2>2 DEF ServerOf
  <2> QED BY <2>1, <2>3, <2>4 DEF v, u
<1>10. d.name = "server_name" => next = [s EXCEPT !.server_names = s.server_names \o d.args]
  BY <1>3, <1>5
<1>11. pages = Over([code \in Codes(d) |-> Last(d.args)], s.error_pages)
  BY <1>3 DEF pages, said
<1> QED BY <1>6, <1>7, <1>8, <1>9, <1>10, <1>11 DEF next, s, more

LEMMA RangeOfBoth ==
  ASSUME NEW S, NEW a \in Seq(S), NEW b \in Seq(S)
  PROVE  Range(a \o b) = Range(a) \cup Range(b)
<1> DEFINE c == a \o b
<1>1. /\ c \in Seq(S) /\ Len(c) = Len(a) + Len(b) /\ Len(a) \in Nat /\ Len(b) \in Nat
      /\ \A i \in 1..Len(a) : c[i] = a[i]
      /\ \A i \in 1..Len(b) : c[Len(a) + i] = b[i]
  BY PutBehind
<1> HIDE DEF c
<1>2. /\ Range(c) = {c[i] : i \in 1..Len(c)} /\ Range(a) = {a[i] : i \in 1..Len(a)}
      /\ Range(b) = {b[i] : i \in 1..Len(b)}
  BY <1>1 DEF Range
<1>3. ASSUME NEW x \in Range(a) PROVE x \in Range(c)
  <2>1. PICK i \in 1..Len(a) : x = a[i]
    BY <1>2
  <2>2. i \in 1..Len(c) /\ c[i] = x
    BY <1>1, <2>1
  <2> QED BY <1>2, <2>2
<1>4. ASSUME NEW x \in Range(b) PROVE x \in Range(c)
  <2>1. PICK i \in 1..Len(b) : x = b[i]
    BY <1>2
  <2>2. Len(a) + i \in 1..Len(c) /\ c[Len(a) + i] = x
    BY <1>1, <2>1
  <2> QED BY <1>2, <2>2
<1>5. ASSUME NEW x \in Range(c) PROVE x \in Range(a) \cup Range(b)
  <2>1. PICK i \in 1..Len(c) : x = c[i]
    BY <1>2
  <2>2. CASE i <= Len(a)
    <3>1. i \in 1..Len(a)
      BY <1>1, <2>2
    <3> QED BY <1>1, <1>2, <2>1, <3>1
  <2>3. CASE ~(i <= Len(a))
    <3>1. i - Len(a) \in 1..Len(b) /\ Len(a) + (i - Len(a)) = i
      BY <1>1, <2>3
    <3> QED BY <1>1, <1>2, <2>1, <3>1
  <2> QED BY <2>2, <2>3
<1> QED BY <1>3, <1>4, <1>5 DEF c

\* A location with one directive more.
LEMMA OneMoreOfALocation ==
  ASSUME NEW ds \in Seq(Directives), NEW d \in Directives, LocationDirectiveIsRight(d),
         Len(All(ds, "cgi_extension")) % 2 = 0, NEW path
  PROVE  LET r    == ReadRoute(path, ds)
             more == ReadRoute(path, Append(ds, d))
         IN
         /\ d.name = "root" =>
              more = [r EXCEPT !.root = d.args[1]]
         /\ d.name = "allowed_methods" =>
              more = [r EXCEPT !.allowedMethods = r.allowedMethods \cup Range(d.args)]
         /\ d.name = "index" =>
              more = [r EXCEPT !.defaultFiles = r.defaultFiles \o d.args]
         /\ d.name = "autoindex" =>
              more = [r EXCEPT !.isDirectoryListing = IsOn(d.args[1])]
         /\ d.name = "allow_upload" =>
              more = [r EXCEPT !.uploadAllowed = IsOn(d.args[1])]
         /\ d.name = "upload_path" =>
              more = [r EXCEPT !.uploadPath = d.args[1]]
         /\ d.name = "cgi_extension" =>
              more = [r EXCEPT !.cgiExtensions = Over(SaidPairs(d.args), r.cgiExtensions)]
         /\ d.name = "client_max_body_size" =>
              more = [r EXCEPT !.client_max_body_size = atoi(d.args[1])]
         /\ d.name = "return" =>
              more = [r EXCEPT !.redirectCode = atoi(d.args[1]), !.redirectPath = d.args[2]]
<1> DEFINE more == Append(ds, d)
           r == ReadRoute(path, ds)
           methods == Range(All(ds, "allowed_methods"))
           target == Target(ds)
           code == atoi(Value(ds, "return"))
           home == Value(ds, "root")
           listing == IsOn(Value(ds, "autoindex"))
           files == All(ds, "index")
           cgi == SaidPairs(All(ds, "cgi_extension"))
           upload == IsOn(Value(ds, "allow_upload"))
           place == Value(ds, "upload_path")
           limit == atoi(Value(ds, "client_max_body_size"))
           next == ReadRoute(path, more)
           Is(name) == d.name = name
<1>1. ASSUME NEW name
      PROVE  /\ Value(more, name) = IF Is(name) THEN d.args[1] ELSE Value(ds, name)
             /\ All(more, name) = IF Is(name) THEN All(ds, name) \o d.args ELSE All(ds, name)
             /\ All(ds, name) \in Seq(Tokens)
             /\ Final(more, name) = IF Is(name) THEN d.args ELSE Final(ds, name)
  BY OneMoreSays, OneMoreFinal
<1>2. d.args \in Seq(Tokens) /\ d.args # <<>>
  BY ArgumentsAreTokens
<1> HIDE DEF more
<1>3. Range(All(more, "allowed_methods")) =
        IF Is("allowed_methods") THEN methods \cup Range(d.args) ELSE methods
  <2>1. Range(All(ds, "allowed_methods") \o d.args) = methods \cup Range(d.args)
    BY <1>1, <1>2, RangeOfBoth
  <2> QED BY <1>1, <2>1
<1>4. SaidPairs(All(more, "cgi_extension")) =
        IF Is("cgi_extension") THEN Over(SaidPairs(d.args), cgi) ELSE cgi
  <2>1. CASE Is("cgi_extension")
    <3>1. Len(d.args) % 2 = 0
      BY <2>1 DEF LocationDirectiveIsRight
    <3>2. SaidPairs(All(ds, "cgi_extension") \o d.args) = Over(SaidPairs(d.args), cgi)
      BY <1>1, <1>2, <3>1, PairsBehind
    <3> QED BY <1>1, <2>1, <3>2
  <2>2. CASE ~Is("cgi_extension")
    BY <1>1, <2>2
  <2> QED BY <2>1, <2>2
<1>5. Target(more) = IF Is("return") THEN d.args[2] ELSE target
  BY <1>1, <1>2 DEF Target
<1>6. /\ atoi(Value(more, "return")) = IF Is("return") THEN atoi(d.args[1]) ELSE code
      /\ Value(more, "root") = IF Is("root") THEN d.args[1] ELSE home
      /\ IsOn(Value(more, "autoindex")) = IF Is("autoindex") THEN IsOn(d.args[1]) ELSE listing
      /\ All(more, "index") = IF Is("index") THEN files \o d.args ELSE files
      /\ IsOn(Value(more, "allow_upload")) =
           IF Is("allow_upload") THEN IsOn(d.args[1]) ELSE upload
      /\ Value(more, "upload_path") = IF Is("upload_path") THEN d.args[1] ELSE place
      /\ atoi(Value(more, "client_max_body_size")) =
           IF Is("client_max_body_size") THEN atoi(d.args[1]) ELSE limit
  BY <1>1
<1>7. r = RouteOf(path, methods, target, code, home, listing, files, cgi, upload, place, limit)
  BY DEF ReadRoute
<1>8. r.allowedMethods = methods /\ r.defaultFiles = files /\ r.cgiExtensions = cgi
  <2> HIDE DEF r, methods, target, code, home, listing, files, cgi, upload, place, limit
  <2> QED BY <1>7 DEF RouteOf
<1>9. next = RouteOf(path, Range(All(more, "allowed_methods")), Target(more),
                     atoi(Value(more, "return")), Value(more, "root"),
                     IsOn(Value(more, "autoindex")), All(more, "index"),
                     SaidPairs(All(more, "cgi_extension")), IsOn(Value(more, "allow_upload")),
                     Value(more, "upload_path"), atoi(Value(more, "client_max_body_size")))
  BY DEF ReadRoute
<1> HIDE DEF r, methods, target, code, home, listing, files, cgi, upload, place, limit, next
<1>10. ASSUME d.name = "root"
      PROVE  next = [r EXCEPT !.root = d.args[1]]
  <2> DEFINE v == d.args[1]
  <2>1. next = RouteOf(path, methods, target, code, v, listing, files, cgi, upload, place, limit)
    <3> HIDE DEF v, Is
    <3>1. /\ Is("root")
          /\ ~Is("allowed_methods")
          /\ ~Is("index")
          /\ ~Is("autoindex")
          /\ ~Is("allow_upload")
          /\ ~Is("upload_path")
          /\ ~Is("cgi_extension")
          /\ ~Is("client_max_body_size")
          /\ ~Is("return")
      BY <1>10 DEF Is
    <3> QED BY <1>3, <1>4, <1>5, <1>6, <1>9, <3>1 DEF v
  <2> HIDE DEF v
  <2>2. [r EXCEPT !.root = v] =
          RouteOf(path, methods, target, code, v, listing, files, cgi, upload, place, limit)
    BY <1>7 DEF RouteOf
  <2> QED BY <2>1, <2>2, <1>8 DEF v
<1>11. ASSUME d.name = "allowed_methods"
      PROVE  next = [r EXCEPT !.allowedMethods = r.allowedMethods \cup Range(d.args)]
  <2> DEFINE v == methods \cup Range(d.args)
  <2>1. next = RouteOf(path, v, target, code, home, listing, files, cgi, upload, place, limit)
    <3> HIDE DEF v, Is
    <3>1. /\ Is("allowed_methods")
          /\ ~Is("root")
          /\ ~Is("index")
          /\ ~Is("autoindex")
          /\ ~Is("allow_upload")
          /\ ~Is("upload_path")
          /\ ~Is("cgi_extension")
          /\ ~Is("client_max_body_size")
          /\ ~Is("return")
      BY <1>11 DEF Is
    <3> QED BY <1>3, <1>4, <1>5, <1>6, <1>9, <3>1 DEF v
  <2> HIDE DEF v
  <2>2. [r EXCEPT !.allowedMethods = v] =
          RouteOf(path, v, target, code, home, listing, files, cgi, upload, place, limit)
    BY <1>7 DEF RouteOf
  <2> QED BY <2>1, <2>2, <1>8 DEF v
<1>12. ASSUME d.name = "index"
      PROVE  next = [r EXCEPT !.defaultFiles = r.defaultFiles \o d.args]
  <2> DEFINE v == files \o d.args
  <2>1. next = RouteOf(path, methods, target, code, home, listing, v, cgi, upload, place, limit)
    <3> HIDE DEF v, Is
    <3>1. /\ Is("index")
          /\ ~Is("root")
          /\ ~Is("allowed_methods")
          /\ ~Is("autoindex")
          /\ ~Is("allow_upload")
          /\ ~Is("upload_path")
          /\ ~Is("cgi_extension")
          /\ ~Is("client_max_body_size")
          /\ ~Is("return")
      BY <1>12 DEF Is
    <3> QED BY <1>3, <1>4, <1>5, <1>6, <1>9, <3>1 DEF v
  <2> HIDE DEF v
  <2>2. [r EXCEPT !.defaultFiles = v] =
          RouteOf(path, methods, target, code, home, listing, v, cgi, upload, place, limit)
    BY <1>7 DEF RouteOf
  <2> QED BY <2>1, <2>2, <1>8 DEF v
<1>13. ASSUME d.name = "autoindex"
      PROVE  next = [r EXCEPT !.isDirectoryListing = IsOn(d.args[1])]
  <2> DEFINE v == IsOn(d.args[1])
  <2>1. next = RouteOf(path, methods, target, code, home, v, files, cgi, upload, place, limit)
    <3> HIDE DEF v, Is
    <3>1. /\ Is("autoindex")
          /\ ~Is("root")
          /\ ~Is("allowed_methods")
          /\ ~Is("index")
          /\ ~Is("allow_upload")
          /\ ~Is("upload_path")
          /\ ~Is("cgi_extension")
          /\ ~Is("client_max_body_size")
          /\ ~Is("return")
      BY <1>13 DEF Is
    <3> QED BY <1>3, <1>4, <1>5, <1>6, <1>9, <3>1 DEF v
  <2> HIDE DEF v
  <2>2. [r EXCEPT !.isDirectoryListing = v] =
          RouteOf(path, methods, target, code, home, v, files, cgi, upload, place, limit)
    BY <1>7 DEF RouteOf
  <2> QED BY <2>1, <2>2, <1>8 DEF v
<1>14. ASSUME d.name = "allow_upload"
      PROVE  next = [r EXCEPT !.uploadAllowed = IsOn(d.args[1])]
  <2> DEFINE v == IsOn(d.args[1])
  <2>1. next = RouteOf(path, methods, target, code, home, listing, files, cgi, v, place, limit)
    <3> HIDE DEF v, Is
    <3>1. /\ Is("allow_upload")
          /\ ~Is("root")
          /\ ~Is("allowed_methods")
          /\ ~Is("index")
          /\ ~Is("autoindex")
          /\ ~Is("upload_path")
          /\ ~Is("cgi_extension")
          /\ ~Is("client_max_body_size")
          /\ ~Is("return")
      BY <1>14 DEF Is
    <3> QED BY <1>3, <1>4, <1>5, <1>6, <1>9, <3>1 DEF v
  <2> HIDE DEF v
  <2>2. [r EXCEPT !.uploadAllowed = v] =
          RouteOf(path, methods, target, code, home, listing, files, cgi, v, place, limit)
    BY <1>7 DEF RouteOf
  <2> QED BY <2>1, <2>2, <1>8 DEF v
<1>15. ASSUME d.name = "upload_path"
      PROVE  next = [r EXCEPT !.uploadPath = d.args[1]]
  <2> DEFINE v == d.args[1]
  <2>1. next = RouteOf(path, methods, target, code, home, listing, files, cgi, upload, v, limit)
    <3> HIDE DEF v, Is
    <3>1. /\ Is("upload_path")
          /\ ~Is("root")
          /\ ~Is("allowed_methods")
          /\ ~Is("index")
          /\ ~Is("autoindex")
          /\ ~Is("allow_upload")
          /\ ~Is("cgi_extension")
          /\ ~Is("client_max_body_size")
          /\ ~Is("return")
      BY <1>15 DEF Is
    <3> QED BY <1>3, <1>4, <1>5, <1>6, <1>9, <3>1 DEF v
  <2> HIDE DEF v
  <2>2. [r EXCEPT !.uploadPath = v] =
          RouteOf(path, methods, target, code, home, listing, files, cgi, upload, v, limit)
    BY <1>7 DEF RouteOf
  <2> QED BY <2>1, <2>2, <1>8 DEF v
<1>16. ASSUME d.name = "cgi_extension"
      PROVE  next = [r EXCEPT !.cgiExtensions = Over(SaidPairs(d.args), r.cgiExtensions)]
  <2> DEFINE v == Over(SaidPairs(d.args), cgi)
  <2>1. next = RouteOf(path, methods, target, code, home, listing, files, v, upload, place, limit)
    <3> HIDE DEF v, Is
    <3>1. /\ Is("cgi_extension")
          /\ ~Is("root")
          /\ ~Is("allowed_methods")
          /\ ~Is("index")
          /\ ~Is("autoindex")
          /\ ~Is("allow_upload")
          /\ ~Is("upload_path")
          /\ ~Is("client_max_body_size")
          /\ ~Is("return")
      BY <1>16 DEF Is
    <3> QED BY <1>3, <1>4, <1>5, <1>6, <1>9, <3>1 DEF v
  <2> HIDE DEF v
  <2>2. [r EXCEPT !.cgiExtensions = v] =
          RouteOf(path, methods, target, code, home, listing, files, v, upload, place, limit)
    BY <1>7 DEF RouteOf
  <2> QED BY <2>1, <2>2, <1>8 DEF v
<1>17. ASSUME d.name = "client_max_body_size"
      PROVE  next = [r EXCEPT !.client_max_body_size = atoi(d.args[1])]
  <2> DEFINE v == atoi(d.args[1])
  <2>1. next = RouteOf(path, methods, target, code, home, listing, files, cgi, upload, place, v)
    <3> HIDE DEF v, Is
    <3>1. /\ Is("client_max_body_size")
          /\ ~Is("root")
          /\ ~Is("allowed_methods")
          /\ ~Is("index")
          /\ ~Is("autoindex")
          /\ ~Is("allow_upload")
          /\ ~Is("upload_path")
          /\ ~Is("cgi_extension")
          /\ ~Is("return")
      BY <1>17 DEF Is
    <3> QED BY <1>3, <1>4, <1>5, <1>6, <1>9, <3>1 DEF v
  <2> HIDE DEF v
  <2>2. [r EXCEPT !.client_max_body_size = v] =
          RouteOf(path, methods, target, code, home, listing, files, cgi, upload, place, v)
    BY <1>7 DEF RouteOf
  <2> QED BY <2>1, <2>2, <1>8 DEF v
<1>18. ASSUME d.name = "return"
      PROVE  next = [r EXCEPT !.redirectCode = atoi(d.args[1]), !.redirectPath = d.args[2]]
  <2> DEFINE v == atoi(d.args[1])
             u == d.args[2]
             t == [r EXCEPT !.redirectCode = v]
  <2>1. next = RouteOf(path, methods, u, v, home, listing, files, cgi, upload, place, limit)
    <3> HIDE DEF v, u, Is
    <3>1. /\ Is("return")
          /\ ~Is("root")
          /\ ~Is("allowed_methods")
          /\ ~Is("index")
          /\ ~Is("autoindex")
          /\ ~Is("allow_upload")
          /\ ~Is("upload_path")
          /\ ~Is("cgi_extension")
          /\ ~Is("client_max_body_size")
      BY <1>18 DEF Is
    <3> QED BY <1>3, <1>4, <1>5, <1>6, <1>9, <3>1 DEF v, u
  <2> HIDE DEF v, u
  <2>2. t = RouteOf(path, methods, target, v, home, listing, files, cgi, upload, place, limit)
    BY <1>7 DEF RouteOf
  <2>3. [r EXCEPT !.redirectCode = v, !.redirectPath = u] = [t EXCEPT !.redirectPath = u]
    OBVIOUS
  <2> HIDE DEF t
  <2>4. [t EXCEPT !.redirectPath = u] =
          RouteOf(path, methods, u, v, home, listing, files, cgi, upload, place, limit)
    BY <2>2 DEF RouteOf
  <2> QED BY <2>1, <2>3, <2>4 DEF v, u
<1> QED BY <1>10, <1>11, <1>12, <1>13, <1>14, <1>15, <1>16, <1>17, <1>18 DEF next, r, more

\* The words of the pairs come in pairs.
LEMMA PairsAreWhole ==
  ASSUME NEW ds \in Seq(Directives), \A d \in Range(ds) : LocationDirectiveIsRight(d)
  PROVE  Len(All(ds, "cgi_extension")) % 2 = 0
<1> DEFINE Even(s) == Len(All(s, "cgi_extension")) % 2 = 0
           T == {n \in Nat : n <= Len(ds) => Even(SubSeq(ds, 1, n))}
<1>1. 0 \in T
  <2>1. SubSeq(ds, 1, 0) = <<>>
    OBVIOUS
  <2>2. All(<<>>, "cgi_extension") = <<>>
    BY NothingIsSaid
  <2>3. Len(<<>>) % 2 = 0
    OBVIOUS
  <2> QED BY <2>1, <2>2, <2>3
<1>2. ASSUME NEW n \in Nat, n \in T PROVE n + 1 \in T
  <2> SUFFICES ASSUME n + 1 <= Len(ds) PROVE Even(SubSeq(ds, 1, n + 1))
    OBVIOUS
  <2> DEFINE s == SubSeq(ds, 1, n)
             d == ds[n + 1]
             words == All(s, "cgi_extension")
  <2>1. s \in Seq(Directives) /\ d \in Directives /\ SubSeq(ds, 1, n + 1) = Append(s, d)
    OBVIOUS
  <2>2. LocationDirectiveIsRight(d)
    BY DEF Range
  <2>3. Even(s)
    BY <1>2
  <2> HIDE DEF s, d
  <2>4. words \in Seq(Tokens) /\ d.args \in Seq(Tokens)
        /\ All(Append(s, d), "cgi_extension") =
             IF d.name = "cgi_extension" THEN words \o d.args ELSE words
    BY <2>1, OneMoreSays, ArgumentsAreTokens
  <2>5. Len(words) % 2 = 0
    BY <2>3
  <2> HIDE DEF words
  <2>6. CASE d.name = "cgi_extension"
    <3>1. Len(d.args) % 2 = 0
      BY <2>2, <2>6 DEF LocationDirectiveIsRight
    <3>2. Len(words \o d.args) = Len(words) + Len(d.args) /\ Len(words) \in Nat
          /\ Len(d.args) \in Nat
      BY <2>4
    <3>3. Len(words \o d.args) % 2 = 0
      BY <2>5, <3>1, <3>2, EvenAndOdd
    <3> QED BY <2>1, <2>4, <2>6, <3>3
  <2>7. CASE d.name # "cgi_extension"
    BY <2>1, <2>4, <2>5, <2>7
  <2> QED BY <2>6, <2>7
<1>3. \A n \in Nat : n \in T
  <2> HIDE DEF T
  <2> QED BY ONLY <1>1, <1>2, AllNaturals
<1>4. Len(ds) \in Nat /\ SubSeq(ds, 1, Len(ds)) = ds
  OBVIOUS
<1>5. Even(SubSeq(ds, 1, Len(ds)))
  <2> HIDE DEF Even
  <2> QED BY <1>3, <1>4
<1> QED BY <1>4, <1>5

\* When all of its lines have been read, a location is what was said of it, but for the
\* upload path, and a server is.
LEMMA AllOfALocation ==
  ASSUME NEW l \in Locations
  PROVE  LET r == ReadRoute(l.path, l.directives) IN
         /\ [r EXCEPT !.uploadPath = UploadPath(r)] = SaidRoute(l)
         /\ LocationIsRight(l) => validateRoutes(r)
<1> DEFINE ds == l.directives
           place == Value(ds, "upload_path")
           r == ReadRoute(l.path, ds)
           blank == [BlankRoute EXCEPT !.path = l.path, !.uploadPath = place]
           methods == Range(All(ds, "allowed_methods"))
           target == Target(ds)
           code == atoi(Value(ds, "return"))
           home == Value(ds, "root")
           listing == IsOn(Value(ds, "autoindex"))
           files == All(ds, "index")
           cgi == SaidPairs(All(ds, "cgi_extension"))
           upload == IsOn(Value(ds, "allow_upload"))
           limit == atoi(Value(ds, "client_max_body_size"))
           path == l.path
<1>1. r = RouteOf(path, methods, target, code, home, listing, files, cgi, upload, place, limit)
  BY DEF ReadRoute
<1>2. SaidRoute(l) = RouteOf(path, methods, target, code, home, listing, files, cgi, upload,
                             UploadPath(blank), limit)
  BY DEF SaidRoute, RouteOf, Target, IsOn
<1>3. blank.path = path /\ blank.uploadPath = place
  BY DEF BlankRoute
<1>4. validateRoutes([path |-> path, uploadPath |-> place]) <=>
        path # <<>> /\ place \in {<<>>} \cup Directories \cup Existing
  BY DEF validateRoutes
<1> HIDE DEF r, blank, methods, target, code, home, listing, files, cgi, upload, limit, place, path
<1>5. r.path = path /\ r.uploadPath = place
  BY <1>1 DEF RouteOf
<1>6. UploadPath(r) = UploadPath(blank)
  BY <1>3, <1>5 DEF UploadPath
<1>7. [r EXCEPT !.uploadPath = UploadPath(r)] = SaidRoute(l)
  <2> DEFINE v == UploadPath(blank)
  <2> HIDE DEF v
  <2>1. [r EXCEPT !.uploadPath = v]
          = RouteOf(path, methods, target, code, home, listing, files, cgi, upload, v, limit)
    BY <1>1 DEF RouteOf
  <2> QED BY <1>2, <1>6, <2>1 DEF v
<1>8. LocationIsRight(l) => validateRoutes(r)
  BY <1>4, <1>5 DEF LocationIsRight, validateRoutes, path, place
<1> QED BY <1>7, <1>8 DEF r

SaidRoutes(s, j) == [i \in 1..j |-> SaidRoute(s.locations[i])]

LEMMA AllOfAServer ==
  ASSUME NEW s \in Servers, ServerIsRight(s)
  PROVE  ReadServer(s.directives, SaidRoutes(s, Len(s.locations))) = SaidServer(s)
<1> DEFINE ds == s.directives
<1>1. Named(ds, "listen") # {}
  BY DEF ServerIsRight
<1> QED BY <1>1 DEF ReadServer, ServerOf, SaidServer, SaidRoutes, HostOf, PortOf

----------------------------------------------------------------------------
(* What the parser makes of a line.                                        *)

\* The parser by its fields.
ParserIs(q, block, tokens, at, server, route, configs) ==
  /\ DOMAIN q = DOMAIN NewParser
  /\ q.block = block /\ q.tokens = tokens /\ q.at = at
  /\ q.server = server /\ q.route = route /\ q.configs = configs

LEMMA BlockChanges ==
  ASSUME NEW p, NEW b, NEW t, NEW a, NEW s, NEW r, NEW c, ParserIs(p, b, t, a, s, r, c), NEW v
  PROVE  ParserIs([p EXCEPT !.block = v], v, t, a, s, r, c)
BY FieldsOfTheParser DEF ParserIs

LEMMA PlaceChanges ==
  ASSUME NEW p, NEW b, NEW t, NEW a, NEW s, NEW r, NEW c, ParserIs(p, b, t, a, s, r, c), NEW v
  PROVE  ParserIs([p EXCEPT !.at = v], b, t, v, s, r, c)
BY FieldsOfTheParser DEF ParserIs

LEMMA ServerChanges ==
  ASSUME NEW p, NEW b, NEW t, NEW a, NEW s, NEW r, NEW c, ParserIs(p, b, t, a, s, r, c), NEW v
  PROVE  ParserIs([p EXCEPT !.server = v], b, t, a, v, r, c)
BY FieldsOfTheParser DEF ParserIs

LEMMA RouteChanges ==
  ASSUME NEW p, NEW b, NEW t, NEW a, NEW s, NEW r, NEW c, ParserIs(p, b, t, a, s, r, c), NEW v
  PROVE  ParserIs([p EXCEPT !.route = v], b, t, a, s, v, c)
BY FieldsOfTheParser DEF ParserIs

LEMMA ConfigsChange ==
  ASSUME NEW p, NEW b, NEW t, NEW a, NEW s, NEW r, NEW c, ParserIs(p, b, t, a, s, r, c), NEW v
  PROVE  ParserIs([p EXCEPT !.configs = v], b, t, a, s, r, v)
BY FieldsOfTheParser DEF ParserIs

LEMMA SkipMoves ==
  ASSUME NEW p, NEW b, NEW t, NEW a, NEW s, NEW r, NEW c, ParserIs(p, b, t, a, s, r, c), NEW n
  PROVE  ParserIs(Skip(p, n), b, t, a + n, s, r, c)
<1>1. Skip(p, n) = [p EXCEPT !.at = p.at + n] /\ p.at = a
  BY DEF Skip, ParserIs
<1> QED BY <1>1, PlaceChanges

\* The parser is where a list of words with a semicolon behind it begins.
SeesWords(p, words) ==
  /\ p.at + Len(words) <= Len(p.tokens)
  /\ \A i \in 1..Len(words) : p.tokens[p.at + i - 1] = words[i]
  /\ p.tokens[p.at + Len(words)] = Semicolon

PlainWords(words) ==
  words \in Seq(Tokens) /\ words # <<>> /\ \A i \in 1..Len(words) : words[i] # Semicolon

LEMMA PlainArguments ==
  ASSUME NEW d \in Directives, DirectiveIsRight(d)
  PROVE  PlainWords(d.args) /\ <<d.name>> # Semicolon
<1>1. IsSuffix(Semicolon, Semicolon)
  <2>1. Semicolon \in Tokens
    BY MarksAreTokens
  <2>2. Len(Semicolon) = 1 /\ Semicolon[1] = ";"
    BY DEF Semicolon
  <2>3. Semicolon # <<>>
    BY DEF Semicolon
  <2>4. Semicolon[Len(Semicolon)] = ";"
    BY <2>2
  <2> QED BY <2>1, <2>3, <2>4, EndsWithSemicolon
<1>2. d.args \in Seq(Tokens) /\ d.args # <<>>
  BY ArgumentsAreTokens
<1>3. \A i \in 1..Len(d.args) : IsPlain(d.args[i])
  BY <1>2 DEF DirectiveIsRight, Range
<1> QED BY <1>1, <1>2, <1>3 DEF PlainWords, IsPlain, DirectiveIsRight

LEMMA NextSemicolonIs ==
  ASSUME NEW p, ParserIsSound(p), NEW words, PlainWords(words), SeesWords(p, words),
         NEW ahead \in Nat, ahead <= Len(words)
  PROVE  NextSemicolon(p, ahead) = p.at + Len(words)
<1> DEFINE I == {i \in (p.at + ahead)..Len(p.tokens) : p.tokens[i] = Semicolon}
           n == p.at + Len(words)
<1>1. NextSemicolon(p, ahead) = IF I # {} THEN Min(I) ELSE 0
  BY DEF NextSemicolon, SelectInSubSeq
<1>2. /\ p.at \in Nat \ {0} /\ Len(words) \in Nat /\ Len(p.tokens) \in Nat
      /\ n <= Len(p.tokens) /\ n \in Nat
  BY DEF ParserIsSound, PlainWords, SeesWords
<1>3. n \in I
  <2>1. n \in (p.at + ahead)..Len(p.tokens)
    BY <1>2
  <2> QED BY <2>1 DEF SeesWords
<1>4. \A i \in I : n <= i
  <2> SUFFICES ASSUME NEW i \in I, i < n PROVE FALSE
    BY <1>2
  <2>1. i \in Nat /\ p.at <= i
    BY <1>2
  <2>2. i - p.at + 1 \in 1..Len(words) /\ p.at + (i - p.at + 1) - 1 = i
    BY SMTT(40), <1>2, <2>1
  <2>3. p.tokens[i] = words[i - p.at + 1]
    BY <2>2 DEF SeesWords
  <2> QED BY <2>2, <2>3 DEF PlainWords
<1>5. I \in SUBSET Nat
  BY <1>2
<1> HIDE DEF I, n
<1>6. Min(I) \in I /\ \A i \in I : Min(I) <= i
  BY <1>3, <1>5, LeastIsOne
<1>7. Min(I) = n
  <2>1. Min(I) <= n /\ n <= Min(I) /\ Min(I) \in Nat
    BY <1>3, <1>4, <1>5, <1>6
  <2> QED BY <1>2, <2>1
<1>8. I # {}
  BY <1>3
<1> QED BY <1>1, <1>7, <1>8 DEF n

LEMMA ValuesAre ==
  ASSUME NEW p, ParserIsSound(p), NEW words, PlainWords(words), SeesWords(p, words)
  PROVE  /\ Values(p) = words /\ getCurrentToken(p) = words[1]
         /\ Len(words) >= 1 /\ hasMoreTokens(p) /\ hasMoreTokens(Skip(p, 1))
<1> DEFINE n == p.at + Len(words) - 1
           piece == SubSeq(p.tokens, p.at, n)
<1>1. /\ p.at \in Nat \ {0} /\ Len(words) \in Nat \ {0} /\ p.tokens \in Seq(Tokens)
      /\ Len(p.tokens) \in Nat /\ p.at + Len(words) <= Len(p.tokens)
  BY DEF ParserIsSound, PlainWords, SeesWords
<1> HIDE DEF piece
<1>2. Values(p) = piece
  <2>1. NextSemicolon(p, 0) = p.at + Len(words)
    <3>1. 0 \in Nat /\ 0 <= Len(words)
      BY <1>1
    <3> QED BY <3>1, NextSemicolonIs
  <2>2. NextSemicolon(p, 0) - 1 = n
    BY <1>1, <2>1
  <2> QED BY <2>2 DEF Values, piece
<1>3. n \in Int /\ n <= Len(p.tokens) /\ p.at <= n /\ n - p.at + 1 = Len(words)
  BY <1>1
<1>4. /\ piece \in Seq(Tokens) /\ Len(piece) = Len(words)
      /\ \A i \in 1..Len(words) : piece[i] = p.tokens[p.at + i - 1]
  <2> HIDE DEF n
  <2>1. /\ SubSeq(p.tokens, p.at, n) \in Seq(Tokens)
        /\ Len(SubSeq(p.tokens, p.at, n)) = IF p.at <= n THEN n - p.at + 1 ELSE 0
        /\ \A i \in 1..(n - p.at + 1) : SubSeq(p.tokens, p.at, n)[i] = p.tokens[p.at + i - 1]
    BY SMTT(40), <1>1, <1>3, PieceIsASequence
  <2> QED BY <1>3, <2>1 DEF piece
<1> HIDE DEF n
<1>5. piece = words
  <2>1. words \in Seq(Tokens)
    BY DEF PlainWords
  <2>2. \A i \in 1..Len(words) : piece[i] = words[i]
    BY <1>4 DEF SeesWords
  <2> QED BY <1>4, <2>1, <2>2
<1>6. p.tokens[p.at] = words[1]
  <2>1. 1 \in 1..Len(words) /\ p.at + 1 - 1 = p.at
    BY <1>1
  <2> QED BY <2>1 DEF SeesWords
<1>7. Skip(p, 1).at = p.at + 1 /\ Skip(p, 1).tokens = p.tokens
  BY FieldsOfTheParser DEF ParserIsSound, Skip
<1> QED BY <1>1, <1>2, <1>5, <1>6, <1>7 DEF getCurrentToken, hasMoreTokens

\* A token that is expected, and is there.
LEMMA ExpectedToken ==
  ASSUME NEW q, NEW b, NEW t, NEW a, NEW s, NEW r, NEW c, ParserIs(q, b, t, a, s, r, c),
         NEW token, a <= Len(t), t[a] = token
  PROVE  ParserIs(expectToken(q, token), b, t, a + 1, s, r, c)
<1>1. hasMoreTokens(q) /\ getCurrentToken(q) = token
  BY DEF hasMoreTokens, getCurrentToken, ParserIs
<1>2. expectToken(q, token) = Skip(q, 1)
  BY <1>1 DEF expectToken
<1> QED BY <1>2, SkipMoves

LEMMA OneValueReads ==
  ASSUME NEW p, ParserIsSound(p), NEW words, PlainWords(words), SeesWords(p, words),
         Len(words) = 1, NEW q, NEW b, NEW s, NEW r, NEW c,
         ParserIs(q, b, p.tokens, p.at, s, r, c)
  PROVE  ParserIs(OneValue(p, q), b, p.tokens, p.at + Len(words) + 1, s, r, c)
<1>1. /\ p.at \in Nat /\ p.at + 1 <= Len(p.tokens) /\ p.tokens[p.at + 1] = Semicolon
      /\ p.at + 1 + 1 = p.at + Len(words) + 1
  BY DEF ParserIsSound, SeesWords
<1>2. OneValue(p, q) = expectToken(Skip(q, 1), Semicolon)
  BY ValuesAre DEF OneValue
<1>3. ParserIs(Skip(q, 1), b, p.tokens, p.at + 1, s, r, c)
  BY SkipMoves
<1>4. ParserIs(expectToken(Skip(q, 1), Semicolon), b, p.tokens, p.at + 1 + 1, s, r, c)
  BY <1>1, <1>3, ExpectedToken
<1> QED BY <1>1, <1>2, <1>4

LEMMA TwoValuesRead ==
  ASSUME NEW p, ParserIsSound(p), NEW words, PlainWords(words), SeesWords(p, words),
         Len(words) = 2, NEW q, NEW b, NEW s, NEW r, NEW c,
         ParserIs(q, b, p.tokens, p.at, s, r, c)
  PROVE  ParserIs(TwoValues(p, q), b, p.tokens, p.at + Len(words) + 1, s, r, c)
<1>1. /\ p.at \in Nat /\ p.at + 2 <= Len(p.tokens) /\ p.tokens[p.at + 2] = Semicolon
      /\ p.at + 2 + 1 = p.at + Len(words) + 1
  BY DEF ParserIsSound, SeesWords
<1>2. TwoValues(p, q) = expectToken(Skip(q, 2), Semicolon)
  BY ValuesAre DEF TwoValues
<1>3. ParserIs(Skip(q, 2), b, p.tokens, p.at + 2, s, r, c)
  BY SkipMoves
<1>4. ParserIs(expectToken(Skip(q, 2), Semicolon), b, p.tokens, p.at + 2 + 1, s, r, c)
  BY <1>1, <1>3, ExpectedToken
<1> QED BY <1>1, <1>2, <1>4

LEMMA ListIsRead ==
  ASSUME NEW p, ParserIsSound(p), NEW words, PlainWords(words), SeesWords(p, words),
         NEW q, NEW b, NEW s, NEW r, NEW c, ParserIs(q, b, p.tokens, p.at, s, r, c)
  PROVE  ParserIs(ListOf(p, q), b, p.tokens, p.at + Len(words) + 1, s, r, c)
<1>1. NextSemicolon(p, 0) = p.at + Len(words) /\ p.at + Len(words) # 0
  <2>1. p.at \in Nat \ {0} /\ Len(words) \in Nat
    BY DEF ParserIsSound, PlainWords
  <2> QED BY <2>1, NextSemicolonIs
<1>2. ListOf(p, q) = [q EXCEPT !.at = p.at + Len(words) + 1]
  BY <1>1 DEF ListOf
<1> QED BY <1>2, PlaceChanges

\* The parser with another server or another location, of which nothing has been read.
LEMMA FieldsOfAParser ==
  ASSUME NEW p, ParserIsSound(p)
  PROVE  ParserIs(p, p.block, p.tokens, p.at, p.server, p.route, p.configs)
BY DEF ParserIsSound, ParserIs

LEMMA OtherServer ==
  ASSUME NEW p, ParserIsSound(p), NEW s
  PROVE  ParserIs([p EXCEPT !.server = s], p.block, p.tokens, p.at, s, p.route, p.configs)
BY FieldsOfAParser, ServerChanges

LEMMA OtherRoute ==
  ASSUME NEW p, ParserIsSound(p), NEW r
  PROVE  ParserIs([p EXCEPT !.route = r], p.block, p.tokens, p.at, p.server, r, p.configs)
BY FieldsOfAParser, RouteChanges

\* The parser p behind a directive with these words: another server, another location.
HasReadOfServer(q, p, words, s) ==
  ParserIs(q, p.block, p.tokens, p.at + Len(words) + 1, s, p.route, p.configs)
HasReadOfLocation(q, p, words, r) ==
  ParserIs(q, p.block, p.tokens, p.at + Len(words) + 1, p.server, r, p.configs)

LEMMA ServerNameReads ==
  ASSUME NEW p, ParserIsSound(p), NEW words, PlainWords(words), SeesWords(p, words)
  PROVE  HasReadOfServer(setServerName(p), p, words,
           [p.server EXCEPT !.server_names = p.server.server_names \o words])
<1> DEFINE s == [p.server EXCEPT !.server_names = p.server.server_names \o Values(p)]
           q == [p EXCEPT !.server = s]
<1>1. ParserIs(q, p.block, p.tokens, p.at, s, p.route, p.configs)
  <2> HIDE DEF s
  <2> QED BY OtherServer
<1>2. setServerName(p) = ListOf(p, q)
  BY DEF setServerName
<1>3. s = [p.server EXCEPT !.server_names = p.server.server_names \o words]
  BY ValuesAre
<1> HIDE DEF q, s
<1> QED BY <1>1, <1>2, <1>3, ListIsRead DEF HasReadOfServer

LEMMA BodySizeReads ==
  ASSUME NEW p, ParserIsSound(p), NEW words, PlainWords(words), SeesWords(p, words),
         Len(words) = 1
  PROVE  HasReadOfServer(setServerBodySize(p), p, words,
           [p.server EXCEPT !.client_max_body_size = atoi(words[1])])
<1> DEFINE s == [p.server EXCEPT !.client_max_body_size = atoi(getCurrentToken(p))]
           q == [p EXCEPT !.server = s]
<1>1. ParserIs(q, p.block, p.tokens, p.at, s, p.route, p.configs)
  <2> HIDE DEF s
  <2> QED BY OtherServer
<1>2. setServerBodySize(p) = OneValue(p, q)
  BY DEF setServerBodySize
<1>3. s = [p.server EXCEPT !.client_max_body_size = atoi(words[1])]
  BY ValuesAre
<1> HIDE DEF q, s
<1> QED BY <1>1, <1>2, <1>3, OneValueReads DEF HasReadOfServer

LEMMA ServerRootReads ==
  ASSUME NEW p, ParserIsSound(p), NEW words, PlainWords(words), SeesWords(p, words),
         Len(words) = 1
  PROVE  HasReadOfServer(setServerRoot(p), p, words, [p.server EXCEPT !.root = words[1]])
<1> DEFINE s == [p.server EXCEPT !.root = getCurrentToken(p)]
           q == [p EXCEPT !.server = s]
<1>1. ParserIs(q, p.block, p.tokens, p.at, s, p.route, p.configs)
  <2> HIDE DEF s
  <2> QED BY OtherServer
<1>2. setServerRoot(p) = OneValue(p, q)
  BY DEF setServerRoot
<1>3. s = [p.server EXCEPT !.root = words[1]]
  BY ValuesAre
<1> HIDE DEF q, s
<1> QED BY <1>1, <1>2, <1>3, OneValueReads DEF HasReadOfServer

LEMMA ListenReads ==
  ASSUME NEW p, ParserIsSound(p), NEW words, PlainWords(words), SeesWords(p, words),
         Len(words) = 1
  PROVE  HasReadOfServer(setListen(p), p, words,
           [p.server EXCEPT !.host = HostOf(words[1]), !.port = PortOf(words[1])])
<1> DEFINE host == HostOf(words[1])
           port == PortOf(words[1])
           s == [p.server EXCEPT !.host = host, !.port = port]
           q == [p EXCEPT !.server = s]
<1>1. ParserIs(q, p.block, p.tokens, p.at, s, p.route, p.configs)
  <2> HIDE DEF s
  <2> QED BY OtherServer
<1>2. setListen(p) = OneValue(p, q)
  <2>1. setListen(p) = OneValue(p, [p EXCEPT !.server.host = host, !.server.port = port])
    BY ValuesAre DEF setListen, HostOf, PortOf
  <2>2. "server" \in DOMAIN p
    BY FieldsOfTheParser DEF ParserIsSound
  <2> HIDE DEF host, port
  <2>3. [p EXCEPT !.server.host = host, !.server.port = port] = q
    BY <2>2
  <2> QED BY <2>1, <2>3
<1> HIDE DEF q, s
<1>3. HasReadOfServer(setListen(p), p, words, s)
  BY <1>1, <1>2, OneValueReads DEF HasReadOfServer
<1> QED BY <1>3 DEF s

\* The words up to the last are the codes (setErrorPage).
LEMMA ErrorPageReads ==
  ASSUME NEW p, ParserIsSound(p), NEW words, PlainWords(words), SeesWords(p, words),
         Len(words) >= 2
  PROVE  HasReadOfServer(setErrorPage(p), p, words,
           [p.server EXCEPT !.error_pages =
              Over([code \in {atoi(word) : word \in Range(Front(words))} |-> Last(words)],
                   p.server.error_pages)])
<1> DEFINE end == NextSemicolon(p, 2)
           n == Len(words)
           codes == {atoi(p.tokens[i]) : i \in CodesUpTo(p, end)}
           said == {atoi(word) : word \in Range(Front(words))}
           pages == Over([code \in said |-> Last(words)], p.server.error_pages)
           s == [p.server EXCEPT !.error_pages = pages]
           q == [p EXCEPT !.server = s]
<1>1. /\ p.at \in Nat \ {0} /\ n \in Nat /\ words \in Seq(Tokens) /\ words # <<>>
      /\ end = p.at + n
  <2>1. p.at \in Nat \ {0} /\ n \in Nat /\ words \in Seq(Tokens) /\ words # <<>>
    BY DEF ParserIsSound, PlainWords
  <2>2. 2 \in Nat /\ 2 <= Len(words)
    BY <2>1
  <2> QED BY <2>1, <2>2, NextSemicolonIs
<1> HIDE DEF end
<1>2. p.tokens[end - 1] = Last(words)
  <2>1. n \in 1..n /\ p.at + n - 1 = end - 1
    BY <1>1
  <2>2. p.tokens[p.at + n - 1] = words[n]
    BY <2>1 DEF SeesWords
  <2> QED BY <2>1, <2>2 DEF Last
<1>3. /\ Front(words) \in Seq(Tokens) /\ Len(Front(words)) = n - 1
      /\ \A i \in 1..(n - 1) : Front(words)[i] = words[i]
  BY <1>1 DEF Front
<1>4. codes = said
  <2>1. ASSUME NEW i \in CodesUpTo(p, end)
        PROVE  \E word \in Range(Front(words)) : atoi(p.tokens[i]) = atoi(word)
    <3> DEFINE j == i - p.at + 1
    <3>1. i \in Int /\ p.at <= i /\ i <= end - 2
      BY <1>1 DEF CodesUpTo
    <3>2. j \in 1..(n - 1) /\ j \in 1..n /\ p.at + j - 1 = i
      <4> DEFINE a == p.at
      <4>1. i \in Int /\ a \in Int /\ n \in Int /\ a <= i /\ i <= a + n - 2
        BY <1>1, <3>1
      <4> HIDE DEF a, n
      <4>2. (i - a + 1) \in 1..(n - 1) /\ (i - a + 1) \in 1..n /\ a + (i - a + 1) - 1 = i
        BY ONLY <4>1
      <4> QED BY ONLY <4>2 DEF j, a
    <3> HIDE DEF j
    <3>3. p.tokens[i] = Front(words)[j]
      BY <1>3, <3>2 DEF SeesWords
    <3>4. j \in 1..Len(Front(words))
      BY <1>3, <3>2
    <3>5. Front(words)[j] \in Range(Front(words))
      BY <1>3, <3>4 DEF Range
    <3> QED BY <3>3, <3>5
  <2>2. ASSUME NEW word \in Range(Front(words))
        PROVE  \E i \in CodesUpTo(p, end) : atoi(p.tokens[i]) = atoi(word)
    <3>1. PICK j \in 1..(n - 1) : word = Front(words)[j]
      BY <1>3 DEF Range
    <3>2. j \in 1..n /\ p.at + j - 1 \in p.at..(end - 2)
      BY <1>1
    <3>3. p.tokens[p.at + j - 1] = word
      BY <1>3, <3>1, <3>2 DEF SeesWords
    <3> QED BY <3>2, <3>3 DEF CodesUpTo
  <2> QED BY <2>1, <2>2
<1>5. setErrorPage(p) = [q EXCEPT !.at = p.at + n + 1]
  <2> DEFINE t == [p EXCEPT !.at = end + 1, !.server.error_pages = pages]
  <2>1. p.server.error_pages = p.server["error_pages"]
    OBVIOUS
  <2>2. Over([code \in codes |-> p.tokens[end - 1]], p.server.error_pages) = pages
    <3>1. [code \in codes |-> p.tokens[end - 1]] = [code \in said |-> Last(words)]
      BY <1>2, <1>4
    <3> QED BY <3>1
  <2>3. setErrorPage(p) = IF end = 0 THEN Refused(p)
          ELSE [p EXCEPT !.at = end + 1, !.server.error_pages =
                  Over([code \in codes |-> p.tokens[end - 1]], p.server.error_pages)]
    BY FieldsOfTheParser DEF setErrorPage, end, ParserIsSound
  <2> HIDE DEF codes, pages
  <2>4. setErrorPage(p) = t
    <3>1. end # 0
      BY <1>1
    <3> QED BY <2>2, <2>3, <3>1
  <2>5. t = [q EXCEPT !.at = end + 1]
    BY FieldsOfTheParser DEF ParserIsSound
  <2> QED BY <1>1, <2>4, <2>5
<1>6. ParserIs(q, p.block, p.tokens, p.at, s, p.route, p.configs)
  <2> HIDE DEF s
  <2> QED BY OtherServer
<1> HIDE DEF q
<1>7. ParserIs([q EXCEPT !.at = p.at + n + 1], p.block, p.tokens, p.at + n + 1, s,
               p.route, p.configs)
  <2> HIDE DEF s
  <2> QED BY <1>6, PlaceChanges
<1> QED BY <1>5, <1>7 DEF HasReadOfServer

LEMMA RootReads ==
  ASSUME NEW p, ParserIsSound(p), NEW words, PlainWords(words), SeesWords(p, words),
         Len(words) = 1
  PROVE  HasReadOfLocation(setRoot(p), p, words, [p.route EXCEPT !.root = words[1]])
<1> DEFINE r == [p.route EXCEPT !.root = getCurrentToken(p)]
           q == [p EXCEPT !.route = r]
<1>1. ParserIs(q, p.block, p.tokens, p.at, p.server, r, p.configs)
  <2> HIDE DEF r
  <2> QED BY OtherRoute
<1>2. setRoot(p) = OneValue(p, q)
  BY DEF setRoot
<1>3. r = [p.route EXCEPT !.root = words[1]]
  BY ValuesAre DEF IsOn
<1> HIDE DEF q, r
<1> QED BY <1>1, <1>2, <1>3, OneValueReads DEF HasReadOfLocation

LEMMA AutoIndexReads ==
  ASSUME NEW p, ParserIsSound(p), NEW words, PlainWords(words), SeesWords(p, words),
         Len(words) = 1
  PROVE  HasReadOfLocation(setAutoIndex(p), p, words,
                           [p.route EXCEPT !.isDirectoryListing = IsOn(words[1])])
<1> DEFINE r == [p.route EXCEPT !.isDirectoryListing = (getCurrentToken(p) = <<"on">>)]
           q == [p EXCEPT !.route = r]
<1>1. ParserIs(q, p.block, p.tokens, p.at, p.server, r, p.configs)
  <2> HIDE DEF r
  <2> QED BY OtherRoute
<1>2. setAutoIndex(p) = OneValue(p, q)
  BY DEF setAutoIndex
<1>3. r = [p.route EXCEPT !.isDirectoryListing = IsOn(words[1])]
  BY ValuesAre DEF IsOn
<1> HIDE DEF q, r
<1> QED BY <1>1, <1>2, <1>3, OneValueReads DEF HasReadOfLocation

LEMMA AllowUploadReads ==
  ASSUME NEW p, ParserIsSound(p), NEW words, PlainWords(words), SeesWords(p, words),
         Len(words) = 1
  PROVE  HasReadOfLocation(setAllowUpload(p), p, words,
                           [p.route EXCEPT !.uploadAllowed = IsOn(words[1])])
<1> DEFINE r == [p.route EXCEPT !.uploadAllowed = (getCurrentToken(p) = <<"on">>)]
           q == [p EXCEPT !.route = r]
<1>1. ParserIs(q, p.block, p.tokens, p.at, p.server, r, p.configs)
  <2> HIDE DEF r
  <2> QED BY OtherRoute
<1>2. setAllowUpload(p) = OneValue(p, q)
  BY DEF setAllowUpload
<1>3. r = [p.route EXCEPT !.uploadAllowed = IsOn(words[1])]
  BY ValuesAre DEF IsOn
<1> HIDE DEF q, r
<1> QED BY <1>1, <1>2, <1>3, OneValueReads DEF HasReadOfLocation

LEMMA UploadPathReads ==
  ASSUME NEW p, ParserIsSound(p), NEW words, PlainWords(words), SeesWords(p, words),
         Len(words) = 1
  PROVE  HasReadOfLocation(setUploadPath(p), p, words, [p.route EXCEPT !.uploadPath = words[1]])
<1> DEFINE r == [p.route EXCEPT !.uploadPath = getCurrentToken(p)]
           q == [p EXCEPT !.route = r]
<1>1. ParserIs(q, p.block, p.tokens, p.at, p.server, r, p.configs)
  <2> HIDE DEF r
  <2> QED BY OtherRoute
<1>2. setUploadPath(p) = OneValue(p, q)
  BY DEF setUploadPath
<1>3. r = [p.route EXCEPT !.uploadPath = words[1]]
  BY ValuesAre DEF IsOn
<1> HIDE DEF q, r
<1> QED BY <1>1, <1>2, <1>3, OneValueReads DEF HasReadOfLocation

LEMMA RouteBodySizeReads ==
  ASSUME NEW p, ParserIsSound(p), NEW words, PlainWords(words), SeesWords(p, words),
         Len(words) = 1
  PROVE  HasReadOfLocation(setRouteBodySize(p), p, words,
                           [p.route EXCEPT !.client_max_body_size = atoi(words[1])])
<1> DEFINE r == [p.route EXCEPT !.client_max_body_size = atoi(getCurrentToken(p))]
           q == [p EXCEPT !.route = r]
<1>1. ParserIs(q, p.block, p.tokens, p.at, p.server, r, p.configs)
  <2> HIDE DEF r
  <2> QED BY OtherRoute
<1>2. setRouteBodySize(p) = OneValue(p, q)
  BY DEF setRouteBodySize
<1>3. r = [p.route EXCEPT !.client_max_body_size = atoi(words[1])]
  BY ValuesAre DEF IsOn
<1> HIDE DEF q, r
<1> QED BY <1>1, <1>2, <1>3, OneValueReads DEF HasReadOfLocation

LEMMA MethodsRead ==
  ASSUME NEW p, ParserIsSound(p), NEW words, PlainWords(words), SeesWords(p, words)
  PROVE  HasReadOfLocation(setAllowedMethods(p), p, words,
           [p.route EXCEPT !.allowedMethods = p.route.allowedMethods \cup Range(words)])
<1> DEFINE r == [p.route EXCEPT !.allowedMethods = p.route.allowedMethods \cup Range(Values(p))]
           q == [p EXCEPT !.route = r]
<1>1. ParserIs(q, p.block, p.tokens, p.at, p.server, r, p.configs)
  <2> HIDE DEF r
  <2> QED BY OtherRoute
<1>2. setAllowedMethods(p) = ListOf(p, q)
  BY DEF setAllowedMethods
<1>3. r = [p.route EXCEPT !.allowedMethods = p.route.allowedMethods \cup Range(words)]
  BY ValuesAre
<1> HIDE DEF q, r
<1> QED BY <1>1, <1>2, <1>3, ListIsRead DEF HasReadOfLocation

LEMMA IndexReads ==
  ASSUME NEW p, ParserIsSound(p), NEW words, PlainWords(words), SeesWords(p, words)
  PROVE  HasReadOfLocation(setIndex(p), p, words,
           [p.route EXCEPT !.defaultFiles = p.route.defaultFiles \o words])
<1> DEFINE r == [p.route EXCEPT !.defaultFiles = p.route.defaultFiles \o Values(p)]
           q == [p EXCEPT !.route = r]
<1>1. ParserIs(q, p.block, p.tokens, p.at, p.server, r, p.configs)
  <2> HIDE DEF r
  <2> QED BY OtherRoute
<1>2. setIndex(p) = ListOf(p, q)
  BY DEF setIndex
<1>3. r = [p.route EXCEPT !.defaultFiles = p.route.defaultFiles \o words]
  BY ValuesAre
<1> HIDE DEF q, r
<1> QED BY <1>1, <1>2, <1>3, ListIsRead DEF HasReadOfLocation

LEMMA ReturnReads ==
  ASSUME NEW p, ParserIsSound(p), NEW words, PlainWords(words), SeesWords(p, words),
         Len(words) = 2
  PROVE  HasReadOfLocation(setReturn(p), p, words,
           [p.route EXCEPT !.redirectCode = atoi(words[1]), !.redirectPath = words[2]])
<1> DEFINE code == atoi(words[1])
           target == words[2]
           r == [p.route EXCEPT !.redirectCode = code, !.redirectPath = target]
           q == [p EXCEPT !.route = r]
<1>1. ParserIs(q, p.block, p.tokens, p.at, p.server, r, p.configs)
  <2> HIDE DEF r
  <2> QED BY OtherRoute
<1>2. p.tokens[p.at + 1] = target
  <2>1. p.at \in Nat /\ 2 \in 1..Len(words)
    BY DEF ParserIsSound
  <2>2. p.at + 2 - 1 = p.at + 1
    BY <2>1
  <2> QED BY <2>1, <2>2 DEF SeesWords
<1>3. setReturn(p) = TwoValues(p, q)
  <2>1. setReturn(p)
          = TwoValues(p, [p EXCEPT !.route.redirectCode = code, !.route.redirectPath = target])
    <3> HIDE DEF target
    <3> QED BY <1>2, ValuesAre DEF setReturn
  <2>2. "route" \in DOMAIN p
    BY FieldsOfTheParser DEF ParserIsSound
  <2> HIDE DEF code, target
  <2>3. [p EXCEPT !.route.redirectCode = code, !.route.redirectPath = target] = q
    BY <2>2
  <2> QED BY <2>1, <2>3
<1> HIDE DEF q, r
<1>4. HasReadOfLocation(setReturn(p), p, words, r)
  BY <1>1, <1>3, TwoValuesRead DEF HasReadOfLocation
<1> QED BY <1>4 DEF r

\* The words are taken in pairs up to the semicolon (setCgi).
LEMMA CgiReads ==
  ASSUME NEW p, ParserIsSound(p), NEW words, PlainWords(words), SeesWords(p, words),
         Len(words) % 2 = 0
  PROVE  HasReadOfLocation(setCgi(p), p, words,
           [p.route EXCEPT !.cgiExtensions = Over(SaidPairs(words), p.route.cgiExtensions)])
<1> DEFINE end == NextSemicolon(p, 0)
           n == Len(words)
           pairs == Over(SaidPairs(words), p.route.cgiExtensions)
           r == [p.route EXCEPT !.cgiExtensions = pairs]
           q == [p EXCEPT !.route = r]
           t == [p EXCEPT !.route.cgiExtensions = pairs, !.at = end + 1]
<1>1. /\ p.at \in Nat \ {0} /\ n \in Nat /\ words \in Seq(Tokens) /\ words # <<>>
      /\ end = p.at + n /\ end # 0
  <2>1. p.at \in Nat \ {0} /\ n \in Nat /\ words \in Seq(Tokens) /\ words # <<>>
    BY DEF ParserIsSound, PlainWords
  <2>2. 0 \in Nat /\ 0 <= Len(words)
    BY <2>1
  <2> QED BY <2>1, <2>2, NextSemicolonIs
<1>2. PairsOf(words) = SaidPairs(words)
  BY <1>1, PairsAreSaid
<1>3. Values(p) = words /\ hasMoreTokens(Skip(p, 1))
  BY ValuesAre
<1>4. setCgi(p) = t
  <2> HIDE DEF end
  <2>1. NextSemicolon(p, 0) = end
    BY DEF end
  <2>2. setCgi(p) =
          IF ~hasMoreTokens(Skip(p, 1)) \/ FALSE THEN Refused(p)
          ELSE [p EXCEPT !.route.cgiExtensions = Over(PairsOf(words), @), !.at = end + 1]
    BY <1>1, <1>3, <2>1 DEF setCgi
  <2>3. [p EXCEPT !.route.cgiExtensions = Over(PairsOf(words), @), !.at = end + 1] = t
    BY <1>2, FieldsOfTheParser DEF ParserIsSound
  <2> QED BY <1>3, <2>2, <2>3
<1>5. t = [q EXCEPT !.at = p.at + n + 1]
  <2> HIDE DEF pairs, end
  <2>1. t = [q EXCEPT !.at = end + 1]
    BY FieldsOfTheParser DEF ParserIsSound
  <2> QED BY <1>1, <2>1
<1>6. ParserIs(q, p.block, p.tokens, p.at, p.server, r, p.configs)
  <2> HIDE DEF r
  <2> QED BY OtherRoute
<1> HIDE DEF q, t
<1>7. ParserIs([q EXCEPT !.at = p.at + n + 1], p.block, p.tokens, p.at + n + 1, p.server,
               r, p.configs)
  <2> HIDE DEF r
  <2> QED BY <1>6, PlaceChanges
<1> QED BY <1>4, <1>5, <1>7 DEF HasReadOfLocation

----------------------------------------------------------------------------
(* Every turn of the loops on a line that is right.                        *)

\* The parser is where these tokens begin.
SeesLine(p, words) ==
  /\ p.at + Len(words) <= Len(p.tokens) + 1
  /\ \A i \in 1..Len(words) : p.tokens[p.at + i - 1] = words[i]

LEMMA LineOfADirective ==
  ASSUME NEW d \in Directives
  PROVE  /\ LineWords(d) \in Seq(Tokens) /\ Len(LineWords(d)) = Len(d.args) + 2
         /\ Len(d.args) \in Nat /\ LineWords(d)[1] = <<d.name>>
         /\ \A i \in 1..Len(d.args) : LineWords(d)[1 + i] = d.args[i]
         /\ LineWords(d)[Len(d.args) + 2] = Semicolon
<1> DEFINE a == <<<<d.name>>>>
           b == d.args
           c == <<Semicolon>>
           n == Len(b)
<1>1. b \in Seq(Tokens) /\ <<d.name>> \in Tokens /\ Semicolon \in Tokens /\ n \in Nat
  BY ArgumentsAreTokens, MarksAreTokens
<1>2. a \in Seq(Tokens) /\ Len(a) = 1 /\ a[1] = <<d.name>>
  BY <1>1
<1>3. c \in Seq(Tokens) /\ Len(c) = 1 /\ c[1] = Semicolon
  BY <1>1
<1>4. LineWords(d) = (a \o b) \o c
  BY DEF LineWords
<1> HIDE DEF a, b, c
<1>5. /\ a \o b \in Seq(Tokens) /\ Len(a \o b) = 1 + n
      /\ (a \o b)[1] = a[1] /\ \A i \in 1..n : (a \o b)[1 + i] = b[i]
  <2>1. 1 \in 1..Len(a)
    BY <1>2
  <2> QED BY <1>1, <1>2, <2>1, PutBehind
<1>6. /\ (a \o b) \o c \in Seq(Tokens) /\ Len((a \o b) \o c) = 1 + n + 1
      /\ \A i \in 1..(1 + n) : ((a \o b) \o c)[i] = (a \o b)[i]
      /\ \A i \in 1..1 : ((a \o b) \o c)[1 + n + i] = c[i]
  <2> DEFINE ab == a \o b
  <2>1. ab \in Seq(Tokens) /\ Len(ab) = 1 + n
    BY <1>5
  <2> HIDE DEF ab
  <2>2. /\ ab \o c \in Seq(Tokens) /\ Len(ab \o c) = Len(ab) + 1
        /\ \A i \in 1..Len(ab) : (ab \o c)[i] = ab[i]
        /\ \A i \in 1..Len(c) : (ab \o c)[Len(ab) + i] = c[i]
    <3>1. /\ ab \o c \in Seq(Tokens) /\ Len(ab \o c) = Len(ab) + Len(c)
          /\ \A i \in 1..Len(ab) : (ab \o c)[i] = ab[i]
          /\ \A i \in 1..Len(c) : (ab \o c)[Len(ab) + i] = c[i]
      <4>1. c \in Seq(Tokens) /\ ab \in Seq(Tokens)
        BY <1>3, <2>1
      <4> QED BY ONLY <4>1, PutBehind
    <3> QED BY <1>3, <3>1
  <2> QED BY <1>3, <2>1, <2>2 DEF ab
<1>7. /\ 1 \in 1..(1 + n) /\ \A i \in 1..n : 1 + i \in 1..(1 + n)
      /\ 1 \in 1..1 /\ 1 + n + 1 = n + 2
  BY <1>1
<1>8. n = Len(d.args)
  BY DEF b
<1> HIDE DEF n
<1> QED BY <1>1, <1>2, <1>3, <1>4, <1>5, <1>6, <1>7, <1>8 DEF b

LEMMA TokenIsSeen ==
  ASSUME NEW p, ParserIsSound(p), NEW words, Len(words) \in Nat \ {0}, SeesLine(p, words)
  PROVE  hasMoreTokens(p) /\ getCurrentToken(p) = words[1]
<1>1. p.at \in Nat /\ Len(p.tokens) \in Nat /\ 1 \in 1..Len(words)
  BY DEF ParserIsSound
<1>2. p.at + 1 - 1 = p.at /\ p.at <= Len(p.tokens)
  BY <1>1 DEF SeesLine
<1> QED BY <1>1, <1>2 DEF SeesLine, hasMoreTokens, getCurrentToken

LEMMA SkippedFields ==
  ASSUME NEW p, ParserIsSound(p), NEW n \in Nat
  PROVE  /\ Skip(p, n).block = p.block /\ Skip(p, n).tokens = p.tokens
         /\ Skip(p, n).at = p.at + n /\ Skip(p, n).server = p.server
         /\ Skip(p, n).route = p.route /\ Skip(p, n).configs = p.configs
         /\ ParserIsSound(Skip(p, n))
<1>1. ParserIs(Skip(p, n), p.block, p.tokens, p.at + n, p.server, p.route, p.configs)
  BY FieldsOfAParser, SkipMoves
<1> QED BY <1>1, SkipFollows DEF ParserIs

\* Behind the name of a directive are its words.
LEMMA ArgumentsAreSeen ==
  ASSUME NEW p, ParserIsSound(p), NEW d \in Directives, DirectiveIsRight(d),
         SeesLine(p, LineWords(d))
  PROVE  /\ hasMoreTokens(p) /\ getCurrentToken(p) = <<d.name>>
         /\ SeesWords(Skip(p, 1), d.args) /\ PlainWords(d.args)
<1> DEFINE n == Len(d.args)
           words == LineWords(d)
<1>1. /\ n \in Nat /\ Len(words) = n + 2 /\ words[1] = <<d.name>>
      /\ \A i \in 1..n : words[1 + i] = d.args[i]
      /\ words[n + 2] = Semicolon
  BY LineOfADirective
<1> HIDE DEF words, n
<1>2. /\ p.at \in Nat /\ Len(p.tokens) \in Nat /\ p.at + (n + 2) <= Len(p.tokens) + 1
      /\ \A i \in 1..(n + 2) : p.tokens[p.at + i - 1] = words[i]
  BY <1>1 DEF ParserIsSound, SeesLine, words
<1>3. hasMoreTokens(p) /\ getCurrentToken(p) = <<d.name>>
  <2>1. Len(words) \in Nat \ {0}
    BY <1>1
  <2> QED BY <1>1, <2>1, TokenIsSeen DEF words
<1>4. Skip(p, 1).at = p.at + 1 /\ Skip(p, 1).tokens = p.tokens
  BY SkippedFields
<1>5. (p.at + 1) + n <= Len(p.tokens)
  BY <1>1, <1>2
<1>6. ASSUME NEW i \in 1..n PROVE p.tokens[(p.at + 1) + i - 1] = d.args[i]
  <2>1. 1 + i \in 1..(n + 2) /\ p.at + (1 + i) - 1 = (p.at + 1) + i - 1
    BY <1>1, <1>2
  <2>2. p.tokens[p.at + (1 + i) - 1] = words[1 + i]
    BY <1>2, <2>1
  <2> QED BY <1>1, <2>1, <2>2
<1>7. p.tokens[(p.at + 1) + n] = Semicolon
  <2>1. n + 2 \in 1..(n + 2) /\ p.at + (n + 2) - 1 = (p.at + 1) + n
    <3>1. n \in Nat /\ p.at \in Nat
      BY <1>1, <1>2
    <3> QED BY ONLY <3>1
  <2>2. p.tokens[p.at + (n + 2) - 1] = words[n + 2]
    BY <1>2, <2>1
  <2> QED BY <1>1, <2>1, <2>2
<1>8. SeesWords(Skip(p, 1), d.args)
  BY <1>4, <1>5, <1>6, <1>7 DEF SeesWords, n
<1> QED BY <1>3, <1>8, PlainArguments

LEMMA NamesAreTokens ==
  ASSUME NEW a, NEW b, <<a>> = <<b>>
  PROVE  a = b
OBVIOUS

\* The turn of a loop that leads from the parser p to the parser q.
Behind(p) == Skip(p, 1)

ServerTurn(p, q) ==
  LET name == getCurrentToken(p) IN
  \/ name = <<"server_name">> /\ q = setServerName(Behind(p))
  \/ name = <<"listen">> /\ q = setListen(Behind(p))
  \/ name = <<"client_max_body_size">> /\ q = setServerBodySize(Behind(p))
  \/ name = <<"error_page">> /\ q = setErrorPage(Behind(p))
  \/ name = <<"root">> /\ q = setServerRoot(Behind(p))
  \/ name = <<"location">> /\ q = openLocation(Behind(p))

LocationTurn(p, q) ==
  LET name == getCurrentToken(p) IN
  \/ name = <<"root">> /\ q = setRoot(Behind(p))
  \/ name = <<"allowed_methods">> /\ q = setAllowedMethods(Behind(p))
  \/ name = <<"index">> /\ q = setIndex(Behind(p))
  \/ name = <<"autoindex">> /\ q = setAutoIndex(Behind(p))
  \/ name = <<"allow_upload">> /\ q = setAllowUpload(Behind(p))
  \/ name = <<"upload_path">> /\ q = setUploadPath(Behind(p))
  \/ name = <<"cgi_extension">> /\ q = setCgi(Behind(p))
  \/ name = <<"return">> /\ q = setReturn(Behind(p))
  \/ name = <<"client_max_body_size">> /\ q = setRouteBodySize(Behind(p))

Turn(p, q) ==
  \/ p.block = "file" /\ hasMoreTokens(p) /\ q = openServer(p)
  \/ /\ p.block = "file" /\ ~hasMoreTokens(p)
     /\ q = IF DOMAIN p.configs = {} THEN Refused(p) ELSE [p EXCEPT !.block = "done"]
  \/ p.block = "server" /\ hasMoreTokens(p) /\ ServerTurn(p, q)
  \/ p.block = "location" /\ hasMoreTokens(p) /\ LocationTurn(p, q)
  \/ /\ p.block \in {"server", "location"} /\ hasMoreTokens(p)
     /\ getCurrentToken(p) \notin Known(p.block) /\ q = Refused(p)
  \/ p.block = "server" /\ (hasMoreTokens(p) => getCurrentToken(p) = Closes) /\ q = closeServer(p)
  \/ /\ p.block = "location" /\ (hasMoreTokens(p) => getCurrentToken(p) = Closes)
     /\ q = closeLocation(p)

LEMMA ParseTakesATurn ==
  ASSUME Parse, parser.block # "unread"
  PROVE  Turn(parser, parser')
<1>1. OpenServer \/ ServerDirective \/ LocationDirective \/ UnknownDirective \/ CloseServer
      \/ CloseLocation \/ EndFile
  BY DEF Parse, OpenFile
<1>2. CASE OpenServer
  BY <1>2 DEF OpenServer, Turn
<1>3. CASE ServerDirective
  <2>1. parser.block = "server" /\ hasMoreTokens(parser) /\ ServerTurn(parser, parser')
    BY <1>3 DEF ServerDirective, Reads, ServerTurn, After, Behind
  <2> QED BY <2>1 DEF Turn
<1>4. CASE LocationDirective
  <2>1. parser.block = "location" /\ hasMoreTokens(parser) /\ LocationTurn(parser, parser')
    BY <1>4 DEF LocationDirective, Reads, LocationTurn, After, Behind
  <2> QED BY <2>1 DEF Turn
<1>5. CASE UnknownDirective
  BY <1>5 DEF UnknownDirective, Turn
<1>6. CASE CloseServer
  BY <1>6 DEF CloseServer, AtTheEnd, Turn
<1>7. CASE CloseLocation
  BY <1>7 DEF CloseLocation, AtTheEnd, Turn
<1>8. CASE EndFile
  BY <1>8 DEF EndFile, Turn
<1> QED BY <1>1, <1>2, <1>3, <1>4, <1>5, <1>6, <1>7, <1>8

\* Which turn is taken, when the token is there.
LEMMA ServerTurns ==
  ASSUME NEW p, NEW q, p.block = "server", Turn(p, q), hasMoreTokens(p), NEW name,
         getCurrentToken(p) = <<name>>
  PROVE  /\ name \in {"server_name", "listen", "client_max_body_size", "error_page", "root",
                      "location"} => ServerTurn(p, q)
         /\ name = "}" => q = closeServer(p)
<1>1. ASSUME name \in {"server_name", "listen", "client_max_body_size", "error_page", "root",
                       "location"}
      PROVE  ServerTurn(p, q)
  <2>1. <<name>> \in Known("server")
    BY <1>1 DEF Known
  <2>2. <<name>> # Closes
    BY <1>1, NamesAreTokens DEF Closes
  <2> QED BY <2>1, <2>2 DEF Turn
<1>2. ASSUME name = "}" PROVE q = closeServer(p)
  <2>1. Closes \in Known("server") /\ Closes = <<name>>
    BY <1>2 DEF Known, Closes
  <2>2. ~ServerTurn(p, q)
    BY <1>2, NamesAreTokens DEF ServerTurn
  <2> QED BY <2>1, <2>2 DEF Turn
<1> QED BY <1>1, <1>2

LEMMA LocationTurns ==
  ASSUME NEW p, NEW q, p.block = "location", Turn(p, q), hasMoreTokens(p), NEW name,
         getCurrentToken(p) = <<name>>
  PROVE  /\ name \in {"root", "allowed_methods", "index", "autoindex", "allow_upload",
                      "upload_path", "cgi_extension", "return", "client_max_body_size"}
              => LocationTurn(p, q)
         /\ name = "}" => q = closeLocation(p)
<1>1. ASSUME name \in {"root", "allowed_methods", "index", "autoindex", "allow_upload",
                       "upload_path", "cgi_extension", "return", "client_max_body_size"}
      PROVE  LocationTurn(p, q)
  <2>1. <<name>> \in Known("location")
    BY <1>1 DEF Known
  <2>2. <<name>> # Closes
    BY <1>1, NamesAreTokens DEF Closes
  <2> QED BY <2>1, <2>2 DEF Turn
<1>2. ASSUME name = "}" PROVE q = closeLocation(p)
  <2>1. Closes \in Known("location") /\ Closes = <<name>>
    BY <1>2 DEF Known, Closes
  <2>2. ~LocationTurn(p, q)
    BY <1>2, NamesAreTokens DEF LocationTurn
  <2> QED BY <2>1, <2>2 DEF Turn
<1> QED BY <1>1, <1>2

\* The parser behind a line, in the same block.
BehindLine(q, p, words, server, route) ==
  ParserIs(q, p.block, p.tokens, p.at + Len(words), server, route, p.configs)

LEMMA BehindADirective ==
  ASSUME NEW p, ParserIsSound(p), NEW d \in Directives, NEW q, NEW server, NEW route
  PROVE  /\ HasReadOfServer(q, Skip(p, 1), d.args, server)
              => BehindLine(q, p, LineWords(d), server, p.route)
         /\ HasReadOfLocation(q, Skip(p, 1), d.args, route)
              => BehindLine(q, p, LineWords(d), p.server, route)
<1>1. Len(d.args) \in Nat /\ p.at \in Nat /\ Len(LineWords(d)) = Len(d.args) + 2
  BY LineOfADirective DEF ParserIsSound
<1>2. (p.at + 1) + Len(d.args) + 1 = p.at + Len(LineWords(d))
  BY <1>1
<1>3. Skip(p, 1).at + Len(d.args) + 1 = p.at + Len(LineWords(d))
  BY <1>2, SkippedFields
<1> QED BY <1>3, SkippedFields DEF HasReadOfServer, HasReadOfLocation, BehindLine

LEMMA ServerDirectiveIsRead ==
  ASSUME NEW p, NEW q, ParserIsSound(p), p.block = "server", Turn(p, q),
         NEW ds \in Seq(Directives), NEW d \in Directives, ServerDirectiveIsRight(d), NEW read,
         p.server = ReadServer(ds, read), SeesLine(p, LineWords(d))
  PROVE  BehindLine(q, p, LineWords(d), ReadServer(Append(ds, d), read),
                    p.route)
<1> DEFINE old == ReadServer(ds, read)
           more == ReadServer(Append(ds, d), read)
<1>1. /\ hasMoreTokens(p) /\ getCurrentToken(p) = <<d.name>>
      /\ SeesWords(Behind(p), d.args) /\ PlainWords(d.args)
  BY RightDirectives, ArgumentsAreSeen DEF Behind
<1>2. ParserIsSound(Behind(p)) /\ Behind(p).server = old
  BY SkippedFields DEF Behind
<1>3. d.name \in {"server_name", "listen", "client_max_body_size", "error_page", "root"}
  BY DEF ServerDirectiveIsRight
<1>4. ServerTurn(p, q)
  <2>1. d.name \in {"server_name", "listen", "client_max_body_size", "error_page", "root",
                    "location"}
    BY <1>3
  <2> QED BY <1>1, <2>1, ServerTurns
<1>5. /\ d.name = "server_name" => q = setServerName(Behind(p))
      /\ d.name = "listen" => q = setListen(Behind(p))
      /\ d.name = "client_max_body_size" => q = setServerBodySize(Behind(p))
      /\ d.name = "error_page" => q = setErrorPage(Behind(p))
      /\ d.name = "root" => q = setServerRoot(Behind(p))
  BY <1>1, <1>4, NamesAreTokens DEF ServerTurn
<1>6. /\ d.name = "server_name" => more = [old EXCEPT !.server_names = old.server_names \o d.args]
      /\ d.name = "listen" => more = [old EXCEPT !.host = HostOf(d.args[1]),
                                               !.port = PortOf(d.args[1])]
      /\ d.name = "client_max_body_size" =>
            more = [old EXCEPT !.client_max_body_size = atoi(d.args[1])]
      /\ d.name = "error_page" =>
            more = [old EXCEPT !.error_pages =
                      Over([code \in Codes(d) |-> Last(d.args)], old.error_pages)]
      /\ d.name = "root" => more = [old EXCEPT !.root = d.args[1]]
  BY ZenonT(60), OneMoreOfAServer
<1> HIDE DEF old, more
<1>7. HasReadOfServer(q, Behind(p), d.args, more)
  <2>1. CASE d.name = "server_name"
    <3>1. HasReadOfServer(q, Behind(p), d.args,
                          [Behind(p).server EXCEPT !.server_names =
                             Behind(p).server.server_names \o d.args])
      BY <1>1, <1>2, <1>5, <2>1, ServerNameReads
    <3>2. more = [Behind(p).server EXCEPT !.server_names = Behind(p).server.server_names \o d.args]
      BY <1>2, <1>6, <2>1
    <3> QED BY <3>1, <3>2
  <2>2. CASE d.name = "listen"
    <3>1. Len(d.args) = 1
      BY <2>2 DEF ServerDirectiveIsRight
    <3>2. HasReadOfServer(q, Behind(p), d.args, [Behind(p).server EXCEPT
           !.host = HostOf(d.args[1]), !.port = PortOf(d.args[1])])
      BY <1>1, <1>2, <1>5, <2>2, ListenReads, <3>1
    <3>3. more = [Behind(p).server EXCEPT
           !.host = HostOf(d.args[1]), !.port = PortOf(d.args[1])]
      BY <1>2, <1>6, <2>2
    <3> QED BY <3>2, <3>3
  <2>3. CASE d.name = "client_max_body_size"
    <3>1. Len(d.args) = 1
      BY <2>3 DEF ServerDirectiveIsRight
    <3>2. HasReadOfServer(q, Behind(p), d.args, [Behind(p).server EXCEPT
           !.client_max_body_size = atoi(d.args[1])])
      BY <1>1, <1>2, <1>5, <2>3, BodySizeReads, <3>1
    <3>3. more = [Behind(p).server EXCEPT
           !.client_max_body_size = atoi(d.args[1])]
      BY <1>2, <1>6, <2>3
    <3> QED BY <3>2, <3>3
  <2>4. CASE d.name = "error_page"
    <3>1. Len(d.args) >= 2
      BY <2>4 DEF ServerDirectiveIsRight
    <3>2. HasReadOfServer(q, Behind(p), d.args, [Behind(p).server EXCEPT !.error_pages =
           Over([code \in {atoi(word) : word \in Range(Front(d.args))} |-> Last(d.args)],
                Behind(p).server.error_pages)])
      BY <1>1, <1>2, <1>5, <2>4, ErrorPageReads, <3>1
    <3>3. more = [Behind(p).server EXCEPT !.error_pages =
           Over([code \in {atoi(word) : word \in Range(Front(d.args))} |-> Last(d.args)],
                Behind(p).server.error_pages)]
      BY <1>2, <1>6, <2>4 DEF Codes
    <3> QED BY <3>2, <3>3
  <2>5. CASE d.name = "root"
    <3>1. Len(d.args) = 1
      BY <2>5 DEF ServerDirectiveIsRight
    <3>2. HasReadOfServer(q, Behind(p), d.args, [Behind(p).server EXCEPT !.root = d.args[1]])
      BY <1>1, <1>2, <1>5, <2>5, ServerRootReads, <3>1
    <3>3. more = [Behind(p).server EXCEPT !.root = d.args[1]]
      BY <1>2, <1>6, <2>5
    <3> QED BY <3>2, <3>3
  <2> QED BY <1>3, <2>1, <2>2, <2>3, <2>4, <2>5
<1> QED BY <1>7, BehindADirective DEF Behind, more

LEMMA LocationDirectiveIsRead ==
  ASSUME NEW p, NEW q, ParserIsSound(p), p.block = "location", Turn(p, q),
         NEW ds \in Seq(Directives), NEW d \in Directives, LocationDirectiveIsRight(d),
         Len(All(ds, "cgi_extension")) % 2 = 0, NEW path,
         p.route = ReadRoute(path, ds), SeesLine(p, LineWords(d))
  PROVE  BehindLine(q, p, LineWords(d), p.server,
                    ReadRoute(path, Append(ds, d)))
<1> DEFINE old == ReadRoute(path, ds)
           more == ReadRoute(path, Append(ds, d))
<1>1. /\ hasMoreTokens(p) /\ getCurrentToken(p) = <<d.name>>
      /\ SeesWords(Behind(p), d.args) /\ PlainWords(d.args)
  BY RightDirectives, ArgumentsAreSeen DEF Behind
<1>2. ParserIsSound(Behind(p)) /\ Behind(p).route = old
  BY SkippedFields DEF Behind
<1>3. d.name \in {"root", "allowed_methods", "index", "autoindex", "allow_upload",
                  "upload_path", "cgi_extension", "return", "client_max_body_size"}
  BY DEF LocationDirectiveIsRight
<1>4. LocationTurn(p, q)
  BY <1>1, <1>3, LocationTurns
<1>5. /\ d.name = "root" => q = setRoot(Behind(p))
      /\ d.name = "allowed_methods" => q = setAllowedMethods(Behind(p))
      /\ d.name = "index" => q = setIndex(Behind(p))
      /\ d.name = "autoindex" => q = setAutoIndex(Behind(p))
      /\ d.name = "allow_upload" => q = setAllowUpload(Behind(p))
      /\ d.name = "upload_path" => q = setUploadPath(Behind(p))
      /\ d.name = "cgi_extension" => q = setCgi(Behind(p))
      /\ d.name = "return" => q = setReturn(Behind(p))
      /\ d.name = "client_max_body_size" => q = setRouteBodySize(Behind(p))
  BY <1>1, <1>4, NamesAreTokens DEF LocationTurn
<1>6. /\ d.name = "root" =>
            more = [old EXCEPT !.root = d.args[1]]
      /\ d.name = "allowed_methods" =>
            more = [old EXCEPT !.allowedMethods = old.allowedMethods \cup Range(d.args)]
      /\ d.name = "index" =>
            more = [old EXCEPT !.defaultFiles = old.defaultFiles \o d.args]
      /\ d.name = "autoindex" =>
            more = [old EXCEPT !.isDirectoryListing = IsOn(d.args[1])]
      /\ d.name = "allow_upload" =>
            more = [old EXCEPT !.uploadAllowed = IsOn(d.args[1])]
      /\ d.name = "upload_path" =>
            more = [old EXCEPT !.uploadPath = d.args[1]]
      /\ d.name = "cgi_extension" =>
            more = [old EXCEPT !.cgiExtensions = Over(SaidPairs(d.args), old.cgiExtensions)]
      /\ d.name = "client_max_body_size" =>
            more = [old EXCEPT !.client_max_body_size = atoi(d.args[1])]
      /\ d.name = "return" =>
            more = [old EXCEPT !.redirectCode = atoi(d.args[1]), !.redirectPath = d.args[2]]
  BY ZenonT(120), OneMoreOfALocation
<1> HIDE DEF old, more
<1>7. HasReadOfLocation(q, Behind(p), d.args, more)
  <2>1. CASE d.name = "root"
    <3>1. Len(d.args) = 1
      BY <2>1 DEF LocationDirectiveIsRight
    <3>2. HasReadOfLocation(q, Behind(p), d.args, [Behind(p).route EXCEPT !.root = d.args[1]])
      BY <1>1, <1>2, <1>5, <2>1, RootReads, <3>1
    <3>3. more = [Behind(p).route EXCEPT !.root = d.args[1]]
      BY <1>2, <1>6, <2>1
    <3> QED BY <3>2, <3>3
  <2>2. CASE d.name = "allowed_methods"
    <3>1. HasReadOfLocation(q, Behind(p), d.args, [Behind(p).route EXCEPT
           !.allowedMethods = Behind(p).route.allowedMethods \cup Range(d.args)])
      BY <1>1, <1>2, <1>5, <2>2, MethodsRead
    <3>2. more = [Behind(p).route EXCEPT
           !.allowedMethods = Behind(p).route.allowedMethods \cup Range(d.args)]
      BY <1>2, <1>6, <2>2
    <3> QED BY <3>1, <3>2
  <2>3. CASE d.name = "index"
    <3>1. HasReadOfLocation(q, Behind(p), d.args, [Behind(p).route EXCEPT
           !.defaultFiles = Behind(p).route.defaultFiles \o d.args])
      BY <1>1, <1>2, <1>5, <2>3, IndexReads
    <3>2. more = [Behind(p).route EXCEPT
           !.defaultFiles = Behind(p).route.defaultFiles \o d.args]
      BY <1>2, <1>6, <2>3
    <3> QED BY <3>1, <3>2
  <2>4. CASE d.name = "autoindex"
    <3>1. Len(d.args) = 1
      BY <2>4 DEF LocationDirectiveIsRight
    <3>2. HasReadOfLocation(q, Behind(p), d.args, [Behind(p).route EXCEPT
           !.isDirectoryListing = IsOn(d.args[1])])
      BY <1>1, <1>2, <1>5, <2>4, AutoIndexReads, <3>1
    <3>3. more = [Behind(p).route EXCEPT
           !.isDirectoryListing = IsOn(d.args[1])]
      BY <1>2, <1>6, <2>4
    <3> QED BY <3>2, <3>3
  <2>5. CASE d.name = "allow_upload"
    <3>1. Len(d.args) = 1
      BY <2>5 DEF LocationDirectiveIsRight
    <3>2. HasReadOfLocation(q, Behind(p), d.args,
                            [Behind(p).route EXCEPT !.uploadAllowed = IsOn(d.args[1])])
      BY <1>1, <1>2, <1>5, <2>5, AllowUploadReads, <3>1
    <3>3. more = [Behind(p).route EXCEPT !.uploadAllowed = IsOn(d.args[1])]
      BY <1>2, <1>6, <2>5
    <3> QED BY <3>2, <3>3
  <2>6. CASE d.name = "upload_path"
    <3>1. Len(d.args) = 1
      BY <2>6 DEF LocationDirectiveIsRight
    <3>2. HasReadOfLocation(q, Behind(p), d.args, [Behind(p).route EXCEPT !.uploadPath = d.args[1]])
      BY <1>1, <1>2, <1>5, <2>6, UploadPathReads, <3>1
    <3>3. more = [Behind(p).route EXCEPT !.uploadPath = d.args[1]]
      BY <1>2, <1>6, <2>6
    <3> QED BY <3>2, <3>3
  <2>7. CASE d.name = "cgi_extension"
    <3>1. Len(d.args) % 2 = 0
      BY <2>7 DEF LocationDirectiveIsRight
    <3>2. HasReadOfLocation(q, Behind(p), d.args, [Behind(p).route EXCEPT
           !.cgiExtensions = Over(SaidPairs(d.args), Behind(p).route.cgiExtensions)])
      BY <1>1, <1>2, <1>5, <2>7, CgiReads, <3>1
    <3>3. more = [Behind(p).route EXCEPT
           !.cgiExtensions = Over(SaidPairs(d.args), Behind(p).route.cgiExtensions)]
      BY <1>2, <1>6, <2>7
    <3> QED BY <3>2, <3>3
  <2>8. CASE d.name = "return"
    <3>1. Len(d.args) = 2
      BY <2>8 DEF LocationDirectiveIsRight
    <3>2. HasReadOfLocation(q, Behind(p), d.args, [Behind(p).route EXCEPT
           !.redirectCode = atoi(d.args[1]), !.redirectPath = d.args[2]])
      BY <1>1, <1>2, <1>5, <2>8, ReturnReads, <3>1
    <3>3. more = [Behind(p).route EXCEPT
           !.redirectCode = atoi(d.args[1]), !.redirectPath = d.args[2]]
      BY <1>2, <1>6, <2>8
    <3> QED BY <3>2, <3>3
  <2>9. CASE d.name = "client_max_body_size"
    <3>1. Len(d.args) = 1
      BY <2>9 DEF LocationDirectiveIsRight
    <3>2. HasReadOfLocation(q, Behind(p), d.args, [Behind(p).route EXCEPT
           !.client_max_body_size = atoi(d.args[1])])
      BY <1>1, <1>2, <1>5, <2>9, RouteBodySizeReads, <3>1
    <3>3. more = [Behind(p).route EXCEPT
           !.client_max_body_size = atoi(d.args[1])]
      BY <1>2, <1>6, <2>9
    <3> QED BY <3>2, <3>3
  <2> QED BY <1>3, <2>1, <2>2, <2>3, <2>4, <2>5, <2>6, <2>7, <2>8, <2>9
<1> QED BY <1>7, BehindADirective DEF Behind, more

\* The tokens of a line, one by one.
LEMMA SeenTokens ==
  ASSUME NEW p, ParserIsSound(p), NEW words, Len(words) \in Nat, SeesLine(p, words),
         NEW i \in 1..Len(words)
  PROVE  /\ p.at + i - 1 <= Len(p.tokens) /\ p.tokens[p.at + i - 1] = words[i]
         /\ p.at \in Nat \ {0} /\ Len(p.tokens) \in Nat
<1>1. p.at \in Nat \ {0} /\ Len(p.tokens) \in Nat /\ p.at + Len(words) <= Len(p.tokens) + 1
  BY DEF ParserIsSound, SeesLine
<1>2. p.at + i - 1 <= Len(p.tokens)
  BY <1>1
<1> QED BY <1>1, <1>2 DEF SeesLine

LEMMA OpenServerIsRead ==
  ASSUME NEW p, NEW q, ParserIsSound(p), p.block = "file", Turn(p, q), SeesLine(p, ServerHead)
  PROVE  ParserIs(q, "server", p.tokens, p.at + 2, BlankServer, p.route,
                  p.configs)
<1> DEFINE t == expectToken(p, <<"server">>)
           u == expectToken(t, Opens)
           v == [u EXCEPT !.block = "server"]
<1>1. Len(ServerHead) = 2 /\ ServerHead[1] = <<"server">> /\ ServerHead[2] = Opens
  BY DEF ServerHead
<1>2. /\ p.at \in Nat \ {0} /\ Len(p.tokens) \in Nat
      /\ p.at <= Len(p.tokens) /\ p.tokens[p.at] = <<"server">>
      /\ p.at + 1 <= Len(p.tokens) /\ p.tokens[p.at + 1] = Opens
  <2>1. Len(ServerHead) \in Nat /\ 1 \in 1..Len(ServerHead) /\ 2 \in 1..Len(ServerHead)
    BY <1>1
  <2>2. /\ \A i \in 1..Len(ServerHead) : /\ p.at + i - 1 <= Len(p.tokens)
                                         /\ p.tokens[p.at + i - 1] = ServerHead[i]
        /\ p.at \in Nat \ {0} /\ Len(p.tokens) \in Nat
    BY <2>1, SeenTokens
  <2>3. p.at + 1 - 1 = p.at /\ p.at + 2 - 1 = p.at + 1
    BY <2>2
  <2> QED BY <1>1, <2>1, <2>2, <2>3
<1>3. q = openServer(p)
  <2>1. hasMoreTokens(p)
    BY <1>2 DEF hasMoreTokens
  <2> QED BY <2>1 DEF Turn
<1>4. ParserIs(p, "file", p.tokens, p.at, p.server, p.route, p.configs)
  BY FieldsOfAParser
<1>5. ParserIs(t, "file", p.tokens, p.at + 1, p.server, p.route, p.configs)
  BY <1>2, <1>4, ExpectedToken
<1> HIDE DEF t
<1>6. ParserIs(u, "file", p.tokens, p.at + 1 + 1, p.server, p.route, p.configs)
  BY <1>2, <1>5, ExpectedToken
<1>7. t.block = "file" /\ u.block = "file"
  BY <1>5, <1>6 DEF ParserIs
<1>8. q = [v EXCEPT !.server = BlankServer]
  <2>1. q = [u EXCEPT !.block = "server", !.server = BlankServer]
    BY <1>3, <1>7 DEF openServer, t
  <2> HIDE DEF u
  <2> QED BY <2>1
<1> HIDE DEF u
<1>9. ParserIs(v, "server", p.tokens, p.at + 1 + 1, p.server, p.route, p.configs)
  BY <1>6, BlockChanges
<1> HIDE DEF v
<1>10. ParserIs([v EXCEPT !.server = BlankServer], "server", p.tokens, p.at + 1 + 1,
                BlankServer, p.route, p.configs)
  BY <1>9, ServerChanges
<1>11. p.at + 1 + 1 = p.at + 2
  BY <1>2
<1> QED BY <1>8, <1>10, <1>11

LEMMA OpenLocationIsRead ==
  ASSUME NEW p, NEW q, ParserIsSound(p), p.block = "server", Turn(p, q), NEW l,
         SeesLine(p, LocationHead(l))
  PROVE  ParserIs(q, "location", p.tokens, p.at + 3, p.server,
                  [BlankRoute EXCEPT !.path = l.path], p.configs)
<1> DEFINE r == [BlankRoute EXCEPT !.path = l.path]
           t == [Behind(p) EXCEPT !.at = p.at + 1 + 2]
           u == [t EXCEPT !.block = "location"]
<1>1. /\ Len(LocationHead(l)) = 3 /\ LocationHead(l)[1] = <<"location">>
      /\ LocationHead(l)[2] = l.path
  BY DEF LocationHead
<1>2. /\ p.at \in Nat \ {0} /\ Len(p.tokens) \in Nat
      /\ p.at <= Len(p.tokens) /\ p.tokens[p.at] = <<"location">>
      /\ p.at + 2 <= Len(p.tokens) /\ p.tokens[p.at + 1] = l.path
  <2> DEFINE line == LocationHead(l)
  <2>1. /\ Len(line) \in Nat /\ 1 \in 1..Len(line) /\ 2 \in 1..Len(line) /\ 3 \in 1..Len(line)
        /\ SeesLine(p, line)
    BY <1>1
  <2>2. /\ \A i \in 1..Len(line) : /\ p.at + i - 1 <= Len(p.tokens)
                                   /\ p.tokens[p.at + i - 1] = line[i]
        /\ p.at \in Nat \ {0} /\ Len(p.tokens) \in Nat
    <3> HIDE DEF line
    <3> QED BY <2>1, SeenTokens
  <2>3. p.at + 1 - 1 = p.at /\ p.at + 2 - 1 = p.at + 1 /\ p.at + 3 - 1 = p.at + 2
    BY <2>2
  <2> QED BY <1>1, <2>1, <2>2, <2>3
<1>3. q = openLocation(Behind(p))
  <2>1. hasMoreTokens(p) /\ getCurrentToken(p) = <<"location">>
    BY <1>2 DEF hasMoreTokens, getCurrentToken
  <2>2. ServerTurn(p, q)
    BY <2>1, ServerTurns
  <2> QED BY <2>1, <2>2, NamesAreTokens DEF ServerTurn
<1>4. /\ ParserIs(Behind(p), "server", p.tokens, p.at + 1, p.server, p.route, p.configs)
      /\ Behind(p).tokens = p.tokens /\ Behind(p).at = p.at + 1 /\ ParserIsSound(Behind(p))
  BY SkippedFields, FieldsOfAParser, SkipMoves DEF Behind
<1>5. hasMoreTokens(Skip(Behind(p), 1)) /\ getCurrentToken(Behind(p)) = l.path
  <2>1. Skip(Behind(p), 1).at = p.at + 1 + 1 /\ Skip(Behind(p), 1).tokens = p.tokens
    BY <1>4, SkippedFields
  <2>2. p.at + 1 + 1 <= Len(p.tokens)
    BY <1>2
  <2> QED BY <1>2, <1>4, <2>1, <2>2 DEF hasMoreTokens, getCurrentToken
<1>6. q = [u EXCEPT !.route = r]
  <2>1. q = [Behind(p) EXCEPT !.at = Behind(p).at + 2, !.block = "location", !.route = r]
    BY <1>3, <1>5 DEF openLocation
  <2> HIDE DEF r
  <2> QED BY <1>4, <2>1
<1>7. ParserIs(t, "server", p.tokens, p.at + 1 + 2, p.server, p.route, p.configs)
  BY <1>4, PlaceChanges
<1> HIDE DEF t
<1>8. ParserIs(u, "location", p.tokens, p.at + 1 + 2, p.server, p.route, p.configs)
  BY <1>7, BlockChanges
<1> HIDE DEF u, r
<1>9. ParserIs([u EXCEPT !.route = r], "location", p.tokens, p.at + 1 + 2, p.server, r,
               p.configs)
  BY <1>8, RouteChanges
<1>10. p.at + 1 + 2 = p.at + 3
  BY <1>2
<1> QED BY <1>6, <1>9, <1>10 DEF r

\* The parser at a closing brace.
LEMMA BraceIsSeen ==
  ASSUME NEW p, ParserIsSound(p), SeesLine(p, <<Closes>>)
  PROVE  /\ hasMoreTokens(p) /\ getCurrentToken(p) = <<"}">>
         /\ ParserIs(Closed(p), p.block, p.tokens, p.at + 1, p.server, p.route, p.configs)
<1>1. Len(<<Closes>>) = 1 /\ <<Closes>>[1] = Closes
  OBVIOUS
<1>3. /\ p.at + 1 - 1 <= Len(p.tokens) /\ p.tokens[p.at + 1 - 1] = Closes
      /\ p.at \in Nat \ {0}
  <2> DEFINE line == <<Closes>>
  <2>1. Len(line) \in Nat /\ 1 \in 1..Len(line) /\ line[1] = Closes /\ SeesLine(p, line)
    BY <1>1
  <2> HIDE DEF line
  <2> QED BY <2>1, SeenTokens
<1>4. p.at + 1 - 1 = p.at
  BY <1>3
<1>5. p.at <= Len(p.tokens) /\ p.tokens[p.at] = Closes
  BY <1>3, <1>4
<1>6. ParserIs(expectToken(p, Closes), p.block, p.tokens, p.at + 1, p.server, p.route, p.configs)
  BY <1>5, FieldsOfAParser, ExpectedToken
<1> QED BY <1>5, <1>6 DEF hasMoreTokens, getCurrentToken, Closes, Closed

LEMMA CloseLocationIsRead ==
  ASSUME NEW p, NEW q, ParserIsSound(p), p.block = "location", Turn(p, q), SeesLine(p, <<Closes>>),
         validateRoutes(p.route)
  PROVE  ParserIs(q, "server", p.tokens, p.at + 1,
                  [p.server EXCEPT !.routes = Append(p.server.routes,
                     [p.route EXCEPT !.uploadPath = UploadPath(p.route)])],
                  p.route, p.configs)
<1> DEFINE t == Closed(p)
           r == [p.route EXCEPT !.uploadPath = UploadPath(p.route)]
           s == [p.server EXCEPT !.routes = Append(p.server.routes, r)]
           u == [t EXCEPT !.block = "server"]
<1>1. /\ hasMoreTokens(p) /\ getCurrentToken(p) = <<"}">>
      /\ ParserIs(t, "location", p.tokens, p.at + 1, p.server, p.route, p.configs)
  BY BraceIsSeen
<1>2. q = closeLocation(p)
  BY <1>1, LocationTurns
<1>3. t.block = "location" /\ t.route = p.route /\ t.server = p.server
  BY <1>1 DEF ParserIs
<1>4. q = [u EXCEPT !.server = s]
  <2> DEFINE made == [t.route EXCEPT !.uploadPath = UploadPath(t.route)]
  <2>1. q = [t EXCEPT !.block = "server", !.server.routes = Append(@, made)]
    BY <1>2, <1>3 DEF closeLocation
  <2>2. made = r
    BY <1>3
  <2> HIDE DEF t, r, made
  <2>3. [t EXCEPT !.block = "server", !.server.routes = Append(@, made)]
          = [t EXCEPT !.block = "server",
                      !.server = [t.server EXCEPT !.routes = Append(t.server.routes, made)]]
    <3>1. "server" \in DOMAIN t /\ "routes" \in DOMAIN t.server
      BY <1>1, <1>3, FieldsOfTheParser DEF ParserIs, ParserIsSound, ServerIsSound
    <3> QED BY <3>1
  <2>4. [t.server EXCEPT !.routes = Append(t.server.routes, made)] = s
    BY <1>3, <2>2
  <2> HIDE DEF s
  <2> QED BY <2>1, <2>3, <2>4
<1> HIDE DEF t
<1>5. ParserIs(u, "server", p.tokens, p.at + 1, p.server, p.route, p.configs)
  BY <1>1, BlockChanges
<1> HIDE DEF u, s
<1>6. ParserIs([u EXCEPT !.server = s], "server", p.tokens, p.at + 1, s, p.route, p.configs)
  BY <1>5, ServerChanges
<1> QED BY <1>4, <1>6 DEF s

\* A server that is put into the map, under its key.
Pushed(configs, s) ==
  LET key == getServerKey(s)
      others == IF key \in DOMAIN configs THEN configs[key] ELSE <<>>
  IN  [k \in DOMAIN configs \cup {key} |-> IF k = key THEN Append(others, s) ELSE configs[k]]

LEMMA CloseServerIsRead ==
  ASSUME NEW p, NEW q, ParserIsSound(p), p.block = "server", Turn(p, q), SeesLine(p, <<Closes>>),
         validateServer(p.server)
  PROVE  ParserIs(q, "file", p.tokens, p.at + 1, p.server, p.route,
                  Pushed(p.configs, p.server))
<1> DEFINE t == Closed(p)
           c == Pushed(p.configs, p.server)
           u == [t EXCEPT !.block = "file"]
<1>1. /\ hasMoreTokens(p) /\ getCurrentToken(p) = <<"}">>
      /\ ParserIs(t, "server", p.tokens, p.at + 1, p.server, p.route, p.configs)
  BY BraceIsSeen
<1>2. q = closeServer(p)
  BY <1>1, ServerTurns
<1>3. t.block = "server" /\ t.configs = p.configs /\ t.server = p.server
  BY <1>1 DEF ParserIs
<1>4. q = push_back(t)
  BY <1>2, <1>3 DEF closeServer
<1>5. push_back(t) = [t EXCEPT !.block = "file", !.configs = Pushed(t.configs, t.server)]
  <2> HIDE DEF t
  <2>1. "configs" \in DOMAIN t
    BY <1>1, FieldsOfTheParser DEF ParserIs
  <2> QED BY <2>1 DEF push_back, Pushed
<1>6. push_back(t) = [u EXCEPT !.configs = c]
  <2> HIDE DEF t
  <2>1. push_back(t) = [t EXCEPT !.block = "file", !.configs = c]
    BY <1>3, <1>5
  <2> HIDE DEF c
  <2> QED BY <2>1
<1> HIDE DEF t, c
<1>7. ParserIs(u, "file", p.tokens, p.at + 1, p.server, p.route, p.configs)
  BY <1>1, BlockChanges
<1> HIDE DEF u
<1>8. ParserIs([u EXCEPT !.configs = c], "file", p.tokens, p.at + 1, p.server, p.route, c)
  BY <1>7, ConfigsChange
<1> QED BY <1>4, <1>6, <1>8 DEF c

LEMMA EndFileIsRead ==
  ASSUME NEW p, NEW q, ParserIsSound(p), p.block = "file", Turn(p, q), ~hasMoreTokens(p),
         DOMAIN p.configs # {}
  PROVE  ParserIs(q, "done", p.tokens, p.at, p.server, p.route,
                  p.configs)
<1>1. q = [p EXCEPT !.block = "done"]
  BY DEF Turn
<1> QED BY <1>1, FieldsOfAParser, BlockChanges

----------------------------------------------------------------------------
(* A line of which the end is missing.                                     *)

\* The words that are there are the first of the line, and the last is not.
SeesStart(p, words) ==
  /\ p.at + Len(words) > Len(p.tokens) + 1
  /\ \A i \in 1..Len(words) :
       p.at + i - 1 <= Len(p.tokens) => p.tokens[p.at + i - 1] = words[i]

\* No semicolon is in the rest of the file.
IsLastList(p) == \A i \in p.at..Len(p.tokens) : p.tokens[i] # Semicolon

\* Nothing that is accepted comes of such a parser: it has stopped, or it is in a block
\* of which the end is missing.
Lost(p) ==
  \/ p.block \in {"refused", "astray"}
  \/ p.block \in {"server", "location"} /\ ~hasMoreTokens(p)

\* The parser q has the tokens of the parser p, and its place.
IsBeside(q, p) == DOMAIN q = DOMAIN NewParser /\ q.tokens = p.tokens /\ q.at = p.at

LEMMA PlaceOfAParser ==
  ASSUME NEW p, ParserIsSound(p)
  PROVE  DOMAIN p = DOMAIN NewParser /\ p.at \in Nat \ {0} /\ Len(p.tokens) \in Nat
BY DEF ParserIsSound

LEMMA RefusedIsLost ==
  ASSUME NEW p, DOMAIN p = DOMAIN NewParser
  PROVE  Lost(Refused(p)) /\ Lost([p EXCEPT !.block = "astray"])
<1>1. Refused(p).block = "refused" /\ [p EXCEPT !.block = "astray"].block = "astray"
  BY FieldsOfTheParser DEF Refused
<1> QED BY <1>1 DEF Lost

LEMMA UnexpectedIsLost ==
  ASSUME NEW p, DOMAIN p = DOMAIN NewParser, NEW token,
         hasMoreTokens(p) => getCurrentToken(p) # token
  PROVE  Lost(expectToken(p, token)) /\ expectToken(p, token).block \in {"refused", "astray"}
<1>1. Refused(p).block = "refused" /\ [p EXCEPT !.block = "astray"].block = "astray"
  BY FieldsOfTheParser DEF Refused
<1>2. expectToken(p, token) = Refused(p) \/ expectToken(p, token) = [p EXCEPT !.block = "astray"]
  BY DEF expectToken
<1> QED BY <1>1, <1>2 DEF Lost

\* The next semicolon, which is not there.
LEMMA NoNextSemicolon ==
  ASSUME NEW p, ParserIsSound(p), IsLastList(p), NEW ahead \in Nat
  PROVE  NextSemicolon(p, ahead) = 0
<1> DEFINE I == {i \in (p.at + ahead)..Len(p.tokens) : p.tokens[i] = Semicolon}
<1>1. NextSemicolon(p, ahead) = IF I # {} THEN Min(I) ELSE 0
  BY DEF NextSemicolon, SelectInSubSeq
<1>2. I = {}
  <2>1. p.at \in Nat /\ Len(p.tokens) \in Nat
    BY DEF ParserIsSound
  <2>2. \A i \in (p.at + ahead)..Len(p.tokens) : i \in p.at..Len(p.tokens)
    BY <2>1
  <2> QED BY <2>2 DEF IsLastList
<1> QED BY <1>1, <1>2

LEMMA CutListIsLost ==
  ASSUME NEW p, ParserIsSound(p), IsLastList(p), NEW q, IsBeside(q, p)
  PROVE  Lost(OneValue(p, q)) /\ Lost(TwoValues(p, q)) /\ Lost(ListOf(p, q))
<1>1. DOMAIN p = DOMAIN NewParser /\ p.at \in Nat /\ Len(p.tokens) \in Nat
  BY DEF ParserIsSound
<1>2. Lost(Refused(p))
  BY <1>1, RefusedIsLost
<1>3. ASSUME NEW n \in Nat PROVE Lost(expectToken(Skip(q, n), Semicolon))
  <2>1. /\ DOMAIN Skip(q, n) = DOMAIN NewParser
        /\ Skip(q, n).at = p.at + n /\ Skip(q, n).tokens = p.tokens
    BY FieldsOfTheParser DEF IsBeside, Skip
  <2>2. p.at + n <= Len(p.tokens) => p.at + n \in p.at..Len(p.tokens)
    BY <1>1
  <2>3. hasMoreTokens(Skip(q, n)) => getCurrentToken(Skip(q, n)) # Semicolon
    BY <2>1, <2>2 DEF hasMoreTokens, getCurrentToken, IsLastList
  <2> QED BY <2>1, <2>3, UnexpectedIsLost
<1>4. NextSemicolon(p, 0) = 0
  BY NoNextSemicolon
<1> QED BY <1>2, <1>3, <1>4 DEF OneValue, TwoValues, ListOf

\* The directives of a server, and of a location.
LEMMA CutServerDirectiveIsLost ==
  ASSUME NEW p, ParserIsSound(p), IsLastList(p)
  PROVE  /\ Lost(setServerName(p)) /\ Lost(setListen(p)) /\ Lost(setServerBodySize(p))
         /\ Lost(setErrorPage(p)) /\ Lost(setServerRoot(p))
<1>1. DOMAIN p = DOMAIN NewParser
  BY DEF ParserIsSound
<1>2. Lost(setServerName(p))
  <2>1. IsBeside([p EXCEPT !.server.server_names = @ \o Values(p)], p)
    BY <1>1, FieldsOfTheParser DEF IsBeside
  <2> QED BY <2>1, CutListIsLost DEF setServerName
<1>3. Lost(setListen(p))
  <2>1. \A host, port : IsBeside([p EXCEPT !.server.host = host, !.server.port = port], p)
    BY <1>1, FieldsOfTheParser DEF IsBeside
  <2>2. \E host, port :
          setListen(p) = OneValue(p, [p EXCEPT !.server.host = host, !.server.port = port])
    BY DEF setListen
  <2> QED BY <2>1, <2>2, CutListIsLost
<1>4. Lost(setServerBodySize(p))
  <2>1. IsBeside([p EXCEPT !.server.client_max_body_size = atoi(getCurrentToken(p))], p)
    BY <1>1, FieldsOfTheParser DEF IsBeside
  <2> QED BY <2>1, CutListIsLost DEF setServerBodySize
<1>5. Lost(setErrorPage(p))
  <2>1. NextSemicolon(p, 2) = 0
    BY NoNextSemicolon
  <2>2. setErrorPage(p) = Refused(p)
    BY <2>1 DEF setErrorPage
  <2> QED BY <1>1, <2>2, RefusedIsLost
<1>6. Lost(setServerRoot(p))
  <2>1. IsBeside([p EXCEPT !.server.root = getCurrentToken(p)], p)
    BY <1>1, FieldsOfTheParser DEF IsBeside
  <2> QED BY <2>1, CutListIsLost DEF setServerRoot
<1> QED BY <1>2, <1>3, <1>4, <1>5, <1>6

\* Pairs of words go on to the end of the file (setCgi).
LEMMA CutPairsAreLost ==
  ASSUME NEW p, ParserIsSound(p), IsLastList(p), p.block = "location"
  PROVE  Lost(setCgi(p))
<1> DEFINE words == SubSeq(p.tokens, p.at, Len(p.tokens))
           whole == words # <<>> /\ Len(words) % 2 = 0
           t == [p EXCEPT !.route.cgiExtensions = Over(PairsOf(words), @),
                          !.at = Len(p.tokens) + 1]
<1>1. DOMAIN p = DOMAIN NewParser /\ Len(p.tokens) \in Nat
  BY DEF ParserIsSound
<1>2. NextSemicolon(p, 0) = 0
  BY NoNextSemicolon
<1>3. CASE ~hasMoreTokens(Skip(p, 1)) \/ ~whole
  <2>1. setCgi(p) = Refused(p)
    BY <1>2, <1>3 DEF setCgi
  <2> QED BY <1>1, <2>1, RefusedIsLost
<1>4. CASE ~(~hasMoreTokens(Skip(p, 1)) \/ ~whole)
  <2>1. words # <<>>
    BY <1>4
  <2>2. setCgi(p) = t
    BY <1>2, <1>4, <2>1 DEF setCgi
  <2> HIDE DEF words
  <2>3. t.block = "location" /\ t.at = Len(p.tokens) + 1 /\ t.tokens = p.tokens
    BY <1>1, FieldsOfTheParser
  <2> HIDE DEF t
  <2>4. ~hasMoreTokens(t)
    BY <1>1, <2>3 DEF hasMoreTokens
  <2> QED BY <2>2, <2>3, <2>4 DEF Lost
<1> QED BY <1>3, <1>4

LEMMA CutLocationDirectiveIsLost ==
  ASSUME NEW p, ParserIsSound(p), IsLastList(p), p.block = "location"
  PROVE  /\ Lost(setRoot(p)) /\ Lost(setAllowedMethods(p)) /\ Lost(setIndex(p))
         /\ Lost(setAutoIndex(p)) /\ Lost(setAllowUpload(p)) /\ Lost(setUploadPath(p))
         /\ Lost(setCgi(p)) /\ Lost(setReturn(p)) /\ Lost(setRouteBodySize(p))
<1>1. DOMAIN p = DOMAIN NewParser
  BY DEF ParserIsSound
<1>2. \A v : IsBeside([p EXCEPT !.route.root = v], p)
  BY <1>1, FieldsOfTheParser DEF IsBeside
<1>3. IsBeside([p EXCEPT !.route.allowedMethods = @ \cup Range(Values(p))], p)
  BY <1>1, FieldsOfTheParser DEF IsBeside
<1>4. IsBeside([p EXCEPT !.route.defaultFiles = @ \o Values(p)], p)
  BY <1>1, FieldsOfTheParser DEF IsBeside
<1>5. \A v : IsBeside([p EXCEPT !.route.isDirectoryListing = v], p)
  BY <1>1, FieldsOfTheParser DEF IsBeside
<1>6. \A v : IsBeside([p EXCEPT !.route.uploadAllowed = v], p)
  BY <1>1, FieldsOfTheParser DEF IsBeside
<1>7. \A v : IsBeside([p EXCEPT !.route.uploadPath = v], p)
  BY <1>1, FieldsOfTheParser DEF IsBeside
<1>8. \A v, u : IsBeside([p EXCEPT !.route.redirectCode = v, !.route.redirectPath = u], p)
  BY <1>1, FieldsOfTheParser DEF IsBeside
<1>9. \A v : IsBeside([p EXCEPT !.route.client_max_body_size = v], p)
  BY <1>1, FieldsOfTheParser DEF IsBeside
<1>10. Lost(setRoot(p)) /\ Lost(setUploadPath(p))
  BY <1>2, <1>7, CutListIsLost DEF setRoot, setUploadPath
<1>11. Lost(setAllowedMethods(p)) /\ Lost(setIndex(p))
  BY <1>3, <1>4, CutListIsLost DEF setAllowedMethods, setIndex
<1>12. Lost(setAutoIndex(p)) /\ Lost(setAllowUpload(p))
  BY <1>5, <1>6, CutListIsLost DEF setAutoIndex, setAllowUpload
<1>13. Lost(setReturn(p)) /\ Lost(setRouteBodySize(p))
  BY <1>8, <1>9, CutListIsLost DEF setReturn, setRouteBodySize
<1> QED BY <1>10, <1>11, <1>12, <1>13, CutPairsAreLost

\* A block in which there is nothing more (expectToken), and one that has stopped.
LEMMA LostStaysLost ==
  ASSUME NEW p, NEW q, DOMAIN p = DOMAIN NewParser, Lost(p), Turn(p, q)
  PROVE  Lost(q)
<1>1. p.block \in {"server", "location"} /\ ~hasMoreTokens(p)
  BY DEF Lost, Turn
<1>2. Lost(Closed(p)) /\ Closed(p).block \in {"refused", "astray"}
  BY <1>1, UnexpectedIsLost DEF Closed
<1>3. \/ q = closeServer(p) /\ p.block = "server"
      \/ q = closeLocation(p) /\ p.block = "location"
  BY <1>1 DEF Turn
<1> QED BY <1>2, <1>3 DEF closeServer, closeLocation

\* The words of a directive that are there have no semicolon among them.
LEMMA CutDirectiveIsLost ==
  ASSUME NEW p, NEW q, ParserIsSound(p), Turn(p, q), p.block \in {"server", "location"},
         NEW d \in Directives, DirectiveIsRight(d), d.name # "location", d.name # "}",
         SeesStart(p, LineWords(d))
  PROVE  Lost(q)
<1> DEFINE words == LineWords(d)
           n == Len(d.args)
<1>1. /\ words \in Seq(Tokens) /\ Len(words) = n + 2 /\ n \in Nat /\ words[1] = <<d.name>>
      /\ \A i \in 1..n : words[1 + i] = d.args[i]
  BY LineOfADirective
<1> HIDE DEF words
<1> HIDE DEF n
<1>2. DOMAIN p = DOMAIN NewParser /\ p.at \in Nat \ {0} /\ Len(p.tokens) \in Nat
  BY PlaceOfAParser
<1>3. CASE ~hasMoreTokens(p)
  <2>1. Lost(p)
    BY <1>3 DEF Lost
  <2> QED BY <1>2, <2>1, LostStaysLost
<1>4. CASE hasMoreTokens(p)
  <2>1. p.at <= Len(p.tokens) /\ Len(p.tokens) + 1 < p.at + (n + 2)
    BY <1>1, <1>2, <1>4 DEF hasMoreTokens, SeesStart, words
  <2>2. getCurrentToken(p) = <<d.name>>
    <3>1. 1 \in 1..Len(words) /\ p.at + 1 - 1 = p.at
      BY ONLY <1>1, <1>2
    <3> QED BY <1>1, <2>1, <3>1 DEF SeesStart, words, getCurrentToken
  <2>3. /\ Behind(p).at = p.at + 1 /\ Behind(p).tokens = p.tokens
        /\ ParserIsSound(Behind(p)) /\ Behind(p).block = p.block
    BY SkippedFields DEF Behind
  <2>4. IsLastList(Behind(p))
    <3> SUFFICES ASSUME NEW i \in (p.at + 1)..Len(p.tokens)
                 PROVE  p.tokens[i] # Semicolon
      BY <2>3 DEF IsLastList
    <3> DEFINE j == i - p.at
    <3>1. /\ j \in 1..n /\ i = p.at + (1 + j) - 1 /\ 1 + j \in 1..(n + 2)
          /\ i <= Len(p.tokens)
      <4> DEFINE a == p.at
                 z == Len(p.tokens)
      <4>1. /\ a \in Nat /\ z \in Nat /\ n \in Nat /\ z + 1 < a + (n + 2)
            /\ i \in (a + 1)..z
        BY <1>1, <1>2, <2>1
      <4> HIDE DEF a, z
      <4>2. i - a \in 1..n /\ i = a + (1 + (i - a)) - 1 /\ 1 + (i - a) \in 1..(n + 2) /\ i <= z
        BY ONLY <4>1
      <4> QED BY <4>2 DEF a, z
    <3> HIDE DEF j
    <3>2. p.tokens[i] = words[1 + j]
      <4>1. i <= Len(p.tokens)
        BY <3>1
      <4> DEFINE m == 1 + j
      <4>2. m \in 1..Len(words) /\ i = p.at + m - 1
        BY <1>1, <3>1
      <4> HIDE DEF m
      <4>3. p.at + m - 1 <= Len(p.tokens) => p.tokens[p.at + m - 1] = words[m]
        BY <4>2 DEF SeesStart, words
      <4> QED BY <4>1, <4>2, <4>3 DEF m
    <3>3. p.tokens[i] = d.args[j]
      BY <1>1, <3>1, <3>2
    <3> QED BY <3>1, <3>3, PlainArguments DEF PlainWords, n
  <2>5. Lost(Refused(p))
    BY <1>2, RefusedIsLost
  <2>6. CASE p.block = "server"
    <3>1. CASE ServerTurn(p, q)
      <4>1. q # openLocation(Behind(p)) \/ ~(getCurrentToken(p) = <<"location">>)
        BY <2>2, NamesAreTokens
      <4> QED BY <2>2, <2>3, <2>4, <3>1, <4>1, NamesAreTokens, CutServerDirectiveIsLost
          DEF ServerTurn
    <3>2. CASE ~ServerTurn(p, q)
      <4>1. getCurrentToken(p) # Closes
        BY <2>2, NamesAreTokens DEF Closes
      <4> QED BY <1>4, <2>5, <2>6, <3>2, <4>1 DEF Turn
    <3> QED BY <3>1, <3>2
  <2>7. CASE p.block = "location"
    <3>1. CASE LocationTurn(p, q)
      BY <2>3, <2>4, <2>7, <3>1, CutLocationDirectiveIsLost DEF LocationTurn
    <3>2. CASE ~LocationTurn(p, q)
      <4>1. getCurrentToken(p) # Closes
        BY <2>2, NamesAreTokens DEF Closes
      <4> QED BY <1>4, <2>5, <2>7, <3>2, <4>1 DEF Turn
    <3> QED BY <3>1, <3>2
  <2> QED BY <2>6, <2>7
<1> QED BY <1>3, <1>4

\* A word of a line, and the number of those that are there.
LEMMA StartIsSeen ==
  ASSUME NEW p, ParserIsSound(p), NEW words, NEW n \in Nat \ {0}, Len(words) = n,
         SeesStart(p, words), hasMoreTokens(p)
  PROVE  getCurrentToken(p) = words[1] /\ p.at + n > Len(p.tokens) + 1 /\ n > 1
<1>1. p.at \in Nat \ {0} /\ Len(p.tokens) \in Nat /\ p.at <= Len(p.tokens)
  BY PlaceOfAParser DEF hasMoreTokens
<1>2. p.at + n > Len(p.tokens) + 1
  BY DEF SeesStart
<1>3. 1 \in 1..n /\ p.at + 1 - 1 = p.at /\ n > 1
  BY <1>1, <1>2
<1> QED BY <1>1, <1>2, <1>3 DEF SeesStart, getCurrentToken

LEMMA CutServerHeadIsLost ==
  ASSUME NEW p, NEW q, ParserIsSound(p), p.block = "file", Turn(p, q), hasMoreTokens(p),
         SeesStart(p, ServerHead)
  PROVE  Lost(q)
<1> DEFINE t == expectToken(p, <<"server">>)
           u == expectToken(t, Opens)
<1>1. Len(ServerHead) = 2 /\ ServerHead[1] = <<"server">>
  BY DEF ServerHead
<1>2. getCurrentToken(p) = <<"server">> /\ p.at + 2 > Len(p.tokens) + 1
  <2>1. 2 \in Nat \ {0}
    OBVIOUS
  <2> QED BY <1>1, <2>1, StartIsSeen
<1>3. p.at \in Nat /\ Len(p.tokens) \in Nat
  BY PlaceOfAParser
<1>4. t = Skip(p, 1)
  BY <1>2 DEF expectToken
<1> HIDE DEF t
<1>5. t.tokens = p.tokens /\ t.at = p.at + 1 /\ t.block = "file" /\ DOMAIN t = DOMAIN NewParser
  <2>1. 1 \in Nat
    OBVIOUS
  <2>2. /\ Skip(p, 1).tokens = p.tokens /\ Skip(p, 1).at = p.at + 1
        /\ Skip(p, 1).block = p.block /\ ParserIsSound(Skip(p, 1))
    BY <2>1, SkippedFields
  <2>3. DOMAIN Skip(p, 1) = DOMAIN NewParser
    BY <2>2, PlaceOfAParser
  <2> QED BY <1>4, <2>2, <2>3
<1>6. ~hasMoreTokens(t)
  BY <1>2, <1>3, <1>5 DEF hasMoreTokens
<1>7. Lost(u) /\ u.block \in {"refused", "astray"}
  BY <1>5, <1>6, UnexpectedIsLost
<1> HIDE DEF u
<1>8. q = openServer(p)
  BY DEF Turn
<1>9. q = u
  BY <1>5, <1>7, <1>8 DEF openServer, t, u
<1> QED BY <1>7, <1>9

LEMMA CutLocationHeadIsLost ==
  ASSUME NEW p, NEW q, ParserIsSound(p), p.block = "server", Turn(p, q), NEW l,
         SeesStart(p, LocationHead(l))
  PROVE  Lost(q)
<1>1. Len(LocationHead(l)) = 3 /\ LocationHead(l)[1] = <<"location">>
  BY DEF LocationHead
<1>2. p.at \in Nat /\ Len(p.tokens) \in Nat /\ DOMAIN p = DOMAIN NewParser
  BY PlaceOfAParser
<1>3. CASE ~hasMoreTokens(p)
  <2>1. Lost(p)
    BY <1>3 DEF Lost
  <2> QED BY <1>2, <2>1, LostStaysLost
<1>4. CASE hasMoreTokens(p)
  <2>1. getCurrentToken(p) = <<"location">> /\ p.at + 3 > Len(p.tokens) + 1
    <3>1. 3 \in Nat \ {0}
      OBVIOUS
    <3> QED BY <1>1, <1>4, <3>1, StartIsSeen
  <2>2. q = openLocation(Behind(p))
    <3>1. ServerTurn(p, q)
      BY <1>4, <2>1, ServerTurns
    <3> QED BY <2>1, <3>1, NamesAreTokens DEF ServerTurn
  <2>3. Behind(p).at = p.at + 1 /\ Behind(p).tokens = p.tokens /\ ParserIsSound(Behind(p))
    BY SkippedFields DEF Behind
  <2>4. Skip(Behind(p), 1).at = p.at + 1 + 1 /\ Skip(Behind(p), 1).tokens = p.tokens
    BY <2>3, SkippedFields
  <2>5. ~hasMoreTokens(Skip(Behind(p), 1))
    BY <1>2, <2>1, <2>4 DEF hasMoreTokens
  <2> QED BY <2>2, <2>3, <2>5, PlaceOfAParser, RefusedIsLost DEF openLocation
<1> QED BY <1>3, <1>4

LEMMA CutBraceIsLost ==
  ASSUME NEW p, NEW q, ParserIsSound(p), p.block \in {"server", "location"}, Turn(p, q),
         SeesStart(p, <<Closes>>)
  PROVE  Lost(q)
<1>1. ~hasMoreTokens(p)
  <2>1. Len(<<Closes>>) = 1 /\ 1 \in Nat \ {0} /\ ~(1 > 1)
    OBVIOUS
  <2> QED BY <2>1, StartIsSeen
<1>2. Lost(p)
  BY <1>1 DEF Lost
<1> QED BY <1>2, PlaceOfAParser, LostStaysLost

\* The first words of a line give the first of its tokens.
LEMMA TokensOfTheFirstWords ==
  ASSUME NEW line \in Seq(Tokens), NEW e \in 1..Len(line)
  PROVE  /\ SplitAll(SubSeq(line, 1, e)) \in Seq(Tokens) /\ SplitAll(line) \in Seq(Tokens)
         /\ Len(SplitAll(SubSeq(line, 1, e))) \in 1..Len(SplitAll(line))
         /\ \A i \in 1..Len(SplitAll(SubSeq(line, 1, e))) :
              SplitAll(SubSeq(line, 1, e))[i] = SplitAll(line)[i]
<1> DEFINE n == Len(line)
           parts == [j \in 1..n |-> Split(line[j])]
           first == SubSeq(line, 1, e)
<1>1. n \in Nat /\ n \in 0..n /\ e \in 0..n /\ 1 \in 0..e /\ 1 \in 1..n /\ 0 < n /\ 0 \in 0..n
  OBVIOUS
<1>2. parts \in Seq(Seq(Tokens)) /\ Len(parts) = n /\ parts[1] = Split(line[1])
  BY <1>1, SplitIsWords
<1>3. SplitAll(first) = Upto(parts, e)
  <2>1. Len(first) = e /\ \A j \in 1..e : first[j] = line[j]
    OBVIOUS
  <2> HIDE DEF first
  <2>2. [j \in 1..Len(first) |-> Split(first[j])] = SubSeq(parts, 1, e)
    <3>1. [j \in 1..Len(first) |-> Split(first[j])] = [j \in 1..e |-> Split(line[j])]
      BY <2>1
    <3>2. SubSeq(parts, 1, e) = [j \in 1..e |-> parts[j]]
      BY <1>1, <1>2
    <3>3. [j \in 1..e |-> parts[j]] = [j \in 1..e |-> Split(line[j])]
      BY <1>1
    <3> QED BY <3>1, <3>2, <3>3
  <2> QED BY <2>2 DEF SplitAll, Upto
<1>4. SplitAll(line) = Upto(parts, n)
  <2>1. Upto(parts, n) = FlattenSeq(parts)
    BY <1>1, <1>2, UptoTheNext
  <2> QED BY <2>1 DEF SplitAll
<1>5. Len(Split(line[1])) >= 1
  BY DEF Split
<1> HIDE DEF parts, first, n
<1>6. /\ Upto(parts, e) \in Seq(Tokens) /\ Upto(parts, n) \in Seq(Tokens)
      /\ Reach(parts, e) \in Nat /\ Reach(parts, n) \in Nat
  BY <1>1, <1>2, UptoTheNext
<1>7. Reach(parts, e) >= 1
  <2>1. Reach(parts, 0) = 0 /\ Reach(parts, 0 + 1) = Reach(parts, 0) + Len(parts[0 + 1])
    BY <1>1, <1>2, UptoTheNext
  <2>2. Reach(parts, 1) >= 1 /\ Reach(parts, 1) \in Nat
    <3>1. 0 + 1 = 1 /\ Len(parts[1]) \in Nat
      BY <1>1, <1>2
    <3> QED BY <1>2, <1>5, <2>1, <3>1
  <2>3. Reach(parts, 1) <= Reach(parts, e)
    BY <1>1, <1>2, ReachGrows
  <2> QED BY <1>6, <2>2, <2>3
<1>8. Reach(parts, e) <= Reach(parts, n)
  <2>1. n \in 0..Len(parts) /\ e \in 0..n
    BY <1>1, <1>2
  <2> QED BY <1>2, <2>1, ReachGrows
<1>9. \A i \in 1..Reach(parts, e) : Upto(parts, n)[i] = Upto(parts, e)[i]
  <2>1. n \in 0..Len(parts) /\ e \in 0..n
    BY <1>1, <1>2
  <2> QED BY <1>2, <2>1, UptoGrows
<1>10. Reach(parts, e) \in 1..Reach(parts, n)
  BY <1>6, <1>7, <1>8
<1> QED BY <1>3, <1>4, <1>6, <1>9, <1>10 DEF Reach, first

----------------------------------------------------------------------------
(* Where the parser is in a file without a mistake, or one that ends early. *)

\* The tokens t are those of the file w, up to a place in its last server.
EndsInTheLast(t, w) ==
  /\ Len(t) \in 0..Len(FileTokens(w))
  /\ \A i \in 1..Len(t) : t[i] = FileTokens(w)[i]
  /\ At(w, Len(w), 1) <= Len(t)

\* The parser is where a line begins, which may be the one that has no end.
MeetsLine(p, words, w) ==
  SeesLine(p, words) \/ (SeesStart(p, words) /\ p.tokens # FileTokens(w))

LEMMA SeesTheLine ==
  ASSUME NEW w, RightFile(w), NEW k \in 1..Len(w), NEW m \in 1..Len(LinesOfServer(w[k])),
         NEW words, SplitAll(LinesOfServer(w[k])[m]) = words,
         NEW p, EndsInTheLast(p.tokens, w), p.at = At(w, k, m)
  PROVE  MeetsLine(p, words, w) /\ At(w, k, m + 1) = p.at + Len(words)
<1> DEFINE a == p.at
           n == Len(words)
           z == Len(p.tokens)
<1>1. /\ At(w, k, m + 1) = a + n /\ words \in Seq(Tokens) /\ a \in Nat \ {0}
      /\ At(w, k, m + 1) <= Len(FileTokens(w)) + 1
      /\ \A i \in 1..n : FileTokens(w)[a + i - 1] = words[i]
  BY LineIsInPlace
<1>2. n \in Nat
  BY <1>1
<1>3. z \in Nat
  BY DEF EndsInTheLast
<1>4. ASSUME NEW i \in 1..n, a + i - 1 <= z PROVE p.tokens[a + i - 1] = words[i]
  <2>1. a + i - 1 \in 1..z
    BY <1>1, <1>2, <1>3, <1>4
  <2>2. p.tokens[a + i - 1] = FileTokens(w)[a + i - 1]
    BY <2>1 DEF EndsInTheLast
  <2> QED BY <1>1, <2>2
<1>5. CASE a + n <= z + 1
  <2>1. \A i \in 1..n : a + i - 1 <= z
    BY <1>1, <1>2, <1>3, <1>5
  <2>2. SeesLine(p, words)
    BY <1>4, <1>5, <2>1 DEF SeesLine
  <2> QED BY <1>1, <2>2 DEF MeetsLine
<1>6. CASE a + n > z + 1
  <2>1. SeesStart(p, words)
    BY <1>4, <1>6 DEF SeesStart
  <2>2. p.tokens # FileTokens(w)
    BY <1>1, <1>6
  <2> QED BY <1>1, <2>1, <2>2 DEF MeetsLine
<1>7. a + n <= z + 1 \/ a + n > z + 1
  BY <1>1, <1>2, <1>3
<1> QED BY <1>5, <1>6, <1>7

\* The servers of a file that ends in one of them.
LEMMA FileUpToTheEnd ==
  ASSUME NEW v, RightFile(v), NEW m \in Mistakes(v), m.kind = "end",
         NEW w, w = SubSeq(v, 1, m.server), NEW lines, lines = LinesOfServer(v[m.server])
  PROVE  /\ m.server \in 1..Len(v) /\ m.line \in 1..Len(lines) /\ m.word \in 1..Len(lines[m.line])
         /\ RightFile(w) /\ Len(w) = m.server
         /\ \A k \in 1..m.server : ServerLines(w)[k] = LinesOfServer(v[k])
<1>1. v \in Seq(Servers) /\ m # NoMistake
  BY DEF RightFile, NoMistake
<1>2. m.server \in 1..Len(v) /\ IsMistakeIn(m, lines)
  BY <1>1, MistakeIsInAServer
<1>3. w \in Seq(Servers) /\ Len(w) = m.server /\ \A k \in 1..m.server : w[k] = v[k]
  BY <1>1, <1>2
<1>4. w # <<>> /\ Len(w) \in Nat
  BY <1>2, <1>3
<1>5. ASSUME NEW s \in Range(w) PROVE ServerIsRight(s)
  <2>1. PICK k \in 1..Len(w) : s = w[k]
    BY <1>3 DEF Range
  <2>2. s = v[k] /\ k \in 1..Len(v)
    BY <1>1, <1>2, <1>3, <2>1
  <2>3. s \in Range(v)
    BY <1>1, <2>2 DEF Range
  <2> QED BY <2>3 DEF RightFile
<1>6. \A k \in 1..m.server : ServerLines(w)[k] = LinesOfServer(v[k])
  BY <1>3 DEF ServerLines
<1> QED BY <1>2, <1>3, <1>4, <1>5, <1>6 DEF RightFile, IsMistakeIn

\* Commented are lines 1 to b, of the last of which only the first e words are there.
IsCutAt(commented, lines, b, e) ==
  /\ b \in 1..Len(lines) /\ e \in 1..Len(lines[b])
  /\ Len(commented) = b /\ commented[b] = SubSeq(lines[b], 1, e) \o Comment
  /\ \A i \in 1..b : i # b => commented[i] = lines[i] \o Comment

\* Such are the lines of the file.
LEMMA LinesUpToTheEnd ==
  ASSUME NEW v, RightFile(v), NEW m \in Mistakes(v), m.kind = "end",
         NEW w, w = SubSeq(v, 1, m.server)
  PROVE  /\ Reach(ServerLines(w), m.server - 1) \in Nat /\ m.line \in Nat \ {0}
         /\ IsCutAt(LinesOfFile(v, m), FileLines(w),
                    Reach(ServerLines(w), m.server - 1) + m.line, m.word)
<1> DEFINE sl == ServerLines(w)
           r == Reach(sl, m.server - 1)
           x == m.server
           y == m.server - 1
           a == m.line
           lines == LinesOfServer(v[x])
           front == SubSeq(lines, 1, a - 1)
           more == SubSeq(lines, 1, a)
           cut == SubSeq(lines[a], 1, m.word)
           before == Upto(sl, y)
           pieces == [k \in 1..x |-> IF k = x THEN Spoilt(LinesOfServer(v[k]), m)
                                              ELSE LinesOfServer(v[k])]
           raw == before \o Append(front, cut)
<1>1. /\ x \in 1..Len(v) /\ a \in 1..Len(lines) /\ m.word \in 1..Len(lines[a])
      /\ RightFile(w) /\ Len(w) = x /\ \A k \in 1..x : sl[k] = LinesOfServer(v[k])
  BY FileUpToTheEnd
<1>2. sl \in Seq(Seq(CleanLines)) /\ Len(sl) = x /\ x \in Nat /\ FileLines(w) \in Seq(CleanLines)
  BY <1>1, FileIsClean
<1>3. y \in Nat /\ y < Len(sl) /\ y + 1 = x /\ y \in 0..Len(sl) /\ x \in 1..x
  BY <1>1, <1>2
<1>4. sl[x] = lines /\ lines \in Seq(CleanLines) /\ FlattenSeq(sl) = FileLines(w)
  BY <1>1, <1>2, <1>3 DEF FileLines
<1>5. before \in Seq(CleanLines) /\ r \in Nat /\ Len(before) = r
  BY <1>2, <1>3, UptoTheNext DEF Reach
<1> HIDE DEF r
<1>6. /\ front \in Seq(CleanLines) /\ Len(front) = a - 1 /\ a \in Nat \ {0} /\ a - 1 \in Nat
      /\ more \in Seq(CleanLines) /\ Len(more) = a /\ a <= Len(lines)
      /\ \A i \in 1..a : more[i] = lines[i]
      /\ \A i \in 1..(a - 1) : front[i] = lines[i]
  <2> DEFINE b == a - 1
             l == Len(lines)
  <2>1. l \in Nat /\ a \in 1..l /\ b \in Nat /\ b <= l /\ a \in Nat \ {0} /\ a <= l
    BY <1>1, <1>4
  <2> HIDE DEF a, b, lines
  <2>2. /\ more \in Seq(CleanLines) /\ Len(more) = a
        /\ \A i \in 1..a : more[i] = lines[i]
    BY <1>4, <2>1
  <2>3. /\ front \in Seq(CleanLines) /\ Len(front) = b
        /\ \A i \in 1..b : front[i] = lines[i]
    <3>1. front = SubSeq(lines, 1, b)
      BY DEF b
    <3> HIDE DEF front
    <3> QED BY <1>4, <2>1, <3>1
  <2> QED BY <2>1, <2>2, <2>3 DEF b
<1>7. cut \in CleanLines
  <2>1. lines[a] \in CleanLines
    BY <1>1, <1>4
  <2>2. lines[a] \in Seq(Tokens) /\ \A i \in 1..Len(lines[a]) : ~Contains(lines[a][i], "#")
    BY <2>1 DEF CleanLines
  <2>3. /\ cut \in Seq(Tokens) /\ Len(cut) = m.word
        /\ \A i \in 1..m.word : cut[i] = lines[a][i] /\ i \in 1..Len(lines[a])
    <3> DEFINE l == lines[a]
               e == m.word
    <3>1. l \in Seq(Tokens) /\ e \in 1..Len(l) /\ cut = SubSeq(l, 1, e)
      BY <1>1, <2>2
    <3> HIDE DEF l, e, cut
    <3>2. cut \in Seq(Tokens) /\ Len(cut) = e /\ \A i \in 1..e : cut[i] = l[i] /\ i \in 1..Len(l)
      BY ONLY <3>1
    <3> QED BY <3>2 DEF l, e
  <2> HIDE DEF cut
  <2> QED BY <2>2, <2>3 DEF CleanLines
<1>8. Spoilt(lines, m) = Append(front, cut)
  BY DEF Spoilt
<1> HIDE DEF sl, x, y, a, lines, front, more, cut, before
<1>9. pieces = Append(SubSeq(sl, 1, y), Append(front, cut))
  <2>1. pieces = [k \in 1..x |-> IF k = x THEN Append(front, cut) ELSE sl[k]]
    <3>1. \A k \in 1..x : k # x => LinesOfServer(v[k]) = sl[k]
      BY <1>1
    <3>2. Spoilt(LinesOfServer(v[x]), m) = Append(front, cut)
      BY <1>8 DEF lines
    <3> QED BY <3>1, <3>2
  <2> DEFINE z == Append(front, cut)
             s == SubSeq(sl, 1, y)
  <2>2. s \in Seq(Seq(CleanLines)) /\ Len(s) = y /\ \A k \in 1..y : s[k] = sl[k]
    BY <1>2, <1>3
  <2> HIDE DEF z, s
  <2>3. Append(s, z) = [k \in 1..x |-> IF k = x THEN z ELSE sl[k]]
    <3>1. \A k \in 1..x : k = x \/ k \in 1..y
      BY <1>2, <1>3
    <3>2. Append(s, z) = [k \in 1..(y + 1) |-> IF k = y + 1 THEN z ELSE s[k]]
      <4>1. z \in Seq(CleanLines) /\ y \in Nat /\ s \in Seq(Seq(CleanLines)) /\ Len(s) = y
        BY <1>3, <1>6, <1>7, <2>2 DEF z
      <4> DEFINE u == Append(s, z)
      <4>2. /\ u \in Seq(Seq(CleanLines)) /\ Len(u) = y + 1 /\ u[y + 1] = z
            /\ \A k \in 1..y : u[k] = s[k]
        BY ONLY <4>1
      <4> HIDE DEF u
      <4>3. u = [k \in 1..(y + 1) |-> u[k]]
        BY ONLY <4>2
      <4>4. \A k \in 1..(y + 1) : u[k] = IF k = y + 1 THEN z ELSE s[k]
        <5>1. \A k \in 1..(y + 1) : k = y + 1 \/ k \in 1..y
          BY ONLY <4>1
        <5> QED BY ONLY <4>2, <5>1
      <4> QED BY ONLY <4>3, <4>4 DEF u
    <3>3. \A k \in 1..x : k # x => s[k] = sl[k]
      BY <2>2, <3>1
    <3> QED BY <1>3, <3>2, <3>3
  <2> QED BY <2>1, <2>3 DEF z, s
<1>10. FlattenSeq(pieces) = raw
  <2>1. Append(front, cut) \in Seq(CleanLines)
    BY <1>6, <1>7
  <2> DEFINE z == Append(front, cut)
             s == SubSeq(sl, 1, y)
  <2>2. s \in Seq(Seq(CleanLines)) /\ z \in Seq(CleanLines)
    BY <1>2, <1>3, <2>1
  <2> HIDE DEF z
  <2>3. FlattenSeq(Append(s, z)) = FlattenSeq(s) \o z
    <3> HIDE DEF s
    <3> QED BY <2>2, FlattenAppend
  <2> QED BY <1>9, <2>3 DEF z, before, Upto
<1>11. /\ r + a \in Nat /\ r + a <= Len(FileLines(w))
       /\ \A i \in 1..(r + a) : (before \o more)[i] = FileLines(w)[i]
  <2>1. more \in Seq(CleanLines) /\ Len(more) <= Len(sl[y + 1])
        /\ \A i \in 1..Len(more) : more[i] = sl[y + 1][i]
    BY <1>3, <1>4, <1>6
  <2>2. /\ Len(before \o more) \in 0..Len(FlattenSeq(sl))
        /\ Len(before \o more) = Reach(sl, y) + Len(more)
        /\ \A i \in 1..Len(before \o more) : (before \o more)[i] = FlattenSeq(sl)[i]
    <3>1. sl \in Seq(Seq(CleanLines)) /\ y \in Nat /\ y < Len(sl) /\ more \in Seq(CleanLines)
      BY <1>2, <1>3, <2>1
    <3>2. /\ Len(Upto(sl, y) \o more) \in 0..Len(FlattenSeq(sl))
          /\ Len(Upto(sl, y) \o more) = Reach(sl, y) + Len(more)
          /\ \A i \in 1..Len(Upto(sl, y) \o more) :
               (Upto(sl, y) \o more)[i] = FlattenSeq(sl)[i]
      BY ONLY <2>1, <3>1, PartOfTheWhole
    <3> QED BY <3>2 DEF before
  <2>3. Reach(sl, y) = r
    BY DEF r, y
  <2>4. Len(FlattenSeq(sl)) \in Nat
    BY <1>2, <1>4
  <2> DEFINE p == Len(before \o more)
             q == Len(FlattenSeq(sl))
  <2>5. p = r + a /\ p \in 0..q /\ q \in Nat
    BY <1>6, <2>2, <2>3, <2>4
  <2>6. q = Len(FileLines(w)) /\ \A i \in 1..p : (before \o more)[i] = FileLines(w)[i]
    BY <1>4, <2>2
  <2> HIDE DEF p, q
  <2>7. r + a \in Nat /\ r + a <= Len(FileLines(w))
    BY ONLY <2>5, <2>6
  <2> QED BY ONLY <2>5, <2>6, <2>7
<1>12. /\ raw \in Seq(CleanLines) /\ Len(raw) = r + a /\ raw[r + a] = cut
       /\ FileLines(w)[r + a] = lines[a]
       /\ \A i \in 1..(r + a) : i # r + a => raw[i] = FileLines(w)[i]
  <2> DEFINE z == Append(front, cut)
             t == before \o more
  <2>1. /\ z \in Seq(CleanLines) /\ Len(z) = a /\ z[a] = cut
        /\ \A i \in 1..(a - 1) : z[i] = front[i]
    BY <1>6, <1>7
  <2> HIDE DEF z
  <2>2. /\ before \o z \in Seq(CleanLines) /\ Len(before \o z) = Len(before) + Len(z)
        /\ \A i \in 1..Len(before) : (before \o z)[i] = before[i]
        /\ \A j \in 1..Len(z) : (before \o z)[Len(before) + j] = z[j]
    <3>1. before \in Seq(CleanLines) /\ z \in Seq(CleanLines)
      BY <1>5, <2>1
    <3> QED BY ONLY <3>1, PutBehind
  <2>3. /\ t \in Seq(CleanLines) /\ Len(t) = Len(before) + Len(more)
        /\ \A i \in 1..Len(before) : t[i] = before[i]
        /\ \A j \in 1..Len(more) : t[Len(before) + j] = more[j]
    <3>1. before \in Seq(CleanLines) /\ more \in Seq(CleanLines)
      BY <1>5, <1>6
    <3> QED BY ONLY <3>1, PutBehind
  <2>4. raw = before \o z
    BY DEF z
  <2> HIDE DEF raw, t
  <2>5. /\ raw \in Seq(CleanLines) /\ Len(raw) = r + a
        /\ \A i \in 1..r : raw[i] = before[i]
        /\ \A j \in 1..a : raw[r + j] = z[j]
    BY ONLY <1>5, <2>1, <2>2, <2>4
  <2>6. /\ \A i \in 1..r : t[i] = before[i]
        /\ \A j \in 1..a : t[r + j] = lines[j]
    BY ONLY <1>5, <1>6, <2>3
  <2>7. \A i \in 1..(r + a) : t[i] = FileLines(w)[i]
    BY <1>11 DEF t
  <2>8. a \in 1..a /\ r + a \in 1..(r + a)
    BY ONLY <1>5, <1>6
  <2>9. raw[r + a] = cut /\ FileLines(w)[r + a] = lines[a]
    BY ONLY <2>1, <2>5, <2>6, <2>7, <2>8
  <2>10. ASSUME NEW i \in 1..(r + a), i # r + a PROVE raw[i] = FileLines(w)[i]
    <3>1. CASE i <= r
      <4>1. i \in 1..r
        BY <1>5, <3>1
      <4> QED BY <2>5, <2>6, <2>7, <4>1
    <3>2. CASE i > r
      <4> DEFINE j == i - r
      <4>1. i = r + j /\ j \in 1..(a - 1) /\ j \in 1..a
        BY <1>5, <1>6, <2>10, <3>2
      <4> HIDE DEF j
      <4>2. raw[i] = z[j] /\ z[j] = front[j] /\ front[j] = lines[j] /\ t[i] = lines[j]
        BY ONLY <1>6, <2>1, <2>5, <2>6, <4>1
      <4> QED BY <2>7, <4>2
    <3> QED BY <1>5, <3>1, <3>2
  <2> QED BY <2>5, <2>9, <2>10
<1>13. LinesOfFile(v, m) = [i \in 1..Len(raw) |-> raw[i] \o Comment]
  <2>1. (IF m.kind = "end" THEN m.server ELSE Len(v)) = x
    BY DEF x
  <2>2. pieces = [k \in 1..x |-> IF k = m.server THEN Spoilt(LinesOfServer(v[k]), m)
                                 ELSE LinesOfServer(v[k])]
    BY DEF x
  <2> HIDE DEF pieces, raw
  <2> QED BY <1>10, <2>1, <2>2 DEF LinesOfFile, Comment
<1> HIDE DEF raw, pieces
<1>14. /\ Len(LinesOfFile(v, m)) = r + a
       /\ LinesOfFile(v, m)[r + a] = SubSeq(FileLines(w)[r + a], 1, m.word) \o Comment
       /\ \A i \in 1..(r + a) : i # r + a => LinesOfFile(v, m)[i] = FileLines(w)[i] \o Comment
  <2>1. /\ Len(LinesOfFile(v, m)) = r + a
        /\ \A i \in 1..(r + a) : LinesOfFile(v, m)[i] = raw[i] \o Comment
    BY <1>12, <1>13
  <2>2. r + a \in 1..(r + a)
    BY <1>5, <1>6
  <2>3. cut = SubSeq(FileLines(w)[r + a], 1, m.word)
    BY <1>12 DEF cut
  <2> QED BY <1>12, <2>1, <2>2, <2>3
<1>15. m.word \in 1..Len(FileLines(w)[r + a]) /\ r + a \in 1..Len(FileLines(w))
  <2>1. Len(FileLines(w)) \in Nat
    BY <1>2
  <2> QED BY <1>1, <1>5, <1>6, <1>11, <1>12, <2>1
<1>16. IsCutAt(LinesOfFile(v, m), FileLines(w), r + a, m.word)
  BY <1>14, <1>15 DEF IsCutAt
<1> QED BY <1>5, <1>6, <1>16 DEF a, r, sl

LEMMA BracketsAreWhole ==
  Whole(<<"server">>) /\ Whole(<<"location">>) /\ Whole(Opens) /\ Whole(Closes)
<1>1. \A symbol \in {"server", "location", "{", "}"} : symbol \in Symbols
  BY DEF Symbols
<1> QED BY <1>1, SymbolIsPlain DEF Whole, IsPlain, Opens, Closes

\* The lines around the directives have no semicolon to split.
LEMMA TokensOfTheHeads ==
  /\ SplitAll(ServerHead) = ServerHead /\ SplitAll(<<Closes>>) = <<Closes>>
  /\ \A l \in Locations : LocationIsRight(l) => SplitAll(LocationHead(l)) = LocationHead(l)
<1>1. SplitAll(ServerHead) = ServerHead
  <2> DEFINE line == ServerHead
  <2>1. line \in Seq(Tokens) /\ Len(line) = 2 /\ line[1] = <<"server">> /\ line[2] = Opens
    BY MarksAreTokens, TwoAreASequence DEF ServerHead
  <2>2. \A i \in 1..2 : i = 1 \/ i = 2
    OBVIOUS
  <2> HIDE DEF line
  <2>3. \A i \in 1..Len(line) : Whole(line[i])
    BY <2>1, <2>2, BracketsAreWhole
  <2> QED BY <2>1, <2>3, SplitAllOfWholes DEF line
<1>2. SplitAll(<<Closes>>) = <<Closes>>
  <2> DEFINE line == <<Closes>>
  <2>1. line \in Seq(Tokens) /\ Len(line) = 1 /\ line[1] = Closes
    BY MarksAreTokens, OneIsASequence
  <2>2. \A i \in 1..1 : i = 1
    OBVIOUS
  <2> HIDE DEF line
  <2>3. \A i \in 1..Len(line) : Whole(line[i])
    BY <2>1, <2>2, BracketsAreWhole
  <2>4. SplitAll(line) = line
    BY <2>1, <2>3, SplitAllOfWholes
  <2> QED BY <2>4 DEF line
<1>3. ASSUME NEW l \in Locations, LocationIsRight(l)
      PROVE  SplitAll(LocationHead(l)) = LocationHead(l)
  <2> DEFINE line == LocationHead(l)
  <2>1. l.path \in Tokens /\ Whole(l.path)
    <3>1. l.path \in Words
      BY DEF Locations
    <3>2. IsPlain(l.path)
      BY <1>3 DEF LocationIsRight
    <3> QED BY <3>1, <3>2, WordsAreTokens DEF IsPlain, Whole
  <2>2. /\ Len(line) = 3 /\ line[1] = <<"location">> /\ line[2] = l.path /\ line[3] = Opens
    BY DEF LocationHead
  <2>3. line \in Seq(Tokens)
    <3> DEFINE name == <<"location">>
               path == l.path
    <3>1. name \in Tokens /\ path \in Tokens /\ Opens \in Tokens
      BY <2>1, MarksAreTokens
    <3>2. line = <<name, path, Opens>>
      BY DEF LocationHead
    <3> HIDE DEF name, path, line
    <3> QED BY <3>1, <3>2
  <2>4. \A i \in 1..3 : i = 1 \/ i = 2 \/ i = 3
    OBVIOUS
  <2> HIDE DEF line
  <2>5. \A i \in 1..Len(line) : Whole(line[i])
    BY <2>1, <2>2, <2>4, BracketsAreWhole
  <2> QED BY <2>3, <2>5, SplitAllOfWholes DEF line
<1> QED BY <1>1, <1>2, <1>3

\* The lines of a server are its head, its directives, its locations one behind the
\* other, and a bracket.
LEMMA PlacesInAServer ==
  ASSUME NEW s \in Servers, ServerIsRight(s)
  PROVE  /\ Len(s.directives) \in Nat /\ Len(s.locations) \in Nat
         /\ LocationBegins(s, 1) = Len(s.directives) + 2
         /\ \A j \in 1..Len(s.locations) :
              /\ LocationBegins(s, j) \in Nat /\ LocationBegins(s, j) > Len(s.directives) + 1
              /\ LocationBegins(s, j + 1)
                   = LocationBegins(s, j) + Len(LinesOfLocation(s.locations[j]))
              /\ LocationBegins(s, j + 1) <= LocationBegins(s, Len(s.locations) + 1)
         /\ LocationBegins(s, Len(s.locations) + 1) \in Nat
         /\ LocationBegins(s, Len(s.locations) + 1) > Len(s.directives) + 1
<1> DEFINE lls == LocationLines(s)
           n == Len(s.locations)
           m == Len(s.directives)
<1>1. lls \in Seq(Seq(CleanLines)) /\ Len(lls) = n
  BY LocationLinesAreClean
<1>2. n \in Nat /\ m \in Nat
  BY DEF Servers
<1>3. \A j \in 1..n : lls[j] = LinesOfLocation(s.locations[j])
  BY DEF LocationLines
<1>4. \A j : LocationBegins(s, j) = m + Reach(lls, j - 1) + 2
  BY DEF LocationBegins
<1>5. \A j \in 0..n : Reach(lls, j) \in Nat
  BY <1>1, UptoTheNext
<1>6. Reach(lls, 0) = 0
  <2>1. 0 \in 0..Len(lls)
    BY <1>1, <1>2
  <2> QED BY <1>1, <2>1, UptoTheNext
<1>7. \A j \in 1..n : /\ Reach(lls, j) <= Reach(lls, n)
                      /\ Reach(lls, j) = Reach(lls, j - 1) + Len(lls[j])
  <2>1. PiecesUpto(lls, n)
    BY <1>1, PiecesAreInPlace
  <2> QED BY <2>1 DEF PiecesUpto
<1> HIDE DEF lls, n, m
<1>8. LocationBegins(s, 1) = m + 2
  <2>1. 1 - 1 = 0
    OBVIOUS
  <2>2. LocationBegins(s, 1) = m + Reach(lls, 0) + 2
    BY <1>4, <2>1
  <2> QED BY <1>2, <1>6, <2>2
<1>9. ASSUME NEW j \in 1..n
      PROVE  /\ LocationBegins(s, j) \in Nat /\ LocationBegins(s, j) > m + 1
             /\ LocationBegins(s, j + 1)
                  = LocationBegins(s, j) + Len(LinesOfLocation(s.locations[j]))
             /\ LocationBegins(s, j + 1) <= LocationBegins(s, n + 1)
  <2>1. j + 1 - 1 = j /\ n + 1 - 1 = n /\ j - 1 \in 0..n /\ j \in 0..n /\ n \in 0..n
    BY <1>2
  <2>2. /\ LocationBegins(s, j) = m + Reach(lls, j - 1) + 2
        /\ LocationBegins(s, j + 1) = m + Reach(lls, j) + 2
        /\ LocationBegins(s, n + 1) = m + Reach(lls, n) + 2
    BY <1>4, <2>1
  <2>3. Reach(lls, j - 1) \in Nat /\ Reach(lls, j) \in Nat /\ Reach(lls, n) \in Nat
    BY <1>5, <2>1
  <2>4. /\ Reach(lls, j) <= Reach(lls, n)
        /\ Reach(lls, j) = Reach(lls, j - 1) + Len(LinesOfLocation(s.locations[j]))
    BY <1>3, <1>7
  <2>5. Len(LinesOfLocation(s.locations[j])) \in Nat
    <3>1. lls[j] \in Seq(CleanLines)
      BY <1>1
    <3> QED BY <1>3, <3>1
  <2> DEFINE a == Reach(lls, j - 1)
             b == Reach(lls, j)
             c == Reach(lls, n)
             x == LocationBegins(s, j)
             y == LocationBegins(s, j + 1)
             z == LocationBegins(s, n + 1)
             e == Len(LinesOfLocation(s.locations[j]))
  <2>6. /\ x = m + a + 2 /\ y = m + b + 2 /\ z = m + c + 2 /\ b <= c /\ b = a + e
        /\ a \in Nat /\ b \in Nat /\ c \in Nat /\ e \in Nat /\ m \in Nat
    BY <1>2, <2>2, <2>3, <2>4, <2>5
  <2> HIDE DEF a, b, c, x, y, z, e
  <2>7. x \in Nat /\ x > m + 1 /\ y = x + e /\ y <= z
    BY ONLY <2>6
  <2> QED BY <2>7 DEF x, y, z, e
<1>10. LocationBegins(s, n + 1) \in Nat /\ LocationBegins(s, n + 1) > m + 1
  <2>1. n + 1 - 1 = n /\ n \in 0..n
    BY <1>2
  <2>2. LocationBegins(s, n + 1) = m + Reach(lls, n) + 2 /\ Reach(lls, n) \in Nat
    BY <1>4, <1>5, <2>1
  <2> QED BY ONLY <1>2, <2>2
<1> QED BY <1>2, <1>8, <1>9, <1>10 DEF n, m

\* The parser is at this line of a server.
OnLine(p, w, k, m) == EndsInTheLast(p.tokens, w) /\ p.at = At(w, k, m)

LEMMA ServerHasAHead ==
  ASSUME NEW w, RightFile(w), NEW k \in 1..Len(w)
  PROVE  LinesOfServer(w[k])[1] = ServerHead /\ 1 \in 1..Len(LinesOfServer(w[k]))
<1>1. w[k] \in Servers /\ ServerIsRight(w[k])
  BY RightServers
<1>2. /\ LocationBegins(w[k], Len(w[k].locations) + 1) \in Nat
      /\ LocationBegins(w[k], Len(w[k].locations) + 1) > Len(w[k].directives) + 1
      /\ Len(w[k].directives) \in Nat
  BY <1>1, PlacesInAServer
<1>3. /\ LinesOfServer(w[k])[1] = ServerHead
      /\ Len(LinesOfServer(w[k])) = LocationBegins(w[k], Len(w[k].locations) + 1)
  BY <1>1, LinesOfAServer
<1> QED BY <1>2, <1>3

\* And its tokens end in the last of its servers.
LEMMA TokensUpToTheEnd ==
  ASSUME NEW v, RightFile(v), NEW m \in Mistakes(v), m.kind = "end",
         NEW w, w = SubSeq(v, 1, m.server)
  PROVE  RightFile(w) /\ EndsInTheLast(tokenize(LinesOfFile(v, m)), w)
<1> DEFINE sl == ServerLines(w)
           lt == LineTokens(w)
           lines == FileLines(w)
           r == Reach(sl, m.server - 1)
           b == r + m.line
           n == b - 1
           cut == SubSeq(lines[b], 1, m.word)
           raw == LinesOfFile(v, m)
           part == SplitAll(cut)
           t == Upto(lt, n) \o part
<1>1. RightFile(w) /\ Len(w) = m.server
  BY FileUpToTheEnd
<1>2. /\ sl \in Seq(Seq(CleanLines)) /\ lines \in Seq(CleanLines)
      /\ lt \in Seq(Seq(Tokens)) /\ Len(lt) = Len(lines)
  BY <1>1, FileIsClean
<1>3. /\ r \in Nat /\ m.line \in Nat \ {0} /\ b \in 1..Len(lines)
      /\ m.word \in 1..Len(lines[b])
      /\ Len(raw) = b /\ raw[b] = cut \o Comment
      /\ \A i \in 1..b : i # b => raw[i] = lines[i] \o Comment
  <2>1. r \in Nat /\ m.line \in Nat \ {0} /\ IsCutAt(raw, lines, b, m.word)
    BY LinesUpToTheEnd
  <2> HIDE DEF raw, lines, b
  <2> QED BY <2>1 DEF IsCutAt
<1> HIDE DEF raw
<1>4. b \in Nat \ {0} /\ n \in Nat /\ n + 1 = b /\ b \in 1..Len(lines) /\ r <= n
  <2>1. Len(lines) \in Nat
    BY <1>2
  <2> QED BY <1>3, <2>1
<1>5. lines[b] \in CleanLines /\ lines[b] \in Seq(Tokens)
  <2>1. lines[b] \in CleanLines
    BY <1>2, <1>4
  <2> QED BY <2>1 DEF CleanLines
<1>6. cut \in CleanLines
  <2>1. \A i \in 1..Len(lines[b]) : ~Contains(lines[b][i], "#")
    BY <1>5 DEF CleanLines
  <2>2. /\ cut \in Seq(Tokens) /\ Len(cut) = m.word
        /\ \A i \in 1..m.word : cut[i] = lines[b][i] /\ i \in 1..Len(lines[b])
    <3> DEFINE l == lines[b]
               e == m.word
    <3>1. l \in Seq(Tokens) /\ e \in 1..Len(l) /\ cut = SubSeq(l, 1, e)
      BY <1>3, <1>5
    <3> HIDE DEF l, e, cut
    <3>2. cut \in Seq(Tokens) /\ Len(cut) = e /\ \A i \in 1..e : cut[i] = l[i] /\ i \in 1..Len(l)
      BY ONLY <3>1
    <3> QED BY <3>2 DEF l, e
  <2> HIDE DEF cut
  <2> QED BY <2>1, <2>2 DEF CleanLines
<1>7. /\ part \in Seq(Tokens) /\ SplitAll(lines[b]) \in Seq(Tokens)
      /\ Len(part) \in 1..Len(SplitAll(lines[b]))
      /\ \A i \in 1..Len(part) : part[i] = SplitAll(lines[b])[i]
  BY <1>3, <1>5, TokensOfTheFirstWords
<1>8. \A i \in 1..Len(lines) : lt[i] = SplitAll(lines[i])
  BY DEF LineTokens
<1> HIDE DEF sl, lt, lines, r, b, n, part
<1>9. tokenize(LinesOfFile(v, m)) = t
  <2> HIDE DEF cut
  <2> DEFINE read == [i \in 1..Len(raw) |-> SplitAll(UpToComment(raw[i]))]
  <2>2. ASSUME NEW i \in 1..b
        PROVE  SplitAll(UpToComment(raw[i])) = IF i = b THEN part ELSE lt[i]
    <3>1. CASE i = b
      <4>1. raw[i] = cut \o Comment
        BY <1>3, <3>1
      <4>2. UpToComment(raw[i]) = cut
        BY <1>6, <4>1, CommentIsCut
      <4> QED BY <3>1, <4>2 DEF part
    <3>2. CASE i # b
      <4>1. i \in 1..Len(lines) /\ lines[i] \in CleanLines
        <5>1. Len(lines) \in Nat
          BY <1>2
        <5> QED BY <1>2, <1>4, <5>1
      <4>2. raw[i] = lines[i] \o Comment
        BY <1>3, <3>2
      <4>3. UpToComment(raw[i]) = lines[i]
        BY <4>1, <4>2, CommentIsCut
      <4> QED BY <1>8, <3>2, <4>1, <4>3
    <3> QED BY <3>1, <3>2
  <2>3. read = [i \in 1..b |-> IF i = b THEN part ELSE lt[i]]
    BY <1>3, <2>2
  <2> DEFINE s == SubSeq(lt, 1, n)
             u == Append(s, part)
  <2>4. s \in Seq(Seq(Tokens)) /\ Len(s) = n /\ \A i \in 1..n : s[i] = lt[i]
    BY <1>2, <1>4
  <2>5. Upto(lt, n) = FlattenSeq(s)
    BY DEF Upto
  <2> HIDE DEF s
  <2>6. /\ u \in Seq(Seq(Tokens)) /\ Len(u) = n + 1 /\ u[n + 1] = part
        /\ \A i \in 1..n : u[i] = s[i]
    BY <1>7, <2>4
  <2>7. FlattenSeq(u) = t
    BY <1>7, <2>4, <2>5, FlattenAppend
  <2> HIDE DEF u
  <2>8. u = [i \in 1..b |-> u[i]]
    BY <1>4, <2>6
  <2>9. \A i \in 1..b : u[i] = IF i = b THEN part ELSE lt[i]
    <3>1. \A i \in 1..b : i = b \/ i \in 1..n
      BY ONLY <1>4
    <3> QED BY ONLY <1>4, <2>4, <2>6, <3>1
  <2>10. u = read
    BY ONLY <2>3, <2>8, <2>9
  <2> QED BY <2>7, <2>10 DEF tokenize, raw
<1>10. /\ Len(t) \in 0..Len(FileTokens(w)) /\ Len(t) = Reach(lt, n) + Len(part)
       /\ \A i \in 1..Len(t) : t[i] = FileTokens(w)[i]
  <2>1. /\ lt \in Seq(Seq(Tokens)) /\ n \in Nat /\ n < Len(lt) /\ part \in Seq(Tokens)
        /\ lt[n + 1] = SplitAll(lines[b])
    <3>1. Len(lines) \in Nat
      BY <1>2
    <3> QED BY <1>2, <1>4, <1>7, <1>8, <3>1
  <2>2. Len(part) <= Len(lt[n + 1]) /\ \A i \in 1..Len(part) : part[i] = lt[n + 1][i]
    <3>1. Len(SplitAll(lines[b])) \in Nat
      BY <1>7
    <3> QED BY <1>7, <2>1, <3>1
  <2>3. FlattenSeq(lt) = FileTokens(w)
    BY DEF lt, FileTokens
  <2>4. /\ Len(Upto(lt, n) \o part) \in 0..Len(FlattenSeq(lt))
        /\ Len(Upto(lt, n) \o part) = Reach(lt, n) + Len(part)
        /\ \A i \in 1..Len(Upto(lt, n) \o part) :
             (Upto(lt, n) \o part)[i] = FlattenSeq(lt)[i]
    <3>1. lt \in Seq(Seq(Tokens)) /\ n \in Nat /\ n < Len(lt) /\ part \in Seq(Tokens)
      BY <2>1
    <3> QED BY ONLY <2>2, <3>1, PartOfTheWhole
  <2> QED BY ONLY <2>3, <2>4
<1>11. At(w, Len(w), 1) <= Len(t)
  <2>1. r + 1 - 1 = r
    BY <1>3
  <2>2. At(w, Len(w), 1) = 1 + Reach(lt, r)
    <3>1. At(w, m.server, 1) = 1 + Reach(lt, r + 1 - 1)
      BY DEF At, lt, r, sl
    <3> QED BY <1>1, <2>1, <3>1
  <2>3. n \in 0..Len(lt) /\ r \in 0..n
    <3>1. Len(lines) \in Nat
      BY <1>2
    <3> QED BY <1>2, <1>3, <1>4, <3>1
  <2>4. Reach(lt, r) <= Reach(lt, n)
    BY <1>2, <2>3, ReachGrows
  <2>5. Reach(lt, r) \in Nat /\ Reach(lt, n) \in Nat
    <3>1. r \in 0..Len(lt)
      BY <1>2, <2>3
    <3> QED BY <1>2, <2>3, <3>1, UptoTheNext
  <2>6. Len(part) \in Nat /\ Len(part) >= 1
    BY <1>7
  <2> HIDE DEF t
  <2> QED BY ONLY <1>10, <2>2, <2>4, <2>5, <2>6
<1> HIDE DEF t
<1> QED BY <1>1, <1>9, <1>10, <1>11 DEF EndsInTheLast

\* A whole file ends there too.
LEMMA WholeFileEndsInTheLast ==
  ASSUME NEW w, RightFile(w)
  PROVE  EndsInTheLast(FileTokens(w), w)
<1> DEFINE n == Len(w)
           z == Len(FileTokens(w))
           a == At(w, n, 1)
           lines == LinesOfServer(w[n])
           words == SplitAll(lines[1])
<1>1. n \in Nat /\ n # 0 /\ n \in 1..n
  BY DEF RightFile
<1>2. z \in Nat
  <2>1. LineTokens(w) \in Seq(Seq(Tokens))
    BY FileIsClean
  <2>2. FileTokens(w) \in Seq(Tokens)
    BY <2>1, FlattenIsASequence DEF FileTokens
  <2> QED BY <2>2
<1>3. 1 \in 1..Len(lines) /\ Len(words) = 2
  <2>1. lines[1] = ServerHead /\ 1 \in 1..Len(lines)
    BY <1>1, ServerHasAHead
  <2>2. words = ServerHead
    BY <2>1, TokensOfTheHeads
  <2> QED BY <2>1, <2>2 DEF ServerHead
<1>4. a \in Nat /\ At(w, n, 1 + 1) = a + Len(words) /\ At(w, n, 1 + 1) <= z + 1
  <2> DEFINE i == 1
  <2>1. n \in 1..Len(w) /\ i \in 1..Len(LinesOfServer(w[n]))
    BY <1>1, <1>3
  <2> HIDE DEF n, i
  <2>2. /\ At(w, n, i) \in Nat \ {0}
        /\ At(w, n, i + 1) = At(w, n, i) + Len(SplitAll(LinesOfServer(w[n])[i]))
        /\ At(w, n, i + 1) <= Len(FileTokens(w)) + 1
    BY <2>1, LineIsInPlace
  <2> QED BY <2>2 DEF i
<1> HIDE DEF n, z, a, words, lines
<1>5. a <= z
  BY ONLY <1>2, <1>3, <1>4
<1> QED BY <1>2, <1>5 DEF EndsInTheLast, n, z, a

LEMMA AtServerHead ==
  ASSUME NEW w, RightFile(w), NEW k \in 1..Len(w), NEW p, OnLine(p, w, k, 1)
  PROVE  MeetsLine(p, ServerHead, w) /\ At(w, k, 2) = p.at + 2
<1>1. LinesOfServer(w[k])[1] = ServerHead /\ 1 \in 1..Len(LinesOfServer(w[k]))
  BY ServerHasAHead
<1>2. SplitAll(LinesOfServer(w[k])[1]) = ServerHead
  BY <1>1, TokensOfTheHeads
<1>3. MeetsLine(p, ServerHead, w) /\ At(w, k, 1 + 1) = p.at + Len(ServerHead)
  BY <1>1, <1>2, SeesTheLine DEF OnLine
<1>4. Len(ServerHead) = 2 /\ 1 + 1 = 2
  BY DEF ServerHead
<1> QED BY <1>3, <1>4

LEMMA AtServerDirective ==
  ASSUME NEW w, RightFile(w), NEW k \in 1..Len(w), NEW i \in 1..Len(w[k].directives),
         NEW p, OnLine(p, w, k, 1 + i)
  PROVE  /\ MeetsLine(p, LineWords(w[k].directives[i]), w)
         /\ At(w, k, 1 + i + 1) = p.at + Len(LineWords(w[k].directives[i]))
         /\ w[k].directives[i] \in Directives /\ ServerDirectiveIsRight(w[k].directives[i])
<1> DEFINE d == w[k].directives[i]
           m == 1 + i
<1>1. w[k] \in Servers /\ ServerIsRight(w[k])
  BY RightServers
<1>2. d \in Directives /\ ServerDirectiveIsRight(d)
  <2>1. w[k].directives \in Seq(Directives)
    BY <1>1 DEF Servers
  <2> QED BY <1>1, <2>1 DEF ServerIsRight, Range
<1>3. LinesOfServer(w[k])[m] = Line(d) /\ m \in 1..Len(LinesOfServer(w[k]))
  <2>1. /\ LocationBegins(w[k], Len(w[k].locations) + 1) \in Nat
        /\ LocationBegins(w[k], Len(w[k].locations) + 1) > Len(w[k].directives) + 1
        /\ Len(w[k].directives) \in Nat
    BY <1>1, PlacesInAServer
  <2>2. /\ LinesOfServer(w[k])[m] = Line(d)
        /\ Len(LinesOfServer(w[k])) = LocationBegins(w[k], Len(w[k].locations) + 1)
    BY <1>1, LinesOfAServer
  <2> QED BY <2>1, <2>2
<1>4. SplitAll(Line(d)) = LineWords(d)
  BY <1>2, RightDirectives, TokensOfALine DEF DirectiveIsRight
<1>5. SplitAll(LinesOfServer(w[k])[m]) = LineWords(d)
  BY <1>3, <1>4
<1> HIDE DEF d, m
<1>6. MeetsLine(p, LineWords(d), w) /\ At(w, k, m + 1) = p.at + Len(LineWords(d))
  <2>1. EndsInTheLast(p.tokens, w) /\ p.at = At(w, k, m)
    BY DEF OnLine, m
  <2> QED BY <1>3, <1>5, <2>1, SeesTheLine
<1> QED BY <1>2, <1>6 DEF d, m

\* The q-th line of a location, where the parser is.
LEMMA AtLocationLine ==
  ASSUME NEW w, RightFile(w), NEW k \in 1..Len(w), NEW j \in 1..Len(w[k].locations),
         NEW q \in 1..(Len(w[k].locations[j].directives) + 2),
         NEW m, m = LocationBegins(w[k], j) + q - 1, NEW p, OnLine(p, w, k, m),
         NEW words, SplitAll(LinesOfLocation(w[k].locations[j])[q]) = words
  PROVE  MeetsLine(p, words, w) /\ At(w, k, m + 1) = p.at + Len(words)
<1> DEFINE lines == LinesOfLocation(w[k].locations[j])
           last == LocationBegins(w[k], Len(w[k].locations) + 1)
           n == Len(w[k].locations[j].directives) + 2
           x == LocationBegins(w[k], j)
           y == LocationBegins(w[k], j + 1)
<1>1. w[k] \in Servers /\ ServerIsRight(w[k])
  BY RightServers
<1>2. w[k].locations[j] \in Locations /\ LocationIsRight(w[k].locations[j])
  <2>1. w[k].locations \in Seq(Locations)
    BY <1>1 DEF Servers
  <2> QED BY <1>1, <2>1 DEF ServerIsRight, Range
<1>3. Len(lines) = n /\ n \in Nat
  <2>1. w[k].locations[j].directives \in Seq(Directives)
    BY <1>2 DEF Locations
  <2> QED BY SMTT(40), <1>2, <2>1, LinesOfALocation
<1>4. LinesOfServer(w[k])[m] = lines[q] /\ Len(LinesOfServer(w[k])) = last
  <2>1. q \in 1..Len(lines)
    BY <1>3
  <2> QED BY <1>1, <2>1, LinesOfAServer
<1>5. /\ x \in Nat /\ x > Len(w[k].directives) + 1 /\ y = x + n /\ y <= last
      /\ last \in Nat /\ Len(w[k].directives) \in Nat
  BY <1>1, <1>3, PlacesInAServer
<1> HIDE DEF lines, last, n, x, y
<1>6. q \in 1..n /\ m = x + q - 1
  BY DEF n, x
<1>7. m \in 1..last
  BY SMTT(40), <1>3, <1>5, <1>6
<1>8. SplitAll(LinesOfServer(w[k])[m]) = words
  BY <1>4 DEF lines
<1> QED BY <1>4, <1>7, <1>8, SeesTheLine DEF OnLine

LEMMA RightLocations ==
  ASSUME NEW w, RightFile(w), NEW k \in 1..Len(w), NEW j \in 1..Len(w[k].locations)
  PROVE  /\ w[k].locations[j] \in Locations /\ LocationIsRight(w[k].locations[j])
         /\ w[k].locations[j].directives \in Seq(Directives)
         /\ Len(w[k].locations[j].directives) \in Nat
         /\ LocationBegins(w[k], j) \in Nat
         /\ LocationBegins(w[k], j + 1)
              = LocationBegins(w[k], j) + (Len(w[k].locations[j].directives) + 2)
<1>1. w[k] \in Servers /\ ServerIsRight(w[k])
  BY RightServers
<1>2. w[k].locations[j] \in Locations /\ LocationIsRight(w[k].locations[j])
  <2>1. w[k].locations \in Seq(Locations)
    BY <1>1 DEF Servers
  <2> QED BY <1>1, <2>1 DEF ServerIsRight, Range
<1>3. /\ w[k].locations[j].directives \in Seq(Directives)
      /\ Len(w[k].locations[j].directives) \in Nat
  BY <1>2 DEF Locations
<1>4. Len(LinesOfLocation(w[k].locations[j])) = Len(w[k].locations[j].directives) + 2
  BY <1>2, LinesOfALocation
<1>5. /\ LocationBegins(w[k], j) \in Nat
      /\ LocationBegins(w[k], j + 1)
           = LocationBegins(w[k], j) + Len(LinesOfLocation(w[k].locations[j]))
  BY <1>1, PlacesInAServer
<1> QED BY <1>2, <1>3, <1>4, <1>5

LEMMA AtLocationHead ==
  ASSUME NEW w, RightFile(w), NEW k \in 1..Len(w), NEW j \in 1..Len(w[k].locations),
         NEW p, OnLine(p, w, k, LocationBegins(w[k], j))
  PROVE  /\ MeetsLine(p, LocationHead(w[k].locations[j]), w)
         /\ At(w, k, LocationBegins(w[k], j) + 1) = p.at + 3
<1> DEFINE l == w[k].locations[j]
           m == LocationBegins(w[k], j)
           words == LocationHead(l)
<1>1. l \in Locations /\ LocationIsRight(l) /\ m \in Nat /\ Len(l.directives) \in Nat
  BY RightLocations
<1>2. SplitAll(LinesOfLocation(l)[1]) = words
  BY <1>1, LinesOfALocation, TokensOfTheHeads
<1>3. 1 \in 1..(Len(l.directives) + 2) /\ m = m + 1 - 1
  BY <1>1
<1>4. MeetsLine(p, words, w) /\ At(w, k, m + 1) = p.at + Len(words)
  <2> HIDE DEF m, words
  <2>1. OnLine(p, w, k, m)
    BY DEF m
  <2>2. m = LocationBegins(w[k], j) + 1 - 1
    BY <1>3 DEF m
  <2>3. RightFile(w) /\ k \in 1..Len(w) /\ j \in 1..Len(w[k].locations)
    OBVIOUS
  <2> QED BY ONLY <1>2, <1>3, <2>1, <2>2, <2>3, AtLocationLine
<1>5. Len(words) = 3
  BY DEF LocationHead
<1> QED BY <1>4, <1>5

LEMMA AtLocationDirective ==
  ASSUME NEW w, RightFile(w), NEW k \in 1..Len(w), NEW j \in 1..Len(w[k].locations),
         NEW i \in 1..Len(w[k].locations[j].directives),
         NEW p, OnLine(p, w, k, LocationBegins(w[k], j) + i)
  PROVE  LET d == w[k].locations[j].directives[i] IN
         /\ MeetsLine(p, LineWords(d), w)
         /\ At(w, k, LocationBegins(w[k], j) + i + 1) = p.at + Len(LineWords(d))
         /\ d \in Directives /\ LocationDirectiveIsRight(d)
<1> DEFINE l == w[k].locations[j]
           d == l.directives[i]
           m == LocationBegins(w[k], j) + i
           words == LineWords(d)
<1>1. /\ l \in Locations /\ LocationIsRight(l) /\ LocationBegins(w[k], j) \in Nat
      /\ Len(l.directives) \in Nat /\ l.directives \in Seq(Directives)
  BY RightLocations
<1>2. d \in Directives /\ LocationDirectiveIsRight(d)
  BY <1>1 DEF LocationIsRight, Range
<1>3. SplitAll(LinesOfLocation(l)[1 + i]) = words
  <2>1. SplitAll(Line(d)) = words
    BY <1>2, RightDirectives, TokensOfALine DEF DirectiveIsRight
  <2>2. LinesOfLocation(l)[1 + i] = Line(d)
    BY <1>1, LinesOfALocation
  <2> QED BY <2>1, <2>2
<1>4. 1 + i \in 1..(Len(l.directives) + 2) /\ m = LocationBegins(w[k], j) + (1 + i) - 1
  BY SMTT(40), <1>1
<1>5. MeetsLine(p, words, w) /\ At(w, k, m + 1) = p.at + Len(words)
  <2>1. OnLine(p, w, k, m)
    OBVIOUS
  <2> DEFINE q == 1 + i
  <2>2. /\ q \in 1..(Len(w[k].locations[j].directives) + 2)
        /\ m = LocationBegins(w[k], j) + q - 1
        /\ SplitAll(LinesOfLocation(w[k].locations[j])[q]) = words
    BY <1>3, <1>4
  <2> HIDE DEF m, words, q
  <2>3. RightFile(w) /\ k \in 1..Len(w) /\ j \in 1..Len(w[k].locations)
    OBVIOUS
  <2> QED BY ONLY <2>1, <2>2, <2>3, AtLocationLine
<1> QED BY <1>2, <1>5

LEMMA AtLocationEnd ==
  ASSUME NEW w, RightFile(w), NEW k \in 1..Len(w), NEW j \in 1..Len(w[k].locations), NEW p,
         OnLine(p, w, k, LocationBegins(w[k], j) + (Len(w[k].locations[j].directives) + 1))
  PROVE  MeetsLine(p, <<Closes>>, w) /\ At(w, k, LocationBegins(w[k], j + 1)) = p.at + 1
<1> DEFINE l == w[k].locations[j]
           n == Len(l.directives)
           m == LocationBegins(w[k], j) + (n + 1)
           words == <<Closes>>
<1>1. /\ l \in Locations /\ LocationIsRight(l) /\ LocationBegins(w[k], j) \in Nat
      /\ n \in Nat /\ LocationBegins(w[k], j + 1) = LocationBegins(w[k], j) + (n + 2)
  BY RightLocations
<1>2. SplitAll(LinesOfLocation(l)[n + 2]) = words
  BY <1>1, LinesOfALocation, TokensOfTheHeads
<1>3. n + 2 \in 1..(n + 2) /\ m = LocationBegins(w[k], j) + (n + 2) - 1
  BY <1>1
<1>4. MeetsLine(p, words, w) /\ At(w, k, m + 1) = p.at + Len(words)
  <2> DEFINE q == n + 2
  <2>1. OnLine(p, w, k, m)
    OBVIOUS
  <2>2. /\ q \in 1..(Len(w[k].locations[j].directives) + 2)
        /\ m = LocationBegins(w[k], j) + q - 1
        /\ SplitAll(LinesOfLocation(w[k].locations[j])[q]) = words
    BY <1>2, <1>3
  <2> HIDE DEF m, words, q
  <2>3. RightFile(w) /\ k \in 1..Len(w) /\ j \in 1..Len(w[k].locations)
    OBVIOUS
  <2> QED BY ONLY <2>1, <2>2, <2>3, AtLocationLine
<1>5. Len(words) = 1 /\ m + 1 = LocationBegins(w[k], j + 1)
  BY <1>1
<1> QED BY <1>4, <1>5

LEMMA AtServerEnd ==
  ASSUME NEW w, RightFile(w), NEW k \in 1..Len(w), NEW p,
         OnLine(p, w, k, LocationBegins(w[k], Len(w[k].locations) + 1))
  PROVE  MeetsLine(p, <<Closes>>, w) /\ At(w, k + 1, 1) = p.at + 1
<1> DEFINE m == LocationBegins(w[k], Len(w[k].locations) + 1)
           words == <<Closes>>
<1>1. w[k] \in Servers /\ ServerIsRight(w[k])
  BY RightServers
<1>2. /\ m \in Nat /\ m > Len(w[k].directives) + 1 /\ Len(w[k].directives) \in Nat
  BY <1>1, PlacesInAServer
<1>3. LinesOfServer(w[k])[m] = words /\ Len(LinesOfServer(w[k])) = m
  BY <1>1, LinesOfAServer
<1>4. SplitAll(LinesOfServer(w[k])[m]) = words
  BY <1>3, TokensOfTheHeads
<1>5. m \in 1..Len(LinesOfServer(w[k]))
  <2> HIDE DEF m
  <2> QED BY <1>2, <1>3
<1>6. MeetsLine(p, words, w) /\ At(w, k, m + 1) = p.at + Len(words)
  <2>1. EndsInTheLast(p.tokens, w) /\ p.at = At(w, k, m)
    BY DEF OnLine
  <2> HIDE DEF m, words
  <2> QED BY <1>4, <1>5, <2>1, SeesTheLine
<1>7. At(w, k, m + 1) = At(w, k + 1, 1)
  BY <1>3, ServersFollow
<1>8. Len(words) = 1
  OBVIOUS
<1> QED BY <1>6, <1>7, <1>8

----------------------------------------------------------------------------
(* The map of the servers.                                                 *)

LEMMA FlattenOfEmpties ==
  ASSUME NEW S, NEW seqs \in Seq(Seq(S)), \A i \in 1..Len(seqs) : seqs[i] = <<>>
  PROVE  FlattenSeq(seqs) = <<>>
<1> DEFINE n == Len(seqs)
<1>1. PiecesUpto(seqs, n) /\ NothingElseUpto(seqs, n) /\ n \in Nat
  BY PiecesAreInPlace
<1>2. /\ Upto(seqs, n) = FlattenSeq(seqs) /\ Reach(seqs, n) \in Nat
      /\ FlattenSeq(seqs) \in Seq(S)
  <2>1. n \in 0..Len(seqs)
    BY <1>1
  <2> QED BY <2>1, UptoTheNext
<1>3. Reach(seqs, n) = 0
  <2> SUFFICES ASSUME Reach(seqs, n) # 0 PROVE FALSE
    OBVIOUS
  <2>1. 1 \in 1..Reach(seqs, n)
    BY <1>2
  <2>2. PICK k \in 1..n : 1 \in (Reach(seqs, k - 1) + 1)..Reach(seqs, k)
    BY <1>1, <2>1 DEF NothingElseUpto
  <2>3. Reach(seqs, k) = Reach(seqs, k - 1) + Len(seqs[k])
    BY <1>1 DEF PiecesUpto
  <2>4. Len(seqs[k]) = 0
    BY <1>1
  <2>5. Reach(seqs, k - 1) \in Nat /\ Reach(seqs, k) \in Nat
    <3>1. k - 1 \in 0..Len(seqs) /\ k \in 0..Len(seqs)
      BY <1>1
    <3> QED BY <3>1, UptoTheNext
  <2> QED BY <2>2, <2>3, <2>4, <2>5
<1> QED BY <1>2, <1>3 DEF Reach

\* The servers of a key.
OfKey(servers, key) ==
  [i \in 1..Len(servers) |-> IF getServerKey(servers[i]) = key THEN <<servers[i]>> ELSE <<>>]
KeysOf(servers) == {getServerKey(s) : s \in Range(servers)}

LEMMA ConfigsAre ==
  ASSUME NEW servers
  PROVE  /\ DOMAIN ConfigsOf(servers) = KeysOf(servers)
         /\ \A key \in KeysOf(servers) :
              ConfigsOf(servers)[key] = FlattenSeq(OfKey(servers, key))
         /\ ConfigsOf(servers) = [key \in KeysOf(servers) |-> FlattenSeq(OfKey(servers, key))]
BY DEF ConfigsOf, KeysOf, OfKey

LEMMA OneMoreOfKey ==
  ASSUME NEW S, NEW servers \in Seq(S), NEW s \in S, NEW key
  PROVE  /\ FlattenSeq(OfKey(servers, key)) \in Seq(S)
         /\ FlattenSeq(OfKey(Append(servers, s), key))
              = IF getServerKey(s) = key THEN Append(FlattenSeq(OfKey(servers, key)), s)
                ELSE FlattenSeq(OfKey(servers, key))
         /\ key \notin KeysOf(servers) => FlattenSeq(OfKey(servers, key)) = <<>>
<1> DEFINE n == Len(servers)
           more == Append(servers, s)
           old == OfKey(servers, key)
           one == IF getServerKey(s) = key THEN <<s>> ELSE <<>>
<1>1. n \in Nat /\ Len(more) = n + 1 /\ more[n + 1] = s /\ \A i \in 1..n : more[i] = servers[i]
  OBVIOUS
<1>2. old \in Seq(Seq(S)) /\ Len(old) = n
  <2>1. \A i \in 1..n :
          (IF getServerKey(servers[i]) = key THEN <<servers[i]>> ELSE <<>>) \in Seq(S)
    <3>1. \A i \in 1..n : servers[i] \in S
      OBVIOUS
    <3> QED BY <3>1, OneIsASequence
  <2> QED BY <1>1, <2>1 DEF OfKey
<1>3. one \in Seq(S)
  BY OneIsASequence
<1>4. OfKey(more, key) = Append(old, one)
  <2> DEFINE new == OfKey(more, key)
             put == Append(old, one)
  <2>1. new = [i \in 1..(n + 1) |-> IF getServerKey(more[i]) = key THEN <<more[i]>> ELSE <<>>]
    BY <1>1 DEF OfKey
  <2> HIDE DEF one, old, more
  <2>2. Len(put) = n + 1 /\ put[n + 1] = one /\ \A i \in 1..n : put[i] = old[i]
    BY <1>2, <1>3
  <2>3. put = [i \in 1..(n + 1) |-> put[i]]
    <3>1. put \in Seq(Seq(S))
      BY <1>2, <1>3
    <3>2. Len(put) = n + 1
      BY <2>2
    <3> HIDE DEF put
    <3>3. put = [i \in 1..Len(put) |-> put[i]]
      BY <3>1
    <3> QED BY <3>2, <3>3
  <2> HIDE DEF put
  <2>4. ASSUME NEW i \in 1..(n + 1)
        PROVE  put[i] = IF getServerKey(more[i]) = key THEN <<more[i]>> ELSE <<>>
    <3>1. CASE i = n + 1
      BY <1>1, <2>2, <3>1 DEF one
    <3>2. CASE i # n + 1
      <4>1. i \in 1..n
        BY <1>1, <3>2
      <4>2. put[i] = old[i] /\ more[i] = servers[i]
        BY <1>1, <2>2, <4>1
      <4>3. old[i] = IF getServerKey(servers[i]) = key THEN <<servers[i]>> ELSE <<>>
        BY <4>1 DEF old, OfKey
      <4> QED BY <4>2, <4>3
    <3> QED BY <3>1, <3>2
  <2>5. new = put
    BY <2>1, <2>3, <2>4
  <2> QED BY <2>5 DEF put
<1>5. FlattenSeq(old) \in Seq(S)
  BY <1>2, FlattenIsASequence
<1>6. FlattenSeq(Append(old, one)) = FlattenSeq(old) \o one
  BY <1>2, <1>3, FlattenAppend
<1>7. FlattenSeq(old) \o one = IF getServerKey(s) = key THEN Append(FlattenSeq(old), s)
                               ELSE FlattenSeq(old)
  <2> HIDE DEF old
  <2>1. \A t \in Seq(S) : t \o <<s>> = Append(t, s) /\ t \o <<>> = t
    OBVIOUS
  <2> QED BY <1>5, <2>1
<1>8. ASSUME key \notin KeysOf(servers) PROVE FlattenSeq(old) = <<>>
  <2>1. \A i \in 1..n : getServerKey(servers[i]) # key
    BY <1>8 DEF KeysOf, Range
  <2>2. \A i \in 1..Len(old) : old[i] = <<>>
    BY <1>2, <2>1 DEF OfKey
  <2> QED BY <1>2, <2>2, FlattenOfEmpties
<1> QED BY <1>4, <1>5, <1>6, <1>7, <1>8

\* A server more in the file is one more in the map (push_back).
LEMMA OneMoreServer ==
  ASSUME NEW S, NEW servers \in Seq(S), NEW s \in S
  PROVE  Pushed(ConfigsOf(servers), s) = ConfigsOf(Append(servers, s))
<1> DEFINE more == Append(servers, s)
           key == getServerKey(s)
           c == ConfigsOf(servers)
           others == IF key \in DOMAIN c THEN c[key] ELSE <<>>
<1>1. KeysOf(more) = KeysOf(servers) \cup {key}
  <2>1. Range(more) = Range(servers) \cup {s}
    <3>1. /\ Len(servers) \in Nat /\ Len(more) = Len(servers) + 1 /\ more[Len(servers) + 1] = s
          /\ \A i \in 1..Len(servers) : more[i] = servers[i]
      OBVIOUS
    <3>2. /\ DOMAIN servers = 1..Len(servers) /\ DOMAIN more = 1..Len(more)
          /\ \A i \in 1..(Len(servers) + 1) : i \in 1..Len(servers) \/ i = Len(servers) + 1
          /\ \A i \in 1..Len(servers) : i \in 1..(Len(servers) + 1)
          /\ Len(servers) + 1 \in 1..(Len(servers) + 1)
      BY <3>1
    <3> HIDE DEF more
    <3> QED BY <3>1, <3>2 DEF Range
  <2> QED BY <2>1 DEF KeysOf
<1>2. DOMAIN c = KeysOf(servers)
  BY ConfigsAre
<1>3. Pushed(c, s) = [k \in KeysOf(more) |-> IF k = key THEN Append(others, s) ELSE c[k]]
  BY <1>1, <1>2 DEF Pushed
<1>4. ASSUME NEW k \in KeysOf(more)
      PROVE  (IF k = key THEN Append(others, s) ELSE c[k]) = FlattenSeq(OfKey(more, k))
  <2>1. /\ FlattenSeq(OfKey(more, k))
              = IF getServerKey(s) = k THEN Append(FlattenSeq(OfKey(servers, k)), s)
                ELSE FlattenSeq(OfKey(servers, k))
        /\ k \notin KeysOf(servers) => FlattenSeq(OfKey(servers, k)) = <<>>
    BY OneMoreOfKey
  <2>2. k \in KeysOf(servers) => c[k] = FlattenSeq(OfKey(servers, k))
    BY ConfigsAre
  <2> HIDE DEF c, more
  <2>3. CASE k = key
    BY <1>2, <2>1, <2>2, <2>3
  <2>4. CASE k # key
    BY <1>1, <2>1, <2>2, <2>4
  <2> QED BY <2>3, <2>4
<1>5. ConfigsOf(more) = [k \in KeysOf(more) |-> FlattenSeq(OfKey(more, k))]
  BY ConfigsAre
<1> HIDE DEF c, others, more
<1> QED BY <1>3, <1>4, <1>5 DEF c, more

----------------------------------------------------------------------------
(* The way of the parser through a file without a mistake.                 *)

\* The map before the k-th server.
MapBefore(w, k) == ConfigsOf(Said(SubSeq(w, 1, k - 1)))

\* Before a server, behind some of its directives, behind some of its locations, and
\* behind some directives of the next location.
ReadsFile(p, w, k) ==
  /\ k \in 1..(Len(w) + 1) /\ p.block = "file" /\ OnLine(p, w, k, 1)
  /\ p.configs = MapBefore(w, k)

ReadsServer(p, w, k, i) ==
  /\ k \in 1..Len(w) /\ i \in 0..Len(w[k].directives)
  /\ p.block = "server" /\ OnLine(p, w, k, 1 + i + 1)
  /\ p.server = ReadServer(SubSeq(w[k].directives, 1, i), <<>>)
  /\ p.configs = MapBefore(w, k)

ReadsLocations(p, w, k, j) ==
  /\ k \in 1..Len(w) /\ j \in 0..Len(w[k].locations)
  /\ p.block = "server" /\ OnLine(p, w, k, LocationBegins(w[k], j + 1))
  /\ p.server = ReadServer(w[k].directives, SaidRoutes(w[k], j))
  /\ p.configs = MapBefore(w, k)

ReadsLocation(p, w, k, j, i) ==
  /\ k \in 1..Len(w) /\ j \in 1..Len(w[k].locations)
  /\ i \in 0..Len(w[k].locations[j].directives)
  /\ p.block = "location" /\ OnLine(p, w, k, LocationBegins(w[k], j) + i + 1)
  /\ p.server = ReadServer(w[k].directives, SaidRoutes(w[k], j - 1))
  /\ p.route = ReadRoute(w[k].locations[j].path, SubSeq(w[k].locations[j].directives, 1, i))
  /\ p.configs = MapBefore(w, k)

LEMMA PieceGrows ==
  ASSUME NEW S, NEW s \in Seq(S), NEW i \in 0..Len(s)
  PROVE  /\ SubSeq(s, 1, i) \in Seq(S) /\ SubSeq(s, 1, 0) = <<>> /\ SubSeq(s, 1, Len(s)) = s
         /\ Len(SubSeq(s, 1, i)) = i
         /\ i < Len(s) => s[i + 1] \in S /\ SubSeq(s, 1, i + 1) = Append(SubSeq(s, 1, i), s[i + 1])
OBVIOUS

LEMMA NoRoutes == \A s : SaidRoutes(s, 0) = <<>>
<1>1. 1..0 = {}
  OBVIOUS
<1> QED BY <1>1 DEF SaidRoutes

\* The parser q has come to the line without an end.
Strays(p, q, w) == Lost(q) /\ p.tokens # FileTokens(w)

\* No server begins behind the last.
LEMMA HeadsGrow ==
  ASSUME NEW w, RightFile(w), NEW k \in 1..Len(w)
  PROVE  At(w, k, 1) <= At(w, Len(w), 1)
<1> DEFINE sl == ServerLines(w)
           lt == LineTokens(w)
           n == Len(w)
           i == Reach(sl, k - 1)
           j == Reach(sl, n - 1)
<1>1. /\ sl \in Seq(Seq(CleanLines)) /\ Len(sl) = n /\ n \in Nat
      /\ FileLines(w) = FlattenSeq(sl) /\ lt \in Seq(Seq(Tokens)) /\ Len(lt) = Len(FileLines(w))
  BY FileIsClean DEF FileLines
<1>2. k - 1 \in 0..(n - 1) /\ n - 1 \in 0..n /\ k - 1 \in 0..n /\ n \in 0..n
  BY <1>1
<1>3. /\ At(w, k, 1) = 1 + Reach(lt, i + 1 - 1) /\ At(w, n, 1) = 1 + Reach(lt, j + 1 - 1)
      /\ Upto(sl, n) = FlattenSeq(sl) => Reach(sl, n) = Len(lt)
  BY <1>1 DEF At, Reach
<1> HIDE DEF sl, lt, n
<1>4. i \in Nat /\ j \in Nat /\ Reach(sl, n) \in Nat /\ Upto(sl, n) = FlattenSeq(sl)
  BY <1>1, <1>2, UptoTheNext
<1>5. i <= j /\ j <= Reach(sl, n)
  BY <1>1, <1>2, ReachGrows
<1> HIDE DEF i, j
<1>6. j \in 0..Len(lt) /\ i \in 0..j /\ i \in 0..Len(lt) /\ i + 1 - 1 = i /\ j + 1 - 1 = j
  BY <1>3, <1>4, <1>5
<1>7. Reach(lt, i) <= Reach(lt, j) /\ Reach(lt, i) \in Nat /\ Reach(lt, j) \in Nat
  BY <1>1, <1>6, ReachGrows, UptoTheNext
<1> QED BY <1>3, <1>6, <1>7 DEF n

LEMMA ServerBegins ==
  ASSUME NEW p, NEW q, ParserIsSound(p), Turn(p, q), NEW w, RightFile(w), NEW k \in 1..Len(w),
         ReadsFile(p, w, k), ~Strays(p, q, w)
  PROVE  ReadsServer(q, w, k, 0) /\ q.tokens = p.tokens
<1>1. SeesLine(p, ServerHead) /\ At(w, k, 2) = p.at + 2
  <2>1. MeetsLine(p, ServerHead, w) /\ At(w, k, 2) = p.at + 2
    BY AtServerHead DEF ReadsFile
  <2>2. hasMoreTokens(p)
    <3>1. /\ At(w, k, 1) <= At(w, Len(w), 1) /\ p.at = At(w, k, 1)
          /\ At(w, Len(w), 1) <= Len(p.tokens) /\ p.at \in Nat /\ Len(p.tokens) \in Nat
      BY HeadsGrow, PlaceOfAParser DEF ReadsFile, OnLine, EndsInTheLast
    <3>2. At(w, Len(w), 1) \in Nat
      <4>1. Len(w) \in 1..Len(w)
        BY FileIsClean
      <4>2. 1 \in 1..Len(LinesOfServer(w[Len(w)]))
        BY <4>1, ServerHasAHead
      <4> QED BY <4>1, <4>2, LineIsInPlace
    <3> QED BY <3>1, <3>2 DEF hasMoreTokens
  <2>3. ~SeesStart(p, ServerHead) \/ p.tokens = FileTokens(w)
    BY <2>2, CutServerHeadIsLost DEF ReadsFile, Strays
  <2> QED BY <2>1, <2>3 DEF MeetsLine
<1>2. ParserIs(q, "server", p.tokens, p.at + 2, BlankServer, p.route,
               p.configs)
  BY <1>1, OpenServerIsRead DEF ReadsFile
<1>3. OnLine(q, w, k, 1 + 0 + 1)
  <2>1. 1 + 0 + 1 = 2
    OBVIOUS
  <2> QED BY <1>1, <1>2, <2>1 DEF OnLine, ParserIs, ReadsFile
<1>4. w[k].directives \in Seq(Directives)
  BY RightServers DEF Servers
<1>5. SubSeq(w[k].directives, 1, 0) = <<>> /\ 0 \in 0..Len(w[k].directives)
  BY <1>4
<1>6. BlankServer = ReadServer(SubSeq(w[k].directives, 1, 0), <<>>)
  BY <1>5, BlanksAreRead
<1> QED BY <1>2, <1>3, <1>5, <1>6 DEF ReadsServer, ParserIs, ReadsFile

LEMMA ServerGoesOn ==
  ASSUME NEW p, NEW q, ParserIsSound(p), Turn(p, q), NEW w, RightFile(w), NEW k, NEW i,
         ReadsServer(p, w, k, i), i # Len(w[k].directives), ~Strays(p, q, w)
  PROVE  ReadsServer(q, w, k, i + 1) /\ q.tokens = p.tokens
<1> DEFINE ds == w[k].directives
           d == ds[i + 1]
           old == SubSeq(ds, 1, i)
           words == LineWords(d)
<1>1. k \in 1..Len(w) /\ i \in 0..Len(ds)
  BY DEF ReadsServer
<1>2. ds \in Seq(Directives)
  BY <1>1, RightServers DEF Servers
<1>3. i < Len(ds) /\ i + 1 \in 1..Len(ds) /\ i + 1 \in 0..Len(ds)
  BY <1>1, <1>2
<1>4. old \in Seq(Directives) /\ SubSeq(ds, 1, i + 1) = Append(old, d)
  <2> HIDE DEF ds
  <2> QED BY <1>1, <1>2, <1>3, PieceGrows
<1>5. 1 + i + 1 = 1 + (i + 1) /\ 1 + (i + 1) + 1 = (1 + (i + 1)) + 1
  BY <1>1
<1>6. /\ SeesLine(p, words) /\ At(w, k, 1 + (i + 1) + 1) = p.at + Len(words)
      /\ d \in Directives /\ ServerDirectiveIsRight(d)
  <2>1. OnLine(p, w, k, 1 + (i + 1))
    BY <1>5 DEF ReadsServer
  <2>2. /\ MeetsLine(p, words, w) /\ At(w, k, 1 + (i + 1) + 1) = p.at + Len(words)
        /\ d \in Directives /\ ServerDirectiveIsRight(d)
    BY <1>1, <1>3, <2>1, AtServerDirective
  <2>3. DirectiveIsRight(d) /\ d.name # "location" /\ d.name # "}" /\ p.block = "server"
    BY <2>2, RightDirectives DEF ServerDirectiveIsRight, ReadsServer
  <2> HIDE DEF d
  <2>4. ~SeesStart(p, words) \/ p.tokens = FileTokens(w)
    BY <2>2, <2>3, CutDirectiveIsLost DEF Strays
  <2> QED BY <2>2, <2>4 DEF MeetsLine
<1>7. BehindLine(q, p, words, ReadServer(Append(old, d), <<>>), p.route)
  <2>1. p.block = "server" /\ p.server = ReadServer(old, <<>>)
    BY DEF ReadsServer
  <2> HIDE DEF old, d, words
  <2>2. words = LineWords(d)
    BY DEF words
  <2> QED BY <1>4, <1>6, <2>1, <2>2, ServerDirectiveIsRead
<1>8. OnLine(q, w, k, 1 + (i + 1) + 1)
  BY <1>6, <1>7 DEF BehindLine, ParserIs, OnLine, ReadsServer
<1>9. q.server = ReadServer(SubSeq(ds, 1, i + 1), <<>>)
  BY <1>4, <1>7 DEF BehindLine, ParserIs
<1>10. q.block = "server" /\ q.configs = MapBefore(w, k) /\ q.tokens = p.tokens
  BY <1>7 DEF BehindLine, ParserIs, ReadsServer
<1> QED BY <1>1, <1>3, <1>8, <1>9, <1>10 DEF ReadsServer

LEMMA DirectivesEnd ==
  ASSUME NEW w, RightFile(w), NEW p, NEW k, ReadsServer(p, w, k, Len(w[k].directives))
  PROVE  ReadsLocations(p, w, k, 0)
<1> DEFINE s == w[k]
           ds == s.directives
<1>1. k \in 1..Len(w) /\ s \in Servers /\ ServerIsRight(s)
  BY RightServers DEF ReadsServer
<1>2. ds \in Seq(Directives)
  BY <1>1 DEF Servers
<1>3. Len(ds) \in Nat /\ Len(s.locations) \in Nat /\ LocationBegins(s, 1) = Len(ds) + 2
  BY <1>1, PlacesInAServer
<1>4. LocationBegins(s, 0 + 1) = 1 + Len(ds) + 1
  <2>1. 0 + 1 = 1 /\ Len(ds) + 2 = 1 + Len(ds) + 1
    BY <1>3
  <2> QED BY <1>3, <2>1
<1>5. OnLine(p, w, k, LocationBegins(s, 0 + 1))
  BY <1>4 DEF ReadsServer
<1>6. SubSeq(ds, 1, Len(ds)) = ds
  BY <1>2
<1>7. p.server = ReadServer(ds, SaidRoutes(s, 0))
  BY <1>6, NoRoutes DEF ReadsServer
<1>8. 0 \in 0..Len(s.locations)
  BY <1>3
<1> QED BY <1>1, <1>5, <1>7, <1>8 DEF ReadsLocations, ReadsServer

LEMMA LocationStarts ==
  ASSUME NEW p, NEW q, ParserIsSound(p), Turn(p, q), NEW w, RightFile(w), NEW k, NEW j,
         ReadsLocations(p, w, k, j), j # Len(w[k].locations), ~Strays(p, q, w)
  PROVE  ReadsLocation(q, w, k, j + 1, 0) /\ q.tokens = p.tokens
<1> DEFINE s == w[k]
           l == s.locations[j + 1]
           m == LocationBegins(s, j + 1)
<1>1. k \in 1..Len(w) /\ j \in 0..Len(s.locations)
  BY DEF ReadsLocations
<1>2. Len(s.locations) \in Nat
  BY <1>1, RightServers, PlacesInAServer
<1>3. j + 1 \in 1..Len(s.locations) /\ (j + 1) - 1 = j
  BY <1>1, <1>2
<1>4. SeesLine(p, LocationHead(l)) /\ At(w, k, m + 1) = p.at + 3
  <2>1. MeetsLine(p, LocationHead(l), w) /\ At(w, k, m + 1) = p.at + 3
    BY <1>1, <1>3, AtLocationHead DEF ReadsLocations
  <2>2. p.block = "server"
    BY DEF ReadsLocations
  <2> HIDE DEF l
  <2>3. ~SeesStart(p, LocationHead(l)) \/ p.tokens = FileTokens(w)
    BY <2>2, CutLocationHeadIsLost DEF Strays
  <2> QED BY <2>1, <2>3 DEF MeetsLine
<1>5. ParserIs(q, "location", p.tokens, p.at + 3, p.server,
               [BlankRoute EXCEPT !.path = l.path], p.configs)
  BY <1>4, OpenLocationIsRead DEF ReadsLocations
<1>6. l.directives \in Seq(Directives) /\ m \in Nat
  BY <1>1, <1>3, RightLocations
<1>7. OnLine(q, w, k, m + 0 + 1)
  <2>1. m + 0 + 1 = m + 1
    BY <1>6
  <2> QED BY <1>4, <1>5, <2>1 DEF OnLine, ParserIs, ReadsLocations
<1>8. SubSeq(l.directives, 1, 0) = <<>> /\ 0 \in 0..Len(l.directives)
  BY <1>6
<1>9. [BlankRoute EXCEPT !.path = l.path] = ReadRoute(l.path, SubSeq(l.directives, 1, 0))
  BY <1>8, BlanksAreRead
<1>10. /\ q.server = ReadServer(s.directives, SaidRoutes(s, (j + 1) - 1))
       /\ q.configs = MapBefore(w, k) /\ q.block = "location" /\ q.tokens = p.tokens
  BY <1>3, <1>5 DEF ParserIs, ReadsLocations
<1>11. q.route = ReadRoute(l.path, SubSeq(l.directives, 1, 0))
  BY <1>5, <1>9 DEF ParserIs
<1> QED BY <1>1, <1>3, <1>7, <1>8, <1>10, <1>11 DEF ReadsLocation

LEMMA LocationGoesOn ==
  ASSUME NEW p, NEW q, ParserIsSound(p), Turn(p, q), NEW w, RightFile(w), NEW k, NEW j, NEW i,
         ReadsLocation(p, w, k, j, i), i # Len(w[k].locations[j].directives),
         ~Strays(p, q, w)
  PROVE  ReadsLocation(q, w, k, j, i + 1) /\ q.tokens = p.tokens
<1> DEFINE l == w[k].locations[j]
           ds == l.directives
           d == ds[i + 1]
           old == SubSeq(ds, 1, i)
           words == LineWords(d)
           m == LocationBegins(w[k], j)
<1>1. k \in 1..Len(w) /\ j \in 1..Len(w[k].locations) /\ i \in 0..Len(ds)
  BY DEF ReadsLocation
<1>2. ds \in Seq(Directives) /\ m \in Nat /\ LocationIsRight(l) /\ l \in Locations
  BY <1>1, RightLocations
<1>3. i < Len(ds) /\ i + 1 \in 1..Len(ds) /\ i + 1 \in 0..Len(ds)
  BY <1>1, <1>2
<1>4. old \in Seq(Directives) /\ SubSeq(ds, 1, i + 1) = Append(old, d)
  <2> HIDE DEF ds
  <2> QED BY SMTT(40), <1>1, <1>2, <1>3, PieceGrows
<1>5. m + i + 1 = m + (i + 1)
  BY <1>1, <1>2
<1>6. /\ SeesLine(p, words) /\ At(w, k, m + (i + 1) + 1) = p.at + Len(words)
      /\ d \in Directives /\ LocationDirectiveIsRight(d)
  <2> DEFINE n == i + 1
  <2>1. OnLine(p, w, k, m + n) /\ n \in 1..Len(w[k].locations[j].directives)
    BY <1>3, <1>5 DEF ReadsLocation
  <2> HIDE DEF n
  <2>2. /\ MeetsLine(p, LineWords(w[k].locations[j].directives[n]), w)
        /\ At(w, k, m + n + 1) = p.at + Len(LineWords(w[k].locations[j].directives[n]))
        /\ w[k].locations[j].directives[n] \in Directives
        /\ LocationDirectiveIsRight(w[k].locations[j].directives[n])
    BY <1>1, <2>1, AtLocationDirective
  <2>3. /\ MeetsLine(p, words, w) /\ At(w, k, m + (i + 1) + 1) = p.at + Len(words)
        /\ d \in Directives /\ LocationDirectiveIsRight(d)
    BY <2>2 DEF n
  <2>4. DirectiveIsRight(d) /\ d.name # "location" /\ d.name # "}" /\ p.block = "location"
    BY <2>3, RightDirectives DEF LocationDirectiveIsRight, ReadsLocation
  <2> HIDE DEF d
  <2>5. ~SeesStart(p, words) \/ p.tokens = FileTokens(w)
    BY <2>3, <2>4, CutDirectiveIsLost DEF Strays
  <2> QED BY <2>3, <2>5 DEF MeetsLine
<1>7. Len(All(old, "cgi_extension")) % 2 = 0
  <2>1. \A x \in Range(old) : LocationDirectiveIsRight(x)
    <3>1. \A n \in 1..i : old[n] = ds[n] /\ n \in 1..Len(ds)
      BY <1>1, <1>2
    <3>2. Len(old) = i
      BY <1>1, <1>2
    <3>3. \A n \in 1..Len(ds) : LocationDirectiveIsRight(ds[n])
      BY <1>2 DEF LocationIsRight, Range
    <3>4. DOMAIN old = 1..Len(old)
      BY <1>4
    <3> HIDE DEF old, ds
    <3> QED BY <3>1, <3>2, <3>3, <3>4 DEF Range
  <2> HIDE DEF old
  <2> QED BY <1>4, <2>1, PairsAreWhole
<1>8. BehindLine(q, p, words, p.server, ReadRoute(l.path, Append(old, d)))
  <2>1. p.block = "location" /\ p.route = ReadRoute(l.path, old)
    BY DEF ReadsLocation
  <2> DEFINE path == l.path
  <2> HIDE DEF old, d, words, path
  <2>2. words = LineWords(d) /\ p.route = ReadRoute(path, old)
    BY <2>1 DEF words, path
  <2>3. BehindLine(q, p, words, p.server, ReadRoute(path, Append(old, d)))
    BY <1>4, <1>6, <1>7, <2>1, <2>2, LocationDirectiveIsRead
  <2> QED BY <2>3 DEF path
<1>9. OnLine(q, w, k, m + (i + 1) + 1)
  BY <1>6, <1>8 DEF BehindLine, ParserIs, OnLine, ReadsLocation
<1>10. q.route = ReadRoute(l.path, SubSeq(ds, 1, i + 1))
  BY <1>4, <1>8 DEF BehindLine, ParserIs
<1>11. /\ q.block = "location" /\ q.configs = MapBefore(w, k) /\ q.tokens = p.tokens
       /\ q.server = ReadServer(w[k].directives, SaidRoutes(w[k], j - 1))
  BY <1>8 DEF BehindLine, ParserIs, ReadsLocation
<1> QED BY <1>1, <1>3, <1>9, <1>10, <1>11 DEF ReadsLocation

LEMMA OneMoreRoute ==
  ASSUME NEW s, s.locations \in Seq(Locations), NEW j \in 1..Len(s.locations), NEW ds
  PROVE  LET read == ReadServer(ds, SaidRoutes(s, j - 1)) IN
         [read EXCEPT !.routes = Append(read.routes, SaidRoute(s.locations[j]))]
           = ReadServer(ds, SaidRoutes(s, j))
<1> DEFINE S == {SaidRoute(s.locations[i]) : i \in 1..Len(s.locations)}
           old == SaidRoutes(s, j - 1)
           new == SaidRoutes(s, j)
           x == SaidRoute(s.locations[j])
<1>1. j \in Nat \ {0} /\ j - 1 \in Nat
  OBVIOUS
<1>2. Append(old, x) = new
  <2>1. old = [i \in 1..(j - 1) |-> SaidRoute(s.locations[i])]
    BY DEF SaidRoutes
  <2>2. new = [i \in 1..j |-> SaidRoute(s.locations[i])]
    BY DEF SaidRoutes
  <2>3. \A i \in 1..j : SaidRoute(s.locations[i]) \in S
    OBVIOUS
  <2>4. x \in S
    OBVIOUS
  <2> HIDE DEF S, old, new
  <2>5. new \in Seq(S) /\ Len(new) = j
    BY <1>1, <2>2, <2>3
  <2>6. old \in Seq(S) /\ Len(old) = j - 1
    <3>1. \A i \in 1..(j - 1) : SaidRoute(s.locations[i]) \in S
      BY <1>1, <2>3
    <3> QED BY <1>1, <2>1, <3>1
  <2>7. \A i \in 1..(j - 1) : new[i] = old[i]
    BY <1>1, <2>1, <2>2
  <2>8. new[j] = x
    BY <1>1, <2>2
  <2> DEFINE put == Append(old, x)
  <2> HIDE DEF x
  <2>9. put \in Seq(S) /\ Len(put) = j /\ put[j] = x /\ \A i \in 1..(j - 1) : put[i] = old[i]
    <3>1. put \in Seq(S) /\ Len(put) = Len(old) + 1 /\ put[Len(old) + 1] = x
          /\ \A i \in 1..Len(old) : put[i] = old[i]
      BY <2>4, <2>6
    <3> HIDE DEF put
    <3>2. Len(old) + 1 = j
      BY <1>1, <2>6
    <3> QED BY <2>6, <3>1, <3>2
  <2> HIDE DEF put
  <2>10. \A i \in 1..j : put[i] = new[i]
    <3>1. \A i \in 1..j : i = j \/ i \in 1..(j - 1)
      BY <1>1
    <3> QED BY <2>7, <2>8, <2>9, <3>1
  <2>11. put = new
    BY <2>5, <2>9, <2>10
  <2> QED BY <2>11 DEF put
<1> HIDE DEF old, new, x
<1>3. /\ ReadServer(ds, old).routes = old
      /\ [ReadServer(ds, old) EXCEPT !.routes = new] = ReadServer(ds, new)
  <2> DEFINE host == IF Named(ds, "listen") = {} THEN <<>> ELSE HostOf(Value(ds, "listen"))
             port == IF Named(ds, "listen") = {} THEN <<>> ELSE PortOf(Value(ds, "listen"))
             home == Value(ds, "root")
             names == All(ds, "server_name")
             limit == atoi(Value(ds, "client_max_body_size"))
             said == SaidPages(ds)
  <2>1. \A read : ReadServer(ds, read) = ServerOf(host, port, home, names, said, limit, read)
    BY DEF ReadServer
  <2> HIDE DEF host, port, home, names, limit, said
  <2>2. \A read : /\ ServerOf(host, port, home, names, said, limit, read).routes = read
                  /\ [ServerOf(host, port, home, names, said, limit, read) EXCEPT !.routes = new]
                       = ServerOf(host, port, home, names, said, limit, new)
    BY DEF ServerOf
  <2> QED BY <2>1, <2>2
<1> QED BY <1>2, <1>3 DEF old, new, x

LEMMA LocationEnds ==
  ASSUME NEW p, NEW q, ParserIsSound(p), Turn(p, q), NEW w, RightFile(w), NEW k, NEW j,
         ReadsLocation(p, w, k, j, Len(w[k].locations[j].directives)), ~Strays(p, q, w)
  PROVE  ReadsLocations(q, w, k, j) /\ q.tokens = p.tokens
<1> DEFINE s == w[k]
           l == s.locations[j]
           n == Len(l.directives)
           m == LocationBegins(s, j)
           old == ReadServer(s.directives, SaidRoutes(s, j - 1))
           r == ReadRoute(l.path, l.directives)
           made == [r EXCEPT !.uploadPath = UploadPath(r)]
<1>1. k \in 1..Len(w) /\ j \in 1..Len(s.locations)
  BY DEF ReadsLocation
<1>2. /\ l \in Locations /\ LocationIsRight(l) /\ l.directives \in Seq(Directives)
      /\ n \in Nat /\ m \in Nat
  BY <1>1, RightLocations
<1>3. s.locations \in Seq(Locations)
  BY <1>1, RightServers DEF Servers
<1>4. SeesLine(p, <<Closes>>) /\ At(w, k, LocationBegins(s, j + 1)) = p.at + 1
  <2>1. m + n + 1 = m + (n + 1)
    BY <1>2
  <2>2. OnLine(p, w, k, m + (n + 1)) /\ p.block = "location"
    BY <2>1 DEF ReadsLocation
  <2>3. /\ MeetsLine(p, <<Closes>>, w) /\ At(w, k, LocationBegins(s, j + 1)) = p.at + 1
    BY <1>1, <2>2, AtLocationEnd
  <2>4. ~SeesStart(p, <<Closes>>) \/ p.tokens = FileTokens(w)
    BY <2>2, CutBraceIsLost DEF Strays
  <2> QED BY <2>3, <2>4 DEF MeetsLine
<1>5. p.route = r /\ p.server = old /\ p.block = "location"
  <2>1. SubSeq(l.directives, 1, n) = l.directives
    BY <1>2
  <2> QED BY <2>1 DEF ReadsLocation
<1>6. validateRoutes(r) /\ made = SaidRoute(l)
  BY <1>2, AllOfALocation
<1>7. ParserIs(q, "server", p.tokens, p.at + 1,
               [old EXCEPT !.routes = Append(old.routes, made)], r, p.configs)
  <2> HIDE DEF old, r
  <2> QED BY <1>4, <1>5, <1>6, CloseLocationIsRead
<1>8. [old EXCEPT !.routes = Append(old.routes, made)]
        = ReadServer(s.directives, SaidRoutes(s, j))
  <2> HIDE DEF made
  <2> QED BY <1>1, <1>3, <1>6, OneMoreRoute
<1>9. OnLine(q, w, k, LocationBegins(s, j + 1))
  BY <1>4, <1>7 DEF ParserIs, OnLine, ReadsLocation
<1>10. q.block = "server" /\ q.configs = MapBefore(w, k) /\ q.tokens = p.tokens
  BY <1>7 DEF ParserIs, ReadsLocation
<1>11. q.server = ReadServer(s.directives, SaidRoutes(s, j))
  BY <1>7, <1>8 DEF ParserIs
<1>12. j \in 0..Len(s.locations)
  BY <1>1
<1> QED BY <1>1, <1>9, <1>10, <1>11, <1>12 DEF ReadsLocations

\* The map of the servers up to the next.
LEMMA MapGrows ==
  ASSUME NEW w, RightFile(w)
  PROVE  /\ MapBefore(w, 1) = <<>>
         /\ MapBefore(w, Len(w) + 1) = ConfigsOf(Said(w))
         /\ \A k \in 1..Len(w) :
              Pushed(MapBefore(w, k), SaidServer(w[k])) = MapBefore(w, k + 1)
<1> DEFINE S == {SaidServer(s) : s \in Servers}
           n == Len(w)
<1>1. w \in Seq(Servers) /\ n \in Nat
  BY DEF RightFile
<1>2. MapBefore(w, 1) = <<>>
  <2>1. SubSeq(w, 1, 1 - 1) = <<>>
    BY <1>1
  <2>2. Said(<<>>) = <<>>
    <3>1. Len(<<>>) = 0 /\ 1..0 = {}
      OBVIOUS
    <3> QED BY <3>1 DEF Said
  <2>3. ConfigsOf(<<>>) = <<>>
    <3>1. KeysOf(<<>>) = {}
      <4>1. Range(<<>>) = {}
        BY DEF Range
      <4> QED BY <4>1 DEF KeysOf
    <3> QED BY <3>1, ConfigsAre
  <2> QED BY <2>1, <2>2, <2>3 DEF MapBefore
<1>3. MapBefore(w, n + 1) = ConfigsOf(Said(w))
  <2>1. n + 1 - 1 = n
    BY <1>1
  <2>2. SubSeq(w, 1, n) = w
    BY <1>1
  <2>3. MapBefore(w, n + 1) = ConfigsOf(Said(SubSeq(w, 1, n + 1 - 1)))
    BY DEF MapBefore
  <2>4. SubSeq(w, 1, n + 1 - 1) = w
    BY <2>1, <2>2
  <2> QED BY <2>3, <2>4
<1>4. ASSUME NEW k \in 1..n
      PROVE  Pushed(MapBefore(w, k), SaidServer(w[k])) = MapBefore(w, k + 1)
  <2> DEFINE old == SubSeq(w, 1, k - 1)
             new == SubSeq(w, 1, k)
  <2>1. k - 1 \in 0..n /\ k - 1 < n /\ (k - 1) + 1 = k /\ k + 1 - 1 = k /\ k \in Nat
    BY <1>1
  <2>2. old \in Seq(Servers) /\ Len(old) = k - 1 /\ w[k] \in Servers
        /\ new = Append(old, w[k])
    BY <1>1, <2>1, PieceGrows
  <2> HIDE DEF old, new
  <2>3. Said(new) = Append(Said(old), SaidServer(w[k])) /\ Said(old) \in Seq(S)
    <3> DEFINE a == Said(old)
               b == Said(new)
               x == SaidServer(w[k])
               c == Append(a, x)
    <3>1. /\ Len(new) = k /\ new[k] = w[k] /\ \A i \in 1..(k - 1) : new[i] = old[i]
          /\ \A i \in 1..(k - 1) : old[i] \in Servers
          /\ \A i \in 1..k : i = k \/ i \in 1..(k - 1)
      <4>1. Len(new) = Len(old) + 1 /\ new[Len(old) + 1] = w[k]
            /\ \A i \in 1..Len(old) : new[i] = old[i] /\ old[i] \in Servers
        BY <2>2
      <4>2. Len(old) + 1 = k /\ Len(old) = k - 1
        BY <2>1, <2>2
      <4>3. \A i \in 1..k : i = k \/ i \in 1..(k - 1)
        BY <2>1
      <4> QED BY <4>1, <4>2, <4>3
    <3>2. \A i \in 1..k : new[i] \in Servers
      BY <2>2, <3>1
    <3>3. a = [i \in 1..(k - 1) |-> SaidServer(old[i])]
      BY <2>2 DEF Said
    <3>4. b = [i \in 1..k |-> SaidServer(new[i])]
      BY <3>1 DEF Said
    <3>5. \A i \in 1..(k - 1) : SaidServer(old[i]) \in S
      BY <3>1
    <3>6. \A i \in 1..k : SaidServer(new[i]) \in S
      BY <3>2
    <3>7. x \in S
      BY <2>2
    <3> HIDE DEF a, b, x, S
    <3>8. a \in Seq(S) /\ Len(a) = k - 1
      BY <2>1, <3>3, <3>5
    <3>9. b \in Seq(S) /\ Len(b) = k
      BY <2>1, <3>4, <3>6
    <3>10. c \in Seq(S) /\ Len(c) = k /\ c[k] = x /\ \A i \in 1..(k - 1) : c[i] = a[i]
      <4>1. c \in Seq(S) /\ Len(c) = Len(a) + 1 /\ c[Len(a) + 1] = x
            /\ \A i \in 1..Len(a) : c[i] = a[i]
        BY <3>7, <3>8
      <4> HIDE DEF c
      <4>2. Len(a) + 1 = k
        BY <2>1, <3>8
      <4> QED BY <3>8, <4>1, <4>2
    <3> HIDE DEF c
    <3>11. \A i \in 1..k : b[i] = c[i]
      <4>1. b[k] = x
        BY <2>1, <3>1, <3>4 DEF x
      <4>2. \A i \in 1..(k - 1) : b[i] = a[i]
        BY <2>1, <3>1, <3>3, <3>4
      <4> QED BY <3>1, <3>10, <4>1, <4>2
    <3>12. b = c
      BY <3>9, <3>10, <3>11
    <3> QED BY <3>8, <3>12 DEF a, b, c, x
  <2>4. SaidServer(w[k]) \in S
    BY <2>2
  <2>5. Pushed(ConfigsOf(Said(old)), SaidServer(w[k])) = ConfigsOf(Said(new))
    <3> HIDE DEF S
    <3> QED BY <2>3, <2>4, OneMoreServer
  <2>6. MapBefore(w, k) = ConfigsOf(Said(old)) /\ MapBefore(w, k + 1) = ConfigsOf(Said(new))
    BY <2>1 DEF MapBefore, old, new
  <2> QED BY <2>5, <2>6
<1> QED BY <1>2, <1>3, <1>4

LEMMA ServerEnds ==
  ASSUME NEW p, NEW q, ParserIsSound(p), Turn(p, q), NEW w, RightFile(w), NEW k,
         ReadsLocations(p, w, k, Len(w[k].locations)), ~Strays(p, q, w)
  PROVE  ReadsFile(q, w, k + 1) /\ q.tokens = p.tokens
<1> DEFINE s == w[k]
           said == SaidServer(s)
<1>1. k \in 1..Len(w) /\ s \in Servers /\ ServerIsRight(s) /\ Len(w) \in Nat
  BY RightServers DEF ReadsLocations, RightFile
<1>2. SeesLine(p, <<Closes>>) /\ At(w, k + 1, 1) = p.at + 1
  <2>1. MeetsLine(p, <<Closes>>, w) /\ At(w, k + 1, 1) = p.at + 1 /\ p.block = "server"
    BY <1>1, AtServerEnd DEF ReadsLocations
  <2>2. ~SeesStart(p, <<Closes>>) \/ p.tokens = FileTokens(w)
    BY <2>1, CutBraceIsLost DEF Strays
  <2> QED BY <2>1, <2>2 DEF MeetsLine
<1>3. p.server = said /\ validateServer(said)
  BY <1>1, AllOfAServer DEF ReadsLocations, ServerIsRight
<1>4. ParserIs(q, "file", p.tokens, p.at + 1, said, p.route,
               Pushed(p.configs, said))
  <2>1. p.block = "server"
    BY DEF ReadsLocations
  <2> HIDE DEF said
  <2> QED BY <1>2, <1>3, <2>1, CloseServerIsRead
<1>5. Pushed(p.configs, said) = MapBefore(w, k + 1)
  BY <1>1, MapGrows DEF ReadsLocations
<1>6. k + 1 \in 1..(Len(w) + 1)
  BY <1>1
<1>7. OnLine(q, w, k + 1, 1)
  BY <1>2, <1>4 DEF OnLine, ParserIs, ReadsLocations
<1> QED BY <1>4, <1>5, <1>6, <1>7 DEF ReadsFile, ParserIs

LEMMA FileEnds ==
  ASSUME NEW p, NEW q, ParserIsSound(p), Turn(p, q), NEW w, RightFile(w),
         ReadsFile(p, w, Len(w) + 1)
  PROVE  q.block = "done" /\ q.configs = ConfigsOf(Said(w))
<1>1. p.configs = ConfigsOf(Said(w))
  BY MapGrows DEF ReadsFile
<1>2. ~hasMoreTokens(p)
  <2>1. p.at = Len(FileTokens(w)) + 1
    BY ServersFollow DEF ReadsFile, OnLine
  <2>2. Len(p.tokens) \in Nat /\ Len(p.tokens) <= Len(FileTokens(w)) /\ p.at \in Nat
    BY PlaceOfAParser DEF ReadsFile, OnLine, EndsInTheLast
  <2> QED BY <2>1, <2>2 DEF hasMoreTokens
<1>3. DOMAIN p.configs # {}
  <2>1. w \in Seq(Servers) /\ w # <<>>
    BY DEF RightFile
  <2>2. 1 \in 1..Len(w) /\ Len(w) \in Nat
    BY <2>1
  <2>3. Said(w)[1] = SaidServer(w[1]) /\ DOMAIN Said(w) = 1..Len(w)
    BY <2>2 DEF Said
  <2>4. SaidServer(w[1]) \in Range(Said(w))
    BY <2>2, <2>3 DEF Range
  <2>5. getServerKey(SaidServer(w[1])) \in KeysOf(Said(w))
    BY <2>4 DEF KeysOf
  <2> QED BY <1>1, <2>5, ConfigsAre
<1>4. ParserIs(q, "done", p.tokens, p.at, p.server, p.route,
               p.configs)
  BY <1>2, <1>3, EndFileIsRead DEF ReadsFile
<1> QED BY <1>1, <1>4 DEF ParserIs

\* The parser on its way, or at the end of it: not read, refused before it has a token,
\* somewhere in the file, read, or no more of use.
IsOnTheWay(p, w) ==
  \/ p = NewParser
  \/ p.block = "refused" /\ p.tokens = <<>>
  \/ \E k \in 1..(Len(w) + 1) : ReadsFile(p, w, k)
  \/ \E k \in 1..Len(w) : \E i \in 0..Len(w[k].directives) : ReadsServer(p, w, k, i)
  \/ \E k \in 1..Len(w) : \E j \in 0..Len(w[k].locations) : ReadsLocations(p, w, k, j)
  \/ \E k \in 1..Len(w) : \E j \in 1..Len(w[k].locations) :
       \E i \in 0..Len(w[k].locations[j].directives) : ReadsLocation(p, w, k, j, i)
  \/ p.block = "done" /\ p.configs = ConfigsOf(Said(w))
  \/ p.block = "gone"

\* The parser p has the tokens t as long as it reads.
Reading == {"file", "server", "location"}
ReadsOf(p, t) == p.block \in Reading => p.tokens = t

\* A file without a mistake is read all the way; one that ends too early up to its last
\* server, where the parser may be lost.
ReadInv ==
  /\ ParserInv
  /\ file.mistake = NoMistake =>
       IsOnTheWay(parser, file.written) /\ ReadsOf(parser, FileTokens(file.written))
  /\ file.mistake.kind = "end" =>
       \/ IsOnTheWay(parser, SubSeq(file.written, 1, file.mistake.server))
       \/ Lost(parser)

LEMMA OnTheWayInTheFile ==
  ASSUME NEW p, NEW w, NEW k, NEW j, NEW i
  PROVE  /\ ReadsFile(p, w, k) => IsOnTheWay(p, w)
         /\ ReadsServer(p, w, k, i) => IsOnTheWay(p, w)
         /\ ReadsLocations(p, w, k, j) => IsOnTheWay(p, w)
         /\ ReadsLocation(p, w, k, j, i) => IsOnTheWay(p, w)
<1>1. ASSUME ReadsFile(p, w, k) PROVE IsOnTheWay(p, w)
  <2>1. k \in 1..(Len(w) + 1)
    BY <1>1 DEF ReadsFile
  <2> QED BY <1>1, <2>1 DEF IsOnTheWay
<1>2. ASSUME ReadsServer(p, w, k, i) PROVE IsOnTheWay(p, w)
  <2>1. k \in 1..Len(w) /\ i \in 0..Len(w[k].directives)
    BY <1>2 DEF ReadsServer
  <2> QED BY <1>2, <2>1 DEF IsOnTheWay
<1>3. ASSUME ReadsLocations(p, w, k, j) PROVE IsOnTheWay(p, w)
  <2>1. k \in 1..Len(w) /\ j \in 0..Len(w[k].locations)
    BY <1>3 DEF ReadsLocations
  <2> QED BY <1>3, <2>1 DEF IsOnTheWay
<1>4. ASSUME ReadsLocation(p, w, k, j, i) PROVE IsOnTheWay(p, w)
  <2>1. /\ k \in 1..Len(w) /\ j \in 1..Len(w[k].locations)
        /\ i \in 0..Len(w[k].locations[j].directives)
    BY <1>4 DEF ReadsLocation
  <2> QED BY <1>4, <2>1 DEF IsOnTheWay
<1> QED BY <1>1, <1>2, <1>3, <1>4

LEMMA FileIsOpened ==
  ASSUME ParserIsSound(parser), Parse, parser = NewParser, NEW w, RightFile(w),
         NEW tokens, tokens = tokenize(LinesOfFile(file.written, file.mistake)),
         EndsInTheLast(tokens, w)
  PROVE  IsOnTheWay(parser', w) /\ ReadsOf(parser', tokens)
<1> DEFINE t == [parser EXCEPT !.block = "file"]
<1>1. parser.block = "unread" /\ parser.tokens = <<>> /\ parser.at = 1 /\ parser.configs = <<>>
  BY DEF NewParser
<1>2. OpenFile
  BY <1>1 DEF Parse, OpenServer, ServerDirective, LocationDirective, Reads,
              UnknownDirective, CloseServer, CloseLocation, EndFile
<1>3. CASE parser' = Refused(parser)
  <2>1. ParserIs(parser', "refused", parser.tokens, parser.at, parser.server, parser.route,
                 parser.configs)
    BY <1>3, FieldsOfAParser, BlockChanges DEF Refused
  <2>2. parser'.block = "refused" /\ parser'.tokens = <<>>
    BY <1>1, <2>1 DEF ParserIs
  <2> QED BY <2>2 DEF IsOnTheWay, ReadsOf, Reading
<1>4. CASE parser' = [parser EXCEPT !.block = "file", !.tokens = tokens]
  <2>1. parser' = [t EXCEPT !.tokens = tokens]
    BY <1>4
  <2>2. ParserIs(t, "file", parser.tokens, parser.at, parser.server, parser.route,
                 parser.configs)
    BY FieldsOfAParser, BlockChanges
  <2> HIDE DEF t
  <2>3. parser'.block = "file" /\ parser'.tokens = tokens /\ parser'.at = 1
        /\ parser'.configs = <<>>
    BY <1>1, <2>1, <2>2, FieldsOfTheParser DEF ParserIs
  <2>5. OnLine(parser', w, 1, 1)
    BY <2>3, ServersFollow DEF OnLine
  <2>6. 1 \in 1..(Len(w) + 1)
    BY FileIsClean
  <2>7. ReadsFile(parser', w, 1)
    BY <2>3, <2>5, <2>6, MapGrows DEF ReadsFile
  <2> QED BY <2>3, <2>7, OnTheWayInTheFile DEF ReadsOf
<1> QED BY <1>2, <1>3, <1>4 DEF OpenFile

\* Every turn of the loops goes on along the way.
LEMMA TurnGoesOn ==
  ASSUME NEW p, NEW q, ParserIsSound(p), Turn(p, q), NEW w, RightFile(w),
         IsOnTheWay(p, w), ~Strays(p, q, w)
  PROVE  IsOnTheWay(q, w) /\ ReadsOf(q, p.tokens)
<1>1. p # NewParser
  BY DEF Turn, NewParser
<1>2. ASSUME p.block \in {"refused", "done", "gone"} PROVE FALSE
  BY <1>2 DEF Turn
<1>3. ASSUME NEW k \in 1..(Len(w) + 1), ReadsFile(p, w, k)
      PROVE  IsOnTheWay(q, w) /\ ReadsOf(q, p.tokens)
  <2>1. CASE k \in 1..Len(w)
    <3>1. ReadsServer(q, w, k, 0) /\ q.tokens = p.tokens
      BY <1>3, <2>1, ServerBegins
    <3> QED BY <3>1, OnTheWayInTheFile DEF ReadsOf
  <2>2. CASE k \notin 1..Len(w)
    <3>1. k = Len(w) + 1
      <4>1. Len(w) \in Nat
        BY FileIsClean
      <4> QED BY <2>2, <4>1
    <3>2. q.block = "done" /\ q.configs = ConfigsOf(Said(w))
      BY <1>3, <3>1, FileEnds
    <3> QED BY <3>2 DEF IsOnTheWay, ReadsOf, Reading
  <2> QED BY <2>1, <2>2
<1>4. ASSUME NEW k \in 1..Len(w), NEW j \in 0..Len(w[k].locations),
             ReadsLocations(p, w, k, j)
      PROVE  IsOnTheWay(q, w) /\ ReadsOf(q, p.tokens)
  <2>1. CASE j = Len(w[k].locations)
    <3>1. ReadsFile(q, w, k + 1) /\ q.tokens = p.tokens
      BY <1>4, <2>1, ServerEnds
    <3> QED BY <3>1, OnTheWayInTheFile DEF ReadsOf
  <2>2. CASE j # Len(w[k].locations)
    <3>1. ReadsLocation(q, w, k, j + 1, 0) /\ q.tokens = p.tokens
      BY <1>4, <2>2, LocationStarts
    <3> QED BY <3>1, OnTheWayInTheFile DEF ReadsOf
  <2> QED BY <2>1, <2>2
<1>5. ASSUME NEW k \in 1..Len(w), NEW i \in 0..Len(w[k].directives),
             ReadsServer(p, w, k, i)
      PROVE  IsOnTheWay(q, w) /\ ReadsOf(q, p.tokens)
  <2>1. CASE i = Len(w[k].directives)
    <3>1. ReadsLocations(p, w, k, 0)
      BY <1>5, <2>1, DirectivesEnd
    <3>2. 0 \in 0..Len(w[k].locations)
      BY <3>1 DEF ReadsLocations
    <3> QED BY <1>4, <3>1, <3>2
  <2>2. CASE i # Len(w[k].directives)
    <3>1. ReadsServer(q, w, k, i + 1) /\ q.tokens = p.tokens
      BY <1>5, <2>2, ServerGoesOn
    <3> QED BY <3>1, OnTheWayInTheFile DEF ReadsOf
  <2> QED BY <2>1, <2>2
<1>6. ASSUME NEW k \in 1..Len(w), NEW j \in 1..Len(w[k].locations),
             NEW i \in 0..Len(w[k].locations[j].directives), ReadsLocation(p, w, k, j, i)
      PROVE  IsOnTheWay(q, w) /\ ReadsOf(q, p.tokens)
  <2>1. CASE i = Len(w[k].locations[j].directives)
    <3>1. ReadsLocations(q, w, k, j) /\ q.tokens = p.tokens
      BY <1>6, <2>1, LocationEnds
    <3> QED BY <3>1, OnTheWayInTheFile DEF ReadsOf
  <2>2. CASE i # Len(w[k].locations[j].directives)
    <3>1. ReadsLocation(q, w, k, j, i + 1) /\ q.tokens = p.tokens
      BY <1>6, <2>2, LocationGoesOn
    <3> QED BY <3>1, OnTheWayInTheFile DEF ReadsOf
  <2> QED BY <2>1, <2>2
<1> QED BY <1>1, <1>2, <1>3, <1>4, <1>5, <1>6 DEF IsOnTheWay

\* The first turn and the others, in a file without a mistake.
LEMMA ParseGoesOn ==
  ASSUME ParserIsSound(parser), Parse, file.mistake = NoMistake,
         NEW w, w = file.written, RightFile(w),
         IsOnTheWay(parser, w), ReadsOf(parser, FileTokens(w))
  PROVE  IsOnTheWay(parser', w) /\ ReadsOf(parser', FileTokens(w))
<1>1. CASE parser = NewParser
  <2> DEFINE tokens == tokenize(LinesOfFile(file.written, file.mistake))
  <2>1. tokens = FileTokens(w)
    BY TokensOfTheFile
  <2>2. EndsInTheLast(tokens, w)
    BY <2>1, WholeFileEndsInTheLast
  <2> HIDE DEF tokens
  <2>3. tokens = tokenize(LinesOfFile(file.written, file.mistake))
    BY DEF tokens
  <2> QED BY <1>1, <2>1, <2>2, <2>3, FileIsOpened
<1>2. CASE parser # NewParser
  <2>1. parser.block # "unread"
    BY <1>2 DEF IsOnTheWay, ReadsFile, ReadsServer, ReadsLocations, ReadsLocation
  <2>2. Turn(parser, parser')
    BY <2>1, ParseTakesATurn
  <2>3. parser.tokens = FileTokens(w)
    BY <2>2 DEF Turn, ReadsOf, Reading
  <2>4. ~Strays(parser, parser', w)
    BY <2>3 DEF Strays
  <2>5. IsOnTheWay(parser', w) /\ ReadsOf(parser', parser.tokens)
    BY <2>2, <2>4, TurnGoesOn
  <2> QED BY <2>3, <2>5
<1> QED BY <1>1, <1>2

\* And in one that ends too early.
LEMMA ParseGoesOnOrIsLost ==
  ASSUME ParserIsSound(parser), Parse, file.mistake \in Mistakes(file.written),
         file.mistake.kind = "end", RightFile(file.written),
         NEW w, w = SubSeq(file.written, 1, file.mistake.server),
         IsOnTheWay(parser, w) \/ Lost(parser)
  PROVE  IsOnTheWay(parser', w) \/ Lost(parser')
<1>1. RightFile(w) /\ EndsInTheLast(tokenize(LinesOfFile(file.written, file.mistake)), w)
  BY TokensUpToTheEnd
<1>2. CASE parser = NewParser
  <2> DEFINE tokens == tokenize(LinesOfFile(file.written, file.mistake))
  <2>1. EndsInTheLast(tokens, w)
    BY <1>1
  <2> HIDE DEF tokens
  <2>2. tokens = tokenize(LinesOfFile(file.written, file.mistake))
    BY DEF tokens
  <2> QED BY <1>1, <1>2, <2>1, <2>2, FileIsOpened
<1>3. CASE parser # NewParser
  <2>1. parser.block # "unread"
    BY <1>3 DEF IsOnTheWay, ReadsFile, ReadsServer, ReadsLocations, ReadsLocation, Lost
  <2>2. Turn(parser, parser')
    BY <2>1, ParseTakesATurn
  <2>3. CASE Lost(parser)
    <3>1. DOMAIN parser = DOMAIN NewParser
      BY PlaceOfAParser
    <3>2. Lost(parser')
      BY <2>2, <2>3, <3>1, LostStaysLost
    <3> QED BY <3>2
  <2>4. CASE Lost(parser')
    BY <2>4
  <2>5. CASE IsOnTheWay(parser, w) /\ ~Lost(parser')
    <3>1. ~Strays(parser, parser', w)
      BY <2>5 DEF Strays
    <3>2. IsOnTheWay(parser', w)
      BY <1>1, <2>2, <2>5, <3>1, TurnGoesOn
    <3> QED BY <3>2
  <2> QED BY <2>3, <2>4, <2>5
<1> QED BY <1>2, <1>3

\* The files that are right are those that may be there.
LEMMA FileIsRight ==
  ASSUME FilesAreRight, ParserInv
  PROVE  RightFile(file.written)
BY WrittenAssumption DEF FilesAreRight, ParserInv, RightFile

LEMMA ReadInvInit == ParserInit => ReadInv
<1>1. ASSUME ParserInit, NEW w PROVE IsOnTheWay(parser, w) /\ ReadsOf(parser, FileTokens(w))
  <2>1. parser = NewParser
    BY <1>1 DEF ParserInit
  <2>2. NewParser.block = "unread"
    BY DEF NewParser
  <2> QED BY <2>1, <2>2 DEF IsOnTheWay, ReadsOf, Reading
<1> QED BY <1>1, ParserInitSound DEF ReadInv

LEMMA ParseKeepsReadInv ==
  ASSUME FilesAreRight, ReadInv, Parse
  PROVE  ReadInv'
<1> DEFINE w == file.written
           part == SubSeq(w, 1, file.mistake.server)
<1>1. ParserInv /\ ParserInv' /\ ParserIsSound(parser) /\ file' = file /\ RightFile(w)
  <2>1. ParserInv
    BY DEF ReadInv
  <2>2. ParserInv'
    BY <2>1, ParseKeepsInv
  <2>3. RightFile(w)
    BY <2>1, FileIsRight
  <2> QED BY <2>1, <2>2, <2>3 DEF ParserInv, Parse
<1>2. ASSUME file.mistake = NoMistake
      PROVE  IsOnTheWay(parser', w) /\ ReadsOf(parser', FileTokens(w))
  <2>1. IsOnTheWay(parser, w) /\ ReadsOf(parser, FileTokens(w))
    BY <1>2 DEF ReadInv
  <2> QED BY <1>1, <1>2, <2>1, ParseGoesOn
<1>3. ASSUME file.mistake.kind = "end" PROVE IsOnTheWay(parser', part) \/ Lost(parser')
  <2>1. IsOnTheWay(parser, part) \/ Lost(parser)
    BY <1>3 DEF ReadInv
  <2>2. file.mistake \in Mistakes(w)
    BY <1>1 DEF ParserInv
  <2> QED BY <1>1, <1>3, <2>1, <2>2, ParseGoesOnOrIsLost
<1>4. /\ (file.mistake = NoMistake =>
            IsOnTheWay(parser, w) /\ ReadsOf(parser, FileTokens(w)))'
      /\ (file.mistake.kind = "end" => IsOnTheWay(parser, part) \/ Lost(parser))'
  BY <1>1, <1>2, <1>3
<1> QED BY <1>1, <1>4 DEF ReadInv

\* What a parser on its way has come to.
LEMMA WhatIsRead ==
  ASSUME NEW p, NEW w, IsOnTheWay(p, w)
  PROVE  \/ p.block \in {"unread", "file", "server", "location", "gone"}
         \/ p.block = "refused" /\ p.tokens = <<>>
         \/ p.block = "done" /\ p.configs = ConfigsOf(Said(w))
<1>1. p = NewParser => p.block = "unread"
  BY DEF NewParser
<1>2. \A k \in 1..(Len(w) + 1) : ReadsFile(p, w, k) => p.block = "file"
  BY DEF ReadsFile
<1>3. \A k, i : ReadsServer(p, w, k, i) => p.block = "server"
  BY DEF ReadsServer
<1>4. \A k, j : ReadsLocations(p, w, k, j) => p.block = "server"
  BY DEF ReadsLocations
<1>5. \A k, j, i : ReadsLocation(p, w, k, j, i) => p.block = "location"
  BY DEF ReadsLocation
<1> QED BY <1>1, <1>2, <1>3, <1>4, <1>5 DEF IsOnTheWay

LEMMA ReadingIsRight == ReadInv => ReadAsWritten
<1> SUFFICES ASSUME ReadInv, file.mistake = NoMistake
             PROVE  /\ parser.block = "refused" => parser.tokens = <<>>
                    /\ parser.block # "astray"
                    /\ Accepted => parser.configs = ConfigsOf(Said(file.written))
  BY DEF ReadAsWritten
<1>1. IsOnTheWay(parser, file.written)
  BY DEF ReadInv
<1> QED BY <1>1, WhatIsRead DEF Accepted

LEMMA EndingIsNoticed == ReadInv => EndIsNoticed
<1> SUFFICES ASSUME ReadInv, Accepted, file.mistake.kind = "end"
             PROVE  parser.configs = ConfigsOf(Said(SubSeq(file.written, 1, file.mistake.server)))
  BY DEF EndIsNoticed
<1> DEFINE w == SubSeq(file.written, 1, file.mistake.server)
<1>1. IsOnTheWay(parser, w) \/ Lost(parser)
  BY DEF ReadInv
<1> HIDE DEF w
<1>2. ~Lost(parser)
  BY DEF Lost, Accepted
<1> QED BY <1>1, <1>2, WhatIsRead DEF Accepted, w

----------------------------------------------------------------------------
(* The first server of a key, and the first with a name.                   *)

\* The servers of a key, in the whole.
HereIn(servers, key) == {k \in 1..Len(servers) : getServerKey(servers[k]) = key}

LEMMA PlacesOfKey ==
  ASSUME NEW S, NEW servers \in Seq(S), NEW key
  PROVE  LET all == OfKey(servers, key)
             q   == FlattenSeq(all)
         IN
         /\ q \in Seq(S)
         /\ \A k \in HereIn(servers, key) :
              Reach(all, k) \in 1..Len(q) /\ q[Reach(all, k)] = servers[k]
         /\ \A x \in 1..Len(q) : \E k \in HereIn(servers, key) : x = Reach(all, k)
         /\ \A j, k \in HereIn(servers, key) : j <= k => Reach(all, j) <= Reach(all, k)
<1> DEFINE all == OfKey(servers, key)
           q == FlattenSeq(all)
           n == Len(servers)
<1>1. all \in Seq(Seq(S)) /\ Len(all) = n /\ n \in Nat
  <2>1. \A i \in 1..n :
          (IF getServerKey(servers[i]) = key THEN <<servers[i]>> ELSE <<>>) \in Seq(S)
    <3>1. \A i \in 1..n : servers[i] \in S
      OBVIOUS
    <3> QED BY <3>1, OneIsASequence
  <2> QED BY <2>1 DEF OfKey
<1>2. \A k \in 1..n : all[k] = IF getServerKey(servers[k]) = key THEN <<servers[k]>> ELSE <<>>
  BY DEF OfKey
<1> HIDE DEF all, n
<1>3. PiecesUpto(all, n) /\ NothingElseUpto(all, n)
  BY <1>1, PiecesAreInPlace
<1>4. Upto(all, n) = q /\ Reach(all, n) = Len(q) /\ q \in Seq(S)
  <2>1. n \in 0..Len(all)
    BY <1>1
  <2>2. Upto(all, n) = q /\ Upto(all, n) \in Seq(S)
    BY <1>1, <2>1, UptoTheNext
  <2> QED BY <2>2 DEF Reach
<1>5. \A k \in 0..n : Reach(all, k) \in Nat
  BY <1>1, UptoTheNext
<1> HIDE DEF q
<1>6. ASSUME NEW k \in HereIn(servers, key)
      PROVE  /\ Reach(all, k) \in 1..Len(q) /\ q[Reach(all, k)] = servers[k]
             /\ Reach(all, k) = Reach(all, k - 1) + 1
  <2>1. k \in 1..n /\ getServerKey(servers[k]) = key
    BY DEF HereIn, n
  <2>2. all[k] = <<servers[k]>>
    BY <1>2, <2>1
  <2>3. Len(all[k]) = 1 /\ all[k][1] = servers[k] /\ 1 \in 1..Len(all[k])
    BY <2>2
  <2>4. /\ Reach(all, k) = Reach(all, k - 1) + Len(all[k]) /\ Reach(all, k) <= Reach(all, n)
        /\ q[Reach(all, k - 1) + 1] = all[k][1]
    BY <1>3, <1>4, <2>1, <2>3 DEF PiecesUpto
  <2>5. Reach(all, k - 1) \in Nat /\ Reach(all, k) \in Nat /\ Reach(all, n) \in Nat
    <3>1. k - 1 \in 0..n /\ k \in 0..n /\ n \in 0..n
      BY <1>1, <2>1
    <3> QED BY <1>5, <3>1
  <2>6. Reach(all, k) = Reach(all, k - 1) + 1
    BY <2>3, <2>4
  <2>7. Reach(all, k) \in 1..Len(q)
    BY <1>4, <2>4, <2>5, <2>6
  <2> QED BY <2>3, <2>4, <2>6, <2>7
<1>7. ASSUME NEW x \in 1..Len(q)
      PROVE  \E k \in HereIn(servers, key) : x = Reach(all, k)
  <2>1. PICK k \in 1..n : x \in (Reach(all, k - 1) + 1)..Reach(all, k)
    BY <1>3, <1>4 DEF NothingElseUpto
  <2>2. Reach(all, k) = Reach(all, k - 1) + Len(all[k])
    BY <1>3 DEF PiecesUpto
  <2>3. Reach(all, k - 1) \in Nat /\ Reach(all, k) \in Nat
    <3>1. k - 1 \in 0..n /\ k \in 0..n
      BY <1>1
    <3> QED BY <1>5, <3>1
  <2>4. k \in HereIn(servers, key)
    <3> SUFFICES ASSUME getServerKey(servers[k]) # key PROVE FALSE
      BY DEF HereIn, n
    <3>1. all[k] = <<>>
      BY <1>2
    <3>2. Len(all[k]) = 0
      BY <3>1
    <3> QED BY <2>1, <2>2, <2>3, <3>2
  <2>5. Reach(all, k) = Reach(all, k - 1) + 1
    BY <1>6, <2>4
  <2>6. x = Reach(all, k)
    BY <2>1, <2>3, <2>5
  <2> QED BY <2>4, <2>6
<1>8. ASSUME NEW j \in HereIn(servers, key), NEW k \in HereIn(servers, key), j <= k
      PROVE  Reach(all, j) <= Reach(all, k)
  <2>1. k \in 0..Len(all) /\ j \in 0..k
    BY <1>1, <1>8 DEF HereIn, n
  <2> QED BY <1>1, <2>1, ReachGrows
<1> QED BY <1>4, <1>6, <1>7, <1>8 DEF q, all

\* The first of some of them in the file is the first of them in the map.
LEMMA FirstOfKey ==
  ASSUME NEW S, NEW servers \in Seq(S), NEW key, NEW q, q = FlattenSeq(OfKey(servers, key)),
         NEW T \in SUBSET HereIn(servers, key), T # {},
         NEW first, first = Min({Reach(OfKey(servers, key), k) : k \in T})
  PROVE  q[first] = servers[Min(T)]
<1> DEFINE all == OfKey(servers, key)
           here == HereIn(servers, key)
           X == {Reach(all, k) : k \in T}
<1>1. /\ q \in Seq(S)
      /\ \A k \in here : Reach(all, k) \in 1..Len(q) /\ q[Reach(all, k)] = servers[k]
      /\ \A j, k \in here : j <= k => Reach(all, j) <= Reach(all, k)
  BY PlacesOfKey
<1>2. T \in SUBSET Nat
  BY DEF HereIn
<1>3. Min(T) \in T /\ \A k \in T : Min(T) <= k
  BY <1>2, LeastIsOne
<1> HIDE DEF all, here
<1>4. X \in SUBSET Nat /\ X # {}
  <2>1. \A k \in T : Reach(all, k) \in Nat
    BY <1>1 DEF here
  <2> QED BY <2>1
<1>5. Min(X) \in X /\ \A x \in X : Min(X) <= x
  <2> HIDE DEF X
  <2> QED BY <1>4, LeastIsOne
<1>6. Min(X) = Reach(all, Min(T))
  <2> DEFINE t == Min(T)
             x == Min(X)
  <2>1. t \in T /\ x \in X /\ x \in Nat
    BY <1>3, <1>4, <1>5
  <2>2. x <= Reach(all, t)
    BY <1>3, <1>5
  <2>3. PICK k \in T : x = Reach(all, k)
    BY <2>1
  <2>4. t <= k
    BY <1>3
  <2>5. t \in here /\ k \in here
    BY <2>1 DEF here
  <2> HIDE DEF t, x, X
  <2>6. Reach(all, t) <= x
    BY <1>1, <2>3, <2>4, <2>5
  <2>7. Reach(all, t) \in Nat
    BY <1>1, <2>5
  <2>8. x = Reach(all, t)
    BY <2>1, <2>2, <2>6, <2>7
  <2> QED BY <2>8 DEF x, t
<1>7. q[Reach(all, Min(T))] = servers[Min(T)]
  BY <1>1, <1>3 DEF here
<1> QED BY <1>4, <1>6, <1>7 DEF all

\* The server of a key with a name is the first with both in the order of the file, or
\* the first of the key if there is none (findServerConfig).
LEMMA FirstWithTheName ==
  ASSUME NEW S, NEW servers \in Seq(S), parser.configs = ConfigsOf(servers),
         NEW key \in DOMAIN parser.configs, NEW name
  PROVE  LET here  == HereIn(servers, key)
             named == {k \in here : HasName(servers[k], name)}
         IN  findServerConfig(key, name) = servers[Min(IF named = {} THEN here ELSE named)]
<1> DEFINE here == HereIn(servers, key)
           named == {k \in here : HasName(servers[k], name)}
           all == OfKey(servers, key)
           q == FlattenSeq(all)
           I == {i \in 1..Len(q) : HasName(q[i], name)}
           n == IF I # {} THEN Min(I) ELSE 0
           XOf(T) == {Reach(all, k) : k \in T}
<1>1. key \in KeysOf(servers) /\ parser.configs[key] = q
  BY ConfigsAre
<1>2. findServerConfig(key, name) = q[IF n = 0 THEN 1 ELSE n]
  BY <1>1 DEF findServerConfig, SelectInSeq
<1>3. here # {}
  BY <1>1 DEF KeysOf, HereIn, Range
<1>4. /\ q \in Seq(S)
      /\ \A k \in here : Reach(all, k) \in 1..Len(q) /\ q[Reach(all, k)] = servers[k]
      /\ \A x \in 1..Len(q) : \E k \in here : x = Reach(all, k)
  BY PlacesOfKey
<1>5. ASSUME NEW T \in SUBSET here, T # {}
      PROVE  q[Min(XOf(T))] = servers[Min(T)]
  <2>1. q = FlattenSeq(OfKey(servers, key)) /\ T \in SUBSET HereIn(servers, key)
    OBVIOUS
  <2> DEFINE first == Min({Reach(OfKey(servers, key), k) : k \in T})
  <2>2. first = Min({Reach(OfKey(servers, key), k) : k \in T})
    OBVIOUS
  <2>3. first = Min(XOf(T))
    OBVIOUS
  <2> HIDE DEF q, here, first, all, XOf
  <2>4. q[first] = servers[Min(T)]
    BY <1>5, <2>1, <2>2, FirstOfKey
  <2> QED BY <2>3, <2>4
<1> HIDE DEF q, all, here
<1>6. CASE named # {}
  <2>1. I = XOf(named)
    <3>1. ASSUME NEW x \in I PROVE x \in XOf(named)
      <4>1. PICK k \in here : x = Reach(all, k)
        BY <1>4
      <4>2. k \in named
        BY <1>4, <4>1
      <4> QED BY <4>1, <4>2
    <3>2. ASSUME NEW x \in XOf(named) PROVE x \in I
      <4>1. PICK k \in named : x = Reach(all, k)
        OBVIOUS
      <4> QED BY <1>4, <4>1
    <3> QED BY <3>1, <3>2
  <2>2. I # {}
    BY <1>6, <2>1
  <2>3. I \in SUBSET (Nat \ {0})
    BY <1>4
  <2>4. Min(I) \in I
    <3> HIDE DEF I
    <3>1. I \in SUBSET Nat
      BY <2>3
    <3> QED BY <2>2, <3>1, LeastIsOne
  <2>5. n = Min(I) /\ n # 0
    <3> HIDE DEF I
    <3> QED BY <2>2, <2>3, <2>4
  <2>6. q[Min(XOf(named))] = servers[Min(named)]
    BY <1>5, <1>6
  <2> HIDE DEF I, n, named, XOf
  <2>7. findServerConfig(key, name) = servers[Min(named)]
    BY <1>2, <2>1, <2>5, <2>6
  <2> QED BY <1>6, <2>7 DEF named, here
<1>7. CASE named = {}
  <2>1. I = {}
    <3> SUFFICES ASSUME NEW x \in I PROVE FALSE
      OBVIOUS
    <3>1. PICK k \in here : x = Reach(all, k)
      BY <1>4
    <3>2. q[x] = servers[k] /\ HasName(q[x], name)
      BY <1>4, <3>1
    <3>3. k \in named
      BY <3>1, <3>2
    <3> QED BY <1>7, <3>3
  <2>2. findServerConfig(key, name) = q[1]
    BY <1>2, <2>1
  <2>3. XOf(here) = 1..Len(q)
    <3>1. ASSUME NEW x \in XOf(here) PROVE x \in 1..Len(q)
      BY <1>4
    <3>2. ASSUME NEW x \in 1..Len(q) PROVE x \in XOf(here)
      BY <1>4
    <3> QED BY <3>1, <3>2
  <2>4. Min(XOf(here)) = 1
    <3>1. XOf(here) # {}
      BY <1>3
    <3>2. Len(q) \in Nat
      BY <1>4
    <3> DEFINE X == 1..Len(q)
    <3>3. X # {}
      BY ONLY <2>3, <3>1
    <3>4. X \in SUBSET Nat
      BY ONLY <3>2
    <3>5. 1 \in X /\ \A x \in X : 1 <= x
      BY ONLY <3>2, <3>3
    <3> HIDE DEF X
    <3>6. Min(X) \in X /\ \A x \in X : Min(X) <= x
      BY <3>3, <3>4, LeastIsOne
    <3>7. Min(X) \in Nat /\ 1 <= Min(X) /\ Min(X) <= 1
      BY <3>4, <3>5, <3>6
    <3>8. Min(X) = 1
      BY <3>7
    <3> QED BY <2>3, <3>8 DEF X
  <2>5. q[Min(XOf(here))] = servers[Min(here)]
    BY <1>3, <1>5
  <2> HIDE DEF I, n, XOf
  <2>6. findServerConfig(key, name) = servers[Min(here)]
    BY <2>2, <2>4, <2>5
  <2> QED BY <1>7, <2>6 DEF here
<1> QED BY <1>6, <1>7

LEMMA FindingIsRight == ReadInv => NamesFindTheirServer
<1> SUFFICES ASSUME ReadInv, Accepted, file.mistake = NoMistake,
                    NEW key \in DOMAIN parser.configs, NEW name
             PROVE  LET here  == {k \in 1..Len(file.written) :
                                    getServerKey(Said(file.written)[k]) = key}
                        named == {k \in here :
                                    name \in Range(Said(file.written)[k].server_names)}
                        first == CHOOSE k \in (IF named = {} THEN here ELSE named) :
                                   \A j \in (IF named = {} THEN here ELSE named) : k <= j
                    IN  findServerConfig(key, name) = Said(file.written)[first]
  BY DEF NamesFindTheirServer
<1> DEFINE w == file.written
           servers == Said(w)
           here == {k \in 1..Len(w) : getServerKey(servers[k]) = key}
           named == {k \in here : name \in Range(servers[k].server_names)}
           T == IF named = {} THEN here ELSE named
           first == CHOOSE k \in T : \A j \in T : k <= j
<1>1. parser.configs = ConfigsOf(servers)
  BY ReadingIsRight DEF ReadAsWritten
<1>2. w \in Seq(Servers)
  BY WrittenAssumption DEF ReadInv, ParserInv
<1> DEFINE S == {SaidServer(w[k]) : k \in 1..Len(w)}
<1>3. servers \in Seq(S) /\ Len(servers) = Len(w)
  BY <1>2 DEF Said
<1> HIDE DEF servers, w, S
<1>4. here = HereIn(servers, key)
  BY <1>3 DEF HereIn
<1>5. named = {k \in HereIn(servers, key) : HasName(servers[k], name)}
  BY <1>4 DEF HasName
<1>6. findServerConfig(key, name) = servers[Min(T)]
  <2> DEFINE h == HereIn(servers, key)
             m == {k \in h : HasName(servers[k], name)}
  <2>1. findServerConfig(key, name) = servers[Min(IF m = {} THEN h ELSE m)]
    BY <1>1, <1>3, FirstWithTheName, ZenonT(60)
  <2>2. h = here /\ m = named
    BY <1>4, <1>5
  <2> HIDE DEF h, m, here, named
  <2> QED BY <2>1, <2>2
<1>7. Min(T) = first
  BY DEF Min
<1>8. findServerConfig(key, name) = servers[first]
  BY <1>6, <1>7
<1> QED BY <1>8 DEF servers, w
=============================================================================
