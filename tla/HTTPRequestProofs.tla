-------------------------- MODULE HTTPRequestProofs --------------------------
(***************************************************************************)
(* The request parser, for every sequence of messages of any size, and     *)
(* every way to cut them.                                                  *)
(***************************************************************************)
EXTENDS HTTPRequest, NaturalsInduction, WellFoundedInduction, SequenceTheorems,
        FiniteSetTheorems, TLAPS

\* Induction, for the set of the numbers that have a property.
LEMMA AllNaturals ==
  ASSUME NEW S, 0 \in S, \A n \in Nat : n \in S => n + 1 \in S
  PROVE  \A n \in Nat : n \in S
<1> SUFFICES ASSUME Nat \ S # {} PROVE FALSE
  OBVIOUS
<1> DEFINE R == OpToRel(<, Nat)
           T == Nat \ S
<1>1. IsWellFoundedOn(R, Nat)
  BY NatLessThanWellFounded
<1>2. T \subseteq Nat /\ T # {}
  OBVIOUS
<1>3. PICK n \in T : \A m \in T : <<m, n>> \notin R
  BY ONLY <1>1, <1>2, WFMin
<1>4. \A m \in T : ~(m < n)
  BY <1>2, <1>3 DEF OpToRel
<1>5. n \in Nat /\ n # 0 /\ n - 1 \notin T
  BY <1>4
<1> QED BY <1>5

\* The least of some numbers is one of them.
LEMMA LeastIsOne ==
  ASSUME NEW I \in SUBSET Nat, I # {}
  PROVE  Min(I) \in I /\ \A i \in I : Min(I) <= i
<1> DEFINE T == {n \in Nat : \A m \in 0..n : m \notin I}
<1>1. \E x \in I : \A y \in I : x <= y
  <2> SUFFICES ASSUME ~\E x \in I : \A y \in I : x <= y PROVE FALSE
    OBVIOUS
  <2>1. 0 \in T
    <3>1. 0 \notin I
      OBVIOUS
    <3> QED BY <3>1
  <2>2. ASSUME NEW n \in Nat, n \in T PROVE n + 1 \in T
    <3>1. n + 1 \notin I
      <4> SUFFICES ASSUME n + 1 \in I PROVE FALSE
        OBVIOUS
      <4>1. PICK y \in I : y < n + 1
        OBVIOUS
      <4>2. y \in 0..n
        BY <4>1
      <4> QED BY <2>2, <4>2
    <3>2. \A m \in 0..(n + 1) : m \in 0..n \/ m = n + 1
      OBVIOUS
    <3> QED BY <2>2, <3>1, <3>2
  <2>3. \A n \in Nat : n \in T
    <3> HIDE DEF T
    <3> QED BY ONLY <2>1, <2>2, AllNaturals
  <2>4. \A n \in Nat : n \notin I
    BY <2>3
  <2> QED BY <2>4
<1> QED BY <1>1 DEF Min

----------------------------------------------------------------------------
(* Lines.                                                                  *)

\* The symbols there are on the wire.
Symbols ==
  STRING \cup {"CR", "LF", "Content-Length:", "Transfer-Encoding:", "chunked"}
Text == Seq(Symbols)

\* The end of a line is found where the first one is.
LEMMA FirstLFIs ==
  ASSUME NEW r, r.requestBuffer \in Text
  PROVE  /\ FirstLF(r) \in 0..Len(r.requestBuffer)
         /\ FirstLF(r) = 0 => \A i \in 1..Len(r.requestBuffer) : r.requestBuffer[i] # "LF"
         /\ FirstLF(r) # 0 =>
              /\ r.requestBuffer[FirstLF(r)] = "LF"
              /\ \A i \in 1..(FirstLF(r) - 1) : r.requestBuffer[i] # "LF"
<1> DEFINE x == r.requestBuffer
           I == {i \in 1..Len(x) : x[i] = "LF"}
<1>1. FirstLF(r) = IF I # {} THEN Min(I) ELSE 0
  BY DEF FirstLF, SelectInSeq
<1>2. I \in SUBSET Nat /\ Len(x) \in Nat
  BY LenProperties DEF Text
<1>3. CASE I = {}
  <2>1. FirstLF(r) = 0
    BY <1>1, <1>3
  <2> QED BY <1>2, <1>3, <2>1
<1>4. CASE I # {}
  <2>1. FirstLF(r) \in I /\ \A i \in I : FirstLF(r) <= i
    <3> HIDE DEF I
    <3> QED BY <1>1, <1>2, <1>4, LeastIsOne
  <2> QED BY <1>2, <2>1
<1> QED BY <1>3, <1>4

IsALine(l) == l \in Text /\ \A i \in 1..Len(l) : l[i] \notin {"CR", "LF"}

\* The words of a line are its symbols.
LEMMA WordIs ==
  ASSUME NEW l, IsALine(l), NEW n \in Nat, n >= 1, NEW old
  PROVE  Word(l, n, old) = IF n <= Len(l) THEN l[n] ELSE old
<1> DEFINE C(i) == {j \in 1..i : l[j] # "CR"}
           At == {i \in 1..Len(l) : l[i] # "CR" /\ Cardinality(C(i)) = n}
<1>1. Len(l) \in Nat
  BY LenProperties DEF IsALine, Text
<1>2. \A i \in 1..Len(l) : l[i] # "CR" /\ Cardinality(C(i)) = i
  <2> TAKE i \in 1..Len(l)
  <2>1. \A j \in 1..i : l[j] # "CR"
    BY <1>1 DEF IsALine
  <2>2. C(i) = 1..i
    BY <2>1
  <2>3. Cardinality(1..i) = i
    <3>1. 1 \in Int /\ i \in Int /\ i >= 1 /\ i - 1 + 1 = i
      BY <1>1
    <3>2. Cardinality(1..i) = IF 1 > i THEN 0 ELSE i - 1 + 1
      BY ONLY <3>1, FS_Interval
    <3> QED BY ONLY <3>1, <3>2
  <2>4. i \in 1..Len(l) /\ l[i] # "CR"
    BY <1>1 DEF IsALine
  <2> HIDE DEF C
  <2> QED BY <2>2, <2>3, <2>4
<1> HIDE DEF C
<1>3. \A i \in 1..Len(l) : i \in At <=> i = n
  BY <1>2
<1>4. Word(l, n, old) = IF At = {} THEN old ELSE l[CHOOSE i \in At : TRUE]
  BY DEF Word, C
<1>5. At \subseteq 1..Len(l)
  OBVIOUS
<1> HIDE DEF At
<1>6. CASE n <= Len(l)
  <2>1. n \in 1..Len(l)
    BY <1>1, <1>6
  <2>2. At = {n}
    BY <1>3, <1>5, <2>1
  <2> QED BY <1>4, <1>6, <2>2
<1>7. CASE ~(n <= Len(l))
  <2>1. At = {}
    BY <1>1, <1>3, <1>5, <1>7
  <2> QED BY <1>4, <1>7, <2>1
<1> QED BY <1>6, <1>7

\* A word of any line is a symbol of it, or what was there before.
LEMMA WordTyped ==
  ASSUME NEW l \in Text, NEW n, NEW old
  PROVE  Word(l, n, old) = old \/ Word(l, n, old) \in Symbols
<1> DEFINE At == {i \in 1..Len(l) : /\ l[i] # "CR"
                                    /\ Cardinality({j \in 1..i : l[j] # "CR"}) = n}
<1>1. Word(l, n, old) = IF At = {} THEN old ELSE l[CHOOSE i \in At : TRUE]
  BY DEF Word
<1>2. At # {} => (CHOOSE i \in At : TRUE) \in 1..Len(l)
  OBVIOUS
<1>3. \A i \in 1..Len(l) : l[i] \in Symbols
  BY ElementOfSeq DEF Text
<1> HIDE DEF At
<1> QED BY <1>1, <1>2, <1>3

\* The end of a line.
LEMMA LineEnd == CRLF \in Text /\ Len(CRLF) = 2 /\ CRLF[1] = "CR" /\ CRLF[2] = "LF"
BY DEF CRLF, Text, Symbols

\* The symbols of two texts, end to end.
LEMMA Joined ==
  ASSUME NEW x \in Text, NEW y \in Text
  PROVE  /\ x \o y \in Text
         /\ Len(x) \in Nat /\ Len(y) \in Nat /\ Len(x \o y) = Len(x) + Len(y)
         /\ \A i \in 1..Len(x) : (x \o y)[i] = x[i]
         /\ \A i \in 1..Len(y) : (x \o y)[Len(x) + i] = y[i]
<1> DEFINE z == x \o y
<1>1. Len(x) \in Nat /\ Len(y) \in Nat
  BY LenProperties DEF Text
<1>2. /\ z \in Text /\ Len(z) = Len(x) + Len(y)
      /\ \A i \in 1..(Len(x) + Len(y)) : z[i] = IF i <= Len(x) THEN x[i] ELSE y[i - Len(x)]
  BY ConcatProperties DEF Text
<1> HIDE DEF z
<1>3. \A i \in 1..Len(x) : z[i] = x[i]
  BY <1>1, <1>2
<1>4. \A i \in 1..Len(y) : z[Len(x) + i] = y[i]
  <2> TAKE i \in 1..Len(y)
  <2>1. Len(x) + i \in 1..(Len(x) + Len(y)) /\ ~(Len(x) + i <= Len(x))
        /\ Len(x) + i - Len(x) = i
    BY <1>1
  <2> QED BY <1>2, <2>1
<1> QED BY <1>1, <1>2, <1>3, <1>4 DEF z

\* The symbols of a line and of what follows it.
LEMMA LineAndRest ==
  ASSUME NEW l, IsALine(l), NEW rest \in Text
  PROVE  LET t == l \o CRLF \o rest IN
         /\ t \in Text /\ Len(t) = Len(l) + 2 + Len(rest)
         /\ \A i \in 1..Len(l) : t[i] = l[i]
         /\ t[Len(l) + 1] = "CR" /\ t[Len(l) + 2] = "LF"
         /\ \A i \in 1..Len(rest) : t[Len(l) + 2 + i] = rest[i]
<1> DEFINE s == l \o CRLF
           t == s \o rest
<1>1. l \in Text
  BY DEF IsALine
<1>2. /\ s \in Text /\ Len(s) = Len(l) + Len(CRLF) /\ Len(l) \in Nat
      /\ \A i \in 1..Len(l) : s[i] = l[i]
      /\ \A i \in 1..Len(CRLF) : s[Len(l) + i] = CRLF[i]
  BY <1>1, LineEnd, Joined
<1> HIDE DEF s
<1>3. /\ t \in Text /\ Len(t) = Len(s) + Len(rest) /\ Len(rest) \in Nat
      /\ \A i \in 1..Len(s) : t[i] = s[i]
      /\ \A i \in 1..Len(rest) : t[Len(s) + i] = rest[i]
  BY <1>2, Joined
<1> HIDE DEF t
<1>4. Len(s) = Len(l) + 2 /\ s[Len(l) + 1] = "CR" /\ s[Len(l) + 2] = "LF"
  BY <1>2, LineEnd
<1>5. \A i \in 1..Len(l) : t[i] = l[i]
  BY <1>2, <1>3, <1>4
<1>6. t[Len(l) + 1] = "CR" /\ t[Len(l) + 2] = "LF"
  <2>1. Len(l) + 1 \in 1..Len(s) /\ Len(l) + 2 \in 1..Len(s)
    BY <1>2, <1>4
  <2> QED BY <1>3, <1>4, <2>1
<1> QED BY <1>3, <1>4, <1>5, <1>6 DEF s, t

\* What is in the buffer, x, and what is still to come, w, are a line and what follows.
Overlap(x, w, l, rest) ==
  /\ Len(x) + Len(w) = Len(l) + 2 + Len(rest)
  /\ \A i \in 1..Len(x) : i <= Len(l) => x[i] = l[i]
  /\ Len(l) + 1 <= Len(x) => x[Len(l) + 1] = "CR"
  /\ Len(l) + 2 <= Len(x) => x[Len(l) + 2] = "LF"
  /\ \A i \in 1..Len(rest) : Len(l) + 2 + i <= Len(x) => x[Len(l) + 2 + i] = rest[i]
  /\ \A i \in 1..Len(w), j \in 1..Len(rest) :
       Len(x) + i = Len(l) + 2 + j => w[i] = rest[j]

\* They are, when they give the same text.
LEMMA BufferIs ==
  ASSUME NEW x \in Text, NEW w \in Text, NEW l, IsALine(l), NEW rest \in Text,
         x \o w = l \o CRLF \o rest
  PROVE  Overlap(x, w, l, rest)
<1> DEFINE t == l \o CRLF \o rest
<1>1. Len(l) \in Nat /\ Len(rest) \in Nat
  BY LenProperties DEF Text, IsALine
<1>2. /\ t \in Text /\ Len(t) = Len(l) + 2 + Len(rest)
      /\ \A i \in 1..Len(l) : t[i] = l[i]
      /\ t[Len(l) + 1] = "CR" /\ t[Len(l) + 2] = "LF"
      /\ \A i \in 1..Len(rest) : t[Len(l) + 2 + i] = rest[i]
  BY LineAndRest
<1>3. t = x \o w
  OBVIOUS
<1> HIDE DEF t
<1>4. /\ Len(x) \in Nat /\ Len(w) \in Nat /\ Len(t) = Len(x) + Len(w)
      /\ \A i \in 1..Len(x) : t[i] = x[i]
      /\ \A i \in 1..Len(w) : t[Len(x) + i] = w[i]
  BY <1>3, Joined
<1>5. \A i \in 1..Len(x) : i <= Len(l) => x[i] = l[i]
  BY <1>1, <1>2, <1>4
<1>6. /\ Len(l) + 1 <= Len(x) => x[Len(l) + 1] = "CR"
      /\ Len(l) + 2 <= Len(x) => x[Len(l) + 2] = "LF"
  BY <1>1, <1>2, <1>4
<1>7. \A i \in 1..Len(rest) : Len(l) + 2 + i <= Len(x) => x[Len(l) + 2 + i] = rest[i]
  BY <1>1, <1>2, <1>4
<1>8. \A i \in 1..Len(w), j \in 1..Len(rest) :
        Len(x) + i = Len(l) + 2 + j => w[i] = rest[j]
  BY <1>1, <1>2, <1>4
<1> QED BY <1>2, <1>4, <1>5, <1>6, <1>7, <1>8 DEF Overlap

\* Three texts, end to end.
LEMMA JoinedTwice ==
  ASSUME NEW x \in Text, NEW y \in Text, NEW z \in Text
  PROVE  (x \o y) \o z = x \o (y \o z)
BY ConcatAssociative DEF Text

\* A piece of what is in the buffer: the symbols m + 1 to n.
IsPiece(p, x, m, n) ==
  /\ p \in Text
  /\ Len(p) = n - m
  /\ \A i \in 1..(n - m) : p[i] = x[m + i]

\* SubSeq makes one.
LEMMA Piece ==
  ASSUME NEW x \in Text, NEW m \in Nat, NEW n \in Nat, n <= Len(x), m <= n
  PROVE  IsPiece(SubSeq(x, m + 1, n), x, m, n)
<1> DEFINE p == SubSeq(x, m + 1, n)
<1>1. Len(x) \in Nat /\ x \in Seq(Symbols)
  BY LenProperties DEF Text
<1>2. \A i \in (m + 1)..n : x[i] \in Symbols
  BY <1>1, ElementOfSeq
<1>3. m + 1 \in Int /\ n \in Int
  OBVIOUS
<1>4. /\ p \in Seq(Symbols) /\ Len(p) = IF m + 1 <= n THEN n - (m + 1) + 1 ELSE 0
      /\ \A i \in 1..(n - (m + 1) + 1) : p[i] = x[m + 1 + i - 1]
  BY ONLY <1>2, <1>3, SubSeqProperties DEF p
<1> HIDE DEF p
<1>5. Len(p) = n - m /\ n - (m + 1) + 1 = n - m
  BY <1>4
<1>6. \A i \in 1..(n - m) : p[i] = x[m + i]
  <2> TAKE i \in 1..(n - m)
  <2>1. m + 1 + i - 1 = m + i
    OBVIOUS
  <2> QED BY <1>4, <1>5, <2>1
<1> QED BY <1>4, <1>5, <1>6 DEF p, Text, IsPiece

\* A line is taken off whole, and what is left of the buffer begins the rest.
TakenOff(r, w, l, rest) ==
  LET left == SubSeq(r.requestBuffer, FirstLF(r) + 1, Len(r.requestBuffer)) IN
  FirstLF(r) = Len(l) + 2 /\ Line(r) = l /\ left \in Text /\ left \o w = rest

\* It is taken off when its end has come.
LEMMA FirstLine ==
  ASSUME NEW r, r.requestBuffer \in Text, NEW w \in Text, NEW l, IsALine(l),
         NEW rest \in Text, r.requestBuffer \o w = l \o CRLF \o rest, FirstLF(r) # 0
  PROVE  TakenOff(r, w, l, rest)
<1> DEFINE x == r.requestBuffer
           n == FirstLF(r)
           left == SubSeq(x, n + 1, Len(x))
           taken == SubSeq(x, 1, n - 1)
<1>0. x \in Text /\ x \o w = l \o CRLF \o rest
  OBVIOUS
<1>1. Len(l) \in Nat /\ Len(rest) \in Nat /\ Len(x) \in Nat /\ Len(w) \in Nat /\ l \in Text
  BY LenProperties DEF Text, IsALine
<1>2. /\ n \in 1..Len(x) /\ x[n] = "LF" /\ \A i \in 1..(n - 1) : x[i] # "LF"
  BY FirstLFIs, <1>1
<1>3. /\ Len(x) + Len(w) = Len(l) + 2 + Len(rest)
      /\ \A i \in 1..Len(x) : i <= Len(l) => x[i] = l[i]
      /\ Len(l) + 1 <= Len(x) => x[Len(l) + 1] = "CR"
      /\ Len(l) + 2 <= Len(x) => x[Len(l) + 2] = "LF"
      /\ \A i \in 1..Len(rest) : Len(l) + 2 + i <= Len(x) => x[Len(l) + 2 + i] = rest[i]
      /\ \A i \in 1..Len(w), j \in 1..Len(rest) :
           Len(x) + i = Len(l) + 2 + j => w[i] = rest[j]
  <2>1. Overlap(x, w, l, rest)
    BY <1>0, BufferIs
  <2> QED BY <2>1 DEF Overlap
<1> HIDE DEF x, n
<1>4. n = Len(l) + 2
  <2>1. \A i \in 1..Len(l) : l[i] # "LF"
    BY DEF IsALine
  <2>2. ~(n <= Len(l)) /\ n # Len(l) + 1
    BY <1>1, <1>2, <1>3, <2>1
  <2>3. ~(n > Len(l) + 2)
    <3> SUFFICES ASSUME n > Len(l) + 2 PROVE FALSE
      OBVIOUS
    <3>1. Len(l) + 2 \in 1..(n - 1) /\ Len(l) + 2 <= Len(x)
      BY <1>1, <1>2
    <3> QED BY <1>2, <1>3, <3>1
  <2>4. n \in Nat
    BY <1>1, <1>2
  <2> QED BY <1>1, <2>2, <2>3, <2>4
<1>5. /\ taken \in Text /\ Len(taken) = Len(l) + 1
      /\ \A i \in 1..(Len(l) + 1) : taken[i] = x[i]
  <2>1. n - 1 \in Nat /\ n - 1 <= Len(x) /\ 0 <= n - 1 /\ 0 + 1 = 1
    BY <1>1, <1>2, <1>4
  <2>2. IsPiece(SubSeq(x, 0 + 1, n - 1), x, 0, n - 1)
    BY <1>0, <2>1, Piece
  <2>3. IsPiece(taken, x, 0, n - 1)
    BY <2>1, <2>2
  <2> HIDE DEF taken
  <2> QED BY <1>1, <1>4, <2>3 DEF IsPiece
<1>6. Line(r) = l
  <2>1. Line(r) = IF taken # <<>> /\ taken[Len(taken)] = "CR"
                    THEN SubSeq(taken, 1, Len(taken) - 1) ELSE taken
    BY DEF Line, Last, Front, taken, x, n
  <2> HIDE DEF taken
  <2>2. taken # <<>> /\ taken[Len(taken)] = "CR"
    <3>1. Len(taken) # 0
      BY <1>1, <1>5
    <3>2. Len(l) + 1 <= Len(x) /\ Len(l) + 1 \in 1..(Len(l) + 1)
      BY <1>1, <1>2, <1>4
    <3>3. taken[Len(l) + 1] = "CR"
      BY <1>3, <1>5, <3>2
    <3> QED BY <1>5, <3>1, <3>3
  <2> DEFINE front == SubSeq(taken, 1, Len(l))
  <2>3. /\ front \in Text /\ Len(front) = Len(l)
        /\ \A i \in 1..Len(l) : front[i] = taken[i]
    <3>1. Len(l) <= Len(taken) /\ 0 <= Len(l) /\ 0 + 1 = 1
      BY <1>1, <1>5
    <3>2. IsPiece(SubSeq(taken, 0 + 1, Len(l)), taken, 0, Len(l))
      BY <1>1, <1>5, <3>1, Piece
    <3>3. IsPiece(front, taken, 0, Len(l))
      BY <3>1, <3>2
    <3> HIDE DEF front
    <3> QED BY <1>1, <3>3 DEF IsPiece
  <2>4. \A i \in 1..Len(l) : front[i] = l[i]
    <3> HIDE DEF front
    <3> TAKE i \in 1..Len(l)
    <3>1. i \in 1..(Len(l) + 1) /\ i \in 1..Len(x) /\ i <= Len(l)
      BY <1>1, <1>2, <1>4
    <3> QED BY <1>3, <1>5, <2>3, <3>1
  <2>5. front = l
    <3> HIDE DEF front
    <3> QED BY <1>1, <2>3, <2>4, SeqEqual DEF Text
  <2>6. SubSeq(taken, 1, Len(taken) - 1) = front
    BY <1>1, <1>5
  <2> QED BY <2>1, <2>2, <2>5, <2>6
<1>7. /\ left \in Text /\ Len(left) = Len(x) - n
      /\ \A i \in 1..(Len(x) - n) : left[i] = x[n + i]
  <2>1. n \in Nat /\ Len(x) <= Len(x) /\ n <= Len(x)
    BY <1>1, <1>2, <1>4
  <2>2. IsPiece(left, x, n, Len(x))
    BY <1>0, <1>1, <2>1, Piece
  <2> HIDE DEF left
  <2> QED BY <2>2 DEF IsPiece
<1>8. left \o w = rest
  <2> HIDE DEF left
  <2> DEFINE t == left \o w
  <2>1. /\ t \in Text /\ Len(t) = Len(left) + Len(w) /\ Len(left) \in Nat
        /\ \A i \in 1..Len(left) : t[i] = left[i]
        /\ \A i \in 1..Len(w) : t[Len(left) + i] = w[i]
    BY <1>7, Joined
  <2> HIDE DEF t
  <2>2. Len(t) = Len(rest)
    BY <1>1, <1>3, <1>4, <1>7, <2>1
  <2>3. ASSUME NEW i \in 1..Len(t) PROVE t[i] = rest[i]
    <3>1. CASE i <= Len(left)
      <4>1. i \in 1..Len(left) /\ i \in 1..(Len(x) - n) /\ i \in 1..Len(rest)
            /\ Len(l) + 2 + i <= Len(x)
        BY <1>1, <1>4, <1>7, <2>1, <2>2, <2>3, <3>1
      <4>2. t[i] = x[Len(l) + 2 + i]
        BY <1>4, <1>7, <2>1, <4>1
      <4> QED BY <1>3, <4>1, <4>2
    <3>2. CASE i > Len(left)
      <4> DEFINE j == i - Len(left)
      <4>1. j \in 1..Len(w) /\ Len(left) + j = i /\ i \in 1..Len(rest)
            /\ Len(x) + j = Len(l) + 2 + i
        BY <1>1, <1>4, <1>7, <2>1, <2>2, <2>3, <3>2
      <4> HIDE DEF j
      <4>2. t[Len(left) + j] = w[j]
        BY <2>1, <4>1
      <4>3. w[j] = rest[i]
        BY <1>3, <4>1
      <4> QED BY <4>1, <4>2, <4>3
    <3> QED BY <1>1, <2>1, <2>3, <3>1, <3>2
  <2> QED BY <2>1, <2>2, <2>3, SeqEqual DEF Text, t
<1> QED BY <1>4, <1>6, <1>7, <1>8 DEF x, n, TakenOff

\* A line that has not come to its end.
LEMMA NoLineYet ==
  ASSUME NEW r, r.requestBuffer \in Text, NEW w \in Text, NEW l, IsALine(l),
         NEW rest \in Text, r.requestBuffer \o w = l \o CRLF \o rest, FirstLF(r) = 0
  PROVE  w # <<>>
<1> DEFINE x == r.requestBuffer
<1>1. Len(l) \in Nat /\ Len(rest) \in Nat /\ Len(x) \in Nat
  BY LenProperties DEF Text, IsALine
<1>2. \A i \in 1..Len(x) : x[i] # "LF"
  BY FirstLFIs
<1>3. /\ Len(x) + Len(w) = Len(l) + 2 + Len(rest)
      /\ Len(l) + 2 <= Len(x) => x[Len(l) + 2] = "LF"
  <2>1. x \in Text /\ x \o w = l \o CRLF \o rest
    OBVIOUS
  <2>2. Overlap(x, w, l, rest)
    BY <2>1, BufferIs
  <2> QED BY <2>2 DEF Overlap
<1> HIDE DEF x
<1>4. ~(Len(l) + 2 <= Len(x))
  <2> SUFFICES ASSUME Len(l) + 2 <= Len(x) PROVE FALSE
    OBVIOUS
  <2>1. Len(l) + 2 \in 1..Len(x)
    BY <1>1
  <2> QED BY <1>2, <1>3, <2>1
<1>5. Len(w) # 0
  <2> SUFFICES ASSUME Len(w) = 0 PROVE FALSE
    OBVIOUS
  <2> QED BY <1>1, <1>3, <1>4
<1> QED BY <1>5

----------------------------------------------------------------------------
(* Sequences of sequences, end to end.                                     *)

\* One after the other.
Cat(x, y) == x \o y

\* It is a sequence of the same set.
LEMMA CatIn ==
  ASSUME NEW S, NEW x \in Seq(S), NEW y \in Seq(S)
  PROVE  Cat(x, y) \in Seq(S)
BY ConcatProperties DEF Cat

\* Nothing is added by the empty sequence.
LEMMA CatEmpty ==
  ASSUME NEW S, NEW x \in Seq(S)
  PROVE  Cat(x, <<>>) = x /\ Cat(<<>>, x) = x
BY ConcatEmptySeq DEF Cat

\* The order of the joining does not matter.
LEMMA CatAssoc ==
  ASSUME NEW S, NEW x \in Seq(S), NEW y \in Seq(S), NEW z \in Seq(S)
  PROVE  Cat(Cat(x, y), z) = Cat(x, Cat(y, z))
BY ConcatAssociative DEF Cat

\* What is behind the same beginning is the same.
LEMMA CatCancel ==
  ASSUME NEW S, NEW x \in Seq(S), NEW y \in Seq(S), NEW z \in Seq(S),
         Cat(x, y) = Cat(x, z)
  PROVE  y = z
<1>1. x \o y = x \o z
  BY DEF Cat
<1>2. \A t, u, v \in Seq(S) : t \o u = t \o v => u = v
  BY ConcatSimplifications, Zenon
<1> QED BY <1>1, <1>2

\* f and g are what comes before and what comes after the first k of the sequences.
Flattening(S, s, f, g) ==
  /\ f \in [0..Len(s) -> Seq(S)] /\ f[0] = <<>> /\ f[Len(s)] = FlattenSeq(s)
  /\ g \in [0..Len(s) -> Seq(S)] /\ g[0] = FlattenSeq(s) /\ g[Len(s)] = <<>>
  /\ \A k \in 0..Len(s) : Cat(f[k], g[k]) = FlattenSeq(s)
  /\ \A k \in 0..(Len(s) - 1) : f[k + 1] = Cat(f[k], s[k + 1]) /\ g[k] = Cat(s[k + 1], g[k + 1])

\* FlattenSeq adds one sequence after the other.
LEMMA FlattenIs ==
  ASSUME NEW S, NEW s \in Seq(Seq(S))
  PROVE  \E f : /\ f \in [0..Len(s) -> Seq(S)] /\ f[0] = <<>> /\ f[Len(s)] = FlattenSeq(s)
                /\ \A k \in 0..(Len(s) - 1) : f[k + 1] = Cat(f[k], s[k + 1])
<1> DEFINE Is(f, n) == f = [i \in 1..n |-> IF i = 1 THEN s[i] ELSE Cat(f[i - 1], s[i])]
           N == {n \in Nat : \E f : Is(f, n)}
<1>0. Len(s) \in Nat /\ \A i \in 1..Len(s) : s[i] \in Seq(S)
  BY LenProperties, ElementOfSeq
<1>1. 0 \in N
  <2>1. Is([i \in 1..0 |-> s[i]], 0)
    OBVIOUS
  <2> QED BY <2>1
<1>2. ASSUME NEW n \in Nat, n \in N PROVE n + 1 \in N
  <2>1. PICK g : Is(g, n)
    BY <1>2
  <2> DEFINE f == [i \in 1..(n + 1) |->
                     IF i <= n THEN g[i] ELSE IF i = 1 THEN s[i] ELSE Cat(g[n], s[n + 1])]
  <2>2. ASSUME NEW i \in 1..(n + 1)
        PROVE  f[i] = IF i = 1 THEN s[i] ELSE Cat(f[i - 1], s[i])
    <3>1. CASE i = 1
      <4>1. n >= 1 => g[i] = s[i]
        BY <2>1, <3>1
      <4> QED BY <3>1, <4>1
    <3>2. CASE i \in 2..n
      <4>1. f[i] = g[i] /\ f[i - 1] = g[i - 1]
        BY <3>2
      <4>2. g[i] = Cat(g[i - 1], s[i])
        BY <2>1, <3>2
      <4> QED BY <3>2, <4>1, <4>2
    <3>3. CASE i = n + 1 /\ i # 1
      <4>1. f[i] = Cat(g[n], s[i]) /\ f[i - 1] = g[n]
        BY <3>3
      <4> QED BY <3>3, <4>1
    <3> QED BY <3>1, <3>2, <3>3
  <2>3. Is(f, n + 1)
    <3> HIDE DEF f
    <3>1. f = [i \in 1..(n + 1) |-> f[i]]
      BY DEF f
    <3> QED BY <2>2, <3>1
  <2> HIDE DEF f, Is
  <2>4. \E h : Is(h, n + 1)
    BY <2>3
  <2> QED BY <2>4
<1>3. \E h : Is(h, Len(s))
  <2>1. \A n \in Nat : n \in N
    <3> HIDE DEF N
    <3> QED BY ONLY <1>1, <1>2, AllNaturals
  <2> QED BY <1>0, <2>1
<1> DEFINE fl == CHOOSE h : Is(h, Len(s))
<1>4. Is(fl, Len(s))
  <2> HIDE DEF Is
  <2> QED BY <1>3
<1>5. FlattenSeq(s) = IF Len(s) = 0 THEN s ELSE fl[Len(s)]
  BY DEF FlattenSeq, Cat
<1> HIDE DEF fl
<1> DEFINE f == [k \in 0..Len(s) |-> IF k = 0 THEN <<>> ELSE fl[k]]
<1>6. \A k \in 0..(Len(s) - 1) : f[k + 1] = Cat(f[k], s[k + 1])
  <2> TAKE k \in 0..(Len(s) - 1)
  <2>1. s[k + 1] \in Seq(S) /\ k \in 0..Len(s) /\ k + 1 \in 0..Len(s) /\ k + 1 # 0
    BY <1>0
  <2>2. CASE k = 0
    <3>1. f[k] = <<>> /\ f[k + 1] = s[k + 1]
      BY <1>0, <1>4, <2>1, <2>2
    <3> HIDE DEF f
    <3>2. Cat(<<>>, s[k + 1]) = s[k + 1]
      BY ONLY <2>1, CatEmpty
    <3> QED BY <3>1, <3>2
  <2>3. CASE k # 0
    <3>1. f[k] = fl[k] /\ f[k + 1] = fl[k + 1]
      BY <2>1, <2>3
    <3>2. fl[k + 1] = Cat(fl[k], s[k + 1])
      BY <1>0, <1>4, <2>1, <2>3
    <3> HIDE DEF f
    <3> QED BY <3>1, <3>2
  <2> QED BY <2>2, <2>3
<1>7. f[0] = <<>> /\ f[Len(s)] = FlattenSeq(s) /\ f = [k \in 0..Len(s) |-> f[k]]
  BY <1>0, <1>5
<1> HIDE DEF f
<1>8. \A n \in Nat : n \in {k \in Nat : k <= Len(s) => f[k] \in Seq(S)}
  <2> DEFINE T == {k \in Nat : k <= Len(s) => f[k] \in Seq(S)}
  <2>1. 0 \in T
    BY <1>7, EmptySeq
  <2>2. ASSUME NEW n \in Nat, n \in T PROVE n + 1 \in T
    <3> SUFFICES ASSUME n + 1 <= Len(s) PROVE f[n + 1] \in Seq(S)
      OBVIOUS
    <3>1. f[n] \in Seq(S) /\ s[n + 1] \in Seq(S) /\ f[n + 1] = Cat(f[n], s[n + 1])
      BY <1>0, <1>6, <2>2
    <3> QED BY <3>1, CatIn
  <2> HIDE DEF T
  <2>3. \A n \in Nat : n \in T
    BY ONLY <2>1, <2>2, AllNaturals
  <2> QED BY <2>3 DEF T
<1>9. f \in [0..Len(s) -> Seq(S)]
  BY <1>0, <1>7, <1>8
<1> QED BY <1>6, <1>7, <1>9

\* For every sequence of sequences there are such f and g.
LEMMA Flattened ==
  ASSUME NEW S, NEW s \in Seq(Seq(S))
  PROVE  \E f, g : Flattening(S, s, f, g)
<1>1. PICK f : /\ f \in [0..Len(s) -> Seq(S)] /\ f[0] = <<>> /\ f[Len(s)] = FlattenSeq(s)
               /\ \A k \in 0..(Len(s) - 1) : f[k + 1] = Cat(f[k], s[k + 1])
  BY FlattenIs
<1>2. Len(s) \in Nat /\ \A i \in 1..Len(s) : s[i] \in Seq(S)
  BY LenProperties, ElementOfSeq
<1> DEFINE Whole == FlattenSeq(s)
           T == {j \in Nat : j <= Len(s) =>
                   \E t \in Seq(S) : Cat(f[Len(s) - j], t) = Whole}
<1>3. Whole \in Seq(S)
  <2>1. Len(s) \in 0..Len(s)
    BY <1>2
  <2>2. f[Len(s)] \in Seq(S)
    BY <1>1, <2>1
  <2> QED BY <1>1, <2>2
<1> HIDE DEF Whole
<1>4. 0 \in T
  <2>1. Cat(f[Len(s)], <<>>) = Whole
    BY <1>1, <1>3, CatEmpty DEF Whole
  <2>2. <<>> \in Seq(S) /\ Len(s) - 0 = Len(s)
    BY <1>2, EmptySeq
  <2>3. \E t \in Seq(S) : Cat(f[Len(s) - 0], t) = Whole
    BY <2>1, <2>2
  <2> QED BY <2>3
<1>5. ASSUME NEW j \in Nat, j \in T PROVE j + 1 \in T
  <2> SUFFICES ASSUME j + 1 <= Len(s)
               PROVE  \E t \in Seq(S) : Cat(f[Len(s) - (j + 1)], t) = Whole
    OBVIOUS
  <2>1. PICK t \in Seq(S) : Cat(f[Len(s) - j], t) = Whole
    BY <1>2, <1>5
  <2> DEFINE k == Len(s) - (j + 1)
  <2>2. k \in 0..(Len(s) - 1) /\ k + 1 = Len(s) - j
    BY <1>2
  <2> HIDE DEF k
  <2>a. k \in 0..Len(s) /\ k + 1 \in 1..Len(s)
    BY <1>2, <2>2
  <2>b. f[k] \in Seq(S)
    BY <1>1, <2>a
  <2>3. f[k] \in Seq(S) /\ s[k + 1] \in Seq(S) /\ f[k + 1] = Cat(f[k], s[k + 1])
    BY <1>1, <1>2, <2>a, <2>b, <2>2
  <2>4. Cat(Cat(f[k], s[k + 1]), t) = Cat(f[k], Cat(s[k + 1], t))
    BY <2>3, CatAssoc
  <2>5. Cat(s[k + 1], t) \in Seq(S)
    BY <2>3, CatIn
  <2> QED BY <2>1, <2>2, <2>3, <2>4, <2>5 DEF k
<1>6. \A k \in 0..Len(s) : \E t \in Seq(S) : Cat(f[k], t) = Whole
  <2> TAKE k \in 0..Len(s)
  <2>1. Len(s) - k \in Nat /\ Len(s) - k <= Len(s) /\ Len(s) - (Len(s) - k) = k
    BY <1>2
  <2>2. \A j \in Nat : j \in T
    <3> HIDE DEF T
    <3> QED BY ONLY <1>4, <1>5, AllNaturals
  <2>3. Len(s) - k \in T
    <3> HIDE DEF T
    <3> QED BY <2>1, <2>2
  <2> QED BY <2>1, <2>3
<1> DEFINE g == [k \in 0..Len(s) |-> CHOOSE t \in Seq(S) : Cat(f[k], t) = Whole]
<1>7. \A k \in 0..Len(s) : g[k] \in Seq(S) /\ Cat(f[k], g[k]) = Whole
  BY <1>6
<1>8. g \in [0..Len(s) -> Seq(S)]
  BY <1>7
<1> HIDE DEF g
<1>9. \A t, u \in Seq(S), k \in 0..Len(s) : Cat(f[k], t) = Cat(f[k], u) => t = u
  BY <1>1, CatCancel
<1>10. g[0] = Whole
  <2>1. Cat(<<>>, Whole) = Whole
    BY <1>3, CatEmpty
  <2> QED BY <1>1, <1>2, <1>3, <1>7, <1>9, <2>1
<1>11. g[Len(s)] = <<>>
  <2>1. Cat(Whole, <<>>) = Whole /\ <<>> \in Seq(S)
    BY <1>3, CatEmpty, EmptySeq
  <2> QED BY SMTT(40), <1>1, <1>2, <1>7, <1>9, <2>1 DEF Whole
<1>12. \A k \in 0..(Len(s) - 1) : g[k] = Cat(s[k + 1], g[k + 1])
  <2> TAKE k \in 0..(Len(s) - 1)
  <2>1. k \in 0..Len(s) /\ k + 1 \in 0..Len(s) /\ k + 1 \in 1..Len(s)
    BY <1>2
  <2>2. f[k] \in Seq(S) /\ s[k + 1] \in Seq(S) /\ f[k + 1] = Cat(f[k], s[k + 1])
        /\ g[k + 1] \in Seq(S) /\ g[k] \in Seq(S)
    BY <1>1, <1>2, <1>7, <2>1
  <2>3. Cat(Cat(f[k], s[k + 1]), g[k + 1]) = Cat(f[k], Cat(s[k + 1], g[k + 1]))
    BY <2>2, CatAssoc
  <2>4. Cat(s[k + 1], g[k + 1]) \in Seq(S)
    BY <2>2, CatIn
  <2> QED BY <1>7, <1>9, <2>1, <2>2, <2>3, <2>4
<1>13. Flattening(S, s, f, g)
  BY <1>1, <1>7, <1>8, <1>10, <1>11, <1>12 DEF Whole, Flattening
<1> QED BY <1>13

----------------------------------------------------------------------------
(* The loops of the parser, turn by turn.                                  *)

\* What the loop over the lines leaves after each turn.
LEMMA RepeatedLine ==
  ASSUME NEW r, Len(r.requestBuffer) \in Nat
  PROVE  \E f : /\ f[0] = r /\ f[Len(r.requestBuffer) + 1] = Repeat(ParseLine, r)
                /\ \A i \in 0..Len(r.requestBuffer) : f[i + 1] = ParseLine(f[i])
<1> DEFINE last == Len(r.requestBuffer) + 1
           Is(f, n) == f = [i \in 0..n |-> IF i = 0 THEN r ELSE ParseLine(f[i - 1])]
           N == {n \in Nat : \E f : Is(f, n)}
<1>1. 0 \in N
  <2>1. Is([i \in 0..0 |-> r], 0)
    OBVIOUS
  <2> QED BY <2>1
<1>2. ASSUME NEW n \in Nat, n \in N PROVE n + 1 \in N
  <2>1. PICK g : Is(g, n)
    BY <1>2
  <2> DEFINE f == [i \in 0..(n + 1) |-> IF i <= n THEN g[i] ELSE ParseLine(g[n])]
  <2>2. ASSUME NEW i \in 0..(n + 1)
        PROVE  f[i] = IF i = 0 THEN r ELSE ParseLine(f[i - 1])
    <3>1. CASE i = 0
      BY <2>1, <3>1
    <3>2. CASE i \in 1..n
      <4>1. f[i] = g[i] /\ f[i - 1] = g[i - 1]
        BY <3>2
      <4>2. g[i] = ParseLine(g[i - 1])
        BY <2>1, <3>2
      <4> QED BY <3>2, <4>1, <4>2
    <3>3. CASE i = n + 1
      <4>1. f[i] = ParseLine(g[n]) /\ f[i - 1] = g[n]
        BY <3>3
      <4> QED BY <3>3, <4>1
    <3> QED BY <3>1, <3>2, <3>3
  <2>3. Is(f, n + 1)
    <3> HIDE DEF f
    <3>1. f = [i \in 0..(n + 1) |-> f[i]]
      BY DEF f
    <3> QED BY <2>2, <3>1
  <2> HIDE DEF f, Is
  <2>4. \E h : Is(h, n + 1)
    BY <2>3
  <2> QED BY <2>4
<1>3. \E h : Is(h, last)
  <2>1. \A n \in Nat : n \in N
    <3> HIDE DEF N
    <3> QED BY ONLY <1>1, <1>2, AllNaturals
  <2> QED BY <2>1
<1> DEFINE after == CHOOSE h : Is(h, last)
<1>4. Is(after, last)
  <2> HIDE DEF Is
  <2> QED BY <1>3
<1>5. Repeat(ParseLine, r) = after[last]
  BY DEF Repeat
<1> HIDE DEF after
<1>6. after[0] = r /\ \A i \in 0..Len(r.requestBuffer) : after[i + 1] = ParseLine(after[i])
  BY <1>4
<1> QED BY <1>5, <1>6

\* What the loop over the chunks leaves after each turn.
LEMMA RepeatedChunk ==
  ASSUME NEW r, Len(r.requestBuffer) \in Nat
  PROVE  \E f : /\ f[0] = r /\ f[Len(r.requestBuffer) + 1] = Repeat(ParseChunk, r)
                /\ \A i \in 0..Len(r.requestBuffer) : f[i + 1] = ParseChunk(f[i])
<1> DEFINE last == Len(r.requestBuffer) + 1
           Is(f, n) == f = [i \in 0..n |-> IF i = 0 THEN r ELSE ParseChunk(f[i - 1])]
           N == {n \in Nat : \E f : Is(f, n)}
<1>1. 0 \in N
  <2>1. Is([i \in 0..0 |-> r], 0)
    OBVIOUS
  <2> QED BY <2>1
<1>2. ASSUME NEW n \in Nat, n \in N PROVE n + 1 \in N
  <2>1. PICK g : Is(g, n)
    BY <1>2
  <2> DEFINE f == [i \in 0..(n + 1) |-> IF i <= n THEN g[i] ELSE ParseChunk(g[n])]
  <2>2. ASSUME NEW i \in 0..(n + 1)
        PROVE  f[i] = IF i = 0 THEN r ELSE ParseChunk(f[i - 1])
    <3>1. CASE i = 0
      BY <2>1, <3>1
    <3>2. CASE i \in 1..n
      <4>1. f[i] = g[i] /\ f[i - 1] = g[i - 1]
        BY <3>2
      <4>2. g[i] = ParseChunk(g[i - 1])
        BY <2>1, <3>2
      <4> QED BY <3>2, <4>1, <4>2
    <3>3. CASE i = n + 1
      <4>1. f[i] = ParseChunk(g[n]) /\ f[i - 1] = g[n]
        BY <3>3
      <4> QED BY <3>3, <4>1
    <3> QED BY <3>1, <3>2, <3>3
  <2>3. Is(f, n + 1)
    <3> HIDE DEF f
    <3>1. f = [i \in 0..(n + 1) |-> f[i]]
      BY DEF f
    <3> QED BY <2>2, <3>1
  <2> HIDE DEF f, Is
  <2>4. \E h : Is(h, n + 1)
    BY <2>3
  <2> QED BY <2>4
<1>3. \E h : Is(h, last)
  <2>1. \A n \in Nat : n \in N
    <3> HIDE DEF N
    <3> QED BY ONLY <1>1, <1>2, AllNaturals
  <2> QED BY <2>1
<1> DEFINE after == CHOOSE h : Is(h, last)
<1>4. Is(after, last)
  <2> HIDE DEF Is
  <2> QED BY <1>3
<1>5. Repeat(ParseChunk, r) = after[last]
  BY DEF Repeat
<1> HIDE DEF after
<1>6. after[0] = r /\ \A i \in 0..Len(r.requestBuffer) : after[i + 1] = ParseChunk(after[i])
  BY <1>4
<1> QED BY <1>5, <1>6

----------------------------------------------------------------------------
(* The members keep their types.                                           *)

MemberFunctions == {"_setMethod", "_setHeader", "_setBody"}
Words == Symbols \cup {""}
Codes == {200, 413, 505}

Requests ==
  [currentFunction : MemberFunctions, requestBuffer : Text,
   method : Words, rawPath : Words, version : Words,
   headers : SUBSET Text, contentLength : Nat, bodyBytesReceived : Nat,
   chunkSizeRemaining : Nat, body : Text, isComplete : BOOLEAN, errorCode : Codes]

\* The names of the member functions.
LEMMA TheFunctions ==
  /\ "_setMethod" \in MemberFunctions /\ "_setHeader" \in MemberFunctions
  /\ "_setBody" \in MemberFunctions
BY DEF MemberFunctions

\* The codes of the parser.
LEMMA TheCodes == 200 \in Codes /\ 413 \in Codes /\ 505 \in Codes
BY DEF Codes

\* What the members for words hold.
LEMMA TheWords == "" \in Words /\ \A w \in Symbols : w \in Words
BY DEF Words

\* No symbol.
LEMMA EmptyText == <<>> \in Text /\ Len(<<>>) = 0
BY EmptySeq DEF Text

\* A text without symbols is the empty one.
LEMMA TextLength ==
  ASSUME NEW x \in Text
  PROVE  Len(x) \in Nat /\ (x = <<>> <=> Len(x) = 0)
<1>1. Len(x) \in Nat
  BY LenProperties DEF Text
<1>2. Len(x) = 0 => x = <<>>
  BY SeqEqual, EmptyText DEF Text
<1> QED BY <1>1, <1>2, EmptyText

\* The constructor sets every member.
LEMMA NewRequestTyped == NewRequest \in Requests
BY EmptyText, TheFunctions, TheCodes, TheWords DEF NewRequest, Requests

\* What is erased is gone from the buffer and from nothing else.
LEMMA EraseTyped ==
  ASSUME NEW r \in Requests, NEW n \in 0..Len(r.requestBuffer)
  PROVE  /\ Erase(r, n) \in Requests
         /\ Len(Erase(r, n).requestBuffer) = Len(r.requestBuffer) - n
         /\ Erase(r, n) = [r EXCEPT !.requestBuffer =
                             SubSeq(r.requestBuffer, n + 1, Len(r.requestBuffer))]
<1> DEFINE x == r.requestBuffer
           p == SubSeq(x, n + 1, Len(x))
<1>1. x \in Text
  BY DEF Requests
<1>2. Len(x) \in Nat
  BY <1>1, TextLength
<1>3. IsPiece(p, x, n, Len(x))
  BY <1>1, <1>2, Piece
<1>4. p \in Text /\ Len(p) = Len(x) - n
  BY <1>3 DEF IsPiece
<1>5. Erase(r, n) = [r EXCEPT !.requestBuffer = p]
  BY DEF Erase
<1> HIDE DEF p, x
<1> QED BY <1>4, <1>5 DEF p, x, Requests

\* A line is text.
LEMMA LineTyped ==
  ASSUME NEW r \in Requests, FirstLF(r) # 0
  PROVE  Line(r) \in Text
<1> DEFINE x == r.requestBuffer
           n == FirstLF(r)
           l == SubSeq(x, 1, n - 1)
<1>1. x \in Text
  BY DEF Requests
<1>2. Len(x) \in Nat /\ n \in 1..Len(x)
  BY <1>1, TextLength, FirstLFIs
<1>3. l \in Text /\ Len(l) = n - 1
  <2>1. n - 1 \in Nat /\ n - 1 <= Len(x) /\ 0 <= n - 1 /\ 0 + 1 = 1 /\ n - 1 - 0 = n - 1
    BY <1>2
  <2>2. IsPiece(SubSeq(x, 0 + 1, n - 1), x, 0, n - 1)
    BY <1>1, <2>1, Piece
  <2>3. IsPiece(l, x, 0, n - 1)
    BY <2>1, <2>2
  <2> HIDE DEF l
  <2> QED BY <2>1, <2>3 DEF IsPiece
<1>4. Line(r) = IF l # <<>> /\ Last(l) = "CR" THEN Front(l) ELSE l
  BY DEF Line
<1> HIDE DEF l
<1>5. l # <<>> => Front(l) \in Text
  <2> SUFFICES ASSUME l # <<>> PROVE Front(l) \in Text
    OBVIOUS
  <2>1. Len(l) \in Nat /\ Len(l) # 0
    BY <1>3, TextLength
  <2>2. Len(l) - 1 \in Nat /\ Len(l) - 1 <= Len(l) /\ 0 <= Len(l) - 1 /\ 0 + 1 = 1
    BY <2>1
  <2>3. IsPiece(SubSeq(l, 0 + 1, Len(l) - 1), l, 0, Len(l) - 1)
    BY <1>3, <2>2, Piece
  <2>4. Front(l) = SubSeq(l, 0 + 1, Len(l) - 1)
    BY <2>2 DEF Front
  <2> QED BY <2>3, <2>4 DEF IsPiece
<1> QED BY <1>3, <1>4, <1>5

\* The length that is found is a number.
LEMMA HeaderLengthTyped ==
  ASSUME NEW r
  PROVE  HeaderLength(r) \in Nat
<1> DEFINE V == {v \in DOMAIN Digit : <<"Content-Length:", v>> \in r.headers}
<1>1. HeaderLength(r) = IF V = {} THEN 0 ELSE Digit[CHOOSE v \in V : TRUE]
  BY DEF HeaderLength
<1>2. V # {} => (CHOOSE v \in V : TRUE) \in DOMAIN Digit
  OBVIOUS
<1> HIDE DEF V
<1> QED BY <1>1, <1>2, DigitAssumption

\* The members that read a line keep their types (_setMethod, _setHeader).
LEMMA TurnTyped ==
  ASSUME NEW r \in Requests, FirstLF(r) # 0
  PROVE  LET t == IF r.currentFunction = "_setMethod" THEN _setMethod(r, Line(r))
                                                      ELSE _setHeader(r, Line(r))
         IN  t \in Requests /\ t.requestBuffer = r.requestBuffer
<1>0. PICK line \in Text : line = Line(r)
  BY LineTyped
<1>3. _setMethod(r, line) \in Requests /\ _setMethod(r, line).requestBuffer = r.requestBuffer
  <2>0. r.method \in Words /\ r.rawPath \in Words /\ r.version \in Words
    BY DEF Requests
  <2>1. PICK m \in Words : m = Word(line, 1, r.method)
    BY <2>0, WordTyped, TheWords
  <2>2. PICK p \in Words : p = Word(line, 2, r.rawPath)
    BY <2>0, WordTyped, TheWords
  <2>3. PICK v \in Words : v = Word(line, 3, r.version)
    BY <2>0, WordTyped, TheWords
  <2> DEFINE s == [r EXCEPT !.method = m, !.rawPath = p, !.version = v]
  <2>4. s \in Requests /\ s.requestBuffer = r.requestBuffer
    BY DEF Requests
  <2>5. _setMethod(r, line) = IF s.version # "HTTP/1.1" THEN [s EXCEPT !.errorCode = 505]
                              ELSE [s EXCEPT !.currentFunction = "_setHeader"]
    BY <2>1, <2>2, <2>3 DEF _setMethod
  <2> HIDE DEF s
  <2>6. /\ [s EXCEPT !.errorCode = 505] \in Requests
        /\ [s EXCEPT !.errorCode = 505].requestBuffer = r.requestBuffer
    BY <2>4, TheCodes DEF Requests
  <2>7. /\ [s EXCEPT !.currentFunction = "_setHeader"] \in Requests
        /\ [s EXCEPT !.currentFunction = "_setHeader"].requestBuffer = r.requestBuffer
    BY <2>4, TheFunctions DEF Requests
  <2> QED BY <2>5, <2>6, <2>7
<1>4. _setHeader(r, line) \in Requests /\ _setHeader(r, line).requestBuffer = r.requestBuffer
  <2>1. PICK n \in Nat : n = HeaderLength(r)
    BY HeaderLengthTyped
  <2> DEFINE t1 == [r EXCEPT !.headers = @ \cup {line}]
             t2 == [r EXCEPT !.contentLength = n, !.isComplete = FALSE, !.errorCode = 413]
             t3 == [r EXCEPT !.contentLength = n, !.isComplete = (n = 0) \/ @,
                             !.currentFunction = "_setBody"]
  <2>2. _setHeader(r, line) = IF line \notin {<<>>, <<"CR">>} THEN t1
                              ELSE IF TooLarge(n) THEN t2 ELSE t3
    BY <2>1 DEF _setHeader
  <2>3. t1 \in Requests /\ t1.requestBuffer = r.requestBuffer
    BY DEF Requests
  <2>4. t2 \in Requests /\ t2.requestBuffer = r.requestBuffer
    <3>1. PICK c \in BOOLEAN, e \in Codes : c = FALSE /\ e = 413
      BY TheCodes
    <3>2. t2 = [r EXCEPT !.contentLength = n, !.isComplete = c, !.errorCode = e]
      BY <3>1
    <3> HIDE DEF t2
    <3> QED BY <3>2 DEF Requests
  <2>5. t3 \in Requests /\ t3.requestBuffer = r.requestBuffer
    <3>1. PICK c \in BOOLEAN : c = ((n = 0) \/ r.isComplete)
      BY DEF Requests
    <3>2. t3 = [r EXCEPT !.contentLength = n, !.isComplete = c,
                         !.currentFunction = "_setBody"]
      BY <3>1
    <3> HIDE DEF t3
    <3> QED BY <3>2, TheFunctions DEF Requests
  <2> HIDE DEF t1, t2, t3
  <2> QED BY <2>2, <2>3, <2>4, <2>5
<1> QED BY <1>0, <1>3, <1>4

\* There is nothing to do for the loop over the lines.
LinesDone(r) == FirstLF(r) = 0 \/ isError(r) \/ r.currentFunction = "_setBody"

\* A turn that does something takes some of the buffer (parseRequest).
LEMMA ParseLineTyped ==
  ASSUME NEW r \in Requests
  PROVE  /\ ParseLine(r) \in Requests
         /\ LinesDone(r) => ParseLine(r) = r
         /\ ~LinesDone(r) => Len(ParseLine(r).requestBuffer) < Len(r.requestBuffer)
<1>1. CASE LinesDone(r)
  BY <1>1 DEF ParseLine, LinesDone
<1>2. CASE ~LinesDone(r)
  <2> DEFINE t == IF r.currentFunction = "_setMethod" THEN _setMethod(r, Line(r))
                                                      ELSE _setHeader(r, Line(r))
  <2>1. ParseLine(r) = Erase(t, FirstLF(r))
    BY <1>2 DEF ParseLine, LinesDone
  <2>2. r.requestBuffer \in Text
    BY DEF Requests
  <2>3. Len(r.requestBuffer) \in Nat /\ FirstLF(r) \in 1..Len(r.requestBuffer)
    BY <1>2, <2>2, TextLength, FirstLFIs DEF LinesDone
  <2>5. t \in Requests /\ t.requestBuffer = r.requestBuffer
    BY <1>2, TurnTyped DEF LinesDone
  <2> HIDE DEF t
  <2>6. FirstLF(r) \in 0..Len(t.requestBuffer)
    BY <2>3, <2>5
  <2>7. Erase(t, FirstLF(r)) \in Requests
        /\ Len(Erase(t, FirstLF(r)).requestBuffer) = Len(r.requestBuffer) - FirstLF(r)
    BY <2>5, <2>6, EraseTyped
  <2> QED BY <1>2, <2>1, <2>3, <2>7
<1> QED BY <1>1, <1>2

\* The loop over the lines leaves a set that its turns do not leave, and ends when there
\* is nothing left to do (parseRequest).
LEMMA LinesAreRead ==
  ASSUME NEW S \in SUBSET Requests, \A t \in S : ParseLine(t) \in S, NEW r \in S
  PROVE  Repeat(ParseLine, r) \in S /\ LinesDone(Repeat(ParseLine, r))
<1> DEFINE n == Len(r.requestBuffer)
<1>1. n \in Nat
  BY TextLength DEF Requests
<1>2. PICK f : /\ f[0] = r /\ f[n + 1] = Repeat(ParseLine, r)
               /\ \A i \in 0..n : f[i + 1] = ParseLine(f[i])
  BY <1>1, RepeatedLine
<1> HIDE DEF n
<1> DEFINE Goes(i) == f[i] \in S /\ (LinesDone(f[i]) \/ Len(f[i].requestBuffer) <= n - i)
           N == {i \in Nat : i <= n + 1 => Goes(i)}
<1>3. 0 \in N
  <2>1. n - 0 = n /\ n <= n
    BY <1>1
  <2> QED BY <1>2, <2>1 DEF n
<1>4. ASSUME NEW i \in Nat, i \in N PROVE i + 1 \in N
  <2> SUFFICES ASSUME i + 1 <= n + 1 PROVE Goes(i + 1)
    OBVIOUS
  <2>1. PICK t \in S : t = f[i] /\ (LinesDone(t) \/ Len(t.requestBuffer) <= n - i)
    BY <1>1, <1>4
  <2>2. f[i + 1] = ParseLine(t)
    BY <1>1, <1>2, <2>1
  <2>3. ParseLine(t) \in S /\ t \in Requests
    OBVIOUS
  <2>4. LinesDone(ParseLine(t)) \/ Len(ParseLine(t).requestBuffer) <= n - (i + 1)
    <3>1. CASE LinesDone(t)
      BY <2>3, <3>1, ParseLineTyped
    <3>2. CASE ~LinesDone(t)
      <4>1. Len(ParseLine(t).requestBuffer) < Len(t.requestBuffer) /\ ParseLine(t) \in Requests
        BY <2>3, <3>2, ParseLineTyped
      <4>2. Len(ParseLine(t).requestBuffer) \in Nat /\ Len(t.requestBuffer) \in Nat
        BY <2>3, <4>1, TextLength DEF Requests
      <4> QED BY <1>1, <2>1, <3>2, <4>1, <4>2
    <3> QED BY <3>1, <3>2
  <2> QED BY <2>2, <2>3, <2>4
<1>5. \A i \in Nat : i \in N
  <2> HIDE DEF N
  <2> QED BY ONLY <1>3, <1>4, AllNaturals
<1>6. Goes(n + 1)
  BY <1>1, <1>5
<1>7. PICK u \in S : u = Repeat(ParseLine, r)
                     /\ (LinesDone(u) \/ Len(u.requestBuffer) <= n - (n + 1))
  BY <1>2, <1>6
<1>8. Len(u.requestBuffer) \in Nat
  BY TextLength DEF Requests
<1> QED BY <1>1, <1>7, <1>8

----------------------------------------------------------------------------
(* A message, line by line.                                                *)

StartLine(m) == <<m.method, m.path, m.version>>
LengthLine(m) == <<"Content-Length:", m.length>>
ChunkedLine == <<"Transfer-Encoding:", "chunked">>

LengthHeader(m) == IF m.length = "" THEN {} ELSE {LengthLine(m)}
HeadersOf(m) == LengthHeader(m) \cup (IF m.chunked THEN {ChunkedLine} ELSE {})
Announced(m) == IF m.length = "" THEN 0 ELSE Digit[m.length]

\* What follows the start line, the line with the length, and the other header.
FromEnd(m) == <<>> \o CRLF \o Payload(m)
FromChunked(m) == IF m.chunked THEN ChunkedLine \o CRLF \o FromEnd(m) ELSE FromEnd(m)
FromLength(m) == IF m.length = "" THEN FromChunked(m) ELSE LengthLine(m) \o CRLF \o FromChunked(m)

\* The lines of a message hold no end of a line.
LEMMA LinesOf ==
  ASSUME NEW m \in Messages
  PROVE  /\ IsALine(StartLine(m)) /\ IsALine(ChunkedLine) /\ IsALine(<<>>)
         /\ m.length # "" => IsALine(LengthLine(m))
<1>1. m.path \in STRING \ {"CR", "LF"} /\ m.version \in STRING \ {"CR", "LF"}
      /\ m.method \in STRING \ {"CR", "LF"} /\ m.length \in {""} \cup DOMAIN Digit
  BY MessagesAssumption
<1>2. m.path \in Symbols /\ m.version \in Symbols /\ m.method \in Symbols
  BY <1>1 DEF Symbols
<1>3. StartLine(m) \in Text /\ Len(StartLine(m)) = 3
  BY <1>2 DEF StartLine, Text
<1>4. IsALine(StartLine(m))
  <2>1. StartLine(m)[1] = m.method /\ StartLine(m)[2] = m.path /\ StartLine(m)[3] = m.version
    BY DEF StartLine
  <2>2. \A i \in 1..3 : i = 1 \/ i = 2 \/ i = 3
    OBVIOUS
  <2> QED BY <1>1, <1>3, <2>1, <2>2 DEF IsALine
<1>5. IsALine(ChunkedLine)
  <2>1. ChunkedLine \in Text /\ Len(ChunkedLine) = 2
    BY DEF ChunkedLine, Text, Symbols
  <2>2. ChunkedLine[1] = "Transfer-Encoding:" /\ ChunkedLine[2] = "chunked"
    BY DEF ChunkedLine
  <2>3. \A i \in 1..2 : i = 1 \/ i = 2
    OBVIOUS
  <2> QED BY <2>1, <2>2, <2>3 DEF IsALine
<1>6. IsALine(<<>>)
  BY EmptyText DEF IsALine
<1>7. ASSUME m.length # "" PROVE IsALine(LengthLine(m))
  <2>1. m.length \in STRING \ {"CR", "LF"}
    BY <1>1, <1>7, DigitAssumption
  <2>2. m.length \in Symbols /\ "Content-Length:" \in Symbols
    BY <2>1 DEF Symbols
  <2>3. LengthLine(m) \in Text /\ Len(LengthLine(m)) = 2
    BY <2>2 DEF LengthLine, Text
  <2>4. LengthLine(m)[1] = "Content-Length:" /\ LengthLine(m)[2] = m.length
    BY DEF LengthLine
  <2>5. \A i \in 1..2 : i = 1 \/ i = 2
    OBVIOUS
  <2> QED BY <2>1, <2>3, <2>4, <2>5 DEF IsALine
<1> QED BY <1>4, <1>5, <1>6, <1>7

\* Strings are symbols.
LEMMA Strings == Seq(STRING) \subseteq Text
BY SeqMonotonic DEF Text, Symbols

\* A chunk as it is sent, and what is sent after k of the chunks.
Frame(c) == <<ToDigit(Len(c))>> \o CRLF \o c \o CRLF
Frames(m) == [i \in 1..Len(m.data) |-> Frame(m.data[i])]
LastChunk == <<"0">> \o CRLF \o CRLF

\* The data of a message is text, chunk by chunk.
LEMMA DataIs ==
  ASSUME NEW m \in Messages
  PROVE  /\ Data(m) \in Text /\ Len(m.data) \in Nat
         /\ m.data \in Seq(Seq(STRING))
         /\ \A i \in 1..Len(m.data) : m.data[i] \in Seq(STRING) /\ m.data[i] \in Text
<1>1. m.data \in Seq(Seq(STRING))
  BY MessagesAssumption
<1>2. Len(m.data) \in Nat /\ \A i \in 1..Len(m.data) : m.data[i] \in Seq(STRING)
  BY <1>1, LenProperties, ElementOfSeq
<1>3. PICK f, g : Flattening(STRING, m.data, f, g)
  BY <1>1, Flattened
<1>4. Data(m) \in Seq(STRING)
  <2>1. f[Len(m.data)] \in Seq(STRING)
    BY <1>2, <1>3 DEF Flattening
  <2> QED BY <1>3, <2>1 DEF Flattening, Data
<1> QED BY <1>1, <1>2, <1>4, Strings

\* A frame is text, and its size is the length of the chunk.
LEMMA FrameTyped ==
  ASSUME NEW c \in Text, NEW d \in DOMAIN Digit, Digit[d] = Len(c)
  PROVE  /\ Frame(c) \in Text /\ IsALine(<<ToDigit(Len(c))>>)
         /\ ToDigit(Len(c)) \in DOMAIN Digit /\ Digit[ToDigit(Len(c))] = Len(c)
<1>1. ToDigit(Len(c)) \in DOMAIN Digit /\ Digit[ToDigit(Len(c))] = Len(c)
  BY DEF ToDigit
<1>2. PICK e : e = ToDigit(Len(c))
  OBVIOUS
<1>3. e \in STRING \ {"CR", "LF"}
  BY <1>1, <1>2, DigitAssumption
<1>4. e \in Symbols
  BY <1>3 DEF Symbols
<1>5. <<e>> \in Text /\ Len(<<e>>) = 1 /\ <<e>>[1] = e
  BY <1>4 DEF Text
<1>6. IsALine(<<e>>)
  BY <1>3, <1>5 DEF IsALine
<1>7. <<e>> \o CRLF \o c \o CRLF \in Text
  <2>1. <<e>> \o CRLF \in Text
    BY <1>5, LineEnd, Joined
  <2>2. <<e>> \o CRLF \o c \in Text
    BY <2>1, Joined
  <2> QED BY <2>2, LineEnd, Joined
<1> QED BY <1>1, <1>2, <1>6, <1>7 DEF Frame

\* The last chunk is text.
LEMMA LastChunkTyped == LastChunk \in Text /\ IsALine(<<"0">>)
<1>1. "0" \in STRING \ {"CR", "LF"}
  BY DigitAssumption
<1>2. "0" \in Symbols
  BY <1>1 DEF Symbols
<1>3. <<"0">> \in Text /\ Len(<<"0">>) = 1 /\ <<"0">>[1] = "0"
  BY <1>2 DEF Text
<1>4. <<"0">> \o CRLF \in Text
  BY <1>3, LineEnd, Joined
<1>5. <<"0">> \o CRLF \o CRLF \in Text
  BY <1>4, LineEnd, Joined
<1> QED BY <1>1, <1>3, <1>5 DEF LastChunk, IsALine

\* The payload is the data, or the frames and the last chunk.
LEMMA PayloadIs ==
  ASSUME NEW m \in Messages
  PROVE  /\ Payload(m) \in Text
         /\ ~m.chunked => Payload(m) = Data(m)
         /\ m.chunked => /\ Frames(m) \in Seq(Text) /\ Len(Frames(m)) = Len(m.data)
                         /\ Payload(m) = FlattenSeq(Frames(m)) \o LastChunk
<1>1. CASE ~m.chunked
  <2>1. Payload(m) = Data(m)
    BY <1>1 DEF Payload
  <2> QED BY <1>1, <2>1, DataIs
<1>2. CASE m.chunked
  <2>1. ASSUME NEW i \in 1..Len(m.data) PROVE Frame(m.data[i]) \in Text
    <3>1. PICK d \in DOMAIN Digit : Digit[d] = Len(m.data[i])
      BY <1>2, MessagesAssumption
    <3>2. m.data[i] \in Text
      BY DataIs
    <3> QED BY <3>1, <3>2, FrameTyped
  <2>2. Len(m.data) \in Nat
    BY DataIs
  <2>3. Frames(m) \in Seq(Text) /\ Len(Frames(m)) = Len(m.data)
    <3>1. Frames(m) \in [1..Len(m.data) -> Text]
      BY <2>1 DEF Frames
    <3> QED BY <2>2, <3>1, SeqDef
  <2>4. PICK f, g : Flattening(Symbols, Frames(m), f, g)
    BY <2>3, Flattened DEF Text
  <2>5. FlattenSeq(Frames(m)) \in Text
    <3>1. f[Len(m.data)] \in Seq(Symbols)
      BY <2>2, <2>3, <2>4 DEF Flattening
    <3> QED BY <2>3, <2>4, <3>1 DEF Flattening, Text
  <2>6. Payload(m) = FlattenSeq(Frames(m)) \o LastChunk
    <3>1. Payload(m) = FlattenSeq([i \in 1..Len(m.data) |->
                                     <<ToDigit(Len(m.data[i]))>> \o CRLF \o m.data[i] \o CRLF])
                       \o <<"0">> \o CRLF \o CRLF
      BY <1>2 DEF Payload
    <3>2. Payload(m) = FlattenSeq(Frames(m)) \o <<"0">> \o CRLF \o CRLF
      BY <3>1 DEF Frames, Frame
    <3> DEFINE F == FlattenSeq(Frames(m))
    <3>3. F \in Text /\ <<"0">> \in Text /\ CRLF \in Text
      BY <2>5, LineEnd, LastChunkTyped DEF IsALine
    <3> HIDE DEF F
    <3>4. F \o <<"0">> \o CRLF \o CRLF = F \o (<<"0">> \o CRLF \o CRLF)
      <4> DEFINE Z == <<"0">>
      <4>1. Z \in Text
        BY <3>3
      <4> HIDE DEF Z
      <4>2. /\ Cat(Cat(F, Z), CRLF) = Cat(F, Cat(Z, CRLF))
            /\ Cat(Cat(F, Cat(Z, CRLF)), CRLF) = Cat(F, Cat(Cat(Z, CRLF), CRLF))
        BY <3>3, <4>1, CatAssoc, CatIn DEF Text
      <4>3. Cat(Cat(Cat(F, Z), CRLF), CRLF) = Cat(F, Cat(Cat(Z, CRLF), CRLF))
        BY <4>2
      <4> QED BY <4>3 DEF Cat, Z
    <3> QED BY <3>2, <3>4 DEF F, LastChunk
  <2> QED BY <1>2, <2>3, <2>5, <2>6, LastChunkTyped, Joined
<1>3. m.chunked \in BOOLEAN
  BY MessagesAssumption
<1> QED BY <1>1, <1>2, <1>3

\* A message is its lines and what follows them.
LEMMA BytesAre ==
  ASSUME NEW m \in Messages
  PROVE  /\ FromEnd(m) \in Text /\ FromChunked(m) \in Text /\ FromLength(m) \in Text
         /\ Bytes(m) = StartLine(m) \o CRLF \o FromLength(m)
         /\ Bytes(m) \in Text
<1>1. PICK p \in Text : p = Payload(m)
  BY PayloadIs
<1>2. PICK s \in Text : s = StartLine(m)
  BY LinesOf DEF IsALine
<1>3. PICK h \in Text : m.length # "" => h = LengthLine(m)
  <2>1. CASE m.length = ""
    BY <2>1, EmptyText
  <2>2. CASE m.length # ""
    <3>1. LengthLine(m) \in Text
      BY <2>2, LinesOf DEF IsALine
    <3> QED BY <3>1
  <2> QED BY <2>1, <2>2
<1>4. PICK c \in Text : c = ChunkedLine
  BY LinesOf DEF IsALine
<1>5. PICK e \in Text : e = CRLF
  BY LineEnd
<1>6. PICK z \in Text : z = <<>>
  BY EmptyText
<1> DEFINE L == IF m.length = "" THEN z ELSE Cat(h, e)
           T == IF m.chunked THEN Cat(c, e) ELSE z
<1>7. Bytes(m) = Cat(Cat(Cat(Cat(Cat(s, e), L), T), e), p)
  BY <1>1, <1>2, <1>3, <1>4, <1>5, <1>6
     DEF Bytes, Cat, StartLine, LengthLine, ChunkedLine
<1>8. /\ FromEnd(m) = Cat(Cat(z, e), p)
      /\ FromChunked(m) = IF m.chunked THEN Cat(Cat(c, e), FromEnd(m)) ELSE FromEnd(m)
      /\ FromLength(m) = IF m.length = "" THEN FromChunked(m) ELSE Cat(Cat(h, e), FromChunked(m))
  BY <1>1, <1>3, <1>4, <1>5, <1>6 DEF FromEnd, FromChunked, FromLength, Cat
<1>9. \A x, y \in Text : Cat(x, y) \in Text
  BY CatIn DEF Text
<1>10. \A x, y, t \in Text : Cat(Cat(x, y), t) = Cat(x, Cat(y, t))
  BY CatAssoc DEF Text
<1>11. \A x \in Text : Cat(z, x) = x
  BY <1>6, CatEmpty DEF Text
<1>12. L \in Text /\ T \in Text
  BY <1>9
<1>13. PICK fe \in Text : fe = FromEnd(m) /\ fe = Cat(e, p)
  BY <1>8, <1>9, <1>11
<1>14. PICK fc \in Text : fc = FromChunked(m) /\ fc = Cat(T, fe)
  BY <1>8, <1>9, <1>11, <1>13
<1>15. PICK fl \in Text : fl = FromLength(m) /\ fl = Cat(L, fc)
  BY <1>8, <1>9, <1>11, <1>14
<1> HIDE DEF L, T
<1>16. Bytes(m) = Cat(Cat(s, e), fl)
  <2>1. PICK x1 \in Text : x1 = Cat(s, e)
    BY <1>9
  <2>2. PICK x2 \in Text : x2 = Cat(x1, L)
    BY <1>9, <1>12
  <2>3. PICK x3 \in Text : x3 = Cat(x2, T)
    BY <1>9, <1>12
  <2>4. Bytes(m) = Cat(Cat(x3, e), p)
    BY <1>7, <2>1, <2>2, <2>3
  <2>5. Cat(Cat(x3, e), p) = Cat(x3, fe)
    BY <1>10, <1>13
  <2>6. Cat(x3, fe) = Cat(x2, fc)
    BY <1>10, <1>12, <1>14, <2>3
  <2>7. Cat(x2, fc) = Cat(x1, fl)
    BY <1>10, <1>12, <1>15, <2>2
  <2> QED BY <2>1, <2>4, <2>5, <2>6, <2>7
<1>17. Bytes(m) \in Text
  BY <1>9, <1>16
<1>18. Bytes(m) = StartLine(m) \o CRLF \o FromLength(m)
  BY <1>2, <1>5, <1>15, <1>16 DEF Cat
<1> QED BY <1>13, <1>14, <1>15, <1>17, <1>18

----------------------------------------------------------------------------
(* The parser in the lines of a message m that is cut anywhere: what it    *)
(* has in the buffer and what is still to come, w, are the rest of it.     *)

\* As it was made, or as reset leaves it.
AtTheStart(r) ==
  /\ r.currentFunction = "_setMethod" /\ r.headers = {} /\ r.contentLength = 0
  /\ r.bodyBytesReceived = 0 /\ r.chunkSizeRemaining = 0 /\ r.body = <<>>
  /\ r.isComplete = FALSE /\ r.errorCode = 200

HasStartLine(m, r) ==
  /\ r.method = m.method /\ r.rawPath = m.path /\ r.version = m.version
  /\ r.bodyBytesReceived = 0 /\ r.chunkSizeRemaining = 0 /\ r.body = <<>>

InHeaders(m, r, w) ==
  /\ HasStartLine(m, r) /\ m.version = "HTTP/1.1"
  /\ r.currentFunction = "_setHeader" /\ r.contentLength = 0
  /\ r.isComplete = FALSE /\ r.errorCode = 200
  /\ \/ r.headers = {} /\ r.requestBuffer \o w = FromLength(m)
     \/ r.headers = LengthHeader(m) /\ r.requestBuffer \o w = FromChunked(m)
     \/ r.headers = HeadersOf(m) /\ r.requestBuffer \o w = FromEnd(m)

AfterHeaders(m, r) ==
  /\ HasStartLine(m, r) /\ m.version = "HTTP/1.1"
  /\ r.currentFunction = "_setBody" /\ r.headers = HeadersOf(m)
  /\ r.contentLength = Announced(m) /\ Announced(m) <= MaxContentLength
  /\ r.isComplete = (Announced(m) = 0) /\ r.errorCode = 200

Refused(m, r) ==
  /\ r.isComplete = FALSE /\ r.body = <<>>
  /\ \/ r.errorCode = 505 /\ m.version # "HTTP/1.1"
     \/ r.errorCode = 413 /\ Announced(m) > MaxContentLength

InLines(m, r, w) ==
  \/ AtTheStart(r) /\ r.requestBuffer \o w = Bytes(m)
  \/ InHeaders(m, r, w)
  \/ AfterHeaders(m, r) /\ r.requestBuffer \o w = Payload(m)
  \/ Refused(m, r)

\* The length that is found in the headers is the one that was sent (_setHeader).
LEMMA LengthIsFound ==
  ASSUME NEW m \in Messages, NEW r, r.headers = HeadersOf(m)
  PROVE  HeaderLength(r) = Announced(m) /\ Announced(m) \in Nat
<1> DEFINE V == {v \in DOMAIN Digit : <<"Content-Length:", v>> \in r.headers}
<1>1. HeaderLength(r) = IF V = {} THEN 0 ELSE Digit[CHOOSE v \in V : TRUE]
  BY DEF HeaderLength
<1>2. m.length \in {""} \cup DOMAIN Digit
  BY MessagesAssumption
<1>3. \A v : <<"Content-Length:", v>> # ChunkedLine
  BY DEF ChunkedLine
<1>4. CASE m.length = ""
  <2>1. V = {}
    BY <1>3, <1>4 DEF HeadersOf, LengthHeader
  <2> QED BY <1>1, <1>4, <2>1 DEF Announced
<1>5. CASE m.length # ""
  <2>1. \A v : <<"Content-Length:", v>> = LengthLine(m) <=> v = m.length
    BY DEF LengthLine
  <2>a. r.headers = {LengthLine(m)} \cup (IF m.chunked THEN {ChunkedLine} ELSE {})
    BY <1>5 DEF HeadersOf, LengthHeader
  <2>b. \A v : <<"Content-Length:", v>> \in r.headers <=> v = m.length
    BY <1>3, <2>1, <2>a
  <2>c. m.length \in DOMAIN Digit
    BY <1>2, <1>5
  <2>d. m.length \in V /\ \A v \in V : v = m.length
    BY <2>b, <2>c
  <2>2. V = {m.length}
    <3> HIDE DEF V
    <3> QED BY <2>d
  <2>3. (CHOOSE v \in V : TRUE) = m.length
    BY <2>2
  <2> HIDE DEF V
  <2> QED BY <1>1, <1>2, <1>5, <2>2, <2>3, DigitAssumption DEF Announced
<1> QED BY <1>4, <1>5

\* What a turn of the loop does with a line l: ParseLine without the buffer.
Turned(r, w, l, rest) ==
  \E t \in Requests, x \in Text :
    /\ t = IF r.currentFunction = "_setMethod" THEN _setMethod(r, l) ELSE _setHeader(r, l)
    /\ ParseLine(r) = [t EXCEPT !.requestBuffer = x]
    /\ x \o w = rest

\* A turn does that with the line that is there (parseRequest).
LEMMA TurnOfLine ==
  ASSUME NEW r \in Requests, NEW w \in Text, NEW l, IsALine(l), NEW rest \in Text,
         r.requestBuffer \o w = l \o CRLF \o rest, ~LinesDone(r)
  PROVE  Turned(r, w, l, rest)
<1> DEFINE t == IF r.currentFunction = "_setMethod" THEN _setMethod(r, l)
                                                    ELSE _setHeader(r, l)
<1>1. r.requestBuffer \in Text
  BY DEF Requests
<1>2. FirstLF(r) # 0
  BY DEF LinesDone
<1>3. PICK n : n = FirstLF(r)
  OBVIOUS
<1>0. TakenOff(r, w, l, rest)
  BY <1>1, <1>2, FirstLine
<1>4. PICK x \in Text : x = SubSeq(r.requestBuffer, n + 1, Len(r.requestBuffer)) /\ x \o w = rest
  BY <1>0, <1>3 DEF TakenOff
<1>5. Line(r) = l
  BY <1>0 DEF TakenOff
<1>6. t \in Requests /\ t.requestBuffer = r.requestBuffer
  BY <1>2, <1>5, TurnTyped
<1>7. ParseLine(r) = Erase(t, n)
  BY <1>3, <1>5 DEF ParseLine, LinesDone
<1> HIDE DEF t
<1>8. Erase(t, n) = [t EXCEPT !.requestBuffer = x]
  BY <1>4, <1>6 DEF Erase
<1> QED BY <1>4, <1>6, <1>7, <1>8 DEF t, Turned

\* The start line is read (_setMethod).
LEMMA StartLineIsRead ==
  ASSUME NEW m \in Messages, NEW w \in Text, NEW r \in Requests, ~LinesDone(r),
         AtTheStart(r), r.requestBuffer \o w = Bytes(m)
  PROVE  InLines(m, ParseLine(r), w)
<1>1. r.requestBuffer \o w = StartLine(m) \o CRLF \o FromLength(m)
      /\ FromLength(m) \in Text
  BY BytesAre
<1>2. IsALine(StartLine(m))
  BY LinesOf
<1>3. PICK t \in Requests, x \in Text :
        /\ t = _setMethod(r, StartLine(m))
        /\ ParseLine(r) = [t EXCEPT !.requestBuffer = x] /\ x \o w = FromLength(m)
  <2>1. r.currentFunction = "_setMethod"
    BY DEF AtTheStart
  <2>2. Turned(r, w, StartLine(m), FromLength(m))
    BY <1>1, <1>2, TurnOfLine
  <2> QED BY <2>1, <2>2 DEF Turned
<1> DEFINE s == [r EXCEPT !.method = m.method, !.rawPath = m.path, !.version = m.version]
<1>4. t = IF s.version # "HTTP/1.1" THEN [s EXCEPT !.errorCode = 505]
          ELSE [s EXCEPT !.currentFunction = "_setHeader"]
  <2>1. /\ Len(StartLine(m)) = 3 /\ StartLine(m)[1] = m.method
        /\ StartLine(m)[2] = m.path /\ StartLine(m)[3] = m.version
    BY DEF StartLine
  <2>2. /\ \A old : Word(StartLine(m), 1, old) = m.method
        /\ \A old : Word(StartLine(m), 2, old) = m.path
        /\ \A old : Word(StartLine(m), 3, old) = m.version
    <3>1. \A n \in {1, 2, 3} : \A old : Word(StartLine(m), n, old) = StartLine(m)[n]
      BY <1>2, <2>1, WordIs
    <3> QED BY <2>1, <3>1
  <2>3. PICK l : l = StartLine(m) /\ t = _setMethod(r, l)
    BY <1>3
  <2>4. PICK o, p, q : /\ o = Word(l, 1, r.method) /\ p = Word(l, 2, r.rawPath)
                       /\ q = Word(l, 3, r.version)
    OBVIOUS
  <2>5. o = m.method /\ p = m.path /\ q = m.version
    BY <2>2, <2>3, <2>4
  <2>6. PICK z : z = [r EXCEPT !.method = o, !.rawPath = p, !.version = q]
    OBVIOUS
  <2>7. t = IF z.version # "HTTP/1.1" THEN [z EXCEPT !.errorCode = 505]
            ELSE [z EXCEPT !.currentFunction = "_setHeader"]
    BY <2>3, <2>4, <2>6 DEF _setMethod
  <2>8. z = s
    BY <2>5, <2>6
  <2> QED BY <2>7, <2>8
<1>5. /\ s.method = m.method /\ s.rawPath = m.path /\ s.version = m.version
      /\ s.currentFunction = r.currentFunction /\ s.headers = r.headers
      /\ s.contentLength = r.contentLength /\ s.bodyBytesReceived = r.bodyBytesReceived
      /\ s.chunkSizeRemaining = r.chunkSizeRemaining /\ s.body = r.body
      /\ s.isComplete = r.isComplete /\ s.errorCode = r.errorCode
      /\ DOMAIN s = DOMAIN r
  BY DEF Requests
<1> HIDE DEF s
<1>6. PICK u : u = [t EXCEPT !.requestBuffer = x]
  OBVIOUS
<1>7. u.requestBuffer = x
  BY <1>6 DEF Requests
<1>8. /\ u.method = t.method /\ u.rawPath = t.rawPath /\ u.version = t.version
      /\ u.currentFunction = t.currentFunction /\ u.headers = t.headers
      /\ u.contentLength = t.contentLength /\ u.bodyBytesReceived = t.bodyBytesReceived
      /\ u.chunkSizeRemaining = t.chunkSizeRemaining /\ u.body = t.body
      /\ u.isComplete = t.isComplete /\ u.errorCode = t.errorCode
  BY <1>6 DEF Requests
<1>9. CASE m.version # "HTTP/1.1"
  <2>1. t = [s EXCEPT !.errorCode = 505]
    BY <1>4, <1>5, <1>9
  <2>2. t.errorCode = 505 /\ t.isComplete = s.isComplete /\ t.body = s.body
    BY <1>5, <2>1 DEF Requests
  <2>3. Refused(m, u)
    BY <1>5, <1>8, <1>9, <2>2 DEF Refused, AtTheStart
  <2> QED BY <1>3, <1>6, <2>3 DEF InLines
<1>10. CASE m.version = "HTTP/1.1"
  <2>1. t = [s EXCEPT !.currentFunction = "_setHeader"]
    BY <1>4, <1>5, <1>10
  <2>2. /\ t.currentFunction = "_setHeader"
        /\ t.method = s.method /\ t.rawPath = s.rawPath /\ t.version = s.version
        /\ t.headers = s.headers
        /\ t.contentLength = s.contentLength /\ t.bodyBytesReceived = s.bodyBytesReceived
        /\ t.chunkSizeRemaining = s.chunkSizeRemaining /\ t.body = s.body
        /\ t.isComplete = s.isComplete /\ t.errorCode = s.errorCode
    BY <1>5, <2>1 DEF Requests
  <2>3. HasStartLine(m, u)
    BY <1>5, <1>8, <2>2 DEF HasStartLine, AtTheStart
  <2>4. InHeaders(m, u, w)
    BY <1>3, <1>5, <1>7, <1>8, <1>10, <2>2, <2>3 DEF InHeaders, AtTheStart
  <2> QED BY <1>3, <1>6, <2>4 DEF InLines
<1> QED BY <1>9, <1>10

\* A header is read (_setHeader).
HeaderAdded(m, r, w, l, rest) ==
  LET u == ParseLine(r) IN
  /\ u.requestBuffer \o w = rest /\ u.headers = r.headers \cup {l}
  /\ HasStartLine(m, u) /\ u.currentFunction = "_setHeader"
  /\ u.contentLength = 0 /\ u.isComplete = FALSE /\ u.errorCode = 200

\* It is read, and nothing else changes.
LEMMA HeaderIsRead ==
  ASSUME NEW m \in Messages, NEW w \in Text, NEW r \in Requests, ~LinesDone(r),
         InHeaders(m, r, w), NEW l, IsALine(l), l \notin {<<>>, <<"CR">>}, NEW rest \in Text,
         r.requestBuffer \o w = l \o CRLF \o rest
  PROVE  HeaderAdded(m, r, w, l, rest)
<1>1. PICK t \in Requests, x \in Text :
        /\ t = _setHeader(r, l)
        /\ ParseLine(r) = [t EXCEPT !.requestBuffer = x] /\ x \o w = rest
  <2>1. r.currentFunction # "_setMethod"
    BY DEF InHeaders
  <2>2. Turned(r, w, l, rest)
    BY TurnOfLine
  <2> QED BY <2>1, <2>2 DEF Turned
<1>2. t = [r EXCEPT !.headers = r.headers \cup {l}]
  BY <1>1 DEF _setHeader
<1>3. PICK u \in Requests : u = [t EXCEPT !.requestBuffer = x] /\ u = ParseLine(r)
  BY <1>1, ParseLineTyped
<1>4. /\ u.requestBuffer = x
      /\ u.method = t.method /\ u.rawPath = t.rawPath /\ u.version = t.version
      /\ u.currentFunction = t.currentFunction /\ u.headers = t.headers
      /\ u.contentLength = t.contentLength /\ u.bodyBytesReceived = t.bodyBytesReceived
      /\ u.chunkSizeRemaining = t.chunkSizeRemaining /\ u.body = t.body
      /\ u.isComplete = t.isComplete /\ u.errorCode = t.errorCode
  BY <1>3 DEF Requests
<1>5. /\ t.headers = r.headers \cup {l}
      /\ t.method = r.method /\ t.rawPath = r.rawPath /\ t.version = r.version
      /\ t.currentFunction = r.currentFunction
      /\ t.contentLength = r.contentLength /\ t.bodyBytesReceived = r.bodyBytesReceived
      /\ t.chunkSizeRemaining = r.chunkSizeRemaining /\ t.body = r.body
      /\ t.isComplete = r.isComplete /\ t.errorCode = r.errorCode
  BY <1>2 DEF Requests
<1>6. HasStartLine(m, u)
  <2>1. HasStartLine(m, r)
    BY DEF InHeaders
  <2> QED BY <1>4, <1>5, <2>1 DEF HasStartLine
<1>7. u.currentFunction = "_setHeader" /\ u.contentLength = 0 /\ u.isComplete = FALSE
      /\ u.errorCode = 200
  BY <1>4, <1>5 DEF InHeaders
<1> QED BY <1>1, <1>3, <1>4, <1>5, <1>6, <1>7 DEF HeaderAdded

\* The empty line is read (_setHeader).
LEMMA EmptyLineIsRead ==
  ASSUME NEW m \in Messages, NEW w \in Text, NEW r \in Requests, ~LinesDone(r),
         InHeaders(m, r, w), r.headers = HeadersOf(m), r.requestBuffer \o w = FromEnd(m)
  PROVE  InLines(m, ParseLine(r), w)
<1>1. r.requestBuffer \o w = <<>> \o CRLF \o Payload(m) /\ Payload(m) \in Text
      /\ IsALine(<<>>)
  BY LinesOf, PayloadIs DEF FromEnd
<1>2. PICK t \in Requests, x \in Text :
        /\ t = _setHeader(r, <<>>)
        /\ ParseLine(r) = [t EXCEPT !.requestBuffer = x] /\ x \o w = Payload(m)
  <2>1. r.currentFunction # "_setMethod"
    BY DEF InHeaders
  <2>2. Turned(r, w, <<>>, Payload(m))
    BY <1>1, TurnOfLine
  <2> QED BY <2>1, <2>2 DEF Turned
<1>3. PICK n \in Nat : n = Announced(m) /\ n = HeaderLength(r)
  BY LengthIsFound
<1>4. PICK u : u = [t EXCEPT !.requestBuffer = x]
  OBVIOUS
<1>5. /\ u.requestBuffer = x
      /\ u.method = t.method /\ u.rawPath = t.rawPath /\ u.version = t.version
      /\ u.currentFunction = t.currentFunction /\ u.headers = t.headers
      /\ u.contentLength = t.contentLength /\ u.bodyBytesReceived = t.bodyBytesReceived
      /\ u.chunkSizeRemaining = t.chunkSizeRemaining /\ u.body = t.body
      /\ u.isComplete = t.isComplete /\ u.errorCode = t.errorCode
  BY <1>4 DEF Requests
<1>6. CASE n > MaxContentLength
  <2>1. t = [r EXCEPT !.contentLength = n, !.isComplete = FALSE, !.errorCode = 413]
    BY <1>2, <1>3, <1>6 DEF _setHeader, TooLarge
  <2>2. t.isComplete = FALSE /\ t.errorCode = 413 /\ t.body = r.body
    BY <2>1 DEF Requests
  <2>3. Refused(m, u)
    BY <1>3, <1>5, <1>6, <2>2 DEF Refused, InHeaders, HasStartLine
  <2> QED BY <1>2, <1>4, <2>3 DEF InLines
<1>7. CASE n <= MaxContentLength
  <2>1. t = [r EXCEPT !.contentLength = n, !.isComplete = (n = 0) \/ r.isComplete,
                      !.currentFunction = "_setBody"]
    BY <1>2, <1>3, <1>7, LimitsAssumption DEF _setHeader, TooLarge
  <2>2. PICK c \in BOOLEAN : c = (n = 0)
    OBVIOUS
  <2>3. t = [r EXCEPT !.contentLength = n, !.isComplete = c, !.currentFunction = "_setBody"]
    BY <2>1, <2>2 DEF InHeaders
  <2>4. /\ t.contentLength = n /\ t.isComplete = c /\ t.currentFunction = "_setBody"
        /\ t.method = r.method /\ t.rawPath = r.rawPath /\ t.version = r.version
        /\ t.headers = r.headers /\ t.bodyBytesReceived = r.bodyBytesReceived
        /\ t.chunkSizeRemaining = r.chunkSizeRemaining /\ t.body = r.body
        /\ t.errorCode = r.errorCode
    BY <2>3 DEF Requests
  <2>5. HasStartLine(m, u)
    BY <1>5, <2>4 DEF InHeaders, HasStartLine
  <2>6. u.isComplete = (Announced(m) = 0)
    BY <1>3, <1>5, <2>2, <2>4
  <2>7. AfterHeaders(m, u)
    BY <1>3, <1>5, <1>7, <2>4, <2>5, <2>6 DEF AfterHeaders, InHeaders
  <2> QED BY <1>2, <1>4, <1>5, <2>7 DEF InLines
<1> QED BY <1>3, <1>6, <1>7, LimitsAssumption

\* A turn of the loop leaves the parser in the lines of the message.
LEMMA LineIsRead ==
  ASSUME NEW m \in Messages, NEW w \in Text, NEW r \in Requests, InLines(m, r, w)
  PROVE  InLines(m, ParseLine(r), w)
<1>1. CASE LinesDone(r)
  BY <1>1, ParseLineTyped
<1>2. CASE ~LinesDone(r) /\ AtTheStart(r) /\ r.requestBuffer \o w = Bytes(m)
  BY <1>2, StartLineIsRead
<1>3. CASE ~LinesDone(r) /\ InHeaders(m, r, w)
  <2>1. FromChunked(m) \in Text /\ FromEnd(m) \in Text
    BY BytesAre
  <2>2. CASE r.headers = HeadersOf(m) /\ r.requestBuffer \o w = FromEnd(m)
    BY <1>3, <2>2, EmptyLineIsRead
  <2>3. CASE r.headers = LengthHeader(m) /\ r.requestBuffer \o w = FromChunked(m)
    <3>1. CASE ~m.chunked
      <4>1. FromChunked(m) = FromEnd(m) /\ LengthHeader(m) = HeadersOf(m)
        BY <3>1 DEF FromChunked, HeadersOf
      <4> QED BY <2>2, <2>3, <4>1
    <3>2. CASE m.chunked
      <4>1. r.requestBuffer \o w = ChunkedLine \o CRLF \o FromEnd(m)
        BY <2>3, <3>2 DEF FromChunked
      <4>2. IsALine(ChunkedLine) /\ ChunkedLine \notin {<<>>, <<"CR">>}
        BY LinesOf DEF ChunkedLine
      <4>a. HeaderAdded(m, r, w, ChunkedLine, FromEnd(m))
        BY <1>3, <2>1, <4>1, <4>2, HeaderIsRead
      <4>3. PICK u : /\ u = ParseLine(r) /\ u.requestBuffer \o w = FromEnd(m)
                     /\ u.headers = r.headers \cup {ChunkedLine}
                     /\ HasStartLine(m, u) /\ u.currentFunction = "_setHeader"
                     /\ u.contentLength = 0 /\ u.isComplete = FALSE /\ u.errorCode = 200
        BY <4>a DEF HeaderAdded
      <4>4. u.headers = HeadersOf(m)
        BY <2>3, <3>2, <4>3 DEF HeadersOf
      <4>5. InHeaders(m, u, w)
        BY <1>3, <4>3, <4>4 DEF InHeaders
      <4> QED BY <4>3, <4>5 DEF InLines
    <3> QED BY <3>1, <3>2
  <2>4. CASE r.headers = {} /\ r.requestBuffer \o w = FromLength(m)
    <3>1. CASE m.length = ""
      <4>1. FromLength(m) = FromChunked(m) /\ LengthHeader(m) = {}
        BY <3>1 DEF FromLength, LengthHeader
      <4> QED BY <2>3, <2>4, <4>1
    <3>2. CASE m.length # ""
      <4>1. r.requestBuffer \o w = LengthLine(m) \o CRLF \o FromChunked(m)
        BY <2>4, <3>2 DEF FromLength
      <4>2. IsALine(LengthLine(m)) /\ LengthLine(m) \notin {<<>>, <<"CR">>}
        BY <3>2, LinesOf DEF LengthLine
      <4>a. HeaderAdded(m, r, w, LengthLine(m), FromChunked(m))
        BY <1>3, <2>1, <4>1, <4>2, HeaderIsRead
      <4>3. PICK u : /\ u = ParseLine(r) /\ u.requestBuffer \o w = FromChunked(m)
                     /\ u.headers = r.headers \cup {LengthLine(m)}
                     /\ HasStartLine(m, u) /\ u.currentFunction = "_setHeader"
                     /\ u.contentLength = 0 /\ u.isComplete = FALSE /\ u.errorCode = 200
        BY <4>a DEF HeaderAdded
      <4>4. u.headers = LengthHeader(m)
        BY <2>4, <3>2, <4>3 DEF LengthHeader
      <4>5. InHeaders(m, u, w)
        BY <1>3, <4>3, <4>4 DEF InHeaders
      <4> QED BY <4>3, <4>5 DEF InLines
    <3> QED BY <3>1, <3>2
  <2> QED BY <1>3, <2>2, <2>3, <2>4 DEF InHeaders
<1>4. ASSUME ~LinesDone(r) PROVE ~AfterHeaders(m, r) /\ ~Refused(m, r)
  BY <1>4 DEF LinesDone, AfterHeaders, Refused, isError
<1> QED BY <1>1, <1>2, <1>3, <1>4 DEF InLines

----------------------------------------------------------------------------
(* The members keep their types in the body, too.                          *)

\* _setChunkSize keeps them.
LEMMA SetChunkSizeTyped ==
  ASSUME NEW r \in Requests
  PROVE  _setChunkSize(r) \in Requests
<1>1. CASE FirstLF(r) = 0
  BY <1>1 DEF _setChunkSize
<1>2. CASE FirstLF(r) # 0
  <2> DEFINE line == Line(r)
             word == Word(line, 1, "")
             n == IF word \in DOMAIN Digit THEN Digit[word] ELSE 0
  <2>1. n \in Nat
    BY DigitAssumption
  <2>2. PICK e \in Requests : e = Erase(r, FirstLF(r))
    <3>1. r.requestBuffer \in Text
      BY DEF Requests
    <3>2. FirstLF(r) \in 0..Len(r.requestBuffer)
      BY <3>1, FirstLFIs
    <3> QED BY <3>2, EraseTyped
  <2>3. PICK c \in BOOLEAN : c = (n = 0)
    OBVIOUS
  <2>4. _setChunkSize(r) = [e EXCEPT !.chunkSizeRemaining = n, !.isComplete = c]
    BY <1>2, <2>2, <2>3 DEF _setChunkSize
  <2> HIDE DEF n
  <2> QED BY <2>1, <2>4 DEF Requests
<1> QED BY <1>1, <1>2

\* _trimChunked keeps them.
LEMMA TrimChunkedTyped ==
  ASSUME NEW r \in Requests
  PROVE  _trimChunked(r) \in Requests
<1>1. r.requestBuffer \in Text
  BY DEF Requests
<1>2. Len(r.requestBuffer) \in Nat
  BY <1>1, TextLength
<1>3. IsPrefix(CRLF, r.requestBuffer) => Erase(r, 2) \in Requests
  <2>1. IsPrefix(CRLF, r.requestBuffer) => 2 <= Len(r.requestBuffer)
    BY LineEnd DEF IsPrefix
  <2> QED BY <1>2, <2>1, EraseTyped
<1>4. IsPrefix(<<"LF">>, r.requestBuffer) => Erase(r, 1) \in Requests
  <2>1. IsPrefix(<<"LF">>, r.requestBuffer) => 1 <= Len(r.requestBuffer)
    <3>1. Len(<<"LF">>) = 1
      OBVIOUS
    <3> QED BY <3>1 DEF IsPrefix
  <2> QED BY <1>2, <2>1, EraseTyped
<1> QED BY <1>3, <1>4 DEF _trimChunked

\* What is copied of a chunk: n bytes of the buffer, d, and what is left to copy.
Copied(r, t, d, n) ==
  /\ n = BytesToCopy(r) /\ n \in 0..Len(r.requestBuffer) /\ n <= r.chunkSizeRemaining
  /\ IsPiece(d, r.requestBuffer, 0, n) /\ d = SubSeq(r.requestBuffer, 1, n)
  /\ t \in Requests
  /\ t = [r EXCEPT !.requestBuffer = SubSeq(r.requestBuffer, n + 1, Len(r.requestBuffer)),
                   !.body = r.body \o d, !.chunkSizeRemaining = r.chunkSizeRemaining - n]
  /\ LET u == _trimChunked(t) IN
     _addChunkData(r) = IF Len(u.body) >= MaxContentLength
                          THEN [u EXCEPT !.errorCode = 413, !.isComplete = FALSE] ELSE u

\* There are such n and d (_addChunkData).
LEMMA ChunkIsCopied ==
  ASSUME NEW r \in Requests
  PROVE  \E t, d, n : Copied(r, t, d, n)
<1>1. r.requestBuffer \in Text /\ r.chunkSizeRemaining \in Nat /\ r.body \in Text
  BY DEF Requests
<1>2. Len(r.requestBuffer) \in Nat
  BY <1>1, TextLength
<1>3. PICK n \in 0..Len(r.requestBuffer) : n = BytesToCopy(r) /\ n <= r.chunkSizeRemaining
  BY <1>1, <1>2 DEF BytesToCopy
<1>4. PICK d : d = SubSeq(r.requestBuffer, 1, n)
  OBVIOUS
<1>5. IsPiece(d, r.requestBuffer, 0, n)
  <2>1. n \in Nat /\ n <= Len(r.requestBuffer) /\ 0 <= n /\ 0 + 1 = 1
    BY <1>2
  <2>2. IsPiece(SubSeq(r.requestBuffer, 0 + 1, n), r.requestBuffer, 0, n)
    BY <1>1, <2>1, Piece
  <2> QED BY <1>4, <2>1, <2>2
<1>6. PICK e \in Requests :
        /\ e = Erase(r, n)
        /\ e = [r EXCEPT !.requestBuffer =
                  SubSeq(r.requestBuffer, n + 1, Len(r.requestBuffer))]
  BY EraseTyped
<1>7. PICK b \in Text : b = r.body \o d
  BY <1>1, <1>5, Joined DEF IsPiece
<1>8. PICK c \in Nat : c = r.chunkSizeRemaining - n
  BY <1>1, <1>3
<1>9. PICK t \in Requests : t = [e EXCEPT !.body = b, !.chunkSizeRemaining = c]
  BY DEF Requests
<1>10. e.body = r.body /\ e.chunkSizeRemaining = r.chunkSizeRemaining
  BY <1>6 DEF Requests
<1>11. t = [Erase(r, n) EXCEPT
              !.body = @ \o SubSeq(r.requestBuffer, 1, n),
              !.chunkSizeRemaining = IF n <= @ THEN @ - n ELSE 0]
  BY <1>3, <1>4, <1>6, <1>7, <1>8, <1>9, <1>10
<1>12. PICK x : x = SubSeq(r.requestBuffer, n + 1, Len(r.requestBuffer))
  OBVIOUS
<1>13. t = [r EXCEPT !.requestBuffer = x, !.body = b, !.chunkSizeRemaining = c]
  BY <1>6, <1>9, <1>12 DEF Requests
<1>14. LET u == _trimChunked(t) IN
       _addChunkData(r) = IF Len(u.body) >= MaxContentLength
                            THEN [u EXCEPT !.errorCode = 413, !.isComplete = FALSE] ELSE u
  BY <1>3, <1>11 DEF _addChunkData
<1>15. t = [r EXCEPT !.requestBuffer = SubSeq(r.requestBuffer, n + 1, Len(r.requestBuffer)),
                 !.body = r.body \o d, !.chunkSizeRemaining = r.chunkSizeRemaining - n]
  BY ONLY <1>7, <1>8, <1>12, <1>13
<1> QED BY ONLY <1>3, <1>4, <1>5, <1>9, <1>14, <1>15 DEF Copied

\* A turn of _parseChunkedBody keeps them.
LEMMA ParseChunkTyped ==
  ASSUME NEW r \in Requests
  PROVE  ParseChunk(r) \in Requests
<1>1. _addChunkData(r) \in Requests
  <2>1. PICK t, d, n : Copied(r, t, d, n)
    BY ChunkIsCopied
  <2>2. PICK u \in Requests : u = _trimChunked(t)
    BY <2>1, TrimChunkedTyped DEF Copied
  <2>3. PICK c \in BOOLEAN, e \in Codes : c = FALSE /\ e = 413
    BY TheCodes
  <2>4. [u EXCEPT !.errorCode = e, !.isComplete = c] \in Requests
    BY DEF Requests
  <2> QED BY <2>1, <2>2, <2>3, <2>4 DEF Copied
<1>2. _setChunkSize(r) \in Requests
  BY SetChunkSizeTyped
<1> QED BY <1>1, <1>2 DEF ParseChunk

\* The loop over the chunks leaves a set that its turns do not leave.
LEMMA ChunksAreRead ==
  ASSUME NEW S \in SUBSET Requests, \A t \in S : ParseChunk(t) \in S, NEW r \in S
  PROVE  _parseChunkedBody(r) \in S
<1> DEFINE n == Len(r.requestBuffer)
<1>1. n \in Nat
  BY TextLength DEF Requests
<1>2. PICK f : /\ f[0] = r /\ f[n + 1] = Repeat(ParseChunk, r)
               /\ \A i \in 0..n : f[i + 1] = ParseChunk(f[i])
  BY <1>1, RepeatedChunk
<1> HIDE DEF n
<1> DEFINE N == {i \in Nat : i <= n + 1 => f[i] \in S}
<1>3. 0 \in N
  BY <1>2
<1>4. ASSUME NEW i \in Nat, i \in N PROVE i + 1 \in N
  <2> SUFFICES ASSUME i + 1 <= n + 1 PROVE f[i + 1] \in S
    OBVIOUS
  <2>1. f[i] \in S /\ f[i + 1] = ParseChunk(f[i])
    BY <1>1, <1>2, <1>4
  <2> QED BY <2>1
<1>5. \A i \in Nat : i \in N
  <2> HIDE DEF N
  <2> QED BY ONLY <1>3, <1>4, AllNaturals
<1>6. f[n + 1] \in S
  BY <1>1, <1>5
<1> QED BY <1>2, <1>6 DEF _parseChunkedBody

\* _setBody keeps them.
LEMMA SetBodyTyped ==
  ASSUME NEW r \in Requests
  PROVE  _setBody(r) \in Requests
<1>1. _parseChunkedBody(r) \in Requests
  BY ParseChunkTyped, ChunksAreRead
<1>2. r.requestBuffer \in Text /\ r.body \in Text /\ r.bodyBytesReceived \in Nat
      /\ r.contentLength \in Nat
  BY DEF Requests
<1>3. PICK b \in Text, k \in Nat, z \in Text :
        b = r.body \o r.requestBuffer /\ k = r.bodyBytesReceived + Len(r.requestBuffer)
        /\ z = <<>>
  <2>1. r.body \o r.requestBuffer \in Text
    BY <1>2, Joined
  <2>2. r.bodyBytesReceived + Len(r.requestBuffer) \in Nat
    BY <1>2, TextLength
  <2> QED BY <2>1, <2>2, EmptyText
<1>4. PICK t \in Requests :
        t = [r EXCEPT !.body = b, !.requestBuffer = z, !.bodyBytesReceived = k]
  BY DEF Requests
<1>5. t = TakeBody(r)
  BY <1>3, <1>4 DEF TakeBody
<1>6. t.body = b /\ t.contentLength = r.contentLength
  BY <1>4 DEF Requests
<1>7. Len(b) \in Nat
  BY TextLength
<1>8. PICK d \in Text :
        d = IF Len(b) > t.contentLength THEN SubSeq(b, 1, t.contentLength) ELSE b
  <2>1. CASE Len(b) > t.contentLength
    <3>1. 0 + 1 = 1 /\ 0 <= t.contentLength
      BY <1>2, <1>6
    <3>2. IsPiece(SubSeq(b, 0 + 1, t.contentLength), b, 0, t.contentLength)
      BY <1>2, <1>6, <1>7, <2>1, <3>1, Piece
    <3> QED BY <2>1, <3>1, <3>2 DEF IsPiece
  <2> QED BY <2>1
<1>9. PICK c \in BOOLEAN : c = TRUE
  OBVIOUS
<1>10. [t EXCEPT !.isComplete = c, !.body = d] \in Requests
  BY DEF Requests
<1>11. [t EXCEPT !.isComplete = TRUE,
                 !.body = IF Len(@) > t.contentLength
                            THEN SubSeq(@, 1, t.contentLength) ELSE @] \in Requests
  BY <1>6, <1>8, <1>9, <1>10
<1> QED BY <1>1, <1>4, <1>5, <1>11 DEF _setBody

\* A call keeps them (parseRequest).
LEMMA ParseRequestTyped ==
  ASSUME NEW r \in Requests, NEW x \in Text
  PROVE  parseRequest(r, x) \in Requests
<1>1. PICK b \in Text : b = r.requestBuffer \o x
  BY Joined DEF Requests
<1>2. PICK t \in Requests : t = [r EXCEPT !.requestBuffer = b]
  BY DEF Requests
<1>3. t = [r EXCEPT !.requestBuffer = @ \o x]
  BY <1>1, <1>2
<1>4. PICK u \in Requests : u = Repeat(ParseLine, t)
  BY ParseLineTyped, LinesAreRead
<1> QED BY <1>3, <1>4, SetBodyTyped DEF parseRequest

----------------------------------------------------------------------------
(* The body of a message that is not chunked.                              *)

BodyUnderWay(m, r) ==
  /\ r.method = m.method /\ r.rawPath = m.path /\ r.version = m.version
  /\ m.version = "HTTP/1.1"
  /\ r.currentFunction = "_setBody" /\ r.headers = HeadersOf(m)
  /\ r.contentLength = Announced(m) /\ Announced(m) <= MaxContentLength
  /\ r.bodyBytesReceived = Len(r.body) /\ r.chunkSizeRemaining = 0 /\ r.errorCode = 200

InBody(m, r, w) ==
  /\ BodyUnderWay(m, r)
  /\ r.requestBuffer = <<>> /\ r.body \o w = Data(m)
  /\ r.isComplete = (Len(r.body) >= Announced(m))

\* A message that is not chunked has the length of its header.
LEMMA AnnouncedIs ==
  ASSUME NEW m \in Messages, ~m.chunked
  PROVE  /\ Len(Data(m)) = Announced(m) /\ Announced(m) \in Nat
         /\ ChunkedLine \notin HeadersOf(m)
<1>1. Len(Data(m)) = Announced(m)
  BY MessagesAssumption DEF Announced
<1>2. LengthLine(m) # ChunkedLine
  BY DEF LengthLine, ChunkedLine
<1>3. Len(Data(m)) \in Nat
  BY DataIs, TextLength
<1> QED BY <1>1, <1>2, <1>3 DEF HeadersOf, LengthHeader

\* What has arrived of the body is taken, all of it (_setBody).
LEMMA BodyIsTaken ==
  ASSUME NEW m \in Messages, ~m.chunked, NEW r \in Requests, NEW w \in Text,
         BodyUnderWay(m, r), r.body \o r.requestBuffer \o w = Data(m),
         r.isComplete => Announced(m) = 0
  PROVE  InBody(m, _setBody(r), w)
<1>1. /\ r.requestBuffer \in Text /\ r.body \in Text /\ r.bodyBytesReceived \in Nat
      /\ r.contentLength = Announced(m) /\ r.isComplete \in BOOLEAN
  BY DEF Requests, BodyUnderWay
<1>2. PICK b \in Text : b = r.body \o r.requestBuffer
  BY <1>1, Joined
<1>3. Len(b) = Len(r.body) + Len(r.requestBuffer) /\ Len(b) \in Nat
  BY <1>1, <1>2, Joined, TextLength
<1>4. b \o w = Data(m)
  BY <1>2
<1>5. Len(b) + Len(w) = Announced(m) /\ Len(w) \in Nat /\ Announced(m) \in Nat
  BY <1>4, AnnouncedIs, Joined
<1>6. PICK t : t = [r EXCEPT !.body = b, !.requestBuffer = <<>>, !.bodyBytesReceived = Len(b)]
  OBVIOUS
<1>7. t = TakeBody(r)
  BY <1>2, <1>3, <1>6 DEF TakeBody, BodyUnderWay
<1>8. /\ t.body = b /\ t.requestBuffer = <<>> /\ t.bodyBytesReceived = Len(b)
      /\ t.method = r.method /\ t.rawPath = r.rawPath /\ t.version = r.version
      /\ t.currentFunction = r.currentFunction /\ t.headers = r.headers
      /\ t.contentLength = r.contentLength /\ t.chunkSizeRemaining = r.chunkSizeRemaining
      /\ t.isComplete = r.isComplete /\ t.errorCode = r.errorCode
  BY <1>6 DEF Requests
<1>9. <<"Transfer-Encoding:", "chunked">> \notin r.headers
  BY AnnouncedIs DEF ChunkedLine, BodyUnderWay
<1>10. BodyUnderWay(m, t)
  BY <1>8 DEF BodyUnderWay
<1>a. PICK n \in Nat, k \in Nat : n = Announced(m) /\ k = Len(b) /\ k <= n
  <2>1. PICK n \in Nat : n = Announced(m)
    BY <1>5
  <2>2. PICK k \in Nat : k = Len(b)
    BY <1>3
  <2>3. PICK j \in Nat : j = Len(w)
    BY <1>5
  <2>4. k + j = n
    BY <1>5, <2>1, <2>2, <2>3
  <2> QED BY <2>1, <2>2, <2>4
<1>b. t.body = b /\ t.contentLength = n
  BY <1>1, <1>8, <1>a
<1>11. CASE k >= n
  <2>1. PICK u : u = [t EXCEPT !.isComplete = TRUE, !.body = b]
    OBVIOUS
  <2>2. _setBody(r) = u
    <3>1. BodyDone(t)
      BY <1>8, <1>a, <1>b, <1>11 DEF BodyDone
    <3>2. ~(Len(t.body) > t.contentLength)
      BY <1>a, <1>b
    <3> QED BY <1>7, <1>8, <1>9, <2>1, <3>1, <3>2 DEF _setBody
  <2>3. /\ u.isComplete = TRUE /\ u.body = b /\ u.requestBuffer = <<>>
        /\ u.bodyBytesReceived = t.bodyBytesReceived
        /\ u.method = t.method /\ u.rawPath = t.rawPath /\ u.version = t.version
        /\ u.currentFunction = t.currentFunction /\ u.headers = t.headers
        /\ u.contentLength = t.contentLength /\ u.chunkSizeRemaining = t.chunkSizeRemaining
        /\ u.errorCode = t.errorCode
    BY <1>6, <1>8, <2>1 DEF Requests
  <2>4. BodyUnderWay(m, u)
    BY <1>8, <1>10, <2>3 DEF BodyUnderWay
  <2> QED BY <1>4, <1>a, <1>11, <2>2, <2>3, <2>4 DEF InBody
<1>12. CASE k < n
  <2>0. ~(k >= n) /\ n # 0
    BY <1>12
  <2>1. ~BodyDone(t)
    <3>1. t.bodyBytesReceived = k /\ t.contentLength = n
      BY <1>8, <1>a, <1>b
    <3> QED BY <2>0, <3>1 DEF BodyDone
  <2>2. _setBody(r) = t
    BY <1>7, <1>9, <2>1 DEF _setBody
  <2>3. t.isComplete = FALSE /\ ~(k >= n)
    <3>1. r.isComplete = FALSE
      BY <1>1, <1>a, <2>0
    <3> QED BY <1>8, <2>0, <3>1
  <2>4. t.isComplete = (Len(t.body) >= Announced(m))
    <3>1. Len(t.body) = k /\ Announced(m) = n
      BY <1>a, <1>b
    <3>2. (k >= n) = FALSE /\ t.isComplete = FALSE
      BY <2>3
    <3> QED BY ONLY <3>1, <3>2
  <2> QED BY <1>4, <1>8, <1>10, <2>2, <2>4 DEF InBody
<1>13. k >= n \/ k < n
  OBVIOUS
<1> QED BY <1>11, <1>12, <1>13

\* Between two calls: a message that has come so far, w is still to come.
Follows(m, r, w) ==
  \/ AtTheStart(r) /\ r.requestBuffer \o w = Bytes(m) /\ FirstLF(r) = 0
  \/ InHeaders(m, r, w) /\ FirstLF(r) = 0
  \/ ~m.chunked /\ InBody(m, r, w)
  \/ Refused(m, r)

\* A call leaves the parser where the message is (parseRequest).
LEMMA LinesFollow ==
  ASSUME NEW m \in Messages, NEW w \in Text, NEW t \in Requests, InLines(m, t, w)
  PROVE  LET u == Repeat(ParseLine, t) IN u \in Requests /\ InLines(m, u, w) /\ LinesDone(u)
<1> DEFINE S == {r \in Requests : InLines(m, r, w)}
<1>1. S \in SUBSET Requests /\ t \in S
  OBVIOUS
<1>2. \A r \in S : ParseLine(r) \in S
  BY LineIsRead, ParseLineTyped
<1>3. Repeat(ParseLine, t) \in S /\ LinesDone(Repeat(ParseLine, t))
  <2> HIDE DEF S
  <2> QED BY <1>1, <1>2, LinesAreRead
<1> QED BY <1>3

\* A call is left in the lines, or comes to the body.
LinesCalled(m, r, x, w) ==
  \/ Follows(m, parseRequest(r, x), w)
  \/ \E u \in Requests : /\ AfterHeaders(m, u) /\ u.requestBuffer \o w = Payload(m)
                         /\ parseRequest(r, x) = _setBody(u)

\* It does one of the two (parseRequest).
LEMMA LinesAreCalled ==
  ASSUME NEW m \in Messages, NEW r \in Requests, NEW x \in Text, NEW w \in Text,
         \/ AtTheStart(r) /\ r.requestBuffer \o (x \o w) = Bytes(m)
         \/ InHeaders(m, r, x \o w)
  PROVE  LinesCalled(m, r, x, w)
<1>0. r.requestBuffer \in Text
  BY DEF Requests
<1>1. PICK b \in Text : b = r.requestBuffer \o x
  BY <1>0, Joined
<1>2. b \o w = r.requestBuffer \o (x \o w)
  <2>1. (r.requestBuffer \o x) \o w = r.requestBuffer \o (x \o w)
    BY <1>0, JoinedTwice
  <2> QED BY <1>1, <2>1
<1>3. PICK t \in Requests : t = [r EXCEPT !.requestBuffer = b]
  BY DEF Requests
<1>4. t = [r EXCEPT !.requestBuffer = @ \o x]
  BY <1>1, <1>3
<1>5. /\ t.requestBuffer = b
      /\ t.method = r.method /\ t.rawPath = r.rawPath /\ t.version = r.version
      /\ t.currentFunction = r.currentFunction /\ t.headers = r.headers
      /\ t.contentLength = r.contentLength /\ t.bodyBytesReceived = r.bodyBytesReceived
      /\ t.chunkSizeRemaining = r.chunkSizeRemaining /\ t.body = r.body
      /\ t.isComplete = r.isComplete /\ t.errorCode = r.errorCode
  BY <1>3 DEF Requests
<1>6. InLines(m, t, w) /\ t.currentFunction # "_setBody"
  <2>1. CASE AtTheStart(r) /\ r.requestBuffer \o (x \o w) = Bytes(m)
    <3>1. AtTheStart(t) /\ t.requestBuffer \o w = Bytes(m)
      BY <1>2, <1>5, <2>1 DEF AtTheStart
    <3> QED BY <3>1 DEF InLines, AtTheStart
  <2>2. CASE InHeaders(m, r, x \o w)
    <3>1. HasStartLine(m, t)
      BY <1>5, <2>2 DEF InHeaders, HasStartLine
    <3>2. InHeaders(m, t, w)
      BY ZenonT(60), <1>2, <1>5, <2>2, <3>1 DEF InHeaders
    <3> QED BY <3>2 DEF InLines, InHeaders
  <2> QED BY <2>1, <2>2
<1>7. PICK u \in Requests : u = Repeat(ParseLine, t) /\ InLines(m, u, w) /\ LinesDone(u)
  BY <1>6, LinesFollow
<1>8. CASE isError(u) \/ u.currentFunction # "_setBody"
  <2>1. parseRequest(r, x) = u
    BY <1>4, <1>6, <1>7, <1>8 DEF parseRequest
  <2>2. ~AfterHeaders(m, u)
    BY <1>8 DEF AfterHeaders, isError
  <2>3. AtTheStart(u) \/ InHeaders(m, u, w) => FirstLF(u) = 0
    BY <1>7 DEF LinesDone, AtTheStart, InHeaders, isError
  <2> QED BY <1>7, <2>1, <2>2, <2>3 DEF InLines, Follows, LinesCalled
<1>9. CASE ~isError(u) /\ u.currentFunction = "_setBody"
  <2>1. parseRequest(r, x) = _setBody(u)
    BY <1>4, <1>6, <1>7, <1>9 DEF parseRequest
  <2>2. AfterHeaders(m, u) /\ u.requestBuffer \o w = Payload(m)
    BY <1>7, <1>9 DEF InLines, AtTheStart, InHeaders, Refused, isError
  <2> QED BY <2>1, <2>2 DEF LinesCalled
<1> QED BY <1>8, <1>9

\* A call leaves the parser where the message is, if that is not chunked (parseRequest).
LEMMA PlainFollows ==
  ASSUME NEW m \in Messages, ~m.chunked, NEW r \in Requests, NEW x \in Text, NEW w \in Text,
         Follows(m, r, x \o w), ~r.isComplete, ~isError(r)
  PROVE  Follows(m, parseRequest(r, x), w)
<1>0. r.requestBuffer \in Text
  BY DEF Requests
<1>1. CASE InBody(m, r, x \o w)
  <2>1. r.requestBuffer = <<>> /\ r.body \in Text /\ r.body \o (x \o w) = Data(m)
    BY <1>1 DEF InBody, Requests
  <2>2. <<>> \o x = x
    BY ConcatEmptySeq DEF Text
  <2>3. PICK t \in Requests : t = [r EXCEPT !.requestBuffer = x]
    BY DEF Requests
  <2>4. t = [r EXCEPT !.requestBuffer = @ \o x]
    BY <2>1, <2>2, <2>3
  <2>5. /\ t.requestBuffer = x
        /\ t.method = r.method /\ t.rawPath = r.rawPath /\ t.version = r.version
        /\ t.currentFunction = r.currentFunction /\ t.headers = r.headers
        /\ t.contentLength = r.contentLength /\ t.bodyBytesReceived = r.bodyBytesReceived
        /\ t.chunkSizeRemaining = r.chunkSizeRemaining /\ t.body = r.body
        /\ t.isComplete = r.isComplete /\ t.errorCode = r.errorCode
    BY <2>3 DEF Requests
  <2>6. BodyUnderWay(m, t) /\ t.currentFunction = "_setBody"
    BY <1>1, <2>5 DEF InBody, BodyUnderWay
  <2>7. parseRequest(r, x) = _setBody(t)
    BY <2>4, <2>6 DEF parseRequest
  <2>8. t.body \o t.requestBuffer \o w = Data(m)
    <3>1. r.body \o x \o w = r.body \o (x \o w)
      BY <2>1, JoinedTwice
    <3> QED BY <2>1, <2>5, <3>1
  <2>9. InBody(m, _setBody(t), w)
    BY <2>5, <2>6, <2>8, BodyIsTaken
  <2> QED BY <2>7, <2>9 DEF Follows
<1>2. CASE ~InBody(m, r, x \o w)
  <2>1. ~Refused(m, r)
    BY DEF Refused, isError
  <2>2. LinesCalled(m, r, x, w)
    BY <1>2, <2>1, LinesAreCalled DEF Follows
  <2>3. ASSUME NEW u \in Requests, AfterHeaders(m, u), u.requestBuffer \o w = Payload(m),
               parseRequest(r, x) = _setBody(u)
        PROVE  Follows(m, parseRequest(r, x), w)
    <3>1. BodyUnderWay(m, u) /\ u.body = <<>> /\ (u.isComplete => Announced(m) = 0)
      BY <2>3, EmptyText DEF AfterHeaders, HasStartLine, BodyUnderWay
    <3>2. u.body \o u.requestBuffer \o w = Data(m)
      <4>1. u.requestBuffer \in Text
        BY DEF Requests
      <4>2. u.body \o u.requestBuffer = u.requestBuffer
        BY <3>1, <4>1, ConcatEmptySeq DEF Text
      <4> QED BY <2>3, <4>2, PayloadIs
    <3>3. InBody(m, _setBody(u), w)
      BY <3>1, <3>2, BodyIsTaken
    <3> QED BY <2>3, <3>3 DEF Follows
  <2> QED BY <2>2, <2>3 DEF LinesCalled
<1> QED BY <1>1, <1>2
----------------------------------------------------------------------------
(* The body of a chunked message.                                          *)

\* The data, and the text, after the first k chunks.
Tails(m, dt, tt) ==
  /\ dt \in [0..Len(m.data) -> Text] /\ dt[0] = Data(m) /\ dt[Len(m.data)] = <<>>
  /\ tt \in [0..Len(m.data) -> Text] /\ tt[0] = Payload(m) /\ tt[Len(m.data)] = LastChunk
  /\ \A k \in 0..(Len(m.data) - 1) :
       /\ dt[k] = m.data[k + 1] \o dt[k + 1]
       /\ tt[k] = Frame(m.data[k + 1]) \o tt[k + 1]

\* Every chunked message has them.
LEMMA TailsOf ==
  ASSUME NEW m \in Messages, m.chunked
  PROVE  \E dt, tt : Tails(m, dt, tt)
<1>1. PICK n \in Nat : n = Len(m.data)
  BY DataIs
<1>2. m.data \in Seq(Seq(STRING)) /\ \A i \in 1..n : m.data[i] \in Text
  BY <1>1, DataIs
<1>3. PICK f, g : Flattening(STRING, m.data, f, g)
  BY <1>2, Flattened
<1>4. PICK F, G : Flattening(Symbols, Frames(m), F, G)
  BY PayloadIs, Flattened DEF Text
<1>5. Frames(m) \in Seq(Text) /\ Len(Frames(m)) = n
      /\ Payload(m) = FlattenSeq(Frames(m)) \o LastChunk
  BY <1>1, PayloadIs
<1>6. /\ g \in [0..n -> Seq(STRING)] /\ g[0] = FlattenSeq(m.data) /\ g[n] = <<>>
      /\ \A k \in 0..(n - 1) : g[k] = Cat(m.data[k + 1], g[k + 1])
  BY <1>1, <1>3 DEF Flattening
<1>7. /\ G \in [0..n -> Text] /\ G[0] = FlattenSeq(Frames(m)) /\ G[n] = <<>>
      /\ \A k \in 0..(n - 1) : G[k] = Cat(Frames(m)[k + 1], G[k + 1])
  BY <1>4, <1>5 DEF Flattening, Text
<1>8. g \in [0..n -> Text] /\ g[0] = Data(m)
  BY <1>6, Strings DEF Data
<1> DEFINE tt == [k \in 0..n |-> Cat(G[k], LastChunk)]
<1>9. \A k \in 0..n : tt[k] = Cat(G[k], LastChunk) /\ tt[k] \in Text
  <2> TAKE k \in 0..n
  <2>1. G[k] \in Text
    BY <1>7
  <2> QED BY <2>1, LastChunkTyped, CatIn DEF Text
<1>10. tt \in [0..n -> Text]
  BY <1>9
<1> HIDE DEF tt
<1>11. 0 \in 0..n /\ n \in 0..n
  OBVIOUS
<1>12. tt[0] = Payload(m)
  BY <1>5, <1>7, <1>9, <1>11 DEF Cat
<1>13. tt[n] = LastChunk
  <2>1. Cat(<<>>, LastChunk) = LastChunk
    BY LastChunkTyped, CatEmpty DEF Text
  <2> QED BY <1>7, <1>9, <1>11, <2>1
<1>14. ASSUME NEW k \in 0..(n - 1)
       PROVE  g[k] = m.data[k + 1] \o g[k + 1] /\ tt[k] = Frame(m.data[k + 1]) \o tt[k + 1]
  <2>1. k \in 0..n /\ k + 1 \in 0..n /\ k + 1 \in 1..n
    OBVIOUS
  <2>2. PICK c \in Text : c = Frames(m)[k + 1]
    BY <1>5, <2>1, ElementOfSeq
  <2>3. c = Frame(m.data[k + 1])
    BY <1>1, <2>1, <2>2 DEF Frames
  <2>4. PICK h \in Text : h = G[k + 1]
    BY <1>7, <2>1
  <2>5. Cat(Cat(c, h), LastChunk) = Cat(c, Cat(h, LastChunk))
    BY LastChunkTyped, CatAssoc DEF Text
  <2>6. tt[k] = Cat(c, tt[k + 1])
    BY <1>7, <1>9, <2>1, <2>2, <2>4, <2>5
  <2>7. g[k] = Cat(m.data[k + 1], g[k + 1])
    BY <1>6
  <2> QED BY <2>3, <2>6, <2>7 DEF Cat
<1>15. Tails(m, g, tt)
  BY <1>1, <1>6, <1>8, <1>10, <1>12, <1>13, <1>14 DEF Tails
<1> QED BY <1>15

\* What is in the body and, for some rest of the data, all that was sent.
IsPartOf(m, body) == \E rest \in Text : body \o rest = Data(m)

\* Behind k chunks, and in the chunk before them with q of its data and its end to come.
BehindChunk(m, dt, tt, r, w, k) ==
  /\ r.chunkSizeRemaining = 0
  /\ r.body \o dt[k] = Data(m) /\ r.requestBuffer \o w = tt[k]
InChunk(m, dt, tt, r, w, k, q) ==
  /\ r.chunkSizeRemaining = Len(q)
  /\ r.body \o (q \o dt[k]) = Data(m) /\ r.requestBuffer \o w = q \o (CRLF \o tt[k])

ChunksUnderWay(m, dt, tt, r, w) ==
  \/ (r.isComplete \/ isError(r)) /\ IsPartOf(m, r.body)
  \/ /\ r.isComplete = FALSE /\ r.errorCode = 200
     /\ \E k \in 0..Len(m.data) :
          \/ BehindChunk(m, dt, tt, r, w, k)
          \/ \E q \in Text : InChunk(m, dt, tt, r, w, k, q)

InChunks(m, r, w) ==
  /\ r.currentFunction = "_setBody" /\ r.headers = HeadersOf(m)
  /\ r.method = m.method /\ r.rawPath = m.path
  /\ \E dt, tt : Tails(m, dt, tt) /\ ChunksUnderWay(m, dt, tt, r, w)

\* Two ways to take n symbols off what has come and what is to come.
Split(x, w, q, z, n) ==
  /\ IsPiece(SubSeq(x, 1, n), x, 0, n) /\ SubSeq(x, 1, n) = SubSeq(q, 1, n)
  /\ SubSeq(q, n + 1, Len(q)) \in Text /\ Len(SubSeq(q, n + 1, Len(q))) = Len(q) - n
  /\ q = SubSeq(x, 1, n) \o SubSeq(q, n + 1, Len(q))
  /\ SubSeq(x, n + 1, Len(x)) \o w = SubSeq(q, n + 1, Len(q)) \o z

\* A text is its first n symbols and the others.
LEMMA SplitAt ==
  ASSUME NEW x \in Text, NEW n \in 0..Len(x)
  PROVE  /\ IsPiece(SubSeq(x, 1, n), x, 0, n) /\ IsPiece(SubSeq(x, n + 1, Len(x)), x, n, Len(x))
         /\ x = SubSeq(x, 1, n) \o SubSeq(x, n + 1, Len(x))
<1>1. Len(x) \in Nat
  BY TextLength
<1>2. n \in Nat /\ n <= Len(x) /\ 0 <= n /\ 0 + 1 = 1 /\ Len(x) <= Len(x)
  BY <1>1
<1>3. IsPiece(SubSeq(x, 0 + 1, n), x, 0, n)
  BY <1>2, Piece
<1>4. IsPiece(SubSeq(x, n + 1, Len(x)), x, n, Len(x))
  BY <1>1, <1>2, Piece
<1>5. PICK d, e : d = SubSeq(x, 1, n) /\ e = SubSeq(x, n + 1, Len(x))
  OBVIOUS
<1>6. IsPiece(d, x, 0, n) /\ IsPiece(e, x, n, Len(x))
  BY <1>2, <1>3, <1>4, <1>5
<1>7. /\ d \in Text /\ Len(d) = n /\ \A i \in 1..n : d[i] = x[i]
      /\ e \in Text /\ Len(e) = Len(x) - n /\ \A i \in 1..(Len(x) - n) : e[i] = x[n + i]
  BY <1>1, <1>2, <1>6 DEF IsPiece
<1>8. PICK y \in Text : y = d \o e
  BY <1>7, Joined
<1>9. /\ Len(y) = Len(x)
      /\ \A i \in 1..n : y[i] = d[i]
      /\ \A i \in 1..(Len(x) - n) : y[n + i] = e[i]
  <2>1. /\ Len(y) = Len(d) + Len(e)
        /\ \A i \in 1..Len(d) : y[i] = d[i]
        /\ \A i \in 1..Len(e) : y[Len(d) + i] = e[i]
    <3>1. d \in Text /\ e \in Text
      BY <1>7
    <3>2. /\ Len(d \o e) = Len(d) + Len(e)
          /\ \A i \in 1..Len(d) : (d \o e)[i] = d[i]
          /\ \A i \in 1..Len(e) : (d \o e)[Len(d) + i] = e[i]
      BY <3>1, Joined
    <3> QED BY <1>8, <3>2
  <2> QED BY <1>1, <1>2, <1>7, <2>1
<1>10. ASSUME NEW i \in 1..Len(x) PROVE y[i] = x[i]
  <2>1. CASE i <= n
    BY <1>1, <1>2, <1>7, <1>9, <2>1
  <2>2. CASE i > n
    <3>1. PICK j \in 1..(Len(x) - n) : i = n + j
      <4>1. i - n \in 1..(Len(x) - n) /\ i = n + (i - n)
        BY <1>1, <1>2, <2>2
      <4> QED BY <4>1
    <3> QED BY <1>7, <1>9, <3>1
  <2> QED BY <1>1, <1>2, <2>1, <2>2
<1>11. y = x
  BY <1>9, <1>10, SeqEqual DEF Text
<1> QED BY <1>5, <1>6, <1>8, <1>11

\* They agree.
LEMMA SplitBoth ==
  ASSUME NEW x \in Text, NEW w \in Text, NEW q \in Text, NEW z \in Text, x \o w = q \o z,
         NEW n \in Nat, n <= Len(x), n <= Len(q)
  PROVE  Split(x, w, q, z, n)
<1>1. Len(x) \in Nat /\ Len(q) \in Nat /\ n \in 0..Len(x) /\ n \in 0..Len(q)
  BY TextLength
<1>2. PICK d, e : d = SubSeq(x, 1, n) /\ e = SubSeq(x, n + 1, Len(x))
  OBVIOUS
<1>3. PICK c, b : c = SubSeq(q, 1, n) /\ b = SubSeq(q, n + 1, Len(q))
  OBVIOUS
<1>4. IsPiece(d, x, 0, n) /\ IsPiece(e, x, n, Len(x)) /\ x = d \o e
  BY <1>1, <1>2, SplitAt
<1>5. IsPiece(c, q, 0, n) /\ IsPiece(b, q, n, Len(q)) /\ q = c \o b
  BY <1>1, <1>3, SplitAt
<1>6. /\ d \in Text /\ Len(d) = n /\ \A i \in 1..n : d[i] = x[i]
      /\ c \in Text /\ Len(c) = n /\ \A i \in 1..n : c[i] = q[i]
      /\ e \in Text /\ b \in Text /\ Len(b) = Len(q) - n
  BY <1>1, <1>4, <1>5 DEF IsPiece
<1>7. PICK y \in Text : y = x \o w /\ y = q \o z
  BY Joined
<1>8. \A i \in 1..n : x[i] = q[i]
  <2>1. \A i \in 1..Len(x) : y[i] = x[i]
    <3>1. \A i \in 1..Len(x) : (x \o w)[i] = x[i]
      BY Joined
    <3> QED BY <1>7, <3>1
  <2>2. \A i \in 1..Len(q) : y[i] = q[i]
    <3>1. \A i \in 1..Len(q) : (q \o z)[i] = q[i]
      BY Joined
    <3> QED BY <1>7, <3>1
  <2> QED BY <1>1, <2>1, <2>2
<1>9. d = c
  BY <1>6, <1>8, SeqEqual DEF Text
<1>10. Cat(d, Cat(e, w)) = Cat(d, Cat(b, z))
  <2>1. Cat(Cat(d, e), w) = Cat(d, Cat(e, w))
    BY <1>6, CatAssoc DEF Text
  <2>2. Cat(Cat(d, b), z) = Cat(d, Cat(b, z))
    BY <1>6, CatAssoc DEF Text
  <2>3. Cat(Cat(d, e), w) = Cat(Cat(d, b), z)
    BY <1>4, <1>5, <1>9 DEF Cat
  <2> QED BY <2>1, <2>2, <2>3
<1>11. Cat(e, w) = Cat(b, z)
  BY <1>6, <1>10, CatCancel, CatIn DEF Text
<1>12. e \o w = b \o z
  BY <1>11 DEF Cat
<1> QED BY <1>2, <1>3, <1>4, <1>5, <1>6, <1>9, <1>12 DEF Split

Size(l) == IF Word(l, 1, "") \in DOMAIN Digit THEN Digit[Word(l, 1, "")] ELSE 0

SameHead(r, u) ==
  /\ u.currentFunction = r.currentFunction /\ u.headers = r.headers
  /\ u.method = r.method /\ u.rawPath = r.rawPath

\* The line with a size is read (_setChunkSize).
SizeRead(r, w, l, rest) ==
  LET u == _setChunkSize(r) IN
  /\ SameHead(r, u) /\ u.body = r.body /\ u.errorCode = r.errorCode
  /\ u.chunkSizeRemaining = Size(l) /\ u.isComplete = (Size(l) = 0)
  /\ u.requestBuffer \o w = rest

\* It is read when its end has come.
LEMMA SizeIsRead ==
  ASSUME NEW r \in Requests, FirstLF(r) # 0, NEW w \in Text, NEW l, IsALine(l),
         NEW rest \in Text, r.requestBuffer \o w = l \o CRLF \o rest
  PROVE  SizeRead(r, w, l, rest)
<1>1. r.requestBuffer \in Text
  BY DEF Requests
<1>2. TakenOff(r, w, l, rest)
  BY <1>1, FirstLine
<1>3. PICK x \in Text : /\ x = SubSeq(r.requestBuffer, FirstLF(r) + 1, Len(r.requestBuffer))
                        /\ x \o w = rest /\ Line(r) = l
  BY <1>2 DEF TakenOff
<1>4. PICK e : e = Erase(r, FirstLF(r))
  OBVIOUS
<1>5. e = [r EXCEPT !.requestBuffer = x]
  BY <1>3, <1>4 DEF Erase
<1>6. PICK u : u = [e EXCEPT !.chunkSizeRemaining = Size(l), !.isComplete = (Size(l) = 0)]
  OBVIOUS
<1>7. u = _setChunkSize(r)
  BY <1>3, <1>4, <1>6 DEF _setChunkSize, Size
<1>8. PICK n, c : n = Size(l) /\ c = (n = 0)
  OBVIOUS
<1>9. u = [e EXCEPT !.chunkSizeRemaining = n, !.isComplete = c]
  BY <1>6, <1>8
<1>10. /\ u.chunkSizeRemaining = n /\ u.isComplete = c /\ u.requestBuffer = x
       /\ u.body = r.body /\ u.errorCode = r.errorCode
       /\ u.currentFunction = r.currentFunction /\ u.headers = r.headers
       /\ u.method = r.method /\ u.rawPath = r.rawPath
  BY <1>5, <1>9 DEF Requests
<1>11. u.isComplete = (Size(l) = 0)
  BY <1>8, <1>10
<1> QED BY <1>3, <1>7, <1>8, <1>10, <1>11 DEF SizeRead, SameHead

\* The sizes of the chunks can be written.
HasSizes(m) == \A i \in 1..Len(m.data) : \E d \in DOMAIN Digit : Digit[d] = Len(m.data[i])

\* A line is read behind a chunk: the size of the next one, or the end.
LEMMA BehindChunkTurn ==
  ASSUME NEW m \in Messages, HasSizes(m), NEW dt, NEW tt, Tails(m, dt, tt),
         NEW r \in Requests, NEW w \in Text, NEW k \in 0..Len(m.data),
         BehindChunk(m, dt, tt, r, w, k), r.isComplete = FALSE, r.errorCode = 200
  PROVE  LET u == _setChunkSize(r) IN SameHead(r, u) /\ ChunksUnderWay(m, dt, tt, u, w)
<1>1. CASE FirstLF(r) = 0
  <2>1. _setChunkSize(r) = r
    BY <1>1 DEF _setChunkSize
  <2> QED BY <2>1 DEF ChunksUnderWay, SameHead
<1>2. CASE FirstLF(r) # 0
  <2>1. PICK n \in Nat : n = Len(m.data)
    BY DataIs
  <2>2. dt[k] \in Text /\ tt[k] \in Text
    BY DEF Tails
  <2>3. CASE k = n
    <3>a. PICK l : l = <<"0">> /\ IsALine(l)
      BY LastChunkTyped
    <3>b. PICK e \in Text : e = CRLF
      BY LineEnd
    <3>1. r.requestBuffer \o w = l \o CRLF \o e
      BY <2>1, <2>3, <3>a, <3>b DEF Tails, BehindChunk, LastChunk
    <3>2. SizeRead(r, w, l, e)
      <4>1. IsALine(l)
        BY <3>a
      <4> QED BY ONLY <1>2, <3>1, <4>1, SizeIsRead, r \in Requests, w \in Text, e \in Text
    <3>3. Size(l) = 0
      <4>1. Len(l) = 1 /\ l[1] = "0" /\ 1 \in Nat /\ 1 >= 1
        BY <3>a
      <4>2. Word(l, 1, "") = "0"
        <5>1. IsALine(l)
          BY <3>a
        <5>2. Word(l, 1, "") = IF 1 <= Len(l) THEN l[1] ELSE ""
          BY ONLY <4>1, <5>1, WordIs
        <5> QED BY ONLY <4>1, <5>2
      <4> QED BY <4>2, DigitAssumption DEF Size
    <3>4. PICK u : /\ u = _setChunkSize(r) /\ SameHead(r, u) /\ u.body = r.body
                   /\ u.isComplete = TRUE
      BY <3>2, <3>3 DEF SizeRead
    <3>5. IsPartOf(m, u.body)
      <4>1. PICK b \in Text : b = dt[k]
        BY <2>2
      <4>2. u.body \o b = Data(m)
        BY <3>4, <4>1 DEF BehindChunk
      <4> QED BY <4>2 DEF IsPartOf
    <3> QED BY <3>4, <3>5 DEF ChunksUnderWay
  <2>4. CASE k # n
    <3>1. k \in 0..(n - 1) /\ k + 1 \in 0..n /\ k + 1 \in 1..n
      BY <2>1, <2>4
    <3>2. PICK c \in Text : c = m.data[k + 1]
      BY <2>1, <3>1, DataIs
    <3>3. PICK d \in DOMAIN Digit : Digit[d] = Len(c)
      BY <2>1, <3>1, <3>2 DEF HasSizes
    <3>4. PICK s : /\ s = ToDigit(Len(c)) /\ IsALine(<<s>>) /\ s \in DOMAIN Digit
                   /\ Digit[s] = Len(c)
      <4>1. /\ IsALine(<<ToDigit(Len(c))>>)
            /\ ToDigit(Len(c)) \in DOMAIN Digit /\ Digit[ToDigit(Len(c))] = Len(c)
        BY <3>3, FrameTyped
      <4> QED BY <4>1
    <3>5. PICK t \in Text : t = tt[k + 1]
      BY <2>1, <3>1 DEF Tails
    <3>6. PICK rest \in Text : rest = c \o (CRLF \o t)
      <4>1. CRLF \o t \in Text
        BY LineEnd, Joined
      <4> QED BY <4>1, Joined
    <3>7. r.requestBuffer \o w = <<s>> \o CRLF \o rest
      <4>1. r.requestBuffer \o w = (<<s>> \o CRLF \o c \o CRLF) \o t
        <5>1. tt[k] = Frame(c) \o t
          BY <2>1, <3>1, <3>2, <3>5 DEF Tails
        <5>2. Frame(c) = <<s>> \o CRLF \o c \o CRLF
          BY <3>4 DEF Frame
        <5> QED BY <5>1, <5>2 DEF BehindChunk
      <4>2. PICK z \in Text : z = <<s>>
        BY <3>4 DEF IsALine
      <4>3. PICK e \in Text : e = CRLF
        BY LineEnd
      <4>4. \A x, y, v \in Text : Cat(Cat(x, y), v) = Cat(x, Cat(y, v))
        BY CatAssoc DEF Text
      <4>5. PICK ze \in Text : ze = Cat(z, e)
        BY CatIn DEF Text
      <4>6. Cat(Cat(Cat(ze, c), e), t) = Cat(ze, Cat(c, Cat(e, t)))
        <5>1. PICK et \in Text : et = Cat(e, t)
          BY CatIn DEF Text
        <5>2. PICK zc \in Text : zc = Cat(ze, c)
          BY CatIn DEF Text
        <5>3. Cat(Cat(zc, e), t) = Cat(zc, et)
          BY <4>4, <5>1
        <5>4. Cat(Cat(ze, c), et) = Cat(ze, Cat(c, et))
          BY <4>4
        <5> QED BY <5>1, <5>2, <5>3, <5>4
      <4> QED BY <3>6, <4>1, <4>2, <4>3, <4>5, <4>6 DEF Cat
    <3>8. SizeRead(r, w, <<s>>, rest)
      BY <1>2, <3>4, <3>7, SizeIsRead
    <3>9. Size(<<s>>) = Len(c)
      <4>1. Len(<<s>>) = 1 /\ <<s>>[1] = s /\ 1 \in Nat /\ 1 >= 1
        OBVIOUS
      <4>2. Word(<<s>>, 1, "") = s
        <5>1. PICK l : l = <<s>> /\ IsALine(l) /\ Len(l) = 1 /\ l[1] = s
          BY <3>4
        <5>2. IsALine(l) /\ 1 \in Nat /\ 1 >= 1
          BY <5>1
        <5>3. Word(l, 1, "") = IF 1 <= Len(l) THEN l[1] ELSE ""
          BY ONLY <5>2, WordIs
        <5>4. 1 <= Len(l) /\ l[1] = s
          BY <5>1
        <5>5. Word(l, 1, "") = s
          BY ONLY <5>3, <5>4, Zenon
        <5>6. l = <<s>>
          BY <5>1
        <5> QED BY ONLY <5>5, <5>6, Zenon
      <4> QED BY <3>4, <4>2 DEF Size
    <3>10. PICK u : /\ u = _setChunkSize(r) /\ SameHead(r, u) /\ u.body = r.body
                    /\ u.errorCode = r.errorCode /\ u.chunkSizeRemaining = Len(c)
                    /\ u.isComplete = (Len(c) = 0) /\ u.requestBuffer \o w = rest
      BY <3>8, <3>9 DEF SizeRead
    <3>11. dt[k] = c \o dt[k + 1]
      BY <2>1, <3>1, <3>2 DEF Tails
    <3>12. CASE Len(c) = 0
      <4>1. IsPartOf(m, u.body)
        <5>1. PICK b \in Text : b = dt[k]
          BY <2>2
        <5>2. u.body \o b = Data(m)
          BY <3>10, <5>1 DEF BehindChunk
        <5> QED BY <5>2 DEF IsPartOf
      <4> QED BY <3>10, <3>12, <4>1 DEF ChunksUnderWay
    <3>13. CASE Len(c) # 0
      <4>1. InChunk(m, dt, tt, u, w, k + 1, c)
        BY <3>5, <3>6, <3>10, <3>11 DEF InChunk, BehindChunk
      <4>2. u.isComplete = FALSE /\ u.errorCode = 200
        BY <3>10, <3>13
      <4> QED BY <2>1, <3>1, <3>10, <4>1, <4>2 DEF ChunksUnderWay
    <3> QED BY <3>12, <3>13
  <2> QED BY <2>3, <2>4
<1> QED BY <1>1, <1>2

\* The end of a chunk that was not there in time is taken for the last size.
LEMMA LateEndTurn ==
  ASSUME NEW m \in Messages, NEW dt, NEW tt, Tails(m, dt, tt),
         NEW r \in Requests, NEW w \in Text, NEW k \in 0..Len(m.data), NEW q \in Text,
         Len(q) = 0,
         InChunk(m, dt, tt, r, w, k, q), r.isComplete = FALSE, r.errorCode = 200
  PROVE  LET u == _setChunkSize(r) IN SameHead(r, u) /\ ChunksUnderWay(m, dt, tt, u, w)
<1>1. CASE FirstLF(r) = 0
  <2>1. _setChunkSize(r) = r
    BY <1>1 DEF _setChunkSize
  <2> QED BY <2>1 DEF ChunksUnderWay, SameHead
<1>2. CASE FirstLF(r) # 0
  <2>1. q = <<>>
    BY TextLength
  <2>2. dt[k] \in Text /\ tt[k] \in Text
    BY DEF Tails
  <2>3. PICK z, t : z = <<>> /\ t = tt[k]
    OBVIOUS
  <2>4. z \in Text /\ t \in Text /\ IsALine(z)
    BY <2>2, <2>3, LinesOf, EmptyText
  <2>5. r.requestBuffer \o w = z \o CRLF \o t
    <3>0. z \in Text /\ t \in Text /\ CRLF \in Text
      BY <2>4, LineEnd
    <3>1. (z \o CRLF) \o t = z \o (CRLF \o t)
      BY ONLY SMTT(40), <3>0, JoinedTwice
    <3> QED BY <2>1, <2>3, <3>1 DEF InChunk
  <2>6. SizeRead(r, w, z, t)
    <3>1. IsALine(z) /\ t \in Text
      BY <2>4
    <3> QED BY ONLY <1>2, <2>5, <3>1, SizeIsRead, r \in Requests, w \in Text
  <2>7. Size(z) = 0
    <3>1. Len(z) = 0 /\ 1 \in Nat /\ 1 >= 1 /\ ~(1 <= 0)
      BY <2>3, EmptyText
    <3>2. Word(z, 1, "") = ""
      BY <2>4, <3>1, WordIs
    <3> QED BY <3>2, DigitAssumption DEF Size
  <2>8. PICK u : /\ u = _setChunkSize(r) /\ SameHead(r, u) /\ u.body = r.body
                 /\ u.isComplete = TRUE
    BY <2>6, <2>7 DEF SizeRead
  <2>9. IsPartOf(m, u.body)
    <3>1. q \o dt[k] \in Text
      BY <2>2, Joined
    <3> QED BY <2>8, <3>1 DEF IsPartOf, InChunk
  <2> QED BY <2>8, <2>9 DEF ChunksUnderWay
<1> QED BY <1>1, <1>2

\* Whatever has been read of the chunks, the body begins the data.
LEMMA UnderWayIsPart ==
  ASSUME NEW m \in Messages, NEW dt, NEW tt, Tails(m, dt, tt), NEW r, NEW w,
         ChunksUnderWay(m, dt, tt, r, w)
  PROVE  IsPartOf(m, r.body)
<1>1. CASE IsPartOf(m, r.body)
  BY <1>1
<1>2. CASE \E k \in 0..Len(m.data) : BehindChunk(m, dt, tt, r, w, k)
  <2>1. PICK k \in 0..Len(m.data) : BehindChunk(m, dt, tt, r, w, k)
    BY <1>2
  <2>2. PICK b \in Text : b = dt[k]
    BY DEF Tails
  <2>3. r.body \o b = Data(m)
    BY <2>1, <2>2 DEF BehindChunk
  <2> QED BY <2>3 DEF IsPartOf
<1>3. CASE \E k \in 0..Len(m.data), q \in Text : InChunk(m, dt, tt, r, w, k, q)
  <2>1. PICK k \in 0..Len(m.data), q \in Text : InChunk(m, dt, tt, r, w, k, q)
    BY <1>3
  <2>2. PICK b \in Text : b = dt[k]
    BY DEF Tails
  <2>3. PICK c \in Text : c = q \o b
    BY Joined
  <2>4. r.body \o c = Data(m)
    BY <2>1, <2>2, <2>3 DEF InChunk
  <2> QED BY <2>4 DEF IsPartOf
<1> QED BY <1>1, <1>2, <1>3 DEF ChunksUnderWay

\* The end of a chunk is skipped, if it is there whole (_trimChunked).
LEMMA TrimTurn ==
  ASSUME NEW m \in Messages, NEW dt, NEW tt, Tails(m, dt, tt),
         NEW r \in Requests, NEW w \in Text, NEW k \in 0..Len(m.data), NEW q \in Text,
         InChunk(m, dt, tt, r, w, k, q), r.isComplete = FALSE, r.errorCode = 200
  PROVE  LET u == _trimChunked(r) IN SameHead(r, u) /\ ChunksUnderWay(m, dt, tt, u, w)
<1>1. ChunksUnderWay(m, dt, tt, r, w) /\ SameHead(r, r)
  BY DEF ChunksUnderWay, SameHead
<1>2. CASE Len(q) # 0
  <2>1. r.chunkSizeRemaining > 0
    <3>1. Len(q) \in Nat
      BY TextLength
    <3>2. r.chunkSizeRemaining = Len(q)
      BY DEF InChunk
    <3> QED BY <1>2, <3>1, <3>2
  <2>2. _trimChunked(r) = r
    BY <2>1 DEF _trimChunked
  <2> QED BY <1>1, <2>2
<1>3. CASE Len(q) = 0
  <2>1. q = <<>>
    BY <1>3, TextLength
  <2>2. PICK x \in Text, t \in Text, b \in Text : x = r.requestBuffer /\ t = tt[k] /\ b = dt[k]
    BY DEF Tails, Requests
  <2>3. PICK e \in Text : e = CRLF
    BY LineEnd
  <2>4. x \o w = e \o t
    <3>1. e \o t \in Text
      BY Joined
    <3>2. <<>> \o (e \o t) = e \o t
      BY <3>1, ConcatEmptySeq DEF Text
    <3> QED BY <2>1, <2>2, <2>3, <3>2 DEF InChunk
  <2>5. r.body \o b = Data(m) /\ r.chunkSizeRemaining = 0
    <3>1. <<>> \o b = b
      BY ConcatEmptySeq DEF Text
    <3> QED BY <1>3, <2>1, <2>2, <3>1 DEF InChunk
  <2>6. CASE IsPrefix(CRLF, x)
    <3>1. 2 <= Len(x) /\ Len(e) = 2 /\ 2 \in Nat /\ 2 <= Len(e)
      BY <2>3, <2>6, LineEnd DEF IsPrefix
    <3>2. Split(x, w, e, t, 2)
      <4>1. PICK n \in Nat : n = 2 /\ n <= Len(x) /\ n <= Len(e)
        BY <3>1
      <4>2. Split(x, w, e, t, n)
        BY ONLY <2>4, <4>1, SplitBoth, x \in Text, w \in Text, e \in Text, t \in Text
      <4> QED BY <4>1, <4>2
    <3>3. PICK y : y = SubSeq(x, 2 + 1, Len(x))
      OBVIOUS
    <3>4. PICK z \in Text : z = SubSeq(e, 2 + 1, Len(e)) /\ Len(z) = 0
      <4>1. SubSeq(e, 2 + 1, Len(e)) \in Text /\ Len(SubSeq(e, 2 + 1, Len(e))) = Len(e) - 2
        BY ONLY <3>2 DEF Split
      <4>2. Len(e) - 2 = 0
        BY ONLY <3>1
      <4> QED BY ONLY <4>1, <4>2
    <3>5. y \o w = z \o t
      BY <3>2, <3>3, <3>4 DEF Split
    <3>6. z \o t = t
      <4>1. z = <<>>
        BY <3>4, TextLength
      <4> QED BY <4>1, ConcatEmptySeq DEF Text
    <3>7. PICK u : u = [r EXCEPT !.requestBuffer = y]
      OBVIOUS
    <3>8. _trimChunked(r) = u
      <4>1. Erase(r, 2) = u
        BY <2>2, <3>3, <3>7 DEF Erase
      <4>2. ~(r.chunkSizeRemaining > 0)
        BY <2>5
      <4> QED BY <2>2, <2>6, <4>1, <4>2 DEF _trimChunked
    <3>9. /\ u.requestBuffer = y /\ u.body = r.body /\ u.isComplete = r.isComplete
          /\ u.chunkSizeRemaining = r.chunkSizeRemaining /\ u.errorCode = r.errorCode
          /\ u.currentFunction = r.currentFunction /\ u.headers = r.headers
          /\ u.method = r.method /\ u.rawPath = r.rawPath
      BY <3>7 DEF Requests
    <3>10. BehindChunk(m, dt, tt, u, w, k)
      BY <2>2, <2>5, <3>5, <3>6, <3>9 DEF BehindChunk
    <3> QED BY <3>8, <3>9, <3>10 DEF ChunksUnderWay, SameHead
  <2>7. CASE ~IsPrefix(CRLF, x)
    <3>1. ~IsPrefix(<<"LF">>, x)
      <4> SUFFICES ASSUME IsPrefix(<<"LF">>, x) PROVE FALSE
        OBVIOUS
      <4>1. PICK l : l = <<"LF">>
        OBVIOUS
      <4>2. Len(l) = 1 /\ l[1] = "LF" /\ l \in Text
        BY <4>1 DEF Text, Symbols
      <4>3. Len(l) <= Len(x) /\ SubSeq(l, 1, Len(l)) = SubSeq(x, 1, Len(l))
        BY <4>1 DEF IsPrefix
      <4>4. 1 <= Len(x) /\ SubSeq(l, 1, 1) = SubSeq(x, 1, 1)
        BY <4>2, <4>3
      <4>5. SubSeq(l, 1, 1)[1] = l[1] /\ SubSeq(x, 1, 1)[1] = x[1]
        <5>1. Len(x) \in Nat
          BY TextLength
        <5>2. IsPiece(SubSeq(l, 1, 1), l, 0, 1) /\ IsPiece(SubSeq(x, 1, 1), x, 0, 1)
          <6>1. 1 \in 0..Len(l) /\ 1 \in 0..Len(x)
            BY <4>2, <4>4, <5>1
          <6>2. IsPiece(SubSeq(l, 1, 1), l, 0, 1)
            BY ONLY <4>2, <6>1, SplitAt
          <6>3. IsPiece(SubSeq(x, 1, 1), x, 0, 1)
            BY ONLY <6>1, SplitAt, x \in Text
          <6> QED BY <6>2, <6>3
        <5>3. 1 \in 1..(1 - 0) /\ 0 + 1 = 1
          OBVIOUS
        <5> QED BY ONLY <5>2, <5>3 DEF IsPiece
      <4>6. PICK y \in Text : y = x \o w /\ y = e \o t
        BY <2>4, Joined
      <4>7. y[1] = x[1]
        <5>1. Len(x) \in Nat
          BY TextLength
        <5>2. \A i \in 1..Len(x) : (x \o w)[i] = x[i]
          BY Joined
        <5>3. 1 \in 1..Len(x)
          BY <4>4, <5>1
        <5>4. (x \o w)[1] = x[1]
          BY ONLY <5>2, <5>3
        <5> QED BY ONLY <4>6, <5>4
      <4>8. y[1] = "CR"
        <5>1. \A i \in 1..Len(e) : (e \o t)[i] = e[i]
          BY Joined
        <5>2. Len(e) = 2 /\ e[1] = "CR"
          BY <2>3, LineEnd
        <5> QED BY <4>6, <5>1, <5>2
      <4> QED BY <4>2, <4>4, <4>5, <4>7, <4>8
    <3>2. _trimChunked(r) = r
      BY <2>2, <2>7, <3>1 DEF _trimChunked
    <3> QED BY <1>1, <3>2
  <2> QED BY <2>6, <2>7
<1> QED BY <1>2, <1>3

\* Some of the data of a chunk is copied (_addChunkData).
LEMMA DataTurn ==
  ASSUME NEW m \in Messages, NEW dt, NEW tt, Tails(m, dt, tt),
         NEW r \in Requests, NEW w \in Text, NEW k \in 0..Len(m.data), NEW q \in Text,
         InChunk(m, dt, tt, r, w, k, q), r.isComplete = FALSE, r.errorCode = 200
  PROVE  LET u == _addChunkData(r) IN SameHead(r, u) /\ ChunksUnderWay(m, dt, tt, u, w)
<1>1. PICK t, d, n : Copied(r, t, d, n)
  BY ChunkIsCopied
<1>2. PICK x \in Text, y \in Text, b \in Text, body \in Text :
        x = r.requestBuffer /\ y = tt[k] /\ b = dt[k] /\ body = r.body
  BY DEF Tails, Requests
<1>3. PICK z \in Text : z = CRLF \o y
  BY LineEnd, Joined
<1>4. r.chunkSizeRemaining = Len(q) /\ body \o (q \o b) = Data(m) /\ x \o w = q \o z
  BY <1>2, <1>3 DEF InChunk
<1>5. Len(x) \in Nat /\ Len(q) \in Nat
  BY TextLength
<1>6. n \in 0..Len(x) /\ n <= Len(q) /\ d \in Text
  BY <1>1, <1>2, <1>4 DEF Copied, IsPiece
<1>7. n \in Nat /\ n <= Len(x)
  BY <1>5, <1>6
<1>8. Split(x, w, q, z, n)
  BY <1>4, <1>6, <1>7, SplitBoth
<1>9. d = SubSeq(x, 1, n)
  BY <1>1, <1>2, <1>8 DEF Copied
<1>10. PICK p \in Text : p = SubSeq(q, n + 1, Len(q)) /\ Len(p) = Len(q) - n
  BY <1>8 DEF Split
<1>11. PICK left : left = SubSeq(x, n + 1, Len(x)) /\ left \o w = p \o z
  BY <1>8, <1>10 DEF Split
<1>12. q = d \o p
  BY <1>8, <1>9, <1>10 DEF Split
<1>13. PICK c, i : c = body \o d /\ i = Len(q) - n
  OBVIOUS
<1>14. t = [r EXCEPT !.requestBuffer = left, !.body = c, !.chunkSizeRemaining = i]
       /\ t \in Requests
  BY <1>1, <1>2, <1>4, <1>11, <1>13 DEF Copied
<1>15. /\ t.requestBuffer = left /\ t.body = c /\ t.chunkSizeRemaining = i
       /\ t.isComplete = r.isComplete /\ t.errorCode = r.errorCode
       /\ t.currentFunction = r.currentFunction /\ t.headers = r.headers
       /\ t.method = r.method /\ t.rawPath = r.rawPath
  BY <1>14 DEF Requests
<1>16. c \o (p \o b) = body \o (q \o b)
  <2>1. \A e, f, g \in Text : Cat(Cat(e, f), g) = Cat(e, Cat(f, g))
    BY CatAssoc DEF Text
  <2>2. PICK pb \in Text : pb = Cat(p, b)
    BY CatIn DEF Text
  <2>3. Cat(Cat(body, d), pb) = Cat(body, Cat(d, pb))
    BY <1>6, <2>1
  <2>4. Cat(Cat(d, p), b) = Cat(d, pb)
    BY <1>6, <2>1, <2>2
  <2> QED BY <1>12, <1>13, <2>2, <2>3, <2>4 DEF Cat
<1>17. InChunk(m, dt, tt, t, w, k, p)
  BY <1>2, <1>3, <1>4, <1>10, <1>11, <1>13, <1>15, <1>16 DEF InChunk
<1>18. t.isComplete = FALSE /\ t.errorCode = 200
  BY <1>15
<1>19. PICK u : u = _trimChunked(t) /\ SameHead(t, u) /\ ChunksUnderWay(m, dt, tt, u, w)
  BY <1>14, <1>17, <1>18, TrimTurn
<1>20. u \in Requests
  BY <1>14, <1>19, TrimChunkedTyped
<1>21. SameHead(r, u)
  BY <1>15, <1>19 DEF SameHead
<1>22. PICK v : v = [u EXCEPT !.errorCode = 413, !.isComplete = FALSE]
  OBVIOUS
<1>23. /\ v.errorCode = 413 /\ v.body = u.body
       /\ v.currentFunction = u.currentFunction /\ v.headers = u.headers
       /\ v.method = u.method /\ v.rawPath = u.rawPath
  BY <1>20, <1>22 DEF Requests
<1>24. ChunksUnderWay(m, dt, tt, v, w) /\ SameHead(r, v)
  <2>1. IsPartOf(m, v.body)
    BY <1>19, <1>23, UnderWayIsPart
  <2>2. isError(v)
    BY <1>23 DEF isError
  <2> QED BY <1>21, <1>23, <2>1, <2>2 DEF ChunksUnderWay, SameHead
<1>25. _addChunkData(r) = u \/ _addChunkData(r) = v
  BY <1>1, <1>19, <1>22 DEF Copied
<1> QED BY <1>19, <1>21, <1>24, <1>25

\* A turn of the loop over the chunks stays in them (_parseChunkedBody).
LEMMA ChunkTurn ==
  ASSUME NEW m \in Messages, m.chunked, NEW dt, NEW tt, Tails(m, dt, tt),
         NEW r \in Requests, NEW w \in Text, ChunksUnderWay(m, dt, tt, r, w)
  PROVE  LET u == ParseChunk(r) IN SameHead(r, u) /\ ChunksUnderWay(m, dt, tt, u, w)
<1>1. CASE r.requestBuffer = <<>> \/ r.isComplete \/ isError(r)
  <2>1. ParseChunk(r) = r
    BY <1>1 DEF ParseChunk
  <2> QED BY <2>1 DEF SameHead
<1>2. CASE ~(r.requestBuffer = <<>> \/ r.isComplete \/ isError(r))
  <2>1. r.isComplete = FALSE /\ r.errorCode = 200
    BY <1>2 DEF ChunksUnderWay
  <2>2. PICK k \in 0..Len(m.data) :
          \/ BehindChunk(m, dt, tt, r, w, k)
          \/ \E q \in Text : InChunk(m, dt, tt, r, w, k, q)
    BY <1>2 DEF ChunksUnderWay
  <2>3. PICK u, v : u = _setChunkSize(r) /\ v = _addChunkData(r)
    OBVIOUS
  <2>4. HasSizes(m)
    BY MessagesAssumption DEF HasSizes
  <2>5. CASE BehindChunk(m, dt, tt, r, w, k)
    <3>1. SameHead(r, _setChunkSize(r)) /\ ChunksUnderWay(m, dt, tt, _setChunkSize(r), w)
      BY ONLY <2>1, <2>5, <2>4, BehindChunkTurn, m \in Messages,
              Tails(m, dt, tt), r \in Requests, w \in Text, k \in 0..Len(m.data)
    <3>2. ParseChunk(r) = u
      BY <1>2, <2>3, <2>5 DEF ParseChunk, BehindChunk
    <3> QED BY <2>3, <3>1, <3>2
  <2>6. CASE \E q \in Text : InChunk(m, dt, tt, r, w, k, q)
    <3>1. PICK q \in Text : InChunk(m, dt, tt, r, w, k, q)
      BY <2>6
    <3>2. r.chunkSizeRemaining = Len(q)
      BY <3>1 DEF InChunk
    <3>3. CASE Len(q) = 0
      <4>1. SameHead(r, _setChunkSize(r)) /\ ChunksUnderWay(m, dt, tt, _setChunkSize(r), w)
        BY ONLY <2>1, <3>1, <3>3, LateEndTurn, m \in Messages,
                Tails(m, dt, tt), r \in Requests, w \in Text, k \in 0..Len(m.data)
      <4>2. ParseChunk(r) = u
        BY <1>2, <2>3, <3>2, <3>3 DEF ParseChunk
      <4> QED BY <2>3, <4>1, <4>2
    <3>4. CASE Len(q) # 0
      <4>1. SameHead(r, v) /\ ChunksUnderWay(m, dt, tt, v, w)
        BY ONLY <2>1, <2>3, <3>1, DataTurn, m \in Messages,
                Tails(m, dt, tt), r \in Requests, w \in Text, k \in 0..Len(m.data)
      <4>2. ParseChunk(r) = v
        BY <1>2, <2>3, <3>2, <3>4 DEF ParseChunk
      <4> QED BY <4>1, <4>2
    <3> QED BY <3>3, <3>4
  <2> QED BY <2>2, <2>5, <2>6
<1> QED BY <1>1, <1>2

\* What has arrived of the chunks is read, all of it or up to a mistake (_setBody).
LEMMA ChunksAreTaken ==
  ASSUME NEW m \in Messages, m.chunked, NEW r \in Requests, NEW w \in Text,
         InChunks(m, r, w)
  PROVE  InChunks(m, _setBody(r), w)
<1>1. PICK dt, tt : Tails(m, dt, tt) /\ ChunksUnderWay(m, dt, tt, r, w)
  BY DEF InChunks
<1>2. PICK S : S = {t \in Requests : /\ t.currentFunction = "_setBody"
                                     /\ t.headers = HeadersOf(m)
                                     /\ t.method = m.method /\ t.rawPath = m.path
                                     /\ ChunksUnderWay(m, dt, tt, t, w)}
  OBVIOUS
<1>3. S \in SUBSET Requests /\ r \in S
  BY <1>1, <1>2 DEF InChunks
<1>4. ASSUME NEW t \in S PROVE ParseChunk(t) \in S
  <2>1. t \in Requests /\ ChunksUnderWay(m, dt, tt, t, w)
        /\ t.currentFunction = "_setBody" /\ t.headers = HeadersOf(m)
        /\ t.method = m.method /\ t.rawPath = m.path
    BY <1>2
  <2>2. PICK u : u = ParseChunk(t)
    OBVIOUS
  <2>3. SameHead(t, u) /\ ChunksUnderWay(m, dt, tt, u, w)
    BY ONLY <1>1, <2>1, <2>2, ChunkTurn, m \in Messages, m.chunked, w \in Text
  <2>4. u \in Requests
    BY <2>1, <2>2, ParseChunkTyped
  <2>5. u.currentFunction = "_setBody" /\ u.headers = HeadersOf(m)
        /\ u.method = m.method /\ u.rawPath = m.path
    BY <2>1, <2>3 DEF SameHead
  <2> QED BY <1>2, <2>2, <2>3, <2>4, <2>5
<1>5. PICK u : u = _parseChunkedBody(r) /\ u \in S
  BY <1>3, <1>4, ChunksAreRead
<1>6. ChunkedLine \in r.headers
  BY DEF InChunks, HeadersOf
<1>7. _setBody(r) = u
  BY <1>5, <1>6 DEF _setBody, ChunkedLine
<1>8. InChunks(m, u, w)
  <2>1. /\ u.currentFunction = "_setBody" /\ u.headers = HeadersOf(m)
        /\ u.method = m.method /\ u.rawPath = m.path
        /\ ChunksUnderWay(m, dt, tt, u, w)
    BY <1>2, <1>5
  <2> QED BY <1>1, <2>1 DEF InChunks
<1> QED BY <1>7, <1>8

\* The first chunk comes behind the headers.
LEMMA HeadersBeforeChunks ==
  ASSUME NEW m \in Messages, m.chunked, NEW u \in Requests, NEW w \in Text,
         AfterHeaders(m, u), u.requestBuffer \o w = Payload(m)
  PROVE  InChunks(m, u, w)
<1>1. PICK dt, tt : Tails(m, dt, tt)
  BY TailsOf
<1>2. PICK d \in Text : d = Data(m)
  BY DataIs
<1>3. u.body = <<>> /\ u.chunkSizeRemaining = 0 /\ u.errorCode = 200
      /\ u.isComplete = (Announced(m) = 0)
      /\ u.currentFunction = "_setBody" /\ u.headers = HeadersOf(m)
      /\ u.method = m.method /\ u.rawPath = m.path
  BY DEF AfterHeaders, HasStartLine
<1>4. u.body \o d = d
  BY <1>2, <1>3, ConcatEmptySeq DEF Text
<1>5. CASE Announced(m) = 0
  <2>1. IsPartOf(m, u.body)
    BY <1>2, <1>4 DEF IsPartOf
  <2>2. u.isComplete
    BY <1>3, <1>5
  <2>3. ChunksUnderWay(m, dt, tt, u, w)
    BY <2>1, <2>2 DEF ChunksUnderWay
  <2> QED BY <1>1, <1>3, <2>3 DEF InChunks
<1>6. CASE Announced(m) # 0
  <2>1. BehindChunk(m, dt, tt, u, w, 0)
    BY <1>1, <1>2, <1>3, <1>4 DEF BehindChunk, Tails
  <2>2. 0 \in 0..Len(m.data)
    BY DataIs
  <2>3. u.isComplete = FALSE
    BY <1>3, <1>6
  <2>4. ChunksUnderWay(m, dt, tt, u, w)
    BY <1>3, <2>1, <2>2, <2>3 DEF ChunksUnderWay
  <2> QED BY <1>1, <1>3, <2>4 DEF InChunks
<1> QED BY <1>5, <1>6

\* Between two calls, for every message.
Arrives(m, r, w) ==
  \/ Follows(m, r, w)
  \/ m.chunked /\ InChunks(m, r, w)

\* A call leaves the parser where the chunked message is (parseRequest).
LEMMA ChunkedFollows ==
  ASSUME NEW m \in Messages, m.chunked, NEW r \in Requests, NEW x \in Text, NEW w \in Text,
         Arrives(m, r, x \o w), ~r.isComplete, ~isError(r)
  PROVE  Arrives(m, parseRequest(r, x), w)
<1>1. CASE InChunks(m, r, x \o w)
  <2>1. PICK dt, tt : Tails(m, dt, tt) /\ ChunksUnderWay(m, dt, tt, r, x \o w)
    BY <1>1 DEF InChunks
  <2>2. PICK b \in Text : b = r.requestBuffer \o x
    BY Joined DEF Requests
  <2>3. b \o w = r.requestBuffer \o (x \o w)
    <3>1. r.requestBuffer \in Text
      BY DEF Requests
    <3>2. (r.requestBuffer \o x) \o w = r.requestBuffer \o (x \o w)
      BY <3>1, JoinedTwice
    <3> QED BY <2>2, <3>2
  <2>4. PICK t \in Requests : t = [r EXCEPT !.requestBuffer = b]
    BY DEF Requests
  <2>5. t = [r EXCEPT !.requestBuffer = @ \o x]
    BY <2>2, <2>4
  <2>6. /\ t.requestBuffer = b
        /\ t.currentFunction = r.currentFunction /\ t.headers = r.headers
        /\ t.method = r.method /\ t.rawPath = r.rawPath
        /\ t.chunkSizeRemaining = r.chunkSizeRemaining /\ t.body = r.body
        /\ t.isComplete = r.isComplete /\ t.errorCode = r.errorCode
    BY <2>4 DEF Requests
  <2>7. r.isComplete = FALSE /\ r.errorCode = 200
    BY <2>1 DEF ChunksUnderWay
  <2>8. PICK k \in 0..Len(m.data) :
          \/ BehindChunk(m, dt, tt, r, x \o w, k)
          \/ \E q \in Text : InChunk(m, dt, tt, r, x \o w, k, q)
    BY <2>1 DEF ChunksUnderWay
  <2>9. \/ BehindChunk(m, dt, tt, t, w, k)
        \/ \E q \in Text : InChunk(m, dt, tt, t, w, k, q)
    <3>1. CASE BehindChunk(m, dt, tt, r, x \o w, k)
      BY <2>3, <2>6, <3>1 DEF BehindChunk
    <3>2. CASE \E q \in Text : InChunk(m, dt, tt, r, x \o w, k, q)
      <4>1. PICK q \in Text : InChunk(m, dt, tt, r, x \o w, k, q)
        BY <3>2
      <4>2. InChunk(m, dt, tt, t, w, k, q)
        BY <2>3, <2>6, <4>1 DEF InChunk
      <4> QED BY <4>2
    <3> QED BY <2>8, <3>1, <3>2
  <2>10. ChunksUnderWay(m, dt, tt, t, w)
    BY <2>6, <2>7, <2>9 DEF ChunksUnderWay
  <2>11. InChunks(m, t, w)
    BY <1>1, <2>1, <2>6, <2>10 DEF InChunks
  <2>12. parseRequest(r, x) = _setBody(t)
    BY <1>1, <2>5, <2>6 DEF parseRequest, InChunks
  <2>13. InChunks(m, _setBody(t), w)
    BY <2>11, ChunksAreTaken
  <2> QED BY <2>12, <2>13 DEF Arrives
<1>2. CASE ~InChunks(m, r, x \o w)
  <2>1. ~Refused(m, r)
    BY DEF Refused, isError
  <2>2. LinesCalled(m, r, x, w)
    BY <1>2, <2>1, LinesAreCalled DEF Follows, Arrives
  <2>3. ASSUME NEW u \in Requests, AfterHeaders(m, u), u.requestBuffer \o w = Payload(m),
               parseRequest(r, x) = _setBody(u)
        PROVE  Arrives(m, parseRequest(r, x), w)
    <3>1. InChunks(m, u, w)
      BY <2>3, HeadersBeforeChunks
    <3>2. InChunks(m, _setBody(u), w)
      BY <3>1, ChunksAreTaken
    <3> QED BY <2>3, <3>2 DEF Arrives
  <2> QED BY <2>2, <2>3 DEF LinesCalled, Arrives
<1> QED BY <1>1, <1>2

\* A call leaves the parser where the message is (parseRequest).
LEMMA MessageArrives ==
  ASSUME NEW m \in Messages, NEW r \in Requests, NEW x \in Text, NEW w \in Text,
         Arrives(m, r, x \o w), ~r.isComplete, ~isError(r)
  PROVE  parseRequest(r, x) \in Requests /\ Arrives(m, parseRequest(r, x), w)
<1>1. parseRequest(r, x) \in Requests
  BY ParseRequestTyped
<1>2. CASE m.chunked
  BY <1>1, <1>2, ChunkedFollows
<1>3. CASE ~m.chunked
  <2>1. Follows(m, r, x \o w)
    BY <1>3 DEF Arrives
  <2>2. Follows(m, parseRequest(r, x), w)
    BY <1>3, <2>1, PlainFollows
  <2> QED BY <1>1, <2>2 DEF Arrives
<1> QED BY <1>2, <1>3

----------------------------------------------------------------------------
(* What has become of a message when all of it has arrived.                *)

\* Nothing of a message is left to be received when the last line of it has arrived.
LEMMA LinesEnd ==
  ASSUME NEW m \in Messages, NEW r \in Requests, NEW w \in Text, FirstLF(r) = 0,
         \/ AtTheStart(r) /\ r.requestBuffer \o w = Bytes(m)
         \/ InHeaders(m, r, w)
  PROVE  w # <<>>
<1>0. r.requestBuffer \in Text
  BY DEF Requests
<1>1. PICK a, b, c, d :
        /\ a = FromLength(m) /\ b = FromChunked(m) /\ c = FromEnd(m) /\ d = Payload(m)
        /\ a \in Text /\ b \in Text /\ c \in Text /\ d \in Text
  BY BytesAre, PayloadIs
<1>2. IsALine(StartLine(m)) /\ IsALine(ChunkedLine) /\ IsALine(<<>>)
      /\ (m.length # "" => IsALine(LengthLine(m)))
  BY LinesOf
<1>3. Bytes(m) = StartLine(m) \o CRLF \o a
  BY <1>1, BytesAre
<1>4. c = <<>> \o CRLF \o d
  BY <1>1 DEF FromEnd
<1>5. b = c \/ b = ChunkedLine \o CRLF \o c
  BY <1>1 DEF FromChunked
<1>6. a = b \/ (m.length # "" /\ a = LengthLine(m) \o CRLF \o b)
  BY <1>1 DEF FromLength
<1>7. PICK l, rest : IsALine(l) /\ rest \in Text /\ r.requestBuffer \o w = l \o CRLF \o rest
  <2>1. CASE r.requestBuffer \o w = Bytes(m)
    BY <1>1, <1>2, <1>3, <2>1
  <2>2. CASE r.requestBuffer \o w = c
    BY <1>1, <1>2, <1>4, <2>2
  <2>3. CASE r.requestBuffer \o w = b
    BY <1>1, <1>2, <1>5, <2>2, <2>3
  <2>4. CASE r.requestBuffer \o w = a
    BY <1>1, <1>2, <1>6, <2>3, <2>4
  <2> QED BY <1>1, <2>1, <2>2, <2>3, <2>4 DEF InHeaders
<1> QED BY <1>0, <1>7, NoLineYet

\* A message that is not chunked and has arrived is refused, or in the body.
LEMMA AllArrived ==
  ASSUME NEW m \in Messages, ~m.chunked, NEW r \in Requests, Arrives(m, r, <<>>)
  PROVE  Refused(m, r) \/ InBody(m, r, <<>>)
BY LinesEnd, EmptyText DEF Arrives, Follows

\* The end of the body is the end of the message.
LEMMA BodyEnds ==
  ASSUME NEW m \in Messages, ~m.chunked, NEW r \in Requests, NEW w \in Text,
         InBody(m, r, w)
  PROVE  /\ r.isComplete <=> w = <<>>
         /\ w = <<>> => r.body = Data(m)
<1>1. PICK b \in Text : b = r.body
  BY DEF Requests
<1>2. b \o w = Data(m) /\ r.isComplete = (Len(b) >= Announced(m))
  BY <1>1 DEF InBody
<1>3. Len(b) \in Nat /\ Len(w) \in Nat /\ Len(b \o w) = Len(b) + Len(w)
  BY Joined
<1>4. Len(Data(m)) = Announced(m) /\ Announced(m) \in Nat
  BY AnnouncedIs
<1>5. (Len(b) >= Announced(m)) <=> Len(w) = 0
  BY <1>2, <1>3, <1>4
<1>6. w = <<>> <=> Len(w) = 0
  BY TextLength
<1>7. r.isComplete <=> w = <<>>
  BY <1>2, <1>5, <1>6
<1>8. ASSUME w = <<>> PROVE r.body = Data(m)
  <2>1. b \o <<>> = b
    BY ConcatEmptySeq DEF Text
  <2> QED BY <1>1, <1>2, <1>8, <2>1
<1> QED BY <1>7, <1>8

\* There is one request a message that is not chunked can end as.
LEMMA OneEnd ==
  ASSUME NEW m \in Messages, ~m.chunked, NEW r \in Requests, NEW u \in Requests,
         InBody(m, r, <<>>), InBody(m, u, <<>>)
  PROVE  r = u
<1>1. /\ r.isComplete /\ u.isComplete /\ r.body = Data(m) /\ u.body = Data(m)
  BY BodyEnds, EmptyText
<1>2. r.isComplete = u.isComplete
  BY <1>1 DEF Requests
<1>3. /\ r.currentFunction = u.currentFunction /\ r.requestBuffer = u.requestBuffer
      /\ r.method = u.method /\ r.rawPath = u.rawPath /\ r.version = u.version
      /\ r.headers = u.headers /\ r.contentLength = u.contentLength
      /\ r.bodyBytesReceived = u.bodyBytesReceived
      /\ r.chunkSizeRemaining = u.chunkSizeRemaining /\ r.body = u.body
      /\ r.errorCode = u.errorCode
  BY <1>1 DEF InBody, BodyUnderWay
<1> QED BY <1>2, <1>3 DEF Requests

\* What is in the body begins the data.
LEMMA PartIsPrefix ==
  ASSUME NEW m \in Messages, NEW b \in Text, IsPartOf(m, b)
  PROVE  IsPrefix(b, Data(m))
<1>1. PICK rest \in Text : b \o rest = Data(m)
  BY DEF IsPartOf
<1>2. PICK d \in Text : d = Data(m)
  BY DataIs
<1>3. d \o <<>> = d
  BY ConcatEmptySeq DEF Text
<1>4. PICK n \in Nat : n = Len(b) /\ n <= Len(b) /\ n <= Len(d)
  <2>1. /\ Len(b) \in Nat /\ Len(rest) \in Nat /\ Len(b \o rest) = Len(b) + Len(rest)
    BY Joined
  <2>2. Len(d) = Len(b) + Len(rest)
    BY <1>1, <1>2, <2>1
  <2> QED BY <2>1, <2>2
<1>5. PICK e \in Text : e = <<>>
  BY EmptyText
<1>6. b \o rest = d \o e
  BY <1>1, <1>2, <1>3, <1>5
<1>7. Split(b, rest, d, e, n)
  BY ONLY <1>4, <1>6, SplitBoth, b \in Text, rest \in Text, d \in Text, e \in Text, n \in Nat
<1>8. SubSeq(b, 1, n) = SubSeq(d, 1, n)
  BY <1>7 DEF Split
<1> QED BY <1>2, <1>4, <1>8 DEF IsPrefix

\* A chunked message has the beginning of its data in the body.
LEMMA ChunkedPart ==
  ASSUME NEW m \in Messages, m.chunked, NEW r \in Requests, NEW w, Arrives(m, r, w)
  PROVE  IsPrefix(r.body, Data(m))
<1>1. r.body \in Text
  BY DEF Requests
<1>2. CASE r.body = <<>>
  <2>1. PICK d \in Text : d = Data(m)
    BY DataIs
  <2>2. <<>> \o d = d
    BY ConcatEmptySeq DEF Text
  <2>3. IsPartOf(m, r.body)
    BY <1>2, <2>1, <2>2 DEF IsPartOf
  <2> QED BY <1>1, <2>3, PartIsPrefix
<1>3. CASE InChunks(m, r, w)
  <2>1. IsPartOf(m, r.body)
    BY <1>3, UnderWayIsPart DEF InChunks
  <2> QED BY <1>1, <2>1, PartIsPrefix
<1> QED BY <1>2, <1>3
        DEF Arrives, Follows, AtTheStart, InHeaders, HasStartLine, Refused

----------------------------------------------------------------------------
(* The connection.                                                         *)

\* Nothing has come since the parser was made or reset.
Idle(r) == AtTheStart(r) /\ r.requestBuffer = <<>>

\* Short of a chunked message before it, a message begins in a parser that is idle and
\* arrives in order, and the parser is idle again after the answer.
ParserInvariant ==
  /\ req \in Requests /\ before \in Requests /\ wire \in Text
  /\ cur \in Messages \cup {NoMessage}
  /\ answered \in BOOLEAN /\ clean \in BOOLEAN /\ sent \in 0..MaxMessages
  /\ answered /\ clean /\ ~cur.chunked => Idle(req) /\ wire = <<>>
  /\ ~answered => cur \in Messages
  /\ ~answered /\ clean => Idle(before) /\ Arrives(cur, req, wire)

\* A message begins in an idle parser.
LEMMA IdleArrives ==
  ASSUME NEW m \in Messages, NEW r \in Requests, Idle(r)
  PROVE  Arrives(m, r, Bytes(m)) /\ ~r.isComplete /\ ~isError(r)
<1>1. r.requestBuffer \in Text /\ r.requestBuffer = <<>>
  BY DEF Idle, Requests
<1>2. PICK b \in Text : b = Bytes(m)
  BY BytesAre
<1>3. r.requestBuffer \o b = b
  BY <1>1, <1>2, ConcatEmptySeq DEF Text
<1>4. FirstLF(r) = 0
  <2>1. FirstLF(r) \in 0..Len(r.requestBuffer)
    BY <1>1, FirstLFIs
  <2>2. Len(r.requestBuffer) = 0
    BY <1>1, EmptyText
  <2> QED BY <2>1, <2>2
<1> QED BY <1>2, <1>3, <1>4 DEF Idle, AtTheStart, Arrives, Follows, isError

\* The first parser is idle.
LEMMA InitParser == Init => ParserInvariant
<1> SUFFICES ASSUME Init PROVE ParserInvariant
  OBVIOUS
<1>1. req \in Requests /\ before \in Requests /\ wire \in Text
  BY NewRequestTyped, EmptyText DEF Init
<1>2. Idle(req)
  BY DEF Init, NewRequest, Idle, AtTheStart
<1> QED BY <1>1, <1>2, LimitsAssumption DEF Init, ParserInvariant

\* A message is sent to an idle parser, or behind a chunked one.
LEMMA SendParser ==
  ASSUME ParserInvariant, NEW m \in Messages, Send(m)
  PROVE  ParserInvariant'
<1>1. wire' \in Text /\ wire' = Bytes(m)
  BY BytesAre DEF Send
<1>2. /\ req' = req /\ cur' = m /\ answered' = FALSE /\ before' = req
      /\ clean' = (clean /\ ~cur.chunked)
  BY DEF Send
<1>3. sent' \in 0..MaxMessages
  BY LimitsAssumption DEF Send, ParserInvariant
<1>4. clean' \in BOOLEAN
  BY <1>2
<1>5. clean' => Idle(before') /\ Arrives(cur', req', wire')
  <2> SUFFICES ASSUME clean' PROVE Idle(req) /\ Arrives(m, req, Bytes(m))
    BY <1>1, <1>2
  <2>1. Idle(req)
    BY <1>2 DEF ParserInvariant, Send
  <2>2. req \in Requests
    BY DEF ParserInvariant
  <2> QED BY <2>1, <2>2, IdleArrives
<1> QED BY <1>1, <1>2, <1>3, <1>4, <1>5 DEF ParserInvariant

\* A call keeps the message in order.
LEMMA ReceiveParser ==
  ASSUME ParserInvariant, NEW n \in 1..Len(wire), Receive(n)
  PROVE  ParserInvariant'
<1>1. PICK w, x, y, r :
        /\ w = wire /\ x = SubSeq(wire, 1, n) /\ y = SubSeq(wire, n + 1, Len(wire)) /\ r = req
  OBVIOUS
<1>2. w \in Text /\ r \in Requests
  BY <1>1 DEF ParserInvariant
<1>3. n \in 0..Len(w)
  BY <1>1, <1>2, TextLength
<1>4. x \in Text /\ y \in Text /\ w = x \o y
  BY <1>1, <1>2, <1>3, SplitAt DEF IsPiece
<1>5. req' = parseRequest(r, x) /\ wire' = y
      /\ UNCHANGED <<cur, answered, sent, before, clean>>
      /\ ~r.isComplete /\ ~isError(r)
  BY <1>1 DEF Receive
<1>6. req' \in Requests /\ wire' \in Text
  BY <1>2, <1>4, <1>5, ParseRequestTyped
<1>7. w # <<>>
  BY <1>1, <1>2, TextLength
<1>8. ASSUME answered', clean', ~cur'.chunked PROVE FALSE
  BY <1>1, <1>5, <1>7, <1>8 DEF ParserInvariant
<1>9. ASSUME ~answered', clean' PROVE Idle(before') /\ Arrives(cur', req', wire')
  <2>1. PICK m \in Messages : m = cur /\ Arrives(m, r, w) /\ Idle(before)
    BY <1>1, <1>5, <1>9 DEF ParserInvariant
  <2>2. Arrives(m, r, x \o y)
    BY <1>4, <2>1
  <2>3. Arrives(m, parseRequest(r, x), y)
    BY ONLY <1>2, <1>4, <1>5, <2>2, MessageArrives, m \in Messages
  <2> QED BY <1>5, <2>1, <2>3
<1> QED BY <1>5, <1>6, <1>8, <1>9 DEF ParserInvariant

\* The answer leaves an idle parser (reset).
LEMMA AnswerParser ==
  ASSUME ParserInvariant, Answer
  PROVE  ParserInvariant'
<1>1. PICK r \in Requests : r = req /\ r.isComplete
  BY DEF ParserInvariant, Answer
<1>2. reset(r) \in Requests
  BY NewRequestTyped DEF reset, Requests
<1>3. /\ AtTheStart(reset(r)) /\ reset(r).requestBuffer = r.requestBuffer
  BY DEF reset, NewRequest, AtTheStart
<1>4. req' = reset(r) /\ answered' = TRUE /\ UNCHANGED <<wire, cur, sent, before, clean>>
  BY <1>1 DEF Answer
<1>5. ASSUME clean, ~cur.chunked PROVE Idle(req') /\ wire' = <<>>
  <2>1. ~Idle(r)
    BY <1>1 DEF Idle, AtTheStart
  <2>2. ~answered
    BY <1>1, <1>5, <2>1 DEF ParserInvariant
  <2>3. PICK m \in Messages, w \in Text : m = cur /\ w = wire /\ Arrives(m, r, w)
    BY <1>1, <1>5, <2>2 DEF ParserInvariant
  <2>4. InBody(m, r, w)
    BY <1>1, <1>5, <2>3 DEF Arrives, Follows, AtTheStart, InHeaders, Refused
  <2>5. w = <<>>
    BY <1>1, <1>5, <2>3, <2>4, BodyEnds
  <2>6. r.requestBuffer = <<>>
    BY <2>4 DEF InBody
  <2> QED BY <1>3, <1>4, <2>3, <2>5, <2>6 DEF Idle
<1> QED BY <1>2, <1>4, <1>5 DEF ParserInvariant

\* Every step keeps the invariant.
LEMMA NextParser == ParserInvariant /\ [Next]_vars => ParserInvariant'
<1> SUFFICES ASSUME ParserInvariant, [Next]_vars PROVE ParserInvariant'
  OBVIOUS
<1>1. ASSUME NEW m \in Messages, Send(m) PROVE ParserInvariant'
  BY <1>1, SendParser
<1>2. ASSUME NEW n \in 1..Len(wire), Receive(n) PROVE ParserInvariant'
  BY <1>2, ReceiveParser
<1>3. CASE Answer
  BY <1>3, AnswerParser
<1>4. CASE UNCHANGED vars
  BY <1>4 DEF vars, ParserInvariant
<1> QED BY <1>1, <1>2, <1>3, <1>4 DEF Next

\* The invariant holds.
LEMMA AlwaysParser == Spec => []ParserInvariant
BY InitParser, NextParser, PTL DEF Spec

\* The plain message under way is one of the messages, and is arriving.
PlainArrives(m, r, w) ==
  m \in Messages /\ ~m.chunked /\ r \in Requests /\ w \in Text /\ Follows(m, r, w)

\* It is, by the invariant.
LEMMA PlainIs ==
  ASSUME ParserInvariant, Plain
  PROVE  PlainArrives(cur, req, wire)
BY DEF ParserInvariant, Plain, Arrives, PlainArrives

\* A request that is complete has its body and nothing to come.
LEMMA CompleteIsInBody ==
  ASSUME NEW m, NEW r, NEW w, PlainArrives(m, r, w), r.isComplete
  PROVE  InBody(m, r, w) /\ w = <<>> /\ r.body = Data(m)
<1>1. InBody(m, r, w)
  BY DEF PlainArrives, Follows, AtTheStart, InHeaders, Refused
<1> QED BY <1>1, BodyEnds DEF PlainArrives

\* A request that has come and is not refused is complete.
LEMMA ArrivedIsInBody ==
  ASSUME NEW m, NEW r, PlainArrives(m, r, <<>>), ~isError(r)
  PROVE  InBody(m, r, <<>>) /\ r.isComplete
<1>1. m \in Messages /\ r \in Requests /\ ~m.chunked /\ Arrives(m, r, <<>>)
  BY DEF PlainArrives, Arrives
<1>2. ~Refused(m, r)
  BY DEF Refused, isError
<1>3. InBody(m, r, <<>>)
  BY <1>1, <1>2, AllArrived
<1> QED BY <1>1, <1>3, BodyEnds, EmptyText

\* A request that is complete has its own method and path, for all messages of any length
\* and however they are cut; one that is not chunked is complete when its end has come, not
\* before and not later, with the whole body that was sent (parseRequest, _setBody, reset).
THEOREM MessagesEndOnTime == Spec => []CompleteAtTheEnd
<1>1. ParserInvariant => CompleteAtTheEnd
  <2> SUFFICES ASSUME ParserInvariant PROVE CompleteAtTheEnd
    OBVIOUS
  <2>1. TypeOK
    BY DEF TypeOK, ParserInvariant, Requests, MemberFunctions, Codes
  <2>2. CompleteIsWhole
    <3>1. ASSUME Plain, req.isComplete PROVE req.body = Data(cur) /\ wire = <<>>
      BY <3>1, PlainIs, CompleteIsInBody
    <3>2. ASSUME clean, ~answered, req.isComplete
          PROVE  req.method = cur.method /\ req.rawPath = cur.path
      <4>1. PICK m, r, w : m = cur /\ r = req /\ w = wire /\ Arrives(m, r, w)
        BY <3>2 DEF ParserInvariant
      <4>2. InBody(m, r, w) \/ InChunks(m, r, w)
        BY <3>2, <4>1 DEF Arrives, Follows, AtTheStart, InHeaders, Refused
      <4> QED BY <4>1, <4>2 DEF InBody, BodyUnderWay, InChunks
    <3> QED BY <3>1, <3>2 DEF CompleteIsWhole
  <2>3. EndIsSeen
    <3> SUFFICES ASSUME Plain, wire = <<>>, ~isError(req) PROVE req.isComplete
      BY DEF EndIsSeen
    <3>1. PlainArrives(cur, req, <<>>)
      BY PlainIs
    <3> QED BY <3>1, ArrivedIsInBody
  <2> QED BY <2>1, <2>2, <2>3 DEF CompleteAtTheEnd
<1> QED BY <1>1, AlwaysParser, PTL

\* A request is refused for its length or its version only if that is wrong, for every
\* limit there may be, and what is longer is never complete (_setHeader, _setMethod).
THEOREM LimitIsKept == Spec => []LimitIsExact
<1>1. ParserInvariant => LimitIsExact
  <2> SUFFICES ASSUME ParserInvariant, Plain
               PROVE  /\ req.errorCode = 413 => Len(Data(cur)) > MaxContentLength
                      /\ req.errorCode = 505 => cur.version # "HTTP/1.1"
                      /\ req.isComplete => Len(Data(cur)) <= MaxContentLength
    BY DEF LimitIsExact
  <2>1. PICK m, r, w : /\ m = cur /\ r = req /\ w = wire /\ PlainArrives(m, r, w)
    BY PlainIs
  <2>2. Len(Data(m)) = Announced(m)
    BY <2>1, AnnouncedIs DEF PlainArrives
  <2>3. r.errorCode # 200 => Refused(m, r)
    BY <2>1 DEF PlainArrives, Follows, AtTheStart, InHeaders, InBody, BodyUnderWay
  <2>4. r.isComplete => Announced(m) <= MaxContentLength
    BY <2>1, CompleteIsInBody DEF InBody, BodyUnderWay
  <2>5. r.errorCode = 413 => Announced(m) > MaxContentLength
    BY <2>3 DEF Refused
  <2>6. r.errorCode = 505 => m.version # "HTTP/1.1"
    BY <2>3 DEF Refused
  <2> QED BY <2>1, <2>2, <2>4, <2>5, <2>6
<1> QED BY <1>1, AlwaysParser, PTL

\* Wherever a message is cut, the parser ends in the state it would have been in had
\* the message come in one call (parseRequest).
THEOREM CutsAreNotSeen == Spec => []CutsMakeNoDifference
<1>1. ParserInvariant => CutsMakeNoDifference
  <2> SUFFICES ASSUME ParserInvariant, Plain, wire = <<>>, ~isError(req)
               PROVE  req = parseRequest(before, Bytes(cur))
    BY DEF CutsMakeNoDifference
  <2>1. PICK m, r : m = cur /\ r = req /\ PlainArrives(m, r, <<>>) /\ ~isError(r)
    BY PlainIs
  <2>2. m \in Messages /\ ~m.chunked /\ r \in Requests
    BY <2>1 DEF PlainArrives
  <2>3. InBody(m, r, <<>>)
    BY <2>1, ArrivedIsInBody
  <2>4. PICK b \in Requests : b = before /\ Idle(b)
    BY DEF ParserInvariant, Plain
  <2>5. PICK x \in Text : x = Bytes(m)
    BY <2>2, BytesAre
  <2>6. x \o <<>> = x
    BY ConcatEmptySeq DEF Text
  <2>7. Arrives(m, b, x \o <<>>) /\ ~b.isComplete /\ ~isError(b)
    BY <2>2, <2>4, <2>5, <2>6, IdleArrives
  <2>8. PICK e \in Text : e = <<>>
    BY EmptyText
  <2>9. parseRequest(b, x) \in Requests /\ Arrives(m, parseRequest(b, x), e)
    <3>1. Arrives(m, b, x \o e)
      BY <2>7, <2>8
    <3> QED BY ONLY <2>2, <2>7, <3>1, MessageArrives, b \in Requests, x \in Text, e \in Text
  <2>10. PICK u \in Requests : u = parseRequest(b, x) /\ Arrives(m, u, <<>>)
    BY <2>8, <2>9
  <2>11. ~Refused(m, u)
    <3>1. m.version = "HTTP/1.1" /\ Announced(m) <= MaxContentLength
      BY <2>3 DEF InBody, BodyUnderWay
    <3>2. Announced(m) \in Nat
      BY <2>2, AnnouncedIs
    <3> QED BY <3>1, <3>2, LimitsAssumption DEF Refused
  <2>12. InBody(m, u, <<>>)
    BY <2>2, <2>10, <2>11, AllArrived
  <2>13. r = u
    BY <2>2, <2>3, <2>12, OneEnd
  <2> QED BY <2>1, <2>4, <2>5, <2>10, <2>13
<1> QED BY <1>1, AlwaysParser, PTL

\* Chunks of any number and size, cut anywhere, leave the beginning of the data in the
\* body and none of the framing (_setChunkSize, _addChunkData, _trimChunked).
THEOREM ChunksLeaveAPrefix == Spec => []ChunkedBodyIsAPrefix
<1>1. ParserInvariant => ChunkedBodyIsAPrefix
  <2> SUFFICES ASSUME ParserInvariant, cur.chunked, clean, ~answered
               PROVE  IsPrefix(req.body, Data(cur))
    BY DEF ChunkedBodyIsAPrefix
  <2>1. PICK m \in Messages, r \in Requests : m = cur /\ r = req /\ Arrives(m, r, wire)
    BY DEF ParserInvariant
  <2> QED BY <2>1, ChunkedPart
<1> QED BY <1>1, AlwaysParser, PTL

=============================================================================
