-------------------------------- MODULE Path --------------------------------
(***************************************************************************)
(* Path (src/src/Path.cpp): paths as sequences of characters, kept in a    *)
(* normal form without a slash next to a slash.  What "." and ".." mean is *)
(* left to the file system.                                                *)
(***************************************************************************)
EXTENDS Naturals, SequencesExt

Slash == <<"/">>

\* The positions of p at which Test holds, in order.
Positions(p, Test(_)) ==
  FlattenSeq([i \in 1..Len(p) |-> IF Test(i) THEN <<i>> ELSE <<>>])

Starts(p, i) == i = 1 \/ p[i - 1] = "/"
Ends(p, i) == i = Len(p) \/ p[i + 1] = "/"

\* Path's constructors: no slash after a slash.
normalize(p) ==
  LET kept == Positions(p, LAMBDA i : p[i] # "/" \/ i = 1 \/ p[i - 1] # "/") IN
  [n \in 1..Len(kept) |-> p[kept[n]]]

\* One slash between the two, whichever of them brings it.
join(p, other) ==
  IF p = <<>> \/ other = <<>> THEN normalize(p \o other)
  ELSE IF IsSuffix(Slash, p) /\ IsPrefix(Slash, other) THEN normalize(p \o Tail(other))
  ELSE IF ~IsSuffix(Slash, p) /\ ~IsPrefix(Slash, other)
    THEN normalize(p \o Slash \o other)
  ELSE normalize(p \o other)

startsWith(p, prefix) ==
  IsPrefix(prefix, p) /\ (p = prefix \/ prefix = <<>> \/ p[Len(prefix) + 1] = "/")

\* The prefix "/" is left in place.
removePrefix(p, prefix) ==
  IF startsWith(p, prefix) /\ prefix # Slash
    THEN SubSeq(p, Len(prefix) + 1, Len(p)) ELSE p

KeepsFile(p) == p

\* What is before the last slash.
getDirectory(p) ==
  LET i == SelectLastInSeq(p, LAMBDA c : c = "/") IN
  IF i = 1 THEN Slash ELSE SubSeq(p, 1, i - 1)

\* The names the file system makes of a path: what is between the slashes, "."
\* aside.
Segments(p) ==
  LET names(i) == p[i] # "/" /\ ~(p[i] = "." /\ Starts(p, i) /\ Ends(p, i))
      first == Positions(p, LAMBDA i : names(i) /\ Starts(p, i))
      last  == Positions(p, LAMBDA i : names(i) /\ Ends(p, i))
  IN  [n \in 1..Len(first) |-> SubSeq(p, first[n], last[n])]

isRelative(p) == ~IsPrefix(Slash, p)

makeRelative(p) ==
  IF IsPrefix(<<".", "/">>, p) THEN p ELSE normalize(<<".", "/">> \o p)
=============================================================================
