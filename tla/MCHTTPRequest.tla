---------------------------- MODULE MCHTTPRequest ---------------------------
(***************************************************************************)
(* TLC instances of HTTPRequest.  A body is made of "x", a byte that means *)
(* nothing to the parser, and of "LF" and "0", which do mean something     *)
(* outside of a body.                                                      *)
(***************************************************************************)
EXTENDS HTTPRequest

SmallNumbers ==
  ("0" :> 0) @@ ("1" :> 1) @@ ("2" :> 2) @@ ("3" :> 3)

Byte == {"x", "LF", "0"}

PlainMessages ==
  {[method |-> "POST", path |-> "/a", version |-> "HTTP/1.1", length |-> ToDigit(Len(b)),
    chunked |-> FALSE, data |-> <<b>>] : b \in SeqOf(Byte, 3)}
  \cup
  [method : {"GET"}, path : {"/a"}, version : {"HTTP/1.1", "HTTP/1.0"}, length : {""},
   chunked : {FALSE}, data : {<<>>}]

Chunks == {<<<<"x">>>>, <<<<"x", "LF">>>>, <<<<"x">>, <<"x">>>>}

ChunkedMessages ==
  [method : {"POST"}, path : {"/b"}, version : {"HTTP/1.1"}, length : {""},
   chunked : {TRUE}, data : Chunks]

\* Chunked, and with a length besides, which the parser needs to read a body.
ChunkedWithLength ==
  [method : {"POST"}, path : {"/b"}, version : {"HTTP/1.1"}, length : {"2"},
   chunked : {TRUE}, data : Chunks]

AllMessages == PlainMessages \cup ChunkedMessages \cup ChunkedWithLength
=============================================================================
