----------------------------- MODULE HTTPRequest ----------------------------
(***************************************************************************)
(* The request parser (HTTPRequest.cpp) on one keep-alive connection.      *)
(* parseRequest is called with whatever recv has returned, so a message    *)
(* arrives in pieces that end anywhere, and the parser keeps what it needs *)
(* between the calls.  The client sends a message, waits for the answer,   *)
(* and sends the next.                                                     *)
(*                                                                         *)
(* A message is a sequence of symbols: "CR" and "LF", one symbol per word  *)
(* of a line with the blank behind it (a piece that ends inside a word or  *)
(* right after it leaves the parser waiting for the same "LF"), and one    *)
(* symbol per byte of the body.  A body may be read as lines, too, when it *)
(* is left in the buffer; then a symbol of it is a word, which counts as a *)
(* byte.                                                                   *)
(* What the path leads to is left to ServerConfig.tla: the limit on the    *)
(* body is a constant here.                                                *)
(***************************************************************************)
EXTENDS Naturals, FiniteSets, SequencesExt

CONSTANTS
  Messages,          \* what a client may send
  Digit,             \* the words that are numbers, and the numbers
  MaxContentLength,  \* _maxContentLength, from client_max_body_size
  MaxMessages        \* bound: messages on the connection

ASSUME LimitsAssumption == MaxContentLength \in Nat /\ MaxMessages \in Nat

ASSUME DigitAssumption ==
  /\ Digit \in [DOMAIN Digit -> Nat] /\ DOMAIN Digit \subseteq STRING \ {"", "CR", "LF"}
  /\ "0" \in DOMAIN Digit /\ Digit["0"] = 0

VARIABLES
  req,       \* the HTTPRequest
  wire,      \* what is sent and not received yet
  cur,       \* the message sent last
  answered,  \* cur has had its answer
  sent,      \* messages sent
  before,    \* (history) req when cur was sent
  clean      \* (history) no chunked message was sent before cur

vars == <<req, wire, cur, answered, sent, before, clean>>
----------------------------------------------------------------------------
(* The messages.                                                           *)

ToDigit(n) == CHOOSE d \in DOMAIN Digit : Digit[d] = n

CRLF == <<"CR", "LF">>

\* A message has a method, a path, a version, perhaps a length, and its data: one
\* string, or a sequence of chunks to be sent chunked.
Data(m) == FlattenSeq(m.data)

Payload(m) ==
  IF ~m.chunked THEN Data(m)
  ELSE FlattenSeq([i \in 1..Len(m.data) |->
                     <<ToDigit(Len(m.data[i]))>> \o CRLF \o m.data[i] \o CRLF])
       \o <<"0">> \o CRLF \o CRLF

Bytes(m) ==
  <<m.method, m.path, m.version>> \o CRLF
    \o (IF m.length = "" THEN <<>> ELSE <<"Content-Length:", m.length>> \o CRLF)
    \o (IF m.chunked THEN <<"Transfer-Encoding:", "chunked">> \o CRLF ELSE <<>>)
    \o CRLF \o Payload(m)

\* The length of a message that is not chunked is right, and chunks have sizes.
ASSUME MessagesAssumption ==
  \A m \in Messages :
    /\ {m.method, m.path, m.version} \subseteq STRING \ {"CR", "LF"}
    /\ m.length \in {""} \cup DOMAIN Digit /\ m.chunked \in BOOLEAN
    /\ m.data \in Seq(Seq(STRING))
    /\ IF m.chunked
         THEN \A i \in 1..Len(m.data) : \E d \in DOMAIN Digit : Digit[d] = Len(m.data[i])
         ELSE Len(Data(m)) = IF m.length = "" THEN 0 ELSE Digit[m.length]
----------------------------------------------------------------------------
(* The members of HTTPRequest are the fields of a record, its member       *)
(* functions operators from record to record.                              *)

NewRequest ==
  [currentFunction |-> "_setMethod", requestBuffer |-> <<>>,
   method |-> "", rawPath |-> "", version |-> "", headers |-> {},
   contentLength |-> 0, bodyBytesReceived |-> 0, chunkSizeRemaining |-> 0,
   body |-> <<>>, isComplete |-> FALSE, errorCode |-> 200]

\* What reset() leaves is the buffer and the members it forgets.
KeepsReceived(r) ==
  [NewRequest EXCEPT !.requestBuffer = r.requestBuffer, !.rawPath = r.rawPath,
                     !.version = r.version,
                     !.bodyBytesReceived = r.bodyBytesReceived]
reset(r) ==
  [NewRequest EXCEPT !.requestBuffer = r.requestBuffer, !.rawPath = r.rawPath,
                     !.version = r.version]

isError(r) == r.errorCode # 200

\* The first n symbols of the buffer are consumed.
Erase(r, n) ==
  [r EXCEPT !.requestBuffer = SubSeq(@, n + 1, Len(@))]

FirstLF(r) == SelectInSeq(r.requestBuffer, LAMBDA c : c = "LF")

\* The first line of the buffer without its end.
Line(r) ==
  LET l == SubSeq(r.requestBuffer, 1, FirstLF(r) - 1) IN
  IF l # <<>> /\ Last(l) = "CR" THEN Front(l) ELSE l

\* The n-th word that >> finds in a line, or what was there before if there is none; a
\* "CR" is a blank.
Word(line, n, old) ==
  LET at == {i \in 1..Len(line) :
               /\ line[i] # "CR"
               /\ Cardinality({j \in 1..i : line[j] # "CR"}) = n}
  IN  IF at = {} THEN old ELSE line[CHOOSE i \in at : TRUE]

\* startLine >> _method >> _rawPath >> _version, whatever the line is: also what was
\* left in the buffer of the message before.
_setMethod(r, line) ==
  LET t == [r EXCEPT !.method  = Word(line, 1, @),
                     !.rawPath = Word(line, 2, @),
                     !.version = Word(line, 3, @)]
  IN  IF t.version # "HTTP/1.1" THEN [t EXCEPT !.errorCode = 505]
      ELSE [t EXCEPT !.currentFunction = "_setHeader"]

HeaderLength(r) ==
  LET V == {v \in DOMAIN Digit : <<"Content-Length:", v>> \in r.headers} IN
  IF V = {} THEN 0 ELSE Digit[CHOOSE v \in V : TRUE]

AtTheLimit(n) == n >= MaxContentLength
TooLarge(n) == n > MaxContentLength

\* The empty line ends the headers, one with another "CR" too; without a length the
\* request is complete, chunked or not.
_setHeader(r, line) ==
  LET n == HeaderLength(r) IN
  IF line \notin {<<>>, <<"CR">>} THEN [r EXCEPT !.headers = @ \cup {line}]
  ELSE IF TooLarge(n)
    THEN [r EXCEPT !.contentLength = n, !.isComplete = FALSE, !.errorCode = 413]
    ELSE [r EXCEPT !.contentLength = n, !.isComplete = (n = 0) \/ @,
                   !.currentFunction = "_setBody"]

\* A line, if there is one and the headers are not over.
ParseLine(r) ==
  IF FirstLF(r) = 0 \/ isError(r) \/ r.currentFunction = "_setBody" THEN r
  ELSE Erase(IF r.currentFunction = "_setMethod" THEN _setMethod(r, Line(r))
                                                 ELSE _setHeader(r, Line(r)),
             FirstLF(r))

\* A loop that consumes a symbol at least per turn.
Repeat(Turn(_), r) ==
  LET last == Len(r.requestBuffer) + 1
      after[i \in 0..last] == IF i = 0 THEN r ELSE Turn(after[i - 1])
  IN  after[last]
----------------------------------------------------------------------------
(* The body.                                                               *)

\* What is no number, and a line without a word, is size 0.
_setChunkSize(r) ==
  IF FirstLF(r) = 0 THEN r
  ELSE LET line == Line(r)
           word == Word(line, 1, "")
           n == IF word \in DOMAIN Digit THEN Digit[word] ELSE 0
       IN  [Erase(r, FirstLF(r)) EXCEPT !.chunkSizeRemaining = n,
                                        !.isComplete = (n = 0)]

\* The end of a chunk's data, if it is in the buffer already.
_trimChunked(r) ==
  IF r.chunkSizeRemaining > 0 THEN r
  ELSE IF IsPrefix(CRLF, r.requestBuffer) THEN Erase(r, 2)
  ELSE IF IsPrefix(<<"LF">>, r.requestBuffer) THEN Erase(r, 1)
  ELSE r

WholeBuffer(r) == Len(r.requestBuffer)
BytesToCopy(r) ==
  IF r.chunkSizeRemaining <= Len(r.requestBuffer)
    THEN r.chunkSizeRemaining ELSE Len(r.requestBuffer)

_addChunkData(r) ==
  LET n == BytesToCopy(r)
      t == _trimChunked(
             [Erase(r, n) EXCEPT
                !.body = @ \o SubSeq(r.requestBuffer, 1, n),
                !.chunkSizeRemaining = IF n <= @ THEN @ - n ELSE 0])
  IN  IF Len(t.body) >= MaxContentLength
        THEN [t EXCEPT !.errorCode = 413, !.isComplete = FALSE]
        ELSE t

ParseChunk(r) ==
  IF r.requestBuffer = <<>> \/ r.isComplete \/ isError(r) THEN r
  ELSE IF r.chunkSizeRemaining = 0 THEN _setChunkSize(r)
  ELSE _addChunkData(r)

_parseChunkedBody(r) == Repeat(ParseChunk, r)

BodyDone(r) == r.bodyBytesReceived >= r.contentLength

LastPieceOnly(r) ==
  [r EXCEPT !.body = @ \o r.requestBuffer, !.requestBuffer = <<>>,
            !.bodyBytesReceived = Len(r.requestBuffer)]
\* All there is in the buffer belongs to the body, and is cut off at its end.
TakeBody(r) ==
  [r EXCEPT !.body = @ \o r.requestBuffer, !.requestBuffer = <<>>,
            !.bodyBytesReceived = @ + Len(r.requestBuffer)]

_setBody(r) ==
  LET t == TakeBody(r) IN
  IF <<"Transfer-Encoding:", "chunked">> \in r.headers THEN _parseChunkedBody(r)
  ELSE IF BodyDone(t)
    THEN [t EXCEPT !.isComplete = TRUE,
                   !.body = IF Len(@) > t.contentLength
                              THEN SubSeq(@, 1, t.contentLength) ELSE @]
    ELSE t

parseRequest(r, rawRequest) ==
  LET t == [r EXCEPT !.requestBuffer = @ \o rawRequest]
      u == Repeat(ParseLine, t)
  IN  IF t.currentFunction = "_setBody" THEN _setBody(t)
      ELSE IF isError(u) \/ u.currentFunction # "_setBody" THEN u
      ELSE _setBody(u)
----------------------------------------------------------------------------
NoMessage == [method |-> "", path |-> "", version |-> "", length |-> "", chunked |-> FALSE,
              data |-> <<>>]

Init ==
  /\ req = NewRequest
  /\ wire = <<>>
  /\ cur = NoMessage
  /\ answered = TRUE
  /\ sent = 0
  /\ before = NewRequest
  /\ clean = TRUE

\* The client: the next message after the answer to the last, and when nothing is
\* left to be answered: that is done in the call that has received it.
Send(m) ==
  /\ answered /\ wire = <<>> /\ ~req.isComplete
  /\ sent < MaxMessages
  /\ ~isError(req)
  /\ cur' = m
  /\ wire' = Bytes(m)
  /\ answered' = FALSE
  /\ sent' = sent + 1
  /\ before' = req
  /\ clean' = (clean /\ ~cur.chunked)
  /\ UNCHANGED req

\* A turn of _createRequest: recv returns some of what has arrived.  After a
\* request that is complete or in error it is not called again.
Receive(n) ==
  /\ ~req.isComplete /\ ~isError(req)
  /\ req' = parseRequest(req, SubSeq(wire, 1, n))
  /\ wire' = SubSeq(wire, n + 1, Len(wire))
  /\ UNCHANGED <<cur, answered, sent, before, clean>>

\* handleHTTP answers a complete request and resets it.
Answer ==
  /\ req.isComplete
  /\ req' = reset(req)
  /\ answered' = TRUE
  /\ UNCHANGED <<wire, cur, sent, before, clean>>

Next ==
  \/ \E m \in Messages : Send(m)
  \/ \E n \in 1..Len(wire) : Receive(n)
  \/ Answer

Spec == Init /\ [][Next]_vars
----------------------------------------------------------------------------
TypeOK ==
  /\ req.currentFunction \in {"_setMethod", "_setHeader", "_setBody"}
  /\ req.contentLength \in Nat /\ req.chunkSizeRemaining \in Nat
  /\ req.bodyBytesReceived \in Nat
  /\ req.isComplete \in BOOLEAN
  /\ req.errorCode \in {200, 413, 505}
  /\ answered \in BOOLEAN /\ clean \in BOOLEAN
  /\ sent \in 0..MaxMessages

\* The message under way: plain when its length is given and it is not chunked.
Plain == cur # NoMessage /\ ~answered /\ clean /\ ~cur.chunked

\* However a message was cut and whatever came before on the connection, short of a
\* chunked message, a request that is complete has its own method and path; one with a
\* length has the body that was sent, all of it received (parseRequest, _setBody, reset).
CompleteIsWhole ==
  /\ clean /\ ~answered /\ req.isComplete =>
       req.method = cur.method /\ req.rawPath = cur.path
  /\ Plain /\ req.isComplete => req.body = Data(cur) /\ wire = <<>>

\* When all of such a message has arrived the server has something to answer:
\* it never waits for more (parseRequest, _setBody).
EndIsSeen == Plain /\ wire = <<>> => req.isComplete \/ isError(req)

\* The end of a message is the end of its request, neither earlier nor later, in a
\* parser whose members keep their types (parseRequest).
CompleteAtTheEnd == TypeOK /\ CompleteIsWhole /\ EndIsSeen

\* Such a message is refused exactly when it is longer than the limit or not
\* HTTP/1.1 (_setHeader, _setMethod).
LimitIsExact ==
  Plain =>
    /\ req.errorCode = 413 => Len(Data(cur)) > MaxContentLength
    /\ req.errorCode = 505 => cur.version # "HTTP/1.1"
    /\ req.isComplete => Len(Data(cur)) <= MaxContentLength

\* The cuts make no difference: the parser ends in the state one call with the
\* whole message leads to (parseRequest).
CutsMakeNoDifference ==
  Plain /\ wire = <<>> /\ ~isError(req) => req = parseRequest(before, Bytes(cur))

\* What a chunked request has for its body is data that was sent, from the
\* first byte on and without the framing, wherever the pieces were cut and also
\* when the request is taken for complete too early (_addChunkData).
ChunkedBodyIsAPrefix ==
  cur.chunked /\ clean /\ ~answered => IsPrefix(req.body, Data(cur))

\* README.md:125 on receiving a chunked request: "set requestEndReached to true
\* if final chunk is 0 bytes".  A chunked request is complete with all its
\* chunks and not before.
FinalChunkEndsRequest ==
  cur.chunked /\ clean /\ ~answered /\ req.isComplete => req.body = Data(cur)
=============================================================================
