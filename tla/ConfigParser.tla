---------------------------- MODULE ConfigParser ----------------------------
(***************************************************************************)
(* The configuration file (ConfigParser.cpp) and the choice of a server by *)
(* its name (MyConfig.cpp).  The parser is a descent through two kinds of  *)
(* blocks, one turn of a loop per directive.                               *)
(*                                                                         *)
(* A file is a sequence of lines, a line a sequence of words, a word a     *)
(* sequence of symbols: a character where the code looks at characters, a  *)
(* whole name where it does not.  What is written in a file is, for the    *)
(* properties, a sequence of servers with directives, and one mistake that *)
(* was made in writing it down.  atoi is modelled for digits, without a    *)
(* sign.                                                                   *)
(***************************************************************************)
EXTENDS ServerConfig

CONSTANTS
  Written,       \* what is written in configuration files
  Directories,   \* the words that name a directory
  Existing       \* the words that name something else that exists

\* A word is a sequence of symbols; a directive has at least one behind its name.
Words == Seq(STRING)
Directives == [name : STRING, args : Seq(Words) \ {<<>>}]
Locations == [path : Words, directives : Seq(Directives)]
Servers == [directives : Seq(Directives), locations : Seq(Locations)]

ASSUME WrittenAssumption == Written \subseteq Seq(Servers)

VARIABLES
  file,     \* what is written, and the mistake in it
  parser    \* the ConfigParser
----------------------------------------------------------------------------
(* Words.                                                                  *)

Semicolon == <<";">>
Opens == <<"{">>
Closes == <<"}">>

Digits == <<"0", "1", "2", "3", "4", "5", "6", "7", "8", "9">>
IsDigit(c) == Contains(Digits, c)

\* The number the leading digits make.
atoi(word) ==
  LET end == SelectInSeq(word, LAMBDA c : ~IsDigit(c)) IN
  FoldLeft(LAMBDA n, c : 10 * n + SelectInSeq(Digits, LAMBDA d : d = c) - 1, 0,
           IF end = 0 THEN word ELSE SubSeq(word, 1, end - 1))

UpToComment(line) ==
  LET k    == SelectInSeq(line, LAMBDA w : Contains(w, "#"))
      kept == SubSeq(line[k], 1, SelectInSeq(line[k], LAMBDA c : c = "#") - 1)
  IN  IF k = 0 THEN line
      ELSE SubSeq(line, 1, k - 1) \o (IF kept = <<>> THEN <<>> ELSE <<kept>>)

\* Only a semicolon at the end of a word is a token of its own; of a semicolon
\* alone an empty word is left.
Split(word) ==
  IF IsSuffix(Semicolon, word) THEN <<Front(word), Semicolon>> ELSE <<word>>

SplitAll(line) == FlattenSeq([j \in 1..Len(line) |-> Split(line[j])])

tokenize(lines) ==
  FlattenSeq([i \in 1..Len(lines) |-> SplitAll(UpToComment(lines[i]))])
----------------------------------------------------------------------------
(* ServerConfig and Route as their constructors leave them.                *)

BlankServer ==
  [host |-> <<>>, port |-> <<>>, root |-> <<>>, server_names |-> <<>>,
   error_pages |-> <<>>, client_max_body_size |-> 0, routes |-> <<>>]

getServerKey(server) == server.host \o <<":">> \o server.port

\* The upload path a location has in the end, and whether there is one.
UploadPath(route) ==
  IF route.uploadPath = <<>> THEN route.path \o DEFAULT_UPLOAD_FILE
  ELSE IF route.uploadPath \in Directories
    THEN route.uploadPath \o DEFAULT_UPLOAD_FILE
    ELSE route.uploadPath

validateRoutes(route) ==
  /\ route.path # <<>>
  /\ route.uploadPath \in {<<>>} \cup Directories \cup Existing

AnyLimit(server) ==
  server.server_names # <<>> /\ server.host # <<>> /\ server.routes # <<>>
validateServer(server) ==
  /\ server.server_names # <<>>
  /\ server.host # <<>>
  /\ server.client_max_body_size # 0
  /\ server.routes # <<>>
----------------------------------------------------------------------------
(* The parser p.  Its "block" is the loop it is in, or how it has ended:   *)
(* "done", "refused" by an exception, or "astray", when the message of the *)
(* exception takes a token from behind the last one.                       *)

Refused(p) == [p EXCEPT !.block = "refused"]

Skip(p, n) == [p EXCEPT !.at = @ + n]

hasMoreTokens(p) == p.at <= Len(p.tokens)
getCurrentToken(p) == p.tokens[p.at]

expectToken(p, token) ==
  IF ~hasMoreTokens(p) THEN [p EXCEPT !.block = "astray"]
  ELSE IF getCurrentToken(p) # token THEN Refused(p)
  ELSE Skip(p, 1)

\* A map into which the pairs of another are put.
Over(new, old) ==
  [x \in DOMAIN new \cup DOMAIN old |-> IF x \in DOMAIN new THEN new[x] ELSE old[x]]

\* The next semicolon, some words ahead, or 0.
NextSemicolon(p, ahead) ==
  SelectInSubSeq(p.tokens, p.at + ahead, Len(p.tokens), LAMBDA w : w = Semicolon)

\* A directive with one value, which has been stored in q, or with two.
OneValue(p, q) ==
  IF ~hasMoreTokens(p) THEN Refused(p) ELSE expectToken(Skip(q, 1), Semicolon)
TwoValues(p, q) ==
  IF ~hasMoreTokens(Skip(p, 1)) THEN Refused(p) ELSE expectToken(Skip(q, 2), Semicolon)

\* A directive with as many values as there are words before the semicolon.
Values(p) == SubSeq(p.tokens, p.at, NextSemicolon(p, 0) - 1)
ListOf(p, q) ==
  IF NextSemicolon(p, 0) = 0 THEN Refused(p)
  ELSE [q EXCEPT !.at = NextSemicolon(p, 0) + 1]

(* The directives of a server.                                             *)

setServerName(p) == ListOf(p, [p EXCEPT !.server.server_names = @ \o Values(p)])

setListen(p) ==
  LET value == getCurrentToken(p)
      colon == SelectInSeq(value, LAMBDA c : c = ":")
  IN  OneValue(p, [p EXCEPT
        !.server.host = IF colon = 0 THEN <<"127.0.0.1">>
                        ELSE SubSeq(value, 1, colon - 1),
        !.server.port = SubSeq(value, colon + 1, Len(value))])

setServerBodySize(p) ==
  OneValue(p, [p EXCEPT !.server.client_max_body_size = atoi(getCurrentToken(p))])

FirstCodeOnly(p, end) == {p.at}
CodesUpTo(p, end) == p.at..(end - 2)

\* The first two words are taken whatever they are.
setErrorPage(p) ==
  LET end   == NextSemicolon(p, 2)
      codes == {atoi(p.tokens[i]) : i \in CodesUpTo(p, end)}
  IN  IF end = 0 THEN Refused(p)
      ELSE [p EXCEPT !.at = end + 1,
                     !.server.error_pages =
                        Over([code \in codes |-> p.tokens[end - 1]], @)]

setServerRoot(p) == OneValue(p, [p EXCEPT !.server.root = getCurrentToken(p)])

(* The directives of a location.                                           *)

setRoot(p) == OneValue(p, [p EXCEPT !.route.root = getCurrentToken(p)])

setAllowedMethods(p) ==
  ListOf(p, [p EXCEPT !.route.allowedMethods = @ \cup Range(Values(p))])

setIndex(p) == ListOf(p, [p EXCEPT !.route.defaultFiles = @ \o Values(p)])

setAutoIndex(p) ==
  OneValue(p, [p EXCEPT !.route.isDirectoryListing = getCurrentToken(p) = <<"on">>])

setAllowUpload(p) ==
  OneValue(p, [p EXCEPT !.route.uploadAllowed = getCurrentToken(p) = <<"on">>])

setUploadPath(p) == OneValue(p, [p EXCEPT !.route.uploadPath = getCurrentToken(p)])

setReturn(p) ==
  TwoValues(p, [p EXCEPT !.route.redirectCode = atoi(getCurrentToken(p)),
                         !.route.redirectPath = p.tokens[p.at + 1]])

setRouteBodySize(p) ==
  OneValue(p, [p EXCEPT !.route.client_max_body_size = atoi(getCurrentToken(p))])

PairsOf(words) ==
  LET pairs[n \in 0..(Len(words) \div 2)] ==
        IF n = 0 THEN <<>>
        ELSE Over([word \in {words[2 * n - 1]} |-> words[2 * n]], pairs[n - 1])
  IN  pairs[Len(words) \div 2]

\* Pairs of words.  A semicolon where a word is expected ends the loop, and one
\* more is accepted; so does the end of the file, after a whole pair.
setCgi(p) ==
  LET end   == NextSemicolon(p, 0)
      words == IF end = 0 THEN SubSeq(p.tokens, p.at, Len(p.tokens)) ELSE Values(p)
      whole == words # <<>> /\ Len(words) % 2 = 0
      t     == [p EXCEPT !.route.cgiExtensions = Over(PairsOf(words), @),
                         !.at = IF words = <<>> THEN @ + 2
                                ELSE IF end = 0 THEN Len(p.tokens) + 1 ELSE end + 1]
  IN  IF ~hasMoreTokens(Skip(p, 1)) \/ (end = 0 /\ ~whole) THEN Refused(p)
      ELSE IF ~whole /\ hasMoreTokens(t) /\ getCurrentToken(t) = Semicolon
        THEN Skip(t, 1) ELSE t
----------------------------------------------------------------------------
(* The blocks.                                                             *)

\* The end of a block.
Closed(p) == expectToken(p, Closes)

\* parseServer, up to its loop.
openServer(p) ==
  LET t == expectToken(p, <<"server">>)
      u == expectToken(t, Opens)
  IN  IF t.block # "file" THEN t
      ELSE IF u.block # "file" THEN u
      ELSE [u EXCEPT !.block = "server", !.server = BlankServer]

AnyServer(p) == [p EXCEPT !.block = "file",
                   !.configs = Over([key \in {getServerKey(p.server)} |-> <<p.server>>], @)]

\* _configs[key].push_back(server)
push_back(p) ==
  LET key == getServerKey(p.server)
      others == IF key \in DOMAIN p.configs THEN p.configs[key] ELSE <<>>
  IN  [p EXCEPT !.block = "file",
                !.configs = [k \in DOMAIN @ \cup {key} |->
                               IF k = key THEN Append(others, p.server) ELSE @[k]]]

\* parseServer, after its loop.
closeServer(p) ==
  LET t == Closed(p) IN
  IF t.block # "server" THEN t
  ELSE IF ~validateServer(t.server) THEN Refused(t)
  ELSE push_back(t)

\* parseLocation, up to its loop; the word after the path is not looked at.
openLocation(p) ==
  IF ~hasMoreTokens(Skip(p, 1)) THEN Refused(p)
  ELSE [p EXCEPT !.at = @ + 2, !.block = "location",
                 !.route = [BlankRoute EXCEPT !.path = getCurrentToken(p)]]

\* parseLocation, after its loop.
closeLocation(p) ==
  LET t == Closed(p) IN
  IF t.block # "location" THEN t
  ELSE IF ~validateRoutes(t.route) THEN Refused(t)
  ELSE [t EXCEPT !.block = "server",
                 !.server.routes =
                    Append(@, [t.route EXCEPT !.uploadPath = UploadPath(t.route)])]
----------------------------------------------------------------------------
(* What is written, as lines, and the mistakes in writing it down.  Behind *)
(* every line there is a comment.                                          *)

Line(d) == <<<<d.name>>>> \o Front(d.args) \o <<Last(d.args) \o Semicolon>>

Block(head, inner) == <<Append(head, Opens)>> \o inner \o <<<<Closes>>>>

LinesOf(ds) == [i \in 1..Len(ds) |-> Line(ds[i])]

LinesOfLocation(l) == Block(<<<<"location">>, l.path>>, LinesOf(l.directives))

LinesOfServer(s) ==
  Block(<<<<"server">>>>,
        LinesOf(s.directives) \o
        FlattenSeq([i \in 1..Len(s.locations) |-> LinesOfLocation(s.locations[i])]))

\* In one server: nothing; a word or a semicolon is missing; there is a space
\* before a semicolon; the file ends behind a word.
NoMistake == [kind |-> "none", server |-> 0, line |-> 0, word |-> 0]

Mistakes(w) ==
  LET InLine(k, i, line) ==
        [kind : {"word", "end"}, server : {k}, line : {i}, word : 1..Len(line)]
        \cup
        [kind : IF IsSuffix(Semicolon, Last(line)) THEN {"semicolon", "space"} ELSE {},
         server : {k}, line : {i}, word : {Len(line)}]
      InServer(k, lines) == UNION {InLine(k, i, lines[i]) : i \in 1..Len(lines)}
  IN  {NoMistake} \cup UNION {InServer(k, LinesOfServer(w[k])) : k \in 1..Len(w)}

Spoilt(lines, m) ==
  CASE m.kind = "word"      -> [lines EXCEPT ![m.line] = RemoveAt(@, m.word)]
    [] m.kind = "semicolon" -> [lines EXCEPT ![m.line][m.word] = Front(@)]
    [] m.kind = "space"     -> [lines EXCEPT ![m.line] =
                                  Front(@) \o <<Front(Last(@)), Semicolon>>]
    [] m.kind = "end"       -> Append(SubSeq(lines, 1, m.line - 1),
                                      SubSeq(lines[m.line], 1, m.word))

LinesOfFile(w, m) ==
  LET last  == IF m.kind = "end" THEN m.server ELSE Len(w)
      lines == FlattenSeq([k \in 1..last |->
                 IF k = m.server THEN Spoilt(LinesOfServer(w[k]), m)
                                 ELSE LinesOfServer(w[k])])
  IN  [i \in 1..Len(lines) |-> lines[i] \o <<<<"#">>, Closes>>]
----------------------------------------------------------------------------
NewParser ==
  [block |-> "unread", tokens |-> <<>>, at |-> 1, server |-> BlankServer,
   route |-> BlankRoute, configs |-> <<>>]

ParserInit ==
  /\ \E w \in Written : \E m \in Mistakes(w) :
       file = [written |-> w, mistake |-> m]
  /\ parser = NewParser

\* parseConfigFile: the file must have the right name and be there.
OpenFile ==
  /\ parser.block = "unread"
  /\ \/ parser' = [parser EXCEPT
                     !.block = "file",
                     !.tokens = tokenize(LinesOfFile(file.written, file.mistake))]
     \/ parser' = Refused(parser)

OpenServer ==
  parser.block = "file" /\ hasMoreTokens(parser) /\ parser' = openServer(parser)

\* validateParsedConfig
EndFile ==
  /\ parser.block = "file" /\ ~hasMoreTokens(parser)
  /\ parser' = IF DOMAIN parser.configs = {} THEN Refused(parser)
               ELSE [parser EXCEPT !.block = "done"]

\* The next token is the directive "name" of the block the parser is in.
Reads(block, name) ==
  /\ parser.block = block /\ hasMoreTokens(parser)
  /\ getCurrentToken(parser) = <<name>>
After == Skip(parser, 1)

ServerDirective ==
  \/ Reads("server", "server_name") /\ parser' = setServerName(After)
  \/ Reads("server", "listen") /\ parser' = setListen(After)
  \/ Reads("server", "client_max_body_size") /\ parser' = setServerBodySize(After)
  \/ Reads("server", "error_page") /\ parser' = setErrorPage(After)
  \/ Reads("server", "root") /\ parser' = setServerRoot(After)
  \/ Reads("server", "location") /\ parser' = openLocation(After)

LocationDirective ==
  \/ Reads("location", "root") /\ parser' = setRoot(After)
  \/ Reads("location", "allowed_methods") /\ parser' = setAllowedMethods(After)
  \/ Reads("location", "index") /\ parser' = setIndex(After)
  \/ Reads("location", "autoindex") /\ parser' = setAutoIndex(After)
  \/ Reads("location", "allow_upload") /\ parser' = setAllowUpload(After)
  \/ Reads("location", "upload_path") /\ parser' = setUploadPath(After)
  \/ Reads("location", "cgi_extension") /\ parser' = setCgi(After)
  \/ Reads("location", "return") /\ parser' = setReturn(After)
  \/ Reads("location", "client_max_body_size") /\ parser' = setRouteBodySize(After)

Known(block) ==
  {Closes} \cup {<<name>> : name \in
    IF block = "server"
      THEN {"server_name", "listen", "client_max_body_size", "error_page", "root",
            "location"}
      ELSE {"root", "allowed_methods", "index", "autoindex", "allow_upload",
            "upload_path", "cgi_extension", "return", "client_max_body_size"}}

UnknownDirective ==
  /\ parser.block \in {"server", "location"} /\ hasMoreTokens(parser)
  /\ getCurrentToken(parser) \notin Known(parser.block)
  /\ parser' = Refused(parser)

AtTheEnd == hasMoreTokens(parser) => getCurrentToken(parser) = Closes

CloseServer ==
  parser.block = "server" /\ AtTheEnd /\ parser' = closeServer(parser)

CloseLocation ==
  parser.block = "location" /\ AtTheEnd /\ parser' = closeLocation(parser)

Parse ==
  /\ \/ OpenFile \/ OpenServer \/ ServerDirective \/ LocationDirective
     \/ UnknownDirective \/ CloseServer \/ CloseLocation \/ EndFile
  /\ UNCHANGED file
----------------------------------------------------------------------------
(* MyConfig.                                                               *)

AnyName(server, hostURL) == hostURL \notin Range(server.server_names)
HasName(server, hostURL) == hostURL \in Range(server.server_names)

\* The first server of the key with that name, or the first of the key.  There is
\* a null pointer for a key that is not in the file: nobody asks for one.
findServerConfig(serverKey, hostURL) ==
  LET servers == parser.configs[serverKey]
      named   == SelectInSeq(servers, LAMBDA s : HasName(s, hostURL))
  IN  servers[IF named = 0 THEN 1 ELSE named]
----------------------------------------------------------------------------
(* What a written configuration says.                                      *)

Named(ds, name) == {i \in 1..Len(ds) : ds[i].name = name}
Final(ds, name) == IF Named(ds, name) = {} THEN <<>> ELSE ds[Max(Named(ds, name))].args
Value(ds, name) == IF Final(ds, name) = <<>> THEN <<>> ELSE Final(ds, name)[1]
All(ds, name) ==
  FlattenSeq([i \in 1..Len(ds) |-> IF i \in Named(ds, name) THEN ds[i].args ELSE <<>>])

\* What a word stands for: the word at the next position in the last pair it
\* begins.
SaidPairs(words) ==
  LET firsts(word) == {i \in 1..Len(words) : i % 2 = 1 /\ words[i] = word} IN
  [word \in {words[i] : i \in {j \in 1..Len(words) : j % 2 = 1}} |->
     words[1 + Max(firsts(word))]]

SaidPages(ds) ==
  LET pages == Named(ds, "error_page")
      codes(i) == {atoi(word) : word \in Range(Front(ds[i].args))}
  IN  [code \in UNION {codes(i) : i \in pages} |->
         Last(ds[Max({i \in pages : code \in codes(i)})].args)]

SaidRoute(l) ==
  LET ds == l.directives
      blank == [BlankRoute EXCEPT !.path = l.path,
                                  !.uploadPath = Value(ds, "upload_path")]
  IN  [path |-> l.path, allowedMethods |-> Range(All(ds, "allowed_methods")),
       redirectPath |-> IF Final(ds, "return") = <<>> THEN <<>>
                        ELSE Final(ds, "return")[2],
       redirectCode |-> atoi(Value(ds, "return")),
       root |-> Value(ds, "root"),
       isDirectoryListing |-> Value(ds, "autoindex") = <<"on">>,
       defaultFiles |-> All(ds, "index"),
       cgiExtensions |-> SaidPairs(All(ds, "cgi_extension")),
       uploadAllowed |-> Value(ds, "allow_upload") = <<"on">>,
       uploadPath |-> UploadPath(blank),
       client_max_body_size |-> atoi(Value(ds, "client_max_body_size"))]

SaidServer(s) ==
  LET ds == s.directives
      address == Value(ds, "listen")
      n == SelectInSeq(address, LAMBDA c : c = ":")
  IN  [host |-> IF n = 0 THEN <<"127.0.0.1">> ELSE SubSeq(address, 1, n - 1),
       port |-> SubSeq(address, n + 1, Len(address)),
       root |-> Value(ds, "root"),
       server_names |-> All(ds, "server_name"),
       error_pages |-> SaidPages(ds),
       client_max_body_size |-> atoi(Value(ds, "client_max_body_size")),
       routes |-> [i \in 1..Len(s.locations) |-> SaidRoute(s.locations[i])]]

\* The servers in the order of the file.
Said(w) == [k \in 1..Len(w) |-> SaidServer(w[k])]

\* The map of the parser when it has read these servers.
ConfigsOf(servers) ==
  [key \in {getServerKey(s) : s \in Range(servers)} |->
     FlattenSeq([i \in 1..Len(servers) |->
       IF getServerKey(servers[i]) = key THEN <<servers[i]>> ELSE <<>>])]

\* A file such as the program accepts: every directive has as many words as the code
\* takes, of which none ends with a semicolon or has a comment in it, every server
\* has an address, and what is said passes the checks that are made of it.
IsPlain(word) == ~Contains(word, "#") /\ ~IsSuffix(Semicolon, word)

ServerDirectiveIsRight(d) ==
  /\ \A word \in Range(d.args) : IsPlain(word)
  /\ \/ d.name = "server_name"
     \/ d.name \in {"listen", "client_max_body_size", "root"} /\ Len(d.args) = 1
     \/ d.name = "error_page" /\ Len(d.args) >= 2

LocationDirectiveIsRight(d) ==
  /\ \A word \in Range(d.args) : IsPlain(word)
  /\ \/ d.name \in {"allowed_methods", "index"}
     \/ /\ d.name \in {"root", "autoindex", "allow_upload", "upload_path",
                       "client_max_body_size"}
        /\ Len(d.args) = 1
     \/ d.name = "cgi_extension" /\ Len(d.args) % 2 = 0
     \/ d.name = "return" /\ Len(d.args) = 2

LocationIsRight(l) ==
  /\ IsPlain(l.path)
  /\ \A d \in Range(l.directives) : LocationDirectiveIsRight(d)
  /\ validateRoutes([path |-> l.path, uploadPath |-> Value(l.directives, "upload_path")])

ServerIsRight(s) ==
  /\ \A d \in Range(s.directives) : ServerDirectiveIsRight(d)
  /\ \A l \in Range(s.locations) : LocationIsRight(l)
  /\ Named(s.directives, "listen") # {}
  /\ validateServer(SaidServer(s))

FilesAreRight == \A w \in Written : w # <<>> /\ \A s \in Range(w) : ServerIsRight(s)

Accepted == parser.block = "done"
\* A file without a mistake is accepted, and then every server has every value
\* written for it: the last where a directive is repeated, all of them where it
\* takes a list (parseServer, parseLocation, tokenize).
ReadAsWritten ==
  file.mistake = NoMistake =>
    /\ parser.block = "refused" => parser.tokens = <<>>
    /\ parser.block # "astray"
    /\ Accepted => parser.configs = ConfigsOf(Said(file.written))

\* Whatever the mistake, the servers of an accepted file are such as the rest of
\* the program takes for granted: a route to fall back on, paths that are not
\* empty, a name, a host, a limit that is not 0, a key of their own
\* (validateServer, validateRoutes, _findRoute).
AcceptedIsUsable ==
  Accepted =>
    /\ DOMAIN parser.configs # {}
    /\ \A key \in DOMAIN parser.configs :
         /\ parser.configs[key] # <<>>
         /\ \A s \in Range(parser.configs[key]) :
              /\ getServerKey(s) = key
              /\ s.server_names # <<>> /\ s.host # <<>>
              /\ s.client_max_body_size # 0
              /\ s.routes # <<>>
              /\ \A r \in Range(s.routes) : r.path # <<>> /\ r.uploadPath # <<>>

\* The list in which the mistake is has lost its semicolon, or takes it for a value
\* (setErrorPage), and its server has no other behind it: it runs on into the next.
RunsOn(w, m) ==
  LET lines == Spoilt(LinesOfServer(w[m.server]), m)
      EndsIn(line) == \E word \in Range(line) : IsSuffix(Semicolon, word)
      list == lines[m.line]
  IN  /\ EndsIn(list) => list[1] = <<"error_page">> /\ Len(list) = 2
      /\ \A i \in (m.line + 1)..Len(lines) : ~EndsIn(lines[i])

\* A mistake in one server is noticed or stays there: an accepted file has no more
\* and no fewer servers than were written, and the others are as written, even
\* where a missing semicolon lets a list run on.  Only a list that runs on into the
\* next server makes one server of the two (ListOf, setErrorPage, setCgi).
MistakesDoNotSpread ==
  Accepted /\ file.mistake.kind # "end" =>
    LET w     == file.written
        m     == file.mistake
        eaten == {k \in 1..Len(w) : m # NoMistake /\ k = m.server + 1 /\ RunsOn(w, m)}
        got   == FlattenSeq(SetToSeq(Range(parser.configs)))
    IN  /\ Len(got) = Len(w) - Cardinality(eaten)
        /\ \A k \in (1..Len(w)) \ ({m.server} \cup eaten) : Said(w)[k] \in Range(got)

\* A file that ends too early is noticed, wherever that is: what is accepted ends
\* between two servers, and is all that was written up to there (parseServer,
\* parseLocation, expectToken).
EndIsNoticed ==
  Accepted /\ file.mistake.kind = "end" =>
    parser.configs = ConfigsOf(Said(SubSeq(file.written, 1, file.mistake.server)))

\* The damage a mistake can do is contained: the file is refused, or it is cut short
\* by whole servers, or one server is other than it was written (parse).
MistakesAreContained == MistakesDoNotSpread /\ EndIsNoticed

\* Requests for a name go to the first server written with that address and that
\* name, and others to the first with that address (findServerConfig,
\* README.md:20-25).
NamesFindTheirServer ==
  Accepted /\ file.mistake = NoMistake =>
    \A key \in DOMAIN parser.configs :
      \A name \in UNION {Range(s.server_names) : s \in Range(Said(file.written))} \cup {<<>>} :
        LET here  == {k \in 1..Len(file.written) : getServerKey(Said(file.written)[k]) = key}
            named == {k \in here : name \in Range(Said(file.written)[k].server_names)}
            first == CHOOSE k \in (IF named = {} THEN here ELSE named) :
                       \A j \in (IF named = {} THEN here ELSE named) : k <= j
        IN  findServerConfig(key, name) = Said(file.written)[first]
=============================================================================
