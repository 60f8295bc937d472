---------------------------- MODULE WebservProofs ----------------------------
(***************************************************************************)
(* The program as a whole, for every configuration file, every host and    *)
(* every number of descriptors: what holds of the descriptors whatever     *)
(* call fails, and of the route that is kept.                              *)
(***************************************************************************)
EXTENDS Webserv, ConfigParserProofs

MainHasItsFields ==
  main = [at |-> main.at, code |-> main.code, epollFD |-> main.epollFD,
          listeningSockets |-> main.listeningSockets, key |-> main.key,
          addresses |-> main.addresses, socketFD |-> main.socketFD]

\* The socket that is being made is not one of the server's yet.
SocketIsNew ==
  main.socketFD # None =>
    /\ main.socketFD \notin AllDescriptors
    /\ main.at \in {"address", "killed"} /\ main.addresses = <<>>

\* Before init there is nothing to close, and a key gets one socket.
NothingTwice ==
  /\ main.at \in {"config", "init"} => AllDescriptors = {None}
  /\ main.at = "address" => main.key \notin DOMAIN main.listeningSockets

\* Descriptors are numbers of open files.
NoneIsClosed == None \notin DOMAIN fds

DescriptorInv ==
  /\ MainHasItsFields /\ SocketIsNew /\ NothingTwice /\ NoneIsClosed
  /\ DescriptorsAreAccountedFor

\* What adding a pair does to a function.
LEMMA WithDomain ==
  ASSUME NEW f, NEW x, NEW v
  PROVE  DOMAIN With(f, x, v) = DOMAIN f \cup {x}
BY DEF With

LEMMA WithRange ==
  ASSUME NEW f, NEW x, NEW v, x \notin DOMAIN f
  PROVE  Range(With(f, x, v)) = Range(f) \cup {v}
BY DEF With, Range

\* A descriptor that is free is one, and is not open.
LEMMA FreeIsNew ==
  ASSUME Free # {}
  PROVE  NewFD \in Descriptors /\ NewFD \notin DOMAIN fds /\ NewFD # None
<1>1. NewFD \in Free
  BY DEF NewFD
<1> QED BY <1>1, DescriptorAssumption DEF Free

\* The epoll descriptor is the first.
LEMMA InitEpollKeepsInv ==
  ASSUME DescriptorInv, _initEpoll
  PROVE  DescriptorInv'
<1> USE DEF DescriptorInv, MainHasItsFields
<1>1. main.at = "init" /\ AllDescriptors = {None}
  BY DEF _initEpoll, NothingTwice
<1>2. main.socketFD = None /\ main.listeningSockets' = main.listeningSockets
  BY <1>1 DEF SocketIsNew, _initEpoll, Throw
<1>3. Range(main.listeningSockets) \subseteq {None} /\ main.epollFD = None /\ DOMAIN fds = {}
  BY <1>1, <1>2 DEF AllDescriptors, DescriptorsAreAccountedFor
<1>4. CASE /\ Free # {}
           /\ fds' = With(fds, NewFD, [kind |-> "epoll"])
           /\ main' = [main EXCEPT !.at = "sockets", !.epollFD = NewFD]
  <2>1. DOMAIN fds' = {NewFD}
    <3>1. DOMAIN fds' = DOMAIN fds \cup {NewFD}
      BY <1>4, WithDomain
    <3> QED BY <1>3, <3>1
  <2>2. AllDescriptors' \ {None} = {NewFD} /\ NewFD # None
    BY <1>2, <1>3, <1>4, FreeIsNew DEF AllDescriptors
  <2> QED BY <1>2, <1>4, <2>1, <2>2
          DEF SocketIsNew, NothingTwice, NoneIsClosed, DescriptorsAreAccountedFor
<1>5. CASE Throw /\ UNCHANGED fds
  BY <1>1, <1>2, <1>3, <1>5
     DEF Throw, AllDescriptors, SocketIsNew, NothingTwice, NoneIsClosed,
         DescriptorsAreAccountedFor
<1> QED BY <1>4, <1>5 DEF _initEpoll

\* An exception out of init leaves the server with what it has.
LEMMA ThrowKeepsInv ==
  ASSUME DescriptorInv, Throw, main.at # "exited", main.at # "killed",
         DOMAIN fds' = DOMAIN fds \ {main.socketFD}
  PROVE  DescriptorInv'
<1> USE DEF DescriptorInv, MainHasItsFields
<1>1. AllDescriptors' = AllDescriptors
  BY DEF Throw, AllDescriptors
<1>2. main'.at = "stopping" /\ main'.socketFD = None
  BY DEF Throw
<1>3. DescriptorsAreAccountedFor'
  BY <1>1, <1>2 DEF DescriptorsAreAccountedFor, SocketIsNew
<1>4. MainHasItsFields' /\ SocketIsNew' /\ NothingTwice' /\ NoneIsClosed'
  BY <1>2 DEF Throw, SocketIsNew, NothingTwice, NoneIsClosed
<1> QED BY <1>3, <1>4

LEMMA GetAddressInfoKeepsInv ==
  ASSUME DescriptorInv, _getAddressInfo
  PROVE  DescriptorInv'
<1> USE DEF DescriptorInv, MainHasItsFields
<1>1. main.at = "sockets" /\ main.socketFD = None /\ fds' = fds
  BY DEF _getAddressInfo, SocketIsNew
<1>2. PICK key \in DOMAIN parser.configs \ DOMAIN main.listeningSockets :
        \/ main' = [main EXCEPT !.at = "address", !.key = key,
                      !.addresses = getaddrinfo[parser.configs[key][1].host]]
        \/ Throw
  BY DEF _getAddressInfo
<1>3. CASE Throw
  BY <1>1, <1>3, ThrowKeepsInv DEF NoneIsClosed
<1>4. CASE main' = [main EXCEPT !.at = "address", !.key = key,
                      !.addresses = getaddrinfo[parser.configs[key][1].host]]
  <2>1. AllDescriptors' = AllDescriptors
    BY <1>4 DEF AllDescriptors
  <2>2. DescriptorsAreAccountedFor'
    BY <1>1, <1>4, <2>1 DEF DescriptorsAreAccountedFor
  <2>3. MainHasItsFields' /\ SocketIsNew' /\ NothingTwice' /\ NoneIsClosed'
    BY <1>1, <1>2, <1>4 DEF SocketIsNew, NothingTwice, NoneIsClosed
  <2> QED BY <2>2, <2>3
<1> QED BY <1>2, <1>3, <1>4

LEMMA TryAddressKeepsInv ==
  ASSUME DescriptorInv, TryAddress
  PROVE  DescriptorInv'
<1> USE DEF DescriptorInv, MainHasItsFields
<1>1. main.at = "address" /\ main.addresses # <<>> /\ main.socketFD = None
  BY DEF TryAddress, SocketIsNew
<1>2. CASE main' = NextAddress(Tail(main.addresses)) /\ UNCHANGED fds
  <2>1. AllDescriptors' = AllDescriptors /\ main'.at = "address" /\ main'.socketFD = None
    BY <1>1, <1>2 DEF AllDescriptors, NextAddress
  <2>2. MainHasItsFields' /\ SocketIsNew' /\ NothingTwice' /\ NoneIsClosed'
    BY <1>1, <1>2, <2>1 DEF NextAddress, SocketIsNew, NothingTwice, NoneIsClosed
  <2>3. DescriptorsAreAccountedFor'
    BY <1>1, <1>2, <2>1 DEF DescriptorsAreAccountedFor
  <2> QED BY <2>2, <2>3
<1>3. ASSUME NEW what, Free # {}, fds' = With(fds, NewFD, what),
             main' = [main EXCEPT !.addresses = <<>>, !.socketFD = NewFD]
      PROVE  DescriptorInv'
  <2>1. DOMAIN fds' = DOMAIN fds \cup {NewFD}
    BY <1>3, WithDomain
  <2>2. NewFD \notin DOMAIN fds /\ NewFD # None
    BY <1>3, FreeIsNew
  <2>3. /\ AllDescriptors' = AllDescriptors
        /\ main'.at = "address" /\ main'.socketFD = NewFD
        /\ main'.addresses = <<>> /\ main'.key = main.key
        /\ main'.listeningSockets = main.listeningSockets
    BY <1>1, <1>3 DEF AllDescriptors
  <2>4. DOMAIN fds = AllDescriptors \ {None}
    BY <1>1 DEF DescriptorsAreAccountedFor
  <2>5. DescriptorsAreAccountedFor'
    BY <2>1, <2>2, <2>3, <2>4 DEF DescriptorsAreAccountedFor
  <2>6. SocketIsNew' /\ NothingTwice' /\ NoneIsClosed'
    BY <1>1, <2>1, <2>2, <2>3, <2>4 DEF SocketIsNew, NothingTwice, NoneIsClosed
  <2>7. MainHasItsFields'
    BY <1>3
  <2> QED BY <2>5, <2>6, <2>7
<1> QED BY <1>2, <1>3 DEF TryAddress

LEMMA StartListeningKeepsInv ==
  ASSUME DescriptorInv, _startListening
  PROVE  DescriptorInv'
<1> USE DEF DescriptorInv, MainHasItsFields
<1>1. main.at = "address"
  BY DEF _startListening
<1>2. CASE /\ main.socketFD \in DOMAIN fds
           /\ fds' = Watched(main.socketFD)
           /\ main' = [main EXCEPT !.at = "sockets", !.key = <<>>, !.socketFD = None,
                         !.listeningSockets = With(@, main.key, main.socketFD)]
  <2>1. DOMAIN fds' = DOMAIN fds /\ main.socketFD # None
    BY <1>2 DEF Watched, NoneIsClosed
  <2>2. /\ main'.at = "sockets" /\ main'.socketFD = None
        /\ main'.epollFD = main.epollFD
        /\ main'.listeningSockets = With(main.listeningSockets, main.key, main.socketFD)
    BY <1>2
  <2>3. Range(main'.listeningSockets) = Range(main.listeningSockets) \cup {main.socketFD}
    BY <1>1, <2>2, WithRange DEF NothingTwice
  <2>4. AllDescriptors' = AllDescriptors \cup {main.socketFD}
    BY <2>2, <2>3 DEF AllDescriptors
  <2>5. DescriptorsAreAccountedFor'
    BY <1>1, <2>1, <2>2, <2>4 DEF DescriptorsAreAccountedFor
  <2>6. MainHasItsFields' /\ SocketIsNew' /\ NothingTwice' /\ NoneIsClosed'
    BY <1>2, <2>1, <2>2 DEF SocketIsNew, NothingTwice, NoneIsClosed
  <2> QED BY <2>5, <2>6
<1>3. CASE /\ main.socketFD # None
           /\ fds' = ClosedOnFailure(main.socketFD)
           /\ Throw
  <2>1. DOMAIN fds' = DOMAIN fds \ {main.socketFD}
    BY <1>3 DEF ClosedOnFailure, Without
  <2> QED BY <1>1, <1>3, <2>1, ThrowKeepsInv
<1>4. CASE main.socketFD = None /\ Throw /\ UNCHANGED fds
  <2>1. DOMAIN fds' = DOMAIN fds \ {main.socketFD}
    BY <1>4 DEF NoneIsClosed
  <2> QED BY <1>1, <1>4, <2>1, ThrowKeepsInv
<1> QED BY <1>2, <1>3, <1>4 DEF _startListening

\* The steps that neither open nor close, and the end.
LEMMA OtherStepsKeepInv ==
  ASSUME DescriptorInv,
         ReadConfig \/ ConfigRead \/ Start \/ Serve \/ Interrupt \/ Exit
  PROVE  DescriptorInv'
<1> USE DEF DescriptorInv, MainHasItsFields
<1>1. ASSUME UNCHANGED <<main, fds>> PROVE DescriptorInv'
  BY <1>1 DEF SocketIsNew, NothingTwice, NoneIsClosed, DescriptorsAreAccountedFor,
              AllDescriptors
<1>2. CASE ReadConfig \/ Serve
  BY <1>1, <1>2 DEF ReadConfig, Serve
<1>3. ASSUME main.socketFD = None, DOMAIN fds = AllDescriptors \ {None},
             main'.at \in {"init", "serving", "stopping", "exited", "killed"},
             main'.at = "init" => AllDescriptors = {None},
             MainHasItsFields', main'.socketFD = main.socketFD,
             main'.epollFD = main.epollFD,
             main'.listeningSockets = main.listeningSockets,
             DOMAIN fds' = IF main'.at \in {"exited", "killed"} THEN {} ELSE DOMAIN fds
      PROVE  DescriptorInv'
  <2>1. AllDescriptors' = AllDescriptors
    BY <1>3 DEF AllDescriptors
  <2> QED BY <1>3, <2>1
          DEF SocketIsNew, NothingTwice, NoneIsClosed, DescriptorsAreAccountedFor
<1>4. CASE ConfigRead
  <2>1. main.socketFD = None /\ AllDescriptors = {None} /\ DOMAIN fds = {} /\ fds' = fds
    BY <1>4 DEF ConfigRead, SocketIsNew, NothingTwice, DescriptorsAreAccountedFor
  <2>2. \/ main' = [main EXCEPT !.at = "init"]
        \/ main' = [main EXCEPT !.at = "exited", !.code = 1]
        \/ main' = [main EXCEPT !.at = "killed"]
    BY <1>4 DEF ConfigRead, To
  <2>3. /\ main'.at \in {"init", "exited", "killed"}
        /\ MainHasItsFields' /\ main'.socketFD = main.socketFD
        /\ main'.epollFD = main.epollFD
        /\ main'.listeningSockets = main.listeningSockets
    BY <2>2
  <2> QED BY <1>3, <2>1, <2>3
<1>5. CASE Start
  <2>1. main.at = "sockets" /\ main.socketFD = None /\ fds' = fds
    BY <1>5 DEF Start, SocketIsNew
  <2>2. DOMAIN fds = AllDescriptors \ {None}
    BY <2>1 DEF DescriptorsAreAccountedFor
  <2>3. /\ main'.at = "serving"
        /\ MainHasItsFields' /\ main'.socketFD = main.socketFD
        /\ main'.epollFD = main.epollFD
        /\ main'.listeningSockets = main.listeningSockets
    BY <1>5 DEF Start, To
  <2> QED BY <1>3, <2>1, <2>2, <2>3
<1>6. CASE Interrupt /\ main.at = "serving"
  <2>1. main.socketFD = None /\ fds' = fds
    BY <1>6 DEF Interrupt, SocketIsNew
  <2>2. DOMAIN fds = AllDescriptors \ {None}
    BY <1>6, <2>1 DEF DescriptorsAreAccountedFor
  <2>3. /\ main'.at = "stopping"
        /\ MainHasItsFields' /\ main'.socketFD = main.socketFD
        /\ main'.epollFD = main.epollFD
        /\ main'.listeningSockets = main.listeningSockets
    BY <1>6 DEF Interrupt, To
  <2> QED BY <1>3, <2>1, <2>2, <2>3
<1>7. CASE Interrupt /\ main.at # "serving"
  <2>1. main' = [main EXCEPT !.at = "killed"] /\ fds' = <<>>
    BY <1>7 DEF Interrupt, To
  <2>2. DOMAIN fds' = {}
    BY <2>1
  <2>3. AllDescriptors' = AllDescriptors /\ main'.at = "killed"
    BY <2>1 DEF AllDescriptors
  <2>4. DescriptorsAreAccountedFor' /\ NoneIsClosed'
    BY <2>2, <2>3 DEF DescriptorsAreAccountedFor, NoneIsClosed
  <2>5. MainHasItsFields' /\ SocketIsNew' /\ NothingTwice'
    BY <2>1, <2>3 DEF SocketIsNew, NothingTwice
  <2> QED BY <2>4, <2>5
<1>8. CASE Exit
  <2>1. main.at = "stopping" /\ main.socketFD = None
    BY <1>8 DEF Exit, SocketIsNew
  <2>2. DOMAIN fds = AllDescriptors \ {None}
    BY <2>1 DEF DescriptorsAreAccountedFor
  <2>3. DOMAIN fds' = {}
    <3>1. DOMAIN fds' = DOMAIN fds \ AllDescriptors
      BY <1>8 DEF Exit, Without
    <3> QED BY <2>2, <3>1
  <2>4. /\ main'.at = "exited"
        /\ MainHasItsFields' /\ main'.socketFD = main.socketFD
        /\ main'.epollFD = main.epollFD
        /\ main'.listeningSockets = main.listeningSockets
    BY <1>8 DEF Exit, To
  <2> QED BY <1>3, <2>1, <2>2, <2>3, <2>4
<1> QED BY <1>2, <1>4, <1>5, <1>6, <1>7, <1>8

LEMMA DescriptorInvStep ==
  DescriptorInv /\ [WebservNext]_webservVars => DescriptorInv'
<1> SUFFICES ASSUME DescriptorInv, [WebservNext]_webservVars PROVE DescriptorInv'
  OBVIOUS
<1>1. CASE WebservNext
  BY <1>1, InitEpollKeepsInv, GetAddressInfoKeepsInv, TryAddressKeepsInv,
     StartListeningKeepsInv, OtherStepsKeepInv DEF WebservNext
<1>2. CASE UNCHANGED webservVars
  BY <1>2 DEF webservVars, DescriptorInv, MainHasItsFields, SocketIsNew, NothingTwice,
              NoneIsClosed, DescriptorsAreAccountedFor, AllDescriptors
<1> QED BY <1>1, <1>2

\* Whatever call of the start-up fails, and whenever the program is interrupted,
\* the descriptors that are open are those the server knows of, and none is when
\* it has ended (_makeNewListeningSocket, _addFDToEpoll, ~HTTPServer).
THEOREM NoDescriptorIsLost == WebservSpec => []DescriptorsAreAccountedFor
<1>1. WebservInit => DescriptorInv
  BY DEF WebservInit, DescriptorInv, MainHasItsFields, SocketIsNew, NothingTwice,
         NoneIsClosed, DescriptorsAreAccountedFor, AllDescriptors, Range
<1>2. DescriptorInv /\ [WebservNext]_webservVars => DescriptorInv'
  BY DescriptorInvStep
<1>3. DescriptorInv => DescriptorsAreAccountedFor
  BY DEF DescriptorInv
<1> QED BY <1>1, <1>2, <1>3, PTL DEF WebservSpec

\* The program looks routes up in no other way than the component does by itself:
\* its steps are steps of ServerConfig or leave the route that is kept alone, and
\* so it stays the route of the path it is kept for, and the longest location of it
\* (_parsePath, _setServerConfig, _findRoute).
THEOREM ProgramKeepsCacheCoherent ==
  WebservSpec => ConfigSpec /\ []CacheIsCoherent /\ []LongestLocationWins
<1>1. WebservInit => ConfigInit
  BY DEF WebservInit
<1>2. [WebservNext]_webservVars => [ConfigNext]_config
  BY DEF WebservNext, webservVars, ReadConfig, ConfigRead, _initEpoll, _getAddressInfo,
         TryAddress, _startListening, Start, Serve, Interrupt, Exit
<1>3. WebservSpec => ConfigSpec
  BY <1>1, <1>2, PTL DEF WebservSpec, ConfigSpec
<1> QED BY <1>3, CacheStaysCoherent, LongestLocationIsFound, PTL

\* With locations in normal form, every path has its file throughout the program, for
\* the request that reads it and the upload that wrote it (getFullFilesystemPath, getUploadPath).
THEOREM ProgramNamesItsFiles ==
  ASSUME LocationsAreNormal
  PROVE  WebservSpec => []PathsNameTheirFiles
BY ProgramKeepsCacheCoherent, PathsAreTheirFiles, PTL

----------------------------------------------------------------------------
(* The configuration, from the parser to the end of the program.           *)

\* The steps that leave the configuration alone: all but those of the parser.
LEMMA ConfigIsKept ==
  ASSUME WebservNext, ~ReadConfig, ~ConfigRead
  PROVE  UNCHANGED <<file, parser>>
BY DEF WebservNext, _initEpoll, _getAddressInfo, TryAddress, _startListening, Start,
       Serve, Interrupt, Exit

LEMMA StepKeepsParserInv ==
  ASSUME ParserInv, [WebservNext]_webservVars
  PROVE  ParserInv'
<1>1. CASE ReadConfig
  BY <1>1, ParseKeepsInv DEF ReadConfig
<1>2. CASE ConfigRead
  <2> DEFINE p == [NewParser EXCEPT !.configs = parser.configs]
  <2>1. parser' = [p EXCEPT !.block = "gone"] /\ file' = file
    BY <1>2, FieldsOfTheParser DEF ConfigRead
  <2>2. ConfigsAreSound(parser.configs)
    BY DEF ParserInv, ParserIsSound
  <2>3. DOMAIN p = DOMAIN NewParser
    OBVIOUS
  <2>4. /\ p.tokens = NewParser.tokens /\ p.at = NewParser.at
        /\ p.server = NewParser.server /\ p.route = NewParser.route
        /\ p.configs = parser.configs
    BY FieldsOfTheParser
  <2> HIDE DEF p
  <2>5. ParserIsSound(p)
    BY <2>2, <2>3, <2>4, NewParserIsSound DEF ParserIsSound
  <2>6. ParserIsSound(parser') /\ parser'.block = "gone"
    BY <2>1, <2>5, BlockMayChange
  <2> QED BY <2>1, <2>6 DEF ParserInv, Accepted
<1>3. CASE UNCHANGED <<file, parser>>
  BY <1>3 DEF ParserInv, Accepted
<1> QED BY <1>1, <1>2, <1>3, ConfigIsKept DEF webservVars

\* What is accepted can be used: whatever mistake there is in the file, every server
\* that is kept has a name, a host, a limit and locations with paths, and the program
\* that goes on from there need not look (validateServer, validateRoutes).
THEOREM AcceptedFilesAreUsable == WebservSpec => []AcceptedIsUsable
<1>1. WebservInit => ParserInv
  BY ParserInitSound DEF WebservInit
<1>2. ParserInv /\ [WebservNext]_webservVars => ParserInv'
  BY StepKeepsParserInv
<1>3. ParserInv => AcceptedIsUsable
  BY SoundIsUsable
<1> QED BY <1>1, <1>2, <1>3, PTL DEF WebservSpec

LEMMA StepKeepsReadInv ==
  ASSUME FilesAreRight, ReadInv, [WebservNext]_webservVars
  PROVE  ReadInv'
<1>1. CASE ReadConfig
  BY <1>1, ParseKeepsReadInv DEF ReadConfig
<1>2. CASE ConfigRead
  <2>1. ParserInv /\ ParserInv'
    <3>1. ParserInv
      BY DEF ReadInv
    <3> QED BY <3>1, StepKeepsParserInv
  <2>2. parser'.block = "gone" /\ file' = file
    BY <1>2, FieldsOfTheParser DEF ConfigRead
  <2>3. \A w : IsOnTheWay(parser', w) /\ ReadsOf(parser', FileTokens(w))
    BY <2>2 DEF IsOnTheWay, ReadsOf, Reading
  <2> QED BY <2>1, <2>2, <2>3 DEF ReadInv
<1>3. CASE UNCHANGED <<file, parser>>
  BY <1>3 DEF ReadInv, ParserInv, Accepted
<1> QED BY <1>1, <1>2, <1>3, ConfigIsKept DEF webservVars

\* A file without a mistake is read to its end, and the servers that come of it are those
\* that were written, with every value of every directive: the last where one counts, all
\* where they are a list, the next word for every extension and the last page for every
\* code; and it is never refused (parse, parseServer, parseLocation, tokenize).
THEOREM FilesAreReadAsWritten ==
  ASSUME FilesAreRight
  PROVE  WebservSpec => []ReadAsWritten
<1>1. WebservInit => ReadInv
  BY ReadInvInit DEF WebservInit
<1>2. ReadInv /\ [WebservNext]_webservVars => ReadInv'
  BY StepKeepsReadInv
<1>3. ReadInv => ReadAsWritten
  BY ReadingIsRight
<1> QED BY <1>1, <1>2, <1>3, PTL DEF WebservSpec

\* In such a file, a request finds the first server that was written with its address and
\* its name, or the first with its address if none has the name (findServerConfig).
THEOREM NamesLeadToTheFirst ==
  ASSUME FilesAreRight
  PROVE  WebservSpec => []NamesFindTheirServer
<1>1. WebservInit => ReadInv
  BY ReadInvInit DEF WebservInit
<1>2. ReadInv /\ [WebservNext]_webservVars => ReadInv'
  BY StepKeepsReadInv
<1>3. ReadInv => NamesFindTheirServer
  BY FindingIsRight
<1> QED BY <1>1, <1>2, <1>3, PTL DEF WebservSpec

\* A file that ends too early, be it in the middle of a line, is refused, or else it ends
\* behind the last brace of a server, and the servers up to there are read as they were
\* written (parseServer, parseLocation, expectToken).
THEOREM EndsAreNoticed ==
  ASSUME FilesAreRight
  PROVE  WebservSpec => []EndIsNoticed
<1>1. WebservInit => ReadInv
  BY ReadInvInit DEF WebservInit
<1>2. ReadInv /\ [WebservNext]_webservVars => ReadInv'
  BY StepKeepsReadInv
<1>3. ReadInv => EndIsNoticed
  BY EndingIsNoticed
<1> QED BY <1>1, <1>2, <1>3, PTL DEF WebservSpec

----------------------------------------------------------------------------
(* The listening sockets.                                                  *)

AddressesOf(key) == getaddrinfo[parser.configs[key][1].host]

\* A socket that is bound to the address of the key.
IsSocketOf(key, fd) ==
  /\ fd \in DOMAIN fds
  /\ DOMAIN fds[fd] = {"kind", "address", "port", "listens", "watched"}
  /\ fds[fd].address \in Range(AddressesOf(key))
  /\ fds[fd].port = parser.configs[key][1].port

Serves(key, fd) == IsSocketOf(key, fd) /\ fds[fd].listens /\ fds[fd].watched

NoSocketYet == main.at \in {"config", "init"} => DOMAIN main.listeningSockets = {}

SocketsServe ==
  main.at \in {"sockets", "address", "serving"} =>
    /\ DOMAIN main.listeningSockets \subseteq DOMAIN parser.configs
    /\ \A key \in DOMAIN main.listeningSockets :
         /\ Serves(key, main.listeningSockets[key])
         /\ \A other \in DOMAIN main.listeningSockets \ {key} :
              main.listeningSockets[other] # main.listeningSockets[key]

SocketIsMade ==
  main.at = "address" =>
    /\ main.key \in DOMAIN parser.configs
    /\ main.addresses \in Seq(Range(AddressesOf(main.key)))
    /\ main.socketFD # None => IsSocketOf(main.key, main.socketFD)

AllAreServed == main.at = "serving" => DOMAIN main.listeningSockets = DOMAIN parser.configs

AddressInv == NoSocketYet /\ SocketsServe /\ SocketIsMade /\ AllAreServed

\* A socket is the same as long as neither it nor the configuration changes.
LEMMA SocketStays ==
  ASSUME NEW key, NEW fd, fds' = fds, parser' = parser
  PROVE  /\ IsSocketOf(key, fd)' <=> IsSocketOf(key, fd)
         /\ Serves(key, fd)' <=> Serves(key, fd)
BY DEF IsSocketOf, Serves, AddressesOf

\* Steps that change neither, and of main only where it is.
LEMMA MovingKeepsAddressInv ==
  ASSUME AddressInv, MainHasItsFields, fds' = fds, parser' = parser,
         NEW at, main' = [main EXCEPT !.at = at],
         \/ at \in {"stopping", "exited", "killed"}
         \/ at = "serving" /\ main.at = "sockets"
              /\ DOMAIN main.listeningSockets = DOMAIN parser.configs
  PROVE  AddressInv'
<1>1. main'.at = at /\ main'.listeningSockets = main.listeningSockets
  BY DEF MainHasItsFields
<1>2. \A key \in DOMAIN main.listeningSockets :
        Serves(key, main.listeningSockets[key])' <=> Serves(key, main.listeningSockets[key])
  BY <1>1 DEF IsSocketOf, Serves, AddressesOf
<1>3. at # "address" /\ at # "config" /\ at # "init" /\ at # "sockets"
  OBVIOUS
<1>4. SocketsServe'
  BY <1>1, <1>2, <1>3 DEF AddressInv, SocketsServe
<1> QED BY <1>1, <1>3, <1>4 DEF AddressInv, NoSocketYet, SocketIsMade, AllAreServed

\* Where no key is served any more there is nothing to keep.
LEMMA EndKeepsAddressInv ==
  ASSUME main'.at \in {"stopping", "exited", "killed"}
  PROVE  AddressInv'
BY DEF AddressInv, NoSocketYet, SocketsServe, SocketIsMade, AllAreServed

LEMMA ThrowKeepsAddressInv ==
  ASSUME MainHasItsFields, Throw
  PROVE  AddressInv'
<1>1. main'.at = "stopping"
  BY DEF MainHasItsFields, Throw
<1> QED BY <1>1, EndKeepsAddressInv

LEMMA InitEpollKeepsAddressInv ==
  ASSUME AddressInv, DescriptorInv, _initEpoll
  PROVE  AddressInv'
<1>1. main.at = "init" /\ MainHasItsFields /\ DOMAIN main.listeningSockets = {}
  BY DEF _initEpoll, DescriptorInv, AddressInv, NoSocketYet
<1>2. CASE main' = [main EXCEPT !.at = "sockets", !.epollFD = NewFD]
  <2>1. main'.at = "sockets" /\ main'.listeningSockets = main.listeningSockets
    BY <1>1, <1>2 DEF MainHasItsFields
  <2> QED BY <1>1, <2>1 DEF AddressInv, NoSocketYet, SocketsServe, SocketIsMade, AllAreServed
<1>3. CASE Throw
  BY <1>1, <1>3, ThrowKeepsAddressInv
<1> QED BY <1>2, <1>3 DEF _initEpoll

LEMMA GetAddressInfoKeepsAddressInv ==
  ASSUME AddressInv, DescriptorInv, _getAddressInfo
  PROVE  AddressInv'
<1>1. /\ main.at = "sockets" /\ MainHasItsFields /\ main.socketFD = None
      /\ fds' = fds /\ parser' = parser
  BY DEF _getAddressInfo, DescriptorInv, SocketIsNew
<1>2. PICK key \in DOMAIN parser.configs \ DOMAIN main.listeningSockets :
        \/ /\ parser.configs[key][1].host \in DOMAIN getaddrinfo
           /\ main' = [main EXCEPT !.at = "address", !.key = key,
                         !.addresses = AddressesOf(key)]
        \/ Throw
  BY DEF _getAddressInfo, AddressesOf
<1>3. CASE Throw
  BY <1>1, <1>3, ThrowKeepsAddressInv
<1>4. CASE /\ parser.configs[key][1].host \in DOMAIN getaddrinfo
           /\ main' = [main EXCEPT !.at = "address", !.key = key,
                         !.addresses = AddressesOf(key)]
  <2>1. /\ main'.at = "address" /\ main'.key = key /\ main'.addresses = AddressesOf(key)
        /\ main'.listeningSockets = main.listeningSockets /\ main'.socketFD = None
    BY <1>1, <1>4 DEF MainHasItsFields
  <2>2. AddressesOf(key) \in Seq(Range(AddressesOf(key)))
    <3>1. AddressesOf(key) \in Seq(STRING)
      BY <1>4, AddressAssumption DEF AddressesOf
    <3> QED BY <3>1, SeqOfRange
  <2>3. AddressesOf(key)' = AddressesOf(key)
    BY <1>1 DEF AddressesOf
  <2>4. SocketIsMade'
    BY <1>1, <2>1, <2>2, <2>3 DEF SocketIsMade, AddressesOf
  <2>5. \A k \in DOMAIN main.listeningSockets :
          Serves(k, main.listeningSockets[k])' <=> Serves(k, main.listeningSockets[k])
    BY <1>1, <2>1 DEF IsSocketOf, Serves, AddressesOf
  <2>6. SocketsServe'
    BY <1>1, <2>1, <2>5 DEF AddressInv, SocketsServe
  <2> QED BY <2>1, <2>4, <2>6 DEF AddressInv, NoSocketYet, AllAreServed
<1> QED BY <1>2, <1>3, <1>4

LEMMA TryAddressKeepsAddressInv ==
  ASSUME AddressInv, DescriptorInv, TryAddress
  PROVE  AddressInv'
<1> DEFINE socket == [kind |-> "socket", address |-> main.addresses[1],
                      port |-> parser.configs[main.key][1].port,
                      listens |-> FALSE, watched |-> FALSE]
           S == Range(AddressesOf(main.key))
<1>1. /\ main.at = "address" /\ main.addresses # <<>> /\ MainHasItsFields
      /\ parser' = parser /\ main.key \in DOMAIN parser.configs
      /\ main.addresses \in Seq(S)
  BY DEF TryAddress, DescriptorInv, AddressInv, SocketIsMade
<1>2. CASE main' = NextAddress(Tail(main.addresses)) /\ UNCHANGED fds
  <2>1. /\ main'.at = "address" /\ main'.key = main.key
        /\ main'.addresses = Tail(main.addresses)
        /\ main'.listeningSockets = main.listeningSockets /\ main'.socketFD = None
    BY <1>1, <1>2 DEF MainHasItsFields, NextAddress
  <2>2. Tail(main.addresses) \in Seq(S)
    <3> HIDE DEF S
    <3> QED BY <1>1
  <2>3. SocketIsMade'
    BY <1>1, <2>1, <2>2 DEF SocketIsMade, AddressesOf
  <2>4. \A k \in DOMAIN main.listeningSockets :
          Serves(k, main.listeningSockets[k])' <=> Serves(k, main.listeningSockets[k])
    BY <1>1, <1>2, <2>1 DEF IsSocketOf, Serves, AddressesOf
  <2>5. SocketsServe'
    BY <1>1, <2>1, <2>4 DEF AddressInv, SocketsServe
  <2> QED BY <2>1, <2>3, <2>5 DEF AddressInv, NoSocketYet, AllAreServed
<1>3. CASE /\ Free # {} /\ fds' = With(fds, NewFD, socket)
           /\ main' = [main EXCEPT !.addresses = <<>>, !.socketFD = NewFD]
  <2> PICK new : new = NewFD
    OBVIOUS
  <2>1. /\ main'.at = "address" /\ main'.key = main.key /\ main'.addresses = <<>>
        /\ main'.listeningSockets = main.listeningSockets /\ main'.socketFD = new
    BY <1>1, <1>3 DEF MainHasItsFields
  <2>2. /\ new \notin DOMAIN fds /\ DOMAIN fds' = DOMAIN fds \cup {new}
        /\ fds'[new] = socket /\ \A fd \in DOMAIN fds : fds'[fd] = fds[fd]
    <3>1. new \notin DOMAIN fds
      BY <1>3, FreeIsNew
    <3> HIDE DEF socket
    <3> QED BY <1>3, <3>1 DEF With
  <2>3. main.addresses[1] \in S
    <3> HIDE DEF S
    <3> QED BY <1>1
  <2>4. IsSocketOf(main.key, new)'
    <3>1. /\ DOMAIN socket = {"kind", "address", "port", "listens", "watched"}
          /\ socket.address = main.addresses[1]
          /\ socket.port = parser.configs[main.key][1].port
      OBVIOUS
    <3> HIDE DEF socket
    <3> QED BY <1>1, <2>1, <2>2, <2>3, <3>1 DEF IsSocketOf, AddressesOf
  <2>5. <<>> \in Seq(S)
    OBVIOUS
  <2>6. SocketIsMade'
    BY <1>1, <2>1, <2>4, <2>5 DEF SocketIsMade, AddressesOf, IsSocketOf
  <2>7. \A k \in DOMAIN main.listeningSockets :
          Serves(k, main.listeningSockets[k]) => Serves(k, main.listeningSockets[k])'
    BY <1>1, <2>1, <2>2 DEF IsSocketOf, Serves, AddressesOf
  <2>8. SocketsServe'
    BY <1>1, <2>1, <2>7 DEF AddressInv, SocketsServe
  <2> QED BY <2>1, <2>6, <2>8 DEF AddressInv, NoSocketYet, AllAreServed
<1> QED BY <1>2, <1>3 DEF TryAddress

LEMMA StartListeningKeepsAddressInv ==
  ASSUME AddressInv, DescriptorInv, _startListening
  PROVE  AddressInv'
<1>1. main.at = "address" /\ MainHasItsFields /\ parser' = parser
  BY DEF _startListening, DescriptorInv
<1>2. CASE /\ main.socketFD \in DOMAIN fds
           /\ fds' = Watched(main.socketFD)
           /\ main' = [main EXCEPT !.at = "sockets", !.key = <<>>, !.socketFD = None,
                         !.listeningSockets = With(@, main.key, main.socketFD)]
  <2> PICK key, new, old : key = main.key /\ new = main.socketFD /\ old = main.listeningSockets
    OBVIOUS
  <2>1. /\ main'.at = "sockets" /\ main'.listeningSockets = With(old, key, new)
    BY <1>1, <1>2 DEF MainHasItsFields
  <2>2. /\ new # None /\ new \notin Range(old) /\ key \notin DOMAIN old
        /\ key \in DOMAIN parser.configs /\ IsSocketOf(key, new)
    BY <1>1, <1>2 DEF DescriptorInv, NoneIsClosed, SocketIsNew, NothingTwice,
                      AllDescriptors, AddressInv, SocketIsMade
  <2>3. /\ DOMAIN With(old, key, new) = DOMAIN old \cup {key}
        /\ With(old, key, new)[key] = new
        /\ \A k \in DOMAIN old : With(old, key, new)[k] = old[k]
    BY <2>2 DEF With
  <2>4. /\ DOMAIN fds' = DOMAIN fds /\ \A fd \in DOMAIN fds \ {new} : fds'[fd] = fds[fd]
        /\ DOMAIN fds'[new] = DOMAIN fds[new]
        /\ fds'[new].address = fds[new].address /\ fds'[new].port = fds[new].port
        /\ fds'[new].listens /\ fds'[new].watched
    <3>1. /\ "address" \in DOMAIN fds[new] /\ "port" \in DOMAIN fds[new]
          /\ "listens" \in DOMAIN fds[new] /\ "watched" \in DOMAIN fds[new]
      BY <2>2 DEF IsSocketOf
    <3>2. fds' = [fds EXCEPT ![new] = [fds[new] EXCEPT !.listens = TRUE, !.watched = TRUE]]
      BY <1>2 DEF Watched
    <3> DEFINE f == [fds[new] EXCEPT !.listens = TRUE, !.watched = TRUE]
    <3>3. /\ DOMAIN f = DOMAIN fds[new]
          /\ f.address = fds[new].address /\ f.port = fds[new].port /\ f.listens /\ f.watched
      BY ONLY <3>1
    <3>4. fds' = [fds EXCEPT ![new] = f] /\ new \in DOMAIN fds
      BY <1>2, <3>2
    <3> HIDE DEF f
    <3>5. DOMAIN fds' = DOMAIN fds /\ \A fd \in DOMAIN fds \ {new} : fds'[fd] = fds[fd]
      BY ONLY <3>4
    <3>6. fds'[new] = f
      BY ONLY <3>4
    <3> QED BY ONLY <3>3, <3>5, <3>6
  <2>5. Serves(key, new)'
    BY <1>1, <2>2, <2>4 DEF Serves, IsSocketOf, AddressesOf
  <2>6. \A k \in DOMAIN old : old[k] \in Range(old) /\ Serves(k, old[k])
    BY <1>1 DEF AddressInv, SocketsServe, Range
  <2>7. ASSUME NEW k \in DOMAIN old PROVE Serves(k, old[k])' /\ old[k] # new
    <3>1. old[k] # new /\ Serves(k, old[k])
      BY <2>2, <2>6
    <3> QED BY <1>1, <2>4, <3>1 DEF Serves, IsSocketOf, AddressesOf
  <2>8. \A k, l \in DOMAIN old : k # l => old[k] # old[l]
    BY <1>1 DEF AddressInv, SocketsServe
  <2>9. DOMAIN old \subseteq DOMAIN parser.configs
    BY <1>1 DEF AddressInv, SocketsServe
  <2> DEFINE made == With(old, key, new)
  <2>10. ASSUME NEW k \in DOMAIN made
         PROVE  /\ Serves(k, made[k])'
                /\ \A other \in DOMAIN made \ {k} : made[other] # made[k]
    <3> HIDE DEF made
    <3>1. CASE k = key
      BY <2>3, <2>5, <2>7, <3>1 DEF made
    <3>2. CASE k \in DOMAIN old
      BY <2>2, <2>3, <2>7, <2>8, <3>2 DEF made
    <3> QED BY <2>3, <3>1, <3>2 DEF made
  <2>11. SocketsServe'
    <3>1. DOMAIN made \subseteq DOMAIN parser'.configs
      BY <1>1, <2>2, <2>3, <2>9
    <3> HIDE DEF made
    <3> QED BY <2>1, <2>10, <3>1 DEF SocketsServe, made
  <2> QED BY <2>1, <2>11 DEF AddressInv, NoSocketYet, SocketIsMade, AllAreServed
<1>3. CASE Throw
  BY <1>1, <1>3, ThrowKeepsAddressInv
<1> QED BY <1>2, <1>3 DEF _startListening

LEMMA OtherStepsKeepAddressInv ==
  ASSUME AddressInv, DescriptorInv,
         ReadConfig \/ ConfigRead \/ Start \/ Serve \/ Interrupt \/ Exit
  PROVE  AddressInv'
<1>1. MainHasItsFields
  BY DEF DescriptorInv
<1>2. ASSUME main.at = "config", main'.at \in {"config", "init"},
             main'.listeningSockets = main.listeningSockets
      PROVE  AddressInv'
  BY <1>2 DEF AddressInv, NoSocketYet, SocketsServe, SocketIsMade, AllAreServed
<1>3. CASE ReadConfig
  BY <1>2, <1>3 DEF ReadConfig
<1>4. CASE ConfigRead
  <2>1. main.at = "config"
    BY <1>4 DEF ConfigRead
  <2>2. CASE To("init")
    <3>1. main'.at = "init" /\ main'.listeningSockets = main.listeningSockets
      BY <1>1, <2>2 DEF To, MainHasItsFields
    <3> QED BY <1>2, <2>1, <3>1
  <2>3. CASE To("killed") \/ main' = [main EXCEPT !.at = "exited", !.code = 1]
    <3>1. main'.at \in {"exited", "killed"}
      BY <1>1, <2>3 DEF To, MainHasItsFields
    <3> QED BY <3>1, EndKeepsAddressInv
  <2> QED BY <1>4, <2>2, <2>3 DEF ConfigRead
<1>5. CASE Start
  BY <1>1, <1>5, MovingKeepsAddressInv DEF Start, To
<1>6. CASE Serve
  <2>1. main' = main /\ fds' = fds /\ parser' = parser
    BY <1>6 DEF Serve
  <2> QED BY <2>1 DEF AddressInv, NoSocketYet, SocketsServe, SocketIsMade, AllAreServed,
                      Serves, IsSocketOf, AddressesOf
<1>7. CASE Interrupt \/ Exit
  <2>1. main'.at \in {"stopping", "killed", "exited"}
    BY <1>1, <1>7 DEF Interrupt, Exit, To, MainHasItsFields
  <2> QED BY <2>1, EndKeepsAddressInv
<1> QED BY <1>3, <1>4, <1>5, <1>6, <1>7

\* The sockets are right, and so is what they stand for.
LEMMA AllAreServedByTheirSocket ==
  ASSUME AddressInv, ParserInv
  PROVE  EveryAddressIsServed
<1> SUFFICES ASSUME main.at = "serving" PROVE EveryAddressIsServed
  BY DEF EveryAddressIsServed
<1>1. DOMAIN main.listeningSockets = DOMAIN parser.configs
  BY DEF AddressInv, AllAreServed
<1>2. ASSUME NEW key \in DOMAIN parser.configs
      PROVE  /\ Serves(key, main.listeningSockets[key])
             /\ \A other \in DOMAIN parser.configs \ {key} :
                  main.listeningSockets[other] # main.listeningSockets[key]
  BY <1>1 DEF AddressInv, SocketsServe
<1>3. ASSUME NEW key \in DOMAIN parser.configs
      PROVE  LET socket == fds[main.listeningSockets[key]]
                 server == findServerConfig(key, <<>>)
             IN  /\ socket.listens /\ socket.watched
                 /\ socket.address \in Range(getaddrinfo[server.host])
                 /\ socket.port = server.port
  <2>1. ConfigsAreSound(parser.configs)
    BY DEF ParserInv, ParserIsSound
  <2>2. /\ findServerConfig(key, <<>>).host = parser.configs[key][1].host
        /\ findServerConfig(key, <<>>).port = parser.configs[key][1].port
    BY <2>1, FoundServerIsOfTheKey
  <2> QED BY <1>2, <2>2 DEF Serves, IsSocketOf, AddressesOf
<1> QED BY <1>1, <1>2, <1>3 DEF EveryAddressIsServed

\* Requests are served only when every address in the file has a socket of its own
\* that listens there and is watched, whatever calls have failed for how many of its
\* addresses on the way (_makeNewListeningSocket, _addFDToEpoll, findServerConfig).
THEOREM AddressesAreServed == WebservSpec => []EveryAddressIsServed
<1> DEFINE IInv == DescriptorInv /\ ParserInv /\ AddressInv
<1>1. WebservInit => IInv
  <2> SUFFICES ASSUME WebservInit PROVE IInv
    OBVIOUS
  <2>1. DescriptorInv
    BY DEF WebservInit, DescriptorInv, MainHasItsFields, SocketIsNew, NothingTwice,
           NoneIsClosed, DescriptorsAreAccountedFor, AllDescriptors, Range
  <2>2. AddressInv
    BY DEF WebservInit, AddressInv, NoSocketYet, SocketsServe, SocketIsMade, AllAreServed
  <2> QED BY <2>1, <2>2, ParserInitSound DEF WebservInit
<1>2. IInv /\ [WebservNext]_webservVars => IInv'
  <2> SUFFICES ASSUME IInv, [WebservNext]_webservVars PROVE IInv'
    OBVIOUS
  <2>1. DescriptorInv' /\ ParserInv'
    BY DescriptorInvStep, StepKeepsParserInv
  <2>2. CASE WebservNext
    <3>1. AddressInv'
      BY <2>2, InitEpollKeepsAddressInv, GetAddressInfoKeepsAddressInv,
         TryAddressKeepsAddressInv, StartListeningKeepsAddressInv,
         OtherStepsKeepAddressInv DEF WebservNext
    <3> QED BY <2>1, <3>1
  <2>3. CASE UNCHANGED webservVars
    <3>1. AddressInv'
      BY <2>3 DEF webservVars, AddressInv, NoSocketYet, SocketsServe, SocketIsMade,
                  AllAreServed, Serves, IsSocketOf, AddressesOf
    <3> QED BY <2>1, <3>1
  <2> QED BY <2>2, <2>3
<1>3. IInv => EveryAddressIsServed
  BY AllAreServedByTheirSocket
<1> QED BY <1>1, <1>2, <1>3, PTL DEF WebservSpec
=============================================================================
