-------------------------------- MODULE Webserv ------------------------------
(***************************************************************************)
(* The program from its start to its end (main.cpp, HTPPServerInit.cpp):   *)
(* the configuration file is read, one listening socket is made for every  *)
(* address in it, a signal handler is installed, requests are served by    *)
(* the routes that were read, and a signal ends it all.  Every system call *)
(* may fail.  What happens to connections is in HTTPServer.tla.            *)
(***************************************************************************)
EXTENDS ConfigParser

CONSTANTS
  getaddrinfo,   \* the addresses of the hosts that have some, as they are tried
  Descriptors,   \* bound: the descriptors the process may have open
  None           \* no descriptor, -1

ASSUME DescriptorAssumption == None \notin Descriptors
ASSUME AddressAssumption ==
  \A host \in DOMAIN getaddrinfo : getaddrinfo[host] \in Seq(STRING)

VARIABLES
  main,   \* where main is, and the HTTPServer it has made
  fds     \* the descriptors that are open

webservVars == <<file, parser, config, main, fds>>

WebservInit ==
  /\ ParserInit
  /\ ConfigInit
  /\ main = [at |-> "config",             \* see the actions
             code |-> 0,                  \* what main returns
             epollFD |-> None,
             listeningSockets |-> <<>>,   \* the descriptor of every key
             key |-> <<>>,                \* the key whose socket is being made,
             addresses |-> <<>>,          \* its addresses to be tried,
             socketFD |-> None]           \* and the socket
  /\ fds = <<>>

Free == Descriptors \ DOMAIN fds
NewFD == CHOOSE fd \in Free : TRUE

\* f with one more pair.
With(f, x, value) == [y \in DOMAIN f \cup {x} |-> IF y = x THEN value ELSE f[y]]
Without(closed) == [fd \in DOMAIN fds \ closed |-> fds[fd]]

To(at) == main' = [main EXCEPT !.at = at]

\* An exception on its way out of init.
Throw == main' = [main EXCEPT !.at = "stopping", !.socketFD = None]
----------------------------------------------------------------------------
ReadConfig ==
  main.at = "config" /\ Parse /\ UNCHANGED <<config, main, fds>>

\* MyConfig's constructor keeps what the parser has made.  What there is behind the
\* last token is undefined: the exception gets its message, or the program dies.
ConfigRead ==
  /\ main.at = "config"
  /\ \/ /\ parser.block = "done"
        /\ To("init")
     \/ /\ parser.block \in {"refused", "astray"}
        /\ main' = [main EXCEPT !.at = "exited", !.code = 1]
     \/ /\ parser.block = "astray"
        /\ To("killed")
  /\ parser' = [NewParser EXCEPT !.block = "gone", !.configs = parser.configs]
  /\ UNCHANGED <<file, config, fds>>

_initEpoll ==
  /\ main.at = "init"
  /\ \/ /\ Free # {}
        /\ fds' = With(fds, NewFD, [kind |-> "epoll"])
        /\ main' = [main EXCEPT !.at = "sockets", !.epollFD = NewFD]
     \/ Throw /\ UNCHANGED fds
  /\ UNCHANGED <<file, parser, config>>

\* The loop of _initListeningSockets, the order of the keys left open, and
\* _getAddressInfo.
_getAddressInfo ==
  /\ main.at = "sockets"
  /\ \E key \in DOMAIN parser.configs \ DOMAIN main.listeningSockets :
       \/ /\ parser.configs[key][1].host \in DOMAIN getaddrinfo
          /\ main' = [main EXCEPT !.at = "address", !.key = key,
                        !.addresses = getaddrinfo[parser.configs[key][1].host]]
       \/ Throw
  /\ UNCHANGED <<file, parser, config, fds>>

InUse(address) ==
  \E fd \in DOMAIN fds :
    fds[fd].kind = "socket" /\ fds[fd].address = address
      /\ fds[fd].port = parser.configs[main.key][1].port

\* One turn of the loop over the addresses: _createSocket, _setSocketOptions,
\* _bindSocket.  When one fails the socket is closed, if it was made, twice.
NextAddress(rest) == [main EXCEPT !.addresses = rest, !.socketFD = None]

TryAddress ==
  /\ main.at = "address" /\ main.addresses # <<>>
  /\ \/ /\ Free # {} /\ ~InUse(main.addresses[1])
        /\ fds' = With(fds, NewFD,
                        [kind |-> "socket", address |-> main.addresses[1],
                         port |-> parser.configs[main.key][1].port,
                         listens |-> FALSE, watched |-> FALSE])
        /\ main' = [main EXCEPT !.addresses = <<>>, !.socketFD = NewFD]
     \/ main' = NextAddress(Tail(main.addresses)) /\ UNCHANGED fds
  /\ UNCHANGED <<file, parser, config>>

LeavesItOpen(fd) == fds
ClosedOnFailure(fd) == Without({fd})

NotWatched(fd) == [fds EXCEPT ![fd].listens = TRUE]
Watched(fd) == [fds EXCEPT ![fd].listens = TRUE, ![fd].watched = TRUE]

\* The end of _makeNewListeningSocket, and _addFDToEpoll; either may fail.
_startListening ==
  /\ main.at = "address" /\ main.addresses = <<>>
  /\ \/ /\ main.socketFD \in DOMAIN fds
        /\ fds' = Watched(main.socketFD)
        /\ main' = [main EXCEPT !.at = "sockets", !.key = <<>>, !.socketFD = None,
                      !.listeningSockets = With(@, main.key, main.socketFD)]
     \/ /\ main.socketFD # None
        /\ fds' = ClosedOnFailure(main.socketFD)
        /\ Throw
     \/ main.socketFD = None /\ Throw /\ UNCHANGED fds
  /\ UNCHANGED <<file, parser, config>>

\* init is over and the handler is installed.
Start ==
  /\ main.at = "sockets"
  /\ DOMAIN main.listeningSockets = DOMAIN parser.configs
  /\ To("serving")
  /\ UNCHANGED <<file, parser, config, fds>>

\* A request for the server with these routes.
Serve ==
  /\ main.at = "serving"
  /\ \E key \in DOMAIN parser.configs :
       \E server \in Range(parser.configs[key]) :
         server.routes = routes /\ server.root = root
  /\ ConfigNext
  /\ UNCHANGED <<file, parser, main, fds>>

\* SIGINT: before the handler is installed it ends the program.
Interrupt ==
  /\ main.at \notin {"exited", "killed", "stopping"}
  /\ IF main.at = "serving"
       THEN To("stopping") /\ UNCHANGED fds
       ELSE To("killed") /\ fds' = <<>>
  /\ UNCHANGED <<file, parser, config>>

\* ~HTTPServer, after stop or in the course of an exception, and the end of main.
AllDescriptors == Range(main.listeningSockets) \cup {main.epollFD}

Exit ==
  /\ main.at = "stopping"
  /\ fds' = Without(AllDescriptors)
  /\ To("exited")
  /\ UNCHANGED <<file, parser, config>>

WebservNext ==
  \/ ReadConfig \/ ConfigRead \/ _initEpoll \/ _getAddressInfo \/ TryAddress
  \/ _startListening \/ Start \/ Serve \/ Interrupt \/ Exit

WebservSpec == WebservInit /\ [][WebservNext]_webservVars
----------------------------------------------------------------------------
\* Every descriptor that is open belongs to the server or to the step that makes
\* it, whatever has failed, so that nothing is left when the program has ended;
\* and the server has none that is not open (_makeNewListeningSocket, ~HTTPServer).
DescriptorsAreAccountedFor ==
  DOMAIN fds =
    IF main.at \in {"exited", "killed"} THEN {}
    ELSE (AllDescriptors \cup {main.socketFD}) \ {None}

\* While requests are served there is for every address in the file a socket of
\* its own that listens there and that epoll watches, and a server for every
\* connection it brings (_initListeningSockets, findServerConfig).
EveryAddressIsServed ==
  main.at = "serving" =>
    /\ DOMAIN main.listeningSockets = DOMAIN parser.configs
    /\ \A key \in DOMAIN parser.configs :
         LET socket == fds[main.listeningSockets[key]]
             server == findServerConfig(key, <<>>)
         IN  /\ socket.listens /\ socket.watched
             /\ socket.address \in Range(getaddrinfo[server.host])
             /\ socket.port = server.port
             /\ \A other \in DOMAIN parser.configs \ {key} :
                  main.listeningSockets[other] # main.listeningSockets[key]
=============================================================================
