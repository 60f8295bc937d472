---------------------------- MODULE ServerConfig ----------------------------
(***************************************************************************)
(* Routes (ServerConfig.cpp): the route of a path is looked up once and    *)
(* kept, in mutable members of the one ServerConfig all the connections of *)
(* a server share; who asks for a property of "the current route" gets the *)
(* route of whoever called setCorrectRoute last.                           *)
(*                                                                         *)
(* A path is the sequence of its characters.                               *)
(***************************************************************************)
EXTENDS Path

CONSTANTS
  routes,        \* the locations of the configuration file, in order
  root,          \* the server's root
  error_pages,   \* the pages configured for status codes
  Paths,         \* the paths requests ask for
  NoRoute        \* the null pointer

\* A location before anything about it is read; the redirectCode, which the
\* constructor leaves alone, is not looked at without a redirectPath.
BlankRoute ==
  [path |-> <<>>, allowedMethods |-> {}, redirectPath |-> <<>>, redirectCode |-> 0,
   root |-> <<>>, isDirectoryListing |-> FALSE, defaultFiles |-> <<>>,
   cgiExtensions |-> <<>>, uploadAllowed |-> FALSE, uploadPath |-> <<>>,
   client_max_body_size |-> 0]

Routes == ToSet(routes)

ASSUME RoutesAssumption ==
  /\ routes \in Seq(Routes) \ {<<>>}
  /\ \A i \in 1..Len(routes) :
       /\ routes[i] # NoRoute /\ DOMAIN routes[i] = DOMAIN BlankRoute
       /\ routes[i].path \in Seq(STRING) \ {<<>>}
  /\ root \in Seq(STRING)
  /\ \A code \in DOMAIN error_pages : error_pages[code] \in Seq(STRING)
  /\ Paths \subseteq Seq(STRING)

ASSUME LocationsAssumption ==
  \A i \in 1..Len(routes) :
    /\ {routes[i].root, routes[i].uploadPath} \subseteq Seq(STRING)
    /\ routes[i].defaultFiles \in Seq(Seq(STRING))

DEFAULT_UPLOAD_FILE == <<"/", "uploads.txt">>

\* A location of which nothing but the path is configured.
NewRoute(path) ==
  [BlankRoute EXCEPT !.path = path, !.uploadPath = path \o DEFAULT_UPLOAD_FILE]

VARIABLE config   \* _curentRoutePath and _curentRoute

ConfigInit == config = [path |-> <<>>, route |-> NoRoute]

\* path.compare(0, n, routePath) == 0 and what follows ends a segment.
Matches(route, path) ==
  LET n == Len(route.path) IN
  /\ n <= Len(path)
  /\ SubSeq(path, 1, n) = route.path
  /\ Len(path) = n \/ path[n + 1] = "/" \/ route.path = Slash

\* The loop: the first of the longest, the first route of all if none matches.
Found(path) ==
  LET found[i \in 0..Len(routes)] ==
        IF i = 0 THEN [route |-> routes[1], length |-> 0]
        ELSE LET best == found[i - 1] IN
             IF Matches(routes[i], path) /\ Len(routes[i].path) > best.length
               THEN [route |-> routes[i], length |-> Len(routes[i].path)]
               ELSE best
  IN  found

_findRoute(path) == Found(path)[Len(routes)].route

OnlyOnce(c, path) ==
  [path |-> path, route |-> IF c.route = NoRoute THEN _findRoute(path) ELSE c.route]

\* setCorrectRoute
Correct(c, path) ==
  IF c.path = path THEN c ELSE [path |-> path, route |-> _findRoute(path)]

setCorrectRoute(path) == config' = Correct(config, path)

(* What the current route r makes of a request.                            *)

\* The extensions a path may be configured under, the one tried first first.
Extensions(fullPath) ==
  LET dot == SelectLastInSeq(fullPath, LAMBDA c : c = ".")
      extension == SubSeq(fullPath, dot + 1, Len(fullPath))
  IN  <<extension, <<".">> \o extension>>

isAllowedCgi(r, fullPath) ==
  \E i \in 1..2 : Extensions(fullPath)[i] \in DOMAIN r.cgiExtensions

\* The program for a script, nothing if there is none.
getCgiInterpreter(r, fullPath) ==
  LET found == SelectSeq(Extensions(fullPath), LAMBDA e : e \in DOMAIN r.cgiExtensions)
  IN  IF found = <<>> THEN <<>> ELSE r.cgiExtensions[found[1]]

AnyMethod(r, method) == TRUE

\* A method is one word of the configuration file.
isAllowedMethod(r, method) == r.allowedMethods = {} \/ <<method>> \in r.allowedMethods

\* The limit of the location, or the one of its server.
getClientMaxBodySize(r, limit) ==
  IF r.client_max_body_size # 0 THEN r.client_max_body_size ELSE limit

getDocumentRoot(r) == normalize(IF r.root # <<>> THEN r.root ELSE root)

getFullFilesystemPath(r, requestPath) ==
  makeRelative(join(getDocumentRoot(r),
                    removePrefix(normalize(requestPath), normalize(r.path))))

\* The file for what is posted to the location itself, or one beside it.
getUploadPath(r, relativePath) ==
  LET rawPath    == normalize(r.uploadPath)
      rootedPath == IF isRelative(rawPath) THEN rawPath
                    ELSE makeRelative(join(getDocumentRoot(r), rawPath))
      fileName   == removePrefix(normalize(relativePath), r.path)
  IN  IF ~r.uploadAllowed THEN <<>>
      ELSE IF fileName = <<>> THEN rootedPath ELSE join(getDirectory(rootedPath), fileName)

\* Error pages are below the server's root, whatever the location's.
getErrorPagePath(code) ==
  IF code \in DOMAIN error_pages
    THEN <<".", "/">> \o root \o error_pages[code] ELSE <<>>

ConfigNext == \E path \in Paths : setCorrectRoute(path)

ConfigSpec == ConfigInit /\ [][ConfigNext]_config
----------------------------------------------------------------------------
\* What is kept is the route of the path it is kept for; before the first
\* lookup the path is empty and there is no route (setCorrectRoute).
CacheIsCoherent ==
  config.route = _findRoute(config.path)
    \/ config = [path |-> <<>>, route |-> NoRoute]

\* Whatever was looked up before, the current route is the location that has the most
\* leading segments of the path asked for last, and the first of these; a location is
\* no prefix of a path that goes on within its last segment, a query included
\* (setCorrectRoute, _findRoute).
LongestLocationWins ==
  LET Serves(route) ==
        \/ route.path = config.path
        \/ IsPrefix(route.path \o Slash, config.path)
        \/ route.path = Slash /\ IsPrefix(Slash, config.path)
      S == {i \in 1..Len(routes) : Serves(routes[i])}
  IN  \/ config = [path |-> <<>>, route |-> NoRoute]
      \/ S = {} /\ config.route = routes[1]
      \/ \E i \in S :
           /\ config.route = routes[i]
           /\ \A j \in S : \/ Len(routes[j].path) < Len(routes[i].path)
                           \/ Len(routes[j].path) = Len(routes[i].path) /\ j >= i

\* Locations are written without a slash next to a slash or at their end, and a path
\* that has none of its own is not in the first one but for its slashes.
LocationsAreNormal ==
  /\ \A i \in 1..Len(routes) :
       LET path == routes[i].path IN
       path = Slash \/ (normalize(path) = path /\ ~IsSuffix(Slash, path))
  /\ \A path \in Paths :
       \/ \E i \in 1..Len(routes) : Matches(routes[i], path)
       \/ routes[1].path = Slash \/ ~Matches(routes[1], normalize(path))

\* A request is for the file below the root of its location that the rest of its
\* path names, segment by segment, however many slashes there are
\* (getFullFilesystemPath).
FilesAreBelowTheRoot ==
  LET r     == config.route
      names == Segments(config.path)
      rest  == IF Matches(r, config.path)
                 THEN SubSeq(names, Len(Segments(r.path)) + 1, Len(names)) ELSE names
  IN  r # NoRoute =>
        Segments(getFullFilesystemPath(r, config.path))
          = Segments(getDocumentRoot(r)) \o rest

\* upload_path is a file in some directory.
NamesAFile(p) ==
  "/" \in ToSet(p) /\ ~IsSuffix(Slash, p) /\ ~IsSuffix(<<"/", ".">>, p)

\* Where uploads go below the root of the location, what is uploaded under a name
\* is what a request for that name in the location gets, and nothing is uploaded to
\* the root of the file system (getUploadPath, README.md:27-28).
UploadsAreServed ==
  LET r     == config.route
      above == Segments(getDocumentRoot(r))
      file  == IF isRelative(r.uploadPath) THEN Segments(r.uploadPath)
               ELSE above \o Segments(r.uploadPath)
  IN  /\ r # NoRoute /\ r.uploadAllowed
      /\ NamesAFile(r.uploadPath) /\ Front(file) = above
      /\ Matches(r, config.path) /\ r.path # Slash
      => /\ isRelative(getUploadPath(r, config.path))
         /\ Segments(getUploadPath(r, config.path))
              = IF config.path = r.path THEN file
                ELSE Segments(getFullFilesystemPath(r, config.path))

\* Every path has its file, the same for the request that reads it and for the upload
\* that wrote it (getFullFilesystemPath, getUploadPath).
PathsNameTheirFiles == FilesAreBelowTheRoot /\ UploadsAreServed
=============================================================================
