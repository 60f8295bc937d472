----------------------------- MODULE HTTPAction -----------------------------
(***************************************************************************)
(* The answers to requests (HTTPAction.cpp, HTTPActionGET.cpp,             *)
(* HTTPActionPOST.cpp, HTTPActionDEL.cpp, HTTPActionOPTIONS.cpp), one      *)
(* after the other as the server's thread runs them, on files that they    *)
(* share.  An upload is a sequence of parts, each with a file name (empty  *)
(* for none) and content; without a boundary it is one part without a      *)
(* name.  The disk may be full at any write.  What a script does is in     *)
(* Cgi.tla.                                                                *)
(***************************************************************************)
EXTENDS HTTPResponse

CONSTANTS
  Requests,    \* the requests clients make
  Disk,        \* the files there are at first
  MaxContent,  \* bound: what a file holds
  Urls         \* paths to files and directories, no two to the same

NoRequest == [method |-> "none"]

\* Beside an upload_path without a directory is the root of the file system.
ASSUME UploadsAssumption ==
  \A i \in 1..Len(routes) : routes[i].uploadAllowed => "/" \in ToSet(routes[i].uploadPath)

ASSUME DiskAssumption ==
  \A p \in DOMAIN Disk :
    /\ p # <<>>
    /\ Disk[p] = Directory \/ Disk[p] \in Seq(STRING)
    /\ \A d \in Parents(p) : IsDirectory(Disk, d)

ASSUME RequestsAssumption ==
  /\ MaxContent \in Nat
  /\ Urls \subseteq Paths /\ NoRequest \notin Requests
  /\ \A q \in Requests :
       /\ q.target \in Paths \ {<<>>} /\ q.closed \in BOOLEAN
       /\ q.parts \in Seq([name : Seq(STRING), content : Seq(STRING)])
       /\ ~q.multipart => Len(q.parts) = 1 /\ q.parts[1].name = <<>>

VARIABLES
  files,     \* the file system
  request,   \* (history) the last request
  response   \* HTTPResponse of the last request

actionVars == <<config, files, request, response>>

ActionInit ==
  /\ ConfigInit
  /\ files = Disk
  /\ request = NoRequest
  /\ response = NewResponse
----------------------------------------------------------------------------
(* GET and OPTIONS.  r is the current route.                               *)

\* _checkForIndexFiles; index files are those of the location.
_checkForIndexFiles(r, fs) ==
  LET try(acc, file) ==
        IF acc.found THEN acc
        ELSE LET t == setBodyFromFile(reset(acc.response),
                                      getFullFilesystemPath(r, file), fs)
             IN  [found |-> t.status = 200, response |-> t]
      tried[i \in 0..Len(r.defaultFiles)] ==
        IF i = 0 THEN [found |-> FALSE, response |-> NewResponse]
        ELSE try(tried[i - 1], r.defaultFiles[i])
  IN  tried[Len(r.defaultFiles)]

_fetchFile(q, r, fs) ==
  LET filePath == getFullFilesystemPath(r, q.target)
      p        == Segments(filePath)
      index    == _checkForIndexFiles(r, fs)
  IN  IF Errno(fs, p) \in {"ENOENT", "ENOTDIR"} THEN setStatusCode(NewResponse, 404)
      ELSE IF ~IsDirectory(fs, p) THEN setBodyFromFile(NewResponse, filePath, fs)
      ELSE IF index.found THEN index.response
      ELSE IF r.isDirectoryListing
        THEN buildDirectoryPage(index.response, getFullFilesystemPath(r, r.path), fs)
      ELSE setStatusCode(index.response, 404)
----------------------------------------------------------------------------
(* POST.  u is the file system and the response; room is what the disk     *)
(* takes of a write.                                                       *)

CanWrite(fs, p) ==
  /\ Errno(fs, p) \in {"0", "ENOENT"} /\ ~IsDirectory(fs, p)
  /\ IsDirectory(fs, Front(p))
  /\ p \notin DOMAIN fs => Front(p) \notin Locked

Put(fs, p, content) ==
  [n \in DOMAIN fs \cup {p} |-> IF n = p THEN content ELSE fs[n]]

IgnoresFailure(u, p, old, text, room) ==
  [fs |-> Put(u.fs, p, old \o SubSeq(text, 1, room)), response |-> u.response]

\* write, close and fail of an ofstream: what is in the file from the open on.
WriteOut(u, p, old, text, room) ==
  [fs |-> Put(u.fs, p, old \o SubSeq(text, 1, room)),
   response |-> IF room < Len(text) THEN setStatusCode(u.response, 500)
                ELSE u.response]

\* Appends to the one file of the target.
downloadFile(u, q, r, body, room) ==
  LET p    == Segments(getUploadPath(r, q.target))
      text == <<"time">> \o body \o <<"\n", "\n">>
      old  == IF p \in DOMAIN u.fs THEN u.fs[p] ELSE <<>>
      v    == WriteOut(u, p, old, text, IF room < Len(text) THEN room ELSE Len(text))
      success(w) == [w EXCEPT !.response = setBody(@, Body("success", <<>>))]
  IN  IF body = <<>> THEN success(u)
      ELSE IF ~CanWrite(u.fs, p) THEN [u EXCEPT !.response.status = 500]
      ELSE IF room < Len(text) THEN v
      ELSE success(v)

\* Opening the file empties it.
saveFile(u, filePath, content, room) ==
  LET p == Segments(filePath) IN
  IF content = <<>> THEN [u EXCEPT !.response = setBody(@, Body("success", <<>>))]
  ELSE IF ~CanWrite(u.fs, p) THEN [u EXCEPT !.response.status = 500]
  ELSE WriteOut(u, p, <<>>, content, IF room < Len(content) THEN room
                                     ELSE Len(content))

downloadPart(u, q, r, part, room) ==
  IF part.name # <<>>
    THEN saveFile(u, getUploadPath(r, part.name), part.content, room)
    ELSE downloadFile(u, q, r, part.content, room)

\* A part is stored before the next one is looked at, and a failure does not end
\* the loop; a body without its last boundary is found out at the end.
downloadMultiPart(u, q, r, rooms) ==
  LET stored[i \in 0..Len(q.parts)] ==
        IF i = 0 THEN u ELSE downloadPart(stored[i - 1], q, r, q.parts[i], rooms[i])
      all == stored[Len(q.parts)]
  IN  IF ~q.closed THEN [all EXCEPT !.response.status = 400]
      ELSE IF all.response.status = 201
        THEN [all EXCEPT !.response = setBody(@, Body("success", <<>>))]
      ELSE all

Post(q, r, rooms) ==
  LET u == [fs |-> files, response |-> setStatusCode(NewResponse, 201)] IN
  IF ~r.uploadAllowed
    THEN [fs |-> files, response |-> setStatusCode(NewResponse, 403)]
  ELSE IF q.multipart THEN downloadMultiPart(u, q, r, rooms)
  ELSE downloadFile(u, q, r, q.parts[1].content, rooms[1])
----------------------------------------------------------------------------
(* DELETE.                                                                 *)

\* errno of remove, which unlinks a file and removes an empty directory.
RemoveErrno(fs, p) ==
  IF Errno(fs, p) # "0" THEN Errno(fs, p)
  ELSE IF p = <<>> THEN "EBUSY"
  ELSE IF \E n \in DOMAIN fs : p \in Parents(n) THEN "ENOTEMPTY"
  ELSE "0"

DeleteStatus(errno) ==
  CASE errno = "0"      -> 200
    [] errno = "EACCES" -> 403
    [] errno = "ENOENT" -> 404
    [] errno = "EISDIR" -> 409
    [] OTHER            -> 500

Delete(q, r) ==
  LET p == Segments(getFullFilesystemPath(r, q.target))
      e == RemoveErrno(files, p)
      body == \E i \in 1..Len(q.parts) : q.parts[i].content # <<>>
  IN  IF body THEN [fs |-> files, response |-> setStatusCode(NewResponse, 400)]
      ELSE [fs |-> IF e = "0" THEN [n \in DOMAIN files \ {p} |-> files[n]] ELSE files,
            response |-> setStatusCode(NewResponse, DeleteStatus(e))]
----------------------------------------------------------------------------
(* run.                                                                    *)

Unchanged(t) == [fs |-> files, response |-> t]

\* What a method leaves is sent, or the page of its error.
Finish(u) ==
  /\ files' = u.fs
  /\ response' = IF Good(u.response.status) THEN u.response
                 ELSE buildErrorPage(u.response, u.response.status, u.fs)

Allowed(q, r) == r.redirectPath = <<>> /\ isAllowedMethod(r, q.method)

Redirect(q, r) ==
  /\ r.redirectPath # <<>>
  /\ response' = buildReturnPage(NewResponse, r.redirectCode, r.redirectPath)
  /\ UNCHANGED files

NotAllowed(q, r) ==
  /\ r.redirectPath = <<>> /\ ~isAllowedMethod(r, q.method)
  /\ response' = buildErrorPage(NewResponse, 405, files)
  /\ UNCHANGED files

\* A script: one that does not start is answered with an error, the others with
\* what they say.
ScriptCodes == {200, 404}

RunCgi(q, r) ==
  /\ Allowed(q, r) /\ isAllowedCgi(r, q.target)
  /\ \/ \E code \in {403, 404, 500} : response' = buildErrorPage(NewResponse, code, files)
     \/ \E code \in ScriptCodes : response' = buildCgiPage(NewResponse, code)
  /\ UNCHANGED files

MethodRegistry == {"POST", "GET", "DELETE", "OPTIONS"}

\* HTTPActionOPTIONS
Options == Unchanged(setStatusCode(NewResponse, 204))

implementMethod(q, r) ==
  /\ Allowed(q, r) /\ ~isAllowedCgi(r, q.target)
  /\ \/ q.method = "GET" /\ Finish(Unchanged(_fetchFile(q, r, files)))
     \/ q.method = "DELETE" /\ Finish(Delete(q, r))
     \/ q.method = "OPTIONS" /\ Finish(Options)
     \/ /\ q.method = "POST"
        /\ \E rooms \in [1..Len(q.parts) -> {0, 1, MaxContent}] :
             Finish(Post(q, r, rooms))
     \/ /\ q.method \notin MethodRegistry
        /\ Finish(Unchanged(setStatusCode(NewResponse, 501)))

run(q) ==
  /\ setCorrectRoute(q.target)
  /\ request' = q
  /\ \/ Redirect(q, config'.route)
     \/ NotAllowed(q, config'.route)
     \/ RunCgi(q, config'.route)
     \/ implementMethod(q, config'.route)
  /\ \A p \in DOMAIN files' : files'[p] # Directory => Len(files'[p]) <= MaxContent

ActionNext == \E q \in Requests : run(q)

ActionSpec == ActionInit /\ [][ActionNext]_actionVars
----------------------------------------------------------------------------
(* What clients see.                                                       *)

FileOf == [url \in Paths |-> Segments(getFullFilesystemPath(_findRoute(url), url))]

\* A named part is a resource of the location, one without a name is added to the
\* target, or to the default file if that is the location.
UrlOf(q, i) ==
  LET r == _findRoute(q.target) IN
  IF q.parts[i].name # <<>> THEN join(r.path, q.parts[i].name)
  ELSE IF q.target = r.path THEN join(r.path, Last(Segments(r.uploadPath)))
  ELSE q.target

\* What an upload asks to be stored, part by part; of an empty part there is nothing.
Item(q, i) ==
  LET part == q.parts[i] IN
  [url |-> UrlOf(q, i), append |-> part.name = <<>>,
   content |-> IF part.name # <<>> \/ part.content = <<>> THEN part.content
               ELSE <<"time">> \o part.content \o <<"\n", "\n">>]

Items == [q \in Requests |-> [i \in 1..Len(q.parts) |-> Item(q, i)]]

\* Uploads go below the root of their location: what is uploaded to a path is the file
\* a request for it is answered with.
UploadsGoBelow ==
  \A q \in Requests : \A i \in 1..Len(q.parts) :
    LET r == _findRoute(q.target)
        part == q.parts[i]
    IN  /\ q.method = "POST" /\ r.uploadAllowed
        /\ Allowed(q, r) /\ ~isAllowedCgi(r, q.target) /\ part.content # <<>>
        => /\ UrlOf(q, i) \in Urls
           /\ FileOf[UrlOf(q, i)] =
                Segments(getUploadPath(r, IF part.name # <<>> THEN part.name ELSE q.target))

\* The resources are files and directories, each with one path and none a script, only
\* they are deleted, and who is sent elsewhere is not told that all is well.
ResourcesAreFiles ==
  /\ \A u, v \in Urls : FileOf[u] = FileOf[v] => u = v
  /\ \A q \in Requests :
       LET r == _findRoute(q.target) IN
       /\ q.target \in Urls => ~isAllowedCgi(r, q.target)
       /\ q.method = "DELETE" => q.target \in Urls
       /\ r.redirectPath # <<>> => ~Good(r.redirectCode)

storeOf == [u \in {v \in Urls : FileOf[v] \in DOMAIN files} |-> files[FileOf[u]]]

replyOf ==
  IF request = NoRequest THEN NoRequest
  ELSE [method  |-> request.method,
        url     |-> request.target,
        status  |-> response.status,
        script  |-> response.body.from = "script",
        content |-> response.body.content,
        items   |-> Items[request]]

Store == INSTANCE ResourceStore WITH
  store <- storeOf, reply <- replyOf, Collection <- Directory, BodyEnd <- <<"\n", "\r">>

\* Where uploads go below the root of their location, requests answered one after
\* the other are those of a store: what 201 has stored, in its order, GET returns, with
\* the end that every body has, until it is replaced or a DELETE answered 200 removes it,
\* and an answer that is not good has changed nothing but what its own parts name.  What is
\* empty is answered 201 and not stored (run and the methods).
ImplementsStore == Store!StoreSpec

\* Files have directories above them, whatever was removed and uploaded before;
\* the response is one the program has.
ActionTypeOK ==
  /\ \A p \in DOMAIN files : \A d \in Parents(p) : IsDirectory(files, d)
  /\ request \in Requests \cup {NoRequest}
  /\ response.status \in {200, 201, 204, 400, 403, 404, 405, 409, 500, 501}
                           \cup {routes[i].redirectCode : i \in 1..Len(routes)}

\* An error is answered with the page configured for the status that is sent, or
\* with the built-in page for it; only if the configured page cannot be opened the
\* built-in page names the error and the status says why the page is missing
\* (buildErrorPage, setBodyFromFile).
ErrorsAreExplained ==
  LET code == response.status  body == response.body IN
  ~Good(code) /\ body.from # "script" /\ config.route.redirectPath = <<>> =>
    \/ /\ body.from = "file" /\ code \in DOMAIN error_pages
       /\ body.content = Contents(files, Segments(getErrorPagePath(code)))
                           \o <<"\n", "\r">>
    \/ /\ body.from = "built in"
       /\ IF body.code \notin DOMAIN error_pages THEN body.code = code
          ELSE LET e == Errno(files, Segments(getErrorPagePath(body.code))) IN
               e # "0" /\ code = OpenError(e)

\* The files and the answer fit together (run, setBodyFromFile).
AnswerFitsTheFiles == ActionTypeOK /\ ErrorsAreExplained

\* A directory is answered with the first of the location's index files that can
\* be opened, however many before it cannot (_checkForIndexFiles).
FirstIndexIsServed ==
  LET r == config.route
      opens(i) == Errno(files, Segments(getFullFilesystemPath(r, r.defaultFiles[i])))
                    = "0"
      S == {i \in 1..Len(r.defaultFiles) : opens(i)}
  IN  /\ request # NoRequest /\ request.method = "GET"
      /\ Allowed(request, r) /\ ~isAllowedCgi(r, request.target)
      /\ IsDirectory(files, FileOf[request.target]) /\ S # {}
      => /\ response.status = 200
         /\ \E i \in S :
              /\ \A j \in S : i <= j
              /\ response.body.content =
                   Contents(files, Segments(getFullFilesystemPath(r, r.defaultFiles[i])))
                     \o <<"\n", "\r">>

\* A step changes files only for a method its own location allows: a POST where
\* uploads are allowed, and then only the files its parts are for, or a DELETE, and
\* then only its target (run).
OnlyNamedFilesChange ==
  [][files' # files =>
       LET q == request'
           r == _findRoute(q.target)
           touched == {p \in DOMAIN files \cup DOMAIN files' :
                         \/ p \notin DOMAIN files \/ p \notin DOMAIN files'
                         \/ files[p] # files'[p]}
       IN  /\ r.redirectPath = <<>>
           /\ r.allowedMethods = {} \/ <<q.method>> \in r.allowedMethods
           /\ \/ /\ q.method = "POST" /\ r.uploadAllowed
                 /\ \A p \in touched : \E i \in 1..Len(q.parts) :
                      q.parts[i].content # <<>> /\ p = FileOf[UrlOf(q, i)]
              \/ /\ q.method = "DELETE" /\ response'.status = 200
                 /\ touched = {FileOf[q.target]}
    ]_actionVars
=============================================================================
