---------------------------- MODULE HTTPResponse ----------------------------
(***************************************************************************)
(* HTTPResponse (HTTPResponse.cpp), and the file system fs its pages are   *)
(* read from: fs maps the names of a path, see Segments, to what is there. *)
(* A member function is an operator from a response to a response.  Of the *)
(* headers there is Location; of a body where it comes from, and what was  *)
(* read from a file.                                                       *)
(***************************************************************************)
EXTENDS ServerConfig

CONSTANTS
  Directory,   \* what a file system has for a directory
  Locked       \* what the server may neither open nor remove

ASSUME LockedAssumption == Locked \subseteq Seq(Seq(STRING))

IsDirectory(fs, p) == p = <<>> \/ (p \in DOMAIN fs /\ fs[p] = Directory)

Parents(p) == {SubSeq(p, 1, i) : i \in 1..(Len(p) - 1)}

\* The errno of an access to p, or "0".
Errno(fs, p) ==
  IF \E q \in Parents(p) \cap DOMAIN fs : ~IsDirectory(fs, q) THEN "ENOTDIR"
  ELSE IF p # <<>> /\ p \notin DOMAIN fs THEN "ENOENT"
  ELSE IF p \in Locked THEN "EACCES"
  ELSE "0"

\* What an ifstream reads of p once it is open; of a directory, nothing.
Contents(fs, p) == IF IsDirectory(fs, p) THEN <<>> ELSE fs[p]

Good(code) == code \in 200..226

Body(from, content) == [from |-> from, code |-> 0, content |-> content]

\* reset
NewResponse == [status |-> 200, location |-> <<>>, body |-> Body("nothing", <<>>)]

KeepsStatus(response) == response

reset(response) == NewResponse

setStatusCode(response, code) == [response EXCEPT !.status = code]

\* setBody puts two characters after every body.
setBody(response, body) ==
  [response EXCEPT !.body = [body EXCEPT !.content = @ \o <<"\n", "\r">>]]

\* The built-in page names the status of the response at that moment.
_setCustomErrorBody(response) ==
  setBody(response, [from |-> "built in", code |-> response.status, content |-> <<>>])

\* The status of a file that cannot be opened: the test for EACCES is overruled by
\* the else of the one for ENOENT.
OpenError(errno) == IF errno = "ENOENT" THEN 404 ELSE 500

FileOrNothing(response, filePath, fs) ==
  LET p == Segments(filePath) IN
  IF filePath = <<>> THEN _setCustomErrorBody(response)
  ELSE IF Errno(fs, p) # "0" THEN setStatusCode(response, OpenError(Errno(fs, p)))
  ELSE setBody(response, Body("file", Contents(fs, p)))

setBodyFromFile(response, filePath, fs) ==
  LET p    == Segments(filePath)
      page == IF Good(response.status) THEN response ELSE _setCustomErrorBody(response)
  IN  IF filePath = <<>> THEN _setCustomErrorBody(response)
      ELSE IF Errno(fs, p) # "0" THEN setStatusCode(page, OpenError(Errno(fs, p)))
      ELSE setBody(response, Body("file", Contents(fs, p)))

buildErrorPage(response, code, fs) ==
  setBodyFromFile(setStatusCode(response, code), getErrorPagePath(code), fs)

buildReturnPage(response, code, filePath) ==
  [setStatusCode(response, code) EXCEPT !.location = filePath]

\* The page lists the directory and those below it, down to one with a dot in its name:
\* opendir must not fail.
CanList(fs, filePath) ==
  LET dir == Segments(filePath)
      listed(p) == /\ IsPrefix(dir, p) /\ IsDirectory(fs, p)
                   /\ \A i \in Len(dir) + 1..Len(p) : "." \notin ToSet(p[i])
  IN  /\ IsDirectory(fs, dir) /\ dir \notin Locked
      /\ \A p \in DOMAIN fs : listed(p) => p \notin Locked

\* What opendir throws is caught by HTTPAction::run.
buildDirectoryPage(response, filePath, fs) ==
  IF CanList(fs, filePath)
    THEN setStatusCode(setBody(response, Body("listing", <<>>)), 200)
    ELSE setStatusCode(response, 501)

\* Status is a header that a script may send.
buildCgiPage(response, code) ==
  setBody(setStatusCode(response, code), Body("script", <<>>))
=============================================================================
