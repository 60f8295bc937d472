------------------------ MODULE MCConnectionHandler -------------------------
(***************************************************************************)
(* TLC instance of ConnectionHandler: two connections that ask for a page, *)
(* for a file larger than the socket, and for a script: with and without a *)
(* query, with and without a body, in one piece or two.  The location of   *)
(* the script has a limit of its own, and its path with a query is in the  *)
(* other location.                                                         *)
(***************************************************************************)
EXTENDS ConnectionHandler

Piece(kind, method, path, length, close) ==
  [kind |-> kind, method |-> method, path |-> path, length |-> length, close |-> close]

PagePath == <<"/", "a">>
PicturePath == <<"/", "c">>
ScriptPath == <<"/", "b", ".", "p">>
Query == <<"?", "x">>

Page == <<Piece("end", "GET", PagePath, 0, FALSE)>>
Picture == <<Piece("end", "GET", PicturePath, 0, FALSE)>>
Script == <<Piece("end", "GET", ScriptPath, 0, FALSE)>>
OtherQuery == ScriptPath \o <<"?", "y">>
GetWithBody == <<Piece("head", "GET", ScriptPath \o Query, 2, FALSE),
                 Piece("end", "GET", ScriptPath \o Query, 2, FALSE)>>
PostWithQuery == <<Piece("end", "POST", OtherQuery, 1, FALSE)>>
PostWithoutBody == <<Piece("end", "POST", OtherQuery, 0, FALSE)>>
LastPage == <<Piece("line", "GET", PagePath, 0, FALSE), Piece("end", "GET", PagePath, 0, TRUE)>>
LastBody == <<Piece("head", "POST", ScriptPath, 1, TRUE), Piece("end", "POST", ScriptPath, 1, TRUE)>>
TooLongBody == <<Piece("end", "DELETE", PagePath, 2, FALSE)>>
Bad == <<Piece("bad", "GET", <<>>, 0, FALSE)>>

AllMessages ==
  {Page, Picture, Script, GetWithBody, PostWithQuery, PostWithoutBody, LastPage, LastBody,
   TooLongBody, Bad}
SomeMessages == {Page, Script, GetWithBody}

ThreeFiles == {PagePath, PicturePath, ScriptPath}

\* A script's answer fills the socket, the picture is larger, all else is small.
Sizes == [target \in Targets |-> [kind \in Fail |->
            IF kind = "cgi" THEN Room
            ELSE IF target = PicturePath THEN Room + 1
            ELSE 1]]

TwoRoutes == << NewRoute(Slash),
                [NewRoute(ScriptPath) EXCEPT
                   !.cgiExtensions = <<".", "p">> :> <<"interpreter">>,
                   !.client_max_body_size = 2] >>

ServerRoot == <<"r">>

NoPages == <<>>

NoPaths == {}

\* The first of two connections may ask twice.
CONSTANTS c1, c2
TwoAndOne == c1 :> 2 @@ c2 :> 1

Three == c1 :> 3
=============================================================================
