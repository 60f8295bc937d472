---------------------------- MODULE MCHTTPAction ----------------------------
(***************************************************************************)
(* TLC instance of HTTPAction: a site with a start page, a location for    *)
(* uploads, a redirect, a location with scripts, and one with a file that  *)
(* cannot be opened.                                                       *)
(***************************************************************************)
EXTENDS HTTPAction

Home == [NewRoute(Slash) EXCEPT !.allowedMethods = {<<"GET">>},
           !.defaultFiles = << <<"n">>, <<"i">> >>]
Uploads == [NewRoute(<<"/", "u">>) EXCEPT
              !.allowedMethods = {<<"GET">>, <<"POST">>, <<"DELETE">>, <<"OPTIONS">>},
              !.root = <<"r", "/", "u">>, !.isDirectoryListing = TRUE,
              !.uploadAllowed = TRUE,
              !.uploadPath = <<".", "/", "r", "/", "u", "/", "t">>]
Moved == [NewRoute(<<"/", "m">>) EXCEPT !.redirectPath = Slash, !.redirectCode = 301]
Scripts == [NewRoute(<<"/", "c">>) EXCEPT !.cgiExtensions = <<".", "p">> :> <<"interpreter">>,
              !.uploadAllowed = TRUE]
Locks == [NewRoute(<<"/", "l">>) EXCEPT !.root = <<"r", "/", "l">>,
            !.isDirectoryListing = TRUE, !.defaultFiles = << <<"k">> >>]

Locations == <<Home, Uploads, Moved, Scripts, Locks>>

ServerRoot == <<"r">>

\* The page for 404 is there, the one for 405 is not, the one for 403 cannot be read.
Pages == (404 :> <<"/", "e">>) @@ (405 :> <<"/", "x">>) @@ (403 :> <<"/", "l", "/", "k">>)

Names(p) == Segments(p)

LockedFiles == {Names(<<"r", "/", "l", "/", "k">>)}

Site ==
  [p \in {Names(<<"r">>), Names(<<"r", "/", "u">>), Names(<<"r", "/", "l">>)} |-> Directory]
  @@ (Names(<<"r", "/", "i">>) :> <<"index">>)
  @@ (Names(<<"r", "/", "e">>) :> <<"not found">>)
  @@ (Names(<<"r", "/", "l", "/", "k">>) :> <<"secret">>)

U == <<"/", "u">>
F == <<"f">>
G == <<"g">>

TheUrls == {U, U \o <<"/", "f">>, U \o <<"/", "g">>, U \o <<"/", "t">>,
            <<"/", "i">>, <<"/", "l", "/", "k">>}

Targets == TheUrls \cup {Slash, <<"/", "q">>, <<"/", "m">>, <<"/", "l">>,
                         <<"/", "i", "/", "b">>, <<"/", "c", "/", "s", ".", "p">>}

Part(name, content) == [name |-> name, content |-> content]

Form(target, parts, closed) ==
  [method |-> "POST", target |-> target, multipart |-> TRUE, parts |-> parts,
   closed |-> closed]

Plain(method, target, content) ==
  [method |-> method, target |-> target, multipart |-> FALSE,
   parts |-> <<Part(<<>>, content)>>, closed |-> TRUE]

TheRequests ==
  {Plain("GET", t, <<>>) : t \in Targets}
  \cup {Plain("DELETE", t, <<>>) : t \in TheUrls}
  \cup {Plain("POST", t, <<"x">>) : t \in {U, Slash, <<"/", "l">>, <<"/", "m">>,
                                          <<"/", "c", "/", "s", ".", "p">>}}
  \cup {Plain("OPTIONS", U, <<>>), Plain("PUT", <<"/", "l">>, <<>>),
        Plain("PUT", U, <<>>), Plain("POST", U, <<>>),
        Plain("DELETE", U \o <<"/", "f">>, <<"x">>)}
  \cup {Form(U, <<Part(F, <<"1">>), Part(G, <<"2">>)>>, closed) : closed \in BOOLEAN}
  \cup {Form(U, <<Part(F, <<"1">>), Part(F, <<"3">>)>>, TRUE),
        Form(U, <<Part(<<>>, <<"x">>), Part(F, <<>>)>>, TRUE)}

\* What the theorems about uploads and resources suppose is true of this site.
ASSUME SiteAssumption == UploadsGoBelow /\ ResourcesAreFiles
=============================================================================
