------------------------------ MODULE MCWebserv ------------------------------
(***************************************************************************)
(* TLC instance of Webserv: files with up to three servers at two          *)
(* addresses, one mistake anywhere in them, and for one of the servers     *)
(* requests for every path of up to four characters.                       *)
(***************************************************************************)
EXTENDS Webserv

D(name, args) == [name |-> name, args |-> args]
W(word) == <<word>>
Location(path, directives) == [path |-> path, directives |-> directives]

\* A server whose locations are one inside the other, one of them for uploads.
UploadFile == <<".", "/", "r", "/", "a", "/", "u">>
Site ==
  [directives |-> <<
     D("listen", <<<<"h", ":", "8">>>>), D("server_name", <<W("a"), W("b")>>),
     D("client_max_body_size", <<<<"2", "0">>>>), D("root", <<W("r")>>)>>,
   locations |-> <<
     Location(<<"/", "a">>, <<
       D("root", <<<<".", "/", "r", "/", "a", "/">>>>), D("allow_upload", <<W("on")>>),
       D("upload_path", <<UploadFile>>)>>),
     Location(Slash, <<>>), Location(<<"/", "a", "/", "b">>, <<>>),
     Location(<<"/", "a", "b">>, <<>>)>>]

\* A server with every directive, some of them more than once.
Everything ==
  [directives |-> <<
     D("listen", <<W("9")>>), D("listen", <<W("8")>>),
     D("server_name", <<W("a")>>), D("server_name", <<W("c"), W("d")>>),
     D("error_page", <<W("4"), <<"4", "1">>, W("5"), W("x")>>),
     D("error_page", <<W("4"), W("y")>>),
     D("client_max_body_size", <<W("1")>>), D("root", <<W("r")>>)>>,
   locations |-> <<
     Location(Slash, <<
       D("root", <<W("w")>>), D("allowed_methods", <<W("GET"), W("POST")>>),
       D("index", <<W("i"), W("j")>>), D("index", <<W("k")>>),
       D("autoindex", <<W("on")>>), D("allow_upload", <<W("on")>>),
       D("upload_path", <<W("dir")>>),
       D("cgi_extension", <<W(".p"), W("python"), W(".s"), W("sh")>>),
       D("cgi_extension", <<W(".p"), W("perl")>>),
       D("return", <<W("3"), W("t")>>), D("client_max_body_size", <<W("2")>>)>>),
     Location(<<"/", "a">>, <<D("autoindex", <<W("off")>>), D("index", <<W("i")>>)>>)>>]

\* A server with hardly anything, at the address of the first and the name of both.
Small ==
  [directives |-> <<
     D("client_max_body_size", <<W("1")>>), D("listen", <<<<"h", ":", "8">>>>),
     D("server_name", <<W("b"), W("a")>>)>>,
   locations |-> <<Location(Slash, <<D("index", <<W("i")>>)>>)>>]

Twin == [Small EXCEPT !.directives[3] = D("server_name", <<W("b"), W("e")>>)]

\* A server whose last directive is a list and whose location is empty: without its
\* semicolon the list runs on into the next server.
Bare ==
  [directives |-> <<
     D("client_max_body_size", <<W("2")>>), D("listen", <<W("9")>>),
     D("server_name", <<W("a"), W("d")>>), D("error_page", <<W("4"), W("x")>>)>>,
   locations |-> <<Location(Slash, <<>>)>>]

Files == {<<Site>>, <<Bare, Small>>, <<Small, Everything>>, <<Everything, Small>>, <<Small, Twin, Everything>>}

SiteRoutes == SaidServer(Site).routes
ServerRoot == W("r")
NoPages == <<>>
UploadDirectories == {W("dir")}
OtherFiles == {UploadFile}

\* Paths of up to four characters, and words that do not begin with a slash.
Characters == {"/", "a", "b", "?"}
ShortPaths == {Slash \o p : p \in SeqOf(Characters, 3)} \cup SeqOf(Characters, 1)

\* One host with two addresses, the second of which is that of the other.
Hosts == (W("h") :> <<"1.1", "127.1">>) @@ (W("127.0.0.1") :> <<"127.1">>)

\* What the theorem about the files of paths supposes is true of this site.
ASSUME SiteAssumption == LocationsAreNormal

\* What the theorems about the parser suppose is true of these files.
ASSUME FilesAssumption == FilesAreRight
=============================================================================
