---------------------------- MODULE MCHTTPServer ----------------------------
(***************************************************************************)
(* TLC instances of HTTPServer.  A script needs four descriptors to start  *)
(* and keeps one or two; its connection has one.                           *)
(***************************************************************************)
EXTENDS HTTPServer
=============================================================================
