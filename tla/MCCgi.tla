------------------------------- MODULE MCCgi -------------------------------
(***************************************************************************)
(* TLC instance of Cgi.  The sizes keep the order of the real ones: a      *)
(* small body (<= 4096) fits in a pipe (65536), a large one (up to         *)
(* client_max_body_size) does not; a script can produce more than one      *)
(* read() takes (16384) and more than the pipe holds.                      *)
(***************************************************************************)
EXTENDS Cgi
=============================================================================
