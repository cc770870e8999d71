-------------------------- MODULE MCSimpleServer ----------------------------
(***************************************************************************)
(* A small instance of SimpleServer.                                       *)
(***************************************************************************)
EXTENDS SimpleServer

CONSTANTS s1
=============================================================================
