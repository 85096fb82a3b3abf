------------------------------ MODULE MCSession ------------------------------
(***************************************************************************)
(* Session on two connections.  An operation of every kind of exchange:    *)
(* with an argument, without one, with content either way.  A WRITE after  *)
(* a CREATE goes in the same connection; after a MOVE it cannot, and goes  *)
(* alone in a later one.                                                   *)
(***************************************************************************)
EXTENDS Session

ActionJobs == {{"move", "write"}, {"create", "write"}, {"create", "version"}}
=============================================================================
