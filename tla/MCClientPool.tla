---------------------------- MODULE MCClientPool ----------------------------
(***************************************************************************)
(* ClientPool on small sets.  Handlers are alike; sockets are not, since   *)
(* the pool lends the lowest one.                                          *)
(***************************************************************************)
EXTENDS ClientPool, TLC

Sym == Permutations(Handler)
=============================================================================
