---------------------------- MODULE MCEventLoop ----------------------------
(***************************************************************************)
(* EventLoop on small sets.  Connections and descriptors are alike.        *)
(***************************************************************************)
EXTENDS EventLoop, TLC

Sym == Permutations(Conn) \cup Permutations(Fd)
=============================================================================
