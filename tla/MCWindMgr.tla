---------------------------- MODULE MCWindMgr ----------------------------
(* WindMgr on a small heap: see the cfg files for the values. *)
EXTENDS WindMgr, TLC

Slots == Permutations(Objs)
=============================================================================
