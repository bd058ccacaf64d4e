------------------------------ MODULE MCCtxPool ------------------------------
(* Instances of CtxPool for TLC.  Bounds: as many requests, contexts and      *)
(* buffers as the cfg names; two body sizes, one above the pool cap; a route  *)
(* with its own limit and one without.                                        *)
EXTENDS CtxPool, TLC

MCSizes == {1, 2}
MCRoutes == {[limit |-> 0, timeout |-> FALSE, params |-> TRUE],
             [limit |-> 2, timeout |-> TRUE, params |-> FALSE]}

Symmetry == Permutations(Req) \cup Permutations(Ctx) \cup Permutations(Buf)
=============================================================================
