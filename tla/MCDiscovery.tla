---------------------------- MODULE MCDiscovery ----------------------------
(* Discovery with a stack of one module that has one cell, the shortest    *)
(* announcement there is, and one of two modules, the first of which has   *)
(* been replaced by a larger one.                                          *)
EXTENDS Discovery

SmallAndLarge == {2 :> 1, 2 :> 2 @@ 11 :> 1}
=============================================================================
