----------------------------- MODULE MCSymList -----------------------------
(* Instances of SymList for TLC.  The given names are "a", "a1" and "", so   *)
(* that a unique name made from "a" can collide with a given one.            *)
EXTENDS SymList, TLC

GivenNames == {<<>>, <<"a">>, <<"a", 1>>}
Symmetric == Permutations(Inst \ VoidInst) \cup Permutations(Block)
=============================================================================
