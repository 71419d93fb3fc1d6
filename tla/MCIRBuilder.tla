----------------------------- MODULE MCIRBuilder -----------------------------
(* Instances of IRBuilder for TLC: blocks are interchangeable, and so are    *)
(* instruction objects.                                                      *)
EXTENDS IRBuilder, TLC

Symmetric == Permutations(Inst) \cup Permutations(Block)
=============================================================================
