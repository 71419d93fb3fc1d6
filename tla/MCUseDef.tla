------------------------------ MODULE MCUseDef ------------------------------
(* Instances of UseDef for TLC.  The objects of a class are interchangeable: *)
(* instructions and blocks are symmetry sets.                                *)
EXTENDS UseDef, TLC

Symmetric == Permutations(Inst) \cup Permutations(Block)
=============================================================================
