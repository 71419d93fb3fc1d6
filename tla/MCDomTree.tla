------------------------------ MODULE MCDomTree ------------------------------
(* Instances of DomTree for TLC.                                             *)
EXTENDS DomTree

UpTo(bs) == {<<>>} \cup {<<a>> : a \in bs} \cup {t \in bs \X bs : t[1] # t[2]}

(* Every control flow graph of blocks 1 to n in which a terminator has at    *)
(* most two successors, all different, and block n returns; the blocks above *)
(* n are not reached.                                                        *)
AllShapes(n) == {s \in [1 .. n -> UpTo(1 .. n)] : s[n] = <<>>}
SmallShapes  == {s \o [b \in 1 .. N - 4 |-> <<>>] : s \in AllShapes(4)}

(* Six blocks; from 1 to 2 and 6, which lie below it on two sides; the two   *)
(* sides join, branch and loop in every way over these targets.  Blocks 2, 4,*)
(* 5 can be a chain of the search with a late jump from 6 into its middle:   *)
(* then eval has to climb.                                                   *)
JoinShapes ==
  {<<e, a, b, c, d, f>> :
     e \in {<<2, 6>>, <<6, 2>>},
     a \in UpTo({3, 4, 5}),
     b \in {<<>>, <<4>>},
     c \in {<<>>, <<3>>, <<5>>, <<6>>, <<3, 5>>, <<6, 5>>},
     d \in {<<>>, <<2>>, <<3>>, <<3, 6>>},
     f \in {<<3>>, <<4>>, <<4, 3>>, <<5, 2>>}}

MCShapes == SmallShapes \cup JoinShapes
ThreeShapes == AllShapes(3)
=============================================================================
