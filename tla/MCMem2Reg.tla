------------------------------ MODULE MCMem2Reg ------------------------------
(* Instances of Mem2Reg for TLC.                                             *)
EXTENDS Mem2Reg

(* Five blocks: 1 is the entry, 5 returns.  Diamonds, one-sided branches,    *)
(* loops with one and with two entries, a block that jumps to itself; in     *)
(* some the search is not depth-first and the tree is not right.             *)
LoopsAndJoins ==
  {<<e, b, c, d, <<>>>> :
     e \in {<<2>>, <<2, 3>>, <<3, 2>>, <<2, 4>>},
     b \in {<<3>>, <<4>>, <<4, 3>>, <<2, 4>>},
     c \in {<<4>>, <<2>>, <<4, 5>>},
     d \in {<<5>>, <<2, 5>>, <<5, 3>>}}

(* The start of the last block's dominators, 2, is allocated after the       *)
(* blocks below it.                                                          *)
Upwards == {<<<<5>>, <<>>, <<2, 4>>, <<2, 3>>, <<4, 3>>>>, <<<<4>>, <<5>>, <<2, 5>>, <<3>>, <<2, 3>>>>}

CFGs == LoopsAndJoins \cup Upwards

A1 == "a"
A2 == "b"
Plain(a)  == Store(a, Other)
Equal(a)  == StoreOfEqualType(a, Other)
Bodies(a) == {<<>>, <<Plain(a)>>, <<Load(a)>>, <<Load(a), Plain(a)>>}

(* One alloca, stored to and read everywhere.                                *)
OneAlloca ==
  {<<<<Define(A1)>> \o e, b, c, d, <<Load(A1)>>>> :
     e \in {<<>>, <<Plain(A1)>>, <<Equal(A1)>>}, b \in Bodies(A1), c \in Bodies(A1),
     d \in {<<>>, <<Load(A1), Plain(A1)>>}}

(* Two allocas, the second in any place; the address of the first is         *)
(* stored, passed on or followed.                                            *)
TwoAllocas ==
  {<<e, b, c, d, <<Load(A2)>>>> :
     e \in {<<Define(A1), Define(A2), Plain(A1), Plain(A2)>>, <<Define(A1), Plain(A1)>>},
     b \in {<<>>, <<Define(A2), Plain(A2), Plain(A1)>>, <<Use(A1), Load(A1)>>},
     c \in {<<>>, <<Plain(A1)>>, <<Equal(A1)>>, <<Store(A2, A1)>>},
     d \in {<<>>, <<Load(A1), Plain(A1)>>, <<Store(Other, Other)>>}}

MCCodes == OneAlloca \cup {c \in TwoAllocas : Len(c[1]) = 2 <=> Define(A2) \in ToSet(c[2])}
=============================================================================
