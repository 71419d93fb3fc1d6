---------------------------- MODULE BasicLemmas ----------------------------
(***************************************************************************)
(* What the proofs of several modules need to know of lists, numbers and   *)
(* recursion.                                                              *)
(*                                                                         *)
(* Lists: what inserting a node, unlinking, appending, joining, popping    *)
(* one do to the set of nodes on a list: the facts about dlist             *)
(* (include/common/dlist.hpp), the worklists of Graph::dfs and the stacks  *)
(* of Mem2Reg that the proofs rest on.  A list whose nodes all have a      *)
(* property P is a sequence over {x : P(x)}, so that the facts are those   *)
(* of Seq(S).                                                              *)
(*                                                                         *)
(* Induction: that < is well-founded gives every set of numbers a least    *)
(* element, hence induction on 0 .. n for a SET of numbers and a solution  *)
(* of the recursions the models are written with: a function on 0 .. n     *)
(* defined by its predecessor, and the fold of a list.                     *)
(***************************************************************************)
EXTENDS Integers, Sequences, FiniteSets, SequencesExt, SequenceTheorems,
        WellFoundedInduction, FiniteSetTheorems, FunctionTheorems, TLAPS

(* The last node of a list is one of its nodes.                             *)
LEMMA LastIn ==
  ASSUME NEW S, NEW s \in Seq(S), s # <<>>
  PROVE  Last(s) \in S
<1>1. Len(s) \in Nat \ {0}
  BY EmptySeq, LenProperties
<1>2. Len(s) \in 1 .. Len(s)
  BY <1>1
<1> QED BY <1>2, LenProperties, ElementOfSeq DEF Last

(* Inserting e: the old nodes and e.                                        *)
LEMMA InsertAtNodes ==
  ASSUME NEW S, NEW T, S \subseteq T, NEW s \in Seq(S),
         NEW p \in 1 .. Len(s) + 1, NEW e \in T
  PROVE  InsertAt(s, p, e) \in Seq(T)
<1>1. s \in Seq(T)
  BY SeqMonotonic
<1>2. SubSeq(s, 1, p - 1) \in Seq(T)
  BY <1>1, SubSeqProperties, LenProperties
<1>3. SubSeq(s, p, Len(s)) \in Seq(T)
  BY <1>1, SubSeqProperties, LenProperties
<1>4. SubSeq(s, 1, p - 1) \o <<e>> \in Seq(T)
  BY <1>2, ConcatProperties
<1>5. (SubSeq(s, 1, p - 1) \o <<e>>) \o SubSeq(s, p, Len(s)) \in Seq(T)
  BY <1>3, <1>4, ConcatProperties
<1> QED BY <1>5 DEF InsertAt

(* Unlinking one: no new nodes.                                             *)
LEMMA RemoveAtNodes ==
  ASSUME NEW S, NEW s \in Seq(S), NEW p \in 1 .. Len(s)
  PROVE  RemoveAt(s, p) \in Seq(S)
<1>1. SubSeq(s, 1, p - 1) \in Seq(S)
  BY SubSeqProperties, LenProperties
<1>2. SubSeq(s, p + 1, Len(s)) \in Seq(S)
  BY SubSeqProperties, LenProperties
<1> QED BY <1>1, <1>2, ConcatProperties DEF RemoveAt

(* The nodes from position m to n.                                          *)
LEMMA Segment ==
  ASSUME NEW S, NEW s \in Seq(S), NEW m \in 1 .. Len(s) + 1, NEW n \in 0 .. Len(s),
         m <= n + 1
  PROVE  /\ SubSeq(s, m, n) \in Seq(S) /\ Len(SubSeq(s, m, n)) = n - m + 1
         /\ \A k \in 1 .. n - m + 1 : SubSeq(s, m, n)[k] = s[m + k - 1]
<1>1. Len(s) \in Nat /\ \A k \in 1 .. Len(s) : s[k] \in S
  BY LenProperties
<1>2. m \in Int /\ n \in Int /\ \A k \in m .. n : s[k] \in S
  BY <1>1
<1>3. Len(SubSeq(s, m, n)) = IF m <= n THEN n - m + 1 ELSE 0
  BY <1>2, SubSeqProperties
<1>4. (IF m <= n THEN n - m + 1 ELSE 0) = n - m + 1
  BY <1>1
<1> QED BY <1>2, <1>3, <1>4, SubSeqProperties

(* Where the nodes of front, e and back are in a list made of them.         *)
LEMMA ConcatAround ==
  ASSUME NEW S, NEW front \in Seq(S), NEW e \in S, NEW back \in Seq(S),
         NEW t, t = (front \o <<e>>) \o back
  PROVE  /\ t \in Seq(S) /\ DOMAIN t = 1 .. Len(front) + 1 + Len(back)
         /\ \A k \in 1 .. Len(front) : t[k] = front[k]
         /\ t[Len(front) + 1] = e
         /\ \A k \in 1 .. Len(back) : t[Len(front) + 1 + k] = back[k]
<1> DEFINE one == <<e>>
           upTo == front \o one
<1>1. one \in Seq(S) /\ Len(one) = 1 /\ one[1] = e
  OBVIOUS
<1>2. Len(front) \in Nat /\ Len(back) \in Nat
  BY LenProperties
<1>3. t = upTo \o back
  OBVIOUS
<1> HIDE DEF one
<1>4. /\ upTo \in Seq(S) /\ Len(upTo) = Len(front) + 1
      /\ \A k \in 1 .. Len(front) + 1 :
           upTo[k] = IF k <= Len(front) THEN front[k] ELSE one[k - Len(front)]
  BY <1>1, ConcatProperties
<1> HIDE DEF upTo
<1>5. /\ t \in Seq(S) /\ Len(t) = Len(upTo) + Len(back)
      /\ \A k \in 1 .. Len(upTo) + Len(back) :
           t[k] = IF k <= Len(upTo) THEN upTo[k] ELSE back[k - Len(upTo)]
  BY <1>3, <1>4, ConcatProperties
<1>6. DOMAIN t = 1 .. Len(front) + 1 + Len(back)
  BY <1>4, <1>5, LenProperties
<1>7. ASSUME NEW k \in 1 .. Len(front) PROVE t[k] = front[k]
  <2>1. t[k] = upTo[k]
    BY <1>2, <1>4, <1>5
  <2> QED BY <1>2, <1>4, <2>1
<1>8. t[Len(front) + 1] = e
  <2>1. t[Len(front) + 1] = upTo[Len(front) + 1]
    BY <1>2, <1>4, <1>5
  <2>2. upTo[Len(front) + 1] = one[1]
    BY <1>2, <1>4
  <2> QED BY <1>1, <2>1, <2>2
<1>9. ASSUME NEW k \in 1 .. Len(back) PROVE t[Len(front) + 1 + k] = back[k]
  <2>1. /\ Len(front) + 1 + k \in 1 .. Len(upTo) + Len(back)
        /\ ~(Len(front) + 1 + k <= Len(upTo))
        /\ Len(front) + 1 + k - Len(upTo) = k
    BY <1>2, <1>4
  <2> QED BY <1>5, <2>1
<1> QED BY <1>5, <1>6, <1>7, <1>8, <1>9

(* Where the nodes are after an insertion at p.                             *)
LEMMA InsertAtPositions ==
  ASSUME NEW S, NEW s \in Seq(S), NEW p \in 1 .. Len(s) + 1, NEW e \in S,
         NEW t, t = InsertAt(s, p, e)
  PROVE  /\ t \in Seq(S) /\ DOMAIN t = 1 .. Len(s) + 1
         /\ \A k \in 1 .. p - 1 : t[k] = s[k]
         /\ t[p] = e
         /\ \A k \in p .. Len(s) : t[k + 1] = s[k]
<1> DEFINE front == SubSeq(s, 1, p - 1)
           back == SubSeq(s, p, Len(s))
<1>1. Len(s) \in Nat
  BY LenProperties
<1>2. /\ front \in Seq(S) /\ Len(front) = p - 1 - 1 + 1
      /\ \A k \in 1 .. p - 1 - 1 + 1 : front[k] = s[1 + k - 1]
  <2>1. 1 \in 1 .. Len(s) + 1 /\ p - 1 \in 0 .. Len(s) /\ 1 <= p - 1 + 1
    BY <1>1
  <2> QED BY <2>1, Segment
<1>3. /\ back \in Seq(S) /\ Len(back) = Len(s) - p + 1
      /\ \A k \in 1 .. Len(s) - p + 1 : back[k] = s[p + k - 1]
  <2>1. Len(s) \in 0 .. Len(s) /\ p <= Len(s) + 1
    BY <1>1
  <2> QED BY <2>1, Segment
<1>4. t = (front \o <<e>>) \o back
  BY DEF InsertAt
<1> HIDE DEF front, back
<1>5. /\ t \in Seq(S) /\ DOMAIN t = 1 .. Len(front) + 1 + Len(back)
      /\ \A k \in 1 .. Len(front) : t[k] = front[k]
      /\ t[Len(front) + 1] = e
      /\ \A k \in 1 .. Len(back) : t[Len(front) + 1 + k] = back[k]
  BY <1>2, <1>3, <1>4, ConcatAround
<1>6. Len(front) = p - 1 /\ Len(front) + 1 = p /\ Len(front) + 1 + Len(back) = Len(s) + 1
  BY <1>1, <1>2, <1>3
<1>7. \A k \in 1 .. p - 1 : t[k] = s[k]
  BY <1>1, <1>2, <1>5, <1>6
<1>8. ASSUME NEW k \in p .. Len(s) PROVE t[k + 1] = s[k]
  <2>1. /\ k - p + 1 \in 1 .. Len(s) - p + 1
        /\ p + (k - p + 1) = k + 1 /\ p + (k - p + 1) - 1 = k
    BY <1>1
  <2>2. t[p + (k - p + 1)] = back[k - p + 1]
    BY <1>3, <1>5, <1>6, <2>1
  <2> QED BY <1>3, <2>1, <2>2
<1> QED BY <1>5, <1>6, <1>7, <1>8

(* Inserting a node that is not on the list: the nodes are the old ones and *)
(* it, and none is on the list twice if none was.                           *)
LEMMA InsertAtDistinct ==
  ASSUME NEW S, NEW s \in Seq(S), NEW p \in 1 .. Len(s) + 1, NEW e \in S,
         e \notin ToSet(s)
  PROVE  /\ ToSet(InsertAt(s, p, e)) \subseteq ToSet(s) \cup {e}
         /\ IsInjective(s) => IsInjective(InsertAt(s, p, e))
<1> DEFINE t == InsertAt(s, p, e)
           old(k) == IF k < p THEN k ELSE k - 1
<1> HIDE DEF t
<1>1. /\ DOMAIN t = 1 .. Len(s) + 1
      /\ \A k \in 1 .. p - 1 : t[k] = s[k]
      /\ t[p] = e
      /\ \A k \in p .. Len(s) : t[k + 1] = s[k]
  BY InsertAtPositions DEF t
<1>2. DOMAIN s = 1 .. Len(s) /\ Len(s) \in Nat
  BY LenProperties
<1>3. ASSUME NEW k \in DOMAIN t
      PROVE  (k = p /\ t[k] = e) \/ (k # p /\ old(k) \in DOMAIN s /\ t[k] = s[old(k)])
  <2>1. CASE k > p
    <3>1. k - 1 \in p .. Len(s) /\ (k - 1) + 1 = k /\ k \in Int
      BY <1>1, <1>2, <2>1
    <3>2. t[k] = s[k - 1]
      BY <1>1, <3>1
    <3> QED BY <1>1, <1>2, <2>1, <3>1, <3>2
  <2>2. CASE k <= p
    BY <1>1, <1>2, <2>2
  <2> QED BY <1>1, <1>2, <2>1, <2>2
<1>4. ToSet(t) \subseteq ToSet(s) \cup {e}
  BY <1>3 DEF ToSet
<1>5. ASSUME IsInjective(s), NEW j \in DOMAIN t, NEW k \in DOMAIN t, t[j] = t[k]
      PROVE  j = k
  <2>1. \A m \in DOMAIN s : s[m] # e
    BY DEF ToSet
  <2>2. CASE j = p \/ k = p
    BY <1>3, <1>5, <2>1, <2>2
  <2>3. CASE j # p /\ k # p
    <3>1. old(j) = old(k)
      BY <1>3, <1>5, <2>3 DEF IsInjective
    <3> QED BY <1>1, <1>2, <2>3, <3>1
  <2> QED BY <2>2, <2>3
<1> QED BY <1>4, <1>5 DEF t, IsInjective

(* Unlinking the node at p: no new nodes, none twice if none was.           *)
LEMMA RemoveAtDistinct ==
  ASSUME NEW S, NEW s \in Seq(S), NEW p \in 1 .. Len(s)
  PROVE  /\ ToSet(RemoveAt(s, p)) \subseteq ToSet(s)
         /\ IsInjective(s) => IsInjective(RemoveAt(s, p))
<1> DEFINE front == SubSeq(s, 1, p - 1)
           back == SubSeq(s, p + 1, Len(s))
           t == front \o back
           old(k) == IF k < p THEN k ELSE k + 1
<1>1. Len(s) \in Nat /\ DOMAIN s = 1 .. Len(s) /\ \A k \in 1 .. Len(s) : s[k] \in S
  BY LenProperties
<1>2. front \in Seq(S) /\ Len(front) = p - 1 /\ \A k \in 1 .. p - 1 : front[k] = s[k]
  <2>1. 1 \in 1 .. Len(s) + 1 /\ p - 1 \in 0 .. Len(s) /\ 1 <= p - 1 + 1
    BY <1>1
  <2>2. /\ front \in Seq(S) /\ Len(front) = p - 1 - 1 + 1
        /\ \A k \in 1 .. p - 1 - 1 + 1 : front[k] = s[1 + k - 1]
    BY <2>1, Segment
  <2> HIDE DEF front
  <2> QED BY <1>1, <2>2
<1>3. /\ back \in Seq(S) /\ Len(back) = Len(s) - p
      /\ \A k \in 1 .. Len(s) - p : back[k] = s[p + k]
  <2>1. p + 1 \in 1 .. Len(s) + 1 /\ Len(s) \in 0 .. Len(s) /\ p + 1 <= Len(s) + 1
    BY <1>1
  <2>2. /\ back \in Seq(S) /\ Len(back) = Len(s) - (p + 1) + 1
        /\ \A k \in 1 .. Len(s) - (p + 1) + 1 : back[k] = s[(p + 1) + k - 1]
    BY <2>1, Segment
  <2> HIDE DEF back
  <2>3. \A k \in 1 .. Len(s) - p : (p + 1) + k - 1 = p + k
    BY <1>1
  <2> QED BY <1>1, <2>2, <2>3
<1> HIDE DEF front, back
<1>4. t = RemoveAt(s, p)
  BY DEF RemoveAt, front, back
<1>5. /\ t \in Seq(S) /\ Len(t) = Len(front) + Len(back)
      /\ \A k \in 1 .. Len(front) + Len(back) :
           t[k] = IF k <= Len(front) THEN front[k] ELSE back[k - Len(front)]
  BY <1>2, <1>3, ConcatProperties
<1> HIDE DEF t
<1>6. DOMAIN t = 1 .. Len(s) - 1 /\ Len(front) + Len(back) = Len(s) - 1
  BY <1>1, <1>2, <1>3, <1>5, LenProperties
<1>7. \A k \in DOMAIN t : old(k) \in DOMAIN s /\ t[k] = s[old(k)]
  <2> SUFFICES ASSUME NEW k \in DOMAIN t PROVE old(k) \in DOMAIN s /\ t[k] = s[old(k)]
    OBVIOUS
  <2>1. CASE k < p
    BY <1>1, <1>2, <1>5, <1>6, <2>1
  <2>2. CASE ~(k < p)
    <3>1. /\ k - (p - 1) \in 1 .. Len(s) - p /\ p + (k - (p - 1)) = k + 1
          /\ k \in 1 .. Len(front) + Len(back) /\ ~(k <= Len(front))
      BY <1>1, <1>2, <1>6, <2>2
    <3>2. t[k] = back[k - (p - 1)]
      BY <1>2, <1>5, <3>1
    <3>3. t[k] = s[k + 1]
      BY <1>3, <3>1, <3>2
    <3> QED BY <1>1, <1>6, <2>2, <3>3
  <2> QED BY <2>1, <2>2
<1>8. ToSet(t) \subseteq ToSet(s)
  BY <1>7 DEF ToSet
<1>9. ASSUME IsInjective(s), NEW j \in DOMAIN t, NEW k \in DOMAIN t, t[j] = t[k]
      PROVE  j = k
  <2>1. old(j) = old(k)
    BY <1>7, <1>9 DEF IsInjective
  <2> QED BY <1>1, <1>6, <2>1
<1> QED BY <1>4, <1>8, <1>9 DEF IsInjective

-----------------------------------------------------------------------------
(* Numbers and recursion.                                                   *)

(* A set of natural numbers has a least element.                            *)
LEMMA LeastNat ==
  ASSUME NEW T, T \subseteq Nat, T # {}
  PROVE  \E x \in T : \A y \in T : x <= y
<1>1. PICK x \in T : \A y \in T : ~ (<<y, x>> \in OpToRel(<, Nat))
  BY NatLessThanWellFounded, WFMin
<1>2. \A y \in T : ~(y < x)
  BY <1>1 DEF OpToRel
<1> QED BY <1>2

(* Induction on 0 .. n: a set with 0 and with every successor of a member.  *)
LEMMA UpTo ==
  ASSUME NEW n \in Nat, NEW T, 0 \in T, \A i \in 0 .. n - 1 : i \in T => i + 1 \in T
  PROVE  \A i \in 0 .. n : i \in T
<1> DEFINE U == {i \in 0 .. n : i \notin T}
<1>1. SUFFICES ASSUME U # {} PROVE FALSE
  OBVIOUS
<1>2. U \subseteq Nat
  OBVIOUS
<1>3. PICK x \in U : \A y \in U : x <= y
  BY <1>1, <1>2, LeastNat
<1>4. x \in Nat /\ x # 0 /\ x <= n
  OBVIOUS
<1>5. x - 1 \in 0 .. n - 1 /\ x - 1 \notin U
  BY <1>3, <1>4
<1>6. x - 1 + 1 \in T
  BY <1>5
<1> QED BY <1>4, <1>6

(* f[i] is g applied i times to x.                                          *)
Iterates(f, g, x, n) == f[0] = x /\ \A i \in 1 .. n : f[i] = g[f[i - 1]]

(* Recursion on 0 .. n has a solution.                                      *)
LEMMA IterationExists ==
  ASSUME NEW A, NEW x \in A, NEW g \in [A -> A], NEW n \in Nat
  PROVE  \E f \in [0 .. n -> A] : Iterates(f, g, x, n)
<1> USE DEF Iterates
<1> DEFINE Good(k) == \E f \in [0 .. k -> A] : f[0] = x /\ \A i \in 1 .. k : f[i] = g[f[i - 1]]
           T == {k \in 0 .. n : Good(k)}
<1>1. 0 \in T
  <2> DEFINE f == [i \in 0 .. 0 |-> x]
  <2>1. f \in [0 .. 0 -> A] /\ f[0] = x /\ \A i \in 1 .. 0 : f[i] = g[f[i - 1]]
    OBVIOUS
  <2>2. Good(0)
    BY <2>1
  <2> QED BY <2>2
<1>2. ASSUME NEW k \in 0 .. n - 1, k \in T
      PROVE  k + 1 \in T
  <2>1. PICK f \in [0 .. k -> A] : f[0] = x /\ \A i \in 1 .. k : f[i] = g[f[i - 1]]
    BY <1>2
  <2> DEFINE h == [i \in 0 .. k + 1 |-> IF i <= k THEN f[i] ELSE g[f[k]]]
  <2>2. h \in [0 .. k + 1 -> A]
    BY <2>1
  <2>3. h[0] = x
    BY <2>1
  <2>4. ASSUME NEW i \in 1 .. k + 1 PROVE h[i] = g[h[i - 1]]
    <3>1. CASE i <= k
      <4>1. h[i] = f[i] /\ h[i - 1] = f[i - 1]
        BY <3>1
      <4> QED BY <2>1, <3>1, <4>1
    <3>2. CASE i = k + 1
      <4>1. h[i] = g[f[k]] /\ h[i - 1] = f[k]
        BY <3>2
      <4> QED BY <4>1
    <3> QED BY <3>1, <3>2
  <2> HIDE DEF h
  <2>5. Good(k + 1)
    BY <2>2, <2>3, <2>4
  <2> QED BY <2>5
<1> HIDE DEF Good
<1>3. \A i \in 0 .. n : i \in T
  BY <1>1, <1>2, UpTo
<1>4. n \in T
  BY <1>3
<1>5. Good(n)
  BY <1>4
<1> QED BY <1>5 DEF Good

(* The greatest number of a set.                                            *)
LEMMA MaxOfNats ==
  ASSUME NEW n \in Nat, NEW T, T \subseteq 1 .. n, T # {}
  PROVE  Max(T) \in T /\ \A y \in T : Max(T) >= y
<1> DEFINE U == {k \in Nat : n - k \in T}
<1>1. PICK z \in T : TRUE
  OBVIOUS
<1>2. z \in 1 .. n
  OBVIOUS
<1>3. n - z \in Nat /\ n - (n - z) = z
  BY <1>2
<1>4. U \subseteq Nat /\ U # {}
  BY <1>3
<1>5. PICK u \in U : \A y \in U : u <= y
  BY <1>4, LeastNat
<1>6. ASSUME NEW y \in T PROVE n - u >= y
  <2>1. y \in 1 .. n
    OBVIOUS
  <2>2. n - y \in Nat /\ n - (n - y) = y
    BY <2>1
  <2>3. u <= n - y
    BY <1>5, <2>2
  <2> QED BY <2>1, <2>3
<1>7. \E x \in T : \A y \in T : x >= y
  BY <1>6
<1> QED BY <1>7 DEF Max

(* A fold sees the last of the first k + 1 places last.                     *)
LEMMA LastOfInitial ==
  ASSUME NEW k \in Nat
  PROVE  Max(1 .. k + 1) = k + 1 /\ (1 .. k + 1) \ {k + 1} = 1 .. k /\ (1 .. k + 1) # {}
<1>1. k + 1 \in 1 .. k + 1 /\ (1 .. k + 1) \ {k + 1} = 1 .. k
  OBVIOUS
<1>2. Max(1 .. k + 1) \in 1 .. k + 1 /\ \A y \in 1 .. k + 1 : Max(1 .. k + 1) >= y
  <2>1. k + 1 \in Nat /\ 1 .. k + 1 \subseteq 1 .. k + 1 /\ 1 .. k + 1 # {}
    BY <1>1
  <2> QED BY <2>1, MaxOfNats
<1>3. Max(1 .. k + 1) >= k + 1
  BY <1>1, <1>2
<1> QED BY <1>1, <1>2, <1>3

(* it[s] is the fold of step over the numbers of s, the greatest last.      *)
FoldsUp(it, step, base, n) ==
  /\ it[{}] = base
  /\ \A s \in SUBSET (1 .. n) : s # {} => it[s] = step[<<Max(s), it[s \ {Max(s)}]>>]

(* The recursion on sets of numbers that FoldLeft is made of has a solution. *)
LEMMA FoldExists ==
  ASSUME NEW n \in Nat, NEW V, NEW base \in V, NEW step \in [(1 .. n) \X V -> V]
  PROVE  \E it \in [SUBSET (1 .. n) -> V] : FoldsUp(it, step, base, n)
<1> USE DEF FoldsUp
<1> DEFINE Good(k) == \E it \in [SUBSET (1 .. k) -> V] : FoldsUp(it, step, base, k)
           T == {k \in 0 .. n : Good(k)}
<1>1. 0 \in T
  <2> DEFINE it == [s \in SUBSET (1 .. 0) |-> base]
  <2>1. it \in [SUBSET (1 .. 0) -> V] /\ it[{}] = base
    OBVIOUS
  <2>2. \A s \in SUBSET (1 .. 0) : s = {}
    OBVIOUS
  <2> HIDE DEF it
  <2>3. Good(0)
    BY <2>1, <2>2
  <2> HIDE DEF Good
  <2> QED BY <2>3
<1>2. ASSUME NEW k \in 0 .. n - 1, k \in T
      PROVE  k + 1 \in T
  <2>1. PICK it \in [SUBSET (1 .. k) -> V] : FoldsUp(it, step, base, k)
    BY <1>2
  <2> DEFINE new(s) == step[<<k + 1, it[s \ {k + 1}]>>]
             nit == [s \in SUBSET (1 .. k + 1) |-> IF k + 1 \in s THEN new(s) ELSE it[s]]
  <2>2. ASSUME NEW s \in SUBSET (1 .. k + 1), k + 1 \in s
        PROVE  s \ {k + 1} \in SUBSET (1 .. k) /\ new(s) \in V
    <3>1. \A i \in s : i # k + 1 => i \in 1 .. k
      OBVIOUS
    <3>2. s \ {k + 1} \in SUBSET (1 .. k)
      BY <3>1
    <3>3. <<k + 1, it[s \ {k + 1}]>> \in (1 .. n) \X V
      BY <3>2
    <3> QED BY <3>2, <3>3
  <2>3. ASSUME NEW s \in SUBSET (1 .. k + 1), k + 1 \notin s
        PROVE  s \in SUBSET (1 .. k)
    <3>1. \A i \in s : i \in 1 .. k
      BY <2>3
    <3> QED BY <3>1
  <2>4. nit \in [SUBSET (1 .. k + 1) -> V]
    BY <2>2, <2>3
  <2>5. nit[{}] = base
    BY <2>1
  <2>6. ASSUME NEW s \in SUBSET (1 .. k + 1), s # {}
        PROVE  nit[s] = step[<<Max(s), nit[s \ {Max(s)}]>>]
    <3>1. Max(s) \in s /\ \A y \in s : Max(s) >= y
      <4>1. k + 1 \in Nat /\ s \subseteq 1 .. k + 1
        OBVIOUS
      <4> QED BY <2>6, <4>1, MaxOfNats
    <3>2. CASE k + 1 \in s
      <4>1. Max(s) = k + 1
        <5>1. Max(s) \in 1 .. k + 1 /\ Max(s) >= k + 1
          BY <3>1, <3>2
        <5> HIDE DEF nit
        <5> QED BY <5>1
      <4>2. k + 1 \notin s \ {k + 1} /\ s \ {k + 1} \in SUBSET (1 .. k + 1)
        BY <2>2, <3>2
      <4>3. nit[s \ {k + 1}] = it[s \ {k + 1}]
        BY <4>2
      <4> QED BY <3>2, <4>1, <4>3
    <3>3. CASE k + 1 \notin s
      <4>1. s \in SUBSET (1 .. k)
        BY <2>3, <3>3
      <4>2. nit[s] = it[s] /\ nit[s \ {Max(s)}] = it[s \ {Max(s)}]
        BY <3>3
      <4> QED BY <2>1, <2>6, <4>1, <4>2
    <3> QED BY <3>2, <3>3
  <2> HIDE DEF nit
  <2>7. Good(k + 1)
    BY <2>4, <2>5, <2>6
  <2> HIDE DEF Good
  <2> QED BY <2>7
<1> HIDE DEF Good
<1>3. \A i \in 0 .. n : i \in T
  BY <1>1, <1>2, UpTo
<1>4. Good(n)
  BY <1>3
<1> QED BY <1>4 DEF Good

-----------------------------------------------------------------------------
(* Lists as stacks and queues.                                              *)

(* Appending a node.                                                        *)
LEMMA AppendNodes ==
  ASSUME NEW S, NEW s \in Seq(S), NEW e \in S
  PROVE  /\ ToSet(Append(s, e)) = ToSet(s) \cup {e}
         /\ IsInjective(s) /\ e \notin ToSet(s) => IsInjective(Append(s, e))
<1> DEFINE t == Append(s, e)
<1>1. Len(s) \in Nat /\ DOMAIN s = 1 .. Len(s)
  BY LenProperties
<1>2. t \in Seq(S) /\ Len(t) = Len(s) + 1 /\ (\A i \in 1 .. Len(s) : t[i] = s[i]) /\ t[Len(s) + 1] = e
  BY AppendProperties
<1> HIDE DEF t
<1>3. DOMAIN t = 1 .. Len(s) + 1
  BY <1>2, LenProperties
<1>4. ToSet(t) = ToSet(s) \cup {e}
  <2>1. \A i \in DOMAIN t : i \in DOMAIN s \/ i = Len(s) + 1
    BY <1>1, <1>3
  <2>2. \A i \in DOMAIN s : i \in DOMAIN t
    BY <1>1, <1>3
  <2>3. Len(s) + 1 \in DOMAIN t
    BY <1>1, <1>3
  <2> QED BY <1>1, <1>2, <2>1, <2>2, <2>3 DEF ToSet
<1>5. ASSUME IsInjective(s), e \notin ToSet(s), NEW i \in DOMAIN t, NEW j \in DOMAIN t, t[i] = t[j]
      PROVE  i = j
  <2>1. \A k \in 1 .. Len(s) : s[k] # e
    BY <1>1, <1>5 DEF ToSet
  <2>2. CASE i = Len(s) + 1 \/ j = Len(s) + 1
    BY <1>1, <1>2, <1>3, <1>5, <2>1, <2>2
  <2>3. CASE i # Len(s) + 1 /\ j # Len(s) + 1
    <3>1. i \in 1 .. Len(s) /\ j \in 1 .. Len(s)
      BY <1>1, <1>3, <2>3
    <3>2. s[i] = s[j]
      BY <1>2, <1>5, <3>1
    <3> QED BY <1>1, <1>5, <3>1, <3>2 DEF IsInjective
  <2> QED BY <2>2, <2>3
<1>6. IsInjective(s) /\ e \notin ToSet(s) => IsInjective(t)
  BY <1>5 DEF IsInjective
<1> QED BY <1>4, <1>6 DEF t

(* Joining two lists.                                                       *)
LEMMA ConcatNodes ==
  ASSUME NEW S, NEW s \in Seq(S), NEW t \in Seq(S)
  PROVE  /\ ToSet(s \o t) = ToSet(s) \cup ToSet(t)
         /\ IsInjective(s) /\ IsInjective(t) /\ ToSet(s) \cap ToSet(t) = {} => IsInjective(s \o t)
<1> DEFINE u == s \o t
<1>1. Len(s) \in Nat /\ DOMAIN s = 1 .. Len(s) /\ Len(t) \in Nat /\ DOMAIN t = 1 .. Len(t)
  BY LenProperties
<1>2. /\ u \in Seq(S) /\ Len(u) = Len(s) + Len(t)
      /\ \A i \in 1 .. Len(s) + Len(t) : u[i] = IF i <= Len(s) THEN s[i] ELSE t[i - Len(s)]
  BY ConcatProperties
<1> HIDE DEF u
<1>3. DOMAIN u = 1 .. Len(s) + Len(t)
  BY <1>2, LenProperties
<1>4. ASSUME NEW i \in DOMAIN u
      PROVE  \/ i \in DOMAIN s /\ u[i] = s[i]
             \/ i - Len(s) \in DOMAIN t /\ u[i] = t[i - Len(s)] /\ i > Len(s)
  BY <1>1, <1>2, <1>3
<1>5. ASSUME NEW i \in DOMAIN s PROVE i \in DOMAIN u /\ u[i] = s[i]
  BY <1>1, <1>2, <1>3
<1>6. ASSUME NEW i \in DOMAIN t PROVE Len(s) + i \in DOMAIN u /\ u[Len(s) + i] = t[i]
  <2>1. Len(s) + i \in DOMAIN u /\ ~(Len(s) + i <= Len(s)) /\ (Len(s) + i) - Len(s) = i
    BY <1>1, <1>3
  <2> QED BY <1>2, <1>3, <2>1
<1>7. ToSet(u) = ToSet(s) \cup ToSet(t)
  <2>1. \A x \in ToSet(u) : x \in ToSet(s) \/ x \in ToSet(t)
    BY <1>4 DEF ToSet
  <2>2. \A x \in ToSet(s) : x \in ToSet(u)
    BY <1>5 DEF ToSet
  <2>3. \A x \in ToSet(t) : x \in ToSet(u)
    BY <1>6 DEF ToSet
  <2> QED BY <2>1, <2>2, <2>3
<1>8. ASSUME IsInjective(s), IsInjective(t), ToSet(s) \cap ToSet(t) = {},
             NEW i \in DOMAIN u, NEW j \in DOMAIN u, u[i] = u[j]
      PROVE  i = j
  <2>1. \A m \in DOMAIN s, n \in DOMAIN t : s[m] # t[n]
    BY <1>8 DEF ToSet
  <2>2. CASE i \in DOMAIN s /\ u[i] = s[i]
    <3>1. j \in DOMAIN s /\ u[j] = s[j]
      BY <1>4, <1>8, <2>1, <2>2
    <3> QED BY <1>8, <2>2, <3>1 DEF IsInjective
  <2>3. CASE i - Len(s) \in DOMAIN t /\ u[i] = t[i - Len(s)]
    <3>1. j - Len(s) \in DOMAIN t /\ u[j] = t[j - Len(s)]
      BY <1>4, <1>8, <2>1, <2>3
    <3>2. i - Len(s) = j - Len(s)
      BY <1>8, <2>3, <3>1 DEF IsInjective
    <3> QED BY <1>1, <1>3, <3>2
  <2> QED BY <1>4, <2>2, <2>3
<1>9. IsInjective(s) /\ IsInjective(t) /\ ToSet(s) \cap ToSet(t) = {} => IsInjective(u)
  BY <1>8 DEF IsInjective
<1> QED BY <1>7, <1>9 DEF u

(* A list is its front and its last node.                                   *)
LEMMA FrontNodes ==
  ASSUME NEW S, NEW s \in Seq(S), s # <<>>
  PROVE  /\ Front(s) \in Seq(S) /\ Len(Front(s)) = Len(s) - 1
         /\ \A k \in 1 .. Len(s) - 1 : Front(s)[k] = s[k]
         /\ ToSet(s) = ToSet(Front(s)) \cup {Last(s)}
         /\ IsInjective(s) => IsInjective(Front(s)) /\ Last(s) \notin ToSet(Front(s))
<1> DEFINE f == Front(s)
<1>1. Len(s) \in Nat \ {0} /\ DOMAIN s = 1 .. Len(s)
  BY EmptySeq, LenProperties
<1>2. /\ f \in Seq(S) /\ Len(f) = Len(s) - 1
      /\ \A k \in 1 .. Len(s) - 1 : f[k] = s[k]
  <2>1. 1 \in 1 .. Len(s) + 1 /\ Len(s) - 1 \in 0 .. Len(s) /\ 1 <= (Len(s) - 1) + 1
    BY <1>1
  <2>2. /\ SubSeq(s, 1, Len(s) - 1) \in Seq(S)
        /\ Len(SubSeq(s, 1, Len(s) - 1)) = (Len(s) - 1) - 1 + 1
        /\ \A k \in 1 .. (Len(s) - 1) - 1 + 1 : SubSeq(s, 1, Len(s) - 1)[k] = s[1 + k - 1]
    BY <2>1, Segment
  <2>3. f = SubSeq(s, 1, Len(s) - 1)
    BY DEF Front
  <2> HIDE DEF f
  <2> QED BY <1>1, <2>2, <2>3
<1> HIDE DEF f
<1>3. DOMAIN f = 1 .. Len(s) - 1
  BY <1>2, LenProperties
<1>4. \A k \in DOMAIN s : k \in DOMAIN f \/ k = Len(s)
  BY <1>1, <1>3
<1>5. \A k \in DOMAIN f : k \in DOMAIN s /\ k # Len(s)
  BY <1>1, <1>3
<1>6. Len(s) \in DOMAIN s /\ Last(s) = s[Len(s)]
  BY <1>1 DEF Last
<1>7. ToSet(s) = ToSet(f) \cup {Last(s)}
  BY <1>2, <1>3, <1>4, <1>5, <1>6 DEF ToSet
<1>8. IsInjective(s) => IsInjective(f) /\ Last(s) \notin ToSet(f)
  BY <1>2, <1>3, <1>5, <1>6 DEF ToSet, IsInjective
<1> QED BY <1>2, <1>7, <1>8 DEF f

(* A list is its first node and the rest.                                   *)
LEMMA TailNodes ==
  ASSUME NEW S, NEW s \in Seq(S), s # <<>>
  PROVE  /\ Head(s) \in S /\ Tail(s) \in Seq(S)
         /\ ToSet(s) = ToSet(Tail(s)) \cup {Head(s)}
         /\ IsInjective(s) => IsInjective(Tail(s)) /\ Head(s) \notin ToSet(Tail(s))
<1> DEFINE t == Tail(s)
<1>1. Len(s) \in Nat \ {0} /\ DOMAIN s = 1 .. Len(s)
  BY EmptySeq, LenProperties
<1>2. Head(s) \in S /\ t \in Seq(S) /\ Len(t) = Len(s) - 1 /\ \A k \in 1 .. Len(t) : t[k] = s[k + 1]
  BY HeadTailProperties
<1>h. Head(s) = s[1]
  BY <1>1
<1> HIDE DEF t
<1>3. DOMAIN t = 1 .. Len(s) - 1
  BY <1>2, LenProperties
<1>4. \A k \in DOMAIN s : k = 1 \/ (k - 1 \in DOMAIN t /\ t[k - 1] = s[k])
  <2> SUFFICES ASSUME NEW k \in DOMAIN s, k # 1 PROVE k - 1 \in DOMAIN t /\ t[k - 1] = s[k]
    OBVIOUS
  <2>1. k - 1 \in 1 .. Len(s) - 1 /\ (k - 1) + 1 = k
    BY <1>1
  <2> QED BY <1>2, <1>3, <2>1
<1>5. \A k \in DOMAIN t : k + 1 \in DOMAIN s /\ k + 1 # 1 /\ t[k] = s[k + 1]
  BY <1>1, <1>2, <1>3
<1>6. 1 \in DOMAIN s
  BY <1>1
<1>7. ToSet(s) = ToSet(t) \cup {Head(s)}
  <2>1. \A x \in ToSet(s) : x \in ToSet(t) \/ x = Head(s)
    BY <1>4, <1>h DEF ToSet
  <2>2. \A x \in ToSet(t) : x \in ToSet(s)
    BY <1>5 DEF ToSet
  <2>3. Head(s) \in ToSet(s)
    BY <1>6, <1>h DEF ToSet
  <2> QED BY <2>1, <2>2, <2>3
<1>8. ASSUME IsInjective(s) PROVE IsInjective(t) /\ Head(s) \notin ToSet(t)
  <2>1. \A j, k \in DOMAIN t : t[j] = t[k] => j = k
    <3> SUFFICES ASSUME NEW j \in DOMAIN t, NEW k \in DOMAIN t, t[j] = t[k] PROVE j = k
      OBVIOUS
    <3>1. j + 1 = k + 1
      BY <1>5, <1>8 DEF IsInjective
    <3> QED BY <1>1, <1>3, <3>1
  <2>2. \A k \in DOMAIN t : t[k] # s[1]
    BY <1>5, <1>6, <1>8 DEF IsInjective
  <2> QED BY <2>1, <2>2, <1>h DEF IsInjective, ToSet
<1> QED BY <1>2, <1>7, <1>8 DEF t

(* A list on which no node is twice has as many nodes as it is long.        *)
LEMMA DistinctCount ==
  ASSUME NEW S, NEW s \in Seq(S)
  PROVE  /\ IsFiniteSet(ToSet(s)) /\ Cardinality(ToSet(s)) \in Nat
         /\ Cardinality(ToSet(s)) <= Len(s)
         /\ Cardinality(ToSet(s)) = Len(s) <=> IsInjective(s)
<1>1. Len(s) \in Nat /\ DOMAIN s = 1 .. Len(s) /\ s \in [1 .. Len(s) -> S]
  BY LenProperties
<1>2. IsFiniteSet(1 .. Len(s)) /\ Cardinality(1 .. Len(s)) = Len(s)
  BY <1>1, FS_Interval
<1>3. s \in [1 .. Len(s) -> ToSet(s)]
  BY <1>1 DEF ToSet
<1>4. \A x \in ToSet(s) : \E i \in 1 .. Len(s) : s[i] = x
  BY <1>1 DEF ToSet
<1>5. s \in Surjection(1 .. Len(s), ToSet(s))
  BY <1>3, <1>4, Fun_IsSurj
<1>6. /\ IsFiniteSet(ToSet(s))
      /\ Cardinality(ToSet(s)) <= Len(s)
      /\ Cardinality(ToSet(s)) = Len(s) <=> s \in Injection(1 .. Len(s), ToSet(s))
  BY <1>2, <1>5, FS_Surjection
<1>7. s \in Injection(1 .. Len(s), ToSet(s)) <=> IsInjective(s)
  BY <1>3 DEF Injection
<1>8. Cardinality(ToSet(s)) \in Nat
  BY <1>6, FS_CardinalityType
<1> QED BY <1>6, <1>7, <1>8

(* The sequence of the members of a finite set.                             *)
LEMMA SetToSeqNodes ==
  ASSUME NEW S, IsFiniteSet(S)
  PROVE  SetToSeq(S) \in Seq(S) /\ ToSet(SetToSeq(S)) = S /\ IsInjective(SetToSeq(S))
<1> DEFINE n == Cardinality(S)
           q == SetToSeq(S)
<1>1. n \in Nat /\ ExistsBijection(1 .. n, S)
  BY FS_CardinalityType
<1>2. PICK f : f \in Bijection(1 .. n, S)
  BY <1>1 DEF ExistsBijection
<1>3. f \in [1 .. n -> S] /\ IsInjective(f)
  BY <1>2 DEF Bijection, Injection
<1>4. q \in [1 .. n -> S] /\ IsInjective(q)
  BY <1>3 DEF SetToSeq
<1> HIDE DEF q
<1>5. q \in Seq(S) /\ DOMAIN q = 1 .. n
  BY <1>1, <1>4, SeqDef
<1>6. Len(q) = n
  BY <1>1, <1>5, LenProperties
<1>7. ToSet(q) \subseteq S
  BY <1>4 DEF ToSet
<1>8. Cardinality(ToSet(q)) = Cardinality(S)
  BY <1>4, <1>5, <1>6, DistinctCount
<1>9. ToSet(q) = S
  BY <1>7, <1>8, FS_Subset
<1> QED BY <1>4, <1>5, <1>9 DEF q

(* r[i] is step of i and r[i - 1].                                          *)
Recurs(r, step, base, n) == r[0] = base /\ \A i \in 1 .. n : r[i] = step[<<i, r[i - 1]>>]

(* Recursion on 0 .. n whose step depends on the number has a solution.     *)
LEMMA RecursionExists ==
  ASSUME NEW n \in Nat, NEW V, NEW base \in V, NEW step \in [(1 .. n) \X V -> V]
  PROVE  \E r \in [0 .. n -> V] : Recurs(r, step, base, n)
<1>1. PICK it \in [SUBSET (1 .. n) -> V] : FoldsUp(it, step, base, n)
  BY FoldExists
<1> DEFINE r == [i \in 0 .. n |-> it[1 .. i]]
<1>2. \A i \in 0 .. n : 1 .. i \in SUBSET (1 .. n)
  OBVIOUS
<1>3. r \in [0 .. n -> V]
  BY <1>2
<1>4. r[0] = base
  <2>1. 1 .. 0 = {}
    OBVIOUS
  <2> QED BY <1>1, <2>1 DEF FoldsUp
<1>5. ASSUME NEW i \in 1 .. n PROVE r[i] = step[<<i, r[i - 1]>>]
  <2>1. i - 1 \in Nat /\ (i - 1) + 1 = i /\ i \in 0 .. n /\ i - 1 \in 0 .. n
    OBVIOUS
  <2>2. Max(1 .. i) = i /\ (1 .. i) \ {i} = 1 .. i - 1 /\ 1 .. i # {}
    BY <2>1, LastOfInitial
  <2>3. it[1 .. i] = step[<<i, it[1 .. i - 1]>>]
    BY <1>1, <1>2, <2>1, <2>2 DEF FoldsUp
  <2> QED BY <2>1, <2>3
<1> HIDE DEF r
<1>6. Recurs(r, step, base, n)
  BY <1>4, <1>5 DEF Recurs
<1> QED BY <1>3, <1>6

(* A function on 1 .. n is a list.                                          *)
LEMMA FunctionIsSeq ==
  ASSUME NEW S, NEW n \in Nat, NEW s \in [1 .. n -> S]
  PROVE  s \in Seq(S) /\ Len(s) = n /\ DOMAIN s = 1 .. n
<1>1. s \in Seq(S) /\ DOMAIN s = 1 .. n
  BY SeqDef
<1>2. DOMAIN s = 1 .. Len(s) /\ Len(s) \in Nat
  BY <1>1, LenProperties
<1>3. Len(s) = n
  BY <1>1, <1>2
<1> QED BY <1>1, <1>3

(* fl[i] is the first i of seqs joined.                                     *)
Joins(fl, seqs) == fl[0] = <<>> /\ \A i \in 1 .. Len(seqs) : fl[i] = fl[i - 1] \o seqs[i]

(* The recursion of FlattenSeq.                                             *)
LEMMA FlattenSteps ==
  ASSUME NEW S, NEW seqs \in Seq(Seq(S))
  PROVE  \E fl \in [0 .. Len(seqs) -> Seq(S)] : Joins(fl, seqs) /\ FlattenSeq(seqs) = fl[Len(seqs)]
<1> DEFINE n == Len(seqs)
           Body(f) == [i \in 1 .. n |-> IF i = 1 THEN seqs[i] ELSE f[i - 1] \o seqs[i]]
           flatten == CHOOSE f : f = Body(f)
           step == [p \in (1 .. n) \X Seq(S) |-> p[2] \o seqs[p[1]]]
<1>1. n \in Nat /\ \A i \in 1 .. n : seqs[i] \in Seq(S)
  BY LenProperties
<1>2. FlattenSeq(seqs) = IF n = 0 THEN seqs ELSE flatten[n]
  BY DEF FlattenSeq
<1> HIDE DEF n
<1>3. step \in [(1 .. n) \X Seq(S) -> Seq(S)]
  BY <1>1, ConcatProperties
<1>4. PICK fl \in [0 .. n -> Seq(S)] : Recurs(fl, step, <<>>, n)
  <2>1. <<>> \in Seq(S)
    OBVIOUS
  <2> HIDE DEF step
  <2> QED BY <1>1, <1>3, <2>1, RecursionExists
<1>5. fl[0] = <<>> /\ \A i \in 1 .. n : fl[i] = fl[i - 1] \o seqs[i]
  <2>1. fl[0] = <<>>
    BY <1>4 DEF Recurs
  <2>2. ASSUME NEW i \in 1 .. n PROVE fl[i] = fl[i - 1] \o seqs[i]
    <3>1. i - 1 \in 0 .. n
      BY <1>1
    <3>2. fl[i - 1] \in Seq(S)
      BY <3>1
    <3>3. fl[i] = step[<<i, fl[i - 1]>>]
      BY <1>4 DEF Recurs
    <3> QED BY <3>2, <3>3
  <2> QED BY <2>1, <2>2
<1> HIDE DEF step
<1>6. CASE n = 0
  <2>1. seqs = <<>>
    BY <1>6, EmptySeq DEF n
  <2> QED BY <1>2, <1>5, <1>6, <2>1 DEF Joins, n
<1>7. CASE n # 0
  <2> DEFINE g == [i \in 1 .. n |-> fl[i]]
  <2>1. ASSUME NEW i \in 1 .. n PROVE g[i] = IF i = 1 THEN seqs[i] ELSE g[i - 1] \o seqs[i]
    <3>1. CASE i = 1
      <4>0. fl[i] = fl[i - 1] \o seqs[i]
        BY <1>5
      <4>1. fl[1] = fl[0] \o seqs[1]
        BY <3>1, <4>0
      <4>2. seqs[1] \in Seq(S)
        BY <1>1, <3>1
      <4>3. <<>> \o seqs[1] = seqs[1]
        BY <4>2, ConcatEmptySeq
      <4> QED BY <1>5, <3>1, <4>1, <4>3
    <3>2. CASE i # 1
      <4>1. i - 1 \in 1 .. n
        BY <1>1, <3>2
      <4> QED BY <1>5, <3>2, <4>1
    <3> QED BY <3>1, <3>2
  <2>2. g = Body(g)
    BY <2>1
  <2> HIDE DEF Body, g
  <2>3. flatten = Body(flatten)
    BY <2>2
  <2> HIDE DEF flatten
  <2>4. \A i \in 1 .. n : flatten[i] = IF i = 1 THEN seqs[i] ELSE flatten[i - 1] \o seqs[i]
    BY <2>3 DEF Body
  <2> DEFINE T == {i \in 0 .. n : i = 0 \/ flatten[i] = fl[i]}
  <2>5. 0 \in T
    BY <1>1
  <2>6. ASSUME NEW i \in 0 .. n - 1, i \in T PROVE i + 1 \in T
    <3>1. i + 1 \in 1 .. n /\ i + 1 \in 0 .. n /\ (i + 1) - 1 = i /\ (i + 1 = 1 <=> i = 0)
      BY <1>1
    <3>2. CASE i = 0
      <4>1. flatten[1] = seqs[1]
        BY <2>4, <3>1, <3>2
      <4>2. fl[1] = <<>> \o seqs[1]
        BY <1>5, <3>1, <3>2
      <4>3. <<>> \o seqs[1] = seqs[1]
        BY <1>1, <3>1, <3>2, ConcatEmptySeq
      <4> QED BY <3>1, <3>2, <4>1, <4>2, <4>3
    <3>3. CASE i # 0
      <4>1. flatten[i + 1] = flatten[i] \o seqs[i + 1]
        BY <2>4, <3>1, <3>3
      <4>2. fl[i + 1] = fl[i] \o seqs[i + 1]
        BY <1>5, <3>1
      <4> QED BY <2>6, <3>1, <3>3, <4>1, <4>2
    <3> QED BY <3>2, <3>3
  <2> HIDE DEF T
  <2>7. \A i \in 0 .. n : i \in T
    BY <1>1, <2>5, <2>6, UpTo
  <2>8. flatten[n] = fl[n]
    BY <1>1, <1>7, <2>7 DEF T
  <2> QED BY <1>2, <1>5, <1>7, <2>8 DEF Joins, n
<1> QED BY <1>6, <1>7

(* Joining lists: none, and one more.                                       *)
LEMMA FlattenNodes ==
  ASSUME NEW S, NEW seqs \in Seq(Seq(S))
  PROVE  /\ FlattenSeq(seqs) \in Seq(S)
         /\ seqs = <<>> => FlattenSeq(seqs) = <<>>
         /\ \A t \in Seq(S) : FlattenSeq(Append(seqs, t)) = FlattenSeq(seqs) \o t
<1> DEFINE n == Len(seqs)
<1>1. n \in Nat /\ n \in 0 .. n
  BY LenProperties
<1>2. PICK fl \in [0 .. n -> Seq(S)] : Joins(fl, seqs) /\ FlattenSeq(seqs) = fl[n]
  BY FlattenSteps
<1>3. fl[0] = <<>> /\ \A i \in 1 .. n : fl[i] = fl[i - 1] \o seqs[i]
  BY <1>2 DEF Joins
<1>4. seqs = <<>> => n = 0
  OBVIOUS
<1>5. ASSUME NEW t \in Seq(S) PROVE FlattenSeq(Append(seqs, t)) = FlattenSeq(seqs) \o t
  <2> DEFINE more == Append(seqs, t)
  <2>1. /\ more \in Seq(Seq(S)) /\ Len(more) = n + 1 /\ more[n + 1] = t
        /\ \A i \in 1 .. n : more[i] = seqs[i]
    BY AppendProperties
  <2> HIDE DEF more
  <2>2. PICK gl \in [0 .. Len(more) -> Seq(S)] : Joins(gl, more) /\ FlattenSeq(more) = gl[Len(more)]
    BY <2>1, FlattenSteps
  <2>3. gl[0] = <<>> /\ \A i \in 1 .. n + 1 : gl[i] = gl[i - 1] \o more[i]
    BY <2>1, <2>2 DEF Joins
  <2> DEFINE T == {i \in 0 .. n : gl[i] = fl[i]}
  <2> HIDE DEF n
  <2>4. 0 \in T
    BY <1>1, <1>3, <2>3
  <2>5. ASSUME NEW i \in 0 .. n - 1, i \in T PROVE i + 1 \in T
    <3>1. i + 1 \in 1 .. n /\ i + 1 \in 0 .. n /\ (i + 1) - 1 = i /\ i + 1 \in 1 .. n + 1
      BY <1>1
    <3>2. fl[i + 1] = fl[i] \o seqs[i + 1] /\ gl[i + 1] = gl[i] \o more[i + 1]
      BY <1>3, <2>3, <3>1
    <3> QED BY <2>1, <2>5, <3>1, <3>2
  <2> HIDE DEF T
  <2>6. \A i \in 0 .. n : i \in T
    BY <1>1, <2>4, <2>5, UpTo
  <2>7. gl[n] = fl[n]
    BY <1>1, <2>6 DEF T
  <2>8. n + 1 \in 1 .. n + 1 /\ (n + 1) - 1 = n
    BY <1>1
  <2>9. gl[n + 1] = gl[n] \o t
    BY <2>1, <2>3, <2>8
  <2> QED BY <1>2, <2>1, <2>2, <2>7, <2>9 DEF more
<1> QED BY <1>1, <1>2, <1>3, <1>4, <1>5

(* Popping what was pushed.                                                 *)
LEMMA PopsTheRest ==
  ASSUME NEW S, NEW s \in Seq(S), NEW t \in Seq(S)
  PROVE  SubSeq(s \o t, 1, Len(s \o t) - Len(t)) = s /\ Len(s \o t) - Len(t) >= 0
<1> DEFINE u == s \o t
<1>1. /\ u \in Seq(S) /\ Len(u) = Len(s) + Len(t) /\ Len(s) \in Nat /\ Len(t) \in Nat
      /\ \A i \in 1 .. Len(s) + Len(t) : u[i] = IF i <= Len(s) THEN s[i] ELSE t[i - Len(s)]
  BY ConcatProperties, LenProperties
<1> HIDE DEF u
<1>2. Len(u) - Len(t) = Len(s) /\ \A i \in 1 .. Len(s) : u[i] \in S /\ u[i] = s[i]
  BY <1>1, LenProperties
<1> DEFINE v == SubSeq(u, 1, Len(s))
<1>3. v \in Seq(S) /\ Len(v) = Len(s) /\ \A i \in 1 .. Len(s) : v[i] = u[i]
  <2>1. v \in Seq(S) /\ Len(v) = (IF 1 <= Len(s) THEN Len(s) - 1 + 1 ELSE 0)
        /\ \A i \in 1 .. Len(s) - 1 + 1 : v[i] = u[1 + i - 1]
    BY <1>1, <1>2, SubSeqProperties
  <2>2. \A i \in 1 .. Len(s) : 1 + i - 1 = i /\ i \in 1 .. Len(s) - 1 + 1
    BY <1>1
  <2> HIDE DEF v
  <2> QED BY <1>1, <2>1, <2>2
<1> HIDE DEF v
<1>4. v = s
  BY <1>2, <1>3, SeqEqual
<1> QED BY <1>1, <1>2, <1>4 DEF u, v

(* The last node is the one that was appended.                              *)
LEMMA FrontThenLast ==
  ASSUME NEW S, NEW s \in Seq(S), s # <<>>
  PROVE  s = Append(Front(s), Last(s))
<1>1. /\ Len(s) \in Nat \ {0} /\ Last(s) \in S /\ Last(s) = s[Len(s)]
  BY EmptySeq, LenProperties, LastIn DEF Last
<1>2. /\ Front(s) \in Seq(S) /\ Len(Front(s)) = Len(s) - 1
      /\ \A k \in 1 .. Len(s) - 1 : Front(s)[k] = s[k]
  BY FrontNodes
<1> DEFINE t == Append(Front(s), Last(s))
<1>3. /\ t \in Seq(S) /\ Len(t) = Len(s) - 1 + 1 /\ t[Len(s) - 1 + 1] = Last(s)
      /\ \A k \in 1 .. Len(s) - 1 : t[k] = Front(s)[k]
  BY <1>1, <1>2, AppendProperties
<1> HIDE DEF t
<1>4. Len(t) = Len(s) /\ \A k \in 1 .. Len(s) : t[k] = s[k]
  <2>1. Len(s) - 1 + 1 = Len(s) /\ \A k \in 1 .. Len(s) : k \in 1 .. Len(s) - 1 \/ k = Len(s)
    BY <1>1
  <2> QED BY <1>1, <1>2, <1>3, <2>1
<1> QED BY <1>3, <1>4, SeqEqual DEF t

(* A proper part of a finite set has fewer members.                         *)
LEMMA StrictlyFewer ==
  ASSUME NEW X, NEW Y, IsFiniteSet(Y), X \subseteq Y, X # Y
  PROVE  Cardinality(X) < Cardinality(Y)
<1>1. IsFiniteSet(X) /\ Cardinality(X) <= Cardinality(Y) /\ (Cardinality(X) = Cardinality(Y) => X = Y)
  BY FS_Subset
<1>2. Cardinality(X) \in Nat /\ Cardinality(Y) \in Nat
  BY <1>1, FS_CardinalityType
<1> QED BY <1>1, <1>2

(* A chain of sets that g makes grow stops growing after as many steps as   *)
(* there are members.                                                       *)
LEMMA Settles ==
  ASSUME NEW S, IsFiniteSet(S), NEW g \in [SUBSET S -> SUBSET S],
         NEW F \in [0 .. Cardinality(S) -> SUBSET S],
         \A X, Y \in SUBSET S : X \subseteq Y => g[X] \subseteq g[Y],
         F[0] \subseteq g[F[0]],
         \A k \in 1 .. Cardinality(S) : F[k] = g[F[k - 1]]
  PROVE  g[F[Cardinality(S)]] = F[Cardinality(S)]
<1> DEFINE n == Cardinality(S)
           Good(k) == F[k] \subseteq g[F[k]] /\ (g[F[k]] = F[k] \/ Cardinality(F[k]) >= k)
           T == {k \in 0 .. n : Good(k)}
<1>1. n \in Nat
  BY FS_CardinalityType
<1>2. \A k \in 0 .. n : F[k] \in SUBSET S /\ g[F[k]] \in SUBSET S /\ IsFiniteSet(F[k])
                        /\ Cardinality(F[k]) \in Nat /\ Cardinality(F[k]) <= n
  <2> SUFFICES ASSUME NEW k \in 0 .. n
               PROVE  F[k] \in SUBSET S /\ g[F[k]] \in SUBSET S /\ IsFiniteSet(F[k])
                      /\ Cardinality(F[k]) \in Nat /\ Cardinality(F[k]) <= n
    OBVIOUS
  <2>1. F[k] \in SUBSET S /\ g[F[k]] \in SUBSET S
    OBVIOUS
  <2> QED BY <2>1, FS_Subset, FS_CardinalityType
<1> HIDE DEF n
<1>3. 0 \in T
  BY <1>1, <1>2
<1>4. ASSUME NEW k \in 0 .. n - 1, k \in T PROVE k + 1 \in T
  <2>1. k + 1 \in 1 .. n /\ k + 1 \in 0 .. n /\ (k + 1) - 1 = k /\ k \in 0 .. n /\ k \in Nat
    BY <1>1
  <2>2. F[k + 1] = g[F[k]] /\ Good(k)
    BY <1>4, <2>1 DEF n
  <2>3. F[k] \subseteq F[k + 1] /\ F[k + 1] \subseteq g[F[k + 1]]
    BY <1>2, <2>1, <2>2
  <2>4. CASE g[F[k]] = F[k]
    BY <2>1, <2>2, <2>3, <2>4
  <2>5. CASE g[F[k]] # F[k]
    <3>1. Cardinality(F[k]) < Cardinality(F[k + 1])
      <4>1. \A X, Y : IsFiniteSet(Y) /\ X \subseteq Y /\ X # Y => Cardinality(X) < Cardinality(Y)
        BY StrictlyFewer
      <4> QED BY <1>2, <2>1, <2>2, <2>3, <2>5, <4>1
    <3>2. Cardinality(F[k + 1]) >= k + 1
      BY <1>2, <2>1, <2>2, <2>5, <3>1
    <3> QED BY <2>1, <2>3, <3>2
  <2> QED BY <2>4, <2>5
<1> HIDE DEF Good
<1>5. n \in T
  <2>1. \A k \in 0 .. n : k \in T
    BY <1>1, <1>3, <1>4, UpTo
  <2> QED BY <1>1, <2>1
<1>6. CASE g[F[n]] = F[n]
  BY <1>6 DEF n
<1>7. CASE g[F[n]] # F[n]
  <2>1. F[n] \subseteq g[F[n]] /\ Cardinality(F[n]) >= n /\ F[n] \subseteq S /\ n \in 0 .. n
    BY <1>1, <1>2, <1>5, <1>7 DEF Good
  <2>2. F[n] = S
    <3>1. \A X, Y : IsFiniteSet(Y) /\ X \subseteq Y /\ X # Y => Cardinality(X) < Cardinality(Y)
      BY StrictlyFewer
    <3>2. F[n] # S => Cardinality(F[n]) < Cardinality(S)
      BY <2>1, <3>1
    <3> QED BY <1>1, <1>2, <2>1, <3>2 DEF n
  <2>3. g[F[n]] \subseteq S
    BY <1>2, <2>1
  <2> QED BY <1>7, <2>1, <2>2, <2>3
<1> QED BY <1>6, <1>7

(* More than one member is two different ones.                              *)
LEMMA MoreThanOne ==
  ASSUME NEW S, IsFiniteSet(S)
  PROVE  Cardinality(S) > 1 <=> \E x, y \in S : x # y
<1>1. Cardinality(S) \in Nat
  BY FS_CardinalityType
<1>2. ASSUME NEW x \in S, NEW y \in S, x # y PROVE Cardinality(S) > 1
  <2>1. {x} \subseteq S /\ {x} # S /\ Cardinality({x}) = 1
    BY <1>2, FS_Singleton
  <2>2. Cardinality({x}) < Cardinality(S)
    BY <2>1, StrictlyFewer
  <2> QED BY <1>1, <2>1, <2>2
<1>3. ASSUME ~\E x, y \in S : x # y PROVE ~(Cardinality(S) > 1)
  <2>1. CASE S = {}
    BY <2>1, FS_EmptySet
  <2>2. CASE S # {}
    <3>1. PICK x : x \in S
      BY <2>2
    <3>2. S = {x}
      BY <1>3, <3>1
    <3> QED BY <3>2, FS_Singleton
  <2> QED BY <2>1, <2>2
<1> QED BY <1>2, <1>3
=============================================================================
