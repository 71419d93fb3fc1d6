---------------------------- MODULE DomTreeProofs ----------------------------
(***************************************************************************)
(* Proofs about DomTree, for every number of blocks, every control flow    *)
(* graph and every entry block.                                            *)
(*                                                                         *)
(* The argument for the types, for eval and for dominates() has three       *)
(* parts, the conjuncts of DTInv.                                          *)
(*                                                                         *)
(* The search (SearchOnce, SearchTree): the entry is pushed without being  *)
(* marked, every other push marks, so that the blocks numbered and waiting *)
(* are the marked ones and the entry once more.  That bounds dfnVector by  *)
(* N + 1, and the parent of every block stands before it there.            *)
(*                                                                         *)
(* The links (LinksFollowTheSearch): ancestors are parents, so a chain of  *)
(* links goes down in dfnVector, and ends, unless the entry was met again: *)
(* then the entry has a parent and the chain is a cycle.                   *)
(*                                                                         *)
(* The depths (DepthsFollowTheTree, QueueIsTheFringe): a block gets its    *)
(* depth once, from an idom that has one, so that a depth counts different *)
(* blocks and is N at most.  dominates() compares depths only: it climbs   *)
(* the whole way because the depth goes down by one with every step.       *)
(*                                                                         *)
(* The second half is about the result where the code does what Lengauer   *)
(* and Tarjan's algorithm does (Favourable): blocks are allocated          *)
(* downwards, so that addresses and numbers agree on a chain of parents;   *)
(* the search is depth-first; no dead block jumps to a live one.           *)
(*                                                                         *)
(* The order of the search (SearchOrder): blocks are numbered in preorder, *)
(* and what is numbered between a block and one below it is below it too   *)
(* (Chains).                                                               *)
(*                                                                         *)
(* Dominance (IsSemi, SemiDominance, RelativeIsImmediate): if every block  *)
(* has its semidominator, x strictly dominates w iff no block between x    *)
(* and w, w included, has its semidominator above x (Bounds).              *)
(*                                                                         *)
(* The loops (SemiInv, BucketInv, IdomInv): linked blocks have their       *)
(* semidominators; a block waits in the bucket of its semidominator until  *)
(* all between them are linked and then gets its relative by eval          *)
(* (EvalOnTheChain); the second pass meets a block after its relative.     *)
(*                                                                         *)
(* LoopEnds: the analysis gets to its end only if the search did not meet  *)
(* the entry again.                                                        *)
(***************************************************************************)
EXTENDS DomTree, BasicLemmas

(* The blocks are finitely many.                                            *)
LEMMA Blocks ==
  /\ N \in Nat /\ N >= 1
  /\ Block \subseteq Nat /\ Block0 \subseteq Nat /\ Block \subseteq Block0 /\ Null \in Block0
  /\ \A b \in Block : b # Null
  /\ \A b \in Block0 : b # Null => b \in Block
  /\ IsFiniteSet(Block) /\ Cardinality(Block) = N
<1>1. N \in Nat /\ N >= 1
  BY BlocksAssumption
<1>2. IsFiniteSet(Block) /\ Cardinality(Block) = N
  BY <1>1, FS_Interval DEF Block
<1> QED BY <1>1, <1>2 DEF Block, Block0, Null

(* What one step of a chain of ancestors is.                                *)
LEMMA ClimbSteps ==
  ASSUME NEW anc \in [Block0 -> Block0], NEW u \in Block0
  PROVE  /\ Climb(anc, u) \in [0 .. N -> Block0]
         /\ Climb(anc, u)[0] = u
         /\ \A n \in 1 .. N : Climb(anc, u)[n] = IF Climb(anc, u)[n - 1] = Null THEN Null
                                                 ELSE anc[Climb(anc, u)[n - 1]]
<1> DEFINE g == [c \in Block0 |-> IF c = Null THEN Null ELSE anc[c]]
           Body(up) == [n \in 0 .. N |-> IF n = 0 THEN u
                          ELSE IF up[n - 1] = Null THEN Null ELSE anc[up[n - 1]]]
           up == CHOOSE f : f = Body(f)
<1>1. Climb(anc, u) = up
  BY DEF Climb
<1>2. N \in Nat /\ g \in [Block0 -> Block0]
  BY Blocks
<1> HIDE DEF g
<1>3. PICK f \in [0 .. N -> Block0] : Iterates(f, g, u, N)
  BY <1>2, IterationExists
<1> USE DEF g, Iterates
<1>4. ASSUME NEW n \in 0 .. N
      PROVE  f[n] = IF n = 0 THEN u ELSE IF f[n - 1] = Null THEN Null ELSE anc[f[n - 1]]
  <2>1. CASE n = 0
    BY <1>3, <2>1
  <2>2. CASE n # 0
    <3>1. n \in 1 .. N /\ n - 1 \in 0 .. N
      BY <1>2, <2>2
    <3>2. f[n] = g[f[n - 1]] /\ f[n - 1] \in Block0
      BY <1>3, <3>1
    <3> QED BY <2>2, <3>2
  <2> QED BY <2>1, <2>2
<1>5. f = Body(f)
  BY <1>4
<1> HIDE DEF Body
<1>6. up = Body(up)
  BY <1>5
<1> HIDE DEF up
<1> USE DEF Body
<1>7. /\ up[0] = u
      /\ \A n \in 1 .. N : up[n] = IF up[n - 1] = Null THEN Null ELSE anc[up[n - 1]]
  <2>1. up[0] = u
    BY <1>2, <1>6
  <2>2. ASSUME NEW n \in 1 .. N
        PROVE  up[n] = IF up[n - 1] = Null THEN Null ELSE anc[up[n - 1]]
    <3>1. n \in 0 .. N /\ n # 0
      BY <1>2
    <3> QED BY <1>6, <3>1
  <2> QED BY <2>1, <2>2
<1>8. \A n \in 0 .. N : up[n] \in Block0
  <2> DEFINE T == {n \in 0 .. N : up[n] \in Block0}
  <2>1. 0 \in T
    BY <1>2, <1>7
  <2>2. \A n \in 0 .. N - 1 : n \in T => n + 1 \in T
    <3> SUFFICES ASSUME NEW n \in 0 .. N - 1, up[n] \in Block0 PROVE n + 1 \in T
      OBVIOUS
    <3>1. n + 1 \in 1 .. N /\ (n + 1) - 1 = n /\ n + 1 \in 0 .. N
      BY <1>2
    <3>2. up[n + 1] = IF up[n] = Null THEN Null ELSE anc[up[n]]
      BY <1>7, <3>1
    <3> QED BY <3>1, <3>2, Blocks
  <2>3. \A n \in 0 .. N : n \in T
    BY <1>2, <2>1, <2>2, UpTo
  <2> QED BY <2>3
<1>9. up \in [0 .. N -> Block0]
  BY <1>6, <1>8
<1> QED BY <1>1, <1>7, <1>9

(* eval answers with a block.                                               *)
LEMMA EvalIsABlock ==
  ASSUME NEW anc \in [Block0 -> Block0], NEW sd \in [Block0 -> Block0], NEW u \in Block
  PROVE  Eval(anc, sd, u) \in Block
<1> DEFINE up == Climb(anc, u)
           seen == {n \in 0 .. N : up[n] # Null /\ (n = 0 \/ anc[up[n]] # Null)}
           Least(n) == \A m \in seen : sd[up[n]] < sd[up[m]] \/ (sd[up[n]] = sd[up[m]] /\ n <= m)
           values == {sd[up[n]] : n \in seen}
<1>1. N \in Nat /\ u \in Block0 /\ u # Null
  BY Blocks
<1>2. up \in [0 .. N -> Block0] /\ up[0] = u
  BY <1>1, ClimbSteps
<1>3. Eval(anc, sd, u) = up[CHOOSE n \in seen : Least(n)]
  BY DEF Eval
<1> HIDE DEF up
<1>4. 0 \in seen
  BY <1>1, <1>2
<1>5. \A n \in seen : n \in Nat /\ sd[up[n]] \in Nat /\ up[n] \in Block
  <2> SUFFICES ASSUME NEW n \in seen PROVE n \in Nat /\ sd[up[n]] \in Nat /\ up[n] \in Block
    OBVIOUS
  <2>1. n \in 0 .. N /\ up[n] # Null
    OBVIOUS
  <2>2. up[n] \in Block /\ sd[up[n]] \in Block0
    BY <1>2, <2>1, Blocks
  <2>3. n \in Nat
    BY <1>1, <2>1
  <2>4. sd[up[n]] \in Nat
    BY <2>2, Blocks
  <2> QED BY <2>2, <2>3, <2>4
<1> HIDE DEF seen
<1>6. PICK v \in values : \A w \in values : v <= w
  <2>1. values \subseteq Nat /\ values # {}
    BY <1>4, <1>5
  <2> HIDE DEF values
  <2> QED BY <2>1, LeastNat
<1> DEFINE first == {n \in seen : sd[up[n]] = v}
<1>7. PICK k \in first : \A m \in first : k <= m
  <2>1. first \subseteq Nat /\ first # {}
    BY <1>5, <1>6
  <2> HIDE DEF first
  <2> QED BY <2>1, LeastNat
<1>8. Least(k)
  <2> SUFFICES ASSUME NEW m \in seen
               PROVE  sd[up[k]] < sd[up[m]] \/ (sd[up[k]] = sd[up[m]] /\ k <= m)
    OBVIOUS
  <2>1. v <= sd[up[m]] /\ v = sd[up[k]] /\ v \in Nat /\ sd[up[m]] \in Nat
    BY <1>5, <1>6, <1>7
  <2>2. sd[up[m]] = v => m \in first
    OBVIOUS
  <2> QED BY <1>7, <2>1, <2>2
<1> HIDE DEF Least
<1>9. (CHOOSE n \in seen : Least(n)) \in seen
  BY <1>7, <1>8
<1> QED BY <1>3, <1>5, <1>9

(* The new successors of b are its successors that were not visited, each   *)
(* once.                                                                    *)
LEMMA NewNodes ==
  ASSUME NEW b \in Block, succ[b] \in Seq(Block)
  PROVE  /\ New(b) \in Seq(Block) /\ IsInjective(New(b))
         /\ ToSet(New(b)) = ToSet(succ[b]) \ visited
<1> DEFINE sq == succ[b]
           n == Len(sq)
           Grow(new, s) == IF s \in visited \/ Contains(new, s) THEN new ELSE Append(new, s)
           step == [p \in (1 .. n) \X Seq(Block) |-> Grow(p[2], sq[p[1]])]
           Body(it) == [s \in SUBSET (1 .. n) |->
                          IF s = {} THEN <<>> ELSE Grow(it[s \ {Max(s)}], sq[Max(s)])]
           it == CHOOSE f : f = Body(f)
<1>1. n \in Nat /\ DOMAIN sq = 1 .. n /\ \A i \in 1 .. n : sq[i] \in Block
  BY LenProperties
<1>2. New(b) = it[1 .. n]
  <2>1. New(b) = (CHOOSE f : f = [s \in SUBSET DOMAIN sq |->
                   IF s = {} THEN <<>> ELSE Grow(f[s \ {Max(s)}], sq[Max(s)])])[DOMAIN sq]
    BY DEF New, FoldLeft, MapThenFoldSet
  <2> QED BY <1>1, <2>1
<1> HIDE DEF sq, n
<1>3. ASSUME NEW new \in Seq(Block), NEW s \in Block
      PROVE  Grow(new, s) \in Seq(Block)
  BY AppendProperties
<1>4. step \in [(1 .. n) \X Seq(Block) -> Seq(Block)]
  BY <1>1, <1>3
<1>5. PICK f \in [SUBSET (1 .. n) -> Seq(Block)] : FoldsUp(f, step, <<>>, n)
  <2>1. <<>> \in Seq(Block)
    BY EmptySeq
  <2> HIDE DEF step
  <2> QED BY <1>1, <1>4, <2>1, FoldExists
<1> HIDE DEF Grow
<1>6. f = Body(f)
  <2>1. ASSUME NEW s \in SUBSET (1 .. n), s # {}
        PROVE  f[s] = Grow(f[s \ {Max(s)}], sq[Max(s)])
    <3>1. Max(s) \in 1 .. n
      BY <1>1, <2>1, MaxOfNats
    <3>2. f[s] = step[<<Max(s), f[s \ {Max(s)}]>>]
      BY <1>5, <2>1 DEF FoldsUp
    <3>3. f[s \ {Max(s)}] \in Seq(Block)
      OBVIOUS
    <3> QED BY <3>1, <3>2, <3>3
  <2>2. f[{}] = <<>>
    BY <1>5 DEF FoldsUp
  <2> QED BY <2>1, <2>2
<1> HIDE DEF step, Body
<1>7. it = Body(it)
  BY <1>6
<1> HIDE DEF it
<1>8. /\ it[{}] = <<>>
      /\ \A s \in SUBSET (1 .. n) : s # {} => it[s] = Grow(it[s \ {Max(s)}], sq[Max(s)])
  BY <1>7 DEF Body
<1> DEFINE Good(k) == /\ it[1 .. k] \in Seq(Block) /\ IsInjective(it[1 .. k])
                      /\ ToSet(it[1 .. k]) = {sq[i] : i \in 1 .. k} \ visited
           T == {k \in 0 .. n : Good(k)}
<1>9. Good(0)
  <2>1. 1 .. 0 = {}
    OBVIOUS
  <2>2. <<>> \in Seq(Block) /\ IsInjective(<<>>) /\ ToSet(<<>>) = {}
    BY EmptySeq DEF IsInjective, ToSet
  <2>3. it[1 .. 0] = <<>>
    BY <1>8, <2>1
  <2> QED BY <2>1, <2>2, <2>3
<1>10. ASSUME NEW k \in 0 .. n - 1, Good(k) PROVE Good(k + 1)
  <2> DEFINE new == it[1 .. k]
             s == sq[k + 1]
  <2>1. /\ k \in Nat /\ k + 1 \in 1 .. n /\ 1 .. k + 1 \in SUBSET (1 .. n) /\ s \in Block
        /\ {sq[i] : i \in 1 .. k + 1} = {sq[i] : i \in 1 .. k} \cup {s}
    BY <1>1
  <2>2. it[1 .. k + 1] = Grow(new, s)
    BY <1>8, <2>1, LastOfInitial
  <2>3. new \in Seq(Block) /\ IsInjective(new) /\ ToSet(new) = {sq[i] : i \in 1 .. k} \ visited
    BY <1>10
  <2> HIDE DEF new
  <2>4. Contains(new, s) <=> s \in ToSet(new)
    BY <2>3, LenProperties DEF Contains, ToSet
  <2>5. CASE s \in visited \/ Contains(new, s)
    <3>1. Grow(new, s) = new
      BY <2>5 DEF Grow
    <3>2. {sq[i] : i \in 1 .. k + 1} \ visited = {sq[i] : i \in 1 .. k} \ visited
      BY <2>1, <2>3, <2>4, <2>5
    <3> QED BY <2>2, <2>3, <3>1, <3>2
  <2>6. CASE ~(s \in visited \/ Contains(new, s))
    <3>1. Grow(new, s) = Append(new, s)
      BY <2>6 DEF Grow
    <3>2. Append(new, s) \in Seq(Block)
      BY <2>1, <2>3, AppendProperties
    <3>3. ToSet(Append(new, s)) = ToSet(new) \cup {s} /\ IsInjective(Append(new, s))
      BY <2>1, <2>3, <2>4, <2>6, AppendNodes
    <3>4. {sq[i] : i \in 1 .. k + 1} \ visited = ToSet(new) \cup {s}
      BY <2>1, <2>3, <2>6
    <3> QED BY <2>2, <3>1, <3>2, <3>3, <3>4
  <2> QED BY <2>5, <2>6
<1> HIDE DEF Good
<1>11. \A k \in 0 .. n : k \in T
  <2>1. 0 \in T
    BY <1>1, <1>9
  <2>2. \A k \in 0 .. n - 1 : k \in T => k + 1 \in T
    BY <1>1, <1>10
  <2> QED BY <1>1, <2>1, <2>2, UpTo
<1>12. Good(n)
  BY <1>1, <1>11
<1>13. ToSet(sq) = {sq[i] : i \in 1 .. n}
  BY <1>1 DEF ToSet
<1> QED BY <1>2, <1>12, <1>13 DEF Good, sq

(* The semidominator is a block, or null.                                   *)
LEMMA SemiIsABlock ==
  ASSUME NEW b \in Block0, ancestor \in [Block0 -> Block0], sdom \in [Block0 -> Block0]
  PROVE  SemiOf(b) \in Block0
<1> DEFINE below == {sdom[Eval(ancestor, sdom, p)] : p \in Preds(b)} \cup {sdom[b]}
<1>1. \A p \in Preds(b) : Eval(ancestor, sdom, p) \in Block
  BY EvalIsABlock DEF Preds
<1>2. below \subseteq Block0 /\ below # {}
  BY <1>1, Blocks
<1>3. SemiOf(b) = CHOOSE s \in below : \A t \in below : s <= t
  BY DEF SemiOf
<1> HIDE DEF below
<1>4. \E s \in below : \A t \in below : s <= t
  BY <1>2, Blocks, LeastNat
<1>5. SemiOf(b) \in below
  BY <1>3, <1>4
<1> QED BY <1>2, <1>5

(* A numbering of the blocks in which every number above 1 has a            *)
(* predecessor goes no higher than there are blocks.                        *)
LEMMA DepthsAreFew ==
  ASSUME NEW f, \A b \in Block : f[b] \in Nat,
         \A b \in Block : f[b] > 1 => \E c \in Block : f[c] = f[b] - 1
  PROVE  \A b \in Block : f[b] <= N
<1> SUFFICES ASSUME NEW b \in Block PROVE f[b] <= N
  OBVIOUS
<1> DEFINE d == f[b]
           T == {k \in 0 .. d : d - k >= 1 => \E c \in Block : f[c] = d - k}
           at == [k \in 1 .. d |-> CHOOSE c \in Block : f[c] = k]
<1>1. d \in Nat
  OBVIOUS
<1> HIDE DEF d
<1>2. \A k \in 0 .. d : k \in T
  <2>1. 0 \in T
    BY <1>1 DEF d
  <2>2. ASSUME NEW k \in 0 .. d - 1, k \in T PROVE k + 1 \in T
    <3>1. CASE d - (k + 1) >= 1
      <4>1. PICK c \in Block : f[c] = d - k
        BY <1>1, <2>2, <3>1
      <4>2. f[c] > 1
        BY <1>1, <3>1, <4>1
      <4>3. PICK e \in Block : f[e] = f[c] - 1
        BY <4>2
      <4>4. f[e] = d - (k + 1)
        BY <1>1, <4>1, <4>3
      <4> QED BY <1>1, <4>4
    <3>2. CASE ~(d - (k + 1) >= 1)
      BY <1>1, <3>2
    <3> QED BY <3>1, <3>2
  <2> QED BY <1>1, <2>1, <2>2, UpTo
<1>3. \A k \in 1 .. d : \E c \in Block : f[c] = k
  <2> SUFFICES ASSUME NEW k \in 1 .. d PROVE \E c \in Block : f[c] = k
    OBVIOUS
  <2>1. d - k \in 0 .. d /\ d - (d - k) = k /\ k >= 1
    BY <1>1
  <2> QED BY <1>2, <2>1
<1>4. \A k \in 1 .. d : at[k] \in Block /\ f[at[k]] = k
  BY <1>3
<1> HIDE DEF at
<1>5. \A j, k \in 1 .. d : at[j] = at[k] => j = k
  BY <1>4
<1>6. at \in [1 .. d -> Block]
  BY <1>4 DEF at
<1>7. at \in Injection(1 .. d, Block)
  BY <1>5, <1>6, Fun_IsInj
<1>8. Cardinality(1 .. d) <= N
  BY <1>7, Blocks, FS_Injection
<1>9. Cardinality(1 .. d) = IF 1 > d THEN 0 ELSE d - 1 + 1
  BY <1>1, FS_Interval
<1> QED BY <1>1, <1>8, <1>9, Blocks DEF d

(* The blocks pushed and not popped yet.                                    *)
Waiting == IF pc = "dfs" THEN worklist ELSE <<>>

(* The entry is pushed once more than it is marked, every other block as    *)
(* often.                                                                   *)
SearchOnce ==
  /\ Len(dfnVector) + Len(Waiting) = Cardinality(visited) + 1
  /\ ToSet(dfnVector) \cup ToSet(Waiting) = visited \cup {entry}

(* The marked blocks are the successors of the numbered ones; the parent of *)
(* a marked block is numbered, and numbered before it.                      *)
SearchTree ==
  /\ visited = UNION {ToSet(succ[b]) : b \in ToSet(dfnVector)}
  /\ dfnVector = <<>> => pc = "dfs" /\ worklist = <<entry>>
  /\ dfnVector # <<>> => dfnVector[1] = entry /\ ToSet(Waiting) \subseteq visited
  /\ \A j \in 2 .. Len(dfnVector) :
       dfnVector[j] \in visited /\ \E i \in 1 .. j - 1 : parent[dfnVector[j]] = dfnVector[i]
  /\ \A c \in visited : parent[c] \in ToSet(dfnVector) /\ c \in ToSet(succ[parent[c]])
  /\ \A c \in Block0 \ visited : parent[c] = Null

(* Links go to parents only; eval is lost only if the entry was met.        *)
LinksFollowTheSearch ==
  /\ \A c \in Block0 : ancestor[c] = Null \/ (pc # "dfs" /\ ancestor[c] = parent[c])
  /\ pc = "diverged" => entry \in visited

(* The loops count within dfnVector.                                          *)
Counters ==
  /\ pc = "sdom" => next <= Len(dfnVector)
  /\ pc = "idom" => next >= 2

(* A block is one deeper than its idom, which got its depth before it.      *)
DepthsFollowTheTree ==
  IF pc \in {"depth", "done"}
  THEN /\ idomMap[entry] = Null /\ nodeDepthMap[Null] = 0
       /\ \A b \in Block : nodeDepthMap[b] > 0 =>
            /\ nodeDepthMap[b] = nodeDepthMap[idomMap[b]] + 1
            /\ b = entry \/ nodeDepthMap[idomMap[b]] > 0
  ELSE \A b \in Block0 : nodeDepthMap[b] = 0

(* The queue: each block once, none with a depth, each below one that has.  *)
QueueIsTheFringe ==
  pc = "depth" =>
    /\ IsInjective(worklist)
    /\ \A b \in ToSet(worklist) :
         nodeDepthMap[b] = 0 /\ (b = entry \/ nodeDepthMap[idomMap[b]] > 0)

(* The inductive invariant.                                                 *)
DTInv ==
  /\ DTTypeOK /\ SearchOnce /\ SearchTree /\ LinksFollowTheSearch
  /\ Counters /\ DepthsFollowTheTree /\ QueueIsTheFringe

(* The types, one by one.                                                   *)
LEMMA Types ==
  ASSUME DTTypeOK
  PROVE  /\ entry \in Block /\ succ \in [Block -> Seq(Block)]
         /\ worklist \in Seq(Block) /\ visited \subseteq Block
         /\ dfnVector \in Seq(Block) /\ Len(dfnVector) \in Nat /\ Len(worklist) \in Nat
         /\ DOMAIN dfnVector = 1 .. Len(dfnVector) /\ next \in Nat
         /\ parent \in [Block0 -> Block0] /\ ancestor \in [Block0 -> Block0]
         /\ sdom \in [Block0 -> Block0] /\ idomMap \in [Block0 -> Block0]
         /\ bucket \in [Block0 -> SUBSET Block] /\ nodeDepthMap \in [Block0 -> 0 .. N]
         /\ IsFiniteSet(visited) /\ Cardinality(visited) \in Nat /\ Cardinality(visited) <= N
<1>1. /\ entry \in Block /\ succ \in [Block -> Seq(Block)]
      /\ worklist \in Seq(Block) /\ visited \subseteq Block
      /\ dfnVector \in Seq(Block) /\ next \in Nat
      /\ parent \in [Block0 -> Block0] /\ ancestor \in [Block0 -> Block0]
      /\ sdom \in [Block0 -> Block0] /\ idomMap \in [Block0 -> Block0]
      /\ bucket \in [Block0 -> SUBSET Block] /\ nodeDepthMap \in [Block0 -> 0 .. N]
  BY Blocks DEF DTTypeOK
<1>2. IsFiniteSet(visited) /\ Cardinality(visited) <= N
  BY <1>1, Blocks, FS_Subset
<1>3. Cardinality(visited) \in Nat
  BY <1>2, FS_CardinalityType
<1>4. /\ Len(dfnVector) \in Nat /\ Len(worklist) \in Nat
      /\ DOMAIN dfnVector = 1 .. Len(dfnVector)
  BY <1>1, LenProperties
<1> QED BY <1>1, <1>2, <1>3, <1>4

(* It holds at the start, and every action preserves it.                    *)
LEMMA InitInv == DTInit => DTInv
<1> SUFFICES ASSUME DTInit PROVE DTInv
  OBVIOUS
<1> USE DEF DTInit
<1>1. entry \in Block /\ succ \in [Block -> Seq(Block)]
  BY BlocksAssumption, ShapesAssumption
<1>2. <<entry>> \in Seq(Block) /\ <<>> \in Seq(Block) /\ Len(<<entry>>) = 1 /\ Len(<<>>) = 0
  BY <1>1
<1>3. ToSet(<<entry>>) = {entry} /\ ToSet(<<>>) = {}
  BY DEF ToSet
<1>4. [c \in Block0 |-> Null] \in [Block0 -> Block0]
  BY Blocks
<1>5. DTTypeOK
  <2>1. 0 \in 0 .. N + 2 /\ 0 <= N + 1 /\ 0 \in 0 .. N
    BY Blocks
  <2>2. {parent, ancestor, sdom, idomMap} \subseteq [Block0 -> Block0]
    BY <1>4
  <2>3. bucket \in [Block0 -> SUBSET Block] /\ nodeDepthMap \in [Block0 -> 0 .. N]
    BY <2>1
  <2>4. worklist \in Seq(Block) /\ dfnVector \in Seq(Block) /\ Len(dfnVector) <= N + 1
    BY <1>2, <2>1
  <2> QED BY <1>1, <2>1, <2>2, <2>3, <2>4 DEF DTTypeOK
<1>6. SearchOnce
  BY <1>2, <1>3, FS_EmptySet DEF SearchOnce, Waiting
<1>7. SearchTree
  BY <1>2, <1>3 DEF SearchTree
<1>8. LinksFollowTheSearch /\ Counters /\ DepthsFollowTheTree /\ QueueIsTheFringe
  BY DEF LinksFollowTheSearch, Counters, DepthsFollowTheTree, QueueIsTheFringe
<1> QED BY <1>5, <1>6, <1>7, <1>8 DEF DTInv

(* What a pop does, place by place.                                         *)
LEMMA VisitEffect ==
  ASSUME DTTypeOK, Visit
  PROVE  \E b \in Block, front, new \in Seq(Block) :
           /\ b = Last(worklist) /\ worklist = Append(front, b)
           /\ Len(front) = Len(worklist) - 1 /\ ToSet(worklist) = ToSet(front) \cup {b}
           /\ IsInjective(new) /\ ToSet(new) = ToSet(succ[b]) \ visited
           /\ dfnVector' = Append(dfnVector, b)
           /\ sdom' = [sdom EXCEPT ![b] = b]
           /\ worklist' = front \o new
           /\ visited' = visited \cup ToSet(new) /\ visited' \subseteq Block
           /\ parent' = [c \in Block0 |-> IF c \in ToSet(new) THEN b ELSE parent[c]]
           /\ UNCHANGED <<entry, succ, pc, next, ancestor, bucket, idomMap, nodeDepthMap>>
<1> DEFINE b == Last(worklist)
           front == Front(worklist)
           new == New(b)
<1>w. worklist # <<>> /\ worklist \in Seq(Block)
  BY Types DEF Visit
<1>1. /\ b \in Block /\ front \in Seq(Block) /\ Len(front) = Len(worklist) - 1
      /\ ToSet(worklist) = ToSet(front) \cup {b}
  BY <1>w, LastIn, FrontNodes
<1>2. /\ new \in Seq(Block) /\ IsInjective(new) /\ ToSet(new) = ToSet(succ[b]) \ visited
  BY <1>1, Types, NewNodes
<1>3. worklist = Append(front, b)
  BY <1>w, FrontThenLast
<1>4. /\ dfnVector' = Append(dfnVector, b)
      /\ sdom' = [sdom EXCEPT ![b] = b]
      /\ worklist' = front \o new
      /\ visited' = visited \cup ToSet(succ[b])
      /\ parent' = [c \in Block0 |-> IF c \in ToSet(new) THEN b ELSE parent[c]]
      /\ UNCHANGED <<entry, succ, pc, next, ancestor, bucket, idomMap, nodeDepthMap>>
  BY DEF Visit
<1> HIDE DEF b, front, new
<1>5. visited' = visited \cup ToSet(new) /\ visited' \subseteq Block
  <2>1. ToSet(succ[b]) \subseteq Block
    BY <1>1, Types, LenProperties DEF ToSet
  <2> QED BY <1>2, <1>4, <2>1, Types
<1>6. b = Last(worklist)
  BY DEF b
<1> QED BY <1>1, <1>2, <1>3, <1>4, <1>5, <1>6

(* A pop of the search.                                                     *)
LEMMA VisitInv == ASSUME DTInv, Visit PROVE DTInv'
<1>t. DTTypeOK /\ SearchOnce /\ SearchTree /\ LinksFollowTheSearch /\ DepthsFollowTheTree
  BY DEF DTInv
<1>w. pc = "dfs" /\ pc' = "dfs" /\ worklist # <<>> /\ Waiting = worklist /\ Waiting' = worklist'
  BY DEF Visit, Waiting
<1>v. PICK b \in Block, front, new \in Seq(Block) :
           /\ b = Last(worklist) /\ worklist = Append(front, b)
           /\ Len(front) = Len(worklist) - 1 /\ ToSet(worklist) = ToSet(front) \cup {b}
           /\ IsInjective(new) /\ ToSet(new) = ToSet(succ[b]) \ visited
           /\ dfnVector' = Append(dfnVector, b)
           /\ sdom' = [sdom EXCEPT ![b] = b]
           /\ worklist' = front \o new
           /\ visited' = visited \cup ToSet(new) /\ visited' \subseteq Block
           /\ parent' = [c \in Block0 |-> IF c \in ToSet(new) THEN b ELSE parent[c]]
           /\ UNCHANGED <<entry, succ, pc, next, ancestor, bucket, idomMap, nodeDepthMap>>
  BY <1>t, VisitEffect
<1>1. /\ b \in Block /\ front \in Seq(Block) /\ Len(front) = Len(worklist) - 1
      /\ ToSet(worklist) = ToSet(front) \cup {b}
  BY <1>v
<1>2. /\ new \in Seq(Block) /\ IsInjective(new) /\ ToSet(new) = ToSet(succ[b]) \ visited
  BY <1>v
<1>3. /\ dfnVector' = Append(dfnVector, b)
      /\ sdom' = [sdom EXCEPT ![b] = b]
      /\ worklist' = front \o new
      /\ visited' = visited \cup ToSet(succ[b])
      /\ parent' = [c \in Block0 |-> IF c \in ToSet(new) THEN b ELSE parent[c]]
      /\ UNCHANGED <<entry, succ, pc, next, ancestor, bucket, idomMap, nodeDepthMap>>
  BY <1>v
<1>4. /\ worklist' \in Seq(Block) /\ Len(worklist') = Len(front) + Len(new)
      /\ ToSet(worklist') = ToSet(front) \cup ToSet(new)
  BY <1>1, <1>2, <1>3, ConcatProperties, ConcatNodes
<1>5. /\ dfnVector' \in Seq(Block) /\ Len(dfnVector') = Len(dfnVector) + 1
      /\ \A i \in 1 .. Len(dfnVector) : dfnVector'[i] = dfnVector[i]
      /\ dfnVector'[Len(dfnVector) + 1] = b
      /\ dfnVector' # <<>>
      /\ ToSet(dfnVector') = ToSet(dfnVector) \cup {b}
  <2>1. dfnVector \in Seq(Block)
    BY <1>t, Types
  <2>2. ToSet(Append(dfnVector, b)) = ToSet(dfnVector) \cup {b}
    BY <1>1, <2>1, AppendNodes
  <2>3. /\ Append(dfnVector, b) \in Seq(Block) /\ Len(Append(dfnVector, b)) = Len(dfnVector) + 1
        /\ \A i \in 1 .. Len(dfnVector) : Append(dfnVector, b)[i] = dfnVector[i]
        /\ Append(dfnVector, b)[Len(dfnVector) + 1] = b
        /\ Append(dfnVector, b) # <<>>
    BY <1>1, <2>1, AppendProperties
  <2> QED BY <1>3, <2>2, <2>3
<1>6. /\ visited' = visited \cup ToSet(new) /\ visited' \subseteq Block
      /\ visited \cap ToSet(new) = {}
  BY <1>v
<1>7. /\ Cardinality(visited') = Cardinality(visited) + Len(new)
      /\ Cardinality(visited') <= N /\ Cardinality(visited') \in Nat
  <2>1. IsFiniteSet(ToSet(new)) /\ Cardinality(ToSet(new)) = Len(new) /\ Len(new) \in Nat
    BY <1>2, DistinctCount, LenProperties
  <2>2. Cardinality(visited \cap ToSet(new)) = 0
    BY <1>6, FS_EmptySet
  <2>3. Cardinality(visited') = Cardinality(visited) + Cardinality(ToSet(new)) - 0
    BY <1>t, <1>6, <2>1, <2>2, Types, FS_Union
  <2>4. Cardinality(visited') <= N
    BY <1>6, Blocks, FS_Subset
  <2> QED BY <1>t, <2>1, <2>3, <2>4, Types
<1>8. SearchOnce'
  <2>1. Len(dfnVector') + Len(worklist') = Cardinality(visited') + 1
    <3>1. Len(dfnVector) + Len(worklist) = Cardinality(visited) + 1
      BY <1>t, <1>w DEF SearchOnce
    <3>2. Len(new) \in Nat /\ Len(worklist) \in Nat /\ Len(dfnVector) \in Nat /\ Cardinality(visited) \in Nat
      BY <1>t, <1>2, Types, LenProperties
    <3>3. Len(dfnVector') = Len(dfnVector) + 1 /\ Len(worklist') = (Len(worklist) - 1) + Len(new)
      BY <1>1, <1>4, <1>5
    <3>4. Cardinality(visited') = Cardinality(visited) + Len(new)
      BY <1>7
    <3> QED BY <3>1, <3>2, <3>3, <3>4
  <2>2. ToSet(dfnVector') \cup ToSet(worklist') = visited' \cup {entry'}
    BY <1>t, <1>w, <1>1, <1>3, <1>4, <1>5, <1>6 DEF SearchOnce
  <2> QED BY <1>w, <2>1, <2>2 DEF SearchOnce
<1>9. DTTypeOK'
  <2>1. parent' \in [Block0 -> Block0] /\ sdom' \in [Block0 -> Block0]
    BY <1>t, <1>1, <1>3, Types, Blocks
  <2>2. Len(dfnVector') <= N + 1
    <3>1. Len(dfnVector') + Len(worklist') = Cardinality(visited') + 1
      BY <1>w, <1>8 DEF SearchOnce
    <3>2. Len(dfnVector') \in Nat /\ Len(worklist') \in Nat
      BY <1>4, <1>5, LenProperties
    <3> QED BY <1>7, <3>1, <3>2, Blocks
  <2>3. {parent', ancestor', sdom', idomMap'} \subseteq [Block0 -> Block0]
    BY <1>t, <1>3, <2>1, Types
  <2> QED BY <1>t, <1>3, <1>4, <1>5, <1>6, <2>2, <2>3 DEF DTTypeOK
<1>10. SearchTree'
  <2>1. /\ dfnVector = <<>> => b = entry /\ front = <<>> /\ worklist = <<entry>>
        /\ dfnVector # <<>> => dfnVector[1] = entry /\ ToSet(worklist) \subseteq visited
    <3>1. ASSUME dfnVector = <<>> PROVE b = entry /\ front = <<>> /\ worklist = <<entry>>
      <4>1. worklist = <<entry>>
        BY <1>t, <3>1 DEF SearchTree
      <4>2. Len(front) = 0
        BY <1>1, <4>1
      <4> QED BY <1>1, <1>v, <4>1, <4>2, EmptySeq DEF Last
    <3> QED BY <1>t, <1>w, <3>1 DEF SearchTree
  <2>2. visited' = UNION {ToSet(succ'[c]) : c \in ToSet(dfnVector')}
    BY <1>t, <1>3, <1>5 DEF SearchTree
  <2>3. dfnVector'[1] = entry'
    <3>1. CASE dfnVector = <<>>
      <4>1. Len(dfnVector) + 1 = 1
        BY <3>1
      <4> QED BY <1>3, <1>5, <2>1, <3>1, <4>1
    <3>2. CASE dfnVector # <<>>
      <4>1. 1 \in 1 .. Len(dfnVector)
        BY <1>t, <3>2, Types, EmptySeq
      <4> QED BY <1>3, <1>5, <2>1, <3>2, <4>1
    <3> QED BY <3>1, <3>2
  <2>4. ToSet(worklist') \subseteq visited'
    <3>1. CASE dfnVector = <<>>
      <4>1. ToSet(front) = {}
        BY <2>1, <3>1 DEF ToSet
      <4> QED BY <1>4, <1>6, <4>1
    <3>2. CASE dfnVector # <<>>
      BY <1>1, <1>4, <1>6, <2>1, <3>2
    <3> QED BY <3>1, <3>2
  <2>5. \A c \in visited : parent'[c] = parent[c]
    BY <1>t, <1>3, <1>6, Types, Blocks
  <2>6. ASSUME NEW j \in 2 .. Len(dfnVector')
        PROVE  dfnVector'[j] \in visited' /\ \E i \in 1 .. j - 1 : parent'[dfnVector'[j]] = dfnVector'[i]
    <3>1. Len(dfnVector) \in Nat /\ DOMAIN dfnVector = 1 .. Len(dfnVector)
      BY <1>t, Types
    <3>2. CASE j <= Len(dfnVector)
      <4>1. j \in 2 .. Len(dfnVector) /\ j \in 1 .. Len(dfnVector)
        BY <3>1, <3>2
      <4>2. PICK i \in 1 .. j - 1 : parent[dfnVector[j]] = dfnVector[i]
        BY <1>t, <4>1 DEF SearchTree
      <4>3. dfnVector[j] \in visited
        BY <1>t, <4>1 DEF SearchTree
      <4>4. i \in 1 .. Len(dfnVector)
        BY <3>1, <4>1
      <4> QED BY <1>5, <1>6, <2>5, <4>1, <4>2, <4>3, <4>4
    <3>3. CASE j = Len(dfnVector) + 1
      <4>1. dfnVector # <<>>
        BY <3>3
      <4>2. b \in visited
        BY <1>1, <2>1, <4>1
      <4>3. parent[b] \in ToSet(dfnVector)
        BY <1>t, <4>2 DEF SearchTree
      <4>4. PICK i \in 1 .. Len(dfnVector) : dfnVector[i] = parent[b]
        BY <3>1, <4>3 DEF ToSet
      <4>5. i \in 1 .. j - 1 /\ dfnVector'[i] = dfnVector[i] /\ dfnVector'[j] = b
        BY <1>5, <3>1, <3>3
      <4> QED BY <1>6, <2>5, <4>2, <4>4, <4>5
    <3> QED BY <1>5, <3>1, <3>2, <3>3
  <2>7. ASSUME NEW c \in visited'
        PROVE  parent'[c] \in ToSet(dfnVector') /\ c \in ToSet(succ'[parent'[c]])
    <3>1. CASE c \in visited
      <4>1. parent[c] \in ToSet(dfnVector) /\ c \in ToSet(succ[parent[c]])
        BY <1>t, <3>1 DEF SearchTree
      <4> QED BY <1>3, <1>5, <2>5, <3>1, <4>1
    <3>2. CASE c \in ToSet(new)
      <4>1. parent'[c] = b
        BY <1>3, <1>6, <3>2, Blocks
      <4> QED BY <1>2, <1>3, <1>5, <3>2, <4>1
    <3> QED BY <1>6, <3>1, <3>2
  <2>8. \A c \in Block0 \ visited' : parent'[c] = Null
    BY <1>t, <1>3, <1>6 DEF SearchTree
  <2> QED BY <1>w, <1>5, <2>2, <2>3, <2>4, <2>6, <2>7, <2>8 DEF SearchTree
<1>11. LinksFollowTheSearch'
  BY <1>t, <1>w, <1>3 DEF LinksFollowTheSearch
<1>12. Counters' /\ QueueIsTheFringe'
  BY <1>w DEF Counters, QueueIsTheFringe
<1>13. DepthsFollowTheTree'
  BY <1>t, <1>w, <1>3 DEF DepthsFollowTheTree
<1> QED BY <1>8, <1>9, <1>10, <1>11, <1>12, <1>13 DEF DTInv

(* Where the entry was not met again the links lead up the search: every    *)
(* chain of them ends.                                                      *)
LEMMA ChainsEnd ==
  ASSUME DTTypeOK, SearchOnce, SearchTree, pc # "dfs", entry \notin visited,
         NEW anc \in [Block0 -> Block0], \A c \in Block0 : anc[c] = Null \/ anc[c] = parent[c],
         NEW u \in Block
  PROVE  Ends(anc, u)
<1> DEFINE up == Climb(anc, u)
           len == Len(dfnVector)
           T == {n \in 0 .. N : \/ up[n] = Null
                                \/ \E i \in 1 .. len - n : up[n] = dfnVector[i]
                                \/ n = 0 /\ u \notin ToSet(dfnVector)}
<1>1. len \in Nat /\ DOMAIN dfnVector = 1 .. len /\ N \in Nat /\ N >= 1 /\ u \in Block0
  BY Types, Blocks
<1>2. len <= N
  <2>1. Len(Waiting) = 0
    BY DEF Waiting
  <2>2. len = Cardinality(visited) + 1
    BY <1>1, <2>1, Types DEF SearchOnce
  <2>3. visited \subseteq Block \ {entry} /\ Cardinality(Block \ {entry}) = N - 1
        /\ IsFiniteSet(Block \ {entry})
    BY Types, Blocks, FS_RemoveElement
  <2>4. Cardinality(visited) <= N - 1
    BY <2>3, FS_Subset
  <2> QED BY <1>1, <2>2, <2>4, Types
<1>3. /\ up \in [0 .. N -> Block0] /\ up[0] = u
      /\ \A n \in 1 .. N : up[n] = IF up[n - 1] = Null THEN Null ELSE anc[up[n - 1]]
  BY <1>1, ClimbSteps
<1> HIDE DEF up, len
<1>4. ASSUME NEW c \in Block0, c \notin ToSet(dfnVector) PROVE anc[c] = Null
  <2>1. c \notin visited
    <3>1. ToSet(dfnVector) \cup ToSet(Waiting) = visited \cup {entry}
      BY DEF SearchOnce
    <3>2. ToSet(Waiting) = {}
      BY DEF Waiting, ToSet
    <3> QED BY <1>4, <3>1, <3>2
  <2>2. parent[c] = Null
    BY <2>1 DEF SearchTree
  <2> QED BY <2>2
<1>5. ASSUME NEW i \in 1 .. len
      PROVE  anc[dfnVector[i]] = Null \/ \E j \in 1 .. i - 1 : anc[dfnVector[i]] = dfnVector[j]
  <2>1. dfnVector[i] \in Block0
    <3>1. dfnVector \in Seq(Block) /\ i \in 1 .. Len(dfnVector)
      BY Types DEF len
    <3>2. dfnVector[i] \in Block
      BY <3>1, LenProperties
    <3> QED BY <3>2, Blocks
  <2>2. CASE i = 1
    <3>1. dfnVector # <<>>
      BY <1>1 DEF len
    <3>2. dfnVector[i] = entry
      BY <2>2, <3>1 DEF SearchTree
    <3>3. parent[entry] = Null
      BY <2>1, <3>2 DEF SearchTree
    <3> QED BY <2>1, <3>2, <3>3
  <2>3. CASE i # 1
    <3>1. i \in 2 .. len
      BY <1>1, <2>3
    <3>2. \E j \in 1 .. i - 1 : parent[dfnVector[i]] = dfnVector[j]
      BY <3>1 DEF SearchTree, len
    <3> QED BY <2>1, <3>2
  <2> QED BY <2>2, <2>3
<1>6. 0 \in T
  <2>1. CASE u \in ToSet(dfnVector)
    <3>1. PICK i \in 1 .. len : u = dfnVector[i]
      BY <1>1, <2>1 DEF ToSet
    <3>2. i \in 1 .. len - 0
      BY <1>1
    <3> QED BY <1>1, <1>3, <3>1, <3>2
  <2>2. CASE u \notin ToSet(dfnVector)
    BY <1>1, <2>2
  <2> QED BY <2>1, <2>2
<1>7. ASSUME NEW n \in 0 .. N - 1, n \in T PROVE n + 1 \in T
  <2>1. n + 1 \in 1 .. N /\ n + 1 \in 0 .. N /\ (n + 1) - 1 = n /\ n \in 0 .. N
    BY <1>1
  <2>2. up[n + 1] = IF up[n] = Null THEN Null ELSE anc[up[n]]
    BY <1>3, <2>1
  <2>3. CASE up[n] = Null
    BY <2>1, <2>2, <2>3
  <2>4. CASE \E i \in 1 .. len - n : up[n] = dfnVector[i]
    <3>1. PICK i \in 1 .. len - n : up[n] = dfnVector[i]
      BY <2>4
    <3>2. i \in 1 .. len
      BY <1>1, <2>1
    <3>3. \A j \in 1 .. i - 1 : j \in 1 .. len - (n + 1)
      BY <1>1, <2>1
    <3>4. up[n + 1] = Null \/ \E j \in 1 .. i - 1 : up[n + 1] = dfnVector[j]
      BY <1>5, <2>2, <3>1, <3>2
    <3> QED BY <2>1, <3>3, <3>4
  <2>5. CASE n = 0 /\ u \notin ToSet(dfnVector)
    <3>1. up[n + 1] = Null
      BY <1>1, <1>3, <1>4, <2>2, <2>5
    <3> QED BY <2>1, <3>1
  <2> QED BY <1>7, <2>3, <2>4, <2>5
<1>8. N \in T
  <2>1. \A n \in 0 .. N : n \in T
    BY <1>1, <1>6, <1>7, UpTo
  <2> QED BY <1>1, <2>1
<1>9. up[N] = Null
  BY <1>1, <1>2, <1>8
<1> QED BY <1>9 DEF Ends, up

(* The facts the other loops leave alone.                                   *)
LEMMA SearchStays ==
  ASSUME DTTypeOK, SearchOnce, SearchTree,
         pc # "dfs" \/ worklist = <<>>, pc' # "dfs",
         UNCHANGED <<entry, succ, visited, dfnVector, parent>>
  PROVE  SearchOnce' /\ SearchTree'
<1>1. Waiting = <<>> /\ Waiting' = <<>>
  BY DEF Waiting
<1>2. SearchOnce'
  BY <1>1 DEF SearchOnce
<1>3. dfnVector # <<>>
  BY DEF SearchTree
<1>4. SearchTree'
  BY <1>1, <1>3 DEF SearchTree
<1> QED BY <1>2, <1>4

(* The search is over.                                                        *)
LEMMA VisitDoneInv == ASSUME DTInv, VisitDone PROVE DTInv'
<1> USE DEF DTInv, VisitDone
<1>1. SearchOnce' /\ SearchTree'
  BY SearchStays
<1>2. DTTypeOK'
  <2>1. Len(dfnVector) <= N + 1 /\ Len(dfnVector) \in Nat /\ N \in Nat
    BY Types, Blocks DEF DTTypeOK
  <2>2. next' \in 0 .. N + 2
    BY <2>1
  <2> QED BY <2>2 DEF DTTypeOK
<1>3. LinksFollowTheSearch' /\ Counters' /\ DepthsFollowTheTree' /\ QueueIsTheFringe'
  <2>1. next' <= Len(dfnVector')
    BY Types
  <2> QED BY <2>1 DEF LinksFollowTheSearch, Counters, DepthsFollowTheTree, QueueIsTheFringe
<1> QED BY <1>1, <1>2, <1>3

(* A block of the semidominator loop. If eval is lost the chain has no end,   *)
(* and by ChainsEnd the entry was met again.                                  *)
LEMMA SemiDominatorInv == ASSUME DTInv, SemiDominator PROVE DTInv'
<1> DEFINE b == dfnVector[next]
           p == parent[b]
           sd == [sdom EXCEPT ![b] = SemiOf(b)]
           anc == Link(b)
           bkt == [bucket EXCEPT ![sd[b]] = @ \cup {b}]
           done == IF p = Null THEN {} ELSE bkt[p]
<1>t. DTTypeOK /\ SearchOnce /\ SearchTree /\ LinksFollowTheSearch /\ DepthsFollowTheTree /\ Counters
  BY DEF DTInv
<1>1. /\ pc = "sdom" /\ next > 0
      /\ UNCHANGED <<entry, succ, worklist, visited, dfnVector, parent, nodeDepthMap>>
      /\ \/ /\ (\E q \in Preds(b) : ~Ends(ancestor, q)) \/ (\E v \in done : ~Ends(anc, v))
            /\ pc' = "diverged" /\ UNCHANGED <<next, ancestor, sdom, bucket, idomMap>>
         \/ /\ sdom' = sd
            /\ ancestor' = anc
            /\ bucket' = IF p = Null THEN bkt ELSE [bkt EXCEPT ![p] = {}]
            /\ idomMap' = [v \in Block0 |->
                 IF v \in done
                 THEN IF sd[Eval(anc, sd, v)] < sd[v] THEN Eval(anc, sd, v) ELSE p
                 ELSE idomMap[v]]
            /\ next' = next - 1
            /\ UNCHANGED pc
  BY DEF SemiDominator
<1>2. b \in Block /\ b \in Block0 /\ p \in Block0
  <2>1. next \in 1 .. Len(dfnVector)
    BY <1>t, <1>1, Types DEF Counters
  <2>2. dfnVector[next] \in Block
    BY <1>t, <2>1, Types, LenProperties
  <2> QED BY <1>t, <2>2, Types, Blocks
<1>3. sd \in [Block0 -> Block0] /\ sd[b] \in Block0
  BY <1>t, <1>2, Types, SemiIsABlock
<1>4. /\ anc \in [Block0 -> Block0]
      /\ \A c \in Block0 : anc[c] = Null \/ anc[c] = parent[c]
  BY <1>t, <1>1, <1>2, Types DEF Link, LinksFollowTheSearch
<1> HIDE DEF b, sd, anc
<1>5. bkt \in [Block0 -> SUBSET Block] /\ done \subseteq Block
  BY <1>t, <1>2, <1>3, Types
<1> HIDE DEF p, bkt, done
<1>6. SearchOnce' /\ SearchTree'
  <2>1. pc # "dfs" /\ pc' # "dfs"
    BY <1>1
  <2> QED BY <1>t, <1>1, <2>1, SearchStays
<1>7. DTTypeOK'
  <2>1. CASE pc' = "diverged" /\ UNCHANGED <<next, ancestor, sdom, bucket, idomMap>>
    BY <1>t, <1>1, <2>1 DEF DTTypeOK
  <2>2. CASE /\ sdom' = sd
             /\ ancestor' = anc
             /\ bucket' = IF p = Null THEN bkt ELSE [bkt EXCEPT ![p] = {}]
             /\ idomMap' = [v \in Block0 |->
                  IF v \in done
                  THEN IF sd[Eval(anc, sd, v)] < sd[v] THEN Eval(anc, sd, v) ELSE p
                  ELSE idomMap[v]]
             /\ next' = next - 1
             /\ UNCHANGED pc
    <3>1. bucket' \in [Block0 -> SUBSET Block]
      BY <1>5, <2>2
    <3>2. \A v \in done : Eval(anc, sd, v) \in Block0
      BY <1>3, <1>4, <1>5, EvalIsABlock, Blocks
    <3>3. idomMap' \in [Block0 -> Block0]
      BY <1>t, <1>2, <2>2, <3>2, Types
    <3>4. next' \in 0 .. N + 2
      BY <1>t, <1>1, <2>2, Blocks DEF DTTypeOK
    <3>5. {parent', ancestor', sdom', idomMap'} \subseteq [Block0 -> Block0]
      BY <1>t, <1>1, <1>3, <1>4, <2>2, <3>3, Types
    <3> QED BY <1>t, <1>1, <2>2, <3>1, <3>4, <3>5 DEF DTTypeOK
  <2> QED BY <1>1, <2>1, <2>2
<1>8. LinksFollowTheSearch'
  <2>1. \A c \in Block0 : ancestor'[c] = Null \/ ancestor'[c] = parent'[c]
    <3>1. \A c \in Block0 : ancestor[c] = Null \/ ancestor[c] = parent[c]
      BY <1>t DEF LinksFollowTheSearch
    <3>2. ancestor' = ancestor \/ ancestor' = anc
      BY <1>1
    <3> QED BY <1>1, <1>4, <3>1, <3>2
  <2>2. ASSUME pc' = "diverged", entry \notin visited PROVE FALSE
    <3>1. \A q \in Preds(b) : Ends(ancestor, q)
      <4>1. /\ ancestor \in [Block0 -> Block0] /\ pc # "dfs"
            /\ \A c \in Block0 : ancestor[c] = Null \/ ancestor[c] = parent[c]
        BY <1>t, <1>1, Types DEF LinksFollowTheSearch
      <4> QED BY <1>t, <2>2, <4>1, ChainsEnd DEF Preds
    <3>2. \A v \in done : Ends(anc, v)
      <4>1. pc # "dfs"
        BY <1>1
      <4> QED BY <1>t, <1>4, <1>5, <2>2, <4>1, ChainsEnd
    <3> QED BY <1>1, <2>2, <3>1, <3>2
  <2> QED BY <1>1, <2>1, <2>2 DEF LinksFollowTheSearch
<1>9. Counters'
  <2>1. pc' = "sdom" => next' <= Len(dfnVector')
    BY <1>t, <1>1, Types DEF Counters
  <2> QED BY <1>1, <2>1 DEF Counters
<1>10. DepthsFollowTheTree' /\ QueueIsTheFringe'
  <2>1. pc' \notin {"depth", "done"} /\ pc \notin {"depth", "done"} /\ nodeDepthMap' = nodeDepthMap
    BY <1>1
  <2> QED BY <1>t, <2>1 DEF DepthsFollowTheTree, QueueIsTheFringe
<1> QED BY <1>6, <1>7, <1>8, <1>9, <1>10 DEF DTInv

(* The semidominator loop is over.                                            *)
LEMMA SemiDominatorsDoneInv == ASSUME DTInv, SemiDominatorsDone PROVE DTInv'
<1> USE DEF DTInv, SemiDominatorsDone
<1>1. SearchOnce' /\ SearchTree'
  BY SearchStays
<1>2. DTTypeOK'
  BY Blocks DEF DTTypeOK
<1>3. LinksFollowTheSearch' /\ Counters' /\ DepthsFollowTheTree' /\ QueueIsTheFringe'
  BY DEF LinksFollowTheSearch, Counters, DepthsFollowTheTree, QueueIsTheFringe
<1> QED BY <1>1, <1>2, <1>3

(* A block of the second pass.                                                *)
LEMMA ImmediateDominatorInv == ASSUME DTInv, ImmediateDominator PROVE DTInv'
<1> DEFINE b == dfnVector[next]
           d == IF idomMap[b] = sdom[b] THEN idomMap[b] ELSE idomMap[idomMap[b]]
<1>t. DTTypeOK /\ SearchOnce /\ SearchTree /\ LinksFollowTheSearch /\ DepthsFollowTheTree /\ Counters
  BY DEF DTInv
<1>1. /\ pc = "idom" /\ next <= Len(dfnVector)
      /\ idomMap' = [idomMap EXCEPT ![b] = d] /\ next' = next + 1
      /\ UNCHANGED <<entry, succ, pc, worklist, visited, dfnVector, parent, ancestor,
                     sdom, bucket, nodeDepthMap>>
  BY DEF ImmediateDominator
<1>2. b \in Block /\ b \in Block0
  <2>1. next \in 1 .. Len(dfnVector)
    BY <1>t, <1>1, Types DEF Counters
  <2>2. dfnVector[next] \in Block
    BY <1>t, <2>1, Types, LenProperties
  <2> QED BY <2>2, Blocks
<1> HIDE DEF b
<1>3. d \in Block0
  BY <1>t, <1>2, Types
<1> HIDE DEF d
<1>4. SearchOnce' /\ SearchTree'
  <2>1. pc # "dfs" /\ pc' # "dfs"
    BY <1>1
  <2> QED BY <1>t, <1>1, <2>1, SearchStays
<1>5. DTTypeOK'
  <2>1. idomMap' \in [Block0 -> Block0]
    BY <1>t, <1>1, <1>3, Types
  <2>2. next' \in 0 .. N + 2
    BY <1>t, <1>1, Types, Blocks DEF DTTypeOK
  <2>3. {parent', ancestor', sdom', idomMap'} \subseteq [Block0 -> Block0]
    BY <1>t, <1>1, <2>1, Types
  <2> QED BY <1>t, <1>1, <2>2, <2>3 DEF DTTypeOK
<1>6. LinksFollowTheSearch' /\ DepthsFollowTheTree' /\ QueueIsTheFringe'
  BY <1>t, <1>1 DEF LinksFollowTheSearch, DepthsFollowTheTree, QueueIsTheFringe
<1>7. Counters'
  BY <1>t, <1>1, Types DEF Counters
<1> QED BY <1>4, <1>5, <1>6, <1>7 DEF DTInv

(* The second pass is over, the depth pass starts at the entry.               *)
LEMMA ImmediateDominatorsDoneInv == ASSUME DTInv, ImmediateDominatorsDone PROVE DTInv'
<1> USE DEF DTInv, ImmediateDominatorsDone
<1>1. SearchOnce' /\ SearchTree'
  BY SearchStays
<1>2. DTTypeOK'
  <2>1. idomMap' \in [Block0 -> Block0]
    BY Types, Blocks
  <2>2. worklist' \in Seq(Block)
    BY Types
  <2>3. {parent', ancestor', sdom', idomMap'} \subseteq [Block0 -> Block0]
    BY <2>1, Types
  <2> QED BY <2>2, <2>3 DEF DTTypeOK
<1>3. LinksFollowTheSearch' /\ Counters'
  BY DEF LinksFollowTheSearch, Counters
<1>4. \A b \in Block0 : nodeDepthMap'[b] = 0
  BY DEF DepthsFollowTheTree
<1>5. DepthsFollowTheTree'
  <2>1. idomMap'[entry'] = Null
    BY Types, Blocks
  <2> QED BY <1>4, <2>1, Blocks DEF DepthsFollowTheTree
<1>6. QueueIsTheFringe'
  <2>1. IsInjective(<<entry>>) /\ ToSet(<<entry>>) = {entry}
    BY DEF IsInjective, ToSet
  <2>2. nodeDepthMap'[entry] = 0
    BY <1>4, Types, Blocks
  <2> QED BY <2>1, <2>2 DEF QueueIsTheFringe
<1> QED BY <1>1, <1>2, <1>3, <1>5, <1>6

(* A block of the depth pass gets its depth, and its children are queued:     *)
(* they have no depth, and were not queued before, because only their idom    *)
(* queues them and it has left the queue.                                     *)
LEMMA DepthInv == ASSUME DTInv, Depth PROVE DTInv'
<1> DEFINE b == Head(worklist)
           rest == Tail(worklist)
           kids == Children(b)
           d == nodeDepthMap[idomMap[b]] + 1
<1>t. DTTypeOK /\ SearchOnce /\ SearchTree /\ LinksFollowTheSearch /\ DepthsFollowTheTree /\ QueueIsTheFringe
  BY DEF DTInv
<1>1. /\ pc = "depth" /\ worklist # <<>>
      /\ nodeDepthMap' = [nodeDepthMap EXCEPT ![b] = d]
      /\ worklist' = rest \o SetToSeq(kids)
      /\ UNCHANGED <<entry, succ, pc, visited, dfnVector, next, parent, ancestor, sdom,
                     bucket, idomMap>>
  BY DEF Depth
<1>2. /\ b \in Block /\ rest \in Seq(Block) /\ ToSet(worklist) = ToSet(rest) \cup {b}
      /\ IsInjective(rest) /\ b \notin ToSet(rest)
  <2>1. worklist \in Seq(Block) /\ IsInjective(worklist)
    BY <1>t, <1>1, Types DEF QueueIsTheFringe
  <2> QED BY <1>1, <2>1, TailNodes
<1>3. kids = {c \in Block : idomMap[c] = b} /\ kids \subseteq Block /\ IsFiniteSet(kids)
  <2>1. kids = {c \in Block : idomMap[c] = b}
    BY DEF Children
  <2> QED BY <2>1, Blocks, FS_Subset
<1> HIDE DEF b, rest, kids
<1>4. SetToSeq(kids) \in Seq(Block) /\ ToSet(SetToSeq(kids)) = kids /\ IsInjective(SetToSeq(kids))
  BY <1>3, SetToSeqNodes, SeqMonotonic
<1>5. /\ nodeDepthMap \in [Block0 -> Nat] /\ idomMap \in [Block0 -> Block0] /\ entry \in Block
      /\ d \in Nat /\ d > 0
  <2>1. nodeDepthMap \in [Block0 -> 0 .. N] /\ idomMap \in [Block0 -> Block0] /\ N \in Nat /\ entry \in Block
    BY <1>t, Types, Blocks
  <2>2. idomMap[b] \in Block0
    BY <1>2, <2>1, Blocks
  <2>3. nodeDepthMap[idomMap[b]] \in Nat
    BY <2>1, <2>2
  <2> QED BY <2>1, <2>3
<1>6. /\ idomMap[entry] = Null /\ nodeDepthMap[Null] = 0
      /\ \A c \in Block : nodeDepthMap[c] > 0 =>
           /\ nodeDepthMap[c] = nodeDepthMap[idomMap[c]] + 1
           /\ c = entry \/ nodeDepthMap[idomMap[c]] > 0
  BY <1>t, <1>1 DEF DepthsFollowTheTree
<1>7. \A c \in ToSet(worklist) :
        nodeDepthMap[c] = 0 /\ (c = entry \/ nodeDepthMap[idomMap[c]] > 0)
  BY <1>t, <1>1 DEF QueueIsTheFringe
<1>8. nodeDepthMap[b] = 0 /\ (b = entry \/ nodeDepthMap[idomMap[b]] > 0)
  BY <1>2, <1>7
<1>9. /\ idomMap[b] # b
      /\ \A c \in Block : nodeDepthMap[c] > 0 => idomMap[c] # b
  <2>1. idomMap[b] # b
    BY <1>2, <1>6, <1>8, Blocks
  <2>2. ASSUME NEW c \in Block, nodeDepthMap[c] > 0, idomMap[c] = b PROVE FALSE
    <3>1. c = entry
      BY <1>6, <1>8, <2>2
    <3> QED BY <1>2, <1>6, <2>2, <3>1, Blocks
  <2> QED BY <2>1, <2>2
<1>10. /\ nodeDepthMap'[b] = d
       /\ \A c \in Block0 : c # b => nodeDepthMap'[c] = nodeDepthMap[c]
  BY <1>1, <1>2, <1>5, Blocks
<1> HIDE DEF d
<1>11. /\ idomMap'[entry'] = Null /\ nodeDepthMap'[Null] = 0
       /\ \A c \in Block : nodeDepthMap'[c] > 0 =>
            /\ nodeDepthMap'[c] = nodeDepthMap'[idomMap'[c]] + 1
            /\ c = entry' \/ nodeDepthMap'[idomMap'[c]] > 0
  <2>1. idomMap' = idomMap /\ entry' = entry
    BY <1>1
  <2>2. nodeDepthMap'[Null] = 0
    BY <1>2, <1>6, <1>10, Blocks
  <2>3. ASSUME NEW c \in Block, nodeDepthMap'[c] > 0
        PROVE  /\ nodeDepthMap'[c] = nodeDepthMap'[idomMap[c]] + 1
               /\ c = entry \/ nodeDepthMap'[idomMap[c]] > 0
    <3>1. idomMap[c] \in Block0 /\ c \in Block0
      BY <1>5, Blocks
    <3>2. CASE c = b
      BY <1>8, <1>9, <1>10, <3>1, <3>2 DEF d
    <3>3. CASE c # b
      <4>1. nodeDepthMap[c] > 0
        BY <1>10, <2>3, <3>1, <3>3
      <4>2. idomMap[c] # b
        BY <1>9, <4>1
      <4> QED BY <1>6, <1>10, <3>1, <3>3, <4>1, <4>2
    <3> QED BY <3>2, <3>3
  <2> QED BY <1>6, <2>1, <2>2, <2>3
<1>12. DepthsFollowTheTree'
  BY <1>1, <1>11 DEF DepthsFollowTheTree
<1>13. nodeDepthMap' \in [Block0 -> 0 .. N]
  <2>1. \A c \in Block0 : nodeDepthMap'[c] \in Nat
    BY <1>5, <1>10
  <2>2. ASSUME NEW c \in Block, nodeDepthMap'[c] > 1
        PROVE  \E e \in Block : nodeDepthMap'[e] = nodeDepthMap'[c] - 1
    <3>1. idomMap[c] \in Block0 /\ idomMap' = idomMap /\ c \in Block0
      BY <1>1, <1>5, Blocks
    <3>2. nodeDepthMap'[c] = nodeDepthMap'[idomMap[c]] + 1
      BY <1>11, <2>1, <2>2, <3>1
    <3>3. nodeDepthMap'[idomMap[c]] = nodeDepthMap'[c] - 1 /\ nodeDepthMap'[idomMap[c]] > 0
      BY <2>1, <2>2, <3>1, <3>2
    <3>4. idomMap[c] # Null
      BY <1>11, <3>3
    <3> QED BY <3>1, <3>3, <3>4, Blocks
  <2>3. \A c \in Block : nodeDepthMap'[c] <= N
    <3>1. \A c \in Block : nodeDepthMap'[c] \in Nat
      BY <2>1, Blocks
    <3>2. \A c \in Block : nodeDepthMap'[c] > 1 => \E e \in Block : nodeDepthMap'[e] = nodeDepthMap'[c] - 1
      BY <2>2
    <3> QED BY <3>1, <3>2, DepthsAreFew
  <2>4. \A c \in Block0 : nodeDepthMap'[c] \in 0 .. N
    <3> SUFFICES ASSUME NEW c \in Block0 PROVE nodeDepthMap'[c] \in 0 .. N
      OBVIOUS
    <3>1. CASE c = Null
      BY <1>11, <3>1, Blocks
    <3>2. CASE c \in Block
      BY <2>1, <2>3, <3>2, Blocks
    <3> QED BY <3>1, <3>2, Blocks
  <2>5. DOMAIN nodeDepthMap' = Block0 /\ nodeDepthMap' = [c \in Block0 |-> nodeDepthMap'[c]]
    BY <1>1, <1>5
  <2> QED BY <2>4, <2>5
<1>14. worklist' \in Seq(Block) /\ ToSet(worklist') = ToSet(rest) \cup kids
  BY <1>1, <1>2, <1>4, ConcatProperties, ConcatNodes
<1>15. DTTypeOK'
  BY <1>t, <1>1, <1>13, <1>14 DEF DTTypeOK
<1>16. ASSUME NEW c \in kids
       PROVE  c \in Block /\ c # b /\ c \notin ToSet(rest) /\ nodeDepthMap[c] = 0
  <2>1. c \in Block /\ idomMap[c] = b
    BY <1>3
  <2>2. c # b
    BY <1>9, <2>1
  <2>3. c # entry
    BY <1>2, <1>6, <2>1, Blocks
  <2>4. c \notin ToSet(worklist)
    BY <1>7, <1>8, <2>1, <2>3
  <2>5. ~(nodeDepthMap[c] > 0)
    BY <1>9, <2>1
  <2>6. nodeDepthMap[c] = 0
    BY <1>5, <2>1, <2>5, Blocks
  <2> QED BY <1>2, <2>1, <2>2, <2>4, <2>6
<1>17. QueueIsTheFringe'
  <2>1. IsInjective(worklist')
    <3>1. ToSet(rest) \cap ToSet(SetToSeq(kids)) = {}
      BY <1>4, <1>16
    <3> QED BY <1>1, <1>2, <1>4, <3>1, ConcatNodes
  <2>2. ASSUME NEW c \in ToSet(worklist')
        PROVE  nodeDepthMap'[c] = 0 /\ (c = entry' \/ nodeDepthMap'[idomMap'[c]] > 0)
    <3>1. idomMap' = idomMap /\ entry' = entry
      BY <1>1
    <3>2. CASE c \in ToSet(rest)
      <4>1. c \in Block /\ c \in Block0 /\ c # b /\ c \in ToSet(worklist)
        BY <1>2, <3>2, LenProperties, Blocks DEF ToSet
      <4>2. nodeDepthMap'[c] = 0
        BY <1>7, <1>10, <4>1
      <4>3. ASSUME c # entry PROVE nodeDepthMap'[idomMap[c]] > 0
        <5>1. nodeDepthMap[idomMap[c]] > 0 /\ idomMap[c] \in Block0
          BY <1>5, <1>7, <4>1, <4>3
        <5>2. idomMap[c] # b
          BY <1>8, <5>1
        <5> QED BY <1>10, <5>1, <5>2
      <4> QED BY <3>1, <4>2, <4>3
    <3>3. CASE c \in kids
      <4>1. nodeDepthMap'[c] = 0
        BY <1>10, <1>16, <3>3, Blocks
      <4>2. idomMap[c] = b
        BY <1>3, <3>3
      <4> QED BY <1>5, <1>10, <3>1, <4>1, <4>2
    <3> QED BY <1>14, <3>2, <3>3
  <2> QED BY <2>1, <2>2 DEF QueueIsTheFringe
<1>18. SearchOnce' /\ SearchTree'
  <2>1. pc # "dfs" /\ pc' # "dfs"
    BY <1>1
  <2> QED BY <1>t, <1>1, <2>1, SearchStays
<1>19. LinksFollowTheSearch' /\ Counters'
  BY <1>t, <1>1 DEF LinksFollowTheSearch, Counters
<1> QED BY <1>12, <1>15, <1>17, <1>18, <1>19 DEF DTInv

(* The depth pass is over.                                                    *)
LEMMA DepthDoneInv == ASSUME DTInv, DepthDone PROVE DTInv'
<1> USE DEF DTInv, DepthDone
<1>1. SearchOnce' /\ SearchTree'
  BY SearchStays
<1>2. DTTypeOK'
  BY DEF DTTypeOK
<1>3. LinksFollowTheSearch' /\ Counters' /\ QueueIsTheFringe'
  BY DEF LinksFollowTheSearch, Counters, QueueIsTheFringe
<1>4. DepthsFollowTheTree'
  BY DEF DepthsFollowTheTree
<1> QED BY <1>1, <1>2, <1>3, <1>4

(* Every step preserves the invariant; Mem2Reg's proof cites this, its        *)
(* analysis is these steps.                                                   *)
LEMMA DTNextInv == ASSUME DTInv, [DTNext]_dtvars PROVE DTInv'
<1>1. CASE UNCHANGED dtvars
  BY <1>1 DEF dtvars, DTInv, DTTypeOK, SearchOnce, SearchTree, LinksFollowTheSearch, Counters,
              DepthsFollowTheTree, QueueIsTheFringe, Waiting
<1> QED BY <1>1, VisitInv, VisitDoneInv, SemiDominatorInv, SemiDominatorsDoneInv,
           ImmediateDominatorInv, ImmediateDominatorsDoneInv, DepthInv, DepthDoneInv DEF DTNext

(* The invariant holds throughout.                                            *)
LEMMA DTInvariant == DTSpec => []DTInv
<1>1. DTInit => DTInv
  BY InitInv
<1>2. DTInv /\ [DTNext]_dtvars => DTInv'
  BY DTNextInv
<1> QED BY <1>1, <1>2, PTL DEF DTSpec

(* DTTypeOK: the maps of DominatorTree.cpp hold blocks and null only, the     *)
(* search numbers every block at most once and the entry twice, no depth is   *)
(* above the number of blocks.                                                *)
THEOREM DomTreeTypes == DTSpec => []DTTypeOK
<1>1. DTInv => DTTypeOK
  BY DEF DTInv
<1> QED BY <1>1, DTInvariant, PTL

(* A chain that has ended does not go on.                                   *)
LEMMA NullStays ==
  ASSUME NEW anc \in [Block0 -> Block0], NEW u \in Block0, NEW m \in 0 .. N, Climb(anc, u)[m] = Null
  PROVE  \A n \in m .. N : Climb(anc, u)[n] = Null
<1> DEFINE up == Climb(anc, u)
           T == {k \in 0 .. N - m : up[m + k] = Null}
<1>1. N \in Nat /\ m \in Nat /\ N - m \in Nat
  BY Blocks
<1>2. \A n \in 1 .. N : up[n] = IF up[n - 1] = Null THEN Null ELSE anc[up[n - 1]]
  BY ClimbSteps
<1>3. up[m] = Null
  OBVIOUS
<1> HIDE DEF up
<1>4. 0 \in T
  BY <1>1, <1>3
<1>5. ASSUME NEW k \in 0 .. (N - m) - 1, k \in T PROVE k + 1 \in T
  <2>1. m + (k + 1) \in 1 .. N /\ (m + (k + 1)) - 1 = m + k /\ k + 1 \in 0 .. N - m
    BY <1>1
  <2>2. up[m + (k + 1)] = Null
    BY <1>2, <1>5, <2>1
  <2> QED BY <2>1, <2>2
<1>6. \A k \in 0 .. N - m : k \in T
  BY <1>1, <1>4, <1>5, UpTo
<1>7. ASSUME NEW n \in m .. N PROVE up[n] = Null
  <2>1. n - m \in 0 .. N - m /\ m + (n - m) = n
    BY <1>1
  <2> QED BY <1>6, <2>1
<1> QED BY <1>7 DEF up

(* A block n above b in the tree is n less deep.                            *)
LEMMA HigherIsLessDeep ==
  ASSUME DTTypeOK, DepthsFollowTheTree, pc \in {"depth", "done"},
         NEW b \in Block, nodeDepthMap[b] > 0, NEW n \in 0 .. N
  PROVE  LET c == Climb(idomMap, b)[n] IN
           c = Null \/ (c \in Block /\ nodeDepthMap[c] > 0 /\ nodeDepthMap[c] = nodeDepthMap[b] - n)
<1> DEFINE up == Climb(idomMap, b)
           Good(i) == up[i] = Null \/ (up[i] \in Block /\ nodeDepthMap[up[i]] > 0
                                       /\ nodeDepthMap[up[i]] = nodeDepthMap[b] - i)
           T == {i \in 0 .. N : Good(i)}
<1>1. N \in Nat /\ idomMap \in [Block0 -> Block0] /\ b \in Block0 /\ nodeDepthMap \in [Block0 -> 0 .. N]
  BY Types, Blocks
<1>2. up \in [0 .. N -> Block0] /\ up[0] = b
      /\ \A i \in 1 .. N : up[i] = IF up[i - 1] = Null THEN Null ELSE idomMap[up[i - 1]]
  BY <1>1, ClimbSteps
<1> HIDE DEF up
<1>3. \A c \in Block : nodeDepthMap[c] \in Nat
  BY <1>1, Blocks
<1>4. Good(0)
  BY <1>2, <1>3
<1>5. ASSUME NEW i \in 0 .. N - 1, Good(i) PROVE Good(i + 1)
  <2>1. i + 1 \in 1 .. N /\ (i + 1) - 1 = i /\ i \in 0 .. N
    BY <1>1
  <2>2. up[i + 1] = IF up[i] = Null THEN Null ELSE idomMap[up[i]]
    BY <1>2, <2>1
  <2>3. CASE up[i] = Null
    BY <2>2, <2>3
  <2>4. CASE up[i] # Null /\ up[i + 1] # Null
    <3> DEFINE c == up[i]
               e == up[i + 1]
    <3>1. c \in Block /\ nodeDepthMap[c] > 0 /\ nodeDepthMap[c] = nodeDepthMap[b] - i
      BY <1>5, <2>4
    <3>2. e = idomMap[c] /\ e \in Block
      <4>1. i + 1 \in 0 .. N
        BY <1>1, <2>1
      <4>2. e \in Block0
        BY <1>2, <4>1
      <4>3. e # Null
        BY <2>4
      <4>4. e \in Block
        BY <4>2, <4>3, Blocks
      <4> QED BY <2>2, <2>4, <4>4
    <3> HIDE DEF c, e
    <3>3. nodeDepthMap[c] = nodeDepthMap[e] + 1 /\ nodeDepthMap[e] \in Nat
      BY <1>3, <3>1, <3>2 DEF DepthsFollowTheTree
    <3>4. c # entry
      BY <2>4, <3>2 DEF DepthsFollowTheTree, e
    <3>5. nodeDepthMap[e] > 0
      BY <3>1, <3>2, <3>4 DEF DepthsFollowTheTree
    <3>6. nodeDepthMap[e] = nodeDepthMap[b] - (i + 1)
      BY <1>3, <3>1, <3>3
    <3> QED BY <3>2, <3>5, <3>6 DEF e
  <2> QED BY <2>3, <2>4
<1> HIDE DEF Good
<1>6. \A i \in 0 .. N : i \in T
  <2>1. 0 \in T
    BY <1>1, <1>4
  <2>2. \A i \in 0 .. N - 1 : i \in T => i + 1 \in T
    BY <1>1, <1>5
  <2> QED BY <1>1, <2>1, <2>2, UpTo
<1>7. Good(n)
  BY <1>6
<1> QED BY <1>7 DEF Good, up

(* A climb that goes by depths sees the whole chain.                        *)
LEMMA DominatesByDepth ==
  ASSUME DTInv
  PROVE  DominatesIsAncestry
<1>1. SUFFICES ASSUME pc = "done", NEW a \in Block, NEW b \in Block,
                      nodeDepthMap[a] > 0, nodeDepthMap[b] > 0,
                      NEW n \in 1 .. N, Climb(idomMap, b)[n] = a,
                      NEW m \in 1 .. n
               PROVE  /\ Climb(idomMap, b)[m] # Null
                      /\ nodeDepthMap[Climb(idomMap, b)[m]] >= nodeDepthMap[a]
  BY DEF DominatesIsAncestry, Dominates
<1> DEFINE up == Climb(idomMap, b)
<1>2. DTTypeOK /\ DepthsFollowTheTree
  BY DEF DTInv
<1>3. N \in Nat /\ idomMap \in [Block0 -> Block0] /\ a # Null /\ b \in Block0
      /\ nodeDepthMap[b] \in Nat
  BY <1>2, Types, Blocks
<1>4. n \in 0 .. N /\ m \in 0 .. N /\ n \in m .. N
  BY <1>3
<1>5. up[m] # Null
  BY <1>1, <1>3, <1>4, NullStays
<1>6. nodeDepthMap[up[m]] = nodeDepthMap[b] - m
  BY <1>1, <1>2, <1>4, <1>5, HigherIsLessDeep
<1>7. nodeDepthMap[a] = nodeDepthMap[b] - n
  BY <1>1, <1>2, <1>3, <1>4, HigherIsLessDeep
<1> HIDE DEF up
<1>8. nodeDepthMap[up[m]] >= nodeDepthMap[a]
  BY <1>3, <1>6, <1>7
<1> QED BY <1>5, <1>8 DEF up

(* DominatesIsAncestry: dominates(a, b), which compares depths only and       *)
(* stops as soon as the depths say no, answers whether a is above b in the    *)
(* tree.                                                                      *)
THEOREM DominatesClimbsTheTree == DTSpec => []DominatesIsAncestry
<1>1. DTInv => DominatesIsAncestry
  BY DominatesByDepth
<1> QED BY <1>1, DTInvariant, PTL

(* reach[n] is reached from the entry in n edges that avoid a.                *)
ReachSolves(reach, a) ==
  /\ ReachedWithout(a) = reach[N]
  /\ reach[0] = {entry} \ {a}
  /\ \A n \in 1 .. N : reach[n] = reach[n - 1] \cup
                         UNION {ToSet(succ[b]) \ {a} : b \in reach[n - 1]}

LEMMA ReachSteps ==
  ASSUME DTTypeOK, NEW a
  PROVE  \E reach \in [0 .. N -> SUBSET Block] : ReachSolves(reach, a)
<1> DEFINE More(X) == X \cup UNION {ToSet(succ[b]) \ {a} : b \in X}
           g == [X \in SUBSET Block |-> More(X)]
           start == {entry} \ {a}
           Body(r) == [n \in 0 .. N |-> IF n = 0 THEN start ELSE More(r[n - 1])]
           reach == CHOOSE r : r = Body(r)
<1>1. ReachedWithout(a) = reach[N]
  BY DEF ReachedWithout, ReachedFrom
<1>2. \A X \in SUBSET Block : More(X) \in SUBSET Block
  <2>1. \A b \in Block : ToSet(succ[b]) \subseteq Block
    BY Types, LenProperties DEF ToSet
  <2> QED BY <2>1
<1>3. N \in Nat /\ start \in SUBSET Block /\ g \in [SUBSET Block -> SUBSET Block]
  BY <1>2, Types, Blocks
<1> HIDE DEF g, start
<1>4. PICK f \in [0 .. N -> SUBSET Block] : Iterates(f, g, start, N)
  BY <1>3, IterationExists
<1> USE DEF g, Iterates
<1> HIDE DEF More
<1>5. ASSUME NEW n \in 0 .. N PROVE f[n] = IF n = 0 THEN start ELSE More(f[n - 1])
  <2>1. CASE n = 0
    BY <1>4, <2>1
  <2>2. CASE n # 0
    <3>1. n \in 1 .. N /\ n - 1 \in 0 .. N
      BY <1>3, <2>2
    <3>2. f[n] = g[f[n - 1]] /\ f[n - 1] \in SUBSET Block
      BY <1>4, <3>1
    <3> QED BY <2>2, <3>2
  <2> QED BY <2>1, <2>2
<1>6. f = Body(f)
  BY <1>5
<1> HIDE DEF Body
<1>7. reach = Body(reach)
  BY <1>6
<1> HIDE DEF reach
<1>8. reach[0] = start /\ \A n \in 1 .. N : reach[n] = More(reach[n - 1])
  <2>1. reach[0] = start
    BY <1>3, <1>7 DEF Body
  <2>2. ASSUME NEW n \in 1 .. N PROVE reach[n] = More(reach[n - 1])
    <3>1. n \in 0 .. N /\ n # 0
      BY <1>3
    <3> QED BY <1>7, <3>1 DEF Body
  <2> QED BY <2>1, <2>2
<1> HIDE DEF g, Iterates, start
<1>9. \A n \in 0 .. N : reach[n] \in SUBSET Block
  <2> DEFINE T == {n \in 0 .. N : reach[n] \in SUBSET Block}
  <2>1. 0 \in T
    BY <1>3, <1>8
  <2>2. ASSUME NEW n \in 0 .. N - 1, n \in T PROVE n + 1 \in T
    <3>1. n + 1 \in 1 .. N /\ (n + 1) - 1 = n /\ n + 1 \in 0 .. N
      BY <1>3
    <3>2. reach[n + 1] = More(reach[n]) /\ reach[n] \in SUBSET Block
      BY <1>8, <2>2, <3>1
    <3>3. reach[n + 1] \in SUBSET Block
      BY <1>2, <3>2
    <3> QED BY <3>1, <3>3
  <2> HIDE DEF T
  <2>3. \A n \in 0 .. N : n \in T
    BY <1>3, <2>1, <2>2, UpTo
  <2> QED BY <2>3 DEF T
<1>10. reach \in [0 .. N -> SUBSET Block]
  BY <1>7, <1>9 DEF Body
<1>11. ReachSolves(reach, a)
  BY <1>1, <1>8 DEF ReachSolves, More, start
<1> QED BY <1>10, <1>11

(* Every numbered block is reached.                                         *)
LEMMA NumberedIsReached ==
  ASSUME DTTypeOK, SearchTree, dfnVector # <<>>
  PROVE  ToSet(dfnVector) \subseteq Reached
<1>r. PICK reach \in [0 .. N -> SUBSET Block] : ReachSolves(reach, Null)
  BY ReachSteps
<1>1. /\ Reached = reach[N]
      /\ reach[0] = {entry} \ {Null}
      /\ \A n \in 1 .. N : reach[n] = reach[n - 1] \cup
                             UNION {ToSet(succ[b]) \ {Null} : b \in reach[n - 1]}
  BY <1>r DEF ReachSolves, Reached
<1> DEFINE len == Len(dfnVector)
           T == {n \in 0 .. N : \A i \in 1 .. len : i <= n + 1 => dfnVector[i] \in reach[n]}
<1>2. N \in Nat /\ len \in Nat /\ len <= N + 1 /\ entry \in Block /\ DOMAIN dfnVector = 1 .. len
      /\ dfnVector # <<>>
  BY Types, Blocks DEF DTTypeOK, SearchTree
<1>3. \A i \in 1 .. len : dfnVector[i] \in Block
  BY Types, LenProperties
<1>4. 0 \in T
  BY <1>1, <1>2, Blocks DEF SearchTree
<1>5. ASSUME NEW n \in 0 .. N - 1, n \in T PROVE n + 1 \in T
  <2>1. n + 1 \in 1 .. N /\ (n + 1) - 1 = n /\ n + 1 \in 0 .. N
    BY <1>2
  <2>2. reach[n + 1] = reach[n] \cup UNION {ToSet(succ[b]) \ {Null} : b \in reach[n]}
    BY <1>1, <2>1
  <2>3. ASSUME NEW i \in 1 .. len, i <= (n + 1) + 1 PROVE dfnVector[i] \in reach[n + 1]
    <3>1. CASE i <= n + 1
      BY <1>5, <2>2, <3>1
    <3>2. CASE i = (n + 1) + 1
      <4>1. i \in 2 .. len
        BY <1>2, <2>1, <3>2
      <4>2. dfnVector[i] \in visited
        BY <4>1 DEF SearchTree
      <4>3. PICK j \in 1 .. i - 1 : parent[dfnVector[i]] = dfnVector[j]
        BY <4>1 DEF SearchTree
      <4>4. j \in 1 .. len /\ j <= n + 1
        BY <1>2, <3>2, <4>1
      <4>5. dfnVector[j] \in reach[n]
        BY <1>5, <4>4
      <4>6. dfnVector[i] \in ToSet(succ[dfnVector[j]])
        BY <4>2, <4>3 DEF SearchTree
      <4>7. dfnVector[i] # Null
        BY <1>3, Blocks
      <4> QED BY <2>2, <4>5, <4>6, <4>7
    <3> QED BY <1>2, <2>1, <2>3, <3>1, <3>2
  <2> QED BY <2>1, <2>3
<1>6. N \in T
  <2>1. \A n \in 0 .. N : n \in T
    BY <1>2, <1>4, <1>5, UpTo
  <2> QED BY <1>2, <2>1
<1>7. \A i \in 1 .. len : dfnVector[i] \in Reached
  BY <1>1, <1>2, <1>6
<1> QED BY <1>2, <1>7 DEF ToSet

(* DivergesOnlyThroughTheEntry: eval's loop ends on every function whose      *)
(* entry block has no reached predecessor, whatever the graph is. The safety  *)
(* half of Terminates.                                                        *)
THEOREM EvalReturns == DTSpec => []DivergesOnlyThroughTheEntry
<1>1. ASSUME DTInv, pc = "diverged" PROVE EntryHasPreds
  <2>1. DTTypeOK /\ SearchTree /\ LinksFollowTheSearch
    BY <1>1 DEF DTInv
  <2>2. entry \in visited
    BY <1>1, <2>1 DEF LinksFollowTheSearch
  <2>3. PICK b \in ToSet(dfnVector) : entry \in ToSet(succ[b])
    BY <2>1, <2>2 DEF SearchTree
  <2>4. b \in Reached
    <3>1. dfnVector # <<>>
      BY <1>1, <2>1 DEF SearchTree
    <3> QED BY <2>1, <2>3, <3>1, NumberedIsReached
  <2>5. b \in Block
    BY <2>1, <2>3, Types, LenProperties DEF ToSet
  <2> QED BY <2>3, <2>4, <2>5 DEF EntryHasPreds, Preds
<1>2. DTInv => DivergesOnlyThroughTheEntry
  BY <1>1 DEF DivergesOnlyThroughTheEntry
<1> QED BY <1>2, DTInvariant, PTL

(* What is reached without a is closed under the edges that avoid a: the    *)
(* recursion adds a block in every one of its N steps until nothing is left *)
(* to add.                                                                  *)
LEMMA ReachClosed ==
  ASSUME DTTypeOK, NEW a
  PROVE  /\ ReachedWithout(a) \subseteq Block /\ a \notin ReachedWithout(a)
         /\ entry # a => entry \in ReachedWithout(a)
         /\ \A b \in ReachedWithout(a) : \A s \in ToSet(succ[b]) : s = a \/ s \in ReachedWithout(a)
<1> DEFINE More(X) == X \cup UNION {ToSet(succ[b]) \ {a} : b \in X}
           g == [X \in SUBSET Block |-> More(X)]
<1>1. PICK reach \in [0 .. N -> SUBSET Block] : ReachSolves(reach, a)
  BY ReachSteps
<1>2. /\ ReachedWithout(a) = reach[N]
      /\ reach[0] = {entry} \ {a}
      /\ \A n \in 1 .. N : reach[n] = More(reach[n - 1])
  BY <1>1 DEF ReachSolves
<1>3. N \in Nat /\ IsFiniteSet(Block) /\ Cardinality(Block) = N
  BY Blocks
<1>4. \A X \in SUBSET Block : More(X) \in SUBSET Block
  <2>1. \A b \in Block : ToSet(succ[b]) \subseteq Block
    BY Types, LenProperties DEF ToSet
  <2> QED BY <2>1
<1>5. g \in [SUBSET Block -> SUBSET Block]
  BY <1>4
<1>6. \A X, Y \in SUBSET Block : X \subseteq Y => g[X] \subseteq g[Y]
  OBVIOUS
<1>7. reach[0] \subseteq g[reach[0]] /\ \A n \in 1 .. N : reach[n] = g[reach[n - 1]]
  <2>1. \A n \in 0 .. N : g[reach[n]] = More(reach[n])
    OBVIOUS
  <2>2. \A n \in 1 .. N : n - 1 \in 0 .. N
    BY <1>3
  <2>3. 0 \in 0 .. N /\ reach[0] \subseteq More(reach[0])
    BY <1>3
  <2> HIDE DEF More, g
  <2> QED BY <1>2, <2>1, <2>2, <2>3
<1>8. g[reach[N]] = reach[N]
  <2> HIDE DEF g
  <2> QED BY <1>3, <1>5, <1>6, <1>7, Settles
<1>9. reach[N] \subseteq Block /\ More(reach[N]) = reach[N]
  BY <1>3, <1>8
<1>10. ASSUME NEW b \in reach[N], NEW s \in ToSet(succ[b]), s # a PROVE s \in reach[N]
  <2>1. s \in More(reach[N])
    BY <1>10
  <2> QED BY <1>9, <2>1
<1>11. a \notin reach[N] /\ (entry # a => entry \in reach[N])
  <2> DEFINE T == {n \in 0 .. N : a \notin reach[n] /\ (entry # a => entry \in reach[n])}
  <2>1. 0 \in T
    BY <1>2, <1>3
  <2>2. ASSUME NEW n \in 0 .. N - 1, n \in T PROVE n + 1 \in T
    <3>1. n + 1 \in 1 .. N /\ n + 1 \in 0 .. N /\ (n + 1) - 1 = n
      BY <1>3
    <3>2. reach[n + 1] = More(reach[n])
      BY <1>2, <3>1
    <3> QED BY <2>2, <3>1, <3>2
  <2> HIDE DEF T
  <2>3. N \in T
    <3>1. \A n \in 0 .. N : n \in T
      BY <1>3, <2>1, <2>2, UpTo
    <3> QED BY <1>3, <3>1
  <2> QED BY <2>3 DEF T
<1> QED BY <1>2, <1>9, <1>10, <1>11

(* It is the least such set with the entry.                                 *)
LEMMA ReachLeast ==
  ASSUME DTTypeOK, NEW a, NEW X, entry = a \/ entry \in X,
         \A b \in X : \A s \in ToSet(succ[b]) : s = a \/ s \in X
  PROVE  ReachedWithout(a) \subseteq X
<1>1. PICK reach \in [0 .. N -> SUBSET Block] : ReachSolves(reach, a)
  BY ReachSteps
<1>2. /\ ReachedWithout(a) = reach[N]
      /\ reach[0] = {entry} \ {a}
      /\ \A n \in 1 .. N : reach[n] = reach[n - 1] \cup UNION {ToSet(succ[b]) \ {a} : b \in reach[n - 1]}
  BY <1>1 DEF ReachSolves
<1>3. N \in Nat
  BY Blocks
<1> DEFINE T == {n \in 0 .. N : reach[n] \subseteq X}
<1>4. 0 \in T
  BY <1>2, <1>3
<1>5. ASSUME NEW n \in 0 .. N - 1, n \in T PROVE n + 1 \in T
  <2>1. n + 1 \in 1 .. N /\ n + 1 \in 0 .. N /\ (n + 1) - 1 = n
    BY <1>3
  <2>2. reach[n + 1] = reach[n] \cup UNION {ToSet(succ[b]) \ {a} : b \in reach[n]}
    BY <1>2, <2>1
  <2>3. reach[n + 1] \subseteq X
    BY <1>5, <2>2
  <2> QED BY <2>1, <2>3
<1> HIDE DEF T
<1>6. \A n \in 0 .. N : n \in T
  BY <1>3, <1>4, <1>5, UpTo
<1>7. N \in 0 .. N
  BY <1>3
<1> QED BY <1>2, <1>6, <1>7 DEF T

(* A block that is not reached without a does not stand in the way of what  *)
(* is.                                                                      *)
LEMMA ReachGrows ==
  ASSUME DTTypeOK
  PROVE  /\ \A a, b : b \notin ReachedWithout(a) => ReachedWithout(a) \subseteq ReachedWithout(b)
         /\ \A a : ReachedWithout(a) \subseteq Reached
<1>1. ASSUME NEW a, NEW b, b \notin ReachedWithout(a)
      PROVE  ReachedWithout(a) \subseteq ReachedWithout(b)
  <2> DEFINE X == ReachedWithout(a) \cap ReachedWithout(b)
  <2>1. /\ entry # a => entry \in ReachedWithout(a)
        /\ \A c \in ReachedWithout(a) : \A s \in ToSet(succ[c]) : s = a \/ s \in ReachedWithout(a)
    BY ReachClosed
  <2>2. /\ entry # b => entry \in ReachedWithout(b)
        /\ \A c \in ReachedWithout(b) : \A s \in ToSet(succ[c]) : s = b \/ s \in ReachedWithout(b)
    BY ReachClosed
  <2>3. entry = a \/ entry \in X
    BY <1>1, <2>1, <2>2
  <2>4. \A c \in X : \A s \in ToSet(succ[c]) : s = a \/ s \in X
    BY <1>1, <2>1, <2>2
  <2> HIDE DEF X
  <2>5. ReachedWithout(a) \subseteq X
    BY <2>3, <2>4, ReachLeast
  <2> QED BY <2>5 DEF X
<1>2. \A a : Null \notin ReachedWithout(a)
  BY ReachClosed, Blocks
<1> QED BY <1>1, <1>2 DEF Reached

(* Strict dominance is an order on the reached blocks, the entry is its     *)
(* least; what dominates a block dominates its predecessors or is one.      *)
LEMMA DominanceOrder ==
  ASSUME DTTypeOK
  PROVE  /\ Reached \subseteq Block /\ entry \in Reached
         /\ \A b \in Reached : ToSet(succ[b]) \subseteq Reached
         /\ \A a, b : StrictlyDominates(a, b) => a \in Reached /\ b \in Reached /\ a # b /\ b # entry
         /\ \A a, b : StrictlyDominates(a, b) => ~StrictlyDominates(b, a)
         /\ \A a, b, c : StrictlyDominates(a, b) /\ StrictlyDominates(b, c) => StrictlyDominates(a, c)
         /\ \A a, b, p : StrictlyDominates(a, b) /\ p \in Reached /\ b \in ToSet(succ[p]) =>
              a = p \/ StrictlyDominates(a, p)
<1> DEFINE R(a) == ReachedWithout(a)
           SD(a, b) == StrictlyDominates(a, b)
<1>1. \A a : /\ R(a) \subseteq Block /\ a \notin R(a)
             /\ entry # a => entry \in R(a)
             /\ \A b \in R(a) : \A s \in ToSet(succ[b]) : s = a \/ s \in R(a)
  BY ReachClosed
<1>2. \A a, b : b \notin R(a) => R(a) \subseteq R(b)
  BY ReachGrows
<1>3. \A a, b : SD(a, b) <=> a # b /\ b \in R(Null) /\ b \notin R(a)
  BY DEF StrictlyDominates, Reached
<1>4. entry # Null /\ Null \notin Block
  BY Types, Blocks
<1>L. ASSUME NEW a, entry \in R(a), \A c \in R(a) : \A s \in ToSet(succ[c]) : s \in R(a)
      PROVE  R(Null) \subseteq R(a)
  BY <1>L, ReachLeast
<1>r. Reached = R(Null)
  BY DEF Reached
<1> HIDE DEF R, SD
<1>5. R(Null) \subseteq Block /\ entry \in R(Null)
  BY <1>1, <1>4
<1>6. \A b \in R(Null) : ToSet(succ[b]) \subseteq R(Null)
  <2> SUFFICES ASSUME NEW b \in R(Null), NEW s \in ToSet(succ[b]) PROVE s \in R(Null)
    OBVIOUS
  <2>1. s \in Block
    BY <1>5, Types, LenProperties DEF ToSet
  <2> QED BY <1>1, <1>4, <2>1
<1>7. \A a, b : SD(a, b) => a \in R(Null) /\ b \in R(Null) /\ a # b /\ b # entry
  BY <1>1, <1>2, <1>3
<1>8. ASSUME NEW a, NEW b, SD(a, b), SD(b, a) PROVE FALSE
  <2>1. R(a) = R(b) /\ a # b /\ b \in R(Null) /\ b \notin R(a) /\ a \notin R(b)
    BY <1>2, <1>3, <1>8
  <2>2. entry \in R(a)
    BY <1>1, <2>1
  <2>3. ASSUME NEW c \in R(a), NEW s \in ToSet(succ[c]) PROVE s \in R(a)
    BY <1>1, <2>1
  <2>4. R(Null) \subseteq R(a)
    BY <1>L, <2>2, <2>3
  <2> QED BY <2>1, <2>4
<1>9. ASSUME NEW a, NEW b, NEW c, SD(a, b), SD(b, c) PROVE SD(a, c)
  <2>1. b \notin R(a) /\ c \notin R(b) /\ c \in R(Null)
    BY <1>3, <1>9
  <2>2. c \notin R(a)
    BY <1>2, <2>1
  <2>3. a # c
    BY <1>8, <1>9
  <2> QED BY <1>3, <2>1, <2>2, <2>3
<1>10. ASSUME NEW a, NEW b, NEW p, SD(a, b), p \in R(Null), b \in ToSet(succ[p]), a # p
       PROVE  SD(a, p)
  <2>1. p \notin R(a)
    BY <1>1, <1>3, <1>10
  <2> QED BY <1>3, <1>10, <2>1
<1> QED BY <1>r, <1>5, <1>6, <1>7, <1>8, <1>9, <1>10 DEF SD

(* The search numbered every block that has a dominator or waits for one;   *)
(* nothing below a block with a depth is left without one.                  *)
TreeInv ==
  /\ \A c \in Block0 : bucket[c] \subseteq ToSet(dfnVector)
  /\ \A c \in Block : idomMap[c] # Null => c \in ToSet(dfnVector)
  /\ pc \in {"depth", "done"} =>
       \A c \in Block : c = entry \/ nodeDepthMap[idomMap[c]] > 0 =>
         nodeDepthMap[c] > 0 \/ c \in ToSet(worklist)
  /\ pc = "done" => worklist = <<>>

(* It is an invariant too.                                                  *)
LEMMA TreeInitInv == DTInit => TreeInv
<1>1. ASSUME DTInit PROVE bucket = [b \in Block0 |-> {}] /\ idomMap = [b \in Block0 |-> Null] /\ pc = "dfs"
  BY <1>1 DEF DTInit
<1> QED BY <1>1, Blocks DEF TreeInv

(* The blocks that get a dominator come from a bucket.                      *)
LEMMA SemiDominatorTree == ASSUME DTInv, TreeInv, SemiDominator PROVE TreeInv'
<1> DEFINE b == dfnVector[next]
           p == parent[b]
           sd == [sdom EXCEPT ![b] = SemiOf(b)]
           bkt == [bucket EXCEPT ![sd[b]] = @ \cup {b}]
           done == IF p = Null THEN {} ELSE bkt[p]
           nums == ToSet(dfnVector)
<1>t. DTTypeOK /\ Counters
  BY DEF DTInv
<1>1. /\ pc = "sdom" /\ next > 0 /\ pc' \notin {"depth", "done"} /\ UNCHANGED dfnVector
      /\ \/ UNCHANGED <<bucket, idomMap>>
         \/ /\ bucket' = IF p = Null THEN bkt ELSE [bkt EXCEPT ![p] = {}]
            /\ \A v \in Block0 : v \notin done => idomMap'[v] = idomMap[v]
  BY DEF SemiDominator
<1>2. b \in nums /\ p \in Block0 /\ sd[b] \in Block0
  <2>1. next \in 1 .. Len(dfnVector)
    BY <1>t, <1>1, Types DEF Counters
  <2>2. b \in nums
    BY <1>t, <2>1, Types DEF ToSet
  <2>3. b \in Block
    BY <1>t, <2>1, Types, LenProperties
  <2> QED BY <1>t, <2>2, <2>3, Types, Blocks, SemiIsABlock
<1>3. bucket \in [Block0 -> SUBSET Block] /\ \A c \in Block0 : bucket[c] \subseteq nums
  BY <1>t, Types DEF TreeInv
<1> HIDE DEF b, sd, nums
<1>4. \A c \in Block0 : bkt[c] \subseteq nums
  BY <1>2, <1>3
<1>5. DOMAIN bkt = Block0
  BY <1>3
<1>6. done \subseteq nums
  BY <1>2, <1>4
<1> HIDE DEF p, bkt, done
<1>7. \A c \in Block0 : bucket'[c] \subseteq nums
  <2>1. CASE UNCHANGED <<bucket, idomMap>>
    BY <1>3, <2>1
  <2>2. CASE bucket' = IF p = Null THEN bkt ELSE [bkt EXCEPT ![p] = {}]
    BY <1>2, <1>4, <1>5, <2>2
  <2> QED BY <1>1, <2>1, <2>2
<1>8. \A c \in Block : idomMap'[c] # Null => c \in nums
  <2>1. \A c \in Block : idomMap[c] # Null => c \in nums
    BY DEF TreeInv, nums
  <2>2. \A c \in Block : c \in Block0
    BY Blocks
  <2> QED BY <1>1, <1>6, <2>1, <2>2
<1> QED BY <1>1, <1>7, <1>8 DEF TreeInv, nums

(* The children of a block that gets its depth are put in the queue.        *)
LEMMA DepthTree == ASSUME DTInv, TreeInv, Depth PROVE TreeInv'
<1> DEFINE b == Head(worklist)
           rest == Tail(worklist)
           kids == Children(b)
           d == nodeDepthMap[idomMap[b]] + 1
<1>t. DTTypeOK /\ QueueIsTheFringe
  BY DEF DTInv
<1>1. /\ pc = "depth" /\ worklist # <<>>
      /\ nodeDepthMap' = [nodeDepthMap EXCEPT ![b] = d]
      /\ worklist' = rest \o SetToSeq(kids)
      /\ UNCHANGED <<entry, pc, dfnVector, bucket, idomMap>>
  BY DEF Depth
<1>2. b \in Block /\ rest \in Seq(Block) /\ ToSet(worklist) = ToSet(rest) \cup {b}
  <2>1. worklist \in Seq(Block) /\ IsInjective(worklist)
    BY <1>t, <1>1, Types DEF QueueIsTheFringe
  <2> QED BY <1>1, <2>1, TailNodes
<1>3. kids = {c \in Block : idomMap[c] = b} /\ IsFiniteSet(kids)
  <2>1. kids = {c \in Block : idomMap[c] = b}
    BY DEF Children
  <2> QED BY <2>1, Blocks, FS_Subset
<1>5. /\ nodeDepthMap \in [Block0 -> Nat] /\ idomMap \in [Block0 -> Block0]
      /\ d > 0
  <2>1. nodeDepthMap \in [Block0 -> 0 .. N] /\ idomMap \in [Block0 -> Block0] /\ N \in Nat
    BY <1>t, Types, Blocks
  <2>2. idomMap[b] \in Block0
    BY <1>2, <2>1, Blocks
  <2> QED BY <2>1, <2>2
<1> HIDE DEF b, rest, kids, d
<1>4. SetToSeq(kids) \in Seq(Block) /\ ToSet(SetToSeq(kids)) = kids
  BY <1>3, SetToSeqNodes, SeqMonotonic
<1>6. nodeDepthMap'[b] = d /\ \A c \in Block0 : c # b => nodeDepthMap'[c] = nodeDepthMap[c]
  BY <1>1, <1>2, <1>5, Blocks
<1>7. ToSet(worklist') = ToSet(rest) \cup kids
  BY <1>1, <1>2, <1>4, ConcatNodes
<1>8. ASSUME NEW c \in Block, c = entry' \/ nodeDepthMap'[idomMap'[c]] > 0
      PROVE  nodeDepthMap'[c] > 0 \/ c \in ToSet(worklist')
  <2>1. entry' = entry /\ idomMap' = idomMap /\ c \in Block0 /\ idomMap[c] \in Block0
    BY <1>1, <1>5, Blocks
  <2>2. CASE c = b
    BY <1>5, <1>6, <2>2
  <2>3. CASE idomMap[c] = b
    BY <1>3, <1>7, <2>3
  <2>4. CASE c # b /\ idomMap[c] # b
    <3>1. nodeDepthMap'[c] = nodeDepthMap[c] /\ nodeDepthMap'[idomMap[c]] = nodeDepthMap[idomMap[c]]
      BY <1>6, <2>1, <2>4
    <3>2. nodeDepthMap[c] > 0 \/ c \in ToSet(worklist)
      BY <1>1, <1>8, <2>1, <3>1 DEF TreeInv
    <3> QED BY <1>2, <1>7, <2>4, <3>1, <3>2
  <2> QED BY <2>2, <2>3, <2>4
<1> QED BY <1>1, <1>8 DEF TreeInv

(* Every step preserves it.                                                 *)
LEMMA TreeNextInv == ASSUME DTInv, TreeInv, [DTNext]_dtvars PROVE TreeInv'
<1>t. DTTypeOK
  BY DEF DTInv
<1>1. CASE UNCHANGED dtvars
  BY <1>1 DEF dtvars, TreeInv
<1>2. CASE Visit
  <2>1. pc' = "dfs" /\ bucket' = bucket /\ idomMap' = idomMap /\ worklist # <<>> /\ pc = "dfs"
        /\ dfnVector' = Append(dfnVector, Last(worklist))
    BY <1>2 DEF Visit
  <2>2. ToSet(dfnVector) \subseteq ToSet(dfnVector')
    <3>1. Last(worklist) \in Block /\ dfnVector \in Seq(Block)
      BY <1>t, <2>1, Types, LastIn
    <3>2. /\ dfnVector' \in Seq(Block) /\ Len(dfnVector') = Len(dfnVector) + 1
          /\ \A i \in 1 .. Len(dfnVector) : dfnVector'[i] = dfnVector[i]
      BY <2>1, <3>1, AppendProperties
    <3>3. DOMAIN dfnVector = 1 .. Len(dfnVector) /\ DOMAIN dfnVector' = 1 .. Len(dfnVector)  + 1
          /\ Len(dfnVector) \in Nat
      BY <3>1, <3>2, LenProperties
    <3> QED BY <3>2, <3>3 DEF ToSet
  <2> QED BY <2>1, <2>2 DEF TreeInv
<1>3. CASE VisitDone
  BY <1>3 DEF VisitDone, TreeInv
<1>4. CASE SemiDominator
  BY <1>4, SemiDominatorTree
<1>5. CASE SemiDominatorsDone
  BY <1>5 DEF SemiDominatorsDone, TreeInv
<1>6. CASE ImmediateDominator
  <2> DEFINE b == dfnVector[next]
             v == IF idomMap[b] = sdom[b] THEN idomMap[b] ELSE idomMap[idomMap[b]]
  <2>1. pc = "idom" /\ next <= Len(dfnVector) /\ UNCHANGED <<pc, bucket, dfnVector>>
        /\ idomMap' = [idomMap EXCEPT ![b] = v]
    BY <1>6 DEF ImmediateDominator
  <2>2. next \in 1 .. Len(dfnVector)
    BY <1>t, <2>1, Types DEF DTInv, Counters
  <2>3. b \in ToSet(dfnVector)
    BY <1>t, <2>2, Types DEF ToSet
  <2> HIDE DEF b, v
  <2>4. \A c \in Block : c # b => idomMap'[c] = idomMap[c]
    BY <1>t, <2>1, Types, Blocks
  <2> QED BY <2>1, <2>3, <2>4 DEF TreeInv
<1>7. CASE ImmediateDominatorsDone
  <2>1. pc = "idom" /\ pc' = "depth" /\ worklist' = <<entry>> /\ UNCHANGED <<entry, bucket, dfnVector, nodeDepthMap>>
        /\ idomMap' = [idomMap EXCEPT ![entry] = Null]
    BY <1>7 DEF ImmediateDominatorsDone
  <2>2. idomMap \in [Block0 -> Block0] /\ entry \in Block /\ entry \in Block0
    BY <1>t, Types, Blocks
  <2>3. \A c \in Block : idomMap'[c] = (IF c = entry THEN Null ELSE idomMap[c]) /\ idomMap'[c] \in Block0
    BY <2>1, <2>2, Blocks
  <2>4. \A c \in Block0 : nodeDepthMap[c] = 0
    BY <2>1 DEF DTInv, DepthsFollowTheTree
  <2>5. ToSet(<<entry>>) = {entry}
    BY DEF ToSet
  <2>6. \A c \in Block : c = entry \/ nodeDepthMap'[idomMap'[c]] > 0 => c \in ToSet(worklist')
    BY <2>1, <2>3, <2>4, <2>5
  <2> QED BY <2>1, <2>3, <2>6 DEF TreeInv
<1>8. CASE Depth
  BY <1>8, DepthTree
<1>9. CASE DepthDone
  BY <1>9 DEF DepthDone, TreeInv
<1> QED BY <1>1, <1>2, <1>3, <1>4, <1>5, <1>6, <1>7, <1>8, <1>9 DEF DTNext

-----------------------------------------------------------------------------
(* The tree of the search.                                                 *)

(* y and the blocks above it in the tree of parents: the least set with y   *)
(* that a step to a parent does not leave.                                  *)
Chain(par, y) ==
  {x \in Block : \A S \in SUBSET Block :
     y \in S /\ (\A z \in S : par[z] # Null => par[z] \in S) => x \in S}

Up(y) == Chain(parent, y)

(* Every marked block waits or was numbered after the entry.                *)
MarkedAreMet ==
  dfnVector # <<>> =>
    \A c \in visited : c \in ToSet(Waiting) \/ \E j \in 2 .. Len(dfnVector) : dfnVector[j] = c

(* The search pops the blocks that wait from the end: the parent of each of *)
(* them is above the parents of those behind it and above the last block    *)
(* numbered.  So the parent of a block is above the one numbered before it. *)
Preorder ==
  /\ \A j \in 2 .. Len(dfnVector) : parent[dfnVector[j]] \in Up(dfnVector[j - 1])
  /\ dfnVector # <<>> =>
       /\ \A m \in 1 .. Len(Waiting) : parent[Waiting[m]] \in Up(dfnVector[Len(dfnVector)])
       /\ \A m, k \in 1 .. Len(Waiting) : m < k => parent[Waiting[m]] \in Up(parent[Waiting[k]])

(* The search leaves the rest of a node as it was.                          *)
NothingComputed ==
  pc = "dfs" => /\ \A c \in Block0 : bucket[c] = {}
                /\ \A c \in ToSet(dfnVector) : sdom[c] = c

SearchOrder == MarkedAreMet /\ (entry \notin visited => Preorder) /\ NothingComputed

(* The number of a block; the code keeps it as dfn and does not read it.    *)
dfn(b) == CHOOSE i \in DOMAIN dfnVector : dfnVector[i] = b

(* What the code relies on.                                                 *)
Favourable == AllocatedDownwards /\ DepthFirst /\ NoDeadPreds /\ entry \notin visited

(* The blocks below this number are not linked yet.                         *)
Unlinked == IF pc = "sdom" THEN next ELSE 0

(* The semidominator of b: above b; at or above every predecessor that was  *)
(* numbered before b, and every semidominator of a block between a later    *)
(* predecessor and the blocks numbered before b; one of these.              *)
IsSemi(b) ==
  /\ sdom[b] \in Up(parent[b])
  /\ \A v \in Preds(b) :
       IF dfn(v) < dfn(b) THEN sdom[b] <= v
       ELSE \A u \in Up(v) : dfn(u) > dfn(b) => sdom[b] <= sdom[u]
  /\ \E v \in Preds(b) :
       \/ dfn(v) < dfn(b) /\ sdom[b] = v
       \/ \E u \in Up(v) : dfn(u) > dfn(b) /\ sdom[b] = sdom[u]

(* What the first pass leaves in idomMap: the semidominator, if none        *)
(* between it and v has a higher one; otherwise one with the highest.       *)
IsRelative(v) ==
  \/ /\ idomMap[v] = sdom[v]
     /\ \A u \in Up(v) : u > sdom[v] => sdom[u] >= sdom[v]
  \/ /\ idomMap[v] \in Up(v) /\ idomMap[v] > sdom[v] /\ sdom[idomMap[v]] < sdom[v]
     /\ \A u \in Up(v) : u > sdom[v] => sdom[u] >= sdom[idomMap[v]]

(* The loop over the semidominators comes to an end only if the entry was   *)
(* not met again.                                                           *)
LoopEnds ==
  /\ pc = "sdom" => \A i \in next + 1 .. Len(dfnVector) : ancestor[dfnVector[i]] = parent[dfnVector[i]]
  /\ (pc = "sdom" /\ next = 0) \/ pc \in {"idom", "depth", "done"} => entry \notin visited

(* A linked block has its semidominator; the others are as they were.       *)
SemiInv ==
  pc \in {"sdom", "idom", "depth", "done"} /\ Favourable =>
    \A b \in Reached :
      IF dfn(b) > Unlinked
      THEN ancestor[b] = parent[b] /\ (b # entry => IsSemi(b))
      ELSE ancestor[b] = Null /\ sdom[b] = b

(* A block waits in the bucket of its semidominator until the child of it   *)
(* above the block is linked; then idomMap has what the second pass needs.  *)
BucketInv ==
  pc \in {"sdom", "idom"} /\ Favourable =>
    /\ pc = "sdom" => \A p \in Block0 : \A v \in bucket[p] :
         /\ v \in Reached /\ dfn(v) > next /\ sdom[v] = p
         /\ \A c \in Up(v) \ {entry} : dfn(c) > next => parent[c] # p
    /\ \A v \in Reached \ {entry} : dfn(v) > Unlinked /\ (pc = "idom" => dfn(v) >= next) =>
         \/ pc = "sdom" /\ v \in bucket[sdom[v]]
         \/ IsRelative(v) /\ \A u \in Up(v) : u > sdom[v] => dfn(u) > Unlinked

(* The second pass leaves the immediate dominators.                         *)
IdomInv ==
  pc \in {"idom", "depth", "done"} /\ Favourable =>
    \A v \in Reached \ {entry} : (pc = "idom" => dfn(v) < next) => IsIdom(idomMap[v], v)

-----------------------------------------------------------------------------
(* Chains.                                                                 *)

(* A chain is the least set with its start that is closed under par.        *)
LEMMA ChainLeast ==
  ASSUME NEW par \in [Block0 -> Block0], NEW y \in Block
  PROVE  /\ y \in Chain(par, y) /\ Chain(par, y) \subseteq Block
         /\ \A x \in Chain(par, y) : par[x] # Null => par[x] \in Chain(par, y)
         /\ \A S \in SUBSET Block :
              y \in S /\ (\A z \in S : par[z] # Null => par[z] \in S) => Chain(par, y) \subseteq S
<1>1. ASSUME NEW x \in Chain(par, y), par[x] # Null PROVE par[x] \in Chain(par, y)
  <2>1. x \in Block /\ par[x] \in Block
    BY <1>1, Blocks DEF Chain
  <2> QED BY <1>1, <2>1 DEF Chain
<1> QED BY <1>1 DEF Chain

(* The blocks above y: y and those above its parent; their chains are parts *)
(* of its chain, and of two of them one is above the other.                 *)
LEMMA ChainOrder ==
  ASSUME NEW par \in [Block0 -> Block0], NEW y \in Block
  PROVE  /\ par[y] = Null => Chain(par, y) = {y}
         /\ par[y] # Null => Chain(par, y) = {y} \cup Chain(par, par[y])
         /\ \A x \in Chain(par, y) : Chain(par, x) \subseteq Chain(par, y)
         /\ \A x, z \in Chain(par, y) : x \in Chain(par, z) \/ z \in Chain(par, x)
<1> DEFINE C(x) == Chain(par, x)
<1>l. \A x \in Block : /\ x \in C(x) /\ C(x) \subseteq Block
                       /\ \A z \in C(x) : par[z] # Null => par[z] \in C(x)
                       /\ \A S \in SUBSET Block :
                            x \in S /\ (\A z \in S : par[z] # Null => par[z] \in S) => C(x) \subseteq S
  BY ChainLeast
<1>b. \A x \in Block : par[x] # Null => par[x] \in Block
  BY Blocks
<1> HIDE DEF C
<1>1. ASSUME NEW x \in Block, NEW z \in C(x) PROVE C(z) \subseteq C(x)
  BY <1>l
<1>2. ASSUME NEW x \in Block, par[x] # Null PROVE C(x) = {x} \cup C(par[x])
  <2>1. par[x] \in C(x)
    BY <1>2, <1>l
  <2>2. C(par[x]) \subseteq C(x)
    BY <1>1, <2>1
  <2> DEFINE S == {x} \cup C(par[x])
  <2>3. S \in SUBSET Block /\ x \in S /\ \A z \in S : par[z] # Null => par[z] \in S
    BY <1>2, <1>b, <1>l
  <2> HIDE DEF S
  <2>4. C(x) \subseteq S
    BY <1>l, <2>3
  <2> QED BY <1>l, <2>2, <2>4 DEF S
<1>3. ASSUME NEW x \in Block, par[x] = Null PROVE C(x) = {x}
  <2> DEFINE S == {x}
  <2>1. S \in SUBSET Block /\ x \in S /\ \A z \in S : par[z] # Null => par[z] \in S
    BY <1>3
  <2> HIDE DEF S
  <2>2. C(x) \subseteq S
    BY <1>l, <2>1
  <2> QED BY <1>l, <2>2 DEF S
<1>4. ASSUME NEW x \in C(y) PROVE \A z \in C(y) : x \in C(z) \/ z \in C(x)
  <2> DEFINE S == {z \in C(y) : x \in C(z) \/ z \in C(x)}
  <2>1. S \in SUBSET Block /\ y \in S
    BY <1>l, <1>4
  <2>2. ASSUME NEW z \in S, par[z] # Null PROVE par[z] \in S
    <3>1. z \in Block /\ par[z] \in C(y) /\ x \in Block
      BY <1>l, <1>4, <2>2
    <3>2. CASE z \in C(x)
      BY <1>l, <2>2, <3>1, <3>2
    <3>3. CASE x \in C(z)
      <4>1. x = z \/ x \in C(par[z])
        BY <1>2, <2>2, <3>1, <3>3
      <4>2. CASE x = z
        BY <1>l, <2>2, <3>1, <4>2
      <4> QED BY <3>1, <4>1, <4>2
    <3> QED BY <3>2, <3>3
  <2> HIDE DEF S
  <2>3. C(y) \subseteq S
    BY <1>l, <2>1, <2>2
  <2> QED BY <2>3 DEF S
<1> QED BY <1>1, <1>2, <1>3, <1>4 DEF C

(* The chain depends on the parents of the blocks of a closed set only.     *)
LEMMA ChainStays ==
  ASSUME NEW f \in [Block0 -> Block0], NEW g \in [Block0 -> Block0],
         NEW K \in SUBSET Block, \A z \in K : f[z] # Null => f[z] \in K,
         \A z \in K : f[z] = g[z]
  PROVE  \A y \in K : Chain(f, y) = Chain(g, y) /\ Chain(f, y) \subseteq K
<1> SUFFICES ASSUME NEW y \in K PROVE Chain(f, y) = Chain(g, y) /\ Chain(f, y) \subseteq K
  OBVIOUS
<1> DEFINE F == Chain(f, y)
           G == Chain(g, y)
<1>1. /\ y \in F /\ F \subseteq Block /\ \A z \in F : f[z] # Null => f[z] \in F
      /\ \A S \in SUBSET Block : y \in S /\ (\A z \in S : f[z] # Null => f[z] \in S) => F \subseteq S
  BY ChainLeast
<1>2. /\ y \in G /\ G \subseteq Block /\ \A z \in G : g[z] # Null => g[z] \in G
      /\ \A S \in SUBSET Block : y \in S /\ (\A z \in S : g[z] # Null => g[z] \in S) => G \subseteq S
  BY ChainLeast
<1> HIDE DEF F, G
<1>3. F \subseteq K /\ G \subseteq K
  BY <1>1, <1>2
<1>4. F \subseteq G /\ G \subseteq F
  <2>1. \A z \in F : g[z] # Null => g[z] \in F
    BY <1>1, <1>3
  <2>2. \A z \in G : f[z] # Null => f[z] \in G
    BY <1>2, <1>3
  <2> QED BY <1>1, <1>2, <2>1, <2>2
<1> QED BY <1>3, <1>4 DEF F, G

-----------------------------------------------------------------------------
(* The order of the search.                                                *)

(* The order holds at the start.                                            *)
LEMMA OrderInitInv == DTInit => SearchOrder
<1> SUFFICES ASSUME DTInit PROVE SearchOrder
  OBVIOUS
<1>1. dfnVector = <<>> /\ Len(dfnVector) = 0 /\ ToSet(dfnVector) = {} /\ bucket = [b \in Block0 |-> {}]
  BY DEF DTInit, ToSet
<1> QED BY <1>1 DEF SearchOrder, MarkedAreMet, Preorder, NothingComputed

(* A pop keeps the order: the new blocks are children of the block popped,  *)
(* and wait behind the others, whose parents are above it.                  *)
LEMMA VisitOrder == ASSUME DTInv, SearchOrder, Visit PROVE SearchOrder'
<1>t. DTTypeOK /\ SearchOnce /\ SearchTree
  BY DEF DTInv
<1>v. PICK b \in Block, front, new \in Seq(Block) :
           /\ b = Last(worklist) /\ worklist = Append(front, b)
           /\ Len(front) = Len(worklist) - 1 /\ ToSet(worklist) = ToSet(front) \cup {b}
           /\ IsInjective(new) /\ ToSet(new) = ToSet(succ[b]) \ visited
           /\ dfnVector' = Append(dfnVector, b)
           /\ sdom' = [sdom EXCEPT ![b] = b]
           /\ worklist' = front \o new
           /\ visited' = visited \cup ToSet(new) /\ visited' \subseteq Block
           /\ parent' = [c \in Block0 |-> IF c \in ToSet(new) THEN b ELSE parent[c]]
           /\ UNCHANGED <<entry, succ, pc, next, ancestor, bucket, idomMap, nodeDepthMap>>
  BY <1>t, VisitEffect
<1>w. pc = "dfs" /\ Waiting = worklist /\ Waiting' = worklist'
  BY <1>v DEF Visit, Waiting
<1> DEFINE len == Len(dfnVector)
           lf == Len(front)
           D == dfnVector'
           W == worklist'
<1>1. /\ len \in Nat /\ lf \in Nat /\ Len(new) \in Nat
      /\ DOMAIN dfnVector = 1 .. len /\ DOMAIN front = 1 .. lf /\ DOMAIN new = 1 .. Len(new)
  BY <1>t, Types, LenProperties
<1>2. /\ Len(D) = len + 1 /\ D # <<>> /\ D[len + 1] = b
      /\ \A j \in 1 .. len : D[j] = dfnVector[j]
      /\ ToSet(D) = ToSet(dfnVector) \cup {b}
  <2>1. dfnVector \in Seq(Block)
    BY <1>t, Types
  <2>2. ToSet(Append(dfnVector, b)) = ToSet(dfnVector) \cup {b}
    BY <2>1, AppendNodes
  <2>3. /\ Len(Append(dfnVector, b)) = len + 1 /\ Append(dfnVector, b) # <<>>
        /\ Append(dfnVector, b)[len + 1] = b
        /\ \A j \in 1 .. len : Append(dfnVector, b)[j] = dfnVector[j]
    BY <2>1, AppendProperties
  <2> QED BY <1>v, <2>2, <2>3
<1>3. /\ Len(W) = lf + Len(new)
      /\ \A m \in 1 .. lf : W[m] = front[m] /\ W[m] = worklist[m]
      /\ \A m \in lf + 1 .. lf + Len(new) : W[m] = new[m - lf]
      /\ ToSet(W) = ToSet(front) \cup ToSet(new)
      /\ Len(worklist) = lf + 1 /\ worklist[lf + 1] = b
  <2>1. /\ Len(worklist) = lf + 1 /\ worklist[lf + 1] = b
        /\ \A m \in 1 .. lf : worklist[m] = front[m]
    BY <1>v, AppendProperties
  <2>2. /\ Len(W) = lf + Len(new)
        /\ \A m \in 1 .. lf + Len(new) : W[m] = IF m <= lf THEN front[m] ELSE new[m - lf]
    BY <1>v, ConcatProperties
  <2>3. ToSet(W) = ToSet(front) \cup ToSet(new)
    BY <1>v, ConcatNodes
  <2> QED BY <1>1, <2>1, <2>2, <2>3
<1>4. \A m \in lf + 1 .. lf + Len(new) : W[m] \in ToSet(new)
  BY <1>1, <1>3 DEF ToSet
<1>5. /\ dfnVector = <<>> => b = entry /\ lf = 0 /\ len = 0
      /\ dfnVector # <<>> => len >= 1 /\ dfnVector[1] = entry /\ ToSet(worklist) \subseteq visited
  <2>1. ASSUME dfnVector = <<>> PROVE b = entry /\ lf = 0 /\ len = 0
    <3>1. worklist = <<entry>>
      BY <1>t, <2>1 DEF SearchTree
    <3> QED BY <1>1, <1>3, <2>1, <3>1
  <2>2. ASSUME dfnVector # <<>> PROVE len >= 1
    BY <1>t, <1>1, <2>2, Types, EmptySeq
  <2> QED BY <1>t, <1>w, <2>1, <2>2 DEF SearchTree
<1> HIDE DEF len, lf, D, W
<1>6. MarkedAreMet'
  <2> SUFFICES ASSUME NEW c \in visited' PROVE c \in ToSet(W) \/ \E j \in 2 .. len + 1 : D[j] = c
    BY <1>2, <1>w DEF MarkedAreMet, D, W
  <2>1. CASE c \in ToSet(new)
    BY <1>3, <2>1
  <2>2. CASE c \in visited
    <3>1. dfnVector # <<>>
      <4>1. ASSUME dfnVector = <<>> PROVE visited = {}
        <5>1. ToSet(dfnVector) = {}
          BY <4>1 DEF ToSet
        <5> QED BY <1>t, <5>1 DEF SearchTree
      <4> QED BY <2>2, <4>1
    <3>2. CASE c \in ToSet(worklist)
      <4>1. CASE c = b
        <5>1. len + 1 \in 2 .. len + 1
          BY <1>1, <1>5, <3>1
        <5> QED BY <1>2, <4>1, <5>1
      <4> QED BY <1>v, <1>3, <3>2, <4>1
    <3>3. ASSUME NEW j \in 2 .. len, dfnVector[j] = c PROVE \E k \in 2 .. len + 1 : D[k] = c
      <4>1. j \in 1 .. len /\ j \in 2 .. len + 1
        BY <1>1
      <4> QED BY <1>2, <3>3, <4>1
    <3> QED BY <1>w, <2>2, <3>1, <3>2, <3>3 DEF SearchOrder, MarkedAreMet, len
  <2> QED BY <1>v, <2>1, <2>2
<1>7. ASSUME entry' \notin visited' PROVE Preorder'
  <2> DEFINE K == visited \cup {entry}
             C(y) == Chain(parent, y)
             Cp(y) == Chain(parent', y)
  <2>1. entry' = entry /\ entry \notin visited /\ entry \notin ToSet(new)
    BY <1>v, <1>7
  <2>2. K \in SUBSET Block /\ K = ToSet(dfnVector) \cup ToSet(worklist)
    BY <1>t, <1>w, Types DEF SearchOnce
  <2>3. \A z \in K : parent[z] # Null => parent[z] \in K
    <3>1. parent[entry] = Null
      BY <1>t, <2>1, Types, Blocks DEF SearchTree
    <3> QED BY <1>t, <2>2, <3>1 DEF SearchTree
  <2>4. \A z \in K : parent'[z] = parent[z]
    BY <1>v, <2>1, <2>2, Blocks
  <2>5. parent \in [Block0 -> Block0] /\ parent' \in [Block0 -> Block0]
    BY <1>t, <1>v, Types, Blocks
  <2>6. \A y \in K : C(y) = Cp(y) /\ C(y) \subseteq K
    <3> HIDE DEF K
    <3> QED BY <2>2, <2>3, <2>4, <2>5, ChainStays
  <2>7. /\ \A y \in Block : y \in C(y) /\ y \in Cp(y)
        /\ \A y \in Block : parent[y] # Null => C(parent[y]) \subseteq C(y)
    BY <2>5, ChainLeast, ChainOrder
  <2>8. \A c \in ToSet(new) : parent'[c] = b
    BY <1>v, Blocks
  <2>o. /\ \A j \in 2 .. len : parent[dfnVector[j]] \in C(dfnVector[j - 1])
        /\ dfnVector # <<>> =>
             /\ \A m \in 1 .. lf + 1 : parent[worklist[m]] \in C(dfnVector[len])
             /\ \A m, k \in 1 .. lf + 1 : m < k => parent[worklist[m]] \in C(parent[worklist[k]])
    BY <1>w, <1>3, <2>1 DEF SearchOrder, Preorder, Up, len
  <2> HIDE DEF K, C, Cp
  <2>9. /\ \A j \in 1 .. len : dfnVector[j] \in K
        /\ \A m \in 1 .. lf + 1 : worklist[m] \in K
        /\ b \in K
    <3>1. ToSet(dfnVector) = {dfnVector[j] : j \in 1 .. len} /\ b \in ToSet(worklist)
      BY <1>1, <1>v DEF ToSet
    <3>2. \A m \in 1 .. lf + 1 : worklist[m] \in ToSet(worklist)
      BY <1>t, <1>3, Types, LenProperties DEF ToSet
    <3> QED BY <2>2, <3>1, <3>2
  <2>10. ASSUME NEW j \in 2 .. len + 1 PROVE parent'[D[j]] \in Cp(D[j - 1])
    <3>1. CASE j <= len
      <4>1. j \in 2 .. len /\ j \in 1 .. len /\ j - 1 \in 1 .. len
        BY <1>1, <3>1
      <4>2. parent[dfnVector[j]] \in C(dfnVector[j - 1])
        BY <2>o, <4>1
      <4> QED BY <1>2, <2>4, <2>6, <2>9, <4>1, <4>2
    <3>2. CASE j = len + 1
      <4>1. len >= 1 /\ len \in 1 .. len /\ j - 1 = len /\ dfnVector # <<>>
        BY <1>1, <1>5, <3>2
      <4>2. parent[b] \in C(dfnVector[len])
        <5>1. lf + 1 \in 1 .. lf + 1
          BY <1>1
        <5> QED BY <1>3, <2>o, <4>1, <5>1
      <4> QED BY <1>2, <2>4, <2>6, <2>9, <3>2, <4>1, <4>2
    <3> QED BY <1>1, <3>1, <3>2
  <2>11. \A m \in 1 .. lf : /\ dfnVector # <<>> /\ worklist[m] \in K
                            /\ parent'[W[m]] = parent[worklist[m]] /\ parent[worklist[m]] \in C(parent[b])
    <3> SUFFICES ASSUME NEW m \in 1 .. lf
                 PROVE  /\ dfnVector # <<>> /\ worklist[m] \in K
                        /\ parent'[W[m]] = parent[worklist[m]] /\ parent[worklist[m]] \in C(parent[b])
      OBVIOUS
    <3>1. m \in 1 .. lf + 1 /\ lf + 1 \in 1 .. lf + 1 /\ m < lf + 1 /\ lf # 0
      BY <1>1
    <3>2. dfnVector # <<>>
      BY <1>5, <3>1
    <3>3. parent[worklist[m]] \in C(parent[b])
      BY <1>3, <2>o, <3>1, <3>2
    <3> QED BY <1>3, <2>4, <2>9, <3>1, <3>2, <3>3
  <2>12. dfnVector # <<>> => parent[b] \in Block /\ parent[b] \in K
    <3> SUFFICES ASSUME dfnVector # <<>> PROVE parent[b] \in Block /\ parent[b] \in K
      OBVIOUS
    <3>1. b \in visited
      BY <1>v, <1>5
    <3>2. parent[b] \in ToSet(dfnVector)
      BY <1>t, <3>1 DEF SearchTree
    <3> QED BY <2>2, <3>2
  <2>13. \A m \in 1 .. lf : parent'[W[m]] \in Cp(b)
    <3> SUFFICES ASSUME NEW m \in 1 .. lf PROVE parent'[W[m]] \in Cp(b)
      OBVIOUS
    <3>1. parent[b] \in Block /\ parent[b] # Null
      BY <2>11, <2>12, Blocks
    <3>2. C(parent[b]) \subseteq C(b)
      BY <2>7, <3>1
    <3> QED BY <2>6, <2>9, <2>11, <3>2
  <2>14. \A m \in lf + 1 .. lf + Len(new) : parent'[W[m]] = b
    BY <1>4, <2>8
  <2>15. ASSUME NEW m \in 1 .. lf + Len(new) PROVE parent'[W[m]] \in Cp(b)
    <3>1. m \in 1 .. lf \/ m \in lf + 1 .. lf + Len(new)
      BY <1>1
    <3> QED BY <2>7, <2>13, <2>14, <3>1
  <2>16. ASSUME NEW m \in 1 .. lf + Len(new), NEW k \in 1 .. lf + Len(new), m < k
         PROVE  parent'[W[m]] \in Cp(parent'[W[k]])
    <3>1. CASE k <= lf
      <4>1. m \in 1 .. lf /\ k \in 1 .. lf /\ m \in 1 .. lf + 1 /\ k \in 1 .. lf + 1
        BY <1>1, <2>16, <3>1
      <4>2. parent[worklist[m]] \in C(parent[worklist[k]])
        BY <2>o, <2>11, <2>16, <4>1
      <4>3. parent[worklist[k]] \in K
        <5>1. worklist[k] \in visited
          <6>1. worklist[k] \in ToSet(worklist)
            BY <1>t, <1>3, <4>1, Types, LenProperties DEF ToSet
          <6> QED BY <1>5, <2>11, <4>1, <6>1
        <5>2. parent[worklist[k]] \in ToSet(dfnVector)
          BY <1>t, <5>1 DEF SearchTree
        <5> QED BY <2>2, <5>2
      <4> QED BY <2>6, <2>11, <4>1, <4>2, <4>3
    <3>2. CASE k > lf
      <4>1. k \in lf + 1 .. lf + Len(new)
        BY <1>1, <3>2
      <4> QED BY <2>14, <2>15, <4>1
    <3> QED BY <1>1, <3>1, <3>2
  <2>17. /\ \A j \in 2 .. Len(D) : parent'[D[j]] \in Cp(D[j - 1])
         /\ \A m \in 1 .. Len(W) : parent'[W[m]] \in Cp(D[Len(D)])
         /\ \A m, k \in 1 .. Len(W) : m < k => parent'[W[m]] \in Cp(parent'[W[k]])
    BY <1>2, <1>3, <2>10, <2>15, <2>16
  <2> QED BY <1>w, <2>17 DEF Preorder, Up, D, W, Cp
<1>8. NothingComputed'
  <2>1. \A c \in Block0 : bucket[c] = {} /\ \A d \in ToSet(dfnVector) : sdom[d] = d
    BY <1>w DEF SearchOrder, NothingComputed
  <2>2. \A c \in ToSet(D) : sdom'[c] = c
    <3>1. \A c \in ToSet(D) : c \in Block0
      <4>1. ToSet(dfnVector) \subseteq Block
        BY <1>t, Types, LenProperties DEF ToSet
      <4> QED BY <1>2, <4>1, Blocks
    <3> QED BY <1>t, <1>v, <1>2, <2>1, <3>1, Types
  <2> QED BY <1>v, <2>1, <2>2 DEF NothingComputed, D
<1> QED BY <1>6, <1>7, <1>8 DEF SearchOrder

(* The loops after the search leave its order alone.                        *)
LEMMA OrderStays ==
  ASSUME SearchOrder, pc # "dfs" \/ worklist = <<>>, pc' # "dfs",
         UNCHANGED <<entry, visited, dfnVector, parent>>
  PROVE  SearchOrder'
<1>1. Waiting = <<>> /\ Waiting' = <<>>
  BY DEF Waiting
<1>2. MarkedAreMet' /\ NothingComputed'
  BY <1>1 DEF SearchOrder, MarkedAreMet, NothingComputed
<1>3. entry' \notin visited' => Preorder'
  BY <1>1 DEF SearchOrder, Preorder, Up, Chain
<1> QED BY <1>2, <1>3 DEF SearchOrder

(* Every step preserves the order.                                          *)
LEMMA OrderNextInv == ASSUME DTInv, SearchOrder, [DTNext]_dtvars PROVE SearchOrder'
<1>1. CASE Visit
  BY <1>1, VisitOrder
<1>2. CASE VisitDone
  BY <1>2, OrderStays DEF VisitDone
<1>3. CASE SemiDominator
  <2>1. pc # "dfs" /\ pc' # "dfs" /\ UNCHANGED <<entry, visited, dfnVector, parent>>
    BY <1>3 DEF SemiDominator
  <2> QED BY <2>1, OrderStays
<1>4. CASE SemiDominatorsDone \/ ImmediateDominator \/ ImmediateDominatorsDone \/ Depth \/ DepthDone
  <2>1. pc # "dfs" /\ pc' # "dfs" /\ UNCHANGED <<entry, visited, dfnVector, parent>>
    BY <1>4 DEF SemiDominatorsDone, ImmediateDominator, ImmediateDominatorsDone, Depth, DepthDone
  <2> QED BY <2>1, OrderStays
<1>5. CASE UNCHANGED dtvars
  <2>1. UNCHANGED <<entry, succ, pc, worklist, visited, dfnVector, parent, sdom, bucket>>
    BY <1>5 DEF dtvars
  <2>2. Waiting' = Waiting
    BY <2>1 DEF Waiting
  <2> QED BY <2>1, <2>2 DEF SearchOrder, MarkedAreMet, Preorder, NothingComputed, Up, Chain
<1> QED BY <1>1, <1>2, <1>3, <1>4, <1>5 DEF DTNext

-----------------------------------------------------------------------------
(* The loop over the semidominators ends only where the entry has no        *)
(* predecessor that was numbered.                                           *)

(* A chain that stays inside a set of blocks has no end.                    *)
LEMMA NoWayOut ==
  ASSUME NEW anc \in [Block0 -> Block0], NEW S \in SUBSET Block, NEW u \in S,
         \A x \in S : anc[x] \in S
  PROVE  ~Ends(anc, u)
<1> DEFINE up == Climb(anc, u)
           T == {n \in 0 .. N : up[n] \in S}
<1>1. N \in Nat /\ u \in Block0 /\ \A x \in S : x # Null
  BY Blocks
<1>2. /\ up[0] = u
      /\ \A n \in 1 .. N : up[n] = IF up[n - 1] = Null THEN Null ELSE anc[up[n - 1]]
  BY <1>1, ClimbSteps
<1> HIDE DEF up
<1>3. 0 \in T
  BY <1>1, <1>2
<1>4. ASSUME NEW n \in 0 .. N - 1, n \in T PROVE n + 1 \in T
  <2>1. n + 1 \in 1 .. N /\ n + 1 \in 0 .. N /\ (n + 1) - 1 = n
    BY <1>1
  <2>2. up[n + 1] = IF up[n] = Null THEN Null ELSE anc[up[n]]
    BY <1>2, <2>1
  <2> QED BY <1>1, <1>4, <2>1, <2>2
<1>5. N \in T
  <2> HIDE DEF T
  <2>1. \A n \in 0 .. N : n \in T
    BY <1>1, <1>3, <1>4, UpTo
  <2> QED BY <1>1, <2>1
<1> QED BY <1>1, <1>5 DEF Ends, up

(* It holds at first, and every step preserves it: when the last block, the *)
(* entry, is at hand, everything else is linked; if the entry was numbered  *)
(* again it is linked as well, and the chain of its predecessor has no end. *)
LEMMA LoopNextInv == ASSUME DTInv, SearchOrder, LoopEnds, [DTNext]_dtvars PROVE LoopEnds'
<1>t. DTTypeOK /\ SearchOnce /\ SearchTree /\ LinksFollowTheSearch /\ Counters
  BY DEF DTInv
<1>1. CASE Visit
  BY <1>1 DEF Visit, LoopEnds
<1>2. CASE VisitDone
  <2>1. pc' = "sdom" /\ next' = Len(dfnVector) /\ dfnVector' = dfnVector /\ Len(dfnVector) \in Nat
    BY <1>t, <1>2, Types DEF VisitDone
  <2>2. dfnVector # <<>>
    BY <1>t, <1>2 DEF VisitDone, SearchTree
  <2>3. Len(dfnVector) # 0
    BY <1>t, <2>2, Types, EmptySeq
  <2> QED BY <2>1, <2>3 DEF LoopEnds
<1>3. CASE SemiDominator
  <2> DEFINE b == dfnVector[next]
             len == Len(dfnVector)
  <2>1. CASE pc' = "diverged"
    BY <2>1 DEF LoopEnds
  <2>2. CASE pc' # "diverged"
    <3>1. /\ pc = "sdom" /\ pc' = "sdom" /\ next > 0 /\ next' = next - 1
          /\ UNCHANGED <<entry, succ, visited, dfnVector, parent>>
          /\ ancestor' = [ancestor EXCEPT ![b] = parent[b]]
          /\ \A q \in Preds(b) : Ends(ancestor, q)
      BY <1>3, <2>2 DEF SemiDominator, Link
    <3>2. /\ len \in Nat /\ next \in 1 .. len /\ DOMAIN dfnVector = 1 .. len
          /\ \A i \in 1 .. len : dfnVector[i] \in Block
      BY <1>t, <3>1, Types, LenProperties DEF Counters
    <3>3. \A i \in next + 1 .. len : ancestor[dfnVector[i]] = parent[dfnVector[i]]
      BY <3>1 DEF LoopEnds
    <3>4. ASSUME NEW i \in next .. len PROVE ancestor'[dfnVector[i]] = parent[dfnVector[i]]
      <4>1. dfnVector[i] \in Block0 /\ b \in Block0
        <5>1. i \in 1 .. len
          BY <3>2
        <5> HIDE DEF len
        <5>2. dfnVector[i] \in Block /\ b \in Block
          BY <3>2, <5>1
        <5> QED BY <5>2, Blocks
      <4>2. i = next \/ i \in next + 1 .. len
        BY <3>2
      <4> HIDE DEF len
      <4> QED BY <1>t, <3>1, <3>3, <4>1, <4>2, Types
    <3>5. ASSUME next = 1, entry \in visited PROVE FALSE
      <4>1. b = entry /\ dfnVector # <<>>
        BY <1>t, <3>1, <3>5 DEF SearchTree
      <4>2. parent[entry] \in ToSet(dfnVector) /\ entry \in ToSet(succ[parent[entry]])
        BY <1>t, <3>5 DEF SearchTree
      <4>3. ToSet(dfnVector) = visited /\ visited \subseteq Block
        <5>1. ToSet(Waiting) = {}
          BY <3>1 DEF Waiting, ToSet
        <5> QED BY <1>t, <3>5, <5>1, Types DEF SearchOnce
      <4>4. ASSUME NEW x \in visited PROVE ancestor[x] \in visited
        <5>1. x \notin ToSet(Waiting)
          BY <3>1 DEF Waiting, ToSet
        <5>2. PICK j \in 2 .. len : dfnVector[j] = x
          BY <4>1, <5>1 DEF SearchOrder, MarkedAreMet
        <5>3. ancestor[x] = parent[x]
          BY <3>3, <3>5, <5>2
        <5> QED BY <1>t, <4>3, <5>3 DEF SearchTree
      <4>5. ~Ends(ancestor, parent[entry])
        BY <1>t, <4>2, <4>3, <4>4, Types, NoWayOut
      <4>6. parent[entry] \in Preds(entry)
        BY <4>2, <4>3 DEF Preds
      <4> QED BY <3>1, <4>1, <4>5, <4>6
    <3>6. next - 1 = 0 => next = 1
      BY <3>2
    <3>7. next' + 1 = next
      BY <3>1, <3>2
    <3>8. \A i \in next' + 1 .. Len(dfnVector') : ancestor'[dfnVector'[i]] = parent'[dfnVector'[i]]
      BY <3>1, <3>4, <3>7
    <3>9. next' = 0 => entry' \notin visited'
      BY <3>1, <3>5, <3>6
    <3> QED BY <3>1, <3>8, <3>9 DEF LoopEnds
  <2> QED BY <2>1, <2>2
<1>4. CASE SemiDominatorsDone \/ ImmediateDominator \/ ImmediateDominatorsDone \/ Depth \/ DepthDone
  <2>1. /\ (pc = "sdom" /\ next = 0) \/ pc \in {"idom", "depth", "done"}
        /\ pc' \in {"idom", "depth", "done"} /\ UNCHANGED <<entry, visited>>
    BY <1>4 DEF SemiDominatorsDone, ImmediateDominator, ImmediateDominatorsDone, Depth, DepthDone
  <2> QED BY <2>1 DEF LoopEnds
<1>5. CASE UNCHANGED dtvars
  BY <1>5 DEF dtvars, LoopEnds
<1> QED BY <1>1, <1>2, <1>3, <1>4, <1>5 DEF DTNext

-----------------------------------------------------------------------------
(* The tree of a favourable search.                                        *)

(* The numbered blocks are the reached ones, each has one number, and the   *)
(* entry has the first and no predecessor.                                  *)
Numbered ==
  /\ Reached \subseteq Block /\ entry \in Reached /\ dfn(entry) = 1
  /\ parent[entry] = Null /\ Preds(entry) = {}
  /\ \A b \in Reached : /\ dfn(b) \in 1 .. Len(dfnVector) /\ dfnVector[dfn(b)] = b
                        /\ Preds(b) \subseteq Reached
  /\ \A i \in 1 .. Len(dfnVector) : dfnVector[i] \in Reached /\ dfn(dfnVector[i]) = i
  /\ \A b \in Reached \ {entry} :
       /\ parent[b] \in Reached /\ parent[b] < b /\ dfn(parent[b]) < dfn(b)
       /\ b \in ToSet(succ[parent[b]])

LEMMA FavourableNumbers ==
  ASSUME DTInv, SearchOrder, pc # "dfs" \/ worklist = <<>>, Favourable
  PROVE  Numbered
<1>t. DTTypeOK /\ SearchOnce /\ SearchTree /\ AllocatedDownwards /\ NoDeadPreds /\ entry \notin visited
  BY DEF DTInv, Favourable
<1> DEFINE len == Len(dfnVector)
<1>1. /\ len \in Nat /\ DOMAIN dfnVector = 1 .. len /\ entry \in Block
      /\ ToSet(dfnVector) = {dfnVector[i] : i \in 1 .. len}
      /\ \A i \in 1 .. len : dfnVector[i] \in Block
  <2>1. len \in Nat /\ DOMAIN dfnVector = 1 .. len /\ entry \in Block
    BY <1>t, Types
  <2>2. \A i \in 1 .. len : dfnVector[i] \in Block
    BY <1>t, Types, LenProperties
  <2>3. ToSet(dfnVector) = {dfnVector[i] : i \in 1 .. len}
    BY <2>1 DEF ToSet
  <2> QED BY <2>1, <2>2, <2>3
<1>2. Waiting = <<>> /\ ToSet(Waiting) = {} /\ Len(Waiting) = 0
  BY DEF Waiting, ToSet
<1>3. ToSet(dfnVector) = visited \cup {entry} /\ len = Cardinality(visited) + 1
  <2>1. ToSet(dfnVector) \cup ToSet(Waiting) = visited \cup {entry} /\ len + Len(Waiting) = Cardinality(visited) + 1
    BY <1>t DEF SearchOnce
  <2>2. Cardinality(visited) \in Nat
    BY <1>t, Types
  <2> HIDE DEF len
  <2>3. len = Cardinality(visited) + 1
    <3>1. len + 0 = Cardinality(visited) + 1
      BY <1>2, <2>1
    <3> QED BY <1>1, <2>2, <3>1
  <2> QED BY <1>2, <2>1, <2>3
<1>4. \A i, j \in 1 .. len : dfnVector[i] = dfnVector[j] => i = j
  <2>1. Cardinality(visited \cup {entry}) = Cardinality(visited) + 1
    BY <1>t, Types, FS_AddElement
  <2>2. Cardinality(ToSet(dfnVector)) = len
    BY <1>3, <2>1
  <2>3. dfnVector \in Seq(Block)
    BY <1>t, Types
  <2>4. IsInjective(dfnVector)
    BY <2>2, <2>3, DistinctCount
  <2> QED BY <1>1, <2>4 DEF IsInjective
<1>5. Reached = ToSet(dfnVector)
  <2>1. ToSet(dfnVector) \subseteq Reached
    <3>1. dfnVector # <<>>
      BY <1>t, <1>1, <1>3 DEF ToSet
    <3> QED BY <1>t, <3>1, NumberedIsReached
  <2> DEFINE X == ToSet(dfnVector)
  <2>2. entry \in X /\ \A b \in X : \A s \in ToSet(succ[b]) : s \in X
    BY <1>t, <1>3 DEF SearchTree
  <2> HIDE DEF X
  <2>3. ReachedWithout(Null) \subseteq X
    BY <1>t, <2>2, ReachLeast
  <2> QED BY <2>1, <2>3 DEF Reached, X
<1> HIDE DEF len
<1>6. \A b \in Reached : dfn(b) \in 1 .. len /\ dfnVector[dfn(b)] = b
  BY <1>1, <1>5 DEF dfn
<1>7. \A i \in 1 .. len : dfnVector[i] \in Reached /\ dfn(dfnVector[i]) = i
  BY <1>1, <1>4, <1>5, <1>6
<1>8. dfn(entry) = 1
  <2>1. 1 \in 1 .. len /\ dfnVector[1] = entry
    BY <1>t, <1>1, <1>3, Types DEF SearchTree, len
  <2> QED BY <1>7, <2>1
<1>9. parent[entry] = Null
  BY <1>t, <1>1, Blocks DEF SearchTree
<1>10. \A b \in Reached : Preds(b) \subseteq Reached
  BY <1>t DEF NoDeadPreds
<1>11. Preds(entry) = {}
  <2>1. ASSUME NEW p \in Preds(entry) PROVE FALSE
    <3>1. p \in ToSet(dfnVector) /\ entry \in ToSet(succ[p])
      BY <1>3, <1>5, <1>10 DEF Preds
    <3> QED BY <1>t, <3>1 DEF SearchTree
  <2> QED BY <2>1
<1>12. ASSUME NEW b \in Reached \ {entry}
       PROVE  /\ parent[b] \in Reached /\ parent[b] < b /\ dfn(parent[b]) < dfn(b)
              /\ b \in ToSet(succ[parent[b]])
  <2>1. parent[b] < b
    BY <1>t DEF AllocatedDownwards
  <2>2. b \in visited
    BY <1>3, <1>5
  <2>3. parent[b] \in Reached /\ b \in ToSet(succ[parent[b]])
    BY <1>t, <1>5, <2>2 DEF SearchTree
  <2>4. dfn(b) \in 2 .. len
    <3>1. dfn(b) # 1
      BY <1>6, <1>8, <1>3, <1>5
    <3> QED BY <1>1, <1>6, <3>1
  <2>5. PICK i \in 1 .. dfn(b) - 1 : parent[dfnVector[dfn(b)]] = dfnVector[i]
    BY <1>t, <2>4 DEF SearchTree, len
  <2>6. i \in 1 .. len /\ i < dfn(b)
    BY <1>1, <2>4
  <2>7. dfn(parent[b]) = i
    BY <1>6, <1>7, <2>5, <2>6
  <2> QED BY <2>1, <2>3, <2>6, <2>7
<1>13. Reached \subseteq Block /\ entry \in Reached
  BY <1>1, <1>3, <1>5
<1> QED BY <1>6, <1>7, <1>8, <1>9, <1>10, <1>11, <1>12, <1>13 DEF Numbered, len

(* The chains of the tree.  Above means lower in memory and numbered        *)
(* before; what is above z and numbered between x and z is below x          *)
(* if x is above z: the blocks below x are numbered one after the other.    *)
(* An edge to a block numbered later comes from above it.                   *)
Chains ==
  /\ Up(entry) = {entry}
  /\ \A b \in Reached \ {entry} : Up(b) = {b} \cup Up(parent[b])
  /\ \A y \in Reached :
       /\ Up(y) \subseteq Reached /\ y \in Up(y)
       /\ \A x \in Up(y) : Up(x) \subseteq Up(y) /\ x <= y /\ dfn(x) <= dfn(y)
       /\ \A x \in Up(y) : \A z \in Up(y) : x <= z \/ dfn(x) <= dfn(z) => x \in Up(z)
       /\ \A x \in Up(y) \ {y} : \E c \in Up(y) \ {entry} : parent[c] = x
  /\ \A z \in Reached : \A x \in Up(z) : \A y \in Reached :
       dfn(x) <= dfn(y) /\ dfn(y) <= dfn(z) => x \in Up(y)
  /\ \A v, b \in Reached : b \in ToSet(succ[v]) /\ dfn(v) < dfn(b) => v \in Up(parent[b])

LEMMA FavourableChains ==
  ASSUME DTInv, SearchOrder, pc # "dfs", Favourable, Numbered
  PROVE  Chains
<1>t. parent \in [Block0 -> Block0] /\ Len(dfnVector) \in Nat
  BY Types DEF DTInv
<1>n. /\ Reached \subseteq Block /\ entry \in Reached /\ dfn(entry) = 1 /\ parent[entry] = Null
      /\ \A b \in Reached : dfn(b) \in 1 .. Len(dfnVector) /\ dfnVector[dfn(b)] = b /\ dfn(b) \in Nat
      /\ \A i \in 1 .. Len(dfnVector) : dfnVector[i] \in Reached /\ dfn(dfnVector[i]) = i
      /\ \A b \in Reached \ {entry} : parent[b] \in Reached /\ parent[b] < b /\ dfn(parent[b]) < dfn(b)
  BY <1>t DEF Numbered
<1>b. Block \subseteq Nat /\ \A b \in Reached : b # Null /\ b \in Block /\ b \in Nat
  BY <1>n, Blocks
<1>c. \A y \in Block :
        /\ y \in Up(y) /\ Up(y) \subseteq Block
        /\ \A x \in Up(y) : parent[x] # Null => parent[x] \in Up(y)
        /\ \A S \in SUBSET Block :
             y \in S /\ (\A z \in S : parent[z] # Null => parent[z] \in S) => Up(y) \subseteq S
        /\ parent[y] = Null => Up(y) = {y}
        /\ parent[y] # Null => Up(y) = {y} \cup Up(parent[y])
        /\ \A x \in Up(y) : Up(x) \subseteq Up(y)
        /\ \A x, z \in Up(y) : x \in Up(z) \/ z \in Up(x)
  BY <1>t, ChainLeast, ChainOrder DEF Up
<1>p. \A z \in Reached : parent[z] # Null => z \in Reached \ {entry} /\ parent[z] \in Reached
  BY <1>n
<1>1. Up(entry) = {entry} /\ \A b \in Reached \ {entry} : Up(b) = {b} \cup Up(parent[b])
  BY <1>n, <1>b, <1>c
<1>2. ASSUME NEW y \in Reached
      PROVE  /\ Up(y) \subseteq Reached /\ y \in Up(y)
             /\ \A x \in Up(y) : Up(x) \subseteq Up(y) /\ x <= y /\ dfn(x) <= dfn(y)
  <2> DEFINE S == {z \in Reached : z <= y /\ dfn(z) <= dfn(y)}
  <2>0. y \in Nat /\ dfn(y) \in Nat /\ \A z \in Reached : z \in Nat /\ dfn(z) \in Nat
    BY <1>n, <1>b
  <2>1. y \in S /\ S \in SUBSET Block
    <3>1. y <= y /\ dfn(y) <= dfn(y)
      BY <2>0
    <3>2. S \subseteq Reached
      OBVIOUS
    <3> QED BY <1>n, <3>1, <3>2
  <2>2. ASSUME NEW z \in S, parent[z] # Null PROVE parent[z] \in S
    <3>1. z \in Reached \ {entry} /\ parent[z] \in Reached /\ parent[z] < z /\ dfn(parent[z]) < dfn(z)
      BY <1>n, <1>p, <2>2
    <3>2. z <= y /\ dfn(z) <= dfn(y) /\ z \in Nat /\ dfn(z) \in Nat /\ parent[z] \in Nat /\ dfn(parent[z]) \in Nat
      BY <2>0, <3>1
    <3>3. parent[z] <= y /\ dfn(parent[z]) <= dfn(y)
      BY <2>0, <3>1, <3>2
    <3> QED BY <3>1, <3>3
  <2> HIDE DEF S
  <2>3. Up(y) \subseteq S
    BY <1>b, <1>c, <2>1, <2>2
  <2> QED BY <1>b, <1>c, <2>3 DEF S
<1>3. ASSUME NEW y \in Reached, NEW x \in Up(y), NEW z \in Up(y), x <= z \/ dfn(x) <= dfn(z)
      PROVE  x \in Up(z)
  <2>1. x \in Reached /\ z \in Reached
    BY <1>2
  <2>2. CASE x \in Up(z)
    BY <2>2
  <2>3. CASE z \in Up(x)
    <3>1. z <= x /\ dfn(z) <= dfn(x)
      BY <1>2, <2>1, <2>3
    <3>2. x = z
      <4>1. x = z \/ dfn(x) = dfn(z)
        BY <1>3, <1>n, <1>b, <2>1, <3>1
      <4> QED BY <1>n, <2>1, <4>1
    <3> QED BY <1>2, <2>1, <3>2
  <2> QED BY <1>b, <1>c, <2>2, <2>3
<1>4. ASSUME NEW y \in Reached, NEW x \in Up(y), x # y
      PROVE  \E c \in Up(y) \ {entry} : parent[c] = x
  <2> DEFINE S == {z \in Up(y) : z = y \/ \E c \in Up(y) \ {entry} : parent[c] = z}
  <2>1. y \in S /\ S \in SUBSET Block
    BY <1>b, <1>c
  <2>2. ASSUME NEW z \in S, parent[z] # Null PROVE parent[z] \in S
    <3>1. z \in Reached /\ z # entry /\ parent[z] \in Up(y)
      BY <1>2, <1>b, <1>c, <1>n, <2>2
    <3> QED BY <3>1
  <2> HIDE DEF S
  <2>3. Up(y) \subseteq S
    BY <1>b, <1>c, <2>1, <2>2
  <2> QED BY <1>4, <2>3 DEF S
<1>5. ASSUME NEW z \in Reached, NEW x \in Up(z), NEW y \in Reached,
             dfn(x) <= dfn(y), dfn(y) <= dfn(z)
      PROVE  x \in Up(y)
  <2> DEFINE n == dfn(z) - dfn(x)
             T == {m \in 0 .. n : x \in Up(dfnVector[dfn(z) - m])}
  <2>1. x \in Reached /\ dfn(x) \in Nat /\ dfn(y) \in Nat /\ dfn(z) \in Nat /\ dfn(x) >= 1
        /\ dfn(z) <= Len(dfnVector) /\ n \in Nat
    <3>1. x \in Reached
      BY <1>2
    <3>2. dfn(x) \in 1 .. Len(dfnVector) /\ dfn(y) \in Nat /\ dfn(z) \in 1 .. Len(dfnVector)
      BY <1>n, <3>1
    <3> QED BY <1>5, <1>t, <3>1, <3>2
  <2>2. 0 \in T
    <3>1. dfn(z) - 0 = dfn(z) /\ 0 \in 0 .. n
      BY <2>1
    <3> QED BY <1>n, <3>1
  <2>3. ASSUME NEW m \in 0 .. n - 1, m \in T PROVE m + 1 \in T
    <3> DEFINE j == dfn(z) - m
    <3>1. /\ j \in 2 .. Len(dfnVector) /\ j \in 1 .. Len(dfnVector) /\ j # dfn(x) /\ j # 1
          /\ dfn(z) - (m + 1) = j - 1 /\ j - 1 \in 1 .. Len(dfnVector) /\ m + 1 \in 0 .. n
      BY <1>t, <2>1
    <3>2. x \in Up(dfnVector[j])
      BY <2>3
    <3> HIDE DEF j
    <3>3. dfnVector[j] \in Reached \ {entry} /\ x # dfnVector[j]
      BY <1>n, <3>1
    <3>4. x \in Up(parent[dfnVector[j]])
      BY <1>1, <3>2, <3>3
    <3>5. parent[dfnVector[j]] \in Up(dfnVector[j - 1])
      BY <3>1 DEF SearchOrder, Favourable, Preorder
    <3>6. Up(parent[dfnVector[j]]) \subseteq Up(dfnVector[j - 1])
      BY <1>n, <1>2, <3>1, <3>5
    <3> QED BY <3>1, <3>4, <3>6
  <2> HIDE DEF T
  <2>4. \A m \in 0 .. n : m \in T
    <3> HIDE DEF n
    <3> QED BY <2>1, <2>2, <2>3, UpTo
  <2>5. dfn(z) - dfn(y) \in 0 .. n /\ dfn(z) - (dfn(z) - dfn(y)) = dfn(y)
    BY <1>5, <2>1
  <2>6. dfn(z) - dfn(y) \in T
    BY <2>4, <2>5
  <2>7. x \in Up(dfnVector[dfn(z) - (dfn(z) - dfn(y))])
    BY <2>6 DEF T
  <2> QED BY <1>n, <2>5, <2>7
<1>6. ASSUME NEW v \in Reached, NEW b \in Reached, b \in ToSet(succ[v]), dfn(v) < dfn(b)
      PROVE  v \in Up(parent[b])
  <2> DEFINE up == Climb(parent, b)
             T == {n \in 0 .. N : n >= 1 /\ up[n] # Null => up[n] \in Up(parent[b])}
  <2>1. /\ N \in Nat /\ b \in Block0 /\ b # Null /\ b # entry /\ parent[b] \in Reached
    <3>1. b # entry
      BY <1>6, <1>n
    <3> QED BY <1>b, <1>n, <3>1, Blocks
  <2>2. /\ up[0] = b
        /\ \A n \in 1 .. N : up[n] = IF up[n - 1] = Null THEN Null ELSE parent[up[n - 1]]
    BY <1>t, <2>1, ClimbSteps
  <2>3. PICK n \in 1 .. N : up[n] = v
    <3>1. dfn(v) \in DOMAIN dfnVector /\ dfn(b) \in DOMAIN dfnVector
      BY <1>n, Types DEF DTInv
    <3>2. dfnVector[dfn(v)] = v /\ dfnVector[dfn(b)] = b
      BY <1>n
    <3>3. \E n \in 1 .. N : Climb(parent, dfnVector[dfn(b)])[n] = dfnVector[dfn(v)]
      BY <1>6, <3>1, <3>2 DEF Favourable, DepthFirst
    <3> QED BY <3>2, <3>3
  <2> HIDE DEF up
  <2>4. 0 \in T
    BY <2>1
  <2>5. ASSUME NEW m \in 0 .. N - 1, m \in T PROVE m + 1 \in T
    <3>1. m + 1 \in 1 .. N /\ m + 1 \in 0 .. N /\ (m + 1) - 1 = m
      BY <2>1
    <3>2. up[m + 1] = IF up[m] = Null THEN Null ELSE parent[up[m]]
      BY <2>2, <3>1
    <3>3. CASE m = 0
      <4>1. up[m + 1] = parent[b]
        BY <2>1, <2>2, <3>2, <3>3
      <4> QED BY <1>2, <2>1, <3>1, <4>1
    <3>4. CASE m # 0 /\ up[m] # Null
      <4>1. up[m] \in Up(parent[b])
        BY <2>5, <3>4
      <4> QED BY <1>b, <1>c, <2>1, <3>1, <3>2, <3>4, <4>1
    <3>5. CASE up[m] = Null
      BY <3>1, <3>2, <3>5
    <3> QED BY <3>3, <3>4, <3>5
  <2> HIDE DEF T
  <2>6. n \in T
    <3>1. \A m \in 0 .. N : m \in T
      BY <2>1, <2>4, <2>5, UpTo
    <3>2. n \in 0 .. N
      BY <2>1
    <3> QED BY <3>1, <3>2
  <2> QED BY <1>b, <2>3, <2>6 DEF T
<1> QED BY <1>1, <1>2, <1>3, <1>4, <1>5, <1>6 DEF Chains

-----------------------------------------------------------------------------
(* Semidominators and dominance.                                           *)

(* A way down the tree avoids what is not above its end; and what has a     *)
(* lower number than its start.                                             *)
LEMMA TreePaths ==
  ASSUME DTTypeOK, Numbered, Chains, NEW x
  PROVE  /\ \A y \in Reached : x \notin Up(y) => y \in ReachedWithout(x)
         /\ x \in Reached =>
              \A v \in Reached : \A u \in Up(v) :
                u \in ReachedWithout(x) /\ dfn(x) < dfn(u) => v \in ReachedWithout(x)
<1> DEFINE R == ReachedWithout(x)
<1>1. /\ entry # x => entry \in R
      /\ \A b \in R : \A s \in ToSet(succ[b]) : s = x \/ s \in R
  BY ReachClosed
<1> HIDE DEF R
<1>2. \A b \in Reached : dfn(b) \in Nat
  BY Types DEF Numbered
<1>3. \A b \in Reached \ {entry} : parent[b] \in Reached /\ dfn(parent[b]) < dfn(b) /\ b \in ToSet(succ[parent[b]])
  BY DEF Numbered
<1>4. /\ Up(entry) = {entry} /\ \A b \in Reached \ {entry} : Up(b) = {b} \cup Up(parent[b])
      /\ \A y \in Reached : Up(y) \subseteq Reached /\ y \in Up(y) /\ \A u \in Up(y) : dfn(u) <= dfn(y)
  BY DEF Chains
<1>5. ASSUME NEW y \in Reached, x \notin Up(y), y \notin R PROVE FALSE
  <2> DEFINE Lost == {z \in Reached : x \notin Up(z) /\ z \notin R}
             S == {dfn(z) : z \in Lost}
  <2>1. S \subseteq Nat /\ S # {}
    BY <1>2, <1>5
  <2>2. PICK m \in S : \A k \in S : m <= k
    <3> HIDE DEF S
    <3> QED BY <2>1, LeastNat
  <2>3. PICK z \in Lost : \A k \in Lost : dfn(z) <= dfn(k)
    BY <2>2
  <2>4. z # entry
    BY <1>1, <1>4, <2>3
  <2>5. parent[z] \notin Lost
    BY <1>2, <1>3, <2>3, <2>4
  <2>6. parent[z] \in R
    BY <1>3, <1>4, <2>3, <2>4, <2>5
  <2>7. z # x
    BY <1>4, <2>3
  <2> QED BY <1>1, <1>3, <2>3, <2>4, <2>6, <2>7
<1>6. ASSUME x \in Reached, NEW v \in Reached, NEW u \in Up(v), u \in R, dfn(x) < dfn(u), v \notin R
      PROVE  FALSE
  <2> DEFINE Lost == {z \in Reached : u \in Up(z) /\ z \notin R}
             S == {dfn(z) : z \in Lost}
  <2>1. S \subseteq Nat /\ S # {}
    BY <1>2, <1>6
  <2>2. PICK m \in S : \A k \in S : m <= k
    <3> HIDE DEF S
    <3> QED BY <2>1, LeastNat
  <2>3. PICK z \in Lost : \A k \in Lost : dfn(z) <= dfn(k)
    BY <2>2
  <2>4. z # entry /\ z # u
    BY <1>4, <1>6, <2>3
  <2>5. u \in Up(parent[z])
    BY <1>4, <2>3, <2>4
  <2>6. parent[z] \in R
    BY <1>2, <1>3, <2>3, <2>4, <2>5
  <2>7. z # x
    <3>1. dfn(u) <= dfn(z) /\ dfn(u) \in Nat /\ dfn(z) \in Nat /\ dfn(x) \in Nat
      BY <1>2, <1>4, <1>6, <2>3
    <3> QED BY <1>6, <3>1
  <2> QED BY <1>1, <1>3, <2>3, <2>4, <2>6, <2>7
<1> QED BY <1>5, <1>6 DEF R

(* Every block has its semidominator.                                       *)
AllSemi == \A b \in Reached \ {entry} : IsSemi(b)

(* The tree in numbers: what the lemmas below compare.                      *)
LEMMA Above ==
  ASSUME DTTypeOK, Numbered, Chains
  PROVE  /\ \A b \in Reached : b \in Nat /\ b \in Block /\ dfn(b) \in Nat /\ dfn(b) <= Len(dfnVector)
         /\ Len(dfnVector) \in Nat
         /\ \A y \in Reached : \A x \in Up(y) :
              /\ x \in Reached /\ Up(x) \subseteq Up(y)
              /\ x # y => x < y /\ dfn(x) < dfn(y) /\ y # entry
              /\ \A z \in Up(y) : x <= z => x \in Up(z)
         /\ \A b \in Reached \ {entry} : IsSemi(b) =>
              /\ sdom[b] \in Up(b) /\ sdom[b] # b /\ sdom[b] < b /\ sdom[b] \in Reached
              /\ sdom[b] \in Nat /\ sdom[b] \in Block
<1>1. \A b \in Reached : b \in Nat /\ b \in Block
  BY Blocks DEF Numbered
<1>2. \A b \in Reached : dfn(b) \in Nat /\ dfn(b) <= Len(dfnVector) /\ dfnVector[dfn(b)] = b
  BY Types DEF Numbered
<1>3. ASSUME NEW y \in Reached, NEW x \in Up(y)
      PROVE  /\ x \in Reached /\ Up(x) \subseteq Up(y) /\ x <= y /\ dfn(x) <= dfn(y)
             /\ \A z \in Up(y) : x <= z => x \in Up(z)
  BY DEF Chains
<1>4. ASSUME NEW y \in Reached, NEW x \in Up(y), x # y
      PROVE  x < y /\ dfn(x) < dfn(y) /\ y # entry
  <2>1. dfn(x) # dfn(y)
    BY <1>2, <1>3, <1>4
  <2>2. y # entry
    BY <1>4 DEF Chains
  <2>3. x \in Nat /\ y \in Nat /\ dfn(x) \in Nat /\ dfn(y) \in Nat /\ x <= y /\ dfn(x) <= dfn(y)
    BY <1>1, <1>2, <1>3
  <2> QED BY <1>4, <2>1, <2>2, <2>3
<1>5. ASSUME NEW b \in Reached \ {entry}, IsSemi(b)
      PROVE  /\ sdom[b] \in Up(b) /\ sdom[b] # b /\ sdom[b] < b /\ sdom[b] \in Reached
             /\ sdom[b] \in Nat /\ sdom[b] \in Block
  <2>1. parent[b] \in Reached /\ parent[b] < b /\ Up(b) = {b} \cup Up(parent[b])
    BY DEF Numbered, Chains
  <2>2. sdom[b] \in Up(parent[b])
    BY <1>5 DEF IsSemi
  <2>3. sdom[b] \in Reached /\ sdom[b] <= parent[b]
    BY <1>3, <2>1, <2>2
  <2>4. sdom[b] \in Nat /\ parent[b] \in Nat /\ b \in Nat
    BY <1>1, <2>1, <2>3
  <2>5. sdom[b] < b
    BY <2>1, <2>3, <2>4
  <2> QED BY <1>1, <2>1, <2>2, <2>3, <2>4, <2>5
<1>6. Len(dfnVector) \in Nat
  BY Types
<1> QED BY <1>1, <1>2, <1>3, <1>4, <1>5, <1>6

(* The first block on the way down to v that is numbered after y: its       *)
(* parent is above y.                                                       *)
LEMMA FirstBelow ==
  ASSUME DTTypeOK, Numbered, Chains, NEW y \in Reached, NEW v \in Reached, dfn(v) > dfn(y)
  PROVE  \E t \in Up(v) \ {entry} : dfn(t) > dfn(y) /\ parent[t] \in Up(v) \cap Up(y)
<1> DEFINE Later == {t \in Up(v) : dfn(t) > dfn(y)}
           S == {dfn(t) : t \in Later}
<1>a. /\ \A b \in Reached : dfn(b) \in Nat
      /\ \A x \in Up(v) : x \in Reached /\ Up(x) \subseteq Up(v)
      /\ v \in Up(v) /\ dfn(y) >= 1 /\ dfn(entry) = 1
  BY Above DEF Chains, Numbered
<1>1. S \subseteq Nat /\ S # {}
  BY <1>a
<1>2. PICK m \in S : \A k \in S : m <= k
  <2> HIDE DEF S
  <2> QED BY <1>1, LeastNat
<1>3. PICK t \in Later : \A k \in Later : dfn(t) <= dfn(k)
  BY <1>2
<1>4. t \in Up(v) /\ dfn(t) > dfn(y) /\ t \in Reached /\ dfn(t) \in Nat /\ dfn(y) \in Nat
  BY <1>a
<1>5. t # entry
  BY <1>a, <1>4
<1>6. parent[t] \in Reached /\ dfn(parent[t]) < dfn(t) /\ dfn(parent[t]) \in Nat
  BY <1>4, <1>5, <1>a DEF Numbered
<1>7. parent[t] \in Up(v)
  <2>1. parent[t] \in Up(t)
    BY <1>4, <1>5, <1>6 DEF Chains
  <2> QED BY <1>4, <1>a, <2>1
<1>8. dfn(parent[t]) <= dfn(y)
  <2>1. ASSUME parent[t] \in Later PROVE FALSE
    <3>1. dfn(t) <= dfn(parent[t])
      BY <1>3, <2>1
    <3> QED BY <1>4, <1>6, <3>1
  <2> QED BY <1>4, <1>6, <1>7, <2>1
<1>9. parent[t] \in Up(y)
  <2>1. dfn(y) <= dfn(v)
    BY <1>a
  <2> QED BY <1>7, <1>8, <2>1 DEF Chains
<1> QED BY <1>4, <1>5, <1>7, <1>9

(* A block between the semidominator of w and w does not dominate w: the    *)
(* path that gave w its semidominator goes round it.                        *)
LEMMA RoundTheMiddle ==
  ASSUME DTTypeOK, Numbered, Chains, AllSemi, NEW x \in Reached
  PROVE  \A w \in Reached \ {entry} : x \in Up(w) /\ x # w /\ sdom[w] < x => w \in ReachedWithout(x)
<1> DEFINE R == ReachedWithout(x)
           Lost == {w \in Reached \ {entry} : x \in Up(w) /\ x # w /\ sdom[w] < x /\ w \notin R}
           S == {Len(dfnVector) - dfn(w) : w \in Lost}
<1>1. \A b \in R : \A s \in ToSet(succ[b]) : s = x \/ s \in R
  BY ReachClosed
<1>2. /\ \A y \in Reached : x \notin Up(y) => y \in R
      /\ \A v \in Reached : \A u \in Up(v) : u \in R /\ dfn(x) < dfn(u) => v \in R
  BY TreePaths
<1>a. /\ \A b \in Reached : b \in Nat /\ dfn(b) \in Nat /\ dfn(b) <= Len(dfnVector)
      /\ Len(dfnVector) \in Nat
      /\ \A y \in Reached : \A z \in Up(y) : z \in Reached /\ (z # y => z < y /\ dfn(z) < dfn(y) /\ y # entry)
  BY Above
<1> HIDE DEF R
<1>3. SUFFICES ASSUME Lost # {} PROVE FALSE
  BY DEF R
<1>4. S \subseteq Nat /\ S # {}
  BY <1>3, <1>a
<1>5. PICK m \in S : \A k \in S : m <= k
  <2> HIDE DEF S
  <2> QED BY <1>4, LeastNat
<1>6. PICK w \in Lost : \A k \in Lost : dfn(k) <= dfn(w)
  <2>1. PICK w \in Lost : m = Len(dfnVector) - dfn(w)
    OBVIOUS
  <2>2. \A k \in Lost : m <= Len(dfnVector) - dfn(k)
    BY <1>5
  <2>3. \A k \in Lost : dfn(k) <= dfn(w)
    <3> SUFFICES ASSUME NEW k \in Lost PROVE dfn(k) <= dfn(w)
      OBVIOUS
    <3>1. Len(dfnVector) - dfn(w) <= Len(dfnVector) - dfn(k)
      BY <2>1, <2>2
    <3>2. dfn(w) \in Nat /\ dfn(k) \in Nat
      BY <1>a
    <3> QED BY <1>a, <3>1, <3>2
  <2> QED BY <2>3
<1>w. w \in Reached \ {entry} /\ x \in Up(w) /\ x # w /\ sdom[w] < x /\ w \notin R
  OBVIOUS
<1>7. PICK v \in Preds(w) :
        \/ dfn(v) < dfn(w) /\ sdom[w] = v
        \/ \E u \in Up(v) : dfn(u) > dfn(w) /\ sdom[w] = sdom[u]
  BY <1>w DEF AllSemi, IsSemi
<1>8. v \in Reached /\ w \in ToSet(succ[v])
  BY <1>w DEF Numbered, Preds
<1>9. v \notin R
  BY <1>1, <1>8, <1>w
<1>10. CASE dfn(v) < dfn(w) /\ sdom[w] = v
  <2>1. x \in Up(v)
    BY <1>2, <1>8, <1>9
  <2>2. x = v \/ x < v
    BY <1>8, <1>a, <2>1
  <2>3. x \in Nat /\ v \in Nat /\ v < x
    BY <1>10, <1>8, <1>a, <1>w
  <2> QED BY <2>2, <2>3
<1>11. ASSUME NEW u \in Up(v), dfn(u) > dfn(w), sdom[w] = sdom[u] PROVE FALSE
  <2>1. u \in Reached /\ dfn(x) < dfn(w) /\ dfn(x) \in Nat /\ dfn(w) \in Nat /\ dfn(u) \in Nat
    BY <1>8, <1>a, <1>w
  <2>2. dfn(x) < dfn(u) /\ x # u
    BY <1>11, <2>1
  <2>3. u \notin R
    BY <1>2, <1>8, <1>9, <2>2
  <2>4. x \in Up(u)
    BY <1>2, <2>1, <2>3
  <2>5. u # entry
    BY <1>a, <2>1, <2>2, <2>4
  <2>6. u \in Lost
    BY <1>11, <1>w, <2>1, <2>2, <2>3, <2>4, <2>5
  <2>7. dfn(u) <= dfn(w)
    BY <1>6, <2>6
  <2> QED BY <1>11, <2>1, <2>7
<1> QED BY <1>7, <1>10, <1>11

(* x is above w, and no block between them has a semidominator above x.     *)
Bounds(x, w) == x \in Up(w) /\ x # w /\ \A u \in Up(w) : u > x => sdom[u] >= x

(* These are the blocks that dominate w.                                    *)
LEMMA SemiDominance ==
  ASSUME DTTypeOK, Numbered, Chains, AllSemi
  PROVE  \A w \in Reached : \A x : StrictlyDominates(x, w) <=> Bounds(x, w)
<1>a. /\ \A b \in Reached : b \in Nat /\ b \in Block /\ dfn(b) \in Nat /\ dfn(b) <= Len(dfnVector)
      /\ \A y \in Reached : \A x \in Up(y) :
           /\ x \in Reached /\ Up(x) \subseteq Up(y)
           /\ x # y => x < y /\ dfn(x) < dfn(y) /\ y # entry
           /\ \A z \in Up(y) : x <= z => x \in Up(z)
      /\ \A b \in Reached \ {entry} : /\ sdom[b] \in Up(b) /\ sdom[b] < b /\ sdom[b] \in Reached
                                      /\ sdom[b] \in Nat
  BY Above DEF AllSemi
<1>1. ASSUME NEW w \in Reached, NEW x, StrictlyDominates(x, w) PROVE Bounds(x, w)
  <2>1. x # w /\ w \notin ReachedWithout(x)
    BY <1>1 DEF StrictlyDominates
  <2>2. x \in Up(w) /\ x \in Reached
    BY <1>a, <2>1, TreePaths
  <2>3. ASSUME NEW u \in Up(w), u > x PROVE sdom[u] >= x
    <3>1. u \in Reached /\ x \in Nat /\ u \in Nat /\ x \in Up(u) /\ x # u
      BY <1>a, <2>2, <2>3
    <3>2. u # entry /\ dfn(x) < dfn(u) /\ sdom[u] \in Nat
      BY <1>a, <3>1
    <3>3. ~(sdom[u] < x)
      <4>1. ASSUME sdom[u] < x PROVE FALSE
        <5>1. u \in ReachedWithout(x)
          BY <2>2, <3>1, <3>2, <4>1, RoundTheMiddle
        <5>2. w \in ReachedWithout(x)
          BY <2>2, <3>2, <5>1, TreePaths
        <5> QED BY <2>1, <5>2
      <4> QED BY <4>1
    <3> QED BY <3>1, <3>2, <3>3
  <2> QED BY <2>1, <2>2, <2>3 DEF Bounds
<1>2. ASSUME NEW w \in Reached, NEW x, Bounds(x, w) PROVE StrictlyDominates(x, w)
  <2> DEFINE Bad == {y \in Reached : Bounds(x, y)}
             X == Block \ (Bad \cup {x})
  <2>0. x \in Reached /\ x \in Nat
    BY <1>2, <1>a DEF Bounds
  <2>1. entry = x \/ entry \in X
    <3>1. ~Bounds(x, entry)
      BY DEF Bounds, Chains
    <3> QED BY <3>1, Types
  <2>2. ASSUME NEW v \in X, NEW y \in ToSet(succ[v]), y \in Bad PROVE FALSE
    <3>1. y \in Reached /\ x \in Up(y) /\ x # y /\ \A u \in Up(y) : u > x => sdom[u] >= x
      BY <2>2 DEF Bounds
    <3>2. v \in Preds(y)
      BY <2>2 DEF Preds
    <3>3. v \in Reached /\ v # x /\ ~Bounds(x, v)
      BY <2>2, <3>1, <3>2 DEF Numbered
    <3>4. y # entry /\ y > x /\ y \in Nat /\ y \in Up(y)
      BY <1>a, <2>0, <3>1 DEF Chains
    <3>5. sdom[y] >= x /\ sdom[y] \in Nat
      BY <1>a, <3>1, <3>4
    <3>6. /\ sdom[y] \in Up(parent[y])
          /\ IF dfn(v) < dfn(y) THEN sdom[y] <= v
             ELSE \A u \in Up(v) : dfn(u) > dfn(y) => sdom[y] <= sdom[u]
      BY <3>1, <3>2, <3>4 DEF AllSemi, IsSemi
    <3>7. CASE dfn(v) < dfn(y)
      <4>1. v \in Up(parent[y])
        BY <3>1, <3>3, <3>7, <2>2 DEF Chains
      <4>2. v \in Up(y)
        BY <3>1, <3>4, <4>1 DEF Chains
      <4>3. x <= v
        <5>1. v \in Nat /\ sdom[y] <= v
          BY <1>a, <3>3, <3>6, <3>7
        <5> QED BY <2>0, <3>5, <5>1
      <4>4. x \in Up(v)
        BY <1>a, <3>1, <4>2, <4>3
      <4>5. \A u \in Up(v) : u > x => sdom[u] >= x
        BY <1>a, <3>1, <4>2
      <4> QED BY <3>3, <4>4, <4>5 DEF Bounds
    <3>8. CASE ~(dfn(v) < dfn(y))
      <4>1. dfn(v) \in Nat /\ dfn(y) \in Nat /\ v \in Up(v)
        BY <1>a, <3>1, <3>3 DEF Chains
      <4>2. v # y
        BY <2>2, <3>3
      <4>3. dfn(v) > dfn(y)
        <5>1. dfn(v) # dfn(y)
          BY <3>1, <3>3, <4>2 DEF Numbered
        <5> QED BY <3>8, <4>1, <5>1
      <4>7. PICK t \in Up(v) \ {entry} : dfn(t) > dfn(y) /\ parent[t] \in Up(v) \cap Up(y)
        BY <3>1, <3>3, <4>3, FirstBelow
      <4>9. t \in Reached /\ sdom[t] \in Up(parent[t]) /\ Up(parent[t]) \subseteq Up(v)
        BY <1>a, <3>3, <4>7 DEF AllSemi, IsSemi
      <4>12. \A u \in Up(v) : dfn(u) > dfn(y) => sdom[y] <= sdom[u]
        BY <3>6, <3>8
      <4>13. \A u \in Up(v) : dfn(u) > dfn(y) => sdom[u] >= x
        <5> SUFFICES ASSUME NEW u \in Up(v), dfn(u) > dfn(y) PROVE sdom[u] >= x
          OBVIOUS
        <5>1. u \in Reached /\ u # entry
          <6>1. u \in Reached /\ dfn(u) \in Nat
            BY <1>a, <3>3
          <6>2. dfn(y) >= 1 /\ dfn(entry) = 1
            BY <3>1, <4>1 DEF Numbered
          <6> QED BY <4>1, <6>1, <6>2
        <5>2. sdom[u] \in Nat /\ sdom[y] <= sdom[u]
          BY <1>a, <4>12, <5>1
        <5> QED BY <2>0, <3>5, <5>2
      <4>14. x \in Up(v)
        <5>1. sdom[t] \in Up(y) /\ x <= sdom[t] /\ Up(sdom[t]) \subseteq Up(v)
          BY <1>a, <2>0, <3>1, <3>3, <4>7, <4>9, <4>13
        <5>2. x \in Up(sdom[t])
          BY <1>a, <3>1, <5>1
        <5> QED BY <5>1, <5>2
      <4>15. ASSUME NEW u \in Up(v), u > x PROVE sdom[u] >= x
        <5>1. CASE dfn(u) > dfn(y)
          BY <4>13, <5>1
        <5>2. CASE ~(dfn(u) > dfn(y))
          <6>1. u \in Reached /\ dfn(u) <= dfn(y) /\ dfn(y) <= dfn(v)
            BY <1>a, <3>3, <4>1, <4>3, <5>2
          <6>2. u \in Up(y)
            BY <3>1, <3>3, <6>1 DEF Chains
          <6> QED BY <3>1, <4>15, <6>2
        <5> QED BY <5>1, <5>2
      <4> QED BY <3>3, <4>14, <4>15 DEF Bounds
    <3> QED BY <3>7, <3>8
  <2>3. \A v \in X : \A y \in ToSet(succ[v]) : y = x \/ y \in X
    <3> SUFFICES ASSUME NEW v \in X, NEW y \in ToSet(succ[v]), y # x PROVE y \in X
      OBVIOUS
    <3>1. y \in Block
      BY Types, LenProperties DEF ToSet
    <3> QED BY <2>2, <3>1
  <2> HIDE DEF X
  <2>4. ReachedWithout(x) \subseteq X
    BY <2>1, <2>3, ReachLeast
  <2> QED BY <1>2, <2>4 DEF X, StrictlyDominates, Bounds
<1> QED BY <1>1, <1>2

(* If no semidominator between v and its own is higher, that one is its     *)
(* immediate dominator; otherwise v has the immediate dominator of one of   *)
(* the highest.                                                             *)
LEMMA RelativeIsImmediate ==
  ASSUME DTTypeOK, Numbered, Chains, AllSemi, NEW v \in Reached \ {entry}
  PROVE  /\ (\A u \in Up(v) : u > sdom[v] => sdom[u] >= sdom[v]) => IsIdom(sdom[v], v)
         /\ \A u \in Up(v) : \A i :
              /\ u > sdom[v] /\ sdom[u] < sdom[v]
              /\ \A y \in Up(v) : y > sdom[v] => sdom[y] >= sdom[u]
              /\ IsIdom(i, u)
              => IsIdom(i, v)
<1>a. /\ \A b \in Reached : b \in Nat /\ b \in Block
      /\ \A y \in Reached : \A x \in Up(y) :
           /\ x \in Reached /\ Up(x) \subseteq Up(y)
           /\ x # y => x < y /\ y # entry
           /\ \A z \in Up(y) : x <= z => x \in Up(z)
      /\ \A b \in Reached \ {entry} : /\ sdom[b] \in Up(b) /\ sdom[b] # b /\ sdom[b] < b
                                      /\ sdom[b] \in Reached /\ sdom[b] \in Nat
      /\ \A y \in Reached : y \in Up(y)
  BY Above DEF AllSemi, Chains
<1>d. \A w \in Reached : \A x : StrictlyDominates(x, w) <=>
        x \in Up(w) /\ x # w /\ \A u \in Up(w) : u > x => sdom[u] >= x
  BY SemiDominance DEF Bounds
<1>1. ASSUME \A u \in Up(v) : u > sdom[v] => sdom[u] >= sdom[v]
      PROVE  IsIdom(sdom[v], v)
  <2> DEFINE p == sdom[v]
  <2>p. p \in Up(v) /\ p # v /\ p < v /\ p \in Reached /\ p \in Nat
    BY <1>a
  <2> HIDE DEF p
  <2>1. StrictlyDominates(p, v)
    BY <1>1, <1>d, <2>p DEF p
  <2>2. ASSUME NEW c \in Block, StrictlyDominates(c, v), c # p PROVE StrictlyDominates(c, p)
    <3>1. c \in Up(v) /\ c # v /\ \A u \in Up(v) : u > c => sdom[u] >= c
      BY <1>d, <2>2
    <3>2. c \in Nat /\ c < v
      BY <1>a, <3>1
    <3>3. p >= c
      BY <1>a, <3>1, <3>2 DEF p
    <3>4. c \in Up(p) /\ Up(p) \subseteq Up(v)
      BY <1>a, <2>p, <3>1, <3>3
    <3> QED BY <1>d, <2>p, <2>2, <3>1, <3>4
  <2> QED BY <2>1, <2>2 DEF IsIdom, p
<1>2. ASSUME NEW u \in Up(v), NEW i, u > sdom[v], sdom[u] < sdom[v],
             \A y \in Up(v) : y > sdom[v] => sdom[y] >= sdom[u],
             IsIdom(i, u)
      PROVE  IsIdom(i, v)
  <2> DEFINE p == sdom[v]
  <2>p. p \in Up(v) /\ p # v /\ p < v /\ p \in Reached /\ p \in Nat
    BY <1>a
  <2>u. u \in Reached /\ u \in Nat /\ u # entry /\ Up(u) \subseteq Up(v) /\ u \in Up(u)
    <3>1. u \in Reached /\ u \in Nat /\ Up(u) \subseteq Up(v) /\ u \in Up(u)
      BY <1>a
    <3>2. p \in Up(u) /\ p # u
      BY <1>2, <1>a, <2>p, <3>1
    <3> QED BY <1>a, <3>1, <3>2
  <2>s. sdom[u] \in Nat /\ sdom[u] < u
    BY <1>a, <2>u
  <2> HIDE DEF p
  <2>h. /\ u > p /\ sdom[u] < p
        /\ \A y \in Up(v) : y > p => sdom[y] >= sdom[u]
    BY <1>2 DEF p
  <2>i. /\ i \in Up(u) /\ i # u /\ \A y \in Up(u) : y > i => sdom[y] >= i
        /\ StrictlyDominates(i, u)
        /\ \A c \in Block : StrictlyDominates(c, u) => c = i \/ StrictlyDominates(c, i)
    <3>1. StrictlyDominates(i, u) /\ \A c \in Block : StrictlyDominates(c, u) => c = i \/ StrictlyDominates(c, i)
      BY <1>2 DEF IsIdom
    <3> QED BY <1>d, <2>u, <3>1
  <2>1. i \in Reached /\ i \in Nat /\ i < u /\ i \in Up(v) /\ i <= sdom[u] /\ i # v
    <3>1. i \in Reached /\ i \in Nat /\ i < u /\ i \in Up(v)
      BY <1>a, <2>u, <2>i
    <3>2. sdom[u] >= i
      BY <2>u, <2>i, <3>1
    <3>3. i < p
      BY <2>h, <2>p, <2>s, <3>1, <3>2
    <3>4. v \in Nat
      BY <1>a
    <3> QED BY <2>p, <2>s, <3>1, <3>2, <3>3, <3>4
  <2>2. ASSUME NEW y \in Up(v), y > i PROVE sdom[y] >= i
    <3>y. y \in Reached /\ y \in Nat
      BY <1>a
    <3>1. CASE y \in Up(u)
      BY <2>2, <2>i, <3>1
    <3>2. CASE y \notin Up(u)
      <4>1. y > u
        <5>1. ~(y <= u)
          BY <1>a, <3>2
        <5> QED BY <2>u, <3>y, <5>1
      <4>2. y > p
        BY <2>h, <2>p, <2>u, <3>y, <4>1
      <4>3. sdom[y] >= sdom[u]
        BY <2>h, <4>2
      <4>4. y # entry
        <5>1. u \in Up(y) /\ u # y
          BY <1>a, <2>u, <3>y, <4>1
        <5> QED BY <1>a, <3>y, <5>1
      <4>5. sdom[y] \in Nat
        BY <1>a, <3>y, <4>4
      <4> QED BY <2>1, <2>s, <4>3, <4>5
    <3> QED BY <3>1, <3>2
  <2>3. StrictlyDominates(i, v)
    BY <1>d, <2>1, <2>2
  <2>4. ASSUME NEW c \in Block, StrictlyDominates(c, v) PROVE c = i \/ StrictlyDominates(c, i)
    <3>1. c \in Up(v) /\ c # v /\ \A y \in Up(v) : y > c => sdom[y] >= c
      BY <1>d, <2>4
    <3>2. c \in Nat /\ c < v /\ v \in Up(v)
      BY <1>a, <3>1
    <3>3. p >= c
      BY <3>1, <3>2 DEF p
    <3>4. c < u
      BY <2>h, <2>p, <2>u, <3>2, <3>3
    <3>5. c \in Up(u) /\ c # u
      BY <1>a, <2>u, <3>1, <3>2, <3>4
    <3>6. StrictlyDominates(c, u)
      BY <1>d, <2>u, <3>1, <3>5
    <3> QED BY <2>i, <3>6
  <2> QED BY <2>3, <2>4 DEF IsIdom
<1> QED BY <1>1, <1>2

-----------------------------------------------------------------------------
(* eval.                                                                   *)

(* With the links lo left unlinked, eval finds on the chain of u, as far as *)
(* it is linked, a block with the least semidominator.                      *)
LEMMA EvalOnTheChain ==
  ASSUME DTTypeOK, Numbered, Chains, NEW lo \in Nat,
         NEW anc \in [Block0 -> Block0], NEW sd \in [Block0 -> Block0],
         \A b \in Reached : anc[b] = IF dfn(b) > lo THEN parent[b] ELSE Null,
         NEW u \in Reached, Ends(anc, u)
  PROVE  /\ Eval(anc, sd, u) \in Up(u)
         /\ Eval(anc, sd, u) = u \/ dfn(Eval(anc, sd, u)) > lo
         /\ \A x \in Up(u) : (x = u \/ dfn(x) > lo) /\ x # entry => sd[Eval(anc, sd, u)] <= sd[x]
<1> DEFINE up == Climb(anc, u)
           seen == {n \in 0 .. N : up[n] # Null /\ (n = 0 \/ anc[up[n]] # Null)}
           Least(n) == \A m \in seen : sd[up[n]] < sd[up[m]] \/ (sd[up[n]] = sd[up[m]] /\ n <= m)
           values == {sd[up[n]] : n \in seen}
<1>1. /\ N \in Nat /\ u \in Block /\ u \in Block0 /\ u # Null
      /\ \A b \in Reached : b # Null /\ b \in Block
      /\ Null = 0
  BY Blocks DEF Numbered, Null
<1>2. /\ up \in [0 .. N -> Block0] /\ up[0] = u
      /\ \A n \in 1 .. N : up[n] = IF up[n - 1] = Null THEN Null ELSE anc[up[n - 1]]
  BY <1>1, ClimbSteps
<1>3. Eval(anc, sd, u) = up[CHOOSE n \in seen : Least(n)]
  BY DEF Eval
<1>e. up[N] = Null
  BY DEF Ends
<1>a. /\ \A b \in Reached : dfn(b) \in Nat /\ Up(b) \subseteq Reached /\ b \in Up(b)
      /\ \A y \in Reached : \A x \in Up(y) : Up(x) \subseteq Up(y)
      /\ parent[entry] = Null
      /\ \A b \in Reached \ {entry} : parent[b] \in Reached /\ dfn(parent[b]) < dfn(b)
                                      /\ Up(b) = {b} \cup Up(parent[b])
  BY Above DEF Numbered, Chains
<1> HIDE DEF up
<1>4. \A n \in 0 .. N : up[n] # Null => up[n] \in Up(u)
  <2> DEFINE T == {n \in 0 .. N : up[n] # Null => up[n] \in Up(u)}
  <2>1. 0 \in T
    BY <1>1, <1>2, <1>a
  <2>2. ASSUME NEW n \in 0 .. N - 1, n \in T PROVE n + 1 \in T
    <3>1. n + 1 \in 1 .. N /\ n + 1 \in 0 .. N /\ (n + 1) - 1 = n
      BY <1>1
    <3>2. up[n + 1] = IF up[n] = Null THEN Null ELSE anc[up[n]]
      BY <1>2, <3>1
    <3>3. ASSUME up[n + 1] # Null PROVE up[n + 1] \in Up(u)
      <4>1. up[n] \in Up(u) /\ up[n] \in Reached /\ up[n + 1] = anc[up[n]]
        BY <1>a, <2>2, <3>2, <3>3
      <4>2. up[n + 1] = parent[up[n]] /\ up[n] # entry
        BY <1>a, <3>3, <4>1
      <4>3. parent[up[n]] \in Up(up[n])
        BY <1>a, <4>1, <4>2
      <4> QED BY <1>a, <4>1, <4>2, <4>3
    <3> QED BY <3>1, <3>3
  <2> HIDE DEF T
  <2>3. \A n \in 0 .. N : n \in T
    BY <1>1, <2>1, <2>2, UpTo
  <2> QED BY <2>3 DEF T
<1>5. 0 \in seen
  BY <1>1, <1>2
<1>6. \A n \in seen : n \in Nat /\ up[n] \in Up(u) /\ up[n] \in Reached /\ sd[up[n]] \in Nat
                      /\ (up[n] = u \/ dfn(up[n]) > lo)
  <2> SUFFICES ASSUME NEW n \in seen
               PROVE  n \in Nat /\ up[n] \in Up(u) /\ up[n] \in Reached /\ sd[up[n]] \in Nat
                      /\ (up[n] = u \/ dfn(up[n]) > lo)
    OBVIOUS
  <2>1. n \in Nat /\ up[n] \in Up(u) /\ up[n] \in Reached
    BY <1>1, <1>4, <1>a
  <2>2. sd[up[n]] \in Nat
    BY <1>1, <2>1, Blocks
  <2>3. CASE n = 0
    BY <1>2, <2>1, <2>2, <2>3
  <2>4. CASE anc[up[n]] # Null
    BY <2>1, <2>2, <2>4
  <2> QED BY <2>3, <2>4
<1> HIDE DEF seen
<1>7. \E n \in seen : Least(n)
  <2>1. values \subseteq Nat /\ values # {}
    BY <1>5, <1>6
  <2>2. PICK w \in values : \A y \in values : w <= y
    <3> HIDE DEF values
    <3> QED BY <2>1, LeastNat
  <2> DEFINE places == {n \in seen : sd[up[n]] = w}
  <2>3. places \subseteq Nat /\ places # {}
    BY <1>6
  <2>4. PICK n \in places : \A m \in places : n <= m
    <3> HIDE DEF places
    <3> QED BY <2>3, LeastNat
  <2>5. \A m \in seen : sd[up[n]] < sd[up[m]] \/ (sd[up[n]] = sd[up[m]] /\ n <= m)
    <3> SUFFICES ASSUME NEW m \in seen, ~(sd[up[n]] < sd[up[m]])
                 PROVE  sd[up[n]] = sd[up[m]] /\ n <= m
      OBVIOUS
    <3>1. sd[up[n]] = w /\ sd[up[n]] <= sd[up[m]] /\ sd[up[n]] \in Nat /\ sd[up[m]] \in Nat
      BY <1>6, <2>2
    <3>2. sd[up[n]] = sd[up[m]]
      BY <3>1
    <3> QED BY <2>4, <3>1, <3>2
  <2> QED BY <2>5
<1> DEFINE k == CHOOSE n \in seen : Least(n)
<1>8. k \in seen /\ Least(k)
  BY <1>7
<1> HIDE DEF k
<1>9. /\ Eval(anc, sd, u) = up[k] /\ up[k] \in Up(u) /\ up[k] \in Reached /\ sd[up[k]] \in Nat
      /\ (up[k] = u \/ dfn(up[k]) > lo)
      /\ \A m \in seen : sd[up[k]] <= sd[up[m]]
  <2>1. Eval(anc, sd, u) = up[k]
    BY <1>3 DEF k
  <2>2. \A m \in seen : sd[up[k]] <= sd[up[m]]
    <3> SUFFICES ASSUME NEW m \in seen PROVE sd[up[k]] <= sd[up[m]]
      OBVIOUS
    <3>1. sd[up[k]] \in Nat /\ sd[up[m]] \in Nat
      BY <1>6, <1>8
    <3> QED BY <1>8, <3>1
  <2> QED BY <1>6, <1>8, <2>1, <2>2
<1>10. ASSUME NEW x \in Up(u), x = u \/ dfn(x) > lo, x # entry PROVE \E m \in seen : up[m] = x
  <2>1. CASE x = u
    BY <1>2, <1>5, <2>1
  <2>2. CASE dfn(x) > lo
    <3> DEFINE S == {z \in Reached : dfn(z) <= lo \/ \E m \in 0 .. N : up[m] = z}
    <3>1. u \in S /\ S \in SUBSET Block
      <4>1. 0 \in 0 .. N
        BY <1>1
      <4> QED BY <1>1, <1>2, <4>1
    <3>2. ASSUME NEW z \in S, parent[z] # Null PROVE parent[z] \in S
      <4>1. z \in Reached /\ z # entry /\ parent[z] \in Reached /\ dfn(parent[z]) < dfn(z)
            /\ dfn(z) \in Nat /\ dfn(parent[z]) \in Nat
        BY <1>a, <3>2
      <4>2. CASE dfn(z) <= lo
        BY <4>1, <4>2
      <4>3. CASE dfn(z) > lo
        <5>1. PICK m \in 0 .. N : up[m] = z
          BY <4>1, <4>3, <3>2
        <5>2. m # N /\ z # Null
          BY <1>1, <1>e, <4>1, <5>1
        <5>3. m + 1 \in 1 .. N /\ m + 1 \in 0 .. N /\ (m + 1) - 1 = m
          BY <1>1, <5>2
        <5>4. up[m + 1] = anc[z]
          BY <1>2, <5>1, <5>2, <5>3
        <5> QED BY <4>1, <4>3, <5>3, <5>4
      <4> QED BY <4>1, <4>2, <4>3
    <3> HIDE DEF S
    <3>3. Up(u) \subseteq S
      <4>1. parent \in [Block0 -> Block0]
        BY Types
      <4> QED BY <1>1, <3>1, <3>2, <4>1, ChainLeast DEF Up
    <3>4. x \in Reached /\ dfn(x) \in Nat
      BY <1>a
    <3>5. PICK m \in 0 .. N : up[m] = x
      BY <2>2, <3>3, <3>4 DEF S
    <3>6. anc[x] # Null
      BY <1>1, <1>10, <1>a, <2>2, <3>4
    <3>7. m \in seen
      BY <1>1, <3>4, <3>5, <3>6 DEF seen
    <3> QED BY <3>5, <3>7
  <2> QED BY <1>10, <2>1, <2>2
<1> QED BY <1>9, <1>10

-----------------------------------------------------------------------------
(* The loops.                                                              *)

(* The tree and what it is compared with stay after the search.             *)
LEMMA TreeStays ==
  ASSUME UNCHANGED <<entry, succ, visited, dfnVector, parent>>
  PROVE  /\ Reached' = Reached /\ (Favourable' <=> Favourable)
         /\ \A y : Up(y)' = Up(y) /\ dfn(y)' = dfn(y) /\ Preds(y)' = Preds(y)
         /\ \A a, y : IsIdom(a, y)' <=> IsIdom(a, y)
<1>1. \A a : ReachedWithout(a)' = ReachedWithout(a)
  BY DEF ReachedWithout
<1>2. Reached' = Reached
  BY DEF Reached, ReachedWithout
<1>3. \A y : Up(y)' = Up(y) /\ dfn(y)' = dfn(y) /\ Preds(y)' = Preds(y)
  BY DEF Up, dfn, Preds
<1>4. \A a, y : StrictlyDominates(a, y)' <=> StrictlyDominates(a, y)
  BY <1>1, <1>2 DEF StrictlyDominates
<1>5. \A a, y : IsIdom(a, y)' <=> IsIdom(a, y)
  BY <1>4 DEF IsIdom
<1>6. AllocatedDownwards' <=> AllocatedDownwards
  BY <1>2 DEF AllocatedDownwards
<1>7. DepthFirst' <=> DepthFirst
  BY DEF DepthFirst
<1>8. NoDeadPreds' <=> NoDeadPreds
  BY <1>2, <1>3 DEF NoDeadPreds
<1> QED BY <1>2, <1>3, <1>5, <1>6, <1>7, <1>8 DEF Favourable

(* What the loop computes for b, the blocks numbered after b being linked,  *)
(* is its semidominator.                                                    *)
LEMMA SemiComputed ==
  ASSUME DTTypeOK, Numbered, Chains, NEW b \in Reached \ {entry},
         \A c \in Reached : IF dfn(c) > dfn(b)
                            THEN ancestor[c] = parent[c] /\ (c # entry => IsSemi(c))
                            ELSE ancestor[c] = Null /\ sdom[c] = c,
         \A q \in Preds(b) : Ends(ancestor, q),
         NEW s, s = SemiOf(b)
  PROVE  /\ s \in Up(parent[b])
         /\ \A v \in Preds(b) :
              IF dfn(v) < dfn(b) THEN s <= v
              ELSE \A u \in Up(v) : dfn(u) > dfn(b) => s <= sdom[u]
         /\ \E v \in Preds(b) :
              \/ dfn(v) < dfn(b) /\ s = v
              \/ \E u \in Up(v) : dfn(u) > dfn(b) /\ s = sdom[u]
<1> DEFINE E(q) == Eval(ancestor, sdom, q)
           below == {sdom[E(q)] : q \in Preds(b)} \cup {sdom[b]}
<1>a. /\ \A c \in Reached : c \in Nat /\ c \in Block /\ dfn(c) \in Nat
      /\ \A y \in Reached : y \in Up(y) /\ \A x \in Up(y) :
           /\ x \in Reached /\ Up(x) \subseteq Up(y) /\ dfn(x) <= dfn(y)
           /\ x # y => x < y /\ dfn(x) < dfn(y) /\ y # entry
           /\ \A z \in Up(y) : x <= z => x \in Up(z)
      /\ \A c \in Reached \ {entry} : IsSemi(c) => sdom[c] \in Up(c) /\ sdom[c] \in Nat
      /\ \A c \in Reached : dfn(c) >= 1
      /\ dfn(entry) = 1
  BY Above DEF Chains, Numbered
<1>p. /\ parent[b] \in Reached /\ parent[b] < b /\ dfn(parent[b]) < dfn(b) /\ parent[b] \in Nat
      /\ Up(b) = {b} \cup Up(parent[b]) /\ parent[b] \in Preds(b) /\ b \in ToSet(succ[parent[b]])
      /\ Preds(b) \subseteq Reached /\ b \in Nat
  BY <1>a DEF Numbered, Chains, Preds
<1>m. \A q \in Preds(b) : q \in Reached /\ Ends(ancestor, q) /\ b \in ToSet(succ[q])
  BY <1>p DEF Preds
<1>h. \A c \in Reached : ancestor[c] = IF dfn(c) > dfn(b) THEN parent[c] ELSE Null
  OBVIOUS
<1>1. \A q \in Preds(b) :
        /\ E(q) \in Up(q) /\ (E(q) = q \/ dfn(E(q)) > dfn(b))
        /\ \A x \in Up(q) : (x = q \/ dfn(x) > dfn(b)) /\ x # entry => sdom[E(q)] <= sdom[x]
  <2>1. dfn(b) \in Nat /\ ancestor \in [Block0 -> Block0] /\ sdom \in [Block0 -> Block0]
    BY <1>a, Types
  <2> QED BY <1>h, <1>m, <2>1, EvalOnTheChain
<1>s. s = CHOOSE x \in below : \A t \in below : x <= t
  BY DEF SemiOf
<1> HIDE DEF E
<1>2. \A q \in Preds(b) : dfn(q) <= dfn(b) => E(q) = q /\ sdom[E(q)] = q /\ q \in Nat
  <2> SUFFICES ASSUME NEW q \in Preds(b), dfn(q) <= dfn(b) PROVE E(q) = q /\ sdom[E(q)] = q /\ q \in Nat
    OBVIOUS
  <2>1. q \in Reached /\ E(q) \in Reached /\ dfn(E(q)) <= dfn(q)
    BY <1>1, <1>a, <1>m
  <2>2. dfn(q) \in Nat /\ dfn(E(q)) \in Nat /\ dfn(b) \in Nat
    BY <1>a, <2>1
  <2>3. E(q) = q
    BY <1>1, <2>1, <2>2
  <2>4. ~(dfn(q) > dfn(b))
    BY <2>2
  <2> QED BY <1>a, <2>1, <2>3, <2>4
<1>3. \A q \in Preds(b) : dfn(q) > dfn(b) =>
        /\ E(q) \in Up(q) /\ E(q) \in Reached \ {entry} /\ dfn(E(q)) > dfn(b)
        /\ sdom[E(q)] \in Nat /\ sdom[E(q)] \in Up(E(q))
        /\ \A u \in Up(q) : dfn(u) > dfn(b) => sdom[E(q)] <= sdom[u]
  <2> SUFFICES ASSUME NEW q \in Preds(b), dfn(q) > dfn(b)
               PROVE  /\ E(q) \in Up(q) /\ E(q) \in Reached \ {entry} /\ dfn(E(q)) > dfn(b)
                      /\ sdom[E(q)] \in Nat /\ sdom[E(q)] \in Up(E(q))
                      /\ \A u \in Up(q) : dfn(u) > dfn(b) => sdom[E(q)] <= sdom[u]
    OBVIOUS
  <2>1. q \in Reached /\ E(q) \in Up(q) /\ E(q) \in Reached /\ dfn(E(q)) > dfn(b)
    BY <1>1, <1>a, <1>m
  <2>2. \A u \in Reached : dfn(u) > dfn(b) => u # entry
    <3>1. dfn(b) \in Nat /\ dfn(b) >= 1
      BY <1>a
    <3> QED BY <1>a, <3>1
  <2>3. IsSemi(E(q))
    BY <2>1, <2>2
  <2> QED BY <1>1, <1>a, <2>1, <2>2, <2>3
<1>4. sdom[b] = b
  <2>1. ~(dfn(b) > dfn(b))
    BY <1>a
  <2> QED BY <2>1
<1>5. below \subseteq Nat /\ below # {}
  <2>1. \A q \in Preds(b) : sdom[E(q)] \in Nat
    <3> SUFFICES ASSUME NEW q \in Preds(b) PROVE sdom[E(q)] \in Nat
      OBVIOUS
    <3>1. dfn(q) \in Nat /\ dfn(b) \in Nat
      BY <1>a, <1>m
    <3>2. dfn(q) <= dfn(b) \/ dfn(q) > dfn(b)
      BY <3>1
    <3> QED BY <1>2, <1>3, <3>2
  <2> QED BY <1>4, <1>p, <2>1
<1>6. s \in below /\ \A t \in below : s <= t
  <2> HIDE DEF below
  <2>1. \E x \in below : \A t \in below : x <= t
    BY <1>5, LeastNat
  <2> QED BY <1>s, <2>1
<1>7. s \in Nat /\ s <= parent[b] /\ s < b
  <2>1. sdom[E(parent[b])] = parent[b]
    <3>1. dfn(parent[b]) <= dfn(b)
      BY <1>a, <1>p
    <3> QED BY <1>2, <1>p, <3>1
  <2>2. s <= parent[b]
    BY <1>6, <1>p, <2>1
  <2>3. s \in Nat
    BY <1>5, <1>6
  <2> QED BY <1>p, <2>2, <2>3
<1>8. PICK q \in Preds(b) : s = sdom[E(q)]
  BY <1>4, <1>6, <1>7, <1>p
<1> HIDE DEF below
<1>9. ASSUME NEW v \in Preds(b)
      PROVE  IF dfn(v) < dfn(b) THEN s <= v ELSE \A u \in Up(v) : dfn(u) > dfn(b) => s <= sdom[u]
  <2>1. s <= sdom[E(v)] /\ v \in Reached /\ dfn(v) \in Nat /\ dfn(b) \in Nat
    BY <1>6, <1>a, <1>m DEF below
  <2>2. CASE dfn(v) < dfn(b)
    <3>1. dfn(v) <= dfn(b)
      BY <2>1, <2>2
    <3> QED BY <1>2, <2>1, <2>2, <3>1
  <2>3. CASE dfn(v) = dfn(b)
    <3>1. \A u \in Up(v) : ~(dfn(u) > dfn(b))
      BY <1>a, <2>1, <2>3
    <3> QED BY <2>1, <2>3, <3>1
  <2>4. CASE dfn(v) > dfn(b)
    <3> SUFFICES ASSUME NEW u \in Up(v), dfn(u) > dfn(b) PROVE s <= sdom[u]
      BY <2>1, <2>4
    <3>1. u \in Reached \ {entry}
      <4>1. u \in Reached /\ dfn(u) # 1
        BY <1>a, <2>1
      <4> QED BY <1>a, <4>1
    <3>2. sdom[u] \in Nat
      BY <1>a, <3>1
    <3>3. sdom[E(v)] <= sdom[u] /\ sdom[E(v)] \in Nat
      BY <1>3, <2>4
    <3> QED BY <1>7, <2>1, <3>2, <3>3
  <2> QED BY <2>1, <2>2, <2>3, <2>4
<1>10. q \in Reached /\ dfn(q) \in Nat /\ dfn(b) \in Nat /\ q \in Nat
  BY <1>a, <1>m
<1>11. q # b
  <2>1. ASSUME q = b PROVE FALSE
    <3>1. s = b
      BY <1>2, <1>8, <1>10, <2>1
    <3> QED BY <1>7, <1>p, <3>1
  <2> QED BY <2>1
<1>12. CASE dfn(q) < dfn(b)
  <2>1. s = q
    <3>1. dfn(q) <= dfn(b)
      BY <1>10, <1>12
    <3> QED BY <1>2, <1>8, <3>1
  <2>2. q \in Up(parent[b])
    BY <1>10, <1>12, <1>m DEF Chains
  <2> QED BY <1>9, <1>12, <2>1, <2>2
<1>13. CASE dfn(q) > dfn(b)
  <2>1. /\ E(q) \in Up(q) /\ E(q) \in Reached /\ dfn(E(q)) > dfn(b) /\ s \in Up(E(q))
        /\ \A u \in Up(q) : dfn(u) > dfn(b) => s <= sdom[u]
    BY <1>3, <1>8, <1>13
  <2>2. s \in Up(q)
    BY <1>10, <1>a, <2>1
  <2>3. PICK t \in Up(q) \ {entry} : dfn(t) > dfn(b) /\ parent[t] \in Up(q) \cap Up(b)
    BY <1>10, <1>13, FirstBelow
  <2>4. sdom[t] \in Up(parent[t]) /\ s <= sdom[t]
    <3>1. t \in Reached \ {entry}
      BY <1>10, <1>a
    <3>2. IsSemi(t)
      BY <2>3, <3>1
    <3> QED BY <2>1, <2>3, <3>2 DEF IsSemi
  <2>5. sdom[t] \in Up(q) /\ sdom[t] \in Up(b) /\ Up(sdom[t]) \subseteq Up(b)
    <3>1. Up(parent[t]) \subseteq Up(q) /\ Up(parent[t]) \subseteq Up(b)
      BY <1>10, <1>a, <2>3
    <3> QED BY <1>a, <2>4, <3>1
  <2>6. s \in Up(sdom[t])
    BY <1>10, <1>a, <2>2, <2>4, <2>5
  <2>7. s \in Up(parent[b])
    BY <1>7, <1>p, <2>5, <2>6
  <2> QED BY <1>8, <1>9, <2>1, <2>7
<1>14. dfn(q) # dfn(b)
  BY <1>10, <1>11 DEF Numbered
<1> QED BY <1>10, <1>12, <1>13, <1>14

(* One block of the loop over the semidominators, if eval returns: b has    *)
(* the parent p and gets the semidominator s; the bucket of p is done.      *)
Iteration(b, p, s, anc, sd, done) ==
  /\ next \in 1 .. Len(dfnVector) /\ b = dfnVector[next] /\ p = parent[b] /\ s = SemiOf(b)
  /\ pc = "sdom" /\ pc' = "sdom" /\ next' = next - 1
  /\ UNCHANGED <<entry, succ, worklist, visited, dfnVector, parent, nodeDepthMap>>
  /\ \A q \in Preds(b) : Ends(ancestor, q)
  /\ \A v \in done : Ends(anc, v)
  /\ ancestor' = anc /\ anc = [ancestor EXCEPT ![b] = p]
  /\ sdom' = sd /\ sd = [sdom EXCEPT ![b] = s]
  /\ done = (IF p = Null THEN {} ELSE bucket[p] \cup (IF s = p THEN {b} ELSE {}))
  /\ bucket' = [x \in Block0 |-> IF x = p /\ p # Null THEN {}
                                 ELSE bucket[x] \cup (IF x = s THEN {b} ELSE {})]
  /\ idomMap' = [v \in Block0 |->
       IF v \in done
       THEN IF sd[Eval(anc, sd, v)] < sd[v] THEN Eval(anc, sd, v) ELSE p
       ELSE idomMap[v]]

(* An iteration of the loop is one, or eval is lost.                        *)
LEMMA LoopEffect ==
  ASSUME DTInv, SemiDominator, pc' # "diverged"
  PROVE  \E b \in Block, p, s \in Block0, anc, sd \in [Block0 -> Block0], done \in SUBSET Block :
           Iteration(b, p, s, anc, sd, done)
<1> DEFINE b == dfnVector[next]
           p == parent[b]
           s == SemiOf(b)
           sd == [sdom EXCEPT ![b] = s]
           anc == [ancestor EXCEPT ![b] = p]
           bkt == [bucket EXCEPT ![sd[b]] = @ \cup {b}]
           done == IF p = Null THEN {} ELSE bkt[p]
<1>t. DTTypeOK /\ Counters
  BY DEF DTInv
<1>1. /\ pc = "sdom" /\ next > 0 /\ next' = next - 1 /\ pc' = pc
      /\ UNCHANGED <<entry, succ, worklist, visited, dfnVector, parent, nodeDepthMap>>
      /\ \A q \in Preds(b) : Ends(ancestor, q)
      /\ \A v \in done : Ends(anc, v)
      /\ sdom' = sd /\ ancestor' = anc
      /\ bucket' = IF p = Null THEN bkt ELSE [bkt EXCEPT ![p] = {}]
      /\ idomMap' = [v \in Block0 |->
           IF v \in done
           THEN IF sd[Eval(anc, sd, v)] < sd[v] THEN Eval(anc, sd, v) ELSE p
           ELSE idomMap[v]]
  BY DEF SemiDominator, Link
<1>2. next \in 1 .. Len(dfnVector)
  BY <1>t, <1>1, Types DEF Counters
<1>3. b \in Block /\ b \in Block0 /\ p \in Block0
  <2>1. dfnVector[next] \in Block
    BY <1>t, <1>2, Types, LenProperties
  <2> QED BY <1>t, <2>1, Types, Blocks
<1>4. s \in Block0
  BY <1>t, <1>3, Types, SemiIsABlock
<1> HIDE DEF s, b
<1>5. sd \in [Block0 -> Block0] /\ anc \in [Block0 -> Block0] /\ sd[b] = s
  BY <1>t, <1>3, <1>4, Types
<1> HIDE DEF p, sd, anc
<1>6. bucket \in [Block0 -> SUBSET Block]
  BY <1>t, Types
<1>7. \A x \in Block0 : bkt[x] = bucket[x] \cup (IF x = s THEN {b} ELSE {})
  BY <1>4, <1>5, <1>6
<1>8. done = (IF p = Null THEN {} ELSE bucket[p] \cup (IF s = p THEN {b} ELSE {})) /\ done \in SUBSET Block
  BY <1>3, <1>6, <1>7
<1>9. bucket' = [x \in Block0 |-> IF x = p /\ p # Null THEN {}
                                  ELSE bucket[x] \cup (IF x = s THEN {b} ELSE {})]
  <2>1. bkt = [x \in Block0 |-> bkt[x]]
    BY <1>6
  <2> HIDE DEF bkt
  <2>2. bucket' = [x \in Block0 |-> IF x = p /\ p # Null THEN {} ELSE bkt[x]]
    BY <1>1, <1>3, <2>1
  <2> QED BY <1>7, <2>2
<1> HIDE DEF bkt, done
<1>10. /\ b = dfnVector[next] /\ p = parent[b] /\ s = SemiOf(b)
       /\ anc = [ancestor EXCEPT ![b] = p] /\ sd = [sdom EXCEPT ![b] = s]
  BY DEF b, p, s, anc, sd
<1>11. Iteration(b, p, s, anc, sd, done)
  BY <1>1, <1>2, <1>8, <1>9, <1>10 DEF Iteration
<1> QED BY <1>3, <1>4, <1>5, <1>8, <1>11

(* Every step preserves the semidominators.                                 *)
LEMMA SemiNextInv == ASSUME DTInv, SearchOrder, SemiInv, [DTNext]_dtvars PROVE SemiInv'
<1>t. DTTypeOK /\ LinksFollowTheSearch
  BY DEF DTInv
<1>1. CASE Visit
  BY <1>1 DEF Visit, SemiInv
<1>2. CASE VisitDone
  <2>1. /\ pc = "dfs" /\ pc' = "sdom" /\ next' = Len(dfnVector) /\ worklist = <<>>
        /\ UNCHANGED <<entry, succ, worklist, visited, dfnVector, parent, ancestor, sdom, bucket>>
    BY <1>2 DEF VisitDone
  <2> SUFFICES ASSUME Favourable' PROVE SemiInv'
    BY DEF SemiInv
  <2>2. Favourable /\ Reached' = Reached /\ \A y : dfn(y)' = dfn(y)
    BY <2>1, TreeStays
  <2>3. Numbered
    BY <2>1, <2>2, FavourableNumbers
  <2>4. ASSUME NEW y \in Reached'
        PROVE  ~(dfn(y)' > Unlinked') /\ ancestor'[y] = Null /\ sdom'[y] = y
    <3>1. Unlinked' = Len(dfnVector) /\ Len(dfnVector) \in Nat
      BY <1>t, <2>1, Types DEF Unlinked
    <3>2. dfn(y)' \in 1 .. Len(dfnVector) /\ dfnVector[dfn(y)'] = y
      BY <2>1, <2>2, <2>3 DEF Numbered
    <3>3. y \in ToSet(dfnVector) /\ y \in Block0
      <4>1. DOMAIN dfnVector = 1 .. Len(dfnVector)
        BY <1>t, Types
      <4>2. y \in Block
        BY <2>2, <2>3 DEF Numbered
      <4> QED BY <3>2, <4>1, <4>2, Blocks DEF ToSet
    <3>4. sdom[y] = y
      BY <2>1, <3>3 DEF SearchOrder, NothingComputed
    <3>5. ancestor[y] = Null
      BY <1>t, <2>1, <3>3 DEF LinksFollowTheSearch
    <3>6. ~(dfn(y)' > Len(dfnVector))
      BY <3>1, <3>2
    <3> QED BY <2>1, <3>1, <3>4, <3>5, <3>6
  <2> QED BY <2>4 DEF SemiInv
<1>3. CASE SemiDominator
  <2>1. CASE pc' = "diverged"
    BY <2>1 DEF SemiInv
  <2>2. CASE pc' # "diverged"
    <3>1. PICK b \in Block, p, s \in Block0, anc, sd \in [Block0 -> Block0], done \in SUBSET Block :
            Iteration(b, p, s, anc, sd, done)
      BY <1>3, <2>2, LoopEffect
    <3>0. /\ next \in 1 .. Len(dfnVector) /\ b = dfnVector[next] /\ p = parent[b] /\ s = SemiOf(b)
          /\ pc = "sdom" /\ pc' = "sdom" /\ next' = next - 1
          /\ UNCHANGED <<entry, succ, worklist, visited, dfnVector, parent, nodeDepthMap>>
          /\ \A q \in Preds(b) : Ends(ancestor, q)
          /\ ancestor' = [ancestor EXCEPT ![b] = p]
          /\ sdom' = [sdom EXCEPT ![b] = s]
      BY <3>1 DEF Iteration
    <3> SUFFICES ASSUME Favourable' PROVE SemiInv'
      BY DEF SemiInv
    <3>2. /\ Favourable /\ Reached' = Reached
          /\ \A y : Up(y)' = Up(y) /\ dfn(y)' = dfn(y) /\ Preds(y)' = Preds(y)
      BY <3>0, TreeStays
    <3>3. Numbered
      BY <3>0, <3>2, FavourableNumbers
    <3>4. Chains
      BY <3>0, <3>2, <3>3, FavourableChains
    <3>5. b \in Reached /\ dfn(b) = next /\ next \in Nat /\ Unlinked = next /\ Unlinked' = next - 1
      BY <1>t, <3>0, <3>3, Types DEF Numbered, Unlinked
    <3>6. \A c \in Reached : IF dfn(c) > dfn(b)
                             THEN ancestor[c] = parent[c] /\ (c # entry => IsSemi(c))
                             ELSE ancestor[c] = Null /\ sdom[c] = c
      BY <3>0, <3>2, <3>5 DEF SemiInv
    <3>7. \A c \in Reached : dfn(c) \in Nat /\ c \in Block0 /\ Preds(c) \subseteq Reached
                             /\ (dfn(c) = dfn(b) => c = b) /\ \A x \in Up(c) : x \in Reached
      BY <1>t, <3>3, <3>4, <3>5, Above, Blocks DEF Numbered
    <3>8. /\ ancestor'[b] = p /\ sdom'[b] = s
          /\ \A c \in Reached : c # b => ancestor'[c] = ancestor[c] /\ sdom'[c] = sdom[c]
      <4>1. ancestor \in [Block0 -> Block0] /\ sdom \in [Block0 -> Block0] /\ b \in Block0
        BY <1>t, <3>5, <3>7, Types
      <4> QED BY <3>0, <3>7, <4>1
    <3>9. ASSUME NEW y \in Reached, dfn(y) > dfn(b)
          PROVE  ancestor'[y] = parent[y] /\ (y # entry => IsSemi(y)')
      <4>1. y # b /\ dfn(y) \in Nat /\ dfn(b) \in Nat
        BY <3>5, <3>7, <3>9
      <4>2. \A u \in Reached : dfn(u) > dfn(y) => sdom'[u] = sdom[u]
        <5>1. \A u \in Reached : dfn(u) > dfn(y) => u # b
          BY <3>7, <3>9, <4>1
        <5> QED BY <3>8, <5>1
      <4>3. ASSUME IsSemi(y) PROVE IsSemi(y)'
        <5>1. /\ sdom[y] \in Up(parent[y]) /\ sdom'[y] = sdom[y]
              /\ \A v \in Preds(y) :
                   IF dfn(v) < dfn(y) THEN sdom[y] <= v
                   ELSE \A u \in Up(v) : dfn(u) > dfn(y) => sdom[y] <= sdom[u]
              /\ \E v \in Preds(y) :
                   \/ dfn(v) < dfn(y) /\ sdom[y] = v
                   \/ \E u \in Up(v) : dfn(u) > dfn(y) /\ sdom[y] = sdom[u]
          BY <3>8, <4>1, <4>3 DEF IsSemi
        <5>2. \A v \in Preds(y) : \A u \in Up(v) : dfn(u) > dfn(y) => sdom'[u] = sdom[u]
          BY <3>7, <4>2
        <5>3. \A v \in Preds(y) :
                IF dfn(v) < dfn(y) THEN sdom'[y] <= v
                ELSE \A u \in Up(v) : dfn(u) > dfn(y) => sdom'[y] <= sdom'[u]
          BY <5>1, <5>2
        <5>4. \E v \in Preds(y) :
                \/ dfn(v) < dfn(y) /\ sdom'[y] = v
                \/ \E u \in Up(v) : dfn(u) > dfn(y) /\ sdom'[y] = sdom'[u]
          BY <5>1, <5>2
        <5> QED BY <3>0, <3>2, <5>1, <5>3, <5>4 DEF IsSemi
      <4> QED BY <3>6, <3>8, <3>9, <4>1, <4>3
    <3>10. ASSUME b # entry PROVE IsSemi(b)'
      <4>1. /\ s \in Up(parent[b])
            /\ \A v \in Preds(b) :
                 IF dfn(v) < dfn(b) THEN s <= v
                 ELSE \A u \in Up(v) : dfn(u) > dfn(b) => s <= sdom[u]
            /\ \E v \in Preds(b) :
                 \/ dfn(v) < dfn(b) /\ s = v
                 \/ \E u \in Up(v) : dfn(u) > dfn(b) /\ s = sdom[u]
        <5>1. b \in Reached \ {entry} /\ s = SemiOf(b) /\ \A q \in Preds(b) : Ends(ancestor, q)
          BY <3>0, <3>5, <3>10
        <5> QED BY <1>t, <3>3, <3>4, <3>6, <5>1, SemiComputed
      <4>2. \A v \in Preds(b) : \A u \in Up(v) : dfn(u) > dfn(b) => sdom'[u] = sdom[u]
        <5>1. \A v \in Preds(b) : \A u \in Up(v) : u \in Reached
          BY <3>5, <3>7
        <5>2. ~(dfn(b) > dfn(b))
          BY <3>5, <3>7
        <5> QED BY <3>8, <5>1, <5>2
      <4>3. \A v \in Preds(b) :
              IF dfn(v) < dfn(b) THEN sdom'[b] <= v
              ELSE \A u \in Up(v) : dfn(u) > dfn(b) => sdom'[b] <= sdom'[u]
        BY <3>8, <4>1, <4>2
      <4>4. \E v \in Preds(b) :
              \/ dfn(v) < dfn(b) /\ sdom'[b] = v
              \/ \E u \in Up(v) : dfn(u) > dfn(b) /\ sdom'[b] = sdom'[u]
        BY <3>8, <4>1, <4>2
      <4> QED BY <3>0, <3>2, <3>8, <4>1, <4>3, <4>4 DEF IsSemi
    <3>11. ASSUME NEW y \in Reached
           PROVE  IF dfn(y) > next - 1
                  THEN ancestor'[y] = parent[y] /\ (y # entry => IsSemi(y)')
                  ELSE ancestor'[y] = Null /\ sdom'[y] = y
      <4>1. dfn(y) \in Nat /\ (dfn(y) > next - 1 <=> dfn(y) > next \/ dfn(y) = next)
        BY <3>5, <3>7
      <4>2. CASE dfn(y) > next
        BY <3>5, <3>9, <4>1, <4>2
      <4>3. CASE dfn(y) = next
        <5>1. y = b
          BY <3>5, <3>7, <4>3
        <5> QED BY <3>0, <3>8, <3>10, <4>1, <4>3, <5>1
      <4>4. CASE ~(dfn(y) > next) /\ dfn(y) # next
        <5>1. y # b /\ ~(dfn(y) > dfn(b))
          BY <3>5, <4>4
        <5> QED BY <3>6, <3>8, <4>1, <4>4, <5>1
      <4> QED BY <4>2, <4>3, <4>4
    <3>12. \A y \in Reached' :
             IF dfn(y)' > Unlinked'
             THEN ancestor'[y] = parent'[y] /\ (y # entry' => IsSemi(y)')
             ELSE ancestor'[y] = Null /\ sdom'[y] = y
      BY <3>0, <3>2, <3>5, <3>11
    <3> QED BY <3>12 DEF SemiInv
  <2> QED BY <2>1, <2>2
<1>4. CASE SemiDominatorsDone \/ ImmediateDominator \/ ImmediateDominatorsDone \/ Depth \/ DepthDone \/ UNCHANGED dtvars
  <2>1. /\ UNCHANGED <<entry, succ, visited, dfnVector, parent, ancestor, sdom>>
        /\ pc' \in {"sdom", "idom", "depth", "done"} => pc \in {"sdom", "idom", "depth", "done"} /\ Unlinked' = Unlinked
    BY <1>4 DEF SemiDominatorsDone, ImmediateDominator, ImmediateDominatorsDone, Depth, DepthDone, dtvars, Unlinked
  <2> SUFFICES ASSUME pc' \in {"sdom", "idom", "depth", "done"}, Favourable' PROVE SemiInv'
    BY DEF SemiInv
  <2>2. /\ Favourable /\ Reached' = Reached
        /\ \A y : Up(y)' = Up(y) /\ dfn(y)' = dfn(y) /\ Preds(y)' = Preds(y)
    BY <2>1, TreeStays
  <2>3. \A y : IsSemi(y) => IsSemi(y)'
    BY <2>1, <2>2 DEF IsSemi
  <2>4. \A y \in Reached :
          IF dfn(y) > Unlinked
          THEN ancestor[y] = parent[y] /\ (y # entry => IsSemi(y))
          ELSE ancestor[y] = Null /\ sdom[y] = y
    BY <2>1, <2>2 DEF SemiInv
  <2>5. \A y \in Reached' :
          IF dfn(y)' > Unlinked'
          THEN ancestor'[y] = parent'[y] /\ (y # entry' => IsSemi(y)')
          ELSE ancestor'[y] = Null /\ sdom'[y] = y
    BY <2>1, <2>2, <2>3, <2>4
  <2> QED BY <2>5 DEF SemiInv
<1> QED BY <1>1, <1>2, <1>3, <1>4 DEF DTNext

(* The blocks of the bucket that is done are below b, which is the first of *)
(* them above their semidominator and the last one linked.                  *)
LEMMA DoneIsLinked ==
  ASSUME DTTypeOK, Numbered, Chains, SemiInv, BucketInv, Favourable,
         NEW b, NEW p, NEW s, NEW anc, NEW sd, NEW done, Iteration(b, p, s, anc, sd, done),
         b \in Reached, dfn(b) = next, NEW v \in done
  PROVE  /\ b # entry /\ p \in Reached /\ v \in Reached \ {entry} /\ sd[v] = p
         /\ \A x \in Up(v) : x \in Reached \ {entry} \/ ~(x > p)
         /\ \A x \in Up(v) : x > p <=> dfn(x) > next - 1
<1>0. /\ next \in 1 .. Len(dfnVector) /\ p = parent[b] /\ pc = "sdom"
      /\ sd = [sdom EXCEPT ![b] = s]
      /\ done = (IF p = Null THEN {} ELSE bucket[p] \cup (IF s = p THEN {b} ELSE {}))
  BY DEF Iteration
<1>1. /\ \A c \in Reached : c \in Nat /\ c \in Block /\ c \in Block0 /\ dfn(c) \in Nat
      /\ \A y \in Reached : y \in Up(y) /\ \A x \in Up(y) :
           /\ x \in Reached /\ Up(x) \subseteq Up(y) /\ dfn(x) <= dfn(y)
           /\ x # y => x < y /\ dfn(x) < dfn(y) /\ y # entry
           /\ \A z \in Up(y) : x <= z => x \in Up(z)
      /\ \A c \in Reached \ {entry} : IsSemi(c) => sdom[c] \in Up(c) /\ sdom[c] # c
      /\ parent[entry] = Null /\ dfn(entry) = 1 /\ next \in Nat
  BY <1>0, Above, Blocks, Types DEF Chains, Numbered
<1>2. p # Null /\ b # entry
  BY <1>0, <1>1
<1>3. p \in Reached /\ p < b /\ p \in Nat /\ dfn(p) < dfn(b) /\ Up(b) = {b} \cup Up(p)
  BY <1>0, <1>1, <1>2 DEF Numbered, Chains
<1>4. next >= 2
  <2>1. dfn(p) \in 1 .. Len(dfnVector) /\ Len(dfnVector) \in Nat
    BY <1>3, Types DEF Numbered
  <2> QED BY <1>1, <1>3, <2>1
<1>5. v \in Reached \ {entry} /\ sd[v] = p /\ b \in Up(v)
  <2>1. CASE v \in bucket[p]
    <3>1. /\ v \in Reached /\ dfn(v) > next /\ sdom[v] = p
          /\ \A c \in Up(v) \ {entry} : dfn(c) > next => parent[c] # p
      BY <1>0, <1>1, <1>3, <2>1 DEF BucketInv
    <3>2. v # entry /\ v # b
      BY <1>1, <1>4, <3>1
    <3>3. sd[v] = p
      BY <1>0, <1>1, <3>1, <3>2, Types
    <3>4. p \in Up(v) /\ p # v
      <4>1. IsSemi(v)
        BY <1>0, <3>1, <3>2 DEF SemiInv, Unlinked
      <4> QED BY <1>1, <3>1, <3>2, <4>1
    <3>5. PICK c \in Up(v) \ {entry} : parent[c] = p
      BY <3>1, <3>4 DEF Chains
    <3>6. c \in Reached /\ dfn(c) <= dfn(b) /\ dfn(b) <= dfn(v)
      BY <1>1, <3>1, <3>5
    <3>7. c \in Up(b)
      BY <3>1, <3>5, <3>6 DEF Chains
    <3>8. p < c
      BY <3>5, <3>6 DEF Numbered
    <3>9. c \notin Up(p)
      BY <1>1, <1>3, <3>6, <3>8
    <3> QED BY <1>3, <3>1, <3>2, <3>3, <3>5, <3>7, <3>9
  <2>2. CASE v = b /\ s = p
    <3>1. sd[b] = s
      BY <1>0, <1>1, Types
    <3> QED BY <1>1, <1>2, <2>2, <3>1
  <2> QED BY <1>0, <1>2, <2>1, <2>2
<1>6. ASSUME NEW x \in Up(v)
      PROVE  (x > p <=> dfn(x) > next - 1) /\ (x > p => x \in Reached \ {entry})
  <2>1. x \in Reached /\ x \in Nat /\ dfn(x) \in Nat /\ b \in Nat /\ p \in Nat /\ next \in Nat
    BY <1>1, <1>3, <1>5
  <2>2. CASE x \in Up(p)
    <3>1. ~(x > p) /\ ~(dfn(x) > next - 1)
      BY <1>1, <1>3, <2>1, <2>2
    <3> QED BY <3>1
  <2>3. CASE b \in Up(x)
    <3>1. b <= x /\ dfn(b) <= dfn(x)
      BY <1>1, <2>1, <2>3
    <3>2. x > p /\ dfn(x) > next - 1
      BY <1>3, <2>1, <3>1
    <3>3. x # entry
      BY <1>1, <1>4, <2>1, <3>1
    <3> QED BY <2>1, <3>2, <3>3
  <2>4. CASE x \in Up(b) /\ x = b
    BY <1>1, <2>1, <2>3, <2>4
  <2>5. x \in Up(b) \/ b \in Up(x)
    <3>1. x <= b \/ b <= x
      BY <2>1
    <3> QED BY <1>1, <1>5, <3>1
  <2> QED BY <1>3, <2>2, <2>3, <2>4, <2>5
<1> QED BY <1>2, <1>3, <1>5, <1>6

(* A block stays in its bucket until the bucket is done.                    *)
LEMMA BucketsKept ==
  ASSUME DTTypeOK, Numbered, Chains, BucketInv, Favourable,
         NEW b, NEW p, NEW s, NEW anc, NEW sd, NEW done, Iteration(b, p, s, anc, sd, done),
         b \in Reached, dfn(b) = next
  PROVE  \A q \in Block0 : \A v \in bucket'[q] :
           /\ v \in Reached /\ dfn(v) > next - 1 /\ sd[v] = q
           /\ \A c \in Up(v) \ {entry} : dfn(c) > next - 1 => parent[c] # q
<1>0. /\ next \in 1 .. Len(dfnVector) /\ p = parent[b] /\ pc = "sdom"
      /\ sd = [sdom EXCEPT ![b] = s]
      /\ bucket' = [x \in Block0 |-> IF x = p /\ p # Null THEN {}
                                     ELSE bucket[x] \cup (IF x = s THEN {b} ELSE {})]
  BY DEF Iteration
<1>1. /\ \A c \in Reached : c \in Block0 /\ dfn(c) \in Nat /\ (dfn(c) = dfn(b) => c = b)
      /\ \A y \in Reached : \A x \in Up(y) :
           x \in Reached /\ (x # y => dfn(x) < dfn(y))
      /\ next \in Nat /\ \A c \in Reached \ {entry} : parent[c] # Null
  BY <1>0, Above, Blocks, Types DEF Numbered
<1>2. ASSUME NEW q \in Block0, NEW v \in bucket'[q]
      PROVE  /\ v \in Reached /\ dfn(v) > next - 1 /\ sd[v] = q
             /\ \A c \in Up(v) \ {entry} : dfn(c) > next - 1 => parent[c] # q
  <2>1. ~(q = p /\ p # Null) /\ (v \in bucket[q] \/ (v = b /\ q = s))
    BY <1>0, <1>2
  <2>2. \A c \in Reached \ {entry} : dfn(c) = next => parent[c] # q
    BY <1>0, <1>1, <2>1
  <2>3. \A c \in Reached : dfn(c) > next - 1 => dfn(c) > next \/ dfn(c) = next
    BY <1>1
  <2>4. CASE v \in bucket[q]
    <3>1. /\ v \in Reached /\ dfn(v) > next /\ sdom[v] = q
          /\ \A c \in Up(v) \ {entry} : dfn(c) > next => parent[c] # q
      BY <1>0, <2>4 DEF BucketInv
    <3>2. v # b /\ dfn(v) > next - 1
      BY <1>1, <3>1
    <3>3. sd[v] = q
      BY <1>0, <1>1, <3>1, <3>2, Types
    <3> QED BY <1>1, <2>2, <2>3, <3>1, <3>2, <3>3
  <2>5. CASE v = b /\ q = s
    <3>1. sd[b] = s
      BY <1>0, <1>1, Types
    <3>2. dfn(b) > next - 1
      BY <1>1
    <3>3. \A c \in Up(b) : dfn(c) > next - 1 => c \in Reached /\ dfn(c) = next
      BY <1>1, <2>3
    <3> QED BY <2>2, <2>5, <3>1, <3>2, <3>3
  <2> QED BY <2>1, <2>4, <2>5
<1> QED BY <1>2

(* The blocks of a bucket that is done get their relative by eval.          *)
LEMMA DoneGetsRelative ==
  ASSUME DTTypeOK, Numbered, Chains, SemiInv, BucketInv, Favourable, DTTypeOK', SemiInv', SemiDominator,
         NEW b, NEW p, NEW s, NEW anc \in [Block0 -> Block0], NEW sd \in [Block0 -> Block0],
         NEW done \in SUBSET Block, Iteration(b, p, s, anc, sd, done),
         b \in Reached, dfn(b) = next, NEW v \in done
  PROVE  IsRelative(v)'
<1>0. /\ next \in 1 .. Len(dfnVector) /\ pc' = "sdom" /\ next' = next - 1
      /\ UNCHANGED <<entry, succ, visited, dfnVector, parent>>
      /\ ancestor' = anc /\ sdom' = sd /\ Ends(anc, v)
      /\ idomMap' = [w \in Block0 |->
           IF w \in done
           THEN IF sd[Eval(anc, sd, w)] < sd[w] THEN Eval(anc, sd, w) ELSE p
           ELSE idomMap[w]]
  BY DEF Iteration
<1>1. /\ b # entry /\ p \in Reached /\ v \in Reached \ {entry} /\ sd[v] = p
      /\ \A x \in Up(v) : x \in Reached \ {entry} \/ ~(x > p)
      /\ \A x \in Up(v) : x > p <=> dfn(x) > next - 1
  BY DoneIsLinked
<1>2. /\ Favourable' /\ Reached' = Reached
      /\ \A y : Up(y)' = Up(y) /\ dfn(y)' = dfn(y)
  BY <1>0, TreeStays
<1>3. \A c \in Reached : anc[c] = IF dfn(c) > next - 1 THEN parent[c] ELSE Null
  <2>1. Unlinked' = next - 1
    BY <1>0 DEF Unlinked
  <2> QED BY <1>0, <1>2, <2>1 DEF SemiInv
<1>4. /\ Len(dfnVector) \in Nat /\ next \in Nat /\ next - 1 \in Nat
      /\ \A c \in Reached : c \in Nat /\ c \in Block0 /\ dfn(c) \in Nat
      /\ \A x \in Up(v) : x \in Reached
      /\ v \in Up(v)
      /\ Block0 \subseteq Nat
  <2>1. Len(dfnVector) \in Nat /\ Block0 \subseteq Nat /\ Block \subseteq Block0
    BY Types, Blocks
  <2>2. next \in Nat /\ next - 1 \in Nat
    BY <1>0, <2>1
  <2> QED BY <1>1, <2>1, <2>2, Above DEF Chains
<1> DEFINE e == Eval(anc, sd, v)
<1>5. /\ e \in Up(v) /\ (e = v \/ dfn(e) > next - 1)
      /\ \A x \in Up(v) : (x = v \/ dfn(x) > next - 1) /\ x # entry => sd[e] <= sd[x]
  <2>1. v \in Reached /\ Ends(anc, v) /\ next - 1 \in Nat
    BY <1>0, <1>1, <1>4
  <2> QED BY <1>3, <2>1, EvalOnTheChain
<1>6. idomMap'[v] = IF sd[e] < p THEN e ELSE p
  <2>1. v \in Block0
    BY <1>1, <1>4
  <2> QED BY <1>0, <1>1, <2>1
<1> HIDE DEF e
<1>7. dfn(v) > next - 1
  <2>1. v > p
    <3>1. dfn(v) > next - 1 \/ v \in bucket[p] \/ v = b
      BY <1>1 DEF Iteration
    <3>2. v \in bucket[p] /\ p \in Block0 => dfn(v) > next
      BY DEF BucketInv, Iteration
    <3>3. dfn(v) > next - 1
      BY <1>1, <1>4, <3>1, <3>2
    <3> QED BY <1>1, <1>4, <3>3
  <2> QED BY <1>1, <1>4, <2>1
<1>8. e > p /\ e \in Reached /\ sd[e] \in Nat
  <2>1. e \in Reached /\ dfn(e) > next - 1
    BY <1>4, <1>5, <1>7
  <2> QED BY <1>1, <1>4, <1>5, <2>1
<1>9. \A x \in Up(v) : x > p => sd[e] <= sd[x] /\ sd[x] \in Nat
  BY <1>1, <1>4, <1>5
<1>10. CASE sd[e] < p
  <2>1. \A x \in Up(v) : x > sd[v] => sd[x] >= sd[e]
    BY <1>1, <1>8, <1>9
  <2>2. idomMap'[v] = e /\ e \in Up(v) /\ e > sd[v] /\ sd[e] < sd[v]
    BY <1>1, <1>5, <1>6, <1>8, <1>10
  <2>3. /\ idomMap'[v] \in Up(v)' /\ idomMap'[v] > sdom'[v] /\ sdom'[idomMap'[v]] < sdom'[v]
        /\ \A x \in Up(v)' : x > sdom'[v] => sdom'[x] >= sdom'[idomMap'[v]]
    BY <1>0, <1>2, <2>1, <2>2
  <2> QED BY <2>3 DEF IsRelative
<1>11. CASE ~(sd[e] < p)
  <2>1. idomMap'[v] = sd[v]
    BY <1>1, <1>6, <1>11
  <2>2. \A x \in Up(v) : x > sd[v] => sd[x] >= sd[v]
    <3>1. p \in Nat
      BY <1>1, <1>4
    <3> QED BY <1>1, <1>8, <1>9, <1>11, <3>1
  <2>3. /\ idomMap'[v] = sdom'[v]
        /\ \A x \in Up(v)' : x > sdom'[v] => sdom'[x] >= sdom'[v]
    BY <1>0, <1>2, <2>1, <2>2
  <2> QED BY <2>3 DEF IsRelative
<1> QED BY <1>10, <1>11

(* A relative found earlier stays: what it compares is linked.              *)
LEMMA RelativeStays ==
  ASSUME NEW v, IsRelative(v), Up(v)' = Up(v), v \in Up(v),
         idomMap'[v] = idomMap[v], sdom'[v] = sdom[v],
         \A u \in Up(v) : u > sdom[v] => sdom'[u] = sdom[u]
  PROVE  IsRelative(v)'
<1>1. CASE /\ idomMap[v] = sdom[v]
           /\ \A u \in Up(v) : u > sdom[v] => sdom[u] >= sdom[v]
  <2>1. /\ idomMap'[v] = sdom'[v]
        /\ \A u \in Up(v)' : u > sdom'[v] => sdom'[u] >= sdom'[v]
    BY <1>1
  <2> QED BY <2>1 DEF IsRelative
<1>2. CASE /\ idomMap[v] \in Up(v) /\ idomMap[v] > sdom[v] /\ sdom[idomMap[v]] < sdom[v]
           /\ \A u \in Up(v) : u > sdom[v] => sdom[u] >= sdom[idomMap[v]]
  <2>1. /\ idomMap'[v] \in Up(v)' /\ idomMap'[v] > sdom'[v] /\ sdom'[idomMap'[v]] < sdom'[v]
        /\ \A u \in Up(v)' : u > sdom'[v] => sdom'[u] >= sdom'[idomMap'[v]]
    BY <1>2
  <2> QED BY <2>1 DEF IsRelative
<1> QED BY <1>1, <1>2 DEF IsRelative

(* An iteration of the loop preserves the buckets and the relatives.        *)
LEMMA SemiDominatorBuckets ==
  ASSUME DTInv, SearchOrder, SemiInv, BucketInv, SemiDominator
  PROVE  BucketInv'
<1> SUFFICES ASSUME pc' # "diverged", Favourable' PROVE BucketInv'
  BY DEF BucketInv
<1>t. DTTypeOK
  BY DEF DTInv
<1>t2. DTTypeOK' /\ SemiInv'
  BY SemiDominatorInv, SemiNextInv DEF DTNext, DTInv
<1>1. PICK b \in Block, p, s \in Block0, anc, sd \in [Block0 -> Block0], done \in SUBSET Block :
        Iteration(b, p, s, anc, sd, done)
  BY LoopEffect
<1>0. /\ next \in 1 .. Len(dfnVector) /\ b = dfnVector[next] /\ p = parent[b]
      /\ pc = "sdom" /\ pc' = "sdom" /\ next' = next - 1
      /\ UNCHANGED <<entry, succ, visited, dfnVector, parent>>
      /\ sdom' = sd /\ sd = [sdom EXCEPT ![b] = s]
      /\ done = (IF p = Null THEN {} ELSE bucket[p] \cup (IF s = p THEN {b} ELSE {}))
      /\ bucket' = [x \in Block0 |-> IF x = p /\ p # Null THEN {}
                                     ELSE bucket[x] \cup (IF x = s THEN {b} ELSE {})]
      /\ \A v \in Block0 : v \notin done => idomMap'[v] = idomMap[v]
  BY <1>1 DEF Iteration
<1>2. /\ Favourable /\ Reached' = Reached
      /\ \A y : Up(y)' = Up(y) /\ dfn(y)' = dfn(y) /\ Preds(y)' = Preds(y)
  BY <1>0, TreeStays
<1>3. Numbered
  BY <1>0, <1>2, FavourableNumbers
<1>4. Chains
  BY <1>0, <1>2, <1>3, FavourableChains
<1>5. b \in Reached /\ dfn(b) = next /\ next \in Nat /\ Unlinked = next /\ Unlinked' = next - 1
  BY <1>t, <1>0, <1>3, Types DEF Numbered, Unlinked
<1>6. \A q \in Block0 : \A v \in bucket'[q] :
        /\ v \in Reached /\ dfn(v) > next - 1 /\ sd[v] = q
        /\ \A c \in Up(v) \ {entry} : dfn(c) > next - 1 => parent[c] # q
  BY <1>t, <1>1, <1>2, <1>3, <1>4, <1>5, BucketsKept
<1>7. /\ \A c \in Reached : c \in Block0 /\ dfn(c) \in Nat /\ (dfn(c) = dfn(b) => c = b)
      /\ \A y \in Reached : y \in Up(y) /\ \A x \in Up(y) : x \in Reached
      /\ parent[entry] = Null /\ \A c \in Reached \ {entry} : parent[c] # Null
  BY <1>t, <1>3, <1>4, <1>5, Above, Blocks DEF Numbered, Chains
<1>8. ASSUME NEW v \in Reached \ {entry}, dfn(v) > next - 1
      PROVE  \/ v \in bucket'[sdom'[v]]
             \/ IsRelative(v)' /\ \A u \in Up(v) : u > sdom'[v] => dfn(u) > next - 1
  <2>1. CASE v \in done
    <3>1. IsRelative(v)'
      BY <1>t, <1>t2, <1>1, <1>2, <1>3, <1>4, <1>5, <2>1, DoneGetsRelative
    <3>2. sd[v] = p /\ \A x \in Up(v) : x > p <=> dfn(x) > next - 1
      BY <1>t, <1>1, <1>2, <1>3, <1>4, <1>5, <2>1, DoneIsLinked
    <3> QED BY <1>0, <3>1, <3>2
  <2>2. CASE v \notin done /\ v = b
    <3>1. p # Null
      BY <1>0, <1>7, <1>8, <2>2
    <3>2. s # p
      BY <1>0, <2>2, <3>1
    <3>3. sdom'[v] = s
      BY <1>t, <1>0, <1>5, <1>7, <2>2, Types
    <3> QED BY <1>0, <2>2, <3>2, <3>3
  <2>3. CASE v \notin done /\ v # b
    <3>1. dfn(v) > next /\ dfn(v) \in Nat
      BY <1>5, <1>7, <1>8, <2>3
    <3>2. sdom'[v] = sdom[v] /\ sdom[v] \in Block0 /\ idomMap'[v] = idomMap[v]
      BY <1>t, <1>0, <1>7, <2>3, Types
    <3>3. \/ v \in bucket[sdom[v]]
          \/ IsRelative(v) /\ \A u \in Up(v) : u > sdom[v] => dfn(u) > next
      BY <1>0, <1>2, <1>5, <3>1 DEF BucketInv
    <3>4. CASE v \in bucket[sdom[v]]
      <4>1. ~(sdom[v] = p /\ p # Null)
        BY <1>0, <2>3, <3>4
      <4> QED BY <1>0, <3>2, <3>4, <4>1
    <3>5. CASE IsRelative(v) /\ \A u \in Up(v) : u > sdom[v] => dfn(u) > next
      <4>1. \A u \in Up(v) : u > sdom[v] => u # b /\ u \in Block0 /\ dfn(u) > next - 1
        BY <1>5, <1>7, <3>5
      <4>2. \A u \in Up(v) : u > sdom[v] => sdom'[u] = sdom[u]
        <5>1. sdom \in [Block0 -> Block0]
          BY <1>t, Types
        <5> QED BY <1>0, <4>1, <5>1
      <4>3. IsRelative(v)'
        BY <1>2, <1>7, <3>2, <3>5, <4>2, RelativeStays
      <4> QED BY <3>2, <4>1, <4>3
    <3> QED BY <3>3, <3>4, <3>5
  <2> QED BY <2>1, <2>2, <2>3
<1>9. \A q \in Block0 : \A v \in bucket'[q] :
        /\ v \in Reached' /\ dfn(v)' > next' /\ sdom'[v] = q
        /\ \A c \in Up(v)' \ {entry'} : dfn(c)' > next' => parent'[c] # q
  BY <1>0, <1>2, <1>6
<1>10. \A v \in Reached' \ {entry'} : dfn(v)' > Unlinked' /\ (pc' = "idom" => dfn(v)' >= next') =>
         \/ pc' = "sdom" /\ v \in bucket'[sdom'[v]]
         \/ IsRelative(v)' /\ \A u \in Up(v)' : u > sdom'[v] => dfn(u)' > Unlinked'
  BY <1>0, <1>2, <1>5, <1>8
<1> QED BY <1>9, <1>10 DEF BucketInv

(* Every step preserves the buckets and the relatives.                      *)
LEMMA BucketNextInv == ASSUME DTInv, SearchOrder, SemiInv, BucketInv, [DTNext]_dtvars PROVE BucketInv'
<1>t. DTTypeOK
  BY DEF DTInv
<1>1. CASE Visit
  BY <1>1 DEF Visit, BucketInv
<1>2. CASE VisitDone
  <2>1. /\ pc = "dfs" /\ pc' = "sdom" /\ next' = Len(dfnVector) /\ worklist = <<>>
        /\ UNCHANGED <<entry, succ, visited, dfnVector, parent, bucket>>
    BY <1>2 DEF VisitDone
  <2> SUFFICES ASSUME Favourable' PROVE BucketInv'
    BY DEF BucketInv
  <2>2. Favourable /\ Reached' = Reached /\ \A y : dfn(y)' = dfn(y)
    BY <2>1, TreeStays
  <2>3. Numbered
    BY <2>1, <2>2, FavourableNumbers
  <2>4. \A q \in Block0 : bucket'[q] = {}
    BY <2>1 DEF SearchOrder, NothingComputed
  <2>5. \A v \in Reached' : ~(dfn(v)' > Unlinked')
    <3>1. Unlinked' = Len(dfnVector) /\ Len(dfnVector) \in Nat
      BY <1>t, <2>1, Types DEF Unlinked
    <3>2. \A v \in Reached : dfn(v) \in 1 .. Len(dfnVector)
      BY <2>3 DEF Numbered
    <3>3. \A v \in Reached : ~(dfn(v) > Len(dfnVector))
      BY <3>1, <3>2
    <3> QED BY <2>2, <3>1, <3>3
  <2> QED BY <2>4, <2>5 DEF BucketInv
<1>3. CASE SemiDominator
  BY <1>3, SemiDominatorBuckets
<1>4. CASE SemiDominatorsDone
  <2>1. /\ pc = "sdom" /\ next = 0 /\ pc' = "idom" /\ next' = 2
        /\ UNCHANGED <<entry, succ, visited, dfnVector, parent, sdom, bucket, idomMap>>
    BY <1>4 DEF SemiDominatorsDone
  <2> SUFFICES ASSUME Favourable' PROVE BucketInv'
    BY DEF BucketInv
  <2>2. /\ Favourable /\ Reached' = Reached
        /\ \A y : Up(y)' = Up(y) /\ dfn(y)' = dfn(y)
    BY <2>1, TreeStays
  <2>3. Numbered
    BY <2>1, <2>2, FavourableNumbers
  <2>4. Chains
    BY <2>1, <2>2, <2>3, FavourableChains
  <2>5. Unlinked = 0 /\ Unlinked' = 0
    BY <2>1 DEF Unlinked
  <2>6. ASSUME NEW v \in Reached \ {entry}
        PROVE  IsRelative(v) /\ \A u \in Up(v) : u > sdom[v] => dfn(u) > 0
    <3>1. \A y \in Reached : dfn(y) \in 1 .. Len(dfnVector)
      BY <2>3 DEF Numbered
    <3>2. \A y \in Reached : dfn(y) > 0
      <4>1. Len(dfnVector) \in Nat
        BY <1>t, Types
      <4> QED BY <3>1, <4>1
    <3>3. IsSemi(v)
      BY <2>1, <2>2, <2>5, <3>2 DEF SemiInv
    <3>4. sdom[v] \in Up(v) /\ sdom[v] # v /\ sdom[v] \in Block0
      BY <1>t, <2>3, <2>4, <3>3, Above, Blocks
    <3>5. PICK c \in Up(v) \ {entry} : parent[c] = sdom[v]
      BY <2>4, <3>4 DEF Chains
    <3>6. c \in Reached
      BY <2>4 DEF Chains
    <3>7. v \notin bucket[sdom[v]]
      BY <2>1, <2>2, <3>2, <3>4, <3>5, <3>6 DEF BucketInv
    <3> QED BY <2>1, <2>2, <2>5, <3>2, <3>7 DEF BucketInv
  <2>7. \A v : IsRelative(v) => IsRelative(v)'
    BY <2>1, <2>2 DEF IsRelative
  <2>8. \A v \in Reached' \ {entry'} :
          IsRelative(v)' /\ \A u \in Up(v)' : u > sdom'[v] => dfn(u)' > Unlinked'
    BY <2>1, <2>2, <2>5, <2>6, <2>7
  <2> QED BY <2>1, <2>8 DEF BucketInv
<1>5. CASE ImmediateDominator
  <2>0. pc = "idom" /\ next <= Len(dfnVector) /\ DTTypeOK /\ Counters
    BY <1>5 DEF ImmediateDominator, DTInv
  <2> DEFINE b == dfnVector[next]
             i == IF idomMap[b] = sdom[b] THEN idomMap[b] ELSE idomMap[idomMap[b]]
  <2>1. /\ pc' = "idom" /\ next' = next + 1 /\ idomMap' = [idomMap EXCEPT ![b] = i]
        /\ UNCHANGED <<entry, succ, visited, dfnVector, parent, sdom, bucket>>
    BY <1>5 DEF ImmediateDominator
  <2> SUFFICES ASSUME Favourable' PROVE BucketInv'
    BY DEF BucketInv
  <2>2. /\ Favourable /\ Reached' = Reached
        /\ \A y : Up(y)' = Up(y) /\ dfn(y)' = dfn(y)
    BY <2>1, TreeStays
  <2>3. Numbered
    BY <2>0, <2>2, FavourableNumbers
  <2>4. Chains
    BY <2>0, <2>2, <2>3, FavourableChains
  <2>5. Unlinked = 0 /\ Unlinked' = 0
    BY <2>0, <2>1 DEF Unlinked
  <2>6. dfn(b) = next /\ next \in Nat
    <3>1. next \in 1 .. Len(dfnVector) /\ next \in Nat
      BY <2>0, Types DEF Counters
    <3> QED BY <2>3, <3>1 DEF Numbered
  <2> HIDE DEF b, i
  <2>7. ASSUME NEW v \in Reached \ {entry}, dfn(v) > 0, dfn(v) >= next + 1
        PROVE  IsRelative(v)' /\ \A u \in Up(v) : u > sdom[v] => dfn(u) > 0
    <3>1. v \in Block0 /\ v \in Up(v) /\ dfn(v) \in Nat
      BY <2>0, <2>3, <2>4, Above, Blocks DEF Chains
    <3>2. v # b /\ dfn(v) >= next
      BY <2>6, <2>7, <3>1
    <3>3. IsRelative(v) /\ \A u \in Up(v) : u > sdom[v] => dfn(u) > 0
      BY <2>0, <2>2, <2>5, <2>7, <3>2 DEF BucketInv
    <3>4. idomMap'[v] = idomMap[v]
      BY <2>0, <2>1, <3>1, <3>2, Types
    <3>5. IsRelative(v)'
      BY <2>1, <2>2, <3>1, <3>3, <3>4, RelativeStays
    <3> QED BY <3>3, <3>5
  <2>8. \A v \in Reached' \ {entry'} : dfn(v)' > Unlinked' /\ (pc' = "idom" => dfn(v)' >= next') =>
          IsRelative(v)' /\ \A u \in Up(v)' : u > sdom'[v] => dfn(u)' > Unlinked'
    BY <2>1, <2>2, <2>5, <2>7
  <2> QED BY <2>1, <2>8 DEF BucketInv
<1>6. CASE ImmediateDominatorsDone \/ Depth \/ DepthDone
  BY <1>6 DEF ImmediateDominatorsDone, Depth, DepthDone, BucketInv
<1>7. CASE UNCHANGED dtvars
  <2>1. UNCHANGED <<entry, succ, visited, dfnVector, parent, pc, next, sdom, bucket, idomMap>>
    BY <1>7 DEF dtvars
  <2>2. /\ (Favourable' <=> Favourable) /\ Reached' = Reached
        /\ \A y : Up(y)' = Up(y) /\ dfn(y)' = dfn(y)
    BY <2>1, TreeStays
  <2>3. Unlinked' = Unlinked
    BY <2>1 DEF Unlinked
  <2>4. \A v : IsRelative(v) => IsRelative(v)'
    BY <2>1, <2>2 DEF IsRelative
  <2> SUFFICES ASSUME pc \in {"sdom", "idom"}, Favourable PROVE BucketInv'
    BY <2>1, <2>2 DEF BucketInv
  <2>5. pc' = "sdom" => \A q \in Block0 : \A v \in bucket'[q] :
          /\ v \in Reached' /\ dfn(v)' > next' /\ sdom'[v] = q
          /\ \A c \in Up(v)' \ {entry'} : dfn(c)' > next' => parent'[c] # q
    BY <2>1, <2>2 DEF BucketInv
  <2>6. \A v \in Reached' \ {entry'} : dfn(v)' > Unlinked' /\ (pc' = "idom" => dfn(v)' >= next') =>
          \/ pc' = "sdom" /\ v \in bucket'[sdom'[v]]
          \/ IsRelative(v)' /\ \A u \in Up(v)' : u > sdom'[v] => dfn(u)' > Unlinked'
    BY <2>1, <2>2, <2>3, <2>4 DEF BucketInv
  <2> QED BY <2>5, <2>6 DEF BucketInv
<1> QED BY <1>1, <1>2, <1>3, <1>4, <1>5, <1>6, <1>7 DEF DTNext

-----------------------------------------------------------------------------
(* The second pass.                                                        *)

(* Every step preserves the immediate dominators found so far.              *)
LEMMA IdomNextInv == ASSUME DTInv, SearchOrder, SemiInv, BucketInv, IdomInv, [DTNext]_dtvars PROVE IdomInv'
<1>t. DTTypeOK /\ Counters
  BY DEF DTInv
<1>1. CASE Visit \/ VisitDone \/ SemiDominator
  BY <1>1 DEF Visit, VisitDone, SemiDominator, IdomInv
<1>2. CASE SemiDominatorsDone
  <2>1. /\ pc = "sdom" /\ pc' = "idom" /\ next' = 2
        /\ UNCHANGED <<entry, succ, visited, dfnVector, parent>>
    BY <1>2 DEF SemiDominatorsDone
  <2> SUFFICES ASSUME Favourable' PROVE IdomInv'
    BY DEF IdomInv
  <2>2. /\ Favourable /\ Reached' = Reached /\ \A y : dfn(y)' = dfn(y)
    BY <2>1, TreeStays
  <2>3. Numbered
    BY <2>1, <2>2, FavourableNumbers
  <2>4. ASSUME NEW v \in Reached \ {entry} PROVE ~(dfn(v) < 2)
    <3>1. dfn(v) \in 1 .. Len(dfnVector) /\ dfn(v) # dfn(entry) /\ dfn(entry) = 1
      BY <2>3 DEF Numbered
    <3>2. Len(dfnVector) \in Nat
      BY <1>t, Types
    <3> QED BY <3>1, <3>2
  <2> QED BY <2>1, <2>2, <2>4 DEF IdomInv
<1>3. CASE ImmediateDominator
  <2>0. pc = "idom" /\ next <= Len(dfnVector)
    BY <1>3 DEF ImmediateDominator
  <2> DEFINE b == dfnVector[next]
             i == IF idomMap[b] = sdom[b] THEN idomMap[b] ELSE idomMap[idomMap[b]]
  <2>1. /\ pc' = "idom" /\ next' = next + 1 /\ idomMap' = [idomMap EXCEPT ![b] = i]
        /\ UNCHANGED <<entry, succ, visited, dfnVector, parent>>
    BY <1>3 DEF ImmediateDominator
  <2> SUFFICES ASSUME Favourable' PROVE IdomInv'
    BY DEF IdomInv
  <2>2. /\ Favourable /\ Reached' = Reached /\ \A y : dfn(y)' = dfn(y)
        /\ \A a, y : IsIdom(a, y)' <=> IsIdom(a, y)
    BY <2>1, TreeStays
  <2>3. Numbered
    BY <2>0, <2>2, FavourableNumbers
  <2>4. Chains
    BY <2>0, <2>2, <2>3, FavourableChains
  <2>5. /\ \A c \in Reached : c \in Block0 /\ c \in Nat /\ dfn(c) \in Nat /\ dfn(c) > 0
                              /\ (dfn(c) = next => c = b)
        /\ \A y \in Reached : \A x \in Up(y) :
             x \in Reached /\ (x # y => dfn(x) < dfn(y))
        /\ b \in Reached \ {entry} /\ dfn(b) = next /\ next \in Nat
    <3>1. next \in 2 .. Len(dfnVector) /\ next \in 1 .. Len(dfnVector) /\ next \in Nat /\ next # 1
      BY <1>t, <2>0, Types DEF Counters
    <3>2. b \in Reached /\ dfn(b) = next /\ dfn(entry) = 1
      BY <2>3, <3>1 DEF Numbered
    <3>3. \A c \in Reached : dfn(c) \in 1 .. Len(dfnVector) /\ dfnVector[dfn(c)] = c
      BY <2>3 DEF Numbered
    <3>4. \A c \in Reached : dfn(c) > 0
      <4>1. Len(dfnVector) \in Nat
        BY <1>t, Types
      <4> QED BY <3>3, <4>1
    <3> QED BY <1>t, <2>3, <2>4, <3>1, <3>2, <3>3, <3>4, Above, Blocks
  <2>6. Unlinked = 0
    BY <2>0 DEF Unlinked
  <2>7. AllSemi
    BY <2>0, <2>2, <2>5, <2>6 DEF SemiInv, AllSemi
  <2>8. IsRelative(b)
    <3>1. dfn(b) > 0 /\ dfn(b) >= next
      BY <2>5
    <3> QED BY <2>0, <2>2, <2>5, <2>6, <3>1 DEF BucketInv
  <2>9. \A v \in Reached \ {entry} : dfn(v) < next => IsIdom(idomMap[v], v)
    BY <2>0, <2>2 DEF IdomInv
  <2>10. /\ (\A u \in Up(b) : u > sdom[b] => sdom[u] >= sdom[b]) => IsIdom(sdom[b], b)
         /\ \A u \in Up(b) : \A j :
              /\ u > sdom[b] /\ sdom[u] < sdom[b]
              /\ \A y \in Up(b) : y > sdom[b] => sdom[y] >= sdom[u]
              /\ IsIdom(j, u)
              => IsIdom(j, b)
    BY <1>t, <2>3, <2>4, <2>5, <2>7, RelativeIsImmediate
  <2>11. IsIdom(i, b)
    <3> HIDE DEF b
    <3>1. CASE /\ idomMap[b] = sdom[b]
               /\ \A u \in Up(b) : u > sdom[b] => sdom[u] >= sdom[b]
      BY <2>10, <3>1
    <3>2. CASE /\ idomMap[b] \in Up(b) /\ idomMap[b] > sdom[b] /\ sdom[idomMap[b]] < sdom[b]
               /\ \A u \in Up(b) : u > sdom[b] => sdom[u] >= sdom[idomMap[b]]
      <4> DEFINE u == idomMap[b]
      <4>0. u \in Up(b) /\ u > sdom[b] /\ sdom[u] < sdom[b]
            /\ \A y \in Up(b) : y > sdom[b] => sdom[y] >= sdom[u]
        BY <3>2
      <4>1. sdom[b] \in Nat /\ sdom[u] \in Nat /\ u \in Reached /\ u \in Nat
        <5>1. u \in Reached
          BY <2>5, <4>0
        <5>2. sdom[b] \in Block0 /\ sdom[u] \in Block0
          BY <1>t, <2>5, <5>1, Types
        <5> QED BY <2>5, <5>1, <5>2, Blocks
      <4>2. u # sdom[b] /\ u # b
        BY <4>0, <4>1
      <4>3. u # entry
        <5>1. sdom[b] \in Reached /\ sdom[b] # Null
          BY <1>t, <2>3, <2>4, <2>5, <2>7, Above, Blocks DEF AllSemi
        <5>2. sdom[b] \in Up(b)
          BY <1>t, <2>3, <2>4, <2>5, <2>7, Above DEF AllSemi
        <5>3. sdom[b] \in Up(u)
          <6>1. sdom[b] <= u
            BY <4>0, <4>1
          <6> QED BY <1>t, <2>3, <2>4, <2>5, <4>0, <5>2, <6>1, Above
        <5> QED BY <2>4, <4>2, <5>3 DEF Chains
      <4>4. dfn(u) < next
        BY <2>5, <4>0, <4>2
      <4>5. IsIdom(idomMap[u], u)
        BY <2>9, <4>1, <4>3, <4>4
      <4>6. IsIdom(idomMap[u], b)
        BY <2>10, <4>0, <4>5
      <4> QED BY <4>2, <4>6
    <3> QED BY <2>8, <3>1, <3>2 DEF IsRelative
  <2> HIDE DEF b, i
  <2>12. ASSUME NEW v \in Reached \ {entry}, dfn(v) < next + 1 PROVE IsIdom(idomMap'[v], v)
    <3>1. idomMap \in [Block0 -> Block0] /\ v \in Block0 /\ b \in Block0
      BY <1>t, <2>5, Types
    <3>2. CASE v = b
      BY <2>1, <2>11, <3>1, <3>2
    <3>3. CASE v # b
      <4>1. dfn(v) < next
        BY <2>5, <2>12, <3>3
      <4>2. idomMap'[v] = idomMap[v]
        BY <2>1, <3>1, <3>3
      <4> QED BY <2>9, <4>1, <4>2
    <3> QED BY <3>2, <3>3
  <2>13. \A v \in Reached' \ {entry'} : dfn(v)' < next' => IsIdom(idomMap'[v], v)
    BY <2>1, <2>2, <2>12
  <2>14. ASSUME NEW v \in Reached', IsIdom(idomMap'[v], v) PROVE IsIdom(idomMap[v], v)'
    BY <2>1, <2>14 DEF IsIdom, StrictlyDominates, Reached, ReachedWithout
  <2> QED BY <2>1, <2>13, <2>14 DEF IdomInv
<1>4. CASE ImmediateDominatorsDone
  <2>1. /\ pc = "idom" /\ next > Len(dfnVector) /\ pc' = "depth"
        /\ idomMap' = [idomMap EXCEPT ![entry] = Null]
        /\ UNCHANGED <<entry, succ, visited, dfnVector, parent>>
    BY <1>4 DEF ImmediateDominatorsDone
  <2> SUFFICES ASSUME Favourable' PROVE IdomInv'
    BY DEF IdomInv
  <2>2. /\ Favourable /\ Reached' = Reached
        /\ \A a, y : IsIdom(a, y)' <=> IsIdom(a, y)
    BY <2>1, TreeStays
  <2>3. Numbered
    BY <2>1, <2>2, FavourableNumbers
  <2>4. ASSUME NEW v \in Reached \ {entry} PROVE IsIdom(idomMap'[v], v)
    <3>1. dfn(v) \in 1 .. Len(dfnVector) /\ Len(dfnVector) \in Nat /\ next \in Nat /\ v \in Block
      BY <1>t, <2>3, Types DEF Numbered
    <3>2. dfn(v) < next
      BY <2>1, <3>1
    <3>3. IsIdom(idomMap[v], v)
      BY <2>1, <2>2, <3>2 DEF IdomInv
    <3>4. idomMap'[v] = idomMap[v]
      BY <1>t, <2>1, <3>1, Types, Blocks
    <3> QED BY <3>3, <3>4
  <2>5. \A v \in Reached' \ {entry'} : IsIdom(idomMap'[v], v)
    BY <2>1, <2>2, <2>4
  <2>6. ASSUME NEW v \in Reached', IsIdom(idomMap'[v], v) PROVE IsIdom(idomMap[v], v)'
    BY <2>1, <2>6 DEF IsIdom, StrictlyDominates, Reached, ReachedWithout
  <2> QED BY <2>1, <2>5, <2>6 DEF IdomInv
<1>5. CASE Depth \/ DepthDone \/ UNCHANGED dtvars
  <2>1. /\ UNCHANGED <<entry, succ, visited, dfnVector, parent, idomMap>>
        /\ pc' \in {"idom", "depth", "done"} => /\ pc \in {"idom", "depth", "done"}
                                                /\ pc = "idom" => pc' = "idom" /\ next' = next
                                                /\ pc' = "idom" => pc = "idom"
    BY <1>5 DEF Depth, DepthDone, dtvars
  <2> SUFFICES ASSUME pc' \in {"idom", "depth", "done"}, Favourable' PROVE IdomInv'
    BY DEF IdomInv
  <2>2. /\ Favourable /\ Reached' = Reached /\ \A y : dfn(y)' = dfn(y)
        /\ \A a, y : IsIdom(a, y)' <=> IsIdom(a, y)
    BY <2>1, TreeStays
  <2>3. \A v \in Reached' \ {entry'} : (pc' = "idom" => dfn(v)' < next') => IsIdom(idomMap'[v], v)
    BY <2>1, <2>2 DEF IdomInv
  <2>4. ASSUME NEW v \in Reached', IsIdom(idomMap'[v], v) PROVE IsIdom(idomMap[v], v)'
    BY <2>1, <2>4 DEF IsIdom, StrictlyDominates, Reached, ReachedWithout
  <2> QED BY <2>1, <2>3, <2>4 DEF IdomInv
<1> QED BY <1>1, <1>2, <1>3, <1>4, <1>5 DEF DTNext

(* The invariant of the analysis.                                           *)
AnalysisInv == DTInv /\ SearchOrder /\ LoopEnds /\ SemiInv /\ BucketInv /\ IdomInv

(* All of it is an invariant.                                               *)
LEMMA AnalysisInvariant == DTSpec => []AnalysisInv
<1>1. DTInit => AnalysisInv
  <2> SUFFICES ASSUME DTInit PROVE AnalysisInv
    OBVIOUS
  <2>1. pc = "dfs"
    BY DEF DTInit
  <2>2. DTInv /\ SearchOrder
    BY InitInv, OrderInitInv
  <2>3. LoopEnds /\ SemiInv /\ BucketInv /\ IdomInv
    BY <2>1 DEF LoopEnds, SemiInv, BucketInv, IdomInv
  <2> QED BY <2>2, <2>3 DEF AnalysisInv
<1>2. AnalysisInv /\ [DTNext]_dtvars => AnalysisInv'
  <2> SUFFICES ASSUME AnalysisInv, [DTNext]_dtvars PROVE AnalysisInv'
    OBVIOUS
  <2>1. DTInv /\ SearchOrder /\ LoopEnds /\ SemiInv /\ BucketInv /\ IdomInv
    BY DEF AnalysisInv
  <2>2. DTInv' /\ SearchOrder' /\ LoopEnds'
    BY <2>1, DTNextInv, OrderNextInv, LoopNextInv
  <2>3. SemiInv' /\ BucketInv' /\ IdomInv'
    BY <2>1, SemiNextInv, BucketNextInv, IdomNextInv
  <2> QED BY <2>2, <2>3 DEF AnalysisInv
<1> QED BY <1>1, <1>2, PTL DEF DTSpec

(* ImmediateDominatorsDownwards: if every block was allocated after its     *)
(* parent in the search, the search was depth-first and no dead block jumps *)
(* to a live one, runOnFunction computes the immediate dominators of every  *)
(* function, however many blocks and edges it has.                          *)
THEOREM DominatorsAreImmediate == DTSpec => []ImmediateDominatorsDownwards
<1>1. ASSUME AnalysisInv, pc = "done", AllocatedDownwards, DepthFirst, NoDeadPreds,
             NEW b \in Reached \ {entry}
      PROVE  IsIdom(idomMap[b], b)
  <2>1. Favourable
    BY <1>1 DEF AnalysisInv, LoopEnds, Favourable
  <2> QED BY <1>1, <2>1 DEF AnalysisInv, IdomInv
<1>2. AnalysisInv => ImmediateDominatorsDownwards
  BY <1>1 DEF ImmediateDominatorsDownwards
<1> QED BY <1>2, AnalysisInvariant, PTL
=============================================================================
