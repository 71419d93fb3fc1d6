------------------------------- MODULE DomTree -------------------------------
(***************************************************************************)
(* DominatorTreeWrapper::runOnFunction (Analysis/DominatorTree.cpp): the   *)
(* dominator tree of a function, with Graph::dfs (include/common/Graph.hpp)*)
(* and DominatorTreeResult::dominates.                                     *)
(*                                                                         *)
(* The code orders semidominators by the ADDRESS of the blocks, so a block *)
(* is its address here: 1 .. N, and 0 is the null pointer, below every     *)
(* block.  All orders of allocation are covered because the graph and the  *)
(* entry block are arbitrary.                                              *)
(*                                                                         *)
(* One step is one iteration of a loop of the code: a pop of the search,   *)
(* a block of the semidominator loop, a block of the second pass, a block  *)
(* of the depth computation.                                               *)
(***************************************************************************)
EXTENDS Naturals, Sequences, SequencesExt

CONSTANTS
  N,      (* the number of basic blocks                                     *)
  Entries,(* the blocks the function may start with                         *)
  Shapes  (* the control flow graphs: functions from blocks to the sequence *)
          (* of the successors of their terminator                          *)

Null   == 0
Block  == 1 .. N
Block0 == Block \cup {Null}

ASSUME BlocksAssumption == N \in Nat \ {0} /\ Entries \subseteq Block
ASSUME ShapesAssumption == \A s \in Shapes : s \in [Block -> Seq(Block)]

VARIABLES
  entry,     (* the entry block of F                                        *)
  succ,      (* successors(bb) of every block                               *)
  pc,        (* the loop the program is in; "diverged": eval never returns  *)
  worklist,  (* Graph::dfs: the stack, then the queue of the depth pass     *)
  visited,   (* Graph::dfs                                                  *)
  dfnVector,
  next,      (* the index of the current loop over dfnVector                *)
  parent, ancestor, sdom, bucket, (* nodeMap                                *)
  idomMap, nodeDepthMap           (* DTResult; depth 0: not in the map      *)

dtvars == <<entry, succ, pc, worklist, visited, dfnVector, next, parent,
            ancestor, sdom, bucket, idomMap, nodeDepthMap>>

Preds(b) == {p \in Block : b \in ToSet(succ[p])}

-----------------------------------------------------------------------------
(* Chains of ancestors.                                                     *)

(* The block reached from u by n steps of the chain, Null beyond its end.   *)
Climb(anc, u) ==
  LET up[n \in 0 .. N] == IF n = 0 THEN u
                          ELSE IF up[n - 1] = Null THEN Null ELSE anc[up[n - 1]]
  IN  up

(* eval returns: the chain of u has an end.                                 *)
Ends(anc, u) == Climb(anc, u)[N] = Null

(* Slip: the chain is not searched.                                         *)
EvalOfItself(anc, sd, u) == u

(* eval(u): u or the first block above it, the end of the chain excepted,   *)
(* with the least sdom.                                                     *)
Eval(anc, sd, u) ==
  LET up == Climb(anc, u)
      seen == {n \in 0 .. N : up[n] # Null /\ (n = 0 \/ anc[up[n]] # Null)}
  IN  up[CHOOSE n \in seen : \A m \in seen :
           sd[up[n]] < sd[up[m]] \/ (sd[up[n]] = sd[up[m]] /\ n <= m)]

-----------------------------------------------------------------------------
(* The successors that were not pushed before, in order.                    *)
New(b) ==
  FoldLeft(LAMBDA new, s : IF s \in visited \/ Contains(new, s) THEN new
                                                                ELSE Append(new, s),
           <<>>, succ[b])

(* Graph::dfs: pop a block, run the handler on it, push its new successors; *)
(* the handler of the parent runs at the push.  The entry is not marked     *)
(* when it is pushed first.                                                 *)
Visit ==
  /\ pc = "dfs"
  /\ worklist # <<>>
  /\ LET b == Last(worklist) IN
       /\ dfnVector' = Append(dfnVector, b)
       /\ sdom' = [sdom EXCEPT ![b] = b]
       /\ worklist' = Front(worklist) \o New(b)
       /\ visited' = visited \cup ToSet(succ[b])
       /\ parent' = [c \in Block0 |-> IF c \in ToSet(New(b)) THEN b ELSE parent[c]]
  /\ UNCHANGED <<entry, succ, pc, next, ancestor, bucket, idomMap, nodeDepthMap>>

VisitDone ==
  /\ pc = "dfs"
  /\ worklist = <<>>
  /\ pc' = "sdom"
  /\ next' = Len(dfnVector)
  /\ UNCHANGED <<entry, succ, worklist, visited, dfnVector, parent, ancestor,
                 sdom, bucket, idomMap, nodeDepthMap>>

-----------------------------------------------------------------------------
(* The semidominator of b: the least address among its own and those of     *)
(* eval(p), p a predecessor.                                                *)
SemiOf(b) ==
  LET below == {sdom[Eval(ancestor, sdom, p)] : p \in Preds(b)} \cup {sdom[b]}
  IN  CHOOSE s \in below : \A t \in below : s <= t

(* Slip: b is linked to its semidominator.                                  *)
LinkToSdom(b) == [ancestor EXCEPT ![b] = SemiOf(b)]

(* link(b, parent of b).                                                    *)
Link(b) == [ancestor EXCEPT ![b] = parent[b]]

(* One block of the semidominator loop: sdom, the bucket of the sdom, link, *)
(* then the bucket of the parent with the new links.                        *)
SemiDominator ==
  /\ pc = "sdom"
  /\ next > 0
  /\ LET b == dfnVector[next]
         p == parent[b]
         sd == [sdom EXCEPT ![b] = SemiOf(b)]
         anc == Link(b)
         bkt == [bucket EXCEPT ![sd[b]] = @ \cup {b}]
         done == IF p = Null THEN {} ELSE bkt[p]
     IN  IF (\E q \in Preds(b) : ~Ends(ancestor, q)) \/ (\E v \in done : ~Ends(anc, v))
         THEN pc' = "diverged" /\ UNCHANGED <<next, ancestor, sdom, bucket, idomMap>>
         ELSE /\ sdom' = sd
              /\ ancestor' = anc
              /\ bucket' = IF p = Null THEN bkt ELSE [bkt EXCEPT ![p] = {}]
              /\ idomMap' = [v \in Block0 |->
                   IF v \in done
                   THEN IF sd[Eval(anc, sd, v)] < sd[v] THEN Eval(anc, sd, v) ELSE p
                   ELSE idomMap[v]]
              /\ next' = next - 1
              /\ UNCHANGED pc
  /\ UNCHANGED <<entry, succ, worklist, visited, dfnVector, parent, nodeDepthMap>>

SemiDominatorsDone ==
  /\ pc = "sdom"
  /\ next = 0
  /\ pc' = "idom"
  /\ next' = 2
  /\ UNCHANGED <<entry, succ, worklist, visited, dfnVector, parent, ancestor,
                 sdom, bucket, idomMap, nodeDepthMap>>

(* One block of the second pass, in the order of the search.                *)
ImmediateDominator ==
  /\ pc = "idom"
  /\ next <= Len(dfnVector)
  /\ LET b == dfnVector[next] IN
       idomMap' = [idomMap EXCEPT ![b] = IF @ = sdom[b] THEN @ ELSE idomMap[@]]
  /\ next' = next + 1
  /\ UNCHANGED <<entry, succ, pc, worklist, visited, dfnVector, parent, ancestor,
                 sdom, bucket, nodeDepthMap>>

(* The entry loses its dominator, childrenMap is built: the inverse of      *)
(* idomMap.  The depth computation starts.                                  *)
ImmediateDominatorsDone ==
  /\ pc = "idom"
  /\ next > Len(dfnVector)
  /\ pc' = "depth"
  /\ idomMap' = [idomMap EXCEPT ![entry] = Null]
  /\ worklist' = <<entry>>
  /\ UNCHANGED <<entry, succ, visited, dfnVector, next, parent, ancestor, sdom,
                 bucket, nodeDepthMap>>

Children(b) == {c \in Block : idomMap[c] = b}

(* computeTreeNodeDepthHelper: the order of the children does not matter.   *)
Depth ==
  /\ pc = "depth"
  /\ worklist # <<>>
  /\ LET b == Head(worklist) IN
       /\ nodeDepthMap' = [nodeDepthMap EXCEPT ![b] = nodeDepthMap[idomMap[b]] + 1]
       /\ worklist' = Tail(worklist) \o SetToSeq(Children(b))
  /\ UNCHANGED <<entry, succ, pc, visited, dfnVector, next, parent, ancestor, sdom,
                 bucket, idomMap>>

DepthDone ==
  /\ pc = "depth"
  /\ worklist = <<>>
  /\ pc' = "done"
  /\ UNCHANGED <<entry, succ, worklist, visited, dfnVector, next, parent, ancestor,
                 sdom, bucket, idomMap, nodeDepthMap>>

DTInit ==
  /\ entry \in Entries
  /\ succ \in Shapes
  /\ pc = "dfs"
  /\ worklist = <<entry>>
  /\ visited = {}
  /\ dfnVector = <<>>
  /\ next = 0
  /\ parent = [b \in Block0 |-> Null]
  /\ ancestor = [b \in Block0 |-> Null]
  /\ sdom = [b \in Block0 |-> Null]
  /\ bucket = [b \in Block0 |-> {}]
  /\ idomMap = [b \in Block0 |-> Null]
  /\ nodeDepthMap = [b \in Block0 |-> 0]

DTNext ==
  \/ Visit \/ VisitDone
  \/ SemiDominator \/ SemiDominatorsDone
  \/ ImmediateDominator \/ ImmediateDominatorsDone
  \/ Depth \/ DepthDone

DTSpec == DTInit /\ [][DTNext]_dtvars
DTFairSpec == DTSpec /\ WF_dtvars(DTNext)

-----------------------------------------------------------------------------
(* Slip: the climb stops one level too early.                               *)
DominatesStrictlyDeeper(a, b) ==
  LET up == Climb(idomMap, b) IN
    \E n \in 1 .. N :
      /\ up[n] = a
      /\ \A m \in 1 .. n : up[m] # Null /\ nodeDepthMap[up[m]] > nodeDepthMap[a]

(* DominatorTreeResult::dominates(a, b), for blocks that are in             *)
(* nodeDepthMap: climb from b while the idom is not above a.                *)
Dominates(a, b) ==
  LET up == Climb(idomMap, b) IN
    \E n \in 1 .. N :
      /\ up[n] = a
      /\ \A m \in 1 .. n : up[m] # Null /\ nodeDepthMap[up[m]] >= nodeDepthMap[a]

-----------------------------------------------------------------------------
(* The reference: paths in the control flow graph.                          *)

(* The blocks reached from start along edges by paths that avoid a.         *)
ReachedFrom(start, edges, a) ==
  LET reach[n \in 0 .. N] ==
        IF n = 0 THEN {start} \ {a}
        ELSE reach[n - 1] \cup
             UNION {ToSet(edges[b]) \ {a} : b \in reach[n - 1]}
  IN  reach[N]

ReachedWithout(a) == ReachedFrom(entry, succ, a)
Reached == ReachedWithout(Null)
StrictlyDominates(a, b) == a # b /\ b \in Reached \ ReachedWithout(a)
IsIdom(a, b) ==
  /\ StrictlyDominates(a, b)
  /\ \A c \in Block : StrictlyDominates(c, b) => c = a \/ StrictlyDominates(c, a)

(* Every block was allocated after the block dfs pushed it from.            *)
AllocatedDownwards == \A b \in Reached \ {entry} : parent[b] < b

(* The parents of dfs are a depth-first spanning tree: an edge from a block *)
(* to one numbered later goes down the tree.                                *)
DepthFirst ==
  \A i, j \in DOMAIN dfnVector :
    i < j /\ dfnVector[j] \in ToSet(succ[dfnVector[i]]) =>
      \E n \in 1 .. N : Climb(parent, dfnVector[j])[n] = dfnVector[i]

(* No block that is not reached jumps to one that is.                       *)
NoDeadPreds == \A b \in Reached : Preds(b) \subseteq Reached

EntryHasPreds == Preds(entry) \cap Reached # {}

(* Types of the state; the search numbers a block once, the entry block at  *)
(* most twice.                                                              *)
DTTypeOK ==
  /\ entry \in Block /\ succ \in [Block -> Seq(Block)]
  /\ pc \in {"dfs", "sdom", "idom", "depth", "done", "diverged"}
  /\ worklist \in Seq(Block) /\ visited \subseteq Block
  /\ dfnVector \in Seq(Block) /\ Len(dfnVector) <= N + 1
  /\ next \in 0 .. N + 2
  /\ {parent, ancestor, sdom, idomMap} \subseteq [Block0 -> Block0]
  /\ bucket \in [Block0 -> SUBSET Block]
  /\ nodeDepthMap \in [Block0 -> 0 .. N]

(* The map computed is the map of immediate dominators if every block was   *)
(* allocated after its parent in the search, the search was depth-first and *)
(* no dead block jumps to a live one.  (computeIDom compares addresses.)    *)
ImmediateDominatorsDownwards ==
  pc = "done" /\ AllocatedDownwards /\ DepthFirst /\ NoDeadPreds =>
    \A b \in Reached \ {entry} : IsIdom(idomMap[b], b)

(* dominates(a, b) answers whether b is below a in the tree that was built. *)
DominatesIsAncestry ==
  pc = "done" =>
    \A a, b \in {c \in Block : nodeDepthMap[c] > 0} :
      Dominates(a, b) <=> \E n \in 1 .. N : Climb(idomMap, b)[n] = a

(* eval is lost in a cycle of ancestors only if the search met the entry    *)
(* again, and so gave it a parent.                                          *)
DivergesOnlyThroughTheEntry == pc = "diverged" => EntryHasPreds

(* The analysis ends unless the entry block has a predecessor: eval never   *)
(* follows a cycle of ancestors, the search and the depth pass visit a      *)
(* bounded number of blocks.                                                *)
Terminates == <>(pc = "done" \/ EntryHasPreds)

-----------------------------------------------------------------------------
(* What the comments of the code say.                                       *)

(* DominatorTree.cpp: "Compute the dominator tree using the Lengauer-Tarjan *)
(* algorithm", here on functions whose blocks are all reached.              *)
ImmediateDominators ==
  pc = "done" /\ Reached = Block => \A b \in Block \ {entry} : IsIdom(idomMap[b], b)

(* Graph.hpp: "Perform a depth-first search on the graph with a stack".     *)
SearchIsDepthFirst == pc = "sdom" /\ ~EntryHasPreds => DepthFirst
=============================================================================
