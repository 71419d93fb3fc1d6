---------------------------- MODULE ParserProofs ----------------------------
(***************************************************************************)
(* Proofs about Parse, for every grammar, every table that follows its     *)
(* items and every input.                                                  *)
(*                                                                         *)
(* What the stacks hold is not what Parse tests, it is what the items of   *)
(* the states say: an item <<rule, pos, lookahead>> of the state at        *)
(* position k says that the pos symbols below k are the first ones of the  *)
(* right side of the rule, and that the rule is called for by the state    *)
(* under them. That is kept by pushing a state the table moves to          *)
(* (PushMatches) and by popping (PopMatches), and it gives each reduction  *)
(* its right side. With the types it is the inductive invariant PInv.      *)
(*                                                                         *)
(* That Parse implements Derivation follows turn by turn, and that what    *)
(* Derivation accepts is derived by the rules holds because undoing a rule *)
(* inside a form is undoing it in front of more words (UndoesInFront).     *)
(***************************************************************************)
EXTENDS Parser, BasicLemmas

----------------------------------------------------------------------------
(* The inductive invariant.                                                *)

ItemMatches(k, it, states, syms) ==
  /\ it[1] \in DOMAIN rules
  /\ it[2] \in 0 .. Len(Right(it[1])) /\ it[2] <= k - 1
  /\ \A d \in 1 .. it[2] : Right(it[1])[d] = syms[k - 1 - it[2] + d]
  /\ it[1] = 1 => it[2] = k - 1
  /\ it[1] # 1 => Calls(states[k - it[2]], it[1])
Matches(states, syms) ==
  \A k \in 1 .. Len(states) : \A it \in states[k] : ItemMatches(k, it, states, syms)

PInv == PTypeOK /\ Matches(stateStack, symStack)

(* The rules are what the assumption says.                                 *)
LEMMA RuleTypes ==
  /\ 1 \in DOMAIN rules
  /\ \A r \in DOMAIN rules : rules[r].left \in Symbol /\ Right(r) \in Seq(Symbol)
<1>1. rules \in Seq(Range(rules)) /\ rules # <<>>
  BY RulesAssumption
<1>2. DOMAIN rules = 1 .. Len(rules) /\ Len(rules) \in Nat \ {0}
  BY <1>1, LenProperties, EmptySeq
<1> QED BY <1>2, RulesAssumption

(* Two stacks that stay in step.                                           *)
Stacked(states, syms) ==
  states \in Seq(DOMAIN table) /\ syms \in Seq(Symbol) /\ Len(states) = Len(syms) + 1

(* The symbols and states of a shorter stack are those of the longer one.  *)
LEMMA PopMatches ==
  ASSUME NEW states, NEW syms, Stacked(states, syms), Matches(states, syms),
         NEW n \in 0 .. Len(syms)
  PROVE  /\ Stacked(SubSeq(states, 1, n + 1), SubSeq(syms, 1, n))
         /\ Len(SubSeq(syms, 1, n)) = n
         /\ Last(SubSeq(states, 1, n + 1)) = states[n + 1]
         /\ Matches(SubSeq(states, 1, n + 1), SubSeq(syms, 1, n))
<1> DEFINE ss == SubSeq(states, 1, n + 1)
           ys == SubSeq(syms, 1, n)
<1>1. Len(syms) \in Nat /\ Len(states) = Len(syms) + 1
  BY LenProperties DEF Stacked
<1>2. /\ ss \in Seq(DOMAIN table) /\ Len(ss) = n + 1
      /\ \A k \in 1 .. n + 1 : ss[k] = states[k]
  <2>1. /\ 1 \in 1 .. Len(states) + 1 /\ n + 1 \in 0 .. Len(states) /\ 1 <= n + 1 + 1
        /\ n + 1 - 1 + 1 = n + 1 /\ \A k \in 1 .. n + 1 : 1 + k - 1 = k
    BY <1>1
  <2> QED BY <2>1, Segment DEF Stacked
<1>3. /\ ys \in Seq(Symbol) /\ Len(ys) = n
      /\ \A k \in 1 .. n : ys[k] = syms[k]
  <2>1. /\ 1 \in 1 .. Len(syms) + 1 /\ n \in 0 .. Len(syms) /\ 1 <= n + 1
        /\ n - 1 + 1 = n /\ \A k \in 1 .. n : 1 + k - 1 = k
    BY <1>1
  <2> QED BY <2>1, Segment DEF Stacked
<1>4. Last(ss) = states[n + 1]
  BY <1>2 DEF Last
<1> HIDE DEF ss, ys
<1>5. ASSUME NEW k \in 1 .. Len(ss), NEW it \in ss[k]
      PROVE  ItemMatches(k, it, ss, ys)
  <2>1. k \in 1 .. Len(states) /\ k \in Nat /\ k <= n + 1 /\ ss[k] = states[k]
    BY <1>1, <1>2
  <2>2. ItemMatches(k, it, states, syms)
    BY <2>1 DEF Matches
  <2>3. it[2] \in Nat /\ it[2] <= k - 1
    BY <2>2 DEF ItemMatches
  <2>4. \A d \in 1 .. it[2] : ys[k - 1 - it[2] + d] = syms[k - 1 - it[2] + d]
    BY <2>1, <2>3, <1>3
  <2>5. ss[k - it[2]] = states[k - it[2]]
    BY <2>1, <2>3, <1>2
  <2> QED BY <2>2, <2>4, <2>5 DEF ItemMatches
<1> QED BY <1>2, <1>3, <1>4, <1>5 DEF Stacked, Matches, ss, ys

(* A state that the table moves to from the top says what is then on the   *)
(* stack.                                                                  *)
LEMMA PushMatches ==
  ASSUME NEW states, NEW syms, Stacked(states, syms), Matches(states, syms),
         NEW sym \in Symbol, NEW to, Moves(Last(states), sym, to)
  PROVE  /\ Stacked(Append(states, to), Append(syms, sym))
         /\ Matches(Append(states, to), Append(syms, sym))
<1> DEFINE n == Len(syms)
           ss == Append(states, to)
           ys == Append(syms, sym)
<1>1. n \in Nat /\ Len(states) = n + 1 /\ Last(states) = states[n + 1]
  BY LenProperties DEF Stacked, Last
<1>2. /\ ss \in Seq(DOMAIN table) /\ Len(ss) = n + 2
      /\ \A k \in 1 .. n + 1 : ss[k] = states[k]
      /\ ss[n + 2] = to
  <2>1. to \in DOMAIN table
    BY DEF Moves
  <2>2. /\ ss \in Seq(DOMAIN table) /\ Len(ss) = Len(states) + 1
        /\ \A k \in 1 .. Len(states) : ss[k] = states[k]
        /\ ss[Len(states) + 1] = to
    BY <2>1, AppendProperties DEF Stacked
  <2>3. n + 1 + 1 = n + 2
    BY <1>1
  <2> QED BY <2>2, <2>3, <1>1
<1>3. /\ ys \in Seq(Symbol) /\ Len(ys) = n + 1
      /\ \A k \in 1 .. n : ys[k] = syms[k]
      /\ ys[n + 1] = sym
  <2>1. syms \in Seq(Symbol) /\ sym \in Symbol
    BY DEF Stacked
  <2>2. /\ ys \in Seq(Symbol) /\ Len(ys) = Len(syms) + 1
        /\ \A k \in 1 .. Len(syms) : ys[k] = syms[k]
        /\ ys[Len(syms) + 1] = sym
    BY <2>1, AppendProperties
  <2> QED BY <2>2
<1> HIDE DEF ss, ys
<1>4. ASSUME NEW k \in 1 .. n + 1, NEW it \in states[k]
      PROVE  ItemMatches(k, it, ss, ys)
  <2>1. ItemMatches(k, it, states, syms)
    BY <1>1 DEF Matches
  <2>2. it[2] \in Nat /\ it[2] <= k - 1
    BY <2>1 DEF ItemMatches
  <2>3. \A d \in 1 .. it[2] : ys[k - 1 - it[2] + d] = syms[k - 1 - it[2] + d]
    <3>1. \A d \in 1 .. it[2] : k - 1 - it[2] + d \in 1 .. n
      BY <2>2, <1>1
    <3> QED BY <3>1, <1>3
  <2>4. ss[k - it[2]] = states[k - it[2]]
    BY <2>2, <1>1, <1>2
  <2> QED BY <2>1, <2>3, <2>4 DEF ItemMatches
<1>5. ASSUME NEW it \in to
      PROVE  ItemMatches(n + 2, it, ss, ys)
  <2> DEFINE r == it[1]
             p == it[2]
  <2>1. /\ r \in DOMAIN rules /\ p \in 1 .. Len(Right(r)) /\ Right(r)[p] = sym
        /\ IF p > 1 \/ r = 1 THEN <<r, p - 1, it[3]>> \in states[n + 1]
           ELSE Calls(states[n + 1], r)
    BY <1>1 DEF Moves
  <2>2. Len(Right(r)) \in Nat
    BY <2>1, RuleTypes, LenProperties
  <2> HIDE DEF r, p
  <2>3. CASE p > 1 \/ r = 1
    <3> DEFINE was == <<r, p - 1, it[3]>>
    <3>1. was \in states[n + 1] /\ was[1] = r /\ was[2] = p - 1
      BY <2>1, <2>3
    <3> HIDE DEF was
    <3>2. ItemMatches(n + 1, was, states, syms)
      BY <3>1, <1>1 DEF Matches
    <3>3. /\ p - 1 <= n
          /\ \A d \in 1 .. p - 1 : Right(r)[d] = syms[n + 1 - 1 - (p - 1) + d]
          /\ r = 1 => p - 1 = n + 1 - 1
          /\ r # 1 => Calls(states[n + 1 - (p - 1)], r)
      BY <3>1, <3>2, <1>1 DEF ItemMatches
    <3>4. \A d \in 1 .. p : Right(r)[d] = ys[(n + 2) - 1 - p + d]
      <4>1. ASSUME NEW d \in 1 .. p - 1 PROVE Right(r)[d] = ys[(n + 2) - 1 - p + d]
        <5>1. n + 1 - 1 - (p - 1) + d = (n + 2) - 1 - p + d /\ (n + 2) - 1 - p + d \in 1 .. n
          BY <1>1, <2>1, <2>2, <3>3
        <5> QED BY <5>1, <3>3, <1>3
      <4>2. Right(r)[p] = ys[(n + 2) - 1 - p + p]
        <5>1. (n + 2) - 1 - p + p = n + 1
          BY <1>1, <2>1, <2>2
        <5> QED BY <5>1, <2>1, <1>3
      <4>3. \A d \in 1 .. p : d \in 1 .. p - 1 \/ d = p
        BY <2>1, <2>2
      <4> QED BY <4>1, <4>2, <4>3
    <3>5. r # 1 => Calls(ss[(n + 2) - p], r)
      <4>1. n + 1 - (p - 1) = (n + 2) - p /\ (n + 2) - p \in 1 .. n + 1
        BY <1>1, <2>1, <2>2, <3>3
      <4> QED BY <4>1, <3>3, <1>2
    <3>6. p <= (n + 2) - 1 /\ (r = 1 => p = (n + 2) - 1) /\ p \in 0 .. Len(Right(r))
      BY <3>3, <1>1, <2>1, <2>2
    <3>7. r \in DOMAIN rules
      BY <2>1
    <3>8. /\ it[1] \in DOMAIN rules
          /\ it[2] \in 0 .. Len(Right(it[1])) /\ it[2] <= (n + 2) - 1
          /\ \A d \in 1 .. it[2] : Right(it[1])[d] = ys[(n + 2) - 1 - it[2] + d]
          /\ it[1] = 1 => it[2] = (n + 2) - 1
          /\ it[1] # 1 => Calls(ss[(n + 2) - it[2]], it[1])
      BY <3>4, <3>5, <3>6, <3>7, Zenon DEF r, p
    <3> QED BY <3>8, Zenon DEF ItemMatches
  <2>4. CASE ~ (p > 1 \/ r = 1)
    <3>1. p = 1 /\ r # 1 /\ n + 2 - 1 = n + 1 /\ n + 1 \in 1 .. n + 1
      BY <2>1, <2>2, <2>4, <1>1
    <3>2. Calls(ss[(n + 2) - p], r)
      BY <2>1, <2>4, <3>1, <1>2
    <3>3. \A d \in 1 .. p : Right(r)[d] = ys[(n + 2) - 1 - p + d]
      <4>1. \A d \in 1 .. p : d = p /\ (n + 2) - 1 - p + d = n + 1
        BY <3>1, <1>1
      <4> QED BY <4>1, <2>1, <1>3
    <3>4. p \in 0 .. Len(Right(r)) /\ p <= (n + 2) - 1
      BY <2>1, <2>2, <3>1, <1>1
    <3> QED BY <2>1, <3>1, <3>2, <3>3, <3>4 DEF ItemMatches, r, p
  <2> QED BY <2>3, <2>4
<1>6. ASSUME NEW k \in 1 .. Len(ss), NEW it \in ss[k]
      PROVE  ItemMatches(k, it, ss, ys)
  <2>1. CASE k \in 1 .. n + 1
    BY <2>1, <1>2, <1>4
  <2>2. CASE k = n + 2
    BY <2>2, <1>2, <1>5
  <2> QED BY <2>1, <2>2, <1>1, <1>2
<1>7. Len(ss) = Len(ys) + 1
  BY <1>1, <1>2, <1>3
<1> QED BY <1>2, <1>3, <1>6, <1>7 DEF Stacked, Matches, ss, ys

----------------------------------------------------------------------------
(* What the table does.                                                    *)

(* An entry that is there is one the generator's items stand for.          *)
LEMMA EntriesFollow ==
  ASSUME NEW s \in DOMAIN table, NEW sym, EntryOf(s, sym)[1] # "NONE"
  PROVE  FollowsItems(s, sym, EntryOf(s, sym))
<1>1. sym \in DOMAIN table[s]
  BY DEF EntryOf
<1> QED BY <1>1, TableFollowsItems DEF EntryOf

(* The state on top, and what is read: a token or the end.                 *)
LEMMA TopOfStack ==
  ASSUME PTypeOK
  PROVE  /\ Stacked(stateStack, symStack)
         /\ Last(stateStack) = stateStack[Len(symStack) + 1]
         /\ Last(stateStack) \in DOMAIN table
<1>1. stateStack \in Seq(DOMAIN table) /\ symStack \in Seq(Symbol)
      /\ Len(stateStack) = Len(symStack) + 1
  BY DEF PTypeOK
<1>2. Len(symStack) \in Nat
  BY <1>1, LenProperties
<1>3. Len(stateStack) \in 1 .. Len(stateStack)
  BY <1>1, <1>2
<1>4. stateStack[Len(stateStack)] \in DOMAIN table
  BY <1>1, <1>3, ElementOfSeq
<1> QED BY <1>1, <1>4 DEF Stacked, Last

LEMMA WhatIsRead ==
  ASSUME AreTokens(input), index \in 1 .. Len(input) + 1
  PROVE  \/ /\ index \in 1 .. Len(input)
            /\ curSym = input[index].sym
            /\ curSym \in Terminals
         \/ /\ index = Len(input) + 1
            /\ curSym = "END_OF_FILE"
<1>1. input \in Seq(Range(input)) /\ Len(input) \in Nat
  BY LenProperties DEF AreTokens
<1>2. CASE index <= Len(input)
  <2>1. index \in 1 .. Len(input)
    BY <1>1, <1>2
  <2>2. input[index] \in Range(input)
    BY <1>1, <2>1, ElementOfSeq
  <2> QED BY <1>2, <2>1, <2>2 DEF curSym, AreTokens
<1>3. CASE ~ (index <= Len(input))
  BY <1>1, <1>3 DEF curSym
<1> QED BY <1>2, <1>3

(* A rule that is reduced finds its right side and the state that called   *)
(* for it.                                                                 *)
LEMMA ReductionsFind ==
  ASSUME PInv, NEW sym, NEW r, Reduces(Last(stateStack), sym, r)
  PROVE  /\ r \in DOMAIN rules /\ Right(r) \in Seq(Symbol) /\ Len(Right(r)) \in 0 .. Len(symStack)
         /\ SubSeq(symStack, Len(symStack) - Len(Right(r)) + 1, Len(symStack)) = Right(r)
         /\ Calls(stateStack[Len(symStack) - Len(Right(r)) + 1], r)
<1> DEFINE n == Len(symStack)
           m == Len(Right(r))
<1>1. /\ Stacked(stateStack, symStack) /\ Last(stateStack) = stateStack[n + 1]
      /\ symStack \in Seq(Symbol) /\ n \in Nat
  BY TopOfStack, LenProperties DEF PInv, Stacked
<1>2. r \in DOMAIN rules /\ r # 1 /\ Right(r) \in Seq(Symbol) /\ m \in Nat
  BY RuleTypes, LenProperties DEF Reduces
<1>3. CASE Right(r) = <<>>
  <2>1. m = 0 /\ n - m + 1 = n + 1
    BY <1>1, <1>3, EmptySeq
  <2>2. SubSeq(symStack, n - m + 1, n) = <<>>
    <3>1. n + 1 \in Int /\ n \in Int /\ n < n + 1
      BY <1>1
    <3> QED BY <2>1, <3>1, SubSeqEmpty
  <2>3. Calls(stateStack[n + 1], r)
    BY <1>1, <1>3 DEF Reduces
  <2> QED BY <1>1, <1>2, <1>3, <2>1, <2>2, <2>3
<1>4. CASE Right(r) # <<>>
  <2> DEFINE it == <<r, m, sym>>
  <2>1. it \in stateStack[n + 1] /\ it[1] = r /\ it[2] = m
    BY <1>1, <1>4 DEF Reduces
  <2> HIDE DEF it
  <2>2. n + 1 \in 1 .. Len(stateStack)
    BY <1>1 DEF Stacked
  <2>3. ItemMatches(n + 1, it, stateStack, symStack)
    BY <2>1, <2>2 DEF PInv, Matches
  <2>4. /\ m <= (n + 1) - 1
        /\ \A d \in 1 .. m : Right(r)[d] = symStack[(n + 1) - 1 - m + d]
        /\ Calls(stateStack[(n + 1) - m], r)
    BY <1>2, <2>1, <2>3 DEF ItemMatches
  <2>5. m \in 0 .. n /\ (n + 1) - m = n - m + 1
    BY <1>1, <1>2, <2>4
  <2>6. SubSeq(symStack, n - m + 1, n) = Right(r)
    <3> DEFINE t == SubSeq(symStack, n - m + 1, n)
    <3>1. /\ n - m + 1 \in 1 .. n + 1 /\ n \in 0 .. n /\ n - m + 1 <= n + 1
          /\ n - (n - m + 1) + 1 = m
          /\ \A d \in 1 .. m : (n - m + 1) + d - 1 = (n + 1) - 1 - m + d
      BY <1>1, <1>2, <2>5
    <3>2. /\ t \in Seq(Symbol) /\ Len(t) = n - (n - m + 1) + 1
          /\ \A d \in 1 .. n - (n - m + 1) + 1 : t[d] = symStack[(n - m + 1) + d - 1]
      BY <1>1, <3>1, Segment
    <3>3. Len(t) = m /\ \A d \in 1 .. m : t[d] = symStack[(n - m + 1) + d - 1]
      BY <3>1, <3>2
    <3>4. \A d \in 1 .. Len(t) : t[d] = Right(r)[d]
      BY <2>4, <3>1, <3>3
    <3> HIDE DEF t
    <3>5. t = Right(r)
      BY <1>2, <3>2, <3>3, <3>4, SeqEqual
    <3> QED BY <3>5 DEF t
  <2> QED BY <1>2, <2>4, <2>5, <2>6
<1> QED BY <1>3, <1>4

----------------------------------------------------------------------------
(* Sequences of anything.                                                  *)

LEMMA AppendAny ==
  ASSUME NEW s, s \in Seq(Range(s)), NEW e, NEW t, t = Append(s, e)
  PROVE  /\ t \in Seq(Range(t)) /\ Len(t) = Len(s) + 1
         /\ Range(t) \subseteq Range(s) \cup {e}
<1> DEFINE T == Range(s) \cup {e}
<1>1. s \in Seq(T) /\ e \in T
  BY SeqMonotonic
<1> HIDE DEF T
<1>2. t \in Seq(T) /\ Len(t) = Len(s) + 1
  BY <1>1, AppendProperties
<1>3. t \in Seq(Range(t)) /\ Range(t) \subseteq T
  BY <1>2, SeqOfRange, RangeOfSeq
<1> QED BY <1>2, <1>3 DEF T

LEMMA PrefixAny ==
  ASSUME NEW s, s \in Seq(Range(s)), NEW n \in 0 .. Len(s), NEW t, t = SubSeq(s, 1, n)
  PROVE  t \in Seq(Range(t)) /\ Len(t) = n
<1>1. Len(s) \in Nat
  BY LenProperties
<1>2. 1 \in 1 .. Len(s) + 1 /\ 1 <= n + 1 /\ n - 1 + 1 = n
  BY <1>1
<1>3. t \in Seq(Range(s)) /\ Len(t) = n
  BY <1>2, Segment
<1> QED BY <1>3, SeqOfRange

LEMMA MoreTokens ==
  ASSUME AreTokens(input), NEW token, AreTokens(<<token>>)
  PROVE  AreTokens(Append(input, token)) /\ Len(Append(input, token)) = Len(input) + 1
<1> DEFINE t == Append(input, token)
<1>1. t \in Seq(Range(t)) /\ Len(t) = Len(input) + 1 /\ Range(t) \subseteq Range(input) \cup {token}
  BY AppendAny DEF AreTokens
<1>2. token \in Range(<<token>>)
  BY DEF Range
<1> HIDE DEF t
<1>3. AreTokens(t)
  BY <1>1, <1>2 DEF AreTokens
<1> QED BY <1>1, <1>3 DEF t

----------------------------------------------------------------------------
(* The invariant is kept.                                                  *)

LEMMA PInvInit == PInit => PInv
<1> SUFFICES ASSUME PInit PROVE PInv
  OBVIOUS
<1>1. /\ AreTokens(input) /\ more \in BOOLEAN /\ index = 1 /\ outcome = "parsing"
      /\ stateStack = <<start>> /\ symStack = <<>> /\ infoStack = <<>>
  BY DEF PInit, Begin
<1>2. Len(input) \in Nat
  BY <1>1, LenProperties DEF AreTokens
<1>3. start \in DOMAIN table
  BY TableFollowsItems
<1>4. PTypeOK
  <2>1. stateStack \in Seq(DOMAIN table) /\ Len(stateStack) = 1
    BY <1>1, <1>3
  <2>2. /\ symStack \in Seq(Symbol) /\ Len(symStack) = 0
        /\ infoStack \in Seq(Range(infoStack)) /\ Len(infoStack) = 0
    BY <1>1
  <2> QED BY <1>1, <1>2, <2>1, <2>2 DEF PTypeOK
<1>5. ASSUME NEW k \in 1 .. Len(stateStack), NEW it \in stateStack[k]
      PROVE  ItemMatches(k, it, stateStack, symStack)
  <2>1. k = 1 /\ it \in start
    BY <1>1
  <2>2. it[1] = 1 /\ it[2] = 0
    BY <2>1 DEF start
  <2>3. Right(1) \in Seq(Symbol) /\ Len(Right(1)) \in Nat /\ 1 \in DOMAIN rules
    BY RuleTypes, LenProperties
  <2> QED BY <2>1, <2>2, <2>3 DEF ItemMatches
<1> QED BY <1>4, <1>5 DEF PInv, Matches

LEMMA SupplyKeeps ==
  ASSUME PInv, NEW token, AreTokens(<<token>>), Supply(token)
  PROVE  PInv'
<1>1. /\ input' = Append(input, token)
      /\ UNCHANGED <<more, index, stateStack, symStack, infoStack, outcome>>
  BY DEF Supply, stacks
<1>2. AreTokens(input') /\ Len(input') = Len(input) + 1
  BY <1>1, MoreTokens DEF PInv, PTypeOK
<1>3. Len(input) \in Nat
  BY LenProperties DEF PInv, PTypeOK, AreTokens
<1>4. PTypeOK'
  <2>1. index \in 1 .. Len(input') + 1
    BY <1>2, <1>3 DEF PInv, PTypeOK
  <2> QED BY <1>1, <1>2, <2>1 DEF PInv, PTypeOK
<1>5. Matches(stateStack, symStack)'
  BY <1>1 DEF PInv, Matches, ItemMatches
<1> QED BY <1>4, <1>5 DEF PInv

(* What leaves the stacks and the input alone.                             *)
LEMMA QuietKeeps ==
  ASSUME PInv, UNCHANGED <<input, index, stacks>>, more' \in BOOLEAN,
         outcome' \in Answers \cup {"parsing"}
  PROVE  PInv'
<1>1. UNCHANGED <<input, index, stateStack, symStack, infoStack>>
  BY DEF stacks
<1>2. PTypeOK'
  BY <1>1 DEF PInv, PTypeOK
<1>3. Matches(stateStack, symStack)'
  BY <1>1 DEF PInv, Matches, ItemMatches
<1> QED BY <1>2, <1>3 DEF PInv

LEMMA ShiftKeeps ==
  ASSUME PInv, Shift
  PROVE  /\ PInv'
         /\ index \in 1 .. Len(input) /\ curSym = input[index].sym
<1>1. /\ entry[1] = "SHIFT" /\ index' = index + 1
      /\ infoStack' = Append(infoStack, Leaf(input[index]))
      /\ stateStack' = Append(stateStack, entry[2])
      /\ symStack' = Append(symStack, curSym)
      /\ UNCHANGED <<outcome, input, more>>
  BY DEF Shift, Quiet
<1>2. /\ Stacked(stateStack, symStack) /\ Last(stateStack) \in DOMAIN table
  BY TopOfStack DEF PInv
<1>3. FollowsItems(Last(stateStack), curSym, entry)
  BY <1>1, <1>2, EntriesFollow DEF entry
<1>4. Moves(Last(stateStack), curSym, entry[2]) /\ curSym \in Terminals
  BY <1>1, <1>3 DEF FollowsItems
<1>5. index \in 1 .. Len(input) /\ curSym = input[index].sym /\ curSym \in Symbol
  BY <1>4, WhatIsRead DEF PInv, PTypeOK, Terminals
<1>6. Stacked(stateStack', symStack') /\ Matches(stateStack', symStack')
  BY <1>1, <1>2, <1>4, <1>5, PushMatches DEF PInv
<1>7. infoStack' \in Seq(Range(infoStack')) /\ Len(infoStack') = Len(infoStack) + 1
  BY <1>1, AppendAny DEF PInv, PTypeOK
<1>8. Len(symStack') = Len(symStack) + 1
  BY <1>1, <1>2, <1>5, AppendProperties DEF Stacked
<1>9. Len(input) \in Nat
  BY LenProperties DEF PInv, PTypeOK, AreTokens
<1>10. index' \in 1 .. Len(input) + 1
  BY <1>1, <1>5, <1>9
<1>11. PTypeOK'
  BY <1>1, <1>6, <1>7, <1>8, <1>10 DEF PInv, PTypeOK, Stacked
<1>12. Matches(stateStack, symStack)'
  BY <1>6 DEF Matches, ItemMatches
<1> QED BY <1>5, <1>11, <1>12 DEF PInv

(* A reduction ends the process in the action of the rule or puts the left *)
(* side in the place of the right side, and always finds a GOTO.           *)
LEMMA ReduceSteps ==
  ASSUME PInv, Reduce
  PROVE  \/ /\ outcome' \in {"exited", "hangs"}
            /\ UNCHANGED <<input, more, index, stacks>>
         \/ \E r \in DOMAIN rules : \E below \in 0 .. Len(symStack) :
              /\ below = Len(symStack) - Len(Right(r))
              /\ SubSeq(symStack, below + 1, Len(symStack)) = Right(r)
              /\ symStack' = Append(SubSeq(symStack, 1, below), rules[r].left)
              /\ \E to : /\ Moves(stateStack[below + 1], rules[r].left, to)
                         /\ stateStack' = Append(SubSeq(stateStack, 1, below + 1), to)
              /\ \E made : infoStack' = Append(SubSeq(infoStack, 1, below), made)
              /\ UNCHANGED <<outcome, index, input, more>>
<1> DEFINE r == entry[2]
           below == Len(symStack) - Len(Right(r))
           children == SubSeq(infoStack, below + 1, Len(infoStack))
           states == SubSeq(stateStack, 1, below + 1)
           to == EntryOf(Last(states), rules[r].left)
<1>1. Ready /\ entry[1] = "REDUCE" /\ ReduceBy(rules[r]) /\ UNCHANGED <<input, more>>
  BY DEF Reduce, Quiet
<1>2. /\ Stacked(stateStack, symStack) /\ Last(stateStack) \in DOMAIN table
      /\ Matches(stateStack, symStack) /\ Len(symStack) \in Nat
  BY TopOfStack, LenProperties DEF PInv, Stacked
<1>3. Reduces(Last(stateStack), curSym, r)
  <2>1. FollowsItems(Last(stateStack), curSym, entry)
    BY <1>1, <1>2, EntriesFollow DEF entry
  <2> QED BY <1>1, <2>1 DEF FollowsItems
<1>4. /\ r \in DOMAIN rules /\ Len(Right(r)) \in 0 .. Len(symStack)
      /\ SubSeq(symStack, below + 1, Len(symStack)) = Right(r)
      /\ Calls(stateStack[below + 1], r)
  BY <1>3, ReductionsFind
<1>5. below \in 0 .. Len(symStack) /\ ~ (below < 0)
  BY <1>2, <1>4
<1>6. Last(states) = stateStack[below + 1]
  BY <1>2, <1>5, PopMatches
<1>7. stateStack[below + 1] \in DOMAIN table
  BY <1>2, <1>5 DEF Stacked
<1>8. to[1] = "GOTO" /\ Moves(stateStack[below + 1], rules[r].left, to[2])
  <2>1. to[1] = "GOTO"
    BY <1>4, <1>6 DEF Calls, EntryOf
  <2>2. FollowsItems(stateStack[below + 1], rules[r].left, to)
    BY <2>1, <1>6, <1>7, EntriesFollow
  <2> QED BY <2>1, <2>2 DEF FollowsItems
<1>9. CASE Fault(rules[r], children) # "no"
  <2>1. Ended(Fault(rules[r], children))
    BY <1>1, <1>5, <1>9 DEF ReduceBy, Right
  <2>2. Fault(rules[r], children) \in {"exited", "hangs"}
    BY <1>9 DEF Fault
  <2> QED BY <1>1, <2>1, <2>2 DEF Ended
<1>10. CASE Fault(rules[r], children) = "no"
  <2>1. /\ infoStack' = Append(SubSeq(infoStack, 1, below), Act(rules[r], children))
        /\ symStack' = Append(SubSeq(symStack, 1, below), rules[r].left)
        /\ Goto(states, to)
        /\ UNCHANGED index
    BY <1>1, <1>5, <1>10 DEF ReduceBy, Right
  <2>2. stateStack' = Append(states, to[2]) /\ UNCHANGED outcome
    BY <2>1, <1>8 DEF Goto
  <2> QED BY <1>1, <1>4, <1>5, <1>8, <2>1, <2>2
<1> QED BY <1>9, <1>10

LEMMA ReduceKeeps ==
  ASSUME PInv, Reduce
  PROVE  PInv'
<1>1. CASE /\ outcome' \in {"exited", "hangs"}
           /\ UNCHANGED <<input, more, index, stacks>>
  BY <1>1, QuietKeeps DEF PInv, PTypeOK, Answers
<1>2. ASSUME NEW r \in DOMAIN rules, NEW below \in 0 .. Len(symStack), NEW to, NEW made,
             symStack' = Append(SubSeq(symStack, 1, below), rules[r].left),
             Moves(stateStack[below + 1], rules[r].left, to),
             stateStack' = Append(SubSeq(stateStack, 1, below + 1), to),
             infoStack' = Append(SubSeq(infoStack, 1, below), made),
             UNCHANGED <<outcome, index, input, more>>
      PROVE  PInv'
  <2> DEFINE states == SubSeq(stateStack, 1, below + 1)
             syms == SubSeq(symStack, 1, below)
             infos == SubSeq(infoStack, 1, below)
  <2>1. Stacked(stateStack, symStack) /\ Matches(stateStack, symStack)
    BY TopOfStack DEF PInv
  <2>2. /\ Stacked(states, syms) /\ Matches(states, syms) /\ Len(syms) = below
        /\ Last(states) = stateStack[below + 1]
    BY <2>1, PopMatches
  <2>3. rules[r].left \in Symbol
    BY RuleTypes
  <2>4. /\ infoStack \in Seq(Range(infoStack)) /\ Len(infoStack) = Len(symStack)
    BY DEF PInv, PTypeOK
  <2>5. infos \in Seq(Range(infos)) /\ Len(infos) = below
    BY <2>4, PrefixAny
  <2> HIDE DEF states, syms, infos
  <2>6. Stacked(stateStack', symStack') /\ Matches(stateStack', symStack')
    BY <1>2, <2>2, <2>3, PushMatches DEF states, syms
  <2>7. infoStack' \in Seq(Range(infoStack')) /\ Len(infoStack') = below + 1
    <3>1. infoStack' = Append(infos, made)
      BY <1>2 DEF infos
    <3> QED BY <3>1, <2>5, AppendAny
  <2>8. Len(symStack') = below + 1
    BY <1>2, <2>2, <2>3, AppendProperties DEF syms, Stacked
  <2>9. PTypeOK'
    BY <1>2, <2>6, <2>7, <2>8 DEF PInv, PTypeOK, Stacked
  <2>10. Matches(stateStack, symStack)'
    BY <2>6 DEF Matches, ItemMatches
  <2> QED BY <2>9, <2>10 DEF PInv
<1> QED BY <1>1, <1>2, ReduceSteps

LEMMA PInvNext == PInv /\ [PNext]_pvars => PInv'
<1> SUFFICES ASSUME PInv, [PNext]_pvars PROVE PInv'
  OBVIOUS
<1>1. more \in BOOLEAN /\ outcome \in Answers \cup {"parsing"}
  BY DEF PInv, PTypeOK
<1>2. CASE SupplyEnd
  BY <1>1, <1>2, QuietKeeps DEF SupplyEnd
<1>3. CASE \E token : AreTokens(<<token>>) /\ Supply(token)
  BY <1>3, SupplyKeeps
<1>4. CASE NoTokens
  BY <1>1, <1>4, QuietKeeps DEF NoTokens, Ended, Quiet, Answers
<1>5. CASE Shift
  BY <1>5, ShiftKeeps
<1>6. CASE Reduce
  BY <1>6, ReduceKeeps
<1>7. CASE Accept
  BY <1>1, <1>7, QuietKeeps DEF Accept, Ended, Quiet, Answers
<1>8. CASE Reject
  BY <1>1, <1>8, QuietKeeps DEF Reject, Ended, Quiet, Answers
<1>9. CASE UNCHANGED pvars
  BY <1>1, <1>9, QuietKeeps DEF pvars
<1> QED BY <1>2, <1>3, <1>4, <1>5, <1>6, <1>7, <1>8, <1>9 DEF PNext, ParserTurn

(* PInv holds in every state.                                              *)
THEOREM ParserInvariant == PSpec => []PInv
BY PInvInit, PInvNext, PTL DEF PSpec

(* Types, and the three stacks stay in step: Parse reads none of them at a *)
(* place it does not have (parser.cpp:1580, 1629, 1664).                   *)
THEOREM ParserTypes == PSpec => []PTypeOK
<1>1. PInv => PTypeOK
  BY DEF PInv
<1> QED BY <1>1, ParserInvariant, PTL

(* Parse rejects an input only at a symbol without an entry: its tests for *)
(* stack underflow, a missing GOTO, a GOTO met for a token and an end that *)
(* comes early (parser.cpp:1623, 1664, 1688, 1697) never fail, whatever    *)
(* the input, and what a reduction pops is the right side of its rule.     *)
THEOREM InternalTestsHold == PSpec => []OnlyWrongSymbolsAreRejected
<1>1. PInv => OnlyWrongSymbolsAreRejected
  <2> SUFFICES ASSUME PInv, Ready
               PROVE  /\ entry[1] # "GOTO"
                      /\ entry[1] = "ACC" => curSym = "END_OF_FILE"
                      /\ entry[1] = "REDUCE" =>
                           LET r     == entry[2]
                               below == Len(symStack) - Len(Right(r))
                           IN /\ below >= 0
                              /\ SubSeq(symStack, below + 1, Len(symStack)) = Right(r)
                              /\ Calls(stateStack[below + 1], r)
    BY DEF OnlyWrongSymbolsAreRejected
  <2>1. /\ Last(stateStack) \in DOMAIN table /\ Len(symStack) \in Nat
    BY TopOfStack, LenProperties DEF PInv, Stacked
  <2>2. entry[1] # "NONE" => FollowsItems(Last(stateStack), curSym, entry)
    BY <2>1, EntriesFollow DEF entry
  <2>3. entry[1] # "GOTO"
    <3> SUFFICES ASSUME entry[1] = "GOTO" PROVE FALSE
      OBVIOUS
    <3>1. curSym \in Lefts
      BY <2>2 DEF FollowsItems
    <3>2. curSym \in Terminals \/ curSym = "END_OF_FILE"
      BY WhatIsRead DEF PInv, PTypeOK
    <3>3. curSym = "END_OF_FILE"
      BY <3>1, <3>2 DEF Terminals
    <3>4. "END_OF_FILE" \notin Lefts
      BY RulesAssumption DEF Lefts
    <3> QED BY <3>1, <3>3, <3>4
  <2>4. entry[1] = "ACC" => curSym = "END_OF_FILE"
    BY <2>2 DEF FollowsItems
  <2>5. ASSUME entry[1] = "REDUCE"
        PROVE  LET r     == entry[2]
                   below == Len(symStack) - Len(Right(r))
               IN /\ below >= 0
                  /\ SubSeq(symStack, below + 1, Len(symStack)) = Right(r)
                  /\ Calls(stateStack[below + 1], r)
    <3>1. Reduces(Last(stateStack), curSym, entry[2])
      BY <2>2, <2>5 DEF FollowsItems
    <3>2. Len(Right(entry[2])) \in 0 .. Len(symStack)
      BY <3>1, ReductionsFind
    <3>3. Len(symStack) - Len(Right(entry[2])) >= 0
      BY <2>1, <3>2
    <3> QED BY <3>1, <3>3, ReductionsFind
  <2> QED BY <2>3, <2>4, <2>5
<1> QED BY <1>1, ParserInvariant, PTL

----------------------------------------------------------------------------
(* Parse implements Derivation.                                            *)

(* The symbols of tokens.                                                  *)
LEMMA SymbolsTyped ==
  ASSUME NEW s, AreTokens(s)
  PROVE  /\ SymbolsOf(s) \in Seq(Terminals) /\ SymbolsOf(s) \in Seq(Symbol)
         /\ Len(SymbolsOf(s)) = Len(s)
         /\ \A n \in 1 .. Len(s) : SymbolsOf(s)[n] = s[n].sym
<1>1. s \in Seq(Range(s)) /\ Len(s) \in Nat
  BY LenProperties DEF AreTokens
<1>2. \A n \in 1 .. Len(s) : s[n].sym \in Terminals
  BY <1>1, ElementOfSeq DEF AreTokens
<1>3. SymbolsOf(s) \in Seq(Terminals)
  BY <1>1, <1>2 DEF SymbolsOf
<1>4. SymbolsOf(s) \in Seq(Symbol)
  <2>1. Terminals \subseteq Symbol
    BY DEF Terminals
  <2> QED BY <1>3, <2>1, SeqMonotonic
<1> QED BY <1>1, <1>3, <1>4 DEF SymbolsOf

LEMMA RestTokens ==
  ASSUME NEW s, AreTokens(s), NEW m \in 1 .. Len(s) + 1
  PROVE  AreTokens(SubSeq(s, m, Len(s))) /\ Len(SubSeq(s, m, Len(s))) = Len(s) - m + 1
         /\ \A k \in 1 .. Len(s) - m + 1 : SubSeq(s, m, Len(s))[k] = s[m + k - 1]
<1> DEFINE t == SubSeq(s, m, Len(s))
<1>1. s \in Seq(Range(s)) /\ Len(s) \in Nat
  BY LenProperties DEF AreTokens
<1>2. Len(s) \in 0 .. Len(s) /\ m <= Len(s) + 1
  BY <1>1
<1>3. /\ t \in Seq(Range(s)) /\ Len(t) = Len(s) - m + 1
      /\ \A k \in 1 .. Len(s) - m + 1 : t[k] = s[m + k - 1]
  BY <1>1, <1>2, Segment
<1>4. t \in Seq(Range(t)) /\ Range(t) \subseteq Range(s)
  BY <1>3, SeqOfRange, RangeOfSeq
<1> QED BY <1>3, <1>4 DEF AreTokens

(* The form is what is on the stack and what is still to come.             *)
FormOf(stack, in, i) == stack \o SymbolsOf(SubSeq(in, i, Len(in)))

FormIs(f, stack, in, i) ==
  /\ f \in Seq(Symbol)
  /\ Len(f) = Len(stack) + (Len(in) - i + 1)
  /\ \A k \in 1 .. Len(stack) : f[k] = stack[k]
  /\ \A k \in i .. Len(in) : f[Len(stack) + (k - i + 1)] = in[k].sym

LEMMA FormTyped ==
  ASSUME NEW stack \in Seq(Symbol), NEW in, AreTokens(in), NEW i \in 1 .. Len(in) + 1,
         NEW f, f = FormOf(stack, in, i)
  PROVE  FormIs(f, stack, in, i)
<1> DEFINE rest == SubSeq(in, i, Len(in))
           syms == SymbolsOf(rest)
<1>1. Len(in) \in Nat /\ Len(stack) \in Nat
  BY LenProperties DEF AreTokens
<1>2. /\ AreTokens(rest) /\ Len(rest) = Len(in) - i + 1
      /\ \A k \in 1 .. Len(in) - i + 1 : rest[k] = in[i + k - 1]
  BY RestTokens
<1>3. /\ syms \in Seq(Symbol) /\ Len(syms) = Len(rest)
      /\ \A n \in 1 .. Len(rest) : syms[n] = rest[n].sym
  BY <1>2, SymbolsTyped
<1> HIDE DEF rest, syms
<1>4. f = stack \o syms
  BY DEF FormOf, rest, syms
<1>5. /\ f \in Seq(Symbol) /\ Len(f) = Len(stack) + Len(syms)
      /\ \A n \in 1 .. Len(stack) + Len(syms) :
           f[n] = IF n <= Len(stack) THEN stack[n] ELSE syms[n - Len(stack)]
  <2>1. /\ stack \o syms \in Seq(Symbol) /\ Len(stack \o syms) = Len(stack) + Len(syms)
        /\ \A n \in 1 .. Len(stack) + Len(syms) :
             (stack \o syms)[n] = IF n <= Len(stack) THEN stack[n] ELSE syms[n - Len(stack)]
    BY <1>3, ConcatProperties
  <2> QED BY <2>1, <1>4
<1>6. ASSUME NEW k \in 1 .. Len(stack) PROVE f[k] = stack[k]
  <2>1. k <= Len(stack) /\ k \in 1 .. Len(stack) + Len(syms)
    BY <1>1, <1>2, <1>3
  <2> QED BY <2>1, <1>5
<1>7. ASSUME NEW k \in i .. Len(in)
      PROVE  f[Len(stack) + (k - i + 1)] = in[k].sym
  <2> DEFINE j == k - i + 1
  <2>1. /\ j \in 1 .. Len(in) - i + 1 /\ i + j - 1 = k
        /\ Len(stack) + j \in 1 .. Len(stack) + Len(syms)
        /\ ~ (Len(stack) + j <= Len(stack)) /\ Len(stack) + j - Len(stack) = j
    BY <1>1, <1>2, <1>3
  <2> HIDE DEF j
  <2>2. f[Len(stack) + j] = syms[j]
    BY <1>5, <2>1
  <2>3. syms[j] = rest[j].sym /\ rest[j] = in[k]
    BY <1>2, <1>3, <2>1
  <2> QED BY <2>2, <2>3 DEF j
<1> QED BY <1>2, <1>3, <1>5, <1>6, <1>7 DEF FormIs

LEMMA DInit == PInit => D!Init
<1> SUFFICES ASSUME PInit PROVE D!Init
  OBVIOUS
<1>1. PTypeOK /\ symStack = <<>> /\ index = 1 /\ outcome = "parsing"
  BY PInvInit DEF PInv, PInit, Begin
<1>2. Len(symStack) = 0 /\ Len(input) \in Nat
  BY <1>1, LenProperties DEF PTypeOK, AreTokens
<1>3. /\ SymbolsOf(input) \in Seq(Symbol) /\ SymbolsOf(input) \in Seq(Terminals)
      /\ Len(SymbolsOf(input)) = Len(input)
      /\ \A n \in 1 .. Len(input) : SymbolsOf(input)[n] = input[n].sym
  BY <1>1, SymbolsTyped DEF PTypeOK
<1>4. /\ Form \in Seq(Symbol) /\ Len(Form) = Len(input)
      /\ \A k \in 1 .. Len(input) : Form[k] = input[k].sym
  <2>1. /\ Form \in Seq(Symbol) /\ Len(Form) = 0 + (Len(input) - 1 + 1)
        /\ \A k \in 1 .. Len(input) : Form[0 + (k - 1 + 1)] = input[k].sym
    <3>1. Form = FormOf(symStack, input, index)
      BY DEF Form, FormOf
    <3>2. /\ symStack \in Seq(Symbol) /\ AreTokens(input) /\ index \in 1 .. Len(input) + 1
      BY <1>1 DEF PTypeOK
    <3>3. /\ Form \in Seq(Symbol)
          /\ Len(Form) = Len(symStack) + (Len(input) - index + 1)
          /\ \A k \in index .. Len(input) : Form[Len(symStack) + (k - index + 1)] = input[k].sym
      <4>1. FormIs(Form, symStack, input, index)
        BY <3>1, <3>2, FormTyped
      <4> QED BY <4>1 DEF FormIs
    <3> QED BY <1>1, <1>2, <3>3
  <2>2. 0 + (Len(input) - 1 + 1) = Len(input) /\ \A k \in 1 .. Len(input) : 0 + (k - 1 + 1) = k
    BY <1>2
  <2> QED BY <2>1, <2>2
<1>5. Form = SymbolsOf(input)
  BY <1>3, <1>4, SeqEqual
<1>6. more \in BOOLEAN
  BY <1>1 DEF PTypeOK
<1> QED BY <1>1, <1>3, <1>5, <1>6 DEF D!Init

(* What comes behind the words so far.                                     *)
LEMMA Suffix ==
  ASSUME NEW S, NEW a \in Seq(S), NEW b \in Seq(S), NEW c, c = a \o b
  PROVE  SubSeq(c, Len(a) + 1, Len(c)) = b
<1>1. /\ c \in Seq(S) /\ Len(c) = Len(a) + Len(b) /\ Len(a) \in Nat /\ Len(b) \in Nat
      /\ \A i \in 1 .. Len(a) + Len(b) : c[i] = IF i <= Len(a) THEN a[i] ELSE b[i - Len(a)]
  <2>1. /\ a \o b \in Seq(S) /\ Len(a \o b) = Len(a) + Len(b)
        /\ \A i \in 1 .. Len(a) + Len(b) : (a \o b)[i] = IF i <= Len(a) THEN a[i] ELSE b[i - Len(a)]
    BY ConcatProperties
  <2> QED BY <2>1, LenProperties
<1> DEFINE m == Len(a) + 1
           t == SubSeq(c, m, Len(c))
<1>2. /\ m \in 1 .. Len(c) + 1 /\ Len(c) \in 0 .. Len(c) /\ m <= Len(c) + 1
      /\ Len(c) - m + 1 = Len(b)
  BY <1>1
<1>3. /\ t \in Seq(S) /\ Len(t) = Len(c) - m + 1
      /\ \A k \in 1 .. Len(c) - m + 1 : t[k] = c[m + k - 1]
  BY <1>1, <1>2, Segment
<1>4. ASSUME NEW k \in 1 .. Len(b) PROVE t[k] = b[k]
  <2>1. m + k - 1 \in 1 .. Len(a) + Len(b) /\ ~ (m + k - 1 <= Len(a)) /\ (m + k - 1) - Len(a) = k
    BY <1>1
  <2> HIDE DEF m, t
  <2> QED BY <2>1, <1>1, <1>2, <1>3
<1> HIDE DEF m, t
<1>5. t = b
  BY <1>2, <1>3, <1>4, SeqEqual
<1> QED BY <1>5 DEF t, m

LEMMA SupplyGives ==
  ASSUME PInv, NEW token, AreTokens(<<token>>), Supply(token)
  PROVE  D!More
<1>1. /\ input' = Append(input, token) /\ outcome = "parsing" /\ ~ Known
      /\ UNCHANGED <<more, index, stateStack, symStack, infoStack, outcome>>
  BY DEF Supply, stacks
<1>2. /\ AreTokens(input) /\ input \in Seq(Range(input)) /\ Len(input) \in Nat
      /\ symStack \in Seq(Symbol) /\ Len(symStack) \in Nat /\ index \in 1 .. Len(input) + 1
  BY LenProperties DEF PInv, PTypeOK, AreTokens
<1>3. index = Len(input) + 1 /\ more = TRUE
  BY <1>1, <1>2 DEF Known, PInv, PTypeOK
<1>4. AreTokens(input') /\ Len(input') = Len(input) + 1
  BY <1>1, <1>2, MoreTokens
<1>5. input'[Len(input) + 1] = token /\ \A k \in 1 .. Len(input) : input'[k] = input[k]
  <2>1. input \in Seq(Range(input) \cup {token}) /\ token \in Range(input) \cup {token}
    BY <1>2, SeqMonotonic
  <2> QED BY <1>1, <2>1, AppendProperties
<1> DEFINE w == <<token.sym>>
<1>6. w \in Seq(Symbol) /\ w \in Seq(Terminals) /\ Len(w) = 1 /\ w[1] = token.sym
  <2>1. token \in Range(<<token>>)
    BY DEF Range
  <2>2. token.sym \in Terminals /\ token.sym \in Symbol
    BY <2>1 DEF AreTokens, Terminals
  <2> QED BY <2>2
<1> HIDE DEF w
<1>7. SymbolsOf(input') = SymbolsOf(input) \o w
  <2>1. /\ SymbolsOf(input) \in Seq(Symbol) /\ Len(SymbolsOf(input)) = Len(input)
        /\ \A n \in 1 .. Len(input) : SymbolsOf(input)[n] = input[n].sym
    BY <1>2, SymbolsTyped
  <2>2. /\ SymbolsOf(input') \in Seq(Symbol) /\ Len(SymbolsOf(input')) = Len(input) + 1
        /\ \A n \in 1 .. Len(input) + 1 : SymbolsOf(input')[n] = input'[n].sym
    BY <1>4, SymbolsTyped
  <2> DEFINE c == SymbolsOf(input) \o w
  <2>3. /\ c \in Seq(Symbol) /\ Len(c) = Len(SymbolsOf(input)) + Len(w)
        /\ \A i \in 1 .. Len(SymbolsOf(input)) + Len(w) :
             c[i] = IF i <= Len(SymbolsOf(input)) THEN SymbolsOf(input)[i]
                    ELSE w[i - Len(SymbolsOf(input))]
    BY <1>6, <2>1, ConcatProperties
  <2> HIDE DEF c
  <2>4. ASSUME NEW n \in 1 .. Len(input) + 1 PROVE SymbolsOf(input')[n] = c[n]
    <3>1. CASE n \in 1 .. Len(input)
      <4>1. n <= Len(input) /\ n \in 1 .. Len(SymbolsOf(input)) + Len(w)
        BY <3>1, <1>2, <1>6, <2>1
      <4>2. c[n] = input[n].sym
        BY <3>1, <4>1, <2>1, <2>3
      <4> QED BY <3>1, <4>2, <1>5, <2>2
    <3>2. CASE n = Len(input) + 1
      <4>1. ~ (n <= Len(input)) /\ n - Len(input) = 1
        BY <3>2, <1>2
      <4> QED BY <3>2, <4>1, <1>5, <1>6, <2>1, <2>2, <2>3
    <3> QED BY <3>1, <3>2, <1>2
  <2>5. SymbolsOf(input') = c
    BY <1>6, <2>1, <2>2, <2>3, <2>4, SeqEqual
  <2> QED BY <2>5 DEF c
<1>8. Form = symStack
  <2>1. Form = FormOf(symStack, input, index)
    BY DEF Form, FormOf
  <2>2. /\ Form \in Seq(Symbol) /\ Len(Form) = Len(symStack) + (Len(input) - index + 1)
        /\ \A k \in 1 .. Len(symStack) : Form[k] = symStack[k]
    <3>1. FormIs(Form, symStack, input, index)
      BY <1>2, <2>1, FormTyped
    <3> QED BY <3>1 DEF FormIs
  <2>3. Len(Form) = Len(symStack)
    BY <1>2, <1>3, <2>2
  <2> QED BY <1>2, <2>2, <2>3, SeqEqual
<1>9. Form' = symStack \o w
  <2>1. Form' = FormOf(symStack, input', index)
    BY <1>1 DEF Form, FormOf
  <2>2. index \in 1 .. Len(input') + 1 /\ index \in index .. Len(input')
    BY <1>2, <1>3, <1>4
  <2>3. /\ Form' \in Seq(Symbol) /\ Len(Form') = Len(symStack) + (Len(input') - index + 1)
        /\ \A k \in 1 .. Len(symStack) : Form'[k] = symStack[k]
        /\ \A k \in index .. Len(input') : Form'[Len(symStack) + (k - index + 1)] = input'[k].sym
    <3> DEFINE f  == Form'
               in == input'
    <3>1. f = FormOf(symStack, in, index) /\ AreTokens(in) /\ index \in 1 .. Len(in) + 1
      BY <1>4, <2>1, <2>2
    <3> HIDE DEF f, in
    <3>2. /\ f \in Seq(Symbol) /\ Len(f) = Len(symStack) + (Len(in) - index + 1)
          /\ \A k \in 1 .. Len(symStack) : f[k] = symStack[k]
          /\ \A k \in index .. Len(in) : f[Len(symStack) + (k - index + 1)] = in[k].sym
      <4>1. FormIs(f, symStack, in, index)
        BY <1>2, <3>1, FormTyped
      <4> QED BY <4>1 DEF FormIs
    <3> QED BY <3>2 DEF f, in
  <2>4. Len(Form') = Len(symStack) + 1 /\ Form'[Len(symStack) + 1] = token.sym
    <3>1. Form'[Len(symStack) + (index - index + 1)] = token.sym
      BY <1>3, <1>5, <2>2, <2>3
    <3>2. index - index + 1 = 1 /\ Len(input') - index + 1 = 1
      BY <1>2, <1>3, <1>4
    <3> QED BY <2>3, <3>1, <3>2
  <2> DEFINE c == symStack \o w
  <2>5. /\ c \in Seq(Symbol) /\ Len(c) = Len(symStack) + Len(w)
        /\ \A i \in 1 .. Len(symStack) + Len(w) :
             c[i] = IF i <= Len(symStack) THEN symStack[i] ELSE w[i - Len(symStack)]
    BY <1>2, <1>6, ConcatProperties
  <2> HIDE DEF c
  <2>6. ASSUME NEW n \in 1 .. Len(symStack) + 1 PROVE Form'[n] = c[n]
    <3>1. CASE n \in 1 .. Len(symStack)
      <4>1. n <= Len(symStack) /\ n \in 1 .. Len(symStack) + Len(w)
        BY <3>1, <1>2, <1>6
      <4>2. c[n] = symStack[n]
        BY <4>1, <2>5
      <4> QED BY <3>1, <4>2, <2>3
    <3>2. CASE n = Len(symStack) + 1
      <4>1. ~ (n <= Len(symStack)) /\ n - Len(symStack) = 1
        BY <3>2, <1>2
      <4> QED BY <3>2, <4>1, <1>6, <2>4, <2>5
    <3> QED BY <3>1, <3>2, <1>2
  <2>7. Form' = c
    BY <1>6, <2>3, <2>4, <2>5, <2>6, SeqEqual
  <2> QED BY <2>7 DEF c
<1>10. SubSeq(SymbolsOf(input'), Len(SymbolsOf(input)) + 1, Len(SymbolsOf(input'))) = w
  <2>1. SymbolsOf(input) \in Seq(Symbol)
    BY <1>2, SymbolsTyped
  <2> DEFINE a == SymbolsOf(input)
             c == SymbolsOf(input')
  <2>2. a \in Seq(Symbol) /\ c = a \o w
    BY <1>7, <2>1
  <2> HIDE DEF a, c
  <2>3. SubSeq(c, Len(a) + 1, Len(c)) = w
    BY <1>6, <2>2, Suffix
  <2> QED BY <2>3 DEF a, c
<1>11. (outcome = "accepted") = FALSE /\ (outcome' = "accepted") = FALSE
  BY <1>1
<1> QED BY <1>1, <1>3, <1>6, <1>7, <1>8, <1>9, <1>10, <1>11 DEF D!More, D!Given

(* The three parts of what is joined from three.                           *)
LEMMA Parts ==
  ASSUME NEW S, NEW a \in Seq(S), NEW b \in Seq(S), NEW c \in Seq(S),
         NEW f, f = (a \o b) \o c
  PROVE  /\ f \in Seq(S) /\ Len(f) = Len(a) + Len(b) + Len(c)
         /\ SubSeq(f, 1, Len(a)) = a
         /\ SubSeq(f, Len(a) + 1, Len(a) + Len(b)) = b
         /\ SubSeq(f, Len(a) + Len(b) + 1, Len(f)) = c
<1> DEFINE ab == a \o b
           m  == Len(a) + Len(b)
<1>1. Len(a) \in Nat /\ Len(b) \in Nat /\ Len(c) \in Nat
  BY LenProperties
<1>2. /\ ab \in Seq(S) /\ Len(ab) = m
      /\ \A i \in 1 .. m : ab[i] = IF i <= Len(a) THEN a[i] ELSE b[i - Len(a)]
  BY ConcatProperties
<1> HIDE DEF ab
<1>3. f = ab \o c
  BY DEF ab
<1>4. /\ f \in Seq(S) /\ Len(f) = m + Len(c)
      /\ \A i \in 1 .. m + Len(c) : f[i] = IF i <= m THEN ab[i] ELSE c[i - m]
  <2>1. /\ ab \o c \in Seq(S) /\ Len(ab \o c) = Len(ab) + Len(c)
        /\ \A i \in 1 .. Len(ab) + Len(c) :
             (ab \o c)[i] = IF i <= Len(ab) THEN ab[i] ELSE c[i - Len(ab)]
    BY <1>2, ConcatProperties
  <2> QED BY <2>1, <1>2, <1>3
<1>5. SubSeq(f, m + 1, Len(f)) = c
  BY <1>2, <1>3, Suffix
<1>6. SubSeq(f, 1, Len(a)) = a
  <2> DEFINE t == SubSeq(f, 1, Len(a))
  <2>1. /\ 1 \in 1 .. Len(f) + 1 /\ Len(a) \in 0 .. Len(f) /\ 1 <= Len(a) + 1
        /\ Len(a) - 1 + 1 = Len(a) /\ \A k \in 1 .. Len(a) : 1 + k - 1 = k
    BY <1>1, <1>4
  <2>2. t \in Seq(S) /\ Len(t) = Len(a) /\ \A k \in 1 .. Len(a) : t[k] = f[k]
    BY <1>4, <2>1, Segment
  <2> HIDE DEF t
  <2>3. \A k \in 1 .. Len(a) : f[k] = a[k]
    BY <1>1, <1>2, <1>4
  <2>4. t = a
    BY <2>2, <2>3, SeqEqual
  <2> QED BY <2>4 DEF t
<1>7. SubSeq(f, Len(a) + 1, m) = b
  <2> DEFINE t == SubSeq(f, Len(a) + 1, m)
  <2>1. /\ Len(a) + 1 \in 1 .. Len(f) + 1 /\ m \in 0 .. Len(f) /\ Len(a) + 1 <= m + 1
        /\ m - (Len(a) + 1) + 1 = Len(b)
        /\ \A k \in 1 .. Len(b) : (Len(a) + 1) + k - 1 = Len(a) + k
    BY <1>1, <1>4
  <2>2. t \in Seq(S) /\ Len(t) = Len(b) /\ \A k \in 1 .. Len(b) : t[k] = f[Len(a) + k]
    BY <1>4, <2>1, Segment
  <2> HIDE DEF t
  <2>3. ASSUME NEW k \in 1 .. Len(b) PROVE f[Len(a) + k] = b[k]
    <3>1. /\ Len(a) + k \in 1 .. m /\ Len(a) + k \in 1 .. m + Len(c) /\ Len(a) + k <= m
          /\ ~ (Len(a) + k <= Len(a)) /\ Len(a) + k - Len(a) = k
      BY <1>1
    <3> HIDE DEF m
    <3> QED BY <3>1, <1>2, <1>4
  <2>4. t = b
    BY <2>2, <2>3, SeqEqual
  <2> QED BY <2>4 DEF t
<1> QED BY <1>4, <1>5, <1>6, <1>7

(* Undoing a rule, as a change of the middle of three parts.               *)
Replaces(r, front, back, f, g) ==
  /\ f = (front \o Right(r)) \o back
  /\ g = (front \o <<rules[r].left>>) \o back

LEMMA ReplacingUndoes ==
  ASSUME NEW r \in DOMAIN rules, NEW front \in Seq(Symbol), NEW back \in Seq(Symbol),
         NEW f, NEW g, Replaces(r, front, back, f, g)
  PROVE  D!Undoes(f, g) /\ f \in Seq(Symbol) /\ g \in Seq(Symbol)
<1> DEFINE one == <<rules[r].left>>
           n   == Len(Right(r))
           at  == Len(front)
<1>1. Right(r) \in Seq(Symbol) /\ rules[r].left \in Symbol
  BY RuleTypes
<1>2. one \in Seq(Symbol)
  BY <1>1
<1> HIDE DEF one
<1>3. n \in Nat /\ at \in Nat /\ Len(back) \in Nat
  BY <1>1, LenProperties
<1>4. /\ f \in Seq(Symbol) /\ Len(f) = at + n + Len(back)
      /\ SubSeq(f, 1, at) = front
      /\ SubSeq(f, at + 1, at + n) = Right(r)
      /\ SubSeq(f, at + n + 1, Len(f)) = back
  BY <1>1, Parts DEF Replaces
<1>5. g \in Seq(Symbol) /\ g = (front \o one) \o back
  <2>1. g = (front \o one) \o back
    BY DEF Replaces, one
  <2> QED BY <1>2, <2>1, Parts
<1>6. at \in 0 .. Len(f) - n
  BY <1>3, <1>4
<1>7. g = (SubSeq(f, 1, at) \o <<rules[r].left>>) \o SubSeq(f, at + n + 1, Len(f))
  BY <1>4, <1>5 DEF one
<1> HIDE DEF at
<1>8. D!Undoes(f, g)
  BY <1>4, <1>6, <1>7 DEF D!Undoes, Right
<1> QED BY <1>4, <1>5, <1>8

LEMMA UndoingReplaces ==
  ASSUME NEW f \in Seq(Symbol), NEW g, D!Undoes(f, g)
  PROVE  \E r \in DOMAIN rules, front \in Seq(Symbol), back \in Seq(Symbol) :
           Replaces(r, front, back, f, g)
<1>1. PICK r \in DOMAIN rules :
        \E at \in 0 .. Len(f) - Len(Right(r)) :
          /\ SubSeq(f, at + 1, at + Len(Right(r))) = Right(r)
          /\ g = (SubSeq(f, 1, at) \o <<rules[r].left>>)
                 \o SubSeq(f, at + Len(Right(r)) + 1, Len(f))
  BY DEF D!Undoes, Right
<1>2. PICK at \in 0 .. Len(f) - Len(Right(r)) :
          /\ SubSeq(f, at + 1, at + Len(Right(r))) = Right(r)
          /\ g = (SubSeq(f, 1, at) \o <<rules[r].left>>)
                 \o SubSeq(f, at + Len(Right(r)) + 1, Len(f))
  BY <1>1
<1> DEFINE n == Len(Right(r))
           front == SubSeq(f, 1, at)
           back == SubSeq(f, at + n + 1, Len(f))
<1>3. Right(r) \in Seq(Symbol) /\ n \in Nat /\ Len(f) \in Nat
  BY RuleTypes, LenProperties
<1>4. /\ 1 \in 1 .. Len(f) + 1 /\ at \in 0 .. Len(f) /\ 1 <= at + 1
      /\ at + n + 1 \in 1 .. Len(f) + 1 /\ Len(f) \in 0 .. Len(f) /\ at + n + 1 <= Len(f) + 1
  BY <1>2, <1>3
<1>5. front \in Seq(Symbol)
  BY <1>4, Segment
<1>6. back \in Seq(Symbol)
  BY <1>4, Segment
<1>7. f = (front \o Right(r)) \o back
  <2>1. /\ 1 \in 1 .. Len(f) + 1 /\ at \in 1 - 1 .. Len(f) /\ at + n \in at .. Len(f)
        /\ at + n \in 1 - 1 .. Len(f) /\ Len(f) \in at + n .. Len(f)
    BY <1>3, <1>4
  <2>2. SubSeq(f, 1, at) \o SubSeq(f, at + 1, at + n) = SubSeq(f, 1, at + n)
    BY <2>1, ConcatAdjacentSubSeq
  <2>3. SubSeq(f, 1, at + n) \o SubSeq(f, at + n + 1, Len(f)) = SubSeq(f, 1, Len(f))
    BY <2>1, ConcatAdjacentSubSeq
  <2>4. SubSeq(f, 1, Len(f)) = f
    BY SubSeqFull
  <2> QED BY <1>2, <2>2, <2>3, <2>4
<1>8. Replaces(r, front, back, f, g)
  BY <1>2, <1>7 DEF Replaces
<1> HIDE DEF front, back
<1> QED BY <1>5, <1>6, <1>8

(* A rule undone in a form is undone in front of more words, too.          *)
LEMMA UndoesInFront ==
  ASSUME NEW f \in Seq(Symbol), NEW g, D!Undoes(f, g), NEW w \in Seq(Symbol)
  PROVE  D!Undoes(f \o w, g \o w) /\ g \in Seq(Symbol)
<1>1. PICK r \in DOMAIN rules, front \in Seq(Symbol), back \in Seq(Symbol) :
        Replaces(r, front, back, f, g)
  BY UndoingReplaces
<1> DEFINE one == <<rules[r].left>>
           last == back \o w
<1>2. Right(r) \in Seq(Symbol) /\ one \in Seq(Symbol)
  BY RuleTypes
<1>3. last \in Seq(Symbol)
  BY ConcatProperties
<1> HIDE DEF one
<1>4. front \o Right(r) \in Seq(Symbol) /\ front \o one \in Seq(Symbol)
  BY <1>2, ConcatProperties
<1>5. f = (front \o Right(r)) \o back /\ g = (front \o one) \o back
  BY <1>1 DEF Replaces, one
<1>6. f \o w = (front \o Right(r)) \o last
  <2> DEFINE x == front \o Right(r)
  <2>1. x \in Seq(Symbol)
    BY <1>4
  <2> HIDE DEF x
  <2>2. (x \o back) \o w = x \o (back \o w)
    BY <2>1, ConcatAssociative
  <2> QED BY <2>2, <1>5 DEF x
<1>7. g \o w = (front \o one) \o last
  <2> DEFINE x == front \o one
  <2>1. x \in Seq(Symbol)
    BY <1>4
  <2> HIDE DEF x
  <2>2. (x \o back) \o w = x \o (back \o w)
    BY <2>1, ConcatAssociative
  <2> QED BY <2>2, <1>5 DEF x
<1> HIDE DEF last
<1>8. Replaces(r, front, last, f \o w, g \o w)
  BY <1>6, <1>7 DEF Replaces, one
<1>9. D!Undoes(f \o w, g \o w)
  BY <1>3, <1>8, ReplacingUndoes
<1> QED BY <1>1, <1>9, ReplacingUndoes

(* A shift moves a symbol from the input to the stack: the form stays.     *)
LEMMA ShiftStutters ==
  ASSUME PInv, Shift
  PROVE  UNCHANGED D!vars
<1> DEFINE n == Len(symStack)
           e == Len(input)
           f == Form
           g == Form'
<1>1. /\ index' = index + 1 /\ symStack' = Append(symStack, curSym)
      /\ UNCHANGED <<outcome, input, more>>
  BY DEF Shift, Quiet
<1>2. /\ index \in 1 .. e /\ curSym = input[index].sym /\ PTypeOK'
  BY ShiftKeeps DEF PInv
<1>3. /\ AreTokens(input) /\ symStack \in Seq(Symbol) /\ n \in Nat /\ e \in Nat
      /\ index \in 1 .. e + 1
  BY LenProperties DEF PInv, PTypeOK, AreTokens
<1>4. curSym \in Symbol
  BY <1>2, <1>3, WhatIsRead DEF Terminals
<1> DEFINE st == symStack'
<1>5. /\ st \in Seq(Symbol) /\ Len(st) = n + 1 /\ st[n + 1] = curSym
      /\ \A k \in 1 .. n : st[k] = symStack[k]
  BY <1>1, <1>3, <1>4, AppendProperties
<1>6. FormIs(f, symStack, input, index)
  <2>1. f = FormOf(symStack, input, index)
    BY DEF Form, FormOf
  <2> HIDE DEF f
  <2> QED BY <1>3, <2>1, FormTyped
<1>7. FormIs(g, st, input, index + 1)
  <2>1. g = FormOf(st, input, index + 1)
    BY <1>1 DEF Form, FormOf
  <2>2. index + 1 \in 1 .. e + 1
    BY <1>2, <1>3
  <2> HIDE DEF g, st
  <2> QED BY <1>3, <1>5, <2>1, <2>2, FormTyped
<1> HIDE DEF f, g, st
<1>8. /\ f \in Seq(Symbol) /\ Len(f) = n + (e - index + 1)
      /\ \A k \in 1 .. n : f[k] = symStack[k]
      /\ \A k \in index .. e : f[n + (k - index + 1)] = input[k].sym
  BY <1>6 DEF FormIs
<1>9. /\ g \in Seq(Symbol) /\ Len(g) = (n + 1) + (e - (index + 1) + 1)
      /\ \A k \in 1 .. n + 1 : g[k] = st[k]
      /\ \A k \in index + 1 .. e : g[(n + 1) + (k - (index + 1) + 1)] = input[k].sym
  BY <1>5, <1>7 DEF FormIs
<1>10. ASSUME NEW k \in 1 .. Len(f) PROVE f[k] = g[k]
  <2>1. CASE k \in 1 .. n
    BY <2>1, <1>3, <1>5, <1>8, <1>9
  <2>2. CASE k = n + 1
    <3>1. index \in index .. e /\ n + (index - index + 1) = n + 1
      BY <1>2, <1>3
    <3>2. f[n + 1] = input[index].sym
      BY <1>8, <3>1
    <3>3. n + 1 \in 1 .. n + 1
      BY <1>3
    <3> QED BY <2>2, <3>2, <3>3, <1>2, <1>5, <1>9
  <2>3. CASE k > n + 1
    <3> DEFINE j == k - n + index - 1
    <3>1. /\ j \in index + 1 .. e /\ j \in index .. e
          /\ n + (j - index + 1) = k /\ (n + 1) + (j - (index + 1) + 1) = k
      BY <1>2, <1>3, <1>8, <2>3
    <3> HIDE DEF j
    <3> QED BY <3>1, <1>8, <1>9
  <2> QED BY <2>1, <2>2, <2>3, <1>3, <1>8
<1>11. Len(f) = Len(g)
  BY <1>2, <1>3, <1>8, <1>9
<1>12. f = g
  BY <1>8, <1>9, <1>10, <1>11, SeqEqual
<1>13. Form' = Form
  BY <1>12 DEF f, g
<1> QED BY <1>1, <1>13 DEF D!vars

(* A reduction undoes its rule.                                            *)
LEMMA ReduceUndoes ==
  ASSUME PInv, Reduce
  PROVE  [D!Next]_(D!vars)
<1>1. outcome = "parsing"
  BY DEF Reduce, Ready
<1>2. CASE /\ outcome' \in {"exited", "hangs"}
           /\ UNCHANGED <<input, more, index, stacks>>
  <2>1. Form' = Form
    BY <1>2 DEF Form, stacks
  <2>2. (outcome = "accepted") = (outcome' = "accepted")
    BY <1>1, <1>2
  <2> QED BY <1>2, <2>1, <2>2 DEF D!vars
<1>3. ASSUME NEW r \in DOMAIN rules, NEW below \in 0 .. Len(symStack),
             below = Len(symStack) - Len(Right(r)),
             SubSeq(symStack, below + 1, Len(symStack)) = Right(r),
             symStack' = Append(SubSeq(symStack, 1, below), rules[r].left),
             UNCHANGED <<outcome, index, input, more>>
      PROVE  D!Undo
  <2> DEFINE front == SubSeq(symStack, 1, below)
             back  == SymbolsOf(SubSeq(input, index, Len(input)))
             left  == rules[r].left
  <2>1. /\ symStack \in Seq(Symbol) /\ Len(symStack) \in Nat
        /\ AreTokens(input) /\ index \in 1 .. Len(input) + 1
    BY LenProperties DEF PInv, PTypeOK
  <2>2. front \in Seq(Symbol)
    <3>1. 1 \in 1 .. Len(symStack) + 1 /\ 1 <= below + 1
      BY <2>1
    <3> QED BY <2>1, <3>1, Segment
  <2>3. back \in Seq(Symbol)
    <3>1. AreTokens(SubSeq(input, index, Len(input)))
      BY <2>1, RestTokens
    <3> QED BY <3>1, SymbolsTyped
  <2>4. symStack = front \o Right(r)
    <3>1. 1 \in 1 .. Len(symStack) + 1 /\ below \in 1 - 1 .. Len(symStack)
          /\ Len(symStack) \in below .. Len(symStack)
      BY <2>1
    <3>2. SubSeq(symStack, 1, below) \o SubSeq(symStack, below + 1, Len(symStack))
            = SubSeq(symStack, 1, Len(symStack))
      BY <2>1, <3>1, ConcatAdjacentSubSeq
    <3> QED BY <1>3, <2>1, <3>2, SubSeqFull
  <2>5. symStack' = front \o <<left>>
    <3>1. left \in Symbol
      BY RuleTypes
    <3> HIDE DEF left
    <3>2. Append(front, left) = front \o <<left>>
      BY <2>2, <3>1, AppendIsConcat
    <3> QED BY <1>3, <3>2 DEF left
  <2>6. Form = symStack \o back
    BY DEF Form
  <2>7. Form' = symStack' \o back
    BY <1>3 DEF Form
  <2> HIDE DEF front, back
  <2>8. Replaces(r, front, back, Form, Form')
    BY <2>4, <2>5, <2>6, <2>7 DEF Replaces
  <2>9. D!Undoes(Form, Form')
    BY <2>2, <2>3, <2>8, ReplacingUndoes
  <2> QED BY <1>1, <1>3, <2>9 DEF D!Undo
<1> QED BY <1>2, <1>3, ReduceSteps DEF D!Next

(* Parse accepts when the stack is the right side of the start rule and    *)
(* nothing is left.                                                        *)
LEMMA AcceptAccepts ==
  ASSUME PInv, Accept
  PROVE  D!Accept
<1>1. /\ Known /\ entry[1] = "ACC"
      /\ outcome' = IF curSym = "END_OF_FILE" THEN "accepted" ELSE "rejected"
      /\ UNCHANGED <<index, stateStack, symStack, infoStack, input, more>>
  BY DEF Accept, Ready, Ended, Quiet, stacks
<1>2. /\ Stacked(stateStack, symStack) /\ Last(stateStack) = stateStack[Len(symStack) + 1]
      /\ Last(stateStack) \in DOMAIN table /\ symStack \in Seq(Symbol) /\ Len(symStack) \in Nat
  BY TopOfStack, LenProperties DEF PInv, Stacked
<1>3. curSym = "END_OF_FILE" /\ <<1, Len(Right(1)), curSym>> \in Last(stateStack)
  <2>1. FollowsItems(Last(stateStack), curSym, entry)
    BY <1>1, <1>2, EntriesFollow DEF entry
  <2> QED BY <1>1, <2>1 DEF FollowsItems
<1>4. /\ AreTokens(input) /\ Len(input) \in Nat /\ index \in 1 .. Len(input) + 1
      /\ more \in BOOLEAN
  BY LenProperties DEF PInv, PTypeOK, AreTokens
<1>5. index = Len(input) + 1 /\ more = FALSE
  <2>1. index = Len(input) + 1
    BY <1>3, <1>4, WhatIsRead DEF Terminals
  <2> QED BY <2>1, <1>1, <1>4 DEF Known
<1>6. symStack = Right(1)
  <2> DEFINE it == <<1, Len(Right(1)), curSym>>
             n  == Len(symStack)
  <2>1. it \in stateStack[n + 1] /\ it[1] = 1 /\ it[2] = Len(Right(1))
    BY <1>2, <1>3
  <2> HIDE DEF it
  <2>2. n + 1 \in 1 .. Len(stateStack)
    BY <1>2 DEF Stacked
  <2>3. ItemMatches(n + 1, it, stateStack, symStack)
    BY <2>1, <2>2 DEF PInv, Matches
  <2>4. /\ Len(Right(1)) = (n + 1) - 1
        /\ \A d \in 1 .. Len(Right(1)) :
             Right(1)[d] = symStack[(n + 1) - 1 - Len(Right(1)) + d]
    BY <2>1, <2>3 DEF ItemMatches
  <2>5. Len(Right(1)) = n
    BY <1>2, <2>4
  <2>6. ASSUME NEW d \in 1 .. n PROVE symStack[d] = Right(1)[d]
    <3>1. (n + 1) - 1 - n + d = d
      BY <1>2
    <3> QED BY <2>4, <2>5, <3>1
  <2>7. Right(1) \in Seq(Symbol)
    BY RuleTypes
  <2> QED BY <1>2, <2>5, <2>6, <2>7, SeqEqual
<1>7. Form = symStack
  <2>1. Form = FormOf(symStack, input, index)
    BY DEF Form, FormOf
  <2>2. FormIs(Form, symStack, input, index)
    BY <1>2, <1>4, <2>1, FormTyped
  <2>3. /\ Form \in Seq(Symbol) /\ Len(Form) = Len(symStack) + (Len(input) - index + 1)
        /\ \A k \in 1 .. Len(symStack) : Form[k] = symStack[k]
    BY <2>2 DEF FormIs
  <2>4. Len(Form) = Len(symStack)
    BY <1>2, <1>4, <1>5, <2>3
  <2> QED BY <1>2, <2>3, <2>4, SeqEqual
<1>8. Form' = Form
  BY <1>1 DEF Form
<1>9. (outcome' = "accepted") = TRUE
  BY <1>1, <1>3
<1> QED BY <1>1, <1>5, <1>6, <1>7, <1>8, <1>9 DEF D!Accept

LEMMA TurnsStep == PInv /\ [PNext]_pvars => [D!Next]_(D!vars)
<1> SUFFICES ASSUME PInv, [PNext]_pvars PROVE [D!Next]_(D!vars)
  OBVIOUS
<1>1. CASE SupplyEnd
  <2>1. /\ more = TRUE /\ more' = FALSE /\ outcome = "parsing"
        /\ UNCHANGED <<input, index, stateStack, symStack, infoStack, outcome>>
    <3>1. ~ Known /\ more \in BOOLEAN
      BY <1>1 DEF SupplyEnd, PInv, PTypeOK
    <3> QED BY <1>1, <3>1 DEF SupplyEnd, Known, stacks
  <2>2. /\ AreTokens(input) /\ symStack \in Seq(Symbol) /\ index \in 1 .. Len(input) + 1
    BY DEF PInv, PTypeOK
  <2>3. Form \in Seq(Symbol)
    <3>1. Form = FormOf(symStack, input, index)
      BY DEF Form, FormOf
    <3>2. FormIs(Form, symStack, input, index)
      BY <2>2, <3>1, FormTyped
    <3> QED BY <3>2 DEF FormIs
  <2>4. SymbolsOf(input) \in Seq(Symbol)
    BY <2>2, SymbolsTyped
  <2>5. Form' = Form /\ SymbolsOf(input)' = SymbolsOf(input)
    BY <2>1 DEF Form
  <2>6. /\ <<>> \in Seq(Symbol) /\ <<>> \in Seq(Terminals)
        /\ SymbolsOf(input) = SymbolsOf(input) \o <<>> /\ Form = Form \o <<>>
    BY <2>3, <2>4, ConcatEmptySeq, EmptySeq
  <2>7. SubSeq(SymbolsOf(input), Len(SymbolsOf(input)) + 1, Len(SymbolsOf(input))) = <<>>
    BY <2>4, <2>6, Suffix
  <2>8. (outcome = "accepted") = FALSE /\ (outcome' = "accepted") = FALSE
    BY <2>1
  <2>9. D!More
    BY <2>1, <2>5, <2>6, <2>7, <2>8 DEF D!More, D!Given
  <2> QED BY <2>9 DEF D!Next
<1>2. CASE \E token : AreTokens(<<token>>) /\ Supply(token)
  BY <1>2, SupplyGives DEF D!Next
<1>3. CASE NoTokens \/ Reject \/ UNCHANGED pvars
  <2>1. Form' = Form
    BY <1>3 DEF NoTokens, Reject, Ended, Quiet, pvars, stacks, Form
  <2>2. (outcome = "accepted") = (outcome' = "accepted")
    BY <1>3 DEF NoTokens, Reject, Ready, Ended, pvars
  <2>3. UNCHANGED <<input, more>>
    BY <1>3 DEF NoTokens, Reject, Quiet, pvars
  <2> QED BY <2>1, <2>2, <2>3 DEF D!vars
<1>4. CASE Shift
  BY <1>4, ShiftStutters
<1>5. CASE Reduce
  BY <1>5, ReduceUndoes
<1>6. CASE Accept
  BY <1>6, AcceptAccepts DEF D!Next
<1> QED BY <1>1, <1>2, <1>3, <1>4, <1>5, <1>6 DEF PNext, ParserTurn

(* Parse implements Derivation: every turn undoes a rule in the stack and  *)
(* the input that is left or changes neither, and Parse accepts only when  *)
(* all of the input has become the right side of the start rule.           *)
THEOREM ParseDerives == PSpec => TurnsUndoRules
<1>1. PSpec => D!Spec
  BY DInit, TurnsStep, ParserInvariant, PTL DEF PSpec, D!Spec
<1> QED BY <1>1 DEF TurnsUndoRules

----------------------------------------------------------------------------
(* What Derivation accepts is a sentence.                                  *)

(* Derives, with its witnesses.                                            *)
Steps(step, n, f, ws) ==
  /\ step \in [0 .. n -> Seq(Symbol)]
  /\ step[0] = ws /\ step[n] = f
  /\ \A j \in 1 .. n : D!Undoes(step[j - 1], step[j])

LEMMA DerivesBySteps ==
  ASSUME NEW f, NEW ws
  PROVE  D!Derives(f, ws) <=> \E n \in Nat : \E step : Steps(step, n, f, ws)
BY DEF D!Derives, Steps

LEMMA NothingUndone ==
  ASSUME NEW f \in Seq(Symbol)
  PROVE  D!Derives(f, f)
<1> DEFINE step == [j \in 0 .. 0 |-> f]
<1>1. Steps(step, 0, f, f)
  <2>1. step \in [0 .. 0 -> Seq(Symbol)] /\ step[0] = f
    OBVIOUS
  <2>2. \A j \in 1 .. 0 : D!Undoes(step[j - 1], step[j])
    OBVIOUS
  <2> QED BY <2>1, <2>2 DEF Steps
<1> HIDE DEF step
<1> QED BY <1>1, DerivesBySteps

LEMMA OneMoreUndone ==
  ASSUME NEW f \in Seq(Symbol), NEW ws, D!Derives(f, ws), NEW g \in Seq(Symbol), D!Undoes(f, g)
  PROVE  D!Derives(g, ws)
<1>1. PICK n \in Nat : \E step : Steps(step, n, f, ws)
  BY DerivesBySteps
<1>2. PICK step : Steps(step, n, f, ws)
  BY <1>1
<1> DEFINE next == [j \in 0 .. n + 1 |-> IF j <= n THEN step[j] ELSE g]
<1>3. /\ step \in [0 .. n -> Seq(Symbol)] /\ step[0] = ws /\ step[n] = f
      /\ \A j \in 1 .. n : D!Undoes(step[j - 1], step[j])
  BY <1>2 DEF Steps
<1>4. /\ next \in [0 .. n + 1 -> Seq(Symbol)]
      /\ \A j \in 0 .. n : next[j] = step[j]
      /\ next[n + 1] = g
  <2>1. ASSUME NEW j \in 0 .. n + 1 PROVE (IF j <= n THEN step[j] ELSE g) \in Seq(Symbol)
    <3>1. j <= n => j \in 0 .. n
      OBVIOUS
    <3> QED BY <1>3, <3>1
  <2>2. n + 1 \in 0 .. n + 1 /\ ~ (n + 1 <= n) /\ \A j \in 0 .. n : j \in 0 .. n + 1 /\ j <= n
    OBVIOUS
  <2> QED BY <2>1, <2>2
<1> HIDE DEF next
<1>5. ASSUME NEW j \in 1 .. n + 1 PROVE D!Undoes(next[j - 1], next[j])
  <2>1. CASE j \in 1 .. n
    <3>1. j - 1 \in 0 .. n /\ j \in 0 .. n
      BY <2>1
    <3>2. next[j - 1] = step[j - 1] /\ next[j] = step[j]
      BY <1>4, <3>1
    <3> QED BY <2>1, <1>3, <3>2
  <2>2. CASE j = n + 1
    <3>1. j - 1 = n /\ n \in 0 .. n
      BY <2>2
    <3>2. next[j - 1] = f /\ next[j] = g
      BY <1>3, <1>4, <2>2, <3>1
    <3> QED BY <3>2
  <2> QED BY <2>1, <2>2
<1>6. 0 \in 0 .. n /\ n + 1 \in Nat
  OBVIOUS
<1>7. next[0] = ws
  BY <1>3, <1>4, <1>6
<1>8. Steps(next, n + 1, g, ws)
  BY <1>4, <1>5, <1>7 DEF Steps
<1> QED BY <1>6, <1>8, DerivesBySteps

LEMMA MoreWords ==
  ASSUME NEW f \in Seq(Symbol), NEW ws, D!Derives(f, ws), NEW w \in Seq(Symbol)
  PROVE  D!Derives(f \o w, ws \o w)
<1>1. PICK n \in Nat : \E step : Steps(step, n, f, ws)
  BY DerivesBySteps
<1>2. PICK step : Steps(step, n, f, ws)
  BY <1>1
<1> DEFINE next == [j \in 0 .. n |-> step[j] \o w]
<1>3. /\ step \in [0 .. n -> Seq(Symbol)] /\ step[0] = ws /\ step[n] = f
      /\ \A j \in 1 .. n : D!Undoes(step[j - 1], step[j])
  BY <1>2 DEF Steps
<1>4. /\ next \in [0 .. n -> Seq(Symbol)]
      /\ \A j \in 0 .. n : next[j] = step[j] \o w
  <2>1. ASSUME NEW j \in 0 .. n PROVE step[j] \o w \in Seq(Symbol)
    <3>1. step[j] \in Seq(Symbol)
      BY <1>3
    <3> QED BY <3>1, ConcatProperties
  <2> QED BY <2>1
<1> HIDE DEF next
<1>5. 0 \in 0 .. n /\ n \in 0 .. n
  OBVIOUS
<1>6. next[0] = ws \o w /\ next[n] = f \o w
  BY <1>3, <1>4, <1>5
<1>7. ASSUME NEW j \in 1 .. n PROVE D!Undoes(next[j - 1], next[j])
  <2>1. j - 1 \in 0 .. n /\ j \in 0 .. n
    OBVIOUS
  <2> DEFINE a == step[j - 1]
             b == step[j]
  <2>2. a \in Seq(Symbol) /\ D!Undoes(a, b) /\ next[j - 1] = a \o w /\ next[j] = b \o w
    BY <1>3, <1>4, <2>1
  <2> HIDE DEF a, b
  <2>3. D!Undoes(a \o w, b \o w)
    BY <2>2, UndoesInFront
  <2> QED BY <2>2, <2>3
<1>8. Steps(next, n, f \o w, ws \o w)
  BY <1>4, <1>6, <1>7 DEF Steps
<1> QED BY <1>8, DerivesBySteps

DInv == /\ Form \in Seq(Symbol)
        /\ D!Derives(Form, SymbolsOf(input))
        /\ outcome = "accepted" => Form = Right(1)

LEMMA DInvInit == D!Init => DInv
<1> SUFFICES ASSUME D!Init PROVE DInv
  OBVIOUS
<1>1. /\ SymbolsOf(input) \in Seq(Symbol) /\ Form = SymbolsOf(input)
      /\ (outcome = "accepted") = FALSE
  <2>1. SymbolsOf(input) \in Seq(Terminals) /\ Terminals \subseteq Symbol
    BY DEF D!Init, Terminals
  <2>2. SymbolsOf(input) \in Seq(Symbol)
    BY <2>1, SeqMonotonic
  <2> QED BY <2>2 DEF D!Init
<1>2. D!Derives(Form, SymbolsOf(input))
  BY <1>1, NothingUndone
<1> QED BY <1>1, <1>2 DEF DInv

LEMMA DInvNext == DInv /\ [D!Next]_(D!vars) => DInv'
<1> SUFFICES ASSUME DInv, [D!Next]_(D!vars) PROVE DInv'
  OBVIOUS
<1> DEFINE f  == Form
           g  == Form'
           ws == SymbolsOf(input)
           vs == SymbolsOf(input)'
<1>1. f \in Seq(Symbol) /\ D!Derives(f, ws) /\ (outcome = "accepted" => f = Right(1))
  BY DEF DInv
<1>2. SUFFICES g \in Seq(Symbol) /\ D!Derives(g, vs) /\ (outcome' = "accepted" => g = Right(1))
  BY DEF DInv
<1>3. CASE D!More
  <2>1. PICK w : /\ w \in Seq(Symbol) /\ vs = ws \o w /\ g = f \o w
                 /\ (outcome' = "accepted") = FALSE
    <3>1. PICK w : /\ w \in Seq(Terminals) /\ vs = ws \o w /\ g = f \o w
                   /\ (outcome' = "accepted") = FALSE
      BY <1>3 DEF D!More, D!Given
    <3>2. w \in Seq(Symbol)
      <4>1. Terminals \subseteq Symbol
        BY DEF Terminals
      <4> QED BY <3>1, <4>1, SeqMonotonic
    <3> QED BY <3>1, <3>2
  <2> HIDE DEF f, g, ws, vs
  <2>2. g \in Seq(Symbol)
    BY <1>1, <2>1, ConcatProperties
  <2>3. D!Derives(g, vs)
    BY <1>1, <2>1, MoreWords
  <2> QED BY <2>1, <2>2, <2>3
<1>4. CASE D!Undo
  <2>1. D!Undoes(f, g) /\ vs = ws /\ (outcome' = "accepted") = FALSE
    BY <1>4 DEF D!Undo
  <2> HIDE DEF f, g, ws, vs
  <2>2. PICK w \in Seq(Symbol) : TRUE
    BY <1>1
  <2>3. g \in Seq(Symbol)
    BY <1>1, <2>1, <2>2, UndoesInFront
  <2>4. D!Derives(g, ws)
    BY <1>1, <2>1, <2>3, OneMoreUndone
  <2> QED BY <2>1, <2>3, <2>4
<1>5. CASE D!Accept
  <2>1. g = f /\ f = Right(1) /\ vs = ws
    BY <1>5 DEF D!Accept
  <2> HIDE DEF f, g, ws, vs
  <2> QED BY <1>1, <2>1
<1>6. CASE UNCHANGED D!vars
  <2>1. g = f /\ vs = ws /\ (outcome' = "accepted") = (outcome = "accepted")
    BY <1>6 DEF D!vars
  <2> HIDE DEF f, g, ws, vs
  <2> QED BY <1>1, <2>1
<1> QED BY <1>3, <1>4, <1>5, <1>6 DEF D!Next

(* What Derivation accepts is a sentence of its rules: undoing them leads  *)
(* from the words to the form it looks for.                                *)
THEOREM DerivationIsSound == D!Spec => []D!SentencesOnly
<1>1. DInv => D!SentencesOnly
  BY DEF DInv, D!SentencesOnly
<1> QED BY <1>1, DInvInit, DInvNext, PTL DEF D!Spec

(* Parse accepts only sentences of the grammar, whatever its table makes   *)
(* of conflicts: the rules derive the input from the right side of the     *)
(* start rule (parser.cpp, Parse).                                         *)
THEOREM ParseIsSound == PSpec => []D!SentencesOnly
<1>1. PSpec => D!Spec
  BY ParseDerives DEF TurnsUndoRules
<1> QED BY <1>1, DerivationIsSound
=============================================================================
