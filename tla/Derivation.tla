----------------------------- MODULE Derivation -----------------------------
(***************************************************************************)
(* What a bottom-up parser promises, whatever table it goes by: it writes  *)
(* down the words it is given, undoes rules in what it has written, and    *)
(* accepts only when it is left with the form it was looking for. Parser   *)
(* is shown to implement this, and that the words it accepts are a         *)
(* sentence of the rules follows from it (ParserProofs).                   *)
(***************************************************************************)
EXTENDS Naturals, Sequences

CONSTANTS Symbol,         \* terminals and nonterminals
          Terminal,       \* what words are made of
          Productions,    \* a sequence of rules [left, right, ...]
          Target          \* the form to arrive at

VARIABLES words,          \* the words given so far
          form,           \* what has become of them
          open,           \* whether more words may come
          accepted

vars == <<words, form, open, accepted>>

(* g is f with the right side of a rule in it replaced by its left side.   *)
Undoes(f, g) ==
  \E r \in DOMAIN Productions :
    LET right == Productions[r].right
    IN \E at \in 0 .. Len(f) - Len(right) :
         /\ SubSeq(f, at + 1, at + Len(right)) = right
         /\ g = SubSeq(f, 1, at) \o <<Productions[r].left>>
                \o SubSeq(f, at + Len(right) + 1, Len(f))

Init == words \in Seq(Terminal) /\ form = words /\ open \in BOOLEAN /\ accepted = FALSE

(* More words: w is what comes behind the words so far.                    *)
Given(w) == w \in Seq(Terminal) /\ words' = words \o w /\ form' = form \o w
More == /\ open /\ ~ accepted
        /\ Given(SubSeq(words', Len(words) + 1, Len(words')))
        /\ open' \in BOOLEAN
        /\ UNCHANGED accepted

Undo == /\ ~ accepted
        /\ Undoes(form, form')
        /\ UNCHANGED <<words, open, accepted>>

Accept == /\ ~ open /\ form = Target
          /\ accepted' = TRUE
          /\ UNCHANGED <<words, form, open>>

Next == More \/ Undo \/ Accept
Spec == Init /\ [][Next]_vars

(* Words derive from a form if rules, undone one after another, lead to it.*)
Derives(f, ws) ==
  \E n \in Nat : \E step \in [0 .. n -> Seq(Symbol)] :
    /\ step[0] = ws /\ step[n] = f
    /\ \A j \in 1 .. n : Undoes(step[j - 1], step[j])

(* What is accepted is a sentence of the rules.                            *)
SentencesOnly == accepted => Derives(Target, words)
=============================================================================
