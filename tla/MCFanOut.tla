------------------------------ MODULE MCFanOut ------------------------------
(* Instances of FanOut for TLC.                                            *)
EXTENDS FanOut, TLC

CONSTANTS c1, c2, r1, r2, x1, x2

OneCall == {c1}
TwoCalls == {c1, c2}
OneRecipient == {r1}
TwoRecipients == {r1, r2}
OneContentOnly == {x1}
TwoContents == {x1, x2}
Symmetry == Permutations(Calls) \cup Permutations(Recipients) \cup Permutations(Contents)
=============================================================================
