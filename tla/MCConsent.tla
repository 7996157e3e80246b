----------------------------- MODULE MCConsent -----------------------------
(* Instances of Consent for TLC.                                           *)
EXTENDS Consent, TLC

CONSTANTS w1, w2, m1, m2

OneWriter == {w1}
TwoWriters == {w1, w2}
OneMinter == {m1}
TwoMinters == {m1, m2}
Symmetry == Permutations(Writers) \cup Permutations(Minters)
=============================================================================
