---------------------------- MODULE MCNewsletter ----------------------------
(* Instances of Newsletter for TLC.                                        *)
EXTENDS Newsletter, TLC


CONSTANTS c1, r1, x1

OneCall == {c1}
OneRecipient == {r1}
OneContentOnly == {x1}
=============================================================================
