------------------------------- MODULE MCAuth -------------------------------
(* Small instances of Auth for TLC. *)
EXTENDS Auth, TLC

CONSTANTS w1, w2, u1, p1, p2

OneKey == {[client |-> "c1", user |-> u1]}

Symmetry == Permutations(Workers) \cup Permutations(Passwords)
=============================================================================
