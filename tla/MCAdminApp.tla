----------------------------- MODULE MCAdminApp -----------------------------
(* One address and a filter it may not match. *)
EXTENDS AdminApp

CONSTANTS u1, all, other

MCMatches == [q \in {all, other} |-> IF q = all THEN {u1} ELSE {}]

=============================================================================
