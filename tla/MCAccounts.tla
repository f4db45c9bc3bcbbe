----------------------------- MODULE MCAccounts -----------------------------
(* Small instances of Accounts for TLC. *)
EXTENDS Accounts, TLC

CONSTANTS p0, p1, p2

Create(password) == [op |-> "create", password |-> password]
Disable == [op |-> "disable"]
Enable  == [op |-> "enable"]
Delete  == [op |-> "delete"]

Toggles     == {Disable, Enable, Delete}
TwoCreates  == {Create(p1), Create(p2)}
AllRequests == {Create(p1), Disable, Enable, Delete}

Existing == [password |-> p0, blocked |-> NoFile, mail |-> TRUE]
AnExistingAccount == {Existing, [Existing EXCEPT !.password = NoFile, !.blocked = p0]}
NoAccount  == {NoDir}
AnyAccount == AnExistingAccount \cup NoAccount

Symmetry == Permutations(Workers)

=============================================================================
