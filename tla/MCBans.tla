------------------------------- MODULE MCBans -------------------------------
(* Small instances of Bans for TLC. *)
EXTENDS Bans, TLC

Address == [kind |-> "address", value |-> "a"]
Domain  == [kind |-> "domain", value |-> "d"]
Subnet  == [kind |-> "subnet", value |-> "s"]

Add(target, expires) == [op |-> "add", target |-> target, expires |-> expires]
SetActive(id, active) == [op |-> "set_active", id |-> id, active |-> active]
Delete(id) == [op |-> "delete", id |-> id]
Unblock(target) == [op |-> "set_active_for_value", target |-> target, active |-> FALSE]
Ensure(target) == [op |-> "ensure", target |-> target]

OneTarget == {Address}
AllTargets == {Address, Domain, Subnet}

\* Two admins: an address that gets duplicate rows, reactivated, unblocked,
\* deleted and ensured.
AdminRequests ==
    {Add(Address, "future"), SetActive(1, TRUE), Delete(1), Unblock(Address), Ensure(Address)}

\* One admin: all expiries and all kinds as well.
SerialRequests ==
    AdminRequests \cup {Add(Domain, "past"), Add(Domain, "blank"), Add(Subnet, "none"),
                        SetActive(1, FALSE), SetActive(2, TRUE)}

\* The smallest set in which two syncs may overlap.
RaceRequests == {Add(Address, "none"), Unblock(Address)}

Symmetry == Permutations(Workers)
=============================================================================
