-------------------------------- MODULE Login --------------------------------
(***************************************************************************)
(* What disabling, enabling and deleting promise about the login of one    *)
(* account that exists, said without files, handlers or failures: a secret *)
(* that can be locked and unlocked, is lost only with the account, and an  *)
(* account that comes back, as an empty one, only while mail is accepted.  *)
(* Accounts implements it (Accounts!ImplementsLogin).                      *)
(***************************************************************************)

CONSTANTS
    Secrets,     \* what a login may be checked against
    NoSecret     \* no login is possible

VARIABLES
    present,     \* the account exists
    open,        \* the secret that logs in, or NoSecret
    locked,      \* the secret an unlock would bring back, or NoSecret
    refused      \* mail for the account is refused

vars == <<present, open, locked, refused>>

\* At most one secret, and none without an account.
Init ==
    /\ present \in BOOLEAN /\ refused = FALSE
    /\ open \in Secrets \cup {NoSecret}
    /\ locked \in Secrets \cup {NoSecret}
    /\ open = NoSecret \/ locked = NoSecret
    /\ ~present => open = NoSecret /\ locked = NoSecret

Lock ==
    /\ open # NoSecret
    /\ open' = NoSecret /\ locked' = open
    /\ UNCHANGED <<present, refused>>

Unlock ==
    /\ locked # NoSecret
    /\ open' = locked /\ locked' = NoSecret
    /\ UNCHANGED <<present, refused>>

Remove ==
    /\ present
    /\ present' = FALSE /\ open' = NoSecret /\ locked' = NoSecret
    /\ UNCHANGED refused

Refuse ==
    /\ refused' = TRUE
    /\ UNCHANGED <<present, open, locked>>

Accept ==
    /\ refused' = FALSE
    /\ UNCHANGED <<present, open, locked>>

\* A delivery makes an account without a login.
Recreate ==
    /\ ~present /\ ~refused
    /\ present' = TRUE
    /\ UNCHANGED <<open, locked, refused>>

Next == Lock \/ Unlock \/ Remove \/ Refuse \/ Accept \/ Recreate

Spec == Init /\ [][Next]_vars
=============================================================================
