----------------------------- MODULE Publication -----------------------------
(***************************************************************************)
(* What the bans promise while no request overlaps another, said without   *)
(* rows, files and handlers: bans come and go one by one; what a request   *)
(* publishes and then brings into force is all the bans that were          *)
(* effective at one moment, whatever failed or was cut short before it.    *)
(* Whoever restarts the mail server gets what is published, and can get    *)
(* something else only while nothing whole is.                             *)
(* Bans implements it (Bans!ImplementsPublication).                        *)
(***************************************************************************)

CONSTANTS
    Lists,       \* the kinds of list bans are sorted into
    Names        \* what can be banned

VARIABLES
    effective,   \* the bans in force according to the administrators, by list
    readings,    \* what the request under way works from: none or one reading
    published,   \* what a restart would bring into force: none whole, or one reading
    enforced     \* the bans the mail server works with, by list

vars == <<effective, readings, published, enforced>>

Nothing == [list \in Lists |-> {}]

Init ==
    /\ effective = Nothing /\ readings = {}
    /\ published = {Nothing} /\ enforced = Nothing

\* A request bans before it reads, one name at a time.
Ban ==
    /\ readings = {}
    /\ \E list \in Lists, name \in Names :
          effective' = [effective EXCEPT ![list] = @ \cup {name}]
    /\ UNCHANGED <<readings, published, enforced>>

\* A request lifts a ban, or its date passes, at any time.
Lift ==
    /\ \E list \in Lists, name \in Names :
          effective' = [effective EXCEPT ![list] = @ \ {name}]
    /\ UNCHANGED <<readings, published, enforced>>

Read ==
    /\ readings = {}
    /\ readings' = {effective}
    /\ UNCHANGED <<effective, published, enforced>>

\* What was published is taken apart, only by a request that has read.
Withdraw ==
    /\ readings # {}
    /\ published' = {}
    /\ UNCHANGED <<effective, readings, enforced>>

\* The reading is published as a whole; a request that was dropped ends with that.
Publish ==
    /\ readings # {}
    /\ published' = readings
    /\ readings' \in {readings, {}}
    /\ UNCHANGED <<effective, enforced>>

\* A request brings into force what it read, after it has published it.
Enforce ==
    /\ readings # {} /\ published = readings
    /\ enforced' \in readings
    /\ UNCHANGED <<effective, readings, published>>

\* Anybody restarts the mail server at any time.
Restart ==
    /\ enforced' \in IF published = {} THEN [Lists -> SUBSET Names] ELSE published
    /\ UNCHANGED <<effective, readings, published>>

\* The request is answered, fails, is dropped or dies.
Finish ==
    /\ readings' = {}
    /\ UNCHANGED <<effective, published, enforced>>

Next == Ban \/ Lift \/ Read \/ Withdraw \/ Publish \/ Enforce \/ Restart \/ Finish

Spec == Init /\ [][Next]_vars
=============================================================================
