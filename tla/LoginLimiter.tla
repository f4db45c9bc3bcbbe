---------------------------- MODULE LoginLimiter ----------------------------
(***************************************************************************)
(* LoginRateLimiter of src/auth.rs: the instants of the login attempts     *)
(* admitted lately, for every key "<ip>:<username>".  check holds the      *)
(* write lock from its first line to its last and awaits nothing in        *)
(* between, so it is one step.  All is in memory and gone with the process.*)
(***************************************************************************)
EXTENDS Naturals, FiniteSets

CONSTANTS
    Keys,    \* pairs of a client and a user name, as records
    Limit,   \* 10 in the code
    Window   \* ten minutes in the code

ASSUME LimitAssumption == Limit \in Nat \ {0}
ASSUME WindowAssumption == Window \in Nat \ {0}

VARIABLES
    clock,     \* the clock
    entries,   \* the attempts kept for each key
    taken,     \* how many attempts were admitted; tells equal instants apart
    admitted   \* history: all attempts admitted since the process started

limiterVars == <<clock, entries, taken, admitted>>

Attempt == [n : Nat, at : Nat]

LimiterInit ==
    /\ clock = 0 /\ taken = 0
    /\ entries = [key \in Keys |-> {}]
    /\ admitted = [key \in Keys |-> {}]

\* What entries.retain keeps.
Fresh(key) == {a \in entries[key] : clock < a.at + Window}

ThisAttempt == [n |-> taken + 1, at |-> clock]

\* Mutant of Admit: one too many.
AdmitOneMore(key) ==
    /\ Cardinality(Fresh(key)) <= Limit
    /\ entries' = [entries EXCEPT ![key] = Fresh(key) \cup {ThisAttempt}]
    /\ admitted' = [admitted EXCEPT ![key] = @ \cup {ThisAttempt}]
    /\ taken' = taken + 1
    /\ clock' = clock

Admit(key) ==
    /\ Cardinality(Fresh(key)) < Limit
    /\ entries' = [entries EXCEPT ![key] = Fresh(key) \cup {ThisAttempt}]
    /\ admitted' = [admitted EXCEPT ![key] = @ \cup {ThisAttempt}]
    /\ taken' = taken + 1
    /\ clock' = clock

\* Mutant of Refuse: an attempt that is refused counts as well.
RefuseAndCount(key) ==
    /\ Cardinality(Fresh(key)) >= Limit
    /\ entries' = [entries EXCEPT ![key] = Fresh(key) \cup {ThisAttempt}]
    /\ UNCHANGED <<clock, taken, admitted>>

\* A refusal leaves no trace but the entries it has dropped.
Refuse(key) ==
    /\ Cardinality(Fresh(key)) >= Limit
    /\ entries' = [entries EXCEPT ![key] = Fresh(key)]
    /\ UNCHANGED <<clock, taken, admitted>>

Tick ==
    /\ clock' = clock + 1
    /\ UNCHANGED <<entries, taken, admitted>>

\* The process starts again with LoginRateLimiter::default().
Forget ==
    /\ entries' = [key \in Keys |-> {}]
    /\ admitted' = [key \in Keys |-> {}]
    /\ UNCHANGED <<clock, taken>>

LimiterNext ==
    \/ \E key \in Keys : Admit(key) \/ Refuse(key)
    \/ Tick
    \/ Forget

LimiterSpec == LimiterInit /\ [][LimiterNext]_limiterVars

-----------------------------------------------------------------------------

\* The attempts admitted in the window that begins with attempt first.
InWindowOf(key, first) ==
    {a \in admitted[key] : first.at <= a.at /\ a.at < first.at + Window}

\* Whatever window of ten minutes one takes, not only those that end now, at most
\* ten attempts of a key were admitted in it since the process started
\* (LoginRateLimiter::check).
WindowBound ==
    \A key \in Keys : \A first \in admitted[key] :
        Cardinality(InWindowOf(key, first)) <= Limit

\* The attempts of a key that were admitted less than a window ago.
Recent(key) == {a \in admitted[key] : clock < a.at + Window}
=============================================================================
