-------------------------------- MODULE Bans --------------------------------
(***************************************************************************)
(* The ban table and the policy files generated from it (src/bans.rs,      *)
(* src/shell.rs).  Every admin request that touches a ban writes one row   *)
(* of SQLite, logs it, reads the table back, rewrites three text files one *)
(* after the other and asks Postfix and Dovecot to reload.  Nothing holds  *)
(* a lock between those steps: each one is an await of a handler, so the   *)
(* handlers of two admins interleave at every step below, a client that    *)
(* goes away drops the handler at any of them, and a crash stops all.      *)
(***************************************************************************)
EXTENDS Naturals, FiniteSets

CONSTANTS
    Workers,      \* request handlers that may run at the same time
    Targets,      \* what can be banned: records [kind, value]
    Requests,     \* the requests admins send, a subset of Request
    MaxBans,      \* bound: rows ever inserted
    Outcomes,     \* how a reload command may end, a subset of CommandOutcomes
    Disruptions,  \* which of "fail", "disconnect", "crash", "service" happen
    MayLapse,     \* whether the clock may pass an expiry date
    Nobody        \* no worker, no request

Kinds == {"address", "domain", "ip", "subnet"}

\* expires_at: NULL, a date to come, a date gone by, or the empty text that
\* the form of templates/bans.html posts when its date field is left blank.
Expiries == {"none", "future", "past", "blank"}

\* A reload command exits with 0, exits with another status, or yields no
\* status at all (it cannot be started, or is killed after ten seconds).
CommandOutcomes == {"ok", "nonzero", "error"}

AddressTargets == {t \in Targets : t.kind = "address"}

Request ==
         [op : {"add"}, target : Targets, expires : Expiries]
    \cup [op : {"set_active"}, id : Nat, active : BOOLEAN]
    \cup [op : {"delete"}, id : Nat]
    \cup [op : {"set_active_for_value"}, target : AddressTargets, active : BOOLEAN]
    \cup [op : {"ensure"}, target : AddressTargets]

ASSUME TargetsAssumption == Targets \subseteq [kind : Kinds, value : STRING]
ASSUME RequestsAssumption == Requests \subseteq Request
ASSUME OutcomesAssumption == Outcomes \subseteq CommandOutcomes
ASSUME NobodyAssumption == Nobody \notin Workers /\ Nobody \notin Requests

-----------------------------------------------------------------------------

VARIABLES
    bans,      \* the rows of table bans
    lastId,    \* AUTOINCREMENT: the largest id ever given
    pc,        \* the await each handler stands at
    req,       \* the request each handler serves
    at,        \* the file or command the handler's loop has reached
    snap,      \* the rows sync_policy_files read, rendered per file
    attached,  \* FALSE: the client left, only the blocking write is running
    outcome,   \* the results run_reload_commands has gathered
    warned,    \* the commands logged as reload_command_failed
    files,     \* the lines of each policy file
    loaded,    \* the lines Postfix took in at its last reload or restart
    whole,     \* history: no file was opened since a sync last wrote its last one
    holder,    \* history: the handler whose sync ran last and alone, or Nobody
    author     \* history: the handler that wrote the table last

table == <<bans, lastId>>
local == <<pc, req, at, snap, attached, outcome, warned>>
host  == <<files, loaded>>
ghost == <<holder, author>>
disk  == <<host, whole>>
vars  == <<table, local, disk, ghost>>

AddressFile == 1
DomainFile  == 2
IpFile      == 3
Files       == {AddressFile, DomainFile, IpFile}

LastFile == IpFile

Postfix     == 1
Dovecot     == 2
Commands    == {Postfix, Dovecot}
LastCommand == Dovecot

\* The match of sync_policy_files: subnets share the file of single addresses.
FileOf(kind) ==
    CASE kind = "address" -> AddressFile
      [] kind = "domain"  -> DomainFile
      [] OTHER            -> IpFile

Row == [id : Nat, target : Targets, expires : Expiries, active : BOOLEAN]

\* The WHERE clause of sync_policy_files.  Expiry is compared as text, and the
\* empty text is smaller than every date.
Effective(row) == row.active /\ row.expires \in {"none", "future"}

\* What a table of rows becomes in each of the three files.
Rendered(rows) ==
    [f \in Files |->
        {row.target : row \in {r \in rows : Effective(r) /\ FileOf(r.target.kind) = f}}]

EmptyFiles == [f \in Files |-> {}]

\* What is left of the lines old when the lines new are written over them
\* without truncation: writing nothing leaves all, anything else overwrites
\* at least the first line and may or may not reach the others.
Leftovers(old, new) ==
    IF old = {} \/ new = {} THEN {old} ELSE (SUBSET old) \ {old}

\* Between the read of the table and the end of the last write.
InWindow(w) == pc[w] \in {"truncate", "fill"}

RowsOf(target) == {row \in bans : row.target = target}
RowsById(id)        == {row \in bans : row.id = id}

FirstStep(r) ==
    CASE r.op = "add"                  -> "insert"
      [] r.op = "set_active"           -> "update"
      [] r.op = "delete"               -> "lookup"
      [] r.op = "set_active_for_value" -> "update_value"
      [] r.op = "ensure"               -> "ensure"

Init ==
    /\ bans = {} /\ lastId = 0
    /\ pc = [w \in Workers |-> "idle"]
    /\ req = [w \in Workers |-> Nobody]
    /\ at = [w \in Workers |-> 1]
    /\ snap = [w \in Workers |-> EmptyFiles]
    /\ attached = [w \in Workers |-> TRUE]
    /\ outcome = [w \in Workers |-> [c \in Commands |-> "ok"]]
    /\ warned = [w \in Workers |-> {}]
    /\ files = EmptyFiles /\ loaded = EmptyFiles /\ whole = TRUE
    /\ holder = Nobody /\ author = Nobody

-----------------------------------------------------------------------------
(* The request and its write to the table *)

MayInsert(v) == req[v] # Nobody /\ req[v].op \in {"add", "ensure"}

\* An admin's request passes require_admin and validate_csrf and reaches bans.rs.
Begin(w) ==
    /\ pc[w] = "idle"
    /\ \E r \in Requests :
        /\ r.op \in {"add", "ensure"} =>
              lastId + Cardinality({v \in Workers : MayInsert(v)}) < MaxBans
        /\ req' = [req EXCEPT ![w] = r]
        /\ pc' = [pc EXCEPT ![w] = FirstStep(r)]
    /\ UNCHANGED <<table, at, snap, attached, outcome, warned, disk, ghost>>

\* The handler's future is gone, with a response or without one.
End(w) ==
    /\ pc' = [pc EXCEPT ![w] = "idle"]
    /\ req' = [req EXCEPT ![w] = Nobody]
    /\ at' = [at EXCEPT ![w] = 1]
    /\ snap' = [snap EXCEPT ![w] = EmptyFiles]
    /\ attached' = [attached EXCEPT ![w] = TRUE]
    /\ outcome' = [outcome EXCEPT ![w] = [c \in Commands |-> "ok"]]
    /\ warned' = [warned EXCEPT ![w] = {}]

\* A step to the next await that changes nothing else of the handler.
Goto(w, step) ==
    /\ pc' = [pc EXCEPT ![w] = step]
    /\ UNCHANGED <<req, at, snap, attached, outcome, warned>>

\* One write statement of worker w, committed on its own.
Write(w, rows) ==
    /\ bans' = rows
    /\ holder' = Nobody
    /\ author' = w
    /\ UNCHANGED disk

\* Mutant of Inserted: the id is the number of active bans and one.
InsertedCounted(target, expires) ==
    bans \cup {[id |-> Cardinality({row \in bans : row.active}) + 1,
               target |-> target, expires |-> expires, active |-> TRUE]}

Inserted(target, expires) ==
    bans \cup {[id |-> lastId + 1, target |-> target, expires |-> expires, active |-> TRUE]}

\* add: no look at the rows that are there, so a target may get a second row.
InsertBan(w) ==
    /\ pc[w] = "insert"
    /\ Write(w, Inserted(req[w].target, req[w].expires))
    /\ lastId' = lastId + 1
    /\ Goto(w, "audit")

Activated(rows, active) == {[row EXCEPT !.active = active] : row \in rows}

\* set_active: the UPDATE, which may hit no row.
UpdateById(w) ==
    /\ pc[w] = "update"
    /\ Write(w, (bans \ RowsById(req[w].id))
                   \cup Activated(RowsById(req[w].id), req[w].active))
    /\ lastId' = lastId
    /\ Goto(w, "fetch")

\* set_active: the SELECT behind the UPDATE fails when the row is not there.
FetchById(w) ==
    /\ pc[w] = "fetch"
    /\ IF RowsById(req[w].id) = {} THEN End(w) ELSE Goto(w, "audit")
    /\ UNCHANGED <<table, disk, ghost>>

\* delete: the SELECT in front of the DELETE fails when the row is not there.
LookupById(w) ==
    /\ pc[w] = "lookup"
    /\ IF RowsById(req[w].id) = {} THEN End(w) ELSE Goto(w, "delete")
    /\ UNCHANGED <<table, disk, ghost>>

\* delete: the row may have gone since the SELECT; the DELETE does not look.
DeleteById(w) ==
    /\ pc[w] = "delete"
    /\ Write(w, bans \ RowsById(req[w].id))
    /\ lastId' = lastId
    /\ Goto(w, "audit")

\* set_active_for_value: every row of the target at once.
UpdateByValue(w) ==
    /\ pc[w] = "update_value"
    /\ Write(w, (bans \ RowsOf(req[w].target))
                   \cup Activated(RowsOf(req[w].target), req[w].active))
    /\ lastId' = lastId
    /\ Goto(w, "audit")

\* Mutant of Reinstated: the expiry is not cleared.
ReinstatedDated(rows) == {[row EXCEPT !.active = TRUE] : row \in rows}

Reinstated(rows) == {[row EXCEPT !.active = TRUE, !.expires = "none"] : row \in rows}

\* ensure_active_address_ban: reactivate every row of the address and clear its
\* expiry; when no row is hit an INSERT follows, as a statement of its own.
EnsureUpdate(w) ==
    LET rows == RowsOf(req[w].target) IN
    /\ pc[w] = "ensure"
    /\ Write(w, (bans \ rows) \cup Reinstated(rows))
    /\ lastId' = lastId
    /\ Goto(w, IF rows = {} THEN "ensure_insert" ELSE "audit")

EnsureInsert(w) ==
    /\ pc[w] = "ensure_insert"
    /\ Write(w, Inserted(req[w].target, "none"))
    /\ lastId' = lastId + 1
    /\ Goto(w, "audit")

\* audit::log_event: the row of the log has no bearing on bans.
LogEvent(w) ==
    /\ pc[w] = "audit"
    /\ Goto(w, "select")
    /\ UNCHANGED <<table, disk, ghost>>

-----------------------------------------------------------------------------
(* sync_policy_files: read the table, then truncate and fill each file *)

\* Mutant of SelectActive: the filter of render_ban_files, which ignores expiry.
SelectUnexpired(w) ==
    /\ pc[w] = "select"
    /\ snap' = [snap EXCEPT ![w] = [f \in Files |->
                   {row.target : row \in {r \in bans : r.active /\ FileOf(r.target.kind) = f}}]]
    /\ at' = [at EXCEPT ![w] = AddressFile]
    /\ pc' = [pc EXCEPT ![w] = "truncate"]
    /\ holder' = IF \E v \in Workers \ {w} : InWindow(v) THEN Nobody ELSE w
    /\ UNCHANGED <<table, req, attached, outcome, warned, disk, author>>

SelectActive(w) ==
    /\ pc[w] = "select"
    /\ snap' = [snap EXCEPT ![w] = Rendered(bans)]
    /\ at' = [at EXCEPT ![w] = AddressFile]
    /\ pc' = [pc EXCEPT ![w] = "truncate"]
    /\ holder' = IF \E v \in Workers \ {w} : InWindow(v) THEN Nobody ELSE w
    /\ UNCHANGED <<table, req, attached, outcome, warned, disk, author>>

\* Mutant of Truncate: the file is opened without truncation.
OpenOnly(w) ==
    /\ pc[w] = "truncate"
    /\ Goto(w, "fill")
    /\ UNCHANGED <<table, disk, ghost>>

\* fs::write opens the file, which empties it ...
Truncate(w) ==
    /\ pc[w] = "truncate"
    /\ files' = [files EXCEPT ![at[w]] = {}]
    /\ whole' = FALSE
    /\ Goto(w, "fill")
    /\ UNCHANGED <<table, loaded, ghost>>

\* ... and writes the text from the start, over what another handler wrote
\* meanwhile.  A detached write ends there: the rest of the handler is gone.
Fill(w) ==
    /\ pc[w] = "fill"
    /\ \E left \in Leftovers(files[at[w]], snap[w][at[w]]) :
          files' = [files EXCEPT ![at[w]] = snap[w][at[w]] \cup left]
    /\ whole' = (at[w] = LastFile)
    /\ IF ~attached[w] THEN End(w)
       ELSE /\ pc' = [pc EXCEPT ![w] = IF at[w] = LastFile THEN "reload" ELSE "truncate"]
            /\ at' = [at EXCEPT ![w] = IF at[w] = LastFile THEN Postfix ELSE at[w] + 1]
            /\ snap' = [snap EXCEPT ![w] = IF at[w] = LastFile THEN EmptyFiles ELSE @]
            /\ UNCHANGED <<req, attached, outcome, warned>>
    /\ UNCHANGED <<table, loaded, ghost>>

-----------------------------------------------------------------------------
(* execute_reload_commands: run every command, then log every result *)

\* Mutant of Reload: every command counts as having exited with 0.
ReloadUnchecked(w) ==
    /\ pc[w] = "reload"
    /\ outcome' = [outcome EXCEPT ![w][at[w]] = "ok"]
    /\ \/ at[w] = Postfix /\ loaded' = files
       \/ loaded' = loaded
    /\ IF at[w] = LastCommand
       THEN pc' = [pc EXCEPT ![w] = "log_reload"] /\ at' = [at EXCEPT ![w] = Postfix]
       ELSE pc' = pc /\ at' = [at EXCEPT ![w] = at[w] + 1]
    /\ UNCHANGED <<table, req, snap, attached, warned, files, whole, ghost>>

\* Mutant of Reload: a command is retried until it exits with 0.
ReloadRetried(w) ==
    /\ pc[w] = "reload"
    /\ \E o \in Outcomes :
        /\ outcome' = [outcome EXCEPT ![w][at[w]] = o]
        /\ loaded' = IF at[w] = Postfix THEN files ELSE loaded
        /\ IF o # "ok" THEN UNCHANGED <<pc, at>>
           ELSE IF at[w] = LastCommand
           THEN pc' = [pc EXCEPT ![w] = "log_reload"] /\ at' = [at EXCEPT ![w] = Postfix]
           ELSE pc' = pc /\ at' = [at EXCEPT ![w] = at[w] + 1]
    /\ UNCHANGED <<table, req, snap, attached, warned, files, whole, ghost>>

\* systemctl reload postfix makes Postfix read the three files as they are; a
\* command that does not succeed may or may not have got that far.
Reload(w) ==
    /\ pc[w] = "reload"
    /\ \E o \in Outcomes :
        /\ outcome' = [outcome EXCEPT ![w][at[w]] = o]
        /\ \/ at[w] = Postfix /\ loaded' = files
           \/ (at[w] # Postfix \/ o # "ok") /\ loaded' = loaded
    /\ IF at[w] = LastCommand
       THEN pc' = [pc EXCEPT ![w] = "log_reload"] /\ at' = [at EXCEPT ![w] = Postfix]
       ELSE pc' = pc /\ at' = [at EXCEPT ![w] = at[w] + 1]
    /\ UNCHANGED <<table, req, snap, attached, warned, files, whole, ghost>>

\* A command that ran counts as a success, whatever its exit status.
LogReload(w) ==
    /\ pc[w] = "log_reload"
    /\ warned' = [warned EXCEPT ![w] =
                     IF outcome[w][at[w]] = "error" THEN @ \cup {at[w]} ELSE @]
    /\ IF at[w] = LastCommand
       THEN pc' = [pc EXCEPT ![w] = "respond"] /\ at' = at
       ELSE pc' = pc /\ at' = [at EXCEPT ![w] = at[w] + 1]
    /\ UNCHANGED <<table, req, snap, attached, outcome, disk, ghost>>

Respond(w) ==
    /\ pc[w] = "respond"
    /\ End(w)
    /\ UNCHANGED <<table, disk, ghost>>

-----------------------------------------------------------------------------
(* What goes wrong, and the clock *)

\* The sync of w is over before its end.
Abandon(w) ==
    holder' = IF holder = w /\ InWindow(w) THEN Nobody ELSE holder

\* A statement or a write returns an error and `?` leaves the handler.  Failures
\* of the reload commands are outcomes of Reload instead.
Fail(w) ==
    /\ "fail" \in Disruptions
    /\ pc[w] \notin {"idle", "reload", "respond"}
    /\ End(w)
    /\ Abandon(w)
    /\ UNCHANGED <<table, disk, author>>

\* The client closes the connection and the handler's future is dropped where
\* it awaits.  A blocking fs::write that has started cannot be dropped.
Disconnect(w) ==
    /\ "disconnect" \in Disruptions
    /\ pc[w] # "idle"
    /\ attached[w]
    /\ \/ pc[w] # "fill" /\ End(w)
       \/ /\ InWindow(w)
          /\ attached' = [attached EXCEPT ![w] = FALSE]
          /\ UNCHANGED <<pc, req, at, snap, outcome, warned>>
    /\ Abandon(w)
    /\ UNCHANGED <<table, disk, author>>

\* The process dies; systemd starts it again, and serve() writes no policy file.
Crash ==
    /\ "crash" \in Disruptions
    /\ \E w \in Workers : pc[w] # "idle"
    /\ pc' = [w \in Workers |-> "idle"]
    /\ req' = [w \in Workers |-> Nobody]
    /\ at' = [w \in Workers |-> 1]
    /\ snap' = [w \in Workers |-> EmptyFiles]
    /\ attached' = [w \in Workers |-> TRUE]
    /\ outcome' = [w \in Workers |-> [c \in Commands |-> "ok"]]
    /\ warned' = [w \in Workers |-> {}]
    /\ holder' = IF \E w \in Workers : InWindow(w) THEN Nobody ELSE holder
    /\ UNCHANGED <<table, disk, author>>

\* The Services page, or systemd itself, restarts or reloads Postfix, which reads the
\* files as they are, whoever is writing them or has left them unfinished.
ServiceAction ==
    /\ "service" \in Disruptions
    /\ loaded' = files
    /\ UNCHANGED <<table, local, files, whole, ghost>>

\* The date of a ban passes.  No statement runs and no file is written.
Lapse ==
    /\ MayLapse
    /\ \E row \in bans :
        /\ row.expires = "future"
        /\ bans' = (bans \ {row}) \cup {[row EXCEPT !.expires = "past"]}
    /\ holder' = Nobody /\ author' = Nobody
    /\ UNCHANGED <<lastId, local, disk>>

-----------------------------------------------------------------------------

\* What a handler does of its own accord once it has a request.
Step(w) ==
    \/ InsertBan(w) \/ UpdateById(w) \/ FetchById(w) \/ LookupById(w) \/ DeleteById(w)
    \/ UpdateByValue(w) \/ EnsureUpdate(w) \/ EnsureInsert(w) \/ LogEvent(w)
    \/ SelectActive(w) \/ Truncate(w) \/ Fill(w)
    \/ Reload(w) \/ LogReload(w) \/ Respond(w)

Next ==
    \/ \E w \in Workers : Begin(w) \/ Step(w) \/ Fail(w) \/ Disconnect(w)
    \/ Crash
    \/ ServiceAction
    \/ Lapse

Spec == Init /\ [][Next]_vars

\* Every await of a handler ends: SQLite gives up on a lock, a command is killed
\* after COMMAND_TIMEOUT_SECONDS, a write of a small local file returns.
Fairness == \A w \in Workers : WF_vars(Step(w))

FairSpec == Spec /\ Fairness

-----------------------------------------------------------------------------
(* Properties *)

Steps == {"idle", "insert", "update", "fetch", "lookup", "delete", "update_value",
          "ensure", "ensure_insert", "audit", "select", "truncate", "fill",
          "reload", "log_reload", "respond"}

\* The requests whose handler can stand at a step of the table's part.
ServedAt(step) ==
    CASE step = "insert"                     -> {"add"}
      [] step \in {"update", "fetch"}        -> {"set_active"}
      [] step \in {"lookup", "delete"}       -> {"delete"}
      [] step = "update_value"               -> {"set_active_for_value"}
      [] step \in {"ensure", "ensure_insert"} -> {"ensure"}
      [] OTHER -> {"add", "set_active", "delete", "set_active_for_value", "ensure"}

PolicyFiles == [Files -> SUBSET Targets]

TableTypeOK ==
    /\ bans \subseteq Row /\ lastId \in Nat
    /\ \A row \in bans : row.id <= lastId
    /\ \A r1, r2 \in bans : r1.id = r2.id => r1 = r2

HandlerTypeOK ==
    /\ pc \in [Workers -> Steps]
    /\ req \in [Workers -> Requests \cup {Nobody}]
    /\ \A w \in Workers : pc[w] # "idle" =>
          req[w] \in Requests /\ req[w].op \in ServedAt(pc[w])
    /\ at \in [Workers -> Files]
    /\ \A w \in Workers :
          pc[w] \in {"reload", "log_reload", "respond"} => at[w] \in Commands
    /\ snap \in [Workers -> PolicyFiles]
    /\ attached \in [Workers -> BOOLEAN]
    /\ \A w \in Workers : ~attached[w] => InWindow(w)
    /\ outcome \in [Workers -> [Commands -> CommandOutcomes]]
    /\ warned \in [Workers -> SUBSET Commands]

SharedTypeOK ==
    /\ files \in PolicyFiles /\ loaded \in PolicyFiles /\ whole \in BOOLEAN
    /\ holder \in Workers \cup {Nobody} /\ author \in Workers \cup {Nobody}

\* Every variable has its type, a busy handler serves a request its step belongs
\* to, ids are given once, and only a handler amid a write is ever detached.
TypeOK == TableTypeOK /\ HandlerTypeOK /\ SharedTypeOK

\* The holder has written file f.
Written(f) == InWindow(holder) => f < at[holder]

\* A sync that no other sync overlaps, and after which the table stays as it is,
\* leaves in every file it has written the effective bans and nothing else,
\* whatever other requests failed, were dropped or died around it
\* (sync_policy_files).
UndisturbedSyncPublishes ==
    holder # Nobody =>
        \A f \in Files : Written(f) => files[f] = Rendered(bans)[f]

\* The holder's `systemctl reload postfix` has exited with 0.
PostfixReloaded(w) ==
    /\ \/ pc[w] \in {"log_reload", "respond"}
       \/ pc[w] = "reload" /\ at[w] # Postfix
    /\ outcome[w][Postfix] = "ok"

\* Once such a sync's reload has succeeded Postfix works with the effective bans:
\* the commands run after the last file, never before (execute_reload_commands).
EnforcedAfterReload ==
    holder # Nobody /\ PostfixReloaded(holder) => loaded = Rendered(bans)

Synced(w) == pc[w] \in {"reload", "log_reload", "respond"}

Listed(target) == target \in files[FileOf(target.kind)]

TookEffect(r) ==
    CASE r.op = "add"    -> r.expires \in {"none", "future"} => Listed(r.target)
      [] r.op = "ensure" -> Listed(r.target)
      [] r.op = "set_active_for_value" -> ~r.active => ~Listed(r.target)
      [] r.op = "delete" -> RowsById(r.id) = {}
      [] r.op = "set_active" -> \A row \in RowsById(r.id) :
                                    /\ row.active = r.active
                                    /\ Effective(row) => Listed(row.target)

\* A handler past its sync that wrote the table last and synced alone has done
\* what it was asked for: an added or ensured ban is listed even if an older row
\* of the same address had expired or was inactive, an unblocked address is
\* listed by no duplicate, a deleted row is gone.
RequestTookEffect ==
    \A w \in Workers : holder = w /\ author = w /\ Synced(w) => TookEffect(req[w])

Quiescent == \A w \in Workers : pc[w] = "idle"

\* README, Bans Integration: "The app writes active bans into files".  Whenever no
\* request is under way the files hold exactly the effective bans.
QuiescentFilesCurrent == Quiescent => files = Rendered(bans)

\* The same sentence, of the bans the admin set active and gave no past date.
ActiveBansWritten ==
    Quiescent => \A row \in bans : row.active /\ row.expires # "past" => Listed(row.target)

\* README, Troubleshooting: for bans that were saved while Postfix or Dovecot did
\* not reload, inspect the audit log for reload command failures.
FailedReloadReported ==
    \A w \in Workers : pc[w] = "respond" =>
        \A c \in Commands : outcome[w][c] # "ok" => c \in warned[w]

\* How many awaits a handler at a step, and at the n-th file or command, has in
\* front of it at most.
AwaitsFrom(step, n) ==
    CASE step = "idle"       -> 0
      [] step = "respond"    -> 1
      [] step = "log_reload" -> 4 - n
      [] step = "reload"     -> 6 - n
      [] step = "fill"       -> 12 - 2 * n
      [] step = "truncate"   -> 13 - 2 * n
      [] step = "select"     -> 12
      [] step = "audit"      -> 13
      [] step \in {"fetch", "delete", "ensure_insert"} -> 14
      [] OTHER               -> 15

AwaitsLeft(w) == AwaitsFrom(pc[w], at[w])

\* Where a handler stands, and what its commands have come to.
Progress(w) == <<pc[w], at[w], outcome[w], warned[w]>>

\* What bounds every request: a handler moves only towards its end, and nothing
\* that anyone else does, fails or restarts puts it back.  Nothing is retried or
\* read again, and no request takes more than fifteen awaits (sync_policy_files,
\* execute_reload_commands).
RequestsAdvance ==
    [][\A w \in Workers : pc[w] # "idle" =>
            UNCHANGED Progress(w) \/ AwaitsLeft(w)' < AwaitsLeft(w)]_vars

\* After failures, dropped handlers, crashes and lapses, the next request of any
\* kind that gets through its sync repairs the files: while requests, one at a
\* time, go on getting through, the files keep returning to the effective bans.
LaterSyncRepairs ==
    []<>(\E w \in Workers : Synced(w)) => []<>(files = Rendered(bans))

\* What handlers work from: the rows they have read, then the files they have written.
Readings ==
    {snap[w] : w \in {v \in Workers : InWindow(v)}}
        \cup {files : w \in {v \in Workers : Synced(v)}}

\* What a restart of Postfix brings into force, while no sync is amid it.
Published == IF whole THEN {files} ELSE {}

Abstract == INSTANCE Publication WITH
    Lists     <- Files,
    Names     <- Targets,
    effective <- Rendered(bans),
    readings  <- Readings,
    published <- Published,
    enforced  <- loaded

\* With one request at a time, a write that a dropped one has left running counted
\* as under way, however many of them fail, are dropped or die, and whenever Postfix is
\* restarted by hand: files that a sync has come through are what it read from the
\* table, whole, and its own reload brings nothing else into force.  An emptied or
\* mixed list is loaded only by a restart while a sync rewrites the files, or after
\* one that was cut short there and before the next comes through
\* (sync_policy_files, write_text_file, execute_reload_commands, run_service_action).
ImplementsPublication == Abstract!Spec
=============================================================================
