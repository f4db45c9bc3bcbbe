------------------------------ MODULE Accounts ------------------------------
(***************************************************************************)
(* One mail account on disk and the admin requests that create, disable,   *)
(* enable and delete it (src/users.rs).  An account is the directory       *)
(* <root>/<address>; its login works while the directory holds a file      *)
(* password, and is disabled by renaming that file to password.blocked.    *)
(* The handlers look before they act and hold no lock, so those of two     *)
(* admins interleave between every two awaits, and so do Dovecot's         *)
(* deliveries, which create the directory again when it is missing.        *)
(***************************************************************************)
EXTENDS Naturals

CONSTANTS
    Workers,      \* request handlers that may run at the same time
    Passwords,    \* what the files password and password.blocked may hold
    Requests,     \* the requests admins send, a subset of Request
    InitialHomes, \* what the account's directory may be at the start
    Attempts,     \* tries of remove_dir_all_with_retries (8 in the code)
    MaxTime,      \* bound: the last second of the clock
    Environment,  \* which of "deliver", "tick", "bans", "fail", "drop" happen
    NoFile, NoDir, Nobody,
    Torn          \* what a write that fails may leave in the file

Request ==
         [op : {"create"}, password : Passwords]
    \cup [op : {"disable", "enable", "delete"}]

Contents == Passwords \cup {Torn}

Directory ==
    [password : Contents \cup {NoFile}, blocked : Contents \cup {NoFile}, mail : BOOLEAN]

Seconds == 0..MaxTime

ASSUME RequestsAssumption == Requests \subseteq Request
ASSUME AttemptsAssumption == Attempts \in Nat \ {0}
ASSUME TimeAssumption == MaxTime \in Nat
ASSUME HomesAssumption == InitialHomes \subseteq Directory \cup {NoDir}
ASSUME NamesAssumption ==
    /\ Torn \notin Passwords /\ NoFile \notin Contents
    /\ NoDir \notin Directory /\ Nobody \notin Requests

-----------------------------------------------------------------------------

VARIABLES
    home,        \* the account's directory, or NoDir
    tombstones,  \* .deleted-<name>-<second>, by second
    now,         \* the clock, in seconds
    banned,      \* Postfix refuses mail for the address
    pc,          \* the await each handler stands at
    req,         \* the request each handler serves
    stamp,       \* the second in the name of a handler's tombstone
    tries,       \* the attempts of a handler's removal so far
    warned,      \* the pre-ban of a delete has returned a warning
    result,      \* what the handler reports
    attached,    \* the handler awaits its file operation; FALSE once it was dropped
                 \* and only the operation it had started is left
    overlapped   \* history: the handlers during whose request another one ran, the
                 \* file operation left over from a dropped one included

disk   == <<home, tombstones>>
world  == <<now, banned>>
local  == <<pc, req, stamp, tries, warned, result, attached, overlapped>>
vars   == <<disk, world, local>>

EmptyDir == [password |-> NoFile, blocked |-> NoFile, mail |-> FALSE]

Exists(file) == home # NoDir /\ home[file] # NoFile

FirstStep(r) == IF r.op = "delete" THEN "preban" ELSE "resolve"

Init ==
    /\ home \in InitialHomes
    /\ tombstones = [t \in Seconds |-> NoDir]
    /\ now = 0 /\ banned = FALSE
    /\ pc = [w \in Workers |-> "idle"]
    /\ req = [w \in Workers |-> Nobody]
    /\ stamp = [w \in Workers |-> 0]
    /\ tries = [w \in Workers |-> 0]
    /\ warned = [w \in Workers |-> FALSE]
    /\ result = [w \in Workers |-> "none"]
    /\ attached = [w \in Workers |-> TRUE]
    /\ overlapped = {}

-----------------------------------------------------------------------------

Busy == {w \in Workers : pc[w] # "idle"}

\* An admin's request passes require_admin and validate_csrf and reaches users.rs.
Begin(w) ==
    /\ pc[w] = "idle"
    /\ \E r \in Requests :
        /\ req' = [req EXCEPT ![w] = r]
        /\ pc' = [pc EXCEPT ![w] = FirstStep(r)]
    /\ overlapped' = IF Busy = {} THEN overlapped ELSE overlapped \cup Busy \cup {w}
    /\ UNCHANGED <<disk, world, stamp, tries, warned, result, attached>>

Forget(w) ==
    /\ pc' = [pc EXCEPT ![w] = "idle"]
    /\ req' = [req EXCEPT ![w] = Nobody]
    /\ stamp' = [stamp EXCEPT ![w] = 0]
    /\ tries' = [tries EXCEPT ![w] = 0]
    /\ warned' = [warned EXCEPT ![w] = FALSE]
    /\ result' = [result EXCEPT ![w] = "none"]
    /\ attached' = [attached EXCEPT ![w] = TRUE]
    /\ overlapped' = overlapped \ {w}

\* The next await of the handler; there is none after the file operation of a
\* handler that was dropped.
Goto(w, step) ==
    IF attached[w]
    THEN /\ pc' = [pc EXCEPT ![w] = step]
         /\ UNCHANGED <<req, stamp, tries, warned, result, attached, overlapped>>
    ELSE Forget(w)

\* The function of users.rs returns; the route logs the result and redirects.
Finish(w, outcome) ==
    IF attached[w]
    THEN /\ pc' = [pc EXCEPT ![w] = "done"]
         /\ result' = [result EXCEPT ![w] = outcome]
         /\ UNCHANGED <<req, stamp, tries, warned, attached, overlapped>>
    ELSE Forget(w)

Respond(w) ==
    /\ pc[w] = "done"
    /\ Forget(w)
    /\ UNCHANGED <<disk, world>>

\* A host command exits with an error, times out, or a file operation fails.
MayFail == "fail" \in Environment

\* resolve_home_path takes every answer but a path for "no such user", a failure
\* of doveadm included; userdb may also know a path that does not exist.
LookupAnswers == IF home = NoDir \/ MayFail THEN BOOLEAN ELSE {TRUE}

AfterLookup(op) ==
    CASE op = "create"  -> "check_create"
      [] op = "disable" -> "check_disable"
      [] op = "enable"  -> "check_enable"
      [] op = "delete"  -> "check_delete"

Resolve(w) ==
    /\ pc[w] = "resolve"
    /\ \/ \E found \in LookupAnswers :
            IF found = (req[w].op = "create")
            THEN Finish(w, "failed")
            ELSE Goto(w, AfterLookup(req[w].op))
       \/ MayFail /\ Finish(w, "failed")
    /\ UNCHANGED <<disk, world>>

-----------------------------------------------------------------------------
(* create_user_account *)

CheckCreate(w) ==
    /\ pc[w] = "check_create"
    /\ IF Exists("password") THEN Finish(w, "failed") ELSE Goto(w, "mkdir")
    /\ UNCHANGED <<disk, world>>

MakeDir(w) ==
    /\ pc[w] = "mkdir"
    /\ \/ home' = (IF home = NoDir THEN EmptyDir ELSE home) /\ Goto(w, "hash")
       \/ MayFail /\ home' = home /\ Finish(w, "failed")
    /\ UNCHANGED <<tombstones, world>>

HashPassword(w) ==
    /\ pc[w] = "hash"
    /\ \/ Goto(w, "write")
       \/ MayFail /\ Finish(w, "failed")
    /\ UNCHANGED <<disk, world>>

\* fs::write replaces a file that another handler wrote since CheckCreate.  It
\* opens and truncates before it writes: what a failure leaves may be empty or cut
\* short.  One that succeeds is a single step, as the text goes into the file that
\* was opened, also when a rename has given that file another name meanwhile.
WritePassword(w) ==
    /\ pc[w] = "write"
    /\ \/ /\ home # NoDir
          /\ home' = [home EXCEPT !.password = req[w].password]
          /\ Goto(w, "permissions")
       \/ /\ home # NoDir /\ MayFail
          /\ \E left \in {home.password, Torn} : home' = [home EXCEPT !.password = left]
          /\ Finish(w, "failed")
       \/ home = NoDir /\ home' = home /\ Finish(w, "failed")
    /\ UNCHANGED <<tombstones, world>>

\* chown and two chmods: an error leaves the handler by `?`, the files stay.
Permissions(w) ==
    /\ pc[w] = "permissions"
    /\ \/ Exists("password") /\ Goto(w, "auth_test")
       \/ (~Exists("password") \/ MayFail) /\ Finish(w, "failed")
    /\ UNCHANGED <<disk, world>>

\* doveadm auth test: a status that says no, for the password or because Dovecot
\* could not tell, is rolled back; a command that gave no status leaves by `?`.
AuthTest(w) ==
    /\ pc[w] = "auth_test"
    /\ \/ Exists("password") /\ home.password = req[w].password /\ Goto(w, "init_mailbox")
       \/ MayFail /\ Finish(w, "failed")
       \/ /\ MayFail \/ ~(Exists("password") /\ home.password = req[w].password)
          /\ Goto(w, "undo_auth")
    /\ UNCHANGED <<disk, world>>

WithoutPassword == IF home = NoDir THEN NoDir ELSE [home EXCEPT !.password = NoFile]

\* Removes the file by its name, whoever wrote it.
UndoAuth(w) ==
    /\ pc[w] = "undo_auth"
    /\ home' = WithoutPassword
    /\ Finish(w, "failed")
    /\ UNCHANGED <<tombstones, world>>

WithMail == [(IF home = NoDir THEN EmptyDir ELSE home) EXCEPT !.mail = TRUE]

\* Dovecot creates INBOX, and the directory if it has gone meanwhile.
InitMailbox(w) ==
    /\ pc[w] = "init_mailbox"
    /\ \/ home' = WithMail /\ Finish(w, "created")
       \/ MayFail /\ home' \in {home, WithMail} /\ Goto(w, "undo_password")
    /\ UNCHANGED <<tombstones, world>>

UndoPassword(w) ==
    /\ pc[w] = "undo_password"
    /\ home' = WithoutPassword
    /\ Goto(w, "undo_dir")
    /\ UNCHANGED <<tombstones, world>>

\* Mutant of UndoDir: the directory is removed with everything in it.
UndoTree(w) ==
    /\ pc[w] = "undo_dir"
    /\ home' = NoDir
    /\ Finish(w, "failed")
    /\ UNCHANGED <<tombstones, world>>

\* Mutant of UndoDir: the error of initialize_mailbox is dropped as well.
UndoSwallowed(w) ==
    /\ pc[w] = "undo_dir"
    /\ home' = IF home = EmptyDir THEN NoDir ELSE home
    /\ Finish(w, "created")
    /\ UNCHANGED <<tombstones, world>>

\* fs::remove_dir only removes an empty directory.
UndoDir(w) ==
    /\ pc[w] = "undo_dir"
    /\ home' = IF home = EmptyDir THEN NoDir ELSE home
    /\ Finish(w, "failed")
    /\ UNCHANGED <<tombstones, world>>

-----------------------------------------------------------------------------
(* disable_login and enable_login: a check and a rename *)

\* Mutant of CheckDisable: a missing password counts as a disabled login.
CheckDisableLenient(w) ==
    /\ pc[w] = "check_disable"
    /\ IF Exists("password") THEN Goto(w, "rename_disable") ELSE Finish(w, "disabled")
    /\ UNCHANGED <<disk, world>>

CheckDisable(w) ==
    /\ pc[w] = "check_disable"
    /\ IF Exists("blocked") THEN Finish(w, "disabled")
       ELSE IF Exists("password") THEN Goto(w, "rename_disable")
       ELSE Finish(w, "failed")
    /\ UNCHANGED <<disk, world>>

\* Mutant of RenameDisable: the file is copied.
CopyDisable(w) ==
    /\ pc[w] = "rename_disable"
    /\ \/ /\ Exists("password")
          /\ home' = [home EXCEPT !.blocked = home.password]
          /\ Finish(w, "disabled")
       \/ (~Exists("password") \/ MayFail) /\ home' = home /\ Finish(w, "failed")
    /\ UNCHANGED <<tombstones, world>>

RenameDisable(w) ==
    /\ pc[w] = "rename_disable"
    /\ \/ /\ Exists("password")
          /\ home' = [home EXCEPT !.blocked = home.password, !.password = NoFile]
          /\ Finish(w, "disabled")
       \/ (~Exists("password") \/ MayFail) /\ home' = home /\ Finish(w, "failed")
    /\ UNCHANGED <<tombstones, world>>

CheckEnable(w) ==
    /\ pc[w] = "check_enable"
    /\ IF Exists("password") THEN Finish(w, "enabled")
       ELSE IF Exists("blocked") THEN Goto(w, "rename_enable")
       ELSE Finish(w, "failed")
    /\ UNCHANGED <<disk, world>>

\* Mutant of RenameEnable: the file is copied back.
CopyEnable(w) ==
    /\ pc[w] = "rename_enable"
    /\ \/ /\ Exists("blocked")
          /\ home' = [home EXCEPT !.password = home.blocked]
          /\ Finish(w, "enabled")
       \/ (~Exists("blocked") \/ MayFail) /\ home' = home /\ Finish(w, "failed")
    /\ UNCHANGED <<tombstones, world>>

RenameEnable(w) ==
    /\ pc[w] = "rename_enable"
    /\ \/ /\ Exists("blocked")
          /\ home' = [home EXCEPT !.password = home.blocked, !.blocked = NoFile]
          /\ Finish(w, "enabled")
       \/ (~Exists("blocked") \/ MayFail) /\ home' = home /\ Finish(w, "failed")
    /\ UNCHANGED <<tombstones, world>>

-----------------------------------------------------------------------------
(* delete_account: the ban first, then delete_account_lifecycle *)

\* ensure_active_address_ban, seen from here: it may make Postfix refuse the
\* address, may have no effect without saying so, or return a warning or an error.
\* The delete goes on in every case but one: an error that cannot be logged.
PreBan(w) ==
    /\ pc[w] = "preban"
    /\ \E effect, warning \in BOOLEAN :
        /\ (effect /\ ~warning) \/ MayFail
        /\ banned' = (banned \/ effect)
        /\ \/ /\ warned' = [warned EXCEPT ![w] = warning]
              /\ pc' = [pc EXCEPT ![w] = "resolve"]
              /\ UNCHANGED <<req, stamp, tries, result, attached, overlapped>>
           \/ warning /\ Finish(w, "failed")
    /\ UNCHANGED <<disk, now>>

Deleted(w) == IF warned[w] THEN "deleted_banwarn" ELSE "deleted"

CheckDelete(w) ==
    /\ pc[w] = "check_delete"
    /\ IF home = NoDir THEN Finish(w, Deleted(w)) ELSE Goto(w, "kick")
    /\ UNCHANGED <<disk, world>>

\* doveadm kick, whose outcome is ignored; the second the tombstone is named after
\* is read when it has ended.
Kick(w) ==
    /\ pc[w] = "kick"
    /\ stamp' = [stamp EXCEPT ![w] = now]
    /\ pc' = [pc EXCEPT ![w] = "move"]
    /\ UNCHANGED <<disk, world, req, tries, warned, result, attached, overlapped>>

\* rename(2) onto a tombstone of the same second works only if that is empty.
MoveAway(w) ==
    /\ pc[w] = "move"
    /\ \/ /\ home # NoDir /\ tombstones[stamp[w]] \in {NoDir, EmptyDir}
          /\ tombstones' = [tombstones EXCEPT ![stamp[w]] = home]
          /\ home' = NoDir
          /\ Goto(w, "remove")
       \/ /\ home = NoDir \/ tombstones[stamp[w]] \notin {NoDir, EmptyDir} \/ MayFail
          /\ Finish(w, "failed")
          /\ UNCHANGED disk
    /\ UNCHANGED world

\* A live session has put a file into the directory: what was there is gone or
\* not, and the handler sleeps and tries again unless this was the last attempt.
NotEmptyYet(w) ==
    /\ tombstones[stamp[w]] # NoDir /\ MayFail
    /\ \E left \in {tombstones[stamp[w]], EmptyDir} :
          tombstones' = [tombstones EXCEPT ![stamp[w]] = left]
    /\ UNCHANGED home

TryAgain(w, count) ==
    IF attached[w]
    THEN /\ tries' = [tries EXCEPT ![w] = count]
         /\ UNCHANGED <<pc, req, stamp, warned, result, attached, overlapped>>
    ELSE Forget(w)

\* Mutants of Retry: one attempt too many, a count that starts again, success
\* after the last attempt.
RetryOnceMore(w) ==
    /\ NotEmptyYet(w)
    /\ IF tries[w] = Attempts THEN Finish(w, "failed") ELSE TryAgain(w, tries[w] + 1)

RetryForever(w) ==
    /\ NotEmptyYet(w)
    /\ TryAgain(w, (tries[w] + 1) % Attempts)

RetryThenOk(w) ==
    /\ NotEmptyYet(w)
    /\ IF tries[w] + 1 = Attempts THEN Finish(w, Deleted(w)) ELSE TryAgain(w, tries[w] + 1)

Retry(w) ==
    /\ NotEmptyYet(w)
    /\ IF tries[w] + 1 = Attempts THEN Finish(w, "failed") ELSE TryAgain(w, tries[w] + 1)

\* remove_dir_all_with_retries: gone, or not yet, or an error that is not worth
\* another attempt.
RemoveTree(w) ==
    /\ pc[w] = "remove"
    /\ \/ /\ tombstones[stamp[w]] # NoDir
          /\ tombstones' = [tombstones EXCEPT ![stamp[w]] = NoDir]
          /\ Finish(w, Deleted(w))
          /\ UNCHANGED home
       \/ Retry(w)
       \/ /\ tombstones[stamp[w]] = NoDir \/ MayFail
          /\ Finish(w, "failed")
          /\ UNCHANGED disk
    /\ UNCHANGED world

-----------------------------------------------------------------------------
(* Dovecot, the clock, the bans page, and clients that leave *)

Deliver ==
    /\ "deliver" \in Environment
    /\ ~banned
    /\ home' = WithMail
    /\ UNCHANGED <<tombstones, world, local>>

Tick ==
    /\ "tick" \in Environment
    /\ now < MaxTime
    /\ now' = now + 1
    /\ UNCHANGED <<disk, banned, local>>

\* Another request bans the address or lifts the ban: a block or an unblock, a ban
\* that is edited or deleted, a sync that has emptied the file of addresses.
ChangeBan ==
    /\ "bans" \in Environment
    /\ banned' \in BOOLEAN
    /\ UNCHANGED <<disk, now, local>>

\* Steps at which the handler awaits an operation of tokio::fs.  Once started that
\* runs on another thread and ends whatever becomes of the handler; host commands
\* are killed with it.
FileSteps ==
    {"mkdir", "write", "undo_auth", "undo_password", "undo_dir", "rename_disable",
     "rename_enable", "move", "remove"}

\* The handler's future is dropped where it awaits, or the process dies.
Drop(w) ==
    /\ "drop" \in Environment
    /\ pc[w] # "idle" /\ attached[w]
    /\ \/ Forget(w)
       \/ /\ pc[w] \in FileSteps
          /\ attached' = [attached EXCEPT ![w] = FALSE]
          /\ UNCHANGED <<pc, req, stamp, tries, warned, result, overlapped>>
    /\ UNCHANGED <<disk, world>>

-----------------------------------------------------------------------------

Step(w) ==
    \/ Resolve(w)
    \/ CheckCreate(w) \/ MakeDir(w) \/ HashPassword(w) \/ WritePassword(w)
    \/ Permissions(w) \/ AuthTest(w) \/ InitMailbox(w)
    \/ UndoAuth(w) \/ UndoPassword(w) \/ UndoDir(w)
    \/ CheckDisable(w) \/ RenameDisable(w) \/ CheckEnable(w) \/ RenameEnable(w)
    \/ PreBan(w) \/ CheckDelete(w) \/ Kick(w) \/ MoveAway(w) \/ RemoveTree(w)
    \/ Respond(w)

Next ==
    \/ \E w \in Workers : Begin(w) \/ Step(w) \/ Drop(w)
    \/ Deliver
    \/ Tick
    \/ ChangeBan

Spec == Init /\ [][Next]_vars

\* Every await of a handler ends: commands are killed after ten seconds, the
\* sleep between two removals lasts 250 ms.
Fairness == \A w \in Workers : WF_vars(Step(w))

FairSpec == Spec /\ Fairness

-----------------------------------------------------------------------------
(* Properties *)

Steps ==
    {"idle", "resolve", "check_create", "mkdir", "hash", "write", "permissions", "auth_test",
     "init_mailbox", "undo_auth", "undo_password", "undo_dir", "check_disable",
     "rename_disable", "check_enable", "rename_enable", "preban", "check_delete", "kick",
     "move", "remove", "done"}

Results == {"none", "created", "disabled", "enabled", "deleted", "deleted_banwarn", "failed"}

\* The steps at which a handler of each operation may stand.
StepsOf(op) ==
    {"resolve", "done"} \cup
        CASE op = "create"  -> {"check_create", "mkdir", "hash", "write", "permissions",
                                "auth_test", "init_mailbox", "undo_auth", "undo_password",
                                "undo_dir"}
          [] op = "disable" -> {"check_disable", "rename_disable"}
          [] op = "enable"  -> {"check_enable", "rename_enable"}
          [] op = "delete"  -> {"preban", "check_delete", "kick", "move", "remove"}

DiskOK ==
    /\ home \in Directory \cup {NoDir}
    /\ tombstones \in [Seconds -> Directory \cup {NoDir}]
    /\ now \in Seconds /\ banned \in BOOLEAN

HandlersOK ==
    /\ pc \in [Workers -> Steps]
    /\ req \in [Workers -> Requests \cup {Nobody}]
    /\ \A w \in Workers : pc[w] # "idle" =>
          req[w] \in Requests /\ pc[w] \in StepsOf(req[w].op)
    /\ stamp \in [Workers -> Seconds]
    /\ tries \in [Workers -> 0..(Attempts - 1)]
    /\ warned \in [Workers -> BOOLEAN]
    /\ result \in [Workers -> Results]
    /\ attached \in [Workers -> BOOLEAN]
    /\ \A w \in Workers : ~attached[w] => pc[w] \in FileSteps
    /\ overlapped \subseteq Workers

\* Every variable has its type, a busy handler stands at a step of its own
\* operation, and no removal ever makes more attempts than it may.
TypeOK == DiskOK /\ HandlersOK

\* While no account is created, the credential is never lost, doubled or overwritten
\* as long as the directory stays: whatever disables, enables, deletes and
\* deliveries race each other and wherever they fail, each step leaves in the two
\* files together what they held before (disable_login, enable_login).
CredentialStays ==
    [][home # NoDir /\ home' # NoDir =>
            {home'.password, home'.blocked} = {home.password, home.blocked}]_vars

\* Banner of the users page: "The user password file was moved to
\* password.blocked."  A disable that reports success leaves no file password
\* behind at the moment it settles.
DisabledMeansNoPassword ==
    [][\A w \in Workers : result'[w] = "disabled" /\ result[w] = "none"
            => home' # NoDir /\ home'.password = NoFile /\ home'.blocked # NoFile]_vars

\* The report of create_user_account: "created ... and wrote ...; auth test
\* passed; mailbox initialized".  The login works when the handler says so.
CreatedCanLogIn ==
    \A w \in Workers : result[w] = "created" =>
        Exists("password") /\ home.password = req[w].password

\* The same promise, kept: a create that nothing overlapped reports success only
\* when the login works, whatever earlier requests left behind where they failed,
\* a password file that is cut short included, and whatever is delivered
\* meanwhile.  The file operation of a dropped request that has not ended yet counts
\* as an overlap: its write would replace the password after the auth test.
LoneCreateCanLogIn ==
    \A w \in Workers : result[w] = "created" /\ w \notin overlapped =>
        Exists("password") /\ home.password = req[w].password

\* A directory that holds mail leaves its place in no way but whole, as the
\* tombstone of a delete: neither the clean-up of a failed create nor a retry of
\* a removal takes away a directory that a delivery has made since.
MailLeavesWhole ==
    [][home # NoDir /\ home' = NoDir /\ home.mail =>
            \E w \in Workers : req[w] # Nobody /\ req[w].op = "delete" /\ tombstones'[stamp[w]] = home]_vars

\* A delete that moved the directory reports success only when nothing is left
\* of the tombstone it made.
DeletedMeansRemoved ==
    [][\A w \in Workers : pc[w] = "remove" /\ result'[w] \in {"deleted", "deleted_banwarn"}
            => tombstones'[stamp[w]] = NoDir]_vars

\* Every request is answered: the retries of a removal are bounded and nothing
\* else loops or waits for another handler.
EveryRequestEnds == \A w \in Workers : pc[w] # "idle" ~> pc[w] = "idle"

\* How many awaits a handler at a step has in front of it at most, retries aside.
AwaitsFrom(step) ==
    CASE step = "idle" -> 0
      [] step = "done" -> 1
      [] step \in {"undo_auth", "undo_dir", "rename_disable", "rename_enable", "remove"} -> 2
      [] step \in {"undo_password", "check_disable", "check_enable", "move"} -> 3
      [] step \in {"init_mailbox", "kick"} -> 4
      [] step \in {"auth_test", "check_delete"} -> 5
      [] step = "permissions"  -> 6
      [] step = "write"        -> 7
      [] step = "hash"         -> 8
      [] step = "mkdir"        -> 9
      [] step = "check_create" -> 10
      [] step = "resolve"      -> 11
      [] step = "preban"       -> 12

AwaitsLeft(w) ==
    IF pc[w] = "idle" THEN 0 ELSE AwaitsFrom(pc[w]) + Attempts - tries[w]

\* What bounds every request, and what EveryRequestEnds rests on: a handler moves
\* only towards its end, a removal of which each attempt fails included, and no
\* other admin, no delivery and no failure puts it back; a create that fails undoes
\* and never starts again (create_user_account, remove_dir_all_with_retries).
RequestsAdvance ==
    [][\A w \in Workers : pc[w] # "idle" =>
            UNCHANGED <<pc[w], tries[w]>> \/ AwaitsLeft(w)' < AwaitsLeft(w)]_vars

\* The directory as the abstract account of module Login: the secret that logs in
\* is what password holds, the one locked away is what password.blocked holds.
Abstract == INSTANCE Login WITH
    Secrets  <- Contents,
    NoSecret <- NoFile,
    present  <- home # NoDir,
    open     <- IF home = NoDir THEN NoFile ELSE home.password,
    locked   <- IF home = NoDir THEN NoFile ELSE home.blocked,
    refused  <- banned

\* While no account is created, handlers that look, wait and then rename behave,
\* however they overlap, fail or die, like single steps on one secret: it is locked
\* and unlocked, goes only with the account, and what a delivery makes again has no
\* login and is made only while mail is accepted (disable_login, enable_login,
\* delete_account_lifecycle).
ImplementsLogin == Abstract!Spec
=============================================================================
