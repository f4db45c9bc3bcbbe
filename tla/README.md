# chatmail-control: models and proofs

chatmail-control is a web application with which the administrators of one chatmail server manage
its mail accounts and its bans. It is an axum/tokio program: every HTTP request runs as a future of
its own, awaiting SQLite (sqlx, ten connections), the file system and the host's own tools
(`doveadm`, `systemctl`, ...). There is no lock, no queue and no background task: whatever two
requests do is interleaved at every `.await`, whatever a request has not finished when its client
leaves or the process dies stays unfinished, and nothing but the next request repairs it. That is
what this project models.

Paths below are relative to the repository; `src/users.rs` is the file the map calls
`src/src/users.rs`.

## Inventory

| Component | State | Operations | Hard behaviour | Correct when |
|---|---|---|---|---|
| Ban table (`src/bans.rs`, `src/routes/bans.rs`) | table `bans` | `add`, `set_active`, `delete`, `set_active_for_value`, `ensure_active_address_ban` | several statements per request, each committed on its own; rows vanish between them; duplicate rows; text expiry | the request took effect |
| Policy files and reload (`src/bans.rs:269-335`, `src/shell.rs`) | three text files; what Postfix has loaded | `sync_policy_files`, `write_text_file`, `execute_reload_commands` | read-then-write without a lock, truncate-then-fill, drop, crash, lapse of a date, a restart of Postfix by hand | files and Postfix hold the effective bans; what a sync has come through is whole |
| Mail accounts (`src/users.rs`) | `<root>/<address>/password`, `password.blocked`, mail, tombstones | `create_user_account`, `disable_login`, `enable_login`, `delete_account_lifecycle` | check-then-act, roll-backs, retries, file operations that outlive their handler, deliveries that make the directory again | credential kept, mail never lost by a clean-up, reports true |
| Account deletion (`src/routes/users.rs:304`, `src/routes/api.rs:244`) | both of the above | pre-ban, then delete | the ban may not take effect without anybody saying so, or may be lifted meanwhile | the report of a removal is true, what a delivery makes again has no login |
| Login rate limiter (`src/auth.rs:50`) | attempts per `ip:username`, in memory | `check` | a sliding window at its limit; lost at restart | at most ten attempts in ten minutes |
| Sessions and admins (`src/auth.rs`, `src/main.rs:104`) | tables `sessions`, `admins`; cookies | `authenticate`, `logout`, `require_admin`, `upsert_admin` | three statements to accept a request, a logout or a reset between them | no request begun after a logout gets through |
| Control page (`static/admin-app.js`, `src/routes/api.rs`) | the rows and counts shown, two timers, an in-flight flag, disabled buttons | poll, refresh, filter, block, unblock, delete, create | answers out of order, optimistic rows, a refresh that is skipped because one is under way | no refresh hangs, no button stays dead, the page ends up as the server |
| Audit log (`src/audit.rs`) | table `audit_log` | `log_event`, `latest` | written after the change, in a statement of its own | |
| Mailbox maintenance (`src/users.rs:143-183,266-287`) | Dovecot's | `delete_mailbox` with its fallback, `expunge_mailbox`, `quota_recalc`, `force_resync` | four commands, each with a status or none, while mail comes and goes | what is reported as cleared is |
| Health (`src/health.rs`) | none | `run_health_checks`, `restriction_check` | every tool may be missing; the host changes under the probes; text match of a configuration line | ok was so, silence shows |
| Services, dashboard, logs | none | `run_service_action`, `collect_dashboard_stats`, `read_journal_unit` | a restart during a probe, or of Postfix while the files are unfinished | |
| Command runner (`src/shell.rs`) | none | `Shell::run` | ten-second timeout, exit status against no status | |
| Config, database, start-up, errors, request ids | none | | a restart reads nothing back | |

`src/invites.rs`, `src/settings.rs`, `src/postfix.rs` and their routes are in the tree but in no
`mod` declaration (`src/main.rs:1-14`, `src/routes/mod.rs:1-8`): they are not part of the program.

All components meet in three places: the SQLite tables, the files under the mail root, and the host
tools. `delete_account` calls the ban table before the accounts; the users pages read the active bans
to mark an account as blocked; the control page calls all of them through `src/routes/api.rs`.

The hazards, each at its line with the properties that cover it, are listed in `PROJECT.json`.

## Modules

### `Bans.tla`: the ban table and the policy files

State and code: `bans`, `lastId` are the table; `pc[w]` is the await at which the handler `w` stands,
`req[w]` the request it serves; `at[w]` is the position in the loop over files or commands; `snap[w]`
is `active_bans` of `sync_policy_files` split by file; `outcome`, `warned` are `results` and
`warnings`; `files` and `loaded` are the host's. `holder`, `author` and `whole` are history: the handler
whose sync was last and alone, the one that wrote the table last, and whether no file has been opened since
a sync last wrote its last one. No guard reads them.

One action is one await: each SQL statement commits alone, `fs::write` is two steps (open with
truncation, write), each reload command and each audit row is a step. Two writers of one file
overwrite each other from the start of the file, so that lines of the longer text may stay behind
(`Leftovers`). `Fail` is an error that leaves by `?`; `Disconnect` is hyper dropping the future of a
handler whose client has gone (a blocking write that has started goes on alone, `attached = FALSE`);
`Crash` is the death of the process, after which `serve` writes no file; `Lapse` is the clock passing
an `expires_at`; `ServiceAction` is Postfix being restarted or reloaded from the Services page
(`src/services.rs:84`), or by systemd itself, at any moment: it loads the files as they are.

Abstractions: reasons, creators and time stamps are left out; an expiry is none, a date to come, a
date gone by, or the empty text of a form field left blank; a reload command that fails may or may not
have made Postfix read the files. `block_user` and `unblock_user` of both user interfaces are the
requests `add` and `set_active_for_value`.

### `Publication.tla`: what the bans promise, and the refinement

The abstract side of `Bans`: the effective bans by list, what the request under way has read of them, what
is published (what a restart would bring into force, as long as that is whole), and what the mail server enforces.
`Bans!Abstract` instantiates it with the rendered table, the snapshots of the handlers between their read and their
answer, the files while `whole`, and what Postfix has loaded; rows, the loop over the files, truncation and every way
of being cut short disappear. `ImplementsPublication` says that files a sync has come through are all that the table
said at one moment, and that its own reload brings nothing else into force. It does not say that Postfix never works
with an empty or mixed list: a restart by hand loads one while a sync rewrites the files, or after a crash, a
disconnect or a failed write there and before the next sync comes through. `Restart` of `Publication` allows
that, and only then. The refinement holds for one request at a time; `bans_race` is why it does not for two.

### `Accounts.tla`: one account on disk

One address, because the operations of two addresses share nothing but the mail root. `home` is the directory
(`NoDir`, or what its two password files hold and whether there is mail), `tombstones` the directories a delete has
moved away, by the second in their name. One action is one await; `ensure_maildir_permissions` and
`initialize_mailbox` are runs of host commands that change nothing the properties see between them, and are one action
with all their outcomes. `Drop` is a client that leaves or a process that dies: an operation of `tokio::fs` that has
started goes on alone on its blocking thread (`attached = FALSE`), and ends the handler when it has ended; a host
command is killed with its handler (`kill_on_drop`), and one that took effect all the same is a failing branch with
its effect, followed by `Drop`. `Deliver` is Dovecot making a directory for mail that Postfix accepted. The pre-ban of
a delete is one action that may make Postfix refuse mail, may fail to without saying so, or may warn; `ChangeBan` is
every other request that bans the address or lifts its ban, a sync that has just emptied the file included, so a ban
holds for no time that could be relied on. A write of the password that fails, or that a dying process cuts off,
leaves the file as it was or `Torn`, empty or cut short; one that succeeds is one step, since nothing the properties
see depends on the moment between its opening the file and filling it, and the text goes into the opened file whatever
its name has become. The address and path validations are failures of `Resolve`. `overlapped` is history, read by no
guard: the handlers during whose request another ran, the operation left over from a dropped one included.

### `Login.tla`: what the account promises, and the refinement

The abstract account: one secret that is open, locked or lost, an account that is there or not, and whether mail for
it is refused, which comes and goes (`Refuse`, `Accept`). `Accounts!Abstract` instantiates it with `password` as the
open secret, `password.blocked` as the locked one, the directory as the account and the ban as the refusal.
`ImplementsLogin` says that looking, waiting and renaming, by any number of overlapping handlers that fail or die
anywhere, is `Lock`, `Unlock`, `Remove`, `Refuse`, `Accept`, `Recreate` or a stutter. It holds for disabling, enabling
and deleting; creating breaks it (`accounts_two_creates`), so it is stated without creations.

### `LoginLimiter.tla`: the login limiter

`entries[key]` is the vector of instants kept for `<ip>:<username>`, a set whose members carry the number
of the attempt to tell equal instants apart; `admitted[key]` is history, every attempt admitted since the
process started. `check` holds the write lock from its first line to its last without an await, so it is
one step: `Admit` or `Refuse`. `Forget` is `LoginRateLimiter::default()` at a restart. The limit (ten) and
the window (ten minutes) are constants. Keys are never removed from the map, so it grows by every user name
tried; nothing in the code bounds it and no property speaks of it.

### `Auth.tla`: sessions, admins and the requests made with them

`Auth` extends `LoginLimiter` and composes its steps with the handlers. `admins` maps a name to the password
its hash is of, `sessions` is the table, `issued` the ids that reached a browser. `pc[w]`, `req[w]`,
`current[w]` and `result[w]` are a handler's place, request, `CurrentAdmin` and answer; `late` and `knew`
are history. A login is `CheckLimit`, `Lookup`, `InsertSession`, `LogLogin`; any other request is
`SelectSession`, `MarkSeen` (the second SELECT finds a row always, no statement deletes an admin) and then
what it is for. `UpsertAdmin` is the console, another process; `Abort` is an error or a client that has
gone, after which a session may stay that no cookie names; `Restart` loses the limiter and the handlers and
keeps the tables. A login refused for its CSRF cookie changes nothing and is left out; statements that
write only audit rows or `last_*_at` are part of the step before them. Expiry compares texts, so a session
lasts to the end of the second its fraction falls into (`Valid`).

### `AdminApp.tla`: the control page and its handlers

The browser and the server in one module. `rows`, `greyed`, `metrics`, `filter`, `usersQuery`, `inFlight`
are what the script and its DOM hold; `awaited` is what `Promise.all` in `refreshAll` still waits for;
`lists`, `dashes`, `posts`, `creating` are the requests under way, each at a stage. A load carries
`refresh = TRUE` if a `refreshAll` waits for it. `users_list` is two reads (`ListReadsBans`,
`ListReadsUsers`), as in the code; the answer of any load may arrive at any time, in any order. One action
of the page is one turn of the event loop, so `Settle` also resumes the handlers that awaited the refresh.
`renderUsers` replaces every row, so the button a POST belongs to may be gone (`attached`). The server is
abstract: which accounts there are and how many active ban rows each has; how the POST handlers get there is
what `Bans` and `Accounts` are about. Left out: sizes and dates, the other two counts and the warnings (shown
like the count of bans), the text of the sync state, the limit of 250.

### `HostTools.tla`: maintenance, services, health

The handlers that only run host commands. `inbox`, `unsent` and `active` are the host's; `pc[w]`, `op[w]`,
`status[w]`, `rows[w]` a handler's place, request, exit status and Health rows; `result[w]` is the banner or
page shown. One action is one command; `Shell::run` gives status 0, another status or no status (`NoStatus`).
doveadm is external: with status 0 the mailbox is empty at that instant, otherwise any part of it may be left.
A probe's answer is good, bad or none; a line of `postconf` is the set of its access checks with their files,
and `Mentions` compares check and file separately, as `restriction_check` does. `seen`, `wasActive` and `silent`
are history.

### `MC*.tla`

The constants of the runs: requests, targets, initial directories, Postfix configurations and the symmetry
of handlers (used for safety only, never in a run that checks liveness).

### `BansProofs`, `BansCauses`, `PublicationProofs`, `AccountsProofs`, `LoginProofs`, `AuthProofs`, `AdminAppProofs`, `HostToolsProofs`

The theorems, below.

Definitions called a *mutant* in a comment are variants of the definition they precede, with a
plausible error; they are used by no action and show that the properties can fail.

## Runs

| Run | Instance | Checks |
|---|---|---|
| `bans_two_admins` | 2 handlers, 1 address, 2 rows, add/reactivate/delete/unblock/ensure, all disruptions, lapses, restarts of Postfix | `TypeOK`, `UndisturbedSyncPublishes`, `EnforcedAfterReload`, `RequestTookEffect`, `RequestsAdvance` |
| `bans_recovery` | 1 handler, 3 targets, all expiries, all disruptions, lapses, restarts of Postfix, fair | `LaterSyncRepairs`, `ImplementsPublication` |
| `bans_race` | 2 handlers, no disruption | refutes `QuiescentFilesCurrent` |
| `bans_blank_expiry` | 1 handler, no disruption | refutes `ActiveBansWritten` |
| `bans_reload_status` | 1 handler, all exit statuses | refutes `FailedReloadReported` |
| `accounts_all` | 2 handlers, all operations, failures, drops, deliveries, bans that come and go, 1 second | `TypeOK`, `LoneCreateCanLogIn`, `MailLeavesWhole`, `RequestsAdvance` |
| `accounts_toggle` | 2 handlers, disable/enable/delete, the same environment, 2 seconds, fair | `ImplementsLogin`, `CredentialStays`, `DisabledMeansNoPassword`, `DeletedMeansRemoved`, `EveryRequestEnds` |
| `accounts_two_creates` | 2 handlers creating, no failure | refutes `CreatedCanLogIn` |
| `auth` | 2 handlers, 1 key, 2 passwords, limit 2, window 2, expiry 1, clock to 2, 3 admitted attempts, resets, aborts, restarts | `TypeOK`, `WindowBound`, `OverStaysOver`, `LoginNeedsPassword`, `RefusalsJustified`, `OnlyOwnLogoutEnds` |
| `admin_app` | 1 account, 2 filters, 2 lists, 2 dashboards, 2 row actions, 1 form under way, 2 events, fair | `TypeOK`, `RefreshPending`, `GreyedHasPost`, `QuietLoadsAreRight`, `RowsConverge`, `MetricsConverge` |
| `host_tools` | 2 handlers, all requests, 2 messages, 1 unit, 1 further probe, 3 configurations, fair | `TypeOK`, `ClearedMeansGone`, `OkWasTrue`, `SilenceIsShown`, `RequestsAdvance`, `EveryRequestEnds` |
| `host_expunge_banner` | 1 handler expunging 1 message | refutes `ExpungedMeansGone` |

The last column says what each shows; `PROJECT.json` has the sentences and, for the five runs that
refute a property, the line of the repository that promises it.

Bounds, and why they are enough. Two handlers are what a race needs (read-read-write-write on the files,
check-check-act-act on the directory), and the theorems cover any number. Two rows make duplicates and vanishing rows
possible. One target is enough for races on a file, three put every file in play. Two attempts of a removal (eight in
the code) give a first, a last and no middle; the retry that ends the loop is the only one that differs. Two seconds
(`accounts_toggle`) give tombstones with the same and with different names; in `accounts_all` there is one, so that
any two deletes meet, and `MailIsMovedWhole` covers any clock. In `auth`, there is one key, so that
`RefusalsJustified` says there that a refusal has its cause, and only the theorem `RefusedForCause` that the cause
lies with the same key; a limit of two is filled, refused and freed again by the window within the clock's bound, and
a third session exists while another is logged out and a first has expired; the theorems cover every limit, window and
number of handlers. In `admin_app` two loads of each part are what it takes for answers to overtake each other and for
an orphan of one refresh to meet the next; two events (a click, a failure, a key, a change from elsewhere) give a
click that fails, a filter with a failing load, two actions on one row. One account is enough, since rows do not
influence each other but for being rendered together. In `host_tools` two messages give a mailbox that is partly
cleared and one that is filled meanwhile; the configurations are the README's merged into a longer chain, one with a
file left out, and one with files behind other checks. `MaxBans`, `MaxAttempts` and `MaxTime` only bound what is
inserted and how far the clock goes.

Deadlock is checked in every run: an idle handler can always begin a request.

Fairness. `FairSpec` of `Bans`, `Accounts` and `HostTools` assumes weak fairness of each handler's own steps
and nothing else: no fairness of requests, failures, clients or clocks. The code justifies it: SQLite gives up
on a lock after its busy timeout, `Shell::run` kills a command after ten seconds (`src/shell.rs:47`,
`src/chatmail.rs:8`), a file operation on the local disk returns, and tokio polls every woken task.
`AdminApp` assumes that every GET is answered or fails (the handler's own fairness, and a browser that
reports a broken connection) and that the timers fire. The latter is strong fairness only because the model
bounds the loads under way: a timer of the browser fires whether or not the pool of the model has room.
Nothing is assumed of POSTs, clicks or failures; failures are bounded by `MaxEvents`, so that the page is left
in peace in the end, which is when it must converge.

## What the runs found

* Two requests that overlap can leave the policy files wrong until somebody bans or unbans something
  again (`bans_race`).
* The ban form with a blank date stores an expiry that no date is greater than: the ban is shown as
  active and is in no file (`bans_blank_expiry`).
* A reload that exits with a non-zero status is logged as a success and raises no warning
  (`bans_reload_status`); a delete whose pre-ban it was can therefore report full success while a
  delivery makes the account's directory again. So can one whose ban another request lifts meanwhile.
* Two creates of one address can both pass the existence checks, and one of the two admins is told of a
  login that does not work (`accounts_two_creates`).
* An expunge, a quota recalculation or a resync that failed is reported as completed
  (`host_expunge_banner`); only the deletion and the service action look at the status.

Some more were seen while modelling and are covered by no run of their own: Postfix restarted from the Services page
while a sync is amid the files, or after one was cut short there, works with an empty or mixed list until the next
sync. The write of a create whose client has left goes on, and may replace the password of a later create after that
one's auth test; `LoneCreateCanLogIn` therefore counts it as an overlap. A ban whose date passes stays in force until
another request syncs (`Lapse`). A `doveadm` failure that is read as "no such user" lets an account be created over a
disabled one, after which a disable reports success on the sight of `password.blocked` alone. A resync that is killed
after an expunge that worked shows an error and leaves no audit row of what was deleted. `postqueue` and `df` are
shown as ok whatever status they end with. `restriction_check` takes a file that stands behind another check for
wired, as long as the check itself is somewhere on the line; no property is stated of it, since the row is a function
of that one line. A `refreshAll` that was to correct the page after a failed action does nothing while another is
under way; the next poll corrects the row. Loads of the page pile up while the server is slow.

## Proofs

All theorems hold for every value of the constants that satisfies the named assumptions of the
modules: any number of handlers, targets, passwords, requests, attempts.

* `BansProofs!TypeCorrect`: `TypeOK` is inductive as it stands. It contains more than types: ids are
  unique, a busy handler serves a request its step belongs to, only a handler amid a write is detached.
* `BansProofs!SyncPublishes`, `ReloadEnforces`: `UndisturbedSyncPublishes` is not inductive; nothing in
  it says what the holder is about to write. `PublishInv` adds that the holder's snapshot is the rendered
  table, that the file it is filling is empty, and that no other handler stands amid a write as long as
  there is a holder, so that a `Fill` by anybody else is excluded. `ReloadEnforces` adds that what Postfix
  loaded is what the files hold.
* `BansProofs!RequestsTakeEffect`: `AuthorInv` adds that the handler that wrote the table last still finds there
  what its write put or took; with `PublishInv` the files say the same.
* `BansProofs!RequestsOnlyAdvance`, and the theorems of the same name in `LoginProofs` and `HostToolsProofs`: the
  safety half of `EveryRequestEnds`. `AwaitsLeft` is a rank: the awaits a handler has in front of it at most, from
  its step, its place in the loop and the attempts it has used up. Every step of the handler lowers it, and no step
  of anyone else, no failure and no restart touches what it is made of without ending the request. On a Health page
  the rank is the set of probes that have no row yet. With it the liveness property needs nothing but that an await
  ends; the rank is natural (`AwaitsSome`), so a request of `Bans` takes at most fifteen.
* `BansCauses`: each of the three promises of the README that a run of `Bans` refutes holds once the one cause that the
  run shows is taken away, so the runs name all there is to blame. `SerialFilesCurrent`: no overlap and no
  interruption but a restart of Postfix by hand; `SerialInv` says that the only handler holds its sync from the read on
  and that the files may be behind only while it owes them one. `SerialBansWritten`: the same without blank dates. `ReloadFailuresReported`: no
  exit status other than 0, with overlaps, failures and crashes allowed.
* `BansCauses!LaterSyncPutsRight`: `LaterSyncRepairs` is a temporal property, yet a consequence of an invariant: with
  one request at a time and no lapse a handler past its sync is the holder (`HoldsInv`), so whenever a request gets
  there the files are right. With lapses the property is only model-checked, since a date may pass between the read
  and the end of a sync.
* `PublicationProofs!BansImplementPublication`: with one request at a time every action maps to an action of
  `Publication` or a stutter, lapses and restarts of Postfix by hand included. `FilesFollow` is the invariant: the
  files a sync has come past hold what it read, the one it is filling is empty and the files are not `whole`, and past
  its last file they are whole and what it read. `OneTargetChanges` and `WritesOneTarget` show that each statement,
  whatever rows it hits, puts at most one target on its list or takes it off.
* `AccountsProofs!TypeCorrect`: the types with the bound on removal attempts.
* `AccountsProofs!CredentialKept`, `DisableIsHonest`: under `NoCreation` (no create requests, no account
  that starts with both files). The strengthening is `NotBoth`: a rename that finds its source finds no
  target, so it overwrites nothing. Without `NoCreation` both are false, which is what
  `accounts_two_creates` is about.
* `LoginProofs!AccountsImplementLogin`: under `NoCreation`, with the invariant of `AccountsProofs`, every
  action maps to an action of `Login` or a stutter; `NotBoth` is what makes a rename a `Lock` or an `Unlock`.
* `LoginProofs!LoneCreateIsHonest`: a handler that nothing overlapped is the only one busy, and no operation is left
  over from another, so what its own steps established about the password still holds at the next; only deliveries
  move, and they keep the file.
* `LoginProofs!MailIsMovedWhole`: from the types; only two steps end without the directory, the rename of a
  delete and the roll-back of a create, and the latter finds it empty. `DeleteIsHonest`: `Unreported` adds that
  a handler that has not finished has reported nothing, so that the report is the last removal's own.
* `AuthProofs!LimiterBound`, `AuthUsesLimiter`, `LoginsBounded`: `WindowBound` speaks of windows that ended
  long ago as well as of those that end now. `LimiterInv` adds that the limiter still keeps every attempt
  younger than a window, so that when it has room for one more, every window that the new attempt falls into
  has room. `Auth` is shown to implement `LimiterSpec`, so its bound carries over.
* `AuthProofs!RefusedForCause`: the limiter keeps nothing but recent attempts either.
* `AuthProofs!TypeCorrect`, `OverIsOver`, `OnlyLogoutEnds`, `LoginIsEarned`: `HandlerInv` says what is known
  at each step; the point is that a request sent late names an id that was given earlier, so that no later
  insertion can make it valid, and that what a logout deletes is the session its own cookie named.
* `AdminAppProofs!RefreshIsOnTheWay`: `RefreshPending` is inductive given the types: a refresh starts with one
  request for each part, an answer that settles it takes the other part's claim away (`Orphan`).
  `NoDeadButton`: given the types; a rendering greys nothing and detaches every POST, an end of a POST enables
  only a button that is still its own.
* `AdminAppProofs!QuietLoadsRight`: the safety half of `RowsConverge` and `MetricsConverge`. `MisledLists` are the loads
  that would show other rows than the server's: sent with another query, holding an older reading of the bans, or
  answered with other rows. In a step that leaves the server alone, with nothing failing and nobody typing, each load
  goes on in one of five ways (`ListGoesOn`), none of which misleads; so the misled ones can only drain, each is
  shown once, and whatever else the page takes is right. The convergence itself adds that the loads move.
* `HostToolsProofs!ClearIsHonest`: the strengthening says that what was seen is not still to be delivered and
  that a status of 0 after the deletion or the expunge means it has gone. `OkIsHonest`, `SilenceShows`:
  the page so far has what it claims.

Only model-checked: liveness under fairness (`EveryRequestEnds`, `RowsConverge`, `MetricsConverge`, and
`LaterSyncRepairs` with lapses), which is out of the prover's reach since it needs ENABLED; what these rest on besides
fairness is stated as `RequestsAdvance` and `QuietLoadsAreRight` and proved. Every other property of a passing run
is stated by a theorem. Of the five refuted properties three are proved without their causes (`BansCauses`); that a
lone create is honest is `LoneCreateIsHonest`; for `ExpungedMeansGone` there is no more to say than that the exit
status is not looked at.

## Not modelled

Parsing and formatting (configuration, templates, TOML, log classification), what DNS, TLS and TCP probes look
at, the listing commands beyond the accounts they list, password hashing as such, cookie encryption, the log
pages, the installer scripts: input and output without state of the program. The text order of time stamps,
by which a dated ban outlasts its time until the end of its day. Lines of a policy file that are cut in the middle: a
file is empty, complete, or holds whole lines of two texts. The modules that are not compiled.

## Plan

1. Done: `Bans`, `Accounts`, `LoginLimiter`, `Auth`, their runs and theorems.
2. Done: `Login` and the refinement; `AdminApp`; `HostTools`; their runs and theorems.
3. Done: `Publication` and its refinement; the rank of every request; the causes behind the refuted promises; the quiet
   steps of the control page.
4. Done: restarts of Postfix by hand in `Bans` and `Publication`; file operations that outlive their handler, torn
   password files and bans that are lifted in `Accounts` and `Login`.
5. Open: an abstract session store (a session counts from its login to its logout or expiry, and a request is
   accepted or refused at one instant) that `Auth` implements, statement by statement. Nothing more is planned for
   overlapping syncs: the files may then hold remnants of lines (`Leftovers` keeps whole lines only), so there is no
   promise to state.
