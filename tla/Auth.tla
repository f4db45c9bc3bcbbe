-------------------------------- MODULE Auth --------------------------------
(***************************************************************************)
(* Admins, their sessions and the requests made with them (src/auth.rs).   *)
(* A login passes the limiter, looks the admin up, inserts a session and   *)
(* answers with its id in a cookie.  Every other request is let in by      *)
(* require_admin, three statements one after the other, and then acts on   *)
(* what the first of them has read.  In between, the session may expire or *)
(* be logged out in another tab, and the password reset from the console.  *)
(***************************************************************************)
EXTENDS LoginLimiter

CONSTANTS
    Workers,      \* request handlers that may run at the same time
    Users,        \* names of admins
    Passwords,
    TTL,          \* session_ttl_hours, in ticks of the clock
    Disruptions,  \* which of "abort", "restart", "reset" happen
    MaxTime,      \* bound: the last instant of the clock
    MaxAttempts,  \* bound: attempts ever admitted
    Nobody

ASSUME KeysAssumption == \A key \in Keys : key.user \in Users
ASSUME NobodyAssumption == Nobody \notin Passwords
ASSUME TTLAssumption == TTL \in Nat

Request ==
         [op : {"login"}, key : Keys, password : Passwords]
    \cup [op : {"logout", "act", "foreign"}, cookie : Nat]

VARIABLES
    admins,    \* the password each admin's hash is of, or Nobody
    sessions,  \* the rows of table sessions
    lastId,    \* the ids given so far; Uuid::new_v4 gives none twice
    issued,    \* the ids that reached a browser in a cookie
    pc, req,
    current,   \* the session a handler has read or inserted
    result,
    late,      \* history: the request's session was over before the request began
    knew       \* history: the login's password was right at some time since it began

tables == <<admins, sessions, lastId, issued>>
local  == <<pc, req, current, result, late, knew>>
vars   == <<limiterVars, tables, local>>

Session == [id : Nat, user : Users, expires : Nat]

\* expires_at > CURRENT_TIMESTAMP compares texts, and the expiry, a reading of a clock
\* of nanoseconds, ends in a fraction: it is the greater text during its second too.
Valid(s) == clock <= s.expires

Find(id) == {s \in sessions : s.id = id}

Init ==
    /\ LimiterInit
    /\ admins \in [Users -> Passwords \cup {Nobody}]
    /\ sessions = {} /\ lastId = 0 /\ issued = {}
    /\ pc = [w \in Workers |-> "idle"]
    /\ req = [w \in Workers |-> Nobody]
    /\ current = [w \in Workers |-> Nobody]
    /\ result = [w \in Workers |-> "none"]
    /\ late = [w \in Workers |-> FALSE]
    /\ knew = [w \in Workers |-> FALSE]

-----------------------------------------------------------------------------

Goto(w, step) ==
    /\ pc' = [pc EXCEPT ![w] = step]
    /\ UNCHANGED <<req, current, result, late, knew>>

Finish(w, outcome) ==
    /\ pc' = [pc EXCEPT ![w] = "done"]
    /\ result' = [result EXCEPT ![w] = outcome]
    /\ UNCHANGED <<req, current, late, knew>>

Reset(w) ==
    /\ pc' = [pc EXCEPT ![w] = "idle"]
    /\ req' = [req EXCEPT ![w] = Nobody]
    /\ current' = [current EXCEPT ![w] = Nobody]
    /\ result' = [result EXCEPT ![w] = "none"]
    /\ late' = [late EXCEPT ![w] = FALSE]
    /\ knew' = [knew EXCEPT ![w] = FALSE]

\* A login whose form carries the token of the login page.
BeginLogin(w) ==
    /\ pc[w] = "idle"
    /\ \E key \in Keys, password \in Passwords :
        /\ req' = [req EXCEPT ![w] = [op |-> "login", key |-> key, password |-> password]]
        /\ knew' = [knew EXCEPT ![w] = (admins[key.user] = password)]
    /\ pc' = [pc EXCEPT ![w] = "limit"]
    /\ UNCHANGED <<limiterVars, tables, current, result, late>>

\* A request with a session cookie: a logout, any other, or ("foreign") a form whose
\* page was of another session of the browser, so that its csrf_token is not this one's.
BeginRequest(w) ==
    /\ pc[w] = "idle"
    /\ \E op \in {"logout", "act", "foreign"}, id \in issued :
        /\ req' = [req EXCEPT ![w] = [op |-> op, cookie |-> id]]
        /\ late' = [late EXCEPT ![w] = ~\E s \in Find(id) : Valid(s)]
    /\ pc' = [pc EXCEPT ![w] = "session"]
    /\ UNCHANGED <<limiterVars, tables, current, result, knew>>

-----------------------------------------------------------------------------
(* authenticate *)

CheckLimit(w) ==
    /\ pc[w] = "limit"
    /\ \/ taken < MaxAttempts /\ Admit(req[w].key) /\ Goto(w, "lookup")
       \/ Refuse(req[w].key) /\ Finish(w, "limited")
    /\ UNCHANGED tables

\* Mutant of Lookup: the admin is looked up and the password is not verified.
LookupOnly(w) ==
    /\ pc[w] = "lookup"
    /\ IF admins[req[w].key.user] # Nobody
       THEN Goto(w, "insert") ELSE Finish(w, "unauthorized")
    /\ UNCHANGED <<limiterVars, tables>>

\* The SELECT and verify_password, which awaits nothing.  The audit row of a failed
\* login changes nothing here.
Lookup(w) ==
    /\ pc[w] = "lookup"
    /\ IF admins[req[w].key.user] = req[w].password
       THEN Goto(w, "insert") ELSE Finish(w, "unauthorized")
    /\ UNCHANGED <<limiterVars, tables>>

\* Mutant of InsertSession: an id that another session may have.
InsertSameId(w) ==
    /\ pc[w] = "insert"
    /\ LET s == [id |-> 1, user |-> req[w].key.user, expires |-> clock + TTL]
       IN  /\ sessions' = sessions \cup {s}
           /\ current' = [current EXCEPT ![w] = s]
    /\ lastId' = lastId + 1
    /\ pc' = [pc EXCEPT ![w] = "log_login"]
    /\ UNCHANGED <<limiterVars, admins, issued, req, result, late, knew>>

InsertSession(w) ==
    /\ pc[w] = "insert"
    /\ LET s == [id |-> lastId + 1, user |-> req[w].key.user, expires |-> clock + TTL]
       IN  /\ sessions' = sessions \cup {s}
           /\ current' = [current EXCEPT ![w] = s]
    /\ lastId' = lastId + 1
    /\ pc' = [pc EXCEPT ![w] = "log_login"]
    /\ UNCHANGED <<limiterVars, admins, issued, req, result, late, knew>>

\* last_login_at and the audit row, then the answer with the cookie.
LogLogin(w) ==
    /\ pc[w] = "log_login"
    /\ issued' = issued \cup {current[w].id}
    /\ Finish(w, "logged_in")
    /\ UNCHANGED <<limiterVars, admins, sessions, lastId>>

-----------------------------------------------------------------------------
(* require_admin, validate_csrf, and what the request is for *)

SelectSession(w) ==
    /\ pc[w] = "session"
    /\ \/ \E s \in Find(req[w].cookie) :
            /\ Valid(s)
            /\ current' = [current EXCEPT ![w] = s]
            /\ pc' = [pc EXCEPT ![w] = "seen"]
            /\ UNCHANGED <<req, result, late, knew>>
       \/ ~(\E s \in Find(req[w].cookie) : Valid(s)) /\ Finish(w, "unauthorized")
    /\ UNCHANGED <<limiterVars, tables>>

AfterAdmin(w) ==
    CASE req[w].op = "logout"  -> Goto(w, "delete")
      [] req[w].op = "act"     -> Finish(w, "acted")
      [] req[w].op = "foreign" -> Finish(w, "forbidden")

\* Mutant of MarkSeen: the statement puts the row back when it has gone.
MarkSeenAnew(w) ==
    /\ pc[w] = "seen"
    /\ sessions' = sessions \cup {current[w]}
    /\ AfterAdmin(w)
    /\ UNCHANGED <<limiterVars, admins, lastId, issued>>

\* The admin's row, which no statement ever deletes, and the UPDATE of last_seen_at, of
\* no row when the session has gone; then validate_csrf compares the form's token with
\* that of the session read before, and the request does what it is for.
MarkSeen(w) ==
    /\ pc[w] = "seen"
    /\ AfterAdmin(w)
    /\ UNCHANGED <<limiterVars, tables>>

\* Mutant of DeleteSession: all sessions of the admin go.
DeleteByAdmin(w) ==
    /\ pc[w] = "delete"
    /\ sessions' = {s \in sessions : s.user # current[w].user}
    /\ Finish(w, "logged_out")
    /\ UNCHANGED <<limiterVars, admins, lastId, issued>>

DeleteSession(w) ==
    /\ pc[w] = "delete"
    /\ sessions' = sessions \ Find(current[w].id)
    /\ Finish(w, "logged_out")
    /\ UNCHANGED <<limiterVars, admins, lastId, issued>>

Respond(w) ==
    /\ pc[w] = "done"
    /\ Reset(w)
    /\ UNCHANGED <<limiterVars, tables>>

-----------------------------------------------------------------------------
(* The console, the clock, and what goes wrong *)

\* chatmail-control admin create / reset-password: one upsert, in another process.
UpsertAdmin ==
    /\ "reset" \in Disruptions
    /\ \E user \in Users, password \in Passwords :
        /\ admins' = [admins EXCEPT ![user] = password]
        /\ knew' = [w \in Workers |->
              knew[w] \/ (/\ pc[w] # "idle" /\ req[w].op = "login"
                          /\ req[w].key.user = user /\ req[w].password = password)]
    /\ UNCHANGED <<limiterVars, sessions, lastId, issued, pc, req, current, result, late>>

Advance ==
    /\ clock < MaxTime
    /\ Tick
    /\ UNCHANGED <<tables, local>>

\* An error leaves the handler by `?`, or its client has gone: what it has written
\* stays, a session that no cookie names included.
Abort(w) ==
    /\ "abort" \in Disruptions
    /\ pc[w] # "idle"
    /\ Reset(w)
    /\ UNCHANGED <<limiterVars, tables>>

\* Sessions survive in SQLite, the limiter and the handlers do not.
Restart ==
    /\ "restart" \in Disruptions
    /\ Forget
    /\ pc' = [w \in Workers |-> "idle"]
    /\ req' = [w \in Workers |-> Nobody]
    /\ current' = [w \in Workers |-> Nobody]
    /\ result' = [w \in Workers |-> "none"]
    /\ late' = [w \in Workers |-> FALSE]
    /\ knew' = [w \in Workers |-> FALSE]
    /\ UNCHANGED tables

Step(w) ==
    \/ CheckLimit(w) \/ Lookup(w) \/ InsertSession(w) \/ LogLogin(w)
    \/ SelectSession(w) \/ MarkSeen(w) \/ DeleteSession(w) \/ Respond(w)

Next ==
    \/ \E w \in Workers : BeginLogin(w) \/ BeginRequest(w) \/ Step(w) \/ Abort(w)
    \/ UpsertAdmin \/ Advance \/ Restart

Spec == Init /\ [][Next]_vars

-----------------------------------------------------------------------------
(* Properties *)

Steps == {"idle", "limit", "lookup", "insert", "log_login", "session", "seen", "delete", "done"}

Results == {"none", "limited", "unauthorized", "forbidden", "logged_in", "acted", "logged_out"}

StepsOf(op) ==
    {"done"} \cup
        CASE op = "login"  -> {"limit", "lookup", "insert", "log_login"}
          [] op = "logout" -> {"session", "seen", "delete"}
          [] OTHER         -> {"session", "seen"}

LimiterTypeOK ==
    /\ clock \in Nat /\ taken \in Nat
    /\ entries \in [Keys -> SUBSET Attempt]
    /\ admitted \in [Keys -> SUBSET Attempt]

TablesOK ==
    /\ admins \in [Users -> Passwords \cup {Nobody}]
    /\ sessions \subseteq Session /\ lastId \in Nat /\ issued \subseteq 1..lastId
    /\ \A s \in sessions : s.id <= lastId
    /\ \A s, t \in sessions : s.id = t.id => s = t

HandlersOK ==
    /\ pc \in [Workers -> Steps]
    /\ req \in [Workers -> Request \cup {Nobody}]
    /\ \A w \in Workers : pc[w] # "idle" => req[w] \in Request /\ pc[w] \in StepsOf(req[w].op)
    /\ current \in [Workers -> Session \cup {Nobody}]
    /\ result \in [Workers -> Results]
    /\ late \in [Workers -> BOOLEAN] /\ knew \in [Workers -> BOOLEAN]

\* Every variable has its type, a busy handler stands at a step of its own request,
\* and ids of sessions are given once.
TypeOK == LimiterTypeOK /\ TablesOK /\ HandlersOK

\* An attempt is refused only while the limit was really used up within the last ten
\* minutes: refused attempts do not count, so a client that waits is let in again,
\* and one key's attempts are not charged to another (LoginRateLimiter::check).
RefusalsJustified ==
    [][\A w \in Workers : pc[w] = "limit" /\ result'[w] = "limited" =>
            Cardinality(Recent(req[w].key)) >= Limit]_vars

LetIn(w) ==
    \/ pc[w] \in {"seen", "delete"}
    \/ result[w] \in {"forbidden", "acted", "logged_out"}

\* A request that was sent after its session had been logged out or had expired is
\* never let in, whatever other requests of the same session are doing meanwhile
\* (require_admin).
OverStaysOver == \A w \in Workers : late[w] => ~LetIn(w)

\* A session in the table ends by a logout that was made with its own cookie, and a
\* session that is gone never comes back: no statement of another request, on what
\* it had read before, removes or restores a row (require_admin, logout).
OnlyOwnLogoutEnds ==
    [][/\ \A s \in sessions : s \notin sessions' =>
             \E w \in Workers : pc[w] = "delete" /\ req[w].cookie = s.id
       /\ \A s \in sessions' : s \notin sessions => s.id > lastId]_vars

\* A session is opened only for a password that was the admin's at some time since
\* the login began, however a reset from the console falls between its statements
\* (authenticate, upsert_admin).
LoginNeedsPassword ==
    \A w \in Workers : pc[w] \in {"insert", "log_login"} \/ result[w] = "logged_in" => knew[w]
=============================================================================
