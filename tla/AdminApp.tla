------------------------------ MODULE AdminApp ------------------------------
(***************************************************************************)
(* The control page (static/admin-app.js) and the handlers it calls        *)
(* (src/routes/api.rs).  The page shows the list of accounts and two       *)
(* counts.  Two timers, the Refresh button and the filter load them again  *)
(* and again; every load is a request of its own, nothing orders their     *)
(* answers, and each handler reads the host more than once on its way.  A  *)
(* click changes the row first and asks the server afterwards.             *)
(***************************************************************************)
EXTENDS Naturals, FiniteSetsExt

CONSTANTS
    Users,      \* addresses
    Queries,    \* what the filter field may hold
    Matches,    \* the addresses that contain each query
    NoFilter,   \* the empty query
    Lists,      \* bound: GET /users under way at the same time
    Dashes,     \* bound: GET /dashboard under way at the same time
    Posts,      \* bound: POSTs of row buttons under way at the same time
    MaxBans,    \* bound: active ban rows of one address
    MaxEvents,  \* bound: clicks, filters, changes from elsewhere, and what fails
    None        \* no count is shown yet

ASSUME FilterAssumption ==
    NoFilter \in Queries /\ Matches \in [Queries -> SUBSET Users] /\ Matches[NoFilter] = Users
ASSUME BoundsAssumption == MaxBans \in Nat \ {0} /\ MaxEvents \in Nat
ASSUME PoolsAssumption == Lists # {} /\ Dashes # {}

VARIABLES
    accounts,   \* server: the addresses doveadm lists
    bans,       \* server: the number of active ban rows of each address
    rows,       \* page: the status each listed address is shown with
    greyed,     \* page: the rows whose button is disabled
    metrics,    \* page: the number of active bans, or None before the first answer
    filter,     \* page: what the filter field holds
    typing,     \* page: the timer that waits for the typing to pause
    usersQuery, \* page: the query the loads use
    inFlight,   \* page: refreshAll is under way
    awaited,    \* page: the parts of Promise.all that are not there yet
    lists,      \* the GET /users under way
    dashes,     \* the GET /dashboard under way
    posts,      \* the POSTs of row buttons under way
    creating,   \* the POST of the form under way
    events

server == <<accounts, bans>>
page   == <<rows, greyed, metrics, filter, typing, usersQuery>>
sync   == <<inFlight, awaited>>
loads  == <<lists, dashes>>
calls  == <<posts, creating>>
vars   == <<server, page, sync, loads, calls, events>>

Statuses == {"active", "blocked"}

\* active_values, what list_users marks, and the count of the dashboard.
Blocked == {u \in Users : bans[u] > 0}
Total(rowsOf) == MapThenSumSet(LAMBDA u : rowsOf[u], Users)
ActiveBans == Total(bans)
Listing(users, blocked) ==
    [u \in users |-> IF u \in blocked THEN "blocked" ELSE "active"]

Event == events < MaxEvents /\ events' = events + 1

NoLoad == [stage |-> "free", refresh |-> FALSE]
NoCall == [stage |-> "free"]
Free(pool) == {i \in DOMAIN pool : pool[i].stage = "free"}
HasRoom(pool) == Free(pool) # {}
\* Which slot holds a request makes no difference.
Send(pool, request) == [pool EXCEPT ![CHOOSE i \in Free(pool) : TRUE] = request]

\* Mutant of ListRequest: the filter is left out of the URL.
UnfilteredRequest(refresh) == [stage |-> "sent", refresh |-> refresh, query |-> NoFilter]

ListRequest(refresh) == [stage |-> "sent", refresh |-> refresh, query |-> usersQuery]

DashRequest == [stage |-> "sent", refresh |-> TRUE]

\* The page as the script leaves it: its timers run and a first refresh is under way.
Init ==
    /\ accounts \in SUBSET Users /\ bans \in [Users -> 0..MaxBans]
    /\ rows = [u \in {} |-> "active"] /\ greyed = {} /\ metrics = None
    /\ filter = NoFilter /\ typing = FALSE /\ usersQuery = NoFilter
    /\ inFlight = TRUE /\ awaited = {"users", "dashboard"}
    /\ lists = Send([i \in Lists |-> NoLoad], ListRequest(TRUE))
    /\ dashes = Send([i \in Dashes |-> NoLoad], DashRequest)
    /\ posts = [p \in Posts |-> NoCall]
    /\ creating = NoCall
    /\ events = 0

-----------------------------------------------------------------------------
(* Loading *)

\* setInterval(loadUsers, 5000): fires whatever else is under way.
PollUsers ==
    /\ HasRoom(lists) /\ lists' = Send(lists, ListRequest(FALSE))
    /\ UNCHANGED <<server, page, sync, dashes, calls, events>>

FilterInput ==
    /\ \E q \in Queries \ {filter} : filter' = q
    /\ typing' = TRUE
    /\ Event
    /\ UNCHANGED <<server, rows, greyed, metrics, usersQuery, sync, loads, calls>>

\* Mutant of FilterPause: the query is put together before the field is read.
FilterPauseStale ==
    /\ typing
    /\ typing' = FALSE
    /\ HasRoom(lists) /\ lists' = Send(lists, ListRequest(FALSE))
    /\ UNCHANGED <<server, rows, greyed, metrics, filter, usersQuery, sync, dashes, calls, events>>

\* 250 ms without a keystroke: the query changes and a load goes out.
FilterPause ==
    /\ typing
    /\ typing' = FALSE
    /\ usersQuery' = filter
    /\ HasRoom(lists) /\ lists' = Send(lists, [ListRequest(FALSE) EXCEPT !.query = filter])
    /\ UNCHANGED <<server, rows, greyed, metrics, filter, sync, dashes, calls, events>>

\* The part of refreshAll behind its early return.
SendRefresh ==
    /\ inFlight' = TRUE /\ awaited' = {"users", "dashboard"}
    /\ HasRoom(lists) /\ lists' = Send(lists, ListRequest(TRUE))
    /\ HasRoom(dashes) /\ dashes' = Send(dashes, DashRequest)

\* refreshAll, from the Refresh button or from setInterval(refreshAll, 15000).
Refresh ==
    /\ ~inFlight
    /\ SendRefresh
    /\ UNCHANGED <<server, rows, greyed, metrics, filter, typing, usersQuery, calls, events>>

-----------------------------------------------------------------------------
(* users_list and dashboard, on the server *)

ListReadsBans(i) ==
    /\ lists[i].stage = "sent"
    /\ lists' = [lists EXCEPT ![i] = [stage |-> "read", refresh |-> lists[i].refresh,
                                      query |-> lists[i].query, blocked |-> Blocked]]
    /\ UNCHANGED <<server, page, sync, dashes, calls, events>>

Answered(i, answer) ==
    lists' = [lists EXCEPT ![i] =
                 [stage |-> "answered", refresh |-> lists[i].refresh, rows |-> answer]]

\* The bans were read before; a doveadm that fails yields an empty list, not an error.
ListReadsUsers(i) ==
    /\ lists[i].stage = "read"
    /\ \/ /\ Answered(i, Listing(accounts \cap Matches[lists[i].query], lists[i].blocked))
          /\ UNCHANGED events
       \/ Answered(i, Listing({}, {})) /\ Event
    /\ UNCHANGED <<server, page, sync, dashes, calls>>

\* The session has ended, the server errs, or the connection breaks: at which point is all one.
ListFails(i) ==
    /\ lists[i].stage = "sent"
    /\ lists' = [lists EXCEPT ![i] = [stage |-> "failed", refresh |-> lists[i].refresh]]
    /\ Event
    /\ UNCHANGED <<server, page, sync, dashes, calls>>

\* The number of users and the queue are shown in the same way and left out.
DashCountsBans(i) ==
    /\ dashes[i].stage = "sent"
    /\ dashes' = [dashes EXCEPT ![i] = [stage |-> "answered", refresh |-> dashes[i].refresh,
                                        bans |-> ActiveBans]]
    /\ UNCHANGED <<server, page, sync, lists, calls, events>>

DashFails(i) ==
    /\ dashes[i].stage = "sent"
    /\ dashes' = [dashes EXCEPT ![i] = [stage |-> "failed", refresh |-> dashes[i].refresh]]
    /\ Event
    /\ UNCHANGED <<server, page, sync, lists, calls>>

-----------------------------------------------------------------------------
(* What the page does with the answers *)

Waits(call) == call.stage = "refreshing"

\* Whoever awaits the refresh goes on in the same turn of the event loop.
Resume(calledPosts, greyedRows) ==
    /\ posts' = [p \in Posts |-> IF Waits(calledPosts[p]) THEN NoCall ELSE calledPosts[p]]
    /\ greyed' = greyedRows \ {calledPosts[p].user : p \in
                       {q \in Posts : Waits(calledPosts[q]) /\ calledPosts[q].attached}}
    /\ creating' = IF Waits(creating) THEN NoCall ELSE creating

\* Mutant of Settle: inFlight is reset behind the try block instead of in `finally`.
SettleWithoutFinally(ok, calledPosts, greyedRows) ==
    /\ inFlight' = ~ok
    /\ awaited' = {}
    /\ Resume(calledPosts, greyedRows)

Settle(ok, calledPosts, greyedRows) ==
    /\ inFlight' = FALSE /\ awaited' = {}
    /\ Resume(calledPosts, greyedRows)

\* A part of the refresh has come: the last one settles it.
PartArrives(part, calledPosts, greyedRows) ==
    IF awaited = {part} THEN Settle(TRUE, calledPosts, greyedRows)
    ELSE /\ awaited' = awaited \ {part}
         /\ posts' = calledPosts /\ greyed' = greyedRows
         /\ UNCHANGED <<inFlight, creating>>

\* Promise.all gave up: the answer of the other part is still shown, for no one.
Orphan(pool) == [i \in DOMAIN pool |-> [pool[i] EXCEPT !.refresh = FALSE]]

\* renderUsers replaces every row, so a POST under way has lost its button.
Detached(users) ==
    [p \in Posts |-> IF posts[p].stage # "free" /\ posts[p].user \in users
                      THEN [posts[p] EXCEPT !.attached = FALSE] ELSE posts[p]]

ListArrives(i) ==
    /\ lists[i].stage = "answered"
    /\ lists' = [lists EXCEPT ![i] = NoLoad]
    /\ rows' = lists[i].rows
    /\ IF lists[i].refresh THEN PartArrives("users", Detached(Users), {})
       ELSE /\ posts' = Detached(Users) /\ greyed' = {}
            /\ UNCHANGED <<inFlight, awaited, creating>>
    /\ UNCHANGED <<server, metrics, filter, typing, usersQuery, dashes, events>>

ListRejects(i) ==
    /\ lists[i].stage = "failed"
    /\ lists' = [lists EXCEPT ![i] = NoLoad]
    /\ IF lists[i].refresh
       THEN Settle(FALSE, posts, greyed) /\ dashes' = Orphan(dashes)
       ELSE UNCHANGED <<dashes, posts, greyed, creating, sync>>
    /\ UNCHANGED <<server, rows, metrics, filter, typing, usersQuery, events>>

DashArrives(i) ==
    /\ dashes[i].stage = "answered"
    /\ dashes' = [dashes EXCEPT ![i] = NoLoad]
    /\ metrics' = dashes[i].bans
    /\ IF dashes[i].refresh THEN PartArrives("dashboard", posts, greyed)
       ELSE UNCHANGED <<posts, greyed, creating, sync>>
    /\ UNCHANGED <<server, rows, filter, typing, usersQuery, lists, events>>

\* Mutant of DashRejects: the load of the rows goes on counting for whatever refresh is next.
DashRejectsAlone(i) ==
    /\ dashes[i].stage = "failed"
    /\ dashes' = [dashes EXCEPT ![i] = NoLoad]
    /\ IF dashes[i].refresh THEN Settle(FALSE, posts, greyed)
       ELSE UNCHANGED <<posts, greyed, creating, sync>>
    /\ UNCHANGED <<server, rows, metrics, filter, typing, usersQuery, lists, events>>

DashRejects(i) ==
    /\ dashes[i].stage = "failed"
    /\ dashes' = [dashes EXCEPT ![i] = NoLoad]
    /\ IF dashes[i].refresh
       THEN Settle(FALSE, posts, greyed) /\ lists' = Orphan(lists)
       ELSE UNCHANGED <<lists, posts, greyed, creating, sync>>
    /\ UNCHANGED <<server, rows, metrics, filter, typing, usersQuery, events>>

-----------------------------------------------------------------------------
(* The buttons of a row: the page changes first *)

Toggle(status) == IF status = "blocked" THEN "active" ELSE "blocked"

\* One button toggles; it is disabled until its POST has ended.
ClickToggle(u) ==
    /\ u \in DOMAIN rows \ greyed
    /\ HasRoom(posts)
    /\ posts' = Send(posts, [user |-> u, stage |-> "sent", attached |-> TRUE,
                             op |-> IF rows[u] = "blocked" THEN "unblock" ELSE "block"])
    /\ rows' = [rows EXCEPT ![u] = Toggle(rows[u])]
    /\ greyed' = greyed \cup {u}
    /\ Event
    /\ UNCHANGED <<server, metrics, filter, typing, usersQuery, sync, loads, creating>>

\* The row goes, and with it a toggle that was under way.
ClickDelete(u) ==
    /\ u \in DOMAIN rows
    /\ HasRoom(posts)
    /\ posts' = Send(Detached({u}), [user |-> u, stage |-> "sent", attached |-> FALSE,
                                     op |-> "delete"])
    /\ rows' = [v \in DOMAIN rows \ {u} |-> rows[v]]
    /\ greyed' = greyed \ {u}
    /\ Event
    /\ UNCHANGED <<server, metrics, filter, typing, usersQuery, sync, loads, creating>>

\* add leaves a row more, ensure_active_address_ban one or more.
Ban(u) == \E n \in 1..MaxBans : n >= bans[u] /\ bans' = [bans EXCEPT ![u] = n]

\* A delete goes on, and may report success, when the ban before it has failed.
Applied(call) ==
    CASE call.op = "block"   -> Ban(call.user) /\ UNCHANGED accounts
      [] call.op = "unblock" -> bans' = [bans EXCEPT ![call.user] = 0] /\ UNCHANGED accounts
      [] call.op = "delete"  -> (Ban(call.user) \/ bans' = bans) /\ accounts' = accounts \ {call.user}

\* A request that fails may have done nothing, banned without deleting, or everything.
ServePost(p) ==
    /\ posts[p].stage = "sent"
    /\ \/ /\ Applied(posts[p])
          /\ posts' = [posts EXCEPT ![p].stage = "ok"]
          /\ UNCHANGED events
       \/ /\ \/ UNCHANGED server
             \/ posts[p].op = "delete" /\ Ban(posts[p].user) /\ UNCHANGED accounts
             \/ Applied(posts[p])
          /\ posts' = [posts EXCEPT ![p].stage = "failed"]
          /\ Event
    /\ UNCHANGED <<page, sync, loads, creating>>

FinishPost(p) ==
    /\ posts' = [posts EXCEPT ![p] = NoCall]
    /\ greyed' = IF posts[p].attached THEN greyed \ {posts[p].user} ELSE greyed

PostArrives(p) ==
    /\ posts[p].stage = "ok"
    /\ FinishPost(p)
    /\ UNCHANGED <<server, rows, metrics, filter, typing, usersQuery, sync, loads, creating, events>>

\* Mutant of PostRejects: the button is enabled in `try` instead of in `finally`.
PostRejectsDisabled(p) ==
    /\ posts[p].stage = "failed"
    /\ \/ inFlight
          /\ posts' = [posts EXCEPT ![p] = NoCall]
          /\ UNCHANGED <<greyed, sync, loads>>
       \/ ~inFlight /\ SendRefresh
          /\ posts' = [posts EXCEPT ![p].stage = "refreshing"]
          /\ UNCHANGED greyed
    /\ UNCHANGED <<server, rows, metrics, filter, typing, usersQuery, creating, events>>

\* A refresh that is under way already may have read the host before the action.
PostRejects(p) ==
    /\ posts[p].stage = "failed"
    /\ \/ inFlight /\ FinishPost(p)
          /\ UNCHANGED <<sync, loads>>
       \/ ~inFlight /\ SendRefresh
          /\ posts' = [posts EXCEPT ![p].stage = "refreshing"]
          /\ UNCHANGED greyed
    /\ UNCHANGED <<server, rows, metrics, filter, typing, usersQuery, creating, events>>

-----------------------------------------------------------------------------
(* The form for a new account *)

SubmitCreate ==
    /\ creating.stage = "free"
    /\ \E u \in Users : creating' = [user |-> u, stage |-> "sent"]
    /\ Event
    /\ UNCHANGED <<server, rows, greyed, metrics, filter, typing, usersQuery, sync, loads, posts>>

\* An account that exists is refused.
ServeCreate ==
    /\ creating.stage = "sent"
    /\ \/ /\ creating.user \notin accounts
          /\ accounts' = accounts \cup {creating.user}
          /\ creating' = [creating EXCEPT !.stage = "ok"] /\ UNCHANGED events
       \/ /\ creating.user \in accounts /\ UNCHANGED <<accounts, events>>
          /\ creating' = [creating EXCEPT !.stage = "failed"]
       \/ /\ \/ UNCHANGED accounts \/ accounts' = accounts \cup {creating.user}
          /\ creating' = [creating EXCEPT !.stage = "failed"] /\ Event
    /\ UNCHANGED <<bans, page, sync, loads, posts>>

CreateArrives ==
    /\ creating.stage = "ok"
    /\ \/ inFlight /\ creating' = NoCall /\ UNCHANGED <<sync, loads>>
       \/ ~inFlight /\ SendRefresh
          /\ creating' = [creating EXCEPT !.stage = "refreshing"]
    /\ UNCHANGED <<server, rows, greyed, metrics, filter, typing, usersQuery, posts, events>>

CreateRejects ==
    /\ creating.stage = "failed"
    /\ creating' = NoCall
    /\ UNCHANGED <<server, rows, greyed, metrics, filter, typing, usersQuery, sync, loads, posts, events>>

\* Another administrator, the console, a client of the mail server.
Elsewhere ==
    /\ accounts' \in SUBSET Users /\ bans' \in [Users -> 0..MaxBans]
    /\ Event
    /\ UNCHANGED <<page, sync, loads, calls>>

ServerStep ==
    \/ \E i \in Lists : ListReadsBans(i) \/ ListReadsUsers(i) \/ ListFails(i)
    \/ \E i \in Dashes : DashCountsBans(i) \/ DashFails(i)
    \/ \E p \in Posts : ServePost(p)
    \/ ServeCreate
    \/ Elsewhere

PageStep ==
    \/ PollUsers \/ FilterInput \/ FilterPause \/ Refresh
    \/ \E i \in Lists : ListArrives(i) \/ ListRejects(i)
    \/ \E i \in Dashes : DashArrives(i) \/ DashRejects(i)
    \/ \E u \in Users : ClickToggle(u) \/ ClickDelete(u)
    \/ \E p \in Posts : PostArrives(p) \/ PostRejects(p)
    \/ SubmitCreate \/ CreateArrives \/ CreateRejects

Next == ServerStep \/ PageStep

Spec == Init /\ [][Next]_vars

\* Every request is answered or fails, and the timers of the page fire.
LoadsMove ==
    /\ \A i \in Lists : WF_vars(\/ ListReadsBans(i) \/ ListReadsUsers(i)
                                \/ ListArrives(i) \/ ListRejects(i))
    /\ \A i \in Dashes : WF_vars(\/ DashCountsBans(i)
                                 \/ DashArrives(i) \/ DashRejects(i))

\* SF only where a bounded pool may be full just when the timer fires.
TimersFire == SF_vars(PollUsers) /\ SF_vars(Refresh) /\ SF_vars(FilterPause)

FairSpec == Spec /\ LoadsMove /\ TimersFire

-----------------------------------------------------------------------------
(* Properties *)

Counts == {Total(b) : b \in [Users -> 0..MaxBans]}

Shown == UNION {[users -> Statuses] : users \in SUBSET Users}

ListLoads ==
    [stage : {"free"}, refresh : {FALSE}]
    \cup [stage : {"sent"}, refresh : BOOLEAN, query : Queries]
    \cup [stage : {"read"}, refresh : BOOLEAN, query : Queries, blocked : SUBSET Users]
    \cup [stage : {"answered"}, refresh : BOOLEAN, rows : Shown]
    \cup [stage : {"failed"}, refresh : BOOLEAN]

DashLoads ==
    [stage : {"free"}, refresh : {FALSE}]
    \cup [stage : {"sent", "failed"}, refresh : BOOLEAN]
    \cup [stage : {"answered"}, refresh : BOOLEAN, bans : Counts]

Calls ==
    {NoCall} \cup [user : Users, stage : {"sent", "ok", "failed", "refreshing"},
                   attached : BOOLEAN, op : {"block", "unblock", "delete"}]

\* What each variable may hold; the loads use what the field holds unless a key was just hit.
TypeOK ==
    /\ accounts \subseteq Users /\ bans \in [Users -> 0..MaxBans]
    /\ metrics \in Counts \cup {None}
    /\ rows \in Shown /\ greyed \subseteq DOMAIN rows
    /\ filter \in Queries /\ usersQuery \in Queries
    /\ typing \in BOOLEAN /\ (~typing => usersQuery = filter)
    /\ inFlight \in BOOLEAN /\ awaited \subseteq {"users", "dashboard"}
    /\ lists \in [Lists -> ListLoads]
    /\ dashes \in [Dashes -> DashLoads]
    /\ posts \in [Posts -> Calls]
    /\ creating = NoCall \/ creating \in
           [user : Users, stage : {"sent", "ok", "failed", "refreshing"}]
    /\ events \in 0..MaxEvents

Carries(pool) == {i \in DOMAIN pool : pool[i].refresh}

\* Whenever a refresh is under way there is exactly one request for each part it still
\* waits for, and none when no refresh is: inFlight cannot stay set, and no old answer
\* settles a new refresh.
RefreshPending ==
    /\ inFlight <=> awaited # {}
    /\ IF "users" \in awaited THEN \E i \in Lists : Carries(lists) = {i}
                              ELSE Carries(lists) = {}
    /\ IF "dashboard" \in awaited THEN \E i \in Dashes : Carries(dashes) = {i}
                                  ELSE Carries(dashes) = {}

\* A disabled button belongs to a request that is still under way, whatever was rendered,
\* failed or refreshed meanwhile: no row is left dead.
GreyedHasPost ==
    \A u \in greyed : \E p \in Posts :
        posts[p].stage # "free" /\ posts[p].user = u /\ posts[p].attached

RightRows == Listing(accounts \cap Matches[filter], Blocked)

\* The loads that will show, or would lead to, other rows than the right ones.
MisledLists ==
    {i \in Lists :
        \/ lists[i].stage \in {"sent", "read"} /\ lists[i].query # filter
        \/ lists[i].stage = "read" /\ lists[i].blocked # Blocked
        \/ lists[i].stage = "answered" /\ lists[i].rows # RightRows}

MisledDashes == {i \in Dashes : dashes[i].stage = "answered" /\ dashes[i].bans # ActiveBans}

\* What the convergence of the page rests on: while nothing changes on the server,
\* nobody clicks or types and nothing fails, no load that would mislead is sent or
\* made, neither by a timer nor by whoever waits for a refresh, and the page takes
\* nothing wrong but from those that were under way, each of which is shown once.
QuietLoadsAreRight ==
    [][UNCHANGED <<server, filter, events>> /\ ~typing =>
            /\ MisledLists' \subseteq MisledLists /\ MisledDashes' \subseteq MisledDashes
            /\ \/ rows' = rows \/ rows' = RightRows
               \/ \E i \in MisledLists \ MisledLists' :
                      lists[i].stage = "answered" /\ rows' = lists[i].rows
            /\ \/ metrics' = metrics \/ metrics' = ActiveBans
               \/ \E i \in MisledDashes \ MisledDashes' : metrics' = dashes[i].bans]_vars

\* When clicks and failures cease, the rows end up as the filtered list of the server and
\* stay so, whatever was shown optimistically and in whatever order the answers came.
RowsConverge == <>[](rows = RightRows)

\* So does the count, which only refreshAll loads.
MetricsConverge == <>[](metrics = ActiveBans)

=============================================================================
