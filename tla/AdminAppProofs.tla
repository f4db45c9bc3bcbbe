--------------------------- MODULE AdminAppProofs ---------------------------
(***************************************************************************)
(* The safety of the control page, for every number of addresses, requests *)
(* under way, clicks and failures.                                         *)
(***************************************************************************)
EXTENDS AdminApp, TLAPS

-----------------------------------------------------------------------------
(* The pools of requests *)

LEMMA SendPicks ==
    ASSUME NEW pool, HasRoom(pool), NEW load
    PROVE  \E i \in Free(pool) : Send(pool, load) = [pool EXCEPT ![i] = load]
<1>1. (CHOOSE i \in Free(pool) : TRUE) \in Free(pool)  BY DEF HasRoom
<1>2. QED  BY <1>1 DEF Send

LEMMA CarriesMore ==
    ASSUME NEW pool, NEW new, NEW i \in DOMAIN pool, NEW load, load.refresh = TRUE,
           new = [pool EXCEPT ![i] = load]
    PROVE  Carries(new) = Carries(pool) \cup {i}
<1>1. DOMAIN new = DOMAIN pool  OBVIOUS
<1>2. \A j \in DOMAIN pool : new[j] = IF j = i THEN load ELSE pool[j]  OBVIOUS
<1>3. \A j : j \in Carries(new) <=> j \in Carries(pool) \/ j = i  BY <1>1, <1>2 DEF Carries
<1>4. QED  BY <1>3

LEMMA CarriesLess ==
    ASSUME NEW pool, NEW new, NEW i \in DOMAIN pool, NEW load, ~load.refresh,
           new = [pool EXCEPT ![i] = load]
    PROVE  Carries(new) = Carries(pool) \ {i}
<1>1. DOMAIN new = DOMAIN pool  OBVIOUS
<1>2. \A j \in DOMAIN pool : new[j] = IF j = i THEN load ELSE pool[j]  OBVIOUS
<1>3. \A j : j \in Carries(new) <=> j \in Carries(pool) /\ j # i  BY <1>1, <1>2 DEF Carries
<1>4. QED  BY <1>3

LEMMA FreeListCarriesNothing ==
    ASSUME NEW pool \in [Lists -> ListLoads]
    PROVE  Free(pool) \cap Carries(pool) = {}
BY DEF Free, Carries, ListLoads

LEMMA ListTypes ==
    ASSUME NEW load \in ListLoads
    PROVE  /\ load.refresh \in BOOLEAN
           /\ load.stage \in {"free", "sent", "read", "answered", "failed"}
           /\ load.stage \in {"sent", "read"} => load.query \in Queries
           /\ load.stage = "read" => load.blocked \subseteq Users
           /\ load.stage = "answered" => load.rows \in Shown
           /\ [load EXCEPT !.refresh = FALSE] \in ListLoads
           /\ ~[load EXCEPT !.refresh = FALSE].refresh
<1>1. CASE load \in [stage : {"free"}, refresh : {FALSE}]  BY <1>1 DEF ListLoads
<1>2. CASE load \in [stage : {"sent"}, refresh : BOOLEAN, query : Queries]
  BY <1>2 DEF ListLoads
<1>3. CASE load \in [stage : {"read"}, refresh : BOOLEAN, query : Queries, blocked : SUBSET Users]
  BY <1>3 DEF ListLoads
<1>4. CASE load \in [stage : {"answered"}, refresh : BOOLEAN, rows : Shown]
  BY <1>4 DEF ListLoads
<1>5. CASE load \in [stage : {"failed"}, refresh : BOOLEAN]
  BY <1>5 DEF ListLoads
<1>6. QED  BY <1>1, <1>2, <1>3, <1>4, <1>5 DEF ListLoads

LEMMA DashTypes ==
    ASSUME NEW load \in DashLoads
    PROVE  /\ load.refresh \in BOOLEAN
           /\ load.stage \in {"free", "sent", "answered", "failed"}
           /\ load.stage = "answered" => load.bans \in Counts
           /\ [load EXCEPT !.refresh = FALSE] \in DashLoads
           /\ ~[load EXCEPT !.refresh = FALSE].refresh
<1>1. CASE load \in [stage : {"free"}, refresh : {FALSE}]  BY <1>1 DEF DashLoads
<1>2. CASE load \in [stage : {"sent", "failed"}, refresh : BOOLEAN]
  BY <1>2 DEF DashLoads
<1>3. CASE load \in [stage : {"answered"}, refresh : BOOLEAN, bans : Counts]
  BY <1>3 DEF DashLoads
<1>4. QED  BY <1>1, <1>2, <1>3 DEF DashLoads

LEMMA CallTypes ==
    ASSUME NEW call \in Calls
    PROVE  /\ call.stage \in {"free", "sent", "ok", "failed", "refreshing"}
           /\ call.stage # "free" =>
                /\ call.user \in Users /\ call.attached \in BOOLEAN
                /\ call.op \in {"block", "unblock", "delete"}
                /\ [call EXCEPT !.attached = FALSE] \in Calls
                /\ \A stage \in {"sent", "ok", "failed", "refreshing"} :
                       [call EXCEPT !.stage = stage] \in Calls
<1>1. CASE call = NoCall  BY <1>1 DEF NoCall
<1>2. CASE call \in Calls \ {NoCall}  BY <1>2 DEF Calls
<1>3. QED  BY <1>1, <1>2

LEMMA SendListTypes ==
    ASSUME NEW pool \in [Lists -> ListLoads], HasRoom(pool), NEW load \in ListLoads
    PROVE  Send(pool, load) \in [Lists -> ListLoads]
BY SendPicks DEF Free

LEMMA SendDashTypes ==
    ASSUME NEW pool \in [Dashes -> DashLoads], HasRoom(pool), NEW load \in DashLoads
    PROVE  Send(pool, load) \in [Dashes -> DashLoads]
BY SendPicks DEF Free

LEMMA SendPostTypes ==
    ASSUME NEW pool \in [Posts -> Calls], HasRoom(pool), NEW call \in Calls
    PROVE  Send(pool, call) \in [Posts -> Calls]
BY SendPicks DEF Free

LEMMA ListingIsShown ==
    ASSUME NEW users \in SUBSET Users, NEW blocked
    PROVE  Listing(users, blocked) \in Shown
BY DEF Listing, Shown, Statuses

LEMMA DetachedTypes ==
    ASSUME NEW users, posts \in [Posts -> Calls]
    PROVE  Detached(users) \in [Posts -> Calls]
BY CallTypes DEF Detached

LEMMA OrphanTypes ==
    /\ lists \in [Lists -> ListLoads] =>
          Orphan(lists) \in [Lists -> ListLoads] /\ Carries(Orphan(lists)) = {}
    /\ dashes \in [Dashes -> DashLoads] =>
          Orphan(dashes) \in [Dashes -> DashLoads] /\ Carries(Orphan(dashes)) = {}
BY ListTypes, DashTypes DEF Orphan, Carries

LEMMA RequestTypes ==
    ASSUME usersQuery \in Queries, NEW b \in BOOLEAN
    PROVE  /\ ListRequest(b) \in ListLoads /\ ListRequest(b).refresh = b
           /\ DashRequest \in DashLoads /\ DashRequest.refresh = TRUE
           /\ NoLoad \in ListLoads /\ NoLoad \in DashLoads /\ NoLoad.refresh = FALSE
BY DEF ListRequest, DashRequest, ListLoads, DashLoads, NoLoad

-----------------------------------------------------------------------------
(* Sending *)

LEMMA SendQuietly ==
    ASSUME NEW pool, HasRoom(pool), Free(pool) \cap Carries(pool) = {},
           NEW load, ~load.refresh, NEW new, new = Send(pool, load)
    PROVE  Carries(new) = Carries(pool)
<1>1. PICK i \in Free(pool) : Send(pool, load) = [pool EXCEPT ![i] = load]  BY SendPicks
<1>2. i \in DOMAIN pool /\ i \notin Carries(pool)  BY <1>1 DEF Free
<1>3. Carries(new) = Carries(pool) \ {i}  BY <1>1, <1>2, CarriesLess
<1>4. QED  BY <1>2, <1>3

LEMMA SendPart ==
    ASSUME NEW pool, HasRoom(pool), Carries(pool) = {}, NEW load, load.refresh = TRUE,
           NEW new, new = Send(pool, load)
    PROVE  \E i \in DOMAIN pool : Carries(new) = {i}
<1>1. PICK i \in Free(pool) : Send(pool, load) = [pool EXCEPT ![i] = load]  BY SendPicks
<1>2. i \in DOMAIN pool  BY <1>1 DEF Free
<1>3. Carries(new) = Carries(pool) \cup {i}  BY <1>1, <1>2, CarriesMore
<1>4. QED  BY <1>2, <1>3

-----------------------------------------------------------------------------
(* Types *)

LEMMA ResumeTypes ==
    ASSUME TypeOK, NEW calledPosts \in [Posts -> Calls], NEW greyedRows,
           Resume(calledPosts, greyedRows)
    PROVE  /\ posts' \in [Posts -> Calls] /\ greyed' \subseteq greyedRows
           /\ creating' = NoCall \/ creating' = creating
BY DEF Resume, Calls

LEMMA SettleTypes ==
    ASSUME TypeOK, NEW ok, NEW calledPosts \in [Posts -> Calls], NEW greyedRows,
           Settle(ok, calledPosts, greyedRows)
    PROVE  /\ posts' \in [Posts -> Calls] /\ greyed' \subseteq greyedRows
           /\ creating' = NoCall \/ creating' = creating
           /\ inFlight' = FALSE /\ awaited' = {}
BY ResumeTypes DEF Settle

LEMMA PartTypes ==
    ASSUME TypeOK, NEW part, NEW calledPosts \in [Posts -> Calls], NEW greyedRows,
           PartArrives(part, calledPosts, greyedRows)
    PROVE  /\ posts' \in [Posts -> Calls] /\ greyed' \subseteq greyedRows
           /\ creating' = NoCall \/ creating' = creating
           /\ inFlight' \in BOOLEAN /\ awaited' \subseteq {"users", "dashboard"}
BY SettleTypes DEF PartArrives, TypeOK

LEMMA InitTypes == Init => TypeOK
<1> SUFFICES ASSUME Init PROVE TypeOK  OBVIOUS
<1>1. /\ [i \in Lists |-> NoLoad] \in [Lists -> ListLoads]
      /\ [i \in Dashes |-> NoLoad] \in [Dashes -> DashLoads]
  BY DEF NoLoad, ListLoads, DashLoads
<1>2. HasRoom([i \in Lists |-> NoLoad]) /\ HasRoom([i \in Dashes |-> NoLoad])
  BY PoolsAssumption DEF HasRoom, Free, NoLoad
<1>3. usersQuery \in Queries  BY FilterAssumption DEF Init
<1>4. lists \in [Lists -> ListLoads]  BY <1>1, <1>2, <1>3, RequestTypes, SendListTypes DEF Init
<1>5. dashes \in [Dashes -> DashLoads]  BY <1>1, <1>2, <1>3, RequestTypes, SendDashTypes DEF Init
<1>6. posts \in [Posts -> Calls]  BY DEF Init, Calls
<1>7. rows \in Shown
  <2>1. rows \in [{} -> Statuses]  BY DEF Init
  <2>2. QED  BY <2>1 DEF Shown
<1>8. accounts \subseteq Users /\ bans \in [Users -> 0..MaxBans]  BY DEF Init
<1>9. greyed \subseteq DOMAIN rows /\ metrics \in Counts \cup {None}  BY DEF Init
<1>10. filter \in Queries /\ typing \in BOOLEAN /\ usersQuery = filter
  BY FilterAssumption DEF Init
<1>11. inFlight \in BOOLEAN /\ awaited \subseteq {"users", "dashboard"}  BY DEF Init
<1>12. creating = NoCall /\ events \in 0..MaxEvents  BY BoundsAssumption DEF Init
<1>13. QED  BY <1>3, <1>4, <1>5, <1>6, <1>7, <1>8, <1>9, <1>10, <1>11, <1>12 DEF TypeOK

LEMMA EventTypes ==
    ASSUME events \in 0..MaxEvents, Event
    PROVE  events' \in 0..MaxEvents
BY BoundsAssumption DEF Event

LEMMA BanTypes ==
    ASSUME bans \in [Users -> 0..MaxBans], NEW u \in Users, Ban(u)
    PROVE  bans' \in [Users -> 0..MaxBans]
BY BoundsAssumption DEF Ban

LEMMA AppliedTypes ==
    ASSUME TypeOK, NEW call \in Calls, call.stage # "free", Applied(call)
    PROVE  bans' \in [Users -> 0..MaxBans] /\ accounts' \subseteq Users
<1>1. /\ call.user \in Users /\ call.op \in {"block", "unblock", "delete"}
      /\ bans \in [Users -> 0..MaxBans] /\ accounts \subseteq Users
  BY CallTypes DEF TypeOK
<1>2. CASE call.op = "block"  BY <1>1, <1>2, BanTypes DEF Applied
<1>3. CASE call.op = "unblock"  BY <1>1, <1>3, BoundsAssumption DEF Applied
<1>4. CASE call.op = "delete"  BY <1>1, <1>4, BanTypes DEF Applied
<1>5. QED  BY <1>1, <1>2, <1>3, <1>4

LEMMA SendRefreshTypes ==
    ASSUME TypeOK, SendRefresh
    PROVE  /\ inFlight' = TRUE /\ awaited' = {"users", "dashboard"}
           /\ lists' \in [Lists -> ListLoads] /\ dashes' \in [Dashes -> DashLoads]
BY RequestTypes, SendListTypes, SendDashTypes DEF SendRefresh, TypeOK

LEMMA TypeStep == TypeOK /\ [Next]_vars => TypeOK'
<1> SUFFICES ASSUME TypeOK, [Next]_vars PROVE TypeOK'  OBVIOUS
<1> USE DEF server, page, sync, loads, calls
<1>1. ASSUME PollUsers PROVE TypeOK'
  <2>1. lists' \in [Lists -> ListLoads]
    BY <1>1, RequestTypes, SendListTypes DEF PollUsers, TypeOK
  <2>2. QED  BY <1>1, <2>1 DEF PollUsers, TypeOK
<1>2. ASSUME FilterInput PROVE TypeOK'
  BY <1>2, EventTypes DEF FilterInput, TypeOK
<1>3. ASSUME FilterPause PROVE TypeOK'
  <2>1. [ListRequest(FALSE) EXCEPT !.query = filter] \in ListLoads
    BY DEF ListRequest, ListLoads, TypeOK
  <2>2. lists' \in [Lists -> ListLoads]  BY <1>3, <2>1, SendListTypes DEF FilterPause, TypeOK
  <2>3. QED  BY <1>3, <2>2 DEF FilterPause, TypeOK
<1>4. ASSUME Refresh PROVE TypeOK'
  BY <1>4, SendRefreshTypes DEF Refresh, TypeOK
<1>5. ASSUME NEW i \in Lists, ListReadsBans(i) \/ ListReadsUsers(i) \/ ListFails(i) PROVE TypeOK'
  <2>1. lists[i] \in ListLoads  BY DEF TypeOK
  <2>2. lists' \in [Lists -> ListLoads] /\ events' \in 0..MaxEvents
    <3>1. CASE ListReadsBans(i)
      <4>1. [stage |-> "read", refresh |-> lists[i].refresh, query |-> lists[i].query,
             blocked |-> Blocked] \in ListLoads
        BY <2>1, <3>1, ListTypes DEF ListReadsBans, ListLoads, Blocked
      <4>2. QED  BY <3>1, <4>1 DEF ListReadsBans, TypeOK
    <3>2. CASE ListReadsUsers(i)
      <4>1. ASSUME NEW users \in SUBSET Users, NEW blocked
            PROVE  [stage |-> "answered", refresh |-> lists[i].refresh,
                    rows |-> Listing(users, blocked)] \in ListLoads
        BY <2>1, ListTypes, ListingIsShown DEF ListLoads
      <4>2. accounts \cap Matches[lists[i].query] \in SUBSET Users /\ {} \in SUBSET Users
        BY DEF TypeOK
      <4>3. QED  BY <3>2, <4>1, <4>2, EventTypes DEF ListReadsUsers, Answered, TypeOK
    <3>3. CASE ListFails(i)
      <4>1. [stage |-> "failed", refresh |-> lists[i].refresh] \in ListLoads
        BY <2>1, ListTypes DEF ListLoads
      <4>2. QED  BY <3>3, <4>1, EventTypes DEF ListFails, TypeOK
    <3>4. QED  BY <1>5, <3>1, <3>2, <3>3
  <2>3. QED  BY <1>5, <2>2 DEF ListReadsBans, ListReadsUsers, ListFails, TypeOK
<1>6. ASSUME NEW i \in Dashes, DashCountsBans(i) \/ DashFails(i) PROVE TypeOK'
  <2>1. dashes[i] \in DashLoads  BY DEF TypeOK
  <2>2. dashes' \in [Dashes -> DashLoads] /\ events' \in 0..MaxEvents
    <3>1. CASE DashCountsBans(i)
      <4>1. ActiveBans \in Counts  BY DEF ActiveBans, Counts, TypeOK
      <4>2. [stage |-> "answered", refresh |-> dashes[i].refresh, bans |-> ActiveBans]
                \in DashLoads
        BY <2>1, <4>1, DashTypes DEF DashLoads
      <4>3. QED  BY <3>1, <4>2 DEF DashCountsBans, TypeOK
    <3>2. CASE DashFails(i)
      <4>1. [stage |-> "failed", refresh |-> dashes[i].refresh] \in DashLoads
        BY <2>1, DashTypes DEF DashLoads
      <4>2. QED  BY <3>2, <4>1, EventTypes DEF DashFails, TypeOK
    <3>3. QED  BY <1>6, <3>1, <3>2
  <2>3. UNCHANGED <<server, page, sync, lists, calls>>  BY <1>6 DEF DashCountsBans, DashFails
  <2>4. QED  BY <2>2, <2>3 DEF TypeOK
<1>7. ASSUME NEW i \in Lists, ListArrives(i) PROVE TypeOK'
  <2>1. lists[i] \in ListLoads /\ lists' \in [Lists -> ListLoads] /\ rows' \in Shown
    BY <1>7, RequestTypes, ListTypes DEF ListArrives, TypeOK
  <2>2. Detached(Users) \in [Posts -> Calls]  BY DetachedTypes DEF TypeOK
  <2>3. /\ posts' \in [Posts -> Calls] /\ greyed' \subseteq {}
        /\ creating' = NoCall \/ creating' = creating
        /\ inFlight' \in BOOLEAN /\ awaited' \subseteq {"users", "dashboard"}
    BY <1>7, <2>2, PartTypes DEF ListArrives, TypeOK
  <2>4. QED  BY <1>7, <2>1, <2>3 DEF ListArrives, TypeOK
<1>8. ASSUME NEW i \in Lists, ListRejects(i) PROVE TypeOK'
  <2>1. lists' \in [Lists -> ListLoads]  BY <1>8, RequestTypes DEF ListRejects, TypeOK
  <2>2. /\ posts' \in [Posts -> Calls] /\ greyed' \subseteq greyed
        /\ creating' = NoCall \/ creating' = creating
        /\ inFlight' \in BOOLEAN /\ awaited' \subseteq {"users", "dashboard"}
        /\ dashes' \in [Dashes -> DashLoads]
    BY <1>8, SettleTypes, OrphanTypes DEF ListRejects, TypeOK
  <2>3. QED  BY <1>8, <2>1, <2>2 DEF ListRejects, TypeOK
<1>9. ASSUME NEW i \in Dashes, DashArrives(i) PROVE TypeOK'
  <2>1. dashes[i] \in DashLoads /\ dashes' \in [Dashes -> DashLoads] /\ metrics' \in Counts
    BY <1>9, RequestTypes, DashTypes DEF DashArrives, TypeOK
  <2>2. /\ posts' \in [Posts -> Calls] /\ greyed' \subseteq greyed
        /\ creating' = NoCall \/ creating' = creating
        /\ inFlight' \in BOOLEAN /\ awaited' \subseteq {"users", "dashboard"}
    BY <1>9, PartTypes DEF DashArrives, TypeOK
  <2>3. QED  BY <1>9, <2>1, <2>2 DEF DashArrives, TypeOK
<1>10. ASSUME NEW i \in Dashes, DashRejects(i) PROVE TypeOK'
  <2>1. dashes' \in [Dashes -> DashLoads]  BY <1>10, RequestTypes DEF DashRejects, TypeOK
  <2>2. /\ posts' \in [Posts -> Calls] /\ greyed' \subseteq greyed
        /\ creating' = NoCall \/ creating' = creating
        /\ inFlight' \in BOOLEAN /\ awaited' \subseteq {"users", "dashboard"}
        /\ lists' \in [Lists -> ListLoads]
    BY <1>10, SettleTypes, OrphanTypes DEF DashRejects, TypeOK
  <2>3. QED  BY <1>10, <2>1, <2>2 DEF DashRejects, TypeOK
<1>11. ASSUME NEW u \in Users, ClickToggle(u) PROVE TypeOK'
  <2>1. u \in DOMAIN rows /\ rows[u] \in Statuses  BY <1>11 DEF ClickToggle, TypeOK, Shown
  <2>2. PICK users \in SUBSET Users : rows \in [users -> Statuses]  BY DEF TypeOK, Shown
  <2>3. rows' \in [users -> Statuses]  BY <1>11, <2>2 DEF ClickToggle, Toggle, Statuses
  <2>4. rows' \in Shown /\ greyed' \subseteq DOMAIN rows'
    BY <1>11, <2>1, <2>2, <2>3 DEF ClickToggle, TypeOK, Shown
  <2>5. posts' \in [Posts -> Calls]
    <3>1. [user |-> u, stage |-> "sent", attached |-> TRUE,
           op |-> IF rows[u] = "blocked" THEN "unblock" ELSE "block"] \in Calls
      BY DEF Calls
    <3>2. QED  BY <1>11, <3>1, SendPostTypes DEF ClickToggle, TypeOK
  <2>6. QED  BY <1>11, <2>4, <2>5, EventTypes DEF ClickToggle, TypeOK
<1>12. ASSUME NEW u \in Users, ClickDelete(u) PROVE TypeOK'
  <2>1. PICK users \in SUBSET Users : rows \in [users -> Statuses]  BY DEF TypeOK, Shown
  <2>2. rows' \in [users \ {u} -> Statuses]  BY <1>12, <2>1 DEF ClickDelete
  <2>3. rows' \in Shown /\ greyed' \subseteq DOMAIN rows'
    <3>1. users \ {u} \in SUBSET Users  OBVIOUS
    <3>2. rows' \in Shown  BY <2>2, <3>1 DEF Shown
    <3>3. greyed \subseteq users /\ greyed' = greyed \ {u} /\ DOMAIN rows' = users \ {u}
      BY <1>12, <2>1, <2>2 DEF ClickDelete, TypeOK
    <3>4. QED  BY <3>2, <3>3
  <2>4. posts' \in [Posts -> Calls]
    <3>1. [user |-> u, stage |-> "sent", attached |-> FALSE, op |-> "delete"] \in Calls
      BY DEF Calls
    <3>2. Detached({u}) \in [Posts -> Calls]  BY DetachedTypes DEF TypeOK
    <3>3. HasRoom(Detached({u}))
      <4>1. \A p \in Posts : posts[p].stage = "free" => Detached({u})[p].stage = "free"
        BY DEF Detached
      <4>2. Free(posts) \subseteq Free(Detached({u}))  BY <4>1 DEF Free, Detached, TypeOK
      <4>3. QED  BY <1>12, <4>2 DEF ClickDelete, HasRoom
    <3>4. QED  BY <1>12, <3>1, <3>2, <3>3, SendPostTypes DEF ClickDelete
  <2>5. QED  BY <1>12, <2>3, <2>4, EventTypes DEF ClickDelete, TypeOK
<1>13. ASSUME NEW p \in Posts, ServePost(p) PROVE TypeOK'
  <2>1. posts[p] \in Calls /\ posts[p].stage = "sent"  BY <1>13 DEF ServePost, TypeOK
  <2>2. posts' \in [Posts -> Calls]
    <3>1. /\ [posts[p] EXCEPT !.stage = "ok"] \in Calls
          /\ [posts[p] EXCEPT !.stage = "failed"] \in Calls
      BY <2>1, CallTypes
    <3>2. \/ posts' = [posts EXCEPT ![p] = [posts[p] EXCEPT !.stage = "ok"]]
          \/ posts' = [posts EXCEPT ![p] = [posts[p] EXCEPT !.stage = "failed"]]
      BY <1>13 DEF ServePost
    <3>3. QED  BY <3>1, <3>2 DEF TypeOK
  <2>3. bans' \in [Users -> 0..MaxBans] /\ accounts' \subseteq Users
    BY <1>13, <2>1, CallTypes, AppliedTypes, BanTypes DEF ServePost, TypeOK
  <2>4. events' \in 0..MaxEvents  BY <1>13, EventTypes DEF ServePost, TypeOK
  <2>5. QED  BY <1>13, <2>2, <2>3, <2>4 DEF ServePost, TypeOK
<1>14. ASSUME NEW p \in Posts, PostArrives(p) \/ PostRejects(p) PROVE TypeOK'
  <2>1. posts[p] \in Calls /\ posts[p].stage # "free" /\ NoCall \in Calls
    BY <1>14 DEF PostArrives, PostRejects, TypeOK, Calls
  <2>2. posts' \in [Posts -> Calls] /\ greyed' \subseteq greyed
    <3>1. [posts[p] EXCEPT !.stage = "refreshing"] \in Calls  BY <2>1, CallTypes
    <3>2. \/ posts' = [posts EXCEPT ![p] = NoCall]
          \/ posts' = [posts EXCEPT ![p] = [posts[p] EXCEPT !.stage = "refreshing"]]
      BY <1>14 DEF PostArrives, PostRejects, FinishPost
    <3>3. greyed' \subseteq greyed  BY <1>14 DEF PostArrives, PostRejects, FinishPost
    <3>4. QED  BY <2>1, <3>1, <3>2, <3>3 DEF TypeOK
  <2>3. /\ inFlight' \in BOOLEAN /\ awaited' \subseteq {"users", "dashboard"}
        /\ lists' \in [Lists -> ListLoads] /\ dashes' \in [Dashes -> DashLoads]
    BY <1>14, SendRefreshTypes DEF PostArrives, PostRejects, TypeOK
  <2>4. UNCHANGED <<server, rows, metrics, filter, typing, usersQuery, creating, events>>
    BY <1>14 DEF PostArrives, PostRejects
  <2>5. QED  BY <2>2, <2>3, <2>4 DEF TypeOK
<1>15. ASSUME SubmitCreate PROVE TypeOK'
  BY <1>15, EventTypes DEF SubmitCreate, TypeOK
<1>16. ASSUME ServeCreate PROVE TypeOK'
  <2>1. /\ creating \in [user : Users, stage : {"sent", "ok", "failed", "refreshing"}]
    BY <1>16 DEF ServeCreate, TypeOK, NoCall
  <2>2. creating' \in [user : Users, stage : {"sent", "ok", "failed", "refreshing"}]
    BY <1>16, <2>1 DEF ServeCreate
  <2>3. accounts' \subseteq Users /\ events' \in 0..MaxEvents
    BY <1>16, <2>1, EventTypes DEF ServeCreate, TypeOK
  <2>4. QED  BY <1>16, <2>2, <2>3 DEF ServeCreate, TypeOK
<1>17. ASSUME CreateArrives \/ CreateRejects PROVE TypeOK'
  <2>1. /\ creating \in [user : Users, stage : {"sent", "ok", "failed", "refreshing"}]
    BY <1>17 DEF CreateArrives, CreateRejects, TypeOK, NoCall
  <2>2. \/ creating' = NoCall
        \/ creating' \in [user : Users, stage : {"sent", "ok", "failed", "refreshing"}]
    BY <1>17, <2>1 DEF CreateArrives, CreateRejects
  <2>3. /\ inFlight' \in BOOLEAN /\ awaited' \subseteq {"users", "dashboard"}
        /\ lists' \in [Lists -> ListLoads] /\ dashes' \in [Dashes -> DashLoads]
    BY <1>17, SendRefreshTypes DEF CreateArrives, CreateRejects, TypeOK
  <2>4. UNCHANGED <<server, rows, greyed, metrics, filter, typing, usersQuery, posts, events>>
    BY <1>17 DEF CreateArrives, CreateRejects
  <2>5. QED  BY <2>2, <2>3, <2>4 DEF TypeOK
<1>18. ASSUME Elsewhere PROVE TypeOK'
  BY <1>18, EventTypes DEF Elsewhere, TypeOK
<1>19. ASSUME UNCHANGED vars PROVE TypeOK'
  BY <1>19 DEF vars, TypeOK
<1>20. QED
  BY <1>1, <1>2, <1>3, <1>4, <1>5, <1>6, <1>7, <1>8, <1>9, <1>10, <1>11, <1>12, <1>13, <1>14,
     <1>15, <1>16, <1>17, <1>18, <1>19 DEF Next, ServerStep, PageStep

\* Every variable of the page keeps its type; an event changes at most what it is about.
THEOREM TypeCorrect == Spec => []TypeOK
<1>1. QED  BY InitTypes, TypeStep, PTL DEF Spec

-----------------------------------------------------------------------------
(* The refresh *)

Idle == ~inFlight /\ awaited = {} /\ Carries(lists) = {} /\ Carries(dashes) = {}

LEMMA IdleIsPending == ASSUME Idle PROVE RefreshPending
BY DEF Idle, RefreshPending

LEMMA NotInFlightIsIdle == ASSUME RefreshPending, ~inFlight PROVE Idle
BY DEF Idle, RefreshPending

LEMMA PendingKept ==
    ASSUME RefreshPending, UNCHANGED <<inFlight, awaited>>,
           Carries(lists') = Carries(lists), Carries(dashes') = Carries(dashes)
    PROVE  RefreshPending'
BY DEF RefreshPending, Carries

LEMMA SentPends ==
    ASSUME TypeOK, RefreshPending, ~inFlight, SendRefresh
    PROVE  RefreshPending'
<1>1. Carries(lists) = {} /\ Carries(dashes) = {}  BY NotInFlightIsIdle DEF Idle
<1>2. ListRequest(TRUE).refresh = TRUE /\ DashRequest.refresh = TRUE
  BY RequestTypes DEF TypeOK
<1>3. \E i \in Lists : Carries(lists') = {i}
  <2>1. HasRoom(lists) /\ lists' = Send(lists, ListRequest(TRUE))  BY DEF SendRefresh
  <2>2. \E i \in DOMAIN lists : Carries(lists') = {i}  BY <1>1, <1>2, <2>1, SendPart
  <2>3. QED  BY <2>2 DEF TypeOK
<1>4. \E i \in Dashes : Carries(dashes') = {i}
  <2>1. HasRoom(dashes) /\ dashes' = Send(dashes, DashRequest)  BY DEF SendRefresh
  <2>2. \E i \in DOMAIN dashes : Carries(dashes') = {i}  BY <1>1, <1>2, <2>1, SendPart
  <2>3. QED  BY <2>2 DEF TypeOK
<1>5. QED  BY <1>3, <1>4 DEF SendRefresh, RefreshPending, Carries

\* A load that moves on still counts as it did.
LEMMA CarriesSame ==
    ASSUME NEW pool, NEW new, NEW i \in DOMAIN pool, NEW load, load.refresh = pool[i].refresh,
           new = [pool EXCEPT ![i] = load]
    PROVE  Carries(new) = Carries(pool)
<1>1. DOMAIN new = DOMAIN pool  OBVIOUS
<1>2. \A j \in DOMAIN pool : new[j] = IF j = i THEN load ELSE pool[j]  OBVIOUS
<1>3. \A j : j \in Carries(new) <=> j \in Carries(pool)  BY <1>1, <1>2 DEF Carries
<1>4. QED  BY <1>3

LEMMA PendingStep == TypeOK /\ RefreshPending /\ [Next]_vars => RefreshPending'
<1> SUFFICES ASSUME TypeOK, RefreshPending, [Next]_vars PROVE RefreshPending'  OBVIOUS
<1> USE DEF server, page, sync, loads, calls
<1>1. DOMAIN lists = Lists /\ DOMAIN dashes = Dashes  BY DEF TypeOK
<1>2. ASSUME NEW load, ~load.refresh, HasRoom(lists), lists' = Send(lists, load)
      PROVE  Carries(lists') = Carries(lists)
  <2>1. Free(lists) \cap Carries(lists) = {}  BY FreeListCarriesNothing DEF TypeOK
  <2>2. QED  BY <1>2, <2>1, SendQuietly
<1>3. CASE PollUsers \/ FilterPause
  <2>1. ~ListRequest(FALSE).refresh /\ ~[ListRequest(FALSE) EXCEPT !.query = filter].refresh
    BY DEF ListRequest
  <2>2. Carries(lists') = Carries(lists)  BY <1>2, <1>3, <2>1 DEF PollUsers, FilterPause
  <2>3. UNCHANGED <<inFlight, awaited, dashes>>  BY <1>3 DEF PollUsers, FilterPause
  <2>4. QED  BY <2>2, <2>3, PendingKept
<1>4. CASE Refresh  BY <1>4, SentPends DEF Refresh
<1>5. ASSUME NEW i \in Lists, ListReadsBans(i) \/ ListReadsUsers(i) \/ ListFails(i)
      PROVE  RefreshPending'
  <2>1. \E load : load.refresh = lists[i].refresh /\ lists' = [lists EXCEPT ![i] = load]
    BY <1>5 DEF ListReadsBans, ListReadsUsers, ListFails, Answered
  <2>2. Carries(lists') = Carries(lists)  BY <1>1, <2>1, CarriesSame
  <2>3. UNCHANGED <<inFlight, awaited, dashes>>
    BY <1>5 DEF ListReadsBans, ListReadsUsers, ListFails
  <2>4. QED  BY <2>2, <2>3, PendingKept
<1>6. ASSUME NEW i \in Dashes, DashCountsBans(i) \/ DashFails(i)
      PROVE  RefreshPending'
  <2>1. \E load : load.refresh = dashes[i].refresh /\ dashes' = [dashes EXCEPT ![i] = load]
    BY <1>6 DEF DashCountsBans, DashFails
  <2>2. Carries(dashes') = Carries(dashes)  BY <1>1, <2>1, CarriesSame
  <2>3. UNCHANGED <<inFlight, awaited, lists>>  BY <1>6 DEF DashCountsBans, DashFails
  <2>4. QED  BY <2>2, <2>3, PendingKept
<1>7. ASSUME NEW i \in Lists, ListArrives(i) \/ ListRejects(i) PROVE RefreshPending'
  <2>1. Carries(lists') = Carries(lists) \ {i}
    <3>1. lists' = [lists EXCEPT ![i] = NoLoad] /\ ~NoLoad.refresh
      BY <1>7 DEF ListArrives, ListRejects, NoLoad
    <3>2. QED  BY <1>1, <3>1, CarriesLess
  <2>2. CASE ~lists[i].refresh
    <3>1. i \notin Carries(lists)  BY <2>2 DEF Carries
    <3>2. UNCHANGED <<inFlight, awaited, dashes>>
      BY <1>7, <2>2 DEF ListArrives, ListRejects
    <3>3. QED  BY <2>1, <3>1, <3>2, PendingKept
  <2>3. CASE lists[i].refresh
    <3>1. i \in Carries(lists)  BY <1>1, <2>3 DEF Carries
    <3>2. inFlight /\ "users" \in awaited /\ Carries(lists) = {i}
      BY <3>1 DEF RefreshPending
    <3>3. Carries(lists') = {}  BY <2>1, <3>2
    <3>4. CASE ListArrives(i) /\ awaited = {"users"}
      <4>1. Carries(dashes) = {}  BY <3>4 DEF RefreshPending
      <4>2. Idle'  BY <2>3, <3>3, <3>4, <4>1 DEF ListArrives, PartArrives, Settle, Idle, Carries
      <4>3. QED  BY <4>2, IdleIsPending, PTL
    <3>5. CASE ListArrives(i) /\ awaited # {"users"}
      <4>1. /\ awaited' = awaited \ {"users"} /\ UNCHANGED <<inFlight, dashes>>
        BY <2>3, <3>5 DEF ListArrives, PartArrives
      <4>2. awaited = {"users", "dashboard"}  BY <3>2, <3>5 DEF TypeOK
      <4>3. QED  BY <3>2, <3>3, <4>1, <4>2 DEF RefreshPending, Carries
    <3>6. CASE ListRejects(i)
      <4>1. Carries(dashes') = {}  BY <2>3, <3>6, OrphanTypes DEF ListRejects, TypeOK
      <4>2. ~inFlight' /\ awaited' = {}  BY <2>3, <3>6 DEF ListRejects, Settle
      <4>3. QED  BY <3>3, <4>1, <4>2 DEF RefreshPending, Carries
    <3>7. QED  BY <1>7, <3>4, <3>5, <3>6
  <2>4. QED  BY <2>2, <2>3
<1>8. ASSUME NEW i \in Dashes, DashArrives(i) \/ DashRejects(i) PROVE RefreshPending'
  <2>1. Carries(dashes') = Carries(dashes) \ {i}
    <3>1. dashes' = [dashes EXCEPT ![i] = NoLoad] /\ ~NoLoad.refresh
      BY <1>8 DEF DashArrives, DashRejects, NoLoad
    <3>2. QED  BY <1>1, <3>1, CarriesLess
  <2>2. CASE ~dashes[i].refresh
    <3>1. i \notin Carries(dashes)  BY <2>2 DEF Carries
    <3>2. UNCHANGED <<inFlight, awaited, lists>>
      BY <1>8, <2>2 DEF DashArrives, DashRejects
    <3>3. QED  BY <2>1, <3>1, <3>2, PendingKept
  <2>3. CASE dashes[i].refresh
    <3>1. i \in Carries(dashes)  BY <1>1, <2>3 DEF Carries
    <3>2. inFlight /\ "dashboard" \in awaited /\ Carries(dashes) = {i}
      BY <3>1 DEF RefreshPending
    <3>3. Carries(dashes') = {}  BY <2>1, <3>2
    <3>4. CASE DashArrives(i) /\ awaited = {"dashboard"}
      <4>1. Carries(lists) = {}  BY <3>4 DEF RefreshPending
      <4>2. UNCHANGED lists /\ ~inFlight' /\ awaited' = {}
        BY <2>3, <3>4 DEF DashArrives, PartArrives, Settle
      <4>3. QED  BY <3>3, <4>1, <4>2 DEF RefreshPending, Carries
    <3>5. CASE DashArrives(i) /\ awaited # {"dashboard"}
      <4>1. /\ awaited' = awaited \ {"dashboard"} /\ UNCHANGED <<inFlight, lists>>
        BY <2>3, <3>5 DEF DashArrives, PartArrives
      <4>2. awaited = {"users", "dashboard"}  BY <3>2, <3>5 DEF TypeOK
      <4>3. QED  BY <3>2, <3>3, <4>1, <4>2 DEF RefreshPending, Carries
    <3>6. CASE DashRejects(i)
      <4>1. Carries(lists') = {}  BY <2>3, <3>6, OrphanTypes DEF DashRejects, TypeOK
      <4>2. ~inFlight' /\ awaited' = {}  BY <2>3, <3>6 DEF DashRejects, Settle
      <4>3. QED  BY <3>3, <4>1, <4>2 DEF RefreshPending, Carries
    <3>7. QED  BY <1>8, <3>4, <3>5, <3>6
  <2>4. QED  BY <2>2, <2>3
<1>9. ASSUME NEW p \in Posts, PostRejects(p) PROVE RefreshPending'
  <2>1. CASE inFlight  BY <1>9, <2>1, PendingKept DEF PostRejects
  <2>2. CASE ~inFlight  BY <1>9, <2>2, SentPends DEF PostRejects
  <2>3. QED  BY <2>1, <2>2
<1>10. CASE CreateArrives
  <2>1. CASE inFlight  BY <1>10, <2>1, PendingKept DEF CreateArrives
  <2>2. CASE ~inFlight  BY <1>10, <2>2, SentPends DEF CreateArrives
  <2>3. QED  BY <2>1, <2>2
<1>11. CASE UNCHANGED <<inFlight, awaited, lists, dashes>>  BY <1>11, PendingKept
<1>12. CASE \/ FilterInput \/ SubmitCreate \/ CreateRejects \/ ServeCreate \/ Elsewhere
            \/ UNCHANGED vars
            \/ \E u \in Users : ClickToggle(u) \/ ClickDelete(u)
            \/ \E p \in Posts : ServePost(p) \/ PostArrives(p)
  BY <1>11, <1>12 DEF FilterInput, SubmitCreate, CreateRejects, ServeCreate, Elsewhere, vars,
     ClickToggle, ClickDelete, ServePost, PostArrives
<1>13. QED
  BY <1>3, <1>4, <1>5, <1>6, <1>7, <1>8, <1>9, <1>10, <1>12 DEF Next, ServerStep, PageStep

LEMMA InitPending == Init => RefreshPending
<1> SUFFICES ASSUME Init PROVE RefreshPending  OBVIOUS
<1>1. /\ HasRoom([i \in Lists |-> NoLoad]) /\ Carries([i \in Lists |-> NoLoad]) = {}
      /\ HasRoom([i \in Dashes |-> NoLoad]) /\ Carries([i \in Dashes |-> NoLoad]) = {}
  BY PoolsAssumption DEF HasRoom, Free, NoLoad, Carries
<1>2. usersQuery \in Queries  BY FilterAssumption DEF Init
<1>3. ListRequest(TRUE).refresh = TRUE /\ DashRequest.refresh = TRUE
  BY <1>2, RequestTypes
<1>4. \E i \in Lists : Carries(lists) = {i}
  <2>1. lists = Send([i \in Lists |-> NoLoad], ListRequest(TRUE))  BY DEF Init
  <2>2. \E i \in DOMAIN [i \in Lists |-> NoLoad] : Carries(lists) = {i}
    BY <1>1, <1>3, <2>1, SendPart
  <2>3. QED  BY <2>2
<1>5. \E i \in Dashes : Carries(dashes) = {i}
  <2>1. dashes = Send([i \in Dashes |-> NoLoad], DashRequest)  BY DEF Init
  <2>2. \E i \in DOMAIN [i \in Dashes |-> NoLoad] : Carries(dashes) = {i}
    BY <1>1, <1>3, <2>1, SendPart
  <2>3. QED  BY <2>2
<1>6. QED  BY <1>4, <1>5 DEF Init, RefreshPending

\* While refreshAll is under way each part it waits for has one request, and no other
\* request can settle it: for any number of requests, clicks and failures.
THEOREM RefreshIsOnTheWay == Spec => []RefreshPending
<1>1. QED  BY InitPending, InitTypes, TypeStep, PendingStep, PTL DEF Spec

-----------------------------------------------------------------------------
(* The disabled buttons *)

Holds(p, u, pool) == pool[p].stage # "free" /\ pool[p].user = u /\ pool[p].attached

LEMMA HeldKept ==
    ASSUME GreyedHasPost, greyed' \subseteq greyed,
           \A u \in greyed', p \in Posts : Holds(p, u, posts) => Holds(p, u, posts')
    PROVE  GreyedHasPost'
BY DEF GreyedHasPost, Holds

LEMMA ResumeHolds ==
    ASSUME TypeOK, GreyedHasPost, Resume(posts, greyed)
    PROVE  GreyedHasPost'
<1>1. ASSUME NEW u \in greyed', NEW p \in Posts, Holds(p, u, posts) PROVE Holds(p, u, posts')
  <2>1. ~Waits(posts[p])  BY <1>1 DEF Resume, Holds
  <2>2. QED  BY <1>1, <2>1 DEF Resume, Holds
<1>2. greyed' \subseteq greyed  BY DEF Resume
<1>3. QED  BY <1>1, <1>2, HeldKept

LEMMA GreyedStep == TypeOK /\ GreyedHasPost /\ [Next]_vars => GreyedHasPost'
<1> SUFFICES ASSUME TypeOK, GreyedHasPost, [Next]_vars PROVE GreyedHasPost'  OBVIOUS
<1> USE DEF server, page, sync, loads, calls
<1>1. ASSUME UNCHANGED <<greyed, posts>> PROVE GreyedHasPost'  BY <1>1 DEF GreyedHasPost
<1>2. ASSUME NEW i \in Lists, ListArrives(i) PROVE GreyedHasPost'
  <2>1. greyed' \subseteq {}
    BY <1>2 DEF ListArrives, PartArrives, Settle, Resume
  <2>2. QED  BY <2>1 DEF GreyedHasPost
<1>3. ASSUME NEW i \in Lists, ListRejects(i) PROVE GreyedHasPost'
  BY <1>1, <1>3, ResumeHolds DEF ListRejects, Settle
<1>4. ASSUME NEW i \in Dashes, DashArrives(i) PROVE GreyedHasPost'
  BY <1>1, <1>4, ResumeHolds DEF DashArrives, PartArrives, Settle
<1>5. ASSUME NEW i \in Dashes, DashRejects(i) PROVE GreyedHasPost'
  BY <1>1, <1>5, ResumeHolds DEF DashRejects, Settle
<1>6. ASSUME NEW u \in Users, ClickToggle(u) PROVE GreyedHasPost'
  <2> DEFINE call == [user |-> u, stage |-> "sent", attached |-> TRUE,
                      op |-> IF rows[u] = "blocked" THEN "unblock" ELSE "block"]
  <2>1. HasRoom(posts) /\ posts' = Send(posts, call) /\ greyed' = greyed \cup {u}
    BY <1>6 DEF ClickToggle
  <2>2. PICK q \in Free(posts) : posts' = [posts EXCEPT ![q] = call]  BY <2>1, SendPicks
  <2>3. q \in Posts /\ posts[q].stage = "free" /\ DOMAIN posts = Posts  BY <2>2 DEF Free, TypeOK
  <2>4. posts'[q] = call /\ \A p \in Posts \ {q} : posts'[p] = posts[p]  BY <2>2, <2>3
  <2>5. Holds(q, u, posts')  BY <2>4 DEF Holds
  <2>6. \A p \in Posts : \A v : Holds(p, v, posts) => Holds(p, v, posts')  BY <2>3, <2>4 DEF Holds
  <2> HIDE DEF call
  <2>7. \A v \in greyed : \E p \in Posts : Holds(p, v, posts)  BY DEF GreyedHasPost, Holds
  <2>8. \A v \in greyed' : \E p \in Posts : Holds(p, v, posts')
    BY <2>1, <2>3, <2>5, <2>6, <2>7
  <2>9. QED  BY <2>8 DEF GreyedHasPost, Holds
<1>7. ASSUME NEW u \in Users, ClickDelete(u) PROVE GreyedHasPost'
  <2> DEFINE call == [user |-> u, stage |-> "sent", attached |-> FALSE, op |-> "delete"]
             left == Detached({u})
  <2>1. DOMAIN left = Posts
        /\ \A p \in Posts : left[p] = IF posts[p].stage # "free" /\ posts[p].user = u
                                     THEN [posts[p] EXCEPT !.attached = FALSE] ELSE posts[p]
    BY DEF Detached
  <2>2. HasRoom(posts) /\ posts' = Send(left, call) /\ greyed' = greyed \ {u}
    BY <1>7 DEF ClickDelete
  <2>3. \A p \in Posts : posts[p].stage = "free" => left[p].stage = "free"  BY <2>1
  <2>4. HasRoom(left)  BY <2>1, <2>2, <2>3 DEF HasRoom, Free, TypeOK
  <2> HIDE DEF left
  <2>5. PICK q \in Free(left) : posts' = [left EXCEPT ![q] = call]  BY <2>2, <2>4, SendPicks
  <2>6. \A p \in Posts \ {q} : posts'[p] = left[p]  BY <2>1, <2>5
  <2>7. left[q].stage = "free" /\ q \in Posts  BY <2>1, <2>5 DEF Free
  <2>8. ASSUME NEW v \in greyed', NEW p \in Posts, Holds(p, v, posts) PROVE Holds(p, v, posts')
    <3>1. v # u /\ posts[p].stage # "free" /\ posts[p].user = v  BY <2>2, <2>8 DEF Holds
    <3>2. left[p] = posts[p]  BY <2>1, <3>1
    <3>3. p # q  BY <2>7, <3>1, <3>2
    <3>4. QED  BY <2>6, <2>8, <3>2, <3>3 DEF Holds
  <2>9. QED  BY <2>2, <2>8, HeldKept
<1>8. ASSUME NEW p \in Posts, ServePost(p) PROVE GreyedHasPost'
  <2>1. posts[p] \in Calls /\ posts[p].stage = "sent" /\ greyed' = greyed
    BY <1>8 DEF ServePost, TypeOK
  <2>2. /\ \A q \in Posts \ {p} : posts'[q] = posts[q]
        /\ posts'[p].stage # "free" /\ posts'[p].user = posts[p].user
        /\ posts'[p].attached = posts[p].attached
    BY <1>8, <2>1 DEF ServePost, TypeOK, Calls, NoCall
  <2>3. \A v \in greyed', q \in Posts : Holds(q, v, posts) => Holds(q, v, posts')
    BY <2>2 DEF Holds
  <2>4. QED  BY <2>1, <2>3, HeldKept
<1>9. ASSUME NEW p \in Posts, FinishPost(p) PROVE GreyedHasPost'
  <2>1. /\ \A q \in Posts \ {p} : posts'[q] = posts[q]
        /\ greyed' = IF posts[p].attached THEN greyed \ {posts[p].user} ELSE greyed
    BY <1>9 DEF FinishPost, TypeOK
  <2>2. \A v \in greyed', q \in Posts : Holds(q, v, posts) => Holds(q, v, posts')
    BY <2>1 DEF Holds
  <2>3. QED  BY <2>1, <2>2, HeldKept
<1>10. ASSUME NEW p \in Posts, PostArrives(p) PROVE GreyedHasPost'
  BY <1>9, <1>10 DEF PostArrives
<1>11. ASSUME NEW p \in Posts, PostRejects(p) PROVE GreyedHasPost'
  <2>1. CASE FinishPost(p)  BY <1>9, <2>1
  <2>2. CASE greyed' = greyed /\ posts' = [posts EXCEPT ![p].stage = "refreshing"]
    <3>1. posts[p] \in Calls /\ posts[p].stage = "failed"
      BY <1>11 DEF PostRejects, TypeOK
    <3>2. /\ \A q \in Posts \ {p} : posts'[q] = posts[q]
          /\ posts'[p].stage # "free" /\ posts'[p].user = posts[p].user
          /\ posts'[p].attached = posts[p].attached
      BY <2>2, <3>1 DEF TypeOK, Calls, NoCall
    <3>3. \A v \in greyed', q \in Posts : Holds(q, v, posts) => Holds(q, v, posts')
      BY <3>2 DEF Holds
    <3>4. QED  BY <2>2, <3>3, HeldKept
  <2>3. QED  BY <1>11, <2>1, <2>2 DEF PostRejects
<1>12. CASE \/ PollUsers \/ FilterInput \/ FilterPause \/ Refresh \/ SubmitCreate
            \/ CreateArrives \/ CreateRejects \/ ServeCreate \/ Elsewhere \/ UNCHANGED vars
            \/ \E i \in Lists : ListReadsBans(i) \/ ListReadsUsers(i) \/ ListFails(i)
            \/ \E i \in Dashes : DashCountsBans(i) \/ DashFails(i)
  BY <1>1, <1>12 DEF PollUsers, FilterInput, FilterPause, Refresh, SubmitCreate, CreateArrives,
     CreateRejects, ServeCreate, Elsewhere, vars, ListReadsBans, ListReadsUsers, ListFails,
     DashCountsBans, DashFails
<1>13. QED
  BY <1>2, <1>3, <1>4, <1>5, <1>6, <1>7, <1>8, <1>10, <1>11, <1>12 DEF Next, ServerStep, PageStep

\* No button stays disabled without a request that will enable it.
THEOREM NoDeadButton == Spec => []GreyedHasPost
<1>1. Init => GreyedHasPost  BY DEF Init, GreyedHasPost
<1>2. QED  BY <1>1, InitTypes, TypeStep, GreyedStep, PTL DEF Spec

-----------------------------------------------------------------------------
(* Quiet steps: what a load may become, and what the page takes *)

\* A load stays, is freed, is sent with the right query, or makes its way through the handler.
ListGoesOn(j) ==
    \/ lists'[j] = lists[j] \/ lists'[j] = [lists[j] EXCEPT !.refresh = FALSE]
    \/ lists'[j].stage = "free"
    \/ lists'[j].stage = "sent" /\ lists'[j].query = filter
    \/ /\ lists[j].stage = "sent" /\ lists'[j].stage = "read"
       /\ lists'[j].query = lists[j].query /\ lists'[j].blocked = Blocked
    \/ /\ lists[j].stage = "read" /\ lists'[j].stage = "answered"
       /\ lists'[j].rows = Listing(accounts \cap Matches[lists[j].query], lists[j].blocked)

DashGoesOn(j) ==
    \/ dashes'[j] = dashes[j] \/ dashes'[j] = [dashes[j] EXCEPT !.refresh = FALSE]
    \/ dashes'[j].stage \in {"free", "sent"}
    \/ dashes'[j].stage = "answered" /\ dashes'[j].bans = ActiveBans

RowsTaken ==
    \/ rows' = rows
    \/ \E i \in Lists : /\ lists[i].stage = "answered" /\ rows' = lists[i].rows
                        /\ lists'[i].stage = "free"

MetricsTaken ==
    \/ metrics' = metrics
    \/ \E i \in Dashes : /\ dashes[i].stage = "answered" /\ metrics' = dashes[i].bans
                         /\ dashes'[i].stage = "free"

GoesOn ==
    /\ \A j \in Lists : ListGoesOn(j)
    /\ \A j \in Dashes : DashGoesOn(j)
    /\ RowsTaken /\ MetricsTaken

QuietStep ==
    /\ MisledLists' \subseteq MisledLists /\ MisledDashes' \subseteq MisledDashes
    /\ \/ rows' = rows \/ rows' = RightRows
       \/ \E i \in MisledLists \ MisledLists' :
              lists[i].stage = "answered" /\ rows' = lists[i].rows
    /\ \/ metrics' = metrics \/ metrics' = ActiveBans
       \/ \E i \in MisledDashes \ MisledDashes' : metrics' = dashes[i].bans

LEMMA OrphanedListKeeps ==
    ASSUME NEW load \in ListLoads, NEW orphan, orphan = [load EXCEPT !.refresh = FALSE]
    PROVE  /\ orphan.stage = load.stage
           /\ load.stage \in {"sent", "read"} => orphan.query = load.query
           /\ load.stage = "read" => orphan.blocked = load.blocked
           /\ load.stage = "answered" => orphan.rows = load.rows
<1>1. CASE load \in [stage : {"free", "failed"}, refresh : BOOLEAN]  BY <1>1
<1>2. CASE load \in [stage : {"sent"}, refresh : BOOLEAN, query : Queries]  BY <1>2
<1>3. CASE load \in [stage : {"read"}, refresh : BOOLEAN, query : Queries, blocked : SUBSET Users]
  BY <1>3
<1>4. CASE load \in [stage : {"answered"}, refresh : BOOLEAN, rows : Shown]  BY <1>4
<1>5. QED  BY <1>1, <1>2, <1>3, <1>4 DEF ListLoads

LEMMA OrphanedDashKeeps ==
    ASSUME NEW load \in DashLoads, NEW orphan, orphan = [load EXCEPT !.refresh = FALSE]
    PROVE  /\ orphan.stage = load.stage
           /\ load.stage = "answered" => orphan.bans = load.bans
<1>1. CASE load \in [stage : {"free", "sent", "failed"}, refresh : BOOLEAN]  BY <1>1
<1>2. CASE load \in [stage : {"answered"}, refresh : BOOLEAN, bans : Counts]  BY <1>2
<1>3. QED  BY <1>1, <1>2 DEF DashLoads

\* No load comes to mislead when each goes on in one of these ways.
LEMMA ListNotMisled ==
    ASSUME TypeOK, UNCHANGED <<server, filter>>, NEW j \in Lists, ListGoesOn(j),
           j \in MisledLists'
    PROVE  j \in MisledLists
<1>1. Blocked' = Blocked /\ RightRows' = RightRows
  BY DEF server, Blocked, RightRows, Listing
<1>2. \/ lists'[j].stage \in {"sent", "read"} /\ lists'[j].query # filter
      \/ lists'[j].stage = "read" /\ lists'[j].blocked # Blocked
      \/ lists'[j].stage = "answered" /\ lists'[j].rows # RightRows
  BY <1>1 DEF MisledLists
<1>3. SUFFICES \/ lists[j].stage \in {"sent", "read"} /\ lists[j].query # filter
               \/ lists[j].stage = "read" /\ lists[j].blocked # Blocked
               \/ lists[j].stage = "answered" /\ lists[j].rows # RightRows
  BY DEF MisledLists
<1>4. CASE lists'[j] = lists[j]  BY <1>2, <1>4
<1>5. CASE lists'[j] = [lists[j] EXCEPT !.refresh = FALSE]
  <2>1. lists[j] \in ListLoads  BY DEF TypeOK
  <2>2. /\ lists'[j].stage = lists[j].stage
        /\ lists[j].stage \in {"sent", "read"} => lists'[j].query = lists[j].query
        /\ lists[j].stage = "read" => lists'[j].blocked = lists[j].blocked
        /\ lists[j].stage = "answered" => lists'[j].rows = lists[j].rows
    BY <1>5, <2>1, OrphanedListKeeps
  <2>3. QED  BY <1>2, <2>2
<1>6. CASE lists'[j].stage = "free"  BY <1>2, <1>6
<1>7. CASE lists'[j].stage = "sent" /\ lists'[j].query = filter  BY <1>2, <1>7
<1>8. CASE /\ lists[j].stage = "sent" /\ lists'[j].stage = "read"
           /\ lists'[j].query = lists[j].query /\ lists'[j].blocked = Blocked
  BY <1>2, <1>8
<1>9. CASE /\ lists[j].stage = "read" /\ lists'[j].stage = "answered"
           /\ lists'[j].rows = Listing(accounts \cap Matches[lists[j].query], lists[j].blocked)
  <2>1. CASE lists[j].query = filter /\ lists[j].blocked = Blocked
    <3>1. lists'[j].rows = RightRows  BY <1>9, <2>1 DEF RightRows
    <3>2. QED  BY <1>2, <1>9, <3>1
  <2>2. QED  BY <1>9, <2>1
<1>10. QED  BY <1>4, <1>5, <1>6, <1>7, <1>8, <1>9 DEF ListGoesOn

LEMMA DashNotMisled ==
    ASSUME TypeOK, UNCHANGED server, NEW j \in Dashes, DashGoesOn(j), j \in MisledDashes'
    PROVE  j \in MisledDashes
<1>1. ActiveBans' = ActiveBans  BY DEF server, ActiveBans
<1>2. dashes'[j].stage = "answered" /\ dashes'[j].bans # ActiveBans
  BY <1>1 DEF MisledDashes
<1>3. SUFFICES dashes[j].stage = "answered" /\ dashes[j].bans # ActiveBans
  BY DEF MisledDashes
<1>4. CASE dashes'[j] = [dashes[j] EXCEPT !.refresh = FALSE]
  <2>1. dashes[j] \in DashLoads  BY DEF TypeOK
  <2>2. /\ dashes'[j].stage = dashes[j].stage
        /\ dashes[j].stage = "answered" => dashes'[j].bans = dashes[j].bans
    BY <1>4, <2>1, OrphanedDashKeeps
  <2>3. QED  BY <1>2, <2>2
<1>5. QED  BY <1>2, <1>4 DEF DashGoesOn

LEMMA GoingOnIsQuiet ==
    ASSUME TypeOK, UNCHANGED <<server, filter>>, GoesOn
    PROVE  QuietStep
<1>1. MisledLists' \subseteq MisledLists /\ MisledDashes' \subseteq MisledDashes
  <2>1. \A j \in MisledLists' : j \in Lists  BY DEF MisledLists
  <2>2. \A j \in MisledDashes' : j \in Dashes  BY DEF MisledDashes
  <2>3. \A j \in MisledLists' : j \in MisledLists  BY <2>1, ListNotMisled DEF GoesOn
  <2>4. \A j \in MisledDashes' : j \in MisledDashes  BY <2>2, DashNotMisled DEF GoesOn
  <2>5. QED  BY <2>3, <2>4
<1>2. \/ rows' = rows \/ rows' = RightRows
      \/ \E i \in MisledLists \ MisledLists' :
             lists[i].stage = "answered" /\ rows' = lists[i].rows
  <2>1. CASE rows' = rows  BY <2>1
  <2>2. ASSUME NEW i \in Lists, lists[i].stage = "answered", rows' = lists[i].rows,
               lists'[i].stage = "free", rows' # RightRows
        PROVE  i \in MisledLists \ MisledLists'
    BY <2>2 DEF MisledLists
  <2>3. QED  BY <2>1, <2>2 DEF GoesOn, RowsTaken
<1>3. \/ metrics' = metrics \/ metrics' = ActiveBans
      \/ \E i \in MisledDashes \ MisledDashes' : metrics' = dashes[i].bans
  <2>1. CASE metrics' = metrics  BY <2>1
  <2>2. ASSUME NEW i \in Dashes, dashes[i].stage = "answered", metrics' = dashes[i].bans,
               dashes'[i].stage = "free", metrics' # ActiveBans
        PROVE  i \in MisledDashes \ MisledDashes'
    BY <2>2 DEF MisledDashes
  <2>3. QED  BY <2>1, <2>2 DEF GoesOn, MetricsTaken
<1>4. QED  BY <1>1, <1>2, <1>3 DEF QuietStep

-----------------------------------------------------------------------------
(* The steps, one by one *)

LEMMA ListSentGoesOn ==
    ASSUME TypeOK, HasRoom(lists), NEW load, load.stage = "sent", load.query = filter,
           lists' = Send(lists, load)
    PROVE  \A j \in Lists : ListGoesOn(j)
<1>1. PICK i \in Free(lists) : lists' = [lists EXCEPT ![i] = load]  BY SendPicks
<1>2. DOMAIN lists = Lists /\ i \in Lists  BY <1>1 DEF Free, TypeOK
<1>3. \A j \in Lists : lists'[j] = IF j = i THEN load ELSE lists[j]  BY <1>1, <1>2
<1>4. QED  BY <1>3 DEF ListGoesOn

LEMMA DashSentGoesOn ==
    ASSUME TypeOK, HasRoom(dashes), dashes' = Send(dashes, DashRequest)
    PROVE  \A j \in Dashes : DashGoesOn(j)
<1>1. PICK i \in Free(dashes) : dashes' = [dashes EXCEPT ![i] = DashRequest]  BY SendPicks
<1>2. DOMAIN dashes = Dashes /\ i \in Dashes  BY <1>1 DEF Free, TypeOK
<1>3. \A j \in Dashes : dashes'[j] = IF j = i THEN DashRequest ELSE dashes[j]  BY <1>1, <1>2
<1>4. DashRequest.stage = "sent"  BY DEF DashRequest
<1>5. QED  BY <1>3, <1>4 DEF DashGoesOn

LEMMA ListsSame == ASSUME UNCHANGED lists PROVE \A j \in Lists : ListGoesOn(j)
BY DEF ListGoesOn

LEMMA DashesSame == ASSUME UNCHANGED dashes PROVE \A j \in Dashes : DashGoesOn(j)
BY DEF DashGoesOn

LEMMA RefreshGoesOn ==
    ASSUME TypeOK, ~typing, SendRefresh
    PROVE  (\A j \in Lists : ListGoesOn(j)) /\ (\A j \in Dashes : DashGoesOn(j))
<1>1. ListRequest(TRUE).stage = "sent" /\ ListRequest(TRUE).query = filter
  BY DEF ListRequest, TypeOK
<1>2. QED  BY <1>1, ListSentGoesOn, DashSentGoesOn DEF SendRefresh

\* For any number of addresses, queries and requests: a quiet step sends and makes nothing
\* that misleads, and what the page takes is right or was misled before the quiet began.
LEMMA QuietIsRight ==
    TypeOK /\ Next /\ UNCHANGED <<server, filter, events>> /\ ~typing => QuietStep
<1> SUFFICES ASSUME TypeOK, Next, UNCHANGED <<server, filter, events>>, ~typing
             PROVE  QuietStep
  OBVIOUS
<1> USE DEF server, page, sync, loads, calls
<1>1. ~Event  BY BoundsAssumption DEF Event, TypeOK
<1>2. usersQuery = filter /\ DOMAIN lists = Lists /\ DOMAIN dashes = Dashes  BY DEF TypeOK
<1>3. SUFFICES GoesOn  BY GoingOnIsQuiet
<1>4. NoLoad.stage = "free"  BY DEF NoLoad
<1>5. CASE PollUsers
  <2>1. ListRequest(FALSE).stage = "sent" /\ ListRequest(FALSE).query = filter
    BY <1>2 DEF ListRequest
  <2>2. \A j \in Lists : ListGoesOn(j)  BY <1>5, <2>1, ListSentGoesOn DEF PollUsers
  <2>3. UNCHANGED <<rows, metrics, dashes>>  BY <1>5 DEF PollUsers
  <2>4. QED  BY <2>2, <2>3, DashesSame DEF GoesOn, RowsTaken, MetricsTaken
<1>6. ASSUME SendRefresh, UNCHANGED <<rows, metrics>> PROVE GoesOn
  BY <1>6, RefreshGoesOn DEF GoesOn, RowsTaken, MetricsTaken
<1>7. ASSUME UNCHANGED <<rows, metrics, lists, dashes>> PROVE GoesOn
  BY <1>7, ListsSame, DashesSame DEF GoesOn, RowsTaken, MetricsTaken
<1>8. ASSUME NEW i \in Lists, ListReadsBans(i) \/ ListReadsUsers(i) \/ ListFails(i)
      PROVE  GoesOn
  <2>1. UNCHANGED <<rows, metrics, dashes>>
    BY <1>8 DEF ListReadsBans, ListReadsUsers, ListFails
  <2>2. SUFFICES \A j \in Lists : ListGoesOn(j)
    BY <2>1, DashesSame DEF GoesOn, RowsTaken, MetricsTaken
  <2>3. CASE ListReadsBans(i)
    <3>1. /\ lists[i].stage = "sent" /\ lists'[i].stage = "read"
          /\ lists'[i].query = lists[i].query /\ lists'[i].blocked = Blocked
      BY <1>2, <2>3 DEF ListReadsBans
    <3>2. \A j \in Lists \ {i} : lists'[j] = lists[j]  BY <1>2, <2>3 DEF ListReadsBans
    <3>3. QED  BY <3>1, <3>2 DEF ListGoesOn
  <2>4. CASE ListReadsUsers(i)
    <3>1. lists[i].stage = "read"
          /\ Answered(i, Listing(accounts \cap Matches[lists[i].query], lists[i].blocked))
      BY <1>1, <2>4 DEF ListReadsUsers
    <3>2. /\ lists'[i].stage = "answered"
          /\ lists'[i].rows = Listing(accounts \cap Matches[lists[i].query], lists[i].blocked)
      BY <1>2, <3>1 DEF Answered
    <3>3. \A j \in Lists \ {i} : lists'[j] = lists[j]  BY <1>2, <3>1 DEF Answered
    <3>4. QED  BY <3>1, <3>2, <3>3 DEF ListGoesOn
  <2>5. CASE ListFails(i)  BY <1>1, <2>5 DEF ListFails
  <2>6. QED  BY <1>8, <2>3, <2>4, <2>5
<1>9. ASSUME NEW i \in Dashes, DashCountsBans(i) \/ DashFails(i) PROVE GoesOn
  <2>1. DashCountsBans(i)  BY <1>1, <1>9 DEF DashFails
  <2>2. dashes'[i].stage = "answered" /\ dashes'[i].bans = ActiveBans
    BY <1>2, <2>1 DEF DashCountsBans
  <2>3. \A j \in Dashes \ {i} : dashes'[j] = dashes[j]  BY <1>2, <2>1 DEF DashCountsBans
  <2>4. \A j \in Dashes : DashGoesOn(j)  BY <2>2, <2>3 DEF DashGoesOn
  <2>5. UNCHANGED <<rows, metrics, lists>>  BY <2>1 DEF DashCountsBans
  <2>6. QED  BY <2>4, <2>5, ListsSame DEF GoesOn, RowsTaken, MetricsTaken
<1>10. ASSUME NEW i \in Lists, ListArrives(i) \/ ListRejects(i) PROVE GoesOn
  <2>1. lists' = [lists EXCEPT ![i] = NoLoad]  BY <1>10 DEF ListArrives, ListRejects
  <2>2. lists'[i].stage = "free" /\ \A j \in Lists \ {i} : lists'[j] = lists[j]
    BY <1>2, <1>4, <2>1
  <2>3. \A j \in Lists : ListGoesOn(j)  BY <2>2 DEF ListGoesOn
  <2>4. UNCHANGED dashes \/ dashes' = Orphan(dashes)  BY <1>10 DEF ListArrives, ListRejects
  <2>5. \A j \in Dashes : DashGoesOn(j)  BY <1>2, <2>4 DEF Orphan, DashGoesOn
  <2>6. RowsTaken  BY <1>10, <2>2 DEF ListArrives, ListRejects, RowsTaken
  <2>7. UNCHANGED metrics  BY <1>10 DEF ListArrives, ListRejects
  <2>8. QED  BY <2>3, <2>5, <2>6, <2>7 DEF GoesOn, MetricsTaken
<1>11. ASSUME NEW i \in Dashes, DashArrives(i) \/ DashRejects(i) PROVE GoesOn
  <2>1. dashes' = [dashes EXCEPT ![i] = NoLoad]  BY <1>11 DEF DashArrives, DashRejects
  <2>2. dashes'[i].stage = "free" /\ \A j \in Dashes \ {i} : dashes'[j] = dashes[j]
    BY <1>2, <1>4, <2>1
  <2>3. \A j \in Dashes : DashGoesOn(j)  BY <2>2 DEF DashGoesOn
  <2>4. UNCHANGED lists \/ lists' = Orphan(lists)  BY <1>11 DEF DashArrives, DashRejects
  <2>5. \A j \in Lists : ListGoesOn(j)  BY <1>2, <2>4 DEF Orphan, ListGoesOn
  <2>6. MetricsTaken  BY <1>11, <2>2 DEF DashArrives, DashRejects, MetricsTaken
  <2>7. UNCHANGED rows  BY <1>11 DEF DashArrives, DashRejects
  <2>8. QED  BY <2>3, <2>5, <2>6, <2>7 DEF GoesOn, RowsTaken
<1>12. CASE Refresh  BY <1>6, <1>12 DEF Refresh
<1>13. ASSUME NEW p \in Posts, PostRejects(p) \/ PostArrives(p) \/ ServePost(p) PROVE GoesOn
  BY <1>6, <1>7, <1>13 DEF PostRejects, PostArrives, ServePost
<1>14. CASE CreateArrives \/ CreateRejects \/ ServeCreate
  BY <1>6, <1>7, <1>14 DEF CreateArrives, CreateRejects, ServeCreate
<1>15. CASE FilterInput \/ SubmitCreate \/ Elsewhere
            \/ \E u \in Users : ClickToggle(u) \/ ClickDelete(u)
  BY <1>1, <1>15 DEF FilterInput, SubmitCreate, Elsewhere, ClickToggle, ClickDelete
<1>16. CASE FilterPause  BY <1>16 DEF FilterPause
<1>17. QED
  BY <1>5, <1>8, <1>9, <1>10, <1>11, <1>12, <1>13, <1>14, <1>15, <1>16
  DEF Next, ServerStep, PageStep

\* The safety half of the convergence of the page: what timers and refreshes do by
\* themselves never brings a wrong list or count.
THEOREM QuietLoadsRight == Spec => QuietLoadsAreRight
<1>1. TypeOK /\ [Next]_vars =>
        [UNCHANGED <<server, filter, events>> /\ ~typing => QuietStep]_vars
  BY QuietIsRight
<1>2. QED  BY <1>1, TypeCorrect, PTL DEF Spec, QuietLoadsAreRight, QuietStep

=============================================================================
