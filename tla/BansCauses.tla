----------------------------- MODULE BansCauses -----------------------------
(***************************************************************************)
(* What it takes for the promises of the documentation that Bans breaks:   *)
(* each one holds as soon as the one cause its run shows is taken away,    *)
(* for any targets, requests and rows.                                     *)
(***************************************************************************)
EXTENDS BansProofs

\* Nobody's request overlaps another's.
OneAtATime == \A v, w \in Workers : v = w

\* No request fails or is dropped behind its write, no date passes.
Undisturbed == Disruptions \subseteq {"service"} /\ ~MayLapse

\* No form is posted with its date field left blank.
NoBlankDates == \A r \in Requests : r.op = "add" => r.expires # "blank"

-----------------------------------------------------------------------------
(* One admin at a time *)

\* Behind the write of the table and before the end of the sync.
Owes(w) == pc[w] \in {"fetch", "audit", "select", "truncate", "fill"}

\* The SELECT behind an UPDATE that hit no row will end the request.
HitNothing(w) == pc[w] = "fetch" /\ RowsById(req[w].id) = {}

\* The strengthening: the only handler holds the sync from its read on, and the
\* files can only be behind while it owes them a sync.
SerialInv ==
    /\ \A w \in Workers :
          pc[w] \in {"truncate", "fill", "reload", "log_reload", "respond"} => holder = w
    /\ (\A w \in Workers : Owes(w) => HitNothing(w)) => files = Rendered(bans)

LEMMA InitSerial == Init => SerialInv
<1>. SUFFICES ASSUME Init  PROVE files = Rendered(bans)
  BY DEF SerialInv, Init
<1>. QED
  BY DEF Init, Rendered, EmptyFiles

\* The only handler decides the invariant alone.
LEMMA AloneSerial ==
    ASSUME OneAtATime, TypeOK, NEW w \in Workers,
           pc'[w] \in {"truncate", "fill", "reload", "log_reload", "respond"} => holder' = w,
           (Owes(w) => HitNothing(w))' => files' = Rendered(bans)'
    PROVE  SerialInv'
BY DEF OneAtATime, SerialInv, Owes, HitNothing, RowsById

LEMMA NextSerial ==
    OneAtATime /\ Undisturbed /\ TypeOK /\ PublishInv /\ SerialInv /\ [Next]_vars => SerialInv'
<1>. SUFFICES ASSUME OneAtATime, Undisturbed, TypeOK, PublishInv, SerialInv, [Next]_vars
              PROVE  SerialInv'
  OBVIOUS
<1>0. HandlerTypeOK /\ TableTypeOK /\ SharedTypeOK
  BY DEF TypeOK
<1>a. ASSUME UNCHANGED <<bans, files>>  PROVE files = Rendered(bans) => files' = Rendered(bans)'
  BY <1>a DEF Rendered
<1>b. ASSUME NEW w \in Workers, Owes(w) => HitNothing(w)  PROVE files = Rendered(bans)
  BY <1>b DEF OneAtATime, SerialInv
<1>1. ASSUME NEW w \in Workers, Begin(w)  PROVE SerialInv'
  <2>1. PICK r \in Requests : pc' = [pc EXCEPT ![w] = FirstStep(r)]
    BY <1>1 DEF Begin
  <2>2. r.op \in {"add", "set_active", "delete", "set_active_for_value", "ensure"}
    BY RequestsAssumption DEF Request
  <2>3. pc'[w] \in {"insert", "update", "lookup", "update_value", "ensure"}
    BY <1>0, <2>1, <2>2 DEF FirstStep, HandlerTypeOK
  <2>4. files = Rendered(bans)
    BY <1>1, <1>b DEF Begin, Owes
  <2>5. files' = Rendered(bans)'
    BY <1>1, <1>a, <2>4 DEF Begin, table, disk, host
  <2>. QED
    BY <2>3, <2>5, AloneSerial
<1>2. ASSUME NEW w \in Workers, InsertBan(w) \/ DeleteById(w) \/ UpdateByValue(w) \/ EnsureInsert(w)
      PROVE  SerialInv'
  <2>1. pc'[w] = "audit"
    BY <1>0, <1>2 DEF InsertBan, DeleteById, UpdateByValue, EnsureInsert, Goto, HandlerTypeOK
  <2>. QED
    BY <2>1, AloneSerial DEF Owes, HitNothing
<1>3. ASSUME NEW w \in Workers, UpdateById(w)  PROVE SerialInv'
  <2>1. pc[w] = "update" /\ pc'[w] = "fetch" /\ req' = req
    BY <1>0, <1>3 DEF UpdateById, Goto, HandlerTypeOK
  <2>2. bans' = (bans \ RowsById(req[w].id)) \cup Activated(RowsById(req[w].id), req[w].active)
    BY <1>3 DEF UpdateById, Write
  <2>3. ASSUME HitNothing(w)'  PROVE files' = Rendered(bans)'
    <3>1. \A row \in bans' : row.id # req[w].id
      BY <2>1, <2>3 DEF HitNothing, RowsById
    <3>2. ASSUME NEW row \in RowsById(req[w].id)  PROVE FALSE
      <4>1. [row EXCEPT !.active = req[w].active] \in bans'
        BY <2>2 DEF Activated
      <4>2. row \in Row /\ row.id = req[w].id
        BY <1>0 DEF RowsById, TableTypeOK
      <4>3. [row EXCEPT !.active = req[w].active].id = req[w].id
        BY <4>2 DEF Row
      <4>. QED
        BY <3>1, <4>1, <4>3
    <3>3. bans' = bans
      BY <2>2, <3>2 DEF Activated
    <3>4. files' = files
      BY <1>3 DEF UpdateById, Write, disk, host
    <3>5. files = Rendered(bans)
      BY <2>1, <1>b DEF Owes
    <3>. QED
      BY <1>a, <3>3, <3>4, <3>5
  <2>. QED
    BY <2>1, <2>3, AloneSerial DEF Owes
<1>4. ASSUME NEW w \in Workers, EnsureUpdate(w)  PROVE SerialInv'
  <2>1. pc[w] = "ensure" /\ pc'[w] \in {"ensure_insert", "audit"}
    BY <1>0, <1>4 DEF EnsureUpdate, Goto, HandlerTypeOK
  <2>2. ASSUME pc'[w] = "ensure_insert"  PROVE files' = Rendered(bans)'
    <3>1. RowsOf(req[w].target) = {}
      BY <1>0, <1>4, <2>2 DEF EnsureUpdate, Goto, HandlerTypeOK
    <3>2. bans' = bans /\ files' = files
      BY <1>4, <3>1 DEF EnsureUpdate, Write, Reinstated, disk, host
    <3>3. files = Rendered(bans)
      BY <2>1, <1>b DEF Owes
    <3>. QED
      BY <1>a, <3>2, <3>3
  <2>. QED
    BY <2>1, <2>2, AloneSerial DEF Owes, HitNothing
<1>5. ASSUME NEW w \in Workers, FetchById(w) \/ LookupById(w) \/ LogEvent(w)  PROVE SerialInv'
  <2>1. UNCHANGED <<bans, files>>
    BY <1>5 DEF FetchById, LookupById, LogEvent, table, disk, host
  <2>2. pc'[w] \in {"idle", "audit", "select", "delete"}
    BY <1>0, <1>5 DEF FetchById, LookupById, LogEvent, Goto, End, HandlerTypeOK
  <2>3. ASSUME pc'[w] \in {"idle", "delete"}  PROVE files = Rendered(bans)
    <3>1. Owes(w) => HitNothing(w)
      BY <1>0, <1>5, <2>3
         DEF FetchById, LookupById, LogEvent, Goto, End, HandlerTypeOK, Owes, HitNothing
    <3>. QED
      BY <1>b, <3>1
  <2>. QED
    BY <1>a, <2>1, <2>2, <2>3, AloneSerial DEF Owes, HitNothing
<1>6. ASSUME NEW w \in Workers, SelectActive(w)  PROVE SerialInv'
  <2>1. pc'[w] = "truncate"
    BY <1>0, <1>6 DEF SelectActive, HandlerTypeOK
  <2>2. holder' = w
    BY <1>6 DEF SelectActive, OneAtATime
  <2>. QED
    BY <2>1, <2>2, AloneSerial DEF Owes, HitNothing
<1>7. ASSUME NEW w \in Workers, Truncate(w)  PROVE SerialInv'
  <2>1. pc'[w] = "fill"
    BY <1>0, <1>7 DEF Truncate, Goto, HandlerTypeOK
  <2>2. holder' = w
    BY <1>7 DEF Truncate, ghost, SerialInv
  <2>. QED
    BY <2>1, <2>2, AloneSerial DEF Owes, HitNothing
<1>8. ASSUME NEW w \in Workers, Fill(w)  PROVE SerialInv'
  <2>1. holder = w /\ holder' = w /\ pc[w] = "fill"
    BY <1>8 DEF Fill, ghost, SerialInv
  <2>2. holder # Nobody /\ attached[w]
    BY <2>1, NobodyAssumption DEF PublishInv, InWindow
  <2>3. pc'[w] \in {"truncate", "reload"}
    BY <1>0, <1>8, <2>2 DEF Fill, HandlerTypeOK
  <2>4. ASSUME pc'[w] = "reload"  PROVE files' = Rendered(bans)'
    <3>1. PublishInv'
      BY NextPublish
    <3>2. TypeOK'
      BY NextType
    <3>3. holder' # Nobody /\ ~InWindow(holder)'
      BY <2>1, <2>2, <2>4 DEF InWindow
    <3>4. \A f \in Files : files'[f] = Rendered(bans)'[f]
      BY <3>1, <3>3 DEF PublishInv, Written
    <3>5. files' \in PolicyFiles /\ bans' \subseteq Row
      BY <3>2 DEF TypeOK, SharedTypeOK, TableTypeOK
    <3>6. Rendered(bans)' \in PolicyFiles
      BY <3>5 DEF Rendered, PolicyFiles, Row
    <3>. QED
      BY <3>4, <3>5, <3>6 DEF PolicyFiles
  <2>. QED
    BY <2>1, <2>3, <2>4, AloneSerial DEF Owes, HitNothing
<1>9. ASSUME NEW w \in Workers, Reload(w) \/ LogReload(w) \/ Respond(w)  PROVE SerialInv'
  <2>1. UNCHANGED <<bans, files, holder>>
    BY <1>9 DEF Reload, LogReload, Respond, table, disk, host, ghost
  <2>2. pc[w] \in {"reload", "log_reload", "respond"}
    BY <1>9 DEF Reload, LogReload, Respond
  <2>3. holder = w /\ files = Rendered(bans)
    BY <2>2, <1>b DEF SerialInv, Owes
  <2>. QED
    BY <1>a, <2>1, <2>3, AloneSerial
<1>10. CASE UNCHANGED vars
  <2>1. UNCHANGED <<bans, files, holder, pc, req>>
    BY <1>10 DEF vars, table, local, disk, host, ghost
  <2>. QED
    BY <1>a, <2>1 DEF SerialInv, Owes, HitNothing, RowsById
<1>11. ASSUME NEW w \in Workers, Fail(w) \/ Disconnect(w)  PROVE FALSE
  BY <1>11 DEF Fail, Disconnect, Undisturbed
<1>12. ~Crash /\ ~Lapse
  BY DEF Crash, Lapse, Undisturbed
<1>13. CASE ServiceAction
  <2>1. UNCHANGED <<bans, files, holder, pc, req>>
    BY <1>13 DEF ServiceAction, table, local, ghost
  <2>. QED
    BY <1>a, <2>1 DEF SerialInv, Owes, HitNothing, RowsById
<1>. QED
  BY <1>1, <1>2, <1>3, <1>4, <1>5, <1>6, <1>7, <1>8, <1>9, <1>10, <1>11, <1>12, <1>13
     DEF Next, Step

LEMMA SerialInvariant == OneAtATime /\ Undisturbed => (Spec => []SerialInv)
<1>. SUFFICES ASSUME OneAtATime, Undisturbed  PROVE Spec => []SerialInv
  OBVIOUS
<1>1. TypeOK /\ PublishInv /\ SerialInv /\ [Next]_vars => SerialInv'
  BY NextSerial
<1>. QED
  BY <1>1, InitSerial, TypeCorrect, PublishInvariant, PTL DEF Spec

\* README: "The app writes active bans into files".  With one request at a time and
\* nothing that ends one amid its work, the files hold exactly the effective bans
\* whenever no request is under way: overlap and interruption are all that bans_race
\* and its like can blame, however reloads end and whoever restarts Postfix.
THEOREM SerialFilesCurrent == OneAtATime /\ Undisturbed => (Spec => []QuiescentFilesCurrent)
<1>. SUFFICES ASSUME OneAtATime, Undisturbed  PROVE Spec => []QuiescentFilesCurrent
  OBVIOUS
<1>1. SerialInv => QuiescentFilesCurrent
  BY DEF SerialInv, QuiescentFilesCurrent, Quiescent, Owes
<1>. QED
  BY <1>1, SerialInvariant, PTL

-----------------------------------------------------------------------------
(* One admin at a time, whose requests fail, are dropped and die *)

\* The strengthening: a handler that is still amid its sync, or through with it,
\* holds it.
HoldsInv ==
    \A w \in Workers :
        Synced(w) \/ (InWindow(w) /\ attached[w]) => holder = w

LEMMA NextHolds ==
    OneAtATime /\ ~MayLapse /\ TypeOK /\ HoldsInv /\ [Next]_vars => HoldsInv'
<1>. SUFFICES ASSUME OneAtATime, ~MayLapse, TypeOK, HoldsInv, [Next]_vars,
                     NEW w \in Workers,
                     pc'[w] \in {"truncate", "fill", "reload", "log_reload", "respond"},
                     attached'[w] \/ pc'[w] \in {"reload", "log_reload", "respond"}
              PROVE  holder' = w
  BY DEF HoldsInv, Synced, InWindow
<1>0. HandlerTypeOK
  BY DEF TypeOK
<1>1. ASSUME End(w)  PROVE FALSE
  BY <1>0, <1>1 DEF End, HandlerTypeOK
<1>2. ASSUME Begin(w)  PROVE FALSE
  <2>1. PICK r \in Requests : pc' = [pc EXCEPT ![w] = FirstStep(r)]
    BY <1>2 DEF Begin
  <2>2. r.op \in {"add", "set_active", "delete", "set_active_for_value", "ensure"}
    BY RequestsAssumption DEF Request
  <2>3. pc'[w] \in {"insert", "update", "lookup", "update_value", "ensure"}
    BY <1>0, <2>1, <2>2 DEF FirstStep, HandlerTypeOK
  <2>. QED
    BY <2>3
<1>3. ASSUME \/ InsertBan(w) \/ UpdateById(w) \/ DeleteById(w) \/ UpdateByValue(w)
             \/ EnsureUpdate(w) \/ EnsureInsert(w) \/ FetchById(w) \/ LookupById(w)
             \/ LogEvent(w)
      PROVE  FALSE
  <2>1. pc'[w] \in {"fetch", "audit", "ensure_insert", "delete", "select"}
    BY <1>0, <1>1, <1>3
       DEF InsertBan, UpdateById, DeleteById, UpdateByValue, EnsureUpdate, EnsureInsert, FetchById,
           LookupById, LogEvent, Goto, HandlerTypeOK
  <2>. QED
    BY <2>1
<1>4. ASSUME SelectActive(w)  PROVE holder' = w
  BY <1>4 DEF SelectActive, OneAtATime
<1>5. ASSUME Truncate(w) \/ Fill(w)  PROVE holder' = w
  <2>1. InWindow(w) /\ attached[w]
    BY <1>0, <1>1, <1>5 DEF Truncate, Fill, Goto, HandlerTypeOK, InWindow
  <2>. QED
    BY <1>5, <2>1 DEF Truncate, Fill, ghost, HoldsInv
<1>6. ASSUME Reload(w) \/ LogReload(w) \/ Respond(w)  PROVE holder' = w
  BY <1>6 DEF Reload, LogReload, Respond, ghost, HoldsInv, Synced
<1>7. ~Fail(w) /\ ~Disconnect(w)
  <2>1. ASSUME Disconnect(w)  PROVE FALSE
    <3>1. pc' = pc /\ InWindow(w) /\ attached' = [attached EXCEPT ![w] = FALSE]
      BY <1>1, <2>1 DEF Disconnect
    <3>. QED
      BY <1>0, <3>1 DEF InWindow, HandlerTypeOK
  <2>. QED
    BY <1>1, <2>1 DEF Fail
<1>8. ~Crash /\ ~Lapse
  BY DEF Crash, Lapse
<1>10. CASE ServiceAction
  BY <1>10 DEF ServiceAction, local, ghost, HoldsInv, Synced, InWindow
<1>9. CASE UNCHANGED vars
  BY <1>9 DEF vars, local, ghost, HoldsInv, Synced, InWindow
<1>. QED
  BY <1>2, <1>3, <1>4, <1>5, <1>6, <1>7, <1>8, <1>9, <1>10 DEF Next, Step, OneAtATime

\* One request at a time, each of which may fail, be dropped by its client or die
\* with the process, reloads included: the next one that gets through its sync puts
\* the files right, whatever those before it left there.
THEOREM LaterSyncPutsRight == OneAtATime /\ ~MayLapse => (Spec => LaterSyncRepairs)
<1>. SUFFICES ASSUME OneAtATime, ~MayLapse  PROVE Spec => LaterSyncRepairs
  OBVIOUS
<1>1. Init => HoldsInv
  BY DEF Init, HoldsInv, Synced, InWindow
<1>2. TypeOK /\ HoldsInv /\ [Next]_vars => HoldsInv'
  BY NextHolds
<1>3. TypeOK /\ PublishInv /\ HoldsInv =>
        ((\E w \in Workers : Synced(w)) => files = Rendered(bans))
  BY AllWritten, NobodyAssumption DEF HoldsInv, Synced, InWindow
<1>. QED
  BY <1>1, <1>2, <1>3, TypeCorrect, PublishInvariant, PTL DEF Spec, LaterSyncRepairs

-----------------------------------------------------------------------------
(* Blank dates *)

NoBlankRow == \A row \in bans : row.expires # "blank"

LEMMA NextBlank ==
    NoBlankDates /\ TypeOK /\ NoBlankRow /\ [Next]_vars => NoBlankRow'
<1>. SUFFICES ASSUME NoBlankDates, TypeOK, NoBlankRow, [Next]_vars  PROVE NoBlankRow'
  OBVIOUS
<1>0. HandlerTypeOK /\ TableTypeOK
  BY DEF TypeOK
<1>1. ASSUME NEW w \in Workers, InsertBan(w) \/ EnsureInsert(w)  PROVE NoBlankRow'
  <2>1. PICK expires \in {"none", req[w].expires} : bans' = Inserted(req[w].target, expires)
                                                   /\ (expires # "none" => InsertBan(w))
    BY <1>1 DEF InsertBan, EnsureInsert, Write
  <2>2. InsertBan(w) => req[w] \in Requests /\ req[w].op = "add"
    BY <1>0 DEF InsertBan, HandlerTypeOK, ServedAt
  <2>3. expires # "blank"
    BY <2>1, <2>2 DEF NoBlankDates
  <2>. QED
    BY <2>1, <2>3 DEF Inserted, NoBlankRow
<1>2. ASSUME NEW rows \in SUBSET bans, NEW active,
             bans' = (bans \ rows) \cup Activated(rows, active)
      PROVE  NoBlankRow'
  BY <1>0, <1>2 DEF Activated, NoBlankRow, TableTypeOK, Row
<1>3. ASSUME NEW w \in Workers, UpdateById(w) \/ UpdateByValue(w)  PROVE NoBlankRow'
  BY <1>2, <1>3 DEF UpdateById, UpdateByValue, Write, RowsById, RowsOf
<1>4. ASSUME NEW w \in Workers, EnsureUpdate(w)  PROVE NoBlankRow'
  <2>1. bans' = (bans \ RowsOf(req[w].target)) \cup Reinstated(RowsOf(req[w].target))
    BY <1>4 DEF EnsureUpdate, Write
  <2>. QED
    BY <1>0, <2>1 DEF Reinstated, RowsOf, NoBlankRow, TableTypeOK, Row
<1>5. ASSUME NEW w \in Workers, DeleteById(w)  PROVE NoBlankRow'
  BY <1>5 DEF DeleteById, Write, NoBlankRow
<1>6. CASE Lapse
  BY <1>0, <1>6 DEF Lapse, NoBlankRow, TableTypeOK, Row
<1>7. CASE UNCHANGED bans
  BY <1>7 DEF NoBlankRow
<1>8. ASSUME NEW w \in Workers,
             \/ Begin(w) \/ FetchById(w) \/ LookupById(w) \/ LogEvent(w) \/ SelectActive(w)
             \/ Truncate(w) \/ Fill(w) \/ Reload(w) \/ LogReload(w) \/ Respond(w) \/ Fail(w)
             \/ Disconnect(w)
      PROVE  UNCHANGED bans
  BY <1>8 DEF Begin, FetchById, LookupById, LogEvent, SelectActive, Truncate, Fill, Reload,
              LogReload, Respond, Fail, Disconnect, table
<1>9. Crash \/ ServiceAction \/ UNCHANGED vars => UNCHANGED bans
  BY DEF Crash, ServiceAction, vars, table
<1>. QED
  BY <1>1, <1>3, <1>4, <1>5, <1>6, <1>7, <1>8, <1>9 DEF Next, Step

\* The same sentence of every ban that is active and not over: with one request at a
\* time, each of them is in its file, provided that no date field was left blank.
THEOREM SerialBansWritten ==
    OneAtATime /\ Undisturbed /\ NoBlankDates => (Spec => []ActiveBansWritten)
<1>. SUFFICES ASSUME OneAtATime, Undisturbed, NoBlankDates  PROVE Spec => []ActiveBansWritten
  OBVIOUS
<1>1. Init => NoBlankRow
  BY DEF Init, NoBlankRow
<1>2. TypeOK /\ NoBlankRow /\ [Next]_vars => NoBlankRow'
  BY NextBlank
<1>3. TypeOK /\ QuiescentFilesCurrent /\ NoBlankRow => ActiveBansWritten
  <2>. SUFFICES ASSUME TypeOK, QuiescentFilesCurrent, NoBlankRow, Quiescent,
                       NEW row \in bans, row.active, row.expires # "past"
                PROVE  Listed(row.target)
    BY DEF ActiveBansWritten
  <2>1. row \in Row /\ row.target \in Targets /\ row.expires \in {"none", "future"}
    BY DEF TypeOK, TableTypeOK, Row, NoBlankRow, Expiries
  <2>2. InForce(row.target)
    BY <2>1 DEF InForce, Effective
  <2>. QED
    BY <2>1, <2>2, ListedRendered DEF QuiescentFilesCurrent
<1>. QED
  BY <1>1, <1>2, <1>3, TypeCorrect, SerialFilesCurrent, PTL DEF Spec

-----------------------------------------------------------------------------
(* Failed reloads *)

\* The strengthening: no command exits with another status, and the results that
\* the loop has come past are logged.
ReportInv ==
    \A w \in Workers : \A c \in Commands :
        /\ outcome[w][c] # "nonzero"
        /\ \/ pc[w] = "log_reload" /\ c < at[w]
           \/ pc[w] = "respond"
           => (outcome[w][c] # "ok" => c \in warned[w])

\* A handler that comes to the loop, leaves it or is not in it has nothing to show.
LEMMA OthersReport ==
    ASSUME ReportInv, NEW w \in Workers,
           \A v \in Workers \ {w} : /\ pc'[v] = pc[v] /\ at'[v] = at[v]
                                    /\ outcome'[v] = outcome[v] /\ warned'[v] = warned[v],
           \A c \in Commands : outcome'[w][c] # "nonzero",
           \A c \in Commands :
               (pc'[w] = "log_reload" /\ c < at'[w]) \/ pc'[w] = "respond"
                   => (outcome'[w][c] # "ok" => c \in warned'[w])
    PROVE  ReportInv'
BY DEF ReportInv

LEMMA NextReported ==
    "nonzero" \notin Outcomes /\ TypeOK /\ ReportInv /\ [Next]_vars => ReportInv'
<1>. SUFFICES ASSUME "nonzero" \notin Outcomes, TypeOK, ReportInv, [Next]_vars
              PROVE  ReportInv'
  OBVIOUS
<1>0. HandlerTypeOK
  BY DEF TypeOK
<1>1. ASSUME NEW w \in Workers, End(w)  PROVE ReportInv'
  <2>1. /\ pc'[w] = "idle" /\ \A c \in Commands : outcome'[w][c] = "ok"
        /\ \A v \in Workers \ {w} : /\ pc'[v] = pc[v] /\ at'[v] = at[v]
                                    /\ outcome'[v] = outcome[v] /\ warned'[v] = warned[v]
    BY <1>0, <1>1 DEF End, HandlerTypeOK
  <2>. QED
    BY <2>1, OthersReport
<1>2. ASSUME NEW w \in Workers, UNCHANGED <<outcome, warned>>,
             \A v \in Workers \ {w} : pc'[v] = pc[v] /\ at'[v] = at[v],
             \/ pc'[w] \notin {"log_reload", "respond"}
             \/ pc'[w] = pc[w] /\ at'[w] = at[w]
      PROVE  ReportInv'
  BY <1>2 DEF ReportInv
<1>3. ASSUME NEW w \in Workers, Begin(w)  PROVE ReportInv'
  <2>1. PICK r \in Requests : pc' = [pc EXCEPT ![w] = FirstStep(r)]
    BY <1>3 DEF Begin
  <2>2. r.op \in {"add", "set_active", "delete", "set_active_for_value", "ensure"}
    BY RequestsAssumption DEF Request
  <2>3. pc'[w] \in {"insert", "update", "lookup", "update_value", "ensure"}
    BY <1>0, <2>1, <2>2 DEF FirstStep, HandlerTypeOK
  <2>. QED
    BY <1>0, <1>2, <1>3, <2>1, <2>3 DEF Begin, HandlerTypeOK
<1>4. ASSUME NEW w \in Workers, ~End(w),
             \/ InsertBan(w) \/ UpdateById(w) \/ DeleteById(w) \/ UpdateByValue(w)
             \/ EnsureUpdate(w) \/ EnsureInsert(w) \/ FetchById(w) \/ LookupById(w)
             \/ LogEvent(w) \/ SelectActive(w) \/ Truncate(w) \/ Fill(w) \/ Disconnect(w)
      PROVE  ReportInv'
  <2>1. /\ UNCHANGED <<outcome, warned>>
        /\ \A v \in Workers \ {w} : pc'[v] = pc[v] /\ at'[v] = at[v]
    BY <1>0, <1>4
       DEF InsertBan, UpdateById, DeleteById, UpdateByValue, EnsureUpdate, EnsureInsert, FetchById,
           LookupById, LogEvent, SelectActive, Truncate, Fill, Disconnect, Goto, HandlerTypeOK
  <2>2. \/ pc' = pc /\ at' = at
        \/ pc'[w] \in Steps \ {"log_reload", "respond"}
    BY <1>0, <1>4
       DEF InsertBan, UpdateById, DeleteById, UpdateByValue, EnsureUpdate, EnsureInsert, FetchById,
           LookupById, LogEvent, SelectActive, Truncate, Fill, Disconnect, Goto, HandlerTypeOK, Steps
  <2>. QED
    BY <1>2, <2>1, <2>2
<1>5. ASSUME NEW w \in Workers, Reload(w)  PROVE ReportInv'
  <2>1. PICK o \in Outcomes : outcome' = [outcome EXCEPT ![w][at[w]] = o]
    BY <1>5 DEF Reload
  <2>2. pc[w] = "reload" /\ at[w] \in Commands
    BY <1>0, <1>5 DEF Reload, HandlerTypeOK
  <2>3. \A c \in Commands : outcome'[w][c] # "nonzero"
    BY <1>0, <2>1, <2>2 DEF ReportInv, HandlerTypeOK
  <2>4. pc'[w] = "reload" \/ (pc'[w] = "log_reload" /\ at'[w] = Postfix)
    <3>1. CASE at[w] = LastCommand
      <4>1. pc' = [pc EXCEPT ![w] = "log_reload"] /\ at' = [at EXCEPT ![w] = Postfix]
        BY <1>5, <3>1 DEF Reload
      <4>. QED
        BY <1>0, <4>1 DEF HandlerTypeOK
    <3>2. CASE at[w] # LastCommand
      <4>1. pc' = pc
        BY <1>5, <3>2 DEF Reload
      <4>. QED
        BY <2>2, <4>1
    <3>. QED
      BY <3>1, <3>2
  <2>5. \A v \in Workers \ {w} : /\ pc'[v] = pc[v] /\ at'[v] = at[v]
                                 /\ outcome'[v] = outcome[v] /\ warned'[v] = warned[v]
    BY <1>0, <1>5, <2>1 DEF Reload, HandlerTypeOK
  <2>6. \A c \in Commands : ~(c < Postfix)
    BY FilesAre DEF Postfix
  <2>. QED
    BY <2>3, <2>4, <2>5, <2>6, OthersReport
<1>6. ASSUME NEW w \in Workers, LogReload(w)  PROVE ReportInv'
  <2>1. /\ pc[w] = "log_reload" /\ at[w] \in {1, 2} /\ outcome' = outcome
        /\ outcome[w] \in [Commands -> CommandOutcomes] /\ warned[w] \subseteq Commands
    BY <1>0, <1>6, FilesAre DEF LogReload, HandlerTypeOK
  <2>2. warned'[w] = IF outcome[w][at[w]] = "error" THEN warned[w] \cup {at[w]} ELSE warned[w]
    BY <1>0, <1>6 DEF LogReload, HandlerTypeOK
  <2>3. IF at[w] = 2 THEN pc'[w] = "respond" ELSE pc'[w] = "log_reload" /\ at'[w] = 2
    BY <1>0, <1>6, <2>1 DEF LogReload, HandlerTypeOK, LastCommand, Dovecot
  <2>4. \A v \in Workers \ {w} : /\ pc'[v] = pc[v] /\ at'[v] = at[v]
                                 /\ outcome'[v] = outcome[v] /\ warned'[v] = warned[v]
    BY <1>0, <1>6 DEF LogReload, HandlerTypeOK
  <2>5. ASSUME NEW c \in Commands, outcome[w][c] # "ok",
               c < at[w] \/ c = at[w]
        PROVE  c \in warned'[w]
    <3>1. outcome[w][c] = "error"
      BY <2>1, <2>5 DEF ReportInv, CommandOutcomes
    <3>2. c < at[w] => c \in warned[w]
      BY <2>1, <2>5 DEF ReportInv
    <3>. QED
      BY <2>2, <2>5, <3>1, <3>2
  <2>6. \A c \in Commands : (at[w] = 2 \/ c < 2) => c < at[w] \/ c = at[w]
    BY <2>1, FilesAre
  <2>7. \A c \in Commands : outcome'[w][c] # "nonzero"
    BY <2>1 DEF ReportInv
  <2>8. ASSUME NEW c \in Commands, outcome'[w][c] # "ok",
               (pc'[w] = "log_reload" /\ c < at'[w]) \/ pc'[w] = "respond"
        PROVE  c \in warned'[w]
    BY <2>1, <2>3, <2>5, <2>6, <2>8
  <2>. QED
    BY <2>4, <2>7, <2>8, OthersReport
<1>7. ASSUME NEW w \in Workers, Respond(w) \/ Fail(w)  PROVE ReportInv'
  BY <1>1, <1>7 DEF Respond, Fail
<1>8. CASE Crash
  BY <1>8 DEF Crash, ReportInv
<1>9. CASE ServiceAction \/ Lapse \/ UNCHANGED vars
  BY <1>9 DEF ServiceAction, Lapse, vars, local, ReportInv
<1>. QED
  BY <1>1, <1>3, <1>4, <1>5, <1>6, <1>7, <1>8, <1>9 DEF Next, Step

\* README, Troubleshooting: the audit log names reload command failures.  It names
\* every one, however many requests overlap, fail or are dropped, as long as no
\* command exits with a status of its own: that is the one failure it leaves out.
THEOREM ReloadFailuresReported ==
    "nonzero" \notin Outcomes => (Spec => []FailedReloadReported)
<1>. SUFFICES ASSUME "nonzero" \notin Outcomes  PROVE Spec => []FailedReloadReported
  OBVIOUS
<1>1. Init => ReportInv
  BY DEF Init, ReportInv
<1>2. TypeOK /\ ReportInv /\ [Next]_vars => ReportInv'
  BY NextReported
<1>3. ReportInv => FailedReloadReported
  BY DEF ReportInv, FailedReloadReported
<1>. QED
  BY <1>1, <1>2, <1>3, TypeCorrect, PTL DEF Spec
=============================================================================
