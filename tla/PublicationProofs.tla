-------------------------- MODULE PublicationProofs --------------------------
(***************************************************************************)
(* With one request at a time Bans implements Publication, for any         *)
(* targets, requests, rows, failures, lapses and restarts of Postfix.      *)
(***************************************************************************)
EXTENDS BansCauses

Reading(w) == InWindow(w) \/ Synced(w)

\* What the handler works from, between its read and its end.
WorksFrom(w) == IF Synced(w) THEN files ELSE snap[w]

\* The strengthening: the files a sync has come past hold what it has read, the one it
\* is filling is empty, and only once it has filled the last are they whole again.
FilesFollow ==
    \A w \in Workers :
        /\ InWindow(w) => \A f \in Files : f < at[w] => files[f] = snap[w][f]
        /\ pc[w] = "fill" => files[at[w]] = {} /\ ~whole
        /\ Synced(w) => whole

-----------------------------------------------------------------------------
(* The files follow the reading *)

LEMMA InitFollow == Init => FilesFollow
BY DEF Init, FilesFollow, InWindow, Synced

LEMMA AloneFollows ==
    ASSUME OneAtATime, NEW w \in Workers,
           pc'[w] \in {"truncate", "fill"} =>
               \A f \in Files : f < at'[w] => files'[f] = snap'[w][f],
           pc'[w] = "fill" => files'[at'[w]] = {} /\ ~whole',
           Synced(w)' => whole'
    PROVE  FilesFollow'
BY DEF OneAtATime, FilesFollow, InWindow

LEMMA EndFollows ==
    ASSUME OneAtATime, TypeOK, NEW w \in Workers, End(w)
    PROVE  FilesFollow'
<1>1. pc'[w] = "idle"  BY DEF End, TypeOK, HandlerTypeOK
<1>2. QED  BY <1>1, AloneFollows DEF Synced

\* The step that fills a file of the reading, whoever still waits for it.
LEMMA FillWrites ==
    ASSUME TypeOK, FilesFollow, NEW w \in Workers, Fill(w)
    PROVE  /\ at[w] \in Files /\ snap[w] \in PolicyFiles
           /\ \A f \in Files : f <= at[w] => files'[f] = snap[w][f]
           /\ at[w] = LastFile => files' = snap[w]
<1>1. HandlerTypeOK /\ files \in PolicyFiles  BY DEF TypeOK, SharedTypeOK
<1>2. /\ pc[w] = "fill" /\ at[w] \in Files /\ files[at[w]] = {} /\ snap[w] \in PolicyFiles
      /\ \A f \in Files : f < at[w] => files[f] = snap[w][f]
  BY <1>1 DEF Fill, FilesFollow, InWindow, HandlerTypeOK
<1>3. files' = [files EXCEPT ![at[w]] = snap[w][at[w]]]
  <2>1. PICK left \in Leftovers({}, snap[w][at[w]]) :
            files' = [files EXCEPT ![at[w]] = snap[w][at[w]] \cup left]
    BY <1>2 DEF Fill
  <2>2. left = {}  BY DEF Leftovers
  <2>3. snap[w][at[w]] \cup left = snap[w][at[w]]  BY <2>2
  <2>4. QED  BY <2>1, <2>3
<1>4. \A f \in Files : files'[f] = IF f = at[w] THEN snap[w][f] ELSE files[f]
  BY <1>1, <1>3 DEF PolicyFiles
<1>5. \A f \in Files : f <= at[w] => files'[f] = snap[w][f]
  <2>1. \A f \in Files : f <= at[w] => f = at[w] \/ f < at[w]  BY <1>2, FilesAre
  <2>2. QED  BY <1>2, <1>4, <2>1
<1>6. ASSUME at[w] = LastFile PROVE files' = snap[w]
  <2>1. \A f \in Files : f <= at[w]  BY <1>6, FilesAre DEF LastFile, IpFile
  <2>2. \A f \in Files : files'[f] = snap[w][f]  BY <1>5, <2>1
  <2>3. files' \in [Files -> SUBSET Targets] /\ snap[w] \in [Files -> SUBSET Targets]
    BY <1>1, <1>2, <1>3 DEF PolicyFiles
  <2>4. QED  BY <2>2, <2>3
<1>7. QED  BY <1>2, <1>5, <1>6

LEMMA FillFollows ==
    ASSUME OneAtATime, TypeOK, FilesFollow, NEW w \in Workers, Fill(w)
    PROVE  FilesFollow'
<1>1. HandlerTypeOK  BY DEF TypeOK
<1>2. CASE End(w)  BY <1>2, EndFollows
<1>3. CASE ~End(w)
  <2>1. /\ pc' = [pc EXCEPT ![w] = IF at[w] = LastFile THEN "reload" ELSE "truncate"]
        /\ at' = [at EXCEPT ![w] = IF at[w] = LastFile THEN Postfix ELSE at[w] + 1]
        /\ snap' = [snap EXCEPT ![w] = IF at[w] = LastFile THEN EmptyFiles ELSE @]
        /\ whole' = (at[w] = LastFile)
    BY <1>3 DEF Fill
  <2>2. CASE at[w] = LastFile
    <3>1. pc'[w] = "reload" /\ whole'  BY <1>1, <2>1, <2>2 DEF HandlerTypeOK
    <3>2. QED  BY <3>1, AloneFollows
  <2>3. CASE at[w] # LastFile
    <3>1. /\ pc'[w] = "truncate" /\ at'[w] = at[w] + 1 /\ snap'[w] = snap[w]
      BY <1>1, <2>1, <2>3 DEF HandlerTypeOK
    <3>2. \A f \in Files : f < at[w] + 1 => f <= at[w]
      <4>1. at[w] \in {1, 2, 3}  BY <1>1, FilesAre DEF HandlerTypeOK
      <4>2. QED  BY <4>1, FilesAre
    <3>3. \A f \in Files : f < at'[w] => files'[f] = snap'[w][f]
      BY <3>1, <3>2, FillWrites
    <3>4. QED  BY <3>1, <3>3, AloneFollows DEF Synced
  <2>4. QED  BY <2>2, <2>3
<1>4. QED  BY <1>2, <1>3

LEMMA NextFollow == OneAtATime /\ TypeOK /\ FilesFollow /\ [Next]_vars => FilesFollow'
<1> SUFFICES ASSUME OneAtATime, TypeOK, FilesFollow, [Next]_vars PROVE FilesFollow'
  OBVIOUS
<1>1. HandlerTypeOK /\ files \in PolicyFiles  BY DEF TypeOK, SharedTypeOK
<1>2. ASSUME NEW w \in Workers,
             pc'[w] \in Steps \ {"truncate", "fill", "reload", "log_reload", "respond"}
      PROVE  FilesFollow'
  BY <1>2, AloneFollows DEF Synced
<1>3. ASSUME NEW w \in Workers, Begin(w) PROVE FilesFollow'
  <2>1. PICK r \in Requests : pc' = [pc EXCEPT ![w] = FirstStep(r)]  BY <1>3 DEF Begin
  <2>2. r.op \in {"add", "set_active", "delete", "set_active_for_value", "ensure"}
    BY RequestsAssumption DEF Request
  <2>3. pc'[w] \in {"insert", "update", "lookup", "update_value", "ensure"}
    BY <1>1, <2>1, <2>2 DEF FirstStep, HandlerTypeOK
  <2>4. QED  BY <1>2, <2>3 DEF Steps
<1>4. ASSUME NEW w \in Workers,
             \/ InsertBan(w) \/ UpdateById(w) \/ DeleteById(w) \/ UpdateByValue(w)
             \/ EnsureUpdate(w) \/ EnsureInsert(w) \/ FetchById(w) \/ LookupById(w)
             \/ LogEvent(w)
      PROVE  FilesFollow'
  <2>1. CASE End(w)  BY <2>1, EndFollows
  <2>2. CASE ~End(w)
    <3>1. pc'[w] \in {"fetch", "audit", "ensure_insert", "delete", "select"}
      BY <1>1, <1>4, <2>2
         DEF InsertBan, UpdateById, DeleteById, UpdateByValue, EnsureUpdate, EnsureInsert,
             FetchById, LookupById, LogEvent, Goto, HandlerTypeOK
    <3>2. QED  BY <1>2, <3>1 DEF Steps
  <2>3. QED  BY <2>1, <2>2
<1>5. ASSUME NEW w \in Workers, SelectActive(w) PROVE FilesFollow'
  <2>1. pc'[w] = "truncate" /\ at'[w] = 1
    BY <1>1, <1>5 DEF SelectActive, HandlerTypeOK, AddressFile
  <2>2. \A f \in Files : ~(f < 1)  BY FilesAre
  <2>3. QED  BY <2>1, <2>2, AloneFollows DEF Synced
<1>6. ASSUME NEW w \in Workers, Truncate(w) PROVE FilesFollow'
  <2>1. /\ pc[w] = "truncate" /\ pc'[w] = "fill" /\ at' = at /\ snap' = snap
        /\ at[w] \in Files
    BY <1>1, <1>6 DEF Truncate, Goto, HandlerTypeOK
  <2>2. files' = [files EXCEPT ![at[w]] = {}] /\ whole' = FALSE  BY <1>6 DEF Truncate
  <2>3. files'[at[w]] = {} /\ \A f \in Files : f # at[w] => files'[f] = files[f]
    BY <1>1, <2>1, <2>2 DEF PolicyFiles
  <2>4. \A f \in Files : f < at[w] => f # at[w]  BY <2>1, FilesAre
  <2>5. \A f \in Files : f < at[w] => files[f] = snap[w][f]
    BY <2>1 DEF FilesFollow, InWindow
  <2>6. QED  BY <2>1, <2>2, <2>3, <2>4, <2>5, AloneFollows DEF Synced
<1>7. ASSUME NEW w \in Workers, Reload(w) \/ LogReload(w) \/ Respond(w) PROVE FilesFollow'
  <2>1. CASE Respond(w)  BY <2>1, EndFollows DEF Respond
  <2>2. CASE Reload(w) \/ LogReload(w)
    <3>1. Synced(w) /\ whole' = whole
      BY <2>2 DEF Reload, LogReload, Synced, disk
    <3>2. pc'[w] \in {"reload", "log_reload", "respond"}
      BY <1>1, <2>2 DEF Reload, LogReload, HandlerTypeOK
    <3>3. QED  BY <3>1, <3>2, AloneFollows DEF FilesFollow
  <2>3. QED  BY <1>7, <2>1, <2>2
<1>8. CASE UNCHANGED <<pc, at, snap, files, whole>>
  BY <1>8 DEF FilesFollow, InWindow, Synced
<1>9. ASSUME NEW w \in Workers, Fail(w) \/ Disconnect(w) PROVE FilesFollow'
  <2>1. CASE End(w)  BY <2>1, EndFollows
  <2>2. CASE ~End(w)  BY <1>8, <1>9, <2>2 DEF Fail, Disconnect, disk, host
  <2>3. QED  BY <2>1, <2>2
<1>10. CASE Crash  BY <1>10 DEF Crash, FilesFollow, InWindow, Synced
<1>11. CASE ServiceAction \/ Lapse \/ UNCHANGED vars
  BY <1>8, <1>11 DEF ServiceAction, Lapse, vars, local, disk, host
<1>12. QED
  BY <1>3, <1>4, <1>5, <1>6, <1>7, <1>9, <1>10, <1>11, FillFollows DEF Next, Step

LEMMA FollowInvariant == OneAtATime => (Spec => []FilesFollow)
<1> SUFFICES ASSUME OneAtATime PROVE Spec => []FilesFollow  OBVIOUS
<1>1. TypeOK /\ FilesFollow /\ [Next]_vars => FilesFollow'  BY NextFollow
<1>2. QED  BY <1>1, InitFollow, TypeCorrect, PTL DEF Spec

-----------------------------------------------------------------------------
(* What a statement does to the lists *)

\* A change of the rows of one target puts it on its list, takes it off, or does neither.
LEMMA OneTargetChanges ==
    ASSUME bans \subseteq Row, bans' \subseteq Row, NEW target \in Targets,
           \A row \in Row : row.target # target => (row \in bans <=> row \in bans')
    PROVE  \E f \in Files :
               IF target \in Rendered(bans)'[f]
               THEN Rendered(bans)' = [Rendered(bans) EXCEPT ![f] = @ \cup {target}]
               ELSE Rendered(bans)' = [Rendered(bans) EXCEPT ![f] = @ \ {target}]
<1> DEFINE file == FileOf(target.kind)
<1>1. file \in Files  BY DEF FileOf, Files
<1>2. Rendered(bans) \in PolicyFiles /\ Rendered(bans') \in PolicyFiles  BY RenderedType
<1>3. \A f \in Files, t \in Targets :
          /\ t \in Rendered(bans)[f] <=>
               \E row \in bans : Effective(row) /\ FileOf(row.target.kind) = f /\ row.target = t
          /\ t \in Rendered(bans')[f] <=>
               \E row \in bans' : Effective(row) /\ FileOf(row.target.kind) = f /\ row.target = t
  BY DEF Rendered
<1>4. \A f \in Files, t \in Targets \ {target} :
          t \in Rendered(bans)[f] <=> t \in Rendered(bans')[f]
  BY <1>3
<1>5. \A f \in Files \ {file} : target \notin Rendered(bans)[f] /\ target \notin Rendered(bans')[f]
  BY <1>3
<1>6. \A f \in Files \ {file} : Rendered(bans')[f] = Rendered(bans)[f]
  <2> SUFFICES ASSUME NEW f \in Files \ {file}
               PROVE  Rendered(bans')[f] = Rendered(bans)[f]
    OBVIOUS
  <2>1. Rendered(bans')[f] \subseteq Targets /\ Rendered(bans)[f] \subseteq Targets
    BY <1>2 DEF PolicyFiles
  <2>2. \A t \in Targets : t \in Rendered(bans)[f] <=> t \in Rendered(bans')[f]
    BY <1>4, <1>5
  <2>3. QED  BY <2>1, <2>2
<1>7. Rendered(bans')[file] = IF target \in Rendered(bans')[file]
                               THEN Rendered(bans)[file] \cup {target}
                               ELSE Rendered(bans)[file] \ {target}
  <2>1. Rendered(bans')[file] \subseteq Targets /\ Rendered(bans)[file] \subseteq Targets
    BY <1>1, <1>2 DEF PolicyFiles
  <2>2. QED  BY <1>1, <1>4, <2>1
<1>8. IF target \in Rendered(bans')[file]
      THEN Rendered(bans') = [Rendered(bans) EXCEPT ![file] = @ \cup {target}]
      ELSE Rendered(bans') = [Rendered(bans) EXCEPT ![file] = @ \ {target}]
  BY <1>1, <1>2, <1>6, <1>7 DEF PolicyFiles
<1>9. Rendered(bans)' = Rendered(bans')  BY DEF Rendered
<1>10. QED  BY <1>1, <1>8, <1>9

\* Each write statement, and each date that passes, is about one target at most.
LEMMA WritesOneTarget ==
    ASSUME TypeOK, TypeOK',
           \/ Lapse
           \/ \E w \in Workers : \/ InsertBan(w) \/ UpdateById(w) \/ DeleteById(w)
                                 \/ UpdateByValue(w) \/ EnsureUpdate(w) \/ EnsureInsert(w)
    PROVE  \/ bans' = bans
           \/ \E target \in Targets : \A row \in Row :
                  row.target # target => (row \in bans <=> row \in bans')
<1>1. /\ bans \subseteq Row /\ bans' \subseteq Row
      /\ \A r1, r2 \in bans : r1.id = r2.id => r1 = r2
      /\ \A row \in Row : row.target \in Targets
  BY DEF TypeOK, TableTypeOK, Row
<1>2. CASE Lapse
  <2>1. PICK row \in bans : bans' = (bans \ {row}) \cup {[row EXCEPT !.expires = "past"]}
    BY <1>2 DEF Lapse
  <2>2. [row EXCEPT !.expires = "past"].target = row.target /\ row.target \in Targets
    BY <1>1 DEF Row
  <2>3. QED  BY <2>1, <2>2
<1>3. ASSUME NEW w \in Workers, InsertBan(w) \/ EnsureInsert(w)
      PROVE  \E target \in Targets : \A row \in Row :
                 row.target # target => (row \in bans <=> row \in bans')
  <2>1. req[w] \in Requests /\ req[w].op \in {"add", "ensure"}
    BY <1>3 DEF InsertBan, EnsureInsert, TypeOK, HandlerTypeOK, ServedAt
  <2>2. req[w].target \in Targets  BY <2>1, RequestFields
  <2>3. \E expires : bans' = Inserted(req[w].target, expires)
    BY <1>3 DEF InsertBan, EnsureInsert, Write
  <2>4. QED  BY <2>2, <2>3 DEF Inserted
<1>4. ASSUME NEW w \in Workers, UpdateByValue(w) \/ EnsureUpdate(w)
      PROVE  \E target \in Targets : \A row \in Row :
                 row.target # target => (row \in bans <=> row \in bans')
  <2>1. req[w] \in Requests /\ req[w].op \in {"set_active_for_value", "ensure"}
    BY <1>4 DEF UpdateByValue, EnsureUpdate, TypeOK, HandlerTypeOK, ServedAt
  <2>2. req[w].target \in Targets  BY <2>1, RequestFields
  <2>3. PICK rows : /\ bans' = (bans \ RowsOf(req[w].target)) \cup rows
                    /\ rows = Activated(RowsOf(req[w].target), req[w].active)
                       \/ rows = Reinstated(RowsOf(req[w].target))
    BY <1>4 DEF UpdateByValue, EnsureUpdate, Write
  <2>4. \A row \in rows : row.target = req[w].target
    <3>1. \A row \in RowsOf(req[w].target) : row \in Row /\ row.target = req[w].target
      BY <1>1 DEF RowsOf
    <3>2. CASE rows = Activated(RowsOf(req[w].target), req[w].active)
      BY <3>1, <3>2 DEF Activated, Row
    <3>3. CASE rows = Reinstated(RowsOf(req[w].target))
      BY <3>1, <3>3 DEF Reinstated, Row
    <3>4. QED  BY <2>3, <3>2, <3>3
  <2>5. QED  BY <2>2, <2>3, <2>4 DEF RowsOf
<1>5. ASSUME NEW w \in Workers, UpdateById(w) \/ DeleteById(w)
      PROVE  \/ bans' = bans
             \/ \E target \in Targets : \A row \in Row :
                    row.target # target => (row \in bans <=> row \in bans')
  <2>1. PICK rows : /\ bans' = (bans \ RowsById(req[w].id)) \cup rows
                    /\ rows = {} \/ rows = Activated(RowsById(req[w].id), req[w].active)
    BY <1>5 DEF UpdateById, DeleteById, Write
  <2>2. CASE RowsById(req[w].id) = {}
    <3>1. rows = {}  BY <2>1, <2>2 DEF Activated
    <3>2. QED  BY <2>1, <2>2, <3>1
  <2>3. CASE RowsById(req[w].id) # {}
    <3>1. PICK old \in bans : RowsById(req[w].id) = {old}
      BY <1>1, <2>3 DEF RowsById
    <3>2. \A row \in rows : row.target = old.target
      BY <1>1, <2>1, <3>1 DEF Activated, Row
    <3>3. old.target \in Targets  BY <1>1
    <3>4. QED  BY <2>1, <3>1, <3>2, <3>3
  <2>4. QED  BY <2>2, <2>3
<1>6. QED  BY <1>2, <1>3, <1>4, <1>5

-----------------------------------------------------------------------------
(* Step by step *)

LEMMA AloneReads ==
    ASSUME OneAtATime, NEW w \in Workers
    PROVE  /\ Readings = IF Reading(w) THEN {WorksFrom(w)} ELSE {}
           /\ Readings' = IF Reading(w)' THEN {WorksFrom(w)'} ELSE {}
<1>1. \A v \in Workers : v = w  BY DEF OneAtATime
<1>2. \A v \in Workers : ~(InWindow(v) /\ Synced(v)) /\ ~(InWindow(v)' /\ Synced(v)')
  BY DEF InWindow, Synced
<1>3. QED  BY <1>1, <1>2 DEF Readings, Reading, WorksFrom

\* The statements of a request come before its read, so they may ban and lift.
LEMMA WritePublishes ==
    ASSUME TypeOK, TypeOK', UNCHANGED <<loaded, Published>>, Readings = {}, Readings' = {},
           \E w \in Workers : \/ InsertBan(w) \/ UpdateById(w) \/ DeleteById(w)
                              \/ UpdateByValue(w) \/ EnsureUpdate(w) \/ EnsureInsert(w)
    PROVE  [Abstract!Next]_(Abstract!vars)
<1>1. bans \subseteq Row /\ bans' \subseteq Row  BY DEF TypeOK, TableTypeOK
<1>2. CASE bans' = bans
  <2>1. Rendered(bans)' = Rendered(bans)  BY <1>2 DEF Rendered
  <2>2. QED  BY <2>1 DEF Abstract!vars
<1>3. CASE \E target \in Targets : \A row \in Row :
               row.target # target => (row \in bans <=> row \in bans')
  <2>1. PICK target \in Targets : \A row \in Row :
            row.target # target => (row \in bans <=> row \in bans')
    BY <1>3
  <2>2. PICK f \in Files :
            \/ Rendered(bans)' = [Rendered(bans) EXCEPT ![f] = @ \cup {target}]
            \/ Rendered(bans)' = [Rendered(bans) EXCEPT ![f] = @ \ {target}]
    BY <1>1, <2>1, OneTargetChanges
  <2>3. Abstract!Ban \/ Abstract!Lift  BY <2>2 DEF Abstract!Ban, Abstract!Lift
  <2>4. QED  BY <2>3 DEF Abstract!Next
<1>4. QED  BY <1>2, <1>3, WritesOneTarget

\* A date that passes can only lift.
LEMMA LapsePublishes ==
    ASSUME TypeOK, TypeOK', Lapse, UNCHANGED <<loaded, Published>>, Readings' = Readings
    PROVE  [Abstract!Next]_(Abstract!vars)
<1>1. bans \subseteq Row /\ bans' \subseteq Row  BY DEF TypeOK, TableTypeOK
<1>2. PICK row \in bans : bans' = (bans \ {row}) \cup {[row EXCEPT !.expires = "past"]}
  BY DEF Lapse
<1>3. row \in Row /\ row.target \in Targets  BY <1>1 DEF Row
<1>4. [row EXCEPT !.expires = "past"].target = row.target
      /\ ~Effective([row EXCEPT !.expires = "past"])
  BY <1>3 DEF Row, Effective
<1>5. PICK f \in Files :
          IF row.target \in Rendered(bans)'[f]
          THEN Rendered(bans)' = [Rendered(bans) EXCEPT ![f] = @ \cup {row.target}]
          ELSE Rendered(bans)' = [Rendered(bans) EXCEPT ![f] = @ \ {row.target}]
  <2>1. \A r \in Row : r.target # row.target => (r \in bans <=> r \in bans')
    BY <1>2, <1>4
  <2>2. QED  BY <1>1, <1>3, <2>1, OneTargetChanges
<1>6. Rendered(bans)'[f] \subseteq Rendered(bans)[f]
  <2>1. Rendered(bans)' = Rendered(bans')  BY DEF Rendered
  <2>2. \A r \in bans' : Effective(r) => r \in bans  BY <1>2, <1>4
  <2>3. QED  BY <2>1, <2>2 DEF Rendered
<1>7. Rendered(bans) \in [Files -> SUBSET Targets]  BY <1>1, RenderedType DEF PolicyFiles
<1>8. CASE row.target \in Rendered(bans)'[f]
  <2>1. row.target \in Rendered(bans)[f]  BY <1>6, <1>8
  <2>2. Rendered(bans)[f] \cup {row.target} = Rendered(bans)[f]  BY <2>1
  <2>3. Rendered(bans)' = Rendered(bans)  BY <1>5, <1>7, <1>8, <2>2
  <2>4. QED  BY <2>3 DEF Abstract!vars
<1>9. CASE row.target \notin Rendered(bans)'[f]
  <2>1. Abstract!Lift  BY <1>3, <1>5, <1>9 DEF Abstract!Lift
  <2>2. QED  BY <2>1 DEF Abstract!Next
<1>10. QED  BY <1>8, <1>9

LEMMA NextPublishes ==
    OneAtATime /\ TypeOK /\ TypeOK' /\ FilesFollow /\ [Next]_vars =>
        [Abstract!Next]_(Abstract!vars)
<1> SUFFICES ASSUME OneAtATime, TypeOK, TypeOK', FilesFollow, [Next]_vars
             PROVE  [Abstract!Next]_(Abstract!vars)
  OBVIOUS
<1>1. HandlerTypeOK  BY DEF TypeOK
<1>2. ASSUME UNCHANGED bans PROVE Rendered(bans)' = Rendered(bans)  BY <1>2 DEF Rendered
<1>a. ASSUME UNCHANGED disk PROVE UNCHANGED <<loaded, Published>>
  BY <1>a DEF disk, host, Published
<1>3. ASSUME NEW w \in Workers, UNCHANGED <<bans, loaded, Published>>, ~Reading(w)'
      PROVE  [Abstract!Next]_(Abstract!vars)
  <2>1. Readings' = {}  BY <1>3, AloneReads
  <2>2. Abstract!Finish  BY <1>2, <1>3, <2>1 DEF Abstract!Finish
  <2>3. QED  BY <2>2 DEF Abstract!Next
<1>4. ASSUME NEW w \in Workers, UNCHANGED <<bans, loaded, Published>>, Reading(w), Reading(w)',
             WorksFrom(w)' = WorksFrom(w)
      PROVE  [Abstract!Next]_(Abstract!vars)
  <2>1. Readings' = Readings  BY <1>4, AloneReads
  <2>2. QED  BY <1>2, <1>4, <2>1 DEF Abstract!vars
<1>5. ASSUME NEW w \in Workers, End(w), UNCHANGED <<bans, disk>>
      PROVE  [Abstract!Next]_(Abstract!vars)
  <2>1. pc'[w] = "idle"  BY <1>1, <1>5 DEF End, HandlerTypeOK
  <2>2. ~Reading(w)'  BY <2>1 DEF Reading, InWindow, Synced
  <2>3. QED  BY <1>3, <1>5, <1>a, <2>2
<1>6. ASSUME NEW w \in Workers, Begin(w) PROVE [Abstract!Next]_(Abstract!vars)
  <2>1. PICK r \in Requests : pc' = [pc EXCEPT ![w] = FirstStep(r)]  BY <1>6 DEF Begin
  <2>2. r.op \in {"add", "set_active", "delete", "set_active_for_value", "ensure"}
    BY RequestsAssumption DEF Request
  <2>3. pc'[w] \in {"insert", "update", "lookup", "update_value", "ensure"}
    BY <1>1, <2>1, <2>2 DEF FirstStep, HandlerTypeOK
  <2>4. ~Reading(w)'  BY <2>3 DEF Reading, InWindow, Synced
  <2>5. QED  BY <1>3, <1>6, <1>a, <2>4 DEF Begin, table
<1>7. ASSUME NEW w \in Workers,
             \/ InsertBan(w) \/ UpdateById(w) \/ DeleteById(w) \/ UpdateByValue(w)
             \/ EnsureUpdate(w) \/ EnsureInsert(w)
      PROVE  [Abstract!Next]_(Abstract!vars)
  <2>1. /\ pc[w] \in {"insert", "update", "delete", "update_value", "ensure", "ensure_insert"}
        /\ pc'[w] \in {"audit", "fetch", "ensure_insert"}
    BY <1>1, <1>7
       DEF InsertBan, UpdateById, DeleteById, UpdateByValue, EnsureUpdate, EnsureInsert, Goto,
           HandlerTypeOK
  <2>2. ~Reading(w) /\ ~Reading(w)'  BY <2>1 DEF Reading, InWindow, Synced
  <2>3. Readings = {} /\ Readings' = {}  BY <2>2, AloneReads
  <2>4. UNCHANGED disk
    BY <1>7
       DEF InsertBan, UpdateById, DeleteById, UpdateByValue, EnsureUpdate, EnsureInsert, Write
  <2>5. QED  BY <1>7, <1>a, <2>3, <2>4, WritePublishes
<1>8. ASSUME NEW w \in Workers, FetchById(w) \/ LookupById(w) \/ LogEvent(w)
      PROVE  [Abstract!Next]_(Abstract!vars)
  <2>1. pc'[w] \in {"idle", "audit", "delete", "select"}
    BY <1>1, <1>8 DEF FetchById, LookupById, LogEvent, Goto, End, HandlerTypeOK
  <2>2. ~Reading(w)'  BY <2>1 DEF Reading, InWindow, Synced
  <2>3. QED  BY <1>3, <1>8, <1>a, <2>2 DEF FetchById, LookupById, LogEvent, table
<1>9. ASSUME NEW w \in Workers, SelectActive(w) PROVE [Abstract!Next]_(Abstract!vars)
  <2>1. pc[w] = "select" /\ pc'[w] = "truncate" /\ snap'[w] = Rendered(bans)
    BY <1>1, <1>9 DEF SelectActive, HandlerTypeOK
  <2>2. ~Reading(w) /\ Reading(w)' /\ ~Synced(w)'  BY <2>1 DEF Reading, InWindow, Synced
  <2>3. Readings = {} /\ Readings' = {Rendered(bans)}  BY <2>1, <2>2, AloneReads DEF WorksFrom
  <2>4. UNCHANGED <<bans, loaded, Published>>  BY <1>9, <1>a DEF SelectActive, table
  <2>5. Abstract!Read  BY <1>2, <2>3, <2>4 DEF Abstract!Read
  <2>6. QED  BY <2>5 DEF Abstract!Next
<1>10. ASSUME NEW w \in Workers, Truncate(w) PROVE [Abstract!Next]_(Abstract!vars)
  <2>1. /\ pc[w] = "truncate" /\ pc'[w] = "fill" /\ snap' = snap
        /\ UNCHANGED <<bans, loaded>> /\ whole' = FALSE
    BY <1>1, <1>10 DEF Truncate, Goto, HandlerTypeOK, table
  <2>2. Reading(w) /\ Reading(w)' /\ ~Synced(w) /\ ~Synced(w)'
    BY <2>1 DEF Reading, InWindow, Synced
  <2>3. Readings = {snap[w]} /\ Readings' = {snap[w]}
    BY <2>1, <2>2, AloneReads DEF WorksFrom
  <2>4. Published' = {}  BY <2>1 DEF Published
  <2>5. Abstract!Withdraw  BY <1>2, <2>1, <2>3, <2>4 DEF Abstract!Withdraw
  <2>6. QED  BY <2>5 DEF Abstract!Next
<1>11. ASSUME NEW w \in Workers, Fill(w) PROVE [Abstract!Next]_(Abstract!vars)
  <2>1. /\ UNCHANGED <<bans, loaded>> /\ whole' = (at[w] = LastFile) /\ pc[w] = "fill"
    BY <1>11 DEF Fill, table
  <2>2. ~whole /\ Published = {}  BY <2>1 DEF FilesFollow, Published
  <2>3. Reading(w) /\ ~Synced(w) /\ Readings = {snap[w]}
    <3>1. InWindow(w) /\ ~Synced(w)  BY <2>1 DEF InWindow, Synced
    <3>2. QED  BY <3>1, AloneReads DEF Reading, WorksFrom
  <2>4. \/ End(w)
        \/ /\ pc' = [pc EXCEPT ![w] = IF at[w] = LastFile THEN "reload" ELSE "truncate"]
           /\ snap' = [snap EXCEPT ![w] = IF at[w] = LastFile THEN EmptyFiles ELSE @]
    BY <1>11 DEF Fill
  <2>5. End(w) => ~Reading(w)'
    BY <1>1 DEF End, HandlerTypeOK, Reading, InWindow, Synced
  <2>6. CASE at[w] = LastFile
    <3>1. files' = snap[w]  BY <1>11, <2>6, FillWrites
    <3>2. Published' = {snap[w]}  BY <2>1, <2>6, <3>1 DEF Published
    <3>3. Readings' \in {{snap[w]}, {}}
      <4>1. CASE End(w)  BY <2>5, <4>1, AloneReads
      <4>2. CASE ~End(w)
        <5>1. pc'[w] = "reload"  BY <1>1, <2>4, <2>6, <4>2 DEF HandlerTypeOK
        <5>2. Reading(w)' /\ WorksFrom(w)' = files'  BY <5>1 DEF Reading, Synced, WorksFrom
        <5>3. QED  BY <3>1, <5>2, AloneReads
      <4>3. QED  BY <4>1, <4>2
    <3>4. Abstract!Publish  BY <1>2, <2>1, <2>3, <3>2, <3>3 DEF Abstract!Publish
    <3>5. QED  BY <3>4 DEF Abstract!Next
  <2>7. CASE at[w] # LastFile
    <3>1. Published' = Published  BY <2>1, <2>2, <2>7 DEF Published
    <3>2. CASE End(w)  BY <1>3, <2>1, <2>5, <3>1, <3>2
    <3>3. CASE ~End(w)
      <4>1. pc'[w] = "truncate" /\ snap'[w] = snap[w]
        BY <1>1, <2>4, <2>7, <3>3 DEF HandlerTypeOK
      <4>2. Reading(w)' /\ WorksFrom(w)' = WorksFrom(w)
        BY <2>3, <4>1 DEF Reading, InWindow, Synced, WorksFrom
      <4>3. QED  BY <1>4, <2>1, <2>3, <3>1, <4>2
    <3>4. QED  BY <3>2, <3>3
  <2>8. QED  BY <2>6, <2>7
<1>12. ASSUME NEW w \in Workers, Reload(w) \/ LogReload(w)
       PROVE  [Abstract!Next]_(Abstract!vars)
  <2>1. Synced(w) /\ UNCHANGED <<bans, files, whole>> /\ loaded' \in {files, loaded}
    BY <1>12 DEF Reload, LogReload, Synced, table, disk, host
  <2>2. pc'[w] \in {"reload", "log_reload", "respond"}
    BY <1>1, <1>12 DEF Reload, LogReload, HandlerTypeOK
  <2>3. Reading(w) /\ Reading(w)' /\ WorksFrom(w) = files /\ WorksFrom(w)' = files
    BY <2>1, <2>2 DEF Reading, Synced, WorksFrom
  <2>4. Published = {files} /\ Published' = {files}  BY <2>1 DEF FilesFollow, Published
  <2>5. CASE loaded' = loaded  BY <1>4, <2>1, <2>3, <2>4, <2>5
  <2>6. CASE loaded' = files
    <3>1. Readings = {files} /\ Readings' = {files}  BY <2>3, AloneReads
    <3>2. Abstract!Enforce  BY <1>2, <2>1, <2>4, <2>6, <3>1 DEF Abstract!Enforce
    <3>3. QED  BY <3>2 DEF Abstract!Next
  <2>7. QED  BY <2>1, <2>5, <2>6
<1>13. ASSUME NEW w \in Workers, Respond(w) \/ Fail(w) PROVE [Abstract!Next]_(Abstract!vars)
  BY <1>5, <1>13 DEF Respond, Fail, table
<1>14. ASSUME NEW w \in Workers, Disconnect(w) PROVE [Abstract!Next]_(Abstract!vars)
  <2>1. UNCHANGED <<bans, disk>>  BY <1>14 DEF Disconnect, table
  <2>2. CASE End(w)  BY <1>5, <2>1, <2>2
  <2>3. CASE ~End(w)
    <3>1. InWindow(w) /\ UNCHANGED <<pc, snap>>  BY <1>14, <2>3 DEF Disconnect
    <3>2. Reading(w) /\ Reading(w)' /\ WorksFrom(w)' = WorksFrom(w)
      BY <3>1 DEF Reading, InWindow, Synced, WorksFrom
    <3>3. QED  BY <1>4, <1>a, <2>1, <3>2
  <2>4. QED  BY <2>2, <2>3
<1>15. CASE Crash
  <2>1. PICK w \in Workers : pc[w] # "idle"  BY <1>15 DEF Crash
  <2>2. ~Reading(w)'  BY <1>15 DEF Crash, Reading, InWindow, Synced
  <2>3. QED  BY <1>3, <1>15, <1>a, <2>2 DEF Crash, table
<1>16. CASE Lapse
  <2>1. Readings' = Readings  BY <1>16 DEF Lapse, local, disk, host, Readings, InWindow, Synced
  <2>2. QED  BY <1>16, <1>a, <2>1, LapsePublishes DEF Lapse
<1>17. CASE ServiceAction
  <2>1. UNCHANGED <<bans, Readings, Published>> /\ loaded' = files
    BY <1>17 DEF ServiceAction, table, local, Readings, Published, InWindow, Synced
  <2>2. files \in [Files -> SUBSET Targets]  BY DEF TypeOK, SharedTypeOK, PolicyFiles
  <2>3. loaded' \in IF Published = {} THEN [Files -> SUBSET Targets] ELSE Published
    BY <2>1, <2>2 DEF Published
  <2>4. Abstract!Restart  BY <1>2, <2>1, <2>3 DEF Abstract!Restart
  <2>5. QED  BY <2>4 DEF Abstract!Next
<1>18. CASE UNCHANGED vars
  <2>1. UNCHANGED <<bans, disk, files, pc, snap>>
    BY <1>18 DEF vars, table, local, disk, host
  <2>2. Readings' = Readings  BY <2>1 DEF Readings, InWindow, Synced
  <2>3. QED  BY <1>2, <1>a, <2>1, <2>2 DEF Abstract!vars
<1>19. QED
  BY <1>6, <1>7, <1>8, <1>9, <1>10, <1>11, <1>12, <1>13, <1>14, <1>15, <1>16, <1>17, <1>18
  DEF Next, Step

LEMMA InitPublishes == Init => Abstract!Init
<1> SUFFICES ASSUME Init PROVE Abstract!Init  OBVIOUS
<1>1. Rendered(bans) = [f \in Files |-> {}]  BY DEF Init, Rendered
<1>2. Readings = {}  BY DEF Init, Readings, InWindow, Synced
<1>3. QED  BY <1>1, <1>2 DEF Init, EmptyFiles, Published, Abstract!Init, Abstract!Nothing

\* With one request at a time, each of which may fail, be dropped amid a write or die,
\* dates that pass, and Postfix restarted by hand at any moment: files that a sync has
\* come through are what the table said at one moment, whole, and Postfix works with
\* anything else only if it was restarted before a later sync came through.
THEOREM BansImplementPublication == OneAtATime => (Spec => ImplementsPublication)
<1> SUFFICES ASSUME OneAtATime PROVE Spec => ImplementsPublication  OBVIOUS
<1>1. TypeOK /\ TypeOK' /\ FilesFollow /\ [Next]_vars => [Abstract!Next]_(Abstract!vars)
  BY NextPublishes
<1>2. QED
  BY <1>1, InitPublishes, TypeCorrect, FollowInvariant, PTL
  DEF Spec, ImplementsPublication, Abstract!Spec
=============================================================================
