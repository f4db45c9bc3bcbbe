----------------------------- MODULE BansProofs -----------------------------
(***************************************************************************)
(* Theorems about Bans, for any number of handlers, targets, requests and  *)
(* rows.  TypeOK is inductive as it stands; what a sync publishes needs    *)
(* the strengthening PublishInv below, what a request did needs AuthorInv. *)
(***************************************************************************)
EXTENDS Bans, TLAPS

LEMMA FilesAre == Files = {1, 2, 3} /\ Commands = {1, 2}
BY DEF Files, Commands, AddressFile, DomainFile, IpFile, Postfix, Dovecot

\* Any rows of the table render to three sets of targets.
LEMMA RenderedType ==
    ASSUME NEW rows, rows \subseteq Row
    PROVE  Rendered(rows) \in PolicyFiles
BY DEF Rendered, PolicyFiles, Row

LEMMA EmptyFilesType == EmptyFiles \in PolicyFiles
BY DEF EmptyFiles, PolicyFiles

-----------------------------------------------------------------------------
(* Type correctness: what each way of leaving a step does to a handler *)

LEMMA EndType ==
    ASSUME HandlerTypeOK, NEW w \in Workers, End(w)
    PROVE  HandlerTypeOK'
<1>1. "idle" \in Steps /\ [c \in Commands |-> "ok"] \in [Commands -> CommandOutcomes]
  BY DEF Steps, CommandOutcomes
<1>2. 1 \in Files
  BY FilesAre
<1>. QED
  BY <1>1, <1>2, EmptyFilesType DEF HandlerTypeOK, End, InWindow

LEMMA GotoType ==
    ASSUME HandlerTypeOK, NEW w \in Workers, NEW step \in Steps, Goto(w, step),
           req[w] \in Requests /\ req[w].op \in ServedAt(step),
           step \notin {"reload", "log_reload", "respond"},
           attached[w] \/ step \in {"truncate", "fill"}
    PROVE  HandlerTypeOK'
BY DEF HandlerTypeOK, Goto, InWindow

\* A step of one of the loops: over the files, the commands or their results.
LEMMA LoopType ==
    ASSUME HandlerTypeOK, NEW w \in Workers, NEW step, NEW n \in Files,
           pc' = [pc EXCEPT ![w] = step] /\ at' = [at EXCEPT ![w] = n],
           UNCHANGED <<req, attached>>, snap' \in [Workers -> PolicyFiles],
           outcome' \in [Workers -> [Commands -> CommandOutcomes]],
           warned' \in [Workers -> SUBSET Commands],
           req[w] \in Requests /\ req[w].op \in ServedAt(step),
           \/ step = "truncate"
           \/ step \in {"reload", "log_reload", "respond"} /\ n \in Commands /\ attached[w]
    PROVE  HandlerTypeOK'
BY DEF HandlerTypeOK, InWindow, Steps

\* A handler that serves a request of one operation holds that request's fields.
LEMMA RequestFields ==
    ASSUME NEW r \in Requests
    PROVE  /\ r.op = "add" => r.target \in Targets /\ r.expires \in Expiries
           /\ r.op = "set_active" => r.id \in Nat /\ r.active \in BOOLEAN
           /\ r.op = "delete" => r.id \in Nat
           /\ r.op = "set_active_for_value" => r.target \in Targets /\ r.active \in BOOLEAN
           /\ r.op = "ensure" => r.target \in Targets
BY RequestsAssumption DEF Request, AddressTargets

(* Type correctness: what each write does to the table *)

LEMMA InsertedType ==
    ASSUME TableTypeOK, NEW target \in Targets, NEW expires \in Expiries,
           bans' = Inserted(target, expires), lastId' = lastId + 1
    PROVE  TableTypeOK'
<1>. DEFINE new == [id |-> lastId + 1, target |-> target, expires |-> expires, active |-> TRUE]
<1>1. new \in Row /\ new.id = lastId + 1
  BY DEF Row, TableTypeOK
<1>2. bans' = bans \cup {new}
  BY DEF Inserted
<1>3. lastId' \in Nat /\ \A row \in bans : row.id \in Nat /\ row.id <= lastId
  BY DEF TableTypeOK, Row
<1>. HIDE DEF new
<1>. QED
  BY <1>1, <1>2, <1>3 DEF TableTypeOK

\* Rows taken out and put back changed, each under its own id.
LEMMA ActivatedType ==
    ASSUME TableTypeOK, NEW rows \in SUBSET bans, NEW active \in BOOLEAN,
           bans' = (bans \ rows) \cup Activated(rows, active), lastId' = lastId
    PROVE  TableTypeOK'
BY DEF TableTypeOK, Row, Activated

LEMMA ReinstatedType ==
    ASSUME TableTypeOK, NEW rows \in SUBSET bans,
           bans' = (bans \ rows) \cup Reinstated(rows), lastId' = lastId
    PROVE  TableTypeOK'
<1>. DEFINE G(row) == [row EXCEPT !.active = TRUE, !.expires = "none"]
<1>1. \A row \in bans : G(row) \in Row /\ G(row).id = row.id
  <2>. SUFFICES ASSUME NEW row \in Row  PROVE G(row) \in Row /\ G(row).id = row.id
    BY DEF TableTypeOK
  <2>. QED
    BY DEF Row, Expiries
<1>2. bans' = (bans \ rows) \cup {G(row) : row \in rows}
  BY DEF Reinstated
<1>. HIDE DEF G
<1>3. bans' \subseteq Row
  BY <1>1, <1>2 DEF TableTypeOK
<1>4. ASSUME NEW new \in bans'
      PROVE  \E row \in bans : /\ new.id = row.id
                             /\ \/ new = row /\ row \notin rows
                                \/ new = G(row) /\ row \in rows
  BY <1>1, <1>2
<1>5. lastId' \in Nat /\ \A new \in bans' : new.id <= lastId'
  BY <1>4 DEF TableTypeOK
<1>6. ASSUME NEW r1 \in bans', NEW r2 \in bans', r1.id = r2.id  PROVE r1 = r2
  <2>1. PICK old1 \in bans : /\ r1.id = old1.id
                            /\ \/ r1 = old1 /\ old1 \notin rows
                               \/ r1 = G(old1) /\ old1 \in rows
    BY <1>4
  <2>2. PICK old2 \in bans : /\ r2.id = old2.id
                            /\ \/ r2 = old2 /\ old2 \notin rows
                               \/ r2 = G(old2) /\ old2 \in rows
    BY <1>4
  <2>3. old1 = old2
    BY <1>6, <2>1, <2>2 DEF TableTypeOK
  <2>. QED
    BY <2>1, <2>2, <2>3
<1>. QED
  BY <1>3, <1>5, <1>6 DEF TableTypeOK

LEMMA LapseType ==
    ASSUME TableTypeOK, NEW row \in bans, lastId' = lastId,
           bans' = (bans \ {row}) \cup {[row EXCEPT !.expires = "past"]}
    PROVE  TableTypeOK'
BY DEF TableTypeOK, Row, Expiries

-----------------------------------------------------------------------------

\* The initial state is well typed, with no handler busy and no file written.
LEMMA InitType == Init => TypeOK
<1>1. 1 \in Files /\ "idle" \in Steps
  BY FilesAre DEF Steps
<1>. QED
  BY <1>1, EmptyFilesType
     DEF Init, TypeOK, TableTypeOK, HandlerTypeOK, SharedTypeOK, CommandOutcomes, InWindow

\* Every step of every handler, of a failure and of the clock keeps the types.
LEMMA NextType == TypeOK /\ [Next]_vars => TypeOK'
<1>. SUFFICES ASSUME TypeOK, [Next]_vars  PROVE TypeOK'
  OBVIOUS
<1>. USE DEF TypeOK
<1>1. ASSUME NEW w \in Workers, Begin(w)  PROVE TypeOK'
  <2>1. TableTypeOK' /\ SharedTypeOK'
    BY <1>1 DEF Begin, table, disk, host, ghost, TableTypeOK, SharedTypeOK
  <2>2. PICK r \in Requests : /\ req' = [req EXCEPT ![w] = r]
                              /\ pc' = [pc EXCEPT ![w] = FirstStep(r)]
    BY <1>1 DEF Begin
  <2>3. r.op \in {"add", "set_active", "delete", "set_active_for_value", "ensure"}
    BY RequestsAssumption DEF Request
  <2>4. /\ FirstStep(r) \in Steps \ {"reload", "log_reload", "respond", "truncate", "fill"}
        /\ r.op \in ServedAt(FirstStep(r))
    BY <2>3 DEF FirstStep, Steps, ServedAt
  <2>5. HandlerTypeOK'
    BY <1>1, <2>2, <2>4 DEF Begin, HandlerTypeOK, InWindow
  <2>. QED
    BY <2>1, <2>5
<1>2. ASSUME NEW w \in Workers, InsertBan(w)  PROVE TypeOK'
  <2>1. req[w].target \in Targets /\ req[w].expires \in Expiries
    BY <1>2, RequestFields DEF InsertBan, HandlerTypeOK, ServedAt
  <2>2. TableTypeOK'
    BY <1>2, <2>1, InsertedType DEF InsertBan, Write
  <2>. QED
    BY <1>2, <2>2, GotoType
       DEF InsertBan, Write, HandlerTypeOK, SharedTypeOK, ServedAt, Steps, InWindow, disk, host
<1>3. ASSUME NEW w \in Workers, UpdateById(w)  PROVE TypeOK'
  <2>1. req[w].active \in BOOLEAN
    BY <1>3, RequestFields DEF UpdateById, HandlerTypeOK, ServedAt
  <2>2. TableTypeOK'
    BY <1>3, <2>1, ActivatedType DEF UpdateById, Write, RowsById
  <2>. QED
    BY <1>3, <2>2, GotoType
       DEF UpdateById, Write, HandlerTypeOK, SharedTypeOK, ServedAt, Steps, InWindow, disk, host
<1>4. ASSUME NEW w \in Workers, FetchById(w)  PROVE TypeOK'
  <2>1. TableTypeOK' /\ SharedTypeOK'
    BY <1>4 DEF FetchById, table, disk, host, ghost, TableTypeOK, SharedTypeOK
  <2>2. CASE End(w)
    BY <2>1, <2>2, EndType
  <2>3. CASE Goto(w, "audit")
    BY <1>4, <2>1, <2>3, GotoType
       DEF FetchById, HandlerTypeOK, ServedAt, Steps, InWindow
  <2>. QED
    BY <1>4, <2>2, <2>3 DEF FetchById
<1>5. ASSUME NEW w \in Workers, LookupById(w)  PROVE TypeOK'
  <2>1. TableTypeOK' /\ SharedTypeOK'
    BY <1>5 DEF LookupById, table, disk, host, ghost, TableTypeOK, SharedTypeOK
  <2>2. CASE End(w)
    BY <2>1, <2>2, EndType
  <2>3. CASE Goto(w, "delete")
    BY <1>5, <2>1, <2>3, GotoType
       DEF LookupById, HandlerTypeOK, ServedAt, Steps, InWindow
  <2>. QED
    BY <1>5, <2>2, <2>3 DEF LookupById
<1>6. ASSUME NEW w \in Workers, DeleteById(w)  PROVE TypeOK'
  <2>1. TableTypeOK'
    BY <1>6 DEF DeleteById, Write, TableTypeOK
  <2>. QED
    BY <1>6, <2>1, GotoType
       DEF DeleteById, Write, HandlerTypeOK, SharedTypeOK, ServedAt, Steps, InWindow, disk, host
<1>7. ASSUME NEW w \in Workers, UpdateByValue(w)  PROVE TypeOK'
  <2>1. req[w].active \in BOOLEAN
    BY <1>7, RequestFields DEF UpdateByValue, HandlerTypeOK, ServedAt
  <2>2. TableTypeOK'
    BY <1>7, <2>1, ActivatedType DEF UpdateByValue, Write, RowsOf
  <2>. QED
    BY <1>7, <2>2, GotoType
       DEF UpdateByValue, Write, HandlerTypeOK, SharedTypeOK, ServedAt, Steps, InWindow, disk, host
<1>8. ASSUME NEW w \in Workers, EnsureUpdate(w)  PROVE TypeOK'
  <2>1. TableTypeOK'
    BY <1>8, ReinstatedType DEF EnsureUpdate, Write, RowsOf
  <2>2. PICK step \in {"ensure_insert", "audit"} : Goto(w, step)
    BY <1>8 DEF EnsureUpdate
  <2>. QED
    BY <1>8, <2>1, <2>2, GotoType
       DEF EnsureUpdate, Write, HandlerTypeOK, SharedTypeOK, ServedAt, Steps, InWindow, disk, host
<1>9. ASSUME NEW w \in Workers, EnsureInsert(w)  PROVE TypeOK'
  <2>1. req[w].target \in Targets
    BY <1>9, RequestFields DEF EnsureInsert, HandlerTypeOK, ServedAt
  <2>2. TableTypeOK'
    BY <1>9, <2>1, InsertedType DEF EnsureInsert, Write, Expiries
  <2>. QED
    BY <1>9, <2>2, GotoType
       DEF EnsureInsert, Write, HandlerTypeOK, SharedTypeOK, ServedAt, Steps, InWindow, disk, host
<1>10. ASSUME NEW w \in Workers, LogEvent(w)  PROVE TypeOK'
  <2>1. TableTypeOK' /\ SharedTypeOK'
    BY <1>10 DEF LogEvent, table, disk, host, ghost, TableTypeOK, SharedTypeOK
  <2>. QED
    BY <1>10, <2>1, GotoType
       DEF LogEvent, HandlerTypeOK, ServedAt, Steps, InWindow
<1>11. ASSUME NEW w \in Workers, SelectActive(w)  PROVE TypeOK'
  <2>1. TableTypeOK'
    BY <1>11 DEF SelectActive, table, TableTypeOK
  <2>2. SharedTypeOK'
    BY <1>11 DEF SelectActive, disk, host, SharedTypeOK
  <2>3. Rendered(bans) \in PolicyFiles /\ AddressFile \in Files
    BY RenderedType DEF TableTypeOK, Files
  <2>4. HandlerTypeOK'
    BY <1>11, <2>3 DEF SelectActive, HandlerTypeOK, ServedAt, Steps, InWindow
  <2>. QED
    BY <2>1, <2>2, <2>4
<1>12. ASSUME NEW w \in Workers, Truncate(w)  PROVE TypeOK'
  <2>1. TableTypeOK'
    BY <1>12 DEF Truncate, table, TableTypeOK
  <2>2. SharedTypeOK'
    BY <1>12 DEF Truncate, ghost, SharedTypeOK, PolicyFiles
  <2>3. HandlerTypeOK'
    BY <1>12, GotoType DEF Truncate, HandlerTypeOK, ServedAt, Steps, InWindow
  <2>. QED
    BY <2>1, <2>2, <2>3
<1>13. ASSUME NEW w \in Workers, Fill(w)  PROVE TypeOK'
  <2>1. TableTypeOK'
    BY <1>13 DEF Fill, table, TableTypeOK
  <2>2. at[w] \in Files /\ snap[w][at[w]] \subseteq Targets /\ files[at[w]] \subseteq Targets
    BY DEF HandlerTypeOK, SharedTypeOK, PolicyFiles
  <2>3. \A left \in Leftovers(files[at[w]], snap[w][at[w]]) : left \subseteq Targets
    BY <2>2 DEF Leftovers
  <2>4. SharedTypeOK'
    BY <1>13, <2>2, <2>3 DEF Fill, ghost, SharedTypeOK, PolicyFiles
  <2>5. CASE ~attached[w]
    BY <1>13, <2>1, <2>4, <2>5, EndType DEF Fill
  <2>6. CASE attached[w]
    <3>1. at[w] = LastFile \/ at[w] + 1 \in Files
      BY <2>2, FilesAre DEF LastFile, IpFile
    <3>2. Postfix \in Files /\ Postfix \in Commands
      BY FilesAre DEF Postfix
    <3>3. /\ UNCHANGED <<req, attached, outcome, warned>>
          /\ snap' = [snap EXCEPT ![w] = IF at[w] = LastFile THEN EmptyFiles ELSE @]
      BY <1>13, <2>6 DEF Fill
    <3>4. snap' \in [Workers -> PolicyFiles]
      <4>1. snap \in [Workers -> PolicyFiles]
        BY DEF HandlerTypeOK
      <4>. QED
        BY <3>3, <4>1, EmptyFilesType
    <3>5. PICK step \in {"truncate", "reload"}, n \in Files :
              /\ pc' = [pc EXCEPT ![w] = step] /\ at' = [at EXCEPT ![w] = n]
              /\ step = "reload" => n \in Commands
      BY <1>13, <2>6, <3>1, <3>2 DEF Fill
    <3>6. req[w] \in Requests /\ req[w].op \in ServedAt(step)
      BY <1>13 DEF Fill, HandlerTypeOK, ServedAt
    <3>7. /\ outcome' \in [Workers -> [Commands -> CommandOutcomes]]
          /\ warned' \in [Workers -> SUBSET Commands]
      BY <3>3 DEF HandlerTypeOK
    <3>8. HandlerTypeOK'
      BY <2>6, <3>3, <3>4, <3>5, <3>6, <3>7, LoopType
    <3>. QED
      BY <2>1, <2>4, <3>8
  <2>. QED
    BY <2>5, <2>6 DEF HandlerTypeOK
<1>14. ASSUME NEW w \in Workers, Reload(w)  PROVE TypeOK'
  <2>1. TableTypeOK' /\ SharedTypeOK'
    BY <1>14 DEF Reload, table, ghost, TableTypeOK, SharedTypeOK
  <2>2. at[w] \in Commands /\ Commands \subseteq Files
    BY <1>14, FilesAre DEF Reload, HandlerTypeOK
  <2>3. /\ at[w] = LastCommand \/ at[w] + 1 \in Commands
        /\ Postfix \in Commands
    BY <2>2, FilesAre DEF LastCommand, Dovecot, Postfix
  <2>4. PICK step \in {"reload", "log_reload"}, n \in Commands :
            pc' = [pc EXCEPT ![w] = step] /\ at' = [at EXCEPT ![w] = n]
    BY <1>14, <2>3 DEF Reload, HandlerTypeOK
  <2>5. outcome' \in [Workers -> [Commands -> CommandOutcomes]]
    BY <1>14, <2>2, OutcomesAssumption DEF Reload, HandlerTypeOK
  <2>6. /\ req[w] \in Requests /\ req[w].op \in ServedAt(step)
        /\ attached[w]
    BY <1>14 DEF Reload, HandlerTypeOK, ServedAt, InWindow
  <2>7. HandlerTypeOK'
    BY <1>14, <2>2, <2>4, <2>5, <2>6, LoopType DEF Reload, HandlerTypeOK
  <2>. QED
    BY <2>1, <2>7
<1>15. ASSUME NEW w \in Workers, LogReload(w)  PROVE TypeOK'
  <2>1. TableTypeOK' /\ SharedTypeOK'
    BY <1>15 DEF LogReload, table, disk, host, ghost, TableTypeOK, SharedTypeOK
  <2>2. at[w] \in Commands /\ Commands \subseteq Files
    BY <1>15, FilesAre DEF LogReload, HandlerTypeOK
  <2>3. at[w] = LastCommand \/ at[w] + 1 \in Commands
    BY <2>2, FilesAre DEF LastCommand, Dovecot
  <2>4. PICK step \in {"log_reload", "respond"}, n \in Commands :
            pc' = [pc EXCEPT ![w] = step] /\ at' = [at EXCEPT ![w] = n]
    BY <1>15, <2>2, <2>3 DEF LogReload, HandlerTypeOK
  <2>5. warned' \in [Workers -> SUBSET Commands]
    BY <1>15, <2>2 DEF LogReload, HandlerTypeOK
  <2>6. /\ req[w] \in Requests /\ req[w].op \in ServedAt(step)
        /\ attached[w]
    BY <1>15 DEF LogReload, HandlerTypeOK, ServedAt, InWindow
  <2>7. HandlerTypeOK'
    BY <1>15, <2>2, <2>4, <2>5, <2>6, LoopType DEF LogReload, HandlerTypeOK
  <2>. QED
    BY <2>1, <2>7
<1>16. ASSUME NEW w \in Workers, Respond(w)  PROVE TypeOK'
  BY <1>16, EndType DEF Respond, table, disk, host, ghost, TableTypeOK, SharedTypeOK
<1>17. ASSUME NEW w \in Workers, Fail(w)  PROVE TypeOK'
  BY <1>17, EndType DEF Fail, Abandon, table, disk, host, TableTypeOK, SharedTypeOK
<1>18. ASSUME NEW w \in Workers, Disconnect(w)  PROVE TypeOK'
  <2>1. TableTypeOK' /\ SharedTypeOK'
    BY <1>18 DEF Disconnect, Abandon, table, disk, host, TableTypeOK, SharedTypeOK
  <2>2. CASE End(w)
    BY <2>1, <2>2, EndType
  <2>3. CASE ~End(w)
    BY <1>18, <2>1, <2>3 DEF Disconnect, HandlerTypeOK, InWindow
  <2>. QED
    BY <2>2, <2>3
<1>19. ASSUME Crash  PROVE TypeOK'
  <2>1. TableTypeOK' /\ SharedTypeOK'
    BY <1>19 DEF Crash, table, disk, host, TableTypeOK, SharedTypeOK
  <2>2. "idle" \in Steps /\ 1 \in Files /\ "ok" \in CommandOutcomes
    BY FilesAre DEF Steps, CommandOutcomes
  <2>3. HandlerTypeOK'
    BY <1>19, <2>2, EmptyFilesType DEF Crash, HandlerTypeOK, InWindow
  <2>. QED
    BY <2>1, <2>3
<1>20. ASSUME Lapse  PROVE TypeOK'
  <2>1. TableTypeOK'
    BY <1>20, LapseType DEF Lapse
  <2>. QED
    BY <1>20, <2>1 DEF Lapse, local, disk, host, HandlerTypeOK, SharedTypeOK, InWindow
<1>21. CASE UNCHANGED vars
  BY <1>21 DEF vars, table, local, disk, host, ghost, TableTypeOK, HandlerTypeOK, SharedTypeOK, InWindow
<1>22. ASSUME ServiceAction  PROVE TypeOK'
  BY <1>22 DEF ServiceAction, table, local, ghost, TableTypeOK, HandlerTypeOK, SharedTypeOK, InWindow
<1>. QED
  BY <1>1, <1>2, <1>3, <1>4, <1>5, <1>6, <1>7, <1>8, <1>9, <1>10, <1>11, <1>12, <1>13,
     <1>14, <1>15, <1>16, <1>17, <1>18, <1>19, <1>20, <1>21, <1>22
     DEF Next, Step

\* Every reachable state is well typed: handlers hold requests that fit the step
\* they stand at, row ids stay unique whatever inserts, updates and deletes
\* interleave, and only a handler amid a write of a policy file is detached.
THEOREM TypeCorrect == Spec => []TypeOK
BY InitType, NextType, PTL DEF Spec

-----------------------------------------------------------------------------
(* What a sync publishes *)

\* While one handler is the holder no other is amid its writes, so the holder's
\* writes are not mixed with any: what it has written is what it read, and what
\* it read is still what the table says.
PublishInv ==
    holder # Nobody =>
        /\ \A v \in Workers \ {holder} : ~InWindow(v)
        /\ InWindow(holder) => attached[holder] /\ snap[holder] = Rendered(bans)
        /\ pc[holder] = "fill" => files[at[holder]] = {}
        /\ \A f \in Files : Written(f) => files[f] = Rendered(bans)[f]
        /\ PostfixReloaded(holder) => loaded = Rendered(bans)

\* A handler that leaves a step outside its writes disturbs nobody's sync.
LEMMA OutsideWindow ==
    ASSUME TypeOK, PublishInv, NEW w \in Workers, ~InWindow(w), ~InWindow(w)',
           \A v \in Workers \ {w} : pc'[v] = pc[v] /\ at'[v] = at[v] /\ snap'[v] = snap[v]
                                    /\ attached'[v] = attached[v] /\ outcome'[v] = outcome[v],
           ~PostfixReloaded(w)',
           UNCHANGED <<bans, host, holder>>
    PROVE  PublishInv'
<1>1. Rendered(bans)' = Rendered(bans)
  BY DEF Rendered
<1>. QED
  BY <1>1 DEF PublishInv, TypeOK, SharedTypeOK, InWindow, Written, PostfixReloaded, host

\* A handler that ends outside its writes, or whose sync Abandon then gives up.
LEMMA EndInv ==
    ASSUME TypeOK, PublishInv, NEW w \in Workers, End(w), Abandon(w),
           UNCHANGED <<bans, host>>
    PROVE  PublishInv'
<1>1. Rendered(bans)' = Rendered(bans)
  BY DEF Rendered
<1>2. ~InWindow(w)' /\ ~PostfixReloaded(w)'
  BY DEF End, TypeOK, HandlerTypeOK, InWindow, PostfixReloaded
<1>3. \A v \in Workers \ {w} : /\ pc'[v] = pc[v] /\ at'[v] = at[v] /\ snap'[v] = snap[v]
                               /\ attached'[v] = attached[v] /\ outcome'[v] = outcome[v]
  BY DEF End, TypeOK, HandlerTypeOK
<1>4. CASE holder' = Nobody
  BY <1>4 DEF PublishInv
<1>5. CASE holder' # Nobody /\ holder' = w
  BY <1>1, <1>2, <1>3, <1>5
     DEF PublishInv, Abandon, Written, InWindow, host
<1>6. CASE holder' # Nobody /\ holder' # w
  <2>1. holder' = holder /\ holder \in Workers \ {w}
    BY <1>6 DEF Abandon, TypeOK, SharedTypeOK
  <2>. QED
    BY <1>1, <1>2, <1>3, <2>1
       DEF PublishInv, Written, InWindow, PostfixReloaded, host
<1>. QED
  BY <1>4, <1>5, <1>6

\* Outside the writes of the holder every file is up to date.
LEMMA AllWritten ==
    ASSUME TypeOK, PublishInv, holder # Nobody, ~InWindow(holder)
    PROVE  files = Rendered(bans)
<1>1. \A f \in Files : files[f] = Rendered(bans)[f]
  BY DEF PublishInv, Written
<1>2. files \in PolicyFiles /\ Rendered(bans) \in PolicyFiles
  BY RenderedType DEF TypeOK, SharedTypeOK, TableTypeOK
<1>. QED
  BY <1>1, <1>2 DEF PolicyFiles

LEMMA InitPublish == Init => PublishInv
BY DEF Init, PublishInv

LEMMA NextPublish == TypeOK /\ PublishInv /\ [Next]_vars => PublishInv'
<1>. SUFFICES ASSUME TypeOK, PublishInv, [Next]_vars  PROVE PublishInv'
  OBVIOUS
<1>1. ASSUME NEW w \in Workers, Begin(w)  PROVE PublishInv'
  <2>1. PICK r \in Requests : pc' = [pc EXCEPT ![w] = FirstStep(r)]
    BY <1>1 DEF Begin
  <2>2. r.op \in {"add", "set_active", "delete", "set_active_for_value", "ensure"}
    BY RequestsAssumption DEF Request
  <2>3. FirstStep(r) \in {"insert", "update", "lookup", "update_value", "ensure"}
    BY <2>2 DEF FirstStep
  <2>4. ~InWindow(w) /\ ~InWindow(w)' /\ ~PostfixReloaded(w)'
    BY <1>1, <2>1, <2>3 DEF Begin, TypeOK, HandlerTypeOK, InWindow, PostfixReloaded
  <2>. QED
    BY <1>1, <2>1, <2>4, OutsideWindow DEF Begin, table, disk, ghost, TypeOK, HandlerTypeOK
<1>2. ASSUME NEW w \in Workers, NEW rows, Write(w, rows)  PROVE PublishInv'
  BY <1>2 DEF Write, PublishInv
<1>3. ASSUME NEW w \in Workers, FetchById(w) \/ LookupById(w) \/ LogEvent(w)
      PROVE  PublishInv'
  <2>1. CASE End(w)
    <3>1. Abandon(w)
      BY <1>3 DEF FetchById, LookupById, LogEvent, Abandon, InWindow, ghost
    <3>. QED
      BY <1>3, <2>1, <3>1, EndInv DEF FetchById, LookupById, LogEvent, table, disk
  <2>2. CASE ~End(w)
    <3>1. PICK step \in {"audit", "delete", "select"} : Goto(w, step)
      BY <1>3, <2>2 DEF FetchById, LookupById, LogEvent
    <3>2. ~InWindow(w) /\ ~InWindow(w)' /\ ~PostfixReloaded(w)'
      BY <1>3, <3>1
         DEF FetchById, LookupById, LogEvent, Goto, TypeOK, HandlerTypeOK, InWindow, PostfixReloaded
    <3>3. UNCHANGED <<bans, host, holder>>
      BY <1>3 DEF FetchById, LookupById, LogEvent, table, disk, ghost
    <3>. QED
      BY <3>1, <3>2, <3>3, OutsideWindow DEF Goto, TypeOK, HandlerTypeOK
  <2>. QED
    BY <2>1, <2>2
<1>4. ASSUME NEW w \in Workers, SelectActive(w)  PROVE PublishInv'
  <2>1. Rendered(bans)' = Rendered(bans)
    BY <1>4 DEF SelectActive, table, Rendered
  <2>2. CASE holder' = Nobody
    BY <2>2 DEF PublishInv
  <2>3. CASE holder' # Nobody
    <3>1. holder' = w /\ \A v \in Workers \ {w} : ~InWindow(v)
      BY <1>4, <2>3 DEF SelectActive
    <3>2. /\ pc'[w] = "truncate" /\ at'[w] = AddressFile /\ snap'[w] = Rendered(bans)
          /\ attached'[w] /\ \A v \in Workers \ {w} : pc'[v] = pc[v]
      BY <1>4 DEF SelectActive, TypeOK, HandlerTypeOK, InWindow
    <3>3. \A f \in Files : ~(f < AddressFile)
      BY FilesAre DEF AddressFile
    <3>. QED
      BY <2>1, <3>1, <3>2, <3>3 DEF PublishInv, InWindow, Written, PostfixReloaded
  <2>. QED
    BY <2>2, <2>3
<1>5. ASSUME NEW w \in Workers, Truncate(w)  PROVE PublishInv'
  <2>1. Rendered(bans)' = Rendered(bans)
    BY <1>5 DEF Truncate, table, Rendered
  <2>2. CASE holder = Nobody
    BY <1>5, <2>2 DEF Truncate, ghost, PublishInv
  <2>3. CASE holder # Nobody
    <3>1. holder = w /\ InWindow(w)
      BY <1>5, <2>3 DEF Truncate, InWindow, PublishInv
    <3>2. pc' = [pc EXCEPT ![w] = "fill"] /\ UNCHANGED <<at, snap, attached, outcome>>
      BY <1>5 DEF Truncate, Goto
    <3>3. at[w] \in {1, 2, 3} /\ files' = [files EXCEPT ![at[w]] = {}]
      BY <1>5, FilesAre DEF Truncate, TypeOK, HandlerTypeOK
    <3>4. \A f \in Files : f < at[w] => files'[f] = Rendered(bans)[f]
      BY <2>3, <3>1, <3>3, FilesAre DEF PublishInv, Written, TypeOK, SharedTypeOK, PolicyFiles
    <3>5. files'[at[w]] = {}
      BY <3>3, FilesAre DEF TypeOK, SharedTypeOK, PolicyFiles
    <3>. QED
      BY <1>5, <2>1, <2>3, <3>1, <3>2, <3>4, <3>5
         DEF Truncate, ghost, PublishInv, InWindow, Written, PostfixReloaded, TypeOK, HandlerTypeOK
  <2>. QED
    BY <2>2, <2>3
<1>6. ASSUME NEW w \in Workers, Fill(w)  PROVE PublishInv'
  <2>1. Rendered(bans)' = Rendered(bans) /\ holder' = holder /\ loaded' = loaded
    BY <1>6 DEF Fill, table, ghost, Rendered
  <2>2. CASE holder = Nobody
    BY <2>1, <2>2 DEF PublishInv
  <2>3. CASE holder # Nobody
    <3>1. /\ holder = w /\ InWindow(w) /\ attached[w]
          /\ snap[w] = Rendered(bans) /\ files[at[w]] = {}
      BY <1>6, <2>3 DEF Fill, InWindow, PublishInv
    <3>2. at[w] \in {1, 2, 3}
      BY FilesAre DEF TypeOK, HandlerTypeOK
    <3>3. files' = [files EXCEPT ![at[w]] = Rendered(bans)[at[w]]]
      <4>1. \A new : Leftovers({}, new) = {{}}
        BY DEF Leftovers
      <4>2. PICK left \in Leftovers(files[at[w]], snap[w][at[w]]) :
                files' = [files EXCEPT ![at[w]] = snap[w][at[w]] \cup left]
        BY <1>6 DEF Fill
      <4>3. left = {}
        BY <3>1, <4>1, <4>2
      <4>. QED
        BY <3>1, <4>2, <4>3
    <3>4. \A f \in Files : f <= at[w] => files'[f] = Rendered(bans)[f]
      BY <2>3, <3>1, <3>2, <3>3, FilesAre DEF PublishInv, Written, TypeOK, SharedTypeOK, PolicyFiles
    <3>5. \A v \in Workers \ {w} : ~InWindow(v)'
      BY <1>6, <2>3, <3>1 DEF Fill, InWindow, PublishInv, TypeOK, HandlerTypeOK
    <3>6. CASE at[w] = LastFile
      <4>1. pc'[w] = "reload" /\ at'[w] = Postfix
        BY <1>6, <3>1, <3>6 DEF Fill, TypeOK, HandlerTypeOK
      <4>2. \A f \in Files : files'[f] = Rendered(bans)[f]
        BY <3>4, <3>6, FilesAre DEF LastFile, IpFile
      <4>. QED
        BY <2>1, <3>1, <3>5, <4>1, <4>2 DEF PublishInv, InWindow, PostfixReloaded
    <3>7. CASE at[w] # LastFile
      <4>1. pc'[w] = "truncate" /\ at'[w] = at[w] + 1 /\ UNCHANGED <<snap, attached>>
        BY <1>6, <3>1, <3>7 DEF Fill, TypeOK, HandlerTypeOK
      <4>2. \A f \in Files : f < at'[w] => f <= at[w]
        BY <3>2, <4>1, FilesAre
      <4>. QED
        BY <2>1, <3>1, <3>4, <3>5, <4>1, <4>2
           DEF PublishInv, InWindow, Written, PostfixReloaded
    <3>. QED
      BY <3>6, <3>7
  <2>. QED
    BY <2>2, <2>3
<1>7. ASSUME NEW w \in Workers, Reload(w)  PROVE PublishInv'
  <2>1. Rendered(bans)' = Rendered(bans) /\ holder' = holder /\ files' = files
        /\ UNCHANGED <<snap, attached>>
    BY <1>7 DEF Reload, table, ghost, Rendered
  <2>2. CASE holder = Nobody
    BY <2>1, <2>2 DEF PublishInv
  <2>3. CASE holder # Nobody
    <3>1. PICK o \in Outcomes :
              /\ outcome' = [outcome EXCEPT ![w][at[w]] = o]
              /\ \/ at[w] = Postfix /\ loaded' = files
                 \/ (at[w] # Postfix \/ o # "ok") /\ loaded' = loaded
      BY <1>7 DEF Reload
    <3>2. /\ pc[w] = "reload" /\ pc'[w] \in {"reload", "log_reload"}
          /\ \A v \in Workers \ {w} : pc'[v] = pc[v] /\ at'[v] = at[v]
                                      /\ outcome'[v] = outcome[v]
      BY <1>7, <3>1 DEF Reload, TypeOK, HandlerTypeOK
    <3>3. holder \in Workers
      BY <2>3 DEF TypeOK, SharedTypeOK
    <3>4. \A v \in Workers : InWindow(v)' <=> InWindow(v)
      BY <3>2 DEF InWindow
    <3>5. InWindow(holder) => pc'[holder] = pc[holder] /\ at'[holder] = at[holder]
      BY <3>2, <3>3 DEF InWindow
    <3>6. PostfixReloaded(holder)' => loaded' = Rendered(bans)
      <4>. SUFFICES ASSUME PostfixReloaded(holder)'  PROVE loaded' = Rendered(bans)
        OBVIOUS
      <4>1. ~InWindow(holder)
        BY <2>1, <3>4, <3>3 DEF PostfixReloaded, InWindow
      <4>2. files = Rendered(bans)
        BY <2>3, <4>1, AllWritten
      <4>3. CASE loaded' = files
        BY <4>2, <4>3
      <4>4. CASE holder # w /\ loaded' = loaded
        BY <2>1, <2>3, <3>2, <3>3, <4>4 DEF PostfixReloaded, PublishInv
      <4>5. CASE holder = w /\ loaded' = loaded /\ loaded' # files
        <5>1. at[w] \in Commands /\ Postfix \in Commands
          BY <3>2, FilesAre DEF TypeOK, HandlerTypeOK, Postfix
        <5>2. outcome'[w][at[w]] = o /\ \A c \in Commands \ {at[w]} : outcome'[w][c] = outcome[w][c]
          BY <3>1, <5>1 DEF TypeOK, HandlerTypeOK
        <5>3. outcome'[w][Postfix] = "ok"
          BY <2>1, <4>5 DEF PostfixReloaded
        <5>4. at[w] # Postfix
          BY <3>1, <4>5, <5>2, <5>3
        <5>5. PostfixReloaded(w)
          BY <3>2, <5>1, <5>2, <5>3, <5>4 DEF PostfixReloaded
        <5>. QED
          BY <2>3, <4>5, <5>5 DEF PublishInv
      <4>. QED
        BY <3>1, <4>3, <4>4, <4>5
    <3>. QED
      BY <2>1, <2>3, <3>2, <3>3, <3>4, <3>5, <3>6 DEF PublishInv, Written, InWindow
  <2>. QED
    BY <2>2, <2>3
<1>8. ASSUME NEW w \in Workers, LogReload(w)  PROVE PublishInv'
  <2>1. Rendered(bans)' = Rendered(bans) /\ UNCHANGED <<host, holder, snap, attached, outcome>>
    BY <1>8 DEF LogReload, table, disk, ghost, Rendered
  <2>2. /\ pc[w] = "log_reload" /\ pc'[w] \in {"log_reload", "respond"}
        /\ \A v \in Workers \ {w} : pc'[v] = pc[v] /\ at'[v] = at[v]
    BY <1>8 DEF LogReload, TypeOK, HandlerTypeOK
  <2>3. \A v \in Workers : InWindow(v)' <=> InWindow(v)
    BY <2>2 DEF InWindow
  <2>4. \A v \in Workers : PostfixReloaded(v)' => PostfixReloaded(v)
    BY <2>1, <2>2 DEF PostfixReloaded
  <2>5. holder \in Workers \cup {Nobody}
    BY DEF TypeOK, SharedTypeOK
  <2>6. InWindow(holder) /\ holder \in Workers => pc'[holder] = pc[holder] /\ at'[holder] = at[holder]
    BY <2>2 DEF InWindow
  <2>. QED
    BY <2>1, <2>2, <2>3, <2>4, <2>5, <2>6 DEF PublishInv, Written, InWindow, host
<1>9. ASSUME NEW w \in Workers, Respond(w)  PROVE PublishInv'
  <2>1. Abandon(w)
    BY <1>9 DEF Respond, Abandon, InWindow, ghost
  <2>. QED
    BY <1>9, <2>1, EndInv DEF Respond, table, disk
<1>10. ASSUME NEW w \in Workers, Fail(w)  PROVE PublishInv'
  BY <1>10, EndInv DEF Fail, table, disk
<1>11. ASSUME NEW w \in Workers, Disconnect(w)  PROVE PublishInv'
  <2>1. CASE End(w)
    BY <1>11, <2>1, EndInv DEF Disconnect, table, disk
  <2>2. CASE ~End(w)
    <3>1. /\ InWindow(w) /\ Abandon(w)
          /\ attached' = [attached EXCEPT ![w] = FALSE]
          /\ UNCHANGED <<pc, at, snap, outcome, bans, host>>
      BY <1>11, <2>2 DEF Disconnect, table, disk
    <3>2. Rendered(bans)' = Rendered(bans)
      BY <3>1 DEF Rendered
    <3>3. holder' # Nobody => holder' = holder /\ holder # w
      BY <3>1 DEF Abandon
    <3>. QED
      BY <3>1, <3>2, <3>3
         DEF PublishInv, TypeOK, HandlerTypeOK, InWindow, Written, PostfixReloaded, host
  <2>. QED
    BY <2>1, <2>2
<1>12. ASSUME Crash  PROVE PublishInv'
  <2>1. CASE holder' = Nobody
    BY <2>1 DEF PublishInv
  <2>2. CASE holder' # Nobody
    <3>1. holder' = holder /\ holder \in Workers /\ ~InWindow(holder)
      BY <1>12, <2>2 DEF Crash, TypeOK, SharedTypeOK
    <3>2. files' = Rendered(bans) /\ Rendered(bans)' = Rendered(bans)
      BY <1>12, <2>2, <3>1, AllWritten DEF Crash, table, disk, host, Rendered
    <3>3. \A v \in Workers : pc'[v] = "idle"
      BY <1>12 DEF Crash
    <3>. QED
      BY <3>1, <3>2, <3>3 DEF PublishInv, InWindow, PostfixReloaded
  <2>. QED
    BY <2>1, <2>2
<1>13. ASSUME Lapse  PROVE PublishInv'
  BY <1>13 DEF Lapse, PublishInv
<1>14. CASE UNCHANGED vars
  <2>1. Rendered(bans)' = Rendered(bans)
    BY <1>14 DEF vars, table, Rendered
  <2>. QED
    BY <1>14, <2>1
       DEF vars, table, local, disk, host, ghost, PublishInv, InWindow, Written, PostfixReloaded
<1>15. ASSUME ServiceAction  PROVE PublishInv'
  <2>1. Rendered(bans)' = Rendered(bans)
    BY <1>15 DEF ServiceAction, table, Rendered
  <2>2. ASSUME holder # Nobody, PostfixReloaded(holder)  PROVE loaded' = Rendered(bans)
    <3>1. ~InWindow(holder)
      BY <2>2 DEF PostfixReloaded, InWindow
    <3>. QED
      BY <1>15, <2>2, <3>1, AllWritten DEF ServiceAction
  <2>. QED
    BY <1>15, <2>1, <2>2
       DEF ServiceAction, local, ghost, PublishInv, InWindow, Written, PostfixReloaded
<1>. QED
  BY <1>1, <1>2, <1>3, <1>4, <1>5, <1>6, <1>7, <1>8, <1>9, <1>10, <1>11, <1>12, <1>13, <1>14, <1>15
     DEF Next, Step, InsertBan, UpdateById, DeleteById, UpdateByValue, EnsureUpdate, EnsureInsert

LEMMA PublishInvariant == Spec => []PublishInv
BY InitPublish, TypeCorrect, NextPublish, PTL DEF Spec

\* For any number of concurrent admins: a sync that no other overlaps leaves the
\* effective bans, and nothing else, in each file it has written, and a table
\* unchanged since then stays published whatever fails, disconnects or crashes.
THEOREM SyncPublishes == Spec => []UndisturbedSyncPublishes
<1>1. PublishInv => UndisturbedSyncPublishes
  BY DEF PublishInv, UndisturbedSyncPublishes
<1>. QED
  BY <1>1, PublishInvariant, PTL

\* Once the Postfix reload of such a sync has succeeded Postfix enforces exactly
\* the effective bans.
THEOREM ReloadEnforces == Spec => []EnforcedAfterReload
<1>1. PublishInv => EnforcedAfterReload
  BY DEF PublishInv, EnforcedAfterReload
<1>. QED
  BY <1>1, PublishInvariant, PTL

-----------------------------------------------------------------------------
(* What a request did to the table, and so to the files *)

InForce(target) == \E row \in bans : row.target = target /\ Effective(row)

\* What the write of a request leaves in the table, until somebody writes it again.
TookInTable(r) ==
    /\ r.op = "add" /\ r.expires \in {"none", "future"} => InForce(r.target)
    /\ r.op = "ensure" => InForce(r.target)
    /\ r.op = "set_active_for_value" /\ ~r.active => \A row \in RowsOf(r.target) : ~row.active
    /\ r.op = "delete" => RowsById(r.id) = {}
    /\ r.op = "set_active" => \A row \in RowsById(r.id) : row.active = r.active

\* The steps behind the last write of a request.
WriteDone == {"fetch", "audit", "select", "truncate", "fill", "reload", "log_reload", "respond"}

\* The strengthening: the one that wrote the table last finds its own write there.
AuthorInv == \A w \in Workers : author = w /\ pc[w] \in WriteDone => TookInTable(req[w])

\* The lines of the files are the targets of effective rows.
LEMMA ListedRendered ==
    ASSUME TypeOK, NEW target \in Targets, files = Rendered(bans)
    PROVE  Listed(target) <=> InForce(target)
<1>1. FileOf(target.kind) \in Files
  BY DEF FileOf, Files
<1>2. files[FileOf(target.kind)] =
        {row.target : row \in {r \in bans : Effective(r) /\ FileOf(r.target.kind) = FileOf(target.kind)}}
  BY <1>1 DEF Rendered
<1>. QED
  BY <1>2 DEF Listed, InForce

LEMMA InsertedRow ==
    ASSUME NEW target, NEW expires, bans' = Inserted(target, expires)
    PROVE  \E row \in bans' : row.target = target /\ row.expires = expires /\ row.active
<1>. DEFINE new == [id |-> lastId + 1, target |-> target, expires |-> expires, active |-> TRUE]
<1>1. new \in bans'
  BY DEF Inserted
<1>2. new.target = target /\ new.expires = expires /\ new.active
  OBVIOUS
<1>. QED
  BY <1>1, <1>2

\* Each write leaves in the table what its request asks for.
LEMMA WriteTakes ==
    ASSUME TypeOK, NEW w \in Workers,
           \/ InsertBan(w) \/ UpdateById(w) \/ DeleteById(w) \/ UpdateByValue(w)
           \/ EnsureUpdate(w) \/ EnsureInsert(w)
    PROVE  /\ author' = w /\ req' = req
           /\ pc'[w] \in WriteDone => TookInTable(req[w])'
<1>0. TableTypeOK /\ HandlerTypeOK
  BY DEF TypeOK
<1>1. author' = w /\ req' = req
  BY DEF InsertBan, UpdateById, DeleteById, UpdateByValue, EnsureUpdate, EnsureInsert, Write, Goto
<1>2. ASSUME InsertBan(w)  PROVE TookInTable(req[w])'
  <2>1. req[w].op = "add"
    BY <1>0, <1>2 DEF InsertBan, HandlerTypeOK, ServedAt
  <2>2. PICK row \in bans' : row.target = req[w].target /\ row.expires = req[w].expires /\ row.active
    BY <1>2, InsertedRow DEF InsertBan, Write
  <2>. QED
    BY <1>1, <2>1, <2>2 DEF TookInTable, InForce, Effective
<1>3. ASSUME UpdateById(w)  PROVE TookInTable(req[w])'
  <2>1. req[w].op = "set_active"
    BY <1>0, <1>3 DEF UpdateById, HandlerTypeOK, ServedAt
  <2>2. bans' = (bans \ RowsById(req[w].id)) \cup Activated(RowsById(req[w].id), req[w].active)
    BY <1>3 DEF UpdateById, Write
  <2>3. ASSUME NEW row \in bans', row.id = req[w].id  PROVE row.active = req[w].active
    <3>1. row \in Activated(RowsById(req[w].id), req[w].active)
      BY <2>2, <2>3 DEF RowsById
    <3>. QED
      BY <1>0, <3>1 DEF Activated, RowsById, TableTypeOK, Row
  <2>. QED
    BY <1>1, <2>1, <2>3 DEF TookInTable, RowsById
<1>4. ASSUME DeleteById(w)  PROVE TookInTable(req[w])'
  <2>1. req[w].op = "delete"
    BY <1>0, <1>4 DEF DeleteById, HandlerTypeOK, ServedAt
  <2>2. bans' = bans \ RowsById(req[w].id)
    BY <1>4 DEF DeleteById, Write
  <2>. QED
    BY <1>1, <2>1, <2>2 DEF TookInTable, RowsById
<1>5. ASSUME UpdateByValue(w)  PROVE TookInTable(req[w])'
  <2>1. req[w].op = "set_active_for_value"
    BY <1>0, <1>5 DEF UpdateByValue, HandlerTypeOK, ServedAt
  <2>2. bans' = (bans \ RowsOf(req[w].target)) \cup Activated(RowsOf(req[w].target), req[w].active)
    BY <1>5 DEF UpdateByValue, Write
  <2>3. ASSUME NEW row \in bans', row.target = req[w].target  PROVE row.active = req[w].active
    <3>1. row \in Activated(RowsOf(req[w].target), req[w].active)
      BY <2>2, <2>3 DEF RowsOf
    <3>. QED
      BY <1>0, <3>1 DEF Activated, RowsOf, TableTypeOK, Row
  <2>. QED
    BY <1>1, <2>1, <2>3 DEF TookInTable, RowsOf
<1>6. ASSUME EnsureUpdate(w), pc'[w] \in WriteDone  PROVE TookInTable(req[w])'
  <2>1. req[w].op = "ensure"
    BY <1>0, <1>6 DEF EnsureUpdate, HandlerTypeOK, ServedAt
  <2>2. RowsOf(req[w].target) # {}
    BY <1>0, <1>6 DEF EnsureUpdate, Goto, HandlerTypeOK, WriteDone
  <2>3. PICK old \in bans : old.target = req[w].target
    BY <2>2 DEF RowsOf
  <2>4. [old EXCEPT !.active = TRUE, !.expires = "none"] \in bans'
    BY <1>6, <2>3 DEF EnsureUpdate, Write, Reinstated, RowsOf
  <2>5. old \in Row
    BY <1>0 DEF TableTypeOK
  <2>6. PICK row \in bans' : row.target = req[w].target /\ row.active = TRUE /\ row.expires = "none"
    BY <2>3, <2>4, <2>5 DEF Row
  <2>. QED
    BY <1>1, <2>1, <2>6 DEF TookInTable, InForce, Effective
<1>7. ASSUME EnsureInsert(w)  PROVE TookInTable(req[w])'
  <2>1. req[w].op = "ensure"
    BY <1>0, <1>7 DEF EnsureInsert, HandlerTypeOK, ServedAt
  <2>2. PICK row \in bans' : row.target = req[w].target /\ row.expires = "none" /\ row.active
    BY <1>7, InsertedRow DEF EnsureInsert, Write
  <2>. QED
    BY <1>1, <2>1, <2>2 DEF TookInTable, InForce, Effective
<1>. QED
  BY <1>1, <1>2, <1>3, <1>4, <1>5, <1>6, <1>7

\* Steps that do not write keep what was written, and only the end of a handler
\* takes its request away.
LEMMA NextAuthor == TypeOK /\ AuthorInv /\ [Next]_vars => AuthorInv'
<1>. SUFFICES ASSUME TypeOK, AuthorInv, [Next]_vars,
                     NEW w \in Workers, author' = w, pc'[w] \in WriteDone
              PROVE  TookInTable(req[w])'
  BY DEF AuthorInv
<1>0. HandlerTypeOK
  BY DEF TypeOK
<1>1. ASSUME UNCHANGED <<bans, author>>, pc[w] \in WriteDone, req'[w] = req[w]
      PROVE  TookInTable(req[w])'
  BY <1>1 DEF AuthorInv, TookInTable, InForce, RowsOf, RowsById
<1>2. ASSUME NEW v \in Workers,
             \/ InsertBan(v) \/ UpdateById(v) \/ DeleteById(v) \/ UpdateByValue(v)
             \/ EnsureUpdate(v) \/ EnsureInsert(v)
      PROVE  TookInTable(req[w])'
  BY <1>2, WriteTakes
<1>3. ASSUME NEW v \in Workers, End(v), UNCHANGED <<bans, author>>
      PROVE  TookInTable(req[w])'
  <2>1. w # v
    BY <1>0, <1>3 DEF End, HandlerTypeOK, WriteDone
  <2>. QED
    BY <1>0, <1>1, <1>3, <2>1 DEF End, HandlerTypeOK
<1>4. ASSUME NEW v \in Workers, Begin(v)  PROVE TookInTable(req[w])'
  <2>1. PICK r \in Requests : req' = [req EXCEPT ![v] = r] /\ pc' = [pc EXCEPT ![v] = FirstStep(r)]
    BY <1>4 DEF Begin
  <2>2. r.op \in {"add", "set_active", "delete", "set_active_for_value", "ensure"}
    BY RequestsAssumption DEF Request
  <2>3. FirstStep(r) \notin WriteDone
    BY <2>2 DEF FirstStep, WriteDone
  <2>4. w # v
    BY <1>0, <2>1, <2>3 DEF HandlerTypeOK
  <2>. QED
    BY <1>0, <1>1, <1>4, <2>1, <2>4 DEF Begin, table, ghost, HandlerTypeOK
<1>5. ASSUME NEW v \in Workers, ~End(v),
             \/ FetchById(v) \/ LookupById(v) \/ LogEvent(v) \/ SelectActive(v) \/ Truncate(v)
             \/ Fill(v) \/ Reload(v) \/ LogReload(v) \/ Disconnect(v)
      PROVE  TookInTable(req[w])'
  <2>1. UNCHANGED <<bans, author, req>>
    BY <1>5 DEF FetchById, LookupById, LogEvent, SelectActive, Truncate, Fill, Reload, LogReload,
                Disconnect, Goto, table, ghost
  <2>2. \/ pc' = pc
        \/ pc[v] \in WriteDone /\ \E step \in Steps : pc' = [pc EXCEPT ![v] = step]
        \/ pc' = [pc EXCEPT ![v] = "delete"]
    BY <1>5 DEF FetchById, LookupById, LogEvent, SelectActive, Truncate, Fill, Reload, LogReload,
                Disconnect, Goto, WriteDone, Steps
  <2>3. pc[w] \in WriteDone
    BY <1>0, <2>2 DEF HandlerTypeOK, WriteDone
  <2>. QED
    BY <1>1, <2>1, <2>3
<1>6. ASSUME NEW v \in Workers, Respond(v) \/ Fail(v)  PROVE TookInTable(req[w])'
  BY <1>3, <1>6 DEF Respond, Fail, table, ghost
<1>7. ASSUME NEW v \in Workers, End(v),
             \/ FetchById(v) \/ LookupById(v) \/ LogEvent(v) \/ SelectActive(v) \/ Truncate(v)
             \/ Fill(v) \/ Reload(v) \/ LogReload(v) \/ Disconnect(v)
      PROVE  TookInTable(req[w])'
  <2>1. UNCHANGED <<bans, author>>
    BY <1>7 DEF FetchById, LookupById, LogEvent, SelectActive, Truncate, Fill, Reload, LogReload,
                Disconnect, table, ghost
  <2>. QED
    BY <1>3, <1>7, <2>1
<1>8. CASE Crash
  BY <1>8 DEF Crash, WriteDone
<1>9. CASE Lapse
  BY <1>9, NobodyAssumption DEF Lapse
<1>10. CASE UNCHANGED vars
  <2>1. UNCHANGED <<bans, author, req, pc>>
    BY <1>10 DEF vars, table, local, ghost
  <2>. QED
    BY <1>1, <2>1
<1>11. CASE ServiceAction
  <2>1. UNCHANGED <<bans, author, req, pc>>
    BY <1>11 DEF ServiceAction, table, local, ghost
  <2>. QED
    BY <1>1, <2>1
<1>. QED
  BY <1>2, <1>4, <1>5, <1>6, <1>7, <1>8, <1>9, <1>10, <1>11 DEF Next, Step

LEMMA EffectFromTable ==
    TypeOK /\ PublishInv /\ AuthorInv => RequestTookEffect
<1>. SUFFICES ASSUME TypeOK, PublishInv, AuthorInv,
                     NEW w \in Workers, holder = w, author = w, Synced(w)
              PROVE  TookEffect(req[w])
  BY DEF RequestTookEffect
<1>1. holder # Nobody /\ ~InWindow(holder)
  BY NobodyAssumption DEF Synced, InWindow
<1>2. files = Rendered(bans)
  BY <1>1, AllWritten
<1>3. TookInTable(req[w])
  BY DEF AuthorInv, Synced, WriteDone
<1>4. /\ req[w] \in Requests
      /\ req[w].op \in {"add", "set_active", "delete", "set_active_for_value", "ensure"}
  BY RequestsAssumption DEF Synced, TypeOK, HandlerTypeOK, Request
<1>5. CASE req[w].op \in {"add", "ensure"}
  <2>1. req[w].target \in Targets
    BY <1>4, <1>5, RequestFields
  <2>. QED
    BY <1>2, <1>3, <1>5, <2>1, ListedRendered DEF TookInTable, TookEffect
<1>6. CASE req[w].op = "set_active_for_value"
  <2>1. req[w].target \in Targets
    BY <1>4, <1>6, RequestFields
  <2>2. ~req[w].active => ~InForce(req[w].target)
    BY <1>3, <1>6 DEF TookInTable, InForce, RowsOf, Effective
  <2>. QED
    BY <1>2, <1>6, <2>1, <2>2, ListedRendered DEF TookEffect
<1>7. CASE req[w].op = "delete"
  BY <1>3, <1>7 DEF TookInTable, TookEffect
<1>8. CASE req[w].op = "set_active"
  <2>1. ASSUME NEW row \in RowsById(req[w].id), Effective(row)  PROVE Listed(row.target)
    <3>1. row \in bans /\ row.target \in Targets
      BY DEF RowsById, TypeOK, TableTypeOK, Row
    <3>2. InForce(row.target)
      BY <2>1, <3>1 DEF InForce
    <3>. QED
      BY <1>2, <3>1, <3>2, ListedRendered
  <2>. QED
    BY <1>3, <1>8, <2>1 DEF TookInTable, TookEffect
<1>. QED
  BY <1>4, <1>5, <1>6, <1>7, <1>8

\* A request that wrote the table last and synced alone has done what it was asked
\* for, for any number of admins, duplicates and rows: an added or ensured ban is
\* listed, an unblocked address is not, a deleted row is gone.
THEOREM RequestsTakeEffect == Spec => []RequestTookEffect
<1>1. Init => AuthorInv
  BY DEF Init, AuthorInv, WriteDone
<1>2. TypeOK /\ AuthorInv /\ [Next]_vars => AuthorInv'
  BY NextAuthor
<1>3. TypeOK /\ PublishInv /\ AuthorInv => RequestTookEffect
  BY EffectFromTable
<1>. QED
  BY <1>1, <1>2, <1>3, TypeCorrect, PublishInvariant, PTL DEF Spec
-----------------------------------------------------------------------------
(* Every request moves towards its end *)

LEMMA AwaitsAre ==
    ASSUME NEW n
    PROVE  /\ AwaitsFrom("idle", n) = 0 /\ AwaitsFrom("respond", n) = 1
           /\ AwaitsFrom("log_reload", n) = 4 - n /\ AwaitsFrom("reload", n) = 6 - n
           /\ AwaitsFrom("fill", n) = 12 - 2 * n /\ AwaitsFrom("truncate", n) = 13 - 2 * n
           /\ AwaitsFrom("select", n) = 12 /\ AwaitsFrom("audit", n) = 13
           /\ \A step \in {"fetch", "delete", "ensure_insert"} : AwaitsFrom(step, n) = 14
           /\ \A step \in {"insert", "update", "lookup", "update_value", "ensure"} :
                 AwaitsFrom(step, n) = 15
BY DEF AwaitsFrom

\* Every step but "idle" has an await in front of it.
LEMMA AwaitsSome ==
    ASSUME NEW step \in Steps \ {"idle"}, NEW n \in Files,
           step \in {"reload", "log_reload", "respond"} => n \in Commands
    PROVE  AwaitsFrom(step, n) \in Nat /\ 0 < AwaitsFrom(step, n)
<1>1. n \in {1, 2, 3} /\ (step \in {"reload", "log_reload", "respond"} => n \in {1, 2})
  BY FilesAre
<1>2. CASE step \in {"log_reload", "reload"}
  <2>1. n = 1 \/ n = 2
    BY <1>1, <1>2
  <2>2. AwaitsFrom(step, n) = 4 - n \/ AwaitsFrom(step, n) = 6 - n
    BY <1>2, AwaitsAre
  <2>. QED
    BY <2>1, <2>2
<1>3. CASE step \in {"fill", "truncate"}
  <2>1. n = 1 \/ n = 2 \/ n = 3
    BY <1>1
  <2>2. AwaitsFrom(step, n) = 12 - 2 * n \/ AwaitsFrom(step, n) = 13 - 2 * n
    BY <1>3, AwaitsAre
  <2>. QED
    BY <2>1, <2>2
<1>4. CASE step \notin {"log_reload", "reload", "fill", "truncate"}
  BY <1>4, AwaitsAre DEF Steps
<1>. QED
  BY <1>2, <1>3, <1>4

\* A handler's own step takes it nearer to its end.
LEMMA StepAdvances ==
    ASSUME HandlerTypeOK, NEW w \in Workers, Step(w)
    PROVE  AwaitsLeft(w)' < AwaitsLeft(w)
<1>1. /\ pc[w] \in Steps \ {"idle"} /\ at[w] \in Files
      /\ pc[w] \in {"reload", "log_reload", "respond"} => at[w] \in Commands
  BY DEF HandlerTypeOK, Step, InsertBan, UpdateById, FetchById, LookupById, DeleteById,
         UpdateByValue, EnsureUpdate, EnsureInsert, LogEvent, SelectActive, Truncate, Fill,
         Reload, LogReload, Respond
<1>2. ASSUME pc'[w] = "idle"  PROVE AwaitsLeft(w)' < AwaitsLeft(w)
  BY <1>1, <1>2, AwaitsAre, AwaitsSome DEF AwaitsLeft
<1>3. ASSUME InsertBan(w) \/ UpdateByValue(w) \/ DeleteById(w) \/ EnsureInsert(w)
      PROVE  AwaitsLeft(w)' < AwaitsLeft(w)
  <2>1. pc'[w] = "audit" /\ pc[w] \in {"insert", "update_value", "delete", "ensure_insert"}
    BY <1>3 DEF InsertBan, UpdateByValue, DeleteById, EnsureInsert, Goto, HandlerTypeOK
  <2>. QED
    BY <2>1, AwaitsAre DEF AwaitsLeft
<1>4. ASSUME UpdateById(w)  PROVE AwaitsLeft(w)' < AwaitsLeft(w)
  <2>1. pc'[w] = "fetch" /\ pc[w] = "update"
    BY <1>4 DEF UpdateById, Goto, HandlerTypeOK
  <2>. QED
    BY <2>1, AwaitsAre DEF AwaitsLeft
<1>5. ASSUME FetchById(w) \/ LookupById(w), pc'[w] # "idle"  PROVE AwaitsLeft(w)' < AwaitsLeft(w)
  <2>1. \/ pc[w] = "fetch" /\ pc'[w] = "audit"
        \/ pc[w] = "lookup" /\ pc'[w] = "delete"
    BY <1>5 DEF FetchById, LookupById, Goto, End, HandlerTypeOK
  <2>. QED
    BY <2>1, AwaitsAre DEF AwaitsLeft
<1>6. ASSUME EnsureUpdate(w)  PROVE AwaitsLeft(w)' < AwaitsLeft(w)
  <2>1. pc[w] = "ensure" /\ pc'[w] \in {"ensure_insert", "audit"}
    BY <1>6 DEF EnsureUpdate, Goto, HandlerTypeOK
  <2>. QED
    BY <2>1, AwaitsAre DEF AwaitsLeft
<1>7. ASSUME LogEvent(w)  PROVE AwaitsLeft(w)' < AwaitsLeft(w)
  <2>1. pc[w] = "audit" /\ pc'[w] = "select"
    BY <1>7 DEF LogEvent, Goto, HandlerTypeOK
  <2>. QED
    BY <2>1, AwaitsAre DEF AwaitsLeft
<1>8. ASSUME SelectActive(w)  PROVE AwaitsLeft(w)' < AwaitsLeft(w)
  <2>1. pc[w] = "select" /\ pc'[w] = "truncate" /\ at'[w] = 1
    BY <1>8 DEF SelectActive, HandlerTypeOK, AddressFile
  <2>. QED
    BY <2>1, AwaitsAre DEF AwaitsLeft
<1>9. ASSUME Truncate(w)  PROVE AwaitsLeft(w)' < AwaitsLeft(w)
  <2>1. pc[w] = "truncate" /\ pc'[w] = "fill" /\ at'[w] = at[w] /\ at[w] \in {1, 2, 3}
    BY <1>1, <1>9, FilesAre DEF Truncate, Goto, HandlerTypeOK
  <2>. QED
    BY <2>1, AwaitsAre DEF AwaitsLeft
<1>10. ASSUME Fill(w), pc'[w] # "idle"  PROVE AwaitsLeft(w)' < AwaitsLeft(w)
  <2>1. attached[w]
    BY <1>10 DEF Fill, End, HandlerTypeOK
  <2>2. /\ pc[w] = "fill" /\ at[w] \in {1, 2, 3}
        /\ pc'[w] = IF at[w] = 3 THEN "reload" ELSE "truncate"
        /\ at'[w] = IF at[w] = 3 THEN 1 ELSE at[w] + 1
    BY <1>1, <1>10, <2>1, FilesAre DEF Fill, HandlerTypeOK, LastFile, IpFile, Postfix
  <2>. QED
    BY <2>2, AwaitsAre DEF AwaitsLeft
<1>11. ASSUME Reload(w)  PROVE AwaitsLeft(w)' < AwaitsLeft(w)
  <2>1. /\ pc[w] = "reload" /\ at[w] \in {1, 2}
        /\ \/ at[w] = 2 /\ pc'[w] = "log_reload" /\ at'[w] = 1
           \/ at[w] = 1 /\ pc'[w] = "reload" /\ at'[w] = 2
    BY <1>1, <1>11, FilesAre DEF Reload, HandlerTypeOK, LastCommand, Dovecot, Postfix
  <2>. QED
    BY <2>1, AwaitsAre DEF AwaitsLeft
<1>12. ASSUME LogReload(w)  PROVE AwaitsLeft(w)' < AwaitsLeft(w)
  <2>1. /\ pc[w] = "log_reload" /\ at[w] \in {1, 2}
        /\ \/ at[w] = 2 /\ pc'[w] = "respond"
           \/ at[w] = 1 /\ pc'[w] = "log_reload" /\ at'[w] = 2
    BY <1>1, <1>12, FilesAre DEF LogReload, HandlerTypeOK, LastCommand, Dovecot
  <2>. QED
    BY <2>1, AwaitsAre DEF AwaitsLeft
<1>13. ASSUME Respond(w)  PROVE pc'[w] = "idle"
  BY <1>13 DEF Respond, End, HandlerTypeOK
<1>. QED
  BY <1>2, <1>3, <1>4, <1>5, <1>6, <1>7, <1>8, <1>9, <1>10, <1>11, <1>12, <1>13 DEF Step

\* What a handler does leaves where the others stand alone.
LEMMA OthersStand ==
    ASSUME HandlerTypeOK, NEW v \in Workers, NEW w \in Workers \ {v},
           Begin(v) \/ Step(v) \/ Fail(v) \/ Disconnect(v)
    PROVE  UNCHANGED Progress(w)
<1>1. CASE End(v)
  BY <1>1 DEF End, HandlerTypeOK, Progress
<1>2. CASE Begin(v)
  BY <1>2 DEF Begin, HandlerTypeOK, Progress
<1>3. CASE /\ Step(v) \/ Fail(v) \/ Disconnect(v)
           /\ ~End(v)
  <2>1. /\ \E step : pc' = [pc EXCEPT ![v] = step] \/ pc' = pc
        /\ \E n : at' = [at EXCEPT ![v] = n] \/ at' = at
    BY <1>3 DEF Step, InsertBan, UpdateById, FetchById, LookupById, DeleteById, UpdateByValue,
       EnsureUpdate, EnsureInsert, LogEvent, SelectActive, Truncate, Fill, Reload, LogReload,
       Respond, Fail, Disconnect, Goto
  <2>2. \/ outcome' = outcome
        \/ \E o : outcome' = [outcome EXCEPT ![v][at[v]] = o]
    BY <1>3 DEF Step, InsertBan, UpdateById, FetchById, LookupById, DeleteById, UpdateByValue,
       EnsureUpdate, EnsureInsert, LogEvent, SelectActive, Truncate, Fill, Reload, LogReload,
       Respond, Fail, Disconnect, Goto
  <2>3. \/ warned' = warned
        \/ \E cs : warned' = [warned EXCEPT ![v] = cs]
    BY <1>3 DEF Step, InsertBan, UpdateById, FetchById, LookupById, DeleteById, UpdateByValue,
       EnsureUpdate, EnsureInsert, LogEvent, SelectActive, Truncate, Fill, Reload, LogReload,
       Respond, Fail, Disconnect, Goto
  <2>. QED
    BY <2>1, <2>2, <2>3 DEF HandlerTypeOK, Progress
<1>. QED
  BY <1>1, <1>2, <1>3

LEMMA NextAdvances ==
    ASSUME TypeOK, [Next]_vars, NEW w \in Workers, pc[w] # "idle"
    PROVE  UNCHANGED Progress(w) \/ AwaitsLeft(w)' < AwaitsLeft(w)
<1>0. HandlerTypeOK
  BY DEF TypeOK
<1>1. /\ pc[w] \in Steps \ {"idle"} /\ at[w] \in Files
      /\ pc[w] \in {"reload", "log_reload", "respond"} => at[w] \in Commands
  BY <1>0 DEF HandlerTypeOK
<1>2. ASSUME pc'[w] = "idle"  PROVE AwaitsLeft(w)' < AwaitsLeft(w)
  BY <1>1, <1>2, AwaitsAre, AwaitsSome DEF AwaitsLeft
<1>3. ASSUME NEW v \in Workers \ {w}, Begin(v) \/ Step(v) \/ Fail(v) \/ Disconnect(v)
      PROVE  UNCHANGED Progress(w)
  BY <1>0, <1>3, OthersStand
<1>4. CASE Step(w)
  BY <1>0, <1>4, StepAdvances
<1>5. CASE Fail(w)
  BY <1>0, <1>2, <1>5 DEF Fail, End, HandlerTypeOK
<1>6. CASE Disconnect(w)
  <2>1. pc'[w] = "idle" \/ UNCHANGED <<pc, at, outcome, warned>>
    BY <1>0, <1>6 DEF Disconnect, End, HandlerTypeOK
  <2>. QED
    BY <1>2, <2>1 DEF Progress
<1>7. CASE Crash
  BY <1>2, <1>7 DEF Crash
<1>8. CASE ServiceAction \/ Lapse \/ UNCHANGED vars
  BY <1>8 DEF ServiceAction, Lapse, vars, local, Progress
<1>9. ~Begin(w)
  BY DEF Begin
<1>. QED
  BY <1>3, <1>4, <1>5, <1>6, <1>7, <1>8, <1>9 DEF Next

\* However many requests overlap, fail, are dropped or die, each handler only moves
\* towards its end: what bounds every request, as long as the awaits themselves end.
THEOREM RequestsOnlyAdvance == Spec => RequestsAdvance
<1>1. TypeOK /\ [Next]_vars =>
        [\A w \in Workers : pc[w] # "idle" =>
            UNCHANGED Progress(w) \/ AwaitsLeft(w)' < AwaitsLeft(w)]_vars
  BY NextAdvances
<1>. QED
  BY <1>1, TypeCorrect, PTL DEF Spec, RequestsAdvance
=============================================================================
