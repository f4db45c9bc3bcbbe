-------------------------- MODULE HostToolsProofs --------------------------
(***************************************************************************)
(* For any handlers, messages, units, probes and Postfix configurations:   *)
(* types; a cleared mailbox is one; the Health page says what was so.      *)
(***************************************************************************)
EXTENDS HostTools, TLAPS

\* What one handler has achieved of its deletion: what was there when it began is not
\* still to be delivered, and has gone once a status of 0 stands.
Clearing(w) ==
    /\ seen[w] \cap unsent = {}
    /\ op[w] = "delete_mailbox" /\ status[w] = 0 /\ pc[w] \in {"resync", "log"}
           => seen[w] \cap inbox = {}
    /\ result[w] = "delete-ok" => seen[w] \cap inbox = {}

\* What one page holds so far.
Paging(w) ==
    /\ op[w] = "health" => active \subseteq wasActive[w]
    /\ op[w] = "health" \/ result[w] = "health" \/ rows[w] = {}
    /\ (op[w] = "health" \/ result[w] = "health") /\ silent[w]
           => \E row \in rows[w] : row[2] # "ok"
    /\ \A s \in Services : <<s, "ok">> \in rows[w] => s \in wasActive[w]

IInv == TypeOK /\ \A w \in Workers : Clearing(w) /\ Paging(w)

\* The invariant holds at first.
LEMMA InitInv == Init => IInv
<1>1. Init => TypeOK
  BY DEF Init, TypeOK, Kinds, Steps, Results, MailOps
<1>2. Init => \A w \in Workers : Clearing(w) /\ Paging(w)
  BY DEF Init, Clearing, Paging
<1> QED  BY <1>1, <1>2 DEF IInv

LEMMA TypeStep == TypeOK /\ [Next]_vars => TypeOK'
<1> SUFFICES ASSUME TypeOK, [Next]_vars PROVE TypeOK'
  OBVIOUS
<1>k. \A o \in Kinds : Steps(o) \subseteq UNION {Steps(k) : k \in Kinds}
  OBVIOUS
<1>r. \A n \in Services \cup PlainProbes \cup Settings \cup {"bans"}, t \in {"ok", "warn", "error"} :
          <<n, t>> \in Rows
  BY DEF Rows
<1>a. ASSUME NEW w \in Workers, NEW n \in Services \cup PlainProbes \cup Settings \cup {"bans"},
             NEW t \in {"ok", "warn", "error"}, AddRow(w, n, t)
      PROVE  rows' \in [Workers -> SUBSET Rows]
  <2>1. {<<n, t>>} \subseteq Rows
    BY <1>r
  <2> QED  BY <1>a, <2>1 DEF AddRow, TypeOK
<1>1. ASSUME NEW w \in Workers, Begin(w) PROVE TypeOK'
  <2>1. PICK o \in Ops : op' = [op EXCEPT ![w] = o] /\ pc' = [pc EXCEPT ![w] = First(o)]
    BY <1>1 DEF Begin
  <2>2. o \in Kinds /\ First(o) \in Steps(o) /\ o # "none"
    BY OpsAssumption DEF Kinds, First, Steps, MailOps
  <2> QED  BY <1>1, <1>k, <2>1, <2>2 DEF TypeOK, Begin, host, Results
<1>e. ASSUME NEW w \in Workers, NEW r \in Results, End(w, r)
      PROVE  /\ op' \in [Workers -> Kinds] /\ pc' \in [Workers -> UNION {Steps(o) : o \in Kinds}]
             /\ status' \in [Workers -> {0, 1}] /\ result' \in [Workers -> Results]
             /\ rows' \in [Workers -> SUBSET Rows]
             /\ \A v \in Workers : pc'[v] \in Steps(op'[v]) /\ (op'[v] # "none" => result'[v] = "none")
  <2>1. "none" \in Kinds /\ "idle" \in Steps("none")
    BY DEF Kinds, Steps
  <2> QED  BY <1>e, <1>k, <2>1 DEF TypeOK, End, Goto
<1>g. ASSUME NEW w \in Workers, NEW p \in Steps(op[w]), Goto(w, p),
             status' \in [Workers -> {0, 1}], UNCHANGED <<op, rows, result>>
      PROVE  /\ op' \in [Workers -> Kinds] /\ pc' \in [Workers -> UNION {Steps(o) : o \in Kinds}]
             /\ status' \in [Workers -> {0, 1}] /\ result' \in [Workers -> Results]
             /\ rows' \in [Workers -> SUBSET Rows]
             /\ \A v \in Workers : pc'[v] \in Steps(op'[v]) /\ (op'[v] # "none" => result'[v] = "none")
  BY <1>g, <1>k DEF TypeOK, Goto
<1>p. \A w \in Workers :
        /\ pc[w] \in {"delete_mailbox", "kick", "expunge_all", "resync"}
               => {"kick", "expunge_all", "resync", "log"} \subseteq Steps(op[w])
        /\ pc[w] \in {"expunge", "quota_recalc", "force_resync", "service"} => "log" \in Steps(op[w])
        /\ pc[w] \in {"services", "probes", "postconf"}
               => op[w] = "health" /\ {"services", "probes", "postconf"} \subseteq Steps(op[w])
  BY DEF TypeOK, Kinds, Steps, MailOps
<1>i. "error" \in Results /\ "none" \in Results /\ "health" \in Results
  BY DEF Results
<1>2. ASSUME NEW w \in Workers, Disconnect(w) PROVE TypeOK'
  BY <1>2, <1>e, <1>i DEF TypeOK, Disconnect, host, history
<1>3. ASSUME NEW w \in Workers, Delete(w) PROVE TypeOK'
  <2>1. inbox' \subseteq inbox
    BY <1>3 DEF Delete, Clears
  <2>2. CASE NoStatus(w)
    BY <1>3, <1>e, <1>i, <2>1, <2>2 DEF TypeOK, NoStatus, Delete, history
  <2>3. CASE ~NoStatus(w)
    <3>1. PICK s \in {0, 1} : status' = [status EXCEPT ![w] = s]
                              /\ Goto(w, IF s = 0 THEN "log" ELSE "kick")
                              /\ UNCHANGED <<op, rows, result>>
      BY <1>3, <2>3 DEF Delete
    <3> QED  BY <1>3, <1>g, <1>p, <2>1, <3>1 DEF TypeOK, Delete, history
  <2> QED  BY <2>2, <2>3
<1>4. ASSUME NEW w \in Workers, Kick(w) PROVE TypeOK'
  BY <1>4, <1>g, <1>p DEF TypeOK, Kick, host, history
<1>5. ASSUME NEW w \in Workers, ExpungeAll(w) PROVE TypeOK'
  <2>1. inbox' \subseteq inbox
    BY <1>5 DEF ExpungeAll, Clears
  <2>2. CASE NoStatus(w)
    BY <1>5, <1>e, <1>i, <2>1, <2>2 DEF TypeOK, NoStatus, ExpungeAll, history
  <2>3. CASE ~NoStatus(w)
    BY <1>5, <1>g, <1>p, <2>1, <2>3 DEF TypeOK, ExpungeAll, history
  <2> QED  BY <2>2, <2>3
<1>6. ASSUME NEW w \in Workers, Resync(w) PROVE TypeOK'
  <2>2. CASE NoStatus(w)
    BY <1>6, <1>e, <1>i, <2>2 DEF TypeOK, NoStatus, Resync, host, history
  <2>3. CASE ~NoStatus(w)
    BY <1>6, <1>g, <1>p, <2>3 DEF TypeOK, Resync, host, history
  <2> QED  BY <2>2, <2>3
<1>7. ASSUME NEW w \in Workers, Expunge(w) PROVE TypeOK'
  <2>1. inbox' \subseteq inbox
    BY <1>7 DEF Expunge, Clears
  <2>2. CASE NoStatus(w)
    BY <1>7, <1>e, <1>i, <2>1, <2>2 DEF TypeOK, NoStatus, Expunge, history
  <2>3. CASE ~NoStatus(w)
    BY <1>7, <1>g, <1>p, <2>1, <2>3 DEF TypeOK, Expunge, history
  <2> QED  BY <2>2, <2>3
<1>8. ASSUME NEW w \in Workers, Recount(w) PROVE TypeOK'
  <2>2. CASE NoStatus(w)
    BY <1>8, <1>e, <1>i, <2>2 DEF TypeOK, NoStatus, Recount, host, history
  <2>3. CASE ~NoStatus(w)
    BY <1>8, <1>g, <1>p, <2>3 DEF TypeOK, Recount, host, history
  <2> QED  BY <2>2, <2>3
<1>9. ASSUME NEW w \in Workers, ServiceAction(w) PROVE TypeOK'
  <2>1. active' \subseteq Services /\ wasActive' \in [Workers -> SUBSET Services]
    BY <1>9 DEF ServiceAction, NotePages, TypeOK
  <2>2. CASE NoStatus(w)
    BY <1>9, <1>e, <1>i, <2>1, <2>2 DEF TypeOK, NoStatus, ServiceAction
  <2>3. CASE ~NoStatus(w)
    BY <1>9, <1>g, <1>p, <2>1, <2>3 DEF TypeOK, ServiceAction
  <2> QED  BY <2>2, <2>3
<1>10. ASSUME NEW w \in Workers, Log(w) PROVE TypeOK'
  <2>1. Banner(op[w], status[w]) \in Results
    BY DEF Banner, Results
  <2> QED  BY <1>10, <1>e, <1>i, <2>1 DEF TypeOK, Log, host, history
<1>11. ASSUME NEW w \in Workers, NEW s \in Services, ProbeService(w, s) PROVE TypeOK'
  <2>1. rows' \in [Workers -> SUBSET Rows]
    BY <1>11, <1>a DEF ProbeService
  <2> QED  BY <1>11, <2>1 DEF TypeOK, ProbeService, host
<1>12. ASSUME NEW w \in Workers, ServicesDone(w) \/ ProbesDone(w) PROVE TypeOK'
  BY <1>12, <1>g, <1>p DEF TypeOK, ServicesDone, ProbesDone, host, history
<1>13. ASSUME NEW w \in Workers, NEW p \in Probes, Probe(w, p) PROVE TypeOK'
  <2>1. \A a \in {"good", "bad", "none"} : PlainRow(p, a) \in {"ok", "warn", "error"}
    BY DEF PlainRow
  <2>2. rows' \in [Workers -> SUBSET Rows]
    BY <1>13, <1>a, <2>1, ProbesAssumption DEF Probe
  <2> QED  BY <1>13, <2>2 DEF TypeOK, Probe, host
<1>14. ASSUME NEW w \in Workers, Postconf(w) PROVE TypeOK'
  <2>1. \A line, s : RestrictionCheck(line, s) \in {"ok", "warn", "error"}
    BY DEF RestrictionCheck
  <2>2. rows' \in [Workers -> SUBSET Rows]
    <3>1. CASE AddRow(w, "bans", "warn")
      BY <3>1, <1>a
    <3>2. CASE ~AddRow(w, "bans", "warn")
      <4>1. PICK wiring \in Wirings : rows' = [rows EXCEPT ![w] = @ \cup
                   {<<s, RestrictionCheck(wiring[s], s)>> : s \in Settings}]
        BY <1>14, <3>2 DEF Postconf
      <4>2. {<<s, RestrictionCheck(wiring[s], s)>> : s \in Settings} \subseteq Rows
        BY <1>r, <2>1
      <4> QED  BY <4>1, <4>2 DEF TypeOK
    <3> QED  BY <3>1, <3>2
  <2>3. "none" \in Kinds /\ "idle" \in Steps("none")
    BY DEF Kinds, Steps
  <2>4. op' \in [Workers -> Kinds] /\ pc' \in [Workers -> UNION {Steps(o) : o \in Kinds}]
        /\ result' \in [Workers -> Results]
        /\ \A v \in Workers : pc'[v] \in Steps(op'[v]) /\ (op'[v] # "none" => result'[v] = "none")
    BY <1>14, <1>i, <1>k, <2>3 DEF TypeOK, Postconf, Goto
  <2>5. silent' \in [Workers -> BOOLEAN]
    <3>1. silent' = silent \/ silent' = [silent EXCEPT ![w] = TRUE]
      BY <1>14, Zenon DEF Postconf
    <3> QED  BY <3>1 DEF TypeOK
  <2>6. UNCHANGED <<inbox, unsent, active, status, seen, wasActive>>
    BY <1>14 DEF Postconf, host
  <2> QED  BY <2>2, <2>4, <2>5, <2>6 DEF TypeOK
<1>15. CASE Deliver \/ Vanish
  BY <1>15 DEF TypeOK, Deliver, Vanish, handler, history
<1>16. CASE UnitChanges
  <2>1. active' \subseteq Services /\ wasActive' \in [Workers -> SUBSET Services]
    BY <1>16 DEF UnitChanges, NotePages, TypeOK
  <2> QED  BY <1>16, <2>1 DEF TypeOK, UnitChanges, handler
<1>17. CASE UNCHANGED vars
  BY <1>17 DEF TypeOK, vars, host, handler, history
<1> QED
  BY <1>1, <1>2, <1>3, <1>4, <1>5, <1>6, <1>7, <1>8, <1>9, <1>10, <1>11, <1>12, <1>13, <1>14,
     <1>15, <1>16, <1>17 DEF Next, Step

-----------------------------------------------------------------------------
(* The mailbox *)

\* Whatever takes messages away, or delivers one that was not there, disturbs no deletion
\* that stays where it is.
LEMMA ClearingKept ==
    ASSUME NEW v \in Workers, Clearing(v), seen'[v] = seen[v],
           seen[v] \cap unsent' = {}, seen[v] \cap inbox' \subseteq inbox,
           op'[v] = op[v], status'[v] = status[v], pc'[v] = pc[v], result'[v] = result[v]
    PROVE  Clearing(v)'
  BY DEF Clearing

\* A handler that ends with any banner but that of a cleared mailbox.
LEMMA ClearingEnds ==
    ASSUME NEW v \in Workers, Clearing(v), TypeOK, NEW w \in Workers, NEW r, r # "delete-ok", End(w, r),
           seen' = seen, unsent' = unsent, inbox' \subseteq inbox
    PROVE  Clearing(v)'
<1>1. CASE v = w
  BY <1>1 DEF Clearing, End, Goto, TypeOK
<1>2. CASE v # w
  <2>1. op'[v] = op[v] /\ status'[v] = status[v] /\ pc'[v] = pc[v] /\ result'[v] = result[v]
    BY <1>2 DEF End, Goto, TypeOK
  <2> QED  BY <2>1, ClearingKept DEF Clearing
<1> QED  BY <1>1, <1>2

\* A handler that goes on, to a place where it claims nothing or what is true.
LEMMA ClearingGoesOn ==
    ASSUME NEW v \in Workers, Clearing(v), TypeOK, NEW w \in Workers, NEW p, NEW s,
           Goto(w, p), status' = [status EXCEPT ![w] = s], UNCHANGED <<op, result, seen, unsent>>,
           inbox' \subseteq inbox,
           op[w] = "delete_mailbox" /\ s = 0 /\ p \in {"resync", "log"} => seen[w] \cap inbox' = {}
    PROVE  Clearing(v)'
<1>1. CASE v = w
  BY <1>1 DEF Clearing, Goto, TypeOK
<1>2. CASE v # w
  <2>1. op'[v] = op[v] /\ status'[v] = status[v] /\ pc'[v] = pc[v] /\ result'[v] = result[v]
    BY <1>2 DEF Goto, TypeOK
  <2> QED  BY <2>1, ClearingKept DEF Clearing
<1> QED  BY <1>1, <1>2

LEMMA ClearingStep ==
    ASSUME TypeOK, \A u \in Workers : Clearing(u), [Next]_vars, NEW v \in Workers
    PROVE  Clearing(v)'
<1>v. Clearing(v)
  OBVIOUS
<1>s. \A w \in Workers : status' = status => status' = [status EXCEPT ![w] = status[w]]
  BY DEF TypeOK
<1>1. ASSUME NEW w \in Workers, Begin(w) PROVE Clearing(v)'
  <2>1. CASE v = w
    <3>1. seen'[v] \in {inbox, {}} /\ result'[v] = "none" /\ pc'[v] \notin {"resync", "log"}
      BY <1>1, <2>1, OpsAssumption DEF Begin, TypeOK, First, MailOps
    <3> QED  BY <1>1, <3>1 DEF Clearing, Begin, host, TypeOK
  <2>2. CASE v # w
    BY <1>1, <1>v, <2>2, ClearingKept DEF Begin, host, TypeOK, Clearing
  <2> QED  BY <2>1, <2>2
<1>2. ASSUME NEW w \in Workers, Disconnect(w) PROVE Clearing(v)'
  BY <1>2, <1>v, ClearingEnds DEF Disconnect, host, history
<1>3. ASSUME NEW w \in Workers, Delete(w) \/ ExpungeAll(w) \/ Expunge(w) PROVE Clearing(v)'
  <2>1. seen' = seen /\ unsent' = unsent /\ inbox' \subseteq inbox
    BY <1>3 DEF Delete, ExpungeAll, Expunge, Clears, history
  <2>2. CASE NoStatus(w)
    BY <1>v, <2>1, <2>2, ClearingEnds DEF NoStatus
  <2>3. CASE ~NoStatus(w)
    <3>1. PICK s \in {0, 1}, p \in {"log", "kick", "resync"} :
              /\ Goto(w, p) /\ status' = [status EXCEPT ![w] = s]
              /\ UNCHANGED <<op, result>> /\ (s = 0 => inbox' = {})
      BY <1>3, <2>3 DEF Delete, ExpungeAll, Expunge, Clears
    <3> QED  BY <1>v, <2>1, <3>1, ClearingGoesOn
  <2> QED  BY <2>2, <2>3
<1>4. ASSUME NEW w \in Workers, Kick(w) PROVE Clearing(v)'
  BY <1>4, <1>v, <1>s, ClearingGoesOn DEF Kick, host, history
<1>5. ASSUME NEW w \in Workers, Resync(w) PROVE Clearing(v)'
  <2>1. CASE NoStatus(w)
    BY <1>5, <1>v, <2>1, ClearingEnds DEF NoStatus, Resync, host, history
  <2>2. CASE ~NoStatus(w)
    BY <1>5, <1>v, <1>s, <2>2, ClearingGoesOn DEF Resync, host, history, Clearing
  <2> QED  BY <2>1, <2>2
<1>6. ASSUME NEW w \in Workers, Recount(w) \/ ServiceAction(w) PROVE Clearing(v)'
  <2>1. UNCHANGED <<inbox, unsent, seen>>
    BY <1>6 DEF Recount, ServiceAction, host, history
  <2>2. op[w] # "delete_mailbox"
    BY <1>6 DEF Recount, ServiceAction, TypeOK, Steps
  <2>3. CASE NoStatus(w)
    BY <1>v, <2>1, <2>3, ClearingEnds DEF NoStatus
  <2>4. CASE ~NoStatus(w)
    <3>1. PICK s \in {0, 1} : /\ Goto(w, "log") /\ status' = [status EXCEPT ![w] = s]
                              /\ UNCHANGED <<op, result>>
      BY <1>6, <2>4 DEF Recount, ServiceAction
    <3> QED  BY <1>v, <2>1, <2>2, <3>1, ClearingGoesOn
  <2> QED  BY <2>3, <2>4
<1>7. ASSUME NEW w \in Workers, Log(w) PROVE Clearing(v)'
  <2>1. UNCHANGED <<inbox, unsent, seen>>
    BY <1>7 DEF Log, host, history
  <2>2. CASE End(w, "error")
    BY <1>v, <2>1, <2>2, ClearingEnds
  <2>3. CASE End(w, Banner(op[w], status[w])) /\ Banner(op[w], status[w]) # "delete-ok"
    BY <1>v, <2>1, <2>3, ClearingEnds
  <2>4. CASE End(w, Banner(op[w], status[w])) /\ Banner(op[w], status[w]) = "delete-ok"
    <3>1. op[w] = "delete_mailbox" /\ status[w] = 0
      BY <2>4 DEF Banner
    <3>2. seen[w] \cap inbox = {}
      BY <1>7, <3>1 DEF Log, Clearing
    <3>3. CASE v = w
      BY <1>v, <2>1, <2>4, <3>2, <3>3 DEF Clearing, End, Goto, TypeOK
    <3>4. CASE v # w
      <4>1. op'[v] = op[v] /\ status'[v] = status[v] /\ pc'[v] = pc[v] /\ result'[v] = result[v]
        BY <2>4, <3>4 DEF End, Goto, TypeOK
      <4> QED  BY <1>v, <2>1, <4>1, ClearingKept DEF Clearing
    <3> QED  BY <3>3, <3>4
  <2> QED  BY <1>7, <2>2, <2>3, <2>4 DEF Log
<1>8. ASSUME NEW w \in Workers,
             (\E s \in Services : ProbeService(w, s)) \/ (\E p \in Probes : Probe(w, p))
      PROVE Clearing(v)'
  <2>1. UNCHANGED <<inbox, unsent, seen, pc, op, status, result>>
    BY <1>8 DEF ProbeService, Probe, host
  <2> QED  BY <1>v, <2>1, ClearingKept DEF Clearing
<1>9. ASSUME NEW w \in Workers, ServicesDone(w) \/ ProbesDone(w) PROVE Clearing(v)'
  BY <1>9, <1>v, <1>s, ClearingGoesOn DEF ServicesDone, ProbesDone, host, history
<1>10. ASSUME NEW w \in Workers, Postconf(w) PROVE Clearing(v)'
  <2>1. /\ UNCHANGED <<inbox, unsent, seen, status>>
        /\ pc' = [pc EXCEPT ![w] = "idle"] /\ op' = [op EXCEPT ![w] = "none"]
        /\ result' = [result EXCEPT ![w] = "health"]
    BY <1>10, Zenon DEF Postconf, host, Goto
  <2>2. CASE v = w
    BY <1>v, <2>1, <2>2 DEF Clearing, TypeOK
  <2>3. CASE v # w
    BY <1>v, <2>1, <2>3, ClearingKept DEF Clearing, TypeOK
  <2> QED  BY <2>2, <2>3
<1>11. CASE Deliver
  <2>1. PICK m \in unsent : inbox' = inbox \cup {m} /\ unsent' = unsent \ {m}
    BY <1>11 DEF Deliver
  <2>2. m \notin seen[v]
    BY <1>v DEF Clearing
  <2> QED  BY <1>11, <1>v, <2>1, <2>2, ClearingKept DEF Clearing, Deliver, handler, history
<1>12. CASE Vanish
  BY <1>12, <1>v, ClearingKept DEF Clearing, Vanish, handler, history
<1>13. CASE UnitChanges
  BY <1>13, <1>v, ClearingKept DEF Clearing, UnitChanges, handler
<1>14. CASE UNCHANGED vars
  BY <1>14, <1>v, ClearingKept DEF Clearing, vars, host, handler, history
<1> QED
  BY <1>1, <1>2, <1>3, <1>4, <1>5, <1>6, <1>7, <1>8, <1>9, <1>10, <1>11, <1>12, <1>13, <1>14
     DEF Next, Step

-----------------------------------------------------------------------------
(* The Health page *)

\* A page that nothing is added to, however the units change.
LEMMA PagingKept ==
    ASSUME NEW v \in Workers, Paging(v), op'[v] = op[v], rows'[v] = rows[v],
           result'[v] = result[v], silent'[v] = silent[v],
           wasActive[v] \subseteq wasActive'[v], op[v] = "health" => active' \subseteq wasActive'[v]
    PROVE  Paging(v)'
  BY DEF Paging

LEMMA PagingEnds ==
    ASSUME NEW v \in Workers, Paging(v), TypeOK, NEW w \in Workers, NEW r, r # "health", End(w, r),
           silent' = silent, wasActive[v] \subseteq wasActive'[v],
           op[v] = "health" => active' \subseteq wasActive'[v]
    PROVE  Paging(v)'
<1>1. CASE v = w
  <2>1. op'[v] = "none" /\ rows'[v] = {} /\ result'[v] # "health"
    BY <1>1 DEF End, TypeOK
  <2> QED  BY <2>1 DEF Paging
<1>2. CASE v # w
  <2>1. op'[v] = op[v] /\ rows'[v] = rows[v] /\ result'[v] = result[v]
    BY <1>2 DEF End, TypeOK
  <2> QED  BY <2>1, PagingKept
<1> QED  BY <1>1, <1>2

\* One more row, of a unit only if it is active now.
LEMMA PagingRow ==
    ASSUME NEW v \in Workers, Paging(v), TypeOK, NEW w \in Workers, op[w] = "health",
           NEW n, NEW t, AddRow(w, n, t), NEW q \in BOOLEAN, silent' = [silent EXCEPT ![w] = q],
           UNCHANGED <<active, op, result, wasActive>>,
           q => silent[w] \/ t # "ok",
           n \in Services /\ t = "ok" => n \in wasActive[w]
    PROVE  Paging(v)'
<1>1. CASE v = w
  <2>1. rows'[v] = rows[v] \cup {<<n, t>>} /\ silent'[v] = q /\ result[v] = "none"
    BY <1>1 DEF AddRow, TypeOK
  <2>2. q => \E row \in rows'[v] : row[2] # "ok"
    <3>1. CASE t # "ok"
      <4>1. <<n, t>> \in rows'[v] /\ <<n, t>>[2] # "ok"
        BY <2>1, <3>1
      <4> QED  BY <4>1, Zenon
    <3>2. CASE silent[v]
      BY <1>1, <2>1, <3>2 DEF Paging
    <3> QED  BY <1>1, <3>1, <3>2
  <2>3. \A s \in Services : <<s, "ok">> \in rows'[v] => s \in wasActive'[v]
    BY <1>1, <2>1 DEF Paging
  <2> QED  BY <1>1, <2>1, <2>2, <2>3 DEF Paging
<1>2. CASE v # w
  <2>1. rows'[v] = rows[v] /\ silent'[v] = silent[v]
    BY <1>2 DEF AddRow, TypeOK
  <2>2. op[v] = "health" => active \subseteq wasActive[v]
    BY DEF Paging
  <2> QED  BY <2>1, <2>2, PagingKept
<1> QED  BY <1>1, <1>2

LEMMA NotesGrow ==
    ASSUME TypeOK, NEW v \in Workers, NotePages
    PROVE  wasActive[v] \subseteq wasActive'[v] /\ (op[v] = "health" => active' \subseteq wasActive'[v])
  BY DEF NotePages, TypeOK

LEMMA PagingStep ==
    ASSUME TypeOK, \A u \in Workers : Paging(u), [Next]_vars, NEW v \in Workers
    PROVE  Paging(v)'
<1>v. Paging(v) /\ (op[v] = "health" => active \subseteq wasActive[v])
  BY DEF Paging
<1>p. \A w \in Workers :
        pc[w] \in {"services", "probes", "postconf"} => op[w] = "health" /\ result[w] = "none"
  BY DEF TypeOK, Kinds, Steps, MailOps
<1>1. ASSUME NEW w \in Workers, Begin(w) PROVE Paging(v)'
  <2>1. CASE v = w
    BY <1>1, <2>1 DEF Begin, Paging, TypeOK, host
  <2>2. CASE v # w
    BY <1>1, <1>v, <2>2, PagingKept DEF Begin, host, TypeOK
  <2> QED  BY <2>1, <2>2
<1>2. ASSUME NEW w \in Workers, NEW r, r # "health", End(w, r), UNCHANGED <<active, history>>
      PROVE Paging(v)'
  BY <1>2, <1>v, PagingEnds DEF history
<1>3. ASSUME UNCHANGED <<active, op, rows, result, history>> PROVE Paging(v)'
  BY <1>3, <1>v, PagingKept DEF history
<1>4. ASSUME NEW w \in Workers, Disconnect(w) \/ Log(w) PROVE Paging(v)'
  <2>1. Banner(op[w], status[w]) # "health"
    BY DEF Banner
  <2> QED  BY <1>2, <1>4, <2>1 DEF Disconnect, Log, host
<1>5. ASSUME NEW w \in Workers,
             Delete(w) \/ Kick(w) \/ ExpungeAll(w) \/ Resync(w) \/ Expunge(w) \/ Recount(w)
      PROVE Paging(v)'
  <2>1. UNCHANGED <<active, history>>
    BY <1>5 DEF Delete, Kick, ExpungeAll, Resync, Expunge, Recount, host
  <2>2. CASE NoStatus(w)
    BY <1>2, <2>1, <2>2 DEF NoStatus
  <2>3. CASE ~NoStatus(w)
    <3>1. UNCHANGED <<op, rows, result>>
      BY <1>5, <2>3 DEF Delete, Kick, ExpungeAll, Resync, Expunge, Recount
    <3> QED  BY <1>3, <2>1, <3>1
  <2> QED  BY <2>2, <2>3
<1>6. ASSUME NEW w \in Workers, ServiceAction(w) PROVE Paging(v)'
  <2>1. NotePages /\ silent' = silent
    BY <1>6 DEF ServiceAction
  <2>2. CASE NoStatus(w)
    BY <1>v, <2>1, <2>2, NotesGrow, PagingEnds DEF NoStatus
  <2>3. CASE ~NoStatus(w)
    BY <1>6, <1>v, <2>1, <2>3, NotesGrow, PagingKept DEF ServiceAction
  <2> QED  BY <2>2, <2>3
<1>7. ASSUME NEW w \in Workers, NEW s \in Services, ProbeService(w, s) PROVE Paging(v)'
  <2>1. op[w] = "health" /\ active \subseteq wasActive[w]
    BY <1>7, <1>p DEF ProbeService, Paging
  <2>2. UNCHANGED <<active, op, result, wasActive>>
    BY <1>7 DEF ProbeService, host
  <2>3. CASE silent' = silent /\ AddRow(w, s, IF s \in active THEN "ok" ELSE "warn")
    <3>1. silent[w] \in BOOLEAN /\ silent' = [silent EXCEPT ![w] = silent[w]]
      BY <2>3 DEF TypeOK
    <3>2. CASE s \in active
      <4>1. AddRow(w, s, "ok") /\ s \in wasActive[w]
        BY <2>1, <2>3, <3>2
      <4> QED  BY <1>v, <2>1, <2>2, <3>1, <4>1, PagingRow
    <3>3. CASE s \notin active
      <4>1. AddRow(w, s, "warn")
        BY <2>3, <3>3
      <4> QED  BY <1>v, <2>1, <2>2, <3>1, <4>1, PagingRow
    <3> QED  BY <3>2, <3>3
  <2>4. CASE ~(silent' = silent /\ AddRow(w, s, IF s \in active THEN "ok" ELSE "warn"))
    <3>1. PICK t \in {"warn", "error"} : AddRow(w, s, t) /\ silent' = [silent EXCEPT ![w] = TRUE]
      BY <1>7, <2>4 DEF ProbeService
    <3> QED  BY <1>v, <2>1, <2>2, <3>1, PagingRow
  <2> QED  BY <2>3, <2>4
<1>8. ASSUME NEW w \in Workers, NEW p \in Probes, Probe(w, p) PROVE Paging(v)'
  <2>1. op[w] = "health"
    BY <1>8, <1>p DEF Probe
  <2>2. UNCHANGED <<active, op, result, wasActive>>
    BY <1>8 DEF Probe, host
  <2>3. PICK a \in {"good", "bad", "none"} :
            AddRow(w, p, PlainRow(p, a)) /\ silent' = [silent EXCEPT ![w] = @ \/ a = "none"]
    BY <1>8 DEF Probe
  <2>4. a = "none" => PlainRow(p, a) # "ok"
    BY DEF PlainRow
  <2>5. p \notin Services
    BY ServicesAssumption, ProbesAssumption
  <2> DEFINE q == silent[w] \/ a = "none"
  <2>6. q \in BOOLEAN /\ silent' = [silent EXCEPT ![w] = q] /\ (q => silent[w] \/ PlainRow(p, a) # "ok")
    BY <2>3, <2>4
  <2> HIDE DEF q
  <2> QED  BY <1>v, <2>1, <2>2, <2>3, <2>5, <2>6, PagingRow
<1>9. ASSUME NEW w \in Workers, ServicesDone(w) \/ ProbesDone(w) PROVE Paging(v)'
  BY <1>9, <1>3 DEF ServicesDone, ProbesDone, host
<1>10. ASSUME NEW w \in Workers, Postconf(w) PROVE Paging(v)'
  <2>1. /\ UNCHANGED <<active, wasActive>> /\ op' = [op EXCEPT ![w] = "none"]
        /\ result' = [result EXCEPT ![w] = "health"]
    BY <1>10, Zenon DEF Postconf, host
  <2>2. op[w] = "health"
    BY <1>10, <1>p DEF Postconf, Paging
  <2>3. CASE AddRow(w, "bans", "warn") /\ silent' = [silent EXCEPT ![w] = TRUE]
    <3>1. CASE v = w
      <4>1. rows'[v] = rows[v] \cup {<<"bans", "warn">>}
            /\ op'[v] = "none" /\ result'[v] = "health"
        BY <2>1, <2>2, <2>3, <3>1 DEF AddRow, TypeOK
      <4>2. \E row \in rows'[v] : row[2] # "ok"
        <5>1. <<"bans", "warn">> \in rows'[v] /\ <<"bans", "warn">>[2] # "ok"
          BY <4>1
        <5> QED  BY <5>1, Zenon
      <4>3. \A s \in Services : <<s, "ok">> \in rows'[v] => s \in wasActive'[v]
        BY <1>v, <2>1, <4>1 DEF Paging
      <4> QED  BY <4>1, <4>2, <4>3 DEF Paging
    <3>2. CASE v # w
      BY <1>v, <2>1, <2>3, <3>2, PagingKept DEF AddRow, TypeOK
    <3> QED  BY <3>1, <3>2
  <2>4. ASSUME NEW wiring \in Wirings,
               silent' = silent,
               rows' = [rows EXCEPT ![w] = @ \cup {<<s, RestrictionCheck(wiring[s], s)>> : s \in Settings}]
        PROVE  Paging(v)'
    <3>1. CASE v = w
      <4>1. /\ rows'[v] = rows[v] \cup {<<s, RestrictionCheck(wiring[s], s)>> : s \in Settings}
            /\ op'[v] = "none" /\ result'[v] = "health" /\ silent'[v] = silent[v]
        BY <2>1, <2>4, <3>1 DEF TypeOK
      <4>2. silent'[v] => \E row \in rows'[v] : row[2] # "ok"
        BY <1>v, <2>2, <3>1, <4>1 DEF Paging
      <4>3. \A s \in Services : <<s, "ok">> \in rows'[v] => s \in wasActive'[v]
        BY <1>v, <2>1, <4>1, ServicesAssumption DEF Paging
      <4> QED  BY <4>1, <4>2, <4>3 DEF Paging
    <3>2. CASE v # w
      BY <1>v, <2>1, <2>4, <3>2, PagingKept DEF TypeOK
    <3> QED  BY <3>1, <3>2
  <2> QED  BY <1>10, <2>3, <2>4, Zenon DEF Postconf
<1>11. CASE Deliver \/ Vanish
  BY <1>11, <1>3 DEF Deliver, Vanish, handler
<1>12. CASE UnitChanges
  <2>1. NotePages /\ UNCHANGED <<op, rows, result, silent>>
    BY <1>12 DEF UnitChanges, handler
  <2> QED  BY <1>v, <2>1, NotesGrow, PagingKept
<1>13. CASE UNCHANGED vars
  BY <1>13, <1>3 DEF vars, host, handler
<1> QED
  BY <1>1, <1>4, <1>5, <1>6, <1>7, <1>8, <1>9, <1>10, <1>11, <1>12, <1>13 DEF Next, Step

-----------------------------------------------------------------------------
(* The theorems *)

LEMMA Invariance == Spec => []IInv
<1>1. IInv /\ [Next]_vars => IInv'
  <2> SUFFICES ASSUME IInv, [Next]_vars PROVE IInv'
    OBVIOUS
  <2>1. TypeOK /\ (\A u \in Workers : Clearing(u)) /\ (\A u \in Workers : Paging(u))
    BY DEF IInv
  <2>2. TypeOK'
    BY <2>1, TypeStep
  <2>3. \A v \in Workers : Clearing(v)'
    BY <2>1, ClearingStep
  <2>4. \A v \in Workers : Paging(v)'
    BY <2>1, PagingStep
  <2> QED  BY <2>2, <2>3, <2>4 DEF IInv
<1> QED  BY <1>1, InitInv, PTL DEF Spec

\* Every variable has its type, and the fallback is for the deletion alone.
THEOREM TypeCorrect == Spec => []TypeOK
<1>1. IInv => TypeOK
  BY DEF IInv
<1> QED  BY <1>1, Invariance, PTL

\* delete_mailbox: a mailbox reported as cleared holds none of what it held before.
THEOREM ClearIsHonest == Spec => []ClearedMeansGone
<1>1. IInv => ClearedMeansGone
  BY DEF IInv, Clearing, ClearedMeansGone
<1> QED  BY <1>1, Invariance, PTL

\* run_health_checks: a unit that is shown as ok was active while the page was made.
THEOREM OkIsHonest == Spec => []OkWasTrue
<1>1. IInv => OkWasTrue
  BY DEF IInv, Paging, OkWasTrue
<1> QED  BY <1>1, Invariance, PTL

\* run_health_checks: a tool that gave no answer has a row that is not ok.
THEOREM SilenceShows == Spec => []SilenceIsShown
<1>1. IInv => SilenceIsShown
  BY DEF IInv, Paging, SilenceIsShown, Shown
<1> QED  BY <1>1, Invariance, PTL

-----------------------------------------------------------------------------
(* Every request moves towards its end *)

LEMMA StepsAre ==
    /\ StepsFrom("idle") = 0
    /\ \A step \in {"log", "postconf"} : StepsFrom(step) = 1
    /\ \A step \in {"resync", "expunge", "quota_recalc", "force_resync", "service", "probes"} :
          StepsFrom(step) = 2
    /\ \A step \in {"expunge_all", "services"} : StepsFrom(step) = 3
    /\ StepsFrom("kick") = 4 /\ StepsFrom("delete_mailbox") = 5
BY DEF StepsFrom

Places == {"log", "postconf", "resync", "expunge", "quota_recalc", "force_resync", "service",
           "probes", "expunge_all", "services", "kick", "delete_mailbox"}

LEMMA PlacesAre ==
    ASSUME TypeOK, NEW w \in Workers, pc[w] # "idle"
    PROVE  pc[w] \in Places
BY DEF TypeOK, Kinds, Steps, MailOps, Places

\* A page asks nothing twice: a probe adds the one row its name has not had.
LEMMA RowsAdvance ==
    ASSUME TypeOK, NEW w \in Workers, NEW name, NEW state, AddRow(w, name, state),
           ~HasRow(w, name)
    PROVE  rows[w] \subseteq rows'[w] /\ \A new \in NewNames(w) : ~HasRow(w, new)
<1>1. rows'[w] = rows[w] \cup {<<name, state>>}
  BY DEF AddRow, TypeOK
<1>2. \A row \in rows'[w] \ rows[w] : row[1] = name
  BY <1>1
<1>. QED
  BY <1>1, <1>2 DEF NewNames

LEMMA StepAdvances ==
    ASSUME TypeOK, NEW w \in Workers, Step(w)
    PROVE  \/ StepsFrom(pc'[w]) < StepsFrom(pc[w])
           \/ /\ pc'[w] = pc[w] /\ rows[w] \subseteq rows'[w]
              /\ \A name \in NewNames(w) : ~HasRow(w, name)
<1>1. CASE \/ \E s \in Services : ProbeService(w, s)
           \/ \E p \in Probes : Probe(w, p)
  <2>1. pc' = pc /\ \E name, state : AddRow(w, name, state) /\ ~HasRow(w, name)
    BY <1>1 DEF ProbeService, Probe
  <2>. QED
    BY <2>1, RowsAdvance
<1>2. ASSUME pc[w] \in Places, pc'[w] = "idle"
      PROVE  StepsFrom(pc'[w]) < StepsFrom(pc[w])
  BY <1>2, StepsAre DEF Places
<1>3. CASE \/ Delete(w) \/ Kick(w) \/ ExpungeAll(w) \/ Resync(w) \/ Expunge(w) \/ Recount(w)
           \/ ServiceAction(w)
  <2>1. \/ pc'[w] = "idle"
        \/ pc[w] = "delete_mailbox" /\ pc'[w] \in {"log", "kick"}
        \/ pc[w] = "kick" /\ pc'[w] = "expunge_all"
        \/ pc[w] = "expunge_all" /\ pc'[w] = "resync"
        \/ pc[w] \in {"resync", "expunge", "quota_recalc", "force_resync", "service"}
              /\ pc'[w] = "log"
    BY <1>3 DEF Delete, Kick, ExpungeAll, Resync, Expunge, Recount, ServiceAction, NoStatus, End,
       Goto, TypeOK
  <2>2. pc[w] \in Places
    BY <1>3 DEF Delete, Kick, ExpungeAll, Resync, Expunge, Recount, ServiceAction, Places
  <2>. QED
    BY <1>2, <2>1, <2>2, StepsAre
<1>4. CASE Log(w) \/ ServicesDone(w) \/ ProbesDone(w) \/ Postconf(w)
  <2>1. \/ pc[w] \in {"log", "postconf"} /\ pc'[w] = "idle"
        \/ pc[w] = "services" /\ pc'[w] = "probes"
        \/ pc[w] = "probes" /\ pc'[w] = "postconf"
    BY <1>4 DEF Log, ServicesDone, ProbesDone, Postconf, End, Goto, TypeOK
  <2>. QED
    BY <2>1, StepsAre
<1>. QED
  BY <1>1, <1>3, <1>4 DEF Step

\* What a handler does leaves where the others stand alone.
LEMMA OthersStand ==
    ASSUME TypeOK, NEW v \in Workers, NEW w \in Workers \ {v},
           Begin(v) \/ Step(v) \/ Disconnect(v)
    PROVE  UNCHANGED <<pc[w], rows[w]>>
<1>1. /\ pc' = pc \/ \E step : pc' = [pc EXCEPT ![v] = step]
      /\ rows' = rows \/ \E found : rows' = [rows EXCEPT ![v] = found]
  BY DEF Begin, Step, Disconnect, Delete, Kick, ExpungeAll, Resync, Expunge, Recount,
     ServiceAction, Log, ProbeService, ServicesDone, Probe, ProbesDone, Postconf, NoStatus, End,
     Goto, AddRow
<1>. QED
  BY <1>1 DEF TypeOK

LEMMA NextAdvances ==
    ASSUME TypeOK, [Next]_vars, NEW w \in Workers, pc[w] # "idle"
    PROVE  \/ UNCHANGED <<pc[w], rows[w]>>
           \/ StepsFrom(pc'[w]) < StepsFrom(pc[w])
           \/ /\ pc'[w] = pc[w] /\ rows[w] \subseteq rows'[w]
              /\ \A name \in NewNames(w) : ~HasRow(w, name)
<1>1. ASSUME NEW v \in Workers \ {w}, Begin(v) \/ Step(v) \/ Disconnect(v)
      PROVE  UNCHANGED <<pc[w], rows[w]>>
  BY <1>1, OthersStand
<1>2. CASE Disconnect(w)
  <2>1. pc'[w] = "idle" /\ pc[w] \in Places
    BY <1>2, PlacesAre DEF Disconnect, End, Goto, TypeOK
  <2>. QED
    BY <2>1, StepsAre DEF Places
<1>3. CASE Deliver \/ Vanish \/ UnitChanges \/ UNCHANGED vars
  BY <1>3 DEF Deliver, Vanish, UnitChanges, vars, handler
<1>4. ~Begin(w)
  BY DEF Begin
<1>. QED
  BY <1>1, <1>2, <1>3, <1>4, StepAdvances DEF Next

\* However many handlers, units and probes there are: a handler only moves towards its
\* end, or on to a probe the page has no row of yet.
THEOREM RequestsOnlyAdvance == Spec => RequestsAdvance
<1>1. TypeOK /\ [Next]_vars =>
        [\A w \in Workers : pc[w] # "idle" =>
            \/ UNCHANGED <<pc[w], rows[w]>>
            \/ StepsFrom(pc'[w]) < StepsFrom(pc[w])
            \/ /\ pc'[w] = pc[w] /\ rows[w] \subseteq rows'[w]
               /\ \A name \in NewNames(w) : ~HasRow(w, name)]_vars
  BY NextAdvances
<1>. QED
  BY <1>1, TypeCorrect, PTL DEF Spec, RequestsAdvance
=============================================================================
