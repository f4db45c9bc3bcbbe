----------------------------- MODULE HostTools -----------------------------
(***************************************************************************)
(* The handlers that do nothing but run commands of the host and tell the  *)
(* administrator how it went: mailbox maintenance (src/users.rs:143-183,   *)
(* 266-287, src/routes/users.rs), service actions (src/services.rs) and    *)
(* the Health page (src/health.rs).  They share the mailbox of one account *)
(* and the units of systemd with each other, with deliveries and with      *)
(* everybody else on the host.  One action is one await.                   *)
(***************************************************************************)
EXTENDS Naturals

CONSTANTS
    Workers,    \* bound: handlers that may run at the same time
    Messages,   \* bound: messages that may ever be in the mailbox
    Services,   \* the units of [health].services
    Probes,     \* bound: the probes of Health looked at besides units and Postfix
    Ops,        \* what is asked for in this instance
    Wirings     \* bound: what postconf may print

MailOps == {"delete_mailbox", "expunge", "quota_recalc", "force_resync"}
Settings == {"recipient", "sender", "client"}
Checks == {"check_recipient_access", "check_sender_access", "check_client_access"}
Files == {"address_file", "domain_file", "ip_file", "other_file"}
Entries == Checks \X Files

PlainProbes == {"port", "dns:mx", "dns:spf", "dns:dmarc", "dns:dkim", "tls:cert", "queue", "disk"}

\* The code tells the names of units by a prefix.
ASSUME ServicesAssumption == Services \cap (PlainProbes \cup Settings \cup {"bans"}) = {}
ASSUME ProbesAssumption == Probes \subseteq PlainProbes
ASSUME OpsAssumption == Ops \subseteq MailOps \cup {"service", "health"}
ASSUME WiringAssumption == Wirings \subseteq [Settings -> SUBSET Entries]

VARIABLES
    inbox,      \* the messages of the account
    unsent,     \* the messages still to be delivered
    active,     \* the units that are active
    pc,         \* where each handler stands
    op,         \* what it was asked for
    status,     \* 0 or 1 (any other): the status it will report
    rows,       \* Health: its rows so far, as <<name, status>>
    result,     \* what the administrator was shown
    seen,       \* history of a mailbox request: the messages there when it began
    wasActive,  \* history of a page: the units active at some time since it began
    silent      \* history of a page: some tool gave no answer

host    == <<inbox, unsent, active>>
handler == <<pc, op, status, rows, result>>
history == <<seen, wasActive, silent>>
vars    == <<host, handler, history>>

Rows == (Services \cup PlainProbes \cup Settings \cup {"bans"}) \X {"ok", "warn", "error"}

Init ==
    /\ inbox \in SUBSET Messages /\ unsent = Messages \ inbox
    /\ active \in SUBSET Services
    /\ pc = [w \in Workers |-> "idle"] /\ op = [w \in Workers |-> "none"]
    /\ status = [w \in Workers |-> 0] /\ rows = [w \in Workers |-> {}]
    /\ result = [w \in Workers |-> "none"]
    /\ seen = [w \in Workers |-> {}] /\ wasActive = [w \in Workers |-> {}]
    /\ silent = [w \in Workers |-> FALSE]

\* The first await of each handler behind the session and CSRF checks.
First(o) == IF o = "health" THEN "services" ELSE o

Begin(w) ==
    /\ pc[w] = "idle"
    /\ \E o \in Ops :
        /\ op' = [op EXCEPT ![w] = o] /\ pc' = [pc EXCEPT ![w] = First(o)]
        /\ seen' = [seen EXCEPT ![w] = IF o \in MailOps THEN inbox ELSE {}]
        /\ wasActive' = [wasActive EXCEPT ![w] = IF o = "health" THEN active ELSE {}]
    /\ status' = [status EXCEPT ![w] = 0] /\ rows' = [rows EXCEPT ![w] = {}]
    /\ result' = [result EXCEPT ![w] = "none"]
    /\ silent' = [silent EXCEPT ![w] = FALSE]
    /\ UNCHANGED host

Goto(w, step) == pc' = [pc EXCEPT ![w] = step]

\* The handler and what it held are gone; the browser shows r.
End(w, r) ==
    /\ Goto(w, "idle")
    /\ op' = [op EXCEPT ![w] = "none"] /\ status' = [status EXCEPT ![w] = 0]
    /\ rows' = [rows EXCEPT ![w] = {}]
    /\ result' = [result EXCEPT ![w] = r]

\* No status, because the command was not started or was killed after ten seconds: the
\* error leaves by `?`, with no audit row, and shows an error page.
NoStatus(w) == End(w, "error")

\* The client has gone, and the handler with it.
Disconnect(w) ==
    /\ pc[w] # "idle"
    /\ End(w, "none")
    /\ UNCHANGED <<host, history>>

-----------------------------------------------------------------------------
(* Mailbox maintenance *)

\* What doveadm may leave of the mailbox: nothing if it says so, or any part.
Clears(s) == IF s = 0 THEN inbox' = {} ELSE inbox' \in SUBSET inbox

\* delete_mailbox: the command; the fallback is for any status but 0.
Delete(w) ==
    /\ pc[w] = "delete_mailbox"
    /\ \/ \E s \in {0, 1} :
            /\ Clears(s)
            /\ status' = [status EXCEPT ![w] = s]
            /\ Goto(w, IF s = 0 THEN "log" ELSE "kick")
            /\ UNCHANGED <<op, rows, result>>
       \/ inbox' \in SUBSET inbox /\ NoStatus(w)
    /\ UNCHANGED <<unsent, active, history>>

\* What comes of the kick is ignored.
Kick(w) ==
    /\ pc[w] = "kick"
    /\ Goto(w, "expunge_all")
    /\ UNCHANGED <<host, op, status, rows, result, history>>

ExpungeAll(w) ==
    /\ pc[w] = "expunge_all"
    /\ \/ \E s \in {0, 1} :
            /\ Clears(s)
            /\ status' = [status EXCEPT ![w] = s]
            /\ Goto(w, "resync")
            /\ UNCHANGED <<op, rows, result>>
       \/ inbox' \in SUBSET inbox /\ NoStatus(w)
    /\ UNCHANGED <<unsent, active, history>>

\* Mutant of Resync: the last status is the one that is reported.
ResyncDecides(w) ==
    /\ pc[w] = "resync"
    /\ \/ \E s \in {0, 1} : status' = [status EXCEPT ![w] = s]
          /\ Goto(w, "log") /\ UNCHANGED <<op, rows, result>>
       \/ NoStatus(w)
    /\ UNCHANGED <<host, history>>

\* Mutant of Resync: as long as the mailbox is not cleared, kick and expunge again.
ResyncAgain(w) ==
    /\ pc[w] = "resync"
    /\ \/ Goto(w, IF status[w] = 0 THEN "log" ELSE "kick") /\ UNCHANGED <<op, status, rows, result>>
       \/ NoStatus(w)
    /\ UNCHANGED <<host, history>>

\* Whatever status the resync has, that of the expunge is reported; but with no status
\* an expunge that worked goes unreported.
Resync(w) ==
    /\ pc[w] = "resync"
    /\ \/ Goto(w, "log") /\ UNCHANGED <<op, status, rows, result>>
       \/ NoStatus(w)
    /\ UNCHANGED <<host, history>>

\* Mutant of Expunge: the fallback of the deletion for this one too.
ExpungeFallback(w) ==
    /\ pc[w] = "expunge"
    /\ \E s \in {0, 1} :
            /\ Clears(s)
            /\ status' = [status EXCEPT ![w] = s]
            /\ Goto(w, IF s = 0 THEN "log" ELSE "kick")
    /\ UNCHANGED <<unsent, active, op, rows, result, history>>

\* expunge_mailbox; a name that is not valid fails before the command.
Expunge(w) ==
    /\ pc[w] = "expunge"
    /\ \/ \E s \in {0, 1} :
            /\ Clears(s)
            /\ status' = [status EXCEPT ![w] = s]
            /\ Goto(w, "log")
            /\ UNCHANGED <<op, rows, result>>
       \/ inbox' \in SUBSET inbox /\ NoStatus(w)
    /\ UNCHANGED <<unsent, active, history>>

\* quota_recalc and force_resync move no message.
Recount(w) ==
    /\ pc[w] \in {"quota_recalc", "force_resync"}
    /\ \/ \E s \in {0, 1} : status' = [status EXCEPT ![w] = s]
          /\ Goto(w, "log") /\ UNCHANGED <<op, rows, result>>
       \/ NoStatus(w)
    /\ UNCHANGED <<host, history>>

-----------------------------------------------------------------------------
(* Services *)

\* What each page that is being put together could see of the units.
NotePages ==
    wasActive' = [v \in Workers |->
        IF op[v] = "health" THEN wasActive[v] \cup active' ELSE wasActive[v]]

\* systemctl status, restart or reload: a restart may end either way.
ServiceAction(w) ==
    /\ pc[w] = "service"
    /\ \E s \in Services, up \in BOOLEAN :
          active' = IF up THEN active \cup {s} ELSE active \ {s}
    /\ NotePages
    /\ \/ \E s \in {0, 1} : status' = [status EXCEPT ![w] = s]
          /\ Goto(w, "log") /\ UNCHANGED <<op, rows, result>>
       \/ NoStatus(w)
    /\ UNCHANGED <<inbox, unsent, seen, silent>>

\* The banner: only the deletion and the service action look at the status.
Banner(o, s) ==
    CASE o = "delete_mailbox" -> IF s = 0 THEN "delete-ok" ELSE "delete-failed"
      [] o = "service"        -> IF s = 0 THEN "service-ok" ELSE "service-failed"
      [] o = "expunge"        -> "mailbox-expunged"
      [] o = "quota_recalc"   -> "quota-recalc-ok"
      [] OTHER                -> "force-resync-ok"

\* The audit row, then the redirect that shows the banner.
Log(w) ==
    /\ pc[w] = "log"
    /\ End(w, Banner(op[w], status[w])) \/ End(w, "error")
    /\ UNCHANGED <<host, history>>

-----------------------------------------------------------------------------
(* run_health_checks *)

HasRow(w, name) == \E row \in rows[w] : row[1] = name
AddRow(w, name, state) == rows' = [rows EXCEPT ![w] = @ \cup {<<name, state>>}]

\* Mutant of ProbeService: the answer is not compared with "active".
ProbeServiceExit(w, s) ==
    /\ pc[w] = "services" /\ ~HasRow(w, s)
    /\ \/ AddRow(w, s, "ok") /\ silent' = silent
       \/ AddRow(w, s, "error") /\ silent' = [silent EXCEPT ![w] = TRUE]
    /\ UNCHANGED <<host, pc, op, status, result, seen, wasActive>>

\* systemctl is-active, one unit after the other, in any order; what prints nothing is a warning.
ProbeService(w, s) ==
    /\ pc[w] = "services" /\ ~HasRow(w, s)
    /\ \/ AddRow(w, s, IF s \in active THEN "ok" ELSE "warn") /\ silent' = silent
       \/ /\ \E state \in {"warn", "error"} : AddRow(w, s, state)
          /\ silent' = [silent EXCEPT ![w] = TRUE]
    /\ UNCHANGED <<host, pc, op, status, result, seen, wasActive>>

\* Mutant of PlainRow: no answer is taken for an empty one, as the dashboard does.
PlainRowDefault(probe, answer) == IF answer = "bad" THEN "warn" ELSE "ok"

\* Each probe's own match: the status of postqueue and df is not looked at.
PlainRow(probe, answer) ==
    CASE answer = "good" -> "ok"
      [] answer = "bad"  -> IF probe \in {"queue", "disk"} THEN "ok" ELSE "warn"
      [] answer = "none" -> IF probe \in {"dns:mx", "dns:spf", "dns:dmarc", "dns:dkim"}
                            THEN "error" ELSE "warn"

ServicesDone(w) ==
    /\ pc[w] = "services" /\ \A s \in Services : HasRow(w, s)
    /\ Goto(w, "probes")
    /\ UNCHANGED <<host, op, status, rows, result, history>>

\* The probes that are no commands of systemd, in any order.
Probe(w, p) ==
    /\ pc[w] = "probes" /\ ~HasRow(w, p)
    /\ \E answer \in {"good", "bad", "none"} :
        /\ AddRow(w, p, PlainRow(p, answer))
        /\ silent' = [silent EXCEPT ![w] = @ \/ answer = "none"]
    /\ UNCHANGED <<host, pc, op, status, result, seen, wasActive>>

ProbesDone(w) ==
    /\ pc[w] = "probes" /\ \A p \in Probes : HasRow(w, p)
    /\ Goto(w, "postconf")
    /\ UNCHANGED <<host, op, status, rows, result, history>>

Expected(setting) ==
    CASE setting = "recipient" -> {<<"check_recipient_access", "address_file">>}
      [] setting = "sender"    -> {<<"check_sender_access", "address_file">>,
                                   <<"check_sender_access", "domain_file">>}
      [] setting = "client"    -> {<<"check_client_access", "ip_file">>}

\* The line contains the words: which check a file stands behind is not compared.
Mentions(line, entry) ==
    (\E e \in line : e[1] = entry[1]) /\ (\E e \in line : e[2] = entry[2])

RestrictionCheck(line, setting) ==
    IF \A entry \in Expected(setting) : Mentions(line, entry) THEN "ok" ELSE "warn"

\* check_postfix_ban_integration, the last probe: three rows from one postconf, or one
\* row when it fails; then the page is shown.
Postconf(w) ==
    /\ pc[w] = "postconf"
    /\ \/ /\ \E wiring \in Wirings : rows' = [rows EXCEPT ![w] = @ \cup
                   {<<s, RestrictionCheck(wiring[s], s)>> : s \in Settings}]
          /\ silent' = silent
       \/ AddRow(w, "bans", "warn") /\ silent' = [silent EXCEPT ![w] = TRUE]
    /\ Goto(w, "idle") /\ op' = [op EXCEPT ![w] = "none"]
    /\ result' = [result EXCEPT ![w] = "health"]
    /\ UNCHANGED <<host, status, seen, wasActive>>

-----------------------------------------------------------------------------
(* The host *)

Deliver ==
    /\ \E m \in unsent : inbox' = inbox \cup {m} /\ unsent' = unsent \ {m}
    /\ UNCHANGED <<active, handler, history>>

\* The owner's client, or a command that outlived its handler.
Vanish ==
    /\ \E m \in inbox : inbox' = inbox \ {m}
    /\ UNCHANGED <<unsent, active, handler, history>>

UnitChanges ==
    /\ \E s \in Services : active' = IF s \in active THEN active \ {s} ELSE active \cup {s}
    /\ NotePages
    /\ UNCHANGED <<inbox, unsent, handler, seen, silent>>

Step(w) ==
    \/ Delete(w) \/ Kick(w) \/ ExpungeAll(w) \/ Resync(w)
    \/ Expunge(w) \/ Recount(w) \/ ServiceAction(w) \/ Log(w)
    \/ (\E s \in Services : ProbeService(w, s)) \/ ServicesDone(w)
    \/ (\E p \in Probes : Probe(w, p)) \/ ProbesDone(w) \/ Postconf(w)

Next ==
    \/ \E w \in Workers : Begin(w) \/ Step(w) \/ Disconnect(w)
    \/ Deliver \/ Vanish \/ UnitChanges

Spec == Init /\ [][Next]_vars

\* Every command ends within its ten seconds and every woken handler runs.
FairSpec == Spec /\ \A w \in Workers : WF_vars(Step(w))

-----------------------------------------------------------------------------
(* Properties *)

Kinds == MailOps \cup {"none", "service", "health"}

\* Where a handler with this request may stand.
Steps(o) ==
    CASE o = "none"           -> {"idle"}
      [] o = "delete_mailbox" -> {o, "kick", "expunge_all", "resync", "log"}
      [] o = "health"         -> {"services", "probes", "postconf"}
      [] OTHER                -> {o, "log"}

Results == {"none", "error", "health", "delete-ok", "delete-failed", "service-ok",
            "service-failed", "mailbox-expunged", "quota-recalc-ok", "force-resync-ok"}

\* What each variable may hold: a message is delivered once, the fallback is for the
\* deletion alone, and a handler that works has shown nothing yet.
TypeOK ==
    /\ inbox \subseteq Messages /\ unsent \subseteq Messages /\ inbox \cap unsent = {}
    /\ active \subseteq Services
    /\ op \in [Workers -> Kinds] /\ pc \in [Workers -> UNION {Steps(o) : o \in Kinds}]
    /\ status \in [Workers -> {0, 1}] /\ result \in [Workers -> Results]
    /\ rows \in [Workers -> SUBSET Rows]
    /\ seen \in [Workers -> SUBSET Messages] /\ wasActive \in [Workers -> SUBSET Services]
    /\ silent \in [Workers -> BOOLEAN]
    /\ \A w \in Workers :
        /\ pc[w] \in Steps(op[w])
        /\ op[w] # "none" => result[w] = "none"

Shown(w) == pc[w] = "idle" /\ result[w] = "health"

\* "INBOX clear completed." is said only when every message that was there when the
\* administrator asked has gone, whichever of the two ways cleared it, whatever the resync
\* said and whatever was delivered meanwhile.
ClearedMeansGone ==
    \A w \in Workers : result[w] = "delete-ok" => seen[w] \cap inbox = {}

\* A unit is shown as ok only if it was active while the page was put together, however
\* often it was restarted, and stopped, meanwhile.
OkWasTrue ==
    \A w \in Workers, s \in Services : <<s, "ok">> \in rows[w] => s \in wasActive[w]

\* A page on which some tool gave no answer says so in a row.
SilenceIsShown ==
    \A w \in Workers : Shown(w) /\ silent[w] => \E row \in rows[w] : row[2] # "ok"

\* Every handler comes to its end, the fallback of the deletion included.
EveryRequestEnds == \A w \in Workers : pc[w] # "idle" ~> pc[w] = "idle"

\* How many steps a handler has in front of it, the rows of a page aside.
StepsFrom(step) ==
    CASE step = "idle" -> 0
      [] step \in {"log", "postconf"} -> 1
      [] step \in {"resync", "expunge", "quota_recalc", "force_resync", "service", "probes"} -> 2
      [] step \in {"expunge_all", "services"} -> 3
      [] step = "kick" -> 4
      [] step = "delete_mailbox" -> 5

NewNames(w) == {row[1] : row \in rows'[w] \ rows[w]}

\* What EveryRequestEnds rests on: a handler moves only towards its end or, on the
\* Health page, to a probe that has no row yet, so that no unit is asked twice, and no
\* other handler or change of the host puts it back; the fallback of the deletion, with
\* its kick and its resync, runs once (users.rs, run_health_checks).
RequestsAdvance ==
    [][\A w \in Workers : pc[w] # "idle" =>
            \/ UNCHANGED <<pc[w], rows[w]>>
            \/ StepsFrom(pc'[w]) < StepsFrom(pc[w])
            \/ /\ pc'[w] = pc[w] /\ rows[w] \subseteq rows'[w]
               /\ \A name \in NewNames(w) : ~HasRow(w, name)]_vars

\* The banner after an expunge: "Expunge completed for the selected mailbox."
ExpungedMeansGone ==
    \A w \in Workers : result[w] = "mailbox-expunged" => seen[w] \cap inbox = {}

=============================================================================
