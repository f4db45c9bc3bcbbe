----------------------------- MODULE LoginProofs -----------------------------
(***************************************************************************)
(* More theorems about Accounts, for any number of handlers: a create that *)
(* nothing overlapped tells the truth, mail leaves only as a whole, a      *)
(* delete's success is true, every request moves towards its end, and,     *)
(* while nobody creates the account, Accounts implements Login.            *)
(***************************************************************************)
EXTENDS AccountsProofs

\* The steps of handlers that neither create nor toggle.
OtherStep(w) ==
    \/ Begin(w) \/ Resolve(w) \/ PreBan(w) \/ CheckDelete(w) \/ Kick(w) \/ MoveAway(w)
    \/ RemoveTree(w) \/ Respond(w) \/ Drop(w)

LEMMA NextCases ==
    ASSUME [Next]_vars
    PROVE  \/ \E w \in Workers : OtherStep(w) \/ CreateStep(w) \/ ToggleStep(w)
           \/ Deliver \/ Tick \/ ChangeBan \/ UNCHANGED vars
BY DEF Next, Step, OtherStep, CreateStep, ToggleStep

LEMMA OtherHome ==
    ASSUME NEW w \in Workers, OtherStep(w)
    PROVE  home' = home \/ (home # NoDir /\ home' = NoDir)
BY DEF OtherStep, Begin, Resolve, PreBan, CheckDelete, Kick, MoveAway, RemoveTree, Retry, NotEmptyYet,
       Respond, Drop, disk

LEMMA OtherBanned ==
    ASSUME DiskOK, NEW w \in Workers, OtherStep(w)
    PROVE  banned' = banned \/ (banned' = TRUE /\ home' = home)
BY DEF DiskOK, OtherStep, Begin, Resolve, PreBan, CheckDelete, Kick, MoveAway, RemoveTree, Retry,
       NotEmptyYet, Respond, Drop, disk, world

LEMMA ToggleHome ==
    ASSUME NEW w \in Workers, ToggleStep(w)
    PROVE  /\ UNCHANGED world
           /\ \/ home' = home
              \/ /\ home # NoDir /\ home.password # NoFile
                 /\ home' = [home EXCEPT !.blocked = home.password, !.password = NoFile]
              \/ /\ home # NoDir /\ home.blocked # NoFile
                 /\ home' = [home EXCEPT !.password = home.blocked, !.blocked = NoFile]
BY DEF ToggleStep, CheckDisable, RenameDisable, CheckEnable, RenameEnable, disk, Exists

-----------------------------------------------------------------------------
(* A create that nothing overlapped *)

LoginWorks(w) == Exists("password") /\ home.password = req[w].password

\* The strengthening: while nothing overlaps a handler it is the only busy one,
\* so what its auth test found still holds when the mailbox is there.
LoneInv ==
    \A w \in Workers :
        /\ result[w] = "created" => pc[w] = "done"
        /\ pc[w] # "idle" /\ w \notin overlapped =>
              /\ \A v \in Workers \ {w} : pc[v] = "idle"
              /\ pc[w] = "init_mailbox" \/ result[w] = "created" => LoginWorks(w)

\* A handler that still awaits its operation goes on or ends.
LEMMA Proceeds ==
    ASSUME NEW w \in Workers, NEW step, Goto(w, step), ~Forget(w)
    PROVE  /\ pc' = [pc EXCEPT ![w] = step]
           /\ UNCHANGED <<req, stamp, tries, warned, result, attached, overlapped>>
BY DEF Goto

LEMMA Ends ==
    ASSUME NEW w \in Workers, NEW outcome, Finish(w, outcome), ~Forget(w)
    PROVE  /\ pc' = [pc EXCEPT ![w] = "done"]
           /\ result' = [result EXCEPT ![w] = outcome]
           /\ UNCHANGED <<req, stamp, tries, warned, attached, overlapped>>
BY DEF Finish

\* A handler's own steps leave the others' records alone, and end its own only
\* by forgetting it.
LEMMA OwnStep ==
    ASSUME HandlersOK, NEW v \in Workers, Step(v) \/ Drop(v), ~Forget(v)
    PROVE  /\ pc[v] # "idle" /\ pc[v] # "done"
           /\ UNCHANGED <<req, overlapped>>
           /\ \/ pc[v] \in FileSteps /\ pc' = pc /\ result' = result
              \/ \E step \in Steps \ {"idle", "init_mailbox"} :
                    pc' = [pc EXCEPT ![v] = step] /\ result' = result
              \/ \E outcome \in Results \ {"created"} :
                    pc' = [pc EXCEPT ![v] = "done"] /\ result' = [result EXCEPT ![v] = outcome]
              \/ /\ pc' = [pc EXCEPT ![v] = "init_mailbox"] /\ result' = result
                 /\ LoginWorks(v) /\ home' = home
              \/ /\ pc[v] = "init_mailbox" /\ home' = WithMail
                 /\ pc' = [pc EXCEPT ![v] = "done"] /\ result' = [result EXCEPT ![v] = "created"]
<1>1. pc[v] # "idle" /\ pc[v] # "done"
  BY DEF Step, Drop, Resolve, CheckCreate, MakeDir, HashPassword, WritePassword, Permissions,
         AuthTest, InitMailbox, UndoAuth, UndoPassword, UndoDir, CheckDisable, RenameDisable,
         CheckEnable, RenameEnable, PreBan, CheckDelete, Kick, MoveAway, RemoveTree, Respond,
         FileSteps
<1>2. \/ \E step \in Steps \ {"idle", "init_mailbox"} : Goto(v, step)
      \/ \E outcome \in Results \ {"created"} : Finish(v, outcome)
      \/ Goto(v, "init_mailbox") /\ LoginWorks(v) /\ home' = home
      \/ Finish(v, "created") /\ pc[v] = "init_mailbox" /\ home' = WithMail
      \/ PreBan(v) \/ Kick(v) \/ RemoveTree(v) \/ Drop(v)
  <2>1. CASE Resolve(v)
    <3>1. req[v].op \in {"create", "disable", "enable", "delete"}
      BY <2>1, Serving DEF Resolve
    <3>. QED
      BY <2>1, <3>1 DEF Resolve, AfterLookup, Steps, Results
  <2>2. CASE CreateStep(v)
    BY <2>2 DEF CreateStep, CheckCreate, MakeDir, HashPassword, WritePassword, Permissions,
         AuthTest, InitMailbox, UndoAuth, UndoPassword, UndoDir, Steps, Results,
         LoginWorks, disk
  <2>3. CASE ToggleStep(v)
    BY <2>3 DEF ToggleStep, CheckDisable, RenameDisable, CheckEnable, RenameEnable, Steps, Results
  <2>4. CASE CheckDelete(v) \/ MoveAway(v)
    BY <2>4 DEF CheckDelete, MoveAway, Deleted, Steps, Results
  <2>. QED
    BY <2>1, <2>2, <2>3, <2>4 DEF Step, CreateStep, ToggleStep, Respond
<1>3. CASE PreBan(v) \/ Kick(v)
  <2>1. \/ Finish(v, "failed")
        \/ \E step \in {"resolve", "move"} : pc' = [pc EXCEPT ![v] = step]
                                              /\ UNCHANGED <<req, result, overlapped>>
    BY <1>3 DEF PreBan, Kick
  <2>. QED
    BY <1>1, <2>1, Ends DEF Steps, Results
<1>4. CASE RemoveTree(v)
  <2>1. \/ \E outcome \in {"deleted", "deleted_banwarn", "failed"} : Finish(v, outcome)
        \/ UNCHANGED <<pc, req, result, overlapped>>
    BY <1>4 DEF RemoveTree, Retry, TryAgain, Deleted
  <2>2. pc[v] = "remove"
    BY <1>4 DEF RemoveTree
  <2>. QED
    BY <1>1, <2>1, <2>2, Ends DEF Results, FileSteps
<1>5. CASE Drop(v)
  BY <1>1, <1>5 DEF Drop
<1>. QED
  BY <1>1, <1>2, <1>3, <1>4, <1>5, Proceeds, Ends

\* A delivery does not touch the files of a login.
LEMMA DeliverKeepsLogin ==
    ASSUME DiskOK, home # NoDir, home' = WithMail
    PROVE  home' # NoDir /\ home'.password = home.password /\ home'.blocked = home.blocked
<1>1. home \in Directory /\ WithMail = [home EXCEPT !.mail = TRUE]
  BY DEF DiskOK, WithMail
<1>2. WithMail \in Directory
  BY <1>1 DEF Directory
<1>. QED
  BY <1>1, <1>2, NamesAssumption DEF Directory

LEMMA NextLone == TypeOK /\ LoneInv /\ [Next]_vars => LoneInv'
<1>. SUFFICES ASSUME TypeOK, LoneInv, [Next]_vars, NEW w \in Workers
              PROVE  /\ result'[w] = "created" => pc'[w] = "done"
                     /\ pc'[w] # "idle" /\ w \notin overlapped' =>
                          /\ \A v \in Workers \ {w} : pc'[v] = "idle"
                          /\ pc'[w] = "init_mailbox" \/ result'[w] = "created" => LoginWorks(w)'
  BY DEF LoneInv
<1>0. DiskOK /\ HandlersOK
  BY DEF TypeOK
<1>1. ASSUME NEW v \in Workers, Begin(v)
      PROVE  /\ result'[w] = "created" => pc'[w] = "done"
             /\ pc'[w] # "idle" /\ w \notin overlapped' =>
                  /\ \A u \in Workers \ {w} : pc'[u] = "idle"
                  /\ pc'[w] = "init_mailbox" \/ result'[w] = "created" => LoginWorks(w)'
  <2>1. PICK r \in Requests : pc' = [pc EXCEPT ![v] = FirstStep(r)]
    BY <1>1 DEF Begin
  <2>2. pc[v] = "idle" /\ result' = result /\ FirstStep(r) \in {"preban", "resolve"}
    BY <1>1 DEF Begin, FirstStep
  <2>3. pc'[v] = FirstStep(r) /\ \A u \in Workers \ {v} : pc'[u] = pc[u]
    BY <1>0, <2>1 DEF HandlersOK
  <2>4. result[v] # "created"
    BY <2>2 DEF LoneInv
  <2>5. result'[w] = "created" => pc'[w] = "done"
    BY <2>2, <2>3, <2>4 DEF LoneInv
  <2>6. ASSUME pc'[w] # "idle", w \notin overlapped'
        PROVE  w = v /\ \A u \in Workers \ {w} : pc'[u] = "idle"
    <3>1. Busy = {} \/ overlapped' = overlapped \cup Busy \cup {v}
      BY <1>1 DEF Begin
    <3>2. w \in Busy \/ w = v
      BY <2>3, <2>6 DEF Busy
    <3>3. Busy = {}
      BY <2>6, <3>1, <3>2
    <3>. QED
      BY <2>3, <3>2, <3>3 DEF Busy
  <2>. QED
    BY <2>2, <2>3, <2>4, <2>5, <2>6
<1>2. ASSUME NEW v \in Workers, Step(v) \/ Drop(v)
      PROVE  /\ result'[w] = "created" => pc'[w] = "done"
             /\ pc'[w] # "idle" /\ w \notin overlapped' =>
                  /\ \A u \in Workers \ {w} : pc'[u] = "idle"
                  /\ pc'[w] = "init_mailbox" \/ result'[w] = "created" => LoginWorks(w)'
  <2>1. CASE Forget(v)
    <3>1. /\ pc'[v] = "idle" /\ result'[v] = "none"
          /\ \A u \in Workers \ {v} : pc'[u] = pc[u] /\ result'[u] = result[u]
          /\ overlapped' = overlapped \ {v}
      BY <1>0, <2>1 DEF Forget, HandlersOK
    <3>2. pc[v] # "idle"
      BY <1>2, <2>1 DEF Step, Drop, Resolve, CheckCreate, MakeDir, HashPassword, WritePassword,
         Permissions, AuthTest, InitMailbox, UndoAuth, UndoPassword, UndoDir, CheckDisable,
         RenameDisable, CheckEnable, RenameEnable, PreBan, CheckDelete, Kick, MoveAway, RemoveTree, Respond
    <3>3. w # v /\ pc'[w] # "idle" /\ w \notin overlapped' => FALSE
      BY <3>1, <3>2 DEF LoneInv
    <3>. QED
      BY <3>1, <3>3 DEF LoneInv
  <2>2. CASE ~Forget(v)
    <3>1. pc[v] # "idle" /\ pc[v] # "done" /\ UNCHANGED <<req, overlapped>>
      BY <1>0, <1>2, <2>2, OwnStep
    <3>2. result[v] # "created"
      BY <3>1 DEF LoneInv
    <3>3. \/ pc[v] \in FileSteps /\ pc' = pc /\ result' = result
          \/ \E step \in Steps \ {"idle", "init_mailbox"} :
                pc' = [pc EXCEPT ![v] = step] /\ result' = result
          \/ \E outcome \in Results \ {"created"} :
                pc' = [pc EXCEPT ![v] = "done"] /\ result' = [result EXCEPT ![v] = outcome]
          \/ /\ pc' = [pc EXCEPT ![v] = "init_mailbox"] /\ result' = result
             /\ LoginWorks(v) /\ home' = home
          \/ /\ pc[v] = "init_mailbox" /\ home' = WithMail
             /\ pc' = [pc EXCEPT ![v] = "done"] /\ result' = [result EXCEPT ![v] = "created"]
      BY <1>0, <1>2, <2>2, OwnStep
    <3>4. \A u \in Workers \ {v} : pc'[u] = pc[u] /\ result'[u] = result[u]
      BY <1>0, <3>3 DEF HandlersOK
    <3>5. CASE w # v
      <4>1. pc[w] # "idle" => w \in overlapped
        BY <3>1, <3>5 DEF LoneInv
      <4>. QED
        BY <3>1, <3>4, <3>5, <4>1 DEF LoneInv
    <3>6. CASE w = v
      <4>1. w \notin overlapped => \A u \in Workers \ {w} : pc'[u] = "idle"
        BY <3>1, <3>4, <3>6 DEF LoneInv
      <4>2. result'[w] = "created" =>
              pc[w] = "init_mailbox" /\ home' = WithMail /\ pc'[w] = "done"
        BY <1>0, <3>2, <3>3, <3>6 DEF HandlersOK
      <4>3. ASSUME result'[w] = "created", w \notin overlapped  PROVE LoginWorks(w)'
        <5>1. pc[w] = "init_mailbox" /\ home' = WithMail
          BY <4>2, <4>3
        <5>2. LoginWorks(w)
          BY <4>3, <5>1 DEF LoneInv
        <5>. QED
          BY <1>0, <3>1, <5>1, <5>2, DeliverKeepsLogin DEF LoginWorks, Exists
      <4>4. ASSUME pc'[w] = "init_mailbox", w \notin overlapped  PROVE LoginWorks(w)'
        <5>1. LoginWorks(w) /\ home' = home
          BY <1>0, <3>3, <3>6, <4>4 DEF HandlersOK, FileSteps
        <5>. QED
          BY <3>1, <5>1 DEF LoginWorks, Exists
      <4>. QED
        BY <3>1, <3>6, <4>1, <4>2, <4>3, <4>4
    <3>. QED
      BY <3>5, <3>6
  <2>. QED
    BY <2>1, <2>2
<1>3. CASE Deliver
  <2>1. UNCHANGED <<pc, req, result, overlapped>> /\ home' = WithMail
    BY <1>3 DEF Deliver, local
  <2>2. LoginWorks(w) => LoginWorks(w)'
    BY <1>0, <2>1, DeliverKeepsLogin DEF LoginWorks, Exists
  <2>. QED
    BY <2>1, <2>2 DEF LoneInv
<1>4. CASE Tick \/ ChangeBan \/ UNCHANGED vars
  <2>1. UNCHANGED <<pc, req, result, overlapped, home>>
    BY <1>4 DEF Tick, ChangeBan, vars, local, disk
  <2>. QED
    BY <2>1 DEF LoneInv, LoginWorks, Exists
<1>. QED
  BY <1>1, <1>2, <1>3, <1>4 DEF Next

\* A create that no other request overlapped reports success only when the login
\* works with the password it was given, for any number of handlers.
THEOREM LoneCreateIsHonest == Spec => []LoneCreateCanLogIn
<1>1. Init => LoneInv
  BY DEF Init, LoneInv
<1>2. TypeOK /\ LoneInv /\ [Next]_vars => LoneInv'
  BY NextLone
<1>3. LoneInv => LoneCreateCanLogIn
  BY DEF LoneInv, LoneCreateCanLogIn, LoginWorks
<1>. QED
  BY <1>1, <1>2, <1>3, TypeCorrect, PTL DEF Spec

-----------------------------------------------------------------------------
(* What a delete does to the mail *)

\* Besides a delete that moves it, only the rollback of a create takes the
\* directory away, and that one finds it empty.
LEMMA HomeLeaves ==
    ASSUME TypeOK, [Next]_vars, home # NoDir, home' = NoDir
    PROVE  home = EmptyDir \/ \E w \in Workers : MoveAway(w)
<1>0. DiskOK /\ HandlersOK
  BY DEF TypeOK
<1>1. home \in Directory /\ WithMail # NoDir
  BY <1>0, DirTypes, NamesAssumption DEF DiskOK
<1>2. ASSUME NEW w \in Workers, CreateStep(w)  PROVE home = EmptyDir
  <2>1. req[w].password \in Passwords
    BY <1>0, <1>2, CreateServes, RequestsAssumption DEF Request
  <2>2. [home EXCEPT !.password = req[w].password] # NoDir
    BY <1>1, <2>1, RenamedTypes, NamesAssumption DEF Contents
  <2>3. WithoutPassword # NoDir
    BY <1>1, RenamedTypes, NamesAssumption DEF WithoutPassword
  <2>4. \A left \in {home.password, Torn} : [home EXCEPT !.password = left] # NoDir
    BY <1>1, RenamedTypes, NamesAssumption DEF Directory, Contents
  <2>. QED
    BY <1>1, <1>2, <2>2, <2>3, <2>4
       DEF CreateStep, CheckCreate, MakeDir, HashPassword, WritePassword, Permissions, AuthTest,
           InitMailbox, UndoAuth, UndoPassword, UndoDir, disk
<1>3. ASSUME NEW w \in Workers, ToggleStep(w)  PROVE FALSE
  <2>1. /\ [home EXCEPT !.blocked = home.password, !.password = NoFile] # NoDir
        /\ [home EXCEPT !.password = home.blocked, !.blocked = NoFile] # NoDir
    BY <1>1, RenamedTypes, NamesAssumption
  <2>. QED
    BY <1>3, <2>1, ToggleHome
<1>4. ASSUME NEW w \in Workers, OtherStep(w)  PROVE MoveAway(w)
  BY <1>4 DEF OtherStep, Begin, Resolve, PreBan, CheckDelete, Kick, RemoveTree, Retry,
              NotEmptyYet, Respond, Drop, disk
<1>5. CASE Deliver \/ Tick \/ ChangeBan \/ UNCHANGED vars
  BY <1>1, <1>5 DEF Deliver, Tick, ChangeBan, vars, disk
<1>. QED
  BY <1>2, <1>3, <1>4, <1>5, NextCases

LEMMA NextMail ==
    ASSUME TypeOK, [Next]_vars, home # NoDir, home' = NoDir, home.mail
    PROVE  \E w \in Workers :
              req[w] # Nobody /\ req[w].op = "delete" /\ tombstones'[stamp[w]] = home
<1>0. DiskOK /\ HandlersOK
  BY DEF TypeOK
<1>1. home # EmptyDir
  BY DEF EmptyDir
<1>2. PICK w \in Workers : MoveAway(w)
  BY <1>1, HomeLeaves
<1>3. pc[w] = "move" /\ tombstones' = [tombstones EXCEPT ![stamp[w]] = home]
  BY <1>2 DEF MoveAway, disk
<1>4. req[w] \in Requests /\ req[w].op = "delete"
  BY <1>0, <1>3, Serving DEF StepsOf
<1>5. tombstones'[stamp[w]] = home
  BY <1>0, <1>3 DEF DiskOK, HandlersOK
<1>6. req[w] # Nobody
  BY <1>4, NamesAssumption, RequestsAssumption
<1>. QED
  BY <1>4, <1>5, <1>6

\* Mail leaves an account only as a whole, by the rename of a delete, and is then
\* under the tombstone's name: no failed create, switch or removal takes it.
THEOREM MailIsMovedWhole == Spec => MailLeavesWhole
<1>1. TypeOK /\ [Next]_vars =>
        [home # NoDir /\ home' = NoDir /\ home.mail =>
            \E w \in Workers :
               req[w] # Nobody /\ req[w].op = "delete" /\ tombstones'[stamp[w]] = home]_vars
  BY NextMail
<1>. QED
  BY <1>1, TypeCorrect, PTL DEF Spec, MailLeavesWhole

\* The strengthening: a handler that has not finished has reported nothing, so
\* a report at the last step of a delete is that step's own.
Unreported == \A w \in Workers : pc[w] # "done" => result[w] = "none"

LEMMA NextUnreported == TypeOK /\ Unreported /\ [Next]_vars => Unreported'
<1>. SUFFICES ASSUME TypeOK, Unreported, [Next]_vars, NEW w \in Workers, pc'[w] # "done"
              PROVE  result'[w] = "none"
  BY DEF Unreported
<1>0. HandlersOK
  BY DEF TypeOK
<1>1. ASSUME NEW v \in Workers, Begin(v)  PROVE result'[w] = "none"
  <2>1. result' = result /\ \A u \in Workers \ {v} : pc'[u] = pc[u]
    BY <1>0, <1>1 DEF Begin, HandlersOK
  <2>2. pc[v] = "idle"
    BY <1>1 DEF Begin
  <2>. QED
    BY <2>1, <2>2 DEF Unreported
<1>2. ASSUME NEW v \in Workers, Step(v) \/ Drop(v)  PROVE result'[w] = "none"
  <2>1. CASE Forget(v)
    <3>1. result'[v] = "none" /\ \A u \in Workers \ {v} : pc'[u] = pc[u] /\ result'[u] = result[u]
      BY <1>0, <2>1 DEF Forget, HandlersOK
    <3>. QED
      BY <3>1 DEF Unreported
  <2>2. CASE ~Forget(v)
    <3>1. pc[v] # "done"
      BY <1>0, <1>2, <2>2, OwnStep
    <3>2. \/ result' = result
          \/ \E outcome \in Results :
                pc' = [pc EXCEPT ![v] = "done"] /\ result' = [result EXCEPT ![v] = outcome]
      BY <1>0, <1>2, <2>2, OwnStep DEF Results
    <3>3. \A u \in Workers \ {v} : pc'[u] = pc[u] /\ result'[u] = result[u]
      BY <1>0, <1>2, <2>2, OwnStep DEF HandlersOK
    <3>4. pc'[v] # "done" => result' = result
      BY <1>0, <3>2 DEF HandlersOK
    <3>. QED
      BY <3>1, <3>3, <3>4 DEF Unreported
  <2>. QED
    BY <2>1, <2>2
<1>3. CASE Deliver \/ Tick \/ ChangeBan \/ UNCHANGED vars
  BY <1>3 DEF Deliver, Tick, ChangeBan, vars, local, Unreported
<1>. QED
  BY <1>1, <1>2, <1>3 DEF Next

LEMMA NextRemoved ==
    ASSUME TypeOK, Unreported, [Next]_vars, NEW w \in Workers, pc[w] = "remove",
           result'[w] \in {"deleted", "deleted_banwarn"}
    PROVE  tombstones'[stamp[w]] = NoDir
<1>0. DiskOK /\ HandlersOK
  BY DEF TypeOK
<1>1. result[w] = "none"
  BY DEF Unreported
<1>2. ASSUME NEW v \in Workers, Step(v) \/ Drop(v), v # w  PROVE FALSE
  <2>1. CASE Forget(v)
    BY <1>0, <1>1, <1>2, <2>1 DEF Forget, HandlersOK
  <2>2. CASE ~Forget(v)
    BY <1>0, <1>1, <1>2, <2>2, OwnStep DEF HandlersOK
  <2>. QED
    BY <2>1, <2>2
<1>3. CASE Step(w) \/ Drop(w)
  <2>1. ~Forget(w)
    BY <1>0 DEF Forget, HandlersOK
  <2>2. RemoveTree(w)
    BY <1>1, <1>3, <2>1 DEF Step, Resolve, CheckCreate, MakeDir, HashPassword, WritePassword,
         Permissions, AuthTest, InitMailbox, UndoAuth, UndoPassword, UndoDir, CheckDisable,
         RenameDisable, CheckEnable, RenameEnable, PreBan, CheckDelete, Kick, MoveAway, Respond, Drop
  <2>3. ~Finish(w, "failed") /\ result' # result
    BY <1>0, <1>1, <2>1 DEF Finish, HandlersOK
  <2>4. tombstones' = [tombstones EXCEPT ![stamp[w]] = NoDir]
    BY <2>1, <2>2, <2>3 DEF RemoveTree, Retry, TryAgain
  <2>. QED
    BY <1>0, <2>4 DEF DiskOK, HandlersOK
<1>4. CASE Deliver \/ Tick \/ ChangeBan \/ UNCHANGED vars \/ \E v \in Workers : Begin(v)
  <2>1. result' = result
    BY <1>4 DEF Deliver, Tick, ChangeBan, vars, local, Begin
  <2>. QED
    BY <1>1, <2>1
<1>. QED
  BY <1>2, <1>3, <1>4 DEF Next

\* A delete that ends a removal reports success only when nothing is left of the
\* tombstone it made, however many deletes run and however many attempts failed.
THEOREM DeleteIsHonest == Spec => DeletedMeansRemoved
<1>1. Init => Unreported
  BY DEF Init, Unreported
<1>2. TypeOK /\ Unreported /\ [Next]_vars => Unreported'
  BY NextUnreported
<1>3. TypeOK /\ Unreported /\ [Next]_vars =>
        [\A w \in Workers : pc[w] = "remove" /\ result'[w] \in {"deleted", "deleted_banwarn"}
             => tombstones'[stamp[w]] = NoDir]_vars
  BY NextRemoved
<1>. QED
  BY <1>1, <1>2, <1>3, TypeCorrect, PTL DEF Spec, DeletedMeansRemoved

-----------------------------------------------------------------------------
(* Every request moves towards its end *)

LEMMA AwaitsAre ==
    /\ AwaitsFrom("done") = 1
    /\ \A step \in {"undo_auth", "undo_dir", "rename_disable", "rename_enable", "remove"} :
          AwaitsFrom(step) = 2
    /\ \A step \in {"undo_password", "check_disable", "check_enable", "move"} :
          AwaitsFrom(step) = 3
    /\ \A step \in {"init_mailbox", "kick"} : AwaitsFrom(step) = 4
    /\ \A step \in {"auth_test", "check_delete"} : AwaitsFrom(step) = 5
    /\ AwaitsFrom("permissions") = 6
    /\ AwaitsFrom("write") = 7 /\ AwaitsFrom("hash") = 8 /\ AwaitsFrom("mkdir") = 9
    /\ AwaitsFrom("check_create") = 10 /\ AwaitsFrom("resolve") = 11
    /\ AwaitsFrom("preban") = 12
BY DEF AwaitsFrom

LEMMA AwaitsSome ==
    ASSUME NEW step \in Steps \ {"idle"}
    PROVE  AwaitsFrom(step) \in Nat /\ 1 <= AwaitsFrom(step)
           /\ (step # "done" => 2 <= AwaitsFrom(step))
BY AwaitsAre DEF Steps

\* A handler that goes on, with as many attempts left, to a step with fewer awaits
\* behind it has fewer left.
LEMMA FewerLeft ==
    ASSUME HandlersOK, NEW w \in Workers, pc[w] # "idle", tries' = tries,
           NEW step \in Steps \ {"idle"}, pc' = [pc EXCEPT ![w] = step],
           AwaitsFrom(step) < AwaitsFrom(pc[w])
    PROVE  AwaitsLeft(w)' < AwaitsLeft(w)
<1>1. pc'[w] = step /\ pc[w] \in Steps \ {"idle"} /\ tries[w] \in Nat /\ tries'[w] = tries[w]
  BY AttemptsAssumption DEF HandlersOK
<1>2. AwaitsFrom(step) \in Nat /\ AwaitsFrom(pc[w]) \in Nat /\ Attempts \in Nat
  BY <1>1, AwaitsSome, AttemptsAssumption
<1>. QED
  BY <1>1, <1>2 DEF AwaitsLeft

LEMMA ForgetAdvances ==
    ASSUME HandlersOK, NEW w \in Workers, pc[w] # "idle", pc'[w] = "idle"
    PROVE  AwaitsLeft(w)' < AwaitsLeft(w)
<1>1. pc[w] \in Steps \ {"idle"} /\ tries[w] \in 0..(Attempts - 1) /\ Attempts \in Nat
  BY AttemptsAssumption DEF HandlersOK
<1>2. AwaitsFrom(pc[w]) \in Nat /\ 1 <= AwaitsFrom(pc[w])
  BY <1>1, AwaitsSome
<1>3. AwaitsLeft(w)' = 0 /\ AwaitsLeft(w) = AwaitsFrom(pc[w]) + Attempts - tries[w]
  BY DEF AwaitsLeft
<1>. QED
  BY <1>1, <1>2, <1>3

LEMMA Forgotten ==
    ASSUME HandlersOK, NEW w \in Workers, pc[w] # "idle", Forget(w)
    PROVE  AwaitsLeft(w)' < AwaitsLeft(w)
BY ForgetAdvances DEF Forget, HandlersOK

LEMMA FinishAdvances ==
    ASSUME HandlersOK, NEW w \in Workers, pc[w] \notin {"idle", "done"},
           NEW outcome, Finish(w, outcome)
    PROVE  AwaitsLeft(w)' < AwaitsLeft(w)
<1>1. pc[w] \in Steps \ {"idle", "done"}
  BY DEF HandlersOK
<1>2. AwaitsFrom("done") < AwaitsFrom(pc[w]) /\ "done" \in Steps
  BY <1>1, AwaitsAre, AwaitsSome DEF Steps
<1>3. CASE Forget(w)
  BY <1>1, <1>3, Forgotten
<1>4. CASE ~Forget(w)
  <2>1. tries' = tries /\ pc' = [pc EXCEPT ![w] = "done"]
    BY <1>4, Ends
  <2>. QED
    BY <1>1, <1>2, <2>1, FewerLeft
<1>. QED
  BY <1>3, <1>4

LEMMA GotoAdvances ==
    ASSUME HandlersOK, NEW w \in Workers, pc[w] # "idle",
           NEW step \in Steps \ {"idle"}, Goto(w, step), AwaitsFrom(step) < AwaitsFrom(pc[w])
    PROVE  AwaitsLeft(w)' < AwaitsLeft(w)
<1>1. CASE Forget(w)
  BY <1>1, Forgotten
<1>2. CASE ~Forget(w)
  <2>1. tries' = tries /\ pc' = [pc EXCEPT ![w] = step]
    BY <1>2, Proceeds
  <2>. QED
    BY <2>1, FewerLeft
<1>. QED
  BY <1>1, <1>2

\* Where a create or a switch goes on, it goes nearer to its end.
LEMMA CreateAdvances ==
    ASSUME HandlersOK, NEW w \in Workers, CreateStep(w) \/ ToggleStep(w)
    PROVE  AwaitsLeft(w)' < AwaitsLeft(w)
<1>1. pc[w] \notin {"idle", "done"}
  BY DEF CreateStep, ToggleStep, CheckCreate, MakeDir, HashPassword, WritePassword, Permissions,
     AuthTest, InitMailbox, UndoAuth, UndoPassword, UndoDir, CheckDisable, RenameDisable,
     CheckEnable, RenameEnable
<1>2. \/ \E outcome : Finish(w, outcome)
      \/ pc[w] = "check_create" /\ Goto(w, "mkdir")
      \/ pc[w] = "mkdir" /\ Goto(w, "hash")
      \/ pc[w] = "hash" /\ Goto(w, "write")
      \/ pc[w] = "write" /\ Goto(w, "permissions")
      \/ pc[w] = "permissions" /\ Goto(w, "auth_test")
      \/ pc[w] = "auth_test" /\ Goto(w, "init_mailbox")
      \/ pc[w] = "auth_test" /\ Goto(w, "undo_auth")
      \/ pc[w] = "init_mailbox" /\ Goto(w, "undo_password")
      \/ pc[w] = "undo_password" /\ Goto(w, "undo_dir")
      \/ pc[w] = "check_disable" /\ Goto(w, "rename_disable")
      \/ pc[w] = "check_enable" /\ Goto(w, "rename_enable")
  BY DEF CreateStep, ToggleStep, CheckCreate, MakeDir, HashPassword, WritePassword, Permissions,
     AuthTest, InitMailbox, UndoAuth, UndoPassword, UndoDir, CheckDisable, RenameDisable,
     CheckEnable, RenameEnable
<1>3. CASE \E outcome : Finish(w, outcome)
  BY <1>1, <1>3, FinishAdvances
<1>4. CASE ~\E outcome : Finish(w, outcome)
  <2>1. PICK step \in Steps \ {"idle"} : Goto(w, step) /\ AwaitsFrom(step) < AwaitsFrom(pc[w])
    BY <1>2, <1>4, AwaitsAre DEF Steps
  <2>. QED
    BY <1>1, <2>1, GotoAdvances
<1>. QED
  BY <1>3, <1>4

LEMMA DeleteAdvances ==
    ASSUME HandlersOK, NEW w \in Workers,
           Resolve(w) \/ PreBan(w) \/ CheckDelete(w) \/ Kick(w) \/ MoveAway(w)
    PROVE  AwaitsLeft(w)' < AwaitsLeft(w)
<1>1. pc[w] \in {"resolve", "preban", "check_delete", "kick", "move"}
  BY DEF Resolve, PreBan, CheckDelete, Kick, MoveAway
<1>2. CASE \E outcome : Finish(w, outcome)
  BY <1>1, <1>2, FinishAdvances
<1>3. CASE ~\E outcome : Finish(w, outcome)
  <2>1. CASE Resolve(w)
    <3>1. pc[w] = "resolve" /\ Goto(w, AfterLookup(req[w].op))
      BY <1>3, <2>1 DEF Resolve
    <3>2. req[w].op \in {"create", "disable", "enable", "delete"}
      BY <3>1, Serving
    <3>3. AfterLookup(req[w].op) \in {"check_create", "check_disable", "check_enable", "check_delete"}
      BY <3>2 DEF AfterLookup
    <3>4. /\ AfterLookup(req[w].op) \in Steps \ {"idle"}
          /\ AwaitsFrom(AfterLookup(req[w].op)) < AwaitsFrom("resolve")
      BY <3>3, AwaitsAre DEF Steps
    <3>. QED
      BY <3>1, <3>4, GotoAdvances
  <2>2. CASE CheckDelete(w) \/ MoveAway(w)
    <3>1. \/ pc[w] = "check_delete" /\ Goto(w, "kick")
          \/ pc[w] = "move" /\ Goto(w, "remove")
      BY <1>3, <2>2 DEF CheckDelete, MoveAway
    <3>2. PICK step \in Steps \ {"idle"} : Goto(w, step) /\ AwaitsFrom(step) < AwaitsFrom(pc[w])
      BY <3>1, AwaitsAre DEF Steps
    <3>. QED
      BY <1>1, <3>2, GotoAdvances
  <2>3. CASE PreBan(w) \/ Kick(w)
    <3>1. /\ tries' = tries
          /\ \/ pc[w] = "preban" /\ pc' = [pc EXCEPT ![w] = "resolve"]
             \/ pc[w] = "kick" /\ pc' = [pc EXCEPT ![w] = "move"]
      BY <1>3, <2>3 DEF PreBan, Kick
    <3>2. PICK step \in Steps \ {"idle"} :
             pc' = [pc EXCEPT ![w] = step] /\ AwaitsFrom(step) < AwaitsFrom(pc[w])
      BY <3>1, AwaitsAre DEF Steps
    <3>. QED
      BY <1>1, <3>1, <3>2, FewerLeft
  <2>. QED
    BY <2>1, <2>2, <2>3
<1>. QED
  BY <1>2, <1>3

\* A removal is over or has one attempt less.
LEMMA RemovalAdvances ==
    ASSUME HandlersOK, NEW w \in Workers, RemoveTree(w)
    PROVE  AwaitsLeft(w)' < AwaitsLeft(w)
<1>1. pc[w] = "remove"
  BY DEF RemoveTree
<1>2. CASE \E outcome : Finish(w, outcome)
  BY <1>1, <1>2, FinishAdvances
<1>3. CASE ~\E outcome : Finish(w, outcome)
  <2>0. CASE Forget(w)
    BY <1>1, <2>0, Forgotten
  <2>. SUFFICES ASSUME ~Forget(w)  PROVE AwaitsLeft(w)' < AwaitsLeft(w)
    BY <2>0
  <2>1. pc' = pc /\ tries' = [tries EXCEPT ![w] = tries[w] + 1]
    BY <1>3 DEF RemoveTree, Retry, TryAgain
  <2>2. tries[w] \in Nat /\ tries'[w] = tries[w] + 1 /\ Attempts \in Nat /\ pc'[w] = "remove"
    BY <1>1, <2>1, AttemptsAssumption DEF HandlersOK
  <2>. QED
    BY <1>1, <2>2, AwaitsAre DEF AwaitsLeft
<1>. QED
  BY <1>2, <1>3

\* What a handler does leaves where the others stand alone.
LEMMA OthersStand ==
    ASSUME HandlersOK, NEW v \in Workers, NEW w \in Workers \ {v},
           Begin(v) \/ Step(v) \/ Drop(v)
    PROVE  UNCHANGED <<pc[w], tries[w]>>
<1>1. /\ pc' = pc \/ \E step : pc' = [pc EXCEPT ![v] = step]
      /\ tries' = tries \/ \E n : tries' = [tries EXCEPT ![v] = n]
  BY DEF Begin, Step, Drop, Resolve, CheckCreate, MakeDir, HashPassword, WritePassword,
     Permissions, AuthTest, InitMailbox, UndoAuth, UndoPassword, UndoDir, CheckDisable,
     RenameDisable, CheckEnable, RenameEnable, PreBan, CheckDelete, Kick, MoveAway, RemoveTree, Retry,
     TryAgain, NotEmptyYet, Respond, Goto, Finish, Forget
<1>. QED
  BY <1>1 DEF HandlersOK

LEMMA NextAdvances ==
    ASSUME TypeOK, [Next]_vars, NEW w \in Workers, pc[w] # "idle"
    PROVE  UNCHANGED <<pc[w], tries[w]>> \/ AwaitsLeft(w)' < AwaitsLeft(w)
<1>0. HandlersOK
  BY DEF TypeOK
<1>1. ASSUME NEW v \in Workers \ {w}, Begin(v) \/ Step(v) \/ Drop(v)
      PROVE  UNCHANGED <<pc[w], tries[w]>>
  BY <1>0, <1>1, OthersStand
<1>2. CASE Respond(w) \/ Drop(w)
  BY <1>0, <1>2, Forgotten DEF Respond, Drop
<1>3. CASE Step(w) /\ ~Respond(w)
  BY <1>0, <1>3, CreateAdvances, DeleteAdvances, RemovalAdvances DEF Step, CreateStep, ToggleStep
<1>4. CASE Deliver \/ Tick \/ ChangeBan \/ UNCHANGED vars
  BY <1>4 DEF Deliver, Tick, ChangeBan, vars, local
<1>5. ~Begin(w)
  BY DEF Begin
<1>. QED
  BY <1>1, <1>2, <1>3, <1>4, <1>5 DEF Next

\* However many requests overlap, fail or are dropped, each handler only moves
\* towards its end, by at most 12 + Attempts steps: all of EveryRequestEnds but that
\* the awaits themselves end.
THEOREM RequestsOnlyAdvance == Spec => RequestsAdvance
<1>1. TypeOK /\ [Next]_vars =>
        [\A w \in Workers : pc[w] # "idle" =>
            UNCHANGED <<pc[w], tries[w]>> \/ AwaitsLeft(w)' < AwaitsLeft(w)]_vars
  BY NextAdvances
<1>. QED
  BY <1>1, TypeCorrect, PTL DEF Spec, RequestsAdvance

-----------------------------------------------------------------------------
(* Accounts implements Login, while nobody creates the account *)

LEMMA AbstractInit == NoCreation /\ Init => Abstract!Init
<1>. SUFFICES ASSUME NoCreation, Init  PROVE Abstract!Init
  OBVIOUS
<1>1. home \in Directory \cup {NoDir} /\ banned = FALSE
  BY HomesAssumption DEF Init
<1>2. home # NoDir => home.password = NoFile \/ home.blocked = NoFile
  BY DEF NoCreation, Init
<1>3. home # NoDir => /\ home.password \in Contents \cup {NoFile}
                      /\ home.blocked \in Contents \cup {NoFile}
  BY <1>1 DEF Directory
<1>. QED
  BY <1>1, <1>2, <1>3 DEF Abstract!Init

\* A rename is one step of the abstract account, whoever else is amid theirs.
LEMMA AbstractRename ==
    ASSUME home \in Directory, NotBoth, banned' = banned,
           \/ /\ home.password # NoFile
              /\ home' = [home EXCEPT !.blocked = home.password, !.password = NoFile]
           \/ /\ home.blocked # NoFile
              /\ home' = [home EXCEPT !.password = home.blocked, !.blocked = NoFile]
    PROVE  Abstract!Next
<1>1. home # NoDir
  BY NamesAssumption
<1>2. CASE /\ home.password # NoFile
           /\ home' = [home EXCEPT !.blocked = home.password, !.password = NoFile]
  <2>1. home' \in Directory /\ home'.password = NoFile /\ home'.blocked = home.password
    BY <1>2, RenamedTypes DEF Directory
  <2>2. home' # NoDir
    BY <2>1, NamesAssumption
  <2>3. Abstract!Lock
    BY <1>1, <1>2, <2>1, <2>2 DEF Abstract!Lock
  <2>. QED
    BY <2>3 DEF Abstract!Next
<1>3. CASE /\ home.blocked # NoFile
           /\ home' = [home EXCEPT !.password = home.blocked, !.blocked = NoFile]
  <2>1. home' \in Directory /\ home'.blocked = NoFile /\ home'.password = home.blocked
    BY <1>3, RenamedTypes DEF Directory
  <2>2. home' # NoDir
    BY <2>1, NamesAssumption
  <2>3. Abstract!Unlock
    BY <1>1, <1>3, <2>1, <2>2 DEF Abstract!Unlock
  <2>. QED
    BY <2>3 DEF Abstract!Next
<1>. QED
  BY <1>2, <1>3

LEMMA AbstractStep ==
    NoCreation /\ TypeOK /\ NotBoth /\ [Next]_vars => [Abstract!Next]_(Abstract!vars)
<1>. SUFFICES ASSUME NoCreation, TypeOK, NotBoth, [Next]_vars
              PROVE  Abstract!Next \/ UNCHANGED Abstract!vars
  OBVIOUS
<1>0. DiskOK /\ HandlersOK
  BY DEF TypeOK
<1>1. UNCHANGED <<home, banned>> => UNCHANGED Abstract!vars
  BY DEF Abstract!vars
<1>2. ASSUME NEW w \in Workers, CreateStep(w)  PROVE FALSE
  BY <1>0, <1>2, CreateServes DEF NoCreation
<1>3. ASSUME NEW w \in Workers, ToggleStep(w)  PROVE Abstract!Next \/ UNCHANGED Abstract!vars
  <2>1. banned' = banned
    BY <1>3, ToggleHome DEF world
  <2>2. CASE home' = home
    BY <1>1, <2>1, <2>2
  <2>3. CASE home' # home
    <3>1. home \in Directory
      BY <1>0, <1>3, <2>3, ToggleHome DEF DiskOK
    <3>. QED
      BY <1>3, <2>1, <2>3, <3>1, ToggleHome, AbstractRename
  <2>. QED
    BY <2>2, <2>3
<1>4. ASSUME NEW w \in Workers, OtherStep(w)  PROVE Abstract!Next \/ UNCHANGED Abstract!vars
  <2>1. CASE home' = home /\ banned' = banned
    BY <1>1, <2>1
  <2>2. CASE home' = home /\ banned' = TRUE
    <3>1. Abstract!Refuse
      BY <2>2 DEF Abstract!Refuse
    <3>. QED
      BY <3>1 DEF Abstract!Next
  <2>3. CASE home # NoDir /\ home' = NoDir /\ banned' = banned
    <3>1. Abstract!Remove
      BY <2>3 DEF Abstract!Remove
    <3>. QED
      BY <3>1 DEF Abstract!Next
  <2>. QED
    BY <1>0, <1>4, <2>1, <2>2, <2>3, OtherHome, OtherBanned
<1>5. CASE Deliver
  <2>1. home' = WithMail /\ ~banned /\ banned' = banned
    BY <1>5 DEF Deliver, world
  <2>2. CASE home # NoDir
    <3>1. /\ home' # NoDir /\ home'.password = home.password
          /\ home'.blocked = home.blocked
      BY <1>0, <2>1, <2>2, DeliverKeepsLogin
    <3>. QED
      BY <2>1, <2>2, <3>1 DEF Abstract!vars
  <2>3. CASE home = NoDir
    <3>1. home' = [EmptyDir EXCEPT !.mail = TRUE]
      BY <2>1, <2>3 DEF WithMail
    <3>2. home'.password = NoFile /\ home'.blocked = NoFile /\ home' \in Directory
      BY <3>1 DEF EmptyDir, Directory
    <3>3. home' # NoDir
      BY <3>2, NamesAssumption
    <3>4. Abstract!Recreate
      BY <2>1, <2>3, <3>2, <3>3 DEF Abstract!Recreate
    <3>. QED
      BY <3>4 DEF Abstract!Next
  <2>. QED
    BY <2>2, <2>3
<1>6. CASE Tick \/ UNCHANGED vars
  BY <1>1, <1>6 DEF Tick, vars, disk, world
<1>7. CASE ChangeBan
  <2>1. home' = home /\ (banned' = TRUE \/ banned' = FALSE)
    BY <1>7 DEF ChangeBan, disk
  <2>2. Abstract!Refuse \/ Abstract!Accept
    BY <2>1 DEF Abstract!Refuse, Abstract!Accept
  <2>. QED
    BY <2>2 DEF Abstract!Next
<1>. QED
  BY <1>2, <1>3, <1>4, <1>5, <1>6, <1>7, NextCases

\* While nobody creates the account, any number of handlers that look, wait and
\* rename, amid failures, drops and deliveries, implement the abstract account.
THEOREM AccountsImplementLogin == NoCreation => (Spec => ImplementsLogin)
<1>. SUFFICES ASSUME NoCreation  PROVE Spec => ImplementsLogin
  OBVIOUS
<1>1. Init => Abstract!Init
  BY AbstractInit
<1>2. TypeOK /\ NotBoth /\ [Next]_vars => [Abstract!Next]_(Abstract!vars)
  BY AbstractStep
<1>. QED
  BY <1>1, <1>2, TypeCorrect, NeverBoth, PTL DEF Spec, ImplementsLogin, Abstract!Spec
=============================================================================
