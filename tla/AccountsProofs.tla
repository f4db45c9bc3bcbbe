--------------------------- MODULE AccountsProofs ---------------------------
(***************************************************************************)
(* Theorems about Accounts, for any number of handlers, passwords and      *)
(* attempts: the types, and what disabling and enabling a login promise as *)
(* long as nobody creates the account at the same time.                    *)
(***************************************************************************)
EXTENDS Accounts, TLAPS

LEMMA Ops == \A r \in Requests : r.op \in {"create", "disable", "enable", "delete"}
BY RequestsAssumption DEF Request

LEMMA ForgetType ==
    ASSUME HandlersOK, NEW w \in Workers, Forget(w)
    PROVE  HandlersOK'
<1>1. 0 \in Seconds /\ 0 \in 0..(Attempts - 1) /\ "none" \in Results /\ "idle" \in Steps
  BY TimeAssumption, AttemptsAssumption DEF Seconds, Results, Steps
<1>. QED
  BY <1>1 DEF HandlersOK, Forget

\* The next await of a handler, or its end where only a file operation was left.
LEMMA GotoType ==
    ASSUME HandlersOK, NEW w \in Workers, NEW step \in Steps, Goto(w, step),
           req[w] \in Requests, step \in StepsOf(req[w].op)
    PROVE  HandlersOK'
<1>1. CASE attached[w]
  <2>1. /\ pc' = [pc EXCEPT ![w] = step]
        /\ UNCHANGED <<req, stamp, tries, warned, result, attached, overlapped>>
    BY <1>1 DEF Goto
  <2>. QED
    BY <1>1, <2>1 DEF HandlersOK
<1>2. CASE ~attached[w]
  BY <1>2, ForgetType DEF Goto
<1>. QED
  BY <1>1, <1>2

LEMMA FinishType ==
    ASSUME HandlersOK, NEW w \in Workers, NEW outcome \in Results, Finish(w, outcome),
           req[w] \in Requests
    PROVE  HandlersOK'
<1>1. CASE attached[w]
  <2>1. /\ pc' = [pc EXCEPT ![w] = "done"] /\ result' = [result EXCEPT ![w] = outcome]
        /\ UNCHANGED <<req, stamp, tries, warned, attached, overlapped>>
    BY <1>1 DEF Finish
  <2>2. "done" \in Steps /\ "done" \in StepsOf(req[w].op)
    BY DEF Steps, StepsOf
  <2>. QED
    BY <1>1, <2>1, <2>2 DEF HandlersOK
<1>2. CASE ~attached[w]
  BY <1>2, ForgetType DEF Finish
<1>. QED
  BY <1>1, <1>2

\* The directories the steps build have the type of a directory.
LEMMA DirTypes ==
    ASSUME home \in Directory \cup {NoDir}
    PROVE  /\ EmptyDir \in Directory /\ WithMail \in Directory
           /\ WithoutPassword \in Directory \cup {NoDir}
BY DEF EmptyDir, WithMail, WithoutPassword, Directory

LEMMA RenamedTypes ==
    ASSUME home \in Directory, NEW password \in Contents \cup {NoFile}
    PROVE  /\ [home EXCEPT !.password = password] \in Directory
           /\ [home EXCEPT !.blocked = home.password, !.password = NoFile] \in Directory
           /\ [home EXCEPT !.password = home.blocked, !.blocked = NoFile] \in Directory
BY DEF Directory

LEMMA InitType == Init => TypeOK
<1>1. 0 \in Seconds /\ 0 \in 0..(Attempts - 1) /\ "none" \in Results /\ "idle" \in Steps
  BY TimeAssumption, AttemptsAssumption DEF Seconds, Results, Steps
<1>. SUFFICES ASSUME Init PROVE DiskOK /\ HandlersOK
  BY DEF TypeOK
<1>2. DiskOK
  BY <1>1, HomesAssumption DEF Init, DiskOK
<1>3. pc \in [Workers -> Steps] /\ \A w \in Workers : pc[w] = "idle"
  BY <1>1 DEF Init
<1>4. req \in [Workers -> Requests \cup {Nobody}]
  BY DEF Init
<1>5. stamp \in [Workers -> Seconds] /\ tries \in [Workers -> 0..(Attempts - 1)]
  BY <1>1 DEF Init
<1>6. /\ warned \in [Workers -> BOOLEAN] /\ attached \in [Workers -> BOOLEAN]
      /\ result \in [Workers -> Results] /\ overlapped \subseteq Workers
      /\ \A w \in Workers : attached[w]
  BY <1>1 DEF Init
<1>. QED
  BY <1>2, <1>3, <1>4, <1>5, <1>6 DEF HandlersOK

\* A handler that stands at a step serves a request the step belongs to.
LEMMA Serving ==
    ASSUME HandlersOK, NEW w \in Workers, pc[w] # "idle"
    PROVE  /\ req[w] \in Requests
           /\ pc[w] \in StepsOf(req[w].op)
           /\ req[w].op \in {"create", "disable", "enable", "delete"}
BY Ops DEF HandlersOK

CreateStep(w) ==
    \/ CheckCreate(w) \/ MakeDir(w) \/ HashPassword(w) \/ WritePassword(w)
    \/ Permissions(w) \/ AuthTest(w) \/ InitMailbox(w)
    \/ UndoAuth(w) \/ UndoPassword(w) \/ UndoDir(w)

ToggleStep(w) ==
    CheckDisable(w) \/ RenameDisable(w) \/ CheckEnable(w) \/ RenameEnable(w)

\* A step belongs to one operation, so the request is of that operation.
LEMMA CreateServes ==
    ASSUME HandlersOK, NEW w \in Workers, CreateStep(w)
    PROVE  req[w] \in Requests /\ req[w].op = "create"
<1>1. pc[w] \in {"check_create", "mkdir", "hash", "write", "permissions", "auth_test",
                 "init_mailbox", "undo_auth", "undo_password", "undo_dir"}
  BY DEF CreateStep, CheckCreate, MakeDir, HashPassword, WritePassword, Permissions,
         AuthTest, InitMailbox, UndoAuth, UndoPassword, UndoDir
<1>. QED
  BY <1>1, Serving DEF StepsOf

LEMMA ToggleServes ==
    ASSUME HandlersOK, NEW w \in Workers, ToggleStep(w)
    PROVE  req[w] \in Requests /\ req[w].op \in {"disable", "enable"}
<1>1. pc[w] \in {"check_disable", "rename_disable", "check_enable", "rename_enable"}
  BY DEF ToggleStep, CheckDisable, RenameDisable, CheckEnable, RenameEnable
<1>. QED
  BY <1>1, Serving DEF StepsOf

LEMMA CreateType ==
    ASSUME TypeOK, NEW w \in Workers, CreateStep(w)
    PROVE  TypeOK'
<1>. USE DEF TypeOK
<1>1. req[w] \in Requests /\ req[w].op = "create" /\ req[w].password \in Passwords
  BY CreateServes, RequestsAssumption DEF Request
<1>2. /\ EmptyDir \in Directory /\ WithMail \in Directory
      /\ WithoutPassword \in Directory \cup {NoDir}
      /\ home # NoDir => [home EXCEPT !.password = req[w].password] \in Directory
  BY <1>1, DirTypes, RenamedTypes DEF DiskOK, Contents
<1>3. home' \in Directory \cup {NoDir} /\ UNCHANGED <<tombstones, world>>
  <2>1. CASE WritePassword(w)
    <3>1. home # NoDir =>
            \A left \in {home.password, Torn} : [home EXCEPT !.password = left] \in Directory
      BY DEF DiskOK, Directory, Contents
    <3>. QED
      BY <1>2, <2>1, <3>1 DEF WritePassword, DiskOK
  <2>2. CASE ~WritePassword(w)
    BY <1>2, <2>2
       DEF CreateStep, CheckCreate, MakeDir, HashPassword, Permissions,
           AuthTest, InitMailbox, UndoAuth, UndoPassword, UndoDir, DiskOK, disk
  <2>. QED
    BY <2>1, <2>2
<1>4. DiskOK'
  BY <1>3 DEF DiskOK, world
<1>5. \/ \E step \in {"mkdir", "hash", "write", "permissions", "auth_test", "init_mailbox",
                      "undo_auth", "undo_password", "undo_dir"} : Goto(w, step)
      \/ \E outcome \in {"failed", "created"} : Finish(w, outcome)
  BY DEF CreateStep, CheckCreate, MakeDir, HashPassword, WritePassword, Permissions,
         AuthTest, InitMailbox, UndoAuth, UndoPassword, UndoDir
<1>6. HandlersOK'
  BY <1>1, <1>5, GotoType, FinishType DEF Steps, StepsOf, Results
<1>. QED
  BY <1>4, <1>6

LEMMA ToggleType ==
    ASSUME TypeOK, NEW w \in Workers, ToggleStep(w)
    PROVE  TypeOK'
<1>. USE DEF TypeOK
<1>1. CheckDisable(w) \/ RenameDisable(w) => req[w] \in Requests /\ req[w].op = "disable"
  BY Serving DEF CheckDisable, RenameDisable, StepsOf
<1>2. CheckEnable(w) \/ RenameEnable(w) => req[w] \in Requests /\ req[w].op = "enable"
  BY Serving DEF CheckEnable, RenameEnable, StepsOf
<1>3. home' \in Directory \cup {NoDir} /\ UNCHANGED <<tombstones, world>>
  BY RenamedTypes
     DEF ToggleStep, CheckDisable, RenameDisable, CheckEnable, RenameEnable, DiskOK, disk, Exists
<1>4. DiskOK'
  BY <1>3 DEF DiskOK, world
<1>5. \/ Goto(w, "rename_disable") /\ (CheckDisable(w) \/ RenameDisable(w))
      \/ Goto(w, "rename_enable") /\ (CheckEnable(w) \/ RenameEnable(w))
      \/ \E outcome \in {"failed", "disabled", "enabled"} : Finish(w, outcome)
  BY DEF ToggleStep, CheckDisable, RenameDisable, CheckEnable, RenameEnable
<1>6. req[w] \in Requests
  BY <1>1, <1>2 DEF ToggleStep
<1>7. HandlersOK'
  BY <1>1, <1>2, <1>5, <1>6, GotoType, FinishType DEF Steps, StepsOf, Results
<1>. QED
  BY <1>4, <1>7

LEMMA PreBanType ==
    ASSUME TypeOK, NEW w \in Workers, PreBan(w)
    PROVE  TypeOK'
<1>. USE DEF TypeOK
<1>1. req[w] \in Requests /\ req[w].op = "delete"
  BY Serving DEF PreBan, StepsOf
<1>2. DiskOK'
  BY DEF PreBan, disk, DiskOK
<1>3. \/ Finish(w, "failed")
      \/ /\ pc' = [pc EXCEPT ![w] = "resolve"]
         /\ \E warning \in BOOLEAN : warned' = [warned EXCEPT ![w] = warning]
         /\ UNCHANGED <<req, stamp, tries, result, attached, overlapped>>
  BY DEF PreBan
<1>4. HandlersOK'
  <2>1. CASE Finish(w, "failed")
    BY <1>1, <2>1, FinishType DEF Results
  <2>2. CASE ~Finish(w, "failed")
    <3>1. "resolve" \in Steps /\ "resolve" \in StepsOf("delete")
      BY DEF Steps, StepsOf
    <3>2. attached[w]
      BY DEF PreBan, HandlersOK, FileSteps
    <3>. QED
      BY <1>1, <1>3, <2>2, <3>1, <3>2 DEF HandlersOK
  <2>. QED
    BY <2>1, <2>2
<1>. QED
  BY <1>2, <1>4

LEMMA CheckDeleteType ==
    ASSUME TypeOK, NEW w \in Workers, CheckDelete(w)
    PROVE  TypeOK'
<1>. USE DEF TypeOK
<1>1. req[w] \in Requests /\ req[w].op = "delete"
  BY Serving DEF CheckDelete, StepsOf
<1>2. DiskOK'
  BY DEF CheckDelete, DiskOK, disk, world
<1>3. Deleted(w) \in Results
  BY DEF Deleted, Results
<1>4. HandlersOK'
  BY <1>1, <1>3, GotoType, FinishType DEF CheckDelete, Steps, StepsOf
<1>. QED
  BY <1>2, <1>4

LEMMA KickType ==
    ASSUME TypeOK, NEW w \in Workers, Kick(w)
    PROVE  TypeOK'
<1>. USE DEF TypeOK
<1>1. req[w] \in Requests /\ req[w].op = "delete"
  BY Serving DEF Kick, StepsOf
<1>2. DiskOK'
  BY DEF Kick, DiskOK, disk, world
<1>3. "move" \in Steps /\ "move" \in StepsOf("delete") /\ now \in Seconds
  BY DEF Steps, StepsOf, DiskOK
<1>4. attached[w]
  BY DEF Kick, HandlersOK, FileSteps
<1>5. HandlersOK'
  BY <1>1, <1>3, <1>4 DEF Kick, HandlersOK
<1>. QED
  BY <1>2, <1>5

LEMMA MoveAwayType ==
    ASSUME TypeOK, NEW w \in Workers, MoveAway(w)
    PROVE  TypeOK'
<1>. USE DEF TypeOK
<1>1. req[w] \in Requests /\ req[w].op = "delete"
  BY Serving DEF MoveAway, StepsOf
<1>2. DiskOK'
  BY DEF MoveAway, DiskOK, HandlersOK, disk, world
<1>3. HandlersOK'
  BY <1>1, GotoType, FinishType DEF MoveAway, Steps, StepsOf, Results
<1>. QED
  BY <1>2, <1>3

LEMMA RemoveTreeType ==
    ASSUME TypeOK, NEW w \in Workers, RemoveTree(w)
    PROVE  TypeOK'
<1>. USE DEF TypeOK
<1>1. req[w] \in Requests
  BY Serving DEF RemoveTree
<1>2. DiskOK'
  BY DirTypes DEF RemoveTree, Retry, NotEmptyYet, DiskOK, HandlersOK, disk, world
<1>3. \/ Finish(w, Deleted(w)) \/ Finish(w, "failed")
      \/ TryAgain(w, tries[w] + 1) /\ tries[w] + 1 # Attempts
  BY DEF RemoveTree, Retry
<1>4. Deleted(w) \in Results /\ "failed" \in Results
  BY DEF Deleted, Results
<1>5. CASE Finish(w, Deleted(w)) \/ Finish(w, "failed")
  BY <1>1, <1>2, <1>4, <1>5, FinishType
<1>6. CASE TryAgain(w, tries[w] + 1) /\ tries[w] + 1 # Attempts
  <2>1. CASE ~attached[w]
    BY <1>2, <1>6, <2>1, ForgetType DEF TryAgain
  <2>2. CASE attached[w]
    <3>1. /\ tries' = [tries EXCEPT ![w] = tries[w] + 1]
          /\ UNCHANGED <<pc, req, stamp, warned, result, attached, overlapped>>
      BY <1>6, <2>2 DEF TryAgain
    <3>2. tries[w] + 1 \in 0..(Attempts - 1)
      BY <1>6, AttemptsAssumption DEF HandlersOK
    <3>. QED
      BY <1>2, <3>1, <3>2 DEF HandlersOK
  <2>. QED
    BY <2>1, <2>2
<1>. QED
  BY <1>3, <1>5, <1>6

\* A handler is dropped, or leaves its file operation behind.
LEMMA DropType ==
    ASSUME TypeOK, NEW w \in Workers, Drop(w)
    PROVE  TypeOK'
<1>. USE DEF TypeOK
<1>1. DiskOK'
  BY DEF Drop, disk, world, DiskOK
<1>2. CASE Forget(w)
  BY <1>1, <1>2, ForgetType
<1>3. CASE /\ pc[w] \in FileSteps
           /\ attached' = [attached EXCEPT ![w] = FALSE]
           /\ UNCHANGED <<pc, req, stamp, tries, warned, result, overlapped>>
  BY <1>1, <1>3 DEF HandlersOK
<1>. QED
  BY <1>2, <1>3 DEF Drop

\* Every step of every handler and of the environment keeps the types.
LEMMA NextType == TypeOK /\ [Next]_vars => TypeOK'
<1>. SUFFICES ASSUME TypeOK, [Next]_vars  PROVE TypeOK'
  OBVIOUS
<1>. USE DEF TypeOK
<1>1. ASSUME NEW w \in Workers, Begin(w)  PROVE TypeOK'
  <2>1. DiskOK'
    BY <1>1 DEF Begin, disk, world, DiskOK
  <2>2. PICK r \in Requests : req' = [req EXCEPT ![w] = r] /\ pc' = [pc EXCEPT ![w] = FirstStep(r)]
    BY <1>1 DEF Begin
  <2>3. FirstStep(r) \in Steps /\ FirstStep(r) \in StepsOf(r.op)
    BY Ops DEF FirstStep, Steps, StepsOf
  <2>4. overlapped' \subseteq Workers
    BY <1>1 DEF Begin, Busy, HandlersOK
  <2>. QED
    BY <1>1, <2>1, <2>2, <2>3, <2>4 DEF Begin, HandlersOK, FileSteps
<1>2. ASSUME NEW w \in Workers, Resolve(w)  PROVE TypeOK'
  <2>1. DiskOK'
    BY <1>2 DEF Resolve, disk, world, DiskOK
  <2>2. req[w] \in Requests /\ req[w].op \in {"create", "disable", "enable", "delete"}
    BY <1>2, Serving DEF Resolve
  <2>3. Finish(w, "failed") \/ Goto(w, AfterLookup(req[w].op))
    BY <1>2 DEF Resolve
  <2>4. AfterLookup(req[w].op) \in Steps /\ AfterLookup(req[w].op) \in StepsOf(req[w].op)
    BY <2>2 DEF AfterLookup, Steps, StepsOf
  <2>. QED
    BY <2>1, <2>2, <2>3, <2>4, GotoType, FinishType DEF Results
<1>3. ASSUME NEW w \in Workers, Respond(w)  PROVE TypeOK'
  BY <1>3, ForgetType DEF Respond, disk, world, DiskOK
<1>4. ASSUME Deliver \/ Tick \/ ChangeBan  PROVE TypeOK'
  <2>1. HandlersOK'
    BY <1>4 DEF Deliver, Tick, ChangeBan, local, HandlersOK
  <2>2. now' \in Seconds
    BY <1>4, TimeAssumption DEF Deliver, Tick, ChangeBan, world, disk, local, DiskOK, Seconds
  <2>3. home' \in Directory \cup {NoDir} /\ UNCHANGED tombstones /\ banned' \in BOOLEAN
    BY <1>4, DirTypes DEF Deliver, Tick, ChangeBan, world, disk, DiskOK
  <2>. QED
    BY <2>1, <2>2, <2>3 DEF DiskOK
<1>5. CASE UNCHANGED vars
  BY <1>5 DEF vars, disk, world, local, DiskOK, HandlersOK
<1>. QED
  BY <1>1, <1>2, <1>3, <1>4, <1>5, CreateType, ToggleType, PreBanType, CheckDeleteType,
     KickType, MoveAwayType, RemoveTreeType, DropType DEF Next, Step, CreateStep, ToggleStep

\* Whatever requests race each other, every handler stands at a step of its own
\* operation and no removal makes more attempts than it may.
THEOREM TypeCorrect == Spec => []TypeOK
BY InitType, NextType, PTL DEF Spec

-----------------------------------------------------------------------------
(* Logins, while no account is created *)

\* Nobody creates the account, and it does not start with both files.
NoCreation ==
    /\ \A r \in Requests : r.op # "create"
    /\ \A h \in InitialHomes : h # NoDir => h.password = NoFile \/ h.blocked = NoFile

\* The strengthening: a rename that finds its source never overwrites its target,
\* because the target is not there.
NotBoth == home # NoDir => home.password = NoFile \/ home.blocked = NoFile

Kept ==
    home # NoDir /\ home' # NoDir =>
        {home'.password, home'.blocked} = {home.password, home.blocked}

LEMMA NextCredential ==
    NoCreation /\ TypeOK /\ NotBoth /\ [Next]_vars => NotBoth' /\ Kept
<1>. SUFFICES ASSUME NoCreation, TypeOK, NotBoth, [Next]_vars  PROVE NotBoth' /\ Kept
  OBVIOUS
<1>. USE DEF TypeOK
<1>1. ASSUME NEW w \in Workers, CreateStep(w)  PROVE FALSE
  BY <1>1, CreateServes DEF NoCreation
<1>2. ASSUME NEW w \in Workers, ToggleStep(w)  PROVE NotBoth' /\ Kept
  <2>1. CASE home' = home
    BY <2>1 DEF NotBoth, Kept
  <2>2. CASE home' # home
    <3>1. home \in Directory
      BY <1>2, <2>2
         DEF ToggleStep, CheckDisable, RenameDisable, CheckEnable, RenameEnable, disk, Exists, DiskOK
    <3>2. \/ /\ home.password # NoFile
             /\ home' = [home EXCEPT !.blocked = home.password, !.password = NoFile]
          \/ /\ home.blocked # NoFile
             /\ home' = [home EXCEPT !.password = home.blocked, !.blocked = NoFile]
      BY <1>2, <2>2
         DEF ToggleStep, CheckDisable, RenameDisable, CheckEnable, RenameEnable, disk, Exists
    <3>3. home # NoDir
      BY <3>1, NamesAssumption
    <3>4. CASE /\ home.password # NoFile
               /\ home' = [home EXCEPT !.blocked = home.password, !.password = NoFile]
      <4>1. home'.password = NoFile /\ home'.blocked = home.password /\ home.blocked = NoFile
        BY <3>1, <3>3, <3>4 DEF NotBoth, Directory
      <4>. QED
        BY <4>1 DEF NotBoth, Kept
    <3>5. CASE /\ home.blocked # NoFile
               /\ home' = [home EXCEPT !.password = home.blocked, !.blocked = NoFile]
      <4>1. home'.blocked = NoFile /\ home'.password = home.blocked /\ home.password = NoFile
        BY <3>1, <3>3, <3>5 DEF NotBoth, Directory
      <4>. QED
        BY <4>1 DEF NotBoth, Kept
    <3>. QED
      BY <3>2, <3>4, <3>5
  <2>. QED
    BY <2>1, <2>2
<1>3. ASSUME NEW w \in Workers,
             \/ Begin(w) \/ Resolve(w) \/ PreBan(w) \/ CheckDelete(w) \/ Kick(w)
             \/ MoveAway(w) \/ RemoveTree(w) \/ Respond(w) \/ Drop(w)
      PROVE  home' = home \/ home' = NoDir
  BY <1>3 DEF Begin, Resolve, PreBan, CheckDelete, Kick, MoveAway, RemoveTree, Retry,
              NotEmptyYet, Respond, Drop, disk
<1>4. CASE Deliver
  <2>1. home' = WithMail
    BY <1>4 DEF Deliver
  <2>2. CASE home = NoDir
    BY <2>1, <2>2 DEF WithMail, EmptyDir, NotBoth, Kept
  <2>3. CASE home # NoDir
    <3>1. home \in Directory /\ home' = [home EXCEPT !.mail = TRUE]
      BY <2>1, <2>3 DEF WithMail, DiskOK
    <3>. QED
      BY <2>3, <3>1 DEF NotBoth, Kept, Directory
  <2>. QED
    BY <2>2, <2>3
<1>5. CASE Tick \/ ChangeBan \/ UNCHANGED vars
  BY <1>5 DEF Tick, ChangeBan, vars, disk, NotBoth, Kept
<1>6. home' = home \/ home' = NoDir => NotBoth' /\ Kept
  BY DEF NotBoth, Kept
<1>. QED
  BY <1>1, <1>2, <1>3, <1>4, <1>5, <1>6 DEF Next, Step, CreateStep, ToggleStep

LEMMA NeverBoth == NoCreation => (Spec => []NotBoth)
<1>. SUFFICES ASSUME NoCreation  PROVE Spec => []NotBoth
  OBVIOUS
<1>1. Init => NotBoth
  BY DEF NoCreation, Init, NotBoth
<1>2. TypeOK /\ NotBoth /\ [Next]_vars => NotBoth'
  BY NextCredential
<1>. QED
  BY <1>1, <1>2, TypeCorrect, PTL DEF Spec

\* While nobody creates the account, any number of disables, enables, deletes and
\* deliveries leave in the two files together the credential they held.
THEOREM CredentialKept == NoCreation => (Spec => CredentialStays)
<1>. SUFFICES ASSUME NoCreation  PROVE Spec => CredentialStays
  OBVIOUS
<1>1. TypeOK /\ NotBoth /\ [Next]_vars =>
        [home # NoDir /\ home' # NoDir =>
            {home'.password, home'.blocked} = {home.password, home.blocked}]_vars
  BY NextCredential DEF Kept
<1>. QED
  BY <1>1, TypeCorrect, NeverBoth, PTL DEF CredentialStays, Spec

\* A result is set by the step that settles the request, and stays until then.
LEMMA DisabledStep ==
    ASSUME TypeOK, NotBoth, Next, NEW w \in Workers,
           result'[w] = "disabled", result[w] = "none"
    PROVE  home' # NoDir /\ home'.password = NoFile /\ home'.blocked # NoFile
<1>1. PICK v \in Workers : Begin(v) \/ Step(v) \/ Drop(v)
  BY DEF Next, Deliver, Tick, ChangeBan, local
<1>2. result' # result /\ result'[w] # "none"
  OBVIOUS
<1>3. \/ Forget(v)
      \/ \E step : Goto(v, step)
      \/ \E outcome \in {"enabled", "created", "failed", Deleted(v)} : Finish(v, outcome)
      \/ Finish(v, "disabled") /\ (CheckDisable(v) \/ RenameDisable(v))
  BY <1>1, <1>2
     DEF Begin, Step, Drop, Resolve, CheckCreate, MakeDir, HashPassword, WritePassword,
         Permissions, AuthTest, InitMailbox, UndoAuth, UndoPassword, UndoDir, CheckDisable,
         RenameDisable, CheckEnable, RenameEnable, PreBan, CheckDelete, Kick, MoveAway,
         RemoveTree, Retry, TryAgain, Respond
<1>4. ~Forget(v) /\ ~\E step : Goto(v, step)
  BY <1>2 DEF Goto, Forget, TypeOK, HandlersOK
<1>5. Finish(v, "disabled") /\ (CheckDisable(v) \/ RenameDisable(v))
  <2>1. ASSUME NEW outcome \in {"enabled", "created", "failed", Deleted(v)}, Finish(v, outcome)
        PROVE  FALSE
    <3>1. result' = [result EXCEPT ![v] = outcome] /\ outcome # "disabled"
      BY <1>4, <2>1 DEF Finish, Deleted
    <3>. QED
      BY <3>1 DEF TypeOK, HandlersOK
  <2>. QED
    BY <1>3, <1>4, <2>1
<1>6. CASE CheckDisable(v)
  <2>1. Exists("blocked") /\ home' = home
    <3>1. ~Finish(v, "failed")
      BY <1>4, <1>2 DEF Finish, TypeOK, HandlersOK
    <3>. QED
      BY <1>4, <1>6, <3>1 DEF CheckDisable, disk
  <2>. QED
    BY <2>1 DEF Exists, NotBoth
<1>7. CASE RenameDisable(v)
  <2>1. /\ Exists("password") /\ home \in Directory
        /\ home' = [home EXCEPT !.blocked = home.password, !.password = NoFile]
    <3>1. ~Finish(v, "failed")
      BY <1>4, <1>2 DEF Finish, TypeOK, HandlersOK
    <3>. QED
      BY <1>7, <3>1 DEF RenameDisable, Exists, TypeOK, DiskOK
  <2>. QED
    BY <2>1, NamesAssumption DEF Exists, Directory
<1>. QED
  BY <1>5, <1>6, <1>7

\* Under the same conditions a disable that reports success has moved the file
\* password away, or found it moved, at the moment it settles.
THEOREM DisableIsHonest == NoCreation => (Spec => DisabledMeansNoPassword)
<1>. SUFFICES ASSUME NoCreation  PROVE Spec => DisabledMeansNoPassword
  OBVIOUS
<1>1. TypeOK /\ NotBoth /\ [Next]_vars =>
        [\A w \in Workers : result'[w] = "disabled" /\ result[w] = "none"
            => home' # NoDir /\ home'.password = NoFile /\ home'.blocked # NoFile]_vars
  BY DisabledStep
<1>. QED
  BY <1>1, TypeCorrect, NeverBoth, PTL DEF DisabledMeansNoPassword, Spec
=============================================================================
