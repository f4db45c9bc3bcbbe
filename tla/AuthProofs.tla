----------------------------- MODULE AuthProofs -----------------------------
(***************************************************************************)
(* Theorems about the login limiter and the sessions: for any limit, any   *)
(* window, any number of handlers, keys, users and passwords.              *)
(***************************************************************************)
EXTENDS Auth, FiniteSetTheorems, TLAPS

-----------------------------------------------------------------------------
(* The limiter *)

\* WindowBound is not inductive: it needs that what the limiter still keeps is all that
\* was admitted within a window from now.
LimiterInv ==
    /\ clock \in Nat /\ taken \in Nat
    /\ entries \in [Keys -> SUBSET Attempt]
    /\ admitted \in [Keys -> SUBSET Attempt]
    /\ \A key \in Keys :
        /\ IsFiniteSet(admitted[key])
        /\ entries[key] \subseteq admitted[key]
        /\ Recent(key) \subseteq entries[key]
        /\ \A a \in admitted[key] : a.at <= clock /\ a.n <= taken
    /\ WindowBound

\* The limiter forgets nothing that still counts and keeps nothing that does not.
LEMMA FreshIsRecent ==
    ASSUME LimiterInv, NEW key \in Keys
    PROVE  /\ Fresh(key) = Recent(key)
           /\ IsFiniteSet(Fresh(key))
           /\ Cardinality(Fresh(key)) \in Nat
  <1>1. Fresh(key) = Recent(key)
    BY DEF LimiterInv, Fresh, Recent
  <1>2. IsFiniteSet(admitted[key]) /\ Recent(key) \subseteq admitted[key]
    BY DEF LimiterInv, Recent
  <1>3. IsFiniteSet(Recent(key))
    BY <1>2, FS_Subset
  <1> QED
    BY <1>1, <1>3, FS_CardinalityType

LEMMA InWindowFinite ==
    ASSUME LimiterInv, NEW key \in Keys, NEW first
    PROVE  IsFiniteSet(InWindowOf(key, first))
  <1>1. IsFiniteSet(admitted[key]) /\ InWindowOf(key, first) \subseteq admitted[key]
    BY DEF LimiterInv, InWindowOf
  <1> QED
    BY <1>1, FS_Subset

\* With one more admitted attempt a window holds at most Limit: either it has ended, or
\* all it holds is still kept by the limiter, which had room.
LEMMA AdmitKeepsBound ==
    ASSUME LimiterInv, NEW key \in Keys, Admit(key)
    PROVE  WindowBound'
  <1> DEFINE new == ThisAttempt
  <1> USE LimitAssumption, WindowAssumption
  <1>1. /\ new \in Attempt /\ new.at = clock /\ new.n = taken + 1
        /\ new \notin admitted[key]
    BY DEF LimiterInv, ThisAttempt, Attempt
  <1>2. /\ admitted' = [admitted EXCEPT ![key] = @ \cup {new}]
        /\ Cardinality(Fresh(key)) < Limit
    BY DEF Admit
  <1>3. Cardinality(Fresh(key) \cup {new}) <= Limit /\ IsFiniteSet(Fresh(key) \cup {new})
    <2>1. new \notin Fresh(key)
      BY <1>1 DEF LimiterInv, Fresh
    <2>2. IsFiniteSet(Fresh(key)) /\ Cardinality(Fresh(key)) \in Nat
      BY FreshIsRecent
    <2>3. /\ IsFiniteSet(Fresh(key) \cup {new})
          /\ Cardinality(Fresh(key) \cup {new}) = Cardinality(Fresh(key)) + 1
      BY <2>1, <2>2, FS_AddElement
    <2> QED
      BY <1>2, <2>2, <2>3
  <1> HIDE DEF new
  <1>4. ASSUME NEW other \in Keys, NEW first \in admitted'[other]
        PROVE  Cardinality(InWindowOf(other, first)') <= Limit
    <2>1. CASE other # key
      <3>1. admitted'[other] = admitted[other]
        BY <2>1, <1>2 DEF LimiterInv
      <3>2. InWindowOf(other, first)' = InWindowOf(other, first)
        BY <3>1 DEF InWindowOf
      <3> QED
        BY <3>1, <3>2, <1>4 DEF LimiterInv, WindowBound
    <2>2. CASE other = key
      <3>1. admitted'[key] = admitted[key] \cup {new}
        BY <1>2 DEF LimiterInv
      <3>2. first \in Attempt /\ admitted[key] \subseteq Attempt
        BY <3>1, <2>2, <1>1, <1>4 DEF LimiterInv
      <3>3. CASE clock < first.at + Window
        <4>1. ASSUME NEW a \in InWindowOf(key, first)' PROVE a \in Fresh(key) \cup {new}
          <5>1. a \in admitted[key] \cup {new} /\ first.at <= a.at
            BY <4>1, <3>1 DEF InWindowOf
          <5>2. CASE a \in admitted[key]
            <6>1. clock < a.at + Window
              BY <5>1, <5>2, <3>2, <3>3 DEF Attempt, LimiterInv
            <6>2. a \in Recent(key)
              BY <6>1, <5>2 DEF Recent
            <6> QED
              BY <6>2, FreshIsRecent
          <5> QED
            BY <5>1, <5>2
        <4>2. InWindowOf(key, first)' \subseteq Fresh(key) \cup {new}
          BY <4>1
        <4>3. /\ IsFiniteSet(InWindowOf(key, first)')
              /\ Cardinality(InWindowOf(key, first)') <= Cardinality(Fresh(key) \cup {new})
          BY <4>2, <1>3, FS_Subset
        <4>4. /\ Cardinality(InWindowOf(key, first)') \in Nat
              /\ Cardinality(Fresh(key) \cup {new}) \in Nat
          BY <4>3, <1>3, FS_CardinalityType
        <4> QED
          BY <4>3, <4>4, <1>3, <2>2
      <3>4. CASE ~(clock < first.at + Window)
        <4>1. first # new
          BY <3>4, <1>1, <3>2 DEF Attempt, LimiterInv
        <4>2. first \in admitted[key]
          BY <4>1, <3>1, <2>2, <1>4
        <4>3. InWindowOf(key, first)' = InWindowOf(key, first)
          BY <3>1, <3>4, <1>1 DEF InWindowOf
        <4> QED
          BY <4>2, <4>3, <2>2 DEF LimiterInv, WindowBound
      <3> QED
        BY <3>3, <3>4
    <2> QED
      BY <2>1, <2>2
  <1> QED
    BY <1>4 DEF WindowBound

LEMMA AdmitKeepsInv ==
    ASSUME LimiterInv, NEW key \in Keys, Admit(key)
    PROVE  LimiterInv'
  <1> USE LimitAssumption, WindowAssumption
  <1>1. /\ clock' = clock /\ taken' = taken + 1
        /\ admitted' = [admitted EXCEPT ![key] = @ \cup {ThisAttempt}]
        /\ entries' = [entries EXCEPT ![key] = Fresh(key) \cup {ThisAttempt}]
    BY DEF Admit
  <1>2. ThisAttempt \in Attempt /\ ThisAttempt.at = clock /\ ThisAttempt.n = taken + 1
    BY DEF LimiterInv, ThisAttempt, Attempt
  <1>3. Fresh(key) \subseteq entries[key]
    BY DEF Fresh
  <1>4. /\ clock' \in Nat /\ taken' \in Nat
        /\ entries' \in [Keys -> SUBSET Attempt] /\ admitted' \in [Keys -> SUBSET Attempt]
    BY <1>1, <1>2, <1>3 DEF LimiterInv
  <1>5. ASSUME NEW other \in Keys
        PROVE  /\ IsFiniteSet(admitted'[other])
               /\ entries'[other] \subseteq admitted'[other]
               /\ Recent(other)' \subseteq entries'[other]
               /\ \A a \in admitted'[other] : a.at <= clock' /\ a.n <= taken'
    <2>1. CASE other # key
      <3>1. admitted'[other] = admitted[other] /\ entries'[other] = entries[other]
        BY <2>1, <1>1 DEF LimiterInv
      <3>2. Recent(other)' = Recent(other)
        BY <3>1, <1>1 DEF Recent
      <3>3. \A a \in admitted[other] : a \in Attempt /\ a.at <= clock /\ a.n <= taken
        BY DEF LimiterInv
      <3>4. \A a \in admitted[other] : a.n <= taken + 1
        BY <3>3 DEF LimiterInv, Attempt
      <3>5. \A a \in admitted'[other] : a.at <= clock' /\ a.n <= taken'
        BY <3>1, <3>3, <3>4, <1>1
      <3> QED
        BY <3>1, <3>2, <3>5 DEF LimiterInv
    <2>2. CASE other = key
      <3>1. /\ admitted'[key] = admitted[key] \cup {ThisAttempt}
            /\ entries'[key] = Fresh(key) \cup {ThisAttempt}
        BY <1>1 DEF LimiterInv
      <3>2. IsFiniteSet(admitted'[key])
        <4>1. IsFiniteSet(admitted[key])
          BY DEF LimiterInv
        <4> QED
          BY <4>1, <3>1, FS_AddElement
      <3>3. entries'[key] \subseteq admitted'[key]
        BY <3>1, <1>3 DEF LimiterInv
      <3>4. Recent(key)' \subseteq Recent(key) \cup {ThisAttempt}
        BY <3>1, <1>1 DEF Recent
      <3>5. Recent(key)' \subseteq entries'[key]
        BY <3>1, <3>4, FreshIsRecent
      <3>6. \A a \in admitted[key] : a \in Attempt /\ a.at <= clock /\ a.n <= taken
        BY DEF LimiterInv
      <3>7. \A a \in admitted[key] : a.n <= taken + 1
        BY <3>6 DEF LimiterInv, Attempt
      <3>8. ThisAttempt.at <= clock /\ ThisAttempt.n <= taken + 1
        BY <1>2 DEF LimiterInv
      <3>9. \A a \in admitted'[key] : a.at <= clock' /\ a.n <= taken'
        BY <3>1, <3>6, <3>7, <3>8, <1>1
      <3> QED
        BY <3>2, <3>3, <3>5, <3>9, <2>2
    <2> QED
      BY <2>1, <2>2
  <1>6. WindowBound'
    BY AdmitKeepsBound
  <1> QED
    BY <1>4, <1>5, <1>6 DEF LimiterInv

LEMMA RefuseKeepsInv ==
    ASSUME LimiterInv, NEW key \in Keys, Refuse(key)
    PROVE  LimiterInv'
  <1>1. /\ clock' = clock /\ taken' = taken /\ admitted' = admitted
        /\ entries' = [entries EXCEPT ![key] = Fresh(key)]
    BY DEF Refuse
  <1>2. Fresh(key) \subseteq entries[key]
    BY DEF Fresh
  <1>3. entries' \in [Keys -> SUBSET Attempt]
    BY <1>1, <1>2 DEF LimiterInv
  <1>4. ASSUME NEW other \in Keys
        PROVE  /\ entries'[other] \subseteq admitted[other]
               /\ Recent(other) \subseteq entries'[other]
    <2>1. CASE other = key
      BY <2>1, <1>1, <1>2, FreshIsRecent DEF LimiterInv
    <2>2. CASE other # key
      BY <2>2, <1>1 DEF LimiterInv
    <2> QED
      BY <2>1, <2>2
  <1>5. /\ WindowBound' <=> WindowBound
        /\ \A other \in Keys : Recent(other)' = Recent(other)
    BY <1>1 DEF WindowBound, InWindowOf, Recent
  <1> QED
    BY <1>1, <1>3, <1>4, <1>5 DEF LimiterInv

LEMMA TickKeepsInv ==
    ASSUME LimiterInv, Tick
    PROVE  LimiterInv'
  <1> USE WindowAssumption
  <1>1. /\ clock' = clock + 1 /\ taken' = taken /\ admitted' = admitted /\ entries' = entries
    BY DEF Tick
  <1>2. \A key \in Keys : \A a \in admitted[key] : a \in Attempt /\ a.at <= clock
    BY DEF LimiterInv
  <1>3. \A key \in Keys : Recent(key)' \subseteq Recent(key)
    BY <1>1, <1>2 DEF Recent, Attempt, LimiterInv
  <1>4. \A key \in Keys : \A a \in admitted[key] : a.at <= clock + 1
    BY <1>2 DEF Attempt, LimiterInv
  <1>5. WindowBound' <=> WindowBound
    BY <1>1 DEF WindowBound, InWindowOf
  <1> QED
    BY <1>1, <1>3, <1>4, <1>5 DEF LimiterInv

LEMMA ForgetKeepsInv ==
    ASSUME LimiterInv, Forget
    PROVE  LimiterInv'
  <1>1. /\ clock' = clock /\ taken' = taken
        /\ admitted' = [key \in Keys |-> {}] /\ entries' = [key \in Keys |-> {}]
    BY DEF Forget
  <1>2. IsFiniteSet({})
    BY FS_EmptySet
  <1>3. \A key \in Keys : Recent(key)' = {}
    BY <1>1 DEF Recent
  <1>4. WindowBound'
    BY <1>1 DEF WindowBound
  <1> QED
    BY <1>1, <1>2, <1>3, <1>4 DEF LimiterInv

LEMMA LimiterStepKeeps ==
    ASSUME LimiterInv, [LimiterNext]_limiterVars
    PROVE  LimiterInv'
  <1>1. CASE \E key \in Keys : Admit(key) \/ Refuse(key)
    BY <1>1, AdmitKeepsInv, RefuseKeepsInv
  <1>2. CASE Tick
    BY <1>2, TickKeepsInv
  <1>3. CASE Forget
    BY <1>3, ForgetKeepsInv
  <1>4. CASE UNCHANGED limiterVars
    BY <1>4 DEF limiterVars, LimiterInv, WindowBound, InWindowOf, Recent
  <1> QED
    BY <1>1, <1>2, <1>3, <1>4 DEF LimiterNext

LEMMA LimiterInitEstablishes == LimiterInit => LimiterInv
  <1> SUFFICES ASSUME LimiterInit PROVE LimiterInv
    OBVIOUS
  <1>1. IsFiniteSet({})
    BY FS_EmptySet
  <1>2. WindowBound /\ \A key \in Keys : Recent(key) = {}
    BY DEF LimiterInit, WindowBound, Recent
  <1> QED
    BY <1>1, <1>2 DEF LimiterInit, LimiterInv

\* In every window, wherever it begins, a key has at most Limit admitted attempts: the
\* limiter alone, with any callers (LoginRateLimiter::check).
THEOREM LimiterBound == LimiterSpec => []WindowBound
  <1>1. LimiterInit => LimiterInv
    BY LimiterInitEstablishes
  <1>2. LimiterInv /\ [LimiterNext]_limiterVars => LimiterInv'
    BY LimiterStepKeeps
  <1>3. LimiterInv => WindowBound
    BY DEF LimiterInv
  <1> QED
    BY <1>1, <1>2, <1>3, PTL DEF LimiterSpec

-----------------------------------------------------------------------------
(* The handlers *)

\* What is known of a handler at each of its steps.
HandlerInv(w) ==
    /\ pc[w] # "done" => result[w] = "none"
    /\ pc[w] = "idle" => ~late[w]
    /\ pc[w] # "idle" /\ req[w].op # "login" => req[w].cookie \in 1..lastId
    /\ pc[w] \in {"seen", "delete"} => current[w] \in Session /\ current[w].id = req[w].cookie
    /\ pc[w] = "log_login" => current[w] \in Session /\ current[w].id \in 1..lastId
    /\ late[w] => /\ pc[w] \in {"session", "done"} /\ req[w].op # "login"
                  /\ result[w] \in {"none", "unauthorized"}
                  /\ \A s \in Find(req[w].cookie) : ~Valid(s)
    /\ pc[w] \in {"limit", "lookup"} /\ admins[req[w].key.user] = req[w].password => knew[w]
    /\ pc[w] \in {"insert", "log_login"} \/ result[w] = "logged_in" => knew[w]

AuthInv == TypeOK /\ \A w \in Workers : HandlerInv(w)

\* One handler moves, and the others stand.
Move(w, step, request, session, outcome, wasLate, didKnow) ==
    /\ pc' = [pc EXCEPT ![w] = step]
    /\ req' = [req EXCEPT ![w] = request]
    /\ current' = [current EXCEPT ![w] = session]
    /\ result' = [result EXCEPT ![w] = outcome]
    /\ late' = [late EXCEPT ![w] = wasLate]
    /\ knew' = [knew EXCEPT ![w] = didKnow]

\* The tables change as one handler's statement may change them: rows go, and new ones
\* have new ids.
TablesMove ==
    /\ TablesOK' /\ LimiterTypeOK'
    /\ clock' = clock /\ admins' = admins /\ lastId' >= lastId
    /\ \A s \in sessions' : s \in sessions \/ s.id > lastId

LEMMA MoveForms ==
    ASSUME TypeOK, NEW w \in Workers
    PROVE  /\ \A step : Goto(w, step) =>
                Move(w, step, req[w], current[w], result[w], late[w], knew[w])
           /\ \A outcome : Finish(w, outcome) =>
                Move(w, "done", req[w], current[w], outcome, late[w], knew[w])
           /\ Reset(w) => Move(w, "idle", Nobody, Nobody, "none", FALSE, FALSE)
  <1> USE DEF TypeOK, HandlersOK, Move
  <1>1. ASSUME NEW step, Goto(w, step)
        PROVE  Move(w, step, req[w], current[w], result[w], late[w], knew[w])
    BY <1>1 DEF Goto
  <1>2. ASSUME NEW outcome, Finish(w, outcome)
        PROVE  Move(w, "done", req[w], current[w], outcome, late[w], knew[w])
    BY <1>2 DEF Finish
  <1>3. Reset(w) => Move(w, "idle", Nobody, Nobody, "none", FALSE, FALSE)
    BY DEF Reset
  <1> QED
    BY <1>1, <1>2, <1>3

\* What one handler's step must show: its own part of the invariant, afterwards.
LEMMA MoveKeepsInv ==
    ASSUME AuthInv, NEW w \in Workers, NEW step, NEW request, NEW session, NEW outcome,
           NEW wasLate \in BOOLEAN, NEW didKnow \in BOOLEAN,
           Move(w, step, request, session, outcome, wasLate, didKnow), TablesMove,
           step \in Steps, request \in Request \cup {Nobody},
           step # "idle" => request \in Request /\ step \in StepsOf(request.op),
           session \in Session \cup {Nobody}, outcome \in Results,
           HandlerInv(w)'
    PROVE  AuthInv'
  <1>1. HandlersOK'
    BY DEF AuthInv, TypeOK, HandlersOK, Move
  <1>2. ASSUME NEW v \in Workers, v # w PROVE HandlerInv(v)'
    <2>1. /\ pc'[v] = pc[v] /\ req'[v] = req[v] /\ current'[v] = current[v]
          /\ result'[v] = result[v] /\ late'[v] = late[v] /\ knew'[v] = knew[v]
      BY <1>2 DEF AuthInv, TypeOK, HandlersOK, Move
    <2>2. lastId \in Nat /\ lastId' \in Nat /\ lastId <= lastId' /\ admins' = admins
      BY DEF TablesMove, AuthInv, TypeOK, TablesOK
    <2>3. HandlerInv(v)
      BY DEF AuthInv
    <2>4. pc[v] # "idle" /\ req[v].op # "login" =>
             req[v].cookie \in 1..lastId /\ req[v].cookie \in 1..lastId'
      BY <2>2, <2>3 DEF HandlerInv
    <2>5. pc[v] = "log_login" => current[v].id \in 1..lastId'
      BY <2>2, <2>3 DEF HandlerInv
    <2>6. late[v] => \A s \in Find(req[v].cookie)' : ~Valid(s)'
      <3> SUFFICES ASSUME late[v], NEW s \in Find(req[v].cookie)' PROVE ~Valid(s)'
        OBVIOUS
      <3>1. s \in sessions' /\ s.id = req[v].cookie
        BY <2>1 DEF Find
      <3>2. req[v].cookie \in 1..lastId
        BY <2>3, <2>4 DEF HandlerInv
      <3>3. s \in sessions
        BY <3>1, <3>2, <2>2 DEF TablesMove
      <3>4. ~Valid(s)
        BY <3>1, <3>3, <2>3 DEF HandlerInv, Find
      <3> QED
        BY <3>4 DEF Valid, TablesMove
    <2> QED
      BY <2>1, <2>2, <2>3, <2>4, <2>5, <2>6 DEF HandlerInv
  <1>3. \A v \in Workers : HandlerInv(v)'
    BY <1>2
  <1> QED
    BY <1>1, <1>3 DEF AuthInv, TypeOK, TablesMove

\* Statements that write nothing that is modelled.
LEMMA StillTables ==
    ASSUME TypeOK, UNCHANGED <<limiterVars, tables>>
    PROVE  TablesMove
  BY DEF TypeOK, TablesMove, limiterVars, tables, TablesOK, LimiterTypeOK

\* The handler after its move.
LEMMA Moved ==
    ASSUME TypeOK, NEW w \in Workers, NEW step, NEW request, NEW session, NEW outcome,
           NEW wasLate, NEW didKnow,
           Move(w, step, request, session, outcome, wasLate, didKnow)
    PROVE  /\ pc'[w] = step /\ req'[w] = request /\ current'[w] = session
           /\ result'[w] = outcome /\ late'[w] = wasLate /\ knew'[w] = didKnow
  BY DEF TypeOK, HandlersOK, Move

\* A busy handler serves a request that its step belongs to.
LEMMA Busy ==
    ASSUME TypeOK, NEW w \in Workers
    PROVE  /\ pc[w] \in Steps /\ req[w] \in Request \cup {Nobody}
           /\ current[w] \in Session \cup {Nobody} /\ result[w] \in Results
           /\ late[w] \in BOOLEAN /\ knew[w] \in BOOLEAN
           /\ pc[w] # "idle" => req[w] \in Request /\ pc[w] \in StepsOf(req[w].op)
           /\ pc[w] \in {"limit", "lookup", "insert", "log_login"} =>
                /\ req[w].op = "login" /\ req[w].key \in Keys
                /\ req[w].key.user \in Users /\ req[w].password \in Passwords
           /\ pc[w] \in {"session", "seen", "delete"} =>
                req[w].op \in {"logout", "act", "foreign"}
  <1>1. /\ pc[w] \in Steps /\ req[w] \in Request \cup {Nobody}
        /\ current[w] \in Session \cup {Nobody} /\ result[w] \in Results
        /\ late[w] \in BOOLEAN /\ knew[w] \in BOOLEAN
        /\ pc[w] # "idle" => req[w] \in Request /\ pc[w] \in StepsOf(req[w].op)
    BY DEF TypeOK, HandlersOK
  <1>2. \A r \in Request :
          \/ r.op = "login" /\ r.key \in Keys /\ r.password \in Passwords
          \/ r.op \in {"logout", "act", "foreign"}
    BY DEF Request
  <1>3. pc[w] \in {"limit", "lookup", "insert", "log_login"} => req[w].op = "login"
    BY <1>1, <1>2 DEF StepsOf
  <1>4. pc[w] \in {"session", "seen", "delete"} => req[w].op \in {"logout", "act", "foreign"}
    BY <1>1, <1>2 DEF StepsOf
  <1> QED
    BY <1>1, <1>2, <1>3, <1>4, KeysAssumption

LEMMA GotoKeeps ==
    ASSUME AuthInv, NEW w \in Workers, NEW step \in Steps, Goto(w, step), TablesMove,
           pc[w] # "idle", step \in StepsOf(req[w].op), HandlerInv(w)'
    PROVE  AuthInv'
  <1>1. TypeOK
    BY DEF AuthInv
  <1>2. Move(w, step, req[w], current[w], result[w], late[w], knew[w])
    BY <1>1, MoveForms
  <1>3. /\ req[w] \in Request /\ current[w] \in Session \cup {Nobody} /\ result[w] \in Results
        /\ late[w] \in BOOLEAN /\ knew[w] \in BOOLEAN
    BY <1>1, Busy
  <1> QED
    BY <1>2, <1>3, MoveKeepsInv

LEMMA FinishKeeps ==
    ASSUME AuthInv, NEW w \in Workers, NEW outcome \in Results, Finish(w, outcome), TablesMove,
           pc[w] # "idle", HandlerInv(w)'
    PROVE  AuthInv'
  <1>1. TypeOK
    BY DEF AuthInv
  <1>2. Move(w, "done", req[w], current[w], outcome, late[w], knew[w])
    BY <1>1, MoveForms
  <1>3. /\ req[w] \in Request /\ current[w] \in Session \cup {Nobody}
        /\ late[w] \in BOOLEAN /\ knew[w] \in BOOLEAN
        /\ "done" \in Steps /\ "done" \in StepsOf(req[w].op)
    BY <1>1, Busy DEF Steps, StepsOf
  <1> QED
    BY <1>2, <1>3, MoveKeepsInv

LEMMA BeginLoginKeeps ==
    ASSUME AuthInv, NEW w \in Workers, BeginLogin(w)
    PROVE  AuthInv'
  <1> TypeOK /\ HandlerInv(w)
    BY DEF AuthInv
  <1>1. PICK key \in Keys, password \in Passwords :
          /\ req' = [req EXCEPT ![w] = [op |-> "login", key |-> key, password |-> password]]
          /\ knew' = [knew EXCEPT ![w] = (admins[key.user] = password)]
    BY DEF BeginLogin
  <1> DEFINE request == [op |-> "login", key |-> key, password |-> password]
             right == (admins[key.user] = password)
  <1>2. pc[w] = "idle" /\ pc' = [pc EXCEPT ![w] = "limit"]
        /\ UNCHANGED <<limiterVars, tables, current, result, late>>
    BY DEF BeginLogin
  <1>3. Move(w, "limit", request, current[w], result[w], late[w], right)
    BY <1>1, <1>2 DEF Move, TypeOK, HandlersOK
  <1>4. TablesMove /\ admins' = admins
    BY <1>2, StillTables DEF tables
  <1>5. request \in Request /\ request.op = "login"
    BY DEF Request
  <1>6. "limit" \in StepsOf(request.op)
    BY <1>5 DEF StepsOf
  <1>7. result[w] = "none" /\ ~late[w]
    BY <1>2 DEF HandlerInv
  <1>8. HandlerInv(w)'
    <2>1. request.key = key /\ request.password = password
      OBVIOUS
    <2>2. right <=> admins[request.key.user] = request.password
      BY <2>1
    <2> HIDE DEF request, right
    <2>3. /\ pc'[w] = "limit" /\ req'[w] = request /\ result'[w] = "none"
          /\ late'[w] = FALSE /\ knew'[w] = right
      BY <1>3, <1>7, Moved, Busy
    <2> QED
      BY <2>2, <2>3, <1>4, <1>5 DEF HandlerInv
  <1>9. /\ "limit" \in Steps /\ right \in BOOLEAN
        /\ current[w] \in Session \cup {Nobody} /\ result[w] \in Results /\ late[w] \in BOOLEAN
    BY Busy DEF Steps
  <1> HIDE DEF request, right
  <1> QED
    BY <1>3, <1>4, <1>5, <1>6, <1>8, <1>9, MoveKeepsInv

LEMMA BeginRequestKeeps ==
    ASSUME AuthInv, NEW w \in Workers, BeginRequest(w)
    PROVE  AuthInv'
  <1> TypeOK /\ HandlerInv(w)
    BY DEF AuthInv
  <1>1. PICK op \in {"logout", "act", "foreign"}, id \in issued :
          /\ req' = [req EXCEPT ![w] = [op |-> op, cookie |-> id]]
          /\ late' = [late EXCEPT ![w] = ~\E s \in Find(id) : Valid(s)]
    BY DEF BeginRequest
  <1> DEFINE request == [op |-> op, cookie |-> id]
             over == ~\E s \in Find(id) : Valid(s)
  <1>2. pc[w] = "idle" /\ pc' = [pc EXCEPT ![w] = "session"]
        /\ UNCHANGED <<limiterVars, tables, current, result, knew>>
    BY DEF BeginRequest
  <1>3. Move(w, "session", request, current[w], result[w], over, knew[w])
    BY <1>1, <1>2 DEF Move, TypeOK, HandlersOK
  <1>4. TablesMove /\ lastId' = lastId /\ sessions' = sessions /\ clock' = clock
    BY <1>2, StillTables DEF tables, limiterVars
  <1>5. id \in 1..lastId
    BY DEF TypeOK, TablesOK
  <1>6. request \in Request /\ request.op = op /\ request.cookie = id
    BY <1>5 DEF Request
  <1>7. "session" \in StepsOf(request.op)
    BY <1>6 DEF StepsOf
  <1>8. result[w] = "none"
    BY <1>2 DEF HandlerInv
  <1>9. over => \A s \in Find(id)' : ~Valid(s)'
    BY <1>4 DEF Find, Valid
  <1>10. HandlerInv(w)'
    <2>1. /\ pc'[w] = "session" /\ req'[w] = request /\ result'[w] = "none" /\ late'[w] = over
      BY <1>3, <1>8, Moved
    <2> HIDE DEF over, request
    <2>2. late'[w] => \A s \in Find(req[w].cookie)' : ~Valid(s)'
      BY <2>1, <1>6, <1>9 DEF Find
    <2> QED
      BY <2>1, <2>2, <1>4, <1>5, <1>6 DEF HandlerInv
  <1>11. /\ "session" \in Steps /\ over \in BOOLEAN
         /\ current[w] \in Session \cup {Nobody} /\ result[w] \in Results /\ knew[w] \in BOOLEAN
    BY Busy DEF Steps
  <1>12. Move(w, "session", request, current[w], result[w], over, knew[w]) /\ TablesMove
    BY <1>3, <1>4
  <1>13. request \in Request
    BY <1>6
  <1> HIDE DEF request, over
  <1> QED
    BY <1>7, <1>10, <1>11, <1>12, <1>13, MoveKeepsInv

\* The limiter's own types, from its invariant.
LEMMA LimiterTypes == LimiterInv => LimiterTypeOK
  BY DEF LimiterInv, LimiterTypeOK

LEMMA CheckLimitKeeps ==
    ASSUME AuthInv, LimiterInv, NEW w \in Workers, CheckLimit(w)
    PROVE  AuthInv' /\ LimiterNext
  <1> TypeOK /\ HandlerInv(w)
    BY DEF AuthInv
  <1>1. pc[w] = "limit" /\ UNCHANGED tables
    BY DEF CheckLimit
  <1>2. req[w].op = "login" /\ req[w].key \in Keys
    BY <1>1, Busy
  <1>3. result[w] = "none" /\ ~late[w]
    BY <1>1 DEF HandlerInv
  <1>4. Admit(req[w].key) \/ Refuse(req[w].key)
    BY DEF CheckLimit
  <1>5. LimiterNext /\ clock' = clock
    BY <1>2, <1>4 DEF LimiterNext, Admit, Refuse
  <1>6. LimiterTypeOK'
    BY <1>2, <1>4, AdmitKeepsInv, RefuseKeepsInv, LimiterTypes DEF LimiterInv, LimiterTypeOK
  <1>7. TablesMove /\ admins' = admins
    BY <1>1, <1>5, <1>6 DEF TablesMove, tables, TypeOK, TablesOK
  <1>8. CASE Goto(w, "lookup")
    <2>1. Move(w, "lookup", req[w], current[w], result[w], late[w], knew[w])
      BY <1>8, MoveForms
    <2>2. HandlerInv(w)'
      BY <2>1, <1>1, <1>2, <1>3, <1>7, Moved DEF HandlerInv
    <2>3. "lookup" \in Steps /\ "lookup" \in StepsOf(req[w].op)
      BY <1>2 DEF Steps, StepsOf
    <2> QED
      BY <2>2, <2>3, <1>1, <1>5, <1>7, <1>8, GotoKeeps
  <1>9. CASE Finish(w, "limited")
    <2>1. Move(w, "done", req[w], current[w], "limited", late[w], knew[w])
      BY <1>9, MoveForms
    <2>2. HandlerInv(w)'
      BY <2>1, <1>1, <1>2, <1>3, <1>7, Moved DEF HandlerInv
    <2>3. "limited" \in Results
      BY DEF Results
    <2> QED
      BY <2>2, <2>3, <1>1, <1>5, <1>7, <1>9, FinishKeeps
  <1> QED
    BY <1>8, <1>9 DEF CheckLimit

LEMMA LookupKeeps ==
    ASSUME AuthInv, NEW w \in Workers, Lookup(w)
    PROVE  AuthInv'
  <1> TypeOK /\ HandlerInv(w)
    BY DEF AuthInv
  <1>1. pc[w] = "lookup" /\ UNCHANGED <<limiterVars, tables>>
    BY DEF Lookup
  <1>2. TablesMove /\ admins' = admins /\ req[w].op = "login"
    BY <1>1, StillTables, Busy DEF tables
  <1>3. result[w] = "none" /\ ~late[w]
    BY <1>1 DEF HandlerInv
  <1>4. CASE Goto(w, "insert") /\ admins[req[w].key.user] = req[w].password
    <2>1. Move(w, "insert", req[w], current[w], result[w], late[w], knew[w])
      BY <1>4, MoveForms
    <2>2. knew[w]
      BY <1>1, <1>4 DEF HandlerInv
    <2>3. HandlerInv(w)'
      <3>1. late[w] = FALSE /\ knew[w] = TRUE
        <4>1. late[w] \in BOOLEAN /\ knew[w] \in BOOLEAN
          BY Busy
        <4> QED
          BY <4>1, <1>3, <2>2
      <3>2. /\ pc'[w] = "insert" /\ req'[w] = req[w] /\ result'[w] = "none"
            /\ late'[w] = FALSE /\ knew'[w] = TRUE
        BY <2>1, <1>3, <3>1, Moved
      <3> QED
        BY <3>2, <1>2 DEF HandlerInv
    <2>4. "insert" \in Steps /\ "insert" \in StepsOf(req[w].op)
      BY <1>2 DEF Steps, StepsOf
    <2> QED
      BY <2>3, <2>4, <1>1, <1>2, <1>4, GotoKeeps
  <1>5. CASE Finish(w, "unauthorized")
    <2>1. Move(w, "done", req[w], current[w], "unauthorized", late[w], knew[w])
      BY <1>5, MoveForms
    <2>2. HandlerInv(w)'
      BY <2>1, <1>1, <1>2, <1>3, Moved DEF HandlerInv
    <2>3. "unauthorized" \in Results
      BY DEF Results
    <2> QED
      BY <2>2, <2>3, <1>1, <1>2, <1>5, FinishKeeps
  <1> QED
    BY <1>4, <1>5 DEF Lookup

LEMMA InsertKeeps ==
    ASSUME AuthInv, NEW w \in Workers, InsertSession(w)
    PROVE  AuthInv'
  <1> TypeOK /\ HandlerInv(w)
    BY DEF AuthInv
  <1> DEFINE s == [id |-> lastId + 1, user |-> req[w].key.user, expires |-> clock + TTL]
  <1>1. /\ pc[w] = "insert" /\ pc' = [pc EXCEPT ![w] = "log_login"]
        /\ sessions' = sessions \cup {s} /\ lastId' = lastId + 1
        /\ current' = [current EXCEPT ![w] = s]
        /\ UNCHANGED <<limiterVars, admins, issued, req, result, late, knew>>
    BY DEF InsertSession
  <1>2. /\ req[w] \in Request /\ req[w].op = "login" /\ req[w].key.user \in Users
        /\ result[w] \in Results /\ late[w] \in BOOLEAN /\ knew[w] \in BOOLEAN
    BY <1>1, Busy
  <1>3. lastId \in Nat /\ clock \in Nat
    BY DEF TypeOK, TablesOK, LimiterTypeOK
  <1>4. s \in Session /\ s.id = lastId + 1
    BY <1>2, <1>3, TTLAssumption DEF Session
  <1> HIDE DEF s
  <1>5. Move(w, "log_login", req[w], s, result[w], late[w], knew[w])
    BY <1>1 DEF Move, TypeOK, HandlersOK
  <1>6. TablesOK'
    <2>1. \A t \in sessions : t \in Session /\ t.id <= lastId
      BY DEF TypeOK, TablesOK
    <2>2. \A t \in sessions : t.id # lastId + 1 /\ t.id <= lastId + 1
      BY <2>1, <1>3 DEF Session
    <2>3. sessions' \subseteq Session /\ \A t \in sessions' : t.id <= lastId'
      BY <2>1, <2>2, <1>1, <1>3, <1>4
    <2>4. \A t, u \in sessions' : t.id = u.id => t = u
      BY <2>2, <1>1, <1>4 DEF TypeOK, TablesOK
    <2>5. lastId' \in Nat /\ issued' \subseteq 1..lastId'
      BY <1>1, <1>3 DEF TypeOK, TablesOK
    <2> QED
      BY <2>3, <2>4, <2>5, <1>1 DEF TypeOK, TablesOK
  <1>7. TablesMove
    BY <1>1, <1>3, <1>4, <1>6 DEF TablesMove, limiterVars, TypeOK, LimiterTypeOK
  <1>8. result[w] = "none" /\ ~late[w] /\ knew[w]
    BY <1>1 DEF HandlerInv
  <1>9. s.id \in 1..lastId'
    BY <1>1, <1>3, <1>4
  <1>10. HandlerInv(w)'
    <2>1. result[w] = "none" /\ late[w] = FALSE /\ knew[w] = TRUE
      BY <1>2, <1>8
    <2>2. /\ pc'[w] = "log_login" /\ req'[w] = req[w] /\ current'[w] = s /\ result'[w] = "none"
          /\ late'[w] = FALSE /\ knew'[w] = TRUE
      BY <1>5, <2>1, Moved
    <2> QED
      BY <2>2, <1>2, <1>4, <1>9 DEF HandlerInv
  <1>11. "log_login" \in Steps /\ "log_login" \in StepsOf(req[w].op)
    BY <1>2 DEF Steps, StepsOf
  <1> QED
    BY <1>2, <1>4, <1>5, <1>7, <1>10, <1>11, MoveKeepsInv

LEMMA LogLoginKeeps ==
    ASSUME AuthInv, NEW w \in Workers, LogLogin(w)
    PROVE  AuthInv'
  <1> TypeOK /\ HandlerInv(w)
    BY DEF AuthInv
  <1>1. /\ pc[w] = "log_login" /\ issued' = issued \cup {current[w].id} /\ Finish(w, "logged_in")
        /\ UNCHANGED <<limiterVars, admins, sessions, lastId>>
    BY DEF LogLogin
  <1>2. result[w] = "none" /\ ~late[w] /\ knew[w] /\ current[w].id \in 1..lastId
    BY <1>1 DEF HandlerInv
  <1>3. req[w].op = "login"
    BY <1>1, Busy
  <1>4. TablesMove
    <2>1. issued' \subseteq 1..lastId
      BY <1>1, <1>2 DEF TypeOK, TablesOK
    <2>2. TablesOK'
      BY <2>1, <1>1 DEF TypeOK, TablesOK
    <2>3. LimiterTypeOK' /\ clock' = clock
      BY <1>1 DEF TypeOK, LimiterTypeOK, limiterVars
    <2>4. lastId \in Nat
      BY DEF TypeOK, TablesOK
    <2> QED
      BY <2>2, <2>3, <2>4, <1>1 DEF TablesMove
  <1>5. Move(w, "done", req[w], current[w], "logged_in", late[w], knew[w])
    BY <1>1, MoveForms
  <1>6. HandlerInv(w)'
    <2>1. late[w] = FALSE /\ knew[w] = TRUE
      <3>1. late[w] \in BOOLEAN /\ knew[w] \in BOOLEAN
        BY Busy
      <3> QED
        BY <3>1, <1>2
    <2>2. /\ pc'[w] = "done" /\ req'[w] = req[w] /\ result'[w] = "logged_in"
          /\ late'[w] = FALSE /\ knew'[w] = TRUE
      BY <1>5, <2>1, Moved
    <2> QED
      BY <2>2, <1>3 DEF HandlerInv
  <1>7. "logged_in" \in Results
    BY DEF Results
  <1> QED
    BY <1>1, <1>4, <1>6, <1>7, FinishKeeps

LEMMA SelectSessionKeeps ==
    ASSUME AuthInv, NEW w \in Workers, SelectSession(w)
    PROVE  AuthInv'
  <1> TypeOK /\ HandlerInv(w)
    BY DEF AuthInv
  <1>1. pc[w] = "session" /\ UNCHANGED <<limiterVars, tables>>
    BY DEF SelectSession
  <1>2. /\ TablesMove /\ lastId' = lastId
        /\ req[w] \in Request /\ req[w].op \in {"logout", "act", "foreign"}
        /\ late[w] \in BOOLEAN /\ knew[w] \in BOOLEAN
    BY <1>1, StillTables, Busy DEF tables
  <1>3. result[w] = "none" /\ req[w].cookie \in 1..lastId
    BY <1>1, <1>2 DEF HandlerInv
  <1>4. CASE \E s \in Find(req[w].cookie) :
                /\ Valid(s)
                /\ current' = [current EXCEPT ![w] = s]
                /\ pc' = [pc EXCEPT ![w] = "seen"]
                /\ UNCHANGED <<req, result, late, knew>>
    <2>1. PICK s \in Find(req[w].cookie) :
                /\ Valid(s)
                /\ current' = [current EXCEPT ![w] = s]
                /\ pc' = [pc EXCEPT ![w] = "seen"]
                /\ UNCHANGED <<req, result, late, knew>>
      BY <1>4
    <2>2. Move(w, "seen", req[w], s, result[w], late[w], knew[w])
      BY <2>1 DEF Move, TypeOK, HandlersOK
    <2>3. s \in Session /\ s.id = req[w].cookie
      BY DEF Find, TypeOK, TablesOK
    <2>4. ~late[w]
      BY <2>1 DEF HandlerInv
    <2>5. HandlerInv(w)'
      BY <2>2, <2>3, <2>4, <1>2, <1>3, Moved DEF HandlerInv
    <2>6. "seen" \in Steps /\ "seen" \in StepsOf(req[w].op) /\ result[w] \in Results
      BY <1>2, <1>3 DEF Steps, StepsOf, Results
    <2> QED
      BY <2>2, <2>3, <2>5, <2>6, <1>2, MoveKeepsInv
  <1>5. CASE Finish(w, "unauthorized")
    <2>1. Move(w, "done", req[w], current[w], "unauthorized", late[w], knew[w])
      BY <1>5, MoveForms
    <2>2. late[w] => \A s \in Find(req[w].cookie)' : ~Valid(s)'
      <3>1. /\ req'[w] = req[w] /\ sessions' = sessions /\ clock' = clock
        BY <2>1, <1>1, Moved DEF tables, limiterVars
      <3>2. late[w] => \A s \in Find(req[w].cookie) : ~Valid(s)
        BY DEF HandlerInv
      <3> QED
        BY <3>1, <3>2 DEF Find, Valid
    <2>3. HandlerInv(w)'
      BY <2>1, <2>2, <1>2, <1>3, Moved DEF HandlerInv
    <2>4. "unauthorized" \in Results
      BY DEF Results
    <2> QED
      BY <2>3, <2>4, <1>1, <1>2, <1>5, FinishKeeps
  <1> QED
    BY <1>4, <1>5 DEF SelectSession

LEMMA MarkSeenKeeps ==
    ASSUME AuthInv, NEW w \in Workers, MarkSeen(w)
    PROVE  AuthInv'
  <1> TypeOK /\ HandlerInv(w)
    BY DEF AuthInv
  <1>1. pc[w] = "seen" /\ AfterAdmin(w) /\ UNCHANGED <<limiterVars, tables>>
    BY DEF MarkSeen
  <1>2. TablesMove /\ lastId' = lastId /\ req[w].op \in {"logout", "act", "foreign"}
    BY <1>1, StillTables, Busy DEF tables
  <1>3. late[w] \in BOOLEAN /\ knew[w] \in BOOLEAN
    BY Busy
  <1>4. /\ result[w] = "none" /\ late[w] = FALSE /\ req[w].cookie \in 1..lastId
        /\ current[w] \in Session /\ current[w].id = req[w].cookie
    BY <1>1, <1>2, <1>3 DEF HandlerInv
  <1>5. CASE req[w].op = "logout" /\ Goto(w, "delete")
    <2>1. Move(w, "delete", req[w], current[w], result[w], late[w], knew[w])
      BY <1>5, MoveForms
    <2>2. HandlerInv(w)'
      BY <2>1, <1>2, <1>4, Moved DEF HandlerInv
    <2>3. "delete" \in Steps /\ "delete" \in StepsOf(req[w].op)
      BY <1>5 DEF Steps, StepsOf
    <2> QED
      BY <2>2, <2>3, <1>1, <1>2, <1>5, GotoKeeps
  <1>6. ASSUME NEW outcome \in {"acted", "forbidden"}, Finish(w, outcome) PROVE AuthInv'
    <2>1. Move(w, "done", req[w], current[w], outcome, late[w], knew[w])
      BY <1>6, MoveForms
    <2>2. HandlerInv(w)'
      BY <2>1, <1>2, <1>4, Moved DEF HandlerInv
    <2>3. outcome \in Results
      BY DEF Results
    <2> QED
      BY <2>2, <2>3, <1>1, <1>2, <1>6, FinishKeeps
  <1> QED
    BY <1>1, <1>2, <1>5, <1>6 DEF AfterAdmin

LEMMA DeleteKeeps ==
    ASSUME AuthInv, NEW w \in Workers, DeleteSession(w)
    PROVE  AuthInv'
  <1> TypeOK /\ HandlerInv(w)
    BY DEF AuthInv
  <1>1. /\ pc[w] = "delete" /\ Finish(w, "logged_out")
        /\ sessions' = sessions \ Find(current[w].id)
        /\ UNCHANGED <<limiterVars, admins, lastId, issued>>
    BY DEF DeleteSession
  <1>2. /\ req[w].op \in {"logout", "act", "foreign"}
        /\ late[w] \in BOOLEAN /\ knew[w] \in BOOLEAN
    BY <1>1, Busy
  <1>3. late[w] = FALSE /\ req[w].cookie \in 1..lastId
    BY <1>1, <1>2 DEF HandlerInv
  <1>4. TablesMove
    <2>1. LimiterTypeOK' /\ clock' = clock
      BY <1>1 DEF TypeOK, LimiterTypeOK, limiterVars
    <2>2. TablesOK'
      BY <1>1 DEF TypeOK, TablesOK
    <2>3. lastId \in Nat
      BY DEF TypeOK, TablesOK
    <2> QED
      BY <2>1, <2>2, <2>3, <1>1 DEF TablesMove
  <1>5. Move(w, "done", req[w], current[w], "logged_out", late[w], knew[w])
    BY <1>1, MoveForms
  <1>6. HandlerInv(w)'
    BY <1>1, <1>2, <1>3, <1>5, Moved DEF HandlerInv
  <1>7. "logged_out" \in Results
    BY DEF Results
  <1> QED
    BY <1>1, <1>4, <1>6, <1>7, FinishKeeps

LEMMA ResetKeeps ==
    ASSUME AuthInv, NEW w \in Workers, Reset(w), UNCHANGED <<limiterVars, tables>>
    PROVE  AuthInv'
  <1> TypeOK
    BY DEF AuthInv
  <1>1. Move(w, "idle", Nobody, Nobody, "none", FALSE, FALSE) /\ TablesMove
    BY MoveForms, StillTables
  <1>2. HandlerInv(w)'
    <2>1. pc'[w] = "idle" /\ result'[w] = "none" /\ late'[w] = FALSE
      BY <1>1, Moved
    <2> QED
      BY <2>1 DEF HandlerInv
  <1>3. "idle" \in Steps /\ "none" \in Results
    BY DEF Steps, Results
  <1> QED
    BY <1>1, <1>2, <1>3, MoveKeepsInv

\* A reset between the statements of a login: what counts is whether the password was
\* right at any time since it began.
LEMMA UpsertKeeps ==
    ASSUME AuthInv, UpsertAdmin
    PROVE  AuthInv'
  <1> TypeOK
    BY DEF AuthInv
  <1>1. PICK user \in Users, password \in Passwords :
        /\ admins' = [admins EXCEPT ![user] = password]
        /\ knew' = [w \in Workers |->
              knew[w] \/ (/\ pc[w] # "idle" /\ req[w].op = "login"
                          /\ req[w].key.user = user /\ req[w].password = password)]
    BY DEF UpsertAdmin
  <1>2. UNCHANGED <<limiterVars, sessions, lastId, issued, pc, req, current, result, late>>
    BY DEF UpsertAdmin
  <1>3. admins' \in [Users -> Passwords \cup {Nobody}] /\ knew' \in [Workers -> BOOLEAN]
    BY <1>1 DEF TypeOK, TablesOK, HandlersOK
  <1>4. TypeOK'
    <2>1. LimiterTypeOK'
      BY <1>2 DEF TypeOK, LimiterTypeOK, limiterVars
    <2>2. TablesOK'
      BY <1>2, <1>3 DEF TypeOK, TablesOK
    <2>3. HandlersOK'
      BY <1>2, <1>3 DEF TypeOK, HandlersOK
    <2> QED
      BY <2>1, <2>2, <2>3 DEF TypeOK
  <1>5. ASSUME NEW w \in Workers PROVE HandlerInv(w)'
    <2>1. HandlerInv(w) /\ clock' = clock
      BY <1>2 DEF AuthInv, limiterVars
    <2>2. knew[w] => knew'[w]
      BY <1>1
    <2>3. pc[w] \in {"limit", "lookup"} /\ admins'[req[w].key.user] = req[w].password => knew'[w]
      <3> SUFFICES ASSUME pc[w] \in {"limit", "lookup"},
                          admins'[req[w].key.user] = req[w].password
                   PROVE  knew'[w]
        OBVIOUS
      <3>1. req[w].op = "login" /\ req[w].key.user \in Users
        BY Busy
      <3>2. CASE req[w].key.user = user
        <4>1. req[w].password = password
          BY <3>1, <3>2, <1>1 DEF TypeOK, TablesOK
        <4> QED
          BY <4>1, <3>1, <3>2, <1>1
      <3>3. CASE req[w].key.user # user
        <4>1. admins[req[w].key.user] = req[w].password
          BY <3>1, <3>3, <1>1 DEF TypeOK, TablesOK
        <4> QED
          BY <4>1, <2>1, <2>2 DEF HandlerInv
      <3> QED
        BY <3>2, <3>3
    <2>4. (\A s \in Find(req[w].cookie) : ~Valid(s)) => \A s \in Find(req[w].cookie)' : ~Valid(s)'
      BY <1>2, <2>1 DEF Find, Valid
    <2> QED
      BY <1>2, <2>1, <2>2, <2>3, <2>4 DEF HandlerInv
  <1> QED
    BY <1>4, <1>5 DEF AuthInv

\* Time only ends sessions.
LEMMA AdvanceKeeps ==
    ASSUME AuthInv, Advance
    PROVE  AuthInv'
  <1> TypeOK
    BY DEF AuthInv
  <1>1. /\ clock' = clock + 1 /\ UNCHANGED <<entries, taken, admitted, tables, local>>
    BY DEF Advance, Tick
  <1>2. TypeOK'
    <2>1. LimiterTypeOK'
      BY <1>1 DEF TypeOK, LimiterTypeOK
    <2>2. TablesOK'
      BY <1>1 DEF TypeOK, TablesOK, tables
    <2>3. HandlersOK'
      BY <1>1 DEF TypeOK, HandlersOK, local
    <2> QED
      BY <2>1, <2>2, <2>3 DEF TypeOK
  <1>3. ASSUME NEW w \in Workers PROVE HandlerInv(w)'
    <2>1. clock \in Nat /\ \A s \in sessions : s.expires \in Nat
      BY DEF TypeOK, LimiterTypeOK, TablesOK, Session
    <2>2. \A s \in sessions : ~Valid(s) => ~Valid(s)'
      BY <2>1, <1>1 DEF Valid
    <2>3. (\A s \in Find(req[w].cookie) : ~Valid(s)) => \A s \in Find(req[w].cookie)' : ~Valid(s)'
      BY <2>2, <1>1 DEF Find, tables, local
    <2>4. HandlerInv(w)
      BY DEF AuthInv
    <2> QED
      BY <2>3, <2>4, <1>1 DEF HandlerInv, tables, local
  <1> QED
    BY <1>2, <1>3 DEF AuthInv

LEMMA RestartKeeps ==
    ASSUME AuthInv, Restart
    PROVE  AuthInv'
  <1> TypeOK
    BY DEF AuthInv
  <1>1. LimiterTypeOK' /\ TablesOK'
    BY DEF Restart, Forget, TypeOK, LimiterTypeOK, TablesOK, tables
  <1>2. HandlersOK'
    BY DEF Restart, HandlersOK, Steps, Results
  <1>3. ASSUME NEW w \in Workers PROVE HandlerInv(w)'
    BY DEF Restart, HandlerInv
  <1> QED
    BY <1>1, <1>2, <1>3 DEF AuthInv, TypeOK

-----------------------------------------------------------------------------
(* The theorems of the specification *)

LEMMA InitEstablishes == Init => LimiterInit /\ AuthInv
  <1> SUFFICES ASSUME Init PROVE LimiterInit /\ AuthInv
    OBVIOUS
  <1>1. LimiterTypeOK
    BY DEF Init, LimiterInit, LimiterTypeOK
  <1>2. TablesOK
    BY DEF Init, TablesOK
  <1>3. HandlersOK
    BY DEF Init, HandlersOK, Steps, Results
  <1>4. \A w \in Workers : HandlerInv(w)
    BY DEF Init, HandlerInv
  <1> QED
    BY <1>1, <1>2, <1>3, <1>4 DEF Init, AuthInv, TypeOK

\* Every step keeps the invariant, and is one the limiter alone may take.
LEMMA StepKeeps ==
    ASSUME AuthInv, LimiterInv, [Next]_vars
    PROVE  AuthInv' /\ [LimiterNext]_limiterVars
  <1>1. ASSUME NEW w \in Workers, BeginLogin(w) PROVE AuthInv' /\ [LimiterNext]_limiterVars
    BY <1>1, BeginLoginKeeps DEF BeginLogin
  <1>2. ASSUME NEW w \in Workers, BeginRequest(w) PROVE AuthInv' /\ [LimiterNext]_limiterVars
    BY <1>2, BeginRequestKeeps DEF BeginRequest
  <1>3. ASSUME NEW w \in Workers, Step(w) PROVE AuthInv' /\ [LimiterNext]_limiterVars
    <2>1. CASE CheckLimit(w)
      BY <2>1, CheckLimitKeeps
    <2>2. CASE Lookup(w)
      BY <2>2, LookupKeeps DEF Lookup
    <2>3. CASE InsertSession(w)
      BY <2>3, InsertKeeps DEF InsertSession
    <2>4. CASE LogLogin(w)
      BY <2>4, LogLoginKeeps DEF LogLogin
    <2>5. CASE SelectSession(w)
      BY <2>5, SelectSessionKeeps DEF SelectSession
    <2>6. CASE MarkSeen(w)
      BY <2>6, MarkSeenKeeps DEF MarkSeen
    <2>7. CASE DeleteSession(w)
      BY <2>7, DeleteKeeps DEF DeleteSession
    <2>8. CASE Respond(w)
      BY <2>8, ResetKeeps DEF Respond
    <2> QED
      BY <1>3, <2>1, <2>2, <2>3, <2>4, <2>5, <2>6, <2>7, <2>8 DEF Step
  <1>4. ASSUME NEW w \in Workers, Abort(w) PROVE AuthInv' /\ [LimiterNext]_limiterVars
    BY <1>4, ResetKeeps DEF Abort
  <1>5. CASE UpsertAdmin
    BY <1>5, UpsertKeeps DEF UpsertAdmin
  <1>6. CASE Advance
    BY <1>6, AdvanceKeeps DEF Advance, LimiterNext
  <1>7. CASE Restart
    BY <1>7, RestartKeeps DEF Restart, LimiterNext
  <1>8. CASE UNCHANGED vars
    <2>1. UNCHANGED <<limiterVars, tables, local>>
      BY <1>8 DEF vars
    <2>2. TypeOK'
      BY <2>1 DEF AuthInv, TypeOK, LimiterTypeOK, TablesOK, HandlersOK, limiterVars, tables, local
    <2>3. \A w \in Workers : HandlerInv(w)'
      BY <2>1 DEF AuthInv, HandlerInv, Find, Valid, limiterVars, tables, local
    <2> QED
      BY <2>1, <2>2, <2>3 DEF AuthInv
  <1> QED
    BY <1>1, <1>2, <1>3, <1>4, <1>5, <1>6, <1>7, <1>8 DEF Next

\* The two invariants hold together: the handlers' types rest on the limiter's.
LEMMA InvHolds == Spec => [](AuthInv /\ LimiterInv)
  <1>1. Init => AuthInv /\ LimiterInv
    BY InitEstablishes, LimiterInitEstablishes
  <1>2. AuthInv /\ LimiterInv /\ [Next]_vars => AuthInv' /\ LimiterInv'
    BY StepKeeps, LimiterStepKeeps
  <1> QED
    BY <1>1, <1>2, PTL DEF Spec

\* The type invariant, with the uniqueness of session ids (sessions, authenticate).
THEOREM TypeCorrect == Spec => []TypeOK
  <1>1. AuthInv => TypeOK
    BY DEF AuthInv
  <1> QED
    BY <1>1, InvHolds, PTL

\* Whatever the handlers, the console and the restarts do, the limiter they share behaves
\* as the limiter alone (authenticate, LoginRateLimiter::check).
THEOREM AuthUsesLimiter == Spec => LimiterSpec
  <1>1. Init => LimiterInit
    BY DEF Init
  <1>2. AuthInv /\ LimiterInv /\ [Next]_vars => [LimiterNext]_limiterVars
    BY StepKeeps
  <1> QED
    BY <1>1, <1>2, InvHolds, PTL DEF Spec, LimiterSpec

\* At most Limit attempts of a key are admitted in any window of the program's life
\* (LoginRateLimiter::check).
THEOREM LoginsBounded == Spec => []WindowBound
  <1>1. LimiterInv => WindowBound
    BY DEF LimiterInv
  <1> QED
    BY <1>1, InvHolds, PTL

\* A request sent after the end of its session is never let in (require_admin).
THEOREM OverIsOver == Spec => []OverStaysOver
  <1>1. AuthInv => OverStaysOver
    BY DEF AuthInv, HandlerInv, OverStaysOver, LetIn
  <1> QED
    BY <1>1, InvHolds, PTL

\* A session is opened only for a password that was right during the login (authenticate).
THEOREM LoginIsEarned == Spec => []LoginNeedsPassword
  <1>1. AuthInv => LoginNeedsPassword
    BY DEF AuthInv, HandlerInv, LoginNeedsPassword
  <1> QED
    BY <1>1, InvHolds, PTL

-----------------------------------------------------------------------------
(* What a step may never do *)

LEMMA RefusalStep ==
    ASSUME AuthInv, LimiterInv, [Next]_vars, NEW w \in Workers,
           pc[w] = "limit", result'[w] = "limited"
    PROVE  Cardinality(Recent(req[w].key)) >= Limit
  <1> TypeOK /\ result \in [Workers -> Results]
    BY DEF AuthInv, TypeOK, HandlersOK
  <1>1. result[w] = "none" /\ req[w].key \in Keys
    BY Busy DEF AuthInv, HandlerInv
  <1>2. CASE CheckLimit(w) /\ Refuse(req[w].key)
    BY <1>1, <1>2, FreshIsRecent DEF Refuse
  <1>3. result' # result
    BY <1>1
  <1>4. ASSUME NEW v \in Workers, \E outcome : result' = [result EXCEPT ![v] = outcome]
        PROVE  v = w
    BY <1>1, <1>4
  <1>5. ASSUME NEW v \in Workers, BeginLogin(v) \/ BeginRequest(v) PROVE FALSE
    BY <1>3, <1>5 DEF BeginLogin, BeginRequest
  <1>6. ASSUME NEW v \in Workers, Step(v) PROVE Cardinality(Recent(req[w].key)) >= Limit
    <2>1. ASSUME NEW outcome, Finish(v, outcome) PROVE v = w
      BY <2>1, <1>4 DEF Finish
    <2>2. ASSUME Reset(v) PROVE FALSE
      BY <2>2, <1>1 DEF Reset
    <2>3. ASSUME NEW step, Goto(v, step) PROVE FALSE
      BY <2>3, <1>3 DEF Goto
    <2>4. CASE CheckLimit(v)
      BY <2>1, <2>3, <2>4, <1>2 DEF CheckLimit
    <2>5. CASE InsertSession(v)
      BY <2>5, <1>3 DEF InsertSession
    <2>6. CASE SelectSession(v)
      BY <2>1, <2>6, <1>3 DEF SelectSession
    <2>7. CASE Lookup(v)
      BY <2>1, <2>3, <2>7 DEF Lookup
    <2>8. CASE LogLogin(v)
      BY <2>1, <2>8 DEF LogLogin
    <2>9. CASE MarkSeen(v)
      <3>1. pc[v] = "seen" /\ req[v].op \in {"logout", "act", "foreign"}
        BY <2>9, Busy DEF MarkSeen
      <3> QED
        BY <2>1, <2>3, <2>9, <3>1 DEF MarkSeen, AfterAdmin
    <2>10. CASE DeleteSession(v)
      BY <2>1, <2>10 DEF DeleteSession
    <2>11. CASE Respond(v)
      BY <2>2, <2>11 DEF Respond
    <2> QED
      BY <1>6, <2>4, <2>5, <2>6, <2>7, <2>8, <2>9, <2>10, <2>11 DEF Step
  <1>7. ASSUME NEW v \in Workers, Abort(v) PROVE FALSE
    BY <1>1, <1>7 DEF Abort, Reset
  <1>8. ASSUME Restart PROVE FALSE
    BY <1>8 DEF Restart
  <1>9. ASSUME UpsertAdmin \/ Advance \/ UNCHANGED vars PROVE FALSE
    BY <1>3, <1>9 DEF UpsertAdmin, Advance, vars, local
  <1> QED
    BY <1>5, <1>6, <1>7, <1>8, <1>9 DEF Next

\* An attempt is refused only while Limit attempts of its own key were admitted within the
\* last window (LoginRateLimiter::check).
THEOREM RefusedForCause == Spec => RefusalsJustified
  <1>1. AuthInv /\ LimiterInv /\ [Next]_vars =>
          [\A w \in Workers : pc[w] = "limit" /\ result'[w] = "limited" =>
               Cardinality(Recent(req[w].key)) >= Limit]_vars
    BY RefusalStep
  <1> QED
    BY <1>1, InvHolds, PTL DEF Spec, RefusalsJustified

LEMMA SessionStep ==
    ASSUME AuthInv, [Next]_vars
    PROVE  /\ \A s \in sessions : s \notin sessions' =>
                \E w \in Workers : pc[w] = "delete" /\ req[w].cookie = s.id
           /\ \A s \in sessions' : s \notin sessions => s.id > lastId
  <1>1. ASSUME NEW w \in Workers, InsertSession(w)
        PROVE  sessions \subseteq sessions' /\ \A s \in sessions' : s \notin sessions => s.id > lastId
    <2>1. lastId \in Nat
      BY DEF AuthInv, TypeOK, TablesOK
    <2> QED
      BY <2>1, <1>1 DEF InsertSession
  <1>2. ASSUME NEW w \in Workers, DeleteSession(w)
        PROVE  /\ sessions' \subseteq sessions /\ pc[w] = "delete"
               /\ \A s \in sessions : s \notin sessions' => req[w].cookie = s.id
    <2>1. pc[w] = "delete" /\ sessions' = sessions \ Find(current[w].id)
      BY <1>2 DEF DeleteSession
    <2>2. current[w].id = req[w].cookie
      BY <2>1 DEF AuthInv, HandlerInv
    <2> QED
      BY <2>1, <2>2 DEF Find
  <1>3. ASSUME NEW w \in Workers, Step(w)
        PROVE  InsertSession(w) \/ DeleteSession(w) \/ sessions' = sessions
    BY <1>3 DEF Step, CheckLimit, Lookup, LogLogin, SelectSession, MarkSeen, Respond, tables
  <1>4. ASSUME NEW w \in Workers, BeginLogin(w) \/ BeginRequest(w) \/ Abort(w)
        PROVE  sessions' = sessions
    BY <1>4 DEF BeginLogin, BeginRequest, Abort, tables
  <1>5. ASSUME UpsertAdmin \/ Advance \/ Restart \/ UNCHANGED vars
        PROVE  sessions' = sessions
    BY <1>5 DEF UpsertAdmin, Advance, Restart, vars, tables
  <1> QED
    BY <1>1, <1>2, <1>3, <1>4, <1>5 DEF Next

\* A session ends by a logout with its own cookie, and none comes back (logout,
\* require_admin).
THEOREM OnlyLogoutEnds == Spec => OnlyOwnLogoutEnds
  <1>1. AuthInv /\ LimiterInv /\ [Next]_vars =>
          [/\ \A s \in sessions : s \notin sessions' =>
                \E w \in Workers : pc[w] = "delete" /\ req[w].cookie = s.id
           /\ \A s \in sessions' : s \notin sessions => s.id > lastId]_vars
    BY SessionStep
  <1> QED
    BY <1>1, InvHolds, PTL DEF Spec, OnlyOwnLogoutEnds
=============================================================================
