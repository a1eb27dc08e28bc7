---------------------------- MODULE TeamProofs ----------------------------
(***************************************************************************)
(* Proofs about TeamRetention for any number of requests, identities,      *)
(* logins, sessions, keys and plans and any timing.                        *)
(*                                                                         *)
(* Three invariants, each inductive given the one before it: the types;    *)
(* that a callback past its consuming UPDATE is alone with its login       *)
(* (LoginInv); and that a request past its export still holds the plan's   *)
(* own snapshot, in the store (RetentionInv).                              *)
(***************************************************************************)
EXTENDS TeamRetention, TLAPS, FiniteSetTheorems

Operations ==
    {"idle", "consume", "session", "member", "grant", "settings", "key",
     "schedule", "cancel", "execute", "purge"}

Subjects == Logins \cup Users \cup Keys \cup Plans \cup (0..MaxDays + 1) \cup {None}

Requests ==
    [op : Operations, on : Subjects,
     saw : Users \cup {None} \cup [now : 0..MaxTime, export : Exports]]

\* What a request in flight is about.
Subject(r) ==
    /\ r.op \in {"consume", "session"} => r.on \in Logins
    /\ r.op \in {"member", "grant"} => r.on \in Users
    /\ r.op = "key" => r.on \in Keys
    /\ r.op \in {"schedule", "cancel", "execute", "purge"} => r.on \in Plans

TeamTypes ==
    /\ TypeOK
    /\ handlers \in [Handlers -> Requests]
    /\ \A h \in Handlers : Subject(handlers[h])

-----------------------------------------------------------------------------
(* Types                                                                   *)

\* A fresh or finished request is well formed.
LEMMA IdleIsARequest == Idle \in Requests /\ Subject(Idle)
  BY DEF Idle, Requests, Operations, Subjects, Subject

\* A step that only moves one request to a well-formed state keeps the types.
LEMMA MoveTypes ==
    ASSUME TeamTypes, NEW h \in Handlers, NEW r \in Requests, Subject(r),
           handlers' = [handlers EXCEPT ![h] = r]
    PROVE  handlers' \in [Handlers -> Requests] /\ \A g \in Handlers : Subject(handlers'[g])
  BY DEF TeamTypes, Subject

\* What an export of the current project looks like.
LEMMA ExportType == TypeOK => Export \in Exports
  BY DEF TypeOK, Export, Exports

\* The empty deployment is well typed.
LEMMA TeamStarts == Init => TeamTypes
  BY IdleIsARequest, TimingAssumption DEF Init, TeamTypes, TypeOK, Roles

\* Every step keeps the types.
LEMMA TeamTypesStep == TeamTypes /\ [Next]_vars => TeamTypes'
<1> SUFFICES ASSUME TeamTypes, [Next]_vars
             PROVE  TeamTypes'
  OBVIOUS
<1> USE TimingAssumption, NoneAssumption
<1>0. TypeOK
  BY DEF TeamTypes
<1>1. CASE UNCHANGED vars
  BY <1>1 DEF vars, project, TeamTypes, TypeOK
<1>2. CASE Tick
  BY <1>2 DEF Tick, project, TeamTypes, TypeOK
<1>3. CASE \E l \in Logins : StartLogin(l)
  <2> PICK l \in Logins : StartLogin(l)
    BY <1>3
  <2>1. [expires |-> clock + LoginTTL, consumed |-> FALSE] \in LoginRows
    BY <1>0 DEF TypeOK, LoginRows, Times
  <2> QED
    BY <2>1, <1>0 DEF StartLogin, project, TeamTypes, TypeOK
<1>4. CASE \E s \in Sessions : Logout(s)
  <2> PICK s \in Sessions : Logout(s)
    BY <1>4
  <2>1. [sessions[s] EXCEPT !.revoked = TRUE] \in SessionRows
    BY <1>0 DEF Logout, Live, TypeOK, SessionRows
  <2>2. sessions' \in [Sessions -> SessionRows \cup {None}]
    BY <2>1, <1>0 DEF Logout, TypeOK
  <2> QED
    BY <2>2, <1>0 DEF Logout, project, TeamTypes, TypeOK
<1>5. ASSUME NEW h \in Handlers, HandlerStep(h)
      PROVE  TeamTypes'
  <2>0. handlers[h] \in Requests /\ Subject(handlers[h])
    BY DEF TeamTypes
  <2>1. ASSUME handlers' = [handlers EXCEPT ![h] = Idle], TypeOK'
        PROVE  TeamTypes'
    BY <2>1, IdleIsARequest, MoveTypes DEF TeamTypes
  <2>2. ASSUME NEW r \in Requests, Subject(r), handlers' = [handlers EXCEPT ![h] = r], TypeOK'
        PROVE  TeamTypes'
    BY <2>2, MoveTypes DEF TeamTypes
  <2>3. ASSUME NEW l \in Logins, CallbackRead(h, l)
        PROVE  TeamTypes'
    <3>1. [op |-> "consume", on |-> l, saw |-> None] \in Requests
      BY DEF Requests, Operations, Subjects
    <3>2. Subject([op |-> "consume", on |-> l, saw |-> None])
      BY DEF Subject
    <3> QED
      BY <1>0, <2>3, <3>1, <3>2, <2>2 DEF CallbackRead, Step, project, TypeOK
  <2>4. CASE CallbackConsume(h)
    <3>1. CASE Consumes(handlers[h].on)
      <4> DEFINE r == [handlers[h] EXCEPT !.op = "session"]
      <4>1. r \in Requests /\ Subject(r)
        BY <2>0, <2>4 DEF CallbackConsume, Requests, Operations, Subject
      <4>2. [logins[handlers[h].on] EXCEPT !.consumed = TRUE] \in LoginRows
        <5>1. handlers[h].on \in Logins /\ logins[handlers[h].on] # None
          BY <2>0, <2>4, <3>1 DEF CallbackConsume, Subject, Consumes, Usable
        <5>2. logins[handlers[h].on] \in LoginRows
          BY <1>0, <5>1 DEF TypeOK
        <5> QED
          BY <5>2 DEF LoginRows
      <4>3. TypeOK'
        BY <1>0, <2>0, <2>4, <3>1, <4>2 DEF CallbackConsume, Subject, TypeOK, project
      <4> QED
        BY <2>2, <2>4, <3>1, <4>1, <4>3 DEF CallbackConsume, Step
    <3>2. CASE ~ Consumes(handlers[h].on)
      BY <1>0, <2>1, <2>4, <3>2 DEF CallbackConsume, Step, project, TypeOK
    <3> QED
      BY <3>1, <3>2
  <2>5. ASSUME NEW s \in Sessions, NEW u \in Users, NEW prior \in Sessions \cup {None},
               CallbackSession(h, s, u, prior)
        PROVE  TeamTypes'
    <3> DEFINE row == [user |-> u, login |-> handlers[h].on,
                       revoked |-> FALSE, expires |-> clock + SessionTTL]
    <3>1. row \in SessionRows
      BY <1>0, <2>0, <2>5 DEF CallbackSession, Step, Subject, TypeOK, SessionRows, Times
    <3>2. prior # None => [sessions[prior] EXCEPT !.revoked = TRUE] \in SessionRows
      <4>1. ASSUME prior # None
            PROVE  sessions[prior] \in SessionRows
        BY <1>0, <2>5, <4>1 DEF CallbackSession, Live, TypeOK
      <4> QED
        BY <4>1 DEF SessionRows
    <3>3. sessions' \in [Sessions -> SessionRows \cup {None}]
      <4>1. sessions' = [t \in Sessions |->
                           CASE t = s -> row
                             [] t = prior -> [sessions[t] EXCEPT !.revoked = TRUE]
                             [] OTHER -> sessions[t]]
        BY <2>5 DEF CallbackSession
      <4>2. \A t \in Sessions : sessions[t] \in SessionRows \cup {None}
        BY <1>0 DEF TypeOK
      <4>3. \A t \in Sessions : t = prior => prior # None
        BY <1>0 DEF TypeOK
      <4> HIDE DEF row
      <4>4. ASSUME NEW t \in Sessions PROVE sessions'[t] \in SessionRows \cup {None}
        <5>0. prior # s
          BY <2>5 DEF CallbackSession, Live
        <5>1. CASE t = s
          BY <3>1, <4>1, <5>0, <5>1
        <5>2. CASE t # s /\ t = prior
          <6>1. sessions'[t] = [sessions[prior] EXCEPT !.revoked = TRUE]
            BY <4>1, <5>2
          <6> QED
            BY <3>2, <4>3, <5>2, <6>1
        <5>3. CASE t # s /\ t # prior
          BY <4>1, <4>2, <5>3
        <5> QED
          BY <5>1, <5>2, <5>3
      <4> QED
        BY <4>1, <4>4
    <3> QED
      BY <1>0, <2>1, <2>5, <3>3 DEF CallbackSession, Step, project, TypeOK
  <2>6. ASSUME NEW s \in Sessions, Request(h, s)
        PROVE  TeamTypes'
    <3>1. sessions[s].user \in Users
      BY <1>0, <2>6 DEF Request, Authorise, Live, TypeOK, SessionRows
    <3>2. PICK op \in Operations, on \in Subjects :
             /\ handlers' = [handlers EXCEPT ![h] = [op |-> op, on |-> on, saw |-> sessions[s].user]]
             /\ Subject([op |-> op, on |-> on, saw |-> sessions[s].user])
             /\ UNCHANGED <<clock, logins, sessions, project, plans, store, tombstones>>
      BY <2>6 DEF Request, Authorise, Step, Operations, Subjects, Subject
    <3>3. [op |-> op, on |-> on, saw |-> sessions[s].user] \in Requests
      BY <3>1 DEF Requests
    <3> QED
      BY <1>0, <2>2, <3>2, <3>3 DEF project, TypeOK
  <2>7. CASE MembershipCheck(h)
    <3>1. [handlers[h] EXCEPT !.op = "grant"] \in Requests
      BY <2>0 DEF Requests, Operations
    <3>2. Subject([handlers[h] EXCEPT !.op = "grant"])
      BY <2>0, <2>7 DEF MembershipCheck, Step, Requests, Subject
    <3> QED
      BY <1>0, <2>1, <2>2, <2>7, <3>1, <3>2 DEF MembershipCheck, Step, project, TypeOK
  <2>8. ASSUME NEW role \in Roles, SetMembership(h, role)
        PROVE  TeamTypes'
    BY <1>0, <2>1, <2>8 DEF SetMembership, Step, TypeOK
  <2>9. CASE UpdateSettings(h)
    BY <1>0, <2>1, <2>9 DEF UpdateSettings, DaysAccepted, Step, TypeOK
  <2>10. CASE UseKey(h)
    BY <1>0, <2>1, <2>10 DEF UseKey, Step, TypeOK
  <2>11. CASE Schedule(h)
    <3>1. [state |-> "scheduled", snapshot |-> Export, due |-> clock + Grace] \in PlanRows
      BY <1>0, ExportType DEF PlanRows, TypeOK, Times
    <3> QED
      BY <1>0, <2>1, <2>11, <3>1 DEF Schedule, Step, project, TypeOK
  <2>12. ASSUME NEW p \in Plans, plans[p] # None,
                NEW st \in {"cancelled", "blocked", "executed"},
                plans' = [plans EXCEPT ![p].state = st]
         PROVE  plans' \in [Plans -> PlanRows \cup {None}]
    <3>1. [plans[p] EXCEPT !.state = st] \in PlanRows
      BY <1>0, <2>12 DEF TypeOK, PlanRows
    <3> QED
      BY <1>0, <2>12, <3>1 DEF TypeOK
  <2>13. CASE Cancel(h)
    <3>1. plans' \in [Plans -> PlanRows \cup {None}]
      BY <1>0, <2>0, <2>12, <2>13 DEF Cancel, Cancellable, Step, Subject, TypeOK
    <3> QED
      BY <1>0, <2>1, <2>13, <3>1 DEF Cancel, Step, project, TypeOK
  <2>14. CASE ExecuteExport(h)
    <3> DEFINE p == handlers[h].on
               r == [op |-> "purge", on |-> p, saw |-> [now |-> clock, export |-> Export]]
    <3>1. r \in Requests /\ Subject(r)
      BY <1>0, <2>0, <2>14, ExportType DEF ExecuteExport, Requests, Operations, Subject, TypeOK
    <3>2. plans' \in [Plans -> PlanRows \cup {None}]
      BY <1>0, <2>0, <2>12, <2>14 DEF ExecuteExport, Due, Subject, TypeOK
    <3>3. TypeOK'
      BY <1>0, <2>14, <3>2 DEF ExecuteExport, project, TypeOK
    <3> QED
      BY <2>1, <2>2, <2>14, <3>1, <3>3 DEF ExecuteExport, Step
  <2>15. CASE ExecutePurge(h)
    <3>1. plans' \in [Plans -> PlanRows \cup {None}]
      BY <1>0, <2>0, <2>12, <2>15 DEF ExecutePurge, Purge, StillDue, Due, Step, Subject, TypeOK
    <3>2. records' \in [Keys -> 0..MaxTime \cup {None}]
      BY <1>0, <2>15 DEF ExecutePurge, Purge, TypeOK
    <3> QED
      BY <1>0, <2>1, <2>15, <3>1, <3>2 DEF ExecutePurge, Step, TypeOK
  <2>16. CASE Abandon(h)
    BY <1>0, <2>1, <2>16 DEF Abandon, project, TypeOK
  <2> QED
    BY <1>5, <2>3, <2>4, <2>5, <2>6, <2>7, <2>8, <2>9, <2>10, <2>11, <2>13, <2>14, <2>15, <2>16
    DEF HandlerStep
<1> QED
  BY <1>1, <1>2, <1>3, <1>4, <1>5 DEF Next

-----------------------------------------------------------------------------
(* Logins                                                                  *)

\* A session comes from a consumed login.  A callback that won the UPDATE has
\* a consumed login that no session and no other such callback has.
LoginInv ==
    /\ \A s \in Sessions :
          sessions[s] # None =>
             logins[sessions[s].login] # None /\ logins[sessions[s].login].consumed
    /\ \A s, t \in Sessions :
          sessions[s] # None /\ sessions[t] # None /\ sessions[s].login = sessions[t].login => s = t
    /\ \A h \in Handlers :
          handlers[h].op = "session" =>
             /\ logins[handlers[h].on] # None /\ logins[handlers[h].on].consumed
             /\ \A s \in Sessions : sessions[s] # None => sessions[s].login # handlers[h].on
    /\ \A g, h \in Handlers :
          handlers[g].op = "session" /\ handlers[h].op = "session" /\ handlers[g].on = handlers[h].on
             => g = h

\* A step that leaves the logins and sessions alone and sends one request
\* anywhere but to its session keeps LoginInv.
LEMMA LoginFrame ==
    ASSUME TeamTypes, LoginInv, NEW h \in Handlers, NEW r, r.op # "session",
           handlers' = [handlers EXCEPT ![h] = r], UNCHANGED <<logins, sessions>>
    PROVE  LoginInv'
  BY DEF LoginInv, TeamTypes

\* Every step keeps LoginInv.
LEMMA LoginStep == TeamTypes /\ LoginInv /\ [Next]_vars => LoginInv'
<1> SUFFICES ASSUME TeamTypes, LoginInv, [Next]_vars
             PROVE  LoginInv'
  OBVIOUS
<1> USE TimingAssumption, NoneAssumption
<1>1. CASE UNCHANGED vars
  BY <1>1 DEF vars, LoginInv
<1>2. CASE Tick
  BY <1>2 DEF Tick, LoginInv
<1>3. CASE \E l \in Logins : StartLogin(l)
  <2> PICK l \in Logins : StartLogin(l)
    BY <1>3
  <2>1. \A m \in Logins : logins[m] # None => logins'[m] = logins[m]
    BY DEF StartLogin, TeamTypes, TypeOK
  <2>2. \A s \in Sessions : sessions[s] # None => sessions[s].login \in Logins
    BY DEF TeamTypes, TypeOK, SessionRows
  <2>3. UNCHANGED <<sessions, handlers>>
    BY DEF StartLogin
  <2> QED
    BY <2>1, <2>2, <2>3 DEF LoginInv, TeamTypes, Subject
<1>4. CASE \E s \in Sessions : Logout(s)
  <2> PICK s \in Sessions : Logout(s)
    BY <1>4
  <2>1. sessions[s] \in SessionRows
    BY DEF Logout, Live, TeamTypes, TypeOK
  <2>2. \A t \in Sessions : sessions'[t] # None => sessions[t] # None /\ sessions'[t].login = sessions[t].login
    BY <2>1 DEF Logout, Live, TeamTypes, TypeOK, SessionRows
  <2>3. UNCHANGED <<logins, handlers>>
    BY DEF Logout
  <2> QED
    BY <2>2, <2>3 DEF LoginInv
<1>5. ASSUME NEW h \in Handlers, HandlerStep(h)
      PROVE  LoginInv'
  <2>0. handlers[h] \in Requests /\ Subject(handlers[h])
    BY DEF TeamTypes
  <2>1. Idle.op # "session"
    BY DEF Idle
  <2>2. ASSUME NEW l \in Logins, CallbackRead(h, l)
        PROVE  LoginInv'
    BY <2>2, LoginFrame DEF CallbackRead, Step
  <2>3. CASE CallbackConsume(h)
    <3>1. CASE Consumes(handlers[h].on)
      <4>1. PICK l \in Logins : l = handlers[h].on
        BY <2>0, <2>3 DEF CallbackConsume, Subject
      <4>2. logins[l] \in LoginRows /\ ~logins[l].consumed
        BY <3>1, <4>1 DEF Consumes, Usable, TeamTypes, TypeOK
      <4>3. logins' = [logins EXCEPT ![l] = [logins[l] EXCEPT !.consumed = TRUE]]
        BY <2>3, <3>1, <4>1 DEF CallbackConsume
      <4>4. PICK r \in Requests : r.op = "session" /\ r.on = l /\ handlers' = [handlers EXCEPT ![h] = r]
        <5>1. [handlers[h] EXCEPT !.op = "session"] \in Requests
          BY <2>0 DEF Requests, Operations
        <5>2. /\ [handlers[h] EXCEPT !.op = "session"].op = "session"
              /\ [handlers[h] EXCEPT !.op = "session"].on = handlers[h].on
          BY <2>0 DEF Requests
        <5> QED
          BY <2>3, <3>1, <4>1, <5>1, <5>2 DEF CallbackConsume, Step
      <4>5. logins'[l] = [logins[l] EXCEPT !.consumed = TRUE] /\ \A m \in Logins \ {l} : logins'[m] = logins[m]
        BY <4>3 DEF TeamTypes, TypeOK
      <4>6. logins'[l].consumed
        BY <4>2, <4>5 DEF LoginRows
      <4>7. logins'[l] \in LoginRows
        BY <4>2, <4>5 DEF LoginRows
      <4>8. \A m \in Logins : logins[m] # None /\ logins[m].consumed => m # l
        BY <4>2
      <4>9. \A s \in Sessions : sessions[s] # None => sessions[s].login \in Logins
        BY DEF TeamTypes, TypeOK, SessionRows
      <4>10. sessions' = sessions
        BY <2>3 DEF CallbackConsume
      <4>11. handlers'[h] = r /\ \A g \in Handlers \ {h} : handlers'[g] = handlers[g]
        BY <4>4 DEF TeamTypes
      <4>12. \A g \in Handlers : handlers[g].op = "session" => handlers[g].on \in Logins
        BY DEF TeamTypes, Subject
      <4>13. logins'[l] # None
        BY <4>7
      <4>14. \A s \in Sessions : sessions[s] # None => sessions[s].login \in Logins \ {l}
        BY <4>8, <4>9 DEF LoginInv
      <4>15. \A g \in Handlers : handlers[g].op = "session" => handlers[g].on \in Logins \ {l}
        BY <4>8, <4>12 DEF LoginInv
      <4>16. \A g \in Handlers \ {h} : handlers'[g].op = "session" => handlers'[g].on \in Logins \ {l}
        BY <4>11, <4>15
      <4>17. \A s \in Sessions :
               sessions'[s] # None =>
                  logins'[sessions'[s].login] # None /\ logins'[sessions'[s].login].consumed
        BY <4>5, <4>10, <4>14 DEF LoginInv
      <4>18. ASSUME NEW g \in Handlers, handlers'[g].op = "session"
             PROVE  /\ logins'[handlers'[g].on] # None /\ logins'[handlers'[g].on].consumed
                    /\ \A s \in Sessions : sessions'[s] # None => sessions'[s].login # handlers'[g].on
        <5>1. CASE g = h
          BY <4>4, <4>6, <4>10, <4>11, <4>13, <4>14, <5>1
        <5>2. CASE g # h
          BY <4>5, <4>10, <4>11, <4>15, <4>18, <5>2 DEF LoginInv
        <5> QED
          BY <5>1, <5>2
      <4>19. \A f, g \in Handlers :
               handlers'[f].op = "session" /\ handlers'[g].op = "session"
               /\ handlers'[f].on = handlers'[g].on => f = g
        BY <4>4, <4>11, <4>16 DEF LoginInv
      <4> QED
        BY <4>10, <4>17, <4>18, <4>19 DEF LoginInv
    <3>2. CASE ~ Consumes(handlers[h].on)
      BY <2>1, <2>3, <3>2, LoginFrame DEF CallbackConsume, Step
    <3> QED
      BY <3>1, <3>2
  <2>4. ASSUME NEW s \in Sessions, NEW u \in Users, NEW prior \in Sessions \cup {None},
               CallbackSession(h, s, u, prior)
        PROVE  LoginInv'
    <3>1. handlers[h].op = "session" /\ handlers' = [handlers EXCEPT ![h] = Idle] /\ logins' = logins
      BY <2>4 DEF CallbackSession, Step
    <3>2. sessions'[s].login = handlers[h].on
      <4>1. s # prior
        BY <2>4 DEF CallbackSession, Live
      <4> QED
        BY <2>4, <4>1 DEF CallbackSession
    <3>3. \A t \in Sessions \ {s} :
             sessions'[t] # None => sessions[t] # None /\ sessions'[t].login = sessions[t].login
      <4> SUFFICES ASSUME NEW t \in Sessions \ {s}
                   PROVE  sessions'[t] # None => sessions[t] # None /\ sessions'[t].login = sessions[t].login
        OBVIOUS
      <4>1. CASE t = prior
        <5>1. sessions[t] # None /\ sessions[t] \in SessionRows
          BY <2>4, <4>1 DEF CallbackSession, Live, TeamTypes, TypeOK
        <5> QED
          BY <2>4, <4>1, <5>1 DEF CallbackSession, SessionRows
      <4>2. CASE t # prior
        BY <2>4, <4>2 DEF CallbackSession
      <4> QED
        BY <4>1, <4>2
    <3>4. \A g \in Handlers : handlers'[g].op = "session" => g # h /\ handlers'[g] = handlers[g]
      BY <2>1, <3>1 DEF TeamTypes
    <3> QED
      BY <3>1, <3>2, <3>3, <3>4 DEF LoginInv
  <2>5. ASSUME NEW s \in Sessions, Request(h, s)
        PROVE  LoginInv'
    <3>1. PICK op, on : /\ op \in {"member", "settings", "key", "schedule", "cancel", "execute"}
                        /\ Authorise(h, s, op, on)
      BY <2>5 DEF Request
    <3> QED
      BY <3>1, LoginFrame DEF Authorise, Step
  <2>6. CASE MembershipCheck(h)
    <3>1. [handlers[h] EXCEPT !.op = "grant"].op # "session"
      BY <2>0 DEF Requests
    <3> QED
      BY <2>1, <2>6, <3>1, LoginFrame DEF MembershipCheck, Step
  <2>7. CASE ExecuteExport(h)
    BY <2>1, <2>7, LoginFrame DEF ExecuteExport, Step
  <2>8. CASE \/ \E role \in Roles : SetMembership(h, role)
             \/ UpdateSettings(h) \/ UseKey(h) \/ Schedule(h) \/ Cancel(h)
             \/ ExecutePurge(h) \/ Abandon(h)
    <3>1. handlers' = [handlers EXCEPT ![h] = Idle] /\ UNCHANGED <<logins, sessions>>
      BY <2>8 DEF SetMembership, UpdateSettings, UseKey, Schedule, Cancel, ExecutePurge, Abandon, Step
    <3> QED
      BY <2>1, <3>1, LoginFrame
  <2> QED
    BY <1>5, <2>2, <2>3, <2>4, <2>5, <2>6, <2>7, <2>8 DEF HandlerStep
<1> QED
  BY <1>1, <1>2, <1>3, <1>4, <1>5 DEF Next

-----------------------------------------------------------------------------
(* Retention                                                               *)

\* A request past its export holds the snapshot its plan binds, stored.  The
\* tombstones are the executed plans, one each, and stay recoverable.
RetentionInv ==
    /\ \A h \in Handlers :
          handlers[h].op = "purge" =>
             /\ plans[handlers[h].on] # None
             /\ handlers[h].saw.export = plans[handlers[h].on].snapshot
             /\ handlers[h].saw.export \in store
    /\ \A t \in tombstones :
          t.plan \in Plans /\ plans[t.plan] # None /\ plans[t.plan].state = "executed"
    /\ \A t, u \in tombstones : t.plan = u.plan => t = u
    /\ \A p \in Plans :
          plans[p] # None /\ plans[p].state = "executed" => \E t \in tombstones : t.plan = p
    /\ PurgedIsRecoverable

\* A step that leaves the plans, exports and tombstones alone and sends one
\* request anywhere but to its purge keeps RetentionInv.
LEMMA RetentionFrame ==
    ASSUME TeamTypes, RetentionInv, NEW h \in Handlers, NEW r, r.op # "purge",
           handlers' = [handlers EXCEPT ![h] = r], UNCHANGED <<plans, store, tombstones>>
    PROVE  RetentionInv'
<1>1. \A g \in Handlers : handlers'[g].op = "purge" => handlers'[g] = handlers[g]
  BY DEF TeamTypes
<1> QED
  BY <1>1 DEF RetentionInv, PurgedIsRecoverable

\* A scheduled plan may be closed without executing it: no tombstone is its.
LEMMA CloseFrame ==
    ASSUME TeamTypes, RetentionInv, NEW h \in Handlers, handlers' = [handlers EXCEPT ![h] = Idle],
           NEW p \in Plans, plans[p] # None, plans[p].state = "scheduled",
           NEW st \in {"cancelled", "blocked"}, plans' = [plans EXCEPT ![p].state = st],
           UNCHANGED <<store, tombstones>>
    PROVE  RetentionInv'
<1> USE NoneAssumption
<1>1. \A g \in Handlers : handlers'[g].op = "purge" => handlers'[g] = handlers[g]
  BY DEF TeamTypes, Idle
<1>2. plans[p] \in PlanRows
  BY DEF TeamTypes, TypeOK
<1>3. [plans[p] EXCEPT !.state = st] \in PlanRows
  BY <1>2 DEF PlanRows
<1>4. plans'[p] = [plans[p] EXCEPT !.state = st] /\ \A q \in Plans \ {p} : plans'[q] = plans[q]
  BY DEF TeamTypes, TypeOK
<1>5. plans'[p] # None
  BY <1>3, <1>4
<1>6. plans'[p].state = st /\ plans'[p].snapshot = plans[p].snapshot
  BY <1>2, <1>4 DEF PlanRows
<1>7. \A g \in Handlers : handlers[g].op = "purge" => handlers[g].on \in Plans
  BY DEF TeamTypes, Subject
<1>8. \A t \in tombstones : t.plan \in Plans \ {p}
  BY DEF RetentionInv
<1>9. ASSUME NEW g \in Handlers, handlers'[g].op = "purge"
      PROVE  /\ plans'[handlers'[g].on] # None
             /\ handlers'[g].saw.export = plans'[handlers'[g].on].snapshot
             /\ handlers'[g].saw.export \in store'
  BY <1>1, <1>4, <1>5, <1>6, <1>7, <1>9 DEF RetentionInv
<1>10. \A q \in Plans : plans'[q] # None /\ plans'[q].state = "executed" => \E t \in tombstones' : t.plan = q
  BY <1>4, <1>6 DEF RetentionInv
<1>11. PurgedIsRecoverable'
  BY DEF RetentionInv, PurgedIsRecoverable
<1> QED
  BY <1>4, <1>8, <1>9, <1>10, <1>11 DEF RetentionInv

\* Every step keeps RetentionInv.
LEMMA RetentionStep == TeamTypes /\ RetentionInv /\ [Next]_vars => RetentionInv'
<1> SUFFICES ASSUME TeamTypes, RetentionInv, [Next]_vars
             PROVE  RetentionInv'
  OBVIOUS
<1> USE NoneAssumption
<1>1. CASE UNCHANGED vars
  BY <1>1 DEF vars, RetentionInv, PurgedIsRecoverable
<1>2. CASE Tick \/ (\E l \in Logins : StartLogin(l)) \/ (\E s \in Sessions : Logout(s))
  <2>1. UNCHANGED <<plans, store, tombstones, handlers>>
    BY <1>2 DEF Tick, StartLogin, Logout
  <2> QED
    BY <2>1 DEF RetentionInv, PurgedIsRecoverable
<1>3. ASSUME NEW h \in Handlers, HandlerStep(h)
      PROVE  RetentionInv'
  <2>0. handlers[h] \in Requests /\ Subject(handlers[h])
    BY DEF TeamTypes
  <2>1. Idle.op # "purge"
    BY DEF Idle
  <2>2. ASSUME NEW l \in Logins, CallbackRead(h, l)
        PROVE  RetentionInv'
    BY <2>2, RetentionFrame DEF CallbackRead, Step
  <2>3. CASE CallbackConsume(h)
    <3>1. [handlers[h] EXCEPT !.op = "session"].op # "purge"
      BY <2>0 DEF Requests
    <3> QED
      BY <2>1, <2>3, <3>1, RetentionFrame DEF CallbackConsume, Step
  <2>4. CASE MembershipCheck(h)
    <3>1. [handlers[h] EXCEPT !.op = "grant"].op # "purge"
      BY <2>0 DEF Requests
    <3> QED
      BY <2>1, <2>4, <3>1, RetentionFrame DEF MembershipCheck, Step
  <2>5. ASSUME NEW s \in Sessions, Request(h, s)
        PROVE  RetentionInv'
    <3>1. PICK op, on : /\ op \in {"member", "settings", "key", "schedule", "cancel", "execute"}
                        /\ Authorise(h, s, op, on)
      BY <2>5 DEF Request
    <3> QED
      BY <3>1, RetentionFrame DEF Authorise, Step
  <2>6. CASE \/ \E s \in Sessions, u \in Users, prior \in Sessions \cup {None} :
                   CallbackSession(h, s, u, prior)
             \/ \E role \in Roles : SetMembership(h, role)
             \/ UpdateSettings(h) \/ UseKey(h) \/ Abandon(h)
    <3>1. handlers' = [handlers EXCEPT ![h] = Idle] /\ UNCHANGED <<plans, store, tombstones>>
      BY <2>6 DEF CallbackSession, SetMembership, UpdateSettings, UseKey, Abandon, Step
    <3> QED
      BY <2>1, <3>1, RetentionFrame
  <2>7. CASE Schedule(h)
    <3>1. PICK p \in Plans : p = handlers[h].on
      BY <2>0, <2>7 DEF Schedule, Step, Subject
    <3>2. PICK row : row = [state |-> "scheduled", snapshot |-> Export, due |-> clock + Grace]
      OBVIOUS
    <3>3. plans[p] = None /\ plans' = [plans EXCEPT ![p] = row] /\ UNCHANGED <<store, tombstones>>
      BY <2>7, <3>1, <3>2 DEF Schedule
    <3>4. plans'[p] = row /\ \A q \in Plans \ {p} : plans'[q] = plans[q]
      BY <3>3 DEF TeamTypes, TypeOK
    <3>5. row.state = "scheduled"
      BY <3>2
    <3>6. handlers' = [handlers EXCEPT ![h] = Idle]
      BY <2>7 DEF Schedule, Step
    <3>7. \A g \in Handlers : handlers'[g].op = "purge" => handlers'[g] = handlers[g]
      BY <2>1, <3>6 DEF TeamTypes
    <3>8. \A g \in Handlers : handlers[g].op = "purge" => handlers[g].on \in Plans \ {p}
      BY <3>3 DEF TeamTypes, Subject, RetentionInv
    <3>9. \A t \in tombstones : t.plan \in Plans \ {p}
      BY <3>3 DEF RetentionInv
    <3>10. PurgedIsRecoverable'
      BY <3>3 DEF RetentionInv, PurgedIsRecoverable
    <3> QED
      BY <3>3, <3>4, <3>5, <3>7, <3>8, <3>9, <3>10 DEF RetentionInv
  <2>8. CASE Cancel(h)
    <3>1. handlers' = [handlers EXCEPT ![h] = Idle] /\ UNCHANGED <<store, tombstones>>
      BY <2>8 DEF Cancel, Step
    <3>2. CASE Cancellable(handlers[h].on)
      BY <2>0, <2>8, <3>1, <3>2, CloseFrame DEF Cancel, Cancellable, Step, Subject
    <3>3. CASE ~ Cancellable(handlers[h].on)
      BY <2>1, <2>8, <3>1, <3>3, RetentionFrame DEF Cancel
    <3> QED
      BY <3>2, <3>3
  <2>9. CASE ExecuteExport(h)
    <3>1. PICK p \in Plans : p = handlers[h].on
      BY <2>0, <2>9 DEF ExecuteExport, Subject
    <3>2. CASE Due(p, clock) /\ Export = plans[p].snapshot
      <4>1. PICK r : r = [op |-> "purge", on |-> p, saw |-> [now |-> clock, export |-> Export]]
        OBVIOUS
      <4>2. r.op = "purge" /\ r.on = p /\ r.saw.export = Export
        BY <4>1
      <4>3. /\ handlers' = [handlers EXCEPT ![h] = r] /\ store' = store \cup {Export}
            /\ UNCHANGED <<plans, tombstones>>
        BY <2>9, <3>1, <3>2, <4>1 DEF ExecuteExport, Step
      <4>4. handlers'[h] = r /\ \A g \in Handlers \ {h} : handlers'[g] = handlers[g]
        BY <4>3 DEF TeamTypes
      <4>5. PurgedIsRecoverable'
        BY <4>3 DEF RetentionInv, PurgedIsRecoverable
      <4>6. plans[p] # None
        BY <3>2 DEF Due
      <4>7. ASSUME NEW g \in Handlers, handlers'[g].op = "purge"
            PROVE  /\ plans'[handlers'[g].on] # None
                   /\ handlers'[g].saw.export = plans'[handlers'[g].on].snapshot
                   /\ handlers'[g].saw.export \in store'
        BY <3>2, <4>2, <4>3, <4>4, <4>6, <4>7 DEF RetentionInv
      <4> QED
        BY <4>3, <4>5, <4>7 DEF RetentionInv
    <3>3. CASE Due(p, clock) /\ Export # plans[p].snapshot
      BY <2>9, <3>1, <3>3, CloseFrame DEF ExecuteExport, Due, Step
    <3>4. CASE ~ Due(p, clock)
      BY <2>1, <2>9, <3>1, <3>4, RetentionFrame DEF ExecuteExport, Step
    <3> QED
      BY <3>2, <3>3, <3>4
  <2>10. CASE ExecutePurge(h)
    <3>1. PICK p \in Plans : p = handlers[h].on
      BY <2>0, <2>10 DEF ExecutePurge, Step, Subject
    <3>2. PICK now : now = handlers[h].saw.now
      OBVIOUS
    <3>3. handlers[h].op = "purge" /\ handlers' = [handlers EXCEPT ![h] = Idle] /\ store' = store
      BY <2>10 DEF ExecutePurge, Step
    <3>4. CASE StillDue(p, now) /\ StillCurrent(p) /\ retention # None
      <4>1. PICK export : export = handlers[h].saw.export
        OBVIOUS
      <4>2. Purge(p, now, export)
        BY <2>10, <3>1, <3>2, <3>4, <4>1 DEF ExecutePurge
      <4>3. export \in store /\ export = Export
        BY <3>1, <3>3, <3>4, <4>1 DEF RetentionInv, StillCurrent
      <4>4. PICK tomb : /\ tomb = [id |-> Cardinality(tombstones), plan |-> p, export |-> export, now |-> now,
                                   purged |-> {<<k, records[k]>> : k \in {j \in Keys : Expired(j, now)}}]
                        /\ tombstones' = tombstones \cup {tomb}
        BY <4>2 DEF Purge
      <4>5. tomb.plan = p /\ tomb.export = export /\ tomb.now = now
        BY <4>4
      <4>6. tomb.purged = {<<k, records[k]>> : k \in {j \in Keys : Expired(j, now)}}
        BY <4>4
      <4>7. ASSUME NEW entry \in tomb.purged
            PROVE  /\ tomb.export.records[entry[1]] = entry[2]
                   /\ tomb.export.retention # None
                   /\ entry[2] < tomb.now - tomb.export.retention
        <5>1. PICK k \in Keys : Expired(k, now) /\ entry = <<k, records[k]>>
          BY <4>6, <4>7
        <5>2. tomb.export.records = records /\ tomb.export.retention = retention
          BY <4>3, <4>5 DEF Export
        <5> QED
          BY <3>4, <4>5, <5>1, <5>2 DEF Expired
      <4>8. PurgedIsRecoverable'
        BY <3>3, <4>3, <4>4, <4>5, <4>7 DEF RetentionInv, PurgedIsRecoverable
      <4>9. plans[p] # None /\ plans[p].state = "scheduled"
        BY <3>4 DEF StillDue, Due
      <4>10. plans[p] \in PlanRows
        BY <4>9 DEF TeamTypes, TypeOK
      <4>11. /\ plans'[p] = [plans[p] EXCEPT !.state = "executed"]
             /\ \A q \in Plans \ {p} : plans'[q] = plans[q]
        BY <4>2 DEF Purge, TeamTypes, TypeOK
      <4>12. plans'[p] \in PlanRows /\ plans'[p].state = "executed" /\ plans'[p].snapshot = plans[p].snapshot
        BY <4>10, <4>11 DEF PlanRows
      <4>13. plans'[p] # None
        BY <4>12
      <4>14. \A t \in tombstones : t.plan \in Plans \ {p}
        BY <4>9 DEF RetentionInv
      <4>15. \A g \in Handlers : handlers'[g].op = "purge" => handlers'[g] = handlers[g] /\ handlers[g].on \in Plans
        BY <2>1, <3>3 DEF TeamTypes, Subject
      <4>16. ASSUME NEW g \in Handlers, handlers'[g].op = "purge"
             PROVE  /\ plans'[handlers'[g].on] # None
                    /\ handlers'[g].saw.export = plans'[handlers'[g].on].snapshot
                    /\ handlers'[g].saw.export \in store'
        <5>1. PICK q \in Plans : q = handlers'[g].on /\ q = handlers[g].on
          BY <4>15, <4>16
        <5>2. plans[q] # None /\ handlers'[g].saw.export = plans[q].snapshot /\ handlers'[g].saw.export \in store
          BY <4>15, <4>16, <5>1 DEF RetentionInv
        <5>3. plans'[q] # None /\ plans'[q].snapshot = plans[q].snapshot
          BY <4>11, <4>12, <4>13, <5>2
        <5> QED
          BY <3>3, <5>1, <5>2, <5>3
      <4>17. \A t \in tombstones' :
                t.plan \in Plans /\ plans'[t.plan] # None /\ plans'[t.plan].state = "executed"
        <5>1. ASSUME NEW t \in tombstones
              PROVE  t.plan \in Plans /\ plans'[t.plan] # None /\ plans'[t.plan].state = "executed"
          <6>1. t.plan \in Plans \ {p} /\ plans[t.plan] # None /\ plans[t.plan].state = "executed"
            BY <4>14 DEF RetentionInv
          <6> QED
            BY <4>11, <6>1
        <5>2. p \in Plans /\ plans'[p] # None /\ plans'[p].state = "executed"
          BY <4>12, <4>13
        <5> QED
          BY <4>4, <4>5, <5>1, <5>2
      <4>18. \A t, u \in tombstones' : t.plan = u.plan => t = u
        BY <4>4, <4>5, <4>14 DEF RetentionInv
      <4>19. \A q \in Plans : plans'[q] # None /\ plans'[q].state = "executed" => \E t \in tombstones' : t.plan = q
        BY <4>4, <4>5, <4>11 DEF RetentionInv
      <4> QED
        BY <4>8, <4>16, <4>17, <4>18, <4>19 DEF RetentionInv
    <3>5. CASE StillDue(p, now) /\ ~ StillCurrent(p)
      BY <2>10, <3>1, <3>2, <3>3, <3>5, CloseFrame DEF ExecutePurge, StillDue, Due
    <3>6. CASE ~ StillDue(p, now) \/ (StillCurrent(p) /\ retention = None)
      BY <2>1, <2>10, <3>1, <3>2, <3>3, <3>6, RetentionFrame DEF ExecutePurge
    <3> QED
      BY <3>4, <3>5, <3>6
  <2> QED
    BY <1>3, <2>2, <2>3, <2>4, <2>5, <2>6, <2>7, <2>8, <2>9, <2>10 DEF HandlerStep
<1> QED
  BY <1>1, <1>2, <1>3 DEF Next

-----------------------------------------------------------------------------
(* The properties                                                          *)

\* One session per login, from what LoginInv says of pairs of sessions.
LEMMA OncePerLogin == TeamTypes /\ LoginInv => LoginUsedOnce
<1> SUFFICES ASSUME TeamTypes, LoginInv, NEW l \in Logins
             PROVE  LET from == {s \in Sessions : sessions[s] # None /\ sessions[s].login = l} IN
                    Cardinality(from) <= 1 /\ (from # {} => logins[l].consumed)
  BY DEF LoginUsedOnce
<1> DEFINE from == {s \in Sessions : sessions[s] # None /\ sessions[s].login = l}
<1>1. from # {} => logins[l].consumed
  BY DEF LoginInv
<1>2. from = {} \/ \E s \in from : from = {s}
  BY DEF LoginInv
<1>3. Cardinality(from) <= 1
  <2> HIDE DEF from
  <2>1. CASE from = {}
    BY <2>1, FS_EmptySet
  <2>2. CASE \E s \in from : from = {s}
    <3>1. Cardinality(from) = 1
      BY <2>2, FS_Singleton
    <3> QED
      BY <3>1
  <2> QED
    BY <1>2, <2>1, <2>2
<1> QED
  BY <1>1, <1>3

\* One tombstone per executed plan, from what RetentionInv says of pairs.
LEMMA OncePerPlan == RetentionInv => ExecutedOnce
<1> SUFFICES ASSUME RetentionInv, NEW p \in Plans
             PROVE  Cardinality({t \in tombstones : t.plan = p}) =
                       IF plans[p] # None /\ plans[p].state = "executed" THEN 1 ELSE 0
  BY DEF ExecutedOnce
<1> DEFINE of == {t \in tombstones : t.plan = p}
<1>1. CASE plans[p] # None /\ plans[p].state = "executed"
  <2>1. \E t \in of : of = {t}
    BY <1>1 DEF RetentionInv
  <2>2. Cardinality(of) = 1
    <3> HIDE DEF of
    <3> QED
      BY <2>1, FS_Singleton
  <2> QED
    BY <1>1, <2>2
<1>2. CASE ~ (plans[p] # None /\ plans[p].state = "executed")
  <2>1. of = {}
    BY <1>2 DEF RetentionInv
  <2>2. Cardinality(of) = 0
    <3> HIDE DEF of
    <3> QED
      BY <2>1, FS_EmptySet
  <2> QED
    BY <1>2, <2>2
<1> QED
  BY <1>1, <1>2

\* The empty deployment has no session, no request and no tombstone.
LEMMA TeamInvariantsStart == Init => LoginInv /\ RetentionInv
  BY DEF Init, LoginInv, RetentionInv, PurgedIsRecoverable, Idle

\* A login never gives two sessions, whichever callbacks race on it, and the
\* rows keep their shapes (consume_login_transaction's conditional UPDATE).
THEOREM LoginsTheorem == TeamSpec => []LoginsAreSound
<1>1. Init => TeamTypes /\ LoginInv
  BY TeamStarts, TeamInvariantsStart
<1>2. TeamTypes /\ LoginInv /\ [Next]_vars => (TeamTypes /\ LoginInv)'
  BY TeamTypesStep, LoginStep
<1>3. TeamTypes /\ LoginInv => LoginsAreSound
  BY OncePerLogin DEF LoginsAreSound, TeamTypes
<1> QED
  BY <1>1, <1>2, <1>3, PTL DEF TeamSpec

\* Whoever executes a deletion plan and however often, its purge happens once
\* (retention.execute's second check under the row lock).
THEOREM ExecutedOnceTheorem == TeamSpec => []ExecutedOnce
<1>1. Init => TeamTypes /\ RetentionInv
  BY TeamStarts, TeamInvariantsStart
<1>2. TeamTypes /\ RetentionInv /\ [Next]_vars => (TeamTypes /\ RetentionInv)'
  BY TeamTypesStep, RetentionStep
<1>3. RetentionInv => ExecutedOnce
  BY OncePerPlan
<1> QED
  BY <1>1, <1>2, <1>3, PTL DEF TeamSpec

\* Every purged record is in an export the store holds and was past the
\* retention period of that export (retention.execute).
THEOREM RecoverableTheorem == TeamSpec => []PurgedIsRecoverable
<1>1. Init => TeamTypes /\ RetentionInv
  BY TeamStarts, TeamInvariantsStart
<1>2. TeamTypes /\ RetentionInv /\ [Next]_vars => (TeamTypes /\ RetentionInv)'
  BY TeamTypesStep, RetentionStep
<1>3. RetentionInv => PurgedIsRecoverable
  BY DEF RetentionInv
<1> QED
  BY <1>1, <1>2, <1>3, PTL DEF TeamSpec

=============================================================================
