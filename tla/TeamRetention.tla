--------------------------- MODULE TeamRetention ---------------------------
(***************************************************************************)
(* A team deployment: OIDC logins and opaque sessions, project roles, and  *)
(* the retention plans an administrator previews, schedules, cancels and   *)
(* executes.  Requests interleave between their transactions; a request    *)
(* may die at any of these points.  The database is PostgreSQL (READ       *)
(* COMMITTED) or SQLite, so a SELECT and the UPDATE after it are separate  *)
(* steps wherever no row is locked between them.                           *)
(*                                                                         *)
(* Executing a plan purges the expired idempotency records of the project  *)
(* after an export of the project's rows was stored and verified.  The     *)
(* rows the purge does not touch are abstracted to a revision number.      *)
(***************************************************************************)
EXTENDS Integers, FiniteSets

CONSTANTS
    Handlers,     \* requests in flight
    Users,        \* identities at the OIDC provider
    Founder,      \* the first administrator
    Logins,       \* login transactions
    Sessions,     \* session tokens
    Keys,         \* idempotency keys
    Plans,        \* deletion plans
    MaxDays,      \* largest retention_days
    Grace,        \* grace period of a plan
    LoginTTL, SessionTTL,
    MaxTime, MaxRevision,
    None

VARIABLES
    clock,
    logins,       \* oidc_login_transactions
    sessions,     \* auth_sessions
    members,      \* project_memberships: the role of an identity
    retention,    \* team_settings.retention_days
    records,      \* idempotency_records: when each key was first used
    revision,     \* the project's other rows
    plans,        \* deletion_plans
    store,        \* exports the artifact store holds
    tombstones,   \* deletion_tombstones
    handlers

project == <<members, retention, records, revision>>
vars == <<clock, logins, sessions, project, plans, store, tombstones, handlers>>

Roles == {"viewer", "reviewer", "operator", "admin"}

Rank == [viewer |-> 0, reviewer |-> 1, operator |-> 2, admin |-> 3]

Idle == [op |-> "idle", on |-> None, saw |-> None]

\* _project_export: every project row the purge could touch, and the rest by
\* its revision.  Its digest is modelled by the snapshot itself.
Export == [members |-> members, retention |-> retention, records |-> records, revision |-> revision]

Init ==
    /\ clock = 0
    /\ logins = [l \in Logins |-> None]
    /\ sessions = [s \in Sessions |-> None]
    /\ members = [u \in Users |-> IF u = Founder THEN "admin" ELSE None]
    /\ retention = None
    /\ records = [k \in Keys |-> None]
    /\ revision = 0
    /\ plans = [p \in Plans |-> None]
    /\ store = {}
    /\ tombstones = {}
    /\ handlers = [h \in Handlers |-> Idle]

Step(h, op, next) ==
    /\ handlers[h].op = op
    /\ handlers' = [handlers EXCEPT ![h] = next]

Tick ==
    /\ clock < MaxTime
    /\ clock' = clock + 1
    /\ UNCHANGED <<logins, sessions, project, plans, store, tombstones, handlers>>

-----------------------------------------------------------------------------
(* Logging in and out                                                      *)

StartLogin(l) ==
    /\ logins[l] = None
    /\ logins' = [logins EXCEPT ![l] = [expires |-> clock + LoginTTL, consumed |-> FALSE]]
    /\ UNCHANGED <<clock, sessions, project, plans, store, tombstones, handlers>>

Usable(l) == logins[l] # None /\ ~logins[l].consumed /\ logins[l].expires > clock

\* consume_login_transaction: the SELECT by state and browser binding ...
CallbackRead(h, l) ==
    /\ Usable(l)
    /\ Step(h, "idle", [op |-> "consume", on |-> l, saw |-> None])
    /\ UNCHANGED <<clock, logins, sessions, project, plans, store, tombstones>>

ConsumesAgain(l) == logins[l].expires > clock

\* ... and the conditional UPDATE that decides.
Consumes(l) == Usable(l)

CallbackConsume(h) ==
    LET l == handlers[h].on IN
    /\ handlers[h].op = "consume"
    /\ IF Consumes(l)
       THEN /\ logins' = [logins EXCEPT ![l].consumed = TRUE]
            /\ Step(h, "consume", [handlers[h] EXCEPT !.op = "session"])
       ELSE /\ Step(h, "consume", Idle)
            /\ UNCHANGED logins
    /\ UNCHANGED <<clock, sessions, project, plans, store, tombstones>>

Live(s) == sessions[s] # None /\ ~sessions[s].revoked /\ sessions[s].expires > clock

\* The provider names the identity; the session the browser still had is
\* revoked in the transaction that creates the new one.
CallbackSession(h, s, u, prior) ==
    /\ Step(h, "session", Idle)
    /\ sessions[s] = None
    /\ prior # None => Live(prior)
    /\ sessions' = [t \in Sessions |->
          CASE t = s -> [user |-> u, login |-> handlers[h].on,
                         revoked |-> FALSE, expires |-> clock + SessionTTL]
            [] t = prior -> [sessions[t] EXCEPT !.revoked = TRUE]
            [] OTHER -> sessions[t]]
    /\ UNCHANGED <<clock, logins, project, plans, store, tombstones>>

Logout(s) ==
    /\ Live(s)
    /\ sessions' = [sessions EXCEPT ![s].revoked = TRUE]
    /\ UNCHANGED <<clock, logins, project, plans, store, tombstones, handlers>>

-----------------------------------------------------------------------------
(* Authorised requests                                                     *)

RequiredRole(op) ==
    CASE op \in {"member", "settings", "schedule", "cancel", "execute"} -> "admin"
      [] OTHER -> "operator"

\* enforce_protocol_v1_team_authorization, with the CSRF token in order: the
\* role is read once, here, and the handler runs on it.
Authorise(h, s, op, on) ==
    /\ Live(s)
    /\ members[sessions[s].user] # None
    /\ Rank[members[sessions[s].user]] >= Rank[RequiredRole(op)]
    /\ Step(h, "idle", [op |-> op, on |-> on, saw |-> sessions[s].user])
    /\ UNCHANGED <<clock, logins, sessions, project, plans, store, tombstones>>

\* set_membership reads the administrator's role again before it writes.
MembershipCheck(h) ==
    /\ Step(h, "member",
            IF members[handlers[h].saw] = "admin"
            THEN [handlers[h] EXCEPT !.op = "grant"] ELSE Idle)
    /\ UNCHANGED <<clock, logins, sessions, project, plans, store, tombstones>>

SetMembership(h, role) ==
    /\ Step(h, "grant", Idle)
    /\ members' = [members EXCEPT ![handlers[h].on] = role]
    /\ UNCHANGED <<clock, logins, sessions, retention, records, revision, plans, store, tombstones>>

DaysAccepted(days) == days \in 1..MaxDays

UpdateSettings(h) ==
    /\ Step(h, "settings", Idle)
    /\ retention' = IF DaysAccepted(handlers[h].on) THEN handlers[h].on ELSE retention
    /\ UNCHANGED <<clock, logins, sessions, members, records, revision, plans, store, tombstones>>

\* An operator's request under a key: a new key is recorded with the rows it
\* creates, a known one is replayed.
UseKey(h) ==
    LET k == handlers[h].on IN
    /\ Step(h, "key", Idle)
    /\ revision < MaxRevision
    /\ IF records[k] = None
       THEN /\ records' = [records EXCEPT ![k] = clock]
            /\ revision' = revision + 1
       ELSE UNCHANGED <<records, revision>>
    /\ UNCHANGED <<clock, logins, sessions, members, retention, plans, store, tombstones>>

\* schedule: the snapshot in the body is the current preview's, and its
\* confirmation token goes with it.
Schedule(h) ==
    LET p == handlers[h].on IN
    /\ Step(h, "schedule", Idle)
    /\ plans[p] = None
    /\ plans' = [plans EXCEPT ![p] =
          [state |-> "scheduled", snapshot |-> Export, due |-> clock + Grace]]
    /\ UNCHANGED <<clock, logins, sessions, project, store, tombstones>>

Cancellable(p) == plans[p] # None /\ plans[p].state = "scheduled" /\ plans[p].due > clock

Cancel(h) ==
    LET p == handlers[h].on IN
    /\ Step(h, "cancel", Idle)
    /\ plans' = IF Cancellable(p) THEN [plans EXCEPT ![p].state = "cancelled"] ELSE plans
    /\ UNCHANGED <<clock, logins, sessions, project, store, tombstones>>

Due(p, now) == plans[p] # None /\ plans[p].state = "scheduled" /\ plans[p].due <= now

\* execute, before its transaction: a plan whose snapshot is stale is blocked,
\* otherwise the export is stored and read back.  `now` is kept.
ExecuteExport(h) ==
    LET p == handlers[h].on IN
    /\ handlers[h].op = "execute"
    /\ \/ /\ Due(p, clock) /\ Export = plans[p].snapshot
          /\ Step(h, "execute", [op |-> "purge", on |-> p,
                                 saw |-> [now |-> clock, export |-> Export]])
          /\ store' = store \cup {Export}
          /\ UNCHANGED plans
       \/ /\ Due(p, clock) /\ Export # plans[p].snapshot
          /\ Step(h, "execute", Idle)
          /\ plans' = [plans EXCEPT ![p].state = "blocked"]
          /\ UNCHANGED store
       \/ /\ ~Due(p, clock)
          /\ Step(h, "execute", Idle)
          /\ UNCHANGED <<plans, store>>
    /\ UNCHANGED <<clock, logins, sessions, project, tombstones>>

Expired(k, now) == records[k] # None /\ records[k] < now - retention

\* Every predicate is checked again under the row lock: the plan may have been
\* executed by another request, or the project may have changed.
AnyPlan(p, now) == plans[p] # None

StillDue(p, now) == Due(p, now)

AnySnapshot(p) == TRUE

StillCurrent(p) == Export = plans[p].snapshot

Purge(p, now, export) ==
    /\ plans' = [plans EXCEPT ![p].state = "executed"]
    /\ records' = [k \in Keys |-> IF Expired(k, now) THEN None ELSE records[k]]
    /\ tombstones' = tombstones \cup
          {[id |-> Cardinality(tombstones), plan |-> p, export |-> export, now |-> now,
            purged |-> {<<k, records[k]>> : k \in {j \in Keys : Expired(j, now)}}]}

ExecutePurge(h) ==
    LET p == handlers[h].on
        now == handlers[h].saw.now
    IN  /\ Step(h, "purge", Idle)
        /\ \/ /\ StillDue(p, now) /\ StillCurrent(p) /\ retention # None
              /\ Purge(p, now, handlers[h].saw.export)
           \/ /\ StillDue(p, now) /\ ~StillCurrent(p)
              /\ plans' = [plans EXCEPT ![p].state = "blocked"]
              /\ UNCHANGED <<records, tombstones>>
           \/ /\ ~StillDue(p, now) \/ (StillCurrent(p) /\ retention = None)
              /\ UNCHANGED <<plans, records, tombstones>>
        /\ UNCHANGED <<clock, logins, sessions, members, retention, revision, store>>

\* A request fails, or its process dies, between two steps.
Abandon(h) ==
    /\ handlers[h].op # "idle"
    /\ handlers' = [handlers EXCEPT ![h] = Idle]
    /\ UNCHANGED <<clock, logins, sessions, project, plans, store, tombstones>>

-----------------------------------------------------------------------------
Request(h, s) ==
    \/ \E u \in Users : Authorise(h, s, "member", u)
    \/ \E days \in 0..MaxDays + 1 : Authorise(h, s, "settings", days)
    \/ \E k \in Keys : Authorise(h, s, "key", k)
    \/ \E p \in Plans, op \in {"schedule", "cancel", "execute"} : Authorise(h, s, op, p)

HandlerStep(h) ==
    \/ \E l \in Logins : CallbackRead(h, l)
    \/ CallbackConsume(h)
    \/ \E s \in Sessions, u \in Users, prior \in Sessions \cup {None} :
          CallbackSession(h, s, u, prior)
    \/ \E s \in Sessions : Request(h, s)
    \/ MembershipCheck(h)
    \/ \E role \in Roles : SetMembership(h, role)
    \/ UpdateSettings(h) \/ UseKey(h)
    \/ Schedule(h) \/ Cancel(h) \/ ExecuteExport(h) \/ ExecutePurge(h)
    \/ Abandon(h)

Next ==
    \/ Tick
    \/ \E l \in Logins : StartLogin(l)
    \/ \E s \in Sessions : Logout(s)
    \/ \E h \in Handlers : HandlerStep(h)

TeamSpec == Init /\ [][Next]_vars

-----------------------------------------------------------------------------
(* Properties                                                              *)

Times == 0..(MaxTime + SessionTTL + LoginTTL + Grace)

LoginRows == [expires : Times, consumed : BOOLEAN]

SessionRows == [user : Users, login : Logins, revoked : BOOLEAN, expires : Times]

Exports ==
    [members : [Users -> Roles \cup {None}], retention : 1..MaxDays \cup {None},
     records : [Keys -> 0..MaxTime \cup {None}], revision : 0..MaxRevision]

PlanRows ==
    [state : {"scheduled", "cancelled", "blocked", "executed"}, snapshot : Exports, due : Times]

ASSUME TimingAssumption ==
    /\ MaxDays \in Nat /\ Grace \in Nat /\ LoginTTL \in Nat /\ SessionTTL \in Nat
    /\ MaxTime \in Nat /\ MaxRevision \in Nat

\* None stands for SQL's NULL and for an absent row.
ASSUME NoneAssumption ==
    None \notin Nat \cup Sessions \cup Roles \cup LoginRows \cup PlanRows

\* Types: sessions name the login they came from, plans the snapshot they bind.
TypeOK ==
    /\ clock \in 0..MaxTime
    /\ logins \in [Logins -> LoginRows \cup {None}]
    /\ sessions \in [Sessions -> SessionRows \cup {None}]
    /\ members \in [Users -> Roles \cup {None}]
    /\ retention \in 1..MaxDays \cup {None}
    /\ records \in [Keys -> 0..MaxTime \cup {None}]
    /\ revision \in 0..MaxRevision
    /\ plans \in [Plans -> PlanRows \cup {None}]

\* One login transaction yields at most one session and only once it was
\* consumed, however many callbacks race on it (consume_login_transaction).
LoginUsedOnce ==
    \A l \in Logins :
        LET from == {s \in Sessions : sessions[s] # None /\ sessions[s].login = l} IN
        /\ Cardinality(from) <= 1
        /\ from # {} => logins[l].consumed

\* The rows keep their shapes, and whichever callbacks race (persistence_v1/auth
\* 37) a login never gives two sessions.
LoginsAreSound == TypeOK /\ LoginUsedOnce

\* A plan has exactly one tombstone once it is executed and none before, so two
\* administrators who execute it at once purge once (execute's second check).
ExecutedOnce ==
    \A p \in Plans :
        Cardinality({t \in tombstones : t.plan = p}) =
            IF plans[p] # None /\ plans[p].state = "executed" THEN 1 ELSE 0

\* Whatever was purged can be recovered: the tombstone names a stored export
\* that holds every purged record, and each of them was past the retention
\* period that this very export shows (execute: "project state changed before
\* execution; no records were purged").
PurgedIsRecoverable ==
    \A t \in tombstones :
        /\ t.export \in store
        /\ \A entry \in t.purged :
              /\ t.export.records[entry[1]] = entry[2]
              /\ t.export.retention # None
              /\ entry[2] < t.now - t.export.retention
=============================================================================
