-------------------------- MODULE WorkbenchProofs ---------------------------
(***************************************************************************)
(* Theorems about the parts of the workbench that count: the factor        *)
(* adapter with its episode memory, the in-memory runs and their spending, *)
(* the audit of what those runs store, and the statistical analysis.  Each *)
(* section proves the safety property of one part from an inductive        *)
(* invariant of that part's own specification and carries it over to the   *)
(* composition.  The sections share lemmas on sums over finite sets and on *)
(* ranks in a linear order.                                                *)
(***************************************************************************)
EXTENDS Workbench, TLAPS, FiniteSetTheorems

-----------------------------------------------------------------------------
(***************************************************************************)
(* Induction on the natural numbers in a form the provers can instantiate: *)
(* about a set of numbers, not about a formula.  A set of numbers has a    *)
(* least member because the intervals below its members are ordered by     *)
(* strict inclusion, which is well founded on finite sets.                 *)
(***************************************************************************)
LEMMA LeastNumber ==
  ASSUME NEW S \in SUBSET Nat, S # {}
  PROVE  \E n \in S : \A m \in S : n <= m
<1>1. PICK N \in S : TRUE
  BY Zenon
<1> DEFINE B == 0 .. N
           T == {0 .. n - 1 : n \in S \cap B}
<1>2. IsWellFoundedOn(StrictSubsetOrdering(B), FiniteSubsetsOf(B))
  BY FS_StrictSubsetOrderingWellFounded
<1>3. T \subseteq FiniteSubsetsOf(B) /\ T # {}
  <2>1. \A n \in B : 0 .. n - 1 \in SUBSET B /\ IsFiniteSet(0 .. n - 1)
    BY FS_Interval
  <2> QED
    BY <2>1, <1>1 DEF FiniteSubsetsOf
<1> HIDE DEF T
<1>4. PICK x \in T : \A y \in T : ~ (<<y, x>> \in StrictSubsetOrdering(B))
  BY <1>2, <1>3, WFMin
<1>5. PICK n \in S \cap B : x = 0 .. n - 1
  BY DEF T
<1>6. ASSUME NEW m \in S, m < n
      PROVE  FALSE
  <2>1. 0 .. m - 1 \in T /\ m \in B
    BY <1>5, <1>6 DEF T
  <2>2. 0 .. m - 1 \subseteq 0 .. n - 1 /\ m \in 0 .. n - 1 /\ m \notin 0 .. m - 1
    BY <1>5, <1>6
  <2>3. 0 .. m - 1 \in SUBSET B /\ 0 .. n - 1 \in SUBSET B
    BY <2>1, <1>5
  <2>4. <<0 .. m - 1, 0 .. n - 1>> \in StrictSubsetOrdering(B)
    <3>1. 0 .. m - 1 # 0 .. n - 1
      BY <2>2
    <3> DEFINE a == 0 .. m - 1
               b == 0 .. n - 1
    <3>2. a \in SUBSET B /\ b \in SUBSET B /\ a \subseteq b /\ a # b
      BY <2>2, <2>3, <3>1
    <3> HIDE DEF a, b, B
    <3>3. <<a, b>> \in StrictSubsetOrdering(B)
      BY <3>2 DEF StrictSubsetOrdering
    <3> QED
      BY <3>3 DEF a, b
  <2> QED
    BY <2>1, <2>4, <1>4, <1>5
<1> QED
  BY <1>5, <1>6

LEMMA SetInduction ==
  ASSUME NEW S \in SUBSET Nat, 0 \in S, \A n \in S : n + 1 \in S
  PROVE  S = Nat
<1> SUFFICES ASSUME Nat \ S # {}
             PROVE  FALSE
  BY Zenon
<1>1. PICK n \in Nat \ S : \A m \in Nat \ S : n <= m
  BY LeastNumber, Zenon
<1>2. n # 0 /\ n - 1 \in Nat /\ ~ (n <= n - 1)
  BY <1>1
<1>3. n - 1 \in S
  BY <1>1, <1>2
<1>4. (n - 1) + 1 \in S
  BY <1>3
<1> QED
  BY <1>1, <1>4

\* A finite set of numbers has a greatest member.
LEMMA GreatestNumber ==
  ASSUME NEW S \in SUBSET Int, IsFiniteSet(S), S # {}
  PROVE  \E n \in S : \A m \in S : m <= n
<1> DEFINE Above(n) == {m \in S : m > n}
           T == {Above(n) : n \in S}
<1>1. IsWellFoundedOn(StrictSubsetOrdering(S), FiniteSubsetsOf(S))
  BY FS_StrictSubsetOrderingWellFounded
<1>2. T \subseteq FiniteSubsetsOf(S) /\ T # {}
  <2>1. \A n \in S : Above(n) \in SUBSET S /\ IsFiniteSet(Above(n))
    BY FS_Subset
  <2> QED
    BY <2>1, Zenon DEF FiniteSubsetsOf
<1> HIDE DEF T
<1>3. PICK x \in T : \A y \in T : ~ (<<y, x>> \in StrictSubsetOrdering(S))
  BY <1>1, <1>2, WFMin
<1>4. PICK n \in S : x = Above(n)
  BY DEF T
<1>5. ASSUME NEW m \in S, m > n
      PROVE  FALSE
  <2>1. Above(m) \in T
    BY DEF T
  <2>2. Above(m) \subseteq Above(n) /\ m \in Above(n) /\ m \notin Above(m)
    <3>1. m \in Int /\ n \in Int /\ m > n /\ ~ (m > m)
      BY <1>5
    <3>2. \A k \in S : k > m => k > n
      BY <3>1
    <3> QED
      BY <3>1, <3>2, Zenon
  <2>3. Above(m) \in SUBSET S /\ Above(n) \in SUBSET S
    OBVIOUS
  <2>4. <<Above(m), Above(n)>> \in StrictSubsetOrdering(S)
    <3> DEFINE a == Above(m)
               b == Above(n)
    <3>2. a \in SUBSET S /\ b \in SUBSET S /\ a \subseteq b /\ a # b
      BY <2>2, <2>3
    <3> HIDE DEF a, b
    <3>3. <<a, b>> \in StrictSubsetOrdering(S)
      BY <3>2, Zenon DEF StrictSubsetOrdering
    <3> QED
      BY <3>3 DEF a, b
  <2> QED
    BY <2>1, <2>4, <1>3, <1>4
<1> QED
  BY <1>4, <1>5

\* A recursive function has to be shown to exist before it can be unfolded:
\* the prefix sums of a sequence.
Accumulates(v, N, g) == g = [n \in 0 .. N |-> IF n = 0 THEN 0 ELSE g[n - 1] + v[n]]
PrefixSums(v, N) == CHOOSE g : Accumulates(v, N, g)

LEMMA PrefixSumsExist ==
  ASSUME NEW N \in Nat, NEW v, \A n \in 1 .. N : v[n] \in Int
  PROVE  Accumulates(v, N, PrefixSums(v, N)) /\ PrefixSums(v, N) \in [0 .. N -> Int]
<1> DEFINE Sums(m, g) == /\ g \in [0 .. m -> Int]
                         /\ \A n \in 0 .. m : g[n] = IF n = 0 THEN 0 ELSE g[n - 1] + v[n]
           S == {m \in Nat : m <= N => \E g : Sums(m, g)}
<1>1. 0 \in S
  <2> DEFINE g == [n \in 0 .. 0 |-> 0]
  <2>1. Sums(0, g)
    OBVIOUS
  <2> QED
    BY <2>1, Zenon
<1>2. ASSUME NEW m \in S PROVE m + 1 \in S
  <2>0. m \in Nat /\ m + 1 \in Nat /\ (m + 1 <= N => m <= N)
    OBVIOUS
  <2> HIDE DEF Sums
  <2> SUFFICES ASSUME m + 1 <= N PROVE \E g : Sums(m + 1, g)
    BY <2>0
  <2>1. PICK g : Sums(m, g)
    BY <2>0
  <2> USE DEF Sums
  <2>a. g[m] \in Int /\ v[m + 1] \in Int
    BY <2>0, <2>1
  <2>2. PICK x : x = g[m] + v[m + 1]
    OBVIOUS
  <2>b. x \in Int
    BY <2>2, <2>a
  <2> DEFINE h == [n \in 0 .. m + 1 |-> IF n = m + 1 THEN x ELSE g[n]]
  <2>3. h \in [0 .. m + 1 -> Int] /\ h[m + 1] = x /\ \A n \in 0 .. m : h[n] = g[n]
    BY <2>0, <2>1, <2>b
  <2>4. ASSUME NEW n \in 0 .. m + 1
        PROVE  h[n] = IF n = 0 THEN 0 ELSE h[n - 1] + v[n]
    <3> HIDE DEF h
    <3>1. CASE n = m + 1
      BY <3>1, <2>2, <2>3
    <3>2. CASE n \in 0 .. m
      BY <3>2, <2>1, <2>3
    <3> QED
      BY <3>1, <3>2
  <2> HIDE DEF h
  <2>5. Sums(m + 1, h)
    BY <2>3, <2>4
  <2> QED
    BY <2>5, Zenon
<1>3. S = Nat
  <2>1. S \in SUBSET Nat
    OBVIOUS
  <2> HIDE DEF S
  <2> QED
    BY <1>1, <1>2, <2>1, SetInduction
<1>a. N \in S /\ N <= N
  BY <1>3
<1>b. \E g : Sums(N, g)
  <2> HIDE DEF Sums
  <2> QED
    BY <1>a
<1>4. PICK g : Sums(N, g)
  BY <1>b, Zenon
<1>5. Accumulates(v, N, g)
  BY <1>4 DEF Accumulates
<1>6. Accumulates(v, N, PrefixSums(v, N))
  BY <1>5 DEF PrefixSums
<1>7. PICK h : h = PrefixSums(v, N)
  OBVIOUS
<1>8. /\ h = [n \in 0 .. N |-> h[n]]
      /\ \A n \in 0 .. N : h[n] = IF n = 0 THEN 0 ELSE h[n - 1] + v[n]
  BY <1>6, <1>7, Zenon DEF Accumulates
<1> DEFINE T == {m \in Nat : m <= N => h[m] \in Int}
<1>9. 0 \in T
  BY <1>8
<1>10. ASSUME NEW m \in T PROVE m + 1 \in T
  <2> SUFFICES ASSUME m + 1 <= N PROVE h[m + 1] \in Int
    OBVIOUS
  <2>0. m \in Nat /\ m <= N /\ (m + 1) - 1 = m /\ m + 1 \in 0 .. N /\ m + 1 # 0 /\ m + 1 \in 1 .. N
    OBVIOUS
  <2>1. h[m + 1] = h[m] + v[m + 1]
    BY <2>0, <1>8, Zenon
  <2>2. h[m] \in Int /\ v[m + 1] \in Int
    BY <2>0
  <2> QED
    BY <2>1, <2>2
<1>11. T = Nat
  <2>1. T \in SUBSET Nat
    OBVIOUS
  <2> HIDE DEF T
  <2> QED
    BY <1>9, <1>10, <2>1, SetInduction
<1>12. \A n \in 0 .. N : h[n] \in Int
  BY <1>11
<1> QED
  BY <1>6, <1>7, <1>8, <1>12

-----------------------------------------------------------------------------
(***************************************************************************)
(* What the proofs need of sequences.  The provers know these facts one by *)
(* one; cited by name they can be instantiated inside larger steps.        *)
(***************************************************************************)
LEMMA SeqUnfolds == \A S : Seq(S) = UNION {[1 .. n -> S] : n \in Nat}
  OBVIOUS

LEMMA SeqWidens ==
  ASSUME NEW A, NEW B, A \subseteq B, NEW q \in Seq(A)
  PROVE  q \in Seq(B)
  OBVIOUS

LEMMA SeqMember ==
  ASSUME NEW A, NEW q \in Seq(A), NEW k \in 1 .. Len(q)
  PROVE  q[k] \in A
  OBVIOUS

LEMMA SeqEmpty ==
  ASSUME NEW A
  PROVE  <<>> \in Seq(A) /\ Len(<<>>) = 0 /\ (\A q \in Seq(A) : q # <<>> => Len(q) \in Nat \ {0})
  OBVIOUS

LEMMA SeqShape ==
  ASSUME NEW A, NEW q \in Seq(A)
  PROVE  Len(q) \in Nat /\ q \in [1 .. Len(q) -> A] /\ DOMAIN q = 1 .. Len(q)
  OBVIOUS

LEMMA SeqExcept ==
  ASSUME NEW A, NEW q \in Seq(A), NEW k \in 1 .. Len(q), NEW v \in A
  PROVE  /\ [q EXCEPT ![k] = v] \in Seq(A)
         /\ Len([q EXCEPT ![k] = v]) = Len(q)
         /\ \A j \in 1 .. Len(q) : [q EXCEPT ![k] = v][j] = IF j = k THEN v ELSE q[j]
  OBVIOUS

LEMMA SeqAppend ==
  ASSUME NEW A, NEW q \in Seq(A), NEW v \in A
  PROVE  /\ Append(q, v) \in Seq(A) /\ Append(q, v) # <<>>
         /\ Len(Append(q, v)) = Len(q) + 1
         /\ \A k \in 1 .. Len(q) : Append(q, v)[k] = q[k]
         /\ Append(q, v)[Len(q) + 1] = v
  OBVIOUS

LEMMA SeqJoin ==
  ASSUME NEW A, NEW p \in Seq(A), NEW q \in Seq(A)
  PROVE  /\ p \o q \in Seq(A) /\ Len(p \o q) = Len(p) + Len(q)
         /\ \A k \in 1 .. Len(p) + Len(q) : (p \o q)[k] = IF k <= Len(p) THEN p[k] ELSE q[k - Len(p)]
  OBVIOUS

LEMMA SeqJoinEmpty ==
  ASSUME NEW A, NEW q \in Seq(A)
  PROVE  q \o <<>> = q /\ <<>> \o q = q
  OBVIOUS

LEMMA SeqCut ==
  ASSUME NEW A, NEW q, NEW m \in Int, NEW n \in Int, \A k \in m .. n : q[k] \in A
  PROVE  /\ SubSeq(q, m, n) \in Seq(A)
         /\ Len(SubSeq(q, m, n)) = IF m <= n THEN n - m + 1 ELSE 0
         /\ \A k \in 1 .. n - m + 1 : SubSeq(q, m, n)[k] = q[m + k - 1]
  OBVIOUS

-----------------------------------------------------------------------------
(***************************************************************************)
(* The factor adapter.  Whoever runs the decorated adapter holds the lock  *)
(* and finds no result, so a result that was announced is never replaced.  *)
(***************************************************************************)
FactorResults == BaseOutcomes \union {Held, NoResult}
FactorReports == [session : Nat]
Running(c) == caller[c].pc \in {"base", "finalize"}

FactorTypes ==
    /\ attempt \in [session : Nat, arm : Arms \union {[f \in FactorIds |-> FALSE]}, result : FactorResults,
                    report : FactorReports, done : BOOLEAN, locked : BOOLEAN, cancelled : BOOLEAN,
                    cleaned : BOOLEAN]
    /\ caller \in [Callers -> [pc : {"idle", "lock", "base", "finalize"}, result : FactorResults]]

\* The lock and what is stored.
LockShape ==
    /\ \A c \in Callers : Running(c) => attempt.locked /\ attempt.result = NoResult
    /\ \A c, d \in Callers : Running(c) /\ Running(d) => c = d
    /\ \A c \in Callers : caller[c].pc = "finalize" => caller[c].result \in BaseOutcomes
    /\ attempt.done => attempt.result # NoResult

\* A stored report is of this preparation, and a completed result has one.
DeliveryShape ==
    /\ attempt.result.outcome = "completed" => attempt.report.session = attempt.session
    /\ attempt.report.session \in {0, attempt.session}

\* What a trace that ended said.
FollowerShape ==
    follower.pc = "ended" => /\ attempt.done /\ follower.outcome = attempt.result.outcome
                             /\ follower.fidelity = (attempt.report # NoReport)

FactorInv == FactorTypes /\ LockShape /\ DeliveryShape /\ FollowerShape

LEMMA FactorStarts == FactorInit => FactorInv
  BY DEF FactorInit, FactorInv, FactorTypes, LockShape, DeliveryShape, FollowerShape, FactorResults, FactorReports,
         Running, Following, NoReport, NoResult

\* Storing a result: the caller held the lock, so nothing was announced before.
LEMMA StoreKeeps ==
  ASSUME FactorInv, NEW c \in Callers, Running(c), NEW result \in FactorResults \ {NoResult},
         NEW given \in FactorReports, Store(c, result, given), UNCHANGED follower,
         result.outcome = "completed" => given.session = attempt.session,
         given.session \in {0, attempt.session}
  PROVE  FactorInv'
<1>1. PICK a : a = [attempt EXCEPT !.result = result, !.report = given, !.done = TRUE, !.locked = FALSE]
  OBVIOUS
<1>2. PICK w : w = [pc |-> "idle", result |-> NoResult]
  BY Zenon
<1>3. attempt' = a /\ caller' = [caller EXCEPT ![c] = w]
  BY <1>1, <1>2 DEF Store
<1>4. /\ a \in [session : Nat, arm : Arms \union {[f \in FactorIds |-> FALSE]}, result : FactorResults,
                report : FactorReports, done : BOOLEAN, locked : BOOLEAN, cancelled : BOOLEAN, cleaned : BOOLEAN]
      /\ a.session = attempt.session /\ a.result = result /\ a.report = given
  BY <1>1, Zenon DEF FactorInv, FactorTypes
<1>5. w \in [pc : {"idle", "lock", "base", "finalize"}, result : FactorResults] /\ w.pc = "idle"
  BY <1>2 DEF FactorResults
<1>6. FactorTypes'
  BY <1>3, <1>4, <1>5 DEF FactorInv, FactorTypes
<1>7. \A d \in Callers : caller'[d] = IF d = c THEN w ELSE caller[d]
  BY <1>3 DEF FactorInv, FactorTypes
<1>8. \A d \in Callers : ~ Running(d)'
  BY <1>5, <1>7 DEF Running, FactorInv, LockShape
<1>9. LockShape'
  BY <1>3, <1>4, <1>8 DEF LockShape, Running
<1>10. follower.pc # "ended"
  BY DEF FactorInv, LockShape, FollowerShape
<1>11. DeliveryShape' /\ FollowerShape'
  BY <1>3, <1>4, <1>10 DEF DeliveryShape, FollowerShape
<1> QED
  BY <1>6, <1>9, <1>11 DEF FactorInv

LEMMA FactorStep == FactorInv /\ [FactorNext]_factorVars => FactorInv'
<1> SUFFICES ASSUME FactorInv, [FactorNext]_factorVars
             PROVE  FactorInv'
  OBVIOUS
<1> DEFINE FactorAttempts == [session : Nat, arm : Arms \union {[f \in FactorIds |-> FALSE]}, result : FactorResults,
                        report : FactorReports, done : BOOLEAN, locked : BOOLEAN, cancelled : BOOLEAN,
                        cleaned : BOOLEAN]
           Calls == [pc : {"idle", "lock", "base", "finalize"}, result : FactorResults]
<1>t. attempt \in FactorAttempts /\ caller \in [Callers -> Calls]
  BY DEF FactorInv, FactorTypes
<1>u. attempt.session \in Nat /\ attempt.report \in FactorReports /\ \A c \in Callers : caller[c] \in Calls
  BY <1>t
<1>1. CASE UNCHANGED factorVars
  BY <1>1 DEF factorVars, FactorInv, FactorTypes, LockShape, DeliveryShape, FollowerShape, Running
<1>2. ASSUME NEW arm \in Arms, NEW profile \in Profiles, NEW initial \in Reports, PrepareAttempt(arm, profile, initial)
      PROVE  FactorInv'
  <2>1. PICK a : a = [session |-> attempt.session + 1, arm |-> arm, result |-> NoResult, report |-> NoReport,
                      done |-> FALSE, locked |-> FALSE, cancelled |-> FALSE, cleaned |-> FALSE]
    BY Zenon
  <2>2. attempt' = a /\ follower' = Following /\ UNCHANGED caller /\ \A c \in Callers : caller[c].pc = "idle"
    BY <1>2, <2>1 DEF PrepareAttempt, CallersIdle
  <2>3. a \in FactorAttempts /\ a.result = NoResult /\ a.report = NoReport /\ a.done = FALSE
    BY <1>u, <2>1 DEF FactorResults, FactorReports, NoReport
  <2>4. follower'.pc = "idle" /\ NoReport.session = 0 /\ NoResult.outcome = "none"
    BY <2>2 DEF Following, NoReport, NoResult
  <2> QED
    BY <1>t, <2>2, <2>3, <2>4 DEF FactorInv, FactorTypes, LockShape, DeliveryShape, FollowerShape, Running
<1>3. ASSUME NEW c \in Callers, Execute(c)
      PROVE  FactorInv'
  <2>1. CASE attempt.result # NoResult /\ attempt' = [attempt EXCEPT !.done = TRUE] /\ UNCHANGED <<caller, follower>>
    <3>1. /\ attempt' \in FactorAttempts /\ attempt'.result = attempt.result /\ attempt'.report = attempt.report
          /\ attempt'.session = attempt.session /\ attempt'.locked = attempt.locked /\ attempt'.done = TRUE
      BY <1>t, <2>1, Zenon
    <3> QED
      BY <1>t, <2>1, <3>1 DEF FactorInv, FactorTypes, LockShape, DeliveryShape, FollowerShape, Running
  <2>2. CASE caller' = [caller EXCEPT ![c].pc = "lock"] /\ UNCHANGED <<attempt, follower>>
    <3>1. PICK w : w = [caller[c] EXCEPT !.pc = "lock"]
      BY Zenon
    <3>2. w \in Calls /\ w.pc = "lock" /\ caller' = [caller EXCEPT ![c] = w]
      BY <1>u, <2>2, <3>1
    <3>3. caller' \in [Callers -> Calls] /\ \A d \in Callers : caller'[d] = IF d = c THEN w ELSE caller[d]
      BY <1>t, <3>2
    <3> QED
      BY <1>t, <2>2, <3>2, <3>3 DEF FactorInv, FactorTypes, LockShape, DeliveryShape, FollowerShape, Running
  <2> QED
    BY <1>3, <2>1, <2>2 DEF Execute
<1>4. ASSUME NEW c \in Callers, TakeExecutionLock(c)
      PROVE  FactorInv'
  <2>0. caller[c].pc = "lock" /\ ~attempt.locked /\ UNCHANGED follower
    BY <1>4 DEF TakeExecutionLock
  <2>1. CASE /\ attempt.result # NoResult /\ attempt' = [attempt EXCEPT !.done = TRUE]
             /\ caller' = [caller EXCEPT ![c].pc = "idle"]
    <3>1. /\ attempt' \in FactorAttempts /\ attempt'.result = attempt.result /\ attempt'.report = attempt.report
          /\ attempt'.session = attempt.session /\ attempt'.locked = attempt.locked /\ attempt'.done = TRUE
      BY <1>t, <2>1, Zenon
    <3>2. PICK w : w = [caller[c] EXCEPT !.pc = "idle"]
      BY Zenon
    <3>3. w \in Calls /\ w.pc = "idle" /\ caller' = [caller EXCEPT ![c] = w]
      BY <1>u, <2>1, <3>2
    <3>4. caller' \in [Callers -> Calls] /\ \A d \in Callers : caller'[d] = IF d = c THEN w ELSE caller[d]
      BY <1>t, <3>3
    <3> QED
      BY <1>t, <2>0, <2>1, <3>1, <3>3, <3>4
      DEF FactorInv, FactorTypes, LockShape, DeliveryShape, FollowerShape, Running
  <2>2. CASE /\ attempt.result = NoResult /\ attempt' = [attempt EXCEPT !.locked = TRUE]
             /\ caller' = [caller EXCEPT ![c].pc = "base"]
    <3>1. /\ attempt' \in FactorAttempts /\ attempt'.result = attempt.result /\ attempt'.report = attempt.report
          /\ attempt'.session = attempt.session /\ attempt'.locked = TRUE /\ attempt'.done = attempt.done
      BY <1>t, <2>2, Zenon
    <3>2. PICK w : w = [caller[c] EXCEPT !.pc = "base"]
      BY Zenon
    <3>3. w \in Calls /\ w.pc = "base" /\ caller' = [caller EXCEPT ![c] = w]
      BY <1>u, <2>2, <3>2
    <3>4. caller' \in [Callers -> Calls] /\ \A d \in Callers : caller'[d] = IF d = c THEN w ELSE caller[d]
      BY <1>t, <3>3
    <3>5. \A d \in Callers : ~Running(d)
      BY <2>0 DEF FactorInv, LockShape
    <3> QED
      BY <1>t, <2>0, <2>2, <3>1, <3>3, <3>4, <3>5
      DEF FactorInv, FactorTypes, LockShape, DeliveryShape, FollowerShape, Running
  <2> QED
    BY <1>4, <2>1, <2>2 DEF TakeExecutionLock
<1>h. Held \in FactorResults \ {NoResult} /\ Held.outcome # "completed"
  BY DEF Held, FactorResults, NoResult
<1>5. ASSUME NEW c \in Callers, BaseAnswers(c)
      PROVE  FactorInv'
  <2>0. Running(c) /\ caller[c].pc = "base" /\ UNCHANGED follower
    BY <1>5 DEF BaseAnswers, Running
  <2>1. ASSUME NEW result \in BaseOutcomes, caller' = [caller EXCEPT ![c] = [pc |-> "finalize", result |-> result]],
               UNCHANGED attempt
        PROVE  FactorInv'
    <3>1. PICK w : w = [pc |-> "finalize", result |-> result]
      BY Zenon
    <3>2. w \in Calls /\ w.pc = "finalize" /\ w.result = result
      BY <3>1 DEF FactorResults
    <3>3. caller' \in [Callers -> Calls] /\ \A d \in Callers : caller'[d] = IF d = c THEN w ELSE caller[d]
      BY <1>t, <2>1, <3>1, <3>2
    <3>4. \A d \in Callers : Running(d)' <=> Running(d)
      BY <2>0, <3>2, <3>3 DEF Running
    <3>5. FactorTypes'
      BY <1>t, <2>1, <3>3 DEF FactorTypes
    <3>6. LockShape'
      BY <2>1, <3>2, <3>3, <3>4 DEF FactorInv, LockShape
    <3>7. DeliveryShape' /\ FollowerShape'
      BY <2>0, <2>1 DEF FactorInv, DeliveryShape, FollowerShape
    <3> QED
      BY <3>5, <3>6, <3>7 DEF FactorInv
  <2>2. CASE Store(c, Held, attempt.report)
    BY <1>h, <1>u, <2>0, <2>2, StoreKeeps DEF FactorInv, DeliveryShape
  <2> QED
    BY <1>5, <2>1, <2>2 DEF BaseAnswers
<1>6. ASSUME NEW c \in Callers, Finalize(c)
      PROVE  FactorInv'
  <2>0. Running(c) /\ caller[c].pc = "finalize" /\ UNCHANGED follower
    BY <1>6 DEF Finalize, Running
  <2>1. CASE Store(c, caller[c].result, [session |-> attempt.session])
    <3>1. PICK r : r = [session |-> attempt.session]
      BY Zenon
    <3>2. r \in FactorReports /\ r.session = attempt.session
      BY <1>u, <3>1 DEF FactorReports
    <3>3. PICK x : x = caller[c].result
      OBVIOUS
    <3>4. x \in FactorResults \ {NoResult}
      BY <2>0, <3>3, FactorAssumption DEF FactorInv, LockShape, FactorResults, NoResult
    <3>5. Store(c, x, r)
      BY <2>1, <3>1, <3>3
    <3> QED
      BY <2>0, <3>2, <3>4, <3>5, StoreKeeps
  <2>2. CASE Store(c, Held, attempt.report)
    BY <1>h, <1>u, <2>0, <2>2, StoreKeeps DEF FactorInv, DeliveryShape
  <2> QED
    BY <1>6, <2>1, <2>2, Zenon DEF Finalize
<1>7. ASSUME NEW c \in Callers, FactorAborted(c)
      PROVE  FactorInv'
  <2>1. PICK l : l = IF caller[c].pc = "lock" THEN attempt.locked ELSE FALSE
    BY Zenon
  <2>2. PICK w : w = [pc |-> "idle", result |-> NoResult]
    BY Zenon
  <2>3. /\ attempt' = [attempt EXCEPT !.locked = l] /\ caller' = [caller EXCEPT ![c] = w] /\ UNCHANGED follower
        /\ caller[c].pc # "idle"
    BY <1>7, <2>1, <2>2 DEF FactorAborted
  <2>4. l \in BOOLEAN
    BY <1>t, <2>1, Zenon
  <2>5. /\ attempt' \in FactorAttempts /\ attempt'.result = attempt.result /\ attempt'.report = attempt.report
        /\ attempt'.session = attempt.session /\ attempt'.locked = l /\ attempt'.done = attempt.done
    BY <1>t, <2>3, <2>4, Zenon
  <2>6. w \in Calls /\ w.pc = "idle"
    BY <2>2 DEF FactorResults
  <2>7. caller' \in [Callers -> Calls] /\ \A d \in Callers : caller'[d] = IF d = c THEN w ELSE caller[d]
    BY <1>t, <2>3, <2>6
  <2>8. \A d \in Callers : Running(d)' => Running(d) /\ d # c
    BY <2>6, <2>7 DEF Running
  <2>9. \A d \in Callers : Running(d)' => attempt'.locked
    <3> SUFFICES ASSUME NEW d \in Callers, Running(d)' PROVE attempt'.locked
      OBVIOUS
    <3>1. Running(d) /\ d # c /\ attempt.locked /\ ~Running(c)
      BY <2>8 DEF FactorInv, LockShape
    <3>2. caller[c].pc = "lock"
      BY <1>u, <2>3, <3>1 DEF Running
    <3> QED
      BY <2>1, <2>5, <3>1, <3>2
  <2>10. FactorTypes'
    BY <2>5, <2>7 DEF FactorTypes
  <2>11. LockShape'
    BY <2>5, <2>6, <2>7, <2>8, <2>9 DEF FactorInv, LockShape
  <2>12. DeliveryShape' /\ FollowerShape'
    BY <2>3, <2>5 DEF FactorInv, DeliveryShape, FollowerShape
  <2> QED
    BY <2>10, <2>11, <2>12 DEF FactorInv
<1>8. CASE Follow \/ FollowFinal \/ FollowAborted
  <2>1. UNCHANGED <<attempt, caller>>
    BY <1>8 DEF Follow, FollowFinal, FollowAborted
  <2>2. FollowerShape'
    <3>1. CASE Follow
      <4>1. follower' = [follower EXCEPT !.pc = "base"] /\ follower.pc = "idle"
        BY <3>1 DEF Follow
      <4>2. follower'.pc # "ended"
        BY <4>1
      <4> QED
        BY <4>2 DEF FollowerShape
    <3>2. CASE FollowFinal
      BY <2>1, <3>2 DEF FollowFinal, FollowerShape
    <3>3. CASE FollowAborted
      BY <3>3 DEF FollowAborted, FollowerShape, Following
    <3> QED
      BY <1>8, <3>1, <3>2, <3>3
  <2> QED
    BY <2>1, <2>2 DEF FactorInv, FactorTypes, LockShape, DeliveryShape, Running
<1>9. CASE CancelFactors \/ CleanupFactors
  <2>1. /\ attempt' \in FactorAttempts /\ attempt'.result = attempt.result /\ attempt'.report = attempt.report
        /\ attempt'.session = attempt.session /\ attempt'.locked = attempt.locked /\ attempt'.done = attempt.done
        /\ UNCHANGED <<caller, follower>>
    BY <1>9, <1>t, Zenon DEF CancelFactors, CleanupFactors
  <2> QED
    BY <1>t, <2>1 DEF FactorInv, FactorTypes, LockShape, DeliveryShape, FollowerShape, Running
<1> QED
  BY <1>1, <1>2, <1>3, <1>4, <1>5, <1>6, <1>7, <1>8, <1>9 DEF FactorNext

\* The factor adapter's part of a behaviour of the workbench.
LEMMA FactorPart == Spec => FactorSpec
<1>1. Init => FactorInit
  BY DEF Init
<1>2. [Next]_vars => [FactorNext]_factorVars
  BY DEF Next, Rest, vars
<1> QED
  BY <1>1, <1>2, PTL DEF Spec, FactorSpec

\* What is stored as completed was delivered in this preparation, and a trace
\* that ended says so.
LEMMA ResultsWereDelivered == Spec => []ResultWasDelivered
<1>1. FactorInv => ResultWasDelivered
  BY DEF FactorInv, DeliveryShape, FollowerShape, ResultWasDelivered
<1> QED
  BY <1>1, FactorStarts, FactorStep, FactorPart, PTL DEF FactorSpec

-----------------------------------------------------------------------------
(***************************************************************************)
(* Sums over finite sets, by induction on the number of members.           *)
(***************************************************************************)
Pick(s) == CHOOSE x \in s : TRUE

\* The members of G have integer terms.
Terms(f, G) == \A x \in G : f[x] \in Int

\* One unfolding of the sum of f over the subsets of G.
Unfolds(f, G, g) == g = [s \in SUBSET G |-> IF s = {} THEN 0 ELSE f[Pick(s)] + g[s \ {Pick(s)}]]

SetSums(f, G) == CHOOSE g : Unfolds(f, G, g)

\* Sums of the subsets with at most n members.
Small(G, n) == {s \in SUBSET G : Cardinality(s) <= n}

SmallSum(f, G, n, g) ==
    /\ g \in [Small(G, n) -> Int]
    /\ \A s \in Small(G, n) : g[s] = IF s = {} THEN 0 ELSE f[Pick(s)] + g[s \ {Pick(s)}]

LEMMA PickOne ==
  ASSUME NEW G, IsFiniteSet(G), NEW s \in SUBSET G, s # {}
  PROVE  /\ Pick(s) \in s /\ s \ {Pick(s)} \in SUBSET G /\ IsFiniteSet(s) /\ IsFiniteSet(s \ {Pick(s)})
         /\ Cardinality(s) \in Nat /\ Cardinality(s \ {Pick(s)}) \in Nat
         /\ Cardinality(s \ {Pick(s)}) = Cardinality(s) - 1
<1>1. Pick(s) \in s
  BY DEF Pick
<1>2. IsFiniteSet(s) /\ Cardinality(s) \in Nat
  BY FS_Subset, FS_CardinalityType
<1> QED
  BY <1>1, <1>2, FS_RemoveElement, FS_CardinalityType

LEMMA NoneSmaller ==
  ASSUME NEW G, IsFiniteSet(G), NEW s \in Small(G, 0)
  PROVE  s = {}
<1>1. s \in SUBSET G /\ Cardinality(s) <= 0 /\ IsFiniteSet(s)
  BY FS_Subset DEF Small
<1>2. Cardinality(s) = 0
  BY <1>1, FS_CardinalityType
<1> QED
  BY <1>1, <1>2, FS_EmptySet

LEMMA SmallSums ==
  ASSUME NEW G, IsFiniteSet(G), NEW f, Terms(f, G), NEW n \in Nat
  PROVE  \E g : SmallSum(f, G, n, g)
<1> DEFINE S == {k \in Nat : \E g : SmallSum(f, G, k, g)}
<1>1. 0 \in S
  <2> DEFINE g == [s \in Small(G, 0) |-> 0]
  <2>1. ASSUME NEW s \in Small(G, 0) PROVE s = {}
    BY NoneSmaller
  <2>2. SmallSum(f, G, 0, g)
    BY <2>1 DEF SmallSum
  <2> QED
    BY <2>2
<1>2. ASSUME NEW k \in S PROVE k + 1 \in S
  <2>1. PICK g : SmallSum(f, G, k, g)
    OBVIOUS
  <2> DEFINE h == [s \in Small(G, k + 1) |-> IF s = {} THEN 0 ELSE f[Pick(s)] + g[s \ {Pick(s)}]]
  <2>2. ASSUME NEW s \in Small(G, k + 1), s # {}
        PROVE  s \ {Pick(s)} \in Small(G, k) /\ s \ {Pick(s)} \in Small(G, k + 1)
    <3>1. s \in SUBSET G /\ Cardinality(s) <= k + 1
      BY DEF Small
    <3>2. PICK c, d : c = Cardinality(s) /\ d = Cardinality(s \ {Pick(s)})
      OBVIOUS
    <3>3. c \in Nat /\ d \in Nat /\ d = c - 1 /\ s \ {Pick(s)} \in SUBSET G
      BY <2>2, <3>1, <3>2, PickOne, Zenon
    <3>4. k \in Nat /\ c <= k + 1
      BY <3>1, <3>2
    <3>5. d <= k /\ d <= k + 1
      BY <3>3, <3>4
    <3> QED
      BY <3>2, <3>3, <3>5 DEF Small
  <2>3. h \in [Small(G, k + 1) -> Int]
    <3> SUFFICES ASSUME NEW s \in Small(G, k + 1), s # {}
                 PROVE  f[Pick(s)] + g[s \ {Pick(s)}] \in Int
      OBVIOUS
    <3>1. f[Pick(s)] \in Int
      BY PickOne DEF Small, Terms
    <3>2. g[s \ {Pick(s)}] \in Int
      BY <2>1, <2>2 DEF SmallSum
    <3> QED
      BY <3>1, <3>2
  <2>4. ASSUME NEW s \in Small(G, k) PROVE s \in Small(G, k + 1) /\ h[s] = g[s]
    <3>1. s \in Small(G, k + 1)
      <4>1. Cardinality(s) \in Nat /\ Cardinality(s) <= k
        BY FS_Subset, FS_CardinalityType DEF Small
      <4> QED
        BY <4>1 DEF Small
    <3> QED
      BY <2>1, <3>1 DEF SmallSum
  <2>5. \A s \in Small(G, k + 1) : h[s] = IF s = {} THEN 0 ELSE f[Pick(s)] + h[s \ {Pick(s)}]
    BY <2>2, <2>4, Zenon
  <2> HIDE DEF h
  <2>6. SmallSum(f, G, k + 1, h)
    BY <2>3, <2>5, Zenon DEF SmallSum
  <2> QED
    BY <2>6
<1>3. S = Nat
  <2>1. S \in SUBSET Nat
    OBVIOUS
  <2> HIDE DEF S
  <2> QED
    BY <1>1, <1>2, <2>1, SetInduction
<1> QED
  BY <1>3

\* The sum exists, and its terms are its own.
LEMMA SumIs ==
  ASSUME NEW G, IsFiniteSet(G), NEW f, Terms(f, G)
  PROVE  /\ SetSums(f, G) \in [SUBSET G -> Int]
         /\ Unfolds(f, G, SetSums(f, G))
<1>1. Cardinality(G) \in Nat
  BY FS_CardinalityType
<1>2. PICK g : SmallSum(f, G, Cardinality(G), g)
  BY <1>1, SmallSums
<1>3. Small(G, Cardinality(G)) = SUBSET G
  BY FS_Subset DEF Small
<1>4. g = [s \in SUBSET G |-> g[s]]
  BY <1>2, <1>3 DEF SmallSum
<1>5. Unfolds(f, G, g)
  BY <1>2, <1>3, <1>4, Zenon DEF SmallSum, Unfolds
<1>6. Unfolds(f, G, SetSums(f, G))
  BY <1>5 DEF SetSums
<1>7. PICK h : h = SetSums(f, G)
  OBVIOUS
<1>8. \A s \in SUBSET G : h[s] = IF s = {} THEN 0 ELSE f[Pick(s)] + h[s \ {Pick(s)}]
  BY <1>6, <1>7, Zenon DEF Unfolds
<1> DEFINE S == {n \in Nat : \A s \in Small(G, n) : h[s] \in Int}
<1>9. 0 \in S
  <2>1. \A s \in Small(G, 0) : s = {} /\ s \in SUBSET G
    BY NoneSmaller DEF Small
  <2>2. \A s \in Small(G, 0) : h[s] = 0
    BY <2>1, <1>8, Zenon
  <2>3. \A s \in Small(G, 0) : h[s] \in Int
    BY <2>2
  <2> QED
    BY <2>3
<1>10. ASSUME NEW n \in S PROVE n + 1 \in S
  <2> SUFFICES ASSUME NEW s \in Small(G, n + 1) PROVE h[s] \in Int
    OBVIOUS
  <2>1. CASE s = {}
    <3>1. {} \in SUBSET G
      OBVIOUS
    <3>2. h[{}] = 0
      BY <3>1, <1>8, Zenon
    <3> QED
      BY <2>1, <3>2
  <2>2. CASE s # {}
    <3>1. s \in SUBSET G /\ Cardinality(s) <= n + 1
      BY DEF Small
    <3>2. /\ s \ {Pick(s)} \in SUBSET G /\ Cardinality(s) \in Nat /\ f[Pick(s)] \in Int
          /\ Cardinality(s \ {Pick(s)}) = Cardinality(s) - 1
      BY <2>2, <3>1, PickOne, Zenon DEF Terms
    <3>3. s \ {Pick(s)} \in Small(G, n)
      BY <3>1, <3>2 DEF Small
    <3>4. h[s \ {Pick(s)}] \in Int
      BY <3>3
    <3>5. h[s] = f[Pick(s)] + h[s \ {Pick(s)}]
      BY <2>2, <3>1, <1>8
    <3> QED
      BY <3>2, <3>4, <3>5
  <2> QED
    BY <2>1, <2>2
<1>11. S = Nat
  <2>1. S \in SUBSET Nat
    OBVIOUS
  <2> HIDE DEF S
  <2> QED
    BY <1>9, <1>10, <2>1, SetInduction
<1>12. \A s \in SUBSET G : h[s] \in Int
  BY <1>1, <1>3, <1>11
<1>13. h = [s \in SUBSET G |-> h[s]]
  BY <1>6, <1>7 DEF Unfolds
<1> QED
  BY <1>6, <1>7, <1>12, <1>13, Zenon

LEMMA SumStep ==
  ASSUME NEW G, IsFiniteSet(G), NEW f, Terms(f, G), NEW s \in SUBSET G
  PROVE  /\ SetSums(f, G)[s] \in Int
         /\ s = {} => SetSums(f, G)[s] = 0
         /\ s # {} => SetSums(f, G)[s] = f[Pick(s)] + SetSums(f, G)[s \ {Pick(s)}]
<1>1. PICK h : h = SetSums(f, G)
  OBVIOUS
<1>2. h \in [SUBSET G -> Int] /\ Unfolds(f, G, h)
  BY <1>1, SumIs, Zenon
<1>3. h[s] \in Int /\ (s = {} => h[s] = 0) /\ (s # {} => h[s] = f[Pick(s)] + h[s \ {Pick(s)}])
  BY <1>2, Zenon DEF Unfolds
<1> QED
  BY <1>1, <1>3

Below(f, g, s) == \A x \in s : f[x] <= g[x]

\* Smaller terms give a smaller sum.
LEMMA SumCompares ==
  ASSUME NEW G, IsFiniteSet(G), NEW f, Terms(f, G),
         NEW H, IsFiniteSet(H), NEW g, Terms(g, H),
         NEW t \in SUBSET G, t \in SUBSET H, Below(f, g, t)
  PROVE  SetSums(f, G)[t] <= SetSums(g, H)[t]
<1> DEFINE S == {n \in Nat : \A s \in Small(t, n) : SetSums(f, G)[s] <= SetSums(g, H)[s]}
<1>1. IsFiniteSet(t) /\ Cardinality(t) \in Nat
  BY FS_Subset, FS_CardinalityType
<1>2. 0 \in S
  <2>1. ASSUME NEW s \in Small(t, 0) PROVE SetSums(f, G)[s] <= SetSums(g, H)[s]
    <3>1. s = {} /\ s \in SUBSET G /\ s \in SUBSET H
      BY <1>1, NoneSmaller DEF Small
    <3>2. SetSums(f, G)[s] = 0 /\ SetSums(g, H)[s] = 0
      BY <3>1, SumStep, Zenon
    <3> QED
      BY <3>2
  <2> QED
    BY <2>1
<1>3. ASSUME NEW n \in S PROVE n + 1 \in S
  <2> SUFFICES ASSUME NEW s \in Small(t, n + 1) PROVE SetSums(f, G)[s] <= SetSums(g, H)[s]
    OBVIOUS
  <2>0. s \in SUBSET t /\ s \in SUBSET G /\ s \in SUBSET H /\ Cardinality(s) <= n + 1
    BY DEF Small
  <2>1. CASE s = {}
    <3>1. SetSums(f, G)[s] = 0 /\ SetSums(g, H)[s] = 0
      BY <2>0, <2>1, SumStep, Zenon
    <3> QED
      BY <3>1
  <2>2. CASE s # {}
    <3>1. /\ Pick(s) \in s /\ Cardinality(s) \in Nat /\ s \ {Pick(s)} \in SUBSET t
          /\ Cardinality(s \ {Pick(s)}) = Cardinality(s) - 1
      BY <1>1, <2>0, <2>2, PickOne, Zenon
    <3>2. s \ {Pick(s)} \in Small(t, n)
      BY <2>0, <3>1 DEF Small
    <3>3. SetSums(f, G)[s \ {Pick(s)}] <= SetSums(g, H)[s \ {Pick(s)}]
      BY <3>2
    <3>4. /\ SetSums(f, G)[s \ {Pick(s)}] \in Int /\ SetSums(g, H)[s \ {Pick(s)}] \in Int
          /\ f[Pick(s)] \in Int /\ g[Pick(s)] \in Int
      BY <2>0, <3>1, SumStep, Zenon DEF Terms
    <3>5. f[Pick(s)] <= g[Pick(s)]
      BY <2>0, <3>1 DEF Below
    <3>6. /\ SetSums(f, G)[s] = f[Pick(s)] + SetSums(f, G)[s \ {Pick(s)}]
          /\ SetSums(g, H)[s] = g[Pick(s)] + SetSums(g, H)[s \ {Pick(s)}]
      BY <2>0, <2>2, SumStep, ZenonT(40)
    <3> QED
      BY <3>3, <3>4, <3>5, <3>6
  <2> QED
    BY <2>1, <2>2
<1>4. S = Nat
  <2>1. S \in SUBSET Nat
    OBVIOUS
  <2> HIDE DEF S
  <2> QED
    BY <1>2, <1>3, <2>1, SetInduction
<1>5. t \in Small(t, Cardinality(t))
  BY <1>1 DEF Small
<1> QED
  BY <1>1, <1>4, <1>5

\* The order of summation does not matter: any member can be taken out first.
LEMMA SumTakesOut ==
  ASSUME NEW G, IsFiniteSet(G), NEW f, Terms(f, G), NEW t \in SUBSET G, NEW z \in t
  PROVE  SetSums(f, G)[t] = f[z] + SetSums(f, G)[t \ {z}]
<1> DEFINE S == {n \in Nat : \A s \in Small(G, n) : \A y \in s : SetSums(f, G)[s] = f[y] + SetSums(f, G)[s \ {y}]}
<1>1. 0 \in S
  BY NoneSmaller
<1>2. ASSUME NEW n \in S PROVE n + 1 \in S
  <2> SUFFICES ASSUME NEW s \in Small(G, n + 1), NEW y \in s PROVE SetSums(f, G)[s] = f[y] + SetSums(f, G)[s \ {y}]
    OBVIOUS
  <2>0. s \in SUBSET G /\ s # {} /\ Cardinality(s) <= n + 1 /\ IsFiniteSet(s) /\ Cardinality(s) \in Nat
    BY FS_Subset, FS_CardinalityType DEF Small
  <2>1. PICK x : x = Pick(s)
    OBVIOUS
  <2>2. x \in s /\ SetSums(f, G)[s] = f[x] + SetSums(f, G)[s \ {x}]
    BY <2>0, <2>1, PickOne, SumStep
  <2>3. CASE y = x
    BY <2>2, <2>3
  <2>4. CASE y # x
    <3>1. PICK a, b, c : a = s \ {x} /\ b = s \ {y} /\ c = s \ {x, y}
      BY Zenon
    <3>2. /\ a \in SUBSET G /\ b \in SUBSET G /\ c \in SUBSET G
          /\ y \in a /\ x \in b /\ a \ {y} = c /\ b \ {x} = c
      BY <2>0, <2>2, <2>4, <3>1
    <3>3. Cardinality(a) = Cardinality(s) - 1 /\ Cardinality(b) = Cardinality(s) - 1
      BY <2>0, <2>2, <3>1, FS_RemoveElement, Zenon
    <3>4. a \in Small(G, n) /\ b \in Small(G, n)
      BY <2>0, <3>2, <3>3 DEF Small
    <3>5. SetSums(f, G)[a] = f[y] + SetSums(f, G)[c] /\ SetSums(f, G)[b] = f[x] + SetSums(f, G)[c]
      BY <3>2, <3>4
    <3>6. SetSums(f, G)[c] \in Int /\ f[x] \in Int /\ f[y] \in Int
      BY <3>2, <2>0, <2>2, SumStep, Zenon DEF Terms
    <3> QED
      BY <2>2, <3>1, <3>5, <3>6
  <2> QED
    BY <2>3, <2>4
<1>3. S = Nat
  <2>1. S \in SUBSET Nat
    OBVIOUS
  <2> HIDE DEF S
  <2> QED
    BY <1>1, <1>2, <2>1, SetInduction
<1>4. Cardinality(t) \in Nat /\ t \in Small(G, Cardinality(t))
  BY FS_Subset, FS_CardinalityType DEF Small
<1> QED
  BY <1>3, <1>4

\* The sum depends on the terms alone, not on the set in which it is formed.
LEMMA SumDepends ==
  ASSUME NEW G, IsFiniteSet(G), NEW f, Terms(f, G),
         NEW H, IsFiniteSet(H), NEW g, Terms(g, H),
         NEW t \in SUBSET G, t \in SUBSET H, \A x \in t : f[x] = g[x]
  PROVE  SetSums(f, G)[t] = SetSums(g, H)[t]
<1>1. Below(f, g, t) /\ Below(g, f, t)
  BY DEF Below, Terms
<1>2. PICK a, b : a = SetSums(f, G)[t] /\ b = SetSums(g, H)[t]
  OBVIOUS
<1>3. a \in Int /\ b \in Int
  BY <1>2, SumStep, Zenon
<1>4. a <= b
  BY <1>1, <1>2, SumCompares
<1>5. b <= a
  BY <1>1, <1>2, SumCompares
<1> QED
  BY <1>2, <1>3, <1>4, <1>5

\* The sum over two disjoint parts.
Apart(A, B) == \A x \in A : x \notin B

LEMMA SumSplits ==
  ASSUME NEW G, IsFiniteSet(G), NEW f, Terms(f, G), NEW A \in SUBSET G, NEW B \in SUBSET G, Apart(A, B)
  PROVE  SetSums(f, G)[A \cup B] = SetSums(f, G)[A] + SetSums(f, G)[B]
<1> DEFINE S == {n \in Nat : \A s \in Small(B, n) : SetSums(f, G)[A \cup s] = SetSums(f, G)[A] + SetSums(f, G)[s]}
<1>0. IsFiniteSet(B) /\ Cardinality(B) \in Nat
  BY FS_Subset, FS_CardinalityType
<1>1. 0 \in S
  <2> SUFFICES ASSUME NEW s \in Small(B, 0)
               PROVE  SetSums(f, G)[A \cup s] = SetSums(f, G)[A] + SetSums(f, G)[s]
    OBVIOUS
  <2>1. s = {} /\ A \cup s = A /\ s \in SUBSET G
    BY <1>0, NoneSmaller
  <2>2. SetSums(f, G)[s] = 0 /\ SetSums(f, G)[A] \in Int
    BY <2>1, SumStep, Zenon
  <2> QED
    BY <2>1, <2>2
<1>2. ASSUME NEW n \in S PROVE n + 1 \in S
  <2> SUFFICES ASSUME NEW s \in Small(B, n + 1)
               PROVE  SetSums(f, G)[A \cup s] = SetSums(f, G)[A] + SetSums(f, G)[s]
    OBVIOUS
  <2>0. n \in Nat /\ s \in SUBSET B /\ s \in SUBSET G /\ Cardinality(s) <= n + 1
    BY DEF Small
  <2>1. CASE s = {}
    <3>1. A \cup s = A /\ SetSums(f, G)[s] = 0 /\ SetSums(f, G)[A] \in Int
      <4>1. A \cup s = A
        BY <2>1
      <4>2. SetSums(f, G)[s] = 0
        <5>1. s \in SUBSET G => (s = {} => SetSums(f, G)[s] = 0)
          BY SumStep, ZenonT(40)
        <5> QED
          BY <5>1, <2>0, <2>1
      <4>3. SetSums(f, G)[A] \in Int
        BY SumStep, Zenon
      <4> QED
        BY <4>1, <4>2, <4>3
    <3>2. PICK p \in Int : p = SetSums(f, G)[A]
      BY <3>1
    <3>3. PICK w : w = A \cup s
      BY Zenon
    <3>4. w = A /\ p + 0 = p
      BY <3>1, <3>2, <3>3
    <3>5. SetSums(f, G)[w] = p
      BY <3>2, <3>4
    <3> QED
      BY <3>1, <3>2, <3>3, <3>4, <3>5
  <2>2. CASE s # {}
    <3>1. PICK x : x = Pick(s)
      OBVIOUS
    <3>2. PICK u : u = s \ {x}
      BY Zenon
    <3>3. PICK c, d : c = Cardinality(s) /\ d = Cardinality(u)
      OBVIOUS
    <3>4. x \in s /\ u \in SUBSET B /\ c \in Nat /\ d \in Nat /\ d = c - 1
      BY <1>0, <2>0, <2>2, <3>1, <3>2, <3>3, PickOne, Zenon
    <3>5. d <= n
      BY <2>0, <3>3, <3>4
    <3>6. u \in Small(B, n)
      BY <3>3, <3>4, <3>5, Zenon DEF Small
    <3>7. SetSums(f, G)[A \cup u] = SetSums(f, G)[A] + SetSums(f, G)[u]
      BY <3>6
    <3>8. PICK w : w = A \cup s
      BY Zenon
    <3>9. w \in SUBSET G /\ x \in w /\ w \ {x} = A \cup u /\ u \in SUBSET G
      BY <2>0, <3>2, <3>4, <3>8 DEF Apart
    <3>10. SetSums(f, G)[w] = f[x] + SetSums(f, G)[w \ {x}]
      BY <3>9, SumTakesOut
    <3>11. SetSums(f, G)[s] = f[x] + SetSums(f, G)[u]
      BY <2>0, <3>2, <3>4, SumTakesOut
    <3>12. PICK p, q, r : p = SetSums(f, G)[A] /\ q = SetSums(f, G)[u] /\ r = f[x]
      OBVIOUS
    <3>13. p \in Int /\ q \in Int /\ r \in Int
      BY <2>0, <3>4, <3>9, <3>12, SumStep, Zenon DEF Terms
    <3>14. SetSums(f, G)[w] = r + (p + q) /\ SetSums(f, G)[s] = r + q
      BY <3>7, <3>9, <3>10, <3>11, <3>12, Zenon
    <3>15. r + (p + q) = p + (r + q)
      BY <3>13
    <3> QED
      BY <3>8, <3>12, <3>14, <3>15
  <2> QED
    BY <2>1, <2>2
<1>3. S = Nat
  <2>1. S \in SUBSET Nat
    OBVIOUS
  <2> HIDE DEF S
  <2> QED
    BY <1>1, <1>2, <2>1, SetInduction
<1>4. B \in Small(B, Cardinality(B))
  BY <1>0 DEF Small
<1> QED
  BY <1>0, <1>3, <1>4

\* Natural terms have a natural sum.
NatTerms(f, G) == \A x \in G : f[x] \in Nat

LEMMA NatSum ==
  ASSUME NEW G, IsFiniteSet(G), NEW f, NatTerms(f, G)
  PROVE  Terms(f, G) /\ SetSums(f, G)[G] \in Nat
<1>0. Terms(f, G)
  BY DEF Terms, NatTerms
<1> DEFINE S == {n \in Nat : \A s \in Small(G, n) : SetSums(f, G)[s] \in Nat}
<1>1. 0 \in S
  <2>1. ASSUME NEW s \in Small(G, 0) PROVE SetSums(f, G)[s] \in Nat
    <3>1. s = {} /\ s \in SUBSET G
      BY NoneSmaller DEF Small
    <3>2. SetSums(f, G)[s] = 0
      BY <1>0, <3>1, SumStep, Zenon
    <3> QED
      BY <3>2
  <2> QED
    BY <2>1
<1>2. ASSUME NEW n \in S PROVE n + 1 \in S
  <2> SUFFICES ASSUME NEW s \in Small(G, n + 1) PROVE SetSums(f, G)[s] \in Nat
    OBVIOUS
  <2>0. s \in SUBSET G /\ Cardinality(s) <= n + 1
    BY DEF Small
  <2>1. CASE s = {}
    <3>1. SetSums(f, G)[s] = 0
      BY <1>0, <2>0, <2>1, SumStep, Zenon
    <3> QED
      BY <3>1
  <2>2. CASE s # {}
    <3>1. /\ Pick(s) \in s /\ Cardinality(s) \in Nat /\ s \ {Pick(s)} \in SUBSET G
          /\ Cardinality(s \ {Pick(s)}) = Cardinality(s) - 1
      BY <2>0, <2>2, PickOne, Zenon
    <3>2. s \ {Pick(s)} \in Small(G, n)
      BY <2>0, <3>1 DEF Small
    <3>3. PICK a, b : a = f[Pick(s)] /\ b = SetSums(f, G)[s \ {Pick(s)}]
      OBVIOUS
    <3>4. a \in Nat /\ b \in Nat
      BY <2>0, <3>1, <3>2, <3>3 DEF NatTerms
    <3>5. SetSums(f, G)[s] = a + b
      BY <1>0, <2>0, <2>2, <3>3, SumStep, Zenon
    <3> QED
      BY <3>4, <3>5
  <2> QED
    BY <2>1, <2>2
<1>3. S = Nat
  <2>1. S \in SUBSET Nat
    OBVIOUS
  <2> HIDE DEF S
  <2> QED
    BY <1>1, <1>2, <2>1, SetInduction
<1>4. Cardinality(G) \in Nat /\ G \in Small(G, Cardinality(G))
  BY FS_CardinalityType DEF Small
<1> QED
  BY <1>0, <1>3, <1>4

\* The sums of the episode memory.
LEMMA MemorySums ==
  ASSUME NEW f, NEW A, IsFiniteSet(A), NatTerms(f, A)
  PROVE  /\ Sum(f, A) = SetSums(f, A)[A] /\ Sum(f, A) \in Nat
         /\ \A x : A = {x} => Sum(f, A) = f[x]
<1>1. Sum(f, A) = SetSums(f, A)[A]
  BY DEF Sum, SetSums, Unfolds, Pick
<1>0. Terms(f, A)
  BY NatSum
<1>2. SetSums(f, A)[A] \in Nat
  BY NatSum
<1>3. ASSUME NEW x, A = {x}
      PROVE  SetSums(f, A)[A] = f[x]
  <2>1. x \in A /\ A \ {x} = {} /\ {} \in SUBSET A
    BY <1>3
  <2>2. SetSums(f, A)[A] = f[x] + SetSums(f, A)[{}]
    BY <1>0, <2>1, SumTakesOut
  <2>3. SetSums(f, A)[{}] = 0
    BY <1>0, <2>1, SumStep, Zenon
  <2>4. f[x] \in Nat
    BY <2>1 DEF NatTerms
  <2> QED
    BY <2>2, <2>3, <2>4
<1> QED
  BY <1>1, <1>2, <1>3

LEMMA MemorySumsSplit ==
  ASSUME NEW f, NEW A, IsFiniteSet(A), NEW B, IsFiniteSet(B), Apart(A, B), NatTerms(f, A \cup B)
  PROVE  Sum(f, A \cup B) = Sum(f, A) + Sum(f, B)
<1>1. PICK G : G = A \cup B
  OBVIOUS
<1>2. IsFiniteSet(G) /\ A \in SUBSET G /\ B \in SUBSET G /\ NatTerms(f, G) /\ NatTerms(f, A) /\ NatTerms(f, B)
  BY <1>1, FS_Union, Zenon DEF NatTerms
<1>a. Terms(f, G) /\ Terms(f, A) /\ Terms(f, B)
  BY <1>2, NatSum
<1>3. SetSums(f, G)[A \cup B] = SetSums(f, G)[A] + SetSums(f, G)[B]
  BY <1>2, <1>a, SumSplits, ZenonT(40)
<1>4. SetSums(f, G)[A] = SetSums(f, A)[A]
  BY <1>2, <1>a, SumDepends
<1>5. SetSums(f, G)[B] = SetSums(f, B)[B]
  BY <1>2, <1>a, SumDepends
<1>6. Sum(f, G) = SetSums(f, G)[G] /\ Sum(f, A) = SetSums(f, A)[A] /\ Sum(f, B) = SetSums(f, B)[B]
  BY <1>2, MemorySums
<1> QED
  BY <1>1, <1>3, <1>4, <1>5, <1>6

LEMMA MemorySumsDepend ==
  ASSUME NEW f, NEW g, NEW A, IsFiniteSet(A), NatTerms(f, A), \A x \in A : f[x] = g[x]
  PROVE  Sum(f, A) = Sum(g, A)
<1>1. NatTerms(g, A)
  BY DEF NatTerms
<1>a. Terms(f, A) /\ Terms(g, A)
  BY <1>1, NatSum
<1>2. SetSums(f, A)[A] = SetSums(g, A)[A]
  BY <1>a, SumDepends
<1> QED
  BY <1>1, <1>2, MemorySums

-----------------------------------------------------------------------------
(***************************************************************************)
(* The episode memory.  Every item stands for a set of appended ones; the  *)
(* sets are disjoint and together all of them, and text and omitted bytes  *)
(* of an item are the bytes of its set and one separator for each          *)
(* compaction.  A compaction joins the first two items and keeps this; it  *)
(* goes on until the bounds hold or one item is left.                      *)
(***************************************************************************)
MemoryRows(n) ==
    {item \in [raws : SUBSET (1 .. n), lineage : SUBSET SUBSET (1 .. n), text : Int, omitted : Int] :
        item.raws # {} /\ IsFiniteSet(item.lineage)}

Balanced(item, f) ==
    item.text + item.omitted = Sum(f, item.raws) + SeparatorBytes * (Cardinality(item.raws) - 1)

\* Items over the appended sizes f.
Accounts(items, f) ==
    /\ items \in Seq(MemoryRows(Len(f)))
    /\ \A i \in DOMAIN items : Balanced(items[i], f)
    /\ \A i, j \in DOMAIN items : i # j => Apart(items[i].raws, items[j].raws)
    /\ \A id \in DOMAIN f : \E i \in DOMAIN items : id \in items[i].raws

WithinBounds(items) == Len(items) <= MaxItems /\ Total(items) <= MaxBytes

MemoryInv ==
    /\ memory.appended \in Seq(Nat)
    /\ Accounts(memory.items, memory.appended)
    /\ WithinBounds(memory.items)

\* The sizes of a finite set of appended items can be summed.
LEMMA RawsAreFinite ==
  ASSUME NEW f \in Seq(Nat), NEW A \in SUBSET (1 .. Len(f))
  PROVE  IsFiniteSet(A) /\ NatTerms(f, A) /\ Cardinality(A) \in Nat
<1>1. IsFiniteSet(1 .. Len(f))
  BY FS_Interval
<1>2. IsFiniteSet(A)
  BY <1>1, FS_Subset, Zenon
<1>3. Cardinality(A) \in Nat
  BY <1>2, FS_CardinalityType
<1> QED
  BY <1>2, <1>3 DEF NatTerms

LEMMA SizesAreIntegers ==
  ASSUME NEW n \in Nat, NEW item \in MemoryRows(n)
  PROVE  /\ Size(item) \in Int
         /\ \A l : IsFiniteSet(l) => \A o \in Int : Header(l, o) \in Int
<1>1. HeaderBytes \in Nat
  BY FactorAssumption
<1>2. ASSUME NEW l, IsFiniteSet(l), NEW o \in Int PROVE Header(l, o) \in Int
  <2>1. Cardinality(l) \in Nat /\ Digits(o) \in Nat
    <3>1. IsFiniteSet({k \in 1 .. 9 : 10 ^ k <= o})
      <4>1. IsFiniteSet(1 .. 9)
        <5>1. PICK a \in Int, b \in Int : a = 1 /\ b = 9
          OBVIOUS
        <5>2. IsFiniteSet(a .. b)
          BY FS_Interval
        <5> QED
          BY <5>1, <5>2
      <4>2. {k \in 1 .. 9 : 10 ^ k <= o} \in SUBSET (1 .. 9)
        BY Zenon
      <4> QED
        BY <4>1, <4>2, FS_Subset, Zenon
    <3>2. Cardinality({k \in 1 .. 9 : 10 ^ k <= o}) \in Nat
      BY <3>1, FS_CardinalityType
    <3>3. Cardinality(l) \in Nat
      BY <1>2, FS_CardinalityType
    <3> QED
      BY <3>2, <3>3 DEF Digits
  <2> QED
    BY <1>1, <2>1 DEF Header
<1>3. item.text \in Int /\ item.omitted \in Int /\ IsFiniteSet(item.lineage)
  BY DEF MemoryRows
<1>4. Size(item) \in Int
  BY <1>2, <1>3 DEF Size
<1> QED
  BY <1>2, <1>4

LEMMA TotalsAreIntegers ==
  ASSUME NEW n \in Nat, NEW items \in Seq(MemoryRows(n))
  PROVE  Total(items) \in Int /\ (items = <<>> => Total(items) = 0)
<1>1. PICK N : N = Len(items)
  OBVIOUS
<1>2. PICK v : v = [i \in 1 .. N |-> Size(items[i])]
  BY Zenon
<1>3. N \in Nat /\ \A i \in 1 .. N : v[i] \in Int
  BY <1>1, <1>2, SizesAreIntegers
<1> DEFINE Adds(g) == g = [k \in 0 .. N |-> IF k = 0 THEN 0 ELSE g[k - 1] + Size(items[k])]
<1>4. PICK g : g = PrefixSums(v, N)
  OBVIOUS
<1>5. Accumulates(v, N, g) /\ g \in [0 .. N -> Int]
  BY <1>3, <1>4, PrefixSumsExist
<1>6. Adds(g)
  <2>1. \A k \in 0 .. N : g[k] = IF k = 0 THEN 0 ELSE g[k - 1] + v[k]
    BY <1>5, Zenon DEF Accumulates
  <2>2. \A k \in 0 .. N : g[k] = IF k = 0 THEN 0 ELSE g[k - 1] + Size(items[k])
    <3> SUFFICES ASSUME NEW k \in 0 .. N PROVE g[k] = IF k = 0 THEN 0 ELSE g[k - 1] + Size(items[k])
      OBVIOUS
    <3>1. k # 0 => k \in 1 .. N
      BY <1>3
    <3>2. k # 0 => v[k] = Size(items[k])
      BY <1>2, <3>1
    <3> QED
      BY <2>1, <3>2
  <2>3. g = [k \in 0 .. N |-> g[k]]
    BY <1>5
  <2> QED
    BY <2>2, <2>3, Zenon
<1>7. PICK h : h = CHOOSE x : Adds(x)
  OBVIOUS
<1>8. Adds(h)
  <2> HIDE DEF Adds
  <2> QED
    BY <1>6, <1>7
<1>9. h = g
  <2>1. Accumulates(v, N, h)
    BY <1>2, <1>3, <1>8 DEF Accumulates
  <2> DEFINE S == {k \in Nat : k <= N => h[k] = g[k]}
  <2>2. /\ \A k \in 0 .. N : g[k] = IF k = 0 THEN 0 ELSE g[k - 1] + v[k]
        /\ \A k \in 0 .. N : h[k] = IF k = 0 THEN 0 ELSE h[k - 1] + v[k]
    BY <1>5, <2>1, Zenon DEF Accumulates
  <2>3. 0 \in S
    BY <1>3, <2>2
  <2>4. ASSUME NEW k \in S PROVE k + 1 \in S
    <3> SUFFICES ASSUME k + 1 <= N PROVE h[k + 1] = g[k + 1]
      OBVIOUS
    <3>1. k \in Nat /\ k <= N /\ k + 1 \in 0 .. N /\ k + 1 # 0 /\ (k + 1) - 1 = k
      BY <1>3
    <3>2. h[k] = g[k]
      BY <3>1
    <3> QED
      BY <2>2, <3>1, <3>2
  <2>5. S = Nat
    <3>1. S \in SUBSET Nat
      OBVIOUS
    <3> HIDE DEF S
    <3> QED
      BY <2>3, <2>4, <3>1, SetInduction
  <2>6. \A k \in 0 .. N : h[k] = g[k]
    BY <2>5, <1>3
  <2>7. h = [k \in 0 .. N |-> h[k]] /\ g = [k \in 0 .. N |-> g[k]]
    BY <1>5, <1>8
  <2> QED
    BY <2>6, <2>7
<1>10. Total(items) = h[N]
  BY <1>1, <1>7 DEF Total
<1>11. g[N] \in Int /\ (N = 0 => g[N] = 0)
  BY <1>3, <1>5 DEF Accumulates
<1> QED
  BY <1>1, <1>9, <1>10, <1>11

\* What a step function on T does when it is repeated.
Repeats(step, first, N, g) == \A k \in 0 .. N : g[k] = IF k = 0 THEN first ELSE step[g[k - 1]]

LEMMA RepetitionExists ==
  ASSUME NEW T, NEW step \in [T -> T], NEW first \in T, NEW N \in Nat
  PROVE  \E g \in [0 .. N -> T] : Repeats(step, first, N, g)
<1> DEFINE S == {n \in Nat : \E g \in [0 .. n -> T] : Repeats(step, first, n, g)}
<1>1. 0 \in S
  <2>1. [k \in 0 .. 0 |-> first] \in [0 .. 0 -> T]
    OBVIOUS
  <2>2. Repeats(step, first, 0, [k \in 0 .. 0 |-> first])
    BY DEF Repeats
  <2> QED
    BY <2>1, <2>2
<1>2. ASSUME NEW n \in S PROVE n + 1 \in S
  <2>1. n \in Nat
    OBVIOUS
  <2>2. PICK g \in [0 .. n -> T] : Repeats(step, first, n, g)
    OBVIOUS
  <2>3. PICK h : h = [k \in 0 .. n + 1 |-> IF k = n + 1 THEN step[g[n]] ELSE g[k]]
    BY Zenon
  <2>4. g[n] \in T /\ step[g[n]] \in T
    BY <2>1
  <2>5. h \in [0 .. n + 1 -> T]
    BY <2>1, <2>3, <2>4
  <2>6. ASSUME NEW k \in 0 .. n + 1 PROVE h[k] = IF k = 0 THEN first ELSE step[h[k - 1]]
    <3>1. CASE k = n + 1
      <4>1. k # 0 /\ k - 1 = n /\ n \in 0 .. n + 1 /\ n # n + 1
        BY <2>1, <3>1
      <4>2. h[n] = g[n] /\ h[k] = step[g[n]]
        BY <2>3, <3>1, <4>1
      <4> QED
        BY <4>1, <4>2
    <3>2. CASE k # n + 1
      <4>1. k \in 0 .. n /\ h[k] = g[k]
        BY <2>1, <2>3, <3>2
      <4>2. k # 0 => k - 1 \in 0 .. n + 1 /\ k - 1 # n + 1
        BY <2>1, <4>1
      <4>3. k # 0 => h[k - 1] = g[k - 1]
        BY <2>3, <4>2
      <4> QED
        BY <2>2, <4>1, <4>3 DEF Repeats
    <3> QED
      BY <3>1, <3>2
  <2> QED
    BY <2>1, <2>5, <2>6 DEF Repeats
<1>3. S = Nat
  <2>1. S \in SUBSET Nat
    OBVIOUS
  <2> HIDE DEF S
  <2> QED
    BY <1>1, <1>2, <2>1, SetInduction
<1> QED
  BY <1>3

Rounds == [ok : BOOLEAN, stable : BOOLEAN, kept : Int, omitted : Int]

\* A round of a compaction: what is kept and what is omitted is the original.
LEMMA RoundBalances ==
  ASSUME NEW n \in Nat, NEW left \in MemoryRows(n), NEW right \in MemoryRows(n),
         NEW lineage, IsFiniteSet(lineage), NEW bound \in Int, NEW last \in Rounds,
         NEW next, next = CompactRound(left, right, lineage, bound, last)
  PROVE  /\ next \in Rounds
         /\ \/ next = last /\ (last.stable \/ ~last.ok)
            \/ ~next.ok
            \/ next.kept + next.omitted = left.text + right.text + left.omitted + right.omitted
<1>1. left.text \in Int /\ left.omitted \in Int /\ right.text \in Int /\ right.omitted \in Int
  BY DEF MemoryRows
<1>2. SeparatorBytes \in Int /\ last.omitted \in Int /\ last.ok \in BOOLEAN /\ last.stable \in BOOLEAN
  BY FactorAssumption DEF Rounds
<1>3. PICK h : h = Header(lineage, last.omitted)
  OBVIOUS
<1>4. h \in Int
  BY <1>2, <1>3, SizesAreIntegers
<1>5. PICK room : room = bound - h - SeparatorBytes
  OBVIOUS
<1>6. room \in Int /\ room \div 2 \in Int
  BY <1>2, <1>4, <1>5
<1>7. PICK kept : kept = AtMost(left.text, room \div 2) + AtMost(right.text, room - (room \div 2))
  OBVIOUS
<1>8. kept \in Int
  BY <1>1, <1>6, <1>7 DEF AtMost
<1>9. PICK original : original = left.text + right.text + left.omitted + right.omitted
  OBVIOUS
<1>10. original \in Int
  BY <1>1, <1>9
<1>11. next = IF last.stable \/ ~last.ok THEN last
              ELSE IF room < 2 THEN [last EXCEPT !.ok = FALSE]
              ELSE [ok |-> TRUE, stable |-> original - kept = last.omitted, kept |-> kept, omitted |-> original - kept]
  BY <1>3, <1>5, <1>7, <1>9 DEF CompactRound
<1>12. CASE last.stable \/ ~last.ok
  BY <1>11, <1>12
<1>13. CASE ~(last.stable \/ ~last.ok) /\ room < 2
  <2>1. next = [last EXCEPT !.ok = FALSE]
    BY <1>11, <1>13
  <2>2. next \in Rounds /\ ~next.ok
    BY <2>1, Zenon DEF Rounds
  <2> QED
    BY <2>2
<1>14. CASE ~(last.stable \/ ~last.ok) /\ ~(room < 2)
  <2>1. next = [ok |-> TRUE, stable |-> original - kept = last.omitted, kept |-> kept, omitted |-> original - kept]
    BY <1>11, <1>14
  <2>2. next \in Rounds
    BY <1>8, <1>10, <2>1 DEF Rounds
  <2>3. next.kept = kept /\ next.omitted = original - kept
    BY <2>1
  <2> QED
    BY <1>8, <1>9, <1>10, <2>2, <2>3
<1> QED
  BY <1>12, <1>13, <1>14

\* The rounds of a compaction.
Compacting(left, right, lineage, bound, r) ==
    r = [n \in 0 .. 8 |->
            IF n = 0 THEN [ok |-> TRUE, stable |-> FALSE, kept |-> 0, omitted |-> left.omitted + right.omitted]
            ELSE CompactRound(left, right, lineage, bound, r[n - 1])]

\* The function of rounds that _compact computes.
RoundsOf(left, right, lineage, bound) == CHOOSE x : Compacting(left, right, lineage, bound, x)

LEMMA RoundsBalance ==
  ASSUME NEW n \in Nat, NEW left \in MemoryRows(n), NEW right \in MemoryRows(n),
         NEW lineage, IsFiniteSet(lineage), NEW bound \in Int,
         NEW r, r = RoundsOf(left, right, lineage, bound)
  PROVE  /\ r[8] \in Rounds
         /\ r[8].ok => r[8].kept + r[8].omitted = left.text + right.text + left.omitted + right.omitted
<1>0. PICK first : first = [ok |-> TRUE, stable |-> FALSE, kept |-> 0, omitted |-> left.omitted + right.omitted]
  BY Zenon
<1>1. first \in Rounds /\ first.ok /\ ~first.stable
  <2>1. left.omitted + right.omitted \in Int
    BY DEF MemoryRows
  <2> QED
    BY <1>0, <2>1 DEF Rounds
<1>2. Compacting(left, right, lineage, bound, r)
  <2>1. PICK step : step = [x \in Rounds |-> CompactRound(left, right, lineage, bound, x)]
    BY Zenon
  <2>2. step \in [Rounds -> Rounds]
    BY <2>1, RoundBalances
  <2>3. PICK g \in [0 .. 8 -> Rounds] : Repeats(step, first, 8, g)
    BY <1>1, <2>2, RepetitionExists, Zenon
  <2>4. ASSUME NEW k \in 0 .. 8
        PROVE  g[k] = IF k = 0 THEN first ELSE CompactRound(left, right, lineage, bound, g[k - 1])
    <3>1. k # 0 => k - 1 \in 0 .. 8
      OBVIOUS
    <3>2. k # 0 => g[k - 1] \in Rounds
      BY <2>3, <3>1
    <3>3. k # 0 => step[g[k - 1]] = CompactRound(left, right, lineage, bound, g[k - 1])
      BY <2>1, <3>2
    <3> QED
      BY <2>3, <3>3 DEF Repeats
  <2>5. g = [k \in 0 .. 8 |-> g[k]]
    BY <2>3
  <2>6. g = [k \in 0 .. 8 |-> IF k = 0 THEN first ELSE CompactRound(left, right, lineage, bound, g[k - 1])]
    BY <2>4, <2>5
  <2>7. Compacting(left, right, lineage, bound, g)
    BY <1>0, <2>6, Zenon DEF Compacting
  <2> QED
    BY <2>7 DEF RoundsOf
<1>3. \A k \in 0 .. 8 : r[k] = IF k = 0 THEN first ELSE CompactRound(left, right, lineage, bound, r[k - 1])
  <2>1. r = [k \in 0 .. 8 |-> IF k = 0 THEN first ELSE CompactRound(left, right, lineage, bound, r[k - 1])]
    BY <1>0, <1>2, Zenon DEF Compacting
  <2> SUFFICES ASSUME NEW k \in 0 .. 8
               PROVE  r[k] = IF k = 0 THEN first ELSE CompactRound(left, right, lineage, bound, r[k - 1])
    OBVIOUS
  <2> QED
    BY <2>1, Zenon
<1> DEFINE Good(x) == x \in Rounds /\ (x.ok => x.kept + x.omitted = left.text + right.text + left.omitted + right.omitted)
<1>4. Good(r[1])
  <2>1. r[0] = first /\ r[1] = CompactRound(left, right, lineage, bound, r[0])
    BY <1>3
  <2> QED
    BY <1>1, <2>1, RoundBalances
<1>5. ASSUME NEW k \in 1 .. 7, Good(r[k]) PROVE Good(r[k + 1])
  <2>1. k + 1 \in 0 .. 8 /\ k + 1 # 0 /\ (k + 1) - 1 = k
    OBVIOUS
  <2>2. r[k + 1] = CompactRound(left, right, lineage, bound, r[k])
    BY <1>3, <2>1
  <2> QED
    BY <1>5, <2>2, RoundBalances
<1>6. Good(r[8])
  <2> HIDE DEF Good
  <2>1. Good(r[1 + 1])
    BY <1>4, <1>5
  <2>2. Good(r[2 + 1])
    BY <1>5, <2>1
  <2>3. Good(r[3 + 1])
    BY <1>5, <2>2
  <2>4. Good(r[4 + 1])
    BY <1>5, <2>3
  <2>5. Good(r[5 + 1])
    BY <1>5, <2>4
  <2>6. Good(r[6 + 1])
    BY <1>5, <2>5
  <2>7. Good(r[7 + 1])
    BY <1>5, <2>6
  <2> QED
    BY <2>7
<1> QED
  BY <1>6

\* A compaction stands for both, and accounts for every byte of both.
LEMMA CompactBalances ==
  ASSUME NEW f \in Seq(Nat), NEW left \in MemoryRows(Len(f)), NEW right \in MemoryRows(Len(f)), NEW bound \in Int,
         NEW item, item = Compact(left, right, bound), item # TooSmall
  PROVE  /\ item \in MemoryRows(Len(f)) /\ item.raws = left.raws \cup right.raws
         /\ Apart(left.raws, right.raws) /\ Balanced(left, f) /\ Balanced(right, f) => Balanced(item, f)
<1>0. Len(f) \in Nat
  OBVIOUS
<1>1. /\ left.raws \in SUBSET (1 .. Len(f)) /\ right.raws \in SUBSET (1 .. Len(f))
      /\ left.lineage \in SUBSET SUBSET (1 .. Len(f)) /\ right.lineage \in SUBSET SUBSET (1 .. Len(f))
      /\ left.raws # {} /\ right.raws # {} /\ IsFiniteSet(left.lineage) /\ IsFiniteSet(right.lineage)
      /\ left.text \in Int /\ left.omitted \in Int /\ right.text \in Int /\ right.omitted \in Int
  BY Zenon DEF MemoryRows
<1>2. PICK lineage : lineage = left.lineage \union right.lineage \union {left.raws, right.raws}
  BY Zenon
<1>3. IsFiniteSet(lineage) /\ lineage \in SUBSET SUBSET (1 .. Len(f))
  <2>1. IsFiniteSet({left.raws, right.raws})
    <3>1. IsFiniteSet({left.raws}) /\ IsFiniteSet({right.raws})
      BY FS_Singleton, Zenon
    <3>2. IsFiniteSet({left.raws} \cup {right.raws})
      BY <3>1, FS_Union, Zenon
    <3>3. {left.raws, right.raws} = {left.raws} \cup {right.raws}
      OBVIOUS
    <3> QED
      BY <3>2, <3>3, Zenon
  <2>2. IsFiniteSet(left.lineage \union right.lineage)
    BY <1>1, FS_Union, Zenon
  <2> QED
    BY <1>1, <1>2, <2>1, <2>2, FS_Union, Zenon
<1>4. PICK r : r = RoundsOf(left, right, lineage, bound)
  OBVIOUS
<1>5. /\ r[8] \in Rounds
      /\ r[8].ok => r[8].kept + r[8].omitted = left.text + right.text + left.omitted + right.omitted
  <2>1. PICK n \in Nat : n = Len(f)
    BY <1>0
  <2>2. left \in MemoryRows(n) /\ right \in MemoryRows(n)
    BY <2>1
  <2>3. IsFiniteSet(lineage)
    BY <1>3
  <2> QED
    BY <1>4, <2>2, <2>3, RoundsBalance
<1>6. PICK joined : joined = [raws |-> left.raws \union right.raws, lineage |-> lineage,
                             text |-> r[8].kept + SeparatorBytes, omitted |-> r[8].omitted]
  BY Zenon
<1>7. item = IF ~r[8].ok \/ Size(joined) > bound THEN TooSmall ELSE joined
  BY <1>2, <1>4, <1>6, ZenonT(40) DEF Compact, RoundsOf, Compacting
<1>8. r[8].ok /\ item = joined
  BY <1>7
<1>9. SeparatorBytes \in Nat /\ r[8].kept \in Int /\ r[8].omitted \in Int
  BY <1>5, FactorAssumption DEF Rounds
<1>10. /\ item.raws = left.raws \cup right.raws /\ item.lineage = lineage
       /\ item.text = r[8].kept + SeparatorBytes /\ item.omitted = r[8].omitted
  BY <1>6, <1>8
<1>11. item \in MemoryRows(Len(f))
  <2>1. item.text \in Int /\ item.omitted \in Int
    BY <1>9, <1>10
  <2>2. item.raws \in SUBSET (1 .. Len(f)) /\ item.raws # {}
    BY <1>1, <1>10, Zenon
  <2>3. item \in [raws : SUBSET (1 .. Len(f)), lineage : SUBSET SUBSET (1 .. Len(f)), text : Int, omitted : Int]
    BY <1>3, <1>6, <1>8, <1>10, <2>1, <2>2
  <2> QED
    BY <1>3, <1>10, <2>2, <2>3, Zenon DEF MemoryRows
<1>12. ASSUME Apart(left.raws, right.raws), Balanced(left, f), Balanced(right, f) PROVE Balanced(item, f)
  <2>1. /\ IsFiniteSet(left.raws) /\ IsFiniteSet(right.raws) /\ IsFiniteSet(item.raws) /\ NatTerms(f, item.raws)
        /\ Cardinality(left.raws) \in Nat /\ Cardinality(right.raws) \in Nat
        /\ NatTerms(f, left.raws) /\ NatTerms(f, right.raws)
    BY <1>1, <1>10, RawsAreFinite, Zenon
  <2>2. Sum(f, item.raws) = Sum(f, left.raws) + Sum(f, right.raws)
    BY <1>10, <1>12, <2>1, MemorySumsSplit
  <2>3. Cardinality(item.raws) = Cardinality(left.raws) + Cardinality(right.raws)
    <3>1. left.raws \cap right.raws = {}
      BY <1>12 DEF Apart
    <3>2. Cardinality(left.raws \cap right.raws) = 0
      BY <3>1, FS_EmptySet
    <3>3. Cardinality(item.raws) = Cardinality(left.raws) + Cardinality(right.raws) - Cardinality(left.raws \cap right.raws)
      BY <1>10, <2>1, FS_Union
    <3> QED
      BY <2>1, <3>2, <3>3
  <2>4. PICK a, b, c, d, s : /\ a = Cardinality(left.raws) /\ b = Cardinality(right.raws)
                            /\ c = Sum(f, left.raws) /\ d = Sum(f, right.raws) /\ s = SeparatorBytes
    OBVIOUS
  <2>5. a \in Nat /\ b \in Nat /\ c \in Nat /\ d \in Nat /\ s \in Nat
    BY <1>9, <2>1, <2>4, MemorySums
  <2>6. left.text + left.omitted = c + s * (a - 1) /\ right.text + right.omitted = d + s * (b - 1)
    BY <1>12, <2>4 DEF Balanced
  <2>7. s * ((a + b) - 1) = s * (a - 1) + s * (b - 1) + s
    BY <2>5
  <2>8. s * (a - 1) \in Int /\ s * (b - 1) \in Int
    BY <2>5
  <2>9. PICK u, w, z : u = s * (a - 1) /\ w = s * (b - 1) /\ z = s * ((a + b) - 1)
    OBVIOUS
  <2>10. item.text + item.omitted = c + d + z
    <3>1. PICK lt, lo, rt, ro, k, o : /\ lt = left.text /\ lo = left.omitted /\ rt = right.text /\ ro = right.omitted
                                     /\ k = r[8].kept /\ o = r[8].omitted
      OBVIOUS
    <3>2. lt \in Int /\ lo \in Int /\ rt \in Int /\ ro \in Int /\ k \in Int /\ o \in Int
      BY <1>1, <1>9, <3>1
    <3>3. k + o = lt + rt + lo + ro
      BY <1>5, <1>8, <3>1
    <3>4. lt + lo = c + u /\ rt + ro = d + w /\ z = u + w + s /\ u \in Int /\ w \in Int
      BY <2>6, <2>7, <2>8, <2>9, <3>1
    <3>5. item.text = k + s /\ item.omitted = o
      BY <1>10, <2>4, <3>1
    <3>6. (k + s) + o = c + d + z
      BY <2>5, <3>2, <3>3, <3>4
    <3> QED
      BY <3>5, <3>6
  <2> QED
    BY <2>2, <2>3, <2>4, <2>9, <2>10 DEF Balanced
<1> QED
  BY <1>10, <1>11, <1>12

\* One step of the loop: the bounds hold and nothing changes, or there is one
\* item less and every byte is still accounted for, or the append is refused.
LEMMA FitOnceAccounts ==
  ASSUME NEW f \in Seq(Nat), NEW items \in Seq(MemoryRows(Len(f))),
         NEW next, next = FitOnce(items)
  PROVE  \/ next = <<>>
         \/ next = items /\ WithinBounds(items)
         \/ /\ next \in Seq(MemoryRows(Len(f))) /\ Len(next) = Len(items) - 1
            /\ Accounts(items, f) => Accounts(next, f)
<1>0. PICK N \in Nat : N = Len(f)
  OBVIOUS
<1>1. PICK m \in Nat : m = Len(items)
  OBVIOUS
<1>2. PICK rest : rest = SubSeq(items, 3, Len(items))
  BY Zenon
<1>3. PICK room : room = AtMost(Size(items[1]) + Size(items[2]) - 1, MaxBytes - Total(rest))
  OBVIOUS
<1>4. PICK compacted : compacted = Compact(items[1], items[2], room)
  OBVIOUS
<1>5. next = IF items = <<>> \/ WithinBounds(items) THEN items
             ELSE IF Len(items) < 2 \/ room < 1 \/ compacted = TooSmall THEN <<>>
             ELSE <<compacted>> \o rest
  BY <1>2, <1>3, <1>4 DEF FitOnce, WithinBounds
<1>6. CASE items = <<>> \/ WithinBounds(items) \/ Len(items) < 2 \/ room < 1 \/ compacted = TooSmall
  BY <1>5, <1>6
<1>7. CASE ~(items = <<>> \/ WithinBounds(items) \/ Len(items) < 2 \/ room < 1 \/ compacted = TooSmall)
  <2>1. next = <<compacted>> \o rest /\ m >= 2 /\ compacted # TooSmall
    BY <1>1, <1>5, <1>7
  <2>2. items[1] \in MemoryRows(N) /\ items[2] \in MemoryRows(N)
    BY <1>0, <1>1, <2>1
  <2>3. rest \in Seq(MemoryRows(N)) /\ Len(rest) = m - 2 /\ \A i \in 1 .. m - 2 : rest[i] = items[i + 2]
    <3>1. \A i \in 3 .. m : items[i] \in MemoryRows(N)
      BY <1>0, <1>1
    <3>2. /\ rest \in Seq(MemoryRows(N)) /\ Len(rest) = IF 3 <= m THEN m - 3 + 1 ELSE 0
          /\ \A i \in 1 .. m - 3 + 1 : rest[i] = items[3 + i - 1]
      BY <1>0, <1>1, <1>2, <3>1, SeqCut
    <3>3. Len(rest) = m - 2
      <4>1. PICK k : k = Len(rest)
        BY Zenon
      <4>2. k = IF 3 <= m THEN m - 3 + 1 ELSE 0
        BY <3>2, <4>1
      <4>3. k = m - 2
        BY <2>1, <4>2
      <4> QED
        BY <4>1, <4>3
    <3>4. ASSUME NEW i \in 1 .. m - 2 PROVE rest[i] = items[i + 2]
      <4>1. i \in 1 .. m - 3 + 1 /\ 3 + i - 1 = i + 2
        OBVIOUS
      <4> QED
        BY <3>2, <4>1
    <3> QED
      BY <3>2, <3>3, <3>4
  <2>4. room \in Int
    <3>1. Size(items[1]) \in Int /\ Size(items[2]) \in Int
      BY <2>2, SizesAreIntegers
    <3>2. Total(rest) \in Int
      BY <2>3, TotalsAreIntegers
    <3>3. MaxBytes \in Int
      BY FactorAssumption
    <3> QED
      BY <1>3, <3>1, <3>2, <3>3 DEF AtMost
  <2>5. /\ compacted \in MemoryRows(N) /\ compacted.raws = items[1].raws \cup items[2].raws
        /\ Apart(items[1].raws, items[2].raws) /\ Balanced(items[1], f) /\ Balanced(items[2], f) => Balanced(compacted, f)
    BY <1>0, <1>4, <2>1, <2>2, <2>4, CompactBalances
  <2>6. /\ next \in Seq(MemoryRows(N)) /\ Len(next) = m - 1 /\ DOMAIN next = 1 .. m - 1
        /\ next[1] = compacted /\ \A i \in 2 .. m - 1 : next[i] = items[i + 1]
    <3>1. <<compacted>> \in Seq(MemoryRows(N)) /\ Len(<<compacted>>) = 1 /\ <<compacted>>[1] = compacted
      BY <2>5
    <3>2. PICK one : one = <<compacted>>
      BY Zenon
    <3>3. /\ one \o rest \in Seq(MemoryRows(N)) /\ Len(one \o rest) = Len(one) + Len(rest)
          /\ \A i \in 1 .. Len(one) + Len(rest) : (one \o rest)[i] = IF i <= Len(one) THEN one[i] ELSE rest[i - Len(one)]
      BY <2>3, <3>1, <3>2, SeqJoin
    <3>4. next \in Seq(MemoryRows(N)) /\ Len(next) = m - 1 /\ \A i \in 1 .. m - 1 : next[i] = IF i <= 1 THEN compacted ELSE rest[i - 1]
      BY <1>1, <2>1, <2>3, <3>1, <3>2, <3>3
    <3>5. DOMAIN next = 1 .. m - 1
      BY <3>4
    <3>6. next[1] = compacted
      BY <1>1, <2>1, <3>4
    <3>7. ASSUME NEW i \in 2 .. m - 1 PROVE next[i] = items[i + 1]
      <4>1. i \in 1 .. m - 1 /\ ~(i <= 1) /\ i - 1 \in 1 .. m - 2 /\ (i - 1) + 2 = i + 1
        BY <1>1, <2>1
      <4> QED
        BY <2>3, <3>4, <4>1
    <3> QED
      BY <3>4, <3>5, <3>6, <3>7
  <2>7. ASSUME Accounts(items, f) PROVE Accounts(next, f)
    <3>1. /\ \A i \in 1 .. m : Balanced(items[i], f)
          /\ \A i, j \in 1 .. m : i # j => Apart(items[i].raws, items[j].raws)
          /\ \A id \in DOMAIN f : \E i \in 1 .. m : id \in items[i].raws
      <4>1. DOMAIN items = 1 .. m
        BY <1>1
      <4>2. /\ \A i \in DOMAIN items : Balanced(items[i], f)
            /\ \A i, j \in DOMAIN items : i # j => Apart(items[i].raws, items[j].raws)
            /\ \A id \in DOMAIN f : \E i \in DOMAIN items : id \in items[i].raws
        BY <2>7, Zenon DEF Accounts
      <4> QED
        BY <4>1, <4>2, Zenon
    <3>2. 1 \in 1 .. m /\ 2 \in 1 .. m /\ 1 \in 1 .. m - 1
      BY <1>1, <2>1
    <3>3. \A i \in 1 .. m - 1 : i # 1 => i + 1 \in 1 .. m /\ next[i] = items[i + 1] /\ i + 1 # 1 /\ i + 1 # 2
      BY <1>1, <2>1, <2>6
    <3>4. ASSUME NEW i \in 1 .. m - 1 PROVE Balanced(next[i], f)
      <4>1. CASE i = 1
        BY <2>5, <2>6, <3>1, <3>2, <4>1
      <4>2. CASE i # 1
        BY <3>1, <3>3, <4>2, Zenon
      <4> QED
        BY <4>1, <4>2
    <3>5. ASSUME NEW i \in 1 .. m - 1, NEW j \in 1 .. m - 1, i # j PROVE Apart(next[i].raws, next[j].raws)
      <4>1. CASE i = 1
        <5>1. next[i].raws = items[1].raws \cup items[2].raws /\ next[j] = items[j + 1] /\ j + 1 \in 1 .. m /\ j + 1 # 1 /\ j + 1 # 2
          BY <2>5, <2>6, <3>3, <3>5, <4>1
        <5>2. Apart(items[1].raws, items[j + 1].raws) /\ Apart(items[2].raws, items[j + 1].raws)
          BY <3>1, <3>2, <5>1, Zenon
        <5> QED
          BY <5>1, <5>2 DEF Apart
      <4>2. CASE j = 1
        <5>1. next[j].raws = items[1].raws \cup items[2].raws /\ next[i] = items[i + 1] /\ i + 1 \in 1 .. m /\ i + 1 # 1 /\ i + 1 # 2
          BY <2>5, <2>6, <3>3, <3>5, <4>2
        <5>2. Apart(items[i + 1].raws, items[1].raws) /\ Apart(items[i + 1].raws, items[2].raws)
          BY <3>1, <3>2, <5>1, Zenon
        <5> QED
          BY <5>1, <5>2 DEF Apart
      <4>3. CASE i # 1 /\ j # 1
        <5>1. next[i] = items[i + 1] /\ next[j] = items[j + 1] /\ i + 1 \in 1 .. m /\ j + 1 \in 1 .. m
          BY <3>3, <4>3
        <5>2. i + 1 # j + 1
          BY <3>5
        <5> QED
          BY <3>1, <5>1, <5>2, Zenon
      <4> QED
        BY <4>1, <4>2, <4>3
    <3>6. ASSUME NEW id \in DOMAIN f PROVE \E i \in 1 .. m - 1 : id \in next[i].raws
      <4>1. PICK i \in 1 .. m : id \in items[i].raws
        BY <3>1
      <4>2. CASE i = 1 \/ i = 2
        <5>1. id \in next[1].raws
          BY <2>5, <2>6, <4>1, <4>2, Zenon
        <5> QED
          BY <3>2, <5>1, Zenon
      <4>3. CASE ~(i = 1 \/ i = 2)
        <5>1. i - 1 \in 1 .. m - 1 /\ i - 1 # 1 /\ (i - 1) + 1 = i
          BY <1>1, <4>3
        <5>2. next[i - 1] = items[i]
          BY <3>3, <5>1
        <5> QED
          BY <4>1, <5>1, <5>2
      <4> QED
        BY <4>2, <4>3
    <3> QED
      BY <1>0, <2>6, <3>4, <3>5, <3>6, Zenon DEF Accounts
  <2> QED
    BY <1>0, <1>1, <2>6, <2>7
<1> QED
  BY <1>6, <1>7

Fitting(all, g) == g = [n \in 0 .. Len(all) |-> IF n = 0 THEN all ELSE FitOnce(g[n - 1])]

\* The loop of append_memory: what it returns is within the bounds and accounts
\* for what it was given; there is an item less in every round, so it ends.
LEMMA FittedAccounts ==
  ASSUME NEW f \in Seq(Nat), NEW all \in Seq(MemoryRows(Len(f))), Accounts(all, f), Fitted(all) # <<>>
  PROVE  Accounts(Fitted(all), f) /\ WithinBounds(Fitted(all))
<1>0. PICK N \in Nat : N = Len(all)
  OBVIOUS
<1>1. PICK T : T = Seq(MemoryRows(Len(f)))
  OBVIOUS
<1>2. PICK g : g = CHOOSE x : Fitting(all, x)
  OBVIOUS
<1>3. Fitting(all, g)
  <2>1. PICK step : step = [s \in T |-> FitOnce(s)]
    BY Zenon
  <2>2. step \in [T -> T]
    <3>1. <<>> \in T
      BY <1>1
    <3>2. ASSUME NEW s \in T PROVE FitOnce(s) \in T
      BY <1>1, <3>1, FitOnceAccounts, Zenon
    <3> QED
      BY <2>1, <3>2
  <2>3. PICK h \in [0 .. N -> T] : Repeats(step, all, N, h)
    BY <1>0, <1>1, <2>2, RepetitionExists, Zenon
  <2>4. ASSUME NEW k \in 0 .. N
        PROVE  h[k] = IF k = 0 THEN all ELSE FitOnce(h[k - 1])
    <3>1. k # 0 => k - 1 \in 0 .. N
      BY <1>0
    <3>2. k # 0 => h[k - 1] \in T
      BY <2>3, <3>1
    <3>3. k # 0 => step[h[k - 1]] = FitOnce(h[k - 1])
      BY <2>1, <3>2
    <3> QED
      BY <2>3, <3>3 DEF Repeats
  <2>5. h = [k \in 0 .. N |-> h[k]]
    BY <2>3
  <2>6. h = [k \in 0 .. N |-> IF k = 0 THEN all ELSE FitOnce(h[k - 1])]
    BY <2>4, <2>5
  <2>7. Fitting(all, h)
    BY <1>0, <2>6, Zenon DEF Fitting
  <2> QED
    BY <1>2, <2>7
<1>4. \A k \in 0 .. N : g[k] = IF k = 0 THEN all ELSE FitOnce(g[k - 1])
  <2>1. g = [k \in 0 .. N |-> IF k = 0 THEN all ELSE FitOnce(g[k - 1])]
    BY <1>0, <1>3, Zenon DEF Fitting
  <2> SUFFICES ASSUME NEW k \in 0 .. N PROVE g[k] = IF k = 0 THEN all ELSE FitOnce(g[k - 1])
    OBVIOUS
  <2> QED
    BY <2>1, Zenon
<1>5. Fitted(all) = g[N]
  BY <1>0, <1>2 DEF Fitted, Fitting
<1> DEFINE Good(k, s) == s = <<>> \/ (s \in T /\ Accounts(s, f) /\ (WithinBounds(s) \/ Len(s) = N - k))
           S == {k \in Nat : k <= N => Good(k, g[k])}
<1>6. 0 \in S
  <2>1. g[0] = all
    BY <1>0, <1>4
  <2> QED
    BY <1>0, <1>1, <2>1
<1>7. ASSUME NEW k \in S PROVE k + 1 \in S
  <2> SUFFICES ASSUME k + 1 <= N PROVE Good(k + 1, g[k + 1])
    OBVIOUS
  <2>1. k \in Nat /\ k <= N /\ k + 1 \in 0 .. N /\ k + 1 # 0 /\ (k + 1) - 1 = k
    BY <1>0
  <2>2. Good(k, g[k])
    BY <2>1
  <2>3. g[k + 1] = FitOnce(g[k])
    BY <1>4, <2>1
  <2>4. CASE g[k] = <<>>
    BY <2>3, <2>4 DEF FitOnce
  <2>5. CASE g[k] \in T /\ Accounts(g[k], f) /\ (WithinBounds(g[k]) \/ Len(g[k]) = N - k)
    <3>1. PICK s \in T : s = g[k]
      BY <2>5
    <3>2. PICK next : next = FitOnce(s)
      OBVIOUS
    <3>3. CASE WithinBounds(s)
      <4>1. next = s
        BY <3>2, <3>3 DEF FitOnce, WithinBounds
      <4> QED
        BY <2>3, <2>5, <3>1, <3>2, <3>3, <4>1
    <3>4. CASE ~WithinBounds(s)
      <4>1. \/ next = <<>>
            \/ next \in T /\ Len(next) = Len(s) - 1 /\ Accounts(next, f)
        BY <1>1, <2>5, <3>1, <3>2, <3>4, FitOnceAccounts
      <4>2. Len(s) = N - k
        BY <2>5, <3>1, <3>4
      <4>3. next # <<>> => Len(next) = N - (k + 1)
        BY <1>0, <2>1, <4>1, <4>2
      <4>4. g[k + 1] = next
        BY <2>3, <3>1, <3>2
      <4>5. next = <<>> \/ (next \in T /\ Accounts(next, f) /\ Len(next) = N - (k + 1))
        BY <4>1, <4>3
      <4> QED
        BY <4>4, <4>5
    <3> QED
      BY <3>3, <3>4
  <2> QED
    BY <2>2, <2>4, <2>5
<1>8. S = Nat
  <2>1. S \in SUBSET Nat
    OBVIOUS
  <2> HIDE DEF S
  <2> QED
    BY <1>6, <1>7, <2>1, SetInduction, Zenon
<1>9. Good(N, g[N])
  BY <1>0, <1>8
<1>10. g[N] \in T /\ Accounts(g[N], f) /\ (WithinBounds(g[N]) \/ Len(g[N]) = 0)
  BY <1>0, <1>5, <1>9
<1>11. Len(g[N]) # 0
  BY <1>1, <1>5, <1>10, SeqEmpty
<1> QED
  BY <1>5, <1>10, <1>11

\* An appended item stands for itself.
LEMMA AppendAccounts ==
  ASSUME NEW f \in Seq(Nat), NEW items, Accounts(items, f), NEW size \in Nat,
         NEW new, new = [raws |-> {Len(f) + 1}, lineage |-> {}, text |-> size, omitted |-> 0]
  PROVE  Accounts(Append(items, new), Append(f, size))
<1>0. PICK N \in Nat : N = Len(f)
  OBVIOUS
<1>1. PICK h : h = Append(f, size)
  BY Zenon
<1>2. /\ h \in Seq(Nat) /\ Len(h) = N + 1 /\ h[N + 1] = size /\ \A i \in 1 .. N : h[i] = f[i]
      /\ DOMAIN h = 1 .. N + 1 /\ DOMAIN f = 1 .. N
  BY <1>0, <1>1
<1>3. items \in Seq(MemoryRows(N))
  BY <1>0 DEF Accounts
<1>4. PICK m \in Nat : m = Len(items)
  BY <1>3
<1>5. DOMAIN items = 1 .. m
  BY <1>3, <1>4
<1>6. /\ \A i \in 1 .. m : Balanced(items[i], f)
      /\ \A i, j \in 1 .. m : i # j => Apart(items[i].raws, items[j].raws)
      /\ \A id \in 1 .. N : \E i \in 1 .. m : id \in items[i].raws
  <2>1. /\ \A i \in DOMAIN items : Balanced(items[i], f)
        /\ \A i, j \in DOMAIN items : i # j => Apart(items[i].raws, items[j].raws)
        /\ \A id \in DOMAIN f : \E i \in DOMAIN items : id \in items[i].raws
    BY Zenon DEF Accounts
  <2> QED
    BY <1>2, <1>5, <2>1, Zenon
<1>7. \A item \in MemoryRows(N) : item \in MemoryRows(N + 1)
  <2>1. \A s \in SUBSET (1 .. N) : s \in SUBSET (1 .. N + 1)
    OBVIOUS
  <2> QED
    BY <2>1 DEF MemoryRows
<1>8. /\ new \in MemoryRows(N + 1) /\ new.raws = {N + 1} /\ new.text = size /\ new.omitted = 0
  <2>1. IsFiniteSet({})
    BY FS_EmptySet
  <2>2. {N + 1} \in SUBSET (1 .. N + 1) /\ {} \in SUBSET SUBSET (1 .. N + 1)
    BY <1>0
  <2>3. new.raws = {N + 1} /\ new.lineage = {} /\ new.text = size /\ new.omitted = 0
    BY <1>0
  <2>4. new \in [raws : SUBSET (1 .. N + 1), lineage : SUBSET SUBSET (1 .. N + 1), text : Int, omitted : Int]
    BY <1>0, <2>2
  <2>5. new.raws # {} /\ IsFiniteSet(new.lineage)
    BY <2>1, <2>3
  <2> QED
    BY <2>3, <2>4, <2>5, Zenon DEF MemoryRows
<1>9. PICK all : all = Append(items, new)
  BY Zenon
<1>10. items \in Seq(MemoryRows(N + 1))
  <2>1. \A i \in 1 .. m : items[i] \in MemoryRows(N + 1)
    BY <1>3, <1>4, <1>7
  <2> QED
    BY <1>3, <1>4, <2>1
<1>11. /\ all \in Seq(MemoryRows(N + 1)) /\ DOMAIN all = 1 .. m + 1 /\ all[m + 1] = new
       /\ \A i \in 1 .. m : all[i] = items[i]
  BY <1>4, <1>8, <1>9, <1>10, SeqAppend
<1>12. ASSUME NEW i \in 1 .. m + 1 PROVE Balanced(all[i], h)
  <2>1. CASE i = m + 1
    <3>1. IsFiniteSet(new.raws) /\ NatTerms(h, new.raws)
      BY <1>2, <1>8, FS_Singleton, Zenon DEF NatTerms
    <3>2. Sum(h, new.raws) = h[N + 1]
      <4>1. PICK A : A = new.raws
        BY Zenon
      <4>2. IsFiniteSet(A) /\ NatTerms(h, A)
        BY <3>1, <4>1
      <4>3. \A x : A = {x} => Sum(h, A) = h[x]
        BY <4>2, MemorySums, Zenon
      <4>4. A = {N + 1}
        BY <1>8, <4>1
      <4> QED
        BY <4>1, <4>3, <4>4, Zenon
    <3>3. Cardinality(new.raws) = 1
      BY <1>8, FS_Singleton, Zenon
    <3>4. SeparatorBytes * (1 - 1) = 0
      BY FactorAssumption
    <3>5. size + 0 = size + 0
      OBVIOUS
    <3>6. new.text + new.omitted = Sum(h, new.raws) + SeparatorBytes * (Cardinality(new.raws) - 1)
      BY <1>2, <1>8, <3>2, <3>3, <3>4
    <3> QED
      BY <1>11, <2>1, <3>6, Zenon DEF Balanced
  <2>2. CASE i # m + 1
    <3>1. i \in 1 .. m /\ all[i] = items[i] /\ items[i] \in MemoryRows(N)
      BY <1>3, <1>4, <1>11, <2>2
    <3>2. items[i].raws \in SUBSET (1 .. N)
      BY <3>1 DEF MemoryRows
    <3>3. IsFiniteSet(items[i].raws) /\ NatTerms(f, items[i].raws)
      BY <1>0, <3>2, RawsAreFinite
    <3>4. \A x \in items[i].raws : f[x] = h[x]
      BY <1>2, <3>2
    <3>5. Sum(f, items[i].raws) = Sum(h, items[i].raws)
      BY <3>3, <3>4, MemorySumsDepend
    <3> QED
      BY <1>6, <3>1, <3>5 DEF Balanced
  <2> QED
    BY <2>1, <2>2
<1>13. ASSUME NEW i \in 1 .. m + 1, NEW j \in 1 .. m + 1, i # j PROVE Apart(all[i].raws, all[j].raws)
  <2>1. \A k \in 1 .. m : items[k].raws \in SUBSET (1 .. N)
    BY <1>3, <1>4 DEF MemoryRows
  <2>2. \A k \in 1 .. m : Apart(items[k].raws, new.raws) /\ Apart(new.raws, items[k].raws)
    <3> SUFFICES ASSUME NEW k \in 1 .. m PROVE Apart(items[k].raws, new.raws) /\ Apart(new.raws, items[k].raws)
      BY Zenon
    <3>1. N + 1 \notin items[k].raws
      <4>1. PICK A \in SUBSET (1 .. N) : A = items[k].raws
        BY <2>1
      <4>2. N + 1 \notin A
        OBVIOUS
      <4> QED
        BY <4>1, <4>2
    <3> QED
      BY <1>8, <3>1, Zenon DEF Apart
  <2>3. CASE i = m + 1
    <3>1. j \in 1 .. m
      BY <1>13, <2>3
    <3> QED
      BY <1>11, <2>2, <2>3, <3>1, Zenon
  <2>4. CASE j = m + 1
    <3>1. i \in 1 .. m
      BY <1>13, <2>4
    <3> QED
      BY <1>11, <2>2, <2>4, <3>1, Zenon
  <2>5. CASE i # m + 1 /\ j # m + 1
    <3>1. i \in 1 .. m /\ j \in 1 .. m
      BY <2>5
    <3> QED
      BY <1>6, <1>11, <1>13, <3>1, Zenon
  <2> QED
    BY <2>3, <2>4, <2>5
<1>14. ASSUME NEW id \in 1 .. N + 1 PROVE \E i \in 1 .. m + 1 : id \in all[i].raws
  <2>1. CASE id = N + 1
    <3>1. m + 1 \in 1 .. m + 1
      BY <1>4
    <3>2. all[m + 1].raws = {N + 1}
      BY <1>8, <1>11, Zenon
    <3> QED
      BY <2>1, <3>1, <3>2
  <2>2. CASE id # N + 1
    <3>1. id \in 1 .. N
      BY <2>2
    <3>2. PICK i \in 1 .. m : id \in items[i].raws
      BY <1>6, <3>1
    <3>3. i \in 1 .. m + 1 /\ id \in all[i].raws
      BY <1>11, <3>2
    <3> QED
      BY <3>3
  <2> QED
    BY <2>1, <2>2
<1>15. Accounts(all, h)
  BY <1>2, <1>11, <1>12, <1>13, <1>14, Zenon DEF Accounts
<1> QED
  BY <1>1, <1>9, <1>15

LEMMA MemoryStarts == MemoryInit => MemoryInv
<1> SUFFICES ASSUME MemoryInit PROVE MemoryInv
  OBVIOUS
<1>1. memory.items = <<>> /\ memory.appended = <<>>
  BY DEF MemoryInit
<1>2. Total(<<>>) = 0 /\ MaxItems \in Nat /\ MaxBytes \in Nat
  <2>1. PICK none : none = <<>>
    OBVIOUS
  <2>2. 0 \in Nat /\ none \in Seq(MemoryRows(0))
    BY <2>1
  <2>3. Total(none) = 0
    BY <2>1, <2>2, TotalsAreIntegers, Zenon
  <2> QED
    BY <2>1, <2>3, FactorAssumption
<1> QED
  BY <1>1, <1>2 DEF MemoryInv, Accounts, WithinBounds

LEMMA MemoryStep == MemoryInv /\ [MemoryNext]_memoryVars => MemoryInv'
<1> SUFFICES ASSUME MemoryInv, [MemoryNext]_memoryVars PROVE MemoryInv'
  OBVIOUS
<1>1. CASE UNCHANGED memoryVars
  BY <1>1 DEF memoryVars, MemoryInv
<1>2. CASE MemoryNext
  <2>1. PICK size \in ItemSizes : AppendMemory(size)
    BY <1>2 DEF MemoryNext
  <2>2. size \in Nat
    BY FactorAssumption
  <2>3. PICK f \in Seq(Nat) : f = memory.appended
    BY DEF MemoryInv
  <2>4. PICK new : new = [raws |-> {Len(f) + 1}, lineage |-> {}, text |-> size, omitted |-> 0]
    BY Zenon
  <2>5. PICK all : all = Append(memory.items, new)
    BY Zenon
  <2>6. PICK h : h = Append(f, size)
    BY Zenon
  <2>7. Fitted(all) # <<>> /\ memory' = [items |-> Fitted(all), appended |-> h]
    BY <2>1, <2>3, <2>4, <2>5, <2>6 DEF AppendMemory
  <2>8. h \in Seq(Nat) /\ Accounts(all, h)
    <3>1. Accounts(memory.items, f)
      BY <2>3 DEF MemoryInv
    <3>2. PICK items : items = memory.items
      OBVIOUS
    <3>3. Accounts(Append(items, new), Append(f, size))
      BY <2>2, <2>4, <3>1, <3>2, AppendAccounts
    <3>4. Append(f, size) \in Seq(Nat)
      BY <2>2, <2>3
    <3> QED
      BY <2>5, <2>6, <3>2, <3>3, <3>4
  <2>9. Accounts(Fitted(all), h) /\ WithinBounds(Fitted(all))
    <3>1. all \in Seq(MemoryRows(Len(h)))
      BY <2>8 DEF Accounts
    <3> QED
      BY <2>7, <2>8, <3>1, FittedAccounts
  <2>10. memory'.items = Fitted(all) /\ memory'.appended = h
    BY <2>7
  <2> QED
    BY <2>8, <2>9, <2>10 DEF MemoryInv
<1> QED
  BY <1>1, <1>2

\* The memory's part of a behaviour of the workbench.
LEMMA MemoryPart == Spec => MemorySpec
<1>1. Init => MemoryInit
  BY DEF Init
<1>2. [Next]_vars => [MemoryNext]_memoryVars
  BY DEF Next, Rest, vars
<1> QED
  BY <1>1, <1>2, PTL DEF Spec, MemorySpec

\* An item in exactly one of disjoint sets is counted once.
LEMMA AccountsCountOnce ==
  ASSUME NEW f \in Seq(Nat), NEW items, Accounts(items, f), NEW id \in DOMAIN f
  PROVE  Cardinality({i \in DOMAIN items : id \in items[i].raws}) = 1
<1>1. PICK i \in DOMAIN items : id \in items[i].raws
  BY DEF Accounts
<1>2. \A j \in DOMAIN items : id \in items[j].raws => j = i
  BY <1>1 DEF Accounts, Apart
<1>3. {j \in DOMAIN items : id \in items[j].raws} = {i}
  BY <1>1, <1>2
<1> QED
  BY <1>3, FS_Singleton, Zenon

LEMMA MemoryAccounts == Spec => []MemoryAccountsForAll
<1>1. MemoryInv => MemoryAccountsForAll
  <2> SUFFICES ASSUME MemoryInv PROVE MemoryAccountsForAll
    OBVIOUS
  <2>1. PICK f \in Seq(Nat) : f = memory.appended
    BY DEF MemoryInv
  <2>2. PICK items : items = memory.items
    OBVIOUS
  <2>3. Accounts(items, f) /\ WithinBounds(items)
    BY <2>1, <2>2 DEF MemoryInv
  <2>4. \A id \in DOMAIN f : Cardinality({i \in DOMAIN items : id \in items[i].raws}) = 1
    BY <2>3, AccountsCountOnce
  <2>5. \A i \in DOMAIN items : Balanced(items[i], f)
    BY <2>3, Zenon DEF Accounts
  <2> QED
    BY <2>1, <2>2, <2>3, <2>4, <2>5 DEF MemoryAccountsForAll, WithinBounds, Balanced
<1> QED
  BY <1>1, MemoryStarts, MemoryStep, MemoryPart, PTL DEF MemorySpec

\* The result of an attempt was delivered in its own preparation, and its memory
\* keeps its bounds and accounts for every item and every byte appended to it,
\* for any bounds, sizes and number of appends.
THEOREM TreatmentsAreAccounted == Spec => []TreatmentIsAccounted
BY ResultsWereDelivered, MemoryAccounts, PTL DEF TreatmentIsAccounted

-----------------------------------------------------------------------------
(***************************************************************************)
(* Legacy runs.  The story of a run is told by four things that change     *)
(* apart: its state, its coroutines, the events in its queue and the row   *)
(* in the table.  Until the run ends they agree on which scaffolds have    *)
(* returned and on what was last said of each; a terminal event is put     *)
(* only when every coroutine has returned, and nothing can follow it.  For *)
(* the spend, a coroutine that passed the check and has not spent yet is   *)
(* counted as one call to come.                                            *)
(***************************************************************************)
ResultRows == [scaffold : Scaffolds, score : Scores \union {Failure}]

RunRows ==
    [state : {"absent", "created", "running", "done", "abandoned", "evicted"},
     req : Requests \union {NoRun}, cancelled : BOOLEAN, expired : BOOLEAN, results : Seq(ResultRows)]

CallKinds == {"complete", "stream"}

TaskRows ==
    [pc : {"none", "ready", "gap", "call", "retry", "closing", "evaluate", "judging", "done"},
     program : Seq(CallKinds), phase : Nat, retries : Nat, output : {"", "text"}, tokens : Nat, own : Nat]

EventRows ==
    [type : {"run_started", "comparison_started", "scaffold_started", "scaffold_completed", "scaffold_failed",
             "evaluation_completed", "run_complete", "comparison_complete"},
     scaffold : Scaffolds \union {"none"}]

LegacyTypes ==
    /\ run \in [Runs -> RunRows]
    /\ task \in [Runs -> Seq(TaskRows)]
    /\ emitted \in [Runs -> Seq(EventRows)]
    /\ stored = [r \in Runs |-> stored[r]]
    /\ spend \in [daily : Nat, perRun : [Runs -> Nat]]
    /\ usage \in [Runs -> Nat]

\* The last thing events say of a scaffold is that it failed (ShownFailed).
FailedIn(es, s) ==
    \E i \in DOMAIN es : /\ es[i] = Event("scaffold_failed", s)
                         /\ \A j \in i + 1 .. Len(es) : es[j] # Event("evaluation_completed", s)

OneEach(results) == \A j, k \in DOMAIN results : results[j].scaffold = results[k].scaffold => j = k

Named(results, s) == \E k \in DOMAIN results : results[k].scaffold = s

Scored(results, s, score) == \E k \in DOMAIN results : results[k].scaffold = s /\ results[k].score = score

FailuresShown(results, es) == \A s \in Scaffolds : FailedIn(es, s) <=> Scored(results, s, Failure)

\* What the results of a run under way say of its coroutines.
ArenaProgress(results, seq, ts, es) ==
    /\ OneEach(results)
    /\ \A i \in DOMAIN ts : ts[i].pc = "done" => Named(results, seq[i])
    /\ \A k \in DOMAIN results : \E i \in DOMAIN ts : ts[i].pc = "done" /\ results[k].scaffold = seq[i]
    /\ FailuresShown(results, es)

\* The cases of a comparison run one after the other.
CaseProgress(results, seq, ts) ==
    /\ DOMAIN results \subseteq DOMAIN ts
    /\ \A i \in DOMAIN ts : ts[i].pc = "done" <=> i \in DOMAIN results
    /\ \A i \in DOMAIN ts : ts[i].pc \notin {"none", "done"} => i = Len(results) + 1
    /\ \A k \in DOMAIN results : results[k].scaffold = seq[k]

RunOutcome(x, es) ==
    LET seq == x.req.scaffolds IN
    IF x.req.kind = "comparison"
    THEN Len(x.results) = Len(seq) /\ \A k \in DOMAIN x.results : x.results[k].scaffold = seq[k]
    ELSE /\ OneEach(x.results)
         /\ \A i \in DOMAIN seq : Named(x.results, seq[i])
         /\ \A k \in DOMAIN x.results : \E i \in DOMAIN seq : x.results[k].scaffold = seq[i]
         /\ FailuresShown(x.results, es)
         /\ \A k \in DOMAIN x.results : x.results[k].scaffold = es[Len(es)].scaffold => x.results[k].score # Failure

TerminalLast(es) == \A i \in DOMAIN es : es[i].type \in Terminal => i = Len(es)

NoTerminal(es) == \A i \in DOMAIN es : es[i].type \notin Terminal

Story(x, ts, es, w) ==
    /\ x.state = "absent" => ts = <<>> /\ es = <<>> /\ w = NoRun
    /\ x.state \in {"created", "running", "done", "abandoned"} =>
          x.req \in Requests /\ x.req.scaffolds \in Seq(Scaffolds) /\ DOMAIN ts = DOMAIN x.req.scaffolds
    /\ x.state = "created" => /\ es = <<>> /\ w = NoRun /\ x.results = <<>>
                              /\ \A i \in DOMAIN ts : ts[i].pc = "none"
    /\ x.state = "running" =>
          /\ w = NoRun /\ NoTerminal(es)
          /\ IF x.req.kind = "comparison" THEN CaseProgress(x.results, x.req.scaffolds, ts)
             ELSE ArenaProgress(x.results, x.req.scaffolds, ts, es)
    /\ x.state = "abandoned" => w = NoRun /\ TerminalLast(es)
    /\ x.state \in {"done", "evicted"} =>
          /\ TerminalLast(es) /\ es # <<>> /\ es[Len(es)].type \in Terminal
          /\ w # NoRun => w.winner = es[Len(es)].scaffold
    /\ x.state = "done" => RunOutcome(x, es) /\ (w # NoRun => w.results = x.results)

\* The coroutines between the check and the spending.
Pending(ts) == {i \in DOMAIN ts : ts[i].pc \in {"call", "judging"}}

Spending(n, ts) == n + CallCeiling * Cardinality(Pending(ts)) < RunLimit + CallCeiling * Len(ts)

LegacyInv ==
    /\ LegacyTypes
    /\ \A r \in Runs : Story(run[r], task[r], emitted[r], stored[r])
    /\ \A r \in Runs : Spending(spend.perRun[r], task[r])

LEMMA CeilingIs ==
  /\ CallCeiling \in Nat
  /\ \A s \in Scaffolds : CostOf[s] \in 0 .. CallCeiling
<1> USE LegacyAssumption DEF Scaffolds
<1> DEFINE C == {CostOf[s] : s \in Scaffolds}
<1>1. C \in SUBSET Nat /\ C # {} /\ C \in SUBSET Int
  OBVIOUS
<1>2. IsFiniteSet(C)
  <2>1. CostOf \in Surjection(Scaffolds, C)
    BY DEF Surjection
  <2> QED
    BY <2>1, FS_Surjection
<1> HIDE DEF C
<1>3. \E n \in C : \A m \in C : m <= n
  BY <1>1, <1>2, GreatestNumber
<1>4. \E n \in C : \A m \in C : n >= m
  BY <1>1, <1>3
<1>5. CallCeiling \in C /\ \A m \in C : CallCeiling >= m
  BY <1>4, Zenon DEF CallCeiling, Max, C
<1> QED
  BY <1>1, <1>5 DEF C

LEMMA PendingFits ==
  ASSUME NEW ts \in Seq(TaskRows)
  PROVE  IsFiniteSet(Pending(ts)) /\ Cardinality(Pending(ts)) \in Nat /\ Cardinality(Pending(ts)) <= Len(ts)
<1>1. Len(ts) \in Nat /\ DOMAIN ts = 1 .. Len(ts)
  BY SeqShape
<1>2. IsFiniteSet(1 .. Len(ts)) /\ Cardinality(1 .. Len(ts)) = Len(ts)
  BY <1>1, FS_Interval
<1>3. Pending(ts) \in SUBSET (1 .. Len(ts))
  BY <1>1 DEF Pending
<1> QED
  BY <1>1, <1>2, <1>3, FS_Subset, FS_CardinalityType

\* One coroutine moves: it gives up its call, passes the check, or spends.
LEMMA SpendingKept ==
  ASSUME NEW ts \in Seq(TaskRows), NEW i \in DOMAIN ts, NEW t \in TaskRows, NEW n \in Nat, NEW m \in Nat,
         Spending(n, ts),
         \/ m = n /\ t.pc \notin {"call", "judging"}
         \/ m = n /\ n < RunLimit
         \/ m <= n + CallCeiling /\ ts[i].pc \in {"call", "judging"} /\ t.pc \notin {"call", "judging"}
  PROVE  Spending(m, [ts EXCEPT ![i] = t])
<1>1. PICK us : us = [ts EXCEPT ![i] = t]
  BY Zenon
<1>2. us \in Seq(TaskRows) /\ Len(us) = Len(ts) /\ DOMAIN us = DOMAIN ts /\ us[i] = t
      /\ \A j \in DOMAIN ts : j # i => us[j] = ts[j]
  BY <1>1, SeqExcept, SeqShape
<1>3. PICK c \in Nat : c = CallCeiling
  BY CeilingIs
<1>4. PICK p \in Nat : p = Cardinality(Pending(ts)) /\ p <= Len(ts)
  BY PendingFits
<1>5. PICK q \in Nat : q = Cardinality(Pending(us)) /\ q <= Len(us)
  BY <1>2, PendingFits
<1>6. PICK k \in Nat : k = Len(ts)
  BY SeqShape
<1>7. PICK limit \in Nat : limit = RunLimit /\ limit # 0
  BY LegacyAssumption
<1>8. n + c * p < limit + c * k
  BY <1>3, <1>4, <1>6, <1>7 DEF Spending
<1>9. m + c * q < limit + c * k
  <2>1. CASE m = n /\ t.pc \notin {"call", "judging"}
    <3>1. Pending(us) \in SUBSET Pending(ts)
      BY <1>2, <2>1 DEF Pending
    <3>2. q <= p
      BY <1>4, <1>5, <3>1, PendingFits, FS_Subset
    <3>3. c * q <= c * p
      BY <3>2
    <3> QED
      BY <1>8, <2>1, <3>3
  <2>2. CASE m = n /\ n < RunLimit
    <3>1. c * q <= c * k
      BY <1>2, <1>5, <1>6
    <3> QED
      BY <1>7, <2>2, <3>1
  <2>3. CASE m <= n + CallCeiling /\ ts[i].pc \in {"call", "judging"} /\ t.pc \notin {"call", "judging"}
    <3>1. Pending(us) = Pending(ts) \ {i} /\ i \in Pending(ts)
      BY <1>2, <2>3 DEF Pending
    <3>2. q = p - 1
      <4>1. IsFiniteSet(Pending(ts))
        BY PendingFits
      <4>2. Cardinality(Pending(ts) \ {i}) = Cardinality(Pending(ts)) - 1
        BY <3>1, <4>1, FS_RemoveElement, Zenon
      <4> QED
        BY <1>4, <1>5, <3>1, <4>2
    <3>3. c * q = c * p - c
      BY <3>2
    <3> QED
      BY <1>3, <1>8, <2>3, <3>3
  <2> QED
    BY <2>1, <2>2, <2>3
<1> QED
  BY <1>1, <1>2, <1>3, <1>5, <1>6, <1>7, <1>9 DEF Spending

LEMMA NoPending ==
  ASSUME NEW ts \in Seq(TaskRows), \A i \in DOMAIN ts : ts[i].pc \notin {"call", "judging"}
  PROVE  \A n \in Nat : Spending(n, ts) <=> n < RunLimit + CallCeiling * Len(ts)
<1>1. Pending(ts) = {}
  BY DEF Pending
<1>2. Cardinality(Pending(ts)) = 0
  BY <1>1, FS_EmptySet
<1>3. CallCeiling * 0 = 0
  BY CeilingIs
<1> QED
  BY <1>2, <1>3 DEF Spending

LEMMA EventIs ==
  ASSUME NEW s \in Scaffolds \union {"none"},
         NEW type \in {"run_started", "comparison_started", "scaffold_started", "scaffold_completed", "scaffold_failed",
                       "evaluation_completed", "run_complete", "comparison_complete"}
  PROVE  Event(type, s) \in EventRows /\ Event(type, s).type = type /\ Event(type, s).scaffold = s
BY DEF Event, EventRows

LEMMA AppendIs ==
  ASSUME NEW S, NEW es \in Seq(S), NEW e \in S
  PROVE  /\ es \o <<e>> \in Seq(S) /\ Len(es \o <<e>>) = Len(es) + 1
         /\ DOMAIN (es \o <<e>>) = 1 .. Len(es) + 1 /\ DOMAIN es = 1 .. Len(es) /\ Len(es) \in Nat
         /\ (es \o <<e>>)[Len(es) + 1] = e /\ \A j \in 1 .. Len(es) : (es \o <<e>>)[j] = es[j]
<1>1. <<e>> \in Seq(S) /\ Len(<<e>>) = 1 /\ <<e>>[1] = e
  OBVIOUS
<1>2. PICK n \in Nat : n = Len(es) /\ DOMAIN es = 1 .. n
  BY SeqShape
<1>3. PICK fs : fs = es \o <<e>>
  BY Zenon
<1>4. fs \in Seq(S) /\ Len(fs) = n + 1
  BY <1>1, <1>2, <1>3, SeqJoin
<1>5. \A j \in 1 .. n + 1 : fs[j] = IF j <= n THEN es[j] ELSE <<e>>[j - n]
  BY <1>1, <1>2, <1>3, SeqJoin
<1>6. DOMAIN fs = 1 .. n + 1
  BY <1>4, SeqShape
<1>7. fs[n + 1] = e
  <2>1. n + 1 \in 1 .. n + 1 /\ ~ (n + 1 <= n) /\ (n + 1) - n = 1
    OBVIOUS
  <2> QED
    BY <1>1, <1>5, <2>1
<1>8. \A j \in 1 .. n : fs[j] = es[j]
  BY <1>5
<1> QED
  BY <1>2, <1>3, <1>4, <1>6, <1>7, <1>8

\* One more event: what was last said of a scaffold, and whether it is the end.
LEMMA EmitOne ==
  ASSUME NEW es \in Seq(EventRows), NEW e \in EventRows, NoTerminal(es), NEW s
  PROVE  /\ e.type \notin Terminal => NoTerminal(es \o <<e>>)
         /\ TerminalLast(es \o <<e>>) /\ es \o <<e>> # <<>> /\ (es \o <<e>>)[Len(es \o <<e>>)] = e
         /\ FailedIn(es \o <<e>>, s) <=>
              e = Event("scaffold_failed", s) \/ (FailedIn(es, s) /\ e # Event("evaluation_completed", s))
<1>1. PICK n \in Nat : n = Len(es) /\ DOMAIN es = 1 .. n
  BY SeqShape
<1>2. PICK fs : fs = es \o <<e>>
  BY Zenon
<1>3. Len(fs) = n + 1 /\ DOMAIN fs = 1 .. n + 1 /\ fs[n + 1] = e /\ \A j \in 1 .. n : fs[j] = es[j]
  BY <1>1, <1>2, AppendIs
<1>4. (e.type \notin Terminal => NoTerminal(fs)) /\ TerminalLast(fs) /\ fs # <<>>
  <2>1. \A j \in 1 .. n + 1 : j \in 1 .. n \/ j = n + 1
    OBVIOUS
  <2> QED
    BY <1>1, <1>3, <2>1 DEF NoTerminal, TerminalLast
<1>5. ASSUME FailedIn(fs, s)
      PROVE  e = Event("scaffold_failed", s) \/ (FailedIn(es, s) /\ e # Event("evaluation_completed", s))
  <2>1. PICK i \in 1 .. n + 1 : fs[i] = Event("scaffold_failed", s)
                                /\ \A j \in i + 1 .. n + 1 : fs[j] # Event("evaluation_completed", s)
    BY <1>3, <1>5 DEF FailedIn
  <2>2. CASE i = n + 1
    BY <1>3, <2>1, <2>2
  <2>3. CASE i # n + 1
    <3>1. i \in 1 .. n /\ n + 1 \in i + 1 .. n + 1 /\ \A j \in i + 1 .. n : j \in i + 1 .. n + 1 /\ j \in 1 .. n
      BY <2>1, <2>3
    <3> QED
      BY <1>1, <1>3, <2>1, <3>1 DEF FailedIn
  <2> QED
    BY <2>2, <2>3
<1>6. ASSUME e = Event("scaffold_failed", s)
      PROVE  FailedIn(fs, s)
  <2>1. n + 1 \in 1 .. n + 1 /\ (n + 1) + 1 .. n + 1 = {}
    OBVIOUS
  <2> QED
    BY <1>3, <1>6, <2>1 DEF FailedIn
<1>7. ASSUME FailedIn(es, s), e # Event("evaluation_completed", s)
      PROVE  FailedIn(fs, s)
  <2>1. PICK i \in 1 .. n : es[i] = Event("scaffold_failed", s)
                            /\ \A j \in i + 1 .. n : es[j] # Event("evaluation_completed", s)
    BY <1>1, <1>7 DEF FailedIn
  <2>2. i \in 1 .. n + 1 /\ \A j \in i + 1 .. n + 1 : j = n + 1 \/ (j \in i + 1 .. n /\ j \in 1 .. n)
    OBVIOUS
  <2> QED
    BY <1>3, <1>7, <2>1, <2>2, Zenon DEF FailedIn
<1> QED
  BY <1>2, <1>3, <1>4, <1>5, <1>6, <1>7

LEMMA ResultRowIs ==
  ASSUME NEW s \in Scaffolds, NEW score \in Scores \union {Failure}
  PROVE  [scaffold |-> s, score |-> score] \in ResultRows
BY DEF ResultRows

\* What assigning results[s] in the dict does.
LEMMA WithResultIs ==
  ASSUME NEW results \in Seq(ResultRows), NEW s \in Scaffolds, NEW score \in Scores \union {Failure},
         OneEach(results),
         NEW new, new = WithResult(results, s, score)
  PROVE  /\ new \in Seq(ResultRows) /\ OneEach(new)
         /\ Scored(new, s, score)
         /\ \A q, c : q # s => (Scored(new, q, c) <=> Scored(results, q, c))
         /\ \A q : Named(new, q) <=> q = s \/ Named(results, q)
<1>1. PICK n \in Nat : n = Len(results) /\ DOMAIN results = 1 .. n
  BY SeqShape
<1>2. PICK x \in ResultRows : x = [scaffold |-> s, score |-> score] /\ x.scaffold = s /\ x.score = score
  BY ResultRowIs, Zenon
<1>3. \A i \in 1 .. n : results[i] \in ResultRows
  BY <1>1, SeqMember
<1>4. CASE \E i \in DOMAIN results : results[i].scaffold = s
  <2>1. new = [i \in 1 .. n |-> IF results[i].scaffold = s THEN x ELSE results[i]]
    BY <1>1, <1>2, <1>4, Zenon DEF WithResult
  <2>2. new \in [1 .. n -> ResultRows]
    BY <1>3, <2>1
  <2>3. new \in Seq(ResultRows) /\ DOMAIN new = 1 .. n
    BY <2>2, SeqUnfolds
  <2>4. \A i \in 1 .. n : new[i] = IF results[i].scaffold = s THEN x ELSE results[i]
    BY <2>1
  <2>5. \A i \in 1 .. n : new[i].scaffold = results[i].scaffold
    BY <1>2, <2>4
  <2>6. OneEach(new)
    BY <1>1, <2>3, <2>5 DEF OneEach
  <2>7. Scored(new, s, score)
    BY <1>1, <1>2, <1>4, <2>3, <2>4 DEF Scored
  <2>8. ASSUME NEW q, NEW c, q # s
        PROVE  Scored(new, q, c) <=> Scored(results, q, c)
    BY <1>1, <1>2, <2>3, <2>4, <2>8 DEF Scored
  <2>9. ASSUME NEW q
        PROVE  Named(new, q) <=> q = s \/ Named(results, q)
    BY <1>1, <1>4, <2>3, <2>5, Zenon DEF Named
  <2> QED
    BY <2>3, <2>6, <2>7, <2>8, <2>9
<1>5. CASE ~ \E i \in DOMAIN results : results[i].scaffold = s
  <2>1. new = Append(results, x)
    BY <1>2, <1>5 DEF WithResult
  <2>2. new \in Seq(ResultRows) /\ Len(new) = n + 1 /\ new[n + 1] = x /\ \A i \in 1 .. n : new[i] = results[i]
    BY <1>1, <2>1, SeqAppend
  <2>3. DOMAIN new = 1 .. n + 1
    BY <2>2, SeqShape
  <2>4. n + 1 \in 1 .. n + 1 /\ (\A i \in 1 .. n + 1 : i \in 1 .. n \/ i = n + 1) /\ \A i \in 1 .. n : i \in 1 .. n + 1
    OBVIOUS
  <2>5. OneEach(new)
    BY <1>1, <1>2, <1>5, <2>2, <2>3, <2>4 DEF OneEach
  <2>6. Scored(new, s, score)
    BY <1>2, <2>2, <2>3, <2>4 DEF Scored
  <2>7. ASSUME NEW q, NEW c, q # s
        PROVE  Scored(new, q, c) <=> Scored(results, q, c)
    BY <1>1, <1>2, <2>2, <2>3, <2>4, <2>7 DEF Scored
  <2>8. ASSUME NEW q
        PROVE  Named(new, q) <=> q = s \/ Named(results, q)
    BY <1>1, <1>2, <2>2, <2>3, <2>4 DEF Named
  <2> QED
    BY <2>2, <2>5, <2>6, <2>7, <2>8
<1> QED
  BY <1>4, <1>5

ScoredRows == [scaffold : Scaffolds, score : Int]

\* A result that scored, higher than the ones before it and as high as the rest.
FirstBest(results, i) ==
    /\ results[i].score # Failure
    /\ \A j \in DOMAIN results : results[j].score # Failure =>
          results[j].score <= results[i].score /\ (j < i => results[j].score < results[i].score)

\* The winner is the first scaffold with the highest score, or nobody scored.
LEMMA WinnerIs ==
  ASSUME NEW results \in Seq(ScoredRows)
  PROVE  \/ Winner(results) = "none" /\ \A i \in DOMAIN results : results[i].score = Failure
         \/ \E i \in DOMAIN results : FirstBest(results, i) /\ Winner(results) = results[i].scaffold
<1>1. PICK n \in Nat : n = Len(results) /\ DOMAIN results = 1 .. n
  BY SeqShape
<1> DEFINE scored == {i \in DOMAIN results : results[i].score # Failure}
           best == {i \in scored : \A j \in scored : /\ results[j].score <= results[i].score
                                                     /\ j < i => results[j].score < results[i].score}
<1>2. scored = {i \in DOMAIN results : results[i].score # Failure}
  OBVIOUS
<1>4. Winner(results) = IF scored = {} THEN "none" ELSE results[CHOOSE i \in best : TRUE].scaffold
  BY Zenon DEF Winner
<1> HIDE DEF scored, best
<1>5. ASSUME scored # {}
      PROVE  best # {}
  <2>1. scored \in SUBSET (1 .. n) /\ scored \in SUBSET Nat
    BY <1>1, <1>2
  <2>2. \A i \in scored : results[i] \in ScoredRows
    BY <1>1, <1>2, SeqMember
  <2>3. PICK f : f = [i \in scored |-> results[i].score]
    BY Zenon
  <2>4. \A i \in scored : f[i] = results[i].score /\ f[i] \in Int
    BY <2>2, <2>3 DEF ScoredRows
  <2> DEFINE S == {f[i] : i \in scored}
  <2>5. S \in SUBSET Int /\ S # {}
    BY <1>5, <2>4
  <2>6. IsFiniteSet(scored)
    <3>1. IsFiniteSet(1 .. n)
      BY FS_Interval
    <3> QED
      BY <2>1, <3>1, FS_Subset, Zenon
  <2>7. IsFiniteSet(S)
    <3>1. f \in Surjection(scored, S)
      BY <2>3 DEF Surjection
    <3> HIDE DEF S
    <3> QED
      BY <2>6, <3>1, FS_Surjection
  <2>8. PICK g \in S : \A m \in S : m <= g
    <3> HIDE DEF S
    <3> QED
      BY <2>5, <2>7, GreatestNumber
  <2> DEFINE Top == {i \in scored : f[i] = g}
  <2>9. Top \in SUBSET Nat /\ Top # {}
    BY <2>1, <2>8, Zenon
  <2>10. PICK i \in Top : \A m \in Top : i <= m
    <3> HIDE DEF Top
    <3> QED
      BY <2>9, LeastNumber, Zenon
  <2>11. i \in scored /\ f[i] = g /\ g \in Int
    BY <2>5, <2>8, <2>10
  <2>12. ASSUME NEW j \in scored
         PROVE  f[j] <= f[i] /\ (j < i => f[j] < f[i])
    <3>1. f[j] <= g /\ f[j] \in Int
      BY <2>4, <2>8
    <3>2. f[j] = g => i <= j
      BY <2>10
    <3>3. i \in Nat /\ j \in Nat
      BY <2>1, <2>11
    <3> QED
      BY <2>11, <3>1, <3>2, <3>3
  <2>13. i \in best
    BY <2>4, <2>11, <2>12 DEF best
  <2> QED
    BY <2>13
<1>6. CASE scored = {}
  BY <1>2, <1>4, <1>6
<1>7. CASE scored # {}
  <2>1. PICK i : i = CHOOSE j \in best : TRUE
    OBVIOUS
  <2>2. i \in best /\ Winner(results) = results[i].scaffold
    BY <1>4, <1>5, <1>7, <2>1
  <2>3. i \in DOMAIN results /\ FirstBest(results, i)
    BY <1>2, <2>2 DEF best, FirstBest
  <2> QED
    BY <2>2, <2>3
<1> QED
  BY <1>6, <1>7

\* The results as a comparison ranks them: a failure counts as zero.
Zeroed(results) == [i \in DOMAIN results |-> [results[i] EXCEPT !.score = IF @ = Failure THEN 0 ELSE @]]

LEMMA ZeroedIs ==
  ASSUME NEW results \in Seq(ResultRows)
  PROVE  /\ results \in Seq(ScoredRows) /\ Zeroed(results) \in Seq(ScoredRows)
         /\ DOMAIN Zeroed(results) = DOMAIN results
         /\ \A i \in DOMAIN results : /\ Zeroed(results)[i].scaffold = results[i].scaffold
                                       /\ Zeroed(results)[i].score = IF results[i].score = Failure THEN 0
                                                                     ELSE results[i].score
<1>1. PICK n \in Nat : n = Len(results) /\ DOMAIN results = 1 .. n
  BY SeqShape
<1>2. \A i \in 1 .. n : results[i] \in ResultRows
  BY <1>1, SeqMember
<1>3. ResultRows \subseteq ScoredRows
  <2>1. \A c \in Scores \union {Failure} : c \in Int
    BY LegacyAssumption DEF Failure
  <2> QED
    BY <2>1 DEF ResultRows, ScoredRows
<1>4. results \in Seq(ScoredRows)
  BY <1>3, SeqWidens
<1>5. PICK zs : zs = [i \in DOMAIN results |-> [results[i] EXCEPT !.score = IF @ = Failure THEN 0 ELSE @]]
  BY Zenon
<1>6. zs = Zeroed(results)
  BY <1>5 DEF Zeroed
<1>7. \A i \in 1 .. n : zs[i] = [results[i] EXCEPT !.score = IF results[i].score = Failure THEN 0 ELSE results[i].score]
  BY <1>1, <1>5
<1>8. ASSUME NEW i \in 1 .. n
      PROVE  /\ zs[i] \in ScoredRows /\ zs[i].scaffold = results[i].scaffold
             /\ zs[i].score = IF results[i].score = Failure THEN 0 ELSE results[i].score
  <2>1. PICK c \in Int : c = IF results[i].score = Failure THEN 0 ELSE results[i].score
    BY <1>2, <1>3 DEF ScoredRows
  <2>2. PICK x \in ScoredRows : x = results[i]
    BY <1>2, <1>3
  <2>3. PICK y : y = [x EXCEPT !.score = c]
    BY Zenon
  <2>4. y \in ScoredRows /\ y.scaffold = x.scaffold /\ y.score = c
    BY <2>2, <2>3 DEF ScoredRows
  <2> QED
    BY <1>7, <2>1, <2>2, <2>3, <2>4, Zenon
<1>9. zs \in [1 .. n -> ScoredRows]
  BY <1>1, <1>5, <1>8
<1>10. zs \in Seq(ScoredRows) /\ DOMAIN zs = 1 .. n
  BY <1>9, SeqUnfolds
<1> QED
  BY <1>1, <1>4, <1>6, <1>8, <1>10

LEMMA WinnersAreNamed ==
  ASSUME NEW results \in Seq(ResultRows)
  PROVE  /\ Winner(results) \in Scaffolds \union {"none"}
         /\ ComparisonWinner(results) \in Scaffolds \union {"none"}
         /\ OneEach(results) => \A k \in DOMAIN results :
                                    results[k].scaffold = Winner(results) => results[k].score # Failure
<1>1. PICK n \in Nat : n = Len(results) /\ DOMAIN results = 1 .. n
  BY SeqShape
<1>2. \A i \in 1 .. n : results[i] \in ResultRows
  BY <1>1, SeqMember
<1>4. results \in Seq(ScoredRows)
  BY ZeroedIs
<1>5. Winner(results) \in Scaffolds \union {"none"}
  BY <1>1, <1>2, <1>4, WinnerIs DEF ResultRows
<1>6. ComparisonWinner(results) \in Scaffolds \union {"none"}
  <2>1. ComparisonWinner(results) = Winner(Zeroed(results))
    BY DEF ComparisonWinner, Zeroed
  <2>2. \A i \in DOMAIN results : results[i].scaffold \in Scaffolds
    BY <1>1, <1>2 DEF ResultRows
  <2>3. PICK zs \in Seq(ScoredRows) : zs = Zeroed(results)
    BY ZeroedIs
  <2> QED
    BY <2>1, <2>2, <2>3, ZeroedIs, WinnerIs
<1>7. ASSUME OneEach(results), NEW k \in DOMAIN results, results[k].scaffold = Winner(results)
      PROVE  results[k].score # Failure
  <2>1. results[k].scaffold \in Scaffolds /\ "none" \notin Scaffolds
    BY <1>1, <1>2, LegacyAssumption DEF ResultRows, Scaffolds
  <2>2. PICK i \in DOMAIN results : results[i].score # Failure /\ Winner(results) = results[i].scaffold
    BY <1>4, <1>7, <2>1, WinnerIs DEF FirstBest
  <2>3. i = k
    BY <1>7, <2>2 DEF OneEach
  <2> QED
    BY <2>2, <2>3
<1> QED
  BY <1>5, <1>6, <1>7

LEMMA ProgramsAre == \A s \in Scaffolds : Programs(s) \subseteq Seq(CallKinds)
<1>1. /\ <<"stream">> \in Seq(CallKinds) /\ <<"complete">> \in Seq(CallKinds)
      /\ <<"stream", "stream">> \in Seq(CallKinds) /\ <<"complete", "stream", "complete">> \in Seq(CallKinds)
      /\ <<"stream", "complete", "stream">> \in Seq(CallKinds)
  BY DEF CallKinds
<1>2. ASSUME NEW n \in 1 .. MaxSubtasks
      PROVE  <<"complete">> \o [i \in 1 .. n |-> "complete"] \o <<"stream", "complete", "stream">> \in Seq(CallKinds)
  <2>1. [i \in 1 .. n |-> "complete"] \in [1 .. n -> CallKinds] /\ n \in Nat
    BY DEF CallKinds
  <2>2. [i \in 1 .. n |-> "complete"] \in Seq(CallKinds)
    BY <2>1, SeqUnfolds
  <2>3. <<"complete">> \o [i \in 1 .. n |-> "complete"] \in Seq(CallKinds)
    BY <1>1, <2>2, SeqJoin
  <2> QED
    BY <1>1, <2>3, SeqJoin
<1>3. MemoryCritique \subseteq Seq(CallKinds)
  BY <1>2, Zenon DEF MemoryCritique
<1>4. Bare \subseteq Seq(CallKinds) /\ PlanExecuteVerify \subseteq Seq(CallKinds)
      /\ ToolErrorRecovery \subseteq Seq(CallKinds)
  BY <1>1 DEF Bare, PlanExecuteVerify, ToolErrorRecovery
<1> QED
  BY <1>3, <1>4 DEF Programs

\* The coroutine moves on without returning.
LEMMA StoryMoves ==
  ASSUME NEW x, NEW ts \in Seq(TaskRows), NEW es, NEW fs, NEW w, Story(x, ts, es, w), x.state = "running",
         NEW i \in DOMAIN ts, NEW t \in TaskRows,
         ts[i].pc \notin {"none", "done"}, t.pc \notin {"none", "done"},
         NoTerminal(fs), \A s \in Scaffolds : FailedIn(fs, s) <=> FailedIn(es, s)
  PROVE  Story(x, [ts EXCEPT ![i] = t], fs, w)
<1>1. PICK us : us = [ts EXCEPT ![i] = t]
  BY Zenon
<1>2. DOMAIN us = DOMAIN ts /\ us[i] = t /\ \A j \in DOMAIN ts : j # i => us[j] = ts[j]
  BY <1>1, SeqExcept, SeqShape
<1>3. \A j \in DOMAIN ts : us[j].pc = "done" <=> ts[j].pc = "done"
  BY <1>2
<1>4. ASSUME ArenaProgress(x.results, x.req.scaffolds, ts, es)
      PROVE  ArenaProgress(x.results, x.req.scaffolds, us, fs)
  BY <1>2, <1>3, <1>4 DEF ArenaProgress, FailuresShown
<1>5. ASSUME CaseProgress(x.results, x.req.scaffolds, ts)
      PROVE  CaseProgress(x.results, x.req.scaffolds, us)
  BY <1>2, <1>3, <1>5 DEF CaseProgress
<1> QED
  BY <1>1, <1>2, <1>4, <1>5 DEF Story

\* The events of a scaffold are told anew, those of the others are not touched.
Retold(es, fs, s, score) ==
    /\ FailedIn(fs, s) <=> score = Failure
    /\ \A q \in Scaffolds \ {s} : FailedIn(fs, q) <=> FailedIn(es, q)

\* The coroutine returns, and says so by one event and one result.
LEMMA ArenaReturns ==
  ASSUME NEW x \in RunRows, NEW ts \in Seq(TaskRows), NEW es, NEW fs, NEW w, Story(x, ts, es, w),
         x.state = "running", x.req.kind # "comparison",
         NEW i \in DOMAIN ts, NEW t \in TaskRows, t.pc = "done",
         NEW s \in Scaffolds, s = x.req.scaffolds[i], NEW score \in Scores \union {Failure},
         NEW new, new = WithResult(x.results, s, score),
         NEW y \in RunRows, y.state = x.state, y.req = x.req, y.results = new,
         NoTerminal(fs), Retold(es, fs, s, score)
  PROVE  Story(y, [ts EXCEPT ![i] = t], fs, w)
<1>1. PICK us : us = [ts EXCEPT ![i] = t]
  BY Zenon
<1>2. DOMAIN us = DOMAIN ts /\ us[i] = t /\ \A j \in DOMAIN ts : j # i => us[j] = ts[j]
  BY <1>1, SeqExcept, SeqShape
<1>3. ArenaProgress(x.results, x.req.scaffolds, ts, es) /\ w = NoRun
  BY DEF Story
<1>4. x.results \in Seq(ResultRows) /\ OneEach(x.results)
  BY <1>3 DEF ArenaProgress, RunRows
<1>5. /\ new \in Seq(ResultRows) /\ OneEach(new)
      /\ Scored(new, s, score)
      /\ \A q, c : q # s => (Scored(new, q, c) <=> Scored(x.results, q, c))
      /\ \A q : Named(new, q) <=> q = s \/ Named(x.results, q)
  <2>1. PICK old \in Seq(ResultRows) : old = x.results /\ OneEach(old)
    BY <1>4
  <2>2. new = WithResult(old, s, score)
    BY <2>1
  <2> QED
    BY <2>1, <2>2, WithResultIs
<1>6. ASSUME NEW j \in DOMAIN us, us[j].pc = "done"
      PROVE  Named(new, x.req.scaffolds[j])
  <2>1. CASE j = i
    BY <1>5, <2>1
  <2>2. CASE j # i
    BY <1>2, <1>3, <1>5, <1>6, <2>2 DEF ArenaProgress
  <2> QED
    BY <2>1, <2>2
<1>7. ASSUME NEW k \in DOMAIN new
      PROVE  \E j \in DOMAIN us : us[j].pc = "done" /\ new[k].scaffold = x.req.scaffolds[j]
  <2>1. CASE new[k].scaffold = s
    BY <1>2, <2>1
  <2>2. CASE new[k].scaffold # s
    <3>1. Named(new, new[k].scaffold)
      BY <1>7 DEF Named
    <3>2. PICK m \in DOMAIN x.results : x.results[m].scaffold = new[k].scaffold
      BY <1>5, <2>2, <3>1, Zenon DEF Named
    <3>3. PICK j \in DOMAIN ts : ts[j].pc = "done" /\ x.results[m].scaffold = x.req.scaffolds[j]
      BY <1>3, <3>2 DEF ArenaProgress
    <3> QED
      BY <1>2, <2>2, <3>2, <3>3
  <2> QED
    BY <2>1, <2>2
<1>8. FailuresShown(new, fs)
  <2> SUFFICES ASSUME NEW q \in Scaffolds
               PROVE  FailedIn(fs, q) <=> Scored(new, q, Failure)
    BY DEF FailuresShown
  <2>1. CASE q = s
    <3>1. Scored(new, s, Failure) => score = Failure
      BY <1>5 DEF Scored, OneEach
    <3> QED
      BY <1>5, <2>1, <3>1 DEF Retold
  <2>2. CASE q # s
    BY <1>3, <1>5, <2>2 DEF ArenaProgress, FailuresShown, Retold
  <2> QED
    BY <2>1, <2>2
<1>9. ArenaProgress(new, y.req.scaffolds, us, fs)
  BY <1>5, <1>6, <1>7, <1>8 DEF ArenaProgress
<1> QED
  BY <1>1, <1>2, <1>3, <1>9 DEF Story

LEMMA CaseReturns ==
  ASSUME NEW x \in RunRows, NEW ts \in Seq(TaskRows), NEW es, NEW w, Story(x, ts, es, w),
         x.state = "running", x.req.kind = "comparison",
         NEW i \in DOMAIN ts, NEW t \in TaskRows, t.pc = "done", ts[i].pc \notin {"none", "done"},
         NEW s \in Scaffolds, s = x.req.scaffolds[i], NEW score \in Scores \union {Failure},
         NEW new, new = Append(x.results, [scaffold |-> s, score |-> score]),
         NEW y \in RunRows, y.state = x.state, y.req = x.req, y.results = new
  PROVE  Story(y, [ts EXCEPT ![i] = t], es, w)
<1>1. PICK us : us = [ts EXCEPT ![i] = t]
  BY Zenon
<1>2. DOMAIN us = DOMAIN ts /\ us[i] = t /\ \A j \in DOMAIN ts : j # i => us[j] = ts[j]
  BY <1>1, SeqExcept, SeqShape
<1>3. CaseProgress(x.results, x.req.scaffolds, ts) /\ w = NoRun /\ NoTerminal(es)
  BY DEF Story
<1>4. PICK n \in Nat : n = Len(x.results) /\ DOMAIN x.results = 1 .. n
  BY SeqShape DEF RunRows
<1>5. PICK v \in ResultRows : v = [scaffold |-> s, score |-> score] /\ v.scaffold = s
  BY ResultRowIs
<1>6. new \in Seq(ResultRows) /\ Len(new) = n + 1 /\ new[n + 1] = v /\ \A k \in 1 .. n : new[k] = x.results[k]
  BY <1>4, <1>5, SeqAppend DEF RunRows
<1>7. DOMAIN new = 1 .. n + 1
  BY <1>6, SeqShape
<1>8. i = n + 1
  BY <1>3, <1>4 DEF CaseProgress
<1>9. (\A k \in 1 .. n + 1 : k \in 1 .. n \/ k = n + 1) /\ (\A k \in 1 .. n : k \in 1 .. n + 1) /\ n + 1 \in 1 .. n + 1
  OBVIOUS
<1>10. CaseProgress(new, x.req.scaffolds, us)
  <2>1. DOMAIN new \subseteq DOMAIN us
    BY <1>2, <1>3, <1>4, <1>7, <1>8, <1>9 DEF CaseProgress
  <2>2. \A j \in DOMAIN us : us[j].pc = "done" <=> j \in DOMAIN new
    BY <1>2, <1>3, <1>4, <1>7, <1>8, <1>9 DEF CaseProgress
  <2>3. \A j \in DOMAIN us : us[j].pc \in {"none", "done"}
    <3>1. \A j \in DOMAIN ts : ts[j].pc \notin {"none", "done"} => j = i
      BY <1>3, <1>4, <1>8 DEF CaseProgress
    <3> QED
      BY <1>2, <3>1, Zenon
  <2>4. \A k \in DOMAIN new : new[k].scaffold = x.req.scaffolds[k]
    BY <1>3, <1>4, <1>5, <1>6, <1>7, <1>8, <1>9 DEF CaseProgress
  <2> QED
    BY <2>1, <2>2, <2>3, <2>4 DEF CaseProgress
<1> QED
  BY <1>1, <1>2, <1>3, <1>10 DEF Story

\* Every requested scaffold has one result, and failures are those shown.
Accounted(results, seq, es) ==
    /\ OneEach(results) /\ FailuresShown(results, es)
    /\ \A i \in DOMAIN seq : Named(results, seq[i])
    /\ \A k \in DOMAIN results : \E i \in DOMAIN seq : results[k].scaffold = seq[i]

RowTells(w, results) == w = NoRun \/ (w.winner = Winner(results) /\ w.results = results)

\* A run that ends with every requested scaffold accounted for.
LEMMA StoryEnds ==
  ASSUME NEW ts \in Seq(TaskRows), NEW es \in Seq(EventRows), NoTerminal(es),
         NEW y \in RunRows, y.state = "done", y.req \in Requests, y.req.scaffolds \in Seq(Scaffolds),
         y.req.kind # "comparison", DOMAIN ts = DOMAIN y.req.scaffolds,
         Accounted(y.results, y.req.scaffolds, es), NEW w, RowTells(w, y.results)
  PROVE  /\ es \o <<Event("run_complete", Winner(y.results))>> \in Seq(EventRows)
         /\ Story(y, ts, es \o <<Event("run_complete", Winner(y.results))>>, w)
<1>1. y.results \in Seq(ResultRows)
  BY DEF RunRows
<1>2. PICK v : v = Winner(y.results)
  OBVIOUS
<1>3. v \in Scaffolds \union {"none"}
      /\ \A k \in DOMAIN y.results : y.results[k].scaffold = v => y.results[k].score # Failure
  BY <1>1, <1>2, WinnersAreNamed DEF Accounted
<1>4. PICK e \in EventRows : e = Event("run_complete", v) /\ e.type = "run_complete" /\ e.scaffold = v
  BY <1>3, EventIs
<1>5. PICK fs : fs = es \o <<e>>
  BY Zenon
<1>6. fs \in Seq(EventRows) /\ TerminalLast(fs) /\ fs # <<>> /\ fs[Len(fs)] = e
  BY <1>5, AppendIs, EmitOne, Zenon
<1>7. ASSUME NEW s \in Scaffolds
      PROVE  FailedIn(fs, s) <=> FailedIn(es, s)
  <2>1. e # Event("scaffold_failed", s) /\ e # Event("evaluation_completed", s)
    BY <1>4, EventIs
  <2> QED
    BY <1>5, <2>1, EmitOne
<1>8. FailuresShown(y.results, fs)
  BY <1>7 DEF FailuresShown, Accounted
<1>9. RunOutcome(y, fs)
  BY <1>3, <1>4, <1>6, <1>8 DEF RunOutcome, Accounted
<1> QED
  BY <1>2, <1>4, <1>5, <1>6, <1>9 DEF Story, Terminal, RowTells

LEMMA LegacyKept ==
  ASSUME LegacyInv, LegacyTypes', NEW r \in Runs,
         \A q \in Runs \ {r} : /\ run'[q] = run[q] /\ task'[q] = task[q] /\ emitted'[q] = emitted[q]
                               /\ stored'[q] = stored[q] /\ spend'.perRun[q] = spend.perRun[q],
         Story(run'[r], task'[r], emitted'[r], stored'[r]), Spending(spend'.perRun[r], task'[r])
  PROVE  LegacyInv'
<1>1. ASSUME NEW q \in Runs
      PROVE  Story(run'[q], task'[q], emitted'[q], stored'[q]) /\ Spending(spend'.perRun[q], task'[q])
  <2>1. CASE q = r
    BY <2>1
  <2>2. CASE q # r
    BY <2>2 DEF LegacyInv
  <2> QED
    BY <2>1, <2>2
<1> QED
  BY <1>1 DEF LegacyInv

LEMMA RunContext ==
  ASSUME LegacyInv, NEW r \in Runs
  PROVE  /\ run[r] \in RunRows /\ task[r] \in Seq(TaskRows) /\ emitted[r] \in Seq(EventRows)
         /\ spend.perRun[r] \in Nat /\ spend.daily \in Nat /\ spend \in [daily : Nat, perRun : [Runs -> Nat]]
         /\ usage \in [Runs -> Nat] /\ usage[r] \in Nat
         /\ Story(run[r], task[r], emitted[r], stored[r]) /\ Spending(spend.perRun[r], task[r])
<1>1. spend \in [daily : Nat, perRun : [Runs -> Nat]]
  BY DEF LegacyInv, LegacyTypes
<1>2. spend.perRun[r] \in Nat /\ spend.daily \in Nat
  BY <1>1
<1> QED
  BY <1>1, <1>2 DEF LegacyInv, LegacyTypes

LEMMA ScaffoldContext ==
  ASSUME LegacyInv, NEW r \in Runs, NEW i \in DOMAIN task[r], Live(r)
  PROVE  /\ task[r][i] \in TaskRows /\ NoTerminal(emitted[r])
         /\ ScaffoldSeq(r)[i] \in Scaffolds /\ CallCost(r, i) \in 0 .. CallCeiling /\ CallCost(r, i) \in Nat
<1>1. run[r].req.scaffolds \in Seq(Scaffolds) /\ DOMAIN task[r] = DOMAIN run[r].req.scaffolds /\ NoTerminal(emitted[r])
  BY RunContext DEF Story, Live
<1>2. task[r][i] \in TaskRows
  BY RunContext, SeqMember, SeqShape
<1>3. ScaffoldSeq(r)[i] \in Scaffolds
  BY <1>1, SeqMember, SeqShape DEF ScaffoldSeq
<1>4. CallCost(r, i) \in 0 .. CallCeiling /\ CallCeiling \in Nat
  BY <1>3, CeilingIs DEF CallCost
<1> QED
  BY <1>1, <1>2, <1>3, <1>4

\* A step of one coroutine that does not return: its new row, what it says and
\* what it spends.
LEMMA ScaffoldMoves ==
  ASSUME LegacyInv, NEW r \in Runs, NEW i \in DOMAIN task[r], Live(r),
         NEW t \in TaskRows, SetTask(r, i, t), UNCHANGED <<run, stored>>,
         task[r][i].pc \notin {"none", "done"}, t.pc \notin {"none", "done"},
         \/ UNCHANGED emitted
         \/ \E type \in {"scaffold_started", "scaffold_completed"} : EmitScaffold(r, <<Event(type, ScaffoldSeq(r)[i])>>),
         usage' \in [Runs -> Nat],
         \/ UNCHANGED spend /\ (t.pc \in {"call", "judging"} => CallAllowed(r))
         \/ /\ RecordSpend(r, CallCost(r, i))
            /\ task[r][i].pc \in {"call", "judging"} /\ t.pc \notin {"call", "judging"}
  PROVE  LegacyInv'
<1>1. PICK fs \in Seq(EventRows) :
        /\ emitted' = [emitted EXCEPT ![r] = fs] /\ NoTerminal(fs)
        /\ \A s \in Scaffolds : FailedIn(fs, s) <=> FailedIn(emitted[r], s)
  <2>1. emitted = [emitted EXCEPT ![r] = emitted[r]] /\ emitted[r] \in Seq(EventRows) /\ NoTerminal(emitted[r])
    BY RunContext, ScaffoldContext DEF LegacyInv, LegacyTypes
  <2>2. CASE UNCHANGED emitted
    BY <2>1, <2>2
  <2>3. ASSUME NEW type \in {"scaffold_started", "scaffold_completed"},
               EmitScaffold(r, <<Event(type, ScaffoldSeq(r)[i])>>), ~IsComparison(r)
        PROVE  \E fs \in Seq(EventRows) :
                  /\ emitted' = [emitted EXCEPT ![r] = fs] /\ NoTerminal(fs)
                  /\ \A s \in Scaffolds : FailedIn(fs, s) <=> FailedIn(emitted[r], s)
    <3>1. PICK e \in EventRows : e = Event(type, ScaffoldSeq(r)[i]) /\ e.type = type
      BY ScaffoldContext, EventIs
    <3>2. emitted' = [emitted EXCEPT ![r] = emitted[r] \o <<e>>]
      BY <2>3, <3>1 DEF EmitScaffold, Emit
    <3>3. emitted[r] \o <<e>> \in Seq(EventRows) /\ NoTerminal(emitted[r] \o <<e>>)
      BY <2>1, <2>3, <3>1, AppendIs, EmitOne, Zenon DEF Terminal
    <3>4. ASSUME NEW s \in Scaffolds
          PROVE  FailedIn(emitted[r] \o <<e>>, s) <=> FailedIn(emitted[r], s)
      <4>1. e # Event("scaffold_failed", s) /\ e # Event("evaluation_completed", s)
        BY <3>1, EventIs
      <4> QED
        BY <2>1, <4>1, EmitOne
    <3> QED
      BY <3>2, <3>3, <3>4, Zenon
  <2>4. CASE IsComparison(r)
    BY <2>1, <2>4 DEF EmitScaffold
  <2> QED
    BY <2>2, <2>3, <2>4
<1>2. PICK us : us = [task[r] EXCEPT ![i] = t]
  BY Zenon
<1>3. us \in Seq(TaskRows) /\ task' = [task EXCEPT ![r] = us]
  BY <1>2, RunContext, SeqExcept, SeqShape DEF SetTask, LegacyInv, LegacyTypes
<1>4. PICK m \in Nat : /\ m = spend'.perRun[r] /\ spend' \in [daily : Nat, perRun : [Runs -> Nat]]
                       /\ \A q \in Runs \ {r} : spend'.perRun[q] = spend.perRun[q]
                       /\ \/ m = spend.perRun[r] /\ t.pc \notin {"call", "judging"}
                          \/ m = spend.perRun[r] /\ spend.perRun[r] < RunLimit
                          \/ /\ m <= spend.perRun[r] + CallCeiling
                             /\ task[r][i].pc \in {"call", "judging"} /\ t.pc \notin {"call", "judging"}
  <2>1. CASE UNCHANGED spend /\ (t.pc \in {"call", "judging"} => CallAllowed(r))
    BY <2>1, RunContext DEF CallAllowed
  <2>2. CASE /\ RecordSpend(r, CallCost(r, i))
             /\ task[r][i].pc \in {"call", "judging"} /\ t.pc \notin {"call", "judging"}
    <3>1. PICK c \in Nat : c = CallCost(r, i) /\ c <= CallCeiling /\ CallCeiling \in Nat
      BY ScaffoldContext, CeilingIs
    <3>2. PICK per \in [Runs -> Nat] : per = spend.perRun
      BY RunContext
    <3>3. spend' = [daily |-> spend.daily + c, perRun |-> [per EXCEPT ![r] = per[r] + c]]
      BY <2>2, <3>1, <3>2 DEF RecordSpend
    <3>4. spend.daily + c \in Nat /\ per[r] + c \in Nat /\ per[r] + c <= per[r] + CallCeiling
      BY <3>1, <3>2, RunContext
    <3>5. [per EXCEPT ![r] = per[r] + c] \in [Runs -> Nat]
      BY <3>4
    <3>6. spend' \in [daily : Nat, perRun : [Runs -> Nat]] /\ spend'.perRun = [per EXCEPT ![r] = per[r] + c]
      BY <3>3, <3>4, <3>5
    <3> QED
      BY <2>2, <3>2, <3>4, <3>6
  <2> QED
    BY <2>1, <2>2, Zenon
<1>5. Story(run[r], us, fs, stored[r])
  BY <1>1, <1>2, RunContext, StoryMoves, Zenon DEF Live
<1>6. Spending(m, us)
  BY <1>2, <1>4, RunContext, SpendingKept, Zenon
<1>7. LegacyTypes'
  BY <1>1, <1>3, <1>4 DEF LegacyInv, LegacyTypes
<1>8. run'[r] = run[r] /\ task'[r] = us /\ emitted'[r] = fs /\ stored'[r] = stored[r]
  BY <1>1, <1>3 DEF LegacyInv, LegacyTypes
<1>9. \A q \in Runs \ {r} : /\ run'[q] = run[q] /\ task'[q] = task[q] /\ emitted'[q] = emitted[q]
                            /\ stored'[q] = stored[q] /\ spend'.perRun[q] = spend.perRun[q]
  BY <1>1, <1>3, <1>4 DEF LegacyInv, LegacyTypes
<1> QED
  BY <1>4, <1>5, <1>6, <1>7, <1>8, <1>9, LegacyKept, Zenon

LEMMA ReturnedIs == Returned \in TaskRows /\ Returned.pc = "done"
<1>1. IdleTask \in TaskRows
  BY DEF IdleTask, TaskRows
<1> QED
  BY <1>1, Zenon DEF Returned, TaskRows

LEMMA TaskFields ==
  ASSUME NEW o \in TaskRows
  PROVE  /\ o.phase \in Nat /\ o.retries \in Nat /\ o.tokens \in Nat /\ o.own \in Nat
         /\ \A c \in Nat : /\ o.phase + 1 \in Nat /\ o.retries + 1 \in Nat
                           /\ o.tokens + c \in Nat /\ o.own + c \in Nat
<1>1. o.phase \in Nat /\ o.retries \in Nat /\ o.tokens \in Nat /\ o.own \in Nat
  BY Zenon DEF TaskRows
<1> QED
  BY <1>1

LEMMA TaskMoves ==
  ASSUME NEW o \in TaskRows,
         NEW pc \in {"ready", "gap", "call", "retry", "closing", "evaluate", "judging"}
  PROVE  [o EXCEPT !.pc = pc] \in TaskRows /\ [o EXCEPT !.pc = pc].pc = pc
BY Zenon DEF TaskRows

LEMMA ResultsMove ==
  ASSUME NEW x \in RunRows, NEW new \in Seq(ResultRows), NEW y, y = [x EXCEPT !.results = new]
  PROVE  y \in RunRows /\ y.state = x.state /\ y.req = x.req /\ y.results = new
<1>1. y \in RunRows
  BY DEF RunRows
<1>2. y.state = x.state /\ y.req = x.req
  BY DEF RunRows
<1>3. y.results = new
  BY DEF RunRows
<1> QED
  BY <1>1, <1>2, <1>3

\* The step in which a coroutine returns.
LEMMA ScaffoldReturns ==
  ASSUME LegacyInv, NEW r \in Runs, NEW i \in DOMAIN task[r], Live(r),
         SetTask(r, i, Returned), UNCHANGED <<stored, usage>>,
         task[r][i].pc \notin {"none", "done"},
         NEW score \in Scores \union {Failure}, AddResult(r, i, score),
         NEW type, type = (IF score = Failure THEN "scaffold_failed" ELSE "evaluation_completed"),
         EmitScaffold(r, <<Event(type, ScaffoldSeq(r)[i])>>),
         \/ UNCHANGED spend
         \/ RecordSpend(r, CallCost(r, i)) /\ task[r][i].pc \in {"call", "judging"}
  PROVE  LegacyInv'
<1>c. /\ run[r] \in RunRows /\ task[r] \in Seq(TaskRows) /\ emitted[r] \in Seq(EventRows)
      /\ Story(run[r], task[r], emitted[r], stored[r]) /\ Spending(spend.perRun[r], task[r])
      /\ NoTerminal(emitted[r])
  BY RunContext, ScaffoldContext
<1>t. run \in [Runs -> RunRows] /\ emitted \in [Runs -> Seq(EventRows)] /\ task \in [Runs -> Seq(TaskRows)]
  BY DEF LegacyInv, LegacyTypes
<1>1. PICK s \in Scaffolds : s = ScaffoldSeq(r)[i] /\ s = run[r].req.scaffolds[i]
  BY ScaffoldContext DEF ScaffoldSeq
<1>2. PICK us : us = [task[r] EXCEPT ![i] = Returned]
  BY Zenon
<1>3. us \in Seq(TaskRows) /\ task' = [task EXCEPT ![r] = us]
  BY <1>2, <1>c, <1>t, ReturnedIs, SeqExcept, SeqShape DEF SetTask
<1>4. PICK new : new = IF IsComparison(r) THEN Append(run[r].results, [scaffold |-> s, score |-> score])
                       ELSE WithResult(run[r].results, s, score)
  BY Zenon
<1>5. new \in Seq(ResultRows)
  <2>1. run[r].results \in Seq(ResultRows) /\ [scaffold |-> s, score |-> score] \in ResultRows
    BY <1>c, ResultRowIs DEF RunRows
  <2>2. CASE IsComparison(r)
    BY <1>4, <2>1, <2>2, SeqAppend
  <2>3. CASE ~IsComparison(r)
    <3>1. OneEach(run[r].results)
      BY <1>c, <2>3 DEF Story, Live, IsComparison, ArenaProgress
    <3> QED
      BY <1>4, <2>1, <2>3, <3>1, WithResultIs
  <2> QED
    BY <2>2, <2>3
<1>y. PICK y : y = [run[r] EXCEPT !.results = new]
  BY Zenon
<1>6. y \in RunRows /\ y.state = run[r].state /\ y.req = run[r].req /\ y.results = new
  BY <1>c, <1>5, <1>y, ResultsMove
<1>7. run' = [run EXCEPT ![r] = y]
  BY <1>1, <1>4, <1>y, <1>t DEF AddResult
<1>8. PICK m \in Nat : /\ m = spend'.perRun[r] /\ spend' \in [daily : Nat, perRun : [Runs -> Nat]]
                       /\ \A q \in Runs \ {r} : spend'.perRun[q] = spend.perRun[q]
                       /\ \/ m = spend.perRun[r]
                          \/ m <= spend.perRun[r] + CallCeiling /\ task[r][i].pc \in {"call", "judging"}
  <2>1. CASE UNCHANGED spend
    BY <2>1, RunContext
  <2>2. CASE RecordSpend(r, CallCost(r, i)) /\ task[r][i].pc \in {"call", "judging"}
    <3>1. PICK c \in Nat : c = CallCost(r, i) /\ c <= CallCeiling /\ CallCeiling \in Nat
      BY ScaffoldContext, CeilingIs
    <3>2. PICK per \in [Runs -> Nat] : per = spend.perRun
      BY RunContext
    <3>3. spend' = [daily |-> spend.daily + c, perRun |-> [per EXCEPT ![r] = per[r] + c]]
      BY <2>2, <3>1, <3>2 DEF RecordSpend
    <3>4. spend.daily + c \in Nat /\ per[r] + c \in Nat /\ per[r] + c <= per[r] + CallCeiling
      BY <3>1, <3>2, RunContext
    <3>5. [per EXCEPT ![r] = per[r] + c] \in [Runs -> Nat]
      BY <3>4
    <3>6. spend' \in [daily : Nat, perRun : [Runs -> Nat]] /\ spend'.perRun = [per EXCEPT ![r] = per[r] + c]
      BY <3>3, <3>4, <3>5
    <3> QED
      BY <2>2, <3>2, <3>4, <3>6
  <2> QED
    BY <2>1, <2>2
<1>9. Spending(m, us)
  BY <1>2, <1>8, <1>c, RunContext, ReturnedIs, SpendingKept, Zenon
<1>10. PICK fs \in Seq(EventRows) : emitted' = [emitted EXCEPT ![r] = fs] /\ Story(y, us, fs, stored[r])
  <2>1. CASE IsComparison(r)
    <3>1. emitted' = [emitted EXCEPT ![r] = emitted[r]]
      BY <1>t, <2>1 DEF EmitScaffold
    <3>2. Story(y, us, emitted[r], stored[r])
      BY <1>1, <1>2, <1>4, <1>6, <1>c, <2>1, ReturnedIs, CaseReturns, ZenonT(40) DEF Live, IsComparison
    <3> QED
      BY <1>c, <3>1, <3>2, Zenon
  <2>2. CASE ~IsComparison(r)
    <3>1. PICK e \in EventRows : e = Event(type, s) /\ e.type = type /\ e.scaffold = s
      BY EventIs
    <3>2. PICK fs : fs = emitted[r] \o <<e>>
      BY Zenon
    <3>3. emitted' = [emitted EXCEPT ![r] = fs]
      BY <1>1, <2>2, <3>1, <3>2 DEF EmitScaffold, Emit
    <3>4. fs \in Seq(EventRows) /\ NoTerminal(fs)
      BY <1>c, <3>1, <3>2, AppendIs, EmitOne, Zenon DEF Terminal
    <3>5. ASSUME NEW q \in Scaffolds
          PROVE  (q = s => (FailedIn(fs, q) <=> score = Failure)) /\ (q # s => (FailedIn(fs, q) <=> FailedIn(emitted[r], q)))
      <4>1. /\ e = Event("scaffold_failed", q) <=> type = "scaffold_failed" /\ q = s
            /\ e = Event("evaluation_completed", q) <=> type = "evaluation_completed" /\ q = s
        BY <3>1, EventIs
      <4>2. FailedIn(fs, q) <=> e = Event("scaffold_failed", q)
                                \/ (FailedIn(emitted[r], q) /\ e # Event("evaluation_completed", q))
        BY <1>c, <3>2, EmitOne
      <4> QED
        BY <4>1, <4>2
    <3>6. Story(y, us, fs, stored[r])
      <4>1. run[r].state = "running" /\ run[r].req.kind # "comparison" /\ new = WithResult(run[r].results, s, score)
        BY <1>4, <2>2 DEF Live, IsComparison
      <4>2. Retold(emitted[r], fs, s, score)
        BY <3>5 DEF Retold
      <4>3. s = run[r].req.scaffolds[i] /\ y.state = run[r].state /\ y.req = run[r].req /\ y.results = new
        BY <1>1, <1>6
      <4>4. PICK x, ts, es, w, t : x = run[r] /\ ts = task[r] /\ es = emitted[r] /\ w = stored[r] /\ t = Returned
        OBVIOUS
      <4>5. /\ x \in RunRows /\ ts \in Seq(TaskRows) /\ Story(x, ts, es, w) /\ i \in DOMAIN ts
            /\ t \in TaskRows /\ t.pc = "done"
        BY <1>c, <4>4, ReturnedIs
      <4>6. /\ x.state = "running" /\ x.req.kind # "comparison" /\ new = WithResult(x.results, s, score)
            /\ s = x.req.scaffolds[i] /\ y.state = x.state /\ y.req = x.req /\ Retold(es, fs, s, score)
        BY <4>1, <4>2, <4>3, <4>4
      <4>7. Story(y, [ts EXCEPT ![i] = t], fs, w)
        BY <1>6, <3>4, <4>3, <4>5, <4>6, ArenaReturns, Zenon
      <4> QED
        BY <1>2, <4>4, <4>7
    <3> QED
      BY <3>3, <3>4, <3>6, Zenon
  <2> QED
    BY <2>1, <2>2
<1>11. LegacyTypes'
  BY <1>3, <1>6, <1>7, <1>8, <1>10, <1>t, Zenon DEF LegacyInv, LegacyTypes
<1>12. run'[r] = y /\ task'[r] = us /\ emitted'[r] = fs /\ stored'[r] = stored[r]
  BY <1>3, <1>7, <1>10, <1>t
<1>13. \A q \in Runs \ {r} : /\ run'[q] = run[q] /\ task'[q] = task[q] /\ emitted'[q] = emitted[q]
                             /\ stored'[q] = stored[q] /\ spend'.perRun[q] = spend.perRun[q]
  BY <1>3, <1>7, <1>8, <1>10, <1>t
<1> QED
  BY <1>8, <1>9, <1>10, <1>11, <1>12, <1>13, LegacyKept

LEMMA FailedKept ==
  ASSUME LegacyInv, NEW r \in Runs, NEW i \in DOMAIN task[r], Live(r),
         task[r][i].pc \notin {"none", "done"}, ScaffoldFailed(r, i)
  PROVE  LegacyInv'
<1>1. PICK score : score = Failure
  OBVIOUS
<1>2. PICK type : type = "scaffold_failed"
  OBVIOUS
<1> QED
  BY <1>1, <1>2, ScaffoldReturns DEF ScaffoldFailed

LEMMA CompletedKept ==
  ASSUME LegacyInv, NEW r \in Runs, NEW i \in DOMAIN task[r], Live(r), NEW output \in {"", "text"},
         task[r][i].pc \notin {"none", "done"}, ScaffoldCompleted(r, i, output)
  PROVE  LegacyInv'
<1>1. task[r][i] \in TaskRows /\ usage \in [Runs -> Nat]
  BY ScaffoldContext, RunContext, Zenon
<1>2. PICK t : t = [task[r][i] EXCEPT !.pc = "evaluate", !.output = output]
  BY Zenon
<1>3. t \in TaskRows /\ t.pc = "evaluate"
  BY <1>1, <1>2, Zenon DEF TaskRows
<1> QED
  BY <1>1, <1>2, <1>3, ScaffoldMoves, Zenon DEF ScaffoldCompleted

LEMMA CallKept ==
  ASSUME LegacyInv, NEW r \in Runs, NEW i \in DOMAIN task[r],
         CompleteCall(r, i) \/ OpenAIStream(r, i) \/ AnthropicStream(r, i)
  PROVE  LegacyInv'
<1>1. Live(r) /\ task[r][i].pc = "call" /\ RecordSpend(r, CallCost(r, i)) /\ UNCHANGED <<run, emitted, stored>>
  BY DEF CompleteCall, OpenAIStream, AnthropicStream
<1>2. PICK c \in Nat : c = CallCost(r, i)
  BY <1>1, ScaffoldContext
<1>3. PICK o \in TaskRows : o = task[r][i]
  BY <1>1, ScaffoldContext
<1>4. usage' \in [Runs -> Nat] /\ [usage EXCEPT ![r] = c] \in [Runs -> Nat]
  BY <1>2, RunContext, Zenon DEF CompleteCall, OpenAIStream, AnthropicStream
<1>5. o.phase + 1 \in Nat /\ o.tokens + c \in Nat /\ o.own + c \in Nat
  BY TaskFields
<1>6. PICK t \in TaskRows : SetTask(r, i, t) /\ t.pc \in {"gap", "closing"}
  <2>1. CASE CompleteCall(r, i)
    <3>1. PICK t : t = [o EXCEPT !.pc = "gap", !.phase = o.phase + 1, !.retries = 0,
                                 !.tokens = o.tokens + c, !.own = o.own + c]
      OBVIOUS
    <3>2. t \in TaskRows /\ t.pc = "gap"
      BY <1>3, <1>5, <3>1, Zenon DEF TaskRows
    <3>3. SetTask(r, i, t)
      BY <1>2, <1>3, <2>1, <3>1 DEF CompleteCall
    <3> QED
      BY <3>2, <3>3
  <2>2. CASE OpenAIStream(r, i)
    <3>1. usage'[r] = c
      BY <1>2, <2>2, RunContext DEF OpenAIStream
    <3>2. PICK t : t = [o EXCEPT !.pc = "gap", !.phase = o.phase + 1, !.retries = 0,
                                 !.tokens = o.tokens + c, !.own = o.own + c]
      OBVIOUS
    <3>3. t \in TaskRows /\ t.pc = "gap"
      BY <1>3, <1>5, <3>2, Zenon DEF TaskRows
    <3>4. SetTask(r, i, t)
      BY <1>2, <1>3, <2>2, <3>1, <3>2, Zenon DEF OpenAIStream
    <3> QED
      BY <3>3, <3>4
  <2>3. CASE AnthropicStream(r, i)
    <3>1. PICK t : t = [o EXCEPT !.pc = "closing", !.own = o.own + c]
      OBVIOUS
    <3>2. t \in TaskRows /\ t.pc = "closing"
      BY <1>3, <1>5, <3>1, Zenon DEF TaskRows
    <3>3. SetTask(r, i, t)
      BY <1>2, <1>3, <2>3, <3>1 DEF AnthropicStream
    <3> QED
      BY <3>2, <3>3
  <2> QED
    BY <2>1, <2>2, <2>3
<1> QED
  BY <1>1, <1>4, <1>6, ScaffoldMoves

LEMMA ScaffoldStepKept ==
  ASSUME LegacyInv, NEW r \in Runs, NEW i \in DOMAIN task[r], ScaffoldStep(r, i)
  PROVE  LegacyInv'
<1>1. Live(r) /\ task[r][i].pc \notin {"none", "done"}
  BY Zenon DEF ScaffoldStep, StartScaffold, BeginCall, CompleteCall, OpenAIStream, AnthropicStream, ReadLastUsage, CutStream,
         CallFails, ScaffoldTimeout, ScaffoldEnds, BeginJudge, EvaluateScaffold
<1>2. PICK o \in TaskRows : o = task[r][i]
  BY <1>1, ScaffoldContext
<1>3. usage \in [Runs -> Nat] /\ usage[r] \in Nat /\ ScaffoldSeq(r)[i] \in Scaffolds
  BY <1>1, RunContext, ScaffoldContext
<1>4. CASE StartScaffold(r, i)
  <2>1. PICK p \in Seq(CallKinds) : SetTask(r, i, [o EXCEPT !.pc = "gap", !.program = p])
    BY <1>2, <1>3, <1>4, ProgramsAre, Zenon DEF StartScaffold
  <2>2. PICK t : t = [o EXCEPT !.pc = "gap", !.program = p]
    OBVIOUS
  <2>3. t \in TaskRows /\ t.pc = "gap"
    BY <2>2, Zenon DEF TaskRows
  <2> QED
    BY <1>1, <1>3, <1>4, <2>1, <2>2, <2>3, ScaffoldMoves, Zenon DEF StartScaffold
<1>5. CASE BeginCall(r, i)
  <2>1. PICK t \in TaskRows : t = [o EXCEPT !.pc = "call"] /\ t.pc = "call"
    BY TaskMoves, ZenonT(40)
  <2>2. CASE CallAllowed(r)
    BY <1>1, <1>2, <1>3, <1>5, <2>1, <2>2, ScaffoldMoves, Zenon DEF BeginCall
  <2>3. CASE ~CallAllowed(r)
    BY <1>1, <1>5, <2>3, FailedKept DEF BeginCall
  <2> QED
    BY <2>2, <2>3
<1>6. CASE CompleteCall(r, i) \/ OpenAIStream(r, i) \/ AnthropicStream(r, i)
  BY <1>6, CallKept
<1>7. CASE ReadLastUsage(r, i)
  <2>1. PICK n \in Nat : n = IF Cancelled(r) THEN o.tokens ELSE o.tokens + usage[r]
    BY <1>3, TaskFields
  <2>2. o.phase + 1 \in Nat
    BY TaskFields
  <2>3. PICK t : t = [o EXCEPT !.pc = "gap", !.phase = o.phase + 1, !.retries = 0, !.tokens = n]
    OBVIOUS
  <2>4. t \in TaskRows /\ t.pc = "gap"
    BY <2>1, <2>2, <2>3, Zenon DEF TaskRows
  <2>5. SetTask(r, i, t)
    BY <1>2, <1>7, <2>1, <2>3 DEF ReadLastUsage
  <2> QED
    BY <1>1, <1>3, <1>7, <2>4, <2>5, ScaffoldMoves DEF ReadLastUsage
<1>8. CASE CutStream(r, i) \/ ScaffoldEnds(r, i)
  BY <1>1, <1>8, CompletedKept, Zenon DEF CutStream, ScaffoldEnds
<1>9. CASE CallFails(r, i)
  <2>1. PICK n \in Nat : n = o.retries + 1
    BY TaskFields
  <2>0. PICK t : t = [o EXCEPT !.pc = "retry", !.retries = n]
    OBVIOUS
  <2>2. t \in TaskRows /\ t.pc = "retry"
    BY <2>0, Zenon DEF TaskRows
  <2>3. CASE ScaffoldFailed(r, i)
    BY <1>1, <2>3, FailedKept
  <2>4. CASE /\ SetTask(r, i, [o EXCEPT !.pc = "retry", !.retries = o.retries + 1])
             /\ UNCHANGED <<run, emitted, taken, sub, spend, usage, stored, idem, stopping>>
    BY <1>1, <1>3, <2>0, <2>1, <2>2, <2>4, ScaffoldMoves, Zenon
  <2> QED
    BY <1>2, <1>9, <2>3, <2>4 DEF CallFails
<1>10. CASE ScaffoldTimeout(r, i)
  BY <1>1, <1>10, FailedKept DEF ScaffoldTimeout
<1>11. CASE BeginJudge(r, i)
  <2>1. PICK t \in TaskRows : t = [o EXCEPT !.pc = "judging"] /\ t.pc = "judging"
    BY TaskMoves, Zenon
  <2> QED
    BY <1>1, <1>2, <1>3, <1>11, <2>1, ScaffoldMoves, Zenon DEF BeginJudge
<1>12. CASE EvaluateScaffold(r, i)
  <2>1. PICK score \in Scores : AddResult(r, i, score)
    BY <1>12 DEF EvaluateScaffold
  <2>2. score # Failure
    BY LegacyAssumption DEF Failure
  <2>3. PICK type : type = "evaluation_completed"
    OBVIOUS
  <2> QED
    BY <1>1, <1>12, <2>1, <2>2, <2>3, ScaffoldReturns DEF EvaluateScaffold
<1> QED
  BY <1>4, <1>5, <1>6, <1>7, <1>8, <1>9, <1>10, <1>11, <1>12 DEF ScaffoldStep

LEMMA StoryFrame ==
  ASSUME NEW x, NEW y, NEW ts, NEW es, NEW w, Story(x, ts, es, w),
         \/ y.state = x.state /\ y.req = x.req /\ y.results = x.results
         \/ x.state = "done" /\ y.state = "evicted"
  PROVE  Story(y, ts, es, w)
<1>1. CASE x.state = "done" /\ y.state = "evicted"
  BY <1>1 DEF Story
<1>2. CASE y.state = x.state /\ y.req = x.req /\ y.results = x.results
  BY <1>2 DEF Story, RunOutcome
<1> QED
  BY <1>1, <1>2

\* Steps that only cancel, expire or evict.
LEMMA RunsTouched ==
  ASSUME LegacyInv, run' \in [Runs -> RunRows], UNCHANGED <<task, emitted, spend, usage, stored>>,
         \A r \in Runs : \/ run'[r].state = run[r].state /\ run'[r].req = run[r].req /\ run'[r].results = run[r].results
                         \/ run[r].state = "done" /\ run'[r].state = "evicted"
  PROVE  LegacyInv'
<1>1. LegacyTypes'
  BY DEF LegacyInv, LegacyTypes
<1>2. ASSUME NEW r \in Runs
      PROVE  Story(run'[r], task'[r], emitted'[r], stored'[r]) /\ Spending(spend'.perRun[r], task'[r])
  BY <1>2, StoryFrame DEF LegacyInv
<1> QED
  BY <1>1, <1>2 DEF LegacyInv

LEMMA AbsentIs ==
  /\ Absent \in RunRows /\ [Absent EXCEPT !.state = "evicted"] \in RunRows
  /\ [Absent EXCEPT !.state = "evicted"].state = "evicted"
<1>1. <<>> \in Seq(ResultRows)
  BY SeqEmpty
<1>2. Absent \in RunRows
  BY <1>1 DEF Absent, RunRows
<1> QED
  BY <1>2 DEF RunRows

LEMMA EvictIs ==
  ASSUME LegacyInv
  PROVE  /\ Evict(run) \in [Runs -> RunRows]
         /\ \A r \in Runs : \/ Evict(run)[r] = run[r]
                            \/ run[r].state = "done" /\ Evict(run)[r].state = "evicted"
<1>1. run \in [Runs -> RunRows]
  BY DEF LegacyInv, LegacyTypes
<1> QED
  BY <1>1, AbsentIs DEF Evict

LEMMA CancelIs ==
  ASSUME NEW x \in RunRows, NEW b \in BOOLEAN, NEW y, y = [x EXCEPT !.cancelled = b] \/ y = [x EXCEPT !.expired = b]
  PROVE  y \in RunRows /\ y.state = x.state /\ y.req = x.req /\ y.results = x.results
BY DEF RunRows

LEMMA CancelKept ==
  ASSUME LegacyInv, NEW r \in Runs, Cancel(r) \/ RunExpires(r)
  PROVE  LegacyInv'
<1>0. run \in [Runs -> RunRows]
  BY DEF LegacyInv, LegacyTypes
<1>1. CASE Cancel(r)
  <2>1. PICK ev \in [Runs -> RunRows] :
          ev = Evict(run) /\ \A q \in Runs : ev[q] = run[q] \/ (run[q].state = "done" /\ ev[q].state = "evicted")
    BY EvictIs
  <2>2. PICK b \in BOOLEAN : b = (ev[r].state \notin {"absent", "evicted"})
    BY Zenon
  <2>3. run' = [ev EXCEPT ![r] = [ev[r] EXCEPT !.cancelled = b]]
    BY <1>1, <2>1, <2>2 DEF Cancel
  <2>4. PICK y : y = [ev[r] EXCEPT !.cancelled = b]
    BY Zenon
  <2>5. y \in RunRows /\ y.state = ev[r].state /\ y.req = ev[r].req /\ y.results = ev[r].results
    BY <2>4, CancelIs
  <2>6. run' \in [Runs -> RunRows] /\ run'[r] = y /\ \A q \in Runs \ {r} : run'[q] = ev[q]
    BY <2>3, <2>4, <2>5
  <2>7. \A q \in Runs : \/ run'[q].state = run[q].state /\ run'[q].req = run[q].req /\ run'[q].results = run[q].results
                        \/ run[q].state = "done" /\ run'[q].state = "evicted"
    BY <2>1, <2>5, <2>6
  <2> QED
    BY <1>1, <2>6, <2>7, RunsTouched DEF Cancel
<1>2. CASE RunExpires(r)
  <2>1. PICK y : y = [run[r] EXCEPT !.expired = TRUE]
    BY Zenon
  <2>2. y \in RunRows /\ y.state = run[r].state /\ y.req = run[r].req /\ y.results = run[r].results
    BY <1>0, <2>1, CancelIs, Zenon
  <2>3. run' = [run EXCEPT ![r] = y]
    BY <1>2, <2>1 DEF RunExpires
  <2>4. run' \in [Runs -> RunRows] /\ run'[r] = y /\ \A q \in Runs \ {r} : run'[q] = run[q]
    BY <1>0, <2>2, <2>3
  <2>5. \A q \in Runs : run'[q].state = run[q].state /\ run'[q].req = run[q].req /\ run'[q].results = run[q].results
    BY <2>2, <2>4
  <2> QED
    BY <1>2, <2>4, <2>5, RunsTouched DEF RunExpires
<1> QED
  BY <1>1, <1>2

LEMMA ShutdownKept ==
  ASSUME LegacyInv, Shutdown
  PROVE  LegacyInv'
<1>0. run \in [Runs -> RunRows]
  BY DEF LegacyInv, LegacyTypes
<1>1. ASSUME NEW r \in Runs
      PROVE  run'[r] \in RunRows /\ run'[r].state = run[r].state /\ run'[r].req = run[r].req /\ run'[r].results = run[r].results
  <2>1. PICK b : b = (run[r].cancelled \/ run[r].state \in {"created", "running", "abandoned"})
    OBVIOUS
  <2>2. b \in BOOLEAN
    BY <2>1, Zenon
  <2>3. run'[r] = [run[r] EXCEPT !.cancelled = b]
    BY <2>1 DEF Shutdown
  <2> QED
    BY <1>0, <2>2, <2>3, CancelIs
<1>2. run' \in [Runs -> RunRows]
  <2>1. PICK f : f = [r \in Runs |-> run'[r]]
    BY Zenon
  <2>2. run' = f
    BY <2>1 DEF Shutdown
  <2> QED
    BY <1>1, <2>1, <2>2
<1> QED
  BY <1>1, <1>2, RunsTouched DEF Shutdown

LEMMA SpendingZero ==
  ASSUME NEW ts \in Seq(TaskRows)
  PROVE  Spending(0, ts)
<1>1. PICK c \in Nat : c = CallCeiling
  BY CeilingIs
<1>2. PICK k \in Nat : k = Len(ts)
  BY SeqShape
<1>3. PICK p \in Nat : p = Cardinality(Pending(ts)) /\ p <= k
  BY <1>2, PendingFits
<1>4. PICK limit \in Nat : limit = RunLimit /\ limit > 0
  BY LegacyAssumption
<1>5. c * p <= c * k /\ c * p \in Nat /\ c * k \in Nat
  BY <1>3
<1>6. 0 + c * p < limit + c * k
  BY <1>4, <1>5
<1> QED
  BY <1>1, <1>2, <1>3, <1>4, <1>6 DEF Spending

LEMMA OthersKept ==
  ASSUME LegacyInv,
         \/ \E key \in Keys : KeyExpires(key)
         \/ \E u \in Subscribers : TakeEvent(u) \/ (\E r \in Runs : Subscribe(u, r))
         \/ Rollover
  PROVE  LegacyInv'
<1>0. run \in [Runs -> RunRows]
  BY DEF LegacyInv, LegacyTypes
<1>1. CASE \/ \E key \in Keys : KeyExpires(key)
           \/ \E u \in Subscribers : TakeEvent(u)
  <2>1. UNCHANGED <<run, task, emitted, spend, usage, stored>>
    BY <1>1, Zenon DEF KeyExpires, TakeEvent
  <2> QED
    BY <1>0, <2>1, RunsTouched
<1>2. CASE \E u \in Subscribers : \E r \in Runs : Subscribe(u, r)
  <2>1. run' = Evict(run) /\ UNCHANGED <<task, emitted, spend, usage, stored>>
    BY <1>2 DEF Subscribe
  <2>2. \A r \in Runs : \/ run'[r].state = run[r].state /\ run'[r].req = run[r].req /\ run'[r].results = run[r].results
                        \/ run[r].state = "done" /\ run'[r].state = "evicted"
    BY <2>1, EvictIs
  <2> QED
    BY <2>1, <2>2, EvictIs, RunsTouched
<1>3. CASE Rollover
  <2>1. UNCHANGED <<run, task, emitted, usage, stored>> /\ spend' = [daily |-> 0, perRun |-> [r \in Runs |-> 0]]
    BY <1>3 DEF Rollover
  <2>2. LegacyTypes'
    BY <2>1 DEF LegacyInv, LegacyTypes
  <2>3. \A r \in Runs : Spending(0, task[r])
    BY RunContext, SpendingZero
  <2>4. ASSUME NEW r \in Runs
        PROVE  Story(run'[r], task'[r], emitted'[r], stored'[r]) /\ Spending(spend'.perRun[r], task'[r])
    BY <2>1, <2>3 DEF LegacyInv
  <2> QED
    BY <2>2, <2>4 DEF LegacyInv
<1> QED
  BY <1>1, <1>2, <1>3

LEMMA IdleIs ==
  /\ IdleTask \in TaskRows /\ IdleTask.pc = "none"
  /\ [IdleTask EXCEPT !.pc = "ready"] \in TaskRows /\ [IdleTask EXCEPT !.pc = "ready"].pc = "ready"
<1>1. IdleTask \in TaskRows /\ IdleTask.pc = "none"
  BY DEF IdleTask, TaskRows
<1> QED
  BY <1>1, TaskMoves, Zenon

LEMMA SameLength ==
  ASSUME NEW S, NEW T, NEW s \in Seq(S), NEW t \in Seq(T), DOMAIN s = DOMAIN t
  PROVE  Len(s) = Len(t)
<1>1. PICK m \in Nat : m = Len(s) /\ DOMAIN s = 1 .. m
  BY SeqShape
<1>2. PICK n \in Nat : n = Len(t) /\ DOMAIN t = 1 .. n
  BY SeqShape
<1>3. \A j \in Nat : j \in 1 .. m <=> j \in 1 .. n
  BY <1>1, <1>2, Zenon
<1>4. (m # 0 => m \in 1 .. m) /\ (n # 0 => n \in 1 .. n)
  OBVIOUS
<1>5. m = n
  BY <1>3, <1>4
<1> QED
  BY <1>1, <1>2, <1>5

\* The coroutines of a request, none of which holds a call.
LEMMA FreshTasks ==
  ASSUME NEW seq \in Seq(Scaffolds), NEW t \in TaskRows, t.pc \in {"none", "ready"}
  PROVE  /\ [i \in DOMAIN seq |-> t] \in Seq(TaskRows) /\ DOMAIN [i \in DOMAIN seq |-> t] = DOMAIN seq
         /\ Len([i \in DOMAIN seq |-> t]) = Len(seq)
         /\ \A n \in Nat : Spending(n, [i \in DOMAIN seq |-> t]) <=> n < RunLimit + CallCeiling * Len(seq)
<1>1. PICK n \in Nat : n = Len(seq) /\ DOMAIN seq = 1 .. n
  BY SeqShape
<1>2. PICK ts : ts = [i \in 1 .. n |-> t]
  BY Zenon
<1>3. ts \in [1 .. n -> TaskRows] /\ DOMAIN ts = 1 .. n
  BY <1>2
<1>4. ts \in Seq(TaskRows)
  BY <1>3, SeqUnfolds
<1>5. Len(ts) = n
  BY <1>1, <1>3, <1>4, SameLength
<1>6. \A i \in DOMAIN ts : ts[i].pc \notin {"call", "judging"}
  BY <1>2, <1>3
<1>7. \A k \in Nat : Spending(k, ts) <=> k < RunLimit + CallCeiling * n
  BY <1>4, <1>5, <1>6, NoPending, Zenon
<1> QED
  BY <1>1, <1>2, <1>3, <1>4, <1>5, <1>7

LEMMA CreateKept ==
  ASSUME LegacyInv, NEW req \in Requests, CreateRun(req)
  PROVE  LegacyInv'
<1>1. PICK r \in Runs : /\ run[r].state = "absent"
                        /\ run' = [Evict(run) EXCEPT ![r] = [Absent EXCEPT !.state = "created", !.req = req]]
                        /\ task' = [task EXCEPT ![r] = [i \in DOMAIN req.scaffolds |-> IdleTask]]
  BY Zenon DEF CreateRun
<1>2. UNCHANGED <<emitted, spend, usage, stored>> /\ req.valid
  BY DEF CreateRun, Accepted
<1>3. req.scaffolds \in Seq(Scaffolds)
  BY <1>2, LegacyAssumption DEF Scaffolds
<1>4. PICK us : us = [i \in DOMAIN req.scaffolds |-> IdleTask]
  BY Zenon
<1>5. us \in Seq(TaskRows) /\ DOMAIN us = DOMAIN req.scaffolds
      /\ \A n \in Nat : Spending(n, us) <=> n < RunLimit + CallCeiling * Len(req.scaffolds)
  BY <1>3, <1>4, IdleIs, FreshTasks, Zenon
<1>6. \A i \in DOMAIN us : us[i].pc = "none"
  BY <1>4, IdleIs
<1>7. PICK y : y = [Absent EXCEPT !.state = "created", !.req = req]
  OBVIOUS
<1>8. y \in RunRows /\ y.state = "created" /\ y.req = req /\ y.results = <<>>
  <2>1. y = [state |-> "created", req |-> req, cancelled |-> FALSE, expired |-> FALSE, results |-> <<>>]
    BY <1>7, Zenon DEF Absent
  <2>2. <<>> \in Seq(ResultRows)
    BY SeqEmpty
  <2> QED
    BY <2>1, <2>2 DEF RunRows
<1>9. Story(run[r], task[r], emitted[r], stored[r]) /\ Spending(spend.perRun[r], task[r])
  BY RunContext
<1>10. task[r] = <<>> /\ emitted[r] = <<>> /\ stored[r] = NoRun
  BY <1>1, <1>9 DEF Story
<1>11. Story(y, us, emitted[r], stored[r])
  BY <1>3, <1>5, <1>6, <1>8, <1>10 DEF Story
<1>12. Spending(spend.perRun[r], us)
  <2>1. PICK n \in Nat : n = spend.perRun[r]
    BY RunContext
  <2>2. <<>> \in Seq(TaskRows) /\ Len(<<>>) = 0 /\ \A i \in DOMAIN <<>> : FALSE
    BY SeqEmpty, SeqShape
  <2>3. PICK ts \in Seq(TaskRows) : ts = <<>>
    BY <2>2, Zenon
  <2>4. Spending(n, ts) /\ Len(ts) = 0 /\ \A i \in DOMAIN ts : FALSE
    BY <1>9, <1>10, <2>1, <2>2, <2>3
  <2>5. n < RunLimit + CallCeiling * Len(ts)
    BY <2>4, NoPending, Zenon
  <2>6. PICK c \in Nat : c = CallCeiling
    BY CeilingIs
  <2>7. PICK k \in Nat : k = Len(req.scaffolds)
    BY <1>3, SeqShape
  <2>8. c * k \in Nat /\ c * 0 = 0
    BY <2>6, <2>7
  <2>9. n < RunLimit + c * k
    BY <2>4, <2>5, <2>6, <2>8, LegacyAssumption
  <2> QED
    BY <1>5, <2>1, <2>6, <2>7, <2>9
<1>13. LegacyTypes'
  BY <1>1, <1>2, <1>4, <1>5, <1>7, <1>8, EvictIs, Zenon DEF LegacyInv, LegacyTypes
<1>14. run'[r] = y /\ task'[r] = us /\ \A q \in Runs \ {r} : run'[q] = Evict(run)[q] /\ task'[q] = task[q]
  BY <1>1, <1>4, <1>7, EvictIs DEF LegacyInv, LegacyTypes
<1>15. ASSUME NEW q \in Runs
       PROVE  Story(run'[q], task'[q], emitted'[q], stored'[q]) /\ Spending(spend'.perRun[q], task'[q])
  <2>1. CASE q = r
    BY <1>2, <1>11, <1>12, <1>14, <2>1
  <2>2. CASE q # r
    BY <1>2, <1>14, <2>2, EvictIs, StoryFrame DEF LegacyInv
  <2> QED
    BY <2>1, <2>2
<1> QED
  BY <1>13, <1>15 DEF LegacyInv

LEMMA NothingFailed == \A s : ~FailedIn(<<>>, s)
<1>1. \A i \in DOMAIN <<>> : FALSE
  OBVIOUS
<1> QED
  BY <1>1 DEF FailedIn

LEMMA StateMoves ==
  ASSUME NEW x \in RunRows, NEW state \in {"running", "done", "abandoned"}, NEW y, y = [x EXCEPT !.state = state]
  PROVE  y \in RunRows /\ y.state = state /\ y.req = x.req /\ y.results = x.results
BY DEF RunRows

LEMMA StartRunKept ==
  ASSUME LegacyInv, NEW r \in Runs, StartRun(r)
  PROVE  LegacyInv'
<1>t. run \in [Runs -> RunRows] /\ emitted \in [Runs -> Seq(EventRows)] /\ task \in [Runs -> Seq(TaskRows)]
  BY DEF LegacyInv, LegacyTypes
<1>1. /\ run[r].state = "created" /\ run[r].req.kind # "comparison"
      /\ UNCHANGED <<spend, usage, stored>>
  BY DEF StartRun, IsComparison
<1>2. Story(run[r], task[r], emitted[r], stored[r]) /\ Spending(spend.perRun[r], task[r])
  BY RunContext
<1>3. PICK seq : seq = run[r].req.scaffolds
  OBVIOUS
<1>4. /\ run[r].req \in Requests /\ seq \in Seq(Scaffolds) /\ DOMAIN task[r] = DOMAIN seq
      /\ emitted[r] = <<>> /\ stored[r] = NoRun /\ run[r].results = <<>>
      /\ \A i \in DOMAIN task[r] : task[r][i].pc = "none"
  BY <1>1, <1>2, <1>3 DEF Story
<1>5. PICK us : us = [i \in DOMAIN seq |-> [IdleTask EXCEPT !.pc = "ready"]]
  BY Zenon
<1>6. us \in Seq(TaskRows) /\ DOMAIN us = DOMAIN seq /\ Len(us) = Len(seq)
      /\ \A n \in Nat : Spending(n, us) <=> n < RunLimit + CallCeiling * Len(seq)
  BY <1>4, <1>5, IdleIs, FreshTasks, Zenon
<1>7. \A i \in DOMAIN us : us[i].pc = "ready"
  BY <1>5, IdleIs, Zenon
<1>8. PICK y : y = [run[r] EXCEPT !.state = "running"]
  BY Zenon
<1>9. y \in RunRows /\ y.state = "running" /\ y.req = run[r].req /\ y.results = <<>>
  BY <1>4, <1>8, <1>t, StateMoves
<1>10. PICK e \in EventRows : e = Event("run_started", "none") /\ e.type = "run_started"
  BY EventIs
<1>11. PICK fs : fs = emitted[r] \o <<e>>
  BY Zenon
<1>12. NoTerminal(emitted[r])
  <2>1. \A i \in DOMAIN <<>> : FALSE
    OBVIOUS
  <2> QED
    BY <1>4, <2>1 DEF NoTerminal
<1>13. fs \in Seq(EventRows) /\ NoTerminal(fs)
  BY <1>10, <1>11, <1>12, <1>t, AppendIs, EmitOne, Zenon DEF Terminal
<1>14. ASSUME NEW s \in Scaffolds
       PROVE  ~FailedIn(fs, s)
  <2>1. e # Event("scaffold_failed", s)
    BY <1>10, EventIs
  <2>2. ~FailedIn(emitted[r], s)
    BY <1>4, NothingFailed
  <2> QED
    BY <1>11, <1>12, <1>t, <2>1, <2>2, EmitOne
<1>15. ArenaProgress(<<>>, seq, us, fs)
  <2>1. \A i \in DOMAIN <<>> : FALSE
    OBVIOUS
  <2> QED
    BY <1>7, <1>14, <2>1 DEF ArenaProgress, OneEach, FailuresShown, Scored
<1>16. Story(y, us, fs, stored[r])
  BY <1>1, <1>3, <1>4, <1>6, <1>9, <1>13, <1>15 DEF Story
<1>17. Spending(spend.perRun[r], us)
  <2>1. PICK n \in Nat : n = spend.perRun[r]
    BY RunContext
  <2>2. n < RunLimit + CallCeiling * Len(task[r])
    BY <1>2, <1>4, <1>t, <2>1, NoPending, Zenon
  <2>3. Len(task[r]) = Len(seq)
    BY <1>4, <1>t, SameLength
  <2> QED
    BY <1>6, <2>1, <2>2, <2>3
<1>18. run' = [run EXCEPT ![r] = y] /\ task' = [task EXCEPT ![r] = us] /\ emitted' = [emitted EXCEPT ![r] = fs]
  BY <1>3, <1>5, <1>8, <1>10, <1>11 DEF StartRun, ScaffoldSeq, Emit
<1>19. LegacyTypes'
  BY <1>1, <1>6, <1>9, <1>13, <1>18 DEF LegacyInv, LegacyTypes
<1>20. run'[r] = y /\ task'[r] = us /\ emitted'[r] = fs
  BY <1>18, <1>t
<1>21. \A q \in Runs \ {r} : run'[q] = run[q] /\ task'[q] = task[q] /\ emitted'[q] = emitted[q]
  BY <1>18, <1>t
<1> QED
  BY <1>1, <1>16, <1>17, <1>19, <1>20, <1>21, LegacyKept

LEMMA FinalizeKept ==
  ASSUME LegacyInv, NEW r \in Runs, NEW results \in Seq(ResultRows), NEW events, NEW status,
         FinalizeRun(r, results, events, status), UNCHANGED task, usage' \in [Runs -> Nat],
         NEW es \in Seq(EventRows), NoTerminal(es),
         emitted[r] \o (events \o <<Event("run_complete", Winner(results))>>)
            = es \o <<Event("run_complete", Winner(results))>>,
         run[r].req \in Requests, run[r].req.kind # "comparison", stored[r] = NoRun,
         NEW seq \in Seq(Scaffolds), seq = run[r].req.scaffolds, DOMAIN task[r] = DOMAIN seq,
         Accounted(results, seq, es)
  PROVE  LegacyInv'
<1>t. run \in [Runs -> RunRows] /\ emitted \in [Runs -> Seq(EventRows)] /\ task \in [Runs -> Seq(TaskRows)]
      /\ stored = [q \in Runs |-> stored[q]]
  BY Zenon DEF LegacyInv, LegacyTypes
<1>1. PICK z : z = [run[r] EXCEPT !.state = "done"]
  BY Zenon
<1>2. z \in RunRows /\ z.state = "done" /\ z.req = run[r].req
  BY <1>1, <1>t, StateMoves
<1>3. PICK y : y = [z EXCEPT !.results = results]
  BY Zenon
<1>4. y \in RunRows /\ y.state = "done" /\ y.req = run[r].req /\ y.results = results
  BY <1>2, <1>3, ResultsMove
<1>5. run' = [run EXCEPT ![r] = y]
  BY <1>1, <1>3, <1>t, Zenon DEF FinalizeRun
<1>6. PICK fs : fs = es \o <<Event("run_complete", Winner(results))>>
  BY Zenon
<1>7. emitted' = [emitted EXCEPT ![r] = fs]
  BY <1>6, Zenon DEF FinalizeRun, Emit
<1>w. PICK w \in {stored[r], [status |-> status, winner |-> Winner(results), results |-> results]} :
        stored' = [stored EXCEPT ![r] = w]
  BY Zenon DEF FinalizeRun
<1>8. RowTells(w, results)
  BY <1>w DEF RowTells
<1>9. fs \in Seq(EventRows) /\ Story(y, task[r], fs, w)
  <2>1. task[r] \in Seq(TaskRows) /\ y.req \in Requests /\ y.req.scaffolds \in Seq(Scaffolds)
        /\ y.req.kind # "comparison" /\ DOMAIN task[r] = DOMAIN y.req.scaffolds
    BY <1>4, <1>t
  <2>2. Accounted(y.results, y.req.scaffolds, es) /\ RowTells(w, y.results)
    BY <1>4, <1>8
  <2>3. fs = es \o <<Event("run_complete", Winner(y.results))>>
    BY <1>4, <1>6
  <2> QED
    BY <1>4, <2>1, <2>2, <2>3, StoryEnds, Zenon
<1>10. PICK per \in [Runs -> Nat] : per = spend.perRun
  BY RunContext
<1>11. spend' = [spend EXCEPT !.perRun = [per EXCEPT ![r] = 0]]
  BY <1>10 DEF FinalizeRun
<1>12. spend' \in [daily : Nat, perRun : [Runs -> Nat]] /\ spend'.perRun = [per EXCEPT ![r] = 0]
  BY <1>11, RunContext, Zenon
<1>13. LegacyTypes'
  <2>1. stored' = [q \in Runs |-> stored'[q]]
    BY <1>w, <1>t, Zenon
  <2> QED
    BY <1>4, <1>5, <1>7, <1>9, <1>12, <1>t, <2>1, Zenon DEF LegacyTypes
<1>14. run'[r] = y /\ task'[r] = task[r] /\ emitted'[r] = fs /\ stored'[r] = w /\ spend'.perRun[r] = 0
  BY <1>5, <1>7, <1>w, <1>12, <1>t
<1>15. \A q \in Runs \ {r} : /\ run'[q] = run[q] /\ task'[q] = task[q] /\ emitted'[q] = emitted[q]
                             /\ stored'[q] = stored[q] /\ spend'.perRun[q] = spend.perRun[q]
  BY <1>5, <1>7, <1>w, <1>10, <1>12, <1>t
<1>16. Spending(0, task[r])
  BY <1>t, SpendingZero
<1> QED
  BY <1>9, <1>13, <1>14, <1>15, <1>16, LegacyKept, Zenon

LEMMA FinishRunKept ==
  ASSUME LegacyInv, NEW r \in Runs, FinishRun(r)
  PROVE  LegacyInv'
<1>1. /\ run[r].state = "running" /\ run[r].req.kind # "comparison" /\ \A i \in DOMAIN task[r] : task[r][i].pc = "done"
      /\ FinalizeRun(r, run[r].results, <<>>, "completed") /\ UNCHANGED task
      /\ usage' = [usage EXCEPT ![r] = 0]
  BY DEF FinishRun, Live, IsComparison, TasksDone
<1>2. Story(run[r], task[r], emitted[r], stored[r]) /\ run[r] \in RunRows /\ emitted[r] \in Seq(EventRows)
      /\ usage \in [Runs -> Nat]
  BY RunContext
<1>3. PICK seq : seq = run[r].req.scaffolds
  OBVIOUS
<1>4. PICK results \in Seq(ResultRows) : results = run[r].results
  BY <1>2 DEF RunRows
<1>5. /\ run[r].req \in Requests /\ seq \in Seq(Scaffolds) /\ DOMAIN task[r] = DOMAIN seq /\ stored[r] = NoRun
      /\ NoTerminal(emitted[r]) /\ ArenaProgress(results, seq, task[r], emitted[r])
  BY <1>1, <1>2, <1>3, <1>4 DEF Story
<1>6. Accounted(results, seq, emitted[r])
  BY <1>1, <1>5 DEF ArenaProgress, Accounted
<1>7. PICK e : e = Event("run_complete", Winner(results))
  OBVIOUS
<1>8. emitted[r] \o (<<>> \o <<e>>) = emitted[r] \o <<e>>
  <2>1. <<e>> \in Seq({e})
    OBVIOUS
  <2>2. <<>> \o <<e>> = <<e>>
    BY <2>1, SeqJoinEmpty
  <2> QED
    BY <2>2
<1>9. usage' \in [Runs -> Nat]
  BY <1>1, <1>2
<1> QED
  BY <1>1, <1>2, <1>3, <1>4, <1>5, <1>6, <1>7, <1>8, <1>9, FinalizeKept, Zenon

\* Events that report no evaluation have failed what they say has failed.
LEMMA OnlyFailures ==
  ASSUME NEW es \in Seq(EventRows), NEW s, \A i \in DOMAIN es : es[i] # Event("evaluation_completed", s)
  PROVE  FailedIn(es, s) <=> \E i \in DOMAIN es : es[i] = Event("scaffold_failed", s)
<1>1. PICK n \in Nat : n = Len(es) /\ DOMAIN es = 1 .. n
  BY SeqShape
<1>2. \A i \in 1 .. n : \A j \in i + 1 .. n : j \in 1 .. n
  OBVIOUS
<1> QED
  BY <1>1, <1>2 DEF FailedIn

\* The distinct scaffolds of a request, each once.
LEMMA NamedOnce ==
  ASSUME NEW seq \in Seq(Scaffolds), NEW named, named = SetToSeq(ToSet(seq))
  PROVE  /\ named \in Seq(Scaffolds)
         /\ \A i, j \in DOMAIN named : named[i] = named[j] => i = j
         /\ \A i \in DOMAIN seq : \E k \in DOMAIN named : named[k] = seq[i]
         /\ \A k \in DOMAIN named : \E i \in DOMAIN seq : named[k] = seq[i]
<1>1. PICK n \in Nat : n = Len(seq) /\ DOMAIN seq = 1 .. n
  BY SeqShape
<1>2. PICK S : S = ToSet(seq)
  OBVIOUS
<1>3. S = {seq[i] : i \in DOMAIN seq}
  BY <1>2 DEF ToSet
<1>4. S \in SUBSET Scaffolds
  BY <1>1, <1>3, SeqMember
<1>5. IsFiniteSet(S)
  <2>1. seq \in Surjection(1 .. n, S)
    <3>1. seq \in [1 .. n -> S]
      BY <1>1, <1>3, SeqShape
    <3> QED
      BY <1>1, <1>3, <3>1 DEF Surjection
  <2>2. IsFiniteSet(1 .. n)
    BY FS_Interval
  <2> QED
    BY <2>1, <2>2, FS_Surjection
<1>6. PICK c \in Nat : c = Cardinality(S) /\ ExistsBijection(1 .. c, S)
  BY <1>5, FS_CardinalityType
<1>7. PICK f \in [1 .. c -> S] : IsInjective(f)
  BY <1>6 DEF ExistsBijection, Bijection, Injection
<1>8. named \in [1 .. c -> S] /\ IsInjective(named)
  <2>1. named = CHOOSE g \in [1 .. c -> S] : IsInjective(g)
    BY <1>2, <1>6 DEF SetToSeq
  <2> QED
    BY <1>7, <2>1
<1>9. named \in Surjection(1 .. c, S)
  <2>1. named \in Injection(1 .. c, S)
    BY <1>8 DEF Injection
  <2>2. Cardinality(1 .. c) = c
    BY FS_Interval
  <2> QED
    BY <1>5, <1>6, <2>1, <2>2, FS_Injection
<1>10. DOMAIN named = 1 .. c /\ named \in [1 .. c -> Scaffolds]
  BY <1>4, <1>8
<1>11. named \in Seq(Scaffolds)
  BY <1>10, SeqUnfolds
<1>12. \A i, j \in DOMAIN named : named[i] = named[j] => i = j
  BY <1>8 DEF IsInjective
<1>13. \A i \in DOMAIN seq : \E k \in DOMAIN named : named[k] = seq[i]
  BY <1>3, <1>9, <1>10, Zenon DEF Surjection
<1>14. \A k \in DOMAIN named : \E i \in DOMAIN seq : named[k] = seq[i]
  BY <1>3, <1>8, <1>10
<1> QED
  BY <1>11, <1>12, <1>13, <1>14

LEMMA WithoutProviderKept ==
  ASSUME LegacyInv, NEW r \in Runs, StartRunWithoutProvider(r)
  PROVE  LegacyInv'
<1>1. run[r].state = "created" /\ run[r].req.kind # "comparison" /\ UNCHANGED <<task, usage>>
  BY DEF StartRunWithoutProvider, IsComparison
<1>2. Story(run[r], task[r], emitted[r], stored[r]) /\ usage \in [Runs -> Nat]
  BY RunContext
<1>3. PICK seq : seq = run[r].req.scaffolds
  OBVIOUS
<1>4. /\ run[r].req \in Requests /\ seq \in Seq(Scaffolds) /\ DOMAIN task[r] = DOMAIN seq
      /\ emitted[r] = <<>> /\ stored[r] = NoRun
  BY <1>1, <1>2, <1>3 DEF Story
<1>5. PICK named : named = SetToSeq(ToSet(seq))
  OBVIOUS
<1>6. /\ named \in Seq(Scaffolds)
      /\ \A i, j \in DOMAIN named : named[i] = named[j] => i = j
      /\ \A i \in DOMAIN seq : \E k \in DOMAIN named : named[k] = seq[i]
      /\ \A k \in DOMAIN named : \E i \in DOMAIN seq : named[k] = seq[i]
  BY <1>4, <1>5, NamedOnce
<1>7. PICK c \in Nat : c = Len(named) /\ DOMAIN named = 1 .. c
  BY <1>6, SeqShape
<1>8. PICK n \in Nat : n = Len(seq) /\ DOMAIN seq = 1 .. n
  BY <1>4, SeqShape
<1>9. PICK errors : errors = [i \in 1 .. c |-> [scaffold |-> named[i], score |-> Failure]]
  BY Zenon
<1>10. /\ errors \in Seq(ResultRows) /\ DOMAIN errors = 1 .. c
       /\ \A i \in 1 .. c : errors[i].scaffold = named[i] /\ errors[i].score = Failure
  <2>1. \A i \in 1 .. c : named[i] \in Scaffolds
    BY <1>6, <1>7, SeqMember
  <2>2. \A i \in 1 .. c : errors[i] \in ResultRows
    BY <1>9, <2>1, ResultRowIs
  <2>3. errors \in [1 .. c -> ResultRows]
    BY <1>9, <2>2
  <2> QED
    BY <1>9, <2>3, SeqUnfolds
<1>11. PICK failed : failed = [i \in 1 .. n |-> Event("scaffold_failed", seq[i])]
  BY Zenon
<1>12. \A i \in 1 .. n : seq[i] \in Scaffolds
  BY <1>4, <1>8, SeqMember
<1>13. /\ failed \in Seq(EventRows) /\ DOMAIN failed = 1 .. n
       /\ \A i \in 1 .. n : failed[i] = Event("scaffold_failed", seq[i])
  <2>1. failed \in [1 .. n -> EventRows]
    BY <1>11, <1>12, EventIs
  <2> QED
    BY <1>11, <2>1, SeqUnfolds
<1>14. Len(failed) = n
  BY <1>4, <1>8, <1>13, SameLength
<1>15. PICK e \in EventRows : e = Event("run_started", "none") /\ e.type = "run_started"
  BY EventIs
<1>16. PICK es : es = <<e>> \o failed
  BY Zenon
<1>17. /\ es \in Seq(EventRows) /\ DOMAIN es = 1 .. n + 1 /\ es[1] = e
       /\ \A i \in 1 .. n : es[i + 1] = Event("scaffold_failed", seq[i])
  <2>1. <<e>> \in Seq(EventRows) /\ Len(<<e>>) = 1 /\ <<e>>[1] = e
    OBVIOUS
  <2>2. es \in Seq(EventRows) /\ Len(es) = 1 + n
    BY <1>13, <1>14, <1>16, <2>1, SeqJoin
  <2>3. \A i \in 1 .. 1 + n : es[i] = IF i <= 1 THEN <<e>>[i] ELSE failed[i - 1]
    BY <1>13, <1>14, <1>16, <2>1, SeqJoin
  <2>4. DOMAIN es = 1 .. n + 1
    BY <2>2, SeqShape
  <2>5. 1 \in 1 .. 1 + n /\ \A i \in 1 .. n : i + 1 \in 1 .. 1 + n /\ ~ (i + 1 <= 1) /\ (i + 1) - 1 = i
    OBVIOUS
  <2> QED
    BY <1>13, <2>1, <2>2, <2>3, <2>4, <2>5
<1>18. \A j \in 1 .. n + 1 : es[j] = e \/ \E i \in 1 .. n : j = i + 1 /\ es[j] = Event("scaffold_failed", seq[i])
  <2>1. \A j \in 1 .. n + 1 : j = 1 \/ (j - 1 \in 1 .. n /\ j = (j - 1) + 1)
    OBVIOUS
  <2> QED
    BY <1>17, <2>1
<1>19. NoTerminal(es)
  <2>1. \A i \in 1 .. n : Event("scaffold_failed", seq[i]).type = "scaffold_failed"
    BY <1>12, EventIs
  <2> QED
    BY <1>15, <1>17, <1>18, <2>1 DEF NoTerminal, Terminal
<1>20. ASSUME NEW s \in Scaffolds
       PROVE  FailedIn(es, s) <=> \E i \in 1 .. n : seq[i] = s
  <2>1. /\ e # Event("evaluation_completed", s) /\ e # Event("scaffold_failed", s)
        /\ \A i \in 1 .. n : /\ Event("scaffold_failed", seq[i]) # Event("evaluation_completed", s)
                             /\ Event("scaffold_failed", seq[i]) = Event("scaffold_failed", s) => seq[i] = s
    BY <1>12, <1>15, EventIs
  <2>2. \A j \in DOMAIN es : es[j] # Event("evaluation_completed", s)
    BY <1>17, <1>18, <2>1
  <2>3. FailedIn(es, s) <=> \E j \in DOMAIN es : es[j] = Event("scaffold_failed", s)
    BY <1>17, <2>2, OnlyFailures, Zenon
  <2>4. ASSUME NEW j \in DOMAIN es, es[j] = Event("scaffold_failed", s)
        PROVE  \E i \in 1 .. n : seq[i] = s
    BY <1>17, <1>18, <2>1, <2>4
  <2>5. ASSUME NEW i \in 1 .. n, seq[i] = s
        PROVE  \E j \in DOMAIN es : es[j] = Event("scaffold_failed", s)
    <3>1. i + 1 \in 1 .. n + 1
      OBVIOUS
    <3> QED
      BY <1>17, <2>5, <3>1
  <2> QED
    BY <2>3, <2>4, <2>5
<1>21. Accounted(errors, seq, es)
  <2>1. OneEach(errors)
    BY <1>6, <1>7, <1>10 DEF OneEach
  <2>2. \A i \in DOMAIN seq : Named(errors, seq[i])
    BY <1>6, <1>7, <1>10 DEF Named
  <2>3. \A k \in DOMAIN errors : \E i \in DOMAIN seq : errors[k].scaffold = seq[i]
    BY <1>6, <1>7, <1>10
  <2>4. FailuresShown(errors, es)
    <3> SUFFICES ASSUME NEW s \in Scaffolds
                 PROVE  FailedIn(es, s) <=> Scored(errors, s, Failure)
      BY DEF FailuresShown
    <3>1. Scored(errors, s, Failure) <=> \E k \in 1 .. c : named[k] = s
      BY <1>10 DEF Scored
    <3>2. (\E k \in 1 .. c : named[k] = s) <=> \E i \in 1 .. n : seq[i] = s
      <4>1. ASSUME NEW k \in 1 .. c, named[k] = s
            PROVE  \E i \in 1 .. n : seq[i] = s
        BY <1>6, <1>7, <1>8, <4>1
      <4>2. ASSUME NEW i \in 1 .. n, seq[i] = s
            PROVE  \E k \in 1 .. c : named[k] = s
        BY <1>6, <1>7, <1>8, <4>2, SMTT(30)
      <4> QED
        BY <4>1, <4>2
    <3> QED
      BY <1>20, <3>1, <3>2
  <2> QED
    BY <2>1, <2>2, <2>3, <2>4 DEF Accounted
<1>22. FinalizeRun(r, errors, es, "failed")
  BY <1>3, <1>5, <1>7, <1>8, <1>9, <1>11, <1>15, <1>16 DEF StartRunWithoutProvider, ScaffoldSeq
<1>23. PICK z \in EventRows : z = Event("run_complete", Winner(errors))
  BY <1>10, WinnersAreNamed, EventIs
<1>24. emitted[r] \o (es \o <<z>>) = es \o <<z>>
  BY <1>4, <1>17, AppendIs, SeqJoinEmpty
<1>25. usage' \in [Runs -> Nat]
  BY <1>1, <1>2
<1> QED
  BY <1>1, <1>3, <1>4, <1>10, <1>17, <1>19, <1>21, <1>22, <1>23, <1>24, <1>25, FinalizeKept, Zenon

LEMMA FinishComparisonKept ==
  ASSUME LegacyInv, NEW r \in Runs, FinishComparison(r)
  PROVE  LegacyInv'
<1>t. run \in [Runs -> RunRows] /\ emitted \in [Runs -> Seq(EventRows)] /\ task \in [Runs -> Seq(TaskRows)]
      /\ stored = [q \in Runs |-> stored[q]]
  BY DEF LegacyInv, LegacyTypes
<1>1. /\ run[r].state = "running" /\ run[r].req.kind = "comparison" /\ \A i \in DOMAIN task[r] : task[r][i].pc = "done"
      /\ UNCHANGED <<task, spend, usage>>
  BY DEF FinishComparison, Live, IsComparison, TasksDone
<1>2. Story(run[r], task[r], emitted[r], stored[r]) /\ Spending(spend.perRun[r], task[r])
  BY RunContext
<1>3. PICK seq : seq = run[r].req.scaffolds
  OBVIOUS
<1>4. PICK results \in Seq(ResultRows) : results = run[r].results
  BY <1>t DEF RunRows
<1>5. /\ run[r].req \in Requests /\ seq \in Seq(Scaffolds) /\ DOMAIN task[r] = DOMAIN seq /\ stored[r] = NoRun
      /\ NoTerminal(emitted[r]) /\ CaseProgress(results, seq, task[r])
  BY <1>1, <1>2, <1>3, <1>4 DEF Story
<1>6. DOMAIN results = DOMAIN seq /\ \A k \in DOMAIN results : results[k].scaffold = seq[k]
  BY <1>1, <1>5 DEF CaseProgress
<1>7. Len(results) = Len(seq)
  BY <1>5, <1>6, SameLength
<1>8. PICK v \in Scaffolds \union {"none"} : v = ComparisonWinner(results)
  BY WinnersAreNamed
<1>9. PICK e \in EventRows : e = Event("comparison_complete", v) /\ e.type = "comparison_complete" /\ e.scaffold = v
  BY EventIs
<1>10. PICK fs : fs = emitted[r] \o <<e>>
  BY Zenon
<1>11. fs \in Seq(EventRows) /\ TerminalLast(fs) /\ fs # <<>> /\ fs[Len(fs)] = e
  BY <1>5, <1>10, <1>t, AppendIs, EmitOne, Zenon
<1>12. emitted' = [emitted EXCEPT ![r] = fs]
  BY <1>4, <1>8, <1>9, <1>10 DEF FinishComparison, Emit
<1>13. PICK y, w : /\ run' = [run EXCEPT ![r] = y] /\ stored' = [stored EXCEPT ![r] = w]
                   /\ \/ y = [run[r] EXCEPT !.state = "done"] /\ w.winner = v /\ w.results = results
                      \/ y = [run[r] EXCEPT !.state = "abandoned"] /\ w = NoRun
  <2>1. CASE /\ stored' = [stored EXCEPT ![r] = [status |-> "completed", results |-> run[r].results,
                                                winner |-> ComparisonWinner(run[r].results)]]
             /\ run' = [run EXCEPT ![r].state = "done"]
    <3>1. PICK w : w = [status |-> "completed", results |-> results, winner |-> v]
      BY Zenon
    <3>2. w.winner = v /\ w.results = results
      BY <3>1
    <3>3. stored' = [stored EXCEPT ![r] = w] /\ run' = [run EXCEPT ![r] = [run[r] EXCEPT !.state = "done"]]
      BY <1>4, <1>8, <2>1, <3>1
    <3> QED
      BY <3>2, <3>3, Zenon
  <2>2. CASE run' = [run EXCEPT ![r].state = "abandoned"] /\ UNCHANGED stored
    <3>1. stored' = [stored EXCEPT ![r] = NoRun]
      BY <1>5, <1>t, <2>2
    <3>2. run' = [run EXCEPT ![r] = [run[r] EXCEPT !.state = "abandoned"]]
      BY <2>2
    <3> QED
      BY <3>1, <3>2, Zenon
  <2> QED
    BY <2>1, <2>2 DEF FinishComparison
<1>14. y \in RunRows /\ y.req = run[r].req /\ y.results = results /\ y.state \in {"done", "abandoned"}
  BY <1>4, <1>13, <1>t, StateMoves
<1>15. y.state = "done" => w.winner = v /\ w.results = results
  BY <1>13, <1>t, StateMoves
<1>16. y.state = "abandoned" => w = NoRun
  BY <1>13, <1>t, StateMoves
<1>17. RunOutcome(y, fs)
  BY <1>1, <1>3, <1>6, <1>7, <1>14 DEF RunOutcome
<1>18. Story(y, task[r], fs, w)
  BY <1>3, <1>5, <1>9, <1>11, <1>14, <1>15, <1>16, <1>17 DEF Story, Terminal
<1>19. LegacyTypes'
  <2>1. stored' = [q \in Runs |-> stored'[q]]
    BY <1>13, <1>t, Zenon
  <2> QED
    BY <1>1, <1>11, <1>12, <1>13, <1>14, <2>1, Zenon DEF LegacyInv, LegacyTypes
<1>20. run'[r] = y /\ emitted'[r] = fs /\ stored'[r] = w
  BY <1>12, <1>13, <1>t
<1>21. \A q \in Runs \ {r} : run'[q] = run[q] /\ emitted'[q] = emitted[q] /\ stored'[q] = stored[q]
  BY <1>12, <1>13, <1>t
<1> QED
  BY <1>1, <1>2, <1>18, <1>19, <1>20, <1>21, LegacyKept

LEMMA NextCaseKept ==
  ASSUME LegacyInv, NEW r \in Runs, NextCase(r)
  PROVE  LegacyInv'
<1>t. run \in [Runs -> RunRows] /\ emitted \in [Runs -> Seq(EventRows)] /\ task \in [Runs -> Seq(TaskRows)]
  BY DEF LegacyInv, LegacyTypes
<1>1. run[r].state \in {"created", "running"} /\ run[r].req.kind = "comparison" /\ UNCHANGED <<spend, usage, stored>>
  BY DEF NextCase, IsComparison
<1>2. PICK i \in DOMAIN task[r] :
        /\ task[r][i].pc = "none" /\ \A j \in 1 .. (i - 1) : task[r][j].pc = "done"
        /\ Emit(r, IF i = 1 THEN <<Event("comparison_started", "none")>> ELSE <<>>)
        /\ \/ /\ SetTask(r, i, [IdleTask EXCEPT !.pc = "ready"])
              /\ run' = [run EXCEPT ![r].state = "running"]
           \/ /\ run' = [run EXCEPT ![r].state = "abandoned"]
              /\ UNCHANGED task
  BY DEF NextCase
<1>3. Story(run[r], task[r], emitted[r], stored[r]) /\ Spending(spend.perRun[r], task[r]) /\ spend.perRun[r] \in Nat
  BY RunContext
<1>4. PICK seq : seq = run[r].req.scaffolds
  OBVIOUS
<1>5. PICK results \in Seq(ResultRows) : results = run[r].results
  BY <1>t DEF RunRows
<1>6. run[r].req \in Requests /\ seq \in Seq(Scaffolds) /\ DOMAIN task[r] = DOMAIN seq /\ stored[r] = NoRun
  BY <1>1, <1>3, <1>4 DEF Story
<1>7. NoTerminal(emitted[r]) /\ CaseProgress(results, seq, task[r])
  <2>1. CASE run[r].state = "running"
    BY <1>1, <1>3, <1>4, <1>5, <2>1 DEF Story
  <2>2. CASE run[r].state = "created"
    <3>1. emitted[r] = <<>> /\ results = <<>> /\ \A j \in DOMAIN task[r] : task[r][j].pc = "none"
      BY <1>3, <1>5, <2>2 DEF Story
    <3>2. \A j \in DOMAIN <<>> : FALSE
      OBVIOUS
    <3> QED
      BY <3>1, <3>2 DEF NoTerminal, CaseProgress
  <2> QED
    BY <1>1, <2>1, <2>2
<1>8. PICK fs \in Seq(EventRows) : emitted' = [emitted EXCEPT ![r] = fs] /\ NoTerminal(fs)
  <2>1. PICK e \in EventRows : e = Event("comparison_started", "none") /\ e.type = "comparison_started"
    BY EventIs
  <2>2. CASE i = 1
    <3>1. PICK fs : fs = emitted[r] \o <<e>>
      BY Zenon
    <3>2. fs \in Seq(EventRows) /\ NoTerminal(fs)
      BY <1>7, <1>t, <2>1, <3>1, AppendIs, EmitOne, Zenon DEF Terminal
    <3>3. emitted' = [emitted EXCEPT ![r] = fs]
      BY <1>2, <2>1, <2>2, <3>1 DEF Emit
    <3> QED
      BY <3>2, <3>3, Zenon
  <2>3. CASE i # 1
    <3>1. emitted[r] \o <<>> = emitted[r]
      BY <1>t, SeqJoinEmpty
    <3> QED
      BY <1>2, <1>7, <1>t, <2>3, <3>1, Zenon DEF Emit
  <2> QED
    BY <2>2, <2>3
<1>9. TerminalLast(fs)
  BY <1>8 DEF TerminalLast, NoTerminal
<1>10. PICK m \in Nat : m = Len(task[r]) /\ DOMAIN task[r] = 1 .. m
  BY <1>t, SeqShape
<1>11. PICK n \in Nat : n = Len(results) /\ DOMAIN results = 1 .. n
  BY SeqShape
<1>12. i = n + 1
  <2>1. i \notin 1 .. n /\ \A j \in 1 .. (i - 1) : j \in 1 .. n
    <3>1. \A j \in 1 .. (i - 1) : j \in 1 .. m
      BY <1>10
    <3> QED
      BY <1>2, <1>7, <1>10, <1>11, <3>1 DEF CaseProgress
  <2>2. i \in Nat /\ i >= 1
    BY <1>10
  <2>3. i - 1 # 0 => i - 1 \in 1 .. (i - 1)
    BY <2>2
  <2> QED
    BY <2>1, <2>2, <2>3
<1>13. CASE /\ SetTask(r, i, [IdleTask EXCEPT !.pc = "ready"])
            /\ run' = [run EXCEPT ![r].state = "running"]
  <2>1. PICK t \in TaskRows : t = [IdleTask EXCEPT !.pc = "ready"] /\ t.pc = "ready"
    BY IdleIs, Zenon
  <2>2. PICK us : us = [task[r] EXCEPT ![i] = t]
    BY Zenon
  <2>3. /\ us \in Seq(TaskRows) /\ DOMAIN us = DOMAIN task[r] /\ us[i] = t
        /\ \A j \in DOMAIN task[r] : j # i => us[j] = task[r][j]
    BY <1>t, <2>2, SeqExcept, SeqShape
  <2>4. CaseProgress(results, seq, us)
    BY <1>2, <1>7, <1>11, <1>12, <2>1, <2>3, Zenon DEF CaseProgress
  <2>5. PICK y : y = [run[r] EXCEPT !.state = "running"]
    BY Zenon
  <2>6. y \in RunRows /\ y.state = "running" /\ y.req = run[r].req /\ y.results = results
    BY <1>5, <1>t, <2>5, StateMoves
  <2>7. Story(y, us, fs, stored[r])
    BY <1>1, <1>4, <1>6, <1>8, <2>3, <2>4, <2>6 DEF Story
  <2>8. Spending(spend.perRun[r], us)
    BY <1>3, <1>t, <2>1, <2>2, SpendingKept, Zenon
  <2>9. run' = [run EXCEPT ![r] = y] /\ task' = [task EXCEPT ![r] = us]
    BY <1>13, <2>1, <2>2, <2>5 DEF SetTask
  <2>10. LegacyTypes'
    BY <1>1, <1>8, <2>3, <2>6, <2>9, Zenon DEF LegacyInv, LegacyTypes
  <2>11. run'[r] = y /\ task'[r] = us /\ emitted'[r] = fs
    BY <1>8, <1>t, <2>9
  <2>12. \A q \in Runs \ {r} : run'[q] = run[q] /\ task'[q] = task[q] /\ emitted'[q] = emitted[q]
    BY <1>8, <1>t, <2>9
  <2> QED
    BY <1>1, <2>7, <2>8, <2>10, <2>11, <2>12, LegacyKept
<1>14. CASE run' = [run EXCEPT ![r].state = "abandoned"] /\ UNCHANGED task
  <2>1. PICK y : y = [run[r] EXCEPT !.state = "abandoned"]
    BY Zenon
  <2>2. y \in RunRows /\ y.state = "abandoned" /\ y.req = run[r].req
    BY <1>t, <2>1, StateMoves
  <2>3. Story(y, task[r], fs, stored[r])
    BY <1>4, <1>6, <1>9, <2>2 DEF Story
  <2>4. run' = [run EXCEPT ![r] = y]
    BY <1>14, <2>1
  <2>5. LegacyTypes'
    BY <1>1, <1>8, <1>14, <2>2, <2>4, Zenon DEF LegacyInv, LegacyTypes
  <2>6. run'[r] = y /\ task'[r] = task[r] /\ emitted'[r] = fs
    BY <1>8, <1>14, <1>t, <2>4
  <2>7. \A q \in Runs \ {r} : run'[q] = run[q] /\ task'[q] = task[q] /\ emitted'[q] = emitted[q]
    BY <1>8, <1>14, <1>t, <2>4
  <2> QED
    BY <1>1, <1>3, <2>3, <2>5, <2>6, <2>7, LegacyKept
<1> QED
  BY <1>2, <1>13, <1>14

LEMMA LegacyStarts == LegacyInit => LegacyInv
<1> SUFFICES ASSUME LegacyInit PROVE LegacyInv
  OBVIOUS
<1>1. /\ run = [r \in Runs |-> Absent] /\ task = [r \in Runs |-> <<>>] /\ emitted = [r \in Runs |-> <<>>]
      /\ spend = [daily |-> 0, perRun |-> [r \in Runs |-> 0]] /\ usage = [r \in Runs |-> 0]
      /\ stored = [r \in Runs |-> NoRun]
  BY DEF LegacyInit
<1>2. <<>> \in Seq(TaskRows) /\ <<>> \in Seq(EventRows)
  BY SeqEmpty
<1>3. LegacyTypes
  BY <1>1, <1>2, AbsentIs DEF LegacyTypes
<1>4. Spending(0, <<>>)
  BY <1>2, SpendingZero, Zenon
<1>5. Absent.state = "absent"
  BY DEF Absent
<1>6. Story(Absent, <<>>, <<>>, NoRun)
  BY <1>5 DEF Story
<1>7. ASSUME NEW r \in Runs
      PROVE  Story(run[r], task[r], emitted[r], stored[r]) /\ Spending(spend.perRun[r], task[r])
  BY <1>1, <1>4, <1>6
<1> QED
  BY <1>3, <1>7 DEF LegacyInv

LEMMA LegacyStep == LegacyInv /\ [LegacyNext]_legacyVars => LegacyInv'
<1> SUFFICES ASSUME LegacyInv, [LegacyNext]_legacyVars PROVE LegacyInv'
  OBVIOUS
<1>1. CASE UNCHANGED legacyVars
  BY <1>1 DEF legacyVars, LegacyInv, LegacyTypes
<1>2. CASE \E r \in Runs : RunStep(r) \/ RunExpires(r) \/ Cancel(r)
  BY <1>2, StartRunKept, WithoutProviderKept, FinishRunKept, NextCaseKept, FinishComparisonKept, CancelKept DEF RunStep
<1>3. CASE \E r \in Runs : \E i \in DOMAIN task[r] : ScaffoldStep(r, i)
  BY <1>3, ScaffoldStepKept
<1>4. CASE \E req \in Requests : CreateRun(req)
  BY <1>4, CreateKept
<1>5. CASE Shutdown
  BY <1>5, ShutdownKept
<1>6. CASE \/ \E key \in Keys : KeyExpires(key)
           \/ \E u \in Subscribers : TakeEvent(u) \/ (\E r \in Runs : Subscribe(u, r))
           \/ Rollover
  BY <1>6, OthersKept
<1> QED
  BY <1>1, <1>2, <1>3, <1>4, <1>5, <1>6 DEF LegacyNext

LEMMA LegacyPart == Spec => LegacySpec
<1>1. Init => LegacyInit
  BY DEF Init
<1>2. [Next]_vars => [LegacyNext]_legacyVars
  BY DEF Next, Rest, vars
<1> QED
  BY <1>1, <1>2, PTL DEF Spec, LegacySpec

\* However the coroutines of a run interleave, fail, time out, are cancelled or
\* named twice, a run that says it is complete has told the truth: its last event,
\* its results, its diagnosis and its row agree (core/run_engine, core/run_lifecycle).
THEOREM CompletionsAreTruthful == Spec => []CompleteIsTruthful
<1>1. LegacyInv => CompleteIsTruthful
  <2> SUFFICES ASSUME LegacyInv, NEW r \in Runs, NEW i \in DOMAIN emitted[r], emitted[r][i].type \in Terminal
               PROVE  /\ i = Len(emitted[r])
                      /\ run[r].state = "done" =>
                           /\ ToSet(ScaffoldSeq(r)) = {x.scaffold : x \in ToSet(run[r].results)}
                           /\ IF IsComparison(r) THEN Len(run[r].results) = Len(ScaffoldSeq(r))
                              ELSE /\ \A j, k \in DOMAIN run[r].results :
                                        run[r].results[j].scaffold = run[r].results[k].scaffold => j = k
                                   /\ \A x \in ToSet(run[r].results) :
                                        x.scaffold = emitted[r][i].scaffold => x.score # Failure
                                   /\ DiagnosedStatus(r) = "failed" <=> \E s \in Scaffolds : ShownFailed(r, s)
                           /\ stored[r] # NoRun => Details(r).results = stored[r].results
                      /\ stored[r] # NoRun => stored[r].winner = emitted[r][i].scaffold
    BY DEF CompleteIsTruthful
  <2>1. /\ Story(run[r], task[r], emitted[r], stored[r]) /\ run[r] \in RunRows /\ emitted[r] \in Seq(EventRows)
    BY RunContext
  <2>2. PICK x \in RunRows : x = run[r]
    BY <2>1
  <2>3. PICK es \in Seq(EventRows) : es = emitted[r] /\ i \in DOMAIN es
    BY <2>1
  <2>4. Story(x, task[r], es, stored[r]) /\ es[i].type \in Terminal
    BY <2>1, <2>2, <2>3
  <2>5. x.state \in {"abandoned", "done", "evicted"}
    <3>1. \A j \in DOMAIN <<>> : FALSE
      OBVIOUS
    <3>2. x.state \in {"absent", "created", "running", "done", "abandoned", "evicted"}
      BY DEF RunRows
    <3> QED
      BY <2>3, <2>4, <3>1, <3>2 DEF Story, NoTerminal
  <2>6. i = Len(es)
    BY <2>3, <2>4, <2>5 DEF Story, TerminalLast
  <2>7. stored[r] # NoRun => stored[r].winner = es[i].scaffold
    BY <2>4, <2>5, <2>6 DEF Story
  <2>8. ASSUME x.state = "done"
        PROVE  /\ ToSet(x.req.scaffolds) = {v.scaffold : v \in ToSet(x.results)}
               /\ IF x.req.kind = "comparison" THEN Len(x.results) = Len(x.req.scaffolds)
                  ELSE /\ \A j, k \in DOMAIN x.results : x.results[j].scaffold = x.results[k].scaffold => j = k
                       /\ \A v \in ToSet(x.results) : v.scaffold = es[i].scaffold => v.score # Failure
                       /\ FailuresShown(x.results, es)
               /\ stored[r] # NoRun => x.results = stored[r].results
    <3>1. RunOutcome(x, es) /\ (stored[r] # NoRun => x.results = stored[r].results)
      BY <2>4, <2>8 DEF Story
    <3>2. x.results \in Seq(ResultRows) /\ x.req.scaffolds \in Seq(Scaffolds)
      BY <2>4, <2>8 DEF Story, RunRows
    <3>3. CASE x.req.kind = "comparison"
      <4>1. Len(x.results) = Len(x.req.scaffolds) /\ \A k \in DOMAIN x.results : x.results[k].scaffold = x.req.scaffolds[k]
        BY <3>1, <3>3 DEF RunOutcome
      <4>2. DOMAIN x.results = DOMAIN x.req.scaffolds
        BY <3>2, <4>1, SeqShape
      <4> QED
        BY <3>1, <3>3, <4>1, <4>2 DEF ToSet
    <3>4. CASE x.req.kind # "comparison"
      <4>1. /\ OneEach(x.results) /\ FailuresShown(x.results, es)
            /\ \A k \in DOMAIN x.req.scaffolds : Named(x.results, x.req.scaffolds[k])
            /\ \A k \in DOMAIN x.results : \E j \in DOMAIN x.req.scaffolds : x.results[k].scaffold = x.req.scaffolds[j]
            /\ \A k \in DOMAIN x.results : x.results[k].scaffold = es[i].scaffold => x.results[k].score # Failure
        BY <2>6, <3>1, <3>4 DEF RunOutcome
      <4>2. ToSet(x.req.scaffolds) = {v.scaffold : v \in ToSet(x.results)}
        BY <4>1 DEF ToSet, Named
      <4>3. \A v \in ToSet(x.results) : v.scaffold = es[i].scaffold => v.score # Failure
        BY <4>1 DEF ToSet
      <4> QED
        BY <3>1, <3>4, <4>1, <4>2, <4>3 DEF OneEach
    <3> QED
      BY <3>3, <3>4
  <2>9. ASSUME x.state = "done", x.req.kind # "comparison"
        PROVE  DiagnosedStatus(r) = "failed" <=> \E s \in Scaffolds : ShownFailed(r, s)
    <3>1. FailuresShown(x.results, es)
      BY <2>8, <2>9
    <3>2. DiagnosedStatus(r) = "failed" <=> \E k \in DOMAIN x.results : x.results[k].score = Failure
      BY <2>2, <2>9 DEF DiagnosedStatus
    <3>3. \A k \in DOMAIN x.results : x.results[k].scaffold \in Scaffolds
      <4>1. x.results \in Seq(ResultRows)
        BY DEF RunRows
      <4>2. \A k \in DOMAIN x.results : x.results[k] \in ResultRows
        BY <4>1, SeqMember, SeqShape
      <4> QED
        BY <4>2 DEF ResultRows
    <3>4. \A s \in Scaffolds : ShownFailed(r, s) <=> FailedIn(es, s)
      BY <2>3 DEF ShownFailed, FailedIn
    <3> QED
      BY <3>1, <3>2, <3>3, <3>4 DEF FailuresShown, Scored
  <2>10. x.state = "done" => Details(r).results = x.results
    BY <2>2 DEF Details
  <2> QED
    BY <2>2, <2>3, <2>6, <2>7, <2>8, <2>9, <2>10 DEF ScaffoldSeq, IsComparison
<1> QED
  BY <1>1, LegacyStarts, LegacyStep, LegacyPart, PTL DEF LegacySpec

\* A run overshoots its limit by at most one call of each coroutine, for every
\* number of concurrent coroutines and every table of costs (core/budget).
THEOREM OvershootsAreBounded == Spec => []OvershootIsBounded
<1>1. LegacyInv => OvershootIsBounded
  <2> SUFFICES ASSUME LegacyInv, NEW r \in Runs
               PROVE  spend.perRun[r] < RunLimit + CallCeiling * Len(task[r])
    BY DEF OvershootIsBounded
  <2>1. PICK n \in Nat : n = spend.perRun[r]
    BY RunContext
  <2>2. PICK c \in Nat : c = CallCeiling
    BY CeilingIs
  <2>3. PICK p \in Nat : p = Cardinality(Pending(task[r]))
    BY RunContext, PendingFits
  <2>4. PICK k \in Nat : k = Len(task[r])
    BY RunContext, SeqShape
  <2>5. PICK limit \in Nat : limit = RunLimit
    BY LegacyAssumption
  <2>6. n + c * p < limit + c * k
    BY <2>1, <2>2, <2>3, <2>4, <2>5, RunContext DEF Spending
  <2>7. c * p \in Nat /\ c * k \in Nat
    OBVIOUS
  <2>8. n < limit + c * k
    BY <2>6, <2>7
  <2> QED
    BY <2>1, <2>2, <2>4, <2>5, <2>8
<1> QED
  BY <1>1, LegacyStarts, LegacyStep, LegacyPart, PTL DEF LegacySpec

-----------------------------------------------------------------------------
(***************************************************************************)
(* Trace audit.  Findings are merged into a list one by one, the list is   *)
(* sorted, and this is done per record and again over all records.  What   *)
(* is kept is a relation between a list and the set of findings it stands  *)
(* for: one entry for each key, as severe as the most severe of them and   *)
(* with the evidence of all.                                               *)
(***************************************************************************)
IsList(s) == \E S : s \in Seq(S)

LEMMA ListIs ==
  ASSUME NEW s, IsList(s)
  PROVE  /\ Len(s) \in Nat /\ DOMAIN s = 1 .. Len(s)
         /\ s = [i \in 1 .. Len(s) |-> s[i]]
<1>1. PICK S : s \in Seq(S)
  BY DEF IsList
<1>2. Len(s) \in Nat /\ DOMAIN s = 1 .. Len(s) /\ s \in [1 .. Len(s) -> S]
  BY <1>1, SeqShape
<1> QED
  BY <1>2

LEMMA ListMade ==
  ASSUME NEW n \in Nat, NEW s, s = [i \in 1 .. n |-> s[i]]
  PROVE  IsList(s) /\ Len(s) = n /\ DOMAIN s = 1 .. n
<1>1. PICK S : S = {s[i] : i \in 1 .. n}
  BY Zenon
<1>2. \A i \in 1 .. n : s[i] \in S
  BY <1>1
<1>3. s \in [1 .. n -> S]
  BY <1>2
<1>4. s \in Seq(S)
  BY <1>3
<1>5. DOMAIN s = 1 .. n
  BY <1>3
<1>6. Len(s) \in Nat /\ DOMAIN s = 1 .. Len(s)
  BY <1>4, SeqShape
<1>7. Len(s) = n
  BY <1>3, <1>4, <1>6
<1> QED
  BY <1>4, <1>5, <1>7, Zenon DEF IsList

LEMMA ListEmpty == IsList(<<>>) /\ DOMAIN <<>> = {} /\ Len(<<>>) = 0 /\ ToSet(<<>>) = {}
<1>1. <<>> \in Seq({}) /\ Len(<<>>) = 0 /\ DOMAIN <<>> = {}
  OBVIOUS
<1>2. ToSet(<<>>) = {}
  BY <1>1 DEF ToSet
<1> QED
  BY <1>1, <1>2 DEF IsList

LEMMA ListOne ==
  ASSUME NEW x
  PROVE  IsList(<<x>>) /\ DOMAIN <<x>> = {1} /\ <<x>>[1] = x /\ ToSet(<<x>>) = {x}
<1>1. <<x>> \in Seq({x}) /\ DOMAIN <<x>> = {1} /\ <<x>>[1] = x
  OBVIOUS
<1>2. ToSet(<<x>>) = {x}
  BY <1>1 DEF ToSet
<1> QED
  BY <1>1, <1>2, Zenon DEF IsList

LEMMA ListJoin ==
  ASSUME NEW a, NEW b, IsList(a), IsList(b)
  PROVE  IsList(a \o b) /\ ToSet(a \o b) = ToSet(a) \union ToSet(b)
<1>1. PICK S, T : a \in Seq(S) /\ b \in Seq(T)
  BY DEF IsList
<1>2. a \in Seq(S \union T) /\ b \in Seq(S \union T)
  BY <1>1
<1>3. PICK c : c = a \o b
  BY Zenon
<1>4. PICK m \in Nat, n \in Nat : m = Len(a) /\ n = Len(b)
  BY <1>1
<1>5. /\ c \in Seq(S \union T) /\ Len(c) = m + n
      /\ \A i \in 1 .. m + n : c[i] = IF i <= m THEN a[i] ELSE b[i - m]
  BY <1>2, <1>3, <1>4, SeqJoin
<1>6. DOMAIN a = 1 .. m /\ DOMAIN b = 1 .. n /\ DOMAIN c = 1 .. m + n
  BY <1>1, <1>4, <1>5, SeqShape
<1>7. ASSUME NEW x \in ToSet(c) PROVE x \in ToSet(a) \union ToSet(b)
  <2>1. PICK i \in 1 .. m + n : x = c[i]
    BY <1>6 DEF ToSet
  <2>2. CASE i <= m
    <3>1. i \in 1 .. m /\ x = a[i]
      BY <2>1, <2>2, <1>5
    <3> QED
      BY <3>1, <1>6 DEF ToSet
  <2>3. CASE ~ (i <= m)
    <3>1. i - m \in 1 .. n /\ x = b[i - m]
      BY <2>1, <2>3, <1>5
    <3> QED
      BY <3>1, <1>6 DEF ToSet
  <2> QED
    BY <2>2, <2>3
<1>8. ASSUME NEW x \in ToSet(a) PROVE x \in ToSet(c)
  <2>1. PICK i \in 1 .. m : x = a[i]
    BY <1>6 DEF ToSet
  <2>2. i \in 1 .. m + n /\ c[i] = a[i]
    BY <1>5
  <2> QED
    BY <2>1, <2>2, <1>6 DEF ToSet
<1>9. ASSUME NEW x \in ToSet(b) PROVE x \in ToSet(c)
  <2>1. PICK i \in 1 .. n : x = b[i]
    BY <1>6 DEF ToSet
  <2>2. PICK k \in Int : k = i + m
    OBVIOUS
  <2>3. k \in 1 .. m + n /\ ~ (k <= m) /\ k - m = i
    BY <2>2
  <2>4. c[k] = b[i]
    BY <2>3, <1>5
  <2> QED
    BY <2>1, <2>3, <2>4, <1>6 DEF ToSet
<1> QED
  BY <1>3, <1>5, <1>7, <1>8, <1>9 DEF IsList

\* A list and one more entry.
OneMore(c, a, x, k) ==
  /\ IsList(c) /\ k \in DOMAIN c /\ c[k] = x
  /\ \A i \in DOMAIN a : i \in DOMAIN c /\ c[i] = a[i] /\ i # k
  /\ \A i \in DOMAIN c : i \in DOMAIN a \/ i = k

LEMMA ListMore ==
  ASSUME NEW a, IsList(a), NEW x
  PROVE  OneMore(Append(a, x), a, x, Len(a) + 1)
<1>0. PICK c : c = Append(a, x)
  BY Zenon
<1>1. PICK S : a \in Seq(S)
  BY DEF IsList
<1>2. a \in Seq(S \union {x}) /\ x \in S \union {x}
  BY <1>1
<1>3. PICK m \in Nat : m = Len(a) /\ DOMAIN a = 1 .. m
  BY <1>1, SeqShape
<1>4. /\ c \in Seq(S \union {x}) /\ Len(c) = m + 1
      /\ \A i \in 1 .. m : c[i] = a[i]
      /\ c[m + 1] = x
  BY <1>0, <1>2, <1>3, SeqAppend
<1>5. DOMAIN c = 1 .. m + 1
  BY <1>4, SeqShape
<1>6. OneMore(c, a, x, m + 1)
  BY <1>3, <1>4, <1>5 DEF IsList, OneMore
<1> QED
  BY <1>0, <1>3, <1>6, Zenon

\* The members of a list are its entries.
LEMMA InToSet ==
  ASSUME NEW s, NEW x
  PROVE  x \in ToSet(s) <=> \E i \in DOMAIN s : x = s[i]
BY DEF ToSet

-----------------------------------------------------------------------------
\* One list after the other.
FlattensTo(seqs, n, g) ==
  g = [i \in 1 .. n |-> IF i = 1 THEN seqs[i] ELSE g[i - 1] \o seqs[i]]

Lists(seqs) == IsList(seqs) /\ \A i \in DOMAIN seqs : IsList(seqs[i])

LEMMA FlattenExists ==
  ASSUME NEW seqs, NEW n \in Nat
  PROVE  \E g : FlattensTo(seqs, n, g)
<1> DEFINE S == {k \in Nat : \E g : FlattensTo(seqs, k, g)}
<1>1. 0 \in S
  <2>1. PICK g : g = [i \in 1 .. 0 |-> 0]
    OBVIOUS
  <2>2. FlattensTo(seqs, 0, g)
    BY <2>1 DEF FlattensTo
  <2> QED
    BY <2>2
<1>2. ASSUME NEW k \in S PROVE k + 1 \in S
  <2>0. k \in Nat /\ k + 1 \in Nat
    OBVIOUS
  <2>1. PICK g : FlattensTo(seqs, k, g)
    OBVIOUS
  <2>2. PICK x : x = IF k + 1 = 1 THEN seqs[k + 1] ELSE g[k] \o seqs[k + 1]
    BY Zenon
  <2>3. PICK h : h = [i \in 1 .. k + 1 |-> IF i = k + 1 THEN x ELSE g[i]]
    BY Zenon
  <2>4. \A i \in 1 .. k : h[i] = g[i]
    BY <2>0, <2>3
  <2>5. ASSUME NEW i \in 1 .. k + 1
        PROVE  h[i] = IF i = 1 THEN seqs[i] ELSE h[i - 1] \o seqs[i]
    <3>1. CASE i = k + 1
      <4>1. h[i] = x
        BY <2>3, <3>1
      <4>2. CASE k = 0
        BY <2>0, <2>2, <3>1, <4>1, <4>2
      <4>3. CASE k # 0
        <5>1. i # 1 /\ i - 1 = k /\ k + 1 # 1 /\ k \in 1 .. k
          BY <2>0, <3>1, <4>3
        <5>2. h[k] = g[k]
          BY <2>4, <5>1
        <5> QED
          BY <2>2, <3>1, <4>1, <5>1, <5>2, Zenon
      <4> QED
        BY <4>2, <4>3
    <3>2. CASE i # k + 1
      <4>1. i \in 1 .. k /\ (i # 1 => i - 1 \in 1 .. k)
        BY <2>0, <3>2
      <4>2. g[i] = IF i = 1 THEN seqs[i] ELSE g[i - 1] \o seqs[i]
        BY <2>1, <4>1, Zenon DEF FlattensTo
      <4> QED
        BY <2>4, <4>1, <4>2
    <3> QED
      BY <3>1, <3>2
  <2>6. h = [i \in 1 .. k + 1 |-> h[i]]
    BY <2>3
  <2>7. FlattensTo(seqs, k + 1, h)
    BY <2>5, <2>6, Zenon DEF FlattensTo
  <2> QED
    BY <2>0, <2>7
<1>3. S = Nat
  <2>1. S \in SUBSET Nat
    OBVIOUS
  <2> HIDE DEF S
  <2> QED
    BY <1>1, <1>2, <2>1, SetInduction
<1> QED
  BY <1>3

LEMMA FlattenIs ==
  ASSUME NEW seqs, Lists(seqs)
  PROVE  /\ IsList(FlattenSeq(seqs))
         /\ ToSet(FlattenSeq(seqs)) = UNION {ToSet(seqs[i]) : i \in DOMAIN seqs}
<1>1. PICK n \in Nat : n = Len(seqs) /\ DOMAIN seqs = 1 .. n
  BY ListIs DEF Lists
<1>2. \A i \in 1 .. n : IsList(seqs[i])
  BY <1>1 DEF Lists
<1>3. PICK f : f = FlattenSeq(seqs)
  OBVIOUS
<1>4. CASE n = 0
  <2>1. f = seqs
    BY <1>1, <1>3, <1>4 DEF FlattenSeq
  <2>2. DOMAIN seqs = {}
    BY <1>1, <1>4
  <2>3. ToSet(seqs) = {} /\ UNION {ToSet(seqs[i]) : i \in DOMAIN seqs} = {}
    BY <2>2 DEF ToSet
  <2> QED
    BY <1>3, <2>1, <2>3 DEF Lists
<1>5. CASE n # 0
  <2>1. PICK g : g = CHOOSE h : FlattensTo(seqs, n, h)
    OBVIOUS
  <2>2. FlattensTo(seqs, n, g)
    BY <2>1, FlattenExists
  <2>3. f = g[n]
    <3>1. Len(seqs) # 0
      BY <1>1, <1>5
    <3>2. f = (CHOOSE h : FlattensTo(seqs, Len(seqs), h))[Len(seqs)]
      BY <1>3, <3>1 DEF FlattenSeq, FlattensTo
    <3> QED
      BY <1>1, <2>1, <3>2
  <2> DEFINE Upto(k) == UNION {ToSet(seqs[i]) : i \in 1 .. k}
             S == {k \in Nat : k + 1 <= n => IsList(g[k + 1]) /\ ToSet(g[k + 1]) = Upto(k + 1)}
  <2>4. 0 \in S
    <3>1. g[1] = seqs[1]
      BY <2>2, <1>5 DEF FlattensTo
    <3>2. 1 .. 1 = {1}
      OBVIOUS
    <3>3. Upto(1) = ToSet(seqs[1])
      BY <3>2
    <3>4. IsList(seqs[1])
      BY <1>2, <1>5
    <3>5. 0 + 1 = 1
      OBVIOUS
    <3> HIDE DEF Upto
    <3> QED
      BY <3>1, <3>3, <3>4, <3>5
  <2>5. ASSUME NEW k \in S PROVE k + 1 \in S
    <3>0. k \in Nat /\ k + 1 \in Nat
      OBVIOUS
    <3> SUFFICES ASSUME (k + 1) + 1 <= n
                 PROVE  IsList(g[(k + 1) + 1]) /\ ToSet(g[(k + 1) + 1]) = Upto((k + 1) + 1)
      BY <3>0
    <3>1. IsList(g[k + 1]) /\ ToSet(g[k + 1]) = Upto(k + 1)
      BY <3>0
    <3>2. PICK m \in Nat : m = (k + 1) + 1
      BY <3>0
    <3>3. m \in 1 .. n /\ m # 1 /\ m - 1 = k + 1
      BY <3>0, <3>2
    <3>4. g[m] = g[k + 1] \o seqs[m]
      BY <2>2, <3>3, Zenon DEF FlattensTo
    <3>5. IsList(g[m]) /\ ToSet(g[m]) = Upto(k + 1) \union ToSet(seqs[m])
      BY <3>1, <3>3, <3>4, <1>2, ListJoin
    <3>6. 1 .. m = (1 .. k + 1) \union {m}
      BY <3>0, <3>2
    <3>7. Upto(m) = Upto(k + 1) \union ToSet(seqs[m])
      BY <3>6
    <3> HIDE DEF Upto
    <3> QED
      BY <3>2, <3>5, <3>7
  <2>6. S = Nat
    <3>1. S \in SUBSET Nat
      OBVIOUS
    <3> HIDE DEF S
    <3> QED
      BY <2>4, <2>5, <3>1, SetInduction
  <2>7. n - 1 \in S /\ (n - 1) + 1 = n /\ n <= n
    <3> HIDE DEF S
    <3> QED
      BY <2>6, <1>5
  <2>8. IsList(g[n]) /\ ToSet(g[n]) = Upto(n)
    <3> HIDE DEF Upto
    <3> QED
      BY <2>7
  <2> QED
    BY <1>1, <1>3, <2>3, <2>8
<1> QED
  BY <1>4, <1>5

\* A list of lists, each from one entry of another list.
LEMMA MappedIsList ==
  ASSUME NEW n \in Nat, NEW seqs, seqs = [i \in 1 .. n |-> seqs[i]], \A i \in 1 .. n : IsList(seqs[i])
  PROVE  Lists(seqs) /\ DOMAIN seqs = 1 .. n
BY ListMade DEF Lists

-----------------------------------------------------------------------------
\* A finding as it is raised or merged.
IsFinding(f) ==
  /\ f = [run |-> f.run, task |-> f.task, scaffold |-> f.scaffold, type |-> f.type,
          severity |-> f.severity, evidence |-> f.evidence, score |-> f.score, key |-> f.key]
  /\ f.severity \in DOMAIN SeverityRank /\ f.type \in ToSet(FindingTypes) /\ IsList(f.evidence)
  /\ f.run \in DOMAIN Position /\ f.scaffold \in DOMAIN Position \union {NoAudit}

\* The entry of a list that stands for the findings of its key among G.
Stands(f, G) ==
  /\ IsFinding(f)
  /\ \E g \in G : g.key = f.key /\ g.severity = f.severity
  /\ \A g \in G : g.key = f.key =>
        /\ SeverityRank[g.severity] <= SeverityRank[f.severity]
        /\ ToSet(g.evidence) \subseteq ToSet(f.evidence)
  /\ \A c \in ToSet(f.evidence) : \E g \in G : g.key = f.key /\ c \in ToSet(g.evidence)

Represents(list, G) ==
  /\ IsList(list)
  /\ \A i \in DOMAIN list : Stands(list[i], G)
  /\ \A i, j \in DOMAIN list : list[i].key = list[j].key => i = j
  /\ \A g \in G : \E i \in DOMAIN list : list[i].key = g.key

LEMMA SeverityRanks == \A s \in DOMAIN SeverityRank : SeverityRank[s] \in Int
BY DEF SeverityRank

LEMMA JoinedEvidence ==
  ASSUME NEW a, NEW b, IsList(a), IsList(b)
  PROVE  IsList(JoinUnique(a, b)) /\ ToSet(JoinUnique(a, b)) = ToSet(a) \union ToSet(b)
<1>1. CASE a = b
  BY <1>1 DEF JoinUnique
<1>2. CASE a # b
  <2>1. JoinUnique(a, b) = a \o b
    BY <1>2 DEF JoinUnique
  <2> QED
    BY <2>1, ListJoin
<1> QED
  BY <1>1, <1>2

\* A finding whose evidence and score are replaced.
Restates(q, p, e) == IsFinding(q) /\ q.evidence = e /\ q.key = p.key /\ q.severity = p.severity

LEMMA Restated ==
  ASSUME NEW p, IsFinding(p), NEW e, IsList(e), NEW x
  PROVE  Restates([p EXCEPT !.evidence = e, !.score = x], p, e)
<1>0. PICK q : q = [p EXCEPT !.evidence = e, !.score = x]
  OBVIOUS
<1>1. p = [run |-> p.run, task |-> p.task, scaffold |-> p.scaffold, type |-> p.type,
           severity |-> p.severity, evidence |-> p.evidence, score |-> p.score, key |-> p.key]
  BY DEF IsFinding
<1>2. q = [run |-> p.run, task |-> p.task, scaffold |-> p.scaffold, type |-> p.type,
           severity |-> p.severity, evidence |-> e, score |-> x, key |-> p.key]
  BY <1>0, <1>1, Zenon
<1>3. /\ q.run = p.run /\ q.task = p.task /\ q.scaffold = p.scaffold /\ q.type = p.type
      /\ q.severity = p.severity /\ q.evidence = e /\ q.score = x /\ q.key = p.key
  BY <1>2
<1>4. q = [run |-> q.run, task |-> q.task, scaffold |-> q.scaffold, type |-> q.type,
           severity |-> q.severity, evidence |-> q.evidence, score |-> q.score, key |-> q.key]
  BY <1>2, <1>3
<1>5. Restates(q, p, e)
  BY <1>3, <1>4, Zenon DEF IsFinding, Restates
<1> QED
  BY <1>0, <1>5, Zenon

LEMMA MergedIs ==
  ASSUME NEW e, IsFinding(e), NEW f, IsFinding(f), e.key = f.key, NEW q, q = MergedWith(e, f)
  PROVE  /\ IsFinding(q) /\ q.key = f.key /\ q.severity \in {e.severity, f.severity}
         /\ SeverityRank[e.severity] <= SeverityRank[q.severity]
         /\ SeverityRank[f.severity] <= SeverityRank[q.severity]
         /\ ToSet(q.evidence) = ToSet(e.evidence) \union ToSet(f.evidence)
<1>1. PICK a \in Int, b \in Int : a = SeverityRank[e.severity] /\ b = SeverityRank[f.severity]
  BY SeverityRanks DEF IsFinding
<1>2. PICK p : p = IF b > a THEN f ELSE e
  OBVIOUS
<1>3. IsFinding(p) /\ p.key = f.key
  BY <1>2
<1>4. PICK v, x : v = JoinUnique(e.evidence, f.evidence) /\ x = IF p.score # NoAudit THEN p.score ELSE e.score
  OBVIOUS
<1>5. IsList(v) /\ ToSet(v) = ToSet(e.evidence) \union ToSet(f.evidence)
  BY <1>4, JoinedEvidence DEF IsFinding
<1>6. q = [p EXCEPT !.evidence = v, !.score = x]
  BY <1>1, <1>2, <1>4 DEF MergedWith
<1>7. IsFinding(q) /\ q.evidence = v /\ q.key = p.key /\ q.severity = p.severity
  <2>1. Restates([p EXCEPT !.evidence = v, !.score = x], p, v)
    BY <1>3, <1>5, Restated, Zenon
  <2> QED
    BY <2>1, <1>6, Zenon DEF Restates
<1>8. a <= SeverityRank[p.severity] /\ b <= SeverityRank[p.severity] /\ p.severity \in {e.severity, f.severity}
  <2>1. CASE b > a
    BY <2>1, <1>1, <1>2
  <2>2. CASE ~ (b > a)
    BY <2>2, <1>1, <1>2
  <2> QED
    BY <2>1, <2>2
<1> QED
  BY <1>1, <1>3, <1>5, <1>7, <1>8

LEMMA StandsForMore ==
  ASSUME NEW G, NEW e, Stands(e, G), NEW f, IsFinding(f), e.key = f.key, \A g \in G : IsFinding(g)
  PROVE  Stands(MergedWith(e, f), G \union {f}) /\ MergedWith(e, f).key = f.key
<1>1. PICK q : q = MergedWith(e, f)
  OBVIOUS
<1>2. /\ IsFinding(q) /\ q.key = f.key /\ q.severity \in {e.severity, f.severity}
      /\ SeverityRank[e.severity] <= SeverityRank[q.severity]
      /\ SeverityRank[f.severity] <= SeverityRank[q.severity]
      /\ ToSet(q.evidence) = ToSet(e.evidence) \union ToSet(f.evidence)
  BY <1>1, MergedIs DEF Stands
<1>3. \E g \in G \union {f} : g.key = q.key /\ g.severity = q.severity
  <2>1. PICK g \in G : g.key = e.key /\ g.severity = e.severity
    BY DEF Stands
  <2> QED
    BY <2>1, <1>2
<1>4. ASSUME NEW g \in G \union {f}, g.key = q.key
      PROVE  /\ SeverityRank[g.severity] <= SeverityRank[q.severity]
             /\ ToSet(g.evidence) \subseteq ToSet(q.evidence)
  <2>1. CASE g = f
    BY <2>1, <1>2
  <2>2. CASE g # f
    <3>1. g \in G /\ g.key = e.key
      BY <2>2, <1>2, <1>4
    <3>2. SeverityRank[g.severity] <= SeverityRank[e.severity] /\ ToSet(g.evidence) \subseteq ToSet(e.evidence)
      BY <3>1 DEF Stands
    <3>3. PICK a \in Int, b \in Int, c \in Int :
             a = SeverityRank[g.severity] /\ b = SeverityRank[e.severity] /\ c = SeverityRank[q.severity]
      BY <3>1, <1>2, SeverityRanks DEF IsFinding, Stands
    <3>4. a <= c
      BY <3>2, <3>3, <1>2
    <3> QED
      BY <3>2, <3>3, <3>4, <1>2
  <2> QED
    BY <2>1, <2>2
<1>5. ASSUME NEW c \in ToSet(q.evidence)
      PROVE  \E g \in G \union {f} : g.key = q.key /\ c \in ToSet(g.evidence)
  <2>1. CASE c \in ToSet(f.evidence)
    BY <2>1, <1>2
  <2>2. CASE c \in ToSet(e.evidence)
    <3>1. PICK g \in G : g.key = e.key /\ c \in ToSet(g.evidence)
      BY <2>2 DEF Stands
    <3> QED
      BY <3>1, <1>2
  <2> QED
    BY <2>1, <2>2, <1>2
<1>6. Stands(q, G \union {f})
  BY <1>2, <1>3, <1>4, <1>5, Zenon DEF Stands
<1> QED
  BY <1>1, <1>2, <1>6

LEMMA StandsAside ==
  ASSUME NEW G, NEW e, Stands(e, G), NEW f, e.key # f.key
  PROVE  Stands(e, G \union {f})
BY Zenon DEF Stands

LEMMA StandsAlone ==
  ASSUME NEW G, NEW f, IsFinding(f), \A g \in G : g.key # f.key
  PROVE  Stands(f, G \union {f})
<1>1. SeverityRank[f.severity] <= SeverityRank[f.severity]
  <2>1. PICK a \in Int : a = SeverityRank[f.severity]
    BY SeverityRanks DEF IsFinding
  <2> QED
    BY <2>1
<1> QED
  BY <1>1, Zenon DEF Stands

LEMMA MergeStep ==
  ASSUME NEW G, NEW m, Represents(m, G), NEW f, IsFinding(f), \A g \in G : IsFinding(g)
  PROVE  Represents(MergeInto(m, f), G \union {f})
<1>1. PICK same : same = {i \in DOMAIN m : m[i].key = f.key}
  BY Zenon
<1>2. IsList(m) /\ \A i \in DOMAIN m : Stands(m[i], G)
  BY DEF Represents
<1>3. CASE same = {}
  <2>1. PICK c : c = Append(m, f)
    BY Zenon
  <2>2. MergeInto(m, f) = c
    BY <1>1, <1>3, <2>1 DEF MergeInto
  <2>3. PICK k : k = Len(m) + 1
    OBVIOUS
  <2>4. /\ IsList(c) /\ k \in DOMAIN c /\ c[k] = f
        /\ \A i \in DOMAIN m : i \in DOMAIN c /\ c[i] = m[i] /\ i # k
        /\ \A i \in DOMAIN c : i \in DOMAIN m \/ i = k
    <3>1. OneMore(Append(m, f), m, f, Len(m) + 1)
      BY <1>2, ListMore
    <3> QED
      BY <3>1, <2>1, <2>3, Zenon DEF OneMore
  <2>5. \A i \in DOMAIN m : m[i].key # f.key
    BY <1>1, <1>3
  <2>6. \A g \in G : g.key # f.key
    BY <2>5 DEF Represents
  <2>7. \A i \in DOMAIN c : Stands(c[i], G \union {f})
    BY <1>2, <2>4, <2>5, <2>6, StandsAside, StandsAlone
  <2>8. \A i, j \in DOMAIN c : c[i].key = c[j].key => i = j
    BY <2>4, <2>5 DEF Represents
  <2>9. \A g \in G \union {f} : \E i \in DOMAIN c : c[i].key = g.key
    <3>1. \A g \in G : \E i \in DOMAIN m : m[i].key = g.key
      BY DEF Represents
    <3>2. \A g \in G : \E i \in DOMAIN c : c[i].key = g.key
      BY <3>1, <2>4
    <3> QED
      BY <3>2, <2>4
  <2> QED
    BY <2>2, <2>4, <2>7, <2>8, <2>9, Zenon DEF Represents
<1>4. CASE same # {}
  <2>1. PICK c : c = [i \in DOMAIN m |-> IF i \in same THEN MergedWith(m[i], f) ELSE m[i]]
    BY Zenon
  <2>2. MergeInto(m, f) = c
    BY <1>1, <1>4, <2>1 DEF MergeInto
  <2>3. DOMAIN c = DOMAIN m /\ IsList(c)
    <3>1. PICK n \in Nat : n = Len(m) /\ DOMAIN m = 1 .. n
      BY <1>2, ListIs
    <3>2. c = [i \in 1 .. n |-> c[i]]
      BY <2>1, <3>1
    <3> QED
      BY <3>1, <3>2, ListMade
  <2>4. ASSUME NEW i \in DOMAIN m PROVE Stands(c[i], G \union {f}) /\ c[i].key = m[i].key
    <3>1. CASE m[i].key = f.key
      <4>1. c[i] = MergedWith(m[i], f)
        BY <1>1, <2>1, <3>1
      <4> QED
        BY <1>2, <3>1, <4>1, StandsForMore
    <3>2. CASE m[i].key # f.key
      <4>1. c[i] = m[i]
        BY <1>1, <2>1, <3>2
      <4> QED
        BY <1>2, <3>2, <4>1, StandsAside
    <3> QED
      BY <3>1, <3>2
  <2>5. \A i, j \in DOMAIN c : c[i].key = c[j].key => i = j
    BY <2>3, <2>4 DEF Represents
  <2>6. \A g \in G \union {f} : \E i \in DOMAIN c : c[i].key = g.key
    <3>1. PICK k \in DOMAIN m : m[k].key = f.key
      BY <1>1, <1>4
    <3>2. \A g \in G : \E i \in DOMAIN c : c[i].key = g.key
      BY <2>3, <2>4, Zenon DEF Represents
    <3> QED
      BY <2>3, <2>4, <3>1, <3>2
  <2> QED
    BY <2>2, <2>3, <2>4, <2>5, <2>6, Zenon DEF Represents
<1> QED
  BY <1>3, <1>4

-----------------------------------------------------------------------------
\* _merge_duplicate_findings as a whole.
MergesTo(findings, n, g) ==
  g = [k \in 0 .. n |-> IF k = 0 THEN <<>> ELSE MergeInto(g[k - 1], findings[k])]

LEMMA MergingExists ==
  ASSUME NEW findings, NEW n \in Nat
  PROVE  \E g : MergesTo(findings, n, g)
<1> DEFINE S == {k \in Nat : \E g : MergesTo(findings, k, g)}
<1>1. 0 \in S
  <2>1. PICK g : g = [i \in 0 .. 0 |-> <<>>]
    BY Zenon
  <2>2. \A i \in 0 .. 0 : i = 0
    OBVIOUS
  <2>3. MergesTo(findings, 0, g)
    BY <2>1, <2>2 DEF MergesTo
  <2> QED
    BY <2>3
<1>2. ASSUME NEW k \in S PROVE k + 1 \in S
  <2>0. k \in Nat /\ k + 1 \in Nat
    OBVIOUS
  <2>1. PICK g : MergesTo(findings, k, g)
    OBVIOUS
  <2>2. PICK x : x = MergeInto(g[k], findings[k + 1])
    OBVIOUS
  <2>3. PICK h : h = [i \in 0 .. k + 1 |-> IF i = k + 1 THEN x ELSE g[i]]
    BY Zenon
  <2>4. \A i \in 0 .. k : h[i] = g[i]
    BY <2>0, <2>3
  <2>5. ASSUME NEW i \in 0 .. k + 1
        PROVE  h[i] = IF i = 0 THEN <<>> ELSE MergeInto(h[i - 1], findings[i])
    <3>1. CASE i = k + 1
      <4>1. h[i] = x /\ i # 0 /\ i - 1 = k /\ h[k] = g[k]
        BY <2>0, <2>3, <2>4, <3>1
      <4> QED
        BY <2>2, <3>1, <4>1
    <3>2. CASE i # k + 1
      <4>1. i \in 0 .. k /\ (i # 0 => i - 1 \in 0 .. k)
        BY <2>0, <3>2
      <4>2. g[i] = IF i = 0 THEN <<>> ELSE MergeInto(g[i - 1], findings[i])
        BY <2>1, <4>1 DEF MergesTo
      <4> QED
        BY <2>4, <4>1, <4>2
    <3> QED
      BY <3>1, <3>2
  <2>6. h = [i \in 0 .. k + 1 |-> h[i]]
    BY <2>3
  <2>7. MergesTo(findings, k + 1, h)
    BY <2>5, <2>6, Zenon DEF MergesTo
  <2> QED
    BY <2>0, <2>7
<1>3. S = Nat
  <2>1. S \in SUBSET Nat
    OBVIOUS
  <2> HIDE DEF S
  <2> QED
    BY <1>1, <1>2, <2>1, SetInduction
<1> QED
  BY <1>3

LEMMA MergeRepresents ==
  ASSUME NEW findings, IsList(findings), \A i \in DOMAIN findings : IsFinding(findings[i])
  PROVE  Represents(MergeDuplicateFindings(findings), ToSet(findings))
<1>1. PICK n \in Nat : n = Len(findings) /\ DOMAIN findings = 1 .. n
  BY ListIs
<1>2. PICK g : g = CHOOSE h : MergesTo(findings, n, h)
  OBVIOUS
<1>3. MergesTo(findings, n, g)
  BY <1>2, MergingExists
<1>4. MergeDuplicateFindings(findings) = g[n]
  <2>1. MergeDuplicateFindings(findings) = (CHOOSE h : MergesTo(findings, Len(findings), h))[Len(findings)]
    BY DEF MergeDuplicateFindings, MergesTo
  <2> QED
    BY <1>1, <1>2, <2>1
<1> DEFINE Upto(k) == {findings[i] : i \in 1 .. k}
           S == {k \in Nat : k <= n => Represents(g[k], Upto(k))}
<1>5. 0 \in S
  <2>1. g[0] = <<>>
    BY <1>3 DEF MergesTo
  <2>2. 1 .. 0 = {}
    OBVIOUS
  <2>3. Upto(0) = {}
    BY <2>2
  <2>4. Represents(<<>>, {})
    BY ListEmpty DEF Represents
  <2> HIDE DEF Upto
  <2> QED
    BY <2>1, <2>3, <2>4, Zenon
<1>6. ASSUME NEW k \in S PROVE k + 1 \in S
  <2>0. k \in Nat /\ k + 1 \in Nat
    OBVIOUS
  <2> SUFFICES ASSUME k + 1 <= n PROVE Represents(g[k + 1], Upto(k + 1))
    BY <2>0
  <2>1. Represents(g[k], Upto(k))
    BY <2>0
  <2>2. k + 1 \in 0 .. n /\ k + 1 # 0 /\ (k + 1) - 1 = k /\ k + 1 \in 1 .. n
    BY <2>0
  <2>3. g[k + 1] = MergeInto(g[k], findings[k + 1])
    BY <2>2, <1>3 DEF MergesTo
  <2>4. 1 .. k + 1 = (1 .. k) \union {k + 1}
    BY <2>0
  <2>5. Upto(k + 1) = Upto(k) \union {findings[k + 1]}
    BY <2>4
  <2>6. \A f \in Upto(k) : IsFinding(f)
    <3>1. \A i \in 1 .. k : i \in DOMAIN findings
      BY <2>0, <1>1
    <3> QED
      BY <3>1
  <2>7. IsFinding(findings[k + 1])
    BY <2>2, <1>1
  <2> HIDE DEF Upto
  <2>8. Represents(MergeInto(g[k], findings[k + 1]), Upto(k) \union {findings[k + 1]})
    BY <2>1, <2>6, <2>7, MergeStep, Zenon
  <2> QED
    BY <2>3, <2>5, <2>8, Zenon
<1>7. S = Nat
  <2>1. S \in SUBSET Nat
    OBVIOUS
  <2> HIDE DEF S
  <2> QED
    BY <1>5, <1>6, <2>1, SetInduction
<1>8. n \in S /\ n <= n
  <2> HIDE DEF S
  <2> QED
    BY <1>7
<1>9. Represents(g[n], Upto(n))
  <2> HIDE DEF Upto
  <2> QED
    BY <1>8
<1>10. Upto(n) = ToSet(findings)
  BY <1>1 DEF ToSet
<1> HIDE DEF Upto
<1> QED
  BY <1>4, <1>9, <1>10, Zenon

-----------------------------------------------------------------------------
\* sorted(): by rank in a linear order.
Linear(L, D) ==
  /\ L \in SUBSET (D \X D)
  /\ \A i, j \in D : <<i, j>> \in L \/ <<j, i>> \in L
  /\ \A i, j \in D : <<i, j>> \in L /\ <<j, i>> \in L => i = j
  /\ \A i, j, k \in D : <<i, j>> \in L /\ <<j, k>> \in L => <<i, k>> \in L

UpTo(L, D, i) == {j \in D : <<j, i>> \in L}

\* An order of places: every place is taken once, by the entry of that rank.
Arranges(p, D, n, L) ==
  /\ p \in [D -> 1 .. n]
  /\ \A i, j \in D : p[i] = p[j] => i = j
  /\ \A k \in 1 .. n : \E i \in D : p[i] = k
  /\ \A i, j \in D : p[i] < p[j] => <<i, j>> \in L

LEMMA IntervalIs ==
  ASSUME NEW n \in Nat
  PROVE  IsFiniteSet(1 .. n) /\ Cardinality(1 .. n) = n
<1>1. PICK u \in Int, v \in Int : u = 1 /\ v = n
  OBVIOUS
<1>2. IsFiniteSet(u .. v) /\ Cardinality(u .. v) = IF u > v THEN 0 ELSE v - u + 1
  BY FS_Interval
<1>3. (IF u > v THEN 0 ELSE v - u + 1) = n
  BY <1>1
<1> QED
  BY <1>1, <1>2, <1>3, Zenon

LEMMA RanksArrange ==
  ASSUME NEW D, IsFiniteSet(D), NEW n \in Nat, n = Cardinality(D), NEW L, Linear(L, D)
  PROVE  Arranges([i \in D |-> Cardinality(UpTo(L, D, i))], D, n, L)
<1>1. PICK p : p = [i \in D |-> Cardinality(UpTo(L, D, i))]
  BY Zenon
<1>3. IsFiniteSet(1 .. n) /\ Cardinality(1 .. n) = n
  BY IntervalIs
<1>4. ASSUME NEW i \in D
      PROVE  /\ UpTo(L, D, i) \in SUBSET D /\ IsFiniteSet(UpTo(L, D, i)) /\ i \in UpTo(L, D, i)
             /\ p[i] = Cardinality(UpTo(L, D, i)) /\ p[i] \in 1 .. n
  <2>1. UpTo(L, D, i) \in SUBSET D /\ i \in UpTo(L, D, i)
    BY DEF UpTo, Linear
  <2>2. IsFiniteSet(UpTo(L, D, i)) /\ Cardinality(UpTo(L, D, i)) <= Cardinality(D)
    BY <2>1, FS_Subset, Zenon
  <2>3. PICK c : c = Cardinality(UpTo(L, D, i))
    OBVIOUS
  <2>4. c \in Nat /\ (c = 0 <=> UpTo(L, D, i) = {})
    BY <2>2, <2>3, FS_CardinalityType, FS_EmptySet
  <2>5. c <= n
    BY <2>2, <2>3
  <2>6. p[i] = c
    BY <1>1, <2>3
  <2> QED
    BY <2>1, <2>2, <2>3, <2>4, <2>5, <2>6
<1>5. ASSUME NEW i \in D, NEW j \in D, <<i, j>> \in L, i # j
      PROVE  p[i] < p[j]
  <2>1. UpTo(L, D, i) \in SUBSET UpTo(L, D, j)
    BY <1>5 DEF UpTo, Linear
  <2>2. j \in UpTo(L, D, j) /\ j \notin UpTo(L, D, i)
    BY <1>5 DEF UpTo, Linear
  <2>3. UpTo(L, D, i) # UpTo(L, D, j)
    BY <2>2
  <2>4. p[i] <= p[j] /\ p[i] # p[j]
    BY <2>1, <2>3, <1>4, FS_Subset
  <2> QED
    BY <2>4, <1>4
<1>6. p \in [D -> 1 .. n]
  BY <1>1, <1>4
<1>7. ASSUME NEW i \in D, NEW j \in D, p[i] = p[j] PROVE i = j
  <2> SUFFICES ASSUME i # j PROVE FALSE
    OBVIOUS
  <2>1. p[i] < p[j] \/ p[j] < p[i]
    BY <1>5, Zenon DEF Linear
  <2> QED
    BY <2>1, <1>4, <1>7
<1>8. \A k \in 1 .. n : \E i \in D : p[i] = k
  <2>1. p \in Injection(D, 1 .. n)
    BY <1>6, <1>7 DEF Injection, IsInjective
  <2>2. p \in Surjection(D, 1 .. n)
    BY <2>1, <1>3, FS_Injection
  <2> QED
    BY <2>2 DEF Surjection
<1>9. ASSUME NEW i \in D, NEW j \in D, p[i] < p[j] PROVE <<i, j>> \in L
  <2> SUFFICES ASSUME <<i, j>> \notin L PROVE FALSE
    OBVIOUS
  <2>1. <<j, i>> \in L
    BY DEF Linear
  <2>2. i # j
    BY <1>9, <1>4
  <2>3. p[j] < p[i]
    BY <2>1, <2>2, <1>5
  <2> QED
    BY <2>3, <1>4, <1>9
<1> QED
  BY <1>1, <1>6, <1>7, <1>8, <1>9, Zenon DEF Arranges

-----------------------------------------------------------------------------
\* The keys findings are sorted by.
IntKey(a) == a[1] \in Int /\ a[2] \in Int /\ a[3] \in Int /\ a[4] \in Int

LEMMA BeforeIs ==
  ASSUME NEW a, NEW b
  PROVE  Before(a, b) <=> \/ a[1] < b[1]
                          \/ a[1] = b[1] /\ a[2] < b[2]
                          \/ a[1] = b[1] /\ a[2] = b[2] /\ a[3] < b[3]
                          \/ a[1] = b[1] /\ a[2] = b[2] /\ a[3] = b[3] /\ a[4] < b[4]
<1>1. 1 .. 4 = {1, 2, 3, 4}
  OBVIOUS
<1>2. 1 .. (1 - 1) = {} /\ 1 .. (2 - 1) = {1} /\ 1 .. (3 - 1) = {1, 2} /\ 1 .. (4 - 1) = {1, 2, 3}
  OBVIOUS
<1> DEFINE At(n) == a[n] < b[n] /\ \A m \in 1 .. (n - 1) : a[m] = b[m]
<1>3. Before(a, b) <=> At(1) \/ At(2) \/ At(3) \/ At(4)
  <2>1. Before(a, b) <=> \E n \in {1, 2, 3, 4} : At(n)
    BY <1>1, Zenon DEF Before
  <2> HIDE DEF At
  <2> QED
    BY <2>1
<1> QED
  BY <1>2, <1>3

Lexical(x1, x2, x3, x4, y1, y2, y3, y4) ==
  \/ x1 < y1
  \/ x1 = y1 /\ x2 < y2
  \/ x1 = y1 /\ x2 = y2 /\ x3 < y3
  \/ x1 = y1 /\ x2 = y2 /\ x3 = y3 /\ x4 < y4

LEMMA BeforeOrders ==
  ASSUME NEW a, NEW b, NEW c, IntKey(a), IntKey(b), IntKey(c)
  PROVE  /\ Before(a, b) => ~Before(b, a)
         /\ Before(a, b) /\ Before(b, c) => Before(a, c)
         /\ Before(a, b) => Before(a, c) \/ Before(c, b)
<1>1. PICK a1 \in Int, a2 \in Int, a3 \in Int, a4 \in Int : a1 = a[1] /\ a2 = a[2] /\ a3 = a[3] /\ a4 = a[4]
  BY Zenon DEF IntKey
<1>2. PICK b1 \in Int, b2 \in Int, b3 \in Int, b4 \in Int : b1 = b[1] /\ b2 = b[2] /\ b3 = b[3] /\ b4 = b[4]
  BY Zenon DEF IntKey
<1>3. PICK c1 \in Int, c2 \in Int, c3 \in Int, c4 \in Int : c1 = c[1] /\ c2 = c[2] /\ c3 = c[3] /\ c4 = c[4]
  BY DEF IntKey
<1>0. \A x, y : Before(x, y) <=> Lexical(x[1], x[2], x[3], x[4], y[1], y[2], y[3], y[4])
  BY BeforeIs DEF Lexical
<1>4. Before(a, b) <=> Lexical(a1, a2, a3, a4, b1, b2, b3, b4)
  BY <1>0, <1>1, <1>2
<1>5. Before(b, a) <=> Lexical(b1, b2, b3, b4, a1, a2, a3, a4)
  BY <1>0, <1>1, <1>2
<1>6. Before(b, c) <=> Lexical(b1, b2, b3, b4, c1, c2, c3, c4)
  BY <1>0, <1>2, <1>3
<1>7. Before(a, c) <=> Lexical(a1, a2, a3, a4, c1, c2, c3, c4)
  BY <1>0, <1>1, <1>3
<1>8. Before(c, b) <=> Lexical(c1, c2, c3, c4, b1, b2, b3, b4)
  BY <1>0, <1>2, <1>3
<1>9. Lexical(a1, a2, a3, a4, b1, b2, b3, b4) => ~Lexical(b1, b2, b3, b4, a1, a2, a3, a4)
  BY DEF Lexical
<1>10. Lexical(a1, a2, a3, a4, b1, b2, b3, b4) /\ Lexical(b1, b2, b3, b4, c1, c2, c3, c4)
         => Lexical(a1, a2, a3, a4, c1, c2, c3, c4)
  BY SMTT(40) DEF Lexical
<1>11. Lexical(a1, a2, a3, a4, b1, b2, b3, b4)
         => Lexical(a1, a2, a3, a4, c1, c2, c3, c4) \/ Lexical(c1, c2, c3, c4, b1, b2, b3, b4)
  BY SMTT(40) DEF Lexical
<1> QED
  BY <1>4, <1>5, <1>6, <1>7, <1>8, <1>9, <1>10, <1>11

LEMMA InOrderIsLinear ==
  ASSUME NEW n \in Nat, NEW keys, \A i \in 1 .. n : IntKey(keys[i])
  PROVE  Linear({q \in (1 .. n) \X (1 .. n) : InOrder(keys, q[1], q[2])}, 1 .. n)
<1>1. PICK L : L = {q \in (1 .. n) \X (1 .. n) : InOrder(keys, q[1], q[2])}
  BY Zenon
<1>2. \A i, j \in 1 .. n : <<i, j>> \in L <=> InOrder(keys, i, j)
  BY <1>1
<1>3. L \in SUBSET ((1 .. n) \X (1 .. n))
  BY <1>1
<1>4. ASSUME NEW i \in 1 .. n, NEW j \in 1 .. n
      PROVE  InOrder(keys, i, j) \/ InOrder(keys, j, i)
  <2>1. i <= j \/ j <= i
    OBVIOUS
  <2> QED
    BY <2>1 DEF InOrder
<1>5. ASSUME NEW i \in 1 .. n, NEW j \in 1 .. n, InOrder(keys, i, j), InOrder(keys, j, i)
      PROVE  i = j
  <2>1. Before(keys[i], keys[j]) => ~Before(keys[j], keys[i])
    BY BeforeOrders
  <2>2. i <= j /\ j <= i
    BY <2>1, <1>5 DEF InOrder
  <2> QED
    BY <2>2
<1>6. ASSUME NEW i \in 1 .. n, NEW j \in 1 .. n, NEW k \in 1 .. n, InOrder(keys, i, j), InOrder(keys, j, k)
      PROVE  InOrder(keys, i, k)
  <2>0. PICK a, b, c : a = keys[i] /\ b = keys[j] /\ c = keys[k]
    OBVIOUS
  <2>1. IntKey(a) /\ IntKey(b) /\ IntKey(c)
    BY <2>0
  <2>2. /\ Before(a, b) /\ Before(b, c) => Before(a, c)
        /\ Before(a, b) => Before(a, c) \/ Before(c, b)
        /\ Before(b, c) => Before(b, a) \/ Before(a, c)
        /\ Before(c, a) => Before(c, b) \/ Before(b, a)
    BY <2>1, BeforeOrders
  <2>3. i <= j /\ j <= k => i <= k
    OBVIOUS
  <2>4. Before(a, b) \/ (i <= j /\ ~Before(b, a))
    BY <1>6, <2>0 DEF InOrder
  <2>5. Before(b, c) \/ (j <= k /\ ~Before(c, b))
    BY <1>6, <2>0 DEF InOrder
  <2>6. Before(a, c) \/ (i <= k /\ ~Before(c, a))
    BY <2>2, <2>3, <2>4, <2>5
  <2> QED
    BY <2>0, <2>6 DEF InOrder
<1>7. Linear(L, 1 .. n)
  BY <1>2, <1>3, <1>4, <1>5, <1>6 DEF Linear
<1> QED
  BY <1>1, <1>7, Zenon

LEMMA SortKeyIs ==
  ASSUME NEW f, IsFinding(f)
  PROVE  IntKey(SortKey(f)) /\ SortKey(f)[1] = -SeverityRank[f.severity]
<1>1. PICK a : a = -SeverityRank[f.severity]
  OBVIOUS
<1>2. PICK b : b = Position[f.run]
  OBVIOUS
<1>3. PICK c : c = IF f.scaffold = NoAudit THEN 0 ELSE Position[f.scaffold]
  OBVIOUS
<1>4. PICK d : d = CHOOSE n \in DOMAIN FindingTypes : FindingTypes[n] = f.type
  OBVIOUS
<1>5. a \in Int
  <2>1. PICK r \in Int : r = SeverityRank[f.severity]
    BY SeverityRanks DEF IsFinding
  <2> QED
    BY <2>1, <1>1
<1>6. b \in Int /\ c \in Int
  <2>1. \A x \in DOMAIN Position : Position[x] \in Nat
    BY AuditAssumption
  <2>2. f.run \in DOMAIN Position /\ f.scaffold \in DOMAIN Position \union {NoAudit}
    BY DEF IsFinding
  <2> QED
    BY <2>1, <2>2, <1>2, <1>3
<1>7. d \in Int
  <2>1. \E n \in DOMAIN FindingTypes : FindingTypes[n] = f.type
    BY InToSet DEF IsFinding
  <2>2. d \in DOMAIN FindingTypes
    BY <2>1, <1>4
  <2>3. DOMAIN FindingTypes \subseteq Int
    BY DEF FindingTypes
  <2> QED
    BY <2>2, <2>3
<1>8. SortKey(f) = <<a, b, c, d>>
  BY <1>1, <1>2, <1>3, <1>4, Zenon DEF SortKey
<1>9. <<a, b, c, d>>[1] = a /\ IntKey(<<a, b, c, d>>)
  BY <1>5, <1>6, <1>7 DEF IntKey
<1> QED
  BY <1>1, <1>8, <1>9, Zenon

-----------------------------------------------------------------------------
Descends(list) ==
  \A i, j \in DOMAIN list : i < j => SeverityRank[list[i].severity] >= SeverityRank[list[j].severity]

\* sorted() on a merged list.
RankIn(m, i) == Cardinality({j \in DOMAIN m : InOrder([l \in DOMAIN m |-> SortKey(m[l])], j, i)})

At(m, k) == CHOOSE i \in DOMAIN m : RankIn(m, i) = k

Sorted(m) == [k \in DOMAIN m |-> m[At(m, k)]]

LEMMA SortRepresents ==
  ASSUME NEW findings, IsList(findings), \A i \in DOMAIN findings : IsFinding(findings[i])
  PROVE  Represents(SortFindings(findings), ToSet(findings)) /\ Descends(SortFindings(findings))
<1>1. PICK m : m = MergeDuplicateFindings(findings)
  OBVIOUS
<1>2. PICK G : G = ToSet(findings)
  OBVIOUS
<1>3. Represents(m, G)
  BY <1>1, <1>2, MergeRepresents
<1>4. PICK n \in Nat : n = Len(m) /\ DOMAIN m = 1 .. n
  BY <1>3, ListIs DEF Represents
<1>5. PICK keys : keys = [i \in 1 .. n |-> SortKey(m[i])]
  BY Zenon
<1>6. \A i \in 1 .. n : IsFinding(m[i])
  BY <1>3, <1>4 DEF Represents, Stands
<1>7. \A i \in 1 .. n : IntKey(keys[i]) /\ keys[i][1] = -SeverityRank[m[i].severity]
  BY <1>5, <1>6, SortKeyIs
<1>8. PICK L : L = {q \in (1 .. n) \X (1 .. n) : InOrder(keys, q[1], q[2])}
  BY Zenon
<1>9. Linear(L, 1 .. n)
  BY <1>7, <1>8, InOrderIsLinear, Zenon
<1>10. PICK p : p = [i \in 1 .. n |-> Cardinality(UpTo(L, 1 .. n, i))]
  BY Zenon
<1>11. Arranges(p, 1 .. n, n, L)
  BY <1>9, <1>10, IntervalIs, RanksArrange
<1>12. ASSUME NEW i \in 1 .. n PROVE RankIn(m, i) = p[i]
  <2>1. [k \in DOMAIN m |-> SortKey(m[k])] = keys
    BY <1>4, <1>5
  <2>2. {j \in 1 .. n : InOrder(keys, j, i)} = UpTo(L, 1 .. n, i)
    BY <1>8 DEF UpTo
  <2>3. p[i] = Cardinality(UpTo(L, 1 .. n, i))
    BY <1>10
  <2>4. RankIn(m, i) = Cardinality({j \in DOMAIN m : InOrder(keys, j, i)})
    BY <2>1, Zenon DEF RankIn
  <2> QED
    BY <2>2, <2>3, <2>4, <1>4, Zenon
<1>13. PICK inv : inv = [k \in 1 .. n |-> At(m, k)]
  BY Zenon
<1>14. ASSUME NEW k \in 1 .. n PROVE inv[k] \in 1 .. n /\ p[inv[k]] = k
  <2>1. PICK i \in 1 .. n : p[i] = k
    BY <1>11 DEF Arranges
  <2>2. i \in DOMAIN m /\ RankIn(m, i) = k
    BY <2>1, <1>4, <1>12
  <2>3. At(m, k) \in DOMAIN m /\ RankIn(m, At(m, k)) = k
    BY <2>2 DEF At
  <2> QED
    BY <2>3, <1>4, <1>12, <1>13
<1>15. PICK s : s = SortFindings(findings)
  OBVIOUS
<1>16. s = Sorted(m)
  <2>1. SortFindings(findings) = Sorted(MergeDuplicateFindings(findings))
    BY DEF SortFindings, Sorted, At, RankIn
  <2> QED
    BY <2>1, <1>1, <1>15
<1>17. IsList(s) /\ DOMAIN s = 1 .. n
  <2>1. s = [k \in 1 .. n |-> s[k]]
    BY <1>4, <1>16 DEF Sorted
  <2> QED
    BY <2>1, ListMade
<1>18. \A k \in 1 .. n : s[k] = m[inv[k]]
  BY <1>4, <1>13, <1>16 DEF Sorted
<1>19. \A k \in DOMAIN s : Stands(s[k], G)
  BY <1>3, <1>4, <1>14, <1>17, <1>18 DEF Represents
<1>20. ASSUME NEW k \in DOMAIN s, NEW l \in DOMAIN s, s[k].key = s[l].key PROVE k = l
  <2>1. inv[k] = inv[l]
    BY <1>3, <1>4, <1>14, <1>17, <1>18, <1>20 DEF Represents
  <2> QED
    BY <2>1, <1>14, <1>17
<1>21. ASSUME NEW g \in G PROVE \E k \in DOMAIN s : s[k].key = g.key
  <2>1. PICK i \in 1 .. n : m[i].key = g.key
    BY <1>3, <1>4 DEF Represents
  <2>2. PICK k \in 1 .. n : k = p[i]
    BY <1>11, Zenon DEF Arranges
  <2>3. inv[k] = i
    BY <2>2, <1>11, <1>14, Zenon DEF Arranges
  <2> QED
    BY <2>1, <2>3, <1>17, <1>18
<1>22. Represents(s, G)
  BY <1>17, <1>19, <1>20, <1>21, Zenon DEF Represents
<1>23. ASSUME NEW k \in DOMAIN s, NEW l \in DOMAIN s, k < l
       PROVE  SeverityRank[s[k].severity] >= SeverityRank[s[l].severity]
  <2>1. PICK i \in 1 .. n, j \in 1 .. n : i = inv[k] /\ j = inv[l]
    BY <1>14, <1>17
  <2>2. p[i] < p[j]
    BY <2>1, <1>14, <1>17, <1>23
  <2>3. InOrder(keys, i, j)
    <3>1. <<i, j>> \in L
      BY <2>2, <1>11 DEF Arranges
    <3> QED
      BY <3>1, <1>8
  <2>4. PICK x \in Int, y \in Int : x = SeverityRank[m[i].severity] /\ y = SeverityRank[m[j].severity]
    BY <1>6, SeverityRanks, Zenon DEF IsFinding
  <2>5. keys[i][1] = -x /\ keys[j][1] = -y
    BY <2>4, <1>7
  <2>6. ~Before(keys[j], keys[i])
    <3>1. Before(keys[i], keys[j]) => ~Before(keys[j], keys[i])
      BY <1>7, BeforeOrders
    <3> QED
      BY <3>1, <2>3 DEF InOrder
  <2>7. ~ (-y < -x)
    BY <2>5, <2>6, BeforeIs
  <2>8. x >= y
    BY <2>7
  <2>9. s[k] = m[i] /\ s[l] = m[j]
    BY <2>1, <1>17, <1>18
  <2> QED
    BY <2>4, <2>8, <2>9
<1> QED
  BY <1>2, <1>15, <1>22, <1>23, Zenon DEF Descends

-----------------------------------------------------------------------------
\* What a record raises is a list of findings.
LEMMA KnownTypes ==
  {"data_minimization_gap", "extraction_wrong_values", "invalid_result_shape", "low_total_score",
   "missing_evaluation", "missing_metrics", "missing_output", "missing_token_usage", "missing_total_score",
   "missing_winner", "no_scaffold_results", "patch_rerun_candidate", "privacy_boundary_violation",
   "regression_from_previous_best", "research_missing_citations", "research_missing_required_findings",
   "research_word_count_noncompliance", "risk_false_positives_high", "risk_level_mismatch",
   "risk_missed_must_flag", "scaffold_overreach", "scaffold_provider_error", "schema_missing_required_fields",
   "schema_validity_low", "strategy_missing_sections", "strategy_required_terms_missing",
   "tool_recovery_gap", "tool_selection_gap", "unsupported_claims", "weak_evidence_trail",
   "winner_missing_result", "winner_not_highest_score", "zero_cost_with_token_usage"} \subseteq ToSet(FindingTypes)
<1>1. PICK s : s = FindingTypes
  OBVIOUS
<1>2. DOMAIN s = 1 .. 33
  BY <1>1 DEF FindingTypes
<1>3. \A n \in 1 .. 33 : s[n] \in ToSet(s)
  BY <1>2 DEF ToSet
<1>4a. /\ s[1] = "data_minimization_gap"
      /\ s[2] = "extraction_wrong_values"
      /\ s[3] = "invalid_result_shape"
      /\ s[4] = "low_total_score"
      /\ s[5] = "missing_evaluation"
      /\ s[6] = "missing_metrics"
      /\ s[7] = "missing_output"
      /\ s[8] = "missing_token_usage"
      /\ s[9] = "missing_total_score"
      /\ s[10] = "missing_winner"
      /\ s[11] = "no_scaffold_results"
  BY <1>1 DEF FindingTypes
<1>4b. /\ s[12] = "patch_rerun_candidate"
      /\ s[13] = "privacy_boundary_violation"
      /\ s[14] = "regression_from_previous_best"
      /\ s[15] = "research_missing_citations"
      /\ s[16] = "research_missing_required_findings"
      /\ s[17] = "research_word_count_noncompliance"
      /\ s[18] = "risk_false_positives_high"
      /\ s[19] = "risk_level_mismatch"
      /\ s[20] = "risk_missed_must_flag"
      /\ s[21] = "scaffold_overreach"
      /\ s[22] = "scaffold_provider_error"
  BY <1>1 DEF FindingTypes
<1>4c. /\ s[23] = "schema_missing_required_fields"
      /\ s[24] = "schema_validity_low"
      /\ s[25] = "strategy_missing_sections"
      /\ s[26] = "strategy_required_terms_missing"
      /\ s[27] = "tool_recovery_gap"
      /\ s[28] = "tool_selection_gap"
      /\ s[29] = "unsupported_claims"
      /\ s[30] = "weak_evidence_trail"
      /\ s[31] = "winner_missing_result"
      /\ s[32] = "winner_not_highest_score"
      /\ s[33] = "zero_cost_with_token_usage"
  BY <1>1 DEF FindingTypes
<1> QED
  BY <1>1, <1>3, <1>4a, <1>4b, <1>4c

LEMMA Severities == {"critical", "high", "medium"} \subseteq DOMAIN SeverityRank
BY DEF SeverityRank

Raisable(x) == x.type \in ToSet(FindingTypes) /\ x.severity \in DOMAIN SeverityRank

Raised(s) == IsList(s) /\ \A x \in ToSet(s) : Raisable(x)

LEMMA RaiseIs ==
  ASSUME NEW t \in ToSet(FindingTypes), NEW s \in DOMAIN SeverityRank, NEW c, NEW x
  PROVE  Raisable(Raise(t, s, c, x)) /\ Raisable(Flag(t, s))
<1>1. \A d, y : Raise(t, s, d, y).type = t /\ Raise(t, s, d, y).severity = s
  BY DEF Raise
<1> QED
  BY <1>1 DEF Raisable, Flag

LEMMA RaisedOne ==
  ASSUME NEW x, Raisable(x)
  PROVE  Raised(<<x>>)
BY ListOne DEF Raised

LEMMA RaisedNone == Raised(<<>>)
BY ListEmpty DEF Raised

LEMMA RaisedWhen ==
  ASSUME NEW c, NEW x, Raisable(x)
  PROVE  Raised(When(c, x))
<1>1. When(c, x) = <<x>> \/ When(c, x) = <<>>
  BY DEF When
<1> QED
  BY <1>1, RaisedOne, RaisedNone

LEMMA RaisedJoin ==
  ASSUME NEW a, NEW b, Raised(a), Raised(b)
  PROVE  Raised(a \o b)
<1>1. IsList(a \o b) /\ ToSet(a \o b) = ToSet(a) \union ToSet(b)
  BY ListJoin DEF Raised
<1> QED
  BY <1>1 DEF Raised

LEMMA MetricsRaise ==
  ASSUME NEW metrics
  PROVE  Raised(AuditMetrics(metrics))
<1>1. PICK a, b, c : a = Flag("missing_metrics", "medium") /\ b = Flag("zero_cost_with_token_usage", "high")
                     /\ c = Flag("missing_token_usage", "high")
  OBVIOUS
<1>2. Raisable(a) /\ Raisable(b) /\ Raisable(c)
  BY <1>1, RaiseIs, KnownTypes, Severities
<1>3. PICK u, v : /\ u = When(metrics.tokens > 0 /\ (metrics.cost = NoAudit \/ metrics.cost <= 0), b)
                  /\ v = When(metrics.calls > 0 /\ metrics.tokens <= 0, c)
  OBVIOUS
<1>4. Raised(u) /\ Raised(v)
  BY <1>2, <1>3, RaisedWhen
<1>5. Raised(u \o v) /\ Raised(<<a>>)
  BY <1>2, <1>4, RaisedJoin, RaisedOne
<1>6. AuditMetrics(metrics) = <<a>> \/ AuditMetrics(metrics) = u \o v
  BY <1>1, <1>3, Zenon DEF AuditMetrics
<1> QED
  BY <1>5, <1>6, Zenon

LEMMA MetricFindingsKnown ==
  /\ DOMAIN TaskMetricFindings = 1 .. 16
  /\ \A i \in 1 .. 16 : TaskMetricFindings[i][2] \in ToSet(FindingTypes)
<1>1. PICK s : s = TaskMetricFindings
  OBVIOUS
<1>2. DOMAIN s = 1 .. 16
  BY <1>1 DEF TaskMetricFindings
<1>3. /\ s[1][2] = "schema_validity_low" /\ s[2][2] = "extraction_wrong_values"
      /\ s[3][2] = "risk_missed_must_flag" /\ s[4][2] = "risk_level_mismatch"
      /\ s[5][2] = "risk_false_positives_high" /\ s[6][2] = "research_missing_citations"
      /\ s[7][2] = "research_missing_required_findings" /\ s[8][2] = "research_word_count_noncompliance"
  BY <1>1 DEF TaskMetricFindings
<1>4. /\ s[9][2] = "tool_selection_gap" /\ s[10][2] = "scaffold_overreach" /\ s[11][2] = "tool_recovery_gap"
      /\ s[12][2] = "privacy_boundary_violation" /\ s[13][2] = "data_minimization_gap"
      /\ s[14][2] = "strategy_missing_sections" /\ s[15][2] = "strategy_required_terms_missing"
      /\ s[16][2] = "unsupported_claims"
  BY <1>1 DEF TaskMetricFindings
<1>5. ASSUME NEW i \in 1 .. 16 PROVE s[i][2] \in ToSet(FindingTypes)
  <2>1. \/ i = 1 \/ i = 2 \/ i = 3 \/ i = 4 \/ i = 5 \/ i = 6 \/ i = 7 \/ i = 8
        \/ i = 9 \/ i = 10 \/ i = 11 \/ i = 12 \/ i = 13 \/ i = 14 \/ i = 15 \/ i = 16
    OBVIOUS
  <2> QED
    BY <2>1, <1>3, <1>4, KnownTypes
<1> QED
  BY <1>1, <1>2, <1>5

LEMMA BreakdownRaises ==
  ASSUME NEW breakdown
  PROVE  Raised(AuditMetricBreakdown(breakdown))
<1> DEFINE Entry(i) == LET m     == TaskMetricFindings[i][1]
                           value == breakdown[m]
                       IN  When(m \in DOMAIN breakdown /\ value < 700,
                                Raise(TaskMetricFindings[i][2], MetricFailureSeverity(m, value), <<m, value>>, value))
<1>1. PICK seqs : seqs = [i \in DOMAIN TaskMetricFindings |-> Entry(i)]
  BY Zenon
<1>2. AuditMetricBreakdown(breakdown) = FlattenSeq(seqs)
  BY <1>1 DEF AuditMetricBreakdown
<1>3. ASSUME NEW i \in 1 .. 16 PROVE Raised(Entry(i))
  <2>1. PICK m, t : m = TaskMetricFindings[i][1] /\ t = TaskMetricFindings[i][2]
    OBVIOUS
  <2>2. PICK value : value = breakdown[m]
    OBVIOUS
  <2>3. MetricFailureSeverity(m, value) \in DOMAIN SeverityRank
    BY Severities DEF MetricFailureSeverity
  <2>4. t \in ToSet(FindingTypes)
    BY <2>1, MetricFindingsKnown
  <2>5. Raisable(Raise(t, MetricFailureSeverity(m, value), <<m, value>>, value))
    BY <2>3, <2>4, RaiseIs
  <2>6. Entry(i) = When(m \in DOMAIN breakdown /\ value < 700, Raise(t, MetricFailureSeverity(m, value), <<m, value>>, value))
    BY <2>1, <2>2, Zenon
  <2> HIDE DEF Entry
  <2> QED
    BY <2>5, <2>6, RaisedWhen
<1> HIDE DEF Entry
<1>4. PICK n \in Nat : n = 16
  OBVIOUS
<1>5. seqs = [i \in 1 .. n |-> seqs[i]] /\ \A i \in 1 .. n : seqs[i] = Entry(i)
  BY <1>1, <1>4, MetricFindingsKnown
<1>6. \A i \in 1 .. n : Raised(seqs[i]) /\ IsList(seqs[i])
  BY <1>3, <1>4, <1>5 DEF Raised
<1>7. Lists(seqs) /\ DOMAIN seqs = 1 .. n
  BY <1>5, <1>6, MappedIsList
<1>8. IsList(FlattenSeq(seqs)) /\ ToSet(FlattenSeq(seqs)) = UNION {ToSet(seqs[i]) : i \in DOMAIN seqs}
  BY <1>7, FlattenIs
<1>9. \A x \in ToSet(FlattenSeq(seqs)) : Raisable(x)
  BY <1>6, <1>7, <1>8 DEF Raised
<1> QED
  BY <1>2, <1>8, <1>9 DEF Raised

LEMMA NotesRaise ==
  ASSUME NEW notes
  PROVE  Raised(AuditNotes(notes))
<1> DEFINE Note(t, s) == Raise(t, s, <<"notes", notes>>, NoAudit)
           Mentions(phrases) == phrases \intersect notes # {}
<1>1. PICK a, b, c, d, e :
        /\ a = When("missing required" \in notes, Note("schema_missing_required_fields", "high"))
        /\ b = When("citation" \in notes /\ Mentions({"missing", "no "}), Note("research_missing_citations", "high"))
        /\ c = When(Mentions({"unsupported", "unsubstantiated", "not grounded"}), Note("unsupported_claims", "high"))
        /\ d = When("forbidden data" \in notes \/ {"privacy", "violation"} \subseteq notes,
                    Note("privacy_boundary_violation", "critical"))
        /\ e = When(Mentions({"unavailable tool", "forbidden tool", "invented tool", "overreach"}),
                    Note("scaffold_overreach", "high"))
  BY Zenon
<1>2. AuditNotes(notes) = a \o b \o c \o d \o e
  BY <1>1, Zenon DEF AuditNotes
<1>3. \A t \in ToSet(FindingTypes), s \in DOMAIN SeverityRank : Raisable(Note(t, s))
  BY RaiseIs
<1> HIDE DEF Note, Mentions
<1>4. /\ Raisable(Note("schema_missing_required_fields", "high"))
      /\ Raisable(Note("research_missing_citations", "high"))
      /\ Raisable(Note("unsupported_claims", "high"))
      /\ Raisable(Note("privacy_boundary_violation", "critical"))
      /\ Raisable(Note("scaffold_overreach", "high"))
  BY <1>3, KnownTypes, Severities
<1>5. Raised(a) /\ Raised(b) /\ Raised(c) /\ Raised(d) /\ Raised(e)
  BY <1>1, <1>4, RaisedWhen, Zenon
<1> QED
  BY <1>2, <1>5, RaisedJoin

LEMMA ScoreRaises ==
  ASSUME NEW evaluation, NEW won
  PROVE  Raised(AuditScore(evaluation, won))
<1>1. PICK score, best : score = evaluation.score /\ best = evaluation.previousBest
  OBVIOUS
<1>2. PICK a, b, c, d :
        /\ a = Flag("missing_total_score", "medium")
        /\ b = Raise("low_total_score", ScoreSeverity(score), <<"score", score>>, score)
        /\ c = Raise("patch_rerun_candidate", "medium", <<"score", score>>, score)
        /\ d = Raise("regression_from_previous_best", "high", <<"best", score, best>>, score)
  OBVIOUS
<1>3. ScoreSeverity(score) \in DOMAIN SeverityRank
  BY Severities DEF ScoreSeverity
<1>4. Raisable(a) /\ Raisable(b) /\ Raisable(c) /\ Raisable(d)
  BY <1>2, <1>3, RaiseIs, KnownTypes, Severities
<1>5. PICK u, v, w :
        /\ u = When(score < 700, b)
        /\ v = When(score < 700 /\ ~won, c)
        /\ w = When(best # NoAudit /\ best - score > 1, d)
  OBVIOUS
<1>6. Raised(u) /\ Raised(v) /\ Raised(w) /\ Raised(<<a>>)
  <2>1. Raised(u)
    BY <1>4, <1>5, RaisedWhen
  <2>2. Raised(v)
    BY <1>4, <1>5, RaisedWhen
  <2>3. Raised(w)
    BY <1>4, <1>5, RaisedWhen
  <2> QED
    BY <1>4, <2>1, <2>2, <2>3, RaisedOne
<1>7. Raised(u \o v \o w)
  BY <1>6, RaisedJoin
<1>8. AuditScore(evaluation, won) = <<a>> \/ AuditScore(evaluation, won) = u \o v \o w
  <2>1. CASE score = NoAudit
    BY <1>1, <1>2, <2>1 DEF AuditScore
  <2>2. CASE score # NoAudit
    <3>1. AuditScore(evaluation, won) = When(score < 700, b) \o When(score < 700 /\ ~won, c)
                                         \o When(best # NoAudit /\ best - score > 1, d)
      BY <1>1, <1>2, <2>2 DEF AuditScore
    <3> QED
      BY <1>5, <3>1, ZenonT(40)
  <2> QED
    BY <2>1, <2>2
<1> QED
  BY <1>6, <1>7, <1>8, Zenon

LEMMA ResultRaises ==
  ASSUME NEW result, NEW won
  PROVE  Raised(AuditScaffoldResult(result, won))
<1>1. PICK a, b, c, d, e :
        /\ a = Flag("invalid_result_shape", "critical")
        /\ b = Flag("scaffold_provider_error", "high")
        /\ c = Flag("missing_output", "high")
        /\ d = Flag("missing_evaluation", "high")
        /\ e = Flag("weak_evidence_trail", "medium")
  OBVIOUS
<1>2. Raisable(a) /\ Raisable(b) /\ Raisable(c) /\ Raisable(d) /\ Raisable(e)
  BY <1>1, RaiseIs, KnownTypes, Severities
<1>3. PICK p, q, r, s, t, u :
        /\ p = When(result.error, b)
        /\ q = When(~result.output /\ ~result.error, c)
        /\ r = When(result.output /\ result.evaluation = NoAudit, d)
        /\ s = AuditMetrics(result.metrics)
        /\ t = AuditEvidenceTrail(result)
        /\ u = IF result.evaluation = NoAudit THEN <<>> ELSE AuditEvaluation(result.evaluation, won)
  OBVIOUS
<1>4. Raised(p) /\ Raised(q) /\ Raised(r)
  BY <1>2, <1>3, RaisedWhen, Zenon
<1>5. Raised(s)
  BY <1>3, MetricsRaise
<1>6. Raised(t)
  <2>1. AuditEvidenceTrail(result) = When(~result.evidence, e)
    BY <1>1, Zenon DEF AuditEvidenceTrail
  <2> QED
    BY <2>1, <1>2, <1>3, RaisedWhen
<1>7. Raised(AuditEvaluation(result.evaluation, won))
  BY ScoreRaises, BreakdownRaises, NotesRaise, RaisedJoin DEF AuditEvaluation
<1>8. Raised(u)
  BY <1>3, <1>7, RaisedNone
<1>9. Raised(p \o q \o r \o s \o t \o u)
  BY <1>4, <1>5, <1>6, <1>8, RaisedJoin
<1>10. Raised(<<a>>)
  BY <1>2, RaisedOne
<1>11. AuditScaffoldResult(result, won) = <<a>> \/ AuditScaffoldResult(result, won) = p \o q \o r \o s \o t \o u
  BY <1>1, <1>3, Zenon DEF AuditScaffoldResult
<1> QED
  BY <1>9, <1>10, <1>11, Zenon

-----------------------------------------------------------------------------
FindingList(s) == IsList(s) /\ \A f \in ToSet(s) : IsFinding(f)

LEMMA LocatedIs ==
  ASSUME NEW rec, rec.run \in DOMAIN Position, NEW scaffold \in DOMAIN Position \union {NoAudit},
         NEW raised, Raised(raised)
  PROVE  FindingList(Located(rec, scaffold, raised))
<1>1. PICK n \in Nat : n = Len(raised) /\ DOMAIN raised = 1 .. n
  BY ListIs DEF Raised
<1> DEFINE Entry(i) ==
        [run |-> rec.run, task |-> rec.task, scaffold |-> scaffold, type |-> raised[i].type,
         severity |-> raised[i].severity, evidence |-> <<raised[i].cause>>, score |-> raised[i].score,
         key |-> <<rec.run, scaffold, raised[i].type, RegressionTask(rec.task)>>]
<1>2. PICK s : s = Located(rec, scaffold, raised)
  OBVIOUS
<1>3. s = [i \in 1 .. n |-> Entry(i)]
  BY <1>1, <1>2 DEF Located
<1>4. ASSUME NEW i \in 1 .. n PROVE IsFinding(Entry(i))
  <2>1. PICK f : f = Entry(i)
    BY Zenon
  <2>2. /\ f.run = rec.run /\ f.task = rec.task /\ f.scaffold = scaffold /\ f.type = raised[i].type
        /\ f.severity = raised[i].severity /\ f.evidence = <<raised[i].cause>> /\ f.score = raised[i].score
        /\ f.key = <<rec.run, scaffold, raised[i].type, RegressionTask(rec.task)>>
    BY <2>1
  <2>3. f = [run |-> f.run, task |-> f.task, scaffold |-> f.scaffold, type |-> f.type,
             severity |-> f.severity, evidence |-> f.evidence, score |-> f.score, key |-> f.key]
    BY <2>1, <2>2, Zenon
  <2>4. Raisable(raised[i])
    BY <1>1, InToSet DEF Raised
  <2>5. IsList(<<raised[i].cause>>)
    BY ListOne
  <2> HIDE DEF Entry
  <2> QED
    BY <2>1, <2>2, <2>3, <2>4, <2>5 DEF IsFinding, Raisable
<1> HIDE DEF Entry
<1>5. s = [i \in 1 .. n |-> s[i]] /\ \A i \in 1 .. n : s[i] = Entry(i)
  BY <1>3
<1>6. IsList(s) /\ DOMAIN s = 1 .. n
  BY <1>5, ListMade
<1>7. \A f \in ToSet(s) : IsFinding(f)
  BY <1>4, <1>5, <1>6, InToSet
<1> QED
  BY <1>2, <1>6, <1>7 DEF FindingList

LEMMA WinnerFindings ==
  ASSUME NEW rec, RunRecord(rec)
  PROVE  FindingList(AuditWinner(rec))
<1>0. rec.run \in DOMAIN Position /\ rec.winner \in DOMAIN Position \union {NoAudit}
  BY DEF RunRecord
<1>1. FindingList(<<>>)
  BY ListEmpty DEF FindingList
<1>2. Raised(<<Flag("missing_winner", "high")>>) /\ Raised(<<Flag("winner_missing_result", "high")>>)
  BY KnownTypes, Severities, RaiseIs, RaisedOne
<1>3. \A c, cause, own : Raised(When(c, Raise("winner_not_highest_score", "high", cause, own)))
  BY KnownTypes, Severities, RaiseIs, RaisedWhen
<1>4. FindingList(Located(rec, NoAudit, <<Flag("missing_winner", "high")>>))
  BY <1>0, <1>2, LocatedIs
<1>5. FindingList(Located(rec, rec.winner, <<Flag("winner_missing_result", "high")>>))
  BY <1>0, <1>2, LocatedIs
<1>6. \A c, cause, own :
        FindingList(Located(rec, rec.winner, When(c, Raise("winner_not_highest_score", "high", cause, own))))
  BY <1>0, <1>3, LocatedIs
<1> QED
  BY <1>1, <1>4, <1>5, <1>6, Zenon DEF AuditWinner

\* Lists of findings, one after the other.
LEMMA FlattenFindings ==
  ASSUME NEW seqs, IsList(seqs), \A s \in ToSet(seqs) : FindingList(s)
  PROVE  /\ FindingList(FlattenSeq(seqs))
         /\ ToSet(FlattenSeq(seqs)) = UNION {ToSet(seqs[i]) : i \in DOMAIN seqs}
<1>1. \A i \in DOMAIN seqs : FindingList(seqs[i])
  BY InToSet
<1>2. Lists(seqs)
  BY <1>1 DEF Lists, FindingList
<1>3. IsList(FlattenSeq(seqs)) /\ ToSet(FlattenSeq(seqs)) = UNION {ToSet(seqs[i]) : i \in DOMAIN seqs}
  BY <1>2, FlattenIs
<1>4. \A f \in ToSet(FlattenSeq(seqs)) : IsFinding(f)
  BY <1>1, <1>3 DEF FindingList
<1> QED
  BY <1>3, <1>4 DEF FindingList

LEMMA RecordFindings ==
  ASSUME NEW rec, RunRecord(rec)
  PROVE  FindingList(RaisedBy(rec))
<1>0. rec.run \in DOMAIN Position
  BY DEF RunRecord
<1>1. CASE rec.results = <<>>
  <2>1. Raised(<<Flag("no_scaffold_results", "critical")>>)
    BY KnownTypes, Severities, RaiseIs, RaisedOne
  <2>2. FindingList(Located(rec, NoAudit, <<Flag("no_scaffold_results", "critical")>>))
    BY <1>0, <2>1, LocatedIs
  <2> QED
    BY <1>1, <2>2 DEF RaisedBy
<1>2. CASE rec.results # <<>>
  <2> DEFINE Entry(i) == Located(rec, rec.results[i].scaffold,
                           AuditScaffoldResult(rec.results[i].result, rec.results[i].scaffold = rec.winner))
  <2>1. PICK F : F = [i \in DOMAIN rec.results |-> Entry(i)]
    BY Zenon
  <2>2. RaisedBy(rec) = FlattenSeq(<<AuditWinner(rec)>> \o F)
    BY <1>2, <2>1 DEF RaisedBy
  <2>3. ASSUME NEW i \in DOMAIN rec.results PROVE FindingList(Entry(i))
    <3>1. rec.results[i].scaffold \in DOMAIN Position
      BY DEF RunRecord
    <3>2. Raised(AuditScaffoldResult(rec.results[i].result, rec.results[i].scaffold = rec.winner))
      BY ResultRaises
    <3> QED
      BY <1>0, <3>1, <3>2, LocatedIs
  <2> HIDE DEF Entry
  <2>4. PICK n \in Nat : n = Len(rec.results) /\ DOMAIN rec.results = 1 .. n
    <3>1. IsList(rec.results)
      BY DEF RunRecord, IsList
    <3> QED
      BY <3>1, ListIs
  <2>5. F = [i \in 1 .. n |-> F[i]] /\ \A i \in 1 .. n : F[i] = Entry(i)
    BY <2>1, <2>4
  <2>6. IsList(F) /\ DOMAIN F = 1 .. n
    BY <2>5, ListMade
  <2>7. \A s \in ToSet(F) : FindingList(s)
    <3> SUFFICES ASSUME NEW s \in ToSet(F) PROVE FindingList(s)
      OBVIOUS
    <3>1. PICK i \in DOMAIN F : s = F[i]
      BY InToSet
    <3>2. i \in DOMAIN rec.results /\ s = Entry(i)
      BY <3>1, <2>4, <2>5, <2>6, Zenon
    <3> QED
      BY <3>2, <2>3
  <2>8. PICK w : w = AuditWinner(rec)
    OBVIOUS
  <2>9. IsList(<<w>>) /\ ToSet(<<w>>) = {w} /\ FindingList(w)
    BY <2>8, ListOne, WinnerFindings
  <2>10. IsList(<<w>> \o F) /\ ToSet(<<w>> \o F) = ToSet(<<w>>) \union ToSet(F)
    BY <2>6, <2>9, ListJoin
  <2>11. \A s \in ToSet(<<w>> \o F) : FindingList(s)
    BY <2>7, <2>9, <2>10
  <2>12. FindingList(FlattenSeq(<<w>> \o F))
    BY <2>10, <2>11, FlattenFindings
  <2> QED
    BY <2>2, <2>8, <2>12
<1> QED
  BY <1>1, <1>2

\* Merging what was merged before stands for the same findings.
Condenses(H, G) ==
  /\ \A g \in G : \E h \in H : /\ h.key = g.key /\ SeverityRank[g.severity] <= SeverityRank[h.severity]
                               /\ ToSet(g.evidence) \subseteq ToSet(h.evidence)
  /\ \A h \in H : \E g \in G : g.key = h.key /\ g.severity = h.severity
  /\ \A h \in H : \A c \in ToSet(h.evidence) : \E g \in G : g.key = h.key /\ c \in ToSet(g.evidence)

LEMMA RepresentsCondensed ==
  ASSUME NEW list, NEW H, NEW G, Represents(list, H), Condenses(H, G),
         \A g \in G : IsFinding(g), \A h \in H : IsFinding(h)
  PROVE  Represents(list, G)
<1>1. ASSUME NEW i \in DOMAIN list PROVE Stands(list[i], G)
  <2>1. PICK f : f = list[i]
    OBVIOUS
  <2>2. Stands(f, H)
    BY <2>1 DEF Represents
  <2>3. \E g \in G : g.key = f.key /\ g.severity = f.severity
    <3>1. PICK h \in H : h.key = f.key /\ h.severity = f.severity
      BY <2>2 DEF Stands
    <3>2. PICK g \in G : g.key = h.key /\ g.severity = h.severity
      BY DEF Condenses
    <3> QED
      BY <3>1, <3>2
  <2>4. ASSUME NEW g \in G, g.key = f.key
        PROVE  /\ SeverityRank[g.severity] <= SeverityRank[f.severity]
               /\ ToSet(g.evidence) \subseteq ToSet(f.evidence)
    <3>1. PICK h \in H : /\ h.key = g.key /\ SeverityRank[g.severity] <= SeverityRank[h.severity]
                         /\ ToSet(g.evidence) \subseteq ToSet(h.evidence)
      BY Zenon DEF Condenses
    <3>2. SeverityRank[h.severity] <= SeverityRank[f.severity] /\ ToSet(h.evidence) \subseteq ToSet(f.evidence)
      BY <2>2, <2>4, <3>1 DEF Stands
    <3>3. PICK a \in Int, b \in Int, c \in Int :
            a = SeverityRank[g.severity] /\ b = SeverityRank[h.severity] /\ c = SeverityRank[f.severity]
      BY <2>2, SeverityRanks DEF IsFinding, Stands
    <3>4. a <= c
      BY <3>1, <3>2, <3>3
    <3> QED
      BY <3>1, <3>2, <3>3, <3>4
  <2>5. ASSUME NEW c \in ToSet(f.evidence) PROVE \E g \in G : g.key = f.key /\ c \in ToSet(g.evidence)
    <3>1. PICK h \in H : h.key = f.key /\ c \in ToSet(h.evidence)
      BY <2>2 DEF Stands
    <3>2. PICK g \in G : g.key = h.key /\ c \in ToSet(g.evidence)
      BY <3>1, Zenon DEF Condenses
    <3> QED
      BY <3>1, <3>2
  <2>6. Stands(f, G)
    BY <2>2, <2>3, <2>4, <2>5, Zenon DEF Stands
  <2> QED
    BY <2>1, <2>6
<1>2. ASSUME NEW g \in G PROVE \E i \in DOMAIN list : list[i].key = g.key
  <2>1. PICK h \in H : h.key = g.key
    BY DEF Condenses
  <2>2. PICK i \in DOMAIN list : list[i].key = h.key
    BY DEF Represents
  <2> QED
    BY <2>1, <2>2
<1>3. IsList(list) /\ \A i, j \in DOMAIN list : list[i].key = list[j].key => i = j
  BY DEF Represents
<1> QED
  BY <1>1, <1>2, <1>3, Zenon DEF Represents

LEMMA SortedList ==
  ASSUME NEW s, FindingList(s)
  PROVE  Represents(SortFindings(s), ToSet(s)) /\ Descends(SortFindings(s)) /\ FindingList(SortFindings(s))
<1>1. \A i \in DOMAIN s : IsFinding(s[i])
  BY InToSet DEF FindingList
<1>2. Represents(SortFindings(s), ToSet(s)) /\ Descends(SortFindings(s))
  BY <1>1, SortRepresents DEF FindingList
<1>3. FindingList(SortFindings(s))
  BY <1>2, InToSet DEF Represents, Stands, FindingList
<1> QED
  BY <1>2, <1>3

\* The findings of all records, and the list that shows them.
AllRaised(records) == UNION {ToSet(RaisedBy(records[i])) : i \in DOMAIN records}

AllShown(records) == SortFindings(FlattenSeq([i \in DOMAIN records |-> AuditRunRecord(records[i])]))

LEMMA ReportRepresents ==
  ASSUME NEW records, IsList(records), \A i \in DOMAIN records : RunRecord(records[i])
  PROVE  Represents(AllShown(records), AllRaised(records)) /\ Descends(AllShown(records))
<1>1. PICK n \in Nat : n = Len(records) /\ DOMAIN records = 1 .. n
  BY ListIs
<1>2. PICK A : A = [i \in DOMAIN records |-> AuditRunRecord(records[i])]
  BY Zenon
<1>3. A = [i \in 1 .. n |-> A[i]] /\ \A i \in 1 .. n : A[i] = SortFindings(RaisedBy(records[i]))
  BY <1>1, <1>2 DEF AuditRunRecord
<1>4. IsList(A) /\ DOMAIN A = 1 .. n
  BY <1>3, ListMade
<1>5. ASSUME NEW i \in 1 .. n
      PROVE  /\ FindingList(RaisedBy(records[i]))
             /\ Represents(A[i], ToSet(RaisedBy(records[i]))) /\ FindingList(A[i])
  BY <1>1, <1>3, RecordFindings, SortedList
<1>6. \A s \in ToSet(A) : FindingList(s)
  BY <1>4, <1>5, InToSet
<1>7. PICK H, G : H = ToSet(FlattenSeq(A)) /\ G = AllRaised(records)
  OBVIOUS
<1>8. FindingList(FlattenSeq(A)) /\ ToSet(FlattenSeq(A)) = UNION {ToSet(A[i]) : i \in DOMAIN A}
  BY <1>4, <1>6, FlattenFindings
<1>9. \A h : h \in H <=> \E i \in 1 .. n : h \in ToSet(A[i])
  BY <1>4, <1>7, <1>8
<1>10. \A g : g \in G <=> \E i \in 1 .. n : g \in ToSet(RaisedBy(records[i]))
  BY <1>1, <1>7 DEF AllRaised
<1>11. (\A h \in H : IsFinding(h)) /\ (\A g \in G : IsFinding(g))
  BY <1>5, <1>9, <1>10 DEF FindingList
<1>12. ASSUME NEW g \in G
       PROVE  \E h \in H : /\ h.key = g.key /\ SeverityRank[g.severity] <= SeverityRank[h.severity]
                           /\ ToSet(g.evidence) \subseteq ToSet(h.evidence)
  <2>1. PICK i \in 1 .. n : g \in ToSet(RaisedBy(records[i]))
    BY <1>10
  <2>2. Represents(A[i], ToSet(RaisedBy(records[i])))
    BY <1>5
  <2>3. PICK k \in DOMAIN A[i] : A[i][k].key = g.key
    BY <2>1, <2>2 DEF Represents
  <2>4. Stands(A[i][k], ToSet(RaisedBy(records[i])))
    BY <2>2 DEF Represents
  <2>5. A[i][k] \in H
    BY <1>9, InToSet
  <2> QED
    BY <2>1, <2>3, <2>4, <2>5 DEF Stands
<1>13. ASSUME NEW h \in H
       PROVE  /\ \E g \in G : g.key = h.key /\ g.severity = h.severity
              /\ \A c \in ToSet(h.evidence) : \E g \in G : g.key = h.key /\ c \in ToSet(g.evidence)
  <2>1. PICK i \in 1 .. n : h \in ToSet(A[i])
    BY <1>9
  <2>2. Represents(A[i], ToSet(RaisedBy(records[i])))
    BY <1>5
  <2>3. Stands(h, ToSet(RaisedBy(records[i])))
    BY <2>1, <2>2, InToSet DEF Represents
  <2>4. \A g \in ToSet(RaisedBy(records[i])) : g \in G
    BY <1>10
  <2> QED
    BY <2>3, <2>4 DEF Stands
<1>14. Condenses(H, G)
  BY <1>12, <1>13, Zenon DEF Condenses
<1>15. PICK list : list = SortFindings(FlattenSeq(A))
  OBVIOUS
<1>16. Represents(list, H) /\ Descends(list)
  BY <1>7, <1>8, <1>15, SortedList, Zenon
<1>17. Represents(list, G)
  BY <1>11, <1>14, <1>16, RepresentsCondensed
<1>18. AllShown(records) = list
  BY <1>2, <1>15 DEF AllShown
<1> QED
  BY <1>7, <1>16, <1>17, <1>18

-----------------------------------------------------------------------------
\* The counts of a summary: a sum over the classes of a finite set.
Class(D, v, s) == {i \in D : v[i] \in s}

Counts(counts, D, v, X) ==
  /\ \A i \in D : v[i] \in X
  /\ \A x \in X : counts[x] = Cardinality(Class(D, v, {x}))

LEMMA CountsAddUp ==
  ASSUME NEW D, IsFiniteSet(D), NEW v, NEW X, IsFiniteSet(X), NEW counts, Counts(counts, D, v, X)
  PROVE  SetSums(counts, X)[X] = Cardinality(D)
<1>0. (\A i \in D : v[i] \in X) /\ \A x \in X : counts[x] = Cardinality(Class(D, v, {x}))
  BY DEF Counts
<1>1. \A s : IsFiniteSet(Class(D, v, s)) /\ Cardinality(Class(D, v, s)) \in Nat
  <2> SUFFICES ASSUME NEW s PROVE IsFiniteSet(Class(D, v, s)) /\ Cardinality(Class(D, v, s)) \in Nat
    OBVIOUS
  <2>1. Class(D, v, s) \in SUBSET D
    BY DEF Class
  <2> QED
    BY <2>1, FS_Subset, FS_CardinalityType
<1>2. Terms(counts, X)
  <2>1. NatTerms(counts, X)
    BY <1>0, <1>1, Zenon DEF NatTerms
  <2> QED
    BY <2>1, NatSum
<1> DEFINE S == {n \in Nat : \A s \in Small(X, n) : SetSums(counts, X)[s] = Cardinality(Class(D, v, s))}
<1>3. 0 \in S
  <2>1. Class(D, v, {}) = {} /\ Cardinality({}) = 0
    BY FS_EmptySet DEF Class
  <2>2. ASSUME NEW s \in Small(X, 0) PROVE SetSums(counts, X)[s] = Cardinality(Class(D, v, s))
    <3>1. s = {} /\ s \in SUBSET X
      BY NoneSmaller DEF Small
    <3>2. SetSums(counts, X)[s] = 0
      BY <3>1, <1>2, SumStep, Zenon
    <3> QED
      BY <3>1, <3>2, <2>1, Zenon
  <2> QED
    BY <2>2
<1>4. ASSUME NEW n \in S PROVE n + 1 \in S
  <2>0. n \in Nat /\ n + 1 \in Nat
    OBVIOUS
  <2> SUFFICES ASSUME NEW s \in Small(X, n + 1) PROVE SetSums(counts, X)[s] = Cardinality(Class(D, v, s))
    BY <2>0
  <2>1. s \in SUBSET X /\ Cardinality(s) <= n + 1
    BY DEF Small
  <2>2. CASE s = {}
    <3>1. Class(D, v, {}) = {} /\ Cardinality({}) = 0
      BY FS_EmptySet DEF Class
    <3>2. SetSums(counts, X)[s] = 0
      BY <2>1, <2>2, <1>2, SumStep, Zenon
    <3> QED
      BY <2>2, <3>1, <3>2, Zenon
  <2>3. CASE s # {}
    <3>1. PICK x, r : x = Pick(s) /\ r = s \ {Pick(s)}
      BY Zenon
    <3>2. /\ x \in s /\ r \in SUBSET X /\ Cardinality(s) \in Nat /\ Cardinality(r) \in Nat
          /\ Cardinality(r) = Cardinality(s) - 1
      BY <2>1, <2>3, <3>1, PickOne, Zenon
    <3>3. r \in Small(X, n)
      BY <2>0, <2>1, <3>2 DEF Small
    <3>4. SetSums(counts, X)[r] = Cardinality(Class(D, v, r))
      BY <3>3
    <3>5. SetSums(counts, X)[s] = counts[x] + SetSums(counts, X)[r]
      BY <2>1, <2>3, <3>1, <1>2, SumStep, ZenonT(40)
    <3>6. PICK A, B : A = Class(D, v, {x}) /\ B = Class(D, v, r)
      OBVIOUS
    <3>7. A \cap B = {} /\ A \cup B = Class(D, v, s)
      BY <3>1, <3>2, <3>6 DEF Class
    <3>8. IsFiniteSet(A) /\ IsFiniteSet(B) /\ Cardinality(A) \in Nat /\ Cardinality(B) \in Nat
      BY <1>1, <3>6
    <3>9. Cardinality(A \cup B) = Cardinality(A) + Cardinality(B) - Cardinality(A \cap B)
      BY <3>8, FS_Union
    <3>10. Cardinality(A \cap B) = 0
      BY <3>7, FS_EmptySet, Zenon
    <3>11. Cardinality(A \cup B) = Cardinality(A) + Cardinality(B)
      BY <3>8, <3>9, <3>10
    <3>12. counts[x] = Cardinality(A)
      BY <1>0, <2>1, <3>2, <3>6, Zenon
    <3> QED
      BY <3>4, <3>5, <3>6, <3>7, <3>11, <3>12
  <2> QED
    BY <2>2, <2>3
<1>5. S = Nat
  <2>1. S \in SUBSET Nat
    OBVIOUS
  <2> HIDE DEF S
  <2> QED
    BY <1>3, <1>4, <2>1, SetInduction
<1>6. Cardinality(X) \in Nat /\ X \in Small(X, Cardinality(X))
  BY FS_CardinalityType DEF Small
<1>7. SetSums(counts, X)[X] = Cardinality(Class(D, v, X))
  BY <1>5, <1>6
<1>8. Class(D, v, X) = D
  BY <1>0 DEF Class
<1> QED
  BY <1>7, <1>8

LEMMA AllCountedIs ==
  ASSUME NEW counts
  PROVE  AllCounted(counts) = SetSums(counts, DOMAIN counts)[DOMAIN counts]
BY DEF AllCounted, FoldSet, MapThenFoldSet, SetSums, Unfolds, Pick

CountBy(list, v, X) == [x \in X |-> Cardinality({i \in DOMAIN list : v[i] = x})]

Sorts(v, list, X) == \A i \in DOMAIN list : v[i] \in X

LEMMA ShownAreCounted ==
  ASSUME NEW list, IsList(list), NEW v, NEW X, IsFiniteSet(X), Sorts(v, list, X)
  PROVE  AllCounted(CountBy(list, v, X)) = Len(list)
<1>0. PICK counts : counts = CountBy(list, v, X)
  OBVIOUS
<1>1. PICK n \in Nat : n = Len(list) /\ DOMAIN list = 1 .. n
  BY ListIs
<1>2. PICK a \in Int, b \in Int : a = 1 /\ b = n
  OBVIOUS
<1>3. IsFiniteSet(1 .. n) /\ Cardinality(1 .. n) = n
  <2>1. IsFiniteSet(a .. b) /\ Cardinality(a .. b) = IF a > b THEN 0 ELSE b - a + 1
    BY FS_Interval
  <2>2. (IF a > b THEN 0 ELSE b - a + 1) = n
    BY <1>2
  <2> QED
    BY <2>1, <2>2, <1>2, Zenon
<1>4. \A x \in X : counts[x] = Cardinality(Class(1 .. n, v, {x}))
  <2> SUFFICES ASSUME NEW x \in X PROVE counts[x] = Cardinality(Class(1 .. n, v, {x}))
    OBVIOUS
  <2>1. {i \in DOMAIN list : v[i] = x} = Class(1 .. n, v, {x})
    BY <1>1 DEF Class
  <2>2. counts[x] = Cardinality({i \in DOMAIN list : v[i] = x})
    BY <1>0 DEF CountBy
  <2> QED
    BY <2>1, <2>2, Zenon
<1>5. Counts(counts, 1 .. n, v, X)
  BY <1>1, <1>4 DEF Counts, Sorts
<1>6. SetSums(counts, X)[X] = Cardinality(1 .. n)
  BY <1>3, <1>5, CountsAddUp
<1>7. DOMAIN counts = X
  BY <1>0 DEF CountBy
<1> QED
  BY <1>0, <1>1, <1>3, <1>6, <1>7, AllCountedIs, Zenon

LEMMA SeveritiesFinite == IsFiniteSet(DOMAIN SeverityRank)
<1>1. SeverityRank \in Injection(DOMAIN SeverityRank, 1 .. 5)
  <2>1. SeverityRank \in [DOMAIN SeverityRank -> 1 .. 5]
    BY DEF SeverityRank
  <2>2. \A s, t \in DOMAIN SeverityRank : SeverityRank[s] = SeverityRank[t] => s = t
    BY DEF SeverityRank
  <2> QED
    BY <2>1, <2>2 DEF Injection, IsInjective
<1>2. PICK a \in Int, b \in Int : a = 1 /\ b = 5
  OBVIOUS
<1>3. IsFiniteSet(a .. b)
  BY FS_Interval
<1> QED
  BY <1>1, <1>2, <1>3, FS_Injection, Zenon

LEMMA SummaryAddsUp ==
  ASSUME NEW list, IsList(list), \A i \in DOMAIN list : IsFinding(list[i]),
         NEW severities, NEW taxonomy,
         severities = [s \in DOMAIN SeverityRank |-> Cardinality({i \in DOMAIN list : list[i].severity = s})],
         taxonomy = [t \in {list[i].type : i \in DOMAIN list} |-> Cardinality({i \in DOMAIN list : list[i].type = t})]
  PROVE  AllCounted(severities) = Len(list) /\ AllCounted(taxonomy) = Len(list)
<1>1. AllCounted(severities) = Len(list)
  <2>1. PICK v : v = [i \in DOMAIN list |-> list[i].severity]
    BY Zenon
  <2>2. \A i \in DOMAIN list : v[i] = list[i].severity /\ v[i] \in DOMAIN SeverityRank
    BY <2>1 DEF IsFinding
  <2>3. \A s : {i \in DOMAIN list : list[i].severity = s} = {i \in DOMAIN list : v[i] = s}
    BY <2>2
  <2>4. severities = CountBy(list, v, DOMAIN SeverityRank)
    BY <2>3, Zenon DEF CountBy
  <2>5. Sorts(v, list, DOMAIN SeverityRank)
    BY <2>2 DEF Sorts
  <2> QED
    BY <2>4, <2>5, SeveritiesFinite, ShownAreCounted, Zenon
<1>2. AllCounted(taxonomy) = Len(list)
  <2>1. PICK v : v = [i \in DOMAIN list |-> list[i].type]
    BY Zenon
  <2>2. PICK X : X = {list[i].type : i \in DOMAIN list}
    OBVIOUS
  <2>3. \A i \in DOMAIN list : v[i] = list[i].type /\ v[i] \in X
    BY <2>1, <2>2
  <2>4. IsFiniteSet(X)
    <3>1. v \in Surjection(DOMAIN list, X)
      BY <2>1, <2>2, <2>3 DEF Surjection
    <3>2. PICK n \in Nat : DOMAIN list = 1 .. n
      BY ListIs
    <3>3. PICK a \in Int, b \in Int : a = 1 /\ b = n
      OBVIOUS
    <3>4. IsFiniteSet(a .. b)
      BY FS_Interval
    <3> QED
      BY <3>1, <3>2, <3>3, <3>4, FS_Surjection, Zenon
  <2>5. \A s : {i \in DOMAIN list : list[i].type = s} = {i \in DOMAIN list : v[i] = s}
    BY <2>3
  <2>6. taxonomy = CountBy(list, v, X)
    BY <2>2, <2>5, Zenon DEF CountBy
  <2>7. Sorts(v, list, X)
    BY <2>3 DEF Sorts
  <2> QED
    BY <2>4, <2>6, <2>7, ShownAreCounted, Zenon
<1> QED
  BY <1>1, <1>2, Zenon

-----------------------------------------------------------------------------
\* The report is the audit of the files that were named.
AuditInv ==
  /\ inputs \in TraceFiles
  /\ audit # NoAudit /\ ~audit.refused =>
       /\ \A i \in DOMAIN inputs : Loadable(inputs[i])
       /\ audit.report = AuditRecords(LoadedRecords(inputs))

LEMMA AuditStarts == AuditInit => AuditInv
BY DEF AuditInit, AuditInv

LEMMA AuditStep == AuditInv /\ [AuditNext]_auditVars => AuditInv'
<1> SUFFICES ASSUME AuditInv, [AuditNext]_auditVars PROVE AuditInv'
  OBVIOUS
<1>1. CASE RunAudit
  <2>1. inputs' = inputs
    BY <1>1 DEF RunAudit
  <2>2. CASE \E i \in DOMAIN inputs : ~Loadable(inputs[i])
    <3>1. audit' = [refused |-> TRUE, report |-> NoAudit]
      BY <1>1, <2>2 DEF RunAudit
    <3>2. audit'.refused
      BY <3>1
    <3> QED
      BY <2>1, <3>2 DEF AuditInv
  <2>3. CASE \A i \in DOMAIN inputs : Loadable(inputs[i])
    <3>1. audit' = [refused |-> FALSE, report |-> AuditRecords(LoadedRecords(inputs))]
      BY <1>1, <2>3 DEF RunAudit
    <3>2. audit'.report = AuditRecords(LoadedRecords(inputs))
      BY <3>1
    <3>3. AuditRecords(LoadedRecords(inputs))' = AuditRecords(LoadedRecords(inputs))
      BY <2>1
    <3>4. \A i \in DOMAIN inputs' : Loadable(inputs'[i])
      BY <2>1, <2>3
    <3> QED
      BY <2>1, <3>2, <3>3, <3>4, Zenon DEF AuditInv
  <2> QED
    BY <2>2, <2>3
<1>2. CASE UNCHANGED auditVars
  <2>1. inputs' = inputs /\ audit' = audit
    BY <1>2 DEF auditVars
  <2> QED
    BY <2>1 DEF AuditInv
<1> QED
  BY <1>1, <1>2 DEF AuditNext

LEMMA LoadedAreRecords ==
  ASSUME NEW files \in TraceFiles, \A i \in DOMAIN files : Loadable(files[i])
  PROVE  IsList(LoadedRecords(files)) /\ \A i \in DOMAIN LoadedRecords(files) : RunRecord(LoadedRecords(files)[i])
<1>1. IsList(files)
  BY AuditAssumption DEF IsList
<1>2. PICK n \in Nat : n = Len(files) /\ DOMAIN files = 1 .. n
  BY <1>1, ListIs
<1>3. PICK seqs : seqs = [i \in DOMAIN files |-> files[i].records]
  BY Zenon
<1>4. ASSUME NEW i \in 1 .. n
      PROVE  IsList(files[i].records) /\ \A k \in DOMAIN files[i].records : RunRecord(files[i].records[k])
  <2>1. PICK records : records = files[i].records
    OBVIOUS
  <2>2. /\ records \in Seq(ToSet(records))
        /\ \A k \in DOMAIN records : RunRecord(records[k]) \/ (records[k] = NoAudit /\ files[i].shape # "run")
    BY <1>2, <2>1, AuditAssumption
  <2>3. Loadable(files[i])
    BY <1>2
  <2>4. \A k \in DOMAIN records : RunRecord(records[k])
    BY <2>1, <2>2, <2>3 DEF Loadable
  <2> QED
    BY <2>1, <2>2, <2>4 DEF IsList
<1>5. seqs = [i \in 1 .. n |-> seqs[i]] /\ \A i \in 1 .. n : seqs[i] = files[i].records /\ IsList(seqs[i])
  BY <1>2, <1>3, <1>4
<1>6. Lists(seqs) /\ DOMAIN seqs = 1 .. n
  BY <1>5, MappedIsList
<1>7. PICK r : r = LoadedRecords(files)
  OBVIOUS
<1>8. IsList(r) /\ ToSet(r) = UNION {ToSet(seqs[i]) : i \in DOMAIN seqs}
  BY <1>3, <1>6, <1>7, FlattenIs DEF LoadedRecords
<1>9. ASSUME NEW k \in DOMAIN r PROVE RunRecord(r[k])
  <2>1. r[k] \in ToSet(r)
    BY InToSet
  <2>2. PICK i \in 1 .. n : r[k] \in ToSet(seqs[i])
    BY <2>1, <1>6, <1>8
  <2>3. PICK l \in DOMAIN files[i].records : r[k] = files[i].records[l]
    BY <2>2, <1>5, InToSet
  <2> QED
    BY <2>3, <1>4
<1> QED
  BY <1>7, <1>8, <1>9

Completes(list, raised, severities, taxonomy) ==
  /\ {list[i].key : i \in DOMAIN list} = {f.key : f \in raised}
  /\ \A i, j \in DOMAIN list : i < j =>
       /\ list[i].key # list[j].key
       /\ SeverityRank[list[i].severity] >= SeverityRank[list[j].severity]
  /\ \A i \in DOMAIN list :
       /\ \A f \in {g \in raised : g.key = list[i].key} :
             SeverityRank[f.severity] <= SeverityRank[list[i].severity]
       /\ \E f \in {g \in raised : g.key = list[i].key} : f.severity = list[i].severity
       /\ ToSet(list[i].evidence) = UNION {ToSet(f.evidence) : f \in {g \in raised : g.key = list[i].key}}
  /\ AllCounted(severities) = Len(list) /\ AllCounted(taxonomy) = Len(list)

LEMMA ReportIsComplete == AuditInv => AuditIsComplete
<1> SUFFICES ASSUME AuditInv, audit # NoAudit, ~audit.refused PROVE AuditIsComplete
  BY Zenon DEF AuditIsComplete
<1>1. PICK records : records = LoadedRecords(inputs)
  OBVIOUS
<1>2. IsList(records) /\ \A i \in DOMAIN records : RunRecord(records[i])
  BY <1>1, LoadedAreRecords DEF AuditInv
<1>3. PICK list, raised : list = AllShown(records) /\ raised = AllRaised(records)
  OBVIOUS
<1>4. Represents(list, raised) /\ Descends(list)
  BY <1>2, <1>3, ReportRepresents
<1>5. audit.report = AuditRecords(records)
  BY <1>1 DEF AuditInv
<1>6. /\ audit.report.findings = list
      /\ audit.report.severities =
           [s \in DOMAIN SeverityRank |-> Cardinality({i \in DOMAIN list : list[i].severity = s})]
      /\ audit.report.taxonomy =
           [t \in {list[i].type : i \in DOMAIN list} |-> Cardinality({i \in DOMAIN list : list[i].type = t})]
  BY <1>3, <1>5 DEF AuditRecords, AllShown
<1>7. PICK sev, tax : sev = audit.report.severities /\ tax = audit.report.taxonomy
  OBVIOUS
<1>8. AllCounted(sev) = Len(list) /\ AllCounted(tax) = Len(list)
  <2>1. IsList(list) /\ \A i \in DOMAIN list : IsFinding(list[i])
    BY <1>4 DEF Represents, Stands
  <2>2. /\ sev = [s \in DOMAIN SeverityRank |-> Cardinality({i \in DOMAIN list : list[i].severity = s})]
        /\ tax = [t \in {list[i].type : i \in DOMAIN list} |-> Cardinality({i \in DOMAIN list : list[i].type = t})]
    BY <1>6, <1>7, Zenon
  <2> QED
    BY <2>1, <2>2, SummaryAddsUp, Zenon
<1>9. {list[i].key : i \in DOMAIN list} = {f.key : f \in raised}
  <2>1. ASSUME NEW i \in DOMAIN list PROVE \E f \in raised : list[i].key = f.key
    BY <1>4 DEF Represents, Stands
  <2>2. ASSUME NEW f \in raised PROVE \E i \in DOMAIN list : f.key = list[i].key
    BY <1>4 DEF Represents
  <2> QED
    BY <2>1, <2>2
<1>10. ASSUME NEW i \in DOMAIN list, NEW j \in DOMAIN list, i < j
       PROVE  /\ list[i].key # list[j].key
              /\ SeverityRank[list[i].severity] >= SeverityRank[list[j].severity]
  <2>1. i # j
    <3>1. i \in Nat /\ j \in Nat
      BY <1>4, ListIs DEF Represents
    <3> QED
      BY <3>1, <1>10
  <2> QED
    BY <2>1, <1>4, <1>10 DEF Represents, Descends
<1>11. ASSUME NEW i \in DOMAIN list
       PROVE  /\ \A f \in {g \in raised : g.key = list[i].key} :
                    SeverityRank[f.severity] <= SeverityRank[list[i].severity]
              /\ \E f \in {g \in raised : g.key = list[i].key} : f.severity = list[i].severity
              /\ ToSet(list[i].evidence) = UNION {ToSet(f.evidence) : f \in {g \in raised : g.key = list[i].key}}
  <2>1. PICK e, M : e = list[i] /\ M = {g \in raised : g.key = list[i].key}
    BY Zenon
  <2>2. Stands(e, raised)
    BY <2>1, <1>4 DEF Represents
  <2>3. \A g : g \in M <=> g \in raised /\ g.key = e.key
    BY <2>1
  <2>4. \A f \in M : SeverityRank[f.severity] <= SeverityRank[e.severity]
    BY <2>2, <2>3 DEF Stands
  <2>5. \E f \in M : f.severity = e.severity
    BY <2>2, <2>3 DEF Stands
  <2>6. ToSet(e.evidence) = UNION {ToSet(f.evidence) : f \in M}
    <3>1. \A f \in M : ToSet(f.evidence) \subseteq ToSet(e.evidence)
      BY <2>2, <2>3 DEF Stands
    <3>2. \A c \in ToSet(e.evidence) : \E f \in M : c \in ToSet(f.evidence)
      BY <2>2, <2>3 DEF Stands
    <3> QED
      BY <3>1, <3>2
  <2> QED
    BY <2>1, <2>4, <2>5, <2>6, Zenon
<1>12. Completes(list, raised, sev, tax)
  BY <1>8, <1>9, <1>10, <1>11, Zenon DEF Completes
<1>13. Completes(audit.report.findings, AllRaised(LoadedRecords(inputs)),
                 audit.report.severities, audit.report.taxonomy)
  BY <1>1, <1>3, <1>6, <1>7, <1>12, Zenon
<1> QED
  BY <1>13, Zenon DEF AuditIsComplete, Completes, AllRaised

-----------------------------------------------------------------------------
(***************************************************************************)
(* The rows legacy runs store, as the audit reads them.  A row holds the   *)
(* winner of the results it holds, by the rule of an arena or of a         *)
(* comparison; both rules and the audit's take the first of the highest    *)
(* scores, so the audit has nothing to say of that winner.                 *)
(***************************************************************************)
StoredInv ==
    \A r \in Runs : stored[r] # NoRun =>
        /\ stored[r].results \in Seq(ResultRows)
        /\ stored[r].winner \in {Winner(stored[r].results), ComparisonWinner(stored[r].results)}

\* The row of one run is as the table keeps it, or the row its results tell.
RowKept(r, w) ==
    w = stored[r] \/ (w.results \in Seq(ResultRows) /\ w.winner \in {Winner(w.results), ComparisonWinner(w.results)})

LEMMA RowsKept ==
  ASSUME LegacyInv, StoredInv, NEW r \in Runs, NEW w, RowKept(r, w), stored' = [stored EXCEPT ![r] = w]
  PROVE  StoredInv'
<1>1. stored = [q \in Runs |-> stored[q]]
  BY DEF LegacyInv, LegacyTypes
<1>2. stored'[r] = w /\ \A q \in Runs \ {r} : stored'[q] = stored[q]
  BY <1>1
<1>3. ASSUME NEW q \in Runs, stored'[q] # NoRun
      PROVE  /\ stored'[q].results \in Seq(ResultRows)
             /\ stored'[q].winner \in {Winner(stored'[q].results), ComparisonWinner(stored'[q].results)}
  <2>1. CASE stored'[q] = stored[q]
    BY <1>3, <2>1 DEF StoredInv
  <2>2. CASE stored'[q] # stored[q]
    BY <1>2, <2>2 DEF RowKept
  <2> QED
    BY <2>1, <2>2
<1> QED
  BY <1>3 DEF StoredInv

LEMMA FinalizeStores ==
  ASSUME LegacyInv, StoredInv, NEW r \in Runs, NEW results \in Seq(ResultRows), NEW events, NEW status,
         FinalizeRun(r, results, events, status)
  PROVE  StoredInv'
<1>1. PICK w \in {stored[r], [status |-> status, winner |-> Winner(results), results |-> results]} :
        stored' = [stored EXCEPT ![r] = w]
  BY Zenon DEF FinalizeRun
<1>2. RowKept(r, w)
  BY <1>1 DEF RowKept
<1> QED
  BY <1>1, <1>2, RowsKept, Zenon

LEMMA WithoutProviderStores ==
  ASSUME LegacyInv, StoredInv, NEW r \in Runs, StartRunWithoutProvider(r)
  PROVE  StoredInv'
<1>1. run[r].state = "created"
  BY DEF StartRunWithoutProvider
<1>2. Story(run[r], task[r], emitted[r], stored[r])
  BY RunContext
<1>3. PICK seq : seq = run[r].req.scaffolds
  OBVIOUS
<1>4. seq \in Seq(Scaffolds)
  BY <1>1, <1>2, <1>3 DEF Story
<1>5. PICK named \in Seq(Scaffolds) : named = SetToSeq(ToSet(seq))
  BY <1>4, NamedOnce
<1>6. PICK c \in Nat : c = Len(named) /\ DOMAIN named = 1 .. c
  BY SeqShape
<1>7. PICK errors : errors = [i \in 1 .. c |-> [scaffold |-> named[i], score |-> Failure]]
  BY Zenon
<1>8. errors \in Seq(ResultRows)
  <2>1. \A i \in 1 .. c : named[i] \in Scaffolds
    BY <1>5, <1>6, SeqMember
  <2>2. \A i \in 1 .. c : errors[i] \in ResultRows
    BY <1>7, <2>1, ResultRowIs
  <2>3. errors \in [1 .. c -> ResultRows]
    BY <1>7, <2>2
  <2> QED
    BY <2>3, SeqUnfolds
<1>9. \E es : FinalizeRun(r, errors, es, "failed")
  BY <1>3, <1>5, <1>6, <1>7, Zenon DEF StartRunWithoutProvider, ScaffoldSeq
<1> QED
  BY <1>8, <1>9, FinalizeStores

LEMMA RunStepStores ==
  ASSUME LegacyInv, StoredInv, NEW r \in Runs, RunStep(r)
  PROVE  StoredInv'
<1>1. PICK results \in Seq(ResultRows) : results = run[r].results
  BY RunContext DEF RunRows
<1>2. CASE UNCHANGED stored
  BY <1>2 DEF StoredInv
<1>3. CASE StartRunWithoutProvider(r)
  BY <1>3, WithoutProviderStores
<1>4. CASE FinishRun(r)
  <2>1. FinalizeRun(r, results, <<>>, "completed")
    BY <1>1, <1>4 DEF FinishRun
  <2> QED
    BY <2>1, FinalizeStores
<1>5. CASE FinishComparison(r)
  <2>1. PICK w : w = [status |-> "completed", results |-> results, winner |-> ComparisonWinner(results)]
    BY Zenon
  <2>2. stored' = [stored EXCEPT ![r] = w] \/ UNCHANGED stored
    BY <1>1, <1>5, <2>1 DEF FinishComparison
  <2>3. RowKept(r, w)
    BY <2>1 DEF RowKept
  <2> QED
    BY <1>2, <2>2, <2>3, RowsKept
<1>6. CASE StartRun(r) \/ NextCase(r)
  BY <1>2, <1>6 DEF StartRun, NextCase
<1> QED
  BY <1>3, <1>4, <1>5, <1>6 DEF RunStep

LEMMA StoredStarts == LegacyInit => StoredInv
BY DEF LegacyInit, StoredInv

LEMMA StoredStep == LegacyInv /\ StoredInv /\ [LegacyNext]_legacyVars => StoredInv'
<1> SUFFICES ASSUME LegacyInv, StoredInv, [LegacyNext]_legacyVars PROVE StoredInv'
  OBVIOUS
<1>1. CASE UNCHANGED stored
  BY <1>1 DEF StoredInv
<1>2. CASE UNCHANGED legacyVars
  BY <1>1, <1>2 DEF legacyVars
<1>3. CASE \E r \in Runs : RunStep(r) \/ RunExpires(r) \/ Cancel(r)
  BY <1>1, <1>3, RunStepStores DEF RunExpires, Cancel
<1>4. CASE \E r \in Runs : \E i \in DOMAIN task[r] : ScaffoldStep(r, i)
  <2>1. PICK r \in Runs : \E i \in DOMAIN task[r] : ScaffoldStep(r, i)
    BY <1>4
  <2>2. UNCHANGED stored
    BY <2>1, ZenonT(40) DEF ScaffoldStep, StartScaffold, BeginCall, CompleteCall, OpenAIStream, AnthropicStream, ReadLastUsage,
                 CutStream, CallFails, ScaffoldTimeout, ScaffoldEnds, BeginJudge, EvaluateScaffold,
                 ScaffoldFailed, ScaffoldCompleted
  <2> QED
    BY <1>1, <2>2
<1>5. CASE \E req \in Requests : CreateRun(req)
  BY <1>1, <1>5 DEF CreateRun
<1>6. CASE Shutdown
  BY <1>1, <1>6 DEF Shutdown
<1>7. CASE \/ \E key \in Keys : KeyExpires(key)
           \/ \E u \in Subscribers : TakeEvent(u) \/ (\E r \in Runs : Subscribe(u, r))
           \/ Rollover
  BY <1>1, <1>7, Zenon DEF KeyExpires, TakeEvent, Subscribe, Rollover
<1> QED
  BY <1>2, <1>3, <1>4, <1>5, <1>6, <1>7 DEF LegacyNext

\* One stored row, read by the audit: a result scores what it scored, or nothing.
LEMMA StoredScores ==
  ASSUME NEW x \in ResultRows
  PROVE  ResultScore(StoredResult(x)) = IF x.score = Failure THEN NoAudit ELSE x.score
<1>1. x.score # Failure => [score |-> x.score] # NoAudit
  BY StoredAssumption DEF ResultRows
<1>2. CASE x.score = Failure
  BY <1>2 DEF ResultScore, StoredResult
<1>3. CASE x.score # Failure
  BY <1>1, <1>3 DEF ResultScore, StoredResult
<1> QED
  BY <1>2, <1>3

\* The winner a row names is nobody, when nothing scored, or scaffold of a result
\* that is the first best of those that scored, if it scored itself.
Wins(results, w) ==
    \/ w = "none" /\ \A i \in DOMAIN results : results[i].score = Failure
    \/ \E i \in DOMAIN results : w = results[i].scaffold /\ (results[i].score # Failure => FirstBest(results, i))

LEMMA WinnersWin ==
  ASSUME NEW results \in Seq(ResultRows)
  PROVE  Wins(results, Winner(results)) /\ Wins(results, ComparisonWinner(results))
<1>1. results \in Seq(ScoredRows)
  BY ZeroedIs
<1>2. Wins(results, Winner(results))
  BY <1>1, WinnerIs DEF Wins
<1>3. PICK zs \in Seq(ScoredRows) : zs = Zeroed(results)
  BY ZeroedIs
<1>4. ComparisonWinner(results) = Winner(zs)
  BY <1>3 DEF ComparisonWinner, Zeroed
<1>5. /\ DOMAIN zs = DOMAIN results
      /\ \A i \in DOMAIN results : /\ zs[i].scaffold = results[i].scaffold
                                    /\ zs[i].score = IF results[i].score = Failure THEN 0 ELSE results[i].score
  BY <1>3, ZeroedIs
<1>6. \A i \in DOMAIN results : results[i] \in ResultRows
  BY SeqMember, SeqShape
<1>7. \A i \in DOMAIN results : results[i].score \in Int /\ (results[i].score = Failure \/ results[i].score \in Nat)
  BY <1>6, LegacyAssumption DEF ResultRows, Failure
<1>8. \A i \in DOMAIN results : zs[i].score # Failure
  BY <1>5, <1>7 DEF Failure
<1>9. CASE \A i \in DOMAIN zs : zs[i].score = Failure
  <2>1. DOMAIN zs = {}
    BY <1>5, <1>8, <1>9
  <2> QED
    BY <1>2, <1>3, <1>4, <1>5, <2>1, WinnerIs, Zenon DEF Wins
<1>10. CASE \E i \in DOMAIN zs : FirstBest(zs, i) /\ Winner(zs) = zs[i].scaffold
  <2>1. PICK i \in DOMAIN results : FirstBest(zs, i) /\ Winner(zs) = results[i].scaffold
    BY <1>5, <1>10
  <2>2. ASSUME results[i].score # Failure
        PROVE  FirstBest(results, i)
    <3>1. ASSUME NEW j \in DOMAIN results, results[j].score # Failure
          PROVE  results[j].score <= results[i].score /\ (j < i => results[j].score < results[i].score)
      <4>1. zs[j].score <= zs[i].score /\ (j < i => zs[j].score < zs[i].score)
        BY <1>5, <1>8, <2>1 DEF FirstBest
      <4>2. zs[j].score = results[j].score /\ zs[i].score = results[i].score
        BY <1>5, <2>2, <3>1
      <4> QED
        BY <4>1, <4>2
    <3> QED
      BY <2>2, <3>1 DEF FirstBest
  <2> QED
    BY <1>2, <1>4, <2>1, <2>2 DEF Wins
<1>11. Wins(results, ComparisonWinner(results))
  BY <1>3, <1>9, <1>10, WinnerIs
<1> QED
  BY <1>2, <1>11

LEMMA StoredPass ==
  ASSUME NEW r \in Runs, stored[r].results \in Seq(ResultRows), Wins(stored[r].results, stored[r].winner)
  PROVE  AuditWinner(StoredRecord(r)) = <<>>
<1>1. PICK results \in Seq(ResultRows) : results = stored[r].results
  OBVIOUS
<1>2. PICK w : w = stored[r].winner
  OBVIOUS
<1>3. Wins(results, w)
  BY <1>1, <1>2
<1>4. PICK n \in Nat : n = Len(results) /\ DOMAIN results = 1 .. n
  BY SeqShape
<1>5. \A i \in 1 .. n : results[i] \in ResultRows
  BY <1>4, SeqMember
<1>6. PICK rec : rec = StoredRecord(r)
  OBVIOUS
<1>7. PICK rows : rows = [i \in DOMAIN results |-> [scaffold |-> results[i].scaffold, result |-> StoredResult(results[i])]]
  BY Zenon
<1>8. rec.results = rows /\ rec.winner = IF w = "none" THEN NoAudit ELSE w
  BY <1>1, <1>2, <1>6, <1>7 DEF StoredRecord
<1>9. DOMAIN rows = 1 .. n /\ \A i \in 1 .. n : rows[i].scaffold = results[i].scaffold
                                              /\ rows[i].result = StoredResult(results[i])
  BY <1>4, <1>7
<1>10. \A i \in 1 .. n : ResultScore(rows[i].result) = IF results[i].score = Failure THEN NoAudit ELSE results[i].score
  BY <1>5, <1>9, StoredScores
<1>11. \A i \in 1 .. n : results[i].score # Failure => results[i].score # NoAudit
  BY <1>5, StoredAssumption DEF ResultRows
<1>12. PICK scored : scored = {i \in DOMAIN rows : ResultScore(rows[i].result) # NoAudit}
  BY Zenon
<1>13. scored = {i \in 1 .. n : results[i].score # Failure}
  BY <1>9, <1>10, <1>11, <1>12
<1>14. PICK won : won = {i \in DOMAIN rows : rows[i].scaffold = rec.winner}
  BY Zenon
<1>15. \A i \in 1 .. n : results[i].scaffold # "none" /\ results[i].scaffold # NoAudit
  BY <1>5, LegacyAssumption, StoredAssumption DEF ResultRows, Scaffolds
<1>16. CASE w = "none"
  <2>1. \A i \in 1 .. n : results[i].score = Failure
    BY <1>3, <1>4, <1>15, <1>16, Zenon DEF Wins
  <2>2. scored = {} /\ rec.winner = NoAudit /\ won = {}
    BY <1>8, <1>9, <1>13, <1>14, <1>15, <1>16, <2>1
  <2> QED
    BY <1>6, <1>8, <1>12, <1>14, <2>2 DEF AuditWinner
<1>17. CASE w # "none"
  <2>1. PICK i \in 1 .. n : w = results[i].scaffold /\ (results[i].score # Failure => FirstBest(results, i))
    BY <1>3, <1>4, <1>17 DEF Wins
  <2>2. rec.winner # NoAudit /\ i \in won
    BY <1>8, <1>9, <1>14, <1>15, <1>17, <2>1
  <2>3. CASE ~ (won \subseteq scored)
    BY <1>6, <1>8, <1>12, <1>14, <2>2, <2>3 DEF AuditWinner
  <2>4. CASE won \subseteq scored
    <3>1. i \in scored /\ FirstBest(results, i)
      BY <1>13, <2>1, <2>2, <2>4
    <3>2. \A j \in scored : ResultScore(rows[j].result) = results[j].score /\ results[j].score \in Nat /\ j \in Nat
      BY <1>5, <1>10, <1>13, LegacyAssumption DEF ResultRows
    <3>3. PICK best : best = BestScored(rows, scored)
      OBVIOUS
    <3>4. \A j \in scored : /\ results[j].score <= results[i].score
                            /\ j < i => results[j].score < results[i].score
      BY <1>4, <1>13, <3>1 DEF FirstBest
    <3>5. /\ best \in scored
          /\ \A j \in scored : /\ ResultScore(rows[j].result) <= ResultScore(rows[best].result)
                               /\ j < best => ResultScore(rows[j].result) < ResultScore(rows[best].result)
      <4>1. \A j \in scored : /\ ResultScore(rows[j].result) <= ResultScore(rows[i].result)
                              /\ j < i => ResultScore(rows[j].result) < ResultScore(rows[i].result)
        BY <3>1, <3>2, <3>4
      <4> QED
        BY <3>1, <3>3, <4>1, Zenon DEF BestScored
    <3>6. best = i
      <4>1. results[i].score <= results[best].score /\ (i < best => results[i].score < results[best].score)
        <5>1. /\ ResultScore(rows[i].result) <= ResultScore(rows[best].result)
              /\ i < best => ResultScore(rows[i].result) < ResultScore(rows[best].result)
          BY <3>1, <3>5, Zenon
        <5>2. ResultScore(rows[i].result) = results[i].score /\ ResultScore(rows[best].result) = results[best].score
          BY <3>1, <3>2, <3>5, Zenon
        <5> QED
          BY <5>1, <5>2
      <4>2. results[best].score <= results[i].score /\ (best < i => results[best].score < results[i].score)
        BY <3>4, <3>5
      <4>3. PICK a \in Nat, b \in Nat : a = results[i].score /\ b = results[best].score
        BY <3>1, <3>2, <3>5, Zenon
      <4>4. i \in Nat /\ best \in Nat
        BY <3>1, <3>2, <3>5, Zenon
      <4> QED
        BY <4>1, <4>2, <4>3, <4>4
    <3>7. AuditWinner(rec) = Located(rec, rec.winner, <<>>)
      <4>1. best \in won
        BY <2>2, <3>6
      <4> QED
        BY <1>8, <1>12, <1>14, <2>2, <2>4, <3>3, <4>1 DEF AuditWinner, When
    <3>8. Located(rec, rec.winner, <<>>) = <<>>
      BY DEF Located
    <3> QED
      BY <1>6, <3>7, <3>8
  <2> QED
    BY <2>3, <2>4
<1> QED
  BY <1>16, <1>17

LEMMA StoredAreSound == StoredInv => StoredWinnersPass
<1> SUFFICES ASSUME StoredInv, NEW r \in Runs, stored[r] # NoRun PROVE AuditWinner(StoredRecord(r)) = <<>>
  BY DEF StoredWinnersPass
<1>1. Wins(stored[r].results, stored[r].winner) /\ stored[r].results \in Seq(ResultRows)
  BY WinnersWin DEF StoredInv
<1> QED
  BY <1>1, StoredPass

\* Only in a workbench that audits is there anything to say of a report.
Audited == IF part = "audit" THEN AuditInv ELSE audit = NoAudit

LEMMA AuditedStep == Audited /\ [Next]_vars => Audited'
<1> SUFFICES ASSUME Audited, [Next]_vars PROVE Audited'
  OBVIOUS
<1>1. part' = part
  BY DEF Next, vars
<1>2. CASE part = "audit"
  <2>1. [AuditNext]_auditVars
    BY <1>2 DEF Next, vars
  <2>2. AuditInv'
    BY <1>2, <2>1, AuditStep DEF Audited
  <2> QED
    BY <1>1, <1>2, <2>2 DEF Audited
<1>3. CASE part # "audit"
  <2>1. audit' = audit
    BY <1>3 DEF Next, Rest, vars, auditVars
  <2> QED
    BY <1>1, <1>3, <2>1 DEF Audited
<1> QED
  BY <1>2, <1>3

\* Whatever the records of an audit raise, and although findings are merged per
\* record and again over all of them, the report shows each finding once, as
\* severe and with as much evidence as what it stands for, invents none, and its
\* counts add up (audit/trace_audit); and the audit never faults the winner of a run
\* the engine stored itself, however that run went (core/run_engine, core/comparison).
THEOREM AuditsAreSound == Spec => []AuditIsSound
<1>1. LegacyInit => LegacyInv /\ StoredInv
  BY LegacyStarts, StoredStarts
<1>2. LegacyInv /\ StoredInv /\ [LegacyNext]_legacyVars => LegacyInv' /\ StoredInv'
  BY LegacyStep, StoredStep
<1>3. StoredInv /\ Audited => AuditIsSound
  <2> SUFFICES ASSUME StoredInv, Audited PROVE AuditIsSound
    OBVIOUS
  <2>1. AuditIsComplete
    BY ReportIsComplete, Zenon DEF Audited, AuditIsComplete
  <2> QED
    BY <2>1, StoredAreSound DEF AuditIsSound
<1>4. LegacySpec => []StoredInv
  BY <1>1, <1>2, PTL DEF LegacySpec
<1>5. Init => Audited
  BY AuditStarts DEF Init, Audited
<1> QED
  BY <1>3, <1>4, <1>5, AuditedStep, LegacyPart, PTL DEF Spec

-----------------------------------------------------------------------------
(***************************************************************************)
(* Analysis.  Fractions are ordered by cross multiplication: a total       *)
(* preorder, so that finite sets of them have extremes.                    *)
(***************************************************************************)
\* A product grows with its factors.
LEMMA ProductGrows ==
  ASSUME NEW a \in Nat, NEW b \in Int, NEW c \in Int, b <= c
  PROVE  a * b <= a * c /\ a * b \in Int /\ a * c \in Int
<1>1. PICK d \in Nat : c = b + d
  <2>1. c - b \in Nat /\ c = b + (c - b)
    OBVIOUS
  <2> QED
    BY <2>1
<1>2. a * c = a * b + a * d /\ a * d \in Nat /\ a * b \in Int /\ a * c \in Int
  BY <1>1
<1> QED
  BY <1>2

\* And a positive factor may be taken out.
LEMMA ProductShrinks ==
  ASSUME NEW a \in Nat \ {0}, NEW b \in Int, NEW c \in Int, a * b <= a * c
  PROVE  b <= c
<1> SUFFICES ASSUME c + 1 <= b PROVE FALSE
  OBVIOUS
<1>1. a * (c + 1) <= a * b /\ a * b \in Int /\ a * (c + 1) \in Int
  BY ProductGrows
<1>2. a * (c + 1) = a * c + a /\ a * c \in Int
  OBVIOUS
<1> QED
  BY <1>1, <1>2

LEMMA LeqIsTotal ==
  ASSUME NEW x, NEW y, Fraction(x), Fraction(y)
  PROVE  (Leq(x, y) \/ Leq(y, x)) /\ Leq(x, x) /\ (Less(x, y) <=> ~Leq(y, x))
<1>1. PICK a \in Int, b \in Int : a = x[1] * y[2] /\ b = y[1] * x[2]
  BY DEF Fraction
<1>2. PICK c \in Int : c = x[1] * x[2]
  BY DEF Fraction
<1> QED
  BY <1>1, <1>2 DEF Leq, Less

LEMMA LeqTransitive ==
  ASSUME NEW x, NEW y, NEW z, Fraction(x), Fraction(y), Fraction(z), Leq(x, y), Leq(y, z)
  PROVE  Leq(x, z)
<1>1. PICK a \in Int, b \in Nat \ {0} : a = x[1] /\ b = x[2]
  BY DEF Fraction
<1>2. PICK c \in Int, d \in Nat \ {0} : c = y[1] /\ d = y[2]
  BY DEF Fraction
<1>3. PICK e \in Int, f \in Nat \ {0} : e = z[1] /\ f = z[2]
  BY DEF Fraction
<1>4. a * d <= c * b /\ c * f <= e * d
  BY <1>1, <1>2, <1>3 DEF Leq
<1>5. PICK u \in Int, v \in Int, w \in Int, q \in Int : u = a * d /\ v = c * b /\ w = c * f /\ q = e * d
  OBVIOUS
<1>6. f * u <= f * v /\ b * w <= b * q
  BY <1>4, <1>5, ProductGrows
<1>7. f * v = b * w
  BY <1>5
<1>8. f * u = d * (a * f) /\ b * q = d * (e * b) /\ f * u \in Int /\ f * v \in Int /\ b * q \in Int
  BY <1>5
<1>9. a * f \in Int /\ e * b \in Int /\ d * (a * f) <= d * (e * b)
  BY <1>6, <1>7, <1>8
<1>10. a * f <= e * b
  BY <1>9, ProductShrinks
<1> QED
  BY <1>1, <1>3, <1>10 DEF Leq

\* A finite total preorder has a first member: one with the most after it.
Preorder(D, R) ==
  /\ \A x, y \in D : <<x, y>> \in R \/ <<y, x>> \in R
  /\ \A x, y, z \in D : <<x, y>> \in R /\ <<y, z>> \in R => <<x, z>> \in R

LEMMA FirstExists ==
  ASSUME NEW D, IsFiniteSet(D), D # {}, NEW R, Preorder(D, R)
  PROVE  \E x \in D : \A y \in D : <<x, y>> \in R
<1> DEFINE After(x) == {y \in D : <<x, y>> \in R}
<1>1. PICK size : size = [x \in D |-> Cardinality(After(x))]
  BY Zenon
<1>2. \A x \in D : IsFiniteSet(After(x)) /\ size[x] = Cardinality(After(x)) /\ size[x] \in Nat
  <2>1. \A x \in D : After(x) \in SUBSET D
    OBVIOUS
  <2> HIDE DEF After
  <2> QED
    BY <1>1, <2>1, FS_Subset, FS_CardinalityType
<1> HIDE DEF After
<1>3. PICK S : S = {size[x] : x \in D}
  BY Zenon
<1>4. S \in SUBSET Int /\ S # {} /\ IsFiniteSet(S)
  <2>1. size \in Surjection(D, S)
    BY <1>1, <1>3 DEF Surjection
  <2>2. S \in SUBSET Int
    <3>1. \A x \in D : size[x] \in Int
      BY <1>2
    <3> QED
      BY <1>3, <3>1
  <2>3. PICK x \in D : TRUE
    OBVIOUS
  <2>4. size[x] \in S
    BY <1>3
  <2> QED
    BY <2>1, <2>2, <2>4, FS_Surjection
<1>5. PICK m \in S : \A k \in S : k <= m
  BY <1>4, GreatestNumber
<1>6. PICK x \in D : size[x] = m
  BY <1>3, <1>5
<1>7. ASSUME NEW y \in D, <<x, y>> \notin R PROVE FALSE
  <2>1. <<y, x>> \in R /\ <<y, y>> \in R
    BY <1>7 DEF Preorder
  <2>2. After(x) \in SUBSET After(y) /\ y \in After(y) /\ y \notin After(x)
    BY <1>7, <2>1 DEF Preorder, After
  <2>3. After(x) # After(y)
    BY <2>2
  <2>4. size[x] <= size[y] /\ size[x] # size[y]
    BY <1>2, <2>2, <2>3, FS_Subset
  <2>5. size[y] <= m
    BY <1>3, <1>5
  <2> QED
    BY <1>2, <1>6, <2>4, <2>5
<1> QED
  BY <1>7

Fractions(f, D) == \A x \in D : Fraction(f[x])

\* Of finitely many fractions one is the least, and one the greatest.
LEMMA ExtremesExist ==
  ASSUME NEW D, IsFiniteSet(D), D # {}, NEW f, Fractions(f, D)
  PROVE  /\ \E x \in D : \A y \in D : Leq(f[x], f[y])
         /\ \E x \in D : \A y \in D : Leq(f[y], f[x])
<1>1. PICK R : R = {q \in D \X D : Leq(f[q[1]], f[q[2]])}
  BY Zenon
<1>2. \A x, y \in D : <<x, y>> \in R <=> Leq(f[x], f[y])
  BY <1>1
<1>3. Preorder(D, R)
  <2>1. \A x, y \in D : Leq(f[x], f[y]) \/ Leq(f[y], f[x])
    BY LeqIsTotal DEF Fractions
  <2>2. \A x, y, z \in D : Leq(f[x], f[y]) /\ Leq(f[y], f[z]) => Leq(f[x], f[z])
    BY LeqTransitive DEF Fractions
  <2> QED
    BY <1>2, <2>1, <2>2 DEF Preorder
<1>4. \E x \in D : \A y \in D : Leq(f[x], f[y])
  BY <1>2, <1>3, FirstExists, Zenon
<1>5. PICK Q : Q = {q \in D \X D : Leq(f[q[2]], f[q[1]])}
  BY Zenon
<1>6. \A x, y \in D : <<x, y>> \in Q <=> Leq(f[y], f[x])
  BY <1>5
<1>7. Preorder(D, Q)
  <2>1. \A x, y \in D : Leq(f[x], f[y]) \/ Leq(f[y], f[x])
    BY LeqIsTotal DEF Fractions
  <2>2. \A x, y, z \in D : Leq(f[y], f[x]) /\ Leq(f[z], f[y]) => Leq(f[z], f[x])
    BY LeqTransitive DEF Fractions
  <2> QED
    BY <1>6, <2>1, <2>2 DEF Preorder
<1>8. \E x \in D : \A y \in D : Leq(f[y], f[x])
  BY <1>6, <1>7, FirstExists, Zenon
<1> QED
  BY <1>4, <1>8

\* A bound of the greatest bounds all; a bound of the least bounds one.
LEMMA ExtremesBound ==
  ASSUME NEW D, IsFiniteSet(D), D # {}, NEW f, Fractions(f, D), NEW z, Fraction(z)
  PROVE  /\ Leq(Greatest({f[x] : x \in D}), z) <=> \A x \in D : Leq(f[x], z)
         /\ Leq(Least({f[x] : x \in D}), z) <=> \E x \in D : Leq(f[x], z)
         /\ Fraction(Greatest({f[x] : x \in D})) /\ Fraction(Least({f[x] : x \in D}))
<1>1. PICK S : S = {f[x] : x \in D}
  BY Zenon
<1>2. \A u \in S : Fraction(u)
  BY <1>1 DEF Fractions
<1>3. (\E u \in S : \A v \in S : Leq(u, v)) /\ \E u \in S : \A v \in S : Leq(v, u)
  BY <1>1, ExtremesExist
<1>4. PICK g, l : g = Greatest(S) /\ l = Least(S)
  OBVIOUS
<1>5. g \in S /\ (\A v \in S : Leq(v, g)) /\ l \in S /\ \A v \in S : Leq(l, v)
  BY <1>3, <1>4, Zenon DEF Greatest, Least
<1>6. Leq(g, z) <=> \A u \in S : Leq(u, z)
  BY <1>2, <1>5, LeqTransitive
<1>7. Leq(l, z) <=> \E u \in S : Leq(u, z)
  BY <1>2, <1>5, LeqTransitive
<1>8. (\A u \in S : Leq(u, z)) <=> \A x \in D : Leq(f[x], z)
  BY <1>1
<1>9. (\E u \in S : Leq(u, z)) <=> \E x \in D : Leq(f[x], z)
  BY <1>1
<1> QED
  BY <1>1, <1>2, <1>4, <1>5, <1>6, <1>7, <1>8, <1>9

-----------------------------------------------------------------------------
\* The places of p-values: a bijection with 1 .. n that follows their order.
PValues(ps, D) ==
  /\ D = DOMAIN ps /\ D \in SUBSET Int /\ IsFiniteSet(D)
  /\ \A i \in D : Fraction(ps[i]) /\ ps[i][1] \in Nat

Places(ps, D, n) ==
  /\ n \in Nat /\ n = Cardinality(D)
  /\ \A i \in D : Place(ps, i) \in 1 .. n
  /\ \A i, j \in D : Place(ps, i) = Place(ps, j) => i = j
  /\ \A k \in 1 .. n : \E i \in D : Place(ps, i) = k
  /\ \A i, j \in D : Place(ps, i) <= Place(ps, j) => Leq(ps[i], ps[j])

LEMMA PlacesAre ==
  ASSUME NEW ps, NEW D, PValues(ps, D)
  PROVE  Places(ps, D, Cardinality(D))
<1> DEFINE before(j, i) == Less(ps[j], ps[i]) \/ (j < i /\ ~Less(ps[i], ps[j]))
<1>1. PICK L : L = {q \in D \X D : q[1] = q[2] \/ before(q[1], q[2])}
  BY Zenon
<1>2. \A i, j \in D : <<j, i>> \in L <=> j = i \/ before(j, i)
  BY <1>1
<1>3. \A i, j \in D : /\ Leq(ps[i], ps[j]) \/ Leq(ps[j], ps[i])
                      /\ Leq(ps[i], ps[i])
                      /\ before(j, i) <=> ~Leq(ps[i], ps[j]) \/ (j < i /\ Leq(ps[j], ps[i]))
  BY LeqIsTotal DEF PValues
<1>4. \A i, j, k \in D : Leq(ps[i], ps[j]) /\ Leq(ps[j], ps[k]) => Leq(ps[i], ps[k])
  BY LeqTransitive DEF PValues
<1>5. \A i \in D : i \in Int
  BY DEF PValues
<1> HIDE DEF before
<1>6. Linear(L, D)
  <2>1. L \in SUBSET (D \X D)
    BY <1>1
  <2>2. ASSUME NEW i \in D, NEW j \in D PROVE <<i, j>> \in L \/ <<j, i>> \in L
    BY <1>2, <1>3, <1>5
  <2>3. ASSUME NEW i \in D, NEW j \in D, <<i, j>> \in L, <<j, i>> \in L PROVE i = j
    BY <1>2, <1>3, <1>5, <2>3
  <2>4. ASSUME NEW i \in D, NEW j \in D, NEW k \in D, <<i, j>> \in L, <<j, k>> \in L PROVE <<i, k>> \in L
    <3>1. CASE i = j \/ j = k
      BY <2>4, <3>1
    <3>2. CASE i # j /\ j # k
      <4>1. before(i, j) /\ before(j, k)
        BY <1>2, <2>4, <3>2
      <4>2. Leq(ps[i], ps[j]) /\ Leq(ps[j], ps[k]) /\ Leq(ps[i], ps[k])
        BY <1>3, <1>4, <4>1
      <4>3. CASE ~Leq(ps[k], ps[i])
        BY <1>2, <1>3, <4>3
      <4>4. CASE Leq(ps[k], ps[i])
        <5>1. Leq(ps[j], ps[i]) /\ Leq(ps[k], ps[j])
          BY <1>4, <4>2, <4>4
        <5>2. i < j /\ j < k
          BY <1>3, <4>1, <5>1
        <5>3. i < k
          BY <1>5, <5>2
        <5> QED
          BY <1>2, <1>3, <4>2, <5>3
      <4> QED
        BY <4>3, <4>4
    <3> QED
      BY <3>1, <3>2
  <2> QED
    BY <2>1, <2>2, <2>3, <2>4 DEF Linear
<1>7. IsFiniteSet(D) /\ Cardinality(D) \in Nat
  BY FS_CardinalityType DEF PValues
<1>8. PICK n \in Nat : n = Cardinality(D)
  BY <1>7
<1>9. PICK p : p = [i \in D |-> Cardinality(UpTo(L, D, i))]
  BY Zenon
<1>10. Arranges(p, D, n, L)
  BY <1>6, <1>7, <1>8, <1>9, RanksArrange
<1>11. ASSUME NEW i \in D PROVE Place(ps, i) = p[i]
  <2>1. PICK A : A = {j \in D : before(j, i)}
    BY Zenon
  <2>2. UpTo(L, D, i) = A \cup {i}
    BY <1>2, <2>1 DEF UpTo
  <2>3. i \notin A
    BY <1>3, <1>5, <2>1
  <2>4. IsFiniteSet(A)
    <3>1. A \in SUBSET D
      BY <2>1
    <3> QED
      BY <1>7, <3>1, FS_Subset
  <2>5. Cardinality(A \cup {i}) = Cardinality(A) + 1
    BY <2>3, <2>4, FS_AddElement
  <2>6. Place(ps, i) = 1 + Cardinality(A)
    BY <2>1 DEF Place, before, PValues
  <2>7. Cardinality(A) \in Nat
    BY <2>4, FS_CardinalityType
  <2>8. p[i] = Cardinality(A \cup {i})
    BY <1>9, <2>2
  <2> QED
    BY <2>5, <2>6, <2>7, <2>8
<1>12. ASSUME NEW i \in D, NEW j \in D, Place(ps, i) <= Place(ps, j) PROVE Leq(ps[i], ps[j])
  <2>1. p[i] <= p[j] /\ p[i] \in 1 .. n /\ p[j] \in 1 .. n
    BY <1>10, <1>11, <1>12 DEF Arranges
  <2>2. p[i] < p[j] \/ p[i] = p[j]
    BY <2>1
  <2>3. <<i, j>> \in L
    BY <1>2, <1>10, <2>2 DEF Arranges
  <2> QED
    BY <1>2, <1>3, <2>3
<1>13. \A i \in D : Place(ps, i) \in 1 .. n
  BY <1>10, <1>11 DEF Arranges
<1>14. \A i, j \in D : Place(ps, i) = Place(ps, j) => i = j
  BY <1>10, <1>11 DEF Arranges
<1>15. \A k \in 1 .. n : \E i \in D : Place(ps, i) = k
  BY <1>10, <1>11 DEF Arranges
<1>16. Places(ps, D, n)
  BY <1>8, <1>12, <1>13, <1>14, <1>15 DEF Places
<1> QED
  BY <1>8, <1>16

\* As many have a place up to k as k says, and the rest a later one.
FirstPlaces(ps, D, k) == {i \in D : Place(ps, i) <= k}
LastPlaces(ps, D, k) == {i \in D : k <= Place(ps, i)}

LEMMA PlacesCount ==
  ASSUME NEW ps, NEW D, IsFiniteSet(D), NEW n \in Nat, Places(ps, D, n), NEW k \in 1 .. n
  PROVE  /\ IsFiniteSet(FirstPlaces(ps, D, k)) /\ Cardinality(FirstPlaces(ps, D, k)) = k
         /\ IsFiniteSet(LastPlaces(ps, D, k)) /\ Cardinality(LastPlaces(ps, D, k)) = n - k + 1
<1>1. PICK A, B : A = FirstPlaces(ps, D, k) /\ B = LastPlaces(ps, D, k)
  OBVIOUS
<1>2. A \in SUBSET D /\ B \in SUBSET D /\ IsFiniteSet(A) /\ IsFiniteSet(B)
  <2>1. A \in SUBSET D /\ B \in SUBSET D
    BY <1>1 DEF FirstPlaces, LastPlaces
  <2> QED
    BY <2>1, FS_Subset
<1>3. n \in Nat /\ k \in Nat /\ 1 <= k /\ k <= n
  BY DEF Places
<1>4. PICK p : p = [i \in D |-> Place(ps, i)]
  BY Zenon
<1>5. PICK a, b : a = [i \in A |-> p[i]] /\ b = [i \in B |-> p[i]]
  BY Zenon
<1>6. /\ \A i \in D : p[i] = Place(ps, i) /\ p[i] \in 1 .. n
      /\ \A i, j \in D : p[i] = p[j] => i = j
      /\ \A m \in 1 .. n : \E i \in D : p[i] = m
  BY <1>4 DEF Places
<1>7. \A i \in D : (i \in A <=> p[i] <= k) /\ (i \in B <=> k <= p[i])
  BY <1>1, <1>6 DEF FirstPlaces, LastPlaces
<1>8. a \in Bijection(A, 1 .. k)
  <2>1. a \in [A -> 1 .. k]
    BY <1>2, <1>3, <1>5, <1>6, <1>7
  <2>2. \A i, j \in A : a[i] = a[j] => i = j
    BY <1>2, <1>5, <1>6
  <2>3. ASSUME NEW m \in 1 .. k PROVE \E i \in A : a[i] = m
    <3>1. m \in 1 .. n /\ m <= k
      BY <1>3
    <3>2. PICK i \in D : p[i] = m
      BY <1>6, <3>1
    <3> QED
      BY <1>5, <1>7, <3>1, <3>2
  <2> QED
    BY <2>1, <2>2, <2>3 DEF Bijection, Injection, Surjection, IsInjective
<1>9. b \in Bijection(B, k .. n)
  <2>1. b \in [B -> k .. n]
    BY <1>2, <1>3, <1>5, <1>6, <1>7
  <2>2. \A i, j \in B : b[i] = b[j] => i = j
    BY <1>2, <1>5, <1>6
  <2>3. ASSUME NEW m \in k .. n PROVE \E i \in B : b[i] = m
    <3>1. m \in 1 .. n /\ k <= m
      BY <1>3
    <3>2. PICK i \in D : p[i] = m
      BY <1>6, <3>1
    <3> QED
      BY <1>5, <1>7, <3>1, <3>2
  <2>4. PICK T : T = k .. n
    OBVIOUS
  <2>5. b \in [B -> T] /\ \A m \in T : \E i \in B : b[i] = m
    BY <2>1, <2>3, <2>4
  <2>6. b \in Bijection(B, T)
    BY <2>2, <2>5 DEF Bijection, Injection, Surjection, IsInjective
  <2> QED
    BY <2>4, <2>6
<1>10. Cardinality(A) = Cardinality(1 .. k) /\ Cardinality(B) = Cardinality(k .. n)
  <2>1. PICK U, V : U = 1 .. k /\ V = k .. n
    OBVIOUS
  <2>2. a \in Bijection(A, U) /\ b \in Bijection(B, V)
    BY <1>8, <1>9, <2>1
  <2>3. Cardinality(A) = Cardinality(U)
    BY <1>2, <2>2, FS_Bijection DEF ExistsBijection
  <2>4. Cardinality(B) = Cardinality(V)
    BY <1>2, <2>2, FS_Bijection DEF ExistsBijection
  <2> QED
    BY <2>1, <2>3, <2>4
<1>11. Cardinality(1 .. k) = k
  BY <1>3, IntervalIs
<1>12. Cardinality(k .. n) = n - k + 1
  <2>1. PICK u \in Int, v \in Int : u = k /\ v = n
    BY <1>3
  <2>2. Cardinality(u .. v) = IF u > v THEN 0 ELSE v - u + 1
    BY FS_Interval
  <2> QED
    BY <1>3, <2>1, <2>2
<1> QED
  BY <1>1, <1>2, <1>10, <1>11, <1>12

-----------------------------------------------------------------------------
\* Corrections.  A p-value passes at the share k / n of the level.
Pass(p, k, n) == Leq(<<p[1] * n, p[2] * k>>, Alpha)

PValue(p) == p[1] \in Nat /\ p[2] \in Nat \ {0}

LEMMA Scaled ==
  ASSUME NEW p, PValue(p), NEW n \in Nat, NEW k \in Nat \ {0}
  PROVE  Fraction(p) /\ Fraction(<<p[1] * n, p[2] * k>>)
<1>1. PICK a \in Nat, b \in Nat \ {0} : a = p[1] /\ b = p[2]
  BY DEF PValue
<1>2. a * n \in Int /\ b * k \in Nat /\ b * k # 0
  <2>1. b * 1 <= b * k /\ b * k \in Int
    BY ProductGrows
  <2> QED
    BY <2>1
<1> QED
  BY <1>1, <1>2 DEF Fraction

LEMMA AlphaIs == Fraction(Alpha) /\ Fraction(One) /\ ~Leq(One, Alpha)
<1>1. PICK a \in Nat, b \in Nat \ {0} : a = Alpha[1] /\ b = Alpha[2] /\ a < b
  BY AnalysisAssumption DEF Fraction
<1> QED
  BY <1>1, AnalysisAssumption DEF Fraction, One, Leq

\* A smaller family and a larger share are easier to pass.
LEMMA PassMono ==
  ASSUME NEW p, PValue(p), NEW n \in Nat, NEW m \in Nat, NEW k \in Nat \ {0}, NEW l \in Nat \ {0},
         m <= n, k <= l, Pass(p, k, n)
  PROVE  Pass(p, l, m)
<1>1. PICK a \in Nat, b \in Nat \ {0} : a = p[1] /\ b = p[2]
  BY DEF PValue
<1>2. k * m <= k * n /\ k * m \in Int /\ k * n \in Int
  BY ProductGrows
<1>3. n * k <= n * l /\ n * l \in Int
  BY ProductGrows
<1>4. PICK u \in Int, v \in Int : u = m * k /\ v = n * l
  OBVIOUS
<1>5. u <= v
  BY <1>2, <1>3, <1>4
<1>6. PICK c \in Nat : c = a * b
  OBVIOUS
<1>7. c * u <= c * v
  BY <1>5, ProductGrows
<1>8. c * u = (a * m) * (b * k) /\ c * v = (a * n) * (b * l)
  BY <1>4, <1>6
<1>9. Leq(<<a * m, b * l>>, <<a * n, b * k>>)
  BY <1>7, <1>8 DEF Leq
<1>10. Fraction(<<a * m, b * l>>) /\ Fraction(<<a * n, b * k>>)
  BY <1>1, Scaled
<1> QED
  BY <1>1, <1>9, <1>10, AlphaIs, LeqTransitive DEF Pass

\* And so is a smaller p-value.
LEMMA PassLeq ==
  ASSUME NEW p, PValue(p), NEW q, PValue(q), NEW n \in Nat, NEW k \in Nat \ {0}, Leq(p, q), Pass(q, k, n)
  PROVE  Pass(p, k, n)
<1>1. PICK a \in Nat, b \in Nat \ {0} : a = p[1] /\ b = p[2]
  BY DEF PValue
<1>2. PICK c \in Nat, d \in Nat \ {0} : c = q[1] /\ d = q[2]
  BY DEF PValue
<1>3. PICK u \in Int, v \in Int, w \in Nat : u = a * d /\ v = c * b /\ w = n * k
  OBVIOUS
<1>4. u <= v
  BY <1>1, <1>2, <1>3 DEF Leq
<1>5. w * u <= w * v
  BY <1>4, ProductGrows
<1>6. w * u = (a * n) * (d * k) /\ w * v = (c * n) * (b * k)
  BY <1>3
<1>7. Leq(<<a * n, b * k>>, <<c * n, d * k>>)
  BY <1>5, <1>6 DEF Leq
<1>8. Fraction(<<a * n, b * k>>) /\ Fraction(<<c * n, d * k>>)
  BY <1>1, <1>2, Scaled
<1> QED
  BY <1>1, <1>2, <1>7, <1>8, AlphaIs, LeqTransitive DEF Pass

\* The extremes of a finite set of fractions.
LEMMA SetExtremes ==
  ASSUME NEW S, IsFiniteSet(S), S # {}, \A x \in S : Fraction(x)
  PROVE  /\ Leq(Greatest(S), Alpha) <=> \A x \in S : Leq(x, Alpha)
         /\ Leq(Least(S), Alpha) <=> \E x \in S : Leq(x, Alpha)
         /\ Fraction(Greatest(S)) /\ Fraction(Least(S))
<1>1. PICK f : f = [x \in S |-> x]
  BY Zenon
<1>2. {f[x] : x \in S} = S /\ \A x \in S : f[x] = x
  BY <1>1
<1>3. Fractions(f, S)
  BY <1>2 DEF Fractions
<1>4. PICK T : T = {f[x] : x \in S}
  BY Zenon
<1>5. /\ Leq(Greatest(T), Alpha) <=> \A x \in S : Leq(f[x], Alpha)
      /\ Leq(Least(T), Alpha) <=> \E x \in S : Leq(f[x], Alpha)
      /\ Fraction(Greatest(T)) /\ Fraction(Least(T))
  BY <1>3, <1>4, AlphaIs, ExtremesBound
<1> QED
  BY <1>2, <1>4, <1>5

LEMMA ImageFinite ==
  ASSUME NEW D, IsFiniteSet(D), NEW f
  PROVE  IsFiniteSet({f[x] : x \in D})
<1>1. PICK g, T : g = [x \in D |-> f[x]] /\ T = {f[x] : x \in D}
  BY Zenon
<1>2. g \in Surjection(D, T)
  BY <1>1 DEF Surjection
<1> QED
  BY <1>1, <1>2, FS_Surjection

LEMMA CappedIs ==
  ASSUME NEW x, Fraction(x)
  PROVE  Fraction(Least({One, x})) /\ (Leq(Least({One, x}), Alpha) <=> Leq(x, Alpha))
<1>1. PICK S : S = {One, x}
  BY Zenon
<1>2. IsFiniteSet(S)
  <2>1. IsFiniteSet({x})
    BY FS_Singleton
  <2>2. IsFiniteSet({x} \cup {One})
    BY <2>1, FS_AddElement
  <2>3. S = {x} \cup {One}
    BY <1>1
  <2> QED
    BY <2>2, <2>3
<1>3. S # {} /\ \A y \in S : Fraction(y)
  BY <1>1, AlphaIs
<1>4. (Leq(Least(S), Alpha) <=> \E y \in S : Leq(y, Alpha)) /\ Fraction(Least(S))
  BY <1>2, <1>3, SetExtremes
<1> QED
  BY <1>1, <1>4, AlphaIs

-----------------------------------------------------------------------------
\* What each correction rejects, by the places of the p-values.
HolmRejects(ps, D, i) ==
  \A j \in D : Place(ps, j) <= Place(ps, i) => Pass(ps[j], 1, Cardinality(D) - Place(ps, j) + 1)

BHRejects(ps, D, i) ==
  \E j \in D : Place(ps, j) >= Place(ps, i) /\ Pass(ps[j], Place(ps, j), Cardinality(D))

LEMMA HolmIs ==
  ASSUME NEW ps, NEW D, PValues(ps, D), NEW i \in D
  PROVE  Leq(Holm(ps)[i], Alpha) <=> HolmRejects(ps, D, i)
<1>1. PICK n : n = Cardinality(D)
  OBVIOUS
<1>2. Places(ps, D, n) /\ D = DOMAIN ps /\ IsFiniteSet(D) /\ n \in Nat
  BY <1>1, PlacesAre DEF PValues, Places
<1>3. PICK h : h = [j \in D |-> <<ps[j][1] * (n - Place(ps, j) + 1), ps[j][2]>>]
  BY Zenon
<1>4. ASSUME NEW j \in D
      PROVE  Fraction(h[j]) /\ (Leq(h[j], Alpha) <=> Pass(ps[j], 1, n - Place(ps, j) + 1))
  <2>1. PICK m : m = n - Place(ps, j) + 1
    OBVIOUS
  <2>2. m \in Nat
    BY <1>2, <2>1 DEF Places
  <2>3. PValue(ps[j]) /\ ps[j][2] * 1 = ps[j][2]
    BY DEF PValues, PValue, Fraction
  <2>4. h[j] = <<ps[j][1] * m, ps[j][2] * 1>>
    BY <1>3, <2>1, <2>3
  <2>5. Fraction(<<ps[j][1] * m, ps[j][2] * 1>>)
    BY <2>2, <2>3, Scaled
  <2> QED
    BY <2>1, <2>4, <2>5 DEF Pass
<1>5. PICK l : l = [j \in D |-> Least({One, h[j]})]
  BY Zenon
<1>6. \A j \in D : Fraction(l[j]) /\ (Leq(l[j], Alpha) <=> Pass(ps[j], 1, n - Place(ps, j) + 1))
  BY <1>4, <1>5, CappedIs
<1>7. PICK E : E = {j \in D : Place(ps, j) <= Place(ps, i)}
  BY Zenon
<1>8. E \in SUBSET D /\ i \in E /\ IsFiniteSet(E)
  <2>1. Place(ps, i) \in Int
    BY <1>2 DEF Places
  <2>2. E \in SUBSET D /\ i \in E
    BY <1>7, <2>1
  <2> QED
    BY <1>2, <2>2, FS_Subset
<1>9. PICK T : T = {l[j] : j \in E}
  BY Zenon
<1>10. Holm(ps)[i] = Greatest(T)
  <2>1. \A j \in D : l[j] = Least({One, <<ps[j][1] * (n - Place(ps, j) + 1), ps[j][2]>>})
    BY <1>3, <1>5
  <2>2. PICK U : U = {Least({One, <<ps[j][1] * (n - Place(ps, j) + 1), ps[j][2]>>}) : j \in E}
    BY Zenon
  <2>3. T = U
    BY <1>8, <1>9, <2>1, <2>2, ZenonT(40)
  <2>4. Holm(ps)[i] = Greatest(U)
    BY <1>1, <1>2, <1>7, <2>2 DEF Holm
  <2> QED
    BY <2>3, <2>4
<1>11. IsFiniteSet(T) /\ T # {} /\ \A x \in T : Fraction(x)
  <2>1. IsFiniteSet(T)
    BY <1>8, <1>9, ImageFinite
  <2> QED
    BY <1>6, <1>8, <1>9, <2>1
<1>12. Leq(Greatest(T), Alpha) <=> \A x \in T : Leq(x, Alpha)
  BY <1>11, SetExtremes
<1>13. (\A x \in T : Leq(x, Alpha)) <=> \A j \in E : Leq(l[j], Alpha)
  BY <1>9
<1>14. (\A j \in E : Leq(l[j], Alpha)) <=> \A j \in D : Place(ps, j) <= Place(ps, i) => Leq(l[j], Alpha)
  BY <1>7
<1> QED
  BY <1>1, <1>6, <1>10, <1>12, <1>13, <1>14 DEF HolmRejects

LEMMA BHIs ==
  ASSUME NEW ps, NEW D, PValues(ps, D), NEW i \in D
  PROVE  Leq(BenjaminiHochberg(ps)[i], Alpha) <=> BHRejects(ps, D, i)
<1>1. PICK n : n = Cardinality(D)
  OBVIOUS
<1>2. Places(ps, D, n) /\ D = DOMAIN ps /\ IsFiniteSet(D) /\ n \in Nat
  BY <1>1, PlacesAre DEF PValues, Places
<1>3. PICK h : h = [j \in D |-> <<ps[j][1] * n, ps[j][2] * Place(ps, j)>>]
  BY Zenon
<1>4. ASSUME NEW j \in D
      PROVE  Fraction(h[j]) /\ (Leq(h[j], Alpha) <=> Pass(ps[j], Place(ps, j), n))
  <2>1. PICK m : m = Place(ps, j)
    OBVIOUS
  <2>2. m \in Nat \ {0}
    BY <1>2, <2>1 DEF Places
  <2>3. PValue(ps[j])
    BY DEF PValues, PValue, Fraction
  <2>4. h[j] = <<ps[j][1] * n, ps[j][2] * m>>
    BY <1>3, <2>1
  <2>5. Fraction(<<ps[j][1] * n, ps[j][2] * m>>)
    BY <1>2, <2>2, <2>3, Scaled
  <2> QED
    BY <2>1, <2>4, <2>5 DEF Pass
<1>7. PICK E : E = {j \in D : Place(ps, j) >= Place(ps, i)}
  BY Zenon
<1>8. E \in SUBSET D /\ i \in E /\ IsFiniteSet(E)
  <2>1. Place(ps, i) \in Int
    BY <1>2 DEF Places
  <2>2. E \in SUBSET D /\ i \in E
    BY <1>7, <2>1
  <2> QED
    BY <1>2, <2>2, FS_Subset
<1>9. PICK T : T = {One} \union {h[j] : j \in E}
  BY Zenon
<1>10. BenjaminiHochberg(ps)[i] = Least(T)
  <2>1. \A j \in D : h[j] = <<ps[j][1] * n, ps[j][2] * Place(ps, j)>>
    BY <1>3
  <2>2. PICK U : U = {<<ps[j][1] * n, ps[j][2] * Place(ps, j)>> : j \in E}
    BY Zenon
  <2>3. {h[j] : j \in E} = U
    BY <1>8, <2>1, <2>2, Zenon
  <2>4. BenjaminiHochberg(ps)[i] = Least({One} \union U)
    BY <1>1, <1>2, <1>7, <2>2 DEF BenjaminiHochberg
  <2> QED
    BY <1>9, <2>3, <2>4
<1>11. IsFiniteSet(T) /\ T # {} /\ \A x \in T : Fraction(x)
  <2>1. PICK U : U = {h[j] : j \in E}
    BY Zenon
  <2>2. IsFiniteSet(U)
    BY <1>8, <2>1, ImageFinite
  <2>3. IsFiniteSet(U \cup {One})
    BY <2>2, FS_AddElement
  <2>4. T = U \cup {One}
    BY <1>9, <2>1
  <2>5. \A x \in U : Fraction(x)
    BY <1>4, <1>8, <2>1
  <2> QED
    BY <2>3, <2>4, <2>5, AlphaIs
<1>12. Leq(Least(T), Alpha) <=> \E x \in T : Leq(x, Alpha)
  BY <1>11, SetExtremes
<1>13. (\E x \in T : Leq(x, Alpha)) <=> \E j \in E : Leq(h[j], Alpha)
  BY <1>9, AlphaIs
<1>14. (\E j \in E : Leq(h[j], Alpha)) <=> \E j \in D : Place(ps, j) >= Place(ps, i) /\ Leq(h[j], Alpha)
  BY <1>7
<1> QED
  BY <1>1, <1>4, <1>10, <1>12, <1>13, <1>14 DEF BHRejects

-----------------------------------------------------------------------------
\* The definitions by subfamilies: closed testing, and the largest set below its share.
ClosedTest(raw, D, i) ==
  \A S \in SUBSET D : i \in S => \E j \in S : Pass(raw[j], 1, Cardinality(S))

ShareTest(raw, D, i) ==
  \E S \in SUBSET D : i \in S /\ \A j \in S : Pass(raw[j], Cardinality(S), Cardinality(D))

LEMMA FirstOf ==
  ASSUME NEW ps, NEW D, NEW n, Places(ps, D, n), NEW S \in SUBSET D, IsFiniteSet(S), S # {}
  PROVE  /\ \E j \in S : \A l \in S : Place(ps, j) <= Place(ps, l)
         /\ \E j \in S : \A l \in S : Place(ps, l) <= Place(ps, j)
<1>1. PICK p, T : p = [j \in S |-> Place(ps, j)] /\ T = {p[j] : j \in S}
  BY Zenon
<1>2. \A j \in S : p[j] = Place(ps, j) /\ p[j] \in Nat
  BY <1>1 DEF Places
<1>3. T \in SUBSET Nat /\ T \in SUBSET Int /\ T # {} /\ IsFiniteSet(T)
  <2>1. IsFiniteSet(T)
    BY <1>1, ImageFinite
  <2> QED
    BY <1>1, <1>2, <2>1
<1>4. PICK m \in T : \A k \in T : m <= k
  BY <1>3, LeastNumber
<1>5. PICK g \in T : \A k \in T : k <= g
  BY <1>3, GreatestNumber
<1> QED
  BY <1>1, <1>2, <1>4, <1>5

LEMMA HolmIsClosed ==
  ASSUME NEW ps, NEW D, PValues(ps, D), NEW i \in D
  PROVE  HolmRejects(ps, D, i) <=> ClosedTest(ps, D, i)
<1>1. PICK n : n = Cardinality(D)
  OBVIOUS
<1>2. Places(ps, D, n) /\ IsFiniteSet(D) /\ n \in Nat /\ \A j \in D : PValue(ps[j]) /\ Place(ps, j) \in 1 .. n
  BY <1>1, PlacesAre DEF PValues, Places, PValue, Fraction
<1>3. ASSUME HolmRejects(ps, D, i), NEW S \in SUBSET D, i \in S
      PROVE  \E j \in S : Pass(ps[j], 1, Cardinality(S))
  <2>1. IsFiniteSet(S) /\ Cardinality(S) \in Nat
    BY <1>2, FS_Subset, FS_CardinalityType
  <2>2. PICK j \in S : \A l \in S : Place(ps, j) <= Place(ps, l)
    BY <1>2, <1>3, <2>1, FirstOf
  <2>3. PICK k \in 1 .. n : k = Place(ps, j)
    BY <1>2
  <2>4. S \in SUBSET LastPlaces(ps, D, k)
    BY <2>2, <2>3 DEF LastPlaces
  <2>5. IsFiniteSet(LastPlaces(ps, D, k)) /\ Cardinality(LastPlaces(ps, D, k)) = n - k + 1
    BY <1>2, PlacesCount, ZenonT(40)
  <2>6. Cardinality(S) <= n - k + 1
    BY <2>4, <2>5, FS_Subset
  <2>7. Pass(ps[j], 1, n - k + 1)
    BY <1>1, <1>3, <2>2, <2>3 DEF HolmRejects
  <2>8. PICK m \in Nat : m = n - k + 1
    BY <1>2
  <2>9. PValue(ps[j]) /\ Cardinality(S) <= m /\ Pass(ps[j], 1, m) /\ 1 \in Nat \ {0} /\ 1 <= 1
    BY <1>2, <2>6, <2>7, <2>8
  <2>10. Pass(ps[j], 1, Cardinality(S))
    BY <2>1, <2>8, <2>9, PassMono
  <2> QED
    BY <2>10
<1>4. ASSUME ClosedTest(ps, D, i), NEW j \in D, Place(ps, j) <= Place(ps, i)
      PROVE  Pass(ps[j], 1, n - Place(ps, j) + 1)
  <2>1. PICK k \in 1 .. n : k = Place(ps, j)
    BY <1>2
  <2>2. PICK S : S = LastPlaces(ps, D, k)
    OBVIOUS
  <2>3. S \in SUBSET D /\ i \in S /\ Cardinality(S) = n - k + 1
    <3>1. Cardinality(S) = n - k + 1
      BY <1>2, <2>2, PlacesCount, ZenonT(40)
    <3> QED
      BY <1>4, <2>1, <2>2, <3>1 DEF LastPlaces
  <2>4. PICK l \in S : Pass(ps[l], 1, Cardinality(S))
    BY <1>4, <2>3 DEF ClosedTest
  <2>5. l \in D /\ Place(ps, j) <= Place(ps, l)
    BY <2>1, <2>2, <2>3 DEF LastPlaces
  <2>6. Leq(ps[j], ps[l]) /\ PValue(ps[j]) /\ PValue(ps[l])
    BY <1>2, <2>5 DEF Places
  <2>7. PICK m \in Nat : m = n - k + 1
    BY <1>2
  <2>8. Pass(ps[l], 1, m) /\ 1 \in Nat \ {0}
    BY <2>3, <2>4, <2>7
  <2>9. Pass(ps[j], 1, m)
    BY <2>6, <2>8, PassLeq
  <2> QED
    BY <2>1, <2>7, <2>9
<1> QED
  BY <1>1, <1>3, <1>4 DEF HolmRejects, ClosedTest

LEMMA BHIsShare ==
  ASSUME NEW ps, NEW D, PValues(ps, D), NEW i \in D
  PROVE  BHRejects(ps, D, i) <=> ShareTest(ps, D, i)
<1>1. PICK n : n = Cardinality(D)
  OBVIOUS
<1>2. Places(ps, D, n) /\ IsFiniteSet(D) /\ n \in Nat /\ \A j \in D : PValue(ps[j]) /\ Place(ps, j) \in 1 .. n
  BY <1>1, PlacesAre DEF PValues, Places, PValue, Fraction
<1>3. ASSUME BHRejects(ps, D, i)
      PROVE  ShareTest(ps, D, i)
  <2>1. PICK j \in D : Place(ps, j) >= Place(ps, i) /\ Pass(ps[j], Place(ps, j), n)
    BY <1>1, <1>3 DEF BHRejects
  <2>2. PICK k \in 1 .. n : k = Place(ps, j)
    BY <1>2
  <2>3. PICK S : S = FirstPlaces(ps, D, k)
    OBVIOUS
  <2>4. S \in SUBSET D /\ i \in S /\ Cardinality(S) = k
    <3>1. Place(ps, i) <= k
      BY <1>2, <2>1, <2>2
    <3>2. Cardinality(S) = k
      BY <1>2, <2>3, PlacesCount
    <3> QED
      BY <2>3, <3>1, <3>2 DEF FirstPlaces
  <2>5. ASSUME NEW l \in S PROVE Pass(ps[l], k, n)
    <3>1. l \in D /\ Place(ps, l) <= Place(ps, j)
      BY <2>2, <2>3 DEF FirstPlaces
    <3>2. Leq(ps[l], ps[j]) /\ PValue(ps[j]) /\ PValue(ps[l]) /\ k \in Nat \ {0} /\ Pass(ps[j], k, n)
      BY <1>2, <2>1, <2>2, <3>1 DEF Places
    <3> QED
      BY <1>2, <3>2, PassLeq
  <2> QED
    BY <1>1, <2>4, <2>5 DEF ShareTest
<1>4. ASSUME ShareTest(ps, D, i)
      PROVE  BHRejects(ps, D, i)
  <2>1. PICK S \in SUBSET D : i \in S /\ \A j \in S : Pass(ps[j], Cardinality(S), n)
    BY <1>1, <1>4 DEF ShareTest
  <2>2. IsFiniteSet(S) /\ Cardinality(S) \in Nat /\ Cardinality(S) # 0
    BY <1>2, <2>1, FS_Subset, FS_CardinalityType, FS_EmptySet
  <2>3. PICK j \in S : \A l \in S : Place(ps, l) <= Place(ps, j)
    BY <1>2, <2>1, <2>2, FirstOf
  <2>4. PICK k \in 1 .. n : k = Place(ps, j)
    BY <1>2
  <2>5. S \in SUBSET FirstPlaces(ps, D, k)
    BY <2>3, <2>4 DEF FirstPlaces
  <2>6. IsFiniteSet(FirstPlaces(ps, D, k)) /\ Cardinality(FirstPlaces(ps, D, k)) = k
    BY <1>2, PlacesCount
  <2>7. Cardinality(S) <= k
    BY <2>5, <2>6, FS_Subset
  <2>8. PValue(ps[j]) /\ k \in Nat \ {0} /\ Cardinality(S) \in Nat \ {0} /\ n <= n /\ Pass(ps[j], Cardinality(S), n)
    BY <1>2, <2>1, <2>2
  <2>9. Pass(ps[j], k, n)
    BY <1>2, <2>7, <2>8, PassMono
  <2>10. Place(ps, j) >= Place(ps, i)
    BY <1>2, <2>1, <2>3
  <2> QED
    BY <1>1, <2>4, <2>9, <2>10 DEF BHRejects
<1> QED
  BY <1>3, <1>4

-----------------------------------------------------------------------------
\* Effects.  A sign-flip test of finitely many pairs has a p-value.
LEMMA SignsFinite ==
  ASSUME NEW C, IsFiniteSet(C)
  PROVE  IsFiniteSet([C -> {-1, 1}]) /\ [C -> {-1, 1}] # {}
<1>1. PICK G : G = [C -> {-1, 1}]
  BY Zenon
<1>2. PICK m : m = [f \in G |-> {c \in C : f[c] = 1}]
  BY Zenon
<1>3. m \in [G -> SUBSET C]
  BY <1>2
<1>4. ASSUME NEW f \in G, NEW g \in G, m[f] = m[g] PROVE f = g
  <2>1. \A c \in C : c \in m[f] <=> f[c] = 1
    BY <1>2
  <2>2. \A c \in C : c \in m[g] <=> g[c] = 1
    BY <1>2
  <2>3. \A c \in C : (f[c] = 1 \/ f[c] = -1) /\ (g[c] = 1 \/ g[c] = -1)
    BY <1>1
  <2>4. \A c \in C : f[c] = g[c]
    BY <1>4, <2>1, <2>2, <2>3
  <2> QED
    BY <1>1, <2>4
<1>5. m \in Injection(G, SUBSET C)
  BY <1>3, <1>4 DEF Injection, IsInjective
<1>6. IsFiniteSet(SUBSET C)
  BY FS_SUBSET
<1>7. IsFiniteSet(G)
  BY <1>5, <1>6, FS_Injection
<1>8. [c \in C |-> 1] \in G
  BY <1>1
<1> QED
  BY <1>1, <1>7, <1>8, Zenon

LEMMA SignFlipIs ==
  ASSUME NEW value, NEW cluster, IsFiniteSet(DOMAIN cluster)
  PROVE  PValue(SignFlip(value, cluster))
<1> DEFINE clusters == Range(cluster)
           sums == [c \in clusters |-> Summed([p \in {q \in DOMAIN value : cluster[q] = c} |-> value[p]])]
           signs == [clusters -> {-1, 1}]
           flipped(sign) == Magnitude(Summed([c \in clusters |-> sign[c] * sums[c]]))
           extreme == {sign \in signs : flipped(sign) >= Magnitude(Summed(sums))}
<1>1. SignFlip(value, cluster) = <<Cardinality(extreme), Cardinality(signs)>>
  BY DEF SignFlip
<1>2. IsFiniteSet(clusters)
  <2>1. clusters = {cluster[x] : x \in DOMAIN cluster}
    BY DEF Range
  <2> QED
    BY <2>1, ImageFinite
<1>3. extreme \in SUBSET signs
  <2> HIDE DEF flipped
  <2> QED
    OBVIOUS
<1>4. IsFiniteSet(signs) /\ signs # {}
  <2> HIDE DEF clusters
  <2> QED
    BY <1>2, SignsFinite
<1>5. PICK E, G : E = extreme /\ G = signs
  BY Zenon
<1> HIDE DEF extreme, signs
<1>6. IsFiniteSet(G) /\ G # {} /\ E \in SUBSET G
  BY <1>3, <1>4, <1>5
<1>7. Cardinality(E) \in Nat /\ Cardinality(G) \in Nat \ {0}
  BY <1>6, FS_Subset, FS_CardinalityType, FS_EmptySet
<1>8. SignFlip(value, cluster) = <<Cardinality(E), Cardinality(G)>>
  BY <1>1, <1>5
<1> QED
  BY <1>7, <1>8 DEF PValue

\* Buckets of a finite set, by what their members share.
LEMMA BucketsFinite ==
  ASSUME NEW records, IsFiniteSet(records), NEW factors, NEW needed
  PROVE  LET B == PairRecords(records, factors, needed).buckets
         IN  IsFiniteSet(B) /\ \A b \in B : b \in SUBSET records
<1> DEFINE cell(r) == Restricted(r.factors, factors)
           ok(r) == r.pair # NoValue /\ factors \subseteq DOMAIN r.factors /\ cell(r) \in needed
           eligible == {r \in records : ok(r)}
           key(r) == <<r.pair, r.task, r.cluster, r.scaffold, r.variant,
                       Restricted(r.factors, DOMAIN r.factors \ factors)>>
           bucket(x) == {r \in eligible : key(r) = key(x)}
<1>1. PairRecords(records, factors, needed).buckets = {bucket(x) : x \in eligible}
  BY DEF PairRecords
<1> HIDE DEF ok, key
<1>2. PICK E : E = eligible
  BY Zenon
<1>3. E \in SUBSET records /\ IsFiniteSet(E)
  <2>1. E \in SUBSET records
    BY <1>2
  <2> QED
    BY <2>1, FS_Subset
<1>4. PICK f : f = [x \in E |-> bucket(x)]
  BY Zenon
<1>5. \A x \in E : f[x] \in SUBSET records
  BY <1>2, <1>4
<1>6. {bucket(x) : x \in eligible} = {f[x] : x \in E}
  <2> HIDE DEF bucket, eligible
  <2> QED
    BY <1>2, <1>4
<1>7. PICK B : B = {f[x] : x \in E}
  BY Zenon
<1>8. IsFiniteSet(B) /\ \A b \in B : b \in SUBSET records
  BY <1>3, <1>5, <1>7, ImageFinite
<1> QED
  BY <1>1, <1>6, <1>7, <1>8, Zenon

IsEffect(e) ==
  e = [id |-> e.id, status |-> e.status, pairs |-> e.pairs, clusters |-> e.clusters,
       estimate |-> e.estimate, raw |-> e.raw, adjusted |-> e.adjusted, rejected |-> e.rejected]

\* What is estimated has a p-value.
Tested(e) == IsEffect(e) /\ (e.status = "ESTIMATED" => PValue(e.raw))

LEMMA EffectIs ==
  ASSUME NEW id, NEW st, NEW pairs, NEW clusters, NEW estimate, NEW raw
  PROVE  LET e == Effect(id, st, pairs, clusters, estimate, raw)
         IN  IsEffect(e) /\ e.status = st /\ e.pairs = pairs /\ e.estimate = estimate /\ e.raw = raw
BY DEF Effect, IsEffect

MainPairs(m, records) ==
  PairRecords(records, {m.factor}, {AtLevel(m.factor, m.control), AtLevel(m.factor, m.treatment)})

MainValues(m, records) ==
  [b \in MainPairs(m, records).buckets |-> Outcome(InCell(b, AtLevel(m.factor, m.treatment)), m.metric)
                                           - Outcome(InCell(b, AtLevel(m.factor, m.control)), m.metric)]

MainIs(e, m, records) ==
  /\ Tested(e) /\ e.status = "ESTIMATED" /\ MainPairs(m, records).sound
  /\ e.pairs = MainPairs(m, records).buckets
  /\ e.estimate = <<Summed(MainValues(m, records)), Cardinality(MainPairs(m, records).buckets)>>

LEMMA MainEffectIs ==
  ASSUME NEW m, NEW records, IsFiniteSet(records), NEW k
  PROVE  MainEffect(m, records, k) = Refused \/ MainIs(MainEffect(m, records, k), m, records)
<1>1. PICK B : B = MainPairs(m, records).buckets
  OBVIOUS
<1>2. IsFiniteSet(B)
  BY <1>1, BucketsFinite DEF MainPairs
<1>3. PICK cl : cl = [b \in B |-> BucketCluster(b)]
  BY Zenon
<1>4. PICK values : values = MainValues(m, records)
  OBVIOUS
<1>5. PICK raw : raw = SignFlip(values, cl)
  OBVIOUS
<1>6. PValue(raw)
  <2>1. DOMAIN cl = B
    BY <1>3
  <2> QED
    BY <1>2, <1>5, <2>1, SignFlipIs
<1>7. PICK c : c = Cardinality({BucketCluster(b) : b \in B})
  BY Zenon
<1>8. PICK est : est = <<Summed(values), Cardinality(B)>>
  BY Zenon
<1>9. PICK A : A = Effect(m.id, "ESTIMATED", B, c, est, raw)
  OBVIOUS
<1>10. MainEffect(m, records, k) = IF ~MainPairs(m, records).sound \/ c < k THEN Refused ELSE A
  BY <1>1, <1>3, <1>4, <1>5, <1>7, <1>8, <1>9, Zenon DEF MainEffect, MainPairs, MainValues
<1>11. IsEffect(A) /\ A.status = "ESTIMATED" /\ A.pairs = B /\ A.estimate = est /\ A.raw = raw
  BY <1>9, EffectIs
<1> QED
  BY <1>1, <1>4, <1>6, <1>8, <1>10, <1>11 DEF Tested, MainIs

LEMMA InteractionIs ==
  ASSUME NEW x, NEW records, IsFiniteSet(records), NEW k
  PROVE  LET e == Interaction(x, records, k) IN e = Refused \/ Tested(e)
<1> DEFINE paired == PairRecords(records, {x.a, x.b}, LevelPairs(x))
           y(b, la, lb) == Outcome(InCell(b, LevelPair(x, la, lb)), x.metric)
<1>2. PICK B : B = paired.buckets
  OBVIOUS
<1>3. IsFiniteSet(B)
  BY <1>2, BucketsFinite
<1>4. PICK cl : cl = [b \in B |-> BucketCluster(b)]
  BY Zenon
<1>5. PICK values : values = [b \in paired.buckets |->
                        (y(b, x.treatmentA, x.treatmentB) - y(b, x.controlA, x.treatmentB))
                        - (y(b, x.treatmentA, x.controlB) - y(b, x.controlA, x.controlB))]
  BY Zenon
<1>6. PICK raw : raw = SignFlip(values, cl)
  OBVIOUS
<1>7. PValue(raw)
  <2>1. DOMAIN cl = B
    BY <1>4
  <2> QED
    BY <1>3, <1>6, <2>1, SignFlipIs
<1>8. PICK c : c = Cardinality({BucketCluster(b) : b \in B})
  BY Zenon
<1>9. PICK est : est = <<Summed(values), Cardinality(B)>>
  BY Zenon
<1>10. PICK A, H : /\ A = Effect(x.id, "ESTIMATED", B, c, est, raw)
                   /\ H = Effect(x.id, "HOLD", B, c, NoValue, NoValue)
  OBVIOUS
<1>11. Interaction(x, records, k) =
          IF ~paired.sound THEN Refused
          ELSE IF Cardinality(B) < x.minPairs \/ c < x.minClusters \/ c < k THEN H ELSE A
  BY <1>2, <1>4, <1>5, <1>6, <1>8, <1>9, <1>10, Zenon DEF Interaction
<1>12. Tested(A) /\ Tested(H)
  BY <1>7, <1>10, EffectIs DEF Tested
<1>13. PICK q : q = paired.sound
  OBVIOUS
<1> HIDE DEF paired
<1> QED
  BY <1>11, <1>12, <1>13

-----------------------------------------------------------------------------
\* A corrected list of effects: those estimated are rejected by their adjusted
\* p-values, and keep their own.
TestedList(effects) ==
  /\ DOMAIN effects \in SUBSET Int /\ IsFiniteSet(DOMAIN effects)
  /\ effects = [i \in DOMAIN effects |-> effects[i]]
  /\ \A i \in DOMAIN effects : Tested(effects[i])

Estimated(effects) == {i \in DOMAIN effects : effects[i].status = "ESTIMATED"}

LEMMA RawValuesAre ==
  ASSUME NEW effects, TestedList(effects)
  PROVE  /\ PValues(RawValues(effects), Estimated(effects))
         /\ \A i \in Estimated(effects) : RawValues(effects)[i] = effects[i].raw
<1>1. PICK D, ps : D = Estimated(effects) /\ ps = RawValues(effects)
  OBVIOUS
<1>2. D \in SUBSET DOMAIN effects
  BY <1>1 DEF Estimated
<1>3. D \in SUBSET Int /\ IsFiniteSet(D)
  BY <1>2, FS_Subset DEF TestedList
<1>4. DOMAIN ps = D /\ \A i \in D : ps[i] = effects[i].raw
  BY <1>1 DEF RawValues, Estimated
<1>5. ASSUME NEW i \in D PROVE Fraction(ps[i]) /\ ps[i][1] \in Nat
  <2>1. Tested(effects[i]) /\ effects[i].status = "ESTIMATED"
    BY <1>1 DEF Estimated, TestedList
  <2>2. PValue(ps[i])
    BY <1>4, <2>1 DEF Tested
  <2> QED
    BY <2>2 DEF PValue, Fraction
<1>6. PValues(ps, D)
  BY <1>3, <1>4, <1>5 DEF PValues
<1> QED
  BY <1>1, <1>4, <1>6

LEMMA CorrectedIs ==
  ASSUME NEW effects, TestedList(effects), NEW adjusted, DOMAIN adjusted = Estimated(effects)
  PROVE  LET m == Corrected(effects, adjusted)
         IN  /\ DOMAIN m = DOMAIN effects /\ Estimated(m) = Estimated(effects)
             /\ \A i \in DOMAIN effects : /\ m[i].pairs = effects[i].pairs /\ m[i].estimate = effects[i].estimate
                                          /\ m[i].raw = effects[i].raw
             /\ \A i \in Estimated(effects) : m[i].rejected <=> Leq(adjusted[i], Alpha)
<1>1. PICK m : m = Corrected(effects, adjusted)
  OBVIOUS
<1>2. DOMAIN m = DOMAIN effects
  BY <1>1, Zenon DEF Corrected
<1>3. ASSUME NEW i \in DOMAIN effects
      PROVE  /\ m[i].pairs = effects[i].pairs /\ m[i].estimate = effects[i].estimate
             /\ m[i].raw = effects[i].raw /\ m[i].status = effects[i].status
             /\ i \in Estimated(effects) => (m[i].rejected <=> Leq(adjusted[i], Alpha))
  <2>1. PICK e : e = effects[i]
    OBVIOUS
  <2>2. e = [id |-> e.id, status |-> e.status, pairs |-> e.pairs, clusters |-> e.clusters,
             estimate |-> e.estimate, raw |-> e.raw, adjusted |-> e.adjusted, rejected |-> e.rejected]
    BY <2>1, Zenon DEF TestedList, Tested, IsEffect
  <2>3. CASE i \in Estimated(effects)
    <3>1. PICK a, b : a = adjusted[i] /\ b = Leq(adjusted[i], Alpha)
      OBVIOUS
    <3>2. m[i] = [e EXCEPT !.adjusted = a, !.rejected = b]
      BY <1>1, <2>1, <2>3, <3>1, Zenon DEF Corrected
    <3>3. m[i] = [id |-> e.id, status |-> e.status, pairs |-> e.pairs, clusters |-> e.clusters,
                  estimate |-> e.estimate, raw |-> e.raw, adjusted |-> a, rejected |-> b]
      BY <2>2, <3>2, Zenon
    <3> QED
      BY <2>1, <3>1, <3>3
  <2>4. CASE i \notin Estimated(effects)
    <3>1. m[i] = e
      BY <1>1, <2>1, <2>4, Zenon DEF Corrected
    <3> QED
      BY <2>1, <2>4, <3>1
  <2> QED
    BY <2>3, <2>4
<1>4. Estimated(m) = Estimated(effects)
  BY <1>2, <1>3 DEF Estimated
<1>5. \A i \in Estimated(effects) : i \in DOMAIN effects
  BY DEF Estimated
<1> QED
  BY <1>1, <1>2, <1>3, <1>4, <1>5

\* The same tests on the p-values the effects keep.
LEMMA TestsAgree ==
  ASSUME NEW ps, NEW qs, NEW D, \A i \in D : ps[i] = qs[i], NEW i \in D
  PROVE  (ClosedTest(ps, D, i) <=> ClosedTest(qs, D, i)) /\ (ShareTest(ps, D, i) <=> ShareTest(qs, D, i))
<1>1. ASSUME NEW S \in SUBSET D, NEW k, NEW n, NEW j \in S
      PROVE  Pass(ps[j], k, n) <=> Pass(qs[j], k, n)
  BY DEF Pass
<1> QED
  BY <1>1 DEF ClosedTest, ShareTest

LEMMA HolmRejectsExactly ==
  ASSUME NEW effects, TestedList(effects), NEW m, m = Corrected(effects, Holm(RawValues(effects)))
  PROVE  \A i \in Estimated(m) : m[i].rejected <=> ClosedTest([j \in Estimated(m) |-> m[j].raw], Estimated(m), i)
<1>1. PICK D, ps, qs : D = Estimated(effects) /\ ps = RawValues(effects) /\ qs = [j \in D |-> m[j].raw]
  BY Zenon
<1>2. PValues(ps, D) /\ \A i \in D : ps[i] = effects[i].raw
  BY <1>1, RawValuesAre
<1>3. PICK adj : adj = Holm(ps)
  OBVIOUS
<1>4. DOMAIN adj = D
  BY <1>2, <1>3 DEF Holm, PValues
<1>5. /\ Estimated(m) = D /\ \A i \in D : m[i].rejected <=> Leq(adj[i], Alpha)
      /\ \A i \in DOMAIN effects : m[i].raw = effects[i].raw
  BY <1>1, <1>3, <1>4, CorrectedIs
<1>6. \A i \in D : ps[i] = qs[i]
  BY <1>1, <1>2, <1>5 DEF Estimated
<1>7. ASSUME NEW i \in D PROVE m[i].rejected <=> ClosedTest(qs, D, i)
  BY <1>2, <1>3, <1>5, <1>6, HolmIs, HolmIsClosed, TestsAgree
<1> QED
  BY <1>1, <1>5, <1>7

LEMMA BHRejectsExactly ==
  ASSUME NEW effects, TestedList(effects), NEW m, m = Corrected(effects, BenjaminiHochberg(RawValues(effects)))
  PROVE  \A i \in Estimated(m) : m[i].rejected <=> ShareTest([j \in Estimated(m) |-> m[j].raw], Estimated(m), i)
<1>1. PICK D, ps, qs : D = Estimated(effects) /\ ps = RawValues(effects) /\ qs = [j \in D |-> m[j].raw]
  BY Zenon
<1>2. PValues(ps, D) /\ \A i \in D : ps[i] = effects[i].raw
  BY <1>1, RawValuesAre
<1>3. PICK adj : adj = BenjaminiHochberg(ps)
  OBVIOUS
<1>4. DOMAIN adj = D
  BY <1>2, <1>3 DEF BenjaminiHochberg, PValues
<1>5. /\ Estimated(m) = D /\ \A i \in D : m[i].rejected <=> Leq(adj[i], Alpha)
      /\ \A i \in DOMAIN effects : m[i].raw = effects[i].raw
  BY <1>1, <1>3, <1>4, CorrectedIs
<1>6. \A i \in D : ps[i] = qs[i]
  BY <1>1, <1>2, <1>5 DEF Estimated
<1>7. ASSUME NEW i \in D PROVE m[i].rejected <=> ShareTest(qs, D, i)
  BY <1>2, <1>3, <1>5, <1>6, BHIs, BHIsShare, TestsAgree
<1> QED
  BY <1>1, <1>5, <1>7

-----------------------------------------------------------------------------
\* A report that was built is made of the parts the engine computes.
BuiltFrom(s, R) ==
  /\ MainEffects(s, Records(s)).status # "refused" /\ R.mains = MainEffects(s, Records(s)).effects
  /\ Interactions(s, Records(s)).status # "refused" /\ R.interactions = Interactions(s, Records(s)).effects
  /\ R.profiles = ProfileReports(Records(s), s.passK)
  /\ R.frontier = {p.profile : p \in ParetoFrontier(Candidates(R.profiles))}
  /\ R.minimum = MinimumSufficient(s, Candidates(R.profiles))
  /\ ValidInput(s, Records(s))

LEMMA ReportIs ==
  ASSUME NEW s, AnalysisReport(s).status = "built"
  PROVE  BuiltFrom(s, AnalysisReport(s))
<1>1. PICK records : records = Records(s)
  OBVIOUS
<1>2. PICK mains, inter, taxes, profiles :
        /\ mains = MainEffects(s, records) /\ inter = Interactions(s, records)
        /\ taxes = StressTaxes(records, s.minClusters) /\ profiles = ProfileReports(records, s.passK)
  OBVIOUS
<1>3. PICK bad : bad = \/ s.episodes = {} \/ \E e \in s.episodes : ~ChainAccepted(e.chain)
                       \/ ~ValidInput(s, records)
                       \/ mains.status = "refused" \/ inter.status = "refused"
                       \/ \E t \in taxes : t.status = "refused"
                       \/ ResearchFit(s, records) = "refused"
  BY Zenon
<1>4. PICK sev, ad, rf, fr, min : /\ sev = SevereSummary(records) /\ ad = Adequacy(s, records)
                                  /\ rf = ResearchFit(s, records)
                                  /\ fr = {p.profile : p \in ParetoFrontier(Candidates(profiles))}
                                  /\ min = MinimumSufficient(s, Candidates(profiles))
  BY Zenon
<1>5. AnalysisReport(s) = IF bad THEN Refused
         ELSE [status |-> "built", records |-> records, severe |-> sev, profiles |-> profiles,
               mains |-> mains.effects, interactions |-> inter.effects, taxes |-> taxes,
               adequacy |-> ad, research |-> rf, frontier |-> fr, minimum |-> min]
  BY <1>1, <1>2, <1>3, <1>4, Zenon DEF AnalysisReport
<1>6. ~bad
  <2> SUFFICES ASSUME bad PROVE FALSE
    OBVIOUS
  <2>1. AnalysisReport(s) = Refused
    BY <1>5
  <2> QED
    BY <2>1 DEF Refused
<1>7. AnalysisReport(s) =
              [status |-> "built", records |-> records, severe |-> sev, profiles |-> profiles,
               mains |-> mains.effects, interactions |-> inter.effects, taxes |-> taxes,
               adequacy |-> ad, research |-> rf, frontier |-> fr, minimum |-> min]
  BY <1>5, <1>6, Zenon
<1>8. PICK R : R = AnalysisReport(s)
  OBVIOUS
<1>9. /\ R.mains = mains.effects /\ R.interactions = inter.effects /\ R.profiles = profiles
      /\ R.frontier = fr /\ R.minimum = min
  BY <1>7, <1>8
<1>10. mains.status # "refused" /\ inter.status # "refused" /\ ValidInput(s, records)
  BY <1>3, <1>6, Zenon
<1> QED
  BY <1>1, <1>2, <1>4, <1>8, <1>9, <1>10, Zenon DEF BuiltFrom

LEMMA RecordsFinite ==
  ASSUME NEW s \in Studies
  PROVE  IsFiniteSet(s.episodes) /\ IsFiniteSet(Records(s))
<1>1. IsFiniteSet(s.episodes)
  BY AnalysisAssumption
<1>2. PICK f, E : E = s.episodes /\ f = [e \in E |-> EpisodeRecord(e)]
  BY Zenon
<1>3. Records(s) = {f[e] : e \in E}
  BY <1>2 DEF Records
<1> QED
  BY <1>1, <1>2, <1>3, ImageFinite

LEMMA SequenceIndices ==
  ASSUME NEW q, NEW T, q \in Seq(T)
  PROVE  DOMAIN q \in SUBSET Int /\ IsFiniteSet(DOMAIN q)
<1>1. PICK n \in Nat : DOMAIN q = 1 .. n
  BY SeqUnfolds, SeqShape
<1>2. IsFiniteSet(1 .. n)
  BY IntervalIs
<1> QED
  BY <1>1, <1>2

MainList(s) == [i \in DOMAIN s.mains |-> MainEffect(s.mains[i], Records(s), s.minClusters)]
InteractionList(s) == [i \in DOMAIN s.interactions |-> Interaction(s.interactions[i], Records(s), s.minClusters)]

LEMMA MainsAre ==
  ASSUME NEW s \in Studies, MainEffects(s, Records(s)).status # "refused"
  PROVE  /\ TestedList(MainList(s)) /\ Estimated(MainList(s)) = DOMAIN MainList(s)
         /\ \A i \in DOMAIN s.mains : MainEffect(s.mains[i], Records(s), s.minClusters) # Refused
         /\ MainEffects(s, Records(s)).effects = Corrected(MainList(s), Holm(RawValues(MainList(s))))
<1>1. PICK effects : effects = MainList(s)
  OBVIOUS
<1>2. PICK bad : bad = \E i \in DOMAIN effects : effects[i].status = "refused"
  BY Zenon
<1>3. PICK c : c = Corrected(effects, Holm(RawValues(effects)))
  OBVIOUS
<1>4. MainEffects(s, Records(s)) = IF bad THEN Refused ELSE [status |-> "done", effects |-> c]
  BY <1>1, <1>2, <1>3, Zenon DEF MainEffects, MainList
<1>5. ~bad
  <2> SUFFICES ASSUME bad PROVE FALSE
    OBVIOUS
  <2>1. MainEffects(s, Records(s)) = Refused
    BY <1>4
  <2> QED
    BY <2>1 DEF Refused
<1>6. MainEffects(s, Records(s)).effects = c
  BY <1>4, <1>5
<1>7. DOMAIN effects = DOMAIN s.mains /\ effects = [i \in DOMAIN effects |-> effects[i]]
  BY <1>1 DEF MainList
<1>8. DOMAIN effects \in SUBSET Int /\ IsFiniteSet(DOMAIN effects)
  <2>1. s.mains \in Seq(ToSet(s.mains))
    BY AnalysisAssumption
  <2> QED
    BY <1>7, <2>1, SequenceIndices
<1>9. ASSUME NEW i \in DOMAIN effects
      PROVE  /\ Tested(effects[i]) /\ effects[i].status = "ESTIMATED"
             /\ MainEffect(s.mains[i], Records(s), s.minClusters) # Refused
  <2>1. PICK e : e = MainEffect(s.mains[i], Records(s), s.minClusters)
    OBVIOUS
  <2>2. effects[i] = e
    BY <1>1, <1>7, <2>1 DEF MainList
  <2>3. e # Refused
    <3>1. effects[i].status # "refused"
      BY <1>2, <1>5
    <3> QED
      BY <2>2, <3>1 DEF Refused
  <2>4. e = Refused \/ (Tested(e) /\ e.status = "ESTIMATED")
    <3>1. PICK mm, rs, k : mm = s.mains[i] /\ rs = Records(s) /\ k = s.minClusters
      OBVIOUS
    <3>2. IsFiniteSet(rs) /\ e = MainEffect(mm, rs, k)
      BY <2>1, <3>1, RecordsFinite
    <3>3. e = Refused \/ MainIs(e, mm, rs)
      BY <3>2, MainEffectIs
    <3>4. CASE MainIs(e, mm, rs)
      BY <3>4 DEF MainIs
    <3> QED
      BY <3>3, <3>4
  <2> QED
    BY <2>1, <2>2, <2>3, <2>4
<1>10. TestedList(effects)
  BY <1>7, <1>8, <1>9 DEF TestedList
<1>11. Estimated(effects) = DOMAIN effects
  BY <1>9, Zenon DEF Estimated
<1> QED
  BY <1>1, <1>3, <1>6, <1>7, <1>9, <1>10, <1>11

LEMMA InteractionsAre ==
  ASSUME NEW s \in Studies, Interactions(s, Records(s)).status # "refused"
  PROVE  /\ TestedList(InteractionList(s))
         /\ Interactions(s, Records(s)).effects =
              Corrected(InteractionList(s), BenjaminiHochberg(RawValues(InteractionList(s))))
<1>1. PICK effects : effects = InteractionList(s)
  OBVIOUS
<1>2. PICK bad : bad = \E i \in DOMAIN effects : effects[i].status = "refused"
  BY Zenon
<1>3. PICK c : c = Corrected(effects, BenjaminiHochberg(RawValues(effects)))
  OBVIOUS
<1>4. Interactions(s, Records(s)) = IF bad THEN Refused ELSE [status |-> "done", effects |-> c]
  BY <1>1, <1>2, <1>3, Zenon DEF Interactions, InteractionList
<1>5. ~bad
  <2> SUFFICES ASSUME bad PROVE FALSE
    OBVIOUS
  <2>1. Interactions(s, Records(s)) = Refused
    BY <1>4
  <2> QED
    BY <2>1 DEF Refused
<1>6. Interactions(s, Records(s)).effects = c
  BY <1>4, <1>5
<1>7. DOMAIN effects = DOMAIN s.interactions /\ effects = [i \in DOMAIN effects |-> effects[i]]
  BY <1>1 DEF InteractionList
<1>8. DOMAIN effects \in SUBSET Int /\ IsFiniteSet(DOMAIN effects)
  <2>1. s.interactions \in Seq(ToSet(s.interactions))
    BY AnalysisAssumption
  <2> QED
    BY <1>7, <2>1, SequenceIndices
<1>9. ASSUME NEW i \in DOMAIN effects
      PROVE  Tested(effects[i])
  <2>1. PICK e : e = Interaction(s.interactions[i], Records(s), s.minClusters)
    OBVIOUS
  <2>2. effects[i] = e
    BY <1>1, <1>7, <2>1 DEF InteractionList
  <2>3. e # Refused
    <3>1. effects[i].status # "refused"
      BY <1>2, <1>5
    <3> QED
      BY <2>2, <3>1 DEF Refused
  <2>4. e = Refused \/ Tested(e)
    BY <2>1, RecordsFinite, InteractionIs
  <2> QED
    BY <2>2, <2>3, <2>4
<1>10. TestedList(effects)
  BY <1>7, <1>8, <1>9 DEF TestedList
<1> QED
  BY <1>1, <1>3, <1>6, <1>10

-----------------------------------------------------------------------------
\* What was proved of the corrections, read off the report.
LEMMA CorrectionsExact ==
  ASSUME study \in Studies, report = AnalysisReport(study)
  PROVE  CorrectionsAreExact
<1> SUFFICES ASSUME Built PROVE CorrectionsAreExact
  BY Zenon DEF CorrectionsAreExact
<1>1. BuiltFrom(study, report)
  BY ReportIs DEF Built
<1>2. PICK m, x, D, T : m = report.mains /\ x = report.interactions /\ D = DOMAIN m /\ T = Estimated(x)
  OBVIOUS
<1>3. D = Estimated(m) /\ \A i \in D : m[i].rejected <=> ClosedTest([j \in D |-> m[j].raw], D, i)
  <2>1. PICK L : L = MainList(study)
    OBVIOUS
  <2>2. TestedList(L) /\ m = Corrected(L, Holm(RawValues(L))) /\ Estimated(L) = DOMAIN L
    BY <1>1, <1>2, <2>1, MainsAre DEF BuiltFrom
  <2>3. DOMAIN Holm(RawValues(L)) = Estimated(L)
    BY <2>2, RawValuesAre DEF Holm, PValues
  <2>4. DOMAIN m = DOMAIN L /\ Estimated(m) = Estimated(L)
    BY <2>2, <2>3, CorrectedIs
  <2>5. Estimated(m) = D
    BY <1>2, <2>2, <2>4
  <2>6. \A i \in Estimated(m) : m[i].rejected <=> ClosedTest([j \in Estimated(m) |-> m[j].raw], Estimated(m), i)
    BY <2>2, HolmRejectsExactly
  <2> QED
    BY <2>5, <2>6
<1>4. \A i \in T : x[i].rejected <=> ShareTest([j \in T |-> x[j].raw], T, i)
  <2>1. PICK L : L = InteractionList(study)
    OBVIOUS
  <2>2. TestedList(L) /\ x = Corrected(L, BenjaminiHochberg(RawValues(L)))
    BY <1>1, <1>2, <2>1, InteractionsAre DEF BuiltFrom
  <2> QED
    BY <1>2, <2>2, BHRejectsExactly
<1> DEFINE below(p, k, n) == Leq(<<p[1] * n, p[2] * k>>, Alpha)
<1>5. ASSUME NEW i \in D
      PROVE  m[i].rejected <=> \A S \in SUBSET D : i \in S => \E j \in S : below(m[j].raw, 1, Cardinality(S))
  <2>1. PICK q : q = [j \in D |-> m[j].raw]
    BY Zenon
  <2>2. \A j \in D : q[j] = m[j].raw
    BY <2>1
  <2>3. ClosedTest(q, D, i) <=> \A S \in SUBSET D : i \in S => \E j \in S : Pass(m[j].raw, 1, Cardinality(S))
    BY <2>2 DEF ClosedTest
  <2> QED
    BY <1>3, <2>1, <2>3 DEF Pass
<1>6. ASSUME NEW i \in T
      PROVE  x[i].rejected <=> \E S \in SUBSET T : i \in S /\ \A j \in S : below(x[j].raw, Cardinality(S), Cardinality(T))
  <2>1. PICK q : q = [j \in T |-> x[j].raw]
    BY Zenon
  <2>2. \A j \in T : q[j] = x[j].raw
    BY <2>1
  <2>3. ShareTest(q, T, i) <=> \E S \in SUBSET T : i \in S /\ \A j \in S : Pass(x[j].raw, Cardinality(S), Cardinality(T))
    BY <2>2 DEF ShareTest
  <2> QED
    BY <1>4, <2>1, <2>3 DEF Pass
<1>7. T = {i \in DOMAIN x : x[i].status = "ESTIMATED"}
  BY <1>2 DEF Estimated
<1>8. \A i \in DOMAIN report.mains : report.mains[i].rejected <=>
         \A S \in SUBSET DOMAIN report.mains : i \in S => \E j \in S : below(report.mains[j].raw, 1, Cardinality(S))
  <2> HIDE DEF below
  <2> QED
    BY <1>2, <1>5
<1>9. PICK X : X = {i \in DOMAIN report.interactions : report.interactions[i].status = "ESTIMATED"}
  BY Zenon
<1>10. \A i \in X : report.interactions[i].rejected <=>
         \E S \in SUBSET X : i \in S /\ \A j \in S : below(report.interactions[j].raw, Cardinality(S), Cardinality(X))
  <2> HIDE DEF below
  <2> QED
    BY <1>2, <1>6, <1>7, <1>9
<1>11. \A i \in {k \in DOMAIN report.interactions : report.interactions[k].status = "ESTIMATED"} :
         report.interactions[i].rejected <=>
           \E S \in SUBSET {k \in DOMAIN report.interactions : report.interactions[k].status = "ESTIMATED"} :
              /\ i \in S
              /\ \A j \in S : below(report.interactions[j].raw, Cardinality(S),
                     Cardinality({k \in DOMAIN report.interactions : report.interactions[k].status = "ESTIMATED"}))
  <2> HIDE DEF below
  <2> QED
    BY <1>9, <1>10
<1> QED
  BY <1>8, <1>11, Zenon DEF CorrectionsAreExact

-----------------------------------------------------------------------------
\* Profiles.  Their figures are fractions.
LEMMA SummedIs ==
  ASSUME NEW f
  PROVE  Summed(f) = SetSums(f, DOMAIN f)[DOMAIN f]
BY DEF Summed, FoldSet, MapThenFoldSet, SetSums, Unfolds, Pick

LEMMA SummedInt ==
  ASSUME NEW f, IsFiniteSet(DOMAIN f), Terms(f, DOMAIN f)
  PROVE  Summed(f) \in Int
<1>1. PICK D : D = DOMAIN f
  OBVIOUS
<1>2. IsFiniteSet(D) /\ Terms(f, D) /\ D \in SUBSET D /\ Summed(f) = SetSums(f, D)[D]
  BY <1>1, SummedIs
<1>3. SetSums(f, D)[D] \in Int
  BY <1>2, SumStep, Zenon
<1> QED
  BY <1>2, <1>3

LEMMA ChainTotalIs ==
  ASSUME NEW values, IsFiniteSet(DOMAIN values), \A i \in DOMAIN values : Measured(values[i]),
         ChainTotal(values) # NoValue
  PROVE  ChainTotal(values) \in Int
<1>1. \A i \in DOMAIN values : values[i] # NoValue
  BY DEF ChainTotal
<1>2. ChainTotal(values) = Summed(values)
  BY <1>1 DEF ChainTotal
<1>3. Terms(values, DOMAIN values)
  BY <1>1 DEF Measured, Terms
<1> QED
  BY <1>2, <1>3, SummedInt

\* What is known of a record.
RecordIs(r, s) ==
  /\ r.scaffold # NoValue /\ s.names[r.scaffold] \in Int
  /\ r.repeat \in Int /\ r.metric \in Int /\ r.audit \in Int
  /\ r.cost # NoValue => r.cost \in Int
  /\ r.latency # NoValue => r.latency \in Int
  /\ r.unit = [task |-> r.task, scaffold |-> r.scaffold, factors |-> r.factors,
               variant |-> r.variant, repeat |-> r.repeat]

LEMMA RecordsAre ==
  ASSUME NEW s \in Studies, NEW r \in Records(s)
  PROVE  RecordIs(r, s)
<1>1. PICK e \in s.episodes : r = EpisodeRecord(e)
  BY DEF Records
<1>2. /\ e.scaffold # NoValue /\ s.names[e.scaffold] \in Int /\ e.repeat \in Int
      /\ e.metric \in Int /\ e.audit \in Int /\ e.chain \in Seq(ToSet(e.chain))
      /\ \A i \in DOMAIN e.chain : Measured(e.chain[i].cost) /\ Measured(e.chain[i].latency)
  BY <1>1, AnalysisAssumption
<1>3. PICK chain : chain = e.chain
  OBVIOUS
<1>4. IsFiniteSet(DOMAIN chain)
  BY <1>2, <1>3, SequenceIndices
<1>5. PICK costs, times : /\ costs = [i \in DOMAIN chain |-> AttemptCost(chain[i])]
                          /\ times = [i \in DOMAIN chain |-> chain[i].latency]
  BY Zenon
<1>6. /\ DOMAIN costs = DOMAIN chain /\ \A i \in DOMAIN costs : Measured(costs[i])
      /\ DOMAIN times = DOMAIN chain /\ \A i \in DOMAIN times : Measured(times[i])
  BY <1>2, <1>3, <1>5 DEF AttemptCost
<1>7. PICK cost, latency : cost = ChainTotal(costs) /\ latency = ChainTotal(times)
  OBVIOUS
<1>8. (cost # NoValue => cost \in Int) /\ (latency # NoValue => latency \in Int)
  BY <1>4, <1>6, <1>7, ChainTotalIs
<1>9. PICK unit : unit = [task |-> e.task, scaffold |-> e.scaffold, factors |-> e.factors,
                          variant |-> e.variant, repeat |-> e.repeat]
  BY Zenon
<1>10. PICK success, trace, manipulation, retries :
          /\ success = (Last(chain).status = "completed" /\ e.mission /\ e.severe = {})
          /\ trace = \A i \in DOMAIN chain : chain[i].trace
          /\ manipulation = \A i \in DOMAIN chain : chain[i].manipulation
          /\ retries = Len(chain) - 1
  BY Zenon
<1>11. r = [unit |-> unit, task |-> e.task, cluster |-> e.cluster, scaffold |-> e.scaffold, pair |-> e.pair,
            repeat |-> e.repeat, variant |-> e.variant, factors |-> e.factors, success |-> success,
            metric |-> e.metric, retries |-> retries, severe |-> e.severe, audit |-> e.audit,
            trace |-> trace, manipulation |-> manipulation, heldOut |-> e.heldOut,
            cost |-> cost, latency |-> latency]
  BY <1>1, <1>3, <1>5, <1>7, <1>9, <1>10, ZenonT(40) DEF EpisodeRecord
<1>12. /\ r.scaffold = e.scaffold /\ r.repeat = e.repeat /\ r.metric = e.metric /\ r.audit = e.audit
       /\ r.cost = cost /\ r.latency = latency /\ r.unit = unit /\ r.task = e.task
       /\ r.factors = e.factors /\ r.variant = e.variant
  BY <1>11
<1> QED
  BY <1>2, <1>8, <1>9, <1>12 DEF RecordIs

IsProfile(p) ==
  p = [profile |-> p.profile, records |-> p.records, pass1 |-> p.pass1, repeats |-> p.repeats,
       severe |-> p.severe, audit |-> p.audit, latency |-> p.latency, cost |-> p.cost]

OwnRecords(records, scaffold) == {r \in records : r.scaffold = scaffold}

ProfileIs(p, s) ==
  /\ IsProfile(p) /\ p.profile # NoValue /\ s.names[p.profile] \in Int
  /\ p.records = OwnRecords(Records(s), p.profile) /\ IsFiniteSet(p.records) /\ p.records # {}
  /\ p.repeats = RepeatSeries(p.records, s.passK) /\ p.pass1[2] = Cardinality(p.records)
  /\ Fraction(p.pass1) /\ Fraction(p.severe) /\ Fraction(p.audit)
  /\ p.cost # NoValue => Fraction(p.cost)
  /\ p.latency # NoValue => Fraction(p.latency)

LEMMA RateIs ==
  ASSUME NEW whole, IsFiniteSet(whole), whole # {}, NEW some \in SUBSET whole
  PROVE  Fraction(Rate(some, whole)) /\ Rate(some, whole)[2] = Cardinality(whole)
<1>1. IsFiniteSet(some) /\ Cardinality(some) \in Nat /\ Cardinality(whole) \in Nat /\ Cardinality(whole) # 0
  BY FS_Subset, FS_CardinalityType, FS_EmptySet
<1> QED
  BY <1>1 DEF Rate, Fraction

LEMMA MeanIs ==
  ASSUME NEW D, IsFiniteSet(D), D # {}, NEW f, DOMAIN f = D, Terms(f, D)
  PROVE  Fraction(<<Summed(f), Cardinality(D)>>)
<1>1. Summed(f) \in Int
  BY SummedInt
<1>2. Cardinality(D) \in Nat /\ Cardinality(D) # 0
  BY FS_CardinalityType, FS_EmptySet
<1> QED
  BY <1>1, <1>2 DEF Fraction

LEMMA ProfilesAre ==
  ASSUME NEW s \in Studies, NEW p \in ProfileReports(Records(s), s.passK)
  PROVE  ProfileIs(p, s) /\ p = ProfileReport(p.profile, Records(s), s.passK)
<1>1. PICK rec \in Records(s) : p = ProfileReport(rec.scaffold, Records(s), s.passK)
  <2>1. PICK sc \in {r.scaffold : r \in Records(s)} : p = ProfileReport(sc, Records(s), s.passK)
    BY DEF ProfileReports
  <2> QED
    BY <2>1
<1>2. PICK sc, k : sc = rec.scaffold /\ k = s.passK
  OBVIOUS
<1>3. PICK own, timed : own = OwnRecords(Records(s), sc) /\ timed = {r \in own : r.latency # NoValue}
  BY Zenon
<1>4. own \in SUBSET Records(s) /\ rec \in own /\ timed \in SUBSET own
  BY <1>2, <1>3 DEF OwnRecords
<1>5. IsFiniteSet(own) /\ own # {} /\ IsFiniteSet(timed)
  BY <1>4, RecordsFinite, FS_Subset
<1>6. \A r \in own : RecordIs(r, s)
  BY <1>4, RecordsAre
<1>7. PICK pass1, severe : pass1 = Rate({r \in own : r.success}, own) /\ severe = Rate({r \in own : r.severe # {}}, own)
  BY Zenon
<1>8. Fraction(pass1) /\ pass1[2] = Cardinality(own) /\ Fraction(severe)
  <2>1. {r \in own : r.success} \in SUBSET own /\ {r \in own : r.severe # {}} \in SUBSET own
    OBVIOUS
  <2> QED
    BY <1>5, <1>7, <2>1, RateIs
<1>9. PICK a, l, c : a = [r \in own |-> r.audit] /\ l = [r \in timed |-> r.latency] /\ c = [r \in own |-> r.cost]
  BY Zenon
<1>10. PICK audits : audits = <<Summed(a), Cardinality(own)>>
  BY Zenon
<1>11. Fraction(audits)
  <2>1. DOMAIN a = own /\ Terms(a, own)
    BY <1>6, <1>9, Zenon DEF Terms, RecordIs
  <2> QED
    BY <1>5, <1>10, <2>1, MeanIs
<1>12. PICK costed : costed = \A r \in own : r.cost # NoValue
  BY Zenon
<1>13. PICK latency : latency = IF timed = {} THEN NoValue ELSE <<Summed(l), Cardinality(timed)>>
  BY Zenon
<1>14. PICK cost : cost = IF costed THEN <<Summed(c), Cardinality(own)>> ELSE NoValue
  BY Zenon
<1>15. latency # NoValue => Fraction(latency)
  <2> SUFFICES ASSUME latency # NoValue PROVE Fraction(latency)
    OBVIOUS
  <2>1. timed # {} /\ latency = <<Summed(l), Cardinality(timed)>>
    BY <1>13
  <2>2. DOMAIN l = timed /\ Terms(l, timed)
    BY <1>3, <1>6, <1>9, Zenon DEF Terms, RecordIs
  <2> QED
    BY <1>5, <2>1, <2>2, MeanIs
<1>16. cost # NoValue => Fraction(cost)
  <2> SUFFICES ASSUME cost # NoValue PROVE Fraction(cost)
    OBVIOUS
  <2>1. costed /\ cost = <<Summed(c), Cardinality(own)>>
    BY <1>14
  <2>2. DOMAIN c = own /\ Terms(c, own)
    BY <1>6, <1>9, <1>12, <2>1, Zenon DEF Terms, RecordIs
  <2> QED
    BY <1>5, <2>1, <2>2, MeanIs
<1>17. PICK reps : reps = RepeatSeries(own, k)
  OBVIOUS
<1>18. p = [profile |-> sc, records |-> own, pass1 |-> pass1, repeats |-> reps, severe |-> severe,
            audit |-> audits, latency |-> latency, cost |-> cost]
  BY <1>1, <1>2, <1>3, <1>7, <1>9, <1>10, <1>12, <1>13, <1>14, <1>17, Zenon DEF ProfileReport, OwnRecords
<1>19. /\ p.profile = sc /\ p.records = own /\ p.pass1 = pass1 /\ p.repeats = reps /\ p.severe = severe
       /\ p.audit = audits /\ p.latency = latency /\ p.cost = cost /\ IsProfile(p)
  BY <1>18 DEF IsProfile
<1>20. sc # NoValue /\ s.names[sc] \in Int
  BY <1>2, <1>4, <1>6, Zenon DEF RecordIs
<1>21. p = ProfileReport(p.profile, Records(s), s.passK)
  BY <1>1, <1>2, <1>19
<1> QED
  BY <1>2, <1>3, <1>5, <1>8, <1>11, <1>15, <1>16, <1>17, <1>19, <1>20, <1>21 DEF ProfileIs

LEMMA ProfilesFinite ==
  ASSUME NEW s \in Studies
  PROVE  IsFiniteSet(ProfileReports(Records(s), s.passK))
<1>1. PICK R : R = Records(s)
  OBVIOUS
<1>2. IsFiniteSet(R)
  BY <1>1, RecordsFinite
<1>3. PICK f : f = [r \in R |-> ProfileReport(r.scaffold, R, s.passK)]
  BY Zenon
<1>4. ProfileReports(R, s.passK) = {f[r] : r \in R}
  BY <1>3 DEF ProfileReports
<1> QED
  BY <1>1, <1>2, <1>4, ImageFinite

-----------------------------------------------------------------------------
\* Selection.  Candidates have all five figures, and are known by their names.
Comparable(p) ==
  Fraction(p.pass1) /\ Fraction(p.severe) /\ Fraction(p.audit) /\ Fraction(p.cost) /\ Fraction(p.latency)

Contenders(C, s) ==
  /\ IsFiniteSet(C)
  /\ \A p \in C : IsProfile(p) /\ Comparable(p) /\ p.profile # NoValue /\ s.names[p.profile] \in Int
  /\ \A p, q \in C : p.profile = q.profile => p = q

LEMMA CandidatesAre ==
  ASSUME NEW s \in Studies
  PROVE  Contenders(Candidates(ProfileReports(Records(s), s.passK)), s)
<1>1. PICK P, C : P = ProfileReports(Records(s), s.passK) /\ C = Candidates(P)
  OBVIOUS
<1>2. C \in SUBSET P /\ \A p \in C : p.cost # NoValue /\ p.latency # NoValue
  BY <1>1 DEF Candidates
<1>3. IsFiniteSet(C)
  BY <1>1, <1>2, ProfilesFinite, FS_Subset
<1>4. \A p \in P : ProfileIs(p, s) /\ p = ProfileReport(p.profile, Records(s), s.passK)
  BY <1>1, ProfilesAre
<1>5. \A p \in C : IsProfile(p) /\ Comparable(p) /\ p.profile # NoValue /\ s.names[p.profile] \in Int
  BY <1>2, <1>4 DEF ProfileIs, Comparable
<1>6. ASSUME NEW p \in C, NEW q \in C, p.profile = q.profile PROVE p = q
  <2>1. PICK x, y : x = p.profile /\ y = q.profile
    OBVIOUS
  <2>2. p = ProfileReport(x, Records(s), s.passK) /\ q = ProfileReport(y, Records(s), s.passK) /\ x = y
    BY <1>2, <1>4, <1>6, <2>1
  <2> QED
    BY <2>2
<1> QED
  BY <1>1, <1>3, <1>5, <1>6, Zenon DEF Contenders

LEMMA NoWorseIsTransitive ==
  ASSUME NEW x, NEW y, NEW z, Comparable(x), Comparable(y), Comparable(z), NoWorse(x, y), NoWorse(y, z)
  PROVE  NoWorse(x, z)
<1>1. Leq(z.pass1, x.pass1)
  BY LeqTransitive DEF NoWorse, Comparable
<1>2. Leq(z.audit, x.audit)
  BY LeqTransitive DEF NoWorse, Comparable
<1>3. Leq(x.severe, z.severe)
  BY LeqTransitive DEF NoWorse, Comparable
<1>4. Leq(x.cost, z.cost)
  BY LeqTransitive DEF NoWorse, Comparable
<1>5. Leq(x.latency, z.latency)
  BY LeqTransitive DEF NoWorse, Comparable
<1> QED
  BY <1>1, <1>2, <1>3, <1>4, <1>5 DEF NoWorse

\* Among finitely many, what is dominated is dominated by something that is not.
LEMMA FrontierDominates ==
  ASSUME NEW C, NEW s, Contenders(C, s), NEW p \in C \ ParetoFrontier(C)
  PROVE  \E o \in ParetoFrontier(C) : Dominates(o, p)
<1>1. PICK R : R = {q \in C \X C : Dominates(q[1], q[2])}
  BY Zenon
<1>2. \A x, y \in C : <<x, y>> \in R <=> Dominates(x, y)
  BY <1>1
<1>3. \A x, y, z \in C : <<x, y>> \in R /\ <<y, z>> \in R => <<x, z>> \in R
  <2> SUFFICES ASSUME NEW x \in C, NEW y \in C, NEW z \in C, Dominates(x, y), Dominates(y, z)
               PROVE  Dominates(x, z)
    BY <1>2
  <2>1. Comparable(x) /\ Comparable(y) /\ Comparable(z)
    BY DEF Contenders
  <2>2. NoWorse(x, z)
    BY <2>1, NoWorseIsTransitive DEF Dominates
  <2>3. NoWorse(z, x) => NoWorse(y, x)
    BY <2>1, NoWorseIsTransitive DEF Dominates
  <2> QED
    BY <2>2, <2>3 DEF Dominates
<1>4. \A x \in C : <<x, x>> \notin R
  BY <1>2 DEF Dominates
<1> DEFINE Worse(x) == {y \in C : <<x, y>> \in R}
<1>5. PICK size : size = [x \in C |-> Cardinality(Worse(x))]
  BY Zenon
<1>6. \A x \in C : /\ Worse(x) \in SUBSET C /\ IsFiniteSet(Worse(x))
                   /\ size[x] = Cardinality(Worse(x)) /\ size[x] \in Nat
  <2>1. \A x \in C : Worse(x) \in SUBSET C
    OBVIOUS
  <2> HIDE DEF Worse
  <2>2. IsFiniteSet(C)
    BY DEF Contenders
  <2> QED
    BY <1>5, <2>1, <2>2, FS_Subset, FS_CardinalityType
<1>7. \A x, y \in C : y \in Worse(x) <=> <<x, y>> \in R
  OBVIOUS
<1> HIDE DEF Worse
<1>8. PICK U, T : U = {o \in C : <<o, p>> \in R} /\ T = {size[o] : o \in U}
  BY Zenon
<1>9. p \in C /\ U \in SUBSET C /\ U # {} /\ IsFiniteSet(U)
  <2>1. PICK o \in C : Dominates(o, p)
    BY DEF ParetoFrontier
  <2>2. U \in SUBSET C /\ o \in U
    BY <1>2, <1>8, <2>1
  <2> QED
    BY <2>2, FS_Subset DEF Contenders
<1>10. T \in SUBSET Int /\ T # {} /\ IsFiniteSet(T)
  <2>1. IsFiniteSet(T)
    BY <1>8, <1>9, ImageFinite, Zenon
  <2>2. \A o \in U : size[o] \in Int
    BY <1>6, <1>9
  <2> QED
    BY <1>8, <1>9, <2>1, <2>2, Zenon
<1>11. PICK m \in T : \A k \in T : k <= m
  BY <1>10, GreatestNumber
<1>12. PICK o \in U : size[o] = m
  BY <1>8, <1>11, Zenon
<1>13. o \in C /\ <<o, p>> \in R
  BY <1>8, <1>9
<1>14. ASSUME NEW x \in C, Dominates(x, o) PROVE FALSE
  <2>1. <<x, o>> \in R /\ <<x, p>> \in R /\ x \in U
    BY <1>2, <1>3, <1>8, <1>9, <1>13, <1>14
  <2>2. size[x] <= size[o]
    BY <1>8, <1>11, <1>12, <2>1
  <2>3. Worse(o) \in SUBSET Worse(x)
    <3>1. \A y \in Worse(o) : y \in C
      BY <1>6, <1>13
    <3> QED
      BY <1>3, <1>7, <1>13, <2>1, <3>1, Zenon
  <2>4. o \in Worse(x) /\ o \notin Worse(o)
    BY <1>4, <1>7, <1>13, <2>1, Zenon
  <2>5. Worse(o) # Worse(x)
    BY <2>4
  <2>6. size[o] <= size[x] /\ size[o] # size[x]
    BY <1>6, <1>13, <2>3, <2>5, FS_Subset
  <2> QED
    BY <1>6, <1>13, <2>2, <2>6
<1>15. o \in ParetoFrontier(C)
  BY <1>13, <1>14 DEF ParetoFrontier
<1> QED
  BY <1>2, <1>9, <1>13, <1>15

-----------------------------------------------------------------------------
\* The lexicographic choice, one figure after the other.
Leading(f, F, G) ==
  /\ G \in SUBSET F /\ G # {}
  /\ \A x \in G, y \in F : Leq(f[x], f[y]) /\ (y \in G \/ Less(f[x], f[y]))

Trailing(f, F, G) ==
  /\ G \in SUBSET F /\ G # {}
  /\ \A x \in G, y \in F : Leq(f[y], f[x]) /\ (y \in G \/ Less(f[y], f[x]))

LEMMA LeadersExist ==
  ASSUME NEW F, IsFiniteSet(F), F # {}, NEW f, Fractions(f, F)
  PROVE  (\E G : Leading(f, F, G)) /\ (\E G : Trailing(f, F, G))
<1>1. PICK l \in F : \A y \in F : Leq(f[l], f[y])
  BY ExtremesExist
<1>2. PICK g \in F : \A y \in F : Leq(f[y], f[g])
  BY ExtremesExist
<1>3. PICK G, H : G = {x \in F : \A y \in F : Leq(f[x], f[y])} /\ H = {x \in F : \A y \in F : Leq(f[y], f[x])}
  BY Zenon
<1>4. Leading(f, F, G)
  <2>1. G \in SUBSET F /\ l \in G
    BY <1>1, <1>3
  <2>2. ASSUME NEW x \in G, NEW y \in F, ~Less(f[x], f[y]) PROVE y \in G
    <3>1. Leq(f[y], f[x]) /\ x \in F /\ \A z \in F : Leq(f[x], f[z])
      BY <1>3, <2>2 DEF Less
    <3>2. ASSUME NEW z \in F PROVE Leq(f[y], f[z])
      BY <3>1, LeqTransitive DEF Fractions
    <3> QED
      BY <1>3, <3>2
  <2> QED
    BY <1>3, <2>1, <2>2 DEF Leading
<1>5. Trailing(f, F, H)
  <2>1. H \in SUBSET F /\ g \in H
    BY <1>2, <1>3
  <2>2. ASSUME NEW x \in H, NEW y \in F, ~Less(f[y], f[x]) PROVE y \in H
    <3>1. Leq(f[x], f[y]) /\ x \in F /\ \A z \in F : Leq(f[z], f[x])
      BY <1>3, <2>2 DEF Less
    <3>2. ASSUME NEW z \in F PROVE Leq(f[z], f[y])
      BY <3>1, LeqTransitive DEF Fractions
    <3> QED
      BY <1>3, <3>2
  <2> QED
    BY <1>3, <2>1, <2>2 DEF Trailing
<1> QED
  BY <1>4, <1>5

LEMMA PreferredExists ==
  ASSUME NEW C, NEW s, Contenders(C, s), NEW F \in SUBSET C, F # {}
  PROVE  \E p \in F : \A o \in F : Preferred(s.names, p, o)
<1>1. IsFiniteSet(F) /\ \A p \in F : Comparable(p) /\ s.names[p.profile] \in Int
  BY FS_Subset DEF Contenders
<1>2. PICK c, l, q, a : /\ c = [p \in F |-> p.cost] /\ l = [p \in F |-> p.latency]
                        /\ q = [p \in F |-> p.pass1] /\ a = [p \in F |-> p.audit]
  BY Zenon
<1>3. /\ \A p \in F : c[p] = p.cost /\ l[p] = p.latency /\ q[p] = p.pass1 /\ a[p] = p.audit
      /\ \A G \in SUBSET F : Fractions(c, G) /\ Fractions(l, G) /\ Fractions(q, G) /\ Fractions(a, G)
  BY <1>1, <1>2 DEF Fractions, Comparable
<1>4. PICK G1 : Leading(c, F, G1)
  <2>1. F \in SUBSET F
    OBVIOUS
  <2> QED
    BY <1>1, <1>3, <2>1, LeadersExist
<1>5. G1 \in SUBSET F /\ G1 # {} /\ IsFiniteSet(G1)
  BY <1>1, <1>4, FS_Subset DEF Leading
<1>6. PICK G2 : Leading(l, G1, G2)
  BY <1>3, <1>5, LeadersExist
<1>7. G2 \in SUBSET G1 /\ G2 \in SUBSET F /\ G2 # {} /\ IsFiniteSet(G2)
  BY <1>5, <1>6, FS_Subset DEF Leading
<1>8. PICK G3 : Trailing(q, G2, G3)
  BY <1>3, <1>7, LeadersExist
<1>9. G3 \in SUBSET G2 /\ G3 \in SUBSET G1 /\ G3 \in SUBSET F /\ G3 # {} /\ IsFiniteSet(G3)
  BY <1>7, <1>8, FS_Subset DEF Trailing
<1>10. PICK G4 : Trailing(a, G3, G4)
  BY <1>3, <1>9, LeadersExist
<1>11. G4 \in SUBSET G3 /\ G4 \in SUBSET F /\ G4 # {} /\ IsFiniteSet(G4)
  BY <1>9, <1>10, FS_Subset DEF Trailing
<1>a. PICK n : n = [p \in F |-> -(s.names[p.profile])]
  BY Zenon
<1>12. PICK T : T = {n[p] : p \in G4}
  BY Zenon
<1>13. \A p \in G4 : n[p] = -(s.names[p.profile]) /\ s.names[p.profile] \in Int
  BY <1>1, <1>11, <1>a
<1>14. T \in SUBSET Int /\ T # {} /\ IsFiniteSet(T)
  <2>1. IsFiniteSet(T)
    BY <1>11, <1>12, ImageFinite
  <2>2. \A p \in G4 : n[p] \in Int
    BY <1>13
  <2> QED
    BY <1>11, <1>12, <2>1, <2>2
<1>15. PICK m \in T : \A k \in T : k <= m
  BY <1>14, GreatestNumber
<1>16. PICK p \in G4 : n[p] = m
  BY <1>12, <1>15
<1>17. ASSUME NEW o \in F PROVE Preferred(s.names, p, o)
  <2>0. p \in F /\ p \in G3 /\ p \in G2 /\ p \in G1
    BY <1>7, <1>9, <1>11
  <2>1. CASE o \notin G1
    BY <1>3, <1>4, <2>0, <2>1 DEF Leading, Preferred
  <2>2. ASSUME o \in G1 PROVE Leq(p.cost, o.cost) /\ Leq(o.cost, p.cost)
    BY <1>3, <1>4, <2>0, <2>2 DEF Leading
  <2>3. CASE o \in G1 /\ o \notin G2
    BY <1>3, <1>6, <2>0, <2>2, <2>3 DEF Leading, Preferred
  <2>4. ASSUME o \in G2 PROVE o \in G1 /\ Leq(p.latency, o.latency) /\ Leq(o.latency, p.latency)
    BY <1>3, <1>6, <1>7, <2>0, <2>4 DEF Leading
  <2>5. CASE o \in G2 /\ o \notin G3
    BY <1>3, <1>8, <2>0, <2>2, <2>4, <2>5 DEF Trailing, Preferred
  <2>6. ASSUME o \in G3 PROVE o \in G2 /\ Leq(p.pass1, o.pass1) /\ Leq(o.pass1, p.pass1)
    BY <1>3, <1>8, <1>9, <2>0, <2>6 DEF Trailing
  <2>7. CASE o \in G3 /\ o \notin G4
    BY <1>3, <1>10, <2>0, <2>2, <2>4, <2>6, <2>7 DEF Trailing, Preferred
  <2>8. CASE o \in G4
    <3>1. o \in G3 /\ Leq(p.audit, o.audit) /\ Leq(o.audit, p.audit)
      BY <1>3, <1>10, <1>11, <2>0, <2>8 DEF Trailing
    <3>2. n[o] <= n[p]
      BY <1>12, <1>15, <1>16, <2>8
    <3>3. PICK u \in Int, v \in Int : u = s.names[p.profile] /\ v = s.names[o.profile]
      BY <1>13, <2>8
    <3>4. u <= v
      BY <1>13, <2>8, <3>2, <3>3
    <3> QED
      BY <2>2, <2>4, <2>6, <3>1, <3>3, <3>4 DEF Preferred
  <2> QED
    BY <2>1, <2>3, <2>5, <2>7, <2>8
<1> QED
  BY <1>11, <1>17

\* What dominates the choice also meets the constraints, so it would have been
\* chosen had it been cheaper, faster, more successful or more auditable.
Limits(c) ==
  Fraction(c.pass1) /\ Fraction(c.severe) /\ Fraction(c.audit) /\ Fraction(c.cost) /\ Fraction(c.latency)

LEMMA DominatorFits ==
  ASSUME NEW p, NEW q, NEW c, Comparable(p), Comparable(q), Limits(c), NoWorse(p, q), MeetsConstraints(q, c)
  PROVE  MeetsConstraints(p, c)
<1>1. Leq(p.severe, c.severe)
  BY LeqTransitive DEF NoWorse, Comparable, Limits, MeetsConstraints
<1>2. Leq(p.cost, c.cost)
  BY LeqTransitive DEF NoWorse, Comparable, Limits, MeetsConstraints
<1>3. Leq(p.latency, c.latency)
  BY LeqTransitive DEF NoWorse, Comparable, Limits, MeetsConstraints
<1>4. Leq(c.pass1, p.pass1)
  BY LeqTransitive DEF NoWorse, Comparable, Limits, MeetsConstraints
<1>5. Leq(c.audit, p.audit)
  BY LeqTransitive DEF NoWorse, Comparable, Limits, MeetsConstraints
<1> QED
  BY <1>1, <1>2, <1>3, <1>4, <1>5 DEF MeetsConstraints

LEMMA OnlySevereDiffers ==
  ASSUME NEW order, NEW p, NEW q, IsProfile(p), Comparable(p), Comparable(q), NoWorse(p, q), Preferred(order, q, p)
  PROVE  NoWorse(q, [p EXCEPT !.severe = q.severe])
<1>1. PICK x : x = [p EXCEPT !.severe = q.severe]
  BY Zenon
<1>2. /\ x.pass1 = p.pass1 /\ x.audit = p.audit /\ x.cost = p.cost /\ x.latency = p.latency
      /\ x.severe = q.severe
  <2>1. x = [profile |-> p.profile, records |-> p.records, pass1 |-> p.pass1, repeats |-> p.repeats,
             severe |-> q.severe, audit |-> p.audit, latency |-> p.latency, cost |-> p.cost]
    BY <1>1 DEF IsProfile
  <2> QED
    BY <2>1
<1>3. Leq(q.severe, q.severe)
  BY LeqIsTotal DEF Comparable
<1>4. Leq(q.pass1, p.pass1) /\ Leq(q.audit, p.audit) /\ Leq(p.cost, q.cost) /\ Leq(p.latency, q.latency)
  BY DEF NoWorse
<1>5. Leq(q.cost, p.cost) /\ Leq(q.latency, p.latency) /\ Leq(p.pass1, q.pass1) /\ Leq(p.audit, q.audit)
  BY <1>4 DEF Preferred, Less
<1> QED
  BY <1>1, <1>2, <1>3, <1>5 DEF NoWorse

LEMMA SelectionEfficient ==
  ASSUME study \in Studies, report = AnalysisReport(study)
  PROVE  SelectionIsEfficient
<1> SUFFICES ASSUME Built PROVE SelectionIsEfficient
  BY DEF SelectionIsEfficient
<1>1. BuiltFrom(study, report)
  BY ReportIs DEF Built
<1>2. PICK s, C, min, fr : s = study /\ C = Candidates(report.profiles) /\ min = report.minimum /\ fr = report.frontier
  OBVIOUS
<1>3. /\ Contenders(C, s) /\ min = MinimumSufficient(s, C)
      /\ fr = {p.profile : p \in ParetoFrontier(C)}
  BY <1>1, <1>2, CandidatesAre DEF BuiltFrom
<1>4. Limits(s.constraints)
  BY <1>2, AnalysisAssumption DEF Limits
<1>5. {p \in C : p.profile \in fr} = ParetoFrontier(C)
  <2>1. ParetoFrontier(C) \in SUBSET C
    BY DEF ParetoFrontier
  <2>2. ASSUME NEW p \in C, p.profile \in fr PROVE p \in ParetoFrontier(C)
    <3>1. PICK q \in ParetoFrontier(C) : p.profile = q.profile
      BY <1>3, <2>2
    <3> QED
      BY <1>3, <2>1, <3>1 DEF Contenders
  <2>3. \A p \in ParetoFrontier(C) : p.profile \in fr
    BY <1>3
  <2> QED
    BY <2>1, <2>2, <2>3
<1>6. \A p \in C \ ParetoFrontier(C) : \E o \in ParetoFrontier(C) : Dominates(o, p)
  BY <1>3, FrontierDominates
<1>7. PICK fit : fit = {p \in C : MeetsConstraints(p, s.constraints)}
  BY Zenon
<1>8. PICK best : best = CHOOSE p \in fit : \A o \in fit : Preferred(s.names, p, o)
  OBVIOUS
<1>9. min = IF C = {} \/ fit = {} THEN NoValue ELSE best.profile
  <2> DEFINE F == {p \in C : MeetsConstraints(p, s.constraints)}
  <2>1. min = IF C = {} \/ F = {} THEN NoValue
              ELSE (CHOOSE p \in F : \A o \in F : Preferred(s.names, p, o)).profile
    BY <1>3, Zenon DEF MinimumSufficient
  <2>2. F = fit
    BY <1>7
  <2> HIDE DEF F
  <2> QED
    BY <1>8, <2>1, <2>2
<1>10. ASSUME fit # {} PROVE best \in fit /\ \A o \in fit : Preferred(s.names, best, o)
  <2>1. fit \in SUBSET C
    BY <1>7
  <2>2. \E p \in fit : \A o \in fit : Preferred(s.names, p, o)
    BY <1>3, <1>10, <2>1, PreferredExists
  <2> QED
    BY <1>8, <2>2, Zenon
<1>11. ASSUME min = NoValue, NEW p \in C PROVE ~MeetsConstraints(p, s.constraints)
  <2> SUFFICES ASSUME fit # {} PROVE FALSE
    BY <1>7
  <2>1. best \in C /\ min = best.profile
    BY <1>7, <1>9, <1>10
  <2> QED
    BY <1>3, <1>11, <2>1 DEF Contenders
<1> DEFINE named(id) == CHOOSE p \in C : p.profile = id
<1>12. ASSUME min # NoValue
       PROVE  /\ MeetsConstraints(named(min), s.constraints)
              /\ \A p \in C : Dominates(p, named(min)) => NoWorse(named(min), [p EXCEPT !.severe = named(min).severe])
  <2>1. fit # {} /\ min = best.profile
    BY <1>9, <1>12
  <2>2. best \in C /\ MeetsConstraints(best, s.constraints) /\ \A o \in fit : Preferred(s.names, best, o)
    BY <1>7, <1>10, <2>1
  <2>3. \A p \in C : p.profile = min => p = best
    BY <1>3, <2>1, <2>2 DEF Contenders
  <2>4. named(min) = best
    BY <2>1, <2>2, <2>3
  <2> HIDE DEF named
  <2>5. ASSUME NEW p \in C, Dominates(p, best) PROVE NoWorse(best, [p EXCEPT !.severe = best.severe])
    <3>1. IsProfile(p) /\ Comparable(p) /\ Comparable(best) /\ NoWorse(p, best)
      BY <1>3, <2>2, <2>5 DEF Contenders, Dominates
    <3>2. MeetsConstraints(p, s.constraints)
      BY <1>4, <2>2, <3>1, DominatorFits
    <3>3. Preferred(s.names, best, p)
      BY <1>7, <2>2, <3>2
    <3> QED
      BY <3>1, <3>3, OnlySevereDiffers
  <2>6. PICK b : b = best
    OBVIOUS
  <2> QED
    BY <2>2, <2>4, <2>5
<1>13. PICK FR : FR = ParetoFrontier(C)
  OBVIOUS
<1>14. \A p \in C \ FR : \E o \in FR : Dominates(o, p)
  BY <1>6, <1>13
<1>15. FR = {p \in Candidates(report.profiles) : p.profile \in report.frontier}
  BY <1>2, <1>5, <1>13
<1>16. \A p \in Candidates(report.profiles) \ {q \in Candidates(report.profiles) : q.profile \in report.frontier} :
         \E o \in {q \in Candidates(report.profiles) : q.profile \in report.frontier} : Dominates(o, p)
  BY <1>2, <1>14, <1>15
<1> HIDE DEF named
<1>17. IF report.minimum = NoValue
       THEN \A p \in Candidates(report.profiles) : ~MeetsConstraints(p, study.constraints)
       ELSE /\ MeetsConstraints(named(min), study.constraints)
            /\ \A p \in Candidates(report.profiles) :
                  Dominates(p, named(min)) => NoWorse(named(min), [p EXCEPT !.severe = named(min).severe])
  BY <1>2, <1>11, <1>12
<1>18. named(min) = CHOOSE p \in Candidates(report.profiles) : p.profile = report.minimum
  BY <1>2 DEF named
<1> QED
  BY <1>16, <1>17, <1>18, Zenon DEF SelectionIsEfficient

-----------------------------------------------------------------------------
\* Sums of differences, and sums over a set told off against another.
LEMMA SumMinus ==
  ASSUME NEW G, IsFiniteSet(G), NEW f, NEW g, NEW h, Terms(g, G), Terms(h, G), \A x \in G : f[x] = g[x] - h[x]
  PROVE  SetSums(f, G)[G] = SetSums(g, G)[G] - SetSums(h, G)[G]
<1>0. Terms(f, G)
  BY DEF Terms
<1> DEFINE S == {n \in Nat : \A s \in Small(G, n) : SetSums(f, G)[s] = SetSums(g, G)[s] - SetSums(h, G)[s]}
<1>1. 0 \in S
  <2>1. ASSUME NEW s \in Small(G, 0) PROVE SetSums(f, G)[s] = SetSums(g, G)[s] - SetSums(h, G)[s]
    <3>1. s = {} /\ s \in SUBSET G
      BY NoneSmaller DEF Small
    <3>2. SetSums(f, G)[s] = 0 /\ SetSums(g, G)[s] = 0 /\ SetSums(h, G)[s] = 0
      BY <1>0, <3>1, SumStep, Zenon
    <3> QED
      BY <3>2
  <2> QED
    BY <2>1
<1>2. ASSUME NEW n \in S PROVE n + 1 \in S
  <2> SUFFICES ASSUME NEW s \in Small(G, n + 1)
               PROVE  SetSums(f, G)[s] = SetSums(g, G)[s] - SetSums(h, G)[s]
    OBVIOUS
  <2>0. s \in SUBSET G /\ Cardinality(s) <= n + 1
    BY DEF Small
  <2>1. CASE s = {}
    <3>1. SetSums(f, G)[s] = 0 /\ SetSums(g, G)[s] = 0 /\ SetSums(h, G)[s] = 0
      BY <1>0, <2>0, <2>1, SumStep, Zenon
    <3> QED
      BY <3>1
  <2>2. CASE s # {}
    <3>1. PICK x, u : x = Pick(s) /\ u = s \ {Pick(s)}
      BY Zenon
    <3>2. /\ x \in s /\ Cardinality(s) \in Nat /\ u \in SUBSET G
          /\ Cardinality(u) = Cardinality(s) - 1
      BY <2>0, <2>2, <3>1, PickOne, Zenon
    <3>3. u \in Small(G, n)
      BY <2>0, <3>2 DEF Small
    <3>4. SetSums(f, G)[u] = SetSums(g, G)[u] - SetSums(h, G)[u]
      BY <3>3
    <3>5. /\ SetSums(f, G)[s] = f[x] + SetSums(f, G)[u]
          /\ SetSums(g, G)[s] = g[x] + SetSums(g, G)[u]
          /\ SetSums(h, G)[s] = h[x] + SetSums(h, G)[u]
      <4>1. /\ SetSums(f, G)[s] = f[Pick(s)] + SetSums(f, G)[s \ {Pick(s)}]
            /\ SetSums(g, G)[s] = g[Pick(s)] + SetSums(g, G)[s \ {Pick(s)}]
            /\ SetSums(h, G)[s] = h[Pick(s)] + SetSums(h, G)[s \ {Pick(s)}]
        BY <1>0, <2>0, <2>2, SumStep
      <4> QED
        BY <3>1, <4>1
    <3>6. PICK a \in Int, b \in Int, c \in Int, d \in Int :
            a = g[x] /\ b = h[x] /\ c = SetSums(g, G)[u] /\ d = SetSums(h, G)[u]
      BY <2>0, <3>2, SumStep, Zenon DEF Terms
    <3>7. f[x] = a - b
      BY <2>0, <3>2, <3>6
    <3> QED
      BY <3>4, <3>5, <3>6, <3>7
  <2> QED
    BY <2>1, <2>2
<1>3. S = Nat
  <2>1. S \in SUBSET Nat
    OBVIOUS
  <2> HIDE DEF S
  <2> QED
    BY <1>1, <1>2, <2>1, SetInduction
<1>4. Cardinality(G) \in Nat /\ G \in Small(G, Cardinality(G))
  BY FS_CardinalityType DEF Small
<1> QED
  BY <1>3, <1>4

LEMMA EmptySum ==
  ASSUME NEW G, IsFiniteSet(G), NEW f, Terms(f, G)
  PROVE  SetSums(f, G)[{}] = 0
<1>1. {} \in SUBSET G
  OBVIOUS
<1> QED
  BY <1>1, SumStep, Zenon

Img(b, s) == {b[x] : x \in s}

LEMMA SumReindexed ==
  ASSUME NEW D, IsFiniteSet(D), NEW A, IsFiniteSet(A), NEW b \in Bijection(D, A),
         NEW f, Terms(f, A), NEW g, \A x \in D : g[x] = f[b[x]]
  PROVE  SetSums(g, D)[D] = SetSums(f, A)[A]
<1>0. /\ \A x \in D : b[x] \in A
      /\ \A x, y \in D : b[x] = b[y] => x = y
      /\ \A z \in A : \E x \in D : b[x] = z
  BY DEF Bijection, Injection, Surjection, IsInjective
<1>a. Terms(g, D)
  BY <1>0 DEF Terms
<1> DEFINE S == {n \in Nat : \A s \in Small(D, n) : SetSums(g, D)[s] = SetSums(f, A)[Img(b, s)]}
<1>1. 0 \in S
  <2>1. ASSUME NEW s \in Small(D, 0) PROVE SetSums(g, D)[s] = SetSums(f, A)[Img(b, s)]
    <3>1. s = {} /\ s \in SUBSET D
      BY NoneSmaller DEF Small
    <3>2. Img(b, s) = {} /\ Img(b, s) \in SUBSET A
      BY <3>1 DEF Img
    <3>3. SetSums(g, D)[s] = 0
      BY <1>a, <3>1, EmptySum, Zenon
    <3>4. SetSums(f, A)[Img(b, s)] = 0
      BY <3>2, EmptySum, Zenon
    <3> QED
      BY <3>3, <3>4
  <2> QED
    BY <2>1
<1>2. ASSUME NEW n \in S PROVE n + 1 \in S
  <2> SUFFICES ASSUME NEW s \in Small(D, n + 1)
               PROVE  SetSums(g, D)[s] = SetSums(f, A)[Img(b, s)]
    OBVIOUS
  <2>0. s \in SUBSET D /\ Cardinality(s) <= n + 1
    BY DEF Small
  <2>a. PICK t : t = Img(b, s)
    OBVIOUS
  <2>b. t \in SUBSET A
    BY <1>0, <2>0, <2>a DEF Img
  <2>1. CASE s = {}
    <3>1. t = {}
      BY <2>1, <2>a DEF Img
    <3>2. SetSums(g, D)[{}] = 0 /\ SetSums(f, A)[{}] = 0
      BY <1>a, EmptySum, Zenon
    <3> QED
      BY <2>1, <2>a, <3>1, <3>2
  <2>2. CASE s # {}
    <3>1. PICK x, u : x = Pick(s) /\ u = s \ {Pick(s)}
      BY Zenon
    <3>2. /\ x \in s /\ Cardinality(s) \in Nat /\ u \in SUBSET D
          /\ Cardinality(u) = Cardinality(s) - 1
      BY <2>0, <2>2, <3>1, PickOne
    <3>3. u \in Small(D, n)
      BY <2>0, <3>2 DEF Small
    <3>4. SetSums(g, D)[u] = SetSums(f, A)[Img(b, u)]
      BY <3>3
    <3>5. SetSums(g, D)[s] = g[x] + SetSums(g, D)[u]
      <4>1. SetSums(g, D)[s] = g[Pick(s)] + SetSums(g, D)[s \ {Pick(s)}]
        BY <1>a, <2>0, <2>2, SumStep
      <4> QED
        BY <3>1, <4>1
    <3>6. b[x] \in t /\ t \ {b[x]} = Img(b, u)
      BY <1>0, <2>0, <2>a, <3>1, <3>2 DEF Img
    <3>7. SetSums(f, A)[t] = f[b[x]] + SetSums(f, A)[t \ {b[x]}]
      BY <2>b, <3>6, SumTakesOut
    <3>8. g[x] = f[b[x]]
      BY <2>0, <3>2
    <3> QED
      BY <2>a, <3>4, <3>5, <3>6, <3>7, <3>8
  <2> QED
    BY <2>1, <2>2
<1>3. S = Nat
  <2>1. S \in SUBSET Nat
    OBVIOUS
  <2> HIDE DEF S
  <2> QED
    BY <1>1, <1>2, <2>1, SetInduction
<1>4. Cardinality(D) \in Nat /\ D \in Small(D, Cardinality(D))
  BY FS_CardinalityType DEF Small
<1>5. Img(b, D) = A
  BY <1>0 DEF Img
<1> QED
  BY <1>3, <1>4, <1>5

-----------------------------------------------------------------------------
\* Every episode has a record of its own, told by its unit.
LEMMA RecordsAreEpisodes ==
  ASSUME NEW s \in Studies, ValidInput(s, Records(s))
  PROVE  /\ Cardinality(Records(s)) = Cardinality(s.episodes)
         /\ \A r, q \in Records(s) : r.unit = q.unit => r = q
<1>1. PICK E, R, U : E = s.episodes /\ R = Records(s) /\ U = {r.unit : r \in R}
  BY Zenon
<1>2. IsFiniteSet(E) /\ IsFiniteSet(R)
  BY <1>1, RecordsFinite
<1>3. Cardinality(U) = Cardinality(E)
  BY <1>1 DEF ValidInput
<1>4. PICK f, u : f = [e \in E |-> EpisodeRecord(e)] /\ u = [r \in R |-> r.unit]
  BY Zenon
<1>5. f \in Surjection(E, R)
  BY <1>1, <1>4 DEF Surjection, Records
<1>6. u \in Surjection(R, U)
  BY <1>1, <1>4 DEF Surjection
<1>7. Cardinality(R) <= Cardinality(E)
  BY <1>2, <1>5, FS_Surjection
<1>8. Cardinality(U) <= Cardinality(R) /\ (Cardinality(U) = Cardinality(R) <=> u \in Injection(R, U))
  BY <1>2, <1>6, FS_Surjection
<1>9. Cardinality(R) \in Nat /\ Cardinality(E) \in Nat
  BY <1>2, FS_CardinalityType
<1>10. Cardinality(R) = Cardinality(E)
  BY <1>3, <1>7, <1>8, <1>9
<1>11. u \in Injection(R, U)
  BY <1>3, <1>8, <1>10
<1>12. \A r, q \in R : r.unit = q.unit => r = q
  BY <1>4, <1>11 DEF Injection, IsInjective
<1> QED
  BY <1>1, <1>10, <1>12

\* The profiles share out the records.
LEMMA ProfilesShareOut ==
  ASSUME NEW s \in Studies, NEW P, P = ProfileReports(Records(s), s.passK)
  PROVE  Summed([p \in P |-> p.pass1[2]]) = Cardinality(Records(s))
<1>1. PICK R, counts, v : /\ R = Records(s) /\ counts = [p \in P |-> p.pass1[2]]
                          /\ v = [r \in Records(s) |-> ProfileReport(r.scaffold, Records(s), s.passK)]
  BY Zenon
<1>2. IsFiniteSet(R) /\ IsFiniteSet(P)
  BY <1>1, RecordsFinite, ProfilesFinite
<1>3. \A r \in R : v[r] \in P /\ v[r] = ProfileReport(r.scaffold, R, s.passK)
  BY <1>1 DEF ProfileReports
<1>4. \A p \in P : ProfileIs(p, s) /\ p = ProfileReport(p.profile, R, s.passK)
  BY <1>1, ProfilesAre
<1>a. \A sc : ProfileReport(sc, R, s.passK).profile = sc
  BY DEF ProfileReport
<1>5. ASSUME NEW p \in P PROVE counts[p] = Cardinality(Class(R, v, {p}))
  <2>1. counts[p] = Cardinality(p.records) /\ p.records = OwnRecords(R, p.profile)
    BY <1>1, <1>4 DEF ProfileIs
  <2>2. PICK x : x = p.profile
    OBVIOUS
  <2>3. ASSUME NEW r \in R PROVE v[r] = p <=> r.scaffold = x
    <3>1. v[r] = p => r.scaffold = x
      BY <1>3, <1>a, <2>2
    <3>2. p = ProfileReport(x, R, s.passK)
      BY <1>4, <2>2
    <3> QED
      BY <1>3, <3>1, <3>2
  <2>4. Class(R, v, {p}) = OwnRecords(R, x)
    BY <2>3 DEF Class, OwnRecords
  <2> QED
    BY <2>1, <2>2, <2>4
<1>6. Counts(counts, R, v, P)
  BY <1>3, <1>5 DEF Counts
<1>7. SetSums(counts, P)[P] = Cardinality(R)
  BY <1>2, <1>6, CountsAddUp
<1>8. DOMAIN counts = P
  BY <1>1
<1> QED
  BY <1>1, <1>7, <1>8, SummedIs

-----------------------------------------------------------------------------
\* Repeats: the first k of a group, in the order of their numbers.
Numbered(g) ==
  /\ IsFiniteSet(g) /\ \A r \in g : r.repeat \in Int
  /\ \A r, q \in g : r.repeat = q.repeat => r = q

LEMMA FirstRepeatsAre ==
  ASSUME NEW g, Numbered(g), NEW k \in Nat \ {0}, Cardinality(g) >= k
  PROVE  /\ FirstRepeats(g, k) \in SUBSET g /\ FirstRepeats(g, k) # {}
         /\ Cardinality(FirstRepeats(g, k)) = k
         /\ \A x \in g \ FirstRepeats(g, k), o \in FirstRepeats(g, k) : o.repeat < x.repeat
<1>1. IsFiniteSet(g) /\ \A r \in g : r.repeat \in Int
  BY DEF Numbered
<1>2. PICK n \in Nat : n = Cardinality(g)
  BY <1>1, FS_CardinalityType
<1>3. PICK L : L = {q \in g \X g : q[1].repeat <= q[2].repeat}
  BY Zenon
<1>4. \A r, q \in g : <<r, q>> \in L <=> r.repeat <= q.repeat
  BY <1>3
<1>5. Linear(L, g)
  <2>1. L \in SUBSET (g \X g)
    BY <1>3
  <2>2. ASSUME NEW i \in g, NEW j \in g PROVE <<i, j>> \in L \/ <<j, i>> \in L
    BY <1>1, <1>4
  <2>3. ASSUME NEW i \in g, NEW j \in g, <<i, j>> \in L, <<j, i>> \in L PROVE i = j
    <3>1. i.repeat = j.repeat
      BY <1>1, <1>4, <2>3
    <3> QED
      BY <3>1 DEF Numbered
  <2>4. ASSUME NEW i \in g, NEW j \in g, NEW m \in g, <<i, j>> \in L, <<j, m>> \in L PROVE <<i, m>> \in L
    BY <1>1, <1>4, <2>4
  <2> QED
    BY <2>1, <2>2, <2>3, <2>4 DEF Linear
<1>6. PICK p : p = [i \in g |-> Cardinality(UpTo(L, g, i))]
  BY Zenon
<1>7. Arranges(p, g, n, L)
  BY <1>1, <1>2, <1>5, <1>6, RanksArrange
<1>8. ASSUME NEW r \in g PROVE p[r] = Cardinality({o \in g : o.repeat < r.repeat}) + 1 /\ p[r] \in 1 .. n
  <2>1. PICK A : A = {o \in g : o.repeat < r.repeat}
    BY Zenon
  <2>2. UpTo(L, g, r) = A \cup {r}
    <3>1. ASSUME NEW o \in g PROVE o.repeat <= r.repeat <=> o.repeat < r.repeat \/ o = r
      <4>1. PICK a \in Int, b \in Int : a = o.repeat /\ b = r.repeat
        BY <1>1
      <4>2. a = b => o = r
        BY <4>1, Zenon DEF Numbered
      <4> QED
        BY <4>1, <4>2
    <3> QED
      BY <1>4, <2>1, <3>1 DEF UpTo
  <2>3. r \notin A
    BY <1>1, <2>1
  <2>4. IsFiniteSet(A)
    <3>1. A \in SUBSET g
      BY <2>1
    <3> QED
      BY <1>1, <3>1, FS_Subset
  <2>5. Cardinality(A \cup {r}) = Cardinality(A) + 1
    BY <2>3, <2>4, FS_AddElement
  <2>6. p[r] = Cardinality(A \cup {r})
    BY <1>6, <2>2
  <2> QED
    BY <1>7, <2>1, <2>5, <2>6 DEF Arranges
<1>b. \A r \in g : p[r] \in Int /\ 1 <= p[r] /\ p[r] <= n
  BY <1>7 DEF Arranges
<1>9. PICK F : F = FirstRepeats(g, k)
  OBVIOUS
<1>10. ASSUME NEW r \in g PROVE r \in F <=> p[r] <= k
  <2>1. PICK c : c = Cardinality({o \in g : o.repeat < r.repeat})
    OBVIOUS
  <2>2. p[r] = c + 1 /\ p[r] \in Int
    BY <1>8, <2>1
  <2>3. c \in Nat
    <3>1. {o \in g : o.repeat < r.repeat} \in SUBSET g
      OBVIOUS
    <3> QED
      BY <1>1, <2>1, <3>1, FS_Subset, FS_CardinalityType
  <2>4. r \in F <=> c < k
    BY <1>9, <2>1 DEF FirstRepeats
  <2> QED
    BY <2>2, <2>3, <2>4
<1>11. F \in SUBSET g
  BY <1>9 DEF FirstRepeats
<1>12. PICK a : a = [i \in F |-> p[i]]
  BY Zenon
<1>13. k <= n
  BY <1>2
<1>14. PICK T : T = 1 .. k
  OBVIOUS
<1>15. a \in Bijection(F, T)
  <2>1. a \in [F -> T]
    BY <1>b, <1>10, <1>11, <1>12, <1>14
  <2>2. \A i, j \in F : a[i] = a[j] => i = j
    BY <1>7, <1>11, <1>12 DEF Arranges
  <2>3. ASSUME NEW m \in T PROVE \E i \in F : a[i] = m
    <3>1. m \in 1 .. n /\ m <= k
      BY <1>13, <1>14
    <3>2. PICK i \in g : p[i] = m
      BY <1>7, <3>1 DEF Arranges
    <3>3. i \in F
      BY <1>10, <3>1, <3>2
    <3> QED
      BY <1>12, <3>2, <3>3
  <2> QED
    BY <2>1, <2>2, <2>3 DEF Bijection, Injection, Surjection, IsInjective
<1>16. Cardinality(F) = k
  <2>1. IsFiniteSet(F)
    BY <1>1, <1>11, FS_Subset
  <2>2. Cardinality(F) = Cardinality(T)
    BY <1>15, <2>1, FS_Bijection DEF ExistsBijection
  <2>3. Cardinality(T) = k
    BY <1>14, IntervalIs
  <2> QED
    BY <2>2, <2>3
<1>17. F # {}
  BY <1>16, FS_EmptySet
<1>18. ASSUME NEW x \in g \ F, NEW o \in F PROVE o.repeat < x.repeat
  <2>1. x \in g /\ o \in g /\ ~(p[x] <= k) /\ p[o] <= k
    BY <1>10, <1>11
  <2>2. p[o] < p[x] /\ p[o] # p[x]
    BY <1>b, <2>1
  <2>3. <<o, x>> \in L
    BY <1>7, <2>1, <2>2 DEF Arranges
  <2>4. PICK u \in Int, v \in Int : u = o.repeat /\ v = x.repeat
    BY <1>1, <2>1
  <2>5. u # v
    <3>1. u = v => o = x
      BY <2>1, <2>4, Zenon DEF Numbered
    <3> QED
      BY <2>2, <3>1
  <2>6. u <= v
    BY <1>4, <2>1, <2>3, <2>4
  <2> QED
    BY <2>4, <2>5, <2>6
<1> QED
  BY <1>9, <1>11, <1>16, <1>17, <1>18

\* Groups partition the records of a profile.
Group(own, x) == {r \in own : r.task = x.task /\ r.factors = x.factors /\ r.variant = x.variant}

UnitOf(r) ==
  [task |-> r.task, scaffold |-> r.scaffold, factors |-> r.factors, variant |-> r.variant, repeat |-> r.repeat]

Own(own) ==
  /\ IsFiniteSet(own) /\ \A r \in own : r.repeat \in Int
  /\ \A r \in own : r.unit = UnitOf(r)
  /\ \A r, q \in own : r.scaffold = q.scaffold /\ (r.unit = q.unit => r = q)

LEMMA GroupsAre ==
  ASSUME NEW own, Own(own), NEW x \in own
  PROVE  /\ Group(own, x) \in SUBSET own /\ x \in Group(own, x) /\ Numbered(Group(own, x))
         /\ Group(own, x) \in RepeatGroups(own)
         /\ \A g \in RepeatGroups(own) : x \in g <=> g = Group(own, x)
<1>1. PICK G : G = Group(own, x)
  OBVIOUS
<1>2. G \in SUBSET own /\ x \in G
  BY <1>1 DEF Group
<1>3. Numbered(G)
  <2>1. IsFiniteSet(G)
    BY <1>2, FS_Subset DEF Own
  <2>2. ASSUME NEW r \in G, NEW q \in G, r.repeat = q.repeat PROVE r = q
    <3>1. r \in own /\ q \in own /\ r.task = q.task /\ r.factors = q.factors /\ r.variant = q.variant
      BY <1>1 DEF Group
    <3>2. r.unit = q.unit
      <4>1. r.unit = UnitOf(r) /\ q.unit = UnitOf(q) /\ r.scaffold = q.scaffold
        BY <3>1 DEF Own
      <4>2. UnitOf(r) = UnitOf(q)
        BY <2>2, <3>1, <4>1 DEF UnitOf
      <4> QED
        BY <4>1, <4>2
    <3> QED
      BY <3>1, <3>2 DEF Own
  <2> QED
    BY <1>2, <2>1, <2>2 DEF Numbered, Own
<1>4. G \in RepeatGroups(own)
  BY <1>1 DEF RepeatGroups, Group
<1>5. ASSUME NEW g \in RepeatGroups(own), x \in g PROVE g = G
  <2>1. PICK y \in own : g = Group(own, y)
    BY DEF RepeatGroups, Group
  <2> QED
    BY <1>1, <1>5, <2>1 DEF Group
<1> QED
  BY <1>1, <1>2, <1>3, <1>4, <1>5

\* The repeat series of a profile.
SeriesAddsUp(own, k, r) ==
  /\ r.powerK[2] = r.atK[2] /\ r.powerK[1] <= r.atK[1]
  /\ r.used \intersect r.excluded = {}
  /\ \A x \in own \ (r.used \union r.excluded) :
       Cardinality({o \in r.used : /\ [o.unit EXCEPT !.repeat = 0] = [x.unit EXCEPT !.repeat = 0]
                                   /\ o.repeat < x.repeat}) = k

LEMMA SameUnit ==
  ASSUME NEW own, Own(own), NEW o \in own, NEW x \in own
  PROVE  [o.unit EXCEPT !.repeat = 0] = [x.unit EXCEPT !.repeat = 0] <=> o \in Group(own, x)
<1>1. [o.unit EXCEPT !.repeat = 0] = [task |-> o.task, scaffold |-> o.scaffold, factors |-> o.factors,
                                      variant |-> o.variant, repeat |-> 0]
  <2>1. PICK u : u = o.unit
    OBVIOUS
  <2>2. u = UnitOf(o)
    BY <2>1 DEF Own
  <2>3. [u EXCEPT !.repeat = 0] = [task |-> o.task, scaffold |-> o.scaffold, factors |-> o.factors,
                                   variant |-> o.variant, repeat |-> 0]
    BY <2>2 DEF UnitOf
  <2> QED
    BY <2>1, <2>3
<1>2. [x.unit EXCEPT !.repeat = 0] = [task |-> x.task, scaffold |-> x.scaffold, factors |-> x.factors,
                                      variant |-> x.variant, repeat |-> 0]
  <2>1. PICK u : u = x.unit
    OBVIOUS
  <2>2. u = UnitOf(x)
    BY <2>1 DEF Own
  <2>3. [u EXCEPT !.repeat = 0] = [task |-> x.task, scaffold |-> x.scaffold, factors |-> x.factors,
                                   variant |-> x.variant, repeat |-> 0]
    BY <2>2 DEF UnitOf
  <2> QED
    BY <2>1, <2>3
<1>3. o.scaffold = x.scaffold
  BY DEF Own
<1> QED
  BY <1>1, <1>2, <1>3 DEF Group

LEMMA SeriesIs ==
  ASSUME NEW own, Own(own), NEW k \in Nat \ {0}
  PROVE  SeriesAddsUp(own, k, RepeatSeries(own, k))
<1>1. PICK GS, full, short, complete :
         /\ GS = RepeatGroups(own) /\ full = {g \in RepeatGroups(own) : Cardinality(g) >= k}
         /\ short = {g \in RepeatGroups(own) : Cardinality(g) < k}
         /\ complete = {FirstRepeats(g, k) : g \in {g \in RepeatGroups(own) : Cardinality(g) >= k}}
  BY Zenon
<1>2. PICK r, won, all, used, excluded :
         /\ r = RepeatSeries(own, k)
         /\ won = {g \in complete : \E q \in g : q.success} /\ all = {g \in complete : \A q \in g : q.success}
         /\ used = UNION complete /\ excluded = UNION short
  BY Zenon
<1>3. /\ r.atK = Rate(won, complete) /\ r.powerK = Rate(all, complete)
      /\ r.used = used /\ r.excluded = excluded
  <2>1. r = [atK |-> Rate(won, complete), powerK |-> Rate(all, complete), used |-> used, excluded |-> excluded]
    BY <1>1, <1>2, Zenon DEF RepeatSeries
  <2> QED
    BY <2>1
<1>4. ASSUME NEW g \in GS PROVE g \in SUBSET own /\ Numbered(g) /\ \A x \in g : g = Group(own, x)
  <2>1. PICK y \in own : g = Group(own, y)
    BY <1>1 DEF RepeatGroups, Group
  <2>2. g \in SUBSET own /\ Numbered(g)
    BY <2>1, GroupsAre
  <2> QED
    BY <1>1, <2>2, GroupsAre
<1>5. ASSUME NEW g \in full
      PROVE  /\ g \in GS /\ FirstRepeats(g, k) \in SUBSET g /\ FirstRepeats(g, k) # {}
             /\ Cardinality(FirstRepeats(g, k)) = k
             /\ \A x \in g \ FirstRepeats(g, k), o \in FirstRepeats(g, k) : o.repeat < x.repeat
  <2>1. g \in GS /\ Cardinality(g) >= k
    BY <1>1
  <2> QED
    BY <1>4, <2>1, FirstRepeatsAre
<1>6. complete = {FirstRepeats(g, k) : g \in full}
  BY <1>1
<1>7. \A o : o \in used <=> \E g \in full : o \in FirstRepeats(g, k)
  BY <1>2, <1>6
<1>8. \A o : o \in excluded <=> \E g \in short : o \in g
  BY <1>2
<1>9. r.powerK[2] = r.atK[2] /\ r.powerK[1] <= r.atK[1]
  <2>1. IsFiniteSet(complete)
    <3>1. IsFiniteSet(SUBSET own)
      BY FS_SUBSET DEF Own
    <3>2. complete \in SUBSET (SUBSET own)
      BY <1>4, <1>5, <1>6
    <3> QED
      BY <3>1, <3>2, FS_Subset
  <2>2. \A f \in complete : f # {}
    BY <1>5, <1>6
  <2>3. all \in SUBSET won /\ won \in SUBSET complete
    BY <1>2, <2>2
  <2>4. IsFiniteSet(won)
    BY <2>1, <2>3, FS_Subset
  <2>5. Cardinality(all) <= Cardinality(won)
    BY <2>3, <2>4, FS_Subset
  <2> QED
    BY <1>3, <2>5 DEF Rate
<1>10. ASSUME NEW g \in full, NEW h \in short, NEW o, o \in g, o \in h PROVE FALSE
  <2>1. g \in GS /\ h \in GS /\ Cardinality(g) >= k /\ Cardinality(h) < k
    BY <1>1
  <2>2. g = Group(own, o) /\ h = Group(own, o)
    BY <1>4, <1>10, <2>1
  <2>3. g = h
    BY <2>2
  <2>4. Cardinality(g) \in Nat
    BY <1>4, <2>1, FS_CardinalityType DEF Numbered
  <2> QED
    BY <2>1, <2>3, <2>4
<1>11. used \intersect excluded = {}
  BY <1>5, <1>7, <1>8, <1>10
<1>12. ASSUME NEW x \in own \ (used \union excluded)
       PROVE  Cardinality({o \in used : /\ [o.unit EXCEPT !.repeat = 0] = [x.unit EXCEPT !.repeat = 0]
                                        /\ o.repeat < x.repeat}) = k
  <2>1. PICK g : g = Group(own, x)
    OBVIOUS
  <2>2. x \in own /\ x \in g /\ g \in GS
    BY <1>1, <2>1, GroupsAre, SMTT(30)
  <2>3. g \in full
    <3>1. g \notin short
      BY <1>8, <2>2
    <3>2. Cardinality(g) \in Nat
      BY <1>4, <2>2, FS_CardinalityType DEF Numbered
    <3> QED
      BY <1>1, <2>2, <3>1, <3>2
  <2>4. x \notin FirstRepeats(g, k)
    BY <1>7, <2>3
  <2>5. \A o \in used : o \in own
    BY <1>4, <1>5, <1>7
  <2>6. ASSUME NEW o \in used, o \in g PROVE o \in FirstRepeats(g, k)
    <3>1. PICK h \in full : o \in FirstRepeats(h, k)
      BY <1>7
    <3>2. h \in GS /\ o \in h
      BY <1>5, <3>1
    <3>3. h = g
      BY <1>4, <2>2, <2>6, <3>2
    <3> QED
      BY <3>1, <3>3
  <2>7. \A o \in FirstRepeats(g, k) : o \in used /\ o \in g /\ o.repeat < x.repeat
    BY <1>5, <1>7, <2>2, <2>3, <2>4
  <2>8. \A o \in used : [o.unit EXCEPT !.repeat = 0] = [x.unit EXCEPT !.repeat = 0] <=> o \in g
    BY <2>1, <2>2, <2>5, SameUnit, Zenon
  <2>9. {o \in used : /\ [o.unit EXCEPT !.repeat = 0] = [x.unit EXCEPT !.repeat = 0]
                      /\ o.repeat < x.repeat} = FirstRepeats(g, k)
    BY <2>6, <2>7, <2>8
  <2>10. Cardinality(FirstRepeats(g, k)) = k
    BY <1>5, <2>3
  <2> QED
    BY <2>9, <2>10, Zenon
<1>13. PICK v, w : v = r.used /\ w = r.excluded
  OBVIOUS
<1> QED
  BY <1>2, <1>3, <1>9, <1>11, <1>12, Zenon DEF SeriesAddsUp

-----------------------------------------------------------------------------
\* Pairs: the buckets are disjoint, and a sound one holds each combination of
\* levels once.
LEMMA PairsAre ==
  ASSUME NEW records, NEW factors, NEW needed, NEW paired, paired = PairRecords(records, factors, needed)
  PROVE  /\ \A b, c \in paired.buckets : b # c => b \intersect c = {}
         /\ paired.sound => \A b \in paired.buckets : /\ Cardinality(b) = Cardinality(needed)
                                                      /\ {Restricted(r.factors, factors) : r \in b} = needed
<1> DEFINE cell(r) == Restricted(r.factors, factors)
           ok(r) == r.pair # NoValue /\ factors \subseteq DOMAIN r.factors /\ cell(r) \in needed
           eligible == {r \in records : ok(r)}
           key(r) == <<r.pair, r.task, r.cluster, r.scaffold, r.variant,
                       Restricted(r.factors, DOMAIN r.factors \ factors)>>
           bucket(x) == {r \in eligible : key(r) = key(x)}
           buckets == {bucket(x) : x \in eligible}
           sound == \A b \in buckets : Cardinality(b) = Cardinality(needed) /\ {cell(r) : r \in b} = needed
<1>1. paired.buckets = buckets /\ (paired.sound => sound)
  <2>1. PairRecords(records, factors, needed) = [sound |-> sound /\ buckets # {}, buckets |-> buckets]
    BY Zenon DEF PairRecords
  <2>2. PICK q, B : q = (sound /\ buckets # {}) /\ B = buckets
    BY Zenon
  <2>3. paired = [sound |-> q, buckets |-> B]
    BY <2>1, <2>2, Zenon
  <2>4. paired.sound = q /\ paired.buckets = B
    BY <2>3
  <2> HIDE DEF sound, buckets
  <2> QED
    BY <2>2, <2>4, Zenon
<1> HIDE DEF ok, key
<1>2. \A b, c \in buckets : b # c => b \intersect c = {}
  <2> SUFFICES ASSUME NEW x \in eligible, NEW y \in eligible, NEW z, z \in bucket(x), z \in bucket(y)
               PROVE  bucket(x) = bucket(y)
    OBVIOUS
  <2> QED
    OBVIOUS
<1>3. sound => \A b \in buckets : Cardinality(b) = Cardinality(needed) /\ {Restricted(r.factors, factors) : r \in b} = needed
  <2> HIDE DEF buckets
  <2> QED
    OBVIOUS
<1> HIDE DEF sound, buckets
<1> QED
  BY <1>1, <1>2, <1>3

LevelOf(r, m) == r.factors[m.factor]
AtArm(b, m, l) == InCell(b, AtLevel(m.factor, l))

LEMMA CellIs ==
  ASSUME NEW r, NEW m, NEW l
  PROVE  /\ DOMAIN AtLevel(m.factor, l) = {m.factor}
         /\ Restricted(r.factors, {m.factor}) = AtLevel(m.factor, l) <=> LevelOf(r, m) = l
<1>1. PICK x, f : x = m.factor /\ f = r.factors
  OBVIOUS
<1>2. AtLevel(x, l) = [y \in {x} |-> l]
  BY DEF AtLevel
<1>3. Restricted(f, {x}) = [y \in {x} |-> f[y]]
  BY DEF Restricted
<1>4. ([y \in {x} |-> f[y]])[x] = f[x] /\ ([y \in {x} |-> l])[x] = l
  OBVIOUS
<1>5. f[x] = l => [y \in {x} |-> f[y]] = [y \in {x} |-> l]
  OBVIOUS
<1>6. DOMAIN [y \in {x} |-> l] = {x}
  OBVIOUS
<1> QED
  BY <1>1, <1>2, <1>3, <1>4, <1>5, <1>6 DEF LevelOf

LEMMA BucketArms ==
  ASSUME NEW m, NEW records, IsFiniteSet(records), MainPairs(m, records).sound,
         NEW b \in MainPairs(m, records).buckets, NEW l \in {m.control, m.treatment}
  PROVE  /\ AtArm(b, m, l) \in b /\ LevelOf(AtArm(b, m, l), m) = l
         /\ \A r \in b : LevelOf(r, m) = l => r = AtArm(b, m, l)
<1>1. PICK F, c, t : F = {m.factor} /\ c = AtLevel(m.factor, m.control) /\ t = AtLevel(m.factor, m.treatment)
  BY Zenon
<1>2. PICK needed, paired : needed = {c, t} /\ paired = MainPairs(m, records)
  BY Zenon
<1>3. paired = PairRecords(records, F, needed)
  BY <1>1, <1>2 DEF MainPairs
<1>4. Cardinality(b) = Cardinality(needed) /\ {Restricted(r.factors, F) : r \in b} = needed
  BY <1>2, <1>3, PairsAre
<1>5. IsFiniteSet(b)
  <2>1. b \in SUBSET records
    BY <1>2, <1>3, BucketsFinite
  <2> QED
    BY <2>1, FS_Subset
<1>6. PICK f : f = [r \in b |-> Restricted(r.factors, F)]
  BY Zenon
<1>7. f \in Surjection(b, needed)
  BY <1>4, <1>6 DEF Surjection
<1>8. f \in Injection(b, needed)
  BY <1>4, <1>5, <1>7, FS_SurjSameCardinalityImpliesInj
<1>9. \A r, q \in b : f[r] = f[q] => r = q
  BY <1>8 DEF Injection, IsInjective
<1>10. PICK x : x = AtLevel(m.factor, l)
  OBVIOUS
<1>11. x \in needed
  BY <1>1, <1>2, <1>10
<1>12. PICK r \in b : f[r] = x
  BY <1>7, <1>11 DEF Surjection
<1>13. DOMAIN x = F
  BY <1>1, <1>10, CellIs, Zenon
<1>14. \A q \in b : f[q] = Restricted(q.factors, DOMAIN x)
  BY <1>6, <1>13
<1>15. PICK a : a = AtArm(b, m, l)
  OBVIOUS
<1>16. a = CHOOSE q \in b : Restricted(q.factors, DOMAIN x) = x
  BY <1>10, <1>15 DEF AtArm, InCell
<1>17. a \in b /\ Restricted(a.factors, DOMAIN x) = x
  <2>1. \E q \in b : Restricted(q.factors, DOMAIN x) = x
    BY <1>12, <1>14
  <2> QED
    BY <1>16, <2>1, Zenon
<1>18. \A q \in b : f[q] = x <=> LevelOf(q, m) = l
  <2>1. \A q \in b : Restricted(q.factors, {m.factor}) = AtLevel(m.factor, l) <=> LevelOf(q, m) = l
    BY CellIs, Zenon
  <2> QED
    BY <1>1, <1>6, <1>10, <2>1
<1> QED
  BY <1>9, <1>14, <1>15, <1>17, <1>18

Arm(B, m, l) == {r \in UNION B : LevelOf(r, m) = l}
ArmTotal(B, m, l) == Summed([r \in Arm(B, m, l) |-> Outcome(r, m.metric)])

Graded(records) == IsFiniteSet(records) /\ \A r \in records : r.metric \in Int

ArmIs(B, m, l) ==
  /\ Cardinality(Arm(B, m, l)) = Cardinality(B)
  /\ \A b \in B : Outcome(AtArm(b, m, l), m.metric) \in Int
  /\ ArmTotal(B, m, l) = SetSums([b \in B |-> Outcome(AtArm(b, m, l), m.metric)], B)[B]

LEMMA ArmsAre ==
  ASSUME NEW m, NEW records, Graded(records), MainPairs(m, records).sound,
         NEW B, B = MainPairs(m, records).buckets, NEW l \in {m.control, m.treatment}
  PROVE  ArmIs(B, m, l)
<1>0. IsFiniteSet(records) /\ \A r \in records : r.metric \in Int
  BY DEF Graded
<1>1. PICK A, w : A = Arm(B, m, l) /\ w = [b \in B |-> AtArm(b, m, l)]
  BY Zenon
<1>2. \A b \in B : /\ w[b] = AtArm(b, m, l) /\ w[b] \in b /\ LevelOf(w[b], m) = l
                   /\ \A r \in b : LevelOf(r, m) = l => r = w[b]
  BY <1>0, <1>1, BucketArms
<1>3. IsFiniteSet(B) /\ (\A b \in B : b \in SUBSET records) /\ \A b, c \in B : b # c => b \intersect c = {}
  <2>1. PICK F, needed, paired :
          /\ F = {m.factor} /\ needed = {AtLevel(m.factor, m.control), AtLevel(m.factor, m.treatment)}
          /\ paired = MainPairs(m, records)
    BY Zenon
  <2>2. paired = PairRecords(records, F, needed) /\ B = paired.buckets
    BY <2>1 DEF MainPairs
  <2>3. \A b, c \in B : b # c => b \intersect c = {}
    BY <2>2, PairsAre
  <2>4. IsFiniteSet(B) /\ \A b \in B : b \in SUBSET records
    BY <1>0, <2>2, BucketsFinite
  <2> QED
    BY <2>3, <2>4
<1>4. w \in Bijection(B, A)
  <2>1. w \in [B -> A]
    BY <1>1, <1>2 DEF Arm
  <2>2. ASSUME NEW b \in B, NEW c \in B, w[b] = w[c] PROVE b = c
    BY <1>2, <1>3, <2>2
  <2>3. ASSUME NEW r \in A PROVE \E b \in B : w[b] = r
    <3>1. PICK b \in B : r \in b /\ LevelOf(r, m) = l
      BY <1>1 DEF Arm
    <3> QED
      BY <1>2, <3>1
  <2> QED
    BY <2>1, <2>2, <2>3 DEF Bijection, Injection, Surjection, IsInjective
<1>5. IsFiniteSet(A) /\ Cardinality(A) = Cardinality(B)
  BY <1>3, <1>4, FS_Bijection DEF ExistsBijection
<1>6. ASSUME NEW r \in records PROVE Outcome(r, m.metric) \in Int
  BY <1>0 DEF Outcome
<1>7. A \in SUBSET records
  BY <1>1, <1>3 DEF Arm
<1>8. PICK f, g : f = [r \in A |-> Outcome(r, m.metric)] /\ g = [b \in B |-> Outcome(AtArm(b, m, l), m.metric)]
  BY Zenon
<1>9. Terms(f, A) /\ \A r \in A : f[r] = Outcome(r, m.metric)
  BY <1>6, <1>7, <1>8 DEF Terms
<1>10. \A b \in B : w[b] \in A /\ g[b] = f[w[b]]
  <2>1. \A b \in B : w[b] \in A
    BY <1>1, <1>2 DEF Arm
  <2> QED
    BY <1>2, <1>8, <1>9, <2>1
<1>11. SetSums(g, B)[B] = SetSums(f, A)[A]
  BY <1>3, <1>4, <1>5, <1>9, <1>10, SumReindexed
<1>12. DOMAIN f = A
  BY <1>8
<1>13. ArmTotal(B, m, l) = SetSums(f, A)[A]
  BY <1>1, <1>8, <1>12, SummedIs DEF ArmTotal
<1>14. \A b \in B : Outcome(AtArm(b, m, l), m.metric) \in Int
  BY <1>2, <1>3, <1>6
<1> QED
  BY <1>1, <1>5, <1>8, <1>11, <1>13, <1>14 DEF ArmIs

LEMMA ArmsMatch ==
  ASSUME NEW m, NEW records, Graded(records), MainPairs(m, records).sound,
         NEW B, B = MainPairs(m, records).buckets
  PROVE  Cardinality(Arm(B, m, m.control)) = Cardinality(B) /\ Cardinality(Arm(B, m, m.treatment)) = Cardinality(B)
<1>1. ArmIs(B, m, m.control) /\ ArmIs(B, m, m.treatment)
  BY ArmsAre
<1> QED
  BY <1>1 DEF ArmIs

LEMMA EstimateIs ==
  ASSUME NEW m, NEW records, Graded(records), MainPairs(m, records).sound,
         NEW B, B = MainPairs(m, records).buckets
  PROVE  Summed(MainValues(m, records)) = ArmTotal(B, m, m.treatment) - ArmTotal(B, m, m.control)
<1>1. PICK v, g, h : /\ v = MainValues(m, records)
                     /\ g = [b \in B |-> Outcome(AtArm(b, m, m.treatment), m.metric)]
                     /\ h = [b \in B |-> Outcome(AtArm(b, m, m.control), m.metric)]
  BY Zenon
<1>a. ArmIs(B, m, m.control) /\ ArmIs(B, m, m.treatment)
  BY ArmsAre
<1>2. /\ \A b \in B : Outcome(AtArm(b, m, m.treatment), m.metric) \in Int
      /\ ArmTotal(B, m, m.treatment) = SetSums(g, B)[B]
  BY <1>1, <1>a DEF ArmIs
<1>3. /\ \A b \in B : Outcome(AtArm(b, m, m.control), m.metric) \in Int
      /\ ArmTotal(B, m, m.control) = SetSums(h, B)[B]
  BY <1>1, <1>a DEF ArmIs
<1>4. Terms(g, B) /\ Terms(h, B)
  BY <1>1, <1>2, <1>3 DEF Terms
<1>5. DOMAIN v = B /\ \A b \in B : v[b] = g[b] - h[b]
  BY <1>1 DEF MainValues, AtArm
<1>6. IsFiniteSet(B)
  BY BucketsFinite DEF MainPairs, Graded
<1>7. SetSums(v, B)[B] = SetSums(g, B)[B] - SetSums(h, B)[B]
  BY <1>4, <1>5, <1>6, SumMinus
<1>8. Summed(v) = SetSums(v, B)[B]
  BY <1>5, SummedIs
<1> QED
  BY <1>1, <1>2, <1>3, <1>7, <1>8

-----------------------------------------------------------------------------
\* The figures of a report.
EffectAddsUp(e, m) ==
  /\ \A b, c \in e.pairs : b # c => b \intersect c = {}
  /\ Cardinality(Arm(e.pairs, m, m.control)) = Cardinality(Arm(e.pairs, m, m.treatment))
  /\ e.estimate = <<ArmTotal(e.pairs, m, m.treatment) - ArmTotal(e.pairs, m, m.control),
                    Cardinality(Arm(e.pairs, m, m.control))>>

LEMMA MainAddsUp ==
  ASSUME NEW m, NEW records, Graded(records), NEW f, MainIs(f, m, records), NEW e, e.pairs = f.pairs, e.estimate = f.estimate
  PROVE  EffectAddsUp(e, m)
<1>1. PICK B : B = MainPairs(m, records).buckets
  OBVIOUS
<1>a. e.pairs = B /\ MainPairs(m, records).sound /\ e.estimate = <<Summed(MainValues(m, records)), Cardinality(B)>>
  BY <1>1, Zenon DEF MainIs
<1>2. \A b, c \in B : b # c => b \intersect c = {}
  BY <1>1, PairsAre DEF MainPairs
<1>3. Cardinality(Arm(B, m, m.control)) = Cardinality(B) /\ Cardinality(Arm(B, m, m.treatment)) = Cardinality(B)
  BY <1>1, <1>a, ArmsMatch
<1>4. Summed(MainValues(m, records)) = ArmTotal(B, m, m.treatment) - ArmTotal(B, m, m.control)
  BY <1>1, <1>a, EstimateIs
<1> QED
  BY <1>a, <1>2, <1>3, <1>4 DEF EffectAddsUp

LEMMA ReportedMainsAddUp ==
  ASSUME NEW s \in Studies, NEW R, BuiltFrom(s, R), NEW i \in DOMAIN R.mains
  PROVE  EffectAddsUp(R.mains[i], s.mains[i])
<1>1. PICK L, X : L = MainList(s) /\ X = R.mains
  OBVIOUS
<1>2. /\ TestedList(L) /\ X = Corrected(L, Holm(RawValues(L)))
      /\ \A j \in DOMAIN s.mains : MainEffect(s.mains[j], Records(s), s.minClusters) # Refused
  BY <1>1, MainsAre DEF BuiltFrom
<1>3. DOMAIN Holm(RawValues(L)) = Estimated(L)
  BY <1>2, RawValuesAre DEF Holm, PValues
<1>4. DOMAIN X = DOMAIN L /\ \A j \in DOMAIN L : X[j].pairs = L[j].pairs /\ X[j].estimate = L[j].estimate
  BY <1>2, <1>3, CorrectedIs
<1>5. i \in DOMAIN L /\ i \in DOMAIN s.mains
  BY <1>1, <1>4 DEF MainList
<1>6. PICK m, rs, k, e : m = s.mains[i] /\ rs = Records(s) /\ k = s.minClusters /\ e = X[i]
  OBVIOUS
<1>7. L[i] = MainEffect(m, rs, k)
  BY <1>1, <1>5, <1>6 DEF MainList
<1>8. Graded(rs) /\ IsFiniteSet(rs)
  BY <1>6, RecordsFinite, RecordsAre, Zenon DEF RecordIs, Graded
<1>9. MainIs(L[i], m, rs)
  <2>1. MainEffect(m, rs, k) # Refused
    BY <1>2, <1>5, <1>6
  <2> QED
    BY <1>7, <1>8, <2>1, MainEffectIs
<1>10. e.pairs = L[i].pairs /\ e.estimate = L[i].estimate
  BY <1>4, <1>5, <1>6
<1>11. EffectAddsUp(e, m)
  BY <1>8, <1>9, <1>10, MainAddsUp
<1> QED
  BY <1>1, <1>6, <1>11

LEMMA FiguresExact ==
  ASSUME study \in Studies, report = AnalysisReport(study)
  PROVE  FiguresAddUp
<1> SUFFICES ASSUME Built PROVE FiguresAddUp
  BY Zenon DEF FiguresAddUp
<1>1. BuiltFrom(study, report)
  BY ReportIs DEF Built
<1>2. PICK s, R : s = study /\ R = report
  OBVIOUS
<1>3. s \in Studies /\ BuiltFrom(s, R) /\ ValidInput(s, Records(s)) /\ R.profiles = ProfileReports(Records(s), s.passK)
  BY <1>1, <1>2 DEF BuiltFrom
<1>4. Summed([p \in R.profiles |-> p.pass1[2]]) = Cardinality(s.episodes)
  BY <1>3, ProfilesShareOut, RecordsAreEpisodes
<1>5. ASSUME NEW p \in R.profiles PROVE SeriesAddsUp(p.records, s.passK, p.repeats)
  <2>1. ProfileIs(p, s)
    BY <1>3, ProfilesAre
  <2>2. PICK own, k : own = p.records /\ k = s.passK
    OBVIOUS
  <2>3. own = OwnRecords(Records(s), p.profile) /\ IsFiniteSet(own) /\ p.repeats = RepeatSeries(own, k)
    BY <2>1, <2>2 DEF ProfileIs
  <2>4. own \in SUBSET Records(s) /\ \A r \in own : r.scaffold = p.profile
    BY <2>3 DEF OwnRecords
  <2>5. \A r \in own : r.repeat \in Int /\ r.unit = UnitOf(r)
    BY <1>3, <2>4, RecordsAre, Zenon DEF RecordIs, UnitOf
  <2>6. \A r, q \in own : r.unit = q.unit => r = q
    BY <1>3, <2>4, RecordsAreEpisodes
  <2>7. Own(own)
    BY <2>3, <2>4, <2>5, <2>6 DEF Own
  <2>8. k \in Nat \ {0}
    BY <1>3, <2>2, AnalysisAssumption
  <2>9. SeriesAddsUp(own, k, RepeatSeries(own, k))
    BY <2>7, <2>8, SeriesIs
  <2> QED
    BY <2>2, <2>3, <2>9
<1>6. \A i \in DOMAIN R.mains : EffectAddsUp(R.mains[i], s.mains[i])
  BY <1>3, ReportedMainsAddUp
<1>7. Summed([p \in report.profiles |-> p.pass1[2]]) = Cardinality(study.episodes)
  BY <1>2, <1>4
<1>8. \A p \in report.profiles :
             LET r == p.repeats IN
             /\ r.powerK[2] = r.atK[2] /\ r.powerK[1] <= r.atK[1]
             /\ r.used \intersect r.excluded = {}
             /\ \A x \in p.records \ (r.used \union r.excluded) :
                    Cardinality({o \in r.used : /\ [o.unit EXCEPT !.repeat = 0] = [x.unit EXCEPT !.repeat = 0]
                                                /\ o.repeat < x.repeat}) = study.passK
  BY <1>2, <1>5, Zenon DEF SeriesAddsUp
<1>9. \A i \in DOMAIN report.mains :
             LET e    == report.mains[i]
                 m    == study.mains[i]
                 arm(l) == {r \in UNION e.pairs : r.factors[m.factor] = l}
                 wins(l) == Summed([r \in arm(l) |-> Outcome(r, m.metric)])
             IN  /\ \A b, c \in e.pairs : b # c => b \intersect c = {}
                 /\ Cardinality(arm(m.control)) = Cardinality(arm(m.treatment))
                 /\ e.estimate = <<wins(m.treatment) - wins(m.control), Cardinality(arm(m.control))>>
  <2>1. \A i \in DOMAIN report.mains : EffectAddsUp(report.mains[i], study.mains[i])
    BY <1>2, <1>6
  <2> QED
    BY <2>1, Zenon DEF EffectAddsUp, Arm, ArmTotal, LevelOf
<1> QED
  BY <1>7, <1>8, <1>9, Zenon DEF FiguresAddUp

-----------------------------------------------------------------------------
\* A report is either not there or the one its study gives.
AnalysisInv == study \in Studies /\ (report = NoValue \/ report = AnalysisReport(study))

LEMMA AnalysisIsSound == AnalysisInv => AnalysisIsExact
<1> SUFFICES ASSUME AnalysisInv PROVE AnalysisIsExact
  OBVIOUS
<1>1. CASE report = NoValue
  BY <1>1, Zenon DEF AnalysisIsExact, CorrectionsAreExact, SelectionIsEfficient, FiguresAddUp, Built
<1>2. CASE report = AnalysisReport(study)
  BY <1>2, CorrectionsExact, SelectionEfficient, FiguresExact DEF AnalysisIsExact, AnalysisInv
<1> QED
  BY <1>1, <1>2 DEF AnalysisInv

LEMMA AnalysisStep == AnalysisInv /\ [Next]_vars => AnalysisInv'
<1> SUFFICES ASSUME AnalysisInv, [Next]_vars PROVE AnalysisInv'
  OBVIOUS
<1>1. CASE AnalysisNext
  BY <1>1 DEF AnalysisInv, AnalysisNext, BuildAnalysisReport
<1>2. CASE UNCHANGED analysisVars
  BY <1>2 DEF AnalysisInv, analysisVars
<1> QED
  BY <1>1, <1>2 DEF Next, Rest, vars

\* A report can be relied on whatever the episodes were (analysis_v1): Holm rejects
\* what every Bonferroni test of a subfamily rejects, Benjamini and Hochberg the
\* largest set within its share of alpha, whatever the order of equal p-values
\* (statistics 261, 274); the profile selected meets the constraints and is beaten
\* in nothing but severe failures, and the frontier dominates the rest
\* (decision 181); the profiles share out the episodes, repeats are used once, and
\* an effect is the difference of its arms (engine 482, 511, 630).
THEOREM ReportsAreExact == Spec => []AnalysisIsExact
<1>1. Init => AnalysisInv
  BY DEF Init, AnalysisInit, AnalysisInv
<1> QED
  BY <1>1, AnalysisStep, AnalysisIsSound, PTL DEF Spec

=============================================================================
