--------------------------- MODULE HarnessProofs ----------------------------
(***************************************************************************)
(* Theorems about the parts of the workbench that run, compare, review and *)
(* show harnesses: Forge and its planner, replay and its gate, the harness *)
(* adapters, the trace lab, the offline installer, blind review, the       *)
(* offline demo and the run cockpit.  Each section proves the safety       *)
(* property of one part from an inductive invariant of that part's own     *)
(* specification and carries it over to the composition: a behaviour of    *)
(* the workbench is, seen through the variables of one part, a behaviour   *)
(* of that part.                                                           *)
(***************************************************************************)
EXTENDS Workbench, TLAPS, FiniteSetTheorems

-----------------------------------------------------------------------------
(***************************************************************************)
(* Induction on the natural numbers in a form the provers can instantiate: *)
(* about a set of numbers, not about a formula.  A set of numbers has a    *)
(* least member because the intervals below its members are ordered by     *)
(* strict inclusion, which is well founded on finite sets.                 *)
(***************************************************************************)
LEMMA LeastNumber ==
  ASSUME NEW S \in SUBSET Nat, S # {}
  PROVE  \E n \in S : \A m \in S : n <= m
<1>1. PICK N \in S : TRUE
  BY Zenon
<1> DEFINE B == 0 .. N
           T == {0 .. n - 1 : n \in S \cap B}
<1>2. IsWellFoundedOn(StrictSubsetOrdering(B), FiniteSubsetsOf(B))
  BY FS_StrictSubsetOrderingWellFounded
<1>3. T \subseteq FiniteSubsetsOf(B) /\ T # {}
  <2>1. \A n \in B : 0 .. n - 1 \in SUBSET B /\ IsFiniteSet(0 .. n - 1)
    BY FS_Interval
  <2> QED
    BY <2>1, <1>1 DEF FiniteSubsetsOf
<1> HIDE DEF T
<1>4. PICK x \in T : \A y \in T : ~ (<<y, x>> \in StrictSubsetOrdering(B))
  BY <1>2, <1>3, WFMin
<1>5. PICK n \in S \cap B : x = 0 .. n - 1
  BY DEF T
<1>6. ASSUME NEW m \in S, m < n
      PROVE  FALSE
  <2>1. 0 .. m - 1 \in T /\ m \in B
    BY <1>5, <1>6 DEF T
  <2>2. 0 .. m - 1 \subseteq 0 .. n - 1 /\ m \in 0 .. n - 1 /\ m \notin 0 .. m - 1
    BY <1>5, <1>6
  <2>3. 0 .. m - 1 \in SUBSET B /\ 0 .. n - 1 \in SUBSET B
    BY <2>1, <1>5
  <2>4. <<0 .. m - 1, 0 .. n - 1>> \in StrictSubsetOrdering(B)
    <3>1. 0 .. m - 1 # 0 .. n - 1
      BY <2>2
    <3> DEFINE a == 0 .. m - 1
               b == 0 .. n - 1
    <3>2. a \in SUBSET B /\ b \in SUBSET B /\ a \subseteq b /\ a # b
      BY <2>2, <2>3, <3>1
    <3> HIDE DEF a, b, B
    <3>3. <<a, b>> \in StrictSubsetOrdering(B)
      BY <3>2 DEF StrictSubsetOrdering
    <3> QED
      BY <3>3 DEF a, b
  <2> QED
    BY <2>1, <2>4, <1>4, <1>5
<1> QED
  BY <1>5, <1>6

LEMMA SetInduction ==
  ASSUME NEW S \in SUBSET Nat, 0 \in S, \A n \in S : n + 1 \in S
  PROVE  S = Nat
<1> SUFFICES ASSUME Nat \ S # {}
             PROVE  FALSE
  BY Zenon
<1>1. PICK n \in Nat \ S : \A m \in Nat \ S : n <= m
  BY LeastNumber, Zenon
<1>2. n # 0 /\ n - 1 \in Nat /\ ~ (n <= n - 1)
  BY <1>1
<1>3. n - 1 \in S
  BY <1>1, <1>2
<1>4. (n - 1) + 1 \in S
  BY <1>3
<1> QED
  BY <1>1, <1>4

\* A finite set of numbers has a greatest member.
LEMMA GreatestNumber ==
  ASSUME NEW S \in SUBSET Int, IsFiniteSet(S), S # {}
  PROVE  \E n \in S : \A m \in S : m <= n
<1> DEFINE Above(n) == {m \in S : m > n}
           T == {Above(n) : n \in S}
<1>1. IsWellFoundedOn(StrictSubsetOrdering(S), FiniteSubsetsOf(S))
  BY FS_StrictSubsetOrderingWellFounded
<1>2. T \subseteq FiniteSubsetsOf(S) /\ T # {}
  <2>1. \A n \in S : Above(n) \in SUBSET S /\ IsFiniteSet(Above(n))
    BY FS_Subset
  <2> QED
    BY <2>1, Zenon DEF FiniteSubsetsOf
<1> HIDE DEF T
<1>3. PICK x \in T : \A y \in T : ~ (<<y, x>> \in StrictSubsetOrdering(S))
  BY <1>1, <1>2, WFMin
<1>4. PICK n \in S : x = Above(n)
  BY DEF T
<1>5. ASSUME NEW m \in S, m > n
      PROVE  FALSE
  <2>1. Above(m) \in T
    BY DEF T
  <2>2. Above(m) \subseteq Above(n) /\ m \in Above(n) /\ m \notin Above(m)
    <3>1. m \in Int /\ n \in Int /\ m > n /\ ~ (m > m)
      BY <1>5
    <3>2. \A k \in S : k > m => k > n
      BY <3>1
    <3> QED
      BY <3>1, <3>2, Zenon
  <2>3. Above(m) \in SUBSET S /\ Above(n) \in SUBSET S
    OBVIOUS
  <2>4. <<Above(m), Above(n)>> \in StrictSubsetOrdering(S)
    <3> DEFINE a == Above(m)
               b == Above(n)
    <3>2. a \in SUBSET S /\ b \in SUBSET S /\ a \subseteq b /\ a # b
      BY <2>2, <2>3
    <3> HIDE DEF a, b
    <3>3. <<a, b>> \in StrictSubsetOrdering(S)
      BY <3>2, Zenon DEF StrictSubsetOrdering
    <3> QED
      BY <3>3 DEF a, b
  <2> QED
    BY <2>1, <2>4, <1>3, <1>4
<1> QED
  BY <1>4, <1>5

\* A recursive function has to be shown to exist before it can be unfolded:
\* the prefix sums of a sequence.
Accumulates(v, N, g) == g = [n \in 0 .. N |-> IF n = 0 THEN 0 ELSE g[n - 1] + v[n]]
PrefixSums(v, N) == CHOOSE g : Accumulates(v, N, g)

LEMMA PrefixSumsExist ==
  ASSUME NEW N \in Nat, NEW v, \A n \in 1 .. N : v[n] \in Int
  PROVE  Accumulates(v, N, PrefixSums(v, N)) /\ PrefixSums(v, N) \in [0 .. N -> Int]
<1> DEFINE Sums(m, g) == /\ g \in [0 .. m -> Int]
                         /\ \A n \in 0 .. m : g[n] = IF n = 0 THEN 0 ELSE g[n - 1] + v[n]
           S == {m \in Nat : m <= N => \E g : Sums(m, g)}
<1>1. 0 \in S
  <2> DEFINE g == [n \in 0 .. 0 |-> 0]
  <2>1. Sums(0, g)
    OBVIOUS
  <2> QED
    BY <2>1, Zenon
<1>2. ASSUME NEW m \in S PROVE m + 1 \in S
  <2>0. m \in Nat /\ m + 1 \in Nat /\ (m + 1 <= N => m <= N)
    OBVIOUS
  <2> HIDE DEF Sums
  <2> SUFFICES ASSUME m + 1 <= N PROVE \E g : Sums(m + 1, g)
    BY <2>0
  <2>1. PICK g : Sums(m, g)
    BY <2>0
  <2> USE DEF Sums
  <2>a. g[m] \in Int /\ v[m + 1] \in Int
    BY <2>0, <2>1
  <2>2. PICK x : x = g[m] + v[m + 1]
    OBVIOUS
  <2>b. x \in Int
    BY <2>2, <2>a
  <2> DEFINE h == [n \in 0 .. m + 1 |-> IF n = m + 1 THEN x ELSE g[n]]
  <2>3. h \in [0 .. m + 1 -> Int] /\ h[m + 1] = x /\ \A n \in 0 .. m : h[n] = g[n]
    BY <2>0, <2>1, <2>b
  <2>4. ASSUME NEW n \in 0 .. m + 1
        PROVE  h[n] = IF n = 0 THEN 0 ELSE h[n - 1] + v[n]
    <3> HIDE DEF h
    <3>1. CASE n = m + 1
      BY <3>1, <2>2, <2>3
    <3>2. CASE n \in 0 .. m
      BY <3>2, <2>1, <2>3
    <3> QED
      BY <3>1, <3>2
  <2> HIDE DEF h
  <2>5. Sums(m + 1, h)
    BY <2>3, <2>4
  <2> QED
    BY <2>5, Zenon
<1>3. S = Nat
  <2>1. S \in SUBSET Nat
    OBVIOUS
  <2> HIDE DEF S
  <2> QED
    BY <1>1, <1>2, <2>1, SetInduction
<1>a. N \in S /\ N <= N
  BY <1>3
<1>b. \E g : Sums(N, g)
  <2> HIDE DEF Sums
  <2> QED
    BY <1>a
<1>4. PICK g : Sums(N, g)
  BY <1>b, Zenon
<1>5. Accumulates(v, N, g)
  BY <1>4 DEF Accumulates
<1>6. Accumulates(v, N, PrefixSums(v, N))
  BY <1>5 DEF PrefixSums
<1>7. PICK h : h = PrefixSums(v, N)
  OBVIOUS
<1>8. /\ h = [n \in 0 .. N |-> h[n]]
      /\ \A n \in 0 .. N : h[n] = IF n = 0 THEN 0 ELSE h[n - 1] + v[n]
  BY <1>6, <1>7, Zenon DEF Accumulates
<1> DEFINE T == {m \in Nat : m <= N => h[m] \in Int}
<1>9. 0 \in T
  BY <1>8
<1>10. ASSUME NEW m \in T PROVE m + 1 \in T
  <2> SUFFICES ASSUME m + 1 <= N PROVE h[m + 1] \in Int
    OBVIOUS
  <2>0. m \in Nat /\ m <= N /\ (m + 1) - 1 = m /\ m + 1 \in 0 .. N /\ m + 1 # 0 /\ m + 1 \in 1 .. N
    OBVIOUS
  <2>1. h[m + 1] = h[m] + v[m + 1]
    BY <2>0, <1>8, Zenon
  <2>2. h[m] \in Int /\ v[m + 1] \in Int
    BY <2>0
  <2> QED
    BY <2>1, <2>2
<1>11. T = Nat
  <2>1. T \in SUBSET Nat
    OBVIOUS
  <2> HIDE DEF T
  <2> QED
    BY <1>9, <1>10, <2>1, SetInduction
<1>12. \A n \in 0 .. N : h[n] \in Int
  BY <1>11
<1> QED
  BY <1>6, <1>7, <1>8, <1>12

-----------------------------------------------------------------------------
(***************************************************************************)
(* What the proofs need of sequences.  The provers know these facts one by *)
(* one; cited by name they can be instantiated inside larger steps.        *)
(***************************************************************************)
LEMMA SeqUnfolds == \A S : Seq(S) = UNION {[1 .. n -> S] : n \in Nat}
  OBVIOUS

LEMMA SeqEmpty ==
  ASSUME NEW A
  PROVE  <<>> \in Seq(A) /\ Len(<<>>) = 0 /\ (\A q \in Seq(A) : q # <<>> => Len(q) \in Nat \ {0})
  OBVIOUS

LEMMA SeqShape ==
  ASSUME NEW A, NEW q \in Seq(A)
  PROVE  Len(q) \in Nat /\ q \in [1 .. Len(q) -> A] /\ DOMAIN q = 1 .. Len(q)
  OBVIOUS

LEMMA SeqAppend ==
  ASSUME NEW A, NEW q \in Seq(A), NEW v \in A
  PROVE  /\ Append(q, v) \in Seq(A) /\ Append(q, v) # <<>>
         /\ Len(Append(q, v)) = Len(q) + 1
         /\ \A k \in 1 .. Len(q) : Append(q, v)[k] = q[k]
         /\ Append(q, v)[Len(q) + 1] = v
  OBVIOUS

LEMMA SeqJoin ==
  ASSUME NEW A, NEW p \in Seq(A), NEW q \in Seq(A)
  PROVE  /\ p \o q \in Seq(A) /\ Len(p \o q) = Len(p) + Len(q)
         /\ \A k \in 1 .. Len(p) + Len(q) : (p \o q)[k] = IF k <= Len(p) THEN p[k] ELSE q[k - Len(p)]
  OBVIOUS

LEMMA SeqTail ==
  ASSUME NEW A, NEW q \in Seq(A), q # <<>>
  PROVE  /\ Head(q) \in A /\ Tail(q) \in Seq(A) /\ Len(Tail(q)) = Len(q) - 1
         /\ \A k \in 1 .. Len(Tail(q)) : Tail(q)[k] = q[k + 1]
  OBVIOUS

-----------------------------------------------------------------------------
(***************************************************************************)
(* Forge, custody.  A decision is written once, and from then on what a    *)
(* request read about it stays true; a proposal with a receipt is in the   *)
(* state of that receipt's outcome, which is never APPROVED, so no second  *)
(* conditional update finds it waiting.                                    *)
(***************************************************************************)
Decided == {"ADMITTED", "REJECTED", "QUARANTINED", "INCONCLUSIVE"}
ProposalStates == {"none", "PENDING_APPROVAL", "APPROVED"} \cup Decided

\* What an evaluation and the decision it saw amount to.
Earned(e, a) ==
    /\ e \in Evaluations /\ a = approvals[e.proposal] /\ a.decision = "APPROVED"
    /\ ValidEvaluation(e) /\ Separated(e) /\ ~BlockedByFailure(e)
    /\ SafetyVerdict(e.safety) = "PASS"
    /\ Receipt(e, a) \in blobs["receipt"]

\* What the tables say about one proposal.
ProposalShape(p) ==
    /\ approvals[p].decision = "none" => proposals[p] \in {"none", "PENDING_APPROVAL"}
    /\ proposals[p] = "none" => approvals[p].decision = "none"
    /\ approvals[p].decision # "none" => approvals[p] \in Approvals /\ approvals[p].approver # p.proposer
    /\ approvals[p].decision = "REJECTED" => proposals[p] = "REJECTED"
    /\ \/ proposals[p] \in {"none", "PENDING_APPROVAL", "APPROVED", "REJECTED"}
       \/ \E rec \in receipts : rec.evaluation.proposal = p

ReceiptShape ==
    /\ \A rec \in receipts :
        /\ rec = Receipt(rec.evaluation, rec.approval) /\ Earned(rec.evaluation, rec.approval)
        /\ proposals[rec.evaluation.proposal] = rec.evaluation.outcome
    /\ \A rec, other \in receipts : rec.evaluation.proposal = other.evaluation.proposal => rec = other

\* What a request in flight brings to its transaction.
ForgeRequest(r) ==
    /\ r.kind = "propose" => r.item \in Proposals
    /\ r.kind = "approve" => /\ r.item \in Approvals /\ r.item.approver # r.item.proposal.proposer
                             /\ proposals[r.item.proposal] # "none"
    /\ r.kind = "evaluate" => Earned(r.item, r.seen)

CustodyInv ==
    /\ blobs = [k \in ArtifactKinds |-> blobs[k]]
    /\ proposals \in [Proposals -> ProposalStates]
    /\ approvals = [p \in Proposals |-> approvals[p]]
    /\ client = [c \in Clients |-> client[c]]
    /\ \A rec \in safety : rec.verdict = SafetyVerdict(rec.request)
    /\ \A p \in Proposals : ProposalShape(p)
    /\ ReceiptShape
    /\ \A c \in Clients : ForgeRequest(client[c])

LEMMA CustodyStarts == ForgeInit => CustodyInv
  BY DEF ForgeInit, CustodyInv, ProposalShape, ReceiptShape, ForgeRequest, ProposalStates, Decided, NoApproval,
         NoRequest

\* A step that keeps the decided approvals and the stored artifacts keeps what
\* was earned.
LEMMA EarnedStays ==
  ASSUME NEW e, NEW a, Earned(e, a), blobs["receipt"] \subseteq blobs'["receipt"],
         \A p \in Proposals : approvals[p].decision # "none" => approvals'[p] = approvals[p]
  PROVE  Earned(e, a)'
<1>1. e.proposal \in Proposals
  BY CustodyAssumption DEF Earned
<1> QED
  BY <1>1 DEF Earned, ValidEvaluation, Separated, BlockedByFailure, SafetyVerdict, Receipt

\* A step that changes the clients and adds artifacts.
LEMMA CustodyFrame ==
  ASSUME CustodyInv, NEW c \in Clients, NEW r, client' = [client EXCEPT ![c] = r], ForgeRequest(r)',
         UNCHANGED <<proposals, approvals, receipts>>,
         blobs' = [k \in ArtifactKinds |-> blobs'[k]], blobs["receipt"] \subseteq blobs'["receipt"],
         \A rec \in safety' : rec.verdict = SafetyVerdict(rec.request)
  PROVE  CustodyInv'
<1>1. \A e, a : Earned(e, a) => Earned(e, a)'
  BY EarnedStays DEF CustodyInv
<1>2. \A d \in Clients : ForgeRequest(client[d])'
  <2> TAKE d \in Clients
  <2>1. CASE d = c
    BY <2>1 DEF CustodyInv
  <2>2. CASE d # c
    <3>1. client'[d] = client[d]
      BY <2>2 DEF CustodyInv
    <3>2. ForgeRequest(client[d])
      BY DEF CustodyInv
    <3> QED
      BY <1>1, <3>1, <3>2 DEF ForgeRequest
  <2> QED
    BY <2>1, <2>2
<1>3. ReceiptShape'
  BY <1>1 DEF CustodyInv, ReceiptShape, Receipt
<1>4. \A p \in Proposals : ProposalShape(p)'
  BY DEF CustodyInv, ProposalShape
<1>5. client' = [d \in Clients |-> client'[d]]
  BY DEF CustodyInv
<1>6. \A rec \in safety' : rec.verdict = SafetyVerdict(rec.request)'
  BY DEF SafetyVerdict
<1> QED
  BY <1>2, <1>3, <1>4, <1>5, <1>6 DEF CustodyInv

\* Putting artifacts and remembering the request.
LEMMA PutKeeps ==
  ASSUME CustodyInv, NEW c \in Clients, NEW step, NEW item, NEW seen, NEW artifacts,
         Put(c, step, item, seen, artifacts),
         ForgeRequest([kind |-> step, item |-> item, seen |-> seen])'
  PROVE  CustodyInv'
<1>1. "receipt" \in ArtifactKinds
  BY DEF ArtifactKinds
<1>2. blobs' = [k \in ArtifactKinds |-> blobs'[k]] /\ blobs["receipt"] \subseteq blobs'["receipt"]
  BY <1>1 DEF Put
<1>3. \A rec \in safety' : rec.verdict = SafetyVerdict(rec.request)
  BY DEF Put, CustodyInv
<1> QED
  BY <1>2, <1>3, CustodyFrame, Zenon DEF Put

\* An evaluation is accepted while its decision stands and its report passes.
LEMMA CreateEvaluationKeeps ==
  ASSUME CustodyInv, NEW c \in Clients, NEW e \in Evaluations, CreateEvaluation(c, e)
  PROVE  CustodyInv'
<1> DEFINE a == approvals[e.proposal]
<1>1. /\ ValidEvaluation(e) /\ ApprovedProposal(e.proposal) /\ Separated(e) /\ ~BlockedByFailure(e)
      /\ ProcessSafetyPasses(e.safety)
      /\ Put(c, "evaluate", e, a, [evaluation |-> e, receipt |-> Receipt(e, a)])
  BY DEF CreateEvaluation
<1>2. a.decision = "APPROVED"
  BY <1>1 DEF ApprovedProposal
<1>3. SafetyVerdict(e.safety) = "PASS"
  BY <1>1 DEF ProcessSafetyPasses, CustodyInv
<1>4. Receipt(e, a) \in blobs'["receipt"] /\ approvals' = approvals
  BY <1>1 DEF Put, ArtifactKinds
<1>5. PICK seen : seen = a
  OBVIOUS
<1>6. Earned(e, seen)'
  BY <1>1, <1>2, <1>3, <1>4, <1>5 DEF Earned, ValidEvaluation, Separated, BlockedByFailure, SafetyVerdict, Receipt
<1>7. ForgeRequest([kind |-> "evaluate", item |-> e, seen |-> seen])'
  BY <1>6 DEF ForgeRequest
<1>8. Put(c, "evaluate", e, seen, [evaluation |-> e, receipt |-> Receipt(e, seen)])
  BY <1>1, <1>5
<1> QED
  BY <1>7, <1>8, PutKeeps

\* A transaction that ends a request and writes neither proposals nor receipts.
LEMMA DoneKeeps ==
  ASSUME CustodyInv, NEW c \in Clients, NEW step, Done(c, step), UNCHANGED <<proposals, approvals, receipts>>,
         \A rec \in safety' : rec.verdict = SafetyVerdict(rec.request)
  PROVE  CustodyInv'
<1>1. ForgeRequest(NoRequest)'
  BY DEF ForgeRequest, NoRequest
<1> QED
  BY <1>1, CustodyFrame DEF Done, CustodyInv

LEMMA CommitProposalKeeps ==
  ASSUME CustodyInv, NEW c \in Clients, CommitProposal(c)
  PROVE  CustodyInv'
<1>1. PICK p : p = client[c].item /\ p \in Proposals
  BY DEF CustodyInv, ForgeRequest, CommitProposal, Done
<1>2. CASE proposals[p] # "none"
  <2>1. proposals' = proposals
    BY <1>1, <1>2 DEF CommitProposal, CustodyInv
  <2> QED
    BY <2>1, DoneKeeps DEF CommitProposal, CustodyInv
<1>3. CASE proposals[p] = "none"
  <2>1. /\ proposals' = [proposals EXCEPT ![p] = "PENDING_APPROVAL"] /\ client' = [client EXCEPT ![c] = NoRequest]
        /\ UNCHANGED <<blobs, approvals, receipts, safety>>
    BY <1>1, <1>3 DEF CommitProposal, Done
  <2>2. \A e, a : Earned(e, a) => Earned(e, a)'
    BY <2>1, EarnedStays
  <2>3. \A rec \in receipts : rec.evaluation.proposal # p
    BY <1>3, CustodyAssumption DEF CustodyInv, ReceiptShape, Earned
  <2>4. ReceiptShape'
    <3>1. \A rec \in receipts : rec.evaluation.proposal \in Proposals
      BY CustodyAssumption DEF CustodyInv, ReceiptShape, Earned
    <3>2. \A rec \in receipts : proposals'[rec.evaluation.proposal] = proposals[rec.evaluation.proposal]
      BY <3>1, <2>1, <2>3 DEF CustodyInv
    <3> QED
      BY <3>2, <2>1, <2>2 DEF CustodyInv, ReceiptShape, Receipt
  <2>5. \A q \in Proposals : ProposalShape(q)'
    BY <2>1, <1>1, <1>3 DEF CustodyInv, ProposalShape
  <2>6. \A d \in Clients : ForgeRequest(client[d])'
    <3> TAKE d \in Clients
    <3>1. CASE d = c
      BY <3>1, <2>1 DEF CustodyInv, ForgeRequest, NoRequest
    <3>2. CASE d # c
      <4>1. client'[d] = client[d] /\ ForgeRequest(client[d])
        BY <3>2, <2>1 DEF CustodyInv
      <4>2. \A q \in Proposals : proposals[q] # "none" => proposals'[q] # "none"
        BY <2>1 DEF CustodyInv
      <4> QED
        BY <4>1, <4>2, <2>2, CustodyAssumption DEF ForgeRequest
    <3> QED
      BY <3>1, <3>2
  <2>7. \A rec \in safety' : rec.verdict = SafetyVerdict(rec.request)'
    BY <2>1, Zenon DEF CustodyInv, SafetyVerdict
  <2> QED
    BY <2>1, <2>4, <2>5, <2>6, <2>7, Zenon DEF CustodyInv, ProposalStates
<1> QED
  BY <1>2, <1>3

LEMMA CommitApprovalKeeps ==
  ASSUME CustodyInv, NEW c \in Clients, CommitApproval(c)
  PROVE  CustodyInv'
<1>1. PICK a : a = client[c].item /\ a \in Approvals /\ a.approver # a.proposal.proposer /\ proposals[a.proposal] # "none"
  BY DEF CustodyInv, ForgeRequest, CommitApproval, Done
<1>2. PICK p \in Proposals : p = a.proposal
  BY <1>1, CustodyAssumption
<1>3. CASE approvals[p].decision # "none"
  BY <1>1, <1>2, <1>3, DoneKeeps DEF CommitApproval, CustodyInv
<1>4. CASE approvals[p].decision = "none"
  <2>1. /\ approvals' = [approvals EXCEPT ![p] = a] /\ proposals' = [proposals EXCEPT ![p] = a.decision]
        /\ client' = [client EXCEPT ![c] = NoRequest] /\ UNCHANGED <<blobs, receipts, safety>>
    BY <1>1, <1>2, <1>4 DEF CommitApproval, Done
  <2>2. a.decision \in {"APPROVED", "REJECTED"}
    BY <1>1, CustodyAssumption
  <2>3. \A e, x : Earned(e, x) => Earned(e, x)'
    <3>1. \A q \in Proposals : approvals[q].decision # "none" => approvals'[q] = approvals[q]
      BY <2>1, <1>4 DEF CustodyInv
    <3> QED
      BY <3>1, <2>1, EarnedStays
  <2>4. \A rec \in receipts : rec.evaluation.proposal \in Proposals /\ rec.evaluation.proposal # p
    BY <1>4, CustodyAssumption DEF CustodyInv, ReceiptShape, Earned
  <2>5. ReceiptShape'
    <3>1. \A rec \in receipts : proposals'[rec.evaluation.proposal] = proposals[rec.evaluation.proposal]
      BY <2>1, <2>4 DEF CustodyInv
    <3> QED
      BY <3>1, <2>1, <2>3 DEF CustodyInv, ReceiptShape, Receipt
  <2>6. \A q \in Proposals : ProposalShape(q)'
    <3> TAKE q \in Proposals
    <3>1. CASE q = p
      <4>1. approvals'[q] = a /\ proposals'[q] = a.decision
        BY <3>1, <2>1 DEF CustodyInv
      <4> QED
        BY <4>1, <3>1, <1>1, <1>2, <2>2 DEF ProposalShape
    <3>2. CASE q # p
      <4>1. approvals'[q] = approvals[q] /\ proposals'[q] = proposals[q] /\ ProposalShape(q)
        BY <3>2, <2>1 DEF CustodyInv
      <4> QED
        BY <4>1, <2>1 DEF ProposalShape
    <3> QED
      BY <3>1, <3>2
  <2>7. \A d \in Clients : ForgeRequest(client[d])'
    <3> TAKE d \in Clients
    <3>1. CASE d = c
      BY <3>1, <2>1 DEF CustodyInv, ForgeRequest, NoRequest
    <3>2. CASE d # c
      <4>1. client'[d] = client[d] /\ ForgeRequest(client[d])
        BY <3>2, <2>1 DEF CustodyInv
      <4>2. \A q \in Proposals : proposals[q] # "none" => proposals'[q] # "none"
        BY <2>1, <2>2 DEF CustodyInv
      <4> QED
        BY <4>1, <4>2, <2>3, CustodyAssumption DEF ForgeRequest
    <3> QED
      BY <3>1, <3>2
  <2>8. \A rec \in safety' : rec.verdict = SafetyVerdict(rec.request)'
    BY <2>1, Zenon DEF CustodyInv, SafetyVerdict
  <2>9. proposals' \in [Proposals -> ProposalStates]
    BY <2>1, <2>2 DEF CustodyInv, ProposalStates, Decided
  <2> QED
    BY <2>1, <2>5, <2>6, <2>7, <2>8, <2>9, Zenon DEF CustodyInv
<1> QED
  BY <1>3, <1>4

\* The conditional update: nobody holds a receipt of a proposal that waits.
LEMMA CommitEvaluationKeeps ==
  ASSUME CustodyInv, NEW c \in Clients, CommitEvaluation(c)
  PROVE  CustodyInv'
<1>1. PICK e, seen : e = client[c].item /\ seen = client[c].seen /\ Earned(e, seen)
  BY DEF CustodyInv, ForgeRequest, CommitEvaluation, Done
<1>2. PICK p \in Proposals : p = e.proposal
  BY <1>1, CustodyAssumption DEF Earned
<1>3. CASE ~((\A rec \in receipts : rec.evaluation # e) /\ AwaitsOutcome(p))
  BY <1>1, <1>2, <1>3, DoneKeeps DEF CommitEvaluation, CustodyInv
<1>4. CASE (\A rec \in receipts : rec.evaluation # e) /\ AwaitsOutcome(p)
  <2>1. /\ proposals' = [proposals EXCEPT ![p] = e.outcome] /\ receipts' = receipts \cup {Receipt(e, seen)}
        /\ client' = [client EXCEPT ![c] = NoRequest] /\ UNCHANGED <<blobs, approvals, safety>>
    BY <1>1, <1>2, <1>4 DEF CommitEvaluation, Done
  <2>2. e \in Evaluations /\ e.outcome \in Decided /\ proposals[p] = "APPROVED"
    BY <1>1, <1>4, CustodyAssumption DEF Earned, Decided, AwaitsOutcome
  <2>3. \A x, a : Earned(x, a) => Earned(x, a)'
    BY <2>1, EarnedStays
  <2>4. \A rec \in receipts : rec.evaluation.proposal \in Proposals /\ rec.evaluation.proposal # p
    <3> SUFFICES ASSUME NEW rec \in receipts
                 PROVE  rec.evaluation.proposal \in Proposals /\ rec.evaluation.proposal # p
      OBVIOUS
    <3>1. rec.evaluation \in Evaluations /\ proposals[rec.evaluation.proposal] = rec.evaluation.outcome
      BY DEF CustodyInv, ReceiptShape, Earned
    <3> QED
      BY <3>1, <2>2, CustodyAssumption
  <2>5. Receipt(e, seen).evaluation = e /\ Receipt(e, seen).approval = seen
    BY DEF Receipt
  <2>6. ReceiptShape'
    <3>1. \A rec \in receipts : proposals'[rec.evaluation.proposal] = proposals[rec.evaluation.proposal]
      BY <2>1, <2>4 DEF CustodyInv
    <3>2. proposals'[p] = e.outcome
      BY <2>1 DEF CustodyInv
    <3>3. ASSUME NEW rec \in receipts'
          PROVE  /\ rec = Receipt(rec.evaluation, rec.approval)' /\ Earned(rec.evaluation, rec.approval)'
                 /\ proposals'[rec.evaluation.proposal] = rec.evaluation.outcome
      <4>1. CASE rec \in receipts
        BY <4>1, <3>1, <2>3 DEF CustodyInv, ReceiptShape, Receipt
      <4>2. CASE rec = Receipt(e, seen)
        <5>1. rec.evaluation = e /\ rec.approval = seen
          BY <4>2, <2>5
        <5> QED
          BY <5>1, <4>2, <3>2, <2>3, <1>1, <1>2 DEF Receipt
      <4> QED
        BY <4>1, <4>2, <2>1
    <3>4. ASSUME NEW rec \in receipts', NEW other \in receipts', rec.evaluation.proposal = other.evaluation.proposal
          PROVE  rec = other
      BY <3>4, <2>1, <2>4, <2>5, <1>2 DEF CustodyInv, ReceiptShape
    <3> QED
      BY <3>3, <3>4 DEF ReceiptShape
  <2>7. \A q \in Proposals : ProposalShape(q)'
    <3> TAKE q \in Proposals
    <3>1. CASE q = p
      <4>1. approvals'[q].decision = "APPROVED" /\ approvals'[q] = approvals[q] /\ proposals'[q] = e.outcome
        BY <3>1, <2>1, <1>1, <1>2 DEF CustodyInv, Earned
      <4>2. \E rec \in receipts' : rec.evaluation.proposal = q
        BY <3>1, <2>1, <2>5, <1>2
      <4>3. ProposalShape(q)
        BY DEF CustodyInv
      <4> QED
        BY <4>1, <4>2, <4>3, <2>2 DEF ProposalShape, Decided
    <3>2. CASE q # p
      <4>1. approvals'[q] = approvals[q] /\ proposals'[q] = proposals[q] /\ ProposalShape(q)
        BY <3>2, <2>1 DEF CustodyInv
      <4> QED
        BY <4>1, <2>1 DEF ProposalShape
    <3> QED
      BY <3>1, <3>2
  <2>8. \A d \in Clients : ForgeRequest(client[d])'
    <3> TAKE d \in Clients
    <3>1. CASE d = c
      BY <3>1, <2>1 DEF CustodyInv, ForgeRequest, NoRequest
    <3>2. CASE d # c
      <4>1. client'[d] = client[d] /\ ForgeRequest(client[d])
        BY <3>2, <2>1 DEF CustodyInv
      <4>2. \A q \in Proposals : proposals[q] # "none" => proposals'[q] # "none"
        BY <2>1, <2>2 DEF CustodyInv, Decided
      <4> QED
        BY <4>1, <4>2, <2>3, CustodyAssumption DEF ForgeRequest
    <3> QED
      BY <3>1, <3>2
  <2>9. \A rec \in safety' : rec.verdict = SafetyVerdict(rec.request)'
    BY <2>1, Zenon DEF CustodyInv, SafetyVerdict
  <2>10. proposals' \in [Proposals -> ProposalStates]
    BY <2>1, <2>2 DEF CustodyInv, ProposalStates
  <2> QED
    BY <2>1, <2>6, <2>7, <2>8, <2>9, <2>10 DEF CustodyInv
<1> QED
  BY <1>3, <1>4

LEMMA CommitSafetyKeeps ==
  ASSUME CustodyInv, NEW c \in Clients, CommitSafety(c)
  PROVE  CustodyInv'
<1>1. \A rec \in safety' : rec.verdict = SafetyVerdict(rec.request)
  BY DEF CommitSafety, CustodyInv
<1> QED
  BY <1>1, DoneKeeps DEF CommitSafety

\* Every request and every transaction of the forge and the planner preserves it.
LEMMA CustodyStep == CustodyInv /\ [ForgeNext]_forgeVars => CustodyInv'
<1> SUFFICES ASSUME CustodyInv, [ForgeNext]_forgeVars
             PROVE  CustodyInv'
  OBVIOUS
<1>1. CASE UNCHANGED forgeVars
  <2>1. \A e, a : Earned(e, a) => Earned(e, a)'
    BY <1>1, EarnedStays DEF forgeVars
  <2>2. ReceiptShape'
    BY <1>1, <2>1 DEF forgeVars, CustodyInv, ReceiptShape, Receipt
  <2>3. \A c \in Clients : ForgeRequest(client[c])'
    BY <1>1, <2>1 DEF forgeVars, CustodyInv, ForgeRequest
  <2>4. \A p \in Proposals : ProposalShape(p)'
    BY <1>1 DEF forgeVars, CustodyInv, ProposalShape
  <2>5. \A rec \in safety' : rec.verdict = SafetyVerdict(rec.request)'
    BY <1>1, Zenon DEF forgeVars, CustodyInv, SafetyVerdict
  <2> QED
    BY <1>1, <2>2, <2>3, <2>4, <2>5 DEF forgeVars, CustodyInv
<1>2. ASSUME NEW c \in Clients, NEW p \in Proposals, CreateProposal(c, p)
      PROVE  CustodyInv'
  <2>1. ForgeRequest([kind |-> "propose", item |-> p, seen |-> NoApproval])'
    BY DEF ForgeRequest
  <2> QED
    BY <1>2, <2>1, PutKeeps DEF CreateProposal
<1>3. ASSUME NEW c \in Clients, NEW a \in Approvals, Approve(c, a)
      PROVE  CustodyInv'
  <2>1. ForgeRequest([kind |-> "approve", item |-> a, seen |-> NoApproval])'
    BY <1>3 DEF ForgeRequest, Approve, Put
  <2> QED
    BY <1>3, <2>1, PutKeeps DEF Approve
<1>4. ASSUME NEW c \in Clients, NEW r, CreateSafety(c, r)
      PROVE  CustodyInv'
  <2>1. ForgeRequest([kind |-> "safety", item |-> r, seen |-> NoApproval])'
    BY DEF ForgeRequest
  <2> QED
    BY <1>4, <2>1, PutKeeps DEF CreateSafety
<1>5. ASSUME NEW c \in Clients, NEW r, CreatePlan(c, r)
      PROVE  CustodyInv'
  <2>1. ForgeRequest([kind |-> "plan", item |-> r, seen |-> NoApproval])'
    BY DEF ForgeRequest
  <2> QED
    BY <1>5, <2>1, PutKeeps DEF CreatePlan
<1>6. ASSUME NEW c \in Clients, CommitPlan(c)
      PROVE  CustodyInv'
  BY <1>6, DoneKeeps DEF CommitPlan, CustodyInv
<1>7. ASSUME NEW c \in Clients, AbandonForge(c)
      PROVE  CustodyInv'
  <2>1. ForgeRequest(NoRequest)'
    BY DEF ForgeRequest, NoRequest
  <2> QED
    BY <1>7, <2>1, CustodyFrame DEF AbandonForge, CustodyInv
<1> QED
  BY <1>1, <1>2, <1>3, <1>4, <1>5, <1>6, <1>7, CreateEvaluationKeeps, CommitProposalKeeps, CommitApprovalKeeps,
     CommitEvaluationKeeps, CommitSafetyKeeps DEF ForgeNext, CustodyNext, PlannerNext

\* Three different people.
LEMMA ThreeDiffer ==
  ASSUME NEW x, NEW y, NEW z, x # y, x # z, y # z
  PROVE  Cardinality({x, y, z}) = 3
<1>1. IsFiniteSet({x}) /\ Cardinality({x}) = 1
  BY FS_Singleton, Zenon
<1>2. IsFiniteSet({x, y}) /\ Cardinality({x, y}) = 2
  <2>1. {x, y} = {x} \cup {y}
    OBVIOUS
  <2> QED
    BY <1>1, <2>1, FS_AddElement
<1>3. {x, y, z} = {x, y} \cup {z}
  OBVIOUS
<1> QED
  BY <1>2, <1>3, FS_AddElement

\* services_v1/forge: whatever requests race, are repeated or die, a proposal
\* leaves APPROVED through one evaluation, and its receipt attests the decision
\* in force, three separate people and inward flows.
LEMMA CustodyGivesReceipts == CustodyInv => ReceiptsAreEarned
<1> SUFFICES ASSUME CustodyInv
             PROVE  ReceiptsAreEarned
  OBVIOUS
<1>1. ASSUME NEW p \in Proposals, NEW own, own = {rec \in receipts : rec.evaluation.proposal = p}
      PROVE  /\ Cardinality(own) <= 1
             /\ own # {} => \A rec \in own : rec.evaluation.outcome = proposals[p]
             /\ own = {} => proposals[p] \in {"none", "PENDING_APPROVAL", "APPROVED", "REJECTED"}
  <2>1. own # {} => \A rec \in own : rec.evaluation.outcome = proposals[p]
    BY <1>1 DEF CustodyInv, ReceiptShape
  <2>2. own = {} => proposals[p] \in {"none", "PENDING_APPROVAL", "APPROVED", "REJECTED"}
    BY <1>1 DEF CustodyInv, ProposalShape
  <2>3. Cardinality(own) <= 1
    <3>1. CASE own = {}
      BY <3>1, FS_EmptySet
    <3>2. CASE own # {}
      <4>1. PICK rec : rec \in own
        BY <3>2
      <4>2. own = {rec}
        BY <4>1, <1>1 DEF CustodyInv, ReceiptShape
      <4> QED
        BY <4>2, FS_Singleton
    <3> QED
      BY <3>1, <3>2
  <2> QED
    BY <2>1, <2>2, <2>3
<1>2. ASSUME NEW rec \in receipts, NEW e, e = rec.evaluation, NEW p, p = e.proposal
      PROVE  /\ rec.approval = approvals[p] /\ rec.approval.decision = "APPROVED" /\ rec \in blobs["receipt"]
             /\ Cardinality({p.proposer, e.evaluator, e.admitter}) = 3 /\ rec.approval.approver # p.proposer
             /\ \A f \in e.safety.flows : f.destination # "external" /\ (f.sensitivity = "SECRET" => f.destination = "artifact")
             /\ e.outcome = "ADMITTED" => /\ e.workflow.state \in {"completed", "recovered"}
                                          /\ \A f \in e.failures : f.severity # "severe"
  <2>1. Earned(e, rec.approval) /\ rec = Receipt(e, rec.approval)
    BY <1>2 DEF CustodyInv, ReceiptShape
  <2>2. e \in Evaluations /\ p \in Proposals /\ rec.approval = approvals[p] /\ rec.approval.decision = "APPROVED"
    BY <2>1, <1>2, CustodyAssumption DEF Earned
  <2>3. rec \in blobs["receipt"]
    BY <2>1 DEF Earned
  <2>4. Cardinality({p.proposer, e.evaluator, e.admitter}) = 3
    <3>1. e.evaluator # p.proposer /\ e.admitter # p.proposer /\ e.admitter # e.evaluator
      BY <2>1, <1>2 DEF Earned, Separated
    <3> HIDE <1>2
    <3> QED
      BY <3>1, ThreeDiffer, Zenon
  <2>5. rec.approval.approver # p.proposer
    BY <2>2 DEF CustodyInv, ProposalShape
  <2>6. ProhibitedFlows(e.safety) = {}
    BY <2>1 DEF Earned, SafetyVerdict
  <2>7. \A f \in e.safety.flows : f.destination # "external" /\ (f.sensitivity = "SECRET" => f.destination = "artifact")
    BY <2>6 DEF ProhibitedFlows
  <2>8. e.outcome = "ADMITTED" => e.workflow.state \in {"completed", "recovered"}
    BY <2>1, <2>2, CustodyAssumption DEF Earned, ValidEvaluation
  <2>9. e.outcome = "ADMITTED" => \A f \in e.failures : f.severity # "severe"
    BY <2>1 DEF Earned, BlockedByFailure
  <2> QED
    BY <2>2, <2>3, <2>4, <2>5, <2>7, <2>8, <2>9
<1>3. \A p \in Proposals :
         LET own == {rec \in receipts : rec.evaluation.proposal = p} IN
         /\ Cardinality(own) <= 1
         /\ own # {} => \A rec \in own : rec.evaluation.outcome = proposals[p]
         /\ own = {} => proposals[p] \in {"none", "PENDING_APPROVAL", "APPROVED", "REJECTED"}
  BY <1>1, Zenon
<1>4. \A rec \in receipts :
         LET e == rec.evaluation
             p == e.proposal
         IN
         /\ rec.approval = approvals[p] /\ rec.approval.decision = "APPROVED" /\ rec \in blobs["receipt"]
         /\ Cardinality({p.proposer, e.evaluator, e.admitter}) = 3 /\ rec.approval.approver # p.proposer
         /\ \A f \in e.safety.flows : f.destination # "external" /\ (f.sensitivity = "SECRET" => f.destination = "artifact")
         /\ e.outcome = "ADMITTED" => /\ e.workflow.state \in {"completed", "recovered"}
                                      /\ \A f \in e.failures : f.severity # "severe"
  BY <1>2, Zenon
<1> QED
  BY <1>3, <1>4, Zenon DEF ReceiptsAreEarned

-----------------------------------------------------------------------------
(***************************************************************************)
(* Forge, planner.  The sort key is a strict total order of the designs    *)
(* that are kept, so counting the designs before one numbers them from 1;  *)
(* the rest is arithmetic on the budget.                                   *)
(***************************************************************************)

Ranks(C, P) == [d \in C |-> 1 + Cardinality({x \in C : <<x, d>> \in P})]

\* Counting what precedes an element numbers a finite, strictly and totally
\* ordered set.
LEMMA RanksCount ==
  ASSUME NEW C, IsFiniteSet(C), NEW P,
         \A x \in C : <<x, x>> \notin P,
         \A x, y \in C : x # y => <<x, y>> \in P \/ <<y, x>> \in P,
         \A x, y, z \in C : <<x, y>> \in P /\ <<y, z>> \in P => <<x, z>> \in P
  PROVE  /\ {Ranks(C, P)[d] : d \in C} = 1 .. Cardinality(C)
         /\ \A d \in C : Ranks(C, P)[d] = 1 => \A x \in C : x # d => <<d, x>> \in P
<1> DEFINE rank == Ranks(C, P)
<1> DEFINE below(d) == {x \in C : <<x, d>> \in P}
<1>1. rank = [d \in C |-> rank[d]] /\ \A d \in C : rank[d] = 1 + Cardinality(below(d))
  BY DEF Ranks
<1> HIDE DEF rank
<1>2. \A d \in C : IsFiniteSet(below(d)) /\ Cardinality(below(d)) \in Nat
  <2> TAKE d \in C
  <2>1. below(d) \in SUBSET C
    OBVIOUS
  <2> HIDE DEF below
  <2> QED
    BY <2>1, FS_Subset, FS_CardinalityType
<1>3. Cardinality(C) \in Nat
  BY FS_CardinalityType
<1>4. \A d \in C : Cardinality(below(d)) < Cardinality(C)
  <2> TAKE d \in C
  <2>1. below(d) \in SUBSET C /\ d \notin below(d)
    OBVIOUS
  <2> HIDE DEF below
  <2> QED
    BY <2>1, <1>2, <1>3, FS_Subset
<1>5. ASSUME NEW x \in C, NEW y \in C, <<x, y>> \in P
      PROVE  Cardinality(below(x)) < Cardinality(below(y))
  <2>1. below(x) \in SUBSET below(y) /\ x \in below(y) /\ x \notin below(x)
    BY <1>5
  <2> HIDE DEF below
  <2> QED
    BY <2>1, <1>2, FS_Subset
<1>6. rank \in [C -> 1 .. Cardinality(C)]
  <2>1. \A d \in C : rank[d] \in 1 .. Cardinality(C)
    <3> TAKE d \in C
    <3>1. Cardinality(below(d)) \in Nat /\ Cardinality(below(d)) < Cardinality(C) /\ rank[d] = 1 + Cardinality(below(d))
      BY <1>1, <1>2, <1>4, Zenon
    <3> HIDE DEF below
    <3> QED
      BY <3>1, <1>3
  <2> QED
    BY <1>1, <2>1
<1>7. ASSUME NEW x \in C, NEW y \in C, rank[x] = rank[y]
      PROVE  x = y
  <2>1. Cardinality(below(x)) = Cardinality(below(y))
    <3>1. /\ rank[x] = 1 + Cardinality(below(x)) /\ rank[y] = 1 + Cardinality(below(y))
          /\ Cardinality(below(x)) \in Nat /\ Cardinality(below(y)) \in Nat
      BY <1>1, <1>2, Zenon
    <3> HIDE DEF below
    <3> QED
      BY <3>1, <1>7
  <2>2. /\ Cardinality(below(x)) \in Nat /\ <<x, y>> \notin P /\ <<y, x>> \notin P
    <3>1. Cardinality(below(x)) \in Nat
      BY <1>2
    <3>2. <<x, y>> \notin P
      <4> SUFFICES ASSUME <<x, y>> \in P PROVE FALSE
        OBVIOUS
      <4>1. Cardinality(below(x)) < Cardinality(below(y))
        BY <1>5
      <4> HIDE DEF below
      <4> QED
        BY <4>1, <2>1, <3>1
    <3>3. <<y, x>> \notin P
      <4> SUFFICES ASSUME <<y, x>> \in P PROVE FALSE
        OBVIOUS
      <4>1. Cardinality(below(y)) < Cardinality(below(x))
        BY <1>5
      <4> HIDE DEF below
      <4> QED
        BY <4>1, <2>1, <3>1
    <3> QED
      BY <3>1, <3>2, <3>3
  <2> QED
    BY <2>2
<1>8. rank \in Injection(C, 1 .. Cardinality(C))
  BY <1>6, <1>7 DEF Injection, IsInjective
<1>9. IsFiniteSet(1 .. Cardinality(C)) /\ Cardinality(1 .. Cardinality(C)) = Cardinality(C)
  BY <1>3, FS_Interval
<1>10. rank \in Surjection(C, 1 .. Cardinality(C))
  BY <1>8, <1>9, FS_Injection
<1>11. {rank[d] : d \in C} = 1 .. Cardinality(C)
  <2>1. \A t \in 1 .. Cardinality(C) : \E d \in C : rank[d] = t
    BY <1>10 DEF Surjection
  <2>2. \A d \in C : rank[d] \in 1 .. Cardinality(C)
    BY <1>6
  <2> DEFINE R == {rank[d] : d \in C}
             N == 1 .. Cardinality(C)
  <2>3. R \subseteq N
    <3> SUFFICES ASSUME NEW t \in R PROVE t \in N
      BY Zenon
    <3>1. PICK d \in C : t = rank[d]
      BY Zenon
    <3> QED
      BY <2>2, <3>1, Zenon
  <2>4. N \subseteq R
    BY <2>1, Zenon
  <2>5. R = N
    <3> HIDE DEF R, N
    <3> QED
      BY <2>3, <2>4
  <2> QED
    BY <2>5, Zenon
<1>12. ASSUME NEW d \in C, rank[d] = 1, NEW x \in C, x # d
       PROVE  <<d, x>> \in P
  <2>1. below(d) = {}
    <3>1. IsFiniteSet(below(d)) /\ Cardinality(below(d)) \in Nat /\ rank[d] = 1 + Cardinality(below(d))
      BY <1>1, <1>2, Zenon
    <3> HIDE DEF below
    <3>2. Cardinality(below(d)) = 0
      BY <3>1, <1>12
    <3> QED
      BY <3>1, <3>2, FS_EmptySet
  <2>2. <<x, d>> \notin P
    BY <2>1
  <2> QED
    BY <2>2, <1>12
<1> QED
  BY <1>11, <1>12 DEF rank

-----------------------------------------------------------------------------
\* Sums of natural numbers are natural numbers.
LEMMA MeanType ==
  ASSUME NEW values \in Seq(Nat)
  PROVE  Mean(values) \in Nat
<1>a. PICK sum : sum = PrefixSums(values, Len(values))
  OBVIOUS
<1>1. sum = [n \in 0 .. Len(values) |-> IF n = 0 THEN 0 ELSE sum[n - 1] + values[n]]
  BY <1>a, PrefixSumsExist DEF Accumulates
<1>2. Mean(values) = IF values = <<>> THEN 0 ELSE (60 * sum[Len(values)]) \div Len(values)
  BY <1>a DEF Mean, PrefixSums, Accumulates
<1> DEFINE S == {n \in Nat : n <= Len(values) => sum[n] \in Nat}
<1>3. S = Nat
  <2>1. 0 \in S
    BY <1>1
  <2>2. ASSUME NEW n \in S PROVE n + 1 \in S
    <3> SUFFICES ASSUME n + 1 <= Len(values) PROVE sum[n + 1] \in Nat
      OBVIOUS
    <3>1. sum[n + 1] = sum[(n + 1) - 1] + values[n + 1] /\ (n + 1) - 1 = n
      BY <1>1
    <3>2. sum[n] \in Nat /\ values[n + 1] \in Nat
      OBVIOUS
    <3> QED
      BY <3>1, <3>2
  <2> HIDE DEF S
  <2>3. S \in SUBSET Nat
    BY DEF S
  <2> QED
    BY <2>1, <2>2, <2>3, SetInduction, Zenon
<1>4. sum[Len(values)] \in Nat /\ Len(values) \in Nat
  BY <1>3
<1>5. values # <<>> => Len(values) > 0
  OBVIOUS
<1>6. \A a, b \in Nat : b > 0 => a \div b \in Nat
  OBVIOUS
<1>7. 60 * sum[Len(values)] \in Nat
  BY <1>4
<1> QED
  BY <1>2, <1>4, <1>5, <1>6, <1>7, Zenon

LEMMA GainType ==
  ASSUME NEW r \in PlanRequests, ValidPlanRequest(r), NEW d \in r.designs
  PROVE  Gain(r, d) \in Int
<1>1. d.mechanism \in DOMAIN r.mechanisms /\ \A i \in DOMAIN d.coverage : d.coverage[i] \in DOMAIN r.coverage
  BY DEF ValidPlanRequest
<1>2. PICK m : m = r.mechanisms[d.mechanism]
  OBVIOUS
<1>3. m.effect \in Nat /\ m.uncertainty \in Nat /\ m.interaction \in Nat /\ r.prior[d.mechanism] \in Seq(Nat)
  BY <1>1, <1>2, PlanAssumption
<1>4. Mean(r.prior[d.mechanism]) \in Nat
  BY <1>3, MeanType
<1> DEFINE covered == [i \in DOMAIN d.coverage |-> r.coverage[d.coverage[i]]]
<1>5. covered \in Seq(Nat)
  <2>1. Len(d.coverage) \in Nat /\ DOMAIN d.coverage = 1 .. Len(d.coverage)
    BY PlanAssumption
  <2>2. \A i \in DOMAIN d.coverage : r.coverage[d.coverage[i]] \in Nat
    BY <1>1, PlanAssumption
  <2> QED
    BY <2>1, <2>2
<1> HIDE DEF covered
<1>6. Mean(covered) \in Nat
  BY <1>5, MeanType
<1>7. Smaller(r.detectable, m.effect) \in Nat
  BY <1>3, PlanAssumption DEF Smaller
<1>8. PICK a, b, f \in Nat : a = Mean(r.prior[d.mechanism]) /\ b = Mean(covered) /\ f = Smaller(r.detectable, m.effect)
  BY <1>4, <1>6, <1>7
<1>9. Gain(r, d) = m.uncertainty * (1200 - a) * b * f * (20 - m.interaction)
  BY <1>2, <1>8 DEF Gain, covered
<1>10. m.uncertainty * (1200 - a) \in Int
  BY <1>3
<1>11. m.uncertainty * (1200 - a) * b \in Int
  BY <1>10
<1>12. m.uncertainty * (1200 - a) * b * f \in Int
  BY <1>11
<1> QED
  BY <1>3, <1>9, <1>12

\* What the budget lets a design have.
LEMMA AttemptsType ==
  ASSUME NEW r \in PlanRequests, ValidPlanRequest(r), NEW d \in r.designs
  PROVE  /\ Affordable(r, d) \in Nat /\ PlannedAttempts(r, d) \in Int
         /\ PlannedAttempts(r, d) <= d.max /\ PlannedAttempts(r, d) <= Affordable(r, d)
         /\ Affordable(r, d) * d.cost <= r.budget
         /\ Affordable(r, d) < d.min => d.min * d.cost > r.budget
         /\ PlannedAttempts(r, d) < d.min => Affordable(r, d) < d.min
<1>1. /\ d.cost \in Nat /\ d.cost > 0 /\ d.min \in Nat /\ d.max \in Nat /\ r.budget \in Nat /\ r.detectable \in Nat
      /\ d.max >= d.min
  BY PlanAssumption DEF ValidPlanRequest
<1>2. PICK signal \in Nat : signal = r.mechanisms[d.mechanism].effect
  BY PlanAssumption DEF ValidPlanRequest
<1>3. PICK k : k = Affordable(r, d)
  OBVIOUS
<1>4. k \in Nat /\ k * d.cost <= r.budget /\ r.budget < (k + 1) * d.cost
  BY <1>1, <1>3 DEF Affordable
<1> DEFINE wanted == IF signal = 0 THEN d.max
                     ELSE (d.min * r.detectable * r.detectable + signal * signal - 1) \div (signal * signal)
<1>5. wanted \in Int
  <2>1. CASE signal = 0
    BY <1>1, <2>1
  <2>2. CASE signal # 0
    <3>1. signal * signal \in Nat /\ signal * signal > 0
      BY <2>2
    <3>2. d.min * r.detectable \in Nat
      BY <1>1
    <3>3. d.min * r.detectable * r.detectable \in Nat
      BY <1>1, <3>2
    <3>4. PICK x \in Nat, y \in Nat : x = d.min * r.detectable * r.detectable /\ y = signal * signal /\ y > 0
      BY <3>1, <3>3
    <3>5. (x + y - 1) \div y \in Int
      BY <3>4
    <3> QED
      BY <2>2, <3>4, <3>5
  <2> QED
    BY <2>1, <2>2
<1>6. PlannedAttempts(r, d) = Smaller(Smaller(Larger(d.min, wanted), d.max), k)
  BY <1>2, <1>3 DEF PlannedAttempts
<1> HIDE DEF wanted
<1>7. /\ PlannedAttempts(r, d) \in Int /\ PlannedAttempts(r, d) <= d.max /\ PlannedAttempts(r, d) <= k
      /\ PlannedAttempts(r, d) < d.min => k < d.min
  BY <1>1, <1>4, <1>5, <1>6 DEF Smaller, Larger
<1>8. k < d.min => d.min * d.cost > r.budget
  <2> SUFFICES ASSUME k < d.min PROVE d.min * d.cost > r.budget
    OBVIOUS
  <2>1. k + 1 <= d.min
    BY <1>1, <1>4
  <2>2. (k + 1) * d.cost <= d.min * d.cost
    <3>1. \A x, y, z \in Nat : x <= y => x * z <= y * z
      OBVIOUS
    <3> QED
      BY <1>1, <1>4, <2>1, <3>1
  <2> QED
    BY <1>1, <1>4, <2>2
<1> QED
  BY <1>3, <1>4, <1>7, <1>8

\* The sort key, component by component.
LEMMA PrecedesIs ==
  ASSUME NEW r, NEW a, NEW b
  PROVE  Precedes(r, a, b) <=>
           LET ka == 0 - Gain(r, a)
               kb == 0 - Gain(r, b)
               ca == PlannedAttempts(r, a) * a.cost
               cb == PlannedAttempts(r, b) * b.cost
           IN  \/ ka < kb
               \/ ka = kb /\ a.risk < b.risk
               \/ ka = kb /\ a.risk = b.risk /\ ca < cb
               \/ ka = kb /\ a.risk = b.risk /\ ca = cb /\ a.id < b.id
<1> DEFINE key(d) == <<0 - Gain(r, d), d.risk, PlannedAttempts(r, d) * d.cost, d.id>>
<1>1. Precedes(r, a, b) <=> \E i \in 1 .. 4 : key(a)[i] < key(b)[i] /\ \A j \in 1 .. i - 1 : key(a)[j] = key(b)[j]
  BY DEF Precedes
<1>2. 1 .. 4 = {1, 2, 3, 4} /\ 1 .. 1 - 1 = {} /\ 1 .. 2 - 1 = {1} /\ 1 .. 3 - 1 = {1, 2} /\ 1 .. 4 - 1 = {1, 2, 3}
  OBVIOUS
<1>3. \A d : /\ key(d)[1] = 0 - Gain(r, d) /\ key(d)[2] = d.risk
             /\ key(d)[3] = PlannedAttempts(r, d) * d.cost /\ key(d)[4] = d.id
  OBVIOUS
<1> HIDE DEF key
<1>4. Precedes(r, a, b) <=>
         \/ key(a)[1] < key(b)[1]
         \/ key(a)[1] = key(b)[1] /\ key(a)[2] < key(b)[2]
         \/ key(a)[1] = key(b)[1] /\ key(a)[2] = key(b)[2] /\ key(a)[3] < key(b)[3]
         \/ key(a)[1] = key(b)[1] /\ key(a)[2] = key(b)[2] /\ key(a)[3] = key(b)[3] /\ key(a)[4] < key(b)[4]
  BY <1>1, <1>2
<1> QED
  BY <1>3, <1>4

\* The plan of a valid request, as its reader needs it.
PlanIsFit(r, rpt) ==
    LET ranked == rpt.ranked IN
    /\ {ranked[d].rank : d \in DOMAIN ranked} = 1 .. Cardinality(DOMAIN ranked)
    /\ DOMAIN ranked \union rpt.excluded = r.designs
    /\ \A d \in DOMAIN ranked :
        /\ d.min <= ranked[d].attempts /\ ranked[d].attempts <= d.max
        /\ ranked[d].lower <= ranked[d].upper /\ ranked[d].upper <= r.budget
        /\ ranked[d].rank = 1 => \A x \in DOMAIN ranked : Gain(r, x) <= Gain(r, d)
    /\ \A d \in rpt.excluded : d.risk > r.risk \/ d.min * d.cost > r.budget

LEMMA PlansFit ==
  ASSUME NEW r \in PlanRequests, ValidPlanRequest(r)
  PROVE  PlanIsFit(r, PlanReport(r))
<1> DEFINE chosen == {d \in r.designs : ~Excluded(r, d)}
           P == {pair \in chosen \X chosen : Precedes(r, pair[1], pair[2])}
           rank == Ranks(chosen, P)
           ranked == PlanReport(r).ranked
<1>1. PlanReport(r).excluded = r.designs \ chosen
  BY DEF PlanReport
<1>2. /\ DOMAIN ranked = chosen
      /\ \A d \in chosen : /\ ranked[d].rank = 1 + Cardinality({x \in chosen : Precedes(r, x, d)})
                           /\ ranked[d].attempts = PlannedAttempts(r, d)
                           /\ ranked[d].lower = PlannedAttempts(r, d) * d.cost
                           /\ ranked[d].upper = Smaller(d.max, Affordable(r, d)) * d.cost
  BY DEF PlanReport
<1>3. IsFiniteSet(chosen)
  <2>1. IsFiniteSet(r.designs) /\ chosen \in SUBSET r.designs
    BY PlanAssumption
  <2> QED
    BY <2>1, FS_Subset
<1>4. \A d \in chosen : d \in r.designs /\ ~Excluded(r, d)
  OBVIOUS
<1>5. \A d \in r.designs : d \notin chosen => Excluded(r, d)
  OBVIOUS
<1>6. \A x, y \in chosen : <<x, y>> \in P <=> Precedes(r, x, y)
  OBVIOUS
<1>7. \A d \in chosen : rank[d] = ranked[d].rank
  <2> TAKE d \in chosen
  <2>1. {x \in chosen : <<x, d>> \in P} = {x \in chosen : Precedes(r, x, d)}
    BY <1>6
  <2>2. rank[d] = 1 + Cardinality({x \in chosen : <<x, d>> \in P})
    BY DEF Ranks
  <2> HIDE DEF rank, P, ranked
  <2> QED
    BY <2>1, <2>2, <1>2, Zenon
<1> HIDE DEF chosen, P, rank, ranked
<1>9. \A d \in chosen : /\ Gain(r, d) \in Int /\ d.risk \in Int /\ d.id \in Int
                        /\ PlannedAttempts(r, d) * d.cost \in Int
  <2> TAKE d \in chosen
  <2>1. d \in r.designs
    BY <1>4
  <2>2. Gain(r, d) \in Int /\ PlannedAttempts(r, d) \in Int
    BY <2>1, GainType, AttemptsType
  <2>3. d.risk \in Int /\ d.id \in Int /\ d.cost \in Int
    BY <2>1, PlanAssumption
  <2> QED
    BY <2>2, <2>3
<1>10. \A x \in chosen : <<x, x>> \notin P
  <2> TAKE x \in chosen
  <2>1. ~Precedes(r, x, x)
    BY <1>9, PrecedesIs
  <2> QED
    BY <1>6, <2>1
<1>11. \A x, y \in chosen : x # y => <<x, y>> \in P \/ <<y, x>> \in P
  <2> TAKE x, y \in chosen
  <2>1. x # y => x.id # y.id
    BY <1>4, PlanAssumption
  <2>2. x # y => Precedes(r, x, y) \/ Precedes(r, y, x)
    BY <2>1, <1>9, PrecedesIs
  <2> QED
    BY <1>6, <2>2
<1>12. \A x, y, z \in chosen : <<x, y>> \in P /\ <<y, z>> \in P => <<x, z>> \in P
  <2> TAKE x, y, z \in chosen
  <2>1. Precedes(r, x, y) /\ Precedes(r, y, z) => Precedes(r, x, z)
    BY <1>9, PrecedesIs
  <2> QED
    BY <1>6, <2>1
<1>13. /\ {rank[d] : d \in chosen} = 1 .. Cardinality(chosen)
       /\ \A d \in chosen : rank[d] = 1 => \A x \in chosen : x # d => <<d, x>> \in P
  <2>1. {Ranks(chosen, P)[d] : d \in chosen} = 1 .. Cardinality(chosen)
    BY <1>3, <1>10, <1>11, <1>12, RanksCount
  <2>2. \A d \in chosen : Ranks(chosen, P)[d] = 1 => \A x \in chosen : x # d => <<d, x>> \in P
    BY <1>3, <1>10, <1>11, <1>12, RanksCount
  <2> QED
    BY <2>1, <2>2 DEF rank
<1>14. {ranked[d].rank : d \in chosen} = 1 .. Cardinality(chosen)
  <2>1. {ranked[d].rank : d \in chosen} = {rank[d] : d \in chosen}
    BY <1>7
  <2> QED
    BY <2>1, <1>13
<1>15. ASSUME NEW d \in chosen
       PROVE  /\ d.min <= ranked[d].attempts /\ ranked[d].attempts <= d.max
              /\ ranked[d].lower <= ranked[d].upper /\ ranked[d].upper <= r.budget
  <2>1. /\ d \in r.designs /\ ~(PlannedAttempts(r, d) < d.min)
    BY <1>4 DEF Excluded
  <2>2. d.min \in Nat /\ d.max \in Nat /\ d.cost \in Nat /\ r.budget \in Nat
    BY <2>1, PlanAssumption
  <2>3. PICK n \in Int, k \in Nat : /\ n = PlannedAttempts(r, d) /\ k = Affordable(r, d)
                                    /\ n <= d.max /\ n <= k /\ k * d.cost <= r.budget
    BY <2>1, AttemptsType
  <2>4. PICK top : top = Smaller(d.max, k)
    OBVIOUS
  <2>5. top \in Nat /\ n <= top /\ top <= k
    BY <2>2, <2>3, <2>4 DEF Smaller
  <2>6. n * d.cost <= top * d.cost /\ top * d.cost <= k * d.cost
    <3>1. \A x, y \in Int, z \in Nat : x <= y => x * z <= y * z
      OBVIOUS
    <3> QED
      BY <2>2, <2>3, <2>5, <3>1
  <2>7. /\ ranked[d].attempts = n /\ ranked[d].lower = n * d.cost /\ ranked[d].upper = top * d.cost
    BY <1>2, <2>3, <2>4, Zenon
  <2>8. top * d.cost \in Nat /\ k * d.cost \in Nat
    BY <2>2, <2>3, <2>5
  <2> QED
    BY <2>1, <2>2, <2>3, <2>6, <2>7, <2>8
<1>16. ASSUME NEW d \in chosen, ranked[d].rank = 1, NEW x \in chosen
       PROVE  Gain(r, x) <= Gain(r, d)
  <2>1. x # d => Precedes(r, d, x)
    BY <1>6, <1>7, <1>13, <1>16, Zenon
  <2> QED
    BY <2>1, <1>9, PrecedesIs
<1>17. ASSUME NEW d \in r.designs \ chosen
       PROVE  d.risk > r.risk \/ d.min * d.cost > r.budget
  BY <1>5, AttemptsType DEF Excluded
<1>18. chosen \cup (r.designs \ chosen) = r.designs
  BY <1>4
<1> QED
  BY <1>1, <1>2, <1>14, <1>15, <1>16, <1>17, <1>18 DEF PlanIsFit, ranked

\* A stored plan is the report of a valid request.
PlanInv ==
    /\ client = [c \in Clients |-> client[c]]
    /\ \A c \in Clients : client[c].kind = "plan" => client[c].item \in PlanRequests /\ ValidPlanRequest(client[c].item)
    /\ \A rec \in plans : /\ rec.request \in PlanRequests /\ ValidPlanRequest(rec.request)
                          /\ rec.report = PlanReport(rec.request)

LEMMA PlanStarts == ForgeInit => PlanInv
  BY DEF ForgeInit, PlanInv, NoRequest

\* A step that moves one client and stores no plan.
LEMMA PlanFrame ==
  ASSUME PlanInv, NEW c \in Clients, NEW r, client' = [client EXCEPT ![c] = r], plans' = plans,
         r.kind = "plan" => r.item \in PlanRequests /\ ValidPlanRequest(r.item)
  PROVE  PlanInv'
  BY DEF PlanInv, ValidPlanRequest

LEMMA PlanStep == PlanInv /\ [ForgeNext]_forgeVars => PlanInv'
<1> SUFFICES ASSUME PlanInv, [ForgeNext]_forgeVars
             PROVE  PlanInv'
  OBVIOUS
<1>1. CASE UNCHANGED forgeVars
  BY <1>1 DEF forgeVars, PlanInv, ValidPlanRequest
<1>2. ASSUME NEW c \in Clients, NEW k, NEW item, NEW seen, NEW artifacts, Put(c, k, item, seen, artifacts),
             k = "plan" => item \in PlanRequests /\ ValidPlanRequest(item)
      PROVE  PlanInv'
  BY <1>2, PlanFrame, Zenon DEF Put
<1>3. ASSUME NEW c \in Clients, NEW r \in PlanRequests, CreatePlan(c, r)
      PROVE  PlanInv'
  BY <1>2, <1>3 DEF CreatePlan
<1>4. ASSUME NEW c \in Clients,
             \/ \E p \in Proposals : CreateProposal(c, p)
             \/ \E a \in Approvals : Approve(c, a)
             \/ \E e \in Evaluations : CreateEvaluation(c, e)
             \/ \E r \in SafetyRequests : CreateSafety(c, r)
      PROVE  PlanInv'
  <2>1. ASSUME NEW p, CreateProposal(c, p) PROVE PlanInv'
    BY <1>2, <2>1 DEF CreateProposal
  <2>2. ASSUME NEW a, Approve(c, a) PROVE PlanInv'
    BY <1>2, <2>2 DEF Approve
  <2>3. ASSUME NEW e, CreateEvaluation(c, e) PROVE PlanInv'
    BY <1>2, <2>3 DEF CreateEvaluation
  <2>4. ASSUME NEW r, CreateSafety(c, r) PROVE PlanInv'
    BY <1>2, <2>4 DEF CreateSafety
  <2> QED
    BY <1>4, <2>1, <2>2, <2>3, <2>4
<1>5. ASSUME NEW c \in Clients,
             CommitProposal(c) \/ CommitApproval(c) \/ CommitEvaluation(c) \/ CommitSafety(c) \/ AbandonForge(c)
      PROVE  PlanInv'
  <2>1. client' = [client EXCEPT ![c] = NoRequest] /\ plans' = plans
    BY <1>5 DEF CommitProposal, CommitApproval, CommitEvaluation, CommitSafety, AbandonForge, Done
  <2>2. NoRequest.kind # "plan"
    BY DEF NoRequest
  <2> QED
    BY <2>1, <2>2, PlanFrame, Zenon
<1>6. ASSUME NEW c \in Clients, CommitPlan(c)
      PROVE  PlanInv'
  <2>1. PICK r \in PlanRequests : r = client[c].item /\ ValidPlanRequest(r)
    BY <1>6 DEF CommitPlan, Done, PlanInv
  <2>2. plans' = plans \cup {[request |-> r, report |-> PlanReport(r)]} /\ client' = [client EXCEPT ![c] = NoRequest]
    BY <1>6, <2>1 DEF CommitPlan, Done
  <2> QED
    BY <2>1, <2>2 DEF PlanInv, NoRequest
<1> QED
  BY <1>1, <1>3, <1>4, <1>5, <1>6 DEF ForgeNext, CustodyNext, PlannerNext

LEMMA PlanGivesFit == PlanInv => PlanIsAffordable
<1>1. PlanInv => \A rec \in plans : PlanIsFit(rec.request, rec.report)
  BY PlansFit DEF PlanInv
<1>2. (\A rec \in plans : PlanIsFit(rec.request, rec.report)) => PlanIsAffordable
  BY DEF PlanIsFit, PlanIsAffordable
<1> QED
  BY <1>1, <1>2

\* The forge's part of a behaviour of the workbench.
LEMMA ForgePart == Spec => ForgeSpec
<1>1. Init => ForgeInit
  BY DEF Init
<1>2. [Next]_vars => [ForgeNext]_forgeVars
  BY DEF Next, Rest, vars, ForgeNext
<1> QED
  BY <1>1, <1>2, PTL DEF Spec, ForgeSpec

\* services_v1/forge, whatever requests race, are repeated or die: a proposal
\* leaves APPROVED through one evaluation, whose receipt attests the decision in
\* force, three separate people and inward flows; and a stored plan ranks or
\* excludes every design, within the budget and the bounds of each.
THEOREM ForgeStaysSound == Spec => []ForgeIsSound
<1>1. ForgeSpec => []CustodyInv
  BY CustodyStarts, CustodyStep, PTL DEF ForgeSpec
<1>2. ForgeSpec => []PlanInv
  BY PlanStarts, PlanStep, PTL DEF ForgeSpec
<1>3. CustodyInv /\ PlanInv => ForgeIsSound
  BY CustodyGivesReceipts, PlanGivesFit DEF ForgeIsSound
<1> QED
  BY <1>1, <1>2, <1>3, ForgePart, PTL

-----------------------------------------------------------------------------
(***************************************************************************)
(* Counterfactual replay and Harness CI.  A gate only ever judges a stored *)
(* report; the rest is what a PASS of the checks means for the recorded    *)
(* pairs, with the sums compared pair by pair.                             *)
(***************************************************************************)
ReplayInv ==
    /\ gate = [g \in Gates |-> gate[g]]
    /\ replays \subseteq ReplayRequests /\ \A r \in replays : ValidReplay(r)
    /\ \A g \in Gates : gate[g].kind = "replay" => gate[g].item \in ReplayRequests /\ ValidReplay(gate[g].item)
    /\ \A g \in Gates : gate[g].kind = "gate" => gate[g].item.replay \in replays /\ gate[g].item.policy \in Policies
    /\ \A rec \in gates : /\ rec.request.replay \in replays /\ rec.request.policy \in Policies
                          /\ rec.report = GateReport(rec.request)

LEMMA ReplayStarts == ReplayInit => ReplayInv
  BY DEF ReplayInit, ReplayInv, NoGate

LEMMA ReplayStep == ReplayInv /\ [ReplayNext]_replayVars => ReplayInv'
<1> SUFFICES ASSUME ReplayInv, [ReplayNext]_replayVars
             PROVE  ReplayInv'
  OBVIOUS
<1>1. CASE UNCHANGED replayVars
  BY <1>1 DEF replayVars, ReplayInv, ValidReplay
<1>2. ASSUME NEW g \in Gates, NEW r \in ReplayRequests, CreateReplay(g, r)
      PROVE  ReplayInv'
  BY <1>2 DEF CreateReplay, ReplayInv
<1>3. ASSUME NEW g \in Gates, NEW r \in ReplayRequests, NEW policy \in Policies, NEW changes, CreateGate(g, r, policy, changes)
      PROVE  ReplayInv'
  BY <1>3 DEF CreateGate, StoredReplay, ReplayInv
<1>4. ASSUME NEW g \in Gates, CommitReplay(g)
      PROVE  ReplayInv'
  BY <1>4 DEF CommitReplay, ReplayInv, NoGate
<1>5. ASSUME NEW g \in Gates, CommitGate(g)
      PROVE  ReplayInv'
  <2>1. PICK q : q = gate[g].item /\ q.replay \in replays /\ q.policy \in Policies
    BY <1>5 DEF CommitGate, ReplayInv
  <2>2. /\ gates' \subseteq gates \cup {[request |-> q, report |-> GateReport(q)]}
        /\ gate' = [gate EXCEPT ![g] = NoGate] /\ replays' = replays
    BY <1>5, <2>1 DEF CommitGate
  <2> QED
    BY <2>1, <2>2 DEF ReplayInv, NoGate
<1>6. ASSUME NEW g \in Gates, AbandonGate(g)
      PROVE  ReplayInv'
  BY <1>6 DEF AbandonGate, ReplayInv, NoGate
<1> QED
  BY <1>1, <1>2, <1>3, <1>4, <1>5, <1>6 DEF ReplayNext

-----------------------------------------------------------------------------
\* The prefix sums behind SumOf.
Prefix(values) ==
    LET sum[n \in 0 .. Len(values)] == IF n = 0 THEN 0 ELSE sum[n - 1] + values[n]
    IN  sum

LEMMA PrefixIs ==
  ASSUME NEW values \in Seq(Int)
  PROVE  /\ Prefix(values) = [n \in 0 .. Len(values) |-> IF n = 0 THEN 0 ELSE Prefix(values)[n - 1] + values[n]]
         /\ SumOf(values) = Prefix(values)[Len(values)]
<1>1. Prefix(values) = PrefixSums(values, Len(values))
  BY DEF Prefix, PrefixSums, Accumulates
<1>2. Accumulates(values, Len(values), PrefixSums(values, Len(values)))
  BY PrefixSumsExist
<1>3. SumOf(values) = Prefix(values)[Len(values)]
  BY DEF Prefix, SumOf
<1> QED
  BY <1>1, <1>2, <1>3, Zenon DEF Accumulates

LEMMA PrefixStep ==
  ASSUME NEW values \in Seq(Int), NEW n \in Nat, n + 1 <= Len(values)
  PROVE  Prefix(values)[n + 1] = Prefix(values)[n] + values[n + 1]
  BY PrefixIs

LEMMA PrefixType ==
  ASSUME NEW values \in Seq(Int)
  PROVE  Prefix(values) \in [0 .. Len(values) -> Int]
<1> DEFINE S == {n \in Nat : n <= Len(values) => Prefix(values)[n] \in Int}
<1>1. 0 \in S
  BY PrefixIs
<1>2. ASSUME NEW n \in S PROVE n + 1 \in S
  <2> SUFFICES ASSUME n + 1 <= Len(values) PROVE Prefix(values)[n + 1] \in Int
    OBVIOUS
  <2>1. Prefix(values)[n + 1] = Prefix(values)[n] + values[n + 1]
    BY PrefixIs
  <2> QED
    BY <2>1
<1>3. S = Nat
  <2>1. S \in SUBSET Nat
    OBVIOUS
  <2> HIDE DEF S
  <2> QED
    BY <2>1, <1>1, <1>2, SetInduction, Zenon
<1>4. \A n \in 0 .. Len(values) : Prefix(values)[n] \in Int
  BY <1>3
<1> QED
  BY <1>4, PrefixIs

Combines(N, z, a, x, b, y, k) == \A i \in 1 .. N : z[i] = a * x[i] + b * y[i] + k
SumsCombine(N, z, a, x, b, y, k) == SumOf(z) = a * SumOf(x) + b * SumOf(y) + N * k

\* A sum of linear combinations is the combination of the sums.
LEMMA SumIsLinear ==
  ASSUME NEW N \in Nat, NEW x \in [1 .. N -> Int], NEW y \in [1 .. N -> Int], NEW z \in [1 .. N -> Int],
         NEW a \in Int, NEW b \in Int, NEW k \in Int, Combines(N, z, a, x, b, y, k)
  PROVE  /\ SumOf(x) \in Int /\ SumOf(y) \in Int /\ SumOf(z) \in Int
         /\ SumsCombine(N, z, a, x, b, y, k)
<1>1. /\ x \in Seq(Int) /\ y \in Seq(Int) /\ z \in Seq(Int) /\ Len(x) = N /\ Len(y) = N /\ Len(z) = N
  OBVIOUS
<1>2. /\ Prefix(x) \in [0 .. N -> Int] /\ Prefix(y) \in [0 .. N -> Int] /\ Prefix(z) \in [0 .. N -> Int]
  BY <1>1, PrefixType, Zenon
<1> DEFINE S == {n \in Nat : n <= N => Prefix(z)[n] = a * Prefix(x)[n] + b * Prefix(y)[n] + n * k}
<1>3. 0 \in S
  <2>1. Prefix(x)[0] = 0 /\ Prefix(y)[0] = 0 /\ Prefix(z)[0] = 0
    BY <1>1, PrefixIs
  <2> QED
    BY <2>1
<1>4. ASSUME NEW n \in S PROVE n + 1 \in S
  <2> SUFFICES ASSUME n + 1 <= N
               PROVE  Prefix(z)[n + 1] = a * Prefix(x)[n + 1] + b * Prefix(y)[n + 1] + (n + 1) * k
    OBVIOUS
  <2>1. n + 1 \in 1 .. N /\ n \in 0 .. N
    OBVIOUS
  <2>2. /\ Prefix(x)[n + 1] = Prefix(x)[n] + x[n + 1] /\ Prefix(y)[n + 1] = Prefix(y)[n] + y[n + 1]
        /\ Prefix(z)[n + 1] = Prefix(z)[n] + z[n + 1]
    BY <1>1, PrefixStep, Zenon
  <2>3. PICK px, py, pz, qx, qy \in Int : /\ px = Prefix(x)[n] /\ py = Prefix(y)[n] /\ pz = Prefix(z)[n]
                                         /\ qx = x[n + 1] /\ qy = y[n + 1]
    BY <1>2, <2>1, Zenon
  <2>4. z[n + 1] = a * qx + b * qy + k /\ pz = a * px + b * py + n * k
    BY <2>1, <2>3 DEF Combines
  <2>5. a * (px + qx) = a * px + a * qx /\ b * (py + qy) = b * py + b * qy /\ (n + 1) * k = n * k + k
    OBVIOUS
  <2>6. pz + z[n + 1] = (a * px + a * qx) + (b * py + b * qy) + (n * k + k)
    <3>1. PICK t1, t2, t3, t4, t5 \in Int : /\ t1 = a * px /\ t2 = a * qx /\ t3 = b * py /\ t4 = b * qy /\ t5 = n * k
      OBVIOUS
    <3> QED
      BY <2>4, <3>1
  <2>7. pz + z[n + 1] = a * (px + qx) + b * (py + qy) + (n + 1) * k
    BY <2>5, <2>6
  <2> QED
    BY <2>2, <2>3, <2>7
<1>5. S = Nat
  <2>1. S \in SUBSET Nat
    OBVIOUS
  <2> HIDE DEF S
  <2> QED
    BY <2>1, <1>3, <1>4, SetInduction, Zenon
<1>6. Prefix(z)[N] = a * Prefix(x)[N] + b * Prefix(y)[N] + N * k
  <2>1. N \in S
    <3> HIDE DEF S
    <3> QED
      BY <1>5
  <2> QED
    BY <2>1
<1>7. SumOf(x) = Prefix(x)[N] /\ SumOf(y) = Prefix(y)[N] /\ SumOf(z) = Prefix(z)[N]
  BY <1>1, PrefixIs
<1>8. Prefix(x)[N] \in Int /\ Prefix(y)[N] \in Int /\ Prefix(z)[N] \in Int
  BY <1>2
<1> QED
  BY <1>6, <1>7, <1>8 DEF SumsCombine

-----------------------------------------------------------------------------
\* A check that passed neither failed nor held.
LEMMA PassedChecks ==
  ASSUME NEW checks, Verdict(checks) = "PASS", NEW k \in DOMAIN checks
  PROVE  checks[k] \notin {"FAIL", "HOLD"}
  BY DEF Verdict

\* What every check says of the report it judged.
LEMMA PassedReport ==
  ASSUME NEW rpt, NEW q, Verdict(Checks(rpt, q)) = "PASS"
  PROVE  /\ Affected(q.changes) = {rpt.mechanism}
         /\ rpt.severe = {}
         /\ ~(rpt.quality.delta < 0 - q.policy.regression * rpt.pairs)
         /\ rpt.cost.known /\ ~Exceeds(rpt.cost, q.policy.ratio)
         /\ rpt.latency.known /\ ~Exceeds(rpt.latency, q.policy.ratio)
         /\ ~(rpt.pairs < q.policy.repetitions)
         /\ ~(rpt.fidelity < q.policy.fidelity)
         /\ q.policy.safety => rpt.safety \notin {"fail", "unknown"}
<1> DEFINE c == Checks(rpt, q)
<1>1. /\ DOMAIN c = {"single_mechanism", "new_severe_failures", "quality_regression", "cost_ceiling", "latency_ceiling",
                     "required_cohorts", "evidence_maturity", "statistical_adequacy", "fidelity", "process_safety"}
  BY DEF Checks
<1>2. \A k \in DOMAIN c : c[k] \notin {"FAIL", "HOLD"}
  BY PassedChecks
<1>3. Affected(q.changes) = {rpt.mechanism}
  <2>1. c.single_mechanism \notin {"FAIL", "HOLD"}
    BY <1>1, <1>2
  <2> QED
    BY <2>1 DEF Checks
<1>4. rpt.severe = {}
  <2>1. c.new_severe_failures \notin {"FAIL", "HOLD"}
    BY <1>1, <1>2
  <2> QED
    BY <2>1 DEF Checks
<1>5. ~(rpt.quality.delta < 0 - q.policy.regression * rpt.pairs)
  <2>1. c.quality_regression \notin {"FAIL", "HOLD"}
    BY <1>1, <1>2
  <2> QED
    BY <2>1 DEF Checks
<1>6. rpt.cost.known /\ ~Exceeds(rpt.cost, q.policy.ratio)
  <2>1. c.cost_ceiling \notin {"FAIL", "HOLD"}
    BY <1>1, <1>2
  <2> QED
    BY <2>1 DEF Checks
<1>7. rpt.latency.known /\ ~Exceeds(rpt.latency, q.policy.ratio)
  <2>1. c.latency_ceiling \notin {"FAIL", "HOLD"}
    BY <1>1, <1>2
  <2> QED
    BY <2>1 DEF Checks
<1>8. ~(rpt.pairs < q.policy.repetitions)
  <2>1. c.statistical_adequacy \notin {"FAIL", "HOLD"}
    BY <1>1, <1>2
  <2> QED
    BY <2>1 DEF Checks
<1>9. ~(rpt.fidelity < q.policy.fidelity)
  <2>1. c.fidelity \notin {"FAIL", "HOLD"}
    BY <1>1, <1>2
  <2> QED
    BY <2>1 DEF Checks
<1>10. q.policy.safety => rpt.safety \notin {"fail", "unknown"}
  <2>1. c.process_safety \notin {"FAIL", "HOLD"}
    BY <1>1, <1>2
  <2> QED
    BY <2>1 DEF Checks
<1> QED
  BY <1>3, <1>4, <1>5, <1>6, <1>7, <1>8, <1>9, <1>10

\* A field every branch knows and that stays under its ceiling costs no pair sum
\* more than the ceiling, also when the base is free.
LEMMA CeilingHolds ==
  ASSUME NEW r \in ReplayRequests, NEW ratio \in Nat, NEW field \in {"cost", "latency"},
         Estimate(r, field).known, ~Exceeds(Estimate(r, field), ratio)
  PROVE  SumOf([i \in DOMAIN r.pairs |-> 4 * r.pairs[i].candidate[field] - (4 + ratio) * r.pairs[i].base[field]]) <= 0
<1>1. PICK N \in Nat : N = Len(r.pairs) /\ DOMAIN r.pairs = 1 .. N
  BY ReplayAssumption
<1>2. \A i \in 1 .. N : r.pairs[i].base[field] \in Int /\ r.pairs[i].candidate[field] \in Int
  BY <1>1, ReplayAssumption DEF Unknown
<1>3. PICK x, y, z : /\ x = [i \in 1 .. N |-> r.pairs[i].candidate[field]] /\ y = [i \in 1 .. N |-> r.pairs[i].base[field]]
                     /\ z = [i \in 1 .. N |-> 4 * r.pairs[i].candidate[field] - (4 + ratio) * r.pairs[i].base[field]]
  BY Zenon
<1>4. x \in [1 .. N -> Int] /\ y \in [1 .. N -> Int]
  <2>1. /\ x = [i \in 1 .. N |-> r.pairs[i].candidate[field]]
        /\ y = [i \in 1 .. N |-> r.pairs[i].base[field]]
    BY <1>3, Zenon
  <2> QED
    BY <1>2, <2>1, Zenon
<1>5. PICK a, b, k \in Int : a = 4 /\ b = 0 - (4 + ratio) /\ k = 0
  OBVIOUS
<1>6. z \in [1 .. N -> Int] /\ Combines(N, z, a, x, b, y, k)
  <2>1. \A i \in 1 .. N : z[i] = 4 * x[i] - (4 + ratio) * y[i]
    BY <1>3
  <2>2. \A u, v \in Int : 4 * u - (4 + ratio) * v = a * u + b * v + k /\ a * u + b * v + k \in Int
    BY <1>5
  <2>3. \A i \in 1 .. N : x[i] \in Int /\ y[i] \in Int
    BY <1>4
  <2>4. z = [i \in 1 .. N |-> z[i]]
    BY <1>3
  <2> HIDE <1>3
  <2>5. \A i \in 1 .. N : z[i] = a * x[i] + b * y[i] + k /\ z[i] \in Int
    BY <2>1, <2>2, <2>3
  <2> QED
    BY <2>4, <2>5 DEF Combines
<1>8. /\ SumOf(x) \in Int /\ SumOf(y) \in Int /\ SumOf(z) \in Int
      /\ SumsCombine(N, z, a, x, b, y, k)
  <2> HIDE <1>3, <1>5
  <2> QED
    BY <1>4, <1>6, SumIsLinear, Zenon
<1>9. Estimate(r, field).base = SumOf(y) /\ Estimate(r, field).delta = SumOf(x) - SumOf(y)
  BY <1>1, <1>3 DEF Estimate
<1>10. PICK X, Y, Z \in Int : X = SumOf(x) /\ Y = SumOf(y) /\ Z = SumOf(z)
  BY <1>8
<1>11. IF Y = 0 THEN ~(X - Y > 0) ELSE ~(4 * (X - Y) > ratio * Y)
  BY <1>9, <1>10 DEF Exceeds
<1>12. Z = 4 * X - (4 + ratio) * Y
  BY <1>5, <1>8, <1>10 DEF SumsCombine
<1>13. Z <= 0
  BY <1>11, <1>12
<1> QED
  BY <1>1, <1>3, <1>10, <1>13

LEMMA QualityHolds ==
  ASSUME NEW r \in ReplayRequests, NEW regression \in Nat,
         ~(Estimate(r, "quality").delta < 0 - regression * Len(r.pairs))
  PROVE  SumOf([i \in DOMAIN r.pairs |-> r.pairs[i].candidate.quality - r.pairs[i].base.quality + regression]) >= 0
<1>1. PICK N \in Nat : N = Len(r.pairs) /\ DOMAIN r.pairs = 1 .. N
  BY ReplayAssumption
<1>2. \A i \in 1 .. N : r.pairs[i].base.quality \in Nat /\ r.pairs[i].candidate.quality \in Nat
  BY <1>1, ReplayAssumption
<1>3. PICK x, y, z : /\ x = [i \in 1 .. N |-> r.pairs[i].candidate.quality] /\ y = [i \in 1 .. N |-> r.pairs[i].base.quality]
                     /\ z = [i \in 1 .. N |-> r.pairs[i].candidate.quality - r.pairs[i].base.quality + regression]
  BY Zenon
<1>4. x \in [1 .. N -> Int] /\ y \in [1 .. N -> Int]
  <2>1. \A i \in 1 .. N : r.pairs[i].base.quality \in Int /\ r.pairs[i].candidate.quality \in Int
    BY <1>2
  <2>2. /\ x = [i \in 1 .. N |-> r.pairs[i].candidate.quality]
        /\ y = [i \in 1 .. N |-> r.pairs[i].base.quality]
    BY <1>3, Zenon
  <2> QED
    BY <2>1, <2>2, Zenon
<1>5. PICK a, b, k \in Int : a = 1 /\ b = 0 - 1 /\ k = regression
  OBVIOUS
<1>6. z \in [1 .. N -> Int] /\ Combines(N, z, a, x, b, y, k)
  <2>1. \A i \in 1 .. N : z[i] = x[i] - y[i] + regression
    BY <1>3
  <2>2. \A u, v \in Int : u - v + regression = a * u + b * v + k /\ u - v + regression \in Int
    BY <1>5
  <2>3. \A i \in 1 .. N : x[i] \in Int /\ y[i] \in Int
    BY <1>4
  <2>4. z = [i \in 1 .. N |-> z[i]]
    BY <1>3
  <2> HIDE <1>3
  <2>5. \A i \in 1 .. N : z[i] = a * x[i] + b * y[i] + k /\ z[i] \in Int
    <3> SUFFICES ASSUME NEW i \in 1 .. N
                 PROVE  z[i] = a * x[i] + b * y[i] + k /\ z[i] \in Int
      OBVIOUS
    <3>1. x[i] \in Int /\ y[i] \in Int /\ z[i] = x[i] - y[i] + regression
      BY <2>1, <2>3
    <3> HIDE <1>5
    <3> QED
      BY <3>1, <2>2, Zenon
  <2> QED
    BY <2>4, <2>5 DEF Combines
<1>7. /\ SumOf(x) \in Int /\ SumOf(y) \in Int /\ SumOf(z) \in Int
      /\ SumsCombine(N, z, a, x, b, y, k)
  <2> HIDE <1>3, <1>5
  <2> QED
    BY <1>4, <1>6, SumIsLinear, Zenon
<1>8. Estimate(r, "quality").delta = SumOf(x) - SumOf(y)
  <2>1. ASSUME NEW v \in Branches(r) PROVE v.quality # Unknown
    <3>1. PICK i \in 1 .. N : v = r.pairs[i].base \/ v = r.pairs[i].candidate
      BY <1>1 DEF Branches
    <3>2. v.quality \in Nat
      BY <1>2, <3>1
    <3> QED
      BY <3>2 DEF Unknown
  <2> QED
    BY <1>1, <1>3, <2>1 DEF Estimate
<1>9. PICK X, Y, Z \in Int : X = SumOf(x) /\ Y = SumOf(y) /\ Z = SumOf(z)
  BY <1>7
<1>10. Z = X - Y + N * regression
  BY <1>5, <1>7, <1>9 DEF SumsCombine
<1>11. ~(X - Y < 0 - regression * N)
  BY <1>1, <1>8, <1>9
<1>12. Z >= 0
  BY <1>10, <1>11
<1> QED
  BY <1>1, <1>3, <1>9, <1>12

\* The least fidelity reached bounds the fidelity of every branch.
LEMMA FidelityHolds ==
  ASSUME NEW r \in ReplayRequests, NEW least \in Nat, ~(Fidelity(r) < least), NEW b \in Branches(r)
  PROVE  b.fidelity >= least
<1> DEFINE levels == {v.fidelity : v \in Branches(r)}
<1>1. \A v \in Branches(r) : v.fidelity \in Nat \cup {Unknown}
  BY ReplayAssumption DEF Branches
<1>2. Fidelity(r) = IF Unknown \in levels THEN Unknown ELSE Lowest(levels)
  BY DEF Fidelity
<1>3. b.fidelity \in levels /\ levels \subseteq Nat \cup {Unknown}
  BY <1>1
<1> HIDE DEF levels
<1>4. Unknown \notin levels
  BY <1>2 DEF Unknown
<1>5. \E n \in levels : \A m \in levels : n <= m
  <2>1. levels \in SUBSET Nat /\ levels # {}
    BY <1>3, <1>4
  <2> QED
    BY <2>1, LeastNumber
<1>6. Lowest(levels) \in levels /\ \A m \in levels : Lowest(levels) <= m
  BY <1>5 DEF Lowest
<1>7. Lowest(levels) \in Nat /\ b.fidelity \in Nat /\ Lowest(levels) <= b.fidelity /\ Fidelity(r) = Lowest(levels)
  BY <1>2, <1>3, <1>4, <1>6, Zenon
<1> QED
  BY <1>7

LEMMA NoneIsNew ==
  ASSUME NEW r, NewSevere(r) = {}, NEW n \in DOMAIN r.pairs, NEW x \in r.pairs[n].candidate.severe
  PROVE  \E j \in DOMAIN r.pairs : x \in r.pairs[j].base.severe
<1> SUFFICES ASSUME \A j \in DOMAIN r.pairs : x \notin r.pairs[j].base.severe
             PROVE  FALSE
  OBVIOUS
<1>1. x \in UNION {r.pairs[i].candidate.severe : i \in DOMAIN r.pairs}
  OBVIOUS
<1>2. x \notin UNION {r.pairs[i].base.severe : i \in DOMAIN r.pairs}
  OBVIOUS
<1>3. x \in NewSevere(r)
  BY <1>1, <1>2, Zenon DEF NewSevere
<1> QED
  BY <1>3

\* What the reported replay carries of its request.
LEMMA ReportCarries ==
  ASSUME NEW r, NEW rpt, rpt = ReplayReport(r).report
  PROVE  /\ rpt.mechanism = r.mechanism /\ rpt.pairs = Len(r.pairs) /\ rpt.quality = Estimate(r, "quality")
         /\ rpt.cost = Estimate(r, "cost") /\ rpt.latency = Estimate(r, "latency")
         /\ rpt.fidelity = Fidelity(r) /\ rpt.severe = NewSevere(r)
         /\ rpt.safety = Worst({b.safety : b \in Branches(r)})
  BY DEF ReplayReport

\* The replay's part of a behaviour of the workbench.
LEMMA ReplayPart == Spec => ReplaySpec
<1>1. Init => ReplayInit
  BY DEF Init
<1>2. [Next]_vars => [ReplayNext]_replayVars
  BY DEF Next, Rest, vars
<1> QED
  BY <1>1, <1>2, PTL DEF Spec, ReplaySpec

LEMMA GatesPassEarned ==
  ASSUME ReplayInv, NEW rec \in gates, rec.report.verdict = "PASS", NEW r, r = rec.request.replay,
         NEW policy, policy = rec.request.policy
  PROVE  /\ r \in replays /\ Len(r.pairs) >= policy.repetitions
         /\ SumOf([i \in DOMAIN r.pairs |->
                     (r.pairs[i].candidate.quality - r.pairs[i].base.quality) + policy.regression]) >= 0
         /\ \A field \in {"cost", "latency"} :
              SumOf([i \in DOMAIN r.pairs |->
                       4 * r.pairs[i].candidate[field] - (4 + policy.ratio) * r.pairs[i].base[field]]) <= 0
         /\ \A i \in DOMAIN r.pairs : \A x \in r.pairs[i].candidate.severe :
              \E j \in DOMAIN r.pairs : x \in r.pairs[j].base.severe
         /\ \A b \in Branches(r) : b.cost >= 0 /\ b.fidelity >= policy.fidelity /\ (policy.safety => b.safety = "pass")
         /\ UNION rec.request.changes = {r.mechanism}
<1>1. r \in replays /\ r \in ReplayRequests /\ ValidReplay(r) /\ policy \in Policies /\ rec.report = GateReport(rec.request)
  BY DEF ReplayInv
<1>2. PICK rpt : rpt = ReplayReport(r).report
  OBVIOUS
<1>3. Verdict(Checks(rpt, rec.request)) = "PASS"
  BY <1>1, <1>2 DEF GateReport
<1>4. /\ Affected(rec.request.changes) = {rpt.mechanism}
      /\ rpt.severe = {}
      /\ ~(rpt.quality.delta < 0 - policy.regression * rpt.pairs)
      /\ rpt.cost.known /\ ~Exceeds(rpt.cost, policy.ratio)
      /\ rpt.latency.known /\ ~Exceeds(rpt.latency, policy.ratio)
      /\ ~(rpt.pairs < policy.repetitions)
      /\ ~(rpt.fidelity < policy.fidelity)
      /\ policy.safety => rpt.safety \notin {"fail", "unknown"}
  BY <1>3, PassedReport
<1>5. /\ rpt.mechanism = r.mechanism /\ rpt.pairs = Len(r.pairs) /\ rpt.quality = Estimate(r, "quality")
      /\ rpt.cost = Estimate(r, "cost") /\ rpt.latency = Estimate(r, "latency")
      /\ rpt.fidelity = Fidelity(r) /\ rpt.severe = NewSevere(r)
      /\ rpt.safety = Worst({b.safety : b \in Branches(r)})
  BY <1>2, ReportCarries, Zenon
<1>6. /\ policy.ratio \in Nat /\ policy.regression \in Nat /\ policy.fidelity \in Nat /\ policy.repetitions \in Nat
      /\ Len(r.pairs) \in Nat
  BY <1>1, ReplayAssumption
<1>7. Len(r.pairs) >= policy.repetitions
  BY <1>4, <1>5, <1>6
<1>8. SumOf([i \in DOMAIN r.pairs |->
               (r.pairs[i].candidate.quality - r.pairs[i].base.quality) + policy.regression]) >= 0
  BY <1>1, <1>4, <1>5, <1>6, QualityHolds, Zenon
<1>9. ASSUME NEW field \in {"cost", "latency"}
      PROVE  SumOf([i \in DOMAIN r.pairs |->
                      4 * r.pairs[i].candidate[field] - (4 + policy.ratio) * r.pairs[i].base[field]]) <= 0
  <2>1. Estimate(r, field).known /\ ~Exceeds(Estimate(r, field), policy.ratio)
    BY <1>4, <1>5
  <2> QED
    <3>1. PICK ratio \in Nat : ratio = policy.ratio
      BY <1>6
    <3>2. r \in ReplayRequests /\ Estimate(r, field).known /\ ~Exceeds(Estimate(r, field), ratio)
      BY <1>1, <2>1, <3>1
    <3>3. SumOf([i \in DOMAIN r.pairs |->
                   4 * r.pairs[i].candidate[field] - (4 + ratio) * r.pairs[i].base[field]]) <= 0
      BY <3>2, CeilingHolds, Zenon
    <3> QED
      BY <3>1, <3>3
<1>10. \A i \in DOMAIN r.pairs : \A x \in r.pairs[i].candidate.severe : \E j \in DOMAIN r.pairs : x \in r.pairs[j].base.severe
  BY <1>4, <1>5, NoneIsNew
<1>11. ASSUME NEW b \in Branches(r)
       PROVE  b.cost >= 0 /\ b.fidelity >= policy.fidelity /\ (policy.safety => b.safety = "pass")
  <2>1. b.cost \in Nat \cup {Unknown} /\ b.safety \in {"pass", "fail", "unknown"}
    BY <1>1, ReplayAssumption DEF Branches
  <2>2. b.cost # Unknown
    <3>1. Estimate(r, "cost").known
      BY <1>4, <1>5
    <3>2. ~\E v \in Branches(r) : v["cost"] = Unknown
      BY <3>1 DEF Estimate
    <3> QED
      BY <3>2
  <2>3. b.fidelity >= policy.fidelity
    BY <1>1, <1>4, <1>5, <1>6, FidelityHolds
  <2>4. policy.safety => b.safety = "pass"
    BY <2>1, <1>4, <1>5 DEF Worst
  <2> QED
    BY <2>1, <2>2, <2>3, <2>4
<1>12. UNION rec.request.changes = {r.mechanism}
  BY <1>4, <1>5 DEF Affected
<1> QED
  BY <1>1, <1>7, <1>8, <1>9, <1>10, <1>11, <1>12, Zenon

\* services_v1/counterfactual: whatever replays and gates race, a stored PASS
\* is earned by the recorded pairs of a stored replay.
THEOREM PassesAreEarned == Spec => []PassIsEarned
<1>1. ReplayInv => PassIsEarned
  BY GatesPassEarned, Zenon DEF PassIsEarned
<1>2. ReplaySpec => []ReplayInv
  BY ReplayStarts, ReplayStep, PTL DEF ReplaySpec
<1> QED
  BY <1>1, <1>2, ReplayPart, PTL

-----------------------------------------------------------------------------
(***************************************************************************)
(* The harness adapters.  A trace grows while its execution runs and by a  *)
(* cancellation only while there is no result; a stream ends only after    *)
(* the execution did; and what an earlier preparation left is either       *)
(* forgotten or carries an older generation than the row.                  *)
(***************************************************************************)
AdapterEvents ==
    {"request", "response", "fidelity", "error", "cancelled_before_request", "cancellation_requested"}

Identities == RuntimeIds \union {"unread", NoAnswer}
AdapterAnswers == [outcome : Outcomes, class : FailureClasses, output : BOOLEAN]
ArtifactNames == {"output", "summary", "identity", "usage", "controls", "provider-response",
                  "renderer-receipt", "prompt", "terminal-receipt"}

AdapterRows ==
    [held : BOOLEAN, generation : Nat, input : {o.input : o \in Offers} \union {NoAnswer}, before : Identities,
     trace : Seq(AdapterEvents), ready : BOOLEAN, cancelled : BOOLEAN, cleaned : BOOLEAN,
     result : KeptResults \union {NoAnswer}, artifacts : SUBSET ArtifactNames]

AdapterTypes ==
    /\ runtime \in RuntimeIds /\ prepares \in Nat
    /\ row \in AdapterRows
    /\ exec \in [pc : {"idle", "sent", "identity"}, generation : Nat, before : Identities,
                 reply : Replies \union {NoAnswer}]

\* A trace with a request, with a response after it, without a cancellation.
Requested(trace) == \E i \in DOMAIN trace : trace[i] = "request"
Responded(trace) == \E i, j \in DOMAIN trace : trace[i] = "request" /\ trace[j] = "response" /\ i < j
Calm(trace) == \A i \in DOMAIN trace : trace[i] # "cancellation_requested"

\* The row between operations.
AdapterRowShape ==
    /\ row.generation <= prepares /\ exec.generation <= prepares
    /\ row.result # NoAnswer => row.result.generation <= prepares
    /\ kind \in Forgetful => IF row.held THEN ~row.cleaned ELSE row.result = NoAnswer
    /\ kind \notin Identified /\ row.held => row.before = "unread"
    /\ ~row.cancelled => Calm(row.trace)
    /\ kind \notin Stateless /\ row.ready => exec.pc = "idle" /\ exec.generation >= row.generation
    /\ kind \notin Stateless /\ shown # NoAnswer => row.ready

\* An execution in flight.
ExecutionShape ==
    exec.pc # "idle" =>
        /\ kind \notin Stateless /\ row.held /\ row.result = NoAnswer
        /\ exec.generation < row.generation
        /\ kind # "http" => Requested(row.trace)
        /\ kind \notin Identified => exec.before = "unread"
        /\ exec.pc = "identity" => kind \in Identified /\ exec.reply \in Replies

\* What a kept result says of the trace, ResultMatchesTrace with the trace as
\* a whole.
ResultShape ==
    row.result # NoAnswer =>
        /\ kind \in Forgetful => row.result.generation = row.generation
        /\ row.result.generation = row.generation =>
            /\ kind \notin Stateless /\ shown # NoAnswer => shown = row.trace
            /\ row.result.answer.outcome = "completed" =>
                /\ row.result.before = row.result.after
                /\ "output" \in row.artifacts
                /\ kind \notin {"http", "fixture", "recorded"} => Calm(row.trace) /\ Responded(row.trace)

AdapterInv == AdapterTypes /\ AdapterRowShape /\ ExecutionShape /\ ResultShape

-----------------------------------------------------------------------------
\* What appending events does to a trace.
LEMMA TraceGrows ==
  ASSUME NEW t \in Seq(AdapterEvents), NEW e \in Seq(AdapterEvents)
  PROVE  /\ t \o e \in Seq(AdapterEvents)
         /\ Requested(t) => Requested(t \o e)
         /\ Calm(t) /\ Calm(e) => Calm(t \o e)
         /\ Requested(t) /\ (\E j \in DOMAIN e : e[j] = "response") => Responded(t \o e)
<1>1. t \o e \in Seq(AdapterEvents) /\ Len(t \o e) = Len(t) + Len(e)
  OBVIOUS
<1>2. \A i \in DOMAIN t : i \in DOMAIN (t \o e) /\ (t \o e)[i] = t[i] /\ i \in 1 .. Len(t)
  BY <1>1
<1>3. \A j \in DOMAIN e : Len(t) + j \in DOMAIN (t \o e) /\ (t \o e)[Len(t) + j] = e[j] /\ j \in 1 .. Len(e)
  BY <1>1
<1>4. \A k \in DOMAIN (t \o e) : k \in DOMAIN t \/ (k - Len(t) \in DOMAIN e /\ (t \o e)[k] = e[k - Len(t)])
  BY <1>1
<1>5. Requested(t) => Requested(t \o e)
  BY <1>2 DEF Requested
<1>6. Calm(t) /\ Calm(e) => Calm(t \o e)
  BY <1>2, <1>4 DEF Calm
<1>7. ASSUME Requested(t), NEW j \in DOMAIN e, e[j] = "response"
      PROVE  Responded(t \o e)
  <2>1. PICK i \in DOMAIN t : t[i] = "request"
    BY <1>7 DEF Requested
  <2>2. i < Len(t) + j
    BY <1>2, <1>3, <2>1
  <2> QED
    BY <2>1, <2>2, <1>2, <1>3, <1>7 DEF Responded
<1> QED
  BY <1>1, <1>5, <1>6, <1>7

\* Appending one event is appending a sequence of one.
LEMMA TraceAppends ==
  ASSUME NEW t \in Seq(AdapterEvents), NEW a \in AdapterEvents
  PROVE  /\ Append(t, a) \in Seq(AdapterEvents)
         /\ Requested(t) => Requested(Append(t, a))
         /\ Calm(t) /\ a # "cancellation_requested" => Calm(Append(t, a))
         /\ a = "request" => Requested(Append(t, a))
<1>1. Append(t, a) \in Seq(AdapterEvents) /\ Len(Append(t, a)) = Len(t) + 1
  OBVIOUS
<1>2. /\ \A i \in DOMAIN t : i \in DOMAIN Append(t, a) /\ Append(t, a)[i] = t[i]
      /\ Len(t) + 1 \in DOMAIN Append(t, a) /\ Append(t, a)[Len(t) + 1] = a
      /\ \A i \in DOMAIN Append(t, a) : i \in DOMAIN t \/ i = Len(t) + 1
  BY <1>1
<1> QED
  BY <1>1, <1>2 DEF Requested, Calm

\* The answers of the adapters: only a sound answer of an attempt that nobody
\* cancelled completes it.
LEMMA AnswersAreTyped ==
  /\ \A k : \A f : FaultAnswer(k, f) = NoAnswer \/ (FaultAnswer(k, f) \in AdapterAnswers
                                                    /\ FaultAnswer(k, f).outcome # "completed")
  /\ \A f : LocalRuntimeFault(f) \in AdapterAnswers /\ LocalRuntimeFault(f).outcome # "completed"
  /\ \A k : \A reply \in Replies : \A c \in BOOLEAN :
        /\ SoundAnswer(k, reply, c) \in AdapterAnswers
        /\ SoundAnswer(k, reply, c).outcome = "completed" /\ k \notin Stateless => ~c
<1>1. \A f : LocalRuntimeFault(f) \in AdapterAnswers /\ LocalRuntimeFault(f).outcome # "completed"
  BY DEF LocalRuntimeFault, Hold, Answer, StatusAnswer, AdapterAnswers, Outcomes, FailureClasses
<1>2. \A f : OpenAIFault(f) \in AdapterAnswers /\ OpenAIFault(f).outcome # "completed"
  BY DEF OpenAIFault, Answer, StatusAnswer, AdapterAnswers, Outcomes, FailureClasses
<1>3. \A f : HttpFault(f) = NoAnswer \/ (HttpFault(f) \in AdapterAnswers /\ HttpFault(f).outcome # "completed")
  BY DEF HttpFault, Answer, StatusAnswer, AdapterAnswers, Outcomes, FailureClasses
<1>4. Answer("failed", "permanent_adapter", FALSE) \in AdapterAnswers
      /\ Answer("failed", "permanent_adapter", FALSE).outcome # "completed"
  BY DEF Answer, AdapterAnswers, Outcomes, FailureClasses
<1>5. \A k : \A f : FaultAnswer(k, f) = NoAnswer \/ (FaultAnswer(k, f) \in AdapterAnswers
                                                      /\ FaultAnswer(k, f).outcome # "completed")
  <2> SUFFICES ASSUME NEW k, NEW f
               PROVE  FaultAnswer(k, f) = NoAnswer \/ (FaultAnswer(k, f) \in AdapterAnswers
                                                       /\ FaultAnswer(k, f).outcome # "completed")
    OBVIOUS
  <2>1. FaultAnswer(k, f) \in {LocalRuntimeFault(f), OpenAIFault(f), HttpFault(f), NoAnswer,
                               Answer("failed", "permanent_adapter", FALSE)}
    BY DEF FaultAnswer
  <2>2. PICK a : a = FaultAnswer(k, f)
    OBVIOUS
  <2>3. CASE a = LocalRuntimeFault(f)
    BY <2>2, <2>3, <1>1
  <2>4. CASE a = OpenAIFault(f)
    BY <2>2, <2>4, <1>2
  <2>5. CASE a = HttpFault(f)
    BY <2>2, <2>5, <1>3
  <2>6. CASE a = Answer("failed", "permanent_adapter", FALSE)
    BY <2>2, <2>6, <1>4, Zenon
  <2> QED
    BY <2>1, <2>2, <2>3, <2>4, <2>5, <2>6, Zenon
<1>6. ASSUME NEW k, NEW reply \in Replies, NEW c \in BOOLEAN
      PROVE  /\ SoundAnswer(k, reply, c) \in AdapterAnswers
             /\ SoundAnswer(k, reply, c).outcome = "completed" /\ k \notin Stateless => ~c
  <2>1. reply.large \in BOOLEAN
    BY AdapterAssumption
  <2>2. /\ EvidenceAnswer(reply) \in AdapterAnswers /\ OllamaAnswer \in AdapterAnswers
        /\ LMStudioAnswer \in AdapterAnswers /\ Answer("cancelled", "none", FALSE) \in AdapterAnswers
        /\ Answer("cancelled", "none", FALSE).outcome # "completed"
    BY DEF EvidenceAnswer, OllamaAnswer, LMStudioAnswer, Answer, AdapterAnswers, Outcomes, FailureClasses
  <2>3. HandoffAnswer(reply, c) \in AdapterAnswers /\ (HandoffAnswer(reply, c).outcome = "completed" => ~c)
    BY <2>1, <2>2 DEF HandoffAnswer, Hold, Answer, AdapterAnswers, Outcomes, FailureClasses
  <2> QED
    BY <2>2, <2>3, Zenon DEF SoundAnswer, NativeAnswer
<1> QED
  BY <1>1, <1>5, <1>6

\* The identity an adapter reads is one of those a result may hold.
LEMMA IdentityIsTyped ==
  ASSUME runtime \in RuntimeIds
  PROVE  Identity(kind) \in Identities /\ (kind \notin Identified => Identity(kind) = "unread")
  BY DEF Identity, Identities, LMStudioIdentity, OllamaIdentity, HandoffIdentity, Identified
-----------------------------------------------------------------------------
LEMMA AdaptersStart == AdaptersInit => AdapterInv
  BY DEF AdaptersInit, AdapterInv, AdapterTypes, AdapterRowShape, ExecutionShape, ResultShape, AdapterRows,
         EmptyRow, Idle, Identities, Calm

\* Whoever ends an execution keeps the invariant.
LEMMA FinishKeeps ==
  ASSUME AdapterInv, NEW e \in Seq(AdapterEvents), NEW answer \in AdapterAnswers, NEW artifacts \in SUBSET ArtifactNames,
         Finish(e, answer, artifacts),
         kind \notin Stateless, row.held, row.result = NoAnswer, ~row.ready,
         exec.generation < row.generation, Calm(e),
         answer.outcome = "completed" =>
            /\ exec.before = Identity(kind) /\ "output" \in artifacts
            /\ kind # "http" => /\ ~row.cancelled /\ Requested(row.trace)
                                /\ \E j \in DOMAIN e : e[j] = "response"
  PROVE  AdapterInv'
<1>1. PICK t : t = row.trace \o e
  BY Zenon
<1>2. PICK r : r = [answer |-> answer, generation |-> row.generation, before |-> exec.before, after |-> Identity(kind)]
  BY Zenon
<1>3. /\ row \in AdapterRows /\ exec.before \in Identities /\ runtime \in RuntimeIds /\ prepares \in Nat
      /\ row.generation \in Nat /\ row.trace \in Seq(AdapterEvents) /\ row.generation <= prepares
  BY DEF AdapterInv, AdapterTypes, AdapterRows, AdapterRowShape
<1>4. r \in KeptResults /\ r.answer = answer /\ r.generation = row.generation /\ r.before = exec.before
      /\ r.after = Identity(kind)
  BY <1>2, <1>3, IdentityIsTyped DEF KeptResults, AdapterAnswers, Identities
<1>5. t \in Seq(AdapterEvents) /\ (~row.cancelled => Calm(t))
  BY <1>1, <1>3, TraceGrows DEF AdapterInv, AdapterRowShape
<1>6. PICK kept : kept = IF row.input.replay /\ answer.output THEN row.result ELSE r
  OBVIOUS
<1>7. kept \in {NoAnswer, r}
  BY <1>6
<1>8. row' = [row EXCEPT !.trace = t, !.ready = TRUE, !.artifacts = artifacts, !.result = kept]
  BY <1>1, <1>2, <1>6 DEF Finish
<1>9. /\ row' \in AdapterRows
      /\ row'.trace = t /\ row'.ready = TRUE /\ row'.artifacts = artifacts /\ row'.result = kept
      /\ row'.held = row.held /\ row'.generation = row.generation /\ row'.before = row.before
      /\ row'.cancelled = row.cancelled /\ row'.cleaned = row.cleaned
  BY <1>3, <1>4, <1>5, <1>7, <1>8, Zenon DEF AdapterRows
<1>10. /\ exec' = Idle(row.generation) /\ UNCHANGED <<kind, runtime, shown, prepares>>
       /\ exec'.pc = "idle" /\ exec'.generation = row.generation
  BY DEF Finish, Idle
<1>11. AdapterTypes'
  BY <1>3, <1>9, <1>10 DEF AdapterTypes, Idle, Identities
<1>12. shown = NoAnswer
  BY DEF AdapterInv, AdapterRowShape
<1>13. kind \in Forgetful => row.held /\ ~row.cleaned
  BY <1>3 DEF AdapterInv, AdapterRowShape, AdapterRows
<1>14. AdapterRowShape'
  BY <1>3, <1>4, <1>5, <1>7, <1>9, <1>10, <1>12, <1>13 DEF AdapterInv, AdapterRowShape
<1>15. ExecutionShape'
  BY <1>10 DEF ExecutionShape
<1>16. kind # "http" /\ answer.outcome = "completed" => Calm(t) /\ Responded(t)
  BY <1>1, <1>3, <1>5, TraceGrows
<1>17. ResultShape'
  BY <1>4, <1>7, <1>9, <1>10, <1>12, <1>16 DEF ResultShape
<1> QED
  BY <1>11, <1>14, <1>15, <1>17 DEF AdapterInv

\* An execution that can begin: nothing kept, nothing streamed.
LEMMA ExecutableShape ==
  ASSUME AdapterInv, Executable
  PROVE  /\ kind \notin Stateless /\ row.held /\ row.result = NoAnswer /\ ~row.ready
         /\ exec.pc = "idle" /\ exec.generation < row.generation
<1>1. exec.generation \in Nat /\ row.generation \in Nat /\ row.ready \in BOOLEAN
  BY DEF AdapterInv, AdapterTypes, AdapterRows
<1> QED
  BY <1>1 DEF AdapterInv, AdapterRowShape, Executable

\* An execution in flight.
LEMMA FlightShape ==
  ASSUME AdapterInv, exec.pc # "idle"
  PROVE  /\ kind \notin Stateless /\ row.held /\ row.result = NoAnswer /\ ~row.ready
         /\ exec.generation < row.generation
         /\ kind # "http" => Requested(row.trace)
         /\ kind \notin Identified => exec.before = Identity(kind)
<1>1. row.ready \in BOOLEAN /\ runtime \in RuntimeIds
  BY DEF AdapterInv, AdapterTypes, AdapterRows
<1> QED
  BY <1>1, IdentityIsTyped DEF AdapterInv, AdapterRowShape, ExecutionShape

\* The events with which an execution ends.
LEMMA EndingsAreCalm ==
  /\ <<>> \in Seq(AdapterEvents) /\ Calm(<<>>)
  /\ <<"cancelled_before_request">> \in Seq(AdapterEvents) /\ Calm(<<"cancelled_before_request">>)
  /\ <<"error">> \in Seq(AdapterEvents) /\ Calm(<<"error">>)
  /\ <<"response">> \in Seq(AdapterEvents) /\ Calm(<<"response">>)
  /\ \E j \in DOMAIN <<"response">> : <<"response">>[j] = "response"
  /\ <<"response", "fidelity">> \in Seq(AdapterEvents) /\ Calm(<<"response", "fidelity">>)
  /\ \E j \in DOMAIN <<"response", "fidelity">> : <<"response", "fidelity">>[j] = "response"
<1>1. 1 \in DOMAIN <<"response">> /\ 1 \in DOMAIN <<"response", "fidelity">>
  OBVIOUS
<1> QED
  BY <1>1 DEF AdapterEvents, Calm

\* The artifacts of an answer include its output.
LEMMA ArtifactsAreNamed ==
  ASSUME NEW k
  PROVE  ResponseArtifacts(k) \in SUBSET ArtifactNames /\ "output" \in ResponseArtifacts(k)
<1>1. CASE k \in Identified
  BY <1>1 DEF ResponseArtifacts, ArtifactNames, Identified
<1>2. CASE k \notin Identified
  BY <1>2 DEF ResponseArtifacts, ArtifactNames, Identified
<1> QED
  BY <1>1, <1>2

\* Preparing again: what is left carries an older generation.
LEMMA PrepareKeeps ==
  ASSUME AdapterInv, NEW offer \in Offers, Prepare(offer)
  PROVE  AdapterInv'
<1>1. PICK kept : kept = IF kind = "http" THEN NoAnswer ELSE row.result
  OBVIOUS
<1>2. PICK flag : flag = IF kind = "http" THEN FALSE ELSE row.cancelled
  BY Zenon
<1>3. /\ row \in AdapterRows /\ runtime \in RuntimeIds /\ prepares \in Nat /\ row.cancelled \in BOOLEAN
      /\ row.result \in KeptResults \union {NoAnswer} /\ row.held \in BOOLEAN /\ row.cleaned \in BOOLEAN
      /\ exec.generation \in Nat
  BY DEF AdapterInv, AdapterTypes, AdapterRows
<1>4. row' = [row EXCEPT !.held = TRUE, !.generation = prepares + 1, !.input = offer.input,
                         !.before = Identity(kind), !.trace = <<>>, !.ready = FALSE,
                         !.cleaned = FALSE, !.result = kept, !.cancelled = flag]
  BY <1>1, <1>2 DEF Prepare
<1>5. kept \in KeptResults \union {NoAnswer} /\ flag \in BOOLEAN /\ Identity(kind) \in Identities
  BY <1>1, <1>2, <1>3, IdentityIsTyped, Zenon
<1>a. PICK given : given = offer.input
  OBVIOUS
<1>b. PICK name : name = Identity(kind)
  OBVIOUS
<1>c. given \in {o.input : o \in Offers} \union {NoAnswer} /\ <<>> \in Seq(AdapterEvents) /\ prepares + 1 \in Nat
  BY <1>a, <1>3
<1>6. /\ row' \in AdapterRows
      /\ row'.held = TRUE /\ row'.generation = prepares + 1 /\ row'.before = Identity(kind)
      /\ row'.trace = <<>> /\ row'.ready = FALSE /\ row'.cleaned = FALSE /\ row'.result = kept
  BY <1>3, <1>4, <1>5, <1>a, <1>b, <1>c, Zenon DEF AdapterRows
<1>7. /\ prepares' = prepares + 1 /\ shown' = NoAnswer /\ UNCHANGED <<kind, runtime, exec>>
      /\ exec.pc = "idle" /\ (~row.held \/ row.cleaned)
  BY DEF Prepare
<1>8. kept # NoAnswer => kept = row.result /\ kept.generation \in Nat /\ kept.generation <= prepares
  BY <1>1, <1>3 DEF AdapterInv, AdapterRowShape, KeptResults
<1>9. kind \in Forgetful => kept = NoAnswer
  BY <1>1, <1>7 DEF AdapterInv, AdapterRowShape
<1>10. AdapterTypes'
  BY <1>3, <1>6, <1>7 DEF AdapterInv, AdapterTypes
<1>11. AdapterRowShape'
  BY <1>3, <1>6, <1>7, <1>8, <1>9, IdentityIsTyped DEF AdapterInv, AdapterRowShape, Calm
<1>12. ExecutionShape'
  BY <1>7 DEF ExecutionShape
<1>13. ResultShape'
  BY <1>3, <1>6, <1>7, <1>8, <1>9 DEF ResultShape
<1> QED
  BY <1>10, <1>11, <1>12, <1>13 DEF AdapterInv

\* A cancellation is recorded only where there is no result.
LEMMA CancellingKeeps ==
  ASSUME AdapterInv, NEW r, r = Cancelling(row)
  PROVE  /\ r \in AdapterRows
         /\ r.held = row.held /\ r.generation = row.generation /\ r.before = row.before /\ r.ready = row.ready
         /\ r.cleaned = row.cleaned /\ r.result = row.result /\ r.artifacts = row.artifacts
         /\ r.cancelled = TRUE
         /\ Requested(row.trace) => Requested(r.trace)
         /\ row.result # NoAnswer => r.trace = row.trace
<1>1. row \in AdapterRows /\ row.trace \in Seq(AdapterEvents)
  BY DEF AdapterInv, AdapterTypes, AdapterRows
<1>2. PICK t : t = IF row.result = NoAnswer /\ kind \notin Stateless \union {"http"}
                   THEN Append(row.trace, "cancellation_requested") ELSE row.trace
  BY Zenon
<1>3. "cancellation_requested" \in AdapterEvents
  BY DEF AdapterEvents
<1>4. t \in Seq(AdapterEvents) /\ (Requested(row.trace) => Requested(t)) /\ (row.result # NoAnswer => t = row.trace)
  BY <1>1, <1>2, <1>3, TraceAppends
<1>5. r = [row EXCEPT !.cancelled = TRUE, !.trace = t]
  BY <1>2 DEF Cancelling
<1> QED
  BY <1>1, <1>4, <1>5, Zenon DEF AdapterRows

\* An execution that ends without a result.
LEMMA ReleaseKeeps ==
  ASSUME AdapterInv, exec.pc # "idle", row' = [row EXCEPT !.ready = TRUE], exec' = Idle(row.generation),
         UNCHANGED <<kind, runtime, shown, prepares>>
  PROVE  AdapterInv'
<1>1. row \in AdapterRows /\ row.generation \in Nat /\ row.generation <= prepares /\ prepares \in Nat
      /\ runtime \in RuntimeIds
  BY DEF AdapterInv, AdapterTypes, AdapterRows, AdapterRowShape
<1>2. /\ row' \in AdapterRows /\ row'.trace = row.trace /\ row'.held = row.held
      /\ row'.generation = row.generation /\ row'.before = row.before /\ row'.ready = TRUE
      /\ row'.cancelled = row.cancelled /\ row'.cleaned = row.cleaned /\ row'.result = row.result
  BY <1>1, Zenon DEF AdapterRows
<1>3. exec'.pc = "idle" /\ exec'.generation = row.generation
  BY DEF Idle
<1>4. row.result = NoAnswer
  BY FlightShape
<1>5. AdapterTypes'
  BY <1>1, <1>2 DEF AdapterTypes, Idle, Identities
<1>6. AdapterRowShape'
  BY <1>1, <1>2, <1>3, <1>4 DEF AdapterInv, AdapterRowShape
<1>7. ExecutionShape' /\ ResultShape'
  BY <1>2, <1>3, <1>4 DEF ExecutionShape, ResultShape
<1> QED
  BY <1>5, <1>6, <1>7 DEF AdapterInv

\* A row that only records a cancellation, or is cleaned up and kept.
LEMMA CancelKeeps ==
  ASSUME AdapterInv, NEW c \in BOOLEAN, row' = [Cancelling(row) EXCEPT !.cleaned = c],
         UNCHANGED <<kind, runtime, exec, prepares>>, shown' \in {shown, NoAnswer},
         kind \in Forgetful => c = row.cleaned
  PROVE  AdapterInv'
<1>1. PICK r : r = Cancelling(row)
  OBVIOUS
<1>2. /\ r \in AdapterRows
      /\ r.held = row.held /\ r.generation = row.generation /\ r.before = row.before /\ r.ready = row.ready
      /\ r.cleaned = row.cleaned /\ r.result = row.result /\ r.artifacts = row.artifacts
      /\ r.cancelled = TRUE
      /\ Requested(row.trace) => Requested(r.trace)
      /\ row.result # NoAnswer => r.trace = row.trace
  BY <1>1, CancellingKeeps, Zenon
<1>3. /\ row' \in AdapterRows /\ row'.cleaned = c /\ row'.cancelled = TRUE /\ row'.trace = r.trace
      /\ row'.held = row.held /\ row'.generation = row.generation /\ row'.before = row.before
      /\ row'.ready = row.ready /\ row'.result = row.result /\ row'.artifacts = row.artifacts
  BY <1>1, <1>2 DEF AdapterRows
<1>4. AdapterTypes'
  BY <1>3 DEF AdapterInv, AdapterTypes
<1>5. AdapterRowShape'
  BY <1>3 DEF AdapterInv, AdapterRowShape
<1>6. ExecutionShape'
  BY <1>2, <1>3 DEF AdapterInv, ExecutionShape
<1>7. ResultShape'
  BY <1>2, <1>3 DEF AdapterInv, ResultShape
<1> QED
  BY <1>4, <1>5, <1>6, <1>7 DEF AdapterInv

\* Every operation of an adapter preserves the invariant.
LEMMA AdapterStep == AdapterInv /\ [AdaptersNext]_adapterVars => AdapterInv'
<1> SUFFICES ASSUME AdapterInv, [AdaptersNext]_adapterVars
             PROVE  AdapterInv'
  OBVIOUS
<1>t. /\ row \in AdapterRows /\ row.generation \in Nat /\ row.trace \in Seq(AdapterEvents)
      /\ row.artifacts \in SUBSET ArtifactNames /\ row.cancelled \in BOOLEAN /\ row.ready \in BOOLEAN
      /\ row.before \in Identities /\ row.result \in KeptResults \union {NoAnswer}
      /\ row.held \in BOOLEAN /\ row.cleaned \in BOOLEAN
      /\ exec \in [pc : {"idle", "sent", "identity"}, generation : Nat, before : Identities,
                    reply : Replies \union {NoAnswer}]
      /\ exec.generation \in Nat /\ runtime \in RuntimeIds /\ prepares \in Nat
  BY DEF AdapterInv, AdapterTypes, AdapterRows
<1>a. /\ Answer("cancelled", "none", FALSE) \in AdapterAnswers
      /\ Answer("cancelled", "none", FALSE).outcome # "completed"
      /\ Hold \in AdapterAnswers /\ Hold.outcome # "completed"
  BY DEF Answer, Hold, AdapterAnswers, Outcomes, FailureClasses
<1>1. CASE UNCHANGED adapterVars
  BY <1>1 DEF adapterVars, AdapterInv, AdapterTypes, AdapterRowShape, ExecutionShape, ResultShape
<1>2. ASSUME NEW o \in Offers, Prepare(o)
      PROVE  AdapterInv'
  BY <1>2, PrepareKeeps
<1>3. CASE ExecuteCancelled
  <2>1. PICK e : e = IF kind = "http" THEN <<>> ELSE <<"cancelled_before_request">>
    BY Zenon
  <2>2. Executable /\ Finish(e, Answer("cancelled", "none", FALSE), row.artifacts)
    BY <1>3, <2>1, Zenon DEF ExecuteCancelled
  <2>3. e \in Seq(AdapterEvents) /\ Calm(e)
    BY <2>1, EndingsAreCalm
  <2> QED
    BY <2>2, <2>3, <1>t, <1>a, ExecutableShape, FinishKeeps, Zenon
<1>4. CASE ExecuteUnrequestable
  BY <1>4, <1>t, <1>a, ExecutableShape, EndingsAreCalm, FinishKeeps, Zenon DEF ExecuteUnrequestable
<1>5. CASE ExecuteRequest
  <2>1. Executable /\ UNCHANGED <<kind, runtime, shown, prepares>>
    BY <1>5 DEF ExecuteRequest
  <2>2. PICK t : t = IF kind = "http" THEN row.trace ELSE Append(row.trace, "request")
    BY Zenon
  <2>3. "request" \in AdapterEvents
    BY DEF AdapterEvents
  <2>4. t \in Seq(AdapterEvents) /\ (Calm(row.trace) => Calm(t)) /\ (kind # "http" => Requested(t))
    BY <2>2, <2>3, <1>t, TraceAppends
  <2>5. row' = [row EXCEPT !.trace = t]
    BY <1>5, <2>2 DEF ExecuteRequest
  <2>6. /\ row' \in AdapterRows /\ row'.trace = t /\ row'.held = row.held /\ row'.generation = row.generation
        /\ row'.before = row.before /\ row'.ready = row.ready /\ row'.cancelled = row.cancelled
        /\ row'.cleaned = row.cleaned /\ row'.result = row.result
    BY <2>4, <2>5, <1>t, Zenon DEF AdapterRows
  <2>7. /\ exec'.pc = "sent" /\ exec'.generation = exec.generation /\ exec'.before = row.before
        /\ exec' \in [pc : {"idle", "sent", "identity"}, generation : Nat, before : Identities,
                       reply : Replies \union {NoAnswer}]
    BY <1>5, <1>t, Zenon DEF ExecuteRequest
  <2>8. /\ kind \notin Stateless /\ row.held /\ row.result = NoAnswer /\ ~row.ready /\ exec.pc = "idle"
        /\ exec.generation < row.generation
    BY <2>1, ExecutableShape
  <2>9. AdapterTypes'
    BY <2>1, <2>6, <2>7, <1>t DEF AdapterTypes
  <2>10. AdapterRowShape'
    BY <2>1, <2>4, <2>6, <2>7, <2>8 DEF AdapterInv, AdapterRowShape
  <2>11. ExecutionShape'
    BY <2>1, <2>4, <2>6, <2>7, <2>8 DEF AdapterInv, AdapterRowShape, ExecutionShape
  <2>12. ResultShape'
    BY <2>6, <2>8 DEF ResultShape
  <2> QED
    BY <2>9, <2>10, <2>11, <2>12 DEF AdapterInv
<1>6. ASSUME NEW r \in Replies, ReplyFault(r)
      PROVE  AdapterInv'
  <2>1. exec.pc # "idle"
    BY <1>6 DEF ReplyFault
  <2>2. CASE /\ FaultAnswer(kind, r.fault) # NoAnswer
             /\ Finish(IF kind = "http" THEN <<>> ELSE <<"error">>, FaultAnswer(kind, r.fault), row.artifacts)
    <3>1. PICK e : e = IF kind = "http" THEN <<>> ELSE <<"error">>
      BY Zenon
    <3>2. PICK a : a = FaultAnswer(kind, r.fault)
      OBVIOUS
    <3>3. e \in Seq(AdapterEvents) /\ Calm(e)
      BY <3>1, EndingsAreCalm
    <3>4. a \in AdapterAnswers /\ a.outcome # "completed"
      BY <3>2, <2>2, AnswersAreTyped
    <3>5. Finish(e, a, row.artifacts)
      BY <3>1, <3>2, <2>2
    <3> QED
      BY <3>3, <3>4, <3>5, <2>1, <1>t, FlightShape, FinishKeeps
  <2>3. CASE /\ row' = [row EXCEPT !.ready = TRUE] /\ exec' = Idle(row.generation)
             /\ UNCHANGED <<kind, runtime, shown, prepares>>
    BY <2>1, <2>3, ReleaseKeeps
  <2> QED
    BY <1>6, <2>2, <2>3 DEF ReplyFault
<1>7. ASSUME NEW r \in Replies, ReplySound(r)
      PROVE  AdapterInv'
  <2>1. exec.pc = "sent"
    BY <1>7 DEF ReplySound
  <2>2. CASE kind \in Identified
    <3>1. /\ exec' = [exec EXCEPT !.pc = "identity", !.reply = r]
          /\ UNCHANGED <<kind, runtime, row, shown, prepares>>
      BY <1>7, <2>2 DEF ReplySound
    <3>2. /\ exec' \in [pc : {"idle", "sent", "identity"}, generation : Nat, before : Identities,
                         reply : Replies \union {NoAnswer}]
          /\ exec'.pc = "identity" /\ exec'.reply = r /\ exec'.generation = exec.generation
          /\ exec'.before = exec.before
      BY <3>1, <1>t, Zenon
    <3>3. ~row.ready
      BY <2>1, FlightShape
    <3>4. AdapterTypes' /\ AdapterRowShape'
      BY <3>1, <3>2, <3>3 DEF AdapterInv, AdapterTypes, AdapterRowShape
    <3>5. ExecutionShape' /\ ResultShape'
      BY <2>1, <2>2, <3>1, <3>2 DEF AdapterInv, ExecutionShape, ResultShape
    <3> QED
      BY <3>4, <3>5 DEF AdapterInv
  <2>3. CASE kind \notin Identified
    <3>1. PICK a : a = SoundAnswer(kind, r, row.cancelled)
      OBVIOUS
    <3>2. Finish(<<"response">>, a, ResponseArtifacts(kind))
      BY <1>7, <2>3, <3>1 DEF ReplySound
    <3>3. a \in AdapterAnswers /\ (a.outcome = "completed" /\ kind \notin Stateless => ~row.cancelled)
      BY <3>1, <1>t, AnswersAreTyped, Zenon
    <3>4. /\ kind \notin Stateless /\ row.held /\ row.result = NoAnswer /\ ~row.ready
          /\ exec.generation < row.generation /\ exec.before = Identity(kind)
          /\ kind # "http" => Requested(row.trace)
      BY <2>1, <2>3, FlightShape
    <3> QED
      BY <3>2, <3>3, <3>4, EndingsAreCalm, ArtifactsAreNamed, FinishKeeps, Zenon
  <2> QED
    BY <2>2, <2>3
<1>8. CASE ReadIdentity
  <2>1. exec.pc = "identity" /\ exec.reply \in Replies /\ kind \in Identified
    BY <1>8 DEF ReadIdentity, AdapterInv, ExecutionShape
  <2>2. /\ kind \notin Stateless /\ row.held /\ row.result = NoAnswer /\ ~row.ready
        /\ exec.generation < row.generation /\ (kind # "http" => Requested(row.trace))
    BY <2>1, FlightShape
  <2>3. CASE Identity(kind) # NoAnswer /\ SameIdentity(exec.before, Identity(kind))
    <3>1. PICK a : a = SoundAnswer(kind, exec.reply, row.cancelled)
      OBVIOUS
    <3>2. PICK e : e = IF kind = "handoff" THEN <<"response", "fidelity">> ELSE <<"response">>
      BY Zenon
    <3>3. Finish(e, a, ResponseArtifacts(kind))
      BY <1>8, <2>3, <3>1, <3>2 DEF ReadIdentity
    <3>4. a \in AdapterAnswers /\ (a.outcome = "completed" => ~row.cancelled)
      BY <3>1, <2>1, <2>2, <1>t, AnswersAreTyped
    <3>5. e \in Seq(AdapterEvents) /\ Calm(e) /\ (\E j \in DOMAIN e : e[j] = "response")
      BY <3>2, EndingsAreCalm
    <3>6. exec.before = Identity(kind)
      BY <2>3 DEF SameIdentity
    <3> QED
      BY <3>3, <3>4, <3>5, <3>6, <2>2, ArtifactsAreNamed, FinishKeeps
  <2>4. CASE ~(Identity(kind) # NoAnswer /\ SameIdentity(exec.before, Identity(kind)))
    <3>1. Finish(<<"error">>, Hold, row.artifacts)
      BY <1>8, <2>4 DEF ReadIdentity
    <3> QED
      BY <3>1, <2>2, <1>t, <1>a, EndingsAreCalm, FinishKeeps, Zenon
  <2> QED
    BY <2>3, <2>4
<1>9. ASSUME NEW f, ReadIdentityFault(f)
      PROVE  AdapterInv'
  <2>1. exec.pc # "idle" /\ Finish(<<"error">>, LocalRuntimeFault(f), row.artifacts)
    BY <1>9 DEF ReadIdentityFault
  <2>2. LocalRuntimeFault(f) \in AdapterAnswers /\ LocalRuntimeFault(f).outcome # "completed"
    BY AnswersAreTyped
  <2> QED
    BY <2>1, <2>2, <1>t, FlightShape, EndingsAreCalm, FinishKeeps, Zenon
<1>10. CASE ExecuteAborted
  <2>1. exec.pc # "idle"
    BY <1>10 DEF ExecuteAborted
  <2>2. CASE kind = "http"
    <3>1. Finish(<<>>, Answer("cancelled", "none", FALSE), row.artifacts)
      BY <1>10, <2>2, Zenon DEF ExecuteAborted
    <3> QED
      BY <3>1, <2>1, <1>t, <1>a, FlightShape, EndingsAreCalm, FinishKeeps, Zenon
  <2>3. CASE kind # "http"
    BY <1>10, <2>1, <2>3, ReleaseKeeps DEF ExecuteAborted
  <2> QED
    BY <2>2, <2>3
<1>11. ASSUME NEW o \in {"completed", "failed", "cancelled"}, StatelessExecute(o)
       PROVE  AdapterInv'
  <2>1. PICK a : a = Answer(o, IF o = "failed" THEN "permanent_adapter" ELSE "none", o = "completed")
    OBVIOUS
  <2>2. a \in AdapterAnswers /\ a.outcome = o
    BY <2>1 DEF Answer, AdapterAnswers, Outcomes, FailureClasses
  <2>3. PICK r : r = [answer |-> a, generation |-> row.generation, before |-> row.before, after |-> row.before]
    BY Zenon
  <2>4. r \in KeptResults /\ r.answer = a /\ r.generation = row.generation /\ r.before = r.after
    BY <2>2, <2>3, <1>t DEF KeptResults, AdapterAnswers, Identities
  <2>5. PICK t : t = <<"request", "response">>
    BY Zenon
  <2>6. t \in Seq(AdapterEvents) /\ Calm(t) /\ Responded(t)
    <3>1. DOMAIN t = {1, 2} /\ t[1] = "request" /\ t[2] = "response"
      BY <2>5
    <3>2. Calm(t) /\ Responded(t)
      BY <3>1 DEF Calm, Responded
    <3> QED
      BY <3>2, <2>5 DEF AdapterEvents
  <2>7. PICK files : files = {"output"}
    BY Zenon
  <2>8. files \in SUBSET ArtifactNames /\ "output" \in files
    BY <2>7 DEF ArtifactNames
  <2>9. row' = [row EXCEPT !.trace = t, !.ready = TRUE, !.artifacts = files, !.result = r]
    BY <1>11, <2>1, <2>3, <2>5, <2>7 DEF StatelessExecute
  <2>10. /\ row' \in AdapterRows /\ row'.trace = t /\ row'.artifacts = files /\ row'.result = r
         /\ row'.held = row.held /\ row'.generation = row.generation /\ row'.before = row.before
         /\ row'.cancelled = row.cancelled /\ row'.cleaned = row.cleaned
    BY <2>4, <2>6, <2>8, <2>9, <1>t, Zenon DEF AdapterRows
  <2>11. kind \in Stateless /\ kind \notin Forgetful /\ exec.pc = "idle" /\ UNCHANGED <<kind, runtime, exec, shown, prepares>>
    BY <1>11 DEF StatelessExecute, Stateless, Forgetful, Identified
  <2>12. AdapterTypes'
    BY <2>10, <2>11, <1>t DEF AdapterTypes
  <2>13. AdapterRowShape'
    BY <2>4, <2>6, <2>10, <2>11 DEF AdapterInv, AdapterRowShape
  <2>14. ExecutionShape'
    BY <2>11 DEF ExecutionShape
  <2>15. ResultShape'
    BY <2>4, <2>6, <2>8, <2>10, <2>11 DEF ResultShape
  <2> QED
    BY <2>12, <2>13, <2>14, <2>15 DEF AdapterInv
<1>12. CASE StreamEvents
  <2>1. row.ready /\ shown' = row.trace /\ UNCHANGED <<kind, runtime, row, exec, prepares>>
    BY <1>12 DEF StreamEvents
  <2> QED
    BY <2>1 DEF AdapterInv, AdapterTypes, AdapterRowShape, ExecutionShape, ResultShape
<1>13. CASE CancelAttempt
  <2>1. row' = Cancelling(row) /\ UNCHANGED <<kind, runtime, exec, shown, prepares>>
    BY <1>13 DEF CancelAttempt
  <2>2. PICK r : r = Cancelling(row)
    OBVIOUS
  <2>3. r \in AdapterRows /\ r.cleaned = row.cleaned
    BY <2>2, CancellingKeeps, Zenon
  <2>4. r = [r EXCEPT !.cleaned = row.cleaned]
    BY <2>3 DEF AdapterRows
  <2> QED
    BY <2>1, <2>2, <2>4, <1>t, CancelKeeps
<1>14. CASE CleanupAttempt
  <2>1. shown' = NoAnswer /\ exec.pc = "idle" /\ UNCHANGED <<kind, runtime, exec, prepares>>
    BY <1>14 DEF CleanupAttempt
  <2>2. CASE kind \in Forgetful
    <3>1. row' = Forgotten(row)
      BY <1>14, <2>2 DEF CleanupAttempt, Forgetful, Identified
    <3>2. /\ row' \in AdapterRows /\ row'.held = FALSE /\ row'.generation = 0 /\ row'.trace = <<>>
          /\ row'.ready = FALSE /\ row'.result = NoAnswer
      <4>1. PICK e : e = EmptyRow
        OBVIOUS
      <4>2. /\ e \in AdapterRows /\ e.held = FALSE /\ e.generation = 0 /\ e.trace = <<>>
            /\ e.ready = FALSE /\ e.result = NoAnswer
        BY <4>1 DEF EmptyRow, AdapterRows, Identities
      <4>3. row' = [e EXCEPT !.cleaned = TRUE]
        BY <4>1, <3>1 DEF Forgotten
      <4> QED
        BY <4>2, <4>3, Zenon DEF AdapterRows
    <3>3. AdapterTypes' /\ ExecutionShape' /\ ResultShape'
      BY <2>1, <3>2, <1>t DEF AdapterTypes, ExecutionShape, ResultShape
    <3>4. AdapterRowShape'
      BY <2>1, <3>2, <1>t DEF AdapterInv, AdapterRowShape, Calm
    <3> QED
      BY <3>3, <3>4 DEF AdapterInv
  <2>3. CASE kind \in {"fixture", "recorded"}
    <3>1. row' = [row EXCEPT !.cleaned = TRUE]
      BY <1>14, <2>3 DEF CleanupAttempt, Forgetful, Identified
    <3>2. /\ row' \in AdapterRows /\ row'.trace = row.trace /\ row'.held = row.held
          /\ row'.generation = row.generation /\ row'.before = row.before /\ row'.ready = row.ready
          /\ row'.cancelled = row.cancelled /\ row'.result = row.result /\ row'.artifacts = row.artifacts
      BY <3>1, <1>t, Zenon DEF AdapterRows
    <3>3. kind \in Stateless /\ kind \notin Forgetful
      BY <2>3 DEF Stateless, Forgetful, Identified
    <3>4. AdapterTypes' /\ ExecutionShape' /\ AdapterRowShape' /\ ResultShape'
      BY <2>1, <3>2, <3>3, <1>t DEF AdapterInv, AdapterTypes, ExecutionShape, AdapterRowShape, ResultShape
    <3> QED
      BY <3>4 DEF AdapterInv
  <2>4. CASE kind \notin Forgetful /\ kind \notin {"fixture", "recorded"}
    <3>1. row' = [Cancelling(row) EXCEPT !.cleaned = TRUE]
      BY <1>14, <2>4 DEF CleanupAttempt
    <3> QED
      BY <2>1, <2>4, <3>1, CancelKeeps, Zenon
  <2> QED
    BY <2>2, <2>3, <2>4
<1>15. ASSUME NEW id \in RuntimeIds, RuntimeChanges(id)
       PROVE  AdapterInv'
  BY <1>15 DEF RuntimeChanges, AdapterInv, AdapterTypes, AdapterRowShape, ExecutionShape, ResultShape
<1> QED
  BY <1>1, <1>2, <1>3, <1>4, <1>5, <1>6, <1>7, <1>8, <1>9, <1>10, <1>11, <1>12, <1>13, <1>14, <1>15
  DEF AdaptersNext

\* The adapters' part of a behaviour of the workbench.
LEMMA AdaptersPart == Spec => AdaptersSpec
<1>1. Init => AdaptersInit
  BY DEF Init
<1>2. [Next]_vars => [AdaptersNext]_adapterVars
  BY DEF Next, Rest, vars
<1> QED
  BY <1>1, <1>2, PTL DEF Spec, AdaptersSpec

\* adapters_v1: a completed result stands on its own trace, on the runtime it
\* was prepared against and on its output, and a stream that ended showed all
\* of it, for any number of preparations, answers, cancellations and changes
\* of the runtime.
THEOREM ResultsMatchTraces == Spec => []ResultMatchesTrace
<1>1. AdapterInv => ResultMatchesTrace
  <2> SUFFICES ASSUME AdapterInv, row.result # NoAnswer
               PROVE  ResultMatchesTrace
    BY DEF ResultMatchesTrace
  <2>1. Calm(row.trace) => Positions("cancellation_requested") = {}
    BY DEF Calm, Positions
  <2>2. Responded(row.trace) => \E i \in Positions("request"), j \in Positions("response") : i < j
    BY DEF Responded, Positions
  <2> QED
    BY <2>1, <2>2 DEF AdapterInv, ResultShape, ResultMatchesTrace
<1> QED
  BY <1>1, AdaptersStart, AdapterStep, AdaptersPart, PTL DEF AdaptersSpec

-----------------------------------------------------------------------------
(***************************************************************************)
(* The offline installer.  The argument does not need the lock: mkdir      *)
(* admits one process to the target, from then on only that process writes *)
(* below it, and a process that fails takes away only a target it still    *)
(* owns.                                                                   *)
(***************************************************************************)
\* Positions before a process may have made the target, and those at which it
\* has made it and still owns it.
Early == {"start", "verified", "locking", "extracting", "extracted"}
Owning == {"reserved", "moved", "bound", "written", "installed"}
InstallerPositions == Early \cup Owning \cup {"failing", "discarded", "held", "dead"}

InstallerRows == [pc : InstallerPositions, archive : ArchiveForms \cup {Nobody}, reserved : BOOLEAN]
Writers == Installers \cup {Nobody}

InstallerTypes ==
    /\ installer \in [Installers -> InstallerRows]
    /\ cache \in [lock : Writers, target : Writers, payload : Writers, inventory : Writers]

\* What the position of a process says about the cache and its archive.
ProcessShape(p) ==
    LET i == installer[p] IN
    /\ i.pc \in Early => ~i.reserved
    /\ i.pc \in Owning => i.reserved /\ cache.target = p
    /\ i.pc = "failing" /\ i.reserved => cache.target = p
    /\ i.pc \in {"moved", "bound", "written", "installed"} => cache.payload = p
    /\ i.pc \in {"written", "installed"} => cache.inventory = p
    /\ i.pc \in {"bound", "written", "installed"} => i.archive.matches
    /\ i.pc \in InstallerPositions \ {"start", "held", "dead"} => i.archive.bytes = "expected"

\* Whoever wrote the inventory wrote the rest as well, from an archive that
\* matches its binding, and has left its first step for good.
InventoryShape ==
    cache.inventory # Nobody =>
        /\ cache.payload = cache.inventory /\ cache.target = cache.inventory
        /\ installer[cache.inventory].archive.matches
        /\ installer[cache.inventory].pc # "start"

InstallerInv ==
    /\ InstallerTypes
    /\ \A p \in Installers : ProcessShape(p)
    /\ InventoryShape

\* The empty cache satisfies the invariant.
LEMMA InstallerStarts == InstallerInit => InstallerInv
  BY NobodyAssumption, SMTT(30)
  DEF InstallerInit, InstallerInv, InstallerTypes, ProcessShape, InventoryShape, InstallerRows, Writers,
      InstallerPositions, Early, Owning

\* Every file-system call of any process preserves it.
LEMMA InstallerStep == InstallerInv /\ [InstallerNext]_installerVars => InstallerInv'
<1> SUFFICES ASSUME InstallerInv, [InstallerNext]_installerVars
             PROVE  InstallerInv'
  OBVIOUS
<1> USE NobodyAssumption
    DEF InstallerInv, InstallerTypes, ProcessShape, InventoryShape, InstallerRows, Writers,
        InstallerPositions, Early, Owning, Goto
<1>1. CASE UNCHANGED installerVars
  BY <1>1 DEF installerVars
<1>2. ASSUME NEW p \in Installers, NEW a \in ArchiveForms, VerifyArchive(p, a)
      PROVE  InstallerInv'
  BY <1>2 DEF VerifyArchive
<1>3. ASSUME NEW p \in Installers, CheckCache(p)
      PROVE  InstallerInv'
  BY <1>3 DEF CheckCache
<1>4. ASSUME NEW p \in Installers, TakeLock(p)
      PROVE  InstallerInv'
  BY <1>4 DEF TakeLock
<1>5. ASSUME NEW p \in Installers, Extract(p)
      PROVE  InstallerInv'
  BY <1>5 DEF Extract
<1>6. ASSUME NEW p \in Installers, Reserve(p)
      PROVE  InstallerInv'
  BY <1>6 DEF Reserve
<1>7. ASSUME NEW p \in Installers, MovePayload(p)
      PROVE  InstallerInv'
  BY <1>7 DEF MovePayload
<1>8. ASSUME NEW p \in Installers, CheckBinding(p)
      PROVE  InstallerInv'
  BY <1>8 DEF CheckBinding
<1>9. ASSUME NEW p \in Installers, WriteInventory(p)
      PROVE  InstallerInv'
  BY <1>9 DEF WriteInventory
<1>10. ASSUME NEW p \in Installers, Discard(p)
       PROVE  InstallerInv'
  <2>1. CASE installer[p].reserved
    <3>1. /\ cache.target = p
          /\ cache'.target = Nobody /\ cache'.payload = Nobody /\ cache'.inventory = Nobody
          /\ cache'.lock = cache.lock
      BY <1>10, <2>1 DEF Discard, Discarded
    <3>2. InstallerTypes'
      BY <1>10, <2>1 DEF Discard, Discarded
    <3>3. \A q \in Installers : q # p => installer[q].pc \notin Owning /\ installer'[q] = installer[q]
      BY <1>10, <3>1 DEF Discard
    <3>4. \A q \in Installers : q # p /\ installer[q].pc = "failing" => ~installer[q].reserved
      BY <3>1
    <3>5. installer'[p].pc = "discarded" /\ installer'[p].archive = installer[p].archive
      BY <1>10 DEF Discard
    <3>6. installer[p].pc = "failing"
      BY <1>10 DEF Discard
    <3> QED
      BY <3>1, <3>2, <3>3, <3>4, <3>5, <3>6
  <2>2. CASE ~installer[p].reserved
    BY <1>10, <2>2 DEF Discard, Discarded
  <2> QED
    BY <2>1, <2>2
<1>11. ASSUME NEW p \in Installers, Unlock(p)
       PROVE  InstallerInv'
  BY <1>11 DEF Unlock
<1>12. ASSUME NEW p \in Installers, InstallerDies(p)
       PROVE  InstallerInv'
  BY <1>12 DEF InstallerDies
<1> QED
  BY <1>1, <1>2, <1>3, <1>4, <1>5, <1>6, <1>7, <1>8, <1>9, <1>10, <1>11, <1>12 DEF InstallerNext

\* The installer's part of a behaviour of the workbench.
LEMMA InstallerPart == Spec => InstallerSpec
<1>1. Init => InstallerInit
  BY DEF Init
<1>2. [Next]_vars => [InstallerNext]_installerVars
  BY DEF Next, Rest, vars
<1> QED
  BY <1>1, <1>2, PTL DEF Spec, InstallerSpec

\* install_offline_adapter: what a process reports as installed stays in the
\* cache and is its own, and no inventory stands beside foreign files, whoever
\* races with it, fails or dies.
THEOREM InstallationStays == Spec => []InstalledStays
<1>1. InstallerInv => InstalledStays
  BY DEF InstallerInv, InstalledStays, ProcessShape, InventoryShape, InstallerPositions, Early, Owning
<1> QED
  BY <1>1, InstallerStarts, InstallerStep, InstallerPart, PTL DEF InstallerSpec

-----------------------------------------------------------------------------
(***************************************************************************)
(* Blind review.  Once an item has every annotation, no transaction can    *)
(* change its scores, so what an adjudication read before it was stored is *)
(* what the annotations still say afterwards.                              *)
(***************************************************************************)
\* What an adjudication of an item has to be, against the stored annotations.
Settles(b, item, scores, evidence) ==
    /\ item \in DOMAIN batch[b].items
    /\ item \notin Incomplete(b)
    /\ Disputed(b, item) # {}
    /\ DOMAIN scores = Disputed(b, item)
    /\ evidence = BlindPayload(batch[b], item)

\* The table rows.  Nothing refers to a batch that does not exist.
ReviewRows ==
    /\ batch \in [BatchIds -> BatchBodies \cup {NoReview}]
    /\ \A b \in BatchIds : batch[b] # NoReview => Submittable(batch[b])
    /\ annotations = [b \in BatchIds |-> annotations[b]]
    /\ adjudications = [b \in BatchIds |-> adjudications[b]]
    /\ review = [h \in ReviewHandlers |-> review[h]]
    /\ \A b \in BatchIds : batch[b] = NoReview => DOMAIN annotations[b] = {} /\ DOMAIN adjudications[b] = {}
    /\ \A b \in BatchIds : batch[b] # NoReview => DOMAIN annotations[b] \subseteq Assignments(batch[b])

\* What a request in flight brings to its second transaction.
ReviewRequest(r) ==
    r # NoReview =>
        /\ r.op \in {"batch", "adjudicate"} /\ r.id \in BatchIds
        /\ r.op = "batch" => r.body \in BatchBodies /\ Submittable(r.body)
        /\ r.op = "adjudicate" => batch[r.id] # NoReview /\ Settles(r.id, r.item, r.scores, r.evidence)

ReviewInv ==
    /\ ReviewRows
    /\ \A h \in ReviewHandlers : ReviewRequest(review[h])
    /\ \A b \in BatchIds : batch[b] # NoReview =>
          \A item \in DOMAIN adjudications[b] :
             Settles(b, item, adjudications[b][item].scores, adjudications[b][item].evidence)

\* A fully annotated item keeps its scores when another assignment is scored.
LEMMA CompleteItemKeepsItsScores ==
    ASSUME ReviewRows, NEW b \in BatchIds, NEW item, NEW rater, NEW scores,
           SubmitAnnotation(b, item, rater, scores),
           NEW c \in BatchIds, NEW i \in DOMAIN batch[c].items, i \notin Incomplete(c),
           batch[c] # NoReview
    PROVE  /\ i \notin Incomplete(c)'
           /\ Disputed(c, i)' = Disputed(c, i)
<1>1. batch' = batch
  BY DEF SubmitAnnotation
<1>2. CASE c # b
  <2>1. annotations'[c] = annotations[c]
    BY <1>2 DEF SubmitAnnotation, ReviewRows
  <2> QED
    BY <1>1, <2>1 DEF Incomplete, Disputed, ItemScores
<1>3. CASE c = b
  <2>1. \A x \in batch[b].raters : <<i, x>> \in DOMAIN annotations[b]
    BY <1>3 DEF Incomplete
  <2>2. PICK old : old = annotations[b]
    OBVIOUS
  <2>3. annotations'[b] = [k \in DOMAIN old \cup {<<item, rater>>} |->
                              IF k = <<item, rater>> THEN scores ELSE old[k]]
    BY <2>2 DEF SubmitAnnotation, ReviewRows
  <2>4. rater \in batch[b].raters /\ <<item, rater>> \notin DOMAIN old
    BY <2>2 DEF SubmitAnnotation, Assignments
  <2>5. \A x \in batch[b].raters : <<i, x>> # <<item, rater>> /\ <<i, x>> \in DOMAIN old
    BY <2>1, <2>2, <2>4
  <2>6. DOMAIN annotations'[b] = DOMAIN old \cup {<<item, rater>>}
    BY <2>3
  <2>7. \A x \in batch[b].raters : <<i, x>> \in DOMAIN annotations'[b] /\ annotations'[b][<<i, x>>] = annotations[b][<<i, x>>]
    BY <2>2, <2>3, <2>5
  <2>8. i \notin Incomplete(c)'
    BY <1>1, <1>3, <2>7 DEF Incomplete
  <2>9. ItemScores(c, i)' = ItemScores(c, i)
    BY <1>1, <1>3, <2>1, <2>7, Zenon DEF ItemScores
  <2> QED
    BY <1>1, <1>3, <2>8, <2>9 DEF Disputed
<1> QED
  BY <1>2, <1>3

\* So what settles an item goes on settling it.
LEMMA StaysSettled ==
    ASSUME ReviewRows, NEW b \in BatchIds, NEW item, NEW rater, NEW s,
           SubmitAnnotation(b, item, rater, s),
           NEW c \in BatchIds, batch[c] # NoReview, NEW i, NEW scores, NEW evidence,
           Settles(c, i, scores, evidence)
    PROVE  /\ i \in DOMAIN batch'[c].items /\ i \notin Incomplete(c)' /\ Disputed(c, i)' # {}
           /\ DOMAIN scores = Disputed(c, i)' /\ evidence = BlindPayload(batch'[c], i)
<1>1. batch' = batch
  BY DEF SubmitAnnotation
<1>2. i \in DOMAIN batch[c].items /\ i \notin Incomplete(c)
  BY DEF Settles
<1>3. i \notin Incomplete(c)' /\ Disputed(c, i)' = Disputed(c, i)
  BY <1>2, CompleteItemKeepsItsScores
<1> QED
  BY <1>1, <1>2, <1>3 DEF Settles

\* Every transaction preserves the invariant.
LEMMA ReviewStep == ReviewInv /\ [ReviewNext]_reviewVars => ReviewInv'
<1> SUFFICES ASSUME ReviewInv, [ReviewNext]_reviewVars
             PROVE  ReviewInv'
  OBVIOUS
<1>0. ReviewRows
  BY DEF ReviewInv
<1>f. ASSUME UNCHANGED <<batch, annotations>>
      PROVE  \A b, i, scores, evidence : Settles(b, i, scores, evidence)' <=> Settles(b, i, scores, evidence)
  BY <1>f DEF Settles, Incomplete, Disputed, ItemScores
<1>1. CASE UNCHANGED reviewVars
  BY <1>1, <1>f DEF reviewVars, ReviewInv, ReviewRows, ReviewRequest
<1>2. CASE \E a \in Attempts : StoreEvaluation(a)
  BY <1>2, <1>f DEF StoreEvaluation, ReviewInv, ReviewRows, ReviewRequest
<1>3. ASSUME NEW h \in ReviewHandlers, NEW b \in BatchIds, NEW body \in BatchBodies, BeginBatch(h, b, body)
      PROVE  ReviewInv'
  <2>1. PICK r : r = [op |-> "batch", id |-> b, body |-> body]
    BY Zenon
  <2>2. r.op = "batch" /\ r.id = b /\ r.body = body
    BY <2>1
  <2>3. ReviewRequest(r)'
    BY <1>3, <2>2 DEF ReviewRequest, BeginBatch
  <2>4. review' = [review EXCEPT ![h] = r] /\ UNCHANGED <<batch, annotations, adjudications>>
    BY <1>3, <2>1 DEF BeginBatch
  <2>5. \A g \in ReviewHandlers : ReviewRequest(review[g])'
    BY <1>f, <2>3, <2>4 DEF ReviewInv, ReviewRows, ReviewRequest
  <2> QED
    BY <1>f, <2>4, <2>5 DEF ReviewInv, ReviewRows
<1>4. ASSUME NEW h \in ReviewHandlers, NEW b \in BatchIds, NEW item, NEW p, BeginAdjudication(h, b, item, p)
      PROVE  ReviewInv'
  <2>1. PICK scores \in [Disputed(b, item) -> FinalTenths] :
            review' = [review EXCEPT ![h] = [op |-> "adjudicate", id |-> b, item |-> item,
                                             scores |-> scores, evidence |-> p]]
    BY <1>4, Zenon DEF BeginAdjudication
  <2>2. PICK r : r = [op |-> "adjudicate", id |-> b, item |-> item, scores |-> scores, evidence |-> p]
    BY Zenon
  <2>3. r.op = "adjudicate" /\ r.id = b /\ r.item = item /\ r.scores = scores /\ r.evidence = p
    BY <2>2
  <2>4. Settles(b, item, scores, p)
    BY <1>4, <2>1, Zenon DEF BeginAdjudication, Settles, Disputed
  <2>5. UNCHANGED <<batch, annotations, adjudications>> /\ batch[b] # NoReview
    BY <1>4 DEF BeginAdjudication
  <2>6. ReviewRequest(r)'
    BY <1>f, <2>3, <2>4, <2>5 DEF ReviewRequest
  <2>7. review' = [review EXCEPT ![h] = r]
    BY <2>1, <2>2
  <2>8. \A g \in ReviewHandlers : ReviewRequest(review[g])'
    BY <1>f, <2>5, <2>6, <2>7 DEF ReviewInv, ReviewRows, ReviewRequest
  <2> QED
    BY <1>f, <2>5, <2>7, <2>8 DEF ReviewInv, ReviewRows
<1>5. ASSUME NEW h \in ReviewHandlers, InsertBatch(h)
      PROVE  ReviewInv'
  <2>1. PICK r : r = review[h]
    OBVIOUS
  <2>2. /\ r # NoReview /\ r.op = "batch" /\ r.id \in BatchIds /\ r.body \in BatchBodies
        /\ Submittable(r.body)
    BY <1>5, <2>1 DEF InsertBatch, ReviewInv, ReviewRequest
  <2>3. review' = [review EXCEPT ![h] = NoReview] /\ UNCHANGED <<annotations, adjudications>>
    BY <1>5 DEF InsertBatch
  <2>4. CASE batch' = batch
    BY <1>f, <2>3, <2>4 DEF ReviewInv, ReviewRows, ReviewRequest
  <2>5. CASE batch' # batch
    <3>1. batch[r.id] = NoReview /\ batch' = [batch EXCEPT ![r.id] = r.body]
      BY <1>5, <2>1, <2>5 DEF InsertBatch
    <3>2. batch'[r.id] = r.body /\ \A c \in BatchIds \ {r.id} : batch'[c] = batch[c]
      BY <2>2, <3>1 DEF ReviewInv, ReviewRows
    <3>3. \A c \in BatchIds : batch[c] # NoReview => batch'[c] = batch[c]
      BY <3>1, <3>2
    <3>4. \A c \in BatchIds : \A i, scores, evidence :
             batch[c] # NoReview => (Settles(c, i, scores, evidence)' <=> Settles(c, i, scores, evidence))
      <4> SUFFICES ASSUME NEW c \in BatchIds, NEW i, NEW scores, NEW evidence, batch[c] # NoReview
                   PROVE  Settles(c, i, scores, evidence)' <=> Settles(c, i, scores, evidence)
        OBVIOUS
      <4>1. batch'[c] = batch[c] /\ annotations' = annotations
        BY <2>3, <3>3
      <4>2. Incomplete(c)' = Incomplete(c)
        BY <4>1 DEF Incomplete
      <4>3. ItemScores(c, i)' = ItemScores(c, i)
        BY <4>1 DEF ItemScores
      <4>4. Disputed(c, i)' = Disputed(c, i)
        BY <4>1, <4>2, <4>3 DEF Disputed
      <4> QED
        BY <4>1, <4>2, <4>4 DEF Settles
    <3>5. ReviewRows'
      BY <1>0, <2>2, <2>3, <3>1, <3>2 DEF ReviewRows
    <3>6. \A g \in ReviewHandlers : review'[g] = review[g] \/ review'[g] = NoReview
      BY <1>0, <2>3 DEF ReviewRows
    <3>7. \A g \in ReviewHandlers : ReviewRequest(review[g])'
      BY <3>3, <3>4, <3>6 DEF ReviewInv, ReviewRequest
    <3>8. \A c \in BatchIds : batch[c] = NoReview => DOMAIN adjudications'[c] = {}
      BY <1>0, <2>3 DEF ReviewRows
    <3>9. \A c \in BatchIds : batch'[c] # NoReview =>
             \A item \in DOMAIN adjudications'[c] :
                Settles(c, item, adjudications[c][item].scores, adjudications[c][item].evidence)'
      BY <2>3, <3>3, <3>4, <3>8 DEF ReviewInv
    <3> QED
      BY <3>5, <3>7, <3>9 DEF ReviewInv
  <2> QED
    BY <2>4, <2>5
<1>6. ASSUME NEW h \in ReviewHandlers, InsertAdjudication(h)
      PROVE  ReviewInv'
  <2>1. PICK r : r = review[h]
    OBVIOUS
  <2>2. /\ r # NoReview /\ r.id \in BatchIds /\ batch[r.id] # NoReview
        /\ Settles(r.id, r.item, r.scores, r.evidence)
    BY <1>6, <2>1 DEF InsertAdjudication, ReviewInv, ReviewRequest
  <2>3. review' = [review EXCEPT ![h] = NoReview] /\ UNCHANGED <<batch, annotations>>
    BY <1>6 DEF InsertAdjudication
  <2>4. \A g \in ReviewHandlers : ReviewRequest(review[g])'
    BY <1>f, <2>3 DEF ReviewInv, ReviewRows, ReviewRequest
  <2>5. CASE adjudications' = adjudications
    BY <1>f, <2>3, <2>4, <2>5 DEF ReviewInv, ReviewRows
  <2>6. CASE adjudications' # adjudications
    <3>1. PICK old : old = adjudications[r.id]
      OBVIOUS
    <3>2. PICK new : new = [k \in DOMAIN old \cup {r.item} |->
                              IF k = r.item THEN [scores |-> r.scores, evidence |-> r.evidence] ELSE old[k]]
      BY Zenon
    <3>3. adjudications' = [adjudications EXCEPT ![r.id] = new]
      BY <1>6, <2>1, <2>6, <3>1, <3>2 DEF InsertAdjudication
    <3>4. adjudications'[r.id] = new /\ \A c \in BatchIds \ {r.id} : adjudications'[c] = adjudications[c]
      BY <1>0, <2>2, <3>3 DEF ReviewRows
    <3>5. DOMAIN new = DOMAIN old \cup {r.item}
      BY <3>2
    <3>6. ReviewRows'
      BY <1>0, <2>2, <2>3, <3>3, <3>4 DEF ReviewRows
    <3>7. ASSUME NEW item \in DOMAIN new
          PROVE  Settles(r.id, item, new[item].scores, new[item].evidence)
      <4>1. CASE item = r.item
        <5>1. new[item].scores = r.scores /\ new[item].evidence = r.evidence
          BY <3>2, <3>5, <4>1
        <5> QED
          BY <2>2, <4>1, <5>1
      <4>2. CASE item # r.item
        <5>1. item \in DOMAIN old /\ new[item] = old[item]
          BY <3>2, <3>5, <3>7, <4>2
        <5> QED
          BY <2>2, <3>1, <5>1 DEF ReviewInv
      <4> QED
        BY <4>1, <4>2
    <3>8. ASSUME NEW c \in BatchIds, batch[c] # NoReview, NEW item \in DOMAIN adjudications'[c]
          PROVE  Settles(c, item, adjudications'[c][item].scores, adjudications'[c][item].evidence)
      BY <3>4, <3>7, <3>8 DEF ReviewInv
    <3> QED
      BY <1>f, <2>3, <2>4, <3>6, <3>8 DEF ReviewInv
  <2> QED
    BY <2>5, <2>6
<1>7. ASSUME NEW b \in BatchIds, batch[b] # NoReview, NEW a \in Assignments(batch[b]),
             NEW s \in DimensionScores(batch[b].dimensions), SubmitAnnotation(b, a[1], a[2], s)
      PROVE  ReviewInv'
  <2>1. UNCHANGED <<batch, adjudications, review>>
    BY <1>7 DEF SubmitAnnotation
  <2>2. PICK new : /\ annotations' = [annotations EXCEPT ![b] = new]
                   /\ DOMAIN new = DOMAIN annotations[b] \cup {<<a[1], a[2]>>}
    <3>1. PICK old : old = annotations[b]
      OBVIOUS
    <3>2. PICK new : new = [k \in DOMAIN old \cup {<<a[1], a[2]>>} |-> IF k = <<a[1], a[2]>> THEN s ELSE old[k]]
      BY Zenon
    <3>3. DOMAIN new = DOMAIN annotations[b] \cup {<<a[1], a[2]>>}
      BY <3>1, <3>2
    <3>4. annotations' = [annotations EXCEPT ![b] = new]
      BY <1>7, <3>1, <3>2 DEF SubmitAnnotation
    <3> QED
      BY <3>3, <3>4, Zenon
  <2>3. <<a[1], a[2]>> \in Assignments(batch[b])
    BY <1>7 DEF SubmitAnnotation
  <2>4. ReviewRows'
    BY <1>0, <1>7, <2>1, <2>2, <2>3, Zenon DEF ReviewRows
  <2>5. \A c \in BatchIds : \A i, scores, evidence :
           batch[c] # NoReview /\ Settles(c, i, scores, evidence) => Settles(c, i, scores, evidence)'
    <3> SUFFICES ASSUME NEW c \in BatchIds, NEW i, NEW scores, NEW evidence, batch[c] # NoReview,
                        Settles(c, i, scores, evidence)
                 PROVE  Settles(c, i, scores, evidence)'
      OBVIOUS
    <3>1. /\ i \in DOMAIN batch'[c].items /\ i \notin Incomplete(c)' /\ Disputed(c, i)' # {}
          /\ DOMAIN scores = Disputed(c, i)' /\ evidence = BlindPayload(batch'[c], i)
      BY <1>0, <1>7, StaysSettled
    <3> QED
      BY <3>1 DEF Settles
  <2>6. \A g \in ReviewHandlers : ReviewRequest(review[g])'
    BY <2>1, <2>5 DEF ReviewInv, ReviewRequest
  <2>7. \A c \in BatchIds : batch'[c] # NoReview =>
           \A item \in DOMAIN adjudications'[c] :
              Settles(c, item, adjudications[c][item].scores, adjudications[c][item].evidence)'
    BY <2>1, <2>5 DEF ReviewInv
  <2> QED
    BY <2>4, <2>6, <2>7 DEF ReviewInv
<1> QED
  BY <1>1, <1>2, <1>3, <1>4, <1>5, <1>6, <1>7 DEF ReviewNext

\* The empty tables satisfy it.
LEMMA ReviewStarts == ReviewInit => ReviewInv
  BY DEF ReviewInit, ReviewInv, ReviewRows, ReviewRequest

\* Every assignment of an item is one of its raters'.
LEMMA RatersOfItem ==
    ASSUME NEW items, NEW raters, IsFiniteSet(raters), NEW i \in items
    PROVE  /\ IsFiniteSet({a \in items \X raters : a[1] = i})
           /\ Cardinality({a \in items \X raters : a[1] = i}) = Cardinality(raters)
<1> DEFINE own == {a \in items \X raters : a[1] = i}
           f == [x \in raters |-> <<i, x>>]
<1>1. f \in Bijection(raters, own)
  <2>1. f \in [raters -> own]
    OBVIOUS
  <2>2. \A x, y \in raters : f[x] = f[y] => x = y
    OBVIOUS
  <2>3. \A a \in own : \E x \in raters : f[x] = a
    <3> TAKE a \in own
    <3>1. a[2] \in raters /\ a = <<i, a[2]>>
      OBVIOUS
    <3> QED
      BY <3>1
  <2> QED
    BY <2>1, <2>2, <2>3, Zenon DEF Bijection, Injection, Surjection, IsInjective
<1>2. ExistsBijection(raters, own)
  BY <1>1 DEF ExistsBijection
<1>3. IsFiniteSet(own) /\ Cardinality(own) = Cardinality(raters)
  <2> HIDE DEF own
  <2> QED
    BY <1>2, FS_Bijection
<1> QED
  BY <1>3

\* The service and the library agree on a batch of one dimension.
LEMMA StatusAgrees ==
    ASSUME ReviewInv, NEW b \in BatchIds, batch[b] # NoReview, NEW d, batch[b].dimensions = {d}
    PROVE  ReviewStatus(b) = "COMPLETE" <=>
             CompleteAnnotations(BlindAssignments(DOMAIN batch[b].items, batch[b].raters),
                                 [a \in DOMAIN annotations[b] |-> annotations[b][a][d]],
                                 DOMAIN adjudications[b]) = "complete"
<1>1. PICK items : items = DOMAIN batch[b].items
  OBVIOUS
<1>2. PICK raters : raters = batch[b].raters
  OBVIOUS
<1>3. PICK notes : notes = annotations[b]
  OBVIOUS
<1>4. PICK done : done = DOMAIN adjudications[b]
  OBVIOUS
<1> DEFINE assigned == items \X raters
           scores == [a \in DOMAIN notes |-> notes[a][d]]
           own(i) == {a \in assigned : a[1] = i}
           split(i) == Spread({scores[a] : a \in own(i)}) > 2
           conflicts == {i \in items : split(i)}
<1>5. items # {} /\ IsFiniteSet(raters) /\ Cardinality(raters) \in Nat /\ Cardinality(raters) >= 3
  <2>1. batch[b] \in BatchBodies /\ ValidBatch(batch[b])
    BY DEF ReviewInv, ReviewRows, Submittable
  <2>2. IsFiniteSet(raters)
    BY <1>2, <2>1, RatersAssumption
  <2>3. Cardinality(raters) \in Nat
    BY <2>2, FS_CardinalityType
  <2> QED
    BY <1>1, <1>2, <2>1, <2>2, <2>3 DEF ValidBatch
<1>6. raters # {}
  BY <1>5, FS_EmptySet
<1>7. BlindAssignments(items, raters) = assigned
  BY <1>5 DEF BlindAssignments
<1>8. DOMAIN notes \subseteq assigned
  BY <1>1, <1>2, <1>3 DEF ReviewInv, ReviewRows, Assignments
<1>9. DOMAIN scores = DOMAIN notes
  OBVIOUS
<1>10. \A i \in items : Cardinality(own(i)) = Cardinality(raters)
  <2> TAKE i \in items
  <2> QED
    BY <1>5, RatersOfItem
<1>11. {a[1] : a \in assigned} = items
  <2>1. PICK x \in raters : TRUE
    BY <1>6
  <2>2. \A i \in items : <<i, x>> \in assigned /\ <<i, x>>[1] = i
    OBVIOUS
  <2>3. \A a \in assigned : a[1] \in items
    OBVIOUS
  <2> HIDE DEF assigned
  <2> QED
    BY <2>2, <2>3, Zenon
<1>12. assigned # {}
  <2>1. PICK i \in items, x \in raters : TRUE
    BY <1>5, <1>6
  <2>2. <<i, x>> \in assigned
    OBVIOUS
  <2> QED
    BY <2>2
<1>13. CompleteAnnotations(assigned, scores, done) = "complete"
         <=> DOMAIN notes = assigned /\ done = conflicts
  <2> HIDE DEF scores
  <2>1. \A i \in {a[1] : a \in assigned} : ~ (Cardinality(own(i)) < 3)
    BY <1>5, <1>10, <1>11
  <2>2. CompleteAnnotations(assigned, scores, done) =
           IF assigned = {} \/ DOMAIN scores # assigned THEN "error"
           ELSE IF \E i \in {a[1] : a \in assigned} : Cardinality(own(i)) < 3 THEN "error"
           ELSE IF done \notin {{}, {i \in {a[1] : a \in assigned} : split(i)}} THEN "error"
           ELSE IF done = {i \in {a[1] : a \in assigned} : split(i)} THEN "complete" ELSE "conflicted"
    BY DEF CompleteAnnotations
  <2>3. {i \in {a[1] : a \in assigned} : split(i)} = conflicts
    BY <1>11
  <2> HIDE DEF assigned, own, split, conflicts
  <2> QED
    BY <1>9, <1>12, <2>1, <2>2, <2>3
<1>14. Incomplete(b) = {} <=> DOMAIN notes = assigned
  <2>1. Incomplete(b) = {} <=> \A i \in items, x \in raters : <<i, x>> \in DOMAIN notes
    BY <1>1, <1>2, <1>3, Zenon DEF Incomplete
  <2>2. (\A i \in items, x \in raters : <<i, x>> \in DOMAIN notes) <=> assigned \subseteq DOMAIN notes
    OBVIOUS
  <2> HIDE DEF assigned
  <2> QED
    BY <1>8, <2>1, <2>2
<1>15. ASSUME DOMAIN notes = assigned
       PROVE  \A i \in items : Disputed(b, i) = IF split(i) THEN {d} ELSE {}
  <2> TAKE i \in items
  <2>1. i \notin Incomplete(b)
    BY <1>14, <1>15
  <2>2. ItemScores(b, i) = {notes[<<i, x>>] : x \in raters}
    BY <1>2, <1>3, <1>15, Zenon DEF ItemScores
  <2>3. {s[d] : s \in ItemScores(b, i)} = {scores[a] : a \in own(i)}
    <3>1. \A x \in raters : <<i, x>> \in own(i) /\ scores[<<i, x>>] = notes[<<i, x>>][d]
      BY <1>15
    <3>2. \A a \in own(i) : \E x \in raters : a = <<i, x>>
      OBVIOUS
    <3> HIDE DEF scores, own
    <3>3. ASSUME NEW v \in {s[d] : s \in ItemScores(b, i)}
          PROVE  v \in {scores[a] : a \in own(i)}
      <4>1. PICK x \in raters : v = notes[<<i, x>>][d]
        BY <2>2, <3>3
      <4> QED
        BY <3>1, <4>1
    <3>4. ASSUME NEW v \in {scores[a] : a \in own(i)}
          PROVE  v \in {s[d] : s \in ItemScores(b, i)}
      <4>1. PICK x \in raters : v = scores[<<i, x>>]
        BY <3>2, <3>4
      <4>2. v = notes[<<i, x>>][d] /\ notes[<<i, x>>] \in ItemScores(b, i)
        BY <2>2, <3>1, <4>1
      <4> QED
        BY <4>2
    <3> QED
      BY <3>3, <3>4, Zenon
  <2>4. Disputed(b, i) = {e \in {d} : Spread({s[e] : s \in ItemScores(b, i)}) > 2}
    BY <2>1 DEF Disputed
  <2> HIDE DEF scores, own
  <2> QED
    BY <2>3, <2>4
<1>16. done \subseteq items /\ \A i \in done : Disputed(b, i) # {} /\ DOMAIN adjudications[b][i].scores = Disputed(b, i)
  BY <1>1, <1>4 DEF ReviewInv, Settles
<1>17. ASSUME DOMAIN notes = assigned
       PROVE  Unresolved(b) = {} <=> done = conflicts
  <2>1. Unresolved(b) = conflicts \ done
    <3>1. Unresolved(b) = {i \in items : Disputed(b, i) # {} /\ ~(i \in done)}
      BY <1>1, <1>4, <1>16 DEF Unresolved
    <3> HIDE DEF split
    <3> QED
      BY <1>15, <1>17, <3>1
  <2>2. done \subseteq conflicts
    <3> HIDE DEF split
    <3> QED
      BY <1>15, <1>16, <1>17
  <2> QED
    BY <2>1, <2>2, Zenon
<1>18. ReviewStatus(b) = "COMPLETE" <=> DOMAIN notes # {} /\ Incomplete(b) = {} /\ Unresolved(b) = {}
  BY <1>3 DEF ReviewStatus
<1>19. ReviewStatus(b) = "COMPLETE" <=> DOMAIN notes = assigned /\ done = conflicts
  <2> HIDE DEF assigned, conflicts
  <2> QED
    BY <1>12, <1>14, <1>17, <1>18
<1>20. [a \in DOMAIN annotations[b] |-> annotations[b][a][d]] = scores
  BY <1>3
<1>21. BlindAssignments(DOMAIN batch[b].items, batch[b].raters) = assigned
  BY <1>1, <1>2, <1>7
<1> HIDE DEF assigned, scores, conflicts
<1> QED
  BY <1>4, <1>13, <1>19, <1>20, <1>21

\* The workbench moves the review by its own transactions only.
LEMMA ReviewPart == Spec => ReviewSpec
<1>1. Init => ReviewInit
  BY DEF Init
<1>2. [Next]_vars => [ReviewNext]_reviewVars
  BY DEF Next, Rest, vars
<1> QED
  BY <1>1, <1>2, PTL DEF Spec, ReviewSpec

\* An adjudication stands on a fully annotated item, scores exactly what its
\* annotations dispute and shows the evidence the reviewers saw, although it is
\* checked in one transaction and stored in another; and the service's summary
\* agrees with the library's account of a complete protocol.
THEOREM ReviewsAreSettled == Spec => []ReviewIsSettled
<1>1. ReviewInv => ReviewIsSettled
  <2> SUFFICES ASSUME ReviewInv, NEW b \in BatchIds, batch[b] # NoReview
               PROVE  /\ \A item \in DOMAIN adjudications[b] :
                            /\ item \notin Incomplete(b)
                            /\ DOMAIN adjudications[b][item].scores = Disputed(b, item)
                            /\ adjudications[b][item].evidence = BlindPayload(batch[b], item)
                      /\ \A d \in batch[b].dimensions : batch[b].dimensions = {d} =>
                            (ReviewStatus(b) = "COMPLETE" <=>
                                CompleteAnnotations(BlindAssignments(DOMAIN batch[b].items, batch[b].raters),
                                                    [a \in DOMAIN annotations[b] |-> annotations[b][a][d]],
                                                    DOMAIN adjudications[b]) = "complete")
    BY DEF ReviewIsSettled
  <2>1. \A item \in DOMAIN adjudications[b] :
           /\ item \notin Incomplete(b)
           /\ DOMAIN adjudications[b][item].scores = Disputed(b, item)
           /\ adjudications[b][item].evidence = BlindPayload(batch[b], item)
    BY DEF ReviewInv, Settles
  <2>2. \A d \in batch[b].dimensions : batch[b].dimensions = {d} =>
           (ReviewStatus(b) = "COMPLETE" <=>
               CompleteAnnotations(BlindAssignments(DOMAIN batch[b].items, batch[b].raters),
                                   [a \in DOMAIN annotations[b] |-> annotations[b][a][d]],
                                   DOMAIN adjudications[b]) = "complete")
    BY StatusAgrees
  <2> QED
    BY <2>1, <2>2
<1>2. ReviewSpec => []ReviewInv
  BY ReviewStarts, ReviewStep, PTL DEF ReviewSpec
<1> QED
  BY <1>1, <1>2, ReviewPart, PTL

-----------------------------------------------------------------------------
(***************************************************************************)
(* The offline demo.  An admission without an execution always has the     *)
(* slot, so an execution is only ever created by the holder of the slot,   *)
(* and the slot moves on only past an execution that is over.              *)
(***************************************************************************)
Served ==
    [pc : {"idle", "create", "replay", "bind", "schedule"}, key : DemoKeys \cup {NoDemo},
     execution : DemoExecutions \cup {NoDemo}]

DemoJobs ==
    [status : {"none", "queued", "running", "cancelling"} \cup Terminals,
     owner : Processes \cup {NoDemo}]

DemoRows ==
    [experiment : DOMAIN DemoExperiments \cup {NoDemo}, status : {"unborn", "queued"} \cup Terminals,
     attempt : DemoJobs, evaluation : DemoJobs]

DemoTypes ==
    /\ handler \in [Processes -> Served]
    /\ slot \in DemoKeys \cup {NoDemo}
    /\ admission \in [DemoKeys -> AdmissionRows \cup {NoDemo}]
    /\ record \in [DemoKeys -> DemoExecutions \cup {NoDemo}]
    /\ execution \in [DemoExecutions -> DemoRows]

\* A request about to create or to bind works for an admission that exists, and
\* binds what the admission's key names.
DemoRequest(r) ==
    /\ r.pc \in {"create", "bind"} => r.key \in DemoKeys /\ admission[r.key] # NoDemo
    /\ r.pc = "bind" => r.execution # NoDemo /\ record[r.key] = r.execution

\* The slot stands for an admission; an admission without an execution has it.
SlotShape ==
    /\ slot # NoDemo => admission[slot] # NoDemo
    /\ \A k \in DemoKeys : admission[k] # NoDemo /\ record[k] = NoDemo => slot = k

\* A key names an execution of its admission's experiment; an admission is bound
\* to that one only.
RecordShape ==
    \A k \in DemoKeys :
        /\ record[k] # NoDemo =>
              /\ admission[k] # NoDemo
              /\ execution[record[k]].experiment = admission[k].experiment
              /\ execution[record[k]].status # "unborn"
        /\ admission[k] # NoDemo /\ admission[k].execution # NoDemo => record[k] = admission[k].execution

LiveIsInSlot == \A x \in DemoExecutions : LiveDemo(x) => slot # NoDemo /\ BoundOrRecovered(slot) = x

DemoInv ==
    /\ DemoTypes
    /\ \A p \in Processes : DemoRequest(handler[p])
    /\ SlotShape
    /\ RecordShape
    /\ LiveIsInSlot

\* _finalize_execution_if_terminal only ever ends an execution.
LEMMA FinalizedRow ==
    ASSUME NEW y \in DemoRows
    PROVE  /\ Finalized(y) \in DemoRows
           /\ Finalized(y).experiment = y.experiment
           /\ Finalized(y).status \in {y.status} \cup Terminals
  BY DEF Finalized, DemoRows, Terminals

\* A driver may end an execution, and changes nothing else the slot depends on.
LEMMA DriveFrame ==
    ASSUME DemoInv, NEW x \in DemoExecutions, NEW y \in DemoRows,
           y.experiment = execution[x].experiment, y.status \in {execution[x].status} \cup Terminals,
           execution' = [execution EXCEPT ![x] = y],
           UNCHANGED <<handler, slot, admission, record>>
    PROVE  DemoInv'
<1>1. DemoTypes'
  BY DEF DemoInv, DemoTypes
<1>2. \A z \in DemoExecutions :
         execution'[z].experiment = execution[z].experiment
         /\ execution'[z].status \in {execution[z].status} \cup Terminals
  BY DEF DemoInv, DemoTypes
<1>3. \A z \in DemoExecutions : LiveDemo(z)' => LiveDemo(z)
  BY <1>2 DEF LiveDemo, Terminals
<1>4. LiveIsInSlot'
  BY <1>3 DEF DemoInv, LiveIsInSlot, BoundOrRecovered
<1>5. \A k \in DemoKeys : record[k] # NoDemo => record[k] \in DemoExecutions
  BY DEF DemoInv, DemoTypes
<1>6. RecordShape'
  BY <1>2, <1>5 DEF DemoInv, RecordShape, Terminals
<1> QED
  BY <1>1, <1>4, <1>6 DEF DemoInv, SlotShape, DemoRequest

\* A request that moves on with everything it may rely on in order.
LEMMA RequestFrame ==
    ASSUME DemoInv, NEW p \in Processes, NEW r \in Served, DemoRequest(r),
           handler' = [handler EXCEPT ![p] = r], UNCHANGED <<slot, admission, record, execution>>
    PROVE  DemoInv'
<1>1. DemoTypes'
  BY DEF DemoInv, DemoTypes
<1>2. \A q \in Processes : DemoRequest(handler[q])'
  BY DEF DemoInv, DemoTypes, DemoRequest
<1> QED
  BY <1>1, <1>2 DEF DemoInv, SlotShape, RecordShape, LiveIsInSlot, LiveDemo, BoundOrRecovered

\* A request that ends relies on nothing.
LEMMA WaitingRequest == Waiting \in Served /\ DemoRequest(Waiting) /\ DemoRequest(Waiting)'
  BY DEF Waiting, Served, DemoRequest

\* What the slot stands for: the execution its key names, of its experiment.
LEMMA SlotExecution ==
    ASSUME DemoInv, NEW k \in DemoKeys, admission[k] # NoDemo
    PROVE  BoundOrRecovered(k) = record[k]
  BY DEF DemoInv, RecordShape, BoundOrRecovered

\* An execution that is not over is recovered by whoever asks for its experiment.
LEMMA LiveIsRecovered ==
    ASSUME DemoInv, NEW x \in DemoExecutions, LiveDemo(x), NEW k \in DemoKeys, admission[k] = NoDemo
    PROVE  AdmitRequest(execution[x].experiment, k).execution = x
<1>1. slot \in DemoKeys /\ slot # NoDemo /\ admission[slot] # NoDemo /\ BoundOrRecovered(slot) = x
  BY DEF DemoInv, LiveIsInSlot, SlotShape, DemoTypes
<1>2. record[slot] = x
  BY <1>1, SlotExecution
<1>3. x # NoDemo
  BY DemoAssumption
<1>4. admission[slot].experiment = execution[x].experiment
  BY <1>1, <1>2, <1>3 DEF DemoInv, RecordShape
<1>5. ~ IsTerminal(x)
  BY DEF LiveDemo, IsTerminal
<1> QED
  BY <1>1, <1>3, <1>4, <1>5 DEF AdmitRequest

\* An admission takes the slot only when nothing is under way.
LEMMA AdmitStep ==
    ASSUME DemoInv, NEW p \in Processes, NEW e \in DOMAIN DemoExperiments, NEW k \in DemoKeys, Admit(p, e, k)
    PROVE  DemoInv'
<1> DEFINE found == IF slot = NoDemo THEN NoDemo ELSE BoundOrRecovered(slot)
           over == slot = NoDemo \/ (found # NoDemo /\ IsTerminal(found))
           bound == IF slot = NoDemo THEN admission ELSE [admission EXCEPT ![slot].execution = found]
<1> USE DemoAssumption
<1>0. DemoTypes /\ SlotShape /\ RecordShape /\ LiveIsInSlot /\ \A q \in Processes : DemoRequest(handler[q])
  BY DEF DemoInv
<1>1. slot # NoDemo => slot \in DemoKeys /\ admission[slot] \in AdmissionRows /\ found = record[slot]
  BY <1>0, SlotExecution DEF DemoTypes, SlotShape
<1>2. bound \in [DemoKeys -> AdmissionRows \cup {NoDemo}]
  <2>1. CASE slot = NoDemo
    BY <1>0, <2>1 DEF DemoTypes
  <2>2. CASE slot # NoDemo
    <3>1. found \in DemoExecutions \cup {NoDemo}
      BY <1>0, <1>1, <2>2 DEF DemoTypes
    <3>2. [admission[slot] EXCEPT !.execution = found] \in AdmissionRows
      <4> HIDE DEF found
      <4> QED
        BY <1>1, <2>2, <3>1 DEF AdmissionRows
    <3> QED
      BY <1>0, <1>1, <2>2, <3>2 DEF DemoTypes
  <2> QED
    BY <2>1, <2>2
<1>3. \A j \in DemoKeys :
         /\ bound[j] = NoDemo <=> admission[j] = NoDemo
         /\ admission[j] # NoDemo =>
               /\ bound[j].experiment = admission[j].experiment
               /\ bound[j].execution \in {admission[j].execution, record[j]}
  <2>1. CASE slot = NoDemo
    BY <2>1
  <2>2. CASE slot # NoDemo
    <3> TAKE j \in DemoKeys
    <3>1. CASE j # slot
      BY <1>0, <2>2, <3>1 DEF DemoTypes
    <3>2. CASE j = slot
      <4>1. bound[j] = [admission[j] EXCEPT !.execution = found]
        BY <1>0, <1>1, <2>2, <3>2 DEF DemoTypes
      <4> HIDE DEF bound, found
      <4>2. bound[j].experiment = admission[j].experiment /\ bound[j].execution = found
        BY <1>1, <2>2, <3>2, <4>1 DEF AdmissionRows
      <4>3. bound[j] \in AdmissionRows
        <5>1. found \in DemoExecutions \cup {NoDemo}
          BY <1>0, <1>1, <2>2 DEF DemoTypes
        <5> QED
          BY <1>1, <2>2, <3>2, <4>1, <5>1 DEF AdmissionRows
      <4>4. bound[j] # NoDemo /\ admission[j] # NoDemo
        BY <1>1, <2>2, <3>2, <4>3
      <4> QED
        BY <1>1, <2>2, <3>2, <4>2, <4>4
    <3> QED
      BY <3>1, <3>2
  <2> QED
    BY <2>1, <2>2
<1>4. over => \A j \in DemoKeys : admission[j] # NoDemo => record[j] # NoDemo
  BY <1>0, <1>1 DEF SlotShape
<1>5. over => \A x \in DemoExecutions : ~ LiveDemo(x)
  BY <1>0 DEF LiveIsInSlot, LiveDemo, IsTerminal
<1>6. UNCHANGED <<record, execution>>
  BY DEF Admit
<1>7. PICK a : a = AdmitRequest(e, k)
  OBVIOUS
<1>8. /\ slot' = a.slot /\ admission' = a.admission
      /\ handler' = IF a.pc = "refused" THEN handler
                    ELSE [handler EXCEPT ![p] = [pc |-> a.pc, key |-> a.key, execution |-> a.execution]]
  BY <1>7 DEF Admit
<1> DEFINE fresh == [experiment |-> e, execution |-> NoDemo]
           answered(key, x) == [pc |-> IF x = NoDemo THEN "create" ELSE "replay", key |-> key, execution |-> x]
\* The five ways a request is answered.
<1>9. \/ slot' = slot /\ admission' \in {admission, bound} /\ handler' = handler
      \/ /\ admission[k] # NoDemo /\ admission[k].execution # NoDemo /\ slot' = slot /\ admission' = admission
         /\ handler' = [handler EXCEPT ![p] = answered(k, admission[k].execution)]
      \/ /\ ~over /\ slot' = slot /\ admission' = bound
         /\ handler' = [handler EXCEPT ![p] = answered(slot, found)]
      \/ /\ over /\ admission[k] # NoDemo /\ slot' = NoDemo /\ admission' = bound
         /\ handler' = [handler EXCEPT ![p] = answered(k, NoDemo)]
      \/ /\ over /\ admission[k] = NoDemo /\ slot' = k /\ admission' = [bound EXCEPT ![k] = fresh]
         /\ handler' = [handler EXCEPT ![p] = answered(k, NoDemo)]
  BY <1>7, <1>8, Zenon DEF AdmitRequest
<1> DEFINE
      Kept == \A j \in DemoKeys :
                 /\ admission'[j] = NoDemo <=> admission[j] = NoDemo
                 /\ admission[j] # NoDemo =>
                       /\ admission'[j].experiment = admission[j].experiment
                       /\ admission'[j].execution \in {admission[j].execution, record[j]}
<1>10. ASSUME admission' \in {admission, bound}
       PROVE  admission' \in [DemoKeys -> AdmissionRows \cup {NoDemo}] /\ Kept
  <2>1. CASE admission' = admission
    BY <1>0, <2>1 DEF DemoTypes
  <2>2. CASE admission' = bound
    <3> HIDE DEF bound
    <3> QED
      BY <1>2, <1>3, <2>2
  <2> QED
    BY <1>10, <2>1, <2>2
<1>11. ASSUME Kept
       PROVE  RecordShape'
  BY <1>0, <1>6, <1>11 DEF RecordShape
<1>12. ASSUME Kept, slot' = slot
       PROVE  SlotShape' /\ LiveIsInSlot'
  <2>1. SlotShape'
    BY <1>0, <1>1, <1>6, <1>12 DEF SlotShape
  <2>2. slot # NoDemo => BoundOrRecovered(slot)' = record[slot] /\ BoundOrRecovered(slot) = record[slot]
    BY <1>0, <1>1, <1>6, <1>12 DEF BoundOrRecovered, RecordShape
  <2>3. LiveIsInSlot'
    <3> HIDE DEF Kept
    <3> QED
      BY <1>0, <1>6, <1>12, <2>2 DEF LiveIsInSlot, LiveDemo, BoundOrRecovered
  <2> QED
    BY <2>1, <2>3
<1>13. ASSUME NEW r \in Served, DemoRequest(r)', handler' = [handler EXCEPT ![p] = r],
              \A j \in DemoKeys : admission[j] # NoDemo => admission'[j] # NoDemo
       PROVE  handler' \in [Processes -> Served] /\ \A q \in Processes : DemoRequest(handler[q])'
  <2>1. handler' \in [Processes -> Served]
    BY <1>0, <1>13 DEF DemoTypes
  <2>2. \A q \in Processes : handler'[q] = r \/ handler'[q] = handler[q]
    BY <1>0, <1>13 DEF DemoTypes
  <2>3. \A q \in Processes : DemoRequest(handler[q]) => DemoRequest(handler[q])' \/ handler'[q] = r
    BY <1>6, <1>13, <2>2 DEF DemoRequest
  <2> QED
    BY <1>0, <1>13, <2>1, <2>3
<1>14. ASSUME handler' = handler, Kept
       PROVE  handler' \in [Processes -> Served] /\ \A q \in Processes : DemoRequest(handler[q])'
  BY <1>0, <1>6, <1>14 DEF DemoTypes, DemoRequest
<1>15. ASSUME NEW key \in DemoKeys, admission'[key] # NoDemo, NEW x \in DemoExecutions \cup {NoDemo}
       PROVE  answered(key, x) \in Served /\ DemoRequest(answered(key, x))'
  BY <1>15 DEF Served, DemoRequest
<1>16. execution' \in [DemoExecutions -> DemoRows] /\ record' \in [DemoKeys -> DemoExecutions \cup {NoDemo}]
  BY <1>0, <1>6 DEF DemoTypes
<1> HIDE DEF found, over, bound, answered
<1>17. CASE slot' = slot /\ admission' \in {admission, bound} /\ handler' = handler
  <2>1. Kept /\ admission' \in [DemoKeys -> AdmissionRows \cup {NoDemo}]
    BY <1>10, <1>17
  <2> HIDE DEF Kept
  <2> QED
    BY <1>0, <1>11, <1>12, <1>14, <1>16, <1>17, <2>1 DEF DemoInv, DemoTypes
<1>18. CASE /\ admission[k] # NoDemo /\ admission[k].execution # NoDemo /\ slot' = slot /\ admission' = admission
            /\ handler' = [handler EXCEPT ![p] = answered(k, admission[k].execution)]
  <2>1. Kept /\ admission' \in [DemoKeys -> AdmissionRows \cup {NoDemo}]
    BY <1>10, <1>18
  <2>2. admission[k].execution \in DemoExecutions \cup {NoDemo} /\ admission'[k] # NoDemo
    BY <1>0, <1>18 DEF DemoTypes, AdmissionRows
  <2>3. handler' \in [Processes -> Served] /\ \A q \in Processes : DemoRequest(handler[q])'
    BY <1>13, <1>15, <1>18, <2>2, Zenon
  <2> HIDE DEF Kept
  <2> QED
    BY <1>0, <1>11, <1>12, <1>16, <1>18, <2>1, <2>3 DEF DemoInv, DemoTypes
<1>19. CASE /\ ~over /\ slot' = slot /\ admission' = bound
            /\ handler' = [handler EXCEPT ![p] = answered(slot, found)]
  <2>1. Kept /\ admission' \in [DemoKeys -> AdmissionRows \cup {NoDemo}]
    BY <1>10, <1>19
  <2>2. slot # NoDemo
    BY <1>19 DEF over
  <2>3. found \in DemoExecutions \cup {NoDemo}
    BY <1>0, <1>1, <2>2 DEF DemoTypes
  <2>4. slot \in DemoKeys /\ admission'[slot] # NoDemo
    BY <1>0, <1>1, <2>1, <2>2 DEF SlotShape
  <2>5. handler' \in [Processes -> Served] /\ \A q \in Processes : DemoRequest(handler[q])'
    BY <1>13, <1>15, <1>19, <2>1, <2>3, <2>4, Zenon
  <2> HIDE DEF Kept
  <2> QED
    BY <1>0, <1>11, <1>12, <1>16, <1>19, <2>1, <2>5 DEF DemoInv, DemoTypes
<1>20. CASE /\ over /\ admission[k] # NoDemo /\ slot' = NoDemo /\ admission' = bound
            /\ handler' = [handler EXCEPT ![p] = answered(k, NoDemo)]
  <2>1. Kept /\ admission' \in [DemoKeys -> AdmissionRows \cup {NoDemo}]
    BY <1>10, <1>20
  <2>2. handler' \in [Processes -> Served] /\ \A q \in Processes : DemoRequest(handler[q])'
    BY <1>13, <1>15, <1>20, <2>1, Zenon
  <2>3. SlotShape'
    BY <1>4, <1>6, <1>20, <2>1 DEF SlotShape
  <2>4. LiveIsInSlot'
    BY <1>5, <1>6, <1>20 DEF LiveIsInSlot, LiveDemo
  <2> HIDE DEF Kept
  <2> QED
    BY <1>0, <1>11, <1>16, <1>20, <2>1, <2>2, <2>3, <2>4 DEF DemoInv, DemoTypes
<1>21. CASE /\ over /\ admission[k] = NoDemo /\ slot' = k /\ admission' = [bound EXCEPT ![k] = fresh]
            /\ handler' = [handler EXCEPT ![p] = answered(k, NoDemo)]
  <2>1. fresh \in AdmissionRows
    BY DEF AdmissionRows
  <2>2. admission' \in [DemoKeys -> AdmissionRows \cup {NoDemo}]
    BY <1>2, <1>21, <2>1
  <2>3. admission'[k] = fresh /\ \A j \in DemoKeys \ {k} : admission'[j] = bound[j]
    BY <1>2, <1>21
  <2>4. admission'[k] # NoDemo
    BY <2>1, <2>3
  <2>5. handler' \in [Processes -> Served] /\ \A q \in Processes : DemoRequest(handler[q])'
    <3>1. \A j \in DemoKeys : admission[j] # NoDemo => admission'[j] # NoDemo
      BY <1>3, <2>3, <2>4
    <3> QED
      BY <1>13, <1>15, <1>21, <2>4, <3>1, Zenon
  <2>6. SlotShape'
    BY <1>3, <1>4, <1>6, <1>21, <2>3, <2>4 DEF SlotShape
  <2>7. LiveIsInSlot'
    BY <1>5, <1>6, <1>21 DEF LiveIsInSlot, LiveDemo
  <2>8. record[k] = NoDemo
    BY <1>0, <1>21 DEF RecordShape
  <2>9. admission'[k].execution = NoDemo
    BY <2>3
  <2>10. RecordShape'
    BY <1>0, <1>3, <1>6, <2>3, <2>8, <2>9 DEF RecordShape
  <2> QED
    BY <1>0, <1>16, <1>21, <2>2, <2>5, <2>6, <2>7, <2>10 DEF DemoInv, DemoTypes
<1> QED
  BY <1>9, <1>17, <1>18, <1>19, <1>20, <1>21

\* An execution is created by the holder of the slot, when none is under way.
LEMMA CreateStep ==
    ASSUME DemoInv, NEW p \in Processes, CreateExecution(p)
    PROVE  DemoInv'
<1> USE DemoAssumption
<1>1. PICK k \in DemoKeys : k = handler[p].key /\ admission[k] # NoDemo
  BY DEF DemoInv, DemoRequest, CreateExecution
<1>2. handler[p] \in Served
  BY DEF DemoInv, DemoTypes
<1>3. UNCHANGED <<slot, admission>>
  BY DEF CreateExecution
<1>4. ASSUME record[k] # NoDemo
      PROVE  DemoInv'
  <2> DEFINE r == [handler[p] EXCEPT !.pc = "bind", !.execution = record[k]]
  <2>1. record[k] \in DemoExecutions
    BY <1>4 DEF DemoInv, DemoTypes
  <2>2. r \in Served /\ r.key = k /\ r.execution = record[k]
    BY <1>1, <1>2, <2>1, Zenon DEF Served
  <2>3. DemoRequest(r)
    <3> HIDE DEF r
    <3> QED
      BY <1>1, <1>4, <2>2 DEF DemoRequest
  <2>4. handler' = [handler EXCEPT ![p] = r] /\ UNCHANGED <<slot, admission, record, execution>>
    BY <1>1, <1>3, <1>4, Zenon DEF CreateExecution
  <2> HIDE DEF r
  <2> QED
    BY <2>2, <2>3, <2>4, RequestFrame, Zenon
<1>5. ASSUME record[k] = NoDemo, handler' = [handler EXCEPT ![p] = Waiting], UNCHANGED <<record, execution>>
      PROVE  DemoInv'
  BY <1>3, <1>5, RequestFrame, WaitingRequest, Zenon
<1>6. ASSUME record[k] = NoDemo, NEW x \in DemoExecutions, execution[x] = Unborn,
             execution' = [execution EXCEPT ![x] =
                  [experiment |-> admission[k].experiment, status |-> "queued",
                   attempt |-> [NoJob EXCEPT !.status = "queued"], evaluation |-> NoJob]],
             record' = [record EXCEPT ![k] = x],
             handler' = [handler EXCEPT ![p].pc = "bind", ![p].execution = x]
      PROVE  DemoInv'
  <2>1. PICK rec : rec = [experiment |-> admission[k].experiment, status |-> "queued",
                          attempt |-> [NoJob EXCEPT !.status = "queued"], evaluation |-> NoJob]
    BY Zenon
  <2>2. rec \in DemoRows /\ rec.experiment = admission[k].experiment /\ rec.status = "queued"
    <3>1. NoJob \in DemoJobs /\ [NoJob EXCEPT !.status = "queued"] \in DemoJobs
      BY DEF NoJob, DemoJobs
    <3>2. admission[k].experiment \in DOMAIN DemoExperiments
      BY <1>1 DEF DemoInv, DemoTypes, AdmissionRows
    <3> QED
      BY <2>1, <3>1, <3>2 DEF DemoRows
  <2>3. execution'[x] = rec /\ \A y \in DemoExecutions \ {x} : execution'[y] = execution[y]
    BY <1>6, <2>1 DEF DemoInv, DemoTypes
  <2>4. record'[k] = x /\ \A j \in DemoKeys \ {k} : record'[j] = record[j]
    BY <1>6 DEF DemoInv, DemoTypes
  <2>5. execution[x].status = "unborn"
    BY <1>6 DEF Unborn
  <2>6. \A j \in DemoKeys : record[j] # NoDemo => record[j] \in DemoExecutions \ {x}
    BY <2>5 DEF DemoInv, DemoTypes, RecordShape
  <2>7. slot = k
    BY <1>1, <1>6 DEF DemoInv, SlotShape
  <2>8. admission[k].execution = NoDemo
    BY <1>1, <1>6 DEF DemoInv, RecordShape
  <2>9. BoundOrRecovered(k) = NoDemo /\ BoundOrRecovered(k)' = x
    BY <1>3, <1>6, <2>4, <2>8 DEF BoundOrRecovered
  <2>10. \A y \in DemoExecutions : ~ LiveDemo(y)
    BY <2>7, <2>9 DEF DemoInv, LiveIsInSlot
  <2>11. LiveIsInSlot'
    <3>1. \A y \in DemoExecutions \ {x} : ~ LiveDemo(y)'
      BY <2>3, <2>10 DEF LiveDemo
    <3> QED
      BY <1>3, <2>7, <2>9, <3>1 DEF LiveIsInSlot
  <2>12. RecordShape'
    <3>1. ASSUME NEW j \in DemoKeys \ {k}
          PROVE  /\ record'[j] # NoDemo =>
                      /\ admission'[j] # NoDemo
                      /\ execution'[record'[j]].experiment = admission'[j].experiment
                      /\ execution'[record'[j]].status # "unborn"
                 /\ admission'[j] # NoDemo /\ admission'[j].execution # NoDemo => record'[j] = admission'[j].execution
      BY <1>3, <2>3, <2>4, <2>6 DEF DemoInv, RecordShape
    <3>2. /\ admission'[k] # NoDemo
          /\ execution'[record'[k]].experiment = admission'[k].experiment
          /\ execution'[record'[k]].status # "unborn"
          /\ admission'[k].execution = NoDemo
      BY <1>1, <1>3, <2>2, <2>3, <2>4, <2>8
    <3> QED
      BY <3>1, <3>2 DEF RecordShape
  <2>13. SlotShape'
    BY <1>1, <1>3, <2>4, <2>7 DEF DemoInv, SlotShape
  <2> DEFINE r == [handler[p] EXCEPT !.pc = "bind", !.execution = x]
  <2>14. r \in Served /\ r.key = k /\ r.execution = x
    BY <1>1, <1>2, Zenon DEF Served
  <2>15. handler' = [handler EXCEPT ![p] = r]
    BY <1>6, Zenon
  <2> HIDE DEF r
  <2>16. DemoTypes'
    <3>1. handler' \in [Processes -> Served]
      BY <2>14, <2>15 DEF DemoInv, DemoTypes
    <3>2. execution' \in [DemoExecutions -> DemoRows]
      BY <1>6, <2>1, <2>2 DEF DemoInv, DemoTypes
    <3> QED
      BY <1>3, <1>6, <3>1, <3>2 DEF DemoInv, DemoTypes
  <2>17. ASSUME NEW q \in Processes
         PROVE  DemoRequest(handler[q])'
    <3>1. CASE q = p
      <4>1. handler'[q] = r
        BY <2>15, <3>1 DEF DemoInv, DemoTypes
      <4> QED
        BY <1>1, <1>3, <2>4, <2>14, <4>1 DEF DemoRequest
    <3>2. CASE q # p
      <4>1. handler'[q] = handler[q]
        BY <2>15, <3>2 DEF DemoInv, DemoTypes
      <4>2. DemoRequest(handler[q])
        BY DEF DemoInv
      <4>3. PICK h : h = handler[q]
        OBVIOUS
      <4>4. /\ h.pc \in {"create", "bind"} => h.key \in DemoKeys /\ admission[h.key] # NoDemo
            /\ h.pc = "bind" => h.key \in DemoKeys /\ h.execution # NoDemo /\ record[h.key] = h.execution
        BY <4>2, <4>3 DEF DemoRequest
      <4>5. record[k] = NoDemo
        BY <1>6
      <4>6. h.pc = "bind" => h.key \in DemoKeys \ {k}
        BY <4>4, <4>5
      <4>7. h.pc = "bind" => record'[h.key] = h.execution
        BY <4>4, <4>6, <2>4
      <4> QED
        BY <1>3, <4>1, <4>3, <4>4, <4>7 DEF DemoRequest
    <3> QED
      BY <3>1, <3>2
  <2> QED
    BY <2>11, <2>12, <2>13, <2>16, <2>17 DEF DemoInv
<1> QED
  BY <1>1, <1>4, <1>5, <1>6 DEF CreateExecution

\* Binding writes into an admission what its key already names.
LEMMA BindStep ==
    ASSUME DemoInv, NEW p \in Processes, BindExecution(p)
    PROVE  DemoInv'
<1> USE DemoAssumption
<1>1. PICK k \in DemoKeys : k = handler[p].key /\ admission[k] # NoDemo
  BY DEF DemoInv, DemoRequest, BindExecution
<1>2. PICK x \in DemoExecutions : x = handler[p].execution /\ record[k] = x
  BY <1>1 DEF DemoInv, DemoTypes, DemoRequest, BindExecution
<1>3. handler[p] \in Served /\ UNCHANGED <<slot, record, execution>>
  BY DEF DemoInv, DemoTypes, BindExecution
<1>4. PICK r \in Served : r.pc \in {"schedule", "idle"} /\ handler' = [handler EXCEPT ![p] = r]
  <2>1. [handler[p] EXCEPT !.pc = "schedule"] \in Served /\ [handler[p] EXCEPT !.pc = "schedule"].pc = "schedule"
    BY <1>3 DEF Served
  <2>2. Waiting \in Served /\ Waiting.pc = "idle"
    BY WaitingRequest DEF Waiting
  <2> QED
    BY <2>1, <2>2, Zenon DEF BindExecution
<1>5. CASE admission' = admission
  BY <1>3, <1>4, <1>5, RequestFrame, Zenon DEF DemoRequest
<1>6. CASE admission' # admission
  <2>1. admission[k].execution = NoDemo /\ admission' = [admission EXCEPT ![k].execution = x]
    BY <1>1, <1>2, <1>6 DEF BindExecution
  <2>2. admission[k] \in AdmissionRows
    BY <1>1 DEF DemoInv, DemoTypes
  <2>3. [admission[k] EXCEPT !.execution = x] \in AdmissionRows
    BY <2>2 DEF AdmissionRows
  <2>4. admission'[k] = [admission[k] EXCEPT !.execution = x] /\ \A j \in DemoKeys \ {k} : admission'[j] = admission[j]
    BY <2>1 DEF DemoInv, DemoTypes
  <2>5. admission'[k].experiment = admission[k].experiment /\ admission'[k].execution = x
    BY <2>2, <2>4 DEF AdmissionRows
  <2>6. admission'[k] # NoDemo
    BY <2>3, <2>4
  <2>7. DemoTypes'
    BY <1>3, <1>4, <2>1, <2>3 DEF DemoInv, DemoTypes
  <2>8. \A q \in Processes : handler'[q] = handler[q] \/ handler'[q].pc \in {"schedule", "idle"}
    BY <1>4 DEF DemoInv, DemoTypes
  <2>9. \A j \in DemoKeys : admission[j] # NoDemo => admission'[j] # NoDemo
    BY <2>4, <2>6
  <2>10. \A q \in Processes : DemoRequest(handler[q])'
    BY <1>3, <2>8, <2>9 DEF DemoInv, DemoRequest
  <2>11. SlotShape'
    BY <1>1, <1>3, <2>4, <2>9 DEF DemoInv, DemoTypes, SlotShape
  <2>12. RecordShape'
    <3> SUFFICES ASSUME NEW j \in DemoKeys
                 PROVE  /\ record'[j] # NoDemo =>
                              /\ admission'[j] # NoDemo
                              /\ execution'[record'[j]].experiment = admission'[j].experiment
                              /\ execution'[record'[j]].status # "unborn"
                        /\ admission'[j] # NoDemo /\ admission'[j].execution # NoDemo
                           => record'[j] = admission'[j].execution
      BY DEF RecordShape
    <3>1. /\ record[j] # NoDemo =>
                /\ admission[j] # NoDemo
                /\ execution[record[j]].experiment = admission[j].experiment
                /\ execution[record[j]].status # "unborn"
          /\ admission[j] # NoDemo /\ admission[j].execution # NoDemo
             => record[j] = admission[j].execution
      BY DEF DemoInv, RecordShape
    <3>2. CASE j = k
      BY <1>2, <1>3, <2>5, <2>6, <3>1, <3>2
    <3>3. CASE j # k
      BY <1>3, <2>4, <3>1, <3>3
    <3> QED
      BY <3>2, <3>3
  <2>13. \A j \in DemoKeys : BoundOrRecovered(j)' = BoundOrRecovered(j)
    BY <1>2, <1>3, <2>1, <2>4, <2>5 DEF BoundOrRecovered
  <2>14. LiveIsInSlot'
    <3>1. slot # NoDemo => BoundOrRecovered(slot)' = BoundOrRecovered(slot)
      BY <2>13, <1>3 DEF DemoInv, DemoTypes, BoundOrRecovered
    <3> QED
      BY <1>3, <3>1 DEF DemoInv, LiveIsInSlot, LiveDemo, BoundOrRecovered
  <2> QED
    BY <2>7, <2>10, <2>11, <2>12, <2>14 DEF DemoInv
<1> QED
  BY <1>5, <1>6

\* Every step of a driver is one of DriveFrame or the release of the slot.
LEMMA DriveStep ==
    ASSUME DemoInv, NEW p \in Processes, NEW x \in DemoExecutions, Drive(p, x)
    PROVE  DemoInv'
<1> USE DemoAssumption
<1>0. execution[x] \in DemoRows
  BY DEF DemoInv, DemoTypes
<1>1. ASSUME NEW field \in {"attempt", "evaluation"}, NEW job \in DemoJobs
      PROVE  /\ [execution[x] EXCEPT ![field] = job] \in DemoRows
             /\ [execution[x] EXCEPT ![field] = job].experiment = execution[x].experiment
             /\ [execution[x] EXCEPT ![field] = job].status = execution[x].status
  BY <1>0, <1>1 DEF DemoRows
<1>2. ASSUME NEW y \in DemoRows, y.experiment = execution[x].experiment, y.status = execution[x].status,
             execution' = [execution EXCEPT ![x] = Finalized(y)],
             UNCHANGED <<handler, slot, admission, record>>
      PROVE  DemoInv'
  BY <1>2, FinalizedRow, DriveFrame, Zenon
<1>3. JobOf(driver[p][x]) \in {"attempt", "evaluation"}
  BY DEF JobOf
<1>4. CASE DriveLease(p, x)
  <2>1. PICK job \in DemoJobs :
            execution' = [execution EXCEPT ![x] = Finalized([execution[x] EXCEPT ![JobOf(driver[p][x])] = job])]
    <3>1. [status |-> "running", owner |-> p] \in DemoJobs /\ [status |-> "cancelled", owner |-> NoDemo] \in DemoJobs
      BY DEF DemoJobs, Terminals
    <3> QED
      BY <1>4, <3>1 DEF DriveLease, SetJob
  <2>2. UNCHANGED <<handler, slot, admission, record>>
    BY <1>4 DEF DriveLease
  <2> QED
    BY <1>1, <1>2, <1>3, <2>1, <2>2, Zenon
<1>5. CASE DriveFinish(p, x)
  <2>1. PICK result \in {"completed", "failed", "cancelled"}, field \in {"attempt", "evaluation"} :
          LET done == [execution[x] EXCEPT ![field] = [status |-> result, owner |-> NoDemo]] IN
          \/ execution' = [execution EXCEPT ![x] = Finalized(done)]
          \/ execution' = [execution EXCEPT ![x] =
                 Finalized([done EXCEPT !.evaluation = [NoJob EXCEPT !.status = "queued"]])]
    BY <1>3, <1>5, Zenon DEF DriveFinish
  <2>2. UNCHANGED <<handler, slot, admission, record>>
    BY <1>5, Zenon DEF DriveFinish
  <2>3. [status |-> result, owner |-> NoDemo] \in DemoJobs
    BY DEF DemoJobs, Terminals
  <2>4. PICK done \in DemoRows :
          /\ done = [execution[x] EXCEPT ![field] = [status |-> result, owner |-> NoDemo]]
          /\ done.experiment = execution[x].experiment /\ done.status = execution[x].status
    BY <1>1, <2>3, Zenon
  <2>5. [NoJob EXCEPT !.status = "queued"] \in DemoJobs
    BY DEF NoJob, DemoJobs
  <2>6. PICK queued \in DemoRows :
          /\ queued = [done EXCEPT !.evaluation = [NoJob EXCEPT !.status = "queued"]]
          /\ queued.experiment = done.experiment /\ queued.status = done.status
    <3>1. PICK job \in DemoJobs : job = [NoJob EXCEPT !.status = "queued"]
      BY <2>5
    <3>2. [done EXCEPT !.evaluation = job] \in DemoRows
      BY DEF DemoRows
    <3>3. /\ [done EXCEPT !.evaluation = job].experiment = done.experiment
          /\ [done EXCEPT !.evaluation = job].status = done.status
      BY DEF DemoRows
    <3> QED
      BY <3>1, <3>2, <3>3, Zenon
  <2> QED
    BY <1>2, <2>1, <2>2, <2>4, <2>6, Zenon
<1>6. CASE DriveOn(p, x)
  BY <1>6 DEF DriveOn, DemoInv, DemoTypes, DemoRequest, SlotShape, RecordShape, LiveIsInSlot, LiveDemo, BoundOrRecovered
<1>7. CASE DriveInterrupted(p, x)
  <2>1. \A job \in DemoJobs : CancelRequested(job) \in DemoJobs
    BY DEF CancelRequested, DemoJobs, Terminals
  <2>2. PICK ajob \in DemoJobs, evaluation \in DemoJobs :
          execution' = [execution EXCEPT ![x] =
             Finalized([execution[x] EXCEPT !.attempt = ajob, !.evaluation = evaluation])]
    <3>1. execution[x].attempt \in DemoJobs /\ execution[x].evaluation \in DemoJobs
      BY <1>0 DEF DemoRows
    <3>2. execution' = [execution EXCEPT ![x] =
             Finalized([execution[x] EXCEPT !.attempt = CancelRequested(execution[x].attempt),
                                            !.evaluation = CancelRequested(execution[x].evaluation)])]
      BY <1>7 DEF DriveInterrupted
    <3> QED
      BY <2>1, <3>1, <3>2, Zenon
  <2>3. PICK y \in DemoRows :
          /\ y = [execution[x] EXCEPT !.attempt = ajob, !.evaluation = evaluation]
          /\ y.experiment = execution[x].experiment /\ y.status = execution[x].status
    <3>1. [execution[x] EXCEPT !.attempt = ajob, !.evaluation = evaluation] \in DemoRows
      BY <1>0, Zenon DEF DemoRows
    <3>2. [execution[x] EXCEPT !.attempt = ajob, !.evaluation = evaluation].experiment = execution[x].experiment
      BY <1>0 DEF DemoRows
    <3>3. [execution[x] EXCEPT !.attempt = ajob, !.evaluation = evaluation].status = execution[x].status
      BY <1>0 DEF DemoRows
    <3> QED
      BY <3>1, <3>2, <3>3, Zenon
  <2>4. UNCHANGED <<handler, slot, admission, record>>
    BY <1>7 DEF DriveInterrupted
  <2> QED
    BY <1>2, <2>2, <2>3, <2>4, Zenon
<1>8. CASE ReleaseAdmission(p, x)
  <2>1. UNCHANGED <<handler, admission, record, execution>> /\ slot' = Released(x)
    BY <1>8 DEF ReleaseAdmission
  <2>2. CASE slot' = slot
    BY <2>1, <2>2 DEF DemoInv, DemoTypes, DemoRequest, SlotShape, RecordShape, LiveIsInSlot, LiveDemo, BoundOrRecovered
  <2>3. CASE slot' # slot
    <3>1. slot' = NoDemo /\ slot \in DemoKeys /\ admission[slot].execution = x /\ IsTerminal(x)
      BY <2>1, <2>3 DEF Released, DemoInv, DemoTypes
    <3>2. admission[slot] # NoDemo /\ record[slot] = x
      BY <3>1 DEF DemoInv, SlotShape, RecordShape
    <3>3. BoundOrRecovered(slot) = x
      BY <3>2, <3>1, SlotExecution
    <3>4. \A y \in DemoExecutions : ~ LiveDemo(y)
      BY <3>1, <3>3 DEF DemoInv, LiveIsInSlot, LiveDemo, IsTerminal
    <3>5. \A k \in DemoKeys : admission[k] # NoDemo => record[k] # NoDemo
      BY <3>2 DEF DemoInv, SlotShape
    <3> QED
      BY <2>1, <3>1, <3>4, <3>5 DEF DemoInv, DemoTypes, DemoRequest, SlotShape, RecordShape, LiveIsInSlot, LiveDemo
  <2> QED
    BY <2>2, <2>3
<1> QED
  BY <1>4, <1>5, <1>6, <1>7, <1>8 DEF Drive

\* Every step of every process preserves the invariant.
LEMMA DemoStep == DemoInv /\ [DemoNext]_demoVars => DemoInv'
<1> SUFFICES ASSUME DemoInv, [DemoNext]_demoVars
             PROVE  DemoInv'
  OBVIOUS
<1>1. ASSUME UNCHANGED <<handler, slot, admission, record, execution>>
      PROVE  DemoInv'
  BY <1>1 DEF DemoInv, DemoTypes, DemoRequest, SlotShape, RecordShape, LiveIsInSlot, LiveDemo, BoundOrRecovered
<1>2. CASE UNCHANGED demoVars
  BY <1>1, <1>2 DEF demoVars
<1>3. ASSUME NEW p \in Processes, Boot(p) \/ Close(p) \/ Closed(p)
      PROVE  DemoInv'
  BY <1>1, <1>3 DEF Boot, Close, Closed
<1>4. ASSUME NEW p \in Processes, ProcessDies(p) \/ Schedule(p)
      PROVE  DemoInv'
  <2>1. handler' = [handler EXCEPT ![p] = Waiting] /\ UNCHANGED <<slot, admission, record, execution>>
    BY <1>4 DEF ProcessDies, Schedule
  <2> QED
    BY <2>1, RequestFrame, WaitingRequest, Zenon
<1> QED
  BY <1>2, <1>3, <1>4, AdmitStep, CreateStep, BindStep, DriveStep DEF DemoNext

\* Nothing is admitted at first.
LEMMA DemoStarts == DemoInit => DemoInv
<1> SUFFICES ASSUME DemoInit PROVE DemoInv
  OBVIOUS
<1>1. Unborn \in DemoRows /\ Unborn.status = "unborn"
  BY DEF Unborn, NoJob, DemoRows, DemoJobs
<1>2. Waiting \in Served /\ Waiting.pc = "idle"
  BY WaitingRequest DEF Waiting
<1> QED
  BY <1>1, <1>2 DEF DemoInit, DemoInv, DemoTypes, DemoRequest, SlotShape, RecordShape, LiveIsInSlot, LiveDemo

\* The workbench moves the demo by its own steps only.
LEMMA DemoPart == Spec => DemoSpec
<1>1. Init => DemoInit
  BY DEF Init
<1>2. [Next]_vars => [DemoNext]_demoVars
  BY DEF Next, Rest, vars
<1> QED
  BY <1>1, <1>2, PTL DEF Spec, DemoSpec

\* Whatever processes die or race, an execution of the demo that is not over is
\* the one the slot stands for, and a new request for its experiment recovers it
\* (offline_demo._admit_request, _bind_execution, _release_terminal_admission).
THEOREM DemoAlwaysOwnsTheSlot == Spec => []DemoOwnsTheSlot
<1>1. DemoInv => DemoOwnsTheSlot
  <2> SUFFICES ASSUME DemoInv PROVE DemoOwnsTheSlot
    OBVIOUS
  <2>1. \A x \in DemoExecutions : LiveDemo(x) => slot # NoDemo /\ BoundOrRecovered(slot) = x
    BY DEF DemoInv, LiveIsInSlot
  <2>2. \A x \in DemoExecutions : LiveDemo(x) =>
           \A k \in DemoKeys : admission[k] = NoDemo => AdmitRequest(execution[x].experiment, k).execution = x
    BY LiveIsRecovered
  <2>3. \A k \in DemoKeys : admission[k] # NoDemo /\ admission[k].execution # NoDemo =>
           record[k] = admission[k].execution /\ execution[record[k]].experiment = admission[k].experiment
    BY DEF DemoInv, RecordShape
  <2> QED
    BY <2>1, <2>2, <2>3 DEF DemoOwnsTheSlot
<1>2. DemoSpec => []DemoInv
  BY DemoStarts, DemoStep, PTL DEF DemoSpec
<1> QED
  BY <1>1, <1>2, DemoPart, PTL

-----------------------------------------------------------------------------
(***************************************************************************)
(* The execution page.  Whatever is under way, the page and the requests   *)
(* agree on one execution: at most one load is pending, and a load that is *)
(* about another execution than the selected one either finds a page with  *)
(* nothing on it or is about to change the route, which clears the page.   *)
(* The stream delivers the numbers after its cursor, and everything up to  *)
(* the cursor is already shown.                                            *)
(***************************************************************************)
PageIds == Executions \union {NoExecution}

ServerRows == [born : BOOLEAN, log : Nat, over : BOOLEAN, ends : SUBSET Nat]

ShownDetails == [run : PageIds, over : BOOLEAN]

ShownRows == [run : PageIds, n : Nat, end : BOOLEAN]

PageRows ==
    [route : PageIds, selectedId : PageIds, selected : ShownDetails,
     state : {"loading", "ready", "empty", "error"}, shown : Seq(ShownRows),
     inspected : PageIds, busy : BOOLEAN]

RequestRows ==
    [kind : {"list", "get", "choose", "watch", "create", "demo", "cancel", "resume", "inspect"},
     run : PageIds, stale : BOOLEAN, served : BOOLEAN, listed : SUBSET OwnRuns, over : BOOLEAN,
     select : BOOLEAN]

FeedRows ==
    [run : PageIds, cursor : Nat, sent : Nat, open : BOOLEAN,
     frames : Seq([n : Nat, end : BOOLEAN]), reconnects : Nat, refreshing : BOOLEAN]

\* Nothing of an execution is on the page.
Blank(p) == p.shown = <<>> /\ p.inspected = NoExecution /\ p.selected.run = NoExecution

PageFits(p) ==
    /\ p \in PageRows
    /\ p.selected.run # NoExecution => p.selected.run = p.selectedId /\ p.selectedId \in OwnRuns
    /\ \A i \in DOMAIN p.shown : p.shown[i].run = p.selectedId
    /\ p.inspected \in {p.selectedId, NoExecution}
    /\ p.selectedId = NoExecution => Blank(p)
    /\ p.route \notin {p.selectedId, NoExecution} => Blank(p)

Loads == {"list", "get", "choose"}

Beside == {"inspect", "cancel"}

\* A request under way, against the page it was sent from.
RequestFits(q, p) ==
    /\ q \in RequestRows
    /\ q.stale => q.kind \in {"create", "demo"}
    /\ q.kind = "get" => q.run # NoExecution
    /\ q.select => q.run # NoExecution /\ q.kind \in {"list", "get"}
    /\ q.kind \in {"list", "get"} => /\ q.run # p.selectedId => Blank(p) \/ q.select
                                     /\ q.select \/ p.route \in {q.run, NoExecution}
    /\ q.kind = "choose" => q.run = p.selectedId /\ q.run \in OwnRuns
    /\ q.kind = "watch" => q.run \in OwnRuns
    /\ q.kind \in Beside => /\ q.run = p.selectedId /\ q.run # NoExecution
                            /\ p.route \in {p.selectedId, NoExecution}
    /\ q.kind \in {"create", "demo"} /\ q.served => q.run \in OwnRuns

\* At most one load is pending, and it does not take the page away from a
\* request about what the page shows, unless it changes the route.
RequestsFit(rs, p) ==
    /\ \A q \in rs : RequestFits(q, p)
    /\ \A q, w \in rs : q.kind \in Loads /\ w.kind \in Loads => q = w
    /\ \A q, w \in rs : q.kind \in Loads /\ w.kind \in Beside => q.select \/ q.run = p.selectedId

\* The persisted log and the page that shows it.
LogFits == server \in [Executions -> ServerRows] /\ \A x \in Executions : server[x].over => server[x].log \in server[x].ends

\* What the stream has delivered and what is in flight.
FeedFits ==
    /\ feed \in FeedRows
    /\ feed.run = Followed(page)
    /\ feed.run = NoExecution => feed = NoFeed
    /\ \A n \in 1 .. feed.cursor : \E j \in DOMAIN page.shown : page.shown[j].n = n /\ ~page.shown[j].end
    /\ feed.run # NoExecution => feed.cursor <= server[feed.run].log /\ feed.sent <= server[feed.run].log
    /\ feed.open /\ feed.frames = <<>> => feed.sent = feed.cursor
    /\ feed.frames # <<>> => feed.sent = feed.frames[Len(feed.frames)].n
    /\ \A i \in DOMAIN feed.frames :
          /\ ~feed.frames[i].end => feed.frames[i].n = feed.cursor + i
          /\ feed.frames[i].end => /\ i = Len(feed.frames) /\ feed.frames[i].n = feed.cursor + i - 1
                                   /\ feed.frames[i].n \in server[feed.run].ends

ControlInv == LogFits /\ PageFits(page) /\ RequestsFit(requests, page) /\ FeedFits /\ StreamIsWhole

LEMMA StaleRequestsFit ==
    ASSUME RequestsFit(requests, page), NEW rest \in SUBSET requests, NEW q \in Outdated(rest), NEW p
    PROVE  RequestFits(q, p) /\ q.kind \in {"create", "demo"}
<1>1. PICK w \in rest : ~w.served /\ w.kind \in {"create", "demo"} /\ q = [w EXCEPT !.stale = TRUE]
  BY DEF Outdated
<1>2. w \in RequestRows /\ ~w.select
  BY <1>1 DEF RequestsFit, RequestFits
<1>3. q \in RequestRows
  BY <1>1, <1>2, Zenon DEF RequestRows
<1>4. q.kind = w.kind /\ q.served = w.served /\ q.select = w.select
  BY <1>1, <1>2 DEF RequestRows
<1> QED
  BY <1>1, <1>2, <1>3, <1>4 DEF RequestFits, Beside

\* A load that moves the generation on is alone with the stale requests.
LEMMA NewLoadFits ==
    ASSUME RequestsFit(requests, page), NEW rest \in SUBSET requests, NEW p, NEW q, RequestFits(q, p),
           q.kind \in Loads
    PROVE  RequestsFit(Outdated(rest) \union {q}, p)
<1>1. \A w \in Outdated(rest) : RequestFits(w, p) /\ w.kind \in {"create", "demo"}
  BY StaleRequestsFit
<1> HIDE DEF RequestFits
<1> QED
  BY <1>1 DEF RequestsFit, Loads, Beside

\* What is left when an answer arrives still fits a page about the same run.
LEMMA FewerRequestsFit ==
    ASSUME NEW rs, NEW p, RequestsFit(rs, p), NEW rest \in SUBSET rs
    PROVE  RequestsFit(rest, p)
BY DEF RequestsFit

LEMMA NewRequestRow ==
    ASSUME NEW k \in {"list", "get", "choose", "watch", "create", "demo", "cancel", "resume", "inspect"},
           NEW x \in PageIds
    PROVE  /\ Request(k, x) \in RequestRows
           /\ Request(k, x).kind = k /\ Request(k, x).run = x /\ ~Request(k, x).stale
           /\ Request(k, x).served <=> (k \in {"inspect", "cancel"})
           /\ ~Request(k, x).select
<1>1. CASE k \in {"inspect", "cancel"}
  <2>1. (k \in {"inspect", "cancel"}) = TRUE
    BY <1>1
  <2>2. Request(k, x) = [kind |-> k, run |-> x, stale |-> FALSE, served |-> TRUE, listed |-> {}, over |-> FALSE,
                         select |-> FALSE]
    BY <2>1, Zenon DEF Request
  <2> QED
    BY <1>1, <2>2 DEF RequestRows
<1>2. CASE k \notin {"inspect", "cancel"}
  <2>1. (k \in {"inspect", "cancel"}) = FALSE
    BY <1>2
  <2>2. Request(k, x) = [kind |-> k, run |-> x, stale |-> FALSE, served |-> FALSE, listed |-> {}, over |-> FALSE,
                         select |-> FALSE]
    BY <2>1, Zenon DEF Request
  <2> QED
    BY <1>2, <2>2 DEF RequestRows
<1> QED
  BY <1>1, <1>2

\* The page may lose what it shows only together with the stream.
LEMMA RenderFits ==
    ASSUME ControlInv, NEW p, PageFits(p), Render(p), UNCHANGED server,
           p.shown = page.shown \/ (p.shown = <<>> /\ p.selected.run = NoExecution)
    PROVE  LogFits' /\ PageFits(page)' /\ FeedFits' /\ StreamIsWhole'
<1>1. page' = p /\ server' = server
  BY DEF Render
<1>2. LogFits'
  BY <1>1 DEF ControlInv, LogFits
<1>3. PageFits(page)'
  BY <1>1 DEF PageFits, Blank
<1>4. StreamIsWhole'
  <2>1. CASE p.shown = page.shown
    BY <1>1, <2>1 DEF ControlInv, StreamIsWhole
  <2>2. CASE p.shown = <<>>
    BY <1>1, <2>2 DEF StreamIsWhole
  <2> QED
    BY <2>1, <2>2
<1>5. Followed(p) \in PageIds
  BY DEF PageFits, PageRows, ShownDetails, Followed, PageIds
<1>6. FeedFits'
  <2>1. CASE Followed(p) = Followed(page)
    <3>1. feed' = feed
      BY <2>1 DEF Render
    <3>2. CASE p.shown = page.shown
      BY <1>1, <2>1, <3>1, <3>2 DEF ControlInv, FeedFits, Followed
    <3>3. CASE p.shown = <<>> /\ p.selected.run = NoExecution
      <4>1. Followed(p) = NoExecution
        BY <3>3 DEF Followed
      <4>2. feed = NoFeed
        BY <2>1, <4>1 DEF ControlInv, FeedFits
      <4>3. feed.cursor = 0 /\ feed.frames = <<>> /\ ~feed.open
        BY <4>2 DEF NoFeed
      <4> QED
        BY <1>1, <2>1, <3>1, <4>1, <4>2, <4>3 DEF ControlInv, FeedFits, Followed
    <3> QED
      BY <3>2, <3>3
  <2>2. CASE Followed(p) # Followed(page)
    <3>1. feed' = [NoFeed EXCEPT !.run = Followed(p)]
      BY <2>2 DEF Render
    <3>2. feed' \in FeedRows
      <4>1. feed' = [run |-> Followed(p), cursor |-> 0, sent |-> 0, open |-> FALSE, frames |-> <<>>,
                     reconnects |-> 0, refreshing |-> FALSE]
        BY <3>1, Zenon DEF NoFeed
      <4> QED
        BY <4>1, <1>5 DEF FeedRows
    <3>3. /\ feed'.run = Followed(p) /\ feed'.cursor = 0 /\ feed'.sent = 0 /\ feed'.frames = <<>> /\ ~feed'.open
          /\ feed'.run = NoExecution => feed' = NoFeed
      BY <3>1, Zenon DEF NoFeed
    <3>4. feed'.run # NoExecution => server[feed'.run].log \in Nat
      BY <1>5, <3>3 DEF ControlInv, LogFits, ServerRows, PageIds
    <3> QED
      BY <1>1, <3>2, <3>3, <3>4 DEF FeedFits, Followed
  <2> QED
    BY <2>1, <2>2
<1> QED
  BY <1>2, <1>3, <1>4, <1>6

\* The log only grows, so what was delivered stays true.
LEMMA ServerFits ==
    ASSUME ControlInv, UNCHANGED <<page, feed>>, server' \in [Executions -> ServerRows],
           \A x \in Executions : /\ server[x].log <= server'[x].log /\ server[x].ends \subseteq server'[x].ends
                                 /\ server'[x].over => server'[x].log \in server'[x].ends
    PROVE  LogFits' /\ PageFits(page)' /\ FeedFits' /\ StreamIsWhole'
<1>1. LogFits'
  BY DEF LogFits
<1>2. PageFits(page)'
  BY DEF ControlInv, PageFits, Blank
<1>3. StreamIsWhole'
  <2> SUFFICES ASSUME NEW i \in DOMAIN page.shown
               PROVE  page.shown[i].end => page.shown[i].n \in server'[page.shown[i].run].ends
    BY DEF ControlInv, StreamIsWhole
  <2>1. page.shown[i].run \in Executions
    <3>1. page.shown[i].run = page.selectedId /\ page.selectedId \in PageIds
      BY DEF ControlInv, PageFits, PageRows
    <3>2. page.selectedId # NoExecution
      BY DEF ControlInv, PageFits, Blank
    <3> QED
      BY <3>1, <3>2 DEF PageIds
  <2> QED
    BY <2>1 DEF ControlInv, StreamIsWhole
<1>4. FeedFits'
  <2>1. CASE feed.run = NoExecution
    <3>1. feed = NoFeed
      BY <2>1 DEF ControlInv, FeedFits
    <3>2. feed.frames = <<>>
      BY <3>1 DEF NoFeed
    <3> QED
      BY <2>1, <3>1, <3>2 DEF ControlInv, FeedFits, Followed
  <2>2. CASE feed.run # NoExecution
    <3>1. feed.run \in Executions /\ feed.cursor \in Nat /\ feed.sent \in Nat
      BY <2>2 DEF ControlInv, FeedFits, FeedRows, PageIds
    <3>2. server[feed.run].log \in Nat /\ server'[feed.run].log \in Nat
      BY <3>1 DEF ControlInv, LogFits, ServerRows
    <3>3. feed.cursor <= server'[feed.run].log /\ feed.sent <= server'[feed.run].log
      BY <2>2, <3>1, <3>2 DEF ControlInv, FeedFits
    <3>4. \A i \in DOMAIN feed.frames : feed.frames[i].end => feed.frames[i].n \in server'[feed.run].ends
      BY <3>1, Zenon DEF ControlInv, FeedFits
    <3> QED
      BY <2>2, <3>3, <3>4 DEF ControlInv, FeedFits, Followed
  <2> QED
    BY <2>1, <2>2
<1> QED
  BY <1>1, <1>2, <1>3, <1>4

LEMMA LogGrows ==
    ASSUME ControlInv, NEW x \in OwnRuns, AppendEvent(x) \/ RunEnds(x)
    PROVE  ControlInv'
<1> USE ControlAssumption
<1>1. x \in Executions /\ server[x] \in ServerRows
  BY DEF ControlInv, LogFits
<1>2. PICK s : /\ s \in ServerRows /\ server' = [server EXCEPT ![x] = s]
               /\ server[x].log <= s.log /\ server[x].ends \subseteq s.ends
               /\ s.over => s.log \in s.ends
  <2>1. CASE AppendEvent(x)
    <3>1. server[x].log \in Nat /\ server[x].log + 1 \in Nat /\ server[x].ends \in SUBSET Nat
      BY <1>1 DEF ServerRows
    <3>2. PICK e : e = IF server[x].over THEN server[x].ends \union {server[x].log + 1} ELSE server[x].ends
      BY Zenon
    <3>3. e \in SUBSET Nat /\ server[x].ends \subseteq e /\ (server[x].over => server[x].log + 1 \in e)
      BY <3>1, <3>2
    <3>4. server' = [server EXCEPT ![x] = [server[x] EXCEPT !.log = server[x].log + 1, !.ends = e]]
      BY <2>1, <3>2, Zenon DEF AppendEvent
    <3>5. PICK s : s = [server[x] EXCEPT !.log = server[x].log + 1, !.ends = e]
      OBVIOUS
    <3>6. s \in ServerRows
      BY <1>1, <3>1, <3>3, <3>5, Zenon DEF ServerRows
    <3>7. s.log = server[x].log + 1 /\ s.ends = e
      BY <1>1, <3>5 DEF ServerRows
    <3>8. s.over => server[x].over
      BY <1>1, <3>5 DEF ServerRows
    <3>9. server' = [server EXCEPT ![x] = s]
      BY <3>4, <3>5
    <3>10. s.over => s.log \in s.ends
      BY <3>3, <3>7, <3>8
    <3>11. server[x].log <= s.log /\ server[x].ends \subseteq s.ends
      BY <3>1, <3>3, <3>7
    <3> QED
      BY <3>6, <3>9, <3>10, <3>11, Zenon
  <2>2. CASE RunEnds(x)
    <3>1. server[x].log \in Nat /\ server[x].ends \in SUBSET Nat
      BY <1>1 DEF ServerRows
    <3>2. PICK e : e = server[x].ends \union {server[x].log}
      BY Zenon
    <3>3. PICK s : s = [server[x] EXCEPT !.over = TRUE, !.ends = e]
      OBVIOUS
    <3>4. server' = [server EXCEPT ![x] = s]
      BY <2>2, <3>2, <3>3, Zenon DEF RunEnds
    <3>5. s \in ServerRows
      BY <1>1, <3>1, <3>2, <3>3, Zenon DEF ServerRows
    <3>6. s.log = server[x].log /\ s.ends = e
      BY <1>1, <3>3 DEF ServerRows
    <3>7. server[x].log <= s.log /\ server[x].ends \subseteq s.ends /\ s.log \in s.ends
      BY <3>1, <3>2, <3>6
    <3> QED
      BY <3>4, <3>5, <3>7, Zenon
  <2> QED
    BY <2>1, <2>2
<1>3. UNCHANGED <<page, feed, requests>>
  BY DEF AppendEvent, RunEnds
<1>4. server' \in [Executions -> ServerRows]
  BY <1>2 DEF ControlInv, LogFits
<1>5. ASSUME NEW y \in Executions
      PROVE /\ server[y].log <= server'[y].log /\ server[y].ends \subseteq server'[y].ends
            /\ server'[y].over => server'[y].log \in server'[y].ends
  <2>1. CASE y = x
    BY <1>1, <1>2, <2>1 DEF ControlInv, LogFits
  <2>2. CASE y # x
    <3>1. server'[y] = server[y] /\ server[y].log \in Nat
      BY <1>2, <2>2 DEF ControlInv, LogFits, ServerRows
    <3> QED
      BY <3>1 DEF ControlInv, LogFits
  <2> QED
    BY <2>1, <2>2
<1>6. LogFits' /\ PageFits(page)' /\ FeedFits' /\ StreamIsWhole'
  BY <1>3, <1>4, <1>5, ServerFits
<1>7. RequestsFit(requests, page)'
  BY <1>3 DEF ControlInv, RequestsFit, RequestFits, Blank
<1> QED
  BY <1>6, <1>7 DEF ControlInv

\* A request is replaced by its answer, or by the request that follows it.
LEMMA ReplacedRequestFits ==
    ASSUME NEW rs, NEW p, RequestsFit(rs, p), NEW q \in rs, NEW a, RequestFits(a, p),
           a.kind \in Loads => q.kind \in Loads /\ \A w \in rs : w.kind \in Beside => a.select \/ a.run = p.selectedId,
           a.kind \in Beside => q.kind \in Beside
    PROVE  RequestsFit((rs \ {q}) \union {a}, p)
<1> DEFINE new == (rs \ {q}) \union {a}
<1>1. \A w \in new : RequestFits(w, p)
  BY DEF RequestsFit
<1>2. ASSUME NEW w \in new, NEW v \in new, w.kind \in Loads, v.kind \in Loads
      PROVE  w = v
  BY <1>2 DEF RequestsFit
<1>3. ASSUME NEW w \in new, NEW v \in new, w.kind \in Loads, v.kind \in Beside
      PROVE  w.select \/ w.run = p.selectedId
  <2>1. CASE v = a
    <3>1. q.kind \in Beside /\ w # a
      BY <1>3, <2>1 DEF Loads, Beside
    <3> QED
      BY <1>3, <3>1 DEF RequestsFit
  <2>2. CASE v # a
    BY <1>3, <2>2 DEF RequestsFit
  <2> QED
    BY <2>1, <2>2
<1> QED
  BY <1>1, <1>2, <1>3 DEF RequestsFit

LEMMA ServeFits ==
    ASSUME ControlInv, NEW q \in requests, Serve(q)
    PROVE  ControlInv'
<1> USE ControlAssumption
<1>1. RequestFits(q, page) /\ q \in RequestRows
  BY DEF ControlInv, RequestsFit, RequestFits
<1>2. UNCHANGED <<page, feed>>
  BY Zenon DEF Serve
<1>3. ASSUME NEW a, RequestFits(a, page), a.kind = q.kind, a.select = q.select,
             a.kind \in Loads => a.run = q.run,
             requests' = (requests \ {q}) \union IF q.stale THEN {} ELSE {a}
      PROVE  RequestsFit(requests, page)'
  <2>1. RequestsFit(requests, page)
    BY DEF ControlInv
  <2>2. CASE q.stale
    <3>1. requests' \subseteq requests
      BY <1>3, <2>2
    <3>2. RequestsFit(requests', page)
      BY <2>1, <3>1, FewerRequestsFit
    <3> QED
      BY <1>2, <3>2
  <2>3. CASE ~q.stale
    <3>1. requests' = (requests \ {q}) \union {a}
      BY <1>3, <2>3
    <3>2. a.kind \in Loads => \A w \in requests : w.kind \in Beside => a.select \/ a.run = page.selectedId
      BY <1>3, <2>1 DEF RequestsFit
    <3>3. RequestsFit(requests', page)
      BY <1>3, <2>1, <3>1, <3>2, ReplacedRequestFits
    <3> QED
      BY <1>2, <3>3
  <2> QED
    BY <2>2, <2>3
<1>4. CASE q.kind = "list" /\ UNCHANGED server
           /\ requests' = (requests \ {q}) \union
                 IF q.stale THEN {} ELSE {[q EXCEPT !.served = TRUE, !.listed = ListExecutions]}
  <2>1. PICK a : a = [q EXCEPT !.served = TRUE, !.listed = ListExecutions]
    OBVIOUS
  <2>2. ListExecutions \in SUBSET OwnRuns
    BY DEF ListExecutions
  <2>3. a \in RequestRows
    BY <1>1, <2>1, <2>2, Zenon DEF RequestRows
  <2>4. a.kind = q.kind /\ a.run = q.run /\ a.select = q.select /\ a.stale = q.stale
    BY <1>1, <2>1 DEF RequestRows
  <2>5. RequestFits(a, page)
    BY <1>1, <1>4, <2>3, <2>4 DEF RequestFits, Beside
  <2>6. RequestsFit(requests, page)'
    BY <1>3, <1>4, <2>1, <2>4, <2>5, Zenon
  <2>7. LogFits' /\ PageFits(page)' /\ FeedFits' /\ StreamIsWhole'
    BY <1>2, <1>4 DEF ControlInv, LogFits, PageFits, Blank, FeedFits, StreamIsWhole, Followed
  <2> QED
    BY <2>6, <2>7 DEF ControlInv
<1>5. CASE q.kind \in {"get", "choose", "watch"} /\ UNCHANGED server
           /\ requests' = (requests \ {q}) \union
                 IF q.stale THEN {} ELSE {[q EXCEPT !.served = TRUE, !.over = ExecutionDetail(q.run).over]}
  <2>1. PICK a : a = [q EXCEPT !.served = TRUE, !.over = ExecutionDetail(q.run).over]
    OBVIOUS
  <2>2. CASE q.run \in Executions
    <3>2. ExecutionDetail(q.run).over \in BOOLEAN
      BY <2>2 DEF ExecutionDetail, ControlInv, LogFits, ServerRows
    <3>3. a \in RequestRows
      BY <1>1, <2>1, <3>2, Zenon DEF RequestRows
    <3>4. a.kind = q.kind /\ a.run = q.run /\ a.select = q.select /\ a.stale = q.stale
      BY <1>1, <2>1 DEF RequestRows
    <3>5. RequestFits(a, page)
      BY <1>1, <1>5, <3>3, <3>4 DEF RequestFits, Beside
    <3>6. RequestsFit(requests, page)'
      BY <1>3, <1>5, <2>1, <3>4, <3>5, Zenon
    <3>7. LogFits' /\ PageFits(page)' /\ FeedFits' /\ StreamIsWhole'
      BY <1>2, <1>5 DEF ControlInv, LogFits, PageFits, Blank, FeedFits, StreamIsWhole, Followed
    <3> QED
      BY <3>6, <3>7 DEF ControlInv
  <2> QED
    BY <1>1, <1>5, <2>2 DEF RequestFits, RequestRows, PageIds
<1>6. ASSUME q.kind \in {"create", "demo"}, NEW x \in Created(q.kind), server' = [server EXCEPT ![x].born = TRUE],
             requests' = (requests \ {q}) \union IF q.stale THEN {} ELSE {[q EXCEPT !.served = TRUE, !.run = x]}
      PROVE  ControlInv'
  <2>1. PICK a : a = [q EXCEPT !.served = TRUE, !.run = x]
    OBVIOUS
  <2>2. x \in OwnRuns /\ x \in PageIds /\ x \in Executions
    BY <1>6 DEF Created, PageIds
  <2>3. a \in RequestRows
    BY <1>1, <2>1, <2>2, Zenon DEF RequestRows
  <2>4. a.kind = q.kind /\ a.run = x /\ a.select = q.select /\ a.stale = q.stale
    BY <1>1, <2>1 DEF RequestRows
  <2>5. RequestFits(a, page)
    BY <1>1, <1>6, <2>2, <2>3, <2>4 DEF RequestFits, Beside
  <2>6. RequestsFit(requests, page)'
    BY <1>3, <1>6, <2>1, <2>4, <2>5, Zenon DEF Loads
  <2>7. server' \in [Executions -> ServerRows]
    BY <1>6, <2>2, Zenon DEF ControlInv, LogFits, ServerRows
  <2>8. ASSUME NEW y \in Executions
        PROVE  /\ server'[y].log = server[y].log /\ server'[y].ends = server[y].ends
               /\ server'[y].over = server[y].over /\ server[y].log \in Nat
    BY <1>6, <2>2 DEF ControlInv, LogFits, ServerRows
  <2>9. \A y \in Executions : /\ server[y].log <= server'[y].log /\ server[y].ends \subseteq server'[y].ends
                              /\ server'[y].over => server'[y].log \in server'[y].ends
    BY <2>8 DEF ControlInv, LogFits
  <2>10. LogFits' /\ PageFits(page)' /\ FeedFits' /\ StreamIsWhole'
    BY <1>2, <2>7, <2>9, ServerFits
  <2> QED
    BY <2>6, <2>10 DEF ControlInv
<1> QED
  BY <1>4, <1>5, <1>6, Zenon DEF Serve

\* Navigating clears the page and loads what the route names.
LEMMA SelectRouteFits ==
    ASSUME ControlInv, NEW p \in PageRows, NEW x \in PageIds, NEW rest \in SUBSET requests, p.shown = page.shown,
           p.route = x => PageFits(p) /\ RequestsFit(rest, p),
           SelectRoute(p, x, rest), UNCHANGED server
    PROVE  ControlInv'
<1>1. CASE p.route = x
  <2>1. Render(p) /\ requests' = rest
    BY <1>1 DEF SelectRoute
  <2>2. page' = p
    BY <2>1 DEF Render
  <2>3. LogFits' /\ PageFits(page)' /\ FeedFits' /\ StreamIsWhole'
    BY <1>1, <2>1, RenderFits
  <2>4. RequestsFit(requests, page)'
    BY <1>1, <2>1, <2>2
  <2> QED
    BY <2>3, <2>4 DEF ControlInv
<1>2. CASE p.route # x
  <2>1. PICK r : r = Navigated(p, x)
    OBVIOUS
  <2>2. Render(r) /\ requests' = Outdated(rest) \union {Request("list", x)}
    BY <1>2, <2>1 DEF SelectRoute
  <2>3. p \in PageRows
    OBVIOUS
  <2>4. r \in PageRows
    <3>1. PICK d : d = Reset(p)
      OBVIOUS
    <3>2. d \in PageRows
      BY <2>3, <3>1, Zenon DEF Reset, PageRows
    <3>3. NoDetail \in ShownDetails /\ NoExecution \in PageIds
      BY DEF NoDetail, ShownDetails, PageIds
    <3>4. <<>> \in Seq(ShownRows)
      OBVIOUS
    <3>5. r = [d EXCEPT !.route = x, !.selectedId = x, !.selected = NoDetail, !.shown = <<>>,
                        !.inspected = NoExecution]
      BY <2>1, <3>1 DEF Navigated
    <3> QED
      BY <3>2, <3>3, <3>4, <3>5, Zenon DEF PageRows
  <2>5. /\ r.route = x /\ r.selectedId = x /\ r.selected.run = NoExecution /\ r.shown = <<>>
        /\ r.inspected = NoExecution
    BY <2>1, <2>3 DEF Navigated, Reset, PageRows, NoDetail
  <2>6. PageFits(r) /\ Blank(r)
    BY <2>4, <2>5 DEF PageFits, Blank
  <2>7. RequestFits(Request("list", x), r)
    BY <2>5, <2>6, NewRequestRow DEF RequestFits, Beside
  <2>8. RequestsFit(requests', r)
    BY <2>2, <2>7, NewLoadFits, NewRequestRow DEF ControlInv, Loads
  <2>9. page' = r
    BY <2>2 DEF Render
  <2>10. LogFits' /\ PageFits(page)' /\ FeedFits' /\ StreamIsWhole'
    BY <2>2, <2>5, <2>6, RenderFits
  <2> QED
    BY <2>8, <2>9, <2>10 DEF ControlInv
<1> QED
  BY <1>1, <1>2

\* A page about the same execution, with no more on it, changes nothing for the
\* requests under way.
LEMMA SamePageFits ==
    ASSUME ControlInv, NEW p \in PageRows, p.route = page.route, p.selectedId = page.selectedId,
           p.shown = page.shown, p.inspected = page.inspected,
           p.selected = page.selected \/ p.selected.run = NoExecution
    PROVE  PageFits(p) /\ RequestsFit(requests, p)
<1>0. PageFits(page) /\ RequestsFit(requests, page)
  BY DEF ControlInv
<1>1. Blank(page) => Blank(p)
  BY DEF Blank
<1>2. PageFits(p)
  BY <1>0, <1>1 DEF PageFits
<1>3. \A q \in requests : RequestFits(q, p)
  BY <1>0, <1>1 DEF RequestsFit, RequestFits
<1> QED
  BY <1>0, <1>2, <1>3 DEF RequestsFit

\* The pages the hook renders from the current one.
LEMMA RenderedPages ==
    ASSUME ControlInv, NEW s \in {"loading", "ready", "empty", "error"}, NEW b \in BOOLEAN
    PROVE  /\ LET p == [page EXCEPT !.selected = NoDetail, !.state = s] IN
                PageFits(p) /\ RequestsFit(requests, p) /\ p.shown = page.shown
           /\ LET p == [page EXCEPT !.state = s] IN
                PageFits(p) /\ RequestsFit(requests, p) /\ p.shown = page.shown
           /\ LET p == [page EXCEPT !.busy = b] IN
                PageFits(p) /\ RequestsFit(requests, p) /\ p.shown = page.shown
           /\ PageFits(Reset(page)) /\ RequestsFit(requests, Reset(page)) /\ Reset(page).shown = page.shown
<1>0. page \in PageRows
  BY DEF ControlInv, PageFits
<1>1. LET p == [page EXCEPT !.selected = NoDetail, !.state = s] IN
        /\ p \in PageRows /\ p.route = page.route /\ p.selectedId = page.selectedId
        /\ p.shown = page.shown /\ p.inspected = page.inspected /\ p.selected.run = NoExecution
  BY <1>0, Zenon DEF PageRows, NoDetail, ShownDetails, PageIds
<1>2. LET p == [page EXCEPT !.state = s] IN
        /\ p \in PageRows /\ p.route = page.route /\ p.selectedId = page.selectedId
        /\ p.shown = page.shown /\ p.inspected = page.inspected /\ p.selected = page.selected
  BY <1>0 DEF PageRows
<1>3. LET p == [page EXCEPT !.busy = b] IN
        /\ p \in PageRows /\ p.route = page.route /\ p.selectedId = page.selectedId
        /\ p.shown = page.shown /\ p.inspected = page.inspected /\ p.selected = page.selected
  BY <1>0 DEF PageRows
<1>4. /\ Reset(page) \in PageRows /\ Reset(page).route = page.route /\ Reset(page).selectedId = page.selectedId
      /\ Reset(page).shown = page.shown /\ Reset(page).inspected = page.inspected
      /\ Reset(page).selected = page.selected
  BY <1>0, Zenon DEF PageRows, Reset
<1> QED
  BY <1>1, <1>2, <1>3, <1>4, SamePageFits, Zenon

\* The page turned to the execution an answer is about.
LEMMA SelectedPage ==
    ASSUME ControlInv, NEW q \in requests, q.run \in OwnRuns,
           NEW p, p = [page EXCEPT !.selectedId = q.run, !.selected = [run |-> q.run, over |-> q.over],
                                   !.state = "ready"]
    PROVE  /\ p \in PageRows /\ p.shown = page.shown /\ p.route = page.route /\ p.selectedId = q.run
           /\ page.route \in {q.run, NoExecution} /\ (q.run = page.selectedId \/ Blank(page)) => PageFits(p)
<1> USE ControlAssumption
<1>1. page \in PageRows /\ q \in RequestRows
  BY DEF ControlInv, PageFits, RequestsFit, RequestFits
<1>2. [run |-> q.run, over |-> q.over] \in ShownDetails /\ q.run \in PageIds
  BY <1>1 DEF RequestRows, ShownDetails
<1>3. p \in PageRows
  BY <1>1, <1>2, Zenon DEF PageRows
<1>4. /\ p.shown = page.shown /\ p.route = page.route /\ p.selectedId = q.run
      /\ p.selected.run = q.run /\ p.inspected = page.inspected
  BY <1>1 DEF PageRows
<1>5. ASSUME page.route \in {q.run, NoExecution}, q.run = page.selectedId \/ Blank(page) PROVE PageFits(p)
  BY <1>3, <1>4, <1>5 DEF PageFits, ControlInv, Blank
<1> QED
  BY <1>3, <1>4, <1>5

\* When the pending load arrives, the others are still about the page.
LEMMA OthersFit ==
    ASSUME ControlInv, NEW q \in requests, q.kind \in Loads, NEW p, p.selectedId = q.run, p.route = page.route,
           \A w \in requests : w.kind \in Beside => q.run = page.selectedId
    PROVE  RequestsFit(requests \ {q}, p)
<1>1. \A w \in requests \ {q} : w.kind \notin Loads
  BY DEF ControlInv, RequestsFit
<1>2. ASSUME NEW w \in requests \ {q} PROVE RequestFits(w, p)
  <2>1. RequestFits(w, page) /\ w.kind \notin Loads
    BY <1>1 DEF ControlInv, RequestsFit
  <2> QED
    BY <2>1 DEF RequestFits, Loads
<1> QED
  BY <1>1, <1>2 DEF RequestsFit

LEMMA ListedFits ==
    ASSUME ControlInv, NEW q \in requests, Listed(q)
    PROVE  ControlInv'
<1> USE ControlAssumption
<1>1. RequestFits(q, page) /\ q \in RequestRows /\ q.kind = "list" /\ UNCHANGED server
  BY DEF ControlInv, RequestsFit, RequestFits, Listed
<1>2. ASSUME NEW x \in Executions, x # q.run => q.run = NoExecution,
             requests' = (requests \ {q}) \union {[Request("get", x) EXCEPT !.select = q.select]},
             UNCHANGED <<page, feed>>
      PROVE  ControlInv'
  <2>1. PICK a : a = [Request("get", x) EXCEPT !.select = q.select]
    BY Zenon
  <2>2. x \in PageIds /\ x # NoExecution /\ Request("get", x) \in RequestRows /\ q.select \in BOOLEAN
    BY <1>1, NewRequestRow DEF PageIds, RequestRows
  <2>3. a \in RequestRows
    BY <2>1, <2>2 DEF RequestRows
  <2>4. a.kind = "get" /\ a.run = x /\ a.select = q.select /\ ~a.stale
    BY <2>1, <2>2, NewRequestRow DEF RequestRows
  <2>5. q.run = NoExecution => ~q.select /\ Blank(page) /\ page.route = NoExecution
    BY <1>1 DEF RequestFits, ControlInv, PageFits
  <2>6. RequestFits(a, page)
    BY <1>1, <1>2, <2>2, <2>3, <2>4, <2>5 DEF RequestFits, Beside
  <2>7. ASSUME NEW w \in requests, w.kind \in Beside PROVE a.select \/ a.run = page.selectedId
    <3>1. w.run = page.selectedId /\ w.run # NoExecution
      BY <2>7 DEF ControlInv, RequestsFit, RequestFits
    <3>2. q.select \/ q.run = page.selectedId
      BY <1>1, <2>7 DEF ControlInv, RequestsFit, Loads
    <3> QED
      BY <1>2, <2>4, <2>5, <3>1, <3>2
  <2>8. RequestsFit(requests', page)
    BY <1>1, <1>2, <2>1, <2>4, <2>6, <2>7, ReplacedRequestFits, Zenon DEF ControlInv, Loads, Beside
  <2>9. LogFits' /\ PageFits(page)' /\ FeedFits' /\ StreamIsWhole'
    BY <1>1, <1>2 DEF ControlInv, LogFits, PageFits, Blank, FeedFits, StreamIsWhole, Followed
  <2> QED
    BY <1>2, <2>8, <2>9 DEF ControlInv
<1>3. CASE q.run # NoExecution
  <2>1. q.run \in Executions
    BY <1>1, <1>3 DEF RequestRows, PageIds
  <2> QED
    BY <1>2, <1>3, <2>1 DEF Listed
<1>4. CASE q.run = NoExecution /\ q.listed = {}
  <2>1. PICK p : p = [page EXCEPT !.selected = NoDetail, !.state = "empty"]
    OBVIOUS
  <2>2. Render(p) /\ requests' = requests \ {q}
    BY <1>4, <2>1 DEF Listed
  <2>3. PageFits(p) /\ RequestsFit(requests, p) /\ p.shown = page.shown
    BY <2>1, RenderedPages, Zenon
  <2>4. RequestsFit(requests', p)
    BY <2>2, <2>3, FewerRequestsFit
  <2>5. LogFits' /\ PageFits(page)' /\ FeedFits' /\ StreamIsWhole'
    BY <1>1, <2>2, <2>3, RenderFits
  <2> QED
    BY <2>2, <2>4, <2>5 DEF ControlInv, Render
<1>5. CASE q.run = NoExecution /\ q.listed # {}
  <2>1. PICK x \in q.listed : requests' = (requests \ {q}) \union {[Request("get", x) EXCEPT !.select = q.select]}
    BY <1>5 DEF Listed
  <2>2. x \in Executions
    BY <1>1 DEF RequestRows
  <2> QED
    BY <1>2, <1>5, <2>1, <2>2 DEF Listed
<1> QED
  BY <1>3, <1>4, <1>5

LEMMA LoadedFits ==
    ASSUME ControlInv, NEW q \in requests, Loaded(q)
    PROVE  ControlInv'
<1> USE ControlAssumption
<1>1. RequestFits(q, page) /\ q \in RequestRows /\ q.kind = "get" /\ UNCHANGED server /\ q.run # NoExecution
  BY DEF ControlInv, RequestsFit, RequestFits, Loaded
<1>2. CASE q.run \notin OwnRuns
  <2>1. PICK p : p = [page EXCEPT !.selected = NoDetail, !.state = "error"]
    OBVIOUS
  <2>2. Render(p) /\ requests' = requests \ {q}
    BY <1>2, <2>1 DEF Loaded
  <2>3. PageFits(p) /\ RequestsFit(requests, p) /\ p.shown = page.shown
    BY <2>1, RenderedPages, Zenon
  <2>4. RequestsFit(requests', p)
    BY <2>2, <2>3, FewerRequestsFit
  <2>5. LogFits' /\ PageFits(page)' /\ FeedFits' /\ StreamIsWhole'
    BY <1>1, <2>2, <2>3, RenderFits
  <2> QED
    BY <2>2, <2>4, <2>5 DEF ControlInv, Render
<1>3. CASE q.run \in OwnRuns
  <2>1. PICK p : p = [page EXCEPT !.selectedId = q.run, !.selected = [run |-> q.run, over |-> q.over],
                                   !.state = "ready"]
    OBVIOUS
  <2>2. /\ p \in PageRows /\ p.shown = page.shown /\ p.route = page.route /\ p.selectedId = q.run
        /\ page.route \in {q.run, NoExecution} /\ (q.run = page.selectedId \/ Blank(page)) => PageFits(p)
    BY <1>3, <2>1, SelectedPage, Zenon
  <2>3. CASE ~q.select
    <3>1. Render(p) /\ requests' = requests \ {q}
      BY <1>3, <2>1, <2>3 DEF Loaded
    <3>2. PageFits(p)
      BY <1>1, <2>2, <2>3 DEF RequestFits
    <3>3. \A w \in requests : w.kind \in Beside => q.run = page.selectedId
      BY <1>1, <2>3 DEF ControlInv, RequestsFit, Loads
    <3>4. RequestsFit(requests', p)
      BY <1>1, <2>2, <3>1, <3>3, OthersFit DEF Loads
    <3>5. LogFits' /\ PageFits(page)' /\ FeedFits' /\ StreamIsWhole'
      BY <1>1, <2>2, <3>1, <3>2, RenderFits
    <3> QED
      BY <3>1, <3>4, <3>5 DEF ControlInv, Render
  <2>4. CASE q.select
    <3>1. SelectRoute(p, q.run, requests \ {q})
      BY <1>3, <2>1, <2>4 DEF Loaded
    <3>2. ASSUME p.route = q.run PROVE PageFits(p) /\ RequestsFit(requests \ {q}, p)
      <4>1. q.run = page.selectedId \/ Blank(page)
        BY <1>1, <2>2, <3>2 DEF ControlInv, PageFits
      <4>2. ASSUME NEW w \in requests, w.kind \in Beside PROVE q.run = page.selectedId
        BY <1>1, <2>2, <3>2, <4>2 DEF ControlInv, RequestsFit, RequestFits
      <4> QED
        BY <1>1, <2>2, <3>2, <4>1, <4>2, OthersFit DEF Loads
    <3>3. q.run \in PageIds
      BY <1>1 DEF RequestRows
    <3> QED
      BY <1>1, <2>2, <3>1, <3>2, <3>3, SelectRouteFits
  <2> QED
    BY <1>1, <2>3, <2>4
<1> QED
  BY <1>2, <1>3

LEMMA ChosenFits ==
    ASSUME ControlInv, NEW q \in requests, Chosen(q)
    PROVE  ControlInv'
<1> USE ControlAssumption
<1>1. RequestFits(q, page) /\ q \in RequestRows /\ q.kind = "choose" /\ UNCHANGED server
  BY DEF ControlInv, RequestsFit, RequestFits, Chosen
<1>2. q.run = page.selectedId /\ q.run \in OwnRuns
  BY <1>1 DEF RequestFits
<1>3. PICK p : p = [page EXCEPT !.selectedId = q.run, !.selected = [run |-> q.run, over |-> q.over],
                                 !.state = "ready"]
  OBVIOUS
<1>4. /\ p \in PageRows /\ p.shown = page.shown /\ p.route = page.route /\ p.selectedId = q.run
      /\ page.route \in {q.run, NoExecution} /\ (q.run = page.selectedId \/ Blank(page)) => PageFits(p)
  BY <1>2, <1>3, SelectedPage, Zenon
<1>5. SelectRoute(p, q.run, requests \ {q})
  BY <1>3 DEF Chosen
<1>6. RequestsFit(requests \ {q}, p)
  BY <1>1, <1>2, <1>4, OthersFit DEF Loads
<1>7. q.run \in PageIds
  BY <1>1 DEF RequestRows
<1> QED
  BY <1>1, <1>2, <1>4, <1>5, <1>6, <1>7, SelectRouteFits

LEMMA ActedFits ==
    ASSUME ControlInv, NEW q \in requests, Acted(q)
    PROVE  ControlInv'
<1> USE ControlAssumption
<1>1. RequestFits(q, page) /\ q \in RequestRows /\ UNCHANGED server /\ q.kind \in {"create", "demo", "cancel"} /\ q.served
  BY DEF ControlInv, RequestsFit, RequestFits, Acted
<1>2. PICK p : p = Reset(page)
  OBVIOUS
<1>3. Render(p)
  BY <1>2 DEF Acted
<1>4. PageFits(p) /\ p.shown = page.shown
  BY <1>2, RenderedPages, Zenon
<1>5. p.route = page.route /\ p.selectedId = page.selectedId
  BY <1>2 DEF Reset, ControlInv, PageFits, PageRows
<1>6. PICK a : a = [Request("list", q.run) EXCEPT !.select = q.kind \in {"create", "demo"}]
  BY Zenon
<1>7. q.run \in PageIds /\ Request("list", q.run) \in RequestRows
  BY <1>1, NewRequestRow DEF RequestRows
<1>8. RequestFits(a, p) /\ a.kind \in Loads
  <2>1. CASE q.kind \in {"create", "demo"}
    <3>1. (q.kind \in {"create", "demo"}) = TRUE
      BY <2>1
    <3>2. a = [Request("list", q.run) EXCEPT !.select = TRUE]
      BY <1>6, <3>1, Zenon
    <3>3. a \in RequestRows
      BY <1>7, <3>2, Zenon DEF RequestRows
    <3>4. a.kind = "list" /\ a.run = q.run /\ a.select /\ ~a.stale
      BY <1>7, <3>2, NewRequestRow DEF RequestRows
    <3>5. q.run # NoExecution
      BY <1>1, <2>1 DEF RequestFits
    <3> QED
      BY <3>3, <3>4, <3>5 DEF RequestFits, Beside, Loads
  <2>2. CASE q.kind = "cancel"
    <3>1. (q.kind \in {"create", "demo"}) = FALSE
      BY <2>2
    <3>2. a = [Request("list", q.run) EXCEPT !.select = FALSE]
      BY <1>6, <3>1, Zenon
    <3>3. a \in RequestRows
      BY <1>7, <3>2, Zenon DEF RequestRows
    <3>4. a.kind = "list" /\ a.run = q.run /\ ~a.select /\ ~a.stale
      BY <1>7, <3>2, NewRequestRow DEF RequestRows
    <3>5. q.run = page.selectedId /\ page.route \in {page.selectedId, NoExecution}
      BY <1>1, <2>2 DEF RequestFits, Beside
    <3> QED
      BY <1>5, <3>3, <3>4, <3>5 DEF RequestFits, Beside, Loads
  <2> QED
    BY <1>1, <2>1, <2>2
<1>9. requests' = Outdated(requests \ {q}) \union {a}
  BY <1>6 DEF Acted
<1>10. RequestsFit(requests', p)
  BY <1>8, <1>9, NewLoadFits DEF ControlInv
<1>11. LogFits' /\ PageFits(page)' /\ FeedFits' /\ StreamIsWhole'
  BY <1>1, <1>3, <1>4, RenderFits
<1> QED
  BY <1>3, <1>10, <1>11 DEF ControlInv, Render

LEMMA InspectedFits ==
    ASSUME ControlInv, NEW q \in requests, Inspected(q)
    PROVE  ControlInv'
<1>1. RequestFits(q, page) /\ q \in RequestRows /\ q.kind = "inspect" /\ UNCHANGED server /\ PageFits(page)
  BY DEF ControlInv, RequestsFit, RequestFits, Inspected
<1>2. q.run = page.selectedId /\ q.run # NoExecution /\ page.route \in {page.selectedId, NoExecution}
  BY <1>1 DEF RequestFits, Beside
<1>3. PICK p : p = [page EXCEPT !.inspected = q.run]
  BY Zenon
<1>4. p \in PageRows
  BY <1>1, <1>3 DEF PageRows, RequestRows, PageFits
<1>5. /\ p.route = page.route /\ p.selectedId = page.selectedId /\ p.selected = page.selected
      /\ p.shown = page.shown /\ p.inspected = q.run
  BY <1>1, <1>3 DEF PageRows, PageFits
<1>6. PageFits(p)
  BY <1>1, <1>2, <1>4, <1>5 DEF PageFits
<1>7. RequestsFit(requests \ {q}, p)
  <2>1. ASSUME NEW w \in requests PROVE RequestFits(w, p)
    <3>1. RequestFits(w, page)
      BY DEF ControlInv, RequestsFit
    <3>2. w.kind \in Loads => w.select \/ w.run = page.selectedId
      BY <1>1 DEF ControlInv, RequestsFit, Beside
    <3> QED
      BY <1>5, <3>1, <3>2 DEF RequestFits, Loads
  <2> QED
    BY <1>5, <2>1 DEF ControlInv, RequestsFit
<1>8. Render(p) /\ requests' = requests \ {q}
  BY <1>3 DEF Inspected
<1>9. LogFits' /\ PageFits(page)' /\ FeedFits' /\ StreamIsWhole'
  BY <1>1, <1>5, <1>6, <1>8, RenderFits
<1> QED
  BY <1>7, <1>8, <1>9 DEF ControlInv, Render

LEMMA FailedFits ==
    ASSUME ControlInv, NEW q \in requests, Failed(q)
    PROVE  ControlInv'
<1>1. UNCHANGED server /\ requests' = requests \ {q}
  BY DEF Failed
<1>2. ASSUME NEW p, PageFits(p), RequestsFit(requests, p), p.shown = page.shown, Render(p)
      PROVE  ControlInv'
  <2>1. RequestsFit(requests', p)
    BY <1>1, <1>2, FewerRequestsFit
  <2>2. LogFits' /\ PageFits(page)' /\ FeedFits' /\ StreamIsWhole'
    BY <1>1, <1>2, RenderFits
  <2> QED
    BY <1>2, <2>1, <2>2 DEF ControlInv, Render
<1>3. CASE q.stale
  <2>1. UNCHANGED <<page, feed>>
    BY <1>3 DEF Failed
  <2>2. RequestsFit(requests', page)
    BY <1>1, FewerRequestsFit DEF ControlInv
  <2>3. LogFits' /\ PageFits(page)' /\ FeedFits' /\ StreamIsWhole'
    BY <1>1, <2>1 DEF ControlInv, LogFits, PageFits, Blank, FeedFits, StreamIsWhole, Followed
  <2> QED
    BY <2>1, <2>2, <2>3 DEF ControlInv
<1>4. CASE ~q.stale /\ q.kind \in {"list", "get", "choose"}
  <2>1. PICK p : p = [page EXCEPT !.state = "error"]
    BY Zenon
  <2> QED
    BY <1>2, <1>4, <2>1, RenderedPages, Zenon DEF Failed
<1>5. CASE ~q.stale /\ q.kind \notin {"list", "get", "choose"}
  <2>1. PICK p : p = [page EXCEPT !.busy = FALSE]
    BY Zenon
  <2> QED
    BY <1>2, <1>5, <2>1, RenderedPages, Zenon DEF Failed
<1> QED
  BY <1>3, <1>4, <1>5

LEMMA ChooseFits ==
    ASSUME ControlInv, NEW x \in OwnRuns, Choose(x)
    PROVE  ControlInv'
<1> USE ControlAssumption
<1>1. PICK p : p = [page EXCEPT !.selectedId = x, !.selected = NoDetail, !.state = "loading", !.busy = FALSE,
                                !.inspected = NoExecution, !.shown = <<>>]
  OBVIOUS
<1>2. /\ Render(p) /\ UNCHANGED server /\ requests' = Outdated(requests) \union {Request("choose", x)}
  BY <1>1 DEF Choose, Send
<1>3. page \in PageRows /\ x \in PageIds
  BY DEF ControlInv, PageFits, PageIds
<1>4. p \in PageRows
  <2>1. NoDetail \in ShownDetails /\ NoExecution \in PageIds /\ <<>> \in Seq(ShownRows)
    BY DEF NoDetail, ShownDetails, PageIds
  <2> QED
    BY <1>1, <1>3, <2>1, Zenon DEF PageRows
<1>5. /\ p.selectedId = x /\ p.selected.run = NoExecution /\ p.shown = <<>> /\ p.inspected = NoExecution
  BY <1>1, <1>3 DEF PageRows, NoDetail
<1>6. PageFits(p)
  BY <1>4, <1>5 DEF PageFits, Blank
<1>7. RequestFits(Request("choose", x), p)
  BY <1>3, <1>5, NewRequestRow DEF RequestFits, Beside
<1>8. RequestsFit(requests', p)
  BY <1>2, <1>3, <1>7, NewLoadFits, NewRequestRow DEF ControlInv, Loads
<1>9. LogFits' /\ PageFits(page)' /\ FeedFits' /\ StreamIsWhole'
  BY <1>2, <1>5, <1>6, RenderFits
<1> QED
  BY <1>2, <1>8, <1>9 DEF ControlInv, Render

LEMMA ReloadFits ==
    ASSUME ControlInv, Reload
    PROVE  ControlInv'
<1>1. PICK p : p = Reset(page)
  OBVIOUS
<1>2. PageFits(page) /\ page \in PageRows
  BY DEF ControlInv, PageFits
<1>3. PageFits(p) /\ p.shown = page.shown
  BY <1>1, RenderedPages, Zenon
<1>4. /\ p.route = page.route /\ p.selectedId = page.selectedId /\ p.inspected = page.inspected
      /\ p.selected = page.selected
  BY <1>1, <1>2 DEF Reset, PageRows
<1>5. PICK x : x = Target(page)
  OBVIOUS
<1>6. Render(p) /\ UNCHANGED server /\ requests' = Outdated(requests) \union {Request("list", x)}
  BY <1>1, <1>5 DEF Reload, Send
<1>7. x \in PageIds /\ (x # page.selectedId => Blank(page)) /\ page.route \in {x, NoExecution}
  BY <1>2, <1>5 DEF Target, PageFits, PageRows
<1>8. RequestFits(Request("list", x), p)
  BY <1>3, <1>4, <1>7, NewRequestRow DEF RequestFits, Beside, Blank
<1>9. RequestsFit(requests', p)
  BY <1>6, <1>7, <1>8, NewLoadFits, NewRequestRow DEF ControlInv, Loads
<1>10. LogFits' /\ PageFits(page)' /\ FeedFits' /\ StreamIsWhole'
  BY <1>3, <1>6, RenderFits
<1> QED
  BY <1>6, <1>9, <1>10 DEF ControlInv, Render

LEMMA NavigateFits ==
    ASSUME ControlInv, NEW x \in PageIds, Navigate(x)
    PROVE  ControlInv'
<1>1. x # page.route /\ page \in PageRows /\ SelectRoute(page, x, requests) /\ UNCHANGED server
  BY DEF Navigate, ControlInv, PageFits
<1> QED
  BY <1>1, SelectRouteFits

\* A new request besides the load leaves everything else as it fits.
LEMMA SentFits ==
    ASSUME NEW p, RequestsFit(requests, p), NEW q, RequestFits(q, p), q.kind \notin Loads,
           q.kind \in Beside => p.selected.run # NoExecution
    PROVE  RequestsFit(requests \union {q}, p)
<1>1. ASSUME NEW w \in requests, w.kind \in Loads, q.kind \in Beside
      PROVE  w.select \/ w.run = p.selectedId
  BY <1>1 DEF RequestsFit, RequestFits, Loads, Blank
<1> QED
  BY <1>1 DEF RequestsFit

LEMMA ActFits ==
    ASSUME ControlInv, NEW k \in {"cancel", "resume", "create", "demo"}, NEW x \in PageIds,
           k \in {"cancel", "resume"} => x = page.selected.run /\ x # NoExecution,
           Act(k, x)
    PROVE  ControlInv'
<1>1. PICK p : p = [page EXCEPT !.busy = TRUE]
  BY Zenon
<1>2. page \in PageRows /\ PageFits(page)
  BY DEF ControlInv, PageFits
<1>3. PageFits(p) /\ p.shown = page.shown /\ RequestsFit(requests, p)
  BY <1>1, RenderedPages, Zenon
<1>4. /\ p.route = page.route /\ p.selectedId = page.selectedId /\ p.selected = page.selected
  BY <1>1, <1>2 DEF PageRows
<1>5. Render(p) /\ UNCHANGED server /\ requests' = requests \union {Request(k, x)}
  BY <1>1 DEF Act, Send
<1>6. RequestFits(Request(k, x), p)
  <2>1. k = "cancel" => x = page.selectedId /\ page.route \in {page.selectedId, NoExecution}
    BY <1>2 DEF PageFits, Blank
  <2> QED
    BY <1>4, <2>1, NewRequestRow DEF RequestFits, Beside
<1>7. RequestsFit(requests', p)
  BY <1>3, <1>4, <1>5, <1>6, NewRequestRow, SentFits DEF Loads, Beside
<1>8. LogFits' /\ PageFits(page)' /\ FeedFits' /\ StreamIsWhole'
  BY <1>3, <1>5, RenderFits
<1> QED
  BY <1>5, <1>7, <1>8 DEF ControlInv, Render

LEMMA InspectFits ==
    ASSUME ControlInv, Inspect
    PROVE  ControlInv'
<1>1. PageFits(page) /\ RequestsFit(requests, page)
  BY DEF ControlInv
<1>2. PICK x : x = page.selected.run
  OBVIOUS
<1>3. x \in PageIds /\ x # NoExecution /\ x = page.selectedId /\ page.route \in {page.selectedId, NoExecution}
  BY <1>1, <1>2 DEF PageFits, Blank, PageRows, ShownDetails, Inspect
<1>4. UNCHANGED <<server, page, feed>> /\ requests' = requests \union {Request("inspect", x)}
  BY <1>2 DEF Inspect, Send
<1>5. RequestFits(Request("inspect", x), page)
  BY <1>3, NewRequestRow DEF RequestFits, Beside
<1>6. RequestsFit(requests', page)
  BY <1>1, <1>2, <1>3, <1>4, <1>5, NewRequestRow, SentFits, Zenon DEF Loads
<1>7. LogFits' /\ PageFits(page)' /\ FeedFits' /\ StreamIsWhole'
  BY <1>4 DEF ControlInv, LogFits, PageFits, Blank, FeedFits, StreamIsWhole, Followed
<1> QED
  BY <1>4, <1>6, <1>7 DEF ControlInv

FrameRows == [n : Nat, end : BOOLEAN]

\* What one statement reads: the numbers after the cursor, then the marker.
LEMMA EventsAfterIs ==
    ASSUME LogFits, NEW x \in Executions, NEW c \in Nat, c <= server[x].log, NEW f, f = EventsAfter(x, c)
    PROVE  /\ f \in Seq(FrameRows)
           /\ \A i \in DOMAIN f :
                 /\ ~f[i].end => f[i].n = c + i
                 /\ f[i].end => i = Len(f) /\ f[i].n = c + i - 1 /\ f[i].n \in server[x].ends
           /\ \A i \in DOMAIN f : f[i].n <= server[x].log
<1>1. PICK k \in Nat : k = server[x].log - c
  BY DEF LogFits, ServerRows
<1>2. server[x].log = c + k /\ server[x].log \in Nat
  BY <1>1 DEF LogFits, ServerRows
<1>3. PICK g : g = [n \in 1 .. k |-> [n |-> c + n, end |-> FALSE]]
  BY Zenon
<1>4. g \in Seq(FrameRows) /\ Len(g) = k /\ \A i \in 1 .. k : g[i] = [n |-> c + i, end |-> FALSE]
  <2>1. \A i \in 1 .. k : [n |-> c + i, end |-> FALSE] \in FrameRows
    BY DEF FrameRows
  <2>2. g \in [1 .. k -> FrameRows]
    BY <1>3, <2>1, Zenon
  <2>3. g \in Seq(FrameRows)
    BY <2>2, SeqUnfolds
  <2>4. DOMAIN g = 1 .. Len(g) /\ Len(g) \in Nat /\ DOMAIN g = 1 .. k
    BY <2>2, <2>3, SeqShape
  <2>5. Len(g) = k
    <3>1. PICK l \in Nat : l = Len(g)
      BY <2>4, Zenon
    <3>2. (l \in 1 .. l <=> l \in 1 .. k) /\ (k \in 1 .. l <=> k \in 1 .. k)
      BY <2>4, <3>1, Zenon
    <3>3. l = k
      BY <3>2
    <3> QED
      BY <3>1, <3>3
  <2> QED
    BY <1>3, <2>3, <2>5, Zenon
<1>5. CASE ~server[x].over
  <2>1. f = g \o <<>>
    BY <1>1, <1>3, <1>5 DEF EventsAfter
  <2>2. f = g
    BY <1>4, <2>1
  <2> QED
    BY <1>2, <1>4, <2>2
<1>6. CASE server[x].over
  <2>1. PICK m : m = [n |-> server[x].log, end |-> TRUE]
    BY Zenon
  <2>2. m \in FrameRows /\ m.n = server[x].log /\ m.end
    BY <1>2, <2>1 DEF FrameRows
  <2>3. f = g \o <<m>>
    BY <1>1, <1>3, <1>6, <2>1, Zenon DEF EventsAfter
  <2>4. f \in Seq(FrameRows) /\ Len(f) = k + 1 /\ f[k + 1] = m /\ \A i \in 1 .. k : f[i] = g[i]
    <3>0. PICK h : h = <<m>>
      BY Zenon
    <3>1. h \in Seq(FrameRows) /\ Len(h) = 1 /\ h[1] = m
      BY <2>2, <3>0
    <3>2. f = g \o h /\ g \in Seq(FrameRows) /\ Len(g) = k
      BY <1>4, <2>3, <3>0
    <3>3. k \in Nat /\ Len(f) = Len(g) + Len(h) /\ f \in Seq(FrameRows)
      BY <3>1, <3>2, SeqJoin, SeqShape, Zenon
    <3>4. Len(f) = k + 1
      BY <3>1, <3>2, <3>3
    <3>5. ASSUME NEW i \in 1 .. k PROVE f[i] = g[i]
      BY <3>1, <3>2, <3>3
    <3>6. f[k + 1] = h[1]
      BY <3>1, <3>2, <3>3
    <3> QED
      BY <3>1, <3>3, <3>4, <3>5, <3>6
  <2>5. server[x].log \in server[x].ends
    BY <1>6 DEF LogFits
  <2> QED
    BY <1>2, <1>4, <2>2, <2>4, <2>5
<1> QED
  BY <1>5, <1>6

\* What a running stream can rely on.
LEMMA FeedIsUp ==
    ASSUME ControlInv, FeedUp
    PROVE  /\ feed.run \in Executions /\ feed.run \in OwnRuns /\ feed.run = page.selectedId
           /\ feed.run = page.selected.run /\ page.state = "ready"
           /\ feed \in FeedRows
<1>1. feed.run # NoExecution /\ feed.run = Followed(page) /\ feed \in FeedRows
  BY DEF FeedUp, ControlInv, FeedFits
<1>2. feed.run = page.selected.run /\ page.state = "ready"
  BY <1>1 DEF Followed
<1> QED
  BY <1>1, <1>2, ControlAssumption DEF ControlInv, PageFits

LEMMA ConnectFits ==
    ASSUME ControlInv, Connect
    PROVE  ControlInv'
<1>1. FeedUp /\ UNCHANGED <<server, page, requests>>
  BY DEF Connect
<1>2. feed.run \in Executions /\ feed \in FeedRows /\ feed.run # NoExecution
  BY <1>1, FeedIsUp DEF FeedUp
<1>3. feed' = [feed EXCEPT !.open = TRUE, !.sent = feed.cursor, !.frames = <<>>]
  BY DEF Connect
<1>4. feed' \in FeedRows
  <2>1. <<>> \in Seq([n : Nat, end : BOOLEAN])
    OBVIOUS
  <2> QED
    BY <1>2, <1>3, <2>1, Zenon DEF FeedRows
<1>5. feed'.run = feed.run /\ feed'.cursor = feed.cursor /\ feed'.sent = feed.cursor /\ feed'.frames = <<>>
  BY <1>2, <1>3 DEF FeedRows
<1>6. FeedFits'
  BY <1>1, <1>2, <1>4, <1>5 DEF ControlInv, FeedFits, Followed
<1> QED
  BY <1>1, <1>6 DEF ControlInv, LogFits, PageFits, Blank, RequestsFit, RequestFits, StreamIsWhole

LEMMA PollFits ==
    ASSUME ControlInv, Poll
    PROVE  ControlInv'
<1>1. FeedUp /\ UNCHANGED <<server, page, requests>> /\ feed.open /\ feed.frames = <<>>
  BY DEF Poll
<1>2. feed.run \in Executions /\ feed \in FeedRows /\ feed.run # NoExecution
  BY <1>1, FeedIsUp DEF FeedUp
<1>3. feed.sent \in Nat /\ feed.sent <= server[feed.run].log /\ feed.sent = feed.cursor
  BY <1>1, <1>2 DEF ControlInv, FeedFits, FeedRows
<1>4. PICK f : f = EventsAfter(feed.run, feed.sent)
  OBVIOUS
<1>5. /\ f # <<>> /\ feed' = [feed EXCEPT !.frames = f, !.sent = f[Len(f)].n]
  BY <1>4 DEF Poll
<1>6. /\ f \in Seq(FrameRows)
      /\ \A i \in DOMAIN f :
            /\ ~f[i].end => f[i].n = feed.sent + i
            /\ f[i].end => i = Len(f) /\ f[i].n = feed.sent + i - 1 /\ f[i].n \in server[feed.run].ends
      /\ \A i \in DOMAIN f : f[i].n <= server[feed.run].log
  BY <1>2, <1>3, <1>4, EventsAfterIs DEF ControlInv
<1>7. Len(f) \in DOMAIN f /\ f[Len(f)].n \in Nat
  <2>1. Len(f) \in Nat /\ DOMAIN f = 1 .. Len(f) /\ Len(f) # 0
    BY <1>5, <1>6, SeqShape, SeqEmpty
  <2>2. Len(f) \in DOMAIN f
    BY <2>1
  <2>3. f[Len(f)] \in FrameRows
    BY <1>6, <2>2
  <2> QED
    BY <2>2, <2>3 DEF FrameRows
<1>8. feed' \in FeedRows
  BY <1>2, <1>5, <1>6, <1>7, Zenon DEF FeedRows, FrameRows
<1>9. /\ feed'.run = feed.run /\ feed'.cursor = feed.cursor /\ feed'.sent = f[Len(f)].n /\ feed'.frames = f
  BY <1>2, <1>5 DEF FeedRows
<1>10. FeedFits'
  BY <1>1, <1>2, <1>3, <1>5, <1>6, <1>7, <1>8, <1>9 DEF ControlInv, FeedFits, Followed
<1> QED
  BY <1>1, <1>10 DEF ControlInv, LogFits, PageFits, Blank, RequestsFit, RequestFits, StreamIsWhole

LEMMA RefreshedFits ==
    ASSUME ControlInv, NEW q \in requests, Refreshed(q)
    PROVE  ControlInv'
<1>1. UNCHANGED <<server, feed>> /\ requests' = requests \ {q} /\ RequestFits(q, page) /\ q \in RequestRows
  BY DEF Refreshed, ControlInv, RequestsFit, RequestFits
<1>2. CASE UNCHANGED page
  <2>1. RequestsFit(requests', page)
    BY <1>1, FewerRequestsFit DEF ControlInv
  <2>2. LogFits' /\ PageFits(page)' /\ FeedFits' /\ StreamIsWhole'
    BY <1>1, <1>2 DEF ControlInv, LogFits, PageFits, Blank, FeedFits, StreamIsWhole, Followed
  <2> QED
    BY <1>2, <2>1, <2>2 DEF ControlInv
<1>3. CASE /\ feed.refreshing /\ page.selectedId = q.run
           /\ page' = [page EXCEPT !.selected = [run |-> q.run, over |-> q.over]]
  <2>1. feed.run # NoExecution
    BY <1>3 DEF ControlInv, FeedFits, NoFeed
  <2>2. /\ page \in PageRows /\ feed.run = page.selected.run /\ page.selected.run = q.run
    BY <1>3, <2>1 DEF ControlInv, FeedFits, Followed, PageFits
  <2>3. [run |-> q.run, over |-> q.over] \in ShownDetails
    BY <1>1 DEF RequestRows, ShownDetails
  <2>4. page' \in PageRows
    BY <1>3, <2>2, <2>3 DEF PageRows
  <2>5. /\ page'.route = page.route /\ page'.selectedId = page.selectedId /\ page'.shown = page.shown
        /\ page'.inspected = page.inspected /\ page'.selected.run = page.selected.run /\ page'.state = page.state
    BY <1>3, <2>2 DEF PageRows
  <2>6. Blank(page') <=> Blank(page)
    BY <2>5 DEF Blank
  <2>7. PageFits(page)'
    BY <2>4, <2>5, <2>6 DEF ControlInv, PageFits, Blank
  <2>8. \A w \in requests : RequestFits(w, page')
    BY <2>5, <2>6 DEF ControlInv, RequestsFit, RequestFits
  <2>9. RequestsFit(requests, page)'
    BY <1>1, <2>5, <2>8 DEF ControlInv, RequestsFit
  <2>10. FeedFits'
    BY <1>1, <2>5 DEF ControlInv, FeedFits, Followed
  <2>11. LogFits' /\ StreamIsWhole'
    BY <1>1, <2>5 DEF ControlInv, LogFits, StreamIsWhole
  <2> QED
    BY <2>7, <2>9, <2>10, <2>11 DEF ControlInv
<1> QED
  BY <1>2, <1>3 DEF Refreshed

LEMMA BrokenFits ==
    ASSUME ControlInv, Disconnect \/ \E q \in requests : RefreshFails(q)
    PROVE  ControlInv'
<1>1. UNCHANGED server /\ requests' \subseteq requests
  BY DEF Disconnect, RefreshFails
<1>2. CASE Render([page EXCEPT !.state = "error"])
  <2>1. PICK p : p = [page EXCEPT !.state = "error"]
    BY Zenon
  <2>2. PageFits(p) /\ RequestsFit(requests, p) /\ p.shown = page.shown
    BY <2>1, RenderedPages, Zenon
  <2>3. RequestsFit(requests', p)
    BY <1>1, <2>2, FewerRequestsFit
  <2>4. LogFits' /\ PageFits(page)' /\ FeedFits' /\ StreamIsWhole'
    BY <1>1, <1>2, <2>1, <2>2, RenderFits, Zenon
  <2> QED
    BY <1>2, <2>1, <2>3, <2>4 DEF ControlInv, Render
<1>3. CASE UNCHANGED <<page, feed>>
  <2>1. RequestsFit(requests', page)
    BY <1>1, FewerRequestsFit DEF ControlInv
  <2>2. LogFits' /\ PageFits(page)' /\ FeedFits' /\ StreamIsWhole'
    BY <1>1, <1>3 DEF ControlInv, LogFits, PageFits, Blank, FeedFits, StreamIsWhole, Followed
  <2> QED
    BY <1>3, <2>1, <2>2 DEF ControlInv
<1>4. CASE FeedUp /\ UNCHANGED page /\ feed' = [feed EXCEPT !.open = FALSE, !.frames = <<>>, !.reconnects = @ + 1]
  <2>1. feed \in FeedRows /\ feed.run # NoExecution
    BY <1>4, FeedIsUp DEF FeedUp
  <2>2. <<>> \in Seq([n : Nat, end : BOOLEAN]) /\ feed.reconnects + 1 \in Nat
    BY <2>1 DEF FeedRows
  <2>3. feed' \in FeedRows
    BY <1>4, <2>1, <2>2, Zenon DEF FeedRows
  <2>4. /\ feed'.run = feed.run /\ feed'.cursor = feed.cursor /\ feed'.sent = feed.sent /\ feed'.frames = <<>>
        /\ ~feed'.open
    BY <1>4, <2>1 DEF FeedRows
  <2>5. FeedFits'
    BY <1>1, <1>4, <2>1, <2>3, <2>4 DEF ControlInv, FeedFits, Followed
  <2>6. RequestsFit(requests', page)
    BY <1>1, FewerRequestsFit DEF ControlInv
  <2>7. LogFits' /\ PageFits(page)' /\ StreamIsWhole'
    BY <1>1, <1>4 DEF ControlInv, LogFits, PageFits, Blank, StreamIsWhole
  <2> QED
    BY <1>4, <2>5, <2>6, <2>7 DEF ControlInv
<1> QED
  BY <1>2, <1>3, <1>4 DEF Disconnect, RefreshFails

LEMMA TakeFrameFits ==
    ASSUME ControlInv, TakeFrame
    PROVE  ControlInv'
<1>1. FeedUp /\ UNCHANGED server /\ feed.frames # <<>>
  BY DEF TakeFrame
<1>2. /\ feed.run \in Executions /\ feed.run \in OwnRuns /\ feed \in FeedRows /\ feed.run # NoExecution
      /\ feed.run = page.selectedId /\ feed.run = page.selected.run /\ page.state = "ready"
  BY <1>1, FeedIsUp DEF FeedUp
<1>3. PICK f : f = feed.frames[1]
  OBVIOUS
<1>4. PICK e : e = [run |-> feed.run, n |-> f.n, end |-> f.end]
  BY Zenon
<1>5. /\ page' = IF Visible(e) THEN page ELSE [page EXCEPT !.shown = Append(page.shown, e)]
      /\ feed' = [feed EXCEPT !.frames = Tail(feed.frames), !.cursor = f.n, !.refreshing = f.end]
      /\ requests' = IF f.end THEN requests \union {Request("watch", feed.run)} ELSE requests
  BY <1>3, <1>4 DEF TakeFrame
<1>6. feed.frames \in Seq(FrameRows) /\ feed.cursor \in Nat
  BY <1>2 DEF FeedRows, FrameRows
<1>7. /\ 1 \in DOMAIN feed.frames /\ Len(feed.frames) \in Nat /\ Len(feed.frames) >= 1
      /\ DOMAIN feed.frames = 1 .. Len(feed.frames)
  BY <1>1, <1>6, SeqShape, SeqEmpty
<1>8. f \in FrameRows
  BY <1>3, <1>6, <1>7
<1>m. PICK m \in Nat : m = Len(feed.frames)
  BY <1>7
<1>m1. m >= 1
  BY <1>7, <1>m
<1>9. f.n \in Nat /\ f.end \in BOOLEAN
  BY <1>8 DEF FrameRows
<1>10. /\ ~f.end => f.n = feed.cursor + 1
       /\ f.end => f.n = feed.cursor /\ m = 1 /\ f.n \in server[feed.run].ends
  <2>1. /\ ~f.end => f.n = feed.cursor + 1
        /\ f.end => m = 1 /\ f.n = feed.cursor + 1 - 1 /\ f.n \in server[feed.run].ends
    BY <1>3, <1>7, <1>m, Zenon DEF ControlInv, FeedFits
  <2> QED
    BY <1>6, <2>1
<1>11. f.n <= server[feed.run].log
  <2>1. PICK z : z = feed.frames[m]
    OBVIOUS
  <2>2. feed.sent = z.n /\ feed.sent <= server[feed.run].log
    BY <1>1, <1>2, <1>m, <2>1 DEF ControlInv, FeedFits
  <2>3. m \in DOMAIN feed.frames
    BY <1>7, <1>m
  <2>4. /\ ~z.end => z.n = feed.cursor + m
        /\ z.end => z.n = feed.cursor + m - 1
    BY <2>1, <2>3 DEF ControlInv, FeedFits
  <2>5. server[feed.run].log \in Nat
    BY <1>2 DEF ControlInv, LogFits, ServerRows
  <2>6. z.end /\ ~f.end => m # 1
    BY <1>3, <2>1
  <2>7. f.n <= z.n
    BY <1>6, <1>9, <1>10, <1>m1, <2>4, <2>6
  <2>8. z.n \in Nat
    BY <1>6, <1>m1, <2>4
  <2> QED
    BY <1>9, <2>2, <2>5, <2>7, <2>8
<1>12. e \in ShownRows /\ e.run = feed.run /\ e.n = f.n /\ e.end = f.end
  BY <1>2, <1>4, <1>9 DEF ShownRows, PageIds
<1>13. page \in PageRows /\ page.shown \in Seq(ShownRows)
  BY DEF ControlInv, PageFits, PageRows
<1>14. PICK s : s = IF Visible(e) THEN page.shown ELSE Append(page.shown, e)
  BY Zenon
<1>15. /\ s \in Seq(ShownRows) /\ DOMAIN page.shown \subseteq DOMAIN s /\ \A i \in DOMAIN page.shown : s[i] = page.shown[i]
       /\ \A i \in DOMAIN s : i \in DOMAIN page.shown \/ (i = Len(page.shown) + 1 /\ s[i] = e)
       /\ \E j \in DOMAIN s : s[j] = e
       /\ DOMAIN page.shown = 1 .. Len(page.shown) /\ Len(page.shown) \in Nat
  <2>1. CASE Visible(e)
    BY <1>13, <1>14, <2>1, SeqShape DEF Visible
  <2>2. CASE ~Visible(e)
    <3>1. s = Append(page.shown, e)
      BY <1>14, <2>2
    <3>2. /\ s \in Seq(ShownRows) /\ Len(s) = Len(page.shown) + 1 /\ s[Len(page.shown) + 1] = e
          /\ \A i \in 1 .. Len(page.shown) : s[i] = page.shown[i]
      BY <1>12, <1>13, <3>1, SeqAppend
    <3>3. DOMAIN s = 1 .. Len(s) /\ DOMAIN page.shown = 1 .. Len(page.shown) /\ Len(page.shown) \in Nat
      BY <1>13, <3>2, SeqShape
    <3> QED
      BY <3>2, <3>3
  <2> QED
    BY <2>1, <2>2
<1>16. /\ page' \in PageRows /\ page'.shown = s /\ page'.route = page.route /\ page'.selectedId = page.selectedId
       /\ page'.selected = page.selected /\ page'.inspected = page.inspected /\ page'.state = page.state
  <2>1. CASE Visible(e)
    BY <1>5, <1>13, <1>14, <2>1
  <2>2. CASE ~Visible(e)
    <3>1. page' = [page EXCEPT !.shown = s]
      BY <1>5, <1>14, <2>2
    <3> QED
      BY <1>13, <1>15, <3>1 DEF PageRows
  <2> QED
    BY <2>1, <2>2
<1>17. /\ feed' \in FeedRows /\ feed'.run = feed.run /\ feed'.cursor = f.n /\ feed'.sent = feed.sent
       /\ feed'.open = feed.open /\ feed'.frames = Tail(feed.frames)
  <2>1. Tail(feed.frames) \in Seq(FrameRows)
    BY <1>1, <1>6
  <2>2. feed' \in FeedRows
    BY <1>2, <1>5, <1>9, <2>1, Zenon DEF FeedRows, FrameRows
  <2> QED
    BY <1>2, <1>5, <2>2 DEF FeedRows
<1>18. PageFits(page)'
  <2>1. ~Blank(page)
    BY <1>2 DEF Blank
  <2>2. \A i \in DOMAIN s : s[i].run = page.selectedId
    BY <1>2, <1>12, <1>15 DEF ControlInv, PageFits
  <2> QED
    BY <1>16, <2>1, <2>2 DEF ControlInv, PageFits
<1>19. RequestsFit(requests, page)'
  <2>1. \A w \in requests : RequestFits(w, page')
    <3>1. ~Blank(page)
      BY <1>2 DEF Blank
    <3> QED
      BY <1>16, <3>1 DEF ControlInv, RequestsFit, RequestFits
  <2>2. RequestsFit(requests, page')
    BY <1>16, <2>1 DEF ControlInv, RequestsFit
  <2>3. CASE f.end
    <3>1. feed.run \in PageIds
      BY <1>2 DEF PageIds
    <3>2. RequestFits(Request("watch", feed.run), page')
      BY <1>2, <3>1, NewRequestRow DEF RequestFits, Beside
    <3>3. Request("watch", feed.run).kind = "watch"
      BY <3>1, NewRequestRow
    <3>4. RequestsFit(requests', page')
      BY <1>5, <2>2, <2>3, <3>2, <3>3, SentFits, Zenon DEF Loads, Beside
    <3> QED
      BY <3>4
  <2>4. CASE ~f.end
    BY <1>5, <2>2, <2>4
  <2> QED
    BY <2>3, <2>4
<1>20. StreamIsWhole'
  <2> SUFFICES ASSUME NEW i \in DOMAIN s
               PROVE  /\ \A n \in 1 .. s[i].n - 1 : \E j \in 1 .. i - 1 : s[j].n = n /\ ~s[j].end
                      /\ s[i].end => /\ s[i].n \in server[s[i].run].ends
                                     /\ s[i].n > 0 => \E j \in 1 .. i - 1 : s[j].n = s[i].n /\ ~s[j].end
    BY <1>1, <1>16 DEF StreamIsWhole
  <2>1. CASE i \in DOMAIN page.shown
    <3>1. /\ \A n \in 1 .. page.shown[i].n - 1 : \E j \in 1 .. i - 1 : page.shown[j].n = n /\ ~page.shown[j].end
          /\ page.shown[i].end =>
                /\ page.shown[i].n \in server[page.shown[i].run].ends
                /\ page.shown[i].n > 0 => \E j \in 1 .. i - 1 : page.shown[j].n = page.shown[i].n /\ ~page.shown[j].end
      BY <2>1 DEF ControlInv, StreamIsWhole
    <3>2. \A j \in 1 .. i - 1 : s[j] = page.shown[j]
      BY <1>15, <2>1
    <3>3. s[i] = page.shown[i]
      BY <1>15, <2>1
    <3> QED
      BY <3>1, <3>2, <3>3
  <2>2. CASE i = Len(page.shown) + 1 /\ s[i] = e
    <3>1. \A n \in 1 .. feed.cursor : \E j \in 1 .. i - 1 : s[j].n = n /\ ~s[j].end
      <4> SUFFICES ASSUME NEW n \in 1 .. feed.cursor PROVE \E j \in 1 .. i - 1 : s[j].n = n /\ ~s[j].end
        OBVIOUS
      <4>1. PICK j \in DOMAIN page.shown : page.shown[j].n = n /\ ~page.shown[j].end
        BY DEF ControlInv, FeedFits
      <4>2. j \in 1 .. i - 1 /\ s[j] = page.shown[j]
        BY <1>15, <2>2, <4>1
      <4> QED
        BY <4>1, <4>2
    <3>2. CASE f.end
      BY <1>6, <1>9, <1>10, <1>12, <2>2, <3>1, <3>2
    <3>3. CASE ~f.end
      BY <1>6, <1>9, <1>10, <1>12, <2>2, <3>1, <3>3
    <3> QED
      BY <3>2, <3>3
  <2> QED
    BY <1>15, <2>1, <2>2
<1>21. FeedFits'
  <2>1. ASSUME NEW n \in 1 .. f.n PROVE \E j \in DOMAIN s : s[j].n = n /\ ~s[j].end
    <3>1. CASE n \in 1 .. feed.cursor
      <4>1. PICK j \in DOMAIN page.shown : page.shown[j].n = n /\ ~page.shown[j].end
        BY <3>1 DEF ControlInv, FeedFits
      <4>2. j \in DOMAIN s /\ s[j] = page.shown[j]
        BY <1>15
      <4> QED
        BY <4>1, <4>2
    <3>2. CASE n \notin 1 .. feed.cursor
      <4>1. n = f.n /\ ~f.end
        BY <1>6, <1>9, <1>10, <2>1, <3>2
      <4> QED
        BY <1>12, <1>15, <4>1
    <3> QED
      BY <3>1, <3>2
  <2>2. PICK t : t = Tail(feed.frames)
    BY Zenon
  <2>3. /\ t \in Seq(FrameRows) /\ Len(t) = m - 1
        /\ \A i \in 1 .. m - 1 : t[i] = feed.frames[i + 1]
    BY <1>1, <1>6, <1>m, <2>2, SeqTail
  <2>4. DOMAIN t = 1 .. m - 1 /\ (t = <<>> <=> m = 1)
    <3>1. DOMAIN t = 1 .. Len(t) /\ (t # <<>> => Len(t) # 0) /\ Len(<<>>) = 0
      BY <2>3, SeqShape, SeqEmpty
    <3>2. Len(t) = m - 1
      BY <2>3
    <3> QED
      BY <1>m1, <3>1, <3>2
  <2>5. m = 1 => feed.sent = f.n
    BY <1>1, <1>3, <1>m DEF ControlInv, FeedFits
  <2>6. ASSUME NEW i \in DOMAIN t
        PROVE  /\ ~t[i].end => t[i].n = f.n + i
               /\ t[i].end => i = Len(t) /\ t[i].n = f.n + i - 1 /\ t[i].n \in server[feed.run].ends
    <3>1. i \in Nat /\ i + 1 \in 1 .. m /\ t[i] = feed.frames[i + 1] /\ m # 1
      BY <2>3, <2>4
    <3>2. i + 1 \in DOMAIN feed.frames
      BY <1>7, <1>m, <3>1
    <3>3. /\ ~t[i].end => t[i].n = feed.cursor + (i + 1)
          /\ t[i].end => /\ i + 1 = m /\ t[i].n = feed.cursor + (i + 1) - 1
                         /\ t[i].n \in server[feed.run].ends
      BY <1>m, <3>1, <3>2 DEF ControlInv, FeedFits
    <3>4. f.n = feed.cursor + 1
      BY <1>9, <1>10, <3>1
    <3>5. Len(t) = m - 1
      BY <2>3
    <3> QED
      <4>1. PICK y : y = t[i]
        OBVIOUS
      <4>2. ~y.end => y.n = f.n + i
        BY <1>6, <3>1, <3>3, <3>4, <4>1
      <4>3. y.end => y.n = f.n + i - 1 /\ y.n \in server[feed.run].ends /\ i + 1 = m
        <5>1. y.end => y.n = feed.cursor + (i + 1) - 1
          BY <3>3, <4>1, ZenonT(40)
        <5>2. y.end => y.n \in server[feed.run].ends /\ i + 1 = m
          BY <3>3, <4>1, ZenonT(40)
        <5>3. feed.cursor + (i + 1) - 1 = f.n + i - 1
          <6>1. PICK c \in Nat : c = feed.cursor
            BY <1>6
          <6>2. PICK k : k = f.n
            OBVIOUS
          <6>3. k = c + 1
            BY <3>4, <6>1, <6>2
          <6>4. c + (i + 1) - 1 = k + i - 1
            BY <3>1, <6>3
          <6> QED
            BY <6>1, <6>2, <6>4
        <5> QED
          BY <5>1, <5>2, <5>3, Zenon
      <4>4. i + 1 = m => i = Len(t)
        BY <1>m1, <3>1, <3>5
      <4> QED
        BY <4>1, <4>2, <4>3, <4>4
  <2>7. t # <<>> => feed.sent = t[Len(t)].n
    <3>1. ASSUME m # 1 PROVE t[m - 1] = feed.frames[m]
      <4>1. m - 1 \in 1 .. m - 1 /\ (m - 1) + 1 = m
        BY <1>m1, <3>1
      <4> QED
        BY <2>3, <4>1
    <3>2. feed.sent = feed.frames[m].n
      BY <1>1, <1>m DEF ControlInv, FeedFits
    <3> QED
      BY <2>3, <2>4, <3>1, <3>2
  <2>8. feed'.run = Followed(page)' /\ feed'.run # NoExecution
    BY <1>2, <1>16, <1>17 DEF Followed
  <2>9. feed'.frames = t /\ feed'.cursor = f.n /\ feed'.sent = feed.sent /\ feed'.run = feed.run /\ feed' \in FeedRows
    BY <1>17, <2>2
  <2>10. feed.sent <= server[feed.run].log
    BY <1>2 DEF ControlInv, FeedFits
  <2> QED
    BY <1>1, <1>11, <1>16, <2>1, <2>4, <2>5, <2>6, <2>7, <2>8, <2>9, <2>10 DEF FeedFits
<1>22. LogFits'
  BY <1>1 DEF ControlInv, LogFits
<1> QED
  BY <1>18, <1>19, <1>20, <1>21, <1>22 DEF ControlInv

LEMMA ControlStarts == ControlInit => ControlInv
<1> SUFFICES ASSUME ControlInit PROVE ControlInv
  OBVIOUS
<1> USE ControlAssumption
<1>1. PICK route \in FirstRuns \union {NoExecution} :
        /\ page = [route |-> route, selectedId |-> route,
                   selected |-> NoDetail, state |-> "loading", shown |-> <<>>, inspected |-> NoExecution,
                   busy |-> FALSE]
        /\ requests = {Request("list", route)}
  BY Zenon DEF ControlInit
<1>2. route \in PageIds /\ NoExecution \in PageIds /\ NoDetail \in ShownDetails /\ <<>> \in Seq(ShownRows)
  BY DEF PageIds, NoDetail, ShownDetails
<1>3. page \in PageRows
  BY <1>1, <1>2 DEF PageRows
<1>4. Blank(page) /\ page.route = route /\ page.selectedId = route /\ page.state = "loading"
  BY <1>1 DEF Blank, NoDetail
<1>5. PageFits(page)
  BY <1>3, <1>4 DEF PageFits, Blank
<1>6. RequestsFit(requests, page)
  <2>1. RequestFits(Request("list", route), page)
    BY <1>2, <1>4, NewRequestRow DEF RequestFits, Beside
  <2>2. Request("list", route).kind = "list"
    BY <1>2, NewRequestRow
  <2> QED
    BY <1>1, <2>1, <2>2 DEF RequestsFit, Beside
<1>7. LogFits
  <2>1. \A x \in Executions : x \in FirstRuns \/ x \notin FirstRuns
    OBVIOUS
  <2>2. server = [x \in Executions |-> [born |-> x \in FirstRuns, log |-> 0, over |-> FALSE, ends |-> {}]]
    BY DEF ControlInit
  <2>3. \A x \in Executions : (x \in FirstRuns) \in BOOLEAN
    OBVIOUS
  <2>4. \A x \in Executions : [born |-> x \in FirstRuns, log |-> 0, over |-> FALSE, ends |-> {}] \in ServerRows
    BY <2>3 DEF ServerRows
  <2>5. \A x \in Executions : ~server[x].over
    BY <2>2
  <2> QED
    BY <2>2, <2>4, <2>5 DEF LogFits
<1>8. FeedFits
  <2>1. feed = NoFeed /\ Followed(page) = NoExecution
    BY <1>4 DEF ControlInit, Followed
  <2>2. NoFeed \in FeedRows
    <3>1. <<>> \in Seq([n : Nat, end : BOOLEAN])
      OBVIOUS
    <3> QED
      BY <1>2, <3>1 DEF NoFeed, FeedRows
  <2>3. feed.cursor = 0 /\ feed.frames = <<>> /\ ~feed.open /\ feed.run = NoExecution
    BY <2>1 DEF NoFeed
  <2> QED
    BY <2>1, <2>2, <2>3 DEF FeedFits
<1>9. StreamIsWhole
  BY <1>4 DEF StreamIsWhole, Blank
<1> QED
  BY <1>5, <1>6, <1>7, <1>8, <1>9 DEF ControlInv

LEMMA ControlStep == ControlInv /\ [ControlNext]_controlVars => ControlInv'
<1> SUFFICES ASSUME ControlInv, [ControlNext]_controlVars PROVE ControlInv'
  OBVIOUS
<1>1. CASE UNCHANGED controlVars
  BY <1>1 DEF controlVars, ControlInv, LogFits, PageFits, Blank, RequestsFit, RequestFits, FeedFits, Followed, StreamIsWhole
<1>2. CASE \E x \in OwnRuns : AppendEvent(x) \/ RunEnds(x) \/ Choose(x)
  BY <1>2, LogGrows, ChooseFits
<1>3. CASE \E x \in Executions \union {NoExecution} : Navigate(x)
  BY <1>3, NavigateFits DEF PageIds
<1>4. CASE \E q \in requests : Serve(q) \/ Arrives(q) \/ Refreshed(q) \/ RefreshFails(q)
  <2>1. PICK q \in requests : Serve(q) \/ Arrives(q) \/ Refreshed(q) \/ RefreshFails(q)
    BY <1>4
  <2>2. CASE Arrives(q)
    BY <2>2, ListedFits, LoadedFits, ChosenFits, ActedFits, InspectedFits, FailedFits DEF Arrives
  <2> QED
    BY <2>1, <2>2, ServeFits, RefreshedFits, BrokenFits
<1>5. CASE CancelRun \/ ResumeRun
  <2>1. page.selected.run \in PageIds
    BY DEF ControlInv, PageFits, PageRows, ShownDetails
  <2> QED
    BY <1>5, <2>1, ActFits DEF CancelRun, ResumeRun
<1>6. CASE LaunchExecution \/ CreateOfflineDemo
  BY <1>6, ActFits DEF LaunchExecution, CreateOfflineDemo, PageIds
<1>7. CASE Reload \/ Inspect \/ Connect \/ Poll \/ TakeFrame \/ Disconnect
  BY <1>7, ReloadFits, InspectFits, ConnectFits, PollFits, TakeFrameFits, BrokenFits
<1> QED
  BY <1>1, <1>2, <1>3, <1>4, <1>5, <1>6, <1>7 DEF ControlNext

LEMMA ControlPart == Spec => ControlSpec
<1>1. Init => ControlInit
  BY DEF Init
<1>2. [Next]_vars => [ControlNext]_controlVars
  BY DEF Next, Rest, vars
<1> QED
  BY <1>1, <1>2, PTL DEF Spec, ControlSpec

\* The page shows the execution it has selected and nothing of another, and the
\* log it shows is whole and in order with an end marker only after everything
\* recorded by then, for any number of concurrent requests answered in any
\* order, reconnections, reloads and route changes (useExecutionControl, client).
THEOREM PageStaysTrue == Spec => []PageIsTrue
<1>1. ControlInv => PageIsTrue
  <2> SUFFICES ASSUME ControlInv PROVE ShownIsSelected
    BY DEF PageIsTrue, ControlInv
  <2>1. feed.run \in {page.selected.run, NoExecution}
    BY DEF ControlInv, FeedFits, Followed
  <2> QED
    BY <2>1 DEF ControlInv, PageFits, ShownIsSelected
<1> QED
  BY <1>1, ControlStarts, ControlStep, ControlPart, PTL DEF ControlSpec

-----------------------------------------------------------------------------
(***************************************************************************)
(* Trace Lab.  The two tables of align_traces are recursive functions on a *)
(* grid, so they first have to be shown to exist; the best score of a cell *)
(* then bounds every pairing of its prefixes, by induction on the number   *)
(* of events in them, and the rows traced back from it attain it.          *)
(***************************************************************************)
Grid(m, n) == (0 .. m) \X (0 .. n)

\* A value at every cell of a grid, each from the cells above, before and
\* diagonally before it; z stands for a neighbour outside the grid.
FromNeighbours(g, st, z, i, j) ==
  st[<<i, j, IF i > 0 THEN g[<<i - 1, j>>] ELSE z, IF j > 0 THEN g[<<i, j - 1>>] ELSE z,
       IF i > 0 /\ j > 0 THEN g[<<i - 1, j - 1>>] ELSE z>>]

StaysIn(st, m, n, V) ==
  \A i \in 0 .. m, j \in 0 .. n : \A a, b, c \in V : st[<<i, j, a, b, c>>] \in V

Fills(g, st, z, m, n, V) ==
  /\ g \in [Grid(m, n) -> V]
  /\ \A i \in 0 .. m, j \in 0 .. n : g[<<i, j>>] = FromNeighbours(g, st, z, i, j)

LEMMA GridExists ==
  ASSUME NEW m \in Nat, NEW n \in Nat, NEW V, NEW z \in V, NEW st, StaysIn(st, m, n, V)
  PROVE  \E g : Fills(g, st, z, m, n, V)
<1> DEFINE Upto(N, g) == /\ g \in [Grid(m, n) -> V]
                         /\ \A i \in 0 .. m, j \in 0 .. n :
                               i + j < N => g[<<i, j>>] = FromNeighbours(g, st, z, i, j)
           S == {N \in Nat : \E g : Upto(N, g)}
<1>0. ASSUME NEW g \in [Grid(m, n) -> V], NEW i \in 0 .. m, NEW j \in 0 .. n
      PROVE  /\ g[<<i, j>>] \in V
             /\ i > 0 => i - 1 \in 0 .. m /\ g[<<i - 1, j>>] \in V
             /\ j > 0 => j - 1 \in 0 .. n /\ g[<<i, j - 1>>] \in V
             /\ i > 0 /\ j > 0 => g[<<i - 1, j - 1>>] \in V
  <2>1. i > 0 => i - 1 \in 0 .. m
    OBVIOUS
  <2>2. j > 0 => j - 1 \in 0 .. n
    OBVIOUS
  <2>3. \A a \in 0 .. m, b \in 0 .. n : g[<<a, b>>] \in V
    BY DEF Grid
  <2> QED
    BY <2>1, <2>2, <2>3
<1>1. ASSUME NEW g \in [Grid(m, n) -> V], NEW i \in 0 .. m, NEW j \in 0 .. n
      PROVE  FromNeighbours(g, st, z, i, j) \in V
  <2>1. PICK a \in V : a = IF i > 0 THEN g[<<i - 1, j>>] ELSE z
    BY <1>0, Zenon
  <2>2. PICK b \in V : b = IF j > 0 THEN g[<<i, j - 1>>] ELSE z
    BY <1>0, Zenon
  <2>3. PICK c \in V : c = IF i > 0 /\ j > 0 THEN g[<<i - 1, j - 1>>] ELSE z
    BY <1>0, Zenon
  <2>4. FromNeighbours(g, st, z, i, j) = st[<<i, j, a, b, c>>]
    BY <2>1, <2>2, <2>3, Zenon DEF FromNeighbours
  <2> QED
    BY <2>4 DEF StaysIn
<1>2. 0 \in S
  <2>1. PICK g : g = [p \in Grid(m, n) |-> z]
    BY Zenon
  <2>2. Upto(0, g)
    BY <2>1
  <2> QED
    BY <2>2
<1>3. ASSUME NEW N \in S PROVE N + 1 \in S
  <2>1. PICK g : Upto(N, g)
    OBVIOUS
  <2>2. PICK h : h = [p \in Grid(m, n) |-> FromNeighbours(g, st, z, p[1], p[2])]
    BY Zenon
  <2>3. \A i \in 0 .. m, j \in 0 .. n : h[<<i, j>>] = FromNeighbours(g, st, z, i, j)
    BY <2>2, Zenon DEF Grid
  <2>4. h \in [Grid(m, n) -> V]
    <3>1. \A p \in Grid(m, n) : p[1] \in 0 .. m /\ p[2] \in 0 .. n
      BY DEF Grid
    <3> QED
      BY <2>1, <2>2, <3>1, <1>1
  <2>5. \A i \in 0 .. m, j \in 0 .. n : i + j < N => h[<<i, j>>] = g[<<i, j>>]
    BY <2>1, <2>3
  <2>6. ASSUME NEW i \in 0 .. m, NEW j \in 0 .. n, i + j < N + 1
        PROVE  h[<<i, j>>] = FromNeighbours(h, st, z, i, j)
    <3>0. N \in Nat
      OBVIOUS
    <3>1. i > 0 => h[<<i - 1, j>>] = g[<<i - 1, j>>]
      <4>1. i > 0 => i - 1 \in 0 .. m /\ (i - 1) + j < N
        BY <2>6, <3>0
      <4> QED
        BY <4>1, <2>5
    <3>2. j > 0 => h[<<i, j - 1>>] = g[<<i, j - 1>>]
      <4>1. j > 0 => j - 1 \in 0 .. n /\ i + (j - 1) < N
        BY <2>6, <3>0
      <4> QED
        BY <4>1, <2>5
    <3>3. i > 0 /\ j > 0 => h[<<i - 1, j - 1>>] = g[<<i - 1, j - 1>>]
      <4>1. i > 0 /\ j > 0 => i - 1 \in 0 .. m /\ j - 1 \in 0 .. n /\ (i - 1) + (j - 1) < N
        BY <2>6, <3>0
      <4> QED
        BY <4>1, <2>5
    <3>4. FromNeighbours(h, st, z, i, j) = FromNeighbours(g, st, z, i, j)
      BY <3>1, <3>2, <3>3, Zenon DEF FromNeighbours
    <3> QED
      BY <3>4, <2>3
  <2>7. Upto(N + 1, h)
    BY <2>4, <2>6
  <2> QED
    BY <2>7
<1>4. S = Nat
  <2>1. S \in SUBSET Nat
    OBVIOUS
  <2> HIDE DEF S
  <2> QED
    BY <1>2, <1>3, <2>1, SetInduction
<1>5. m + n + 1 \in S
  <2> HIDE DEF S
  <2> QED
    BY <1>4
<1>6. PICK g : Upto(m + n + 1, g)
  BY <1>5
<1> QED
  BY <1>6 DEF Fills

\* The largest and the least of some numbers.
LEMMA MaxIsMember ==
  ASSUME NEW S \in SUBSET Int, IsFiniteSet(S), S # {}
  PROVE  Max(S) \in S /\ \A x \in S : x <= Max(S)
<1>1. PICK n \in S : \A m \in S : m <= n
  BY GreatestNumber
<1>2. \E n1 \in S : \A m \in S : n1 >= m
  <2>1. \A m \in S : n >= m
    BY <1>1
  <2> QED
    BY <2>1
<1>3. PICK x : x = Max(S)
  OBVIOUS
<1>4. x \in S /\ \A m \in S : x >= m
  BY <1>2, <1>3, Zenon DEF Max
<1> QED
  BY <1>3, <1>4

LEMMA MinIsMember ==
  ASSUME NEW S \in SUBSET Nat, S # {}
  PROVE  Min(S) \in S /\ \A x \in S : Min(S) <= x
<1>1. PICK n \in S : \A m \in S : n <= m
  BY LeastNumber
<1> QED
  BY <1>1, Zenon DEF Min

\* The body of align_traces' table, as a property of the table.
IsTable(left, right, cell) ==
  cell = [p \in (0 .. Len(left)) \X (0 .. Len(right)) |->
            LET i == p[1]
                j == p[2]
                up       == IF i > 0 THEN {cell[<<i - 1, j>>] + GapScore} ELSE {}
                across   == IF j > 0 THEN {cell[<<i, j - 1>>] + GapScore} ELSE {}
                diagonal == IF i > 0 /\ j > 0 /\ left[i].anchor = right[j].anchor
                            THEN {cell[<<i - 1, j - 1>>] + DiagonalScore(left[i], right[j])} ELSE {}
            IN  IF i = 0 /\ j = 0 THEN 0 ELSE Max(up \union across \union diagonal)]

Same(left, right, i, j) == i > 0 /\ j > 0 /\ left[i].anchor = right[j].anchor

\* A cell holds the best of its three candidates.
BestCells(T, left, right) ==
  /\ T \in [Grid(Len(left), Len(right)) -> Int]
  /\ T[<<0, 0>>] = 0
  /\ \A i \in 0 .. Len(left), j \in 0 .. Len(right) :
        /\ i > 0 => T[<<i, j>>] >= T[<<i - 1, j>>] - 2
        /\ j > 0 => T[<<i, j>>] >= T[<<i, j - 1>>] - 2
        /\ Same(left, right, i, j) =>
              T[<<i, j>>] >= T[<<i - 1, j - 1>>] + DiagonalScore(left[i], right[j])
        /\ i + j > 0 =>
              \/ i > 0 /\ T[<<i, j>>] = T[<<i - 1, j>>] - 2
              \/ j > 0 /\ T[<<i, j>>] = T[<<i, j - 1>>] - 2
              \/ /\ Same(left, right, i, j)
                 /\ T[<<i, j>>] = T[<<i - 1, j - 1>>] + DiagonalScore(left[i], right[j])

\* The candidates of a cell, from the scores of its neighbours.
CellCandidates(i, j, same, d, a, b, c) ==
  (IF i > 0 THEN {a - 2} ELSE {}) \union (IF j > 0 THEN {b - 2} ELSE {})
    \union (IF i > 0 /\ j > 0 /\ same THEN {c + d} ELSE {})

IsBest(x, i, j, same, d, a, b, c) ==
  /\ x \in Int
  /\ i > 0 => x >= a - 2
  /\ j > 0 => x >= b - 2
  /\ i > 0 /\ j > 0 /\ same => x >= c + d
  /\ \/ i > 0 /\ x = a - 2
     \/ j > 0 /\ x = b - 2
     \/ i > 0 /\ j > 0 /\ same /\ x = c + d

LEMMA CandidatesHaveMax ==
  ASSUME NEW i \in Nat, NEW j \in Nat, i + j > 0, NEW same \in BOOLEAN, NEW d \in Int,
         NEW a \in Int, NEW b \in Int, NEW c \in Int
  PROVE  IsBest(Max(CellCandidates(i, j, same, d, a, b, c)), i, j, same, d, a, b, c)
<1> DEFINE C == CellCandidates(i, j, same, d, a, b, c)
<1>1. C \in SUBSET Int
  BY DEF CellCandidates
<1>2. C # {}
  BY DEF CellCandidates
<1>3. IsFiniteSet(C)
  <2>1. C \subseteq {a - 2, b - 2, c + d}
    BY DEF CellCandidates
  <2>2. IsFiniteSet({a - 2, b - 2, c + d})
    <3>1. IsFiniteSet({}) 
      BY FS_EmptySet
    <3>2. \A S, e : IsFiniteSet(S) => IsFiniteSet(S \union {e})
      BY FS_AddElement
    <3>3. IsFiniteSet((({} \union {a - 2}) \union {b - 2}) \union {c + d})
      BY <3>1, <3>2, Zenon
    <3>4. (({} \union {a - 2}) \union {b - 2}) \union {c + d} = {a - 2, b - 2, c + d}
      OBVIOUS
    <3> QED
      BY <3>3, <3>4, Zenon
  <2> QED
    BY <2>1, <2>2, FS_Subset
<1> HIDE DEF C
<1>4. PICK x : x = Max(C)
  OBVIOUS
<1>5. x \in C /\ \A y \in C : y <= x
  BY <1>1, <1>2, <1>3, <1>4, MaxIsMember, Zenon
<1>6. IsBest(x, i, j, same, d, a, b, c)
  BY <1>1, <1>5 DEF C, CellCandidates, IsBest
<1> QED
  BY <1>4, <1>6, Zenon DEF C

LEMMA TableIsBest ==
  ASSUME NEW E, NEW left \in Seq(E), NEW right \in Seq(E)
  PROVE  BestCells(ScoreTable(left, right), left, right)
<1>0. PICK m \in Nat, n \in Nat : m = Len(left) /\ n = Len(right)
  OBVIOUS
<1>1. \A x, y : DiagonalScore(x, y) \in Int
  BY DEF DiagonalScore
<1> DEFINE Cell(i, j, a, b, c) ==
             IF i = 0 /\ j = 0 THEN 0
             ELSE Max(CellCandidates(i, j, left[i].anchor = right[j].anchor,
                                 DiagonalScore(left[i], right[j]), a, b, c))
<1>2. PICK st : st = [q \in (0 .. m) \X (0 .. n) \X Int \X Int \X Int |->
                        Cell(q[1], q[2], q[3], q[4], q[5])]
  BY Zenon
<1>3. ASSUME NEW i \in 0 .. m, NEW j \in 0 .. n, NEW a \in Int, NEW b \in Int, NEW c \in Int
      PROVE  st[<<i, j, a, b, c>>] = Cell(i, j, a, b, c) /\ Cell(i, j, a, b, c) \in Int
  <2>1. st[<<i, j, a, b, c>>] = Cell(i, j, a, b, c)
    <3> HIDE DEF Cell
    <3> QED
      BY <1>2
  <2>2. CASE i = 0 /\ j = 0
    BY <2>1, <2>2
  <2>3. CASE i + j > 0
    <3>0. PICK same \in BOOLEAN, d \in Int : same = (left[i].anchor = right[j].anchor) /\ d = DiagonalScore(left[i], right[j])
      BY <1>1, Zenon
    <3>1. PICK x : x = Max(CellCandidates(i, j, same, d, a, b, c))
      OBVIOUS
    <3>2. x \in Int
      <4>1. i \in Nat /\ j \in Nat /\ i + j > 0
        BY <2>3
      <4>2. IsBest(Max(CellCandidates(i, j, same, d, a, b, c)), i, j, same, d, a, b, c)
        BY <4>1, CandidatesHaveMax
      <4> QED
        BY <4>2, <3>1, Zenon DEF IsBest
    <3>3. Cell(i, j, a, b, c) = x
      BY <2>3, <3>0, <3>1
    <3> QED
      BY <2>1, <3>2, <3>3, Zenon
  <2> QED
    BY <2>2, <2>3
<1> HIDE DEF Cell
<1>4. PICK g \in [Grid(m, n) -> Int] :
         \A i \in 0 .. m, j \in 0 .. n : g[<<i, j>>] = FromNeighbours(g, st, 0, i, j)
  <2>1. StaysIn(st, m, n, Int)
    <3> SUFFICES ASSUME NEW i \in 0 .. m, NEW j \in 0 .. n, NEW a \in Int, NEW b \in Int, NEW c \in Int
                 PROVE  st[<<i, j, a, b, c>>] \in Int
      BY Zenon DEF StaysIn
    <3>1. st[<<i, j, a, b, c>>] = Cell(i, j, a, b, c) /\ Cell(i, j, a, b, c) \in Int
      BY <1>3
    <3> QED
      BY <3>1
  <2>2. PICK z \in Int : z = 0
    OBVIOUS
  <2>3. \E g : Fills(g, st, z, m, n, Int)
    BY <2>1, GridExists, Zenon
  <2> QED
    BY <2>2, <2>3 DEF Fills
<1>6. IsTable(left, right, g)
  <2>1. ASSUME NEW p \in Grid(m, n)
        PROVE  g[p] =
            LET i == p[1]
                j == p[2]
                up       == IF i > 0 THEN {g[<<i - 1, j>>] + GapScore} ELSE {}
                across   == IF j > 0 THEN {g[<<i, j - 1>>] + GapScore} ELSE {}
                diagonal == IF i > 0 /\ j > 0 /\ left[i].anchor = right[j].anchor
                            THEN {g[<<i - 1, j - 1>>] + DiagonalScore(left[i], right[j])} ELSE {}
            IN  IF i = 0 /\ j = 0 THEN 0 ELSE Max(up \union across \union diagonal)
    <3>1. PICK i \in 0 .. m, j \in 0 .. n : p = <<i, j>>
      BY DEF Grid
    <3>2. /\ i > 0 => g[<<i - 1, j>>] \in Int
          /\ j > 0 => g[<<i, j - 1>>] \in Int
          /\ i > 0 /\ j > 0 => g[<<i - 1, j - 1>>] \in Int
      <4>1. i > 0 => i - 1 \in 0 .. m
        OBVIOUS
      <4>2. j > 0 => j - 1 \in 0 .. n
        OBVIOUS
      <4>3. \A a \in 0 .. m, b \in 0 .. n : g[<<a, b>>] \in Int
        BY DEF Grid
      <4> QED
        BY <4>1, <4>2, <4>3
    <3>3. PICK a \in Int, b \in Int, c \in Int :
             /\ a = IF i > 0 THEN g[<<i - 1, j>>] ELSE 0
             /\ b = IF j > 0 THEN g[<<i, j - 1>>] ELSE 0
             /\ c = IF i > 0 /\ j > 0 THEN g[<<i - 1, j - 1>>] ELSE 0
      BY <3>2
    <3>4. g[p] = Cell(i, j, a, b, c)
      <4>1. g[p] = st[<<i, j, a, b, c>>]
        BY <3>1, <3>3, <1>4, Zenon DEF FromNeighbours
      <4> QED
        BY <4>1, <1>3
    <3>5. i > 0 => a - 2 = g[<<i - 1, j>>] + GapScore
      BY <3>2, <3>3, Zenon DEF GapScore
    <3>6. j > 0 => b - 2 = g[<<i, j - 1>>] + GapScore
      BY <3>2, <3>3 DEF GapScore
    <3>7. i > 0 /\ j > 0 => c = g[<<i - 1, j - 1>>]
      BY <3>2, <3>3
    <3>8. p[1] = i /\ p[2] = j
      BY <3>1
    <3> QED
      BY <3>4, <3>5, <3>6, <3>7, <3>8, Zenon DEF Cell, CellCandidates
  <2>2. Grid(m, n) = (0 .. Len(left)) \X (0 .. Len(right))
    BY <1>0 DEF Grid
  <2>3. g = [p \in Grid(m, n) |-> g[p]]
    OBVIOUS
  <2> QED
    BY <2>1, <2>2, <2>3, Zenon DEF IsTable
<1>7. PICK T : T = ScoreTable(left, right)
  OBVIOUS
<1>8. IsTable(left, right, T)
  <2>1. T = CHOOSE cell : IsTable(left, right, cell)
    BY <1>7 DEF ScoreTable, IsTable
  <2> QED
    BY <2>1, <1>6, Zenon
<1>9. T = [p \in Grid(m, n) |-> T[p]]
  BY <1>8, <1>0 DEF IsTable, Grid
<1>10. ASSUME NEW i \in 0 .. m, NEW j \in 0 .. n,
              NEW a \in Int, NEW b \in Int, NEW c \in Int,
              i > 0 => a = T[<<i - 1, j>>], j > 0 => b = T[<<i, j - 1>>],
              i > 0 /\ j > 0 => c = T[<<i - 1, j - 1>>]
       PROVE  T[<<i, j>>] = Cell(i, j, a, b, c)
  <2>1. PICK p : p = <<i, j>>
    BY Zenon
  <2>2. p \in (0 .. Len(left)) \X (0 .. Len(right)) /\ p[1] = i /\ p[2] = j
    BY <2>1, <1>0
  <2>3. T[p] =
            LET up       == IF i > 0 THEN {T[<<i - 1, j>>] + GapScore} ELSE {}
                across   == IF j > 0 THEN {T[<<i, j - 1>>] + GapScore} ELSE {}
                diagonal == IF i > 0 /\ j > 0 /\ left[i].anchor = right[j].anchor
                            THEN {T[<<i - 1, j - 1>>] + DiagonalScore(left[i], right[j])} ELSE {}
            IN  IF i = 0 /\ j = 0 THEN 0 ELSE Max(up \union across \union diagonal)
    BY <2>2, <1>8, Zenon DEF IsTable
  <2>5. i > 0 => a - 2 = T[<<i - 1, j>>] + GapScore
    BY <1>10 DEF GapScore
  <2>6. j > 0 => b - 2 = T[<<i, j - 1>>] + GapScore
    BY <1>10 DEF GapScore
  <2> QED
    BY <2>1, <2>3, <2>5, <2>6, <1>10, Zenon DEF Cell, CellCandidates
<1> DEFINE S == {N \in Nat : \A i \in 0 .. m, j \in 0 .. n : i + j <= N => T[<<i, j>>] \in Int}
<1>11. 0 \in S
  <2>1. T[<<0, 0>>] = Cell(0, 0, 0, 0, 0)
    <3>1. 0 \in 0 .. m /\ 0 \in 0 .. n /\ 0 \in Int /\ ~ (0 > 0)
      OBVIOUS
    <3> QED
      BY <1>10, <3>1, Zenon
  <2>2. T[<<0, 0>>] \in Int
    BY <2>1 DEF Cell
  <2>3. \A i \in 0 .. m, j \in 0 .. n : i + j <= 0 => i = 0 /\ j = 0
    OBVIOUS
  <2> QED
    BY <2>2, <2>3, Zenon
<1>12. ASSUME NEW N \in S PROVE N + 1 \in S
  <2>0. N \in Nat /\ N + 1 \in Nat
    OBVIOUS
  <2> SUFFICES ASSUME NEW i \in 0 .. m, NEW j \in 0 .. n, i + j <= N + 1
               PROVE  T[<<i, j>>] \in Int
    BY <2>0
  <2>1. \A k \in 0 .. m, l \in 0 .. n : k + l <= N => T[<<k, l>>] \in Int
    OBVIOUS
  <2>2. i > 0 => T[<<i - 1, j>>] \in Int
    <3>1. i > 0 => i - 1 \in 0 .. m /\ (i - 1) + j <= N
      BY <2>0
    <3> QED
      BY <3>1, <2>1
  <2>3. j > 0 => T[<<i, j - 1>>] \in Int
    <3>1. j > 0 => j - 1 \in 0 .. n /\ i + (j - 1) <= N
      BY <2>0
    <3> QED
      BY <3>1, <2>1
  <2>4. i > 0 /\ j > 0 => T[<<i - 1, j - 1>>] \in Int
    <3>1. i > 0 /\ j > 0 => i - 1 \in 0 .. m /\ j - 1 \in 0 .. n /\ (i - 1) + (j - 1) <= N
      BY <2>0
    <3> QED
      BY <3>1, <2>1
  <2>5. PICK a \in Int, b \in Int, c \in Int :
           /\ a = IF i > 0 THEN T[<<i - 1, j>>] ELSE 0
           /\ b = IF j > 0 THEN T[<<i, j - 1>>] ELSE 0
           /\ c = IF i > 0 /\ j > 0 THEN T[<<i - 1, j - 1>>] ELSE 0
    BY <2>2, <2>3, <2>4
  <2>6. T[<<i, j>>] = Cell(i, j, a, b, c)
    <3>1. /\ i > 0 => a = T[<<i - 1, j>>]
          /\ j > 0 => b = T[<<i, j - 1>>]
          /\ i > 0 /\ j > 0 => c = T[<<i - 1, j - 1>>]
      BY <2>5, Zenon
    <3> QED
      BY <3>1, <1>10, Zenon
  <2>7. Cell(i, j, a, b, c) \in Int
    BY <1>3, Zenon
  <2> QED
    BY <2>6, <2>7
<1>13. S = Nat
  <2>1. S \in SUBSET Nat
    OBVIOUS
  <2> HIDE DEF S
  <2> QED
    BY <1>11, <1>12, <2>1, SetInduction, Zenon
<1>14. \A i \in 0 .. m, j \in 0 .. n : T[<<i, j>>] \in Int
  <2> SUFFICES ASSUME NEW i \in 0 .. m, NEW j \in 0 .. n PROVE T[<<i, j>>] \in Int
    BY Zenon
  <2>1. m + n \in S
    <3> HIDE DEF S
    <3> QED
      BY <1>13
  <2>2. i + j <= m + n
    OBVIOUS
  <2> QED
    BY <2>1, <2>2
<1> HIDE DEF S
<1>15. T \in [Grid(m, n) -> Int]
  <2>1. \A p \in Grid(m, n) : T[p] \in Int
    BY <1>14 DEF Grid
  <2> QED
    BY <1>9, <2>1
<1>16. T[<<0, 0>>] = 0
  <2>1. T[<<0, 0>>] = Cell(0, 0, 0, 0, 0)
    <3>1. 0 \in 0 .. m /\ 0 \in 0 .. n /\ 0 \in Int /\ ~ (0 > 0)
      OBVIOUS
    <3> QED
      BY <1>10, <3>1, Zenon
  <2> QED
    BY <2>1 DEF Cell
<1>17. ASSUME NEW i \in 0 .. m, NEW j \in 0 .. n
       PROVE  /\ i > 0 => T[<<i, j>>] >= T[<<i - 1, j>>] - 2
              /\ j > 0 => T[<<i, j>>] >= T[<<i, j - 1>>] - 2
              /\ Same(left, right, i, j) =>
                    T[<<i, j>>] >= T[<<i - 1, j - 1>>] + DiagonalScore(left[i], right[j])
              /\ i + j > 0 =>
                    \/ i > 0 /\ T[<<i, j>>] = T[<<i - 1, j>>] - 2
                    \/ j > 0 /\ T[<<i, j>>] = T[<<i, j - 1>>] - 2
                    \/ /\ Same(left, right, i, j)
                       /\ T[<<i, j>>] = T[<<i - 1, j - 1>>] + DiagonalScore(left[i], right[j])
  <2>1. CASE i + j = 0
    BY <2>1 DEF Same
  <2>2. CASE i + j > 0
    <3>1. i > 0 => i - 1 \in 0 .. m
      OBVIOUS
    <3>2. j > 0 => j - 1 \in 0 .. n
      OBVIOUS
    <3>0. /\ i > 0 => T[<<i - 1, j>>] \in Int
          /\ j > 0 => T[<<i, j - 1>>] \in Int
          /\ i > 0 /\ j > 0 => T[<<i - 1, j - 1>>] \in Int
      BY <3>1, <3>2, <1>14
    <3>3. PICK a \in Int, b \in Int, c \in Int :
             /\ a = IF i > 0 THEN T[<<i - 1, j>>] ELSE 0
             /\ b = IF j > 0 THEN T[<<i, j - 1>>] ELSE 0
             /\ c = IF i > 0 /\ j > 0 THEN T[<<i - 1, j - 1>>] ELSE 0
      BY <3>0
    <3>4. PICK same \in BOOLEAN, d \in Int :
             same = (left[i].anchor = right[j].anchor) /\ d = DiagonalScore(left[i], right[j])
      BY <1>1, Zenon
    <3>5. PICK x : x = Max(CellCandidates(i, j, same, d, a, b, c))
      OBVIOUS
    <3>6. T[<<i, j>>] = x
      <4>0. /\ i > 0 => a = T[<<i - 1, j>>]
            /\ j > 0 => b = T[<<i, j - 1>>]
            /\ i > 0 /\ j > 0 => c = T[<<i - 1, j - 1>>]
        BY <3>3, Zenon
      <4>1. T[<<i, j>>] = Cell(i, j, a, b, c)
        BY <4>0, <1>10, ZenonT(40)
      <4>2. ~ (i = 0 /\ j = 0)
        BY <2>2
      <4> QED
        BY <4>1, <4>2, <3>4, <3>5, Zenon DEF Cell
    <3>7. /\ x \in Int
          /\ i > 0 => x >= a - 2
          /\ j > 0 => x >= b - 2
          /\ i > 0 /\ j > 0 /\ same => x >= c + d
          /\ \/ i > 0 /\ x = a - 2
             \/ j > 0 /\ x = b - 2
             \/ i > 0 /\ j > 0 /\ same /\ x = c + d
      <4>1. i \in Nat /\ j \in Nat /\ i + j > 0
        BY <2>2
      <4> QED
        <5>1. IsBest(Max(CellCandidates(i, j, same, d, a, b, c)), i, j, same, d, a, b, c)
          BY <4>1, CandidatesHaveMax
        <5> QED
          BY <5>1, <3>5 DEF IsBest
    <3> QED
      BY <2>2, <3>3, <3>4, <3>6, <3>7, Zenon DEF Same
  <2> QED
    BY <2>1, <2>2
<1> QED
  BY <1>0, <1>7, <1>15, <1>16, <1>17, ZenonT(60) DEF BestCells
\* The pairings of two prefixes, and what one of them scores.
PrefixMatching(M, left, right, i, j) ==
  /\ M \in SUBSET ((1 .. i) \X (1 .. j))
  /\ \A p \in M : left[p[1]].anchor = right[p[2]].anchor
  /\ \A p, q \in M : p # q => (p[1] < q[1] /\ p[2] < q[2]) \/ (p[1] > q[1] /\ p[2] > q[2])

Equals(M, left, right) == {p \in M : left[p[1]].digest = right[p[2]].digest}
Unequals(M, left, right) == {p \in M : left[p[1]].digest # right[p[2]].digest}

ScoreAt(M, left, right, i, j) ==
  8 * Cardinality(Equals(M, left, right)) + Cardinality(Unequals(M, left, right))
    + GapScore * (i + j - 2 * Cardinality(M))

LEMMA MatchingIsFinite ==
  ASSUME NEW i \in Nat, NEW j \in Nat, NEW M \in SUBSET ((1 .. i) \X (1 .. j)), NEW left, NEW right
  PROVE  /\ IsFiniteSet(M) /\ Cardinality(M) \in Nat
         /\ IsFiniteSet(Equals(M, left, right)) /\ Cardinality(Equals(M, left, right)) \in Nat
         /\ IsFiniteSet(Unequals(M, left, right)) /\ Cardinality(Unequals(M, left, right)) \in Nat
<1>1. IsFiniteSet(1 .. i) /\ IsFiniteSet(1 .. j)
  BY FS_Interval
<1>2. IsFiniteSet((1 .. i) \X (1 .. j))
  BY <1>1, FS_Product, Zenon
<1>3. IsFiniteSet(M)
  BY <1>2, FS_Subset
<1>4. Equals(M, left, right) \subseteq M /\ Unequals(M, left, right) \subseteq M
  BY DEF Equals, Unequals
<1>5. IsFiniteSet(Equals(M, left, right)) /\ IsFiniteSet(Unequals(M, left, right))
  BY <1>3, <1>4, FS_Subset
<1> QED
  BY <1>3, <1>5, FS_CardinalityType

LEMMA ScoreOfGap ==
  ASSUME NEW i \in Nat, NEW j \in Nat, NEW M \in SUBSET ((1 .. i) \X (1 .. j)), NEW left, NEW right
  PROVE  /\ ScoreAt(M, left, right, i, j) \in Int
         /\ ScoreAt(M, left, right, i + 1, j) = ScoreAt(M, left, right, i, j) - 2
         /\ ScoreAt(M, left, right, i, j + 1) = ScoreAt(M, left, right, i, j) - 2
<1>1. PICK a \in Nat, b \in Nat, c \in Nat :
         a = Cardinality(Equals(M, left, right)) /\ b = Cardinality(Unequals(M, left, right)) /\ c = Cardinality(M)
  BY MatchingIsFinite
<1>2. ASSUME NEW k \in Nat, NEW l \in Nat
      PROVE  ScoreAt(M, left, right, k, l) = 8 * a + b - 2 * (k + l - 2 * c)
  BY <1>1 DEF ScoreAt, GapScore
<1>3. /\ ScoreAt(M, left, right, i, j) = 8 * a + b - 2 * (i + j - 2 * c)
      /\ ScoreAt(M, left, right, i + 1, j) = 8 * a + b - 2 * ((i + 1) + j - 2 * c)
      /\ ScoreAt(M, left, right, i, j + 1) = 8 * a + b - 2 * (i + (j + 1) - 2 * c)
  BY <1>2
<1> QED
  BY <1>3

LEMMA ScoreOfPair ==
  ASSUME NEW i \in Nat, NEW j \in Nat, NEW M \in SUBSET ((1 .. i) \X (1 .. j)), NEW left, NEW right
  PROVE  ScoreAt(M \union {<<i + 1, j + 1>>}, left, right, i + 1, j + 1)
           = ScoreAt(M, left, right, i, j) + DiagonalScore(left[i + 1], right[j + 1])
<1>0. PICK p : p = <<i + 1, j + 1>>
  BY Zenon
<1>1. p \notin M /\ p[1] = i + 1 /\ p[2] = j + 1
  BY <1>0
<1>2. PICK a \in Nat, b \in Nat, c \in Nat :
         a = Cardinality(Equals(M, left, right)) /\ b = Cardinality(Unequals(M, left, right)) /\ c = Cardinality(M)
  BY MatchingIsFinite
<1> DEFINE N == M \union {p}
<1>3. Cardinality(N) = c + 1
  BY <1>1, <1>2, MatchingIsFinite, FS_AddElement, Zenon
<1>4. CASE left[i + 1].digest = right[j + 1].digest
  <2>1. Equals(N, left, right) = Equals(M, left, right) \union {p} /\ Unequals(N, left, right) = Unequals(M, left, right)
    BY <1>1, <1>4 DEF Equals, Unequals
  <2>2. p \notin Equals(M, left, right)
    BY <1>1 DEF Equals
  <2>3. Cardinality(Equals(N, left, right)) = a + 1 /\ Cardinality(Unequals(N, left, right)) = b
    BY <1>2, <2>1, <2>2, MatchingIsFinite, FS_AddElement, Zenon
  <2>4. DiagonalScore(left[i + 1], right[j + 1]) = 8
    BY <1>4 DEF DiagonalScore
  <2> HIDE DEF N
  <2>5. ScoreAt(N, left, right, i + 1, j + 1) = 8 * (a + 1) + b - 2 * ((i + 1) + (j + 1) - 2 * (c + 1))
    BY <1>3, <2>3 DEF ScoreAt, GapScore
  <2>6. ScoreAt(M, left, right, i, j) = 8 * a + b - 2 * (i + j - 2 * c)
    BY <1>2 DEF ScoreAt, GapScore
  <2>7. ScoreAt(N, left, right, i + 1, j + 1) = ScoreAt(M, left, right, i, j) + DiagonalScore(left[i + 1], right[j + 1])
    BY <2>4, <2>5, <2>6
  <2> QED
    BY <2>7, <1>0 DEF N
<1>5. CASE left[i + 1].digest # right[j + 1].digest
  <2>1. Unequals(N, left, right) = Unequals(M, left, right) \union {p} /\ Equals(N, left, right) = Equals(M, left, right)
    BY <1>1, <1>5 DEF Equals, Unequals
  <2>2. p \notin Unequals(M, left, right)
    BY <1>1 DEF Unequals
  <2>3. Cardinality(Unequals(N, left, right)) = b + 1 /\ Cardinality(Equals(N, left, right)) = a
    BY <1>2, <2>1, <2>2, MatchingIsFinite, FS_AddElement, Zenon
  <2>4. DiagonalScore(left[i + 1], right[j + 1]) = 1
    BY <1>5 DEF DiagonalScore
  <2> HIDE DEF N
  <2>5. ScoreAt(N, left, right, i + 1, j + 1) = 8 * a + (b + 1) - 2 * ((i + 1) + (j + 1) - 2 * (c + 1))
    BY <1>3, <2>3 DEF ScoreAt, GapScore
  <2>6. ScoreAt(M, left, right, i, j) = 8 * a + b - 2 * (i + j - 2 * c)
    BY <1>2 DEF ScoreAt, GapScore
  <2>7. ScoreAt(N, left, right, i + 1, j + 1) = ScoreAt(M, left, right, i, j) + DiagonalScore(left[i + 1], right[j + 1])
    BY <2>4, <2>5, <2>6
  <2> QED
    BY <2>7, <1>0 DEF N
<1> QED
  BY <1>4, <1>5

LEMMA BoundCarriesOver ==
  ASSUME NEW y \in Int, NEW u \in Int, NEW t \in Int, NEW d \in Int, y <= u, t >= u + d
  PROVE  y + d <= t
OBVIOUS

\* No pairing of two prefixes scores more than their cell.
LEMMA CellBoundsMatchings ==
  ASSUME NEW E, NEW left \in Seq(E), NEW right \in Seq(E), NEW T, BestCells(T, left, right),
         NEW i \in 0 .. Len(left), NEW j \in 0 .. Len(right),
         NEW M, PrefixMatching(M, left, right, i, j)
  PROVE  ScoreAt(M, left, right, i, j) <= T[<<i, j>>]
<1>0. PICK m \in Nat, n \in Nat : m = Len(left) /\ n = Len(right)
  OBVIOUS
<1>1. \A k \in 0 .. m, l \in 0 .. n : T[<<k, l>>] \in Int
  BY <1>0, Zenon DEF BestCells, Grid
<1> DEFINE S == {N \in Nat : \A k \in 0 .. m, l \in 0 .. n : k + l <= N =>
                    \A Q : PrefixMatching(Q, left, right, k, l) => ScoreAt(Q, left, right, k, l) <= T[<<k, l>>]}
<1>2. 0 \in S
  <2> SUFFICES ASSUME NEW k \in 0 .. m, NEW l \in 0 .. n, k + l <= 0,
                      NEW Q, PrefixMatching(Q, left, right, k, l)
               PROVE  ScoreAt(Q, left, right, k, l) <= T[<<k, l>>]
    OBVIOUS
  <2>1. k = 0 /\ l = 0
    OBVIOUS
  <2>2. Q = {}
    <3>1. Q \subseteq (1 .. 0) \X (1 .. 0)
      BY <2>1 DEF PrefixMatching
    <3>2. 1 .. 0 = {}
      OBVIOUS
    <3> QED
      BY <3>1, <3>2
  <2>3. Equals(Q, left, right) = {} /\ Unequals(Q, left, right) = {}
    BY <2>2 DEF Equals, Unequals
  <2>4. Cardinality({}) = 0
    BY FS_EmptySet
  <2>5. ScoreAt(Q, left, right, k, l) = 0
    <3>1. ScoreAt(Q, left, right, k, l) = 8 * 0 + 0 + GapScore * (0 + 0 - 2 * 0)
      BY <2>1, <2>2, <2>3, <2>4, Zenon DEF ScoreAt
    <3> QED
      BY <3>1 DEF GapScore
  <2> QED
    BY <2>1, <2>5 DEF BestCells
<1>3. ASSUME NEW N \in S PROVE N + 1 \in S
  <2>0. N \in Nat /\ N + 1 \in Nat
    OBVIOUS
  <2> SUFFICES ASSUME NEW k \in 0 .. m, NEW l \in 0 .. n, k + l <= N + 1,
                      NEW Q, PrefixMatching(Q, left, right, k, l)
               PROVE  ScoreAt(Q, left, right, k, l) <= T[<<k, l>>]
    BY <2>0, Zenon
  <2>1. ASSUME NEW a \in 0 .. m, NEW b \in 0 .. n, a + b <= N, NEW P, PrefixMatching(P, left, right, a, b)
        PROVE  ScoreAt(P, left, right, a, b) <= T[<<a, b>>]
    BY <2>1, Zenon
  <2>2. Q \in SUBSET ((1 .. k) \X (1 .. l))
    BY DEF PrefixMatching
  <2> HIDE DEF S
  <2>3. CASE k + l = 0
    <3>1. 0 \in Nat /\ k + l <= 0
      BY <2>3
    <3> QED
      BY <3>1, <1>2 DEF S
  <2>4. CASE k > 0 /\ \A p \in Q : p[1] # k
    <3>0. PICK a \in 0 .. m : k = a + 1 /\ a + l <= N
      BY <2>0, <2>4
    <3>1. PrefixMatching(Q, left, right, a, l)
      <4>1. \A p \in Q : p[1] \in 1 .. a /\ p[2] \in 1 .. l /\ p = <<p[1], p[2]>>
        BY <2>2, <2>4, <3>0
      <4>2. Q \in SUBSET ((1 .. a) \X (1 .. l))
        BY <4>1
      <4> QED
        BY <4>2 DEF PrefixMatching
    <3>2. ScoreAt(Q, left, right, a, l) <= T[<<a, l>>]
      BY <2>1, <3>0, <3>1
    <3>3. ScoreAt(Q, left, right, a + 1, l) = ScoreAt(Q, left, right, a, l) - 2 /\ ScoreAt(Q, left, right, a, l) \in Int
      BY <3>1, ScoreOfGap DEF PrefixMatching
    <3>4. T[<<k, l>>] >= T[<<a, l>>] - 2
      <4>1. k > 0 /\ k - 1 = a
        BY <3>0
      <4> QED
        BY <4>1, <1>0, Zenon DEF BestCells
    <3>5. T[<<k, l>>] \in Int /\ T[<<a, l>>] \in Int
      BY <1>1
    <3>6. PICK y \in Int, t \in Int, u \in Int :
            y = ScoreAt(Q, left, right, a, l) /\ t = T[<<k, l>>] /\ u = T[<<a, l>>]
      BY <3>3, <3>5, Zenon
    <3>7. y <= u /\ t >= u + (-2)
      BY <3>2, <3>4, <3>6, Zenon
    <3>8. y + (-2) <= t
      BY <3>7, BoundCarriesOver
    <3> QED
      BY <3>0, <3>3, <3>6, <3>8
  <2>5. CASE l > 0 /\ \A p \in Q : p[2] # l
    <3>0. PICK b \in 0 .. n : l = b + 1 /\ k + b <= N
      BY <2>0, <2>5
    <3>1. PrefixMatching(Q, left, right, k, b)
      <4>1. \A p \in Q : p[1] \in 1 .. k /\ p[2] \in 1 .. b /\ p = <<p[1], p[2]>>
        BY <2>2, <2>5, <3>0
      <4>2. Q \in SUBSET ((1 .. k) \X (1 .. b))
        BY <4>1
      <4> QED
        BY <4>2 DEF PrefixMatching
    <3>2. ScoreAt(Q, left, right, k, b) <= T[<<k, b>>]
      BY <2>1, <3>0, <3>1
    <3>3. ScoreAt(Q, left, right, k, b + 1) = ScoreAt(Q, left, right, k, b) - 2 /\ ScoreAt(Q, left, right, k, b) \in Int
      BY <3>1, ScoreOfGap DEF PrefixMatching
    <3>4. T[<<k, l>>] >= T[<<k, b>>] - 2
      <4>1. l > 0 /\ l - 1 = b
        BY <3>0
      <4> QED
        BY <4>1, <1>0, Zenon DEF BestCells
    <3>5. T[<<k, l>>] \in Int /\ T[<<k, b>>] \in Int
      BY <1>1
    <3>6. PICK y \in Int, t \in Int, u \in Int :
            y = ScoreAt(Q, left, right, k, b) /\ t = T[<<k, l>>] /\ u = T[<<k, b>>]
      BY <3>3, <3>5, Zenon
    <3>7. y <= u /\ t >= u + (-2)
      BY <3>2, <3>4, <3>6, Zenon
    <3>8. y + (-2) <= t
      BY <3>7, BoundCarriesOver
    <3> QED
      BY <3>0, <3>3, <3>6, <3>8
  <2>6. ASSUME NEW p \in Q, p[1] = k, NEW q \in Q, q[2] = l
        PROVE  p = <<k, l>> /\ q = p
    <3>1. p[1] \in 1 .. k /\ p[2] \in 1 .. l /\ q[1] \in 1 .. k /\ q[2] \in 1 .. l /\ p = <<p[1], p[2]>>
      BY <2>2
    <3>2. ~ (p[1] < q[1]) /\ ~ (p[2] > q[2])
      BY <3>1, <2>6
    <3>3. p = q
      BY <3>2 DEF PrefixMatching
    <3> QED
      BY <3>1, <3>3, <2>6
  <2>7. CASE <<k, l>> \in Q
    <3>0. PICK a \in 0 .. m, b \in 0 .. n : k = a + 1 /\ l = b + 1 /\ a + b <= N
      BY <2>2, <2>7, <2>0
    <3>1. PICK P : P = Q \ {<<k, l>>}
      BY Zenon
    <3>2. ASSUME NEW p \in P PROVE p[1] \in 1 .. a /\ p[2] \in 1 .. b /\ p = <<p[1], p[2]>>
      <4>1. p \in Q /\ p # <<k, l>> /\ p[1] \in 1 .. k /\ p[2] \in 1 .. l /\ p = <<p[1], p[2]>>
        BY <2>2, <3>1
      <4>2. PICK c : c = <<k, l>>
        BY Zenon
      <4>3. c \in Q /\ c[1] = k /\ c[2] = l
        BY <2>7, <4>2
      <4>4. (p[1] < k /\ p[2] < l) \/ (p[1] > k /\ p[2] > l)
        BY <4>1, <4>2, <4>3, Zenon DEF PrefixMatching
      <4>5. PICK x \in Int, y \in Int : x = p[1] /\ y = p[2]
        BY <4>1
      <4>6. x \in 1 .. a + 1 /\ y \in 1 .. b + 1 /\ ((x < a + 1 /\ y < b + 1) \/ (x > a + 1 /\ y > b + 1))
        BY <4>1, <4>4, <4>5, <3>0
      <4>7. x \in 1 .. a /\ y \in 1 .. b
        BY <4>6
      <4> QED
        BY <4>1, <4>5, <4>7
    <3>3. P \in SUBSET ((1 .. a) \X (1 .. b))
      BY <3>2
    <3>4. PrefixMatching(P, left, right, a, b)
      BY <3>1, <3>3 DEF PrefixMatching
    <3>5. ScoreAt(P, left, right, a, b) <= T[<<a, b>>]
      BY <2>1, <3>0, <3>4
    <3>6. Q = P \union {<<a + 1, b + 1>>}
      BY <3>0, <3>1, <2>7, Zenon
    <3>7. ScoreAt(Q, left, right, a + 1, b + 1) = ScoreAt(P, left, right, a, b) + DiagonalScore(left[a + 1], right[b + 1])
      <4>1. a \in Nat /\ b \in Nat
        OBVIOUS
      <4> QED
        BY <4>1, <3>3, <3>6, ScoreOfPair
    <3>8. ScoreAt(P, left, right, a, b) \in Int /\ DiagonalScore(left[a + 1], right[b + 1]) \in Int
      BY <3>3, ScoreOfGap DEF DiagonalScore
    <3>9. T[<<k, l>>] >= T[<<a, b>>] + DiagonalScore(left[k], right[l])
      <4>1. k > 0 /\ l > 0 /\ k - 1 = a /\ l - 1 = b
        BY <3>0
      <4>2. PICK c : c = <<k, l>>
        BY Zenon
      <4>3. c \in Q /\ c[1] = k /\ c[2] = l
        BY <2>7, <4>2
      <4>4. left[k].anchor = right[l].anchor
        BY <4>3 DEF PrefixMatching
      <4>5. Same(left, right, k, l)
        BY <4>1, <4>4 DEF Same
      <4> QED
        BY <4>1, <4>5, <1>0, Zenon DEF BestCells
    <3>10. T[<<k, l>>] \in Int /\ T[<<a, b>>] \in Int
      BY <1>1, Zenon
    <3>11. PICK y \in Int, t \in Int, u \in Int, d \in Int :
             /\ y = ScoreAt(P, left, right, a, b) /\ t = T[<<k, l>>] /\ u = T[<<a, b>>]
             /\ d = DiagonalScore(left[a + 1], right[b + 1])
      BY <3>8, <3>10, Zenon
    <3>12. y <= u /\ t >= u + d
      BY <3>0, <3>5, <3>9, <3>11
    <3>13. y + d <= t
      BY <3>12, BoundCarriesOver
    <3> QED
      BY <3>0, <3>7, <3>11, <3>13
  <2>8. CASE k = 0 /\ l > 0
    <3>1. \A p \in Q : p[2] # l
      <4>1. \A p \in Q : p[1] \in 1 .. 0
        BY <2>2, <2>8
      <4> QED
        BY <4>1
    <3> QED
      BY <2>5, <2>8, <3>1
  <2>9. CASE l = 0 /\ k > 0
    <3>1. \A p \in Q : p[1] # k
      <4>1. \A p \in Q : p[2] \in 1 .. 0
        BY <2>2, <2>9
      <4> QED
        BY <4>1
    <3> QED
      BY <2>4, <2>9, <3>1
  <2> QED
    <3>1. k + l = 0 \/ (k = 0 /\ l > 0) \/ (l = 0 /\ k > 0) \/ (k > 0 /\ l > 0)
      OBVIOUS
    <3> QED
      BY <3>1, <2>3, <2>4, <2>5, <2>6, <2>7, <2>8, <2>9, Zenon
<1>4. S = Nat
  <2>1. S \in SUBSET Nat
    OBVIOUS
  <2> HIDE DEF S
  <2> QED
    BY <1>2, <1>3, <2>1, SetInduction, Zenon
<1>5. m + n \in S
  <2> HIDE DEF S
  <2> QED
    BY <1>4
<1>6. i + j <= m + n /\ i \in 0 .. m /\ j \in 0 .. n
  BY <1>0
<1> QED
  BY <1>5, <1>6

\* The rows align_traces builds, and the set of all rows it can build.
PairRow(left, right, i, j) ==
  [left |-> i - 1, right |-> j - 1, anchor |-> left[i].anchor, status |-> AlignedStatus(left[i], right[j])]
LeftRow(left, i) == [left |-> i - 1, right |-> -1, anchor |-> left[i].anchor, status |-> "LEFT_ONLY"]
RightRow(right, j) == [left |-> -1, right |-> j - 1, anchor |-> right[j].anchor, status |-> "RIGHT_ONLY"]

PossibleRows(left, right) ==
  {PairRow(left, right, p[1], p[2]) : p \in Grid(Len(left), Len(right))}
    \union {LeftRow(left, i) : i \in 0 .. Len(left)} \union {RightRow(right, j) : j \in 0 .. Len(right)}

IsRows(table, left, right, rows) ==
  rows = [p \in (0 .. Len(left)) \X (0 .. Len(right)) |->
            LET i == p[1]
                j == p[2]
            IN  IF i = 0 /\ j = 0 THEN <<>>
                ELSE CASE Direction(table, left, right, i, j) = "diagonal" ->
                            Append(rows[<<i - 1, j - 1>>],
                                [left |-> i - 1, right |-> j - 1, anchor |-> left[i].anchor,
                                 status |-> AlignedStatus(left[i], right[j])])
                       [] Direction(table, left, right, i, j) = "up" ->
                            Append(rows[<<i - 1, j>>],
                                [left |-> i - 1, right |-> -1, anchor |-> left[i].anchor,
                                 status |-> "LEFT_ONLY"])
                       [] OTHER ->
                            Append(rows[<<i, j - 1>>],
                                [left |-> -1, right |-> j - 1, anchor |-> right[j].anchor,
                                 status |-> "RIGHT_ONLY"])]

LEMMA RowIsPossible ==
  ASSUME NEW left, NEW right, NEW i \in 0 .. Len(left), NEW j \in 0 .. Len(right)
  PROVE  /\ PairRow(left, right, i, j) \in PossibleRows(left, right)
         /\ LeftRow(left, i) \in PossibleRows(left, right)
         /\ RightRow(right, j) \in PossibleRows(left, right)
<1>1. PICK p : p = <<i, j>>
  BY Zenon
<1>2. p \in Grid(Len(left), Len(right)) /\ p[1] = i /\ p[2] = j
  BY <1>1 DEF Grid
<1> QED
  BY <1>2, Zenon DEF PossibleRows

\* A step back goes where the best score came from.
GoesBack(d, T, left, right, i, j) ==
  \/ /\ d = "diagonal" /\ Same(left, right, i, j)
     /\ T[<<i, j>>] = T[<<i - 1, j - 1>>] + DiagonalScore(left[i], right[j])
  \/ d = "up" /\ i > 0 /\ T[<<i, j>>] = T[<<i - 1, j>>] - 2
  \/ d = "left" /\ j > 0 /\ T[<<i, j>>] = T[<<i, j - 1>>] - 2

LEMMA DirectionFollows ==
  ASSUME NEW left, NEW right, NEW T, BestCells(T, left, right), Len(left) \in Nat, Len(right) \in Nat,
         NEW i \in 0 .. Len(left), NEW j \in 0 .. Len(right), i + j > 0
  PROVE  GoesBack(Direction(T, left, right, i, j), T, left, right, i, j)
<1> USE DEF GoesBack
<1> DEFINE d == Direction(T, left, right, i, j)
<1>0. \A k \in 0 .. Len(left), l \in 0 .. Len(right) : T[<<k, l>>] \in Int
  BY Zenon DEF BestCells, Grid
<1>1. \/ i > 0 /\ T[<<i, j>>] = T[<<i - 1, j>>] - 2
      \/ j > 0 /\ T[<<i, j>>] = T[<<i, j - 1>>] - 2
      \/ /\ Same(left, right, i, j)
         /\ T[<<i, j>>] = T[<<i - 1, j - 1>>] + DiagonalScore(left[i], right[j])
  BY Zenon DEF BestCells
<1>2. i > 0 => i - 1 \in 0 .. Len(left)
  OBVIOUS
<1>3. i > 0 => T[<<i - 1, j>>] + GapScore = T[<<i - 1, j>>] - 2
  BY <1>0, <1>2 DEF GapScore
<1>4. CASE Same(left, right, i, j) /\ T[<<i, j>>] = T[<<i - 1, j - 1>>] + DiagonalScore(left[i], right[j])
  BY <1>4, Zenon DEF Direction, Same
<1>5. CASE /\ ~ (Same(left, right, i, j) /\ T[<<i, j>>] = T[<<i - 1, j - 1>>] + DiagonalScore(left[i], right[j]))
           /\ i > 0 /\ (j = 0 \/ T[<<i, j>>] = T[<<i - 1, j>>] - 2)
  <2>1. d = "up"
    BY <1>3, <1>5, Zenon DEF Direction, Same
  <2>2. T[<<i, j>>] = T[<<i - 1, j>>] - 2
    <3>1. ~ (0 > 0)
      OBVIOUS
    <3> QED
      BY <1>1, <1>5, <3>1
  <2> QED
    BY <1>5, <2>1, <2>2
<1>6. CASE /\ ~ (Same(left, right, i, j) /\ T[<<i, j>>] = T[<<i - 1, j - 1>>] + DiagonalScore(left[i], right[j]))
           /\ ~ (i > 0 /\ (j = 0 \/ T[<<i, j>>] = T[<<i - 1, j>>] - 2))
  <2>1. d = "left"
    BY <1>3, <1>6, Zenon DEF Direction, Same
  <2> QED
    BY <2>1, <1>1, <1>6
<1> QED
  BY <1>4, <1>5, <1>6

\* What a row adds to one side, and to the pairing.
LEMMA RunsThroughMore ==
  ASSUME NEW W, NEW rows \in Seq(W), NEW side, NEW n \in Nat, RunsThrough(rows, side, n),
         \A k \in DOMAIN rows : rows[k][side] \in -1 .. n - 1,
         NEW aligned \in W, NEW more, more = Append(rows, aligned)
  PROVE  /\ aligned[side] = n =>
              RunsThrough(more, side, n + 1) /\ \A k \in DOMAIN more : more[k][side] \in -1 .. n
         /\ aligned[side] = -1 =>
              RunsThrough(more, side, n) /\ \A k \in DOMAIN more : more[k][side] \in -1 .. n - 1
<1>0. PICK len \in Nat : len = Len(rows)
  OBVIOUS
<1>1. /\ DOMAIN rows = 1 .. len /\ DOMAIN more = 1 .. len + 1
      /\ \A k \in 1 .. len : more[k] = rows[k]
      /\ more[len + 1] = aligned
  BY <1>0
<1>2. \A k \in DOMAIN more : k \in 1 .. len \/ k = len + 1
  BY <1>1
<1>3. {more[k][side] : k \in DOMAIN more} = {rows[k][side] : k \in DOMAIN rows} \union {aligned[side]}
  BY <1>1, <1>2
<1>4. {rows[k][side] : k \in DOMAIN rows} \ {-1} = 0 .. n - 1
  BY DEF RunsThrough
<1>5. \A k, m \in 1 .. len : k < m /\ rows[k][side] >= 0 /\ rows[m][side] >= 0 => rows[k][side] < rows[m][side]
  BY <1>1, Zenon DEF RunsThrough
<1>6. ASSUME aligned[side] = n
      PROVE  RunsThrough(more, side, n + 1) /\ \A k \in DOMAIN more : more[k][side] \in -1 .. n
  <2>1. \A k \in DOMAIN more : more[k][side] \in -1 .. n
    BY <1>1, <1>2, <1>6
  <2>2. ASSUME NEW k \in DOMAIN more, NEW m \in DOMAIN more, k < m, more[k][side] >= 0, more[m][side] >= 0
        PROVE  more[k][side] < more[m][side]
    <3>1. k \in 1 .. len
      BY <1>1, <2>2
    <3>2. CASE m \in 1 .. len
      BY <1>1, <1>5, <2>2, <3>1, <3>2
    <3>3. CASE m = len + 1
      <4>1. more[k][side] \in -1 .. n - 1 /\ more[m][side] = n
        BY <1>1, <1>6, <3>1, <3>3
      <4> QED
        BY <4>1
    <3> QED
      BY <1>2, <3>2, <3>3
  <2>3. {more[k][side] : k \in DOMAIN more} \ {-1} = 0 .. (n + 1) - 1
    <3>1. (n + 1) - 1 = n /\ n # -1 /\ 0 .. n = (0 .. n - 1) \union {n}
      OBVIOUS
    <3> QED
      BY <1>3, <1>4, <1>6, <3>1, Zenon
  <2> QED
    BY <2>1, <2>2, <2>3, Zenon DEF RunsThrough
<1>7. ASSUME aligned[side] = -1
      PROVE  RunsThrough(more, side, n) /\ \A k \in DOMAIN more : more[k][side] \in -1 .. n - 1
  <2>1. \A k \in DOMAIN more : more[k][side] \in -1 .. n - 1
    BY <1>1, <1>2, <1>7
  <2>2. ASSUME NEW k \in DOMAIN more, NEW m \in DOMAIN more, k < m, more[k][side] >= 0, more[m][side] >= 0
        PROVE  more[k][side] < more[m][side]
    <3>1. k \in 1 .. len
      BY <1>1, <2>2
    <3>2. m # len + 1
      <4>1. ~ (-1 >= 0)
        OBVIOUS
      <4> QED
        BY <1>1, <1>7, <2>2, <4>1
    <3> QED
      BY <1>1, <1>2, <1>5, <2>2, <3>1, <3>2
  <2>3. {more[k][side] : k \in DOMAIN more} \ {-1} = 0 .. n - 1
    BY <1>3, <1>4, <1>7, Zenon
  <2> QED
    BY <2>1, <2>2, <2>3, Zenon DEF RunsThrough
<1> QED
  BY <1>6, <1>7

LEMMA PairedMore ==
  ASSUME NEW W, NEW rows \in Seq(W), NEW aligned \in W, NEW more, more = Append(rows, aligned)
  PROVE  Paired(more) = Paired(rows) \union
           (IF aligned.left >= 0 /\ aligned.right >= 0 THEN {<<aligned.left + 1, aligned.right + 1>>} ELSE {})
<1>0. PICK len \in Nat : len = Len(rows)
  OBVIOUS
<1>1. /\ DOMAIN rows = 1 .. len /\ DOMAIN more = 1 .. len + 1
      /\ \A k \in 1 .. len : more[k] = rows[k]
      /\ more[len + 1] = aligned
  BY <1>0
<1>2. \A k \in DOMAIN more : k \in 1 .. len \/ k = len + 1
  BY <1>1
<1>3. \A k \in DOMAIN rows : k \in DOMAIN more /\ more[k] = rows[k]
  BY <1>1
<1>4. len + 1 \in DOMAIN more
  BY <1>1
<1>5. ASSUME NEW x \in Paired(more)
      PROVE  x \in Paired(rows) \union
           (IF aligned.left >= 0 /\ aligned.right >= 0 THEN {<<aligned.left + 1, aligned.right + 1>>} ELSE {})
  <2>1. PICK k \in DOMAIN more : more[k].left >= 0 /\ more[k].right >= 0 /\ x = <<more[k].left + 1, more[k].right + 1>>
    BY Zenon DEF Paired
  <2>2. CASE k \in 1 .. len
    <3>1. k \in DOMAIN rows /\ more[k] = rows[k]
      BY <1>1, <2>2
    <3> QED
      BY <2>1, <3>1, Zenon DEF Paired
  <2>3. CASE k = len + 1
    BY <1>1, <2>1, <2>3, Zenon
  <2> QED
    BY <1>2, <2>2, <2>3
<1>6. ASSUME NEW x \in Paired(rows) PROVE x \in Paired(more)
  <2>1. PICK k \in DOMAIN rows : rows[k].left >= 0 /\ rows[k].right >= 0 /\ x = <<rows[k].left + 1, rows[k].right + 1>>
    BY Zenon DEF Paired
  <2> QED
    BY <2>1, <1>3, Zenon DEF Paired
<1>7. aligned.left >= 0 /\ aligned.right >= 0 => <<aligned.left + 1, aligned.right + 1>> \in Paired(more)
  BY <1>1, <1>4, Zenon DEF Paired
<1> QED
  BY <1>5, <1>6, <1>7, Zenon

\* Rows that run through both prefixes, pair equal anchors and score t.
Aligned(rows, left, right, i, j, t) ==
  /\ rows \in Seq(PossibleRows(left, right))
  /\ \A k \in DOMAIN rows : rows[k]["left"] \in -1 .. i - 1
  /\ \A k \in DOMAIN rows : rows[k]["right"] \in -1 .. j - 1
  /\ RunsThrough(rows, "left", i)
  /\ RunsThrough(rows, "right", j)
  /\ PrefixMatching(Paired(rows), left, right, i, j)
  /\ ScoreAt(Paired(rows), left, right, i, j) = t

LEMMA AlignedStart ==
  ASSUME NEW left, NEW right
  PROVE  Aligned(<<>>, left, right, 0, 0, 0)
<1>1. Paired(<<>>) = {}
  <2>1. DOMAIN <<>> = {}
    OBVIOUS
  <2> QED
    BY <2>1, Zenon DEF Paired
<1>2. RunsThrough(<<>>, "left", 0) /\ RunsThrough(<<>>, "right", 0)
  BY DEF RunsThrough
<1>3. PrefixMatching({}, left, right, 0, 0)
  BY DEF PrefixMatching
<1>4. Equals({}, left, right) = {} /\ Unequals({}, left, right) = {}
  BY DEF Equals, Unequals
<1>5. Cardinality({}) = 0
  BY FS_EmptySet
<1>6. ScoreAt({}, left, right, 0, 0) = 0
  <2>1. ScoreAt({}, left, right, 0, 0) = 8 * 0 + 0 + GapScore * (0 + 0 - 2 * 0)
    BY <1>4, <1>5 DEF ScoreAt
  <2> QED
    BY <2>1 DEF GapScore
<1>7. <<>> \in Seq(PossibleRows(left, right)) /\ DOMAIN <<>> = {}
  OBVIOUS
<1> QED
  BY <1>1, <1>2, <1>3, <1>6, <1>7, Zenon DEF Aligned

LEMMA AlignedPair ==
  ASSUME NEW left, NEW right, NEW i \in Nat, NEW j \in Nat, NEW rows, NEW t \in Int,
         Aligned(rows, left, right, i, j, t), left[i + 1].anchor = right[j + 1].anchor,
         NEW aligned \in PossibleRows(left, right), aligned["left"] = i, aligned["right"] = j
  PROVE  Aligned(Append(rows, aligned), left, right, i + 1, j + 1, t + DiagonalScore(left[i + 1], right[j + 1]))
<1> DEFINE W == PossibleRows(left, right)
<1>1. PICK more : more = Append(rows, aligned)
  BY Zenon
<1>2. more \in Seq(W) /\ rows \in Seq(W)
  BY <1>1 DEF Aligned
<1> HIDE DEF W
<1>3. RunsThrough(more, "left", i + 1) /\ \A k \in DOMAIN more : more[k]["left"] \in -1 .. i
  <2>1. aligned \in W
    BY DEF W
  <2> QED
    BY <1>1, <1>2, <2>1, RunsThroughMore, Zenon DEF Aligned
<1>4. RunsThrough(more, "right", j + 1) /\ \A k \in DOMAIN more : more[k]["right"] \in -1 .. j
  <2>1. aligned \in W
    BY DEF W
  <2> QED
    BY <1>1, <1>2, <2>1, RunsThroughMore, Zenon DEF Aligned
<1>5. Paired(more) = Paired(rows) \union {<<i + 1, j + 1>>}
  <2>1. aligned \in W
    BY DEF W
  <2>2. aligned.left = i /\ aligned.right = j /\ i >= 0 /\ j >= 0
    OBVIOUS
  <2>3. aligned.left >= 0 /\ aligned.right >= 0 /\ <<aligned.left + 1, aligned.right + 1>> = <<i + 1, j + 1>>
    BY <2>2
  <2> QED
    BY <1>1, <1>2, <2>1, <2>3, PairedMore, Zenon
<1>6. PICK M : M = Paired(rows)
  OBVIOUS
<1>7. M \in SUBSET ((1 .. i) \X (1 .. j)) /\ PrefixMatching(M, left, right, i, j) /\ ScoreAt(M, left, right, i, j) = t
  BY <1>6 DEF Aligned, PrefixMatching
<1>8. PrefixMatching(M \union {<<i + 1, j + 1>>}, left, right, i + 1, j + 1)
  <2>1. PICK c : c = <<i + 1, j + 1>>
    BY Zenon
  <2>2. c[1] = i + 1 /\ c[2] = j + 1 /\ c \in (1 .. i + 1) \X (1 .. j + 1)
    BY <2>1
  <2>3. \A p \in M : /\ p[1] \in 1 .. i /\ p[2] \in 1 .. j /\ p[1] < i + 1 /\ p[2] < j + 1
                     /\ p \in (1 .. i + 1) \X (1 .. j + 1)
    BY <1>7
  <2>4. \A p \in M \union {c} : left[p[1]].anchor = right[p[2]].anchor
    BY <2>2, <1>7 DEF PrefixMatching
  <2>5. \A p, q \in M \union {c} : p # q => (p[1] < q[1] /\ p[2] < q[2]) \/ (p[1] > q[1] /\ p[2] > q[2])
    BY <2>2, <2>3, <1>7 DEF PrefixMatching
  <2> QED
    BY <2>1, <2>2, <2>3, <2>4, <2>5 DEF PrefixMatching
<1>9. ScoreAt(M \union {<<i + 1, j + 1>>}, left, right, i + 1, j + 1) = t + DiagonalScore(left[i + 1], right[j + 1])
  BY <1>7, ScoreOfPair
<1>10. (i + 1) - 1 = i /\ (j + 1) - 1 = j
  OBVIOUS
<1> QED
  BY <1>1, <1>2, <1>3, <1>4, <1>5, <1>6, <1>8, <1>9, <1>10, Zenon DEF Aligned, W

LEMMA AlignedLeft ==
  ASSUME NEW left, NEW right, NEW i \in Nat, NEW j \in Nat, NEW rows, NEW t \in Int,
         Aligned(rows, left, right, i, j, t),
         NEW aligned \in PossibleRows(left, right), aligned["left"] = i, aligned["right"] = -1
  PROVE  Aligned(Append(rows, aligned), left, right, i + 1, j, t - 2)
<1> DEFINE W == PossibleRows(left, right)
<1>1. PICK more : more = Append(rows, aligned)
  BY Zenon
<1>2. more \in Seq(W) /\ rows \in Seq(W) /\ aligned \in W
  BY <1>1 DEF Aligned
<1> HIDE DEF W
<1>3. RunsThrough(more, "left", i + 1) /\ \A k \in DOMAIN more : more[k]["left"] \in -1 .. i
  BY <1>1, <1>2, RunsThroughMore, Zenon DEF Aligned
<1>4. RunsThrough(more, "right", j) /\ \A k \in DOMAIN more : more[k]["right"] \in -1 .. j - 1
  BY <1>1, <1>2, RunsThroughMore, Zenon DEF Aligned
<1>5. Paired(more) = Paired(rows)
  <2>1. aligned.left = i /\ aligned.right = -1
    OBVIOUS
  <2>2. ~ (aligned.left >= 0 /\ aligned.right >= 0)
    BY <2>1
  <2>3. Paired(more) = Paired(rows) \union
          (IF aligned.left >= 0 /\ aligned.right >= 0
           THEN {<<aligned.left + 1, aligned.right + 1>>} ELSE {})
    BY <1>1, <1>2, PairedMore, Zenon
  <2> QED
    BY <2>2, <2>3, Zenon
<1>6. PICK M : M = Paired(rows)
  OBVIOUS
<1>7. M \in SUBSET ((1 .. i) \X (1 .. j)) /\ PrefixMatching(M, left, right, i, j) /\ ScoreAt(M, left, right, i, j) = t
  BY <1>6 DEF Aligned, PrefixMatching
<1>8. PrefixMatching(M, left, right, i + 1, j)
  <2>1. M \in SUBSET ((1 .. i + 1) \X (1 .. j))
    BY <1>7
  <2> QED
    BY <2>1, <1>7, Zenon DEF PrefixMatching
<1>9. ScoreAt(M, left, right, i + 1, j) = t - 2
  BY <1>7, ScoreOfGap
<1>10. (i + 1) - 1 = i
  OBVIOUS
<1> QED
  BY <1>1, <1>2, <1>3, <1>4, <1>5, <1>6, <1>8, <1>9, <1>10, Zenon DEF Aligned, W

LEMMA AlignedRight ==
  ASSUME NEW left, NEW right, NEW i \in Nat, NEW j \in Nat, NEW rows, NEW t \in Int,
         Aligned(rows, left, right, i, j, t),
         NEW aligned \in PossibleRows(left, right), aligned["left"] = -1, aligned["right"] = j
  PROVE  Aligned(Append(rows, aligned), left, right, i, j + 1, t - 2)
<1> DEFINE W == PossibleRows(left, right)
<1>1. PICK more : more = Append(rows, aligned)
  BY Zenon
<1>2. more \in Seq(W) /\ rows \in Seq(W) /\ aligned \in W
  BY <1>1 DEF Aligned
<1> HIDE DEF W
<1>3. RunsThrough(more, "left", i) /\ \A k \in DOMAIN more : more[k]["left"] \in -1 .. i - 1
  BY <1>1, <1>2, RunsThroughMore, Zenon DEF Aligned
<1>4. RunsThrough(more, "right", j + 1) /\ \A k \in DOMAIN more : more[k]["right"] \in -1 .. j
  BY <1>1, <1>2, RunsThroughMore, Zenon DEF Aligned
<1>5. Paired(more) = Paired(rows)
  <2>1. aligned.left = -1 /\ aligned.right = j
    OBVIOUS
  <2>2. ~ (aligned.left >= 0 /\ aligned.right >= 0)
    BY <2>1
  <2>3. Paired(more) = Paired(rows) \union
          (IF aligned.left >= 0 /\ aligned.right >= 0
           THEN {<<aligned.left + 1, aligned.right + 1>>} ELSE {})
    BY <1>1, <1>2, PairedMore, Zenon
  <2> QED
    BY <2>2, <2>3, Zenon
<1>6. PICK M : M = Paired(rows)
  OBVIOUS
<1>7. M \in SUBSET ((1 .. i) \X (1 .. j)) /\ PrefixMatching(M, left, right, i, j) /\ ScoreAt(M, left, right, i, j) = t
  BY <1>6 DEF Aligned, PrefixMatching
<1>8. PrefixMatching(M, left, right, i, j + 1)
  <2>1. M \in SUBSET ((1 .. i) \X (1 .. j + 1))
    BY <1>7
  <2> QED
    BY <2>1, <1>7, Zenon DEF PrefixMatching
<1>9. ScoreAt(M, left, right, i, j + 1) = t - 2
  BY <1>7, ScoreOfGap
<1>10. (j + 1) - 1 = j
  OBVIOUS
<1> QED
  BY <1>1, <1>2, <1>3, <1>4, <1>5, <1>6, <1>8, <1>9, <1>10, Zenon DEF Aligned, W

\* The rows at a cell, from those at the cell where the direction points.
NextRows(left, right, i, j, d, a, b, c) ==
  IF i = 0 /\ j = 0 THEN <<>>
  ELSE CASE d = "diagonal" -> Append(c, PairRow(left, right, i, j))
         [] d = "up" -> Append(a, LeftRow(left, i))
         [] OTHER -> Append(b, RightRow(right, j))

LEMMA NextRowsStay ==
  ASSUME NEW left, NEW right, NEW i \in 0 .. Len(left), NEW j \in 0 .. Len(right), NEW d,
         NEW a \in Seq(PossibleRows(left, right)), NEW b \in Seq(PossibleRows(left, right)),
         NEW c \in Seq(PossibleRows(left, right))
  PROVE  NextRows(left, right, i, j, d, a, b, c) \in Seq(PossibleRows(left, right))
<1>1. /\ PairRow(left, right, i, j) \in PossibleRows(left, right)
      /\ LeftRow(left, i) \in PossibleRows(left, right)
      /\ RightRow(right, j) \in PossibleRows(left, right)
  BY RowIsPossible, Zenon
<1>2. PICK W : W = PossibleRows(left, right)
  OBVIOUS
<1>3. PICK x \in W, y \in W, z \in W :
         x = PairRow(left, right, i, j) /\ y = LeftRow(left, i) /\ z = RightRow(right, j)
  BY <1>1, <1>2, Zenon
<1>4. Append(c, x) \in Seq(W) /\ Append(a, y) \in Seq(W) /\ Append(b, z) \in Seq(W) /\ <<>> \in Seq(W)
  BY <1>2
<1>5. CASE i = 0 /\ j = 0
  BY <1>2, <1>4, <1>5, Zenon DEF NextRows
<1>6. CASE ~ (i = 0 /\ j = 0) /\ d = "diagonal"
  <2>1. d # "up"
    BY <1>6
  <2> QED
    BY <1>2, <1>3, <1>4, <1>6, <2>1 DEF NextRows
<1>7. CASE ~ (i = 0 /\ j = 0) /\ d = "up"
  <2>1. d # "diagonal"
    BY <1>7
  <2> QED
    BY <1>2, <1>3, <1>4, <1>7, <2>1 DEF NextRows
<1>8. CASE ~ (i = 0 /\ j = 0) /\ d # "diagonal" /\ d # "up"
  BY <1>2, <1>3, <1>4, <1>8 DEF NextRows
<1> QED
  BY <1>5, <1>6, <1>7, <1>8

\* The rows traced back from the last cell run through both traces and score
\* what the cell says.
LEMMA RowsAreAligned ==
  ASSUME NEW E, NEW left \in Seq(E), NEW right \in Seq(E)
  PROVE  Aligned(AlignTraces(left, right), left, right, Len(left), Len(right),
                 ScoreTable(left, right)[<<Len(left), Len(right)>>])
<1>0. PICK m \in Nat, n \in Nat : m = Len(left) /\ n = Len(right)
  OBVIOUS
<1>1. PICK T : T = ScoreTable(left, right)
  OBVIOUS
<1>2. BestCells(T, left, right)
  BY <1>1, TableIsBest
<1>3. PICK W : W = PossibleRows(left, right)
  OBVIOUS
<1> DEFINE Dir(i, j) == Direction(T, left, right, i, j)
           Step(i, j, a, b, c) == NextRows(left, right, i, j, Dir(i, j), a, b, c)
<1>4. PICK st : st = [q \in (0 .. m) \X (0 .. n) \X Seq(W) \X Seq(W) \X Seq(W) |-> Step(q[1], q[2], q[3], q[4], q[5])]
  BY Zenon
<1>5. ASSUME NEW i \in 0 .. m, NEW j \in 0 .. n, NEW a \in Seq(W), NEW b \in Seq(W), NEW c \in Seq(W)
      PROVE  st[<<i, j, a, b, c>>] = Step(i, j, a, b, c) /\ Step(i, j, a, b, c) \in Seq(W)
  <2>1. st[<<i, j, a, b, c>>] = Step(i, j, a, b, c)
    <3> HIDE DEF Step
    <3> QED
      BY <1>4, Zenon
  <2>2. NextRows(left, right, i, j, Dir(i, j), a, b, c) \in Seq(PossibleRows(left, right))
    <3> HIDE DEF Dir
    <3> QED
      BY <1>0, <1>3, NextRowsStay
  <2> QED
    BY <2>1, <2>2, <1>3
<1> HIDE DEF Step
<1>6. PICK g : Fills(g, st, <<>>, m, n, Seq(W))
  <2>1. StaysIn(st, m, n, Seq(W))
    <3> SUFFICES ASSUME NEW i \in 0 .. m, NEW j \in 0 .. n, NEW a \in Seq(W), NEW b \in Seq(W), NEW c \in Seq(W)
                 PROVE  st[<<i, j, a, b, c>>] \in Seq(W)
      BY Zenon DEF StaysIn
    <3>1. st[<<i, j, a, b, c>>] = Step(i, j, a, b, c) /\ Step(i, j, a, b, c) \in Seq(W)
      BY <1>5, Zenon
    <3> QED
      BY <3>1
  <2>0. <<>> \in Seq(W)
    OBVIOUS
  <2>2. PICK z \in Seq(W) : z = <<>>
    BY <2>0, Zenon
  <2>3. \E g : Fills(g, st, z, m, n, Seq(W))
    <3>1. PICK V : V = Seq(W)
      OBVIOUS
    <3>2. \E g : Fills(g, st, z, m, n, V)
      BY <2>1, <3>1, GridExists
    <3> QED
      BY <3>1, <3>2
  <2> QED
    BY <2>2, <2>3
<1>7. IsRows(T, left, right, g)
  <2>1. ASSUME NEW p \in Grid(m, n)
        PROVE  g[p] =
            LET i == p[1]
                j == p[2]
            IN  IF i = 0 /\ j = 0 THEN <<>>
                ELSE CASE Direction(T, left, right, i, j) = "diagonal" ->
                            Append(g[<<i - 1, j - 1>>],
                                [left |-> i - 1, right |-> j - 1, anchor |-> left[i].anchor,
                                 status |-> AlignedStatus(left[i], right[j])])
                       [] Direction(T, left, right, i, j) = "up" ->
                            Append(g[<<i - 1, j>>],
                                [left |-> i - 1, right |-> -1, anchor |-> left[i].anchor,
                                 status |-> "LEFT_ONLY"])
                       [] OTHER ->
                            Append(g[<<i, j - 1>>],
                                [left |-> -1, right |-> j - 1, anchor |-> right[j].anchor,
                                 status |-> "RIGHT_ONLY"])
    <3>1. PICK i \in 0 .. m, j \in 0 .. n : p = <<i, j>>
      BY DEF Grid
    <3>2. /\ i > 0 => g[<<i - 1, j>>] \in Seq(W)
          /\ j > 0 => g[<<i, j - 1>>] \in Seq(W)
          /\ i > 0 /\ j > 0 => g[<<i - 1, j - 1>>] \in Seq(W)
      <4>1. i > 0 => i - 1 \in 0 .. m
        OBVIOUS
      <4>2. j > 0 => j - 1 \in 0 .. n
        OBVIOUS
      <4>3. \A a \in 0 .. m, b \in 0 .. n : g[<<a, b>>] \in Seq(W)
        BY <1>6, Zenon DEF Grid, Fills
      <4> QED
        BY <4>1, <4>2, <4>3
    <3>3. PICK a \in Seq(W), b \in Seq(W), c \in Seq(W) :
             /\ a = IF i > 0 THEN g[<<i - 1, j>>] ELSE <<>>
             /\ b = IF j > 0 THEN g[<<i, j - 1>>] ELSE <<>>
             /\ c = IF i > 0 /\ j > 0 THEN g[<<i - 1, j - 1>>] ELSE <<>>
      <4>1. <<>> \in Seq(W)
        OBVIOUS
      <4> QED
        BY <3>2, <4>1, Zenon
    <3>4. g[p] = Step(i, j, a, b, c)
      <4>1. g[p] = st[<<i, j, a, b, c>>]
        BY <3>1, <3>3, <1>6, Zenon DEF FromNeighbours, Fills
      <4>2. st[<<i, j, a, b, c>>] = Step(i, j, a, b, c)
        BY <1>5
      <4> QED
        BY <4>1, <4>2
    <3>5. p[1] = i /\ p[2] = j
      BY <3>1
    <3>6. CASE i = 0 /\ j = 0
      BY <3>4, <3>5, <3>6, Zenon DEF Step, NextRows
    <3>7. CASE ~ (i = 0 /\ j = 0)
      <4>0. i + j > 0
        BY <3>7
      <4>1. PICK d : d = Dir(i, j)
        OBVIOUS
      <4>2. \/ d = "diagonal" /\ i > 0 /\ j > 0
            \/ d = "up" /\ i > 0
            \/ d = "left" /\ j > 0
        <5>1. i \in 0 .. Len(left) /\ j \in 0 .. Len(right) /\ Len(left) \in Nat /\ Len(right) \in Nat
          BY <1>0
        <5>2. GoesBack(Direction(T, left, right, i, j), T, left, right, i, j)
          BY <1>2, <4>0, <5>1, DirectionFollows
        <5> QED
          BY <4>1, <5>2, Zenon DEF Same, GoesBack
      <4>3. CASE d = "diagonal" /\ i > 0 /\ j > 0
        <5>1. Step(i, j, a, b, c) = Append(c, PairRow(left, right, i, j))
          BY <4>1, <4>3, <3>7 DEF Step, NextRows
        <5>2. Dir(i, j) = "diagonal" /\ Dir(i, j) # "up" /\ c = g[<<i - 1, j - 1>>]
          BY <4>1, <4>3, <3>3
        <5> QED
          BY <3>4, <3>5, <3>7, <5>1, <5>2, Zenon DEF PairRow
      <4>4. CASE d = "up" /\ i > 0
        <5>1. Step(i, j, a, b, c) = Append(a, LeftRow(left, i))
          BY <4>1, <4>4, <3>7 DEF Step, NextRows
        <5>2. Dir(i, j) = "up" /\ Dir(i, j) # "diagonal" /\ a = g[<<i - 1, j>>]
          BY <4>1, <4>4, <3>3
        <5> QED
          BY <3>4, <3>5, <3>7, <5>1, <5>2, Zenon DEF LeftRow
      <4>5. CASE d = "left" /\ j > 0
        <5>1. Step(i, j, a, b, c) = Append(b, RightRow(right, j))
          BY <4>1, <4>5, <3>7 DEF Step, NextRows
        <5>2. Dir(i, j) # "up" /\ Dir(i, j) # "diagonal" /\ b = g[<<i, j - 1>>]
          BY <4>1, <4>5, <3>3
        <5> QED
          BY <3>4, <3>5, <3>7, <5>1, <5>2, Zenon DEF RightRow
      <4> QED
        BY <4>2, <4>3, <4>4, <4>5, Zenon
    <3> QED
      BY <3>6, <3>7, Zenon
  <2>2. Grid(m, n) = (0 .. Len(left)) \X (0 .. Len(right))
    BY <1>0 DEF Grid
  <2>3. g = [p \in Grid(m, n) |-> g[p]]
    BY <1>6 DEF Fills
  <2> QED
    BY <2>1, <2>2, <2>3, Zenon DEF IsRows
<1>8. PICK R : R = CHOOSE rows : IsRows(T, left, right, rows)
  OBVIOUS
<1>9. IsRows(T, left, right, R)
  BY <1>7, <1>8, Zenon
<1>10. AlignTraces(left, right) = R[<<m, n>>]
  BY <1>0, <1>1, <1>8 DEF AlignTraces, IsRows
<1> DEFINE Good(i, j) == Aligned(R[<<i, j>>], left, right, i, j, T[<<i, j>>])
           S == {N \in Nat : \A i \in 0 .. m, j \in 0 .. n : i + j <= N => Good(i, j)}
<1>11. ASSUME NEW i \in 0 .. m, NEW j \in 0 .. n
       PROVE  R[<<i, j>>] = NextRows(left, right, i, j, Dir(i, j), R[<<i - 1, j>>], R[<<i, j - 1>>], R[<<i - 1, j - 1>>])
  <2>1. PICK p : p = <<i, j>>
    BY Zenon
  <2>2. p \in (0 .. Len(left)) \X (0 .. Len(right)) /\ p[1] = i /\ p[2] = j
    BY <2>1, <1>0
  <2> QED
    BY <2>1, <2>2, <1>9, Zenon DEF IsRows, NextRows, PairRow, LeftRow, RightRow
<1>12. Good(0, 0)
  <2>1. R[<<0, 0>>] = <<>>
    <3>1. 0 \in 0 .. m /\ 0 \in 0 .. n
      OBVIOUS
    <3> QED
      BY <1>11, <3>1, Zenon DEF NextRows
  <2>2. T[<<0, 0>>] = 0
    BY <1>2 DEF BestCells
  <2> QED
    BY <2>1, <2>2, AlignedStart
<1>13. 0 \in S
  <2>1. \A i \in 0 .. m, j \in 0 .. n : i + j <= 0 => i = 0 /\ j = 0
    OBVIOUS
  <2> HIDE DEF Good
  <2> QED
    BY <1>12, <2>1
<1>14. ASSUME NEW N \in S PROVE N + 1 \in S
  <2>0. N \in Nat /\ N + 1 \in Nat
    OBVIOUS
  <2> HIDE DEF Good
  <2> SUFFICES ASSUME NEW i \in 0 .. m, NEW j \in 0 .. n, i + j <= N + 1
               PROVE  Good(i, j)
    BY <2>0
  <2>1. \A k \in 0 .. m, l \in 0 .. n : k + l <= N => Good(k, l)
    OBVIOUS
  <2> HIDE DEF S
  <2>2. CASE i + j = 0
    <3>1. i = 0 /\ j = 0
      BY <2>2
    <3> QED
      BY <3>1, <1>12
  <2>3. CASE i + j > 0
    <3>1. PICK d : d = Dir(i, j)
      OBVIOUS
    <3>2. \/ /\ d = "diagonal" /\ Same(left, right, i, j)
             /\ T[<<i, j>>] = T[<<i - 1, j - 1>>] + DiagonalScore(left[i], right[j])
          \/ d = "up" /\ i > 0 /\ T[<<i, j>>] = T[<<i - 1, j>>] - 2
          \/ d = "left" /\ j > 0 /\ T[<<i, j>>] = T[<<i, j - 1>>] - 2
      <4>1. i \in 0 .. Len(left) /\ j \in 0 .. Len(right) /\ Len(left) \in Nat /\ Len(right) \in Nat
        BY <1>0
      <4>2. GoesBack(Direction(T, left, right, i, j), T, left, right, i, j)
        BY <1>2, <2>3, <4>1, DirectionFollows
      <4> QED
        BY <3>1, <4>2, Zenon DEF GoesBack
    <3>3. \A k \in 0 .. m, l \in 0 .. n : T[<<k, l>>] \in Int
      BY <1>0, <1>2, Zenon DEF BestCells, Grid
    <3>4. ~ (i = 0 /\ j = 0)
      BY <2>3
    <3>5. CASE d = "diagonal" /\ Same(left, right, i, j)
               /\ T[<<i, j>>] = T[<<i - 1, j - 1>>] + DiagonalScore(left[i], right[j])
      <4>1. i > 0 /\ j > 0 /\ left[i].anchor = right[j].anchor
        BY <3>5 DEF Same
      <4>2. PICK a \in 0 .. m, b \in 0 .. n : i = a + 1 /\ j = b + 1 /\ a + b <= N /\ i - 1 = a /\ j - 1 = b
        <5>1. /\ i - 1 \in 0 .. m /\ j - 1 \in 0 .. n
              /\ i = (i - 1) + 1 /\ j = (j - 1) + 1 /\ (i - 1) + (j - 1) <= N
          BY <4>1, <2>0
        <5> QED
          BY <5>1
      <4>3. Aligned(R[<<a, b>>], left, right, a, b, T[<<a, b>>])
        BY <2>1, <4>2 DEF Good
      <4>4. PICK aligned : aligned = PairRow(left, right, i, j)
        OBVIOUS
      <4>5. aligned["left"] = a /\ aligned["right"] = b /\ aligned \in PossibleRows(left, right)
        <5>1. aligned["left"] = a /\ aligned["right"] = b
          BY <4>2, <4>4 DEF PairRow
        <5>2. i \in 0 .. Len(left) /\ j \in 0 .. Len(right)
          BY <1>0
        <5> QED
          BY <4>4, <5>1, <5>2, RowIsPossible, Zenon
      <4>6. R[<<i, j>>] = Append(R[<<a, b>>], aligned)
        <5>1. R[<<i, j>>] = NextRows(left, right, i, j, d, R[<<i - 1, j>>], R[<<i, j - 1>>], R[<<i - 1, j - 1>>])
          BY <1>11, <3>1, Zenon
        <5> QED
          BY <5>1, <3>4, <3>5, <4>2, <4>4, Zenon DEF NextRows
      <4>7. Aligned(Append(R[<<a, b>>], aligned), left, right, a + 1, b + 1, T[<<a, b>>] + DiagonalScore(left[a + 1], right[b + 1]))
        <5>1. a \in Nat /\ b \in Nat /\ T[<<a, b>>] \in Int
          BY <3>3
        <5>2. left[a + 1].anchor = right[b + 1].anchor
          BY <4>1, <4>2
        <5> QED
          BY <4>3, <4>5, <5>1, <5>2, AlignedPair, Zenon
      <4> QED
        BY <4>2, <4>6, <4>7, <3>5 DEF Good
    <3>6. CASE d = "up" /\ i > 0 /\ T[<<i, j>>] = T[<<i - 1, j>>] - 2
      <4>2. PICK a \in 0 .. m : i = a + 1 /\ a + j <= N /\ i - 1 = a
        BY <3>6, <2>0
      <4>3. Aligned(R[<<a, j>>], left, right, a, j, T[<<a, j>>])
        BY <2>1, <4>2 DEF Good
      <4>4. PICK aligned : aligned = LeftRow(left, i)
        OBVIOUS
      <4>5. aligned["left"] = a /\ aligned["right"] = -1 /\ aligned \in PossibleRows(left, right)
        <5>1. aligned["left"] = a /\ aligned["right"] = -1
          BY <4>2, <4>4 DEF LeftRow
        <5>2. i \in 0 .. Len(left) /\ j \in 0 .. Len(right)
          BY <1>0
        <5> QED
          BY <4>4, <5>1, <5>2, RowIsPossible
      <4>6. R[<<i, j>>] = Append(R[<<a, j>>], aligned)
        <5>1. R[<<i, j>>] = NextRows(left, right, i, j, d, R[<<i - 1, j>>], R[<<i, j - 1>>], R[<<i - 1, j - 1>>])
          BY <1>11, <3>1
        <5> QED
          BY <5>1, <3>4, <3>6, <4>2, <4>4, Zenon DEF NextRows
      <4>7. Aligned(Append(R[<<a, j>>], aligned), left, right, a + 1, j, T[<<a, j>>] - 2)
        <5>1. a \in Nat /\ j \in Nat /\ T[<<a, j>>] \in Int
          BY <3>3
        <5> QED
          BY <4>3, <4>5, <5>1, AlignedLeft, Zenon
      <4> QED
        BY <4>2, <4>6, <4>7, <3>6 DEF Good
    <3>7. CASE d = "left" /\ j > 0 /\ T[<<i, j>>] = T[<<i, j - 1>>] - 2
      <4>2. PICK b \in 0 .. n : j = b + 1 /\ i + b <= N /\ j - 1 = b
        BY <3>7, <2>0
      <4>3. Aligned(R[<<i, b>>], left, right, i, b, T[<<i, b>>])
        BY <2>1, <4>2 DEF Good
      <4>4. PICK aligned : aligned = RightRow(right, j)
        OBVIOUS
      <4>5. aligned["left"] = -1 /\ aligned["right"] = b /\ aligned \in PossibleRows(left, right)
        <5>1. aligned["left"] = -1 /\ aligned["right"] = b
          BY <4>2, <4>4 DEF RightRow
        <5>2. i \in 0 .. Len(left) /\ j \in 0 .. Len(right)
          BY <1>0
        <5> QED
          BY <4>4, <5>1, <5>2, RowIsPossible, Zenon
      <4>6. R[<<i, j>>] = Append(R[<<i, b>>], aligned)
        <5>1. R[<<i, j>>] = NextRows(left, right, i, j, d, R[<<i - 1, j>>], R[<<i, j - 1>>], R[<<i - 1, j - 1>>])
          BY <1>11, <3>1
        <5> QED
          BY <5>1, <3>4, <3>7, <4>2, <4>4, Zenon DEF NextRows
      <4>7. Aligned(Append(R[<<i, b>>], aligned), left, right, i, b + 1, T[<<i, b>>] - 2)
        <5>1. i \in Nat /\ b \in Nat /\ T[<<i, b>>] \in Int
          BY <3>3
        <5> QED
          BY <4>3, <4>5, <5>1, AlignedRight, Zenon
      <4> QED
        BY <4>2, <4>6, <4>7, <3>7 DEF Good
    <3> QED
      BY <3>2, <3>5, <3>6, <3>7, Zenon
  <2> QED
    <3>1. i + j = 0 \/ i + j > 0
      OBVIOUS
    <3> QED
      BY <3>1, <2>2, <2>3
<1>15. S = Nat
  <2>1. S \in SUBSET Nat
    OBVIOUS
  <2> HIDE DEF S
  <2> QED
    BY <1>13, <1>14, <2>1, SetInduction, Zenon
<1>16. Good(m, n)
  <2>1. m + n \in S
    <3> HIDE DEF S
    <3> QED
      BY <1>15
  <2> HIDE DEF Good
  <2> QED
    BY <2>1
<1> QED
  BY <1>0, <1>1, <1>10, <1>16

\* The states shown before and after the divergence lie on their side of it.
EitherSide(rows, k, side, b, a) ==
  /\ b >= 0 => (CHOOSE i \in DOMAIN rows : rows[i][side] = b) < k
  /\ a >= 0 => (CHOOSE i \in DOMAIN rows : rows[i][side] = a) >= k

LEMMA StatesLieApart ==
  ASSUME NEW W, NEW rows \in Seq(W), NEW side, NEW n \in Nat, RunsThrough(rows, side, n),
         \A m \in DOMAIN rows : rows[m][side] \in -1 .. n - 1,
         NEW events, Len(events) = n, NEW k \in DOMAIN rows
  PROVE  EitherSide(rows, k, side, ObservedStateRef(events, ContextOrdinal(rows, k, side, TRUE), TRUE),
               ObservedStateRef(events, ContextOrdinal(rows, k, side, FALSE), FALSE))
<1>0. PICK len \in Nat : len = Len(rows) /\ DOMAIN rows = 1 .. len
  OBVIOUS
<1>1. \A i \in 1 .. len : rows[i][side] \in Int /\ rows[i][side] >= -1
  BY <1>0
<1>2. \A i, m \in 1 .. len : i < m /\ rows[i][side] >= 0 /\ rows[m][side] >= 0 => rows[i][side] < rows[m][side]
  BY <1>0, Zenon DEF RunsThrough
<1>3. \A x \in 0 .. n - 1 : \E i \in 1 .. len : rows[i][side] = x
  BY <1>0 DEF RunsThrough
<1>4. k \in 1 .. len
  BY <1>0
<1>5. ASSUME NEW x \in 0 .. n - 1, NEW i, i = CHOOSE i1 \in DOMAIN rows : rows[i1][side] = x
      PROVE  i \in 1 .. len /\ rows[i][side] = x
  BY <1>0, <1>3, <1>5
<1>6. ASSUME NEW o, o = ObservedStateRef(events, ContextOrdinal(rows, k, side, TRUE), TRUE), o >= 0
      PROVE  (CHOOSE i \in DOMAIN rows : rows[i][side] = o) < k
  <2>1. PICK c : c = ContextOrdinal(rows, k, side, TRUE)
    BY Zenon
  <2> DEFINE refs == {x \in 0 .. (Len(events) - 1) : events[x + 1].ref /\ x < c}
  <2>2. o = IF refs = {} THEN -1 ELSE Max(refs)
    BY <1>6, <2>1 DEF ObservedStateRef
  <2>3. refs \in SUBSET Int /\ IsFiniteSet(refs)
    <3>1. refs \subseteq 0 .. n - 1
      OBVIOUS
    <3>a. 0 \in Int /\ n - 1 \in Int
      OBVIOUS
    <3>0. PICK u \in Int, v \in Int : u = 0 /\ v = n - 1
      BY <3>a, Zenon
    <3>2. IsFiniteSet(0 .. n - 1)
      BY <3>0, FS_Interval, Zenon
    <3> QED
      BY <3>1, <3>2, FS_Subset
  <2>4. o \in refs
    <3>1. ~ (-1 >= 0)
      OBVIOUS
    <3> HIDE DEF refs
    <3>2. refs # {}
      BY <2>2, <3>1, <1>6
    <3> QED
      BY <2>2, <2>3, <3>2, MaxIsMember, Zenon
  <2>5. o \in 0 .. n - 1 /\ o < c
    BY <2>4
  <2>6. PICK i : i = CHOOSE i1 \in DOMAIN rows : rows[i1][side] = o
    OBVIOUS
  <2>7. i \in 1 .. len /\ rows[i][side] = o
    BY <1>5, <2>5, <2>6
  <2> DEFINE earlier == {m \in 1 .. (k - 1) : rows[m][side] >= 0}
  <2>8. CASE rows[k][side] >= 0
    <3>1. c = rows[k][side]
      BY <2>1, <2>8 DEF ContextOrdinal
    <3>2. i # k /\ ~ (k < i)
      <4>1. PICK x \in Int, y \in Int : x = rows[i][side] /\ y = rows[k][side]
        BY <1>1, <1>4, <2>7, Zenon
      <4>2. x < y /\ x >= 0 /\ y >= 0
        BY <4>1, <3>1, <2>5, <2>7, <2>8
      <4>3. ~ (y < x) /\ x # y
        BY <4>2
      <4> QED
        BY <4>1, <4>2, <4>3, <1>2, <1>4, <2>7, Zenon
    <3>3. i < k
      BY <3>2, <2>7, <1>4
    <3> QED
      BY <2>6, <3>3
  <2>9. CASE ~ (rows[k][side] >= 0)
    <3>1. c = IF earlier = {} THEN 0 ELSE rows[Max(earlier)][side] + 1
      BY <2>1, <2>9, Zenon DEF ContextOrdinal
    <3>2. earlier \in SUBSET Int /\ IsFiniteSet(earlier)
      <4>1. earlier \subseteq 1 .. k - 1
        OBVIOUS
      <4>2. k - 1 \in Int
        BY <1>4
      <4>3. IsFiniteSet(1 .. k - 1)
        <5>1. 1 \in Int
          OBVIOUS
        <5> QED
          BY <4>2, <5>1, FS_Interval, Zenon
      <4> QED
        BY <4>1, <4>3, FS_Subset
    <3>3. earlier # {}
      <4> HIDE DEF earlier
      <4>1. ~ (o < 0)
        BY <2>5
      <4> QED
        BY <3>1, <2>5, <4>1
    <3>4. PICK m : m = Max(earlier)
      BY Zenon
    <3>5. m \in earlier
      <4> HIDE DEF earlier
      <4> QED
        BY <3>2, <3>3, <3>4, MaxIsMember, Zenon
    <3>6. m \in 1 .. len /\ m < k /\ rows[m][side] >= 0
      BY <3>5, <1>4
    <3>7. c = rows[m][side] + 1
      <4> HIDE DEF earlier
      <4> QED
        BY <3>1, <3>3, <3>4, Zenon
    <3>8. ~ (m < i)
      <4>1. PICK x \in Int, y \in Int : x = rows[i][side] /\ y = rows[m][side]
        BY <1>1, <3>6, <2>7, Zenon
      <4>2. x < y + 1 /\ x >= 0
        BY <4>1, <3>7, <2>5, <2>7
      <4>3. ~ (y < x)
        BY <4>2
      <4> QED
        BY <4>1, <4>2, <4>3, <1>2, <3>6, <2>7, Zenon
    <3>9. i < k
      BY <3>6, <3>8, <2>7, <1>4
    <3> QED
      BY <2>6, <3>9
  <2> QED
    BY <2>8, <2>9
<1>7. ASSUME NEW o, o = ObservedStateRef(events, ContextOrdinal(rows, k, side, FALSE), FALSE), o >= 0
      PROVE  (CHOOSE i \in DOMAIN rows : rows[i][side] = o) >= k
  <2>1. PICK c : c = ContextOrdinal(rows, k, side, FALSE)
    BY Zenon
  <2> DEFINE refs == {x \in 0 .. (Len(events) - 1) : events[x + 1].ref /\ (c >= 0 /\ x >= c)}
  <2>2. o = IF refs = {} THEN -1 ELSE Min(refs)
    BY <1>7, <2>1 DEF ObservedStateRef
  <2>3. refs \in SUBSET Nat
    OBVIOUS
  <2>4. o \in refs
    <3>1. ~ (-1 >= 0)
      OBVIOUS
    <3> HIDE DEF refs
    <3>2. refs # {}
      BY <2>2, <3>1, <1>7
    <3> QED
      BY <2>2, <2>3, <3>2, MinIsMember, Zenon
  <2>5. o \in 0 .. n - 1 /\ c >= 0 /\ o >= c
    BY <2>4
  <2>6. PICK i : i = CHOOSE i1 \in DOMAIN rows : rows[i1][side] = o
    OBVIOUS
  <2>7. i \in 1 .. len /\ rows[i][side] = o
    BY <1>5, <2>5, <2>6
  <2> DEFINE later == {m \in (k + 1) .. Len(rows) : rows[m][side] >= 0}
  <2>8. CASE rows[k][side] >= 0
    <3>1. c = rows[k][side]
      BY <2>1, <2>8 DEF ContextOrdinal
    <3>2. ~ (i < k)
      <4>1. PICK x \in Int, y \in Int : x = rows[i][side] /\ y = rows[k][side]
        BY <1>1, <1>4, <2>7, Zenon
      <4>2. x >= y /\ x >= 0 /\ y >= 0
        BY <4>1, <3>1, <2>5, <2>7, <2>8
      <4>3. ~ (x < y)
        BY <4>2
      <4> QED
        BY <4>1, <4>2, <4>3, <1>2, <1>4, <2>7
    <3>3. i >= k
      BY <3>2, <2>7, <1>4
    <3> QED
      BY <2>6, <3>3
  <2>9. CASE ~ (rows[k][side] >= 0)
    <3>1. c = IF later = {} THEN -1 ELSE rows[Min(later)][side]
      BY <2>1, <2>9 DEF ContextOrdinal
    <3>2. later \in SUBSET Nat
      BY <1>0, <1>4
    <3>3. later # {}
      <4> HIDE DEF later
      <4>1. ~ (-1 >= 0)
        OBVIOUS
      <4> QED
        BY <3>1, <2>5, <4>1
    <3>4. PICK m : m = Min(later)
      BY Zenon
    <3>5. m \in later
      <4> HIDE DEF later
      <4> QED
        BY <3>2, <3>3, <3>4, MinIsMember, Zenon
    <3>6. m \in 1 .. len /\ m > k /\ rows[m][side] >= 0
      BY <3>5, <1>4, <1>0
    <3>7. c = rows[m][side]
      <4> HIDE DEF later
      <4> QED
        BY <3>1, <3>3, <3>4, Zenon
    <3>8. ~ (i < m)
      <4>1. PICK x \in Int, y \in Int : x = rows[i][side] /\ y = rows[m][side]
        BY <1>1, <3>6, <2>7, Zenon
      <4>2. x >= y /\ x >= 0
        BY <4>1, <3>7, <2>5, <2>7
      <4>3. ~ (x < y)
        BY <4>2
      <4> QED
        BY <4>1, <4>2, <4>3, <1>2, <3>6, <2>7, Zenon
    <3>9. i >= k
      BY <3>6, <3>8, <2>7, <1>4
    <3> QED
      BY <2>6, <3>9
  <2> QED
    BY <2>8, <2>9
<1> QED
  BY <1>6, <1>7, Zenon DEF EitherSide

\* The first divergence is a row, or there is none.
LEMMA DivergenceIsFound ==
  ASSUME NEW W, NEW rows \in Seq(W), NEW k, k = FirstDivergence(rows)
  PROVE  /\ k > 0 => k \in DOMAIN rows
         /\ k = 0 => \A i \in DOMAIN rows :
                        rows[i].status # "MATCH" => rows[i].anchor \in {"start", "request"}
<1> DEFINE found == {m \in DOMAIN rows : Meaningful(rows[m])}
<1>1. k = IF found = {} THEN 0 ELSE Min(found)
  BY DEF FirstDivergence
<1>2. found \in SUBSET Nat /\ \A m \in found : m > 0 /\ m # 0
  OBVIOUS
<1>3. CASE found = {}
  <2>1. k = 0
    BY <1>1, <1>3
  <2>2. \A i \in DOMAIN rows : ~ Meaningful(rows[i])
    BY <1>3
  <2>3. ~ (0 > 0)
    OBVIOUS
  <2> QED
    BY <2>1, <2>2, <2>3, Zenon DEF Meaningful
<1>4. CASE found # {}
  <2> HIDE DEF found
  <2>1. k \in found
    BY <1>1, <1>2, <1>4, MinIsMember, Zenon
  <2>2. k \in DOMAIN rows /\ k # 0
    BY <2>1, <1>2 DEF found
  <2> QED
    BY <2>2
<1> QED
  BY <1>3, <1>4

\* What a diagnosis of two traces says, whatever they are.
SoundDiagnosis(d, left, right, x) ==
  /\ RunsThrough(d.rows, "left", Len(left))
  /\ RunsThrough(d.rows, "right", Len(right))
  /\ Paired(d.rows) \in Matchings(left, right)
  /\ \A m \in Matchings(left, right) :
         MatchingScore(m, left, right) <= MatchingScore(Paired(d.rows), left, right)
  /\ d.mode = "COMPLETE_TRACE_DIAGNOSTIC" => x = {}
  /\ d.position = 0 => \A i \in DOMAIN d.rows :
         d.rows[i].status # "MATCH" => d.rows[i].anchor \in {"start", "request"}
  /\ d.position > 0 => \A s \in Sides :
         /\ d.state[s].before >= 0 =>
              (CHOOSE i \in DOMAIN d.rows : d.rows[i][s] = d.state[s].before) < d.position
         /\ d.state[s].after >= 0 =>
              (CHOOSE i \in DOMAIN d.rows : d.rows[i][s] = d.state[s].after) >= d.position

LEMMA DiagnosisFacts ==
  ASSUME NEW E, NEW left \in Seq(E), NEW right \in Seq(E), NEW x, NEW d, d = Diagnosis(left, right, x)
  PROVE  SoundDiagnosis(d, left, right, x)
<1>0. PICK m \in Nat, n \in Nat : m = Len(left) /\ n = Len(right)
  OBVIOUS
<1>1. PICK rows : rows = AlignTraces(left, right)
  OBVIOUS
<1>2. PICK both : both = [s \in Sides |-> IF s = "left" THEN left ELSE right]
  BY Zenon
<1>3. PICK k : k = FirstDivergence(rows)
  OBVIOUS
<1>4. /\ d.rows = rows /\ d.position = k /\ d.state = StateContext(rows, k, both)
      /\ d.mode = IF x = {} THEN "COMPLETE_TRACE_DIAGNOSTIC" ELSE "DIAGNOSTIC_PARTIAL"
  BY <1>1, <1>2, <1>3 DEF Diagnosis
<1>5. PICK T : T = ScoreTable(left, right)
  OBVIOUS
<1>6. Aligned(rows, left, right, m, n, T[<<m, n>>])
  BY <1>0, <1>1, <1>5, RowsAreAligned
<1>7. PICK W : W = PossibleRows(left, right)
  OBVIOUS
<1>8. /\ rows \in Seq(W)
      /\ \A i \in DOMAIN rows : rows[i]["left"] \in -1 .. m - 1
      /\ \A i \in DOMAIN rows : rows[i]["right"] \in -1 .. n - 1
      /\ RunsThrough(rows, "left", m) /\ RunsThrough(rows, "right", n)
      /\ PrefixMatching(Paired(rows), left, right, m, n)
      /\ ScoreAt(Paired(rows), left, right, m, n) = T[<<m, n>>]
  BY <1>6, <1>7, Zenon DEF Aligned
<1>9. \A M : M \in Matchings(left, right) <=> PrefixMatching(M, left, right, m, n)
  BY <1>0, Zenon DEF Matchings, PrefixMatching
<1>10. \A M : MatchingScore(M, left, right) = ScoreAt(M, left, right, m, n)
  BY <1>0, Zenon DEF MatchingScore, ScoreAt, Equals, Unequals
<1>11. ASSUME NEW M \in Matchings(left, right)
       PROVE  MatchingScore(M, left, right) <= MatchingScore(Paired(rows), left, right)
  <2>1. BestCells(T, left, right)
    BY <1>5, TableIsBest
  <2>2. m \in 0 .. Len(left) /\ n \in 0 .. Len(right) /\ PrefixMatching(M, left, right, m, n)
    <3>1. m \in 0 .. Len(left) /\ n \in 0 .. Len(right)
      BY <1>0
    <3> QED
      BY <3>1, <1>9
  <2>3. ScoreAt(M, left, right, m, n) <= T[<<m, n>>]
    BY <2>1, <2>2, CellBoundsMatchings
  <2>4. MatchingScore(M, left, right) = ScoreAt(M, left, right, m, n)
    BY <1>10, Zenon
  <2>5. MatchingScore(Paired(rows), left, right) = T[<<m, n>>]
    BY <1>8, <1>10, Zenon
  <2> QED
    BY <2>3, <2>4, <2>5
<1>12. x # {} => d.mode # "COMPLETE_TRACE_DIAGNOSTIC"
  BY <1>4
<1>13. /\ k > 0 => k \in DOMAIN rows
       /\ k = 0 => \A i \in DOMAIN rows :
                        rows[i].status # "MATCH" => rows[i].anchor \in {"start", "request"}
  BY <1>3, <1>8, DivergenceIsFound, Zenon
<1>14. ASSUME k > 0, NEW s \in Sides
       PROVE  /\ d.state[s].before >= 0 =>
                   (CHOOSE i \in DOMAIN rows : rows[i][s] = d.state[s].before) < k
              /\ d.state[s].after >= 0 =>
                   (CHOOSE i \in DOMAIN rows : rows[i][s] = d.state[s].after) >= k
  <2>1. k \in DOMAIN rows /\ k # 0
    BY <1>13, <1>14
  <2>2. PICK len \in Nat : len = Len(both[s]) /\ RunsThrough(rows, s, len)
                           /\ \A i \in DOMAIN rows : rows[i][s] \in -1 .. len - 1
    <3>1. CASE s = "left"
      <4>1. both[s] = left
        BY <1>2, <3>1
      <4> QED
        BY <1>0, <1>8, <3>1, <4>1, Zenon
    <3>2. CASE s = "right"
      <4>1. both[s] = right
        BY <1>2, <3>2
      <4> QED
        BY <1>0, <1>8, <3>2, <4>1, Zenon
    <3> QED
      BY <3>1, <3>2 DEF Sides
  <2>3. PICK b, a : b = ObservedStateRef(both[s], ContextOrdinal(rows, k, s, TRUE), TRUE)
                    /\ a = ObservedStateRef(both[s], ContextOrdinal(rows, k, s, FALSE), FALSE)
    BY Zenon
  <2>4. d.state[s] = [before |-> b, after |-> a]
    BY <1>4, <2>1, <2>3, Zenon DEF StateContext
  <2>5. d.state[s].before = b /\ d.state[s].after = a
    BY <2>4
  <2>6. EitherSide(rows, k, s, b, a)
    BY <1>8, <2>1, <2>2, <2>3, StatesLieApart, Zenon
  <2> QED
    BY <2>5, <2>6, Zenon DEF EitherSide
<1> QED
  BY <1>0, <1>4, <1>8, <1>9, <1>11, <1>12, <1>13, <1>14, Zenon DEF SoundDiagnosis

(* A trace is read after the row that says it is complete, and no event is  *)
(* written after that row: this carries a complete diagnosis to the answer. *)
LabEvents == UNION {{t[i] : i \in DOMAIN t} : t \in Traces}
Experiments == UNION {{e[a] : a \in LabAttempts} : e \in Enrolments}
WrittenRows ==
  [experiment : Experiments, plan : Traces, n : Nat, status : {"running", "completed", "failed"}, complete : BOOLEAN]
Readings == [status : {"unread", "running", "completed", "failed"}, complete : BOOLEAN, events : Seq(LabEvents)]

\* The sides whose events have been read.
EventsRead(pc) ==
  CASE pc \in {"row_right", "events_right"} -> {"left"}
    [] pc \in {"loaded", "answered"} -> {"left", "right"}
    [] OTHER -> {}

LabInv ==
  /\ written \in [LabAttempts -> WrittenRows]
  /\ \A a \in LabAttempts : /\ written[a].n <= Len(written[a].plan)
                            /\ written[a].status = "completed" => written[a].n = Len(written[a].plan)
  /\ lab = [pc |-> lab.pc, request |-> lab.request, read |-> lab.read, answer |-> lab.answer]
  /\ lab.read \in [Sides -> Readings]
  /\ lab.pc # "idle" => lab.request \in LabRequests
  /\ lab.pc = "idle" => lab.read = [s \in Sides |-> Unread]
  /\ \A s \in Sides : lab.read[s].status = "completed" => written[lab.request[s]].status = "completed"
  /\ \A s \in EventsRead(lab.pc) :
        lab.read[s].status = "completed" => lab.read[s].events = written[lab.request[s]].plan
  /\ lab.pc = "answered" =>
        \E x : /\ lab.answer = Diagnosis(AlignedTrace("left"), AlignedTrace("right"), x)
               /\ x = {} => \A s \in Sides : lab.read[s].status = "completed"

LEMMA PlansAreSequences ==
  ASSUME NEW t \in Traces
  PROVE  t \in Seq(LabEvents)
<1>1. PICK E : t \in Seq(E)
  BY LabAssumption, Zenon
<1>2. \A i \in 1 .. Len(t) : t[i] \in LabEvents
  BY <1>1 DEF LabEvents
<1> QED
  BY <1>1, <1>2

\* Ordering a trace leaves a trace.
LEMMA NormalizedIsSequence ==
  ASSUME NEW E, NEW events \in Seq(E), NEW declared
  PROVE  \E F : NormalizeTrace(AnalysisEvents(events, declared)) \in Seq(F)
<1>1. PICK f : f = AnalysisEvents(events, declared)
  OBVIOUS
<1>2. PICK n \in Nat : DOMAIN f = 1 .. n
  BY <1>1 DEF AnalysisEvents
<1> DEFINE g(i) == f[CHOOSE j \in DOMAIN f : Cardinality({k \in DOMAIN f : f[k].seq < f[j].seq}) + 1 = i]
<1>3. NormalizeTrace(f) = [i \in DOMAIN f |-> g(i)]
  BY DEF NormalizeTrace
<1> HIDE DEF g
<1>4. PICK F : F = {g(i) : i \in 1 .. n}
  BY Zenon
<1>5. PICK t : t = NormalizeTrace(f)
  OBVIOUS
<1>6. t = [i \in 1 .. n |-> g(i)] /\ \A i \in 1 .. n : g(i) \in F
  BY <1>2, <1>3, <1>4, <1>5
<1>7. t \in Seq(F)
  BY <1>6
<1> QED
  BY <1>1, <1>5, <1>7

LEMMA LabStarts == LabInit => LabInv
<1> SUFFICES ASSUME LabInit PROVE LabInv
  OBVIOUS
<1>1. PICK plan \in [LabAttempts -> Traces], enrolled \in Enrolments :
         written = [a \in LabAttempts |-> [experiment |-> enrolled[a], plan |-> plan[a], n |-> 0,
                                           status |-> "running", complete |-> FALSE]]
  BY Zenon DEF LabInit
<1>2. \A a \in LabAttempts : enrolled[a] \in Experiments
  BY DEF Experiments
<1>3. written \in [LabAttempts -> WrittenRows]
  BY <1>1, <1>2 DEF WrittenRows
<1>4. \A a \in LabAttempts : written[a].status # "completed" /\ written[a].n <= Len(written[a].plan)
  <2>1. \A a \in LabAttempts : written[a].status # "completed" /\ written[a].n = 0 /\ written[a].plan \in Traces
    BY <1>1
  <2>2. \A t \in Traces : 0 <= Len(t)
    <3> SUFFICES ASSUME NEW t \in Traces PROVE 0 <= Len(t)
      OBVIOUS
    <3>1. PICK L : t \in Seq(L)
      BY PlansAreSequences
    <3> QED
      BY <3>1
  <2> QED
    BY <2>1, <2>2
<1>5. lab = [pc |-> "idle", request |-> NoLab, read |-> [s \in Sides |-> Unread], answer |-> NoLab]
  BY DEF LabInit
<1>6. /\ lab = [pc |-> lab.pc, request |-> lab.request, read |-> lab.read, answer |-> lab.answer]
      /\ lab.pc = "idle" /\ lab.read = [s \in Sides |-> Unread]
  BY <1>5
<1>7. Unread \in Readings /\ Unread.status # "completed"
  <2>1. <<>> \in Seq(LabEvents)
    OBVIOUS
  <2> QED
    BY <2>1 DEF Unread, Readings
<1>8. lab.read \in [Sides -> Readings] /\ \A s \in Sides : lab.read[s].status # "completed"
  BY <1>6, <1>7
<1>9. EventsRead("idle") = {}
  BY DEF EventsRead
<1> QED
  BY <1>3, <1>4, <1>6, <1>8, <1>9 DEF LabInv

\* A worker's step: what has been read as complete stays as it was.
LEMMA WorkerStep ==
  ASSUME LabInv, NEW a \in LabAttempts, PersistEvent(a) \/ AttemptEnds(a)
  PROVE  LabInv'
<1>1. UNCHANGED lab
  BY DEF PersistEvent, AttemptEnds
<1>2. PICK w \in WrittenRows : w = written[a]
  BY DEF LabInv
<1>3. w.status = "running"
  BY <1>2 DEF PersistEvent, AttemptEnds
<1>4. PICK v : /\ written' = [written EXCEPT ![a] = v] /\ v \in WrittenRows
               /\ v.n <= Len(v.plan) /\ (v.status = "completed" => v.n = Len(v.plan))
  <2>0. PICK len \in Nat : len = Len(w.plan) /\ w.n \in Nat /\ w.n <= len
    <3>1. PICK L : w.plan \in Seq(L)
      BY PlansAreSequences DEF WrittenRows
    <3> QED
      BY <3>1, <1>2 DEF LabInv, WrittenRows
  <2>1. CASE PersistEvent(a)
    <3>1. w.n + 1 \in Nat
      BY <1>2 DEF WrittenRows
    <3>2. PICK v : v = [w EXCEPT !.n = w.n + 1]
      BY Zenon
    <3>3. v \in WrittenRows /\ v.status = "running" /\ v.n = w.n + 1 /\ v.plan = w.plan
      BY <1>2, <1>3, <3>1, <3>2 DEF WrittenRows
    <3>5. v.n <= Len(v.plan)
      <4>1. w.n < len
        BY <2>0, <2>1, <1>2 DEF PersistEvent
      <4> QED
        BY <4>1, <2>0, <3>3
    <3>4. written' = [written EXCEPT ![a] = v]
      BY <2>1, <3>2, <1>2 DEF PersistEvent
    <3> QED
      BY <3>3, <3>4, <3>5, Zenon
  <2>2. CASE AttemptEnds(a)
    <3>1. PICK status \in {"completed", "failed"} :
            /\ status = "completed" => written[a].n = Len(written[a].plan)
            /\ written' = [written EXCEPT ![a].status = status, ![a].complete = (status = "completed")]
      BY <2>2, Zenon DEF AttemptEnds
    <3>2. PICK done \in BOOLEAN : done = (status = "completed")
      BY Zenon
    <3>3. PICK v : v = [[w EXCEPT !.status = status] EXCEPT !.complete = done]
      OBVIOUS
    <3>4. /\ v = [experiment |-> w.experiment, plan |-> w.plan, n |-> w.n, status |-> status, complete |-> done]
      BY <3>3, <1>2, Zenon DEF WrittenRows
    <3>5. v \in WrittenRows /\ v.status = status /\ v.n = w.n /\ v.plan = w.plan
      BY <3>4, <1>2 DEF WrittenRows
    <3>6. written' = [written EXCEPT ![a] = v]
      <4>1. written \in [LabAttempts -> WrittenRows]
        BY DEF LabInv
      <4> QED
        BY <4>1, <3>1, <3>2, <3>3, <1>2, Zenon
    <3> QED
      BY <3>1, <3>5, <3>6, <1>2, <2>0, Zenon
  <2> QED
    BY <2>1, <2>2
<1>5. written \in [LabAttempts -> WrittenRows]
  BY DEF LabInv
<1>6. written' \in [LabAttempts -> WrittenRows]
  BY <1>4, <1>5
<1>7. \A b \in LabAttempts : written[b].status = "completed" => written'[b] = written[b]
  <2>1. "running" # "completed"
    OBVIOUS
  <2> QED
    BY <1>2, <1>3, <1>4, <1>5, <2>1
<1>8. \A b \in LabAttempts : /\ written'[b].n <= Len(written'[b].plan)
                             /\ written'[b].status = "completed" => written'[b].n = Len(written'[b].plan)
  BY <1>4, <1>5 DEF LabInv
<1>9. \A s \in Sides : lab.read[s].status = "completed" => lab.request[s] \in LabAttempts
  <2> SUFFICES ASSUME NEW s \in Sides, lab.read[s].status = "completed"
               PROVE  lab.request[s] \in LabAttempts
    OBVIOUS
  <2>1. lab.pc # "idle"
    BY DEF LabInv, Unread
  <2>2. lab.request \in LabRequests
    BY <2>1 DEF LabInv
  <2> QED
    BY <2>2, LabAssumption DEF Sides
<1>10. EventsRead(lab.pc) \subseteq Sides
  BY DEF EventsRead, Sides
<1>11. \A s \in Sides : lab.read[s].status = "completed" =>
          written'[lab.request[s]].status = "completed" /\ written'[lab.request[s]].plan = written[lab.request[s]].plan
  BY <1>7, <1>9 DEF LabInv
<1>12. AlignedTrace("left")' = AlignedTrace("left") /\ AlignedTrace("right")' = AlignedTrace("right")
  BY <1>1, Zenon DEF AlignedTrace
<1>13. lab'.pc = lab.pc /\ lab'.request = lab.request /\ lab'.read = lab.read /\ lab'.answer = lab.answer
  BY <1>1
<1> QED
  BY <1>1, <1>6, <1>8, <1>10, <1>11, <1>12, <1>13 DEF LabInv

\* A step of the request: the rows stay, and one field of what was read moves.
LEMMA RequestStep ==
  ASSUME LabInv, UNCHANGED written, NEW pc, NEW request, NEW read, NEW answer,
         lab' = [pc |-> pc, request |-> request, read |-> read, answer |-> answer],
         read \in [Sides -> Readings], pc # "idle", request \in LabRequests,
         \A s \in Sides : read[s].status = "completed" => written[request[s]].status = "completed",
         \A s \in EventsRead(pc) : read[s].status = "completed" => read[s].events = written[request[s]].plan,
         pc # "answered"
  PROVE  LabInv'
<1>1. lab'.pc = pc /\ lab'.request = request /\ lab'.read = read /\ lab'.answer = answer
  OBVIOUS
<1> QED
  BY <1>1 DEF LabInv

LEMMA BeginStep == LabInv /\ BeginLab => LabInv'
<1> SUFFICES ASSUME LabInv, BeginLab PROVE LabInv'
  OBVIOUS
<1>1. PICK req \in LabRequests :
         lab' = [lab EXCEPT !.request = req, !.pc = IF req.left = req.right THEN "refused" ELSE "row_left"]
  BY Zenon DEF BeginLab
<1>2. PICK pc : pc = IF req.left = req.right THEN "refused" ELSE "row_left"
  OBVIOUS
<1>3. PICK read : read = lab.read
  OBVIOUS
<1>4. lab' = [pc |-> pc, request |-> req, read |-> read, answer |-> lab.answer]
  BY <1>1, <1>2, <1>3, Zenon DEF LabInv
<1>5. read = [s \in Sides |-> Unread] /\ read \in [Sides -> Readings]
  BY <1>3 DEF LabInv, BeginLab
<1>6. \A s \in Sides : read[s].status # "completed"
  BY <1>5 DEF Unread
<1>7. EventsRead(pc) = {} /\ pc # "idle" /\ pc # "answered"
  BY <1>2 DEF EventsRead
<1>8. PICK answer : answer = lab.answer
  OBVIOUS
<1>9. UNCHANGED written /\ lab' = [pc |-> pc, request |-> req, read |-> read, answer |-> answer]
  BY <1>4, <1>8, Zenon DEF BeginLab
<1> QED
  BY <1>5, <1>6, <1>7, <1>9, RequestStep

LEMMA ReadRowStep ==
  ASSUME LabInv, NEW side \in Sides, ReadRow(side)
  PROVE  LabInv'
<1>1. lab.pc = (IF side = "left" THEN "row_left" ELSE "row_right") /\ UNCHANGED written
  BY DEF ReadRow
<1>2. PICK request \in LabRequests : request = lab.request
  BY <1>1 DEF LabInv
<1>3. request[side] \in LabAttempts
  BY LabAssumption DEF Sides
<1>4. PICK w \in WrittenRows : w = written[request[side]]
  BY <1>3 DEF LabInv
<1>5. PICK x : x = [status |-> w.status, complete |-> w.complete, events |-> <<>>]
  BY Zenon
<1>6. x \in Readings /\ x.status = w.status
  <2>1. <<>> \in Seq(LabEvents)
    OBVIOUS
  <2> QED
    BY <1>5, <2>1 DEF Readings, WrittenRows
<1>7. PICK pc : pc = IF side = "left" THEN "events_left" ELSE "events_right"
  OBVIOUS
<1>8. PICK read : read = [lab.read EXCEPT ![side] = x]
  BY Zenon
<1>9. lab' = [lab EXCEPT !.read[side] = x, !.pc = pc]
  BY <1>2, <1>4, <1>5, <1>7 DEF ReadRow
<1>10. lab' = [pc |-> pc, request |-> request, read |-> read, answer |-> lab.answer]
  BY <1>2, <1>8, <1>9, Zenon DEF LabInv
<1>11. lab.read \in [Sides -> Readings] /\ read \in [Sides -> Readings]
  BY <1>6, <1>8 DEF LabInv
<1>12. read[side] = x /\ \A s \in Sides : s # side => read[s] = lab.read[s]
  BY <1>8, <1>11
<1>13. \A s \in Sides : read[s].status = "completed" => written[request[s]].status = "completed"
  BY <1>2, <1>4, <1>6, <1>12 DEF LabInv
<1>14. pc # "idle" /\ pc # "answered"
  BY <1>7
<1>15. \A s \in EventsRead(pc) : s \in EventsRead(lab.pc) /\ s # side /\ s \in Sides
  BY <1>1, <1>7 DEF EventsRead, Sides
<1>16. \A s \in EventsRead(pc) : read[s].status = "completed" => read[s].events = written[request[s]].plan
  BY <1>2, <1>12, <1>15 DEF LabInv
<1>17. PICK answer : answer = lab.answer
  OBVIOUS
<1> QED
  BY <1>1, <1>10, <1>11, <1>13, <1>14, <1>16, <1>17, RequestStep

LEMMA ReadEventsStep ==
  ASSUME LabInv, NEW side \in Sides, ReadEvents(side)
  PROVE  LabInv'
<1>1. lab.pc = (IF side = "left" THEN "events_left" ELSE "events_right") /\ UNCHANGED written
  BY DEF ReadEvents
<1>2. PICK request \in LabRequests : request = lab.request
  BY <1>1 DEF LabInv
<1>3. request[side] \in LabAttempts
  BY LabAssumption DEF Sides
<1>4. PICK w \in WrittenRows : w = written[request[side]]
  BY <1>3 DEF LabInv
<1>5. PICK events : events = SubSeq(w.plan, 1, w.n)
  BY Zenon
<1>6. PICK pc : /\ pc \in {"refused", IF side = "left" THEN "row_right" ELSE "loaded"}
                /\ lab' = [lab EXCEPT !.read[side].events = events, !.pc = pc]
  <2> DEFINE q == IF events = <<>> \/ Len(events) > MaxTraceEvents
                       \/ Cardinality({e.seq : e \in ToSet(events)}) # Len(events)
                    THEN "refused"
                    ELSE IF side = "left" THEN "row_right" ELSE "loaded"
  <2>1. lab' = [lab EXCEPT !.read[side].events = events, !.pc = q]
    BY <1>2, <1>4, <1>5, Zenon DEF ReadEvents
  <2>2. q \in {"refused", IF side = "left" THEN "row_right" ELSE "loaded"}
    BY Zenon
  <2> HIDE DEF q
  <2> QED
    BY <2>1, <2>2, Zenon
<1>7. w.plan \in Seq(LabEvents) /\ w.n \in Nat
  BY PlansAreSequences DEF WrittenRows
<1>8. events \in Seq(LabEvents) /\ (w.n = Len(w.plan) => events = w.plan)
  <2>1. PICK p \in Seq(LabEvents), n \in Nat : p = w.plan /\ n = w.n /\ n <= Len(p)
    BY <1>3, <1>4, <1>7 DEF LabInv
  <2>2. events = SubSeq(p, 1, n)
    BY <1>5, <2>1
  <2>3. events \in Seq(LabEvents)
    BY <2>1, <2>2
  <2>4. n = Len(p) => events = p
    BY <2>1, <2>2
  <2> QED
    BY <2>1, <2>3, <2>4
<1>9. PICK old \in Readings : old = lab.read[side]
  BY DEF LabInv
<1>10. PICK x : x = [status |-> old.status, complete |-> old.complete, events |-> events]
  BY Zenon
<1>11. x \in Readings /\ x.status = old.status /\ x.events = events
  BY <1>8, <1>10 DEF Readings
<1>12. x = [old EXCEPT !.events = events]
  BY <1>9, <1>10 DEF Readings
<1>13. PICK read : read = [lab.read EXCEPT ![side] = x]
  BY Zenon
<1>14. lab.read \in [Sides -> Readings] /\ read \in [Sides -> Readings]
  BY <1>11, <1>13 DEF LabInv
<1>15. lab' = [pc |-> pc, request |-> request, read |-> read, answer |-> lab.answer]
  <2>1. [lab.read EXCEPT ![side].events = events] = read
    BY <1>9, <1>12, <1>13, <1>14
  <2>2. lab' = [[lab EXCEPT !.read = [lab.read EXCEPT ![side].events = events]] EXCEPT !.pc = pc]
    BY <1>6 DEF LabInv
  <2> QED
    BY <2>1, <2>2, <1>2, Zenon DEF LabInv
<1>16. read[side] = x /\ \A s \in Sides : s # side => read[s] = lab.read[s]
  BY <1>13, <1>14
<1>17. \A s \in Sides : read[s].status = "completed" => written[request[s]].status = "completed"
  BY <1>2, <1>9, <1>11, <1>16 DEF LabInv
<1>18. pc # "idle" /\ pc # "answered"
  BY <1>6
<1>19. \A s \in EventsRead(pc) : s \in Sides /\ (s = side \/ s \in EventsRead(lab.pc))
  BY <1>1, <1>6 DEF EventsRead, Sides
<1>20. ASSUME NEW s \in EventsRead(pc), read[s].status = "completed"
       PROVE  read[s].events = written[request[s]].plan
  <2>1. CASE s = side
    <3>1. written[request[s]].status = "completed"
      BY <1>17, <1>19, <1>20
    <3>2. w.n = Len(w.plan)
      BY <1>3, <1>4, <2>1, <3>1 DEF LabInv
    <3> QED
      BY <1>4, <1>8, <1>11, <1>16, <2>1, <3>2
  <2>2. CASE s # side
    BY <1>2, <1>16, <1>19, <1>20, <2>2 DEF LabInv
  <2> QED
    BY <2>1, <2>2
<1>21. PICK answer : answer = lab.answer
  OBVIOUS
<1> QED
  BY <1>1, <1>14, <1>15, <1>17, <1>18, <1>20, <1>21, RequestStep

LEMMA AnalyzeStep == LabInv /\ Analyze => LabInv'
<1> SUFFICES ASSUME LabInv, Analyze PROVE LabInv'
  OBVIOUS
<1>1. lab.pc = "loaded" /\ UNCHANGED written
  BY DEF Analyze
<1>2. PICK request \in LabRequests : request = lab.request
  BY <1>1 DEF LabInv
<1>3. PICK read, answer : read = lab.read /\ answer = lab.answer
  OBVIOUS
<1>4. EventsRead("loaded") = Sides /\ EventsRead("answered") = Sides /\ EventsRead("refused") = {}
  BY DEF EventsRead, Sides
<1>5. /\ read \in [Sides -> Readings]
      /\ \A s \in Sides : read[s].status = "completed" => written[request[s]].status = "completed"
      /\ \A s \in Sides : read[s].status = "completed" => read[s].events = written[request[s]].plan
  BY <1>1, <1>2, <1>3, <1>4 DEF LabInv
<1>6. CASE lab' = [lab EXCEPT !.pc = "refused"]
  <2>1. PICK pc : pc = "refused"
    OBVIOUS
  <2>2. lab' = [pc |-> pc, request |-> request, read |-> read, answer |-> answer]
    BY <1>2, <1>3, <1>6, <2>1 DEF LabInv
  <2>3. pc # "idle" /\ pc # "answered" /\ EventsRead(pc) = {}
    BY <1>4, <2>1
  <2> QED
    BY <1>1, <1>5, <2>2, <2>3, RequestStep
<1>7. CASE lab' # [lab EXCEPT !.pc = "refused"]
  <2>1. PICK x : x = Exclusions(lab.read["left"]) \union Exclusions(lab.read["right"])
    BY Zenon
  <2>2. lab' = [lab EXCEPT !.pc = "answered", !.answer = Diagnosis(AlignedTrace("left"), AlignedTrace("right"), x)]
    <3> DEFINE events == [s \in Sides |-> NormalizeTrace(AnalysisEvents(lab.read[s].events, lab.request.declared))]
    <3>1. lab' = [lab EXCEPT !.pc = "answered", !.answer = Diagnosis(events["left"], events["right"], x)]
      BY <1>7, <2>1, Zenon DEF Analyze
    <3>2. events["left"] = AlignedTrace("left") /\ events["right"] = AlignedTrace("right")
      BY DEF AlignedTrace, Sides
    <3> HIDE DEF events
    <3> QED
      BY <3>1, <3>2
  <2>3. PICK d : d = Diagnosis(AlignedTrace("left"), AlignedTrace("right"), x)
    OBVIOUS
  <2>4. lab' = [pc |-> "answered", request |-> request, read |-> read, answer |-> d]
    BY <1>2, <1>3, <2>2, <2>3, Zenon DEF LabInv
  <2>5. lab'.pc = "answered" /\ lab'.request = request /\ lab'.read = read /\ lab'.answer = d
    BY <2>4
  <2>6. x = {} => \A s \in Sides : read[s].status = "completed"
    <3>1. \A r : r.status # "completed" => "attempt_status" \in Exclusions(r)
      BY DEF Exclusions
    <3> QED
      BY <3>1, <2>1, <1>3 DEF Sides
  <2>7. AlignedTrace("left")' = AlignedTrace("left") /\ AlignedTrace("right")' = AlignedTrace("right")
    BY <1>2, <1>3, <2>5, Zenon DEF AlignedTrace
  <2>8. \E y : /\ lab'.answer = Diagnosis(AlignedTrace("left")', AlignedTrace("right")', y)
               /\ y = {} => \A s \in Sides : lab'.read[s].status = "completed"
    BY <2>3, <2>5, <2>6, <2>7
  <2> QED
    BY <1>1, <1>4, <1>5, <2>4, <2>5, <2>8 DEF LabInv
<1> QED
  BY <1>6, <1>7

LEMMA LabStep == LabInv /\ [LabNext]_labVars => LabInv'
<1> SUFFICES ASSUME LabInv, [LabNext]_labVars PROVE LabInv'
  OBVIOUS
<1>1. CASE LabNext
  BY <1>1, WorkerStep, BeginStep, ReadRowStep, ReadEventsStep, AnalyzeStep DEF LabNext
<1>2. CASE UNCHANGED labVars
  <2>1. written' = written /\ lab' = lab
    BY <1>2 DEF labVars
  <2>2. AlignedTrace("left")' = AlignedTrace("left") /\ AlignedTrace("right")' = AlignedTrace("right")
    BY <2>1, Zenon DEF AlignedTrace
  <2> QED
    BY <2>1, <2>2 DEF LabInv
<1> QED
  BY <1>1, <1>2

LEMMA LabPart == Spec => LabSpec
<1>1. Init => LabInit
  BY DEF Init
<1>2. [Next]_vars => [LabNext]_labVars
  BY DEF Next, Rest, vars
<1> QED
  BY <1>1, <1>2, PTL DEF Spec, LabSpec

LEMMA AnswersAreSound == LabInv => LabIsSound
<1> SUFFICES ASSUME LabInv, lab.pc = "answered" PROVE AlignmentIsBest /\ DiagnosisIsSound
  BY Zenon DEF LabIsSound, AlignmentIsBest, DiagnosisIsSound
<1>1. PICK x : /\ lab.answer = Diagnosis(AlignedTrace("left"), AlignedTrace("right"), x)
               /\ x = {} => \A s \in Sides : lab.read[s].status = "completed"
  BY DEF LabInv
<1>2. PICK left, right, d : left = AlignedTrace("left") /\ right = AlignedTrace("right") /\ d = lab.answer
  OBVIOUS
<1>3. \A s \in Sides : lab.read[s].events \in Seq(LabEvents)
  BY DEF LabInv, Readings
<1>4. "left" \in Sides /\ "right" \in Sides
  BY DEF Sides
<1>5. PICK E, F : left \in Seq(E) /\ right \in Seq(F)
  <2>1. \E E : left \in Seq(E)
    BY <1>2, <1>3, <1>4, NormalizedIsSequence, Zenon DEF AlignedTrace
  <2>2. \E F : right \in Seq(F)
    BY <1>2, <1>3, <1>4, NormalizedIsSequence, Zenon DEF AlignedTrace
  <2> QED
    BY <2>1, <2>2
<1>6. PICK G : G = E \union F
  BY Zenon
<1>7. left \in Seq(G) /\ right \in Seq(G)
  BY <1>5, <1>6
<1>8. d = Diagnosis(left, right, x)
  BY <1>1, <1>2
<1>9. SoundDiagnosis(d, left, right, x)
  BY <1>7, <1>8, DiagnosisFacts
<1>10. AlignmentIsBest
  BY <1>2, <1>9, Zenon DEF AlignmentIsBest, SoundDiagnosis
<1>11. d.mode = "COMPLETE_TRACE_DIAGNOSTIC" =>
          \A s \in Sides : /\ lab.read[s].events = written[lab.request[s]].plan
                           /\ written[lab.request[s]].status = "completed"
  <2>1. EventsRead("answered") = Sides
    BY DEF EventsRead, Sides
  <2> QED
    BY <1>1, <1>2, <1>9, <2>1 DEF LabInv, SoundDiagnosis
<1>12. DiagnosisIsSound
  BY <1>2, <1>9, <1>11, Zenon DEF DiagnosisIsSound, SoundDiagnosis
<1> QED
  BY <1>10, <1>12

\* The alignment the laboratory answers is a best one, and the diagnosis drawn
\* from it is sound although rows and events are read apart and while workers
\* write, for any traces, of any length, and any requests.
THEOREM DiagnosesAreSound == Spec => []LabIsSound
BY LabStarts, LabStep, LabPart, AnswersAreSound, PTL DEF LabSpec

=============================================================================
