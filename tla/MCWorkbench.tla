---------------------------- MODULE MCWorkbench -----------------------------
(* Small instances of every part of the workbench, one section each. *)
EXTENDS Workbench, TLC

-----------------------------------------------------------------------------
(* Legacy runs: two scaffolds whose calls cost 1 and 2 under a run limit of 2. *)

MCCost == [bare |-> 1, tool_error_recovery |-> 2]

Post(k, ss, vendor) == [kind |-> k, scaffolds |-> ss, vendor |-> vendor, valid |-> TRUE]

MCRequests ==
    {Post("arena", <<"bare", "tool_error_recovery">>, "openai"),
     Post("arena", <<"bare", "tool_error_recovery">>, "anthropic"),
     Post("arena", <<"bare", "bare">>, "openai"), Post("arena", <<>>, "openai"),
     Post("patch_rerun", <<"bare">>, "openai"),
     Post("comparison", <<"bare", "tool_error_recovery">>, "openai")}

-----------------------------------------------------------------------------
(* Blind review: one batch of two items or of two dimensions, three raters. *)

Body(items, dims) ==
    [items |-> items, raters |-> {"x", "y", "z"}, dimensions |-> dims, qualitative |-> dims,
     leaky |-> FALSE, receipt |-> FALSE, matches |-> TRUE]

MCBodies == {Body([i1 |-> "a1", i2 |-> "a1"], {"d"}), Body([i1 |-> "a1"], {"d", "e"})}

-----------------------------------------------------------------------------
(* Adapters: what the worker brings to prepare, and what a provider answers. *)

Harness(k, claim) ==
    [adapter |-> Capabilities(k).adapter, digest |-> k, isolation |-> Some(Capabilities(k).isolation),
     claim |-> claim, timeout |-> 1, latency |-> 1, configured |-> FALSE, bundled |-> TRUE]

Input(tools, long, replay) ==
    [bundled |-> TRUE, pinned |-> TRUE, overlay |-> NoAnswer, budget |-> [tools |-> tools, context |-> 1],
     policy |-> "curated", long |-> long, replay |-> replay]

MCOffers ==
    {[harness |-> Harness(k, "protocol_only"), input |-> i] :
        k \in Kinds \ {"fixture", "recorded"},
        i \in {Input(0, FALSE, FALSE), Input(1, FALSE, FALSE), Input(0, TRUE, FALSE), Input(0, FALSE, TRUE)}}
    \union {[harness |-> Harness(k, "fixture_only"), input |-> Input(0, FALSE, FALSE)] : k \in Kinds}

MCReplies ==
    {[fault |-> f, usage |-> "complete", large |-> FALSE] :
        f \in {"timeout", "request", "redirect", "4xx", "5xx", "oversize", "shape", "tools", "none"}}
    \union {[fault |-> "none", usage |-> "partial", large |-> FALSE],
            [fault |-> "none", usage |-> "complete", large |-> TRUE]}

-----------------------------------------------------------------------------
(* Installer: the expected archive, another one, an unsafe and an ill-typed one. *)

Archive(bytes, safe, typed, matches) == [bytes |-> bytes, safe |-> safe, typed |-> typed, matches |-> matches]

MCForms ==
    {Archive("expected", TRUE, TRUE, TRUE), Archive("expected", TRUE, TRUE, FALSE),
     Archive("other", TRUE, TRUE, TRUE), Archive("expected", FALSE, TRUE, TRUE),
     Archive("expected", TRUE, FALSE, TRUE)}

-----------------------------------------------------------------------------
(* Trace laboratory: traces with a divergence, a tie, a gap and a repeated sequence. *)

Entry(q, t, d, r) == [seq |-> q, type |-> t, digest |-> d, ref |-> r]

MCTraces ==
    {<<Entry(0, "request", 1, FALSE), Entry(1, "tool_call", 1, TRUE), Entry(2, "response", 1, TRUE)>>,
     <<Entry(0, "request", 1, FALSE), Entry(1, "tool_call", 2, FALSE), Entry(2, "tool_call", 1, TRUE),
       Entry(3, "response", 1, FALSE)>>,
     <<Entry(0, "tool_call", 1, TRUE), Entry(1, "tool_call", 1, FALSE), Entry(2, "response", 2, TRUE)>>,
     <<Entry(0, "request", 1, FALSE), Entry(2, "response", 1, TRUE), Entry(1, "tool_call", 1, TRUE)>>,
     <<Entry(1, "tool_call", 1, TRUE), Entry(1, "response", 1, TRUE)>>}

MCEnrolments == {[a |-> "x", b |-> "x"], [a |-> "x", b |-> "y"]}

Compare(l, r, partial, declared) == [left |-> l, right |-> r, partial |-> partial, declared |-> declared]

MCLabRequests ==
    {Compare("a", "b", FALSE, <<>>), Compare("a", "b", TRUE, <<>>),
     Compare("a", "b", TRUE, (1 :> "checkpoint")), Compare("a", "a", TRUE, <<>>)}

-----------------------------------------------------------------------------
(* Analysis: one factor over three tasks, two factors over two tasks, three   *)
(* profiles that may tie, repeated episodes, and designs that do not estimate. *)

Try(status, transient, cost, latency) ==
    [status |-> status, transient |-> transient, cost |-> cost, latency |-> latency,
     trace |-> TRUE, manipulation |-> TRUE]

Once == <<Try("completed", FALSE, 1, 1)>>

Episode(task0, scaffold, repeat, variant, factors, ok, metric, severe, chain) ==
    [task |-> task0, cluster |-> task0, scaffold |-> scaffold, pair |-> task0, repeat |-> repeat,
     variant |-> variant, factors |-> factors, mission |-> ok, metric |-> metric, severe |-> severe,
     audit |-> 1, heldOut |-> TRUE, chain |-> chain]

Study(episodes, registered, mains, interactions, cost) ==
    [episodes |-> episodes, registered |-> registered, mains |-> mains, interactions |-> interactions,
     passK |-> 2, minClusters |-> 2, preregistered |-> TRUE,
     constraints |-> [severe |-> <<1, 1>>, cost |-> <<cost, 1>>, latency |-> <<2, 1>>, pass1 |-> <<1, 2>>, audit |-> <<0, 1>>],
     names |-> [s1 |-> 1, s2 |-> 2, s3 |-> 3]]

Levels == {"off", "on"}
TwoFactors == [f |-> Levels, g |-> Levels]
Cells == {[f |-> x, g |-> y] : x, y \in Levels}

MainTest(id, factor, metric) ==
    [id |-> id, factor |-> factor, control |-> "off", treatment |-> "on", metric |-> metric]

CrossTest(id, metric, pairs) ==
    [id |-> id, a |-> "f", controlA |-> "off", treatmentA |-> "on", b |-> "g", controlB |-> "off",
     treatmentB |-> "on", metric |-> metric, minPairs |-> pairs, minClusters |-> 2]

Weight(t, c) == (IF c.f = "on" THEN 2 ELSE 0) + (IF c.g = "on" THEN (IF t = "t1" THEN 1 ELSE -1) ELSE 0)

Factorial(wins, tasks, pairs) ==
    Study({Episode(t, "s1", 1, "clean", c, <<t, c>> \in wins, Weight(t, c), {}, Once) : t \in tasks, c \in Cells},
          TwoFactors,
          <<MainTest("e1", "f", FALSE), MainTest("e2", "g", FALSE),
            MainTest("e3", "f", TRUE), MainTest("e4", "g", TRUE)>>,
          <<CrossTest("i1", FALSE, 2), CrossTest("i2", TRUE, pairs)>>, 2)

Factorials == {Factorial(w, {"t1", "t2"}, n) : w \in SUBSET ({"t1", "t2"} \X Cells), n \in {2, 3}}

OneFactor(wins, slope) ==
    Study({Episode(t, "s1", 1, "clean", [f |-> l], <<t, l>> \in wins, IF l = "on" THEN slope[t] ELSE 0, {}, Once) :
            t \in {"t1", "t2", "t3"}, l \in Levels},
          [f |-> Levels], <<MainTest("e1", "f", FALSE), MainTest("e2", "f", TRUE)>>, <<>>, 2)

OneFactors ==
    {OneFactor(w, slope) : w \in SUBSET ({"t1", "t2", "t3"} \X Levels),
        slope \in {[t1 |-> 1, t2 |-> 1, t3 |-> 1], [t1 |-> 1, t2 |-> 1, t3 |-> 0],
                   [t1 |-> 1, t2 |-> -1, t3 |-> 1], [t1 |-> 2, t2 |-> -1, t3 |-> 1]}}

ProfileResults == {<<ok, severe, cost, latency>> : ok \in BOOLEAN, severe \in {{}, {"leak"}}, cost \in {1, 2}, latency \in {1, 2}}

ThreeProfiles(o1, o2, o3, cost) ==
    Study({Episode("t1", "s1", 1, "clean", <<>>, TRUE, 0, o1[2], <<Try("completed", FALSE, o1[3], o1[4])>>),
           Episode("t1", "s2", 1, "clean", <<>>, o2[1], 0, o2[2], <<Try("completed", FALSE, o2[3], o2[4])>>),
           Episode("t1", "s3", 1, "clean", <<>>, o3[1], 0, o3[2],
                   <<Try("failed", TRUE, 0, 0), Try("completed", FALSE, o3[3], o3[4])>>)}, <<>>, <<>>, <<>>, cost)

Selections ==
    {ThreeProfiles(o1, o2, o3, cost) :
        o1 \in {o \in ProfileResults : o[1]}, o2, o3 \in ProfileResults, cost \in {1, 2}}

Stressed(v) ==
    IF v = "none" THEN {}
    ELSE {Episode("t2", "s1", 1, v, <<>>, TRUE, 0, {}, Once), Episode("t2", "s1", 1, "clean", <<>>, FALSE, 0, {}, Once),
          Episode("t1", "s1", 1, v, <<>>, TRUE, 0, {}, Once)}

Repeats ==
    {Study({Episode("t1", "s1", i, "clean", <<>>, i \in wins, 0, {}, chain) : i \in 1 .. k} \union Stressed(v),
           <<>>, <<>>, <<>>, 2) :
        wins \in SUBSET (1 .. 3), k \in 1 .. 3, v \in {"none", "clean", "stress"},
        chain \in {Once, <<Try("failed", FALSE, 0, 0), Try("completed", FALSE, 1, 1)>>,
                   <<Try("incomplete", TRUE, NoValue, NoValue), Try("completed", FALSE, 1, 1)>>}}

Complete == Factorial({}, {"t1", "t2"}, 2)

Unestimable ==
    {[Complete EXCEPT !.episodes = @ \ {Some(@)}], Factorial({}, {"t1"}, 2), Study({}, TwoFactors, <<>>, <<>>, 2),
     [Complete EXCEPT !.registered = [f |-> Levels]], [Complete EXCEPT !.mains = <<>>],
     [Complete EXCEPT !.registered = @ @@ [h |-> Levels]]}

MCStudies == OneFactors \union Factorials \union Selections \union Repeats \union Unestimable

MCAlpha == <<1, 2>>

-----------------------------------------------------------------------------
(* Offline demo: the bundled experiment, an exact copy and one that differs. *)

MCExperiments == [demo |-> TRUE, clone |-> TRUE, other |-> FALSE]

MCDeployments ==
    {[team |-> FALSE, capability |-> TRUE, local |-> TRUE, store |-> "directory", configured |-> FALSE, adapters |-> {}]}

-----------------------------------------------------------------------------
(* Execution page: two executions of the page's experiment, one of another. *)

CONSTANTS Own, Sibling, Foreign

MCPageExecutions == {Own, Sibling, Foreign}
MCOwnRuns == {Own, Sibling}
MCFirstRuns == {Own, Foreign}
MCMaxEvents == [x \in MCPageExecutions |-> IF x = Own THEN 2 ELSE 0]

-----------------------------------------------------------------------------
(* Factor adapter: a faithful report and one report wrong in each respect. *)

Arm(S) == [f \in FactorIds |-> f \in S]

MCArms == {Arm({"planning", "recovery"}), Arm(FactorIds)}
MCProfiles == {{"state", "checkpoint", "memory"}, {"state"}}

Step(status) == [s \in {1} |-> status]
ProperPlan == <<Step("pending"), Step("in_progress"), Step("completed")>>
JumpingPlan == <<Step("pending"), Step("completed"), Step("completed")>>

RecoveryUse(used) ==
    [unused |-> TRUE, class |-> "transient", declared |-> TRUE, used |-> used, max |-> 1,
     checkpoint |-> "observed", bound |-> TRUE, decision |-> TRUE]

Checked(checks, repair) == [given |-> TRUE, candidate |-> 1, checks |-> checks, repair |-> repair]
NotRepaired == [tried |-> FALSE, checks |-> "failed", response |-> 0]

Faithfully(S) ==
    [evidence |-> TRUE, observed |-> Arm(S), matched |-> TRUE, plan |-> ProperPlan, remembered |-> TRUE,
     recovery |-> {RecoveryUse(0)}, verification |-> Checked("passed", NotRepaired)]

MCReports ==
    {Faithfully({"planning", "recovery"}), Faithfully(FactorIds),
     [Faithfully(FactorIds) EXCEPT !.matched = FALSE],
     [Faithfully(FactorIds) EXCEPT !.plan = JumpingPlan],
     [Faithfully(FactorIds) EXCEPT !.recovery = {RecoveryUse(1)}],
     [Faithfully(FactorIds) EXCEPT !.verification =
        Checked("failed", [tried |-> TRUE, checks |-> "passed", response |-> 2])]}

MCBaseOutcomes == {[outcome |-> "completed", response |-> 1], [outcome |-> "failed", response |-> 0]}

-----------------------------------------------------------------------------
(* Forge: one good proposal, an empty change, and evaluations that each lack something. *)

Proposal(n, candidate) ==
    [name |-> n, proposer |-> "ann", base |-> 1, candidate |-> candidate, mechanism |-> <<1, 2>>, evidence |-> <<1>>]

MCProposals == {Proposal(1, 2), Proposal(2, 1)}

MCApprovals ==
    {[proposal |-> Proposal(1, 2), approver |-> a, decision |-> d] : a \in {"ann", "bob"}, d \in {"APPROVED", "REJECTED"}}

SafetyOf(sensitivity, destination, outcome) ==
    [flows |-> {[source |-> "context", destination |-> destination, sensitivity |-> sensitivity, content |-> TRUE,
                 redacted |-> TRUE, tool |-> 0, depth |-> 0]},
     policy |-> [maximum |-> "SECRET", tools |-> {1}, depth |-> 1], types |-> {"egress"},
     outcomes |-> [o \in {"egress"} |-> outcome], transitions |-> {<<"APPROVED", "EVALUATED">>}, cleanup |-> TRUE]

Inside == SafetyOf("SECRET", "artifact", "NOT_OBSERVED")
Outward == SafetyOf("PUBLIC", "external", "NOT_OBSERVED")
MCSafety == {Inside, Outward, SafetyOf("PUBLIC", "model", "UNKNOWN")}

EvaluationBy(evaluator, admitter, outcome, state, failures, safe) ==
    [proposal |-> Proposal(1, 2), evaluator |-> evaluator, admitter |-> admitter, outcome |-> outcome,
     admission |-> outcome, evidence |-> <<1>>, cohorts |-> <<<<1>>, <<2>>>>,
     workflow |-> [state |-> state, interruption |-> state # "completed", recovery |-> FALSE],
     controls |-> [k \in Controls |-> 1], plan |-> 1, failures |-> failures, safety |-> safe]

SevereFailure == {[severity |-> "severe", disposition |-> "retained"]}

MCEvaluations ==
    {EvaluationBy("cat", "bob", "ADMITTED", "completed", {}, Inside),
     EvaluationBy("cat", "dan", "QUARANTINED", "interrupted", SevereFailure, Inside),
     EvaluationBy("cat", "dan", "ADMITTED", "completed", SevereFailure, Inside),
     EvaluationBy("cat", "dan", "ADMITTED", "completed", {}, Outward),
     EvaluationBy("ann", "dan", "ADMITTED", "completed", {}, Inside),
     EvaluationBy("cat", "cat", "ADMITTED", "completed", {}, Inside)}

Design(i, m, cost, least, most, risk) ==
    [id |-> i, mechanism |-> m, cost |-> cost, min |-> least, max |-> most, risk |-> risk, coverage |-> <<i>>]

PlanFor(risk1, risk3, effect, budget) ==
    [mode |-> "exploratory", frozen |-> FALSE, adaptive |-> TRUE,
     designs |-> {Design(1, 1, 3, 2, 5, risk1), Design(2, 1, 3, 2, 9, 1), Design(3, 2, 7, 1, 4, risk3)},
     mechanisms |-> <<[effect |-> effect, uncertainty |-> 5, interaction |-> 0],
                      [effect |-> 2, uncertainty |-> 8, interaction |-> 5]>>,
     coverage |-> <<5, 5, 10>>, prior |-> <<<<2>>, <<>>>>, budget |-> budget, risk |-> 3, detectable |-> 2]

MCPlans ==
    {PlanFor(1, 1, 0, 20), PlanFor(4, 2, 1, 20), PlanFor(1, 2, 2, 5), PlanFor(4, 4, 1, 9),
     [PlanFor(1, 1, 2, 20) EXCEPT !.frozen = TRUE],
     [PlanFor(1, 1, 2, 20) EXCEPT !.mode = "confirmatory", !.frozen = TRUE, !.adaptive = FALSE]}

-----------------------------------------------------------------------------
(* Replay: a modest gain, a free base, a new severe failure, unknown cost, a fixture, live work. *)

Paid == [quality |-> 5, cost |-> 4, latency |-> 4, fidelity |-> 5, severe |-> {}, safety |-> "pass"]
Free == [Paid EXCEPT !.cost = 0]
Uncosted == [Paid EXCEPT !.cost = Unknown]

Replayed(mode, base, first, second) ==
    [mechanism |-> "m", diff |-> {"m"}, items |-> {1}, development |-> {1, 2}, holdout |-> {3},
     holdoutDeclared |-> TRUE, planned |-> 2, mode |-> mode, authorized |-> (mode = "live"),
     pairs |-> <<[item |-> 1, repetition |-> 1, base |-> base, candidate |-> first],
                 [item |-> 1, repetition |-> 2, base |-> base, candidate |-> second]>>]

MCReplays ==
    {Replayed("recorded", Paid, [Paid EXCEPT !.cost = 5, !.quality = 4], [Paid EXCEPT !.latency = 5]),
     Replayed("recorded", Free, [Free EXCEPT !.cost = 1], [Free EXCEPT !.quality = 6]),
     Replayed("recorded", [Paid EXCEPT !.severe = {1}], [Paid EXCEPT !.severe = {2}],
              [Paid EXCEPT !.severe = {1}, !.latency = Unknown]),
     Replayed("recorded", Paid, Uncosted, [Paid EXCEPT !.fidelity = 3]),
     Replayed("fixture", Uncosted, [Uncosted EXCEPT !.quality = 3], [Uncosted EXCEPT !.safety = "unknown"]),
     Replayed("live", Paid, [Paid EXCEPT !.quality = 7], [Paid EXCEPT !.fidelity = Unknown])}

Strict ==
    [ratio |-> 1, regression |-> 1, repetitions |-> 2, fidelity |-> 5, maturity |-> 3, safety |-> TRUE,
     failSevere |-> TRUE, failUnknown |-> TRUE, holdout |-> FALSE, fixtures |-> FALSE]

MCPolicies ==
    {Strict, [Strict EXCEPT !.safety = FALSE, !.failSevere = FALSE, !.failUnknown = FALSE, !.fidelity = 3, !.ratio = 0]}

MCChanges == {{{"m"}}, {{"m"}, {"n"}}}
-----------------------------------------------------------------------------
(* Trace audit: files whose records share a run, a scaffold and a task up to *)
(* spelling, so that findings of one key meet within and between records.    *)

MCSlug == [t1 |-> "t1", T1 |-> "t1"]
MCPosition == [r |-> 2, q |-> 1, a |-> 1, b |-> 2, c |-> 3]

Scored(score, breakdown, notes) ==
    [score |-> score, previousBest |-> NoAudit, breakdown |-> breakdown, notes |-> notes]

Result(metrics, evaluation) ==
    [shaped |-> TRUE, error |-> FALSE, output |-> TRUE, evidence |-> TRUE, metrics |-> metrics, evaluation |-> evaluation]

Usage(tokens, cost, calls) == [tokens |-> tokens, cost |-> cost, calls |-> calls]
Good == Result(Usage(1, 1, 1), Scored(700, <<>>, {}))

AuditedResults ==
    {Good,
     [Good EXCEPT !.shaped = FALSE],
     [Good EXCEPT !.error = TRUE, !.output = FALSE, !.evaluation = NoAudit, !.metrics = NoAudit],
     [Good EXCEPT !.output = FALSE, !.metrics = Usage(0, NoAudit, 1), !.evaluation.score = NoAudit],
     [Good EXCEPT !.evaluation = NoAudit, !.metrics = Usage(1, NoAudit, 1), !.evidence = FALSE],
     [Good EXCEPT !.evaluation = [@ EXCEPT !.score = 690, !.previousBest = 700]],
     Result(Usage(1, 1, 1), Scored(299, [citation_coverage |-> 240, schema_validity |-> 250],
                                   {"citation", "missing", "missing required", "overreach"})),
     Result(Usage(1, 1, 1), Scored(499, [citation_coverage |-> 600, forbidden_tool_avoidance |-> 0,
                                         privacy_boundary_compliance |-> 690], {"citation", "no ", "unsupported"})),
     Result(Usage(1, 1, 1), Scored(702, <<>>, {"citation", "missing", "privacy", "violation"}))}

Saved(task0, winner, results) ==
    [run |-> "r", task |-> task0, status |-> "completed", winner |-> winner, results |-> results]

Of(scaffold, result) == [scaffold |-> scaffold, result |-> result]

OneResult == {Saved(t, "a", <<Of("a", x)>>) : t \in {"t1", "T1"}, x \in AuditedResults}
TwoResults == {Saved(NoAudit, w, <<Of("b", x), Of("a", y)>>) : w \in {"a", "b", "c", NoAudit}, x, y \in AuditedResults}

File(shape, records) == [shape |-> shape, records |-> records]

MCTraceFiles ==
    {<<File("list", <<x, y>>)>> : x, y \in OneResult}
    \union {<<File("run", <<x>>), File("runs", <<[x EXCEPT !.run = "q"]>>)>> : x \in TwoResults}
    \union {<<File("runs", <<Saved("t1", NoAudit, <<>>)>>)>>, <<File("list", <<NoAudit>>)>>, <<File("other", <<>>)>>}
=============================================================================
