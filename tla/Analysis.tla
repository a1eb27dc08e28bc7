----------------------------- MODULE Analysis -----------------------------
(***************************************************************************)
(* The Analysis v1 engine (analysis_v1/engine, statistics, decision,       *)
(* adequacy, research) on the episodes that services_v1/analysis loads:    *)
(* retry chains are rolled up into one record per episode, records are     *)
(* paired into effects, effects are tested and corrected, and profiles are *)
(* compared. build_analysis_report is a pure function of its input, so a   *)
(* behaviour is one report: an input is loaded, the report is built.       *)
(*                                                                         *)
(* A rate or a p-value is a fraction <<numerator, denominator>>; amounts   *)
(* and scores are natural numbers. Bootstrap intervals and the Monte Carlo *)
(* test of more than sixteen clusters are left out.                        *)
(***************************************************************************)
EXTENDS Integers, Sequences, FiniteSets, SequencesExt

CONSTANTS
    Studies,    \* inputs: [episodes, registered, mains, interactions, passK, minClusters, ...]
    Alpha,      \* the level of both corrections, a fraction
    NoValue

Fraction(x) == x[1] \in Int /\ x[2] \in Nat \ {0}

\* A cost or a latency may be unknown.
Measured(x) == x # NoValue => x \in Nat

\* The level is between zero and one (statistics 255), pass@k has a k, bounds are numbers, and
\* so are the measurements of an episode; scaffolds are ordered by name.
ASSUME AnalysisAssumption ==
    /\ Fraction(Alpha) /\ 0 < Alpha[1] /\ Alpha[1] < Alpha[2]
    /\ \A s \in Studies :
        /\ IsFiniteSet(s.episodes) /\ s.passK \in Nat \ {0}
        /\ s.mains \in Seq(ToSet(s.mains)) /\ s.interactions \in Seq(ToSet(s.interactions))
        /\ \A f \in {"severe", "cost", "latency", "pass1", "audit"} : Fraction(s.constraints[f])
        /\ \A e \in s.episodes :
            /\ e.scaffold # NoValue /\ s.names[e.scaffold] \in Int /\ e.repeat \in Int
            /\ e.metric \in Int /\ e.audit \in Int
            /\ e.chain \in Seq(ToSet(e.chain))
            /\ \A i \in DOMAIN e.chain : Measured(e.chain[i].cost) /\ Measured(e.chain[i].latency)

VARIABLES
    study,      \* the input being analysed
    report      \* [status, ...], NoValue before it is built

analysisVars == <<study, report>>

AnalysisInit == study \in Studies /\ report = NoValue

Leq(x, y) == x[1] * y[2] <= y[1] * x[2]
Less(x, y) == ~Leq(y, x)
Summed(f) == FoldSet(LAMBDA x, acc : f[x] + acc, 0, DOMAIN f)

-----------------------------------------------------------------------------
(* services_v1/analysis: one record per episode. *)

\* _cost: the last usage row, if it is reconciled.
AttemptCost(a) == a.cost

\* A chain is acceptable when every attempt but the last failed in passing.
ChainAccepted(chain) ==
    \A i \in 1..(Len(chain) - 1) : chain[i].status # "completed" /\ chain[i].transient

\* Costs and latencies of the whole chain, or unknown if one of them is.
ChainTotal(values) == IF \A i \in DOMAIN values : values[i] # NoValue THEN Summed(values) ELSE NoValue

\* The outcome is that of the last attempt.
EpisodeRecord(e) ==
    LET chain == e.chain
    IN  [unit    |-> [task |-> e.task, scaffold |-> e.scaffold, factors |-> e.factors,
                      variant |-> e.variant, repeat |-> e.repeat],
         task    |-> e.task, cluster |-> e.cluster, scaffold |-> e.scaffold, pair |-> e.pair,
         repeat  |-> e.repeat, variant |-> e.variant, factors |-> e.factors,
         success |-> Last(chain).status = "completed" /\ e.mission /\ e.severe = {},
         metric  |-> e.metric, retries |-> Len(chain) - 1,
         severe  |-> e.severe, audit |-> e.audit,
         trace   |-> \A i \in DOMAIN chain : chain[i].trace,
         manipulation |-> \A i \in DOMAIN chain : chain[i].manipulation,
         heldOut |-> e.heldOut,
         cost    |-> ChainTotal([i \in DOMAIN chain |-> AttemptCost(chain[i])]),
         latency |-> ChainTotal([i \in DOMAIN chain |-> chain[i].latency])]

-----------------------------------------------------------------------------
(* AnalysisInput.validate_input *)

RegisteredLevels(s, factor, levels) == factor \in DOMAIN s.registered /\ levels \subseteq s.registered[factor]

ValidInput(s, records) ==
    /\ Cardinality({r.unit : r \in records}) = Cardinality(s.episodes)
    /\ \A r \in records : \A f \in DOMAIN r.factors : RegisteredLevels(s, f, {r.factors[f]})
    /\ \A m \in ToSet(s.mains) : RegisteredLevels(s, m.factor, {m.control, m.treatment})
    /\ \A x \in ToSet(s.interactions) : /\ RegisteredLevels(s, x.a, {x.controlA, x.treatmentA})
                                        /\ RegisteredLevels(s, x.b, {x.controlB, x.treatmentB})

-----------------------------------------------------------------------------
(* Profiles: one per scaffold. *)

Rate(part, whole) == <<Cardinality(part), Cardinality(whole)>>

\* Repeats of one task under one treatment.
RepeatGroups(records) ==
    {{r \in records : r.task = x.task /\ r.factors = x.factors /\ r.variant = x.variant} : x \in records}

FirstRepeats(group, k) == {r \in group : Cardinality({o \in group : o.repeat < r.repeat}) < k}

\* Groups of fewer than k repeats are excluded; repeats past the k-th are not
\* looked at.
RepeatSeries(records, k) ==
    LET complete == {FirstRepeats(g, k) : g \in {g \in RepeatGroups(records) : Cardinality(g) >= k}}
        short    == {g \in RepeatGroups(records) : Cardinality(g) < k}
    IN  [atK      |-> Rate({g \in complete : \E r \in g : r.success}, complete),
         powerK   |-> Rate({g \in complete : \A r \in g : r.success}, complete),
         used     |-> UNION complete,
         excluded |-> UNION short]

ProfileReport(scaffold, records, k) ==
    LET own     == {r \in records : r.scaffold = scaffold}
        timed   == {r \in own : r.latency # NoValue}
        costed  == \A r \in own : r.cost # NoValue
    IN  [profile |-> scaffold, records |-> own,
         pass1   |-> Rate({r \in own : r.success}, own),
         repeats |-> RepeatSeries(own, k),
         severe  |-> Rate({r \in own : r.severe # {}}, own),
         audit   |-> <<Summed([r \in own |-> r.audit]), Cardinality(own)>>,
         latency |-> IF timed = {} THEN NoValue
                     ELSE <<Summed([r \in timed |-> r.latency]), Cardinality(timed)>>,
         cost    |-> IF costed THEN <<Summed([r \in own |-> r.cost]), Cardinality(own)>> ELSE NoValue]

SevereSummary(records) ==
    [label \in UNION {r.severe : r \in records} |-> Cardinality({r \in records : label \in r.severe})]

-----------------------------------------------------------------------------
(* Pairing. *)

Restricted(f, S) == [x \in S |-> f[x]]

\* Records that share everything but the factors of the contrast. Every bucket
\* must hold each needed combination of levels exactly once.
PairRecords(records, factors, needed) ==
    LET cell(r)  == Restricted(r.factors, factors)
        eligible == {r \in records : r.pair # NoValue /\ factors \subseteq DOMAIN r.factors
                                        /\ cell(r) \in needed}
        key(r)   == <<r.pair, r.task, r.cluster, r.scaffold, r.variant,
                      Restricted(r.factors, DOMAIN r.factors \ factors)>>
        buckets  == {{r \in eligible : key(r) = key(x)} : x \in eligible}
        sound    == \A b \in buckets : /\ Cardinality(b) = Cardinality(needed)
                                       /\ {cell(r) : r \in b} = needed
    IN  [sound |-> sound /\ buckets # {}, buckets |-> buckets]

InCell(bucket, assignment) ==
    CHOOSE r \in bucket : Restricted(r.factors, DOMAIN assignment) = assignment

Outcome(r, metric) == IF metric THEN r.metric ELSE IF r.success THEN 1 ELSE 0

-----------------------------------------------------------------------------
(* Tests and corrections. *)

Magnitude(x) == IF x < 0 THEN -x ELSE x

\* cluster_sign_flip_p_value: whole clusters change sign together; every
\* assignment of signs is tried.
SignFlip(value, cluster) ==
    LET clusters == Range(cluster)
        sums     == [c \in clusters |-> Summed([p \in {q \in DOMAIN value : cluster[q] = c} |-> value[p]])]
        signs    == [clusters -> {-1, 1}]
        flipped(sign) == Magnitude(Summed([c \in clusters |-> sign[c] * sums[c]]))
    IN  <<Cardinality({sign \in signs : flipped(sign) >= Magnitude(Summed(sums))}), Cardinality(signs)>>

\* The p-values of some effects, by their indices. Place of the i-th when sorted,
\* first come first among equals.
Place(ps, i) == 1 + Cardinality({j \in DOMAIN ps : Less(ps[j], ps[i]) \/ (j < i /\ ~Less(ps[i], ps[j]))})

One == <<1, 1>>
Greatest(S) == CHOOSE x \in S : \A y \in S : Leq(y, x)
Least(S) == CHOOSE x \in S : \A y \in S : Leq(x, y)

\* Mutant: no running maximum.
HolmUnordered(ps) ==
    [i \in DOMAIN ps |-> Least({One, <<ps[i][1] * (Cardinality(DOMAIN ps) - Place(ps, i) + 1), ps[i][2]>>})]

\* holm: the running maximum of p * (total - place + 1), capped at one.
Holm(ps) ==
    [i \in DOMAIN ps |->
        Greatest({Least({One, <<ps[j][1] * (Cardinality(DOMAIN ps) - Place(ps, j) + 1), ps[j][2]>>}) :
                    j \in {j \in DOMAIN ps : Place(ps, j) <= Place(ps, i)}})]

\* benjamini_hochberg: the running minimum, from the largest down, of
\* p * total / place.
BenjaminiHochberg(ps) ==
    [i \in DOMAIN ps |->
        Least({One} \union {<<ps[j][1] * Cardinality(DOMAIN ps), ps[j][2] * Place(ps, j)>> :
                    j \in {j \in DOMAIN ps : Place(ps, j) >= Place(ps, i)}})]

\* The p-values of what was estimated; the rest is left as it is.
RawValues(effects) == [i \in {i \in DOMAIN effects : effects[i].status = "ESTIMATED"} |-> effects[i].raw]

Corrected(effects, adjusted) ==
    [i \in DOMAIN effects |->
        IF i \in DOMAIN adjusted
        THEN [effects[i] EXCEPT !.adjusted = adjusted[i], !.rejected = Leq(adjusted[i], Alpha)]
        ELSE effects[i]]

-----------------------------------------------------------------------------
(* Effects. *)

Effect(id, status, pairs, clusters, estimate, raw) ==
    [id |-> id, status |-> status, pairs |-> pairs, clusters |-> clusters, estimate |-> estimate,
     raw |-> raw, adjusted |-> NoValue, rejected |-> FALSE]

\* Clusters of the buckets.
BucketCluster(b) == (CHOOSE r \in b : TRUE).cluster

Refused == [status |-> "refused"]

AtLevel(factor, l) == [f \in {factor} |-> l]

\* A main effect with too few clusters refuses the whole report.
MainEffect(m, records, minClusters) ==
    LET control   == AtLevel(m.factor, m.control)
        treatment == AtLevel(m.factor, m.treatment)
        paired    == PairRecords(records, {m.factor}, {control, treatment})
        values    == [b \in paired.buckets |-> Outcome(InCell(b, treatment), m.metric)
                                                - Outcome(InCell(b, control), m.metric)]
        clusters  == {BucketCluster(b) : b \in paired.buckets}
    IN  IF ~paired.sound \/ Cardinality(clusters) < minClusters THEN Refused
        ELSE Effect(m.id, "ESTIMATED", paired.buckets, Cardinality(clusters),
                    <<Summed(values), Cardinality(paired.buckets)>>,
                    SignFlip(values, [b \in paired.buckets |-> BucketCluster(b)]))

MainEffects(s, records) ==
    LET effects == [i \in DOMAIN s.mains |-> MainEffect(s.mains[i], records, s.minClusters)]
    IN  IF \E i \in DOMAIN effects : effects[i].status = "refused" THEN Refused
        ELSE [status |-> "done", effects |-> Corrected(effects, Holm(RawValues(effects)))]

LevelPair(x, la, lb) == (x.a :> la) @@ (x.b :> lb)
LevelPairs(x) == {LevelPair(x, la, lb) : la \in {x.controlA, x.treatmentA}, lb \in {x.controlB, x.treatmentB}}

\* An interaction with too few pairs or clusters is held, not refused.
Interaction(x, records, minClusters) ==
    LET paired    == PairRecords(records, {x.a, x.b}, LevelPairs(x))
        y(b, la, lb) == Outcome(InCell(b, LevelPair(x, la, lb)), x.metric)
        values    == [b \in paired.buckets |->
                        (y(b, x.treatmentA, x.treatmentB) - y(b, x.controlA, x.treatmentB))
                        - (y(b, x.treatmentA, x.controlB) - y(b, x.controlA, x.controlB))]
        clusters  == Cardinality({BucketCluster(b) : b \in paired.buckets})
        pairs     == Cardinality(paired.buckets)
    IN  IF ~paired.sound THEN Refused
        ELSE IF pairs < x.minPairs \/ clusters < x.minClusters \/ clusters < minClusters
        THEN Effect(x.id, "HOLD", paired.buckets, clusters, NoValue, NoValue)
        ELSE Effect(x.id, "ESTIMATED", paired.buckets, clusters,
                    <<Summed(values), pairs>>,
                    SignFlip(values, [b \in paired.buckets |-> BucketCluster(b)]))

\* Only what was estimated is corrected.
Interactions(s, records) ==
    LET effects == [i \in DOMAIN s.interactions |-> Interaction(s.interactions[i], records, s.minClusters)]
    IN  IF \E i \in DOMAIN effects : effects[i].status = "refused" THEN Refused
        ELSE [status |-> "done", effects |-> Corrected(effects, BenjaminiHochberg(RawValues(effects)))]

\* Stress minus clean, within a profile; a pair's episodes may be of different
\* tasks. Two records of one variant in a mixed bucket refuse the report.
StressTax(records, scaffold, minClusters) ==
    LET own      == {r \in records : r.scaffold = scaffold /\ r.pair # NoValue}
        buckets  == {{r \in own : r.pair = x.pair /\ r.factors = x.factors} : x \in own}
        mixed    == {b \in buckets : {r.variant : r \in b} = {"clean", "stress"}}
        of(b, v) == CHOOSE r \in b : r.variant = v
        values   == [b \in mixed |-> Outcome(of(b, "stress"), FALSE) - Outcome(of(b, "clean"), FALSE)]
        clusters == Cardinality({of(b, "clean").cluster : b \in mixed})
    IN  IF \E b \in mixed : Cardinality(b) # 2 THEN Refused
        ELSE IF mixed = {} \/ clusters < minClusters
        THEN Effect(scaffold, "HOLD", mixed, clusters, NoValue, NoValue)
        ELSE Effect(scaffold, "ESTIMATED", mixed, clusters,
                    <<Summed(values), Cardinality(mixed)>>, NoValue)

-----------------------------------------------------------------------------
(* Adequacy and the research fit. *)

\* The smallest arms over the registered contrasts.
ArmCounts(s, records) ==
    LET at(f, l) == Cardinality({r \in records : f \in DOMAIN r.factors /\ r.factors[f] = l})
        in(x, la) == Cardinality({r \in records : /\ {x.a, x.b} \subseteq DOMAIN r.factors
                                                  /\ r.factors[x.a] = la
                                                  /\ r.factors[x.b] \in {x.controlB, x.treatmentB}})
    IN  IF s.mains # <<>>
        THEN <<Min({at(m.factor, m.control) : m \in ToSet(s.mains)}),
               Min({at(m.factor, m.treatment) : m \in ToSet(s.mains)})>>
        ELSE IF s.interactions # <<>>
        THEN <<Min({in(x, x.controlA) : x \in ToSet(s.interactions)}),
               Min({in(x, x.treatmentA) : x \in ToSet(s.interactions)})>>
        ELSE <<0, 0>>

\* Reasons not to confirm anything. The last one is always there: what a
\* caller says of the comparison's invariants is not evidence.
AdequacyReasons(s, records) ==
    LET arms == ArmCounts(s, records)
        low  == Min({arms[1], arms[2]})
        high == Max({arms[1], arms[2]})
        tooFew(S) == Less(Rate(S, records), <<95, 100>>)
    IN  {reason \in {"attempts", "clusters", "arms", "balance", "manipulation", "trace",
                     "preregistration", "held_out", "comparison_invariants"} :
            CASE reason = "attempts" -> Cardinality(records) < 20
              [] reason = "clusters" -> Cardinality({r.cluster : r \in records}) < s.minClusters
              [] reason = "arms" -> low < 5
              [] reason = "balance" -> high = 0 \/ 10 * low < 8 * high
              [] reason = "manipulation" -> tooFew({r \in records : r.manipulation})
              [] reason = "trace" -> tooFew({r \in records : r.trace})
              [] reason = "preregistration" -> ~s.preregistered
              [] reason = "held_out" -> \E r \in records : ~r.heldOut
              [] reason = "comparison_invariants" -> TRUE}

Adequacy(s, records) ==
    IF AdequacyReasons(s, records) = {} THEN "CONFIRMATORY_ANALYSIS_ELIGIBLE" ELSE "DESCRIPTIVE_ONLY"

\* _rows comes first: a record without a registered factor refuses the report
\* even when nothing would have been fitted.
ResearchFit(s, records) ==
    IF \E r \in records : DOMAIN s.registered # DOMAIN r.factors THEN "refused"
    ELSE IF Adequacy(s, records) = "DESCRIPTIVE_ONLY" THEN "HOLD_ADEQUACY" ELSE "FITTED"

-----------------------------------------------------------------------------
(* Profile selection. *)

NoWorse(x, y) ==
    /\ Leq(y.pass1, x.pass1) /\ Leq(y.audit, x.audit) /\ Leq(x.severe, y.severe)
    /\ Leq(x.cost, y.cost) /\ Leq(x.latency, y.latency)

Dominates(x, y) == NoWorse(x, y) /\ ~NoWorse(y, x)

Candidates(profiles) == {p \in profiles : p.cost # NoValue /\ p.latency # NoValue}

ParetoFrontier(candidates) == {p \in candidates : \A o \in candidates : ~Dominates(o, p)}

MeetsConstraints(p, c) ==
    /\ Leq(p.severe, c.severe) /\ Leq(p.cost, c.cost) /\ Leq(p.latency, c.latency)
    /\ Leq(c.pass1, p.pass1) /\ Leq(c.audit, p.audit)

\* Lexicographic: cheapest, fastest, most successful, most auditable, by name.
Preferred(order, x, y) ==
    LET same(f) == Leq(x[f], y[f]) /\ Leq(y[f], x[f])
    IN  \/ Less(x.cost, y.cost)
        \/ same("cost") /\ Less(x.latency, y.latency)
        \/ same("cost") /\ same("latency") /\ Less(y.pass1, x.pass1)
        \/ same("cost") /\ same("latency") /\ same("pass1") /\ Less(y.audit, x.audit)
        \/ same("cost") /\ same("latency") /\ same("pass1") /\ same("audit")
             /\ order[x.profile] <= order[y.profile]

MinimumSufficient(s, candidates) ==
    LET fit == {p \in candidates : MeetsConstraints(p, s.constraints)}
    IN  IF candidates = {} \/ fit = {} THEN NoValue
        ELSE (CHOOSE p \in fit : \A o \in fit : Preferred(s.names, p, o)).profile

-----------------------------------------------------------------------------
\* One record per episode, one profile per scaffold.
Records(s) == {EpisodeRecord(e) : e \in s.episodes}
ProfileReports(records, k) == {ProfileReport(p, records, k) : p \in {r.scaffold : r \in records}}
StressTaxes(records, k) == {StressTax(records, p, k) : p \in {r.scaffold : r \in records}}

AnalysisReport(s) ==
    LET records  == Records(s)
        mains    == MainEffects(s, records)
        inter    == Interactions(s, records)
        taxes    == StressTaxes(records, s.minClusters)
        profiles == ProfileReports(records, s.passK)
    IN  IF \/ s.episodes = {} \/ \E e \in s.episodes : ~ChainAccepted(e.chain)
           \/ ~ValidInput(s, records)
           \/ mains.status = "refused" \/ inter.status = "refused"
           \/ \E t \in taxes : t.status = "refused"
           \/ ResearchFit(s, records) = "refused"
        THEN Refused
        ELSE [status       |-> "built",
              records      |-> records,
              severe       |-> SevereSummary(records),
              profiles     |-> profiles,
              mains        |-> mains.effects,
              interactions |-> inter.effects,
              taxes        |-> taxes,
              adequacy     |-> Adequacy(s, records),
              research     |-> ResearchFit(s, records),
              frontier     |-> {p.profile : p \in ParetoFrontier(Candidates(profiles))},
              minimum      |-> MinimumSufficient(s, Candidates(profiles))]

BuildAnalysisReport ==
    /\ report = NoValue
    /\ report' = AnalysisReport(study)
    /\ UNCHANGED study

AnalysisNext == BuildAnalysisReport

AnalysisSpec == AnalysisInit /\ [][AnalysisNext]_analysisVars

-----------------------------------------------------------------------------
Built == report # NoValue /\ report.status = "built"

\* The corrections (statistics 261, 274) reject what their textbook
\* definitions reject, whatever the order of equal p-values: Holm, the effects
\* every Bonferroni test of a subfamily containing them rejects; Benjamini and
\* Hochberg, the largest set whose members are all below its share of alpha.
CorrectionsAreExact ==
    Built =>
        LET m == report.mains
            x == report.interactions
            tested == {i \in DOMAIN x : x[i].status = "ESTIMATED"}
            below(p, k, n) == Leq(<<p[1] * n, p[2] * k>>, Alpha)
        IN  /\ \A i \in DOMAIN m : m[i].rejected <=>
                 \A S \in SUBSET DOMAIN m : i \in S => \E j \in S : below(m[j].raw, 1, Cardinality(S))
            /\ \A i \in tested : x[i].rejected <=>
                 \E S \in SUBSET tested : i \in S /\ \A j \in S : below(x[j].raw, Cardinality(S), Cardinality(tested))

\* The selected profile (decision 181) satisfies the constraints, and what
\* dominates it does so by fewer severe failures alone; every candidate off the
\* frontier is dominated by one that is on it; without a selection no candidate
\* would have done.
SelectionIsEfficient ==
    Built =>
        LET candidates == Candidates(report.profiles)
            named(id)  == CHOOSE p \in candidates : p.profile = id
            frontier   == {p \in candidates : p.profile \in report.frontier}
        IN  /\ \A p \in candidates \ frontier : \E o \in frontier : Dominates(o, p)
            /\ IF report.minimum = NoValue
               THEN \A p \in candidates : ~MeetsConstraints(p, study.constraints)
               ELSE LET chosen == named(report.minimum) IN
                    /\ MeetsConstraints(chosen, study.constraints)
                    /\ \A p \in candidates : Dominates(p, chosen) =>
                            NoWorse(chosen, [p EXCEPT !.severe = chosen.severe])

\* What the figures count (engine 482, 511, 630): the profiles share out the
\* episodes; passing every time is never more frequent than passing once; an
\* episode is used by the repeat series, excluded from it or past its k-th
\* repeat; a paired effect uses an episode at most once and estimates the
\* difference of the two arms' success rates.
FiguresAddUp ==
    Built =>
        /\ Summed([p \in report.profiles |-> p.pass1[2]]) = Cardinality(study.episodes)
        /\ \A p \in report.profiles :
             LET r == p.repeats IN
             /\ r.powerK[2] = r.atK[2] /\ r.powerK[1] <= r.atK[1]
             /\ r.used \intersect r.excluded = {}
             /\ \A x \in p.records \ (r.used \union r.excluded) :
                    Cardinality({o \in r.used : /\ [o.unit EXCEPT !.repeat = 0] = [x.unit EXCEPT !.repeat = 0]
                                                /\ o.repeat < x.repeat}) = study.passK
        /\ \A i \in DOMAIN report.mains :
             LET e    == report.mains[i]
                 m    == study.mains[i]
                 arm(l) == {r \in UNION e.pairs : r.factors[m.factor] = l}
                 wins(l) == Summed([r \in arm(l) |-> Outcome(r, m.metric)])
             IN  /\ \A b, c \in e.pairs : b # c => b \intersect c = {}
                 /\ Cardinality(arm(m.control)) = Cardinality(arm(m.treatment))
                 /\ e.estimate = <<wins(m.treatment) - wins(m.control), Cardinality(arm(m.control))>>

\* A report that is built can be relied on (analysis_v1 engine, statistics,
\* decision): its rejections, its selection and its figures are right for every
\* outcome the episodes may have.
AnalysisIsExact == CorrectionsAreExact /\ SelectionIsEfficient /\ FiguresAddUp
=============================================================================
