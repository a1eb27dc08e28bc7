---------------------------- MODULE MCRegistry ----------------------------
(***************************************************************************)
(* An instance of Registry: two bundles that compete for two versions, and *)
(* definitions whose preflight passes, fails on the attempt budget and     *)
(* fails on an incompatible design.                                        *)
(***************************************************************************)
EXTENDS Registry, TLC

CONSTANTS b1, b2, v1, v2, d1, d2, d3, e1, e2, h1, h2

Entry(path, kind) == [path |-> path, folded |-> path, kind |-> kind, size |-> 4, packed |-> 1]

Upload(v, b, body, entries) ==
    [version |-> v, bundle |-> b, body |-> body, media |-> "application/zip",
     entries |-> entries, valid |-> TRUE]

Manifest == Entry("study-pack.json", "file")

\* Acceptable archives, and one body for each limit.
MCUploads ==
    {Upload(v1, b1, 2, <<Manifest>>), Upload(v1, b2, 2, <<Manifest, Entry("data", "file")>>),
     Upload(v2, b2, 2, <<Manifest>>),
     Upload(v2, b1, 3, <<Manifest>>), Upload(v2, b1, 2, <<Manifest, Manifest>>),
     Upload(v2, b1, 2, <<Manifest, Entry("run.py", "executable")>>)}

Scenario(role) ==
    [family |-> "f", role |-> role, weight |-> 70, checks |-> {"policy"}, complete |-> FALSE]

MCPack ==
    [b \in {b1, b2} |->
        [scenarios |-> [s \in {"positive", "negative", "anti_cheat"} |-> Scenario(s)],
         harnesses |-> [k \in {"fixture"} |->
            [eligibility |-> "fixture_only", tools |-> FALSE, isolated |-> FALSE,
             adapter |-> "offline"]]]]

Binary(incompatible) ==
    [levels |-> {"off", "on"}, baseline |-> "off", incompatible |-> incompatible, forbidden |-> {}]

Definition(e, design, attempts) ==
    [experiment |-> e, predecessor |-> None, approval |-> "pending", design |-> design,
     factors |-> ("policy" :> Binary({"memory"}) @@ "memory" :> Binary({})), custom |-> <<>>,
     scenarios |-> {"positive", "negative"}, harnesses |-> {"fixture"}, endpoints |-> {},
     pinned |-> FALSE, repetitions |-> 1, budget |-> 1,
     aggregate |-> [attempts |-> attempts, cost |-> 6], checks |-> {"policy", "memory"},
     claim |-> FALSE, outcomes |-> {}]

\* The full design has three arms (policy and memory are never both on), so six
\* attempts; the half fraction keeps one, so two.
MCSpec ==
    d1 :> Definition(e1, "full", 6)
    @@ d2 :> Definition(e1, "full", 5)
    @@ d3 :> [Definition(e2, "fractional", 2) EXCEPT !.predecessor = e1, !.approval = "approved"]

Symmetry == Permutations({h1, h2})
=============================================================================
