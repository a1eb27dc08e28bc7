----------------------------- MODULE Workbench ------------------------------
(***************************************************************************)
(* The parts of the workbench around the durable execution core: legacy    *)
(* runs, blind review, provider adapters, the offline installer, the trace *)
(* laboratory, the statistical analysis, the offline demo, the execution   *)
(* page, the factor adapter and its episode memory, Forge and its planner, *)
(* counterfactual replay, and the audit of stored runs.                    *)
(*                                                                         *)
(* No part writes what another one reads; rows that come from elsewhere    *)
(* (an execution, its events, an attempt) are written inside each part by  *)
(* whatever actions they need. So a behaviour of all of them is an         *)
(* interleaving of independent ones, and an invariant of one holds in the  *)
(* product exactly if it holds alone. Each behaviour here therefore moves  *)
(* one part and leaves the others in an initial state: the state space is  *)
(* the sum of the parts' state spaces. The one link between two parts, the *)
(* audit of the rows legacy runs store, is StoredWinnersPass below.        *)
(***************************************************************************)
EXTENDS LegacyRuns, BlindReview, Adapters, OfflineInstaller, TraceLab, Analysis, OfflineDemo,
        ExecutionControl, FactorAdapter, ForgeCustody, ReplayCI, TraceAudit

VARIABLE part    \* the part that moves

Parts ==
    {"legacy", "review", "adapters", "installer", "lab", "analysis", "demo", "control",
     "factor", "memory", "forge", "planner", "replay", "audit"}

Some(S) == CHOOSE x \in S : TRUE

\* A part that does not move rests in one of its initial states.
Init ==
    /\ part \in Parts
    /\ AnalysisInit /\ (part # "analysis" => study.episodes = {})
    /\ LabInit /\ (part # "lab" => \A a, b \in LabAttempts : written[a].plan = Some(Traces)
                                                           /\ written[a].experiment = written[b].experiment)
    /\ ControlInit /\ (part # "control" => page.route = NoExecution)
    /\ AdaptersInit /\ (part # "adapters" => kind = Some(Kinds) /\ runtime = Some(RuntimeIds))
    /\ IF part = "audit" THEN AuditInit ELSE inputs = Some(TraceFiles) /\ audit = NoAudit
    /\ LegacyInit /\ ReviewInit /\ InstallerInit /\ DemoInit
    /\ FactorInit /\ MemoryInit /\ ForgeInit /\ ReplayInit

\* Every part but the one that moves stays as it is.
Rest ==
    /\ part # "legacy"    => UNCHANGED legacyVars
    /\ part # "review"    => UNCHANGED reviewVars
    /\ part # "adapters"  => UNCHANGED adapterVars
    /\ part # "installer" => UNCHANGED installerVars
    /\ part # "lab"       => UNCHANGED labVars
    /\ part # "analysis"  => UNCHANGED analysisVars
    /\ part # "demo"      => UNCHANGED demoVars
    /\ part # "control"   => UNCHANGED controlVars
    /\ part # "factor"    => UNCHANGED factorVars
    /\ part # "memory"    => UNCHANGED memoryVars
    /\ part # "replay"    => UNCHANGED replayVars
    /\ part # "audit"     => UNCHANGED auditVars
    /\ part \notin {"forge", "planner"} => UNCHANGED forgeVars

Next ==
    /\ UNCHANGED part
    /\ \/ part = "legacy"    /\ LegacyNext
       \/ part = "review"    /\ ReviewNext
       \/ part = "adapters"  /\ AdaptersNext
       \/ part = "installer" /\ InstallerNext
       \/ part = "lab"       /\ LabNext
       \/ part = "analysis"  /\ AnalysisNext
       \/ part = "demo"      /\ DemoNext
       \/ part = "control"   /\ ControlNext
       \/ part = "factor"    /\ FactorNext
       \/ part = "memory"    /\ MemoryNext
       \/ part = "forge"     /\ CustodyNext
       \/ part = "planner"   /\ PlannerNext
       \/ part = "replay"    /\ ReplayNext
       \/ part = "audit"     /\ AuditNext
    /\ Rest

vars ==
    <<part, legacyVars, reviewVars, adapterVars, installerVars, labVars, analysisVars, demoVars,
      controlVars, factorVars, memoryVars, forgeVars, replayVars, auditVars>>

Spec == Init /\ [][Next]_vars

-----------------------------------------------------------------------------
(* Legacy runs and the audit that reads their rows (load_stored_run_records). *)

\* No scaffold, score or evaluation is the absent field.
ASSUME StoredAssumption ==
    /\ NoAudit \notin Scaffolds /\ NoAudit \notin Scores
    /\ \A score \in Scores : [score |-> score] # NoAudit

StoredResult(x) ==
    [shaped |-> TRUE, evaluation |-> IF x.score = Failure THEN NoAudit ELSE [score |-> x.score]]

StoredRecord(r) ==
    [run |-> r, task |-> NoAudit, status |-> stored[r].status,
     winner |-> IF stored[r].winner = "none" THEN NoAudit ELSE stored[r].winner,
     results |-> [i \in DOMAIN stored[r].results |->
                    [scaffold |-> stored[r].results[i].scaffold, result |-> StoredResult(stored[r].results[i])]]]

\* The audit (trace_audit 127) never faults the winner of a run the engine stored
\* itself (run_engine 287, comparison 138), however its scaffolds finished,
\* failed or were cancelled.
StoredWinnersPass == \A r \in Runs : stored[r] # NoRun => AuditWinner(StoredRecord(r)) = <<>>

\* The audit as its reader needs it: nothing lost, nothing invented, and no
\* quarrel with the engine.
AuditIsSound == AuditIsComplete /\ StoredWinnersPass
=============================================================================
