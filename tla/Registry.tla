------------------------------ MODULE Registry ------------------------------
(***************************************************************************)
(* The project's durable record before anything runs: study-pack versions  *)
(* imported into a content-addressed artifact store, experiments created   *)
(* on them, approved, edited and frozen, and executions created from       *)
(* frozen experiments under an idempotency key.                            *)
(*                                                                         *)
(* Handlers are requests in flight.  A handler is cut where the code       *)
(* leaves one database transaction, or the artifact store, and enters the  *)
(* next: what it read before the cut may be stale after it.  A handler     *)
(* that fails, or whose process dies, stops at any cut.  A digest is       *)
(* modelled by the content it is the digest of.                            *)
(***************************************************************************)
EXTENDS StudyDesign

CONSTANTS
    Handlers,     \* concurrent requests
    Uploads,      \* bodies a client may post to /study-packs
    Versions,     \* versions of the one pack key
    PackOf,       \* PackOf[b]: the study pack in bundle b
    Experiments,
    Definitions,  \* experiment definitions
    SpecOf,       \* SpecOf[d]: what definition d says
    Keys,         \* Idempotency-Key values
    Provenances,  \* ExecutionProvenance bodies
    MaxExecutions,
    None

CONSTANTS MaxBody, MaxZipFiles, MaxZipBytes, MaxZipRatio

VARIABLES
    files,        \* digests whose bytes the artifact store holds
    artifacts,    \* rows of the artifacts table
    packs,        \* study_packs rows: the bundle of a version
    experiments,  \* experiments rows
    executions,   \* executions rows, in the order of creation
    records,      \* idempotency_records rows by key
    handlers      \* what each request in flight is doing

vars == <<files, artifacts, packs, experiments, executions, records, handlers>>

Bundles == {u.bundle : u \in Uploads}

Imported == {v \in Versions : packs[v] # None}

Frozen(e) == experiments[e] # None /\ experiments[e].hash # None

Idle == [op |-> "idle", on |-> None, saw |-> None]

Operations == {"idle", "store", "register", "update", "freeze", "create"}

Init ==
    /\ files = {}
    /\ artifacts = {}
    /\ packs = [v \in Versions |-> None]
    /\ experiments = [e \in Experiments |-> None]
    /\ executions = <<>>
    /\ records = [k \in Keys |-> None]
    /\ handlers = [h \in Handlers |-> Idle]

Step(h, op, next) ==
    /\ handlers[h].op = op
    /\ handlers' = [handlers EXCEPT ![h] = next]

-----------------------------------------------------------------------------
(* Importing a study pack                                                  *)

\* _zip_files and _safe_zip_path: what an archive must look like.
ArchiveAccepted(entries) ==
    LET total == MapThenSumSet(LAMBDA i : entries[i].size, DOMAIN entries)
        packed == MapThenSumSet(LAMBDA i : entries[i].packed, DOMAIN entries)
    IN  /\ Len(entries) \in 1..MaxZipFiles
        /\ \A i, j \in DOMAIN entries : i # j => entries[i].folded # entries[j].folded
        /\ \A i \in DOMAIN entries :
              /\ entries[i].kind = "file"
              /\ entries[i].size <= entries[i].packed * MaxZipRatio
        /\ total <= MaxZipBytes
        /\ total <= packed * MaxZipRatio
        /\ \E i \in DOMAIN entries : entries[i].path = "study-pack.json"

\* _parse_pack, up to the digest of the re-encoded bundle.
ParsePack(u) ==
    /\ u.body \in 1..MaxBody
    /\ CASE u.media = "application/zip" -> ArchiveAccepted(u.entries)
         [] u.media = "application/json" -> TRUE
         [] OTHER -> FALSE
    /\ u.valid

\* put_bytes: the bytes appear whole at their digest (a hard link, or a
\* conditional put that is read back), or were there already.
Put(digest) == files' = files \cup {digest}

\* get_bytes returns the bytes of their digest or raises.
Readable(digest) == digest \in files

\* import_pack: the version is unknown; a known one is replayed or refused.
ImportPack(h, u) ==
    /\ ParsePack(u)
    /\ packs[u.version] = None
    /\ Step(h, "idle", [op |-> "store", on |-> u.version, saw |-> u.bundle])
    /\ UNCHANGED <<files, artifacts, packs, experiments, executions, records>>

ImportStore(h) ==
    /\ Step(h, "store", [op |-> "register", on |-> handlers[h].on, saw |-> handlers[h].saw])
    /\ Put(handlers[h].saw)
    /\ UNCHANGED <<artifacts, packs, experiments, executions, records>>

\* The transaction: another import may have taken the version meanwhile.
ImportRegister(h) ==
    LET version == handlers[h].on
        bundle == handlers[h].saw
    IN  /\ Step(h, "register", Idle)
        /\ IF packs[version] = None
           THEN /\ artifacts' = artifacts \cup {bundle}
                /\ packs' = [packs EXCEPT ![version] = bundle]
           ELSE UNCHANGED <<artifacts, packs>>
        /\ UNCHANGED <<files, experiments, executions, records>>

-----------------------------------------------------------------------------
(* Experiments                                                             *)

\* create_experiment with _resolve_pack_for_spec: the pack key must have one
\* imported version, readable, that holds what the definition refers to.
CreateExperiment(d) ==
    LET spec == SpecOf[d]
        version == CHOOSE v \in Imported : TRUE
    IN  /\ experiments[spec.experiment] = None
        /\ Cardinality(Imported) = 1
        /\ Readable(packs[version])
        /\ WithinPack(spec, PackOf[packs[version]])
        /\ spec.predecessor # None =>
              /\ spec.predecessor # spec.experiment
              /\ experiments[spec.predecessor] # None
        /\ experiments' = [experiments EXCEPT ![spec.experiment] =
              [version |-> version, definition |-> d, approval |-> spec.approval,
               hash |-> None, packHash |-> None]]
        /\ UNCHANGED <<files, artifacts, packs, executions, records, handlers>>

SetApproval(e, approval) ==
    /\ experiments[e] # None
    /\ ~Frozen(e)
    /\ experiments' = [experiments EXCEPT ![e].approval = approval]
    /\ UNCHANGED <<files, artifacts, packs, executions, records, handlers>>

\* update_experiment_definition reads frozen_at ...
UpdateRead(h, e, d) ==
    /\ experiments[e] # None
    /\ ~Frozen(e)
    /\ SpecOf[d].experiment = e
    /\ Step(h, "idle", [op |-> "update", on |-> e, saw |-> d])
    /\ UNCHANGED <<files, artifacts, packs, experiments, executions, records>>

\* ... and then writes without a condition: only the trigger
\* experiments_reject_frozen_updates stands between it and a frozen row.
UpdateWrite(h) ==
    LET e == handlers[h].on IN
    /\ Step(h, "update", Idle)
    /\ experiments' =
          IF Frozen(e) THEN experiments
          ELSE [experiments EXCEPT ![e].definition = handlers[h].saw]
    /\ UNCHANGED <<files, artifacts, packs, executions, records>>

\* The freeze hash binds the definition and the digest of its pack.
FreezeHash(d, bundle) == [definition |-> d, pack |-> bundle]

\* freeze: a frozen experiment is only replayed.
FreezeRead(h, e) ==
    /\ experiments[e] # None
    /\ ~Frozen(e)
    /\ experiments[e].approval = "approved"
    /\ Step(h, "idle", [op |-> "freeze", on |-> e,
            saw |-> FreezeHash(experiments[e].definition, packs[experiments[e].version])])
    /\ UNCHANGED <<files, artifacts, packs, experiments, executions, records>>

FreezeAcceptedStale(e, hash) ==
    /\ ~Frozen(e)
    /\ packs[experiments[e].version] = hash.pack
    /\ experiments[e].approval = "approved"

FreezeAcceptedUnapproved(e, hash) ==
    /\ ~Frozen(e)
    /\ packs[experiments[e].version] = hash.pack
    /\ experiments[e].definition = hash.definition

\* freeze_experiment: the definition must still be the one that was hashed and
\* the approval must still stand; two freezes never agree on frozen_at.
FreezeAccepted(e, hash) ==
    /\ ~Frozen(e)
    /\ packs[experiments[e].version] = hash.pack
    /\ experiments[e].definition = hash.definition
    /\ experiments[e].approval = "approved"

FreezeWrite(h) ==
    LET e == handlers[h].on
        hash == handlers[h].saw
    IN  /\ Step(h, "freeze", Idle)
        /\ experiments' =
              IF FreezeAccepted(e, hash)
              THEN [experiments EXCEPT ![e].definition = hash.definition,
                                       ![e].hash = hash, ![e].packHash = hash.pack]
              ELSE experiments
        /\ UNCHANGED <<files, artifacts, packs, executions, records>>

-----------------------------------------------------------------------------
(* Executions                                                              *)

\* _load_frozen_experiment and _validate_frozen: the row is approved, its hashes
\* agree with its definition and its pack, and the pack can still be read.
FrozenIntact(e) ==
    LET row == experiments[e] IN
    /\ Frozen(e)
    /\ row.approval = "approved"
    /\ row.hash = FreezeHash(row.definition, row.packHash)
    /\ row.packHash = packs[row.version]
    /\ Readable(row.packHash)

PreflightPasses(e) ==
    Blockers(SpecOf[experiments[e].definition], PackOf[experiments[e].packHash]) = {}

\* create_execution: the checks before the transaction, and the request digest.
CreateRequest(h, k, e, provenance) ==
    /\ FrozenIntact(e)
    /\ PreflightPasses(e)
    /\ Step(h, "idle", [op |-> "create", on |-> k,
            saw |-> [hash |-> experiments[e].hash, provenance |-> provenance]])
    /\ UNCHANGED <<files, artifacts, packs, experiments, executions, records>>

Jobs(digest) == Cardinality(Matrix(SpecOf[digest.hash.definition]))

Insert(k, digest) ==
    executions' = Append(executions,
        [experiment |-> SpecOf[digest.hash.definition].experiment,
         hash |-> digest.hash, key |-> k, jobs |-> Jobs(digest)])

Complete(k, digest) ==
    records' = [records EXCEPT ![k] = [digest |-> digest, response |-> Len(executions) + 1]]

ReserveAlways(k, digest) ==
    Len(executions) < MaxExecutions /\ Insert(k, digest) /\ Complete(k, digest)

\* The transaction reserves the key, inserts the execution with its episodes,
\* attempts and jobs, and completes the key with the response.  A known key is
\* replayed when the digest is the same and refused when it is not.
Reserve(k, digest) ==
    IF records[k] = None
    THEN Len(executions) < MaxExecutions /\ Insert(k, digest) /\ Complete(k, digest)
    ELSE UNCHANGED <<executions, records>>

CreateExecution(h) ==
    /\ Step(h, "create", Idle)
    /\ Reserve(handlers[h].on, handlers[h].saw)
    /\ UNCHANGED <<files, artifacts, packs, experiments>>

\* A handler raises, or its process dies, between two steps.
Abandon(h) ==
    /\ handlers[h].op # "idle"
    /\ handlers' = [handlers EXCEPT ![h] = Idle]
    /\ UNCHANGED <<files, artifacts, packs, experiments, executions, records>>

-----------------------------------------------------------------------------
HandlerStep(h) ==
    \/ \E u \in Uploads : ImportPack(h, u)
    \/ ImportStore(h)
    \/ ImportRegister(h)
    \/ \E e \in Experiments, d \in Definitions : UpdateRead(h, e, d)
    \/ UpdateWrite(h)
    \/ \E e \in Experiments : FreezeRead(h, e)
    \/ FreezeWrite(h)
    \/ \E k \in Keys, e \in Experiments, p \in Provenances : CreateRequest(h, k, e, p)
    \/ CreateExecution(h)
    \/ Abandon(h)

Next ==
    \/ \E h \in Handlers : HandlerStep(h)
    \/ \E d \in Definitions : CreateExperiment(d)
    \/ \E e \in Experiments, a \in {"pending", "approved", "rejected"} : SetApproval(e, a)

RegistrySpec == Init /\ [][Next]_vars

-----------------------------------------------------------------------------
(* Properties                                                              *)

Approvals == {"pending", "approved", "rejected"}

Hashes == [definition : Definitions, pack : Bundles]

Digests == [hash : Hashes, provenance : Provenances]

Rows ==
    [version : Versions, definition : Definitions, approval : Approvals,
     hash : Hashes \cup {None}, packHash : Bundles \cup {None}]

Records == [digest : Digests, response : Nat]

\* A definition names one of the project's experiments, a bundle one of its
\* versions, and the absent value is none of the rows.
ASSUME ConstantAssumption ==
    /\ \A d \in Definitions :
          SpecOf[d].experiment \in Experiments /\ SpecOf[d].approval \in Approvals
    /\ \A u \in Uploads : u.version \in Versions
    /\ MaxExecutions \in Nat

\* What ExperimentSpec's validators establish of a definition: some scenarios and
\* harnesses, at least one repetition, lists and counts that are finite.
ASSUME DesignAssumption ==
    \A d \in Definitions :
        LET spec == SpecOf[d] IN
        /\ spec.scenarios # {} /\ IsFiniteSet(spec.scenarios)
        /\ spec.harnesses # {} /\ IsFiniteSet(spec.harnesses)
        /\ IsFiniteSet(spec.endpoints)
        /\ IsFiniteSet(DOMAIN spec.factors)
        /\ \A f \in DOMAIN spec.factors : IsFiniteSet(spec.factors[f].levels)
        /\ spec.repetitions \in Nat \ {0}
        /\ spec.aggregate.attempts \in Nat

ASSUME NoneAssumption == None \notin Bundles \cup Hashes \cup Rows \cup Records

\* Types: every row refers to something the project has.
TypeOK ==
    /\ files \subseteq Bundles
    /\ artifacts \subseteq Bundles
    /\ packs \in [Versions -> Bundles \cup {None}]
    /\ experiments \in [Experiments -> Rows \cup {None}]
    /\ Len(executions) <= MaxExecutions
    /\ \A k \in Keys : records[k] # None => records[k].response \in DOMAIN executions
    /\ \A h \in Handlers : handlers[h].op \in Operations

\* Whatever the database names can be read: an artifact is stored before a row
\* refers to it, whichever import crashes or loses the race for a version
\* (import_pack's order of put_bytes and the inserts).
RegisteredIsReadable ==
    /\ artifacts \subseteq files
    /\ \A v \in Imported : packs[v] \in artifacts

\* A frozen experiment and a registered version never change again, although
\* an update reads frozen_at before it writes and an import reads the version
\* before it stores; and the freeze itself takes the definition as it stands,
\* never undoing an edit made since it read the row
\* (update_experiment_definition, freeze_experiment, import_pack, the trigger).
FrozenIsFinal ==
    [][/\ \A e \in Experiments : Frozen(e) => experiments'[e] = experiments[e]
       /\ \A e \in Experiments :
             ~Frozen(e) /\ Frozen(e)' =>
                experiments[e] # None /\ experiments'[e].definition = experiments[e].definition
       /\ \A v \in Imported : packs'[v] = packs[v]]_vars

\* What is frozen is what the owner approved, whatever was edited or withdrawn
\* while the freeze was in flight, and every execution carries the freeze hash
\* of its experiment's row (freeze, freeze_experiment, _validate_frozen).
FrozenWasApproved ==
    /\ \A e \in Experiments :
          Frozen(e) =>
             /\ experiments[e].approval = "approved"
             /\ experiments[e].hash =
                   FreezeHash(experiments[e].definition, packs[experiments[e].version])
    /\ \A i \in DOMAIN executions :
          executions[i].hash = experiments[executions[i].experiment].hash

\* A key stands for one execution, however many requests carry it at once, and
\* its record answers with that execution (reserve_execution_idempotency).
OneExecutionPerKey ==
    \A k \in Keys :
        LET created == {i \in DOMAIN executions : executions[i].key = k} IN
        /\ Cardinality(created) <= 1
        /\ created # {} => records[k] # None /\ records[k].response \in created

\* The rows keep their shapes, refer only to what can be read (registry 142), and
\* a key never gives two executions (repository 291), after any interleaving of
\* imports, edits, repeated requests and crashes.
RegistryIsSound == TypeOK /\ RegisteredIsReadable /\ OneExecutionPerKey

\* An execution never has more jobs than the aggregate budget its preflight
\* passed: the registry's count agrees with the controller's matrix (preflight,
\* _matrix), also for a design without endpoints.
JobsWithinBudget ==
    \A i \in DOMAIN executions :
        /\ executions[i].jobs > 0
        /\ executions[i].jobs <= SpecOf[executions[i].hash.definition].aggregate.attempts
=============================================================================
