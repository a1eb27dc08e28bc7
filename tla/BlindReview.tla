---------------------------- MODULE BlindReview ----------------------------
(***************************************************************************)
(* Blind human review: batches of assignments built from evaluated         *)
(* attempts, immutable annotations, disputes and their adjudication        *)
(* (services_v1/review, review_v1/models, the review part of the           *)
(* repository), next to the library's own account of a complete protocol   *)
(* (evaluation_v1/annotations).                                            *)
(*                                                                         *)
(* A score is an integer number of tenths; hashes are their content. An    *)
(* action is one database transaction: what a handler read in an earlier   *)
(* one is kept in its local state. Handlers of several server processes    *)
(* interleave between transactions.                                        *)
(***************************************************************************)
EXTENDS Integers, Sequences, FiniteSets, FiniteSetsExt, Functions

CONSTANTS
    BatchIds,
    BatchBodies,    \* payloads a client may post for a batch
    Attempts,
    ReviewHandlers, \* concurrent requests
    Tenths,         \* scores a reviewer may give
    FinalTenths,    \* scores an adjudicator may give
    NoReview        \* absent row, idle handler

ASSUME RatersAssumption == \A body \in BatchBodies : IsFiniteSet(body.raters)

VARIABLES
    evaluated,      \* attempts with a durable evaluation bound to their artifacts
    batch,          \* batch id -> body, or NoReview: annotation_batches
    annotations,    \* batch id -> assignment -> dimension scores
    adjudications,  \* batch id -> item -> [scores, evidence]
    payloads,       \* registered blinded payload artifacts
    review          \* handler -> the request it is serving

reviewVars == <<evaluated, batch, annotations, adjudications, payloads, review>>

ReviewInit ==
    /\ evaluated = {}
    /\ batch = [b \in BatchIds |-> NoReview]
    /\ annotations = [b \in BatchIds |-> <<>>]
    /\ adjudications = [b \in BatchIds |-> <<>>]
    /\ payloads = {}
    /\ review = [h \in ReviewHandlers |-> NoReview]

\* External: the evaluation worker stores the one immutable evaluation.
StoreEvaluation(a) ==
    /\ a \notin evaluated
    /\ evaluated' = evaluated \union {a}
    /\ UNCHANGED <<batch, annotations, adjudications, payloads, review>>

-----------------------------------------------------------------------------
(* Batches. *)

\* HumanRubric.validate_rubric: dimensions are unique and name no treatment.
ValidRubric(body) ==
    /\ body.dimensions # {}
    /\ ~body.leaky

\* AnnotationBatch.validate_batch: at least three distinct pseudonyms, one item
\* per id, and exactly the qualitative metrics of the grader plan.
ValidBatch(body) ==
    /\ ValidRubric(body)
    /\ Cardinality(body.raters) >= 3
    /\ DOMAIN body.items # {}
    /\ body.dimensions = body.qualitative

\* A grader plan may not bring its own HumanCalibrationReceipt.
Submittable(body) == ValidBatch(body) /\ ~body.receipt

\* _blind_payload_digest: the attempt, its evaluation and their artifacts agree
\* with each other and with the submitted evaluator and plan; the payload shows
\* the task, the output and the rubric, and no treatment.
BlindPayload(body, item) == [attempt |-> body.items[item], rubric |-> body.dimensions]

EvidenceReady(body) == \A i \in DOMAIN body.items : body.items[i] \in evaluated /\ body.matches

BeginBatch(h, b, body) ==
    /\ review[h] = NoReview
    /\ Submittable(body) /\ EvidenceReady(body)
    /\ payloads' = payloads \union {BlindPayload(body, i) : i \in DOMAIN body.items}
    /\ review' = [review EXCEPT ![h] = [op |-> "batch", id |-> b, body |-> body]]
    /\ UNCHANGED <<evaluated, batch, annotations, adjudications>>

Assignments(body) == (DOMAIN body.items) \X body.raters

\* A batch id is bound once; the same body under the id is a replay, another
\* body a conflict, and so is the same body under a second id.
InsertBatch(h) ==
    LET r == review[h] IN
    /\ r # NoReview /\ r.op = "batch"
    /\ review' = [review EXCEPT ![h] = NoReview]
    /\ IF batch[r.id] = NoReview /\ (\A b \in BatchIds : batch[b] # r.body)
       THEN batch' = [batch EXCEPT ![r.id] = r.body]
       ELSE UNCHANGED batch
    /\ UNCHANGED <<evaluated, annotations, adjudications, payloads>>

-----------------------------------------------------------------------------
(* Annotations and the summary. *)

\* _exact_dimension_scores
DimensionScores(dimensions) == [dimensions -> Tenths]

\* One transaction: an assignment is scored once, and only by its pseudonym.
SubmitAnnotation(b, item, rater, scores) ==
    /\ batch[b] # NoReview
    /\ <<item, rater>> \in Assignments(batch[b]) \ DOMAIN annotations[b]
    /\ scores \in DimensionScores(batch[b].dimensions)
    /\ annotations' = [annotations EXCEPT ![b] =
            [k \in DOMAIN @ \union {<<item, rater>>} |-> IF k = <<item, rater>> THEN scores ELSE @[k]]]
    /\ UNCHANGED <<evaluated, batch, adjudications, payloads, review>>

ItemScores(b, item) ==
    {annotations[b][<<item, rater>>] : rater \in {x \in batch[b].raters : <<item, x>> \in DOMAIN annotations[b]}}

Incomplete(b) ==
    {item \in DOMAIN batch[b].items :
        \E rater \in batch[b].raters : <<item, rater>> \notin DOMAIN annotations[b]}

Spread(values) == Max(values) - Min(values)

\* Mutant: scores are compared before every assignment is in.
DisputedSoFar(b, item) ==
    {d \in batch[b].dimensions :
        ItemScores(b, item) # {} /\ Spread({s[d] : s \in ItemScores(b, item)}) > 2}

\* Dimensions whose scores differ by more than 0.20; none before every
\* assignment of the item is in.
Disputed(b, item) ==
    IF item \in Incomplete(b) THEN {}
    ELSE {d \in batch[b].dimensions : Spread({s[d] : s \in ItemScores(b, item)}) > 2}

Unresolved(b) ==
    {item \in DOMAIN batch[b].items :
        Disputed(b, item) # {} /\ ~(item \in DOMAIN adjudications[b]
                                    /\ Disputed(b, item) \subseteq DOMAIN adjudications[b][item].scores)}

ReviewStatus(b) ==
    CASE DOMAIN annotations[b] = {} -> "PENDING"
      [] DOMAIN annotations[b] # {} /\ Incomplete(b) # {} -> "IN_REVIEW"
      [] DOMAIN annotations[b] # {} /\ Incomplete(b) = {} /\ Unresolved(b) # {} -> "NEEDS_ADJUDICATION"
      [] OTHER -> "COMPLETE"

-----------------------------------------------------------------------------
(* Adjudication. *)

\* submit_adjudication reads the summary, checks that the scores are exactly
\* those in dispute and that the evidence is the item's blinded payload.
BeginAdjudication(h, b, item, evidence) ==
    /\ review[h] = NoReview /\ batch[b] # NoReview
    /\ item \in DOMAIN batch[b].items
    /\ Disputed(b, item) # {}
    /\ evidence \in payloads /\ evidence = BlindPayload(batch[b], item)
    /\ \E scores \in [Disputed(b, item) -> FinalTenths] :
            review' = [review EXCEPT ![h] = [op |-> "adjudicate", id |-> b, item |-> item,
                                             scores |-> scores, evidence |-> evidence]]
    /\ UNCHANGED <<evaluated, batch, annotations, adjudications, payloads>>

\* One adjudication per item; a different one is a conflict.
InsertAdjudication(h) ==
    LET r == review[h] IN
    /\ r # NoReview /\ r.op = "adjudicate"
    /\ review' = [review EXCEPT ![h] = NoReview]
    /\ IF r.item \in DOMAIN adjudications[r.id] THEN UNCHANGED adjudications
       ELSE adjudications' = [adjudications EXCEPT ![r.id] =
                [k \in DOMAIN @ \union {r.item} |->
                    IF k = r.item THEN [scores |-> r.scores, evidence |-> r.evidence] ELSE @[k]]]
    /\ UNCHANGED <<evaluated, batch, annotations, payloads>>

ReviewNext ==
    \/ \E a \in Attempts : StoreEvaluation(a)
    \/ \E h \in ReviewHandlers, b \in BatchIds :
        \/ \E body \in BatchBodies : BeginBatch(h, b, body)
        \/ \E item \in (IF batch[b] = NoReview THEN {} ELSE DOMAIN batch[b].items), p \in payloads :
                BeginAdjudication(h, b, item, p)
    \/ \E h \in ReviewHandlers : InsertBatch(h) \/ InsertAdjudication(h)
    \/ \E b \in BatchIds : batch[b] # NoReview /\
            \E a \in Assignments(batch[b]), s \in DimensionScores(batch[b].dimensions) :
                SubmitAnnotation(b, a[1], a[2], s)

ReviewSpec == ReviewInit /\ [][ReviewNext]_reviewVars

-----------------------------------------------------------------------------
(* The library's account: evaluation_v1/annotations.complete_annotations,  *)
(* which knows one score per assignment.                                   *)

\* assign_blindly: every item, every annotator, at least three of them.
BlindAssignments(items, raters) == IF Cardinality(raters) < 3 THEN {} ELSE items \X raters

CompleteAnnotations(assigned, scores, adjudicated) ==
    LET items     == {a[1] : a \in assigned}
        conflicts == {i \in items : Spread({scores[a] : a \in {x \in assigned : x[1] = i}}) > 2}
    IN  IF assigned = {} \/ DOMAIN scores # assigned THEN "error"
        ELSE IF \E i \in items : Cardinality({a \in assigned : a[1] = i}) < 3 THEN "error"
        ELSE IF adjudicated \notin {{}, conflicts} THEN "error"
        ELSE IF adjudicated = conflicts THEN "complete" ELSE "conflicted"

-----------------------------------------------------------------------------
\* An adjudication settles a real dispute: it stands on a fully annotated item
\* and scores exactly the dimensions the stored annotations dispute, on the
\* evidence the reviewers saw (services_v1/review 196, read in one transaction
\* and acted on in another); and the service calls a one-dimensional batch
\* complete exactly when the library does (evaluation_v1/annotations 161).
ReviewIsSettled ==
    \A b \in BatchIds : batch[b] # NoReview =>
        /\ \A item \in DOMAIN adjudications[b] :
            /\ item \notin Incomplete(b)
            /\ DOMAIN adjudications[b][item].scores = Disputed(b, item)
            /\ adjudications[b][item].evidence = BlindPayload(batch[b], item)
        /\ \A d \in batch[b].dimensions : batch[b].dimensions = {d} =>
            (ReviewStatus(b) = "COMPLETE" <=>
                CompleteAnnotations(BlindAssignments(DOMAIN batch[b].items, batch[b].raters),
                                    [a \in DOMAIN annotations[b] |-> annotations[b][a][d]],
                                    DOMAIN adjudications[b]) = "complete")
=============================================================================
