--------------------------- MODULE RegistryProofs ---------------------------
(***************************************************************************)
(* The registry's record is final once it is frozen, for any number of     *)
(* requests in flight, versions, experiments and keys.                     *)
(*                                                                         *)
(* What a handler read may be stale when it writes, so the inductive       *)
(* invariant RInv says what remains true of it: an experiment that was     *)
(* seen exists, bytes that were stored are there, and a frozen row that    *)
(* was hashed still has that hash.  The last needs that frozen rows do not *)
(* change, which is FrozenIsFinal; the two are shown of one step at once.  *)
(***************************************************************************)
EXTENDS Registry, TLAPS, FiniteSetTheorems

Handling ==
    {Idle}
    \cup [op : {"store", "register"}, on : Versions, saw : Bundles]
    \cup [op : {"update"}, on : Experiments, saw : Definitions]
    \cup [op : {"freeze"}, on : Experiments, saw : Hashes]
    \cup [op : {"create"}, on : Keys, saw : Digests]

JobCounts == {Cardinality(Matrix(SpecOf[d])) : d \in Definitions}

Executions ==
    [experiment : Experiments, hash : Hashes, key : Keys, jobs : JobCounts]

Types ==
    /\ files \subseteq Bundles
    /\ artifacts \subseteq Bundles
    /\ packs \in [Versions -> Bundles \cup {None}]
    /\ experiments \in [Experiments -> Rows \cup {None}]
    /\ executions \in Seq(Executions)
    /\ Len(executions) <= MaxExecutions
    /\ records \in [Keys -> Records \cup {None}]
    /\ handlers \in [Handlers -> Handling]

\* Bytes are stored before a row names them.
StoredShape ==
    /\ RegisteredIsReadable
    /\ \A h \in Handlers : handlers[h].op = "register" => handlers[h].saw \in files

\* An experiment has an imported pack and a definition of its own, and once
\* frozen it was approved and is hashed as it stands.
RowShape ==
    \A e \in Experiments : experiments[e] # None =>
        /\ packs[experiments[e].version] # None
        /\ SpecOf[experiments[e].definition].experiment = e
        /\ experiments[e].hash # None =>
              /\ experiments[e].approval = "approved"
              /\ experiments[e].hash =
                    FreezeHash(experiments[e].definition, packs[experiments[e].version])

\* A hash names the experiment it was taken of.
HashStands(hash) ==
    LET e == SpecOf[hash.definition].experiment
    IN  experiments[e] # None /\ experiments[e].hash = hash

\* What a handler read is still so as far as it relies on it.
HandlerShape ==
    \A h \in Handlers :
        /\ handlers[h].op = "update" =>
              /\ experiments[handlers[h].on] # None
              /\ SpecOf[handlers[h].saw].experiment = handlers[h].on
        /\ handlers[h].op = "freeze" => experiments[handlers[h].on] # None
        /\ handlers[h].op = "create" => HashStands(handlers[h].saw.hash)

\* An execution has the hash of its experiment and is the answer of its key.
ExecutionShape ==
    /\ \A i \in 1..Len(executions) :
          /\ HashStands(executions[i].hash)
          /\ executions[i].experiment = SpecOf[executions[i].hash.definition].experiment
          /\ records[executions[i].key] # None
          /\ records[executions[i].key].response = i
    /\ \A k \in Keys :
          records[k] # None => records[k].response \in 1..Len(executions)

RInv ==
    /\ Types
    /\ StoredShape
    /\ RowShape
    /\ HandlerShape
    /\ ExecutionShape

\* FrozenIsFinal, of one step.
RowsStand ==
    /\ \A e \in Experiments : Frozen(e) => experiments'[e] = experiments[e]
    /\ \A e \in Experiments :
          ~Frozen(e) /\ Frozen(e)' =>
             experiments[e] # None /\ experiments'[e].definition = experiments[e].definition
    /\ \A v \in Imported : packs'[v] = packs[v]

-----------------------------------------------------------------------------
\* Nothing is in flight and nothing is stored.
LEMMA InitRInv == Init => RInv
  BY ConstantAssumption, NoneAssumption
  DEF Init, RInv, Types, StoredShape, RegisteredIsReadable, Imported, RowShape,
      HandlerShape, ExecutionShape, Handling, Idle

\* A handler that ends or is abandoned leaves the invariant alone: a step that
\* changes only one handler, to what Handling allows and its shape asks for.
LEMMA HandlerMoves ==
  ASSUME RInv, NEW h \in Handlers, NEW next \in Handling,
         handlers' = [handlers EXCEPT ![h] = next],
         UNCHANGED <<files, artifacts, packs, experiments, executions, records>>,
         next.op = "register" => next.saw \in files,
         next.op = "update" => /\ experiments[next.on] # None
                               /\ SpecOf[next.saw].experiment = next.on,
         next.op = "freeze" => experiments[next.on] # None,
         next.op = "create" => HashStands(next.saw.hash)
  PROVE  RInv' /\ RowsStand
<1>1. /\ handlers' \in [Handlers -> Handling]
      /\ \A g \in Handlers : handlers'[g] = IF g = h THEN next ELSE handlers[g]
  BY DEF RInv, Types
<1>2. Types'
  BY <1>1 DEF RInv, Types
<1>3. StoredShape'
  BY <1>1 DEF RInv, StoredShape, RegisteredIsReadable, Imported
<1>4. RowShape'
  BY DEF RInv, RowShape, FreezeHash
<1>5. \A hash : HashStands(hash)' <=> HashStands(hash)
  BY DEF HashStands
<1>6. HandlerShape'
  BY <1>1, <1>5 DEF RInv, HandlerShape
<1>7. ExecutionShape'
  BY <1>5 DEF RInv, ExecutionShape
<1>8. RowsStand
  BY DEF RowsStand, Frozen, Imported
<1> QED BY <1>2, <1>3, <1>4, <1>6, <1>7, <1>8 DEF RInv

\* Steps that only read and carry on: the first halves of import, update,
\* freeze and create, and the end of a handler.
LEMMA ReadsKeep ==
  ASSUME RInv, NEW h \in Handlers,
         \/ \E u \in Uploads : ImportPack(h, u)
         \/ \E e \in Experiments, d \in Definitions : UpdateRead(h, e, d)
         \/ \E e \in Experiments : FreezeRead(h, e)
         \/ \E k \in Keys, e \in Experiments, p \in Provenances : CreateRequest(h, k, e, p)
         \/ Abandon(h)
  PROVE  RInv' /\ RowsStand
<1>1. ASSUME NEW u \in Uploads, ImportPack(h, u)
      PROVE  RInv' /\ RowsStand
  <2> DEFINE next == [op |-> "store", on |-> u.version, saw |-> u.bundle]
  <2>1. next \in Handling
    BY ConstantAssumption DEF Handling, Bundles
  <2> QED BY <1>1, <2>1, HandlerMoves DEF ImportPack, Step
<1>2. ASSUME NEW e \in Experiments, NEW d \in Definitions, UpdateRead(h, e, d)
      PROVE  RInv' /\ RowsStand
  <2> DEFINE next == [op |-> "update", on |-> e, saw |-> d]
  <2>1. next \in Handling
    BY DEF Handling
  <2> QED BY <1>2, <2>1, HandlerMoves DEF UpdateRead, Step
<1>3. ASSUME NEW e \in Experiments, FreezeRead(h, e)
      PROVE  RInv' /\ RowsStand
  <2> DEFINE hash == FreezeHash(experiments[e].definition, packs[experiments[e].version])
             next == [op |-> "freeze", on |-> e, saw |-> hash]
  <2>1. experiments[e] \in Rows /\ packs[experiments[e].version] # None
    BY <1>3 DEF FreezeRead, RInv, Types, RowShape
  <2>2. packs[experiments[e].version] \in Bundles
    BY <2>1 DEF RInv, Types, Rows
  <2>3. hash \in Hashes
    BY <2>1, <2>2 DEF Rows, Hashes, FreezeHash
  <2>4. next \in Handling
    BY <2>3 DEF Handling
  <2>5. experiments[e] # None
    BY <1>3 DEF FreezeRead
  <2> HIDE DEF hash
  <2> QED BY <1>3, <2>4, <2>5, HandlerMoves DEF FreezeRead, Step, hash
<1>4. ASSUME NEW k \in Keys, NEW e \in Experiments, NEW p \in Provenances,
             CreateRequest(h, k, e, p)
      PROVE  RInv' /\ RowsStand
  <2> DEFINE digest == [hash |-> experiments[e].hash, provenance |-> p]
             next == [op |-> "create", on |-> k, saw |-> digest]
  <2>1. /\ experiments[e] # None /\ experiments[e] \in Rows
        /\ experiments[e].hash # None /\ experiments[e].hash \in Hashes
    BY <1>4 DEF CreateRequest, FrozenIntact, Frozen, RInv, Types, Rows
  <2>2. next \in Handling
    BY <2>1 DEF Handling, Digests
  <2>3. HashStands(experiments[e].hash)
    <3>1. /\ SpecOf[experiments[e].definition].experiment = e
          /\ experiments[e].hash =
                FreezeHash(experiments[e].definition, packs[experiments[e].version])
      BY <2>1 DEF RInv, RowShape
    <3>2. experiments[e].hash.definition = experiments[e].definition
      BY <3>1 DEF FreezeHash
    <3> QED BY <2>1, <3>1, <3>2 DEF HashStands
  <2> QED BY <1>4, <2>2, <2>3, HandlerMoves DEF CreateRequest, Step
<1>5. ASSUME Abandon(h)
      PROVE  RInv' /\ RowsStand
  <2>1. Idle \in Handling
    BY DEF Handling
  <2>2. Idle.op = "idle"
    BY DEF Idle
  <2> QED BY <1>5, <2>1, <2>2, HandlerMoves DEF Abandon
<1> QED BY <1>1, <1>2, <1>3, <1>4, <1>5

\* ImportStore: the bytes are there when the handler goes on.
LEMMA StoreKeeps ==
  ASSUME RInv, NEW h \in Handlers, ImportStore(h)
  PROVE  RInv' /\ RowsStand
<1> DEFINE next == [op |-> "register", on |-> handlers[h].on, saw |-> handlers[h].saw]
<1>1. handlers[h] \in [op : {"store", "register"}, on : Versions, saw : Bundles]
  BY DEF RInv, Types, Handling, ImportStore, Step, Idle
<1>2. /\ next \in [op : {"store", "register"}, on : Versions, saw : Bundles]
      /\ next.op = "register" /\ next.saw = handlers[h].saw
  BY <1>1
<1>3. next \in Handling
  BY <1>2 DEF Handling
<1>4. /\ handlers' = [handlers EXCEPT ![h] = next]
      /\ files' = files \cup {handlers[h].saw}
      /\ UNCHANGED <<artifacts, packs, experiments, executions, records>>
  BY DEF ImportStore, Step, Put
<1> HIDE DEF next
<1>5. /\ handlers' \in [Handlers -> Handling]
      /\ \A g \in Handlers : handlers'[g] = IF g = h THEN next ELSE handlers[g]
  BY <1>3, <1>4 DEF RInv, Types
<1>6. Types'
  BY <1>1, <1>4, <1>5 DEF RInv, Types
<1>7. StoredShape'
  BY <1>2, <1>4, <1>5 DEF RInv, StoredShape, RegisteredIsReadable, Imported
<1>8. RowShape'
  BY <1>4 DEF RInv, RowShape, FreezeHash
<1>9. \A hash : HashStands(hash)' <=> HashStands(hash)
  BY <1>4 DEF HashStands
<1>10. HandlerShape'
  BY <1>2, <1>5, <1>4, <1>9 DEF RInv, HandlerShape
<1>11. ExecutionShape'
  BY <1>4, <1>9 DEF RInv, ExecutionShape
<1>12. RowsStand
  BY <1>4 DEF RowsStand, Frozen, Imported
<1> QED BY <1>6, <1>7, <1>8, <1>10, <1>11, <1>12 DEF RInv

\* A step that only replaces the row of an existing, unfrozen experiment by one
\* that keeps its version and is well shaped, and may end its handler.
LEMMA RowMoves ==
  ASSUME RInv, NEW e \in Experiments, NEW row \in Rows,
         experiments[e] # None, ~Frozen(e),
         experiments' = [experiments EXCEPT ![e] = row],
         row.version = experiments[e].version,
         SpecOf[row.definition].experiment = e,
         row.hash # None =>
            /\ row.approval = "approved"
            /\ row.definition = experiments[e].definition
            /\ row.hash = FreezeHash(row.definition, packs[row.version]),
         UNCHANGED <<files, artifacts, packs, executions, records>>,
         \/ UNCHANGED handlers
         \/ \E h \in Handlers : handlers' = [handlers EXCEPT ![h] = Idle]
  PROVE  RInv' /\ RowsStand
<1>1. /\ experiments' \in [Experiments -> Rows \cup {None}]
      /\ \A x \in Experiments : experiments'[x] = IF x = e THEN row ELSE experiments[x]
  BY DEF RInv, Types
<1>2. row # None
  BY NoneAssumption
<1>3. /\ handlers' \in [Handlers -> Handling]
      /\ \A g \in Handlers : handlers'[g] = handlers[g] \/ handlers'[g] = Idle
  BY DEF RInv, Types, Handling
<1>4. Types'
  BY <1>1, <1>3 DEF RInv, Types
<1>5. StoredShape'
  BY <1>3 DEF RInv, StoredShape, RegisteredIsReadable, Imported, Idle
<1>6. RowShape'
  <2> SUFFICES ASSUME NEW x \in Experiments, experiments'[x] # None
               PROVE  /\ packs[experiments'[x].version] # None
                      /\ SpecOf[experiments'[x].definition].experiment = x
                      /\ experiments'[x].hash # None =>
                            /\ experiments'[x].approval = "approved"
                            /\ experiments'[x].hash =
                                  FreezeHash(experiments'[x].definition,
                                             packs[experiments'[x].version])
    BY DEF RowShape, FreezeHash
  <2>1. CASE x = e
    BY <1>1, <2>1 DEF RInv, RowShape
  <2>2. CASE x # e
    BY <1>1, <2>2 DEF RInv, RowShape
  <2> QED BY <2>1, <2>2
<1>7. ASSUME NEW hash \in Hashes, HashStands(hash)
      PROVE  HashStands(hash)'
  <2> DEFINE x == SpecOf[hash.definition].experiment
  <2>1. x \in Experiments
    BY ConstantAssumption DEF Hashes
  <2>2. hash # None
    BY NoneAssumption
  <2>3. x # e
    BY <1>7, <2>2 DEF HashStands, Frozen
  <2>4. experiments'[x] = experiments[x]
    BY <1>1, <2>1, <2>3
  <2> QED BY <1>7, <2>4 DEF HashStands
<1>8. HandlerShape'
  <2> SUFFICES ASSUME NEW g \in Handlers
               PROVE  /\ handlers'[g].op = "update" =>
                            /\ experiments'[handlers'[g].on] # None
                            /\ SpecOf[handlers'[g].saw].experiment = handlers'[g].on
                      /\ handlers'[g].op = "freeze" => experiments'[handlers'[g].on] # None
                      /\ handlers'[g].op = "create" => HashStands(handlers[g].saw.hash)'
    BY DEF HandlerShape, HashStands
  <2>1. CASE handlers'[g] = Idle
    BY <2>1 DEF Idle
  <2>2. CASE handlers'[g] = handlers[g]
    <3>1. handlers[g] \in Handling
      BY DEF RInv, Types
    <3>2. handlers[g].op \in {"update", "freeze"} => handlers[g].on \in Experiments
      BY <3>1 DEF Handling, Idle
    <3>3. handlers[g].op = "create" => handlers[g].saw.hash \in Hashes
      BY <3>1 DEF Handling, Idle, Digests
    <3>4. /\ handlers[g].op = "update" =>
                /\ experiments[handlers[g].on] # None
                /\ SpecOf[handlers[g].saw].experiment = handlers[g].on
          /\ handlers[g].op = "freeze" => experiments[handlers[g].on] # None
          /\ handlers[g].op = "create" => HashStands(handlers[g].saw.hash)
      BY DEF RInv, HandlerShape
    <3>5. \A x \in Experiments : experiments[x] # None => experiments'[x] # None
      BY <1>1, <1>2
    <3>6. handlers[g].op = "create" => HashStands(handlers[g].saw.hash)'
      <4> DEFINE saw == handlers[g].saw.hash
      <4>1. handlers[g].op = "create" => saw \in Hashes /\ HashStands(saw)
        BY <3>3, <3>4
      <4>2. saw' = saw
        BY <2>2
      <4> HIDE DEF saw
      <4>3. handlers[g].op = "create" => experiments'[SpecOf[saw.definition].experiment] # None
               /\ experiments'[SpecOf[saw.definition].experiment].hash = saw
        BY <1>7, <4>1 DEF HashStands
      <4> QED BY <4>2, <4>3 DEF HashStands, saw
    <3> QED BY <2>2, <3>2, <3>4, <3>5, <3>6
  <2> QED BY <1>3, <2>1, <2>2
<1>9. ExecutionShape'
  <2>1. \A i \in 1..Len(executions) : executions[i].hash \in Hashes
    <3>1. \A i \in 1..Len(executions) : executions[i] \in Executions
      BY DEF RInv, Types
    <3> QED BY <3>1 DEF Executions
  <2> QED BY <1>7, <2>1 DEF RInv, ExecutionShape
<1>10. RowsStand
  <2>1. ASSUME NEW x \in Experiments, Frozen(x)
        PROVE  experiments'[x] = experiments[x]
    BY <1>1, <2>1
  <2>2. ASSUME NEW x \in Experiments, ~Frozen(x), Frozen(x)'
        PROVE  /\ experiments[x] # None
               /\ experiments'[x].definition = experiments[x].definition
    <3>1. x = e
      BY <1>1, <2>2 DEF Frozen
    <3> QED BY <1>1, <2>2, <3>1 DEF Frozen
  <2> QED BY <2>1, <2>2 DEF RowsStand
<1> QED BY <1>4, <1>5, <1>6, <1>8, <1>9, <1>10 DEF RInv

\* A handler that ends without writing.
LEMMA HandlerEnds ==
  ASSUME RInv, NEW h \in Handlers,
         handlers' = [handlers EXCEPT ![h] = Idle],
         UNCHANGED <<files, artifacts, packs, experiments, executions, records>>
  PROVE  RInv' /\ RowsStand
<1>1. Idle \in Handling /\ Idle.op = "idle"
  BY DEF Handling, Idle
<1> QED BY <1>1, HandlerMoves

\* UpdateWrite: a stale update meets the trigger, any other the row it read.
LEMMA UpdateKeeps ==
  ASSUME RInv, NEW h \in Handlers, UpdateWrite(h)
  PROVE  RInv' /\ RowsStand
<1> DEFINE e == handlers[h].on
           d == handlers[h].saw
<1>1. /\ e \in Experiments /\ d \in Definitions
      /\ experiments[e] # None /\ SpecOf[d].experiment = e
  <2>1. handlers[h] \in Handling /\ handlers[h].op = "update"
    BY DEF RInv, Types, UpdateWrite, Step
  <2> QED BY <2>1 DEF RInv, HandlerShape, Handling, Idle
<1>2. CASE Frozen(e)
  BY <1>2, HandlerEnds DEF UpdateWrite, Step
<1>3. CASE ~Frozen(e)
  <2> DEFINE row == [experiments[e] EXCEPT !.definition = d]
  <2>1. experiments[e] \in Rows
    BY <1>1 DEF RInv, Types
  <2>2. /\ row \in Rows
        /\ row.version = experiments[e].version /\ row.definition = d
        /\ row.hash = experiments[e].hash
    BY <1>1, <2>1 DEF Rows
  <2>3. row.hash = None
    BY <1>1, <1>3, <2>2 DEF Frozen
  <2>4. /\ experiments' = [experiments EXCEPT ![e] = row]
        /\ handlers' = [handlers EXCEPT ![h] = Idle]
        /\ UNCHANGED <<files, artifacts, packs, executions, records>>
    BY <1>3 DEF UpdateWrite, Step
  <2> HIDE DEF row, e, d
  <2> QED BY <1>1, <1>3, <2>2, <2>3, <2>4, RowMoves
<1> QED BY <1>2, <1>3

\* FreezeWrite: the definition it hashed must still be the row's.
LEMMA FreezeKeeps ==
  ASSUME RInv, NEW h \in Handlers, FreezeWrite(h)
  PROVE  RInv' /\ RowsStand
<1> DEFINE e == handlers[h].on
           hash == handlers[h].saw
<1>1. e \in Experiments /\ hash \in Hashes /\ experiments[e] # None
  <2>1. handlers[h] \in Handling /\ handlers[h].op = "freeze"
    BY DEF RInv, Types, FreezeWrite, Step
  <2> QED BY <2>1 DEF RInv, HandlerShape, Handling, Idle
<1>2. CASE ~FreezeAccepted(e, hash)
  BY <1>2, HandlerEnds DEF FreezeWrite, Step
<1>3. CASE FreezeAccepted(e, hash)
  <2> DEFINE row == [experiments[e] EXCEPT !.definition = hash.definition,
                                           !.hash = hash, !.packHash = hash.pack]
  <2>1. experiments[e] \in Rows
    BY <1>1 DEF RInv, Types
  <2>2. /\ hash.definition \in Definitions /\ hash.pack \in Bundles
        /\ hash = FreezeHash(hash.definition, hash.pack)
    BY <1>1 DEF Hashes, FreezeHash
  <2>3. /\ row \in Rows
        /\ row.version = experiments[e].version /\ row.definition = hash.definition
        /\ row.hash = hash /\ row.approval = experiments[e].approval
    BY <1>1, <2>1, <2>2 DEF Rows
  <2>4. /\ ~Frozen(e) /\ experiments[e].approval = "approved"
        /\ experiments[e].definition = hash.definition
        /\ packs[experiments[e].version] = hash.pack
    BY <1>3 DEF FreezeAccepted
  <2>5. SpecOf[hash.definition].experiment = e
    BY <1>1, <2>4 DEF RInv, RowShape
  <2>6. /\ experiments' = [experiments EXCEPT ![e] = row]
        /\ handlers' = [handlers EXCEPT ![h] = Idle]
        /\ UNCHANGED <<files, artifacts, packs, executions, records>>
    BY <1>3 DEF FreezeWrite, Step
  <2>7. /\ row.approval = "approved" /\ row.definition = experiments[e].definition
        /\ row.hash = FreezeHash(row.definition, packs[row.version])
        /\ SpecOf[row.definition].experiment = e
    <3> HIDE DEF row, e, hash
    <3> QED BY <2>2, <2>3, <2>4, <2>5
  <2> HIDE DEF row, e, hash
  <2> QED BY <1>1, <2>3, <2>4, <2>6, <2>7, RowMoves
<1> QED BY <1>2, <1>3

\* SetApproval writes only what is not frozen.
LEMMA ApprovalKeeps ==
  ASSUME RInv, NEW e \in Experiments, NEW a \in Approvals, SetApproval(e, a)
  PROVE  RInv' /\ RowsStand
<1> DEFINE row == [experiments[e] EXCEPT !.approval = a]
<1>1. experiments[e] # None /\ ~Frozen(e) /\ experiments[e] \in Rows
  BY DEF SetApproval, RInv, Types
<1>2. /\ row \in Rows
      /\ row.version = experiments[e].version
      /\ row.definition = experiments[e].definition
      /\ row.hash = experiments[e].hash
  BY <1>1 DEF Rows
<1>3. row.hash = None
  BY <1>1, <1>2 DEF Frozen
<1>4. SpecOf[experiments[e].definition].experiment = e
  BY <1>1 DEF RInv, RowShape
<1>5. /\ experiments' = [experiments EXCEPT ![e] = row]
      /\ UNCHANGED <<files, artifacts, packs, executions, records, handlers>>
  BY DEF SetApproval
<1> HIDE DEF row
<1> QED BY <1>1, <1>2, <1>3, <1>4, <1>5, RowMoves

\* ImportRegister: the version is taken by the first to come, whose bytes are
\* stored.
LEMMA RegisterKeeps ==
  ASSUME RInv, NEW h \in Handlers, ImportRegister(h)
  PROVE  RInv' /\ RowsStand
<1> DEFINE v == handlers[h].on
           b == handlers[h].saw
<1>1. v \in Versions /\ b \in Bundles /\ b \in files
  <2>1. handlers[h] \in Handling /\ handlers[h].op = "register"
    BY DEF RInv, Types, ImportRegister, Step
  <2>2. handlers[h] \in [op : {"store", "register"}, on : Versions, saw : Bundles]
    BY <2>1 DEF Handling, Idle
  <2> QED BY <2>1, <2>2 DEF RInv, StoredShape
<1>2. CASE packs[v] # None
  BY <1>2, HandlerEnds DEF ImportRegister, Step
<1>3. CASE packs[v] = None
  <2>1. /\ artifacts' = artifacts \cup {b}
        /\ packs' = [packs EXCEPT ![v] = b]
        /\ handlers' = [handlers EXCEPT ![h] = Idle]
        /\ UNCHANGED <<files, experiments, executions, records>>
    BY <1>3 DEF ImportRegister, Step
  <2> HIDE DEF v, b
  <2>2. /\ packs' \in [Versions -> Bundles \cup {None}]
        /\ \A w \in Versions : packs'[w] = IF w = v THEN b ELSE packs[w]
    BY <1>1, <2>1 DEF RInv, Types
  <2>3. /\ handlers' \in [Handlers -> Handling]
        /\ \A g \in Handlers : handlers'[g] = handlers[g] \/ handlers'[g] = Idle
    BY <2>1 DEF RInv, Types, Handling
  <2>4. Types'
    BY <1>1, <2>1, <2>2, <2>3 DEF RInv, Types
  <2>5. b # None
    BY <1>1, NoneAssumption
  <2>6. StoredShape'
    BY <1>1, <2>1, <2>2, <2>3 DEF RInv, StoredShape, RegisteredIsReadable, Imported, Idle
  <2>7. \A w \in Versions : packs[w] # None => packs'[w] = packs[w]
    BY <1>3, <2>2
  <2>8. RowShape'
    <3> SUFFICES ASSUME NEW e \in Experiments, experiments[e] # None
                 PROVE  /\ packs'[experiments[e].version] # None
                        /\ SpecOf[experiments[e].definition].experiment = e
                        /\ experiments[e].hash # None =>
                              /\ experiments[e].approval = "approved"
                              /\ experiments[e].hash =
                                    FreezeHash(experiments[e].definition,
                                               packs'[experiments[e].version])
      BY <2>1 DEF RowShape, FreezeHash
    <3>1. experiments[e].version \in Versions
      BY DEF RInv, Types, Rows
    <3>2. packs'[experiments[e].version] = packs[experiments[e].version]
      BY <2>7, <3>1 DEF RInv, RowShape
    <3> QED BY <3>2 DEF RInv, RowShape
  <2>9. \A hash : HashStands(hash)' <=> HashStands(hash)
    BY <2>1 DEF HashStands
  <2>10. HandlerShape'
    BY <2>1, <2>3, <2>9 DEF RInv, HandlerShape, Idle
  <2>11. ExecutionShape'
    BY <2>1, <2>9 DEF RInv, ExecutionShape
  <2>12. RowsStand
    BY <2>1, <2>7 DEF RowsStand, Frozen, Imported
  <2> QED BY <2>4, <2>6, <2>8, <2>10, <2>11, <2>12 DEF RInv
<1> QED BY <1>2, <1>3

\* CreateExperiment adds a row that is not frozen.
LEMMA ExperimentKeeps ==
  ASSUME RInv, NEW d \in Definitions, CreateExperiment(d)
  PROVE  RInv' /\ RowsStand
<1> DEFINE e == SpecOf[d].experiment
           v == CHOOSE w \in Imported : TRUE
           row == [version |-> v, definition |-> d, approval |-> SpecOf[d].approval,
                   hash |-> None, packHash |-> None]
<1>1. v \in Imported
  <2>1. Cardinality(Imported) = 1
    BY DEF CreateExperiment
  <2>2. Cardinality({}) = 0
    BY FS_EmptySet
  <2>3. Imported # {}
    BY <2>1, <2>2
  <2> QED BY <2>3
<1>2. v \in Versions /\ packs[v] # None
  BY <1>1 DEF Imported
<1>3. e \in Experiments /\ experiments[e] = None
  BY ConstantAssumption DEF CreateExperiment
<1> HIDE DEF v
<1>4. row \in Rows
  BY <1>2, ConstantAssumption DEF Rows
<1>5. /\ row # None /\ row.hash = None /\ row.version = v /\ row.definition = d
  BY <1>4, NoneAssumption
<1>6. /\ experiments' = [experiments EXCEPT ![e] = row]
      /\ UNCHANGED <<files, artifacts, packs, executions, records, handlers>>
  BY DEF CreateExperiment, v
<1>7. SpecOf[d].experiment = e
  OBVIOUS
<1> HIDE DEF e, row
<1>8. /\ experiments' \in [Experiments -> Rows \cup {None}]
      /\ \A x \in Experiments : experiments'[x] = IF x = e THEN row ELSE experiments[x]
  BY <1>3, <1>4, <1>6 DEF RInv, Types
<1>9. Types'
  BY <1>6, <1>8 DEF RInv, Types
<1>10. StoredShape'
  BY <1>6 DEF RInv, StoredShape, RegisteredIsReadable, Imported
<1>11. RowShape'
  <2> SUFFICES ASSUME NEW x \in Experiments, experiments'[x] # None
               PROVE  /\ packs[experiments'[x].version] # None
                      /\ SpecOf[experiments'[x].definition].experiment = x
                      /\ experiments'[x].hash # None =>
                            /\ experiments'[x].approval = "approved"
                            /\ experiments'[x].hash =
                                  FreezeHash(experiments'[x].definition,
                                             packs[experiments'[x].version])
    BY <1>6 DEF RowShape, FreezeHash
  <2>1. CASE x = e
    BY <1>2, <1>5, <1>7, <1>8, <2>1
  <2>2. CASE x # e
    BY <1>8, <2>2 DEF RInv, RowShape
  <2> QED BY <2>1, <2>2
<1>12. \A x \in Experiments : experiments[x] # None => experiments'[x] = experiments[x]
  BY <1>3, <1>8
<1>13. ASSUME NEW hash \in Hashes, HashStands(hash)
       PROVE  HashStands(hash)'
  BY <1>12, <1>13, ConstantAssumption DEF HashStands, Hashes
<1>14. HandlerShape'
  <2> SUFFICES ASSUME NEW g \in Handlers
               PROVE  /\ handlers[g].op = "update" =>
                            /\ experiments'[handlers[g].on] # None
                            /\ SpecOf[handlers[g].saw].experiment = handlers[g].on
                      /\ handlers[g].op = "freeze" => experiments'[handlers[g].on] # None
                      /\ handlers[g].op = "create" => HashStands(handlers[g].saw.hash)'
    BY <1>6 DEF HandlerShape, HashStands
  <2>1. handlers[g] \in Handling
    BY DEF RInv, Types
  <2>2. handlers[g].op \in {"update", "freeze"} => handlers[g].on \in Experiments
    BY <2>1 DEF Handling, Idle
  <2>3. handlers[g].op = "create" => handlers[g].saw.hash \in Hashes
    BY <2>1 DEF Handling, Idle, Digests
  <2>4. /\ handlers[g].op = "update" =>
              /\ experiments[handlers[g].on] # None
              /\ SpecOf[handlers[g].saw].experiment = handlers[g].on
        /\ handlers[g].op = "freeze" => experiments[handlers[g].on] # None
        /\ handlers[g].op = "create" => HashStands(handlers[g].saw.hash)
    BY DEF RInv, HandlerShape
  <2>5. handlers[g].op = "create" => HashStands(handlers[g].saw.hash)'
    BY <1>6, <1>12, <2>3, <2>4, ConstantAssumption DEF HashStands, Hashes
  <2> QED BY <1>12, <2>2, <2>4, <2>5
<1>15. ExecutionShape'
  <2>1. \A i \in 1..Len(executions) : executions[i].hash \in Hashes
    <3>1. \A i \in 1..Len(executions) : executions[i] \in Executions
      BY DEF RInv, Types
    <3> QED BY <3>1 DEF Executions
  <2> QED BY <1>6, <1>13, <2>1 DEF RInv, ExecutionShape
<1>16. RowsStand
  BY <1>5, <1>6, <1>8, <1>12 DEF RowsStand, Frozen, Imported
<1> QED BY <1>9, <1>10, <1>11, <1>14, <1>15, <1>16 DEF RInv

\* CreateExecution: the first request with a key inserts, the hash it carries
\* still stands, and the key answers with the execution just inserted.
LEMMA ExecutionKeeps ==
  ASSUME RInv, NEW h \in Handlers, CreateExecution(h)
  PROVE  RInv' /\ RowsStand
<1> DEFINE k == handlers[h].on
           digest == handlers[h].saw
           new == [experiment |-> SpecOf[digest.hash.definition].experiment,
                   hash |-> digest.hash, key |-> k, jobs |-> Jobs(digest)]
           n == Len(executions) + 1
<1>1. k \in Keys /\ digest \in Digests /\ HashStands(digest.hash)
  <2>1. handlers[h] \in Handling /\ handlers[h].op = "create"
    BY DEF RInv, Types, CreateExecution, Step
  <2>2. handlers[h] \in [op : {"create"}, on : Keys, saw : Digests]
    BY <2>1 DEF Handling, Idle
  <2> QED BY <2>1, <2>2 DEF RInv, HandlerShape
<1>2. CASE records[k] # None
  BY <1>2, HandlerEnds DEF CreateExecution, Step, Reserve
<1>3. CASE records[k] = None
  <2>1. /\ Len(executions) < MaxExecutions
        /\ executions' = Append(executions, new)
        /\ records' = [records EXCEPT ![k] = [digest |-> digest, response |-> n]]
        /\ handlers' = [handlers EXCEPT ![h] = Idle]
        /\ UNCHANGED <<files, artifacts, packs, experiments>>
    BY <1>3 DEF CreateExecution, Step, Reserve, Insert, Complete
  <2>2. /\ digest.hash \in Hashes /\ digest.hash.definition \in Definitions
    BY <1>1 DEF Digests, Hashes
  <2>3. new \in Executions
    BY <1>1, <2>2, ConstantAssumption DEF Executions, JobCounts, Jobs
  <2>4. /\ new.hash = digest.hash /\ new.key = k
        /\ new.experiment = SpecOf[new.hash.definition].experiment
    OBVIOUS
  <2> HIDE DEF k, digest, new
  <2>5. executions \in Seq(Executions) /\ Len(executions) \in Nat
    BY DEF RInv, Types
  <2>6. /\ executions' \in Seq(Executions) /\ Len(executions') = n
        /\ executions'[n] = new
        /\ \A i \in 1..Len(executions) : executions'[i] = executions[i]
    BY <2>1, <2>3, <2>5
  <2>7. n \in Nat /\ n <= MaxExecutions
    BY <2>1, <2>5, ConstantAssumption
  <2>8. [digest |-> digest, response |-> n] \in Records
    BY <1>1, <2>7 DEF Records
  <2>9. /\ records' \in [Keys -> Records \cup {None}]
        /\ records'[k] # None /\ records'[k].response = n
        /\ \A j \in Keys : j # k => records'[j] = records[j]
    BY <1>1, <2>1, <2>8, NoneAssumption DEF RInv, Types
  <2>10. /\ handlers' \in [Handlers -> Handling]
         /\ \A g \in Handlers : handlers'[g] = handlers[g] \/ handlers'[g] = Idle
    BY <2>1 DEF RInv, Types, Handling
  <2>11. Types'
    BY <2>1, <2>6, <2>7, <2>9, <2>10 DEF RInv, Types
  <2>12. StoredShape'
    BY <2>1, <2>10 DEF RInv, StoredShape, RegisteredIsReadable, Imported, Idle
  <2>13. RowShape'
    BY <2>1 DEF RInv, RowShape, FreezeHash
  <2>14. \A hash : HashStands(hash)' <=> HashStands(hash)
    BY <2>1 DEF HashStands
  <2>15. HandlerShape'
    BY <2>1, <2>10, <2>14 DEF RInv, HandlerShape, Idle
  <2>16. ExecutionShape'
    <3>1. ASSUME NEW i \in 1..n
          PROVE  /\ HashStands(executions'[i].hash)
                 /\ executions'[i].experiment = SpecOf[executions'[i].hash.definition].experiment
                 /\ records'[executions'[i].key] # None
                 /\ records'[executions'[i].key].response = i
      <4>1. CASE i = n
        BY <1>1, <2>4, <2>6, <2>9, <4>1
      <4>2. CASE i # n
        <5>1. i \in 1..Len(executions)
          BY <2>5, <4>2
        <5>2. executions[i] \in Executions
          BY <2>5, <5>1
        <5>3. executions[i].key \in Keys
          BY <5>2 DEF Executions
        <5>4. /\ HashStands(executions[i].hash)
              /\ executions[i].experiment = SpecOf[executions[i].hash.definition].experiment
              /\ records[executions[i].key] # None
              /\ records[executions[i].key].response = i
          BY <5>1 DEF RInv, ExecutionShape
        <5>5. executions[i].key # k
          BY <1>3, <5>4
        <5> QED BY <2>6, <2>9, <5>1, <5>3, <5>4, <5>5
      <4> QED BY <4>1, <4>2
    <3>2. ASSUME NEW j \in Keys, records'[j] # None
          PROVE  records'[j].response \in 1..n
      <4>1. CASE j = k
        BY <2>7, <2>9, <4>1, <2>5
      <4>2. CASE j # k
        BY <2>5, <2>9, <3>2, <4>2 DEF RInv, ExecutionShape
      <4> QED BY <4>1, <4>2
    <3>3. \A i \in 1..n : HashStands(executions[i].hash)'
      BY <2>1, <3>1 DEF HashStands
    <3> QED BY <2>6, <3>1, <3>2, <3>3 DEF ExecutionShape
  <2>17. RowsStand
    BY <2>1 DEF RowsStand, Frozen, Imported
  <2> QED BY <2>11, <2>12, <2>13, <2>15, <2>16, <2>17 DEF RInv
<1> QED BY <1>2, <1>3

-----------------------------------------------------------------------------
\* One step, whichever it is.
LEMMA NextKeeps == RInv /\ Next => RInv' /\ RowsStand
<1> SUFFICES ASSUME RInv, Next
             PROVE  RInv' /\ RowsStand
  OBVIOUS
<1>1. ASSUME NEW h \in Handlers, HandlerStep(h)
      PROVE  RInv' /\ RowsStand
  BY <1>1, ReadsKeep, StoreKeeps, RegisterKeeps, UpdateKeeps, FreezeKeeps, ExecutionKeeps
  DEF HandlerStep
<1>2. ASSUME NEW d \in Definitions, CreateExperiment(d)
      PROVE  RInv' /\ RowsStand
  BY <1>2, ExperimentKeeps
<1>3. ASSUME NEW e \in Experiments, NEW a \in Approvals, SetApproval(e, a)
      PROVE  RInv' /\ RowsStand
  BY <1>3, ApprovalKeeps
<1> QED BY <1>1, <1>2, <1>3 DEF Next, Approvals

\* A step that changes nothing keeps the invariant.
LEMMA StutterKeeps == RInv /\ UNCHANGED vars => RInv'
<1> SUFFICES ASSUME RInv, UNCHANGED vars
             PROVE  RInv'
  OBVIOUS
<1>1. /\ files' = files /\ artifacts' = artifacts /\ packs' = packs
      /\ experiments' = experiments /\ executions' = executions
      /\ records' = records /\ handlers' = handlers
  BY DEF vars
<1>2. \A hash : HashStands(hash)' <=> HashStands(hash)
  BY <1>1 DEF HashStands
<1>3. Types' /\ StoredShape' /\ RowShape'
  BY <1>1 DEF RInv, Types, StoredShape, RegisteredIsReadable, Imported, RowShape, FreezeHash
<1>4. HandlerShape' /\ ExecutionShape'
  BY <1>1, <1>2 DEF RInv, HandlerShape, ExecutionShape
<1> QED BY <1>3, <1>4 DEF RInv

\* The registry's inductive invariant: whatever is in flight relies only on what
\* still holds (import_pack, update_experiment_definition, freeze, create).
THEOREM RegistryInvariant == RegistrySpec => []RInv
<1>1. RInv /\ [Next]_vars => RInv'
  BY NextKeeps, StutterKeeps
<1> QED BY InitRInv, <1>1, PTL DEF RegistrySpec

\* A frozen experiment and a registered version never change again, however
\* many stale updates, freezes and imports are in flight (registry.py,
\* freeze_experiment, the trigger on frozen rows).
THEOREM FrozenStays == RegistrySpec => FrozenIsFinal
<1>1. RInv /\ [Next]_vars => [RowsStand]_vars
  BY NextKeeps
<1> QED BY RegistryInvariant, <1>1, PTL DEF RegistrySpec, FrozenIsFinal, RowsStand

\* What is frozen is approved and hashed as it stands, and an execution carries
\* that hash (freeze_experiment, _validate_frozen, create_execution).
THEOREM FrozenRowsWereApproved == RegistrySpec => []FrozenWasApproved
<1>1. RInv => FrozenWasApproved
  <2> SUFFICES ASSUME RInv
               PROVE  FrozenWasApproved
    OBVIOUS
  <2>1. ASSUME NEW e \in Experiments, Frozen(e)
        PROVE  /\ experiments[e].approval = "approved"
               /\ experiments[e].hash =
                     FreezeHash(experiments[e].definition, packs[experiments[e].version])
    BY <2>1 DEF RInv, RowShape, Frozen
  <2>2. ASSUME NEW i \in DOMAIN executions
        PROVE  executions[i].hash = experiments[executions[i].experiment].hash
    <3>1. i \in 1..Len(executions)
      BY <2>2 DEF RInv, Types
    <3> QED BY <3>1 DEF RInv, ExecutionShape, HashStands
  <2> QED BY <2>1, <2>2 DEF FrozenWasApproved
<1> QED BY <1>1, RegistryInvariant, PTL

\* Rows keep their shapes and name only bytes that can be read, and a key stands
\* for one execution (import_pack, reserve_execution_idempotency).
THEOREM RegistryStaysSound == RegistrySpec => []RegistryIsSound
<1>1. RInv => RegistryIsSound
  <2> SUFFICES ASSUME RInv
               PROVE  RegistryIsSound
    OBVIOUS
  <2>1. DOMAIN executions = 1..Len(executions)
    BY DEF RInv, Types
  <2>2. TypeOK
    <3>1. \A h \in Handlers : handlers[h].op \in Operations
      BY DEF RInv, Types, Handling, Idle, Operations
    <3> QED BY <2>1, <3>1 DEF RInv, Types, ExecutionShape, TypeOK
  <2>3. RegisteredIsReadable
    BY DEF RInv, StoredShape
  <2>4. ASSUME NEW k \in Keys
        PROVE  LET created == {i \in DOMAIN executions : executions[i].key = k} IN
               /\ Cardinality(created) <= 1
               /\ created # {} => records[k] # None /\ records[k].response \in created
    <3> DEFINE created == {i \in DOMAIN executions : executions[i].key = k}
    <3>1. ASSUME NEW i \in created
          PROVE  records[k] # None /\ records[k].response = i
      BY <2>1, <3>1 DEF RInv, ExecutionShape
    <3>2. CASE created = {}
      BY <3>2, FS_EmptySet
    <3>3. CASE created # {}
      <4>1. PICK i : i \in created
        BY <3>3
      <4>2. created = {i}
        BY <3>1, <4>1
      <4> HIDE DEF created
      <4>3. Cardinality(created) = 1
        BY <4>2, FS_Singleton
      <4> QED BY <3>1, <4>1, <4>3 DEF created
    <3> QED BY <3>2, <3>3
  <2> QED BY <2>2, <2>3, <2>4 DEF RegistryIsSound, OneExecutionPerKey
<1> QED BY <1>1, RegistryInvariant, PTL
-----------------------------------------------------------------------------
(***************************************************************************)
(* The two counts of an execution's jobs.  The registry multiplies the     *)
(* sizes of the axes, the controller lays out the cells of their product;  *)
(* the two agree because every axis is finite, the arms of a design too,   *)
(* and because an empty list of endpoints counts as one in both places.    *)
(***************************************************************************)

\* There are finitely many functions between finite sets: each has its graph.
LEMMA FinitelyManyFunctions ==
  ASSUME NEW S, NEW T, IsFiniteSet(S), IsFiniteSet(T)
  PROVE  IsFiniteSet([S -> T])
<1> DEFINE graph == [f \in [S -> T] |-> {<<x, f[x]>> : x \in S}]
           pairs == SUBSET (S \X T)
<1>1. IsFiniteSet(pairs)
  BY FS_Product, FS_SUBSET
<1>2. graph \in [[S -> T] -> pairs]
  OBVIOUS
<1>3. ASSUME NEW f \in [S -> T], NEW g \in [S -> T], graph[f] = graph[g]
      PROVE  f = g
  <2>1. ASSUME NEW x \in S
        PROVE  f[x] = g[x]
    <3>1. <<x, f[x]>> \in {<<y, g[y]>> : y \in S}
      BY <1>3
    <3> QED BY <3>1
  <2> QED BY <2>1
<1> HIDE DEF graph, pairs
<1>4. graph \in Injection([S -> T], pairs)
  BY <1>2, <1>3 DEF Injection, IsInjective
<1> QED BY <1>1, <1>4, FS_Injection

\* The arms of a definition are finitely many (_expand_design).
LEMMA FinitelyManyArms ==
  ASSUME NEW d \in Definitions
  PROVE  IsFiniteSet(ExpandDesign(SpecOf[d]))
<1>a. PICK spec, factors : spec = SpecOf[d] /\ factors = spec.factors
  OBVIOUS
<1>1. IsFiniteSet(DOMAIN factors) /\ \A f \in DOMAIN factors : IsFiniteSet(factors[f].levels)
  BY <1>a, DesignAssumption
<1> DEFINE sets == {factors[f].levels : f \in DOMAIN factors}
           of == [f \in DOMAIN factors |-> factors[f].levels]
<1>2. of \in Surjection(DOMAIN factors, sets)
  BY DEF Surjection
<1>3. IsFiniteSet(sets)
  <2> HIDE DEF of, sets
  <2> QED BY <1>1, <1>2, FS_Surjection
<1>4. \A s \in sets : IsFiniteSet(s)
  BY <1>1
<1> HIDE DEF sets
<1>5. IsFiniteSet(UNION sets)
  BY <1>3, <1>4, FS_UNION
<1>6. IsFiniteSet([DOMAIN factors -> UNION sets])
  BY <1>1, <1>5, FinitelyManyFunctions
<1>7. AllAssignments(factors) \subseteq [DOMAIN factors -> UNION sets]
  BY DEF AllAssignments, sets
<1>8. ExpandDesign(spec) \subseteq AllAssignments(factors)
  <2> SUFFICES ASSUME NEW a \in ExpandDesign(spec)
               PROVE  a \in AllAssignments(factors)
    OBVIOUS
  <2>1. a \in Candidates(spec) /\ DesignAccepted(spec)
    BY DEF ExpandDesign
  <2>2. CASE spec.design = "custom"
    BY <1>a, <2>1, <2>2 DEF Candidates, DesignAccepted
  <2>3. CASE spec.design = "fractional"
    BY <1>a, <2>1, <2>3 DEF Candidates, HalfFraction
  <2>4. CASE spec.design # "custom" /\ spec.design # "fractional"
    BY <1>a, <2>1, <2>4 DEF Candidates
  <2> QED BY <2>2, <2>3, <2>4
<1> QED BY <1>a, <1>6, <1>7, <1>8, FS_Subset

\* The size of a product of five finite sets.
LEMMA FiveAxes ==
  ASSUME NEW A, IsFiniteSet(A), NEW B, IsFiniteSet(B), NEW C, IsFiniteSet(C),
         NEW D, IsFiniteSet(D), NEW E, IsFiniteSet(E)
  PROVE  /\ IsFiniteSet((((A \X B) \X C) \X D) \X E)
         /\ Cardinality((((A \X B) \X C) \X D) \X E) =
               Cardinality(A) * Cardinality(B) * Cardinality(C) * Cardinality(D)
                  * Cardinality(E)
<1>1. PICK P : P = A \X B
  OBVIOUS
<1>2. IsFiniteSet(P) /\ Cardinality(P) = Cardinality(A) * Cardinality(B)
  BY <1>1, FS_Product
<1>3. PICK Q : Q = P \X C
  OBVIOUS
<1>4. IsFiniteSet(Q) /\ Cardinality(Q) = Cardinality(P) * Cardinality(C)
  BY <1>2, <1>3, FS_Product
<1>5. PICK R : R = Q \X D
  OBVIOUS
<1>6. IsFiniteSet(R) /\ Cardinality(R) = Cardinality(Q) * Cardinality(D)
  BY <1>4, <1>5, FS_Product
<1>7. IsFiniteSet(R \X E) /\ Cardinality(R \X E) = Cardinality(R) * Cardinality(E)
  BY <1>6, FS_Product
<1> QED BY <1>1, <1>2, <1>3, <1>4, <1>5, <1>6, <1>7, Zenon

\* The matrix on five axes.
Cells(A, B, C, D, E) ==
    [scenario : B, harness : C, endpoint : D, treatment : A, repetition : E]

\* The cells of the matrix, counted (_matrix).
LEMMA CellsOfMatrix ==
  ASSUME NEW A, IsFiniteSet(A), NEW B, IsFiniteSet(B), NEW C, IsFiniteSet(C),
         NEW D, IsFiniteSet(D), NEW E, IsFiniteSet(E)
  PROVE  /\ IsFiniteSet(Cells(A, B, C, D, E))
         /\ Cardinality(Cells(A, B, C, D, E)) =
               Cardinality(A) * Cardinality(B) * Cardinality(C) * Cardinality(D)
                  * Cardinality(E)
<1> DEFINE M == [scenario : B, harness : C, endpoint : D, treatment : A, repetition : E]
           P == (((A \X B) \X C) \X D) \X E
           cell == [m \in M |->
                      <<<<<<<<m.treatment, m.scenario>>, m.harness>>, m.endpoint>>, m.repetition>>]
<1>1. cell \in [M -> P]
  OBVIOUS
<1>2. ASSUME NEW m \in M, NEW n \in M, cell[m] = cell[n]
      PROVE  m = n
  <2>1. /\ m.treatment = n.treatment /\ m.scenario = n.scenario /\ m.harness = n.harness
        /\ m.endpoint = n.endpoint /\ m.repetition = n.repetition
    BY <1>2
  <2>2. /\ m = [scenario |-> m.scenario, harness |-> m.harness, endpoint |-> m.endpoint,
                treatment |-> m.treatment, repetition |-> m.repetition]
        /\ n = [scenario |-> n.scenario, harness |-> n.harness, endpoint |-> n.endpoint,
                treatment |-> n.treatment, repetition |-> n.repetition]
    OBVIOUS
  <2> HIDE DEF M
  <2> QED BY <2>1, <2>2
<1>3. ASSUME NEW p \in P
      PROVE  \E m \in M : cell[m] = p
  <2>1. PICK a \in A, b \in B, c \in C, d \in D, e \in E : p = <<<<<<<<a, b>>, c>>, d>>, e>>
    <3>1. PICK r \in ((A \X B) \X C) \X D, e \in E : p = <<r, e>>
      OBVIOUS
    <3>2. PICK q \in (A \X B) \X C, d \in D : r = <<q, d>>
      OBVIOUS
    <3>3. PICK o \in A \X B, c \in C : q = <<o, c>>
      OBVIOUS
    <3>4. PICK a \in A, b \in B : o = <<a, b>>
      OBVIOUS
    <3> QED BY <3>1, <3>2, <3>3, <3>4
  <2>2. PICK m : m = [scenario |-> b, harness |-> c, endpoint |-> d, treatment |-> a,
                      repetition |-> e]
    OBVIOUS
  <2>3. m \in M
    BY <2>2
  <2>4. cell[m] = p
    BY <2>1, <2>2, <2>3
  <2> QED BY <2>3, <2>4
<1>4. IsFiniteSet(P) /\ Cardinality(P) =
         Cardinality(A) * Cardinality(B) * Cardinality(C) * Cardinality(D) * Cardinality(E)
  BY FiveAxes, SMTT(40)
<1> HIDE DEF cell, P, M
<1>5. cell \in Injection(M, P)
  BY <1>1, <1>2 DEF Injection, IsInjective
<1>6. cell \in Surjection(M, P)
  BY <1>1, <1>3 DEF Surjection
<1>7. IsFiniteSet(M) /\ Cardinality(M) = Cardinality(P)
  BY <1>4, <1>5, <1>6, FS_Injection
<1> QED BY <1>4, <1>7 DEF M, Cells

\* The registry's product is the number of jobs the controller creates
\* (preflight's expected_attempts, _matrix).
LEMMA CountsAgree ==
  ASSUME NEW d \in Definitions
  PROVE  /\ IsFiniteSet(Matrix(SpecOf[d]))
         /\ Cardinality(Matrix(SpecOf[d])) = ExpectedAttempts(SpecOf[d])
<1>a. PICK spec : spec = SpecOf[d]
  OBVIOUS
<1>1. /\ IsFiniteSet(spec.scenarios) /\ IsFiniteSet(spec.harnesses)
      /\ IsFiniteSet(spec.endpoints) /\ spec.repetitions \in Nat
  BY <1>a, DesignAssumption
<1>2. IsFiniteSet(ExpandDesign(spec))
  BY <1>a, FinitelyManyArms
<1>3. /\ IsFiniteSet(EndpointValues(spec))
      /\ Cardinality(EndpointValues(spec)) = Max({Cardinality(spec.endpoints), 1})
  <2>1. CASE spec.endpoints = {}
    <3>1. IsFiniteSet({"recorded"}) /\ Cardinality({"recorded"}) = 1
      BY FS_Singleton
    <3>2. Cardinality(spec.endpoints) = 0
      BY <2>1, FS_EmptySet
    <3>3. Max({0, 1}) = 1
      BY DEF Max
    <3> QED BY <2>1, <3>1, <3>2, <3>3 DEF EndpointValues
  <2>2. CASE spec.endpoints # {}
    <3>1. PICK n : n = Cardinality(spec.endpoints)
      OBVIOUS
    <3>2. n \in Nat /\ n # 0
      BY <1>1, <2>2, <3>1, FS_CardinalityType, FS_EmptySet
    <3>3. Max({n, 1}) = n
      BY <3>2 DEF Max
    <3> QED BY <1>1, <2>2, <3>1, <3>3 DEF EndpointValues
  <2> QED BY <2>1, <2>2
<1>4. IsFiniteSet(1..spec.repetitions) /\ Cardinality(1..spec.repetitions) = spec.repetitions
  <2>1. PICK lo \in Int, hi \in Nat : lo = 1 /\ hi = spec.repetitions
    BY <1>1
  <2>2. /\ IsFiniteSet(lo..hi)
        /\ Cardinality(lo..hi) = IF lo > hi THEN 0 ELSE hi - lo + 1
    BY FS_Interval
  <2>3. (IF lo > hi THEN 0 ELSE hi - lo + 1) = hi
    BY <2>1
  <2>4. Cardinality(lo..hi) = hi
    BY <2>2, <2>3
  <2> QED BY <2>1, <2>2, <2>4, Zenon
<1>5. /\ IsFiniteSet(Matrix(spec))
      /\ Cardinality(Matrix(spec)) =
            Cardinality(ExpandDesign(spec)) * Cardinality(spec.scenarios)
               * Cardinality(spec.harnesses) * Cardinality(EndpointValues(spec))
               * Cardinality(1..spec.repetitions)
  <2>1. PICK A, B, C, D, E :
            /\ A = ExpandDesign(spec) /\ B = spec.scenarios /\ C = spec.harnesses
            /\ D = EndpointValues(spec) /\ E = 1..spec.repetitions
    OBVIOUS
  <2>2. Matrix(spec) = Cells(A, B, C, D, E)
    BY <2>1 DEF Matrix, Cells
  <2>3. /\ IsFiniteSet(A) /\ IsFiniteSet(B) /\ IsFiniteSet(C) /\ IsFiniteSet(D)
        /\ IsFiniteSet(E)
    BY <1>1, <1>2, <1>3, <1>4, <2>1
  <2>4. /\ IsFiniteSet(Cells(A, B, C, D, E))
        /\ Cardinality(Cells(A, B, C, D, E)) =
              Cardinality(A) * Cardinality(B) * Cardinality(C)
                 * Cardinality(D) * Cardinality(E)
    BY <2>3, CellsOfMatrix
  <2> QED BY <2>1, <2>2, <2>4, Zenon
<1> QED BY <1>a, <1>3, <1>4, <1>5, Zenon DEF ExpectedAttempts

\* A definition passed the preflight as far as the count of attempts goes.
Passed(d) ==
    /\ ExpandDesign(SpecOf[d]) # {}
    /\ ExpectedAttempts(SpecOf[d]) <= SpecOf[d].aggregate.attempts

\* The jobs of a definition that passed: some, and within its budget.
LEMMA PassedFits ==
  ASSUME NEW d \in Definitions, Passed(d)
  PROVE  /\ Cardinality(Matrix(SpecOf[d])) > 0
         /\ Cardinality(Matrix(SpecOf[d])) <= SpecOf[d].aggregate.attempts
<1>a. PICK spec : spec = SpecOf[d]
  OBVIOUS
<1>1. PICK a : a \in ExpandDesign(spec)
  BY <1>a DEF Passed
<1>2. spec.scenarios # {} /\ spec.harnesses # {} /\ spec.repetitions \in Nat \ {0}
  BY <1>a, DesignAssumption
<1>3. PICK s, h, e, r : /\ s \in spec.scenarios /\ h \in spec.harnesses
                        /\ e \in EndpointValues(spec) /\ r \in 1..spec.repetitions
  <2>1. EndpointValues(spec) # {} /\ 1 \in 1..spec.repetitions
    BY <1>2 DEF EndpointValues
  <2> QED BY <1>2, <2>1, Zenon
<1>4. [scenario |-> s, harness |-> h, endpoint |-> e, treatment |-> a, repetition |-> r]
         \in Matrix(spec)
  BY <1>1, <1>3 DEF Matrix
<1>5. Matrix(spec) # {}
  BY <1>4
<1>6. IsFiniteSet(Matrix(spec)) /\ Cardinality(Matrix(spec)) = ExpectedAttempts(spec)
  BY <1>a, CountsAgree
<1>7. PICK n : n = Cardinality(Matrix(spec))
  OBVIOUS
<1>8. n \in Nat /\ n # 0
  BY <1>5, <1>6, <1>7, FS_CardinalityType, FS_EmptySet
<1> QED BY <1>a, <1>6, <1>7, <1>8 DEF Passed

-----------------------------------------------------------------------------
\* Whatever is about to be created, or was, passed its preflight and has the
\* jobs of its matrix; the definition is the frozen one, so it still says so.
PassedShape ==
    /\ \A h \in Handlers : handlers[h].op = "create" => Passed(handlers[h].saw.hash.definition)
    /\ \A i \in 1..Len(executions) :
          /\ Passed(executions[i].hash.definition)
          /\ executions[i].jobs = Cardinality(Matrix(SpecOf[executions[i].hash.definition]))

\* CreateRequest reads the definition the hash is of.
LEMMA RequestPasses ==
  ASSUME RInv, NEW e \in Experiments, FrozenIntact(e), PreflightPasses(e)
  PROVE  Passed(experiments[e].hash.definition)
<1>1. /\ experiments[e] \in Rows
      /\ experiments[e].hash.definition = experiments[e].definition
  BY DEF FrozenIntact, Frozen, FreezeHash, RInv, Types
<1>a. PICK d, spec, bundle : /\ d = experiments[e].definition /\ spec = SpecOf[d]
                            /\ bundle = PackOf[experiments[e].packHash]
  OBVIOUS
<1>2. d \in Definitions
  BY <1>a, <1>1 DEF Rows
<1>3. Blockers(spec, bundle) = {}
  BY <1>a DEF PreflightPasses
<1>4. ExpandDesign(spec) # {}
  <2> SUFFICES ASSUME ExpandDesign(spec) = {}
               PROVE  FALSE
    OBVIOUS
  <2>1. "design_invalid" \in {b \in {"design_invalid"} : ExpandDesign(spec) = {}}
    OBVIOUS
  <2> QED BY <1>3, <2>1, Zenon DEF Blockers
<1>5. ~(spec.aggregate.attempts < ExpectedAttempts(spec))
  <2> SUFFICES ASSUME spec.aggregate.attempts < ExpectedAttempts(spec)
               PROVE  FALSE
    OBVIOUS
  <2>1. "aggregate_attempts_insufficient" \in BudgetBlockers(spec)
    BY DEF BudgetBlockers
  <2> QED BY <1>3, <2>1, Zenon DEF Blockers
<1>6. PICK m, n : m = spec.aggregate.attempts /\ n = ExpectedAttempts(spec)
  OBVIOUS
<1>7. m \in Nat /\ n \in Nat
  BY <1>a, <1>2, <1>6, CountsAgree, FS_CardinalityType, DesignAssumption
<1>8. n <= m
  BY <1>5, <1>6, <1>7
<1> QED BY <1>a, <1>1, <1>4, <1>6, <1>8 DEF Passed

\* One step.
LEMMA NextPasses ==
  ASSUME RInv, RInv', PassedShape, [Next]_vars
  PROVE  PassedShape'
<1>1. handlers \in [Handlers -> Handling] /\ executions \in Seq(Executions)
  BY DEF RInv, Types
\* Most steps create nothing and leave nobody about to.
<1>2. ASSUME executions' = executions,
             \A g \in Handlers :
                handlers'[g] = handlers[g] \/ handlers'[g].op # "create"
                   \/ Passed(handlers'[g].saw.hash.definition)
      PROVE  PassedShape'
  BY <1>2 DEF PassedShape
<1>3. ASSUME NEW h \in Handlers, NEW next, handlers' = [handlers EXCEPT ![h] = next],
             executions' = executions,
             next.op # "create" \/ Passed(next.saw.hash.definition)
      PROVE  PassedShape'
  <2>1. \A g \in Handlers : handlers'[g] = handlers[g] \/ handlers'[g] = next
    BY <1>1, <1>3
  <2> QED BY <1>2, <1>3, <2>1
<1>4. Idle.op # "create"
  BY DEF Idle
<1>5. ASSUME NEW h \in Handlers, HandlerStep(h)
      PROVE  PassedShape'
  <2>1. ASSUME NEW u \in Uploads, ImportPack(h, u)
        PROVE  PassedShape'
    BY <1>3, <2>1 DEF ImportPack, Step
  <2>2. ASSUME ImportStore(h)
        PROVE  PassedShape'
    BY <1>3, <2>2 DEF ImportStore, Step
  <2>3. ASSUME ImportRegister(h)
        PROVE  PassedShape'
    BY <1>3, <1>4, <2>3 DEF ImportRegister, Step
  <2>4. ASSUME NEW e \in Experiments, NEW d \in Definitions, UpdateRead(h, e, d)
        PROVE  PassedShape'
    BY <1>3, <2>4 DEF UpdateRead, Step
  <2>5. ASSUME UpdateWrite(h)
        PROVE  PassedShape'
    BY <1>3, <1>4, <2>5 DEF UpdateWrite, Step
  <2>6. ASSUME NEW e \in Experiments, FreezeRead(h, e)
        PROVE  PassedShape'
    BY <1>3, <2>6 DEF FreezeRead, Step
  <2>7. ASSUME FreezeWrite(h)
        PROVE  PassedShape'
    BY <1>3, <1>4, <2>7 DEF FreezeWrite, Step
  <2>8. ASSUME NEW k \in Keys, NEW e \in Experiments, NEW p \in Provenances,
               CreateRequest(h, k, e, p)
        PROVE  PassedShape'
    <3>1. Passed(experiments[e].hash.definition)
      BY <2>8, RequestPasses DEF CreateRequest
    <3> QED BY <1>3, <2>8, <3>1 DEF CreateRequest, Step
  <2>9. ASSUME CreateExecution(h)
        PROVE  PassedShape'
    <3>1. PICK k, digest : k = handlers[h].on /\ digest = handlers[h].saw
      OBVIOUS
    <3>2. Passed(digest.hash.definition)
      BY <2>9, <3>1 DEF CreateExecution, Step, PassedShape
    <3>3. CASE records[k] # None
      BY <1>3, <1>4, <2>9, <3>1, <3>3 DEF CreateExecution, Step, Reserve
    <3>4. CASE records[k] = None
      <4>1. PICK new : new = [experiment |-> SpecOf[digest.hash.definition].experiment,
                              hash |-> digest.hash, key |-> k, jobs |-> Jobs(digest)]
        OBVIOUS
      <4>2. executions' = Append(executions, new) /\ handlers' = [handlers EXCEPT ![h] = Idle]
        BY <2>9, <3>1, <3>4, <4>1 DEF CreateExecution, Step, Reserve, Insert
      <4>3. /\ new.hash = digest.hash
            /\ new.jobs = Cardinality(Matrix(SpecOf[digest.hash.definition]))
        BY <4>1 DEF Jobs
      <4>4. PICK n \in Nat : n = Len(executions)
        BY <1>1
      <4>5. /\ Len(executions') = n + 1 /\ executions'[n + 1] = new
            /\ \A i \in 1..n : executions'[i] = executions[i]
        BY <1>1, <4>2, <4>4
      <4>6. \A i \in 1..n + 1 : i \in 1..n \/ i = n + 1
        OBVIOUS
      <4>7. \A i \in 1..n + 1 :
               /\ Passed(executions'[i].hash.definition)
               /\ executions'[i].jobs =
                     Cardinality(Matrix(SpecOf[executions'[i].hash.definition]))
        BY <3>2, <4>3, <4>4, <4>5, <4>6, Zenon DEF PassedShape
      <4>8. \A g \in Handlers : handlers'[g] = handlers[g] \/ handlers'[g] = Idle
        BY <1>1, <4>2
      <4>9. \A g \in Handlers :
               handlers'[g].op = "create" => Passed(handlers'[g].saw.hash.definition)
        BY <1>4, <4>8 DEF PassedShape
      <4> QED BY <4>5, <4>7, <4>9 DEF PassedShape
    <3> QED BY <3>3, <3>4
  <2>10. ASSUME Abandon(h)
         PROVE  PassedShape'
    BY <1>3, <1>4, <2>10 DEF Abandon
  <2> QED BY <1>5, <2>1, <2>2, <2>3, <2>4, <2>5, <2>6, <2>7, <2>8, <2>9, <2>10 DEF HandlerStep
<1>6. ASSUME NEW d \in Definitions, CreateExperiment(d)
      PROVE  PassedShape'
  BY <1>2, <1>6 DEF CreateExperiment
<1>7. ASSUME NEW e \in Experiments, NEW a \in Approvals, SetApproval(e, a)
      PROVE  PassedShape'
  BY <1>2, <1>7 DEF SetApproval
<1>8. CASE UNCHANGED vars
  BY <1>2, <1>8 DEF vars
<1> QED BY <1>5, <1>6, <1>7, <1>8 DEF Next, Approvals

\* No execution has more jobs than the aggregate budget allows, nor none at all:
\* what the preflight counted is what is created, even when the experiment was
\* frozen, the request delayed and the key replayed (preflight, _matrix,
\* create_execution).
THEOREM JobsStayWithinBudget == RegistrySpec => []JobsWithinBudget
<1>1. Init => PassedShape
  <2> SUFFICES ASSUME Init
               PROVE  PassedShape
    OBVIOUS
  <2>1. executions = <<>> /\ \A h \in Handlers : handlers[h].op = "idle"
    BY DEF Init, Idle
  <2> QED BY <2>1 DEF PassedShape
<1>2. RInv /\ RInv' /\ PassedShape /\ [Next]_vars => PassedShape'
  BY NextPasses
<1>3. RInv /\ PassedShape => JobsWithinBudget
  <2> SUFFICES ASSUME RInv, PassedShape, NEW i \in DOMAIN executions
               PROVE  /\ executions[i].jobs > 0
                      /\ executions[i].jobs <=
                            SpecOf[executions[i].hash.definition].aggregate.attempts
    BY DEF JobsWithinBudget
  <2>1. executions \in Seq(Executions) /\ i \in 1..Len(executions)
    BY DEF RInv, Types
  <2>2. executions[i] \in Executions
    BY <2>1
  <2>3. executions[i].hash.definition \in Definitions
    BY <2>2 DEF Executions, Hashes
  <2>4. /\ Passed(executions[i].hash.definition)
        /\ executions[i].jobs = Cardinality(Matrix(SpecOf[executions[i].hash.definition]))
    BY <2>1 DEF PassedShape
  <2>5. PICK d : d = executions[i].hash.definition
    OBVIOUS
  <2> QED BY <2>3, <2>4, <2>5, PassedFits
<1> QED BY RegistryInvariant, <1>1, <1>2, <1>3, PTL DEF RegistrySpec
=============================================================================
