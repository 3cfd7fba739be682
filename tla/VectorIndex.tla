---------------------------- MODULE VectorIndex ----------------------------
(***************************************************************************)
(* The retrieval index of one knowledge base.                              *)
(*                                                                         *)
(* The embed task labels every chunk it embeds with the embedding model it *)
(* resolved; the index of a model version covers the chunks with its       *)
(* label, and search requires an active one for the current model.  Index  *)
(* tasks, queued by embed tasks and by reconciliation, and the owner's     *)
(* request build it: a transaction under an advisory lock inserts a        *)
(* 'building' row, CREATE INDEX runs on its own, and a last transaction    *)
(* retires the active row and activates the new one.  Administrators may   *)
(* switch the model, or bump its version, at any time.                     *)
(*                                                                         *)
(* The row of an index is kept by model and status; retired and failed     *)
(* rows, which only count for generation numbers, are forgotten.           *)
(***************************************************************************)
EXTENDS Integers

CONSTANTS
  Chunk,      \* chunks of current, verified document versions
  Builder,    \* processes that run index tasks or the owner's request
  MaxModel,   \* bound: model versions
  SwitchCap,  \* bound: switches of the model
  OwnerCap,   \* bound: builds requested by the owner
  FailCap,    \* bound: failures of CREATE INDEX
  CrashCap    \* bound: builders dying

ASSUME ConstantsAssumption ==
  /\ MaxModel \in Nat \ {0}
  /\ SwitchCap \in Nat /\ OwnerCap \in Nat /\ FailCap \in Nat /\ CrashCap \in Nat

VARIABLES
  model,     \* the scene-default embedding model and its version
  target,    \* the model a chunk's embed task resolved, or 0
  label,     \* document_chunks.model_id and model_version, 0 until ready
  maker,     \* the model that computed the vector
  gone,      \* chunks whose document was deleted
  last,      \* the highest generation of each model's indexes
  active,    \* the active row of each model: at most one generation
  building,  \* its 'building' rows
  queued,    \* whether an index task is waiting
  pc, want, mine,  \* of each builder: step, model, and its row
  switches, owners, failures, crashes

chunks  == <<target, label, maker, gone>>
indexes == <<last, active, building>>
builder == <<pc, want, mine>>
bounds  == <<switches, owners, failures, crashes>>
vars == <<model, target, label, maker, gone, last, active, building, queued,
          pc, want, mine, switches, owners, failures, crashes>>

Model == 1..MaxModel
NoRow == [generation |-> 0, source |-> {}]

Init ==
  /\ model = 1
  /\ target = [c \in Chunk |-> 0]
  /\ label = [c \in Chunk |-> 0]
  /\ maker = [c \in Chunk |-> 0]
  /\ gone = {}
  /\ last = [m \in Model |-> 0]
  /\ active = [m \in Model |-> {}]
  /\ building = [m \in Model |-> {}]
  /\ queued = FALSE
  /\ pc = [b \in Builder |-> "idle"]
  /\ want = [b \in Builder |-> 1]
  /\ mine = [b \in Builder |-> NoRow]
  /\ switches = 0 /\ owners = 0 /\ failures = 0 /\ crashes = 0

-----------------------------------------------------------------------------
(* Chunks and the model.                                                   *)

\* The scene default is saved, or its model edited: any other version.
Switch ==
  /\ switches < SwitchCap
  /\ model' \in Model \ {model}
  /\ switches' = switches + 1
  /\ UNCHANGED <<chunks, indexes, queued, builder, owners, failures, crashes>>

\* embed: the target is resolved once for the task, again for a retry.
ResolveTarget(c) ==
  /\ label[c] = 0 /\ c \notin gone
  /\ target[c] # model
  /\ target' = [target EXCEPT ![c] = model]
  /\ UNCHANGED <<model, label, maker, gone, indexes, queued, builder, bounds>>

\* embed, a batch: managed_embeddings resolves the model by itself; the task
\* queues an index task when it is done.
Embed(c) ==
  /\ label[c] = 0 /\ c \notin gone
  /\ target[c] # 0
  /\ label' = [label EXCEPT ![c] = target[c]]
  /\ maker' = [maker EXCEPT ![c] = model]
  /\ queued' = TRUE
  /\ UNCHANGED <<model, target, gone, indexes, builder, bounds>>

\* KnowledgeService.delete_document deletes the chunks.
DeleteChunk(c) ==
  /\ c \notin gone
  /\ gone' = gone \cup {c}
  /\ UNCHANGED <<model, target, label, maker, indexes, queued, builder, bounds>>

-----------------------------------------------------------------------------
(* Building.                                                               *)

\* The ready chunks of a model; their digest identifies them.
ReadyChunks(m) == {c \in Chunk \ gone : label[c] = m}

Covered(m) == \E row \in active[m] : row.source = ReadyChunks(m)

\* SearchService.maintain_vector_index: nothing to do when the active index
\* covers the ready chunks, or there are none.
Maintain(b) ==
  /\ pc[b] = "idle"
  /\ queued
  /\ queued' = FALSE
  /\ IF ReadyChunks(model) = {} \/ Covered(model)
     THEN UNCHANGED builder
     ELSE /\ pc' = [pc EXCEPT ![b] = "read"]
          /\ want' = [want EXCEPT ![b] = model]
          /\ UNCHANGED mine
  /\ UNCHANGED <<model, chunks, indexes, bounds>>

\* SearchService.build_vector_index, requested by the owner.
OwnerBuild(b) ==
  /\ owners < OwnerCap
  /\ owners' = owners + 1
  /\ pc[b] = "idle"
  /\ pc' = [pc EXCEPT ![b] = "read"]
  /\ want' = [want EXCEPT ![b] = model]
  /\ UNCHANGED <<model, chunks, indexes, queued, mine, switches, failures,
                 crashes>>

M_Buildable(m) == ReadyChunks(m) # {}

\* There is something to index and no other build of the model.
Buildable(m) == ReadyChunks(m) # {} /\ building[m] = {}

\* _build_index_core under its advisory lock.
Insert(b) ==
  LET m == want[b]
      row == [generation |-> last[m] + 1, source |-> ReadyChunks(m)]
  IN
  /\ pc[b] = "read"
  /\ IF Buildable(m)
     THEN /\ last' = [last EXCEPT ![m] = @ + 1]
          /\ building' = [building EXCEPT ![m] = @ \cup {row}]
          /\ mine' = [mine EXCEPT ![b] = row]
          /\ pc' = [pc EXCEPT ![b] = "building"]
     ELSE /\ pc' = [pc EXCEPT ![b] = "idle"]
          /\ UNCHANGED <<last, building, mine>>
  /\ UNCHANGED <<model, chunks, active, queued, want, bounds>>

Leave(b) ==
  /\ pc' = [pc EXCEPT ![b] = "idle"]
  /\ mine' = [mine EXCEPT ![b] = NoRow]
  /\ UNCHANGED want

\* CREATE INDEX succeeded: the active row is retired, the new one activated.
Activate(b) ==
  /\ pc[b] = "building"
  /\ active' = [active EXCEPT ![want[b]] = {mine[b]}]
  /\ building' = [building EXCEPT ![want[b]] = @ \ {mine[b]}]
  /\ Leave(b)
  /\ UNCHANGED <<model, chunks, last, queued, bounds>>

\* CREATE INDEX failed: so is the row.
BuildFails(b) ==
  /\ failures < FailCap
  /\ failures' = failures + 1
  /\ pc[b] = "building"
  /\ building' = [building EXCEPT ![want[b]] = @ \ {mine[b]}]
  /\ Leave(b)
  /\ UNCHANGED <<model, chunks, last, active, queued, switches, owners, crashes>>

\* The process dies; its row stays.
Crash(b) ==
  /\ crashes < CrashCap
  /\ crashes' = crashes + 1
  /\ pc[b] # "idle"
  /\ Leave(b)
  /\ UNCHANGED <<model, chunks, indexes, queued, switches, owners, failures>>

M_Missing == ReadyChunks(model) # {} /\ active[model] = {}

\* SearchService.kbs_missing_vector_index.
Missing == ReadyChunks(model) # {} /\ ~Covered(model)

\* reconcile_once queues an index task.
Reconcile ==
  /\ ~queued
  /\ Missing
  /\ queued' = TRUE
  /\ UNCHANGED <<model, chunks, indexes, builder, bounds>>

-----------------------------------------------------------------------------
Next ==
  \/ Switch \/ Reconcile
  \/ \E c \in Chunk : ResolveTarget(c) \/ Embed(c) \/ DeleteChunk(c)
  \/ \E b \in Builder : \/ Maintain(b) \/ OwnerBuild(b) \/ Insert(b)
                        \/ Activate(b) \/ BuildFails(b) \/ Crash(b)

Spec == Init /\ [][Next]_vars

\* Reconciliation runs for ever, tasks are delivered, builds end.
Fairness ==
  /\ WF_vars(Reconcile)
  /\ WF_vars(\E b \in Builder : Maintain(b))
  /\ \A b \in Builder : WF_vars(Insert(b)) /\ WF_vars(Activate(b))

FairSpec == Spec /\ Fairness

-----------------------------------------------------------------------------
\* Every variable holds a value its column or process can hold; a row always
\* covers some chunk and has a generation of its own.
Row == [generation : Nat \ {0}, source : (SUBSET Chunk) \ {{}}]

TypeOK ==
  /\ model \in Model
  /\ target \in [Chunk -> 0..MaxModel]
  /\ label \in [Chunk -> 0..MaxModel]
  /\ maker \in [Chunk -> 0..MaxModel]
  /\ gone \subseteq Chunk
  /\ last \in [Model -> Nat]
  /\ active \in [Model -> SUBSET Row]
  /\ building \in [Model -> SUBSET Row]
  /\ queued \in BOOLEAN
  /\ pc \in [Builder -> {"idle", "read", "building"}]
  /\ want \in [Builder -> Model]
  /\ mine \in [Builder -> Row \cup {NoRow}]

\* The active index of a model is the newest that was finished: builds that
\* run at once never put an older one in its place (_build_index_core).
NeverOlder ==
  [][\A m \in Model : \A old \in active[m], new \in active'[m] :
       old = new \/ old.generation < new.generation]_vars

\* The index of the current model covers its ready chunks.
Covering == ReadyChunks(model) # {} => Covered(model)

\* Once chunks and the model stay as they are the index covers the chunks, if
\* no builder died: embedding, deletion, failed and refused builds leave
\* nothing behind (maintain_vector_index, reconcile_once).
Healed == [](crashes = 0) => <>[]Covering

\* The same whoever died: reconciliation heals a knowledge base without index.
\* The code does not keep this.
HealedAfterCrash == <>[]Covering

\* A chunk bears the label of the model that computed its vector (embed).  The
\* code does not keep this.
LabelTellsMaker == \A c \in Chunk : label[c] = maker[c]

=============================================================================
