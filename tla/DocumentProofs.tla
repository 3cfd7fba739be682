---------------------------- MODULE DocumentProofs ----------------------------
(***************************************************************************)
(* Proofs about documents, their objects and their listing.                *)
(*                                                                         *)
(* ObjectLifecycle, for any number of workers, versions and mishaps: types,*)
(* that the bytes and the place of a published version are kept, and that  *)
(* a cleanup that succeeded left nothing behind.                           *)
(*                                                                         *)
(* Cleanup works on keys without looking at the document again after its   *)
(* claim.  What makes that safe is Quiet: cleanup exists only once the     *)
(* document is deleted, and a deleted document has no versions any more.   *)
(***************************************************************************)
EXTENDS ObjectLifecycle, KnowledgeDocuments, WellFoundedInduction,
        FiniteSetTheorems, TLAPS

\* Typing is inductive.
LEMMA TypeInitial == Init => TypeOK
  BY ConstantsAssumption DEF Init, TypeOK, Version

LEMMA TypeStep == TypeOK /\ [Next]_vars => TypeOK'
<1> SUFFICES ASSUME TypeOK, [Next]_vars PROVE TypeOK'
  OBVIOUS
<1> USE ConstantsAssumption DEF TypeOK, Version, file, queue, task, mishaps
<1>1. CASE UNCHANGED vars
  BY <1>1 DEF vars
<1>2. CASE UploadTicket
  BY <1>2 DEF UploadTicket, Offer
<1>3. CASE ReplacementTicket
  BY <1>3 DEF ReplacementTicket, Offer
<1>4. CASE Delete
  BY <1>4 DEF Delete
<1>5. CASE EnqueueCleanup
  BY <1>5 DEF EnqueueCleanup
<1>6. CASE ApiDies
  BY <1>6 DEF ApiDies
<1>7. ASSUME NEW v \in Version, Put(v) PROVE TypeOK'
  BY <1>7 DEF Put
<1>8. ASSUME NEW v \in Version, ExpireTicket(v) PROVE TypeOK'
  BY <1>8 DEF ExpireTicket
<1>9. ASSUME NEW v \in Version, Complete(v) PROVE TypeOK'
  BY <1>9 DEF Complete
<1>10. ASSUME NEW v \in Version, Refuse(v) PROVE TypeOK'
  BY <1>10 DEF Refuse
<1>11. ASSUME NEW v \in Version, BecomeDue(v) PROVE TypeOK'
  BY <1>11 DEF BecomeDue
<1>12. ASSUME NEW w \in Worker, NEW v \in Version, Claim(w, v) PROVE TypeOK'
  <2>1. CASE row[v] # "absent"
    BY <1>12, <2>1 DEF Claim
  <2>2. CASE row[v] = "absent"
    <3>1. /\ cleanup' = [cleanup EXCEPT ![v] = "running"]
          /\ pc' = [pc EXCEPT ![w] = "claimed"]
          /\ job' = [job EXCEPT ![w] = v]
          /\ UNCHANGED <<due, file, ticket, object, unqueued, mishaps>>
      BY <1>12, <2>2 DEF Claim
    <3>2. QED
      BY <3>1
  <2>3. QED
    BY <2>1, <2>2
<1>13. ASSUME NEW w \in Worker, Erase(w) PROVE TypeOK'
  BY <1>13 DEF Erase
<1>14. ASSUME NEW w \in Worker, EraseFails(w) PROVE TypeOK'
  <2>1. object' \in [Version -> {"none", "stored"}]
    BY <1>14 DEF EraseFails
  <2>2. cleanup' \in [Version -> {"absent", "queued", "running", "retryable",
                                  "succeeded"}]
    BY <1>14 DEF EraseFails, AfterFailure
  <2>3. QED
    BY <1>14, <2>1, <2>2 DEF EraseFails, Leave
<1>15. ASSUME NEW w \in Worker, Succeed(w) PROVE TypeOK'
  BY <1>15 DEF Succeed, Leave
<1>16. ASSUME NEW w \in Worker, WorkerDies(w) PROVE TypeOK'
  BY <1>16 DEF WorkerDies, Leave
<1>17. QED
  BY <1>1, <1>2, <1>3, <1>4, <1>5, <1>6, <1>7, <1>8, <1>9, <1>10, <1>11,
     <1>12, <1>13, <1>14, <1>15, <1>16 DEF Next, CleanupStep

\* Every variable keeps its type.
THEOREM TypeCorrect == Spec => []TypeOK
  BY TypeInitial, TypeStep, PTL DEF Spec

-----------------------------------------------------------------------------
\* Only a deleted document has anything to clean up, and it has no versions.
Quiet ==
  /\ doc = "none" => current = 1
  /\ doc # "active" => \A v \in Version : row[v] = "absent"
  /\ unqueued # {} => doc = "deleted"
  /\ \A v \in Version : cleanup[v] # "absent" => doc = "deleted"
  /\ \A w \in Worker : pc[w] # "idle" => doc = "deleted"

KeptInv == TypeOK /\ Quiet /\ PublishedBytesKept /\ LastPublishedIsCurrent

LEMMA KeptInitial == Init => KeptInv
  BY TypeInitial, ConstantsAssumption
     DEF Init, KeptInv, Quiet, PublishedBytesKept, LastPublishedIsCurrent, Version

LEMMA KeptStep == KeptInv /\ [Next]_vars => KeptInv'
<1> SUFFICES ASSUME KeptInv, [Next]_vars
             PROVE (Quiet /\ PublishedBytesKept /\ LastPublishedIsCurrent)'
  BY TypeStep DEF KeptInv
<1> USE ConstantsAssumption
    DEF KeptInv, TypeOK, Quiet, PublishedBytesKept, LastPublishedIsCurrent,
        Version, file, queue, task, mishaps
<1>1. CASE UNCHANGED vars
  BY <1>1 DEF vars
<1>2. CASE UploadTicket
  BY <1>2 DEF UploadTicket, Offer
<1>3. CASE ReplacementTicket
  BY <1>3 DEF ReplacementTicket, Offer, NothingPending
<1>4. CASE Delete
  BY <1>4 DEF Delete
<1>5. CASE EnqueueCleanup
  BY <1>5 DEF EnqueueCleanup
<1>6. CASE ApiDies
  BY <1>6 DEF ApiDies
<1>7. ASSUME NEW v \in Version, Put(v)
      PROVE  (Quiet /\ PublishedBytesKept /\ LastPublishedIsCurrent)'
  BY <1>7 DEF Put
<1>8. ASSUME NEW v \in Version, ExpireTicket(v)
      PROVE  (Quiet /\ PublishedBytesKept /\ LastPublishedIsCurrent)'
  BY <1>8 DEF ExpireTicket
<1>9. ASSUME NEW v \in Version, Complete(v)
      PROVE  (Quiet /\ PublishedBytesKept /\ LastPublishedIsCurrent)'
  <2> USE <1>9 DEF Complete, Completable
  <2>1. v = current + 1 \/ (v = current /\ v = 1)
    <3>1. doc = "active" /\ row[v] = "pending"
      OBVIOUS
    <3>2. ~(v < current) /\ ~(v > current + 1)
      BY <3>1
    <3>3. v = current => v = 1
      BY <3>1
    <3>4. v \in Int /\ current \in Int
      OBVIOUS
    <3>5. v = current \/ v = current + 1
      BY ONLY <3>2, <3>4
    <3>6. CASE v = current + 1
      BY ONLY <3>6
    <3>7. CASE v = current
      BY ONLY <3>3, <3>7
    <3>8. QED
      BY ONLY <3>5, <3>6, <3>7
  <2>2. Quiet' /\ PublishedBytesKept'
    BY DEF Verifies
  <2>3. LastPublishedIsCurrent'
    BY <2>1
  <2>4. QED
    BY <2>2, <2>3
<1>10. ASSUME NEW v \in Version, Refuse(v)
       PROVE  (Quiet /\ PublishedBytesKept /\ LastPublishedIsCurrent)'
  BY <1>10 DEF Refuse
<1>11. ASSUME NEW v \in Version, BecomeDue(v)
       PROVE  (Quiet /\ PublishedBytesKept /\ LastPublishedIsCurrent)'
  BY <1>11 DEF BecomeDue
<1>12. ASSUME NEW w \in Worker, NEW v \in Version, Claim(w, v)
       PROVE  (Quiet /\ PublishedBytesKept /\ LastPublishedIsCurrent)'
  BY <1>12 DEF Claim, Claimable
<1>13. ASSUME NEW w \in Worker, Erase(w)
       PROVE  (Quiet /\ PublishedBytesKept /\ LastPublishedIsCurrent)'
  BY <1>13 DEF Erase
<1>14. ASSUME NEW w \in Worker, EraseFails(w)
       PROVE  (Quiet /\ PublishedBytesKept /\ LastPublishedIsCurrent)'
  BY <1>14 DEF EraseFails, Leave, AfterFailure
<1>15. ASSUME NEW w \in Worker, Succeed(w)
       PROVE  (Quiet /\ PublishedBytesKept /\ LastPublishedIsCurrent)'
  BY <1>15 DEF Succeed, Leave
<1>16. ASSUME NEW w \in Worker, WorkerDies(w)
       PROVE  (Quiet /\ PublishedBytesKept /\ LastPublishedIsCurrent)'
  BY <1>16 DEF WorkerDies, Leave
<1>17. QED
  BY <1>1, <1>2, <1>3, <1>4, <1>5, <1>6, <1>7, <1>8, <1>9, <1>10, <1>11,
     <1>12, <1>13, <1>14, <1>15, <1>16 DEF Next, CleanupStep

\* The bytes of a published version stay in the bucket (complete, cleanup).
THEOREM BytesOfPublishedKept == Spec => []PublishedBytesKept
  BY KeptInitial, KeptStep, PTL DEF Spec, KeptInv

\* The current version is the last one published (complete).
THEOREM CurrentIsLastPublished == Spec => []LastPublishedIsCurrent
  BY KeptInitial, KeptStep, PTL DEF Spec, KeptInv

-----------------------------------------------------------------------------
\* A task that erased its object, or reported so, left none behind: only a PUT
\* to the URL of a deleted document can bring it back.
ErasedStaysErased ==
  latePuts = 0 =>
    /\ \A v \in Version : cleanup[v] = "succeeded" => object[v] = "none"
    /\ \A w \in Worker : pc[w] = "erased" => object[job[w]] = "none"

TasksHaveJobs == \A w \in Worker : pc[w] # "idle" => job[w] \in Version

ErasedInv == TypeOK /\ Quiet /\ TasksHaveJobs /\ ErasedStaysErased

LEMMA ErasedInitial == Init => ErasedInv
  BY TypeInitial DEF Init, ErasedInv, Quiet, TasksHaveJobs, ErasedStaysErased

LEMMA ErasedStep ==
  ASSUME KeptInv, ErasedInv, [Next]_vars
  PROVE  ErasedInv'
<1>1. TypeOK' /\ Quiet'
  BY KeptStep DEF KeptInv
<1>2. CASE UNCHANGED vars
  BY <1>1, <1>2 DEF ErasedInv, TasksHaveJobs, ErasedStaysErased, vars
<1>3. CASE UploadTicket \/ ReplacementTicket \/ Delete \/ EnqueueCleanup \/ ApiDies
  <2>1. UNCHANGED <<object, pc, job, latePuts>>
    BY <1>3 DEF UploadTicket, ReplacementTicket, Offer, Delete, EnqueueCleanup, ApiDies,
                task, mishaps
  <2>2. \A v \in Version : cleanup'[v] = "succeeded" => cleanup[v] = "succeeded"
    BY <1>3 DEF ErasedInv, TypeOK, UploadTicket, ReplacementTicket, Offer, Delete,
                EnqueueCleanup, ApiDies, queue
  <2>3. QED
    BY <1>1, <2>1, <2>2 DEF ErasedInv, TasksHaveJobs, ErasedStaysErased
<1>4. ASSUME NEW v \in Version, Put(v)
      PROVE  ErasedInv'
  <2>1. UNCHANGED <<cleanup, pc, job>>
    BY <1>4 DEF Put, queue, task
  <2>2. CASE doc = "active"
    BY <1>1, <2>1, <2>2
       DEF ErasedInv, Quiet, TypeOK, TasksHaveJobs, ErasedStaysErased
  <2>3. CASE doc # "active"
    <3>1. latePuts' = latePuts + 1 /\ latePuts \in Nat
      BY <1>4, <2>3 DEF Put, ErasedInv, TypeOK
    <3>2. QED
      BY <1>1, <2>1, <3>1 DEF ErasedInv, TasksHaveJobs, ErasedStaysErased
  <2>4. QED
    BY <2>2, <2>3
<1>5. ASSUME NEW v \in Version, ExpireTicket(v) \/ Complete(v) \/ Refuse(v) \/ BecomeDue(v)
      PROVE  ErasedInv'
  <2>1. UNCHANGED <<object, cleanup, pc, job, latePuts>>
    BY <1>5 DEF ExpireTicket, Complete, Refuse, BecomeDue, queue, task, mishaps
  <2>2. QED
    BY <1>1, <2>1 DEF ErasedInv, TasksHaveJobs, ErasedStaysErased
<1>6. ASSUME NEW w \in Worker, NEW v \in Version, Claim(w, v)
      PROVE  ErasedInv'
  <2>1. UNCHANGED <<object, latePuts>>
    BY <1>6 DEF Claim, mishaps
  <2>2. \A u \in Version : cleanup'[u] = "succeeded" => cleanup[u] = "succeeded"
    BY <1>6 DEF Claim, ErasedInv, TypeOK
  <2>3. \A u \in Worker : \/ pc'[u] = pc[u] /\ job'[u] = job[u]
                          \/ pc'[u] = "claimed" /\ job'[u] = v
    BY <1>6 DEF Claim, ErasedInv, TypeOK, task
  <2>4. QED
    BY <1>1, <2>1, <2>2, <2>3 DEF ErasedInv, TasksHaveJobs, ErasedStaysErased
<1>7. ASSUME NEW w \in Worker, Erase(w)
      PROVE  ErasedInv'
  <2>1. job[w] \in Version
    BY <1>7 DEF Erase, ErasedInv, TasksHaveJobs
  <2>2. \A v \in Version : object'[v] = IF v = job[w] THEN "none" ELSE object[v]
    BY <1>7 DEF Erase, ErasedInv, TypeOK
  <2>3. /\ UNCHANGED <<cleanup, job, latePuts>>
        /\ \A u \in Worker : u # w => pc'[u] = pc[u]
    BY <1>7 DEF Erase, ErasedInv, TypeOK, queue, mishaps
  <2>4. TasksHaveJobs'
    BY <2>1, <2>3 DEF ErasedInv, TasksHaveJobs
  <2>5. ErasedStaysErased'
    BY <2>1, <2>2, <2>3 DEF ErasedInv, TasksHaveJobs, ErasedStaysErased
  <2>6. QED
    BY <1>1, <2>4, <2>5 DEF ErasedInv
<1>8. ASSUME NEW w \in Worker, EraseFails(w) \/ Succeed(w) \/ WorkerDies(w)
      PROVE  ErasedInv'
  <2>1. \A u \in Worker : \/ pc'[u] = pc[u] /\ job'[u] = job[u]
                          \/ pc'[u] = "idle"
    BY <1>8 DEF EraseFails, Succeed, WorkerDies, Leave, ErasedInv, TypeOK
  <2>2. \A v \in Version : object'[v] = object[v] \/ object'[v] = "none"
    <3>1. object' = object \/ object' = [object EXCEPT ![job[w]] = "none"]
      BY <1>8 DEF EraseFails, Succeed, WorkerDies
    <3>2. QED
      BY <3>1 DEF ErasedInv, TypeOK
  <2>3. \A v \in Version : cleanup'[v] = "succeeded" =>
          cleanup[v] = "succeeded" \/ (pc[w] = "erased" /\ v = job[w])
    <3>1. CASE EraseFails(w)
      BY <3>1 DEF EraseFails, AfterFailure, ErasedInv, TypeOK
    <3>2. CASE Succeed(w)
      BY <3>2 DEF Succeed, ErasedInv, TypeOK
    <3>3. CASE WorkerDies(w)
      BY <3>3 DEF WorkerDies, queue
    <3>4. QED
      BY <1>8, <3>1, <3>2, <3>3
  <2>4. latePuts' = latePuts
    BY <1>8 DEF EraseFails, Succeed, WorkerDies, mishaps
  <2>5. TasksHaveJobs'
    BY <2>1 DEF ErasedInv, TasksHaveJobs
  <2>6. ErasedStaysErased'
    BY <2>1, <2>2, <2>3, <2>4 DEF ErasedInv, TasksHaveJobs, ErasedStaysErased
  <2>7. QED
    BY <1>1, <2>5, <2>6 DEF ErasedInv
<1>9. QED
  BY <1>2, <1>3, <1>4, <1>5, <1>6, <1>7, <1>8 DEF Next, CleanupStep

\* A cleanup job that succeeded left no object behind, whatever faults and deaths
\* came before, unless a client PUT it after the deletion (cleanup).
THEOREM DoneIsErased == Spec => []DoneMeansErased
<1>1. Init => KeptInv /\ ErasedInv
  BY KeptInitial, ErasedInitial
<1>2. KeptInv /\ ErasedInv /\ [Next]_vars => (KeptInv /\ ErasedInv)'
  BY KeptStep, ErasedStep
<1>3. ErasedInv => DoneMeansErased
  BY DEF ErasedInv, ErasedStaysErased, DoneMeansErased
<1>4. QED
  BY <1>1, <1>2, <1>3, PTL DEF Spec
-----------------------------------------------------------------------------
(***************************************************************************)
(* KnowledgeDocuments, for any number of documents, requests and versions.  *)
(*                                                                         *)
(* Whoever is about to write a row holds it, alone, and has read it as it   *)
(* is (RowsHeld); who writes a row without having held it waits for those.  *)
(***************************************************************************)
DocumentRow ==
  [at : Place, key : Key, version : 1..VersionCap, content : 1..VersionCap]

EditableRow == {new \in DocumentRow : new.version < VersionCap}

Request ==
  {Idle} \cup [at : {"creating"}, doc : Document, key : Key]
         \cup [at : {"patching"}, doc : Document, key : Key, content : BOOLEAN,
               base : EditableRow]
         \cup [at : {"restoring"}, doc : Document, current : Nat]
         \cup [at : {"moving"}, doc : Document, to : Place]
         \cup [at : {"deleting"}, doc : Document]

RowsTyped ==
  /\ documents \in [Document -> {Absent, Deleted} \cup DocumentRow]
  /\ \A d \in Document : Live(d) => documents[d].content <= documents[d].version
  /\ tx \in [Tx -> Request]

Holds(t) == tx[t].at \in {"patching", "deleting"}

\* Whoever holds a row has read it as it is, and holds it alone; an id that is
\* being created is not used.
RowsHeld ==
  /\ \A t \in Tx : Holds(t) => Live(tx[t].doc)
  /\ \A t, u \in Tx : Holds(t) /\ Holds(u) /\ t # u => tx[t].doc # tx[u].doc
  /\ \A t \in Tx : tx[t].at = "creating" =>
       /\ documents[tx[t].doc] = Absent
       /\ \A u \in Tx : tx[u].at = "creating" /\ t # u => tx[t].doc # tx[u].doc

EditsInv == RowsTyped /\ RowsHeld /\ EditsReplaceWhatTheyRead

\* Where a document is tells the shape of its row.
LEMMA RowShape ==
  ASSUME RowsTyped, NEW d \in Document
  PROVE  /\ Live(d) <=> documents[d] \in DocumentRow
         /\ documents[d] = Absent <=> documents[d].at = "absent"
  BY DEF RowsTyped, Live, Place, DocumentRow, Absent, Deleted

LEMMA RequestShape ==
  ASSUME RowsTyped, NEW t \in Tx
  PROVE  /\ tx[t] = Idle <=> tx[t].at = "idle"
         /\ tx[t].at = "creating" =>
              tx[t] \in [at : {"creating"}, doc : Document, key : Key]
         /\ tx[t].at = "patching" =>
              tx[t] \in [at : {"patching"}, doc : Document, key : Key,
                         content : BOOLEAN, base : EditableRow]
         /\ tx[t].at = "restoring" =>
              tx[t] \in [at : {"restoring"}, doc : Document, current : Nat]
         /\ tx[t].at = "moving" =>
              tx[t] \in [at : {"moving"}, doc : Document, to : Place]
         /\ tx[t].at = "deleting" => tx[t] \in [at : {"deleting"}, doc : Document]
         /\ tx[t].at \in {"idle", "creating", "patching", "restoring", "moving",
                          "deleting"}
<1>1. tx[t] \in Request
  BY DEF RowsTyped
<1>2. QED
  BY <1>1 DEF Request, Idle

LEMMA EditsInitial == DocumentsInit => EditsInv
<1> SUFFICES ASSUME DocumentsInit PROVE EditsInv
  OBVIOUS
<1>1. /\ documents = [d \in Document |-> Absent]
      /\ tx = [t \in Tx |-> Idle]
  BY DEF DocumentsInit
<1>2. RowsTyped
  BY <1>1 DEF RowsTyped, Request, Live, Place, Absent
<1>3. QED
  BY <1>1, <1>2 DEF EditsInv, RowsHeld, Holds, EditsReplaceWhatTheyRead, Idle

\* A request that changes nothing but what it has read
LEMMA RequestStep ==
  ASSUME EditsInv, NEW t \in Tx, NEW record \in Request,
         Sets(t, record), UNCHANGED documents,
         record.at \in {"patching", "deleting"} =>
           Live(record.doc) /\ Free(t, {record.doc}, {documents[record.doc].at}),
         record.at = "patching" => documents[record.doc] = record.base,
         record.at = "creating" =>
           /\ documents[record.doc] = Absent
           /\ \A u \in Tx : tx[u].at = "creating" => tx[u].doc # record.doc
  PROVE  EditsInv'
<1>1. \A u \in Tx : tx'[u] = IF u = t THEN record ELSE tx[u]
  BY DEF Sets, EditsInv, RowsTyped
<1>2. RowsTyped'
  BY <1>1 DEF EditsInv, RowsTyped, Sets, Live
<1>3. RowsHeld'
  <2>1. \A u \in Tx : Holds(u)' => documents'[tx'[u].doc].at \in Place
    BY <1>1 DEF EditsInv, RowsHeld, Holds, Live
  <2>2. \A u \in Tx \ {t} : Holds(u)' /\ Holds(t)' => tx'[u].doc # tx'[t].doc
    BY <1>1 DEF Free, Holds
  <2>3. \A u, w \in Tx : Holds(u)' /\ Holds(w)' /\ u # w => tx'[u].doc # tx'[w].doc
    BY <1>1, <2>2 DEF EditsInv, RowsHeld, Holds
  <2>4. \A u \in Tx : tx'[u].at = "creating" =>
          /\ documents'[tx'[u].doc] = Absent
          /\ \A w \in Tx : tx'[w].at = "creating" /\ u # w => tx'[u].doc # tx'[w].doc
    BY <1>1 DEF EditsInv, RowsHeld
  <2>5. QED
    BY <2>1, <2>3, <2>4 DEF RowsHeld, Live
<1>4. EditsReplaceWhatTheyRead'
  BY <1>1 DEF EditsInv, EditsReplaceWhatTheyRead
<1>5. QED
  BY <1>2, <1>3, <1>4 DEF EditsInv

\* A request that writes the row of one document and is over: nobody else holds
\* the row, and it stays a row unless it is deleted.
LEMMA RowStep ==
  ASSUME EditsInv, NEW t \in Tx, Sets(t, Idle), NEW d \in Document,
         NEW new \in {Deleted} \cup DocumentRow, documents' = [documents EXCEPT ![d] = new],
         new \in DocumentRow => new.content <= new.version,
         \A u \in Tx \ {t} : Holds(u) => tx[u].doc # d,
         documents[d] = Absent => tx[t].at = "creating" /\ tx[t].doc = d
  PROVE  EditsInv'
<1>1. \A u \in Tx : tx'[u] = IF u = t THEN Idle ELSE tx[u]
  BY DEF Sets, EditsInv, RowsTyped
<1>2. \A e \in Document : documents'[e] = IF e = d THEN new ELSE documents[e]
  BY DEF EditsInv, RowsTyped
<1>3. RowsTyped'
  <2>1. tx' \in [Tx -> Request]
    BY DEF Sets, EditsInv, RowsTyped, Request
  <2>2. documents' \in [Document -> {Absent, Deleted} \cup DocumentRow]
    BY DEF EditsInv, RowsTyped
  <2>3. \A e \in Document : Live(e)' => documents'[e].content <= documents'[e].version
    BY <1>2 DEF EditsInv, RowsTyped, Live, Place, Deleted
  <2>4. QED
    BY <2>1, <2>2, <2>3 DEF RowsTyped
<1>4. Idle.at = "idle"
  BY DEF Idle
<1>5. \A u \in Tx : Holds(u)' =>
        /\ u # t /\ Holds(u) /\ tx'[u] = tx[u]
        /\ documents'[tx'[u].doc] = documents[tx[u].doc]
  <2> SUFFICES ASSUME NEW u \in Tx, Holds(u)'
               PROVE  /\ u # t /\ Holds(u) /\ tx'[u] = tx[u]
                      /\ documents'[tx'[u].doc] = documents[tx[u].doc]
    OBVIOUS
  <2>1. u # t /\ Holds(u) /\ tx'[u] = tx[u]
    BY <1>1, <1>4 DEF Holds
  <2>2. tx[u].doc \in Document
    BY <2>1, RequestShape DEF EditsInv, Holds
  <2>3. QED
    BY <1>2, <2>1, <2>2
<1>6. \A u \in Tx : tx'[u].at = "creating" =>
        /\ u # t /\ tx'[u] = tx[u]
        /\ documents'[tx'[u].doc] = documents[tx[u].doc]
  <2> SUFFICES ASSUME NEW u \in Tx, tx'[u].at = "creating"
               PROVE  /\ u # t /\ tx'[u] = tx[u]
                      /\ documents'[tx'[u].doc] = documents[tx[u].doc]
    OBVIOUS
  <2>1. u # t /\ tx'[u] = tx[u]
    BY <1>1, <1>4
  <2>2. tx[u].doc \in Document /\ documents[tx[u].doc] = Absent
    BY <2>1, RequestShape DEF EditsInv, RowsHeld
  <2>3. tx[u].doc # d
    BY <2>1, <2>2 DEF EditsInv, RowsHeld
  <2>4. QED
    BY <1>2, <2>1, <2>2, <2>3
<1>7. RowsHeld'
  <2>1. \A u \in Tx : Holds(u)' => documents'[tx'[u].doc].at \in Place
    BY <1>5 DEF EditsInv, RowsHeld, Live
  <2>2. \A u, w \in Tx : Holds(u)' /\ Holds(w)' /\ u # w => tx'[u].doc # tx'[w].doc
    BY <1>5 DEF EditsInv, RowsHeld
  <2>3. \A u \in Tx : tx'[u].at = "creating" =>
          /\ documents'[tx'[u].doc] = Absent
          /\ \A w \in Tx : tx'[w].at = "creating" /\ u # w => tx'[u].doc # tx'[w].doc
    BY <1>6 DEF EditsInv, RowsHeld
  <2>4. QED
    BY <2>1, <2>2, <2>3 DEF RowsHeld, Live
<1>8. EditsReplaceWhatTheyRead'
  <2> SUFFICES ASSUME NEW u \in Tx, tx'[u].at = "patching"
               PROVE  documents'[tx'[u].doc] = tx'[u].base
    BY DEF EditsReplaceWhatTheyRead
  <2>1. QED
    BY <1>5 DEF EditsInv, EditsReplaceWhatTheyRead, Holds
<1>9. QED
  BY <1>3, <1>7, <1>8 DEF EditsInv
\* A request whose reading is over changes nothing of what the others rely on.
LEMMA EditsStep ==
  ASSUME EditsInv, [DocumentsNext]_documentsVars
  PROVE  EditsInv'
<1>1. \A d \in Document : documents[d] \in DocumentRow <=> Live(d)
  BY RowShape DEF EditsInv
<1>2. CASE UNCHANGED <<documents, tx>>
  BY <1>2 DEF EditsInv, RowsTyped, RowsHeld, Holds, Live, EditsReplaceWhatTheyRead
<1>3. ASSUME NEW t \in Tx, NEW d \in Document, NEW key \in Key, CreateNote(t, d, key)
      PROVE  EditsInv'
  <2> DEFINE record == [at |-> "creating", doc |-> d, key |-> key]
  <2>1. record \in Request
    BY DEF Request
  <2>2. QED
    BY <1>3, <2>1, RequestStep DEF CreateNote
<1>4. ASSUME NEW t \in Tx, NEW d \in Document, NEW key \in Key, NEW content \in BOOLEAN,
             Live(d), Patching(t, d, key, content)
      PROVE  EditsInv'
  <2> DEFINE record == [at |-> "patching", doc |-> d, key |-> key, content |-> content,
                        base |-> documents[d]]
  <2>1. record \in Request
    BY <1>1, <1>4 DEF Request, EditableRow, Patching
  <2>2. QED
    BY <1>4, <2>1, RequestStep DEF Patching
<1>5. ASSUME NEW t \in Tx, NEW d \in Document, RestoreVersion(t, d)
      PROVE  EditsInv'
  <2> DEFINE record == [at |-> "restoring", doc |-> d, current |-> documents[d].content]
  <2>1. documents[d].content \in Nat
    BY <1>1, <1>5 DEF RestoreVersion, DocumentRow
  <2>2. record \in Request
    BY <2>1 DEF Request
  <2>3. QED
    BY <1>5, <2>2, RequestStep DEF RestoreVersion
<1>6. ASSUME NEW t \in Tx, NEW d \in Document, MoveDocument(t, d)
      PROVE  EditsInv'
  <2> DEFINE other == CHOOSE p \in Place : p # documents[d].at
             record == [at |-> "moving", doc |-> d, to |-> other]
  <2>1. other \in Place
    <3>1. \E p \in Place : p # documents[d].at
      BY DEF Place
    <3>2. QED
      BY <3>1
  <2> HIDE DEF other
  <2>2. record \in Request
    BY <2>1 DEF Request
  <2>3. Sets(t, record) /\ UNCHANGED documents
    BY <1>6 DEF MoveDocument, other
  <2>4. QED
    BY <2>2, <2>3, RequestStep
<1>7. ASSUME NEW t \in Tx, NEW d \in Document, DeleteDocument(t, d)
      PROVE  EditsInv'
  <2> DEFINE record == [at |-> "deleting", doc |-> d]
  <2>1. record \in Request
    BY DEF Request
  <2>2. QED
    BY <1>7, <2>1, RequestStep DEF DeleteDocument
<1>8. ASSUME NEW t \in Tx, Abort(t)
      PROVE  EditsInv'
  <2>1. Idle \in Request /\ Idle.at = "idle"
    BY DEF Request, Idle
  <2>2. QED
    BY <1>8, <2>1, RequestStep DEF Abort
<1>9. ASSUME NEW t \in Tx, PatchRestored(t)
      PROVE  EditsInv'
  <2>1. tx[t].doc \in Document /\ Live(tx[t].doc)
    BY <1>9, RequestShape DEF PatchRestored, EditsInv
  <2>2. documents[tx[t].doc].key \in Key
    BY <1>1, <2>1 DEF DocumentRow
  <2>3. QED
    BY <1>4, <1>9, <2>1, <2>2 DEF PatchRestored
<1>10. ASSUME NEW t \in Tx, CommitCreated(t)
       PROVE  EditsInv'
  <2> DEFINE new == [at |-> "here", key |-> tx[t].key, version |-> 1, content |-> 1]
  <2>1. tx[t] \in [at : {"creating"}, doc : Document, key : Key]
    BY <1>10, RequestShape DEF CommitCreated, EditsInv
  <2>2. new \in DocumentRow /\ new.content <= new.version
    BY <2>1, DocumentAssumption DEF DocumentRow, Place
  <2>3. documents[tx[t].doc] = Absent
    BY <2>1 DEF EditsInv, RowsHeld
  <2>4. ~ Live(tx[t].doc)
    BY <2>3 DEF Live, Place, Absent
  <2>5. \A u \in Tx \ {t} : Holds(u) => tx[u].doc # tx[t].doc
    BY <2>4 DEF EditsInv, RowsHeld
  <2>6. documents' = [documents EXCEPT ![tx[t].doc] = new] /\ Sets(t, Idle)
    BY <1>10 DEF CommitCreated, Writes
  <2>7. tx[t].doc \in Document /\ tx[t].at = "creating"
    BY <2>1
  <2> HIDE DEF new
  <2>8. QED
    BY <2>2, <2>5, <2>6, <2>7, RowStep
<1>11. ASSUME NEW t \in Tx, CommitPatched(t)
       PROVE  EditsInv'
  <2> DEFINE d == tx[t].doc
             old == documents[d]
             new == [old EXCEPT !.key = tx[t].key, !.version = @ + 1,
                       !.content = IF tx[t].content THEN tx[t].base.content + 1 ELSE @]
  <2>1. /\ d \in Document /\ tx[t].key \in Key
        /\ tx[t].content \in BOOLEAN
    BY <1>11, RequestShape DEF CommitPatched, EditsInv
  <2>2. old \in DocumentRow /\ old.content <= old.version /\ tx[t].base = old
    BY <1>1, <1>11, <2>1
       DEF CommitPatched, EditsInv, RowsTyped, RowsHeld, Holds, EditsReplaceWhatTheyRead
  <2>3. old.version < VersionCap
    BY <1>11, <2>2, RequestShape DEF CommitPatched, EditsInv, EditableRow
  <2>4. new \in DocumentRow /\ new.content <= new.version
    <3> HIDE DEF old
    <3>1. old.version + 1 \in 1..VersionCap /\ old.content + 1 \in 1..VersionCap
      BY <2>2, <2>3, DocumentAssumption DEF DocumentRow
    <3>2. old \in [at : Place, key : Key, version : Nat, content : Nat]
      BY <2>2, DocumentAssumption DEF DocumentRow
    <3> DEFINE content == IF tx[t].content THEN old.content + 1 ELSE old.content
    <3>3. content \in 1..VersionCap /\ content <= old.version + 1
      BY <2>1, <2>2, <3>1, <3>2 DEF DocumentRow
    <3>4. new = [[[old EXCEPT !.key = tx[t].key] EXCEPT !.version = old.version + 1]
                   EXCEPT !.content = content]
      BY <2>2, <3>2
    <3> HIDE DEF new, content
    <3>5. /\ new \in [at : Place, key : Key, version : 1..VersionCap, content : 1..VersionCap]
          /\ new.version = old.version + 1 /\ new.content = content
      BY <2>1, <2>2, <3>1, <3>3, <3>4 DEF DocumentRow
    <3>6. QED
      BY <3>2, <3>3, <3>5 DEF DocumentRow
  <2>5. documents' = [documents EXCEPT ![d] = new] /\ Sets(t, Idle)
    BY <1>11 DEF CommitPatched, Writes
  <2>6. \A u \in Tx \ {t} : Holds(u) => tx[u].doc # d
    BY <1>11 DEF CommitPatched, EditsInv, RowsHeld, Holds
  <2>7. documents[d] # Absent
    BY <2>2 DEF DocumentRow, Absent, Place
  <2> HIDE DEF new, d
  <2>8. QED
    BY <2>1, <2>4, <2>5, <2>6, <2>7, RowStep
<1>12. ASSUME NEW t \in Tx, CommitMoved(t)
       PROVE  EditsInv'
  <2> DEFINE d == tx[t].doc
             new == [documents[d] EXCEPT !.at = tx[t].to, !.version = @ + 1]
  <2>1. d \in Document /\ tx[t].to \in Place
    BY <1>12, RequestShape DEF CommitMoved, EditsInv
  <2>2. CASE Live(d)
    <3>1. /\ documents[d] \in DocumentRow /\ documents[d].version < VersionCap
          /\ documents[d].content <= documents[d].version
      BY <1>1, <1>12, <2>1, <2>2 DEF CommitMoved, EditsInv, RowsTyped
    <3>2. new \in DocumentRow /\ new.content <= new.version
      <4>1. documents[d].version + 1 \in 1..VersionCap
        BY <3>1, DocumentAssumption DEF DocumentRow
      <4>2. new = [[documents[d] EXCEPT !.at = tx[t].to]
                     EXCEPT !.version = documents[d].version + 1]
        BY <3>1 DEF DocumentRow
      <4> HIDE DEF new, d
      <4>3. /\ new \in [at : Place, key : Key, version : 1..VersionCap, content : 1..VersionCap]
            /\ new.version = documents[d].version + 1 /\ new.content = documents[d].content
        BY <2>1, <3>1, <4>1, <4>2 DEF DocumentRow
      <4>4. QED
        BY <3>1, <4>3, DocumentAssumption DEF DocumentRow
    <3>3. documents' = [documents EXCEPT ![d] = new] /\ Sets(t, Idle)
      BY <1>12, <2>2 DEF CommitMoved, Writes
    <3>4. \A u \in Tx \ {t} : Holds(u) => tx[u].doc # d
      BY <1>12 DEF CommitMoved, Free, Holds
    <3>5. documents[d] # Absent
      BY <3>1 DEF DocumentRow, Absent, Place
    <3> HIDE DEF new, d
    <3>6. QED
      BY <2>1, <3>2, <3>3, <3>4, <3>5, RowStep
  <2>3. CASE ~ Live(d)
    <3>1. Idle \in Request /\ Idle.at = "idle"
      BY DEF Request, Idle
    <3>2. Sets(t, Idle) /\ UNCHANGED documents
      BY <1>12, <2>3 DEF CommitMoved, Writes
    <3>3. QED
      BY <3>1, <3>2, RequestStep
  <2>4. QED
    BY <2>2, <2>3
<1>13. ASSUME NEW t \in Tx, CommitDeleted(t)
       PROVE  EditsInv'
  <2>1. tx[t].doc \in Document /\ tx[t].at = "deleting"
    BY <1>13, RequestShape DEF CommitDeleted, EditsInv
  <2>2. documents' = [documents EXCEPT ![tx[t].doc] = Deleted] /\ Sets(t, Idle)
    BY <1>13 DEF CommitDeleted, Writes
  <2>3. Live(tx[t].doc) /\ \A u \in Tx \ {t} : Holds(u) => tx[u].doc # tx[t].doc
    BY <2>1 DEF EditsInv, RowsHeld, Holds
  <2>4. documents[tx[t].doc] # Absent
    BY <2>3 DEF Live, Absent, Place
  <2>5. Deleted \notin DocumentRow
    BY DEF Deleted, DocumentRow, Place
  <2>6. QED
    BY <2>1, <2>2, <2>3, <2>4, <2>5, RowStep
<1>14. CASE DocumentsNext
  <2>1. CASE \/ \E on \in BOOLEAN : Freeze(on)
             \/ \E kind \in Kinds : StartListing(kind)
             \/ ReadPage \/ Continue \/ LeaveListing
    BY <1>2, <2>1 DEF Freeze, StartListing, ReadPage, Continue, LeaveListing
  <2>2. ASSUME NEW t \in Tx, NEW d \in Document, NEW key \in Key, NEW content \in BOOLEAN,
               PatchDocument(t, d, key, content)
        PROVE  EditsInv'
    BY <1>4, <2>2 DEF PatchDocument
  <2>3. QED
    BY <1>3, <1>5, <1>6, <1>7, <1>8, <1>9, <1>10, <1>11, <1>12, <1>13, <1>14, <2>1, <2>2
       DEF DocumentsNext
<1>15. QED
  BY <1>2, <1>14 DEF documentsVars

\* An edit that is about to be committed replaces exactly the row its transaction
\* read, for any number of requests and documents (patch_document,
\* restore_version).
THEOREM EditsAreCurrent == DocumentsSpec => []EditsReplaceWhatTheyRead
<1>1. EditsInv => EditsReplaceWhatTheyRead
  BY DEF EditsInv
<1>2. QED
  BY <1>1, EditsInitial, EditsStep, PTL DEF DocumentsSpec
-----------------------------------------------------------------------------
Less == {pair \in Nat \X Nat : pair[1] < pair[2]}

\* The natural numbers are well ordered.
LEMMA LeastNumber ==
  ASSUME NEW S \in SUBSET Nat, S # {}
  PROVE  \E n \in S : \A m \in S : n <= m
<1>1. IsWellFoundedOn(Less, Nat)
  BY NatLessThanWellFounded DEF OpToRel, Less
<1>2. PICK n \in S : \A m \in S : ~ (<<m, n>> \in Less)
  BY <1>1, WFMin
<1>3. \A m \in S : ~ (m < n)
  BY <1>2 DEF Less
<1>4. QED
  BY <1>3

\* Of a set in a strict order, those with fewer than n before them are those up to
\* some element.
LEMMA FirstOnes ==
  ASSUME NEW R, IsFiniteSet(R), R # {}, NEW less \in SUBSET (R \X R),
         \A i \in R : <<i, i>> \notin less,
         \A i, j, k \in R : <<i, j>> \in less /\ <<j, k>> \in less => <<i, k>> \in less,
         \A i, j \in R : i # j => <<i, j>> \in less \/ <<j, i>> \in less,
         NEW n \in Nat \ {0}
  PROVE  \E m \in R : \A i \in R :
           Cardinality({j \in R : <<j, i>> \in less}) < n <=> <<m, i>> \notin less
<1> DEFINE P == {i \in R : Cardinality({j \in R : <<j, i>> \in less}) < n}
           below(i) == {j \in R : <<j, i>> \in less}
           c == [i \in R |-> Cardinality(below(i))]
<1>1. \A i \in R : IsFiniteSet(below(i)) /\ c[i] \in Nat
  BY FS_Subset, FS_CardinalityType
<1>2. \A i, j \in R : <<i, j>> \in less => c[i] < c[j]
  <2> SUFFICES ASSUME NEW i \in R, NEW j \in R, <<i, j>> \in less
               PROVE  c[i] < c[j]
    OBVIOUS
  <2>1. below(i) \subseteq below(j) /\ i \in below(j) /\ i \notin below(i)
    OBVIOUS
  <2>2. c[i] <= c[j] /\ (c[i] = c[j] => below(i) = below(j))
    BY <1>1, <2>1, FS_Subset
  <2> HIDE DEF below
  <2>3. QED
    BY <1>1, <2>1, <2>2
<1>3. P = {i \in R : c[i] < n}
  OBVIOUS
<1>4. \A i \in R : c[i] # 0 => \E j \in R : <<j, i>> \in less
  BY FS_EmptySet
<1>5. \A i \in R : c[i] \in Nat
  BY <1>1
<1> HIDE DEF c, P
<1>6. PICK i0 \in R : c[i0] = 0
  <2> DEFINE S == {k \in Nat : \E i \in R : k = c[i]}
  <2>1. S # {}
    BY <1>5
  <2>2. PICK k \in S : \A l \in S : k <= l
    BY <2>1, LeastNumber
  <2>3. PICK i \in R : k = c[i]
    OBVIOUS
  <2>4. \A j \in R : ~ (c[j] < c[i])
    BY <1>5, <2>2, <2>3
  <2>5. QED
    BY ZenonT(60), <1>2, <1>4, <2>4
<1>7. i0 \in P
  BY <1>3, <1>6
<1>8. PICK m \in P : \A i \in P : ~ (c[m] < c[i])
  <2> DEFINE S == {k \in Nat : \E i \in P : k + c[i] = n}
  <2>1. \A i \in P : i \in R /\ c[i] \in Nat /\ c[i] < n
    BY <1>3, <1>5
  <2>2. S # {}
    <3>1. n \in S
      BY <1>6, <1>7
    <3>2. QED
      BY <3>1
  <2>3. PICK k \in S : \A l \in S : k <= l
    BY <2>2, LeastNumber
  <2>4. PICK m \in P : k + c[m] = n
    OBVIOUS
  <2>5. ASSUME NEW i \in P PROVE ~ (c[m] < c[i])
    <3>1. n - c[i] \in Nat /\ (n - c[i]) + c[i] = n
      BY <2>1
    <3>2. n - c[i] \in S
      BY <3>1
    <3>3. k <= n - c[i]
      BY <2>3, <3>2
    <3>4. QED
      BY <2>1, <2>4, <3>1, <3>3
  <2>6. QED
    BY <2>5
<1>9. m \in R /\ c[m] < n
  BY <1>3
<1>10. \A i \in P : i \in R /\ <<m, i>> \notin less
  BY <1>2, <1>3, <1>8, <1>9
<1>11. ASSUME NEW i \in R, <<m, i>> \notin less
       PROVE  i \in P
  <2>1. CASE i = m
    BY <2>1
  <2>2. CASE i # m
    <3>1. <<i, m>> \in less
      BY <1>9, <1>11, <2>2
    <3>2. c[i] < c[m]
      BY <1>2, <1>9, <3>1
    <3>3. c[i] < n
      BY <1>5, <1>9, <3>2
    <3>4. QED
      BY <1>3, <3>3
  <2>3. QED
    BY <2>1, <2>2
<1>12. \A i \in R : i \in P <=> <<m, i>> \notin less
  BY <1>10, <1>11
<1>13. QED
  BY <1>9, <1>12 DEF P
-----------------------------------------------------------------------------
(* The listing.  An item that stays was shown as often as the cursor tells, *)
(* once if it does not lie beyond it and not yet otherwise, or a cursor up  *)
(* to now leapt over it.  Documents are sorted by key and id alone; with    *)
(* folders, which sort first, this fails.                                   *)

Cursor == [key : Nat, id : Document, row : Nat]

Listing ==
  [at : {"read", "cursor", "finished"}, kind : {"note"}, fresh : BOOLEAN,
   last : SUBSET Cursor, shown : [Item -> 0..2], stays : SUBSET Document,
   cuts : SUBSET Cursor]

\* It stays where it is.
Stays(i) == documents[i].at = "here"

\* n, how often a page showed the document i of this key before the cursor l
Shown(n, key, i, l, cuts) ==
  /\ ~Beyond(key, i, l) /\ n = 0 => SkippedBy(key, i, cuts \cup {l})
  /\ Beyond(key, i, l) /\ n > 0 => RepeatedBy(key, i, cuts \cup {l})
  /\ n = 2 => RepeatedBy(key, i, cuts \cup {l})

ShownOnce ==
  /\ reader \in {Idle} \cup Listing
  /\ reader.at = "read" /\ reader.last = {} =>
       reader.stays = {} /\ \A i \in Item : reader.shown[i] = 0
  /\ reader.at = "cursor" => reader.last # {}
  /\ reader.at \in {"read", "cursor"} /\ reader.last # {} =>
       \E l \in Cursor :
         /\ reader.last = {l}
         /\ \A i \in reader.stays :
              Stays(i) /\ Shown(reader.shown[i], documents[i].key, i, l, reader.cuts)
  /\ reader.at = "finished" =>
       \A i \in reader.stays :
         /\ Stays(i)
         /\ reader.shown[i] = 0 => SkippedBy(documents[i].key, i, reader.cuts)
         /\ reader.shown[i] = 2 => RepeatedBy(documents[i].key, i, reader.cuts)

ListingInv == EditsInv /\ ShownOnce

\* Its documents, whose keys are numbers.
LEMMA ContentShape ==
  ASSUME RowsTyped
  PROVE  /\ Content("note") = {d \in Document : documents[d].at = "here"}
         /\ \A i \in Content("note") :
              /\ i \in Document /\ i \in Nat /\ i \notin Subfolder
              /\ KeyOf(i) = documents[i].key /\ documents[i].key \in Nat
<1>1. Content("note") = {d \in Document : documents[d].at = "here"}
  BY DEF Content
<1>2. ASSUME NEW i \in Content("note")
      PROVE  /\ i \in Document /\ i \in Nat /\ i \notin Subfolder
             /\ KeyOf(i) = documents[i].key /\ documents[i].key \in Nat
  <2>1. i \in Document /\ Live(i)
    BY <1>1 DEF Live, Place
  <2>2. documents[i] \in DocumentRow
    BY <2>1, RowShape
  <2>3. QED
    BY <2>1, <2>2, DocumentAssumption DEF DocumentRow, KeyOf
<1>3. QED
  BY <1>1, <1>2

\* The page a reader is shown ends with the document the cursor names: what is
\* left lies beyond it.
LEMMA PageEnds ==
  ASSUME RowsTyped, reader \in Listing, Remaining # {}
  PROVE  \E m \in Page :
           /\ Page \subseteq Remaining
           /\ m \in Document /\ documents[m].key \in Nat
           /\ {j \in Page : \A k \in Page : ~Before(j, k)} = {m}
           /\ \A i \in Remaining :
                i \in Page <=> ~Beyond(documents[i].key, i, [key |-> documents[m].key, id |-> m])
<1> DEFINE less == {pair \in Remaining \X Remaining : Before(pair[1], pair[2])}
<1>1. /\ Remaining \subseteq Content("note")
      /\ reader.kind = "note"
  BY DEF Listing, Remaining
<1>2. \A i \in Remaining : /\ i \in Document /\ i \in Nat /\ i \notin Subfolder
                           /\ KeyOf(i) = documents[i].key /\ documents[i].key \in Nat
  BY <1>1, ContentShape
<1>3. \A i, j \in Remaining :
        Before(i, j) <=> \/ documents[i].key < documents[j].key
                         \/ documents[i].key = documents[j].key /\ i < j
  BY <1>2 DEF Before
<1>4. \A i, j \in Remaining : <<i, j>> \in less <=> Before(i, j)
  OBVIOUS
<1>5. /\ \A i \in Remaining : ~ Before(i, i)
      /\ \A i, j, k \in Remaining : Before(i, j) /\ Before(j, k) => Before(i, k)
      /\ \A i, j \in Remaining : i # j => Before(i, j) \/ Before(j, i)
  <2>1. \A i \in Remaining : ~ Before(i, i)
    BY <1>2, <1>3
  <2>2. ASSUME NEW i \in Remaining, NEW j \in Remaining, NEW k \in Remaining,
               Before(i, j), Before(j, k)
        PROVE  Before(i, k)
    BY <1>2, <1>3, <2>2
  <2>3. ASSUME NEW i \in Remaining, NEW j \in Remaining, i # j
        PROVE  Before(i, j) \/ Before(j, i)
    BY <1>2, <1>3, <2>3
  <2>4. QED
    BY <2>1, <2>2, <2>3
<1>6. IsFiniteSet(Remaining)
  <2>1. Remaining \subseteq Document
    BY <1>2
  <2>2. QED
    BY <2>1, FS_Subset, DocumentAssumption
<1>7. Page = {i \in Remaining : Cardinality({j \in Remaining : <<j, i>> \in less}) < Limit}
  <2>1. \A i \in Remaining :
          {j \in Remaining : <<j, i>> \in less} = {j \in Remaining : Before(j, i)}
    BY <1>4
  <2>2. QED
    BY <2>1 DEF Page
<1>8. less \in SUBSET (Remaining \X Remaining)
  OBVIOUS
<1> HIDE DEF less
<1>9. PICK m \in Remaining : \A i \in Remaining :
        Cardinality({j \in Remaining : <<j, i>> \in less}) < Limit <=> <<m, i>> \notin less
  <2>1. /\ \A i \in Remaining : <<i, i>> \notin less
        /\ \A i, j, k \in Remaining : <<i, j>> \in less /\ <<j, k>> \in less => <<i, k>> \in less
        /\ \A i, j \in Remaining : i # j => <<i, j>> \in less \/ <<j, i>> \in less
    BY <1>4, <1>5
  <2>2. Limit \in Nat \ {0}
    BY DocumentAssumption
  <2>3. QED
    BY <1>6, <1>8, <2>1, <2>2, FirstOnes
<1>10. Page \subseteq Remaining /\ m \in Page
  BY <1>5, <1>4, <1>7, <1>9
<1>11. \A i \in Remaining : i \in Page <=> ~ Before(m, i)
  BY <1>4, <1>7, <1>9
<1>12. {j \in Page : \A k \in Page : ~Before(j, k)} = {m}
  <2>1. m \in {j \in Page : \A k \in Page : ~Before(j, k)}
    BY <1>10, <1>11
  <2>2. ASSUME NEW j \in Page, \A k \in Page : ~Before(j, k)
        PROVE  j = m
    <3>1. ~Before(j, m) /\ ~Before(m, j)
      BY <1>10, <1>11, <2>2
    <3>2. QED
      BY <1>5, <1>10, <3>1
  <2>3. QED
    BY <2>1, <2>2
<1>13. \A i \in Remaining :
         Before(m, i) <=> Beyond(documents[i].key, i, [key |-> documents[m].key, id |-> m])
  BY <1>2, <1>3, <1>10 DEF Beyond
<1>14. m \in Document /\ documents[m].key \in Nat
  BY <1>2, <1>10
<1>15. QED
  BY <1>10, <1>11, <1>12, <1>13, <1>14

\* What is left beyond the cursor.
LEMMA WhatRemains ==
  ASSUME RowsTyped, reader \in Listing
  PROVE  /\ reader.last = {} => Remaining = Content("note")
         /\ \A l : reader.last = {l} =>
              Remaining = {i \in Content("note") : Beyond(documents[i].key, i, l)}
<1>1. reader.kind = "note"
  BY DEF Listing
<1>2. \A i \in Content("note") : KeyOf(i) = documents[i].key
  BY ContentShape
<1>3. QED
  BY <1>1, <1>2 DEF Remaining

\* A page is read from one cursor to the next: o names the place it starts at,
\* e the last row it shows, l the place the next one starts at.
LEMMA PageShows ==
  ASSUME NEW n \in 0..2, NEW key \in Nat, NEW i \in Document, NEW cuts,
         NEW o \in Cursor, NEW l \in Cursor, NEW page \in BOOLEAN,
         Beyond(EndOf(l).key, l.id, o),
         page <=> Beyond(key, i, o) /\ ~Beyond(key, i, EndOf(l)),
         Shown(n, key, i, o, cuts)
  PROVE  Shown(IF page /\ n < 2 THEN n + 1 ELSE n, key, i, l, cuts \cup {o})
<1> DEFINE m == IF page /\ n < 2 THEN n + 1 ELSE n
           used == cuts \cup {o} \cup {l}
<1>1. /\ i \in Nat /\ l.id \in Nat /\ o.id \in Nat
      /\ l.key \in Nat /\ o.key \in Nat /\ l.row \in Nat
      /\ EndOf(l).key = l.row /\ EndOf(l).id = l.id
  BY DocumentAssumption DEF Cursor, EndOf
<1>2. /\ SkippedBy(key, i, cuts \cup {o}) => SkippedBy(key, i, used)
      /\ RepeatedBy(key, i, cuts \cup {o}) => RepeatedBy(key, i, used)
  BY DEF SkippedBy, RepeatedBy
<1>3. Beyond(key, i, EndOf(l)) /\ ~Beyond(key, i, l) => SkippedBy(key, i, used)
  BY DEF SkippedBy
<1>4. ~Beyond(key, i, EndOf(l)) /\ Beyond(key, i, l) => RepeatedBy(key, i, used)
  BY DEF RepeatedBy
<1>5. ~Beyond(key, i, o) => ~Beyond(key, i, EndOf(l))
  BY <1>1 DEF Beyond
<1>6. /\ m = 0 => n = 0 /\ ~page
      /\ m = 2 => n = 2 \/ (page /\ n > 0)
      /\ m > 0 => n > 0 \/ page
  OBVIOUS
<1> HIDE DEF m
<1>7. ~Beyond(key, i, l) /\ m = 0 => SkippedBy(key, i, used)
  BY <1>2, <1>3, <1>6 DEF Shown
<1>8. Beyond(key, i, l) /\ m > 0 => RepeatedBy(key, i, used)
  BY <1>2, <1>4, <1>5, <1>6 DEF Shown
<1>9. m = 2 => RepeatedBy(key, i, used)
  BY <1>2, <1>6 DEF Shown
<1>10. QED
  BY <1>7, <1>8, <1>9 DEF Shown, m

\* The first page.
LEMMA FirstShows ==
  ASSUME NEW key, NEW i, NEW cuts, NEW l, NEW page \in BOOLEAN,
         page <=> ~Beyond(key, i, EndOf(l))
  PROVE  Shown(IF page THEN 1 ELSE 0, key, i, l, cuts)
BY DEF Shown, SkippedBy, RepeatedBy

\* A page is read.
LEMMA ReadPageStep ==
  ASSUME ListingInv, ReadPage
  PROVE  ShownOnce'
<1> DEFINE last == {[key |-> Folded[KeyOf(i)], id |-> i, row |-> KeyOf(i)] :
                      i \in {j \in Page : \A k \in Page : ~Before(j, k)}}
           shown == [i \in Item |-> IF i \in Page /\ reader.shown[i] < 2
                                    THEN reader.shown[i] + 1 ELSE reader.shown[i]]
           stays == IF reader.last = {} THEN Content(reader.kind) ELSE reader.stays
           cuts == reader.cuts \cup reader.last
           at == IF Page = Remaining THEN "finished" ELSE "cursor"
<1>1. /\ reader \in Listing /\ reader.at = "read" /\ reader.kind = "note"
      /\ UNCHANGED documents
      /\ RowsTyped
  BY DEF ListingInv, EditsInv, ShownOnce, ReadPage, Listing, Idle
<1>2. reader' = [reader EXCEPT !.shown = shown, !.stays = stays, !.cuts = cuts,
                               !.last = last, !.at = at]
  BY DEF ReadPage
<1>3. /\ Remaining \subseteq Content("note") /\ Page \subseteq Remaining
      /\ \A i \in Content("note") : /\ i \in Document /\ KeyOf(i) = documents[i].key
                                    /\ documents[i].key \in Key /\ documents[i].key \in Nat
  <2>1. Remaining \subseteq Content("note") /\ Page \subseteq Remaining
    BY <1>1 DEF Remaining, Page
  <2>2. ASSUME NEW i \in Content("note")
        PROVE  documents[i].key \in Key
    <3>1. i \in Document /\ Live(i)
      BY <1>1, <2>2, ContentShape DEF Live, Place
    <3>2. QED
      BY <1>1, <3>1, RowShape DEF DocumentRow
  <2>3. QED
    BY <1>1, <2>1, <2>2, ContentShape
<1>4. /\ shown \in [Item -> 0..2] /\ stays \in SUBSET Document /\ stays \subseteq Content("note")
      /\ \A i \in stays : reader.shown[i] \in 0..2 /\ Stays(i)
  <2>1. stays \subseteq Content("note")
    <3>1. CASE reader.last = {}
      BY <1>1, <3>1
    <3>2. CASE reader.last # {}
      <4>1. \A i \in reader.stays : Stays(i) /\ i \in Document
        BY <1>1, <3>2 DEF ListingInv, ShownOnce, Listing
      <4>2. QED
        BY <1>1, <3>2, <4>1, ContentShape DEF Stays
    <3>3. QED
      BY <3>1, <3>2
  <2>2. \A i \in Item : reader.shown[i] \in 0..2
    BY <1>1 DEF Listing
  <2>3. shown \in [Item -> 0..2]
    BY <2>2
  <2>4. \A i \in stays : i \in Item /\ Stays(i)
    BY <1>1, <1>3, <2>1, ContentShape DEF Stays, Item
  <2>5. QED
    BY <1>3, <2>1, <2>2, <2>3, <2>4
\* What the pages before have shown.
<1>5. ASSUME NEW o \in Cursor, reader.last = {o}
      PROVE  /\ Remaining = {i \in Content("note") : Beyond(documents[i].key, i, o)}
             /\ \A i \in stays : Shown(reader.shown[i], documents[i].key, i, o, reader.cuts)
  <2>1. PICK l \in Cursor :
          /\ reader.last = {l}
          /\ \A i \in reader.stays : Shown(reader.shown[i], documents[i].key, i, l, reader.cuts)
    BY <1>1, <1>5 DEF ListingInv, ShownOnce
  <2>2. l = o
    BY <1>5, <2>1
  <2>3. QED
    BY <1>1, <1>5, <2>1, <2>2, WhatRemains
<1>6. reader.last = {} =>
        /\ Remaining = Content("note")
        /\ \A i \in stays : reader.shown[i] = 0
  BY <1>1, <1>3, <1>4, WhatRemains DEF ListingInv, ShownOnce, Item
<1>7. reader.last # {} => \E o \in Cursor : reader.last = {o}
  BY <1>1 DEF ListingInv, ShownOnce
<1>8. \A i \in stays : shown[i] = IF i \in Page /\ reader.shown[i] < 2
                                  THEN reader.shown[i] + 1 ELSE reader.shown[i]
  BY <1>4 DEF Item
<1>9. cuts \in SUBSET Cursor
  BY <1>1 DEF Listing
<1> HIDE DEF shown, stays
\* The last page shows whatever remained.
<1>10. CASE Page = Remaining
  <2>1. last \in SUBSET Cursor
    <3>1. \A i \in Page : /\ KeyOf(i) \in Nat /\ i \in Document /\ Folded[KeyOf(i)] \in Nat
      BY <1>3, DocumentAssumption
    <3>2. QED
      BY <3>1 DEF Cursor
  <2> HIDE DEF last
  <2>2. /\ reader' \in Listing /\ reader'.at = "finished" /\ reader'.shown = shown
        /\ reader'.stays = stays /\ reader'.cuts = cuts
    BY <1>1, <1>2, <1>4, <1>9, <1>10, <2>1 DEF Listing
  <2>3. ASSUME NEW i \in stays
        PROVE  /\ Stays(i)
               /\ shown[i] = 0 => SkippedBy(documents[i].key, i, cuts)
               /\ shown[i] = 2 => RepeatedBy(documents[i].key, i, cuts)
    <3>1. CASE reader.last = {}
      <4>1. i \in Page /\ reader.shown[i] = 0
        BY <1>4, <1>6, <1>10, <3>1
      <4>2. QED
        BY <1>4, <1>8, <4>1
    <3>2. CASE reader.last # {}
      <4>1. PICK o \in Cursor : reader.last = {o}
        BY <1>7, <3>2
      <4>2. /\ i \in Page <=> Beyond(documents[i].key, i, o)
            /\ Shown(reader.shown[i], documents[i].key, i, o, reader.cuts)
        BY <1>4, <1>5, <1>10, <4>1
      <4>3. reader.shown[i] \in 0..2
        BY <1>4
      <4>4. shown[i] = 0 => reader.shown[i] = 0 /\ i \notin Page
        BY <1>8, <4>3
      <4>5. shown[i] = 2 => reader.shown[i] = 2 \/ (i \in Page /\ reader.shown[i] > 0)
        BY <1>8, <4>3
      <4>6. QED
        BY <1>4, <4>1, <4>2, <4>4, <4>5 DEF Shown
    <3>3. QED
      BY <3>1, <3>2
  <2>4. QED
    BY <1>1, <2>2, <2>3 DEF ShownOnce, Stays, SkippedBy, RepeatedBy, Beyond, EndOf
\* Another one ends with a row, and a cursor.
<1>11. CASE Page # Remaining
  <2>0. Remaining # {}
    BY <1>3, <1>11
  <2>1. PICK m \in Page :
          /\ m \in Document /\ documents[m].key \in Nat
          /\ {j \in Page : \A k \in Page : ~Before(j, k)} = {m}
          /\ \A i \in Remaining :
               i \in Page <=> ~Beyond(documents[i].key, i, [key |-> documents[m].key, id |-> m])
    BY <1>1, <2>0, PageEnds
  <2>2. m \in Content("note") /\ m \in Remaining /\ Folded[documents[m].key] \in Nat
    BY <1>3, DocumentAssumption
  <2>3. PICK l \in Cursor :
          /\ last = {l} /\ l.id = m
          /\ EndOf(l) = [key |-> documents[m].key, id |-> m]
    <3>1. last = {[key |-> Folded[KeyOf(m)], id |-> m, row |-> KeyOf(m)]}
      BY <2>1
    <3>2. [key |-> Folded[KeyOf(m)], id |-> m, row |-> KeyOf(m)] \in Cursor
      BY <1>3, <2>1, <2>2 DEF Cursor
    <3>3. QED
      BY <1>3, <2>2, <3>1, <3>2 DEF EndOf
  <2>4. /\ reader' \in Listing /\ reader'.at = "cursor" /\ reader'.shown = shown
        /\ reader'.stays = stays /\ reader'.last = {l} /\ reader'.cuts = cuts
    BY <1>1, <1>2, <1>4, <1>9, <1>11, <2>3 DEF Listing
  <2>5. ASSUME NEW i \in stays
        PROVE  Shown(shown[i], documents[i].key, i, l, cuts)
    <3>1. i \in Content("note") /\ i \in Document /\ documents[i].key \in Nat
      BY <1>3, <1>4
    <3>2. CASE reader.last = {}
      <4>1. /\ i \in Page <=> ~Beyond(documents[i].key, i, EndOf(l))
            /\ shown[i] = IF i \in Page THEN 1 ELSE 0
        BY <1>6, <1>8, <2>1, <2>3, <3>1, <3>2
      <4>2. QED
        BY <4>1, FirstShows
    <3>3. CASE reader.last # {}
      <4>1. PICK o \in Cursor : reader.last = {o}
        BY <1>7, <3>3
      <4>2. /\ Remaining = {k \in Content("note") : Beyond(documents[k].key, k, o)}
            /\ Shown(reader.shown[i], documents[i].key, i, o, reader.cuts)
        BY <1>5, <4>1
      <4>3. Beyond(EndOf(l).key, l.id, o)
        BY <2>2, <2>3, <4>2
      <4>4. i \in Page <=> Beyond(documents[i].key, i, o) /\ ~Beyond(documents[i].key, i, EndOf(l))
        BY <1>3, <2>1, <2>3, <3>1, <4>2
      <4>5. reader.shown[i] \in 0..2 /\ (i \in Page) \in BOOLEAN
        BY <1>4
      <4>6. Shown(IF i \in Page /\ reader.shown[i] < 2 THEN reader.shown[i] + 1
                  ELSE reader.shown[i], documents[i].key, i, l, reader.cuts \cup {o})
        BY <3>1, <4>2, <4>3, <4>4, <4>5, PageShows
      <4>7. QED
        BY <1>8, <4>1, <4>6
    <3>4. QED
      BY <3>2, <3>3
  <2>6. \A i \in reader'.stays :
          Stays(i)' /\ Shown(reader'.shown[i], documents'[i].key, i, l, reader'.cuts)
    BY <1>1, <1>4, <2>4, <2>5 DEF Stays
  <2>7. QED
    BY <2>4, <2>6 DEF ShownOnce, Shown, SkippedBy, RepeatedBy, Beyond, EndOf
<1>12. QED
  BY <1>10, <1>11

\* Rows are written: an item that stays keeps its place and its key.
LEMMA WritesStep ==
  ASSUME ListingInv, EditsInv', NEW rows, Writes(rows)
  PROVE  ShownOnce'
<1>1. CASE reader = Idle
  BY <1>1 DEF Writes, ShownOnce, Idle
<1>2. CASE reader # Idle
  <2> DEFINE moved == {d \in Document : Changed([documents EXCEPT ![d] = rows[d]])}
             fresh == reader.fresh /\ ~Changed(rows)
  <2>1. reader \in Listing /\ documents' = rows
    BY <1>2 DEF ListingInv, ShownOnce, Writes
  <2>2. reader' = [reader EXCEPT !.fresh = fresh, !.stays = reader.stays \ moved]
    BY <1>2 DEF Writes
  <2>3. fresh \in BOOLEAN
    BY <2>1 DEF Listing
  <2> HIDE DEF fresh
  <2>4. /\ reader' \in Listing
        /\ reader'.at = reader.at /\ reader'.last = reader.last
        /\ reader'.shown = reader.shown /\ reader'.cuts = reader.cuts
        /\ reader'.stays = reader.stays \ moved
    BY <2>1, <2>2, <2>3 DEF Listing
  <2>5. \A i \in Document : Stays(i) /\ i \notin moved =>
          documents'[i].at = "here" /\ documents'[i].key = documents[i].key
    <3> SUFFICES ASSUME NEW i \in Document, Stays(i), i \notin moved
                 PROVE  documents'[i].at = "here" /\ documents'[i].key = documents[i].key
      OBVIOUS
    <3>1. [documents EXCEPT ![i] = rows[i]][i] = rows[i]
      BY DEF ListingInv, EditsInv, RowsTyped
    <3>2. ~Changed([documents EXCEPT ![i] = rows[i]])
      OBVIOUS
    <3>3. rows[i] # documents[i] => rows[i].at = documents[i].at /\ rows[i].key = documents[i].key
      BY <3>1, <3>2 DEF Changed, Stays
    <3>4. QED
      BY <2>1, <3>3 DEF Stays
  <2>6. reader.stays \subseteq Document
    BY <2>1 DEF Listing
  <2> HIDE DEF moved
  <2>7. ASSUME NEW l \in Cursor, reader.last = {l}, reader.at \in {"read", "cursor"},
               \A i \in reader.stays :
                 Stays(i) /\ Shown(reader.shown[i], documents[i].key, i, l, reader.cuts)
        PROVE  \A i \in reader'.stays :
                 /\ documents'[i].at = "here"
                 /\ Shown(reader'.shown[i], documents'[i].key, i, l, reader'.cuts)
    <3> SUFFICES ASSUME NEW i \in reader'.stays
                 PROVE  /\ documents'[i].at = "here"
                        /\ Shown(reader'.shown[i], documents'[i].key, i, l, reader'.cuts)
      OBVIOUS
    <3>1. i \in reader.stays /\ i \in Document /\ i \notin moved
      BY <2>4, <2>6
    <3>2. documents'[i].at = "here" /\ documents'[i].key = documents[i].key
      BY <2>5, <2>7, <3>1
    <3>3. QED
      BY <2>4, <2>7, <3>1, <3>2
  <2>8. reader'.at \in {"read", "cursor"} /\ reader'.last # {} =>
          \E l \in Cursor :
            /\ reader'.last = {l}
            /\ \A i \in reader'.stays :
                 /\ documents'[i].at = "here"
                 /\ Shown(reader'.shown[i], documents'[i].key, i, l, reader'.cuts)
    BY <2>4, <2>7 DEF ListingInv, ShownOnce
  \* Once the listing was read, a document that stays is one that stayed.
  <2>9. ASSUME reader'.at = "finished", NEW i \in reader'.stays
        PROVE  /\ reader'.shown[i] = 0 => SkippedBy(documents'[i].key, i, reader'.cuts)
               /\ reader'.shown[i] = 2 => RepeatedBy(documents'[i].key, i, reader'.cuts)
    <3>1. i \in reader.stays /\ i \in Document /\ i \notin moved
      BY <2>4, <2>6, <2>9
    <3>2. Stays(i)
      BY <2>4, <2>9, <3>1 DEF ListingInv, ShownOnce
    <3>3. documents'[i].key = documents[i].key
      BY <2>5, <3>1, <3>2
    <3>4. QED
      BY <2>4, <2>9, <3>1, <3>3 DEF ListingInv, ShownOnce
  <2>10. \A i \in reader'.stays : reader'.at = "finished" => documents'[i].at = "here"
    BY <2>4, <2>5, <2>6 DEF ListingInv, ShownOnce
  <2>11. QED
    BY <2>4, <2>8, <2>9, <2>10
       DEF ListingInv, ShownOnce, Stays, Shown, SkippedBy, RepeatedBy, Beyond, EndOf
<1>3. QED
  BY <1>1, <1>2

LEMMA ListingStep ==
  ASSUME Kinds \subseteq {"note"}, ListingInv, [DocumentsNext]_documentsVars
  PROVE  ListingInv'
<1>1. EditsInv'
  BY EditsStep DEF ListingInv
<1>2. CASE UNCHANGED <<documents, reader>>
  BY <1>1, <1>2 DEF ListingInv, ShownOnce, Stays, Shown, SkippedBy, RepeatedBy, Beyond, EndOf
<1>3. ASSUME NEW rows, Writes(rows)
      PROVE  ListingInv'
  BY <1>1, <1>3, WritesStep DEF ListingInv
<1>4. ASSUME NEW t \in Tx, CommitCreated(t) \/ CommitPatched(t) \/ CommitMoved(t) \/ CommitDeleted(t)
      PROVE  ListingInv'
  BY <1>3, <1>4 DEF CommitCreated, CommitPatched, CommitMoved, CommitDeleted
<1>5. ASSUME NEW t \in Tx, NEW d, NEW key, NEW content,
             \/ PatchRestored(t) \/ Abort(t) \/ RestoreVersion(t, d) \/ MoveDocument(t, d)
             \/ DeleteDocument(t, d) \/ CreateNote(t, d, key)
             \/ PatchDocument(t, d, key, content)
      PROVE  ListingInv'
  BY <1>2, <1>5 DEF PatchRestored, Abort, RestoreVersion, MoveDocument, DeleteDocument,
                    CreateNote, PatchDocument, Patching
<1>6. ASSUME NEW on, Freeze(on)
      PROVE  ListingInv'
  BY <1>2, <1>6 DEF Freeze
<1>7. ASSUME NEW kind \in Kinds, StartListing(kind)
      PROVE  ListingInv'
  <2>1. reader' = [at |-> "read", kind |-> kind, fresh |-> TRUE, last |-> {},
                   shown |-> [i \in Item |-> 0], stays |-> {}, cuts |-> {}]
    BY <1>7 DEF StartListing
  <2>2. reader' \in Listing
    BY <2>1 DEF Listing
  <2>3. QED
    BY <1>1, <2>1, <2>2 DEF ListingInv, ShownOnce
<1>8. CASE ReadPage
  BY <1>1, <1>8, ReadPageStep DEF ListingInv
<1>9. CASE Continue
  <2>1. reader \in Listing /\ reader.at = "cursor" /\ UNCHANGED documents
    BY <1>9 DEF Continue, ListingInv, ShownOnce, Idle
  <2>2. \/ reader' = Idle
        \/ /\ reader' \in Listing /\ reader'.at = "read" /\ reader'.last = reader.last
           /\ reader'.shown = reader.shown /\ reader'.stays = reader.stays
           /\ reader'.cuts = reader.cuts
    BY <1>9, <2>1 DEF Continue, Listing
  <2>3. QED
    BY <1>1, <2>1, <2>2 DEF ListingInv, ShownOnce, Stays, Shown, SkippedBy, RepeatedBy, Beyond, EndOf, Idle
<1>10. CASE LeaveListing
  BY <1>1, <1>10 DEF LeaveListing, ListingInv, ShownOnce, Idle
<1>11. CASE DocumentsNext
  BY <1>4, <1>5, <1>6, <1>7, <1>8, <1>9, <1>10, <1>11 DEF DocumentsNext
<1>12. QED
  BY <1>2, <1>11 DEF documentsVars

\* Cursors name the keys of their rows.
FaithfulCuts ==
  reader # Idle => \A cut \in reader.last \cup reader.cuts : cut.key = cut.row

LEMMA FaithfulStep ==
  ASSUME \A key \in Key : Folded[key] = key,
         ListingInv, FaithfulCuts, [DocumentsNext]_documentsVars
  PROVE  FaithfulCuts'
<1>1. CASE UNCHANGED reader \/ reader' = Idle
  BY <1>1 DEF FaithfulCuts
<1>2. ASSUME NEW rows, Writes(rows), reader # Idle
      PROVE  FaithfulCuts'
  <2>1. reader' # Idle /\ reader'.last = reader.last /\ reader'.cuts = reader.cuts
    BY <1>2 DEF Writes, ListingInv, ShownOnce, Listing, Idle
  <2>2. QED
    BY <1>2, <2>1 DEF FaithfulCuts
<1>3. ASSUME NEW rows, Writes(rows), reader = Idle
      PROVE  FaithfulCuts'
  BY <1>1, <1>3 DEF Writes
<1>4. ASSUME NEW t \in Tx, CommitCreated(t) \/ CommitPatched(t) \/ CommitMoved(t) \/ CommitDeleted(t)
      PROVE  FaithfulCuts'
  BY <1>2, <1>3, <1>4 DEF CommitCreated, CommitPatched, CommitMoved, CommitDeleted
<1>5. ASSUME NEW t \in Tx, NEW d, NEW key, NEW content,
             \/ PatchRestored(t) \/ Abort(t) \/ RestoreVersion(t, d) \/ MoveDocument(t, d)
             \/ DeleteDocument(t, d) \/ CreateNote(t, d, key)
             \/ PatchDocument(t, d, key, content)
      PROVE  FaithfulCuts'
  BY <1>1, <1>5 DEF PatchRestored, Abort, RestoreVersion, MoveDocument, DeleteDocument,
                    CreateNote, PatchDocument, Patching
<1>6. ASSUME NEW kind, StartListing(kind)
      PROVE  FaithfulCuts'
  BY <1>6 DEF StartListing, FaithfulCuts
<1>7. CASE ReadPage
  <2> DEFINE last == {[key |-> Folded[KeyOf(i)], id |-> i, row |-> KeyOf(i)] :
                        i \in {j \in Page : \A k \in Page : ~Before(j, k)}}
  <2>1. reader # Idle /\ reader \in Listing /\ RowsTyped
    BY <1>7 DEF ReadPage, Idle, ListingInv, EditsInv, ShownOnce
  <2>2. reader'.last = last /\ reader'.cuts = reader.cuts \cup reader.last
    BY <1>7, <2>1 DEF ReadPage, Listing
  <2>3. \A i \in Page : KeyOf(i) \in Key
    <3> SUFFICES ASSUME NEW i \in Page
                 PROVE  KeyOf(i) \in Key
      OBVIOUS
    <3>1. i \in Content("note")
      BY <2>1 DEF Page, Remaining, Listing
    <3>2. i \in Document /\ Live(i) /\ KeyOf(i) = documents[i].key
      BY <2>1, <3>1, ContentShape DEF Live, Place
    <3>3. QED
      BY <2>1, <3>2, RowShape DEF DocumentRow
  <2>4. \A cut \in last : cut.key = cut.row
    BY <2>3
  <2>5. QED
    BY <2>1, <2>2, <2>4 DEF FaithfulCuts
<1>8. CASE Continue
  <2>1. reader' = Idle \/ (reader # Idle /\ reader'.last = reader.last /\ reader'.cuts = reader.cuts)
    BY <1>8 DEF Continue, ListingInv, ShownOnce, Listing, Idle
  <2>2. QED
    BY <1>1, <2>1 DEF FaithfulCuts
<1>9. QED
  BY <1>1, <1>4, <1>5, <1>6, <1>7, <1>8
     DEF DocumentsNext, documentsVars, Freeze, LeaveListing

\* What was shown was shown as the cursors tell.
LEMMA ListingInvariant ==
  ASSUME Kinds \subseteq {"note"}
  PROVE  DocumentsSpec => []ListingInv
<1>1. DocumentsInit => ListingInv
  BY EditsInitial DEF DocumentsInit, ListingInv, ShownOnce, Idle
<1>2. ListingInv /\ [DocumentsNext]_documentsVars => ListingInv'
  BY ListingStep
<1>3. QED
  BY <1>1, <1>2, PTL DEF DocumentsSpec

\* At its end, a document of a listing has the key of its row.
LEMMA FinishedKeys ==
  ASSUME ListingInv, reader.at = "finished", NEW i \in reader.stays
  PROVE  KeyOf(i) = documents[i].key /\ i \in Item
<1>1. reader \in Listing
  BY DEF ListingInv, ShownOnce, Idle
<1>2. i \in Document
  BY <1>1 DEF Listing
<1>3. i \in Document /\ i \notin Subfolder
  BY <1>2, DocumentAssumption
<1>4. QED
  BY <1>3 DEF KeyOf, Item

\* A listing of the documents of a folder that was paged to its end showed every
\* one that was there all along, with the same key, exactly once, but for those
\* between the last row of a page and the folded title its cursor names
\* (list_contents): for pages of any size, any number of documents, keys that
\* several share, and whatever place the folded titles have in the order.
THEOREM PagesMeetAtCursors ==
  ASSUME Kinds \subseteq {"note"}
  PROVE  DocumentsSpec => []PagesMeet
<1>1. ListingInv => PagesMeet
  BY FinishedKeys DEF ListingInv, ShownOnce, PagesMeet
<1>2. QED
  BY <1>1, ListingInvariant, PTL

\* With keys that a cursor names as they are, creation times and titles whose
\* folded form sorts where lower(title) does, nothing is left out and nothing
\* comes twice (list_contents).
THEOREM ListedExactlyOnce ==
  ASSUME Kinds \subseteq {"note"}, \A key \in Key : Folded[key] = key
  PROVE  DocumentsSpec => []ListedOnce
<1>1. ASSUME FaithfulCuts, ListingInv
      PROVE  ListedOnce
  <2>1. SUFFICES ASSUME reader.at = "finished", NEW i \in reader.stays
                 PROVE  reader.shown[i] = 1
    BY DEF ListedOnce
  <2>2. \A cut \in reader.cuts : cut.key = cut.row
    BY <1>1, <2>1 DEF FaithfulCuts, Idle
  <2>3. ~SkippedBy(documents[i].key, i, reader.cuts) /\ ~RepeatedBy(documents[i].key, i, reader.cuts)
    BY <2>2 DEF SkippedBy, RepeatedBy, Beyond, EndOf
  <2>4. reader \in Listing /\ i \in Item
    BY <1>1, <2>1, FinishedKeys DEF ListingInv, ShownOnce, Idle
  <2>5. reader.shown[i] \in 0..2 /\ reader.shown[i] # 0 /\ reader.shown[i] # 2
    BY <1>1, <2>1, <2>3, <2>4 DEF ListingInv, ShownOnce, Listing
  <2>6. QED
    BY <2>5
<1>2. DocumentsInit => FaithfulCuts
  BY DEF DocumentsInit, FaithfulCuts
<1>3. ASSUME ListingInv, FaithfulCuts, [DocumentsNext]_documentsVars
      PROVE  FaithfulCuts'
  BY <1>3, FaithfulStep
<1>4. QED
  BY <1>1, <1>2, <1>3, ListingInvariant, PTL DEF DocumentsSpec
=============================================================================
