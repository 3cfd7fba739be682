-------------------------- MODULE ObjectLifecycle --------------------------
(***************************************************************************)
(* The bytes of one file document: from the upload ticket to their removal.*)
(*                                                                         *)
(* Every version of the document has one object key and one upload ticket. *)
(* The client PUTs the bytes to the bucket by itself, before the ticket    *)
(* expires or never, and asks the API to complete the version: the object  *)
(* is verified and the version published.  Deleting the document drops its *)
(* rows in one transaction; the same API process then queues one cleanup   *)
(* job per object key, and worker processes erase the objects.             *)
(*                                                                         *)
(* A document id is never reused, so the life of one document is the whole *)
(* life of its keys.  The API transactions lock the document row first and *)
(* are one action each; those that are refused change nothing and are left *)
(* out, but for a refused verification.  A cleanup job that is queued or   *)
(* retryable and due is redelivered by reconciliation, so any idle worker  *)
(* may claim it.                                                           *)
(***************************************************************************)
EXTENDS Integers

CONSTANTS
  Worker,         \* worker processes
  MaxVersion,     \* bound: versions of the document
  LatePutCap,     \* bound: PUTs to live URLs of a deleted document
  FaultCap,       \* bound: failures of the object storage
  ApiCrashCap,    \* bound: API processes dying after a deletion
  WorkerCrashCap  \* bound: workers dying in a cleanup

ASSUME ConstantsAssumption ==
  /\ MaxVersion \in Nat \ {0}
  /\ LatePutCap \in Nat /\ FaultCap \in Nat
  /\ ApiCrashCap \in Nat /\ WorkerCrashCap \in Nat

VARIABLES
  doc,       \* the row of ima.documents
  current,   \* documents.current_version
  row,       \* document_file_versions.object_state of each version
  ticket,    \* its upload ticket and presigned URL
  fits,      \* whether the bytes of that URL have the declared size
  object,    \* whether the bucket holds its object
  refused,   \* versions whose verification failed
  unqueued,  \* versions the API process that deleted has yet to queue
  cleanup,   \* storage_cleanup_jobs.status of each key
  due,       \* whether next_eligible_at has come
  pc,        \* where each worker's cleanup task is
  job,       \* the key it claimed
  latePuts, faults, apiCrashes, workerCrashes

file  == <<doc, current, row, fits, refused>>
queue == <<cleanup, due>>
task  == <<pc, job>>
mishaps == <<latePuts, faults, apiCrashes, workerCrashes>>
vars == <<doc, current, row, ticket, fits, object, refused, unqueued, cleanup,
          due, pc, job, latePuts, faults, apiCrashes, workerCrashes>>

Version == 1..MaxVersion

Init ==
  /\ doc = "none"
  /\ current = 1
  /\ row = [v \in Version |-> "absent"]
  /\ ticket = [v \in Version |-> "none"]
  /\ fits = [v \in Version |-> FALSE]
  /\ object = [v \in Version |-> "none"]
  /\ refused = {}
  /\ unqueued = {}
  /\ cleanup = [v \in Version |-> "absent"]
  /\ due = [v \in Version |-> FALSE]
  /\ pc = [w \in Worker |-> "idle"]
  /\ job = [w \in Worker |-> 0]
  /\ latePuts = 0 /\ faults = 0 /\ apiCrashes = 0 /\ workerCrashes = 0

-----------------------------------------------------------------------------
(* The API and its client.                                                 *)

\* A new version waits for its bytes; the client may have declared a size
\* that is not theirs.
Offer(v) ==
  /\ row' = [row EXCEPT ![v] = "pending"]
  /\ ticket' = [ticket EXCEPT ![v] = "live"]
  /\ \E right \in BOOLEAN : fits' = [fits EXCEPT ![v] = right]
  /\ UNCHANGED <<current, object, refused, unqueued, queue, task, mishaps>>

\* StorageService.upload_ticket: the document and its first version.
UploadTicket ==
  /\ doc = "none"
  /\ doc' = "active"
  /\ Offer(1)

\* One replacement at a time.
NothingPending == \A v \in Version : row[v] # "pending"

\* StorageService.replacement_ticket: a further version, not yet the current.
ReplacementTicket ==
  /\ doc = "active"
  /\ NothingPending
  /\ current < MaxVersion
  /\ Offer(current + 1)
  /\ UNCHANGED doc

\* The client PUTs the bytes; the URL pins their digest, not their size.
Put(v) ==
  /\ ticket[v] = "live"
  /\ IF doc = "active"
     THEN UNCHANGED latePuts
     ELSE latePuts < LatePutCap /\ latePuts' = latePuts + 1
  /\ object' = [object EXCEPT ![v] = "stored"]
  /\ UNCHANGED <<file, ticket, unqueued, queue, task, faults, apiCrashes,
                 workerCrashes>>

ExpireTicket(v) ==
  /\ ticket[v] = "live"
  /\ ticket' = [ticket EXCEPT ![v] = "expired"]
  /\ UNCHANGED <<file, object, unqueued, queue, task, mishaps>>

M_Verifies(v) == object[v] = "stored"

\* ObjectStorageClient.verify: HEAD finds the object with digest, size, type.
Verifies(v) == object[v] = "stored" /\ fits[v]

M_Completable(v) == ticket[v] = "live" /\ doc = "active" /\ row[v] # "absent"

\* A version that is verified already is reported, not published again.
Completable(v) == ticket[v] = "live" /\ doc = "active" /\ row[v] = "pending"

\* StorageService.complete: the version is published.
Complete(v) ==
  /\ Completable(v)
  /\ Verifies(v)
  /\ row' = [row EXCEPT ![v] = "verified"]
  /\ current' = v
  /\ UNCHANGED <<doc, ticket, fits, object, refused, unqueued, queue, task,
                 mishaps>>

\* StorageService.complete when verification fails, or the storage does: the
\* UPDATE to 'failed' is rolled back by the error raised after it.
Refuse(v) ==
  /\ Completable(v)
  /\ \/ ~Verifies(v) /\ UNCHANGED faults
     \/ faults < FaultCap /\ faults' = faults + 1
  /\ refused' = refused \cup {v}
  /\ UNCHANGED <<doc, current, row, ticket, fits, object, unqueued, queue,
                 task, latePuts, apiCrashes, workerCrashes>>

\* KnowledgeService.delete_document, its transaction.
Delete ==
  /\ doc = "active"
  /\ doc' = "deleted"
  /\ row' = [v \in Version |-> "absent"]
  /\ unqueued' = {v \in Version : row[v] # "absent"}
  /\ UNCHANGED <<current, ticket, fits, object, refused, queue, task, mishaps>>

\* JobService.enqueue_cleanup, after the commit: version by version.  A key
\* that is queued already only becomes due.
EnqueueCleanup ==
  \E v \in unqueued :
    /\ \A u \in unqueued : v <= u
    /\ unqueued' = unqueued \ {v}
    /\ cleanup' = [cleanup EXCEPT ![v] = IF @ = "absent" THEN "queued" ELSE @]
    /\ due' = [due EXCEPT ![v] = TRUE]
    /\ UNCHANGED <<file, ticket, object, task, mishaps>>

\* The API process dies, or the database refuses a row: the rest of the keys
\* is known to nobody.
ApiDies ==
  /\ apiCrashes < ApiCrashCap
  /\ unqueued # {}
  /\ unqueued' = {}
  /\ apiCrashes' = apiCrashes + 1
  /\ UNCHANGED <<file, ticket, object, queue, task, latePuts, faults,
                 workerCrashes>>

-----------------------------------------------------------------------------
(* The cleanup task.                                                       *)

M_Claimable(v) == cleanup[v] = "queued" /\ due[v]

Claimable(v) == cleanup[v] \in {"queued", "retryable"} /\ due[v]

\* The first transaction: claim, and put off a key some version still uses.
Claim(w, v) ==
  /\ pc[w] = "idle"
  /\ Claimable(v)
  /\ IF row[v] # "absent"
     THEN /\ cleanup' = [cleanup EXCEPT ![v] = "retryable"]
          /\ due' = [due EXCEPT ![v] = FALSE]
          /\ UNCHANGED task
     ELSE /\ cleanup' = [cleanup EXCEPT ![v] = "running"]
          /\ pc' = [pc EXCEPT ![w] = "claimed"]
          /\ job' = [job EXCEPT ![w] = v]
          /\ UNCHANGED due
  /\ UNCHANGED <<file, ticket, object, unqueued, mishaps>>

\* The storage erases the object; erasing a missing one is no error.
Erase(w) ==
  /\ pc[w] = "claimed"
  /\ object' = [object EXCEPT ![job[w]] = "none"]
  /\ pc' = [pc EXCEPT ![w] = "erased"]
  /\ UNCHANGED <<file, ticket, unqueued, queue, job, mishaps>>

Leave(w) == pc' = [pc EXCEPT ![w] = "idle"] /\ job' = [job EXCEPT ![w] = 0]

M_AfterFailure == "succeeded"

AfterFailure == "retryable"

\* The storage reports an error, whether or not it erased the object: the job
\* waits five minutes.
EraseFails(w) ==
  /\ faults < FaultCap
  /\ faults' = faults + 1
  /\ pc[w] = "claimed"
  /\ object' \in {object, [object EXCEPT ![job[w]] = "none"]}
  /\ cleanup' = [cleanup EXCEPT ![job[w]] = AfterFailure]
  /\ due' = [due EXCEPT ![job[w]] = FALSE]
  /\ Leave(w)
  /\ UNCHANGED <<file, ticket, unqueued, latePuts, apiCrashes, workerCrashes>>

Succeed(w) ==
  /\ pc[w] = "erased"
  /\ cleanup' = [cleanup EXCEPT ![job[w]] = "succeeded"]
  /\ Leave(w)
  /\ UNCHANGED <<file, ticket, object, unqueued, due, mishaps>>

\* The worker dies: a claimed job stays 'running', and it has no lease.
WorkerDies(w) ==
  /\ workerCrashes < WorkerCrashCap
  /\ pc[w] # "idle"
  /\ workerCrashes' = workerCrashes + 1
  /\ Leave(w)
  /\ UNCHANGED <<file, ticket, object, unqueued, queue, latePuts, faults,
                 apiCrashes>>

\* next_eligible_at comes.
BecomeDue(v) ==
  /\ cleanup[v] = "retryable"
  /\ ~due[v]
  /\ due' = [due EXCEPT ![v] = TRUE]
  /\ UNCHANGED <<file, ticket, object, unqueued, cleanup, task, mishaps>>

-----------------------------------------------------------------------------
CleanupStep(w) == Erase(w) \/ EraseFails(w) \/ Succeed(w)

Next ==
  \/ UploadTicket \/ ReplacementTicket \/ Delete \/ EnqueueCleanup \/ ApiDies
  \/ \E v \in Version : \/ Put(v) \/ ExpireTicket(v) \/ Complete(v)
                        \/ Refuse(v) \/ BecomeDue(v)
  \/ \E w \in Worker : CleanupStep(w) \/ WorkerDies(w)
  \/ \E w \in Worker, v \in Version : Claim(w, v)

Spec == Init /\ [][Next]_vars

\* A live API process queues what it deleted, URLs expire, reconciliation
\* redelivers due jobs to idle workers, tasks do not hang.
Fairness ==
  /\ WF_vars(EnqueueCleanup)
  /\ \A v \in Version : /\ WF_vars(ExpireTicket(v))
                         /\ WF_vars(BecomeDue(v))
                         /\ WF_vars(\E w \in Worker : Claim(w, v))
  /\ \A w \in Worker : WF_vars(CleanupStep(w))

FairSpec == Spec /\ Fairness

-----------------------------------------------------------------------------
\* Every variable holds a value its column or process can hold.
TypeOK ==
  /\ doc \in {"none", "active", "deleted"}
  /\ current \in Version
  /\ row \in [Version -> {"absent", "pending", "verified"}]
  /\ ticket \in [Version -> {"none", "live", "expired"}]
  /\ fits \in [Version -> BOOLEAN]
  /\ object \in [Version -> {"none", "stored"}]
  /\ refused \subseteq Version
  /\ unqueued \subseteq Version
  /\ cleanup \in [Version -> {"absent", "queued", "running", "retryable",
                              "succeeded"}]
  /\ due \in [Version -> BOOLEAN]
  /\ pc \in [Worker -> {"idle", "claimed", "erased"}]
  /\ job \in [Worker -> Version \cup {0}]
  /\ latePuts \in Nat /\ faults \in Nat
  /\ apiCrashes \in Nat /\ workerCrashes \in Nat

\* The bytes of a published version are in the bucket and are those that were
\* declared, whatever cleanup does (complete, delete_document, cleanup).
PublishedBytesKept ==
  \A v \in Version : row[v] = "verified" => object[v] = "stored" /\ fits[v]

\* The current version is the last one published and every version before it
\* was; only the one after it may be waiting, so a repeated or late completion
\* never takes the document back (complete, replacement_ticket).
LastPublishedIsCurrent ==
  doc = "active" =>
    \A v \in Version :
      /\ v < current => row[v] = "verified"
      /\ v = current => \/ row[v] = "verified"
                        \/ v = 1 /\ row[v] = "pending"
      /\ v = current + 1 =>
           \/ row[v] = "absent"
           \/ row[v] = "pending" /\ row[current] = "verified"
      /\ v > current + 1 => row[v] = "absent"

\* A cleanup job that succeeded left no object behind, unless a client PUT it
\* after the deletion (cleanup).
DoneMeansErased ==
  latePuts = 0 =>
    \A v \in Version : cleanup[v] = "succeeded" => object[v] = "none"

\* The objects of a deleted document are all erased in the end, however often
\* the storage fails, if no process died and no client PUT after the deletion
\* (delete_document, cleanup).
BytesGone ==
  [](apiCrashes = 0 /\ workerCrashes = 0 /\ latePuts = 0) =>
    <>[](doc = "deleted" => \A v \in Version : object[v] = "none")

\* A version whose upload could not be verified is marked failed, unless a
\* later completion succeeds (complete).
RefusedIsReleased ==
  \A v \in Version : (row[v] = "pending" /\ v \in refused /\ ticket[v] = "expired")
                       ~> row[v] # "pending"

=============================================================================
