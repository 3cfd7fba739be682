------------------------------ MODULE Ingestion ------------------------------
(***************************************************************************)
(* Durable ingestion of the file versions of one document.                 *)
(*                                                                         *)
(* A verified upload publishes a version of the document and creates three *)
(* rows of ima.ingestion_jobs for it, one per stage: parse, chunk, embed.  *)
(* Worker processes claim rows under a ten-minute lease and run the stages;*)
(* the API cancels and retries; every worker process also runs the         *)
(* reconciliation loop that closes orphaned cancel requests.               *)
(*                                                                         *)
(* The database runs at READ COMMITTED.  A transaction that holds the row  *)
(* it decides about from its first statement on is one action.  One that   *)
(* decides on an unlocked SELECT is two actions: the read and the commit.  *)
(* A delivery that finds no claimable row changes nothing, and              *)
(* reconciliation redelivers every claimable row, so the queue of          *)
(* deliveries is abstracted: any idle worker may claim any claimable row.  *)
(***************************************************************************)
EXTENDS Integers, FiniteSets

CONSTANTS
  Worker,      \* worker processes; each runs one task at a time
  MaxVersion,  \* bound: how many versions of the document are published
  Batches,     \* embedding batches a version's chunks are cut into
  MaxAttempts, \* MAX_ATTEMPTS: attempts before a retryable error is final
  AttemptCap,  \* bound: claims of one row between two retries
  RequestCap,  \* bound: cancel and retry requests
  FaultCap     \* bound: worker deaths, leases that end under a task, passes
               \* that overlap

ASSUME ConstantsAssumption ==
  /\ Worker # {}
  /\ MaxVersion \in Nat \ {0}
  /\ Batches \in Nat \ {0}
  /\ MaxAttempts \in Nat \ {0}
  /\ AttemptCap \in Nat /\ RequestCap \in Nat /\ FaultCap \in Nat

(***************************************************************************)
(* Definitions named M_... are the mistakes the properties are tested      *)
(* against: each stands before the definition whose place it would take.   *)
(***************************************************************************)

VARIABLES
  status,    \* ingestion_jobs.status of each row, "absent" before it exists
  attempts,  \* ingestion_jobs.attempts
  lease,     \* ingestion_jobs.lease_expires_at: NULL, in the future or past
  current,   \* documents.current_version
  fileState, \* documents.file_state
  derived,   \* versions with a row in document_derived_text
  chunked,   \* versions with rows in document_chunks
  embedded,  \* how many batches of a version's chunks carry embeddings
  pc,        \* where each worker's task is
  task,      \* the row each worker's task claimed
  held,      \* the attempts value that claim returned
  batch,     \* the batch an embed task embeds next
  reaping,   \* cancel rows each worker's reconciliation pass has read
  retrying,  \* stages a retry in progress has read as terminal, {} if none
  requests, faults,
  contested  \* history: rows whose lease ended under a task that was still at
             \* work on them, or that two reconciliation passes had read at once

rows    == <<status, attempts, lease>>
doc     == <<current, fileState>>
text    == <<derived, chunked, embedded>>
workers == <<pc, task, held, batch>>
vars == <<status, attempts, lease, current, fileState, derived, chunked,
          embedded, pc, task, held, batch, reaping, retrying, requests, faults,
          contested>>

Version == 1..MaxVersion
Stage   == {"parse", "chunk", "embed"}
Job     == Version \X Stage
Status  == {"absent", "blocked", "queued", "retryable", "running",
            "cancel_requested", "cancelled", "succeeded", "failed",
            "dead_letter"}
Terminal == {"failed", "dead_letter", "cancelled"}
PC == {"idle", "work", "checked", "cancelling"}

NoJob == <<0, "parse">>

\* Statuses a retry puts back to blocked in the stages it reopens.
Reopened == Terminal \cup {"blocked"}

\* The stages that run after s.
Later(s) == CASE s = "parse" -> {"chunk", "embed"}
              [] s = "chunk" -> {"embed"}
              [] s = "embed" -> {}

Row(j, s) == <<j[1], s>>
Published == {v \in Version : status[<<v, "parse">>] # "absent"}
Busy(w)   == pc[w] # "idle"

(***************************************************************************)
(* A retry holds the document row (FOR UPDATE) from its SELECT to its      *)
(* commit.  Every transaction that writes the document, or inserts a row   *)
(* that references it, waits for it.                                       *)
(***************************************************************************)
DocumentFree == retrying = {}

M_MarkTerminal == fileState' = fileState

\* mark_document_terminal: ready is never overwritten.
MarkTerminal == fileState' = IF fileState = "ready" THEN "ready" ELSE "failed"

Init ==
  /\ status    = [j \in Job |-> "absent"]
  /\ attempts  = [j \in Job |-> 0]
  /\ lease     = [j \in Job |-> "none"]
  /\ current   = 1
  /\ fileState = "pending"
  /\ derived   = {}
  /\ chunked   = {}
  /\ embedded  = [v \in Version |-> 0]
  /\ pc        = [w \in Worker |-> "idle"]
  /\ task      = [w \in Worker |-> NoJob]
  /\ held      = [w \in Worker |-> 0]
  /\ batch     = [w \in Worker |-> 0]
  /\ reaping   = [w \in Worker |-> {}]
  /\ retrying  = {}
  /\ requests  = 0
  /\ faults    = 0
  /\ contested = {}

-----------------------------------------------------------------------------
(* The API: complete, cancel, retry.                                       *)

(***************************************************************************)
(* StorageService.complete, first time for version v: the version becomes  *)
(* the current one and its three rows are created in the same transaction. *)
(* Versions are numbered and completed in order.                           *)
(***************************************************************************)
Publish(v) ==
  /\ DocumentFree
  /\ status[<<v, "parse">>] = "absent"
  /\ \A u \in Version : u < v => u \in Published
  /\ current' = v
  /\ fileState' = "pending"
  /\ status' = [j \in Job |-> IF j[1] # v THEN status[j]
                              ELSE IF j[2] = "parse" THEN "queued"
                              ELSE "blocked"]
  /\ UNCHANGED <<attempts, lease, text, workers, reaping, retrying, requests,
                 faults, contested>>

(***************************************************************************)
(* StorageService.cancel, for the current version: waiting rows become     *)
(* cancelled at once, a running one is asked to stop.                      *)
(***************************************************************************)
Cancel ==
  LET Mine    == {j \in Job : j[1] = current}
      waiting == {j \in Mine : status[j] \in {"queued", "retryable", "blocked"}}
      running == {j \in Mine : status[j] = "running"}
  IN
  /\ DocumentFree
  /\ requests < RequestCap
  /\ waiting \cup running # {}
  /\ status' = [j \in Job |-> IF j \in waiting THEN "cancelled"
                              ELSE IF j \in running THEN "cancel_requested"
                              ELSE status[j]]
  /\ lease' = [j \in Job |-> IF j \in waiting THEN "none" ELSE lease[j]]
  /\ IF waiting # {} THEN MarkTerminal ELSE UNCHANGED fileState
  /\ requests' = requests + 1
  /\ UNCHANGED <<attempts, current, text, workers, reaping, retrying, faults,
                 contested>>

\* StorageService.retry, its SELECT: the document row is locked, the rows of
\* the stages are not.
RetryRead ==
  LET terminal == {s \in Stage : status[<<current, s>>] \in Terminal} IN
  /\ DocumentFree
  /\ requests < RequestCap
  /\ terminal # {}
  /\ retrying' = terminal
  /\ requests' = requests + 1
  /\ UNCHANGED <<rows, doc, text, workers, reaping, faults, contested>>

\* The stage a retry restarts: the earliest one it read as terminal.
Restart(S) == CHOOSE s \in S : \A t \in S : t = s \/ t \in Later(s)

\* What a retry makes of the document.
ShowPending == fileState' = "pending"

(***************************************************************************)
(* StorageService.retry, its UPDATEs: the restarted stage is queued, the   *)
(* later ones wait for it again; each UPDATE rechecks the status it finds. *)
(***************************************************************************)
RetryWrite ==
  LET restart == <<current, Restart(retrying)>>
      reset   == {j \in Job : \/ j = restart /\ status[j] \in Terminal
                              \/ /\ j[1] = current
                                 /\ j[2] \in Later(restart[2])
                                 /\ status[j] \in Reopened}
  IN
  /\ retrying # {}
  /\ status' = [j \in Job |-> IF j \notin reset THEN status[j]
                              ELSE IF j = restart THEN "queued" ELSE "blocked"]
  /\ attempts' = [j \in Job |-> IF j \in reset THEN 0 ELSE attempts[j]]
  /\ ShowPending
  /\ retrying' = {}
  /\ UNCHANGED <<lease, current, text, workers, reaping, requests, faults,
                 contested>>

-----------------------------------------------------------------------------
(* The stage tasks.                                                        *)

M_Claimable(j) == /\ status[j] \in {"queued", "retryable", "running"}
                  /\ attempts[j] < AttemptCap

\* The rows the UPDATE of claim matches; a retryable row's backoff is some
\* time before it.
Claimable(j) ==
  /\ \/ status[j] \in {"queued", "retryable"}
     \/ status[j] = "running" /\ lease[j] = "expired"
  /\ attempts[j] < AttemptCap

M_InputMissing(j) == FALSE

\* What a stage reads is not there: DERIVED_TEXT_MISSING, NO_CHUNKS.
InputMissing(j) == \/ j[2] = "chunk" /\ j[1] \notin derived
                   \/ j[2] = "embed" /\ j[1] \notin chunked

\* The claim and the end of a task that finishes in the claiming transaction.
ClaimAndEnd(w, j, outcome) ==
  /\ ~Busy(w)
  /\ Claimable(j)
  /\ status' = [status EXCEPT ![j] = outcome]
  /\ attempts' = [attempts EXCEPT ![j] = @ + 1]
  /\ lease' = [lease EXCEPT ![j] = "none"]

\* A parse or embed task claims its row and goes on outside the transaction.
Claim(w, j) ==
  /\ j[2] \in {"parse", "embed"}
  /\ ~InputMissing(j)
  /\ j[2] = "embed" => embedded[j[1]] < Batches
  /\ ~Busy(w)
  /\ Claimable(j)
  /\ status' = [status EXCEPT ![j] = "running"]
  /\ attempts' = [attempts EXCEPT ![j] = @ + 1]
  /\ lease' = [lease EXCEPT ![j] = "live"]
  /\ pc' = [pc EXCEPT ![w] = "work"]
  /\ task' = [task EXCEPT ![w] = j]
  /\ held' = [held EXCEPT ![w] = attempts[j] + 1]
  /\ batch' = [batch EXCEPT ![w] = IF j[2] = "embed" THEN embedded[j[1]] + 1
                                   ELSE 0]
  /\ UNCHANGED <<doc, text, reaping, retrying, requests, faults, contested>>

M_AllEmbedded(v) == embedded[v] >= Batches - 1

\* No chunk of the version is left without its embedding.
AllEmbedded(v) == embedded[v] = Batches

\* An embed task that finds every chunk embedded finishes where it claims.
EmbedNothingLeft(w, j) ==
  /\ DocumentFree
  /\ j[2] = "embed"
  /\ ~InputMissing(j)
  /\ AllEmbedded(j[1])
  /\ ClaimAndEnd(w, j, "succeeded")
  /\ fileState' = "ready"
  /\ UNCHANGED <<current, text, workers, reaping, retrying, requests, faults,
                 contested>>

\* The claiming transaction finds that the input of the stage is missing.
RejectMissing(w, j) ==
  /\ DocumentFree
  /\ InputMissing(j)
  /\ ClaimAndEnd(w, j, "failed")
  /\ MarkTerminal
  /\ UNCHANGED <<current, text, workers, reaping, retrying, requests, faults,
                 contested>>

\* The chunk task rejects the text: no records, too many, or a chunker error.
RejectText(w, j) ==
  /\ DocumentFree
  /\ j[2] = "chunk"
  /\ ~InputMissing(j)
  /\ ClaimAndEnd(w, j, "failed")
  /\ MarkTerminal
  /\ UNCHANGED <<current, text, workers, reaping, retrying, requests, faults,
                 contested>>

(***************************************************************************)
(* The chunk task runs from claim to finish in one transaction that holds  *)
(* its row, so it is one action: chunks written, embed opened if it is     *)
(* blocked, row finished.  An exception rolls all of it back.              *)
(***************************************************************************)
Chunk(w, j) ==
  LET embed == Row(j, "embed") IN
  /\ DocumentFree
  /\ j[2] = "chunk"
  /\ ~InputMissing(j)
  /\ ~Busy(w)
  /\ Claimable(j)
  /\ status' = [status EXCEPT ![j] = "succeeded",
                              ![embed] = IF @ = "blocked" THEN "queued" ELSE @]
  /\ attempts' = [attempts EXCEPT ![j] = @ + 1]
  /\ lease' = [lease EXCEPT ![j] = "none"]
  /\ chunked' = chunked \cup {j[1]}
  /\ UNCHANGED <<doc, derived, embedded, workers, reaping, retrying, requests,
                 faults, contested>>

\* Parsing, or the next embedding call, is still ahead of the task.
WorkAhead(w) == task[w][2] = "parse" \/ batch[w] <= Batches

Leave(w) == /\ pc' = [pc EXCEPT ![w] = "idle"]
            /\ task' = [task EXCEPT ![w] = NoJob]
            /\ held' = [held EXCEPT ![w] = 0]
            /\ batch' = [batch EXCEPT ![w] = 0]

\* The task's writes to its row, by id and whatever its status is by now.
SetRow(w, outcome) ==
  /\ status' = [status EXCEPT ![task[w]] = outcome]
  /\ lease' = [lease EXCEPT ![task[w]] = "none"]

AttemptLeft(w) == held[w] < MaxAttempts

\* failed(retryable=True) with attempts left: the row waits for its backoff.
FailForNow(w) ==
  /\ pc[w] = "work"
  /\ WorkAhead(w)
  /\ AttemptLeft(w)
  /\ SetRow(w, "retryable")
  /\ Leave(w)
  /\ UNCHANGED <<attempts, doc, text, reaping, retrying, requests, faults,
                 contested>>

\* failed(retryable=False), or no attempt left.
FailForGood(w) ==
  /\ DocumentFree
  /\ pc[w] = "work"
  /\ WorkAhead(w)
  /\ \/ SetRow(w, "failed")
     \/ ~AttemptLeft(w) /\ SetRow(w, "dead_letter")
  /\ MarkTerminal
  /\ Leave(w)
  /\ UNCHANGED <<attempts, current, text, reaping, retrying, requests, faults,
                 contested>>

\* cancelled(): the unlocked SELECT that opens the task's next transaction.
CheckCancel(w) ==
  /\ pc[w] = "work"
  /\ pc' = [pc EXCEPT ![w] = IF status[task[w]] = "cancel_requested"
                             THEN "cancelling" ELSE "checked"]
  /\ UNCHANGED <<rows, doc, text, task, held, batch, reaping, retrying,
                 requests, faults, contested>>

\* finalize_cancel_requested, the UPDATE after its SELECT.
FinalizeCancel(w) ==
  /\ DocumentFree
  /\ pc[w] = "cancelling"
  /\ SetRow(w, "cancelled")
  /\ MarkTerminal
  /\ Leave(w)
  /\ UNCHANGED <<attempts, current, text, reaping, retrying, requests, faults,
                 contested>>

\* The last transaction of parse: text stored, row finished, chunk opened.
\* Its first INSERT of a text waits, through the foreign key, for a retry that
\* has locked the file version.
ParseCommit(w) ==
  LET chunk == Row(task[w], "chunk") IN
  /\ pc[w] = "checked"
  /\ task[w][2] = "parse"
  /\ DocumentFree \/ task[w][1] \in derived \/ task[w][1] # current
  /\ derived' = derived \cup {task[w][1]}
  /\ status' = [status EXCEPT ![task[w]] = "succeeded",
                              ![chunk] = IF @ = "blocked" THEN "queued" ELSE @]
  /\ lease' = [lease EXCEPT ![task[w]] = "none"]
  /\ Leave(w)
  /\ UNCHANGED <<attempts, doc, chunked, embedded, reaping, retrying, requests,
                 faults, contested>>

\* The transaction that stores the vectors of one batch.
EmbedBatch(w) ==
  /\ pc[w] = "checked"
  /\ task[w][2] = "embed"
  /\ batch[w] <= Batches
  /\ embedded' = [embedded EXCEPT ![task[w][1]] = IF @ < batch[w] THEN batch[w]
                                                  ELSE @]
  /\ batch' = [batch EXCEPT ![w] = @ + 1]
  /\ pc' = [pc EXCEPT ![w] = "work"]
  /\ UNCHANGED <<rows, doc, derived, chunked, task, held, reaping, retrying,
                 requests, faults, contested>>

\* The last transaction of embed: the row is finished and the document,
\* whatever its current version, is ready.
EmbedCommit(w) ==
  /\ DocumentFree
  /\ pc[w] = "checked"
  /\ task[w][2] = "embed"
  /\ batch[w] > Batches
  /\ SetRow(w, "succeeded")
  /\ fileState' = "ready"
  /\ Leave(w)
  /\ UNCHANGED <<attempts, current, text, reaping, retrying, requests, faults,
                 contested>>

\* The task raises, Postgres aborts it, or its process dies, and with it the
\* reconciliation pass: nothing of the open transaction stays, the row keeps
\* its status and its lease.
Die(w) ==
  /\ faults < FaultCap
  /\ Busy(w) \/ reaping[w] # {}
  /\ Leave(w)
  /\ reaping' \in {reaping, [reaping EXCEPT ![w] = {}]}
  /\ faults' = faults + 1
  /\ UNCHANGED <<rows, doc, text, retrying, requests, contested>>

\* Ten minutes pass.  A task that is still at work is not told.
ExpireLease(j) ==
  LET late == \E w \in Worker : task[w] = j IN
  /\ lease[j] = "live"
  /\ late => faults < FaultCap
  /\ lease' = [lease EXCEPT ![j] = "expired"]
  /\ contested' = IF late THEN contested \cup {j} ELSE contested
  /\ faults' = IF late THEN faults + 1 ELSE faults
  /\ UNCHANGED <<status, attempts, doc, text, workers, reaping, retrying,
                 requests>>

-----------------------------------------------------------------------------
(* Reconciliation of orphaned cancel requests, in every worker process.    *)

M_Orphaned(j) == status[j] = "cancel_requested" /\ lease[j] = "none"

\* A cancel request whose lease is over: no task will finalize it.
Orphaned(j) == status[j] = "cancel_requested" /\ lease[j] # "live"

\* The first connection of reconcile_once reads the orphans.  Passes of two
\* workers may overlap.
ReapRead(w) ==
  LET orphans == {j \in Job : Orphaned(j)}
      twice   == {j \in orphans : \E u \in Worker : j \in reaping[u]}
  IN
  /\ reaping[w] = {}
  /\ orphans # {}
  /\ twice # {} => faults < FaultCap
  /\ reaping' = [reaping EXCEPT ![w] = orphans]
  /\ contested' = contested \cup twice
  /\ faults' = IF twice # {} THEN faults + 1 ELSE faults
  /\ UNCHANGED <<rows, doc, text, workers, retrying, requests>>

\* The second one closes those still asked to cancel, and marks the document
\* for each row it read.
Reap(w) ==
  LET closed == {j \in reaping[w] : status[j] = "cancel_requested"} IN
  /\ DocumentFree
  /\ reaping[w] # {}
  /\ status' = [j \in Job |-> IF j \in closed THEN "cancelled" ELSE status[j]]
  /\ lease' = [j \in Job |-> IF j \in closed THEN "none" ELSE lease[j]]
  /\ MarkTerminal
  /\ reaping' = [reaping EXCEPT ![w] = {}]
  /\ UNCHANGED <<attempts, current, text, workers, retrying, requests, faults,
                 contested>>

-----------------------------------------------------------------------------
TaskStep(w) ==
  \/ FailForNow(w) \/ FailForGood(w)
  \/ CheckCancel(w) \/ FinalizeCancel(w)
  \/ ParseCommit(w) \/ EmbedBatch(w) \/ EmbedCommit(w)

Start(w, j) ==
  \/ Claim(w, j) \/ EmbedNothingLeft(w, j) \/ RejectMissing(w, j)
  \/ RejectText(w, j) \/ Chunk(w, j)

Next ==
  \/ \E v \in Version : Publish(v)
  \/ Cancel \/ RetryRead \/ RetryWrite
  \/ \E w \in Worker, j \in Job : Start(w, j)
  \/ \E w \in Worker : TaskStep(w) \/ Die(w) \/ ReapRead(w) \/ Reap(w)
  \/ \E j \in Job : ExpireLease(j)

Spec == Init /\ [][Next]_vars

\* Tasks do not hang, redelivery reaches claimable rows, leases run out, and
\* reconciliation passes keep coming every fifteen seconds.  Every row is
\* claimed a bounded number of times, so it is enough that some task goes on.
Fairness ==
  /\ WF_vars(\E w \in Worker : TaskStep(w))
  /\ WF_vars(\E w \in Worker, j \in Job : Start(w, j))
  /\ WF_vars(\E j \in Job : ExpireLease(j))
  /\ \A w \in Worker : WF_vars(ReapRead(w) \/ Reap(w))
  /\ WF_vars(RetryWrite)

FairSpec == Spec /\ Fairness

-----------------------------------------------------------------------------
(* Correctness.                                                            *)

\* Every variable holds a value its column or the task can hold.
TypeOK ==
  /\ status \in [Job -> Status]
  /\ attempts \in [Job -> Nat]
  /\ lease \in [Job -> {"none", "live", "expired"}]
  /\ current \in Version
  /\ fileState \in {"pending", "ready", "failed"}
  /\ derived \subseteq Version
  /\ chunked \subseteq Version
  /\ embedded \in [Version -> 0..Batches]
  /\ pc \in [Worker -> PC]
  /\ task \in [Worker -> Job \cup {NoJob}]
  /\ held \in [Worker -> Nat]
  /\ batch \in [Worker -> 0..(Batches + 1)]
  /\ reaping \in [Worker -> SUBSET Job]
  /\ retrying \subseteq Stage
  /\ requests \in Nat
  /\ faults \in Nat
  /\ contested \subseteq Job

\* A task at work still owns its row, unless it outlived its lease or two passes
\* had read the row at once: no other task runs it, and nobody has finished,
\* closed or reopened it meanwhile (claim, finish, failed, cancel, retry and
\* reconcile_once all write the row by its id, none of them checks an owner).
\* The row of a chunk stage, which its transaction holds, is never contested.
TasksOwnTheirRows ==
  /\ \A w \in Worker : Busy(w) /\ task[w] \notin contested =>
       /\ status[task[w]] \in {"running", "cancel_requested"}
       /\ \A u \in Worker : Busy(u) /\ task[u] = task[w] => u = w
  /\ \A v \in Version : <<v, "chunk">> \notin contested

\* What a stage reads is there when it starts: an open embed stage has its
\* chunks, and chunks are written exactly when the chunk row succeeds, so the
\* branch of the chunk task that finds older chunks never runs.
InputsInPlace ==
  \A v \in Version :
    /\ v \in chunked <=> status[<<v, "chunk">>] = "succeeded"
    /\ v \in chunked => v \in derived
    /\ status[<<v, "embed">>] \notin {"absent", "blocked", "cancelled"}
         => v \in chunked

\* A document is ready only if one of its published versions has all its chunks,
\* every one of them embedded, and all its stages succeeded.  Late tasks may
\* overwrite the outcome of a contested stage, not what it has produced.
ReadyIsEarned ==
  fileState = "ready" =>
    \E v \in Published :
      /\ v \in derived /\ v \in chunked /\ embedded[v] = Batches
      /\ \A s \in Stage :
           status[<<v, s>>] = "succeeded" \/ <<v, s>> \in contested

Live == {"queued", "retryable", "running", "cancel_requested"}

\* Some stage of the current version was contested.
Disputed == \E s \in Stage : <<current, s>> \in contested

\* A pending document has a stage of its current version that will still run
\* or be closed: unless late tasks wrote over one, it is never left pending with
\* nothing to do.
NoStrandedDocument ==
  fileState = "pending" /\ current \in Published /\ ~Disputed =>
    \E s \in Stage : status[<<current, s>>] \in Live

\* A stopped stage of the current version never shows as pending.
StoppedIsShown ==
  (\E s \in Stage : status[<<current, s>>] \in Terminal) =>
    fileState # "pending"

\* A document shows as pending exactly as long as its current version is under
\* way, whatever tasks, retries and reconcilers ran at once.
PendingIsTrue == NoStrandedDocument /\ StoppedIsShown

\* A failed document has stopped: a stage of its current version is closed.
FailedMeansStopped ==
  fileState = "failed" =>
    \E s \in Stage : status[<<current, s>>] \in Terminal

\* The document is ready because its current version is.
ReadyIsCurrent ==
  fileState = "ready" => status[<<current, "embed">>] = "succeeded"

\* Only a death or a late task lets a row be attempted more than MaxAttempts
\* times between two retries.
AttemptsBounded == \A j \in Job : attempts[j] <= MaxAttempts + faults

\* A dependent stage leaves blocked for work only after its predecessor.  The
\* code does not keep this.
StageOrder ==
  \A v \in Version :
    status[<<v, "chunk">>] \in Live \cup {"succeeded"}
      => status[<<v, "parse">>] = "succeeded"

\* A succeeded stage that nobody contested is never downgraded.
SucceededStays ==
  [][\A j \in Job : status[j] = "succeeded" /\ j \notin contested
        => status'[j] = "succeeded"]_vars

\* A stage asked to cancel is finalized as cancelled.  The code does not keep
\* this.
CancelIsFinal ==
  [][\A j \in Job : status[j] = "cancel_requested"
        => status'[j] \in {"cancel_requested", "cancelled"}]_vars

\* Once requests, faults and publications end, every row comes to rest and
\* the document shows ready or failed, unless late tasks wrote over its stages.
Settled ==
  current \in Published /\ ~Disputed =>
    /\ fileState # "pending"
    /\ \A s \in Stage : status[<<current, s>>] \notin Live

EventuallySettled == <>[]Settled

\* The life of the stages this module promises.
Phase(s) ==
  CASE s = "absent" -> "none"
    [] s = "blocked" -> "waiting"
    [] s \in {"queued", "retryable"} -> "open"
    [] s \in {"running", "cancel_requested"} -> "held"
    [] s = "succeeded" -> "done"
    [] OTHER -> "stopped"

Lifecycle == INSTANCE StageLifecycle
  WITH phase <- [j \in Job |-> Phase(status[j])], contested <- contested

\* The rows implement the life of a stage of StageLifecycle.
ImplementsLifecycle == Lifecycle!Spec

=============================================================================
