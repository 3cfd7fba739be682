--------------------------- MODULE IngestionProofs ---------------------------
(***************************************************************************)
(* Invariants of Ingestion proved for every number of workers, versions,   *)
(* batches, attempts and requests.                                         *)
(***************************************************************************)
EXTENDS Ingestion, TLAPS

(***************************************************************************)
(* InputsInPlace is not inductive.  It needs that the three rows of a      *)
(* version appear together, that no task ever holds a chunk row, that a    *)
(* cancelled embed row has a closed chunk row before it, that a running    *)
(* embed task has its chunks, and that a retry which read embed as the     *)
(* only terminal stage found the chunks there.                             *)
(***************************************************************************)
RowsTogether ==
  \A v \in Version :
    /\ status[<<v, "parse">>] = "absent" <=> status[<<v, "chunk">>] = "absent"
    /\ status[<<v, "parse">>] = "absent" <=> status[<<v, "embed">>] = "absent"

ChunkNeverHeld ==
  \A v \in Version :
    status[<<v, "chunk">>] \notin {"running", "cancel_requested", "retryable"}

CancelledTogether ==
  \A v \in Version : status[<<v, "embed">>] = "cancelled" =>
    status[<<v, "chunk">>] \in Terminal \cup {"succeeded"}

TasksHaveInputs ==
  \A w \in Worker : Busy(w) =>
    /\ task[w] \in Job
    /\ task[w][2] \in {"parse", "embed"}
    /\ status[<<task[w][1], "parse">>] # "absent"
    /\ task[w][2] = "embed" => task[w][1] \in chunked

RetryReadInputs == retrying = {"embed"} => current \in chunked

InputsInv ==
  /\ TypeOK
  /\ InputsInPlace
  /\ RowsTogether
  /\ ChunkNeverHeld
  /\ CancelledTogether
  /\ TasksHaveInputs
  /\ RetryReadInputs

\* Stages and their order, once and for all.
LEMMA StageFacts ==
  /\ Stage = {"parse", "chunk", "embed"}
  /\ Later("parse") = {"chunk", "embed"}
  /\ Later("chunk") = {"embed"}
  /\ Later("embed") = {}
  BY DEF Stage, Later

\* A retry restarts the earliest stage it read: embed only if it read nothing
\* else, chunk only if it did not read parse (the order list of retry).
LEMMA RestartEarliest ==
  ASSUME NEW S \in SUBSET Stage, S # {}
  PROVE  /\ Restart(S) \in S
         /\ Restart(S) = "embed" => S = {"embed"}
         /\ Restart(S) = "chunk" => "parse" \notin S
<1>1. \E s \in S : \A t \in S : t = s \/ t \in Later(s)
  <2>1. CASE "parse" \in S
    BY <2>1, StageFacts
  <2>2. CASE "parse" \notin S /\ "chunk" \in S
    BY <2>2, StageFacts
  <2>3. CASE "parse" \notin S /\ "chunk" \notin S
    <3>1. \A t \in S : t = "embed"
      BY <2>3, StageFacts
    <3>2. \E s \in S : TRUE
      OBVIOUS
    <3>3. QED
      BY <3>1, <3>2
  <2>4. QED
    BY <2>1, <2>2, <2>3
<1>2. /\ Restart(S) \in S
      /\ \A t \in S : t = Restart(S) \/ t \in Later(Restart(S))
  BY <1>1 DEF Restart
<1>3. QED
  BY <1>2, StageFacts

\* A task that ends leaves its worker's variables well typed.
LEMMA LeaveType ==
  ASSUME TypeOK, NEW w \in Worker, Leave(w)
  PROVE  /\ pc' \in [Worker -> PC]
         /\ task' \in [Worker -> Job \cup {NoJob}]
         /\ held' \in [Worker -> Nat]
         /\ batch' \in [Worker -> 0..(Batches + 1)]
<1>1. 0 \in 0..(Batches + 1)
  BY ConstantsAssumption
<1>2. QED
  BY <1>1 DEF TypeOK, Leave, PC

\* A row that a task writes stays well typed.
LEMMA SetRowType ==
  ASSUME TypeOK, NEW w \in Worker, NEW o \in Status, SetRow(w, o)
  PROVE  /\ status' \in [Job -> Status]
         /\ lease' \in [Job -> {"none", "live", "expired"}]
BY DEF TypeOK, SetRow

\* So does a row that is claimed and ended at once.
LEMMA ClaimAndEndType ==
  ASSUME TypeOK, NEW w \in Worker, NEW j \in Job, NEW o \in Status, ClaimAndEnd(w, j, o)
  PROVE  /\ status' \in [Job -> Status]
         /\ attempts' \in [Job -> Nat]
         /\ lease' \in [Job -> {"none", "live", "expired"}]
<1>1. attempts[j] + 1 \in Nat
  BY DEF TypeOK
<1>2. QED
  BY <1>1 DEF TypeOK, ClaimAndEnd

LEMMA MarkTerminalType ==
  ASSUME TypeOK, MarkTerminal
  PROVE  fileState' \in {"pending", "ready", "failed"}
BY DEF TypeOK, MarkTerminal

LEMMA InputsInit == Init => InputsInv
BY ConstantsAssumption
   DEF Init, InputsInv, TypeOK, InputsInPlace, RowsTogether, ChunkNeverHeld,
       CancelledTogether, TasksHaveInputs, RetryReadInputs, Busy, Job, Stage,
       Version, Status, PC, NoJob

LEMMA InputsPublish ==
  ASSUME InputsInv, NEW v \in Version, Publish(v)
  PROVE  InputsInv'
<1>1. TypeOK'
  BY DEF InputsInv, TypeOK, Publish, Job, Stage, Status, Version, text, workers
<1>2. InputsInPlace'
  BY DEF InputsInv, TypeOK, InputsInPlace, RowsTogether, Publish, Job, Stage,
         text
<1>3. RowsTogether' /\ ChunkNeverHeld' /\ CancelledTogether'
  BY DEF InputsInv, TypeOK, RowsTogether, ChunkNeverHeld, CancelledTogether,
         Publish, Job, Stage, Terminal
<1>4. TasksHaveInputs'
  BY DEF InputsInv, TypeOK, TasksHaveInputs, Busy, Publish, Job, Stage, text,
         workers
<1>5. RetryReadInputs'
  BY DEF RetryReadInputs, Publish, DocumentFree
<1>6. QED
  BY <1>1, <1>2, <1>3, <1>4, <1>5 DEF InputsInv

LEMMA InputsCancel ==
  ASSUME InputsInv, Cancel
  PROVE  InputsInv'
<1>1. TypeOK'
  BY SMTT(60) DEF InputsInv, TypeOK, Busy, Job, Stage, Status, PC, Version, NoJob,
         Terminal, Cancel, DocumentFree, MarkTerminal, text, workers
<1>2. InputsInPlace'
  BY DEF InputsInv, TypeOK, InputsInPlace, RowsTogether, ChunkNeverHeld,
         CancelledTogether, TasksHaveInputs, RetryReadInputs, Busy, Job, Stage,
         Terminal, Cancel, DocumentFree, MarkTerminal, text, workers
<1>3. RowsTogether' /\ ChunkNeverHeld' /\ CancelledTogether'
  <2>1. ASSUME NEW j \in Job
        PROVE  /\ status[j] = "absent" <=> status'[j] = "absent"
               /\ status'[j] = "cancel_requested" =>
                    status[j] \in {"running", "cancel_requested"}
               /\ status'[j] \in {"running", "retryable"} => status[j] = status'[j]
    BY DEF InputsInv, TypeOK, Cancel
  <2>2. \A v \in Version, s \in Stage : <<v, s>> \in Job
    BY DEF Job
  <2>3. RowsTogether' /\ ChunkNeverHeld'
    BY <2>1, <2>2 DEF InputsInv, RowsTogether, ChunkNeverHeld, Stage
  <2>4. ASSUME NEW v \in Version, status'[<<v, "embed">>] = "cancelled"
        PROVE  status'[<<v, "chunk">>] \in Terminal \cup {"succeeded"}
    <3>1. CASE v # current \/ status[<<v, "embed">>] = "cancelled"
      <4>1. status[<<v, "embed">>] = "cancelled"
        BY <2>2, <2>4, <3>1 DEF InputsInv, TypeOK, Cancel, Stage
      <4>2. status[<<v, "chunk">>] \in Terminal \cup {"succeeded"}
        BY <4>1 DEF InputsInv, CancelledTogether
      <4>3. QED
        BY <2>2, <4>2 DEF InputsInv, TypeOK, Cancel, Stage, Terminal
    <3>2. CASE v = current /\ status[<<v, "embed">>] # "cancelled"
      <4>1. status[<<v, "embed">>] \in {"queued", "retryable", "blocked"}
        BY <2>2, <2>4, <3>2 DEF InputsInv, TypeOK, Cancel, Stage
      <4>2. status[<<v, "chunk">>] \in
              {"blocked", "queued", "succeeded"} \cup Terminal
        BY <2>2, <4>1
        DEF InputsInv, TypeOK, RowsTogether, ChunkNeverHeld, Stage,
                          Status, Terminal
      <4>3. QED
        BY <2>2, <3>2, <4>2 DEF InputsInv, TypeOK, Cancel, Stage, Terminal
    <3>3. QED
      BY <3>1, <3>2
  <2>5. QED
    BY <2>3, <2>4 DEF CancelledTogether
<1>4. TasksHaveInputs'
  BY DEF InputsInv, TypeOK, InputsInPlace, TasksHaveInputs, RowsTogether, Busy,
         Job, Stage, Terminal, NoJob, Cancel, DocumentFree, MarkTerminal, text,
         workers
<1>5. RetryReadInputs'
  BY DEF InputsInv, TypeOK, InputsInPlace, ChunkNeverHeld, CancelledTogether,
         RetryReadInputs, Job, Stage, Status, Terminal, Cancel, DocumentFree,
         MarkTerminal, text, workers
<1>6. QED
  BY <1>1, <1>2, <1>3, <1>4, <1>5 DEF InputsInv

LEMMA InputsRetryRead ==
  ASSUME InputsInv, RetryRead
  PROVE  InputsInv'
<1>1. TypeOK'
  BY DEF InputsInv, TypeOK, Busy, Job, Stage, Status, PC, Version, NoJob,
         Terminal, RetryRead, DocumentFree, rows, doc, text, workers
<1>2. InputsInPlace'
  BY DEF InputsInv, TypeOK, InputsInPlace, RowsTogether, ChunkNeverHeld,
         CancelledTogether, TasksHaveInputs, RetryReadInputs, Busy, Job, Stage,
         Terminal, RetryRead, DocumentFree, rows, doc, text, workers
<1>3. RowsTogether' /\ ChunkNeverHeld' /\ CancelledTogether'
  BY DEF InputsInv, TypeOK, InputsInPlace, RowsTogether, ChunkNeverHeld,
         CancelledTogether, TasksHaveInputs, Busy, Job, Stage, Terminal,
         RetryRead, DocumentFree, rows, doc, text, workers
<1>4. TasksHaveInputs'
  BY DEF InputsInv, TypeOK, InputsInPlace, TasksHaveInputs, RowsTogether, Busy,
         Job, Stage, Terminal, NoJob, RetryRead, DocumentFree, rows, doc, text,
         workers
<1>5. RetryReadInputs'
  <2>1. SUFFICES ASSUME {s \in Stage : status[<<current, s>>] \in Terminal} = {"embed"}
                 PROVE  current \in chunked
    BY DEF RetryReadInputs, RetryRead, doc, text
  <2>2. /\ status[<<current, "embed">>] \in Terminal
        /\ status[<<current, "chunk">>] \notin Terminal
    BY <2>1, StageFacts
  <2>3. QED
    BY <2>2 DEF InputsInv, TypeOK, InputsInPlace, CancelledTogether, Terminal
<1>6. QED
  BY <1>1, <1>2, <1>3, <1>4, <1>5 DEF InputsInv

LEMMA InputsClaim ==
  ASSUME InputsInv, NEW w \in Worker, NEW j \in Job, Claim(w, j)
  PROVE  InputsInv'
<1>1. TypeOK'
  <2>1. batch' \in [Worker -> 0..(Batches + 1)]
    <3>1. (IF j[2] = "embed" THEN embedded[j[1]] + 1 ELSE 0) \in 0..(Batches + 1)
      BY ConstantsAssumption DEF InputsInv, TypeOK, Claim, Job
    <3>2. QED
      BY <3>1 DEF InputsInv, TypeOK, Claim
  <2>2. attempts' \in [Job -> Nat] /\ held' \in [Worker -> Nat]
    BY DEF InputsInv, TypeOK, Claim
  <2>3. /\ status' \in [Job -> Status]
        /\ lease' \in [Job -> {"none", "live", "expired"}]
        /\ pc' \in [Worker -> PC]
        /\ task' \in [Worker -> Job \cup {NoJob}]
    BY DEF InputsInv, TypeOK, Claim, Status, PC
  <2>4. QED
    BY <2>1, <2>2, <2>3 DEF InputsInv, TypeOK, Claim, doc, text
<1>2. InputsInPlace'
  BY ConstantsAssumption
  DEF InputsInv, TypeOK, InputsInPlace, RowsTogether, ChunkNeverHeld,
      CancelledTogether, TasksHaveInputs, RetryReadInputs, Busy, Job, Stage,
      Terminal, Claim, Claimable, InputMissing, doc, text
<1>3. RowsTogether' /\ ChunkNeverHeld' /\ CancelledTogether'
  BY ConstantsAssumption
  DEF InputsInv, TypeOK, InputsInPlace, RowsTogether, ChunkNeverHeld,
      CancelledTogether, TasksHaveInputs, Busy, Job, Stage, Terminal, Claim,
      Claimable, InputMissing, doc, text
<1>4. TasksHaveInputs'
  <2>1. ASSUME NEW u \in Worker, u # w, Busy(u)'
        PROVE  Busy(u) /\ task'[u] = task[u]
    BY <2>1 DEF InputsInv, TypeOK, Claim, Busy
  <2>2. task'[w] = j /\ j[1] \in Version
    BY DEF InputsInv, TypeOK, Claim, Job
  <2>3. \A i \in Job : status[i] # "absent" => status'[i] # "absent"
    BY DEF InputsInv, TypeOK, Claim
  <2>4. status[<<j[1], "parse">>] # "absent"
    <3>1. PICK v \in Version : j = <<v, "parse">> \/ j = <<v, "embed">>
      BY DEF Claim, Job
    <3>2. status[j] # "absent"
      BY DEF Claim, Claimable
    <3>3. j[1] = v
      BY <3>1
    <3>4. status[<<v, "parse">>] # "absent"
      BY <3>1, <3>2 DEF InputsInv, RowsTogether
    <3>5. QED
      BY <3>3, <3>4
  <2>5. \A v \in Version : <<v, "parse">> \in Job
    BY DEF Job, Stage
  <2>6. \A i \in Job : i[1] \in Version
    BY DEF Job
  <2>7. chunked' = chunked /\ (j[2] = "embed" => j[1] \in chunked)
    BY DEF Claim, InputMissing, text
  <2>8. ASSUME NEW u \in Worker, u # w, Busy(u)'
        PROVE  /\ task'[u] \in Job
               /\ task'[u][2] \in {"parse", "embed"}
               /\ status'[<<task'[u][1], "parse">>] # "absent"
               /\ task'[u][2] = "embed" => task'[u][1] \in chunked'
    BY <2>1, <2>3, <2>5, <2>6, <2>7, <2>8 DEF InputsInv, TasksHaveInputs
  <2>9. /\ j[2] \in {"parse", "embed"}
        /\ status'[<<j[1], "parse">>] # "absent"
    BY <2>2, <2>3, <2>4, <2>5 DEF Claim
  <2>10. QED
    BY <2>2, <2>7, <2>8, <2>9 DEF TasksHaveInputs
<1>5. RetryReadInputs'
  BY ConstantsAssumption
  DEF InputsInv, TypeOK, InputsInPlace, ChunkNeverHeld, CancelledTogether,
      RetryReadInputs, Job, Stage, Status, Terminal, Claim, Claimable,
      InputMissing, doc, text
<1>6. QED
  BY <1>1, <1>2, <1>3, <1>4, <1>5 DEF InputsInv

LEMMA InputsEmbedNothingLeft ==
  ASSUME InputsInv, NEW w \in Worker, NEW j \in Job, EmbedNothingLeft(w, j)
  PROVE  InputsInv'
<1>1. TypeOK'
  BY DEF InputsInv, TypeOK, Busy, Job, Stage, Status, PC, Version, NoJob,
         Terminal, EmbedNothingLeft, ClaimAndEnd, Claimable, InputMissing,
         DocumentFree, text, workers
<1>2. InputsInPlace'
  BY DEF InputsInv, TypeOK, InputsInPlace, RowsTogether, ChunkNeverHeld,
         CancelledTogether, TasksHaveInputs, RetryReadInputs, Busy, Job, Stage,
         Terminal, EmbedNothingLeft, ClaimAndEnd, Claimable, InputMissing,
         DocumentFree, text, workers
<1>3. RowsTogether' /\ ChunkNeverHeld' /\ CancelledTogether'
  BY DEF InputsInv, TypeOK, InputsInPlace, RowsTogether, ChunkNeverHeld,
         CancelledTogether, TasksHaveInputs, Busy, Job, Stage, Terminal,
         EmbedNothingLeft, ClaimAndEnd, Claimable, InputMissing, DocumentFree,
         text, workers
<1>4. TasksHaveInputs'
  BY DEF InputsInv, TypeOK, InputsInPlace, TasksHaveInputs, RowsTogether, Busy,
         Job, Stage, Terminal, NoJob, EmbedNothingLeft, ClaimAndEnd, Claimable,
         InputMissing, DocumentFree, text, workers
<1>5. RetryReadInputs'
  BY DEF InputsInv, TypeOK, InputsInPlace, ChunkNeverHeld, CancelledTogether,
         RetryReadInputs, Job, Stage, Status, Terminal, EmbedNothingLeft,
         ClaimAndEnd, Claimable, InputMissing, DocumentFree, text, workers
<1>6. QED
  BY <1>1, <1>2, <1>3, <1>4, <1>5 DEF InputsInv

LEMMA InputsRejectMissing ==
  ASSUME InputsInv, NEW w \in Worker, NEW j \in Job, RejectMissing(w, j)
  PROVE  InputsInv'
<1>1. TypeOK'
  <2>1. TypeOK /\ "failed" \in Status
    BY DEF InputsInv, Status
  <2>2. ClaimAndEnd(w, j, "failed") /\ MarkTerminal
    BY DEF RejectMissing
  <2>3. UNCHANGED <<current, text, workers, reaping, retrying, requests, faults,
                 contested>>
    BY DEF RejectMissing
  <2>4. QED
    BY <2>1, <2>2, <2>3, ClaimAndEndType, MarkTerminalType DEF TypeOK, text, workers
<1>2. InputsInPlace'
  BY DEF InputsInv, TypeOK, InputsInPlace, RowsTogether, ChunkNeverHeld,
         CancelledTogether, TasksHaveInputs, RetryReadInputs, Busy, Job, Stage,
         Terminal, RejectMissing, ClaimAndEnd, Claimable, InputMissing,
         DocumentFree, MarkTerminal, text, workers
<1>3. RowsTogether' /\ ChunkNeverHeld' /\ CancelledTogether'
  BY DEF InputsInv, TypeOK, InputsInPlace, RowsTogether, ChunkNeverHeld,
         CancelledTogether, TasksHaveInputs, Busy, Job, Stage, Terminal,
         RejectMissing, ClaimAndEnd, Claimable, InputMissing, DocumentFree,
         MarkTerminal, text, workers
<1>4. TasksHaveInputs'
  BY DEF InputsInv, TypeOK, InputsInPlace, TasksHaveInputs, RowsTogether, Busy,
         Job, Stage, Terminal, NoJob, RejectMissing, ClaimAndEnd, Claimable,
         InputMissing, DocumentFree, MarkTerminal, text, workers
<1>5. RetryReadInputs'
  BY DEF InputsInv, TypeOK, InputsInPlace, ChunkNeverHeld, CancelledTogether,
         RetryReadInputs, Job, Stage, Status, Terminal, RejectMissing,
         ClaimAndEnd, Claimable, InputMissing, DocumentFree, MarkTerminal, text,
         workers
<1>6. QED
  BY <1>1, <1>2, <1>3, <1>4, <1>5 DEF InputsInv

LEMMA InputsRejectText ==
  ASSUME InputsInv, NEW w \in Worker, NEW j \in Job, RejectText(w, j)
  PROVE  InputsInv'
<1>1. TypeOK'
  <2>1. TypeOK /\ "failed" \in Status
    BY DEF InputsInv, Status
  <2>2. ClaimAndEnd(w, j, "failed") /\ MarkTerminal
    BY DEF RejectText
  <2>3. UNCHANGED <<current, text, workers, reaping, retrying, requests, faults,
                 contested>>
    BY DEF RejectText
  <2>4. QED
    BY <2>1, <2>2, <2>3, ClaimAndEndType, MarkTerminalType DEF TypeOK, text, workers
<1>2. InputsInPlace'
  BY DEF InputsInv, TypeOK, InputsInPlace, RowsTogether, ChunkNeverHeld,
         CancelledTogether, TasksHaveInputs, RetryReadInputs, Busy, Job, Stage,
         Terminal, RejectText, ClaimAndEnd, Claimable, InputMissing,
         DocumentFree, MarkTerminal, text, workers
<1>3. RowsTogether' /\ ChunkNeverHeld' /\ CancelledTogether'
  BY DEF InputsInv, TypeOK, InputsInPlace, RowsTogether, ChunkNeverHeld,
         CancelledTogether, TasksHaveInputs, Busy, Job, Stage, Terminal,
         RejectText, ClaimAndEnd, Claimable, InputMissing, DocumentFree,
         MarkTerminal, text, workers
<1>4. TasksHaveInputs'
  BY DEF InputsInv, TypeOK, InputsInPlace, TasksHaveInputs, RowsTogether, Busy,
         Job, Stage, Terminal, NoJob, RejectText, ClaimAndEnd, Claimable,
         InputMissing, DocumentFree, MarkTerminal, text, workers
<1>5. RetryReadInputs'
  BY DEF InputsInv, TypeOK, InputsInPlace, ChunkNeverHeld, CancelledTogether,
         RetryReadInputs, Job, Stage, Status, Terminal, RejectText, ClaimAndEnd,
         Claimable, InputMissing, DocumentFree, MarkTerminal, text, workers
<1>6. QED
  BY <1>1, <1>2, <1>3, <1>4, <1>5 DEF InputsInv

LEMMA InputsChunk ==
  ASSUME InputsInv, NEW w \in Worker, NEW j \in Job, Chunk(w, j)
  PROVE  InputsInv'
<1>1. TypeOK'
  <2>1. j[1] \in Version /\ Row(j, "embed") \in Job /\ Row(j, "embed") # j
    BY DEF Chunk, Job, Stage, Row
  <2>2. status' \in [Job -> Status]
    BY <2>1 DEF InputsInv, TypeOK, Chunk, Status
  <2>3. attempts' \in [Job -> Nat] /\ lease' \in [Job -> {"none", "live", "expired"}]
    BY DEF InputsInv, TypeOK, Chunk
  <2>4. QED
    BY <2>1, <2>2, <2>3 DEF InputsInv, TypeOK, Chunk, doc, workers
<1>2. InputsInPlace'
  <2>1. PICK c \in Version : j = <<c, "chunk">>
    BY DEF Chunk, Job, Stage
  <2>2. /\ status'[<<c, "chunk">>] = "succeeded"
        /\ c \in derived
        /\ chunked' = chunked \cup {c} /\ derived' = derived
    BY <2>1 DEF InputsInv, TypeOK, Chunk, InputMissing, Row, Job, Stage
  <2>3. ASSUME NEW v \in Version, v # c
        PROVE  \A s \in Stage : status'[<<v, s>>] = status[<<v, s>>]
    BY <2>1, <2>3 DEF InputsInv, TypeOK, Chunk, Row, Job, Stage
  <2>4. QED
    BY <2>2, <2>3 DEF InputsInv, TypeOK, InputsInPlace, Stage
<1>3. RowsTogether' /\ ChunkNeverHeld' /\ CancelledTogether'
  BY ZenonT(60) DEF InputsInv, TypeOK, InputsInPlace, RowsTogether, ChunkNeverHeld,
         CancelledTogether, TasksHaveInputs, Busy, Job, Stage, Terminal, Chunk,
         Claimable, InputMissing, DocumentFree, Row, doc, workers
<1>4. TasksHaveInputs'
  BY DEF InputsInv, TypeOK, InputsInPlace, TasksHaveInputs, RowsTogether, Busy,
         Job, Stage, Terminal, NoJob, Chunk, Claimable, InputMissing,
         DocumentFree, Row, doc, workers
<1>5. RetryReadInputs'
  BY DEF InputsInv, TypeOK, InputsInPlace, ChunkNeverHeld, CancelledTogether,
         RetryReadInputs, Job, Stage, Status, Terminal, Chunk, Claimable,
         InputMissing, DocumentFree, Row, doc, workers
<1>6. QED
  BY <1>1, <1>2, <1>3, <1>4, <1>5 DEF InputsInv

LEMMA InputsFailForNow ==
  ASSUME InputsInv, NEW w \in Worker, FailForNow(w)
  PROVE  InputsInv'
<1>1. TypeOK'
  BY LeaveType, SetRowType, MarkTerminalType
  DEF InputsInv, TypeOK, FailForNow, Status, doc, text
<1>2. InputsInPlace'
  BY ZenonT(60) DEF InputsInv, TypeOK, InputsInPlace, RowsTogether, ChunkNeverHeld,
         CancelledTogether, TasksHaveInputs, RetryReadInputs, Busy, Job, Stage,
         Terminal, FailForNow, SetRow, Leave, doc, text
<1>3. RowsTogether' /\ ChunkNeverHeld' /\ CancelledTogether'
  BY ZenonT(60) DEF InputsInv, TypeOK, InputsInPlace, RowsTogether, ChunkNeverHeld,
         CancelledTogether, TasksHaveInputs, Busy, Job, Stage, Terminal,
         FailForNow, SetRow, Leave, doc, text
<1>4. TasksHaveInputs'
  BY DEF InputsInv, TypeOK, InputsInPlace, TasksHaveInputs, RowsTogether, Busy,
         Job, Stage, Terminal, NoJob, FailForNow, SetRow, Leave, doc, text
<1>5. RetryReadInputs'
  BY DEF InputsInv, TypeOK, InputsInPlace, ChunkNeverHeld, CancelledTogether,
         RetryReadInputs, Job, Stage, Status, Terminal, FailForNow, SetRow,
         Leave, doc, text
<1>6. QED
  BY <1>1, <1>2, <1>3, <1>4, <1>5 DEF InputsInv

LEMMA InputsFailForGood ==
  ASSUME InputsInv, NEW w \in Worker, FailForGood(w)
  PROVE  InputsInv'
<1>0. PICK o \in {"failed", "dead_letter"} : SetRow(w, o)
  BY DEF FailForGood
<1>1. TypeOK'
  BY LeaveType, SetRowType, MarkTerminalType
  DEF InputsInv, TypeOK, FailForGood, Status, text
<1>2. InputsInPlace'
  BY <1>0
  DEF InputsInv, TypeOK, InputsInPlace, TasksHaveInputs, Busy, Job, Stage,
      FailForGood, SetRow, text
<1>3. RowsTogether' /\ ChunkNeverHeld' /\ CancelledTogether'
  BY SMTT(60), <1>0
  DEF InputsInv, TypeOK, InputsInPlace, RowsTogether, ChunkNeverHeld,
      CancelledTogether, TasksHaveInputs, Busy, Job, Stage, Terminal,
      FailForGood, SetRow, text
<1>4. TasksHaveInputs'
  BY DEF InputsInv, TypeOK, InputsInPlace, TasksHaveInputs, RowsTogether, Busy,
         Job, Stage, Terminal, NoJob, FailForGood, SetRow, Leave, MarkTerminal,
         DocumentFree, text
<1>5. RetryReadInputs'
  BY DEF InputsInv, TypeOK, InputsInPlace, ChunkNeverHeld, CancelledTogether,
         RetryReadInputs, Job, Stage, Status, Terminal, FailForGood, SetRow,
         Leave, MarkTerminal, DocumentFree, text
<1>6. QED
  BY <1>1, <1>2, <1>3, <1>4, <1>5 DEF InputsInv

LEMMA InputsCheckCancel ==
  ASSUME InputsInv, NEW w \in Worker, CheckCancel(w)
  PROVE  InputsInv'
<1>1. TypeOK'
  BY DEF InputsInv, TypeOK, Busy, Job, Stage, Status, PC, Version, NoJob,
         Terminal, CheckCancel, rows, doc, text
<1>2. InputsInPlace'
  BY DEF InputsInv, TypeOK, InputsInPlace, RowsTogether, ChunkNeverHeld,
         CancelledTogether, TasksHaveInputs, RetryReadInputs, Busy, Job, Stage,
         Terminal, CheckCancel, rows, doc, text
<1>3. RowsTogether' /\ ChunkNeverHeld' /\ CancelledTogether'
  BY DEF InputsInv, TypeOK, InputsInPlace, RowsTogether, ChunkNeverHeld,
         CancelledTogether, TasksHaveInputs, Busy, Job, Stage, Terminal,
         CheckCancel, rows, doc, text
<1>4. TasksHaveInputs'
  BY DEF InputsInv, TypeOK, InputsInPlace, TasksHaveInputs, RowsTogether, Busy,
         Job, Stage, Terminal, NoJob, CheckCancel, rows, doc, text
<1>5. RetryReadInputs'
  BY DEF InputsInv, TypeOK, InputsInPlace, ChunkNeverHeld, CancelledTogether,
         RetryReadInputs, Job, Stage, Status, Terminal, CheckCancel, rows, doc,
         text
<1>6. QED
  BY <1>1, <1>2, <1>3, <1>4, <1>5 DEF InputsInv

LEMMA InputsFinalizeCancel ==
  ASSUME InputsInv, NEW w \in Worker, FinalizeCancel(w)
  PROVE  InputsInv'
<1>1. TypeOK'
  BY LeaveType, SetRowType, MarkTerminalType
  DEF InputsInv, TypeOK, FinalizeCancel, Status, text
<1>2. InputsInPlace'
  BY DEF InputsInv, TypeOK, InputsInPlace, RowsTogether, ChunkNeverHeld,
         CancelledTogether, TasksHaveInputs, RetryReadInputs, Busy, Job, Stage,
         Terminal, FinalizeCancel, SetRow, Leave, MarkTerminal, DocumentFree,
         text
<1>3. RowsTogether' /\ ChunkNeverHeld' /\ CancelledTogether'
  BY ZenonT(60) DEF InputsInv, TypeOK, InputsInPlace, RowsTogether, ChunkNeverHeld,
         CancelledTogether, TasksHaveInputs, Busy, Job, Stage, Terminal,
         FinalizeCancel, SetRow, Leave, MarkTerminal, DocumentFree, text
<1>4. TasksHaveInputs'
  BY DEF InputsInv, TypeOK, InputsInPlace, TasksHaveInputs, RowsTogether, Busy,
         Job, Stage, Terminal, NoJob, FinalizeCancel, SetRow, Leave,
         MarkTerminal, DocumentFree, text
<1>5. RetryReadInputs'
  BY DEF InputsInv, TypeOK, InputsInPlace, ChunkNeverHeld, CancelledTogether,
         RetryReadInputs, Job, Stage, Status, Terminal, FinalizeCancel, SetRow,
         Leave, MarkTerminal, DocumentFree, text
<1>6. QED
  BY <1>1, <1>2, <1>3, <1>4, <1>5 DEF InputsInv

LEMMA InputsParseCommit ==
  ASSUME InputsInv, NEW w \in Worker, ParseCommit(w)
  PROVE  InputsInv'
<1>1. TypeOK'
  BY LeaveType
  DEF InputsInv, TypeOK, ParseCommit, Row, Status, Job, Stage, TasksHaveInputs,
      Busy, doc
<1>2. InputsInPlace'
  BY ZenonT(60) DEF InputsInv, TypeOK, InputsInPlace, RowsTogether, ChunkNeverHeld,
         CancelledTogether, TasksHaveInputs, RetryReadInputs, Busy, Job, Stage,
         Terminal, ParseCommit, Row, Leave, doc
<1>3. RowsTogether' /\ ChunkNeverHeld' /\ CancelledTogether'
  BY ZenonT(60) DEF InputsInv, TypeOK, InputsInPlace, RowsTogether, ChunkNeverHeld,
         CancelledTogether, TasksHaveInputs, Busy, Job, Stage, Terminal,
         ParseCommit, Row, Leave, doc
<1>4. TasksHaveInputs'
  BY DEF InputsInv, TypeOK, InputsInPlace, TasksHaveInputs, RowsTogether, Busy,
         Job, Stage, Terminal, NoJob, ParseCommit, Row, Leave, doc
<1>5. RetryReadInputs'
  BY DEF InputsInv, TypeOK, InputsInPlace, ChunkNeverHeld, CancelledTogether,
         RetryReadInputs, Job, Stage, Status, Terminal, ParseCommit, Row, Leave,
         doc
<1>6. QED
  BY <1>1, <1>2, <1>3, <1>4, <1>5 DEF InputsInv

LEMMA InputsEmbedBatch ==
  ASSUME InputsInv, NEW w \in Worker, EmbedBatch(w)
  PROVE  InputsInv'
<1>1. TypeOK'
  <2>1. batch[w] \in 0..Batches /\ batch[w] + 1 \in 0..(Batches + 1)
    BY ConstantsAssumption DEF InputsInv, TypeOK, EmbedBatch
  <2>2. embedded' \in [Version -> 0..Batches]
    BY <2>1 DEF InputsInv, TypeOK, EmbedBatch
  <2>3. batch' \in [Worker -> 0..(Batches + 1)] /\ pc' \in [Worker -> PC]
    BY <2>1 DEF InputsInv, TypeOK, EmbedBatch, PC
  <2>4. QED
    BY <2>2, <2>3 DEF InputsInv, TypeOK, EmbedBatch, rows, doc
<1>2. InputsInPlace'
  BY ConstantsAssumption
  DEF InputsInv, TypeOK, InputsInPlace, RowsTogether, ChunkNeverHeld,
      CancelledTogether, TasksHaveInputs, RetryReadInputs, Busy, Job, Stage,
      Terminal, EmbedBatch, rows, doc
<1>3. RowsTogether' /\ ChunkNeverHeld' /\ CancelledTogether'
  BY ConstantsAssumption
  DEF InputsInv, TypeOK, InputsInPlace, RowsTogether, ChunkNeverHeld,
      CancelledTogether, TasksHaveInputs, Busy, Job, Stage, Terminal,
      EmbedBatch, rows, doc
<1>4. TasksHaveInputs'
  BY ConstantsAssumption
  DEF InputsInv, TypeOK, InputsInPlace, TasksHaveInputs, RowsTogether, Busy,
      Job, Stage, Terminal, NoJob, EmbedBatch, rows, doc
<1>5. RetryReadInputs'
  BY ConstantsAssumption
  DEF InputsInv, TypeOK, InputsInPlace, ChunkNeverHeld, CancelledTogether,
      RetryReadInputs, Job, Stage, Status, Terminal, EmbedBatch, rows, doc
<1>6. QED
  BY <1>1, <1>2, <1>3, <1>4, <1>5 DEF InputsInv

LEMMA InputsEmbedCommit ==
  ASSUME InputsInv, NEW w \in Worker, EmbedCommit(w)
  PROVE  InputsInv'
<1>1. TypeOK'
  BY LeaveType, SetRowType, MarkTerminalType
  DEF InputsInv, TypeOK, EmbedCommit, Status, text
<1>2. InputsInPlace'
  BY ZenonT(60) DEF InputsInv, TypeOK, InputsInPlace, RowsTogether, ChunkNeverHeld,
         CancelledTogether, TasksHaveInputs, RetryReadInputs, Busy, Job, Stage,
         Terminal, EmbedCommit, SetRow, Leave, DocumentFree, text
<1>3. RowsTogether' /\ ChunkNeverHeld' /\ CancelledTogether'
  BY DEF InputsInv, TypeOK, InputsInPlace, RowsTogether, ChunkNeverHeld,
         CancelledTogether, TasksHaveInputs, Busy, Job, Stage, Terminal,
         EmbedCommit, SetRow, Leave, DocumentFree, text
<1>4. TasksHaveInputs'
  BY DEF InputsInv, TypeOK, InputsInPlace, TasksHaveInputs, RowsTogether, Busy,
         Job, Stage, Terminal, NoJob, EmbedCommit, SetRow, Leave, DocumentFree,
         text
<1>5. RetryReadInputs'
  BY DEF InputsInv, TypeOK, InputsInPlace, ChunkNeverHeld, CancelledTogether,
         RetryReadInputs, Job, Stage, Status, Terminal, EmbedCommit, SetRow,
         Leave, DocumentFree, text
<1>6. QED
  BY <1>1, <1>2, <1>3, <1>4, <1>5 DEF InputsInv

LEMMA InputsDie ==
  ASSUME InputsInv, NEW w \in Worker, Die(w)
  PROVE  InputsInv'
<1>1. TypeOK'
  BY LeaveType, SetRowType, MarkTerminalType
  DEF InputsInv, TypeOK, Die, rows, doc, text
<1>2. InputsInPlace'
  BY DEF InputsInv, TypeOK, InputsInPlace, RowsTogether, ChunkNeverHeld,
         CancelledTogether, TasksHaveInputs, RetryReadInputs, Busy, Job, Stage,
         Terminal, Die, Leave, rows, doc, text
<1>3. RowsTogether' /\ ChunkNeverHeld' /\ CancelledTogether'
  BY DEF InputsInv, TypeOK, InputsInPlace, RowsTogether, ChunkNeverHeld,
         CancelledTogether, TasksHaveInputs, Busy, Job, Stage, Terminal, Die,
         Leave, rows, doc, text
<1>4. TasksHaveInputs'
  BY DEF InputsInv, TypeOK, InputsInPlace, TasksHaveInputs, RowsTogether, Busy,
         Job, Stage, Terminal, NoJob, Die, Leave, rows, doc, text
<1>5. RetryReadInputs'
  BY DEF InputsInv, TypeOK, InputsInPlace, ChunkNeverHeld, CancelledTogether,
         RetryReadInputs, Job, Stage, Status, Terminal, Die, Leave, rows, doc,
         text
<1>6. QED
  BY <1>1, <1>2, <1>3, <1>4, <1>5 DEF InputsInv

LEMMA InputsExpireLease ==
  ASSUME InputsInv, NEW j \in Job, ExpireLease(j)
  PROVE  InputsInv'
<1>1. TypeOK'
  <2>1. /\ lease' \in [Job -> {"none", "live", "expired"}]
        /\ contested' \subseteq Job /\ faults' \in Nat
    BY DEF InputsInv, TypeOK, ExpireLease
  <2>2. QED
    BY <2>1 DEF InputsInv, TypeOK, ExpireLease, doc, text, workers
<1>2. InputsInPlace'
  BY DEF InputsInv, TypeOK, InputsInPlace, RowsTogether, ChunkNeverHeld,
         CancelledTogether, TasksHaveInputs, RetryReadInputs, Busy, Job, Stage,
         Terminal, ExpireLease, doc, text, workers
<1>3. RowsTogether' /\ ChunkNeverHeld' /\ CancelledTogether'
  BY DEF InputsInv, TypeOK, InputsInPlace, RowsTogether, ChunkNeverHeld,
         CancelledTogether, TasksHaveInputs, Busy, Job, Stage, Terminal,
         ExpireLease, doc, text, workers
<1>4. TasksHaveInputs'
  BY DEF InputsInv, TypeOK, InputsInPlace, TasksHaveInputs, RowsTogether, Busy,
         Job, Stage, Terminal, NoJob, ExpireLease, doc, text, workers
<1>5. RetryReadInputs'
  BY DEF InputsInv, TypeOK, InputsInPlace, ChunkNeverHeld, CancelledTogether,
         RetryReadInputs, Job, Stage, Status, Terminal, ExpireLease, doc, text,
         workers
<1>6. QED
  BY <1>1, <1>2, <1>3, <1>4, <1>5 DEF InputsInv

LEMMA InputsReapRead ==
  ASSUME InputsInv, NEW w \in Worker, ReapRead(w)
  PROVE  InputsInv'
<1>1. TypeOK'
  BY DEF InputsInv, TypeOK, Busy, Job, Stage, Status, PC, Version, NoJob,
         Terminal, ReapRead, Orphaned, rows, doc, text, workers
<1>2. InputsInPlace'
  BY DEF InputsInv, TypeOK, InputsInPlace, RowsTogether, ChunkNeverHeld,
         CancelledTogether, TasksHaveInputs, RetryReadInputs, Busy, Job, Stage,
         Terminal, ReapRead, Orphaned, rows, doc, text, workers
<1>3. RowsTogether' /\ ChunkNeverHeld' /\ CancelledTogether'
  BY DEF InputsInv, TypeOK, InputsInPlace, RowsTogether, ChunkNeverHeld,
         CancelledTogether, TasksHaveInputs, Busy, Job, Stage, Terminal,
         ReapRead, Orphaned, rows, doc, text, workers
<1>4. TasksHaveInputs'
  BY DEF InputsInv, TypeOK, InputsInPlace, TasksHaveInputs, RowsTogether, Busy,
         Job, Stage, Terminal, NoJob, ReapRead, Orphaned, rows, doc, text,
         workers
<1>5. RetryReadInputs'
  BY DEF InputsInv, TypeOK, InputsInPlace, ChunkNeverHeld, CancelledTogether,
         RetryReadInputs, Job, Stage, Status, Terminal, ReapRead, Orphaned,
         rows, doc, text, workers
<1>6. QED
  BY <1>1, <1>2, <1>3, <1>4, <1>5 DEF InputsInv

LEMMA InputsReap ==
  ASSUME InputsInv, NEW w \in Worker, Reap(w)
  PROVE  InputsInv'
<1>1. TypeOK'
  BY DEF InputsInv, TypeOK, Busy, Job, Stage, Status, PC, Version, NoJob,
         Terminal, Reap, DocumentFree, MarkTerminal, text, workers
<1>2. InputsInPlace'
  BY DEF InputsInv, TypeOK, InputsInPlace, RowsTogether, ChunkNeverHeld,
         CancelledTogether, TasksHaveInputs, RetryReadInputs, Busy, Job, Stage,
         Terminal, Reap, DocumentFree, MarkTerminal, text, workers
<1>3. RowsTogether' /\ ChunkNeverHeld' /\ CancelledTogether'
  BY DEF InputsInv, TypeOK, InputsInPlace, RowsTogether, ChunkNeverHeld,
         CancelledTogether, TasksHaveInputs, Busy, Job, Stage, Terminal, Reap,
         DocumentFree, MarkTerminal, text, workers
<1>4. TasksHaveInputs'
  BY DEF InputsInv, TypeOK, InputsInPlace, TasksHaveInputs, RowsTogether, Busy,
         Job, Stage, Terminal, NoJob, Reap, DocumentFree, MarkTerminal, text,
         workers
<1>5. RetryReadInputs'
  BY DEF InputsInv, TypeOK, InputsInPlace, ChunkNeverHeld, CancelledTogether,
         RetryReadInputs, Job, Stage, Status, Terminal, Reap, DocumentFree,
         MarkTerminal, text, workers
<1>6. QED
  BY <1>1, <1>2, <1>3, <1>4, <1>5 DEF InputsInv

LEMMA InputsRetryWrite ==
  ASSUME InputsInv, RetryWrite
  PROVE  InputsInv'
<1>. DEFINE r == Restart(retrying)
<1>0. /\ r \in {"parse", "chunk", "embed"}
      /\ r = "embed" => current \in chunked
  BY RestartEarliest, StageFacts
  DEF InputsInv, TypeOK, RetryReadInputs, RetryWrite
<1>1. TypeOK'
  BY <1>0, StageFacts
  DEF InputsInv, TypeOK, RetryWrite, ShowPending, Reopened, Job, Stage, Status,
      Terminal, Version, text, workers
<1>2. InputsInPlace'
  BY <1>0, StageFacts
  DEF InputsInv, TypeOK, InputsInPlace, RetryWrite, Reopened, Job, Stage,
      Terminal, CancelledTogether, text
<1>3. RowsTogether' /\ ChunkNeverHeld' /\ CancelledTogether'
  BY <1>0, StageFacts
  DEF InputsInv, TypeOK, InputsInPlace, RowsTogether, ChunkNeverHeld,
      CancelledTogether, RetryWrite, Reopened, Job, Stage, Terminal, text
<1>4. TasksHaveInputs'
  BY <1>0, StageFacts
  DEF InputsInv, TypeOK, TasksHaveInputs, Busy, RetryWrite, Reopened, Job,
      Stage, Terminal, text, workers
<1>5. RetryReadInputs'
  BY DEF RetryReadInputs, RetryWrite
<1>6. QED
  BY <1>1, <1>2, <1>3, <1>4, <1>5 DEF InputsInv

LEMMA InputsStutter ==
  ASSUME InputsInv, UNCHANGED vars
  PROVE  InputsInv'
BY DEF InputsInv, TypeOK, InputsInPlace, RowsTogether, ChunkNeverHeld,
       CancelledTogether, TasksHaveInputs, RetryReadInputs, Busy, vars

LEMMA InputsNext ==
  ASSUME InputsInv, [Next]_vars
  PROVE  InputsInv'
<1>1. CASE \E v \in Version : Publish(v)
  BY <1>1, InputsPublish
<1>2. CASE Cancel \/ RetryRead \/ RetryWrite
  BY <1>2, InputsCancel, InputsRetryRead, InputsRetryWrite
<1>3. ASSUME NEW w \in Worker, NEW j \in Job, Start(w, j)
      PROVE  InputsInv'
  BY <1>3, InputsClaim, InputsEmbedNothingLeft, InputsRejectMissing,
     InputsRejectText, InputsChunk DEF Start
<1>4. ASSUME NEW w \in Worker, TaskStep(w)
      PROVE  InputsInv'
  BY <1>4, InputsFailForNow, InputsFailForGood, InputsCheckCancel,
     InputsFinalizeCancel, InputsParseCommit, InputsEmbedBatch,
     InputsEmbedCommit DEF TaskStep
<1>5. ASSUME NEW w \in Worker, Die(w) \/ ReapRead(w) \/ Reap(w)
      PROVE  InputsInv'
  BY <1>5, InputsDie, InputsReapRead, InputsReap
<1>6. CASE \E j \in Job : ExpireLease(j)
  BY <1>6, InputsExpireLease
<1>7. CASE UNCHANGED vars
  BY <1>7, InputsStutter
<1>8. QED
  BY <1>1, <1>2, <1>3, <1>4, <1>5, <1>6, <1>7 DEF Next

LEMMA InputsInvariant == Spec => []InputsInv
BY InputsInit, InputsNext, PTL DEF Spec

\* Every variable keeps its type, for any number of workers and versions.
THEOREM TypeCorrect == Spec => []TypeOK
<1>1. InputsInv => TypeOK
  BY DEF InputsInv
<1>2. QED
  BY <1>1, InputsInvariant, PTL

\* Every stage finds its input and chunks exist exactly when the chunk row has
\* succeeded, whatever the timing of tasks, leases and reconciliation: the
\* NO_CHUNKS branch of embed and the re-chunking branch of chunk never run.
THEOREM InputsAlwaysInPlace == Spec => []InputsInPlace
<1>1. InputsInv => InputsInPlace
  BY DEF InputsInv
<1>2. QED
  BY <1>1, InputsInvariant, PTL

-----------------------------------------------------------------------------
(***************************************************************************)
(* One owner per row.  Unless the row is contested, a busy worker's row is *)
(* running or asked to cancel, under a lease that is still good, and it is *)
(* its own; and what a reconciliation pass has read stays an orphan until  *)
(* that pass closes it.  A row is contested only while it is held, and the *)
(* row of a chunk stage never is.                                          *)
(***************************************************************************)
IdleTasks == \A w \in Worker : ~Busy(w) => task[w] = NoJob

LeasedTasks ==
  \A w \in Worker : Busy(w) /\ task[w] \notin contested =>
    /\ task[w] \in Job
    /\ status[task[w]] \in {"running", "cancel_requested"}
    /\ lease[task[w]] = "live"

OneTaskPerRow ==
  \A w, u \in Worker :
    Busy(w) /\ Busy(u) /\ task[u] = task[w] /\ task[w] \notin contested => u = w

OrphansStay ==
  \A w \in Worker : \A j \in reaping[w] : j \notin contested => Orphaned(j)

OnePass ==
  \A w, u \in Worker : \A j \in reaping[w] \cap reaping[u] :
    j \notin contested => u = w

ChunksUncontested == \A v \in Version : <<v, "chunk">> \notin contested

OwnInv ==
  /\ IdleTasks /\ LeasedTasks /\ OneTaskPerRow
  /\ OrphansStay /\ OnePass /\ ChunksUncontested

\* The steps that contest no row.
LEMMA ContestedStep ==
  ASSUME [Next]_vars
  PROVE  \/ contested' = contested
         \/ \E j \in Job : ExpireLease(j)
         \/ \E w \in Worker : ReapRead(w)
BY DEF Next, Publish, Cancel, RetryRead, RetryWrite, Start, Claim,
       EmbedNothingLeft, RejectMissing, RejectText, Chunk, TaskStep, FailForNow,
       FailForGood, CheckCancel, FinalizeCancel, ParseCommit, EmbedBatch,
       EmbedCommit, Die, Reap, vars

\* A row once contested stays so.
LEMMA ContestedGrows ==
  ASSUME [Next]_vars
  PROVE  contested \subseteq contested'
BY ContestedStep DEF ExpireLease, ReapRead

\* A publication writes only rows that did not exist.
LEMMA PublishFresh ==
  ASSUME InputsInv, NEW v \in Version, Publish(v),
         NEW j \in Job, status[j] # "absent"
  PROVE  status'[j] = status[j]
<1>1. \A s \in Stage : status[<<v, s>>] = "absent"
  BY StageFacts DEF InputsInv, RowsTogether, Publish
<1>2. PICK u \in Version, s \in Stage : j = <<u, s>>
  BY DEF Job
<1>3. j[1] # v
  BY <1>1, <1>2
<1>4. QED
  BY <1>3 DEF Publish

\* Rows are pairs of a version and a stage.
LEMMA RowFacts ==
  /\ \A j \in Job : j[1] \in Version /\ j[2] \in Stage /\ j = <<j[1], j[2]>>
  /\ \A v \in Version : \A s \in Stage : <<v, s>> \in Job
BY DEF Job

\* What a step keeps when it contests nothing, puts no worker to work, and
\* neither closes or reopens the row of an uncontested task nor writes an orphan.
LEMMA OwnKept ==
  ASSUME InputsInv, OwnInv, UNCHANGED contested,
         \A w \in Worker : \/ pc'[w] = "idle" /\ task'[w] = NoJob
                           \/ /\ task'[w] = task[w]
                              /\ pc'[w] = "idle" <=> pc[w] = "idle",
         \A w \in Worker : reaping'[w] \in {reaping[w], {}},
         \A w \in Worker : Busy(w)' /\ task[w] \notin contested =>
            /\ status'[task[w]] \in {"running", "cancel_requested"}
            /\ lease'[task[w]] = "live",
         \A j \in Job : Orphaned(j) /\ j \notin contested =>
            \/ status'[j] = status[j] /\ lease'[j] = lease[j]
            \/ \A w \in Worker : j \notin reaping'[w]
  PROVE  OwnInv'
<1>1. IdleTasks'
  BY DEF OwnInv, IdleTasks, Busy
<1>2. \A w \in Worker : Busy(w)' => Busy(w) /\ task'[w] = task[w]
  BY DEF Busy
<1>3. LeasedTasks'
  BY <1>2 DEF OwnInv, LeasedTasks
<1>4. OneTaskPerRow'
  BY <1>2 DEF OwnInv, OneTaskPerRow
<1>5. OrphansStay'
  <2>1. SUFFICES ASSUME NEW w \in Worker, NEW j \in reaping'[w], j \notin contested
                 PROVE  Orphaned(j)'
    BY DEF OrphansStay
  <2>2. j \in reaping[w] /\ j \in Job
    BY <2>1 DEF InputsInv, TypeOK
  <2>3. QED
    BY <2>1, <2>2 DEF OwnInv, OrphansStay, Orphaned
<1>6. OnePass'
  BY DEF OwnInv, OnePass
<1>7. ChunksUncontested'
  BY DEF OwnInv, ChunksUncontested
<1>8. QED
  BY <1>1, <1>3, <1>4, <1>5, <1>6, <1>7 DEF OwnInv

\* The rows of uncontested tasks, and those that passes have read, are held.
LEMMA HeldRows ==
  ASSUME InputsInv, OwnInv, NEW w \in Worker, Busy(w), task[w] \notin contested
  PROVE  /\ task[w] \in Job
         /\ status[task[w]] \in {"running", "cancel_requested"}
         /\ lease[task[w]] = "live"
         /\ ~Orphaned(task[w])
BY DEF OwnInv, LeasedTasks, Orphaned

LEMMA OwnPublish ==
  ASSUME InputsInv, OwnInv, NEW v \in Version, Publish(v)
  PROVE  OwnInv'
<1>1. \A j \in Job : status[j] # "absent" => status'[j] = status[j]
  BY PublishFresh
<1>2. \A w \in Worker : Busy(w)' /\ task[w] \notin contested =>
        /\ status'[task[w]] \in {"running", "cancel_requested"}
        /\ lease'[task[w]] = "live"
  BY <1>1, HeldRows DEF Publish, workers, Busy
<1>3. \A j \in Job : Orphaned(j) => status'[j] = status[j] /\ lease'[j] = lease[j]
  BY <1>1 DEF Orphaned, Publish
<1>4. QED
  BY <1>2, <1>3, OwnKept DEF Publish, workers, OwnInv, IdleTasks, Busy

LEMMA OwnCancel ==
  ASSUME InputsInv, OwnInv, Cancel
  PROVE  OwnInv'
<1>1. \A j \in Job : status[j] \in {"running", "cancel_requested"} =>
        /\ status'[j] \in {"running", "cancel_requested"}
        /\ lease'[j] = lease[j]
        /\ status[j] = "cancel_requested" => status'[j] = status[j]
  BY DEF Cancel
<1>2. \A w \in Worker : Busy(w)' /\ task[w] \notin contested =>
        /\ status'[task[w]] \in {"running", "cancel_requested"}
        /\ lease'[task[w]] = "live"
  BY <1>1, HeldRows DEF Cancel, workers, Busy
<1>3. \A j \in Job : Orphaned(j) => status'[j] = status[j] /\ lease'[j] = lease[j]
  BY <1>1 DEF Orphaned
<1>4. QED
  BY <1>2, <1>3, OwnKept DEF Cancel, workers, OwnInv, IdleTasks, Busy

LEMMA OwnRetryRead ==
  ASSUME InputsInv, OwnInv, RetryRead
  PROVE  OwnInv'
<1>1. \A w \in Worker : Busy(w)' /\ task[w] \notin contested =>
        /\ status'[task[w]] \in {"running", "cancel_requested"}
        /\ lease'[task[w]] = "live"
  BY HeldRows DEF RetryRead, rows, workers, Busy
<1>2. QED
  BY <1>1, OwnKept DEF RetryRead, rows, workers, OwnInv, IdleTasks, Busy

LEMMA OwnRetryWrite ==
  ASSUME InputsInv, OwnInv, RetryWrite
  PROVE  OwnInv'
<1>1. \A j \in Job : status[j] \in {"running", "cancel_requested"} =>
        status'[j] = status[j] /\ lease'[j] = lease[j]
  BY DEF RetryWrite, Reopened, Terminal
<1>2. \A w \in Worker : Busy(w)' /\ task[w] \notin contested =>
        /\ status'[task[w]] \in {"running", "cancel_requested"}
        /\ lease'[task[w]] = "live"
  BY <1>1, HeldRows DEF RetryWrite, workers, Busy
<1>3. \A j \in Job : Orphaned(j) => status'[j] = status[j] /\ lease'[j] = lease[j]
  BY <1>1 DEF Orphaned
<1>4. QED
  BY <1>2, <1>3, OwnKept DEF RetryWrite, workers, OwnInv, IdleTasks, Busy

\* No uncontested task works on a row that is claimable.
LEMMA ClaimableFree ==
  ASSUME InputsInv, OwnInv, NEW j \in Job, Claimable(j), NEW u \in Worker,
         Busy(u), task[u] \notin contested
  PROVE  task[u] # j
BY HeldRows DEF Claimable

LEMMA OwnClaim ==
  ASSUME InputsInv, OwnInv, NEW w \in Worker, NEW j \in Job, Claim(w, j)
  PROVE  OwnInv'
<1>1. /\ task' = [task EXCEPT ![w] = j] /\ pc' = [pc EXCEPT ![w] = "work"]
      /\ status' = [status EXCEPT ![j] = "running"]
      /\ lease' = [lease EXCEPT ![j] = "live"]
      /\ UNCHANGED <<reaping, contested>> /\ Claimable(j)
  BY DEF Claim
<1>2. /\ pc \in [Worker -> PC] /\ task \in [Worker -> Job \cup {NoJob}]
      /\ status \in [Job -> Status] /\ lease \in [Job -> {"none", "live", "expired"}]
  BY DEF InputsInv, TypeOK
<1>3. ASSUME NEW u \in Worker, Busy(u)', u # w
      PROVE  Busy(u) /\ task'[u] = task[u]
  BY <1>1, <1>2, <1>3 DEF Busy
<1>4. task'[w] = j /\ Busy(w)'
  BY <1>1, <1>2 DEF Busy
<1>5. IdleTasks'
  BY <1>1, <1>2 DEF OwnInv, IdleTasks, Busy
<1>6. LeasedTasks'
  <2>1. SUFFICES ASSUME NEW u \in Worker, Busy(u)', task'[u] \notin contested
                 PROVE  /\ task'[u] \in Job
                        /\ status'[task'[u]] \in {"running", "cancel_requested"}
                        /\ lease'[task'[u]] = "live"
    BY <1>1 DEF LeasedTasks
  <2>2. CASE u = w
    BY <1>1, <1>2, <1>4, <2>2
  <2>3. CASE u # w
    <3>1. Busy(u) /\ task'[u] = task[u]
      BY <1>3, <2>1, <2>3
    <3>2. task[u] # j
      BY <1>1, <2>1, <3>1, ClaimableFree
    <3>3. QED
      BY <1>1, <1>2, <2>1, <3>1, <3>2, HeldRows
  <2>4. QED
    BY <2>2, <2>3
<1>7. OneTaskPerRow'
  <2>1. ASSUME NEW u \in Worker, Busy(u)', task'[u] = j, j \notin contested
        PROVE  u = w
    BY <1>1, <1>3, <2>1, ClaimableFree
  <2>2. SUFFICES ASSUME NEW u \in Worker, NEW x \in Worker, Busy(u)', Busy(x)',
                        task'[x] = task'[u], task'[u] \notin contested
                 PROVE  x = u
    BY <1>1 DEF OneTaskPerRow
  <2>3. CASE task'[u] = j
    BY <2>1, <2>2, <2>3
  <2>4. CASE task'[u] # j
    BY <1>3, <1>4, <2>2, <2>4 DEF OwnInv, OneTaskPerRow
  <2>5. QED
    BY <2>3, <2>4
<1>8. OrphansStay'
  <2>1. ~Orphaned(j)
    BY <1>1 DEF Claimable, Orphaned
  <2>2. \A k \in Job : Orphaned(k) => Orphaned(k)'
    BY <1>1, <1>2, <2>1 DEF Orphaned
  <2>3. reaping \in [Worker -> SUBSET Job]
    BY DEF InputsInv, TypeOK
  <2>4. QED
    BY <1>1, <2>2, <2>3 DEF OwnInv, OrphansStay
<1>9. OnePass' /\ ChunksUncontested'
  BY <1>1 DEF OwnInv, OnePass, ChunksUncontested
<1>10. QED
  BY <1>5, <1>6, <1>7, <1>8, <1>9 DEF OwnInv

LEMMA OwnEndingClaim ==
  ASSUME InputsInv, OwnInv, NEW w \in Worker, NEW j \in Job,
         ClaimAndEnd(w, j, "succeeded") \/ ClaimAndEnd(w, j, "failed"),
         UNCHANGED <<workers, reaping, contested>>
  PROVE  OwnInv'
<1>1. Claimable(j) /\ \A i \in Job : i # j => status'[i] = status[i] /\ lease'[i] = lease[i]
  BY DEF ClaimAndEnd, InputsInv, TypeOK
<1>2. \A u \in Worker : Busy(u)' /\ task[u] \notin contested =>
        /\ status'[task[u]] \in {"running", "cancel_requested"}
        /\ lease'[task[u]] = "live"
  BY <1>1, HeldRows, ClaimableFree DEF workers, Busy
<1>3. \A i \in Job : Orphaned(i) => status'[i] = status[i] /\ lease'[i] = lease[i]
  BY <1>1 DEF Claimable, Orphaned
<1>4. QED
  BY <1>2, <1>3, OwnKept DEF workers, OwnInv, IdleTasks, Busy

LEMMA OwnChunk ==
  ASSUME InputsInv, OwnInv, NEW w \in Worker, NEW j \in Job, Chunk(w, j)
  PROVE  OwnInv'
<1>1. /\ Claimable(j)
      /\ \A i \in Job : i # j => /\ lease'[i] = lease[i]
                                 /\ status[i] # "blocked" => status'[i] = status[i]
  BY DEF Chunk, InputsInv, TypeOK
<1>2. \A u \in Worker : Busy(u)' /\ task[u] \notin contested =>
        /\ status'[task[u]] \in {"running", "cancel_requested"}
        /\ lease'[task[u]] = "live"
  BY <1>1, HeldRows, ClaimableFree DEF Chunk, workers, Busy
<1>3. \A i \in Job : Orphaned(i) => status'[i] = status[i] /\ lease'[i] = lease[i]
  BY <1>1 DEF Claimable, Orphaned
<1>4. QED
  BY <1>2, <1>3, OwnKept DEF Chunk, workers, OwnInv, IdleTasks, Busy

\* A task that ends and writes its row, and blocked rows at most beside it.
LEMMA OwnEndingTask ==
  ASSUME InputsInv, OwnInv, NEW w \in Worker, Busy(w), Leave(w),
         UNCHANGED <<reaping, contested>>,
         \A i \in Job : i # task[w] =>
            /\ lease'[i] = lease[i]
            /\ status[i] # "blocked" => status'[i] = status[i]
  PROVE  OwnInv'
<1>1. \A u \in Worker : \/ pc'[u] = "idle" /\ task'[u] = NoJob
                        \/ u # w /\ task'[u] = task[u] /\ pc'[u] = pc[u]
  BY DEF Leave, InputsInv, TypeOK
<1>2. ASSUME NEW u \in Worker, Busy(u)', task[u] \notin contested
      PROVE  /\ status'[task[u]] \in {"running", "cancel_requested"}
             /\ lease'[task[u]] = "live"
  <2>1. u # w /\ Busy(u)
    BY <1>1, <1>2 DEF Busy, Leave, InputsInv, TypeOK
  <2>2. task[u] # task[w]
    BY <1>2, <2>1 DEF OwnInv, OneTaskPerRow
  <2>3. QED
    BY <1>2, <2>1, <2>2, HeldRows
<1>3. ASSUME NEW j \in Job, Orphaned(j), j \notin contested
      PROVE  status'[j] = status[j] /\ lease'[j] = lease[j]
  <2>1. j # task[w]
    BY <1>3, HeldRows
  <2>2. QED
    BY <1>3, <2>1 DEF Orphaned
<1>4. QED
  BY <1>1, <1>2, <1>3, OwnKept

\* A task that goes on leaves the rows alone.
LEMMA OwnWorkingTask ==
  ASSUME InputsInv, OwnInv, NEW w \in Worker, CheckCancel(w) \/ EmbedBatch(w)
  PROVE  OwnInv'
<1>1. /\ UNCHANGED <<rows, task, reaping, contested>>
      /\ \A u \in Worker : pc'[u] = "idle" <=> pc[u] = "idle"
  BY DEF CheckCancel, EmbedBatch, InputsInv, TypeOK
<1>2. \A u \in Worker : Busy(u)' /\ task[u] \notin contested =>
        /\ status'[task[u]] \in {"running", "cancel_requested"}
        /\ lease'[task[u]] = "live"
  BY <1>1, HeldRows DEF rows, Busy
<1>3. QED
  BY <1>1, <1>2, OwnKept DEF rows

LEMMA OwnDie ==
  ASSUME InputsInv, OwnInv, NEW w \in Worker, Die(w)
  PROVE  OwnInv'
<1>1. \A u \in Worker : \/ pc'[u] = "idle" /\ task'[u] = NoJob
                        \/ task'[u] = task[u] /\ pc'[u] = pc[u]
  BY DEF Die, Leave, InputsInv, TypeOK
<1>2. \A u \in Worker : reaping'[u] \in {reaping[u], {}}
  BY DEF Die, InputsInv, TypeOK
<1>3. \A u \in Worker : Busy(u)' /\ task[u] \notin contested =>
        /\ status'[task[u]] \in {"running", "cancel_requested"}
        /\ lease'[task[u]] = "live"
  BY <1>1, HeldRows DEF Die, rows, Busy
<1>4. QED
  BY <1>1, <1>2, <1>3, OwnKept DEF Die, rows

\* A lease that ends under a task contests a row that is held.
LEMMA LateIsHeld ==
  ASSUME InputsInv, OwnInv, NEW j \in Job, ExpireLease(j)
  PROVE  /\ contested' = contested \/ contested' = contested \cup {j}
         /\ j \notin contested' => \A w \in Worker : task[w] # j
         /\ j[2] = "chunk" => contested' = contested
         /\ contested' # contested => status[j] \in {"running", "cancel_requested"}
<1>1. CASE \E w \in Worker : task[w] = j
  <2>1. PICK w \in Worker : task[w] = j
    BY <1>1
  <2>2. NoJob \notin Job
    BY DEF NoJob, Job, Version
  <2>3. Busy(w)
    BY <2>1, <2>2 DEF OwnInv, IdleTasks
  <2>4. j[2] # "chunk"
    BY <2>1, <2>3 DEF InputsInv, TasksHaveInputs
  <2>5. contested' = contested \cup {j}
    BY <1>1 DEF ExpireLease
  <2>6. j \notin contested => status[j] \in {"running", "cancel_requested"}
    BY <2>1, <2>3, HeldRows
  <2>7. QED
    BY <2>4, <2>5, <2>6
<1>2. CASE ~\E w \in Worker : task[w] = j
  BY <1>2 DEF ExpireLease
<1>3. QED
  BY <1>1, <1>2

LEMMA OwnExpireLease ==
  ASSUME InputsInv, OwnInv, NEW j \in Job, ExpireLease(j)
  PROVE  OwnInv'
<1>1. /\ UNCHANGED <<status, task, pc, reaping>>
      /\ lease' = [lease EXCEPT ![j] = "expired"]
      /\ lease \in [Job -> {"none", "live", "expired"}]
      /\ lease[j] = "live"
      /\ reaping \in [Worker -> SUBSET Job]
  BY DEF ExpireLease, workers, InputsInv, TypeOK
<1>2. /\ contested \subseteq contested'
      /\ \A w \in Worker : task[w] = j => j \in contested'
  BY LateIsHeld
<1>3. IdleTasks' /\ OneTaskPerRow' /\ OnePass'
  BY <1>1, <1>2 DEF OwnInv, IdleTasks, OneTaskPerRow, OnePass, Busy
<1>4. LeasedTasks'
  BY <1>1, <1>2 DEF OwnInv, LeasedTasks, Busy
<1>5. OrphansStay'
  <2>1. \A i \in Job : Orphaned(i) => Orphaned(i)'
    BY <1>1 DEF Orphaned
  <2>2. QED
    BY <1>1, <1>2, <2>1 DEF OwnInv, OrphansStay
<1>6. ChunksUncontested'
  <2>1. ASSUME NEW v \in Version
        PROVE  <<v, "chunk">> \notin contested'
    BY LateIsHeld DEF OwnInv, ChunksUncontested
  <2>2. QED
    BY <2>1 DEF ChunksUncontested
<1>7. QED
  BY <1>3, <1>4, <1>5, <1>6 DEF OwnInv

\* The rows a second pass reads are orphans: asked to cancel, so never a chunk's.
LEMMA TwiceIsHeld ==
  ASSUME InputsInv, NEW w \in Worker, ReapRead(w)
  PROVE  /\ reaping' = [reaping EXCEPT ![w] = {j \in Job : Orphaned(j)}]
         /\ contested \subseteq contested'
         /\ \A j \in contested' \ contested : j \in Job /\ Orphaned(j) /\ j[2] # "chunk"
         /\ \A j \in Job, u \in Worker : Orphaned(j) /\ j \in reaping[u] => j \in contested'
<1>1. \A j \in Job : Orphaned(j) => j[2] # "chunk"
  BY RowFacts DEF Orphaned, InputsInv, ChunkNeverHeld
<1>2. QED
  BY <1>1 DEF ReapRead

LEMMA OwnReapRead ==
  ASSUME InputsInv, OwnInv, NEW w \in Worker, ReapRead(w)
  PROVE  OwnInv'
<1>1. /\ UNCHANGED <<status, lease, task, pc>> /\ contested \subseteq contested'
      /\ \A u \in Worker : reaping'[u] = IF u = w THEN {j \in Job : Orphaned(j)}
                                         ELSE reaping[u]
      /\ \A u \in Worker : reaping[u] \subseteq Job
  BY TwiceIsHeld DEF ReapRead, rows, workers, InputsInv, TypeOK
<1>2. IdleTasks' /\ LeasedTasks' /\ OneTaskPerRow'
  BY <1>1 DEF OwnInv, IdleTasks, LeasedTasks, OneTaskPerRow, Busy
<1>3. OrphansStay'
  BY <1>1 DEF OwnInv, OrphansStay, Orphaned
<1>4. OnePass'
  <2>1. SUFFICES ASSUME NEW u \in Worker, NEW x \in Worker,
                        NEW j \in reaping'[u] \cap reaping'[x], j \notin contested'
                 PROVE  x = u
    BY DEF OnePass
  <2>2. CASE u # w /\ x # w
    BY <1>1, <2>1, <2>2 DEF OwnInv, OnePass
  <2>3. CASE u = w /\ x # w
    BY <1>1, <2>1, <2>3, TwiceIsHeld
  <2>4. CASE u # w /\ x = w
    BY <1>1, <2>1, <2>4, TwiceIsHeld
  <2>5. QED
    BY <2>2, <2>3, <2>4
<1>5. ChunksUncontested'
  <2>1. SUFFICES ASSUME NEW v \in Version, <<v, "chunk">> \in contested'
                 PROVE  FALSE
    BY DEF ChunksUncontested
  <2>2. <<v, "chunk">> \in contested' \ contested
    BY <2>1 DEF OwnInv, ChunksUncontested
  <2>3. <<v, "chunk">>[2] # "chunk"
    BY <2>2, TwiceIsHeld
  <2>4. QED
    BY <2>3
<1>6. QED
  BY <1>2, <1>3, <1>4, <1>5 DEF OwnInv

LEMMA OwnReap ==
  ASSUME InputsInv, OwnInv, NEW w \in Worker, Reap(w)
  PROVE  OwnInv'
<1>1. /\ UNCHANGED <<task, pc, contested>>
      /\ \A u \in Worker : reaping'[u] = IF u = w THEN {} ELSE reaping[u]
      /\ \A j \in Job : j \notin reaping[w] =>
           status'[j] = status[j] /\ lease'[j] = lease[j]
  BY DEF Reap, workers, InputsInv, TypeOK
<1>2. \A u \in Worker : Busy(u)' /\ task[u] \notin contested =>
        /\ status'[task[u]] \in {"running", "cancel_requested"}
        /\ lease'[task[u]] = "live"
  BY <1>1, HeldRows DEF OwnInv, OrphansStay, Busy
<1>3. ASSUME NEW j \in Job, Orphaned(j), j \notin contested
      PROVE  \/ status'[j] = status[j] /\ lease'[j] = lease[j]
             \/ \A u \in Worker : j \notin reaping'[u]
  BY <1>1, <1>3 DEF OwnInv, OnePass
<1>4. QED
  BY <1>1, <1>2, <1>3, OwnKept DEF OwnInv, IdleTasks, Busy

LEMMA OwnInit == Init => OwnInv
BY DEF Init, OwnInv, IdleTasks, LeasedTasks, OneTaskPerRow, OrphansStay, OnePass,
       ChunksUncontested, Busy

LEMMA OwnStutter ==
  ASSUME OwnInv, UNCHANGED vars
  PROVE  OwnInv'
BY DEF OwnInv, IdleTasks, LeasedTasks, OneTaskPerRow, OrphansStay, OnePass,
       ChunksUncontested, Orphaned, Busy, vars

LEMMA OwnNext ==
  ASSUME InputsInv, OwnInv, [Next]_vars
  PROVE  OwnInv'
<1>1. CASE \E v \in Version : Publish(v)
  BY <1>1, OwnPublish
<1>2. CASE Cancel \/ RetryRead \/ RetryWrite
  BY <1>2, OwnCancel, OwnRetryRead, OwnRetryWrite
<1>3. ASSUME NEW w \in Worker, NEW j \in Job, Start(w, j)
      PROVE  OwnInv'
  <2>1. CASE Claim(w, j)
    BY <2>1, OwnClaim
  <2>2. CASE Chunk(w, j)
    BY <2>2, OwnChunk
  <2>3. CASE EmbedNothingLeft(w, j) \/ RejectMissing(w, j) \/ RejectText(w, j)
    BY <2>3, OwnEndingClaim DEF EmbedNothingLeft, RejectMissing, RejectText
  <2>4. QED
    BY <1>3, <2>1, <2>2, <2>3 DEF Start
<1>4. ASSUME NEW w \in Worker, TaskStep(w)
      PROVE  OwnInv'
  <2>1. CASE FailForNow(w) \/ FailForGood(w) \/ FinalizeCancel(w) \/ EmbedCommit(w)
    <3>1. \E o \in Status : /\ Busy(w) /\ SetRow(w, o) /\ Leave(w)
                            /\ UNCHANGED <<reaping, contested>>
      BY <2>1 DEF FailForNow, FailForGood, FinalizeCancel, EmbedCommit, Busy,
                  Status
    <3>2. \A i \in Job : i # task[w] => status'[i] = status[i] /\ lease'[i] = lease[i]
      BY <3>1 DEF SetRow, InputsInv, TypeOK
    <3>3. QED
      BY <3>1, <3>2, OwnEndingTask
  <2>2. CASE ParseCommit(w)
    <3>1. Busy(w) /\ Leave(w) /\ UNCHANGED <<reaping, contested>>
      BY <2>2 DEF ParseCommit, Busy
    <3>2. \A i \in Job : i # task[w] =>
            /\ lease'[i] = lease[i]
            /\ status[i] # "blocked" => status'[i] = status[i]
      BY <2>2 DEF ParseCommit, InputsInv, TypeOK
    <3>3. QED
      BY <3>1, <3>2, OwnEndingTask
  <2>3. CASE CheckCancel(w) \/ EmbedBatch(w)
    BY <2>3, OwnWorkingTask
  <2>4. QED
    BY <1>4, <2>1, <2>2, <2>3 DEF TaskStep
<1>5. ASSUME NEW w \in Worker, Die(w) \/ ReapRead(w) \/ Reap(w)
      PROVE  OwnInv'
  BY <1>5, OwnDie, OwnReapRead, OwnReap
<1>6. CASE \E j \in Job : ExpireLease(j)
  BY <1>6, OwnExpireLease
<1>7. CASE UNCHANGED vars
  BY <1>7, OwnStutter
<1>8. QED
  BY <1>1, <1>2, <1>3, <1>4, <1>5, <1>6, <1>7 DEF Next

\* Whatever the timing of tasks, leases and passes: unless the lease of a row
\* ended under its task, or two passes had read it, no two tasks ever work on it
\* and nobody closes it under a working task; a chunk's row is never contested.
THEOREM RowsHaveOneOwner == Spec => []TasksOwnTheirRows
<1>1. InputsInv /\ InputsInv' /\ OwnInv /\ [Next]_vars => OwnInv'
  BY OwnNext
<1>2. OwnInv => TasksOwnTheirRows
  BY DEF OwnInv, LeasedTasks, OneTaskPerRow, ChunksUncontested, TasksOwnTheirRows
<1>3. QED
  BY <1>1, <1>2, OwnInit, InputsInvariant, PTL DEF Spec

\* The only writes to a succeeded row come from a task that has lost it.
LEMMA SucceededStep ==
  ASSUME InputsInv, OwnInv, [Next]_vars,
         NEW j \in Job, status[j] = "succeeded", j \notin contested
  PROVE  status'[j] = "succeeded"
<1>1. ASSUME NEW v \in Version, Publish(v)
      PROVE  status'[j] = "succeeded"
  BY <1>1, PublishFresh
<1>2. CASE Cancel \/ RetryRead \/ RetryWrite
  BY <1>2 DEF InputsInv, TypeOK, Cancel, RetryRead, RetryWrite, Reopened,
              Terminal, rows
<1>3. ASSUME NEW w \in Worker, NEW i \in Job, Start(w, i)
      PROVE  status'[j] = "succeeded"
  <2>1. Claimable(i) /\ i # j
    BY <1>3
    DEF Start, Claim, EmbedNothingLeft, RejectMissing, RejectText, Chunk,
                ClaimAndEnd, Claimable
  <2>2. QED
    BY <1>3, <2>1 DEF InputsInv, TypeOK, Start, Claim, EmbedNothingLeft,
                      RejectMissing, RejectText, Chunk, ClaimAndEnd
<1>4. ASSUME NEW w \in Worker, TaskStep(w)
      PROVE  status'[j] = "succeeded"
  <2>1. task[w] # j
    BY <1>4, HeldRows DEF Busy, TaskStep, FailForNow, FailForGood,
                CheckCancel, FinalizeCancel, ParseCommit, EmbedBatch, EmbedCommit
  <2>2. QED
    BY <1>4, <2>1 DEF InputsInv, TypeOK, TaskStep, FailForNow, FailForGood,
                      CheckCancel, FinalizeCancel, ParseCommit, EmbedBatch,
                      EmbedCommit, SetRow, rows
<1>5. ASSUME NEW w \in Worker, Die(w) \/ ReapRead(w) \/ Reap(w)
      PROVE  status'[j] = "succeeded"
  BY <1>5 DEF InputsInv, TypeOK, Die, ReapRead, Reap, rows
<1>6. CASE (\E i \in Job : ExpireLease(i)) \/ UNCHANGED vars
  BY <1>6 DEF ExpireLease, vars
<1>7. QED
  BY <1>1, <1>2, <1>3, <1>4, <1>5, <1>6 DEF Next

\* A succeeded stage that nobody contested is never downgraded: of all writes by
\* id alone only those of a late task, or of one of two overlapping passes, can
\* reach a row that is finished.
THEOREM SuccessIsFinal == Spec => SucceededStays
<1>1. InputsInv /\ InputsInv' /\ OwnInv /\ [Next]_vars => OwnInv'
  BY OwnNext
<1>2. InputsInv /\ OwnInv /\ [Next]_vars
        => [\A j \in Job : status[j] = "succeeded" /\ j \notin contested
              => status'[j] = "succeeded"]_vars
  BY SucceededStep
<1>3. QED
  BY <1>1, <1>2, OwnInit, InputsInvariant, PTL DEF Spec, SucceededStays

-----------------------------------------------------------------------------
(***************************************************************************)
(* What the document shows.  PendingIsTrue and ReadyIsEarned need that a   *)
(* retry in progress still knows which stages are terminal (the document   *)
(* row it holds keeps every closing transaction out; only a contested      *)
(* stage may be opened again behind its back), that a text is stored only  *)
(* with its parse row, and that an embed task never runs ahead of the      *)
(* batches that are stored.                                                *)
(***************************************************************************)
RetryKnows ==
  retrying # {} =>
    \A s \in Stage :
      /\ status[<<current, s>>] \in Terminal => s \in retrying
      /\ s \in retrying => \/ status[<<current, s>>] \in Terminal
                            \/ <<current, s>> \in contested

TextParsed ==
  \A v \in derived :
    status[<<v, "parse">>] = "succeeded" \/ <<v, "parse">> \in contested

BatchesDone ==
  \A w \in Worker : Busy(w) /\ task[w][2] = "embed"
    => batch[w] <= embedded[task[w][1]] + 1

ShownInv ==
  /\ StoppedIsShown
  /\ NoStrandedDocument
  /\ ReadyIsEarned
  /\ RetryKnows
  /\ TextParsed
  /\ BatchesDone

\* A step that leaves alone what the document shows: no row becomes terminal,
\* and only a contested one stops being so.
Quiet ==
  /\ UNCHANGED <<current, fileState, retrying>>
  /\ \A j \in Job :
       /\ status'[j] \in Terminal => status[j] \in Terminal
       /\ status[j] \in Terminal =>
            status'[j] \in Terminal \/ j \in contested

\* A step that closes rows: no retry is under way, and the document no longer
\* shows as pending.
Closing ==
  /\ retrying = {} /\ retrying' = {}
  /\ current' = current
  /\ fileState' # "pending"
  /\ fileState' = "ready" => fileState = "ready"

\* A step that finishes the embed stage.
Finishing ==
  \E w \in Worker : EmbedCommit(w) \/ \E j \in Job : EmbedNothingLeft(w, j)

\* Tasks hold parse and embed rows only, and those rows exist.
LEMMA HeldRow ==
  ASSUME InputsInv, NEW w \in Worker, Busy(w)
  PROVE  /\ task[w] \in Job
         /\ status[task[w]] # "absent"
         /\ task[w] = <<task[w][1], task[w][2]>>
         /\ task[w][1] \in Version
         /\ task[w][2] \in {"parse", "embed"}
<1>1. task[w] \in Job /\ task[w][2] \in {"parse", "embed"}
  BY DEF InputsInv, TasksHaveInputs
<1>2. task[w] = <<task[w][1], task[w][2]>> /\ task[w][1] \in Version
  BY <1>1, RowFacts
<1>3. status[<<task[w][1], "parse">>] # "absent"
  BY DEF InputsInv, TasksHaveInputs
<1>4. status[<<task[w][1], "embed">>] # "absent"
  BY <1>2, <1>3 DEF InputsInv, RowsTogether
<1>5. QED
  BY <1>1, <1>2, <1>3, <1>4

\* A parse, an embedded batch and a retryable failure close no row, and open
\* a closed one only if it is contested.
LEMMA QuietTask ==
  ASSUME InputsInv, OwnInv, NEW w \in Worker,
         FailForNow(w) \/ CheckCancel(w) \/ ParseCommit(w) \/ EmbedBatch(w)
  PROVE  Quiet
<1>1. Busy(w)
  BY DEF FailForNow, CheckCancel, ParseCommit, EmbedBatch, Busy
<1>2. UNCHANGED <<current, fileState, retrying>>
  BY DEF FailForNow, CheckCancel, ParseCommit, EmbedBatch, doc
<1>3. CASE CheckCancel(w) \/ EmbedBatch(w)
  BY <1>2, <1>3 DEF CheckCancel, EmbedBatch, rows, Quiet
<1>4. task[w] \in contested \/ status[task[w]] \notin Terminal
  BY <1>1, HeldRows DEF Terminal
<1>5. CASE FailForNow(w)
  BY <1>2, <1>4, <1>5
  DEF FailForNow, SetRow, Quiet, Terminal, InputsInv, TypeOK
<1>6. CASE ParseCommit(w)
  <2>1. \A j \in Job :
          \/ status'[j] = status[j]
          \/ j = task[w] /\ status'[j] = "succeeded"
          \/ status'[j] = "queued" /\ status[j] = "blocked"
    BY <1>6 DEF ParseCommit, Row, InputsInv, TypeOK
  <2>2. QED
    BY <1>2, <1>4, <2>1 DEF Quiet, Terminal
<1>7. QED
  BY <1>3, <1>5, <1>6

LEMMA QuietStart ==
  ASSUME InputsInv, NEW w \in Worker, NEW j \in Job, Claim(w, j) \/ Chunk(w, j)
  PROVE  Quiet
<1>1. UNCHANGED <<current, fileState, retrying>>
  BY DEF Claim, Chunk, doc
<1>2. \A i \in Job :
        \/ status'[i] = status[i]
        \/ /\ status'[i] \in {"running", "succeeded"}
           /\ status[i] \in {"queued", "retryable", "running"}
        \/ status'[i] = "queued" /\ status[i] = "blocked"
  BY SMTT(60) DEF Claim, Chunk, Claimable, Row, InputsInv, TypeOK
<1>3. QED
  BY <1>1, <1>2 DEF Quiet, Terminal

\* A cancel of nothing that waits only asks running tasks to stop.
LEMMA CancelKind ==
  ASSUME InputsInv, Cancel
  PROVE  Closing \/ Quiet
<1>1. DocumentFree /\ UNCHANGED <<current, retrying>>
  BY DEF Cancel
<1>2. CASE MarkTerminal
  BY <1>1, <1>2 DEF Closing, MarkTerminal, DocumentFree, InputsInv, TypeOK
<1>3. CASE ~MarkTerminal
  <2>1. fileState' = fileState
    BY <1>3 DEF Cancel
  <2>2. \A j \in Job : \/ status'[j] = status[j]
                       \/ status[j] = "running" /\ status'[j] = "cancel_requested"
    BY <1>3 DEF Cancel
  <2>3. QED
    BY <1>1, <2>1, <2>2 DEF Quiet, Terminal
<1>4. QED
  BY <1>2, <1>3

\* Every step is a publication, a part of a retry, or one of these three.
LEMMA StepKinds ==
  ASSUME InputsInv, OwnInv, [Next]_vars
  PROVE  \/ \E v \in Version : Publish(v)
         \/ RetryRead \/ RetryWrite
         \/ Closing \/ Finishing \/ Quiet
<1>1. CASE Cancel
  BY <1>1, CancelKind
<1>2. ASSUME NEW w \in Worker, NEW j \in Job, Start(w, j)
      PROVE  Closing \/ Finishing \/ Quiet
  <2>1. CASE Claim(w, j) \/ Chunk(w, j)
    BY <2>1, QuietStart
  <2>2. CASE EmbedNothingLeft(w, j)
    BY <2>2 DEF Finishing
  <2>3. CASE RejectMissing(w, j) \/ RejectText(w, j)
    BY <2>3 DEF RejectMissing, RejectText, Closing, MarkTerminal, DocumentFree,
                InputsInv, TypeOK
  <2>4. QED
    BY <1>2, <2>1, <2>2, <2>3 DEF Start
<1>3. ASSUME NEW w \in Worker, TaskStep(w)
      PROVE  Closing \/ Finishing \/ Quiet
  <2>1. CASE FailForNow(w) \/ CheckCancel(w) \/ ParseCommit(w) \/ EmbedBatch(w)
    BY <2>1, QuietTask
  <2>2. CASE FailForGood(w) \/ FinalizeCancel(w)
    BY <2>2 DEF FailForGood, FinalizeCancel, Closing, MarkTerminal, DocumentFree,
                InputsInv, TypeOK
  <2>3. CASE EmbedCommit(w)
    BY <2>3 DEF Finishing
  <2>4. QED
    BY <1>3, <2>1, <2>2, <2>3 DEF TaskStep
<1>4. ASSUME NEW w \in Worker, Die(w) \/ ReapRead(w) \/ Reap(w)
      PROVE  Closing \/ Quiet
  <2>1. CASE Die(w) \/ ReapRead(w)
    BY <2>1 DEF Die, ReapRead, Quiet, rows, doc
  <2>2. CASE Reap(w)
    BY <2>2 DEF Reap, Closing, MarkTerminal, DocumentFree, InputsInv, TypeOK
  <2>3. QED
    BY <1>4, <2>1, <2>2
<1>5. CASE (\E j \in Job : ExpireLease(j)) \/ UNCHANGED vars
  BY <1>5 DEF ExpireLease, Quiet, doc, vars
<1>6. QED
  BY <1>1, <1>2, <1>3, <1>4, <1>5 DEF Next

\* Vectors are never taken back.
LEMMA EmbeddedGrows ==
  ASSUME InputsInv, [Next]_vars, NEW v \in Version
  PROVE  /\ embedded[v] \in 0..Batches
         /\ embedded'[v] \in 0..Batches
         /\ embedded[v] <= embedded'[v]
<1>1. embedded[v] \in 0..Batches /\ embedded'[v] \in 0..Batches
  <2>1. InputsInv'
    BY InputsNext
  <2>2. QED
    BY <2>1 DEF InputsInv, TypeOK, Version
<1>2. ASSUME NEW w \in Worker, EmbedBatch(w)
      PROVE  embedded[v] <= embedded'[v]
  <2>1. \/ embedded'[v] = embedded[v]
        \/ embedded[v] < batch[w] /\ embedded'[v] = batch[w]
    BY <1>2 DEF EmbedBatch, InputsInv, TypeOK
  <2>2. batch[w] \in Int
    BY DEF InputsInv, TypeOK
  <2>3. QED
    BY <1>1, <2>1, <2>2
<1>3. CASE UNCHANGED embedded
  BY <1>1, <1>3
<1>4. (\E w \in Worker : EmbedBatch(w)) \/ UNCHANGED embedded
  BY DEF Next, Publish, Cancel, RetryRead, RetryWrite, Start, Claim,
         EmbedNothingLeft, RejectMissing, RejectText, Chunk, TaskStep, FailForNow,
         FailForGood, CheckCancel, FinalizeCancel, ParseCommit, EmbedCommit, Die,
         ReapRead, Reap, ExpireLease, text, vars
<1>5. CASE \E w \in Worker : EmbedBatch(w)
  BY <1>1, <1>2, <1>5
<1>6. QED
  BY <1>3, <1>4, <1>5

\* Texts and chunks are never taken back either.
LEMMA TextStays ==
  ASSUME [Next]_vars
  PROVE  derived \subseteq derived' /\ chunked \subseteq chunked'
BY DEF Next, Publish, Cancel, RetryRead, RetryWrite, Start, Claim,
       EmbedNothingLeft, RejectMissing, RejectText, Chunk, TaskStep, FailForNow,
       FailForGood, CheckCancel, FinalizeCancel, ParseCommit, EmbedBatch,
       EmbedCommit, Die, ReapRead, Reap, ExpireLease, text, vars

\* A stage that has succeeded, or is contested, stays so.
Earned(v, s) == status[<<v, s>>] = "succeeded" \/ <<v, s>> \in contested

LEMMA EarnedStays ==
  ASSUME InputsInv, OwnInv, [Next]_vars, NEW v \in Version, NEW s \in Stage,
         Earned(v, s)
  PROVE  Earned(v, s)'
BY RowFacts, SucceededStep, ContestedGrows DEF Earned

\* Only a publication creates rows, and no step takes one away.
LEMMA StillAbsent ==
  ASSUME InputsInv, [Next]_vars, ~\E v \in Version : Publish(v),
         NEW j \in Job, status[j] = "absent"
  PROVE  status'[j] = "absent"
<1>1. CASE Cancel \/ RetryRead \/ RetryWrite
  BY <1>1 DEF Cancel, RetryRead, RetryWrite, Reopened, Terminal, rows
<1>2. ASSUME NEW w \in Worker, NEW i \in Job, Start(w, i)
      PROVE  status'[j] = "absent"
  BY <1>2 DEF Start, Claim, EmbedNothingLeft, RejectMissing, RejectText, Chunk,
              ClaimAndEnd, Claimable, InputsInv, TypeOK
<1>3. ASSUME NEW w \in Worker, TaskStep(w)
      PROVE  status'[j] = "absent"
  <2>1. CASE CheckCancel(w) \/ EmbedBatch(w)
    BY <2>1 DEF CheckCancel, EmbedBatch, rows
  <2>2. CASE ~CheckCancel(w) /\ ~EmbedBatch(w)
    <3>1. Busy(w)
      BY <1>3, <2>2 DEF TaskStep, FailForNow, FailForGood, FinalizeCancel,
                        ParseCommit, EmbedCommit, Busy
    <3>2. task[w] # j
      BY <3>1, HeldRow
    <3>3. QED
      BY <1>3, <2>2, <3>2
      DEF TaskStep, FailForNow, FailForGood, FinalizeCancel, ParseCommit,
          EmbedCommit, SetRow, InputsInv, TypeOK
  <2>3. QED
    BY <2>1, <2>2
<1>4. ASSUME NEW w \in Worker, Die(w) \/ ReapRead(w) \/ Reap(w)
      PROVE  status'[j] = "absent"
  BY <1>4 DEF Die, ReapRead, Reap, rows
<1>5. CASE (\E i \in Job : ExpireLease(i)) \/ UNCHANGED vars
  BY <1>5 DEF ExpireLease, vars
<1>6. QED
  BY <1>1, <1>2, <1>3, <1>4, <1>5 DEF Next

\* A version that has its chunks is published, and stays so.
LEMMA ChunkedPublished ==
  ASSUME InputsInv, [Next]_vars, NEW v \in Version, v \in chunked
  PROVE  v \in Published'
<1>1. InputsInv' /\ v \in chunked'
  BY InputsNext, TextStays
<1>2. status'[<<v, "parse">>] # "absent"
  BY <1>1 DEF InputsInv, InputsInPlace, RowsTogether
<1>3. QED
  BY <1>2 DEF Published

\* What a ready document rests on stays.
LEMMA ReadyStays ==
  ASSUME InputsInv, OwnInv, ShownInv, [Next]_vars, fileState = "ready"
  PROVE  ReadyIsEarned'
<1>1. PICK v \in Published : /\ v \in derived /\ v \in chunked
                             /\ embedded[v] = Batches
                             /\ \A s \in Stage : Earned(v, s)
  BY DEF ShownInv, ReadyIsEarned, Earned
<1>2. v \in Version
  BY DEF Published
<1>3. embedded'[v] = Batches
  BY <1>1, <1>2, EmbeddedGrows, ConstantsAssumption
<1>4. \A s \in Stage : Earned(v, s)'
  BY <1>1, <1>2, EarnedStays
<1>5. v \in Published' /\ v \in derived' /\ v \in chunked'
  BY <1>1, <1>2, ChunkedPublished, TextStays
<1>6. QED
  BY <1>3, <1>4, <1>5 DEF ReadyIsEarned, Earned

\* The step that finishes embed finds the other stages done and every chunk of
\* the version embedded.
LEMMA FinishingEarns ==
  ASSUME InputsInv, OwnInv, ShownInv, [Next]_vars, Finishing
  PROVE  ReadyIsEarned'
<1>1. \E j \in Job : /\ j[2] = "embed"
                     /\ j[1] \in chunked
                     /\ embedded[j[1]] = Batches
                     /\ status'[j] = "succeeded"
  <2>1. ASSUME NEW w \in Worker, EmbedCommit(w)
        PROVE  /\ task[w] \in Job
               /\ task[w][2] = "embed"
               /\ task[w][1] \in chunked
               /\ embedded[task[w][1]] = Batches
               /\ status'[task[w]] = "succeeded"
    <3>1. Busy(w) /\ task[w][2] = "embed"
      BY <2>1 DEF EmbedCommit, Busy
    <3>2. task[w] \in Job /\ task[w][1] \in Version /\ task[w][1] \in chunked
      BY <3>1, HeldRow DEF InputsInv, TasksHaveInputs
    <3>3. batch[w] <= embedded[task[w][1]] + 1 /\ batch[w] > Batches
      BY <2>1, <3>1 DEF ShownInv, BatchesDone, EmbedCommit
    <3>4. batch[w] \in Int /\ embedded[task[w][1]] \in 0..Batches
      BY <3>2 DEF InputsInv, TypeOK
    <3>5. embedded[task[w][1]] = Batches
      BY <3>3, <3>4, ConstantsAssumption
    <3>6. status'[task[w]] = "succeeded"
      BY <2>1, <3>2 DEF EmbedCommit, SetRow, InputsInv, TypeOK
    <3>7. QED
      BY <3>1, <3>2, <3>5, <3>6
  <2>2. ASSUME NEW w \in Worker, NEW j \in Job, EmbedNothingLeft(w, j)
        PROVE  /\ j[2] = "embed"
               /\ j[1] \in chunked
               /\ embedded[j[1]] = Batches
               /\ status'[j] = "succeeded"
    BY <2>2 DEF EmbedNothingLeft, InputMissing, AllEmbedded, ClaimAndEnd,
                InputsInv, TypeOK
  <2>3. CASE \E w \in Worker : EmbedCommit(w)
    <3>1. PICK w \in Worker : EmbedCommit(w)
      BY <2>3
    <3>2. QED
      BY <2>1, <3>1
  <2>4. CASE \E w \in Worker, j \in Job : EmbedNothingLeft(w, j)
    BY <2>2, <2>4
  <2>5. QED
    BY <2>3, <2>4 DEF Finishing
<1>2. PICK v \in Version : /\ v \in chunked
                           /\ embedded[v] = Batches
                           /\ status'[<<v, "embed">>] = "succeeded"
  BY <1>1, RowFacts
<1>3. v \in derived /\ Earned(v, "chunk") /\ Earned(v, "parse")
  BY <1>2 DEF InputsInv, InputsInPlace, ShownInv, TextParsed, Earned
<1>4. Earned(v, "chunk")' /\ Earned(v, "parse")' /\ Earned(v, "embed")'
  BY <1>2, <1>3, EarnedStays, StageFacts DEF Earned
<1>5. embedded'[v] = Batches
  BY <1>2, EmbeddedGrows, ConstantsAssumption
<1>6. v \in Published' /\ v \in derived' /\ v \in chunked'
  BY <1>2, <1>3, ChunkedPublished, TextStays
<1>7. QED
  BY <1>4, <1>5, <1>6, StageFacts DEF ReadyIsEarned, Earned

\* ReadyIsEarned is kept.
LEMMA EarnedStep ==
  ASSUME InputsInv, OwnInv, ShownInv, [Next]_vars
  PROVE  ReadyIsEarned'
<1>1. CASE Finishing
  BY <1>1, FinishingEarns
<1>2. CASE ~Finishing
  <2>1. fileState' = "ready" => fileState = "ready"
    BY <1>2, StepKinds DEF Publish, RetryRead, RetryWrite, ShowPending, doc,
                           Closing, Quiet
  <2>2. QED
    BY <2>1, ReadyStays DEF ReadyIsEarned
<1>3. QED
  BY <1>1, <1>2

\* A finished embed shows the document as ready.
LEMMA FinishingShows ==
  ASSUME Finishing
  PROVE  fileState' = "ready" /\ retrying = {} /\ retrying' = {}
BY DEF Finishing, EmbedCommit, EmbedNothingLeft, DocumentFree

\* RetryKnows is kept: nobody closes a row of the document while a retry holds
\* it, and nobody opens one that is not contested.
LEMMA KnowsStep ==
  ASSUME InputsInv, OwnInv, ShownInv, [Next]_vars
  PROVE  RetryKnows'
<1>1. CASE (\E v \in Version : Publish(v)) \/ RetryWrite \/ Closing \/ Finishing
  BY <1>1, FinishingShows DEF RetryKnows, Publish, DocumentFree, RetryWrite, Closing
<1>2. CASE RetryRead
  BY <1>2 DEF RetryKnows, RetryRead, rows, doc
<1>3. CASE Quiet
  <2>1. ASSUME NEW s \in Stage
        PROVE  /\ status'[<<current, s>>] \in Terminal
                    => status[<<current, s>>] \in Terminal
               /\ status[<<current, s>>] \in Terminal
                    => \/ status'[<<current, s>>] \in Terminal
                       \/ <<current, s>> \in contested
    BY <1>3, RowFacts DEF Quiet, InputsInv, TypeOK
  <2>2. QED
    BY <1>3, <2>1, ContestedGrows DEF ShownInv, RetryKnows, Quiet
<1>4. QED
  BY <1>1, <1>2, <1>3, StepKinds

\* What a retry restarts: the earliest terminal stage of the current version,
\* unless a late task has opened that one meanwhile.
LEMMA RetryRestarts ==
  ASSUME InputsInv, ShownInv, RetryWrite
  PROVE  /\ Restart(retrying) \in Stage
         /\ <<current, Restart(retrying)>> \in Job
         /\ \/ status[<<current, Restart(retrying)>>] \in Terminal
            \/ <<current, Restart(retrying)>> \in contested
         /\ \A s \in Stage : status[<<current, s>>] \in Terminal
              => s = Restart(retrying) \/ s \in Later(Restart(retrying))
<1>1. /\ retrying # {} /\ retrying \in SUBSET Stage /\ current \in Version
      /\ RetryKnows
  BY DEF RetryWrite, ShownInv, InputsInv, TypeOK
<1>2. Restart(retrying) \in retrying
  BY <1>1, RestartEarliest
<1>3. /\ Restart(retrying) = "embed" => retrying = {"embed"}
      /\ Restart(retrying) = "chunk" => "parse" \notin retrying
  BY <1>1, RestartEarliest
<1>4. ASSUME NEW s \in retrying
      PROVE  s = Restart(retrying) \/ s \in Later(Restart(retrying))
  <2>1. s \in Stage /\ Restart(retrying) \in Stage
    BY <1>1, <1>2
  <2>2. CASE Restart(retrying) = "parse"
    BY <2>1, <2>2, StageFacts
  <2>3. CASE Restart(retrying) = "chunk"
    BY <1>3, <2>1, <2>3, StageFacts
  <2>4. CASE Restart(retrying) = "embed"
    BY <1>3, <2>4
  <2>5. QED
    BY <2>1, <2>2, <2>3, <2>4, StageFacts
<1>5. \A s \in Stage :
        /\ status[<<current, s>>] \in Terminal => s \in retrying
        /\ s \in retrying => \/ status[<<current, s>>] \in Terminal
                              \/ <<current, s>> \in contested
  BY <1>1 DEF RetryKnows
<1>6. Restart(retrying) \in Stage /\ <<current, Restart(retrying)>> \in Job
  BY <1>1, <1>2, RowFacts
<1>7. QED
  BY <1>2, <1>4, <1>5, <1>6

\* StoppedIsShown is kept.
LEMMA StoppedStep ==
  ASSUME InputsInv, OwnInv, ShownInv, [Next]_vars
  PROVE  StoppedIsShown'
<1>1. ASSUME NEW v \in Version, Publish(v)
      PROVE  StoppedIsShown'
  <2>1. current' = v
    BY <1>1 DEF Publish
  <2>2. \A s \in Stage : status'[<<v, s>>] \in {"queued", "blocked"}
    BY <1>1, RowFacts DEF Publish
  <2>3. QED
    BY <2>1, <2>2 DEF StoppedIsShown, Terminal
<1>2. CASE RetryWrite
  <2>1. ASSUME NEW s \in Stage
        PROVE  status'[<<current, s>>] \notin Terminal
    <3>1. <<current, s>> \in Job
      BY RowFacts DEF InputsInv, TypeOK
    <3>2. CASE status[<<current, s>>] \in Terminal
      <4>1. s = Restart(retrying) \/ s \in Later(Restart(retrying))
        BY <1>2, <3>2, RetryRestarts
      <4>2. status'[<<current, s>>] \in {"queued", "blocked"}
        BY <1>2, <3>1, <3>2, <4>1 DEF RetryWrite, Reopened
      <4>3. QED
        BY <4>2 DEF Terminal
    <3>3. CASE status[<<current, s>>] \notin Terminal
      <4>1. status'[<<current, s>>] \in {status[<<current, s>>], "queued", "blocked"}
        BY <1>2, <3>1 DEF RetryWrite
      <4>2. QED
        BY <3>3, <4>1 DEF Terminal
    <3>4. QED
      BY <3>2, <3>3
  <2>2. current' = current
    BY <1>2 DEF RetryWrite
  <2>3. QED
    BY <2>1, <2>2 DEF StoppedIsShown
<1>3. CASE Closing \/ Finishing
  BY <1>3, FinishingShows DEF Closing, StoppedIsShown
<1>4. CASE RetryRead
  BY <1>4 DEF RetryRead, rows, doc, ShownInv, StoppedIsShown
<1>5. CASE Quiet
  <2>1. \A s \in Stage : status'[<<current, s>>] \in Terminal
                           => status[<<current, s>>] \in Terminal
    BY <1>5, RowFacts DEF Quiet, InputsInv, TypeOK
  <2>2. QED
    BY <1>5, <2>1 DEF ShownInv, StoppedIsShown, Quiet
<1>6. QED
  BY <1>1, <1>2, <1>3, <1>4, <1>5, StepKinds

\* A publication and a retry leave the document with a stage that will run,
\* unless a late task has opened and closed the one to restart.
LEMMA StartedAgain ==
  ASSUME InputsInv, ShownInv, (\E v \in Version : Publish(v)) \/ RetryWrite
  PROVE  NoStrandedDocument'
<1>1. ASSUME NEW v \in Version, Publish(v)
      PROVE  NoStrandedDocument'
  <2>1. current' = v /\ status'[<<v, "parse">>] = "queued"
    BY <1>1, RowFacts, StageFacts DEF Publish
  <2>2. QED
    BY <2>1, StageFacts DEF NoStrandedDocument, Live
<1>2. CASE RetryWrite
  <2>1. \/ status'[<<current, Restart(retrying)>>] = "queued"
        \/ <<current, Restart(retrying)>> \in contested
    BY <1>2, RetryRestarts DEF RetryWrite
  <2>2. Restart(retrying) \in Stage /\ UNCHANGED <<current, contested>>
    BY <1>2, RetryRestarts DEF RetryWrite
  <2>3. QED
    BY <2>1, <2>2 DEF NoStrandedDocument, Disputed, Live
<1>3. QED
  BY <1>1, <1>2

\* A stage of a pending document that finishes leaves the next one live: the
\* stage after a row that is not done is blocked and opens, or live already.
LEMMA NextStageLive ==
  ASSUME InputsInv, ShownInv, fileState = "pending", ~Disputed,
         NEW s \in {"parse", "chunk"}, NEW n \in Stage,
         s = "parse" => n = "chunk", s = "chunk" => n = "embed",
         status[<<current, s>>] \notin {"absent", "succeeded"}
  PROVE  status[<<current, n>>] \in Live \cup {"blocked"}
<1>1. current \in Version /\ <<current, n>> \in Job
  BY RowFacts DEF InputsInv, TypeOK
<1>2. status[<<current, n>>] \notin Terminal
  BY DEF ShownInv, StoppedIsShown
<1>3. status[<<current, n>>] # "absent"
  BY <1>1 DEF InputsInv, RowsTogether
<1>4. status[<<current, n>>] # "succeeded"
  BY <1>1, StageFacts DEF InputsInv, InputsInPlace, ShownInv, TextParsed, Disputed
<1>5. status[<<current, n>>] \in Status
  BY <1>1 DEF InputsInv, TypeOK
<1>6. QED
  BY <1>2, <1>3, <1>4, <1>5 DEF Status, Terminal, Live

\* While the document stays pending a live stage stays live or, when it is
\* done, the next one is.
LEMMA LiveStep ==
  ASSUME InputsInv, OwnInv, ShownInv, [Next]_vars,
         fileState = "pending", fileState' = "pending", current' = current,
         ~Disputed, ~RetryWrite, ~\E v \in Version : Publish(v),
         NEW s \in Stage, status[<<current, s>>] \in Live
  PROVE  \E n \in Stage : status'[<<current, n>>] \in Live
<1>1. current \in Version /\ <<current, s>> \in Job
  BY RowFacts DEF InputsInv, TypeOK
<1>2. ASSUME NEW j \in Job, j[2] \in {"parse", "chunk"},
             status[j] \notin {"absent", "succeeded"},
             NEW n \in Stage,
             j[2] = "parse" => n = "chunk", j[2] = "chunk" => n = "embed",
             \A i \in Job : i # j => status'[i] =
               IF i = Row(j, n) /\ status[i] = "blocked" THEN "queued" ELSE status[i]
      PROVE  \E m \in Stage : status'[<<current, m>>] \in Live
  <2>1. CASE j # <<current, s>>
    <3>1. status'[<<current, s>>] = status[<<current, s>>]
      BY <1>1, <1>2, <2>1 DEF Live
    <3>2. QED
      BY <3>1
  <2>2. CASE j = <<current, s>>
    <3>1. status[<<current, n>>] \in Live \cup {"blocked"}
      BY <1>2, <2>2, NextStageLive
    <3>2. <<current, n>> \in Job /\ <<current, n>> # j /\ Row(j, n) = <<current, n>>
      BY <1>1, <1>2, <2>2, RowFacts DEF Row
    <3>3. status'[<<current, n>>] \in Live
      BY <1>2, <3>1, <3>2 DEF Live
    <3>4. QED
      BY <3>3
  <2>3. QED
    BY <2>1, <2>2
<1>3. CASE Cancel
  <2>1. status'[<<current, s>>] \in {status[<<current, s>>], "cancelled", "cancel_requested"}
    BY <1>1, <1>3 DEF Cancel
  <2>2. status'[<<current, s>>] # "cancelled"
    BY <1>1, <1>3 DEF Cancel, MarkTerminal, Live
  <2>3. QED
    BY <2>1, <2>2 DEF Live
<1>4. ASSUME NEW w \in Worker, NEW j \in Job, Start(w, j)
      PROVE  \E n \in Stage : status'[<<current, n>>] \in Live
  <2>1. CASE Claim(w, j)
    <3>1. status'[<<current, s>>] \in {status[<<current, s>>], "running"}
      BY <1>1, <2>1 DEF Claim, InputsInv, TypeOK
    <3>2. QED
      BY <3>1 DEF Live
  <2>2. CASE Chunk(w, j)
    <3>1. /\ j[2] = "chunk"
          /\ status[j] \notin {"absent", "succeeded"}
      BY <2>2 DEF Chunk, Claimable
    <3>2. \A i \in Job : i # j => status'[i] =
            IF i = Row(j, "embed") /\ status[i] = "blocked" THEN "queued" ELSE status[i]
      BY <2>2 DEF Chunk, Row, InputsInv, TypeOK
    <3>3. QED
      BY <1>2, <3>1, <3>2, StageFacts
  <2>3. CASE EmbedNothingLeft(w, j) \/ RejectMissing(w, j) \/ RejectText(w, j)
    BY <2>3 DEF EmbedNothingLeft, RejectMissing, RejectText, MarkTerminal
  <2>4. QED
    BY <1>4, <2>1, <2>2, <2>3 DEF Start
<1>5. ASSUME NEW w \in Worker, TaskStep(w)
      PROVE  \E n \in Stage : status'[<<current, n>>] \in Live
  <2>1. CASE FailForNow(w)
    <3>1. status'[<<current, s>>] \in {status[<<current, s>>], "retryable"}
      BY <1>1, <2>1 DEF FailForNow, SetRow, InputsInv, TypeOK
    <3>2. QED
      BY <3>1 DEF Live
  <2>2. CASE ParseCommit(w)
    <3>1. Busy(w) /\ task[w] \in Job /\ task[w] = <<task[w][1], "parse">>
      BY <2>2, HeldRow DEF ParseCommit, Busy
    <3>2. \A i \in Job : i # task[w] => status'[i] =
            IF i = Row(task[w], "chunk") /\ status[i] = "blocked" THEN "queued" ELSE status[i]
      BY <2>2 DEF ParseCommit, Row, InputsInv, TypeOK
    <3>3. CASE task[w] \notin contested
      <4>1. status[task[w]] \notin {"absent", "succeeded"}
        BY <3>1, <3>3, HeldRows
      <4>2. task[w][2] = "parse"
        BY <3>1
      <4>3. QED
        BY <1>2, <3>1, <3>2, <4>1, <4>2, StageFacts
    <3>4. CASE task[w] \in contested
      <4>1. task[w][1] # current
        BY <3>1, <3>4, StageFacts DEF Disputed
      <4>2. status'[<<current, s>>] = status[<<current, s>>]
        BY <1>1, <3>1, <3>2, <4>1 DEF Row
      <4>3. QED
        BY <4>2
    <3>5. QED
      BY <3>3, <3>4
  <2>3. CASE CheckCancel(w) \/ EmbedBatch(w)
    BY <2>3 DEF CheckCancel, EmbedBatch, rows
  <2>4. CASE FailForGood(w) \/ FinalizeCancel(w) \/ EmbedCommit(w)
    BY <2>4 DEF FailForGood, FinalizeCancel, EmbedCommit, MarkTerminal
  <2>5. QED
    BY <1>5, <2>1, <2>2, <2>3, <2>4 DEF TaskStep
<1>6. ASSUME NEW w \in Worker, Die(w) \/ ReapRead(w) \/ Reap(w)
      PROVE  \E n \in Stage : status'[<<current, n>>] \in Live
  BY <1>6 DEF Die, ReapRead, Reap, MarkTerminal, rows
<1>7. CASE RetryRead \/ (\E j \in Job : ExpireLease(j)) \/ UNCHANGED vars
  BY <1>7 DEF RetryRead, ExpireLease, rows, vars
<1>8. QED
  BY <1>3, <1>4, <1>5, <1>6, <1>7 DEF Next

\* NoStrandedDocument is kept.
LEMMA StrandedStep ==
  ASSUME InputsInv, OwnInv, ShownInv, [Next]_vars
  PROVE  NoStrandedDocument'
<1>1. CASE (\E v \in Version : Publish(v)) \/ RetryWrite
  BY <1>1, StartedAgain
<1>2. CASE ~RetryWrite /\ ~\E v \in Version : Publish(v)
  <2>1. SUFFICES ASSUME fileState' = "pending", current' \in Published', ~Disputed'
                 PROVE  \E s \in Stage : status'[<<current', s>>] \in Live
    BY DEF NoStrandedDocument, Live
  <2>2. current' = current /\ fileState = "pending"
    BY <1>2, <2>1, StepKinds, FinishingShows DEF RetryRead, Closing, Quiet, doc
  <2>3. current \in Published
    <3>1. current \in Version /\ <<current, "parse">> \in Job
      BY RowFacts, StageFacts DEF InputsInv, TypeOK
    <3>2. status'[<<current, "parse">>] # "absent"
      BY <2>1, <2>2 DEF Published
    <3>3. QED
      BY <1>2, <3>1, <3>2, StillAbsent DEF Published
  <2>4. ~Disputed
    BY <2>1, <2>2, ContestedGrows DEF Disputed
  <2>5. PICK s \in Stage : status[<<current, s>>] \in Live
    BY <2>2, <2>3, <2>4 DEF ShownInv, NoStrandedDocument
  <2>6. \E n \in Stage : status'[<<current, n>>] \in Live
    BY <1>2, <2>1, <2>2, <2>4, <2>5, LiveStep
  <2>7. QED
    BY <2>2, <2>6
<1>3. QED
  BY <1>1, <1>2

\* TextParsed is kept: a text is stored by the step that finishes its parse row.
LEMMA ParsedStep ==
  ASSUME InputsInv, OwnInv, ShownInv, [Next]_vars
  PROVE  TextParsed'
<1>1. \A v \in derived : Earned(v, "parse")'
  <2>1. \A v \in derived : v \in Version /\ Earned(v, "parse")
    BY DEF InputsInv, TypeOK, ShownInv, TextParsed, Earned
  <2>2. QED
    BY <2>1, EarnedStays, StageFacts
<1>2. ASSUME NEW w \in Worker, ParseCommit(w)
      PROVE  TextParsed'
  <2>1. task[w] = <<task[w][1], "parse">> /\ task[w] \in Job
    BY <1>2, HeldRow DEF ParseCommit, Busy
  <2>2. status'[task[w]] = "succeeded"
    BY <1>2, <2>1 DEF ParseCommit, Row, InputsInv, TypeOK
  <2>3. derived' = derived \cup {task[w][1]}
    BY <1>2 DEF ParseCommit
  <2>4. QED
    BY <1>1, <2>1, <2>2, <2>3 DEF TextParsed, Earned
<1>3. CASE UNCHANGED derived
  BY <1>1, <1>3 DEF TextParsed, Earned
<1>4. (\E w \in Worker : ParseCommit(w)) \/ UNCHANGED derived
  BY DEF Next, Publish, Cancel, RetryRead, RetryWrite, Start, Claim,
         EmbedNothingLeft, RejectMissing, RejectText, Chunk, TaskStep, FailForNow,
         FailForGood, CheckCancel, FinalizeCancel, EmbedBatch, EmbedCommit, Die,
         ReapRead, Reap, ExpireLease, text, vars
<1>5. QED
  BY <1>2, <1>3, <1>4

\* BatchesDone is kept: the next batch is the one after those that are stored.
LEMMA BatchStep ==
  ASSUME InputsInv, OwnInv, ShownInv, [Next]_vars
  PROVE  BatchesDone'
<1>1. SUFFICES ASSUME NEW u \in Worker, Busy(u)', task'[u][2] = "embed"
               PROVE  batch'[u] <= embedded'[task'[u][1]] + 1
  BY DEF BatchesDone, Busy
<1>2. CASE pc[u] # "idle" /\ task'[u] = task[u] /\ batch'[u] = batch[u]
  <2>1. batch[u] <= embedded[task[u][1]] + 1 /\ task[u][1] \in Version
    BY <1>1, <1>2, HeldRow DEF ShownInv, BatchesDone, Busy
  <2>2. batch[u] \in Int
    BY DEF InputsInv, TypeOK
  <2>3. QED
    BY <1>2, <2>1, <2>2, EmbeddedGrows
<1>3. ASSUME NEW j \in Job, Claim(u, j)
      PROVE  batch'[u] <= embedded'[task'[u][1]] + 1
  <2>1. /\ task'[u] = j
        /\ batch'[u] = IF j[2] = "embed" THEN embedded[j[1]] + 1 ELSE 0
        /\ embedded' = embedded
    BY <1>3 DEF Claim, text, InputsInv, TypeOK
  <2>2. j[1] \in Version /\ embedded[j[1]] \in 0..Batches
    BY RowFacts DEF InputsInv, TypeOK
  <2>3. QED
    BY <1>1, <2>1, <2>2
<1>4. CASE EmbedBatch(u)
  <2>1. /\ task'[u] = task[u] /\ task[u][1] \in Version
        /\ batch'[u] = batch[u] + 1
        /\ batch[u] \in Int
    BY <1>4, HeldRow DEF EmbedBatch, Busy, InputsInv, TypeOK
  <2>2. embedded'[task[u][1]] = IF embedded[task[u][1]] < batch[u] THEN batch[u]
                                ELSE embedded[task[u][1]]
    BY <1>4, <2>1 DEF EmbedBatch, InputsInv, TypeOK
  <2>3. embedded[task[u][1]] \in Int
    BY <2>1 DEF InputsInv, TypeOK
  <2>4. QED
    BY <2>1, <2>2, <2>3
<1>5. \/ pc[u] # "idle" /\ task'[u] = task[u] /\ batch'[u] = batch[u]
      \/ \E j \in Job : Claim(u, j)
      \/ EmbedBatch(u)
  <2>1. CASE UNCHANGED workers
    BY <1>1, <2>1 DEF workers, Busy
  <2>2. ASSUME NEW w \in Worker, TaskStep(w) \/ Die(w)
        PROVE  \/ pc[u] # "idle" /\ task'[u] = task[u] /\ batch'[u] = batch[u]
               \/ EmbedBatch(u)
    <3>1. CASE w = u
      BY <1>1, <2>2, <3>1
      DEF TaskStep, FailForNow, FailForGood, CheckCancel, FinalizeCancel,
          ParseCommit, EmbedBatch, EmbedCommit, Die, Leave, Busy, InputsInv, TypeOK
    <3>2. CASE w # u
      BY <1>1, <2>2, <3>2
      DEF TaskStep, FailForNow, FailForGood, CheckCancel, FinalizeCancel,
          ParseCommit, EmbedBatch, EmbedCommit, Die, Leave, Busy, InputsInv, TypeOK
    <3>3. QED
      BY <3>1, <3>2
  <2>3. ASSUME NEW w \in Worker, NEW j \in Job, Claim(w, j)
        PROVE  \/ pc[u] # "idle" /\ task'[u] = task[u] /\ batch'[u] = batch[u]
               \/ Claim(u, j)
    BY <1>1, <2>3 DEF Claim, Busy, InputsInv, TypeOK
  <2>4. \/ UNCHANGED workers
        \/ \E w \in Worker : TaskStep(w) \/ Die(w)
        \/ \E w \in Worker, j \in Job : Claim(w, j)
    BY DEF Next, Publish, Cancel, RetryRead, RetryWrite, Start, EmbedNothingLeft,
           RejectMissing, RejectText, Chunk, ReapRead, Reap, ExpireLease, workers,
           vars
  <2>5. QED
    BY <2>1, <2>2, <2>3, <2>4
<1>6. QED
  BY <1>2, <1>3, <1>4, <1>5

LEMMA ShownInit == Init => ShownInv
<1>1. SUFFICES ASSUME Init PROVE ShownInv
  OBVIOUS
<1>2. \A j \in Job : status[j] = "absent"
  BY <1>1 DEF Init
<1>3. 1 \in Version
  BY ConstantsAssumption DEF Version
<1>4. \A s \in Stage : status[<<current, s>>] = "absent"
  BY <1>1, <1>2, <1>3, RowFacts DEF Init
<1>5. StoppedIsShown /\ NoStrandedDocument
  BY <1>4, StageFacts DEF StoppedIsShown, NoStrandedDocument, Published, Terminal
<1>6. ReadyIsEarned /\ RetryKnows /\ TextParsed /\ BatchesDone
  BY <1>1 DEF Init, ReadyIsEarned, RetryKnows, TextParsed, BatchesDone, Busy
<1>7. QED
  BY <1>5, <1>6 DEF ShownInv

LEMMA ShownInvariant == Spec => [](InputsInv /\ OwnInv /\ ShownInv)
<1>1. Init => InputsInv /\ OwnInv /\ ShownInv
  BY InputsInit, OwnInit, ShownInit
<1>2. InputsInv /\ OwnInv /\ ShownInv /\ [Next]_vars
        => (InputsInv /\ OwnInv /\ ShownInv)'
  <2>1. SUFFICES ASSUME InputsInv, OwnInv, ShownInv, [Next]_vars
                 PROVE  (InputsInv /\ OwnInv /\ ShownInv)'
    OBVIOUS
  <2>2. InputsInv' /\ OwnInv'
    BY <2>1, InputsNext, OwnNext
  <2>3. ShownInv'
    BY <2>1, StoppedStep, StrandedStep, EarnedStep, KnowsStep, ParsedStep, BatchStep
    DEF ShownInv
  <2>4. QED
    BY <2>2, <2>3
<1>3. QED
  BY <1>1, <1>2, PTL DEF Spec

\* A ready document has a published version with its text, its chunks and an
\* embedding of every one of them, whatever late tasks, retries and overlapping
\* reconcilers ran, and every stage of it that nobody contested succeeded.
THEOREM ReadinessEarned == Spec => []ReadyIsEarned
<1>1. InputsInv /\ OwnInv /\ ShownInv => ReadyIsEarned
  BY DEF ShownInv
<1>2. QED
  BY <1>1, ShownInvariant, PTL

\* A stopped stage is never hidden, even by late tasks and overlapping passes;
\* and a document that is pending has a stage of its current version that will
\* still run or be closed, unless one of these stages was contested.
THEOREM PendingShowsWork == Spec => []PendingIsTrue
<1>1. InputsInv /\ OwnInv /\ ShownInv => PendingIsTrue
  BY DEF ShownInv, PendingIsTrue
<1>2. QED
  BY <1>1, ShownInvariant, PTL

-----------------------------------------------------------------------------
(***************************************************************************)
(* Refinement.  Read through Phase, every step of the rows is a step of a  *)
(* stage's life, contests stages that are held, or leaves all phases and   *)
(* the contested stages alone.                                             *)
(***************************************************************************)
StagePhases == [j \in Job |-> Phase(status[j])]

LEMMA PhaseFacts ==
  /\ Phase("absent") = "none"
  /\ Phase("blocked") = "waiting"
  /\ Phase("queued") = "open" /\ Phase("retryable") = "open"
  /\ Phase("running") = "held" /\ Phase("cancel_requested") = "held"
  /\ Phase("succeeded") = "done"
  /\ \A s \in Terminal : Phase(s) = "stopped"
BY DEF Phase, Terminal

\* Both modules speak of the same stages, in the same order.
LEMMA LifecycleFacts ==
  /\ Lifecycle!Job = Job /\ Lifecycle!Version = Version /\ Lifecycle!Stage = Stage
  /\ \A s \in Stage : Lifecycle!Later(s) = Later(s)
  /\ Lifecycle!After("parse") = {"chunk"}
  /\ Lifecycle!After("chunk") = {"embed"}
  /\ Lifecycle!After("embed") = {}
BY DEF Lifecycle!Job, Lifecycle!Version, Lifecycle!Stage, Lifecycle!Later,
       Lifecycle!After, Job, Version, Stage, Later

LEMMA LifecycleInit == Init => Lifecycle!Init
<1>1. SUFFICES ASSUME Init PROVE Lifecycle!Init
  OBVIOUS
<1>2. \A j \in Job : Phase(status[j]) = "none"
  BY <1>1, PhaseFacts DEF Init
<1>3. QED
  BY <1>1, <1>2, LifecycleFacts DEF Lifecycle!Init, Init

\* A step that only closes unfinished rows is Stop.
LEMMA StopStep ==
  ASSUME InputsInv, InputsInv',
         \A j \in Job : status'[j] # status[j] =>
            \/ /\ status[j] \in Live \cup {"blocked"}
               /\ status'[j] \in Terminal
            \/ status[j] = "running" /\ status'[j] = "cancel_requested"
  PROVE  Lifecycle!Stop
<1>1. \A j \in Job : status[j] \in Status /\ status'[j] \in Status
  BY DEF InputsInv, TypeOK
<1>2. \A s \in Status : Phase(s) \in Lifecycle!Phases
  BY PhaseFacts DEF Status, Terminal, Lifecycle!Phases
<1>3. ASSUME NEW j \in Job, Phase(status'[j]) # Phase(status[j])
      PROVE  /\ Phase(status[j]) \in {"waiting", "open", "held"}
             /\ Phase(status'[j]) = "stopped"
  <2>1. /\ status[j] \in Live \cup {"blocked"}
        /\ status'[j] \in Terminal
    BY <1>3, PhaseFacts
  <2>2. QED
    BY <2>1, PhaseFacts DEF Live
<1>4. QED
  BY <1>1, <1>2, <1>3, LifecycleFacts DEF Lifecycle!Stop

\* A step that changes no phase.
LEMMA StutterStep ==
  ASSUME \A j \in Job : Phase(status'[j]) = Phase(status[j])
  PROVE  UNCHANGED StagePhases
BY DEF StagePhases

\* A step that finishes a row and opens the blocked row after it, if any.
LEMMA AdvanceStep ==
  ASSUME InputsInv, NEW j \in Job,
         status[j] \in {"queued", "retryable", "running", "cancel_requested"},
         status'[j] = "succeeded",
         \A i \in Job : i # j => status'[i] =
            IF i[1] = j[1] /\ i[2] \in Lifecycle!After(j[2]) /\ status[i] = "blocked"
            THEN "queued" ELSE status[i]
  PROVE  Lifecycle!Advance(j)
<1>1. Phase(status[j]) \in {"open", "held"} /\ Phase(status'[j]) = "done"
  BY PhaseFacts
<1>2. \A i \in Job : status[i] \in Status
  BY DEF InputsInv, TypeOK
<1>3. \A s \in Status : Phase(s) = "waiting" <=> s = "blocked"
  BY PhaseFacts DEF Status, Terminal
<1>4. \A i \in Job : i # j => Phase(status'[i]) =
        IF /\ i[1] = j[1] /\ i[2] \in Lifecycle!After(j[2])
           /\ Phase(status[i]) = "waiting" THEN "open" ELSE Phase(status[i])
  BY <1>2, <1>3, PhaseFacts
<1>5. [i \in Job |-> Phase(status'[i])] =
        [i \in Job |->
           IF i = j THEN "done"
           ELSE IF /\ i[1] = j[1] /\ i[2] \in Lifecycle!After(j[2])
                   /\ Phase(status[i]) = "waiting" THEN "open"
           ELSE Phase(status[i])]
  BY <1>1, <1>4
<1>6. QED
  BY <1>1, <1>5, LifecycleFacts DEF Lifecycle!Advance

\* A task that has lost its row writes it all the same.
LEMMA OverwriteStep ==
  ASSUME InputsInv, NEW j \in Job, j \in contested,
         status'[j] \in {"retryable", "succeeded"} \cup Terminal,
         \A i \in Job : i # j => status'[i] =
            IF /\ status'[j] = "succeeded"
               /\ i[1] = j[1] /\ i[2] \in Lifecycle!After(j[2]) /\ status[i] = "blocked"
            THEN "queued" ELSE status[i]
  PROVE  Lifecycle!Overwrite(j)
<1> DEFINE outcome == Phase(status'[j])
<1>1. /\ outcome \in {"open", "stopped", "done"}
      /\ outcome = "done" <=> status'[j] = "succeeded"
  BY PhaseFacts DEF Terminal
<1>2. \A i \in Job : status[i] \in Status
  BY DEF InputsInv, TypeOK
<1>3. \A s \in Status : Phase(s) = "waiting" <=> s = "blocked"
  BY PhaseFacts DEF Status, Terminal
<1>4. \A i \in Job : i # j => Phase(status'[i]) =
        IF /\ outcome = "done"
           /\ i[1] = j[1] /\ i[2] \in Lifecycle!After(j[2])
           /\ Phase(status[i]) = "waiting" THEN "open" ELSE Phase(status[i])
  <2>1. SUFFICES ASSUME NEW i \in Job, i # j
                 PROVE  Phase(status'[i]) =
                          IF /\ outcome = "done"
                             /\ i[1] = j[1] /\ i[2] \in Lifecycle!After(j[2])
                             /\ Phase(status[i]) = "waiting" THEN "open"
                          ELSE Phase(status[i])
    OBVIOUS
  <2>2. Phase(status[i]) = "waiting" <=> status[i] = "blocked"
    BY <1>2, <1>3
  <2>3. status'[i] = IF /\ status'[j] = "succeeded"
                        /\ i[1] = j[1] /\ i[2] \in Lifecycle!After(j[2])
                        /\ status[i] = "blocked"
                     THEN "queued" ELSE status[i]
    BY <2>1
  <2>4. QED
    BY <1>1, <2>2, <2>3, PhaseFacts
<1> HIDE DEF outcome
<1>5. [i \in Job |-> Phase(status'[i])] =
        [i \in Job |->
           IF i = j THEN outcome
           ELSE IF /\ outcome = "done"
                   /\ i[1] = j[1] /\ i[2] \in Lifecycle!After(j[2])
                   /\ Phase(status[i]) = "waiting" THEN "open"
           ELSE Phase(status[i])]
  BY <1>4 DEF outcome
<1>6. QED
  BY <1>1, <1>5, LifecycleFacts DEF Lifecycle!Overwrite

\* A step that writes one row.
LEMMA TakeStep ==
  ASSUME NEW j \in Job, Phase(status[j]) = "open", Phase(status'[j]) = "held",
         \A i \in Job : i # j => status'[i] = status[i]
  PROVE  Lifecycle!Take(j)
<1>1. [i \in Job |-> Phase(status'[i])] =
        [[i \in Job |-> Phase(status[i])] EXCEPT ![j] = "held"]
  OBVIOUS
<1>2. QED
  BY <1>1, LifecycleFacts DEF Lifecycle!Take

LEMMA PutBackStep ==
  ASSUME NEW j \in Job, Phase(status[j]) = "held", Phase(status'[j]) = "open",
         \A i \in Job : i # j => status'[i] = status[i]
  PROVE  Lifecycle!PutBack(j)
<1>1. [i \in Job |-> Phase(status'[i])] =
        [[i \in Job |-> Phase(status[i])] EXCEPT ![j] = "open"]
  OBVIOUS
<1>2. QED
  BY <1>1, LifecycleFacts DEF Lifecycle!PutBack

\* A publication creates the rows of a version that had none.
LEMMA PublishStep ==
  ASSUME InputsInv, NEW v \in Version, Publish(v)
  PROVE  Lifecycle!Publish(v)
<1>1. \A s \in Stage : Phase(status[<<v, s>>]) = "none"
  BY StageFacts, PhaseFacts DEF InputsInv, RowsTogether, Publish
<1>2. \A s \in Stage : <<v, s>> \in Job
  BY RowFacts
<1>3. \A j \in Job : Phase(status'[j]) =
        IF j[1] # v THEN Phase(status[j])
        ELSE IF j[2] = "parse" THEN "open" ELSE "waiting"
  BY PhaseFacts DEF Publish
<1>4. QED
  BY <1>1, <1>2, <1>3, LifecycleFacts DEF Lifecycle!Publish

\* A retry opens the earliest stopped stage, if no late task has done so.
LEMMA RestartStep ==
  ASSUME InputsInv, ShownInv, RetryWrite
  PROVE  \/ Lifecycle!Restart(<<current, Restart(retrying)>>)
         \/ Lifecycle!Overtaken(<<current, Restart(retrying)>>)
<1> DEFINE r == <<current, Restart(retrying)>>
<1>1. /\ r \in Job /\ r[1] = current /\ r[2] = Restart(retrying) /\ r[2] \in Stage
      /\ status[r] \in Terminal \/ r \in contested
  BY RetryRestarts
<1>2. \A j \in Job : status[j] \in Status
  BY DEF InputsInv, TypeOK
<1>3. \A s \in Status : /\ Phase(s) = "stopped" <=> s \in Terminal
                        /\ Phase(s) = "waiting" <=> s = "blocked"
  BY PhaseFacts DEF Status, Terminal
<1>4. r[2] \notin Later(r[2])
  BY <1>1, StageFacts
<1>5. ASSUME NEW j \in Job, j # r
      PROVE  Phase(status'[j]) =
               IF /\ j[1] = r[1] /\ j[2] \in Later(r[2])
                  /\ Phase(status[j]) = "stopped" THEN "waiting"
               ELSE Phase(status[j])
  <2>1. status'[j] = IF /\ j[1] = r[1] /\ j[2] \in Later(r[2])
                        /\ status[j] \in Terminal \cup {"blocked"}
                     THEN "blocked" ELSE status[j]
    BY <1>1, <1>5 DEF RetryWrite, Reopened
  <2>2. QED
    BY <1>2, <1>3, <2>1, PhaseFacts
<1>6. CASE status[r] \in Terminal
  <2>1. Phase(status[r]) = "stopped"
    BY <1>6, PhaseFacts
  <2>2. status'[r] = "queued"
    BY <1>1, <1>6 DEF RetryWrite
  <2>3. \A j \in Job : Phase(status'[j]) =
          IF j = r THEN "open"
          ELSE IF /\ j[1] = r[1] /\ j[2] \in Lifecycle!Later(r[2])
                  /\ Phase(status[j]) = "stopped" THEN "waiting"
          ELSE Phase(status[j])
    BY <1>1, <1>5, <2>2, LifecycleFacts, PhaseFacts
  <2>4. QED
    BY <1>1, <2>1, <2>3, LifecycleFacts DEF Lifecycle!Restart
<1>7. CASE status[r] \notin Terminal
  <2>1. status'[r] = status[r]
    BY <1>1, <1>4, <1>7 DEF RetryWrite
  <2>2. \A j \in Job : Phase(status'[j]) =
          IF /\ j[1] = r[1] /\ j[2] \in Lifecycle!Later(r[2])
             /\ Phase(status[j]) = "stopped" THEN "waiting"
          ELSE Phase(status[j])
    BY <1>1, <1>4, <1>5, <2>1, LifecycleFacts
  <2>3. QED
    BY <1>1, <1>7, <2>2, LifecycleFacts DEF Lifecycle!Overtaken
<1>8. QED
  BY <1>6, <1>7

LEMMA StartRefines ==
  ASSUME InputsInv, InputsInv', NEW w \in Worker, NEW j \in Job, Start(w, j)
  PROVE  Lifecycle!Step \/ UNCHANGED StagePhases
<1>1. CASE Claim(w, j)
  <2>1. status'[j] = "running" /\ \A i \in Job : i # j => status'[i] = status[i]
    BY <1>1 DEF Claim, InputsInv, TypeOK
  <2>2. CASE status[j] = "running"
    BY <2>1, <2>2, StutterStep
  <2>3. CASE status[j] \in {"queued", "retryable"}
    <3>1. Lifecycle!Take(j)
      BY <2>1, <2>3, TakeStep, PhaseFacts
    <3>2. QED
      BY <3>1, LifecycleFacts DEF Lifecycle!Step
  <2>4. QED
    BY <1>1, <2>2, <2>3 DEF Claim, Claimable
<1>2. CASE EmbedNothingLeft(w, j)
  <2>1. /\ j[2] = "embed"
        /\ status[j] \in {"queued", "retryable", "running"}
        /\ status'[j] = "succeeded"
        /\ \A i \in Job : i # j => status'[i] = status[i]
    BY <1>2 DEF EmbedNothingLeft, ClaimAndEnd, Claimable, InputsInv, TypeOK
  <2>2. Lifecycle!Advance(j)
    BY <2>1, AdvanceStep, LifecycleFacts
  <2>3. QED
    BY <2>2, LifecycleFacts DEF Lifecycle!Step
<1>3. CASE Chunk(w, j)
  <2>1. /\ j[2] = "chunk"
        /\ status[j] \in {"queued", "retryable", "running"}
    BY <1>3 DEF Chunk, Claimable
  <2>2. Row(j, "embed") = <<j[1], "embed">> /\ Row(j, "embed") # j
    BY <2>1 DEF Row
  <2>3. status'[j] = "succeeded"
    BY <1>3, <2>2 DEF Chunk, InputsInv, TypeOK
  <2>4. ASSUME NEW i \in Job, i # j
        PROVE  status'[i] =
                 IF i[1] = j[1] /\ i[2] \in Lifecycle!After(j[2]) /\ status[i] = "blocked"
                 THEN "queued" ELSE status[i]
    <3>1. i = Row(j, "embed") <=> i[1] = j[1] /\ i[2] \in Lifecycle!After(j[2])
      BY <2>1, <2>2, RowFacts, LifecycleFacts
    <3>2. status'[i] = IF i = Row(j, "embed") /\ status[i] = "blocked"
                       THEN "queued" ELSE status[i]
      BY <1>3, <2>4 DEF Chunk, InputsInv, TypeOK
    <3>3. QED
      BY <3>1, <3>2
  <2>5. Lifecycle!Advance(j)
    BY <2>1, <2>3, <2>4, AdvanceStep
  <2>6. QED
    BY <2>5, LifecycleFacts DEF Lifecycle!Step
<1>4. CASE RejectMissing(w, j) \/ RejectText(w, j)
  <2>1. \A i \in Job : status'[i] # status[i] =>
          status[i] \in Live \cup {"blocked"} /\ status'[i] \in Terminal
    BY <1>4 DEF RejectMissing, RejectText, ClaimAndEnd, Claimable, Live, Terminal,
                InputsInv, TypeOK
  <2>2. Lifecycle!Stop
    BY <2>1, StopStep
  <2>3. QED
    BY <2>2 DEF Lifecycle!Step
<1>5. QED
  BY <1>1, <1>2, <1>3, <1>4 DEF Start

\* A task that ends with outcome o writes its own row, or overwrites a contested
\* one.
LEMMA TaskRefines ==
  ASSUME InputsInv, InputsInv', OwnInv, NEW w \in Worker, TaskStep(w)
  PROVE  Lifecycle!Step \/ UNCHANGED StagePhases
<1>1. CASE CheckCancel(w) \/ EmbedBatch(w)
  BY <1>1 DEF CheckCancel, EmbedBatch, rows, StagePhases
<1>2. ASSUME ~CheckCancel(w), ~EmbedBatch(w)
      PROVE  Lifecycle!Step
  <2>1. /\ task[w] \in Job /\ Busy(w)
        /\ task[w] = <<task[w][1], task[w][2]>>
    BY <1>2, HeldRow DEF TaskStep, FailForNow, FailForGood, FinalizeCancel,
                         ParseCommit, EmbedCommit, Busy
  <2>2. task[w] \notin contested => status[task[w]] \in {"running", "cancel_requested"}
    BY <2>1, HeldRows
  <2>3. \/ /\ status'[task[w]] \in {"retryable"} \cup Terminal
           /\ \A i \in Job : i # task[w] => status'[i] = status[i]
        \/ /\ status'[task[w]] = "succeeded"
           /\ \A i \in Job : i # task[w] => status'[i] =
                IF /\ i[1] = task[w][1] /\ i[2] \in Lifecycle!After(task[w][2])
                   /\ status[i] = "blocked"
                THEN "queued" ELSE status[i]
    <3>1. CASE FailForNow(w) \/ FailForGood(w) \/ FinalizeCancel(w)
      BY <2>1, <3>1 DEF FailForNow, FailForGood, FinalizeCancel, SetRow, Terminal,
                        InputsInv, TypeOK
    <3>2. CASE EmbedCommit(w)
      BY <2>1, <3>2, LifecycleFacts DEF EmbedCommit, SetRow, InputsInv, TypeOK
    <3>3. CASE ParseCommit(w)
      <4>1. /\ Row(task[w], "chunk") = <<task[w][1], "chunk">>
            /\ Row(task[w], "chunk") # task[w] /\ task[w][2] = "parse"
        BY <2>1, <3>3 DEF ParseCommit, Row
      <4>2. status'[task[w]] = "succeeded"
        BY <2>1, <3>3, <4>1 DEF ParseCommit, InputsInv, TypeOK
      <4>3. ASSUME NEW i \in Job, i # task[w]
            PROVE  status'[i] =
                     IF /\ i[1] = task[w][1] /\ i[2] \in Lifecycle!After(task[w][2])
                        /\ status[i] = "blocked"
                     THEN "queued" ELSE status[i]
        <5>1. i = Row(task[w], "chunk")
                <=> i[1] = task[w][1] /\ i[2] \in Lifecycle!After(task[w][2])
          BY <4>1, RowFacts, LifecycleFacts
        <5>2. status'[i] = IF i = Row(task[w], "chunk") /\ status[i] = "blocked"
                           THEN "queued" ELSE status[i]
          BY <3>3, <4>3 DEF ParseCommit, InputsInv, TypeOK
        <5>3. QED
          BY <5>1, <5>2
      <4>4. QED
        BY <4>2, <4>3
    <3>4. QED
      BY <1>2, <3>1, <3>2, <3>3 DEF TaskStep
  <2>4. CASE task[w] \in contested
    <3>1. Lifecycle!Overwrite(task[w])
      BY <2>1, <2>3, <2>4, OverwriteStep DEF Terminal
    <3>2. QED
      BY <2>1, <3>1, LifecycleFacts DEF Lifecycle!Step
  <2>5. CASE task[w] \notin contested /\ status'[task[w]] = "retryable"
    <3>1. Lifecycle!PutBack(task[w])
      BY <2>1, <2>2, <2>3, <2>5, PutBackStep, PhaseFacts
    <3>2. QED
      BY <2>1, <3>1, LifecycleFacts DEF Lifecycle!Step
  <2>6. CASE task[w] \notin contested /\ status'[task[w]] \in Terminal
    <3>1. \A i \in Job : status'[i] # status[i] =>
            status[i] \in Live \cup {"blocked"} /\ status'[i] \in Terminal
      BY <2>1, <2>2, <2>3, <2>6 DEF Live, Terminal
    <3>2. Lifecycle!Stop
      BY <3>1, StopStep
    <3>3. QED
      BY <3>2 DEF Lifecycle!Step
  <2>7. CASE task[w] \notin contested /\ status'[task[w]] = "succeeded"
    <3>1. Lifecycle!Advance(task[w])
      BY <2>1, <2>2, <2>3, <2>7, AdvanceStep DEF Terminal
    <3>2. QED
      BY <2>1, <3>1, LifecycleFacts DEF Lifecycle!Step
  <2>8. QED
    BY <2>3, <2>4, <2>5, <2>6, <2>7
<1>3. QED
  BY <1>1, <1>2

\* A step that contests nothing.
LEMMA CalmStep ==
  ASSUME InputsInv, InputsInv', OwnInv, ShownInv, [Next]_vars,
         ~\E j \in Job : ExpireLease(j), ~\E w \in Worker : ReapRead(w)
  PROVE  Lifecycle!Step \/ UNCHANGED StagePhases
<1>1. ASSUME NEW v \in Version, Publish(v)
      PROVE  Lifecycle!Step
  BY <1>1, PublishStep, LifecycleFacts DEF Lifecycle!Step
<1>2. CASE Cancel
  <2>1. \A j \in Job : status'[j] # status[j] =>
            \/ /\ status[j] \in Live \cup {"blocked"}
               /\ status'[j] \in Terminal
            \/ status[j] = "running" /\ status'[j] = "cancel_requested"
    BY <1>2 DEF Cancel, Live, Terminal
  <2>2. Lifecycle!Stop
    BY <2>1, StopStep
  <2>3. QED
    BY <2>2 DEF Lifecycle!Step
<1>3. CASE RetryWrite
  <2>1. <<current, Restart(retrying)>> \in Job
    BY <1>3, RetryRestarts
  <2>2. \/ Lifecycle!Restart(<<current, Restart(retrying)>>)
        \/ Lifecycle!Overtaken(<<current, Restart(retrying)>>)
    BY <1>3, RestartStep
  <2>3. QED
    BY <2>1, <2>2, LifecycleFacts DEF Lifecycle!Step
<1>4. ASSUME NEW w \in Worker, Reap(w)
      PROVE  Lifecycle!Step
  <2>1. \A j \in Job : status'[j] # status[j] =>
          status[j] \in Live \cup {"blocked"} /\ status'[j] \in Terminal
    BY <1>4 DEF Reap, Live, Terminal
  <2>2. Lifecycle!Stop
    BY <2>1, StopStep
  <2>3. QED
    BY <2>2 DEF Lifecycle!Step
<1>5. ASSUME NEW w \in Worker, Die(w)
      PROVE  UNCHANGED StagePhases
  BY <1>5 DEF Die, rows, StagePhases
<1>6. CASE RetryRead \/ UNCHANGED vars
  BY <1>6 DEF RetryRead, rows, vars, StagePhases
<1>7. QED
  BY <1>1, <1>2, <1>3, <1>4, <1>5, <1>6, StartRefines, TaskRefines DEF Next

\* The end of a lease and the reading of a pass contest rows that are held.
LEMMA ContestStep ==
  ASSUME InputsInv, OwnInv,
         (\E j \in Job : ExpireLease(j)) \/ (\E w \in Worker : ReapRead(w))
  PROVE  \/ \E S \in SUBSET Job : Lifecycle!Contest(S)
         \/ UNCHANGED <<StagePhases, contested>>
<1> DEFINE New == contested' \ contested
<1>1. /\ New \subseteq Job /\ contested' = contested \cup New
      /\ \A j \in New : status[j] \in {"running", "cancel_requested"}
  <2>1. ASSUME NEW j \in Job, ExpireLease(j)
        PROVE  /\ New \subseteq Job /\ contested' = contested \cup New
               /\ \A i \in New : status[i] \in {"running", "cancel_requested"}
    BY <2>1, LateIsHeld
  <2>2. ASSUME NEW w \in Worker, ReapRead(w)
        PROVE  /\ New \subseteq Job /\ contested' = contested \cup New
               /\ \A i \in New : status[i] \in {"running", "cancel_requested"}
    BY <2>2, TwiceIsHeld DEF Orphaned
  <2>3. QED
    BY <2>1, <2>2
<1>2. UNCHANGED status
  BY DEF ExpireLease, ReapRead, rows
<1>3. UNCHANGED [j \in Job |-> Phase(status[j])]
  BY <1>2
<1>4. \A j \in New : Phase(status[j]) = "held"
  BY <1>1, PhaseFacts
<1>5. Lifecycle!Contest(New)
  BY <1>1, <1>3, <1>4 DEF Lifecycle!Contest
<1>6. QED
  BY <1>1, <1>5

LEMMA StepRefines ==
  ASSUME InputsInv, InputsInv', OwnInv, ShownInv, [Next]_vars
  PROVE  Lifecycle!Next \/ UNCHANGED <<StagePhases, contested>>
<1>1. CASE (\E j \in Job : ExpireLease(j)) \/ (\E w \in Worker : ReapRead(w))
  BY <1>1, ContestStep, LifecycleFacts DEF Lifecycle!Next
<1>2. CASE /\ ~\E j \in Job : ExpireLease(j)
           /\ ~\E w \in Worker : ReapRead(w)
  <2>1. UNCHANGED contested
    BY <1>2, ContestedStep
  <2>2. QED
    BY <1>2, <2>1, CalmStep DEF Lifecycle!Next
<1>3. QED
  BY <1>1, <1>2

\* The rows implement StageLifecycle for every number of workers, versions and
\* requests, whatever the timing: a stage opens only when the one before it is
\* done, is held by one worker at a time, and is done for good or stopped until
\* a retry restarts it; only who holds a contested stage may overwrite it, with
\* an outcome a holder could have had, and only a held stage is contested.
THEOREM RowsFollowLifecycle == Spec => ImplementsLifecycle
<1> DEFINE Inv == InputsInv /\ OwnInv /\ ShownInv
<1>1. Inv /\ Inv' /\ [Next]_vars => [Lifecycle!Next]_<<StagePhases, contested>>
  BY StepRefines
<1>2. Spec => []Inv
  BY ShownInvariant
<1>3. StagePhases = [j \in Job |-> Phase(status[j])]
  BY DEF StagePhases
<1>4. QED
  BY <1>1, <1>2, LifecycleInit, PTL DEF Spec, ImplementsLifecycle, Lifecycle!Spec, StagePhases

=============================================================================
