# Verification of IMA

TLA+ models of the IMA knowledge-base backend (`src/backend/src/ima`), checked with TLC on small
instances and, for what matters most, proved with TLAPS for every value of the constants. Paths
without a prefix are relative to `src/backend/src/ima`.

1. The system and its parts · 2. The modules · 3. The runs · 4. Fairness · 5. The proofs ·
6. What the code does not keep · 7. What is not modelled · 8. Plan

## 1. The system and its parts

IMA is a team knowledge base: users upload files into the folders of a knowledge base, a worker
parses, chunks and embeds them, and questions are answered from the retrieved chunks. An API
process (FastAPI) and one or more worker processes (Procrastinate) share one PostgreSQL database
and one S3-compatible bucket. All coordination is through rows; no state is shared in memory
between requests. Transactions run at READ COMMITTED (`infrastructure/db/engine.py` leaves the
default), so an unlocked SELECT followed by an UPDATE is two steps other transactions can get
between, while UPDATE ... WHERE and SELECT ... FOR UPDATE recheck the row after waiting for it.
Every module is written under this rule: a transaction that locks the row it decides about from its
first statement on is one action, one that decides on an unlocked read is two.

| Component | State | Operations | What is hard | What makes it correct |
|---|---|---|---|---|
| Ingestion pipeline (`infrastructure/tasks/ingestion.py`, `application/storage.py`, `workers/main.py`) | `ingestion_jobs`, `document_derived_text`, `document_chunks`, `documents.file_state` | parse, chunk, embed, publish, cancel, retry, reconcile | expired leases, stale reads, cancel and retry racing with tasks, crashes, replaced versions | one owner per row, inputs in place, no fake ready, nothing stranded |
| Chunker (`application/ingestion.py`) | none: a function of a text | blocks, headings, tables, pieces, overlap | budgets that headings, headers and overlap share | no chunk exceeds its budget, no line is lost |
| Upload and object lifecycle (`application/storage.py`, `application/knowledge.py`, cleanup task) | `document_file_versions`, bucket objects, `storage_cleanup_jobs` | ticket, PUT, complete, replace, delete, cleanup | the client PUTs late or never, tickets expire, crash between commit and enqueue | only verified bytes are published, referenced bytes are kept, unreferenced ones removed |
| Knowledge documents (`application/knowledge.py`) | `documents`, `document_versions` | create, patch, move, restore, delete, list | versions read without a lock; pages over changing rows | no update is lost, a listing is complete |
| Retrieval index (`application/search.py`) | `chunk_search_indexes`, chunk labels | build, refresh, heal, switch of the default model | concurrent builds, crash while building, model changed half-way | the newest finished index is active and covers the ready chunks |
| Search (`application/search.py`) | none | keyword, vector and hybrid search, reranking | statements that see different states, two scales of scores | only visible chunks, in the order of their scores |
| Folder tree (`application/authorization.py`) | `folders`, `folder_closure` | create, move, rename, reorder, delete | moves that interleave statement by statement | the tree stays a tree, the closure table its closure |
| Membership and share links (`application/authorization.py`) | `knowledge_bases`, `kb_members`, `kb_share_links` | create, link, accept, revoke, change role, remove, leave, archive, restore, delete | authorization read without a lock, acted on later | one owner, nobody joins by a revoked link, deletion takes nothing with it |
| Ask and conversations (`application/search.py`, `application/ask_tools.py`) | `conversations`, `conversation_messages`, `message_citations` | ask (plain, agent, bounded), tools, cancel, archive, delete | sources withdrawn while the model writes, disconnects, tool rounds, streams cut anywhere | numbers mean the sources they were shown for, sources are stored before text, the streamed text is the stored text, tools stay in the pinned scope, every question is settled |
| Identity (`application/identity.py`, `api/v1/account.py`, `api/v1/admin.py`) | users, sessions, one-time tokens, second factors, roles | sign in, reset, disable, delete, restore, roles | checks on one connection, writes on another; administrators against one another | secured accounts lose older sessions, challenges and codes work once, one super administrator remains |
| OAuth (`application/oauth.py`, `infrastructure/oauth.py`) | grants, codes, refresh families, access tokens | authorize, exchange, rotate, revoke | replay, rotation against revocation, consents that overlap | a code is exchanged once, replay ends all that came from it |
| MCP endpoint (`application/mcp.py`, `infrastructure/oauth.py`) | principals, credentials, tokens, leases | create, rotate, exchange, revoke, call a tool | calls under way when a principal is revoked, old clocks, late and lost calls | after a revocation nothing is let in or passes a check, leases bound the calls that end before them, and return |
| Model governance (`application/model_governance.py`) | models, profiles, versions, scene defaults | edit, validate, publish, set a default, resolve | a default set by several transactions that may fail half-way | published versions never change, a workflow leads to a published version |
| Gateways and their client (`application/model_governance.py`, `infrastructure/model_gateway/`, `cli.py`) | gateways, encrypted credentials, key ring | create, rotate, rotate keys, call | address and credential read apart, keys that are taken out | a credential goes only where it belongs and stays readable |
| Maintenance freeze (`application/maintenance.py`) | one flag | freeze, unfreeze, guard | writes in flight | no write begins under a freeze |
| Diagnostic and health tasks, HTTP layer, CLI, mail, migrations, frontend (`src/src`), `.trellis`, `.codex` | | | I/O and formatting | |

How they interact: `complete` publishes a version and creates its ingestion rows in one
transaction; the chunk task runs the chunker; the embed task labels chunks and queues an index task;
reconciliation in every worker redelivers ingestion, cleanup and index work; deleting a document
drops its chunks, jobs and citations and queues the cleanup of its objects; a question needs a
membership, searches, calls tools and a model through a gateway the scene default leads to, and its
conversation row keeps that membership from being removed; index and conversation rows keep the
knowledge base from being deleted; what sessions and OAuth tokens carry is the security stamp of the
user (`Accounts`), and a new stamp ends both. PROJECT.json lists the components with their status,
and under `hazards` what can go wrong at which line and which property would notice.

## 2. The modules

| Module | Models | Composed with |
|---|---|---|
| `Ingestion` | the three stages of every version of a document, workers, cancel, retry, reconciliation | implements `StageLifecycle` |
| `StageLifecycle` | abstract: the life of one stage (none, waiting, open, held, done, stopped) | |
| `ObjectLifecycle` | tickets, PUTs, completion, replacement, deletion, cleanup of one document's objects | |
| `KnowledgeDocuments` | notes of a folder under concurrent edits, moves, restores; paging; the freeze | |
| `FolderTree` | folders and closure rows under concurrent transactions | |
| `KbMembership` | one knowledge base: its members, links, lifecycle, and what references it | |
| `VectorIndex` | chunk labels, index rows, builders, reconciliation, switching models | `HybridSearch` in `Retrieval`; `Chunker` in `MC_VectorIndex` |
| `Chunker` | the blocks of a text or a file and the chunks of a budget | |
| `HybridSearch` | one search with its statements, fusion, threshold and reranking | |
| `Retrieval` | an index and a search | extends `VectorIndex`, composes `HybridSearch`; extended by `MC_VectorIndex` |
| `AskStream` | questions in a conversation, their sources, their answers | `AskTools` in `Asking`; `ModelTexts` and `CitationFilter` in `MC_AskStream` |
| `ChatEvents` | the answer of a model as it arrives: lines, texts, pieces of tool calls | `AgentContext` in `ModelTexts` |
| `AgentContext` | the messages sent to a model, round after round, within a budget | |
| `ModelTexts` | what an agent hears of its model and what it sends | extends the two; extended by `MC_AskStream` |
| `CitationFilter` | citation markers of an answer, streamed piece by piece and stored whole | |
| `AskTools` | the tools of a conversation pinned to a folder or document | |
| `Asking` | questions and the tools called for them | extends `AskStream`, composes `AskTools`; extended by `MC_AskStream` |
| `Accounts` | the row of a user: active flag and security stamp | extended by `Identity` and `OAuthGrants` |
| `Identity` | signing in, second factors, sessions, links, administrators' requests | |
| `OAuthGrants` | consents, codes, exchanges, refresh families, access tokens | |
| `McpService` | one service principal: credentials, exchanged tokens, tool calls, leases | |
| `ModelGovernance` | models, the managed profile of a workflow, its default, resolution | `Gateways` in `Governance` |
| `Gateways` | gateways, credentials, key rotation, calls | |
| `Governance` | both as one | extends `ModelGovernance`, composes `Gateways`; extended by `MC_ModelGovernance` |
| `*Proofs` | theorems and proofs | extend the modules they are about: `DocumentProofs` is about `ObjectLifecycle` and `KnowledgeDocuments`, `KbProofs` about `KbMembership` and `FolderTree`, `SearchProofs` about `Asking` and `Retrieval`, `TextProofs` about `ModelTexts` and `Chunker`, `IdentityProofs` about `Identity` and `McpService`, `GovernanceProofs` about `Governance`, the others about the module of their name |
| `MC_*` | constants and compositions for TLC | extend their module |

`Governance`, `Asking`, `Retrieval` and `ModelTexts` are whole compositions: a step is one of either part while
the other stays. For TLC, where an MC module composes modules that share no state (`MC_AskStream`,
`MC_VectorIndex`, `MC_ModelGovernance`), each behaviour explores one of them (`explored`) while the
others stay in an initial state. Their
product would show nothing their sum does not, because no property relates two of them and none
reads what another writes; what one hands to another (chunks to the index, hits to the question) is
in the constants of the receiving module, which lets it be anything.

Definitions named `M_...` are mistakes a programmer might make, written next to the definition whose
place they would take; each property is violated when its mistake is substituted (`mutants`).
Constants named `...Cap`, and `Changes`, bound counters; the module says of each that it is a bound.

**Ingestion.** `status`, `attempts`, `lease` are the columns of `ingestion_jobs`; `pc`, `task`,
`held`, `batch` are the local variables of a running task. `Claim` is the UPDATE of `claim`;
`CheckCancel` is the unlocked SELECT of `cancelled()`; `ParseCommit`, `EmbedBatch` and `EmbedCommit`
are the transactions that follow it; `FailForNow`, `FailForGood` the two outcomes of `failed()`. The
chunk task holds its row from claim to commit and is one action. `RetryRead`/`RetryWrite` split the
retry at the point where its stages are read; it holds the document row between them
(`DocumentFree`). `ReapRead`/`Reap` are the two connections of `reconcile_once`. Assumptions:
the queue of deliveries is abstracted to "any idle worker may claim any claimable row" (a delivery
that finds nothing claimable changes nothing; reconciliation redelivers everything claimable); the
lease is *live* or *expired*; `generation` is left out because the branch that finds older chunks
is unreachable (that is what `InputsInPlace` shows); the UPDATEs of `cancel`, which lock the
document first, are one action; `Die` stands for the process, for an exception of the task and for
a transaction PostgreSQL aborts. A lease may end under a task that is still at work, and two
workers may have read the same orphan; `contested` is the history of the rows this happened to. The
properties say what holds of every row, and which parts only of rows nobody contested; that
each of these exceptions is needed was checked by taking it away (section 6).
`StageLifecycle` has the same history: what it promises of a contested stage is only that it was
held when it came to be contested, and that those who overwrite it do so with an outcome a holder
could have had.

**Chunker.** A text is a sequence of kinds of lines, a kind being what the regular expressions tell
of a line; for a file, a line is a paragraph or a row as the library presents it. A character of
line *l* is the number *l*, so the chunks show what became of every line.
`TextBlocks` is `text_blocks`; `StartSection`, `EmitPieces`, `AddPiece`, `SkipBlock` are the
branches of the loop of `structure_aware_chunks`, `BlockPieces` its splitting by sentence and
character, with `Grouped` for the loops that join parts while they fit.
A CJK character is a token, what the program puts in between a quarter of one.

**ObjectLifecycle.** `row` is `document_file_versions.object_state`, `ticket` the presigned URL,
`object` the bucket. `Refuse` is the branch of `complete` whose UPDATE is rolled back by the error
it raises. `unqueued` are the keys the API process still has to queue after the commit of
`delete_document`; `cleanup`, `due` are `storage_cleanup_jobs`. Document ids are never reused, keys
are enqueued only by `delete_document` and only after their rows are gone, so the dependency check
of the cleanup task never finds a user; the model keeps the check.

**KnowledgeDocuments.** `tx[t]` is what an open transaction has read; a note's content is the number
of its edit. Transactions ask for the freeze in their first statement (`Begin...`) and commit later.
`reader` is a listing with its cursor. SQL orders rows by `lower(title)`, a cursor carries
`title.casefold()`: `Folded` gives the place in the order that the folded title has, for every
place a row can have. As histories, `shown` counts what the pages held, `stays` is what was there,
with the same key, throughout, and `cuts` are the cursors used, each with its row's own key. The
lifecycle column never leaves `active` in the code.

**VectorIndex.** `label` is `model_id`/`model_version` of a chunk, `maker` the model that computed
its vector (the gateway resolves the model by itself). `active` and `building` are rows of
`chunk_search_indexes`; retired and failed rows only matter for the next generation (`last`).
`Insert` is `_build_index_core` under its advisory lock, `Activate` its last transaction, with
`CREATE INDEX` between. Clearing the default model is left out.

**HybridSearch.** Each action is a statement or a call of `SearchService.search`; `seen` is the
history of what was visible since the search was authorized. Scores are integers, negative for
vectors that point away. `Sorted` puts an element where as many others precede it, which is what
`sorted` and `ORDER BY` do with keys that tell all elements apart. What PostgreSQL makes of a query,
and the excerpts, are left out. `Vector` takes the list of generations and the
scan of their chunks as one statement, and finds the nearest exactly, where an HNSW index finds them
approximately: both may only miss chunks.

**FolderTree.** One action per SQL statement that reads or writes closure rows. `Locked` are the
folders locked FOR UPDATE; `KeyShared` is the FOR KEY SHARE the foreign keys of `folder_closure`
take on both ends of an inserted row, without which the closure would break (it is the mutant of
`ClosureExact`). A DELETE that waits for a row skips it if the other transaction deletes it
(`Leave` removes it from `del`). Locks of one statement are taken in one step and those of the
last statements by the committing step: taking some earlier only makes others wait, so every
reachable committed state is kept. Names, order keys, versions and depths are left out.

**KbMembership.** `Begin` is the authorization every request performs without a lock, and the action
named for the request acts later, with its own locked checks. `accept_share_link` locks all links
and their knowledge bases FOR UPDATE: `Match` reads them, `Join` inserts, and `LinksFree` makes
writers of these rows wait in between. Content is one flag and conversations one set: enough for the
foreign keys that refuse deletions. Users that joined have audit events and are never deleted.

**AskStream.** Three modes share the actions: *plain* (`ask`), *agent* (`ask(agent=True)` with
`_agent_loop`), *bounded* (`ask_bounded`). `evidence` is what the model sees, in rank order;
`checked` the ranks and sources the last authorization let through; `rows` is `message_citations`.
An authorization is as many actions as it has statements, each of which sees a state of its own:
`RequireKb` looks up the membership, `SelectSource` one source after another
(`_final_authorize_citations`), or `SelectAgain` the keywords and the vectors of the bounded search;
`looked` counts them, `matched` is what they found, and `Authorize` or `Verify` decides on it. Only
the searches that collect sources, in which nothing is decided on several statements, are one step
here; `HybridSearch` has their statements. Each transaction is an action: `Store`, `Persist`, `Mark`,
`Settle`. `Settle` ends in `"ending"`, the await in which the connection is released; `Cancel` may
strike there too. `Fail` is any exception that reaches the handlers and stays possible at every
await. The handlers write in a step of their own (`Handled`), which may fail or be cancelled in turn
(`Unwritten`): then nothing is left that would write. `Close` is a client that goes away while a frame is
sent. `told` and `withdrawn` are history variables. Requests share nothing but the conversation and
the world, so one request is checked against everything that can change around it; the unique
sequence number, the one other contact, is an outcome of `Store` and `StoreBounded`.

**ChatEvents, AgentContext, CitationFilter, AskTools.** The text of an answer on its way. A line of
the gateway's stream is its beginning and what it carries, `HearChunk` takes any number of symbols
and `HearEnd` what is left (`_deltas`, `_agent_events`, `_agent_loop`). `Feed` is `_CitationStreamFilter.feed`
over characters, `Grounded` is `_ground_answer_text`, the reference it is compared with. `AgentContext`
keeps roles, lengths and identifiers of messages; one action per append, each followed by
`_bounded_agent_messages` (`Bounded`), which keeps or drops units, of one message or one exchange. `AskTools` has one action per connection of a tool call; `seen` and
`allowed` are the history of the scope and the membership during the call.

**Accounts, Identity, OAuthGrants.** A stamp is the number of its change. In `Identity` an attempt
is a call of `authenticate_password` or `verify_challenge`, a request a call of a signed-in user or
administrator: its first transaction checks, its second acts. An attempt's session and challenge
carry its name. In `OAuthGrants` a flow is one authorization, and its code and its family carry its
name; `authorize_submit` is four actions, as it is four transactions; an exchange holds the code and
the grant from `BeginExchange` to `FinishExchange`. `RevokeRead`/`RevokeWrite` are the snapshot of
the UPDATE in `revoke_refresh_token` and its end. Expiry, PKCE and redirects only refuse.

**McpService.** Time is a tick; `age` is the time since a call has read its lease clock, `left` how
long its lease lasts, `budget` how long its operation may run. `ReadClock` is before, `Acquire` and
`Deny` after the advisory locks were waited for; `CheckPrincipal` is `effective_user_id`, which reads
the principal on a connection of its own, and `Begin` the operation under `asyncio.timeout`. No
relation of the waits to `Ttl` is assumed: a call may get its lock, or begin, after its lease is
over. `AuthorizeDocument` is a tool that names a document: only its operation learns the knowledge
base, so what that refuses is a `Finish`. `Vanish` is a process that dies, or a request cancelled
where its lease is not known yet.

**ModelGovernance, Gateways.** `admin` is what a request took from one transaction to the next:
`set_scene_default` reads the model, creates or patches the managed profile, publishes it, sets the
pointer, and erases a profile it created if that fails; `ChooseModel` takes its reads of the model
and of the current default, neither of which locks, as one. `Resolve` and `Explain` are the two queries
of `_execution_target`. In `Gateways` a call reads the address (`ReadGateway`), then the credential
row named there (`Decrypt`); `rotation` is `rotate-model-secrets apply`, one transaction that locks
row after row. Aborted transactions, refused requests and processes that die are actions.

## 3. The runs

| Run | Instance | Shows |
|---|---|---|
| `ingestion` | 2 workers, 2 versions, 2 batches, 4 claims of a row; up to 3 requests and a fault, where a fault is a crash, a lease that ends under its task, or two passes at once | `TasksOwnTheirRows`, `InputsInPlace`, `ReadyIsEarned`, `PendingIsTrue`, `EventuallySettled`, the refinement `ImplementsLifecycle` |
| `object_lifecycle` | 3 versions, 2 workers, one each of late PUT, storage fault, API and worker death | `PublishedBytesKept`, `LastPublishedIsCurrent`, `DoneMeansErased`, `BytesGone` |
| `folder_tree` | 6 folders, 3 transactions | `TreeRooted`, `ClosureExact` |
| `vector_index` | 2 builders, 2 chunks, 2 model versions, 2 switches, an owner's request, a failure, a crash; every text of up to four lines, sheets and PDFs of four and Word documents of three, three budgets; searches of two documents with one change | `NeverOlder`, `Healed`; `ChunkingSound`; `SearchSound` |
| `kb_membership` | 3 users, 1 link, 2 requests | `OneOwner`, `JoinedByLink`, `NothingLost`, `ChatsHaveMembers` |
| `ask_stream` | 1 request in each mode, 3 sources, 3 rounds, 3 changes around it; answers of three words; streams of three lines; up to three rounds of messages; a tree of two folders and two documents with three changes | `CitationsSound`, `NotFromWithdrawn`, `EveryAskIsSettled`; `ExchangesSound`; `StreamedAsStored`; `ToolsInScope` |
| `identity` | 3 attempts and 2 requests on one account; 4 requests of administrators over 3 users | `ASuperRemains`, `SecuredSessionsEnd`, `UsedOnce` |
| `oauth` | 2 flows, 2 exchanges, 2 scopes, 2 grants, 3 access tokens, 1 new stamp | `CodeExchangedOnce`, `ReplayEndsAll`, `SecuredFlowsEnd`, `RevokedFamilyRests` |
| `mcp` | 3 calls for 2 slots, 2 credentials, 1 exchange, 1 rotation; leases of 4 ticks, operations of 2, up to 4 ticks from the clock to the operation | `SlotsSound`, `RevokedPrincipalRests` |
| `model_governance` | 2 administrators, 1 model, 2 profile ids, 3 versions, 1 caller; 2 processes, 1 gateway, 2 credentials and addresses, 2 key versions | `RoutingSound`, `PublishedImmutable`; `GatewaysSound` |
| `documents` | 3 notes, 2 requests, 2 keys whose folded titles sort after one and before the other, pages of two | `EditsReplaceWhatTheyRead`, `PagesMeet` |
| `mixed_listing` | folders and notes in one listing, keys that fold to themselves | counterexample to `ListedOnce`, section 6 |

Five properties are conjunctions of properties their module states by themselves: `ExchangesSound`
(`DecodedWhole`, `ContextSound`), `CitationsSound` (`NumbersAgree`, `ToldIsStored`), `GatewaysSound` (`CallsSound`,
`CredentialsReadable`), `SlotsSound` (`ConcurrencyBounded`, `SlotsReturn`) and `PendingIsTrue`
(`NoStrandedDocument`, `StoppedIsShown`). Every module states a `TypeOK`; those of the modules with
proofs are proved, the others were checked as invariants and are not part of the runs.

Why the bounds are enough. Two workers or builders show every interference between two tasks; a
third adds none, since a row has one status and a task reads one row. A second version is what
makes `current` differ from the version a task works on; a third key lets a deletion find one
version verified, one replaced and one pending. Two batches give an embed task a transaction in the
middle. Requests are bounded by 3 because cancel, retry and cancel again is the longest sequence in
which each request meets the effect of the one before. Six folders and three transactions allow two
nested moves and a creation below both. Three sources and three rounds let sources of two rounds be
stored and one of them be withdrawn afterwards; three changes are enough to hide, show and hide
again. One crash, fault or late PUT of each kind suffices for safety, since what it leaves behind
stays; the proofs below carry the safety properties to any number.

Three words put every marker between two others and a link behind and before it; they are cut at
every character. Four lines hold a heading, a table with its separator and two rows, or a heading
above two blocks; the three budgets make a text fit, need two chunks, or split by character. Three
attempts are a sign-in that gets a challenge and two that answer it at once. Two consents overlap;
with more flows the third meets only what the second left. Three calls for two slots are one too
many. Two administrators and two ids are what it takes for one to discard what the other uses. Two
notes and a reader with pages of one put a page boundary between any two items and before any
change.

Some runs narrow what meets. `ingestion` explores three families of behaviours: no lease ends under
a task, with one fault at most and four publications and requests together; one version whose leases
may end at any time, with up to two requests; and both versions published with up to one fault and no
request. `identity` explores sign-ins against requests on the same account, and
administrators against one another, as two families of behaviours. `mcp` explores three calls
for two slots while the principal, a token and the membership are revoked, and one call while
everything about credentials changes at any moment: calls meet one another in their leases alone.

`CHECK_DEADLOCK FALSE` stands where the bounded system may run out of things to do: all requests
made, all rows at rest, the knowledge base deleted. `FolderTree` never stops and is checked for
deadlock. Symmetry is used only where the checked properties are safety properties.

## 4. Fairness

Weak fairness only, and none for clients, administrators, crashes or failures.

* Ingestion: some task goes on (`TaskStep`), because tasks run in an event loop and their model calls
  time out; some claimable row is claimed (`Start`), because reconciliation redelivers it every 15 s
  and idle workers take deliveries; leases expire; reconciliation passes come; a retry that has
  locked the document writes. Fairness per task or row is not needed: between two retries a row is
  claimed a bounded number of times.
* Objects: queueing after a deletion goes on while the process lives; tickets expire; due jobs are
  redelivered; `BytesGone` excludes by its premise the deaths and late PUTs the code does not
  recover from.
* Index: reconciliation, delivery, and the two transactions of a build. `CREATE INDEX` may fail any
  bounded number of times.
* Ask: every step of a request that is running (`Advance`, failing and the write of its handler
  included): asyncio schedules it, and the model, tools and database answer, fail or time out. Nothing
  is assumed of the client, and a handler's write may be the last thing that fails (`Unwritten`).

The other modules promise nothing that must happen, and state no fairness.

Not assumed: that a reconciliation loop survives an exception. `workers/main.py:122` has no
try/except, so a failing pass ends the loop for the life of that worker; liveness holds while one
worker still reconciles.

## 5. The proofs

All theorems hold for every value of the constants that satisfies the named assumptions of the
module (natural bounds, `Founder \in User`, ...); the caps are arbitrary naturals, so the proofs
cover any number of crashes and requests.

* `IngestionProofs`. All theorems hold whatever the timing of tasks, leases and reconciliation passes.
  `TypeCorrect` and `InputsAlwaysInPlace` come from `InputsInv`. `InputsInPlace`
  alone is not inductive; it needs that the three rows of a version appear together, that no task
  ever holds a chunk row, that a cancelled embed row has a closed chunk row before it, that a running
  embed task has its chunks, and that a retry which read embed as the only terminal stage found the
  chunks there (`RowsTogether`, `ChunkNeverHeld`, `CancelledTogether`, `TasksHaveInputs`,
  `RetryReadInputs`). `RowsHaveOneOwner` and `SuccessIsFinal` come from `OwnInv`: unless the row is
  contested, a busy task's lease is live, the row has one task, an orphan a pass has read stays an
  orphan, and no other pass has read it; and the row of a chunk stage, which its transaction holds,
  is never contested (`ChunksUncontested`).
  `ReadinessEarned` and `PendingShowsWork` come from `ShownInv` on top of these two: a retry that has
  read the closed stages still knows which they are, but for a contested one that was opened behind
  its back, a text is stored only with its parse row, and an embed task is never more than one batch
  ahead of what is stored (`RetryKnows`, `TextParsed`, `BatchesDone`). `RowsFollowLifecycle` proves that the pipeline implements `StageLifecycle` under
  `Phase`: the initial states map to one initial state, and for every action and row there is one
  lemma that names the abstract step it maps to, or shows that no phase changes; a write by a task
  that has lost its row is `Overwrite`, a lease that ends under its task is `Contest`.
* `DocumentProofs`. Objects: `TypeCorrect`; `BytesOfPublishedKept` and `CurrentIsLastPublished` from
  `KeptInv`, whose `Quiet` says that while the document lives no cleanup job, cleanup task or
  unqueued key exists; `DoneIsErased` from `ErasedInv`, which adds that a task between erasing and
  reporting has left no object behind unless a late PUT was made. Documents: `EditsAreCurrent` from
  `EditsInv`, whose `RowsHeld` says that whoever is about to write a row holds it alone.
  `PagesMeetAtCursors` from `ListingInv`: what stays has been shown once if it sorts before the cursor
  and not at all behind it, unless it lies between a row and the place its cursor names (`ShownOnce`),
  wherever the folded titles sort. `ListedExactlyOnce` is the case that every key folds to itself,
  as creation times do: nothing is left out and nothing comes twice. That a page is never empty while something is left, and
  that its last row is the next cursor, needs a least number of what is left; it is taken from the
  well-founded order of the naturals, as a set and not as a predicate. The theorems are about
  listings of one kind, as the run is.
* `SearchProofs`. Index: `TypeCorrect` and `NewerOnly` from `IndexInv`: at most one building row of a
  model (`Alone`), newer than its active one, and owned by the builder that is at work (`Ordered`).
  Questions: `AskTypeCorrect`, `CitationsAreSound`, `WithdrawnIsNotAnswered` from `AskInv`, eight conjuncts of every question; the ones that carry the proof are that what an
  authorization let through, and what is stored, bears the ranks of the prompt (`RanksKept`), that it
  is the whole prompt wherever the question goes on (`AllChecked`, `AllStored`), that what is
  withdrawn is hidden still (`StillHidden`), after the membership was looked up even from those who
  have access, and that what a statement found since is not withdrawn (`SeenShown`), so an
  authorization that finds every source shows that none is. Sources are finitely many. Tools: `ToolsStayInScope` from `ToolInv`: while a call is
  under way everything in the scope has been noted (`UnderWay`), and the argument that `named` holds
  is one the scope allows (`Named`), found inside it where only a document is named (`FoundInside`).
  Folders and documents have different names (`NamesAssumption`). Searches: `FoundWasVisible` from
  `FindInv`: whatever a statement found was visible at some time since the search was authorized
  (`FoundVisible`), and whatever has a better score than one that is listed comes before it
  (`Listed`), which cutting the list keeps. That sorting by
  counting gives every element a place of its own and keeps the order is an argument about the sizes
  of sets (`Placed`, `InLine`); the order of fused scores, with their common denominator, is
  arithmetic (`FusedOrder`). It holds for any finite set of chunks whose keys are numbers, any scores,
  bounds and calls (`ChunksAssumption`, `ScoresAssumption`, `CallsAssumption`).
* `TextProofs`. `TypeCorrect` and `ExchangesAreSound` from `TextsInv`, for any streams, chunks, texts,
  conversations, rounds and tool calls. Heard: `Decodes` says that text and calls are at any time those
  of the lines that have ended, and the buffer is the rest; a chunk keeps it because reading *c* and
  then *d* behind what was left of *c* is reading both at once (`EventsMore`), and because texts, pieces
  and calls of events in a row are those of each in a row (`TextConcat`, `CallsConcat`). Sent:
  `ContextInv` says that the list begins with the instructions (`Begun`), is made of whole exchanges
  and other messages (`Whole`), costs no more than the budget and, if there is room for it, holds the
  question behind which no other stands (`Asks`); bounding a longer list keeps each of these
  (`BoundedBegun`, `BoundedWhole`, `BoundedCost`, `BoundedAsks`), because what is spent never exceeds the
  budget and every position adds what is kept of it (`SpentWithin`, `BoundedSteps`). These are
  statements about recursive definitions, for which the prover has no induction rule that takes a
  predicate: `Induct` takes a set instead, and for each recursive function there is a lemma that it
  exists, since one on 0..n extends to n + 1 (`FlattenExists`, `JoinsExists`, `SumsExists`,
  `SpendsExists`). Assumed: what is sent and carried are sequences (`StreamsAssumption`,
  `PayloadAssumption`); questions and tool results are not empty (`SizesAssumption`:
  `api/v1/search_contracts.py:86`, and a tool returns a JSON document); the instructions fit
  (`BudgetAssumption`: the budget is at least 1024 characters, the prompt about 500).
  Chunker: `ChunkerTypes` and `ChunkingIsSound` from `ChunkInv`, for any documents that fulfil
  `FilesAssumption`, lengths of lines, budgets, overlaps and limit. The argument has three
  parts. The blocks a parser finds are in the order of their lines and have every line of content
  among their data (`BlocksHold`; `ParsedHolds` from one lemma for each format). The pieces of a
  block have the characters of its data, and each fits below header and heading, or is of a table
  whose header leaves no room for a character (`BlockPiecesAre`): joining and splitting keep the
  characters (`GroupedSound`, `SplitSound`), stripping a text that fits leaves one that fits
  (`StripWithin`), and a heading leaves room for a character (`HeadingFits`). And what the chunks
  hold so far, each without what it repeats, followed by the data of the blocks to come, is always
  the data of all blocks (`Holding`, a conjunct of `ChunkInv`); a piece is told from those repeated
  because it is of a later block (`Earlier`), or another part. In what remains at the end every line
  of content is whole, once, and in its place (`RemainsIs`). Assumed of a document: one separator
  follows no other, and a workbook begins with the title of a sheet.
* `KbProofs`. `TypeCorrect`, `OwnerKept`, `NothingIsLost`, `ChattersAreMembers`,
  `JoinedByLinkOnly` from `KbInv`, whose `Standing` says what a request that was authorized earlier
  may still rely on (its user is not the founder if it is about to leave; the knowledge base is
  active and the link open or just expired if it is about to join), and whose `Emptied` says what a
  deleted knowledge base has lost. Folders: `TreeTypeCorrect`, `ClosureStaysExact`, `TreeStaysRooted`
  from `TreeInv`, for any number of folders and of concurrent transactions. Its `IsTree` describes the
  closure as an order: reflexive, transitive, antisymmetric, the ancestors of a folder in one line,
  the root above all, and the ancestors of a folder those of its parent and itself. Moves, creations
  and deletions keep it (`Grafted`, `Grown`, `Pruned`). `Apart` and `Held` say what the locks are
  worth: no folder is locked twice, and what a transaction found is what it would find now, although
  it reads without locking what lies above and below. The reason is in `MoveWaits`: a transaction that
  would change what lies above or below a locked folder must insert a closure row at it, and the
  foreign key of that row waits for the lock. `ClosureExact` speaks of chains of parents; that the
  order is exactly these chains is an argument over the least number of ancestors.
* `OAuthProofs`. `TypeCorrect`, `OneExchange`, `ReplayIsFatal`, `EarlierFlowsEnd`, `FamilyRests` from
  `GrantInv`: an exchange holds its code alone, tokens come from used codes whose grant exists, the
  grants of replayed flows are revoked, and the stamp a flow carries is no newer than its user's, and
  older if the flow was approved before the user was secured.
* `IdentityProofs`. `TypeCorrect`, `AnswersAreUsedOnce`, `EarlierSessionsEnd` from `SignInv`: what
  attempts hold is what they answered, a used challenge or code has one session, and stamps carried
  are no newer than the user's. `SupersRemain` from `RoleInv`: who holds the lock has counted, and
  another super administrator than its target remains. Users are finitely many, for their count. MCP:
  `McpTypeCorrect`, `SlotsAreSound`, `PrincipalRests` from `SlotInv`: a call that is no older than a
  lease has its lease, as long as it should be (`Leased`), a lease that any clock in use counts is of
  a call that holds its slot or was lost with it (`HeldOnly`), no more leases are live than the limit
  (`WithinLimit`), and clocks are at most `WaitCap` old (`Aged`; the cap is any natural, and nothing
  is assumed about it, `Timeout` and `Ttl`). Calls are finitely many.
* `GovernanceProofs`. `TypeCorrect`, `RoutesAreSound`, `VersionsImmutable` from `GovInv`: versions up
  to the current one are published, the next is the draft and no more exist (`Shaped`), requests
  carry profiles and configurations that exist (`Carried`), the pointer leads to a managed profile
  with a published version (`Pointed`), and a call that missed knows of an unset pointer (`Informed`). `GatewaysStaySound` from `GatesInv`:
  what a call has read of a credential stays true, since rows of credentials are written once
  (`CallsRemember`), and none in use is locked out by a rotation, because every process has the
  deployed ring while it is applied (`RingsAgree`), so that what is written meanwhile bears the
  current key already (`Reencrypting`).

Only model-checked: liveness (`EventuallySettled`, `BytesGone`, `Healed`, `EveryAskIsSettled`), which
under fairness, with `ENABLED`, is outside what the prover handles; and `StreamedAsStored`, which is
not true of every answer (section 6 tells of which), so what could be proved is a statement about the
words it is made of. It compares the code with a reference definition over bounded inputs.

## 6. What the code does not keep

The models are faithful to these behaviours; the passing properties state what holds besides. The
first has a run and is a finding in PROJECT.json. The others were seen by checking the property
named, which its module states but no run claims, or by reading the code while it was modelled.

| Behaviour | Where | Seen with |
|---|---|---|
| A listing of folders and documents leaves out what sorts before the last folder shown, or repeats folders: its cursor forgets the group. | `application/knowledge.py:270` | run `mixed_listing` |
| **Ingestion** | | |
| The embed task of a replaced version makes the document ready while its new version is queued. | `infrastructure/tasks/ingestion.py:596` | `ReadyIsCurrent` |
| A task that outlives its lease writes its outcome over that of the task that reclaimed its row: succeeded rows go back to failed, and a document may be stranded as pending. | `infrastructure/tasks/ingestion.py:130` | `SucceededStays`, `NoStrandedDocument` without their exception for contested rows |
| A running parse that is cancelled and retried can restart the chunk stage before parse has succeeded. | `application/storage.py:363` | `StageOrder` |
| A cancel request set between the check of a task and its commit is overwritten by the outcome. | `infrastructure/tasks/ingestion.py:117` | `CancelIsFinal` |
| A document shows failed although its current version was never stopped: the failure was of the replaced one. | `infrastructure/tasks/ingestion.py:40` | `FailedMeansStopped` with `MaxVersion = 2` |
| A row whose worker dies is reclaimed without looking at its attempts: a file that kills its worker is attempted without end. | `infrastructure/tasks/ingestion.py:82` | `AttemptsBounded` allows one more per crash |
| A chunk can bear the label of a model that did not compute its vector. | `infrastructure/tasks/ingestion.py:530` | `LabelTellsMaker` |
| **Chunker** | | |
| A file named `.markdown` is accepted for upload and its parsing always fails: `parse` has no branch for the suffix. | `application/ingestion.py:216` | reading |
| A table without data rows and a heading without text yield no chunk. A header that leaves no room for a character yields a chunk too large for every character of the table; two separators make the next row a header. | `application/ingestion.py` | `ChunksFit` excepts the second |
| **Objects** | | |
| The failed state of a refused upload is rolled back with the error that reports it: the version stays pending and blocks every replacement. | `application/storage.py:238` | `RefusedIsReleased` |
| Objects of a deleted document stay for ever when the worker dies in a cleanup (a running cleanup job has no lease), when the API dies before queueing, or when the client PUTs after the deletion. | `infrastructure/tasks/ingestion.py:616`, `application/knowledge.py:544`, `infrastructure/tasks/ingestion.py:668` | `BytesGone` without its premise |
| **Documents and folders** | | |
| A page that ends with a title whose `casefold()` sorts elsewhere than its `lower()` (a sharp s, a final sigma, a ligature) resumes at the wrong place: what lies between comes again, for ever when a page holds no more than that, or is left out. The comment beside it says that the folded form matches `lower(title)`. | `application/knowledge.py:307` | `ListedOnce` in place of `PagesMeet` |
| Two moves with one expected version both succeed: it is compared with a version read without a lock. | `application/knowledge.py:486` | reading |
| A restored version is read without lock or authorization of its own; the patch that follows checks both. | `application/knowledge.py:582` | reading |
| A freeze admits what asked before it: a mutation commits after the freeze was answered. | `application/maintenance.py:54` | `KnowledgeDocuments` |
| Two reorders of siblings at once leave a repeated key and a gap. | `application/authorization.py:997` | reading; `FolderTree` has no places |
| **Knowledge bases** | | |
| An archived knowledge base without folders and documents cannot be deleted once it was indexed or asked. | `application/authorization.py:468` | `EmptyCanBeDeleted` |
| **Index and search** | | |
| A builder that dies leaves a building row that refuses every later build of that model. | `application/search.py:654` | `HealedAfterCrash` |
| The index is chosen by the model of the grounded configuration and the query embedded by the scene default of a later statement; only dimensions are compared (a contract asks for the exact active index). | `application/search.py:935` | `OneModel` |
| The statements of one search see different snapshots: hits of two versions of a document stand beside one another. | `application/search.py:926` | `OneVersion` |
| Where no cosine is positive, fusion divides by a negative best, inverting the order of vectors and letting negative scores pass the threshold; equal scores at a limit have no tie-breaker, and a weight of 1 makes all hits of the keywords alone equal. | `application/search.py:308` | `NoneOvertaken` without its premise |
| **Questions** | | |
| A stream that is closed while a frame is sent, or whose process dies, leaves its message pending or streaming; GeneratorExit reaches no handler. | `application/search.py:1851` | `StoppedIsSettled` |
| A handler whose own write fails, or is cancelled where it is not shielded, leaves the message pending or streaming. | `application/search.py:1382` | `StoppedIsSettled` |
| The last check reads the membership and each source in statements of their own: an answer is completed from a source hidden while the asker was a member, and shown again after the asker was removed. | `application/search.py:1950` | reading; `NotFromWithdrawn` asks for no more |
| A plain question is completed from sources withdrawn while the model wrote the answer; agent and bounded questions are not. | `application/search.py:1829` | `NeverFromWithdrawn` |
| A cancellation that arrives while the connection of the completed answer is released overwrites it with an empty cancelled one. | `application/search.py:1849` | `CompletedStays` |
| An outline or a list is told to the model although the document or folder left the scope after its check, and unlike sources it is not authorized again; a subfolder of a pinned folder cannot be named. | `application/ask_tools.py` | `AskTools` (`ToolsInScope` says "at some moment") |
| An escaped bracket cut before its second backslash is streamed although the stored answer drops it; "[1](a [2] b)" keeps "[2] b)"; "[[9]1]" leaves "[1]"; after 256 held characters the text of a link is sent. | `application/search.py:254` | reading; the run's answers have no backslash and no such text |
| Tool calls of a last line that is not ended and has no text are dropped; two calls with one id make their whole exchange malformed, and it is left out; `_deltas` skips "data:" lines without a blank, `_agent_events` does not. | `application/search.py:2130` | `DecodedWhole` excepts the first |
| **Identity** | | |
| A recovery code is accepted for an account that was disabled meanwhile (the session it opens is not). | `application/identity.py:611` | `DisabledDoNotAnswer` |
| The query for the final super administrator filters on the target, so an active one can never be disabled or deleted. A user who ever acted cannot be deleted: `audit_events.actor_id`. | `api/v1/admin.py:211`, `:308` | `TakeLock`, `DeleteUser` |
| The password is checked on one connection and the session opened with the stamp of another; accepting an invitation and rehashing give no new stamp, and a rehash may overwrite a newer password. | `application/identity.py:504` | reading |
| Two reset requests at once leave two usable links; starting a second factor again discards the confirmed one without a new stamp. | `application/identity.py:993` | `RequestReset`, `StartTotp` |
| Two first attempts at once count as one in the rate limiter, and a late one overwrites the count and the block. | `application/identity.py` | reading; limits are not in a module |
| **OAuth and MCP** | | |
| A call reads the lease clock, then waits for locks and connections without a limit: one whose operation begins, or ends, after its lease is over is not counted, and more calls run than the limit. The comments say the complete path after the acquisition stays below the lease (`application/mcp.py:140`, `:177`). | `application/mcp.py:136` | `NeverExceeded` |
| A call that has passed `effective_user_id` begins its operation although the principal was revoked meanwhile. | `application/mcp.py:139` | `RevokedBeginsNothing` |
| Revocation epochs are written and never compared (`oauth-mcp-contracts.md:122`); revoking a refresh token leaves the access tokens of its family usable; a repeated refresh whose answer was lost is taken for replay. | `infrastructure/oauth.py:1611`, `:1393` | `OAuthGrants` |
| Revoking a credential leaves tokens exchanged for it usable, and an exchange under way issues one. | `application/oauth.py:884` | `RevokedCredentialEnds` |
| A credential found during its overlap is rotated after it and is accepted again. | `infrastructure/oauth.py:2085` | `OverlapIsFinal` |
| A disabled owner's tokens work again after restoration; `effective_user_id` does not ask whether the owner is active. | `infrastructure/oauth.py` | `McpService` |
| **Model governance** | | |
| Publishing starts the next draft at edit 1 again, so a patch or publication of the first draft is taken for one of the next (`model-governance-contracts.md`: a stale version gets 409). | `application/model_governance.py:1048` | `Current` |
| A probe of an old configuration validates the edited model; concurrent health probes overwrite newer results. | `application/model_governance.py:699` | `ValidateModel` |
| The one that created a managed profile and failed discards it although the other has published it. | `application/model_governance.py:1719` | `Discard` |
| A gateway polled more often than its interval is never probed again: a skipped check writes the old result with a new time. | `application/model_governance.py` | reading |
| `rotate-model-secrets verify` reports every credential left behind by a rotation or deletion as missing its gateway, and fails for ever after. | `cli.py:262` | reading |
| An embedding dimension may change without REINDEX_REQUIRED, which a document promises. | `application/model_governance.py` | reading |

## 7. What is not modelled

* Wire formats, wording, layout, mail, logging, HTTP routing and the CLI beside
  `rotate-model-secrets`: I/O and formatting without state the models need. The frontend (`src/src`)
  is a client.
* `.trellis` and `.codex`: scripts that keep track of development tasks and prepare prompts. They
  are not part of the running system; nothing in it calls them.
* How the libraries read PDF, DOCX and XLSX, limits on archives and pages, and the address policy of
  the egress client: they are decisions about bytes and addresses.
* What PostgreSQL makes of a text query, cosine and `ts_rank`; excerpts of a hit; password hashes,
  CSRF tokens, PKCE, expiry of codes and tokens: each refuses or scores, and is a choice of the
  model.
* Rate limits and quotas (`mcp_rate_buckets`, the identity limiter): they may refuse at any time.
* Titles, names and order keys of folders; cloning and comparing profiles; the impact report;
  row versions that only refuse.
* Service code no caller reaches: `consume_authorization_code`, `revoke_grants_for_user`, the grant
  branch of `create_access_token` (`infrastructure/oauth.py`).
* The connection pool, diagnostic tasks and the self-test of the queue.

Hazards PROJECT.json does not list, because a listed one implies them, or none of the runs would
notice: the storage and cleanup rows of section 6; moves and link acceptances that wait for one
another, which PostgreSQL resolves (`application/authorization.py:861`, `:1242`); two questions of a
conversation that compute one sequence number (`application/search.py:1706`); a process that dies
between inserting and activating an index row (`application/search.py:717`), and physical indexes
nothing drops (`:710`); a membership that is left and joined again and starts at version 1
(`application/authorization.py:552`); an exception of a pass that ends reconciliation for the life
of a worker (`workers/main.py:123`); the address and credential of a gateway read in two
transactions (`application/model_governance.py:2096`, covered by `GatewaysSound`); pieces of tool
calls cut anywhere (`application/search.py:1898`, covered by `ExchangesSound`); a lease whose process
died (`application/mcp.py:165`, covered by `SlotsSound`).

## 8. Plan

Done: the ingestion pipeline with its abstract specification, objects, folder tree, index,
membership, questions with their tools and texts, chunker, search, identity, OAuth, MCP, model
governance, gateways, documents, and the proofs of section 5. What would add most next:

1. Places and names in `FolderTree`, once the code locks siblings in one order.
2. A run of `VectorIndex` for what a dead builder leaves, when the code has an answer for it.
3. A composition of `Identity` and `OAuthGrants` through `Accounts` in one state space: today each
   is checked against any change of an account.
4. Proofs: `StreamedLikeStored` for the answers whose markers and links are closed; the termination
   measures behind the liveness properties.
