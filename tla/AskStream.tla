----------------------------- MODULE AskStream -----------------------------
(***************************************************************************)
(* Questions asked in one conversation (application/search.py).  A request *)
(* stores its two messages, collects sources, has a model answer from them *)
(* and stores the outcome, each of these in a transaction of its own,      *)
(* while documents are hidden, shown again or deleted, the asker loses and *)
(* regains access, and the client may go away at any time.                 *)
(*                                                                         *)
(* mode:  plain    ask(agent=False), streamed                              *)
(*        agent    ask(agent=True), streamed, the model calls search tools *)
(*        bounded  ask_bounded, answered at once, with a time limit        *)
(***************************************************************************)
EXTENDS Naturals, Sequences, FiniteSets, Functions

CONSTANTS
    Ask,        \* requests, each with the answer message it creates
    Source,     \* chunks a search can return
    MaxRounds,  \* MAX_AGENT_ROUNDS
    ChangeCap   \* bound: changes of documents, access and conversation

ASSUME RoundsAssumption == MaxRounds \in Nat \ {0}
ASSUME CapAssumption == ChangeCap \in Nat
ASSUME SourceAssumption == IsFiniteSet(Source)

Mode == {"plain", "agent", "bounded"}
Final == {"completed", "knowledge_gap", "failed", "cancelled"}
Status == {"none", "pending", "streaming"} \cup Final

VARIABLES
    todo,         \* what the request does next
    at,         \* the point its sources are authorized for
    mode,
    round,      \* rounds begun by an agent
    evidence,   \* the sources the model is given, in the order of their ranks
    checked,    \* those the last authorization let through: pairs of the rank
                \* it gave and the source
    looked,     \* an authorization under way: how many statements have looked
    matched,    \* for sources, and the ranks of those they found
    persisted,  \* the sources it has stored
    message,    \* status of the answer in conversation_messages
    rows,       \* message_citations: pairs of an ordinal and a source
    conversation, access, hidden, deleted, changes,
    told,       \* history: sources behind the text the client was sent
    withdrawn   \* history: sources out of the asker's sight when the answer was
                \* complete and since, or hidden when membership was looked up
                \* thereafter and since

local == <<at, mode, round, evidence, checked, persisted>>
lookup == <<looked, matched>>
world == <<conversation, access, hidden, deleted, changes>>
history == <<told, withdrawn>>
askVars == <<todo, local, lookup, message, rows, world, history>>

Handling == {"failing", "cancelling"}
Step == {"idle", "opened", "retrieve", "recheck", "authorize", "select", "persist",
         "proceed", "mark", "chat", "tools",
         "ending", "ended", "closed"} \cup Handling
Point == {"round", "used", "answered"}

Streamed(a) == mode[a] \in {"plain", "agent"}
Used(a) == Range(evidence[a])
Sources(pairs) == {pair[2] : pair \in pairs}

\* enumerate(found, start=1)
Ranked(found) == {<<n, found[n]>> : n \in DOMAIN found}
Present == Source \ (hidden \cup deleted)
Visible == IF access THEN Present ELSE {}

\* The lists a ranking can make of some of the elements of a set.
Rankings(S) ==
    {q \in UNION {[1..n -> S] : n \in 0..Cardinality(S)} : IsInjective(q)}

AskInit ==
    /\ todo = [a \in Ask |-> "idle"]
    /\ at = [a \in Ask |-> "round"]
    /\ mode \in [Ask -> Mode]
    /\ round = [a \in Ask |-> 1]
    /\ evidence = [a \in Ask |-> <<>>]
    /\ checked = [a \in Ask |-> {}]
    /\ looked = [a \in Ask |-> 0]
    /\ matched = [a \in Ask |-> {}]
    /\ persisted = [a \in Ask |-> {}]
    /\ message = [a \in Ask |-> "none"]
    /\ rows = [a \in Ask |-> {}]
    /\ conversation = "active"
    /\ access = TRUE
    /\ hidden = {} /\ deleted = {} /\ changes = 0
    /\ told = [a \in Ask |-> {}]
    /\ withdrawn = [a \in Ask |-> {}]

-----------------------------------------------------------------------------
(* How a request ends *)

\* What an authorization has found is forgotten when the request goes on.
Goto(a, step) ==
    /\ todo' = [todo EXCEPT ![a] = step]
    /\ looked' = [looked EXCEPT ![a] = 0]
    /\ matched' = [matched EXCEPT ![a] = {}]

M_Complete(a, status) ==
    message' = [message EXCEPT ![a] = IF @ # "pending" THEN @ ELSE status]

\* _complete updates the message by its identifier, whatever its status; none
\* is left once the conversation is deleted.
Complete(a, status) ==
    message' = [message EXCEPT ![a] = IF @ = "none" THEN @ ELSE status]

\* The body of the request writes a terminal status.
Settle(a, status) ==
    /\ Complete(a, status)
    /\ Goto(a, "ending")
    /\ UNCHANGED <<local, rows, world, history>>

\* An exception leaves the body, and a handler is entered.
Handle(a, handling) ==
    /\ Goto(a, handling)
    /\ UNCHANGED <<local, message, rows, world, history>>

\* The handler writes the status,
Handled(a) ==
    /\ todo[a] \in Handling
    /\ Complete(a, IF todo[a] = "failing" THEN "failed" ELSE "cancelled")
    /\ Goto(a, "ended")
    /\ UNCHANGED <<local, rows, world, history>>

\* or the write fails, or is cancelled where nothing shields it: no other
\* handler is left.
Unwritten(a) ==
    /\ todo[a] \in Handling
    /\ Goto(a, "closed")
    /\ UNCHANGED <<local, message, rows, world, history>>

Running(a) == todo[a] \notin {"idle", "opened", "ended", "closed"}
InBody(a) == Running(a) /\ todo[a] \notin Handling

\* The model, a tool or the database fails, a limit is exceeded, or access is
\* refused.
Fail(a) ==
    /\ InBody(a) /\ todo[a] # "ending"
    /\ Handle(a, "failing")

\* The connection that wrote the status is released, and the last frame sent.
Finish(a) ==
    /\ todo[a] = "ending"
    /\ Goto(a, "ended")
    /\ UNCHANGED <<local, message, rows, world, history>>

\* The task is cancelled while it waits, if only for the connection that wrote
\* the answer: the handler writes "cancelled" over whatever the message says.
Cancel(a) ==
    /\ InBody(a)
    /\ Handle(a, "cancelling")

\* The client goes away while a frame is sent, which closes the generator and
\* reaches no handler; or the request is cancelled before its body is entered.
Close(a) ==
    /\ InBody(a)
    /\ Streamed(a) \/ todo[a] = "retrieve"
    /\ Goto(a, "closed")
    /\ UNCHANGED <<local, message, rows, world, history>>

\* The API process dies.
Die ==
    /\ \E a \in Ask : Running(a)
    /\ todo' = [a \in Ask |-> IF Running(a) \/ todo[a] = "opened"
                              THEN "closed" ELSE todo[a]]
    /\ looked' = [a \in Ask |-> 0] /\ matched' = [a \in Ask |-> {}]
    /\ UNCHANGED <<local, message, rows, world, history>>

-----------------------------------------------------------------------------
(* The messages of a request *)

\* _owned_conversation
Owned == conversation # "deleted"

\* The request is authorized and its conversation found active.
Opened(a) ==
    /\ todo[a] = "idle"
    /\ access /\ Owned /\ conversation = "active"
    /\ Goto(a, "opened")
    /\ UNCHANGED <<local, message, rows, world, history>>

Open(a) == Streamed(a) /\ Opened(a)
OpenBounded(a) == mode[a] = "bounded" /\ Opened(a)

\* Both messages are inserted; or none, when the conversation is gone or another
\* question has taken the place in it.
Inserted(a, next) ==
    /\ todo[a] = "opened"
    /\ \/ /\ Owned
          /\ message' = [message EXCEPT ![a] = "pending"]
          /\ Goto(a, next)
       \/ /\ Goto(a, "ended")
          /\ UNCHANGED message
    /\ UNCHANGED <<local, rows, world, history>>

Store(a) == Streamed(a) /\ Inserted(a, IF mode[a] = "agent" THEN "chat" ELSE "retrieve")
StoreBounded(a) == mode[a] = "bounded" /\ Inserted(a, "retrieve")

\* message_citations: foreign keys to the message and to the chunk.
Persist(a) ==
    LET new == {pair \in checked[a] : pair[2] \notin persisted[a]}
    IN  /\ todo[a] = "persist"
        /\ message[a] # "none" /\ Sources(new) \cap deleted = {}
        /\ \A pair \in new, row \in rows[a] : pair[1] # row[1]
        /\ rows' = [rows EXCEPT ![a] = @ \cup new]
        /\ persisted' = [persisted EXCEPT ![a] = @ \cup Sources(checked[a])]
        /\ Goto(a, "proceed")
        /\ UNCHANGED <<at, mode, round, evidence, checked,
                       message, world, history>>

\* resolve_citation: what the asker is shown under a number, or nothing
Resolved(a, n) ==
    IF access THEN {s \in Source \ deleted : <<n, s>> \in rows[a]} ELSE {}

\* _status
Mark(a) ==
    /\ todo[a] = "mark"
    /\ message' = [message EXCEPT ![a] = IF @ = "none" THEN @ ELSE "streaming"]
    /\ Goto(a, "chat")
    /\ UNCHANGED <<local, rows, world, history>>

-----------------------------------------------------------------------------
(* Sources *)

Searched(a) ==
    /\ Goto(a, "recheck")
    /\ UNCHANGED <<local, message, rows, world, history>>

Supplied(a, found) ==
    /\ evidence' = [evidence EXCEPT ![a] = found]
    /\ checked' = [checked EXCEPT ![a] = Ranked(found)]
    /\ Goto(a, "persist")
    /\ UNCHANGED <<at, mode, round, persisted, message, rows, world, history>>

\* plain: a first search decides whether there is anything to answer,
Retrieve(a) ==
    /\ todo[a] = "retrieve" /\ mode[a] = "plain" /\ access
    /\ \E found \in Rankings(Visible) :
         IF found = <<>> THEN Settle(a, "knowledge_gap") ELSE Searched(a)

\* and a second one supplies the sources.
Recheck(a) ==
    /\ todo[a] = "recheck" /\ mode[a] = "plain" /\ access
    /\ \E found \in Rankings(Visible) :
         IF found = <<>> THEN Settle(a, "cancelled") ELSE Supplied(a, found)

\* bounded: the same; the best max_citations of what was found.
RetrieveBounded(a) ==
    /\ todo[a] = "retrieve" /\ mode[a] = "bounded" /\ access
    /\ \E found \in Rankings(Visible) :
         IF found = <<>> THEN Settle(a, "knowledge_gap") ELSE Searched(a)

RecheckBounded(a) ==
    /\ todo[a] = "recheck" /\ mode[a] = "bounded" /\ access
    /\ \E found \in Rankings(Visible) :
         IF found = <<>> THEN Handle(a, "cancelling") ELSE Supplied(a, found)

-----------------------------------------------------------------------------
(* Sources are authorized: the membership is looked up, and after it each   *)
(* statement that looks for sources sees a state of its own.                *)

\* _require_kb
RequireKb(a) ==
    /\ todo[a] = "authorize" /\ access
    /\ Goto(a, "select")
    /\ withdrawn' = [withdrawn EXCEPT ![a] =
                       IF at[a] = "answered" THEN Used(a) \ Present ELSE @]
    /\ UNCHANGED <<at, mode, round, evidence, checked, persisted,
                   message, rows, world, told>>

\* The next statement finds those of these ranks.
Select(a, found) ==
    /\ todo[a] = "select"
    /\ looked' = [looked EXCEPT ![a] = @ + 1]
    /\ matched' = [matched EXCEPT ![a] = @ \cup {n \in found : evidence[a][n] \in Present}]
    /\ UNCHANGED <<todo, at, mode, round, evidence, checked, persisted,
                   message, rows, world, history>>

\* agent: every source of the tools is looked up again, by a statement each;
SelectSource(a) ==
    /\ mode[a] = "agent" /\ looked[a] < Len(evidence[a])
    /\ Select(a, {looked[a] + 1})

\* those still found are numbered anew.
Approved(a) ==
    {<<Cardinality(matched[a] \cap 1..n), evidence[a][n]>> : n \in matched[a]}

M_AllApprovedSome(a) == matched[a] # {}

\* As many are approved as there are.
AllApproved(a) == matched[a] = DOMAIN evidence[a]

Stored(a) == Sources(Approved(a)) \subseteq persisted[a]

Authorize(a) ==
    /\ todo[a] = "select" /\ mode[a] = "agent" /\ looked[a] = Len(evidence[a])
    /\ AllApproved(a)
    /\ checked' = [checked EXCEPT ![a] = Approved(a)]
    /\ Goto(a, IF Stored(a) THEN "proceed" ELSE "persist")
    /\ UNCHANGED <<at, mode, round, evidence, persisted,
                   message, rows, world, history>>

\* bounded: searched for again, by keywords and by vectors, which need not find
\* all that is there.
SelectAgain(a) ==
    /\ mode[a] = "bounded" /\ looked[a] < 2
    /\ \E found \in SUBSET DOMAIN evidence[a] : Select(a, found)

M_StillFound(a) == matched[a] # {}

StillFound(a) == matched[a] = DOMAIN evidence[a]

\* The sources must still be found when the answer has arrived.
Verify(a) ==
    /\ todo[a] = "select" /\ mode[a] = "bounded" /\ looked[a] = 2
    /\ IF StillFound(a) THEN Settle(a, "completed") ELSE Handle(a, "cancelling")

-----------------------------------------------------------------------------
(* The model *)

\* Text reaches the client once there are sources for it.
Delta(a) ==
    /\ todo[a] = "chat" /\ Streamed(a)
    /\ checked[a] # {}
    /\ told' = [told EXCEPT ![a] = @ \cup Used(a)]
    /\ UNCHANGED <<todo, local, lookup, message, rows, world, withdrawn>>

Answered(a, next) ==
    /\ todo[a] = "chat"
    /\ Goto(a, next)
    /\ at' = [at EXCEPT ![a] = "answered"]
    /\ withdrawn' = [withdrawn EXCEPT ![a] = Used(a) \ Visible]
    /\ UNCHANGED <<mode, round, evidence, checked, persisted, rows, world, told>>

\* The model has answered: a plain answer is stored,
Answer(a) ==
    /\ mode[a] = "plain"
    /\ Answered(a, "ending")
    /\ Complete(a, "completed")

\* a bounded one is verified,
AnswerBounded(a) ==
    /\ mode[a] = "bounded"
    /\ Answered(a, "authorize")
    /\ UNCHANGED message

\* and of an agent's the sources are authorized once more.
AnswerAgent(a) ==
    /\ mode[a] = "agent"
    /\ Answered(a, "authorize")
    /\ UNCHANGED message

Call(a) ==
    /\ todo[a] = "chat" /\ mode[a] = "agent"
    /\ Goto(a, "tools")
    /\ UNCHANGED <<local, message, rows, world, history>>

\* A tool returns sources that were not returned before, or an error the model
\* is told of.
Tool(a) ==
    /\ todo[a] = "tools"
    /\ \E found \in Rankings(Visible \ Used(a)) :
         evidence' = [evidence EXCEPT ![a] = @ \o found]
    /\ UNCHANGED <<todo, at, mode, round, checked, persisted, lookup,
                   message, rows, world, history>>

ToolsDone(a) ==
    /\ todo[a] = "tools"
    /\ at' = [at EXCEPT ![a] = "used"]
    /\ Goto(a, "authorize")
    /\ UNCHANGED <<mode, round, evidence, checked, persisted,
                   message, rows, world, history>>

Exhausted(a) == round[a] = MaxRounds

\* The sources are authorized and stored: the model is asked,
Prompt(a) ==
    /\ todo[a] = "proceed" /\ at[a] = "round"
    /\ Goto(a, "mark")
    /\ UNCHANGED <<local, message, rows, world, history>>

\* a further round begins,
NextRound(a) ==
    /\ todo[a] = "proceed" /\ at[a] = "used"
    /\ ~Exhausted(a)
    /\ round' = [round EXCEPT ![a] = @ + 1]
    /\ at' = [at EXCEPT ![a] = "round"]
    /\ Goto(a, IF evidence[a] = <<>> THEN "chat" ELSE "authorize")
    /\ UNCHANGED <<mode, evidence, checked, persisted,
                   message, rows, world, history>>

\* or the loop is over; rounds that end with sources and no answer have failed.
Conclude(a) ==
    /\ todo[a] = "proceed"
    /\ \/ at[a] = "answered"
       \/ at[a] = "used" /\ Exhausted(a)
    /\ CASE checked[a] = {} -> Settle(a, "knowledge_gap")
         [] checked[a] # {} /\ at[a] = "answered" -> Settle(a, "completed")
         [] OTHER -> Handle(a, "failing")

-----------------------------------------------------------------------------
(* What happens meanwhile *)

Change == changes < ChangeCap /\ changes' = changes + 1

\* A source is archived, moved out of the scope or replaced by a new version.
Hide(s) ==
    /\ Change
    /\ s \notin hidden \cup deleted
    /\ hidden' = hidden \cup {s}
    /\ UNCHANGED <<todo, local, lookup, message, rows, conversation, access, deleted, history>>

Show(s) ==
    /\ Change
    /\ s \in hidden \ deleted
    /\ hidden' = hidden \ {s}
    /\ withdrawn' = [a \in Ask |-> IF access \/ todo[a] = "select"
                                   THEN withdrawn[a] \ {s} ELSE withdrawn[a]]
    /\ UNCHANGED <<todo, local, lookup, message, rows, conversation, access, deleted, told>>

\* delete_document takes the citations of the document with it.
DeleteDocument(s) ==
    /\ Change
    /\ s \notin deleted
    /\ deleted' = deleted \cup {s}
    /\ rows' = [a \in Ask |-> {row \in rows[a] : row[2] # s}]
    /\ UNCHANGED <<todo, local, lookup, message, conversation, access, hidden, history>>

\* The asker is disabled or restored, or the knowledge base archived or
\* restored.
SwitchAccess ==
    /\ Change
    /\ access' = ~access
    /\ withdrawn' = [a \in Ask |-> IF access THEN withdrawn[a]
                                   ELSE withdrawn[a] \cap (hidden \cup deleted)]
    /\ UNCHANGED <<todo, local, lookup, message, rows, conversation, hidden, deleted, told>>

SwitchConversation ==
    /\ Change
    /\ access /\ Owned
    /\ conversation' = IF conversation = "active" THEN "archived" ELSE "active"
    /\ UNCHANGED <<todo, local, lookup, message, rows, access, hidden, deleted, history>>

DeleteConversation ==
    /\ Change
    /\ access /\ Owned
    /\ conversation' = "deleted"
    /\ message' = [a \in Ask |-> "none"]
    /\ rows' = [a \in Ask |-> {}]
    /\ UNCHANGED <<todo, local, lookup, access, hidden, deleted, history>>

-----------------------------------------------------------------------------
\* The asyncio loop gets to every task in the end, and what a task waits for
\* answers, fails or times out.
Advance(a) ==
    \/ Store(a) \/ StoreBounded(a)
    \/ Retrieve(a) \/ Recheck(a) \/ RetrieveBounded(a) \/ RecheckBounded(a)
    \/ RequireKb(a) \/ SelectSource(a) \/ SelectAgain(a)
    \/ Authorize(a) \/ Persist(a) \/ Mark(a) \/ Delta(a)
    \/ Answer(a) \/ AnswerBounded(a) \/ AnswerAgent(a) \/ Call(a) \/ Tool(a) \/ ToolsDone(a)
    \/ Prompt(a) \/ NextRound(a) \/ Conclude(a) \/ Verify(a)
    \/ Fail(a) \/ Handled(a) \/ Finish(a)

World ==
    \/ \E s \in Source : Hide(s) \/ Show(s) \/ DeleteDocument(s)
    \/ SwitchAccess \/ SwitchConversation \/ DeleteConversation

AskNext ==
    \/ \E a \in Ask : Open(a) \/ OpenBounded(a) \/ Advance(a)
                    \/ Cancel(a) \/ Close(a) \/ Unwritten(a)
    \/ Die
    \/ World

AskSpec == AskInit /\ [][AskNext]_askVars

AskFairSpec == AskSpec /\ \A a \in Ask : WF_askVars(Advance(a))

-----------------------------------------------------------------------------
(* What is promised *)

\* The type of the variables.
AskTypeOK ==
    /\ todo \in [Ask -> Step] /\ at \in [Ask -> Point] /\ mode \in [Ask -> Mode]
    /\ round \in [Ask -> 1..MaxRounds]
    /\ evidence \in [Ask -> Rankings(Source)]
    /\ message \in [Ask -> Status]
    /\ rows \in [Ask -> SUBSET ((1..Cardinality(Source)) \X Source)]
    /\ checked \in [Ask -> SUBSET ((1..Cardinality(Source)) \X Source)]
    /\ looked \in [Ask -> Nat] /\ matched \in [Ask -> SUBSET (1..Cardinality(Source))]
    /\ persisted \in [Ask -> SUBSET Source]
    /\ told \in [Ask -> SUBSET Source] /\ withdrawn \in [Ask -> SUBSET Source]
    /\ conversation \in {"active", "archived", "deleted"} /\ access \in BOOLEAN
    /\ hidden \subseteq Source /\ deleted \subseteq Source
    /\ changes \in 0..ChangeCap

\* A number in an answer means the source the model was shown under it: a
\* citation is stored under the rank its source had in the prompt, although
\* ranks are given out again at every authorization.
NumbersAgree ==
    \A a \in Ask, n \in 1..Cardinality(Source) : \A s \in Resolved(a, n) :
        n \in DOMAIN evidence[a] /\ evidence[a][n] = s

\* Sources are stored before the client reads a word that rests on them.
ToldIsStored == \A a \in Ask : told[a] \subseteq persisted[a]

\* A citation can be resolved as soon as it is read, and to what was meant.
CitationsSound == NumbersAgree /\ ToldIsStored

\* An answer that says nothing was found has shown and stored no source.
GapIsEmpty ==
    \A a \in Ask : message[a] = "knowledge_gap" =>
        persisted[a] = {} /\ told[a] = {} /\ rows[a] = {}

\* An agent's and a bounded answer are completed only when, after the model had
\* answered, the asker was found to be a member, and each source was found in a
\* state no older than that: none that went out of sight before the answer, or
\* was hidden when membership was looked up, was hidden ever since.  The code
\* keeps no more: the member and the source may never have been there at once.
NotFromWithdrawn ==
    \A a \in Ask : message[a] = "completed" /\ mode[a] # "plain" =>
        withdrawn[a] = {}

\* Whoever asks gets an answer with a terminal status, whichever round, search,
\* tool, authorization or write of its fails or is cancelled, unless the stream is
\* closed, the process dies, the conversation is deleted, or the last write that
\* was left, the one of the handler, fails or is cancelled too.
EveryAskIsSettled ==
    \A a \in Ask : Running(a) ~>
        message[a] \in Final \cup {"none"} \/ todo[a] = "closed"

\* The code does not keep this: a stream that is over has left a terminal
\* status.
StoppedIsSettled ==
    \A a \in Ask : todo[a] = "closed" => message[a] \in Final \cup {"none"}

\* The code does not keep this for plain questions: no answer is completed from
\* a withdrawn source.
NeverFromWithdrawn ==
    \A a \in Ask : message[a] = "completed" => withdrawn[a] = {}

\* The code does not keep this: a completed answer stays one.
CompletedStays ==
    [][\A a \in Ask : message[a] = "completed" =>
           message'[a] \in {"completed", "none"}]_askVars
=============================================================================
