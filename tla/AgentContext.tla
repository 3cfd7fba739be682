---------------------------- MODULE AgentContext ----------------------------
(***************************************************************************)
(* application/search.py: the messages an answering agent sends its model. *)
(* They begin with the instructions, the newest turns of the conversation  *)
(* and the question; each turn appends the model's tool calls and what the *)
(* tools returned, and _bounded_agent_messages cuts the list to a budget   *)
(* again.                                                                  *)
(*                                                                         *)
(* A message is [role, size, calls, id]: the length of its content, the    *)
(* identifiers of the calls it makes (an assistant's) and the call it      *)
(* answers (a tool's).  Costs are in the unit of the sizes.                *)
(***************************************************************************)
EXTENDS Naturals, SequencesExt

CONSTANTS
    Sizes,          \* lengths of questions, turns and tool results
    CallIds,        \* identifiers a model gives its calls; it may repeat one
    Instructions,   \* the length of AGENT_SYSTEM_PROMPT
    Overhead,       \* what the rest of a message costs beside its content
    HistoryChars,   \* MAX_AGENT_HISTORY_CHARS
    Budget,         \* of characters, for the messages of a request
    MaxTurns,       \* bound: turns of the conversation before
    MaxCalls, MaxCallsTotal, Rounds \* tool calls of a round, all of them, and rounds

\* A question and what a tool returns are never empty.
ASSUME SizesAssumption == Sizes \subseteq Nat \ {0}
\* A budget is 1024 characters at least, and the instructions are some 500.
ASSUME BudgetAssumption ==
    /\ Overhead \in Nat /\ Instructions \in Nat /\ HistoryChars \in Nat /\ Budget \in Nat
    /\ Overhead + Instructions < Budget
ASSUME RoundBoundsAssumption == Rounds \in Nat \ {0} /\ MaxCallsTotal \in Nat

VARIABLES
    messages,
    question,       \* the length of the question
    total,          \* tool calls so far
    turn,           \* the round
    asking

contextVars == <<messages, question, total, turn, asking>>

Message(role, size, made, id) == [role |-> role, size |-> size, calls |-> made, id |-> id]

SystemMessage == Message("system", Instructions, <<>>, "")

\* The newest question among messages, 0 without one
LastQuestion(list) == Max({0} \cup {i \in DOMAIN list : list[i].role = "user"})

Total(numbers) ==
    LET Sum[n \in 0..Len(numbers)] == IF n = 0 THEN 0 ELSE Sum[n - 1] + numbers[n]
    IN  Sum[Len(numbers)]

-----------------------------------------------------------------------------
(* _conversation_history *)

\* The newest turns, the oldest of them cut to what is left; empty ones do not count.
History(turns) ==
    LET Newer(i) == Total([n \in 1..(Len(turns) - i) |-> turns[i + n].size])
        Shown(m, left) == IF m.size = 0 \/ left <= 0 THEN <<>>
                          ELSE <<[m EXCEPT !.size = Min({@, left})]>>
    IN  FlattenSeq([i \in DOMAIN turns |-> Shown(turns[i], HistoryChars - Newer(i))])

-----------------------------------------------------------------------------
(* _bounded_agent_messages *)

\* full_cost
Cost(m) == Overhead + Len(m.calls) + m.size

CostOf(list) == Total([n \in DOMAIN list |-> Cost(list[n])])

\* bounded_copy: the end of the content, or nothing
Cut(m, left) ==
    IF left <= Cost(m) - m.size THEN <<>>
    ELSE <<[m EXCEPT !.size = Min({@, left - (Cost(m) - @)})]>>

\* tool_exchange: the calls of message i have identifiers of their own, and the
\* messages right after it answer each of them once.
IsExchange(list, i) ==
    LET called == list[i].calls
    IN  /\ list[i].role = "assistant" /\ called # <<>>
        /\ Cardinality(Range(called)) = Len(called)
        /\ i + Len(called) <= Len(list)
        /\ \A n \in DOMAIN called : list[i + n].role = "tool"
        /\ {list[i + n].id : n \in DOMAIN called} = Range(called)

\* What is kept or dropped as one: exchanges, and messages without calls.
\* The unit that begins at i, or nothing; calls without all their answers, and
\* answers without their calls, belong to none.
Unit(list, i) ==
    IF list[i].role = "tool" THEN <<>>
    ELSE IF IsExchange(list, i) THEN SubSeq(list, i, i + Len(list[i].calls))
    ELSE IF list[i].calls # <<>> THEN <<>>
    ELSE <<list[i]>>

\* What calls is kept when what answers does not fit.
M_Kept(unit, left) == IF unit = <<>> \/ left <= 0 THEN <<>> ELSE Cut(unit[1], left)

\* What is kept of a unit: an exchange whole or not at all
Kept(unit, left) ==
    IF unit = <<>> \/ left <= 0 THEN <<>>
    ELSE IF unit[1].calls = <<>> THEN Cut(unit[1], left)
    ELSE IF CostOf(unit) > left THEN <<>> ELSE unit

\* The instructions, then the question, then the other units from the newest
\* to the oldest as far as the budget goes.
Bounded(list) ==
    LET asked == LastQuestion(list)
        first == Cut(list[1], Budget)
        second == IF asked = 0 THEN <<>> ELSE Cut(list[asked], Budget - CostOf(first))
        At(i, used) == IF i = 1 THEN first ELSE IF i = asked THEN second
                       ELSE Kept(Unit(list, i), Budget - used)
        \* the cost of the two and of what is kept of the n newest messages
        Used[n \in 0..Len(list)] ==
          IF n = 0 THEN CostOf(first) + CostOf(second)
          ELSE LET i == Len(list) + 1 - n
               IN  Used[n - 1] + IF i \in {1, asked} THEN 0 ELSE CostOf(At(i, Used[n - 1]))
    IN  FlattenSeq([i \in DOMAIN list |-> At(i, Used[Len(list) - i])])

-----------------------------------------------------------------------------
(* _agent_loop *)

ContextInit ==
    /\ messages = <<>>
    /\ question = 0
    /\ total = 0 /\ turn = 0
    /\ asking = "waiting"

Turns == BoundedSeq([role : {"user", "assistant"}, size : Sizes \cup {0},
                     calls : {<<>>}, id : {""}], MaxTurns)

Send(turns, size) ==
    /\ messages' = Bounded(<<SystemMessage>> \o History(turns)
                             \o <<Message("user", size, <<>>, "")>>)
    /\ question' = size
    /\ turn' = 1
    /\ asking' = "asking"
    /\ UNCHANGED total

\* The model calls tools, with some text of its own, and each tool returns.
Exchange(made, said, size) ==
    /\ asking = "asking" /\ turn < Rounds
    /\ Len(made) <= MaxCalls /\ total + Len(made) <= MaxCallsTotal
    /\ messages' = Bounded(Append(messages, Message("assistant", said, made, ""))
                             \o [n \in DOMAIN made |-> Message("tool", size, <<>>, made[n])])
    /\ total' = total + Len(made)
    /\ turn' = turn + 1
    /\ UNCHANGED <<question, asking>>

\* It answers, a limit is exceeded, a tool fails, or the last round is over.
Stop ==
    /\ asking = "asking"
    /\ asking' = "over"
    /\ UNCHANGED <<messages, question, total, turn>>

ContextNext ==
    \/ /\ asking = "waiting"
       /\ \E turns \in Turns, size \in Sizes : Send(turns, size)
    \/ \E made \in BoundedSeq(CallIds, MaxCalls) \ {<<>>}, said \in Sizes \cup {0}, size \in Sizes :
         Exchange(made, said, size)
    \/ Stop

ContextSpec == ContextInit /\ [][ContextNext]_contextVars

-----------------------------------------------------------------------------
ContextTypeOK ==
    /\ question \in Sizes \cup {0}
    /\ total \in 0..MaxCallsTotal /\ turn \in 0..Rounds
    /\ \A i \in DOMAIN messages : messages[i].role \in {"system", "user", "assistant", "tool"}

\* Every tool call has its answers behind it, all of them and no others.
Whole(list) ==
    \A i \in DOMAIN list :
      /\ list[i].calls # <<>> => IsExchange(list, i)
      /\ list[i].role = "tool" =>
           \E j \in 1..(i - 1) : IsExchange(list, j) /\ i <= j + Len(list[j].calls)

\* The model is shown whole exchanges, whichever messages earlier rounds and the
\* budget left out.
ExchangesWhole == Whole(messages)

\* The instructions and the question are there in every round, uncut when the
\* budget has room for the two, and with the rest they stay within it.
QuestionAsked ==
    asking # "waiting" =>
      /\ CostOf(messages) <= Budget
      /\ messages[1] = SystemMessage
      /\ 2 * Overhead + Instructions + question <= Budget =>
           messages[LastQuestion(messages)].size = question

\* The model is sent a valid conversation with the question in it.
ContextSound == ExchangesWhole /\ QuestionAsked
=============================================================================
