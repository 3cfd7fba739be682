---------------------------- MODULE MC_AskStream ----------------------------
(***************************************************************************)
(* Bounded instances of Asking, questions and the tools they call, and of  *)
(* what is done with texts: the events an answer arrives in, the filter it *)
(* is streamed through and the messages an agent sends.  These share no    *)
(* state, so a behaviour explores one of them.                             *)
(***************************************************************************)
EXTENDS Asking, ModelTexts

CONSTANTS a1, s1, s2, s3

OneAsk == {a1}

ThreeSources == {s1, s2, s3}

-----------------------------------------------------------------------------
\* Answers of three words, cut anywhere: markers of one and of two digits and
\* brackets, in characters and in entities, of a source and of none; links;
\* and brackets and parentheses that nothing closes or opens.
Words ==
    {<<"[", "1", "]">>, <<"[", "2", "]">>, <<"[", "1", "2", "]">>,
     <<"[", "[", "1", "]", "]">>, <<"[", "[", "2", "]", "]">>,
     <<"&", "l", ";", "1", "&", "r", ";">>,
     <<"(", "x", ")">>, <<"(", "(", "x", ")", ")">>, <<"[", "x", "]">>,
     <<" ">>, <<"x">>, <<"[">>, <<"]">>, <<"(">>, <<")">>}
Answers == {u \o v \o w : u \in Words, v \in Words, w \in Words}
Ranks == {<<"1">>}
Digits == {"1", "2"}
Spaces == {" "}
PendingCap == 256

VARIABLES answer, fed, pending, sent, streaming
filter == <<answer, fed, pending, sent, streaming>>
Filter == INSTANCE CitationFilter WITH told <- sent, status <- streaming

-----------------------------------------------------------------------------
\* Of a budget that turns, results and the question exceed together and singly
SomeSizes == {1, 5}
SomeIds == {"i", "j"}

-----------------------------------------------------------------------------
\* Streams of three lines, each ended or cut short, with text, pieces of two
\* calls, both, or what is no event.
Piece(index, name, argument) ==
    [index |-> index, name |-> name, arguments |-> <<argument>>]
SomePayload ==
    [a |-> [text |-> <<"a">>, calls |-> <<>>],
     b |-> [text |-> <<"b">>, calls |-> <<Piece(0, "n", "1")>>],
     c |-> [text |-> <<>>, calls |-> <<Piece(0, "", "2"), Piece(1, "m", "3")>>]]
Lines == {<<"data ", "a", "end">>, <<"data", "b", "end">>, <<"data ", "c", "end">>,
          <<"data", "junk", "end">>, <<"note", "a", "end">>, <<"end">>}
LastLines == {<<>>, <<"data ">>, <<"data ", "b">>, <<"data ", "c">>}
SomeStreams == {u \o v \o w \o x : u \in Lines, v \in Lines, w \in Lines, x \in LastLines}

-----------------------------------------------------------------------------
\* What a behaviour explores; the rest stays in one of its initial states.
VARIABLE explored

MCInit ==
    /\ explored \in {"questions", "tools", "answers", "contexts", "events"}
    /\ AskingInit /\ Filter!Init /\ TextsInit
    /\ explored # "questions" => mode = [a \in Ask |-> "agent"]
    /\ explored # "events" => kind = "agent"
    /\ explored # "tools" => place = [d \in Document |-> Root]

MCNext ==
    \/ /\ explored = "questions"
       /\ AskNext /\ UNCHANGED <<explored, tools, filter, chatVars, contextVars>>
    \/ /\ explored = "tools"
       /\ Tools!Next /\ UNCHANGED <<explored, askVars, filter, chatVars, contextVars>>
    \/ /\ explored = "answers"
       /\ Filter!Next /\ UNCHANGED <<explored, askVars, tools, chatVars, contextVars>>
    \/ /\ explored = "contexts"
       /\ ContextNext /\ UNCHANGED <<explored, askVars, tools, filter, chatVars>>
    \/ /\ explored = "events"
       /\ ChatNext /\ UNCHANGED <<explored, askVars, tools, filter, contextVars>>

AskAndTexts ==
    /\ MCInit /\ [][MCNext]_<<explored, askVars, tools, filter, chatVars, contextVars>>
    /\ \A a \in Ask : WF_askVars(Advance(a))

\* An answer is streamed as it is stored, in whatever pieces: see CitationFilter.
StreamedAsStored == Filter!StreamedLikeStored
=============================================================================
