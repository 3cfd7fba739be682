--------------------------- MODULE MC_VectorIndex ---------------------------
(***************************************************************************)
(* Bounded instances of Retrieval, which is VectorIndex and HybridSearch,  *)
(* and of Chunker, whose records are the chunks that are indexed and       *)
(* found.  The three share no state, so a behaviour explores one of them.  *)
(***************************************************************************)
EXTENDS Retrieval, Chunker

CONSTANTS x, y, b1, b2

TwoChunks   == {x, y}
TwoBuilders == {b1, b2}

-----------------------------------------------------------------------------
\* Every text of up to four lines, and files of every format.
SeqOfKinds(format, n) == UNION {[1..k -> LineKinds[format]] : k \in 1..n}

SomeFiles ==
  {d \in UNION {[format : {"text"}, text : SeqOfKinds("text", 4)],
                 [format : {"xlsx"}, text : SeqOfKinds("xlsx", 4)],
                 [format : {"docx"}, text : SeqOfKinds("docx", 3)],
                 [format : {"pdf"}, text : SeqOfKinds("pdf", 4)]} :
     /\ \A i \in 2..Len(d.text) : ~(d.text[i - 1] = "rule" /\ d.text[i] = "rule")
     /\ d.format = "xlsx" => d.text[1] = "heading"}

\* Characters of a line: with the budgets below a text may be within one, need
\* two chunks or many, and a heading may leave no room.
Lengths == [blank |-> 0, heading |-> 2, under |-> 1, fence |-> 1,
            row |-> 2, rule |-> 1, item |-> 3, text |-> 5,
            head |-> 2, page |-> 0]

-----------------------------------------------------------------------------
\* Two documents, one with a second version and one of two chunks.  Either search
\* may give the better half of a hybrid score, and vectors may point away
\* from the query.  A list of candidates is cut to two.
SomeChunks == {<<1, 1, 1>>, <<1, 2, 1>>, <<2, 1, 1>>, <<2, 1, 2>>}
OneLabel == [c \in SomeChunks |-> 1]
OneDimension == [m \in {1, 2} |-> 3]
SomeCalls == [mode : {"keyword", "vector", "hybrid"}, limit : {1, 2},
              threshold : {0, 2}, scope : {"none", "folder", "document"}]
SignedScores == {-2, -1, 1}

-----------------------------------------------------------------------------
\* What a behaviour explores; the rest stays in one of its initial states.
VARIABLE explored

MCInit ==
  /\ explored \in {"index", "texts", "searches"}
  /\ Init /\ ChunkInit /\ Searching!Init
  /\ explored # "searches" => inside = {}

MCNext ==
  \/ /\ explored = "index"
     /\ Next /\ UNCHANGED <<explored, chunkVars, searching>>
  \/ /\ explored = "texts"
     /\ ChunkNext /\ UNCHANGED <<explored, vars, searching>>
  \/ /\ explored = "searches"
     /\ Searching!Next /\ UNCHANGED <<explored, vars, chunkVars>>

IndexingAndTexts ==
  MCInit /\ [][MCNext]_<<explored, vars, chunkVars, searching>> /\ Fairness
=============================================================================
