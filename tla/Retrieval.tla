------------------------------ MODULE Retrieval ------------------------------
(***************************************************************************)
(* The retrieval of a knowledge base: its index (VectorIndex) and a search  *)
(* (HybridSearch).  A search asks of the index only that one is active for  *)
(* its model, and changes nothing, so a behaviour of one leaves the other   *)
(* where it is.                                                            *)
(***************************************************************************)
EXTENDS VectorIndex, FiniteSets

CONSTANTS Chunks, Label, Models, Dimension, Indexed, Calls, KeywordScores,
          VectorScores, RerankScores, Weight, Full, Least, Factor, Overfetch, Changes

\* Keys of chunks are compared number by number.
ASSUME ChunksAssumption == Chunks \subseteq Nat \X Nat \X Nat /\ IsFiniteSet(Chunks)

\* ts_rank is not negative, a cosine may be, and the weight is a share.
ASSUME ScoresAssumption ==
  /\ KeywordScores \subseteq Nat /\ VectorScores \subseteq Int /\ RerankScores \subseteq Int
  /\ Full \in Nat /\ Weight \in 0..Full

\* The bounds search sets on what it was called with
ASSUME CallsAssumption ==
  /\ Calls \subseteq [mode : {"keyword", "vector", "hybrid"}, limit : Nat \ {0},
                      threshold : Nat, scope : {"none", "folder", "document"}]
  /\ Least \in Nat /\ Factor \in Nat /\ Overfetch \in Nat

VARIABLES current, removed, inside, standing, permitted, scene, altered,
          asked, config, chosen, queried, keyword, vector, ordered, score, doing, met
searching == <<current, removed, inside, standing, permitted, scene, altered, asked,
               config, chosen, queried, keyword, vector, ordered, score, doing, met>>
Searching == INSTANCE HybridSearch
                 WITH deleted <- removed, folder <- standing, member <- permitted,
                      changes <- altered, call <- asked, target <- chosen,
                      step <- doing, seen <- met

RetrievalInit == Init /\ Searching!Init

RetrievalNext ==
  \/ Next /\ UNCHANGED searching
  \/ Searching!Next /\ UNCHANGED vars

RetrievalSpec == RetrievalInit /\ [][RetrievalNext]_<<vars, searching>>

\* A search returns what the caller might see, and keeps to the order of its
\* scores: see HybridSearch.
SearchSound == Searching!SearchSound
=============================================================================
