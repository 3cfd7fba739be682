---------------------------- MODULE HybridSearch ----------------------------
(***************************************************************************)
(* SearchService.search (application/search.py): one search of a knowledge  *)
(* base.  Its statements run one after the other and each sees what is      *)
(* committed when it begins, while documents get new versions, are deleted   *)
(* or moved, and the scene default changes; the query is embedded and the   *)
(* candidates are re-ranked by models in between.                           *)
(*                                                                         *)
(* A chunk is <<document, version, ordinal>>.  Scores are integers: Full    *)
(* stands for 1, of a score as of the weight and the threshold.             *)
(***************************************************************************)
EXTENDS Integers, SequencesExt

CONSTANTS
    Chunks,         \* the rows of document_chunks
    Label,          \* the embedding model of each of them, or 0
    Models,         \* embedding models
    Dimension,      \* of each of them
    Indexed,        \* those with an active index of the knowledge base
    Calls,          \* [mode, limit, threshold, scope]: the searches
    KeywordScores,  \* what ts_rank may say of a chunk
    VectorScores,   \* what the cosine may say of one, also negative
    RerankScores,
    Weight, Full,   \* vector_weight, and the unit
    Least, Factor, Overfetch,   \* bounds of a candidate list
    Changes         \* bound: changes of the knowledge base during a search

VARIABLES
    current,    \* the current version of each document
    deleted,    \* documents that are deleted, and their chunks with them
    inside,     \* documents in the folder of the scope, or below it
    folder,     \* that folder is active
    member,     \* the caller's role permits the search
    scene,      \* the scene default for embedding, or 0
    changes,
    call, config, target, queried, keyword, vector, ordered, score,
    step,       \* what the search does next, or its result
    seen        \* history: chunks visible at some time since it was authorized

knowledge == <<current, deleted, inside, folder, member, scene, changes>>
found == <<keyword, vector>>
vars == <<knowledge, call, config, target, queried, found, ordered, score,
          step, seen>>

Documents == {c[1] : c \in Chunks}

\* Chunks of the current, verified version of an active document in an active
\* folder
Live(now, away, ins, active) ==
    {c \in Chunks : now[c[1]] = c[2] /\ c[1] \notin away /\ (c[1] \in ins => active)}

Visible == Live(current, deleted, inside, folder)

Init ==
    /\ current = [d \in Documents |-> 1]
    /\ deleted = {} /\ inside \in SUBSET Documents /\ folder = TRUE /\ member = TRUE
    /\ scene = 1 /\ changes = 0
    /\ call = [mode |-> "none"]
    /\ config = 0 /\ target = 0 /\ queried = 0
    /\ keyword = <<>> /\ vector = <<>> /\ ordered = <<>> /\ score = <<>>
    /\ step = "waiting" /\ seen = {}

-----------------------------------------------------------------------------
(* The statements of a search *)

Goto(next) == step' = next

\* _scene_profile: the embedding model of the grounded profile, or else of the
\* scene default for embedding
Configured(grounded) == IF grounded # 0 THEN grounded ELSE scene

\* Arguments are checked.
Begin(c, grounded) ==
    /\ step = "waiting"
    /\ call' = c
    /\ config' = Configured(grounded)
    /\ Goto("require")
    /\ UNCHANGED <<knowledge, target, queried, found, ordered, score, seen>>

\* _require_kb, then the scope must exist.
InScope(c, below) ==
    /\ call.scope = "folder" => c[1] \in below
    /\ call.scope = "document" => c[1] = 1

ScopeExists ==
    /\ call.scope = "folder" => folder
    /\ call.scope = "document" => 1 \notin deleted

M_Candidates ==
    {c \in Chunks : current[c[1]] >= c[2] /\ c[1] \notin deleted /\ InScope(c, inside)}

\* What the statements select from
Candidates == {c \in Visible : InScope(c, inside)}

Require ==
    /\ step = "require"
    /\ Goto(CASE ~member -> "KB_NOT_FOUND"
              [] member /\ ~ScopeExists -> "SCOPE_NOT_FOUND"
              [] OTHER -> IF call.mode = "vector" THEN "target" ELSE "keyword")
    /\ seen' = {c \in Visible : InScope(c, inside)}
    /\ UNCHANGED <<knowledge, call, config, target, queried, found, ordered, score>>

KeyLess(a, b) ==
    \E n \in 1..3 : a[n] < b[n] /\ \A m \in 1..(n - 1) : a[m] = b[m]

Ahead(f, a, b) == f[a] > f[b] \/ (f[a] = f[b] /\ KeyLess(a, b))

Pool == Max({call.limit * Factor, Least})

\* The elements of S in the order of Precedes, which holds of any two of them in
\* one direction.
Sorted(S, Precedes(_, _)) ==
    [n \in 1..Cardinality(S) |->
       CHOOSE c \in S : Cardinality({b \in S : Precedes(b, c)}) = n - 1]

ByScore(f, S) == Sorted(S, LAMBDA a, b : Ahead(f, a, b))

Prefix(s, n) == SubSeq(s, 1, Min({n, Len(s)}))

\* _keyword_candidates: the first matches, ties in the order of the keys
Keyword ==
    /\ step = "keyword"
    /\ \E matching \in SUBSET Candidates : \E rank \in [matching -> KeywordScores] :
         LET rows == Prefix(ByScore(rank, matching), Pool)
         IN  keyword' = [c \in ToSet(rows) |-> rank[c]]
    /\ Goto(IF call.mode = "hybrid" THEN "target" ELSE "merge")
    /\ UNCHANGED <<knowledge, call, config, target, queried, vector, ordered, score, seen>>

\* _vector_target: an index of the configured model that is complete
VectorTarget ==
    /\ step = "target"
    /\ target' = config
    /\ Goto(IF config \in Indexed THEN "embed" ELSE "REINDEX_REQUIRED")
    /\ UNCHANGED <<knowledge, call, config, queried, found, ordered, score, seen>>

\* managed_embeddings resolves the scene default by itself; the search compares
\* dimensions only.
EmbedQuery ==
    /\ step = "embed"
    /\ queried' = scene
    /\ Goto(CASE scene = 0 -> "NO_ASSIGNMENT"
              [] scene # 0 /\ Dimension[scene] # Dimension[target] -> "INVALID_EMBEDDING_RESPONSE"
              [] OTHER -> "vector")
    /\ UNCHANGED <<knowledge, call, config, target, found, ordered, score, seen>>

\* _vector_candidates: the nearest, ties in any order
Vector ==
    /\ step = "vector"
    /\ \E rank \in [{c \in Candidates : Label[c] = target} -> VectorScores] :
       \E near \in SUBSET DOMAIN rank :
         /\ Cardinality(near) = Min({Pool * Overfetch, Cardinality(DOMAIN rank)})
         /\ \A a \in near, b \in DOMAIN rank \ near : rank[a] >= rank[b]
         /\ vector' = [c \in near |-> rank[c]]
    /\ Goto("merge")
    /\ UNCHANGED <<knowledge, call, config, target, queried, keyword, ordered, score, seen>>

-----------------------------------------------------------------------------
(* fuse_scores *)

At(f, c) == IF c \in DOMAIN f THEN f[c] ELSE 0

Best(f) == IF DOMAIN f = {} THEN 0 ELSE Max(Range(f))

\* f[c] / Best(f), with Size(f) as denominator; 0 when the best score is
Size(f) == IF Best(f) = 0 THEN 1 ELSE Max({Best(f), -Best(f)})

Share(f, c) ==
    CASE Best(f) > 0 -> At(f, c)
      [] Best(f) = 0 -> 0
      [] Best(f) < 0 -> -At(f, c)

\* The fused scores, with Full * Size(k) * Size(v) as denominator
Fused(k, v) ==
    [c \in DOMAIN k \cup DOMAIN v |->
       (Full - Weight) * Share(k, c) * Size(v) + Weight * Share(v, c) * Size(k)]

\* The scores of the merged rows, and what the threshold is in their unit
Scores ==
    CASE call.mode = "hybrid" -> Fused(keyword, vector)
      [] call.mode = "keyword" -> keyword
      [] call.mode = "vector" -> vector

Threshold ==
    IF call.mode = "hybrid" THEN call.threshold * Size(keyword) * Size(vector)
    ELSE call.threshold

Merge ==
    /\ step = "merge"
    /\ score' = Scores
    /\ ordered' = Prefix(ByScore(Scores, {c \in DOMAIN Scores : Scores[c] >= Threshold}),
                       Pool)
    /\ Goto("rerank")
    /\ UNCHANGED <<knowledge, call, config, target, queried, found, seen>>

-----------------------------------------------------------------------------
(* managed_rerank *)

\* What a model may answer: pairs of an index, as it should be or not, and a
\* score; one that fails answers <<0, 0>>.
Replies ==
    UNION {[1..n -> (0..Len(ordered)) \X RerankScores] : n \in 0..2}

\* Every index is one of the list and named once.
IsValid(values) ==
    /\ \A n \in DOMAIN values : values[n][1] \in DOMAIN ordered
    /\ \A n, m \in DOMAIN values : values[n][1] = values[m][1] => n = m

Named(values) == {ordered[values[n][1]] : n \in DOMAIN values}

ValueOf(values, c) == (CHOOSE p \in ToSet(values) : ordered[p[1]] = c)[2]

\* The named ones come first by their new scores, ties and the rest as before.
InFront(values, a, b) ==
    CASE a \in Named(values) /\ b \in Named(values) ->
           \/ ValueOf(values, a) > ValueOf(values, b)
           \/ ValueOf(values, a) = ValueOf(values, b) /\ Ahead(score, a, b)
      [] (a \in Named(values)) # (b \in Named(values)) -> a \in Named(values)
      [] OTHER -> Ahead(score, a, b)

Reranked(values) == Sorted(ToSet(ordered), LAMBDA a, b : InFront(values, a, b))

\* A reranking model is configured: an answer that is not valid is ignored.
Rerank ==
    /\ step = "rerank" /\ ordered # <<>>
    /\ \E values \in Replies :
         /\ ordered' = IF IsValid(values) THEN Prefix(Reranked(values), call.limit)
                       ELSE Prefix(ordered, call.limit)
         /\ Goto(IF IsValid(values) THEN "reranked" ELSE "degraded")
    /\ UNCHANGED <<knowledge, call, config, target, queried, found, score, seen>>

\* None is, or there is nothing to rank.
NoRerank ==
    /\ step = "rerank"
    /\ ordered' = Prefix(ordered, call.limit)
    /\ Goto("found")
    /\ UNCHANGED <<knowledge, call, config, target, queried, found, score, seen>>

-----------------------------------------------------------------------------
(* What happens meanwhile *)

Searching == step \in {"require", "keyword", "target", "embed", "vector"}

Change ==
    /\ Searching
    /\ changes < Changes
    /\ changes' = changes + 1
    /\ seen' = seen \cup {c \in Live(current', deleted', inside', folder') :
                            InScope(c, inside')}
    /\ UNCHANGED <<call, config, target, queried, found, ordered, score, step>>

\* A new version of a document is made current.
Replace(d) ==
    /\ \E c \in Chunks : c[1] = d /\ c[2] = current[d] + 1
    /\ current' = [current EXCEPT ![d] = @ + 1]
    /\ UNCHANGED <<deleted, inside, folder, member, scene>>
    /\ Change

DeleteDocument(d) ==
    /\ d \notin deleted
    /\ deleted' = deleted \cup {d}
    /\ UNCHANGED <<current, inside, folder, member, scene>>
    /\ Change

Move(d) ==
    /\ inside' = IF d \in inside THEN inside \ {d} ELSE inside \cup {d}
    /\ UNCHANGED <<current, deleted, folder, member, scene>>
    /\ Change

\* The folder is archived; the caller leaves; the scene default is changed.
Archive ==
    /\ folder' = FALSE
    /\ UNCHANGED <<current, deleted, inside, member, scene>>
    /\ Change

Leave ==
    /\ member' = FALSE
    /\ UNCHANGED <<current, deleted, inside, folder, scene>>
    /\ Change

SetScene(m) ==
    /\ m # scene
    /\ scene' = m
    /\ UNCHANGED <<current, deleted, inside, folder, member>>
    /\ Change

-----------------------------------------------------------------------------
Next ==
    \/ \E c \in Calls, grounded \in Models \cup {0} : Begin(c, grounded)
    \/ Require \/ Keyword \/ VectorTarget \/ EmbedQuery \/ Vector
    \/ Merge \/ Rerank \/ NoRerank
    \/ \E d \in Documents : Replace(d) \/ DeleteDocument(d) \/ Move(d)
    \/ Archive \/ Leave
    \/ \E m \in Models \cup {0} : SetScene(m)

Spec == Init /\ [][Next]_vars

-----------------------------------------------------------------------------
Answered == step \in {"found", "reranked", "degraded"}

TypeOK ==
    /\ scene \in Models \cup {0} /\ changes \in 0..Changes
    /\ ToSet(ordered) \subseteq Chunks /\ seen \subseteq Chunks

\* Whatever changes between the statements of a search, what it returns was the
\* current version of a visible document in its scope at some time since the
\* search was authorized, and neither model can add to it.
OnlyVisible ==
    Answered => /\ ToSet(ordered) \subseteq seen
                /\ ToSet(ordered) \subseteq DOMAIN keyword \cup DOMAIN vector

\* A candidate that both searches prefer to one that is returned is returned
\* ahead of it, wherever lists were cut, unless a model ranked them again.
\* (A weight of 1 leaves out what the keywords say.  Where no vector score is
\* positive the division by the best of them inverts their order, and the
\* threshold lets negative scores pass.)
NoneOvertaken ==
    Answered /\ step # "reranked" /\ Weight < Full
      /\ (DOMAIN vector = {} \/ Best(vector) >= 0) =>
      \A a, b \in DOMAIN score :
        /\ b \in ToSet(ordered)
        /\ At(keyword, a) > At(keyword, b) /\ At(vector, a) >= At(vector, b)
        => \E n, m \in DOMAIN ordered : n < m /\ ordered[n] = a /\ ordered[m] = b

\* A search keeps to what the caller may see, and to the order of its scores.
SearchSound == OnlyVisible /\ NoneOvertaken

\* The code does not keep this: the query is embedded by the model whose
\* vectors it is compared with.
OneModel == step = "merge" => target = queried

\* The code does not keep this: what is returned of a document is of one of its
\* versions.
OneVersion ==
    Answered => \A a, b \in ToSet(ordered) : a[1] = b[1] => a[2] = b[2]
=============================================================================
