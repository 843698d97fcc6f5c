--------------------------- MODULE SemanticRanking ---------------------------
(***************************************************************************)
(* The semantic worker of a session (poqi-ui semantic_worker/,             *)
(* poqi-search-semantic): it takes the rankings one by one, moves its      *)
(* cache of embeddings into a blocking job and gets it back with the       *)
(* answer.  The user may cancel a ranking at any time; the job looks at    *)
(* its flag between two batches.                                           *)
(***************************************************************************)
EXTENDS RowQueries

CONSTANTS Score(_, _),     \* how similar a prompt is to a document, from 0
          BatchSize,       \* documents embedded by one call of the model
          TopK,            \* rows a ranking may keep
          Threshold,       \* the lowest score it keeps
          DirectMl         \* the embedder was built for DirectML

ASSUME SemanticRankingAssumption ==
    /\ BatchSize \in Nat /\ TopK \in Nat
    /\ Threshold \in Nat
    /\ DirectMl \in BOOLEAN

VARIABLES queue,       \* commands the worker has not taken: Seq(job)
          canceled,    \* the jobs in the queue whose flag is set
          work,        \* the job that runs, or NoWork
          cache,       \* EmbeddingCache, without the entry that the job took
          embedder,    \* dml_disabled: DirectML was given up
          replies      \* answers the session has not read

workerVars == <<queue, canceled, work, cache, embedder, replies>>

(***************************************************************************)
(* Documents.                                                              *)
(***************************************************************************)
Sentinel == "[NULL]"

\* format_row_prompt: a null has a text of its own here.
Labelled(shown, null) == IF null THEN Sentinel ELSE shown

\* build_documents: the first column of the title's name, unless it is null.
Title(result, i, title) ==
    LET named == {j \in DOMAIN result.columns : result.columns[j] = title}
    IN  IF named = {} \/ result.nulls[i][Min(named)] THEN None ELSE result.rows[i][Min(named)]

Document(result, i, title) ==
    [title |-> Title(result, i, title),
     cells |-> [j \in DOMAIN result.columns |-> Labelled(result.rows[i][j], result.nulls[i][j])],
     names |-> result.columns]

\* hash_row
RowKey(result, i) == [names |-> result.columns, row |-> result.rows[i], nulls |-> result.nulls[i]]

\* origin_signature
Origin(result) == IF result.table THEN result.origin ELSE "unknown"

\* build_dataset_id; a session has one model.
DatasetId(result, title) == [origin |-> Origin(result), columns |-> result.columns, title |-> title]

NoDataset == [origin |-> "none", columns |-> <<>>, title |-> None]

\* EmbeddingCache::default.  The vector of a document is the document.
EmptyCache == [id |-> NoDataset, vectors |-> <<>>]

(***************************************************************************)
(* Ranking.                                                                *)
(***************************************************************************)
Better(scores, i, j) == scores[i] > scores[j] \/ (scores[i] = scores[j] /\ i < j)

\* finalize_local_ranking: a stable sort, the threshold, then the first ones; a
\* score that is no number is below every threshold.
Ranked(scores) ==
    LET kept == {i \in DOMAIN scores : scores[i] \in Nat /\ scores[i] >= Threshold}
    IN  [k \in 1 .. Min({TopK, Cardinality(kept)}) |->
            CHOOSE i \in kept : k = 1 + Cardinality({j \in kept : Better(scores, j, i)})]

\* Mutant: the identities stay in the order of the rows that were fetched.
IdentitiesInPlace(result, order) == SubSeq(result.identities, 1, Len(order))

Picked(list, order) == [k \in DOMAIN order |-> list[order[k]]]
PickedIdentities(result, order) == Picked(result.identities, order)

\* subset_result
Subset(result, order) ==
    [result EXCEPT !.rows = Picked(@, order), !.nulls = Picked(@, order),
                   !.identities = PickedIdentities(result, order), !.versions = Picked(@, order)]

(***************************************************************************)
(* The worker.                                                             *)
(***************************************************************************)
NoWork == [at |-> "none", entry |-> EmptyCache, vectors |-> <<>>, missing |-> {}]
Job(id, result, prompt, title) == [id |-> id, result |-> result, prompt |-> prompt, title |-> title]

\* The command that the job runs stays at the head of the queue until it ends.
Current       == Head(queue)
IsCanceled    == Current.id \in canceled
Reply(is, id, result) == [is |-> is, id |-> id, result |-> result]

Ends(reply) ==
    /\ queue' = Tail(queue)
    /\ work' = NoWork
    /\ replies' = Append(replies, reply)
    /\ canceled' = canceled \ {Current.id}

Fails(is)   == Ends(Reply(is, Current.id, EmptyResult))
AtStage(at) == work.at = at

\* Documents that have no vector yet, of a cache cleared of the others.
KeysOf(result)  == {RowKey(result, i) : i \in DOMAIN result.rows}
Entry(result, title) ==
    LET id   == DatasetId(result, title)
        kept == IF cache.id = id THEN DOMAIN cache.vectors \cap KeysOf(result) ELSE {}
    IN  [id |-> id, vectors |-> [k \in kept |-> cache.vectors[k]]]

Missing(entry, result) ==
    {i \in DOMAIN result.rows : RowKey(result, i) \notin DOMAIN entry.vectors}

Known(entry, result, i) == RowKey(result, i) \in DOMAIN entry.vectors

\* rank_rows up to the cache; no row is no match, and a ranking canceled while
\* it waited leaves the cache alone.
NothingToRank ==
    /\ queue # <<>>
    /\ AtStage("none")
    /\ Current.result.rows = <<>>
    /\ Ends(Reply("success", Current.id, Subset(Current.result, <<>>)))
    /\ UNCHANGED <<cache, embedder>>

CanceledBefore ==
    /\ queue # <<>>
    /\ AtStage("none")
    /\ Current.result.rows # <<>>
    /\ IsCanceled
    /\ Fails("canceled")
    /\ UNCHANGED <<cache, embedder>>

\* embeddings_for returns its entry to the cache with the last batch; "held" is
\* what the cache holds until then.
Continues(next, held) ==
    IF next.missing = {}
    THEN /\ work' = [next EXCEPT !.at = "score", !.entry = EmptyCache]
         /\ cache' = next.entry
    ELSE work' = next /\ cache' = held

\* The entry of the same dataset is taken out; another one stays until the job
\* returns its own.
TakeRanking ==
    /\ queue # <<>>
    /\ AtStage("none")
    /\ Current.result.rows # <<>>
    /\ ~IsCanceled
    /\ LET result == Current.result
           entry  == Entry(result, Current.title)
       IN  Continues([at |-> "embed", entry |-> entry, missing |-> Missing(entry, result),
                      vectors |-> [i \in DOMAIN result.rows |->
                          IF Known(entry, result, i) THEN entry.vectors[RowKey(result, i)] ELSE None]],
                     IF cache.id = entry.id THEN EmptyCache ELSE cache)
    /\ UNCHANGED <<queue, canceled, embedder, replies>>

(***************************************************************************)
(* SemanticEmbedder::encode.  A DirectML session that yields values that   *)
(* are not finite is given up for the CPU, once and for the session.       *)
(***************************************************************************)
Encodes ==
    \/ UNCHANGED embedder
    \/ /\ DirectMl
       /\ ~embedder
       /\ embedder' = TRUE

\* An error of the model loses the entry that the job had taken; a panic the
\* whole cache (spawn_semantic_worker).
EncodeFails ==
    /\ AtStage("embed") \/ AtStage("score")
    /\ Encodes
    /\ Fails("error")
    /\ UNCHANGED cache

WorkerPanics ==
    /\ AtStage("embed") \/ AtStage("score")
    /\ cache' = EmptyCache
    /\ UNCHANGED embedder
    /\ Fails("error")

StopRanking ==
    /\ AtStage("embed") \/ AtStage("score")
    /\ IsCanceled
    /\ cache' = IF AtStage("embed") THEN work.entry ELSE cache
    /\ Fails("canceled")
    /\ UNCHANGED embedder

\* The first of the documents that are still to be embedded.
Batch == {i \in work.missing : Cardinality({j \in work.missing : j < i}) < BatchSize}

EmbedBatch ==
    /\ AtStage("embed")
    /\ ~IsCanceled
    /\ Encodes
    /\ LET keys == {RowKey(Current.result, i) : i \in Batch}
           Doc(i) == Document(Current.result, i, Current.title)
           IndexOf(k) == Max({i \in Batch : RowKey(Current.result, i) = k})
           Learned(old) == [k \in DOMAIN old \cup keys |-> IF k \in keys THEN Doc(IndexOf(k)) ELSE old[k]]
       IN  Continues([at |-> "embed", missing |-> work.missing \ Batch,
                      entry |-> [id |-> work.entry.id, vectors |-> Learned(work.entry.vectors)],
                      vectors |-> [i \in DOMAIN work.vectors |->
                          IF i \in Batch THEN Doc(i) ELSE work.vectors[i]]], cache)
    /\ UNCHANGED <<queue, canceled, replies>>

\* The prompt is encoded and the rows are ranked.
ScoreRows ==
    /\ AtStage("score")
    /\ ~IsCanceled
    /\ Encodes
    /\ LET scores == [i \in DOMAIN work.vectors |-> Score(Current.prompt, work.vectors[i])]
       IN  Ends(Reply("success", Current.id, Subset(Current.result, Ranked(scores))))
    /\ UNCHANGED cache

Worker ==
    \/ NothingToRank \/ CanceledBefore \/ TakeRanking \/ EmbedBatch \/ ScoreRows
    \/ StopRanking \/ EncodeFails \/ WorkerPanics

WorkerInit ==
    /\ queue = <<>>
    /\ canceled = {}
    /\ work = NoWork
    /\ cache = EmptyCache
    /\ embedder = FALSE
    /\ replies = <<>>

(***************************************************************************)
(* The same ranking from the documents themselves, with no cache: the rows *)
(* in their new order, everything known of a row beside it.                *)
(***************************************************************************)
Expected(job) ==
    LET r      == job.result
        scores == [i \in DOMAIN r.rows |-> Score(job.prompt, Document(r, i, job.title))]
        order  == Ranked(scores)
        Reordered(list) == [k \in DOMAIN order |-> list[order[k]]]
    IN  [r EXCEPT !.rows = Reordered(@), !.nulls = Reordered(@),
                  !.identities = Reordered(@), !.versions = Reordered(@)]
=============================================================================
