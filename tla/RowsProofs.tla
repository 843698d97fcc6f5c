------------------------------ MODULE RowsProofs ------------------------------
(***************************************************************************)
(* What holds of the grid, the search and the table for every value of the *)
(* constants: a ranking that went through the cache of embeddings is the   *)
(* one that its rows give, and an edit or a delete hits the row that the   *)
(* grid shows, whatever other sessions do.                                 *)
(***************************************************************************)
EXTENDS Rows, FiniteSetTheorems, SequenceTheorems, TLAPS

(***************************************************************************)
(* Orders and sequences.                                                   *)
(***************************************************************************)
\* The ranks of a finite set in a strict total order are 1, 2 and so on, and
\* each of them is taken.
LEMMA RanksAreTaken ==
    ASSUME NEW S, IsFiniteSet(S), NEW lower \in [S -> SUBSET S],
           \A x \in S : x \notin lower[x],
           \A x, y \in S : x # y => x \in lower[y] \/ y \in lower[x],
           \A x, y \in S : x \in lower[y] => lower[x] \subseteq lower[y]
    PROVE  \A k \in 1 .. Cardinality(S) : \E x \in S : k = 1 + Cardinality(lower[x])
    <1> DEFINE n    == Cardinality(S)
               rank == [x \in S |-> 1 + Cardinality(lower[x])]
    <1>1. n \in Nat  BY FS_CardinalityType
    <1>2. \A x \in S : IsFiniteSet(lower[x]) /\ Cardinality(lower[x]) \in Nat
        BY FS_Subset, FS_CardinalityType
    <1>3. \A x \in S : Cardinality(lower[x]) < n
        <2> TAKE x \in S
        <2>1. lower[x] \in SUBSET S /\ lower[x] # S  OBVIOUS
        <2>2. Cardinality(lower[x]) <= n /\ Cardinality(lower[x]) # n  BY <2>1, FS_Subset
        <2> QED  BY <1>1, <1>2, <2>2
    <1>4. \A x, y \in S : x \in lower[y] => Cardinality(lower[x]) < Cardinality(lower[y])
        <2> TAKE x, y \in S
        <2> HAVE x \in lower[y]
        <2>1. lower[x] \in SUBSET lower[y] /\ lower[x] # lower[y]  OBVIOUS
        <2>2. Cardinality(lower[x]) <= Cardinality(lower[y]) /\ Cardinality(lower[x]) # Cardinality(lower[y])
            BY <1>2, <2>1, FS_Subset
        <2> QED  BY <1>2, <2>2
    <1>5. rank \in [S -> 1 .. n]  BY <1>1, <1>2, <1>3
    <1>6. \A x, y \in S : x # y => rank[x] # rank[y]  BY <1>2, <1>4
    <1>7. rank \in Injection(S, 1 .. n)  BY <1>5, <1>6 DEF Injection, IsInjective
    <1>8. IsFiniteSet(1 .. n) /\ Cardinality(1 .. n) = n  BY <1>1, FS_Interval
    <1>9. rank \in Surjection(S, 1 .. n)  BY <1>7, <1>8, FS_Injection
    <1> QED  BY <1>9 DEF Surjection

Flattening(f, seqs) == f = [i \in 1 .. Len(seqs) |-> IF i = 1 THEN seqs[i] ELSE f[i - 1] \o seqs[i]]

LEMMA FlattenIs ==
    ASSUME NEW seqs, Len(seqs) # 0
    PROVE  FlattenSeq(seqs) = (CHOOSE f : Flattening(f, seqs))[Len(seqs)]
    BY DEF FlattenSeq, Flattening

LEMMA FlattenOne ==
    ASSUME NEW seq PROVE FlattenSeq(<<seq>>) = seq
    <1> DEFINE s == <<seq>>
    <1>1. Len(s) = 1 /\ s[1] = seq  OBVIOUS
    <1> HIDE DEF s
    <1>2. Flattening([i \in 1 .. 1 |-> seq], s)  BY <1>1 DEF Flattening
    <1>3. PICK f : Flattening(f, s) /\ f = CHOOSE g : Flattening(g, s)  BY <1>2, Zenon
    <1>4. f[1] = seq  BY <1>1, <1>3 DEF Flattening
    <1>5. FlattenSeq(s) = (CHOOSE g : Flattening(g, s))[1]  BY <1>1, FlattenIs
    <1>6. FlattenSeq(s) = seq  BY <1>3, <1>4, <1>5, Zenon
    <1> QED  BY <1>6 DEF s

LEMMA Smallest ==
    ASSUME NEW T, T \subseteq Nat, T # {}
    PROVE  \E n \in T : \A m \in T : n <= m
    <1> DEFINE R == {ss \in Nat \X Nat : ss[1] < ss[2]}
    <1>1. IsWellFoundedOn(R, Nat)  BY NatLessThanWellFounded DEF OpToRel
    <1>2. ASSUME NEW n \in Nat, NEW m \in Nat, <<m, n>> \notin R PROVE n <= m  BY <1>2
    <1> HIDE DEF R
    <1>3. \E n \in T : \A m \in T : ~ (<<m, n>> \in R)  BY <1>1, WFMin
    <1> QED  BY <1>2, <1>3

LEMMA MaxIsTaken ==
    ASSUME NEW n \in Nat, NEW S, S \subseteq 1 .. n, S # {} PROVE Max(S) \in S
    <1> DEFINE T == {n - i : i \in S}
    <1>1. T \subseteq Nat /\ T # {}
        <2>1. \A i \in S : n - i \in Nat  OBVIOUS
        <2> QED  BY <2>1
    <1> HIDE DEF T
    <1>2. PICK least \in T : \A m \in T : least <= m  BY <1>1, Smallest
    <1>3. PICK x \in S : least = n - x  BY <1>2 DEF T
    <1>4. \A y \in S : x >= y
        <2> TAKE y \in S
        <2>1. n - x <= n - y  BY <1>2, <1>3 DEF T
        <2> QED  BY <2>1
    <1> QED  BY <1>4 DEF Max

Prefix(flat, i) == [k \in 1 .. i |-> flat[k]]

LEMMA PrefixGrows ==
    ASSUME NEW E, NEW flat \in Seq(E)
    PROVE  /\ \A i \in 1 .. Len(flat) : i # 1 => Prefix(flat, i) = Prefix(flat, i - 1) \o <<flat[i]>>
           /\ Len(flat) # 0 => Prefix(flat, 1) = <<flat[1]>>
           /\ Prefix(flat, Len(flat)) = flat
    <1>1. \A i \in 0 .. Len(flat) : Prefix(flat, i) \in Seq(E) /\ Len(Prefix(flat, i)) = i  BY DEF Prefix
    <1>2. ASSUME NEW i \in 1 .. Len(flat), i # 1
          PROVE  Prefix(flat, i) = Prefix(flat, i - 1) \o <<flat[i]>>
        <2>1. Prefix(flat, i - 1) \in Seq(E) /\ Len(Prefix(flat, i - 1)) = i - 1  BY <1>1, <1>2
        <2>2. flat[i] \in E /\ Prefix(flat, i) \in Seq(E) /\ Len(Prefix(flat, i)) = i  BY <1>1
        <2> DEFINE g == Prefix(flat, i - 1) \o <<flat[i]>>
        <2>3. g \in Seq(E) /\ Len(g) = i /\ \A k \in 1 .. i : g[k] = flat[k]  BY <1>2, <2>1, <2>2 DEF Prefix
        <2> HIDE DEF g
        <2>4. \A k \in 1 .. i : Prefix(flat, i)[k] = g[k]  BY <2>3 DEF Prefix
        <2>5. Prefix(flat, i) = g  BY <2>2, <2>3, <2>4, SeqEqual
        <2> QED  BY <2>5 DEF g
    <1>3. Len(flat) # 0 => Prefix(flat, 1) = <<flat[1]>>  BY DEF Prefix
    <1>4. Prefix(flat, Len(flat)) = flat  BY DEF Prefix
    <1> QED  BY <1>2, <1>3, <1>4

\* Sequences of one element each make the sequence of these elements.
LEMMA FlattenSingles ==
    ASSUME NEW E, NEW flat \in Seq(E), flat # <<>>
    PROVE  FlattenSeq([i \in DOMAIN flat |-> <<flat[i]>>]) = flat
    <1> DEFINE n    == Len(flat)
               seqs == [i \in DOMAIN flat |-> <<flat[i]>>]
    <1>1. n \in Nat /\ n # 0 /\ Len(seqs) = n /\ \A i \in 1 .. n : seqs[i] = <<flat[i]>>  OBVIOUS
    <1>2. \A i \in 1 .. n : i # 1 => Prefix(flat, i) = Prefix(flat, i - 1) \o seqs[i]  BY <1>1, PrefixGrows
    <1>3. Prefix(flat, 1) = seqs[1] /\ Prefix(flat, n) = flat  BY <1>1, PrefixGrows
    <1> HIDE DEF n, seqs
    <1>4. Flattening([i \in 1 .. n |-> Prefix(flat, i)], seqs)
        <2> DEFINE w == [i \in 1 .. n |-> Prefix(flat, i)]
        <2>1. \A i \in 1 .. n : w[i] = IF i = 1 THEN seqs[i] ELSE w[i - 1] \o seqs[i]  BY <1>1, <1>2, <1>3
        <2> QED  BY <1>1, <2>1 DEF Flattening
    <1>5. PICK f : Flattening(f, seqs) /\ f = CHOOSE g : Flattening(g, seqs)  BY <1>4, Zenon
    <1>6. \A i \in 1 .. n : f[i] = IF i = 1 THEN seqs[i] ELSE f[i - 1] \o seqs[i]  BY <1>1, <1>5 DEF Flattening
    <1>7. \A i \in 1 .. n : f[i] = Prefix(flat, i)
        <2> DEFINE T == {i \in 1 .. n : f[i] # Prefix(flat, i)}
        <2>1. T \subseteq Nat  OBVIOUS
        <2>2. ASSUME NEW i \in T, \A m \in T : i <= m PROVE FALSE
            <3>1. i \in 1 .. n /\ f[i] # Prefix(flat, i)  OBVIOUS
            <3>2. i # 1  BY <1>1, <1>3, <1>6, <3>1
            <3>3. i - 1 \in 1 .. n /\ ~ i <= i - 1  BY <1>1, <3>1, <3>2
            <3>4. f[i - 1] = Prefix(flat, i - 1)  BY <2>2, <3>3
            <3> QED  BY <1>2, <1>6, <3>1, <3>2, <3>4
        <2> HIDE DEF T
        <2>3. T = {}  BY <2>1, <2>2, Smallest
        <2> QED  BY <2>3 DEF T
    <1>8. FlattenSeq(seqs) = (CHOOSE g : Flattening(g, seqs))[n]  BY <1>1, FlattenIs
    <1>9. f[n] = flat  BY <1>1, <1>3, <1>7
    <1>10. FlattenSeq(seqs) = flat  BY <1>5, <1>8, <1>9, Zenon
    <1> QED  BY <1>10 DEF seqs

(***************************************************************************)
(* Rankings and the cache.                                                 *)
(***************************************************************************)
\* The document that a row of this key has under this title.
DocumentOf(key, chosen) ==
    LET named == {j \in DOMAIN key.names : key.names[j] = chosen}
    IN  [title |-> IF named = {} \/ key.nulls[Min(named)] THEN None ELSE key.row[Min(named)],
         cells |-> [j \in DOMAIN key.names |-> Labelled(key.row[j], key.nulls[j])],
         names |-> key.names]

\* The key of the cache says all that the document is made of but the title
\* (hash_row, build_documents).
LEMMA KeyTellsDocument ==
    ASSUME NEW result, NEW i, NEW chosen
    PROVE  Document(result, i, chosen) = DocumentOf(RowKey(result, i), chosen)
    BY DEF Document, DocumentOf, RowKey, Title

\* An entry holds the document of each of its keys, under its own title.
Truthful(entry) ==
    \A k \in DOMAIN entry.vectors : entry.vectors[k] = DocumentOf(k, entry.id.title)

\* A sequence of whatever it holds.
IsSeq(q) == q \in Seq({q[i] : i \in DOMAIN q})

\* The job "w" is at the head of the queue and has the documents of the rows
\* that are not missing.
Embeds(w) ==
    /\ queue # <<>>
    /\ DOMAIN w.vectors = DOMAIN Current.result.rows
    /\ w.missing \subseteq DOMAIN w.vectors
    /\ \A i \in DOMAIN w.vectors \ w.missing :
          w.vectors[i] = Document(Current.result, i, Current.title)

JobShape(w) ==
    \E at, id, known, docs, gone :
        w = [at |-> at, entry |-> [id |-> id, vectors |-> known], vectors |-> docs, missing |-> gone]

SeqsHold == IsSeq(queue) /\ IsSeq(replies)

WorkHolds ==
    /\ JobShape(work)
    /\ work.at \in {"none", "embed", "score"}
    /\ AtStage("embed") => Embeds(work) /\ Truthful(work.entry) /\ work.entry.id.title = Current.title
    /\ AtStage("score") => Embeds(work) /\ work.missing = {}

CacheInv == SeqsHold /\ WorkHolds /\ Truthful(cache)

LEMMA SeqIsSeq ==
    ASSUME NEW S, NEW q \in Seq(S)
    PROVE  IsSeq(q)
    <1> DEFINE R == {q[i] : i \in DOMAIN q}
    <1>1. Len(q) \in Nat /\ DOMAIN q = 1 .. Len(q)  OBVIOUS
    <1>2. q \in [1 .. Len(q) -> S]  OBVIOUS
    <1>3. q \in [1 .. Len(q) -> R]  BY <1>1, <1>2, Zenon
    <1>4. q \in Seq(R)  BY <1>1, <1>3, SeqDef
    <1> QED  BY <1>4 DEF IsSeq

LEMMA IsSeqLength ==
    ASSUME NEW q, IsSeq(q)
    PROVE  Len(q) \in Nat /\ DOMAIN q = 1 .. Len(q)
    BY DEF IsSeq

LEMMA IsSeqAppend ==
    ASSUME NEW q, NEW e, IsSeq(q)
    PROVE  /\ IsSeq(Append(q, e))
           /\ DOMAIN Append(q, e) = 1 .. Len(q) + 1
           /\ \A i \in 1 .. Len(q) : Append(q, e)[i] = q[i]
           /\ Append(q, e)[Len(q) + 1] = e
           /\ Append(q, e) # <<>>
           /\ q # <<>> => Head(Append(q, e)) = Head(q)
    <1> DEFINE S == {q[i] : i \in DOMAIN q} \cup {e}
               a == Append(q, e)
    <1>1. q \in Seq(S) /\ e \in S  BY DEF IsSeq
    <1> HIDE DEF S
    <1>2. a \in Seq(S) /\ Len(a) = Len(q) + 1 /\ \A i \in 1 .. Len(q) : a[i] = q[i]  BY <1>1
    <1>3. a[Len(q) + 1] = e /\ a # <<>>  BY <1>1
    <1>4. IsSeq(a)  BY <1>2, SeqIsSeq, Zenon
    <1>5. q # <<>> => Head(a) = Head(q)  BY <1>1
    <1> QED  BY <1>2, <1>3, <1>4, <1>5

LEMMA IsSeqTail ==
    ASSUME NEW q, IsSeq(q), q # <<>>
    PROVE  /\ IsSeq(Tail(q))
           /\ Len(Tail(q)) = Len(q) - 1
           /\ Len(q) \in Nat /\ DOMAIN q = 1 .. Len(q)
           /\ DOMAIN Tail(q) = 1 .. Len(Tail(q))
    <1> DEFINE S == {q[i] : i \in DOMAIN q}
    <1>1. q \in Seq(S)  BY DEF IsSeq
    <1> HIDE DEF S
    <1>2. Tail(q) \in Seq(S) /\ Len(Tail(q)) = Len(q) - 1  BY <1>1
    <1>3. IsSeq(Tail(q))  BY <1>2, SeqIsSeq, Zenon
    <1> QED  BY <1>1, <1>2, <1>3

LEMMA CacheInit == WorkerInit => CacheInv
    <1> SUFFICES ASSUME WorkerInit PROVE CacheInv  OBVIOUS
    <1>1. <<>> \in Seq({})  OBVIOUS
    <1>2. SeqsHold  BY <1>1, SeqIsSeq DEF SeqsHold, WorkerInit
    <1>3. Truthful(cache)  BY DEF Truthful, WorkerInit, EmptyCache
    <1>4. WorkHolds  BY DEF WorkHolds, JobShape, WorkerInit, NoWork, EmptyCache, AtStage
    <1> QED  BY <1>2, <1>3, <1>4 DEF CacheInv

\* What RankingIsExact says of one step.
NewReplyExact ==
    \A i \in DOMAIN replies' \ DOMAIN replies :
        replies'[i].is = "success" => replies'[i].result = Expected(Current)

LEMMA EndsHolds ==
    ASSUME SeqsHold, queue # <<>>, NEW reply, Ends(reply)
    PROVE  /\ SeqsHold' /\ WorkHolds'
           /\ (reply.is = "success" => reply.result = Expected(Current)) => NewReplyExact
    <1>1. IsSeq(queue) /\ IsSeq(replies)  BY DEF SeqsHold
    <1>2. IsSeq(Tail(queue)) /\ IsSeq(Append(replies, reply))  BY <1>1, IsSeqTail, IsSeqAppend
    <1>3. SeqsHold'  BY <1>2 DEF SeqsHold, Ends
    <1>4. WorkHolds'  BY DEF WorkHolds, JobShape, Ends, NoWork, EmptyCache, AtStage
    <1>5. ASSUME reply.is = "success" => reply.result = Expected(Current)
          PROVE  NewReplyExact
        <2>1. replies' = Append(replies, reply)  BY DEF Ends
        <2>2. /\ DOMAIN replies = 1 .. Len(replies) /\ Len(replies) \in Nat
              /\ DOMAIN Append(replies, reply) = 1 .. Len(replies) + 1
              /\ Append(replies, reply)[Len(replies) + 1] = reply
            BY <1>1, IsSeqLength, IsSeqAppend
        <2>3. \A i \in DOMAIN replies' \ DOMAIN replies : replies'[i] = reply  BY <2>1, <2>2
        <2> QED  BY <1>5, <2>3, Zenon DEF NewReplyExact
    <1> QED  BY <1>3, <1>4, <1>5

\* finalize_local_ranking keeps no row where there is none.
LEMMA NoRowsNoRanking ==
    ASSUME NEW scores, DOMAIN scores = {}
    PROVE  DOMAIN Ranked(scores) = {}
    <1>1. {i \in DOMAIN scores : scores[i] >= Threshold} = {}  OBVIOUS
    <1>2. Cardinality({}) = 0  BY FS_EmptySet
    <1>3. TopK \in Nat  BY SemanticRankingAssumption
    <1>4. Min({TopK, 0}) = 0  BY <1>3 DEF Min
    <1> DEFINE n == Min({TopK, Cardinality({i \in DOMAIN scores : scores[i] >= Threshold})})
    <1>5. n = 0  BY <1>1, <1>2, <1>4
    <1>6. DOMAIN Ranked(scores) = 1 .. n  BY DEF Ranked
    <1> QED  BY <1>5, <1>6

LEMMA NothingToRankStep ==
    ASSUME CacheInv, NothingToRank PROVE CacheInv' /\ NewReplyExact
    <1> USE DEF NothingToRank
    <1> DEFINE r      == Current.result
               scores == [i \in DOMAIN r.rows |-> Score(Current.prompt, Document(r, i, Current.title))]
               reply  == Reply("success", Current.id, Subset(r, <<>>))
    <1>1. DOMAIN scores = {}  OBVIOUS
    <1>2. DOMAIN Ranked(scores) = {}  BY <1>1, NoRowsNoRanking
    <1>3. \A list : [k \in DOMAIN Ranked(scores) |-> list[Ranked(scores)[k]]] = Picked(list, <<>>)
        BY <1>2 DEF Picked
    <1>4. Subset(r, <<>>) = Expected(Current)  BY <1>3 DEF Subset, Expected, PickedIdentities
    <1>5. Ends(reply) /\ reply.result = Subset(r, <<>>)  BY DEF Reply
    <1>6. SeqsHold' /\ WorkHolds' /\ NewReplyExact  BY <1>4, <1>5, EndsHolds DEF CacheInv
    <1> QED  BY <1>6 DEF CacheInv, Truthful

\* The entry goes back to the cache with the last batch (embeddings_for).
LEMMA ContinuesHolds ==
    ASSUME CacheInv, NEW next, NEW held, Continues(next, held), UNCHANGED <<queue, replies>>,
           JobShape(next), next.at = "embed", Truthful(next.entry), next.entry.id.title = Current.title,
           Embeds(next), Truthful(held)
    PROVE  CacheInv' /\ NewReplyExact
    <1>1. SeqsHold' /\ NewReplyExact  BY DEF CacheInv, SeqsHold, NewReplyExact
    <1>2. CASE next.missing = {}
        <2>1. /\ work' = [next EXCEPT !.at = "score", !.entry = EmptyCache]
              /\ cache' = next.entry
            BY <1>2 DEF Continues
        <2>2. /\ work'.at = "score" /\ work'.entry = EmptyCache
              /\ work'.vectors = next.vectors /\ work'.missing = next.missing
            BY <2>1 DEF JobShape
        <2>3. JobShape(work')  BY <2>1 DEF JobShape, EmptyCache
        <2>4. Embeds(work)'  BY <2>2 DEF Embeds, Current
        <2>5. WorkHolds'  BY <1>2, <2>2, <2>3, <2>4 DEF WorkHolds, AtStage
        <2> QED  BY <1>1, <2>1, <2>5 DEF CacheInv
    <1>3. CASE next.missing # {}
        <2>1. work' = next /\ cache' = held  BY <1>3 DEF Continues
        <2>2. Embeds(work)'  BY <2>1 DEF Embeds, Current
        <2>3. WorkHolds'  BY <2>1, <2>2 DEF WorkHolds, AtStage, Current
        <2> QED  BY <1>1, <2>1, <2>3 DEF CacheInv
    <1> QED  BY <1>2, <1>3

LEMMA TakeRankingStep ==
    ASSUME CacheInv, TakeRanking PROVE CacheInv' /\ NewReplyExact
    <1> USE DEF TakeRanking
    <1> DEFINE result == Current.result
               chosen == Current.title
               entry  == Entry(result, chosen)
               next   == [at |-> "embed", entry |-> entry, missing |-> Missing(entry, result),
                          vectors |-> [i \in DOMAIN result.rows |->
                              IF Known(entry, result, i) THEN entry.vectors[RowKey(result, i)] ELSE None]]
               held   == IF cache.id = entry.id THEN EmptyCache ELSE cache
    <1>1. Continues(next, held)  BY Zenon
    <1>2. entry.id.title = chosen  BY DEF Entry, DatasetId
    <1>3. Truthful(entry)  BY DEF Entry, DatasetId, Truthful, CacheInv
    <1>4. JobShape(next)  BY DEF JobShape, Entry
    <1>5. Truthful(held)  BY DEF CacheInv, Truthful, EmptyCache
    <1>6. Embeds(next)
        <2>1. ASSUME NEW i \in DOMAIN result.rows, i \notin next.missing
              PROVE  next.vectors[i] = Document(result, i, chosen)
            <3>1. RowKey(result, i) \in DOMAIN entry.vectors  BY <2>1 DEF Missing
            <3>2. next.vectors[i] = entry.vectors[RowKey(result, i)]  BY <3>1 DEF Known
            <3>3. entry.vectors[RowKey(result, i)] = DocumentOf(RowKey(result, i), chosen)
                BY <1>2, <1>3, <3>1 DEF Truthful
            <3> QED  BY <3>2, <3>3, KeyTellsDocument
        <2>2. DOMAIN next.vectors = DOMAIN result.rows  OBVIOUS
        <2>3. next.missing \subseteq DOMAIN result.rows  BY DEF Missing
        <2> QED  BY <2>1, <2>2, <2>3, Zenon DEF Embeds
    <1>7. UNCHANGED <<queue, replies>>  OBVIOUS
    <1>8. next.at = "embed" /\ next.entry = entry  OBVIOUS
    <1> HIDE DEF next, held, entry
    <1> QED  BY <1>1, <1>2, <1>3, <1>4, <1>5, <1>6, <1>7, <1>8, ContinuesHolds

\* The rows that are ranked are a sequence (JobsHold).
RankedIsSeq == queue # <<>> => IsSeq(Current.result.rows)

LEMMA EmbedBatchStep ==
    ASSUME CacheInv, RankedIsSeq, EmbedBatch PROVE CacheInv' /\ NewReplyExact
    <1> USE DEF EmbedBatch
    <1> DEFINE result == Current.result
               chosen == Current.title
               keys   == {RowKey(result, i) : i \in Batch}
               Doc(i) == Document(result, i, chosen)
               IndexOf(k) == Max({i \in Batch : RowKey(result, i) = k})
               vectors == work.entry.vectors
               more   == [k \in DOMAIN vectors \cup keys |-> IF k \in keys THEN Doc(IndexOf(k)) ELSE vectors[k]]
               docs   == [i \in DOMAIN work.vectors |-> IF i \in Batch THEN Doc(i) ELSE work.vectors[i]]
               next   == [at |-> "embed", missing |-> work.missing \ Batch,
                          entry |-> [id |-> work.entry.id, vectors |-> more], vectors |-> docs]
    <1>1. Continues(next, cache)  BY Zenon
    <1>2. /\ JobShape(work) /\ work.at = "embed" /\ Embeds(work)
          /\ Truthful(work.entry) /\ work.entry.id.title = chosen
        BY DEF CacheInv, WorkHolds, AtStage
    <1>3. /\ next.at = "embed" /\ next.vectors = docs /\ next.missing = work.missing \ Batch
          /\ next.entry.id = work.entry.id /\ next.entry.vectors = more
        OBVIOUS
    <1>4. JobShape(next)  BY Zenon DEF JobShape
    <1>6. ASSUME NEW k \in DOMAIN more PROVE more[k] = DocumentOf(k, chosen)
        <2>1. CASE k \in keys
            <3>1. IndexOf(k) \in Batch /\ RowKey(result, IndexOf(k)) = k
                <4>1. PICK S : S = {i \in Batch : RowKey(result, i) = k}  OBVIOUS
                <4>2. S # {} /\ S \subseteq work.missing  BY <2>1, <4>1 DEF Batch
                <4>3. PICK n \in Nat : S \subseteq 1 .. n
                    <5>1. PICK list : list = result.rows  OBVIOUS
                    <5>2. IsSeq(list)  BY <1>2, <5>1 DEF Embeds, RankedIsSeq
                    <5>3. work.missing \subseteq DOMAIN list  BY <1>2, <5>1 DEF Embeds
                    <5> QED  BY <4>2, <5>2, <5>3, IsSeqLength
                <4>4. Max(S) \in S  BY <4>2, <4>3, MaxIsTaken
                <4> QED  BY <4>1, <4>4
            <3>2. more[k] = Doc(IndexOf(k))  BY <2>1
            <3>3. Doc(IndexOf(k)) = DocumentOf(RowKey(result, IndexOf(k)), chosen)  BY KeyTellsDocument
            <3> QED  BY <3>1, <3>2, <3>3
        <2>2. CASE k \notin keys
            <3>1. more[k] = vectors[k] /\ k \in DOMAIN vectors  BY <2>2
            <3> QED  BY <1>2, <3>1 DEF Truthful
        <2> QED  BY <2>1, <2>2
    <1>7. Truthful(next.entry)  BY <1>2, <1>3, <1>6 DEF Truthful
    <1>8. Embeds(next)
        <2>1. DOMAIN docs = DOMAIN result.rows /\ queue # <<>>  BY <1>2 DEF Embeds
        <2>2. next.missing \subseteq DOMAIN docs  BY <1>2, <1>3 DEF Embeds
        <2>3. ASSUME NEW i \in DOMAIN docs, i \notin next.missing
              PROVE  docs[i] = Document(result, i, chosen)
            <3>1. CASE i \in Batch  BY <3>1
            <3>2. CASE i \notin Batch  BY <1>2, <1>3, <2>3, <3>2 DEF Embeds
            <3> QED  BY <3>1, <3>2
        <2> QED  BY <1>3, <2>1, <2>2, <2>3 DEF Embeds
    <1>9. UNCHANGED <<queue, replies>> /\ Truthful(cache)  BY DEF CacheInv
    <1>10. next.entry.id.title = chosen  BY <1>2, <1>3
    <1> HIDE DEF next
    <1> QED  BY <1>1, <1>3, <1>4, <1>7, <1>8, <1>9, <1>10, ContinuesHolds

LEMMA ScoreRowsStep ==
    ASSUME CacheInv, ScoreRows PROVE CacheInv' /\ NewReplyExact
    <1> USE DEF ScoreRows
    <1> DEFINE r      == Current.result
               scores == [i \in DOMAIN work.vectors |-> Score(Current.prompt, work.vectors[i])]
               expect == [i \in DOMAIN r.rows |-> Score(Current.prompt, Document(r, i, Current.title))]
               reply  == Reply("success", Current.id, Subset(r, Ranked(scores)))
    <1>1. Embeds(work) /\ work.missing = {}  BY DEF CacheInv, WorkHolds
    <1>2. scores = expect  BY <1>1 DEF Embeds
    <1>3. Subset(r, Ranked(expect)) = Expected(Current)  BY DEF Subset, Expected, PickedIdentities, Picked
    <1>4. Ends(reply) /\ reply.result = Subset(r, Ranked(scores))  BY DEF Reply
    <1>5. reply.result = Expected(Current)  BY <1>2, <1>3, <1>4
    <1>6. queue # <<>>  BY <1>1 DEF Embeds
    <1>7. SeqsHold' /\ WorkHolds' /\ NewReplyExact  BY <1>4, <1>5, <1>6, EndsHolds DEF CacheInv
    <1> QED  BY <1>7 DEF CacheInv, Truthful

\* A ranking that fails, panics or stops says nothing of its rows.
LEMMA FailsStep ==
    ASSUME CacheInv, queue # <<>>, NEW is, is # "success", Fails(is), Truthful(cache')
    PROVE  CacheInv' /\ NewReplyExact
    <1> DEFINE reply == Reply(is, Current.id, EmptyResult)
    <1>1. Ends(reply) /\ reply.is # "success"  BY DEF Fails, Reply
    <1>2. SeqsHold' /\ WorkHolds' /\ NewReplyExact  BY <1>1, EndsHolds DEF CacheInv
    <1> QED  BY <1>2 DEF CacheInv

LEMMA WorkerStep ==
    ASSUME CacheInv, RankedIsSeq, Worker PROVE CacheInv' /\ NewReplyExact
    <1>1. CASE NothingToRank  BY <1>1, NothingToRankStep
    <1>2. CASE TakeRanking    BY <1>2, TakeRankingStep
    <1>3. CASE EmbedBatch     BY <1>3, EmbedBatchStep
    <1>4. CASE ScoreRows      BY <1>4, ScoreRowsStep
    <1>5. Truthful(cache) /\ Truthful(EmptyCache)  BY DEF CacheInv, Truthful, EmptyCache
    <1>6. CASE CanceledBefore
        BY <1>5, <1>6, FailsStep DEF CanceledBefore
    <1>7. ASSUME AtStage("embed") \/ AtStage("score") PROVE queue # <<>>
        BY <1>7 DEF CacheInv, WorkHolds, Embeds
    <1>8. CASE EncodeFails    BY <1>5, <1>7, <1>8, FailsStep DEF EncodeFails
    <1>9. CASE WorkerPanics   BY <1>5, <1>7, <1>9, FailsStep DEF WorkerPanics
    <1>10. CASE StopRanking
        <2>1. Truthful(cache')  BY <1>5, <1>10 DEF StopRanking, CacheInv, WorkHolds
        <2> QED  BY <1>7, <1>10, <2>1, FailsStep DEF StopRanking
    <1> QED  BY <1>1, <1>2, <1>3, <1>4, <1>6, <1>8, <1>9, <1>10 DEF Worker

LEMMA WorkerUnchanged ==
    ASSUME CacheInv, UNCHANGED <<queue, work, cache, replies>>
    PROVE  CacheInv' /\ NewReplyExact
    <1>1. SeqsHold' /\ NewReplyExact  BY DEF CacheInv, SeqsHold, NewReplyExact
    <1>2. Embeds(work)' <=> Embeds(work)  BY DEF Embeds, Current
    <1>3. WorkHolds'  BY <1>2 DEF CacheInv, WorkHolds, AtStage, Current
    <1> QED  BY <1>1, <1>3 DEF CacheInv

\* A job that is dispatched waits behind the one that runs.
LEMMA DispatchStep ==
    ASSUME CacheInv, DispatchJob PROVE CacheInv' /\ NewReplyExact
    <1> DEFINE job == Job(jobs', op.answer.result, search, title)
    <1>1. queue' = Append(queue, job) /\ UNCHANGED <<work, cache, replies>>  BY DEF DispatchJob
    <1>2. IsSeq(queue')  BY <1>1, IsSeqAppend DEF CacheInv, SeqsHold
    <1>3. SeqsHold' /\ NewReplyExact  BY <1>1, <1>2 DEF CacheInv, SeqsHold, NewReplyExact
    <1>4. queue # <<>> => queue' # <<>> /\ Current' = Current
        BY <1>1, IsSeqAppend DEF CacheInv, SeqsHold, Current
    <1>5. ASSUME Embeds(work) PROVE Embeds(work)' /\ Current' = Current
        BY <1>1, <1>4, <1>5 DEF Embeds
    <1>6. WorkHolds'  BY <1>1, <1>5 DEF CacheInv, WorkHolds, AtStage
    <1> QED  BY <1>1, <1>3, <1>6 DEF CacheInv, Truthful

LEMMA PollStep ==
    ASSUME CacheInv, PollSemantic PROVE CacheInv' /\ NewReplyExact
    <1>1. replies # <<>> /\ replies' = Tail(replies) /\ UNCHANGED <<queue, work, cache>>  BY DEF PollSemantic
    <1>2. /\ IsSeq(Tail(replies)) /\ Len(replies) \in Nat /\ DOMAIN replies = 1 .. Len(replies)
          /\ Len(Tail(replies)) = Len(replies) - 1 /\ DOMAIN Tail(replies) = 1 .. Len(Tail(replies))
        BY <1>1, IsSeqTail DEF CacheInv, SeqsHold
    <1>3. DOMAIN replies' \ DOMAIN replies = {}  BY <1>1, <1>2
    <1>4. SeqsHold' /\ NewReplyExact  BY <1>1, <1>2, <1>3 DEF CacheInv, SeqsHold, NewReplyExact
    <1>5. Embeds(work)' <=> Embeds(work)  BY <1>1 DEF Embeds, Current
    <1>6. WorkHolds'  BY <1>1, <1>5 DEF CacheInv, WorkHolds, AtStage, Current
    <1> QED  BY <1>1, <1>4, <1>6 DEF CacheInv

LEMMA CacheNext ==
    ASSUME CacheInv, RankedIsSeq, [Next]_vars PROVE CacheInv' /\ NewReplyExact
    <1> DEFINE Same == UNCHANGED <<queue, work, cache, replies>>
    <1>1. Same => CacheInv' /\ NewReplyExact  BY WorkerUnchanged
    <1>2. CASE UNCHANGED vars  BY <1>1, <1>2 DEF vars, workerVars
    <1>3. CASE (Engine \/ OtherSession) /\ UNCHANGED workerVars  BY <1>1, <1>3 DEF workerVars
    <1>4. CASE Worker  BY <1>4, WorkerStep
    <1>5. CASE User
        BY <1>1, <1>5 DEF User, RunQueryByUser, TriggerSemanticSearch, RequestCancel, SubmitEdit,
                          SubmitDelete, ChooseTitle, Request, workerVars
    <1>6. CASE Handle
        <2>1. CASE DispatchJob  BY <2>1, DispatchStep
        <2>2. CASE ShowRows \/ ApplyEdit \/ ApplyDelete \/ HydrateRow \/ HandleRefusal
            BY <1>1, <2>2 DEF ShowRows, ApplyEdit, ApplyDelete, HydrateRow, HandleRefusal, OnlyGrid
        <2> QED  BY <1>6, <2>1, <2>2 DEF Handle
    <1>7. CASE PollSemantic  BY <1>7, PollStep
    <1> QED  BY <1>2, <1>3, <1>4, <1>5, <1>6, <1>7 DEF Next

(***************************************************************************)
(* The table.                                                              *)
(***************************************************************************)
TypedRow(r, now) ==
    \E t \in Nat, p \in Places, x \in Nat, cells \in [Column -> Value] : \E v :
        x < now /\ r = Row(t, p, x, cells, v)

TableInv ==
    /\ rel \in Relation
    /\ clock \in Nat
    /\ IsFiniteSet(rows)
    /\ \A r \in rows : TypedRow(r, clock)
    /\ PlacesHold(rows) /\ KeysHold(rows, rel)

\* A row that an earlier transaction wrote has been there before, with the same
\* cells, whether it was moved or not.
OldRowsStay ==
    /\ clock <= clock'
    /\ \A n \in rows' : n.xmin < clock =>
          \E r \in rows : r.xmin = n.xmin /\ r.cells = n.cells /\ r.version = n.version

LEMMA RowIsTyped ==
    ASSUME NEW t \in Nat, NEW p \in Places, NEW x \in Nat, NEW cells \in [Column -> Value], NEW v,
           NEW now, x < now
    PROVE  TypedRow(Row(t, p, x, cells, v), now) /\ Row(t, p, x, cells, v).xmin = x
    <1>1. TypedRow(Row(t, p, x, cells, v), now)  BY Zenon DEF TypedRow
    <1>2. Row(t, p, x, cells, v).xmin = x  BY DEF Row
    <1> QED  BY <1>1, <1>2

LEMMA PairIsFinite ==
    ASSUME NEW a, NEW b PROVE IsFiniteSet({a}) /\ IsFiniteSet({a, b})
    <1>1. IsFiniteSet({a})  BY FS_Singleton
    <1>2. IsFiniteSet({a} \cup {b})  BY <1>1, FS_AddElement
    <1>3. {a} \cup {b} = {a, b}  OBVIOUS
    <1> QED  BY <1>1, <1>2, <1>3

LEMMA TypedRowFields ==
    ASSUME NEW now \in Nat, NEW r, TypedRow(r, now)
    PROVE  /\ r.table \in Nat /\ r.ctid \in Places /\ r.xmin \in Nat /\ r.xmin < now
           /\ r.cells \in [Column -> Value]
           /\ TypedRow(r, now + 1)
    <1>1. PICK t \in Nat, p \in Places, x \in Nat, cells \in [Column -> Value] : \E v :
              x < now /\ r = Row(t, p, x, cells, v)
        BY DEF TypedRow
    <1>2. r.table = t /\ r.ctid = p /\ r.xmin = x /\ r.cells = cells  BY <1>1 DEF Row
    <1>3. TypedRow(r, now + 1)  BY <1>1 DEF TypedRow
    <1> QED  BY <1>1, <1>2, <1>3

LEMMA ImageIsFinite ==
    ASSUME NEW S, IsFiniteSet(S), NEW f, DOMAIN f = S
    PROVE  IsFiniteSet({f[x] : x \in S})
    <1> DEFINE T == {f[x] : x \in S}
               g == [x \in S |-> f[x]]
    <1>1. g \in Surjection(S, T)  BY DEF Surjection
    <1> QED  BY <1>1, FS_Surjection

\* One transaction takes rows away and writes new ones.
LEMMA WriteHolds ==
    ASSUME TableInv, NEW gone, NEW new, IsFiniteSet(new), UNCHANGED rel,
           \A n \in new : TypedRow(n, clock + 1) /\ n.xmin = clock,
           Becomes((rows \ gone) \cup new)
    PROVE  TableInv' /\ OldRowsStay
    <1>1. rows' = (rows \ gone) \cup new /\ clock' = clock + 1  BY DEF Becomes
    <1>2. KeysHold(rows, rel)' /\ PlacesHold(rows)'
        BY <1>1 DEF Becomes, KeysHold, PlacesHold, KeyOf
    <1>3. IsFiniteSet(rows')
        <2>1. IsFiniteSet(rows \ gone)  BY FS_Subset DEF TableInv
        <2> QED  BY <1>1, <2>1, FS_Union
    <1>4. ASSUME NEW n \in rows' PROVE TypedRow(n, clock')
        BY <1>1, TypedRowFields DEF TableInv
    <1>5. OldRowsStay  BY <1>1 DEF OldRowsStay, TableInv
    <1> QED  BY <1>1, <1>2, <1>3, <1>4, <1>5 DEF TableInv

LEMMA RelationFields ==
    ASSUME NEW r \in Relation
    PROVE  r.oid \in Nat /\ r.tables \subseteq Nat /\ r.key \in Seq(Column) /\ r.type \in Nat
    BY DEF Relation

LEMMA OtherWritesHolds ==
    ASSUME TableInv, OtherWrites, UNCHANGED rel PROVE TableInv' /\ OldRowsStay
    <1>0. clock \in Nat /\ rel.tables \subseteq Nat /\ OtherCells \subseteq [Column -> Value]
        BY RelationFields, RowIdentityAssumption DEF TableInv
    <1>1. ASSUME NEW t \in Nat, NEW c \in Places, NEW cells \in OtherCells, NEW v
          PROVE  TypedRow(Row(t, c, clock, cells, v), clock + 1) /\ Row(t, c, clock, cells, v).xmin = clock
        <2>1. PICK x, now : x = clock /\ now = clock + 1  OBVIOUS
        <2>2. x \in Nat /\ x < now /\ cells \in [Column -> Value]  BY <1>0, <2>1
        <2>3. TypedRow(Row(t, c, x, cells, v), now) /\ Row(t, c, x, cells, v).xmin = x  BY <2>2, RowIsTyped
        <2> QED  BY <2>1, <2>3
    <1>2. ASSUME NEW t \in rel.tables, NEW c1 \in Places, NEW c2 \in Places, NEW one \in OtherCells, NEW two \in OtherCells,
                 Becomes(rows \cup {Row(t, c1, clock, one, <<clock, 1>>), Row(t, c2, clock, two, <<clock, 2>>)})
          PROVE  TableInv' /\ OldRowsStay
        <2> DEFINE new == {Row(t, c1, clock, one, <<clock, 1>>), Row(t, c2, clock, two, <<clock, 2>>)}
        <2>1. IsFiniteSet(new)  BY PairIsFinite
        <2>2. \A n \in new : TypedRow(n, clock + 1) /\ n.xmin = clock  BY <1>0, <1>1
        <2>3. Becomes((rows \ {}) \cup new)
            <3>1. (rows \ {}) \cup new = rows \cup new  OBVIOUS
            <3> QED  BY <1>2, <3>1
        <2> HIDE DEF new
        <2> QED  BY <2>1, <2>2, <2>3, WriteHolds
    <1>3. ASSUME NEW r \in rows, NEW c \in Places, NEW new \in OtherCells,
                 Becomes((rows \ {r}) \cup {Row(r.table, c, clock, new, <<clock, 1>>)})
          PROVE  TableInv' /\ OldRowsStay
        <2>1. r.table \in Nat  BY <1>0, TypedRowFields DEF TableInv
        <2> DEFINE written == Row(r.table, c, clock, new, <<clock, 1>>)
        <2>2. TypedRow(written, clock + 1) /\ written.xmin = clock  BY <1>1, <2>1
        <2>3. Becomes((rows \ {r}) \cup {written})  BY <1>3
        <2> HIDE DEF written
        <2> QED  BY <2>2, <2>3, PairIsFinite, WriteHolds
    <1>4. ASSUME NEW r \in rows, Becomes(rows \ {r}) PROVE TableInv' /\ OldRowsStay
        <2>1. (rows \ {r}) \cup {} = rows \ {r}  OBVIOUS
        <2>2. Becomes((rows \ {r}) \cup {})  BY <1>4, <2>1
        <2> QED  BY <2>2, FS_EmptySet, WriteHolds
    <1> QED  BY <1>2, <1>3, <1>4 DEF OtherWrites

\* Places change, and nothing else of a row.
LEMMA VacuumFullHolds ==
    ASSUME TableInv, NEW t, VacuumFull(t), UNCHANGED <<rel, clock>> PROVE TableInv' /\ OldRowsStay
    <1>1. PICK place \in [Places -> Places] : PlacesHold(Moved(t, place)) /\ rows' = Moved(t, place)
        BY DEF VacuumFull
    <1> DEFINE move == [r \in rows |-> IF r.table = t THEN Row(t, place[r.ctid], r.xmin, r.cells, r.version) ELSE r]
    <1>2. rows' = {move[r] : r \in rows}  BY <1>1 DEF Moved
    <1>3. ASSUME NEW r \in rows
          PROVE  /\ TypedRow(move[r], clock)
                 /\ move[r].xmin = r.xmin /\ move[r].cells = r.cells /\ move[r].version = r.version
        <2>1. clock \in Nat /\ TypedRow(r, clock)  BY DEF TableInv
        <2>2. /\ r.table \in Nat /\ r.ctid \in Places /\ r.xmin \in Nat /\ r.xmin < clock
              /\ r.cells \in [Column -> Value]
            BY <2>1, TypedRowFields
        <2>3. place[r.ctid] \in Places  BY <1>1, <2>2
        <2>4. CASE r.table = t
            <3>1. move[r] = Row(t, place[r.ctid], r.xmin, r.cells, r.version)  BY <2>4
            <3> QED  BY <2>2, <2>3, <2>4, <3>1, RowIsTyped DEF Row
        <2>5. CASE r.table # t  BY <2>1, <2>5
        <2> QED  BY <2>4, <2>5
    <1>4. DOMAIN move = rows  OBVIOUS
    <1> HIDE DEF move
    <1>5. IsFiniteSet(rows')  BY <1>2, <1>4, ImageIsFinite DEF TableInv
    <1>6. KeysHold(rows, rel)'
        <2>1. KeysHold(rows, rel)  BY DEF TableInv
        <2>2. \A n \in rows' : \E r \in rows : n = move[r] /\ n.cells = r.cells  BY <1>2, <1>3
        <2> QED  BY <2>1, <2>2 DEF KeysHold
    <1>7. PlacesHold(rows)' /\ \A n \in rows' : TypedRow(n, clock)'  BY <1>1, <1>2, <1>3 DEF PlacesHold
    <1>8. OldRowsStay  BY <1>2, <1>3 DEF OldRowsStay, TableInv
    <1> QED  BY <1>5, <1>6, <1>7, <1>8 DEF TableInv

LEMMA RecreatedHolds ==
    ASSUME TableInv, Recreated, clock' = clock + 1 PROVE TableInv' /\ OldRowsStay
    <1>0. PICK oid \in Nat : oid = rel.oid + 10
        <2> rel.oid + 10 \in Nat  BY RelationFields DEF TableInv
        <2> QED  OBVIOUS
    <1> DEFINE born == [r \in rows |-> Row(oid, r.ctid, clock, r.cells, <<clock, r.version>>)]
    <1>1. clock \in Nat /\ rel \in Relation  BY DEF TableInv
    <1>2. rel' \in Relation /\ rel'.key = rel.key  BY <1>0, <1>1 DEF Recreated, Relation
    <1>3. PlacesHold(rows)'  BY DEF Recreated, PlacesHold
    <1>4. CASE rows' = {}
        BY <1>1, <1>2, <1>3, <1>4, FS_EmptySet DEF TableInv, OldRowsStay, KeysHold
    <1>5. CASE rows' = {Row(oid, r.ctid, clock, r.cells, <<clock, r.version>>) : r \in rows}
        <2>1. rows' = {born[r] : r \in rows}  BY <1>5
        <2>2. ASSUME NEW r \in rows
              PROVE  TypedRow(born[r], clock + 1) /\ born[r].xmin = clock /\ born[r].cells = r.cells
            <3>1. TypedRow(r, clock)  BY DEF TableInv
            <3>2. born[r] = Row(oid, r.ctid, clock, r.cells, <<clock, r.version>>)  OBVIOUS
            <3>3. r.ctid \in Places /\ r.cells \in [Column -> Value] /\ clock < clock + 1  BY <1>1, <3>1, TypedRowFields
            <3>4. born[r].cells = r.cells  BY <3>2 DEF Row
            <3> HIDE DEF born
            <3>5. /\ TypedRow(Row(oid, r.ctid, clock, r.cells, <<clock, r.version>>), clock + 1)
                  /\ Row(oid, r.ctid, clock, r.cells, <<clock, r.version>>).xmin = clock
                BY <1>0, <1>1, <3>3, RowIsTyped
            <3> QED  BY <3>2, <3>4, <3>5
        <2>3. DOMAIN born = rows  OBVIOUS
        <2> HIDE DEF born
        <2>4. IsFiniteSet(rows')  BY <2>1, <2>3, ImageIsFinite DEF TableInv
        <2>5. KeysHold(rows, rel)'
            <3>1. KeysHold(rows, rel)  BY DEF TableInv
            <3>2. \A n \in rows' : \E r \in rows : n = born[r] /\ n.cells = r.cells  BY <2>1, <2>2
            <3> QED  BY <1>2, <3>1, <3>2 DEF KeysHold
        <2>6. \A n \in rows' : TypedRow(n, clock')  BY <2>1, <2>2
        <2>7. OldRowsStay  BY <1>1, <2>1, <2>2 DEF OldRowsStay
        <2> QED  BY <1>1, <1>2, <1>3, <2>4, <2>5, <2>6, <2>7 DEF TableInv
    <1> QED  BY <1>0, <1>4, <1>5 DEF Recreated

LEMMA RelationChangeHolds ==
    ASSUME TableInv, ChangesKey \/ Inherited, UNCHANGED <<rows, clock>> PROVE TableInv' /\ OldRowsStay
    <1>1. rel \in Relation  BY DEF TableInv
    <1>2. rel' \in Relation /\ KeysHold(rows, rel')
        <2>1. CASE ChangesKey
            <3>1. PICK key \in PrimaryKeys, type \in {rel.type, rel.type + 1} :
                      /\ KeysHold(rows, [rel EXCEPT !.key = key])
                      /\ rel' = [rel EXCEPT !.key = key, !.type = type]
                BY <2>1 DEF ChangesKey
            <3>2. key \in Seq(Column) /\ type \in Nat  BY <1>1, RelationFields, RowIdentityAssumption
            <3>3. rel' \in Relation /\ rel'.key = key /\ [rel EXCEPT !.key = key].key = key
                BY <1>1, <3>1, <3>2 DEF Relation
            <3> QED  BY <3>1, <3>3 DEF KeysHold
        <2>2. CASE Inherited
            <3>1. rel.oid + 5 \in Nat  BY <1>1, RelationFields
            <3>2. rel' \in Relation /\ rel'.key = rel.key  BY <1>1, <2>2, <3>1 DEF Inherited, Relation
            <3> QED  BY <3>2 DEF TableInv, KeysHold
        <2> QED  BY <2>1, <2>2
    <1>3. OldRowsStay  BY DEF OldRowsStay, TableInv
    <1> QED  BY <1>2, <1>3 DEF TableInv, PlacesHold

LEMMA OtherSessionHolds ==
    ASSUME TableInv, OtherSession PROVE TableInv' /\ OldRowsStay
    BY OtherWritesHolds, VacuumFullHolds, RelationChangeHolds, RecreatedHolds DEF OtherSession


(***************************************************************************)
(* Results.  What a row of a result says of the table stays true while     *)
(* other sessions write: only the version that was read carries its        *)
(* transaction and, if it was read by the key of the table, its key.       *)
(***************************************************************************)
Matches(r, id) == r.xmin = id.xmin /\ SameKey(r, id)

Follows(id, version, rs, now) ==
    id # NoIdentity /\ version.keyed =>
        /\ id.xmin \in Nat /\ id.xmin < now
        /\ \A r \in rs : Matches(r, id) => r.version = version.of

Shows(id, version, text, null, column, rs) ==
    id # NoIdentity /\ version.keyed /\ ~version.typed =>
        \A r \in rs : Matches(r, id) => text = Display(column, r.cells[column]) /\ null = IsNull(r.cells[column])

LEMMA FollowsStays ==
    ASSUME TableInv, OldRowsStay, clock' \in Nat, NEW id, NEW version, Follows(id, version, rows, clock)
    PROVE  Follows(id, version, rows', clock')
    BY DEF Follows, TableInv, OldRowsStay, Matches, SameKey

LEMMA ShowsStays ==
    ASSUME TableInv, OldRowsStay, NEW id, NEW version, NEW text, NEW null, NEW column,
           Follows(id, version, rows, clock), Shows(id, version, text, null, column, rows)
    PROVE  Shows(id, version, text, null, column, rows')
    BY DEF Follows, Shows, TableInv, OldRowsStay, Matches, SameKey

ResultShape(R) ==
    R \in [columns : {R.columns}, rows : {R.rows}, nulls : {R.nulls}, identities : {R.identities},
           source : {R.source}, table : {R.table}, origin : {R.origin}, sql : {R.sql}, versions : {R.versions}]

\* The sequences of a result that go row by row.
RowSeqs(R) ==
    /\ IsSeq(R.rows) /\ IsSeq(R.nulls) /\ IsSeq(R.identities) /\ IsSeq(R.versions)
    /\ DOMAIN R.nulls = DOMAIN R.rows /\ DOMAIN R.identities = DOMAIN R.rows /\ DOMAIN R.versions = DOMAIN R.rows

RowShaped(R, i) ==
    /\ DOMAIN R.rows[i] = DOMAIN R.columns
    /\ DOMAIN R.nulls[i] = DOMAIN R.columns
    /\ DOMAIN R.source = DOMAIN R.columns
    /\ \A j \in DOMAIN R.columns : R.source[j] # None => R.source[j] \in Column

GoodRow(R, i, rs, now) ==
    R.identities[i] # NoIdentity =>
        /\ RowShaped(R, i)
        /\ Follows(R.identities[i], R.versions[i], rs, now)
        /\ \A j \in DOMAIN R.columns : R.source[j] # None =>
              Shows(R.identities[i], R.versions[i], R.rows[i][j], R.nulls[i][j], R.source[j], rs)

\* What is known of a column that a statement names.
TypedTargets(s) ==
    /\ IsSeq(s.targets)
    /\ \A i \in DOMAIN s.targets : s.targets[i].column \in Column \cup SystemColumns \cup {None}

GoodResult(R, rs, now) ==
    /\ ResultShape(R) /\ RowSeqs(R)
    /\ TypedTargets(R.sql)
    /\ \A i \in DOMAIN R.rows : GoodRow(R, i, rs, now)

LEMMA GoodResultStays ==
    ASSUME TableInv, OldRowsStay, clock' \in Nat, NEW R, GoodResult(R, rows, clock)
    PROVE  GoodResult(R, rows', clock')
    <1>1. ASSUME NEW i \in DOMAIN R.rows PROVE GoodRow(R, i, rows', clock')
        BY FollowsStays, ShowsStays DEF GoodResult, GoodRow
    <1> QED  BY <1>1 DEF GoodResult

\* A plan is made of the statement's own columns (direct_source_column).
LEMMA OwnStatementsAreTyped == TypedTargets(NoStatement) /\ TypedTargets(SelectAll)
    <1>1. NoStatement.targets = <<>>  BY DEF NoStatement
    <1>2. /\ SelectAll.targets = <<[is |-> "star", column |-> None, name |-> None, qualified |-> TRUE]>>
          /\ SelectAll.targets[1].column = None
        BY DEF SelectAll, NoStatement
    <1>3. <<>> \in Seq({}) /\ SelectAll.targets \in Seq({SelectAll.targets[1]})  BY <1>2
    <1>4. IsSeq(NoStatement.targets) /\ IsSeq(SelectAll.targets)  BY <1>1, <1>3, SeqIsSeq
    <1>5. DOMAIN NoStatement.targets = {} /\ DOMAIN SelectAll.targets = {1}  BY <1>1, <1>2
    <1> QED  BY <1>2, <1>4, <1>5 DEF TypedTargets

LEMMA StatementsAreTyped ==
    ASSUME NEW s \in Statements PROVE TypedTargets(s)
    <1>1. s.targets \in Seq(Target)  BY RowsAssumption DEF Statement
    <1>2. IsSeq(s.targets)  BY <1>1, SeqIsSeq
    <1>3. \A i \in DOMAIN s.targets : s.targets[i] \in Target  BY <1>1
    <1>4. \A i \in DOMAIN s.targets : s.targets[i].column \in Column \cup SystemColumns \cup {None}  BY <1>3 DEF Target
    <1> QED  BY <1>2, <1>4 DEF TypedTargets

LEMMA EmptyResultIsGood ==
    ASSUME NEW rs, NEW now PROVE GoodResult(EmptyResult, rs, now)
    <1>1. <<>> \in Seq({})  OBVIOUS
    <1>2. IsSeq(<<>>)  BY <1>1, SeqIsSeq
    <1>3. ResultShape(EmptyResult)  BY DEF ResultShape, EmptyResult
    <1>4. RowSeqs(EmptyResult)  BY <1>2 DEF RowSeqs, EmptyResult
    <1>5. TypedTargets(EmptyResult.sql)  BY OwnStatementsAreTyped DEF EmptyResult
    <1>6. DOMAIN EmptyResult.source = {} /\ DOMAIN EmptyResult.rows = {}  BY DEF EmptyResult
    <1> QED  BY <1>3, <1>4, <1>5, <1>6 DEF GoodResult

\* A result reordered by subset_result.
LEMMA SubsetIsGood ==
    ASSUME NEW R, NEW rs, NEW now, GoodResult(R, rs, now), NEW m \in Nat,
           NEW order, DOMAIN order = 1 .. m, \A k \in 1 .. m : order[k] \in DOMAIN R.rows
    PROVE  GoodResult(Subset(R, order), rs, now)
    <1> DEFINE S == Subset(R, order)
    <1>1. /\ S.columns = R.columns /\ S.source = R.source /\ S.sql = R.sql
          /\ S.rows = Picked(R.rows, order) /\ S.nulls = Picked(R.nulls, order)
          /\ S.identities = Picked(R.identities, order) /\ S.versions = Picked(R.versions, order)
          /\ ResultShape(S)
        BY DEF GoodResult, ResultShape, Subset, PickedIdentities
    <1> HIDE DEF S
    <1>2. ASSUME NEW list
          PROVE  /\ IsSeq(Picked(list, order)) /\ DOMAIN Picked(list, order) = 1 .. m
                 /\ \A k \in 1 .. m : Picked(list, order)[k] = list[order[k]]
        <2>1. Picked(list, order) = [k \in 1 .. m |-> list[order[k]]]  BY DEF Picked
        <2>2. Picked(list, order) \in Seq({list[order[k]] : k \in 1 .. m})  BY <2>1
        <2> QED  BY <2>1, <2>2, SeqIsSeq
    <1>3. RowSeqs(S)  BY <1>1, <1>2 DEF RowSeqs
    <1>4. ASSUME NEW k \in 1 .. m PROVE GoodRow(S, k, rs, now)
        <2>1. GoodRow(R, order[k], rs, now)  BY DEF GoodResult
        <2>2. /\ S.rows[k] = R.rows[order[k]] /\ S.nulls[k] = R.nulls[order[k]]
              /\ S.identities[k] = R.identities[order[k]] /\ S.versions[k] = R.versions[order[k]]
            BY <1>1, <1>2
        <2> QED  BY <1>1, <2>1, <2>2 DEF GoodRow, RowShaped
    <1>5. DOMAIN S.rows = 1 .. m  BY <1>1, <1>2
    <1>6. GoodResult(S, rs, now)  BY <1>1, <1>3, <1>4, <1>5 DEF GoodResult
    <1> QED  BY <1>6 DEF S

\* A result without one of its rows (remove_row).
LEMMA RemoveAtShifts ==
    ASSUME NEW q, IsSeq(q), NEW i \in DOMAIN q
    PROVE  LET q2 == RemoveAt(q, i)
           IN  /\ IsSeq(q2) /\ DOMAIN q2 = 1 .. Len(q) - 1
               /\ \A k \in 1 .. Len(q) - 1 : q2[k] = q[IF k < i THEN k ELSE k + 1]
    <1> DEFINE E == {q[k] : k \in DOMAIN q}
    <1>1. q \in Seq(E)  BY DEF IsSeq
    <1>2. Len(q) \in Nat /\ DOMAIN q = 1 .. Len(q) /\ i \in 1 .. Len(q)  BY IsSeqLength
    <1> HIDE DEF E
    <1> DEFINE a == SubSeq(q, 1, i - 1)
               b == SubSeq(q, i + 1, Len(q))
    <1>3. a \in Seq(E) /\ Len(a) = i - 1 /\ \A k \in 1 .. i - 1 : a[k] = q[k]
        BY <1>1, <1>2
    <1>4. b \in Seq(E) /\ Len(b) = Len(q) - i /\ \A k \in 1 .. Len(q) - i : b[k] = q[i + k]
        BY <1>1, <1>2
    <1>5. RemoveAt(q, i) = a \o b  BY DEF RemoveAt
    <1> HIDE DEF a, b
    <1>6. /\ a \o b \in Seq(E) /\ Len(a \o b) = Len(q) - 1
          /\ \A k \in 1 .. Len(q) - 1 : (a \o b)[k] = IF k <= i - 1 THEN a[k] ELSE b[k - (i - 1)]
        <2>1. Len(a) + Len(b) = Len(q) - 1  BY <1>2, <1>3, <1>4
        <2>2. /\ a \o b \in Seq(E) /\ Len(a \o b) = Len(a) + Len(b)
              /\ \A k \in 1 .. Len(a) + Len(b) : (a \o b)[k] = IF k <= Len(a) THEN a[k] ELSE b[k - Len(a)]
            BY <1>3, <1>4, ConcatProperties
        <2> QED  BY <1>3, <2>1, <2>2
    <1>7. \A k \in 1 .. Len(q) - 1 : (a \o b)[k] = q[IF k < i THEN k ELSE k + 1]
        <2> TAKE k \in 1 .. Len(q) - 1
        <2>1. CASE k < i
            <3>1. k <= i - 1 /\ k \in 1 .. i - 1  BY <1>2, <2>1
            <3> QED  BY <1>3, <1>6, <2>1, <3>1
        <2>2. CASE ~ k < i
            <3>1. ~ k <= i - 1 /\ k - (i - 1) \in 1 .. Len(q) - i /\ i + (k - (i - 1)) = k + 1  BY <1>2, <2>2
            <3> QED  BY <1>4, <1>6, <2>2, <3>1
        <2> QED  BY <2>1, <2>2
    <1>8. IsSeq(a \o b) /\ DOMAIN (a \o b) = 1 .. Len(q) - 1  BY <1>6, SeqIsSeq, IsSeqLength
    <1> QED  BY <1>5, <1>7, <1>8

(***************************************************************************)
(* What the engine answers: every row in the order of its place, its cells *)
(* and then the hidden columns of its identity.                            *)
(***************************************************************************)
LEMMA InOrderReads ==
    ASSUME TableInv
    PROVE  /\ Cardinality(rows) \in Nat
           /\ DOMAIN InOrder(rows) = 1 .. Cardinality(rows)
           /\ \A k \in 1 .. Cardinality(rows) : InOrder(rows)[k] \in rows
    <1> DEFINE lower == [r \in rows |-> {q \in rows : Before(q, r)}]
    <1>1. IsFiniteSet(rows) /\ PlacesHold(rows)  BY DEF TableInv
    <1>2. \A r \in rows : r.table \in Nat /\ r.ctid \in Nat
        BY TypedRowFields DEF TableInv, Places
    <1>3. lower \in [rows -> SUBSET rows]  OBVIOUS
    <1>4. \A r \in rows : r \notin lower[r]  BY <1>2 DEF Before
    <1>5. \A q, r \in rows : q # r => q \in lower[r] \/ r \in lower[q]  BY <1>1, <1>2 DEF Before, PlacesHold
    <1>6. \A q, r \in rows : q \in lower[r] => lower[q] \subseteq lower[r]  BY <1>2 DEF Before
    <1>7. \A r \in rows : lower[r] = {q \in rows : Before(q, r)}  OBVIOUS
    <1> HIDE DEF lower
    <1>8. \A k \in 1 .. Cardinality(rows) : \E r \in rows : k = 1 + Cardinality(lower[r])
        BY <1>1, <1>3, <1>4, <1>5, <1>6, RanksAreTaken
    <1>9. ASSUME NEW k \in 1 .. Cardinality(rows) PROVE InOrder(rows)[k] \in rows
        <2>1. \E r \in rows : k = 1 + Cardinality({q \in rows : Before(q, r)})  BY <1>7, <1>8
        <2> QED  BY <2>1 DEF InOrder
    <1>10. Cardinality(rows) \in Nat  BY <1>1, FS_CardinalityType
    <1> QED  BY <1>9, <1>10 DEF InOrder

\* A ranking picks rows of the result (finalize_local_ranking).
LEMMA RankedPicks ==
    ASSUME NEW scores, NEW n \in Nat, DOMAIN scores = 1 .. n
    PROVE  \E m \in Nat : /\ DOMAIN Ranked(scores) = 1 .. m
                          /\ \A k \in 1 .. m : Ranked(scores)[k] \in DOMAIN scores
    <1> DEFINE kept  == {i \in DOMAIN scores : scores[i] \in Nat /\ scores[i] >= Threshold}
               lower == [i \in kept |-> {j \in kept : Better(scores, j, i)}]
               c     == Cardinality(kept)
               m     == Min({TopK, c})
    <1>1. IsFiniteSet(kept) /\ c \in Nat
        <2>1. kept \subseteq 1 .. n  OBVIOUS
        <2>2. IsFiniteSet(1 .. n)  BY FS_Interval
        <2> QED  BY <2>1, <2>2, FS_Subset, FS_CardinalityType
    <1>2. \A i \in kept : i \in Nat /\ scores[i] \in Nat /\ i \in DOMAIN scores  OBVIOUS
    <1>3. m \in Nat /\ m <= c
        <2> HIDE DEF c
        <2>1. TopK \in Nat  BY SemanticRankingAssumption
        <2>2. \E x \in {TopK, c} : \A y \in {TopK, c} : x <= y  BY <1>1, <2>1
        <2>3. m \in {TopK, c} /\ \A y \in {TopK, c} : m <= y  BY <2>2, Zenon DEF Min
        <2> QED  BY <1>1, <2>1, <2>3
    <1>4. /\ DOMAIN Ranked(scores) = 1 .. m
          /\ \A k \in 1 .. m : Ranked(scores)[k] = CHOOSE i \in kept : k = 1 + Cardinality({j \in kept : Better(scores, j, i)})
        BY DEF Ranked
    <1> HIDE DEF kept, m
    <1>5. lower \in [kept -> SUBSET kept]  OBVIOUS
    <1>6. \A i \in kept : lower[i] = {j \in kept : Better(scores, j, i)}  OBVIOUS
    <1>7. \A i \in kept : i \notin lower[i]  BY <1>2 DEF Better
    <1>8. \A i, j \in kept : i # j => i \in lower[j] \/ j \in lower[i]  BY <1>2 DEF Better
    <1>9. \A i, j \in kept : i \in lower[j] => lower[i] \subseteq lower[j]  BY <1>2 DEF Better
    <1> HIDE DEF lower
    <1>10. \A k \in 1 .. c : \E i \in kept : k = 1 + Cardinality(lower[i])
        BY <1>1, <1>5, <1>7, <1>8, <1>9, RanksAreTaken
    <1>11. ASSUME NEW k \in 1 .. m PROVE Ranked(scores)[k] \in DOMAIN scores
        <2>1. k \in 1 .. c  BY <1>1, <1>3
        <2>2. \E i \in kept : k = 1 + Cardinality({j \in kept : Better(scores, j, i)})  BY <1>6, <1>10, <2>1
        <2>3. Ranked(scores)[k] \in kept  BY <1>4, <2>2
        <2> QED  BY <1>2, <2>3
    <1> QED  BY <1>3, <1>4, <1>11

\* A row and the key it was read by: nobody else has them while the key is the table's.
LEMMA RowThatWasRead ==
    ASSUME TableInv, NEW r \in rows, NEW key, key # <<>>, NEW id, id.xmin = r.xmin, id.key = key,
           id.values = KeyOf(r.cells, key)
    PROVE  /\ Follows(id, Read(r, key), rows, clock)
           /\ \A c : Shows(id, Read(r, key), Display(c, r.cells[c]), IsNull(r.cells[c]), c, rows)
    <1>1. TypedRow(r, clock) /\ KeysHold(rows, rel)  BY DEF TableInv
    <1>2. r.xmin \in Nat /\ r.xmin < clock  BY <1>1, TypedRowFields DEF TableInv
    <1>3. /\ Read(r, key).keyed <=> rel.key = key
          /\ Read(r, key).of = r.version
        BY DEF Read
    <1>4. ASSUME rel.key = key, NEW q \in rows, Matches(q, id) PROVE q = r
        <2>1. KeyOf(q.cells, key) = KeyOf(r.cells, key)  BY <1>4 DEF Matches, SameKey
        <2> QED  BY <1>1, <1>4, <2>1 DEF KeysHold
    <1>5. Follows(id, Read(r, key), rows, clock)  BY <1>2, <1>3, <1>4 DEF Follows
    <1>6. \A c : Shows(id, Read(r, key), Display(c, r.cells[c]), IsNull(r.cells[c]), c, rows)
        BY <1>3, <1>4 DEF Shows
    <1> QED  BY <1>5, <1>6

LEMMA IsSeqConcat ==
    ASSUME NEW a, NEW b, IsSeq(a), IsSeq(b)
    PROVE  /\ IsSeq(a \o b) /\ Len(a \o b) = Len(a) + Len(b)
           /\ DOMAIN (a \o b) = 1 .. Len(a) + Len(b)
           /\ \A i \in 1 .. Len(a) : (a \o b)[i] = a[i]
           /\ \A i \in 1 .. Len(b) : (a \o b)[Len(a) + i] = b[i]
    <1> DEFINE E == {a[i] : i \in DOMAIN a} \cup {b[i] : i \in DOMAIN b}
    <1>1. a \in Seq(E) /\ b \in Seq(E)  BY DEF IsSeq
    <1> HIDE DEF E
    <1>2. /\ a \o b \in Seq(E) /\ Len(a \o b) = Len(a) + Len(b)
          /\ \A i \in 1 .. Len(a) + Len(b) : (a \o b)[i] = IF i <= Len(a) THEN a[i] ELSE b[i - Len(a)]
        BY <1>1, ConcatProperties
    <1>3. Len(a) \in Nat /\ Len(b) \in Nat  BY <1>1
    <1>4. \A i \in 1 .. Len(b) : (a \o b)[Len(a) + i] = b[i]
        <2> TAKE i \in 1 .. Len(b)
        <2>1. Len(a) + i \in 1 .. Len(a) + Len(b) /\ ~ Len(a) + i <= Len(a) /\ (Len(a) + i) - Len(a) = i  BY <1>3
        <2> QED  BY <1>2, <2>1
    <1>5. IsSeq(a \o b)  BY <1>2, SeqIsSeq, Zenon
    <1>6. DOMAIN (a \o b) = 1 .. Len(a) + Len(b)  BY <1>2
    <1> QED  BY <1>2, <1>3, <1>4, <1>5, <1>6

LEMMA FunctionIsSeq ==
    ASSUME NEW q, NEW n \in Nat, q = [i \in 1 .. n |-> q[i]]
    PROVE  IsSeq(q) /\ Len(q) = n /\ DOMAIN q = 1 .. n
    <1> DEFINE S == {q[i] : i \in 1 .. n}
    <1>1. q \in Seq(S)  OBVIOUS
    <1> QED  BY <1>1, SeqIsSeq

\* identity_projection: table, place, transaction, then the columns of the key.
LEMMA HiddenCellsAre ==
    ASSUME NEW r, NEW key, IsSeq(key)
    PROVE  /\ IsSeq(HiddenCells(r, key)) /\ Len(HiddenCells(r, key)) = 3 + Len(key)
           /\ HiddenCells(r, key)[1] = r.table /\ HiddenCells(r, key)[2] = r.ctid /\ HiddenCells(r, key)[3] = r.xmin
           /\ \A i \in 1 .. Len(key) : HiddenCells(r, key)[3 + i] = r.cells[key[i]]
    <1> DEFINE a == <<r.table, r.ctid, r.xmin>>
               b == [i \in DOMAIN key |-> r.cells[key[i]]]
    <1>1. Len(key) \in Nat /\ DOMAIN key = 1 .. Len(key)  BY IsSeqLength
    <1>2. IsSeq(b) /\ Len(b) = Len(key) /\ \A i \in 1 .. Len(key) : b[i] = r.cells[key[i]]  BY <1>1, FunctionIsSeq
    <1>3. a \in Seq({r.table, r.ctid, r.xmin}) /\ Len(a) = 3 /\ a[1] = r.table /\ a[2] = r.ctid /\ a[3] = r.xmin  OBVIOUS
    <1>4. HiddenCells(r, key) = a \o b  BY DEF HiddenCells
    <1> HIDE DEF a, b
    <1>5. IsSeq(a)  BY <1>3, SeqIsSeq
    <1>6. /\ IsSeq(a \o b) /\ Len(a \o b) = 3 + Len(key)
          /\ \A i \in 1 .. 3 : (a \o b)[i] = a[i]
          /\ \A i \in 1 .. Len(key) : (a \o b)[3 + i] = b[i]
        <2>1. /\ IsSeq(a \o b) /\ Len(a \o b) = Len(a) + Len(b)
              /\ \A i \in 1 .. Len(a) : (a \o b)[i] = a[i]
              /\ \A i \in 1 .. Len(b) : (a \o b)[Len(a) + i] = b[i]
            BY <1>2, <1>5, IsSeqConcat
        <2> QED  BY <1>2, <1>3, <2>1
    <1>7. (a \o b)[1] = r.table /\ (a \o b)[2] = r.ctid /\ (a \o b)[3] = r.xmin  BY <1>3, <1>6
    <1> QED  BY <1>2, <1>4, <1>6, <1>7

\* A row on the wire: what is shown of it, then the hidden columns.
Wire(cells, r, key) == cells \o HiddenCells(r, key)

\* A plan to identify rows by this key.
HasKey(plan, key) == plan # NoPlan /\ plan.key = key /\ IsSeq(key) /\ key # <<>>

\* decode_row_identity reads what the hidden columns of the row said.
LEMMA DecodedIdentity ==
    ASSUME NEW cells, IsSeq(cells), NEW r, NEW plan, NEW key, HasKey(plan, key),
           NEW wire, wire = Wire(cells, r, key),
           NEW type, NEW id, id = DecodeIdentity(wire, plan, Len(cells), type)
    PROVE  id.xmin = r.xmin /\ id.key = key /\ id.values = KeyOf(r.cells, key)
    <1> DEFINE h == HiddenCells(r, key)
               w == cells \o h
               n == Len(cells)
    <1>0. plan # NoPlan /\ plan.key = key /\ IsSeq(key)  BY DEF HasKey
    <1>1. /\ IsSeq(h) /\ Len(h) = 3 + Len(key) /\ h[3] = r.xmin
          /\ \A i \in 1 .. Len(key) : h[3 + i] = r.cells[key[i]]
        BY <1>0, HiddenCellsAre
    <1>2. n \in Nat /\ Len(key) \in Nat /\ DOMAIN key = 1 .. Len(key)  BY <1>0, IsSeqLength
    <1> HIDE DEF h
    <1>3. \A i \in 1 .. Len(h) : w[n + i] = h[i]  BY <1>1, IsSeqConcat
    <1> HIDE DEF w
    <1>4. w[n + 3] = r.xmin  BY <1>1, <1>2, <1>3
    <1>5. \A i \in 1 .. Len(key) : w[n + 3 + i] = r.cells[key[i]]
        <2> TAKE i \in 1 .. Len(key)
        <2>1. 3 + i \in 1 .. Len(h) /\ n + (3 + i) = n + 3 + i  BY <1>1, <1>2
        <2> QED  BY <1>1, <1>3, <2>1
    <1>6. KeyOf(r.cells, key) = [i \in DOMAIN key |-> w[n + 3 + i]]  BY <1>2, <1>5 DEF KeyOf
    <1>7. DecodeIdentity(w, plan, n, type) =
             [oid |-> plan.oid, table |-> w[n + 1], ctid |-> w[n + 2], xmin |-> w[n + 3],
              key |-> key, type |-> type, values |-> [i \in DOMAIN key |-> w[n + 3 + i]]]
        BY <1>0 DEF DecodeIdentity
    <1>8. id = DecodeIdentity(w, plan, n, type)  BY DEF h, w, Wire
    <1> QED  BY <1>4, <1>6, <1>7, <1>8

LEMMA HiddenNamesAre ==
    ASSUME NEW plan, NEW key, HasKey(plan, key)
    PROVE  IsSeq(HiddenNames(plan)) /\ Len(HiddenNames(plan)) = 3 + Len(key)
    <1> DEFINE a == <<"oid", "ctid", "xmin">>
    <1>1. a \in Seq({"oid", "ctid", "xmin"}) /\ Len(a) = 3  OBVIOUS
    <1>2. IsSeq(a) /\ IsSeq(key)  BY <1>1, SeqIsSeq DEF HasKey
    <1>3. HiddenNames(plan) = a \o key  BY DEF HiddenNames, HasKey
    <1> HIDE DEF a
    <1>4. IsSeq(a \o key) /\ Len(a \o key) = Len(a) + Len(key)  BY <1>2, IsSeqConcat
    <1> QED  BY <1>1, <1>3, <1>4

\* The hidden columns are cut off again (rows_to_result).
LEMMA ShownNames ==
    ASSUME NEW names, NEW hidden, IsSeq(names), IsSeq(hidden)
    PROVE  SubSeq(names \o hidden, 1, Len(names)) = names /\ IsSeq(names \o hidden)
           /\ Len(names \o hidden) = Len(names) + Len(hidden)
    <1> DEFINE E == {names[i] : i \in DOMAIN names} \cup {hidden[i] : i \in DOMAIN hidden}
    <1>1. names \in Seq(E) /\ hidden \in Seq(E)  BY DEF IsSeq
    <1> HIDE DEF E
    <1>2. /\ IsSeq(names \o hidden) /\ Len(names \o hidden) = Len(names) + Len(hidden)
          /\ \A i \in 1 .. Len(names) : (names \o hidden)[i] = names[i]
        BY IsSeqConcat
    <1>3. names \o hidden \in Seq(E) /\ Len(names) \in Nat /\ Len(hidden) \in Nat  BY <1>1
    <1> DEFINE cut == SubSeq(names \o hidden, 1, Len(names))
    <1>4. cut = [i \in 1 .. Len(names) |-> (names \o hidden)[i]]
        <2>1. PICK q \in Seq(E) : q = names \o hidden  BY <1>3
        <2>2. Len(q) = Len(names) + Len(hidden)  BY <1>2, <2>1
        <2>3. SubSeq(q, 1, Len(names)) = [i \in 1 .. Len(names) |-> q[i]]  BY <1>3, <2>2
        <2> QED  BY <2>1, <2>3
    <1>5. cut = [i \in 1 .. Len(names) |-> names[i]]  BY <1>2, <1>4
    <1>6. names = [i \in 1 .. Len(names) |-> names[i]]  BY <1>1
    <1> QED  BY <1>2, <1>5, <1>6

\* What a query is answered with: n rows of the table, each with the cells that
\* are shown of it and its hidden columns, and the names of all these columns.
ReadsOf(read, n, key) == [i \in 1 .. n |-> Read(read[i], key)]

Answering(key, names, columns, n, read, cells, wires) ==
    /\ IsSeq(names)
    /\ SubSeq(columns, 1, Len(names)) = names /\ Len(columns) = Len(names) + (3 + Len(key))
    /\ n \in Nat /\ DOMAIN wires = 1 .. n
    /\ \A i \in 1 .. n :
          /\ read[i] \in rows
          /\ IsSeq(cells[i]) /\ Len(cells[i]) = Len(names)
          /\ wires[i] = Wire(cells[i], read[i], key)

LEMMA ShownRows ==
    ASSUME TableInv, NEW plan, NEW key, HasKey(plan, key),
           NEW names, NEW columns, NEW n, NEW read, NEW cells, NEW wires,
           Answering(key, names, columns, n, read, cells, wires),
           NEW types, NEW type, NEW R, R = RowsToResult(columns, types, wires, ReadsOf(read, n, key), plan, type)
    PROVE  /\ ResultShape(R) /\ RowSeqs(R) /\ R.sql = NoStatement
           /\ R.columns = names /\ DOMAIN R.rows = 1 .. n
           /\ \A i \in 1 .. n :
                 /\ DOMAIN R.rows[i] = DOMAIN names /\ DOMAIN R.nulls[i] = DOMAIN names
                 /\ Follows(R.identities[i], R.versions[i], rows, clock)
                 /\ \A j \in DOMAIN names, c \in Column :
                       cells[i][j] = read[i].cells[c] /\ types[j] = c =>
                           Shows(R.identities[i], R.versions[i], R.rows[i][j], R.nulls[i][j], c, rows)
    <1> DEFINE width == IF plan = NoPlan THEN Len(columns) ELSE Len(columns) - (3 + Len(plan.key))
    <1> DEFINE reads == ReadsOf(read, n, key)
    <1>1. n \in Nat /\ IsSeq(names) /\ DOMAIN wires = 1 .. n  BY DEF Answering
    <1>3. SubSeq(columns, 1, width) = names /\ width = Len(names)
        <2>1. IsSeq(key) /\ plan # NoPlan /\ plan.key = key  BY DEF HasKey
        <2>2. Len(key) \in Nat /\ Len(names) \in Nat  BY <1>1, <2>1, IsSeqLength
        <2> QED  BY <2>1, <2>2 DEF Answering
    <1>4. R = [EmptyResult EXCEPT
                 !.columns = SubSeq(columns, 1, width),
                 !.rows = [i \in 1 .. n |-> [j \in 1 .. width |-> Display(types[j], wires[i][j])]],
                 !.nulls = [i \in 1 .. n |-> [j \in 1 .. width |-> IsNull(wires[i][j])]],
                 !.identities = [i \in 1 .. n |-> DecodeIdentity(wires[i], plan, width, type)],
                 !.source = [j \in 1 .. width |-> None],
                 !.versions = reads]
        BY <1>1 DEF RowsToResult
    <1> HIDE DEF width, reads
    <1>10. width \in Nat /\ DOMAIN names = 1 .. width  BY <1>1, <1>3, IsSeqLength
    <1>5. /\ ResultShape(R) /\ R.sql = NoStatement /\ R.columns = names
          /\ R.rows = [i \in 1 .. n |-> [j \in 1 .. width |-> Display(types[j], wires[i][j])]]
          /\ R.nulls = [i \in 1 .. n |-> [j \in 1 .. width |-> IsNull(wires[i][j])]]
          /\ R.identities = [i \in 1 .. n |-> DecodeIdentity(wires[i], plan, width, type)]
          /\ R.versions = reads
        BY <1>3, <1>4 DEF ResultShape, EmptyResult
    <1>6. RowSeqs(R)
        <2>1. IsSeq(R.rows) /\ IsSeq(R.nulls) /\ IsSeq(R.identities)  BY <1>1, <1>5, FunctionIsSeq
        <2>2. IsSeq(R.versions) /\ DOMAIN R.versions = 1 .. n
            <3>1. reads = [i \in 1 .. n |-> reads[i]]  BY DEF reads, ReadsOf
            <3> QED  BY <1>1, <1>5, <3>1, FunctionIsSeq
        <2> QED  BY <1>5, <2>1, <2>2 DEF RowSeqs
    <1>7. ASSUME NEW i \in 1 .. n
          PROVE  /\ DOMAIN R.rows[i] = DOMAIN names /\ DOMAIN R.nulls[i] = DOMAIN names
                 /\ Follows(R.identities[i], R.versions[i], rows, clock)
                 /\ \A j \in DOMAIN names, c \in Column :
                       cells[i][j] = read[i].cells[c] /\ types[j] = c =>
                           Shows(R.identities[i], R.versions[i], R.rows[i][j], R.nulls[i][j], c, rows)
        <2>1. /\ read[i] \in rows /\ IsSeq(cells[i]) /\ Len(cells[i]) = width
              /\ wires[i] = Wire(cells[i], read[i], key)
              /\ R.versions[i] = Read(read[i], key)
              /\ R.identities[i] = DecodeIdentity(wires[i], plan, width, type)
            BY <1>3, <1>5 DEF reads, ReadsOf, Answering
        <2>2. PICK mine : mine = cells[i]  OBVIOUS
        <2>3. IsSeq(mine) /\ Len(mine) = width /\ wires[i] = Wire(mine, read[i], key)  BY <2>1, <2>2
        <2>4. /\ R.identities[i].xmin = read[i].xmin /\ R.identities[i].key = key
              /\ R.identities[i].values = KeyOf(read[i].cells, key)
            <3>1. PICK id, r, wire : id = R.identities[i] /\ r = read[i] /\ wire = wires[i]  OBVIOUS
            <3>2. id = DecodeIdentity(wire, plan, Len(mine), type) /\ wire = Wire(mine, r, key)  BY <2>1, <2>3, <3>1
            <3>3. IsSeq(mine)  BY <2>3
            <3>4. id.xmin = r.xmin /\ id.key = key /\ id.values = KeyOf(r.cells, key)
                BY <3>2, <3>3, DecodedIdentity
            <3> QED  BY <3>1, <3>4
        <2>5. /\ Follows(R.identities[i], R.versions[i], rows, clock)
              /\ \A c : Shows(R.identities[i], R.versions[i], Display(c, read[i].cells[c]), IsNull(read[i].cells[c]), c, rows)
            BY <2>1, <2>4, RowThatWasRead DEF HasKey
        <2>6. \A j \in 1 .. width : wires[i][j] = mine[j]
            <3>1. IsSeq(key)  BY DEF HasKey
            <3>2. IsSeq(HiddenCells(read[i], key))  BY <3>1, HiddenCellsAre
            <3>3. \A j \in 1 .. Len(mine) : (mine \o HiddenCells(read[i], key))[j] = mine[j]  BY <2>3, <3>2, IsSeqConcat
            <3> QED  BY <2>3, <3>1, <3>3 DEF Wire
        <2>7. \A j \in 1 .. width : R.rows[i][j] = Display(types[j], mine[j]) /\ R.nulls[i][j] = IsNull(mine[j])
            <3>1. /\ R.rows[i] = [j \in 1 .. width |-> Display(types[j], wires[i][j])]
                  /\ R.nulls[i] = [j \in 1 .. width |-> IsNull(wires[i][j])]
                BY <1>5
            <3>2. \A j \in 1 .. width : R.rows[i][j] = Display(types[j], wires[i][j]) /\ R.nulls[i][j] = IsNull(wires[i][j])
                BY <3>1
            <3> QED  BY <2>6, <3>2
        <2>8. DOMAIN R.rows[i] = 1 .. width /\ DOMAIN R.nulls[i] = 1 .. width  BY <1>5
        <2>9. ASSUME NEW j \in DOMAIN names, NEW c \in Column, cells[i][j] = read[i].cells[c], types[j] = c
              PROVE  Shows(R.identities[i], R.versions[i], R.rows[i][j], R.nulls[i][j], c, rows)
            <3>1. j \in 1 .. width /\ mine[j] = read[i].cells[c]  BY <1>10, <2>2, <2>9
            <3>2. R.rows[i][j] = Display(c, read[i].cells[c]) /\ R.nulls[i][j] = IsNull(read[i].cells[c])  BY <2>7, <2>9, <3>1
            <3> QED  BY <2>5, <3>2
        <2> QED  BY <1>10, <2>5, <2>8, <2>9
    <1>8. DOMAIN R.rows = 1 .. n  BY <1>5
    <1> QED  BY <1>5, <1>6, <1>7, <1>8

\* A statement with "*" shows the columns of the table in their order.
LEMMA StarShowsColumns ==
    ASSUME NEW s, NEW t, s.targets = <<t>>, t.is = "star"
    PROVE  /\ ResultColumns(s) = Columns /\ ResultTypes(s) = Columns
           /\ \A r : ResultCells(s, r) = [i \in DOMAIN Columns |-> r.cells[Columns[i]]]
    <1>1. DOMAIN s.targets = {1} /\ s.targets[1] = t  OBVIOUS
    <1>2. ASSUME NEW r PROVE ResultCells(s, r) = [i \in DOMAIN Columns |-> r.cells[Columns[i]]]
        <2> DEFINE cells == [i \in DOMAIN Columns |-> r.cells[Columns[i]]]
        <2>1. Answered(t, r) = cells  BY DEF Answered
        <2> HIDE DEF cells
        <2>2. [i \in DOMAIN s.targets |-> Answered(s.targets[i], r)] = <<cells>>  BY <1>1, <2>1
        <2>3. FlattenSeq(<<cells>>) = cells  BY FlattenOne
        <2> QED  BY <2>2, <2>3 DEF ResultCells, cells
    <1>3. ResultColumns(s) = Columns
        <2>1. Titles(t) = Columns  BY DEF Titles
        <2>2. [i \in DOMAIN s.targets |-> Titles(s.targets[i])] = <<Columns>>  BY <1>1, <2>1
        <2> QED  BY <2>2, FlattenOne DEF ResultColumns
    <1>4. ResultTypes(s) = Columns
        <2>1. TypesOf(t) = Columns  BY DEF TypesOf
        <2>2. [i \in DOMAIN s.targets |-> TypesOf(s.targets[i])] = <<Columns>>  BY <1>1, <2>1
        <2> QED  BY <2>2, FlattenOne DEF ResultTypes
    <1> QED  BY <1>2, <1>3, <1>4

\* A statement with columns of the table shows these, under its own names.
NamedCells(s, r) ==
    [i \in DOMAIN s.targets |-> IF s.targets[i].column \in Column THEN r.cells[s.targets[i].column]
                                                                   ELSE CHOOSE x \in Texts : TRUE]

LEMMA NamedShowsSources ==
    ASSUME NEW s, TypedTargets(s), s.targets # <<>>, \A i \in DOMAIN s.targets : DirectSource(s.targets[i])
    PROVE  /\ ResultColumns(s) = [i \in DOMAIN s.targets |-> s.targets[i].name]
           /\ ResultTypes(s) = [i \in DOMAIN s.targets |-> s.targets[i].column]
           /\ \A r : ResultCells(s, r) = NamedCells(s, r)
    <1>1. PICK n \in Nat : DOMAIN s.targets = 1 .. n /\ n # 0
        <2>1. PICK targets : targets = s.targets  OBVIOUS
        <2>2. IsSeq(targets) /\ targets # <<>>  BY <2>1 DEF TypedTargets
        <2>3. targets \in Seq({targets[i] : i \in DOMAIN targets})  BY <2>2 DEF IsSeq
        <2>4. Len(targets) \in Nat /\ DOMAIN targets = 1 .. Len(targets) /\ Len(targets) # 0  BY <2>2, <2>3
        <2> QED  BY <2>1, <2>4
    <1>2. \A i \in DOMAIN s.targets : s.targets[i].is = "column"  BY DEF DirectSource
    <1>3. ASSUME NEW flat, flat = [i \in 1 .. n |-> flat[i]] PROVE FlattenSeq([i \in DOMAIN flat |-> <<flat[i]>>]) = flat
        <2>1. IsSeq(flat) /\ DOMAIN flat = 1 .. n /\ Len(flat) = n  BY <1>1, <1>3, FunctionIsSeq
        <2>2. flat # <<>>  BY <1>1, <2>1
        <2> QED  BY <2>1, <2>2, FlattenSingles DEF IsSeq
    <1>4. ASSUME NEW r PROVE ResultCells(s, r) = NamedCells(s, r)
        <2> DEFINE flat == NamedCells(s, r)
        <2>1. flat = [i \in 1 .. n |-> flat[i]] /\ DOMAIN flat = DOMAIN s.targets  BY <1>1 DEF NamedCells
        <2>2. ASSUME NEW i \in DOMAIN s.targets PROVE Answered(s.targets[i], r) = <<flat[i]>>
            <3>1. PICK t : t = s.targets[i]  OBVIOUS
            <3>2. t.is # "star" /\ t.is = "column"  BY <1>2, <3>1
            <3>3. flat[i] = IF t.column \in Column THEN r.cells[t.column] ELSE CHOOSE x \in Texts : TRUE
                BY <3>1 DEF NamedCells
            <3> HIDE DEF flat
            <3>4. Answered(t, r) = <<flat[i]>>  BY <3>2, <3>3 DEF Answered
            <3> QED  BY <3>1, <3>4
        <2> HIDE DEF flat
        <2>3. [i \in DOMAIN s.targets |-> Answered(s.targets[i], r)] = [i \in DOMAIN flat |-> <<flat[i]>>]  BY <2>1, <2>2
        <2>4. FlattenSeq([i \in DOMAIN flat |-> <<flat[i]>>]) = flat  BY <1>3, <2>1
        <2> QED  BY <2>3, <2>4 DEF ResultCells, flat
    <1>5. ResultColumns(s) = [i \in DOMAIN s.targets |-> s.targets[i].name]
        <2> DEFINE flat == [i \in DOMAIN s.targets |-> s.targets[i].name]
        <2>1. flat = [i \in 1 .. n |-> flat[i]] /\ DOMAIN flat = DOMAIN s.targets  BY <1>1
        <2>2. \A i \in DOMAIN s.targets : Titles(s.targets[i]) = <<flat[i]>>  BY <1>2 DEF Titles
        <2> HIDE DEF flat
        <2>3. [i \in DOMAIN s.targets |-> Titles(s.targets[i])] = [i \in DOMAIN flat |-> <<flat[i]>>]  BY <2>1, <2>2
        <2>4. FlattenSeq([i \in DOMAIN flat |-> <<flat[i]>>]) = flat  BY <1>3, <2>1
        <2> QED  BY <2>3, <2>4 DEF ResultColumns, flat
    <1>6. ResultTypes(s) = [i \in DOMAIN s.targets |-> s.targets[i].column]
        <2> DEFINE flat == [i \in DOMAIN s.targets |-> s.targets[i].column]
        <2>1. flat = [i \in 1 .. n |-> flat[i]] /\ DOMAIN flat = DOMAIN s.targets  BY <1>1
        <2>2. \A i \in DOMAIN s.targets : TypesOf(s.targets[i]) = <<flat[i]>>  BY <1>2 DEF TypesOf
        <2> HIDE DEF flat
        <2>3. [i \in DOMAIN s.targets |-> TypesOf(s.targets[i])] = [i \in DOMAIN flat |-> <<flat[i]>>]  BY <2>1, <2>2
        <2>4. FlattenSeq([i \in DOMAIN flat |-> <<flat[i]>>]) = flat  BY <1>3, <2>1
        <2> QED  BY <2>3, <2>4 DEF ResultTypes, flat
    <1> QED  BY <1>4, <1>5, <1>6

\* Each cell of an editable statement is the column that its source names, if any,
\* and has its type
\* (editable_projection, SourceProjection::resolve).
Sourced(names, source, s) ==
    /\ IsSeq(names)
    /\ DOMAIN source = DOMAIN names
    /\ \A r : IsSeq(ResultCells(s, r)) /\ Len(ResultCells(s, r)) = Len(names)
    /\ \A j \in DOMAIN names : source[j] # None =>
          /\ source[j] \in Column /\ ResultTypes(s)[j] = source[j]
          /\ \A r : ResultCells(s, r)[j] = r.cells[source[j]]

LEMMA StarIsSourced ==
    ASSUME NEW s, NEW t, s.targets = <<t>>, t.is = "star"
    PROVE  ResultColumns(s) = Columns /\ Sourced(Columns, Columns, s)
    <1>1. /\ ResultColumns(s) = Columns /\ ResultTypes(s) = Columns
          /\ \A r : ResultCells(s, r) = [i \in DOMAIN Columns |-> r.cells[Columns[i]]]
        BY StarShowsColumns
    <1>2. IsSeq(Columns)  BY RowQueriesAssumption, SeqIsSeq
    <1>3. Len(Columns) \in Nat /\ DOMAIN Columns = 1 .. Len(Columns)  BY <1>2, IsSeqLength
    <1>4. ASSUME NEW r PROVE IsSeq(ResultCells(s, r)) /\ Len(ResultCells(s, r)) = Len(Columns)
        BY <1>1, <1>3, FunctionIsSeq
    <1>5. \A j \in DOMAIN Columns : Columns[j] \in Column  BY DEF Column
    <1>6. \A j \in DOMAIN Columns : \A r : ResultCells(s, r)[j] = r.cells[Columns[j]]  BY <1>1
    <1> QED  BY <1>1, <1>2, <1>4, <1>5, <1>6 DEF Sourced

LEMMA NamedIsSourced ==
    ASSUME NEW s, TypedTargets(s), s.targets # <<>>, \A i \in DOMAIN s.targets : DirectSource(s.targets[i])
    PROVE  Sourced(ResultColumns(s), [i \in DOMAIN s.targets |-> s.targets[i].column], s)
           /\ Len(ResultColumns(s)) = Len([i \in DOMAIN s.targets |-> s.targets[i].column])
    <1> DEFINE names == ResultColumns(s)
               source == [i \in DOMAIN s.targets |-> s.targets[i].column]
    <1>1. /\ names = [i \in DOMAIN s.targets |-> s.targets[i].name]
          /\ ResultTypes(s) = [i \in DOMAIN s.targets |-> s.targets[i].column]
          /\ \A r : ResultCells(s, r) = NamedCells(s, r)
        BY NamedShowsSources
    <1>2. PICK n \in Nat : DOMAIN s.targets = 1 .. n
        <2>1. PICK targets : targets = s.targets  OBVIOUS
        <2>2. IsSeq(targets)  BY <2>1 DEF TypedTargets
        <2> QED  BY <2>1, <2>2, IsSeqLength
    <1>3. IsSeq(source) /\ Len(source) = n /\ DOMAIN source = 1 .. n  BY <1>2, FunctionIsSeq
    <1>4. IsSeq(names) /\ Len(names) = n /\ DOMAIN names = 1 .. n  BY <1>1, <1>2, FunctionIsSeq
    <1>5. ASSUME NEW r PROVE IsSeq(ResultCells(s, r)) /\ Len(ResultCells(s, r)) = n
        <2>1. PICK cells : cells = NamedCells(s, r)  OBVIOUS
        <2>2. cells = [i \in 1 .. n |-> cells[i]]  BY <1>2, <2>1 DEF NamedCells
        <2>3. IsSeq(cells) /\ Len(cells) = n  BY <2>2, FunctionIsSeq
        <2>4. ResultCells(s, r) = cells  BY <1>1, <2>1
        <2> QED  BY <2>3, <2>4
    <1>6. ASSUME NEW j \in 1 .. n, source[j] # None
          PROVE  /\ source[j] \in Column /\ ResultTypes(s)[j] = source[j]
                 /\ \A r : ResultCells(s, r)[j] = r.cells[source[j]]
        <2>1. source[j] = s.targets[j].column /\ ResultTypes(s)[j] = source[j]  BY <1>1, <1>2
        <2>2. s.targets[j].column \in Column  BY <1>2, <1>6, <2>1 DEF TypedTargets, DirectSource
        <2>3. \A r : NamedCells(s, r)[j] = r.cells[s.targets[j].column]  BY <1>2, <2>2 DEF NamedCells
        <2> QED  BY <1>1, <2>1, <2>2, <2>3
    <1> HIDE DEF names, source
    <1>7. Sourced(names, source, s)  BY <1>3, <1>4, <1>5, <1>6 DEF Sourced
    <1>8. Len(names) = Len(source)  BY <1>3, <1>4
    <1> QED  BY <1>7, <1>8 DEF names, source

LEMMA EditableIsSourced ==
    ASSUME NEW s, TypedTargets(s), IsEditable(RunSqlPlan(s))
    PROVE  Sourced(ResultColumns(s), Resolve(RunSqlPlan(s).projection, ResultColumns(s)), s)
    <1>1. RunSqlPlan(s).projection = EditableProjection(s) /\ EditableProjection(s) # NoProjection
        BY DEF RunSqlPlan, IsEditable
    <1>2. CASE Len(s.targets) = 1 /\ IsStar(s.targets[1]) /\ EditableProjection(s) = [all |-> TRUE, named |-> <<>>]
        <2>1. PICK targets, t : targets = s.targets /\ t = targets[1]  OBVIOUS
        <2>2. IsSeq(targets) /\ Len(targets) = 1 /\ t.is = "star"  BY <1>2, <2>1 DEF TypedTargets, IsStar
        <2>3. targets = <<t>>  BY <2>1, <2>2 DEF IsSeq
        <2>4. ResultColumns(s) = Columns /\ Sourced(Columns, Columns, s)  BY <2>1, <2>2, <2>3, StarIsSourced
        <2>5. Resolve(EditableProjection(s), Columns) = Columns  BY <1>2 DEF Resolve
        <2> QED  BY <1>1, <2>4, <2>5
    <1>3. CASE /\ s.targets # <<>> /\ \A i \in DOMAIN s.targets : DirectSource(s.targets[i])
               /\ EditableProjection(s) = [all |-> FALSE, named |-> [i \in DOMAIN s.targets |-> s.targets[i].column]]
        <2> DEFINE source == [i \in DOMAIN s.targets |-> s.targets[i].column]
        <2>1. Sourced(ResultColumns(s), source, s) /\ Len(ResultColumns(s)) = Len(source)  BY <1>3, NamedIsSourced
        <2> HIDE DEF source
        <2>2. EditableProjection(s) = [all |-> FALSE, named |-> source]  BY <1>3 DEF source
        <2>3. Resolve(EditableProjection(s), ResultColumns(s)) = source  BY <2>1, <2>2 DEF Resolve
        <2> QED  BY <1>1, <2>1, <2>3
    <1> QED  BY <1>1, <1>2, <1>3 DEF EditableProjection

\* The same rows, whatever else is said of them.
SameRows(D, R) ==
    /\ D.columns = R.columns /\ D.rows = R.rows /\ D.nulls = R.nulls
    /\ D.identities = R.identities /\ D.versions = R.versions

LEMMA AnsweredIsGood ==
    ASSUME TableInv, NEW plan, NEW key, HasKey(plan, key),
           NEW s, NEW names, NEW source, Sourced(names, source, s),
           NEW columns, NEW n, NEW read, NEW cells, NEW wires,
           Answering(key, names, columns, n, read, cells, wires), \A i \in 1 .. n : cells[i] = ResultCells(s, read[i]),
           NEW types, types = ResultTypes(s), NEW type,
           NEW R, R = RowsToResult(columns, types, wires, ReadsOf(read, n, key), plan, type),
           NEW D, ResultShape(R) => SameRows(D, R) /\ ResultShape(D) /\ D.source = source /\ TypedTargets(D.sql)
    PROVE  GoodResult(D, rows, clock) /\ D.columns = names /\ DOMAIN D.rows = 1 .. n
    <1>5. /\ ResultShape(R) /\ RowSeqs(R) /\ R.columns = names /\ DOMAIN R.rows = 1 .. n
          /\ \A i \in 1 .. n :
                /\ DOMAIN R.rows[i] = DOMAIN names /\ DOMAIN R.nulls[i] = DOMAIN names
                /\ Follows(R.identities[i], R.versions[i], rows, clock)
                /\ \A j \in DOMAIN names, c \in Column :
                      cells[i][j] = read[i].cells[c] /\ types[j] = c =>
                          Shows(R.identities[i], R.versions[i], R.rows[i][j], R.nulls[i][j], c, rows)
        BY ShownRows
    <1>6. SameRows(D, R) /\ ResultShape(D) /\ D.source = source /\ TypedTargets(D.sql)  BY <1>5
    <1>7. RowSeqs(D) /\ D.columns = names /\ DOMAIN D.rows = 1 .. n  BY <1>5, <1>6 DEF RowSeqs, SameRows
    <1>8. ASSUME NEW i \in 1 .. n PROVE GoodRow(D, i, rows, clock)
        <2>1. RowShaped(D, i)  BY <1>5, <1>6 DEF SameRows, RowShaped, Sourced
        <2>2. Follows(D.identities[i], D.versions[i], rows, clock)  BY <1>5, <1>6 DEF SameRows
        <2>3. ASSUME NEW j \in DOMAIN names, source[j] # None
              PROVE  source[j] \in Column /\ Shows(D.identities[i], D.versions[i], D.rows[i][j], D.nulls[i][j], source[j], rows)
            <3>1. /\ source[j] \in Column /\ ResultTypes(s)[j] = source[j]
                  /\ \A r : ResultCells(s, r)[j] = r.cells[source[j]]
                BY <2>3 DEF Sourced
            <3>2. cells[i][j] = read[i].cells[source[j]] /\ types[j] = source[j]  BY <3>1
            <3>3. Shows(R.identities[i], R.versions[i], R.rows[i][j], R.nulls[i][j], source[j], rows)
                BY <1>5, <3>1, <3>2
            <3> QED  BY <1>6, <3>1, <3>3 DEF SameRows
        <2> QED  BY <1>6, <1>7, <2>1, <2>2, <2>3 DEF GoodRow
    <1> QED  BY <1>6, <1>7, <1>8 DEF GoodResult

\* A result with no identities may not be edited.
Alike(n, wires, reads) == n \in Nat /\ DOMAIN wires = 1 .. n /\ IsSeq(reads) /\ DOMAIN reads = 1 .. n

Unidentified(R, n) ==
    /\ ResultShape(R) /\ RowSeqs(R) /\ DOMAIN R.rows = 1 .. n
    /\ \A i \in 1 .. n : R.identities[i] = NoIdentity

LEMMA PlainRows ==
    ASSUME NEW columns, NEW types, NEW n, NEW wires, NEW reads, NEW type, Alike(n, wires, reads),
           NEW R, R = RowsToResult(columns, types, wires, reads, NoPlan, type)
    PROVE  Unidentified(R, n)
    <1> DEFINE width == IF NoPlan = NoPlan THEN Len(columns) ELSE Len(columns) - (3 + Len(NoPlan.key))
    <1>1. R = [EmptyResult EXCEPT
                 !.columns = SubSeq(columns, 1, width),
                 !.rows = [i \in 1 .. n |-> [j \in 1 .. width |-> Display(types[j], wires[i][j])]],
                 !.nulls = [i \in 1 .. n |-> [j \in 1 .. width |-> IsNull(wires[i][j])]],
                 !.identities = [i \in 1 .. n |-> DecodeIdentity(wires[i], NoPlan, width, type)],
                 !.source = [j \in 1 .. width |-> None],
                 !.versions = reads]
        BY DEF RowsToResult, Alike
    <1> HIDE DEF width
    <1>2. /\ ResultShape(R)
          /\ R.rows = [i \in 1 .. n |-> [j \in 1 .. width |-> Display(types[j], wires[i][j])]]
          /\ R.nulls = [i \in 1 .. n |-> [j \in 1 .. width |-> IsNull(wires[i][j])]]
          /\ R.identities = [i \in 1 .. n |-> DecodeIdentity(wires[i], NoPlan, width, type)]
          /\ R.versions = reads
        BY <1>1 DEF ResultShape, EmptyResult
    <1>3. RowSeqs(R) /\ DOMAIN R.rows = 1 .. n
        <2>1. IsSeq(R.rows) /\ IsSeq(R.nulls) /\ IsSeq(R.identities)  BY <1>2, FunctionIsSeq DEF Alike
        <2> QED  BY <1>2, <2>1 DEF RowSeqs, Alike
    <1>4. ASSUME NEW i \in 1 .. n PROVE R.identities[i] = NoIdentity
        BY <1>2 DEF DecodeIdentity
    <1> QED  BY <1>2, <1>3, <1>4 DEF Unidentified

\* What the metadata adds to a result (Engine::execute).
LEMMA DescribedFields ==
    ASSUME NEW R, ResultShape(R), NEW plan
    PROVE  LET D == Described(R, plan)
           IN  /\ SameRows(D, R) /\ ResultShape(D) /\ D.sql = op.statement
               /\ D.source = IF plan = NoPlan THEN R.source
                             ELSE IF op.do = "top" THEN R.columns
                             ELSE Resolve(RunSqlPlan(op.statement).projection, R.columns)
    BY DEF Described, ResultShape, SameRows

Runs == op.at \in {"start", "statement"}

\* A statement of the user is typed, and one that has a plan is editable.
StatementHolds ==
    /\ TypedTargets(op.statement)
    /\ op.do = "top" /\ Runs => op.statement = SelectAll
    /\ op.do = "run" /\ op.plan # NoPlan => IsEditable(RunSqlPlan(op.statement))

PlanHolds == op.plan = NoPlan \/ HasKey(op.plan, op.plan.key)

LEMMA IdentifiedIsGood ==
    ASSUME TableInv, StatementHolds, op.do \in Queries, Runs, NEW key, HasKey(op.plan, key)
    PROVE  GoodResult(Described(QueryResult(op.statement, op.plan), op.plan), rows, clock)
    <1> DEFINE s     == op.statement
               plan  == op.plan
               read  == InOrder(rows)
               n     == Cardinality(rows)
               names == ResultColumns(s)
               source == IF op.do = "top" THEN names ELSE Resolve(RunSqlPlan(s).projection, names)
               columns == names \o HiddenNames(plan)
               types == ResultTypes(s)
               cells == [i \in 1 .. n |-> ResultCells(s, read[i])]
               wires == [i \in 1 .. n |-> Wire(ResultCells(s, read[i]), read[i], key)]
               R     == QueryResult(s, plan)
               D     == Described(R, plan)
    <1>1. n \in Nat /\ DOMAIN read = 1 .. n /\ \A i \in 1 .. n : read[i] \in rows  BY InOrderReads
    <1>2. plan # NoPlan /\ plan.key = key  BY DEF HasKey
    <1>3. Sourced(names, source, s)
        <2>1. CASE op.do = "top"
            <3>1. PICK t : s.targets = <<t>> /\ t.is = "star"
                <4>1. s = SelectAll  BY <2>1 DEF StatementHolds
                <4> QED  BY <4>1 DEF SelectAll, NoStatement
            <3>2. names = Columns /\ Sourced(Columns, Columns, s)  BY <3>1, StarIsSourced
            <3> QED  BY <2>1, <3>2
        <2>2. CASE op.do = "run"
            <3>1. TypedTargets(s) /\ IsEditable(RunSqlPlan(s))  BY <1>2, <2>2 DEF StatementHolds
            <3>2. Sourced(names, Resolve(RunSqlPlan(s).projection, names), s)  BY <3>1, EditableIsSourced
            <3> QED  BY <2>2, <3>2
        <2> QED  BY <2>1, <2>2 DEF Queries
    <1>4. R = RowsToResult(columns, types, wires, ReadsOf(read, n, key), plan, rel.type)
        <2> HIDE DEF read, n, columns
        <2>1. wires = [i \in DOMAIN read |-> ResultCells(s, read[i])
                          \o (IF plan = NoPlan THEN <<>> ELSE HiddenCells(read[i], plan.key))]
            BY <1>1, <1>2 DEF Wire
        <2>2. ReadsOf(read, n, key) = [i \in DOMAIN read |-> Read(read[i], plan.key)]  BY <1>1, <1>2 DEF ReadsOf
        <2>3. R = RowsToResult(columns, types, [i \in DOMAIN read |-> ResultCells(s, read[i])
                                  \o (IF plan = NoPlan THEN <<>> ELSE HiddenCells(read[i], plan.key))],
                               [i \in DOMAIN read |-> Read(read[i], plan.key)], plan, rel.type)
            BY DEF QueryResult, columns, read
        <2> HIDE DEF wires, R
        <2> QED  BY <2>1, <2>2, <2>3
    <1>5. /\ SubSeq(columns, 1, Len(names)) = names
          /\ Len(columns) = Len(names) + (3 + Len(key))
        <2>1. IsSeq(HiddenNames(plan)) /\ Len(HiddenNames(plan)) = 3 + Len(key)  BY HiddenNamesAre
        <2>2. IsSeq(names)  BY <1>3 DEF Sourced
        <2> HIDE DEF names
        <2>3. PICK hidden : hidden = HiddenNames(plan)  OBVIOUS
        <2>4. SubSeq(names \o hidden, 1, Len(names)) = names /\ Len(names \o hidden) = Len(names) + Len(hidden)
            BY <2>1, <2>2, <2>3, ShownNames
        <2> QED  BY <2>1, <2>3, <2>4
    <1>6. ResultShape(R) => SameRows(D, R) /\ ResultShape(D) /\ D.sql = s
        BY DescribedFields
    <1>7. ResultShape(R) /\ R.columns = names => D.source = source
        BY <1>2, DescribedFields
    <1>14. types = ResultTypes(s)  OBVIOUS
    <1> HIDE DEF R, D, columns, types, wires, names, source, read, n, s, plan
    <1>8. Answering(key, names, columns, n, read, cells, wires)
        <2>1. IsSeq(names) /\ \A i \in 1 .. n : IsSeq(cells[i]) /\ Len(cells[i]) = Len(names)  BY <1>3 DEF Sourced
        <2>2. DOMAIN wires = 1 .. n /\ \A i \in 1 .. n : wires[i] = Wire(cells[i], read[i], key)  BY DEF wires
        <2> QED  BY <1>1, <1>5, <2>1, <2>2 DEF Answering
    <1>9. HasKey(plan, key)  BY DEF plan
    <1>10. ResultShape(R) /\ R.columns = names  BY <1>4, <1>8, <1>9, ShownRows
    <1>11. TypedTargets(s)  BY DEF StatementHolds, s
    <1>12. \A i \in 1 .. n : cells[i] = ResultCells(s, read[i])  OBVIOUS
    <1> HIDE DEF cells
    <1>13. GoodResult(D, rows, clock)
        BY <1>3, <1>4, <1>6, <1>7, <1>8, <1>9, <1>10, <1>11, <1>12, <1>14, AnsweredIsGood
    <1> QED  BY <1>13 DEF D, R, s, plan

LEMMA QueryIsGood ==
    ASSUME TableInv, StatementHolds, PlanHolds, op.do \in Queries, Runs
    PROVE  GoodResult(Described(QueryResult(op.statement, op.plan), op.plan), rows, clock)
    <1>1. CASE op.plan = NoPlan
        <2> DEFINE s     == op.statement
                   read  == InOrder(rows)
                   n     == Cardinality(rows)
                   R     == QueryResult(s, NoPlan)
                   D     == Described(R, NoPlan)
                   wires == [i \in DOMAIN read |-> ResultCells(s, read[i])
                                \o (IF NoPlan = NoPlan THEN <<>> ELSE HiddenCells(read[i], NoPlan.key))]
                   reads == [i \in DOMAIN read |-> Read(read[i], NoPlan.key)]
                   columns == ResultColumns(s) \o HiddenNames(NoPlan)
                   types == ResultTypes(s)
        <2>1. n \in Nat /\ DOMAIN read = 1 .. n  BY InOrderReads
        <2>2. R = RowsToResult(columns, types, wires, reads, NoPlan, rel.type)  BY DEF QueryResult
        <2>3. Alike(n, wires, reads)
            <3>1. reads = [i \in 1 .. n |-> reads[i]]  BY <2>1
            <3>2. IsSeq(reads)  BY <2>1, <3>1, FunctionIsSeq
            <3> QED  BY <2>1, <3>2 DEF Alike
        <2>4. ResultShape(R) => SameRows(D, R) /\ ResultShape(D) /\ D.sql = s  BY DescribedFields
        <2> HIDE DEF D, R, columns, types, wires, reads, read, n
        <2>5. Unidentified(R, n)  BY <2>2, <2>3, PlainRows
        <2>6. RowSeqs(D) /\ DOMAIN D.rows = 1 .. n /\ \A i \in 1 .. n : D.identities[i] = NoIdentity
            BY <2>4, <2>5 DEF Unidentified, SameRows, RowSeqs
        <2>7. GoodResult(D, rows, clock)  BY <2>4, <2>5, <2>6 DEF Unidentified, GoodResult, GoodRow, StatementHolds
        <2> QED  BY <1>1, <2>7 DEF D, R
    <1>2. CASE HasKey(op.plan, op.plan.key)  BY <1>2, IdentifiedIsGood
    <1> QED  BY <1>1, <1>2 DEF PlanHolds

\* What refresh_row answers: every column of the table, of the row that was found.
RefreshedRow(r, plan) ==
    LET read == RowsToResult(Columns \o HiddenNames(plan), ResultTypes(SelectAll),
                  <<ResultCells(SelectAll, r) \o HiddenCells(r, plan.key)>>, <<Read(r, plan.key)>>, plan, rel.type)
    IN  [read EXCEPT !.table = TRUE, !.source = read.columns]

LEMMA RefreshIsGood ==
    ASSUME TableInv, NEW plan, NEW key, HasKey(plan, key), NEW r \in rows
    PROVE  /\ GoodResult(RefreshedRow(r, plan), rows, clock)
           /\ DOMAIN RefreshedRow(r, plan).rows = {1}
           /\ RefreshedRow(r, plan).columns = Columns /\ RefreshedRow(r, plan).source = Columns
    <1> DEFINE columns == Columns \o HiddenNames(plan)
               read  == <<r>>
               cells == <<ResultCells(SelectAll, r)>>
               wires == <<Wire(ResultCells(SelectAll, r), r, key)>>
               types == ResultTypes(SelectAll)
               R     == RowsToResult(columns, types, wires, ReadsOf(read, 1, key), plan, rel.type)
               D     == RefreshedRow(r, plan)
    <1>1. Sourced(Columns, Columns, SelectAll)
        <2>1. PICK t : SelectAll.targets = <<t>> /\ t.is = "star"  BY DEF SelectAll, NoStatement
        <2> QED  BY <2>1, StarIsSourced
    <1>2. IsSeq(Columns)  BY <1>1 DEF Sourced
    <1>3. SubSeq(columns, 1, Len(Columns)) = Columns /\ Len(columns) = Len(Columns) + (3 + Len(key))
        <2>1. PICK hidden : hidden = HiddenNames(plan)  OBVIOUS
        <2>2. IsSeq(hidden) /\ Len(hidden) = 3 + Len(key)  BY <2>1, HiddenNamesAre
        <2>3. SubSeq(Columns \o hidden, 1, Len(Columns)) = Columns /\ Len(Columns \o hidden) = Len(Columns) + Len(hidden)
            BY <1>2, <2>2, ShownNames
        <2> QED  BY <2>1, <2>2, <2>3
    <1>4. plan.key = key  BY DEF HasKey
    <1>5. ReadsOf(read, 1, key) = <<Read(r, key)>>  BY DEF ReadsOf
    <1>6. D = [R EXCEPT !.table = TRUE, !.source = R.columns]
        <2> HIDE DEF columns
        <2>1. wires = <<ResultCells(SelectAll, r) \o HiddenCells(r, plan.key)>>  BY <1>4 DEF Wire
        <2>2. D = LET q == RowsToResult(columns, types, <<ResultCells(SelectAll, r) \o HiddenCells(r, plan.key)>>,
                                        <<Read(r, plan.key)>>, plan, rel.type)
                  IN  [q EXCEPT !.table = TRUE, !.source = q.columns]
            BY DEF RefreshedRow, columns
        <2> HIDE DEF wires, read, D
        <2>3. R = RowsToResult(columns, types, <<ResultCells(SelectAll, r) \o HiddenCells(r, plan.key)>>,
                               <<Read(r, plan.key)>>, plan, rel.type)
            BY <1>4, <1>5, <2>1
        <2> HIDE DEF R
        <2> QED  BY <2>2, <2>3
    <1> HIDE DEF D, columns
    <1>7. Answering(key, Columns, columns, 1, read, cells, wires)
        BY <1>1, <1>2, <1>3 DEF Answering, Sourced
    <1>8. \A i \in 1 .. 1 : cells[i] = ResultCells(SelectAll, read[i])  OBVIOUS
    <1> HIDE DEF read, cells, wires
    <1>9. R = RowsToResult(columns, types, wires, ReadsOf(read, 1, key), plan, rel.type) /\ types = ResultTypes(SelectAll)
        OBVIOUS
    <1> HIDE DEF R, types
    <1>10. ResultShape(R) /\ R.columns = Columns /\ R.sql = NoStatement  BY <1>7, <1>9, ShownRows
    <1>11. /\ SameRows(D, R) /\ ResultShape(D) /\ D.source = Columns /\ D.sql = NoStatement
        BY <1>6, <1>10 DEF ResultShape, SameRows
    <1>12. GoodResult(D, rows, clock) /\ D.columns = Columns /\ DOMAIN D.rows = 1 .. 1
        BY <1>1, <1>7, <1>8, <1>9, <1>11, OwnStatementsAreTyped, AnsweredIsGood
    <1>13. 1 .. 1 = {1}  OBVIOUS
    <1> QED  BY <1>11, <1>12, <1>13 DEF D

(***************************************************************************)
(* The operation that runs, and the rows that wait for a ranking or for    *)
(* the user: what each of them says of the table is true of it now.        *)
(***************************************************************************)
OpShape(o) ==
    o \in [do : {o.do}, at : {o.at}, statement : {o.statement}, plan : {o.plan}, identity : {o.identity},
           column : {o.column}, value : {o.value}, target : {o.target}, cell : {o.cell}, version : {o.version},
           null : {o.null}, shown : {o.shown}, answer : {o.answer}]

\* The operation goes to the row of the grid that the user chose.
Succeeded == op.at = "answered" /\ op.answer.is \in {"rows", "updated", "deleted"}

TargetHolds ==
    /\ op.do \in ByIdentity => active = 0
    /\ op.do \in ByIdentity /\ (Runs \/ Succeeded) => op.target \in DOMAIN grid.rows /\ RowShaped(grid, op.target)

\* What a statement that edits or deletes says of the row that was read.
MutationHolds ==
    Runs =>
      /\ op.do \in Mutations =>
            op.identity # NoIdentity /\ Follows(op.identity, op.version, rows, clock)
      /\ op.do = "update" =>
            op.value \in Value /\ Shows(op.identity, op.version, op.shown, op.null, op.column, rows)

AnswerHolds ==
    /\ op.at # "answered" => op.answer = NoAnswer
    /\ op.answer.is = "rows" =>
          /\ GoodResult(op.answer.result, rows, clock)
          /\ op.do = "refresh" => /\ DOMAIN op.answer.result.rows = {1}
                                  /\ op.answer.result.columns = Columns /\ op.answer.result.source = Columns
    /\ op.answer.is = "updated" =>
          op.answer.version.typed /\ Follows(op.answer.identity, op.answer.version, rows, clock)

OpHolds ==
    /\ OpShape(op)
    /\ op.at = "idle" => op.do = "idle"
    /\ op.do \in ByIdentity /\ op.at = "statement" => op.plan # NoPlan
    /\ StatementHolds /\ PlanHolds /\ TargetHolds /\ MutationHolds /\ AnswerHolds

GoodJob(job, rs, now) == job.id \in Nat \ {0} /\ GoodResult(job.result, rs, now)

JobsHold ==
    /\ jobs \in Nat
    /\ \A i \in DOMAIN queue : GoodJob(queue[i], rows, clock)
    /\ \A i \in DOMAIN replies : GoodJob(replies[i], rows, clock)

GridHolds == GoodResult(grid, rows, clock)

RowsInv == TableInv /\ CacheInv /\ JobsHold /\ GridHolds /\ OpHolds

LEMMA FirstRowsHold == Init => TableInv
    <1> SUFFICES ASSUME Init PROVE TableInv  OBVIOUS
    <1>1. PICK t \in Tables : rel = t.rel /\ rows = t.rows  BY DEF Init
    <1>2. /\ rel \in Relation /\ IsFiniteSet(rows) /\ KeysHold(rows, rel) /\ PlacesHold(rows)
          /\ rows \subseteq [table : Nat, ctid : Places, xmin : {1}, cells : [Column -> Value], version : Seq(Nat)]
        BY <1>1, RowsAssumption
    <1>3. clock = 2  BY DEF Init
    <1>4. ASSUME NEW r \in rows PROVE TypedRow(r, clock)
        <2>1. /\ r.table \in Nat /\ r.ctid \in Places /\ r.xmin = 1 /\ r.cells \in [Column -> Value]
              /\ r = Row(r.table, r.ctid, r.xmin, r.cells, r.version)
            BY <1>2 DEF Row
        <2>2. r.xmin \in Nat /\ r.xmin < clock  BY <1>3, <2>1
        <2>3. TypedRow(Row(r.table, r.ctid, r.xmin, r.cells, r.version), clock)  BY <2>1, <2>2, Zenon DEF TypedRow
        <2> QED  BY <2>1, <2>3
    <1> QED  BY <1>2, <1>3, <1>4 DEF TableInv

LEMMA RowsInit == Init => RowsInv
    <1> SUFFICES ASSUME Init PROVE RowsInv  OBVIOUS
    <1>1. TableInv  BY FirstRowsHold
    <1>2. CacheInv  BY CacheInit DEF Init
    <1>3. JobsHold
        <2>1. jobs = 0 /\ queue = <<>> /\ replies = <<>>  BY DEF Init, WorkerInit
        <2> QED  BY <2>1 DEF JobsHold
    <1>4. GridHolds  BY EmptyResultIsGood DEF GridHolds, Init
    <1>5. OpHolds
        <2>1. op = Idle  BY DEF Init
        <2>2. /\ OpShape(op) /\ op.do = "idle" /\ op.at = "idle" /\ op.statement = NoStatement /\ op.plan = NoPlan
              /\ op.answer = NoAnswer
            BY <2>1 DEF OpShape, Idle
        <2>3. op.answer.is = "none"  BY <2>2 DEF NoAnswer, Answer
        <2> QED  BY <2>2, <2>3, OwnStatementsAreTyped
                 DEF OpHolds, StatementHolds, PlanHolds, TargetHolds, MutationHolds, AnswerHolds, Runs, ByIdentity, Mutations
    <1> QED  BY <1>1, <1>2, <1>3, <1>4, <1>5 DEF RowsInv

LEMMA SameTableHolds ==
    ASSUME TableInv, UNCHANGED <<rel, rows, clock>> PROVE TableInv' /\ OldRowsStay
    <1>1. TableInv'  BY DEF TableInv, PlacesHold, KeysHold
    <1>2. OldRowsStay  BY DEF TableInv, OldRowsStay
    <1> QED  BY <1>1, <1>2

\* A statement that edits writes a row of its own transaction.
Edited(r, c) == Row(r.table, c, clock, [r.cells EXCEPT ![op.column] = op.value], <<clock, 1>>)

LEMMA EditedIsTyped ==
    ASSUME TableInv, op.value \in Value, NEW r \in rows, NEW c \in Places
    PROVE  TypedRow(Edited(r, c), clock + 1) /\ Edited(r, c).xmin = clock
    <1>1. clock \in Nat /\ TypedRow(r, clock)  BY DEF TableInv
    <1>2. r.table \in Nat /\ r.cells \in [Column -> Value]  BY <1>1, TypedRowFields
    <1>3. PICK cells \in [Column -> Value] : cells = [r.cells EXCEPT ![op.column] = op.value]
        <2>1. PICK old, column, new : old = r.cells /\ column = op.column /\ new = op.value  OBVIOUS
        <2>2. old \in [Column -> Value] /\ new \in Value  BY <1>2, <2>1
        <2>3. [old EXCEPT ![column] = new] \in [Column -> Value]  BY <2>2
        <2> QED  BY <2>1, <2>3
    <1>4. PICK v : v = <<clock, 1>>  OBVIOUS
    <1>5. Edited(r, c) = Row(r.table, c, clock, cells, v)  BY <1>3, <1>4 DEF Edited
    <1>6. clock < clock + 1 /\ cells \in [Column -> Value]  BY <1>1, <1>3
    <1>7. TypedRow(Row(r.table, c, clock, cells, v), clock + 1) /\ Row(r.table, c, clock, cells, v).xmin = clock
        BY <1>1, <1>2, <1>6, RowIsTyped
    <1> QED  BY <1>5, <1>7

LEMMA EngineTable ==
    ASSUME RowsInv, Engine PROVE TableInv' /\ OldRowsStay
    <1>1. TableInv  BY DEF RowsInv
    <1>2. CASE UpdateCell
        <2>1. PICK r \in Found, c \in Places : Becomes((rows \ {r}) \cup {Edited(r, c)})
            BY <1>2 DEF UpdateCell, Edited
        <2>2. r \in rows  BY DEF Found
        <2>3. op.value \in Value  BY <1>2 DEF RowsInv, OpHolds, MutationHolds, Runs, UpdateCell, At
        <2>4. TypedRow(Edited(r, c), clock + 1) /\ Edited(r, c).xmin = clock  BY <1>1, <2>2, <2>3, EditedIsTyped
        <2>5. UNCHANGED rel  BY <1>2 DEF UpdateCell
        <2> QED  BY <1>1, <2>1, <2>4, <2>5, PairIsFinite, WriteHolds
    <1>3. CASE DeleteRow
        <2>1. PICK r \in Found : Becomes(rows \ {r})  BY <1>3 DEF DeleteRow
        <2>2. (rows \ {r}) \cup {} = rows \ {r}  OBVIOUS
        <2>3. Becomes((rows \ {r}) \cup {})  BY <2>1, <2>2
        <2>4. UNCHANGED rel  BY <1>3 DEF DeleteRow
        <2> QED  BY <1>1, <2>3, <2>4, FS_EmptySet, WriteHolds
    <1>4. CASE UNCHANGED tableVars  BY <1>1, <1>4, SameTableHolds DEF tableVars
    <1> QED  BY <1>2, <1>3, <1>4 DEF Engine, RefuseBatch, WithoutPlan, LookUpPlan, ValidatePlan, RunQuery,
                                     NoRowFound, RefreshRow, EngineFails

LEMMA TableNext ==
    ASSUME RowsInv, [Next]_vars PROVE TableInv' /\ OldRowsStay
    <1>1. TableInv  BY DEF RowsInv
    <1>2. CASE Engine  BY <1>2, EngineTable
    <1>3. CASE OtherSession  BY <1>1, <1>3, OtherSessionHolds
    <1>4. CASE UNCHANGED tableVars  BY <1>1, <1>4, SameTableHolds DEF tableVars
    <1>5. User => UNCHANGED tableVars
        BY DEF User, RunQueryByUser, TriggerSemanticSearch, RequestCancel, SubmitEdit, SubmitDelete, ChooseTitle, Request
    <1>6. Handle => UNCHANGED tableVars
        BY DEF Handle, ShowRows, DispatchJob, ApplyEdit, ApplyDelete, HydrateRow, HandleRefusal, OnlyGrid
    <1> QED  BY <1>2, <1>3, <1>4, <1>5, <1>6 DEF Next, PollSemantic, vars

LEMMA PartsOfTail ==
    ASSUME NEW q, IsSeq(q), q # <<>>
    PROVE  /\ \A i \in DOMAIN Tail(q) : \E k \in DOMAIN q : Tail(q)[i] = q[k]
           /\ 1 \in DOMAIN q /\ Head(q) = q[1]
    <1> DEFINE S == {q[i] : i \in DOMAIN q}
    <1>1. q \in Seq(S)  BY DEF IsSeq
    <1> HIDE DEF S
    <1>2. Len(q) \in Nat /\ Len(q) # 0 /\ DOMAIN q = 1 .. Len(q) /\ Head(q) = q[1]  BY <1>1
    <1>3. DOMAIN Tail(q) = 1 .. Len(q) - 1 /\ \A i \in 1 .. Len(q) - 1 : Tail(q)[i] = q[i + 1]  BY <1>1
    <1>4. \A i \in 1 .. Len(q) - 1 : i + 1 \in 1 .. Len(q)  BY <1>2
    <1> QED  BY <1>2, <1>3, <1>4

LEMMA PartsOfAppend ==
    ASSUME NEW q, NEW e, IsSeq(q)
    PROVE  \A i \in DOMAIN Append(q, e) : Append(q, e)[i] = e \/ \E k \in DOMAIN q : Append(q, e)[i] = q[k]
    <1>1. /\ DOMAIN Append(q, e) = 1 .. Len(q) + 1
          /\ \A i \in 1 .. Len(q) : Append(q, e)[i] = q[i]
          /\ Append(q, e)[Len(q) + 1] = e
        BY IsSeqAppend
    <1>2. Len(q) \in Nat /\ DOMAIN q = 1 .. Len(q)  BY IsSeqLength
    <1>3. \A i \in 1 .. Len(q) + 1 : i \in 1 .. Len(q) \/ i = Len(q) + 1  BY <1>2
    <1> QED  BY <1>1, <1>2, <1>3

LEMMA GoodJobStays ==
    ASSUME TableInv, OldRowsStay, TableInv', NEW job, GoodJob(job, rows, clock)
    PROVE  GoodJob(job, rows', clock')
    <1>1. clock' \in Nat  BY DEF TableInv
    <1> QED  BY <1>1, GoodResultStays DEF GoodJob

LEMMA SameJobsHold ==
    ASSUME RowsInv, TableInv', OldRowsStay, UNCHANGED <<queue, replies, jobs>> PROVE JobsHold'
    BY GoodJobStays DEF RowsInv, JobsHold

\* The ranking at the head of the queue ends.
LEMMA EndsKeepsJobs ==
    ASSUME RowsInv, TableInv', OldRowsStay, queue # <<>>, UNCHANGED jobs,
           NEW reply, Ends(reply), reply.id = Current.id, GoodResult(reply.result, rows, clock)
    PROVE  JobsHold'
    <1>1. IsSeq(queue) /\ IsSeq(replies) /\ JobsHold /\ TableInv  BY DEF RowsInv, CacheInv, SeqsHold
    <1>2. queue' = Tail(queue) /\ replies' = Append(replies, reply)  BY DEF Ends
    <1>3. GoodJob(reply, rows, clock)
        <2>1. 1 \in DOMAIN queue /\ Current = queue[1]  BY <1>1, PartsOfTail DEF Current
        <2> QED  BY <1>1, <2>1 DEF JobsHold, GoodJob
    <1>4. \A i \in DOMAIN queue' : GoodJob(queue'[i], rows', clock')
        BY <1>1, <1>2, PartsOfTail, GoodJobStays DEF JobsHold
    <1>5. \A i \in DOMAIN replies' : GoodJob(replies'[i], rows', clock')
        BY <1>1, <1>2, <1>3, PartsOfAppend, GoodJobStays DEF JobsHold
    <1> QED  BY <1>1, <1>4, <1>5 DEF JobsHold

LEMMA WorkerKeepsJobs ==
    ASSUME RowsInv, Worker, UNCHANGED tableVars, UNCHANGED uiVars PROVE JobsHold'
    <1>1. /\ TableInv /\ IsSeq(queue) /\ JobsHold /\ WorkHolds
          /\ UNCHANGED jobs
        BY DEF RowsInv, CacheInv, SeqsHold, uiVars
    <1>2. TableInv' /\ OldRowsStay  BY <1>1, SameTableHolds DEF tableVars
    <1>3. ASSUME NEW is, queue # <<>>, Fails(is) PROVE JobsHold'
        <2> DEFINE reply == Reply(is, Current.id, EmptyResult)
        <2>1. reply.id = Current.id /\ reply.result = EmptyResult  BY DEF Reply
        <2>2. Ends(reply)  BY <1>3 DEF Fails
        <2>3. GoodResult(reply.result, rows, clock)  BY <2>1, EmptyResultIsGood
        <2> HIDE DEF reply
        <2> QED  BY <1>1, <1>2, <1>3, <2>1, <2>2, <2>3, EndsKeepsJobs
    <1>4. ASSUME queue # <<>>, NEW order, NEW m \in Nat, DOMAIN order = 1 .. m,
                 \A k \in 1 .. m : order[k] \in DOMAIN Current.result.rows,
                 Ends(Reply("success", Current.id, Subset(Current.result, order)))
          PROVE  JobsHold'
        <2> DEFINE reply == Reply("success", Current.id, Subset(Current.result, order))
        <2>1. reply.id = Current.id /\ reply.result = Subset(Current.result, order)  BY DEF Reply
        <2>2. Ends(reply)  BY <1>4
        <2>3. GoodResult(Current.result, rows, clock)
            <3>1. 1 \in DOMAIN queue /\ Current = queue[1]  BY <1>1, <1>4, PartsOfTail DEF Current
            <3> QED  BY <1>1, <3>1 DEF JobsHold, GoodJob
        <2>4. GoodResult(reply.result, rows, clock)  BY <1>4, <2>1, <2>3, SubsetIsGood
        <2> HIDE DEF reply
        <2> QED  BY <1>1, <1>2, <1>4, <2>1, <2>2, <2>4, EndsKeepsJobs
    <1>5. CASE NothingToRank
        <2>1. queue # <<>> /\ Ends(Reply("success", Current.id, Subset(Current.result, <<>>)))  BY <1>5 DEF NothingToRank
        <2>2. DOMAIN <<>> = 1 .. 0 /\ \A k \in 1 .. 0 : <<>>[k] \in DOMAIN Current.result.rows  OBVIOUS
        <2> QED  BY <1>4, <2>1, <2>2
    <1>6. CASE ScoreRows
        <2> DEFINE scores == [i \in DOMAIN work.vectors |-> Score(Current.prompt, work.vectors[i])]
        <2>1. queue # <<>> /\ DOMAIN work.vectors = DOMAIN Current.result.rows
            BY <1>1, <1>6 DEF ScoreRows, WorkHolds, Embeds
        <2>2. Ends(Reply("success", Current.id, Subset(Current.result, Ranked(scores))))  BY <1>6 DEF ScoreRows
        <2>3. DOMAIN scores = DOMAIN Current.result.rows  BY <2>1
        <2> HIDE DEF scores
        <2>4. PICK n \in Nat : DOMAIN Current.result.rows = 1 .. n
            <3>1. 1 \in DOMAIN queue /\ Current = queue[1]  BY <1>1, <2>1, PartsOfTail DEF Current
            <3>2. GoodResult(Current.result, rows, clock)  BY <1>1, <3>1 DEF JobsHold, GoodJob
            <3>3. PICK list : list = Current.result.rows  OBVIOUS
            <3>4. IsSeq(list)  BY <3>2, <3>3 DEF GoodResult, RowSeqs
            <3> QED  BY <3>3, <3>4, IsSeqLength
        <2>5. PICK m \in Nat : /\ DOMAIN Ranked(scores) = 1 .. m
                               /\ \A k \in 1 .. m : Ranked(scores)[k] \in DOMAIN scores
            BY <2>3, <2>4, RankedPicks
        <2> QED  BY <1>4, <2>1, <2>2, <2>3, <2>5
    <1>7. CASE TakeRanking \/ EmbedBatch
        <2>1. UNCHANGED <<queue, replies>>  BY <1>7 DEF TakeRanking, EmbedBatch
        <2> QED  BY <1>1, <1>2, <2>1, SameJobsHold
    <1>8. CASE CanceledBefore  BY <1>3, <1>8 DEF CanceledBefore
    <1>9. CASE StopRanking \/ EncodeFails \/ WorkerPanics
        <2>1. AtStage("embed") \/ AtStage("score")  BY <1>9 DEF StopRanking, EncodeFails, WorkerPanics
        <2>2. queue # <<>>  BY <1>1, <2>1 DEF WorkHolds, Embeds
        <2> QED  BY <1>3, <1>9, <2>2 DEF StopRanking, EncodeFails, WorkerPanics
    <1> QED  BY <1>5, <1>6, <1>7, <1>8, <1>9 DEF Worker

LEMMA DispatchKeepsJobs ==
    ASSUME RowsInv, DispatchJob PROVE JobsHold'
    <1> DEFINE job == Job(jobs', op.answer.result, search, title)
    <1>1. /\ TableInv /\ IsSeq(queue) /\ JobsHold /\ OpHolds
          /\ UNCHANGED <<rel, rows, clock, replies>>
        BY DEF RowsInv, CacheInv, SeqsHold, DispatchJob, tableVars
    <1>2. queue' = Append(queue, job) /\ jobs' = jobs + 1  BY DEF DispatchJob
    <1>3. GoodJob(job, rows, clock)
        <2>1. jobs' \in Nat \ {0}  BY <1>1, <1>2 DEF JobsHold
        <2>2. GoodResult(op.answer.result, rows, clock)  BY <1>1 DEF OpHolds, AnswerHolds, DispatchJob, HandledWith
        <2>3. job.id = jobs' /\ job.result = op.answer.result  BY DEF Job
        <2> QED  BY <2>1, <2>2, <2>3 DEF GoodJob
    <1> HIDE DEF job
    <1>4. \A i \in DOMAIN queue' : GoodJob(queue'[i], rows', clock')
        BY <1>1, <1>2, <1>3, PartsOfAppend DEF JobsHold
    <1>5. \A i \in DOMAIN replies' : GoodJob(replies'[i], rows', clock')  BY <1>1 DEF JobsHold
    <1>6. jobs' \in Nat  BY <1>1, <1>2 DEF JobsHold
    <1> QED  BY <1>4, <1>5, <1>6 DEF JobsHold

LEMMA PollKeepsJobs ==
    ASSUME RowsInv, PollSemantic PROVE JobsHold'
    <1>1. /\ IsSeq(replies) /\ JobsHold /\ replies # <<>> /\ replies' = Tail(replies)
          /\ UNCHANGED <<rows, clock, queue, jobs>>
        BY DEF RowsInv, CacheInv, SeqsHold, PollSemantic, tableVars
    <1>2. \A i \in DOMAIN replies' : GoodJob(replies'[i], rows', clock')  BY <1>1, PartsOfTail DEF JobsHold
    <1> QED  BY <1>1, <1>2 DEF JobsHold

LEMMA JobsNext ==
    ASSUME RowsInv, [Next]_vars, TableInv', OldRowsStay PROVE JobsHold'
    <1> DEFINE Same == UNCHANGED <<queue, replies, jobs>>
    <1>1. Same => JobsHold'  BY SameJobsHold
    <1>2. UNCHANGED vars => Same  BY DEF vars, workerVars, uiVars
    <1>3. UNCHANGED <<workerVars, uiVars>> => Same  BY DEF workerVars, uiVars
    <1>4. Worker /\ UNCHANGED <<tableVars, op, uiVars, requests>> => JobsHold'  BY WorkerKeepsJobs
    <1>5. User => Same
        BY DEF User, RunQueryByUser, TriggerSemanticSearch, RequestCancel, SubmitEdit, SubmitDelete, ChooseTitle,
               Request, workerVars
    <1>6. Handle => Same \/ DispatchJob
        BY DEF Handle, ShowRows, ApplyEdit, ApplyDelete, HydrateRow, HandleRefusal, OnlyGrid
    <1> QED  BY <1>1, <1>2, <1>3, <1>4, <1>5, <1>6, DispatchKeepsJobs, PollKeepsJobs DEF Next

(***************************************************************************)
(* The grid.                                                               *)
(***************************************************************************)
LEMMA SameGridHolds ==
    ASSUME RowsInv, TableInv', OldRowsStay, UNCHANGED grid PROVE GridHolds'
    <1>1. clock' \in Nat  BY DEF TableInv
    <1> QED  BY <1>1, GoodResultStays DEF RowsInv, GridHolds

\* Another row of the same result is as it was.
LEMMA OtherRowStays ==
    ASSUME NEW R, NEW Q, NEW i, NEW rs, NEW now, GoodRow(R, i, rs, now),
           Q.columns = R.columns, Q.source = R.source,
           Q.rows[i] = R.rows[i], Q.nulls[i] = R.nulls[i],
           Q.identities[i] = R.identities[i], Q.versions[i] = R.versions[i]
    PROVE  GoodRow(Q, i, rs, now)
    BY DEF GoodRow, RowShaped

\* A sequence with another element in the place of one.
LEMMA IsSeqExcept ==
    ASSUME NEW q, IsSeq(q), NEW i, NEW e
    PROVE  /\ IsSeq([q EXCEPT ![i] = e]) /\ DOMAIN [q EXCEPT ![i] = e] = DOMAIN q
           /\ i \in DOMAIN q => [q EXCEPT ![i] = e][i] = e
           /\ \A k \in DOMAIN q : k # i => [q EXCEPT ![i] = e][k] = q[k]
    <1> DEFINE p == [q EXCEPT ![i] = e]
    <1>1. PICK n \in Nat : DOMAIN q = 1 .. n  BY IsSeqLength
    <1>2. p = [k \in 1 .. n |-> p[k]]  BY <1>1
    <1>3. DOMAIN p = DOMAIN q /\ (i \in DOMAIN q => p[i] = e) /\ \A k \in DOMAIN q : k # i => p[k] = q[k]  OBVIOUS
    <1> HIDE DEF p
    <1>4. IsSeq(p)  BY <1>2, FunctionIsSeq
    <1> QED  BY <1>3, <1>4 DEF p

\* One row of a result is replaced by another one.
WithRow(R, i, shown, nulls, identity, version) ==
    [R EXCEPT !.rows[i] = shown, !.nulls[i] = nulls, !.identities[i] = identity, !.versions[i] = version]

LEMMA WithRowIsGood ==
    ASSUME NEW R, NEW rs, NEW now, GoodResult(R, rs, now), NEW i \in DOMAIN R.rows,
           NEW shown, NEW nulls, NEW identity, NEW version,
           GoodRow(WithRow(R, i, shown, nulls, identity, version), i, rs, now)
    PROVE  GoodResult(WithRow(R, i, shown, nulls, identity, version), rs, now)
    <1> DEFINE Q == WithRow(R, i, shown, nulls, identity, version)
    <1>1. ResultShape(R) /\ RowSeqs(R)  BY DEF GoodResult
    <1>2. /\ ResultShape(Q) /\ Q.columns = R.columns /\ Q.source = R.source /\ Q.sql = R.sql
          /\ Q.rows = [R.rows EXCEPT ![i] = shown] /\ Q.nulls = [R.nulls EXCEPT ![i] = nulls]
          /\ Q.identities = [R.identities EXCEPT ![i] = identity] /\ Q.versions = [R.versions EXCEPT ![i] = version]
        BY <1>1 DEF ResultShape, WithRow
    <1> HIDE DEF Q
    <1>3. /\ IsSeq(Q.rows) /\ DOMAIN Q.rows = DOMAIN R.rows
          /\ \A k \in DOMAIN R.rows : k # i => Q.rows[k] = R.rows[k]
        BY <1>1, <1>2, IsSeqExcept DEF RowSeqs
    <1>4. /\ IsSeq(Q.nulls) /\ DOMAIN Q.nulls = DOMAIN R.rows
          /\ \A k \in DOMAIN R.rows : k # i => Q.nulls[k] = R.nulls[k]
        BY <1>1, <1>2, IsSeqExcept DEF RowSeqs
    <1>5. /\ IsSeq(Q.identities) /\ DOMAIN Q.identities = DOMAIN R.rows
          /\ \A k \in DOMAIN R.rows : k # i => Q.identities[k] = R.identities[k]
        BY <1>1, <1>2, IsSeqExcept DEF RowSeqs
    <1>6. /\ IsSeq(Q.versions) /\ DOMAIN Q.versions = DOMAIN R.rows
          /\ \A k \in DOMAIN R.rows : k # i => Q.versions[k] = R.versions[k]
        BY <1>1, <1>2, IsSeqExcept DEF RowSeqs
    <1>7. RowSeqs(Q)  BY <1>3, <1>4, <1>5, <1>6 DEF RowSeqs
    <1>8. ASSUME NEW k \in DOMAIN R.rows PROVE GoodRow(Q, k, rs, now)
        <2>1. CASE k = i  BY <2>1 DEF Q
        <2>2. CASE k # i
            <3>1. GoodRow(R, k, rs, now)  BY DEF GoodResult
            <3> QED  BY <1>2, <1>3, <1>4, <1>5, <1>6, <2>2, <3>1, OtherRowStays
        <2> QED  BY <2>1, <2>2
    <1>9. TypedTargets(Q.sql)  BY <1>2 DEF GoodResult
    <1>10. GoodResult(Q, rs, now)  BY <1>2, <1>3, <1>7, <1>8, <1>9 DEF GoodResult
    <1> QED  BY <1>10 DEF Q

LEMMA ApplyEditKeepsGrid ==
    ASSUME RowsInv, ApplyEdit PROVE GridHolds'
    <1> DEFINE i == op.target
               a == op.answer
               shown == [grid.rows[i] EXCEPT ![op.cell] = Entered(op.value)]
               nulls == [grid.nulls[i] EXCEPT ![op.cell] = (op.value = Null)]
               Q == WithRow(grid, i, shown, nulls, a.identity, a.version)
    <1>1. GoodResult(grid, rows, clock) /\ ResultShape(grid) /\ RowSeqs(grid)  BY DEF RowsInv, GridHolds, GoodResult
    <1>2. i \in DOMAIN grid.rows /\ RowShaped(grid, i)
        BY DEF RowsInv, OpHolds, TargetHolds, ApplyEdit, HandledWith, ByIdentity, Mutations, Succeeded
    <1>3. a.version.typed /\ Follows(a.identity, a.version, rows, clock)
        BY DEF RowsInv, OpHolds, AnswerHolds, ApplyEdit, HandledWith
    <1>4. grid' = Q
        BY <1>1 DEF ApplyEdit, WithRow, ResultShape
    <1>5. DOMAIN shown = DOMAIN grid.columns /\ DOMAIN nulls = DOMAIN grid.columns /\ DOMAIN grid.source = DOMAIN grid.columns
        BY <1>2 DEF RowShaped
    <1>6. /\ Q.columns = grid.columns /\ Q.source = grid.source
          /\ Q.rows = [grid.rows EXCEPT ![i] = shown] /\ Q.nulls = [grid.nulls EXCEPT ![i] = nulls]
          /\ Q.identities = [grid.identities EXCEPT ![i] = a.identity] /\ Q.versions = [grid.versions EXCEPT ![i] = a.version]
        BY <1>1 DEF ResultShape, WithRow
    <1> HIDE DEF i, a, shown, nulls, Q
    <1>7. /\ Q.rows[i] = shown /\ Q.nulls[i] = nulls /\ Q.identities[i] = a.identity /\ Q.versions[i] = a.version
        BY <1>1, <1>2, <1>6 DEF RowSeqs
    <1>8. RowShaped(Q, i)  BY <1>2, <1>5, <1>6, <1>7 DEF RowShaped
    <1>9. GoodRow(Q, i, rows, clock)
        BY <1>3, <1>7, <1>8 DEF GoodRow, Shows
    <1>10. GoodResult(Q, rows, clock)  BY <1>1, <1>2, <1>9, WithRowIsGood DEF Q
    <1>11. UNCHANGED <<rows, clock>>  BY DEF ApplyEdit, OnlyGrid, tableVars
    <1> QED  BY <1>4, <1>10, <1>11 DEF GridHolds

\* remove_row: the rows below move up, each with its identity.
WithoutRow(R, i) ==
    [R EXCEPT !.rows = RemoveAt(@, i), !.nulls = RemoveAt(@, i),
              !.identities = RemoveAt(@, i), !.versions = RemoveAt(@, i)]

LEMMA WithoutRowIsGood ==
    ASSUME NEW R, NEW rs, NEW now, GoodResult(R, rs, now), NEW i \in DOMAIN R.rows
    PROVE  GoodResult(WithoutRow(R, i), rs, now)
    <1> DEFINE Q == WithoutRow(R, i)
               n == Len(R.rows)
    <1>1. ResultShape(R) /\ RowSeqs(R)  BY DEF GoodResult
    <1>2. /\ ResultShape(Q) /\ Q.columns = R.columns /\ Q.source = R.source /\ Q.sql = R.sql
          /\ Q.rows = RemoveAt(R.rows, i) /\ Q.nulls = RemoveAt(R.nulls, i)
          /\ Q.identities = RemoveAt(R.identities, i) /\ Q.versions = RemoveAt(R.versions, i)
        BY <1>1 DEF ResultShape, WithoutRow
    <1> HIDE DEF Q
    <1>3. ASSUME NEW q, IsSeq(q), DOMAIN q = DOMAIN R.rows
          PROVE  /\ IsSeq(RemoveAt(q, i)) /\ DOMAIN RemoveAt(q, i) = 1 .. n - 1
                 /\ \A k \in 1 .. n - 1 : RemoveAt(q, i)[k] = q[IF k < i THEN k ELSE k + 1]
        <2>1. PICK list : list = R.rows  OBVIOUS
        <2>2. IsSeq(list)  BY <1>1, <2>1 DEF RowSeqs
        <2>3. n \in Nat /\ DOMAIN R.rows = 1 .. n  BY <2>1, <2>2, IsSeqLength
        <2>4. Len(q) \in Nat /\ DOMAIN q = 1 .. Len(q)  BY <1>3, IsSeqLength
        <2>5. Len(q) = n
            <3>1. 1 .. Len(q) = 1 .. n  BY <1>3, <2>3, <2>4
            <3> QED  BY <2>3, <2>4, <3>1
        <2>6. i \in DOMAIN q  BY <1>3
        <2> QED  BY <1>3, <2>5, <2>6, RemoveAtShifts
    <1>4. RowSeqs(Q) /\ DOMAIN Q.rows = 1 .. n - 1
        <2>1. IsSeq(Q.rows) /\ DOMAIN Q.rows = 1 .. n - 1  BY <1>1, <1>2, <1>3 DEF RowSeqs
        <2>2. IsSeq(Q.nulls) /\ DOMAIN Q.nulls = 1 .. n - 1  BY <1>1, <1>2, <1>3 DEF RowSeqs
        <2>3. IsSeq(Q.identities) /\ DOMAIN Q.identities = 1 .. n - 1  BY <1>1, <1>2, <1>3 DEF RowSeqs
        <2>4. IsSeq(Q.versions) /\ DOMAIN Q.versions = 1 .. n - 1  BY <1>1, <1>2, <1>3 DEF RowSeqs
        <2> QED  BY <2>1, <2>2, <2>3, <2>4 DEF RowSeqs
    <1>5. ASSUME NEW k \in 1 .. n - 1 PROVE GoodRow(Q, k, rs, now)
        <2>1. PICK m : m = IF k < i THEN k ELSE k + 1  OBVIOUS
        <2>2. m \in DOMAIN R.rows
            <3>1. PICK list : list = R.rows  OBVIOUS
            <3>2. IsSeq(list)  BY <1>1, <3>1 DEF RowSeqs
            <3>3. n \in Nat /\ DOMAIN R.rows = 1 .. n  BY <3>1, <3>2, IsSeqLength
            <3> QED  BY <2>1, <3>3
        <2>3. GoodRow(R, m, rs, now)  BY <2>2 DEF GoodResult
        <2>4. /\ Q.rows[k] = R.rows[m] /\ Q.nulls[k] = R.nulls[m]
              /\ Q.identities[k] = R.identities[m] /\ Q.versions[k] = R.versions[m]
            BY <1>1, <1>2, <1>3, <2>1 DEF RowSeqs
        <2> QED  BY <1>2, <2>3, <2>4 DEF GoodRow, RowShaped
    <1>6. TypedTargets(Q.sql)  BY <1>2 DEF GoodResult
    <1>7. GoodResult(Q, rs, now)  BY <1>2, <1>4, <1>5, <1>6 DEF GoodResult
    <1> QED  BY <1>7 DEF Q

LEMMA ApplyDeleteKeepsGrid ==
    ASSUME RowsInv, ApplyDelete PROVE GridHolds'
    <1>1. GoodResult(grid, rows, clock)  BY DEF RowsInv, GridHolds
    <1>2. op.target \in DOMAIN grid.rows
        BY DEF RowsInv, OpHolds, TargetHolds, ApplyDelete, HandledWith, ByIdentity, Mutations, Succeeded
    <1>3. grid' = WithoutRow(grid, op.target)  BY DEF ApplyDelete, WithoutRow
    <1>4. UNCHANGED <<rows, clock>>  BY DEF ApplyDelete, OnlyGrid, tableVars
    <1>5. GoodResult(WithoutRow(grid, op.target), rows, clock)  BY <1>1, <1>2, WithoutRowIsGood
    <1> QED  BY <1>3, <1>4, <1>5 DEF GridHolds

\* hydrate_row: each cell is the column of the fresh row that its source names.
LEMMA HydrateRowKeepsGrid ==
    ASSUME RowsInv, HydrateRow PROVE GridHolds'
    <1> DEFINE i == op.target
               r == op.answer.result
               Index(j) == CHOOSE k \in DOMAIN r.columns : r.columns[k] = grid.source[j]
               shown == [j \in DOMAIN grid.rows[i] |-> r.rows[1][Index(j)]]
               nulls == [j \in DOMAIN grid.nulls[i] |-> r.nulls[1][Index(j)]]
               identity == r.identities[1]
               version == r.versions[1]
               Q == WithRow(grid, i, shown, nulls, identity, version)
    <1>1. GoodResult(grid, rows, clock) /\ ResultShape(grid) /\ RowSeqs(grid)  BY DEF RowsInv, GridHolds, GoodResult
    <1>2. i \in DOMAIN grid.rows /\ RowShaped(grid, i)
        BY DEF RowsInv, OpHolds, TargetHolds, HydrateRow, HandledWith, ByIdentity, Mutations, Succeeded
    <1>3. GoodResult(r, rows, clock) /\ DOMAIN r.rows = {1} /\ r.columns = Columns /\ r.source = Columns
        BY DEF RowsInv, OpHolds, AnswerHolds, HydrateRow, HandledWith
    <1>4. grid' = Q
        BY <1>1 DEF HydrateRow, WithRow, ResultShape
    <1>5. /\ DOMAIN shown = DOMAIN grid.columns /\ DOMAIN nulls = DOMAIN grid.columns
          /\ DOMAIN grid.source = DOMAIN grid.columns
        BY <1>2 DEF RowShaped
    <1>6. /\ Q.columns = grid.columns /\ Q.source = grid.source
          /\ Q.rows = [grid.rows EXCEPT ![i] = shown] /\ Q.nulls = [grid.nulls EXCEPT ![i] = nulls]
          /\ Q.identities = [grid.identities EXCEPT ![i] = identity] /\ Q.versions = [grid.versions EXCEPT ![i] = version]
        BY <1>1 DEF ResultShape, WithRow
    <1>7. ASSUME NEW j \in DOMAIN grid.columns, grid.source[j] # None
          PROVE  /\ Index(j) \in DOMAIN r.columns /\ r.source[Index(j)] = grid.source[j]
                 /\ shown[j] = r.rows[1][Index(j)] /\ nulls[j] = r.nulls[1][Index(j)]
        <2>1. grid.source[j] \in Column  BY <1>2, <1>7 DEF RowShaped
        <2>2. \E k \in DOMAIN Columns : Columns[k] = grid.source[j]  BY <2>1 DEF Column
        <2>3. Index(j) \in DOMAIN r.columns /\ r.columns[Index(j)] = grid.source[j]  BY <1>3, <2>2
        <2>4. j \in DOMAIN grid.rows[i] /\ j \in DOMAIN grid.nulls[i]  BY <1>2 DEF RowShaped
        <2> QED  BY <1>3, <2>3, <2>4
    <1>8. GoodRow(r, 1, rows, clock)  BY <1>3 DEF GoodResult
    <1> HIDE DEF i, r, shown, nulls, identity, version, Q
    <1>9. /\ Q.rows[i] = shown /\ Q.nulls[i] = nulls /\ Q.identities[i] = identity /\ Q.versions[i] = version
        BY <1>1, <1>2, <1>6 DEF RowSeqs
    <1>10. RowShaped(Q, i)  BY <1>2, <1>5, <1>6, <1>9 DEF RowShaped
    <1>11. GoodRow(Q, i, rows, clock)
        <2>1. identity = r.identities[1] /\ version = r.versions[1]  BY DEF identity, version
        <2>2. ASSUME identity # NoIdentity
              PROVE  /\ Follows(identity, version, rows, clock)
                     /\ \A j \in DOMAIN grid.columns : grid.source[j] # None =>
                           Shows(identity, version, shown[j], nulls[j], grid.source[j], rows)
            <3>1. Follows(identity, version, rows, clock)  BY <1>8, <2>1, <2>2 DEF GoodRow
            <3>2. ASSUME NEW j \in DOMAIN grid.columns, grid.source[j] # None
                  PROVE  Shows(identity, version, shown[j], nulls[j], grid.source[j], rows)
                <4>1. PICK k : k = Index(j)  OBVIOUS
                <4>2. /\ k \in DOMAIN r.columns /\ r.source[k] = grid.source[j]
                      /\ shown[j] = r.rows[1][k] /\ nulls[j] = r.nulls[1][k]
                    BY <1>7, <3>2, <4>1
                <4>3. Shows(identity, version, r.rows[1][k], r.nulls[1][k], r.source[k], rows)
                    BY <1>8, <2>1, <2>2, <3>2, <4>2 DEF GoodRow
                <4> QED  BY <4>2, <4>3
            <3> QED  BY <3>1, <3>2
        <2> QED  BY <1>6, <1>9, <1>10, <2>2 DEF GoodRow
    <1>12. GoodResult(Q, rows, clock)  BY <1>1, <1>2, <1>11, WithRowIsGood DEF Q
    <1>13. UNCHANGED <<rows, clock>>  BY DEF HydrateRow, OnlyGrid, tableVars
    <1> QED  BY <1>4, <1>12, <1>13 DEF GridHolds

LEMMA ShowRowsKeepsGrid ==
    ASSUME RowsInv, ShowRows PROVE GridHolds'
    <1>1. GoodResult(op.answer.result, rows, clock)
        BY DEF RowsInv, OpHolds, AnswerHolds, ShowRows, HandledWith
    <1>2. grid' = op.answer.result /\ UNCHANGED <<rows, clock>>  BY DEF ShowRows, OnlyGrid, tableVars
    <1> QED  BY <1>1, <1>2 DEF GridHolds

\* A ranking that was dispatched before rows were edited still shows them as they are.
LEMMA PollKeepsGrid ==
    ASSUME RowsInv, PollSemantic PROVE GridHolds'
    <1>1. /\ IsSeq(replies) /\ JobsHold /\ GridHolds /\ replies # <<>>
          /\ UNCHANGED <<rows, clock>>
        BY DEF RowsInv, CacheInv, SeqsHold, PollSemantic, tableVars
    <1>2. GoodResult(Head(replies).result, rows, clock)
        BY <1>1, PartsOfTail DEF JobsHold, GoodJob
    <1>3. grid' = Head(replies).result \/ grid' = grid  BY DEF PollSemantic
    <1> QED  BY <1>1, <1>2, <1>3 DEF GridHolds

LEMMA GridNext ==
    ASSUME RowsInv, [Next]_vars, TableInv', OldRowsStay PROVE GridHolds'
    <1>1. UNCHANGED grid => GridHolds'  BY SameGridHolds
    <1>2. UNCHANGED vars \/ UNCHANGED uiVars => UNCHANGED grid  BY DEF vars, uiVars
    <1>3. User => UNCHANGED grid
        BY DEF User, RunQueryByUser, TriggerSemanticSearch, RequestCancel, SubmitEdit, SubmitDelete, ChooseTitle, Request
    <1>4. Handle => UNCHANGED grid \/ ShowRows \/ ApplyEdit \/ ApplyDelete \/ HydrateRow
        BY DEF Handle, DispatchJob, HandleRefusal
    <1> QED  BY <1>1, <1>2, <1>3, <1>4, ShowRowsKeepsGrid, PollKeepsGrid, ApplyEditKeepsGrid, ApplyDeleteKeepsGrid,
                HydrateRowKeepsGrid DEF Next

(***************************************************************************)
(* The operation.                                                          *)
(***************************************************************************)
\* Other sessions, the ranking worker and the settings leave it alone.
LEMMA SameOpHolds ==
    ASSUME RowsInv, TableInv', OldRowsStay, UNCHANGED op, op.do \in ByIdentity => UNCHANGED <<grid, active>>
    PROVE  OpHolds'
    <1>1. /\ OpShape(op) /\ StatementHolds /\ PlanHolds /\ TargetHolds /\ MutationHolds /\ AnswerHolds /\ TableInv
          /\ clock' \in Nat
        BY DEF RowsInv, OpHolds, TableInv
    <1>2. OpShape(op)' /\ StatementHolds' /\ PlanHolds'  BY <1>1 DEF OpShape, StatementHolds, PlanHolds, Runs
    <1>3. TargetHolds'  BY <1>1 DEF TargetHolds, Runs, Succeeded, RowShaped
    <1>4. MutationHolds'
        <2>1. ASSUME Runs, op.do \in Mutations
              PROVE  op.identity # NoIdentity /\ Follows(op.identity, op.version, rows', clock')
            BY <1>1, <2>1, FollowsStays DEF MutationHolds
        <2>2. ASSUME Runs, op.do = "update"
              PROVE  op.value \in Value /\ Shows(op.identity, op.version, op.shown, op.null, op.column, rows')
            <3>1. op.do \in Mutations  BY <2>2 DEF Mutations
            <3> QED  BY <1>1, <2>2, <3>1, ShowsStays DEF MutationHolds
        <2> QED  BY <2>1, <2>2 DEF MutationHolds, Runs
    <1>5. AnswerHolds'  BY <1>1, GoodResultStays, FollowsStays DEF AnswerHolds
    <1> QED  BY <1>2, <1>3, <1>4, <1>5 DEF RowsInv, OpHolds

LEMMA IdleHolds ==
    ASSUME op' = Idle PROVE OpHolds'
    <1>1. /\ OpShape(op)' /\ op'.do = "idle" /\ op'.at = "idle" /\ op'.statement = NoStatement /\ op'.plan = NoPlan
          /\ op'.answer = NoAnswer
        BY DEF OpShape, Idle
    <1>2. op'.answer.is = "none"  BY <1>1 DEF NoAnswer, Answer
    <1> QED  BY <1>1, <1>2, OwnStatementsAreTyped
             DEF OpHolds, StatementHolds, PlanHolds, TargetHolds, MutationHolds, AnswerHolds, Runs, Succeeded,
                 ByIdentity, Mutations

LEMMA RefusalHolds ==
    ASSUME RowsInv, NEW is, is \in {"stale", "error"}, Refuses(is), UNCHANGED active PROVE OpHolds'
    <1>1. /\ OpShape(op)' /\ op'.do = op.do /\ op'.at = "answered" /\ op'.statement = NoStatement /\ op'.plan = NoPlan
          /\ op'.answer = Refusal(is)
        BY DEF OpShape, Idle, Refuses
    <1>2. op'.answer.is = is  BY <1>1 DEF Refusal, NoAnswer, Answer
    <1> QED  BY <1>1, <1>2, OwnStatementsAreTyped
             DEF RowsInv, OpHolds, StatementHolds, PlanHolds, TargetHolds, MutationHolds, AnswerHolds, Runs, Succeeded

\* A query of the user, or the one that refreshes the grid.
Asks(o, do, s) == o = [Idle EXCEPT !.statement = s, !.do = do, !.at = "start"]

LEMMA SendsHolds ==
    ASSUME NEW do, NEW s, Asks(op', do, s), TypedTargets(s), do = "run" \/ (do = "top" /\ s = SelectAll)
    PROVE  OpHolds'
    <1>1. /\ OpShape(op)' /\ op'.do = do /\ op'.at = "start" /\ op'.statement = s /\ op'.plan = NoPlan
          /\ op'.answer = NoAnswer
        BY DEF OpShape, Idle, Asks
    <1>2. op'.answer.is = "none"  BY <1>1 DEF NoAnswer, Answer
    <1> QED  BY <1>1, <1>2
             DEF OpHolds, StatementHolds, PlanHolds, TargetHolds, MutationHolds, AnswerHolds, Runs, Succeeded,
                 ByIdentity, Mutations

LEMMA SelectTopHolds == ASSUME SelectTop PROVE OpHolds'
    <1>1. Asks(op', "top", SelectAll)  BY DEF SelectTop, Sends, Idle, Asks
    <1> QED  BY <1>1, OwnStatementsAreTyped, SendsHolds

LEMMA RunSqlHolds == ASSUME NEW s, TypedTargets(s), RunSql(s) PROVE OpHolds'
    <1>1. Asks(op', "run", s)  BY DEF RunSql, Sends, Idle, Asks
    <1> QED  BY <1>1, SendsHolds

\* submit_row_delete and submit_results_edit take what the grid shows of one row.
LEMMA SubmitDeleteHolds == ASSUME RowsInv, SubmitDelete PROVE OpHolds'
    <1>1. PICK i \in DOMAIN grid.rows : op' = Targets("delete", i)  BY DEF SubmitDelete
    <1>2. active' = 0 /\ UNCHANGED <<grid, rows, clock>> /\ grid.identities[i] # NoIdentity
        BY DEF SubmitDelete, CancelPipeline, Request, tableVars, CanEdit
    <1>3. RowShaped(grid, i) /\ Follows(grid.identities[i], grid.versions[i], rows, clock)
        BY <1>2 DEF RowsInv, GridHolds, GoodResult, GoodRow
    <1>4. /\ OpShape(op)' /\ op'.do = "delete" /\ op'.at = "start" /\ op'.statement = NoStatement
          /\ op'.plan = NoPlan /\ op'.target = i /\ op'.identity = grid.identities[i]
          /\ op'.version = grid.versions[i] /\ op'.answer = NoAnswer
        BY <1>1 DEF OpShape, Idle, Targets
    <1>5. op'.answer.is = "none"  BY <1>4 DEF NoAnswer, Answer
    <1>6. TargetHolds'  BY <1>2, <1>3, <1>4 DEF TargetHolds, RowShaped
    <1>7. MutationHolds'  BY <1>2, <1>3, <1>4 DEF MutationHolds
    <1> QED  BY <1>4, <1>5, <1>6, <1>7, OwnStatementsAreTyped
             DEF OpHolds, StatementHolds, PlanHolds, AnswerHolds, Runs

LEMMA SubmitEditHolds == ASSUME RowsInv, SubmitEdit PROVE OpHolds'
    <1>1. PICK i \in DOMAIN grid.rows, j \in DOMAIN grid.columns, v \in Value :
              op' = [Targets("update", i) EXCEPT !.column = grid.source[j], !.value = v, !.cell = j,
                        !.shown = grid.rows[i][j], !.null = grid.nulls[i][j]]
        BY DEF SubmitEdit
    <1>2. /\ active' = 0 /\ UNCHANGED <<grid, rows, clock>>
          /\ grid.identities[i] # NoIdentity /\ grid.source[j] # None
        BY DEF SubmitEdit, CancelPipeline, Request, tableVars, CanEdit
    <1>3. /\ RowShaped(grid, i) /\ Follows(grid.identities[i], grid.versions[i], rows, clock)
          /\ Shows(grid.identities[i], grid.versions[i], grid.rows[i][j], grid.nulls[i][j], grid.source[j], rows)
        BY <1>2 DEF RowsInv, GridHolds, GoodResult, GoodRow
    <1>4. /\ OpShape(op)' /\ op'.do = "update" /\ op'.at = "start" /\ op'.statement = NoStatement
          /\ op'.plan = NoPlan /\ op'.target = i /\ op'.identity = grid.identities[i]
          /\ op'.version = grid.versions[i] /\ op'.answer = NoAnswer /\ op'.value = v
          /\ op'.column = grid.source[j] /\ op'.shown = grid.rows[i][j] /\ op'.null = grid.nulls[i][j]
        BY <1>1 DEF OpShape, Idle, Targets
    <1>5. op'.answer.is = "none"  BY <1>4 DEF NoAnswer, Answer
    <1>6. TargetHolds'  BY <1>2, <1>3, <1>4 DEF TargetHolds, RowShaped
    <1>7. MutationHolds'  BY <1>2, <1>3, <1>4 DEF MutationHolds
    <1> QED  BY <1>4, <1>5, <1>6, <1>7, OwnStatementsAreTyped
             DEF OpHolds, StatementHolds, PlanHolds, AnswerHolds, Runs

LEMMA UserHolds ==
    ASSUME RowsInv, User, TableInv', OldRowsStay PROVE OpHolds'
    <1>1. CASE RunQueryByUser
        BY <1>1, SelectTopHolds, StatementsAreTyped, RunSqlHolds DEF RunQueryByUser
    <1>2. CASE TriggerSemanticSearch  BY <1>2, SelectTopHolds DEF TriggerSemanticSearch
    <1>3. CASE RequestCancel  BY <1>3, IdleHolds DEF RequestCancel
    <1>4. CASE ChooseTitle  BY <1>4, SameOpHolds DEF ChooseTitle
    <1> QED  BY <1>1, <1>2, <1>3, <1>4, SubmitEditHolds, SubmitDeleteHolds DEF User

LEMMA RefreshAfterHolds ==
    ASSUME RowsInv, NEW context, RefreshAfter(context), context.identity # NoIdentity => op' # context
    PROVE  OpHolds'
    <1>1. CASE op' = Idle  BY <1>1, IdleHolds
    <1>2. CASE SelectTop  BY <1>2, SelectTopHolds
    <1>3. CASE RunSql(grid.sql)
        <2>1. PICK s : s = grid.sql  OBVIOUS
        <2>2. TypedTargets(s)  BY <2>1 DEF RowsInv, GridHolds, GoodResult
        <2> QED  BY <1>3, <2>1, <2>2, RunSqlHolds
    <1> QED  BY <1>1, <1>2, <1>3 DEF RefreshAfter

LEMMA ApplyEditHolds == ASSUME RowsInv, ApplyEdit, GridHolds' PROVE OpHolds'
    <1> DEFINE i == op.target
               context == [Idle EXCEPT !.do = "refresh", !.at = "start", !.target = i, !.identity = op.answer.identity]
    <1>1. context.identity = op.answer.identity  BY DEF Idle
    <1>2. RefreshAfter(context)  BY DEF ApplyEdit
    <1>3. ASSUME op' = context, context.identity # NoIdentity PROVE OpHolds'
        <2>1. /\ OpShape(op)' /\ op'.do = "refresh" /\ op'.at = "start" /\ op'.statement = NoStatement
              /\ op'.plan = NoPlan /\ op'.target = i /\ op'.answer = NoAnswer
            BY <1>3 DEF OpShape, Idle
        <2>2. op'.answer.is = "none"  BY <2>1 DEF NoAnswer, Answer
        <2>3. active' = 0  BY DEF ApplyEdit, CancelPipeline
        <2>4. /\ i \in DOMAIN grid.rows /\ ResultShape(grid)
              /\ DOMAIN grid.identities = DOMAIN grid.rows
            BY DEF RowsInv, GridHolds, GoodResult, RowSeqs, OpHolds, TargetHolds, ApplyEdit, HandledWith,
                   ByIdentity, Mutations, Succeeded
        <2>5. i \in DOMAIN grid'.rows /\ grid'.identities[i] = op.answer.identity
            BY <2>4 DEF ApplyEdit, ResultShape
        <2>6. RowShaped(grid, i)'  BY <1>1, <1>3, <2>5 DEF GridHolds, GoodResult, GoodRow
        <2>7. TargetHolds'  BY <2>1, <2>3, <2>5, <2>6 DEF TargetHolds, RowShaped
        <2> QED  BY <2>1, <2>2, <2>7, OwnStatementsAreTyped
                 DEF OpHolds, StatementHolds, PlanHolds, MutationHolds, AnswerHolds, Runs, Mutations
    <1> HIDE DEF context
    <1> QED  BY <1>2, <1>3, RefreshAfterHolds

LEMMA HandleHolds == ASSUME RowsInv, Handle, GridHolds' PROVE OpHolds'
    <1>1. CASE ApplyDelete
        <2>1. RefreshAfter(Idle) /\ Idle.identity = NoIdentity  BY <1>1 DEF ApplyDelete, Idle
        <2> QED  BY <2>1, RefreshAfterHolds
    <1> QED  BY <1>1, IdleHolds, ApplyEditHolds DEF Handle, ShowRows, DispatchJob, HydrateRow, HandleRefusal

\* The engine goes from the plan to the statement, in another transaction.
LEMMA PlanIsTheTables ==
    ASSUME RowsInv PROVE RowIdentityPlan = NoPlan \/ HasKey(RowIdentityPlan, RowIdentityPlan.key)
    <1> SUFFICES ASSUME RowIdentityPlan # NoPlan PROVE HasKey(RowIdentityPlan, RowIdentityPlan.key)  OBVIOUS
    <1>1. PICK key : key = rel.key  OBVIOUS
    <1>2. key \in Seq(Column)  BY <1>1 DEF RowsInv, TableInv, Relation
    <1>3. IsSeq(key)  BY <1>2, SeqIsSeq
    <1>4. rel.key # <<>> /\ RelationWide  BY DEF RowIdentityPlan
    <1>5. RowIdentityPlan.key = key  BY <1>1, <1>4 DEF RowIdentityPlan
    <1>6. HasKey(RowIdentityPlan, key)  BY <1>1, <1>3, <1>4, <1>5 DEF HasKey
    <1> QED  BY <1>5, <1>6

LEMMA StatementNextHolds ==
    ASSUME RowsInv, op.at = "start", NEW plan, op' = [op EXCEPT !.at = "statement", !.plan = plan],
           UNCHANGED <<grid, active, rows, clock>>, plan = NoPlan \/ HasKey(plan, plan.key),
           op.do \in ByIdentity => plan # NoPlan,
           op.do = "run" /\ plan # NoPlan => IsEditable(RunSqlPlan(op.statement))
    PROVE  OpHolds'
    <1>1. /\ OpShape(op) /\ StatementHolds /\ TargetHolds /\ MutationHolds /\ AnswerHolds
        BY DEF RowsInv, OpHolds
    <1>2. /\ OpShape(op)' /\ op'.do = op.do /\ op'.at = "statement" /\ op'.statement = op.statement
          /\ op'.plan = plan /\ op'.target = op.target /\ op'.identity = op.identity
          /\ op'.version = op.version /\ op'.answer = op.answer /\ op'.value = op.value
          /\ op'.column = op.column /\ op'.shown = op.shown /\ op'.null = op.null
        BY <1>1 DEF OpShape
    <1>3. StatementHolds' /\ PlanHolds'  BY <1>1, <1>2 DEF StatementHolds, PlanHolds, Runs
    <1>4. TargetHolds'  BY <1>1, <1>2 DEF TargetHolds, Runs, RowShaped
    <1>5. MutationHolds'  BY <1>1, <1>2 DEF MutationHolds, Runs
    <1>6. op'.answer.is = "none"  BY <1>1, <1>2 DEF AnswerHolds, NoAnswer, Answer
    <1>7. AnswerHolds'  BY <1>1, <1>2, <1>6 DEF AnswerHolds
    <1> QED  BY <1>2, <1>3, <1>4, <1>5, <1>7 DEF OpHolds

LEMMA PlansHold ==
    ASSUME RowsInv, WithoutPlan \/ LookUpPlan \/ ValidatePlan, UNCHANGED <<grid, active>> PROVE OpHolds'
    <1>1. UNCHANGED <<rows, clock>>  BY DEF WithoutPlan, LookUpPlan, ValidatePlan, tableVars
    <1>2. /\ OpShape(op) /\ PlanHolds /\ StatementHolds
          /\ RowIdentityPlan = NoPlan \/ HasKey(RowIdentityPlan, RowIdentityPlan.key)
        BY PlanIsTheTables DEF RowsInv, OpHolds
    <1>3. CASE WithoutPlan
        <2>1. op.at = "start" /\ op.do = "run" /\ op' = [op EXCEPT !.at = "statement"]  BY <1>3 DEF WithoutPlan, At
        <2>2. op' = [op EXCEPT !.at = "statement", !.plan = op.plan]  BY <1>2, <2>1 DEF OpShape
        <2>3. op.do \notin ByIdentity  BY <2>1 DEF ByIdentity, Mutations
        <2> QED  BY <1>1, <1>2, <2>1, <2>2, <2>3, StatementNextHolds DEF PlanHolds, StatementHolds
    <1>4. CASE LookUpPlan
        <2>1. /\ op.at = "start" /\ op.do \in Queries /\ NeedsPlan
              /\ op' = [op EXCEPT !.at = "statement", !.plan = RowIdentityPlan]
            BY <1>4 DEF LookUpPlan, At
        <2>2. op.do \notin ByIdentity  BY <2>1 DEF ByIdentity, Mutations, Queries
        <2> QED  BY <1>1, <1>2, <2>1, <2>2, StatementNextHolds DEF NeedsPlan
    <1>5. CASE ValidatePlan
        <2>1. op.at = "start" /\ op.do # "run"  BY <1>5 DEF ValidatePlan, At, ByIdentity, Mutations
        <2>2. CASE Refuses("stale")  BY <2>2, RefusalHolds
        <2>3. CASE RowIdentityPlan # NoPlan /\ op' = [op EXCEPT !.at = "statement", !.plan = RowIdentityPlan]
            BY <1>1, <1>2, <2>1, <2>3, StatementNextHolds
        <2> QED  BY <1>5, <2>2, <2>3 DEF ValidatePlan, Validates
    <1> QED  BY <1>3, <1>4, <1>5

LEMMA AnswersHold ==
    ASSUME RowsInv, op.at = "statement", NEW a, Answers(a), UNCHANGED <<grid, active>>,
           a.is = "rows" => /\ GoodResult(a.result, rows', clock')
                            /\ op.do = "refresh" => /\ DOMAIN a.result.rows = {1}
                                                    /\ a.result.columns = Columns /\ a.result.source = Columns,
           a.is = "updated" => a.version.typed /\ Follows(a.identity, a.version, rows', clock')
    PROVE  OpHolds'
    <1>1. OpShape(op) /\ StatementHolds /\ PlanHolds /\ TargetHolds  BY DEF RowsInv, OpHolds
    <1>2. /\ OpShape(op)' /\ op'.do = op.do /\ op'.at = "answered" /\ op'.statement = op.statement
          /\ op'.plan = op.plan /\ op'.target = op.target /\ op'.answer = a
        BY <1>1 DEF OpShape, Answers
    <1>3. StatementHolds' /\ PlanHolds'  BY <1>1, <1>2 DEF StatementHolds, PlanHolds, Runs
    <1>4. TargetHolds'  BY <1>1, <1>2 DEF TargetHolds, Runs, RowShaped
    <1>5. MutationHolds'  BY <1>2 DEF MutationHolds, Runs
    <1>6. AnswerHolds'  BY <1>2 DEF AnswerHolds
    <1> QED  BY <1>2, <1>3, <1>4, <1>5, <1>6 DEF OpHolds

LEMMA RunQueryHolds == ASSUME RowsInv, RunQuery, UNCHANGED <<grid, active>> PROVE OpHolds'
    <1> DEFINE result == Described(QueryResult(op.statement, op.plan), op.plan)
               a == Answer("rows", result, NoIdentity, NotRead)
    <1>1. /\ TableInv /\ StatementHolds /\ PlanHolds
          /\ op.at = "statement" /\ op.do \in Queries /\ Answers(a) /\ UNCHANGED <<rows, clock>>
        BY DEF RowsInv, OpHolds, RunQuery, At, tableVars
    <1>2. GoodResult(result, rows, clock)  BY <1>1, QueryIsGood DEF Runs
    <1>3. a.is = "rows" /\ a.result = result  BY DEF Answer
    <1>4. op.do # "refresh"  BY <1>1 DEF Queries
    <1> HIDE DEF a, result
    <1> QED  BY <1>1, <1>2, <1>3, <1>4, AnswersHold

LEMMA RefreshRowHolds == ASSUME RowsInv, RefreshRow, UNCHANGED <<grid, active>> PROVE OpHolds'
    <1>1. PICK r \in Found : Answers(Answer("rows", RefreshedRow(r, op.plan), NoIdentity, NotRead))
        BY DEF RefreshRow, RefreshedRow
    <1> DEFINE a == Answer("rows", RefreshedRow(r, op.plan), NoIdentity, NotRead)
    <1>2. /\ TableInv /\ op.at = "statement" /\ UNCHANGED <<rows, clock>> /\ r \in rows
          /\ op.plan # NoPlan /\ PlanHolds
        BY DEF RowsInv, OpHolds, RefreshRow, At, tableVars, Found, ByIdentity
    <1>3. PICK plan, key : plan = op.plan /\ key = op.plan.key  OBVIOUS
    <1>4. HasKey(plan, key)  BY <1>2, <1>3 DEF PlanHolds
    <1>5. /\ GoodResult(RefreshedRow(r, plan), rows, clock)
          /\ DOMAIN RefreshedRow(r, plan).rows = {1}
          /\ RefreshedRow(r, plan).columns = Columns /\ RefreshedRow(r, plan).source = Columns
        BY <1>2, <1>4, RefreshIsGood
    <1>6. a.is = "rows" /\ a.result = RefreshedRow(r, plan)  BY <1>3 DEF Answer
    <1>7. Answers(a)  BY <1>1
    <1> HIDE DEF a
    <1> QED  BY <1>2, <1>5, <1>6, <1>7, AnswersHold

LEMMA DeleteRowHolds == ASSUME RowsInv, DeleteRow, UNCHANGED <<grid, active>> PROVE OpHolds'
    <1>1. op.at = "statement" /\ (Answers(Refusal("deleted")) \/ Refuses("error"))
        BY DEF DeleteRow, At, AnswersOrLost
    <1>2. Refusal("deleted").is = "deleted"  BY DEF Refusal, NoAnswer, Answer
    <1>3. PICK a : a = Refusal("deleted")  OBVIOUS
    <1> QED  BY <1>1, <1>2, <1>3, AnswersHold, RefusalHolds

\* The identity that UPDATE ... RETURNING answers is the one of the row it wrote.
LEMMA EditedFollows ==
    ASSUME TableInv, PlanHolds, op.plan # NoPlan, clock' = clock + 1, NEW r, NEW c, NEW kept,
           kept \subseteq rows, rows' = kept \cup {Edited(r, c)}
    PROVE  Follows(IdentityOf(Edited(r, c)), Typed(Edited(r, c)), rows', clock')
    <1>1. PICK new, key : new = Edited(r, c) /\ key = op.plan.key  OBVIOUS
    <1>2. new.xmin = clock /\ clock \in Nat  BY <1>1 DEF Edited, Row, TableInv
    <1>3. IsSeq(key)  BY <1>1 DEF PlanHolds, HasKey
    <1>4. HiddenCells(new, key)[3] = new.xmin  BY <1>3, HiddenCellsAre
    <1>5. IdentityOf(new).xmin = HiddenCells(new, key)[0 + 3]  BY <1>1 DEF IdentityOf, DecodeIdentity
    <1>6. IdentityOf(new).xmin = clock  BY <1>2, <1>4, <1>5
    <1>7. ASSUME NEW q \in rows', q.xmin = clock PROVE q = new
        <2>1. ASSUME q \in rows PROVE FALSE
            <3>1. TypedRow(q, clock)  BY <2>1 DEF TableInv
            <3>2. q.xmin \in Nat /\ q.xmin < clock  BY <1>2, <3>1, TypedRowFields
            <3> QED  BY <1>2, <1>7, <3>2
        <2> QED  BY <1>1, <1>7, <2>1
    <1>8. Typed(new).of = new.version  BY DEF Typed
    <1>9. clock < clock'  BY <1>2
    <1>10. Follows(IdentityOf(new), Typed(new), rows', clock')
        BY <1>2, <1>6, <1>7, <1>8, <1>9 DEF Follows, Matches
    <1> QED  BY <1>1, <1>10

LEMMA UpdateCellHolds == ASSUME RowsInv, UpdateCell, UNCHANGED <<grid, active>> PROVE OpHolds'
    <1>1. PICK r \in Found, c \in Places :
              /\ Becomes((rows \ {r}) \cup {Edited(r, c)})
              /\ AnswersOrLost(Answer("updated", EmptyResult, IdentityOf(Edited(r, c)), Typed(Edited(r, c))))
        BY DEF UpdateCell, Edited
    <1>2. /\ TableInv /\ PlanHolds /\ op.plan # NoPlan /\ op.at = "statement"
        BY DEF RowsInv, OpHolds, UpdateCell, At, ByIdentity, Mutations
    <1>3. rows' = (rows \ {r}) \cup {Edited(r, c)} /\ clock' = clock + 1  BY <1>1 DEF Becomes
    <1>4. PICK kept : kept = rows \ {r}  OBVIOUS
    <1>5. PICK new : new = Edited(r, c)  OBVIOUS
    <1>6. Follows(IdentityOf(new), Typed(new), rows', clock')  BY <1>2, <1>3, <1>4, <1>5, EditedFollows
    <1>7. PICK a : a = Answer("updated", EmptyResult, IdentityOf(new), Typed(new))  OBVIOUS
    <1>8. a.is = "updated" /\ a.identity = IdentityOf(new) /\ a.version = Typed(new) /\ Typed(new).typed
        BY <1>7 DEF Answer, Typed
    <1>9. Answers(a) \/ Refuses("error")  BY <1>1, <1>5, <1>7 DEF AnswersOrLost
    <1>10. CASE Answers(a)  BY <1>2, <1>6, <1>8, <1>10, AnswersHold
    <1> QED  BY <1>9, <1>10, RefusalHolds

LEMMA EngineHolds == ASSUME RowsInv, Engine, UNCHANGED <<grid, active>> PROVE OpHolds'
    <1>1. RefuseBatch \/ NoRowFound \/ EngineFails => Refuses("error") \/ Refuses("stale")
        BY DEF RefuseBatch, NoRowFound, EngineFails
    <1> QED  BY <1>1, RefusalHolds, PlansHold, RunQueryHolds, RefreshRowHolds, DeleteRowHolds, UpdateCellHolds DEF Engine

\* A ranking answers while an edit runs only if it was canceled: its rows are not shown.
LEMMA PollHolds ==
    ASSUME RowsInv, PollSemantic, TableInv', OldRowsStay PROVE OpHolds'
    <1>1. UNCHANGED op  BY DEF PollSemantic
    <1>2. ASSUME op.do \in ByIdentity PROVE UNCHANGED <<grid, active>>
        <2>1. active = 0  BY <1>2 DEF RowsInv, OpHolds, TargetHolds
        <2>2. Head(replies).id \in Nat \ {0}
            <3>1. IsSeq(replies) /\ replies # <<>> /\ JobsHold  BY DEF RowsInv, CacheInv, SeqsHold, PollSemantic
            <3> QED  BY <3>1, PartsOfTail DEF JobsHold, GoodJob
        <2> QED  BY <2>1, <2>2 DEF PollSemantic
    <1> QED  BY <1>1, <1>2, SameOpHolds

LEMMA OpNext ==
    ASSUME RowsInv, [Next]_vars, TableInv', OldRowsStay, GridHolds' PROVE OpHolds'
    <1>1. UNCHANGED <<op, grid, active>> => OpHolds'  BY SameOpHolds
    <1>2. UNCHANGED vars \/ (UNCHANGED op /\ UNCHANGED uiVars) => UNCHANGED <<op, grid, active>>
        BY DEF vars, uiVars
    <1>3. OtherSession => UNCHANGED op  BY DEF OtherSession
    <1>4. UNCHANGED uiVars => UNCHANGED <<grid, active>>  BY DEF uiVars
    <1> QED  BY <1>1, <1>2, <1>3, <1>4, EngineHolds, UserHolds, HandleHolds, PollHolds DEF Next

LEMMA RankedRowsAreSeq == RowsInv => RankedIsSeq
    <1> SUFFICES ASSUME RowsInv, queue # <<>> PROVE IsSeq(Current.result.rows)  BY DEF RankedIsSeq
    <1>1. IsSeq(queue) /\ JobsHold  BY DEF RowsInv, CacheInv, SeqsHold
    <1>2. 1 \in DOMAIN queue /\ Current = queue[1]  BY <1>1, PartsOfTail DEF Current
    <1> QED  BY <1>1, <1>2 DEF JobsHold, GoodJob, GoodResult, RowSeqs

LEMMA RowsNext == RowsInv /\ [Next]_vars => RowsInv'
    <1> SUFFICES ASSUME RowsInv, [Next]_vars PROVE RowsInv'  OBVIOUS
    <1>1. TableInv' /\ OldRowsStay  BY TableNext
    <1>2. CacheInv'  BY CacheNext, RankedRowsAreSeq DEF RowsInv
    <1>3. JobsHold' /\ GridHolds'  BY <1>1, JobsNext, GridNext
    <1>4. OpHolds'  BY <1>1, <1>3, OpNext
    <1> QED  BY <1>1, <1>2, <1>3, <1>4 DEF RowsInv

\* Every identity that the grid, a ranking, an answer or an operation carries
\* finds no row of the table but the one it was read from, in the version that
\* was read, as long as it finds any (row_identity_plan, identity_predicate).
THEOREM RowsInvariance == Spec => []RowsInv
    <1>1. Init => RowsInv  BY RowsInit
    <1>2. RowsInv /\ [Next]_vars => RowsInv'  BY RowsNext
    <1> QED  BY <1>1, <1>2, PTL DEF Spec

(***************************************************************************)
(* A ranking that succeeds is the one that its rows give with no cache:    *)
(* the cache only ever holds the document that each of its keys stands for *)
(* (embeddings_for, hash_row, rank_rows), for any rows, scores, sizes of a *)
(* batch and interleaving of cancels, failures and panics.                 *)
(***************************************************************************)
THEOREM RankingsAreExact == Spec => RankingIsExact
    <1>1. RowsInv /\ [Next]_vars => [NewReplyExact]_vars  BY CacheNext, RankedRowsAreSeq DEF RowsInv
    <1>2. RankingIsExact <=> [][NewReplyExact]_vars  BY PTL DEF RankingIsExact, NewReplyExact
    <1> QED  BY RowsInvariance, <1>1, <1>2, PTL DEF Spec

(***************************************************************************)
(* What an edit or a delete may do to the table.                           *)
(***************************************************************************)
HitsShownRow ==
    Ran(Mutations) /\ rows' # rows =>
        \E r \in rows :
           /\ rows \ rows' = {r}
           /\ op.version.keyed => r.version = op.version.of
           /\ IF op.do = "delete" THEN rows' \subseteq rows
              ELSE /\ op.version.keyed => ShowedCell(r)
                   /\ \E n \in rows' : /\ rows' \ rows = {n}
                                       /\ n.cells = [r.cells EXCEPT ![op.column] = op.value]
ReportsWhatItDid == Ran(Mutations) /\ op'.answer.is \in {"updated", "deleted"} => rows' # rows
StaleChangesNothing == op'.answer.is = "stale" /\ op.at # "answered" => UNCHANGED rows

\* The predicate on place, transaction and key finds no other row than the one
\* that the grid shows (identity_predicate).
LEMMA FoundIsShown ==
    ASSUME RowsInv, op.do \in Mutations, Runs, NEW r \in Found
    PROVE  /\ r \in rows
           /\ op.version.keyed => r.version = op.version.of
           /\ op.do = "update" /\ op.version.keyed => ShowedCell(r)
    <1>1. r \in rows /\ Matches(r, op.identity)  BY DEF Found, IdentityPredicate, Matches
    <1>2. op.identity # NoIdentity /\ Follows(op.identity, op.version, rows, clock)
        BY DEF RowsInv, OpHolds, MutationHolds
    <1>3. op.version.keyed => r.version = op.version.of  BY <1>1, <1>2 DEF Follows
    <1>4. ASSUME op.do = "update", op.version.keyed PROVE ShowedCell(r)
        <2>1. Shows(op.identity, op.version, op.shown, op.null, op.column, rows)
            BY <1>4 DEF RowsInv, OpHolds, MutationHolds
        <2>2. CASE ~op.version.typed
            <3>1. op.shown = Display(op.column, r.cells[op.column]) /\ op.null = IsNull(r.cells[op.column])
                BY <1>1, <1>2, <1>4, <2>1, <2>2 DEF Shows
            <3> QED  BY <3>1 DEF ShowedCell, IsNull
        <2> QED  BY <2>2 DEF ShowedCell
    <1> QED  BY <1>1, <1>3, <1>4

\* A row of the transaction that runs is new.
LEMMA EditedIsNew ==
    ASSUME TableInv, op.value \in Value, NEW r \in rows, NEW c \in Places,
           rows' = (rows \ {r}) \cup {Edited(r, c)}
    PROVE  /\ rows \ rows' = {r} /\ rows' \ rows = {Edited(r, c)}
           /\ Edited(r, c).cells = [r.cells EXCEPT ![op.column] = op.value]
    <1>1. Edited(r, c).xmin = clock /\ clock \in Nat  BY EditedIsTyped DEF TableInv
    <1>2. Edited(r, c) \notin rows
        <2> SUFFICES ASSUME Edited(r, c) \in rows PROVE FALSE  OBVIOUS
        <2>1. TypedRow(Edited(r, c), clock)  BY DEF TableInv
        <2>2. Edited(r, c).xmin \in Nat /\ Edited(r, c).xmin < clock  BY <1>1, <2>1, TypedRowFields
        <2> QED  BY <1>1, <2>2
    <1>3. Edited(r, c).cells = [r.cells EXCEPT ![op.column] = op.value]  BY DEF Edited, Row
    <1> QED  BY <1>2, <1>3

LEMMA UpdateCellHits ==
    ASSUME RowsInv, UpdateCell PROVE HitsShownRow /\ ReportsWhatItDid /\ StaleChangesNothing
    <1>1. PICK r \in Found, c \in Places :
              /\ Becomes((rows \ {r}) \cup {Edited(r, c)})
              /\ AnswersOrLost(Answer("updated", EmptyResult, IdentityOf(Edited(r, c)), Typed(Edited(r, c))))
        BY DEF UpdateCell, Edited
    <1>2. op.at = "statement" /\ op.do = "update" /\ op.do \in Mutations /\ Runs
        BY DEF UpdateCell, At, Mutations, Runs
    <1>3. /\ TableInv /\ OpShape(op) /\ op.value \in Value
          /\ rows' = (rows \ {r}) \cup {Edited(r, c)}
        BY <1>1, <1>2 DEF RowsInv, OpHolds, MutationHolds, Becomes
    <1>4. /\ r \in rows
          /\ op.version.keyed => r.version = op.version.of
          /\ op.version.keyed => ShowedCell(r)
        BY <1>2, FoundIsShown
    <1>5. PICK new : new = Edited(r, c)  OBVIOUS
    <1>6. /\ rows \ rows' = {r} /\ rows' \ rows = {new}
          /\ new.cells = [r.cells EXCEPT ![op.column] = op.value]
        BY <1>3, <1>4, <1>5, EditedIsNew
    <1>7. rows' # rows /\ new \in rows'  BY <1>6
    <1>8. HitsShownRow  BY <1>2, <1>4, <1>6, <1>7 DEF HitsShownRow
    <1>9. op'.answer.is # "stale"
        <2>1. PICK a : a = Answer("updated", EmptyResult, IdentityOf(new), Typed(new))  OBVIOUS
        <2>2. a.is = "updated"  BY <2>1 DEF Answer
        <2>3. Answers(a) => op'.answer = a  BY <1>3 DEF Answers, OpShape
        <2>4. Refuses("error") => op'.answer.is = "error"  BY DEF Refuses, Idle, Refusal, NoAnswer, Answer
        <2> QED  BY <1>1, <1>5, <2>1, <2>2, <2>3, <2>4 DEF AnswersOrLost
    <1> QED  BY <1>7, <1>8, <1>9 DEF ReportsWhatItDid, StaleChangesNothing

LEMMA DeleteRowHits ==
    ASSUME RowsInv, DeleteRow PROVE HitsShownRow /\ ReportsWhatItDid /\ StaleChangesNothing
    <1>1. PICK r \in Found : Becomes(rows \ {r}) /\ AnswersOrLost(Refusal("deleted"))  BY DEF DeleteRow
    <1>2. op.at = "statement" /\ op.do = "delete" /\ op.do \in Mutations /\ Runs
        BY DEF DeleteRow, At, Mutations, Runs
    <1>3. OpShape(op) /\ rows' = rows \ {r}  BY <1>1 DEF RowsInv, OpHolds, Becomes
    <1>4. r \in rows /\ (op.version.keyed => r.version = op.version.of)  BY <1>2, FoundIsShown
    <1>5. rows \ rows' = {r} /\ rows' # rows /\ rows' \subseteq rows  BY <1>3, <1>4
    <1>6. HitsShownRow  BY <1>2, <1>4, <1>5 DEF HitsShownRow
    <1>7. op'.answer.is # "stale"
        <2>1. Answers(Refusal("deleted")) => op'.answer = Refusal("deleted")  BY <1>3 DEF Answers, OpShape
        <2>2. Refuses("error") => op'.answer = Refusal("error")  BY DEF Refuses, Idle
        <2>3. Refusal("deleted").is = "deleted" /\ Refusal("error").is = "error"  BY DEF Refusal, NoAnswer, Answer
        <2> QED  BY <1>1, <2>1, <2>2, <2>3 DEF AnswersOrLost
    <1> QED  BY <1>5, <1>6, <1>7 DEF ReportsWhatItDid, StaleChangesNothing

\* What else the engine does leaves the rows alone, and reports no edit of them.
LEMMA OtherEngineHits ==
    ASSUME RowsInv, Engine, ~UpdateCell, ~DeleteRow
    PROVE  HitsShownRow /\ ReportsWhatItDid /\ StaleChangesNothing
    <1>1. UNCHANGED rows
        BY DEF Engine, RefuseBatch, WithoutPlan, LookUpPlan, ValidatePlan, RunQuery, NoRowFound, RefreshRow,
               EngineFails, tableVars
    <1>2. ASSUME Ran(Mutations) PROVE op'.answer.is \in {"stale", "error"}
        <2>1. op.at = "statement" /\ op.do \in Mutations  BY <1>2 DEF Ran
        <2>2. NoRowFound \/ EngineFails
            BY <2>1 DEF Engine, RefuseBatch, WithoutPlan, LookUpPlan, ValidatePlan, RunQuery, RefreshRow, At,
                        Queries, Mutations
        <2>3. Refuses("stale") \/ Refuses("error")  BY <2>2 DEF NoRowFound, EngineFails
        <2> QED  BY <2>3 DEF Refuses, Idle, Refusal, NoAnswer, Answer
    <1> QED  BY <1>1, <1>2 DEF HitsShownRow, ReportsWhatItDid, StaleChangesNothing

LEMMA MutationStep ==
    ASSUME RowsInv, [Next]_vars PROVE HitsShownRow /\ ReportsWhatItDid /\ StaleChangesNothing
    <1>1. ASSUME UNCHANGED op PROVE HitsShownRow /\ ReportsWhatItDid /\ StaleChangesNothing
        <2>1. op.at # "answered" => op'.answer.is = "none"
            BY <1>1 DEF RowsInv, OpHolds, AnswerHolds, NoAnswer, Answer
        <2> QED  BY <1>1, <2>1 DEF HitsShownRow, ReportsWhatItDid, StaleChangesNothing, Ran
    <1>2. ASSUME UNCHANGED rows, ~Ran(Mutations) PROVE HitsShownRow /\ ReportsWhatItDid /\ StaleChangesNothing
        BY <1>2 DEF HitsShownRow, ReportsWhatItDid, StaleChangesNothing
    <1>3. CASE User
        <2>1. UNCHANGED rows
            BY <1>3 DEF User, RunQueryByUser, TriggerSemanticSearch, RequestCancel, SubmitEdit, SubmitDelete,
                        ChooseTitle, Request, tableVars
        <2>2. op'.at # "answered" \/ UNCHANGED op
            <3>1. SelectTop => op'.at = "start"  BY DEF SelectTop, Sends, Idle
            <3>2. \A s \in Statements : RunSql(s) => op'.at = "start"  BY DEF RunSql, Sends, Idle
            <3>3. RequestCancel => op'.at = "idle"  BY DEF RequestCancel, Idle
            <3>4. ASSUME SubmitEdit PROVE op'.at = "start"
                <4>1. PICK i \in DOMAIN grid.rows, j \in DOMAIN grid.columns, v \in Value :
                          op' = [Targets("update", i) EXCEPT !.column = grid.source[j], !.value = v, !.cell = j,
                                    !.shown = grid.rows[i][j], !.null = grid.nulls[i][j]]
                    BY <3>4 DEF SubmitEdit
                <4> QED  BY <4>1 DEF Targets, Idle
            <3>5. SubmitDelete => op'.at = "start"  BY DEF SubmitDelete, Targets, Idle
            <3> QED  BY <1>3, <3>1, <3>2, <3>3, <3>4, <3>5
                     DEF User, RunQueryByUser, TriggerSemanticSearch, ChooseTitle
        <2> QED  BY <1>1, <1>2, <2>1, <2>2 DEF Ran
    <1>4. CASE Handle
        <2>1. UNCHANGED rows /\ op.at = "answered"
            BY <1>4 DEF Handle, ShowRows, DispatchJob, ApplyEdit, ApplyDelete, HydrateRow, HandleRefusal, HandledWith,
                        OnlyGrid, tableVars
        <2> QED  BY <1>2, <2>1 DEF Ran
    <1>5. CASE Engine  BY <1>5, UpdateCellHits, DeleteRowHits, OtherEngineHits
    <1> QED  BY <1>1, <1>3, <1>4, <1>5 DEF Next, OtherSession, PollSemantic, vars

(***************************************************************************)
(* Whatever other sessions do between the result that showed a row and the *)
(* statement that edits or deletes it, the statement hits the row that the *)
(* grid shows, in the version that was read by the key of the table, and   *)
(* one that answers "stale" hits none (identity_predicate, finish_edit,    *)
(* hydrate_row, subset_result): every identity that a grid, a job, an      *)
(* answer or an operation carries matches no row of the table but the one  *)
(* it was read from.                                                       *)
(***************************************************************************)
THEOREM MutationsHitShownRow == Spec => MutationHitsShownRow
    <1> DEFINE Step == HitsShownRow /\ ReportsWhatItDid /\ StaleChangesNothing
    <1>1. RowsInv /\ [Next]_vars => [Step]_vars  BY MutationStep
    <1>2. MutationHitsShownRow <=> [][Step]_vars
        BY PTL DEF MutationHitsShownRow, HitsShownRow, ReportsWhatItDid, StaleChangesNothing
    <1> QED  BY RowsInvariance, <1>1, <1>2, PTL DEF Spec

=============================================================================
