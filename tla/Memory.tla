------------------------------- MODULE Memory -------------------------------
(***************************************************************************)
(* What an agent remembers: remember, remember_batch and remember_document *)
(* (src/agent/runtime.rs) cut a text into chunks (src/vector/chunk.rs),    *)
(* have them embedded by the provider (src/llm/nvidia.rs, with its         *)
(* retries) and store them (module VectorStores); recall searches them.    *)
(*                                                                         *)
(* The calls of one caller are followed, one after the other; the next may *)
(* be the first once more, after it failed.  A vector is the text it was   *)
(* made of.                                                                *)
(***************************************************************************)
EXTENDS Chunks, VectorStores

CONSTANTS
  Histories,   \* sequences of calls to consider
  Kinds,       \* the stores to consider
  EmbedBatch,  \* BATCH of NvidiaClient::embed
  StoreBatch,  \* batch size of remember_batch
  MaxRetries, BaseDelay, MaxDelay,   \* the RetryPolicy
  MaxU32,      \* u32::MAX
  Jitters,     \* what delay_for may add, in percent
  RetryAfters  \* Retry-After headers: sets of at most one delay

ASSUME MemoryAssumption ==
  /\ {EmbedBatch, StoreBatch, Overfetch, MaxU32} \subseteq Nat \ {0}
  /\ {MaxRetries, BaseDelay, MaxDelay} \subseteq Nat /\ Jitters \subseteq 0..20
  /\ \A after \in RetryAfters : after \subseteq Nat /\ \A d, e \in after : d = e
  /\ \A history \in Histories :
       /\ history \in Seq(Range(history))
       /\ \A c \in 1..Len(history) :
            \/ /\ history[c].op \in {"one", "batch"}
               /\ history[c].texts \in Seq(Range(history[c].texts))
            \/ /\ history[c].op = "document"
               /\ history[c].words \in Seq(Nat \ {0})
               /\ history[c].max \in Nat /\ history[c].overlap \in Nat

ASSUME MetadataAssumption ==
  /\ Kinds \subseteq {"memory", "qdrant", "pinecone", "pg", "custom"}
  /\ \A history \in Histories : \A c \in 1..Len(history) : IsMetadata(history[c].metadata)

VARIABLES
  kind,    \* "memory", "qdrant", "pinecone", "pg", or "custom"
  calls,   \* the calls
  at,      \* how many of them have begun
  stage,   \* "idle", "embedding", "storing"
  texts,   \* the batches of texts of each call that has begun
  queue,   \* batches of texts left to remember, the present one first
  posted,  \* how many texts of the batch the provider has answered
  vectors, \* their vectors
  delays,  \* the pauses between the attempts at the present POST
  pending, \* documents that wait to be stored
  ids,     \* ids to be returned
  store,   \* what the store keeps, in the order it came in
  answers, \* what the calls returned
  forgotten \* history variable: calls whose documents were deleted

vars == <<kind, calls, at, texts, stage, queue, posted, vectors, delays, pending, ids, store, answers,
          forgotten>>

-----------------------------------------------------------------------------
(* Calls *)

\* The texts of a call, in batches: a document has one batch for each chunk.
Batches(call) ==
  CASE call.op = "one"      -> <<call.texts>>
    [] call.op = "batch"    -> IF call.texts = <<>> THEN <<>> ELSE <<call.texts>>
    [] call.op = "document" -> LET chunks == ChunkText(call.words, call.max, call.overlap)
                               IN  [i \in 1..Len(chunks) |-> <<chunks[i]>>]

\* A chunk's number goes into its metadata, if that is an object.
MetadataOf(call, batch) ==
  IF call.op = "document" /\ call.metadata.is = "object"
  THEN Object([f \in DOMAIN call.metadata.fields \cup {"_chunk"} |->
                 IF f = "_chunk" THEN Text(ToString(batch - 1)) ELSE call.metadata.fields[f]])
  ELSE call.metadata

Call == calls[at]
BatchNumber == Len(texts[at]) - Len(queue) + 1

\* The documents of the present batch; a UUID is as good as its place.
DocumentsOf(vs) ==
  [i \in 1..Len(vs) |->
     Document(<<at, BatchNumber, i>>, vs[i], queue[1][i], MetadataOf(Call, BatchNumber))]

Init ==
  /\ kind \in Kinds
  /\ calls \in Histories
  /\ at = 0 /\ texts = <<>>
  /\ stage = "idle"
  /\ queue = <<>> /\ posted = 0 /\ vectors = <<>> /\ delays = <<>> /\ pending = <<>>
  /\ ids = <<>> /\ store = <<>> /\ answers = <<>> /\ forgotten = {}

Ends(answer) ==
  /\ stage' = "idle"
  /\ answers' = Append(answers, answer)
  /\ queue' = <<>> /\ posted' = 0 /\ vectors' = <<>> /\ delays' = <<>> /\ pending' = <<>>
  /\ ids' = <<>>

Error == [ok |-> FALSE, ids |-> <<>>]

\* The call goes on with its batches, or it returns the ids.
GoOn(batches, all) ==
  IF batches = <<>> THEN Ends([ok |-> TRUE, ids |-> all])
  ELSE /\ stage' = "embedding"
       /\ queue' = batches /\ ids' = all
       /\ posted' = 0 /\ vectors' = <<>> /\ delays' = <<>> /\ pending' = <<>>
       /\ UNCHANGED answers

Begin ==
  /\ stage = "idle" /\ at < Len(calls)
  /\ at' = at + 1
  /\ LET batches == Batches(calls[at + 1])
     IN  texts' = Append(texts, batches) /\ GoOn(batches, <<>>)
  /\ UNCHANGED <<kind, calls, store, forgotten>>

-----------------------------------------------------------------------------
(* post_json *)

\* 2u32.saturating_pow(attempt).
Factor[attempt \in 0..MaxRetries] ==
  IF attempt = 0 THEN 1 ELSE Min({2 * Factor[attempt - 1], MaxU32})

\* The exponential delay, up to its bound.  (Where the product saturates it is past it.)
Capped(attempt) == Min({BaseDelay * Factor[attempt], MaxDelay})

\* Altered: jitter is added to a delay that is at its bound.
DelayWithoutBound(attempt, after, jitter) ==
  IF after # {} THEN Min(after \cup {MaxDelay})
  ELSE Capped(attempt) + (Capped(attempt) * jitter) \div 100

\* delay_for: what the provider asks for, or twice as long each time.
DelayFor(attempt, after, jitter) ==
  IF after # {} THEN Min(after \cup {MaxDelay})
  ELSE Min({Capped(attempt) + (Capped(attempt) * jitter) \div 100, MaxDelay})

\* Altered: attempts are not counted.
RetryForever(after, jitter) ==
  /\ stage = "embedding"
  /\ delays' = <<[asked |-> after, delay |-> DelayFor(0, after, jitter)]>>
  /\ UNCHANGED <<kind, calls, at, texts, stage, queue, posted, vectors, pending, ids, store,
                 answers, forgotten>>

\* 429, 5xx, a timeout, no connection: once more after a while.
Retry(after, jitter) ==
  /\ stage = "embedding"
  /\ Len(delays) < MaxRetries
  /\ delays' = Append(delays, [asked |-> after, delay |-> DelayFor(Len(delays), after, jitter)])
  /\ UNCHANGED <<kind, calls, at, texts, stage, queue, posted, vectors, pending, ids, store,
                 answers, forgotten>>

\* The retries are used up, the error is none to retry, the body is no answer, or
\* the caller has gone.
GiveUp ==
  /\ stage = "embedding"
  /\ Ends(Error)
  /\ UNCHANGED <<kind, calls, at, texts, store, forgotten>>

\* Altered: the vectors are taken in the order in which they come.
InOrderOfArrival(data) == [i \in 1..Len(data) |-> data[i].embedding]

\* embed sorts what has come by its index.
InOrder(data) ==
  LET n      == Len(data)
      sorted == CHOOSE p \in Bijection(1..n, 1..n) :
                  \A i, j \in 1..n : i < j => data[p[i]].index <= data[p[j]].index
  IN  [i \in 1..n |-> data[sorted[i]].embedding]

\* The texts of the next request to the embeddings endpoint.
Group == SubSeq(queue[1], posted + 1, Min({posted + EmbedBatch, Len(queue[1])}))

\* What the provider may send back: a vector for each text, or for fewer, in any order.
Responses ==
  LET indices == {s \in SeqOf(1..Len(Group), Len(Group)) : IsInjective(s)}
  IN  {[i \in 1..Len(s) |-> [index |-> s[i], embedding |-> Group[s[i]]]] : s \in indices}

\* A response: the next request, or the documents, or an error if there are not as
\* many vectors as texts.
Embedded(data) ==
  /\ stage = "embedding"
  /\ LET all == vectors \o InOrder(data)
         n   == posted + Len(Group)
     IN  IF n < Len(queue[1])
         THEN /\ vectors' = all /\ posted' = n /\ delays' = <<>>
              /\ UNCHANGED <<stage, queue, pending, ids, answers>>
         ELSE IF Len(all) # Len(queue[1]) THEN Ends(Error)
         ELSE /\ stage' = "storing"
              /\ pending' = DocumentsOf(all)
              /\ vectors' = <<>> /\ delays' = <<>>
              /\ UNCHANGED <<queue, posted, ids, answers>>
  /\ UNCHANGED <<kind, calls, at, texts, store, forgotten>>

-----------------------------------------------------------------------------
(* upsert_batched *)

\* PostgreSQL takes one document at a time, the others a batch at once.
Unit == Min({IF kind = "pg" THEN 1 ELSE StoreBatch, Len(pending)})

\* The next documents are stored; after the last, the next batch.
Store ==
  /\ stage = "storing"
  /\ store' = Upsert(kind, store, SubSeq(pending, 1, Unit))
  /\ IF Len(pending) > Unit
     THEN /\ pending' = SubSeq(pending, Unit + 1, Len(pending))
          /\ UNCHANGED <<stage, queue, posted, vectors, delays, ids, answers>>
     ELSE GoOn(Tail(queue), ids \o [i \in 1..Len(queue[1]) |-> <<at, BatchNumber, i>>])
  /\ UNCHANGED <<kind, calls, at, texts, forgotten>>

\* The store fails or the caller goes.  The store of this process refuses a document
\* without a vector and keeps none of the batch; another may or may not have carried
\* out what it was asked.
StoreFails ==
  /\ stage = "storing"
  /\ store' \in {store} \cup
       (IF kind = "memory" THEN {} ELSE {Upsert(kind, store, SubSeq(pending, 1, Unit))})
  /\ Ends(Error)
  /\ UNCHANGED <<kind, calls, at, texts, forgotten>>

Step ==
  \/ \E after \in RetryAfters, jitter \in Jitters : Retry(after, jitter)
  \/ GiveUp
  \/ \E data \in Responses : Embedded(data)
  \/ Store
  \/ StoreFails

\* The application deletes what a call has remembered (vector_store).
Forget(c) ==
  /\ stage = "idle" /\ c \in 1..at /\ c \notin forgotten
  /\ answers[c].ok
  /\ store' = Delete(kind, store, Range(answers[c].ids))
  /\ forgotten' = forgotten \cup {c}
  /\ UNCHANGED <<kind, calls, at, texts, stage, queue, posted, vectors, delays, pending, ids, answers>>

Next == Begin \/ (\E c \in 1..at : Forget(c)) \/ (stage # "idle" /\ Step)

Spec == Init /\ [][Next]_vars

\* A store outside the process is waited for without a timeout.
WaitsForStore == kind # "memory" /\ stage = "storing"

\* A call goes on: its pauses end, and the provider's client has a timeout.  Nothing
\* makes a store outside the process answer.
FairSpec == Spec /\ WF_vars(stage # "idle" /\ ~WaitsForStore /\ Step)

-----------------------------------------------------------------------------
(* Properties *)

TypeOK ==
  /\ at \in 0..Len(calls) /\ stage \in {"idle", "embedding", "storing"}
  /\ Len(texts) = at /\ Len(answers) = IF stage = "idle" THEN at ELSE at - 1

\* What was remembered under an id, what a call has to store, and what it has stored.
Remembered(id) ==
  Document(id, texts[id[1]][id[2]][id[3]], texts[id[1]][id[2]][id[3]],
           MetadataOf(calls[id[1]], id[2]))
Expected(c) ==
  FlattenSeq([b \in 1..Len(texts[c]) |->
                [i \in 1..Len(texts[c][b]) |-> Remembered(<<c, b, i>>)]])
StoredBy(c) == Among(store, {d \in Range(store) : IdOf(kind, d)[1] = c})

\* Whatever fails, a call has stored a beginning of its texts, each once, in order
\* and with its own vector; and all of them, under the ids it returns, if it
\* returned ids (remember_batch, remember_document, embed, upsert_batched).  With
\* these ids they can be deleted, and nothing else is (delete).
StoredAPrefix ==
  \A c \in 1..at :
    LET expected == Each(Expected(c), LAMBDA d : Keep(kind, d))
    IN  IF c \in forgotten THEN StoredBy(c) = <<>>
        ELSE /\ IsPrefix(StoredBy(c), expected)
             /\ c <= Len(answers) /\ answers[c].ok =>
                  /\ StoredBy(c) = expected
                  /\ answers[c].ids = Each(Expected(c), LAMBDA d : d.id)

\* A POST is repeated at most max_retries times, no pause is longer than max_delay,
\* one the provider asks for is kept up to that, and the others grow, until the factor
\* is at the bound of its type (RetryPolicy).
RetriesBackOff ==
  /\ Len(delays) <= MaxRetries
  /\ \A i \in 1..Len(delays) :
       /\ delays[i].delay <= MaxDelay
       /\ \A a \in delays[i].asked : delays[i].delay = Min({a, MaxDelay})
  /\ \A i, j \in 1..Len(delays) :
       /\ i < j /\ Factor[j - 1] < MaxU32
       /\ delays[i].asked = {} /\ delays[j].asked = {}
       => delays[i].delay <= delays[j].delay

\* The chunks of the calls' documents, looked at once before the first call.
CallsCover ==
  at = 0 => \A c \in 1..Len(calls) : calls[c].op = "document" =>
    ChunksCover(calls[c].words, calls[c].max, calls[c].overlap)

\* No chunk that is embedded and stored is longer than the caller allowed.
CallsFit ==
  \A c \in 1..at : calls[c].op = "document" =>
    ChunksFit(calls[c].words, calls[c].max, calls[c].overlap)

\* Filters for one field of what is stored, or for a text in a list of its, and the one
\* that asks for nothing.
Asked(v) == {v} \cup IF v.is = "list" THEN {Text(v.of[i]) : i \in 1..Len(v.of)} ELSE {}
Filters ==
  {<<>>} \cup UNION {LET fields == Remembered(IdOf(kind, store[i])).metadata.fields
                     IN  UNION {{[f \in {n} |-> v] : v \in Asked(fields[n])} : n \in DOMAIN fields} :
                     i \in 1..Len(store)}

\* Does a filter compare lists?
OfLists(filter, docs) ==
  \E f \in DOMAIN filter :
    \/ filter[f].is = "list"
    \/ \E i \in 1..Len(docs) :
         f \in DOMAIN docs[i].metadata.fields /\ docs[i].metadata.fields[f].is = "list"

\* Where a database compares otherwise than MetadataFilter::matches: Qdrant and
\* PostgreSQL have their own idea of lists, and two fields of Pinecone's are not of the
\* documents.
Differs(filter, docs) ==
  \/ kind \in {"qdrant", "pg"} /\ OfLists(filter, docs)
  \/ kind = "pinecone" /\ {"_text", "_metadata"} \cap DOMAIN filter # {}

\* A request no server takes, whatever its state.
NeverTaken(filter, top_k) ==
  (kind = "qdrant" /\ ~QdrantTakes(filter)) \/ (kind = "pg" /\ top_k > MaxI64)

\* Metadata as it comes back: from Pinecone flat, without a field _text, and with the
\* JSON of what is no object in a field _metadata.
GivenBack(metadata) ==
  IF kind # "pinecone" THEN metadata
  ELSE CASE metadata.is = "null"   -> Object(<<>>)
         [] metadata.is = "object" -> Object([f \in DOMAIN metadata.fields \ {"_text"} |->
                                                Flat(metadata.fields[f])])
         [] metadata.is = "other"  -> Object([_metadata |-> Json(metadata.fields.value)])

\* Does Pinecone lose the text of a document to a field of its metadata?
TextIsLost(metadata) ==
  kind = "pinecone" /\ metadata.is = "object" /\ "_text" \in DOMAIN metadata.fields

\* What recall_filtered finds if it is not refused: the best of the documents that
\* match, as many as asked for, with their texts and metadata.  A store that leaves
\* the filter to the trait may return fewer, if it holds more than it fetches.  The
\* store of this process refuses nothing, the others no request but those no server
\* takes, as long as they are in reach.
FindsBest(filter, top_k, ranked) ==
  LET docs    == Each(ranked, LAMBDA k : Remembered(IdOf(kind, k)))
      best    == Few(Matching(docs, filter), top_k)
      results == SearchFiltered(kind, ranked, filter, top_k)
      Ids(s)  == Each(s, LAMBDA d : d.id)
  IN  /\ (\E result \in results : result.ok) \/ NeverTaken(filter, top_k)
      /\ kind = "memory" => Refused \notin results
      /\ \A result \in results : result.ok =>
           /\ \A i \in 1..Len(result.hits) :
                LET d == Remembered(result.hits[i].id)
                IN  /\ result.hits[i].metadata = GivenBack(d.metadata)
                    /\ TextIsLost(d.metadata) \/ result.hits[i].text = d.text
           /\ ~Differs(filter, docs) =>
                /\ IsPrefix(Ids(result.hits), Ids(best))
                /\ kind # "custom" \/ Len(store) <= Overfetch * top_k =>
                     Ids(result.hits) = Ids(best)

\* However the query ranks what is stored, and whichever store it is in,
\* recall_filtered finds the best that match, up to what Differs names.
RecallFinds ==
  \A filter \in Filters, top_k \in {0, 1, 2, MaxI64 + 1}, ranked \in {store, Reverse(store)} :
    FindsBest(filter, top_k, ranked)

\* "Like search, keeping only documents whose metadata matches filter"
\* (vector/mod.rs): every hit has the very values the filter asks for.
FiltersKeepEqual ==
  \A filter \in Filters : \A result \in SearchFiltered(kind, store, filter, Len(store)) :
    \A i \in 1..Len(result.hits) :
      Matches(Remembered(result.hits[i].id).metadata, filter)

\* Every call ends, however often the provider fails, unless a store outside the
\* process never answers it.
CallsEnd == stage # "idle" ~> (stage = "idle" \/ []WaitsForStore)
=============================================================================
