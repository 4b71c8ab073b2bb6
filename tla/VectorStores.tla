---------------------------- MODULE VectorStores ----------------------------
(***************************************************************************)
(* The vector stores (src/vector): what each keeps of a document, how each *)
(* applies a MetadataFilter, and what a search gives back.  Qdrant,        *)
(* Pinecone and PostgreSQL filter on their servers, the store of this      *)
(* process filters what it holds, and a custom store leaves it to the      *)
(* trait.                                                                  *)
(*                                                                         *)
(* Metadata is null, an object, or another JSON value.  A value in it is a *)
(* text, a whole number or Boolean, a fraction (a number that is not       *)
(* whole), null, or a list of texts.  No text is the JSON of another value.*)
(***************************************************************************)
EXTENDS Width, Sequences, SequencesExt, FiniteSetsExt

CONSTANT Overfetch   \* the factor of the default search_filtered

Text(s)        == [is |-> "text", of |-> <<s>>]
WholeNumber(n) == [is |-> "whole", of |-> <<n>>]
Fraction(x)    == [is |-> "fraction", of |-> <<x>>]
Nothing        == [is |-> "null", of |-> <<>>]
List(s)        == [is |-> "list", of |-> s]

Null      == [is |-> "null", fields |-> <<>>]
Object(f) == [is |-> "object", fields |-> f]
Other(v)  == [is |-> "other", fields |-> [value |-> v]]

IsValue(v) ==
  v = [is |-> v.is, of |-> v.of] /\ v.is \in {"text", "whole", "fraction", "null", "list"}
IsMetadata(m) ==
  \/ m = Null
  \/ /\ m.is = "object" /\ m = Object([f \in DOMAIN m.fields |-> m.fields[f]])
     /\ \A f \in DOMAIN m.fields : IsValue(m.fields[f])
  \/ m.is = "other" /\ m = Other(m.fields.value) /\ IsValue(m.fields.value)

Few(docs, n) == SubSeq(docs, 1, Min({n, Len(docs)}))
Each(docs, F(_)) == [i \in 1..Len(docs) |-> F(docs[i])]

\* Those of a sequence that are in a set, in its order.
Among(s, set) ==
  LET among[n \in 0..Len(s)] ==
        IF n = 0 THEN <<>>
        ELSE IF s[n] \in set THEN Append(among[n - 1], s[n]) ELSE among[n - 1]
  IN  among[Len(s)]

Found(hits) == [ok |-> TRUE, hits |-> hits]
Refused     == [ok |-> FALSE, hits |-> <<>>]

-----------------------------------------------------------------------------
(* Documents and filters *)

Document(id, vector, text, metadata) ==
  [id |-> id, vector |-> vector, text |-> text, metadata |-> metadata]

SearchResult(id, text, metadata) == [id |-> id, text |-> text, metadata |-> metadata]

\* What a filter asks of one field.
Holds(metadata, f, v) ==
  metadata.is = "object" /\ f \in DOMAIN metadata.fields /\ metadata.fields[f] = v

\* MetadataFilter::matches.
Matches(metadata, filter) == \A f \in DOMAIN filter : Holds(metadata, f, filter[f])

Matching(docs, filter) == Among(docs, {d \in Range(docs) : Matches(d.metadata, filter)})

-----------------------------------------------------------------------------
(* The store of this process, and custom ones.  A search is the set of its *)
(* possible results: a store outside the process may refuse any request,   *)
(* or be out of reach.                                                     *)

NativeSearch(ranked, filter, top_k) ==
  {Found(Few(Matching(ranked, filter), top_k))}

\* Altered: the default search fetches no more than is asked for.
SearchWithoutOverfetch(ranked, filter, top_k) ==
  {Refused, Found(Matching(Few(ranked, top_k), filter))}

\* search_filtered of the trait: a larger number is searched for, and then filtered.
\* (The product saturates at a number no store holds documents of.)
DefaultSearch(ranked, filter, top_k) ==
  {Refused, IF filter = <<>> THEN Found(Few(ranked, top_k))
            ELSE Found(Few(Matching(Few(ranked, Overfetch * top_k), filter), top_k))}

-----------------------------------------------------------------------------
(* Qdrant *)

\* point_id: a UUID made from the document's id.
PointId(id) == [uuid |-> id]

QdrantPoint(doc) ==
  [id |-> PointId(doc.id), vector |-> doc.vector,
   payload |-> [id |-> doc.id, text |-> doc.text, metadata |-> doc.metadata]]

QdrantMust(filter) == {[key |-> f, value |-> filter[f]] : f \in DOMAIN filter}

\* A condition holds if the value, or one of a list, is the one asked for.
QdrantMatch(point, must) ==
  \A c \in must :
    \/ Holds(point.payload.metadata, c.key, c.value)
    \/ \E l \in {point.payload.metadata} :
         /\ l.is = "object" /\ c.key \in DOMAIN l.fields /\ l.fields[c.key].is = "list"
         /\ \E i \in 1..Len(l.fields[c.key].of) : Text(l.fields[c.key].of[i]) = c.value

QdrantResult(point) == SearchResult(point.payload.id, point.payload.text, point.payload.metadata)

\* The server takes a match with a text, a whole number or a Boolean, and no other.
QdrantTakes(filter) == \A f \in DOMAIN filter : filter[f].is \in {"text", "whole"}

QdrantSearch(ranked, filter, top_k) ==
  LET match == {p \in Range(ranked) : QdrantMatch(p, QdrantMust(filter))}
  IN  {Refused} \cup
        IF QdrantTakes(filter)
        THEN {Found(Each(Few(Among(ranked, match), top_k), QdrantResult))} ELSE {}

-----------------------------------------------------------------------------
(* Pinecone *)

\* Metadata is flat there: null and lists are kept as their JSON, a text.
Json(v) == [is |-> "json", of |-> <<v>>]
Flat(v) == IF v.is \in {"text", "whole", "fraction"} THEN v ELSE Json(v)

\* The text goes into the metadata, and gives way to a field of its name.
PineconeMetadata(doc) ==
  LET own == CASE doc.metadata.is = "null"   -> <<>>
               [] doc.metadata.is = "object" -> [f \in DOMAIN doc.metadata.fields |->
                                                   Flat(doc.metadata.fields[f])]
               [] doc.metadata.is = "other"  -> [_metadata |-> Json(doc.metadata.fields.value)]
  IN  [f \in DOMAIN own \cup {"_text"} |-> IF f \in DOMAIN own THEN own[f] ELSE Text(doc.text)]

PineconeVector(doc) ==
  [id |-> doc.id, values |-> doc.vector, metadata |-> PineconeMetadata(doc)]

PineconeConditions(filter) == [f \in DOMAIN filter |-> Flat(filter[f])]

PineconeMatch(vector, conditions) ==
  \A f \in DOMAIN conditions :
    f \in DOMAIN vector.metadata /\ vector.metadata[f] = conditions[f]

\* The text is the field of its name, if that is a text.
PineconeText(metadata) ==
  IF metadata["_text"].is \in {"text", "json"} THEN metadata["_text"].of[1] ELSE Nothing

PineconeResult(vector) ==
  SearchResult(vector.id, PineconeText(vector.metadata),
    Object([f \in DOMAIN vector.metadata \ {"_text"} |-> vector.metadata[f]]))

PineconeSearch(ranked, filter, top_k) ==
  LET conditions == PineconeConditions(filter)
      match      == {v \in Range(ranked) : PineconeMatch(v, conditions)}
  IN  {Refused, Found(Each(Few(Among(ranked, match), top_k), PineconeResult))}

-----------------------------------------------------------------------------
(* PostgreSQL *)

PgRow(doc) == doc

\* `@>`: the object has the fields, and a list at least the elements, asked for.
PgContains(metadata, filter) ==
  \A f \in DOMAIN filter :
    \/ Holds(metadata, f, filter[f])
    \/ /\ metadata.is = "object" /\ f \in DOMAIN metadata.fields
       /\ metadata.fields[f].is = "list" /\ filter[f].is = "list"
       /\ \A i \in 1..Len(filter[f].of) :
            \E j \in 1..Len(metadata.fields[f].of) : metadata.fields[f].of[j] = filter[f].of[i]

\* The limit is `top_k as i64', and a negative one is refused.
PgSearch(ranked, filter, top_k) ==
  LET match == {r \in Range(ranked) : filter = <<>> \/ PgContains(r.metadata, filter)}
  IN  {Refused} \cup
        IF AsI64(top_k) >= 0 THEN {Found(Few(Among(ranked, match), AsI64(top_k)))} ELSE {}

-----------------------------------------------------------------------------
(* The store of an agent *)

Keep(kind, doc) ==
  CASE kind = "qdrant"   -> QdrantPoint(doc)
    [] kind = "pinecone" -> PineconeVector(doc)
    [] kind = "pg"       -> PgRow(doc)
    [] OTHER             -> doc

IdOf(kind, kept) == IF kind = "qdrant" THEN kept.payload.id ELSE kept.id

\* A document takes the place of one of its id.
Upsert(kind, store, docs) ==
  LET kept   == Each(docs, LAMBDA d : Keep(kind, d))
      others == {k \in Range(store) : \A i \in 1..Len(kept) : kept[i].id # k.id}
  IN  Among(store, others) \o kept

\* What has one of these ids is gone.
Delete(kind, store, ids) ==
  LET keys == {IF kind = "qdrant" THEN PointId(id) ELSE id : id \in ids}
  IN  Among(store, {k \in Range(store) : k.id \notin keys})

\* What search_filtered may give, over what is kept, ranked by its likeness to the
\* query.
SearchFiltered(kind, ranked, filter, top_k) ==
  CASE kind = "qdrant"   -> QdrantSearch(ranked, filter, top_k)
    [] kind = "pinecone" -> PineconeSearch(ranked, filter, top_k)
    [] kind = "pg"       -> PgSearch(ranked, filter, top_k)
    [] kind = "memory"   -> NativeSearch(ranked, filter, top_k)
    [] kind = "custom"   -> DefaultSearch(ranked, filter, top_k)
=============================================================================
