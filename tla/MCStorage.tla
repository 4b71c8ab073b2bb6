------------------------------ MODULE MCStorage ------------------------------
EXTENDS Storage

CONSTANTS r1, r2, r3

\* Of sessions: a question and its answer, and nothing at all.
TwoMessages == [r \in Requests |-> IF r = r3 THEN 0 ELSE 2]

One(text) ==
  [op |-> "one", texts |-> <<text>>,
   metadata |-> Object([topic |-> Text("a"), tags |-> List(<<"x", "y">>), note |-> Nothing])]
Batch(n) ==
  [op |-> "batch", texts |-> [i \in 1..n |-> <<"text", i>>],
   metadata |-> Object([topic |-> Text("b"), tags |-> List(<<"x">>), year |-> WholeNumber(2026)])]
Long(words, max, overlap, metadata) ==
  [op |-> "document", words |-> words, max |-> max, overlap |-> overlap, metadata |-> metadata]

\* A failed document again, with a field where Pinecone puts the text; lists of which
\* one contains the other, null and a number; metadata that is no object; and many
\* small documents, with words as long as a chunk, words that are longer, and none.
TestHistories ==
  LET document == Long(<<6, 3, 10, 2>>, 10, 3, Object([_text |-> Text("c"), part |-> Fraction("1/2")]))
  IN  {<<document, document>>, <<One(<<"text", 0>>), Batch(3)>>, <<Batch(0), Batch(3)>>,
       <<Long(<<6, 3>>, 10, 3, Other(List(<<"x">>)))>>}
        \cup {<<Long(words, 5, overlap, Null)>> :
                words \in BoundedSeq({1, 3, 5, 7}, 3), overlap \in {0, 2, 9}}
=============================================================================
