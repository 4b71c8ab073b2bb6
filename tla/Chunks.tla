------------------------------- MODULE Chunks -------------------------------
(***************************************************************************)
(* chunk_text (src/vector/chunk.rs): a text is cut between its words into  *)
(* chunks that overlap.  A text is the sequence of the lengths of its      *)
(* words; a chunk is a sequence of word numbers.                           *)
(***************************************************************************)
EXTENDS Naturals, Sequences, FiniteSets, FiniteSetsExt, SequencesExt

\* The characters of a chunk, with one space between its words.
LengthOf(words, chunk) ==
  LET upTo[n \in 0..Len(chunk)] ==
        IF n = 0 THEN 0 ELSE upTo[n - 1] + words[chunk[n]] + 1
  IN  upTo[Len(chunk)] - (IF chunk = <<>> THEN 0 ELSE 1)

\* The longest tail of a chunk within the overlap: it begins the next one.
Carry(words, chunk, overlap) ==
  LET tails == {n \in 0..Len(chunk) :
                  LengthOf(words, SubSeq(chunk, Len(chunk) - n + 1, Len(chunk))) <= overlap}
  IN  SubSeq(chunk, Len(chunk) - Max(tails) + 1, Len(chunk))

\* Altered: the word that did not fit is left behind.
TakeLosing(words, chunks, w, max, overlap) ==
  LET current == Last(chunks)
  IN  IF current # <<>> /\ LengthOf(words, Append(current, w)) > max
      THEN Append(chunks, Carry(words, current, overlap))
      ELSE Append(Front(chunks), Append(current, w))

\* The next word goes into the last chunk if it fits or the chunk is empty, and
\* otherwise after what that chunk carries over, however long this gets.
Take(words, chunks, w, max, overlap) ==
  LET current == Last(chunks)
  IN  IF current # <<>> /\ LengthOf(words, Append(current, w)) > max
      THEN Append(chunks, Append(Carry(words, current, overlap), w))
      ELSE Append(Front(chunks), Append(current, w))

ChunkText(words, max_chars, overlap_chars) ==
  LET max == Max({max_chars, 1})
      overlap == Min({overlap_chars, max \div 2})
      after[n \in 0..Len(words)] ==
        IF n = 0 THEN << <<>> >> ELSE Take(words, after[n - 1], n, max, overlap)
  IN  IF words = <<>> THEN <<>> ELSE after[Len(words)]

-----------------------------------------------------------------------------
(* Properties *)

\* Every word is in the chunks, in order; a chunk begins with the end of the one
\* before, which is at most the overlap, and goes on with the first word that one
\* has not; it is longer than max_chars only by what it carries, or if it is a
\* word that is; and it ends only where the next word does not fit.
ChunksCover(words, max_chars, overlap) ==
  LET chunks == ChunkText(words, max_chars, overlap)
      shared(c) == {i \in 1..Len(chunks[c]) : chunks[c][i] \in Range(chunks[c - 1])}
  IN  /\ UNION {Range(c) : c \in Range(chunks)} = 1..Len(words)
      /\ \A c \in 1..Len(chunks) :
           /\ chunks[c] # <<>>
           /\ \A i \in 1..Len(chunks[c]) - 1 : chunks[c][i + 1] = chunks[c][i] + 1
           /\ c > 1 =>
                LET carried == SubSeq(chunks[c], 1, Cardinality(shared(c)))
                IN  /\ LengthOf(words, carried) <= overlap
                    /\ chunks[c][Len(carried) + 1] = Last(chunks[c - 1]) + 1
                    /\ LengthOf(words, Append(chunks[c - 1], Last(chunks[c - 1]) + 1)) > max_chars
                    /\ LengthOf(words, chunks[c]) > max_chars =>
                         Len(chunks[c]) = Len(carried) + 1

\* "chunks of at most `max_chars` characters, breaking on word boundaries"
\* (src/vector/chunk.rs:3-4), if no word by itself is longer.
ChunksFit(words, max_chars, overlap) ==
  (\A w \in Range(words) : w <= max_chars) =>
    \A c \in Range(ChunkText(words, max_chars, overlap)) : LengthOf(words, c) <= max_chars
=============================================================================
