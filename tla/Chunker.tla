------------------------------- MODULE Chunker ------------------------------
(***************************************************************************)
(* The chunks of a text (embeddings/chunker.ts).  A text is a sequence of  *)
(* sentences, of which only the lengths matter; a chunk is the tail of the *)
(* one before it and some whole sentences.                                 *)
(***************************************************************************)
EXTENDS Integers, Sequences

CONSTANTS
  Lengths,         \* characters of a sentence
  targetTokens, overlapTokens

ASSUME ChunksAssumption ==
  /\ Lengths \subseteq Nat \ {0}
  /\ targetTokens \in Nat \ {0} /\ overlapTokens \in Nat

VARIABLES
  taken,     \* sentences taken from the text
  chunks,    \* [from, to, size]: first and last sentence, characters
  current,   \* the chunk being filled
  tail       \* the characters of its overlap

chunkVars == <<taken, chunks, current, tail>>

CharsPerToken == 4
estimateTokens(size) == (size + CharsPerToken - 1) \div CharsPerToken
Overlap == IF overlapTokens < targetTokens THEN overlapTokens ELSE targetTokens - 1

\* No sentence yet: to < from.
Empty == [from |-> 1, to |-> 0, size |-> 0]

ChunksInit == taken = 0 /\ chunks = <<>> /\ current = Empty /\ tail = 0

\* overlapTail: at most Overlap tokens from the end of the chunk, cut at a
\* sentence or a word.
Tails(size) == {t \in 0..CharsPerToken * Overlap : t <= size}

joinedSize(size, length) == IF size = 0 THEN length ELSE size + 1 + length

Exceeds(length) == estimateTokens(joinedSize(current.size, length)) > targetTokens

\* Mutant: the sentence that did not fit is dropped.
WithoutSentence(t, length) == [from |-> taken + 2, to |-> taken + 1, size |-> t]
NextChunk(t, length) == [from |-> taken + 1, to |-> taken + 1, size |-> joinedSize(t, length)]

\* One turn of the loop of chunkText.
Sentence(length) ==
  /\ taken' = taken + 1
  /\ IF current.size > 0 /\ Exceeds(length)
     THEN /\ chunks' = Append(chunks, current)
          /\ \E t \in Tails(current.size) : current' = NextChunk(t, length) /\ tail' = t
     ELSE /\ current' = [current EXCEPT !.to = taken + 1, !.size = joinedSize(@, length)]
          /\ UNCHANGED <<chunks, tail>>

chunkText == \E length \in Lengths : Sentence(length)

ChunksSpec == ChunksInit /\ [][chunkText]_chunkVars

\* What chunkText returns when the text ends here.
Result == IF current.size > 0 THEN Append(chunks, current) ELSE chunks

-----------------------------------------------------------------------------
\* Every sentence is in exactly one chunk, whole and in its place: overlaps
\* repeat text and never replace it.
SentencesAreKept ==
  /\ \A k \in DOMAIN Result :
       /\ Result[k].from <= Result[k].to
       /\ Result[k].from = IF k = 1 THEN 1 ELSE Result[k - 1].to + 1
  /\ IF Result = <<>> THEN taken = 0 ELSE Result[Len(Result)].to = taken
=============================================================================
