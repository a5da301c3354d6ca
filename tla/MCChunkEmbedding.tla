--------------------------- MODULE MCChunkEmbedding ---------------------------
(* Constants of ChunkEmbedding for TLC. *)
EXTENDS ChunkEmbedding, TLC
CONSTANTS a, b, w1, w2
WorkerSymmetry == Permutations({w1, w2})
\* A document of two chunks, and a shorter one with other text.
TwoDocuments == {<<a, a>>, <<b, None>>}
OneDocument == {<<a>>}
===============================================================================
