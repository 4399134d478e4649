---------------------------- MODULE MCObjectStore ----------------------------
(* Model-checking instances of ObjectStore: the cfg files choose which        *)
(* requests there are; every body is cut into BodyChunks chunks.              *)
EXTENDS ObjectStore, TLC

CONSTANTS BodyChunks

MCChunkCount == [w \in Writers |-> BodyChunks]

Symmetry ==
    Permutations(Keys) \cup Permutations(Writers) \cup Permutations(Completers) \cup Permutations(Readers)
        \cup Permutations(Deleters)

\* What two states have to share to be the same to a run that does not ask which
\* calls overlapped: `raced' is a history that no action reads.
Unobserved ==
    <<tables, blob, writer, completer, reader, deleter, condemned>>
=============================================================================
