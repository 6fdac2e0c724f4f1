---------------------------- MODULE MCMemoryBlobs ----------------------------
(* MemoryBlobs for TLC. *)
EXTENDS MemoryBlobs

\* A value that compresses well, and one that does not.
MCPagesFor == [v \in Values |-> IF v = 1 THEN 1 ELSE 2]

Symmetry == Permutations(Clients) \cup Permutations(Blobs)
=============================================================================
