------------------------------- MODULE MCHeap -------------------------------
(* Two contexts on a heap of a few words with a small size_t. *)
EXTENDS Heap, TLC

Interchangeable == Permutations(Contexts)
=============================================================================
