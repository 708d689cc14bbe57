------------------------------- MODULE MCList -------------------------------
(* Two interchangeable contexts and three items, two of which compare      *)
(* equal.                                                                  *)
EXTENDS List, TLC

CONSTANTS a, b, z

MCKey == a :> 1 @@ b :> 1 @@ z :> 0

(* TLC takes states for one that differ only in what is left in the blocks *)
(* that are no nodes of a list: it is initialised before it is read.  (Not *)
(* so with Overlap.)                                                       *)
NodeOfList == UNION {ToSet(Chain(l)) : l \in open}

UpToUnusedNodes ==
  <<memPoolsCreated, poolVars, lists, pc, call, open,
    [n \in Blocks |-> IF n \in NodeOfList THEN nodes[n] ELSE NewNode(Null)]>>

Interchangeable == Permutations(Contexts) \cup Permutations({a, b})
=============================================================================
