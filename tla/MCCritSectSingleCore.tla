------------------------ MODULE MCCritSectSingleCore ------------------------
(* Two tasks and two interrupt handlers, model values that are             *)
(* interchangeable within their kind.                                      *)
EXTENDS CritSectSingleCore, TLC

Interchangeable == Permutations(Tasks) \cup Permutations(Isrs)
=============================================================================
