---------------------------- MODULE ItemSequences ---------------------------
(***************************************************************************)
(* What the linked lists promise: a list is a sequence of distinct items   *)
(* that grows and shrinks by one item at a time, is emptied, rearranged or *)
(* sorted, and no list is changed by a call for another one.               *)
(***************************************************************************)
EXTENDS Integers, Sequences, SequencesExt

CONSTANTS Handles,   \* what TbxListCreate may return
          Items,     \* what callers put in lists
          Key        \* Key[x]: what the comparison function compares

VARIABLE sequences   \* sequences[l]: the items of list l, for the lists there are

SequencesInit == sequences = [l \in {} |-> <<>>]

Become(l, s) == sequences' = [sequences EXCEPT ![l] = s]

New(l) == /\ l \notin DOMAIN sequences
          /\ sequences' = [k \in DOMAIN sequences \cup {l} |->
                             IF k = l THEN <<>> ELSE sequences[k]]

Drop(l) == sequences' = [k \in DOMAIN sequences \ {l} |-> sequences[k]]

(* An item that is not in the list comes to position i. *)
Insert(l, i, x) == /\ x \notin ToSet(sequences[l])
                   /\ Become(l, InsertAt(sequences[l], i, x))

Rearranged(s, t) ==
  Len(s) = Len(t) /\ \A x \in Items : (x \in ToSet(s)) <=> (x \in ToSet(t))

Ascending(s) == \A i, j \in DOMAIN s : i < j => Key[s[i]] <= Key[s[j]]

Swap(l, i, j) ==
  Become(l, [sequences[l] EXCEPT ![i] = sequences[l][j], ![j] = sequences[l][i]])

(* Items that compare equal may come in any order. *)
Sort(l) == /\ DOMAIN sequences' = DOMAIN sequences
           /\ \A k \in DOMAIN sequences \ {l} : sequences'[k] = sequences[k]
           /\ Rearranged(sequences[l], sequences'[l])
           /\ Ascending(sequences'[l])

SequencesNext ==
  \/ \E l \in Handles : New(l)
  \/ \E l \in DOMAIN sequences :
       \/ Drop(l)
       \/ Become(l, <<>>)
       \/ \E i \in 1 .. Len(sequences[l]) + 1, x \in Items : Insert(l, i, x)
       \/ \E i \in DOMAIN sequences[l] : Become(l, RemoveAt(sequences[l], i))
       \/ \E i, j \in DOMAIN sequences[l] : Swap(l, i, j)
       \/ Sort(l)

SequencesSpec == SequencesInit /\ [][SequencesNext]_sequences
=============================================================================
