-------------------------------- MODULE List --------------------------------
(***************************************************************************)
(* tbx_list.c: doubly linked lists whose nodes and list objects come from  *)
(* a memory pool.  A function whose body is one critical section is one    *)
(* action; between the steps of the others any context may run.            *)
(*                                                                         *)
(* Of the pool remains what its callers see: tTbxList and tTbxListNode     *)
(* have the same size, so that they share one pool; the free blocks, the   *)
(* last released first; and the blocks for which the heap has room.        *)
(***************************************************************************)
EXTENDS Integers, Sequences, SequencesExt

CONSTANTS Contexts,    \* tasks and interrupt handlers that use lists
          Items,
          Key,         \* Key[x]: what the comparison callback compares
          Overlap,     \* TRUE: calls for the same item overlap; FALSE: see Contract
          SortsEmpty,  \* TRUE: the application sorts empty lists, too
          MaxBlocks,   \* bound: blocks for which the heap has room
          MaxLists     \* bound: lists at the same time

(* An item is never NULL: the functions assert it. *)
ASSUME ListAssumption ==
  /\ 0 \notin Items
  /\ Key \in [Items -> Nat]
  /\ Overlap \in BOOLEAN /\ SortsEmpty \in BOOLEAN
  /\ MaxBlocks \in Nat /\ MaxLists \in Nat

VARIABLES memPoolsCreated,  \* the static flag of TbxListCreate
          free,             \* the pool's free blocks, as its list has them
          created,          \* blocks 1 .. created exist
          nodes,            \* nodes[b]: the tTbxListNode in block b
          lists,            \* lists[b]: the tTbxList in block b
          pc,               \* pc[c]: where c is in its call
          call,             \* call[c]: the parameters and locals of c's call
          open              \* history: the lists that callers may use

poolVars == <<free, created>>
vars == <<memPoolsCreated, poolVars, nodes, lists, pc, call, open>>

Null   == 0
Blocks == 1 .. MaxBlocks

NewNode(x) == [item |-> x, prev |-> Null, next |-> Null]
NewList    == [first |-> Null, last |-> Null, count |-> 0]

(* op says which function was called with which list, item and, for the    *)
(* insertions before and after it, itemRef; node is the new block and ref  *)
(* the node that was found.                                                *)
NoCall == [op |-> "none", list |-> Null, item |-> Null, itemRef |-> Null,
           node |-> Null, ref |-> Null, error |-> FALSE]

Init == /\ memPoolsCreated = FALSE
        /\ free = <<>>
        /\ created = 0
        /\ nodes = [b \in Blocks |-> NewNode(Null)]
        /\ lists = [b \in Blocks |-> NewList]
        /\ pc = [c \in Contexts |-> "idle"]
        /\ call = [c \in Contexts |-> NoCall]
        /\ open = {}

Goto(c, from, to) == pc[c] = from /\ pc' = [pc EXCEPT ![c] = to]

(* The call returns, or an assertion fails and c stays in its handler. *)
Finish(c, from, ok) ==
  /\ Goto(c, from, IF ok THEN "idle" ELSE "assertFailed")
  /\ call' = [call EXCEPT ![c] = NoCall]
-----------------------------------------------------------------------------
(* The nodes of list l in the order of their next pointers. *)
Chain(l) ==
  LET node[k \in Blocks] ==
        IF k = 1 THEN lists[l].first
        ELSE IF node[k - 1] = Null THEN Null ELSE nodes[node[k - 1]].next
  IN  [k \in 1 .. Cardinality({j \in Blocks : node[j] # Null}) |-> node[k]]

ItemsOf(l) == [i \in DOMAIN Chain(l) |-> nodes[Chain(l)[i]].item]

(* TbxListFindListNode *)
FindListNode(l, x) ==
  LET chain == Chain(l)
      at    == {i \in DOMAIN chain : nodes[chain[i]].item = x}
  IN  IF at = {} THEN Null ELSE chain[CHOOSE i \in at : \A j \in at : i <= j]

ItemAt(b) == IF b = Null THEN Null ELSE nodes[b].item

(* The functions that only read, in one critical section each. *)
GetSize(l)      == lists[l].count
GetFirstItem(l) == ItemAt(lists[l].first)
GetLastItem(l)  == ItemAt(lists[l].last)
GetPreviousItem(l, x) ==
  LET n == FindListNode(l, x) IN IF n = Null THEN Null ELSE ItemAt(nodes[n].prev)
GetNextItem(l, x) ==
  LET n == FindListNode(l, x) IN IF n = Null THEN Null ELSE ItemAt(nodes[n].next)
-----------------------------------------------------------------------------
(* Contract: what the function comments and the examples leave to the      *)
(* callers.  Items of a list are distinct and a deleted list is not used.  *)
(* Without Overlap, nobody removes or moves the item that another call has *)
(* looked up to remove it or to insert beside it, until that call is done. *)

CallsOn(c, l) == {d \in Contexts \ {c} : call[d].list = l}
LookedUp(c, l) == {d \in CallsOn(c, l) : call[d].ref # Null /\ pc[d] # "release"}

MayInsert(c, l, x) == /\ x \notin ToSet(ItemsOf(l))
                      /\ \A d \in CallsOn(c, l) : call[d].item # x
MayLookUp(c, l, x) == Overlap \/ \A d \in LookedUp(c, l) : ~(pc[d] = "unlink" /\ call[d].item = x)
MayRemove(c, l, x) == Overlap \/ \A d \in LookedUp(c, l) : x \notin {call[d].itemRef, call[d].item}
MayMove(c, l)      == Overlap \/ LookedUp(c, l) = {}
MayDelete(c, l)    == CallsOn(c, l) = {}
-----------------------------------------------------------------------------
(* The memory pool *)

(* TbxMemPoolCreate(1, size) adds a block if the heap has room. *)
Grows == created < MaxBlocks
Grow  == IF Grows THEN created' = created + 1 /\ free' = <<created + 1>> \o free
         ELSE UNCHANGED poolVars

(* TbxMemPoolRelease of each of these blocks in turn, with its assertion   *)
(* that some block of the pool is in use.  A free block keeps its contents.*)
MayRelease(blocks) == Len(free) + Len(blocks) <= created

Release(blocks) ==
  /\ free' = Reverse(blocks) \o free
  /\ UNCHANGED created
-----------------------------------------------------------------------------
(* TbxListCreate *)

(* The first call, as far as the flag tells, creates the two memory pools. *)
CreateCheck(c) ==
  /\ Cardinality(open \cup {d \in Contexts : call[d].op = "create"}) < MaxLists
  /\ Goto(c, "idle", IF memPoolsCreated THEN "alloc" ELSE "flag")
  /\ call' = [call EXCEPT ![c].op = "create"]
  /\ UNCHANGED <<memPoolsCreated, poolVars, nodes, lists, open>>

CreateFlag(c) ==
  /\ Goto(c, "flag", "pool1")
  /\ memPoolsCreated' = TRUE
  /\ UNCHANGED <<poolVars, nodes, lists, call, open>>

(* TbxMemPoolCreate(1, sizeof(tTbxList)), and the same for tTbxListNode    *)
(* although the first may have failed.                                     *)
CreatePool1(c) ==
  /\ Goto(c, "pool1", "pool2")
  /\ Grow
  /\ call' = [call EXCEPT ![c].error = ~Grows]
  /\ UNCHANGED <<memPoolsCreated, nodes, lists, open>>

CreatePool2(c) ==
  /\ Grow
  /\ IF Grows /\ ~call[c].error THEN Goto(c, "pool2", "alloc") /\ UNCHANGED call
     ELSE Finish(c, "pool2", TRUE)
  /\ UNCHANGED <<memPoolsCreated, nodes, lists, open>>
-----------------------------------------------------------------------------
(* The allocation of a block for a list or a node, in TbxListCreate and    *)
(* the functions that insert: allocate, extend the pool, allocate again.   *)

TakeBlock(c, from) ==
  /\ Goto(c, from, "link")
  /\ free # <<>>
  /\ free' = Tail(free)
  /\ call' = [call EXCEPT ![c].node = Head(free)]
  /\ UNCHANGED <<memPoolsCreated, created, nodes, lists, open>>

AllocFails(c) ==
  /\ free = <<>>
  /\ Goto(c, "alloc", "grow")
  /\ UNCHANGED <<memPoolsCreated, poolVars, nodes, lists, call, open>>

GrowPool(c) ==
  /\ Grow
  /\ IF Grows THEN Goto(c, "grow", "again") /\ UNCHANGED call
     ELSE Finish(c, "grow", TRUE)
  /\ UNCHANGED <<memPoolsCreated, nodes, lists, open>>

(* Somebody else took the block: NULL or TBX_ERROR. *)
AgainFails(c) ==
  /\ free = <<>>
  /\ Finish(c, "again", TRUE)
  /\ UNCHANGED <<memPoolsCreated, poolVars, nodes, lists, open>>

AllocBlock(c) == \/ TakeBlock(c, "alloc") \/ TakeBlock(c, "again")
                 \/ AllocFails(c) \/ GrowPool(c) \/ AgainFails(c)

(* The new list is empty and goes to the caller. *)
CreateReturn(c) ==
  /\ call[c].op = "create"
  /\ Finish(c, "link", TRUE)
  /\ lists' = [lists EXCEPT ![call[c].node] = NewList]
  /\ open' = open \cup {call[c].node}
  /\ UNCHANGED <<memPoolsCreated, poolVars, nodes>>
-----------------------------------------------------------------------------
(* The four functions that insert.  Front and back are mirror images: a    *)
(* side is the end where it is, the pointer that leads into the list from  *)
(* there and the one that leads out of it.                                 *)
FrontEnd == [end |-> "first", in |-> "next", out |-> "prev"]
BackEnd  == [end |-> "last",  in |-> "prev", out |-> "next"]

SideOf(op) == IF op \in {"front", "before"} THEN FrontEnd ELSE BackEnd

(* InsertItemFront, InsertItemBack: allocate at once. *)
InsertAtEnd(c) ==
  /\ Goto(c, "idle", "alloc")
  /\ \E op \in {"front", "back"}, l \in open, x \in Items :
       /\ MayInsert(c, l, x)
       /\ call' = [call EXCEPT ![c].op = op, ![c].list = l, ![c].item = x]
  /\ UNCHANGED <<memPoolsCreated, poolVars, nodes, lists, open>>

(* InsertItemBefore, InsertItemAfter: find the reference node first.  If   *)
(* there is none, they return and nothing changes.                         *)
InsertBeside(c) ==
  /\ Goto(c, "idle", "alloc")
  /\ \E op \in {"before", "after"}, l \in open, x \in Items :
       /\ MayInsert(c, l, x)
       /\ \E y \in ToSet(ItemsOf(l)) :
            /\ MayLookUp(c, l, y)
            /\ call' = [call EXCEPT ![c].op = op, ![c].list = l, ![c].item = x,
                                    ![c].itemRef = y, ![c].ref = FindListNode(l, y)]
  /\ UNCHANGED <<memPoolsCreated, poolVars, nodes, lists, open>>

(* Node n becomes the end of list l on this side; the old end, if there is *)
(* one, is linked to it, otherwise n is the other end as well.             *)
LinkEnd(l, side, initial, n) ==
  LET end == lists[l][side.end]
  IN  /\ nodes' = IF end = Null THEN initial
                  ELSE [initial EXCEPT ![n][side.in] = end, ![end][side.out] = n]
      /\ lists' = [lists EXCEPT ![l] =
                     [first |-> IF side = FrontEnd \/ end = Null THEN n ELSE @.first,
                      last  |-> IF side = BackEnd \/ end = Null THEN n ELSE @.last,
                      count |-> @.count + 1]]

(* Node n comes between the reference node and its neighbour. *)
LinkBetween(l, side, initial, n, ref) ==
  LET beyond == initial[ref][side.out]
  IN  /\ nodes' = [initial EXCEPT ![n][side.in] = ref, ![n][side.out] = beyond,
                                  ![beyond][side.in] = n, ![ref][side.out] = n]
      /\ lists' = [lists EXCEPT ![l].count = @ + 1]

(* Mutant, which no specification uses: any reference node counts as the   *)
(* end of the list.                                                        *)
LinkNodeAtEnd(c) ==
  LET n       == call[c].node
      initial == [nodes EXCEPT ![n] = NewNode(call[c].item)]
  IN  /\ pc[c] = "link" /\ call[c].op # "create"
      /\ LinkEnd(call[c].list, SideOf(call[c].op), initial, n)
      /\ Finish(c, "link", TRUE)
      /\ UNCHANGED <<memPoolsCreated, poolVars, open>>

(* Initialise the node and link it, with the assertions of the functions.  *)
LinkNode(c) ==
  LET k       == call[c]
      side    == SideOf(k.op)
      initial == [nodes EXCEPT ![k.node] = NewNode(k.item)]
      atEnd   == k.op \in {"front", "back"} \/ k.ref = lists[k.list][side.end]
      ok      == IF k.op \in {"front", "back"}
                 THEN lists[k.list][side.end] # Null => lists[k.list].count > 0
                 ELSE ~atEnd => initial[k.ref][side.out] # Null
  IN  /\ pc[c] = "link" /\ k.op # "create"
      /\ Finish(c, "link", ok)
      /\ IF ~ok THEN UNCHANGED <<nodes, lists>>
         ELSE IF atEnd THEN LinkEnd(k.list, side, initial, k.node)
         ELSE LinkBetween(k.list, side, initial, k.node, k.ref)
      /\ UNCHANGED <<memPoolsCreated, poolVars, open>>
-----------------------------------------------------------------------------
(* TbxListRemoveItem *)

(* Find the node.  If there is none, nothing changes. *)
RemoveFind(c) ==
  /\ Goto(c, "idle", "unlink")
  /\ \E l \in open : \E x \in ToSet(ItemsOf(l)) :
       /\ MayRemove(c, l, x)
       /\ call' = [call EXCEPT ![c].op = "remove", ![c].list = l, ![c].item = x,
                               ![c].ref = FindListNode(l, x)]
  /\ UNCHANGED <<memPoolsCreated, poolVars, nodes, lists, open>>

(* Mutant, which no specification uses: the next node keeps its pointer to *)
(* the node that is gone.                                                  *)
UnlinkForward(c) ==
  LET l == lists[call[c].list]
      n == call[c].ref
      prev == nodes[n].prev
      next == nodes[n].next
  IN  /\ Goto(c, "unlink", "release")
      /\ nodes' = [b \in Blocks |-> IF b = prev THEN [nodes[b] EXCEPT !.next = next]
                                    ELSE nodes[b]]
      /\ lists' = [lists EXCEPT ![call[c].list] =
                     [first |-> IF prev = Null THEN next ELSE @.first,
                      last  |-> IF next = Null THEN prev ELSE @.last,
                      count |-> @.count - 1]]
      /\ UNCHANGED <<memPoolsCreated, poolVars, call, open>>

(* Take the node out, as the only one, an end or between two others, with  *)
(* the assertions of each case.                                            *)
Unlink(c) ==
  LET l    == lists[call[c].list]
      n    == call[c].ref
      prev == nodes[n].prev
      next == nodes[n].next
      ok   == /\ prev = Null => l.first = n
              /\ next = Null => l.last = n
              /\ IF prev = Null /\ next = Null THEN l.count = 1
                 ELSE l.count > Cardinality({prev, next} \ {Null})
  IN  /\ pc[c] = "unlink"
      /\ IF ok THEN Goto(c, "unlink", "release") /\ UNCHANGED call
               ELSE Finish(c, "unlink", FALSE)
      /\ nodes' = [b \in Blocks |->
                     IF ok /\ b = prev THEN [nodes[b] EXCEPT !.next = next]
                     ELSE IF ok /\ b = next THEN [nodes[b] EXCEPT !.prev = prev]
                     ELSE nodes[b]]
      /\ lists' = IF ok THEN [lists EXCEPT ![call[c].list] =
                                [first |-> IF prev = Null THEN next ELSE @.first,
                                 last  |-> IF next = Null THEN prev ELSE @.last,
                                 count |-> @.count - 1]]
                  ELSE lists
      /\ UNCHANGED <<memPoolsCreated, poolVars, open>>

(* The node goes back to the pool, outside the critical section. *)
RemoveRelease(c) ==
  /\ Finish(c, "release", MayRelease(<<call[c].ref>>))
  /\ IF MayRelease(<<call[c].ref>>) THEN Release(<<call[c].ref>>)
     ELSE UNCHANGED poolVars
  /\ UNCHANGED <<memPoolsCreated, nodes, lists, open>>
-----------------------------------------------------------------------------
(* TbxListClear and TbxListDelete, each one critical section *)

(* Mutant, which no specification uses: the count is not reset. *)
EmptyButCount(l) == lists' = [lists EXCEPT ![l].first = Null, ![l].last = Null]

Empty(l) == lists' = [lists EXCEPT ![l] = NewList]

(* Release these blocks of list l, in their order, and empty it. *)
ReleaseAll(c, l, blocks) ==
  /\ Finish(c, "idle", MayRelease(blocks))
  /\ IF MayRelease(blocks) THEN Empty(l) /\ Release(blocks)
     ELSE UNCHANGED <<poolVars, lists>>
  /\ UNCHANGED <<memPoolsCreated, nodes>>

Clear(c, l) == /\ MayMove(c, l)
               /\ ReleaseAll(c, l, Chain(l))
               /\ UNCHANGED open

(* Mutant, which no specification uses: the nodes are not released. *)
DeleteListOnly(c, l) == /\ MayDelete(c, l)
                        /\ ReleaseAll(c, l, <<l>>)
                        /\ open' = open \ {l}

Delete(c, l) == /\ MayDelete(c, l)
                /\ ReleaseAll(c, l, Append(Chain(l), l))
                /\ open' = open \ {l}
-----------------------------------------------------------------------------
(* TbxListSwapItems and TbxListSortItems, each one critical section *)

(* Mutant, which no specification uses: only one node gets its new item. *)
SwapHalf(c, l) ==
  /\ pc[c] = "idle"
  /\ MayMove(c, l)
  /\ \E x, y \in ToSet(ItemsOf(l)) : nodes' = [nodes EXCEPT ![FindListNode(l, x)].item = y]
  /\ UNCHANGED <<memPoolsCreated, poolVars, lists, pc, call, open>>

(* Swap two items of the list; if one is not there nothing changes. *)
Swap(c, l) ==
  /\ pc[c] = "idle"
  /\ MayMove(c, l)
  /\ \E x, y \in ToSet(ItemsOf(l)) :
       nodes' = [nodes EXCEPT ![FindListNode(l, x)].item = y, ![FindListNode(l, y)].item = x]
  /\ UNCHANGED <<memPoolsCreated, poolVars, lists, pc, call, open>>

(* The callback is called with the items in positions i and k. *)
Exchange(s, i, k) ==
  IF Key[s[i]] > Key[s[k]] THEN [s EXCEPT ![i] = s[k], ![k] = s[i]] ELSE s

(* The inner loop compares the item in position i with each later one, the *)
(* outer loop does so for each position.                                   *)
InnerLoop(s, i) ==
  LET after[k \in i .. Len(s)] == IF k = i THEN s ELSE Exchange(after[k - 1], i, k)
  IN  after[Len(s)]

SortLoops(s) ==
  LET after[i \in 0 .. Len(s)] == IF i = 0 THEN s ELSE InnerLoop(after[i - 1], i)
  IN  after[Len(s)]

(* The first access follows the first node's next pointer: on an empty     *)
(* list that is a NULL pointer.                                            *)
Sort(c, l) ==
  /\ MayMove(c, l)
  /\ SortsEmpty \/ lists[l].first # Null
  /\ Goto(c, "idle", IF lists[l].first = Null THEN "crashed" ELSE "idle")
  /\ LET chain  == Chain(l)
         sorted == SortLoops(ItemsOf(l))
     IN  nodes' = [b \in Blocks |->
                     IF b \in ToSet(chain)
                     THEN [nodes[b] EXCEPT !.item = sorted[CHOOSE i \in DOMAIN chain : chain[i] = b]]
                     ELSE nodes[b]]
  /\ UNCHANGED <<memPoolsCreated, poolVars, lists, call, open>>
-----------------------------------------------------------------------------
Next == \E c \in Contexts :
          \/ CreateCheck(c) \/ CreateFlag(c) \/ CreatePool1(c) \/ CreatePool2(c)
          \/ AllocBlock(c) \/ CreateReturn(c)
          \/ InsertAtEnd(c) \/ InsertBeside(c) \/ LinkNode(c)
          \/ RemoveFind(c) \/ Unlink(c) \/ RemoveRelease(c)
          \/ \E l \in open : Clear(c, l) \/ Delete(c, l) \/ Swap(c, l) \/ Sort(c, l)

Spec == Init /\ [][Next]_vars
-----------------------------------------------------------------------------
Pointers  == Blocks \cup {Null}
Locations == {"idle", "flag", "pool1", "pool2", "alloc", "grow", "again", "link",
              "unlink", "release", "assertFailed", "crashed"}

(* The types of the variables. *)
TypeOK ==
  /\ memPoolsCreated \in BOOLEAN
  /\ free \in Seq(Blocks)
  /\ created \in 0 .. MaxBlocks
  /\ nodes \in [Blocks -> [item : Items \cup {Null}, prev : Pointers, next : Pointers]]
  /\ lists \in [Blocks -> [first : Pointers, last : Pointers, count : 0 .. MaxBlocks]]
  /\ pc \in [Contexts -> Locations]
  /\ call \in [Contexts -> [op : {"none", "create", "front", "back", "before", "after", "remove"},
                            list : Pointers, item : Items \cup {Null},
                            itemRef : Items \cup {Null}, node : Pointers,
                            ref : Pointers, error : BOOLEAN]]
  /\ open \subseteq Blocks

(* What the reading functions return agrees with each other: the list that *)
(* they traverse forward is the one that they traverse backward, from the  *)
(* first to the last item, and it has as many items as they count.         *)
ReadsAgree ==
  \A l \in open :
    LET s == ItemsOf(l)
        n == Len(s)
    IN  /\ GetSize(l) = n
        /\ GetFirstItem(l) = IF n = 0 THEN Null ELSE s[1]
        /\ GetLastItem(l) = IF n = 0 THEN Null ELSE s[n]
        /\ \A i \in 1 .. n :
             /\ GetPreviousItem(l, s[i]) = IF i = 1 THEN Null ELSE s[i - 1]
             /\ GetNextItem(l, s[i]) = IF i = n THEN Null ELSE s[i + 1]

(* The blocks in use: list objects, nodes that are linked, and blocks that *)
(* a call in progress has allocated or not yet released.                   *)
HeldBy(c) == CASE pc[c] = "link"    -> {call[c].node}
               [] pc[c] = "release" -> {call[c].ref}
               [] OTHER             -> {}

(* Each block that was created is in exactly one place: once in the free   *)
(* list, a list object, a node of one list or held by one call.            *)
BlocksConserved ==
  LET chains == [l \in open |-> ToSet(Chain(l))]
      used   == (UNION {chains[l] : l \in open}) \cup open \cup (UNION {HeldBy(c) : c \in Contexts})
  IN  /\ ToSet(free) \cup used = 1 .. created
      /\ ToSet(free) \cap used = {}
      /\ Len(free) + Cardinality(used) = created
      /\ \A l, m \in open : m \notin chains[l] /\ (l # m => chains[l] \cap chains[m] = {})
      /\ \A c \in Contexts : HeldBy(c) \cap (open \cup (UNION {chains[l] : l \in open})) = {}
      /\ \A c, d \in Contexts : c # d => HeldBy(c) \cap HeldBy(d) = {}

(* No assertion fails, neither those of the list nor that of the pool, and *)
(* no NULL pointer is followed.                                            *)
NoFault == \A c \in Contexts : pc[c] \notin {"assertFailed", "crashed"}

(* The refinement: an open list is the sequence of its items. *)
Abstract == INSTANCE ItemSequences WITH
               Handles <- Blocks, sequences <- [l \in open |-> ItemsOf(l)]

(* A call does what it was asked for.  An item is inserted next to the     *)
(* item that the caller named, although the node of that item was looked   *)
(* up in an earlier critical section; after sorting the items ascend.      *)
DoesAsAsked ==
  [][/\ \A c \in Contexts, l \in open, i \in 1 .. MaxBlocks :
          /\ pc[c] = "link" /\ pc'[c] = "idle"
          /\ call[c].list = l
          /\ i \in DOMAIN ItemsOf(l) /\ ItemsOf(l)[i] = call[c].itemRef
          => ItemsOf(l)' = InsertAt(ItemsOf(l), IF call[c].op = "before" THEN i ELSE i + 1,
                                    call[c].item)
     /\ \A c \in Contexts, l \in open :
          Sort(c, l) => Abstract!Ascending(ItemsOf(l)')]_vars
-----------------------------------------------------------------------------
(* The lists behave like sequences of items, each call taking effect at    *)
(* once at the end, however the calls overlap.                             *)
ImplementsSequences == Abstract!SequencesSpec
=============================================================================
