------------------------------- MODULE MemPool ------------------------------
(***************************************************************************)
(* tbx_mempool.c on top of the heap: a list of memory pools in ascending   *)
(* block size, each with a list of free and one of used block nodes.       *)
(*                                                                         *)
(* holder is the critical section that CritSectSingleCore implements.  A   *)
(* function whose whole body is one critical section without a loop is one *)
(* action; TbxMemPoolCreate runs its loop with the section held, and       *)
(* TbxMemPoolAllocateAuto leaves and enters it between its calls.          *)
(***************************************************************************)
EXTENDS HeapArithmetic, Sequences, SequencesExt

CONSTANTS Contexts,    \* tasks and interrupt handlers that use the library
          Handlers,    \* those that are interrupt handlers
          NoContext,
          BlockSizes,  \* the block sizes that pools are created for
          Counts,      \* the numbers of blocks that pools are created with
          Requests,    \* the sizes that callers allocate
          HeapRequests \* the sizes that others take directly from the heap

ASSUME PoolAssumption ==
  /\ NoContext \notin Contexts
  /\ Handlers \subseteq Contexts
  /\ Counts \subseteq Nat \ {0}
  /\ BlockSizes \cup Requests \subseteq 1 .. SizeMod - 2 * WordSize
  /\ HeapRequests \subseteq 1 .. SizeMod - WordSize

VARIABLES allocated,  \* tbxHeapAllocated
          pools,      \* tbxPoolList with the pools it leads to
          header,     \* header[b]: the size_t at the start of block b
          holder,     \* the context inside the critical section
          pc,         \* pc[c]: where c is in Create or AllocateAuto
          call,       \* call[c]: the parameter and the locals of c's call
          granted     \* history: the memory that callers own

heapVars == <<allocated, pools, header>>
vars == <<heapVars, holder, pc, call, granted>>

(* sizeof of tPoolNode, tPool, tBlockList, tBlockNode and size_t. *)
PoolNodeBytes  == 2 * WordSize
PoolBytes      == 3 * WordSize
BlockListBytes == WordSize
BlockNodeBytes == 2 * WordSize
HeaderBytes    == WordSize

(* The size parameter of Create or AllocateAuto, the iterations that are   *)
(* left of Create's loop, Create's result so far, where a call goes on     *)
(* after Create's success and after a failure.                             *)
Locals(size, todo, ok, back, failTo) ==
  [size |-> size, todo |-> todo, ok |-> ok, back |-> back, failTo |-> failTo]
NoLocals == Locals(1, 0, TRUE, "idle", "idle")

Init == /\ allocated = 0
        /\ pools = <<>>
        /\ header = [b \in {} |-> 0]
        /\ holder = NoContext
        /\ pc = [c \in Contexts |-> "idle"]
        /\ call = [c \in Contexts |-> NoLocals]
        /\ granted = {}

Goto(c, from, to) == pc[c] = from /\ pc' = [pc EXCEPT ![c] = to]

(* The call ends at location to and its locals are gone. *)
Finish(c, from, to) == Goto(c, from, to) /\ call' = [call EXCEPT ![c] = NoLocals]

(* What a caller owns once block b has been handed out to c for it. *)
GrantOf(b, asked, c) ==
  [start |-> b + HeaderBytes, size |-> asked,
   by |-> IF c \in Handlers THEN "handler" ELSE "task"]
-----------------------------------------------------------------------------
(* The pool list.  A position in the list stands for the pool node pointer; *)
(* 0 is NULL.                                                               *)

FirstOf(positions) == IF positions = {} THEN 0
                      ELSE CHOOSE i \in positions : \A j \in positions : i <= j

(* Mutant: an insertion at the head.  No specification uses this and the   *)
(* other mutants below; they show that the properties can fail.            *)
InsertAtHead(pool) == <<pool>> \o pools

(* TbxMemPoolListFind *)
ListFind(blockSize) ==
  FirstOf({i \in DOMAIN pools : pools[i].blockSize = blockSize})

(* TbxMemPoolListFindBestFit: the first pool that fits, unless it is full. *)
ListFindBestFit(blockSize) ==
  LET fit == FirstOf({i \in DOMAIN pools : pools[i].blockSize >= blockSize})
  IN  IF fit # 0 /\ pools[fit].free # <<>> THEN fit ELSE 0

(* TbxMemPoolListInsert: before the first pool with larger blocks. *)
ListInsert(pool) ==
  LET larger == FirstOf({i \in DOMAIN pools : pools[i].blockSize > pool.blockSize})
  IN  InsertAt(pools, IF larger = 0 THEN Len(pools) + 1 ELSE larger, pool)
-----------------------------------------------------------------------------
(* TbxMemPoolCreate *)

(* The heap allocations of a new pool: its node, the pool, two block lists.*)
(* The lists are both attempted; what was allocated before a failure stays *)
(* allocated.                                                              *)
NewPool ==
  LET node == Fits(allocated, PoolNodeBytes)
      h1   == AfterAllocate(allocated, PoolNodeBytes)
      pool == node /\ Fits(h1, PoolBytes)
      h2   == IF node THEN AfterAllocate(h1, PoolBytes) ELSE h1
      h3   == IF pool THEN AfterAllocate(h2, BlockListBytes) ELSE h2
      h4   == IF pool THEN AfterAllocate(h3, BlockListBytes) ELSE h3
  IN  [made |-> pool /\ Fits(h2, BlockListBytes) /\ Fits(h3, BlockListBytes),
       heap |-> h4]

(* Enter the critical section and make sure that there is a pool. *)
CreateEnter(c, from, blockSize, n, back, failTo) ==
  /\ Goto(c, from, "blocks")
  /\ holder = NoContext
  /\ holder' = c
  /\ LET exists == ListFind(blockSize) # 0
         good   == exists \/ NewPool.made
     IN  /\ call' = [call EXCEPT ![c] = Locals(blockSize, IF good THEN n ELSE 0, good, back, failTo)]
         /\ allocated' = IF exists THEN allocated ELSE NewPool.heap
         /\ pools' = IF exists \/ ~NewPool.made THEN pools
                     ELSE ListInsert([blockSize |-> blockSize, free |-> <<>>, used |-> <<>>])
  /\ UNCHANGED <<header, granted>>

Create(c) ==
  \E b \in BlockSizes, n \in Counts : CreateEnter(c, "idle", b, n, "idle", "idle")

(* Mutants: the loop retries after a failure instead of going on, and      *)
(* makes no progress; the same without room for the block's header.        *)
CreateBlockOrRetry(c, bytes) ==
  /\ Goto(c, "blocks", "blocks")
  /\ call[c].todo > 0
  /\ LET size  == call[c].size
         block == AfterAllocate(allocated, BlockNodeBytes)
     IN  /\ Fits(allocated, BlockNodeBytes) /\ Fits(block, bytes)
         /\ call' = [call EXCEPT ![c].todo = @ - 1]
         /\ allocated' = AfterAllocate(block, bytes)
         /\ header' = [b \in DOMAIN header \cup {block} |-> IF b = block THEN size ELSE header[b]]
         /\ pools' = [pools EXCEPT ![ListFind(size)].free = <<block>> \o @]
  /\ UNCHANGED <<holder, granted>>

CreateBlockRetry(c)    == CreateBlockOrRetry(c, HeaderBytes + call[c].size)
CreateBlockNoHeader(c) == CreateBlockOrRetry(c, call[c].size)

(* One iteration of the loop: a block node, then the block itself.  The    *)
(* loop goes on after a failure.                                           *)
CreateBlock(c) ==
  /\ Goto(c, "blocks", "blocks")
  /\ call[c].todo > 0
  /\ LET size  == call[c].size
         node  == Fits(allocated, BlockNodeBytes)
         block == AfterAllocate(allocated, BlockNodeBytes)
         good  == node /\ Fits(block, HeaderBytes + size)
     IN  /\ call' = [call EXCEPT ![c].todo = @ - 1, ![c].ok = @ /\ good]
         /\ allocated' = IF node THEN AfterAllocate(block, HeaderBytes + size) ELSE allocated
         /\ header' = IF good THEN [b \in DOMAIN header \cup {block} |->
                                      IF b = block THEN size ELSE header[b]]
                      ELSE header
         /\ pools' = IF good THEN [pools EXCEPT ![ListFind(size)].free = <<block>> \o @]
                     ELSE pools
  /\ UNCHANGED <<holder, granted>>

CreateExit(c) ==
  /\ call[c].todo = 0
  /\ LET to == IF call[c].ok THEN call[c].back ELSE call[c].failTo
     IN  IF to \in {"idle", "aborted"} THEN Finish(c, "blocks", to)
         ELSE Goto(c, "blocks", to) /\ UNCHANGED call
  /\ holder' = NoContext
  /\ UNCHANGED <<heapVars, granted>>
-----------------------------------------------------------------------------
(* TbxMemPoolAllocate *)

(* Mutant: the block's node is lost. *)
ServedNodeLost(c, asked) ==
  LET i == ListFindBestFit(asked)
      b == Head(pools[i].free)
  IN  /\ i # 0
      /\ pools' = [pools EXCEPT ![i].free = Tail(@)]
      /\ granted' = granted \cup {GrantOf(b, asked, c)}
      /\ UNCHANGED <<allocated, header>>

(* Move the head of the free list to the used list and hand it out. *)
Served(c, asked) ==
  LET i == ListFindBestFit(asked)
      b == Head(pools[i].free)
  IN  /\ i # 0
      /\ pools' = [pools EXCEPT ![i].free = Tail(@), ![i].used = <<b>> \o @]
      /\ granted' = granted \cup {GrantOf(b, asked, c)}
      /\ UNCHANGED <<allocated, header>>

(* No pool fits or the best fit is full: NULL, and nothing changes. *)
Refused(asked) == /\ ListFindBestFit(asked) = 0
                  /\ UNCHANGED <<heapVars, granted>>

Allocate(c) ==
  /\ holder = NoContext
  /\ pc[c] = "idle"
  /\ \E n \in Requests : Served(c, n)
  /\ UNCHANGED <<holder, pc, call>>
-----------------------------------------------------------------------------
(* TbxMemPoolAllocateAuto *)

(* Mutant: any pool that fits will do. *)
AutoFindBestFit(c, failTo) ==
  /\ holder = NoContext
  /\ \E n \in Requests :
       /\ Goto(c, "idle", IF ListFindBestFit(n) # 0 THEN "autoTry" ELSE "autoCreate")
       /\ call' = [call EXCEPT ![c].size = n, ![c].failTo = failTo]
  /\ UNCHANGED <<heapVars, holder, granted>>

(* Look for a pool of exactly this block size.  The caller goes on at      *)
(* failTo if it gets NULL in the end.                                      *)
AutoFind(c, failTo) ==
  /\ holder = NoContext
  /\ \E n \in Requests :
       /\ Goto(c, "idle", IF ListFind(n) # 0 THEN "autoTry" ELSE "autoCreate")
       /\ call' = [call EXCEPT ![c].size = n, ![c].failTo = failTo]
  /\ UNCHANGED <<heapVars, holder, granted>>

(* There is one: allocate, and if it is full go on to extend it. *)
AutoTry(c) ==
  /\ holder = NoContext
  /\ \/ Served(c, call[c].size) /\ Finish(c, "autoTry", "idle")
     \/ Refused(call[c].size) /\ Goto(c, "autoTry", "autoCreate") /\ UNCHANGED call
  /\ UNCHANGED holder

(* TbxMemPoolCreate(1U, size) *)
AutoCreate(c) ==
  CreateEnter(c, "autoCreate", call[c].size, 1, "autoAlloc", call[c].failTo)

(* Allocate from the pool that was just created or extended. *)
AutoAlloc(c) ==
  /\ holder = NoContext
  /\ \/ Served(c, call[c].size) /\ Finish(c, "autoAlloc", "idle")
     \/ Refused(call[c].size) /\ Finish(c, "autoAlloc", call[c].failTo)
  /\ UNCHANGED holder
-----------------------------------------------------------------------------
(* Mutant: the block is not put back into the free list. *)
ReleaseLosesBlock(c) ==
  /\ holder = NoContext
  /\ \E g \in {h \in granted : h.by # "heap"} :
       LET i    == ListFind(header[g.start - HeaderBytes])
           good == i # 0 /\ pools[i].used # <<>>
       IN  /\ Goto(c, "idle", IF good THEN "idle" ELSE "assertFailed")
           /\ granted' = granted \ {g}
           /\ pools' = IF good THEN [pools EXCEPT ![i].used = Tail(@)] ELSE pools
  /\ UNCHANGED <<allocated, header, holder, call>>

(* TbxMemPoolRelease of memory that its caller owns: the block goes back   *)
(* to the pool its header names, in whatever node that pool's used list    *)
(* has at its head.                                                        *)
Release(c) ==
  /\ holder = NoContext
  /\ \E g \in {h \in granted : h.by # "heap"} :
       LET block == g.start - HeaderBytes
           i     == ListFind(header[block])
           good  == i # 0 /\ pools[i].used # <<>>
       IN  /\ Goto(c, "idle", IF good THEN "idle" ELSE "assertFailed")
           /\ granted' = granted \ {g}
           /\ pools' = IF good
                       THEN [pools EXCEPT ![i].used = Tail(@), ![i].free = <<block>> \o @]
                       ELSE pools
  /\ UNCHANGED <<allocated, header, holder, call>>
-----------------------------------------------------------------------------
(* Somebody else allocates directly from the heap. *)
TakeFromHeap ==
  /\ holder = NoContext
  /\ \E n \in HeapRequests :
       /\ Fits(allocated, n)
       /\ allocated' = AfterAllocate(allocated, n)
       /\ granted' = granted \cup {[start |-> allocated, size |-> n, by |-> "heap"]}
  /\ UNCHANGED <<pools, header, holder, pc, call>>
-----------------------------------------------------------------------------
(* The steps by which a call goes on after its first one. *)
Continue(c) == CreateBlock(c) \/ CreateExit(c) \/ AutoTry(c) \/ AutoCreate(c) \/ AutoAlloc(c)

Call(c) == Create(c) \/ Allocate(c) \/ AutoFind(c, "idle") \/ Release(c) \/ Continue(c)

Next == TakeFromHeap \/ \E c \in Contexts : Call(c)

Spec == Init /\ [][Next]_vars
-----------------------------------------------------------------------------
(* Where a call may be; the last three are locations of the callers in     *)
(* MemPoolClients.                                                         *)
Locations == {"idle", "blocks", "autoTry", "autoCreate", "autoAlloc", "assertFailed",
              "mallocCreate", "mallocAgain", "aborted"}
Addresses == 0 .. HeapSize

(* The types of the variables. *)
TypeOK ==
  /\ allocated \in 0 .. HeapSize
  /\ pools \in Seq([blockSize : 1 .. SizeMod, free : Seq(Addresses), used : Seq(Addresses)])
  /\ header \in [DOMAIN header -> 1 .. SizeMod] /\ DOMAIN header \subseteq Addresses
  /\ holder \in Contexts \cup {NoContext}
  /\ pc \in [Contexts -> Locations]
  /\ call \in [Contexts -> [size : 1 .. SizeMod, todo : Nat, ok : BOOLEAN,
                            back : Locations, failTo : Locations]]
  /\ granted \subseteq [start : Addresses, size : 1 .. SizeMod, by : {"heap", "task", "handler"}]

(* The pool list is strictly ascending, which the search for the best fit  *)
(* relies on: no block size has two pools.                                 *)
PoolsAscending ==
  \A i, j \in DOMAIN pools : i < j => pools[i].blockSize < pools[j].blockSize

FromPools == {g \in granted : g.by # "heap"}
BlockOf(g) == g.start - HeaderBytes

(* Each pool has as many used nodes as callers own blocks of it, so that   *)
(* the assertions of TbxMemPoolRelease hold for whatever is released next. *)
UsedNodesMatchOwners ==
  /\ \A i \in DOMAIN pools :
       Len(pools[i].used) = Cardinality({g \in FromPools : header[BlockOf(g)] = pools[i].blockSize})
  /\ \A c \in Contexts : pc[c] # "assertFailed"

(* A step that hands out a block takes it from the smallest blocks that    *)
(* fit among all pools, and TbxMemPoolAllocateAuto hands out a block of    *)
(* exactly the size it was called with, whatever others did to the pools   *)
(* since it looked for one.                                                *)
BestFit ==
  [][\A g \in FromPools' \ FromPools :
       /\ header[BlockOf(g)] >= g.size
       /\ \A i \in DOMAIN pools :
            pools[i].blockSize >= g.size => header[BlockOf(g)] <= pools[i].blockSize
       /\ (\E c \in Contexts : pc[c] \in {"autoTry", "autoAlloc"} /\ pc'[c] # pc[c])
            => header[BlockOf(g)] = g.size]_vars

(* The places of block b: its owners and its positions in free lists. *)
OwnersOf(b) == {g \in FromPools : BlockOf(g) = b}
FreePlaces == UNION {{i} \X DOMAIN pools[i].free : i \in DOMAIN pools}
FreePlacesOf(b) == {p \in FreePlaces : pools[p[1]].free[p[2]] = b}

(* Blocks are neither lost nor multiplied, although released blocks change *)
(* their nodes: every block that was created is in one place, in a free    *)
(* list of the pool of its size or with its owner.                         *)
BlocksConserved ==
  /\ \A b \in DOMAIN header :
       /\ Cardinality(OwnersOf(b)) + Cardinality(FreePlacesOf(b)) = 1
       /\ \A p \in FreePlacesOf(b) : pools[p[1]].blockSize = header[b]
  /\ \A g \in FromPools : BlockOf(g) \in DOMAIN header
  /\ \A p \in FreePlaces : pools[p[1]].free[p[2]] \in DOMAIN header
-----------------------------------------------------------------------------
(* The pools keep the allocator's contract, together with whatever else    *)
(* was allocated from the heap.                                            *)
Contract == INSTANCE MemoryContract WITH BufferSize <- HeapSize
KeepsContract == Contract!ContractSpec
=============================================================================
