---------------------------- MODULE MemPoolProofs ---------------------------
(***************************************************************************)
(* Proofs about the memory pools and their callers, for any heap, any      *)
(* number of contexts and any block sizes that do not wrap.                *)
(***************************************************************************)
EXTENDS MemPoolClients, CollectionLemmas

(* sizeWanted is at least the size, and whole words, when the sum of size  *)
(* and word does not wrap around.                                          *)
LEMMA Rounding ==
  ASSUME NEW n \in 1 .. SizeMod - WordSize
  PROVE  /\ SizeWanted(n) \in Nat
         /\ SizeWanted(n) >= n
         /\ SizeWanted(n) < SizeMod
         /\ SizeWanted(n) % WordSize = 0
<1>1. WordSize \in Nat \ {0} /\ SizeMod \in Nat
  BY HeapAssumption
<1>2. SizeWanted(n) = Rounded(n, WordSize, SizeMod)
  BY DEF SizeWanted, Rounded
<1>3. QED
  BY <1>1, <1>2, RoundedUp

(* As long as the heap is not over-committed the subtraction is exact. *)
LEMMA Available ==
  ASSUME NEW a \in 0 .. HeapSize
  PROVE  SizeAvailable(a) = HeapSize - a
<1>1. HeapSize - a \in Nat /\ HeapSize - a < SizeMod /\ SizeMod \in Nat
  BY HeapAssumption
<1>2. QED
  BY <1>1, ModSmall DEF SizeAvailable

(* The counter never moves back and never beyond the buffer, whatever size *)
(* is asked for, also one that wraps around.                               *)
LEMMA CounterRange ==
  ASSUME NEW a \in 0 .. HeapSize, NEW n \in Nat
  PROVE  AfterAllocate(a, n) \in a .. HeapSize
<1>1. WordSize \in Nat \ {0} /\ SizeMod \in Nat \ {0} /\ HeapSize \in Nat
  BY HeapAssumption
<1>2. SizeWanted(n) = Rounded(n, WordSize, SizeMod)
  BY DEF SizeWanted, Rounded
<1>3. SizeWanted(n) \in Nat
  BY <1>1, <1>2, RoundedNat
<1>4. QED
  BY <1>1, <1>3, Available DEF AfterAllocate, Fits

(* An allocation that fits gets at least the bytes that were asked for. *)
LEMMA CounterRoom ==
  ASSUME NEW a \in 0 .. HeapSize, NEW n \in 1 .. SizeMod - WordSize, Fits(a, n)
  PROVE  AfterAllocate(a, n) >= a + n
  BY Rounding, HeapAssumption DEF AfterAllocate

(* The sizes that blocks are created with. *)
Sizes == BlockSizes \cup Requests

HasPool(size) == \E i \in DOMAIN pools : pools[i].blockSize = size
HasFree(size) == \E i \in DOMAIN pools : pools[i].blockSize = size /\ pools[i].free # <<>>

SizesInv ==
  /\ \A i \in DOMAIN pools : pools[i].blockSize \in Sizes
  /\ \A b \in DOMAIN header : header[b] \in Sizes /\ HasPool(header[b])

(* The pieces of the heap that blocks, with their headers, and others occupy. *)
BlockEnd(b) == b + HeaderBytes + header[b]
GrantEnd(g) == g.start + g.size
HeapGrants  == granted \ FromPools

(* They lie below the heap's counter and do not overlap. *)
RegionInv ==
  /\ \A b \in DOMAIN header : BlockEnd(b) <= allocated
  /\ \A g \in HeapGrants : GrantEnd(g) <= allocated
  /\ \A b, d \in DOMAIN header : b < d => BlockEnd(b) <= d
  /\ \A g, h \in HeapGrants : g # h => GrantEnd(g) <= h.start \/ GrantEnd(h) <= g.start
  /\ \A b \in DOMAIN header, g \in HeapGrants : BlockEnd(b) <= g.start \/ GrantEnd(g) <= b

(* Each block is free, once, in the pool of its size, or has one owner, who *)
(* asked for no more than the block has.                                    *)
FreeInv ==
  \A i \in DOMAIN pools :
    /\ IsInjective(pools[i].free)
    /\ \A b \in ToSet(pools[i].free) : b \in DOMAIN header /\ header[b] = pools[i].blockSize
OwnerInv ==
  /\ \A g \in FromPools : /\ BlockOf(g) \in DOMAIN header
                          /\ g.size \in 1 .. header[BlockOf(g)]
  /\ \A g, h \in FromPools : BlockOf(g) = BlockOf(h) => g = h
PlaceInv ==
  \A b \in DOMAIN header :
    (\E i \in DOMAIN pools : b \in ToSet(pools[i].free)) <=> (\A g \in FromPools : BlockOf(g) # b)

(* The used nodes of a pool are as many as its owned blocks. *)
Owned(size) == {g \in FromPools : header[BlockOf(g)] = size}
CountInv ==
  /\ IsFiniteSet(granted)
  /\ \A i \in DOMAIN pools : Len(pools[i].used) = Cardinality(Owned(pools[i].blockSize))

(* The types of the heap's data, and all that must hold of them. *)
PoolSet == [blockSize : 1 .. SizeMod, free : Seq(Addresses), used : Seq(Addresses)]
GrantSet == [start : Addresses, size : 1 .. SizeMod, by : {"heap", "task", "handler"}]
DataTypes ==
  /\ allocated \in 0 .. HeapSize
  /\ pools \in Seq(PoolSet)
  /\ header \in [DOMAIN header -> 1 .. SizeMod] /\ DOMAIN header \subseteq Addresses
  /\ granted \subseteq GrantSet
DataInv == /\ DataTypes /\ PoolsAscending /\ SizesInv /\ RegionInv
           /\ FreeInv /\ OwnerInv /\ PlaceInv /\ CountInv

(* What context c may rely on between the steps of its call. *)
Busy == {"blocks", "autoTry", "autoCreate", "autoAlloc", "mallocCreate", "mallocAgain"}
WaysOn == {<<"idle", "idle">>, <<"autoAlloc", "idle">>, <<"autoAlloc", "aborted">>,
           <<"mallocAgain", "mallocAgain">>}
CallInv(c) ==
  /\ pc[c] # "assertFailed"
  /\ pc[c] = "blocks" <=> holder = c
  /\ pc[c] \in Busy => call[c].size \in Sizes
  /\ pc[c] \in {"autoTry", "autoAlloc"} => HasPool(call[c].size)
  /\ pc[c] = "blocks" =>
       /\ call[c].todo > 0 \/ call[c].ok => HasPool(call[c].size)
       /\ <<call[c].back, call[c].failTo>> \in WaysOn
  /\ pc[c] \in {"autoTry", "autoCreate", "autoAlloc"} => call[c].failTo \in {"idle", "aborted"}

(* pvPortMalloc keeps the scheduler suspended, and what it added to a pool *)
(* is still there or belongs to an interrupt handler.                      *)
InMalloc(c) == \/ pc[c] \in {"mallocCreate", "mallocAgain"}
               \/ pc[c] = "blocks" /\ call[c].back = "mallocAgain"
Supply(size) == HasFree(size) \/ \E g \in Owned(size) : g.by = "handler"
MallocInv(c) ==
  /\ InMalloc(c) => suspended = c
  /\ pc[c] = "blocks" /\ call[c].ok /\ call[c].todo = 0 => HasFree(call[c].size)
  /\ pc[c] = "mallocAgain" /\ call[c].ok => Supply(call[c].size)

(* The types of the variables that control the calls. *)
ControlTypes ==
  /\ holder \in Contexts \cup {NoContext}
  /\ pc \in [Contexts -> Locations]
  /\ call \in [Contexts -> [size : 1 .. SizeMod, todo : Nat, ok : BOOLEAN,
                            back : Locations, failTo : Locations]]
  /\ suspended \in (Contexts \ Handlers) \cup {NoContext}

IInv == /\ DataInv /\ ControlTypes
        /\ \A c \in Contexts : CallInv(c) /\ MallocInv(c)
-----------------------------------------------------------------------------
(* The searches through the pool list. *)

(* The first of the positions that qualify. *)
LEMMA First ==
  ASSUME NEW T, T \subseteq Nat \ {0}
  PROVE  /\ T = {} => FirstOf(T) = 0
         /\ T # {} => FirstOf(T) \in T /\ \A j \in T : FirstOf(T) <= j
         /\ FirstOf(T) # 0 <=> T # {}
<1>1. CASE T = {}
  BY <1>1 DEF FirstOf
<1>2. CASE T # {}
  <2>1. \E x \in T : \A y \in T : x <= y
    BY <1>2, LeastNat
  <2>2. FirstOf(T) = CHOOSE i \in T : \A j \in T : i <= j
    BY <1>2 DEF FirstOf
  <2>3. FirstOf(T) \in T /\ \A j \in T : FirstOf(T) <= j
    BY <2>1, <2>2
  <2>4. QED
    BY <1>2, <2>3
<1>3. QED
  BY <1>1, <1>2

(* What the type invariant says of a single pool. *)
LEMMA PoolTypes ==
  ASSUME DataTypes
  PROVE  /\ Len(pools) \in Nat /\ DOMAIN pools = 1 .. Len(pools)
         /\ DOMAIN pools \subseteq Nat \ {0}
         /\ \A i \in DOMAIN pools : /\ pools[i] \in PoolSet
                                    /\ pools[i].blockSize \in 1 .. SizeMod
                                    /\ pools[i].free \in Seq(Addresses)
                                    /\ pools[i].used \in Seq(Addresses)
<1>1. /\ Len(pools) \in Nat /\ DOMAIN pools = 1 .. Len(pools)
      /\ \A i \in DOMAIN pools : pools[i] \in PoolSet
  BY DEF DataTypes
<1>2. QED
  BY <1>1 DEF PoolSet

(* TbxMemPoolListFind finds the pool with this block size, if there is one. *)
LEMMA Find ==
  ASSUME DataTypes, NEW size
  PROVE  /\ ListFind(size) # 0 <=> HasPool(size)
         /\ HasPool(size) => /\ ListFind(size) \in DOMAIN pools
                             /\ pools[ListFind(size)].blockSize = size
<1> DEFINE T == {i \in DOMAIN pools : pools[i].blockSize = size}
<1>1. T \subseteq Nat \ {0} /\ (T # {} <=> HasPool(size))
  BY PoolTypes DEF HasPool
<1>2. ListFind(size) = FirstOf(T)
  BY DEF ListFind
<1>3. \A i \in T : i \in DOMAIN pools /\ pools[i].blockSize = size
  OBVIOUS
<1> HIDE DEF T
<1>4. QED
  BY <1>1, <1>2, <1>3, First

(* The best fit is the smallest pool that fits, and has a free block. *)
LEMMA FindBestFit ==
  ASSUME DataTypes, PoolsAscending, NEW size \in Nat, ListFindBestFit(size) # 0
  PROVE  LET i == ListFindBestFit(size)
         IN  /\ i \in DOMAIN pools
             /\ pools[i].blockSize >= size
             /\ pools[i].free # <<>>
             /\ \A j \in DOMAIN pools : pools[j].blockSize >= size =>
                                          pools[i].blockSize <= pools[j].blockSize
<1> DEFINE T == {i \in DOMAIN pools : pools[i].blockSize >= size}
           fit == FirstOf(T)
<1>1. T \subseteq Nat \ {0}
  BY PoolTypes
<1>2. \A i \in DOMAIN pools : i \in T <=> pools[i].blockSize >= size
  OBVIOUS
<1>3. ListFindBestFit(size) = fit /\ fit # 0 /\ pools[fit].free # <<>>
  BY DEF ListFindBestFit
<1>9. T \subseteq DOMAIN pools
  OBVIOUS
<1> HIDE DEF T
<1>4. fit \in T /\ \A j \in T : fit <= j
  BY <1>1, <1>3, First
<1> HIDE DEF fit
<1>5. fit \in DOMAIN pools /\ DOMAIN pools \subseteq Nat
  BY <1>4, <1>9, PoolTypes
<1>6. \A j \in T : pools[fit].blockSize <= pools[j].blockSize
  <2> SUFFICES ASSUME NEW j \in T PROVE pools[fit].blockSize <= pools[j].blockSize
    OBVIOUS
  <2>1. pools[fit].blockSize \in Nat /\ pools[j].blockSize \in Nat
    BY <1>5, <1>9, PoolTypes, HeapAssumption
  <2>2. fit = j \/ fit < j
    BY <1>4, <1>5, <1>9
  <2>3. QED
    BY <1>5, <1>9, <2>1, <2>2 DEF PoolsAscending
<1>7. QED
  BY <1>2, <1>3, <1>4, <1>5, <1>6

(* A pool with blocks of exactly this size is the best fit unless it is full. *)
LEMMA ExactFit ==
  ASSUME DataTypes, PoolsAscending, NEW size \in Nat, HasPool(size)
  PROVE  /\ HasFree(size) => ListFindBestFit(size) # 0
         /\ ListFindBestFit(size) # 0 => pools[ListFindBestFit(size)].blockSize = size
<1> DEFINE T == {i \in DOMAIN pools : pools[i].blockSize >= size}
           fit == FirstOf(T)
<1>1. PICK k \in DOMAIN pools : pools[k].blockSize = size
  BY DEF HasPool
<1>2. k \in T /\ T \subseteq Nat \ {0} /\ T \subseteq DOMAIN pools
  BY <1>1, PoolTypes
<1>3. ListFindBestFit(size) = IF fit # 0 /\ pools[fit].free # <<>> THEN fit ELSE 0
  BY DEF ListFindBestFit
<1>4. \A j \in T : pools[j].blockSize >= size /\ pools[j].blockSize \in Nat
  BY PoolTypes, HeapAssumption
<1> HIDE DEF T
<1>5. fit \in T /\ fit <= k /\ fit # 0
  BY <1>2, First
<1> HIDE DEF fit
<1>6. fit = k
  <2>1. fit \in Nat /\ k \in Nat /\ fit \in DOMAIN pools
    BY <1>2, <1>5
  <2>2. ~(fit < k)
    BY <1>1, <1>4, <1>5, <2>1 DEF PoolsAscending
  <2>3. QED
    BY <1>5, <2>1, <2>2
<1>7. HasFree(size) => pools[k].free # <<>>
  <2> SUFFICES ASSUME NEW m \in DOMAIN pools, pools[m].blockSize = size
               PROVE  m = k
    BY DEF HasFree
  <2>1. m \in Nat /\ k \in Nat
    BY PoolTypes
  <2>2. ~(m < k) /\ ~(k < m)
    BY <1>1, HeapAssumption, PoolTypes DEF PoolsAscending
  <2>3. QED
    BY <2>1, <2>2
<1>8. QED
  BY <1>1, <1>3, <1>5, <1>6, <1>7
-----------------------------------------------------------------------------
(* What the steps do to the data.  What they allocate besides the block and *)
(* its header stays with nobody.                                            *)
GrowHeap == /\ allocated' \in allocated .. HeapSize
            /\ UNCHANGED <<pools, header, granted>>

EmptyPool(size) == [blockSize |-> size, free |-> <<>>, used |-> <<>>]
AddPool(size) == /\ size \in Sizes /\ ~HasPool(size)
                 /\ allocated' \in allocated .. HeapSize
                 /\ pools' = ListInsert(EmptyPool(size))
                 /\ UNCHANGED <<header, granted>>

(* Pool i gets the lists free and used, the others keep theirs. *)
SetLists(i, free, used) ==
  /\ pools' \in Seq(PoolSet) /\ DOMAIN pools' = DOMAIN pools
  /\ pools'[i] = [blockSize |-> pools[i].blockSize, free |-> free, used |-> used]
  /\ \A j \in DOMAIN pools \ {i} : pools'[j] = pools[j]

AddBlock(size, i, block) ==
  /\ i \in DOMAIN pools /\ pools[i].blockSize = size
  /\ block \in Nat /\ block >= allocated
  /\ allocated' \in Nat /\ block + HeaderBytes + size <= allocated' /\ allocated' <= HeapSize
  /\ header' = [b \in DOMAIN header \cup {block} |-> IF b = block THEN size ELSE header[b]]
  /\ SetLists(i, <<block>> \o pools[i].free, pools[i].used)
  /\ UNCHANGED granted

HandOut(i, g) ==
  /\ i \in DOMAIN pools /\ pools[i].free # <<>>
  /\ BlockOf(g) = Head(pools[i].free) /\ g.size \in 1 .. pools[i].blockSize
  /\ g \in GrantSet /\ g.by # "heap"
  /\ SetLists(i, Tail(pools[i].free), <<BlockOf(g)>> \o pools[i].used)
  /\ granted' = granted \cup {g}
  /\ UNCHANGED <<allocated, header>>

TakeBack(i, g) ==
  /\ i \in DOMAIN pools /\ g \in FromPools /\ header[BlockOf(g)] = pools[i].blockSize
  /\ pools[i].used # <<>>
  /\ SetLists(i, <<BlockOf(g)>> \o pools[i].free, Tail(pools[i].used))
  /\ granted' = granted \ {g}
  /\ UNCHANGED <<allocated, header>>

TakeHeap(g) ==
  /\ g \in GrantSet /\ g.by = "heap" /\ g.start >= allocated
  /\ allocated' \in Nat /\ GrantEnd(g) <= allocated' /\ allocated' <= HeapSize
  /\ granted' = granted \cup {g}
  /\ UNCHANGED <<pools, header>>

(* What most of them leave as it is: which pools there are, and that a pool *)
(* has a free block or a handler owns one of its blocks.                    *)
PoolsStay == \A size : HasPool(size) => HasPool(size)'
SupplyStays == \A size : Supply(size) => Supply(size)'

(* Types of sizes. *)
LEMMA SizeTypes ==
  ASSUME NEW size \in Sizes
  PROVE  /\ size \in Nat \ {0} /\ size \in 1 .. SizeMod
         /\ HeaderBytes \in Nat \ {0}
         /\ HeaderBytes + size \in 1 .. SizeMod - WordSize
BY HeapAssumption, PoolAssumption DEF Sizes, HeaderBytes

(* Memory that stays with nobody disturbs nobody. *)
LEMMA GrowHeapData ==
  ASSUME DataInv, GrowHeap
  PROVE  DataInv' /\ PoolsStay /\ SupplyStays
<1>1. DataTypes' /\ allocated \in Nat /\ allocated' \in Nat /\ allocated <= allocated'
  BY HeapAssumption DEF DataInv, DataTypes, GrowHeap, Addresses, PoolSet, GrantSet
<1>2. RegionInv'
  <2>1. /\ \A b \in DOMAIN header : BlockEnd(b) \in Nat
        /\ \A g \in HeapGrants : GrantEnd(g) \in Nat
    BY HeapAssumption DEF DataInv, DataTypes, BlockEnd, GrantEnd, HeapGrants, HeaderBytes,
                          GrantSet, Addresses
  <2>2. QED
    BY <1>1, <2>1 DEF DataInv, RegionInv, GrowHeap, BlockEnd, GrantEnd, HeapGrants, FromPools
<1>3. PoolsAscending' /\ SizesInv' /\ FreeInv' /\ OwnerInv' /\ PlaceInv' /\ CountInv'
  BY DEF DataInv, GrowHeap, PoolsAscending, SizesInv, HasPool, FreeInv, OwnerInv, PlaceInv,
         CountInv, Owned, FromPools
<1>4. PoolsStay /\ SupplyStays
  BY DEF GrowHeap, PoolsStay, SupplyStays, HasPool, Supply, HasFree, Owned, FromPools
<1>5. QED
  BY <1>1, <1>2, <1>3, <1>4 DEF DataInv

(* Facts about the owners and blocks that all the operations rely on. *)
LEMMA GrantTypes ==
  ASSUME DataInv
  PROVE  /\ HeaderBytes \in Nat \ {0}
         /\ allocated \in Nat
         /\ \A g \in granted : /\ g.start \in Nat /\ g.size \in Nat \ {0} /\ GrantEnd(g) \in Nat
                               /\ g = [start |-> g.start, size |-> g.size, by |-> g.by]
                               /\ BlockOf(g) \in Int /\ g.start = BlockOf(g) + HeaderBytes
         /\ \A b \in DOMAIN header : b \in Nat /\ header[b] \in Nat \ {0} /\ BlockEnd(b) \in Nat
         /\ \A g \in FromPools : BlockOf(g) \in DOMAIN header
         /\ FromPools \subseteq granted /\ HeapGrants \subseteq granted
<1>1. HeaderBytes \in Nat \ {0} /\ allocated \in Nat /\ HeapSize \in Nat
  BY HeapAssumption DEF HeaderBytes, DataInv, DataTypes
<1>2. \A g \in granted : /\ g.start \in Nat /\ g.size \in Nat \ {0}
                         /\ g = [start |-> g.start, size |-> g.size, by |-> g.by]
  BY <1>1, HeapAssumption DEF DataInv, DataTypes, GrantSet, Addresses
<1>3. \A b \in DOMAIN header : b \in Nat /\ header[b] \in Nat \ {0}
  BY <1>1, HeapAssumption DEF DataInv, DataTypes, Addresses
<1>4. QED
  BY <1>1, <1>2, <1>3 DEF GrantEnd, BlockEnd, BlockOf, FromPools, HeapGrants, DataInv, OwnerInv
-----------------------------------------------------------------------------
(* The pool list after the insertion of a new pool: where the pool is, and  *)
(* that the others are where they were or one further.                      *)
LEMMA Inserted ==
  ASSUME DataInv, NEW size, AddPool(size)
  PROVE  /\ pools' \in Seq(PoolSet) /\ Len(pools') = Len(pools) + 1
         /\ \E k \in 1 .. Len(pools) + 1 :
              /\ \A j \in 1 .. Len(pools) + 1 :
                   pools'[j] = IF j < k THEN pools[j]
                               ELSE IF j = k THEN EmptyPool(size) ELSE pools[j - 1]
              /\ \A i \in DOMAIN pools : /\ i < k => pools[i].blockSize < size
                                         /\ i >= k => pools[i].blockSize > size
<1> DEFINE T == {i \in DOMAIN pools : pools[i].blockSize > size}
           k == IF FirstOf(T) = 0 THEN Len(pools) + 1 ELSE FirstOf(T)
<1>1. DataTypes /\ size \in Sizes /\ size \in Nat
  BY SizeTypes DEF DataInv, AddPool
<1>2. EmptyPool(size) \in PoolSet /\ EmptyPool(size).blockSize = size
  BY <1>1, SizeTypes DEF EmptyPool, PoolSet
<1>3. T \subseteq Nat \ {0} /\ T \subseteq DOMAIN pools
  BY <1>1, PoolTypes
<1>4. \A i \in DOMAIN pools : i \in T <=> pools[i].blockSize > size
  OBVIOUS
<1>5. pools' = InsertAt(pools, k, EmptyPool(size))
  BY <1>2 DEF AddPool, ListInsert
<1> HIDE DEF T
<1>6. Len(pools) \in Nat /\ DOMAIN pools = 1 .. Len(pools) /\ pools \in Seq(PoolSet)
  BY <1>1, PoolTypes DEF DataTypes
<1>7. /\ FirstOf(T) # 0 => FirstOf(T) \in T /\ \A j \in T : FirstOf(T) <= j
      /\ FirstOf(T) = 0 => T = {}
  BY <1>3, First
<1>8. k \in 1 .. Len(pools) + 1 /\ (\A j \in T : k <= j)
      /\ (k \in DOMAIN pools => pools[k].blockSize > size)
  <2>1. CASE FirstOf(T) = 0
    BY <1>6, <1>7, <2>1
  <2>2. CASE FirstOf(T) # 0
    <3>1. k \in T /\ k \in DOMAIN pools /\ (\A j \in T : k <= j)
      BY <1>3, <1>7, <2>2
    <3>2. QED
      BY <1>4, <1>6, <3>1
  <2>3. QED
    BY <2>1, <2>2
<1> HIDE DEF k
<1>9. \A i \in DOMAIN pools : i < k => pools[i].blockSize < size
  <2> SUFFICES ASSUME NEW i \in DOMAIN pools, i < k PROVE pools[i].blockSize < size
    OBVIOUS
  <2>1. i \notin T
    BY <1>3, <1>6, <1>8
  <2>2. pools[i].blockSize # size /\ pools[i].blockSize \in Nat
    BY <1>1, PoolTypes, HeapAssumption DEF AddPool, HasPool
  <2>3. QED
    BY <1>1, <1>4, <2>1, <2>2
<1>10. \A i \in DOMAIN pools : i >= k => pools[i].blockSize > size
  <2> SUFFICES ASSUME NEW i \in DOMAIN pools, i >= k PROVE pools[i].blockSize > size
    OBVIOUS
  <2>1. k \in DOMAIN pools
    BY <1>6, <1>8
  <2>2. k = i \/ pools[k].blockSize < pools[i].blockSize
    BY <1>6, <2>1 DEF DataInv, PoolsAscending
  <2>3. pools[k].blockSize \in Nat /\ pools[i].blockSize \in Nat
    BY <1>1, <2>1, PoolTypes, HeapAssumption
  <2>4. QED
    BY <1>1, <1>8, <2>1, <2>2, <2>3
<1>11. /\ pools' \in Seq(PoolSet) /\ Len(pools') = Len(pools) + 1
       /\ \A j \in 1 .. Len(pools) + 1 :
            pools'[j] = IF j < k THEN pools[j] ELSE IF j = k THEN EmptyPool(size) ELSE pools[j - 1]
  <2>1. k \in 1 .. Len(pools) + 1 /\ pools \in Seq(PoolSet) /\ EmptyPool(size) \in PoolSet
    BY <1>2, <1>6, <1>8
  <2>2. /\ InsertAt(pools, k, EmptyPool(size)) \in Seq(PoolSet)
        /\ Len(InsertAt(pools, k, EmptyPool(size))) = Len(pools) + 1
        /\ \A j \in 1 .. Len(pools) + 1 :
             InsertAt(pools, k, EmptyPool(size))[j] =
               IF j < k THEN pools[j] ELSE IF j = k THEN EmptyPool(size) ELSE pools[j - 1]
    BY <2>1, InsertElements
  <2>3. QED
    BY <1>5, <2>2
<1>12. QED
  BY <1>8, <1>9, <1>10, <1>11

(* A new pool keeps the order of the list and the places of all blocks. *)
LEMMA AddPoolData ==
  ASSUME DataInv, NEW size, AddPool(size)
  PROVE  DataInv' /\ PoolsStay /\ SupplyStays /\ HasPool(size)'
<1>1. DataTypes /\ size \in Sizes /\ size \in Nat
  BY SizeTypes DEF DataInv, AddPool
<1>2. /\ Len(pools) \in Nat /\ DOMAIN pools = 1 .. Len(pools)
      /\ \A i \in DOMAIN pools : pools[i].blockSize \in Nat
  BY <1>1, PoolTypes, HeapAssumption
<1>3. DataTypes' /\ allocated \in Nat /\ allocated' \in Nat /\ allocated <= allocated'
  BY Inserted, HeapAssumption DEF DataInv, DataTypes, AddPool
<1>4. pools' \in Seq(PoolSet) /\ Len(pools') = Len(pools) + 1 /\ DOMAIN pools' = 1 .. Len(pools) + 1
  <2>1. pools' \in Seq(PoolSet) /\ Len(pools') = Len(pools) + 1
    BY Inserted
  <2>2. QED
    BY <2>1
<1>5. PICK k \in 1 .. Len(pools) + 1 :
        /\ \A j \in 1 .. Len(pools) + 1 :
             pools'[j] = IF j < k THEN pools[j]
                         ELSE IF j = k THEN EmptyPool(size) ELSE pools[j - 1]
        /\ \A i \in DOMAIN pools : /\ i < k => pools[i].blockSize < size
                                   /\ i >= k => pools[i].blockSize > size
  BY Inserted
<1>6. EmptyPool(size).blockSize = size /\ EmptyPool(size).free = <<>> /\ EmptyPool(size).used = <<>>
  BY DEF EmptyPool
<1>7. \A j \in DOMAIN pools' : pools'[j] = EmptyPool(size) \/ \E i \in DOMAIN pools : pools'[j] = pools[i]
  <2> TAKE j \in DOMAIN pools'
  <2>1. CASE j < k
    BY <1>2, <1>4, <1>5, <2>1
  <2>2. CASE j = k
    BY <1>2, <1>4, <1>5, <2>2
  <2>3. CASE j > k
    <3>1. j - 1 \in DOMAIN pools /\ pools'[j] = pools[j - 1]
      BY <1>2, <1>4, <1>5, <2>3
    <3>2. QED
      BY <3>1
  <2>4. QED
    BY <1>2, <1>4, <2>1, <2>2, <2>3
<1>8. \A i \in DOMAIN pools : \E j \in DOMAIN pools' : pools'[j] = pools[i]
  <2> TAKE i \in DOMAIN pools
  <2>1. CASE i < k
    BY <1>2, <1>4, <1>5, <2>1
  <2>2. CASE i >= k
    <3>1. i + 1 \in DOMAIN pools' /\ pools'[i + 1] = pools[i]
      BY <1>2, <1>4, <1>5, <2>2
    <3>2. QED
      BY <3>1
  <2>3. QED
    BY <1>2, <2>1, <2>2
<1>9. pools'[k] = EmptyPool(size) /\ k \in DOMAIN pools'
  BY <1>2, <1>4, <1>5
<1>10. PoolsAscending'
  <2> SUFFICES ASSUME NEW i \in DOMAIN pools', NEW j \in DOMAIN pools', i < j
               PROVE  pools'[i].blockSize < pools'[j].blockSize
    BY DEF PoolsAscending
  <2>1. PoolsAscending
    BY DEF DataInv
  <2>2. CASE j < k
    BY <1>2, <1>4, <1>5, <2>1, <2>2 DEF PoolsAscending
  <2>3. CASE j = k
    BY <1>2, <1>4, <1>5, <1>6, <2>3
  <2>4. CASE j > k
    <3>1. j - 1 \in DOMAIN pools /\ pools'[j] = pools[j - 1] /\ j - 1 >= k
      BY <1>2, <1>4, <1>5, <2>4
    <3>2. CASE i < k
      BY <1>2, <1>4, <1>5, <2>1, <3>1, <3>2 DEF PoolsAscending
    <3>3. CASE i = k
      BY <1>2, <1>4, <1>5, <1>6, <3>1, <3>3
    <3>4. CASE i > k
      <4>1. i - 1 \in DOMAIN pools /\ pools'[i] = pools[i - 1] /\ i - 1 < j - 1
        BY <1>2, <1>4, <1>5, <3>4
      <4>2. QED
        BY <2>1, <3>1, <4>1 DEF PoolsAscending
    <3>5. QED
      BY <1>2, <1>4, <3>2, <3>3, <3>4
  <2>5. QED
    BY <1>2, <1>4, <2>2, <2>3, <2>4
<1>11. PoolsStay /\ HasPool(size)' /\ SupplyStays
  BY <1>6, <1>8, <1>9 DEF PoolsStay, HasPool, SupplyStays, Supply, HasFree, AddPool, Owned, FromPools
<1>12. SizesInv'
  BY <1>1, <1>6, <1>7, <1>11 DEF DataInv, SizesInv, AddPool, PoolsStay
<1>13. RegionInv'
  BY <1>3, GrantTypes DEF DataInv, RegionInv, AddPool, BlockEnd, GrantEnd, HeapGrants, FromPools
<1>14. FreeInv'
  <2>1. IsInjective(<<>>) /\ ToSet(<<>>) = {}
    BY DEF IsInjective, ToSet
  <2>2. QED
    BY <1>6, <1>7, <2>1 DEF DataInv, FreeInv, AddPool
<1>15. OwnerInv'
  BY DEF DataInv, OwnerInv, AddPool, FromPools
<1>16. PlaceInv'
  <2>1. ToSet(<<>>) = {}
    BY DEF ToSet
  <2>2. \A b : (\E i \in DOMAIN pools : b \in ToSet(pools[i].free))
                 <=> (\E i \in DOMAIN pools' : b \in ToSet(pools'[i].free))
    BY <1>6, <1>7, <1>8, <2>1
  <2>3. QED
    BY <2>2 DEF DataInv, PlaceInv, AddPool, FromPools
<1>17. CountInv'
  <2>1. Owned(size) = {}
    BY DEF Owned, DataInv, SizesInv, OwnerInv, AddPool
  <2>2. Cardinality(Owned(size)) = 0 /\ Len(<<>>) = 0
    BY <2>1, FS_EmptySet
  <2>3. granted' = granted /\ header' = header
    BY DEF AddPool
  <2>4. \A j \in DOMAIN pools' : Len(pools'[j].used) = Cardinality(Owned(pools'[j].blockSize))
    BY <1>6, <1>7, <2>2 DEF DataInv, CountInv
  <2>5. QED
    BY <2>3, <2>4 DEF DataInv, CountInv, Owned, FromPools
<1>18. QED
  BY <1>3, <1>10, <1>11, <1>12, <1>13, <1>14, <1>15, <1>16, <1>17 DEF DataInv
-----------------------------------------------------------------------------
(* New lists for one pool change no pool's block size. *)
LEMMA ListsOnly ==
  ASSUME DataInv, NEW i \in DOMAIN pools, NEW free, NEW used, SetLists(i, free, used)
  PROVE  /\ DOMAIN pools' = DOMAIN pools /\ pools' \in Seq(PoolSet)
         /\ \A j \in DOMAIN pools : pools'[j].blockSize = pools[j].blockSize
         /\ pools'[i].free = free /\ pools'[i].used = used
         /\ \A j \in DOMAIN pools : j # i => pools'[j] = pools[j]
         /\ \A j \in DOMAIN pools : j # i => pools[j].blockSize # pools[i].blockSize
         /\ PoolsAscending' /\ PoolsStay
<1>1. /\ DOMAIN pools' = DOMAIN pools /\ pools' \in Seq(PoolSet)
      /\ pools'[i].blockSize = pools[i].blockSize
      /\ pools'[i].free = free /\ pools'[i].used = used
      /\ \A j \in DOMAIN pools : j # i => pools'[j] = pools[j]
  BY DEF SetLists
<1>2. \A j \in DOMAIN pools : pools'[j].blockSize = pools[j].blockSize
  BY <1>1
<1>3. \A j \in DOMAIN pools : j # i => pools[j].blockSize # pools[i].blockSize
  <2> SUFFICES ASSUME NEW j \in DOMAIN pools, j # i PROVE pools[j].blockSize # pools[i].blockSize
    OBVIOUS
  <2>1. i \in Nat /\ j \in Nat /\ pools[i].blockSize \in Nat /\ pools[j].blockSize \in Nat
    BY PoolTypes, HeapAssumption DEF DataInv
  <2>2. i < j \/ j < i
    BY <2>1
  <2>3. QED
    BY <2>1, <2>2 DEF DataInv, PoolsAscending
<1>4. PoolsAscending' /\ PoolsStay
  BY <1>1, <1>2 DEF DataInv, PoolsAscending, PoolsStay, HasPool
<1>5. QED
  BY <1>1, <1>2, <1>3, <1>4

(* A new block lies above all others and starts in its pool's free list. *)
LEMMA AddBlockData ==
  ASSUME DataInv, NEW size \in Sizes, NEW i, NEW block, AddBlock(size, i, block)
  PROVE  DataInv' /\ PoolsStay /\ SupplyStays /\ HasFree(size)'
<1>1. /\ i \in DOMAIN pools /\ pools[i].blockSize = size
      /\ block \in Nat /\ block >= allocated
      /\ allocated' \in Nat /\ block + HeaderBytes + size <= allocated' /\ allocated' <= HeapSize
      /\ DOMAIN header' = DOMAIN header \cup {block}
      /\ header'[block] = size
      /\ SetLists(i, <<block>> \o pools[i].free, pools[i].used)
      /\ granted' = granted /\ FromPools' = FromPools /\ HeapGrants' = HeapGrants
  BY DEF AddBlock, FromPools, HeapGrants
<1>2. size \in Nat \ {0} /\ size \in 1 .. SizeMod /\ HeaderBytes \in Nat \ {0} /\ HeapSize \in Nat
  BY SizeTypes, HeapAssumption
<1>3. block \notin DOMAIN header
  <2> SUFFICES ASSUME block \in DOMAIN header PROVE FALSE
    OBVIOUS
  <2>1. BlockEnd(block) <= allocated /\ header[block] \in Nat /\ allocated \in Nat
    BY GrantTypes DEF DataInv, RegionInv
  <2>2. QED
    BY <1>1, <1>2, <2>1 DEF BlockEnd
<1>4. \A b \in DOMAIN header : header'[b] = header[b]
  BY <1>3 DEF AddBlock
<1>5. block \in Addresses
  BY <1>1, <1>2 DEF Addresses
<1> DEFINE f == <<block>> \o pools[i].free
<1>6. pools[i].free \in Seq(Addresses)
  BY <1>1, PoolTypes DEF DataInv
<1>7. /\ f # <<>> /\ ToSet(f) = ToSet(pools[i].free) \cup {block}
      /\ block \notin ToSet(pools[i].free) /\ IsInjective(pools[i].free) => IsInjective(f)
  BY <1>5, <1>6, Push
<1> HIDE DEF f
<1>8. /\ DOMAIN pools' = DOMAIN pools /\ pools' \in Seq(PoolSet)
      /\ \A j \in DOMAIN pools : pools'[j].blockSize = pools[j].blockSize
      /\ pools'[i].free = f /\ pools'[i].used = pools[i].used
      /\ \A j \in DOMAIN pools : j # i => pools'[j] = pools[j]
      /\ PoolsAscending' /\ PoolsStay
  BY <1>1, ListsOnly DEF f
<1>9. DataTypes'
  <2>1. \A b \in DOMAIN header' : header'[b] \in 1 .. SizeMod
    BY <1>1, <1>2, <1>4 DEF DataInv, DataTypes
  <2>2. header' = [b \in DOMAIN header' |-> header'[b]]
    BY DEF AddBlock
  <2>3. header' \in [DOMAIN header' -> 1 .. SizeMod]
    BY <2>1, <2>2
  <2>4. DOMAIN header' \subseteq Addresses
    BY <1>1, <1>5 DEF DataInv, DataTypes, Addresses
  <2>5. allocated' \in 0 .. HeapSize /\ granted' \subseteq GrantSet'
    BY <1>1, <1>2 DEF DataInv, DataTypes, GrantSet, Addresses
  <2>6. QED
    BY <1>8, <2>3, <2>4, <2>5 DEF DataTypes, PoolSet, Addresses
<1>10. SizesInv'
  BY <1>1, <1>4, <1>8 DEF DataInv, SizesInv, HasPool, Sizes
<1>11. RegionInv'
  <2>1. /\ \A b \in DOMAIN header : BlockEnd(b)' = BlockEnd(b)
        /\ \A g \in HeapGrants : GrantEnd(g)' = GrantEnd(g)
        /\ BlockEnd(block)' = block + HeaderBytes + size
    BY <1>1, <1>4 DEF BlockEnd, GrantEnd, HeaderBytes
  <2>2. /\ \A b \in DOMAIN header : BlockEnd(b) \in Nat /\ b \in Nat /\ b < BlockEnd(b)
        /\ \A g \in HeapGrants : GrantEnd(g) \in Nat /\ g.start \in Nat
        /\ allocated \in Nat
    BY GrantTypes DEF BlockEnd
  <2>3. block + HeaderBytes + size >= allocated /\ allocated <= allocated'
    BY <1>1, <1>2, <2>2
  <2>4. RegionInv
    BY DEF DataInv
  <2>5. /\ \A b \in DOMAIN header' : BlockEnd(b)' <= allocated'
        /\ \A g \in HeapGrants : GrantEnd(g)' <= allocated'
    BY <1>1, <1>2, <2>1, <2>2, <2>3, <2>4 DEF RegionInv
  <2>6. \A b, d \in DOMAIN header' : b < d => BlockEnd(b)' <= d
    <3> SUFFICES ASSUME NEW b \in DOMAIN header', NEW d \in DOMAIN header', b < d
                 PROVE  BlockEnd(b)' <= d
      OBVIOUS
    <3>1. b \in DOMAIN header
      BY <1>1, <2>2, <2>4 DEF RegionInv
    <3>2. QED
      BY <1>1, <2>1, <2>2, <2>4, <3>1 DEF RegionInv
  <2>7. \A g, h \in HeapGrants : g # h => GrantEnd(g)' <= h.start \/ GrantEnd(h)' <= g.start
    BY <2>1, <2>4 DEF RegionInv
  <2>8. \A b \in DOMAIN header', g \in HeapGrants : BlockEnd(b)' <= g.start \/ GrantEnd(g)' <= b
    BY <1>1, <2>1, <2>2, <2>4 DEF RegionInv
  <2>9. QED
    BY <1>1, <2>5, <2>6, <2>7, <2>8 DEF RegionInv
<1>12. FreeInv'
  <2>1. block \notin ToSet(pools[i].free)
    BY <1>1, <1>3 DEF DataInv, FreeInv
  <2>2. QED
    BY <1>1, <1>4, <1>7, <1>8, <2>1 DEF DataInv, FreeInv
<1>13. OwnerInv'
  BY <1>1, <1>4 DEF DataInv, OwnerInv, BlockOf
<1>14. PlaceInv'
  <2>1. \A g \in FromPools : BlockOf(g) # block
    BY <1>3 DEF DataInv, OwnerInv
  <2>2. \A b \in DOMAIN header : (\E j \in DOMAIN pools : b \in ToSet(pools[j].free))
                                   <=> (\E j \in DOMAIN pools : b \in ToSet(pools'[j].free))
    BY <1>1, <1>3, <1>7, <1>8
  <2>3. block \in ToSet(pools'[i].free)
    BY <1>7, <1>8
  <2>4. QED
    BY <1>1, <1>8, <2>1, <2>2, <2>3 DEF DataInv, PlaceInv, BlockOf
<1>15. \A s : Owned(s)' = Owned(s)
  BY <1>1, <1>4 DEF Owned, DataInv, OwnerInv, BlockOf
<1>16. CountInv'
  BY <1>1, <1>8, <1>15 DEF DataInv, CountInv
<1>17. SupplyStays /\ HasFree(size)'
  BY <1>1, <1>7, <1>8, <1>15 DEF SupplyStays, Supply, HasFree
<1>18. QED
  BY <1>8, <1>9, <1>10, <1>11, <1>12, <1>13, <1>14, <1>16, <1>17 DEF DataInv
-----------------------------------------------------------------------------
(* Headers and regions do not change when blocks change hands. *)
LEMMA HandsOnly ==
  ASSUME DataInv, UNCHANGED <<allocated, header>>, HeapGrants' = HeapGrants, PoolsStay,
         DOMAIN pools' = DOMAIN pools,
         \A j \in DOMAIN pools : pools'[j].blockSize = pools[j].blockSize
  PROVE  SizesInv' /\ RegionInv'
<1>1. RegionInv'
  BY DEF DataInv, RegionInv, BlockEnd, GrantEnd, HeaderBytes
<1>2. SizesInv'
  BY DEF DataInv, SizesInv, PoolsStay, Sizes
<1>3. QED
  BY <1>1, <1>2

(* A block that is handed out leaves its free list and gets an owner. *)
LEMMA HandOutData ==
  ASSUME DataInv, NEW i, NEW g, HandOut(i, g)
  PROVE  /\ DataInv' /\ PoolsStay
         /\ g \notin granted /\ FromPools' = FromPools \cup {g}
         /\ header[BlockOf(g)] = pools[i].blockSize
         /\ g.by = "handler" => SupplyStays
<1> DEFINE b == BlockOf(g)
           f == Tail(pools[i].free)
           u == <<b>> \o pools[i].used
<1>1. /\ i \in DOMAIN pools /\ pools[i].free # <<>> /\ b = Head(pools[i].free)
      /\ g.size \in 1 .. pools[i].blockSize /\ g \in GrantSet /\ g.by # "heap"
      /\ SetLists(i, f, u)
      /\ granted' = granted \cup {g}
      /\ allocated' = allocated /\ header' = header
  BY DEF HandOut
<1>2. /\ pools[i].free \in Seq(Addresses) /\ pools[i].used \in Seq(Addresses)
      /\ IsInjective(pools[i].free)
  BY <1>1, PoolTypes DEF DataInv, FreeInv
<1>3. b \in ToSet(pools[i].free) /\ f \in Seq(Addresses) /\ IsInjective(f)
      /\ ToSet(f) = ToSet(pools[i].free) \ {b}
  BY <1>1, <1>2, Pop
<1>4. b \in DOMAIN header /\ header[b] = pools[i].blockSize /\ b \in Addresses
  BY <1>1, <1>3 DEF DataInv, FreeInv, DataTypes
<1>5. Len(u) = Len(pools[i].used) + 1
  BY <1>2, <1>4, Push
<1> HIDE DEF f, u
<1>6. \A h \in FromPools : BlockOf(h) # b
  BY <1>1, <1>3, <1>4 DEF DataInv, PlaceInv
<1>7. g \notin granted /\ FromPools' = FromPools \cup {g} /\ HeapGrants' = HeapGrants
  BY <1>1, <1>6 DEF FromPools, HeapGrants
<1>8. /\ DOMAIN pools' = DOMAIN pools /\ pools' \in Seq(PoolSet)
      /\ \A j \in DOMAIN pools : pools'[j].blockSize = pools[j].blockSize
      /\ pools'[i].free = f /\ pools'[i].used = u
      /\ \A j \in DOMAIN pools : j # i => pools'[j] = pools[j]
      /\ \A j \in DOMAIN pools : j # i => pools[j].blockSize # pools[i].blockSize
      /\ PoolsAscending' /\ PoolsStay
  BY <1>1, ListsOnly
<1>9. DataTypes'
  BY <1>1, <1>8 DEF DataInv, DataTypes, PoolSet, GrantSet, Addresses
<1>10. SizesInv' /\ RegionInv'
  <2>1. HeapGrants' = HeapGrants /\ UNCHANGED <<allocated, header>>
    BY <1>1, <1>7
  <2>2. QED
    BY <1>8, <2>1, HandsOnly
<1>11. FreeInv'
  BY <1>1, <1>3, <1>8 DEF DataInv, FreeInv
<1>12. OwnerInv'
  BY <1>1, <1>4, <1>6, <1>7 DEF DataInv, OwnerInv, BlockOf, HeaderBytes
<1>13. PlaceInv'
  <2>1. \A d : d # b => ((\E j \in DOMAIN pools : d \in ToSet(pools[j].free))
                           <=> (\E j \in DOMAIN pools : d \in ToSet(pools'[j].free)))
    BY <1>1, <1>3, <1>8
  <2>2. \A j \in DOMAIN pools : b \notin ToSet(pools'[j].free)
    BY <1>1, <1>3, <1>4, <1>8 DEF DataInv, FreeInv
  <2>3. \A d \in DOMAIN header : d # b => ((\A h \in FromPools : BlockOf(h) # d)
                                             <=> (\A h \in FromPools' : BlockOf(h) # d))
    BY <1>7
  <2>4. \A d \in DOMAIN header : (\E j \in DOMAIN pools : d \in ToSet(pools'[j].free))
                                   <=> (\A h \in FromPools' : BlockOf(h) # d)
    BY <1>7, <2>1, <2>2, <2>3 DEF DataInv, PlaceInv
  <2>5. QED
    BY <1>1, <1>8, <2>4 DEF PlaceInv, BlockOf, HeaderBytes
<1>14. /\ \A s : Owned(s)' = IF s = header[b] THEN Owned(s) \cup {g} ELSE Owned(s)
       /\ g \notin Owned(header[b])
  BY <1>1, <1>7 DEF Owned, BlockOf, HeaderBytes, FromPools
<1>15. CountInv'
  <2>1. IsFiniteSet(granted)
    BY DEF DataInv, CountInv
  <2>2. Owned(header[b]) \in SUBSET granted
    BY DEF Owned, FromPools
  <2>3. IsFiniteSet(granted') /\ IsFiniteSet(Owned(header[b]))
    BY <1>1, <2>1, <2>2, FS_AddElement, FS_Subset
  <2>4. ASSUME NEW s, s = header[b]
        PROVE  Cardinality(Owned(s)') = Cardinality(Owned(s)) + 1
    BY <1>14, <2>3, <2>4, FS_AddElement
  <2>5. Len(pools'[i].used) = Cardinality(Owned(pools[i].blockSize)')
    BY <1>1, <1>4, <1>5, <1>8, <2>4 DEF DataInv, CountInv
  <2>6. \A j \in DOMAIN pools \ {i} :
          Len(pools'[j].used) = Cardinality(Owned(pools[j].blockSize)')
    BY <1>4, <1>8, <1>14 DEF DataInv, CountInv
  <2>7. QED
    BY <1>8, <2>3, <2>5, <2>6 DEF CountInv
<1>16. ASSUME g.by = "handler" PROVE SupplyStays
  <2>1. \A s : s # pools[i].blockSize /\ HasFree(s) => HasFree(s)'
    BY <1>8 DEF HasFree
  <2>2. ASSUME NEW s PROVE Owned(s) \subseteq Owned(s)'
    BY <1>14
  <2>3. \A s : s = pools[i].blockSize => g \in Owned(s)'
    BY <1>4, <1>14
  <2>4. ASSUME NEW s, Supply(s) PROVE Supply(s)'
    <3>1. CASE s = pools[i].blockSize
      BY <1>16, <2>3, <3>1 DEF Supply
    <3>2. CASE s # pools[i].blockSize /\ HasFree(s)
      BY <2>1, <3>2 DEF Supply
    <3>3. CASE \E h \in Owned(s) : h.by = "handler"
      BY <2>2, <3>3 DEF Supply
    <3>4. QED
      BY <2>4, <3>1, <3>2, <3>3 DEF Supply
  <2>5. QED
    BY <2>4 DEF SupplyStays
<1>17. QED
  BY <1>4, <1>7, <1>8, <1>9, <1>10, <1>11, <1>12, <1>13, <1>15, <1>16 DEF DataInv

(* A block that is given back loses its owner and joins its free list. *)
LEMMA TakeBackData ==
  ASSUME DataInv, NEW i, NEW g, TakeBack(i, g)
  PROVE  DataInv' /\ PoolsStay /\ SupplyStays /\ FromPools' = FromPools \ {g}
<1> DEFINE b == BlockOf(g)
           f == <<b>> \o pools[i].free
           u == Tail(pools[i].used)
<1>1. /\ i \in DOMAIN pools /\ g \in FromPools /\ header[b] = pools[i].blockSize
      /\ pools[i].used # <<>>
      /\ SetLists(i, f, u)
      /\ granted' = granted \ {g}
      /\ allocated' = allocated /\ header' = header
  BY DEF TakeBack
<1>2. /\ pools[i].free \in Seq(Addresses) /\ pools[i].used \in Seq(Addresses)
      /\ IsInjective(pools[i].free)
  BY <1>1, PoolTypes DEF DataInv, FreeInv
<1>3. b \in DOMAIN header /\ b \in Addresses
  BY <1>1 DEF DataInv, OwnerInv, DataTypes
<1>4. \A j \in DOMAIN pools : b \notin ToSet(pools[j].free)
  BY <1>1, <1>3 DEF DataInv, PlaceInv
<1>5. f # <<>> /\ IsInjective(f) /\ ToSet(f) = ToSet(pools[i].free) \cup {b}
  BY <1>1, <1>2, <1>3, <1>4, Push
<1>6. Len(u) = Len(pools[i].used) - 1
  BY <1>1, <1>2
<1> HIDE DEF f, u
<1>7. FromPools' = FromPools \ {g} /\ HeapGrants' = HeapGrants /\ g \in granted
  BY <1>1 DEF FromPools, HeapGrants
<1>8. /\ DOMAIN pools' = DOMAIN pools /\ pools' \in Seq(PoolSet)
      /\ \A j \in DOMAIN pools : pools'[j].blockSize = pools[j].blockSize
      /\ pools'[i].free = f /\ pools'[i].used = u
      /\ \A j \in DOMAIN pools : j # i => pools'[j] = pools[j]
      /\ \A j \in DOMAIN pools : j # i => pools[j].blockSize # pools[i].blockSize
      /\ PoolsAscending' /\ PoolsStay
  BY <1>1, ListsOnly
<1>9. DataTypes'
  BY <1>1, <1>8 DEF DataInv, DataTypes, PoolSet, GrantSet, Addresses
<1>10. SizesInv' /\ RegionInv'
  <2>1. HeapGrants' = HeapGrants /\ UNCHANGED <<allocated, header>>
    BY <1>1, <1>7
  <2>2. QED
    BY <1>8, <2>1, HandsOnly
<1>11. FreeInv'
  BY <1>1, <1>3, <1>5, <1>8 DEF DataInv, FreeInv
<1>12. OwnerInv'
  BY <1>1, <1>7 DEF DataInv, OwnerInv, BlockOf, HeaderBytes
<1>13. PlaceInv'
  <2>1. \A d : d # b => ((\E j \in DOMAIN pools : d \in ToSet(pools[j].free))
                           <=> (\E j \in DOMAIN pools : d \in ToSet(pools'[j].free)))
    BY <1>1, <1>5, <1>8
  <2>2. b \in ToSet(pools'[i].free)
    BY <1>5, <1>8
  <2>3. \A h \in FromPools' : BlockOf(h) # b
    BY <1>1, <1>7 DEF DataInv, OwnerInv
  <2>4. \A d \in DOMAIN header : d # b => ((\A h \in FromPools : BlockOf(h) # d)
                                             <=> (\A h \in FromPools' : BlockOf(h) # d))
    BY <1>1, <1>7
  <2>5. \A d \in DOMAIN header : (\E j \in DOMAIN pools : d \in ToSet(pools'[j].free))
                                   <=> (\A h \in FromPools' : BlockOf(h) # d)
    BY <1>1, <2>1, <2>2, <2>3, <2>4 DEF DataInv, PlaceInv
  <2>6. QED
    BY <1>1, <1>8, <2>5 DEF PlaceInv, BlockOf, HeaderBytes
<1>14. /\ \A s : Owned(s)' = IF s = header[b] THEN Owned(s) \ {g} ELSE Owned(s)
       /\ g \in Owned(header[b])
  BY <1>1, <1>7 DEF Owned, BlockOf, HeaderBytes
<1>15. CountInv'
  <2>1. IsFiniteSet(granted)
    BY DEF DataInv, CountInv
  <2>2. Owned(header[b]) \in SUBSET granted
    BY DEF Owned, FromPools
  <2>3. IsFiniteSet(granted') /\ IsFiniteSet(Owned(header[b]))
    BY <1>1, <2>1, <2>2, FS_RemoveElement, FS_Subset
  <2>4. ASSUME NEW s, s = header[b]
        PROVE  Cardinality(Owned(s)') = Cardinality(Owned(s)) - 1
    BY <1>14, <2>3, <2>4, FS_RemoveElement
  <2>5. Len(pools'[i].used) = Cardinality(Owned(pools[i].blockSize)')
    BY <1>1, <1>6, <1>8, <2>4 DEF DataInv, CountInv
  <2>6. \A j \in DOMAIN pools \ {i} :
          Len(pools'[j].used) = Cardinality(Owned(pools[j].blockSize)')
    BY <1>1, <1>8, <1>14 DEF DataInv, CountInv
  <2>7. QED
    BY <1>8, <2>3, <2>5, <2>6 DEF CountInv
<1>16. SupplyStays
  <2>1. \A s : HasFree(s) => HasFree(s)'
    BY <1>5, <1>8 DEF HasFree
  <2>2. \A s : s = header[b] => HasFree(s)'
    BY <1>1, <1>5, <1>8 DEF HasFree
  <2>3. ASSUME NEW s, Supply(s) PROVE Supply(s)'
    <3>1. CASE s = header[b]
      BY <2>2, <3>1 DEF Supply
    <3>2. CASE s # header[b]
      BY <1>14, <2>1, <2>3, <3>2 DEF Supply
    <3>3. QED
      BY <3>1, <3>2
  <2>4. QED
    BY <2>3 DEF SupplyStays
<1>17. QED
  BY <1>7, <1>8, <1>9, <1>10, <1>11, <1>12, <1>13, <1>15, <1>16 DEF DataInv

(* What others take from the heap lies above all that was there. *)
LEMMA TakeHeapData ==
  ASSUME DataInv, NEW g, TakeHeap(g)
  PROVE  DataInv' /\ PoolsStay /\ SupplyStays /\ g \notin granted /\ FromPools' = FromPools
<1>1. /\ g \in GrantSet /\ g.by = "heap" /\ g.start >= allocated
      /\ allocated' \in Nat /\ GrantEnd(g) <= allocated' /\ allocated' <= HeapSize
      /\ granted' = granted \cup {g} /\ pools' = pools /\ header' = header
  BY DEF TakeHeap
<1>2. FromPools' = FromPools /\ HeapGrants' = HeapGrants \cup {g}
  BY <1>1 DEF FromPools, HeapGrants
<1>3. g.start \in Nat /\ g.size \in Nat \ {0} /\ GrantEnd(g) \in Nat /\ g.start < GrantEnd(g)
      /\ HeapSize \in Nat
  BY <1>1, HeapAssumption DEF GrantSet, Addresses, GrantEnd
<1>4. DataTypes'
  BY <1>1, <1>3 DEF DataInv, DataTypes, PoolSet, GrantSet, Addresses
<1>5. /\ \A b \in DOMAIN header : BlockEnd(b) \in Nat /\ b \in Nat /\ b < BlockEnd(b)
      /\ \A h \in HeapGrants : GrantEnd(h) \in Nat /\ h.start \in Nat /\ h.start < GrantEnd(h)
      /\ allocated \in Nat
  BY GrantTypes DEF BlockEnd, GrantEnd
<1>6. RegionInv'
  <2>1. /\ \A b \in DOMAIN header : BlockEnd(b)' = BlockEnd(b)
        /\ \A h : GrantEnd(h)' = GrantEnd(h)
    BY <1>1 DEF BlockEnd, GrantEnd, HeaderBytes
  <2>2. RegionInv
    BY DEF DataInv
  <2>3. /\ \A b \in DOMAIN header : BlockEnd(b) <= allocated'
        /\ \A h \in HeapGrants' : GrantEnd(h) <= allocated'
    BY <1>1, <1>2, <1>3, <1>5, <2>2 DEF RegionInv
  <2>4. \A h \in HeapGrants : GrantEnd(h) <= g.start
    BY <1>1, <1>3, <1>5, <2>2 DEF RegionInv
  <2>5. \A b \in DOMAIN header : BlockEnd(b) <= g.start
    BY <1>1, <1>3, <1>5, <2>2 DEF RegionInv
  <2>6. \A h, k \in HeapGrants' : h # k => GrantEnd(h) <= k.start \/ GrantEnd(k) <= h.start
    BY <1>2, <2>2, <2>4 DEF RegionInv
  <2>7. \A b \in DOMAIN header, h \in HeapGrants' : BlockEnd(b) <= h.start \/ GrantEnd(h) <= b
    BY <1>2, <2>2, <2>5 DEF RegionInv
  <2>8. \A b, d \in DOMAIN header : b < d => BlockEnd(b) <= d
    BY <2>2 DEF RegionInv
  <2>9. QED
    BY <1>1, <2>1, <2>3, <2>6, <2>7, <2>8 DEF RegionInv
<1>7. g \notin granted
  <2>1. \A h \in HeapGrants : GrantEnd(h) <= allocated
    BY DEF DataInv, RegionInv
  <2>2. g \notin HeapGrants
    BY <1>1, <1>3, <1>5, <2>1
  <2>3. QED
    BY <1>1, <2>2 DEF HeapGrants, FromPools
<1>8. CountInv'
  BY <1>1, <1>2, FS_AddElement DEF DataInv, CountInv, Owned, BlockOf, HeaderBytes
<1>9. PoolsAscending' /\ SizesInv' /\ FreeInv' /\ OwnerInv' /\ PlaceInv'
  BY <1>1, <1>2 DEF DataInv, PoolsAscending, SizesInv, HasPool, FreeInv, OwnerInv, PlaceInv,
                    BlockOf, HeaderBytes, Sizes
<1>10. PoolsStay /\ SupplyStays
  BY <1>1, <1>2 DEF PoolsStay, SupplyStays, HasPool, Supply, HasFree, Owned, BlockOf, HeaderBytes
<1>11. QED
  BY <1>2, <1>4, <1>6, <1>7, <1>8, <1>9, <1>10 DEF DataInv
-----------------------------------------------------------------------------
(* The actions do these things to the data. *)

(* An update of one pool in place. *)
LEMMA InPlace ==
  ASSUME DataTypes, NEW i \in DOMAIN pools, NEW p \in PoolSet,
         p.blockSize = pools[i].blockSize, pools' = [pools EXCEPT ![i] = p]
  PROVE  SetLists(i, p.free, p.used)
<1>1. p = [blockSize |-> pools[i].blockSize, free |-> p.free, used |-> p.used]
  BY DEF PoolSet
<1>2. pools \in Seq(PoolSet)
  BY DEF DataTypes
<1>3. /\ pools' \in Seq(PoolSet) /\ DOMAIN pools' = DOMAIN pools
      /\ pools'[i] = p /\ \A j \in DOMAIN pools \ {i} : pools'[j] = pools[j]
  BY <1>2
<1>4. QED
  BY <1>1, <1>3 DEF SetLists

(* The heap after the allocations for a new pool. *)
LEMMA NewPoolHeap ==
  ASSUME DataTypes
  PROVE  NewPool.heap \in allocated .. HeapSize
<1> DEFINE node == Fits(allocated, PoolNodeBytes)
           h1   == AfterAllocate(allocated, PoolNodeBytes)
           pool == node /\ Fits(h1, PoolBytes)
           h2   == IF node THEN AfterAllocate(h1, PoolBytes) ELSE h1
           h3   == IF pool THEN AfterAllocate(h2, BlockListBytes) ELSE h2
           h4   == IF pool THEN AfterAllocate(h3, BlockListBytes) ELSE h3
<1>1. NewPool.heap = h4
  BY DEF NewPool
<1>2. /\ PoolNodeBytes \in Nat /\ PoolBytes \in Nat /\ BlockListBytes \in Nat
      /\ allocated \in 0 .. HeapSize /\ HeapSize \in Nat
  BY HeapAssumption DEF PoolNodeBytes, PoolBytes, BlockListBytes, DataTypes
<1>3. h1 \in allocated .. HeapSize /\ h1 \in 0 .. HeapSize
  BY <1>2, CounterRange
<1> HIDE DEF h1
<1>4. h2 \in h1 .. HeapSize /\ h2 \in 0 .. HeapSize
  BY <1>2, <1>3, CounterRange
<1> HIDE DEF h2, pool
<1>5. h3 \in h2 .. HeapSize /\ h3 \in 0 .. HeapSize
  BY <1>2, <1>4, CounterRange
<1> HIDE DEF h3
<1>6. h4 \in h3 .. HeapSize
  BY <1>2, <1>5, CounterRange
<1> HIDE DEF h4
<1>7. QED
  BY <1>1, <1>2, <1>3, <1>4, <1>5, <1>6

(* TbxMemPoolCreate finds or makes the pool. *)
HasOrMade(size) == ListFind(size) # 0 \/ NewPool.made

(* It keeps all that is there, and if it succeeds there is a pool. *)
LEMMA CreateEnterData ==
  ASSUME DataInv, NEW c, NEW from, NEW size \in Sizes, NEW n, NEW back, NEW failTo,
         CreateEnter(c, from, size, n, back, failTo)
  PROVE  /\ DataInv' /\ PoolsStay /\ SupplyStays /\ granted' = granted /\ header' = header
         /\ call' = [call EXCEPT ![c] =
                       Locals(size, IF HasOrMade(size) THEN n ELSE 0, HasOrMade(size), back, failTo)]
         /\ \A s : s = size /\ HasOrMade(size) => HasPool(s)'
<1> DEFINE exists == ListFind(size) # 0
           good == HasOrMade(size)
<1>1. /\ call' = [call EXCEPT ![c] = Locals(size, IF good THEN n ELSE 0, good, back, failTo)]
      /\ allocated' = IF exists THEN allocated ELSE NewPool.heap
      /\ pools' = IF exists \/ ~NewPool.made THEN pools ELSE ListInsert(EmptyPool(size))
      /\ header' = header /\ granted' = granted
  BY DEF CreateEnter, EmptyPool, HasOrMade
<1>2. exists <=> HasPool(size)
  BY Find DEF DataInv
<1>3. NewPool.heap \in allocated .. HeapSize /\ allocated \in allocated .. HeapSize
  BY NewPoolHeap, HeapAssumption DEF DataInv, DataTypes
<1>4. CASE exists \/ ~NewPool.made
  <2>1. GrowHeap
    BY <1>1, <1>3, <1>4 DEF GrowHeap
  <2>2. DataInv' /\ PoolsStay /\ SupplyStays
    BY <2>1, GrowHeapData
  <2>3. good => HasPool(size)'
    BY <1>2, <1>4, <2>2 DEF PoolsStay, HasOrMade
  <2>4. QED
    BY <1>1, <2>2, <2>3
<1>5. CASE ~exists /\ NewPool.made
  <2>1. AddPool(size)
    BY <1>1, <1>2, <1>3, <1>5 DEF AddPool
  <2>2. DataInv' /\ PoolsStay /\ SupplyStays /\ HasPool(size)'
    BY <2>1, AddPoolData
  <2>3. QED
    BY <1>1, <2>2
<1>6. QED
  BY <1>4, <1>5

(* An iteration of its loop adds a block to the pool, or nothing. *)
LEMMA CreateBlockData ==
  ASSUME DataInv, NEW c, call[c].size \in Sizes, HasPool(call[c].size), CreateBlock(c)
  PROVE  /\ DataInv' /\ PoolsStay /\ SupplyStays /\ granted' = granted
         /\ \E good \in BOOLEAN :
              /\ call' = [call EXCEPT ![c].todo = @ - 1, ![c].ok = @ /\ good]
              /\ good => \A s : s = call[c].size => HasFree(s)'
<1> DEFINE size == call[c].size
           i == ListFind(size)
           node == Fits(allocated, BlockNodeBytes)
           block == AfterAllocate(allocated, BlockNodeBytes)
           good == node /\ Fits(block, HeaderBytes + size)
           after == AfterAllocate(block, HeaderBytes + size)
<1>1. /\ call' = [call EXCEPT ![c].todo = @ - 1, ![c].ok = @ /\ good]
      /\ allocated' = IF node THEN after ELSE allocated
      /\ header' = IF good THEN [b \in DOMAIN header \cup {block} |->
                                   IF b = block THEN size ELSE header[b]]
                   ELSE header
      /\ pools' = IF good THEN [pools EXCEPT ![i].free = <<block>> \o @] ELSE pools
      /\ granted' = granted
  BY DEF CreateBlock
<1>2. /\ BlockNodeBytes \in Nat /\ size \in Nat \ {0} /\ HeaderBytes + size \in 1 .. SizeMod - WordSize
      /\ allocated \in 0 .. HeapSize /\ HeapSize \in Nat /\ HeaderBytes \in Nat \ {0}
  <2>1. allocated \in 0 .. HeapSize
    BY DEF DataInv, DataTypes
  <2>2. BlockNodeBytes \in Nat /\ HeapSize \in Nat /\ HeaderBytes \in Nat \ {0}
    BY HeapAssumption DEF BlockNodeBytes, HeaderBytes
  <2>3. size \in Nat \ {0} /\ HeaderBytes + size \in 1 .. SizeMod - WordSize
    BY SizeTypes
  <2>4. QED
    BY <2>1, <2>2, <2>3
<1>3. block \in allocated .. HeapSize /\ block \in 0 .. HeapSize
  <2>1. BlockNodeBytes \in Nat /\ allocated \in 0 .. HeapSize /\ HeapSize \in Nat
    BY <1>2
  <2>2. block \in allocated .. HeapSize
    BY <2>1, CounterRange
  <2>3. QED
    BY <2>1, <2>2
<1>4. i \in DOMAIN pools /\ pools[i].blockSize = size
  BY Find DEF DataInv
<1> HIDE DEF block, size, i
<1>5. after \in block .. HeapSize
  BY <1>2, <1>3, CounterRange
<1>6. CASE ~good
  <2>1. GrowHeap
    BY <1>1, <1>2, <1>3, <1>5, <1>6 DEF GrowHeap
  <2>2. DataInv' /\ PoolsStay /\ SupplyStays
    BY <2>1, GrowHeapData
  <2>3. QED
    BY <1>1, <1>6, <2>2
<1>7. CASE good
  <2>1. after >= block + HeaderBytes + size
    BY <1>2, <1>3, <1>7, CounterRoom
  <2>2. /\ pools[i].free \in Seq(Addresses) /\ pools[i].used \in Seq(Addresses)
        /\ pools[i] \in PoolSet /\ block \in Addresses
    BY <1>3, <1>4, PoolTypes DEF DataInv, Addresses
  <2>3. <<block>> \o pools[i].free \in Seq(Addresses)
    BY <2>2, Push
  <2>4. SetLists(i, <<block>> \o pools[i].free, pools[i].used)
    <3> DEFINE p == [pools[i] EXCEPT !.free = <<block>> \o @]
    <3>1. /\ p \in PoolSet /\ p.blockSize = pools[i].blockSize
          /\ p.free = <<block>> \o pools[i].free /\ p.used = pools[i].used
      BY <2>2, <2>3 DEF PoolSet
    <3>2. pools' = [pools EXCEPT ![i] = p]
      BY <1>1, <1>7
    <3> HIDE DEF p
    <3>3. QED
      BY <1>4, <3>1, <3>2, InPlace DEF DataInv
  <2>5. AddBlock(size, i, block)
    BY <1>1, <1>2, <1>3, <1>4, <1>5, <1>7, <2>1, <2>4 DEF AddBlock
  <2>6. DataInv' /\ PoolsStay /\ SupplyStays /\ \A s : s = size => HasFree(s)'
    BY <2>5, AddBlockData DEF size
  <2>7. QED
    BY <1>1, <1>7, <2>6 DEF size
<1>8. QED
  BY <1>6, <1>7

(* An allocation hands out the first free block of the best fit. *)
LEMMA ServedData ==
  ASSUME DataInv, NEW c, NEW n \in Sizes, Served(c, n)
  PROVE  LET i == ListFindBestFit(n)
             g == GrantOf(Head(pools[i].free), n, c)
         IN  HandOut(i, g) /\ g.size = n /\ (c \in Handlers => g.by = "handler")
<1> DEFINE i == ListFindBestFit(n)
           b == Head(pools[i].free)
           g == GrantOf(b, n, c)
<1>1. /\ i # 0
      /\ pools' = [pools EXCEPT ![i].free = Tail(@), ![i].used = <<b>> \o @]
      /\ granted' = granted \cup {g} /\ allocated' = allocated /\ header' = header
  BY DEF Served
<1>2. n \in Nat \ {0} /\ n \in 1 .. SizeMod
  BY SizeTypes
<1>3. i \in DOMAIN pools /\ pools[i].blockSize >= n /\ pools[i].free # <<>>
  BY <1>1, <1>2, FindBestFit DEF DataInv
<1> HIDE DEF i
<1>4. /\ pools[i].free \in Seq(Addresses) /\ pools[i].used \in Seq(Addresses)
      /\ pools[i] \in PoolSet /\ pools[i].blockSize \in Nat /\ IsInjective(pools[i].free)
  BY <1>3, PoolTypes, HeapAssumption DEF DataInv, FreeInv
<1>5. b \in ToSet(pools[i].free) /\ Tail(pools[i].free) \in Seq(Addresses)
  BY <1>3, <1>4, Pop
<1>6. b \in DOMAIN header /\ header[b] = pools[i].blockSize /\ b \in Addresses
  BY <1>3, <1>5 DEF DataInv, FreeInv, DataTypes
<1>7. b + HeaderBytes \in Addresses
  <2>1. BlockEnd(b) <= allocated /\ allocated \in 0 .. HeapSize /\ b \in Nat /\ header[b] \in Nat
    BY <1>6, GrantTypes DEF DataInv, RegionInv, DataTypes
  <2>2. HeaderBytes \in Nat /\ HeapSize \in Nat
    BY HeapAssumption DEF HeaderBytes
  <2>3. QED
    BY <2>1, <2>2 DEF BlockEnd, Addresses
<1> HIDE DEF b
<1>8. /\ g.start = b + HeaderBytes /\ g.size = n /\ g.by \in {"task", "handler"}
      /\ (c \in Handlers => g.by = "handler") /\ g \in GrantSet
  BY <1>2, <1>7 DEF GrantOf, GrantSet
<1>9. BlockOf(g) = b
  BY <1>6, <1>8, HeapAssumption DEF BlockOf, HeaderBytes, Addresses
<1> HIDE DEF g
<1>10. <<b>> \o pools[i].used \in Seq(Addresses)
  BY <1>4, <1>6, Push
<1>11. SetLists(i, Tail(pools[i].free), <<b>> \o pools[i].used)
  <2> DEFINE p == [pools[i] EXCEPT !.free = Tail(@), !.used = <<b>> \o @]
  <2>1. /\ p \in PoolSet /\ p.blockSize = pools[i].blockSize
        /\ p.free = Tail(pools[i].free) /\ p.used = <<b>> \o pools[i].used
    BY <1>4, <1>5, <1>10 DEF PoolSet
  <2>2. pools' = [pools EXCEPT ![i] = p]
    BY <1>1, <1>3, <1>4 DEF PoolSet
  <2> HIDE DEF p
  <2>3. QED
    BY <1>3, <2>1, <2>2, InPlace DEF DataInv
<1>12. HandOut(i, g)
  BY <1>1, <1>2, <1>3, <1>4, <1>8, <1>9, <1>11 DEF HandOut, b
<1>13. QED
  BY <1>8, <1>12 DEF g, b, i

(* A release finds the pool and a used node for the block. *)
LEMMA ReleaseData ==
  ASSUME DataInv, NEW c, Release(c)
  PROVE  Goto(c, "idle", "idle") /\ \E i, g : TakeBack(i, g)
<1>1. PICK g \in FromPools :
        LET block == g.start - HeaderBytes
            i     == ListFind(header[block])
            good  == i # 0 /\ pools[i].used # <<>>
        IN  /\ Goto(c, "idle", IF good THEN "idle" ELSE "assertFailed")
            /\ granted' = granted \ {g}
            /\ pools' = IF good
                        THEN [pools EXCEPT ![i].used = Tail(@), ![i].free = <<block>> \o @]
                        ELSE pools
  BY DEF Release, FromPools
<1> DEFINE b == BlockOf(g)
           i == ListFind(header[b])
<1>2. b \in DOMAIN header /\ HasPool(header[b]) /\ b \in Addresses
  BY DEF DataInv, OwnerInv, SizesInv, DataTypes
<1>3. i # 0 /\ i \in DOMAIN pools /\ pools[i].blockSize = header[b]
  BY <1>2, Find DEF DataInv
<1>4. g \in Owned(pools[i].blockSize)
  BY <1>3 DEF Owned
<1>5. pools[i].used # <<>>
  <2>1. IsFiniteSet(Owned(pools[i].blockSize))
    <3>1. Owned(pools[i].blockSize) \in SUBSET granted
      BY DEF Owned, FromPools
    <3>2. QED
      BY <3>1, FS_Subset DEF DataInv, CountInv
  <2>2. Cardinality(Owned(pools[i].blockSize)) # 0
    BY <1>4, <2>1, FS_EmptySet
  <2>3. QED
    BY <1>3, <2>2 DEF DataInv, CountInv
<1>6. /\ Goto(c, "idle", "idle") /\ granted' = granted \ {g}
      /\ pools' = [pools EXCEPT ![i].used = Tail(@), ![i].free = <<b>> \o @]
  BY <1>1, <1>3, <1>5 DEF BlockOf
<1>7. allocated' = allocated /\ header' = header
  BY DEF Release
<1> HIDE DEF i, b
<1>8. /\ pools[i].free \in Seq(Addresses) /\ pools[i].used \in Seq(Addresses)
      /\ pools[i] \in PoolSet
  BY <1>3, PoolTypes DEF DataInv
<1>9. <<b>> \o pools[i].free \in Seq(Addresses) /\ Tail(pools[i].used) \in Seq(Addresses)
  <2>1. Tail(pools[i].used) \in Seq(Addresses)
    BY <1>5, <1>8
  <2>2. QED
    BY <1>2, <1>8, <2>1, Push
<1>10. SetLists(i, <<b>> \o pools[i].free, Tail(pools[i].used))
  <2> DEFINE p == [pools[i] EXCEPT !.used = Tail(@), !.free = <<b>> \o @]
  <2>1. /\ p \in PoolSet /\ p.blockSize = pools[i].blockSize
        /\ p.free = <<b>> \o pools[i].free /\ p.used = Tail(pools[i].used)
    BY <1>8, <1>9 DEF PoolSet
  <2>2. pools' = [pools EXCEPT ![i] = p]
    BY <1>3, <1>6, <1>8 DEF PoolSet
  <2> HIDE DEF p
  <2>3. QED
    BY <1>3, <2>1, <2>2, InPlace DEF DataInv
<1>11. TakeBack(i, g)
  BY <1>3, <1>5, <1>6, <1>7, <1>10 DEF TakeBack, b
<1>12. QED
  BY <1>6, <1>11

(* An allocation by somebody else fits. *)
LEMMA TakeFromHeapData ==
  ASSUME DataInv, TakeFromHeap
  PROVE  \E g : TakeHeap(g)
<1>1. PICK n \in HeapRequests :
        /\ Fits(allocated, n)
        /\ allocated' = AfterAllocate(allocated, n)
        /\ granted' = granted \cup {[start |-> allocated, size |-> n, by |-> "heap"]}
  BY DEF TakeFromHeap
<1>2. allocated \in 0 .. HeapSize /\ HeapSize \in Nat /\ n \in 1 .. SizeMod - WordSize
      /\ n \in Nat \ {0} /\ n \in 1 .. SizeMod
  BY HeapAssumption, PoolAssumption DEF DataInv, DataTypes
<1>3. allocated' \in allocated .. HeapSize /\ allocated' >= allocated + n
  BY <1>1, <1>2, CounterRange, CounterRoom
<1>4. TakeHeap([start |-> allocated, size |-> n, by |-> "heap"])
  BY <1>1, <1>2, <1>3 DEF TakeHeap, TakeFromHeap, GrantSet, Addresses, GrantEnd
<1>5. QED
  BY <1>4

(* An allocation as the calls see it. *)
LEMMA ServedFacts ==
  ASSUME DataInv, NEW c, NEW n \in Sizes, Served(c, n)
  PROVE  DataInv' /\ PoolsStay /\ (c \in Handlers => SupplyStays)
BY ServedData, HandOutData

(* Steps that leave the data alone. *)
LEMMA SameData ==
  ASSUME DataInv, UNCHANGED <<heapVars, granted>>
  PROVE  DataInv' /\ PoolsStay /\ SupplyStays
<1>1. GrowHeap
  BY HeapAssumption DEF GrowHeap, heapVars, DataInv, DataTypes
<1>2. QED
  BY <1>1, GrowHeapData
-----------------------------------------------------------------------------
(* The calls. *)

(* What a context relies on survives the steps of others: while it is      *)
(* inside the critical section there are none, and while it has suspended  *)
(* the scheduler only those of handlers.                                   *)
LEMMA Bystander ==
  ASSUME IInv, NEW d \in Contexts, pc'[d] = pc[d], call'[d] = call[d],
         holder # d, holder' # d, PoolsStay,
         suspended = d => suspended' = d /\ SupplyStays
  PROVE  CallInv(d)' /\ MallocInv(d)'
<1>1. CallInv(d) /\ MallocInv(d) /\ pc[d] # "blocks"
  BY DEF IInv, CallInv
<1>2. CallInv(d)'
  BY <1>1 DEF CallInv, PoolsStay, Sizes
<1>3. MallocInv(d)'
  BY <1>1 DEF MallocInv, InMalloc, SupplyStays
<1>4. QED
  BY <1>2, <1>3

(* A step of context c, as it concerns the others. *)
LEMMA Actor ==
  ASSUME IInv, NEW c \in Contexts, MayRun(c),
         \A d \in Contexts \ {c} : pc'[d] = pc[d] /\ call'[d] = call[d],
         holder \in {c, NoContext}, holder' \in {c, NoContext},
         DataInv', ControlTypes', PoolsStay, c \in Handlers => SupplyStays,
         suspended' = suspended \/ suspended \in {c, NoContext},
         CallInv(c)' /\ MallocInv(c)'
  PROVE  IInv'
<1>1. ASSUME NEW d \in Contexts, d # c PROVE CallInv(d)' /\ MallocInv(d)'
  <2>1. holder # d /\ holder' # d
    BY <1>1, PoolAssumption
  <2>2. suspended = d => suspended' = d /\ SupplyStays
    BY <1>1, PoolAssumption DEF MayRun
  <2>3. QED
    BY <1>1, <2>1, <2>2, Bystander
<1>2. QED
  BY <1>1 DEF IInv

(* How Goto and Finish change the control state. *)
LEMMA Going ==
  ASSUME ControlTypes, NEW c \in Contexts, NEW from, NEW to \in Locations, Goto(c, from, to)
  PROVE  /\ pc' \in [Contexts -> Locations] /\ pc[c] = from /\ pc'[c] = to
         /\ \A d \in Contexts \ {c} : pc'[d] = pc[d]
BY DEF ControlTypes, Goto

(* The locals that a call may have. *)
CallSet == [size : 1 .. SizeMod, todo : Nat, ok : BOOLEAN, back : Locations, failTo : Locations]
(* How the locals of a call change. *)
LEMMA Calling ==
  ASSUME ControlTypes, NEW c \in Contexts, NEW l \in CallSet, call' = [call EXCEPT ![c] = l]
  PROVE  /\ call' \in [Contexts -> CallSet] /\ call'[c] = l
         /\ \A d \in Contexts \ {c} : call'[d] = call[d]
BY DEF ControlTypes, CallSet

(* The fields of the locals. *)
LEMMA LocalTypes ==
  ASSUME NEW size \in 1 .. SizeMod, NEW todo \in Nat, NEW ok \in BOOLEAN,
         NEW back \in Locations, NEW failTo \in Locations
  PROVE  /\ Locals(size, todo, ok, back, failTo) \in CallSet
         /\ Locals(size, todo, ok, back, failTo).size = size
         /\ Locals(size, todo, ok, back, failTo).todo = todo
         /\ Locals(size, todo, ok, back, failTo).ok = ok
         /\ Locals(size, todo, ok, back, failTo).back = back
         /\ Locals(size, todo, ok, back, failTo).failTo = failTo
BY DEF Locals, CallSet

(* The locals of no call. *)
LEMMA NoLocalTypes == NoLocals \in CallSet
<1>1. 1 \in 1 .. SizeMod /\ 0 \in Nat /\ TRUE \in BOOLEAN /\ "idle" \in Locations
  BY HeapAssumption DEF Locations
<1>2. QED
  BY <1>1, LocalTypes DEF NoLocals

(* A call is over, or waits for nothing. *)
LEMMA AtRest ==
  ASSUME NEW c \in Contexts, pc'[c] \in {"idle", "aborted"}, holder' # c
  PROVE  CallInv(c)' /\ MallocInv(c)'
BY DEF CallInv, MallocInv, InMalloc, Busy

(* Entering TbxMemPoolCreate, from wherever it is called. *)
LEMMA CreateEnterStep ==
  ASSUME IInv, NEW c \in Contexts, MayRun(c), UNCHANGED suspended,
         NEW from, NEW size \in Sizes, NEW n \in Nat \ {0}, NEW back, NEW failTo,
         <<back, failTo>> \in WaysOn, back = "mallocAgain" => suspended = c,
         CreateEnter(c, from, size, n, back, failTo)
  PROVE  IInv'
<1>1. DataInv /\ ControlTypes
  BY DEF IInv
<1>2. DataInv' /\ PoolsStay /\ SupplyStays
  BY <1>1, CreateEnterData
<1> DEFINE good == HasOrMade(size)
<1>3. /\ call' = [call EXCEPT ![c] = Locals(size, IF good THEN n ELSE 0, good, back, failTo)]
      /\ \A s : s = size /\ good => HasPool(s)'
      /\ good \in BOOLEAN
  BY <1>1, CreateEnterData DEF HasOrMade
<1> HIDE DEF good
<1> DEFINE todo == IF good THEN n ELSE 0
           l == Locals(size, todo, good, back, failTo)
<1>4. /\ l \in CallSet /\ l.size = size /\ l.todo = todo /\ l.ok = good
      /\ l.back = back /\ l.failTo = failTo
  <2>1. back \in Locations /\ failTo \in Locations /\ size \in 1 .. SizeMod /\ todo \in Nat
    BY SizeTypes DEF WaysOn, Locations
  <2>2. QED
    BY <1>3, <2>1, LocalTypes
<1>5. call' = [call EXCEPT ![c] = l]
  BY <1>3
<1> HIDE DEF l
<1>6. /\ call' \in [Contexts -> CallSet] /\ call'[c] = l
      /\ \A d \in Contexts \ {c} : call'[d] = call[d]
  BY <1>1, <1>4, <1>5, Calling
<1>7. /\ pc' \in [Contexts -> Locations] /\ pc'[c] = "blocks"
      /\ \A d \in Contexts \ {c} : pc'[d] = pc[d]
  BY <1>1, Going DEF CreateEnter, Locations
<1>8. holder = NoContext /\ holder' = c /\ suspended' = suspended
  BY DEF CreateEnter
<1>9. ControlTypes'
  BY <1>1, <1>6, <1>7, <1>8 DEF ControlTypes, CallSet, Locations
<1>10. CallInv(c)'
  BY <1>3, <1>4, <1>6, <1>7, <1>8 DEF CallInv, Busy, Sizes, WaysOn
<1>11. MallocInv(c)'
  BY <1>3, <1>4, <1>6, <1>7, <1>8 DEF MallocInv, InMalloc
<1>12. QED
  BY <1>2, <1>6, <1>7, <1>8, <1>9, <1>10, <1>11, Actor

(* An iteration of its loop. *)
LEMMA CreateBlockStep ==
  ASSUME IInv, NEW c \in Contexts, MayRun(c), UNCHANGED suspended, CreateBlock(c)
  PROVE  IInv'
<1>1. DataInv /\ ControlTypes /\ CallInv(c) /\ MallocInv(c)
  BY DEF IInv
<1>2. pc[c] = "blocks" /\ call[c].todo > 0 /\ holder' = holder /\ Goto(c, "blocks", "blocks")
  BY DEF CreateBlock, Goto
<1>3. holder = c /\ call[c].size \in Sizes /\ HasPool(call[c].size)
  BY <1>1, <1>2 DEF CallInv, Busy
<1>4. DataInv' /\ PoolsStay /\ SupplyStays
  BY <1>1, <1>3, CreateBlockData
<1>5. PICK good \in BOOLEAN :
        /\ call' = [call EXCEPT ![c].todo = @ - 1, ![c].ok = @ /\ good]
        /\ good => \A s : s = call[c].size => HasFree(s)'
  BY <1>1, <1>3, CreateBlockData
<1> DEFINE l == [call[c] EXCEPT !.todo = @ - 1, !.ok = @ /\ good]
<1>12. call[c] \in CallSet
  BY <1>1 DEF ControlTypes, CallSet
<1>13. /\ l \in CallSet /\ l.size = call[c].size /\ l.todo = call[c].todo - 1
       /\ l.back = call[c].back /\ l.failTo = call[c].failTo
  <2> DEFINE todo == call[c].todo - 1
             ok == call[c].ok /\ good
  <2>1. l = [call[c] EXCEPT !.todo = todo, !.ok = ok]
    BY <1>12 DEF CallSet
  <2>2. todo \in Nat /\ ok \in BOOLEAN
    BY <1>2, <1>12 DEF CallSet
  <2> HIDE DEF todo, ok, l
  <2>3. l \in CallSet /\ l.size = call[c].size /\ l.todo = todo
        /\ l.back = call[c].back /\ l.failTo = call[c].failTo
    BY <1>12, <2>1, <2>2 DEF CallSet
  <2>4. QED
    BY <2>3 DEF todo
<1>14. l.ok <=> call[c].ok /\ good
  BY <1>12 DEF CallSet
<1>15. call' = [call EXCEPT ![c] = l]
  BY <1>1, <1>5, <1>12 DEF ControlTypes, CallSet
<1> HIDE DEF l
<1>6. /\ call' \in [Contexts -> CallSet] /\ call'[c].size = call[c].size
      /\ call'[c].todo = call[c].todo - 1 /\ (call'[c].ok <=> call[c].ok /\ good)
      /\ call'[c].back = call[c].back /\ call'[c].failTo = call[c].failTo
      /\ \A d \in Contexts \ {c} : call'[d] = call[d]
  BY <1>1, <1>13, <1>14, <1>15, Calling
<1>7. /\ pc' \in [Contexts -> Locations] /\ pc'[c] = "blocks"
      /\ \A d \in Contexts \ {c} : pc'[d] = pc[d]
  BY <1>1, <1>2, Going DEF Locations
<1>8. ControlTypes'
  BY <1>1, <1>2, <1>6, <1>7 DEF ControlTypes, CallSet, Locations
<1>9. CallInv(c)'
  <2>1. HasPool(call[c].size)'
    BY <1>3, <1>4, <1>6 DEF PoolsStay, HasPool
  <2>2. QED
    BY <1>1, <1>2, <1>3, <1>6, <1>7, <2>1 DEF CallInv, Busy, Sizes, WaysOn
<1>10. MallocInv(c)'
  BY <1>1, <1>2, <1>5, <1>6, <1>7 DEF MallocInv, InMalloc
<1>11. QED
  BY <1>2, <1>3, <1>4, <1>6, <1>7, <1>8, <1>9, <1>10, Actor

(* Its end: back to the caller, wherever that goes on. *)
LEMMA CreateExitStep ==
  ASSUME IInv, NEW c \in Contexts, MayRun(c), UNCHANGED suspended, CreateExit(c)
  PROVE  IInv'
<1> DEFINE to == IF call[c].ok THEN call[c].back ELSE call[c].failTo
<1>1. DataInv /\ ControlTypes /\ CallInv(c) /\ MallocInv(c)
  BY DEF IInv
<1>2. /\ call[c].todo = 0 /\ pc[c] = "blocks" /\ Goto(c, "blocks", to)
      /\ call' = IF to \in {"idle", "aborted"} THEN [call EXCEPT ![c] = NoLocals] ELSE call
      /\ holder' = NoContext /\ UNCHANGED <<heapVars, granted>>
  BY DEF CreateExit, Finish, Goto
<1>3. /\ holder = c /\ call[c].size \in Sizes /\ (call[c].ok => HasPool(call[c].size))
      /\ <<call[c].back, call[c].failTo>> \in WaysOn
  BY <1>1, <1>2 DEF CallInv, Busy
<1>4. DataInv' /\ PoolsStay /\ SupplyStays
  BY <1>1, <1>2, SameData
<1>5. /\ to \in {"idle", "aborted", "autoAlloc", "mallocAgain"}
      /\ to = "autoAlloc" => call[c].ok /\ call[c].failTo \in {"idle", "aborted"}
      /\ to = "mallocAgain" => call[c].back = "mallocAgain"
  BY <1>3 DEF WaysOn
<1> HIDE DEF to
<1>6. /\ pc' \in [Contexts -> Locations] /\ pc'[c] = to
      /\ \A d \in Contexts \ {c} : pc'[d] = pc[d]
  BY <1>1, <1>2, <1>5, Going DEF Locations
<1>7. /\ call' \in [Contexts -> CallSet]
      /\ \A d \in Contexts \ {c} : call'[d] = call[d]
  BY <1>1, <1>2, NoLocalTypes, Calling DEF ControlTypes, CallSet
<1>8. ControlTypes'
  BY <1>1, <1>2, <1>6, <1>7 DEF ControlTypes, CallSet, Locations
<1>9. holder' # c
  BY <1>2, PoolAssumption
<1>10. CallInv(c)' /\ MallocInv(c)'
  <2>1. CASE to \in {"idle", "aborted"}
    BY <1>6, <1>9, <2>1, AtRest
  <2>2. CASE to = "autoAlloc"
    <3>1. call' = call /\ HasPool(call[c].size)'
      BY <1>2, <1>3, <1>5, <2>2 DEF HasPool, heapVars
    <3>2. QED
      BY <1>3, <1>5, <1>6, <1>9, <2>2, <3>1 DEF CallInv, MallocInv, InMalloc, Busy, Sizes
  <2>3. CASE to = "mallocAgain"
    <3>1. call' = call /\ suspended' = suspended /\ suspended = c
      BY <1>1, <1>2, <1>5, <2>3 DEF MallocInv, InMalloc
    <3>2. call[c].ok => Supply(call[c].size)'
      <4>1. call[c].ok => HasFree(call[c].size)
        BY <1>1, <1>2 DEF MallocInv
      <4>2. QED
        BY <1>2, <3>1, <4>1 DEF Supply, HasFree, heapVars
    <3>3. QED
      BY <1>3, <1>6, <1>9, <2>3, <3>1, <3>2 DEF CallInv, MallocInv, InMalloc, Busy, Sizes
  <2>4. QED
    BY <1>5, <2>1, <2>2, <2>3
<1>11. QED
  BY <1>2, <1>3, <1>4, <1>6, <1>7, <1>8, <1>10, Actor

(* A call ends with or without a block; pvPortMalloc resumes the scheduler. *)
LEMMA FinishStep ==
  ASSUME IInv, NEW c \in Contexts, MayRun(c),
         suspended' = suspended \/ (suspended = c /\ suspended' = NoContext),
         NEW from, NEW to \in {"idle", "aborted"}, Finish(c, from, to),
         holder = NoContext, UNCHANGED holder,
         NEW n \in Sizes, Served(c, n) \/ Refused(n)
  PROVE  IInv'
<1>1. DataInv /\ ControlTypes
  BY DEF IInv
<1>2. DataInv' /\ PoolsStay /\ (c \in Handlers => SupplyStays)
  <2>1. CASE Served(c, n)
    BY <1>1, <2>1, ServedFacts
  <2>2. CASE Refused(n)
    BY <1>1, <2>2, SameData DEF Refused
  <2>3. QED
    BY <2>1, <2>2
<1>3. /\ pc' \in [Contexts -> Locations] /\ pc'[c] = to
      /\ \A d \in Contexts \ {c} : pc'[d] = pc[d]
  BY <1>1, Going DEF Finish, Locations
<1>4. /\ call' \in [Contexts -> CallSet]
      /\ \A d \in Contexts \ {c} : call'[d] = call[d]
  BY <1>1, NoLocalTypes, Calling DEF Finish
<1>5. ControlTypes'
  BY <1>1, <1>3, <1>4 DEF ControlTypes, CallSet, Locations
<1>6. CallInv(c)' /\ MallocInv(c)'
  BY <1>3, PoolAssumption, AtRest
<1>7. QED
  BY <1>2, <1>3, <1>4, <1>5, <1>6, Actor

(* Steps of a context between calls that stays there. *)
LEMMA IdleStep ==
  ASSUME IInv, NEW c \in Contexts, MayRun(c), UNCHANGED suspended,
         pc[c] = "idle", pc' = pc, call' = call, holder = NoContext, holder' = holder,
         DataInv', PoolsStay, c \in Handlers => SupplyStays
  PROVE  IInv'
<1>1. ControlTypes'
  BY DEF IInv, ControlTypes, Locations
<1>2. CallInv(c)' /\ MallocInv(c)'
  BY PoolAssumption, AtRest
<1>3. QED
  BY <1>1, <1>2, Actor

(* A call of TbxMemPoolAllocateAuto or pvPortMalloc that goes on, with the *)
(* data as it was.                                                         *)
LEMMA GoOnStep ==
  ASSUME IInv, NEW c \in Contexts, MayRun(c), holder = NoContext, UNCHANGED <<heapVars, granted, holder>>,
         suspended' = suspended \/ suspended = NoContext, suspended' \in (Contexts \ Handlers) \cup {NoContext},
         NEW from, NEW to \in {"autoTry", "autoCreate", "mallocCreate"}, Goto(c, from, to),
         NEW l \in CallSet, call' = [call EXCEPT ![c] = l], l.size \in Sizes,
         to = "autoTry" => HasPool(l.size),
         to = "mallocCreate" => suspended' = c,
         to # "mallocCreate" => l.failTo \in {"idle", "aborted"}
  PROVE  IInv'
<1>1. DataInv /\ ControlTypes
  BY DEF IInv
<1>2. DataInv' /\ PoolsStay /\ SupplyStays
  BY <1>1, SameData
<1>3. /\ pc' \in [Contexts -> Locations] /\ pc'[c] = to
      /\ \A d \in Contexts \ {c} : pc'[d] = pc[d]
  BY <1>1, Going DEF Locations
<1>4. /\ call' \in [Contexts -> CallSet] /\ call'[c] = l
      /\ \A d \in Contexts \ {c} : call'[d] = call[d]
  BY <1>1, Calling
<1>5. ControlTypes'
  BY <1>1, <1>3, <1>4 DEF ControlTypes, CallSet, Locations
<1>6. holder' # c
  BY PoolAssumption
<1>7. to = "autoTry" => HasPool(l.size)'
  BY DEF HasPool, heapVars
<1>8. CallInv(c)' /\ MallocInv(c)'
  BY <1>3, <1>4, <1>6, <1>7 DEF CallInv, MallocInv, InMalloc, Busy, Sizes, HasPool
<1>9. QED
  BY <1>2, <1>3, <1>4, <1>5, <1>8, Actor
-----------------------------------------------------------------------------
(* The steps that start a call. *)
LEMMA StartsStep ==
  ASSUME IInv, NEW c \in Contexts, MayRun(c), UNCHANGED suspended, Starts(c)
  PROVE  IInv'
<1>1. DataInv /\ ControlTypes
  BY DEF IInv
<1>2. CASE Create(c)
  <2>1. PICK size \in BlockSizes, n \in Counts : CreateEnter(c, "idle", size, n, "idle", "idle")
    BY <1>2 DEF Create
  <2>2. size \in Sizes /\ n \in Nat \ {0} /\ <<"idle", "idle">> \in WaysOn /\ "idle" # "mallocAgain"
    BY PoolAssumption DEF Sizes, WaysOn
  <2>3. QED
    BY <2>1, <2>2, CreateEnterStep
<1>3. CASE Allocate(c)
  <2>1. PICK n \in Requests : Served(c, n)
    BY <1>3 DEF Allocate
  <2>2. DataInv' /\ PoolsStay /\ (c \in Handlers => SupplyStays)
    BY <1>1, <2>1, ServedFacts DEF Sizes
  <2>3. QED
    BY <1>3, <2>2, IdleStep DEF Allocate
<1>4. ASSUME NEW failTo \in {"idle", "aborted"}, AutoFind(c, failTo)
      PROVE  IInv'
  <2>1. PICK n \in Requests :
          /\ Goto(c, "idle", IF ListFind(n) # 0 THEN "autoTry" ELSE "autoCreate")
          /\ call' = [call EXCEPT ![c].size = n, ![c].failTo = failTo]
    BY <1>4 DEF AutoFind
  <2> DEFINE l == [call[c] EXCEPT !.size = n, !.failTo = failTo]
             to == IF ListFind(n) # 0 THEN "autoTry" ELSE "autoCreate"
  <2>2. n \in Sizes /\ n \in 1 .. SizeMod /\ failTo \in Locations
    BY SizeTypes DEF Sizes, Locations
  <2>3. l \in CallSet /\ l.size = n /\ l.failTo = failTo /\ call' = [call EXCEPT ![c] = l]
    BY <1>1, <2>1, <2>2 DEF ControlTypes, CallSet
  <2>4. to = "autoTry" => HasPool(n)
    BY <1>1, Find DEF DataInv
  <2>5. to \in {"autoTry", "autoCreate", "mallocCreate"} /\ to # "mallocCreate"
    OBVIOUS
  <2>6. Goto(c, "idle", to)
    BY <2>1
  <2> HIDE DEF l, to
  <2>7. holder = NoContext /\ UNCHANGED <<heapVars, granted, holder>>
    BY <1>4 DEF AutoFind
  <2>8. suspended' = suspended /\ suspended' \in (Contexts \ Handlers) \cup {NoContext}
    BY <1>1 DEF ControlTypes
  <2>9. to = "autoTry" => HasPool(l.size)
    BY <2>3, <2>4
  <2>10. l.size \in Sizes /\ l.failTo \in {"idle", "aborted"}
    BY <2>2, <2>3
  <2>11. QED
    BY <2>3, <2>5, <2>6, <2>7, <2>8, <2>9, <2>10, GoOnStep
<1>5. CASE Release(c)
  <2>1. Goto(c, "idle", "idle") /\ \E i, g : TakeBack(i, g)
    BY <1>1, <1>5, ReleaseData
  <2>2. DataInv' /\ PoolsStay /\ SupplyStays
    BY <1>1, <2>1, TakeBackData
  <2>3. pc[c] = "idle" /\ pc' = pc
    BY <1>1, <2>1 DEF Goto, ControlTypes
  <2>4. QED
    BY <1>5, <2>2, <2>3, IdleStep DEF Release
<1>6. QED
  BY <1>2, <1>3, <1>4, <1>5 DEF Starts, New, Free

(* pvPortMalloc gets its block at once, or suspends the scheduler. *)
LEMMA MallocStep ==
  ASSUME IInv, NEW c \in Contexts, MayRun(c), "malloc" \in Uses[c], Malloc(c)
  PROVE  IInv'
<1>1. DataInv /\ ControlTypes
  BY DEF IInv
<1>2. PICK n \in Requests :
        \/ Served(c, n) /\ pc[c] = "idle" /\ UNCHANGED <<pc, call, suspended>>
        \/ /\ Refused(n)
           /\ Goto(c, "idle", "mallocCreate")
           /\ call' = [call EXCEPT ![c].size = n]
           /\ suspended' = c
  BY DEF Malloc
<1>3. n \in Sizes /\ n \in 1 .. SizeMod /\ c \notin Handlers
  BY SizeTypes, ClientAssumption DEF Sizes
<1>4. CASE Served(c, n) /\ pc[c] = "idle" /\ UNCHANGED <<pc, call, suspended>>
  <2>1. DataInv' /\ PoolsStay /\ (c \in Handlers => SupplyStays)
    BY <1>1, <1>3, <1>4, ServedFacts
  <2>2. QED
    BY <1>4, <2>1, IdleStep DEF Malloc
<1>5. CASE /\ Refused(n)
           /\ Goto(c, "idle", "mallocCreate")
           /\ call' = [call EXCEPT ![c].size = n]
           /\ suspended' = c
  <2> DEFINE l == [call[c] EXCEPT !.size = n]
  <2>1. l \in CallSet /\ l.size = n /\ call' = [call EXCEPT ![c] = l]
    BY <1>1, <1>3, <1>5 DEF ControlTypes, CallSet
  <2> HIDE DEF l
  <2>2. /\ holder = NoContext /\ suspended = NoContext
        /\ UNCHANGED <<heapVars, granted, holder>>
    BY <1>5 DEF Malloc, Refused
  <2>3. "mallocCreate" \in {"autoTry", "autoCreate", "mallocCreate"}
    OBVIOUS
  <2>4. suspended' = suspended \/ suspended = NoContext
    BY <2>2
  <2>5. suspended' \in (Contexts \ Handlers) \cup {NoContext}
    BY <1>3, <1>5
  <2>6. QED
    BY <1>3, <1>5, <2>1, <2>2, <2>3, <2>4, <2>5, GoOnStep
<1>6. QED
  BY <1>2, <1>4, <1>5

(* The steps by which a call goes on. *)
LEMMA ProceedsStep ==
  ASSUME IInv, NEW c \in Contexts, MayRun(c), Proceeds(c)
  PROVE  IInv'
<1>1. DataInv /\ ControlTypes /\ CallInv(c) /\ MallocInv(c)
  BY DEF IInv
<1>2. CASE CreateBlock(c) /\ UNCHANGED suspended
  BY <1>2, CreateBlockStep
<1>3. CASE CreateExit(c) /\ UNCHANGED suspended
  BY <1>3, CreateExitStep
<1>4. ASSUME pc[c] \in {"autoTry", "autoCreate", "autoAlloc"}
      PROVE  call[c].size \in Sizes /\ call[c].failTo \in {"idle", "aborted"}
  BY <1>1, <1>4 DEF CallInv, Busy
<1>5. CASE AutoTry(c) /\ UNCHANGED suspended
  <2>1. pc[c] = "autoTry" /\ call[c].size \in Sizes /\ call[c].failTo \in {"idle", "aborted"}
    BY <1>4, <1>5 DEF AutoTry, Finish, Goto
  <2>2. CASE Served(c, call[c].size) /\ Finish(c, "autoTry", "idle")
    BY <1>5, <2>1, <2>2, FinishStep DEF AutoTry
  <2>3. CASE Refused(call[c].size) /\ Goto(c, "autoTry", "autoCreate") /\ UNCHANGED call
    <3>1. call[c] \in CallSet /\ call' = [call EXCEPT ![c] = call[c]]
      BY <1>1, <2>3 DEF ControlTypes, CallSet
    <3>2. holder = NoContext /\ UNCHANGED <<heapVars, granted, holder>>
      BY <1>5, <2>3 DEF AutoTry, Refused
    <3>3. suspended' = suspended /\ suspended' \in (Contexts \ Handlers) \cup {NoContext}
      BY <1>1, <1>5 DEF ControlTypes
    <3>4. "autoCreate" \in {"autoTry", "autoCreate", "mallocCreate"}
      OBVIOUS
    <3>5. QED
      BY <2>1, <2>3, <3>1, <3>2, <3>3, <3>4, GoOnStep
  <2>4. QED
    BY <1>5, <2>2, <2>3 DEF AutoTry
<1>6. CASE AutoCreate(c) /\ UNCHANGED suspended
  <2>1. CreateEnter(c, "autoCreate", call[c].size, 1, "autoAlloc", call[c].failTo)
    BY <1>6 DEF AutoCreate
  <2>2. call[c].size \in Sizes /\ call[c].failTo \in {"idle", "aborted"}
    BY <1>4, <2>1 DEF CreateEnter, Goto
  <2>3. <<"autoAlloc", call[c].failTo>> \in WaysOn /\ 1 \in Nat \ {0} /\ "autoAlloc" # "mallocAgain"
    BY <2>2 DEF WaysOn
  <2>4. QED
    BY <1>6, <2>1, <2>2, <2>3, CreateEnterStep
<1>7. CASE AutoAlloc(c) /\ UNCHANGED suspended
  <2>1. pc[c] = "autoAlloc" /\ call[c].size \in Sizes /\ call[c].failTo \in {"idle", "aborted"}
    BY <1>4, <1>7 DEF AutoAlloc, Finish, Goto
  <2>2. CASE Served(c, call[c].size) /\ Finish(c, "autoAlloc", "idle")
    BY <1>7, <2>1, <2>2, FinishStep DEF AutoAlloc
  <2>3. CASE Refused(call[c].size) /\ Finish(c, "autoAlloc", call[c].failTo)
    BY <1>7, <2>1, <2>3, FinishStep DEF AutoAlloc
  <2>4. QED
    BY <1>7, <2>2, <2>3 DEF AutoAlloc
<1>8. CASE MallocCreate(c) /\ UNCHANGED suspended
  <2>1. CreateEnter(c, "mallocCreate", call[c].size, 1, "mallocAgain", "mallocAgain")
    BY <1>8 DEF MallocCreate
  <2>2. call[c].size \in Sizes /\ suspended = c
    BY <1>1, <2>1 DEF CreateEnter, Goto, CallInv, MallocInv, InMalloc, Busy
  <2>3. <<"mallocAgain", "mallocAgain">> \in WaysOn /\ 1 \in Nat \ {0}
    BY DEF WaysOn
  <2>4. QED
    BY <1>8, <2>1, <2>2, <2>3, CreateEnterStep
<1>9. CASE MallocAgain(c)
  <2>1. /\ pc[c] = "mallocAgain" /\ Finish(c, "mallocAgain", "idle")
        /\ Served(c, call[c].size) \/ Refused(call[c].size)
        /\ suspended' = NoContext /\ holder = NoContext /\ UNCHANGED holder
    BY <1>9 DEF MallocAgain, Finish, Goto
  <2>2. call[c].size \in Sizes /\ suspended = c
    BY <1>1, <2>1 DEF CallInv, MallocInv, InMalloc, Busy
  <2>3. QED
    BY <2>1, <2>2, FinishStep
<1>10. QED
  BY <1>2, <1>3, <1>5, <1>6, <1>7, <1>8, <1>9 DEF Proceeds, Continue

(* Somebody else takes memory from the heap. *)
LEMMA TakeFromHeapStep ==
  ASSUME IInv, TakeFromHeap, UNCHANGED suspended
  PROVE  IInv'
<1>1. DataInv' /\ PoolsStay /\ SupplyStays
  BY TakeFromHeapData, TakeHeapData DEF IInv
<1>2. holder = NoContext /\ holder' = holder /\ pc' = pc /\ call' = call
  BY DEF TakeFromHeap
<1>3. ControlTypes'
  BY <1>2 DEF IInv, ControlTypes, Locations
<1>4. ASSUME NEW d \in Contexts PROVE CallInv(d)' /\ MallocInv(d)'
  BY <1>1, <1>2, PoolAssumption, Bystander
<1>5. QED
  BY <1>1, <1>3, <1>4 DEF IInv

(* No step at all. *)
LEMMA Stuttering ==
  ASSUME IInv, UNCHANGED clientVars
  PROVE  IInv'
<1>1. DataInv'
  BY SameData DEF IInv, clientVars, vars
<1>2. ControlTypes'
  BY DEF IInv, ControlTypes, Locations, clientVars, vars
<1>3. \A c \in Contexts : CallInv(c)' /\ MallocInv(c)'
  BY DEF IInv, CallInv, MallocInv, InMalloc, HasPool, HasFree, Supply, Owned, FromPools, BlockOf,
         HeaderBytes, Busy, WaysOn, Sizes, clientVars, vars, heapVars
<1>4. QED
  BY <1>1, <1>2, <1>3 DEF IInv

(* Initially there is nothing. *)
LEMMA Starting == ClientInit => IInv
<1> SUFFICES ASSUME ClientInit PROVE IInv
  OBVIOUS
<1> USE DEF ClientInit, Init
<1>1. DataTypes
  BY HeapAssumption DEF DataTypes, Addresses
<1>2. FromPools = {} /\ HeapGrants = {} /\ DOMAIN pools = {} /\ DOMAIN header = {}
  BY DEF FromPools, HeapGrants
<1>3. DataInv
  BY <1>1, <1>2, FS_EmptySet DEF DataInv, PoolsAscending, SizesInv, RegionInv, FreeInv, OwnerInv,
                                 PlaceInv, CountInv
<1>4. ControlTypes
  BY NoLocalTypes DEF ControlTypes, CallSet, Locations
<1>5. \A c \in Contexts : CallInv(c) /\ MallocInv(c)
  BY PoolAssumption DEF CallInv, MallocInv, InMalloc, Busy
<1>6. QED
  BY <1>3, <1>4, <1>5 DEF IInv

(* The invariant is inductive: each step is one of the above. *)
LEMMA Inductive == IInv /\ [ClientNext]_clientVars => IInv'
<1> SUFFICES ASSUME IInv, [ClientNext]_clientVars PROVE IInv'
  OBVIOUS
<1>1. CASE TakeFromHeap /\ UNCHANGED suspended
  BY <1>1, TakeFromHeapStep
<1>2. ASSUME NEW c \in Contexts, MayRun(c),
             \/ Starts(c) /\ UNCHANGED suspended
             \/ "malloc" \in Uses[c] /\ Malloc(c)
             \/ Proceeds(c)
      PROVE  IInv'
  BY <1>2, StartsStep, MallocStep, ProceedsStep
<1>3. CASE UNCHANGED clientVars
  BY <1>3, Stuttering
<1>4. QED
  BY <1>1, <1>2, <1>3 DEF ClientNext

(* So it always holds. *)
LEMMA AlwaysIInv == ClientSpec => []IInv
BY Starting, Inductive, PTL DEF ClientSpec
-----------------------------------------------------------------------------
(* The variables have their types, for any number of contexts and any pools. *)
THEOREM TypeCorrect == ClientSpec => []ClientTypeOK
<1>1. IInv => ClientTypeOK
  BY DEF IInv, DataInv, DataTypes, ControlTypes, ClientTypeOK, TypeOK, PoolSet, GrantSet
<1>2. QED
  BY <1>1, AlwaysIInv, PTL

(* No block size ever has two pools, and the list is in ascending order. *)
THEOREM Ascending == ClientSpec => []PoolsAscending
<1>1. IInv => PoolsAscending
  BY DEF IInv, DataInv
<1>2. QED
  BY <1>1, AlwaysIInv, PTL

(* TbxMemPoolRelease finds a used node for whatever block is released, so   *)
(* its assertions hold.                                                     *)
THEOREM ReleasesSucceed == ClientSpec => []UsedNodesMatchOwners
<1>1. IInv => UsedNodesMatchOwners
  BY DEF IInv, DataInv, CountInv, CallInv, UsedNodesMatchOwners, Owned
<1>2. QED
  BY <1>1, AlwaysIInv, PTL

(* The places of a block are its owner or its position in one free list. *)
LEMMA OnePlace ==
  ASSUME DataInv, NEW b \in DOMAIN header
  PROVE  /\ Cardinality(OwnersOf(b)) + Cardinality(FreePlacesOf(b)) = 1
         /\ \A p \in FreePlacesOf(b) : pools[p[1]].blockSize = header[b]
<1>1. \A p : p \in FreePlacesOf(b) <=>
               \E i \in DOMAIN pools : \E k \in DOMAIN pools[i].free :
                 p = <<i, k>> /\ pools[i].free[k] = b
  BY DEF FreePlacesOf, FreePlaces
<1>2. \A i \in DOMAIN pools : b \in ToSet(pools[i].free) =>
                                pools[i].blockSize = header[b]
  BY DEF DataInv, FreeInv
<1>3. \A i \in DOMAIN pools : \A k \in DOMAIN pools[i].free :
        pools[i].free[k] = b => b \in ToSet(pools[i].free)
  BY DEF ToSet
<1>4. \A p \in FreePlacesOf(b) : pools[p[1]].blockSize = header[b]
  BY <1>1, <1>2, <1>3
<1>5. \A i, j \in DOMAIN pools : pools[i].blockSize = pools[j].blockSize => i = j
  <2> SUFFICES ASSUME NEW i \in DOMAIN pools, NEW j \in DOMAIN pools,
                      pools[i].blockSize = pools[j].blockSize
               PROVE  i = j
    OBVIOUS
  <2>1. i \in Nat /\ j \in Nat /\ pools[j].blockSize \in Nat
    BY PoolTypes, HeapAssumption DEF DataInv
  <2>2. ~(i < j) /\ ~(j < i)
    BY <2>1 DEF DataInv, PoolsAscending
  <2>3. QED
    BY <2>1, <2>2
<1>6. CASE \E i \in DOMAIN pools : b \in ToSet(pools[i].free)
  <2>1. PICK i \in DOMAIN pools : b \in ToSet(pools[i].free)
    BY <1>6
  <2>2. PICK k \in DOMAIN pools[i].free : pools[i].free[k] = b
    BY <2>1 DEF ToSet
  <2>3. ASSUME NEW j \in DOMAIN pools, NEW m \in DOMAIN pools[j].free, pools[j].free[m] = b
        PROVE  <<j, m>> = <<i, k>>
    <3>1. j = i
      BY <1>2, <1>3, <1>5, <2>1, <2>3
    <3>2. m = k
      BY <2>2, <2>3, <3>1 DEF DataInv, FreeInv, IsInjective
    <3>3. QED
      BY <3>1, <3>2
  <2>4. FreePlacesOf(b) = {<<i, k>>}
    BY <1>1, <2>2, <2>3
  <2>5. OwnersOf(b) = {}
    BY <1>6 DEF OwnersOf, DataInv, PlaceInv
  <2>6. Cardinality(OwnersOf(b)) = 0 /\ Cardinality(FreePlacesOf(b)) = 1
    BY <2>4, <2>5, FS_EmptySet, FS_Singleton
  <2>7. QED
    BY <1>4, <2>6
<1>7. CASE \A i \in DOMAIN pools : b \notin ToSet(pools[i].free)
  <2>1. PICK g \in FromPools : BlockOf(g) = b
    BY <1>7 DEF DataInv, PlaceInv
  <2>2. OwnersOf(b) = {g}
    BY <2>1 DEF OwnersOf, DataInv, OwnerInv
  <2>3. FreePlacesOf(b) = {}
    BY <1>1, <1>3, <1>7
  <2>4. Cardinality(OwnersOf(b)) = 1 /\ Cardinality(FreePlacesOf(b)) = 0
    BY <2>2, <2>3, FS_EmptySet, FS_Singleton
  <2>5. QED
    BY <1>4, <2>4
<1>8. QED
  BY <1>6, <1>7

(* Every block that was ever created is in one free list, of the pool of   *)
(* its size, or has one owner.                                              *)
THEOREM Conserved == ClientSpec => []BlocksConserved
<1>1. IInv => BlocksConserved
  <2> SUFFICES ASSUME IInv PROVE BlocksConserved
    OBVIOUS
  <2>1. DataInv
    BY DEF IInv
  <2>2. \A g \in FromPools : BlockOf(g) \in DOMAIN header
    BY <2>1 DEF DataInv, OwnerInv
  <2>3. \A p \in FreePlaces : pools[p[1]].free[p[2]] \in DOMAIN header
    BY <2>1 DEF FreePlaces, DataInv, FreeInv, ToSet
  <2>4. QED
    BY <2>1, <2>2, <2>3, OnePlace DEF BlocksConserved
<1>2. QED
  BY <1>1, AlwaysIInv, PTL
-----------------------------------------------------------------------------
(* A context changes nobody else's location. *)
LEMMA OwnLocation ==
  ASSUME ControlTypes, NEW c \in Contexts, NEW d \in Contexts \ {c},
         Starts(c) \/ Malloc(c) \/ Proceeds(c)
  PROVE  pc'[d] = pc[d]
<1>1. ASSUME NEW from, NEW to, Goto(c, from, to) PROVE pc'[d] = pc[d]
  <2>1. DOMAIN pc = Contexts
    BY DEF ControlTypes
  <2>2. pc' = [pc EXCEPT ![c] = to]
    BY <1>1 DEF Goto
  <2>3. QED
    BY <2>1, <2>2
<1>2. Starts(c) => pc'[d] = pc[d]
  BY <1>1 DEF Starts, Create, CreateEnter, Allocate, AutoFind, New, Free, Release
<1>3. Malloc(c) => pc'[d] = pc[d]
  BY <1>1 DEF Malloc
<1>4. Proceeds(c) => pc'[d] = pc[d]
  BY <1>1 DEF Proceeds, Continue, CreateBlock, CreateExit, AutoTry, AutoCreate, AutoAlloc,
              CreateEnter, MallocCreate, MallocAgain, Finish
<1>5. QED
  BY <1>2, <1>3, <1>4

(* Memory that comes from the pools was served to the context that acts;   *)
(* TbxMemPoolAllocateAuto asks for what it was called with.                *)
LEMMA NewGrant ==
  ASSUME IInv, [ClientNext]_clientVars, NEW g \in FromPools' \ FromPools
  PROVE  \E c \in Contexts, n \in Sizes :
           /\ Served(c, n)
           /\ \A d \in Contexts \ {c} : pc'[d] = pc[d]
           /\ pc[c] \in {"autoTry", "autoAlloc"} /\ pc'[c] # pc[c] => n = call[c].size
<1>1. ~(granted' \subseteq granted) /\ g \in granted' /\ g \notin granted /\ g.by # "heap"
  BY DEF FromPools
<1>2. ~UNCHANGED clientVars
  BY <1>1 DEF clientVars, vars
<1>3. ~TakeFromHeap
  BY <1>1 DEF TakeFromHeap
<1>4. PICK c \in Contexts : /\ MayRun(c)
                            /\ \/ Starts(c) /\ UNCHANGED suspended
                               \/ "malloc" \in Uses[c] /\ Malloc(c)
                               \/ Proceeds(c)
  BY <1>2, <1>3 DEF ClientNext
<1>5. \A d \in Contexts \ {c} : pc'[d] = pc[d]
  BY <1>4, OwnLocation DEF IInv
<1>6. Requests \subseteq Sizes /\ CallInv(c)
  BY DEF Sizes, IInv
<1>7. CASE Starts(c)
  <2>1. Allocate(c)
    BY <1>1, <1>7 DEF Starts, Create, CreateEnter, AutoFind, New, Free, Release
  <2>2. PICK n \in Requests : Served(c, n)
    BY <2>1 DEF Allocate
  <2>3. pc[c] = "idle"
    BY <2>1 DEF Allocate
  <2>4. n \in Sizes /\ pc[c] \notin {"autoTry", "autoAlloc"}
    BY <1>6, <2>3
  <2>5. QED
    BY <1>5, <2>2, <2>4
<1>8. CASE Malloc(c)
  <2>1. PICK n \in Requests : Served(c, n) /\ pc[c] = "idle"
    BY <1>1, <1>8 DEF Malloc, Refused
  <2>2. QED
    BY <1>5, <1>6, <2>1
<1>9. CASE Proceeds(c)
  <2>1. \/ AutoTry(c) /\ pc[c] = "autoTry"
        \/ AutoAlloc(c) /\ pc[c] = "autoAlloc"
        \/ MallocAgain(c) /\ pc[c] = "mallocAgain"
    BY <1>1, <1>9 DEF Proceeds, Continue, CreateBlock, CreateExit, AutoCreate, CreateEnter, MallocCreate,
                      AutoTry, AutoAlloc, MallocAgain, Finish, Goto
  <2>2. Served(c, call[c].size)
    BY <1>1, <2>1 DEF AutoTry, AutoAlloc, MallocAgain, Refused
  <2>3. call[c].size \in Sizes
    BY <1>6, <2>1 DEF CallInv, Busy
  <2>4. QED
    BY <1>5, <2>2, <2>3
<1>10. QED
  BY <1>4, <1>7, <1>8, <1>9

(* A block that is handed out is from the smallest pool that fits, and of   *)
(* exactly the size that TbxMemPoolAllocateAuto was called with.           *)
THEOREM FitsBest == ClientSpec => BestFit
<1> DEFINE Best == \A g \in FromPools' \ FromPools :
             /\ header[BlockOf(g)] >= g.size
             /\ \A i \in DOMAIN pools :
                  pools[i].blockSize >= g.size => header[BlockOf(g)] <= pools[i].blockSize
             /\ (\E c \in Contexts : pc[c] \in {"autoTry", "autoAlloc"} /\ pc'[c] # pc[c])
                  => header[BlockOf(g)] = g.size
<1>1. IInv /\ [ClientNext]_clientVars => Best
  <2> SUFFICES ASSUME IInv, [ClientNext]_clientVars, NEW g \in FromPools' \ FromPools
               PROVE  /\ header[BlockOf(g)] >= g.size
                      /\ \A i \in DOMAIN pools :
                           pools[i].blockSize >= g.size => header[BlockOf(g)] <= pools[i].blockSize
                      /\ (\E c \in Contexts : pc[c] \in {"autoTry", "autoAlloc"} /\ pc'[c] # pc[c])
                           => header[BlockOf(g)] = g.size
    BY Zenon DEF Best
  <2>1. PICK c \in Contexts, n \in Sizes :
           /\ Served(c, n)
           /\ \A d \in Contexts \ {c} : pc'[d] = pc[d]
           /\ pc[c] \in {"autoTry", "autoAlloc"} /\ pc'[c] # pc[c] => n = call[c].size
    BY NewGrant
  <2>2. DataInv /\ DataTypes /\ PoolsAscending /\ n \in Nat
    BY SizeTypes DEF IInv, DataInv
  <2> DEFINE i == ListFindBestFit(n)
             h == GrantOf(Head(pools[i].free), n, c)
  <2>3. HandOut(i, h) /\ h.size = n
    BY <2>1, <2>2, ServedData
  <2>4. FromPools' = FromPools \cup {h} /\ header[BlockOf(h)] = pools[i].blockSize
    BY <2>2, <2>3, HandOutData
  <2>5. /\ i # 0 /\ pools[i].blockSize >= n
        /\ \A j \in DOMAIN pools : pools[j].blockSize >= n => pools[i].blockSize <= pools[j].blockSize
    BY <2>1, <2>2, FindBestFit DEF Served
  <2> HIDE DEF h, i
  <2>6. g = h /\ g.size = n /\ header[BlockOf(g)] = pools[i].blockSize
    BY <2>3, <2>4
  <2>7. ASSUME NEW d \in Contexts, pc[d] \in {"autoTry", "autoAlloc"}, pc'[d] # pc[d]
        PROVE  pools[i].blockSize = n
    <3>1. d = c /\ n = call[c].size /\ HasPool(n)
      BY <2>1, <2>7 DEF IInv, CallInv
    <3>2. QED
      BY <2>2, <2>5, <3>1, ExactFit DEF i
  <2>8. QED
    BY <2>5, <2>6, <2>7
<1>2. QED
  BY <1>1, AlwaysIInv, PTL DEF ClientSpec, BestFit

(* pvPortMalloc gets a block when it has extended a pool, unless a handler *)
(* took it.                                                                 *)
THEOREM ExtensionKept == ClientSpec => MallocKeepsExtension
<1> DEFINE Kept == \A c \in Contexts :
             pc[c] = "mallocAgain" /\ pc'[c] = "idle" /\ call[c].ok /\ granted' = granted =>
               \E g \in FromPools : g.by = "handler" /\ header[BlockOf(g)] = call[c].size
<1>1. IInv /\ [ClientNext]_clientVars => Kept
  <2> SUFFICES ASSUME IInv, [ClientNext]_clientVars, NEW c \in Contexts,
                      pc[c] = "mallocAgain", pc'[c] = "idle", call[c].ok, granted' = granted
               PROVE  \E g \in FromPools : g.by = "handler" /\ header[BlockOf(g)] = call[c].size
    BY Zenon DEF Kept
  <2>1. DataInv /\ DataTypes /\ PoolsAscending /\ CallInv(c) /\ MallocInv(c)
    BY DEF IInv, DataInv
  <2>2. ~UNCHANGED clientVars /\ ~TakeFromHeap
    BY DEF clientVars, vars, TakeFromHeap
  <2>3. Starts(c) \/ Malloc(c) \/ Proceeds(c)
    <3>1. PICK d \in Contexts : Starts(d) \/ Malloc(d) \/ Proceeds(d)
      BY <2>2 DEF ClientNext
    <3>2. d = c
      BY <3>1, OwnLocation DEF IInv
    <3>3. QED
      BY <3>1, <3>2
  <2>4. MallocAgain(c)
    BY <2>3 DEF Starts, Create, CreateEnter, Allocate, AutoFind, New, Free, Release, Malloc, Proceeds,
                Continue, CreateBlock, CreateExit, AutoTry, AutoCreate, AutoAlloc, MallocCreate, Finish, Goto
  <2>5. call[c].size \in Sizes /\ call[c].size \in Nat
    BY <2>1, SizeTypes DEF CallInv, Busy
  <2>6. ~Served(c, call[c].size)
    BY <2>1, <2>5, ServedData, HandOutData DEF Served
  <2>7. ListFindBestFit(call[c].size) = 0
    BY <2>4, <2>6 DEF MallocAgain, Refused
  <2>8. ~HasFree(call[c].size)
    <3>1. HasFree(call[c].size) => HasPool(call[c].size)
      BY DEF HasFree, HasPool
    <3>2. QED
      BY <2>1, <2>5, <2>7, <3>1, ExactFit
  <2>9. QED
    BY <2>1, <2>8 DEF MallocInv, Supply, Owned
<1>2. QED
  BY <1>1, AlwaysIInv, PTL DEF ClientSpec, MallocKeepsExtension
-----------------------------------------------------------------------------
(* What is granted lies in the heap and does not overlap, whether it comes *)
(* from the pools or from the heap.                                         *)
GrantsApart ==
  /\ \A g \in granted : g.size > 0 /\ Contract!Bytes(g) \subseteq 0 .. HeapSize - 1
  /\ \A g, h \in granted : g # h => Contract!Bytes(g) \cap Contract!Bytes(h) = {}

(* It follows from where blocks and other grants lie. *)
LEMMA Apart == DataInv => GrantsApart
<1> SUFFICES ASSUME DataInv PROVE GrantsApart
  OBVIOUS
<1> DEFINE Lo(g) == IF g \in FromPools THEN BlockOf(g) ELSE g.start
           Hi(g) == IF g \in FromPools THEN BlockEnd(BlockOf(g)) ELSE GrantEnd(g)
<1>1. \A g \in granted : /\ Lo(g) \in Nat /\ Hi(g) \in Nat /\ g.start \in Nat /\ g.size \in Nat \ {0}
                         /\ Lo(g) <= g.start /\ g.start + g.size <= Hi(g) /\ Hi(g) <= allocated
  <2> SUFFICES ASSUME NEW g \in granted
               PROVE  /\ Lo(g) \in Nat /\ Hi(g) \in Nat /\ g.start \in Nat /\ g.size \in Nat \ {0}
                      /\ Lo(g) <= g.start /\ g.start + g.size <= Hi(g) /\ Hi(g) <= allocated
    OBVIOUS
  <2>1. /\ g.start \in Nat /\ g.size \in Nat \ {0} /\ HeaderBytes \in Nat \ {0}
        /\ g.start = BlockOf(g) + HeaderBytes /\ BlockOf(g) \in Int
    BY GrantTypes
  <2>2. CASE g \in FromPools
    <3>1. /\ BlockOf(g) \in DOMAIN header /\ BlockOf(g) \in Nat /\ header[BlockOf(g)] \in Nat
          /\ g.size <= header[BlockOf(g)] /\ BlockEnd(BlockOf(g)) <= allocated
      BY <2>1, <2>2, GrantTypes DEF DataInv, OwnerInv, RegionInv
    <3>2. QED
      BY <2>1, <2>2, <3>1 DEF BlockEnd
  <2>3. CASE g \notin FromPools
    BY <2>1, <2>3 DEF DataInv, RegionInv, HeapGrants, GrantEnd
  <2>4. QED
    BY <2>2, <2>3
<1>2. \A g, h \in granted : g # h => Hi(g) <= Lo(h) \/ Hi(h) <= Lo(g)
  <2> SUFFICES ASSUME NEW g \in granted, NEW h \in granted, g # h
               PROVE  Hi(g) <= Lo(h) \/ Hi(h) <= Lo(g)
    OBVIOUS
  <2>1. CASE g \in FromPools /\ h \in FromPools
    <3>1. /\ BlockOf(g) \in DOMAIN header /\ BlockOf(h) \in DOMAIN header
          /\ BlockOf(g) # BlockOf(h) /\ BlockOf(g) \in Nat /\ BlockOf(h) \in Nat
      BY <2>1, GrantTypes DEF DataInv, OwnerInv
    <3>2. BlockOf(g) < BlockOf(h) \/ BlockOf(h) < BlockOf(g)
      BY <3>1
    <3>3. QED
      BY <2>1, <3>1, <3>2 DEF DataInv, RegionInv
  <2>2. CASE g \in FromPools /\ h \notin FromPools
    BY <2>2 DEF DataInv, RegionInv, OwnerInv, HeapGrants
  <2>3. CASE g \notin FromPools /\ h \in FromPools
    BY <2>3 DEF DataInv, RegionInv, OwnerInv, HeapGrants
  <2>4. CASE g \notin FromPools /\ h \notin FromPools
    BY <2>4 DEF DataInv, RegionInv, HeapGrants
  <2>5. QED
    BY <2>1, <2>2, <2>3, <2>4
<1> HIDE DEF Lo, Hi
<1>3. allocated \in Nat /\ allocated <= HeapSize /\ HeapSize \in Nat
  BY HeapAssumption DEF DataInv, DataTypes
<1>4. ASSUME NEW g \in granted PROVE g.size > 0 /\ Contract!Bytes(g) \subseteq 0 .. HeapSize - 1
  BY <1>1, <1>3 DEF Contract!Bytes
<1>5. ASSUME NEW g \in granted, NEW h \in granted, g # h
      PROVE  Contract!Bytes(g) \cap Contract!Bytes(h) = {}
  <2>1. g.start + g.size <= h.start \/ h.start + h.size <= g.start
    BY <1>1, <1>2, <1>5
  <2>2. QED
    BY <1>1, <1>5, <2>1 DEF Contract!Bytes
<1>6. QED
  BY <1>4, <1>5 DEF GrantsApart

(* A step hands out one piece of memory, takes one back or does neither. *)
LEMMA OneGrant ==
  ASSUME IInv, [ClientNext]_clientVars
  PROVE  \/ UNCHANGED granted
         \/ \E g : g \notin granted /\ granted' = granted \cup {g}
         \/ \E g \in granted : granted' = granted \ {g}
<1>1. DataInv
  BY DEF IInv
<1>2. CASE \E c \in Contexts, n \in Sizes : Served(c, n)
  BY <1>1, <1>2, ServedData, HandOutData DEF HandOut
<1>3. CASE TakeFromHeap
  BY <1>1, <1>3, TakeFromHeapData, TakeHeapData DEF TakeHeap
<1>4. CASE \E c : Release(c)
  BY <1>4 DEF Release
<1>5. CASE FromPools' \subseteq FromPools /\ ~TakeFromHeap /\ ~\E c : Release(c)
  <2>1. CASE UNCHANGED clientVars
    BY <2>1 DEF clientVars, vars
  <2>2. ASSUME NEW c \in Contexts, Starts(c) \/ Malloc(c) \/ Proceeds(c)
        PROVE  UNCHANGED granted
    <3>1. ~\E n \in Sizes : Served(c, n)
      BY <1>1, <1>5, ServedData, HandOutData DEF FromPools
    <3>2. Requests \subseteq Sizes
      BY DEF Sizes
    <3>3. CASE Starts(c)
      BY <1>5, <3>1, <3>2, <3>3 DEF Starts, Create, CreateEnter, Allocate, AutoFind, New, Free
    <3>4. CASE Malloc(c)
      BY <3>1, <3>2, <3>4 DEF Malloc, Refused
    <3>5. CASE Proceeds(c)
      <4>1. pc[c] \in Busy => call[c].size \in Sizes
        BY DEF IInv, CallInv
      <4>2. QED
        BY <3>1, <3>5, <4>1 DEF Proceeds, Continue, CreateBlock, CreateExit, AutoTry, AutoCreate, AutoAlloc,
             CreateEnter, MallocCreate, MallocAgain, Finish, Goto, Refused, Busy
    <3>6. QED
      BY <2>2, <3>3, <3>4, <3>5
  <2>3. QED
    BY <1>5, <2>1, <2>2 DEF ClientNext
<1>6. CASE ~(FromPools' \subseteq FromPools)
  BY <1>2, <1>6, NewGrant
<1>7. QED
  BY <1>3, <1>4, <1>5, <1>6

(* The pools and their callers keep the allocator's contract, together with *)
(* whatever else is allocated from the heap.                                *)
THEOREM PoolsKeepContract == ClientSpec => KeepsContract
<1>1. ClientInit => Contract!ContractInit
  BY DEF ClientInit, Init, Contract!ContractInit
<1>2. DataInv' => GrantsApart'
  BY Apart, PTL
<1>3. IInv /\ IInv' /\ [ClientNext]_clientVars => [Contract!ContractNext]_granted
  <2> SUFFICES ASSUME IInv, IInv', [ClientNext]_clientVars
               PROVE  [Contract!ContractNext]_granted
    OBVIOUS
  <2>1. CASE \E g : g \notin granted /\ granted' = granted \cup {g}
    <3>1. PICK g : g \notin granted /\ granted' = granted \cup {g}
      BY <2>1
    <3>2. g \in granted' \ granted /\ Contract!Grant(g)
      BY <1>2, <3>1 DEF IInv, GrantsApart, Contract!Grant
    <3>3. QED
      BY <3>2 DEF Contract!ContractNext
  <2>2. CASE \E g \in granted : granted' = granted \ {g}
    <3>1. PICK g \in granted : granted' = granted \ {g}
      BY <2>2
    <3>2. g \in granted \ granted' /\ Contract!Return(g)
      BY <3>1 DEF Contract!Return
    <3>3. QED
      BY <3>2 DEF Contract!ContractNext
  <2>3. QED
    BY <2>1, <2>2, OneGrant
<1>4. QED
  BY <1>1, <1>3, AlwaysIInv, PTL DEF ClientSpec, KeepsContract, Contract!ContractSpec
=============================================================================
