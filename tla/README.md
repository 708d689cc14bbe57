# MicroTBX in TLA+

MicroTBX is a C library for microcontrollers: critical sections, a heap that
only grows, memory pools, linked lists, random numbers, checksums, encryption.
Its claim is that "access to shared resources are serialized with the help of
critical sections", which "makes it safe to use MicroTBX in a multithreaded
environment" (README.md:18). These modules model what the claim
rests on, from the critical section up to the lists, at the grain at which tasks,
interrupt handlers, cores and threads interleave, and what the library computes,
checksums and ciphers, against its definition. TLC checks them on small instances;
TLAPS proves the most important properties for every value of the constants.

    tlc -config CritSectCortexM.cfg MCCritSectSingleCore
    tlapm CritSectSingleCoreProofs.tla

## The system

| component | state | operations | used by | hard about it | modelled by |
|---|---|---|---|---|---|
| critical section (`tbx_critsect.c`) | nesting counter, saved status register | Enter, Exit | all below | read-modify-write of the counter, nesting, restore only at the outermost exit | `CritSect` |
| ports (`port/`) | PRIMASK or SREG; spin lock, per-core flags; atomic flag, mutex | Disable, Restore | critical section | interrupts between the read and the mask; lazy claim; spinning | `CritSectSingleCore`, `CritSectRP2040`, `CritSectLinux` |
| heap (`tbx_heap.c`) | `tbxHeapAllocated` | Allocate, GetFree | pools, application | concurrent bumps, rounding, a size_t that wraps | `HeapArithmetic`, `Heap` |
| memory pools (`tbx_mempool.c`) | ascending pool list; free and used block lists of each pool; block headers | Create, Allocate, AllocateAuto, Release | lists, FreeRTOS heap, C++ | failure halfway, gaps between critical sections, nodes that change their block | `MemPool` |
| lists (`tbx_list.c`) | nodes, first, last, count; `memPoolsCreated` | create, delete, insert, remove, swap, sort, read | application | node pointers kept across critical sections, a pool that lists and nodes share | `List`, `ItemSequences` |
| FreeRTOS heap, C++ operators (`extra/`) | none of their own | malloc, free, new, delete | application | allocate, extend, allocate, with handlers in between | `MemPoolClients` |
| random numbers (`tbx_random.c`) | `seeded`, two shift registers, seed handler | NumberGet, SetSeedInitHandler | application | seeding outside any critical section, registers that must not reach zero | `Random` |
| checksums (`tbx_checksum.c`) | none | CRC16, CRC32 | application | the bit that a shift drops | `Checksum` |
| cryptography (`tbx_crypto.c`, `tbx_aes256.c`) | a context on the stack | Encrypt, Decrypt | application | round keys computed on the way, forwards and backwards | `Crypto`, `Aes256` |
| assertions, platform | a handler pointer; none | | all | | a failed assertion is a location of the other models |

Calls go downwards only: list, FreeRTOS heap and C++ operators call the pools,
pools the heap, and everything the critical section, which calls the port. The
sole callbacks are the assertion handler, the seed handler and the comparison
function of the list's sort. There are no messages, nothing is persisted, there
are no timeouts: the hazards are interleavings, nesting, failure halfway, limits
of the heap and arithmetic at the edge of `size_t`. `PROJECT.json` lists each
of them at its line.

What makes the components correct:

* critical section: at most one context is inside; the outermost exit gives the
  caller back the interrupt state of its outermost entry; interrupts are not
  masked for ever; a nested entry never blocks on its own lock;
* heap: what is granted lies in the buffer, overlaps nothing that was granted
  before, and nothing is refused that fits;
* pools: a block is free once or owned once, is never lost, is as large as its
  owner asked for and comes from the smallest pool that fits; the list the search
  relies on is sorted; every call returns; what pvPortMalloc adds to a pool is
  not taken by another task;
* lists: a list is a sequence, the same in both directions, that each call changes
  as its name says, at one moment; blocks are in one place each;
* random numbers: the registers never stop, and all callers share one sequence;
* checksums and ciphers: they are what the polynomial division and FIPS 197 say.

## Modules

`NestedLock`, `MemoryContract` and `ItemSequences` are the abstract
specifications. The ports, the two allocators and the lists are the detailed ones;
`ImplementsLock`, `KeepsContract` and `ImplementsSequences` are their refinements
(`INSTANCE ... WITH`). What one layer is proved or checked to implement is how the
next layer uses it: `Heap` and `MemPool` have a variable `holder` with the mutual
exclusion of `NestedLock`, `MemPool` uses the arithmetic of the heap through
`HeapArithmetic`, and `List` sees of its pool which blocks are free and whether the
heap has room for one more. Sections nest (`TbxMemPoolCreate` calls
`TbxHeapAllocate`); a nested entry of the holder changes nothing that is visible,
so the layers above need only the holder.

**`CritSect`** is `tbx_critsect.c` without a port; the three modules of the ports
extend it. A load of the counter that decides a store, and the store, are steps of
their own: `TestFirst`, `Latch`, `LoadUp` and `StoreUp` are Enter after
`TbxPortInterruptsDisable` (together `CountUp`);
`CheckCounter`, `LoadDown`, `StoreDown` are Exit up to the test of the counter, and
`ExitNested` is an exit for which the port has nothing to restore (together
`CountDown`). The properties that do not depend on the port are here, too.
Each port defines `Enter` and `Exit` as these steps and its own, guarded by who
may execute (`Executes` on a CPU).

**`CritSectSingleCore`** (Cortex-M, AVR). A context is a task or an interrupt
handler; `running` has the CPU. `ReadSR`, `Mask` are the two instructions of
`TbxPortInterruptsDisable`, `Restore` is the final exit. `TakeInterrupt` may come between any two steps
while interrupts are enabled, handlers nest, `SwitchTask` pre-empts. `EntryMasks`
tells the AVR, which masks on interrupt entry, from the Cortex-M. Callers pair
Enter and Exit as the function comments demand (`CheckCounter` needs an open
entry) and a handler returns with the interrupt state it was given. Code outside
critical sections may mask and unmask interrupts (`AppToggle`).

**`CritSectRP2040`**. The same for two cores that share the counter, the saved
status register and one spin lock. The steps of `TbxPortInterruptsDisable` follow
the source line by line, because its first call sets the lock up without
protection. `InitFirst` says whether the application enters one critical section
before it enables interrupts or launches the other core. `SpinMask`, `SpinTake`
are `spin_lock_blocking`; `Unlock`, `Restore` are `spin_unlock`.

**`CritSectLinux`**. Threads, the atomic flag, the mutex. The repository's own unit
tests, the user of this port, are single-threaded; the run is about threads that
overlap.

**`HeapArithmetic`, `Heap`**. `size_t` counts modulo `SizeMod`. A call rounds its
size up before it enters the critical section; within, each access is a step.
`granted` is a history variable: what callers were given. Addresses are offsets
in the buffer.

**`MemPool`**. `pools` is the pool list: for each pool the block size and, as
sequences, the blocks in the nodes of its free and its used list; `header` is the
size stored in front of each block. A function whose body is one critical section
is one action. `TbxMemPoolCreate` is `CreateEnter` (find or make the pool), one
`CreateBlock` for each iteration, `CreateExit`; `TbxMemPoolAllocateAuto` is
`AutoFind`, `AutoTry`, `AutoCreate` and the steps of Create, `AutoAlloc`, with
other contexts between. Allocation failures leave what was allocated before them
allocated, as the code does. `Release` puts the released block into the node at
the head of the used list, as the code does, so nodes and blocks drift apart.
`TakeFromHeap` is any other user of the heap.

**`MemPoolClients`** composes the pools with their callers. `Uses` says which
functions the code of each context calls: `Malloc`, `MallocCreate`, `MallocAgain`
are pvPortMalloc, with the scheduler `suspended` in between, so that only
handlers run (`MayRun`); `New` is AllocateAuto with the location `aborted` in the
place of NULL; `Free` is Release. A context that releases may release any block
that is owned, as memory is handed from one context to another.

**`List`**. `nodes[b]` and `lists[b]` are the objects in block `b` of the shared pool
(`tTbxList` and `tTbxListNode` have the same size, so there is one pool). A function
whose body is one critical section is one action (`Clear`, `Delete`, `Swap`, `Sort`, the
functions that read as operators). `TbxListCreate` is `CreateCheck`, `CreateFlag`,
`CreatePool1`, `CreatePool2`, the allocation and `CreateReturn`; an insertion is
`InsertAtEnd` or `InsertBeside` (which looks the reference node up), the allocation
(`AllocBlock`: allocate, extend, allocate) and `LinkNode`; a removal `RemoveFind`,
`Unlink`, `RemoveRelease`. Insertion at the front and at the back are mirror images:
one definition with a side as parameter. The contract operators (`MayInsert`,
`MayRemove`, ...) say what callers must not do; with `Overlap` they may remove an
item that another call has looked up.

**`Words`, `Random`**. A word is the set of the positions of its one bits, so the
registers have their real width and the same set is the polynomial. The bytes of
messages, keys and arrays are such words, too. Seeding is
`InitLFSRs` (the handler is called twice), one `SeedRegister` for each assignment,
`MarkSeeded`; a 16-bit half is `Enter`, three times `LoadLFSR` and `StoreLFSR`, and
`Exit`. What happens to a register that is seeded a second time during a shift
depends on the compiler, so `RegistersRunning` and `OneSequence` speak of generators
that were seeded once (`SeededOnce`), and no property is about the others.

**`Checksum`** has the loops of the two CRC functions, with what can be configured
(polynomials and initial values) as constants; **`Aes256`** the tables and
the steps of cipher and key schedule on bytes; **`Crypto`** the machine that runs
them: one step for each pass of the loops over expansions, rounds and blocks, with
the context and its three keys. **`Polynomials`** and **`Fips197`** are the
references, written from the definitions and not from the code: CRC as the remainder
of a polynomial division, AES-256 in the field GF(2^8) without tables and with the
key schedule made in advance. **`Calculations`** composes all of these for TLC: one
service is chosen at the beginning.

The operators below the comment "Mutants" are the actions as a plausible mistake
would have them; nothing uses them in a specification. `PROJECT.json` pairs each
checked property with one that breaks it.

## Runs

| run | shows | bounds |
|---|---|---|
| `critsect_cortexm` | types, mutual exclusion, exact counter, the assertion of Exit, the fresh snapshot and the restored interrupt state | 2 tasks, 2 handlers (one can interrupt the other), entries 3 deep; 118 thousand states |
| `critsect_avr` | refinement of `NestedLock`; interrupts come back (fairness) | 2 tasks, 1 handler, 2 deep; no symmetry, because of the liveness |
| `critsect_rp2040` | exclusion across cores, the flag and the lock agree, no self-deadlock, each core's own interrupt state, refinement | 2 cores as the chip has, 1 handler, 2 locks, 2 deep; 59 thousand states |
| `critsect_rp2040_cold` | violation: the first section entered with interrupts on | the same, `InitFirst = FALSE` |
| `critsect_linux_threads` | violation: overlapping threads | 2 threads |
| `heap` | grants in the buffer, all bytes accounted for, refused only if full, refinement of `MemoryContract`, by which grants are disjoint | 2 contexts, 4 words, sizes of 1, 2 and 7 words |
| `heap_wrap` | violation: a size next to the largest `size_t` | 1 context |
| `mempool` | ascending list, blocks free or owned once and conserved, best fit, node count, what pvPortMalloc adds, refinement, every call returns (fairness) | a C++ task, a FreeRTOS task and a handler; blocks of 40 bytes created two at a time, requests of 40 and 47 (which round to different pools), others that take 64; heap of 190 bytes, so that every allocation fails somewhere; 76 thousand states |
| `list` | both directions agree, blocks in one place each, no assertion fails, items go where asked, refinement of `ItemSequences` | 2 contexts, 4 blocks, up to 2 lists, 3 items of which 2 compare equal; 166 thousand states |
| `list_stale` | violation: two calls for the same item | the same with `Overlap` |
| `list_sort_empty` | violation: an empty list is sorted | the same with `SortsEmpty` |
| `calculations` | the registers run and give one sequence; CRCs are remainders; AES-256 is that of FIPS 197, whose S-box and example are as printed, and decryption inverts it | 2 contexts, 2 numbers, seeds 0, 1 and all ones; 1,092 messages of up to 6 bytes; 2 keys with arrays of 2 blocks, 1 block and 20 bytes, 2 calls; 278 thousand states |

Two contexts of each kind suffice for the interleavings, as the code
distinguishes only "me" and "the one inside"; a nesting of two tells nested from
outermost, three adds a nested exit that is not the last. The proofs (the
single-core and the RP2040 section, the heap, the pools and their callers, the
lists, the random numbers, the checksums, the ciphers) hold for any number of contexts,
any sizes, any messages, keys and arrays.
Three items are the fewest for which a removal in the middle, both ends and an
order that sorting has to change all exist; four blocks leave room for two lists or
for one list with three nodes, and the fifth allocation fails. A released block keeps
what it contained, and in the run `list` TLC takes states for one that differ in
nothing else (the view `UpToUnusedNodes`): a block is initialised before it is linked,
and callers who keep the contract do not read others. `list_stale`, whose callers do,
goes without the view, and the proofs know nothing of it. A message of six
bytes runs through the 32 bits of the register and beyond. The example of FIPS 197
(C.3) is one of the arrays, which checks the reference itself, and the S-box is compared
with the definition at all 256 bytes (`AnswersExample`).

Deadlock is checked in all runs except `calculations`, where the calls are counted
and end.

### Fairness

* `CritSectSingleCore!Fairness`: the CPU does not stop inside Enter or Exit (weak
  fairness of their steps: once interrupts are masked nothing can take the CPU
  away), and a caller follows each entry by its exit (strong fairness of
  `CheckCounter` at each level, because the caller may be interrupted by code that
  runs first). It is the demand of the comment of `TbxCriticalSectionEnter`.
* `MemPoolClients!ClientFairness`: a context inside a call goes on whenever it may
  (strong fairness, because others take the critical section and the scheduler in
  between; both are only held for a bounded time, and Create's loop is finite).

### Disagreements between the code and its comments

Five runs expect a violation; `PROJECT.json` quotes the text each contradicts.

1. RP2040: `spinLockInitialized` is set before `spinLock` is, and no interrupt is
   masked in between; whoever enters then skips the lock. One critical section
   before interrupts are enabled and the second core is launched is enough.
2. LINUX: a thread that finds the flag set does not lock the mutex; it enters.
3. Heap: a size within a word of the largest `size_t` is granted as 0 bytes.
4. Lists: `TbxListRemoveItem` works on a node that it looked up in an earlier
   critical section. If another context removes the same item meanwhile the node is
   unlinked twice or belongs to somebody else. The insertions beside an item have the
   same gap. `list` shows that callers who avoid it are safe.
5. Lists: `TbxListSortItems` follows a NULL pointer if the list is empty.

Three more need no run:

6. Pools: the "should always work" of `TbxMemPoolAllocateAuto` (tbx_mempool.c:450)
   does not hold when another context takes the block first; the function then
   returns NULL, and operator new aborts. `mempool` has such behaviours.
7. Random numbers: `TbxRandomInitLFSRs` is not "only called once"
   (tbx_random.c:184): two contexts may both find `seeded` false, and one seeds the
   registers while the other does, too, or draws. Numbers that were given may come again.
   `calculations` has such behaviours; its properties are not about them.
8. Random numbers: the 31-bit register accepts 32 bits from the seed handler;
   0xF4B785C7 leaves it at zero after one shift. `RandomAssumption` excludes it.

## Proofs

`CritSectSingleCoreProofs` proves, from `CoreAssumption` and `SectionAssumption` alone,
for any number of tasks and handlers, any nesting bound and both kinds of CPU, all
safety properties of `critsect_cortexm` and the refinement of `NestedLock`.
Mutual exclusion is not inductive: it has to be known that suspended contexts are
outside and that the running one has interrupts masked while inside. `IInv` says
so in named parts: who is suspended and where (`SuspendedInv`), what holds of the
running context at each location (`RunningInv`), what is local to each context
(`LocalInv`) and that the stack of interrupted contexts ends in a task
(`StackInv`). There is one lemma each for the steps of Enter, of Exit and of the
environment; the theorems follow from `Inductive`.

`CritSectRP2040Proofs` proves the same properties for any number of cores, handlers
and locks, and refinement, under the hypothesis `InitFirst`; `critsect_rp2040_cold`
shows that it is needed. (`AssertionsHold` also needs a lock to exist.) What makes the
port safe is that a core which has masked its interrupts cannot be taken away from the
context that spins or holds the lock, and that the flag of a core, read without the
lock, is written by that core only. The invariant says so in parts: nothing runs
before the first section has claimed a lock (`StartInv`, `ReadyInv`), one stack of
contexts for each core (`StackInv`, `SuspendedInv`), the lock is held by the core
whose flag is set (`LockInv`), and who has interrupts masked at which location
(`MaskInv`, `LocalInv`).

`HeapProofs` proves all safety properties of the heap and the
refinement of `MemoryContract`, under the hypothesis `NoWrap`: no requested size
wraps when it is rounded up. `heap_wrap` shows that the hypothesis is needed. The
invariant ties the locals of the context that holds the section to the shared
counter: what it read is still true. `Accounted` says that the counter is the sum of
what was granted, and inductively (`SumInv`) of what was granted and what calls that
have moved the counter are about to return. A sum over a set is a recursive function of
subsets, and that it does not matter which element is taken first is shown by
induction over their size (`Gathers`, `GatherAny`). What it needs of remainders and of rounding, as
the pools do, is in `CollectionLemmas`.

`MemPoolProofs` proves all safety properties of `mempool` and the refinement of
`MemoryContract` for any number of contexts, any heap, word and header sizes and any
requests, from the assumptions of the constants alone. No property of the pools is
inductive alone, and the invariant has three layers:

* what holds of the data at every moment (`DataInv`): the pools ascend; a used node
  count equals the number of owned blocks (`CountInv`), without which Release might
  find the used list empty; each block in a node lies in one place (`PlaceInv`), in a
  region of the heap of its own (`RegionInv`), with its pool's size in front of it;
  what is owned is as large as was asked for (`OwnerInv`);
* what a context inside a call knows (`CallInv`): that the pool which Create found is
  still there, how many blocks are to come, that the size it asks for is rounded;
* what pvPortMalloc knows with the scheduler suspended (`MallocInv`): the pool it has
  extended still has the block, whatever the handlers that run meanwhile do. The
  handlers must not allocate for that, which is the contract of FreeRTOS.

The argument follows the layers. There is one lemma for each of the six things that
steps do to the data (`GrowHeap`, `AddPool`, `AddBlock`, `HandOut`, `TakeBack`,
`TakeHeap`): each keeps `DataInv`. `Bystander` says that what a context knows
survives the steps of others, because the pool list only grows and a block size stays
in it; `Actor` what the acting context knows next. One lemma for each kind of
step combines them. `CollectionLemmas` holds what the other modules need of sequences,
numbers, sums, rounding, recursive functions and the exclusive-or of words.

`WordProofs` is about the registers of `Random` and the loops of `Checksum`.

It proves `RegistersRunning`, for any number of contexts and all seeds but the one that
`RandomAssumption` excludes. The heart is `ShiftRuns`: a shift takes a register that
runs to one that runs, because each polynomial has the top bit of its register,
which the shift itself never leaves set, and because only one value of 32 bits is
shifted onto the polynomial of 31. The invariant says of each context what it may rely
on where it is: the seeds it holds run, register 32 is seeded before register 31,
and who draws finds both.

It proves `OneSequence`: as long as the generator was seeded once, the halves that
callers were given are the sequence that the seeds determine, each given once and none
left out. `SequenceInv` counts: before the seeding nobody draws; while one context
seeds, the other assignments are still to come; from then on register 32 has been
shifted twice and register 31 once for each half that was taken, with the shifts of the
context inside the critical section half done (`Places`, `SeedShifted`); and each half
that was taken is held by one context or was given to one number (`AllCounted`).

It proves `CrcIsRemainder` for every message and every configuration of the checksums.
The shift and the conditional exclusive-or of the loop multiply a remainder by x;
eight of them, after the byte was added, append a byte to the dividend, as dividing is
linear (`Residue`); the rest is induction over the bytes of the message. The division
by the definition and the loops of the code are recursive functions; `Loops` and
`Induction` in `CollectionLemmas` say what can be known of those.

`CryptoProofs` proves `DecryptInverts` for every key and every array: what
TbxCryptoAes256Decrypt does undoes TbxCryptoAes256Encrypt, and the other way round,
although the two compute the round keys in opposite directions. It goes from the bytes
to the array:

* each table inverts the other at all 256 bytes (`SboxInverts`), and doubling respects
  the exclusive-or, from which follow the inverses of SubBytes, ShiftRows, AddRoundKey and
  MixColumns;
* an expansion of the key backwards undoes one forwards, whatever the round constant
  (`ExpandInverts`), and the constant itself is wound back (`RoundConstants`), so that
  both functions work with the keys of one `Schedule`, and each round has its inverse
  (`RoundInverts`);
* `Encrypts` says what encrypting makes of a block: there is a path of 14 rounds
  between the two. It leads from one block to one only and to one from one only
  (`EncryptsOne`), so that it does not matter in which direction the code went along it;
* the invariant `IInv` says how far the call under way has come: which keys of the
  schedule the context has, that the blocks before `idx` are done and those behind it
  untouched (`AtBlockInv`), and that the block at `idx` is so many rounds along its path,
  from the beginning or from the end (`EncryptRoundInv`, `DecryptRoundInv`). Both calls
  are related through the array between them, which the code no longer has.

It also proves `EncryptIsFips197` for every key and every array: the bytes that
TbxCryptoAes256Encrypt leaves are those of FIPS 197, which computes the key schedule in
advance and multiplies in the field. Its hypothesis is `SboxIsFips197`, a formula
without variables that TLC evaluates in the run `calculations`, where it holds. The
steps:

* multiplying by x and by x + 1 and reducing is `rj_xtime`, without and with an
  exclusive-or (`Doubles`, `Triples`, from `ResidueShifts` and `ResidueLinear` of
  `WordProofs`), so that the columns are mixed alike (`StandardMixes`); rows and bytes
  are a matter of their positions (`StandardPositions`);
* word n of the standard is word n % 8 of expansion n / 8 (`KeyWord`, `NextWordIs`), the
  three loops and two substitutions of `aes_expandEncKey` in one formula for each byte
  (`ExpandIs`), so that the key of a round is the same half of the same expansion
  (`StandardAdds`) and a round is the same (`StandardRounds`);
* the invariant `StandardIInv` puts `IInv` next to what the standard has computed: each
  block it has done and the path from the block it is at (`AnswerInv`, `RoundInv`). At
  the end both have followed a path from the same block, and `EncryptsOne` says that it
  leads to one block only.

`ListProofs` proves all safety properties of `list`, `DoesAsAsked` and the refinement
of `ItemSequences` for any number of contexts, items, blocks and lists, under the
hypothesis `Contract`: nobody removes or moves an item that another call has looked
up, and nobody sorts an empty list. `list_stale` and `list_sort_empty` show that
both halves are needed. (`ListAssumption` says that an item is not NULL, which the
functions assert.) The invariant relates four things:

* the shape: the nodes that the next pointers lead along are a sequence without
  repetitions, linked in both directions, whose ends and length are those that the
  list object has (`IsChain`, `ChainsInv`), and their items are distinct (`ItemsInv`);
* the blocks: a block is free, a list object, a node of one list or held by one call
  (`PlaceInv`), without which a released or a new node might still be in a list;
* what a call knows between its critical sections (`CallInv`): the item that it
  inserts is not in the list, the node that it looked up still is and has the item
  that it was asked for;
* what two calls for the same list have to do with each other (`PairInv`): they do not
  insert the same item, and neither has looked up what the other removes. It is what
  makes `CallInv` survive the steps of others.

`ChainIs` says that walking along the pointers, as the functions do, finds this
sequence and stops; it is shown once for each of three changes that it stays so
(`ChainGrows`, `ChainShrinks`, `ChainStays`). The four ways to link a node all come
down to "one node more, in position i" (`Grown`), the cases of a removal to "one node
less" (`Shrunk`), swapping and sorting to "the same nodes, the same items"
(`Rearranges`), and each of these is a step of `ItemSequences`. The loops of the sort
are recursive functions; `InnerLoopFacts` and `SortLoopsSort` show by induction over
their rounds, from `Induction` and `Recursion` in `CollectionLemmas`, that they sort
and lose nothing.

Model-checked only: liveness (`InterruptsComeBack`, `CallsReturn`), which is beyond
this prover, and `AnswersExample`: the S-box table against its definition, two times
seven products in the field for each of 256 bytes, which TLC computes, and the one
example that the standard prints.

## Not modelled

Assertions are a handler pointer, and the platform's byte order a constant: neither
takes a step that could interleave. Builds without assertions are not modelled (on the
RP2040 they would run unprotected if no spin lock were left to claim, which no property
here sees): a failed assertion stops the context, as the default handler does (`Crypto` is the
exception: an array of another length is left alone, as it is when the handler
returns). Parameter checks (NULL, zero) return without a change and are left out. The
contents of blocks other than list nodes and the alignment of the buffer itself are
outside the models. The demonstration programs and the unit
tests are not part of the library.

## Plan

1. (done) critical sections, their ports, `NestedLock`; heap; memory pools and their
   callers; lists and `ItemSequences`; random numbers, checksums, ciphers.
2. (done) `MemPoolProofs`: all safety properties of the pools and their callers.
3. (done) `CritSectRP2040Proofs`: exclusion and refinement when `InitFirst`.
4. (done) `ListProofs`: all properties of the lists, with the refinement.
5. (done) `Accounted` of the heap; `WordProofs`: `OneSequence` of the random numbers,
   the checksums of every message.
6. (done) `CryptoProofs`: `DecryptInverts` for every key and array, and
   `EncryptIsFips197`.
