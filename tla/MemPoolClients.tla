--------------------------- MODULE MemPoolClients ---------------------------
(***************************************************************************)
(* The callers of the memory pools that come with the library: the heap of *)
(* FreeRTOS (tbx_freertos.c) and the global operators new and delete       *)
(* (tbxcxx.cpp).  They share the pools with an application that calls      *)
(* tbx_mempool.c itself.                                                   *)
(*                                                                         *)
(* vTaskSuspendAll keeps other tasks from running but not the interrupt    *)
(* handlers, which go on using the pools meanwhile.                        *)
(***************************************************************************)
EXTENDS MemPool

CONSTANT Uses   \* Uses[c]: the functions that the code of context c calls

Functions == {"Create", "Allocate", "AllocateAuto", "Release", "malloc", "free", "new", "delete"}

ASSUME ClientAssumption ==
  /\ Uses \in [Contexts -> SUBSET Functions]
  /\ \A h \in Handlers : "malloc" \notin Uses[h]   \* not an API for interrupts

VARIABLE suspended   \* the task that suspended the scheduler, or NoContext

clientVars == <<vars, suspended>>

ClientInit == Init /\ suspended = NoContext

(* Tasks do not run while another one has suspended the scheduler. *)
MayRun(c) == c \in Handlers \/ suspended \in {NoContext, c}
-----------------------------------------------------------------------------
(* Mutant, which no specification uses: the scheduler is not suspended. *)
MallocUnsuspended(c) ==
  /\ holder = NoContext
  /\ suspended = NoContext
  /\ \E n \in Requests :
       \/ Served(c, n) /\ pc[c] = "idle" /\ UNCHANGED <<pc, call>>
       \/ /\ Refused(n)
          /\ Goto(c, "idle", "mallocCreate")
          /\ call' = [call EXCEPT ![c].size = n]
  /\ UNCHANGED <<holder, suspended>>

(* pvPortMalloc suspends the scheduler and allocates from the best fit. If *)
(* that works it resumes the scheduler at once.  A task is not switched    *)
(* away inside a critical section, so nobody is inside one.                *)
Malloc(c) ==
  /\ holder = NoContext
  /\ suspended = NoContext
  /\ \E n \in Requests :
       \/ Served(c, n) /\ pc[c] = "idle" /\ UNCHANGED <<pc, call, suspended>>
       \/ /\ Refused(n)
          /\ Goto(c, "idle", "mallocCreate")
          /\ call' = [call EXCEPT ![c].size = n]
          /\ suspended' = c
  /\ UNCHANGED holder

(* It extends or creates the pool and ignores the result. *)
MallocCreate(c) ==
  CreateEnter(c, "mallocCreate", call[c].size, 1, "mallocAgain", "mallocAgain")

(* It allocates again, resumes the scheduler and returns what it got. *)
MallocAgain(c) ==
  /\ holder = NoContext
  /\ Finish(c, "mallocAgain", "idle")
  /\ Served(c, call[c].size) \/ Refused(call[c].size)
  /\ suspended' = NoContext
  /\ UNCHANGED holder

(* operator new, new[]: TbxMemPoolAllocateAuto, and abort instead of NULL. *)
New(c) == AutoFind(c, "aborted")

(* vPortFree, operator delete and delete[] are TbxMemPoolRelease. *)
Free(c) == Release(c)
-----------------------------------------------------------------------------
Starts(c) ==
  \/ "Create"       \in Uses[c] /\ Create(c)
  \/ "Allocate"     \in Uses[c] /\ Allocate(c)
  \/ "AllocateAuto" \in Uses[c] /\ AutoFind(c, "idle")
  \/ "new"          \in Uses[c] /\ New(c)
  \/ Uses[c] \cap {"Release", "free", "delete"} # {} /\ Free(c)

Proceeds(c) == \/ Continue(c) /\ UNCHANGED suspended
               \/ MallocCreate(c) /\ UNCHANGED suspended
               \/ MallocAgain(c)

ClientNext ==
  \/ TakeFromHeap /\ UNCHANGED suspended
  \/ \E c \in Contexts :
       /\ MayRun(c)
       /\ \/ Starts(c) /\ UNCHANGED suspended
          \/ "malloc" \in Uses[c] /\ Malloc(c)
          \/ Proceeds(c)

(* A context inside a call goes on: the critical section and the scheduler *)
(* are only kept for a bounded time, so whoever waits for them gets them.  *)
ClientFairness == \A c \in Contexts : SF_clientVars(MayRun(c) /\ Proceeds(c))

ClientSpec == ClientInit /\ [][ClientNext]_clientVars /\ ClientFairness
-----------------------------------------------------------------------------
(* The types of the variables. *)
ClientTypeOK == TypeOK /\ suspended \in (Contexts \ Handlers) \cup {NoContext}

(* Every call returns, also when the heap runs out halfway, except for an  *)
(* operator new that ends the program because it gets no memory.           *)
CallsReturn ==
  \A c \in Contexts : (pc[c] # "idle") ~> (pc[c] \in {"idle", "aborted"})

(* When pvPortMalloc has extended a pool it gets a block, since no task    *)
(* runs in between, unless an interrupt handler took what was added.       *)
MallocKeepsExtension ==
  [][\A c \in Contexts :
       pc[c] = "mallocAgain" /\ pc'[c] = "idle" /\ call[c].ok /\ granted' = granted =>
         \E g \in FromPools : g.by = "handler" /\ header[BlockOf(g)] = call[c].size]_clientVars
=============================================================================
