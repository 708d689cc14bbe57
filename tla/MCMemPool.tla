------------------------------ MODULE MCMemPool -----------------------------
(* A task of a C++ application, a task that uses the heap of FreeRTOS and  *)
(* an interrupt handler that exchanges blocks with them, on a 32-bit       *)
(* target with a small heap.                                               *)
EXTENDS MemPoolClients

CONSTANTS cxxTask, rtosTask, handler

MCUses == cxxTask  :> {"new", "delete"}
       @@ rtosTask :> {"Create", "malloc", "free"}
       @@ handler  :> {"Allocate", "Release"}
=============================================================================
