-------------------------- MODULE MCCritSectRP2040 --------------------------
(* Two cores; the interrupt handlers are enabled on the boot core. *)
EXTENDS CritSectRP2040

CONSTANTS core0, core1

MCIsrCore == [i \in Isrs |-> core0]
=============================================================================
