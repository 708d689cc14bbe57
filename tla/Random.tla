------------------------------- MODULE Random -------------------------------
(***************************************************************************)
(* tbx_random.c: two linear feedback shift registers that all contexts     *)
(* share.  The first call seeds them, outside of any critical section;     *)
(* every 16-bit half of a number is drawn inside one.  A load and a store  *)
(* of a register are steps of their own.                                   *)
(***************************************************************************)
EXTENDS Words, Sequences, FiniteSets

CONSTANTS Contexts,
          NoContext,
          HandlerValues,  \* what the application's seed handler may return
          MaxNumbers      \* bound on the numbers that are asked for

(* 0xB4BCD35C and 0x7A5BC2E3 *)
LFSR32Polymask == {31, 29, 28, 26, 23, 21, 20, 19, 18, 15, 14, 12, 9, 8, 6, 4, 3, 2}
LFSR31Polymask == {30, 29, 28, 27, 25, 22, 20, 19, 17, 16, 15, 14, 9, 7, 6, 5, 1, 0}

(* 0xABCDE and 0x23456789 *)
DefaultSeed32 == {19, 17, 15, 13, 12, 11, 10, 7, 6, 4, 3, 2, 1}
DefaultSeed31 == {29, 25, 24, 22, 18, 16, 14, 13, 10, 9, 8, 7, 3, 0}

(* The one seed, 0xF4B785C7, whose first shift leaves the 31-bit register  *)
(* at zero.  A handler may return 32 bits and the code does not look for   *)
(* it, so it is up to the application not to return it.                    *)
StallingSeed == {b + 1 : b \in LFSR31Polymask} \cup {0}

ASSUME RandomAssumption ==
  /\ NoContext \notin Contexts
  /\ HandlerValues \subseteq (SUBSET (0 .. 31)) \ {StallingSeed}
  /\ MaxNumbers \in Nat

VARIABLES seedHandler,  \* tbxRandomSeedInitHandler is not NULL
          lfsr,         \* lfsr[32], lfsr[31]: the two registers
          seeded,       \* the static flag of TbxRandomNumberGet
          section,      \* the context inside the critical section
          call,         \* call[c]: the locals of a TbxRandomNumberGet
          seedings,     \* history: the pairs of seeds that were decided on
          numbers       \* history: the results

randomVars == <<seedHandler, lfsr, seeded, section, call, seedings, numbers>>

Registers == {32, 31}
Polymask  == [r \in Registers |-> IF r = 32 THEN LFSR32Polymask ELSE LFSR31Polymask]

(* The shifts of TbxRandomNumber16BitGet, in order. *)
Shifts == <<32, 32, 31>>

NoCall == [at |-> "idle", seeds |-> [r \in Registers |-> {}], shift |-> 0, loaded |-> {},
           shifted |-> [r \in Registers |-> {}], halves |-> <<>>]

RandomInit == /\ seedHandler = FALSE
              /\ lfsr = [r \in Registers |-> {}]
              /\ seeded = FALSE
              /\ section = NoContext
              /\ call = [c \in Contexts |-> NoCall]
              /\ seedings = <<>>
              /\ numbers = <<>>

Goes(c, from, to) ==
  /\ call[c].at = from
  /\ call' = [call EXCEPT ![c].at = to]
-----------------------------------------------------------------------------
(* Mutants; no specification uses them. *)

(* A zero seed is taken as it comes. *)
OrDefaultNever(seed, default) == seed

(* The registers are not protected while they are shifted. *)
EnterUnprotected(c) ==
  /\ call[c].at = "enter"
  /\ call' = [call EXCEPT ![c].at = "load", ![c].shift = 1]
  /\ UNCHANGED <<seedHandler, lfsr, seeded, section, seedings, numbers>>
-----------------------------------------------------------------------------
(* TbxRandomSetSeedInitHandler with a handler; NULL is refused. *)
TbxRandomSetSeedInitHandler(c) ==
  /\ call[c].at = "idle"
  /\ seedHandler' = TRUE
  /\ UNCHANGED <<lfsr, seeded, section, call, seedings, numbers>>

(* TbxRandomNumberGet: are the registers seeded? *)
NumberGet(c) ==
  /\ Len(numbers) + Cardinality({d \in Contexts : call[d].at # "idle"}) < MaxNumbers
  /\ Goes(c, "idle", IF seeded THEN "enter" ELSE "init")
  /\ UNCHANGED <<seedHandler, lfsr, seeded, section, seedings, numbers>>

OrDefault(seed, default) == IF seed = {} THEN default ELSE seed

(* TbxRandomInitLFSRs decides on the seeds; the handler is called twice. *)
InitLFSRs(c) ==
  \E answer32, answer31 \in IF seedHandler THEN HandlerValues ELSE {{}} :
    LET seeds == [r \in Registers |-> IF r = 32 THEN OrDefault(answer32, DefaultSeed32)
                                                 ELSE OrDefault(answer31, DefaultSeed31)]
    IN /\ call[c].at = "init"
       /\ call' = [call EXCEPT ![c].at = "seed32", ![c].seeds = seeds]
       /\ seedings' = Append(seedings, seeds)
       /\ UNCHANGED <<seedHandler, lfsr, seeded, section, numbers>>

(* The two assignments, and that of the flag, on the way back. *)
SeedRegister(c, r, from, to) ==
  /\ Goes(c, from, to)
  /\ lfsr' = [lfsr EXCEPT ![r] = call[c].seeds[r]]
  /\ UNCHANGED <<seedHandler, seeded, section, seedings, numbers>>

SeedLFSRs(c) == \/ SeedRegister(c, 32, "seed32", "seed31")
                \/ SeedRegister(c, 31, "seed31", "seeded")

MarkSeeded(c) ==
  /\ Goes(c, "seeded", "enter")
  /\ seeded' = TRUE
  /\ UNCHANGED <<seedHandler, lfsr, section, seedings, numbers>>
-----------------------------------------------------------------------------
(* TbxRandomNumber16BitGet *)
Enter(c) ==
  /\ call[c].at = "enter"
  /\ section = NoContext
  /\ section' = c
  /\ call' = [call EXCEPT ![c].at = "load", ![c].shift = 1]
  /\ UNCHANGED <<seedHandler, lfsr, seeded, seedings, numbers>>

(* TbxRandomShiftLFSR *)
ShiftLFSR(value, polymask) ==
  IF 0 \in value THEN BitXor(ShiftRight(value), polymask) ELSE ShiftRight(value)

LoadLFSR(c) ==
  /\ call[c].at = "load"
  /\ call' = [call EXCEPT ![c].at = "store", ![c].loaded = lfsr[Shifts[call[c].shift]]]
  /\ UNCHANGED <<seedHandler, lfsr, seeded, section, seedings, numbers>>

StoreLFSR(c) ==
  LET r == Shifts[call[c].shift]
      value == ShiftLFSR(call[c].loaded, Polymask[r])
      last == call[c].shift = Len(Shifts)
  IN /\ call[c].at = "store"
     /\ lfsr' = [lfsr EXCEPT ![r] = value]
     /\ call' = [call EXCEPT ![c].at = IF last THEN "exit" ELSE "load",
                             ![c].shift = IF last THEN 0 ELSE @ + 1,
                             ![c].shifted[r] = value]
     /\ UNCHANGED <<seedHandler, seeded, section, seedings, numbers>>

(* A half is the low 16 bits of the two registers together. *)
Half(values) == BitXor(values[32], values[31]) \cap 0 .. 15

Exit(c) ==
  /\ call[c].at = "exit"
  /\ section' = NoContext
  /\ call' = [call EXCEPT ![c].at = IF call[c].halves = <<>> THEN "enter" ELSE "return",
                          ![c].halves = Append(@, Half(call[c].shifted))]
  /\ UNCHANGED <<seedHandler, lfsr, seeded, seedings, numbers>>

Return(c) ==
  /\ call[c].at = "return"
  /\ numbers' = Append(numbers, Word32(call[c].halves[1], call[c].halves[2]))
  /\ call' = [call EXCEPT ![c] = NoCall]
  /\ UNCHANGED <<seedHandler, lfsr, seeded, section, seedings>>

NextOf(c) == \/ TbxRandomSetSeedInitHandler(c) \/ NumberGet(c) \/ InitLFSRs(c)
             \/ SeedLFSRs(c) \/ MarkSeeded(c) \/ Enter(c) \/ LoadLFSR(c)
             \/ StoreLFSR(c) \/ Exit(c) \/ Return(c)

RandomNext == \E c \in Contexts : NextOf(c)

RandomSpec == RandomInit /\ [][RandomNext]_randomVars
-----------------------------------------------------------------------------
(* Once the generator is seeded neither register is ever at zero, where a  *)
(* feedback shift register stays: TbxRandomInitLFSRs replaces zero seeds   *)
(* and the polynomials leave no other way there.  This and OneSequence are *)
(* about generators that were seeded once.  TbxRandomInitLFSRs says that   *)
(* it is "only called once the first time a random number is generated",   *)
(* but a second context may find the registers not seeded yet; what a seed *)
(* that is written during a shift leaves behind depends on how often the   *)
(* compiler lets TbxRandomShiftLFSR read the register.                     *)
SeededOnce == Len(seedings) = 1

RegistersRunning == seeded /\ SeededOnce => \A r \in Registers : lfsr[r] # {}

(* Half n of the sequence that starts with the given seeds. *)
ShiftedTimes(n, value, polymask) ==
  LET shifted[i \in 0 .. n] == IF i = 0 THEN value ELSE ShiftLFSR(shifted[i - 1], polymask)
  IN shifted[n]

HalfOfSequence(n, seeds) ==
  Half([r \in Registers |-> ShiftedTimes(IF r = 32 THEN 2 * n ELSE n, seeds[r], Polymask[r])])

HighHalf(number) == {b - 16 : b \in number \ 0 .. 15}
LowHalf(number)  == number \cap 0 .. 15

(* The halves that callers who still wait hold. *)
Held == {p \in Contexts \X {1, 2} : p[2] \in DOMAIN call[p[1]].halves}

(* How often callers, those still waiting included, were given this half. *)
TimesGiven(half) ==
  LET given == {i \in DOMAIN numbers : HighHalf(numbers[i]) = half}
      givenLow == {i \in DOMAIN numbers : LowHalf(numbers[i]) = half}
      held == {p \in Held : call[p[1]].halves[p[2]] = half}
  IN Cardinality(given) + Cardinality(givenLow) + Cardinality(held)

(* All callers together get one sequence: each half of it goes to one      *)
(* number, no shift is lost and no output is used twice, however the calls *)
(* interleave.                                                             *)
OneSequence ==
  SeededOnce =>
    LET taken == 2 * Len(numbers) + Cardinality(Held)
        outputs == [n \in 1 .. taken |-> HalfOfSequence(n, seedings[1])]
    IN \A n \in 1 .. taken :
         TimesGiven(outputs[n]) = Cardinality({i \in 1 .. taken : outputs[i] = outputs[n]})
=============================================================================
