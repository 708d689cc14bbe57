----------------------------- MODULE WordProofs -----------------------------
(***************************************************************************)
(* What the two services that shift registers compute.  Random: the        *)
(* registers never stop, and all callers together are given the halves of  *)
(* one sequence, each once; for any number of contexts and whatever seeds  *)
(* the application hands out, except StallingSeed.  Checksum: a checksum   *)
(* is the remainder of its message; for every message and configuration.   *)
(***************************************************************************)
EXTENDS Random, Checksum, CollectionLemmas, TLAPS

(* A value with which register r goes on for ever. *)
Running(r, value) == /\ value \in SUBSET (0 .. 31)
                     /\ value # {}
                     /\ r = 31 => value # StallingSeed

AllRunning(values) == \A r \in Registers : Running(r, values[r])

BeforeSeeds == {"idle", "init"}
Seeding == {"seed32", "seed31", "seeded"}
Drawing == {"enter", "load", "store", "exit", "return"}

(* The locals of context c: its seeds run, register 32 is seeded before    *)
(* register 31, and it draws when both are.                                *)
CallInv(c) ==
  /\ call[c].at \in BeforeSeeds \cup Seeding \cup Drawing
  /\ call[c].at \in Seeding => AllRunning(call[c].seeds)
  /\ call[c].at \in {"seed31", "seeded"} => Running(32, lfsr[32])
  /\ call[c].at \in {"seeded"} \cup Drawing => AllRunning(lfsr)
  /\ call[c].at \in {"load", "store"} => call[c].shift \in 1 .. 3
  /\ call[c].at = "store" => Running(Shifts[call[c].shift], call[c].loaded)

Inv == /\ DOMAIN lfsr = Registers
       /\ DOMAIN call = Contexts
       /\ seeded => AllRunning(lfsr)
       /\ \A c \in Contexts : CallInv(c)
-----------------------------------------------------------------------------
(* The polynomials have the top bit of their register and none above it.   *)
LEMMA Polymasks ==
  /\ LFSR32Polymask \in SUBSET (0 .. 31) /\ 31 \in LFSR32Polymask
  /\ LFSR31Polymask \in SUBSET (0 .. 30) /\ 30 \in LFSR31Polymask
BY DEF LFSR32Polymask, LFSR31Polymask

(* TbxRandomShiftLFSR takes a running value to a running value. *)
LEMMA ShiftRuns ==
  ASSUME NEW r \in Registers, NEW value, Running(r, value)
  PROVE  Running(r, ShiftLFSR(value, Polymask[r]))
<1> DEFINE shifted == ShiftRight(value)
<1>1. value \in SUBSET (0 .. 31) /\ value # {}
  BY DEF Running
<1>2. shifted \in SUBSET (0 .. 30)
  BY <1>1 DEF ShiftRight
<1>3. CASE 0 \notin value
  <2>1. ShiftLFSR(value, Polymask[r]) = shifted
    BY <1>3 DEF ShiftLFSR
  <2>2. PICK b \in value : b \in (0 .. 31) /\ b # 0
    BY <1>1, <1>3
  <2>3. shifted # {}
    BY <2>2, <1>3 DEF ShiftRight
  <2>4. 31 \in StallingSeed
    BY Polymasks DEF StallingSeed
  <2> QED BY <2>1, <2>3, <2>4, <1>2 DEF Running
<1>4. CASE 0 \in value /\ r = 32
  <2>1. ShiftLFSR(value, Polymask[r]) = BitXor(shifted, LFSR32Polymask)
    BY <1>4 DEF ShiftLFSR, Polymask, Registers
  <2>2. 31 \in BitXor(shifted, LFSR32Polymask)
    BY <1>2, Polymasks DEF BitXor
  <2>3. BitXor(shifted, LFSR32Polymask) \subseteq shifted \cup LFSR32Polymask
    BY DEF BitXor
  <2>4. shifted \in SUBSET (0 .. 31)
    BY <1>2
  <2> HIDE DEF shifted
  <2>5. BitXor(shifted, LFSR32Polymask) \in SUBSET (0 .. 31)
    BY <2>3, <2>4, Polymasks
  <2> QED BY <2>1, <2>2, <2>5, <1>4 DEF Running
<1>5. CASE 0 \in value /\ r = 31
  <2>1. ShiftLFSR(value, Polymask[r]) = BitXor(shifted, LFSR31Polymask)
    BY <1>5 DEF ShiftLFSR, Polymask, Registers
  <2>2. BitXor(shifted, LFSR31Polymask) \in SUBSET (0 .. 30)
    BY <1>2, Polymasks DEF BitXor
  <2>3. 31 \in StallingSeed
    BY Polymasks DEF StallingSeed
  <2>4. ASSUME shifted = LFSR31Polymask PROVE FALSE
    <3>1. value \subseteq StallingSeed
      <4> SUFFICES ASSUME NEW b \in value, b # 0 PROVE b \in StallingSeed
        BY DEF StallingSeed
      <4>1. b \in 1 .. 31 /\ b - 1 \in LFSR31Polymask
        BY <2>4, <1>1 DEF ShiftRight
      <4>2. b = (b - 1) + 1
        BY <4>1
      <4> QED BY <4>1, <4>2 DEF StallingSeed
    <3>2. StallingSeed \subseteq value
      <4> SUFFICES ASSUME NEW m \in LFSR31Polymask PROVE m + 1 \in value
        BY <1>5 DEF StallingSeed
      <4>1. PICK b \in value \ {0} : m = b - 1
        BY <2>4 DEF ShiftRight
      <4>2. m + 1 = b
        BY <4>1, <1>1
      <4> QED BY <4>1, <4>2
    <3> QED BY <3>1, <3>2, <1>5 DEF Running
  <2>5. BitXor(shifted, LFSR31Polymask) # {}
    BY <2>4 DEF BitXor
  <2> QED BY <2>1, <2>2, <2>3, <2>5 DEF Running
<1> QED BY <1>3, <1>4, <1>5 DEF Registers

(* Whatever TbxRandomInitLFSRs decides on runs. *)
LEMMA SeedsRun ==
  /\ Running(32, DefaultSeed32) /\ Running(31, DefaultSeed31)
  /\ \A answer \in HandlerValues \cup {{}} :
       /\ Running(32, OrDefault(answer, DefaultSeed32))
       /\ Running(31, OrDefault(answer, DefaultSeed31))
<1>1. DefaultSeed32 \in SUBSET (0 .. 31) /\ DefaultSeed32 # {}
  BY DEF DefaultSeed32
<1>2. DefaultSeed31 \in SUBSET (0 .. 31) /\ DefaultSeed31 # {} /\ 31 \notin DefaultSeed31
  BY DEF DefaultSeed31
<1>3. 31 \in StallingSeed
  BY Polymasks DEF StallingSeed
<1> QED BY <1>1, <1>2, <1>3, RandomAssumption DEF Running, OrDefault
-----------------------------------------------------------------------------
(* Nobody draws before the seeds are there. *)
LEMMA InvInit == RandomInit => Inv
BY DEF RandomInit, Inv, CallInv, NoCall, BeforeSeeds, Seeding, Drawing

(* If one context moves and no running register stops, the others keep     *)
(* their part of the invariant.                                            *)
LEMMA OthersKeep ==
  ASSUME Inv, NEW c \in Contexts, NEW d \in Contexts \ {c},
         call'[d] = call[d],
         \A r \in Registers : Running(r, lfsr[r]) => Running(r, lfsr'[r])
  PROVE  CallInv(d)'
BY DEF Inv, CallInv, AllRunning, Registers

(* The steps that leave the registers alone.  The moving context has to    *)
(* keep its own part.                                                      *)
LEMMA CallOnly ==
  ASSUME Inv, NEW c \in Contexts, UNCHANGED <<lfsr, seeded>>,
         DOMAIN call' = Contexts,
         \A d \in Contexts \ {c} : call'[d] = call[d],
         CallInv(c)'
  PROVE  Inv'
<1>1. \A d \in Contexts \ {c} : CallInv(d)'
  BY OthersKeep DEF Inv, CallInv, AllRunning
<1> QED BY <1>1 DEF Inv, AllRunning

(* TbxRandomInitLFSRs: the seeds, then the registers, the flag last. *)
LEMMA SeedingKeepsInv ==
  ASSUME Inv, NEW c \in Contexts, InitLFSRs(c) \/ SeedLFSRs(c) \/ MarkSeeded(c)
  PROVE  Inv'
<1>1. CASE InitLFSRs(c)
  <2>1. PICK answer32, answer31 \in IF seedHandler THEN HandlerValues ELSE {{}} :
          call' = [call EXCEPT ![c].at = "seed32",
                               ![c].seeds = [r \in Registers |->
                                  IF r = 32 THEN OrDefault(answer32, DefaultSeed32)
                                            ELSE OrDefault(answer31, DefaultSeed31)]]
    BY <1>1, Zenon DEF InitLFSRs
  <2>2. answer32 \in HandlerValues \cup {{}} /\ answer31 \in HandlerValues \cup {{}}
    OBVIOUS
  <2>3. AllRunning(call'[c].seeds)
    BY <2>1, <2>2, SeedsRun DEF AllRunning, Registers, Inv
  <2>4. call'[c].at = "seed32"
    BY <2>1 DEF Inv
  <2>5. CallInv(c)'
    BY <2>3, <2>4 DEF CallInv, Seeding, Drawing, BeforeSeeds
  <2> QED BY <1>1, <2>1, <2>5, CallOnly DEF InitLFSRs, Inv
<1>2. ASSUME NEW r \in Registers, NEW from, NEW to,
             SeedRegister(c, r, from, to), from \in {"seed32", "seed31"},
             r = IF from = "seed32" THEN 32 ELSE 31,
             to = IF from = "seed32" THEN "seed31" ELSE "seeded"
      PROVE  Inv'
  <2>1. Running(r, lfsr'[r]) /\ lfsr' = [lfsr EXCEPT ![r] = call[c].seeds[r]]
    BY <1>2 DEF SeedRegister, Goes, Inv, CallInv, Seeding, AllRunning
  <2>2. \A q \in Registers : Running(q, lfsr[q]) => Running(q, lfsr'[q])
    BY <2>1 DEF Inv
  <2>3. \A d \in Contexts \ {c} : CallInv(d)'
    BY <1>2, <2>2, OthersKeep DEF SeedRegister, Goes, Inv
  <2>4. CallInv(c)'
    BY <1>2, <2>1, <2>2 DEF SeedRegister, Goes, Inv, CallInv, Seeding, Drawing, BeforeSeeds,
                            AllRunning, Registers
  <2> QED BY <1>2, <2>1, <2>2, <2>3, <2>4 DEF SeedRegister, Goes, Inv, AllRunning
<1>3. CASE SeedLFSRs(c)
  BY <1>2, <1>3 DEF SeedLFSRs, Registers
<1>4. CASE MarkSeeded(c)
  <2>1. AllRunning(lfsr) /\ lfsr' = lfsr
    BY <1>4 DEF MarkSeeded, Goes, Inv, CallInv
  <2>2. \A d \in Contexts \ {c} : CallInv(d)'
    BY <1>4, <2>1, OthersKeep DEF MarkSeeded, Goes, Inv
  <2>3. CallInv(c)'
    BY <1>4, <2>1 DEF MarkSeeded, Goes, Inv, CallInv, Seeding, Drawing, BeforeSeeds, AllRunning
  <2> QED BY <1>4, <2>1, <2>2, <2>3 DEF MarkSeeded, Goes, Inv, AllRunning
<1> QED BY <1>1, <1>3, <1>4

(* TbxRandomNumber16BitGet *)
LEMMA DrawingKeepsInv ==
  ASSUME Inv, NEW c \in Contexts,
         Enter(c) \/ LoadLFSR(c) \/ StoreLFSR(c) \/ Exit(c) \/ Return(c)
  PROVE  Inv'
<1>1. CASE Enter(c)
  <2>1. CallInv(c)'
    BY <1>1 DEF Enter, Inv, CallInv, Seeding, Drawing, BeforeSeeds, AllRunning
  <2> QED BY <1>1, <2>1, CallOnly DEF Enter, Inv
<1>2. CASE LoadLFSR(c)
  <2>1. Shifts[call[c].shift] \in Registers
    BY <1>2 DEF LoadLFSR, Inv, CallInv, Shifts, Registers
  <2>2. Running(Shifts[call[c].shift], lfsr[Shifts[call[c].shift]])
    BY <1>2, <2>1 DEF LoadLFSR, Inv, CallInv, Drawing, AllRunning
  <2>3. CallInv(c)'
    BY <1>2, <2>2 DEF LoadLFSR, Inv, CallInv, Seeding, Drawing, BeforeSeeds, AllRunning
  <2> QED BY <1>2, <2>3, CallOnly DEF LoadLFSR, Inv
<1>3. CASE StoreLFSR(c)
  <2> DEFINE r == Shifts[call[c].shift]
             value == ShiftLFSR(call[c].loaded, Polymask[r])
  <2>1. r \in Registers /\ Running(r, call[c].loaded)
    BY <1>3 DEF StoreLFSR, Inv, CallInv, Shifts, Registers
  <2>2. Running(r, value)
    BY <2>1, ShiftRuns
  <2>3. lfsr' = [lfsr EXCEPT ![r] = value]
    BY <1>3 DEF StoreLFSR
  <2>4. \A q \in Registers : Running(q, lfsr[q]) => Running(q, lfsr'[q])
    BY <2>2, <2>3 DEF Inv
  <2>5. \A d \in Contexts \ {c} : CallInv(d)'
    BY <1>3, <2>4, OthersKeep DEF StoreLFSR, Inv
  <2>6. AllRunning(lfsr)'
    BY <1>3, <2>4 DEF StoreLFSR, Inv, CallInv, Drawing, AllRunning
  <2>7. call[c].shift \in 1 .. 3 /\ Len(Shifts) = 3
    BY <1>3 DEF StoreLFSR, Inv, CallInv, Shifts
  <2>8. \/ call'[c].at = "exit"
        \/ call'[c].at = "load" /\ call'[c].shift \in 1 .. 3
    BY <1>3, <2>7 DEF StoreLFSR, Inv
  <2>9. CallInv(c)'
    BY <2>6, <2>8 DEF CallInv, Seeding, Drawing, BeforeSeeds
  <2> QED BY <1>3, <2>3, <2>5, <2>6, <2>9 DEF StoreLFSR, Inv
<1>4. CASE Exit(c)
  <2>1. CallInv(c)'
    BY <1>4 DEF Exit, Inv, CallInv, Seeding, Drawing, BeforeSeeds, AllRunning
  <2> QED BY <1>4, <2>1, CallOnly DEF Exit, Inv
<1>5. CASE Return(c)
  <2>1. CallInv(c)'
    BY <1>5 DEF Return, Inv, CallInv, NoCall, Seeding, Drawing, BeforeSeeds
  <2> QED BY <1>5, <2>1, CallOnly DEF Return, Inv
<1> QED BY <1>1, <1>2, <1>3, <1>4, <1>5

(* Every step keeps the registers running. *)
LEMMA Inductive == Inv /\ [RandomNext]_randomVars => Inv'
<1> SUFFICES ASSUME Inv, [RandomNext]_randomVars PROVE Inv'
  OBVIOUS
<1>1. CASE UNCHANGED randomVars
  BY <1>1 DEF randomVars, Inv, CallInv, AllRunning
<1>2. ASSUME NEW c \in Contexts, TbxRandomSetSeedInitHandler(c) PROVE Inv'
  BY <1>2 DEF TbxRandomSetSeedInitHandler, Inv, CallInv, AllRunning
<1>3. ASSUME NEW c \in Contexts, NumberGet(c) PROVE Inv'
  <2>1. CallInv(c)'
    BY <1>3 DEF NumberGet, Goes, Inv, CallInv, Seeding, Drawing, BeforeSeeds, AllRunning
  <2> QED BY <1>3, <2>1, CallOnly DEF NumberGet, Goes, Inv
<1> QED BY <1>1, <1>2, <1>3, SeedingKeepsInv, DrawingKeepsInv DEF RandomNext, NextOf

(* So they always run. *)
LEMMA RandomInv == RandomSpec => []Inv
BY InvInit, Inductive, PTL DEF RandomSpec

(* From the moment the generator says that it is seeded, neither register  *)
(* is at zero: TbxRandomInitLFSRs and TbxRandomShiftLFSR together, however *)
(* the calls of any number of contexts interleave.  (In this model a shift *)
(* reads its register once, so that SeededOnce is not even needed.)        *)
THEOREM RegistersNeverStop == RandomSpec => []RegistersRunning
<1>1. Inv => RegistersRunning
  BY DEF Inv, AllRunning, Running, RegistersRunning
<1> QED BY <1>1, RandomInv, PTL
-----------------------------------------------------------------------------
LongWords == SUBSET (0 .. 31)
HalfWords == SUBSET (0 .. 15)

(* TbxRandomShiftLFSR gives a 32-bit word. *)
LEMMA ShiftsWords ==
  ASSUME NEW value \in LongWords, NEW polymask \in LongWords
  PROVE  ShiftLFSR(value, polymask) \in LongWords
<1>1. ShiftRight(value) \in LongWords
  BY DEF ShiftRight, LongWords
<1>2. BitXor(ShiftRight(value), polymask) \in LongWords
  BY <1>1 DEF BitXor, LongWords
<1>3. QED
  BY <1>1, <1>2 DEF ShiftLFSR

(* The function that ShiftedTimes computes with. *)
Shifting(f, n, value, polymask) ==
  /\ f \in [0 .. n -> LongWords]
  /\ \A i \in 0 .. n : f[i] = IF i = 0 THEN value ELSE ShiftLFSR(f[i - 1], polymask)

(* There is such a function. *)
LEMMA ShiftingExists ==
  ASSUME NEW n \in Nat, NEW value \in LongWords, NEW polymask \in LongWords
  PROVE  \E f : Shifting(f, n, value, polymask) /\ ShiftedTimes(n, value, polymask) = f[n]
<1> DEFINE step == [p \in (1 .. n) \X LongWords |-> ShiftLFSR(p[2], polymask)]
           f == CHOOSE f : f = [i \in 0 .. n |-> IF i = 0 THEN value
                                                 ELSE ShiftLFSR(f[i - 1], polymask)]
<1>1. \A i \in 1 .. n, w \in LongWords : step[<<i, w>>] = ShiftLFSR(w, polymask)
  OBVIOUS
<1> HIDE DEF step
<1>2. StaysIn(LongWords, 0, n, step)
  <2>1. \A i \in 0 + 1 .. n : i \in 1 .. n
    OBVIOUS
  <2>2. QED
    BY <1>1, <2>1, ShiftsWords DEF StaysIn
<1>3. PICK g \in [0 .. n -> LongWords] : Follows(g, 0, n, value, step)
  <2>1. 0 \in Int /\ n \in Int /\ 0 <= n
    OBVIOUS
  <2>2. QED
    BY <1>2, <2>1, Recursion
<1>4. \A i \in 0 .. n : g[i] = IF i = 0 THEN value ELSE ShiftLFSR(g[i - 1], polymask)
  <2>1. \A i \in 0 .. n : i # 0 => i \in 1 .. n /\ i - 1 \in 0 .. n
    OBVIOUS
  <2>2. QED
    BY <1>1, <1>3, <2>1 DEF Follows
<1>5. g = [i \in 0 .. n |-> IF i = 0 THEN value ELSE ShiftLFSR(g[i - 1], polymask)]
  BY <1>3, <1>4
<1>6. f = [i \in 0 .. n |-> IF i = 0 THEN value ELSE ShiftLFSR(f[i - 1], polymask)]
  BY <1>5
<1>7. ShiftedTimes(n, value, polymask) = f[n]
  BY DEF ShiftedTimes
<1> HIDE DEF f
<1>8. \A i \in 0 .. n : f[i] = IF i = 0 THEN value ELSE ShiftLFSR(f[i - 1], polymask)
  BY <1>6
<1>9. DOMAIN f = 0 .. n
  BY <1>6
<1> DEFINE T == {i \in 0 .. n : f[i] \in LongWords}
<1>10. 0 \in T
  BY <1>8
<1>11. ASSUME NEW i \in 0 .. n - 1, i \in T PROVE i + 1 \in T
  <2>1. i + 1 \in 0 .. n /\ i + 1 # 0 /\ (i + 1) - 1 = i
    OBVIOUS
  <2>2. f[i + 1] = ShiftLFSR(f[i], polymask)
    BY <1>8, <2>1
  <2>3. QED
    BY <1>11, <2>1, <2>2, ShiftsWords
<1> HIDE DEF T
<1>12. \A i \in 0 .. n : i \in T
  <2>1. 0 \in Int /\ n \in Int
    OBVIOUS
  <2>2. QED
    BY <1>10, <1>11, <2>1, Induction
<1>13. f \in [0 .. n -> LongWords]
  <2>1. \A i \in 0 .. n : f[i] \in LongWords
    BY <1>12 DEF T
  <2>2. f = [i \in 0 .. n |-> f[i]]
    BY <1>6
  <2>3. QED
    BY <2>1, <2>2
<1>14. Shifting(f, n, value, polymask)
  BY <1>8, <1>13 DEF Shifting
<1>15. QED
  BY <1>7, <1>14

(* One shift after another: nothing, or one TbxRandomShiftLFSR more. *)
LEMMA ShiftedFacts ==
  ASSUME NEW n \in Nat, NEW value \in LongWords, NEW polymask \in LongWords
  PROVE  /\ ShiftedTimes(n, value, polymask) \in LongWords
         /\ ShiftedTimes(0, value, polymask) = value
         /\ ShiftedTimes(n + 1, value, polymask)
              = ShiftLFSR(ShiftedTimes(n, value, polymask), polymask)
<1>1. PICK f : Shifting(f, n, value, polymask) /\ ShiftedTimes(n, value, polymask) = f[n]
  BY ShiftingExists
<1>2. PICK g : Shifting(g, n + 1, value, polymask)
               /\ ShiftedTimes(n + 1, value, polymask) = g[n + 1]
  <2>1. n + 1 \in Nat
    OBVIOUS
  <2>2. QED
    BY <2>1, ShiftingExists
<1>3. PICK h : Shifting(h, 0, value, polymask) /\ ShiftedTimes(0, value, polymask) = h[0]
  <2>1. 0 \in Nat
    OBVIOUS
  <2>2. QED
    BY <2>1, ShiftingExists
<1> DEFINE T == {i \in 0 .. n : f[i] = g[i]}
<1>4. 0 \in T
  BY <1>1, <1>2 DEF Shifting
<1>5. ASSUME NEW i \in 0 .. n - 1, i \in T PROVE i + 1 \in T
  <2>1. i + 1 \in 0 .. n /\ i + 1 \in 0 .. n + 1 /\ i + 1 # 0 /\ (i + 1) - 1 = i
    OBVIOUS
  <2>2. f[i + 1] = ShiftLFSR(f[i], polymask) /\ g[i + 1] = ShiftLFSR(g[i], polymask)
    BY <1>1, <1>2, <2>1 DEF Shifting
  <2>3. QED
    BY <1>5, <2>1, <2>2
<1> HIDE DEF T
<1>6. \A i \in 0 .. n : i \in T
  <2>1. 0 \in Int /\ n \in Int
    OBVIOUS
  <2>2. QED
    BY <1>4, <1>5, <2>1, Induction
<1>7. f[n] = g[n]
  BY <1>6 DEF T
<1>8. g[n + 1] = ShiftLFSR(g[n], polymask)
  <2>1. n + 1 \in 0 .. n + 1 /\ n + 1 # 0 /\ (n + 1) - 1 = n
    OBVIOUS
  <2>2. QED
    BY <1>2, <2>1 DEF Shifting
<1>9. f[n] \in LongWords /\ h[0] = value
  BY <1>1, <1>3 DEF Shifting
<1>10. QED
  BY <1>1, <1>2, <1>3, <1>7, <1>8, <1>9

(* A number is its two halves. *)
LEMMA HalvesOfNumber ==
  ASSUME NEW high \in HalfWords, NEW low \in HalfWords
  PROVE  /\ Word32(high, low) \in LongWords
         /\ HighHalf(Word32(high, low)) = high
         /\ LowHalf(Word32(high, low)) = low
<1> DEFINE w == Word32(high, low)
<1>1. \A b : b \in w <=> b \in low \/ \E e \in high : b = e + 16
  BY DEF Word32
<1>2. \A e \in high : e \in 0 .. 15 /\ e + 16 \in 16 .. 31 /\ (e + 16) - 16 = e /\ e + 16 \notin 0 .. 15
  BY DEF HalfWords
<1>3. \A b \in low : b \in 0 .. 15
  BY DEF HalfWords
<1> HIDE DEF w
<1>4. \A b \in 0 .. 15 : b \in 0 .. 31
  OBVIOUS
<1>5. \A b \in 16 .. 31 : b \in 0 .. 31
  OBVIOUS
<1>6. w \in LongWords
  BY <1>1, <1>2, <1>3, <1>4, <1>5 DEF LongWords
<1>7. \A b : b \in w \ 0 .. 15 <=> \E e \in high : b = e + 16
  BY <1>1, <1>2, <1>3
<1>8. HighHalf(w) = high
  <2>1. HighHalf(w) = {b - 16 : b \in w \ 0 .. 15}
    BY DEF HighHalf
  <2>2. \A x \in high : x \in HighHalf(w)
    <3>1. \A x \in high : x + 16 \in w \ 0 .. 15
      BY <1>7
    <3>2. QED
      BY <3>1, <2>1, <1>2
  <2>3. \A x \in HighHalf(w) : x \in high
    <3>1. ASSUME NEW b \in w \ 0 .. 15 PROVE b - 16 \in high
      <4>1. PICK e \in high : b = e + 16
        BY <1>7
      <4>2. QED
        BY <4>1, <1>2
    <3>2. QED
      BY <3>1, <2>1
  <2>4. QED
    BY <2>2, <2>3
<1>9. LowHalf(w) = low
  <2>1. \A b : b \in w /\ b \in 0 .. 15 <=> b \in low
    BY <1>1, <1>2, <1>3
  <2>2. QED
    BY <2>1 DEF LowHalf
<1>10. QED
  BY <1>6, <1>8, <1>9 DEF w

(* One element more, if it is one that counts. *)
LEMMA OneMore ==
  ASSUME NEW S, IsFiniteSet(S), NEW e, e \notin S, NEW T, NEW a, NEW b,
         T = IF a = b THEN S \cup {e} ELSE S
  PROVE  /\ IsFiniteSet(T)
         /\ Cardinality(T) = Cardinality(S) + IF a = b THEN 1 ELSE 0
<1>1. Cardinality(S) \in Nat
  BY FS_CardinalityType
<1>2. CASE a = b
  BY <1>2, FS_AddElement
<1>3. CASE a # b
  BY <1>1, <1>3
<1>4. QED
  BY <1>2, <1>3
-----------------------------------------------------------------------------
(* The types of the state. *)
Calls == [at : BeforeSeeds \cup Seeding \cup Drawing, seeds : [Registers -> LongWords],
          shift : 0 .. 3, loaded : LongWords, shifted : [Registers -> LongWords],
          halves : Seq(HalfWords)]

Types == /\ lfsr \in [Registers -> LongWords]
         /\ section \in Contexts \cup {NoContext}
         /\ call \in [Contexts -> Calls]
         /\ seedings \in Seq([Registers -> LongWords])
         /\ numbers \in Seq(LongWords)

Inside == {"load", "store", "exit"}

(* Where a call is: inside the section or not, and with how many halves.   *)
Place(c) ==
  /\ call[c].at \in Inside <=> section = c
  /\ call[c].at \in BeforeSeeds \cup Seeding => call[c].halves = <<>>
  /\ call[c].at \in {"enter"} \cup Inside => Len(call[c].halves) < 2
  /\ call[c].at = "return" => Len(call[c].halves) = 2

Places == \A c \in Contexts : Place(c)

(* A context that has not called. *)
LEMMA NoCallType == NoCall \in Calls
<1>1. {} \in LongWords /\ [r \in Registers |-> {}] \in [Registers -> LongWords]
  BY DEF LongWords
<1>2. QED
  BY <1>1 DEF NoCall, Calls, BeforeSeeds

(* The types and the places hold initially. *)
LEMMA TypesInitially == RandomInit => Types /\ Places
<1> SUFFICES ASSUME RandomInit PROVE Types /\ Places
  OBVIOUS
<1>1. {} \in LongWords /\ [r \in Registers |-> {}] \in [Registers -> LongWords]
  BY DEF LongWords
<1>2. Types
  BY <1>1, NoCallType DEF RandomInit, Types
<1>3. Places
  BY RandomAssumption DEF RandomInit, Places, Place, NoCall, BeforeSeeds, Inside
<1>4. QED
  BY <1>2, <1>3

(* The polynomials are words. *)
LEMMA PolymaskType == Polymask \in [Registers -> LongWords]
<1>1. LFSR32Polymask \in LongWords /\ LFSR31Polymask \in LongWords
  BY Polymasks DEF LongWords
<1>2. QED
  BY <1>1 DEF Polymask

(* What a handler answers, or the default for it, seeds a register. *)
LEMMA SeedTypes == \A answer \in HandlerValues \cup {{}} :
                     /\ OrDefault(answer, DefaultSeed32) \in LongWords
                     /\ OrDefault(answer, DefaultSeed31) \in LongWords
BY SeedsRun DEF Running, LongWords

(* A half that is drawn has 16 bits. *)
LEMMA HalfType ==
  ASSUME NEW values \in [Registers -> LongWords] PROVE Half(values) \in HalfWords
BY DEF Half, HalfWords

(* TbxRandomInitLFSRs decides on two words. *)
DecidedOn(c, seeds) ==
  /\ call[c].at = "init"
  /\ call' = [call EXCEPT ![c].at = "seed32", ![c].seeds = seeds]
  /\ seedings' = Append(seedings, seeds)
  /\ UNCHANGED <<seedHandler, lfsr, seeded, section, numbers>>

(* The seeds that are decided on are words. *)
LEMMA SeedsDecided ==
  ASSUME NEW c \in Contexts, InitLFSRs(c)
  PROVE  \E seeds \in [Registers -> LongWords] : DecidedOn(c, seeds)
<1> DEFINE Of(answer32, answer31) ==
             [r \in Registers |-> IF r = 32 THEN OrDefault(answer32, DefaultSeed32)
                                           ELSE OrDefault(answer31, DefaultSeed31)]
<1>1. PICK answer32, answer31 \in IF seedHandler THEN HandlerValues ELSE {{}} :
        DecidedOn(c, Of(answer32, answer31))
  BY Zenon DEF InitLFSRs, DecidedOn
<1>2. answer32 \in HandlerValues \cup {{}} /\ answer31 \in HandlerValues \cup {{}}
  OBVIOUS
<1>3. Of(answer32, answer31) \in [Registers -> LongWords]
  BY <1>2, SeedTypes
<1>4. QED
  BY <1>1, <1>3, Zenon

(* Every step keeps the types. *)
LEMMA TypesStep == Types /\ Places /\ Inv /\ [RandomNext]_randomVars => Types'
<1> SUFFICES ASSUME Types, Places, Inv, [RandomNext]_randomVars PROVE Types'
  OBVIOUS
<1>1. CASE UNCHANGED randomVars
  BY <1>1 DEF randomVars, Types
<1>2. ASSUME NEW c \in Contexts, TbxRandomSetSeedInitHandler(c) PROVE Types'
  BY <1>2 DEF TbxRandomSetSeedInitHandler, Types
<1>3. ASSUME NEW c \in Contexts, NumberGet(c) PROVE Types'
  <2>1. call' \in [Contexts -> Calls]
    BY <1>3 DEF NumberGet, Goes, Types, Calls, BeforeSeeds, Drawing
  <2>2. QED
    BY <1>3, <2>1 DEF NumberGet, Types
<1>4. ASSUME NEW c \in Contexts, InitLFSRs(c) PROVE Types'
  <2>1. PICK seeds \in [Registers -> LongWords] : DecidedOn(c, seeds)
    BY <1>4, SeedsDecided
  <2>2. call' \in [Contexts -> Calls]
    BY <2>1 DEF DecidedOn, Types, Calls, Seeding
  <2>3. seedings' \in Seq([Registers -> LongWords])
    BY <2>1 DEF DecidedOn, Types
  <2>4. QED
    BY <2>1, <2>2, <2>3 DEF DecidedOn, Types
<1>5. ASSUME NEW c \in Contexts, NEW r \in Registers, NEW from, NEW to,
             SeedRegister(c, r, from, to), to \in Seeding
      PROVE  Types'
  <2>1. call' \in [Contexts -> Calls]
    BY <1>5 DEF SeedRegister, Goes, Types, Calls
  <2>2. lfsr' \in [Registers -> LongWords]
    BY <1>5 DEF SeedRegister, Types, Calls
  <2>3. QED
    BY <1>5, <2>1, <2>2 DEF SeedRegister, Types
<1>6. ASSUME NEW c \in Contexts, SeedLFSRs(c) PROVE Types'
  BY <1>5, <1>6 DEF SeedLFSRs, Registers, Seeding
<1>7. ASSUME NEW c \in Contexts, MarkSeeded(c) PROVE Types'
  <2>1. call' \in [Contexts -> Calls]
    BY <1>7 DEF MarkSeeded, Goes, Types, Calls, Drawing
  <2>2. QED
    BY <1>7, <2>1 DEF MarkSeeded, Types
<1>8. ASSUME NEW c \in Contexts, Enter(c) PROVE Types'
  <2>1. call' \in [Contexts -> Calls]
    <3>1. 1 \in 0 .. 3 /\ "load" \in Drawing
      BY DEF Drawing
    <3>2. QED
      BY <1>8, <3>1 DEF Enter, Types, Calls
  <2>2. QED
    BY <1>8, <2>1 DEF Enter, Types
<1>9. ASSUME NEW c \in Contexts, LoadLFSR(c) PROVE Types'
  <2>1. Shifts[call[c].shift] \in Registers
    BY <1>9 DEF LoadLFSR, Inv, CallInv, Shifts, Registers
  <2>2. lfsr[Shifts[call[c].shift]] \in LongWords
    BY <2>1 DEF Types
  <2>3. call' \in [Contexts -> Calls]
    BY <1>9, <2>2 DEF LoadLFSR, Types, Calls, Drawing
  <2>4. QED
    BY <1>9, <2>3 DEF LoadLFSR, Types
<1>10. ASSUME NEW c \in Contexts, StoreLFSR(c) PROVE Types'
  <2> DEFINE r == Shifts[call[c].shift]
             value == ShiftLFSR(call[c].loaded, Polymask[r])
             last == call[c].shift = Len(Shifts)
  <2>1. r \in Registers /\ call[c].shift \in 1 .. 3 /\ Len(Shifts) = 3
    BY <1>10 DEF StoreLFSR, Inv, CallInv, Shifts, Registers
  <2>2. value \in LongWords
    BY <2>1, PolymaskType, ShiftsWords DEF Types, Calls
  <2>3. lfsr' = [lfsr EXCEPT ![r] = value]
        /\ call' = [call EXCEPT ![c].at = IF last THEN "exit" ELSE "load",
                                ![c].shift = IF last THEN 0 ELSE @ + 1,
                                ![c].shifted[r] = value]
    BY <1>10 DEF StoreLFSR
  <2>4. (IF last THEN 0 ELSE call[c].shift + 1) \in 0 .. 3
    BY <2>1
  <2> HIDE DEF r, value, last
  <2>5. call'[c] \in Calls
    <3>1. /\ call'[c] = [call[c] EXCEPT !.at = IF last THEN "exit" ELSE "load",
                                        !.shift = IF last THEN 0 ELSE @ + 1,
                                        !.shifted[r] = value]
          /\ call[c] \in Calls
      BY <2>3 DEF Types
    <3>2. [call[c].shifted EXCEPT ![r] = value] \in [Registers -> LongWords]
      BY <2>1, <2>2, <3>1 DEF Calls
    <3>3. (IF last THEN "exit" ELSE "load") \in BeforeSeeds \cup Seeding \cup Drawing
      BY DEF Drawing
    <3>4. QED
      BY <2>4, <3>1, <3>2, <3>3 DEF Calls
  <2>6. call' \in [Contexts -> Calls]
    BY <2>3, <2>5 DEF Types
  <2>7. lfsr' \in [Registers -> LongWords]
    BY <2>1, <2>2, <2>3 DEF Types
  <2>8. QED
    BY <1>10, <2>6, <2>7 DEF StoreLFSR, Types
<1>11. ASSUME NEW c \in Contexts, Exit(c) PROVE Types'
  <2>1. Half(call[c].shifted) \in HalfWords
    BY HalfType DEF Types, Calls
  <2>2. Append(call[c].halves, Half(call[c].shifted)) \in Seq(HalfWords)
    BY <2>1 DEF Types, Calls
  <2>3. call' \in [Contexts -> Calls]
    BY <1>11, <2>2 DEF Exit, Types, Calls, Drawing
  <2>4. QED
    BY <1>11, <2>3 DEF Exit, Types
<1>12. ASSUME NEW c \in Contexts, Return(c) PROVE Types'
  <2>1. /\ call[c].halves \in Seq(HalfWords) /\ Len(call[c].halves) = 2
        /\ numbers' = Append(numbers, Word32(call[c].halves[1], call[c].halves[2]))
        /\ call' = [call EXCEPT ![c] = NoCall]
    BY <1>12 DEF Return, Types, Calls, Places, Place
  <2>2. call[c].halves[1] \in HalfWords /\ call[c].halves[2] \in HalfWords
    BY <2>1
  <2>3. Word32(call[c].halves[1], call[c].halves[2]) \in LongWords
    BY <2>2, HalvesOfNumber
  <2>4. numbers' \in Seq(LongWords)
    BY <2>1, <2>3 DEF Types
  <2>5. call' \in [Contexts -> Calls]
    BY <2>1, NoCallType DEF Types
  <2>6. QED
    BY <1>12, <2>4, <2>5 DEF Return, Types
<1> QED BY <1>1, <1>2, <1>3, <1>4, <1>6, <1>7, <1>8, <1>9, <1>10, <1>11, <1>12 DEF RandomNext, NextOf
-----------------------------------------------------------------------------
(* If one context moves and the section is not taken from, or given to,    *)
(* another, the others keep their places.                                  *)
LEMMA OthersStay ==
  ASSUME Places, NEW c \in Contexts,
         \A d \in Contexts \ {c} : call'[d] = call[d],
         \A d \in Contexts \ {c} : section' = d <=> section = d,
         Place(c)'
  PROVE  Places'
BY DEF Places, Place

(* Every step keeps the places. *)
LEMMA PlacesStep == Types /\ Places /\ [RandomNext]_randomVars => Places'
<1> SUFFICES ASSUME Types, Places, [RandomNext]_randomVars PROVE Places'
  OBVIOUS
<1> USE DEF Types
<1>1. CASE UNCHANGED randomVars
  BY <1>1 DEF randomVars, Places, Place
<1>2. ASSUME NEW c \in Contexts, TbxRandomSetSeedInitHandler(c) PROVE Places'
  BY <1>2 DEF TbxRandomSetSeedInitHandler, Places, Place
<1>3. ASSUME NEW c \in Contexts, NEW from, NEW to, Goes(c, from, to), section' = section,
             from \in BeforeSeeds \cup Seeding, to \in BeforeSeeds \cup Seeding \cup {"enter"}
      PROVE  Places'
  <2>1. call' = [call EXCEPT ![c].at = to] /\ call[c].at = from
    BY <1>3 DEF Goes
  <2>2. /\ call'[c].at = to /\ call'[c].halves = call[c].halves
        /\ \A d \in Contexts \ {c} : call'[d] = call[d]
    BY <2>1 DEF Calls
  <2>3. Place(c)'
    <3>1. call[c].halves = <<>> /\ section # c
      BY <1>3, <2>1 DEF Places, Place, BeforeSeeds, Seeding, Inside
    <3>2. Len(<<>>) = 0
      OBVIOUS
    <3>3. QED
      BY <1>3, <2>2, <3>1, <3>2 DEF Place, BeforeSeeds, Seeding, Inside
  <2>4. QED
    BY <1>3, <2>2, <2>3, OthersStay
<1>4. ASSUME NEW c \in Contexts, NumberGet(c) PROVE Places'
  <2>1. Goes(c, "idle", IF seeded THEN "enter" ELSE "init") /\ section' = section
    BY <1>4 DEF NumberGet
  <2>2. QED
    BY <1>3, <2>1 DEF BeforeSeeds
<1>5. ASSUME NEW c \in Contexts, InitLFSRs(c) PROVE Places'
  <2>1. /\ call'[c].at = "seed32" /\ call'[c].halves = call[c].halves /\ call[c].at = "init"
        /\ \A d \in Contexts \ {c} : call'[d] = call[d]
        /\ section' = section
    BY <1>5 DEF InitLFSRs, Calls
  <2>2. Place(c)'
    BY <2>1 DEF Places, Place, BeforeSeeds, Seeding, Inside
  <2>3. QED
    BY <2>1, <2>2, OthersStay
<1>6. ASSUME NEW c \in Contexts, SeedLFSRs(c) PROVE Places'
  BY <1>3, <1>6 DEF SeedLFSRs, SeedRegister, Seeding
<1>7. ASSUME NEW c \in Contexts, MarkSeeded(c) PROVE Places'
  BY <1>3, <1>7 DEF MarkSeeded, Seeding
<1>8. ASSUME NEW c \in Contexts, Enter(c) PROVE Places'
  <2>1. /\ call'[c].at = "load" /\ call'[c].halves = call[c].halves /\ call[c].at = "enter"
        /\ \A d \in Contexts \ {c} : call'[d] = call[d]
        /\ section' = c /\ section = NoContext
    BY <1>8 DEF Enter, Calls
  <2>2. Place(c)'
    BY <2>1 DEF Places, Place, BeforeSeeds, Seeding, Inside
  <2>3. QED
    BY <2>1, <2>2, OthersStay, RandomAssumption
<1>9. ASSUME NEW c \in Contexts, LoadLFSR(c) \/ StoreLFSR(c) PROVE Places'
  <2>1. /\ call'[c].at \in Inside /\ call'[c].halves = call[c].halves /\ call[c].at \in Inside
        /\ \A d \in Contexts \ {c} : call'[d] = call[d]
        /\ section' = section
    BY <1>9 DEF LoadLFSR, StoreLFSR, Calls, Inside
  <2>2. Place(c)'
    BY <2>1 DEF Places, Place, BeforeSeeds, Seeding, Inside
  <2>3. QED
    BY <2>1, <2>2, OthersStay
<1>10. ASSUME NEW c \in Contexts, Exit(c) PROVE Places'
  <2> DEFINE half == Half(call[c].shifted)
  <2>1. /\ call'[c].at = IF call[c].halves = <<>> THEN "enter" ELSE "return"
        /\ call'[c].halves = Append(call[c].halves, half) /\ call[c].at = "exit"
        /\ \A d \in Contexts \ {c} : call'[d] = call[d]
        /\ section' = NoContext
    BY <1>10 DEF Exit, Calls
  <2>2. section = c /\ Len(call[c].halves) < 2 /\ call[c].halves \in Seq(HalfWords)
    BY <2>1 DEF Places, Place, Inside, Calls
  <2>3. half \in HalfWords
    BY HalfType DEF Calls
  <2> HIDE DEF half
  <2>4. Len(call'[c].halves) = IF call[c].halves = <<>> THEN 1 ELSE 2
    BY <2>1, <2>2, <2>3
  <2>5. Place(c)'
    BY <2>1, <2>4, RandomAssumption DEF Place, BeforeSeeds, Seeding, Inside
  <2>6. QED
    BY <2>1, <2>2, <2>5, OthersStay, RandomAssumption
<1>11. ASSUME NEW c \in Contexts, Return(c) PROVE Places'
  <2>1. /\ call'[c] = NoCall /\ call[c].at = "return" /\ section' = section
        /\ \A d \in Contexts \ {c} : call'[d] = call[d]
    BY <1>11 DEF Return
  <2>2. Place(c)'
    BY <2>1 DEF Places, Place, NoCall, BeforeSeeds, Inside
  <2>3. QED
    BY <2>1, <2>2, OthersStay
<1> QED BY <1>1, <1>2, <1>4, <1>5, <1>6, <1>7, <1>8, <1>9, <1>10, <1>11 DEF RandomNext, NextOf
-----------------------------------------------------------------------------
(* The parts of TimesGiven. *)
HighOf(half) == {i \in DOMAIN numbers : HighHalf(numbers[i]) = half}
LowOf(half)  == {i \in DOMAIN numbers : LowHalf(numbers[i]) = half}
HeldOf(half) == {p \in Held : call[p[1]].halves[p[2]] = half}

(* A half is given as often as its three parts say. *)
LEMMA TimesGivenParts ==
  ASSUME NEW half
  PROVE  TimesGiven(half) = Cardinality(HighOf(half)) + Cardinality(LowOf(half)) + Cardinality(HeldOf(half))
BY DEF TimesGiven, HighOf, LowOf, HeldOf

(* Halves that were taken out of the registers. *)
Taken == 2 * Len(numbers) + Cardinality(Held)

(* The parts are finite. *)
LEMMA PartsFinite ==
  ASSUME Types, IsFiniteSet(Held), NEW half
  PROVE  /\ IsFiniteSet(HighOf(half)) /\ Cardinality(HighOf(half)) \in Nat
         /\ IsFiniteSet(LowOf(half)) /\ Cardinality(LowOf(half)) \in Nat
         /\ IsFiniteSet(HeldOf(half)) /\ Cardinality(HeldOf(half)) \in Nat
         /\ Len(numbers) \in Nat /\ Cardinality(Held) \in Nat /\ Taken \in Nat
<1>1. DOMAIN numbers = 1 .. Len(numbers) /\ Len(numbers) \in Nat
  BY DEF Types
<1>2. IsFiniteSet(DOMAIN numbers)
  <2>1. 1 \in Int /\ Len(numbers) \in Int
    BY <1>1
  <2>2. QED
    BY <1>1, <2>1, FS_Interval
<1>3. /\ HighOf(half) \subseteq DOMAIN numbers /\ LowOf(half) \subseteq DOMAIN numbers
      /\ HeldOf(half) \subseteq Held
  BY DEF HighOf, LowOf, HeldOf
<1>4. IsFiniteSet(HighOf(half)) /\ IsFiniteSet(LowOf(half)) /\ IsFiniteSet(HeldOf(half))
  BY <1>2, <1>3, FS_Subset
<1>5. Cardinality(Held) \in Nat
  BY FS_CardinalityType
<1>6. Taken \in Nat
  BY <1>1, <1>5 DEF Taken
<1>7. QED
  BY <1>1, <1>4, <1>5, <1>6, FS_CardinalityType

(* The steps that hand out nothing. *)
LEMMA HalvesStay ==
  ASSUME numbers' = numbers, \A d \in Contexts : call'[d].halves = call[d].halves
  PROVE  Held' = Held /\ Taken' = Taken /\ \A half : TimesGiven(half)' = TimesGiven(half)
<1>1. Held' = Held
  BY DEF Held
<1>2. Taken' = Taken
  BY <1>1 DEF Taken
<1>3. ASSUME NEW half PROVE TimesGiven(half)' = TimesGiven(half)
  <2>1. HighOf(half)' = HighOf(half) /\ LowOf(half)' = LowOf(half)
    BY DEF HighOf, LowOf
  <2>2. HeldOf(half)' = HeldOf(half)
    <3>1. \A p \in Held : p[1] \in Contexts
      BY DEF Held
    <3>2. QED
      BY <1>1, <3>1 DEF HeldOf
  <2>3. TimesGiven(half)' = Cardinality(HighOf(half)') + Cardinality(LowOf(half)') + Cardinality(HeldOf(half)')
    BY DEF TimesGiven, HighOf, LowOf, HeldOf
  <2>4. QED
    BY <2>1, <2>2, <2>3, TimesGivenParts
<1>4. QED
  BY <1>1, <1>2, <1>3

(* TbxRandomNumber16BitGet gives its caller one half. *)
LEMMA ExitGives ==
  ASSUME Types, Places, IsFiniteSet(Held), NEW c \in Contexts, Exit(c)
  PROVE  /\ IsFiniteSet(Held') /\ Taken' = Taken + 1
         /\ \A half : TimesGiven(half)' = TimesGiven(half)
                                          + IF Half(call[c].shifted) = half THEN 1 ELSE 0
<1> DEFINE drawn == Half(call[c].shifted)
           old == call[c].halves
           new == call'[c].halves
           p == <<c, Len(old) + 1>>
<1>1. /\ new = Append(old, drawn) /\ old \in Seq(HalfWords) /\ numbers' = numbers
      /\ \A d \in Contexts \ {c} : call'[d] = call[d]
  BY DEF Exit, Types, Calls
<1>2. Len(old) \in {0, 1}
  <2>1. Len(old) < 2
    BY DEF Exit, Places, Place, Inside
  <2>2. Len(old) \in Nat
    BY <1>1
  <2>3. \A n \in Nat : n < 2 => n \in {0, 1}
    OBVIOUS
  <2>4. QED
    BY <2>1, <2>2, <2>3
<1>3. drawn \in HalfWords
  BY HalfType DEF Types, Calls
<1> HIDE DEF drawn, old, new
<1>4. /\ DOMAIN old = 1 .. Len(old) /\ DOMAIN new = 1 .. Len(old) + 1
      /\ new[Len(old) + 1] = drawn /\ \A k \in 1 .. Len(old) : new[k] = old[k]
  BY <1>1, <1>3
<1>5. p \notin Held /\ Held' = Held \cup {p}
  <2>1. \A d \in Contexts, k \in {1, 2} :
          /\ <<d, k>> \in Held <=> k \in DOMAIN call[d].halves
          /\ <<d, k>> \in Held' <=> k \in DOMAIN call'[d].halves
    BY DEF Held
  <2>2. Held \subseteq Contexts \X {1, 2} /\ Held' \subseteq Contexts \X {1, 2}
    BY DEF Held
  <2>3. p \in Contexts \X {1, 2} /\ Len(old) + 1 \in {1, 2}
    <3>1. \A n \in {0, 1} : n + 1 \in {1, 2}
      OBVIOUS
    <3>2. QED
      BY <1>2, <3>1
  <2>4. \A k \in {1, 2} : k \in DOMAIN new <=> k \in DOMAIN old \/ k = Len(old) + 1
    BY <1>2, <1>4
  <2>5. Len(old) + 1 \notin DOMAIN old
    BY <1>2, <1>4
  <2>6. \A d \in Contexts, k \in {1, 2} : <<d, k>> \in Held' <=> <<d, k>> \in Held \cup {p}
    <3> SUFFICES ASSUME NEW d \in Contexts, NEW k \in {1, 2}
                 PROVE  <<d, k>> \in Held' <=> <<d, k>> \in Held \cup {p}
      OBVIOUS
    <3>1. CASE d = c
      BY <2>1, <2>4, <3>1 DEF new, old
    <3>2. CASE d # c
      BY <1>1, <2>1, <3>2
    <3>3. QED
      BY <3>1, <3>2
  <2>7. p \notin Held
    BY <2>1, <2>3, <2>5 DEF old
  <2>8. \A q \in Contexts \X {1, 2} : q \in Held' <=> q \in Held \cup {p}
    <3> SUFFICES ASSUME NEW q \in Contexts \X {1, 2} PROVE q \in Held' <=> q \in Held \cup {p}
      OBVIOUS
    <3>1. PICK d \in Contexts, k \in {1, 2} : q = <<d, k>>
      OBVIOUS
    <3>2. QED
      BY <2>6, <3>1
  <2> HIDE DEF p
  <2>9. Held' = Held \cup {p}
    BY <2>2, <2>3, <2>8
  <2>10. QED
    BY <2>7, <2>9
<1>6. p[1] = c /\ p[2] = Len(old) + 1
  OBVIOUS
<1> HIDE DEF p
<1>7. IsFiniteSet(Held') /\ Cardinality(Held') = Cardinality(Held) + 1
  BY <1>5, FS_AddElement
<1>8. Taken' = Taken + 1
  <2>1. Taken' = 2 * Len(numbers') + Cardinality(Held')
    BY DEF Taken
  <2>2. Len(numbers) \in Nat /\ Cardinality(Held) \in Nat
    BY PartsFinite
  <2>3. QED
    BY <1>1, <1>7, <2>1, <2>2 DEF Taken
<1>9. ASSUME NEW half
      PROVE  TimesGiven(half)' = TimesGiven(half) + IF drawn = half THEN 1 ELSE 0
  <2>1. HighOf(half)' = HighOf(half) /\ LowOf(half)' = LowOf(half)
    BY <1>1 DEF HighOf, LowOf
  <2>2. \A q \in Held : call'[q[1]].halves[q[2]] = call[q[1]].halves[q[2]]
    <3> SUFFICES ASSUME NEW q \in Held PROVE call'[q[1]].halves[q[2]] = call[q[1]].halves[q[2]]
      OBVIOUS
    <3>1. q[1] \in Contexts /\ q[2] \in DOMAIN call[q[1]].halves
      BY DEF Held
    <3>2. CASE q[1] = c
      BY <1>4, <3>1, <3>2 DEF new, old
    <3>3. CASE q[1] # c
      BY <1>1, <3>1, <3>3
    <3>4. QED
      BY <3>2, <3>3
  <2>3. call'[p[1]].halves[p[2]] = drawn
    BY <1>4, <1>6 DEF new
  <2>4. HeldOf(half)' = IF drawn = half THEN HeldOf(half) \cup {p} ELSE HeldOf(half)
    BY <1>5, <2>2, <2>3 DEF HeldOf
  <2>5. p \notin HeldOf(half)
    BY <1>5 DEF HeldOf
  <2>6. IsFiniteSet(HeldOf(half))
    BY PartsFinite
  <2>7. Cardinality(HeldOf(half)') = Cardinality(HeldOf(half)) + IF drawn = half THEN 1 ELSE 0
    BY <2>4, <2>5, <2>6, OneMore
  <2>8. TimesGiven(half)' = Cardinality(HighOf(half)') + Cardinality(LowOf(half)') + Cardinality(HeldOf(half)')
    BY DEF TimesGiven, HighOf, LowOf, HeldOf
  <2>9. TimesGiven(half) = Cardinality(HighOf(half)) + Cardinality(LowOf(half)) + Cardinality(HeldOf(half))
    BY TimesGivenParts
  <2>10. /\ Cardinality(HighOf(half)) \in Nat /\ Cardinality(LowOf(half)) \in Nat
         /\ Cardinality(HeldOf(half)) \in Nat
    BY PartsFinite
  <2>11. QED
    BY <2>1, <2>7, <2>8, <2>9, <2>10
<1>10. QED
  BY <1>7, <1>8, <1>9 DEF drawn

(* TbxRandomNumberGet returns with the two halves that it holds. *)
LEMMA ReturnGives ==
  ASSUME Types, Places, IsFiniteSet(Held), NEW c \in Contexts, Return(c)
  PROVE  /\ IsFiniteSet(Held') /\ Taken' = Taken
         /\ \A half : TimesGiven(half)' = TimesGiven(half)
<1> DEFINE old == call[c].halves
           number == Word32(old[1], old[2])
           first == <<c, 1>>
           second == <<c, 2>>
           m == Len(numbers) + 1
<1>1. /\ old \in Seq(HalfWords) /\ Len(old) = 2 /\ call'[c].halves = <<>>
      /\ \A d \in Contexts \ {c} : call'[d] = call[d]
      /\ numbers' = Append(numbers, number)
  BY DEF Return, Types, Calls, Places, Place, NoCall
<1>2. old[1] \in HalfWords /\ old[2] \in HalfWords /\ DOMAIN old = {1, 2}
  BY <1>1
<1>3. number \in LongWords /\ HighHalf(number) = old[1] /\ LowHalf(number) = old[2]
  BY <1>2, HalvesOfNumber
<1> HIDE DEF number
<1>4. /\ DOMAIN numbers = 1 .. Len(numbers) /\ Len(numbers) \in Nat
      /\ DOMAIN numbers' = DOMAIN numbers \cup {m} /\ m \notin DOMAIN numbers
      /\ numbers'[m] = number /\ \A i \in DOMAIN numbers : numbers'[i] = numbers[i]
      /\ Len(numbers') = Len(numbers) + 1
  BY <1>1, <1>3 DEF Types
<1> HIDE DEF m
<1>5. /\ Held' = (Held \ {first}) \ {second} /\ first \in Held /\ second \in Held /\ first # second
      /\ first[1] = c /\ first[2] = 1 /\ second[1] = c /\ second[2] = 2
  <2>1. \A d \in Contexts, k \in {1, 2} :
          /\ <<d, k>> \in Held <=> k \in DOMAIN call[d].halves
          /\ <<d, k>> \in Held' <=> k \in DOMAIN call'[d].halves
    BY DEF Held
  <2>2. Held \subseteq Contexts \X {1, 2} /\ Held' \subseteq Contexts \X {1, 2}
    BY DEF Held
  <2>3. DOMAIN call'[c].halves = {}
    BY <1>1
  <2>4. \A d \in Contexts, k \in {1, 2} :
          <<d, k>> \in Held' <=> <<d, k>> \in (Held \ {first}) \ {second}
    BY <1>1, <2>1, <2>3
  <2>5. \A q \in Contexts \X {1, 2} : q \in Held' <=> q \in (Held \ {first}) \ {second}
    <3> SUFFICES ASSUME NEW q \in Contexts \X {1, 2}
                 PROVE  q \in Held' <=> q \in (Held \ {first}) \ {second}
      OBVIOUS
    <3>1. PICK d \in Contexts, k \in {1, 2} : q = <<d, k>>
      OBVIOUS
    <3>2. QED
      BY <2>4, <3>1
  <2>6. first \in Held /\ second \in Held
    BY <1>2, <2>1
  <2>7. first # second /\ first[1] = c /\ first[2] = 1 /\ second[1] = c /\ second[2] = 2
    OBVIOUS
  <2> HIDE DEF first, second
  <2>8. Held' = (Held \ {first}) \ {second}
    BY <2>2, <2>5
  <2>9. QED
    BY <2>6, <2>7, <2>8
<1> HIDE DEF first, second
<1>6. IsFiniteSet(Held') /\ Cardinality(Held') = Cardinality(Held) - 2
  <2>1. IsFiniteSet(Held \ {first}) /\ Cardinality(Held \ {first}) = Cardinality(Held) - 1
    BY <1>5, FS_RemoveElement
  <2>2. second \in Held \ {first}
    BY <1>5
  <2>3. /\ IsFiniteSet((Held \ {first}) \ {second})
        /\ Cardinality((Held \ {first}) \ {second}) = Cardinality(Held \ {first}) - 1
    BY <2>1, <2>2, FS_RemoveElement
  <2>4. Cardinality(Held) \in Nat
    BY FS_CardinalityType
  <2>5. QED
    BY <1>5, <2>1, <2>3, <2>4
<1>7. Taken' = Taken
  <2>1. Taken' = 2 * Len(numbers') + Cardinality(Held')
    BY DEF Taken
  <2>2. Len(numbers) \in Nat /\ Cardinality(Held) \in Nat
    BY PartsFinite
  <2>3. 2 * (Len(numbers) + 1) + (Cardinality(Held) - 2) = 2 * Len(numbers) + Cardinality(Held)
    BY <2>2
  <2>4. QED
    BY <1>4, <1>6, <2>1, <2>3 DEF Taken
<1>8. ASSUME NEW half PROVE TimesGiven(half)' = TimesGiven(half)
  <2>1. HighOf(half)' = IF old[1] = half THEN HighOf(half) \cup {m} ELSE HighOf(half)
    BY <1>3, <1>4 DEF HighOf
  <2>2. LowOf(half)' = IF old[2] = half THEN LowOf(half) \cup {m} ELSE LowOf(half)
    BY <1>3, <1>4 DEF LowOf
  <2>3. m \notin HighOf(half) /\ m \notin LowOf(half)
    BY <1>4 DEF HighOf, LowOf
  <2>4. \A q \in Held' : call'[q[1]].halves[q[2]] = call[q[1]].halves[q[2]]
    <3> SUFFICES ASSUME NEW q \in Held' PROVE call'[q[1]].halves[q[2]] = call[q[1]].halves[q[2]]
      OBVIOUS
    <3>1. q[1] \in Contexts /\ q[2] \in DOMAIN call'[q[1]].halves
      BY DEF Held
    <3>2. q[1] # c
      BY <1>1, <3>1
    <3>3. QED
      BY <1>1, <3>1, <3>2
  <2> DEFINE rest == HeldOf(half)'
             middle == IF old[1] = half THEN rest \cup {first} ELSE rest
  <2>5. rest = {q \in Held' : call[q[1]].halves[q[2]] = half}
    BY <2>4 DEF HeldOf
  <2>6. HeldOf(half) = IF old[2] = half THEN middle \cup {second} ELSE middle
    BY <1>5, <2>5 DEF HeldOf
  <2>7. first \notin rest /\ second \notin middle /\ rest \subseteq Held'
    BY <1>5, <2>5
  <2>9. middle = IF old[1] = half THEN rest \cup {first} ELSE rest
    OBVIOUS
  <2> HIDE DEF rest, middle
  <2>8. IsFiniteSet(rest)
    BY <1>6, <2>7, FS_Subset
  <2>10. /\ IsFiniteSet(middle)
         /\ Cardinality(middle) = Cardinality(rest) + IF old[1] = half THEN 1 ELSE 0
    <3>1. first \notin rest
      BY <2>7
    <3>2. QED
      BY <2>8, <2>9, <3>1, OneMore
  <2>11. Cardinality(HeldOf(half)) = Cardinality(middle) + IF old[2] = half THEN 1 ELSE 0
    BY <2>6, <2>7, <2>10, OneMore
  <2>12. /\ IsFiniteSet(HighOf(half)) /\ Cardinality(HighOf(half)) \in Nat
         /\ IsFiniteSet(LowOf(half)) /\ Cardinality(LowOf(half)) \in Nat
    BY PartsFinite
  <2>13. Cardinality(rest) \in Nat
    BY <2>8, FS_CardinalityType
  <2>14. Cardinality(HighOf(half)') = Cardinality(HighOf(half)) + IF old[1] = half THEN 1 ELSE 0
    BY <2>1, <2>3, <2>12, OneMore
  <2>15. Cardinality(LowOf(half)') = Cardinality(LowOf(half)) + IF old[2] = half THEN 1 ELSE 0
    BY <2>2, <2>3, <2>12, OneMore
  <2>16. TimesGiven(half)' = Cardinality(HighOf(half)') + Cardinality(LowOf(half)') + Cardinality(rest)
    BY DEF TimesGiven, HighOf, LowOf, HeldOf, rest
  <2>17. TimesGiven(half) = Cardinality(HighOf(half)) + Cardinality(LowOf(half)) + Cardinality(HeldOf(half))
    BY TimesGivenParts
  <2>18. QED
    BY <2>10, <2>11, <2>12, <2>13, <2>14, <2>15, <2>16, <2>17
<1>9. QED
  BY <1>6, <1>7, <1>8

(* The halves of the sequence up to number n + 1. *)
Outputs(n, seeds, half) == {i \in 1 .. n : HalfOfSequence(i, seeds) = half}

(* The sequence is one half longer. *)
LEMMA OutputsMore ==
  ASSUME NEW n \in Nat, NEW seeds, NEW half
  PROVE  Cardinality(Outputs(n + 1, seeds, half)) =
           Cardinality(Outputs(n, seeds, half))
           + IF HalfOfSequence(n + 1, seeds) = half THEN 1 ELSE 0
<1> DEFINE S == Outputs(n, seeds, half)
           T == Outputs(n + 1, seeds, half)
<1>1. \A i : i \in 1 .. n + 1 <=> i \in 1 .. n \/ i = n + 1
  OBVIOUS
<1>2. T = IF HalfOfSequence(n + 1, seeds) = half THEN S \cup {n + 1} ELSE S
  BY <1>1 DEF Outputs
<1>3. n + 1 \notin S
  BY DEF Outputs
<1>4. IsFiniteSet(S)
  <2>1. IsFiniteSet(1 .. n)
    BY FS_Interval
  <2>2. S \subseteq 1 .. n
    BY DEF Outputs
  <2>3. QED
    BY <2>1, <2>2, FS_Subset
<1> HIDE DEF S, T
<1>6. Cardinality(T) = Cardinality(S) + IF HalfOfSequence(n + 1, seeds) = half THEN 1 ELSE 0
  BY <1>2, <1>3, <1>4, OneMore
<1>7. QED
  BY <1>6 DEF S, T
-----------------------------------------------------------------------------
(* The values are the seeds, shifted n32 and n31 times.                    *)
SeedShifted(seeds, n32, n31, values) ==
  \A r \in Registers :
    values[r] = ShiftedTimes(IF r = 32 THEN n32 ELSE n31, seeds[r], Polymask[r])

(* Nobody has decided on seeds. *)
Unseeded == /\ \A c \in Contexts : call[c].at \in BeforeSeeds
            /\ ~seeded /\ numbers = <<>>

(* Context c writes the seeds into the registers, the others have not got  *)
(* that far.                                                               *)
Seeds(c) ==
  /\ call[c].at \in Seeding /\ call[c].seeds = seedings[1]
  /\ call[c].at \in {"seed31", "seeded"} => lfsr[32] = seedings[1][32]
  /\ call[c].at = "seeded" => lfsr[31] = seedings[1][31]
  /\ \A d \in Contexts \ {c} : call[d].at \in BeforeSeeds

BeingSeeded == (\E c \in Contexts : Seeds(c)) /\ ~seeded /\ numbers = <<>>

(* How far the registers are while context c draws a half. *)
Draws(c) ==
  /\ call[c].at \in {"load", "store"} =>
       /\ call[c].shift = 1 => SeedShifted(seedings[1], 2 * Taken, Taken, lfsr)
       /\ call[c].shift = 2 => SeedShifted(seedings[1], 2 * Taken + 1, Taken, lfsr)
       /\ call[c].shift = 3 => /\ SeedShifted(seedings[1], 2 * Taken + 2, Taken, lfsr)
                               /\ call[c].shifted[32] = lfsr[32]
  /\ call[c].at = "store" => call[c].loaded = lfsr[Shifts[call[c].shift]]
  /\ call[c].at = "exit" => /\ SeedShifted(seedings[1], 2 * Taken + 2, Taken + 1, lfsr)
                            /\ call[c].shifted = lfsr

(* Between two halves register 32 was shifted twice as often as register   *)
(* 31, which was shifted once for each half.                               *)
BeingDrawn ==
  /\ seeded
  /\ \A c \in Contexts : call[c].at \notin Seeding /\ Draws(c)
  /\ section = NoContext => SeedShifted(seedings[1], 2 * Taken, Taken, lfsr)

AllCounted == \A half : TimesGiven(half) = Cardinality(Outputs(Taken, seedings[1], half))

SequenceInv == /\ Types /\ Places /\ IsFiniteSet(Held)
               /\ Len(seedings) = 0 => Unseeded
               /\ SeededOnce => (BeingSeeded \/ BeingDrawn) /\ AllCounted
-----------------------------------------------------------------------------
(* Before the first half is drawn. *)
LEMMA NothingTaken ==
  ASSUME numbers = <<>>, \A c \in Contexts : call[c].halves = <<>>
  PROVE  /\ Held = {} /\ IsFiniteSet(Held) /\ Taken = 0
         /\ \A half, seeds : TimesGiven(half) = Cardinality(Outputs(Taken, seeds, half))
<1>1. Held = {}
  <2>1. \A p \in Held : p[1] \in Contexts /\ p[2] \in DOMAIN call[p[1]].halves
    BY DEF Held
  <2>2. DOMAIN <<>> = {}
    OBVIOUS
  <2>3. QED
    BY <2>1, <2>2
<1>2. Taken = 0
  BY <1>1, FS_EmptySet DEF Taken
<1>3. ASSUME NEW half, NEW seeds
      PROVE  TimesGiven(half) = Cardinality(Outputs(Taken, seeds, half))
  <2>1. HighOf(half) = {} /\ LowOf(half) = {} /\ HeldOf(half) = {}
    BY <1>1 DEF HighOf, LowOf, HeldOf
  <2>2. Outputs(Taken, seeds, half) = {}
    BY <1>2 DEF Outputs
  <2>3. QED
    <3>1. Cardinality({}) = 0 /\ 0 + 0 + 0 = 0
      BY FS_EmptySet
    <3>2. TimesGiven(half) = 0 + 0 + 0
      BY <2>1, <3>1, TimesGivenParts
    <3>3. QED
      BY <2>2, <3>1, <3>2
<1>4. QED
  BY <1>1, <1>2, <1>3, FS_EmptySet

(* What hands out nothing and reseeds nothing keeps the count. *)
LEMMA CountedStay ==
  ASSUME AllCounted, numbers' = numbers, seedings' = seedings,
         \A d \in Contexts : call'[d].halves = call[d].halves
  PROVE  AllCounted'
<1>1. Taken' = Taken /\ \A half : TimesGiven(half)' = TimesGiven(half)
  BY HalvesStay
<1>2. ASSUME NEW half
      PROVE  TimesGiven(half)' = Cardinality(Outputs(Taken', seedings'[1], half))
  BY <1>1 DEF AllCounted
<1>3. QED
  BY <1>2 DEF AllCounted

(* A context that sees the same registers is as far as it was. *)
LEMMA DrawsStays ==
  ASSUME NEW d \in Contexts, Draws(d), lfsr' = lfsr, seedings' = seedings, Taken' = Taken,
         call'[d] = call[d]
  PROVE  Draws(d)'
BY DEF Draws

(* TbxRandomNumber16BitGet shifts one register once more. *)
LEMMA ShiftedOnce ==
  ASSUME NEW seeds \in [Registers -> LongWords], NEW n32 \in Nat, NEW n31 \in Nat,
         NEW values \in [Registers -> LongWords], SeedShifted(seeds, n32, n31, values),
         NEW r \in Registers
  PROVE  SeedShifted(seeds, IF r = 32 THEN n32 + 1 ELSE n32, IF r = 31 THEN n31 + 1 ELSE n31,
                     [values EXCEPT ![r] = ShiftLFSR(values[r], Polymask[r])])
<1>1. \A q \in Registers : seeds[q] \in LongWords /\ Polymask[q] \in LongWords
  BY PolymaskType
<1>2. /\ ShiftedTimes(n32 + 1, seeds[32], Polymask[32])
           = ShiftLFSR(ShiftedTimes(n32, seeds[32], Polymask[32]), Polymask[32])
      /\ ShiftedTimes(n31 + 1, seeds[31], Polymask[31])
           = ShiftLFSR(ShiftedTimes(n31, seeds[31], Polymask[31]), Polymask[31])
  BY <1>1, ShiftedFacts DEF Registers
<1>3. CASE r = 32
  BY <1>2, <1>3 DEF SeedShifted, Registers
<1>4. CASE r = 31
  BY <1>2, <1>4 DEF SeedShifted, Registers
<1>5. QED
  BY <1>3, <1>4 DEF Registers
-----------------------------------------------------------------------------
(* The invariant holds initially. *)
LEMMA SequenceInitially == RandomInit => SequenceInv
<1> SUFFICES ASSUME RandomInit PROVE SequenceInv
  OBVIOUS
<1>1. Types /\ Places
  BY TypesInitially
<1>2. /\ \A c \in Contexts : call[c].at = "idle" /\ call[c].halves = <<>>
      /\ numbers = <<>> /\ ~seeded /\ Len(seedings) = 0
  BY DEF RandomInit, NoCall
<1>3. IsFiniteSet(Held)
  BY <1>2, NothingTaken
<1>4. QED
  BY <1>1, <1>2, <1>3 DEF SequenceInv, Unseeded, BeforeSeeds, SeededOnce

(* A step of an unseeded generator. *)
LEMMA UnseededStep ==
  ASSUME Types, Places, Types', Places', Unseeded, NEW c \in Contexts, NextOf(c),
         Len(seedings) = 0
  PROVE  /\ Len(seedings') = 0 => Unseeded'
         /\ Len(seedings') = 1 => BeingSeeded' /\ AllCounted'
<1>1. call[c].at \in BeforeSeeds
  BY DEF Unseeded
<1>2. TbxRandomSetSeedInitHandler(c) \/ NumberGet(c) \/ InitLFSRs(c)
  BY <1>1 DEF NextOf, BeforeSeeds, SeedLFSRs, SeedRegister, MarkSeeded, Enter, LoadLFSR, StoreLFSR,
              Exit, Return, Goes
<1>3. CASE TbxRandomSetSeedInitHandler(c)
  BY <1>3 DEF TbxRandomSetSeedInitHandler, Unseeded
<1>4. CASE NumberGet(c)
  <2>1. /\ call' = [call EXCEPT ![c].at = "init"] /\ seeded' = seeded /\ numbers' = numbers
        /\ seedings' = seedings
    BY <1>4 DEF NumberGet, Goes, Unseeded
  <2>2. \A d \in Contexts : call'[d].at \in BeforeSeeds
    BY <2>1 DEF Unseeded, Types, Calls, BeforeSeeds
  <2>3. QED
    BY <2>1, <2>2 DEF Unseeded
<1>5. CASE InitLFSRs(c)
  <2>1. PICK seeds \in [Registers -> LongWords] : DecidedOn(c, seeds)
    BY <1>5, SeedsDecided
  <2>4. Len(seedings') = 1 /\ seedings'[1] = seeds
    BY <2>1 DEF DecidedOn, Types
  <2>5. /\ call'[c].at = "seed32" /\ call'[c].seeds = seeds
        /\ \A d \in Contexts \ {c} : call'[d] = call[d]
    BY <2>1 DEF DecidedOn, Types, Calls
  <2>6. Seeds(c)'
    BY <2>4, <2>5 DEF Seeds, Seeding, Unseeded
  <2>7. ~seeded' /\ numbers' = <<>>
    BY <2>1 DEF DecidedOn, Unseeded
  <2>8. \A d \in Contexts : call[d].halves = <<>> /\ call'[d].halves = call[d].halves
    <3>1. \A d \in Contexts : call[d].halves = <<>>
      BY DEF Unseeded, Places, Place
    <3>2. QED
      BY <2>1, <3>1 DEF DecidedOn, Types, Calls
  <2>9. AllCounted'
    <3>1. \A half, some : TimesGiven(half) = Cardinality(Outputs(Taken, some, half))
      BY <2>8, NothingTaken DEF Unseeded
    <3>2. Taken' = Taken /\ \A half : TimesGiven(half)' = TimesGiven(half)
      BY <2>7, <2>8, HalvesStay DEF Unseeded
    <3>3. QED
      BY <3>1, <3>2 DEF AllCounted
  <2>10. QED
    BY <2>4, <2>6, <2>7, <2>9 DEF BeingSeeded
<1>6. QED
  BY <1>2, <1>3, <1>4, <1>5

(* A step while the seeds are written.  InitLFSRs of another context seeds *)
(* the generator a second time.                                            *)
LEMMA BeingSeededStep ==
  ASSUME Types, Places, Types', Places', BeingSeeded, NEW d \in Contexts, NextOf(d),
         seedings' = seedings, Len(seedings) = 1
  PROVE  BeingSeeded' \/ BeingDrawn'
<1>1. PICK c \in Contexts : Seeds(c)
  BY DEF BeingSeeded
<1>2. call[d].at \in BeforeSeeds \/ (d = c /\ call[d].at \in Seeding)
  BY <1>1 DEF Seeds
<1>3. ~InitLFSRs(d)
  <2> SUFFICES ASSUME InitLFSRs(d) PROVE FALSE
    OBVIOUS
  <2>1. PICK seeds \in [Registers -> LongWords] : seedings' = Append(seedings, seeds)
    BY SeedsDecided DEF DecidedOn
  <2>2. seedings \in Seq([Registers -> LongWords])
    BY DEF Types
  <2>3. \A S : \A s \in Seq(S), e \in S : Len(Append(s, e)) = Len(s) + 1
    OBVIOUS
  <2>4. Len(Append(seedings, seeds)) = Len(seedings) + 1
    BY <2>2, <2>3, Zenon
  <2>5. QED
    BY <2>1, <2>4
<1>4. TbxRandomSetSeedInitHandler(d) \/ NumberGet(d) \/ (d = c /\ (SeedLFSRs(d) \/ MarkSeeded(d)))
  BY <1>2, <1>3 DEF NextOf, BeforeSeeds, Seeding, SeedLFSRs, SeedRegister, MarkSeeded, Enter, LoadLFSR,
              StoreLFSR, Exit, Return, Goes
<1>5. CASE TbxRandomSetSeedInitHandler(d)
  BY <1>1, <1>5 DEF TbxRandomSetSeedInitHandler, BeingSeeded, Seeds
<1>6. CASE NumberGet(d)
  <2>1. /\ call' = [call EXCEPT ![d].at = "init"] /\ seeded' = seeded /\ numbers' = numbers
        /\ lfsr' = lfsr /\ call[d].at = "idle"
    BY <1>6 DEF NumberGet, Goes, BeingSeeded
  <2>2. d # c
    BY <1>1, <2>1 DEF Seeds, Seeding
  <2>3. /\ call'[d].at \in BeforeSeeds
        /\ \A e \in Contexts \ {d} : call'[e] = call[e]
    BY <2>1 DEF Types, Calls, BeforeSeeds
  <2>4. Seeds(c)'
    BY <1>1, <2>1, <2>2, <2>3 DEF Seeds
  <2>5. QED
    BY <2>1, <2>4 DEF BeingSeeded
<1>7. ASSUME d = c, NEW r \in Registers, NEW from, NEW to, SeedRegister(c, r, from, to),
             \/ r = 32 /\ from = "seed32" /\ to = "seed31"
             \/ r = 31 /\ from = "seed31" /\ to = "seeded"
      PROVE  BeingSeeded'
  <2>1. /\ call' = [call EXCEPT ![c].at = to] /\ seeded' = seeded /\ numbers' = numbers
        /\ lfsr' = [lfsr EXCEPT ![r] = call[c].seeds[r]] /\ call[c].at = from
    BY <1>7 DEF SeedRegister, Goes
  <2>2. /\ call'[c].at = to /\ call'[c].seeds = call[c].seeds
        /\ \A e \in Contexts \ {c} : call'[e] = call[e]
    BY <2>1 DEF Types, Calls
  <2>3. lfsr'[r] = seedings[1][r] /\ \A q \in Registers \ {r} : lfsr'[q] = lfsr[q]
    BY <1>1, <2>1 DEF Types, Seeds
  <2>4. Seeds(c)'
    BY <1>1, <1>7, <2>1, <2>2, <2>3 DEF Seeds, Seeding, Registers
  <2>5. QED
    BY <2>1, <2>4 DEF BeingSeeded
<1>8. CASE d = c /\ SeedLFSRs(d)
  BY <1>7, <1>8 DEF SeedLFSRs, Registers
<1>9. CASE d = c /\ MarkSeeded(d)
  <2>1. /\ call' = [call EXCEPT ![c].at = "enter"] /\ seeded' /\ numbers' = numbers
        /\ lfsr' = lfsr /\ call[c].at = "seeded" /\ section' = section
    BY <1>9 DEF MarkSeeded, Goes
  <2>2. /\ call'[c].at = "enter" /\ call'[c].halves = call[c].halves
        /\ \A e \in Contexts \ {c} : call'[e] = call[e]
    BY <2>1 DEF Types, Calls
  <2>3. \A e \in Contexts : call[e].halves = <<>> /\ call'[e].halves = call[e].halves
    BY <1>1, <2>1, <2>2 DEF Seeds, Places, Place
  <2>4. Taken' = 0
    <3>1. Taken = 0
      BY <2>3, NothingTaken DEF BeingSeeded
    <3>2. QED
      BY <2>1, <2>3, <3>1, HalvesStay
  <2>5. \A e \in Contexts : call'[e].at \notin Seeding /\ Draws(e)'
    <3> SUFFICES ASSUME NEW e \in Contexts PROVE call'[e].at \notin Seeding /\ Draws(e)'
      OBVIOUS
    <3>1. call'[e].at \in {"enter"} \cup BeforeSeeds
      BY <1>1, <2>2 DEF Seeds
    <3>2. QED
      BY <3>1 DEF Draws, BeforeSeeds, Seeding
  <2>6. SeedShifted(seedings[1], 0, 0, lfsr)
    <3>1. \A r \in Registers : lfsr[r] = seedings[1][r]
      BY <1>1, <2>1 DEF Seeds, Registers
    <3>2. \A r \in Registers : seedings[1][r] \in LongWords /\ Polymask[r] \in LongWords
      <4>1. seedings[1] \in [Registers -> LongWords]
        <5>1. seedings \in Seq([Registers -> LongWords]) /\ 1 \in 1 .. Len(seedings)
          BY DEF Types
        <5>2. QED
          BY <5>1
      <4>2. QED
        BY <4>1, PolymaskType
    <3>3. \A r \in Registers : ShiftedTimes(0, seedings[1][r], Polymask[r]) = seedings[1][r]
      BY <3>2, ShiftedFacts
    <3>4. QED
      BY <3>1, <3>3 DEF SeedShifted
  <2>7. SeedShifted(seedings'[1], 2 * Taken', Taken', lfsr')
    <3>1. 2 * 0 = 0
      OBVIOUS
    <3>2. QED
      BY <2>1, <2>4, <2>6, <3>1
  <2>8. QED
    BY <2>1, <2>5, <2>7 DEF BeingDrawn
<1>10. QED
  BY <1>4, <1>5, <1>6, <1>8, <1>9
-----------------------------------------------------------------------------
(* A step of a generator that is seeded: the context inside the section is *)
(* the only one that sees or changes the registers.                        *)
LEMMA BeingDrawnStep ==
  ASSUME Types, Places, Inv, BeingDrawn, IsFiniteSet(Held), Places',
         NEW c \in Contexts, NextOf(c), seedings' = seedings, Len(seedings) = 1
  PROVE  BeingDrawn'
<1> DEFINE seeds == seedings[1]
<1>1. seeds \in [Registers -> LongWords] /\ lfsr \in [Registers -> LongWords] /\ Taken \in Nat
  <2>1. seedings \in Seq([Registers -> LongWords]) /\ 1 \in 1 .. Len(seedings)
    BY DEF Types
  <2>2. seeds \in [Registers -> LongWords]
    BY <2>1
  <2>3. lfsr \in [Registers -> LongWords] /\ Taken \in Nat
    BY PartsFinite DEF Types
  <2>4. QED
    BY <2>2, <2>3
<1>2. \A d \in Contexts : d # c /\ section = c => Draws(d)' /\ call[d].at \notin Inside
  <2> SUFFICES ASSUME NEW d \in Contexts, d # c, section = c PROVE Draws(d)' /\ call[d].at \notin Inside
    OBVIOUS
  <2>1. call[d].at \notin Inside
    BY DEF Places, Place
  <2>2. call'[d] = call[d]
    BY DEF NextOf, TbxRandomSetSeedInitHandler, NumberGet, Goes, InitLFSRs, SeedLFSRs, SeedRegister,
           MarkSeeded, Enter, LoadLFSR, StoreLFSR, Exit, Return, Types
  <2>3. QED
    BY <2>1, <2>2 DEF Draws, Inside
<1>3. ASSUME lfsr' = lfsr, Taken' = Taken, \A d \in Contexts \ {c} : call'[d] = call[d]
      PROVE  \A d \in Contexts \ {c} : call'[d].at \notin Seeding /\ Draws(d)'
  <2> SUFFICES ASSUME NEW d \in Contexts \ {c} PROVE call'[d].at \notin Seeding /\ Draws(d)'
    OBVIOUS
  <2>1. call[d].at \notin Seeding /\ Draws(d)
    BY DEF BeingDrawn
  <2>2. Draws(d)'
    BY <1>3, <2>1, DrawsStays
  <2>3. QED
    BY <1>3, <2>1, <2>2
<1>4. CASE TbxRandomSetSeedInitHandler(c)
  <2>1. UNCHANGED <<lfsr, seeded, section, call, numbers>>
    BY <1>4 DEF TbxRandomSetSeedInitHandler
  <2>2. Taken' = Taken
    BY <2>1, HalvesStay
  <2>3. \A d \in Contexts : Draws(d)'
    BY <2>1, <2>2, DrawsStays DEF BeingDrawn
  <2>4. QED
    BY <2>1, <2>2, <2>3 DEF BeingDrawn
<1>5. CASE NumberGet(c)
  <2>1. /\ call' = [call EXCEPT ![c].at = "enter"] /\ UNCHANGED <<lfsr, seeded, section, numbers>>
    BY <1>5 DEF NumberGet, Goes, BeingDrawn
  <2>2. /\ call'[c].at = "enter" /\ call'[c].halves = call[c].halves
        /\ \A d \in Contexts \ {c} : call'[d] = call[d]
    BY <2>1 DEF Types, Calls
  <2>3. Taken' = Taken
    BY <2>1, <2>2, HalvesStay
  <2>4. call'[c].at \notin Seeding /\ Draws(c)'
    BY <2>2 DEF Draws, Seeding
  <2>5. QED
    BY <1>3, <2>1, <2>2, <2>3, <2>4 DEF BeingDrawn
<1>6. ~InitLFSRs(c)
  <2> SUFFICES ASSUME InitLFSRs(c) PROVE FALSE
    OBVIOUS
  <2>1. PICK some \in [Registers -> LongWords] : seedings' = Append(seedings, some)
    BY SeedsDecided DEF DecidedOn
  <2>2. seedings \in Seq([Registers -> LongWords])
    BY DEF Types
  <2>3. \A S : \A s \in Seq(S), e \in S : Len(Append(s, e)) = Len(s) + 1
    OBVIOUS
  <2>4. Len(Append(seedings, some)) = Len(seedings) + 1
    BY <2>2, <2>3, Zenon
  <2>5. QED
    BY <2>1, <2>4
<1>7. ~SeedLFSRs(c) /\ ~MarkSeeded(c)
  BY DEF SeedLFSRs, SeedRegister, MarkSeeded, Goes, BeingDrawn, Seeding
<1>8. CASE Enter(c)
  <2>1. /\ UNCHANGED <<lfsr, seeded, numbers>> /\ section = NoContext /\ section' = c
        /\ call'[c].at = "load" /\ call'[c].shift = 1 /\ call'[c].halves = call[c].halves
        /\ \A d \in Contexts \ {c} : call'[d] = call[d]
    BY <1>8 DEF Enter, Types, Calls
  <2>2. Taken' = Taken
    BY <2>1, HalvesStay
  <2>3. SeedShifted(seeds, 2 * Taken, Taken, lfsr)
    BY <2>1 DEF BeingDrawn
  <2>4. SeedShifted(seedings'[1], 2 * Taken', Taken', lfsr')
    BY <2>1, <2>2, <2>3
  <2>5. call'[c].at \notin Seeding /\ Draws(c)'
    BY <2>1, <2>4 DEF Draws, Seeding
  <2>6. section' # NoContext
    BY <2>1, RandomAssumption
  <2>7. QED
    BY <1>3, <2>1, <2>2, <2>5, <2>6 DEF BeingDrawn
<1>9. CASE LoadLFSR(c)
  <2>1. /\ UNCHANGED <<lfsr, seeded, numbers, section>> /\ call[c].at = "load"
        /\ call'[c].at = "store" /\ call'[c].shift = call[c].shift
        /\ call'[c].halves = call[c].halves /\ call'[c].shifted = call[c].shifted
        /\ call'[c].loaded = lfsr[Shifts[call[c].shift]]
        /\ \A d \in Contexts \ {c} : call'[d] = call[d]
    BY <1>9 DEF LoadLFSR, Types, Calls
  <2>2. Taken' = Taken
    BY <2>1, HalvesStay
  <2>3. Draws(c)
    BY DEF BeingDrawn
  <2>4. call'[c].at \notin Seeding /\ Draws(c)'
    BY <2>1, <2>2, <2>3 DEF Draws, Seeding
  <2>5. section' = c /\ section' # NoContext
    BY <2>1, RandomAssumption DEF Places, Place, Inside
  <2>6. QED
    BY <1>3, <2>1, <2>2, <2>4, <2>5 DEF BeingDrawn
<1>10. CASE StoreLFSR(c)
  <2> DEFINE r == Shifts[call[c].shift]
             value == ShiftLFSR(lfsr[r], Polymask[r])
             n == call[c].shift
  <2>1. n \in 1 .. 3 /\ call[c].at = "store" /\ section = c
    BY <1>10 DEF StoreLFSR, Inv, CallInv, Places, Place, Inside
  <2>2. r \in Registers /\ Len(Shifts) = 3 /\ r = IF n = 3 THEN 31 ELSE 32
    BY <2>1 DEF Shifts, Registers
  <2>3. call[c].loaded = lfsr[r] /\ Draws(c)
    BY <2>1 DEF BeingDrawn, Draws
  <2>4. /\ UNCHANGED <<seeded, numbers, section>>
        /\ lfsr' = [lfsr EXCEPT ![r] = value]
        /\ call' = [call EXCEPT ![c].at = IF n = 3 THEN "exit" ELSE "load",
                                ![c].shift = IF n = 3 THEN 0 ELSE @ + 1,
                                ![c].shifted[r] = value]
    BY <1>10, <2>2, <2>3 DEF StoreLFSR
  <2> HIDE DEF r, value
  <2>5. /\ call'[c].at = IF n = 3 THEN "exit" ELSE "load"
        /\ call'[c].shift = IF n = 3 THEN 0 ELSE n + 1
        /\ call'[c].shifted = [call[c].shifted EXCEPT ![r] = value]
        /\ call'[c].halves = call[c].halves
        /\ \A d \in Contexts \ {c} : call'[d] = call[d]
    BY <2>4 DEF Types, Calls
  <2>6. Taken' = Taken
    BY <2>4, <2>5, HalvesStay
  <2>7. call'[c].at \notin Seeding
    BY <2>5 DEF Seeding
  <2>8. Draws(c)'
    <3>1. ASSUME NEW n32 \in Nat, NEW n31 \in Nat, SeedShifted(seeds, n32, n31, lfsr)
          PROVE  SeedShifted(seeds, IF r = 32 THEN n32 + 1 ELSE n32, IF r = 31 THEN n31 + 1 ELSE n31, lfsr')
      BY <1>1, <2>2, <2>4, <3>1, ShiftedOnce DEF value
    <3>2. 2 * Taken \in Nat /\ 2 * Taken + 1 \in Nat /\ 2 * Taken + 2 \in Nat
      BY <1>1
    <3> HIDE DEF seeds
    <3>3. CASE n = 1
      <4>1. SeedShifted(seeds, 2 * Taken, Taken, lfsr) /\ r = 32
        BY <2>1, <2>2, <2>3, <3>3 DEF Draws, seeds
      <4>2. SeedShifted(seeds, 2 * Taken + 1, Taken, lfsr')
        BY <1>1, <3>1, <3>2, <4>1
      <4>3. call'[c].at = "load" /\ call'[c].shift = 2
        BY <2>5, <3>3
      <4>4. SeedShifted(seedings'[1], 2 * Taken' + 1, Taken', lfsr')
        BY <2>6, <4>2 DEF seeds
      <4>5. QED
        BY <4>3, <4>4 DEF Draws
    <3>4. CASE n = 2
      <4>1. SeedShifted(seeds, 2 * Taken + 1, Taken, lfsr) /\ r = 32
        BY <2>1, <2>2, <2>3, <3>4 DEF Draws, seeds
      <4>2. SeedShifted(seeds, (2 * Taken + 1) + 1, Taken, lfsr')
        BY <1>1, <3>1, <3>2, <4>1
      <4>3. (2 * Taken + 1) + 1 = 2 * Taken + 2
        BY <1>1
      <4>4. call'[c].at = "load" /\ call'[c].shift = 3
        BY <2>5, <3>4
      <4>5. SeedShifted(seedings'[1], 2 * Taken' + 2, Taken', lfsr')
        BY <2>6, <4>2, <4>3 DEF seeds
      <4>6. call'[c].shifted[32] = lfsr'[32]
        BY <1>1, <2>4, <2>5, <4>1 DEF Types, Calls, Registers
      <4>7. QED
        BY <4>4, <4>5, <4>6 DEF Draws
    <3>5. CASE n = 3
      <4>1. SeedShifted(seeds, 2 * Taken + 2, Taken, lfsr) /\ r = 31 /\ call[c].shifted[32] = lfsr[32]
        BY <2>1, <2>2, <2>3, <3>5 DEF Draws, seeds
      <4>2. SeedShifted(seeds, 2 * Taken + 2, Taken + 1, lfsr')
        BY <1>1, <3>1, <3>2, <4>1
      <4>3. call'[c].at = "exit"
        BY <2>5, <3>5
      <4>4. SeedShifted(seedings'[1], 2 * Taken' + 2, Taken' + 1, lfsr')
        BY <2>6, <4>2 DEF seeds
      <4>5. call'[c].shifted = lfsr'
        <5>1. call[c].shifted \in [Registers -> LongWords]
          BY DEF Types, Calls
        <5>2. \A q \in Registers : q = 31 \/ q = 32
          BY DEF Registers
        <5>3. \A q \in Registers : [call[c].shifted EXCEPT ![r] = value][q] = [lfsr EXCEPT ![r] = value][q]
          BY <1>1, <4>1, <5>1, <5>2
        <5>4. [call[c].shifted EXCEPT ![r] = value] = [lfsr EXCEPT ![r] = value]
          BY <1>1, <5>1, <5>3
        <5>5. QED
          BY <2>4, <2>5, <5>4
      <4>6. QED
        BY <4>3, <4>4, <4>5 DEF Draws
    <3>6. QED
      BY <2>1, <3>3, <3>4, <3>5
  <2>9. section' # NoContext
    BY <2>1, <2>4, RandomAssumption
  <2>10. \A d \in Contexts \ {c} : call'[d].at \notin Seeding /\ Draws(d)'
    BY <1>2, <2>1, <2>5 DEF BeingDrawn
  <2>11. QED
    BY <2>4, <2>7, <2>8, <2>9, <2>10 DEF BeingDrawn
<1>11. CASE Exit(c)
  <2>1. /\ UNCHANGED <<lfsr, seeded, numbers>> /\ section' = NoContext /\ call[c].at = "exit"
        /\ call'[c].at \in {"enter", "return"}
        /\ \A d \in Contexts \ {c} : call'[d] = call[d]
    BY <1>11 DEF Exit, Types, Calls
  <2>2. Taken' = Taken + 1
    BY <1>11, ExitGives
  <2>3. section = c
    BY <2>1 DEF Places, Place, Inside
  <2>4. SeedShifted(seeds, 2 * Taken + 2, Taken + 1, lfsr)
    BY <2>1 DEF BeingDrawn, Draws
  <2>5. 2 * Taken + 2 = 2 * (Taken + 1)
    BY <1>1
  <2>6. SeedShifted(seedings'[1], 2 * Taken', Taken', lfsr')
    BY <2>1, <2>2, <2>4, <2>5
  <2>7. call'[c].at \notin Seeding /\ Draws(c)'
    BY <2>1 DEF Draws, Seeding
  <2>8. \A d \in Contexts \ {c} : call'[d].at \notin Seeding /\ Draws(d)'
    BY <1>2, <2>1, <2>3 DEF BeingDrawn
  <2>9. QED
    BY <2>1, <2>6, <2>7, <2>8 DEF BeingDrawn
<1>12. CASE Return(c)
  <2>1. /\ UNCHANGED <<lfsr, seeded, section>> /\ call'[c].at = "idle"
        /\ \A d \in Contexts \ {c} : call'[d] = call[d]
    BY <1>12 DEF Return, Types, NoCall
  <2>2. Taken' = Taken
    BY <1>12, ReturnGives
  <2>3. call'[c].at \notin Seeding /\ Draws(c)'
    BY <2>1 DEF Draws, Seeding
  <2>4. QED
    BY <1>3, <2>1, <2>2, <2>3 DEF BeingDrawn
<1>13. QED
  BY <1>4, <1>5, <1>6, <1>7, <1>8, <1>9, <1>10, <1>11, <1>12 DEF NextOf

(* All other steps hand out nothing. *)
LEMMA HalvesKept ==
  ASSUME Types, NEW c \in Contexts, NextOf(c), ~Exit(c), ~Return(c)
  PROVE  numbers' = numbers /\ \A d \in Contexts : call'[d].halves = call[d].halves
<1>1. numbers' = numbers
  BY DEF NextOf, TbxRandomSetSeedInitHandler, NumberGet, InitLFSRs, SeedLFSRs, SeedRegister,
         MarkSeeded, Enter, LoadLFSR, StoreLFSR
<1>2. ASSUME NEW from, NEW to, Goes(c, from, to)
      PROVE  \A d \in Contexts : call'[d].halves = call[d].halves
  BY <1>2 DEF Goes, Types, Calls
<1>3. \A d \in Contexts : call'[d].halves = call[d].halves
  <2>1. CASE InitLFSRs(c)
    BY <2>1 DEF InitLFSRs, Types, Calls
  <2>2. CASE StoreLFSR(c)
    BY <2>2 DEF StoreLFSR, Types, Calls
  <2>3. CASE NumberGet(c) \/ SeedLFSRs(c) \/ MarkSeeded(c)
    BY <1>2, <2>3 DEF NumberGet, SeedLFSRs, SeedRegister, MarkSeeded
  <2>4. CASE TbxRandomSetSeedInitHandler(c)
    BY <2>4 DEF TbxRandomSetSeedInitHandler
  <2>5. CASE Enter(c)
    BY <2>5 DEF Enter, Types, Calls
  <2>6. CASE LoadLFSR(c)
    BY <2>6 DEF LoadLFSR, Types, Calls
  <2>7. QED
    BY <2>1, <2>2, <2>3, <2>4, <2>5, <2>6 DEF NextOf
<1>4. QED
  BY <1>1, <1>3

(* No step counts a half that the sequence does not have.                  *)
LEMMA CountedStep ==
  ASSUME Types, Places, BeingSeeded \/ BeingDrawn, AllCounted, IsFiniteSet(Held),
         NEW c \in Contexts, NextOf(c), seedings' = seedings
  PROVE  AllCounted'
<1>1. CASE Exit(c)
  <2>1. Taken' = Taken + 1 /\ Taken \in Nat
    BY <1>1, ExitGives, PartsFinite
  <2>2. \A half : TimesGiven(half)' = TimesGiven(half) + IF Half(call[c].shifted) = half THEN 1 ELSE 0
    BY <1>1, ExitGives
  <2>3. call[c].at = "exit"
    BY <1>1 DEF Exit
  <2>4. BeingDrawn
    BY <2>3 DEF BeingSeeded, Seeds, Seeding, BeforeSeeds
  <2>5. SeedShifted(seedings[1], 2 * Taken + 2, Taken + 1, lfsr) /\ call[c].shifted = lfsr
    BY <2>3, <2>4 DEF BeingDrawn, Draws
  <2>6. Half(call[c].shifted) = HalfOfSequence(Taken + 1, seedings[1])
    <3>1. 2 * Taken + 2 = 2 * (Taken + 1)
      BY <2>1
    <3>2. \A r \in Registers :
            lfsr[r] = ShiftedTimes(IF r = 32 THEN 2 * (Taken + 1) ELSE Taken + 1, seedings[1][r], Polymask[r])
      BY <2>5, <3>1 DEF SeedShifted
    <3>3. lfsr = [r \in Registers |->
                   ShiftedTimes(IF r = 32 THEN 2 * (Taken + 1) ELSE Taken + 1, seedings[1][r], Polymask[r])]
      BY <3>2 DEF Types
    <3>4. QED
      BY <2>5, <3>3 DEF HalfOfSequence
  <2>7. ASSUME NEW half PROVE TimesGiven(half)' = Cardinality(Outputs(Taken + 1, seedings[1], half))
    <3>1. TimesGiven(half) = Cardinality(Outputs(Taken, seedings[1], half))
      BY DEF AllCounted
    <3>2. Cardinality(Outputs(Taken + 1, seedings[1], half))
            = Cardinality(Outputs(Taken, seedings[1], half))
              + IF HalfOfSequence(Taken + 1, seedings[1]) = half THEN 1 ELSE 0
      BY <2>1, OutputsMore
    <3>3. QED
      BY <2>2, <2>6, <3>1, <3>2
  <2>8. QED
    BY <2>1, <2>7 DEF AllCounted
<1>2. CASE Return(c)
  <2>1. Taken' = Taken /\ \A half : TimesGiven(half)' = TimesGiven(half)
    BY <1>2, ReturnGives
  <2>2. QED
    BY <2>1 DEF AllCounted
<1>3. CASE ~Exit(c) /\ ~Return(c)
  BY <1>3, HalvesKept, CountedStay
<1>4. QED
  BY <1>1, <1>2, <1>3

(* Seeds are only ever added to the history. *)
LEMMA SeedingsGrow ==
  ASSUME Types, NEW c \in Contexts, NextOf(c)
  PROVE  /\ Len(seedings) \in Nat
         /\ seedings' = seedings \/ Len(seedings') = Len(seedings) + 1
<1>1. seedings \in Seq([Registers -> LongWords])
  BY DEF Types
<1>2. CASE InitLFSRs(c)
  <2>1. PICK some \in [Registers -> LongWords] : seedings' = Append(seedings, some)
    BY <1>2, SeedsDecided DEF DecidedOn
  <2>2. \A S : \A s \in Seq(S), e \in S : Len(Append(s, e)) = Len(s) + 1
    OBVIOUS
  <2>3. Len(Append(seedings, some)) = Len(seedings) + 1
    BY <1>1, <2>2, Zenon
  <2>4. QED
    BY <1>1, <2>1, <2>3
<1>3. CASE ~InitLFSRs(c)
  <2>1. seedings' = seedings
    BY <1>3 DEF NextOf, TbxRandomSetSeedInitHandler, NumberGet, SeedLFSRs, SeedRegister,
                MarkSeeded, Enter, LoadLFSR, StoreLFSR, Exit, Return
  <2>2. QED
    BY <1>1, <2>1
<1>4. QED
  BY <1>2, <1>3

(* The set of halves that callers wait with stays finite. *)
LEMMA HeldStaysFinite ==
  ASSUME Types, Places, IsFiniteSet(Held), NEW c \in Contexts, NextOf(c)
  PROVE  IsFiniteSet(Held')
<1>1. CASE Exit(c)
  BY <1>1, ExitGives
<1>2. CASE Return(c)
  BY <1>2, ReturnGives
<1>3. CASE ~Exit(c) /\ ~Return(c)
  BY <1>3, HalvesKept, HalvesStay
<1>4. QED
  BY <1>1, <1>2, <1>3

(* The invariant holds after every step. *)
LEMMA SequenceStep == Inv /\ SequenceInv /\ [RandomNext]_randomVars => SequenceInv'
<1> SUFFICES ASSUME Inv, SequenceInv, [RandomNext]_randomVars PROVE SequenceInv'
  OBVIOUS
<1>1. Types /\ Places /\ IsFiniteSet(Held) /\ Types' /\ Places'
  BY TypesStep, PlacesStep DEF SequenceInv
<1>2. CASE UNCHANGED randomVars
  <2>1. UNCHANGED <<lfsr, seeded, section, call, seedings, numbers>>
    BY <1>2 DEF randomVars
  <2>2. Held' = Held /\ Taken' = Taken /\ \A half : TimesGiven(half)' = TimesGiven(half)
    BY <2>1, HalvesStay
  <2>3. Unseeded' = Unseeded /\ BeingSeeded' = BeingSeeded
    BY <2>1 DEF Unseeded, BeingSeeded, Seeds
  <2>4. BeingDrawn => BeingDrawn'
    BY <2>1, <2>2, DrawsStays DEF BeingDrawn
  <2>5. AllCounted => AllCounted'
    BY <2>1, <2>2 DEF AllCounted
  <2>6. QED
    BY <1>1, <2>1, <2>2, <2>3, <2>4, <2>5 DEF SequenceInv, SeededOnce
<1>3. ASSUME NEW c \in Contexts, NextOf(c) PROVE SequenceInv'
  <2>1. IsFiniteSet(Held')
    BY <1>1, <1>3, HeldStaysFinite
  <2>2. Len(seedings) \in Nat /\ (seedings' = seedings \/ Len(seedings') = Len(seedings) + 1)
    BY <1>1, <1>3, SeedingsGrow
  <2>3. CASE Len(seedings) = 0
    <3>1. /\ Len(seedings') = 0 => Unseeded'
          /\ Len(seedings') = 1 => BeingSeeded' /\ AllCounted'
      BY <1>1, <1>3, <2>3, UnseededStep DEF SequenceInv
    <3>2. QED
      BY <1>1, <2>1, <3>1 DEF SequenceInv, SeededOnce
  <2>4. CASE Len(seedings) = 1 /\ seedings' = seedings
    <3>1. (BeingSeeded \/ BeingDrawn) /\ AllCounted
      BY <2>4 DEF SequenceInv, SeededOnce
    <3>2. BeingSeeded' \/ BeingDrawn'
      BY <1>1, <1>3, <2>4, <3>1, BeingSeededStep, BeingDrawnStep
    <3>3. AllCounted'
      BY <1>1, <1>3, <2>4, <3>1, CountedStep
    <3>4. QED
      BY <1>1, <2>1, <2>4, <3>2, <3>3 DEF SequenceInv, SeededOnce
  <2>5. CASE Len(seedings') \notin {0, 1}
    BY <1>1, <2>1, <2>5 DEF SequenceInv, SeededOnce
  <2>6. \A n \in Nat : /\ n = 0 \/ n = 1 \/ n \notin {0, 1}
                       /\ n = 0 \/ n + 1 \notin {0, 1}
    OBVIOUS
  <2>7. \/ Len(seedings) = 0
        \/ Len(seedings) = 1 /\ seedings' = seedings
        \/ Len(seedings') \notin {0, 1}
    BY <2>2, <2>6
  <2>8. QED
    BY <2>3, <2>4, <2>5, <2>7
<1>4. QED
  BY <1>2, <1>3 DEF RandomNext

(* The generator counts as it says it does. *)
LEMMA AlwaysSequenceInv == RandomSpec => []SequenceInv
BY SequenceInitially, SequenceStep, RandomInv, PTL DEF RandomSpec

(* All callers together are given the halves of one sequence, each of them *)
(* once: TbxRandomNumber16BitGet under its critical section, for any       *)
(* number of contexts, any seeds and however the calls interleave, as long *)
(* as the generator was seeded once.                                       *)
THEOREM HalvesGivenOnce == RandomSpec => []OneSequence
<1>1. SequenceInv => OneSequence
  <2> SUFFICES ASSUME SequenceInv, SeededOnce PROVE OneSequence
    BY DEF OneSequence
  <2> DEFINE outputs == [n \in 1 .. Taken |-> HalfOfSequence(n, seedings[1])]
  <2>1. ASSUME NEW n \in 1 .. Taken
        PROVE  TimesGiven(outputs[n]) = Cardinality({i \in 1 .. Taken : outputs[i] = outputs[n]})
    <3>1. TimesGiven(outputs[n]) = Cardinality(Outputs(Taken, seedings[1], outputs[n]))
      BY DEF SequenceInv, AllCounted
    <3>2. Outputs(Taken, seedings[1], outputs[n]) = {i \in 1 .. Taken : outputs[i] = outputs[n]}
      BY DEF Outputs
    <3>3. QED
      BY <3>1, <3>2
  <2>2. QED
    BY <2>1 DEF OneSequence, Taken
<1>2. QED
  BY <1>1, AlwaysSequenceInv, PTL
-----------------------------------------------------------------------------
(* Checksums: polynomials over GF(2) are added, multiplied by powers of x  *)
(* and divided by one of degree 8 or more.                                 *)

(* A degree and the lower part of the polynomial that is divided by. *)
Divisor(degree, low) == degree \in Nat /\ degree >= 8 /\ low \in SUBSET (0 .. degree - 1)

Remainders(degree) == SUBSET (0 .. degree - 1)

(* The sum of two polynomials has no other exponents than they. *)
LEMMA XorInSet == \A S : \A a, b \in SUBSET S : BitXor(a, b) \in SUBSET S
BY DEF BitXor

(* The sum of two remainders is one. *)
LEMMA XorRemainders ==
  \A degree : \A a, b \in Remainders(degree) : BitXor(a, b) \in Remainders(degree)
BY XorInSet DEF Remainders

(* The polynomial p times x^n. *)
Times(p, n) == {e + n : e \in p}

(* Multiplying by a power of x is linear. *)
LEMMA TimesFacts ==
  ASSUME NEW p \in SUBSET Nat, NEW s \in SUBSET Nat, NEW n \in Nat, NEW m \in Nat
  PROVE  /\ Times(p, n) \in SUBSET Nat
         /\ Times(BitXor(p, s), n) = BitXor(Times(p, n), Times(s, n))
         /\ Times(Times(p, n), m) = Times(p, n + m)
         /\ Times(p, 0) = p
         /\ IsFiniteSet(p) => IsFiniteSet(Times(p, n))
<1>1. Times(p, n) \in SUBSET Nat
  BY DEF Times
<1>2. \A t \in SUBSET Nat : \A e \in Nat : e + n \in Times(t, n) <=> e \in t
  BY DEF Times
<1>3. \A t \in SUBSET Nat : \A x \in Times(t, n) : \E e \in Nat : x = e + n
  BY DEF Times
<1>4. Times(BitXor(p, s), n) = BitXor(Times(p, n), Times(s, n))
  <2>1. BitXor(p, s) \in SUBSET Nat
    BY XorInSet
  <2>2. \A e \in Nat : e \in BitXor(p, s) <=> ~(e \in p <=> e \in s)
    BY DEF BitXor
  <2>3. \A e \in Nat : e + n \in Times(BitXor(p, s), n) <=> ~(e + n \in Times(p, n) <=> e + n \in Times(s, n))
    BY <1>2, <2>1, <2>2
  <2>4. \A x \in Times(BitXor(p, s), n) : x \in BitXor(Times(p, n), Times(s, n))
    BY <1>3, <2>1, <2>3 DEF BitXor
  <2>5. \A x \in BitXor(Times(p, n), Times(s, n)) : x \in Times(BitXor(p, s), n)
    BY <1>3, <2>3 DEF BitXor
  <2>6. QED
    BY <2>4, <2>5
<1>5. Times(Times(p, n), m) = Times(p, n + m)
  <2>1. \A e \in p : (e + n) + m = e + (n + m)
    OBVIOUS
  <2>2. QED
    BY <2>1 DEF Times
<1>6. Times(p, 0) = p
  <2>1. \A e \in p : e + 0 = e
    OBVIOUS
  <2>2. QED
    BY <2>1 DEF Times
<1>7. IsFiniteSet(p) => IsFiniteSet(Times(p, n))
  <2> SUFFICES ASSUME IsFiniteSet(p) PROVE IsFiniteSet(Times(p, n))
    OBVIOUS
  <2> DEFINE f == [e \in p |-> e + n]
  <2>1. f \in Surjection(p, Times(p, n))
    BY DEF Times, Surjection
  <2>2. QED
    BY <2>1, FS_Surjection
<1>8. QED
  BY <1>1, <1>4, <1>5, <1>6, <1>7

(* Dividing one bit more is linear and stays in the register. *)
LEMMA DivideFacts ==
  ASSUME NEW degree, NEW low, Divisor(degree, low),
         NEW a \in Remainders(degree), NEW b \in Remainders(degree)
  PROVE  /\ DivideBit(a, degree, low) \in Remainders(degree)
         /\ DivideBit(BitXor(a, b), degree, low)
              = BitXor(DivideBit(a, degree, low), DivideBit(b, degree, low))
         /\ DivideBit({}, degree, low) = {}
<1> USE DEF Divisor, Remainders
<1>1. \A r \in Remainders(degree) : ShiftLeft(r, degree) \in Remainders(degree)
  <2> SUFFICES ASSUME NEW r \in Remainders(degree), NEW e \in r, e + 1 # degree
               PROVE  e + 1 \in 0 .. degree - 1
    BY DEF ShiftLeft
  <2>1. QED
    OBVIOUS
<1>2. \A r \in Remainders(degree) : DivideBit(r, degree, low) \in Remainders(degree)
  <2>1. \A x, y \in Remainders(degree) : BitXor(x, y) \in Remainders(degree)
    BY XorInSet
  <2>2. low \in Remainders(degree)
    OBVIOUS
  <2>3. \A r \in Remainders(degree) :
          DivideBit(r, degree, low) = IF degree - 1 \in r THEN BitXor(ShiftLeft(r, degree), low)
                                      ELSE ShiftLeft(r, degree)
    BY DEF DivideBit
  <2> HIDE DEF Remainders
  <2>4. QED
    BY <1>1, <2>1, <2>2, <2>3
<1>3. ShiftLeft(BitXor(a, b), degree) = BitXor(ShiftLeft(a, degree), ShiftLeft(b, degree))
  <2>1. \A r \in SUBSET Nat : ShiftLeft(r, degree) = Times(r, 1) \ {degree}
    BY DEF ShiftLeft, Times
  <2>2. a \in SUBSET Nat /\ b \in SUBSET Nat
    OBVIOUS
  <2>3. BitXor(a, b) \in SUBSET Nat /\ Times(BitXor(a, b), 1) = BitXor(Times(a, 1), Times(b, 1))
    <3>1. 1 \in Nat
      OBVIOUS
    <3>2. BitXor(a, b) \in SUBSET Nat
      BY <2>2, XorInSet
    <3>3. Times(BitXor(a, b), 1) = BitXor(Times(a, 1), Times(b, 1))
      BY <2>2, <3>1, TimesFacts
    <3>4. QED
      BY <3>2, <3>3
  <2>4. BitXor(Times(a, 1), Times(b, 1)) \ {degree} = BitXor(Times(a, 1) \ {degree}, Times(b, 1) \ {degree})
    BY DEF BitXor
  <2>5. QED
    BY <2>1, <2>2, <2>3, <2>4
<1>4. degree - 1 \in BitXor(a, b) <=> ~(degree - 1 \in a <=> degree - 1 \in b)
  BY DEF BitXor
<1>5. DivideBit(BitXor(a, b), degree, low) = BitXor(DivideBit(a, degree, low), DivideBit(b, degree, low))
  <2> DEFINE s == ShiftLeft(a, degree)
             t == ShiftLeft(b, degree)
  <2>1. /\ DivideBit(a, degree, low) = IF degree - 1 \in a THEN BitXor(s, low) ELSE s
        /\ DivideBit(b, degree, low) = IF degree - 1 \in b THEN BitXor(t, low) ELSE t
        /\ DivideBit(BitXor(a, b), degree, low) =
             IF degree - 1 \in BitXor(a, b) THEN BitXor(BitXor(s, t), low) ELSE BitXor(s, t)
    BY <1>3 DEF DivideBit
  <2> HIDE DEF s, t
  <2>2. BitXor(BitXor(s, low), BitXor(t, low)) = BitXor(s, t)
    BY DEF BitXor
  <2>3. BitXor(BitXor(s, t), low) = BitXor(s, BitXor(t, low))
    BY DEF BitXor
  <2>4. BitXor(BitXor(s, t), low) = BitXor(BitXor(s, low), t)
    BY DEF BitXor
  <2>5. QED
    BY <1>4, <2>1, <2>2, <2>3, <2>4
<1>6. DivideBit({}, degree, low) = {}
  BY DEF DivideBit, ShiftLeft
<1>7. QED
  BY <1>2, <1>5, <1>6

(* The function that PowerOfX computes with. *)
Raised(x, degree, low) ==
  LET raised == {e + 1 : e \in x}
  IN IF degree \in raised THEN BitXor(raised \ {degree}, low) ELSE raised

(* It divides. *)
LEMMA RaisedDivides ==
  ASSUME NEW degree, NEW low, Divisor(degree, low), NEW x \in Remainders(degree)
  PROVE  Raised(x, degree, low) = DivideBit(x, degree, low)
<1> DEFINE raised == {e + 1 : e \in x}
<1>1. degree \in raised <=> degree - 1 \in x
  <2>1. \A e \in x : e \in Nat
    BY DEF Remainders, Divisor
  <2>2. degree \in Nat /\ (degree - 1) + 1 = degree
    BY DEF Divisor
  <2>3. \A e \in x : degree = e + 1 => e = degree - 1
    BY <2>1, <2>2
  <2>4. QED
    BY <2>2, <2>3
<1>2. ShiftLeft(x, degree) = raised \ {degree}
  BY DEF ShiftLeft
<1>3. degree \notin raised => raised \ {degree} = raised
  OBVIOUS
<1>4. Raised(x, degree, low) = IF degree \in raised THEN BitXor(raised \ {degree}, low) ELSE raised
  BY DEF Raised
<1>5. QED
  BY <1>1, <1>2, <1>3, <1>4 DEF DivideBit

(* A bit more, as a function. *)
Divides(degree, low) == [x \in Remainders(degree) |-> DivideBit(x, degree, low)]

(* A remainder stays one. *)
LEMMA DividesStays ==
  ASSUME NEW degree, NEW low, Divisor(degree, low)
  PROVE  \A x \in Remainders(degree) : /\ Divides(degree, low)[x] = DivideBit(x, degree, low)
                                        /\ Divides(degree, low)[x] \in Remainders(degree)
BY DivideFacts DEF Divides

(* PowerOfX divides in a loop. *)
LEMMA PowerLoops ==
  ASSUME NEW degree, NEW low, Divisor(degree, low), NEW n \in Nat
  PROVE  \E f : /\ Loops(f, n, Remainders(degree), {0}, Divides(degree, low))
                /\ PowerOfX(n, degree, low) = f[n]
<1> DEFINE V == Remainders(degree)
           step == Divides(degree, low)
           g == CHOOSE g : g = [i \in 0 .. n |-> IF i = 0 THEN {0} ELSE Raised(g[i - 1], degree, low)]
<1>1. PowerOfX(n, degree, low) = g[n]
  BY DEF PowerOfX, Raised
<1>2. {0} \in V
  BY DEF Remainders, Divisor
<1>3. \A x \in V : step[x] = Raised(x, degree, low) /\ step[x] \in V
  BY DividesStays, RaisedDivides
<1> HIDE DEF V, step
<1>4. PICK f : Loops(f, n, V, {0}, step)
  BY <1>2, <1>3, LoopExists
<1>5. f = [i \in 0 .. n |-> IF i = 0 THEN {0} ELSE Raised(f[i - 1], degree, low)]
  <2>1. \A i \in 0 .. n : i # 0 => i - 1 \in 0 .. n
    OBVIOUS
  <2>2. \A i \in 0 .. n : f[i] = IF i = 0 THEN {0} ELSE Raised(f[i - 1], degree, low)
    BY <1>3, <1>4, <2>1 DEF Loops
  <2>3. f \in [0 .. n -> V]
    BY <1>4 DEF Loops
  <2>4. QED
    BY <2>2, <2>3
<1>6. g = [i \in 0 .. n |-> IF i = 0 THEN {0} ELSE Raised(g[i - 1], degree, low)]
  BY <1>5
<1> HIDE DEF g
<1>7. \A i \in 0 .. n : g[i] = IF i = 0 THEN {0} ELSE Raised(g[i - 1], degree, low)
  BY <1>6
<1>8. g[n] = f[n]
  <2>1. \A i \in 1 .. n : g[i - 1] \in V => g[i] = step[g[i - 1]]
    BY <1>3, <1>7
  <2>2. g[0] = {0} /\ n \in 0 .. n
    BY <1>7
  <2> DEFINE one == {0}
  <2>3. g[0] = one /\ Loops(f, n, V, one, step)
    BY <1>4, <2>2
  <2> HIDE DEF one
  <2>4. QED
    BY <2>1, <2>2, <2>3, LoopUnique
<1>9. QED
  BY <1>1, <1>4, <1>8 DEF V, step

(* The powers of x, one after another. *)
LEMMA PowerFacts ==
  ASSUME NEW degree, NEW low, Divisor(degree, low), NEW n \in Nat
  PROVE  /\ PowerOfX(n, degree, low) \in Remainders(degree)
         /\ PowerOfX(0, degree, low) = {0}
         /\ PowerOfX(n + 1, degree, low) = DivideBit(PowerOfX(n, degree, low), degree, low)
<1> DEFINE V == Remainders(degree)
           step == Divides(degree, low)
<1>1. \A m \in Nat : \E f : Loops(f, m, V, {0}, step) /\ PowerOfX(m, degree, low) = f[m]
  BY PowerLoops
<1> HIDE DEF V, step
<1>2. PICK f : Loops(f, n, V, {0}, step) /\ PowerOfX(n, degree, low) = f[n]
  BY <1>1
<1>3. PICK g : Loops(g, n + 1, V, {0}, step) /\ PowerOfX(n + 1, degree, low) = g[n + 1]
  <2>1. n + 1 \in Nat
    OBVIOUS
  <2>2. QED
    BY <1>1, <2>1
<1>4. PICK h : Loops(h, 0, V, {0}, step) /\ PowerOfX(0, degree, low) = h[0]
  <2>1. 0 \in Nat
    OBVIOUS
  <2>2. QED
    BY <1>1, <2>1
<1>5. f[n] \in V /\ g[n + 1] = step[f[n]]
  BY <1>2, <1>3, LoopOnce
<1>6. h[0] = {0}
  BY <1>4 DEF Loops
<1>7. step[f[n]] = DivideBit(f[n], degree, low)
  BY <1>5, DividesStays DEF V, step
<1>8. QED
  BY <1>2, <1>3, <1>4, <1>5, <1>6, <1>7 DEF V
-----------------------------------------------------------------------------
(* DivideByte divides the register, with the byte in it, eight times. *)
LEMMA ByteLoops ==
  ASSUME NEW degree, NEW low, Divisor(degree, low), NEW r \in Remainders(degree),
         NEW byte \in SUBSET (0 .. 7)
  PROVE  /\ BitXor(r, Times(byte, degree - 8)) \in Remainders(degree)
         /\ \E f : /\ Loops(f, 8, Remainders(degree), BitXor(r, Times(byte, degree - 8)),
                            Divides(degree, low))
                   /\ DivideByte(r, byte, degree, low) = f[8]
<1> DEFINE V == Remainders(degree)
           step == Divides(degree, low)
           first == BitXor(r, Times(byte, degree - 8))
           start == BitXor(r, {b + degree - 8 : b \in byte})
           g == CHOOSE g : g = [bits \in 0 .. 8 |-> IF bits = 0 THEN start
                                                    ELSE DivideBit(g[bits - 1], degree, low)]
<1>1. DivideByte(r, byte, degree, low) = g[8]
  BY DEF DivideByte
<1>2. start = first
  <2>1. \A b \in byte : b + degree - 8 = b + (degree - 8)
    BY DEF Divisor
  <2>2. {b + degree - 8 : b \in byte} = Times(byte, degree - 8)
    BY <2>1 DEF Times
  <2>3. QED
    BY <2>2
<1>3. first \in V
  <2>1. \A b \in byte : b + (degree - 8) \in 0 .. degree - 1
    BY DEF Divisor
  <2>2. Times(byte, degree - 8) \in SUBSET (0 .. degree - 1)
    BY <2>1 DEF Times
  <2>3. Times(byte, degree - 8) \in Remainders(degree)
    BY <2>2 DEF Remainders
  <2>4. QED
    BY <2>3, XorRemainders
<1>4. \A x \in V : step[x] = DivideBit(x, degree, low) /\ step[x] \in V
  BY DividesStays
<1> HIDE DEF V, step, first, start
<1>5. 8 \in Nat
  OBVIOUS
<1>6. PICK f : Loops(f, 8, V, first, step)
  BY <1>3, <1>4, <1>5, LoopExists
<1>7. f = [bits \in 0 .. 8 |-> IF bits = 0 THEN start ELSE DivideBit(f[bits - 1], degree, low)]
  <2>1. \A i \in 0 .. 8 : i # 0 => i - 1 \in 0 .. 8
    OBVIOUS
  <2>2. f \in [0 .. 8 -> V]
    BY <1>6 DEF Loops
  <2>3. \A i \in 0 .. 8 : f[i] = IF i = 0 THEN start ELSE step[f[i - 1]]
    BY <1>2, <1>6 DEF Loops
  <2>4. \A i \in 0 .. 8 : i # 0 => step[f[i - 1]] = DivideBit(f[i - 1], degree, low)
    BY <1>4, <2>1, <2>2
  <2>5. \A i \in 0 .. 8 : f[i] = IF i = 0 THEN start ELSE DivideBit(f[i - 1], degree, low)
    BY <2>3, <2>4
  <2>6. QED
    BY <2>2, <2>5
<1>8. g = [bits \in 0 .. 8 |-> IF bits = 0 THEN start ELSE DivideBit(g[bits - 1], degree, low)]
  BY <1>7
<1> HIDE DEF g
<1>9. \A i \in 0 .. 8 : g[i] = IF i = 0 THEN start ELSE DivideBit(g[i - 1], degree, low)
  BY <1>8
<1>10. g[8] = f[8]
  <2>1. \A i \in 1 .. 8 : i \in 0 .. 8 /\ i # 0
    OBVIOUS
  <2>2. \A i \in 1 .. 8 : g[i - 1] \in V => g[i] = step[g[i - 1]]
    BY <1>4, <1>9, <2>1
  <2>3. g[0] = first /\ 8 \in 0 .. 8
    BY <1>2, <1>9
  <2>4. QED
    BY <1>5, <1>6, <2>2, <2>3, LoopUnique
<1>11. QED
  BY <1>1, <1>3, <1>6, <1>10 DEF V, step, first

(* Residue adds the powers of x up, one after another. *)
AddsPower(degree, low) ==
  [p \in Nat \X Remainders(degree) |-> BitXor(PowerOfX(p[1], degree, low), p[2])]

AnyExponent == [s \in SUBSET Nat |-> CHOOSE e \in s : TRUE]

(* Such a sum is a remainder. *)
LEMMA AddsPowerFacts ==
  ASSUME NEW degree, NEW low, Divisor(degree, low)
  PROVE  \A e \in Nat, r \in Remainders(degree) :
           /\ AddsPower(degree, low)[<<e, r>>] = BitXor(PowerOfX(e, degree, low), r)
           /\ AddsPower(degree, low)[<<e, r>>] \in Remainders(degree)
<1> TAKE e \in Nat, r \in Remainders(degree)
<1>1. AddsPower(degree, low)[<<e, r>>] = BitXor(PowerOfX(e, degree, low), r)
  BY DEF AddsPower
<1>2. PowerOfX(e, degree, low) \in Remainders(degree)
  BY PowerFacts
<1>3. BitXor(PowerOfX(e, degree, low), r) \in Remainders(degree)
  BY <1>2, XorRemainders
<1>4. QED
  BY <1>1, <1>3

(* The residue is a recursive function over sets of exponents. *)
LEMMA ResidueGathers ==
  ASSUME NEW degree, NEW low, Divisor(degree, low), NEW p \in SUBSET Nat, IsFiniteSet(p)
  PROVE  \E f : /\ Gathers(f, p, Remainders(degree), {}, AddsPower(degree, low), AnyExponent)
                /\ Residue(p, degree, low) = f[p]
<1> DEFINE Body(f) == [s \in SUBSET p |-> IF s = {} THEN {}
                         ELSE BitXor(PowerOfX(CHOOSE e \in s : TRUE, degree, low),
                                     f[s \ {CHOOSE e \in s : TRUE}])]
           f == CHOOSE h : h = Body(h)
           step == AddsPower(degree, low)
           choose == AnyExponent
           V == Remainders(degree)
<1>1. Residue(p, degree, low) = f[p]
  BY DEF Residue, FoldSet, MapThenFoldSet
<1> HIDE DEF f, Body
<1>2. \A s \in SUBSET p : choose[s] = CHOOSE e \in s : TRUE
  BY DEF AnyExponent
<1>3. Chooses(choose, p)
  <2>1. \A s \in SUBSET p : s # {} => (CHOOSE e \in s : TRUE) \in s
    OBVIOUS
  <2>2. QED
    BY <1>2, <2>1 DEF Chooses
<1>4. \A e \in p, r \in V : step[<<e, r>>] = BitXor(PowerOfX(e, degree, low), r) /\ step[<<e, r>>] \in V
  BY AddsPowerFacts
<1>5. {} \in V
  BY DEF Remainders
<1> HIDE DEF step, choose, V
<1>6. f = Body(f)
  <2> DEFINE none == {}
  <2>1. none \in V
    BY <1>5
  <2> HIDE DEF none
  <2>2. PICK h : Gathers(h, p, V, none, step, choose)
    BY <1>3, <1>4, <2>1, GatherExists
  <2>3. \A s \in SUBSET p : h[s] = IF s = {} THEN none
           ELSE BitXor(PowerOfX(CHOOSE e \in s : TRUE, degree, low), h[s \ {CHOOSE e \in s : TRUE}])
    <3> SUFFICES ASSUME NEW s \in SUBSET p
                 PROVE  h[s] = IF s = {} THEN none
                     ELSE BitXor(PowerOfX(CHOOSE e \in s : TRUE, degree, low), h[s \ {CHOOSE e \in s : TRUE}])
      OBVIOUS
    <3>1. h[s] = IF s = {} THEN none ELSE step[<<choose[s], h[s \ {choose[s]}]>>]
      BY <2>2, Gathered
    <3>2. choose[s] = CHOOSE e \in s : TRUE
      BY <1>2
    <3>3. s # {} => choose[s] \in p /\ h[s \ {choose[s]}] \in V
      BY <1>3, <2>2 DEF Chooses, Gathers
    <3>4. s # {} => step[<<choose[s], h[s \ {choose[s]}]>>]
                      = BitXor(PowerOfX(choose[s], degree, low), h[s \ {choose[s]}])
      BY <1>4, <3>3
    <3>5. QED
      BY <3>1, <3>2, <3>4
  <2>4. h = Body(h)
    <3>1. h \in [SUBSET p -> V]
      BY <2>2 DEF Gathers
    <3>2. h = [s \in SUBSET p |-> h[s]]
      BY <3>1
    <3>3. QED
      BY <2>3, <3>2 DEF Body, none
  <2>5. \E x : x = Body(x)
    BY <2>4
  <2> HIDE DEF Body
  <2>6. QED
    BY <2>5, Zenon DEF f
<1>7. DOMAIN f = SUBSET p /\ \A s \in SUBSET p :
         f[s] = IF s = {} THEN {} ELSE BitXor(PowerOfX(choose[s], degree, low), f[s \ {choose[s]}])
  <2>1. DOMAIN f = DOMAIN Body(f) /\ \A s \in SUBSET p : f[s] = Body(f)[s]
    BY <1>6
  <2>2. QED
    BY <1>2, <2>1 DEF Body
<1> DEFINE T == {s \in SUBSET p : f[s] \in V}
<1>8. \A s \in SUBSET p : f[s] \in V
  <2>1. ASSUME NEW s \in SUBSET p, \A e \in s : s \ {e} \in T PROVE s \in T
    <3>1. CASE s = {}
      <4>1. f[s] = {}
        BY <1>7, <3>1, Zenon
      <4>2. QED
        BY <1>5, <4>1
    <3>2. CASE s # {}
      <4>1. choose[s] \in s
        BY <1>3, <3>2 DEF Chooses
      <4>2. f[s \ {choose[s]}] \in V /\ choose[s] \in p
        BY <2>1, <4>1
      <4>3. f[s] = BitXor(PowerOfX(choose[s], degree, low), f[s \ {choose[s]}])
        BY <1>7, <3>2
      <4>4. f[s] = step[<<choose[s], f[s \ {choose[s]}]>>]
        BY <1>4, <4>2, <4>3
      <4>5. f[s] \in V
        BY <1>4, <4>2, <4>4
      <4>6. QED
        BY <4>5
    <3>3. QED
      BY <3>1, <3>2
  <2> HIDE DEF T
  <2>2. \A s \in SUBSET p : s \in T
    BY <2>1, SubsetInduction
  <2>3. QED
    BY <2>2 DEF T
<1>9. \A s \in SUBSET p : f[s] = IF s = {} THEN {} ELSE step[<<choose[s], f[s \ {choose[s]}]>>]
  <2> SUFFICES ASSUME NEW s \in SUBSET p
               PROVE  f[s] = IF s = {} THEN {} ELSE step[<<choose[s], f[s \ {choose[s]}]>>]
    OBVIOUS
  <2>1. f[s] = IF s = {} THEN {} ELSE BitXor(PowerOfX(choose[s], degree, low), f[s \ {choose[s]}])
    BY <1>7
  <2>2. s # {} => choose[s] \in p /\ f[s \ {choose[s]}] \in V
    BY <1>3, <1>8 DEF Chooses
  <2>3. QED
    BY <1>4, <2>1, <2>2
<1>10. f = [s \in SUBSET p |-> f[s]]
  <2>1. f = Body(f)
    BY <1>6
  <2>2. QED
    BY <2>1 DEF Body
<1>11. f \in [SUBSET p -> V]
  BY <1>8, <1>10
<1>12. f = [s \in SUBSET p |-> IF s = {} THEN {} ELSE step[<<choose[s], f[s \ {choose[s]}]>>]]
  BY <1>9, <1>10
<1>13. Gathers(f, p, V, {}, step, choose)
  BY <1>11, <1>12, Zenon DEF Gathers
<1>14. QED
  BY <1>1, <1>13 DEF step, choose, V
-----------------------------------------------------------------------------
(* An exponent more adds its power to the residue. *)
LEMMA ResidueAdds ==
  ASSUME NEW degree, NEW low, Divisor(degree, low), NEW p \in SUBSET Nat, IsFiniteSet(p),
         NEW e \in Nat, e \notin p
  PROVE  /\ Residue(p, degree, low) \in Remainders(degree)
         /\ Residue(p \cup {e}, degree, low)
              = BitXor(PowerOfX(e, degree, low), Residue(p, degree, low))
<1> DEFINE U == p \cup {e}
           V == Remainders(degree)
           step == AddsPower(degree, low)
           choose == AnyExponent
           none == {}
<1>1. IsFiniteSet(U) /\ U \in SUBSET Nat /\ p \in SUBSET U /\ U \ {e} = p /\ e \in U
  BY FS_AddElement
<1>2. PICK f : Gathers(f, p, V, none, step, choose) /\ Residue(p, degree, low) = f[p]
  BY ResidueGathers
<1> HIDE DEF U
<1>3. PICK g : Gathers(g, U, V, none, step, choose) /\ Residue(U, degree, low) = g[U]
  BY <1>1, ResidueGathers
<1>4. Chooses(choose, U)
  BY <1>1 DEF Chooses, AnyExponent
<1>5. \A x \in Nat, r \in V : step[<<x, r>>] = BitXor(PowerOfX(x, degree, low), r) /\ step[<<x, r>>] \in V
  BY AddsPowerFacts
<1> HIDE DEF V, step, choose, none
<1>6. Commutes(step, U, V)
  <2> SUFFICES ASSUME NEW x \in U, NEW y \in U, NEW r \in V
               PROVE  step[<<x, step[<<y, r>>]>>] = step[<<y, step[<<x, r>>]>>]
    BY DEF Commutes
  <2>1. x \in Nat /\ y \in Nat
    BY <1>1
  <2> DEFINE a == PowerOfX(x, degree, low)
             b == PowerOfX(y, degree, low)
  <2>2. step[<<x, step[<<y, r>>]>>] = BitXor(a, BitXor(b, r))
    BY <1>5, <2>1
  <2>3. step[<<y, step[<<x, r>>]>>] = BitXor(b, BitXor(a, r))
    BY <1>5, <2>1
  <2> HIDE DEF a, b
  <2>4. BitXor(a, BitXor(b, r)) = BitXor(b, BitXor(a, r))
    BY XorFacts
  <2>5. QED
    BY <2>2, <2>3, <2>4
<1>7. g[U] = step[<<e, g[p]>>]
  <2>1. U \in SUBSET U
    OBVIOUS
  <2>2. g[U] = step[<<e, g[U \ {e}]>>]
    BY <1>1, <1>3, <1>4, <1>6, <2>1, GatherAny
  <2>3. QED
    BY <1>1, <2>2
<1>8. g[p] = f[p]
  BY <1>1, <1>2, <1>3, <1>4, GatherAgree
<1>9. f[p] \in V
  BY <1>2 DEF Gathers
<1>10. QED
  BY <1>2, <1>3, <1>5, <1>7, <1>8, <1>9 DEF U, V

(* No exponents, no residue. *)
LEMMA ResidueNone ==
  ASSUME NEW degree, NEW low, Divisor(degree, low)
  PROVE  Residue({}, degree, low) = {}
<1> DEFINE p == {}
           V == Remainders(degree)
           step == AddsPower(degree, low)
           choose == AnyExponent
           none == {}
<1>1. p \in SUBSET Nat /\ IsFiniteSet(p) /\ p \in SUBSET p /\ p = {} /\ none = {}
  BY FS_EmptySet
<1> HIDE DEF p
<1>2. PICK f : Gathers(f, p, V, none, step, choose) /\ Residue(p, degree, low) = f[p]
  BY <1>1, ResidueGathers
<1> HIDE DEF V, step, choose, none
<1>3. f[p] = IF p = {} THEN none ELSE step[<<choose[p], f[p \ {choose[p]}]>>]
  <2>1. Gathers(f, p, V, none, step, choose) /\ p \in SUBSET p
    BY <1>1, <1>2
  <2>2. QED
    BY <2>1, Gathered
<1>4. f[p] = {}
  BY <1>1, <1>3
<1>5. QED
  BY <1>1, <1>2, <1>4

(* An exponent is added or taken away: the residue changes by its power. *)
LEMMA ResidueToggles ==
  ASSUME NEW degree, NEW low, Divisor(degree, low), NEW p \in SUBSET Nat, IsFiniteSet(p),
         NEW e \in Nat
  PROVE  /\ Residue(p, degree, low) \in Remainders(degree)
         /\ Residue(BitXor(p, {e}), degree, low)
              = BitXor(PowerOfX(e, degree, low), Residue(p, degree, low))
<1>1. CASE e \notin p
  <2>1. BitXor(p, {e}) = p \cup {e}
    BY <1>1 DEF BitXor
  <2>2. QED
    BY <1>1, <2>1, ResidueAdds
<1>2. CASE e \in p
  <2> DEFINE s == p \ {e}
  <2>1. BitXor(p, {e}) = s /\ s \cup {e} = p /\ e \notin s /\ s \in SUBSET Nat
    BY <1>2 DEF BitXor
  <2>2. IsFiniteSet(s)
    BY FS_RemoveElement
  <2> HIDE DEF s
  <2>3. /\ Residue(s, degree, low) \in Remainders(degree)
        /\ Residue(p, degree, low) = BitXor(PowerOfX(e, degree, low), Residue(s, degree, low))
    BY <2>1, <2>2, ResidueAdds
  <2>4. PowerOfX(e, degree, low) \in Remainders(degree)
    BY PowerFacts
  <2>5. Residue(p, degree, low) \in Remainders(degree)
    BY <2>3, <2>4, XorRemainders
  <2>6. \A a, b, c : c = BitXor(a, b) => b = BitXor(a, c)
    BY XorFacts
  <2>7. QED
    BY <2>1, <2>3, <2>5, <2>6
<1>3. QED
  BY <1>1, <1>2

(* Reduction is linear. *)
LEMMA ResidueLinear ==
  ASSUME NEW degree, NEW low, Divisor(degree, low), NEW p \in SUBSET Nat, IsFiniteSet(p),
         NEW q \in SUBSET Nat, IsFiniteSet(q)
  PROVE  Residue(BitXor(p, q), degree, low)
           = BitXor(Residue(p, degree, low), Residue(q, degree, low))
<1> DEFINE R(t) == Residue(t, degree, low)
           P(e) == PowerOfX(e, degree, low)
           T == {s \in SUBSET q : R(BitXor(p, s)) = BitXor(R(p), R(s))}
<1>1. \A t \in SUBSET Nat, e \in Nat : IsFiniteSet(t) => R(BitXor(t, {e})) = BitXor(P(e), R(t))
  BY ResidueToggles
<1>2. R({}) = {}
  BY ResidueNone
<1>3. \A s \in SUBSET q : s \in SUBSET Nat /\ IsFiniteSet(s)
  BY FS_Subset
<1>4. \A s \in SUBSET q : BitXor(p, s) \in SUBSET Nat /\ IsFiniteSet(BitXor(p, s))
  <2> SUFFICES ASSUME NEW s \in SUBSET q PROVE BitXor(p, s) \in SUBSET Nat /\ IsFiniteSet(BitXor(p, s))
    OBVIOUS
  <2>1. IsFiniteSet(p \cup s)
    BY <1>3, FS_Union
  <2>2. BitXor(p, s) \subseteq p \cup s
    BY DEF BitXor
  <2>3. QED
    BY <1>3, <2>1, <2>2, FS_Subset
<1> HIDE DEF R, P
<1>5. ASSUME NEW s \in SUBSET q, \A x \in s : s \ {x} \in T PROVE s \in T
  <2>1. CASE s = {}
    <3>1. BitXor(p, s) = p /\ BitXor(R(p), R(s)) = R(p)
      BY <1>2, <2>1, XorFacts
    <3>2. QED
      BY <3>1
  <2>2. CASE s # {}
    <3>1. PICK x \in s : TRUE
      BY <2>2
    <3> DEFINE r == s \ {x}
    <3>2. r \in SUBSET q /\ BitXor(r, {x}) = s /\ x \in Nat
      BY <1>3 DEF BitXor
    <3>3. R(BitXor(p, r)) = BitXor(R(p), R(r))
      BY <1>5
    <3> HIDE DEF r
    <3>4. R(s) = BitXor(P(x), R(r))
      BY <1>1, <1>3, <3>2
    <3>5. BitXor(p, s) = BitXor(BitXor(p, r), {x})
      BY <3>2, XorFacts
    <3>6. R(BitXor(p, s)) = BitXor(P(x), R(BitXor(p, r)))
      BY <1>1, <1>4, <3>2, <3>5
    <3>7. BitXor(P(x), BitXor(R(p), R(r))) = BitXor(R(p), BitXor(P(x), R(r)))
      BY XorFacts
    <3>8. QED
      BY <3>3, <3>4, <3>6, <3>7
  <2>3. QED
    BY <2>1, <2>2
<1> HIDE DEF T
<1>6. \A s \in SUBSET q : s \in T
  BY <1>5, SubsetInduction
<1>7. q \in T
  BY <1>6
<1>8. QED
  BY <1>7 DEF T, R

(* A bit more of the division is a multiplication by x. *)
LEMMA ResidueShifts ==
  ASSUME NEW degree, NEW low, Divisor(degree, low), NEW p \in SUBSET Nat, IsFiniteSet(p)
  PROVE  Residue(Times(p, 1), degree, low) = DivideBit(Residue(p, degree, low), degree, low)
<1> DEFINE R(t) == Residue(t, degree, low)
           P(e) == PowerOfX(e, degree, low)
           D(r) == DivideBit(r, degree, low)
           T == {s \in SUBSET p : R(Times(s, 1)) = D(R(s))}
<1>1. \A t \in SUBSET Nat, e \in Nat : IsFiniteSet(t) =>
        /\ R(t) \in Remainders(degree)
        /\ R(BitXor(t, {e})) = BitXor(P(e), R(t))
  BY ResidueToggles
<1>2. R({}) = {} /\ D({}) = {}
  <2>1. {} \in Remainders(degree)
    BY DEF Remainders
  <2>2. QED
    BY <2>1, ResidueNone, DivideFacts
<1>3. \A s \in SUBSET p : s \in SUBSET Nat /\ IsFiniteSet(s)
  BY FS_Subset
<1>4. \A e \in Nat : e + 1 \in Nat /\ P(e) \in Remainders(degree) /\ P(e + 1) = D(P(e))
  BY PowerFacts
<1>5. \A a, b \in Remainders(degree) : D(BitXor(a, b)) = BitXor(D(a), D(b))
  BY DivideFacts
<1>6. \A s \in SUBSET p : Times(s, 1) \in SUBSET Nat /\ IsFiniteSet(Times(s, 1))
  <2>1. 1 \in Nat
    OBVIOUS
  <2>2. QED
    BY <1>3, <2>1, TimesFacts
<1> HIDE DEF R, P, D
<1>7. ASSUME NEW s \in SUBSET p, \A x \in s : s \ {x} \in T PROVE s \in T
  <2>1. CASE s = {}
    <3>1. Times(s, 1) = {}
      BY <2>1 DEF Times
    <3>2. QED
      BY <1>2, <2>1, <3>1
  <2>2. CASE s # {}
    <3>1. PICK x \in s : TRUE
      BY <2>2
    <3> DEFINE r == s \ {x}
    <3>2. r \in SUBSET p /\ BitXor(r, {x}) = s /\ x \in Nat
      BY <1>3 DEF BitXor
    <3>3. R(Times(r, 1)) = D(R(r))
      BY <1>7
    <3>4. Times(s, 1) = BitXor(Times(r, 1), {x + 1})
      <4>1. {x} \in SUBSET Nat /\ r \in SUBSET Nat /\ 1 \in Nat
        BY <1>3, <3>2
      <4>2. Times(BitXor(r, {x}), 1) = BitXor(Times(r, 1), Times({x}, 1))
        <5> DEFINE one == {x}
        <5>1. one \in SUBSET Nat
          BY <4>1
        <5> HIDE DEF r, one
        <5>2. \A n \in Nat : Times(BitXor(r, one), n) = BitXor(Times(r, n), Times(one, n))
          BY <4>1, <5>1, TimesFacts
        <5>3. QED
          BY <4>1, <5>2 DEF one
      <4>3. Times({x}, 1) = {x + 1}
        BY DEF Times
      <4>4. QED
        BY <3>2, <4>2, <4>3
    <3> HIDE DEF r
    <3>5. R(s) = BitXor(P(x), R(r)) /\ R(r) \in Remainders(degree)
      BY <1>1, <1>3, <3>2
    <3>6. R(Times(s, 1)) = BitXor(P(x + 1), R(Times(r, 1)))
      BY <1>1, <1>4, <1>6, <3>2, <3>4
    <3>7. D(R(s)) = BitXor(D(P(x)), D(R(r)))
      BY <1>4, <1>5, <3>2, <3>5
    <3>8. QED
      BY <1>4, <3>2, <3>3, <3>6, <3>7
  <2>3. QED
    BY <2>1, <2>2
<1> HIDE DEF T
<1>8. \A s \in SUBSET p : s \in T
  BY <1>7, SubsetInduction
<1>9. p \in T
  BY <1>8
<1>10. QED
  BY <1>9 DEF T, R, D

(* Lower powers are reduced already. *)
LEMMA LowPowers ==
  ASSUME NEW degree, NEW low, Divisor(degree, low)
  PROVE  \A e \in 0 .. degree - 1 : PowerOfX(e, degree, low) = {e}
<1> DEFINE T == {e \in 0 .. degree - 1 : PowerOfX(e, degree, low) = {e}}
<1>1. degree \in Nat /\ degree >= 8
  BY DEF Divisor
<1>2. 0 \in T
  <2>1. 0 \in Nat /\ 0 \in 0 .. degree - 1
    BY <1>1
  <2>2. QED
    BY <2>1, PowerFacts
<1>3. ASSUME NEW e \in 0 .. (degree - 1) - 1, e \in T PROVE e + 1 \in T
  <2>1. e \in Nat /\ e + 1 \in 0 .. degree - 1 /\ e # degree - 1 /\ e + 1 # degree
    BY <1>1
  <2>2. PowerOfX(e + 1, degree, low) = DivideBit({e}, degree, low)
    <3>1. PowerOfX(e + 1, degree, low) = DivideBit(PowerOfX(e, degree, low), degree, low)
      BY <2>1, PowerFacts
    <3>2. QED
      BY <1>3, <3>1
  <2>3. ShiftLeft({e}, degree) = {e + 1}
    BY <2>1 DEF ShiftLeft
  <2>4. degree - 1 \notin {e}
    BY <2>1
  <2>5. DivideBit({e}, degree, low) = {e + 1}
    BY <2>3, <2>4 DEF DivideBit
  <2>6. QED
    BY <2>1, <2>2, <2>5
<1> HIDE DEF T
<1>4. \A e \in 0 .. degree - 1 : e \in T
  <2>1. 0 \in Int /\ degree - 1 \in Int
    BY <1>1
  <2>2. QED
    BY <1>2, <1>3, <2>1, Induction
<1>5. QED
  BY <1>4 DEF T

(* A remainder is its own residue. *)
LEMMA ResidueStays ==
  ASSUME NEW degree, NEW low, Divisor(degree, low), NEW p \in Remainders(degree)
  PROVE  p \in SUBSET Nat /\ IsFiniteSet(p) /\ Residue(p, degree, low) = p
<1> DEFINE R(t) == Residue(t, degree, low)
           T == {s \in SUBSET p : R(s) = s}
<1>1. degree \in Nat /\ 0 .. degree - 1 \subseteq Nat /\ p \subseteq 0 .. degree - 1
  BY DEF Divisor, Remainders
<1>2. p \in SUBSET Nat /\ IsFiniteSet(p)
  <2>1. 0 \in Int /\ degree - 1 \in Int
    BY <1>1
  <2>2. IsFiniteSet(0 .. degree - 1)
    BY <2>1, FS_Interval
  <2>3. QED
    BY <1>1, <2>2, FS_Subset
<1>3. \A t \in SUBSET Nat, e \in Nat :
        IsFiniteSet(t) => R(BitXor(t, {e})) = BitXor(PowerOfX(e, degree, low), R(t))
  BY ResidueToggles
<1>4. R({}) = {}
  BY ResidueNone
<1>5. \A s \in SUBSET p : s \in SUBSET Nat /\ IsFiniteSet(s)
  BY <1>2, FS_Subset
<1>6. \A e \in p : e \in Nat /\ PowerOfX(e, degree, low) = {e}
  BY <1>1, LowPowers
<1> HIDE DEF R
<1>7. ASSUME NEW s \in SUBSET p, \A x \in s : s \ {x} \in T PROVE s \in T
  <2>1. CASE s = {}
    BY <1>4, <2>1
  <2>2. CASE s # {}
    <3>1. PICK x \in s : TRUE
      BY <2>2
    <3> DEFINE r == s \ {x}
    <3>2. r \in SUBSET p /\ BitXor(r, {x}) = s /\ x \in Nat /\ x \in p
      BY <1>6 DEF BitXor
    <3>3. R(r) = r
      BY <1>7
    <3> HIDE DEF r
    <3>4. R(s) = BitXor({x}, R(r))
      BY <1>3, <1>5, <1>6, <3>2
    <3>5. BitXor({x}, r) = s
      BY <3>2, XorFacts
    <3>6. QED
      BY <3>3, <3>4, <3>5
  <2>3. QED
    BY <2>1, <2>2
<1> HIDE DEF T
<1>8. \A s \in SUBSET p : s \in T
  BY <1>2, <1>7, SubsetInduction
<1>9. p \in T
  BY <1>8
<1>10. QED
  BY <1>2, <1>9 DEF T, R
-----------------------------------------------------------------------------
(* The same, for all polynomials. *)
LEMMA TimesAll ==
  /\ \A p \in SUBSET Nat, n \in Nat : /\ Times(p, n) \in SUBSET Nat
                                      /\ Times(p, 0) = p
                                      /\ IsFiniteSet(p) => IsFiniteSet(Times(p, n))
  /\ \A p, s \in SUBSET Nat : \A n \in Nat :
       Times(BitXor(p, s), n) = BitXor(Times(p, n), Times(s, n))
  /\ \A p \in SUBSET Nat : \A n, m \in Nat : Times(Times(p, n), m) = Times(p, n + m)
<1>1. \A p, s \in SUBSET Nat : \A n \in Nat :
        /\ Times(p, n) \in SUBSET Nat
        /\ Times(BitXor(p, s), n) = BitXor(Times(p, n), Times(s, n))
        /\ Times(p, 0) = p
        /\ IsFiniteSet(p) => IsFiniteSet(Times(p, n))
  BY TimesFacts
<1>2. \A p \in SUBSET Nat, n \in Nat :
        /\ Times(p, n) \in SUBSET Nat
        /\ Times(p, 0) = p
        /\ IsFiniteSet(p) => IsFiniteSet(Times(p, n))
  BY <1>1
<1>3. \A p, s \in SUBSET Nat : \A n \in Nat :
        Times(BitXor(p, s), n) = BitXor(Times(p, n), Times(s, n))
  BY <1>1
<1>4. \A p \in SUBSET Nat : \A n, m \in Nat : Times(Times(p, n), m) = Times(p, n + m)
  <2> TAKE p \in SUBSET Nat
  <2> TAKE n, m \in Nat
  <2>1. \A e \in p : (e + n) + m = e + (n + m)
    OBVIOUS
  <2>2. QED
    BY <2>1 DEF Times
<1>5. QED
  BY <1>2, <1>3, <1>4

(* A byte more of the division makes room for the byte behind what was     *)
(* divided before.                                                         *)
LEMMA ByteDivides ==
  ASSUME NEW degree, NEW low, Divisor(degree, low), NEW p \in SUBSET Nat, IsFiniteSet(p),
         NEW byte \in SUBSET (0 .. 7)
  PROVE  DivideByte(Residue(p, degree, low), byte, degree, low)
           = Residue(BitXor(Times(p, 8), Times(byte, degree)), degree, low)
<1> DEFINE R(t) == Residue(t, degree, low)
           D(r) == DivideBit(r, degree, low)
           V == Remainders(degree)
           step == Divides(degree, low)
           n == degree - 8
           high == Times(byte, n)
           z == BitXor(p, high)
           g == [i \in 0 .. 8 |-> R(Times(z, i))]
<1>1. n \in Nat /\ n + 8 = degree /\ 0 \in Nat /\ 1 \in Nat /\ 8 \in Nat /\ byte \in SUBSET Nat
  BY DEF Divisor
<1>2. high \in V
  <2>1. \A b \in byte : b + n \in 0 .. degree - 1
    BY <1>1
  <2>2. QED
    BY <2>1 DEF Times, Remainders
<1>3. high \in SUBSET Nat /\ IsFiniteSet(high) /\ R(high) = high
  BY <1>2, ResidueStays
<1>4. z \in SUBSET Nat /\ IsFiniteSet(z)
  <2>1. IsFiniteSet(p \cup high)
    BY <1>3, FS_Union
  <2>2. z \subseteq p \cup high
    BY DEF BitXor
  <2> HIDE DEF z, high
  <2>3. QED
    BY <1>3, <2>1, <2>2, FS_Subset
<1>5. R(p) \in V /\ R(z) = BitXor(R(p), high)
  <2>1. R(p) \in V
    BY <1>1, ResidueToggles
  <2> HIDE DEF high
  <2>2. R(z) = BitXor(R(p), R(high))
    BY <1>3, ResidueLinear
  <2>3. QED
    BY <1>3, <2>1, <2>2
<1>6. PICK f : Loops(f, 8, V, R(z), step) /\ DivideByte(R(p), byte, degree, low) = f[8]
  BY <1>5, ByteLoops
<1>7. Times(z, 8) = BitXor(Times(p, 8), Times(byte, degree))
  <2>1. Times(high, 8) = Times(byte, n + 8)
    BY <1>1, TimesAll
  <2> HIDE DEF high
  <2>2. Times(z, 8) = BitXor(Times(p, 8), Times(high, 8))
    BY <1>1, <1>3, TimesAll
  <2>3. QED
    BY <1>1, <2>1, <2>2
<1> HIDE DEF z, n, high
<1>8. \A i \in Nat : Times(z, i) \in SUBSET Nat /\ IsFiniteSet(Times(z, i))
  BY <1>4, TimesAll
<1>9. \A i \in Nat : Times(z, i + 1) = Times(Times(z, i), 1)
  BY <1>1, <1>4, TimesAll
<1>10. \A i \in Nat : R(Times(z, i + 1)) = D(R(Times(z, i)))
  BY <1>8, <1>9, ResidueShifts
<1>11. Times(z, 0) = z
  BY <1>1, <1>4, TimesAll
<1>12. \A x \in V : step[x] = D(x)
  BY DividesStays
<1> HIDE DEF R, D, V, step
<1>13. g[0] = R(z) /\ g[8] = R(Times(z, 8))
  BY <1>11
<1>14. \A i \in 1 .. 8 : g[i - 1] \in V => g[i] = step[g[i - 1]]
  <2> SUFFICES ASSUME NEW i \in 1 .. 8, g[i - 1] \in V PROVE g[i] = step[g[i - 1]]
    OBVIOUS
  <2>1. i - 1 \in Nat /\ (i - 1) + 1 = i /\ i - 1 \in 0 .. 8 /\ i \in 0 .. 8
    OBVIOUS
  <2>2. g[i - 1] = R(Times(z, i - 1)) /\ g[i] = R(Times(z, i))
    BY <2>1
  <2> HIDE DEF g
  <2>3. R(Times(z, (i - 1) + 1)) = D(R(Times(z, i - 1)))
    BY <1>10, <2>1
  <2>4. QED
    BY <1>12, <2>1, <2>2, <2>3
<1> HIDE DEF g
<1>15. g[8] = f[8]
  <2>1. 8 \in 0 .. 8 /\ 8 \in Nat
    OBVIOUS
  <2>2. Loops(f, 8, V, R(z), step)
    BY <1>6
  <2>3. QED
    BY <1>13, <1>14, <2>1, <2>2, LoopUnique
<1>16. QED
  BY <1>6, <1>7, <1>13, <1>15 DEF R


(* The bytes of a message are finitely many bits. *)
LEMMA BytesFinite ==
  ASSUME NEW data \in Seq(Bytes)
  PROVE  OfBytes(data) \in SUBSET Nat /\ IsFiniteSet(OfBytes(data))
<1>1. Len(data) \in Nat /\ DOMAIN data = 1 .. Len(data) /\ \A i \in DOMAIN data : data[i] \in Bytes
  OBVIOUS
<1>2. \A i \in DOMAIN data : \A b \in data[i] : b + 8 * (Len(data) - i) \in 0 .. 8 * Len(data)
  <2> TAKE i \in DOMAIN data
  <2> TAKE b \in data[i]
  <2>1. b \in 0 .. 7 /\ i \in 1 .. Len(data)
    BY <1>1 DEF Bytes
  <2>2. \A n \in Nat : \A c \in 0 .. 7, k \in 1 .. n : c + 8 * (n - k) \in 0 .. 8 * n
    OBVIOUS
  <2>3. QED
    BY <1>1, <2>1, <2>2
<1>3. OfBytes(data) \subseteq 0 .. 8 * Len(data)
  BY <1>2 DEF OfBytes
<1>4. 8 * Len(data) \in Nat
  BY <1>1
<1>5. IsFiniteSet(0 .. 8 * Len(data))
  BY <1>4, FS_Interval
<1>6. 0 .. 8 * Len(data) \subseteq Nat
  BY <1>4
<1>7. QED
  BY <1>3, <1>5, <1>6, FS_Subset

(* A byte more moves the others up. *)
LEMMA BytesGrow ==
  ASSUME NEW data \in Seq(Bytes), NEW byte \in Bytes
  PROVE  OfBytes(Append(data, byte)) = BitXor(Times(OfBytes(data), 8), byte)
<1> DEFINE n == Len(data)
           more == Append(data, byte)
           old == Times(OfBytes(data), 8)
<1>1. n \in Nat /\ DOMAIN data = 1 .. n /\ \A i \in DOMAIN data : data[i] \in Bytes
  OBVIOUS
<1>2. /\ Len(more) = n + 1 /\ DOMAIN more = 1 .. n + 1 /\ more[n + 1] = byte
      /\ \A i \in 1 .. n : more[i] = data[i]
  <2>1. data \in Seq(Bytes) /\ byte \in Bytes /\ Len(data) = n /\ Append(data, byte) = more
    OBVIOUS
  <2> HIDE DEF n, more
  <2>2. \A s \in Seq(Bytes), e \in Bytes :
          /\ Len(Append(s, e)) = Len(s) + 1 /\ DOMAIN Append(s, e) = 1 .. Len(s) + 1
          /\ Append(s, e)[Len(s) + 1] = e
          /\ \A i \in 1 .. Len(s) : Append(s, e)[i] = s[i]
    OBVIOUS
  <2>3. /\ Len(Append(data, byte)) = Len(data) + 1
        /\ DOMAIN Append(data, byte) = 1 .. Len(data) + 1
        /\ Append(data, byte)[Len(data) + 1] = byte
        /\ \A i \in 1 .. Len(data) : Append(data, byte)[i] = data[i]
    BY <2>1, <2>2, Zenon
  <2>4. QED
    BY <2>1, <2>3, Zenon
<1> HIDE DEF n, more
<1>3. \A i \in 1 .. n, b \in 0 .. 7 :
        /\ i \in 1 .. n + 1
        /\ b + 8 * ((n + 1) - i) = (b + 8 * (n - i)) + 8
        /\ (b + 8 * (n - i)) + 8 >= 8
  <2>1. \A m \in Nat : \A i \in 1 .. m, b \in 0 .. 7 :
          /\ i \in 1 .. m + 1
          /\ b + 8 * ((m + 1) - i) = (b + 8 * (m - i)) + 8
          /\ (b + 8 * (m - i)) + 8 >= 8
    OBVIOUS
  <2>2. QED
    BY <1>1, <2>1
<1>4. \A b \in 0 .. 7 : b + 8 * ((n + 1) - (n + 1)) = b /\ ~(b >= 8)
  BY <1>1
<1>5. \A i \in 1 .. n + 1 : i \in 1 .. n \/ i = n + 1
  BY <1>1
<1>6. OfBytes(data) = UNION {{b + 8 * (n - i) : b \in data[i]} : i \in 1 .. n}
  BY <1>1 DEF OfBytes, n
<1>7. OfBytes(more) = UNION {{b + 8 * ((n + 1) - i) : b \in more[i]} : i \in 1 .. n + 1}
  BY <1>2 DEF OfBytes
<1>8. \A x : x \in old <=> \E i \in 1 .. n : \E b \in data[i] : x = (b + 8 * (n - i)) + 8
  BY <1>6 DEF Times
<1>9. \A x : x \in OfBytes(more) <=> \E i \in 1 .. n + 1 : \E b \in more[i] : x = b + 8 * ((n + 1) - i)
  BY <1>7
<1> HIDE DEF old
<1>10. \A i \in 1 .. n : \A b \in data[i] : b \in 0 .. 7
  BY <1>1 DEF Bytes
<1>11. \A b \in byte : b \in 0 .. 7
  BY DEF Bytes
<1>12. n + 1 \in 1 .. n + 1
  BY <1>1
<1>13. old \subseteq OfBytes(more)
  <2> SUFFICES ASSUME NEW x \in old PROVE x \in OfBytes(more)
    OBVIOUS
  <2>1. PICK i \in 1 .. n : \E b \in data[i] : x = (b + 8 * (n - i)) + 8
    BY <1>8
  <2>2. PICK b \in data[i] : x = (b + 8 * (n - i)) + 8
    BY <2>1
  <2>3. i \in 1 .. n + 1 /\ x = b + 8 * ((n + 1) - i) /\ b \in more[i]
    BY <1>2, <1>3, <1>10, <2>2
  <2>4. QED
    BY <1>9, <2>3
<1>14. byte \subseteq OfBytes(more)
  BY <1>2, <1>4, <1>9, <1>11, <1>12
<1>15. OfBytes(more) \subseteq old \cup byte
  <2> SUFFICES ASSUME NEW x \in OfBytes(more), x \notin byte PROVE x \in old
    OBVIOUS
  <2>1. PICK i \in 1 .. n + 1 : \E b \in more[i] : x = b + 8 * ((n + 1) - i)
    BY <1>9
  <2>2. PICK b \in more[i] : x = b + 8 * ((n + 1) - i)
    BY <2>1
  <2>3. CASE i = n + 1
    BY <1>2, <1>4, <1>11, <2>2, <2>3
  <2>4. CASE i \in 1 .. n
    <3>1. b \in data[i]
      BY <1>2, <2>2, <2>4
    <3>2. b \in 0 .. 7
      BY <1>10, <2>4, <3>1
    <3>3. x = (b + 8 * (n - i)) + 8
      BY <1>3, <2>2, <2>4, <3>2
    <3>4. QED
      BY <1>8, <2>4, <3>1, <3>3
  <2>5. QED
    BY <1>5, <2>3, <2>4
<1>16. old \cap byte = {}
  <2>1. \A x \in old : x >= 8
    BY <1>3, <1>8, <1>10
  <2>2. \A x \in byte : ~(x >= 8)
    BY <1>4, <1>11
  <2>3. QED
    BY <2>1, <2>2
<1>17. BitXor(old, byte) = old \cup byte
  BY <1>16 DEF BitXor
<1>18. QED
  BY <1>13, <1>14, <1>15, <1>17 DEF old, more

(* What the CRC of a message is the remainder of. *)
Dividend(data, degree, initial) ==
  BitXor({b + degree : b \in OfBytes(data)}, {b + 8 * Len(data) : b \in initial})

(* The dividend is finite, and a sum of two multiples. *)
LEMMA DividendFacts ==
  ASSUME NEW degree \in Nat, NEW data \in Seq(Bytes), NEW initial \in SUBSET Nat, IsFiniteSet(initial)
  PROVE  /\ Dividend(data, degree, initial) \in SUBSET Nat
         /\ IsFiniteSet(Dividend(data, degree, initial))
         /\ Dividend(data, degree, initial)
              = BitXor(Times(OfBytes(data), degree), Times(initial, 8 * Len(data)))
<1> DEFINE n == 8 * Len(data)
           a == Times(OfBytes(data), degree)
           b == Times(initial, n)
<1>1. n \in Nat
  <2>1. \A k \in Nat : 8 * k \in Nat
    OBVIOUS
  <2>2. QED
    BY <2>1
<1>2. Dividend(data, degree, initial) = BitXor(a, b)
  BY DEF Dividend, Times
<1> HIDE DEF n
<1>3. a \in SUBSET Nat /\ IsFiniteSet(a)
  BY BytesFinite, TimesAll
<1>4. b \in SUBSET Nat /\ IsFiniteSet(b)
  BY <1>1, TimesAll
<1> HIDE DEF a, b
<1>5. BitXor(a, b) \subseteq a \cup b
  BY DEF BitXor
<1>6. IsFiniteSet(a \cup b)
  BY <1>3, <1>4, FS_Union
<1>7. BitXor(a, b) \in SUBSET Nat /\ IsFiniteSet(BitXor(a, b))
  BY <1>3, <1>4, <1>5, <1>6, FS_Subset
<1>8. QED
  BY <1>2, <1>7 DEF a, b, n

(* A byte more multiplies the dividend, and adds the byte. *)
LEMMA DividendGrows ==
  ASSUME NEW degree \in Nat, NEW data \in Seq(Bytes), NEW byte \in Bytes,
         NEW initial \in SUBSET Nat, IsFiniteSet(initial)
  PROVE  Dividend(Append(data, byte), degree, initial)
           = BitXor(Times(Dividend(data, degree, initial), 8), Times(byte, degree))
<1> DEFINE more == Append(data, byte)
           n == 8 * Len(data)
           o == OfBytes(data)
           a == Times(o, degree)
           b == Times(initial, n)
<1>1. more \in Seq(Bytes) /\ Len(data) \in Nat /\ Len(more) = Len(data) + 1
  <2>1. \A S : \A s \in Seq(S), e \in S : Append(s, e) \in Seq(S) /\ Len(Append(s, e)) = Len(s) + 1
    OBVIOUS
  <2>2. Len(data) \in Nat
    OBVIOUS
  <2>3. QED
    BY <2>1, <2>2, Zenon
<1>2. n \in Nat /\ 8 * Len(more) = n + 8 /\ 8 \in Nat /\ 8 + degree = degree + 8
  <2>1. \A k \in Nat : 8 * k \in Nat /\ 8 * (k + 1) = 8 * k + 8
    OBVIOUS
  <2>2. 8 \in Nat /\ 8 + degree = degree + 8
    OBVIOUS
  <2>3. QED
    BY <1>1, <2>1, <2>2, Zenon
<1>3. OfBytes(more) = BitXor(Times(o, 8), byte) /\ o \in SUBSET Nat
  BY BytesGrow, BytesFinite
<1>4. Dividend(data, degree, initial) = BitXor(a, b)
  BY DividendFacts
<1> HIDE DEF n, more, o
<1>5. Dividend(more, degree, initial) = BitXor(Times(OfBytes(more), degree), Times(initial, n + 8))
  BY <1>1, <1>2, DividendFacts
<1>6. byte \in SUBSET Nat
  BY DEF Bytes
<1>7. Times(o, 8) \in SUBSET Nat
  BY <1>2, <1>3, TimesAll
<1>8. Times(BitXor(Times(o, 8), byte), degree) = BitXor(Times(Times(o, 8), degree), Times(byte, degree))
  BY <1>6, <1>7, TimesAll
<1>9. Times(Times(o, 8), degree) = Times(o, degree + 8)
  <2>1. \A m \in Nat : Times(Times(o, 8), m) = Times(o, 8 + m)
    BY <1>2, <1>3, TimesAll
  <2>2. QED
    BY <1>2, <2>1
<1>10. Times(a, 8) = Times(o, degree + 8)
  BY <1>2, <1>3, TimesAll
<1>11. Times(b, 8) = Times(initial, n + 8)
  BY <1>2, TimesAll
<1>12. a \in SUBSET Nat /\ b \in SUBSET Nat
  BY <1>2, <1>3, TimesAll
<1> HIDE DEF a, b
<1>13. Times(BitXor(a, b), 8) = BitXor(Times(a, 8), Times(b, 8))
  BY <1>2, <1>12, TimesAll
<1>14. \A x, y, z : BitXor(BitXor(x, y), z) = BitXor(BitXor(x, z), y)
  BY XorFacts
<1>15. QED
  BY <1>3, <1>4, <1>5, <1>8, <1>9, <1>10, <1>11, <1>13, <1>14 DEF more
-----------------------------------------------------------------------------
(* The greatest of some of the numbers 1 .. n is one of them. *)
LEMMA GreatestIs ==
  ASSUME NEW n \in Nat
  PROVE  /\ \A s \in SUBSET (1 .. n) : s # {} => Max(s) \in s
         /\ \A k \in 1 .. n : Max(1 .. k) = k
<1>1. ASSUME NEW s \in SUBSET (1 .. n), s # {} PROVE Max(s) \in s
  <2> DEFINE T == {n - x : x \in s}
  <2>1. T \subseteq Nat /\ T # {}
    <3>1. \A x \in 1 .. n : n - x \in Nat
      OBVIOUS
    <3>2. QED
      BY <1>1, <3>1
  <2>2. PICK t \in T : \A u \in T : t <= u
    BY <2>1, LeastNat
  <2>3. PICK x \in s : t = n - x
    BY <2>2
  <2>4. \A y \in s : x >= y
    <3>1. \A y \in s : n - x <= n - y
      BY <2>2, <2>3
    <3>2. \A y \in s : y \in Int
      OBVIOUS
    <3>3. QED
      BY <3>1, <3>2
  <2>5. QED
    BY <2>4 DEF Max
<1>2. ASSUME NEW k \in 1 .. n PROVE Max(1 .. k) = k
  <2>1. k \in 1 .. k /\ \A y \in 1 .. k : k >= y
    OBVIOUS
  <2>2. \A x \in 1 .. k : (\A y \in 1 .. k : x >= y) => x = k
    BY <2>1
  <2>3. QED
    BY <2>1, <2>2 DEF Max
<1>3. QED
  BY <1>1, <1>2

(* The byte at a place of a message, divided; and the last of some places. *)
DividesByte(data, degree, low) ==
  [p \in (1 .. Len(data)) \X Remainders(degree) |-> DivideByte(p[2], data[p[1]], degree, low)]
LastOf(n) == [s \in SUBSET (1 .. n) |-> Max(s)]

(* A byte that is divided leaves a remainder. *)
LEMMA DividesByteFacts ==
  ASSUME NEW degree, NEW low, Divisor(degree, low), NEW data \in Seq(Bytes)
  PROVE  \A i \in 1 .. Len(data), r \in Remainders(degree) :
           /\ DividesByte(data, degree, low)[<<i, r>>] = DivideByte(r, data[i], degree, low)
           /\ DividesByte(data, degree, low)[<<i, r>>] \in Remainders(degree)
<1> TAKE i \in 1 .. Len(data), r \in Remainders(degree)
<1>1. DividesByte(data, degree, low)[<<i, r>>] = DivideByte(r, data[i], degree, low)
  BY DEF DividesByte
<1>2. data[i] \in SUBSET (0 .. 7)
  BY DEF Bytes
<1>3. PICK f : /\ Loops(f, 8, Remainders(degree), BitXor(r, Times(data[i], degree - 8)),
                         Divides(degree, low))
               /\ DivideByte(r, data[i], degree, low) = f[8]
  BY <1>2, ByteLoops
<1>4. f[8] \in Remainders(degree)
  BY <1>3 DEF Loops
<1>5. QED
  BY <1>1, <1>3, <1>4

(* A checksum is computed by a function of the places in the message. *)
LEMMA FoldGathers ==
  ASSUME NEW degree, NEW low, Divisor(degree, low), NEW data \in Seq(Bytes),
         NEW initial \in Remainders(degree), data # <<>>
  PROVE  \E f : /\ Gathers(f, 1 .. Len(data), Remainders(degree), initial,
                           DividesByte(data, degree, low), LastOf(Len(data)))
                /\ Crc(data, degree, low, initial) = f[1 .. Len(data)]
<1> DEFINE U == 1 .. Len(data)
           Body(f) == [s \in SUBSET DOMAIN data |-> IF s = {} THEN initial
                         ELSE DivideByte(f[s \ {Max(s)}], data[Max(s)], degree, low)]
           f == CHOOSE h : h = Body(h)
           step == DividesByte(data, degree, low)
           choose == LastOf(Len(data))
           V == Remainders(degree)
<1>1. Crc(data, degree, low, initial) = f[DOMAIN data]
  BY DEF Crc, FoldLeft, MapThenFoldSet
<1> HIDE DEF f, Body
<1>2. DOMAIN data = U /\ Len(data) \in Nat
  OBVIOUS
<1>3. \A s \in SUBSET U : choose[s] = Max(s)
  BY DEF LastOf
<1>4. Chooses(choose, U)
  BY <1>2, <1>3, GreatestIs DEF Chooses
<1>5. \A i \in U, r \in V : step[<<i, r>>] = DivideByte(r, data[i], degree, low) /\ step[<<i, r>>] \in V
  BY DividesByteFacts
<1>6. IsFiniteSet(U)
  BY <1>2, FS_Interval
<1>7. initial \in V
  OBVIOUS
<1> HIDE DEF step, choose, V, U
<1>8. f = Body(f)
  <2>1. PICK h : Gathers(h, U, V, initial, step, choose)
    BY <1>4, <1>5, <1>6, <1>7, GatherExists
  <2>2. ASSUME NEW s \in SUBSET U
        PROVE  h[s] = IF s = {} THEN initial
                      ELSE DivideByte(h[s \ {Max(s)}], data[Max(s)], degree, low)
    <3>1. h[s] = IF s = {} THEN initial ELSE step[<<choose[s], h[s \ {choose[s]}]>>]
      BY <2>1, Gathered
    <3>2. s # {} => choose[s] \in U /\ h[s \ {choose[s]}] \in V
      BY <1>4, <2>1 DEF Chooses, Gathers
    <3>3. s # {} => step[<<choose[s], h[s \ {choose[s]}]>>]
                      = DivideByte(h[s \ {choose[s]}], data[choose[s]], degree, low)
      BY <1>5, <3>2
    <3>4. QED
      BY <1>3, <3>1, <3>3
  <2>3. h = Body(h)
    <3>1. h \in [SUBSET U -> V]
      BY <2>1 DEF Gathers
    <3>2. h = [s \in SUBSET U |-> h[s]]
      BY <3>1
    <3>3. QED
      BY <1>2, <2>2, <3>2 DEF Body
  <2>4. \E x : x = Body(x)
    BY <2>3
  <2> HIDE DEF Body
  <2>5. QED
    BY <2>4, Zenon DEF f
<1>9. DOMAIN f = SUBSET U /\ \A s \in SUBSET U :
         f[s] = IF s = {} THEN initial
                ELSE DivideByte(f[s \ {choose[s]}], data[choose[s]], degree, low)
  <2>1. DOMAIN f = DOMAIN Body(f) /\ \A s \in SUBSET U : f[s] = Body(f)[s]
    BY <1>8
  <2>2. QED
    BY <1>2, <1>3, <2>1 DEF Body
<1> DEFINE T == {s \in SUBSET U : f[s] \in V}
<1>10. ASSUME NEW s \in SUBSET U, \A i \in s : s \ {i} \in T PROVE s \in T
  <2>1. CASE s = {}
    <3>1. f[s] = initial
      BY <1>9, <2>1, Zenon
    <3>2. QED
      BY <1>7, <3>1
  <2>2. CASE s # {}
    <3>1. choose[s] \in s
      BY <1>4, <2>2 DEF Chooses
    <3>2. f[s \ {choose[s]}] \in V /\ choose[s] \in U
      BY <1>10, <3>1
    <3>3. f[s] = DivideByte(f[s \ {choose[s]}], data[choose[s]], degree, low)
      BY <1>9, <2>2
    <3>4. f[s] \in V
      BY <1>5, <3>2, <3>3
    <3>5. QED
      BY <3>4
  <2>3. QED
    BY <2>1, <2>2
<1>11. \A s \in SUBSET U : f[s] \in V
  <2> HIDE DEF T
  <2>1. \A s \in SUBSET U : s \in T
    BY <1>6, <1>10, SubsetInduction
  <2>2. QED
    BY <2>1 DEF T
<1>12. \A s \in SUBSET U : f[s] = IF s = {} THEN initial ELSE step[<<choose[s], f[s \ {choose[s]}]>>]
  <2> SUFFICES ASSUME NEW s \in SUBSET U
               PROVE  f[s] = IF s = {} THEN initial ELSE step[<<choose[s], f[s \ {choose[s]}]>>]
    OBVIOUS
  <2>1. f[s] = IF s = {} THEN initial
               ELSE DivideByte(f[s \ {choose[s]}], data[choose[s]], degree, low)
    BY <1>9
  <2>2. s # {} => choose[s] \in U /\ f[s \ {choose[s]}] \in V
    BY <1>4, <1>11 DEF Chooses
  <2>3. QED
    BY <1>5, <2>1, <2>2
<1>13. f = [s \in SUBSET U |-> f[s]]
  <2>1. f = Body(f)
    BY <1>8
  <2>2. QED
    BY <1>2, <2>1 DEF Body
<1>14. f \in [SUBSET U -> V]
  BY <1>11, <1>13
<1>15. f = [s \in SUBSET U |-> IF s = {} THEN initial ELSE step[<<choose[s], f[s \ {choose[s]}]>>]]
  BY <1>12, <1>13
<1>16. Gathers(f, U, V, initial, step, choose)
  BY <1>14, <1>15, Zenon DEF Gathers
<1>17. QED
  BY <1>1, <1>2, <1>16 DEF step, choose, V, U

(* A checksum is the remainder of its message. *)
LEMMA CrcDivides ==
  ASSUME NEW degree, NEW low, Divisor(degree, low), NEW data \in Seq(Bytes),
         NEW initial \in Remainders(degree), data # <<>>
  PROVE  Crc(data, degree, low, initial) = CrcOf(data, degree, low, initial)
<1> DEFINE n == Len(data)
           U == 1 .. n
           V == Remainders(degree)
           step == DividesByte(data, degree, low)
           choose == LastOf(n)
           W(t) == Dividend(t, degree, initial)
           R(t) == Residue(t, degree, low)
           first(k) == SubSeq(data, 1, k)
<1>1. PICK f : /\ Gathers(f, U, V, initial, step, choose)
               /\ Crc(data, degree, low, initial) = f[U]
  BY FoldGathers
<1>2. n \in Nat /\ degree \in Nat
  BY DEF Divisor
<1>3. initial \in SUBSET Nat /\ IsFiniteSet(initial) /\ R(initial) = initial
  BY ResidueStays
<1>4. \A i \in U, r \in V : step[<<i, r>>] = DivideByte(r, data[i], degree, low) /\ step[<<i, r>>] \in V
  BY DividesByteFacts
<1>5. \A k \in 1 .. n : choose[1 .. k] = k
  <2>1. \A k \in 1 .. n : Max(1 .. k) = k /\ 1 .. k \in SUBSET (1 .. n)
    BY <1>2, GreatestIs
  <2>2. QED
    BY <2>1 DEF LastOf
<1>6. \A k \in 0 .. n : first(k) \in Seq(Bytes)
  OBVIOUS
<1>7. \A k \in 0 .. n - 1 : first(k + 1) = Append(first(k), data[k + 1]) /\ data[k + 1] \in Bytes
  <2> SUFFICES ASSUME NEW k \in 0 .. n - 1
               PROVE  first(k + 1) = Append(first(k), data[k + 1]) /\ data[k + 1] \in Bytes
    OBVIOUS
  <2>1. QED
    OBVIOUS
<1>8. first(n) = data
  OBVIOUS
<1>9. first(0) = <<>>
  OBVIOUS
<1>10. \A s \in Seq(Bytes) : /\ W(s) \in SUBSET Nat /\ IsFiniteSet(W(s))
                             /\ \A byte \in Bytes :
                                  W(Append(s, byte)) = BitXor(Times(W(s), 8), Times(byte, degree))
  BY <1>2, <1>3, DividendFacts, DividendGrows
<1>11. W(<<>>) = initial
  <2>1. OfBytes(<<>>) = {}
    BY DEF OfBytes
  <2>2. {b + 8 * Len(<<>>) : b \in initial} = initial
    <3>1. \A b \in initial : b + 8 * Len(<<>>) = b
      BY <1>3
    <3>2. QED
      BY <3>1
  <2>3. {b + degree : b \in OfBytes(<<>>)} = {}
    BY <2>1
  <2>4. BitXor({}, initial) = initial
    BY XorFacts
  <2>5. QED
    BY <2>2, <2>3, <2>4 DEF Dividend
<1>12. CrcOf(data, degree, low, initial) = R(W(data))
  BY DEF CrcOf, Dividend
<1>13. \A t \in SUBSET Nat, byte \in Bytes : IsFiniteSet(t) =>
         DivideByte(R(t), byte, degree, low) = R(BitXor(Times(t, 8), Times(byte, degree)))
  BY ByteDivides DEF Bytes
<1> DEFINE T == {k \in 0 .. n : f[1 .. k] = R(W(first(k)))}
<1> HIDE DEF V, step, choose, W, R, first, n, U
<1>14. \A k \in 0 .. n : 1 .. k \in SUBSET U /\ f[1 .. k] \in V
  <2>1. \A k \in 0 .. n : 1 .. k \in SUBSET U
    BY <1>2 DEF U
  <2>2. QED
    BY <1>1, <2>1 DEF Gathers
<1>15. 0 \in T
  <2> DEFINE none == 1 .. 0
  <2>1. none = {} /\ none \in SUBSET U /\ 0 \in 0 .. n
    BY <1>2 DEF U
  <2> HIDE DEF none
  <2>2. f[none] = IF none = {} THEN initial ELSE step[<<choose[none], f[none \ {choose[none]}]>>]
    <3>1. Gathers(f, U, V, initial, step, choose) /\ none \in SUBSET U
      BY <1>1, <2>1
    <3>2. QED
      BY <3>1, Gathered
  <2>3. f[none] = initial
    BY <2>1, <2>2
  <2>4. R(W(first(0))) = initial
    BY <1>3, <1>9, <1>11
  <2>5. QED
    BY <2>1, <2>3, <2>4 DEF none
<1>16. ASSUME NEW k \in 0 .. n - 1, k \in T PROVE k + 1 \in T
  <2> DEFINE s == 1 .. k + 1
  <2>1. /\ s \in SUBSET U /\ s # {} /\ s \ {k + 1} = 1 .. k
        /\ k \in 0 .. n /\ k + 1 \in 0 .. n /\ k + 1 \in 1 .. n
    <3>1. \A m \in Nat : \A j \in 0 .. m - 1 :
            /\ 1 .. j + 1 \subseteq 1 .. m /\ j + 1 \in 1 .. j + 1
            /\ j \in 0 .. m /\ j + 1 \in 0 .. m /\ j + 1 \in 1 .. m /\ j \in Nat
      OBVIOUS
    <3>2. \A j \in Nat : (1 .. j + 1) \ {j + 1} = 1 .. j
      <4>1. \A j \in Nat : \A x \in Int : x \in (1 .. j + 1) \ {j + 1} <=> x \in 1 .. j
        OBVIOUS
      <4>2. QED
        BY <4>1
    <3>3. QED
      BY <1>2, <3>1, <3>2 DEF U
  <2>2. choose[s] = k + 1
    BY <1>5, <2>1
  <2> HIDE DEF s
  <2>3. f[s] = IF s = {} THEN initial ELSE step[<<choose[s], f[s \ {choose[s]}]>>]
    <3>1. Gathers(f, U, V, initial, step, choose) /\ s \in SUBSET U
      BY <1>1, <2>1
    <3>2. QED
      BY <3>1, Gathered
  <2>4. f[s] = step[<<k + 1, f[1 .. k]>>]
    BY <2>1, <2>2, <2>3
  <2>5. f[s] = DivideByte(f[1 .. k], data[k + 1], degree, low)
    BY <1>4, <1>14, <2>1, <2>4
  <2>6. f[1 .. k] = R(W(first(k)))
    BY <1>16
  <2>7. W(first(k)) \in SUBSET Nat /\ IsFiniteSet(W(first(k))) /\ data[k + 1] \in Bytes
    BY <1>6, <1>7, <1>10, <2>1
  <2>8. f[s] = R(BitXor(Times(W(first(k)), 8), Times(data[k + 1], degree)))
    BY <1>13, <2>5, <2>6, <2>7
  <2>9. W(first(k + 1)) = BitXor(Times(W(first(k)), 8), Times(data[k + 1], degree))
    BY <1>6, <1>7, <1>10, <2>1
  <2>10. QED
    BY <2>1, <2>8, <2>9 DEF s
<1> HIDE DEF T
<1>17. \A k \in 0 .. n : k \in T
  <2>1. 0 \in Int /\ n \in Int
    BY <1>2
  <2>2. QED
    BY <1>15, <1>16, <2>1, Induction
<1>18. f[1 .. n] = R(W(first(n)))
  <2>1. n \in T
    BY <1>2, <1>17
  <2>2. QED
    BY <2>1 DEF T
<1>19. QED
  BY <1>1, <1>8, <1>12, <1>18 DEF U

MessageType == message \in Seq(MessageBytes)

(* The checksums are the remainders of the divisions by their polynomials, *)
(* for every message and for every polynomial and initial value that the   *)
(* configuration may choose.                                               *)
THEOREM ChecksumsAreRemainders == ChecksumSpec => []CrcIsRemainder
<1>1. ChecksumInit => MessageType
  BY DEF ChecksumInit, MessageType
<1>2. MessageType /\ [Lengthen]_message => MessageType'
  BY DEF MessageType, Lengthen
<1>3. MessageType => CrcIsRemainder
  <2> SUFFICES ASSUME MessageType, message # <<>>
               PROVE  /\ TbxChecksumCrc16Calculate(message)
                           = CrcOf(message, 16, Crc16Polynom, Crc16Initial)
                      /\ TbxChecksumCrc32Calculate(message)
                           = CrcOf(message, 32, Crc32Polynom, Crc32Initial)
    BY DEF CrcIsRemainder
  <2>1. message \in Seq(Bytes)
    <3>1. \A S, R : S \subseteq R => \A s \in Seq(S) : s \in Seq(R)
      OBVIOUS
    <3>2. MessageBytes \subseteq Bytes
      BY ChecksumAssumption DEF Bytes
    <3>3. QED
      BY <3>1, <3>2 DEF MessageType
  <2>2. /\ Divisor(16, Crc16Polynom) /\ Crc16Initial \in Remainders(16)
        /\ Divisor(32, Crc32Polynom) /\ Crc32Initial \in Remainders(32)
    BY ChecksumAssumption DEF Divisor, Remainders
  <2>3. Crc(message, 16, Crc16Polynom, Crc16Initial) = CrcOf(message, 16, Crc16Polynom, Crc16Initial)
    BY <2>1, <2>2, CrcDivides
  <2>4. Crc(message, 32, Crc32Polynom, Crc32Initial) = CrcOf(message, 32, Crc32Polynom, Crc32Initial)
    BY <2>1, <2>2, CrcDivides
  <2>5. QED
    BY <2>3, <2>4 DEF TbxChecksumCrc16Calculate, TbxChecksumCrc32Calculate
<1>4. QED
  BY <1>1, <1>2, <1>3, PTL DEF ChecksumSpec
=============================================================================
