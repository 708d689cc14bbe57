----------------------------- MODULE HeapProofs -----------------------------
(***************************************************************************)
(* Proofs about Heap for any buffer and word size, any number of contexts  *)
(* and any sizes that the rounding to words does not wrap.                 *)
(***************************************************************************)
EXTENDS Heap, CollectionLemmas

(* sizeWanted is at least the size, and whole words, when the sum of size  *)
(* and word does not wrap around.                                          *)
LEMMA Rounding ==
  ASSUME NEW n \in 1 .. SizeMod - WordSize
  PROVE  /\ SizeWanted(n) \in Nat
         /\ SizeWanted(n) >= n
         /\ SizeWanted(n) < SizeMod
         /\ SizeWanted(n) % WordSize = 0
<1>1. WordSize \in Nat \ {0} /\ SizeMod \in Nat
  BY HeapAssumption
<1>2. SizeWanted(n) = Rounded(n, WordSize, SizeMod)
  BY DEF SizeWanted, Rounded
<1>3. QED
  BY <1>1, <1>2, RoundedUp

(* As long as the heap is not over-committed the subtraction is exact. *)
LEMMA Available ==
  ASSUME NEW a \in 0 .. HeapSize
  PROVE  SizeAvailable(a) = HeapSize - a
<1>1. HeapSize - a \in Nat /\ HeapSize - a < SizeMod /\ SizeMod \in Nat
  BY HeapAssumption
<1>2. QED
  BY <1>1, ModSmall DEF SizeAvailable

(* The requests that TbxHeapAllocate can round up within size_t. *)
NoWrap == Sizes \subseteq 1 .. SizeMod - WordSize

-----------------------------------------------------------------------------
(* The inductive invariant. *)

Inside(c) == pc[c] \in {"read", "test", "bump", "exit", "free", "exitFree"}

(* The critical section belongs to its holder. *)
LockInv == \A c \in Contexts : Inside(c) <=> holder = c

(* What the locals of an allocation say about each other and, inside the   *)
(* critical section, about the heap.                                       *)
LocalInv ==
  \A c \in Contexts :
    /\ pc[c] \in {"enter", "read", "test", "bump", "exit", "return"}
         => size[c] \in Sizes /\ wanted[c] = SizeWanted(size[c])
    /\ pc[c] \in {"enter", "read", "test"} => result[c] = NULL
    /\ pc[c] = "test" => available[c] = HeapSize - allocated
    /\ pc[c] = "bump" => result[c] = allocated /\ allocated + wanted[c] <= HeapSize

(* The memory of an allocation that passed its bump, returned or not. *)
Claimed(c) == pc[c] \in {"exit", "return"} /\ result[c] # NULL
Claim(c)   == [start |-> result[c], size |-> size[c], to |-> c]
Claims     == granted \cup {Claim(c) : c \in {d \in Contexts : Claimed(d)}}

EndOf(g) == g.start + SizeWanted(g.size)

(* Claimed memory lies below the counter in whole words and never overlaps.*)
ClaimInv ==
  /\ allocated % WordSize = 0
  /\ \A g \in Claims : /\ g.start \in Nat /\ g.size \in Sizes
                       /\ EndOf(g) <= allocated
                       /\ g.start % WordSize = 0
  /\ \A g, h \in Claims : g # h => EndOf(g) <= h.start \/ EndOf(h) <= g.start

IInv == TypeOK /\ LockInv /\ LocalInv /\ ClaimInv

(* What an allocation asks for is a positive number of whole words. *)
LEMMA WantedFacts ==
  ASSUME NoWrap, NEW n \in Sizes
  PROVE  /\ n \in 1 .. SizeMod - 1
         /\ SizeWanted(n) \in 1 .. SizeMod - 1
         /\ SizeWanted(n) >= n
         /\ SizeWanted(n) % WordSize = 0
  BY Rounding, HeapAssumption DEF NoWrap

(* Nothing is claimed at the start. *)
LEMMA InitInv ==
  ASSUME NoWrap PROVE Init => IInv
<1> SUFFICES ASSUME Init PROVE IInv
  OBVIOUS
<1> USE HeapAssumption, CallerAssumption DEF Init, NULL
<1>1. TypeOK
  BY DEF TypeOK, Locations
<1>2. LockInv
  BY DEF LockInv, Inside
<1>3. LocalInv
  BY DEF LocalInv
<1>4. Claims = {}
  BY DEF Claims, Claimed
<1>5. ClaimInv
  BY <1>4, ModSmall DEF ClaimInv
<1>6. QED
  BY <1>1, <1>2, <1>3, <1>5 DEF IInv

(* The typing, the lock and the locals survive every step. *)
LEMMA LocalStep ==
  ASSUME NoWrap, IInv, NEW c \in Contexts, Allocate(c) \/ GetFree(c)
  PROVE  TypeOK' /\ LockInv' /\ LocalInv'
<1> USE HeapAssumption, CallerAssumption, WantedFacts
    DEF IInv, TypeOK, LockInv, LocalInv, Inside, Step, Locations, NULL, ctxVars,
        EnterSection, ExitSection
<1>1. CASE Call(c)
  <2> PICK n \in Sizes : Call(c)!(n)
    BY <1>1 DEF Call
  <2> QED
    OBVIOUS
<1>2. CASE Enter(c)
  BY <1>2 DEF Enter
<1>3. CASE ReadAvailable(c)
  BY <1>3, Available DEF ReadAvailable
<1>4. CASE Refuse(c)
  BY <1>4 DEF Refuse
<1>5. CASE TakeAddress(c)
  BY <1>5 DEF TakeAddress
<1>6. CASE Bump(c)
  <2>1. allocated' = allocated + wanted[c] /\ allocated' \in 0 .. HeapSize
    <3>1. /\ allocated + wanted[c] \in 0 .. HeapSize
          /\ allocated + wanted[c] < SizeMod /\ SizeMod \in Nat
      BY <1>6 DEF Bump
    <3>2. QED
      BY <1>6, <3>1, ModSmall DEF Bump
  <2>2. QED
    BY <1>6, <2>1 DEF Bump
<1>7. CASE Exit(c)
  BY <1>7 DEF Exit
<1>8. CASE Return(c)
  BY <1>8 DEF Return
<1>9. CASE CallGetFree(c)
  BY <1>9 DEF CallGetFree
<1>10. CASE ReadFree(c)
  BY <1>10, Available DEF ReadFree
<1>11. CASE ExitGetFree(c)
  BY <1>11 DEF ExitGetFree
<1>12. QED
  BY <1>1, <1>2, <1>3, <1>4, <1>5, <1>6, <1>7, <1>8, <1>9, <1>10, <1>11
     DEF Allocate, GetFree

(* The claims only change when an allocation bumps the counter, and then by *)
(* memory that starts where all earlier claims have ended.                  *)
ClaimsStay == Claims' = Claims /\ allocated' = allocated

ClaimsGrow(c) ==
  /\ Claims' = Claims \cup {Claim(c)}
  /\ allocated' = allocated + SizeWanted(size[c])
  /\ size[c] \in Sizes
  /\ Claim(c).start = allocated /\ Claim(c).size = size[c]

LEMMA ClaimsChange ==
  ASSUME NoWrap, IInv, NEW c \in Contexts, Allocate(c) \/ GetFree(c)
  PROVE  ClaimsStay \/ ClaimsGrow(c)
<1> USE DEF IInv, TypeOK, LocalInv, Step, ctxVars, NULL
<1>1. CASE Bump(c)
  <2>1. /\ size[c] \in Sizes /\ wanted[c] = SizeWanted(size[c])
        /\ result[c] = allocated /\ allocated + wanted[c] <= HeapSize
        /\ allocated \in Nat /\ wanted[c] \in Nat
    BY <1>1 DEF Bump
  <2>2. allocated' = allocated + wanted[c]
    <3>1. allocated + wanted[c] \in Nat /\ allocated + wanted[c] < SizeMod /\ SizeMod \in Nat
      BY <2>1, HeapAssumption
    <3>2. QED
      BY <1>1, <3>1, ModSmall DEF Bump
  <2>3. Claims' = Claims \cup {Claim(c)}
    BY <1>1, <2>1 DEF Bump, Claims, Claimed, Claim
  <2>4. Claim(c).start = allocated /\ Claim(c).size = size[c]
    BY <2>1 DEF Claim
  <2>5. QED
    BY <2>1, <2>2, <2>3, <2>4 DEF ClaimsGrow
<1> USE DEF ClaimsStay
<1>2. CASE Return(c)
  <2>1. CASE result[c] = NULL
    BY <1>2, <2>1 DEF Return, Claims, Claimed, Claim
  <2>2. CASE result[c] # NULL
    BY <1>2, <2>2 DEF Return, Claims, Claimed, Claim
  <2>3. QED
    BY <2>1, <2>2
<1>3. CASE Call(c)
  BY <1>3 DEF Call, Claims, Claimed, Claim
<1>4. CASE Enter(c) \/ ReadAvailable(c)
  BY <1>4 DEF Enter, ReadAvailable, Claims, Claimed, Claim
<1>5. CASE Refuse(c)
  BY <1>5 DEF Refuse, Claims, Claimed, Claim
<1>6. CASE TakeAddress(c)
  BY <1>6 DEF TakeAddress, Claims, Claimed, Claim
<1>7. CASE Exit(c)
  BY <1>7 DEF Exit, Claims, Claimed, Claim
<1>8. CASE GetFree(c)
  BY <1>8 DEF GetFree, CallGetFree, ReadFree, ExitGetFree, Claims, Claimed, Claim
<1>9. QED
  BY <1>1, <1>2, <1>3, <1>4, <1>5, <1>6, <1>7, <1>8 DEF Allocate

(* So the claims keep lying in the heap and apart from each other. *)
LEMMA ClaimStep ==
  ASSUME NoWrap, IInv, NEW c \in Contexts, Allocate(c) \/ GetFree(c)
  PROVE  ClaimInv'
<1> USE DEF IInv, TypeOK
<1>1. CASE ClaimsStay
  BY <1>1 DEF ClaimsStay, ClaimInv, EndOf
<1>2. CASE ClaimsGrow(c)
  <2> DEFINE w == SizeWanted(size[c])
  <2>1. allocated \in Nat /\ w \in Nat /\ w % WordSize = 0 /\ size[c] \in Sizes
    BY <1>2, WantedFacts DEF ClaimsGrow
  <2>2. Claims' = Claims \cup {Claim(c)} /\ allocated' = allocated + w
    BY <1>2 DEF ClaimsGrow
  <2>3. /\ Claim(c).start = allocated /\ Claim(c).size = size[c]
        /\ EndOf(Claim(c)) = allocated'
    BY <1>2, <2>2 DEF ClaimsGrow, EndOf
  <2> HIDE DEF w
  <2>4. allocated % WordSize = 0 /\ allocated' % WordSize = 0
    BY <2>1, <2>2, ModSum, HeapAssumption DEF ClaimInv
  <2>5. \A g \in Claims : /\ g.start \in Nat /\ g.size \in Sizes
                         /\ EndOf(g) <= allocated /\ g.start % WordSize = 0
                         /\ EndOf(g) \in Nat
    BY WantedFacts DEF ClaimInv, EndOf
  <2>6. \A g \in Claims' : /\ g.start \in Nat /\ g.size \in Sizes
                          /\ EndOf(g) <= allocated' /\ g.start % WordSize = 0
    BY <2>1, <2>2, <2>3, <2>4, <2>5
  <2>7. \A g, h \in Claims' : g # h => EndOf(g) <= h.start \/ EndOf(h) <= g.start
    BY <2>1, <2>2, <2>3, <2>5 DEF ClaimInv
  <2>8. QED
    BY <2>4, <2>6, <2>7 DEF ClaimInv, EndOf
<1>3. QED
  BY <1>1, <1>2, ClaimsChange
-----------------------------------------------------------------------------
(* Every step preserves the inductive invariant. *)
LEMMA NextInv ==
  ASSUME NoWrap PROVE IInv /\ [Next]_vars => IInv'
<1> SUFFICES ASSUME IInv, [Next]_vars PROVE IInv'
  OBVIOUS
<1>1. CASE Next
  BY <1>1, LocalStep, ClaimStep DEF Next, IInv
<1>2. CASE UNCHANGED vars
  BY <1>2 DEF vars, ctxVars, IInv, TypeOK, LockInv, LocalInv, ClaimInv, Inside,
              Claims, Claimed, Claim, EndOf
<1>3. QED
  BY <1>1, <1>2

(* The inductive invariant holds in every reachable state. *)
LEMMA Inductive ==
  ASSUME NoWrap PROVE Spec => []IInv
  BY InitInv, NextInv, PTL DEF Spec

(* The heap's counter never exceeds the buffer and the locals have their   *)
(* types.                                                                  *)
THEOREM TypeCorrect ==
  ASSUME NoWrap PROVE Spec => []TypeOK
  BY Inductive, PTL DEF IInv

(* Whoever got a pointer owns as many bytes of the buffer as were asked    *)
(* for, from a word boundary on.                                           *)
THEOREM InHeap ==
  ASSUME NoWrap PROVE Spec => []GrantsInHeap
<1>1. IInv => GrantsInHeap
  <2> SUFFICES ASSUME IInv, NEW g \in granted
               PROVE  g.start + g.size <= allocated /\ g.start % WordSize = 0
    BY DEF GrantsInHeap
  <2>1. g \in Claims
    BY DEF Claims
  <2>2. QED
    BY <2>1, WantedFacts DEF IInv, TypeOK, ClaimInv, EndOf
<1>2. QED
  BY <1>1, Inductive, PTL

(* No byte of the buffer is given away twice, however the contexts that    *)
(* allocate interleave.                                                    *)
THEOREM Disjoint ==
  ASSUME NoWrap PROVE Spec => []GrantsDisjoint
<1>1. IInv => GrantsDisjoint
  <2> SUFFICES ASSUME IInv, NEW g \in granted, NEW h \in granted, g # h
               PROVE  g.start + g.size <= h.start \/ h.start + h.size <= g.start
    BY DEF GrantsDisjoint
  <2>1. g \in Claims /\ h \in Claims
    BY DEF Claims
  <2>2. QED
    BY <2>1, WantedFacts DEF IInv, ClaimInv, EndOf
<1>2. QED
  BY <1>1, Inductive, PTL

(* An allocation is refused only when the buffer really has no room for it *)
(* at that moment.                                                         *)
THEOREM RefusalJustified ==
  ASSUME NoWrap PROVE Spec => RefusedOnlyWhenFull
<1> DEFINE Justified ==
      \A c \in Contexts : Refuse(c) => HeapSize - allocated < SizeWanted(size[c])
<1>1. IInv /\ [Next]_vars => [Justified]_vars
  BY DEF IInv, LocalInv, Refuse, Step
<1>2. QED
  BY <1>1, Inductive, PTL DEF Spec, RefusedOnlyWhenFull
-----------------------------------------------------------------------------
(* Two claims share no byte, and a claim lies in the buffer. *)
LEMMA ClaimBytes ==
  ASSUME NoWrap, IInv
  PROVE  /\ \A g \in Claims : Contract!Bytes(g) \subseteq 0 .. HeapSize - 1 /\ g.size > 0
         /\ \A g, h \in Claims : g # h => Contract!Bytes(g) \cap Contract!Bytes(h) = {}
<1>1. \A g \in Claims : /\ g.start \in Nat /\ g.size \in Nat /\ g.size > 0
                       /\ g.start + g.size <= EndOf(g)
                       /\ EndOf(g) <= HeapSize
                       /\ EndOf(g) \in Nat
  BY WantedFacts, HeapAssumption DEF IInv, TypeOK, ClaimInv, EndOf
<1>2. \A g \in Claims : Contract!Bytes(g) \subseteq 0 .. HeapSize - 1
  BY <1>1, HeapAssumption DEF Contract!Bytes
<1>3. \A g, h \in Claims : g # h => Contract!Bytes(g) \cap Contract!Bytes(h) = {}
  <2> SUFFICES ASSUME NEW g \in Claims, NEW h \in Claims, g # h
               PROVE  Contract!Bytes(g) \cap Contract!Bytes(h) = {}
    OBVIOUS
  <2>1. EndOf(g) <= h.start \/ EndOf(h) <= g.start
    BY DEF IInv, ClaimInv
  <2>2. QED
    BY <1>1, <2>1 DEF Contract!Bytes
<1>4. QED
  BY <1>1, <1>2, <1>3

(* Every step of the heap grants unowned memory or changes no grant. *)
LEMMA ContractStep ==
  ASSUME NoWrap, IInv, [Next]_vars
  PROVE  Contract!ContractNext \/ UNCHANGED granted
<1>1. ASSUME NEW c \in Contexts, Return(c), result[c] # NULL, Claim(c) \notin granted
      PROVE  Contract!Grant(Claim(c)) /\ Claim(c) \in granted' \ granted
  <2>1. granted' = granted \cup {Claim(c)}
    BY <1>1 DEF Return, Claim
  <2>2. Claim(c) \in Claims /\ granted \subseteq Claims
    BY <1>1 DEF Return, Step, Claims, Claimed
  <2>3. \A h \in granted : Contract!Bytes(Claim(c)) \cap Contract!Bytes(h) = {}
    BY <1>1, <2>2, ClaimBytes
  <2>4. Contract!Bytes(Claim(c)) \subseteq 0 .. HeapSize - 1 /\ Claim(c).size > 0
    BY <2>2, ClaimBytes
  <2>5. QED
    BY <1>1, <2>1, <2>3, <2>4 DEF Contract!Grant
<1>2. ASSUME NEW c \in Contexts, Return(c)
      PROVE  Contract!ContractNext \/ UNCHANGED granted
  <2>1. CASE result[c] = NULL \/ Claim(c) \in granted
    BY <1>2, <2>1 DEF Return, Claim
  <2>2. CASE result[c] # NULL /\ Claim(c) \notin granted
    BY <1>1, <1>2, <2>2 DEF Contract!ContractNext
  <2>3. QED
    BY <2>1, <2>2
<1>3. ASSUME NEW c \in Contexts, Allocate(c) \/ GetFree(c)
      PROVE  Return(c) \/ UNCHANGED granted
  BY <1>3 DEF Allocate, GetFree, Call, Enter, ReadAvailable, Refuse, TakeAddress, Bump,
              Exit, CallGetFree, ReadFree, ExitGetFree
<1>4. QED
  BY <1>2, <1>3 DEF Next, vars

(* The heap implements the allocator's contract. *)
THEOREM HeapKeepsContract ==
  ASSUME NoWrap PROVE Spec => KeepsContract
<1>1. Init => Contract!ContractInit
  BY DEF Init, Contract!ContractInit
<1>2. IInv /\ [Next]_vars => [Contract!ContractNext]_granted
  BY ContractStep
<1>3. QED
  BY <1>1, <1>2, Inductive, PTL DEF Spec, KeepsContract, Contract!ContractSpec
-----------------------------------------------------------------------------
(* How much of the buffer the claims take. *)
Sum(claims) == MapThenSumSet(LAMBDA g : SizeWanted(g.size), claims)

AddsTo(U) == [p \in U \X Nat |-> SizeWanted(p[1].size) + p[2]]
AnyOf(U)  == [s \in SUBSET U |-> CHOOSE g \in s : TRUE]

(* The sum is a recursive function over sets of claims. *)
LEMMA SumGathers ==
  ASSUME NEW U, IsFiniteSet(U), \A g \in U : SizeWanted(g.size) \in Nat, NEW W \in SUBSET U
  PROVE  \E f : Gathers(f, W, Nat, 0, AddsTo(U), AnyOf(U)) /\ Sum(W) = f[W]
<1> DEFINE Body(f) == [s \in SUBSET W |-> IF s = {} THEN 0
                         ELSE SizeWanted((CHOOSE g \in s : TRUE).size) + f[s \ {CHOOSE g \in s : TRUE}]]
           f == CHOOSE h : h = Body(h)
           step == AddsTo(U)
           choose == AnyOf(U)
<1>1. Sum(W) = f[W]
  BY DEF Sum, MapThenSumSet, MapThenFoldSet
<1> HIDE DEF f, Body
<1>2. IsFiniteSet(W)
  BY FS_Subset
<1>0. \A s \in SUBSET W : choose[s] = CHOOSE g \in s : TRUE
  BY DEF AnyOf
<1>3. Chooses(choose, W)
  BY DEF Chooses, AnyOf
<1>4. \A g \in W, n \in Nat : step[<<g, n>>] = SizeWanted(g.size) + n
  BY DEF AddsTo
<1> HIDE DEF step, choose
<1>5. f = Body(f)
  <2>1. PICK h : Gathers(h, W, Nat, 0, step, choose)
    <3>1. ASSUME NEW g \in W, NEW n \in Nat PROVE step[<<g, n>>] \in Nat
      <4>1. SizeWanted(g.size) \in Nat /\ step[<<g, n>>] = SizeWanted(g.size) + n
        BY <1>4
      <4>2. QED
        BY <4>1
    <3>2. 0 \in Nat
      OBVIOUS
    <3>3. QED
      BY <1>2, <1>3, <3>1, <3>2, GatherExists
  <2>2. \A s \in SUBSET W : h[s] = IF s = {} THEN 0
           ELSE SizeWanted((CHOOSE g \in s : TRUE).size) + h[s \ {CHOOSE g \in s : TRUE}]
    <3> SUFFICES ASSUME NEW s \in SUBSET W
                 PROVE  h[s] = IF s = {} THEN 0
                     ELSE SizeWanted((CHOOSE g \in s : TRUE).size) + h[s \ {CHOOSE g \in s : TRUE}]
      OBVIOUS
    <3>1. h[s] = IF s = {} THEN 0 ELSE step[<<choose[s], h[s \ {choose[s]}]>>]
      <4>1. Gathers(h, W, Nat, 0, step, choose)
        BY <2>1
      <4>2. QED
        BY <4>1, Gathered
    <3>2. choose[s] = CHOOSE g \in s : TRUE
      BY <1>0
    <3>3. s # {} => choose[s] \in W /\ h[s \ {choose[s]}] \in Nat
      BY <1>3, <2>1 DEF Chooses, Gathers
    <3>4. QED
      BY <1>4, <3>1, <3>2, <3>3
  <2>3. h = Body(h)
    BY <2>1, <2>2 DEF Body, Gathers
  <2>4. QED
    BY <2>3 DEF f
<1>6. DOMAIN f = SUBSET W /\ \A s \in SUBSET W :
         /\ choose[s] = CHOOSE g \in s : TRUE
         /\ f[s] = IF s = {} THEN 0 ELSE SizeWanted(choose[s].size) + f[s \ {choose[s]}]
  <2>1. DOMAIN f = DOMAIN Body(f) /\ \A s \in SUBSET W : f[s] = Body(f)[s]
    BY <1>5
  <2>2. QED
    BY <1>0, <2>1 DEF Body
<1> DEFINE T == {s \in SUBSET W : f[s] \in Nat}
<1>7. \A s \in SUBSET W : f[s] \in Nat
  <2>1. ASSUME NEW s \in SUBSET W, \A g \in s : s \ {g} \in T PROVE s \in T
    <3>1. CASE s = {}
      <4>1. f[s] = 0
        BY <1>6, <3>1, Zenon
      <4>2. f[s] \in Nat
        BY <4>1
      <4>3. QED
        BY <4>2
    <3>2. CASE s # {}
      <4>1. choose[s] \in s
        BY <1>3, <3>2 DEF Chooses
      <4>2. f[s \ {choose[s]}] \in Nat /\ SizeWanted(choose[s].size) \in Nat
        BY <2>1, <4>1
      <4>3. f[s] = SizeWanted(choose[s].size) + f[s \ {choose[s]}]
        BY <1>6, <3>2
      <4>4. f[s] \in Nat
        BY <4>2, <4>3
      <4>5. QED
        BY <4>4
    <3>3. QED
      BY <3>1, <3>2
  <2> HIDE DEF T
  <2>2. \A s \in SUBSET W : s \in T
    BY <1>2, <2>1, SubsetInduction
  <2>3. QED
    BY <2>2 DEF T
<1>8. \A s \in SUBSET W : f[s] = IF s = {} THEN 0 ELSE step[<<choose[s], f[s \ {choose[s]}]>>]
  BY <1>3, <1>4, <1>6, <1>7 DEF Chooses
<1>9. f = [s \in SUBSET W |-> f[s]]
  <2>1. f = Body(f)
    BY <1>5
  <2>2. QED
    BY <2>1 DEF Body
<1>10. f \in [SUBSET W -> Nat]
  BY <1>7, <1>9
<1>11. Gathers(f, W, Nat, 0, step, choose)
  BY <1>8, <1>9, <1>10 DEF Gathers
<1>12. QED
  BY <1>1, <1>10, <1>11 DEF step, choose

(* The sum grows with each new claim by what that takes. *)
LEMMA SumAdds ==
  ASSUME NEW claims, IsFiniteSet(claims), NEW new, new \notin claims,
         \A g \in claims \cup {new} : SizeWanted(g.size) \in Nat
  PROVE  /\ Sum(claims) \in Nat
         /\ Sum(claims \cup {new}) = SizeWanted(new.size) + Sum(claims)
<1> DEFINE U == claims \cup {new}
           step == AddsTo(U)
           choose == AnyOf(U)
<1>1. IsFiniteSet(U)
  BY FS_AddElement
<1>2. PICK f : Gathers(f, claims, Nat, 0, step, choose) /\ Sum(claims) = f[claims]
  <2>1. claims \in SUBSET U /\ \A g \in U : SizeWanted(g.size) \in Nat
    OBVIOUS
  <2> HIDE DEF U
  <2>2. QED
    BY <1>1, <2>1, SumGathers
<1>3. PICK h : Gathers(h, U, Nat, 0, step, choose) /\ Sum(U) = h[U]
  <2>1. U \in SUBSET U /\ \A g \in U : SizeWanted(g.size) \in Nat
    OBVIOUS
  <2> HIDE DEF U
  <2>2. QED
    BY <1>1, <2>1, SumGathers
<1>4. Chooses(choose, U)
  BY DEF Chooses, AnyOf
<1>5. \A g \in U, n \in Nat : step[<<g, n>>] = SizeWanted(g.size) + n
  BY DEF AddsTo
<1>6. Commutes(step, U, Nat)
  <2> SUFFICES ASSUME NEW g \in U, NEW k \in U, NEW n \in Nat
               PROVE  step[<<g, step[<<k, n>>]>>] = step[<<k, step[<<g, n>>]>>]
    BY DEF Commutes
  <2> DEFINE a == SizeWanted(g.size)
             b == SizeWanted(k.size)
  <2>1. a \in Nat /\ b \in Nat
    OBVIOUS
  <2>2. step[<<k, n>>] = b + n /\ step[<<g, n>>] = a + n
    BY <1>5
  <2> HIDE DEF a, b
  <2>3. b + n \in Nat /\ a + n \in Nat /\ a + (b + n) = b + (a + n)
    BY <2>1
  <2>4. step[<<g, b + n>>] = a + (b + n) /\ step[<<k, a + n>>] = b + (a + n)
    BY <1>5, <2>3 DEF a, b
  <2>5. QED
    BY <2>2, <2>3, <2>4
<1>7. claims \in SUBSET U /\ new \in U /\ U \ {new} = claims /\ U \in SUBSET U
  OBVIOUS
<1> HIDE DEF step, choose, U
<1>8. h[claims] = f[claims]
  BY <1>1, <1>2, <1>3, <1>4, <1>7, GatherAgree
<1>9. h[U] = step[<<new, h[claims]>>]
  <2>1. Gathers(h, U, Nat, 0, step, choose)
    BY <1>3
  <2>2. \A s \in SUBSET U : \A x \in s : h[s] = step[<<x, h[s \ {x}]>>]
    BY <1>1, <1>4, <1>6, <2>1, GatherAny
  <2>3. QED
    BY <1>7, <2>2
<1>10. h[claims] \in Nat
  BY <1>3, <1>7 DEF Gathers
<1>11. Sum(U) = SizeWanted(new.size) + Sum(claims)
  BY <1>2, <1>3, <1>5, <1>7, <1>8, <1>9, <1>10
<1>12. QED
  BY <1>2, <1>8, <1>10, <1>11 DEF U

(* Nothing takes nothing. *)
LEMMA SumEmpty == Sum({}) = 0
<1>1. PICK none : none = {}
  OBVIOUS
<1>2. PICK f : Gathers(f, none, Nat, 0, AddsTo(none), AnyOf(none)) /\ Sum(none) = f[none]
  BY <1>1, SumGathers, FS_EmptySet
<1>3. f[none] = 0
  <2>1. Gathers(f, none, Nat, 0, AddsTo(none), AnyOf(none)) /\ none \in SUBSET none
    BY <1>2
  <2>2. f[none] = IF none = {} THEN 0
                  ELSE AddsTo(none)[<<AnyOf(none)[none], f[none \ {AnyOf(none)[none]}]>>]
    BY <2>1, Gathered
  <2>3. QED
    BY <1>1, <2>2, Zenon
<1>4. QED
  BY <1>1, <1>2, <1>3

(* The counter is the sum of the claims, of which there are finitely many. *)
SumInv == IsFiniteSet(Claims) /\ allocated = Sum(Claims)

LEMMA SumInitially == Init => SumInv
<1> SUFFICES ASSUME Init PROVE SumInv
  OBVIOUS
<1>1. Claims = {} /\ allocated = 0
  BY DEF Init, Claims, Claimed
<1>2. QED
  BY <1>1, SumEmpty, FS_EmptySet DEF SumInv

LEMMA SumStep ==
  ASSUME NoWrap, IInv, SumInv, [Next]_vars
  PROVE  SumInv'
<1>1. CASE UNCHANGED vars
  BY <1>1 DEF vars, ctxVars, SumInv, Claims, Claimed, Claim
<1>2. CASE ClaimsStay
  BY <1>2 DEF ClaimsStay, SumInv
<1>3. ASSUME NEW c \in Contexts, ClaimsGrow(c) PROVE SumInv'
  <2>1. \A g \in Claims : g.size \in Sizes /\ SizeWanted(g.size) \in Nat
    BY WantedFacts DEF IInv, ClaimInv
  <2>2. /\ Claim(c).size = size[c] /\ size[c] \in Sizes
        /\ SizeWanted(size[c]) \in Nat /\ SizeWanted(size[c]) > 0
    BY <1>3, WantedFacts DEF ClaimsGrow
  <2>3. Claim(c) \notin Claims
    <3>1. Claim(c).start = allocated /\ allocated \in Nat
      BY <1>3 DEF ClaimsGrow, IInv, TypeOK
    <3>2. EndOf(Claim(c)) > allocated
      BY <2>2, <3>1 DEF EndOf
    <3>3. \A g \in Claims : EndOf(g) <= allocated
      BY DEF IInv, ClaimInv
    <3>4. EndOf(Claim(c)) \in Nat
      BY <2>2, <3>1 DEF EndOf
    <3>5. QED
      BY <3>1, <3>2, <3>3, <3>4
  <2>4. IsFiniteSet(Claims) /\ allocated = Sum(Claims)
    BY DEF SumInv
  <2>5. \A g \in Claims \cup {Claim(c)} : SizeWanted(g.size) \in Nat
    BY <2>1, <2>2
  <2>6. /\ Sum(Claims) \in Nat
        /\ Sum(Claims \cup {Claim(c)}) = SizeWanted(Claim(c).size) + Sum(Claims)
    BY <2>3, <2>4, <2>5, SumAdds
  <2>7. IsFiniteSet(Claims \cup {Claim(c)})
    BY <2>4, FS_AddElement
  <2>8. Claims' = Claims \cup {Claim(c)} /\ allocated' = allocated + SizeWanted(size[c])
    BY <1>3 DEF ClaimsGrow
  <2>9. Sum(Claims)' = Sum(Claims \cup {Claim(c)})
    BY <2>8
  <2>10. Sum(Claims)' = allocated'
    BY <2>2, <2>4, <2>6, <2>8, <2>9
  <2>11. QED
    BY <2>7, <2>8, <2>10 DEF SumInv
<1>4. QED
  BY <1>1, <1>2, <1>3, ClaimsChange DEF Next

(* No byte is lost: what the counter has moved by was granted to somebody,  *)
(* once all allocations that bumped it have returned.                       *)
THEOREM NothingLost ==
  ASSUME NoWrap PROVE Spec => []Accounted
<1>1. SumInv => Accounted
  <2> SUFFICES ASSUME SumInv, \A c \in Contexts : pc[c] \notin {"exit", "return"}
               PROVE  allocated = Sum(granted)
    BY DEF Accounted, Sum
  <2>1. Claims = granted
    BY DEF Claims, Claimed
  <2>2. QED
    BY <2>1 DEF SumInv
<1>2. QED
  BY <1>1, SumInitially, SumStep, Inductive, PTL DEF Spec
=============================================================================
