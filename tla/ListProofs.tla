------------------------------ MODULE ListProofs ----------------------------
(***************************************************************************)
(* Proofs about the linked lists, for any number of contexts, items, lists *)
(* and blocks.  The theorems assume Contract: callers follow the rules     *)
(* that the function comments and the examples leave to them.              *)
(***************************************************************************)
EXTENDS List, CollectionLemmas

(* Nobody removes or moves what another call has looked up, and nobody     *)
(* sorts an empty list.                                                    *)
Contract == ~Overlap /\ ~SortsEmpty

(* The types of the nodes and the lists. *)
NodesType == /\ nodes \in [Blocks -> [item : Items \cup {Null}, prev : Pointers, next : Pointers]]
             /\ lists \in [Blocks -> [first : Pointers, last : Pointers, count : 0 .. MaxBlocks]]

(* The nodes in blocks s are linked in both directions, in this order. *)
Linked(s) == \A i \in DOMAIN s :
  /\ nodes[s[i]].prev = IF i = 1 THEN Null ELSE s[i - 1]
  /\ nodes[s[i]].next = IF i = Len(s) THEN Null ELSE s[i + 1]

(* They are the nodes of list l. *)
IsChain(l, s) ==
  /\ s \in Seq(Blocks) /\ IsInjective(s) /\ Linked(s)
  /\ lists[l].first = IF s = <<>> THEN Null ELSE s[1]
  /\ lists[l].last = IF s = <<>> THEN Null ELSE s[Len(s)]
  /\ lists[l].count = Len(s)

Nodes(l) == ToSet(Chain(l))
ItemSet(l) == {nodes[b].item : b \in Nodes(l)}

(* Every list that callers may use is a chain. *)
ChainsInv == open \subseteq Blocks /\ \A l \in open : IsChain(l, Chain(l))

(* The items of a list are distinct. *)
ItemsInv == \A l \in open : \A b, d \in Nodes(l) :
  nodes[b].item \in Items /\ (nodes[b].item = nodes[d].item => b = d)

(* A block is free, a list object, a node of one list or held by one call, *)
(* and there are no others.                                                *)
Placed(b) == \/ b \in ToSet(free) \/ b \in open
             \/ \E l \in open : b \in Nodes(l)
             \/ \E c \in Contexts : b \in HeldBy(c)

PlaceInv ==
  /\ created \in 0 .. MaxBlocks /\ free \in Seq(Blocks) /\ IsInjective(free)
  /\ \A b : Placed(b) <=> b \in 1 .. created
  /\ \A b \in ToSet(free) : /\ b \notin open
                            /\ \A l \in open : b \notin Nodes(l)
                            /\ \A c \in Contexts : b \notin HeldBy(c)
  /\ \A b \in open : /\ \A l \in open : b \notin Nodes(l)
                     /\ \A c \in Contexts : b \notin HeldBy(c)
  /\ \A l \in open : \A b \in Nodes(l) : /\ \A m \in open \ {l} : b \notin Nodes(m)
                                         /\ \A c \in Contexts : b \notin HeldBy(c)
  /\ \A c, d \in Contexts : c # d => HeldBy(c) \cap HeldBy(d) = {}

Insertions == {"front", "back", "before", "after"}

(* What a context knows inside a call. *)
CallInv(c) ==
  LET k == call[c]
  IN  /\ pc[c] \notin {"assertFailed", "crashed"}
      /\ pc[c] = "idle" => k = NoCall
      /\ pc[c] \in {"flag", "pool1", "pool2"} => k.op = "create"
      /\ pc[c] \in {"alloc", "grow", "again", "link"} => k.op \in {"create"} \cup Insertions
      /\ pc[c] \in {"unlink", "release"} <=> k.op = "remove"
      /\ k.op \in {"none", "create"} => k.list = Null
      /\ k.op \in Insertions \cup {"remove"} => k.list \in open /\ k.item \in Items
      /\ k.op \in Insertions => k.item \notin ItemSet(k.list)
      /\ k.op \in {"before", "after"} => k.ref \in Nodes(k.list) /\ nodes[k.ref].item = k.itemRef
      /\ k.op \in {"front", "back"} => k.itemRef = Null
      /\ pc[c] = "unlink" => k.ref \in Nodes(k.list) /\ nodes[k.ref].item = k.item

(* What the calls of two contexts for the same list have to do with each   *)
(* other: nobody inserts what another inserts, or removes what another     *)
(* removes or inserts beside.                                              *)
PairInv(c, d) ==
  call[c].list = call[d].list =>
    /\ call[c].op \in Insertions /\ call[d].op \in Insertions => call[c].item # call[d].item
    /\ pc[c] = "unlink" /\ pc[d] = "unlink" => call[c].item # call[d].item
    /\ pc[c] = "unlink" /\ call[d].op \in {"before", "after"} => call[c].item # call[d].itemRef

(* The parameters and locals of a call. *)
Calls == [op : {"none", "create", "front", "back", "before", "after", "remove"},
          list : Pointers, item : Items \cup {Null}, itemRef : Items \cup {Null},
          node : Pointers, ref : Pointers, error : BOOLEAN]

ControlTypes == /\ memPoolsCreated \in BOOLEAN
                /\ pc \in [Contexts -> Locations]
                /\ call \in [Contexts -> Calls]

DataInv == NodesType /\ ChainsInv /\ ItemsInv /\ PlaceInv

IInv == /\ ControlTypes /\ DataInv
        /\ \A c \in Contexts : CallInv(c)
        /\ \A c, d \in Contexts : c # d => PairInv(c, d)

-----------------------------------------------------------------------------
(* TbxListSortItems: what its loops do to the sequence of items. *)

(* Sequence t has the items of s, perhaps in another order. *)
Reorders(s, t) == /\ t \in Seq(Items)
                  /\ Len(t) = Len(s)
                  /\ ToSet(t) = ToSet(s)
                  /\ IsInjective(s) => IsInjective(t)

(* One comparison of the sort, and what it does to the two positions. *)
LEMMA ExchangeFacts ==
  ASSUME NEW s \in Seq(Items), NEW i \in DOMAIN s, NEW k \in DOMAIN s, i # k
  PROVE  /\ Reorders(s, Exchange(s, i, k))
         /\ Key[Exchange(s, i, k)[i]] <= Key[Exchange(s, i, k)[k]]
         /\ \A j \in DOMAIN s \ {i, k} : Exchange(s, i, k)[j] = s[j]
         /\ \/ Exchange(s, i, k) = s
            \/ /\ Exchange(s, i, k)[i] = s[k] /\ Exchange(s, i, k)[k] = s[i]
               /\ Key[s[k]] <= Key[s[i]]
<1> DEFINE t == [s EXCEPT ![i] = s[k], ![k] = s[i]]
<1>1. s[i] \in Items /\ s[k] \in Items /\ Key[s[i]] \in Nat /\ Key[s[k]] \in Nat
  BY ListAssumption
<1>2. CASE ~(Key[s[i]] > Key[s[k]])
  BY <1>1, <1>2 DEF Exchange, Reorders
<1>3. CASE Key[s[i]] > Key[s[k]]
  <2>1. Exchange(s, i, k) = t
    BY <1>3 DEF Exchange
  <2>2. /\ t \in Seq(Items) /\ Len(t) = Len(s) /\ DOMAIN t = DOMAIN s
        /\ t[i] = s[k] /\ t[k] = s[i] /\ \A j \in DOMAIN s \ {i, k} : t[j] = s[j]
    BY <1>1
  <2> HIDE DEF t
  <2>3. ToSet(t) = ToSet(s)
    <3>1. \A j \in DOMAIN s : \E m \in DOMAIN s : t[j] = s[m]
      BY <2>2
    <3>2. \A j \in DOMAIN s : \E m \in DOMAIN t : s[j] = t[m]
      BY <2>2
    <3>3. ToSet(t) \subseteq ToSet(s)
      BY <2>2, <3>1 DEF ToSet
    <3>4. ToSet(s) \subseteq ToSet(t)
      BY <3>2 DEF ToSet
    <3>5. QED
      BY <3>3, <3>4
  <2>4. IsInjective(s) => IsInjective(t)
    BY <2>2 DEF IsInjective
  <2>5. QED
    BY <1>1, <1>3, <2>1, <2>2, <2>3, <2>4 DEF Reorders
<1>4. QED
  BY <1>2, <1>3

(* The inner loop up to position k: what comes before i stays, the item in *)
(* i is the least so far, and nothing else comes into the rest.            *)
InnerDone(s, i, k, t) ==
  /\ Reorders(s, t)
  /\ \A j \in 1 .. i - 1 : t[j] = s[j]
  /\ \A j \in i .. k : Key[t[i]] <= Key[t[j]]
  /\ \A j \in i .. Len(s) : \E m \in i .. Len(s) : t[j] = s[m]

(* The inner loop of TbxListSortItems after one more comparison: the item  *)
(* in position i is the least of those compared, and the positions before  *)
(* i are as they were.                                                     *)
LEMMA InnerStep ==
  ASSUME NEW s \in Seq(Items), NEW i \in DOMAIN s, NEW k \in i + 1 .. Len(s), NEW t,
         InnerDone(s, i, k - 1, t)
  PROVE  InnerDone(s, i, k, Exchange(t, i, k))
<1> DEFINE u == Exchange(t, i, k)
<1>1. /\ t \in Seq(Items) /\ Len(t) = Len(s) /\ DOMAIN t = 1 .. Len(s) /\ DOMAIN s = 1 .. Len(s)
      /\ i \in DOMAIN t /\ k \in DOMAIN t /\ i # k /\ Len(s) \in Nat /\ i \in Int /\ k \in Int
  BY DEF InnerDone, Reorders
<1>2. /\ Reorders(t, u) /\ Key[u[i]] <= Key[u[k]]
      /\ \A j \in DOMAIN t \ {i, k} : u[j] = t[j]
      /\ u = t \/ (u[i] = t[k] /\ u[k] = t[i] /\ Key[t[k]] <= Key[t[i]])
  BY <1>1, ExchangeFacts
<1> HIDE DEF u
<1>3. Reorders(s, u)
  BY <1>2 DEF InnerDone, Reorders
<1>4. \A j \in 1 .. i - 1 : u[j] = s[j]
  <2>1. \A j \in 1 .. i - 1 : j \in DOMAIN t \ {i, k}
    BY <1>1
  <2>2. QED
    BY <2>1, <1>2 DEF InnerDone
<1>8. \A j \in DOMAIN t : Key[u[j]] \in Nat /\ Key[t[j]] \in Nat
  <2>1. u \in Seq(Items) /\ DOMAIN u = DOMAIN t
    BY <1>1, <1>2 DEF Reorders
  <2>2. \A j \in DOMAIN t : u[j] \in Items /\ t[j] \in Items
    BY <1>1, <2>1
  <2>3. QED
    BY <2>2, ListAssumption
<1>5. \A j \in i .. k : Key[u[i]] <= Key[u[j]]
  <2> SUFFICES ASSUME NEW j \in i .. k PROVE Key[u[i]] <= Key[u[j]]
    OBVIOUS
  <2>1. CASE j = k
    BY <2>1, <1>2
  <2>2. CASE j = i
    <3>1. Key[u[i]] \in Nat
      BY <1>1, <1>8
    <3>2. QED
      BY <2>2, <3>1
  <2>3. CASE j # k /\ j # i
    <3>1. j \in DOMAIN t \ {i, k} /\ j \in i .. k - 1
      BY <2>3, <1>1
    <3>4. u[j] = t[j] /\ Key[t[i]] <= Key[t[j]]
      BY <3>1, <1>2 DEF InnerDone
    <3>2. Key[u[i]] <= Key[t[i]] /\ Key[u[i]] \in Nat /\ Key[t[i]] \in Nat /\ Key[t[j]] \in Nat
      <4>1. Key[u[i]] \in Nat /\ Key[t[i]] \in Nat /\ Key[t[j]] \in Nat
        BY <1>1, <1>8
      <4>2. QED
        BY <4>1, <1>2
    <3>3. QED
      BY <3>4, <3>2
  <2>4. QED
    BY <2>1, <2>2, <2>3
<1>6. \A j \in i .. Len(s) : \E m \in i .. Len(s) : u[j] = s[m]
  <2> SUFFICES ASSUME NEW j \in i .. Len(s) PROVE \E m \in i .. Len(s) : u[j] = s[m]
    OBVIOUS
  <2>1. PICK n \in i .. Len(s) : u[j] = t[n]
    <3>1. i \in i .. Len(s) /\ k \in i .. Len(s) /\ j \in DOMAIN t
      BY <1>1
    <3>2. QED
      BY <3>1, <1>2
  <2>2. QED
    BY <2>1 DEF InnerDone
<1>7. QED
  BY <1>3, <1>4, <1>5, <1>6 DEF InnerDone, u

(* The inner loop of TbxListSortItems when it has compared all later items. *)
LEMMA InnerLoopFacts ==
  ASSUME NEW s \in Seq(Items), NEW i \in DOMAIN s
  PROVE  InnerDone(s, i, Len(s), InnerLoop(s, i))
<1> DEFINE n == Len(s)
           V == {t \in Seq(Items) : Len(t) = n}
           step == [p \in (i + 1 .. n) \X V |-> Exchange(p[2], i, p[1])]
           f == CHOOSE f : f = [k \in i .. n |-> IF k = i THEN s ELSE Exchange(f[k - 1], i, k)]
<1>1. n \in Nat /\ i \in 1 .. n /\ s \in V
  OBVIOUS
<1>2. \A k \in i + 1 .. n, t \in V : Exchange(t, i, k) \in V
  <2> SUFFICES ASSUME NEW k \in i + 1 .. n, NEW t \in V PROVE Exchange(t, i, k) \in V
    OBVIOUS
  <2>1. t \in Seq(Items) /\ i \in DOMAIN t /\ k \in DOMAIN t /\ i # k
    BY <1>1
  <2>2. Reorders(t, Exchange(t, i, k))
    BY <2>1, ExchangeFacts
  <2>3. QED
    BY <2>2 DEF Reorders
<1>3. \E g : g = [k \in i .. n |-> IF k = i THEN s ELSE Exchange(g[k - 1], i, k)]
  <2>1. \A k \in i + 1 .. n, t \in V : step[<<k, t>>] = Exchange(t, i, k)
    OBVIOUS
  <2> HIDE DEF step, V
  <2>2. \A k \in i + 1 .. n, t \in V : step[<<k, t>>] \in V
    BY <1>2, <2>1
  <2>8. \E g \in [i .. n -> V] :
          \A k \in i .. n : g[k] = IF k = i THEN s ELSE step[<<k, g[k - 1]>>]
    <3>1. i \in Int /\ n \in Int /\ i <= n /\ s \in V
      BY <1>1
    <3>2. StaysIn(V, i, n, step)
      BY <2>2 DEF StaysIn
    <3>3. \E g \in [i .. n -> V] : Follows(g, i, n, s, step)
      BY <3>1, <3>2, Recursion
    <3>4. QED
      BY <3>3 DEF Follows
  <2>3. PICK g \in [i .. n -> V] :
          \A k \in i .. n : g[k] = IF k = i THEN s ELSE step[<<k, g[k - 1]>>]
    BY <2>8
  <2>4. \A k \in i .. n : k # i => k \in i + 1 .. n /\ k - 1 \in i .. n
    BY <1>1
  <2>5. \A k \in i .. n : g[k] = IF k = i THEN s ELSE Exchange(g[k - 1], i, k)
    BY <2>1, <2>3, <2>4
  <2>6. g = [k \in i .. n |-> IF k = i THEN s ELSE Exchange(g[k - 1], i, k)]
    BY <2>3, <2>5
  <2>7. QED
    BY <2>6
<1>4. f = [k \in i .. n |-> IF k = i THEN s ELSE Exchange(f[k - 1], i, k)]
  BY <1>3
<1>5. InnerLoop(s, i) = f[n]
  BY DEF InnerLoop
<1> HIDE DEF f, V, step
<1>6. \A k \in i .. n : f[k] = IF k = i THEN s ELSE Exchange(f[k - 1], i, k)
  BY <1>4
<1> DEFINE T == {k \in Int : InnerDone(s, i, k, f[k])}
<1>7. i \in T
  <2>1. f[i] = s
    BY <1>1, <1>6
  <2>2. Key[s[i]] \in Nat
    BY ListAssumption
  <2>3. \A j \in i .. i : Key[s[i]] <= Key[s[j]]
    BY <2>2
  <2>4. \A j \in i .. n : \E m \in i .. n : s[j] = s[m]
    OBVIOUS
  <2>5. Reorders(s, s)
    BY DEF Reorders
  <2>6. InnerDone(s, i, i, s)
    BY <2>3, <2>4, <2>5 DEF InnerDone
  <2>7. QED
    BY <2>1, <2>6
<1>8. ASSUME NEW k \in i .. n - 1, k \in T PROVE k + 1 \in T
  <2>1. k + 1 \in i + 1 .. n /\ (k + 1) - 1 = k /\ k + 1 # i /\ k + 1 \in i .. n
    BY <1>1
  <2>2. InnerDone(s, i, (k + 1) - 1, f[k])
    BY <1>8, <2>1
  <2>3. InnerDone(s, i, k + 1, Exchange(f[k], i, k + 1))
    BY <2>1, <2>2, InnerStep
  <2>4. f[k + 1] = Exchange(f[k], i, k + 1)
    BY <2>1, <1>6
  <2>5. QED
    BY <2>3, <2>4
<1> HIDE DEF T
<1>9. n \in T
  <2>1. \A k \in i .. n : k \in T
    <3>1. i \in Int /\ n \in Int
      BY <1>1
    <3>2. QED
      BY <1>7, <1>8, <3>1, Induction
  <2>2. QED
    BY <1>1, <2>1
<1>10. QED
  BY <1>5, <1>9 DEF T

(* The outer loop up to position k: the first k items are in their places. *)
OuterDone(s, k, t) ==
  /\ Reorders(s, t)
  /\ \A p \in 1 .. k, q \in 1 .. Len(s) : p <= q => Key[t[p]] <= Key[t[q]]

(* The outer loop after one more round: the first k positions have their   *)
(* final items, in ascending order.                                        *)
LEMMA OuterStep ==
  ASSUME NEW s \in Seq(Items), NEW k \in 1 .. Len(s), NEW t, OuterDone(s, k - 1, t)
  PROVE  OuterDone(s, k, InnerLoop(t, k))
<1> DEFINE n == Len(s)
           u == InnerLoop(t, k)
<1>1. n \in Nat /\ t \in Seq(Items) /\ Len(t) = n /\ k \in DOMAIN t
  BY DEF OuterDone, Reorders
<1>2. InnerDone(t, k, n, u)
  BY <1>1, InnerLoopFacts
<1> HIDE DEF u
<1>3. Reorders(s, u)
  BY <1>2 DEF InnerDone, OuterDone, Reorders
<1>4. ASSUME NEW p \in 1 .. k, NEW q \in 1 .. n, p <= q PROVE Key[u[p]] <= Key[u[q]]
  <2>1. CASE p = k
    BY <2>1, <1>4, <1>1, <1>2 DEF InnerDone
  <2>2. CASE p # k
    <3>1. p \in 1 .. k - 1 /\ u[p] = t[p]
      BY <2>2, <1>2 DEF InnerDone
    <3>2. PICK m \in 1 .. n : p <= m /\ u[q] = t[m]
      <4>1. CASE q < k
        <5>1. q \in 1 .. k - 1
          BY <4>1
        <5>2. u[q] = t[q]
          BY <5>1, <1>2 DEF InnerDone
        <5>3. QED
          BY <5>2, <1>4
      <4>2. CASE q >= k
        <5>1. q \in k .. Len(t)
          BY <4>2, <1>1
        <5>2. PICK m \in k .. Len(t) : u[q] = t[m]
          BY <5>1, <1>2 DEF InnerDone
        <5>3. m \in 1 .. n /\ p <= m
          BY <1>1
        <5>4. QED
          BY <5>2, <5>3
      <4>3. QED
        BY <4>1, <4>2
    <3>3. QED
      BY <3>1, <3>2 DEF OuterDone
  <2>3. QED
    BY <2>1, <2>2
<1>5. QED
  BY <1>3, <1>4 DEF OuterDone, u

(* TbxListSortItems puts the items of a list into ascending order; none is *)
(* lost and none comes twice.                                              *)
LEMMA SortLoopsSort ==
  ASSUME NEW s \in Seq(Items)
  PROVE  /\ Reorders(s, SortLoops(s))
         /\ \A i, j \in DOMAIN SortLoops(s) : i < j => Key[SortLoops(s)[i]] <= Key[SortLoops(s)[j]]
<1> DEFINE n == Len(s)
           V == {t \in Seq(Items) : Len(t) = n}
           step == [p \in (1 .. n) \X V |-> InnerLoop(p[2], p[1])]
           f == CHOOSE f : f = [i \in 0 .. n |-> IF i = 0 THEN s ELSE InnerLoop(f[i - 1], i)]
<1>1. n \in Nat /\ s \in V
  OBVIOUS
<1>2. \A k \in 1 .. n, t \in V : InnerLoop(t, k) \in V
  <2> SUFFICES ASSUME NEW k \in 1 .. n, NEW t \in V PROVE InnerLoop(t, k) \in V
    OBVIOUS
  <2>1. t \in Seq(Items) /\ k \in DOMAIN t
    BY <1>1
  <2>2. Reorders(t, InnerLoop(t, k))
    BY <2>1, InnerLoopFacts DEF InnerDone
  <2>3. QED
    BY <2>2 DEF Reorders
<1>3. \E g : g = [i \in 0 .. n |-> IF i = 0 THEN s ELSE InnerLoop(g[i - 1], i)]
  <2>1. \A k \in 1 .. n, t \in V : step[<<k, t>>] = InnerLoop(t, k)
    OBVIOUS
  <2> HIDE DEF step, V
  <2>2. StaysIn(V, 0, n, step)
    <3>1. 0 + 1 = 1
      OBVIOUS
    <3>2. QED
      BY <1>2, <2>1, <3>1 DEF StaysIn
  <2>3. \E g \in [0 .. n -> V] : Follows(g, 0, n, s, step)
    BY <1>1, <2>2, Recursion
  <2>4. PICK g \in [0 .. n -> V] :
          \A i \in 0 .. n : g[i] = IF i = 0 THEN s ELSE step[<<i, g[i - 1]>>]
    BY <2>3 DEF Follows
  <2>5. \A i \in 0 .. n : i # 0 => i \in 1 .. n /\ i - 1 \in 0 .. n
    BY <1>1
  <2>6. \A i \in 0 .. n : g[i] = IF i = 0 THEN s ELSE InnerLoop(g[i - 1], i)
    BY <2>1, <2>4, <2>5
  <2>7. g = [i \in 0 .. n |-> IF i = 0 THEN s ELSE InnerLoop(g[i - 1], i)]
    BY <2>4, <2>6
  <2>8. QED
    BY <2>7
<1>4. f = [i \in 0 .. n |-> IF i = 0 THEN s ELSE InnerLoop(f[i - 1], i)]
  BY <1>3
<1>5. SortLoops(s) = f[n]
  BY DEF SortLoops
<1> HIDE DEF f, V, step
<1>6. \A i \in 0 .. n : f[i] = IF i = 0 THEN s ELSE InnerLoop(f[i - 1], i)
  BY <1>4
<1> DEFINE T == {k \in Int : OuterDone(s, k, f[k])}
<1>7. 0 \in T
  <2>1. f[0] = s
    BY <1>1, <1>6
  <2>2. OuterDone(s, 0, s)
    BY DEF OuterDone, Reorders
  <2>3. QED
    BY <2>1, <2>2
<1>8. ASSUME NEW k \in 0 .. n - 1, k \in T PROVE k + 1 \in T
  <2>1. k + 1 \in 1 .. n /\ (k + 1) - 1 = k /\ k + 1 # 0 /\ k + 1 \in 0 .. n
    BY <1>1
  <2>2. OuterDone(s, (k + 1) - 1, f[k])
    BY <1>8, <2>1
  <2>3. OuterDone(s, k + 1, InnerLoop(f[k], k + 1))
    BY <2>1, <2>2, OuterStep
  <2>4. f[k + 1] = InnerLoop(f[k], k + 1)
    BY <2>1, <1>6
  <2>5. QED
    BY <2>3, <2>4
<1> HIDE DEF T
<1>9. n \in T
  <2>1. \A k \in 0 .. n : k \in T
    <3>1. 0 \in Int /\ n \in Int
      BY <1>1
    <3>2. QED
      BY <1>7, <1>8, <3>1, Induction
  <2>2. QED
    BY <1>1, <2>1
<1>10. OuterDone(s, n, SortLoops(s))
  BY <1>5, <1>9 DEF T
<1>11. ASSUME NEW i \in DOMAIN SortLoops(s), NEW j \in DOMAIN SortLoops(s), i < j
       PROVE  Key[SortLoops(s)[i]] <= Key[SortLoops(s)[j]]
  <2>1. DOMAIN SortLoops(s) = 1 .. n
    BY <1>10 DEF OuterDone, Reorders
  <2>2. i \in 1 .. n /\ j \in 1 .. n /\ i <= j
    BY <1>11, <2>1
  <2>3. QED
    BY <2>2, <1>10 DEF OuterDone
<1>12. QED
  BY <1>10, <1>11 DEF OuterDone

-----------------------------------------------------------------------------
(* Chains of nodes. *)

(* There are no more nodes than blocks. *)
LEMMA ShortChain ==
  ASSUME NEW s \in Seq(Blocks), IsInjective(s)
  PROVE  Len(s) \in 0 .. MaxBlocks
<1>1. ToSet(s) \subseteq Blocks
  BY DEF ToSet
<1>2. IsFiniteSet(Blocks) /\ Cardinality(Blocks) = MaxBlocks
  BY FS_Interval, ListAssumption DEF Blocks
<1>3. Cardinality(ToSet(s)) <= MaxBlocks
  BY <1>1, <1>2, FS_Subset
<1>4. QED
  BY <1>3, InjectiveLength, ListAssumption

(* Following the next pointers leads along these nodes and no others. *)
LEMMA ChainIs ==
  ASSUME NodesType, NEW l \in Blocks, NEW s, IsChain(l, s)
  PROVE  Chain(l) = s
<1> DEFINE follow(b) == IF b = Null THEN Null ELSE nodes[b].next
           step == [p \in Blocks \X Pointers |-> follow(p[2])]
           node == CHOOSE node : node = [k \in Blocks |->
                     IF k = 1 THEN lists[l].first
                     ELSE IF node[k - 1] = Null THEN Null ELSE nodes[node[k - 1]].next]
           n == Len(s)
<1>1. /\ MaxBlocks \in Nat /\ 1 \in Blocks /\ Blocks = 1 .. MaxBlocks /\ 1 <= MaxBlocks
      /\ lists[l].first \in Pointers /\ \A b \in Pointers : follow(b) \in Pointers
  BY ListAssumption DEF NodesType, Pointers, Blocks
<1>2. n \in 0 .. MaxBlocks /\ DOMAIN s = 1 .. n /\ s \in Seq(Blocks) /\ Null \notin Blocks
  BY ShortChain DEF IsChain, Null, Blocks
<1>3. \E f : f = [k \in Blocks |->
                    IF k = 1 THEN lists[l].first
                    ELSE IF f[k - 1] = Null THEN Null ELSE nodes[f[k - 1]].next]
  <2>1. \A k \in Blocks, b \in Pointers : step[<<k, b>>] = follow(b)
    OBVIOUS
  <2> HIDE DEF step
  <2>2. StaysIn(Pointers, 1, MaxBlocks, step)
    <3> SUFFICES ASSUME NEW k \in 1 + 1 .. MaxBlocks, NEW b \in Pointers
                 PROVE  step[<<k, b>>] \in Pointers
      BY DEF StaysIn
    <3>1. k \in Blocks
      BY <1>1
    <3>2. QED
      BY <1>1, <2>1, <3>1
  <2>3. \E f \in [1 .. MaxBlocks -> Pointers] : Follows(f, 1, MaxBlocks, lists[l].first, step)
    BY <1>1, <2>2, Recursion
  <2>4. PICK f \in [Blocks -> Pointers] :
          \A k \in Blocks : f[k] = IF k = 1 THEN lists[l].first ELSE step[<<k, f[k - 1]>>]
    BY <1>1, <2>3 DEF Follows
  <2>5. \A k \in Blocks : k # 1 => k - 1 \in Blocks
    BY <1>1
  <2>6. \A k \in Blocks : f[k] = IF k = 1 THEN lists[l].first ELSE follow(f[k - 1])
    <3> SUFFICES ASSUME NEW k \in Blocks, k # 1 PROVE f[k] = follow(f[k - 1])
      BY <2>4
    <3>1. k - 1 \in Blocks /\ f[k - 1] \in Pointers
      BY <2>4, <2>5
    <3>2. f[k] = step[<<k, f[k - 1]>>]
      BY <2>4
    <3>3. QED
      BY <2>1, <3>1, <3>2
  <2>7. f = [k \in Blocks |->
               IF k = 1 THEN lists[l].first
               ELSE IF f[k - 1] = Null THEN Null ELSE nodes[f[k - 1]].next]
    BY <2>4, <2>6
  <2>8. QED
    BY <2>7
<1>4. node = [k \in Blocks |->
                IF k = 1 THEN lists[l].first
                ELSE IF node[k - 1] = Null THEN Null ELSE nodes[node[k - 1]].next]
  BY <1>3, Zenon
<1>5. Chain(l) = [k \in 1 .. Cardinality({j \in Blocks : node[j] # Null}) |-> node[k]]
  BY DEF Chain
<1> HIDE DEF node, step
<1>6. \A k \in Blocks : node[k] = IF k = 1 THEN lists[l].first ELSE follow(node[k - 1])
  BY <1>4
<1> DEFINE T == {k \in Int : node[k] = IF k <= n THEN s[k] ELSE Null}
<1>7. 1 \in T
  <2>1. lists[l].first = IF 1 <= n THEN s[1] ELSE Null
    BY <1>2 DEF IsChain
  <2>2. QED
    BY <1>1, <1>6, <2>1
<1>8. ASSUME NEW k \in 1 .. MaxBlocks - 1, k \in T PROVE k + 1 \in T
  <2>1. k \in Blocks /\ k + 1 \in Blocks /\ k + 1 # 1 /\ (k + 1) - 1 = k
    BY <1>1
  <2>2. node[k + 1] = follow(node[k])
    BY <1>6, <2>1
  <2>3. CASE k <= n
    <3>1. k \in DOMAIN s /\ node[k] = s[k] /\ s[k] \in Blocks
      BY <1>2, <1>8, <2>3
    <3>2. nodes[s[k]].next = IF k = n THEN Null ELSE s[k + 1]
      BY <3>1 DEF IsChain, Linked
    <3>3. node[k + 1] = IF k = n THEN Null ELSE s[k + 1]
      BY <1>2, <2>2, <3>1, <3>2
    <3>4. k \in Int /\ n \in Int
      BY <1>2, ListAssumption
    <3>7. (k = n) <=> (k + 1 > n)
      <4> HIDE DEF n
      <4>1. QED
        BY <3>4, <2>3
    <3>5. node[k + 1] = IF k + 1 <= n THEN s[k + 1] ELSE Null
      BY <3>3, <3>4, <3>7
    <3>6. QED
      BY <3>4, <3>5
  <2>4. CASE ~(k <= n)
    <3>1. node[k] = Null /\ ~(k + 1 <= n)
      BY <1>2, <1>8, <2>4
    <3>2. QED
      BY <2>2, <3>1
  <2>5. QED
    BY <2>3, <2>4
<1> HIDE DEF T
<1>9. \A k \in Blocks : k \in T
  <2>1. 1 \in Int /\ MaxBlocks \in Int
    BY <1>1
  <2>2. QED
    BY <1>1, <1>7, <1>8, <2>1, Induction
<1>10. \A k \in Blocks : node[k] = IF k <= n THEN s[k] ELSE Null
  BY <1>9 DEF T
<1>11. {j \in Blocks : node[j] # Null} = 1 .. n
  <2>1. ASSUME NEW j \in Blocks, node[j] # Null PROVE j \in 1 .. n
    BY <1>1, <1>2, <1>10, <2>1
  <2>2. ASSUME NEW j \in 1 .. n PROVE j \in Blocks /\ node[j] # Null
    <3>1. j \in Blocks /\ j <= n /\ s[j] \in Blocks
      BY <1>1, <1>2
    <3>2. QED
      BY <1>2, <1>10, <3>1
  <2>3. QED
    BY <2>1, <2>2
<1>12. Cardinality(1 .. n) = n
  BY <1>2, FS_Interval
<1>13. Chain(l) = [k \in 1 .. n |-> node[k]]
  BY <1>5, <1>11, <1>12
<1>14. [k \in 1 .. n |-> node[k]] = [k \in 1 .. n |-> s[k]]
  <2>1. \A k \in 1 .. n : node[k] = s[k]
    BY <1>1, <1>2, <1>10
  <2>2. QED
    BY <2>1
<1>15. QED
  BY <1>2, <1>13, <1>14

(* ChainIs as one formula, to be used in the next state, too. *)
ChainFact == NodesType => \A l \in Blocks : \A s : IsChain(l, s) => Chain(l) = s

(* That formula holds in every state. *)
LEMMA ChainFacts == ChainFact /\ ChainFact'
<1>1. ChainFact
  BY ChainIs DEF ChainFact
<1>2. QED
  BY <1>1, PTL

(* A chain whose links stay is the same chain. *)
LEMMA ChainStays ==
  ASSUME NodesType', NEW l \in Blocks, NEW s, IsChain(l, s),
         lists'[l] = lists[l],
         \A b \in ToSet(s) : nodes'[b].prev = nodes[b].prev /\ nodes'[b].next = nodes[b].next
  PROVE  IsChain(l, s)' /\ Chain(l)' = s
<1>1. \A i \in DOMAIN s : s[i] \in ToSet(s)
  BY DEF ToSet
<1>2. IsChain(l, s)'
  BY <1>1 DEF IsChain, Linked
<1>3. QED
  BY <1>2, ChainFacts DEF ChainFact

(* A list that is emptied, or new. *)
LEMMA ChainEmpty ==
  ASSUME NodesType', NEW l \in Blocks, lists'[l] = NewList
  PROVE  IsChain(l, <<>>)' /\ Chain(l)' = <<>>
<1>1. IsChain(l, <<>>)'
  <2>1. <<>> \in Seq(Blocks) /\ DOMAIN <<>> = {} /\ Len(<<>>) = 0
    OBVIOUS
  <2>2. Linked(<<>>)' /\ IsInjective(<<>>)
    BY <2>1 DEF Linked, IsInjective
  <2>3. QED
    BY <2>1, <2>2 DEF IsChain, NewList
<1>2. QED
  BY <1>1, ChainFacts DEF ChainFact

(* A new node in position i. *)
LEMMA ChainGrows ==
  ASSUME NodesType', NEW l \in Blocks, NEW s, IsChain(l, s),
         NEW n \in Blocks \ ToSet(s), NEW i \in 1 .. Len(s) + 1,
         nodes'[n].prev = IF i = 1 THEN Null ELSE s[i - 1],
         nodes'[n].next = IF i = Len(s) + 1 THEN Null ELSE s[i],
         \A j \in DOMAIN s :
           /\ nodes'[s[j]].prev = IF j = i THEN n ELSE nodes[s[j]].prev
           /\ nodes'[s[j]].next = IF j + 1 = i THEN n ELSE nodes[s[j]].next,
         lists'[l].first = IF i = 1 THEN n ELSE lists[l].first,
         lists'[l].last = IF i = Len(s) + 1 THEN n ELSE lists[l].last,
         lists'[l].count = lists[l].count + 1
  PROVE  /\ IsChain(l, InsertAt(s, i, n))' /\ Chain(l)' = InsertAt(s, i, n)
         /\ ToSet(InsertAt(s, i, n)) = ToSet(s) \cup {n}
<1> DEFINE t == InsertAt(s, i, n)
           L == Len(s)
<1>1. /\ s \in Seq(Blocks) /\ IsInjective(s) /\ L \in Nat /\ DOMAIN s = 1 .. L
      /\ i \in 1 .. L + 1 /\ n \in Blocks
      /\ \A j \in 1 .. L : s[j] # n
  BY DEF IsChain, ToSet
<1>2. /\ t \in Seq(Blocks) /\ Len(t) = L + 1
      /\ \A k \in 1 .. L + 1 : t[k] = IF k < i THEN s[k] ELSE IF k = i THEN n ELSE s[k - 1]
  <2>1. s \in Seq(Blocks) /\ n \in Blocks /\ i \in 1 .. Len(s) + 1
    BY <1>1
  <2>2. QED
    BY <2>1, InsertElements
<1> HIDE DEF t
<1>0. L \in Nat /\ i \in 1 .. L + 1
  BY <1>1
<1>3. DOMAIN t = 1 .. L + 1
  BY <1>1, <1>2
<1>4. \A k \in 1 .. L + 1 : /\ k < i => k \in 1 .. L /\ t[k] = s[k]
                            /\ k = i => t[k] = n
                            /\ k > i => k - 1 \in 1 .. L /\ t[k] = s[k - 1]
  BY <1>1, <1>2
<1>5. IsInjective(t)
  <2>1. \A a, b \in 1 .. L : s[a] = s[b] => a = b
    BY <1>1 DEF IsInjective
  <2> SUFFICES ASSUME NEW a \in 1 .. L + 1, NEW b \in 1 .. L + 1, t[a] = t[b], a < b PROVE FALSE
    <3>1. \A a, b \in 1 .. L + 1 : ~(a < b) /\ ~(b < a) => a = b
      BY <1>1
    <3>2. QED
      BY <1>3, <3>1 DEF IsInjective
  <2>2. CASE a < i /\ b < i
    BY <2>1, <2>2, <1>4
  <2>3. CASE a < i /\ b = i
    BY <2>3, <1>1, <1>4
  <2>4. CASE a < i /\ b > i
    <3>1. a = b - 1
      BY <2>1, <2>4, <1>4
    <3>2. QED
      BY <3>1, <2>4, <1>1
  <2>5. CASE a = i
    <3>1. b > i
      BY <2>5
    <3>2. QED
      BY <2>5, <3>1, <1>1, <1>4
  <2>6. CASE a > i
    <3>1. b > i
      BY <2>6, <1>1
    <3>2. a - 1 \in 1 .. L /\ b - 1 \in 1 .. L /\ s[a - 1] = s[b - 1]
      BY <2>6, <3>1, <1>4
    <3>3. a - 1 = b - 1
      BY <2>1, <3>2
    <3>4. QED
      BY <3>3
  <2>7. QED
    BY <2>2, <2>3, <2>4, <2>5, <2>6, <1>1
<1>6. ToSet(t) = ToSet(s) \cup {n}
  <2>1. ToSet(t) \subseteq ToSet(s) \cup {n}
    <3> SUFFICES ASSUME NEW k \in 1 .. L + 1 PROVE t[k] \in ToSet(s) \cup {n}
      BY <1>3 DEF ToSet
    <3>1. t[k] = n \/ \E j \in 1 .. L : t[k] = s[j]
      <4>1. k < i \/ k = i \/ k > i
        BY <1>1
      <4>2. QED
        BY <4>1, <1>4
    <3>2. QED
      BY <3>1, <1>1 DEF ToSet
  <2>2. ToSet(s) \subseteq ToSet(t)
    <3> SUFFICES ASSUME NEW j \in 1 .. L PROVE s[j] \in ToSet(t)
      BY <1>1 DEF ToSet
    <3>1. \E k \in 1 .. L + 1 : t[k] = s[j]
      <4>1. CASE j < i
        <5>1. j \in 1 .. L + 1 /\ t[j] = s[j]
          BY <4>1, <1>1, <1>4
        <5>2. QED
          BY <5>1
      <4>2. CASE ~(j < i)
        <5>1. j + 1 \in 1 .. L + 1 /\ j + 1 > i /\ (j + 1) - 1 = j
          BY <4>2, <1>1
        <5>2. t[j + 1] = s[(j + 1) - 1]
          BY <5>1, <1>4
        <5>3. QED
          BY <5>1, <5>2
      <4>3. QED
        BY <4>1, <4>2
    <3>2. QED
      BY <3>1, <1>3 DEF ToSet
  <2>3. n \in ToSet(t)
    <3>1. i \in 1 .. L + 1 /\ ~(i < i)
      BY <1>1
    <3>2. t[i] = n
      BY <3>1, <1>4
    <3>3. i \in DOMAIN t
      BY <3>1, <1>3
    <3>4. QED
      BY <3>2, <3>3 DEF ToSet
  <2>4. QED
    BY <2>1, <2>2, <2>3
<1>7. \A j \in 1 .. L : /\ nodes[s[j]].prev = IF j = 1 THEN Null ELSE s[j - 1]
                        /\ nodes[s[j]].next = IF j = L THEN Null ELSE s[j + 1]
  BY <1>1 DEF IsChain, Linked
<1>8. ASSUME NEW k \in 1 .. L + 1
      PROVE  /\ nodes'[t[k]].prev = IF k = 1 THEN Null ELSE t[k - 1]
             /\ nodes'[t[k]].next = IF k = L + 1 THEN Null ELSE t[k + 1]
  <2>1. CASE k < i
    <3>1. k \in 1 .. L /\ t[k] = s[k] /\ k # i /\ k # L + 1
      BY <2>1, <1>1, <1>4
    <3>2. nodes'[t[k]].prev = nodes[s[k]].prev
      BY <3>1, <1>1
    <3>3. k # 1 => k - 1 \in 1 .. L + 1 /\ k - 1 < i
      BY <2>1, <1>1
    <3>4. nodes'[t[k]].prev = IF k = 1 THEN Null ELSE t[k - 1]
      BY <3>1, <3>2, <3>3, <1>4, <1>7
    <3>5. CASE k + 1 = i
      <4>1. k + 1 \in 1 .. L + 1 /\ k \in 1 .. L
        BY <3>1, <3>5, <1>0
      <4>2. t[k + 1] = n /\ nodes'[s[k]].next = n
        BY <3>5, <4>1, <1>1, <1>4
      <4>3. QED
        BY <3>1, <3>4, <4>2
    <3>6. CASE k + 1 # i
      <4>1. k + 1 < i /\ k + 1 \in 1 .. L + 1 /\ k # L
        BY <2>1, <3>6, <1>0
      <4>2. t[k + 1] = s[k + 1]
        BY <4>1, <1>4
      <4>3. nodes'[t[k]].next = nodes[s[k]].next
        BY <3>1, <3>6, <1>1
      <4>4. QED
        BY <3>1, <3>4, <4>1, <4>2, <4>3, <1>7
    <3>7. QED
      BY <3>4, <3>5, <3>6
  <2>2. CASE k = i
    <3>1. t[k] = n
      BY <2>2, <1>4
    <3>2. k # 1 => k - 1 \in 1 .. L + 1 /\ k - 1 < i
      BY <2>2, <1>1
    <3>3. k # L + 1 => k + 1 \in 1 .. L + 1 /\ k + 1 > i /\ (k + 1) - 1 = k
      BY <2>2, <1>1
    <3>4. (k # 1 => t[k - 1] = s[k - 1]) /\ (k # L + 1 => t[k + 1] = s[k])
      BY <3>2, <3>3, <1>4
    <3>5. QED
      BY <2>2, <3>1, <3>4
  <2>3. CASE k > i
    <3>1. k - 1 \in 1 .. L /\ t[k] = s[k - 1] /\ k # 1 /\ (k - 1) + 1 # i
      BY <2>3, <1>1, <1>4
    <3>2. nodes'[t[k]].next = nodes[s[k - 1]].next
      BY <3>1, <1>1
    <3>3. k # L + 1 => k + 1 \in 1 .. L + 1 /\ k + 1 > i /\ (k + 1) - 1 = k
      BY <2>3, <1>0
    <3>4. (k - 1 = L <=> k = L + 1) /\ (k - 1) + 1 = k
      BY <1>1
    <3>5. nodes'[t[k]].next = IF k = L + 1 THEN Null ELSE t[k + 1]
      BY <3>1, <3>2, <3>3, <3>4, <1>4, <1>7
    <3>6. CASE k - 1 = i
      <4>1. nodes'[s[k - 1]].prev = n
        BY <3>1, <3>6, <1>1
      <4>2. t[k - 1] = n
        BY <3>6, <1>1, <1>4
      <4>3. QED
        BY <3>1, <3>5, <4>1, <4>2
    <3>7. CASE k - 1 # i
      <4>1. k - 1 > i /\ k - 1 \in 1 .. L + 1 /\ k - 1 # 1
        BY <2>3, <3>7, <1>1
      <4>2. t[k - 1] = s[k - 1 - 1]
        BY <4>1, <1>4
      <4>3. nodes'[t[k]].prev = nodes[s[k - 1]].prev
        BY <3>1, <3>7, <1>1
      <4>4. QED
        BY <3>1, <3>5, <4>1, <4>2, <4>3, <1>7
    <3>8. QED
      BY <3>6, <3>7
  <2>4. QED
    BY <2>1, <2>2, <2>3, <1>1
<1>9. Linked(t)'
  BY <1>2, <1>3, <1>8 DEF Linked
<1>10. lists'[l].first = t[1] /\ lists'[l].last = t[L + 1] /\ lists'[l].count = Len(t) /\ t # <<>>
  <2>1. lists[l].count = L /\ (L # 0 => lists[l].first = s[1] /\ lists[l].last = s[L])
    BY <1>1 DEF IsChain
  <2>2. lists'[l].first = t[1]
    <3>1. CASE i = 1
      BY <3>1, <1>1, <1>4
    <3>2. CASE i # 1
      <4>1. 1 < i /\ 1 \in 1 .. L + 1 /\ L # 0
        BY <3>2, <1>1
      <4>2. QED
        BY <3>2, <4>1, <2>1, <1>4
    <3>3. QED
      BY <3>1, <3>2
  <2>3. lists'[l].last = t[L + 1]
    <3>1. CASE i = L + 1
      BY <3>1, <1>1, <1>4
    <3>2. CASE i # L + 1
      <4>1. L + 1 > i /\ L + 1 \in 1 .. L + 1 /\ L # 0 /\ (L + 1) - 1 = L
        BY <3>2, <1>1
      <4>2. QED
        BY <3>2, <4>1, <2>1, <1>4
    <3>3. QED
      BY <3>1, <3>2
  <2>4. t # <<>>
    BY <1>1, <1>2
  <2>5. QED
    BY <1>2, <2>1, <2>2, <2>3, <2>4
<1>11. IsChain(l, t)'
  BY <1>2, <1>5, <1>9, <1>10 DEF IsChain
<1>12. Chain(l)' = t
  BY <1>11, ChainFacts DEF ChainFact
<1>13. QED
  BY <1>6, <1>11, <1>12 DEF t

(* The node in position i is taken out. *)
LEMMA ChainShrinks ==
  ASSUME NodesType', NEW l \in Blocks, NEW s, IsChain(l, s), NEW i \in DOMAIN s,
         \A j \in DOMAIN s \ {i} :
           /\ nodes'[s[j]].prev = IF j = i + 1 THEN nodes[s[i]].prev ELSE nodes[s[j]].prev
           /\ nodes'[s[j]].next = IF j + 1 = i THEN nodes[s[i]].next ELSE nodes[s[j]].next,
         lists'[l].first = IF i = 1 THEN nodes[s[i]].next ELSE lists[l].first,
         lists'[l].last = IF i = Len(s) THEN nodes[s[i]].prev ELSE lists[l].last,
         lists'[l].count = lists[l].count - 1
  PROVE  /\ IsChain(l, RemoveAt(s, i))' /\ Chain(l)' = RemoveAt(s, i)
         /\ ToSet(RemoveAt(s, i)) = ToSet(s) \ {s[i]}
<1> DEFINE t == RemoveAt(s, i)
           L == Len(s)
<1>1. /\ s \in Seq(Blocks) /\ IsInjective(s) /\ L \in Nat /\ DOMAIN s = 1 .. L
      /\ i \in 1 .. L
  BY DEF IsChain
<1>0. L \in Nat /\ i \in 1 .. L
  BY <1>1
<1>2. /\ t \in Seq(Blocks) /\ Len(t) = L - 1
      /\ \A k \in 1 .. L - 1 : t[k] = IF k < i THEN s[k] ELSE s[k + 1]
  <2>1. s \in Seq(Blocks) /\ i \in 1 .. Len(s)
    BY <1>1
  <2>2. QED
    BY <2>1, RemoveElements
<1> HIDE DEF t
<1>3. DOMAIN t = 1 .. L - 1
  BY <1>1, <1>2
<1>4. \A k \in 1 .. L - 1 : /\ k < i => k \in 1 .. L /\ k # i /\ t[k] = s[k]
                            /\ k >= i => k + 1 \in 1 .. L /\ k + 1 # i /\ t[k] = s[k + 1]
  BY <1>0, <1>2
<1>5. \A a, b \in 1 .. L : s[a] = s[b] => a = b
  BY <1>1 DEF IsInjective
<1>6. IsInjective(t)
  <2> SUFFICES ASSUME NEW a \in 1 .. L - 1, NEW b \in 1 .. L - 1, t[a] = t[b], a < b PROVE FALSE
    <3>1. \A a, b \in 1 .. L - 1 : ~(a < b) /\ ~(b < a) => a = b
      BY <1>0
    <3>2. QED
      BY <1>3, <3>1 DEF IsInjective
  <2>1. CASE b < i
    <3>1. a < i
      BY <2>1, <1>0
    <3>2. QED
      BY <2>1, <3>1, <1>4, <1>5
  <2>2. CASE a < i /\ b >= i
    <3>1. a = b + 1
      BY <2>2, <1>4, <1>5
    <3>2. QED
      BY <3>1
  <2>3. CASE a >= i
    <3>1. b >= i
      BY <2>3, <1>0
    <3>2. a + 1 \in 1 .. L /\ b + 1 \in 1 .. L /\ s[a + 1] = s[b + 1]
      BY <2>3, <3>1, <1>4
    <3>3. a + 1 = b + 1
      BY <3>2, <1>5
    <3>4. QED
      BY <3>3
  <2>4. QED
    BY <2>1, <2>2, <2>3, <1>0
<1>7. ToSet(t) = ToSet(s) \ {s[i]}
  <2>1. ASSUME NEW k \in 1 .. L - 1 PROVE t[k] \in ToSet(s) \ {s[i]}
    <3>1. PICK j \in 1 .. L : j # i /\ t[k] = s[j]
      <4>1. k < i \/ k >= i
        BY <1>0
      <4>2. QED
        BY <4>1, <1>4
    <3>2. QED
      BY <3>1, <1>1, <1>5 DEF ToSet
  <2>2. ASSUME NEW j \in 1 .. L, j # i PROVE s[j] \in ToSet(t)
    <3>1. CASE j < i
      <4>1. j \in 1 .. L - 1
        BY <3>1, <1>0
      <4>2. QED
        BY <3>1, <4>1, <1>3, <1>4 DEF ToSet
    <3>2. CASE j > i
      <4>1. j - 1 \in 1 .. L - 1 /\ j - 1 >= i /\ (j - 1) + 1 = j
        BY <3>2, <1>0
      <4>2. t[j - 1] = s[j]
        BY <4>1, <1>4
      <4>3. QED
        BY <4>1, <4>2, <1>3 DEF ToSet
    <3>3. QED
      BY <2>2, <3>1, <3>2, <1>0
  <2>3. ToSet(t) \subseteq ToSet(s) \ {s[i]}
    BY <2>1, <1>3 DEF ToSet
  <2>4. ToSet(s) \ {s[i]} \subseteq ToSet(t)
    <3> SUFFICES ASSUME NEW b \in ToSet(s), b # s[i] PROVE b \in ToSet(t)
      OBVIOUS
    <3>1. DOMAIN s = 1 .. L
      BY <1>1
    <3>2. PICK j \in 1 .. L : b = s[j]
      BY <3>1 DEF ToSet
    <3>3. QED
      BY <2>2, <3>2
  <2>5. QED
    BY <2>3, <2>4
<1>8. \A j \in 1 .. L : /\ nodes[s[j]].prev = IF j = 1 THEN Null ELSE s[j - 1]
                        /\ nodes[s[j]].next = IF j = L THEN Null ELSE s[j + 1]
  BY <1>1 DEF IsChain, Linked
<1>9. ASSUME NEW k \in 1 .. L - 1
      PROVE  /\ nodes'[t[k]].prev = IF k = 1 THEN Null ELSE t[k - 1]
             /\ nodes'[t[k]].next = IF k = L - 1 THEN Null ELSE t[k + 1]
  <2>1. CASE k < i
    <3>1. k \in 1 .. L /\ k # i /\ t[k] = s[k] /\ k # i + 1 /\ k # L
      BY <2>1, <1>0, <1>4
    <3>2. nodes'[t[k]].prev = nodes[s[k]].prev
      BY <3>1, <1>1
    <3>3. k # 1 => k - 1 \in 1 .. L - 1 /\ k - 1 < i
      BY <2>1, <1>0
    <3>4. nodes'[t[k]].prev = IF k = 1 THEN Null ELSE t[k - 1]
      BY <3>1, <3>2, <3>3, <1>4, <1>8
    <3>5. CASE k + 1 = i
      <4>1. nodes'[t[k]].next = IF i = L THEN Null ELSE s[i + 1]
        BY <3>1, <3>5, <1>1, <1>8, Zenon
      <4>2. (i = L <=> k = L - 1) /\ (i # L => k + 1 \in 1 .. L - 1 /\ k + 1 >= i)
        BY <3>5, <1>0
      <4>3. i # L => t[k + 1] = s[i + 1]
        BY <3>5, <4>2, <1>4
      <4>4. QED
        BY <3>4, <4>1, <4>2, <4>3, Zenon
    <3>6. CASE k + 1 # i
      <4>1. k + 1 < i /\ k + 1 \in 1 .. L - 1 /\ k # L - 1
        BY <2>1, <3>6, <1>0
      <4>2. t[k + 1] = s[k + 1]
        BY <4>1, <1>4, Zenon
      <4>3. nodes'[t[k]].next = nodes[s[k]].next
        BY <3>1, <3>6, <1>1, Zenon
      <4>4. QED
        BY <3>1, <3>4, <4>1, <4>2, <4>3, <1>8
    <3>7. QED
      BY <3>5, <3>6
  <2>2. CASE k >= i
    <3>1. k + 1 \in 1 .. L /\ k + 1 # i /\ t[k] = s[k + 1] /\ (k + 1) + 1 # i
      BY <2>2, <1>0, <1>4
    <3>2. nodes'[t[k]].next = nodes[s[k + 1]].next
      BY <3>1, <1>1
    <3>3. /\ k + 1 = L <=> k = L - 1
          /\ k # L - 1 => k + 1 \in 1 .. L - 1 /\ k + 1 >= i
      BY <2>2, <1>0
    <3>4. nodes'[t[k]].next = IF k = L - 1 THEN Null ELSE t[k + 1]
      BY <3>1, <3>2, <3>3, <1>4, <1>8
    <3>5. CASE k = i
      <4>1. nodes'[t[k]].prev = IF i = 1 THEN Null ELSE s[i - 1]
        BY <3>1, <3>5, <1>1, <1>8
      <4>2. i # 1 => k - 1 \in 1 .. L - 1 /\ k - 1 < i
        BY <3>5, <1>0
      <4>3. i # 1 => t[k - 1] = s[i - 1]
        BY <3>5, <4>2, <1>4
      <4>4. nodes'[t[k]].prev = IF k = 1 THEN Null ELSE t[k - 1]
        BY <3>5, <4>1, <4>3
      <4>5. QED
        BY <3>4, <4>4
    <3>6. CASE k # i
      <4>1. k # 1 /\ k - 1 >= i /\ k - 1 \in 1 .. L - 1 /\ (k - 1) + 1 = k /\ (k + 1) - 1 = k
            /\ k + 1 # i + 1 /\ k + 1 # 1
        BY <2>2, <3>6, <1>0
      <4>2. t[k - 1] = s[k]
        BY <4>1, <1>4
      <4>3. nodes'[t[k]].prev = nodes[s[k + 1]].prev
        BY <3>1, <4>1, <1>1
      <4>4. nodes[s[k + 1]].prev = s[k]
        BY <3>1, <4>1, <1>8
      <4>5. QED
        BY <3>4, <4>1, <4>2, <4>3, <4>4
    <3>7. QED
      BY <3>5, <3>6
  <2>3. QED
    BY <2>1, <2>2, <1>0
<1>10. Linked(t)'
  BY <1>2, <1>3, <1>9 DEF Linked
<1>11. /\ lists'[l].first = IF t = <<>> THEN Null ELSE t[1]
       /\ lists'[l].last = IF t = <<>> THEN Null ELSE t[Len(t)]
       /\ lists'[l].count = Len(t)
  <2>1. /\ lists[l].count = L /\ L # 0 /\ lists[l].first = s[1] /\ lists[l].last = s[L]
        /\ 1 \in 1 .. L /\ L \in 1 .. L
    BY <1>0 DEF IsChain
  <2>2. t = <<>> <=> L = 1
    <3>1. t = <<>> <=> Len(t) = 0
      BY <1>2
    <3>2. QED
      BY <3>1, <1>0, <1>2
  <2>3. CASE L = 1
    <3>1. i = 1
      BY <2>3, <1>0
    <3>2. nodes[s[i]].next = Null /\ nodes[s[i]].prev = Null
      BY <2>3, <3>1, <1>8
    <3>3. QED
      BY <2>1, <2>2, <2>3, <3>1, <3>2, <1>2
  <2>4. CASE L # 1
    <3>1. 1 \in 1 .. L - 1 /\ L - 1 \in 1 .. L - 1
      <4> HIDE DEF L
      <4>1. L >= 2
        BY <2>4, <1>0
      <4>2. QED
        BY <4>1, <1>0
    <3>2. lists'[l].first = t[1]
      <4>1. CASE i = 1
        <5>1. t[1] = s[2] /\ nodes[s[1]].next = s[2]
          BY <4>1, <2>1, <2>4, <3>1, <1>4, <1>8
        <5>2. QED
          BY <4>1, <5>1
      <4>2. CASE i # 1
        <5>1. 1 < i
          BY <4>2, <1>0
        <5>2. QED
          BY <4>2, <5>1, <2>1, <3>1, <1>4
      <4>3. QED
        BY <4>1, <4>2
    <3>3. lists'[l].last = t[L - 1]
      <4>1. CASE i = L
        <5>1. L - 1 < i /\ L # 1
          BY <4>1, <1>0, <2>4
        <5>2. t[L - 1] = s[L - 1] /\ nodes[s[L]].prev = s[L - 1]
          BY <5>1, <2>1, <3>1, <1>4, <1>8
        <5>3. QED
          BY <4>1, <5>2
      <4>2. CASE i # L
        <5>1. L - 1 >= i /\ (L - 1) + 1 = L
          BY <4>2, <1>0
        <5>2. QED
          BY <4>2, <5>1, <2>1, <3>1, <1>4
      <4>3. QED
        BY <4>1, <4>2
    <3>4. QED
      BY <2>1, <2>2, <2>4, <3>2, <3>3, <1>2
  <2>5. QED
    BY <2>3, <2>4
<1>12. IsChain(l, t)'
  BY <1>2, <1>6, <1>10, <1>11 DEF IsChain
<1>13. Chain(l)' = t
  BY <1>12, ChainFacts DEF ChainFact
<1>14. QED
  BY <1>7, <1>12, <1>13 DEF t

-----------------------------------------------------------------------------
(* What happens to the places of the blocks. *)

(* Nothing moves. *)
LEMMA PlacesStay ==
  ASSUME PlaceInv, open' = open, UNCHANGED poolVars,
         \A l \in open : Nodes(l)' = Nodes(l),
         \A d \in Contexts : HeldBy(d)' = HeldBy(d)
  PROVE  PlaceInv'
<1>1. \A b : Placed(b)' <=> Placed(b)
  BY DEF Placed, poolVars
<1>2. QED
  BY <1>1 DEF PlaceInv, poolVars

(* The pool gets another block. *)
LEMMA PlacesGrow ==
  ASSUME PlaceInv, open' = open, created < MaxBlocks,
         created' = created + 1, free' = <<created + 1>> \o free,
         \A l \in open : Nodes(l)' = Nodes(l),
         \A d \in Contexts : HeldBy(d)' = HeldBy(d)
  PROVE  PlaceInv'
<1> DEFINE n == created + 1
<1>1. n \in Blocks /\ n \notin 1 .. created /\ created' \in 0 .. MaxBlocks
      /\ 1 .. created' = 1 .. created \cup {n}
  BY ListAssumption DEF PlaceInv, Blocks
<1>2. ~Placed(n)
  BY <1>1 DEF PlaceInv
<1>3. /\ free' \in Seq(Blocks) /\ ToSet(free)' = ToSet(free) \cup {n}
      /\ IsInjective(free)'
  BY <1>1, <1>2, Push DEF PlaceInv, Placed
<1> HIDE DEF n
<1>4. \A b : Placed(b)' <=> Placed(b) \/ b = n
  BY <1>3 DEF Placed
<1>5. \A b : Placed(b)' <=> b \in 1 .. created'
  BY <1>1, <1>4 DEF PlaceInv
<1>6. n \notin open /\ (\A l \in open : n \notin Nodes(l)) /\ \A d \in Contexts : n \notin HeldBy(d)
  BY <1>2 DEF Placed
<1>7. created' \in 0 .. MaxBlocks
  BY <1>1
<1>8. QED
  BY <1>3, <1>5, <1>6, <1>7 DEF PlaceInv

(* A context takes the first free block. *)
LEMMA PlacesTake ==
  ASSUME PlaceInv, open' = open, created' = created, free # <<>>, free' = Tail(free),
         \A l \in open : Nodes(l)' = Nodes(l),
         NEW c \in Contexts, HeldBy(c) = {}, HeldBy(c)' = {Head(free)},
         \A d \in Contexts \ {c} : HeldBy(d)' = HeldBy(d)
  PROVE  PlaceInv'
<1> DEFINE n == Head(free)
<1>1. /\ free' \in Seq(Blocks) /\ ToSet(free)' = ToSet(free) \ {n}
      /\ IsInjective(free)' /\ n \in ToSet(free)
  BY Pop DEF PlaceInv
<1> HIDE DEF n
<1>2. HeldBy(c)' = {n}
  BY DEF n
<1>3. \A b : Placed(b)' <=> Placed(b)
  BY <1>1, <1>2 DEF Placed
<1>4. QED
  BY <1>1, <1>2, <1>3 DEF PlaceInv

(* A context's block becomes an empty list. *)
LEMMA PlacesOpen ==
  ASSUME PlaceInv, UNCHANGED poolVars, NEW c \in Contexts, NEW n,
         HeldBy(c) = {n}, HeldBy(c)' = {},
         open' = open \cup {n}, Nodes(n)' = {},
         \A l \in open : Nodes(l)' = Nodes(l),
         \A d \in Contexts \ {c} : HeldBy(d)' = HeldBy(d)
  PROVE  PlaceInv'
<1>1. \A b : Placed(b)' <=> Placed(b)
  BY DEF Placed, poolVars
<1>2. QED
  BY <1>1 DEF PlaceInv, poolVars

(* A context's block becomes a node. *)
LEMMA PlacesLink ==
  ASSUME PlaceInv, UNCHANGED poolVars, NEW c \in Contexts, NEW n,
         HeldBy(c) = {n}, HeldBy(c)' = {}, open' = open,
         NEW m \in open, Nodes(m)' = Nodes(m) \cup {n},
         \A l \in open \ {m} : Nodes(l)' = Nodes(l),
         \A d \in Contexts \ {c} : HeldBy(d)' = HeldBy(d)
  PROVE  PlaceInv'
<1>1. \A b : Placed(b)' <=> Placed(b)
  BY DEF Placed, poolVars
<1>2. QED
  BY <1>1 DEF PlaceInv, poolVars

(* A node becomes a context's block. *)
LEMMA PlacesUnlink ==
  ASSUME PlaceInv, UNCHANGED poolVars, NEW c \in Contexts, NEW n,
         HeldBy(c) = {}, HeldBy(c)' = {n}, open' = open,
         NEW m \in open, n \in Nodes(m), Nodes(m)' = Nodes(m) \ {n},
         \A l \in open \ {m} : Nodes(l)' = Nodes(l),
         \A d \in Contexts \ {c} : HeldBy(d)' = HeldBy(d)
  PROVE  PlaceInv'
<1>1. \A b : Placed(b)' <=> Placed(b)
  BY DEF Placed, poolVars
<1>2. QED
  BY <1>1 DEF PlaceInv, poolVars

(* Blocks are released. *)
LEMMA PlacesRelease ==
  ASSUME PlaceInv, NEW blocks \in Seq(Blocks), IsInjective(blocks),
         created' = created, free' = Reverse(blocks) \o free,
         ToSet(blocks) \cap ToSet(free) = {}, \A b \in ToSet(blocks) : Placed(b),
         open' = open \ ToSet(blocks),
         \A l \in open \cap ToSet(blocks) : Nodes(l) \subseteq ToSet(blocks),
         \A l \in open' : Nodes(l)' = Nodes(l) \ ToSet(blocks),
         \A d \in Contexts : HeldBy(d)' = HeldBy(d) \ ToSet(blocks)
  PROVE  PlaceInv'
<1> DEFINE M == ToSet(blocks)
<1>1. /\ free' \in Seq(Blocks) /\ ToSet(free)' = M \cup ToSet(free)
      /\ IsInjective(free)'
  BY PushAll DEF PlaceInv
<1> HIDE DEF M
<1>2. /\ M \cap ToSet(free) = {} /\ \A b \in M : Placed(b)
      /\ open' = open \ M
      /\ \A l \in open \cap M : Nodes(l) \subseteq M
      /\ \A l \in open' : Nodes(l)' = Nodes(l) \ M
      /\ \A d \in Contexts : HeldBy(d)' = HeldBy(d) \ M
  BY DEF M
<1>3. \A b : Placed(b)' <=> Placed(b)
  BY <1>1, <1>2 DEF Placed
<1>4. QED
  BY <1>1, <1>2, <1>3 DEF PlaceInv

(* There is always room to release blocks that are in use. *)
LEMMA RoomToRelease ==
  ASSUME PlaceInv, NEW blocks \in Seq(Blocks), IsInjective(blocks),
         ToSet(blocks) \cap ToSet(free) = {}, \A b \in ToSet(blocks) : Placed(b)
  PROVE  MayRelease(blocks)
<1>1. /\ IsFiniteSet(ToSet(free)) /\ Cardinality(ToSet(free)) = Len(free)
      /\ IsFiniteSet(ToSet(blocks)) /\ Cardinality(ToSet(blocks)) = Len(blocks)
  BY InjectiveLength DEF PlaceInv
<1>2. ToSet(free) \cup ToSet(blocks) \subseteq 1 .. created
  BY DEF PlaceInv, Placed
<1>3. IsFiniteSet(1 .. created) /\ Cardinality(1 .. created) = created
  BY FS_Interval DEF PlaceInv
<1>4. /\ Cardinality(ToSet(free) \cup ToSet(blocks)) <= created
  BY <1>2, <1>3, FS_Subset
<1>5. Cardinality(ToSet(free) \cap ToSet(blocks)) = 0
  BY FS_EmptySet
<1>6. Cardinality(ToSet(free) \cup ToSet(blocks)) = Len(free) + Len(blocks) - 0
  BY <1>1, <1>5, FS_Union
<1>7. QED
  BY <1>4, <1>6 DEF MayRelease, PlaceInv

-----------------------------------------------------------------------------
(* What the others notice of a step. *)

(* List l and its nodes stay as they are. *)
Untouched(l) == /\ l \in open /\ lists'[l] = lists[l]
                /\ \A b \in Nodes(l) : nodes'[b] = nodes[b]

(* The list is the same for whoever uses it. *)
Same(l) == /\ IsChain(l, Chain(l))' /\ Chain(l)' = Chain(l)
           /\ Nodes(l)' = Nodes(l) /\ ItemSet(l)' = ItemSet(l)
           /\ \A b \in Nodes(l) : nodes'[b] = nodes[b]

(* A list whose object and nodes a step leaves alone is the same list      *)
(* after it.                                                               *)
LEMMA UntouchedIsSame ==
  ASSUME DataInv, NodesType', NEW l, Untouched(l)
  PROVE  Same(l)
<1>1. l \in Blocks /\ IsChain(l, Chain(l))
  BY DEF DataInv, ChainsInv, Untouched
<1> SUFFICES ASSUME NEW s, s = Chain(l) PROVE Same(l)
  OBVIOUS
<1>2. IsChain(l, s)
  BY <1>1
<1>3. Nodes(l) = ToSet(s)
  BY DEF Nodes
<1>4. IsChain(l, s)' /\ Chain(l)' = s
  BY <1>1, <1>2, <1>3, ChainStays DEF Untouched
<1>5. IsChain(l, Chain(l))'
  BY <1>4 DEF IsChain, Linked
<1>6. Chain(l)' = Chain(l)
  BY <1>4
<1>7. Nodes(l)' = Nodes(l)
  BY <1>6 DEF Nodes
<1>8. ItemSet(l)' = ItemSet(l)
  BY <1>7 DEF ItemSet, Untouched
<1>9. QED
  BY <1>5, <1>6, <1>7, <1>8 DEF Same, Untouched

(* The lists that nobody touched are still chains of distinct items. *)
LEMMA SameKeeps ==
  ASSUME DataInv, NEW l \in open, Same(l)
  PROVE  /\ IsChain(l, Chain(l))'
         /\ \A b, d \in Nodes(l)' :
              nodes'[b].item \in Items /\ (nodes'[b].item = nodes'[d].item => b = d)
BY DEF DataInv, ItemsInv, Same

(* The node that a call has looked up. *)
Refers(d) == call[d].op \in {"before", "after"} \/ pc[d] = "unlink"

(* What a context in a call relies on is still true after another's step. *)
StillTrue(d) ==
  \A l, n : l = call[d].list /\ n = call[d].ref /\ call[d].op \in Insertions \cup {"remove"} =>
    /\ l \in open'
    /\ call[d].op \in Insertions => call[d].item \notin ItemSet(l)'
    /\ Refers(d) => n \in Nodes(l)' /\ nodes'[n].item = nodes[n].item

OthersWait(c) == \A d \in Contexts \ {c} : pc'[d] = pc[d] /\ call'[d] = call[d]

(* What a call in progress knows stays true in a step of somebody else, as *)
(* long as that step keeps what the call relies on.                        *)
LEMMA Bystander ==
  ASSUME NEW d \in Contexts, CallInv(d), pc'[d] = pc[d], call'[d] = call[d], StillTrue(d)
  PROVE  CallInv(d)'
BY DEF CallInv, StillTrue, Refers, Insertions

(* Lists that stay the same are no news to anybody. *)
LEMMA SameIsTrue ==
  ASSUME NEW d \in Contexts, CallInv(d),
         \A l \in open : l = call[d].list => l \in open' /\ Same(l)
  PROVE  StillTrue(d)
BY DEF CallInv, StillTrue, Refers, Same, Insertions

(* A step that touches at most list m. *)
LEMMA Bystanders ==
  ASSUME IInv, NEW c \in Contexts, OthersWait(c), NEW m,
         \A l \in open \ {m} : l \in open' /\ Same(l),
         \A d \in Contexts \ {c} : call[d].list = m => StillTrue(d)
  PROVE  \A d \in Contexts \ {c} : CallInv(d)'
<1> SUFFICES ASSUME NEW d \in Contexts \ {c} PROVE CallInv(d)'
  OBVIOUS
<1>1. CallInv(d)
  BY DEF IInv
<1>2. StillTrue(d)
  BY <1>1, SameIsTrue
<1>3. QED
  BY <1>1, <1>2, Bystander DEF OthersWait

(* A call that goes on without asking for anything else. *)
LEMMA PairsGoOn ==
  ASSUME IInv, NEW c \in Contexts, OthersWait(c),
         call'[c].op = call[c].op, call'[c].list = call[c].list, call'[c].item = call[c].item,
         call'[c].itemRef = call[c].itemRef, pc'[c] = "unlink" => pc[c] = "unlink"
  PROVE  \A d, e \in Contexts : d # e => PairInv(d, e)'
<1>1. \A d, e \in Contexts : d # e => PairInv(d, e)
  BY DEF IInv
<1>2. \A d \in Contexts : /\ call'[d].op = call[d].op /\ call'[d].list = call[d].list
                          /\ call'[d].item = call[d].item /\ call'[d].itemRef = call[d].itemRef
                          /\ pc'[d] = "unlink" => pc[d] = "unlink"
  BY DEF OthersWait
<1>3. QED
  BY <1>1, <1>2 DEF PairInv

(* A context that asks for nothing in any list. *)
LEMMA PairsQuiet ==
  ASSUME IInv, NEW c \in Contexts, OthersWait(c),
         call'[c].op \notin Insertions, pc'[c] # "unlink"
  PROVE  \A d, e \in Contexts : d # e => PairInv(d, e)'
<1>1. \A d, e \in Contexts : d # e => PairInv(d, e)
  BY DEF IInv
<1>2. \A d, e \in Contexts \ {c} : d # e => PairInv(d, e)'
  BY <1>1 DEF PairInv, OthersWait
<1>3. {"before", "after"} \subseteq Insertions
  BY DEF Insertions
<1>4. \A d \in Contexts : PairInv(c, d)' /\ PairInv(d, c)'
  BY <1>3 DEF PairInv
<1>5. QED
  BY <1>2, <1>4

(* What is held depends on where a context is. *)
LEMMA OthersHold ==
  ASSUME NEW c \in Contexts, OthersWait(c)
  PROVE  \A d \in Contexts \ {c} : HeldBy(d)' = HeldBy(d)
BY DEF OthersWait, HeldBy

(* A context holds a block only between its allocation and its linking,    *)
(* and between its unlinking and its release.                              *)
LEMMA HoldsNothing ==
  ASSUME NEW c \in Contexts
  PROVE  /\ pc[c] \notin {"link", "release"} => HeldBy(c) = {}
         /\ pc[c] = "link" => HeldBy(c) = {call[c].node}
         /\ pc[c] = "release" => HeldBy(c) = {call[c].ref}
         /\ pc'[c] \notin {"link", "release"} => HeldBy(c)' = {}
         /\ pc'[c] = "link" => HeldBy(c)' = {call'[c].node}
         /\ pc'[c] = "release" => HeldBy(c)' = {call'[c].ref}
BY DEF HeldBy

-----------------------------------------------------------------------------
(* The functions that look into a list. *)

(* The items of the sequence that callers see are those of the nodes. *)
LEMMA ItemsAre ==
  ASSUME NEW l
  PROVE  ToSet(ItemsOf(l)) = ItemSet(l)
<1> DEFINE s == Chain(l)
<1>1. DOMAIN ItemsOf(l) = DOMAIN s /\ \A i \in DOMAIN s : ItemsOf(l)[i] = nodes[s[i]].item
  BY DEF ItemsOf
<1> HIDE DEF s
<1>2. ToSet(ItemsOf(l)) = {nodes[s[i]].item : i \in DOMAIN s}
  BY <1>1 DEF ToSet
<1>3. ItemSet(l) = {nodes[b].item : b \in {s[i] : i \in DOMAIN s}}
  BY DEF ItemSet, Nodes, ToSet, s
<1>4. QED
  BY <1>2, <1>3

(* TbxListFindListNode finds the node of an item of the list. *)
LEMMA FindNode ==
  ASSUME DataInv, NEW l \in open, NEW x \in ItemSet(l)
  PROVE  /\ FindListNode(l, x) \in Nodes(l) /\ nodes[FindListNode(l, x)].item = x
         /\ FindListNode(l, x) \in Blocks /\ x \in Items
<1> DEFINE s == Chain(l)
           at == {i \in DOMAIN s : nodes[s[i]].item = x}
           first == CHOOSE i \in at : \A j \in at : i <= j
<1>1. s \in Seq(Blocks)
  BY DEF DataInv, ChainsInv, IsChain
<1> HIDE DEF s
<1>2. at \subseteq Nat
  BY <1>1
<1>3. at # {}
  <2>1. PICK b \in Nodes(l) : x = nodes[b].item
    BY DEF ItemSet
  <2>2. QED
    BY <2>1 DEF Nodes, ToSet, s
<1>4. \E i \in at : \A j \in at : i <= j
  BY <1>2, <1>3, LeastNat
<1>5. first \in at
  BY <1>4
<1>6. FindListNode(l, x) = s[first]
  BY <1>3 DEF FindListNode, s
<1> HIDE DEF first
<1>7. s[first] \in Nodes(l) /\ nodes[s[first]].item = x /\ s[first] \in Blocks
  BY <1>1, <1>5 DEF Nodes, ToSet, s
<1>8. x \in Items
  BY <1>7 DEF DataInv, ItemsInv
<1>9. QED
  BY <1>6, <1>7, <1>8

-----------------------------------------------------------------------------
(* Steps that leave the lists alone. *)

(* Steps that leave every list object and every linked node alone keep the *)
(* chains and their items.                                                 *)
LEMMA ListsSame ==
  ASSUME IInv, NodesType', open' = open, \A l \in open : Untouched(l)
  PROVE  /\ ChainsInv' /\ ItemsInv'
         /\ \A l \in open : Same(l) /\ Nodes(l)' = Nodes(l)
<1>1. \A l \in open : Same(l)
  BY UntouchedIsSame DEF IInv
<1>2. ChainsInv' /\ ItemsInv'
  BY <1>1, SameKeeps DEF IInv, DataInv, ChainsInv, ItemsInv
<1>3. QED
  BY <1>1, <1>2 DEF Same

(* A step of c that only concerns its own call. *)
LEMMA OwnStep ==
  ASSUME IInv, NEW c \in Contexts, OthersWait(c),
         UNCHANGED <<nodes, lists, poolVars, open>>,
         HeldBy(c)' = HeldBy(c), ControlTypes', CallInv(c)',
         \A d, e \in Contexts : d # e => PairInv(d, e)'
  PROVE  IInv'
<1>1. NodesType' /\ open' = open /\ \A l \in open : Untouched(l)
  BY DEF IInv, DataInv, NodesType, Untouched
<1>2. ChainsInv' /\ ItemsInv' /\ \A l \in open : Same(l) /\ Nodes(l)' = Nodes(l)
  BY <1>1, ListsSame
<1>3. PlaceInv'
  BY <1>1, <1>2, OthersHold, PlacesStay DEF IInv, DataInv
<1>4. \A d \in Contexts \ {c} : StillTrue(d)
  BY <1>1, <1>2, SameIsTrue DEF IInv
<1>5. \A d \in Contexts \ {c} : CallInv(d)'
  BY <1>1, <1>2, <1>4, Bystanders
<1>6. QED
  BY <1>1, <1>2, <1>3, <1>5 DEF IInv, DataInv

(* A context that moves and leaves its call as it is. *)
LEMMA Moves ==
  ASSUME ControlTypes, NEW c \in Contexts, NEW to \in Locations,
         pc' = [pc EXCEPT ![c] = to], UNCHANGED <<call, memPoolsCreated>>
  PROVE  ControlTypes' /\ OthersWait(c) /\ pc'[c] = to /\ call'[c] = call[c]
BY DEF ControlTypes, OthersWait

(* A context that moves with other parameters or locals. *)
LEMMA Asks ==
  ASSUME ControlTypes, NEW c \in Contexts, NEW to \in Locations, NEW k \in Calls,
         pc' = [pc EXCEPT ![c] = to], call' = [call EXCEPT ![c] = k], memPoolsCreated' \in BOOLEAN
  PROVE  ControlTypes' /\ OthersWait(c) /\ pc'[c] = to /\ call'[c] = k
BY DEF ControlTypes, OthersWait

(* A context that is in no call has no parameters and no locals. *)
LEMMA NoCallType == NoCall \in Calls
BY DEF NoCall, Calls, Pointers, Null

(* A call that returns leaves nothing behind. *)
LEMMA Returns ==
  ASSUME NEW c \in Contexts, pc'[c] = "idle", call'[c] = NoCall
  PROVE  CallInv(c)'
BY DEF CallInv, NoCall, Insertions

(* TbxListCreate checks its flag, and sets it. *)
LEMMA CreateCheckStep ==
  ASSUME IInv, NEW c \in Contexts, CreateCheck(c)
  PROVE  IInv'
<1> DEFINE k == [NoCall EXCEPT !.op = "create"]
           to == IF memPoolsCreated THEN "alloc" ELSE "flag"
<1>1. pc[c] = "idle" /\ call[c] = NoCall
  BY DEF CreateCheck, Goto, IInv, CallInv
<1>2. k \in Calls /\ to \in Locations
  BY DEF NoCall, Calls, Pointers, Null, Locations
<1>3. call' = [call EXCEPT ![c] = k] /\ pc' = [pc EXCEPT ![c] = to]
      /\ UNCHANGED <<memPoolsCreated, nodes, lists, poolVars, open>>
  BY <1>1 DEF CreateCheck, Goto
<1>4. ControlTypes' /\ OthersWait(c) /\ pc'[c] = to /\ call'[c] = k
  BY <1>2, <1>3, Asks DEF IInv, ControlTypes
<1>5. CallInv(c)'
  BY <1>4 DEF CallInv, NoCall, Insertions
<1>6. \A d, e \in Contexts : d # e => PairInv(d, e)'
  BY <1>4, PairsQuiet DEF NoCall, Insertions
<1>7. HeldBy(c)' = HeldBy(c)
  BY <1>1, <1>4, HoldsNothing
<1>8. QED
  BY <1>3, <1>4, <1>5, <1>6, <1>7, OwnStep

(* TbxListCreate sets its flag, perhaps after another context has done so, *)
(* too.                                                                    *)
LEMMA CreateFlagStep ==
  ASSUME IInv, NEW c \in Contexts, CreateFlag(c)
  PROVE  IInv'
<1>1. /\ pc[c] = "flag" /\ pc' = [pc EXCEPT ![c] = "pool1"] /\ memPoolsCreated'
      /\ UNCHANGED <<nodes, lists, poolVars, open, call>>
  BY DEF CreateFlag, Goto
<1>2. ControlTypes' /\ OthersWait(c) /\ pc'[c] = "pool1" /\ call'[c] = call[c]
  BY <1>1 DEF IInv, ControlTypes, OthersWait, Locations
<1>3. CallInv(c)'
  BY <1>1, <1>2 DEF IInv, CallInv, Insertions
<1>4. \A d, e \in Contexts : d # e => PairInv(d, e)'
  BY <1>2, PairsGoOn
<1>5. HeldBy(c)' = HeldBy(c)
  BY <1>1, <1>2, HoldsNothing
<1>6. QED
  BY <1>1, <1>2, <1>3, <1>4, <1>5, OwnStep

(* There is no free block. *)
LEMMA AllocFailsStep ==
  ASSUME IInv, NEW c \in Contexts, AllocFails(c)
  PROVE  IInv'
<1>1. /\ pc[c] = "alloc" /\ pc' = [pc EXCEPT ![c] = "grow"]
      /\ UNCHANGED <<memPoolsCreated, nodes, lists, poolVars, open, call>>
  BY DEF AllocFails, Goto
<1>2. ControlTypes' /\ OthersWait(c) /\ pc'[c] = "grow" /\ call'[c] = call[c]
  BY <1>1, Moves DEF IInv, Locations
<1>3. CallInv(c)'
  <2>1. CallInv(c)
    BY DEF IInv
  <2>2. ItemSet(call[c].list)' = ItemSet(call[c].list) /\ Nodes(call[c].list)' = Nodes(call[c].list)
    BY <1>1 DEF ItemSet, Nodes, Chain
  <2>3. QED
    BY <1>1, <1>2, <2>1, <2>2 DEF CallInv, Insertions
<1>4. \A d, e \in Contexts : d # e => PairInv(d, e)'
  BY <1>2, PairsGoOn
<1>5. HeldBy(c)' = HeldBy(c)
  BY <1>1, <1>2, HoldsNothing
<1>6. QED
  BY <1>1, <1>2, <1>3, <1>4, <1>5, OwnStep

(* TbxListCreate, or a function that inserts, gives up: another context    *)
(* took the block that it had added.                                       *)
LEMMA AgainFailsStep ==
  ASSUME IInv, NEW c \in Contexts, AgainFails(c)
  PROVE  IInv'
<1>1. /\ pc[c] = "again" /\ pc' = [pc EXCEPT ![c] = "idle"] /\ call' = [call EXCEPT ![c] = NoCall]
      /\ UNCHANGED <<memPoolsCreated, nodes, lists, poolVars, open>>
  BY DEF AgainFails, Finish, Goto
<1>2. ControlTypes' /\ OthersWait(c) /\ pc'[c] = "idle" /\ call'[c] = NoCall
  BY <1>1, Asks, NoCallType DEF IInv, ControlTypes, Locations
<1>3. CallInv(c)'
  BY <1>2, Returns
<1>4. \A d, e \in Contexts : d # e => PairInv(d, e)'
  BY <1>2, PairsQuiet DEF NoCall, Insertions
<1>5. HeldBy(c)' = HeldBy(c)
  BY <1>1, <1>2, HoldsNothing
<1>6. QED
  BY <1>1, <1>2, <1>3, <1>4, <1>5, OwnStep

-----------------------------------------------------------------------------
(* Steps that change the pool and leave the lists alone. *)

(* A step of c that changes its call and the places of the blocks. *)
LEMMA PoolStep ==
  ASSUME IInv, NEW c \in Contexts, OthersWait(c),
         UNCHANGED <<nodes, lists, open>>,
         ControlTypes', CallInv(c)',
         (\A l \in open : Nodes(l)' = Nodes(l)) => PlaceInv',
         \A d, e \in Contexts : d # e => PairInv(d, e)'
  PROVE  IInv'
<1>1. NodesType' /\ open' = open /\ \A l \in open : Untouched(l)
  BY DEF IInv, DataInv, NodesType, Untouched
<1>2. ChainsInv' /\ ItemsInv' /\ \A l \in open : Same(l) /\ Nodes(l)' = Nodes(l)
  BY <1>1, ListsSame
<1>3. PlaceInv'
  BY <1>2
<1>4. \A d \in Contexts \ {c} : StillTrue(d)
  BY <1>1, <1>2, SameIsTrue DEF IInv
<1>5. \A d \in Contexts \ {c} : CallInv(d)'
  BY <1>1, <1>2, <1>4, Bystanders
<1>6. QED
  BY <1>1, <1>2, <1>3, <1>5 DEF IInv, DataInv

(* A call that goes on trying to get a block relies on what it relied on. *)
Allocating == {"alloc", "grow", "again", "link"}

(* A call that moves on within its allocation keeps what it knows, since   *)
(* it keeps its parameters.                                                *)
LEMMA KeepsAsking ==
  ASSUME IInv, NEW c \in Contexts, UNCHANGED <<nodes, lists, open>>,
         pc[c] \in Allocating, pc'[c] \in Allocating,
         call'[c].op = call[c].op, call'[c].list = call[c].list, call'[c].item = call[c].item,
         call'[c].itemRef = call[c].itemRef, call'[c].ref = call[c].ref
  PROVE  CallInv(c)'
<1>1. CallInv(c)
  BY DEF IInv
<1>2. \A l : ItemSet(l)' = ItemSet(l) /\ Nodes(l)' = Nodes(l)
  BY DEF ItemSet, Nodes, Chain
<1>3. QED
  BY <1>1, <1>2 DEF CallInv, Insertions, Allocating

(* TbxMemPoolCreate, with or without room in the heap. *)
LEMMA GrowPlaces ==
  ASSUME IInv, NEW c \in Contexts, OthersWait(c), open' = open, Grow,
         pc[c] \notin {"link", "release"}, pc'[c] \notin {"link", "release"},
         \A l \in open : Nodes(l)' = Nodes(l)
  PROVE  PlaceInv'
<1>1. \A d \in Contexts : HeldBy(d)' = HeldBy(d)
  BY OthersHold, HoldsNothing
<1>2. CASE Grows
  <2>1. created < MaxBlocks /\ created' = created + 1 /\ free' = <<created + 1>> \o free
    BY <1>2 DEF Grow, Grows
  <2>2. QED
    BY <1>1, <2>1, PlacesGrow DEF IInv, DataInv
<1>3. CASE ~Grows
  BY <1>1, <1>3, PlacesStay DEF IInv, DataInv, Grow
<1>4. QED
  BY <1>2, <1>3

(* TbxListCreate creates the pool for list objects, and notes if that      *)
(* failed.                                                                 *)
LEMMA CreatePool1Step ==
  ASSUME IInv, NEW c \in Contexts, CreatePool1(c)
  PROVE  IInv'
<1> DEFINE k == [call[c] EXCEPT !.error = ~Grows]
<1>1. /\ pc[c] = "pool1" /\ pc' = [pc EXCEPT ![c] = "pool2"] /\ call' = [call EXCEPT ![c] = k]
      /\ UNCHANGED <<memPoolsCreated, nodes, lists, open>> /\ Grow
  BY DEF CreatePool1, Goto
<1>2. k \in Calls
  BY DEF IInv, ControlTypes, Calls, Grows
<1>3. k.op = call[c].op /\ k.list = call[c].list /\ k.item = call[c].item
      /\ k.itemRef = call[c].itemRef /\ k.ref = call[c].ref
  BY DEF IInv, ControlTypes, Calls
<1> HIDE DEF k
<1>4. ControlTypes' /\ OthersWait(c) /\ pc'[c] = "pool2" /\ call'[c] = k
  BY <1>1, <1>2, Asks DEF IInv, ControlTypes, Locations
<1>5. call[c].op = "create" /\ call[c].list = Null
  BY <1>1 DEF IInv, CallInv
<1>6. CallInv(c)'
  BY <1>3, <1>4, <1>5 DEF CallInv, Insertions
<1>7. \A d, e \in Contexts : d # e => PairInv(d, e)'
  BY <1>3, <1>4, PairsGoOn
<1>8. (\A l \in open : Nodes(l)' = Nodes(l)) => PlaceInv'
  BY <1>1, <1>4, GrowPlaces
<1>9. QED
  BY <1>1, <1>4, <1>6, <1>7, <1>8, PoolStep

(* TbxListCreate creates the pool for nodes, or returns NULL. *)
LEMMA CreatePool2Step ==
  ASSUME IInv, NEW c \in Contexts, CreatePool2(c)
  PROVE  IInv'
<1>1. /\ pc[c] = "pool2" /\ UNCHANGED <<memPoolsCreated, nodes, lists, open>> /\ Grow
      /\ \/ pc' = [pc EXCEPT ![c] = "alloc"] /\ UNCHANGED call
         \/ pc' = [pc EXCEPT ![c] = "idle"] /\ call' = [call EXCEPT ![c] = NoCall]
  BY DEF CreatePool2, Goto, Finish
<1>2. call[c].op = "create" /\ call[c].list = Null
  BY <1>1 DEF IInv, CallInv
<1>3. CASE pc' = [pc EXCEPT ![c] = "alloc"] /\ UNCHANGED call
  <2>1. ControlTypes' /\ OthersWait(c) /\ pc'[c] = "alloc" /\ call'[c] = call[c]
    BY <1>1, <1>3, Moves DEF IInv, Locations
  <2>2. CallInv(c)'
    BY <1>2, <2>1 DEF CallInv, Insertions
  <2>3. \A d, e \in Contexts : d # e => PairInv(d, e)'
    BY <2>1, PairsGoOn
  <2>4. (\A l \in open : Nodes(l)' = Nodes(l)) => PlaceInv'
    BY <1>1, <2>1, GrowPlaces
  <2>5. QED
    BY <1>1, <2>1, <2>2, <2>3, <2>4, PoolStep
<1>4. CASE pc' = [pc EXCEPT ![c] = "idle"] /\ call' = [call EXCEPT ![c] = NoCall]
  <2>1. ControlTypes' /\ OthersWait(c) /\ pc'[c] = "idle" /\ call'[c] = NoCall
    BY <1>1, <1>4, Asks, NoCallType DEF IInv, ControlTypes, Locations
  <2>2. CallInv(c)'
    BY <2>1, Returns
  <2>3. \A d, e \in Contexts : d # e => PairInv(d, e)'
    BY <2>1, PairsQuiet DEF NoCall, Insertions
  <2>4. (\A l \in open : Nodes(l)' = Nodes(l)) => PlaceInv'
    BY <1>1, <2>1, GrowPlaces
  <2>5. QED
    BY <1>1, <2>1, <2>2, <2>3, <2>4, PoolStep
<1>5. QED
  BY <1>1, <1>3, <1>4

(* A call whose allocation failed extends the pool, or gives up because    *)
(* the heap is full.                                                       *)
LEMMA GrowPoolStep ==
  ASSUME IInv, NEW c \in Contexts, GrowPool(c)
  PROVE  IInv'
<1>1. /\ pc[c] = "grow" /\ UNCHANGED <<memPoolsCreated, nodes, lists, open>> /\ Grow
      /\ \/ pc' = [pc EXCEPT ![c] = "again"] /\ UNCHANGED call
         \/ pc' = [pc EXCEPT ![c] = "idle"] /\ call' = [call EXCEPT ![c] = NoCall]
  BY DEF GrowPool, Goto, Finish
<1>3. CASE pc' = [pc EXCEPT ![c] = "again"] /\ UNCHANGED call
  <2>1. ControlTypes' /\ OthersWait(c) /\ pc'[c] = "again" /\ call'[c] = call[c]
    BY <1>1, <1>3, Moves DEF IInv, Locations
  <2>2. CallInv(c)'
    BY <1>1, <2>1, KeepsAsking DEF Allocating
  <2>3. \A d, e \in Contexts : d # e => PairInv(d, e)'
    BY <2>1, PairsGoOn
  <2>4. (\A l \in open : Nodes(l)' = Nodes(l)) => PlaceInv'
    BY <1>1, <2>1, GrowPlaces
  <2>5. QED
    BY <1>1, <2>1, <2>2, <2>3, <2>4, PoolStep
<1>4. CASE pc' = [pc EXCEPT ![c] = "idle"] /\ call' = [call EXCEPT ![c] = NoCall]
  <2>1. ControlTypes' /\ OthersWait(c) /\ pc'[c] = "idle" /\ call'[c] = NoCall
    BY <1>1, <1>4, Asks, NoCallType DEF IInv, ControlTypes, Locations
  <2>2. CallInv(c)'
    BY <2>1, Returns
  <2>3. \A d, e \in Contexts : d # e => PairInv(d, e)'
    BY <2>1, PairsQuiet DEF NoCall, Insertions
  <2>4. (\A l \in open : Nodes(l)' = Nodes(l)) => PlaceInv'
    BY <1>1, <2>1, GrowPlaces
  <2>5. QED
    BY <1>1, <2>1, <2>2, <2>3, <2>4, PoolStep
<1>5. QED
  BY <1>1, <1>3, <1>4

(* TbxMemPoolAllocate takes the first free block. *)
LEMMA TakeBlockStep ==
  ASSUME IInv, NEW c \in Contexts, NEW from \in {"alloc", "again"}, TakeBlock(c, from)
  PROVE  IInv'
<1> DEFINE k == [call[c] EXCEPT !.node = Head(free)]
<1>1. /\ pc[c] = from /\ pc' = [pc EXCEPT ![c] = "link"] /\ call' = [call EXCEPT ![c] = k]
      /\ UNCHANGED <<memPoolsCreated, created, nodes, lists, open>>
      /\ free # <<>> /\ free' = Tail(free)
  BY DEF TakeBlock, Goto
<1>2. free \in Seq(Blocks) /\ Head(free) \in Blocks
  BY <1>1 DEF IInv, DataInv, PlaceInv
<1>3. k \in Calls
  BY <1>2 DEF IInv, ControlTypes, Calls, Pointers
<1>4. k.op = call[c].op /\ k.list = call[c].list /\ k.item = call[c].item
      /\ k.itemRef = call[c].itemRef /\ k.ref = call[c].ref /\ k.node = Head(free)
  BY DEF IInv, ControlTypes, Calls
<1> HIDE DEF k
<1>5. ControlTypes' /\ OthersWait(c) /\ pc'[c] = "link" /\ call'[c] = k
  BY <1>1, <1>3, Asks DEF IInv, ControlTypes, Locations
<1>6. CallInv(c)'
  BY <1>1, <1>4, <1>5, KeepsAsking DEF Allocating
<1>7. \A d, e \in Contexts : d # e => PairInv(d, e)'
  BY <1>4, <1>5, PairsGoOn
<1>8. HeldBy(c) = {} /\ HeldBy(c)' = {Head(free)}
  BY <1>1, <1>4, <1>5, HoldsNothing
<1>9. (\A l \in open : Nodes(l)' = Nodes(l)) => PlaceInv'
  BY <1>1, <1>5, <1>8, OthersHold, PlacesTake DEF IInv, DataInv
<1>10. QED
  BY <1>1, <1>5, <1>6, <1>7, <1>9, PoolStep

-----------------------------------------------------------------------------
(* The calls that look something up. *)

(* The nodes of an open list are blocks of the pool; none of them is NULL. *)
LEMMA NodesAreBlocks ==
  ASSUME DataInv, NEW l \in open
  PROVE  l \in Blocks /\ Nodes(l) \subseteq Blocks /\ Null \notin Blocks /\ IsChain(l, Chain(l))
<1>1. l \in Blocks /\ IsChain(l, Chain(l)) /\ Null \notin Blocks
  BY DEF DataInv, ChainsInv, Blocks, Null
<1>2. Chain(l) \in Seq(Blocks)
  BY <1>1 DEF IsChain
<1>3. Nodes(l) \subseteq Blocks
  BY <1>2 DEF Nodes, ToSet
<1>4. QED
  BY <1>1, <1>3

(* A new call that agrees with those of the others. *)
LEMMA NewPairs ==
  ASSUME IInv, NEW c \in Contexts, OthersWait(c),
         \A d \in Contexts \ {c} : PairInv(c, d)' /\ PairInv(d, c)'
  PROVE  \A d, e \in Contexts : d # e => PairInv(d, e)'
<1>1. \A d, e \in Contexts : d # e => PairInv(d, e)
  BY DEF IInv
<1>2. \A d, e \in Contexts \ {c} : d # e => PairInv(d, e)'
  BY <1>1 DEF PairInv, OthersWait
<1>3. QED
  BY <1>2

(* TbxListInsertItemFront and TbxListInsertItemBack are called with an     *)
(* item that is not in the list.                                           *)
LEMMA InsertAtEndStep ==
  ASSUME IInv, NEW c \in Contexts, InsertAtEnd(c)
  PROVE  IInv'
<1>1. PICK op \in {"front", "back"}, l \in open, x \in Items :
        /\ MayInsert(c, l, x)
        /\ call' = [call EXCEPT ![c].op = op, ![c].list = l, ![c].item = x]
  BY DEF InsertAtEnd
<1> DEFINE k == [call[c] EXCEPT !.op = op, !.list = l, !.item = x]
<1>2. /\ pc[c] = "idle" /\ pc' = [pc EXCEPT ![c] = "alloc"]
      /\ UNCHANGED <<memPoolsCreated, nodes, lists, poolVars, open>>
  BY DEF InsertAtEnd, Goto
<1>3. call \in [Contexts -> Calls] /\ l \in Blocks /\ l \in Pointers
  BY DEF IInv, ControlTypes, DataInv, ChainsInv, Pointers
<1>4. /\ k \in Calls /\ call' = [call EXCEPT ![c] = k]
      /\ k.op = op /\ k.list = l /\ k.item = x /\ k.itemRef = call[c].itemRef
  BY <1>1, <1>3 DEF Calls
<1> HIDE DEF k
<1>5. ControlTypes' /\ OthersWait(c) /\ pc'[c] = "alloc" /\ call'[c] = k
  BY <1>2, <1>4, Asks DEF IInv, ControlTypes, Locations
<1>6. ItemSet(l)' = ItemSet(l)
  BY <1>2 DEF ItemSet, Nodes, Chain
<1>7. x \notin ItemSet(l) /\ \A d \in CallsOn(c, l) : call[d].item # x
  BY <1>1, ItemsAre DEF MayInsert
<1>8. CallInv(c)'
  <2>1. k.itemRef = Null
    BY <1>2, <1>4 DEF IInv, CallInv, NoCall
  <2>2. QED
    BY <1>2, <1>4, <1>5, <1>6, <1>7, <2>1 DEF CallInv, Insertions
<1>9. \A d, e \in Contexts : d # e => PairInv(d, e)'
  <2>1. ASSUME NEW d \in Contexts \ {c}, call[d].list = l PROVE call[d].item # x
    BY <1>7, <2>1 DEF CallsOn
  <2>2. \A d \in Contexts \ {c} : PairInv(c, d)' /\ PairInv(d, c)'
    BY <1>4, <1>5, <2>1 DEF PairInv, OthersWait, Insertions
  <2>3. QED
    BY <1>5, <2>2, NewPairs
<1>10. HeldBy(c)' = HeldBy(c)
  BY <1>2, <1>5, HoldsNothing
<1>11. QED
  BY <1>2, <1>5, <1>8, <1>9, <1>10, OwnStep

(* TbxListInsertItemBefore and TbxListInsertItemAfter look up the          *)
(* reference node, which nobody is about to unlink.                        *)
LEMMA InsertBesideStep ==
  ASSUME Contract, IInv, NEW c \in Contexts, InsertBeside(c)
  PROVE  IInv'
<1>1. PICK op \in {"before", "after"}, l \in open, x \in Items :
        /\ MayInsert(c, l, x)
        /\ \E y \in ToSet(ItemsOf(l)) :
             /\ MayLookUp(c, l, y)
             /\ call' = [call EXCEPT ![c].op = op, ![c].list = l, ![c].item = x,
                                     ![c].itemRef = y, ![c].ref = FindListNode(l, y)]
  BY DEF InsertBeside
<1>2. PICK y \in ToSet(ItemsOf(l)) :
             /\ MayLookUp(c, l, y)
             /\ call' = [call EXCEPT ![c].op = op, ![c].list = l, ![c].item = x,
                                     ![c].itemRef = y, ![c].ref = FindListNode(l, y)]
  BY <1>1
<1>3. PICK n \in Blocks : n = FindListNode(l, y) /\ n \in Nodes(l) /\ nodes[n].item = y /\ y \in Items
  <2>1. y \in ItemSet(l)
    BY ItemsAre
  <2>2. QED
    BY <2>1, FindNode DEF IInv
<1> DEFINE k == [call[c] EXCEPT !.op = op, !.list = l, !.item = x, !.itemRef = y, !.ref = n]
<1>4. /\ pc[c] = "idle" /\ pc' = [pc EXCEPT ![c] = "alloc"]
      /\ UNCHANGED <<memPoolsCreated, nodes, lists, poolVars, open>>
  BY DEF InsertBeside, Goto
<1>5. call \in [Contexts -> Calls] /\ l \in Pointers /\ n \in Pointers
  BY DEF IInv, ControlTypes, DataInv, ChainsInv, Pointers
<1>6. call' = [call EXCEPT ![c].op = op, ![c].list = l, ![c].item = x, ![c].itemRef = y, ![c].ref = n]
  BY <1>2, <1>3
<1>7. /\ k \in Calls /\ call' = [call EXCEPT ![c] = k]
      /\ k.op = op /\ k.list = l /\ k.item = x /\ k.itemRef = y /\ k.ref = n
  BY <1>3, <1>5, <1>6 DEF Calls
<1> HIDE DEF k
<1>8. ControlTypes' /\ OthersWait(c) /\ pc'[c] = "alloc" /\ call'[c] = k
  BY <1>4, <1>7, Asks DEF IInv, ControlTypes, Locations
<1>9. ItemSet(l)' = ItemSet(l) /\ Nodes(l)' = Nodes(l) /\ nodes' = nodes
  BY <1>4 DEF ItemSet, Nodes, Chain
<1>10. x \notin ItemSet(l) /\ \A d \in CallsOn(c, l) : call[d].item # x
  BY <1>1, ItemsAre DEF MayInsert
<1>11. CallInv(c)'
  BY <1>3, <1>4, <1>7, <1>8, <1>9, <1>10 DEF CallInv, Insertions
<1>12. \A d, e \in Contexts : d # e => PairInv(d, e)'
  <2>1. ASSUME NEW d \in Contexts \ {c}, call[d].list = l
        PROVE  call[d].item # x /\ (pc[d] = "unlink" => call[d].item # y)
    <3>1. pc[d] = "unlink" => call[d].ref # Null
      BY <2>1, NodesAreBlocks DEF IInv, CallInv
    <3>2. pc[d] = "unlink" => d \in LookedUp(c, l)
      BY <2>1, <3>1 DEF LookedUp, CallsOn
    <3>3. QED
      BY <1>2, <1>10, <2>1, <3>2 DEF CallsOn, MayLookUp, Contract
  <2>2. \A d \in Contexts \ {c} : PairInv(c, d)' /\ PairInv(d, c)'
    BY <1>7, <1>8, <2>1 DEF PairInv, OthersWait, Insertions
  <2>3. QED
    BY <1>8, <2>2, NewPairs
<1>13. HeldBy(c)' = HeldBy(c)
  BY <1>4, <1>8, HoldsNothing
<1>14. QED
  BY <1>4, <1>8, <1>11, <1>12, <1>13, OwnStep

(* TbxListRemoveItem looks up the node, which nobody else is about to      *)
(* unlink or has as a reference.                                           *)
LEMMA RemoveFindStep ==
  ASSUME Contract, IInv, NEW c \in Contexts, RemoveFind(c)
  PROVE  IInv'
<1>1. PICK l \in open : \E x \in ToSet(ItemsOf(l)) :
             /\ MayRemove(c, l, x)
             /\ call' = [call EXCEPT ![c].op = "remove", ![c].list = l, ![c].item = x,
                                     ![c].ref = FindListNode(l, x)]
  BY DEF RemoveFind
<1>2. PICK x \in ToSet(ItemsOf(l)) :
             /\ MayRemove(c, l, x)
             /\ call' = [call EXCEPT ![c].op = "remove", ![c].list = l, ![c].item = x,
                                     ![c].ref = FindListNode(l, x)]
  BY <1>1
<1>3. PICK n \in Blocks : n = FindListNode(l, x) /\ n \in Nodes(l) /\ nodes[n].item = x /\ x \in Items
  <2>1. x \in ItemSet(l)
    BY ItemsAre
  <2>2. QED
    BY <2>1, FindNode DEF IInv
<1> DEFINE k == [call[c] EXCEPT !.op = "remove", !.list = l, !.item = x, !.ref = n]
<1>4. /\ pc[c] = "idle" /\ pc' = [pc EXCEPT ![c] = "unlink"]
      /\ UNCHANGED <<memPoolsCreated, nodes, lists, poolVars, open>>
  BY DEF RemoveFind, Goto
<1>5. call \in [Contexts -> Calls] /\ l \in Pointers /\ n \in Pointers
  BY DEF IInv, ControlTypes, DataInv, ChainsInv, Pointers
<1>6. call' = [call EXCEPT ![c].op = "remove", ![c].list = l, ![c].item = x, ![c].ref = n]
  BY <1>2, <1>3
<1>7. /\ k \in Calls /\ call' = [call EXCEPT ![c] = k]
      /\ k.op = "remove" /\ k.list = l /\ k.item = x /\ k.ref = n
  BY <1>3, <1>5, <1>6 DEF Calls
<1> HIDE DEF k
<1>8. ControlTypes' /\ OthersWait(c) /\ pc'[c] = "unlink" /\ call'[c] = k
  BY <1>4, <1>7, Asks DEF IInv, ControlTypes, Locations
<1>9. ItemSet(l)' = ItemSet(l) /\ Nodes(l)' = Nodes(l) /\ nodes' = nodes
  BY <1>4 DEF ItemSet, Nodes, Chain
<1>10. CallInv(c)'
  BY <1>3, <1>4, <1>7, <1>8, <1>9 DEF CallInv, Insertions
<1>11. \A d, e \in Contexts : d # e => PairInv(d, e)'
  <2>1. ASSUME NEW d \in Contexts \ {c}, call[d].list = l, Refers(d)
        PROVE  x # call[d].item /\ x # call[d].itemRef
    <3>1. call[d].ref # Null
      BY <2>1, NodesAreBlocks DEF Refers, IInv, CallInv
    <3>2. pc[d] # "release"
      BY <2>1 DEF Refers, IInv, CallInv
    <3>3. d \in LookedUp(c, l)
      BY <2>1, <3>1, <3>2 DEF LookedUp, CallsOn
    <3>4. QED
      BY <1>2, <3>3 DEF MayRemove, Contract
  <2>2. \A d \in Contexts \ {c} : PairInv(c, d)' /\ PairInv(d, c)'
    BY <1>7, <1>8, <2>1 DEF PairInv, OthersWait, Insertions, Refers
  <2>3. QED
    BY <1>8, <2>2, NewPairs
<1>12. HeldBy(c)' = HeldBy(c)
  BY <1>4, <1>8, HoldsNothing
<1>13. QED
  BY <1>4, <1>8, <1>10, <1>11, <1>12, OwnStep

-----------------------------------------------------------------------------
(* Steps that change a list. *)

(* A step of c that changes list m, creates or deletes it. *)
LEMMA ListStep ==
  ASSUME IInv, NEW c \in Contexts, OthersWait(c), NodesType', NEW m \in Blocks,
         open' \subseteq Blocks, open' \ {m} = open \ {m},
         \A l \in open \ {m} : Untouched(l),
         m \in open' => /\ IsChain(m, Chain(m))'
                        /\ \A b, d \in Nodes(m)' : /\ nodes'[b].item \in Items
                                                   /\ nodes'[b].item = nodes'[d].item => b = d,
         ControlTypes', CallInv(c)',
         (\A l \in open \ {m} : Nodes(l)' = Nodes(l)) => PlaceInv',
         \A d \in Contexts \ {c} : call[d].list = m => StillTrue(d),
         \A d, e \in Contexts : d # e => PairInv(d, e)'
  PROVE  IInv'
<1>1. \A l \in open \ {m} : l \in open' /\ Same(l)
  BY UntouchedIsSame DEF IInv
<1>2. ChainsInv'
  <2>1. \A l \in open \ {m} : IsChain(l, Chain(l))'
    BY <1>1 DEF Same
  <2>2. QED
    BY <2>1 DEF ChainsInv
<1>3. ItemsInv'
  <2>1. \A l \in open \ {m} : \A b, d \in Nodes(l)' :
          nodes'[b].item \in Items /\ (nodes'[b].item = nodes'[d].item => b = d)
    BY <1>1, SameKeeps DEF IInv
  <2>2. QED
    BY <2>1 DEF ItemsInv
<1>4. PlaceInv'
  BY <1>1 DEF Same
<1>5. \A d \in Contexts \ {c} : CallInv(d)'
  BY <1>1, Bystanders
<1>6. QED
  BY <1>2, <1>3, <1>4, <1>5 DEF IInv, DataInv

(* The block that c holds is nobody else's. *)
LEMMA HeldApart ==
  ASSUME PlaceInv, NEW c \in Contexts, NEW n \in HeldBy(c)
  PROVE  /\ n \in Blocks /\ n \notin open /\ n \notin ToSet(free)
         /\ \A l \in open : n \notin Nodes(l)
         /\ \A d \in Contexts \ {c} : n \notin HeldBy(d)
<1>1. n \in 1 .. created
  BY DEF PlaceInv, Placed
<1>2. n \in Blocks
  BY <1>1, ListAssumption DEF PlaceInv, Blocks
<1>3. QED
  BY <1>2 DEF PlaceInv

(* The new list is empty. *)
LEMMA CreateReturnStep ==
  ASSUME IInv, NEW c \in Contexts, CreateReturn(c)
  PROVE  IInv'
<1>1. PICK n : n = call[c].node
  OBVIOUS
<1>2. /\ pc[c] = "link" /\ pc' = [pc EXCEPT ![c] = "idle"] /\ call' = [call EXCEPT ![c] = NoCall]
      /\ lists' = [lists EXCEPT ![n] = NewList] /\ open' = open \cup {n}
      /\ UNCHANGED <<memPoolsCreated, nodes, poolVars>>
  BY <1>1 DEF CreateReturn, Finish, Goto
<1>3. ControlTypes' /\ OthersWait(c) /\ pc'[c] = "idle" /\ call'[c] = NoCall
  BY <1>2, Asks, NoCallType DEF IInv, ControlTypes, Locations
<1>4. HeldBy(c) = {n} /\ HeldBy(c)' = {}
  BY <1>1, <1>2, <1>3, HoldsNothing
<1>5. n \in Blocks /\ n \notin open /\ \A l \in open : n \notin Nodes(l)
  BY <1>4, HeldApart DEF IInv, DataInv
<1>6. NodesType' /\ lists'[n] = NewList
  <2>1. NewList \in [first : Pointers, last : Pointers, count : 0 .. MaxBlocks]
    BY ListAssumption DEF NewList, Pointers, Null
  <2>2. QED
    BY <2>1, <1>2, <1>5 DEF IInv, DataInv, NodesType
<1>7. IsChain(n, <<>>)' /\ Chain(n)' = <<>>
  BY <1>5, <1>6, ChainEmpty
<1>8. Nodes(n)' = {} /\ IsChain(n, Chain(n))'
  BY <1>7 DEF Nodes, ToSet, IsChain, Linked
<1>9. \A l \in open : Untouched(l)
  BY <1>2, <1>5 DEF Untouched, IInv, DataInv, NodesType, ChainsInv
<1>10. CallInv(c)'
  BY <1>3, Returns
<1>11. \A d, e \in Contexts : d # e => PairInv(d, e)'
  BY <1>3, PairsQuiet DEF NoCall, Insertions
<1>12. (\A l \in open \ {n} : Nodes(l)' = Nodes(l)) => PlaceInv'
  BY <1>2, <1>3, <1>4, <1>5, <1>8, OthersHold, PlacesOpen DEF IInv, DataInv
<1>13. \A d \in Contexts \ {c} : call[d].list = n => StillTrue(d)
  <2> SUFFICES ASSUME NEW d \in Contexts \ {c}, call[d].list = n PROVE StillTrue(d)
    OBVIOUS
  <2>1. CallInv(d)
    BY DEF IInv
  <2>2. QED
    BY <1>5, <2>1 DEF CallInv, StillTrue
<1>14. open' \subseteq Blocks /\ open' \ {n} = open \ {n}
  BY <1>2, <1>5 DEF IInv, DataInv, ChainsInv
<1>15. QED
  BY <1>3, <1>5, <1>6, <1>8, <1>9, <1>10, <1>11, <1>12, <1>13, <1>14, ListStep

-----------------------------------------------------------------------------
(* A node is linked. *)

(* Each node of a list is in exactly one position. *)
LEMMA ChainPositions ==
  ASSUME NEW l, NEW s, IsChain(l, s)
  PROVE  /\ Len(s) \in Nat /\ DOMAIN s = 1 .. Len(s) /\ (s = <<>> <=> Len(s) = 0)
         /\ \A j \in 1 .. Len(s) : s[j] \in Blocks /\ s[j] \in ToSet(s)
         /\ \A j, k \in 1 .. Len(s) : s[j] = s[k] => j = k
         /\ \A b \in ToSet(s) : \E j \in 1 .. Len(s) : b = s[j]
<1>1. s \in Seq(Blocks) /\ IsInjective(s)
  BY DEF IsChain
<1>2. Len(s) \in Nat /\ DOMAIN s = 1 .. Len(s) /\ (s = <<>> <=> Len(s) = 0)
  BY <1>1
<1>3. QED
  BY <1>1, <1>2 DEF IsInjective, ToSet

(* There is room to count another node. *)
LEMMA RoomForOne ==
  ASSUME NEW l, NEW s, IsChain(l, s), NEW n \in Blocks \ ToSet(s)
  PROVE  Len(s) + 1 \in 0 .. MaxBlocks
<1>1. s \in Seq(Blocks) /\ IsInjective(s)
  BY DEF IsChain
<1>2. /\ Append(s, n) \in Seq(Blocks) /\ Len(Append(s, n)) = Len(s) + 1
      /\ IsInjective(Append(s, n))
  BY <1>1, AppendOne
<1>3. QED
  BY <1>2, ShortChain

(* List m has node n with item x in position i. *)
Grown(m, i, n, x) ==
  /\ NodesType' /\ IsChain(m, Chain(m))'
  /\ Chain(m)' = InsertAt(Chain(m), i, n)
  /\ Nodes(m)' = Nodes(m) \cup {n}
  /\ nodes'[n].item = x
  /\ \A b \in Blocks \ {n} : /\ nodes'[b].item = nodes[b].item
                             /\ b \notin Nodes(m) => nodes'[b] = nodes[b]
  /\ \A l \in Blocks \ {m} : lists'[l] = lists[l]

(* What has to be shown of a list that one node is linked into. *)
LEMMA GrownFacts ==
  ASSUME NodesType', NEW m \in Blocks, NEW s, s = Chain(m), NEW i, NEW n, NEW x,
         IsChain(m, InsertAt(s, i, n))', Chain(m)' = InsertAt(s, i, n),
         ToSet(InsertAt(s, i, n)) = ToSet(s) \cup {n},
         nodes'[n].item = x,
         \A b \in Blocks \ {n} : /\ nodes'[b].item = nodes[b].item
                                 /\ b \notin ToSet(s) => nodes'[b] = nodes[b],
         \A l \in Blocks \ {m} : lists'[l] = lists[l]
  PROVE  Grown(m, i, n, x)
<1>1. IsChain(m, Chain(m))'
  BY DEF IsChain, Linked
<1>2. Nodes(m)' = Nodes(m) \cup {n} /\ Nodes(m) = ToSet(s)
  BY DEF Nodes
<1>3. QED
  BY <1>1, <1>2 DEF Grown

(* A node linked at the first end is in position 1: in an empty list, it   *)
(* is the last one as well.                                                *)
LEMMA LinkFirst ==
  ASSUME NodesType, NEW m \in Blocks, NEW s, s = Chain(m), IsChain(m, s),
         NEW n \in Blocks \ ToSet(s), NEW x \in Items,
         LinkEnd(m, FrontEnd, [nodes EXCEPT ![n] = NewNode(x)], n)
  PROVE  Grown(m, 1, n, x)
<1> DEFINE initial == [nodes EXCEPT ![n] = NewNode(x)]
           L == Len(s)
<1>1. /\ L \in Nat /\ DOMAIN s = 1 .. L /\ (s = <<>> <=> L = 0)
      /\ \A j \in 1 .. L : s[j] \in Blocks /\ s[j] \in ToSet(s) /\ s[j] # n
      /\ \A j, k \in 1 .. L : s[j] = s[k] => j = k
  BY ChainPositions
<1>2. /\ lists[m].first = IF L = 0 THEN Null ELSE s[1]
      /\ lists[m].last = IF L = 0 THEN Null ELSE s[L]
      /\ lists[m].count = L /\ Null \notin Blocks
  BY <1>1 DEF IsChain, Null, Blocks
<1>3. /\ lists' = [lists EXCEPT ![m] = [first |-> n,
                                        last |-> IF L = 0 THEN n ELSE lists[m].last,
                                        count |-> L + 1]]
      /\ nodes' = IF L = 0 THEN initial
                  ELSE [initial EXCEPT ![n]["next"] = s[1], ![s[1]]["prev"] = n]
  <2>1. lists[m].first = Null <=> L = 0
    BY <1>1, <1>2
  <2>2. FrontEnd # BackEnd /\ FrontEnd.end = "first" /\ FrontEnd.in = "next" /\ FrontEnd.out = "prev"
    BY DEF FrontEnd, BackEnd
  <2>3. lists[m]["first"] = lists[m].first
    BY DEF NodesType
  <2>4. nodes' = IF L = 0 THEN initial
                 ELSE [initial EXCEPT ![n]["next"] = s[1], ![s[1]]["prev"] = n]
    BY <1>2, <2>1, <2>2, <2>3 DEF LinkEnd
  <2>5. lists' = [lists EXCEPT ![m] = [first |-> n,
                                       last |-> IF L = 0 THEN n ELSE lists[m].last,
                                       count |-> L + 1]]
    BY <1>2, <2>1, <2>2, <2>3 DEF LinkEnd, NodesType
  <2>6. QED
    BY <2>4, <2>5
<1>4. L + 1 \in 0 .. MaxBlocks
  BY RoomForOne
<1> HIDE DEF L
<1>5. /\ NodesType' /\ nodes'[n].prev = Null /\ nodes'[n].next = (IF L = 0 THEN Null ELSE s[1])
      /\ nodes'[n].item = x
      /\ \A b \in Blocks \ {n} :
           /\ nodes'[b].item = nodes[b].item /\ nodes'[b].next = nodes[b].next
           /\ nodes'[b].prev = IF L # 0 /\ b = s[1] THEN n ELSE nodes[b].prev
           /\ b \notin ToSet(s) => nodes'[b] = nodes[b]
  <2>1. NodesType'
    <3>1. lists' \in [Blocks -> [first : Pointers, last : Pointers, count : 0 .. MaxBlocks]]
      BY <1>3, <1>4 DEF NodesType, Pointers
    <3>2. initial \in [Blocks -> [item : Items \cup {Null}, prev : Pointers, next : Pointers]]
      BY DEF NodesType, NewNode, Pointers
    <3>3. L # 0 => s[1] \in Blocks
      BY <1>1
    <3> HIDE DEF initial
    <3>4. nodes' \in [Blocks -> [item : Items \cup {Null}, prev : Pointers, next : Pointers]]
      BY <1>3, <3>2, <3>3 DEF Pointers
    <3>5. QED
      BY <3>1, <3>4 DEF NodesType
  <2>2. CASE L = 0
    <3>1. nodes' = initial
      BY <2>2, <1>3
    <3>2. /\ nodes'[n].prev = Null /\ nodes'[n].next = Null /\ nodes'[n].item = x
          /\ \A b \in Blocks \ {n} : nodes'[b] = nodes[b]
      BY <3>1 DEF NodesType, NewNode
    <3>3. QED
      BY <2>1, <2>2, <3>2
  <2>3. CASE L # 0
    <3>1. s[1] \in Blocks /\ s[1] # n /\ s[1] \in ToSet(s)
      BY <2>3, <1>1
    <3>2. nodes' = [initial EXCEPT ![n]["next"] = s[1], ![s[1]]["prev"] = n]
      BY <2>3, <1>3
    <3>3. /\ nodes'[n].prev = Null /\ nodes'[n].next = s[1] /\ nodes'[n].item = x
          /\ \A b \in Blocks \ {n, s[1]} : nodes'[b] = nodes[b]
          /\ nodes'[s[1]].prev = n /\ nodes'[s[1]].next = nodes[s[1]].next
          /\ nodes'[s[1]].item = nodes[s[1]].item
      BY <3>1, <3>2 DEF NodesType, NewNode
    <3>4. QED
      BY <2>1, <2>3, <3>1, <3>3
  <2>4. QED
    BY <2>1, <2>2, <2>3
<1>6. /\ lists'[m].first = n /\ lists'[m].last = (IF L = 0 THEN n ELSE lists[m].last)
      /\ lists'[m].count = lists[m].count + 1
      /\ \A l \in Blocks \ {m} : lists'[l] = lists[l]
  BY <1>2, <1>3 DEF NodesType
<1>7. /\ 1 \in 1 .. L + 1 /\ (1 = L + 1 <=> L = 0)
      /\ \A j \in 1 .. L : L # 0 /\ 1 \in 1 .. L /\ j + 1 # 1
  BY <1>1
<1>8. \A j \in DOMAIN s : /\ nodes'[s[j]].prev = IF j = 1 THEN n ELSE nodes[s[j]].prev
                          /\ nodes'[s[j]].next = IF j + 1 = 1 THEN n ELSE nodes[s[j]].next
  BY <1>1, <1>5, <1>7
<1>9. /\ IsChain(m, InsertAt(s, 1, n))' /\ Chain(m)' = InsertAt(s, 1, n)
      /\ ToSet(InsertAt(s, 1, n)) = ToSet(s) \cup {n}
  BY <1>5, <1>6, <1>7, <1>8, ChainGrows DEF L
<1>10. QED
  BY <1>5, <1>6, <1>9, GrownFacts
(* A node linked at the last end is in the last position: in an empty      *)
(* list, it is the first one as well.                                      *)
LEMMA LinkLast ==
  ASSUME NodesType, NEW m \in Blocks, NEW s, s = Chain(m), IsChain(m, s),
         NEW n \in Blocks \ ToSet(s), NEW x \in Items,
         LinkEnd(m, BackEnd, [nodes EXCEPT ![n] = NewNode(x)], n)
  PROVE  Grown(m, Len(s) + 1, n, x)
<1> DEFINE initial == [nodes EXCEPT ![n] = NewNode(x)]
           L == Len(s)
<1>1. /\ L \in Nat /\ DOMAIN s = 1 .. L /\ (s = <<>> <=> L = 0)
      /\ \A j \in 1 .. L : s[j] \in Blocks /\ s[j] \in ToSet(s) /\ s[j] # n
      /\ \A j, k \in 1 .. L : s[j] = s[k] => j = k
  BY ChainPositions
<1>2. /\ lists[m].first = IF L = 0 THEN Null ELSE s[1]
      /\ lists[m].last = IF L = 0 THEN Null ELSE s[L]
      /\ lists[m].count = L /\ Null \notin Blocks
  BY <1>1 DEF IsChain, Null, Blocks
<1>3. /\ lists' = [lists EXCEPT ![m] = [first |-> IF L = 0 THEN n ELSE lists[m].first,
                                        last |-> n, count |-> L + 1]]
      /\ nodes' = IF L = 0 THEN initial
                  ELSE [initial EXCEPT ![n]["prev"] = s[L], ![s[L]]["next"] = n]
  <2>1. (lists[m].last = Null <=> L = 0) /\ (L # 0 => lists[m].last = s[L])
    <3>1. L # 0 => s[L] \in Blocks
      BY <1>1
    <3>2. QED
      BY <3>1, <1>2
  <2>2. FrontEnd # BackEnd /\ BackEnd.end = "last" /\ BackEnd.in = "prev" /\ BackEnd.out = "next"
    BY DEF FrontEnd, BackEnd
  <2>3. lists[m]["last"] = lists[m].last
    BY DEF NodesType
  <2>4. nodes' = IF L = 0 THEN initial
                 ELSE [initial EXCEPT ![n]["prev"] = s[L], ![s[L]]["next"] = n]
    BY <1>2, <2>1, <2>2, <2>3 DEF LinkEnd
  <2>5. lists' = [lists EXCEPT ![m] = [first |-> IF L = 0 THEN n ELSE lists[m].first,
                                       last |-> n, count |-> L + 1]]
    BY <1>2, <2>1, <2>2, <2>3 DEF LinkEnd, NodesType
  <2>6. QED
    BY <2>4, <2>5
<1>4. L + 1 \in 0 .. MaxBlocks
  BY RoomForOne
<1> HIDE DEF L
<1>5. /\ NodesType' /\ nodes'[n].next = Null /\ nodes'[n].prev = (IF L = 0 THEN Null ELSE s[L])
      /\ nodes'[n].item = x
      /\ \A b \in Blocks \ {n} :
           /\ nodes'[b].item = nodes[b].item /\ nodes'[b].prev = nodes[b].prev
           /\ nodes'[b].next = IF L # 0 /\ b = s[L] THEN n ELSE nodes[b].next
           /\ b \notin ToSet(s) => nodes'[b] = nodes[b]
  <2>1. NodesType'
    <3>1. lists' \in [Blocks -> [first : Pointers, last : Pointers, count : 0 .. MaxBlocks]]
      BY <1>3, <1>4 DEF NodesType, Pointers
    <3>2. initial \in [Blocks -> [item : Items \cup {Null}, prev : Pointers, next : Pointers]]
      BY DEF NodesType, NewNode, Pointers
    <3>3. L # 0 => s[L] \in Blocks
      BY <1>1
    <3> HIDE DEF initial
    <3>4. nodes' \in [Blocks -> [item : Items \cup {Null}, prev : Pointers, next : Pointers]]
      BY <1>3, <3>2, <3>3 DEF Pointers
    <3>5. QED
      BY <3>1, <3>4 DEF NodesType
  <2>2. CASE L = 0
    <3>1. nodes' = initial
      BY <2>2, <1>3
    <3>2. /\ nodes'[n].prev = Null /\ nodes'[n].next = Null /\ nodes'[n].item = x
          /\ \A b \in Blocks \ {n} : nodes'[b] = nodes[b]
      BY <3>1 DEF NodesType, NewNode
    <3>3. QED
      BY <2>1, <2>2, <3>2
  <2>3. CASE L # 0
    <3>1. s[L] \in Blocks /\ s[L] # n /\ s[L] \in ToSet(s)
      BY <2>3, <1>1
    <3>2. nodes' = [initial EXCEPT ![n]["prev"] = s[L], ![s[L]]["next"] = n]
      BY <2>3, <1>3
    <3>3. /\ nodes'[n].next = Null /\ nodes'[n].prev = s[L] /\ nodes'[n].item = x
          /\ \A b \in Blocks \ {n, s[L]} : nodes'[b] = nodes[b]
          /\ nodes'[s[L]].next = n /\ nodes'[s[L]].prev = nodes[s[L]].prev
          /\ nodes'[s[L]].item = nodes[s[L]].item
      BY <3>1, <3>2 DEF NodesType, NewNode
    <3>4. QED
      BY <2>1, <2>3, <3>1, <3>3
  <2>4. QED
    BY <2>1, <2>2, <2>3
<1>6. /\ lists'[m].last = n /\ lists'[m].first = (IF L = 0 THEN n ELSE lists[m].first)
      /\ lists'[m].count = lists[m].count + 1
      /\ \A l \in Blocks \ {m} : lists'[l] = lists[l]
  BY <1>2, <1>3 DEF NodesType
<1>7. /\ L + 1 \in 1 .. L + 1 /\ (L + 1 = 1 <=> L = 0) /\ (L + 1) - 1 = L
      /\ \A j \in 1 .. L : L # 0 /\ L \in 1 .. L /\ j # L + 1 /\ (j + 1 = L + 1 <=> j = L)
  BY <1>1
<1>8. \A j \in DOMAIN s : /\ nodes'[s[j]].prev = IF j = L + 1 THEN n ELSE nodes[s[j]].prev
                          /\ nodes'[s[j]].next = IF j + 1 = L + 1 THEN n ELSE nodes[s[j]].next
  BY <1>1, <1>5, <1>7
<1>9. PICK i : i = L + 1
  BY Zenon
<1>10. /\ NodesType' /\ lists'[m].count = lists[m].count + 1
       /\ i \in 1 .. Len(s) + 1
       /\ nodes'[n].prev = IF i = 1 THEN Null ELSE s[i - 1]
       /\ nodes'[n].next = IF i = Len(s) + 1 THEN Null ELSE s[i]
       /\ lists'[m].first = IF i = 1 THEN n ELSE lists[m].first
       /\ lists'[m].last = IF i = Len(s) + 1 THEN n ELSE lists[m].last
       /\ \A j \in DOMAIN s : /\ nodes'[s[j]].prev = IF j = i THEN n ELSE nodes[s[j]].prev
                              /\ nodes'[s[j]].next = IF j + 1 = i THEN n ELSE nodes[s[j]].next
  BY <1>5, <1>6, <1>7, <1>8, <1>9, Zenon DEF L
<1>11. /\ IsChain(m, InsertAt(s, i, n))' /\ Chain(m)' = InsertAt(s, i, n)
       /\ ToSet(InsertAt(s, i, n)) = ToSet(s) \cup {n}
  BY <1>10, ChainGrows
<1>12. Grown(m, i, n, x)
  BY <1>5, <1>6, <1>11, GrownFacts
<1>13. QED
  BY <1>9, <1>12 DEF L

(* The four pointers between a new node and two others. *)
FourLinked(n, one, two, x) ==
  /\ nodes' \in [Blocks -> [item : Items \cup {Null}, prev : Pointers, next : Pointers]]
  /\ nodes'[n].prev = one /\ nodes'[n].next = two /\ nodes'[n].item = x
  /\ \A b \in Blocks \ {n} : /\ nodes'[b].item = nodes[b].item
                             /\ nodes'[b].prev = IF b = two THEN n ELSE nodes[b].prev
                             /\ nodes'[b].next = IF b = one THEN n ELSE nodes[b].next
                             /\ b \notin {one, two} => nodes'[b] = nodes[b]

(* The four assignments of an insertion between two nodes change these     *)
(* links and no others.                                                    *)
LEMMA FourLinks ==
  ASSUME NodesType, NEW n \in Blocks, NEW one \in Blocks, NEW two \in Blocks, NEW x \in Items,
         one # n, two # n, one # two,
         \/ nodes' = [[nodes EXCEPT ![n] = NewNode(x)] EXCEPT ![n]["next"] = two, ![n]["prev"] = one,
                                                              ![one]["next"] = n, ![two]["prev"] = n]
         \/ nodes' = [[nodes EXCEPT ![n] = NewNode(x)] EXCEPT ![n]["prev"] = one, ![n]["next"] = two,
                                                              ![two]["prev"] = n, ![one]["next"] = n]
  PROVE  FourLinked(n, one, two, x)
<1>1. nodes' = [b \in Blocks |->
                  IF b = n THEN [item |-> x, prev |-> one, next |-> two]
                  ELSE IF b = one THEN [nodes[b] EXCEPT !.next = n]
                  ELSE IF b = two THEN [nodes[b] EXCEPT !.prev = n]
                  ELSE nodes[b]]
  BY DEF NodesType, NewNode
<1>2. \A b \in Blocks : nodes'[b] = IF b = n THEN [item |-> x, prev |-> one, next |-> two]
                                    ELSE IF b = one THEN [nodes[b] EXCEPT !.next = n]
                                    ELSE IF b = two THEN [nodes[b] EXCEPT !.prev = n]
                                    ELSE nodes[b]
  BY <1>1
<1>3. nodes' = [b \in Blocks |-> nodes'[b]]
  BY <1>1
<1>4. ASSUME NEW b \in Blocks
      PROVE  nodes'[b] \in [item : Items \cup {Null}, prev : Pointers, next : Pointers]
  <2>1. /\ nodes[b] \in [item : Items \cup {Null}, prev : Pointers, next : Pointers]
        /\ n \in Pointers /\ one \in Pointers /\ two \in Pointers
    BY DEF NodesType, Pointers
  <2>2. CASE b = n
    <3>1. nodes'[b] = [item |-> x, prev |-> one, next |-> two]
      BY <1>2, <2>2
    <3>2. QED
      BY <2>1, <3>1
  <2>3. CASE b # n /\ b = one
    BY <1>2, <2>1, <2>3
  <2>4. CASE b # n /\ b # one /\ b = two
    BY <1>2, <2>1, <2>4
  <2>5. CASE b \notin {n, one, two}
    BY <1>2, <2>1, <2>5
  <2>6. QED
    BY <2>2, <2>3, <2>4, <2>5
<1>5. ASSUME NEW b \in Blocks \ {n}
      PROVE  /\ nodes'[b].item = nodes[b].item
             /\ nodes'[b].prev = IF b = two THEN n ELSE nodes[b].prev
             /\ nodes'[b].next = IF b = one THEN n ELSE nodes[b].next
             /\ b \notin {one, two} => nodes'[b] = nodes[b]
  <2>1. nodes[b] \in [item : Items \cup {Null}, prev : Pointers, next : Pointers]
    BY DEF NodesType
  <2>2. QED
    BY <1>2, <2>1
<1>6. QED
  BY <1>2, <1>3, <1>4, <1>5 DEF FourLinked

(* The new node comes between those in positions i - 1 and i. *)
LEMMA LinkMiddle ==
  ASSUME NodesType, NEW m \in Blocks, NEW s, s = Chain(m), IsChain(m, s),
         NEW n \in Blocks \ ToSet(s), NEW x \in Items, NEW i \in 2 .. Len(s),
         NEW one \in Blocks, NEW two \in Blocks, one = s[i - 1], two = s[i],
         FourLinked(n, one, two, x),
         lists' = [lists EXCEPT ![m].count = @ + 1]
  PROVE  Grown(m, i, n, x)
<1> DEFINE L == Len(s)
<1>1. /\ L \in Nat /\ DOMAIN s = 1 .. L
      /\ \A j \in 1 .. L : s[j] \in Blocks /\ s[j] \in ToSet(s) /\ s[j] # n
      /\ \A j, k \in 1 .. L : s[j] = s[k] => j = k
  BY ChainPositions
<1>2. lists[m].count = L /\ L + 1 \in 0 .. MaxBlocks
  BY RoomForOne DEF IsChain
<1>3. /\ lists' \in [Blocks -> [first : Pointers, last : Pointers, count : 0 .. MaxBlocks]]
      /\ lists'[m].first = lists[m].first /\ lists'[m].last = lists[m].last
      /\ lists'[m].count = lists[m].count + 1
      /\ \A l \in Blocks \ {m} : lists'[l] = lists[l]
  <2>1. lists' = [lists EXCEPT ![m] = [lists[m] EXCEPT !.count = L + 1]]
    BY <1>2 DEF NodesType
  <2>2. [lists[m] EXCEPT !.count = L + 1] \in [first : Pointers, last : Pointers, count : 0 .. MaxBlocks]
    <3>1. lists[m] \in [first : Pointers, last : Pointers, count : 0 .. MaxBlocks]
      BY DEF NodesType
    <3>2. QED
      BY <3>1, <1>2
  <2>3. lists' \in [Blocks -> [first : Pointers, last : Pointers, count : 0 .. MaxBlocks]]
    BY <2>1, <2>2 DEF NodesType
  <2>4. QED
    BY <2>1, <2>3, <1>2 DEF NodesType
<1> HIDE DEF L
<1>4. i \in 1 .. L + 1 /\ i - 1 \in 1 .. L /\ i \in 1 .. L /\ i # 1 /\ i # L + 1 /\ L \in Nat
  BY <1>1 DEF L
<1>5. ASSUME NEW j \in DOMAIN s
      PROVE  /\ nodes'[s[j]].prev = IF j = i THEN n ELSE nodes[s[j]].prev
             /\ nodes'[s[j]].next = IF j + 1 = i THEN n ELSE nodes[s[j]].next
  <2>1. j \in 1 .. L /\ (s[j] = two <=> j = i) /\ (s[j] = one <=> j = i - 1)
    BY <1>1, <1>4
  <2>2. j = i - 1 <=> j + 1 = i
    BY <2>1, <1>4
  <2>3. s[j] \in Blocks \ {n}
    BY <1>1, <2>1
  <2>4. QED
    BY <2>1, <2>2, <2>3 DEF FourLinked
<1>6. /\ NodesType' /\ lists'[m].count = lists[m].count + 1
      /\ nodes'[n].prev = one /\ nodes'[n].next = two /\ nodes'[n].item = x
  BY <1>3 DEF NodesType, FourLinked
<1>7. /\ i \in 1 .. Len(s) + 1
      /\ nodes'[n].prev = IF i = 1 THEN Null ELSE s[i - 1]
      /\ nodes'[n].next = IF i = Len(s) + 1 THEN Null ELSE s[i]
      /\ lists'[m].first = IF i = 1 THEN n ELSE lists[m].first
      /\ lists'[m].last = IF i = Len(s) + 1 THEN n ELSE lists[m].last
      /\ \A j \in DOMAIN s : /\ nodes'[s[j]].prev = IF j = i THEN n ELSE nodes[s[j]].prev
                             /\ nodes'[s[j]].next = IF j + 1 = i THEN n ELSE nodes[s[j]].next
  BY <1>3, <1>4, <1>5, <1>6 DEF L
<1>8. /\ IsChain(m, InsertAt(s, i, n))' /\ Chain(m)' = InsertAt(s, i, n)
      /\ ToSet(InsertAt(s, i, n)) = ToSet(s) \cup {n}
  BY <1>6, <1>7, ChainGrows
<1>9. \A b \in Blocks \ {n} : /\ nodes'[b].item = nodes[b].item
                              /\ b \notin ToSet(s) => nodes'[b] = nodes[b]
  BY <1>1, <1>4 DEF FourLinked
<1>10. QED
  BY <1>3, <1>6, <1>8, <1>9, GrownFacts

(* TbxListInsertItemBefore in front of a node that is not the first. *)
LEMMA LinkBefore ==
  ASSUME NodesType, NEW m \in Blocks, NEW s, s = Chain(m), IsChain(m, s),
         NEW n \in Blocks \ ToSet(s), NEW x \in Items, NEW i \in 2 .. Len(s),
         LinkBetween(m, FrontEnd, [nodes EXCEPT ![n] = NewNode(x)], n, s[i])
  PROVE  Grown(m, i, n, x)
<1>1. /\ Len(s) \in Nat /\ i - 1 \in 1 .. Len(s) /\ i \in 1 .. Len(s) /\ i # 1 /\ i - 1 # i
      /\ DOMAIN s = 1 .. Len(s)
      /\ \A j \in 1 .. Len(s) : s[j] \in Blocks /\ s[j] # n
      /\ \A j, k \in 1 .. Len(s) : s[j] = s[k] => j = k
  BY ChainPositions
<1>2. PICK one \in Blocks, two \in Blocks : one = s[i - 1] /\ two = s[i]
  BY <1>1
<1>3. one # n /\ two # n /\ one # two /\ nodes[two].prev = one
  BY <1>1, <1>2, Zenon DEF IsChain, Linked
<1>4. FrontEnd.in = "next" /\ FrontEnd.out = "prev"
  BY DEF FrontEnd
<1>5. [nodes EXCEPT ![n] = NewNode(x)][two]["prev"] = one
  BY <1>3 DEF NodesType
<1>6. /\ nodes' = [[nodes EXCEPT ![n] = NewNode(x)] EXCEPT ![n]["next"] = two, ![n]["prev"] = one,
                                                           ![one]["next"] = n, ![two]["prev"] = n]
      /\ lists' = [lists EXCEPT ![m].count = @ + 1]
  BY <1>2, <1>4, <1>5, Zenon DEF LinkBetween
<1>7. FourLinked(n, one, two, x)
  BY <1>3, <1>6, FourLinks
<1>8. lists' = [lists EXCEPT ![m].count = @ + 1]
  BY <1>6
<1>9. QED
  BY <1>2, <1>7, <1>8, LinkMiddle

(* TbxListInsertItemAfter behind a node that is not the last. *)
LEMMA LinkAfter ==
  ASSUME NodesType, NEW m \in Blocks, NEW s, s = Chain(m), IsChain(m, s),
         NEW n \in Blocks \ ToSet(s), NEW x \in Items, NEW i \in 2 .. Len(s),
         LinkBetween(m, BackEnd, [nodes EXCEPT ![n] = NewNode(x)], n, s[i - 1])
  PROVE  Grown(m, i, n, x)
<1>1. /\ Len(s) \in Nat /\ i - 1 \in 1 .. Len(s) /\ i \in 1 .. Len(s) /\ i - 1 # Len(s)
      /\ (i - 1) + 1 = i /\ i - 1 # i /\ DOMAIN s = 1 .. Len(s)
      /\ \A j \in 1 .. Len(s) : s[j] \in Blocks /\ s[j] # n
      /\ \A j, k \in 1 .. Len(s) : s[j] = s[k] => j = k
  BY ChainPositions
<1>2. PICK one \in Blocks, two \in Blocks : one = s[i - 1] /\ two = s[i]
  BY <1>1
<1>3. one # n /\ two # n /\ one # two /\ nodes[one].next = two
  <2>1. nodes[s[i - 1]].next = IF i - 1 = Len(s) THEN Null ELSE s[(i - 1) + 1]
    BY <1>1 DEF IsChain, Linked
  <2>2. QED
    BY <1>1, <1>2, <2>1, Zenon
<1>4. BackEnd.in = "prev" /\ BackEnd.out = "next"
  BY DEF BackEnd
<1>5. [nodes EXCEPT ![n] = NewNode(x)][one]["next"] = two
  BY <1>3 DEF NodesType
<1>6. /\ nodes' = [[nodes EXCEPT ![n] = NewNode(x)] EXCEPT ![n]["prev"] = one, ![n]["next"] = two,
                                                           ![two]["prev"] = n, ![one]["next"] = n]
      /\ lists' = [lists EXCEPT ![m].count = @ + 1]
  BY <1>2, <1>4, <1>5, Zenon DEF LinkBetween
<1>7. FourLinked(n, one, two, x)
  BY <1>3, <1>6, FourLinks
<1>8. lists' = [lists EXCEPT ![m].count = @ + 1]
  BY <1>6
<1>9. QED
  BY <1>2, <1>7, <1>8, LinkMiddle

(* The node of the call comes to position i. *)
Linking(c, m, n, i) ==
  /\ i \in 1 .. Len(Chain(m)) + 1
  /\ call[c].op = "before" => i \in 1 .. Len(Chain(m)) /\ Chain(m)[i] = call[c].ref
  /\ call[c].op = "after" => i - 1 \in 1 .. Len(Chain(m)) /\ Chain(m)[i - 1] = call[c].ref

(* Every insertion puts its node in one position, and returns. *)
LEMMA Links ==
  ASSUME IInv, NEW c \in Contexts, LinkNode(c),
         NEW m, m = call[c].list, NEW n, n = call[c].node, NEW x, x = call[c].item
  PROVE  /\ pc[c] = "link" /\ call[c].op \in Insertions
         /\ m \in open /\ n \in Blocks /\ n \notin Nodes(m) /\ x \in Items
         /\ Finish(c, "link", TRUE) /\ UNCHANGED <<memPoolsCreated, poolVars, open>>
         /\ \E i : Linking(c, m, n, i) /\ Grown(m, i, n, x)
<1>1. PICK op, ref, s : op = call[c].op /\ ref = call[c].ref /\ s = Chain(m)
  OBVIOUS
<1>2. pc[c] = "link" /\ op \in Insertions /\ UNCHANGED <<memPoolsCreated, poolVars, open>>
  BY <1>1, Zenon DEF LinkNode, IInv, CallInv
<1>3. /\ m \in open /\ x \in Items
      /\ op \in {"before", "after"} => ref \in Nodes(m)
  BY <1>1, <1>2 DEF IInv, CallInv
<1>4. n \in Blocks /\ n \notin Nodes(m)
  <2>1. HeldBy(c) = {n}
    BY <1>2, HoldsNothing
  <2>2. QED
    BY <1>3, <2>1, HeldApart DEF IInv, DataInv
<1>5. /\ NodesType /\ m \in Blocks /\ IsChain(m, s) /\ Null \notin Blocks
      /\ n \in Blocks \ ToSet(s) /\ Nodes(m) = ToSet(s)
  BY <1>1, <1>3, <1>4, NodesAreBlocks DEF IInv, DataInv, Nodes
<1>6. /\ Len(s) \in Nat /\ DOMAIN s = 1 .. Len(s) /\ (s = <<>> <=> Len(s) = 0)
      /\ \A j \in 1 .. Len(s) : s[j] \in Blocks
      /\ \A j, k \in 1 .. Len(s) : s[j] = s[k] => j = k
      /\ \A b \in ToSet(s) : \E j \in 1 .. Len(s) : b = s[j]
  BY <1>5, ChainPositions
<1>0. Len(s) \in Nat
  BY <1>6
<1>7. /\ lists[m]["first"] = IF Len(s) = 0 THEN Null ELSE s[1]
      /\ lists[m]["last"] = IF Len(s) = 0 THEN Null ELSE s[Len(s)]
      /\ lists[m].count = Len(s)
  BY <1>5, <1>6 DEF IsChain, NodesType
<1>8. /\ FrontEnd.end = "first" /\ FrontEnd.out = "prev"
      /\ BackEnd.end = "last" /\ BackEnd.out = "next"
  BY DEF FrontEnd, BackEnd
<1>9. /\ op \in {"front", "before"} => SideOf(op) = FrontEnd
      /\ op \in {"back", "after"} => SideOf(op) = BackEnd
  BY Zenon DEF SideOf
<1> DEFINE initial == [nodes EXCEPT ![n] = NewNode(x)]
           side == SideOf(op)
           atEnd == op \in {"front", "back"} \/ ref = lists[m][side.end]
           ok == IF op \in {"front", "back"}
                 THEN lists[m][side.end] # Null => lists[m].count > 0
                 ELSE ~atEnd => initial[ref][side.out] # Null
<1>10. /\ Finish(c, "link", ok)
       /\ IF ~ok THEN UNCHANGED <<nodes, lists>>
          ELSE IF atEnd THEN LinkEnd(m, side, initial, n)
          ELSE LinkBetween(m, side, initial, n, ref)
  BY <1>1, Zenon DEF LinkNode
<1> HIDE DEF initial, side
<1>11. \A b \in Blocks \ {n} : initial[b] = nodes[b]
  BY <1>5 DEF initial, NodesType
<1>12. CASE op = "front"
  <2>1. side = FrontEnd
    BY <1>9, <1>12 DEF side
  <2>2. ok
    BY <1>6, <1>7, <1>8, <1>12, <2>1
  <2>3. Finish(c, "link", TRUE) /\ LinkEnd(m, FrontEnd, initial, n)
    BY <1>10, <1>12, <2>1, <2>2
  <2>4. Grown(m, 1, n, x)
    BY <1>1, <1>3, <1>5, <2>3, LinkFirst DEF initial
  <2>5. Linking(c, m, n, 1)
    BY <1>1, <1>6, <1>12 DEF Linking
  <2>6. QED
    BY <1>1, <1>2, <1>3, <1>4, <2>3, <2>4, <2>5
<1>13. CASE op = "back"
  <2>1. side = BackEnd
    BY <1>9, <1>13 DEF side
  <2>2. ok
    BY <1>6, <1>7, <1>8, <1>13, <2>1
  <2>3. Finish(c, "link", TRUE) /\ LinkEnd(m, BackEnd, initial, n)
    BY <1>10, <1>13, <2>1, <2>2
  <2>4. Grown(m, Len(s) + 1, n, x)
    BY <1>1, <1>3, <1>5, <2>3, LinkLast DEF initial
  <2>5. Linking(c, m, n, Len(s) + 1)
    BY <1>1, <1>6, <1>13 DEF Linking
  <2>6. QED
    BY <1>1, <1>2, <1>3, <1>4, <2>3, <2>4, <2>5
<1>14. CASE op = "before"
  <2>1. side = FrontEnd
    BY <1>9, <1>14 DEF side
  <2>2. PICK p \in 1 .. Len(s) : ref = s[p]
    BY <1>3, <1>5, <1>6, <1>14
  <2>3. ref \in Blocks \ {n} /\ Len(s) # 0 /\ 1 \in 1 .. Len(s)
    BY <1>3, <1>5, <1>6, <1>14, <2>2
  <2>4. atEnd <=> p = 1
    BY <1>6, <1>7, <1>8, <1>14, <2>1, <2>2, <2>3
  <2>5. ok
    <3>1. p # 1 => p - 1 \in 1 .. Len(s)
      BY <1>6
    <3>2. p # 1 => nodes[ref].prev \in Blocks
      BY <1>5, <1>6, <2>2, <3>1 DEF IsChain, Linked
    <3>3. initial[ref]["prev"] = nodes[ref].prev
      BY <1>5, <1>11, <2>3 DEF NodesType
    <3>4. QED
      BY <1>5, <1>8, <1>14, <2>1, <2>4, <3>2, <3>3
  <2>6. /\ Finish(c, "link", TRUE)
        /\ IF p = 1 THEN LinkEnd(m, FrontEnd, initial, n)
           ELSE LinkBetween(m, FrontEnd, initial, n, s[p])
    BY <1>10, <2>1, <2>2, <2>4, <2>5
  <2>7. Grown(m, p, n, x)
    <3>1. CASE p = 1
      BY <1>1, <1>3, <1>5, <2>6, <3>1, LinkFirst DEF initial
    <3>2. CASE p # 1
      <4>1. p \in 2 .. Len(s)
        BY <1>6, <3>2
      <4>2. QED
        BY <1>1, <1>3, <1>5, <2>6, <3>2, <4>1, LinkBefore DEF initial
    <3>3. QED
      BY <3>1, <3>2
  <2>8. Linking(c, m, n, p)
    BY <1>1, <1>6, <1>14, <2>2 DEF Linking
  <2>9. QED
    BY <1>1, <1>2, <1>3, <1>4, <2>6, <2>7, <2>8
<1>15. CASE op = "after"
  <2>1. side = BackEnd
    BY <1>9, <1>15 DEF side
  <2>2. PICK p \in 1 .. Len(s) : ref = s[p]
    BY <1>3, <1>5, <1>6, <1>15
  <2>3. ref \in Blocks \ {n} /\ Len(s) # 0 /\ Len(s) \in 1 .. Len(s)
    <3>1. ref \in Blocks \ {n}
      BY <1>3, <1>5, <1>6, <1>15, <2>2, Zenon
    <3>2. Len(s) # 0 /\ Len(s) \in 1 .. Len(s)
      BY <1>0, <2>2
    <3>3. QED
      BY <3>1, <3>2
  <2>4. atEnd <=> p = Len(s)
    <3>1. lists[m][side.end] = s[Len(s)]
      BY <1>7, <1>8, <2>1, <2>3, Zenon
    <3>2. atEnd <=> s[p] = s[Len(s)]
      BY <1>15, <2>2, <3>1
    <3>3. QED
      BY <1>6, <2>2, <2>3, <3>2, Zenon
  <2>5. ok
    <3>1. p # Len(s) => p + 1 \in 1 .. Len(s)
      BY <1>0
    <3>2. p # Len(s) => nodes[ref].next \in Blocks
      BY <1>5, <1>6, <2>2, <3>1, Zenon DEF IsChain, Linked
    <3>3. initial[ref]["next"] = nodes[ref].next
      BY <1>5, <1>11, <2>3 DEF NodesType
    <3>4. QED
      BY <1>5, <1>8, <1>15, <2>1, <2>4, <3>2, <3>3
  <2>6. /\ Finish(c, "link", TRUE)
        /\ IF p = Len(s) THEN LinkEnd(m, BackEnd, initial, n)
           ELSE LinkBetween(m, BackEnd, initial, n, s[p])
    BY <1>10, <2>1, <2>2, <2>4, <2>5
  <2>7. PICK i : i = p + 1
    OBVIOUS
  <2>8. i - 1 = p /\ i \in 1 .. Len(s) + 1 /\ (p # Len(s) => i \in 2 .. Len(s))
    BY <1>0, <2>7
  <2>9. Grown(m, i, n, x)
    <3>1. CASE p = Len(s)
      BY <1>1, <1>3, <1>5, <2>6, <2>7, <3>1, LinkLast DEF initial
    <3>2. CASE p # Len(s)
      <4>1. LinkBetween(m, BackEnd, initial, n, s[i - 1])
        BY <2>6, <2>8, <3>2
      <4>2. QED
        BY <1>1, <1>3, <1>5, <2>8, <3>2, <4>1, LinkAfter DEF initial
    <3>3. QED
      BY <3>1, <3>2
  <2>10. Linking(c, m, n, i)
    BY <1>1, <1>6, <1>15, <2>2, <2>8 DEF Linking
  <2>11. QED
    BY <1>1, <1>2, <1>3, <1>4, <2>6, <2>9, <2>10
<1>16. QED
  BY <1>2, <1>12, <1>13, <1>14, <1>15, Zenon DEF Insertions

(* The functions that insert keep the invariant: their node, which they    *)
(* alone held, is now one of the list's.                                   *)
LEMMA LinkNodeStep ==
  ASSUME IInv, NEW c \in Contexts, LinkNode(c)
  PROVE  IInv'
<1>1. PICK m, n, x : m = call[c].list /\ n = call[c].node /\ x = call[c].item
  OBVIOUS
<1>2. /\ pc[c] = "link" /\ call[c].op \in Insertions
      /\ m \in open /\ n \in Blocks /\ n \notin Nodes(m) /\ x \in Items
      /\ Finish(c, "link", TRUE) /\ UNCHANGED <<memPoolsCreated, poolVars, open>>
      /\ \E i : Linking(c, m, n, i) /\ Grown(m, i, n, x)
  BY <1>1, Links
<1>3. PICK i : Grown(m, i, n, x)
  BY <1>2
<1>4. pc' = [pc EXCEPT ![c] = "idle"] /\ call' = [call EXCEPT ![c] = NoCall]
  BY <1>2 DEF Finish, Goto
<1>5. ControlTypes' /\ OthersWait(c) /\ pc'[c] = "idle" /\ call'[c] = NoCall
  BY <1>2, <1>4, Asks, NoCallType DEF IInv, ControlTypes, Locations
<1>6. /\ NodesType' /\ IsChain(m, Chain(m))' /\ Nodes(m)' = Nodes(m) \cup {n}
      /\ nodes'[n].item = x /\ \A b \in Blocks \ {n} : nodes'[b].item = nodes[b].item
      /\ \A b \in Blocks \ {n} : b \notin Nodes(m) => nodes'[b] = nodes[b]
      /\ \A l \in Blocks \ {m} : lists'[l] = lists[l]
  BY <1>3 DEF Grown
<1>7. HeldBy(c) = {n} /\ HeldBy(c)' = {}
  BY <1>1, <1>2, <1>5, HoldsNothing
<1>8. \A l \in open \ {m} : Untouched(l)
  <2> SUFFICES ASSUME NEW l \in open \ {m} PROVE Untouched(l)
    OBVIOUS
  <2>1. l \in Blocks /\ Nodes(l) \subseteq Blocks
    BY NodesAreBlocks DEF IInv
  <2>2. n \notin Nodes(l) /\ Nodes(l) \cap Nodes(m) = {}
    BY <1>2, <1>7, HeldApart DEF IInv, DataInv, PlaceInv
  <2>3. QED
    BY <1>6, <2>1, <2>2 DEF Untouched
<1>9. m \in Blocks /\ Nodes(m) \subseteq Blocks
  BY <1>2, NodesAreBlocks DEF IInv
<1>10. x \notin ItemSet(m)
  BY <1>1, <1>2 DEF IInv, CallInv
<1>11. \A b, d \in Nodes(m)' : /\ nodes'[b].item \in Items
                               /\ nodes'[b].item = nodes'[d].item => b = d
  <2>1. \A b \in Nodes(m) : nodes'[b].item = nodes[b].item /\ nodes[b].item # x
    BY <1>2, <1>6, <1>9, <1>10 DEF ItemSet
  <2>2. \A b, d \in Nodes(m) : nodes[b].item \in Items /\ (nodes[b].item = nodes[d].item => b = d)
    BY <1>2 DEF IInv, DataInv, ItemsInv
  <2>3. QED
    BY <1>2, <1>6, <2>1, <2>2
<1>12. (\A l \in open \ {m} : Nodes(l)' = Nodes(l)) => PlaceInv'
  BY <1>2, <1>5, <1>6, <1>7, OthersHold, PlacesLink DEF IInv, DataInv
<1>13. \A d \in Contexts \ {c} : call[d].list = m => StillTrue(d)
  <2> SUFFICES ASSUME NEW d \in Contexts \ {c}, call[d].list = m PROVE StillTrue(d)
    OBVIOUS
  <2>1. CallInv(d) /\ PairInv(c, d)
    BY DEF IInv
  <2>2. call[d].op \in Insertions => call[d].item # x /\ call[d].item \notin ItemSet(m)
    BY <1>1, <1>2, <2>1 DEF PairInv, CallInv
  <2>3. ItemSet(m)' = ItemSet(m) \cup {x}
    BY <1>2, <1>6, <1>9 DEF ItemSet
  <2>4. Refers(d) => call[d].ref \in Nodes(m)
    BY <2>1 DEF Refers, CallInv
  <2>5. QED
    BY <1>2, <1>6, <1>9, <2>2, <2>3, <2>4 DEF StillTrue
<1>14. CallInv(c)'
  BY <1>5, Returns
<1>15. \A d, e \in Contexts : d # e => PairInv(d, e)'
  BY <1>5, PairsQuiet DEF NoCall, Insertions
<1>16. open' \subseteq Blocks /\ open' \ {m} = open \ {m}
  BY <1>2 DEF IInv, DataInv, ChainsInv
<1>17. QED
  BY <1>5, <1>6, <1>8, <1>9, <1>11, <1>12, <1>13, <1>14, <1>15, <1>16, ListStep

-----------------------------------------------------------------------------
(* A node is taken out. *)

(* List m loses its node n in position i. *)
Shrunk(m, i, n) ==
  /\ NodesType' /\ IsChain(m, Chain(m))'
  /\ i \in DOMAIN Chain(m) /\ Chain(m)[i] = n
  /\ Chain(m)' = RemoveAt(Chain(m), i)
  /\ Nodes(m)' = Nodes(m) \ {n}
  /\ \A b \in Blocks : /\ nodes'[b].item = nodes[b].item
                       /\ b \notin Nodes(m) => nodes'[b] = nodes[b]
  /\ \A l \in Blocks \ {m} : lists'[l] = lists[l]

(* The neighbours are linked to each other. *)
Bypassed(m, one, two) ==
  /\ nodes' = [b \in Blocks |->
                 IF b = one THEN [nodes[b] EXCEPT !.next = two]
                 ELSE IF b = two THEN [nodes[b] EXCEPT !.prev = one]
                 ELSE nodes[b]]
  /\ lists' = [lists EXCEPT ![m] = [first |-> IF one = Null THEN two ELSE @.first,
                                    last  |-> IF two = Null THEN one ELSE @.last,
                                    count |-> @.count - 1]]

(* The assignments of TbxListRemoveItem change the links of the two        *)
(* neighbours, the ends and the count.                                     *)
LEMMA BypassedFacts ==
  ASSUME NodesType, NEW m \in Blocks, NEW one \in Pointers, NEW two \in Pointers,
         one = two => one = Null, lists[m].count # 0, Bypassed(m, one, two)
  PROVE  /\ NodesType'
         /\ \A b \in Blocks : /\ nodes'[b].item = nodes[b].item
                              /\ nodes'[b].prev = IF b = two THEN one ELSE nodes[b].prev
                              /\ nodes'[b].next = IF b = one THEN two ELSE nodes[b].next
                              /\ b \notin {one, two} => nodes'[b] = nodes[b]
         /\ lists'[m].first = IF one = Null THEN two ELSE lists[m].first
         /\ lists'[m].last = IF two = Null THEN one ELSE lists[m].last
         /\ lists'[m].count = lists[m].count - 1
         /\ \A l \in Blocks \ {m} : lists'[l] = lists[l]
<1>1. Null \notin Blocks
  BY DEF Null, Blocks
<1>2. ASSUME NEW b \in Blocks
      PROVE  /\ nodes'[b] \in [item : Items \cup {Null}, prev : Pointers, next : Pointers]
             /\ nodes'[b].item = nodes[b].item
             /\ nodes'[b].prev = IF b = two THEN one ELSE nodes[b].prev
             /\ nodes'[b].next = IF b = one THEN two ELSE nodes[b].next
             /\ b \notin {one, two} => nodes'[b] = nodes[b]
  <2>1. nodes[b] \in [item : Items \cup {Null}, prev : Pointers, next : Pointers]
    BY DEF NodesType
  <2>2. nodes'[b] = IF b = one THEN [nodes[b] EXCEPT !.next = two]
                    ELSE IF b = two THEN [nodes[b] EXCEPT !.prev = one]
                    ELSE nodes[b]
    BY DEF Bypassed
  <2>3. CASE b = one
    BY <1>1, <2>1, <2>2, <2>3
  <2>4. CASE b # one /\ b = two
    BY <2>1, <2>2, <2>4
  <2>5. CASE b \notin {one, two}
    BY <2>1, <2>2, <2>5
  <2>6. QED
    BY <2>3, <2>4, <2>5
<1>3. nodes' \in [Blocks -> [item : Items \cup {Null}, prev : Pointers, next : Pointers]]
  <2>1. nodes' = [b \in Blocks |-> nodes'[b]]
    BY DEF Bypassed
  <2>2. QED
    BY <1>2, <2>1
<1>4. /\ lists' \in [Blocks -> [first : Pointers, last : Pointers, count : 0 .. MaxBlocks]]
      /\ lists'[m].first = IF one = Null THEN two ELSE lists[m].first
      /\ lists'[m].last = IF two = Null THEN one ELSE lists[m].last
      /\ lists'[m].count = lists[m].count - 1
      /\ \A l \in Blocks \ {m} : lists'[l] = lists[l]
  <2> DEFINE new == [first |-> IF one = Null THEN two ELSE lists[m].first,
                     last |-> IF two = Null THEN one ELSE lists[m].last,
                     count |-> lists[m].count - 1]
  <2>1. lists[m] \in [first : Pointers, last : Pointers, count : 0 .. MaxBlocks]
    BY DEF NodesType
  <2>2. lists[m].count - 1 \in 0 .. MaxBlocks
    BY <2>1, ListAssumption
  <2>3. new \in [first : Pointers, last : Pointers, count : 0 .. MaxBlocks]
    BY <2>1, <2>2
  <2>4. lists' = [lists EXCEPT ![m] = new]
    BY DEF Bypassed
  <2>5. /\ new.first = IF one = Null THEN two ELSE lists[m].first
        /\ new.last = IF two = Null THEN one ELSE lists[m].last
        /\ new.count = lists[m].count - 1
    OBVIOUS
  <2> HIDE DEF new
  <2>6. QED
    BY <2>3, <2>4, <2>5 DEF NodesType
<1>5. QED
  BY <1>2, <1>3, <1>4 DEF NodesType

(* The neighbours of the node in position i linked to each other: the list *)
(* without that node.                                                      *)
LEMMA Bypass ==
  ASSUME NodesType, NEW m \in Blocks, NEW s, s = Chain(m), IsChain(m, s),
         NEW i \in DOMAIN s, NEW one, NEW two,
         one = nodes[s[i]].prev, two = nodes[s[i]].next, Bypassed(m, one, two)
  PROVE  Shrunk(m, i, s[i])
<1> DEFINE L == Len(s)
<1>1. /\ L \in Nat /\ DOMAIN s = 1 .. L
      /\ \A j \in 1 .. L : s[j] \in Blocks /\ s[j] \in ToSet(s)
      /\ \A j, k \in 1 .. L : s[j] = s[k] => j = k
  BY ChainPositions
<1>2. /\ one = IF i = 1 THEN Null ELSE s[i - 1]
      /\ two = IF i = L THEN Null ELSE s[i + 1]
      /\ lists[m].count = L /\ Null \notin Blocks
  <2>1. Linked(s) /\ lists[m].count = L
    BY DEF IsChain
  <2>2. /\ nodes[s[i]].prev = IF i = 1 THEN Null ELSE s[i - 1]
        /\ nodes[s[i]].next = IF i = L THEN Null ELSE s[i + 1]
    BY <2>1 DEF Linked
  <2>3. Null \notin Blocks
    BY DEF Null, Blocks
  <2>4. QED
    BY <2>1, <2>2, <2>3
<1>3. one \in Pointers /\ two \in Pointers
  BY <1>1 DEF NodesType
<1> HIDE DEF L
<1>4. L \in Nat /\ i \in 1 .. L
  BY <1>1
<1>5. /\ L # 0 /\ (i # 1 => i - 1 \in 1 .. L) /\ (i # L => i + 1 \in 1 .. L)
      /\ i - 1 # i + 1 /\ i - 1 # i /\ i + 1 # i
  BY <1>4
<1>6. /\ one = two => one = Null
      /\ one = Null <=> i = 1
      /\ two = Null <=> i = L
      /\ one # Null => one \in ToSet(s)
      /\ two # Null => two \in ToSet(s)
  BY <1>1, <1>2, <1>5
<1>7. /\ NodesType'
      /\ \A b \in Blocks : /\ nodes'[b].item = nodes[b].item
                           /\ nodes'[b].prev = IF b = two THEN one ELSE nodes[b].prev
                           /\ nodes'[b].next = IF b = one THEN two ELSE nodes[b].next
                           /\ b \notin {one, two} => nodes'[b] = nodes[b]
      /\ lists'[m].first = IF one = Null THEN two ELSE lists[m].first
      /\ lists'[m].last = IF two = Null THEN one ELSE lists[m].last
      /\ lists'[m].count = lists[m].count - 1
      /\ \A l \in Blocks \ {m} : lists'[l] = lists[l]
  BY <1>2, <1>3, <1>5, <1>6, BypassedFacts
<1>8. ASSUME NEW j \in DOMAIN s \ {i}
      PROVE  /\ nodes'[s[j]].prev = IF j = i + 1 THEN nodes[s[i]].prev ELSE nodes[s[j]].prev
             /\ nodes'[s[j]].next = IF j + 1 = i THEN nodes[s[i]].next ELSE nodes[s[j]].next
  <2>1. j \in 1 .. L /\ s[j] \in Blocks
    BY <1>1
  <2>2. (i = L => j # i + 1) /\ (i = 1 => j + 1 # i) /\ (j + 1 = i <=> j = i - 1)
    BY <1>4, <2>1
  <2>3. (s[j] = two <=> j = i + 1) /\ (s[j] = one <=> j + 1 = i)
    BY <1>1, <1>2, <1>5, <2>1, <2>2
  <2>4. QED
    BY <1>7, <2>1, <2>3
<1>9. /\ lists'[m].first = IF i = 1 THEN nodes[s[i]].next ELSE lists[m].first
      /\ lists'[m].last = IF i = Len(s) THEN nodes[s[i]].prev ELSE lists[m].last
  BY <1>6, <1>7 DEF L
<1>10. /\ IsChain(m, RemoveAt(s, i))' /\ Chain(m)' = RemoveAt(s, i)
       /\ ToSet(RemoveAt(s, i)) = ToSet(s) \ {s[i]}
  <2>1. NodesType' /\ lists'[m].count = lists[m].count - 1
    BY <1>7
  <2>2. QED
    BY <1>8, <1>9, <2>1, ChainShrinks
<1>11. IsChain(m, Chain(m))' /\ Nodes(m)' = Nodes(m) \ {s[i]} /\ Nodes(m) = ToSet(s)
  BY <1>10 DEF IsChain, Linked, Nodes
<1>12. \A b \in Blocks : b \notin Nodes(m) => nodes'[b] = nodes[b]
  BY <1>2, <1>6, <1>7, <1>11
<1>13. QED
  BY <1>7, <1>10, <1>11, <1>12 DEF Shrunk

(* The assertions on the count hold. *)
LEMMA EnoughNodes ==
  ASSUME NEW m, NEW s, IsChain(m, s), NEW i \in DOMAIN s,
         NEW one, NEW two, one = nodes[s[i]].prev, two = nodes[s[i]].next
  PROVE  /\ one = Null => lists[m].first = s[i]
         /\ two = Null => lists[m].last = s[i]
         /\ IF one = Null /\ two = Null THEN lists[m].count = 1
            ELSE lists[m].count > Cardinality({one, two} \ {Null})
<1> DEFINE L == Len(s)
<1>1. /\ L \in Nat /\ DOMAIN s = 1 .. L /\ (s = <<>> <=> L = 0)
      /\ \A j \in 1 .. L : s[j] \in Blocks
      /\ \A j, k \in 1 .. L : s[j] = s[k] => j = k
  BY ChainPositions
<1>2. /\ one = IF i = 1 THEN Null ELSE s[i - 1]
      /\ two = IF i = L THEN Null ELSE s[i + 1]
      /\ lists[m].first = IF s = <<>> THEN Null ELSE s[1]
      /\ lists[m].last = IF s = <<>> THEN Null ELSE s[L]
      /\ lists[m].count = L /\ Null \notin Blocks
  <2>1. /\ Linked(s) /\ lists[m].count = L
        /\ lists[m].first = IF s = <<>> THEN Null ELSE s[1]
        /\ lists[m].last = IF s = <<>> THEN Null ELSE s[L]
    BY DEF IsChain
  <2>2. /\ nodes[s[i]].prev = IF i = 1 THEN Null ELSE s[i - 1]
        /\ nodes[s[i]].next = IF i = L THEN Null ELSE s[i + 1]
    BY <2>1 DEF Linked
  <2>3. Null \notin Blocks
    BY DEF Null, Blocks
  <2>4. QED
    BY <2>1, <2>2, <2>3
<1> HIDE DEF L
<1>3. L \in Nat /\ i \in 1 .. L
  BY <1>1
<1>4. /\ L # 0 /\ (i # 1 => i - 1 \in 1 .. L) /\ (i # L => i + 1 \in 1 .. L)
      /\ i - 1 # i + 1 /\ (i = 1 /\ i = L => L = 1)
      /\ (~(i = 1 /\ i = L) => L > 1) /\ (i # 1 /\ i # L => L > 2)
  BY <1>3
<1>5. /\ (one = Null <=> i = 1) /\ (two = Null <=> i = L)
      /\ (one = two => one = Null)
  BY <1>1, <1>2, <1>4
<1>6. one = Null /\ two = Null => lists[m].count = 1
  BY <1>2, <1>4, <1>5
<1>7. ~(one = Null /\ two = Null) => lists[m].count > Cardinality({one, two} \ {Null})
  <2>1. CASE one = Null /\ two # Null
    <3>1. {one, two} \ {Null} = {two}
      BY <2>1
    <3>2. QED
      BY <1>2, <1>4, <1>5, <2>1, <3>1, FS_Singleton
  <2>2. CASE one # Null /\ two = Null
    <3>1. {one, two} \ {Null} = {one}
      BY <2>2
    <3>2. QED
      BY <1>2, <1>4, <1>5, <2>2, <3>1, FS_Singleton
  <2>3. CASE one # Null /\ two # Null
    <3>1. {one, two} \ {Null} = {one} \cup {two} /\ two \notin {one}
      BY <1>5, <2>3
    <3>2. IsFiniteSet({one}) /\ Cardinality({one}) = 1
      BY FS_Singleton
    <3>3. Cardinality({one} \cup {two}) = 2
      <4>1. Cardinality({one} \cup {two}) = IF two \in {one} THEN 1 ELSE 1 + 1
        BY <3>2, FS_AddElement
      <4>2. QED
        BY <3>1, <4>1
    <3>4. QED
      BY <1>2, <1>4, <1>5, <2>3, <3>1, <3>3
  <2>4. QED
    BY <2>1, <2>2, <2>3
<1>8. QED
  BY <1>1, <1>2, <1>4, <1>5, <1>6, <1>7

(* TbxListRemoveItem takes its node out of the list, with no assertion     *)
(* failing: the node that it has looked up is still in the list.           *)
LEMMA Unlinks ==
  ASSUME IInv, NEW c \in Contexts, Unlink(c),
         NEW m, m = call[c].list, NEW n, n = call[c].ref
  PROVE  /\ pc[c] = "unlink" /\ m \in open /\ n \in Nodes(m)
         /\ Goto(c, "unlink", "release") /\ UNCHANGED <<call, memPoolsCreated, poolVars, open>>
         /\ \E i : Shrunk(m, i, n)
<1>1. pc[c] = "unlink" /\ m \in open /\ n \in Nodes(m)
  BY DEF Unlink, IInv, CallInv
<1>2. PICK s : s = Chain(m)
  OBVIOUS
<1>3. NodesType /\ m \in Blocks /\ IsChain(m, s) /\ Nodes(m) = ToSet(s)
  BY <1>1, <1>2, NodesAreBlocks DEF IInv, DataInv, Nodes
<1>4. PICK i \in DOMAIN s : n = s[i]
  BY <1>1, <1>3 DEF ToSet
<1>5. PICK one, two : one = nodes[n].prev /\ two = nodes[n].next
  OBVIOUS
<1> DEFINE ok == /\ one = Null => lists[m].first = n
                 /\ two = Null => lists[m].last = n
                 /\ IF one = Null /\ two = Null THEN lists[m].count = 1
                    ELSE lists[m].count > Cardinality({one, two} \ {Null})
<1>6. ok
  BY <1>3, <1>4, <1>5, EnoughNodes
<1>7. /\ IF ok THEN Goto(c, "unlink", "release") /\ UNCHANGED call
         ELSE Finish(c, "unlink", FALSE)
      /\ nodes' = [b \in Blocks |->
                     IF ok /\ b = one THEN [nodes[b] EXCEPT !.next = two]
                     ELSE IF ok /\ b = two THEN [nodes[b] EXCEPT !.prev = one]
                     ELSE nodes[b]]
      /\ lists' = IF ok THEN [lists EXCEPT ![m] =
                                [first |-> IF one = Null THEN two ELSE @.first,
                                 last  |-> IF two = Null THEN one ELSE @.last,
                                 count |-> @.count - 1]]
                  ELSE lists
      /\ UNCHANGED <<memPoolsCreated, poolVars, open>>
  BY <1>5 DEF Unlink
<1> HIDE DEF ok
<1>8. Goto(c, "unlink", "release") /\ UNCHANGED call /\ Bypassed(m, one, two)
  BY <1>6, <1>7 DEF Bypassed
<1>9. Shrunk(m, i, n)
  BY <1>2, <1>3, <1>4, <1>5, <1>8, Bypass
<1>10. QED
  BY <1>1, <1>7, <1>8, <1>9

(* TbxListRemoveItem keeps the invariant when it unlinks the node: the     *)
(* node is its own until it releases it, and nobody else has looked it up. *)
LEMMA UnlinkStep ==
  ASSUME IInv, NEW c \in Contexts, Unlink(c)
  PROVE  IInv'
<1>1. PICK m, n, x : m = call[c].list /\ n = call[c].ref /\ x = call[c].item
  OBVIOUS
<1>2. /\ pc[c] = "unlink" /\ m \in open /\ n \in Nodes(m)
      /\ Goto(c, "unlink", "release") /\ UNCHANGED <<call, memPoolsCreated, poolVars, open>>
      /\ \E i : Shrunk(m, i, n)
  BY <1>1, Unlinks
<1>3. pc' = [pc EXCEPT ![c] = "release"]
  BY <1>2 DEF Goto
<1>4. ControlTypes' /\ OthersWait(c) /\ pc'[c] = "release" /\ call'[c] = call[c]
  BY <1>2, <1>3, Moves DEF IInv, Locations
<1>5. /\ NodesType' /\ IsChain(m, Chain(m))' /\ Nodes(m)' = Nodes(m) \ {n}
      /\ \A b \in Blocks : /\ nodes'[b].item = nodes[b].item
                           /\ b \notin Nodes(m) => nodes'[b] = nodes[b]
      /\ \A l \in Blocks \ {m} : lists'[l] = lists[l]
  BY <1>2 DEF Shrunk
<1>6. HeldBy(c) = {} /\ HeldBy(c)' = {n}
  BY <1>1, <1>2, <1>4, HoldsNothing
<1>7. \A l \in open \ {m} : Untouched(l)
  <2> SUFFICES ASSUME NEW l \in open \ {m} PROVE Untouched(l)
    OBVIOUS
  <2>1. l \in Blocks /\ Nodes(l) \subseteq Blocks
    BY NodesAreBlocks DEF IInv
  <2>2. Nodes(l) \cap Nodes(m) = {}
    BY <1>2 DEF IInv, DataInv, PlaceInv
  <2>3. QED
    BY <1>5, <2>1, <2>2 DEF Untouched
<1>8. m \in Blocks /\ Nodes(m) \subseteq Blocks
  BY <1>2, NodesAreBlocks DEF IInv
<1>9. \A b, d \in Nodes(m) : nodes[b].item \in Items /\ (nodes[b].item = nodes[d].item => b = d)
  BY <1>2 DEF IInv, DataInv, ItemsInv
<1>10. \A b, d \in Nodes(m)' : /\ nodes'[b].item \in Items
                               /\ nodes'[b].item = nodes'[d].item => b = d
  BY <1>5, <1>8, <1>9
<1>11. (\A l \in open \ {m} : Nodes(l)' = Nodes(l)) => PlaceInv'
  BY <1>2, <1>4, <1>5, <1>6, OthersHold, PlacesUnlink DEF IInv, DataInv
<1>12. CallInv(c)
  BY DEF IInv
<1>13. nodes[n].item = x /\ call[c].op = "remove"
  BY <1>1, <1>2, <1>12 DEF CallInv
<1>14. \A d \in Contexts \ {c} : call[d].list = m => StillTrue(d)
  <2> SUFFICES ASSUME NEW d \in Contexts \ {c}, call[d].list = m PROVE StillTrue(d)
    OBVIOUS
  <2>1. CallInv(d) /\ PairInv(c, d)
    BY DEF IInv
  <2>2. Refers(d) => call[d].ref \in Nodes(m) /\ nodes[call[d].ref].item # x
    BY <1>1, <1>2, <2>1 DEF Refers, CallInv, PairInv
  <2>3. ItemSet(m)' \subseteq ItemSet(m)
    BY <1>5, <1>8 DEF ItemSet
  <2>4. call[d].op \in Insertions => call[d].item \notin ItemSet(m)
    BY <2>1 DEF CallInv
  <2>5. QED
    BY <1>2, <1>5, <1>8, <1>13, <2>2, <2>3, <2>4 DEF StillTrue
<1>15. CallInv(c)'
  BY <1>1, <1>2, <1>4, <1>12, <1>13 DEF CallInv, Insertions
<1>16. \A d, e \in Contexts : d # e => PairInv(d, e)'
  BY <1>4, PairsGoOn
<1>17. open' \subseteq Blocks /\ open' \ {m} = open \ {m}
  BY <1>2 DEF IInv, DataInv, ChainsInv
<1>18. QED
  BY <1>4, <1>5, <1>7, <1>8, <1>10, <1>11, <1>14, <1>15, <1>16, <1>17, ListStep

-----------------------------------------------------------------------------
(* Blocks are released. *)

(* TbxListRemoveItem keeps the invariant when it releases its node,        *)
(* outside the critical section: no list contains it.                      *)
LEMMA RemoveReleaseStep ==
  ASSUME IInv, NEW c \in Contexts, RemoveRelease(c)
  PROVE  IInv'
<1>1. PICK n : n = call[c].ref
  OBVIOUS
<1>2. pc[c] = "release" /\ UNCHANGED <<memPoolsCreated, nodes, lists, open>>
  BY DEF RemoveRelease, Finish, Goto
<1>3. HeldBy(c) = {n}
  BY <1>1, <1>2, HoldsNothing
<1>4. /\ n \in Blocks /\ n \notin open /\ n \notin ToSet(free)
      /\ \A l \in open : n \notin Nodes(l)
      /\ \A d \in Contexts \ {c} : n \notin HeldBy(d)
  BY <1>3, HeldApart DEF IInv, DataInv
<1>5. /\ <<n>> \in Seq(Blocks) /\ ToSet(<<n>>) = {n} /\ IsInjective(<<n>>)
  BY <1>4 DEF ToSet, IsInjective
<1>6. \A b \in ToSet(<<n>>) : Placed(b)
  BY <1>3, <1>5 DEF Placed
<1>7. MayRelease(<<n>>)
  BY <1>4, <1>5, <1>6, RoomToRelease DEF IInv, DataInv
<1>8. pc' = [pc EXCEPT ![c] = "idle"] /\ call' = [call EXCEPT ![c] = NoCall] /\ Release(<<n>>)
  BY <1>1, <1>7 DEF RemoveRelease, Finish, Goto
<1>9. ControlTypes' /\ OthersWait(c) /\ pc'[c] = "idle" /\ call'[c] = NoCall
  BY <1>2, <1>8, Asks, NoCallType DEF IInv, ControlTypes, Locations
<1>10. HeldBy(c)' = {}
  BY <1>9, HoldsNothing
<1>11. NodesType' /\ \A b \in Blocks \ {n} : nodes'[b] = nodes[b]
  BY <1>2 DEF IInv, DataInv, NodesType
<1>12. \A l \in open : Untouched(l)
  BY <1>2 DEF Untouched
<1>13. PlaceInv'
  <2>1. \A l \in open : Nodes(l)' = Nodes(l)
    BY <1>2, <1>11, <1>12, ListsSame
  <2>2. created' = created /\ free' = Reverse(<<n>>) \o free
    BY <1>8 DEF Release
  <2>3. ToSet(<<n>>) \cap ToSet(free) = {} /\ open' = open \ ToSet(<<n>>)
        /\ open \cap ToSet(<<n>>) = {}
    BY <1>2, <1>4, <1>5
  <2>4. \A l \in open' : Nodes(l)' = Nodes(l) \ ToSet(<<n>>)
    BY <1>2, <1>4, <1>5, <2>1
  <2>5. \A d \in Contexts : HeldBy(d)' = HeldBy(d) \ ToSet(<<n>>)
    BY <1>3, <1>4, <1>5, <1>9, <1>10, OthersHold
  <2>6. QED
    BY <1>5, <1>6, <2>2, <2>3, <2>4, <2>5, PlacesRelease DEF IInv, DataInv
<1>14. CallInv(c)'
  BY <1>9, Returns
<1>15. \A d, e \in Contexts : d # e => PairInv(d, e)'
  BY <1>9, PairsQuiet DEF NoCall, Insertions
<1>16. \A d \in Contexts \ {c} : call[d].list = n => StillTrue(d)
  <2> SUFFICES ASSUME NEW d \in Contexts \ {c}, call[d].list = n PROVE StillTrue(d)
    OBVIOUS
  <2>1. CallInv(d)
    BY DEF IInv
  <2>2. QED
    BY <1>4, <2>1 DEF CallInv, StillTrue
<1>17. open' \subseteq Blocks /\ open' \ {n} = open \ {n} /\ n \notin open'
  BY <1>2, <1>4 DEF IInv, DataInv, ChainsInv
<1>18. QED
  BY <1>4, <1>9, <1>11, <1>12, <1>13, <1>14, <1>15, <1>16, <1>17, ListStep

(* TbxListClear and TbxListDelete: all nodes of list m, and with delete    *)
(* the list itself.                                                        *)
LEMMA Frees ==
  ASSUME IInv, NEW c \in Contexts, NEW m \in open, NEW blocks, ReleaseAll(c, m, blocks),
         \/ blocks = Chain(m) /\ open' = open
         \/ blocks = Append(Chain(m), m) /\ open' = open \ {m}
  PROVE  /\ pc[c] = "idle" /\ ControlTypes' /\ OthersWait(c) /\ pc'[c] = "idle" /\ call'[c] = NoCall
         /\ NodesType' /\ IsChain(m, Chain(m))' /\ Chain(m)' = <<>> /\ Nodes(m)' = {}
         /\ \A l \in open \ {m} : Untouched(l)
         /\ (\A l \in open \ {m} : Nodes(l)' = Nodes(l)) => PlaceInv'
<1>1. PICK s : s = Chain(m)
  OBVIOUS
<1>2. m \in Blocks /\ Nodes(m) = ToSet(s) /\ IsChain(m, s) /\ Nodes(m) \subseteq Blocks
  BY <1>1, NodesAreBlocks DEF IInv, DataInv, Nodes
<1>3. s \in Seq(Blocks) /\ IsInjective(s)
  BY <1>2 DEF IsChain
<1>4. /\ m \notin Nodes(m) /\ Nodes(m) \cap open = {} /\ Nodes(m) \cap ToSet(free) = {}
      /\ m \notin ToSet(free) /\ \A l \in open \ {m} : Nodes(l) \cap Nodes(m) = {} /\ m \notin Nodes(l)
      /\ \A d \in Contexts : m \notin HeldBy(d) /\ HeldBy(d) \cap Nodes(m) = {}
  BY DEF IInv, DataInv, PlaceInv
<1>5. /\ blocks \in Seq(Blocks) /\ IsInjective(blocks)
      /\ \/ ToSet(blocks) = Nodes(m) /\ open' = open
         \/ ToSet(blocks) = Nodes(m) \cup {m} /\ open' = open \ {m}
  <2>1. CASE blocks = Chain(m) /\ open' = open
    BY <1>1, <1>2, <1>3, <2>1
  <2>2. CASE blocks = Append(Chain(m), m) /\ open' = open \ {m}
    <3>1. /\ Append(s, m) \in Seq(Blocks) /\ IsInjective(Append(s, m))
          /\ ToSet(Append(s, m)) = ToSet(s) \cup {m}
      BY <1>2, <1>3, <1>4, AppendOne
    <3>2. QED
      BY <1>1, <1>2, <2>2, <3>1
  <2>3. QED
    BY <2>1, <2>2
<1>6. PICK M : M = ToSet(blocks)
  OBVIOUS
<1>7. /\ Nodes(m) \subseteq M /\ M \subseteq Nodes(m) \cup {m} /\ open' = open \ M
      /\ M \cap ToSet(free) = {}
  BY <1>4, <1>5, <1>6
<1>8. \A b \in M : Placed(b)
  BY <1>7 DEF Placed
<1>9. MayRelease(blocks)
  BY <1>5, <1>6, <1>7, <1>8, RoomToRelease DEF IInv, DataInv
<1>10. /\ pc[c] = "idle" /\ pc' = [pc EXCEPT ![c] = "idle"] /\ call' = [call EXCEPT ![c] = NoCall]
       /\ lists' = [lists EXCEPT ![m] = NewList] /\ Release(blocks)
       /\ memPoolsCreated' = memPoolsCreated /\ nodes' = nodes
  BY <1>9 DEF ReleaseAll, Finish, Goto, Empty
<1>11. ControlTypes' /\ OthersWait(c) /\ pc'[c] = "idle" /\ call'[c] = NoCall
  BY <1>10, Asks, NoCallType DEF IInv, ControlTypes, Locations
<1>12. /\ NodesType' /\ lists'[m] = NewList
       /\ \A l \in Blocks \ {m} : lists'[l] = lists[l]
       /\ \A b \in Blocks \ M : nodes'[b] = nodes[b]
  <2>1. NewList \in [first : Pointers, last : Pointers, count : 0 .. MaxBlocks]
    BY ListAssumption DEF NewList, Pointers, Null
  <2>2. lists' \in [Blocks -> [first : Pointers, last : Pointers, count : 0 .. MaxBlocks]]
    BY <1>10, <2>1 DEF IInv, DataInv, NodesType
  <2>3. QED
    BY <1>2, <1>10, <2>2 DEF IInv, DataInv, NodesType
<1>13. IsChain(m, <<>>)' /\ Chain(m)' = <<>>
  BY <1>2, <1>12, ChainEmpty
<1>14. IsChain(m, Chain(m))' /\ Nodes(m)' = {}
  BY <1>13 DEF Nodes, ToSet, IsChain, Linked
<1>15. \A l \in open \ {m} : Untouched(l)
  <2> SUFFICES ASSUME NEW l \in open \ {m} PROVE Untouched(l)
    OBVIOUS
  <2>1. l \in Blocks /\ Nodes(l) \subseteq Blocks
    BY NodesAreBlocks DEF IInv
  <2>2. Nodes(l) \cap M = {}
    BY <1>4, <1>7
  <2>3. QED
    BY <1>12, <2>1, <2>2 DEF Untouched
<1>16. ASSUME \A l \in open \ {m} : Nodes(l)' = Nodes(l) PROVE PlaceInv'
  <2>1. created' = created /\ free' = Reverse(blocks) \o free
    BY <1>10 DEF Release
  <2>2. /\ ToSet(blocks) \cap ToSet(free) = {} /\ open' = open \ ToSet(blocks)
        /\ \A b \in ToSet(blocks) : Placed(b)
    BY <1>6, <1>7, <1>8
  <2>3. \A l \in open \cap M : l = m
    BY <1>4, <1>7
  <2>4. \A l \in open \cap ToSet(blocks) : Nodes(l) \subseteq ToSet(blocks)
    BY <1>6, <1>7, <2>3
  <2>5. \A l \in open' : Nodes(l)' = Nodes(l) \ ToSet(blocks)
    <3> SUFFICES ASSUME NEW l \in open' PROVE Nodes(l)' = Nodes(l) \ M
      BY <1>6
    <3>1. CASE l = m
      BY <1>7, <1>14, <3>1
    <3>2. CASE l # m
      <4>1. l \in open \ {m}
        BY <1>7, <3>2
      <4>2. Nodes(l) \cap M = {}
        BY <1>4, <1>7, <4>1
      <4>3. QED
        BY <1>16, <4>1, <4>2
    <3>3. QED
      BY <3>1, <3>2
  <2>6. \A d \in Contexts : HeldBy(d)' = HeldBy(d) \ ToSet(blocks)
    <3>1. \A d \in Contexts : HeldBy(d) \cap M = {} /\ HeldBy(d)' = HeldBy(d)
      BY <1>4, <1>7, <1>10, <1>11, OthersHold, HoldsNothing
    <3>2. QED
      BY <1>6, <3>1
  <2>7. QED
    BY <1>5, <2>1, <2>2, <2>4, <2>5, <2>6, PlacesRelease DEF IInv, DataInv
<1>17. QED
  BY <1>10, <1>11, <1>12, <1>13, <1>14, <1>15, <1>16

(* Nobody has looked up a node of a list whose items may move. *)
LEMMA NobodyRefers ==
  ASSUME Contract, IInv, NEW c \in Contexts, NEW m, MayMove(c, m)
  PROVE  \A d \in Contexts \ {c} : call[d].list = m => ~Refers(d)
<1> SUFFICES ASSUME NEW d \in Contexts \ {c}, call[d].list = m, Refers(d) PROVE FALSE
  OBVIOUS
<1>1. call[d].ref # Null
  <2>1. m \in open /\ call[d].ref \in Nodes(m)
    BY DEF Refers, IInv, CallInv, Insertions
  <2>2. QED
    BY <2>1, NodesAreBlocks DEF IInv
<1>2. pc[d] # "release"
  BY DEF Refers, IInv, CallInv
<1>3. d \in LookedUp(c, m)
  BY <1>1, <1>2 DEF LookedUp, CallsOn
<1>4. QED
  BY <1>3 DEF MayMove, Contract

(* TbxListClear keeps the invariant: the calls that overlap with it have   *)
(* looked up no node of the list.                                          *)
LEMMA ClearStep ==
  ASSUME Contract, IInv, NEW c \in Contexts, NEW m \in open, Clear(c, m)
  PROVE  IInv'
<1>1. MayMove(c, m) /\ ReleaseAll(c, m, Chain(m)) /\ open' = open
  BY DEF Clear
<1>2. /\ ControlTypes' /\ OthersWait(c) /\ pc'[c] = "idle" /\ call'[c] = NoCall
      /\ NodesType' /\ IsChain(m, Chain(m))' /\ Nodes(m)' = {}
      /\ \A l \in open \ {m} : Untouched(l)
      /\ (\A l \in open \ {m} : Nodes(l)' = Nodes(l)) => PlaceInv'
  BY <1>1, Frees
<1>3. \A d \in Contexts \ {c} : call[d].list = m => StillTrue(d)
  <2>1. ItemSet(m)' = {}
    BY <1>2 DEF ItemSet
  <2>2. \A d \in Contexts \ {c} : call[d].list = m => ~Refers(d)
    BY <1>1, NobodyRefers
  <2>3. QED
    BY <1>1, <2>1, <2>2 DEF StillTrue
<1>4. CallInv(c)' /\ \A d, e \in Contexts : d # e => PairInv(d, e)'
  <2>1. CallInv(c)'
    BY <1>2, Returns
  <2>2. \A d, e \in Contexts : d # e => PairInv(d, e)'
    BY <1>2, PairsQuiet DEF NoCall, Insertions
  <2>3. QED
    BY <2>1, <2>2
<1>5. m \in Blocks /\ open' \subseteq Blocks /\ open' \ {m} = open \ {m}
  BY <1>1 DEF IInv, DataInv, ChainsInv
<1>6. \A b, d \in Nodes(m)' : /\ nodes'[b].item \in Items
                              /\ nodes'[b].item = nodes'[d].item => b = d
  BY <1>2
<1>7. QED
  BY <1>2, <1>3, <1>4, <1>5, <1>6, ListStep

(* TbxListDelete keeps the invariant: no call overlaps with it. *)
LEMMA DeleteStep ==
  ASSUME IInv, NEW c \in Contexts, NEW m \in open, Delete(c, m)
  PROVE  IInv'
<1>1. MayDelete(c, m) /\ ReleaseAll(c, m, Append(Chain(m), m)) /\ open' = open \ {m}
  BY DEF Delete
<1>2. /\ ControlTypes' /\ OthersWait(c) /\ pc'[c] = "idle" /\ call'[c] = NoCall
      /\ NodesType' /\ IsChain(m, Chain(m))' /\ Nodes(m)' = {}
      /\ \A l \in open \ {m} : Untouched(l)
      /\ (\A l \in open \ {m} : Nodes(l)' = Nodes(l)) => PlaceInv'
  BY <1>1, Frees
<1>3. \A d \in Contexts \ {c} : call[d].list = m => StillTrue(d)
  BY <1>1 DEF MayDelete, CallsOn
<1>4. CallInv(c)' /\ \A d, e \in Contexts : d # e => PairInv(d, e)'
  <2>1. CallInv(c)'
    BY <1>2, Returns
  <2>2. \A d, e \in Contexts : d # e => PairInv(d, e)'
    BY <1>2, PairsQuiet DEF NoCall, Insertions
  <2>3. QED
    BY <2>1, <2>2
<1>5. m \in Blocks /\ open' \subseteq Blocks /\ open' \ {m} = open \ {m} /\ m \notin open'
  BY <1>1 DEF IInv, DataInv, ChainsInv
<1>6. QED
  BY <1>2, <1>3, <1>4, <1>5, ListStep

-----------------------------------------------------------------------------
(* The items move to other nodes. *)

(* The items of a list in the order of its nodes, without repetitions. *)
LEMMA ItemsOfChain ==
  ASSUME NEW l, NEW s, s = Chain(l), IsChain(l, s),
         \A b \in Nodes(l) : nodes[b].item \in Items,
         \A b, d \in Nodes(l) : nodes[b].item = nodes[d].item => b = d
  PROVE  /\ ItemsOf(l) \in Seq(Items) /\ Len(ItemsOf(l)) = Len(s)
         /\ \A i \in 1 .. Len(s) : ItemsOf(l)[i] = nodes[s[i]].item
         /\ IsInjective(ItemsOf(l))
<1> DEFINE t == ItemsOf(l)
<1>1. /\ Len(s) \in Nat /\ DOMAIN s = 1 .. Len(s)
      /\ \A j \in 1 .. Len(s) : s[j] \in ToSet(s)
      /\ \A j, k \in 1 .. Len(s) : s[j] = s[k] => j = k
  BY ChainPositions
<1>2. ToSet(s) = Nodes(l)
  BY DEF Nodes
<1>3. t = [i \in 1 .. Len(s) |-> nodes[s[i]].item]
  BY <1>1 DEF ItemsOf
<1>4. \A i \in 1 .. Len(s) : nodes[s[i]].item \in Items
  BY <1>1, <1>2
<1> HIDE DEF t
<1>5. t \in Seq(Items) /\ Len(t) = Len(s) /\ \A i \in 1 .. Len(s) : t[i] = nodes[s[i]].item
  BY <1>1, <1>3, <1>4
<1>6. IsInjective(t)
  <2>1. \A j, k \in 1 .. Len(s) : t[j] = t[k] => s[j] = s[k]
    BY <1>1, <1>2, <1>5
  <2>2. \A j, k \in 1 .. Len(s) : t[j] = t[k] => j = k
    BY <1>1, <2>1
  <2>3. QED
    BY <1>5, <2>2 DEF IsInjective
<1>7. QED
  BY <1>5, <1>6 DEF t

(* Only items of m's nodes change, and the list keeps its items. *)
Rearranges(m) ==
  /\ NodesType' /\ IsChain(m, Chain(m))' /\ Chain(m)' = Chain(m) /\ Nodes(m)' = Nodes(m)
  /\ ItemSet(m)' = ItemSet(m)
  /\ \A b, d \in Nodes(m) : /\ nodes'[b].item \in Items
                            /\ nodes'[b].item = nodes'[d].item => b = d
  /\ \A b \in Blocks \ Nodes(m) : nodes'[b] = nodes[b]
  /\ lists' = lists

(* What has to be shown of a list whose nodes stay and whose items move. *)
LEMMA RearrangesFacts ==
  ASSUME NodesType', lists' = lists, NEW m \in Blocks, IsChain(m, Chain(m)),
         \A b \in Nodes(m) : nodes'[b].prev = nodes[b].prev /\ nodes'[b].next = nodes[b].next,
         \A b \in Blocks \ Nodes(m) : nodes'[b] = nodes[b],
         \A b, d \in Nodes(m) : /\ nodes'[b].item \in Items
                                /\ nodes'[b].item = nodes'[d].item => b = d,
         {nodes'[b].item : b \in Nodes(m)} = ItemSet(m)
  PROVE  Rearranges(m)
<1>1. PICK s : s = Chain(m)
  OBVIOUS
<1>2. IsChain(m, s) /\ Nodes(m) = ToSet(s)
  BY <1>1 DEF Nodes
<1>3. IsChain(m, s)' /\ Chain(m)' = s
  BY <1>2, ChainStays
<1>4. IsChain(m, Chain(m))'
  BY <1>3 DEF IsChain, Linked
<1>5. Chain(m)' = Chain(m) /\ Nodes(m)' = Nodes(m)
  BY <1>1, <1>3 DEF Nodes
<1>6. ItemSet(m)' = ItemSet(m)
  BY <1>5 DEF ItemSet
<1>7. QED
  BY <1>4, <1>5, <1>6 DEF Rearranges

(* Items may move to other nodes of their list while nobody has looked up  *)
(* one of them.                                                            *)
LEMMA RearrangeStep ==
  ASSUME Contract, IInv, NEW c \in Contexts, NEW m \in open, MayMove(c, m),
         pc[c] = "idle", pc' = pc, UNCHANGED <<memPoolsCreated, poolVars, call, open>>,
         Rearranges(m)
  PROVE  IInv'
<1>1. call[c] = NoCall
  BY DEF IInv, CallInv
<1>2. ControlTypes' /\ OthersWait(c) /\ pc'[c] = "idle" /\ call'[c] = NoCall
  BY <1>1 DEF IInv, ControlTypes, OthersWait
<1>3. CallInv(c)'
  BY <1>2, Returns
<1>4. \A d, e \in Contexts : d # e => PairInv(d, e)'
  BY <1>2, PairsQuiet DEF NoCall, Insertions
<1>5. m \in Blocks /\ open' \subseteq Blocks /\ open' \ {m} = open \ {m}
  BY DEF IInv, DataInv, ChainsInv
<1>6. /\ NodesType' /\ IsChain(m, Chain(m))' /\ Nodes(m)' = Nodes(m)
      /\ ItemSet(m)' = ItemSet(m)
      /\ \A b, d \in Nodes(m) : /\ nodes'[b].item \in Items
                                /\ nodes'[b].item = nodes'[d].item => b = d
      /\ \A b \in Blocks \ Nodes(m) : nodes'[b] = nodes[b]
      /\ lists' = lists
  BY DEF Rearranges
<1>7. \A l \in open \ {m} : Untouched(l)
  <2> SUFFICES ASSUME NEW l \in open \ {m} PROVE Untouched(l)
    OBVIOUS
  <2>1. Nodes(l) \subseteq Blocks
    BY NodesAreBlocks DEF IInv
  <2>2. Nodes(l) \cap Nodes(m) = {}
    BY DEF IInv, DataInv, PlaceInv
  <2>3. QED
    BY <1>6, <2>1, <2>2 DEF Untouched
<1>8. (\A l \in open \ {m} : Nodes(l)' = Nodes(l)) => PlaceInv'
  <2>1. \A d \in Contexts : HeldBy(d)' = HeldBy(d)
    BY DEF HeldBy
  <2>2. QED
    BY <1>6, <2>1, PlacesStay DEF IInv, DataInv
<1>9. \A d \in Contexts \ {c} : call[d].list = m => StillTrue(d)
  <2> SUFFICES ASSUME NEW d \in Contexts \ {c}, call[d].list = m PROVE StillTrue(d)
    OBVIOUS
  <2>1. CallInv(d)
    BY DEF IInv
  <2>2. ~Refers(d)
    BY NobodyRefers
  <2>3. call[d].op \in Insertions => call[d].item \notin ItemSet(m)
    BY <2>1 DEF CallInv
  <2>4. QED
    BY <1>6, <2>2, <2>3 DEF StillTrue
<1>10. \A b, d \in Nodes(m)' : /\ nodes'[b].item \in Items
                               /\ nodes'[b].item = nodes'[d].item => b = d
  BY <1>6
<1>11. QED
  BY <1>2, <1>3, <1>4, <1>5, <1>6, <1>7, <1>8, <1>9, <1>10, ListStep

(* TbxListSwapItems: the nodes of the two items, found one after the       *)
(* other, exchange them.                                                   *)
LEMMA Swaps ==
  ASSUME IInv, NEW c \in Contexts, NEW m \in open, Swap(c, m)
  PROVE  /\ Rearranges(m)
         /\ \E p, q \in Nodes(m) : \A b \in Nodes(m) :
              nodes'[b].item = IF b = q THEN nodes[p].item
                               ELSE IF b = p THEN nodes[q].item ELSE nodes[b].item
<1>1. PICK x \in ToSet(ItemsOf(m)), y \in ToSet(ItemsOf(m)) :
        nodes' = [nodes EXCEPT ![FindListNode(m, x)].item = y, ![FindListNode(m, y)].item = x]
  BY DEF Swap
<1>2. x \in ItemSet(m) /\ y \in ItemSet(m)
  BY ItemsAre
<1>3. PICK p \in Nodes(m) : p = FindListNode(m, x) /\ nodes[p].item = x /\ p \in Blocks /\ x \in Items
  BY <1>2, FindNode DEF IInv
<1>4. PICK q \in Nodes(m) : q = FindListNode(m, y) /\ nodes[q].item = y /\ q \in Blocks /\ y \in Items
  BY <1>2, FindNode DEF IInv
<1>5. nodes' = [nodes EXCEPT ![p].item = y, ![q].item = x] /\ lists' = lists
  BY <1>1, <1>3, <1>4 DEF Swap
<1>6. /\ NodesType' /\ NodesType
      /\ \A b \in Blocks : /\ nodes'[b].item = IF b = q THEN x ELSE IF b = p THEN y ELSE nodes[b].item
                           /\ nodes'[b].prev = nodes[b].prev /\ nodes'[b].next = nodes[b].next
                           /\ b \notin {p, q} => nodes'[b] = nodes[b]
  <2>1. \A b \in Blocks : nodes[b] \in [item : Items \cup {Null}, prev : Pointers, next : Pointers]
    BY DEF IInv, DataInv, NodesType
  <2>2. DOMAIN nodes = Blocks
    BY DEF IInv, DataInv, NodesType
  <2>3. nodes' = [b \in Blocks |-> IF b = q THEN [nodes[b] EXCEPT !.item = x]
                                   ELSE IF b = p THEN [nodes[b] EXCEPT !.item = y] ELSE nodes[b]]
    BY <1>3, <1>4, <1>5, <2>1, <2>2
  <2>4. ASSUME NEW b \in Blocks
        PROVE  /\ nodes'[b] \in [item : Items \cup {Null}, prev : Pointers, next : Pointers]
               /\ nodes'[b].item = IF b = q THEN x ELSE IF b = p THEN y ELSE nodes[b].item
               /\ nodes'[b].prev = nodes[b].prev /\ nodes'[b].next = nodes[b].next
               /\ b \notin {p, q} => nodes'[b] = nodes[b]
    <3>1. nodes'[b] = IF b = q THEN [nodes[b] EXCEPT !.item = x]
                      ELSE IF b = p THEN [nodes[b] EXCEPT !.item = y] ELSE nodes[b]
      BY <2>3
    <3>2. QED
      BY <1>3, <1>4, <2>1, <3>1
  <2>5. nodes' = [b \in Blocks |-> nodes'[b]]
    BY <2>3
  <2>6. nodes' \in [Blocks -> [item : Items \cup {Null}, prev : Pointers, next : Pointers]]
    BY <2>4, <2>5
  <2>7. QED
    BY <1>5, <2>4, <2>6 DEF IInv, DataInv, NodesType
<1>7. Nodes(m) \subseteq Blocks /\ m \in Blocks /\ IsChain(m, Chain(m))
  BY NodesAreBlocks DEF IInv
<1>8. \A b, d \in Nodes(m) : nodes[b].item \in Items /\ (nodes[b].item = nodes[d].item => b = d)
  BY DEF IInv, DataInv, ItemsInv
<1>9. \A b \in Nodes(m) : nodes'[b].item = IF b = q THEN nodes[p].item
                                           ELSE IF b = p THEN nodes[q].item ELSE nodes[b].item
  BY <1>3, <1>4, <1>6, <1>7
<1>10. \A b, d \in Nodes(m) : nodes'[b].item \in Items /\ (nodes'[b].item = nodes'[d].item => b = d)
  BY <1>3, <1>4, <1>8, <1>9
<1>11. {nodes'[b].item : b \in Nodes(m)} = ItemSet(m)
  <2>1. {nodes'[b].item : b \in Nodes(m)} \subseteq ItemSet(m)
    BY <1>3, <1>4, <1>9 DEF ItemSet
  <2>2. ASSUME NEW b \in Nodes(m) PROVE \E d \in Nodes(m) : nodes'[d].item = nodes[b].item
    <3>1. b \notin {p, q} => nodes'[b].item = nodes[b].item
      BY <1>9
    <3>2. nodes'[q].item = nodes[p].item /\ (p # q => nodes'[p].item = nodes[q].item)
      BY <1>9
    <3>3. QED
      BY <3>1, <3>2
  <2>3. QED
    BY <2>1, <2>2 DEF ItemSet
<1>12. Rearranges(m)
  <2>1. \A b \in Nodes(m) : nodes'[b].prev = nodes[b].prev /\ nodes'[b].next = nodes[b].next
    BY <1>6, <1>7
  <2>2. \A b \in Blocks \ Nodes(m) : nodes'[b] = nodes[b]
    BY <1>6
  <2>3. NodesType' /\ lists' = lists
    BY <1>5, <1>6
  <2>4. QED
    BY <1>7, <1>10, <1>11, <2>1, <2>2, <2>3, RearrangesFacts
<1>13. QED
  BY <1>9, <1>12

(* TbxListSwapItems keeps the invariant. *)
LEMMA SwapStep ==
  ASSUME Contract, IInv, NEW c \in Contexts, NEW m \in open, Swap(c, m)
  PROVE  IInv'
<1>1. /\ MayMove(c, m) /\ pc[c] = "idle" /\ pc' = pc
      /\ UNCHANGED <<memPoolsCreated, poolVars, call, open>>
  BY DEF Swap
<1>2. QED
  BY <1>1, Swaps, RearrangeStep

(* TbxListSortItems: its loops over the nodes do what the loops over the   *)
(* sequence of items do, and follow no NULL pointer since the list is not  *)
(* empty.                                                                  *)
LEMMA Sorts ==
  ASSUME Contract, IInv, NEW c \in Contexts, NEW m \in open, Sort(c, m)
  PROVE  /\ Rearranges(m) /\ pc[c] = "idle" /\ pc' = pc
         /\ ItemsOf(m) \in Seq(Items)
         /\ ItemsOf(m)' = SortLoops(ItemsOf(m))
<1>1. PICK s, t : s = Chain(m) /\ t = ItemsOf(m)
  OBVIOUS
<1>2. /\ m \in Blocks /\ IsChain(m, s) /\ Nodes(m) = ToSet(s) /\ Nodes(m) \subseteq Blocks
      /\ NodesType
  BY <1>1, NodesAreBlocks DEF IInv, DataInv, Nodes
<1>3. \A b, d \in Nodes(m) : nodes[b].item \in Items /\ (nodes[b].item = nodes[d].item => b = d)
  BY DEF IInv, DataInv, ItemsInv
<1>4. /\ t \in Seq(Items) /\ Len(t) = Len(s) /\ IsInjective(t)
      /\ \A i \in 1 .. Len(s) : t[i] = nodes[s[i]].item
  BY <1>1, <1>2, <1>3, ItemsOfChain
<1>5. PICK u : u = SortLoops(t)
  OBVIOUS
<1>6. u \in Seq(Items) /\ Len(u) = Len(s) /\ ToSet(u) = ToSet(t) /\ IsInjective(u)
  BY <1>4, <1>5, SortLoopsSort DEF Reorders
<1>7. /\ Len(s) \in Nat /\ DOMAIN s = 1 .. Len(s)
      /\ \A j \in 1 .. Len(s) : s[j] \in Blocks /\ s[j] \in ToSet(s)
      /\ \A j, k \in 1 .. Len(s) : s[j] = s[k] => j = k
      /\ \A b \in ToSet(s) : \E j \in 1 .. Len(s) : b = s[j]
  BY <1>2, ChainPositions
<1>8. /\ lists[m].first # Null /\ pc[c] = "idle" /\ pc' = [pc EXCEPT ![c] = "idle"] /\ lists' = lists
      /\ nodes' = [b \in Blocks |->
                     IF b \in ToSet(s)
                     THEN [nodes[b] EXCEPT !.item = u[CHOOSE i \in DOMAIN s : s[i] = b]]
                     ELSE nodes[b]]
  <2>1. lists[m].first # Null
    BY DEF Sort, Contract
  <2>2. nodes' = [b \in Blocks |->
                    IF b \in ToSet(Chain(m))
                    THEN [nodes[b] EXCEPT !.item =
                            SortLoops(ItemsOf(m))[CHOOSE i \in DOMAIN Chain(m) : Chain(m)[i] = b]]
                    ELSE nodes[b]]
    BY DEF Sort
  <2>3. pc[c] = "idle" /\ pc' = [pc EXCEPT ![c] = "idle"] /\ lists' = lists
    BY <2>1 DEF Sort, Goto
  <2>4. QED
    BY <1>1, <1>5, <2>1, <2>2, <2>3
<1>9. pc' = pc
  BY <1>8 DEF IInv, ControlTypes
<1>10. ASSUME NEW i \in 1 .. Len(s)
       PROVE  nodes'[s[i]] = [nodes[s[i]] EXCEPT !.item = u[i]]
  <2>1. (CHOOSE j \in DOMAIN s : s[j] = s[i]) = i
    BY <1>7
  <2>2. QED
    BY <1>7, <1>8, <2>1
<1>11. \A i \in 1 .. Len(s) : u[i] \in Items
  BY <1>6
<1>12. ASSUME NEW i \in 1 .. Len(s)
       PROVE  /\ nodes'[s[i]].item = u[i] /\ nodes'[s[i]].prev = nodes[s[i]].prev
              /\ nodes'[s[i]].next = nodes[s[i]].next
              /\ nodes'[s[i]] \in [item : Items \cup {Null}, prev : Pointers, next : Pointers]
  <2>1. nodes[s[i]] \in [item : Items \cup {Null}, prev : Pointers, next : Pointers]
    BY <1>2, <1>7 DEF NodesType
  <2>2. u[i] \in Items
    BY <1>11
  <2>3. QED
    BY <1>10, <2>1, <2>2
<1>13. \A b \in Blocks \ Nodes(m) : nodes'[b] = nodes[b]
  BY <1>2, <1>8
<1>14. NodesType'
  <2>1. \A b \in Blocks : nodes'[b] \in [item : Items \cup {Null}, prev : Pointers, next : Pointers]
    <3> SUFFICES ASSUME NEW b \in Blocks
                 PROVE  nodes'[b] \in [item : Items \cup {Null}, prev : Pointers, next : Pointers]
      OBVIOUS
    <3>1. CASE b \in ToSet(s)
      BY <1>7, <1>12, <3>1
    <3>2. CASE b \notin ToSet(s)
      BY <1>2, <1>13, <3>2 DEF NodesType
    <3>3. QED
      BY <3>1, <3>2
  <2>2. nodes' = [b \in Blocks |-> nodes'[b]]
    BY <1>8
  <2>3. nodes' \in [Blocks -> [item : Items \cup {Null}, prev : Pointers, next : Pointers]]
    BY <2>1, <2>2
  <2>4. QED
    BY <1>2, <1>8, <2>3 DEF NodesType
<1>15. \A b \in Nodes(m) : nodes'[b].prev = nodes[b].prev /\ nodes'[b].next = nodes[b].next
  BY <1>2, <1>7, <1>12
<1>16. \A b, d \in Nodes(m) : nodes'[b].item \in Items /\ (nodes'[b].item = nodes'[d].item => b = d)
  <2> SUFFICES ASSUME NEW b \in Nodes(m), NEW d \in Nodes(m)
               PROVE  nodes'[b].item \in Items /\ (nodes'[b].item = nodes'[d].item => b = d)
    OBVIOUS
  <2>1. PICK i \in 1 .. Len(s), j \in 1 .. Len(s) : b = s[i] /\ d = s[j]
    BY <1>2, <1>7
  <2>2. nodes'[b].item = u[i] /\ nodes'[d].item = u[j] /\ u[i] \in Items
    BY <1>11, <1>12, <2>1
  <2>3. u[i] = u[j] => i = j
    BY <1>6 DEF IsInjective
  <2>4. QED
    BY <2>1, <2>2, <2>3
<1>17. {nodes'[b].item : b \in Nodes(m)} = ItemSet(m)
  <2>1. ItemSet(m) = ToSet(t)
    BY <1>1, ItemsAre
  <2>2. \A b \in Nodes(m) : nodes'[b].item \in ToSet(u)
    <3> SUFFICES ASSUME NEW b \in Nodes(m) PROVE nodes'[b].item \in ToSet(u)
      OBVIOUS
    <3>1. PICK i \in 1 .. Len(s) : b = s[i]
      BY <1>2, <1>7
    <3>2. QED
      BY <1>6, <1>12, <3>1 DEF ToSet
  <2>3. \A x \in ToSet(u) : \E b \in Nodes(m) : nodes'[b].item = x
    <3> SUFFICES ASSUME NEW x \in ToSet(u) PROVE \E b \in Nodes(m) : nodes'[b].item = x
      OBVIOUS
    <3>1. PICK i \in 1 .. Len(s) : x = u[i]
      BY <1>6 DEF ToSet
    <3>2. s[i] \in Nodes(m) /\ nodes'[s[i]].item = x
      BY <1>2, <1>7, <1>12, <3>1
    <3>3. QED
      BY <3>2
  <2>4. QED
    BY <1>6, <2>1, <2>2, <2>3
<1>18. IsChain(m, Chain(m)) /\ lists' = lists
  BY <1>1, <1>2, <1>8
<1>19. Rearranges(m)
  BY <1>2, <1>13, <1>14, <1>15, <1>16, <1>17, <1>18, RearrangesFacts
<1>20. ItemsOf(m)' = u
  <2>1. Chain(m)' = s
    BY <1>1, <1>19 DEF Rearranges
  <2>2. ItemsOf(m)' = [i \in 1 .. Len(s) |-> nodes'[s[i]].item]
    BY <1>7, <2>1 DEF ItemsOf
  <2>3. \A i \in 1 .. Len(s) : nodes'[s[i]].item = u[i]
    BY <1>12
  <2>4. u = [i \in 1 .. Len(s) |-> u[i]]
    BY <1>6
  <2>5. QED
    BY <2>2, <2>3, <2>4
<1>21. QED
  BY <1>1, <1>4, <1>5, <1>8, <1>9, <1>19, <1>20

(* TbxListSortItems keeps the invariant. *)
LEMMA SortStep ==
  ASSUME Contract, IInv, NEW c \in Contexts, NEW m \in open, Sort(c, m)
  PROVE  IInv'
<1>1. MayMove(c, m) /\ UNCHANGED <<memPoolsCreated, poolVars, call, open>>
  BY DEF Sort
<1>2. pc[c] = "idle" /\ pc' = pc /\ Rearranges(m)
  BY Sorts
<1>3. QED
  BY <1>1, <1>2, RearrangeStep

-----------------------------------------------------------------------------
(* The inductive invariant. *)

(* Before the first call there is no list, no block and no call. *)
LEMMA InitIInv == Init => IInv
<1> SUFFICES ASSUME Init PROVE IInv
  OBVIOUS
<1> USE DEF Init
<1>1. 0 \in 0 .. MaxBlocks /\ Null \in Pointers /\ 1 .. 0 = {}
  BY ListAssumption DEF Pointers
<1>2. NodesType
  BY <1>1 DEF NodesType, NewNode, NewList, Null
<1>3. ControlTypes
  BY NoCallType DEF ControlTypes, Locations
<1>4. \A c \in Contexts : HeldBy(c) = {}
  BY HoldsNothing
<1>5. PlaceInv
  <2>1. \A b : ~Placed(b)
    BY <1>4 DEF Placed, ToSet
  <2>2. free \in Seq(Blocks) /\ IsInjective(free) /\ ToSet(free) = {}
    BY DEF IsInjective, ToSet
  <2>3. QED
    BY <1>1, <1>4, <2>1, <2>2 DEF PlaceInv
<1>6. ChainsInv /\ ItemsInv
  BY DEF ChainsInv, ItemsInv
<1>7. \A c \in Contexts : CallInv(c)
  BY DEF CallInv, NoCall, Insertions
<1>8. \A c, d \in Contexts : PairInv(c, d)
  BY DEF PairInv, NoCall, Insertions
<1>9. QED
  BY <1>2, <1>3, <1>5, <1>6, <1>7, <1>8 DEF IInv, DataInv

(* A step of c is one of these. *)
Step(c) ==
  \/ CreateCheck(c) \/ CreateFlag(c) \/ CreatePool1(c) \/ CreatePool2(c)
  \/ TakeBlock(c, "alloc") \/ TakeBlock(c, "again") \/ AllocFails(c) \/ GrowPool(c) \/ AgainFails(c)
  \/ CreateReturn(c)
  \/ InsertAtEnd(c) \/ InsertBeside(c) \/ LinkNode(c)
  \/ RemoveFind(c) \/ Unlink(c) \/ RemoveRelease(c)
  \/ \E l \in open : Clear(c, l) \/ Delete(c, l) \/ Swap(c, l) \/ Sort(c, l)

(* Next, with the steps of the allocation spelled out. *)
LEMMA Steps == Next <=> \E c \in Contexts : Step(c)
BY DEF Next, AllocBlock, Step

(* Every step of every context keeps the invariant. *)
LEMMA StepIInv ==
  ASSUME Contract, IInv, NEW c \in Contexts, Step(c)
  PROVE  IInv'
<1>1. CASE CreateCheck(c)
  BY <1>1, CreateCheckStep
<1>2. CASE CreateFlag(c)
  BY <1>2, CreateFlagStep
<1>3. CASE CreatePool1(c)
  BY <1>3, CreatePool1Step
<1>4. CASE CreatePool2(c)
  BY <1>4, CreatePool2Step
<1>5. CASE TakeBlock(c, "alloc") \/ TakeBlock(c, "again")
  BY <1>5, TakeBlockStep
<1>6. CASE AllocFails(c)
  BY <1>6, AllocFailsStep
<1>7. CASE GrowPool(c)
  BY <1>7, GrowPoolStep
<1>8. CASE AgainFails(c)
  BY <1>8, AgainFailsStep
<1>9. CASE CreateReturn(c)
  BY <1>9, CreateReturnStep
<1>10. CASE InsertAtEnd(c)
  BY <1>10, InsertAtEndStep
<1>11. CASE InsertBeside(c)
  BY <1>11, InsertBesideStep
<1>12. CASE LinkNode(c)
  BY <1>12, LinkNodeStep
<1>13. CASE RemoveFind(c)
  BY <1>13, RemoveFindStep
<1>14. CASE Unlink(c)
  BY <1>14, UnlinkStep
<1>15. CASE RemoveRelease(c)
  BY <1>15, RemoveReleaseStep
<1>16. ASSUME NEW l \in open, Clear(c, l) PROVE IInv'
  BY <1>16, ClearStep
<1>17. ASSUME NEW l \in open, Delete(c, l) PROVE IInv'
  BY <1>17, DeleteStep
<1>18. ASSUME NEW l \in open, Swap(c, l) PROVE IInv'
  BY <1>18, SwapStep
<1>19. ASSUME NEW l \in open, Sort(c, l) PROVE IInv'
  BY <1>19, SortStep
<1>20. QED
  BY <1>1, <1>2, <1>3, <1>4, <1>5, <1>6, <1>7, <1>8, <1>9, <1>10, <1>11, <1>12, <1>13,
     <1>14, <1>15, <1>16, <1>17, <1>18, <1>19 DEF Step

(* The invariant is about these variables only. *)
LEMMA StutterIInv ==
  ASSUME IInv, UNCHANGED vars
  PROVE  IInv'
<1> USE DEF vars, poolVars
<1>1. /\ \A l : Chain(l)' = Chain(l) /\ Nodes(l)' = Nodes(l) /\ ItemSet(l)' = ItemSet(l)
      /\ \A c \in Contexts : HeldBy(c)' = HeldBy(c)
  BY DEF Chain, Nodes, ItemSet, HeldBy
<1>2. NodesType' /\ ControlTypes'
  BY DEF IInv, DataInv, NodesType, ControlTypes
<1>3. PlaceInv'
  BY <1>1, PlacesStay DEF IInv, DataInv
<1>4. ChainsInv'
  <2>1. \A l, s : IsChain(l, s)' <=> IsChain(l, s)
    BY DEF IsChain, Linked
  <2>2. QED
    BY <1>1, <2>1 DEF IInv, DataInv, ChainsInv
<1>5. ItemsInv'
  BY <1>1 DEF IInv, DataInv, ItemsInv
<1>6. \A c \in Contexts : CallInv(c)'
  BY <1>1 DEF IInv, CallInv
<1>7. \A c, d \in Contexts : c # d => PairInv(c, d)'
  BY DEF IInv, PairInv
<1>8. QED
  BY <1>2, <1>3, <1>4, <1>5, <1>6, <1>7 DEF IInv, DataInv

(* The invariant of tbx_list.c: however the calls overlap, each list is a  *)
(* doubly linked chain of distinct items, each block is in one place, and  *)
(* what a call has looked up in an earlier critical section is still there *)
(* when it uses it.                                                        *)
THEOREM Inductive ==
  ASSUME Contract
  PROVE  Spec => []IInv
<1>1. Init => IInv
  BY InitIInv
<1>2. IInv /\ [Next]_vars => IInv'
  <2> SUFFICES ASSUME IInv, [Next]_vars PROVE IInv'
    OBVIOUS
  <2>1. CASE Next
    BY <2>1, Steps, StepIInv
  <2>2. CASE UNCHANGED vars
    BY <2>2, StutterIInv
  <2>3. QED
    BY <2>1, <2>2
<1>3. QED
  BY <1>1, <1>2, PTL DEF Spec

(* The variables have their types; in particular, no count and no pool     *)
(* leaves its range.                                                       *)
THEOREM TypeCorrect ==
  ASSUME Contract
  PROVE  Spec => []TypeOK
<1>1. IInv => TypeOK
  BY DEF IInv, DataInv, NodesType, ControlTypes, PlaceInv, ChainsInv, Calls, TypeOK
<1>2. QED
  BY <1>1, Inductive, PTL

(* No assertion of tbx_list.c fails, nor that of TbxMemPoolRelease, and no *)
(* NULL pointer is followed.                                               *)
THEOREM NothingFails ==
  ASSUME Contract
  PROVE  Spec => []NoFault
<1>1. IInv => NoFault
  BY DEF IInv, CallInv, NoFault
<1>2. QED
  BY <1>1, Inductive, PTL

(* No block is lost, none is in two places and none is released twice,     *)
(* whatever is inserted, removed, cleared and deleted concurrently.        *)
THEOREM BlocksAreConserved ==
  ASSUME Contract
  PROVE  Spec => []BlocksConserved
<1>1. ASSUME IInv PROVE BlocksConserved
  <2> DEFINE chains == [l \in open |-> ToSet(Chain(l))]
             linked == UNION {chains[l] : l \in open}
             held == UNION {HeldBy(c) : c \in Contexts}
             used == linked \cup open \cup held
  <2>1. PlaceInv
    BY <1>1 DEF IInv, DataInv
  <2>2. \A l \in open : chains[l] = Nodes(l)
    BY DEF Nodes
  <2> HIDE DEF chains
  <2>9. ASSUME NEW b
        PROVE  b \in used <=> \/ b \in open
                              \/ \E l \in open : b \in Nodes(l)
                              \/ \E c \in Contexts : b \in HeldBy(c)
    <3>1. b \in linked <=> \E l \in open : b \in Nodes(l)
      BY <2>2
    <3>2. b \in held <=> \E c \in Contexts : b \in HeldBy(c)
      OBVIOUS
    <3> HIDE DEF held, linked
    <3>3. QED
      BY <3>1, <3>2
  <2> HIDE DEF used
  <2>3. \A b : b \in ToSet(free) \cup used <=> Placed(b)
    BY <2>9 DEF Placed
  <2>4. ToSet(free) \cap used = {}
    BY <2>1, <2>9 DEF PlaceInv
  <2>5. /\ \A l, m \in open : m \notin chains[l] /\ (l # m => chains[l] \cap chains[m] = {})
        /\ \A c \in Contexts : HeldBy(c) \cap (open \cup UNION {chains[l] : l \in open}) = {}
        /\ \A c, d \in Contexts : c # d => HeldBy(c) \cap HeldBy(d) = {}
    BY <2>1, <2>2 DEF PlaceInv
  <2>6. ToSet(free) \cup used = 1 .. created
    BY <2>1, <2>3 DEF PlaceInv
  <2>7. Len(free) + Cardinality(used) = created
    <3>1. created \in Nat /\ IsFiniteSet(1 .. created) /\ Cardinality(1 .. created) = created
      BY <2>1, FS_Interval DEF PlaceInv
    <3>2. IsFiniteSet(ToSet(free)) /\ Cardinality(ToSet(free)) = Len(free)
      BY <2>1, InjectiveLength DEF PlaceInv
    <3>3. IsFiniteSet(used) /\ Cardinality(used) \in Nat
      BY <2>6, <3>1, FS_Subset, FS_CardinalityType
    <3>4. Cardinality(ToSet(free) \cup used)
            = Cardinality(ToSet(free)) + Cardinality(used) - Cardinality(ToSet(free) \cap used)
      BY <3>2, <3>3, FS_Union
    <3>5. Cardinality(ToSet(free) \cap used) = 0
      BY <2>4, FS_EmptySet
    <3>6. Len(free) \in Nat
      BY <2>1 DEF PlaceInv
    <3>7. created = Len(free) + Cardinality(used) - 0
      BY <2>6, <3>1, <3>2, <3>4, <3>5
    <3>8. QED
      BY <3>1, <3>3, <3>6, <3>7
  <2>8. QED
    BY <2>4, <2>5, <2>6, <2>7 DEF BlocksConserved, used, chains, held, linked
<1>2. QED
  BY <1>1, Inductive, PTL

(* What an open list looks like. *)
LEMMA OpenList ==
  ASSUME IInv, NEW l \in open, NEW s, s = Chain(l), NEW t, t = ItemsOf(l)
  PROVE  /\ l \in Blocks /\ IsChain(l, s) /\ Nodes(l) = ToSet(s) /\ NodesType
         /\ Len(s) \in Nat /\ DOMAIN s = 1 .. Len(s) /\ (s = <<>> <=> Len(s) = 0)
         /\ \A i \in 1 .. Len(s) : s[i] \in Blocks /\ s[i] \in Nodes(l)
         /\ \A i, j \in 1 .. Len(s) : s[i] = s[j] => i = j
         /\ \A b \in Nodes(l) : \E i \in 1 .. Len(s) : b = s[i]
         /\ t \in Seq(Items) /\ Len(t) = Len(s) /\ DOMAIN t = 1 .. Len(s)
         /\ \A i \in 1 .. Len(s) : t[i] = nodes[s[i]].item
         /\ \A i, j \in 1 .. Len(s) : t[i] = t[j] => i = j
<1>1. l \in Blocks /\ IsChain(l, s) /\ Nodes(l) = ToSet(s) /\ NodesType
  BY NodesAreBlocks DEF IInv, DataInv, Nodes
<1>2. \A b, d \in Nodes(l) : nodes[b].item \in Items /\ (nodes[b].item = nodes[d].item => b = d)
  BY DEF IInv, DataInv, ItemsInv
<1>3. /\ t \in Seq(Items) /\ Len(t) = Len(s) /\ IsInjective(t)
      /\ \A i \in 1 .. Len(s) : t[i] = nodes[s[i]].item
  BY <1>1, <1>2, ItemsOfChain
<1>4. /\ Len(s) \in Nat /\ DOMAIN s = 1 .. Len(s) /\ (s = <<>> <=> Len(s) = 0)
      /\ \A i \in 1 .. Len(s) : s[i] \in Blocks /\ s[i] \in Nodes(l)
      /\ \A i, j \in 1 .. Len(s) : s[i] = s[j] => i = j
      /\ \A b \in Nodes(l) : \E i \in 1 .. Len(s) : b = s[i]
  BY <1>1, ChainPositions
<1>5. DOMAIN t = 1 .. Len(s) /\ \A i, j \in 1 .. Len(s) : t[i] = t[j] => i = j
  BY <1>3 DEF IsInjective
<1>6. QED
  BY <1>1, <1>3, <1>4, <1>5

(* TbxListGetSize, TbxListGetFirstItem, TbxListGetLastItem,                *)
(* TbxListGetPreviousItem and TbxListGetNextItem always tell the same      *)
(* story: the list read forward is the list read backward, and as long as  *)
(* the count says.                                                         *)
THEOREM ReadsAlwaysAgree ==
  ASSUME Contract
  PROVE  Spec => []ReadsAgree
<1>1. ASSUME IInv PROVE ReadsAgree
  <2> SUFFICES ASSUME NEW l \in open, NEW t, t = ItemsOf(l)
               PROVE  /\ GetSize(l) = Len(t)
                      /\ GetFirstItem(l) = IF Len(t) = 0 THEN Null ELSE t[1]
                      /\ GetLastItem(l) = IF Len(t) = 0 THEN Null ELSE t[Len(t)]
                      /\ \A i \in 1 .. Len(t) :
                           /\ GetPreviousItem(l, t[i]) = IF i = 1 THEN Null ELSE t[i - 1]
                           /\ GetNextItem(l, t[i]) = IF i = Len(t) THEN Null ELSE t[i + 1]
    BY DEF ReadsAgree
  <2>1. PICK s : s = Chain(l)
    OBVIOUS
  <2>2. /\ l \in Blocks /\ IsChain(l, s) /\ Nodes(l) = ToSet(s) /\ NodesType
        /\ Len(s) \in Nat /\ DOMAIN s = 1 .. Len(s) /\ (s = <<>> <=> Len(s) = 0)
        /\ \A i \in 1 .. Len(s) : s[i] \in Blocks /\ s[i] \in Nodes(l)
        /\ \A i, j \in 1 .. Len(s) : s[i] = s[j] => i = j
        /\ \A b \in Nodes(l) : \E i \in 1 .. Len(s) : b = s[i]
        /\ t \in Seq(Items) /\ Len(t) = Len(s) /\ DOMAIN t = 1 .. Len(s)
        /\ \A i \in 1 .. Len(s) : t[i] = nodes[s[i]].item
        /\ \A i, j \in 1 .. Len(s) : t[i] = t[j] => i = j
    BY <1>1, <2>1, OpenList
  <2>3. Null \notin Blocks
    BY DEF Null, Blocks
  <2>4. \A i \in 1 .. Len(s) : ItemAt(s[i]) = t[i]
    BY <2>2, <2>3 DEF ItemAt
  <2>5. ItemAt(Null) = Null
    BY DEF ItemAt
  <2>6. /\ lists[l].first = IF s = <<>> THEN Null ELSE s[1]
        /\ lists[l].last = IF s = <<>> THEN Null ELSE s[Len(s)]
        /\ lists[l].count = Len(s) /\ Linked(s)
    BY <2>2 DEF IsChain
  <2>7. Len(s) # 0 => 1 \in 1 .. Len(s) /\ Len(s) \in 1 .. Len(s)
    BY <2>2
  <2>8. /\ GetSize(l) = Len(t)
        /\ GetFirstItem(l) = IF Len(t) = 0 THEN Null ELSE t[1]
        /\ GetLastItem(l) = IF Len(t) = 0 THEN Null ELSE t[Len(t)]
    BY <2>2, <2>4, <2>5, <2>6, <2>7 DEF GetSize, GetFirstItem, GetLastItem
  <2>9. ASSUME NEW i \in 1 .. Len(t)
        PROVE  /\ GetPreviousItem(l, t[i]) = IF i = 1 THEN Null ELSE t[i - 1]
               /\ GetNextItem(l, t[i]) = IF i = Len(t) THEN Null ELSE t[i + 1]
    <3>1. i \in 1 .. Len(s) /\ Len(t) = Len(s) /\ Len(s) \in Nat
      BY <2>2
    <3>2. FindListNode(l, t[i]) = s[i]
      <4>1. t[i] \in ItemSet(l)
        BY <2>2, <3>1 DEF ItemSet
      <4>2. /\ FindListNode(l, t[i]) \in Nodes(l)
            /\ nodes[FindListNode(l, t[i])].item = t[i]
        BY <1>1, <4>1, FindNode DEF IInv
      <4>3. PICK j \in 1 .. Len(s) : FindListNode(l, t[i]) = s[j]
        <5>1. \A b \in Nodes(l) : \E j \in 1 .. Len(s) : b = s[j]
          BY <2>2
        <5>2. QED
          BY <4>2, <5>1
      <4>4. t[j] = t[i]
        <5>1. t[j] = nodes[s[j]].item
          BY <2>2
        <5>2. QED
          BY <4>2, <4>3, <5>1
      <4>5. QED
        BY <2>2, <3>1, <4>3, <4>4
    <3>3. /\ nodes[s[i]].prev = IF i = 1 THEN Null ELSE s[i - 1]
          /\ nodes[s[i]].next = IF i = Len(s) THEN Null ELSE s[i + 1]
      BY <2>2, <2>6, <3>1 DEF Linked
    <3>4. (i # 1 => i - 1 \in 1 .. Len(s)) /\ (i # Len(s) => i + 1 \in 1 .. Len(s))
      BY <3>1
    <3>5. s[i] # Null
      BY <2>2, <2>3, <3>1
    <3>6. /\ GetPreviousItem(l, t[i]) = ItemAt(nodes[s[i]].prev)
          /\ GetNextItem(l, t[i]) = ItemAt(nodes[s[i]].next)
      BY <3>2, <3>5 DEF GetPreviousItem, GetNextItem
    <3>7. QED
      BY <2>4, <2>5, <3>1, <3>3, <3>4, <3>6
  <2>10. QED
    BY <2>8, <2>9
<1>2. QED
  BY <1>1, Inductive, PTL

-----------------------------------------------------------------------------
(* What a step does to the sequences of items. *)

Elsewhere(m) == \A l \in open \ {m} : ItemsOf(l)' = ItemsOf(l)

(* The same nodes with the same items: the same sequence. *)
LEMMA SameItems ==
  ASSUME NEW l, Same(l)
  PROVE  ItemsOf(l)' = ItemsOf(l)
<1>1. PICK s : s = Chain(l)
  OBVIOUS
<1>2. Chain(l)' = s /\ \A i \in DOMAIN s : nodes'[s[i]] = nodes[s[i]]
  BY <1>1 DEF Same, Nodes, ToSet
<1>3. ItemsOf(l)' = [i \in DOMAIN s |-> nodes'[s[i]].item]
  BY <1>2 DEF ItemsOf
<1>4. ItemsOf(l) = [i \in DOMAIN s |-> nodes[s[i]].item]
  BY <1>1 DEF ItemsOf
<1>5. QED
  BY <1>2, <1>3, <1>4

(* Nodes of list m, and blocks in no list, are all that change. *)
LEMMA OnlyOne ==
  ASSUME DataInv, NodesType', NEW m,
         \A l \in open \ {m} : lists'[l] = lists[l],
         NEW B, \A l \in open \ {m} : Nodes(l) \cap B = {},
         \A b \in Blocks \ B : nodes'[b] = nodes[b]
  PROVE  Elsewhere(m)
<1> SUFFICES ASSUME NEW l \in open \ {m} PROVE ItemsOf(l)' = ItemsOf(l)
  BY DEF Elsewhere
<1>1. Nodes(l) \subseteq Blocks
  BY NodesAreBlocks
<1>2. Untouched(l)
  BY <1>1 DEF Untouched
<1>3. Same(l)
  BY <1>2, UntouchedIsSame
<1>4. QED
  BY <1>3, SameItems

(* The item of a new node comes to the position of the node. *)
LEMMA GrowsItems ==
  ASSUME IInv, NEW m \in open, NEW i, i \in 1 .. Len(Chain(m)) + 1,
         NEW n \in Blocks, n \notin Nodes(m), NEW x \in Items, Grown(m, i, n, x)
  PROVE  ItemsOf(m)' = InsertAt(ItemsOf(m), i, x)
<1>1. PICK s, t : s = Chain(m) /\ t = ItemsOf(m)
  OBVIOUS
<1>2. /\ s \in Seq(Blocks) /\ t \in Seq(Items) /\ Len(t) = Len(s) /\ Len(s) \in Nat
      /\ i \in 1 .. Len(s) + 1
      /\ \A j \in 1 .. Len(s) : s[j] \in Blocks \ {n} /\ t[j] = nodes[s[j]].item
  BY <1>1, OpenList DEF IsChain
<1>3. PICK u, v : u = InsertAt(s, i, n) /\ v = InsertAt(t, i, x)
  OBVIOUS
<1>4. /\ u \in Seq(Blocks) /\ Len(u) = Len(s) + 1
      /\ \A k \in 1 .. Len(s) + 1 : u[k] = IF k < i THEN s[k] ELSE IF k = i THEN n ELSE s[k - 1]
  <2>1. s \in Seq(Blocks) /\ i \in 1 .. Len(s) + 1
    BY <1>2
  <2>2. /\ InsertAt(s, i, n) \in Seq(Blocks) /\ Len(InsertAt(s, i, n)) = Len(s) + 1
        /\ \A k \in 1 .. Len(s) + 1 :
             InsertAt(s, i, n)[k] = IF k < i THEN s[k] ELSE IF k = i THEN n ELSE s[k - 1]
    BY <2>1, InsertElements
  <2>3. QED
    BY <2>2, <1>3
<1>5. /\ v \in Seq(Items) /\ Len(v) = Len(s) + 1
      /\ \A k \in 1 .. Len(s) + 1 : v[k] = IF k < i THEN t[k] ELSE IF k = i THEN x ELSE t[k - 1]
  <2>1. t \in Seq(Items) /\ i \in 1 .. Len(t) + 1
    BY <1>2
  <2>2. /\ InsertAt(t, i, x) \in Seq(Items) /\ Len(InsertAt(t, i, x)) = Len(t) + 1
        /\ \A k \in 1 .. Len(t) + 1 :
             InsertAt(t, i, x)[k] = IF k < i THEN t[k] ELSE IF k = i THEN x ELSE t[k - 1]
    BY <2>1, InsertElements
  <2>3. Len(t) = Len(s)
    BY <1>2
  <2>4. QED
    BY <2>2, <2>3, <1>3
<1>6. /\ Chain(m)' = u /\ nodes'[n].item = x
      /\ \A b \in Blocks \ {n} : nodes'[b].item = nodes[b].item
  BY <1>1, <1>3 DEF Grown
<1>7. ItemsOf(m)' = [k \in 1 .. Len(s) + 1 |-> nodes'[u[k]].item]
  <2>1. DOMAIN u = 1 .. Len(s) + 1
    BY <1>4
  <2>2. QED
    BY <1>6, <2>1 DEF ItemsOf
<1>8. ASSUME NEW k \in 1 .. Len(s) + 1 PROVE nodes'[u[k]].item = v[k]
  <2>1. CASE k < i
    <3>1. k \in 1 .. Len(s)
      BY <1>2, <2>1
    <3>2. u[k] = s[k] /\ v[k] = t[k]
      BY <1>4, <1>5, <2>1
    <3>3. QED
      BY <1>2, <1>6, <3>1, <3>2
  <2>2. CASE k = i
    BY <1>2, <1>4, <1>5, <1>6, <2>2
  <2>3. CASE k > i
    <3>1. k - 1 \in 1 .. Len(s) /\ ~(k < i) /\ k # i
      BY <1>2, <2>3
    <3>2. u[k] = s[k - 1] /\ v[k] = t[k - 1]
      BY <1>4, <1>5, <3>1
    <3>3. QED
      BY <1>2, <1>6, <3>1, <3>2
  <2>4. QED
    BY <1>2, <2>1, <2>2, <2>3
<1>9. v = [k \in 1 .. Len(s) + 1 |-> v[k]]
  BY <1>5
<1>10. QED
  BY <1>1, <1>3, <1>7, <1>8, <1>9

(* With a node its item goes. *)
LEMMA ShrinksItems ==
  ASSUME IInv, NEW m \in open, NEW i, NEW n, Shrunk(m, i, n)
  PROVE  i \in DOMAIN ItemsOf(m) /\ ItemsOf(m)' = RemoveAt(ItemsOf(m), i)
<1>1. PICK s, t : s = Chain(m) /\ t = ItemsOf(m)
  OBVIOUS
<1>2. /\ s \in Seq(Blocks) /\ t \in Seq(Items) /\ Len(t) = Len(s) /\ Len(s) \in Nat
      /\ DOMAIN s = 1 .. Len(s) /\ DOMAIN t = 1 .. Len(s)
      /\ \A j \in 1 .. Len(s) : s[j] \in Blocks /\ t[j] = nodes[s[j]].item
  BY <1>1, OpenList DEF IsChain
<1>3. i \in 1 .. Len(s)
  BY <1>1, <1>2 DEF Shrunk
<1>4. PICK u, v : u = RemoveAt(s, i) /\ v = RemoveAt(t, i)
  BY Zenon
<1>5. /\ u \in Seq(Blocks) /\ Len(u) = Len(s) - 1
      /\ \A k \in 1 .. Len(s) - 1 : u[k] = IF k < i THEN s[k] ELSE s[k + 1]
  <2>1. s \in Seq(Blocks) /\ i \in 1 .. Len(s) /\ Len(s) = Len(s)
    BY <1>2, <1>3
  <2>2. /\ RemoveAt(s, i) \in Seq(Blocks) /\ Len(RemoveAt(s, i)) = Len(s) - 1
        /\ \A k \in 1 .. Len(s) - 1 : RemoveAt(s, i)[k] = IF k < i THEN s[k] ELSE s[k + 1]
    BY <2>1, RemoveElements
  <2>3. QED
    BY <2>1, <2>2, <1>4
<1>6. /\ v \in Seq(Items) /\ Len(v) = Len(s) - 1
      /\ \A k \in 1 .. Len(s) - 1 : v[k] = IF k < i THEN t[k] ELSE t[k + 1]
  <2>1. t \in Seq(Items) /\ i \in 1 .. Len(t) /\ Len(t) = Len(s)
    BY <1>2, <1>3
  <2>2. /\ RemoveAt(t, i) \in Seq(Items) /\ Len(RemoveAt(t, i)) = Len(t) - 1
        /\ \A k \in 1 .. Len(t) - 1 : RemoveAt(t, i)[k] = IF k < i THEN t[k] ELSE t[k + 1]
    BY <2>1, RemoveElements
  <2>3. QED
    BY <2>1, <2>2, <1>4
<1>7. Chain(m)' = u /\ \A b \in Blocks : nodes'[b].item = nodes[b].item
  BY <1>1, <1>4 DEF Shrunk
<1>8. ItemsOf(m)' = [k \in 1 .. Len(s) - 1 |-> nodes'[u[k]].item]
  <2>1. DOMAIN u = 1 .. Len(s) - 1
    BY <1>5
  <2>2. QED
    BY <1>7, <2>1 DEF ItemsOf
<1>9. ASSUME NEW k \in 1 .. Len(s) - 1 PROVE nodes'[u[k]].item = v[k]
  <2>1. k \in 1 .. Len(s) /\ k + 1 \in 1 .. Len(s)
    BY <1>2
  <2>2. PICK j \in 1 .. Len(s) : u[k] = s[j] /\ v[k] = t[j]
    BY <1>5, <1>6, <2>1
  <2>3. QED
    BY <1>2, <1>7, <2>2
<1>10. v = [k \in 1 .. Len(s) - 1 |-> v[k]]
  BY <1>6
<1>11. QED
  BY <1>1, <1>2, <1>3, <1>4, <1>8, <1>9, <1>10

(* Two nodes exchange their items. *)
LEMMA SwapsItems ==
  ASSUME IInv, NEW c \in Contexts, NEW m \in open, Swap(c, m)
  PROVE  \E i, j \in DOMAIN ItemsOf(m) :
           ItemsOf(m)' = [ItemsOf(m) EXCEPT ![i] = ItemsOf(m)[j], ![j] = ItemsOf(m)[i]]
<1>1. PICK s, t : s = Chain(m) /\ t = ItemsOf(m)
  OBVIOUS
<1>2. /\ Nodes(m) = ToSet(s) /\ t \in Seq(Items) /\ Len(t) = Len(s) /\ Len(s) \in Nat
      /\ DOMAIN s = 1 .. Len(s) /\ DOMAIN t = 1 .. Len(s)
      /\ \A j \in 1 .. Len(s) : s[j] \in Nodes(m) /\ t[j] = nodes[s[j]].item
      /\ \A j, k \in 1 .. Len(s) : s[j] = s[k] => j = k
      /\ \A b \in Nodes(m) : \E j \in 1 .. Len(s) : b = s[j]
  BY <1>1, OpenList
<1>3. Chain(m)' = s
  BY <1>1, Swaps DEF Rearranges
<1>4. PICK p \in Nodes(m), q \in Nodes(m) : \A b \in Nodes(m) :
        nodes'[b].item = IF b = q THEN nodes[p].item
                         ELSE IF b = p THEN nodes[q].item ELSE nodes[b].item
  BY Swaps
<1>5. PICK i \in 1 .. Len(s), j \in 1 .. Len(s) : p = s[i] /\ q = s[j]
  BY <1>2
<1>6. ItemsOf(m)' = [k \in 1 .. Len(s) |-> nodes'[s[k]].item]
  BY <1>2, <1>3 DEF ItemsOf
<1>7. PICK u : u = [t EXCEPT ![i] = t[j], ![j] = t[i]]
  OBVIOUS
<1>8. /\ u = [k \in 1 .. Len(s) |-> u[k]]
      /\ \A k \in 1 .. Len(s) : u[k] = IF k = j THEN t[i] ELSE IF k = i THEN t[j] ELSE t[k]
  BY <1>2, <1>7
<1>9. \A k \in 1 .. Len(s) : nodes'[s[k]].item = u[k]
  BY <1>2, <1>4, <1>5, <1>8
<1>10. ItemsOf(m)' = u
  BY <1>6, <1>8, <1>9
<1>11. i \in DOMAIN t /\ j \in DOMAIN t /\ ItemsOf(m)' = [t EXCEPT ![i] = t[j], ![j] = t[i]]
  BY <1>2, <1>7, <1>10
<1>12. QED
  BY <1>1, <1>11

-----------------------------------------------------------------------------
(* The refinement: what each step is for the sequences. *)

(* A step that gives list m other items and leaves the other lists alone   *)
(* is one of the abstract list.                                            *)
LEMMA BecomeStep ==
  ASSUME open' = open, NEW m \in open, Elsewhere(m), NEW s, ItemsOf(m)' = s
  PROVE  Abstract!Become(m, s)
<1>1. [l \in open |-> ItemsOf(l)]' = [l \in open |-> ItemsOf(l)']
  OBVIOUS
<1>2. [l \in open |-> ItemsOf(l)'] = [[l \in open |-> ItemsOf(l)] EXCEPT ![m] = s]
  BY DEF Elsewhere
<1>3. QED
  BY <1>1, <1>2 DEF Abstract!Become

(* A step that leaves every list alone is none of the abstract lists. *)
LEMMA QuietStep ==
  ASSUME open' = open, \A l \in open : ItemsOf(l)' = ItemsOf(l)
  PROVE  [l \in open |-> ItemsOf(l)]' = [l \in open |-> ItemsOf(l)]
OBVIOUS

(* What a call does before it links or unlinks its node, and after that,   *)
(* callers do not see.                                                     *)
LEMMA OtherSteps ==
  ASSUME NEW c \in Contexts,
         \/ CreateCheck(c) \/ CreateFlag(c) \/ CreatePool1(c) \/ CreatePool2(c)
         \/ TakeBlock(c, "alloc") \/ TakeBlock(c, "again")
         \/ AllocFails(c) \/ GrowPool(c) \/ AgainFails(c)
         \/ InsertAtEnd(c) \/ InsertBeside(c) \/ RemoveFind(c) \/ RemoveRelease(c)
  PROVE  open' = open /\ \A l \in open : ItemsOf(l)' = ItemsOf(l)
<1>1. UNCHANGED <<nodes, lists, open>>
  BY DEF CreateCheck, CreateFlag, CreatePool1, CreatePool2, TakeBlock, AllocFails, GrowPool,
         AgainFails, InsertAtEnd, InsertBeside, RemoveFind, RemoveRelease
<1>2. QED
  BY <1>1 DEF ItemsOf, Chain

(* TbxListCreate returns a new, empty list. *)
LEMMA ReturnsNew ==
  ASSUME IInv, NodesType', NEW c \in Contexts, CreateReturn(c)
  PROVE  \E l \in Blocks : Abstract!New(l)
<1>1. PICK n : n = call[c].node
  OBVIOUS
<1>2. /\ pc[c] = "link" /\ lists' = [lists EXCEPT ![n] = NewList] /\ open' = open \cup {n}
      /\ nodes' = nodes
  BY <1>1 DEF CreateReturn, Finish, Goto
<1>3. n \in HeldBy(c)
  BY <1>1, <1>2, HoldsNothing
<1>4. n \in Blocks /\ n \notin open
  BY <1>3, HeldApart DEF IInv, DataInv
<1>5. lists'[n] = NewList /\ \A l \in Blocks \ {n} : lists'[l] = lists[l]
  BY <1>2, <1>4 DEF IInv, DataInv, NodesType
<1>6. ItemsOf(n)' = <<>>
  <2>1. Chain(n)' = <<>>
    BY <1>4, <1>5, ChainEmpty
  <2>2. QED
    BY <2>1 DEF ItemsOf
<1>7. \A l \in open : ItemsOf(l)' = ItemsOf(l)
  <2>1. \A l \in open : l \in Blocks
    BY NodesAreBlocks DEF IInv
  <2>2. \A l \in open : Untouched(l)
    BY <1>2, <1>4, <1>5, <2>1 DEF Untouched
  <2>3. QED
    BY <2>2, UntouchedIsSame, SameItems DEF IInv
<1>8. [l \in open' |-> ItemsOf(l)'] =
        [k \in (open \cup {n}) |-> IF k = n THEN <<>> ELSE [l \in open |-> ItemsOf(l)][k]]
  BY <1>2, <1>6, <1>7
<1>9. Abstract!New(n)
  BY <1>4, <1>8 DEF Abstract!New
<1>10. QED
  BY <1>4, <1>9

(* The functions that insert take effect when they link their node: the    *)
(* item comes to the position of the node.                                 *)
LEMMA LinkInserts ==
  ASSUME IInv, NodesType', NEW c \in Contexts, LinkNode(c),
         NEW m, m = call[c].list, NEW x, x = call[c].item
  PROVE  /\ m \in open /\ x \in Items /\ open' = open /\ Elsewhere(m)
         /\ pc[c] = "link" /\ pc' = [pc EXCEPT ![c] = "idle"]
         /\ x \notin ToSet(ItemsOf(m))
         /\ \E i \in 1 .. Len(ItemsOf(m)) + 1 :
              /\ Linking(c, m, call[c].node, i)
              /\ ItemsOf(m)' = InsertAt(ItemsOf(m), i, x)
<1>1. PICK n : n = call[c].node
  OBVIOUS
<1>2. /\ pc[c] = "link" /\ call[c].op \in Insertions
      /\ m \in open /\ n \in Blocks /\ n \notin Nodes(m) /\ x \in Items
      /\ Finish(c, "link", TRUE) /\ UNCHANGED <<memPoolsCreated, poolVars, open>>
      /\ \E i : Linking(c, m, n, i) /\ Grown(m, i, n, x)
  BY <1>1, Links
<1>3. PICK i : Linking(c, m, n, i) /\ Grown(m, i, n, x)
  BY <1>2
<1>4. Len(ItemsOf(m)) = Len(Chain(m))
  BY <1>2, OpenList
<1>5. i \in 1 .. Len(Chain(m)) + 1
  BY <1>3 DEF Linking
<1>6. ItemsOf(m)' = InsertAt(ItemsOf(m), i, x)
  BY <1>2, <1>3, <1>5, GrowsItems
<1>7. Elsewhere(m)
  <2>1. n \in HeldBy(c)
    BY <1>1, <1>2, HoldsNothing
  <2>2. \A l \in open : n \notin Nodes(l)
    BY <2>1, HeldApart DEF IInv, DataInv
  <2>3. PICK B : B = Nodes(m) \cup {n}
    OBVIOUS
  <2>4. \A l \in open \ {m} : Nodes(l) \cap B = {}
    BY <1>2, <2>2, <2>3 DEF IInv, DataInv, PlaceInv
  <2>5. /\ \A b \in Blocks \ B : nodes'[b] = nodes[b]
        /\ \A l \in Blocks \ {m} : lists'[l] = lists[l]
    BY <1>3, <2>3 DEF Grown
  <2>6. \A l \in open \ {m} : lists'[l] = lists[l]
    BY <2>5 DEF IInv, DataInv, ChainsInv
  <2>7. QED
    BY <2>4, <2>5, <2>6, OnlyOne DEF IInv
<1>8. x \notin ToSet(ItemsOf(m))
  BY <1>2, ItemsAre DEF IInv, CallInv
<1>9. open' = open /\ pc' = [pc EXCEPT ![c] = "idle"]
  BY <1>2 DEF Finish, Goto
<1>10. QED
  BY <1>1, <1>2, <1>3, <1>4, <1>5, <1>6, <1>7, <1>8, <1>9

(* TbxListRemoveItem takes effect when it unlinks its node. *)
LEMMA UnlinkRemoves ==
  ASSUME IInv, NodesType', NEW c \in Contexts, Unlink(c), NEW m, m = call[c].list
  PROVE  /\ m \in open /\ open' = open /\ Elsewhere(m)
         /\ \E i \in DOMAIN ItemsOf(m) : ItemsOf(m)' = RemoveAt(ItemsOf(m), i)
<1>1. PICK n : n = call[c].ref
  OBVIOUS
<1>2. m \in open /\ open' = open /\ \E i : Shrunk(m, i, n)
  BY <1>1, Unlinks
<1>3. PICK i : Shrunk(m, i, n)
  BY <1>2
<1>4. i \in DOMAIN ItemsOf(m) /\ ItemsOf(m)' = RemoveAt(ItemsOf(m), i)
  BY <1>2, <1>3, ShrinksItems
<1>5. Elsewhere(m)
  <2>1. \A l \in open \ {m} : Nodes(l) \cap Nodes(m) = {}
    BY <1>2 DEF IInv, DataInv, PlaceInv
  <2>2. /\ \A b \in Blocks \ Nodes(m) : nodes'[b] = nodes[b]
        /\ \A l \in open \ {m} : lists'[l] = lists[l]
    BY <1>3 DEF Shrunk, IInv, DataInv, ChainsInv
  <2>3. QED
    BY <2>1, <2>2, OnlyOne DEF IInv
<1>6. QED
  BY <1>2, <1>4, <1>5

(* Moving the items of one list leaves the other lists alone. *)
LEMMA RearrangesOne ==
  ASSUME IInv, NEW m \in open, Rearranges(m)
  PROVE  Elsewhere(m)
<1>1. \A l \in open \ {m} : Nodes(l) \cap Nodes(m) = {}
  BY DEF IInv, DataInv, PlaceInv
<1>2. /\ \A b \in Blocks \ Nodes(m) : nodes'[b] = nodes[b]
      /\ lists' = lists /\ NodesType'
  BY DEF Rearranges
<1>3. QED
  BY <1>1, <1>2, OnlyOne DEF IInv

(* The specification of the sequences uses the same operators. *)
LEMMA SameOperators ==
  /\ \A s : Abstract!ToSet(s) = ToSet(s)
  /\ \A s, i, x : Abstract!InsertAt(s, i, x) = InsertAt(s, i, x)
  /\ \A s, i : Abstract!RemoveAt(s, i) = RemoveAt(s, i)
BY DEF Abstract!ToSet, ToSet, Abstract!InsertAt, InsertAt, Abstract!RemoveAt, RemoveAt

(* TbxListSortItems leaves the items in ascending order. *)
LEMMA SortSorts ==
  ASSUME Contract, IInv, NEW c \in Contexts, NEW m \in open, Sort(c, m)
  PROVE  Abstract!Sort(m) /\ Abstract!Ascending(ItemsOf(m)')
<1>1. PICK t : t = ItemsOf(m)
  OBVIOUS
<1>2. PICK u : u = SortLoops(t)
  OBVIOUS
<1>3. Rearranges(m) /\ t \in Seq(Items) /\ ItemsOf(m)' = u /\ open' = open
  <2>1. Rearranges(m) /\ ItemsOf(m) \in Seq(Items) /\ ItemsOf(m)' = SortLoops(ItemsOf(m))
    BY Sorts
  <2>2. open' = open
    BY DEF Sort
  <2>3. QED
    BY <1>1, <1>2, <2>1, <2>2
<1>4. Reorders(t, u) /\ \A i, j \in DOMAIN u : i < j => Key[u[i]] <= Key[u[j]]
  BY <1>2, <1>3, SortLoopsSort
<1>5. Abstract!Ascending(u) /\ Abstract!Rearranged(t, u)
  <2>1. Abstract!Ascending(u)
    BY <1>4 DEF Abstract!Ascending
  <2>2. Len(t) = Len(u) /\ ToSet(t) = ToSet(u)
    BY <1>4 DEF Reorders
  <2>3. Abstract!Rearranged(t, u)
    BY <2>2, SameOperators DEF Abstract!Rearranged
  <2>4. QED
    BY <2>1, <2>3
<1>6. Elsewhere(m)
  BY <1>3, RearrangesOne
<1>7. /\ [l \in open |-> ItemsOf(l)][m] = t
      /\ [l \in open' |-> ItemsOf(l)'][m] = u
      /\ DOMAIN [l \in open' |-> ItemsOf(l)'] = DOMAIN [l \in open |-> ItemsOf(l)]
      /\ \A k \in (DOMAIN [l \in open |-> ItemsOf(l)]) \ {m} :
           [l \in open' |-> ItemsOf(l)'][k] = [l \in open |-> ItemsOf(l)][k]
  BY <1>1, <1>3, <1>6 DEF Elsewhere
<1>8. Abstract!Sort(m)
  BY <1>5, <1>7 DEF Abstract!Sort
<1>9. QED
  BY <1>3, <1>5, <1>8

(* TbxListClear leaves an empty list. *)
LEMMA ClearEmpties ==
  ASSUME IInv, NEW c \in Contexts, NEW m \in open, Clear(c, m)
  PROVE  open' = open /\ Elsewhere(m) /\ ItemsOf(m)' = <<>>
<1>1. ReleaseAll(c, m, Chain(m)) /\ open' = open
  BY DEF Clear
<1>2. NodesType' /\ Chain(m)' = <<>> /\ \A l \in open \ {m} : Untouched(l)
  BY <1>1, Frees
<1>3. \A l \in open \ {m} : ItemsOf(l)' = ItemsOf(l)
  BY <1>2, UntouchedIsSame, SameItems DEF IInv
<1>4. ItemsOf(m)' = <<>>
  BY <1>2 DEF ItemsOf
<1>5. QED
  BY <1>1, <1>3, <1>4 DEF Elsewhere

(* TbxListDelete takes the list away and leaves the other lists alone. *)
LEMMA DeleteDrops ==
  ASSUME IInv, NEW c \in Contexts, NEW m \in open, Delete(c, m)
  PROVE  Abstract!Drop(m)
<1>1. ReleaseAll(c, m, Append(Chain(m), m)) /\ open' = open \ {m}
  BY DEF Delete
<1>2. NodesType' /\ \A l \in open \ {m} : Untouched(l)
  BY <1>1, Frees
<1>3. \A l \in open \ {m} : ItemsOf(l)' = ItemsOf(l)
  BY <1>2, UntouchedIsSame, SameItems DEF IInv
<1>4. [l \in open' |-> ItemsOf(l)'] =
        [k \in (DOMAIN [l \in open |-> ItemsOf(l)]) \ {m} |-> [l \in open |-> ItemsOf(l)][k]]
  BY <1>1, <1>3
<1>5. QED
  BY <1>4 DEF Abstract!Drop

(* Every step of every context is one step of the abstract lists, or none. *)
LEMMA StepRefines ==
  ASSUME Contract, IInv, NEW c \in Contexts, Step(c)
  PROVE  Abstract!SequencesNext \/ UNCHANGED [l \in open |-> ItemsOf(l)]
<1> DEFINE seqs == [l \in open |-> ItemsOf(l)]
<1>1. IInv' /\ NodesType'
  BY StepIInv DEF IInv, DataInv
<1>2. DOMAIN seqs = open /\ \A l \in open : seqs[l] = ItemsOf(l)
  OBVIOUS
<1>3. CASE \/ CreateCheck(c) \/ CreateFlag(c) \/ CreatePool1(c) \/ CreatePool2(c)
           \/ TakeBlock(c, "alloc") \/ TakeBlock(c, "again")
           \/ AllocFails(c) \/ GrowPool(c) \/ AgainFails(c)
           \/ InsertAtEnd(c) \/ InsertBeside(c) \/ RemoveFind(c) \/ RemoveRelease(c)
  <2>1. open' = open /\ \A l \in open : ItemsOf(l)' = ItemsOf(l)
    BY <1>1, <1>3, OtherSteps
  <2>2. QED
    BY <2>1, QuietStep
<1>4. CASE CreateReturn(c)
  BY <1>1, <1>4, ReturnsNew DEF Abstract!SequencesNext
<1>5. CASE LinkNode(c)
  <2>1. PICK m, x : m = call[c].list /\ x = call[c].item
    OBVIOUS
  <2>2. /\ m \in open /\ x \in Items /\ open' = open /\ Elsewhere(m)
        /\ x \notin ToSet(ItemsOf(m))
        /\ \E i \in 1 .. Len(ItemsOf(m)) + 1 : ItemsOf(m)' = InsertAt(ItemsOf(m), i, x)
    BY <1>1, <1>5, <2>1, LinkInserts
  <2>3. PICK i \in 1 .. Len(ItemsOf(m)) + 1 : ItemsOf(m)' = InsertAt(ItemsOf(m), i, x)
    BY <2>2
  <2>4. Abstract!Become(m, InsertAt(ItemsOf(m), i, x))
    BY <2>2, <2>3, BecomeStep
  <2>5. Abstract!Insert(m, i, x)
    <3>1. [l \in open |-> ItemsOf(l)][m] = ItemsOf(m)
      BY <2>2
    <3>2. QED
      BY <2>2, <2>4, <3>1, SameOperators DEF Abstract!Insert, Abstract!Become
  <2>6. QED
    BY <1>2, <2>2, <2>5 DEF Abstract!SequencesNext
<1>6. CASE Unlink(c)
  <2>1. PICK m : m = call[c].list
    OBVIOUS
  <2>2. /\ m \in open /\ open' = open /\ Elsewhere(m)
        /\ \E i \in DOMAIN ItemsOf(m) : ItemsOf(m)' = RemoveAt(ItemsOf(m), i)
    BY <1>1, <1>6, <2>1, UnlinkRemoves
  <2>3. PICK i \in DOMAIN ItemsOf(m) : ItemsOf(m)' = RemoveAt(ItemsOf(m), i)
    BY <2>2
  <2>4. Abstract!Become(m, RemoveAt(ItemsOf(m), i))
    BY <2>2, <2>3, BecomeStep
  <2>5. [l \in open |-> ItemsOf(l)][m] = ItemsOf(m)
    BY <2>2
  <2>6. Abstract!Become(m, Abstract!RemoveAt([l \in open |-> ItemsOf(l)][m], i))
    BY <2>4, <2>5, SameOperators DEF Abstract!Become
  <2>7. QED
    BY <1>2, <2>2, <2>3, <2>6 DEF Abstract!SequencesNext
<1>7. ASSUME NEW m \in open, Clear(c, m) PROVE Abstract!SequencesNext
  <2>1. Abstract!Become(m, <<>>)
    BY <1>7, ClearEmpties, BecomeStep
  <2>2. QED
    BY <2>1 DEF Abstract!SequencesNext
<1>8. ASSUME NEW m \in open, Delete(c, m) PROVE Abstract!SequencesNext
  BY <1>8, DeleteDrops DEF Abstract!SequencesNext
<1>9. ASSUME NEW m \in open, Swap(c, m) PROVE Abstract!SequencesNext
  <2>1. open' = open /\ Elsewhere(m)
    BY <1>9, Swaps, RearrangesOne DEF Swap
  <2>2. PICK i \in DOMAIN ItemsOf(m), j \in DOMAIN ItemsOf(m) :
          ItemsOf(m)' = [ItemsOf(m) EXCEPT ![i] = ItemsOf(m)[j], ![j] = ItemsOf(m)[i]]
    BY <1>9, SwapsItems
  <2>3. Abstract!Become(m, [ItemsOf(m) EXCEPT ![i] = ItemsOf(m)[j], ![j] = ItemsOf(m)[i]])
    BY <2>1, <2>2, BecomeStep
  <2>4. Abstract!Swap(m, i, j)
    BY <1>2, <2>3 DEF Abstract!Swap
  <2>5. QED
    BY <1>2, <2>4 DEF Abstract!SequencesNext
<1>10. ASSUME NEW m \in open, Sort(c, m) PROVE Abstract!SequencesNext
  BY <1>10, SortSorts DEF Abstract!SequencesNext
<1>11. QED
  BY <1>3, <1>4, <1>5, <1>6, <1>7, <1>8, <1>9, <1>10 DEF Step

(* The lists implement sequences of items: each call takes effect at once, *)
(* somewhere between its start and its end, however the calls overlap.     *)
THEOREM BehaveLikeSequences ==
  ASSUME Contract
  PROVE  Spec => ImplementsSequences
<1>1. Init => Abstract!SequencesInit
  BY DEF Init, Abstract!SequencesInit
<1>2. IInv /\ [Next]_vars => [Abstract!SequencesNext]_([l \in open |-> ItemsOf(l)])
  <2> SUFFICES ASSUME IInv, [Next]_vars
               PROVE  Abstract!SequencesNext \/ UNCHANGED [l \in open |-> ItemsOf(l)]
    OBVIOUS
  <2>1. CASE Next
    BY <2>1, Steps, StepRefines
  <2>2. CASE UNCHANGED vars
    BY <2>2 DEF vars, ItemsOf, Chain
  <2>3. QED
    BY <2>1, <2>2
<1>3. QED
  BY <1>1, <1>2, Inductive, PTL DEF Spec, ImplementsSequences, Abstract!SequencesSpec

(* A step of one context leaves the others where they are. *)
LEMMA OneMoves ==
  ASSUME IInv, NEW c \in Contexts, Step(c)
  PROVE  \A d \in Contexts \ {c} : pc'[d] = pc[d]
<1>1. pc' = pc \/ \E to : pc' = [pc EXCEPT ![c] = to]
  <2>1. \/ \E from, to : Goto(c, from, to)
        \/ \E from, ok : Finish(c, from, ok)
        \/ pc' = pc
    BY Zenon DEF Step, CreateCheck, CreateFlag, CreatePool1, CreatePool2, TakeBlock, AllocFails,
           GrowPool, AgainFails, CreateReturn, InsertAtEnd, InsertBeside, LinkNode,
           RemoveFind, Unlink, RemoveRelease, Clear, Delete, ReleaseAll, Swap, Sort
  <2>2. QED
    BY <2>1, Zenon DEF Goto, Finish
<1>2. QED
  BY <1>1 DEF IInv, ControlTypes

(* An item is inserted next to the item that the caller named, although    *)
(* its node was looked up in an earlier critical section.                  *)
LEMMA InsertsAsAsked ==
  ASSUME IInv, Next, IInv',
         NEW c \in Contexts, pc[c] = "link", pc'[c] = "idle",
         NEW l \in open, call[c].list = l,
         NEW i \in DOMAIN ItemsOf(l), ItemsOf(l)[i] = call[c].itemRef
  PROVE  ItemsOf(l)' = InsertAt(ItemsOf(l), IF call[c].op = "before" THEN i ELSE i + 1, call[c].item)
<1>1. Step(c)
  BY Steps, OneMoves
<1>2. CallInv(c) /\ l \in Blocks /\ Null \notin Blocks
  BY NodesAreBlocks DEF IInv
<1>3. call[c].op \in Insertions
  BY <1>2 DEF CallInv
<1>4. LinkNode(c)
  <2>1. ~CreateReturn(c)
    BY <1>3 DEF CreateReturn, Insertions
  <2>2. QED
    BY <1>1, <2>1 DEF Step, CreateCheck, CreateFlag, CreatePool1, CreatePool2, TakeBlock, AllocFails,
           GrowPool, AgainFails, InsertAtEnd, InsertBeside, RemoveFind, Unlink, RemoveRelease,
           Clear, Delete, ReleaseAll, Swap, Sort, Goto, Finish
<1>5. PICK k \in 1 .. Len(ItemsOf(l)) + 1 :
        /\ Linking(c, l, call[c].node, k)
        /\ ItemsOf(l)' = InsertAt(ItemsOf(l), k, call[c].item)
  BY <1>4, LinkInserts DEF IInv, DataInv
<1>6. PICK s, t : s = Chain(l) /\ t = ItemsOf(l)
  OBVIOUS
<1>7. /\ t \in Seq(Items) /\ Len(s) \in Nat /\ DOMAIN s = 1 .. Len(s) /\ DOMAIN t = 1 .. Len(s)
      /\ Len(t) = Len(s)
      /\ \A j \in 1 .. Len(s) : t[j] = nodes[s[j]].item
      /\ \A j, n \in 1 .. Len(s) : t[j] = t[n] => j = n
  BY <1>6, OpenList
<1>8. i \in 1 .. Len(s) /\ t[i] = call[c].itemRef /\ t[i] \in Items
  BY <1>6, <1>7
<1>9. call[c].op \in {"before", "after"} /\ nodes[call[c].ref].item = t[i]
  <2>1. call[c].op \notin {"front", "back"}
    BY <1>2, <1>8, ListAssumption DEF CallInv, Null
  <2>2. call[c].op \in {"before", "after"}
    BY <1>3, <2>1 DEF Insertions
  <2>3. QED
    BY <1>2, <1>8, <2>2 DEF CallInv
<1>10. CASE call[c].op = "before"
  <2>1. k \in 1 .. Len(s) /\ s[k] = call[c].ref
    BY <1>5, <1>6, <1>10 DEF Linking
  <2>2. k = i
    BY <1>7, <1>8, <1>9, <2>1
  <2>3. QED
    BY <1>5, <1>10, <2>2
<1>11. CASE call[c].op = "after"
  <2>1. k - 1 \in 1 .. Len(s) /\ s[k - 1] = call[c].ref /\ k \in Int
    BY <1>5, <1>6, <1>11 DEF Linking
  <2>2. k - 1 = i
    BY <1>7, <1>8, <1>9, <2>1
  <2>3. k = i + 1 /\ call[c].op # "before"
    BY <1>11, <2>1, <2>2
  <2>4. QED
    BY <1>5, <2>3
<1>12. QED
  BY <1>9, <1>10, <1>11

(* A call does what it was asked for: TbxListInsertItemBefore and          *)
(* TbxListInsertItemAfter insert next to the item that the caller named,   *)
(* whatever happened since they looked it up, and TbxListSortItems sorts.  *)
THEOREM CallsDoAsAsked ==
  ASSUME Contract
  PROVE  Spec => DoesAsAsked
<1> DEFINE Asked ==
      /\ \A c \in Contexts, l \in open, i \in 1 .. MaxBlocks :
           /\ pc[c] = "link" /\ pc'[c] = "idle"
           /\ call[c].list = l
           /\ i \in DOMAIN ItemsOf(l) /\ ItemsOf(l)[i] = call[c].itemRef
           => ItemsOf(l)' = InsertAt(ItemsOf(l), IF call[c].op = "before" THEN i ELSE i + 1,
                                     call[c].item)
      /\ \A c \in Contexts, l \in open : Sort(c, l) => Abstract!Ascending(ItemsOf(l)')
<1>1. IInv /\ [Next]_vars /\ IInv' => [Asked]_vars
  <2> SUFFICES ASSUME IInv, Next, IInv' PROVE Asked
    OBVIOUS
  <2>1. ASSUME NEW c \in Contexts, NEW l \in open, NEW i \in 1 .. MaxBlocks,
               pc[c] = "link", pc'[c] = "idle", call[c].list = l,
               i \in DOMAIN ItemsOf(l), ItemsOf(l)[i] = call[c].itemRef
        PROVE  ItemsOf(l)' = InsertAt(ItemsOf(l), IF call[c].op = "before" THEN i ELSE i + 1,
                                      call[c].item)
    BY <2>1, InsertsAsAsked
  <2>2. ASSUME NEW c \in Contexts, NEW l \in open, Sort(c, l)
        PROVE  Abstract!Ascending(ItemsOf(l)')
    BY <2>2, SortSorts
  <2>3. QED
    BY <2>1, <2>2
<1>2. QED
  BY <1>1, Inductive, PTL DEF Spec, DoesAsAsked
=============================================================================
