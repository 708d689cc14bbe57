-------------------------- MODULE CollectionLemmas --------------------------
(***************************************************************************)
(* Lemmas about sequences, sets of numbers, remainders and words that the  *)
(* proofs about more than one component need.                              *)
(***************************************************************************)
EXTENDS Words, SequencesExt, FiniteSetTheorems, WellFoundedInduction, TLAPS

(* A block put in front of a list of blocks. *)
LEMMA Push ==
  ASSUME NEW S, NEW s \in Seq(S), NEW b \in S
  PROVE  /\ <<b>> \o s \in Seq(S)
         /\ <<b>> \o s # <<>>
         /\ Len(<<b>> \o s) = Len(s) + 1
         /\ ToSet(<<b>> \o s) = ToSet(s) \cup {b}
         /\ b \notin ToSet(s) /\ IsInjective(s) => IsInjective(<<b>> \o s)
<1> DEFINE t == <<b>> \o s
<1>1. /\ t \in Seq(S) /\ t # <<>> /\ Len(t) = Len(s) + 1
      /\ t[1] = b /\ \A k \in 1 .. Len(s) : t[k + 1] = s[k]
  OBVIOUS
<1>2. DOMAIN t = 1 .. Len(s) + 1 /\ DOMAIN s = 1 .. Len(s) /\ Len(s) \in Nat
  OBVIOUS
<1> HIDE DEF t
<1>3. \A k \in DOMAIN t : k = 1 \/ (k - 1 \in DOMAIN s /\ t[k] = s[k - 1])
  BY <1>1, <1>2
<1>4. ToSet(t) = ToSet(s) \cup {b}
  <2>1. ToSet(t) \subseteq ToSet(s) \cup {b}
    BY <1>1, <1>2, <1>3 DEF ToSet
  <2>2. ToSet(s) \cup {b} \subseteq ToSet(t)
    <3>1. b = t[1] /\ 1 \in DOMAIN t
      BY <1>1, <1>2
    <3>2. \A k \in DOMAIN s : s[k] = t[k + 1] /\ k + 1 \in DOMAIN t
      BY <1>1, <1>2
    <3>3. QED
      BY <3>1, <3>2 DEF ToSet
  <2>3. QED
    BY <2>1, <2>2
<1>5. b \notin ToSet(s) /\ IsInjective(s) => IsInjective(t)
  BY <1>1, <1>2, <1>3 DEF ToSet, IsInjective
<1>6. QED
  BY <1>1, <1>4, <1>5 DEF t

(* The first block taken off a list without repetitions. *)
LEMMA Pop ==
  ASSUME NEW S, NEW s \in Seq(S), s # <<>>, IsInjective(s)
  PROVE  /\ Head(s) \in ToSet(s) /\ Tail(s) \in Seq(S)
         /\ Len(Tail(s)) = Len(s) - 1
         /\ ToSet(Tail(s)) = ToSet(s) \ {Head(s)}
         /\ IsInjective(Tail(s))
<1> DEFINE t == Tail(s)
<1>1. /\ Len(s) \in Nat \ {0} /\ DOMAIN s = 1 .. Len(s) /\ Head(s) = s[1]
      /\ t \in Seq(S) /\ Len(t) = Len(s) - 1 /\ DOMAIN t = 1 .. Len(s) - 1
      /\ \A k \in 1 .. Len(s) - 1 : t[k] = s[k + 1]
  OBVIOUS
<1> HIDE DEF t
<1>2. \A k \in DOMAIN s : k = 1 \/ (k - 1 \in DOMAIN t /\ s[k] = t[k - 1])
  BY <1>1
<1>3. \A k \in DOMAIN t : k + 1 \in DOMAIN s /\ t[k] = s[k + 1] /\ k + 1 # 1
  BY <1>1
<1>5. IsInjective(t)
  BY <1>1, <1>3 DEF IsInjective
<1>4. ToSet(t) = ToSet(s) \ {Head(s)}
  <2>1. ToSet(t) \subseteq ToSet(s) \ {Head(s)}
    BY <1>1, <1>3 DEF ToSet, IsInjective
  <2>2. ToSet(s) \ {Head(s)} \subseteq ToSet(t)
    BY <1>1, <1>2 DEF ToSet
  <2>3. QED
    BY <2>1, <2>2
<1>6. Head(s) \in ToSet(s)
  BY <1>1 DEF ToSet
<1>7. QED
  BY <1>1, <1>4, <1>5, <1>6 DEF t

(* The elements of a sequence after an insertion. *)
LEMMA InsertElements ==
  ASSUME NEW S, NEW s \in Seq(S), NEW e \in S, NEW i \in 1 .. Len(s) + 1
  PROVE  /\ InsertAt(s, i, e) \in Seq(S)
         /\ Len(InsertAt(s, i, e)) = Len(s) + 1
         /\ \A k \in 1 .. Len(s) + 1 :
              InsertAt(s, i, e)[k] = IF k < i THEN s[k] ELSE IF k = i THEN e ELSE s[k - 1]
<1> DEFINE a == SubSeq(s, 1, i - 1)
           z == SubSeq(s, i, Len(s))
           u == a \o <<e>>
<1>1. a \in Seq(S) /\ Len(a) = i - 1 /\ \A k \in 1 .. i - 1 : a[k] = s[k]
  OBVIOUS
<1>2. /\ z \in Seq(S) /\ Len(z) = Len(s) - i + 1
      /\ \A k \in 1 .. Len(s) - i + 1 : z[k] = s[i + k - 1]
  OBVIOUS
<1> HIDE DEF a, z
<1>3. /\ u \in Seq(S) /\ Len(u) = i /\ u[i] = e
      /\ \A k \in 1 .. i - 1 : u[k] = a[k]
  BY <1>1
<1> HIDE DEF u
<1>4. /\ u \o z \in Seq(S) /\ Len(u \o z) = Len(s) + 1
      /\ \A k \in 1 .. i : (u \o z)[k] = u[k]
      /\ \A k \in i + 1 .. Len(s) + 1 : (u \o z)[k] = z[k - i]
  BY <1>2, <1>3
<1>5. \A k \in i + 1 .. Len(s) + 1 : z[k - i] = s[k - 1]
  BY <1>2
<1>6. InsertAt(s, i, e) = u \o z
  BY DEF InsertAt, u, a, z
<1>7. QED
  BY <1>1, <1>3, <1>4, <1>5, <1>6

(* A set of natural numbers that is not empty has a least one. *)
LEMMA LeastNat ==
  ASSUME NEW T, T \subseteq Nat, T # {}
  PROVE  \E x \in T : \A y \in T : x <= y
<1>1. IsWellFoundedOn(OpToRel(<, Nat), Nat)
  BY NatLessThanWellFounded
<1>2. PICK x \in T : \A y \in T : ~(<<y, x>> \in OpToRel(<, Nat))
  BY <1>1, WFMin, Zenon
<1>3. \A y \in T : ~(y < x)
  BY <1>2 DEF OpToRel
<1>4. QED
  BY <1>3

(* What holds of a and of the successor of each number it holds of, up to  *)
(* n, holds of all numbers from a to n.                                    *)
LEMMA Induction ==
  ASSUME NEW a \in Int, NEW n \in Int, NEW T,
         a \in T,
         \A k \in a .. n - 1 : k \in T => k + 1 \in T
  PROVE  \A k \in a .. n : k \in T
<1> SUFFICES ASSUME NEW k \in a .. n, k \notin T PROVE FALSE
  OBVIOUS
<1> DEFINE missing == {d \in Nat : d <= n - a /\ a + d \notin T}
<1>1. k - a \in missing
  BY a + (k - a) = k
<1>2. PICK d \in missing : \A e \in missing : d <= e
  BY <1>1, LeastNat
<1>3. d # 0
  BY <1>2
<1>4. d - 1 \notin missing
  BY <1>2, <1>3
<1>5. a + (d - 1) \in T /\ a + (d - 1) \in a .. n - 1
  BY <1>2, <1>3, <1>4
<1>6. a + (d - 1) + 1 = a + d
  BY <1>2
<1>7. a + d \in T
  BY <1>5, <1>6
<1>8. QED
  BY <1>2, <1>7

(* A recursive function over an interval: its value at a is v, and step    *)
(* takes the value at k - 1 to that at k.                                  *)
Follows(f, a, n, v, step) ==
  \A k \in a .. n : f[k] = IF k = a THEN v ELSE step[<<k, f[k - 1]>>]

StaysIn(V, a, n, step) == \A k \in a + 1 .. n, x \in V : step[<<k, x>>] \in V

(* If the steps stay in a set the function exists. *)
LEMMA Recursion ==
  ASSUME NEW a \in Int, NEW n \in Int, a <= n, NEW V, NEW v \in V, NEW step,
         StaysIn(V, a, n, step)
  PROVE  \E f \in [a .. n -> V] : Follows(f, a, n, v, step)
<1> USE DEF StaysIn, Follows
<1> DEFINE Upto(m, f) == /\ f \in [a .. m -> V]
                         /\ \A k \in a .. m : f[k] = IF k = a THEN v ELSE step[<<k, f[k - 1]>>]
           T == {m \in Int : \E f : Upto(m, f)}
<1>1. a \in T
  <2>1. Upto(a, [k \in a .. a |-> v])
    OBVIOUS
  <2>2. QED
    BY <2>1
<1>2. ASSUME NEW m \in a .. n - 1, m \in T PROVE m + 1 \in T
  <2>1. PICK f : Upto(m, f)
    BY <1>2
  <2> DEFINE g == [k \in a .. m + 1 |-> IF k = m + 1 THEN step[<<m + 1, f[m]>>] ELSE f[k]]
  <2>2. f[m] \in V /\ step[<<m + 1, f[m]>>] \in V
    BY <2>1
  <2>3. g \in [a .. m + 1 -> V]
    BY <2>1, <2>2
  <2>4. \A k \in a .. m : g[k] = f[k]
    OBVIOUS
  <2>5. g[m + 1] = step[<<m + 1, f[m]>>] /\ g[m] = f[m]
    OBVIOUS
  <2> HIDE DEF g
  <2>6. ASSUME NEW k \in a .. m + 1 PROVE g[k] = IF k = a THEN v ELSE step[<<k, g[k - 1]>>]
    <3>1. CASE k = m + 1
      <4>1. k - 1 = m /\ k # a
        BY <3>1
      <4>2. QED
        BY <3>1, <4>1, <2>5
    <3>2. CASE k # m + 1
      <4>1. k \in a .. m /\ (k = a \/ k - 1 \in a .. m)
        BY <3>2
      <4>2. g[k] = f[k] /\ (k = a \/ g[k - 1] = f[k - 1])
        BY <4>1, <2>4
      <4>3. f[k] = IF k = a THEN v ELSE step[<<k, f[k - 1]>>]
        BY <4>1, <2>1
      <4>4. QED
        BY <4>2, <4>3
    <3>3. QED
      BY <3>1, <3>2
  <2>7. Upto(m + 1, g)
    BY <2>3, <2>6
  <2>8. QED
    BY <2>7
<1> HIDE DEF T
<1>3. n \in T
  <2>1. \A k \in a .. n : k \in T
    BY <1>1, <1>2, Induction
  <2>2. QED
    BY <2>1
<1>4. QED
  BY <1>3 DEF T

(* A sequence without repetitions has as many elements as it is long. *)
LEMMA InjectiveLength ==
  ASSUME NEW S, NEW s \in Seq(S), IsInjective(s)
  PROVE  IsFiniteSet(ToSet(s)) /\ Cardinality(ToSet(s)) = Len(s)
<1>1. /\ s \in [1 .. Len(s) -> ToSet(s)] /\ Len(s) \in Nat
      /\ DOMAIN s = 1 .. Len(s)
  BY DEF ToSet
<1>2. s \in Bijection(1 .. Len(s), ToSet(s))
  <2>1. s \in Injection(1 .. Len(s), ToSet(s))
    BY <1>1 DEF Injection, IsInjective
  <2>2. s \in Surjection(1 .. Len(s), ToSet(s))
    BY <1>1 DEF Surjection, ToSet
  <2>3. QED
    BY <2>1, <2>2 DEF Bijection
<1>3. IsFiniteSet(1 .. Len(s)) /\ Cardinality(1 .. Len(s)) = Len(s)
  <2>1. 1 \in Int /\ Len(s) \in Int /\ Len(s) - 1 + 1 = Len(s) /\ (1 > Len(s) => Len(s) = 0)
    BY <1>1
  <2> HIDE <1>1
  <2>2. QED
    BY <2>1, FS_Interval
<1>4. QED
  BY <1>2, <1>3, FS_Bijection DEF ExistsBijection

(* The elements of a sequence after a removal. *)
LEMMA RemoveElements ==
  ASSUME NEW S, NEW s \in Seq(S), NEW i \in 1 .. Len(s)
  PROVE  /\ RemoveAt(s, i) \in Seq(S)
         /\ Len(RemoveAt(s, i)) = Len(s) - 1
         /\ \A k \in 1 .. Len(s) - 1 : RemoveAt(s, i)[k] = IF k < i THEN s[k] ELSE s[k + 1]
<1> DEFINE a == SubSeq(s, 1, i - 1)
           z == SubSeq(s, i + 1, Len(s))
<1>1. a \in Seq(S) /\ Len(a) = i - 1 /\ \A k \in 1 .. i - 1 : a[k] = s[k]
  OBVIOUS
<1>2. /\ z \in Seq(S) /\ Len(z) = Len(s) - i
      /\ \A k \in 1 .. Len(s) - i : z[k] = s[i + k]
  OBVIOUS
<1> HIDE DEF a, z
<1>3. /\ a \o z \in Seq(S) /\ Len(a \o z) = Len(s) - 1
      /\ \A k \in 1 .. i - 1 : (a \o z)[k] = a[k]
      /\ \A k \in i .. Len(s) - 1 : (a \o z)[k] = z[k - (i - 1)]
  <2>1. /\ a \o z \in Seq(S) /\ Len(a \o z) = Len(a) + Len(z)
        /\ \A k \in 1 .. Len(a) + Len(z) :
             (a \o z)[k] = IF k <= Len(a) THEN a[k] ELSE z[k - Len(a)]
    <3>1. a \in Seq(S) /\ z \in Seq(S)
      BY <1>1, <1>2
    <3>2. QED
      BY <3>1
  <2>2. Len(a) + Len(z) = Len(s) - 1
    BY <1>1, <1>2
  <2>3. /\ \A k \in 1 .. i - 1 : k \in 1 .. Len(s) - 1 /\ k <= Len(a)
        /\ \A k \in i .. Len(s) - 1 : k \in 1 .. Len(s) - 1 /\ ~(k <= Len(a))
    BY <1>1
  <2>4. QED
    BY <1>1, <2>1, <2>2, <2>3
<1>4. \A k \in i .. Len(s) - 1 : z[k - (i - 1)] = s[k + 1]
  BY <1>2
<1>5. RemoveAt(s, i) = a \o z
  BY DEF RemoveAt, a, z
<1>6. QED
  BY <1>1, <1>3, <1>4, <1>5

(* Blocks put in front of others, the last one first. *)
LEMMA PushAll ==
  ASSUME NEW S, NEW s \in Seq(S), NEW t \in Seq(S), IsInjective(s), IsInjective(t),
         ToSet(s) \cap ToSet(t) = {}
  PROVE  /\ Reverse(s) \o t \in Seq(S)
         /\ ToSet(Reverse(s) \o t) = ToSet(s) \cup ToSet(t)
         /\ IsInjective(Reverse(s) \o t)
<1> DEFINE r == Reverse(s)
           u == r \o t
           L == Len(s)
<1>1. L \in Nat /\ Len(t) \in Nat /\ DOMAIN s = 1 .. L /\ DOMAIN t = 1 .. Len(t)
  OBVIOUS
<1>2. /\ r \in Seq(S) /\ Len(r) = L
      /\ \A k \in 1 .. L : r[k] = s[(L - k) + 1]
  <2>1. r = [k \in 1 .. L |-> s[(L - k) + 1]]
    BY DEF Reverse
  <2>2. \A k \in 1 .. L : (L - k) + 1 \in 1 .. L
    BY <1>1
  <2>3. \A k \in 1 .. L : s[(L - k) + 1] \in S
    BY <2>2
  <2>4. QED
    BY <1>1, <2>1, <2>3
<1> HIDE DEF r
<1>3. /\ u \in Seq(S) /\ Len(u) = L + Len(t)
      /\ \A k \in 1 .. L + Len(t) : u[k] = IF k <= L THEN r[k] ELSE t[k - L]
  <2>1. Len(r) = L
    BY <1>2
  <2>2. /\ u \in Seq(S) /\ Len(u) = Len(r) + Len(t)
        /\ \A k \in 1 .. Len(r) + Len(t) : u[k] = IF k <= Len(r) THEN r[k] ELSE t[k - Len(r)]
    <3>1. r \in Seq(S)
      BY <1>2
    <3>2. QED
      BY <3>1
  <2>3. QED
    BY <2>1, <2>2
<1> HIDE DEF u
<1>4. DOMAIN u = 1 .. L + Len(t)
  BY <1>1, <1>3
<1>5. \A k \in 1 .. L + Len(t) :
        /\ k <= L => (L - k) + 1 \in 1 .. L /\ u[k] = s[(L - k) + 1]
        /\ k > L => k - L \in 1 .. Len(t) /\ u[k] = t[k - L]
  <2> SUFFICES ASSUME NEW k \in 1 .. L + Len(t)
               PROVE  /\ k <= L => (L - k) + 1 \in 1 .. L /\ u[k] = s[(L - k) + 1]
                      /\ k > L => k - L \in 1 .. Len(t) /\ u[k] = t[k - L]
    OBVIOUS
  <2>1. k <= L => (L - k) + 1 \in 1 .. L /\ k \in 1 .. L
    BY <1>1
  <2>2. k > L => k - L \in 1 .. Len(t) /\ ~(k <= L)
    BY <1>1
  <2>3. QED
    BY <1>2, <1>3, <2>1, <2>2
<1>6. ToSet(u) = ToSet(s) \cup ToSet(t)
  <2>1. ASSUME NEW k \in DOMAIN u PROVE u[k] \in ToSet(s) \cup ToSet(t)
    <3>1. k <= L \/ k > L
      BY <1>1, <1>4
    <3>2. QED
      BY <3>1, <1>1, <1>4, <1>5 DEF ToSet
  <2>2. ASSUME NEW j \in 1 .. L PROVE s[j] \in ToSet(u)
    <3>1. (L - j) + 1 \in 1 .. L + Len(t) /\ (L - j) + 1 <= L /\ (L - ((L - j) + 1)) + 1 = j
      BY <1>1
    <3>2. u[(L - j) + 1] = s[j]
      BY <3>1, <1>5
    <3>3. QED
      BY <3>1, <3>2, <1>4 DEF ToSet
  <2>3. ASSUME NEW j \in 1 .. Len(t) PROVE t[j] \in ToSet(u)
    <3>1. L + j \in 1 .. L + Len(t) /\ L + j > L /\ (L + j) - L = j
      BY <1>1
    <3>2. u[L + j] = t[j]
      BY <3>1, <1>5
    <3>3. QED
      BY <3>1, <3>2, <1>4 DEF ToSet
  <2>4. ToSet(u) \subseteq ToSet(s) \cup ToSet(t)
    BY <2>1 DEF ToSet
  <2>5. ToSet(s) \subseteq ToSet(u) /\ ToSet(t) \subseteq ToSet(u)
    BY <1>1, <2>2, <2>3 DEF ToSet
  <2>6. QED
    BY <2>4, <2>5
<1>7. IsInjective(u)
  <2> SUFFICES ASSUME NEW a \in 1 .. L + Len(t), NEW b \in 1 .. L + Len(t), u[a] = u[b], a < b
               PROVE  FALSE
    <3>1. \A a, b \in 1 .. L + Len(t) : ~(a < b) /\ ~(b < a) => a = b
      BY <1>1
    <3>2. QED
      BY <1>4, <3>1 DEF IsInjective
  <2>1. CASE b <= L
    <3>1. a <= L
      BY <2>1, <1>1
    <3>2. /\ (L - a) + 1 \in 1 .. L /\ (L - b) + 1 \in 1 .. L
          /\ s[(L - a) + 1] = s[(L - b) + 1]
      BY <2>1, <3>1, <1>5
    <3>3. (L - a) + 1 = (L - b) + 1
      BY <3>2, <1>1 DEF IsInjective
    <3>4. QED
      BY <3>3, <1>1
  <2>2. CASE a <= L /\ b > L
    <3>1. u[a] \in ToSet(s) /\ u[b] \in ToSet(t)
      BY <2>2, <1>1, <1>5 DEF ToSet
    <3>2. QED
      BY <3>1
  <2>3. CASE a > L
    <3>1. b > L
      BY <2>3, <1>1
    <3>2. a - L \in 1 .. Len(t) /\ b - L \in 1 .. Len(t) /\ t[a - L] = t[b - L]
      BY <2>3, <3>1, <1>5
    <3>3. a - L = b - L
      BY <3>2, <1>1 DEF IsInjective
    <3>4. QED
      BY <3>3, <1>1
  <2>4. QED
    BY <2>1, <2>2, <2>3, <1>1
<1>8. QED
  BY <1>3, <1>6, <1>7 DEF u, r

(* A block appended to blocks that it is not one of. *)
LEMMA AppendOne ==
  ASSUME NEW S, NEW s \in Seq(S), NEW b \in S, b \notin ToSet(s), IsInjective(s)
  PROVE  /\ Append(s, b) \in Seq(S) /\ Len(Append(s, b)) = Len(s) + 1
         /\ ToSet(Append(s, b)) = ToSet(s) \cup {b}
         /\ IsInjective(Append(s, b))
<1> DEFINE t == Append(s, b)
<1>1. /\ t \in Seq(S) /\ Len(t) = Len(s) + 1 /\ t[Len(s) + 1] = b
      /\ \A k \in 1 .. Len(s) : t[k] = s[k]
  OBVIOUS
<1>2. DOMAIN t = 1 .. Len(s) + 1 /\ DOMAIN s = 1 .. Len(s) /\ Len(s) \in Nat
  OBVIOUS
<1> HIDE DEF t
<1>3. \A k \in DOMAIN t : (k = Len(s) + 1 /\ t[k] = b) \/ (k \in DOMAIN s /\ t[k] = s[k])
  BY <1>1, <1>2
<1>4. ToSet(t) = ToSet(s) \cup {b}
  <2>1. ToSet(t) \subseteq ToSet(s) \cup {b}
    BY <1>3 DEF ToSet
  <2>2. \A k \in DOMAIN s : k \in DOMAIN t /\ t[k] = s[k]
    BY <1>1, <1>2
  <2>3. Len(s) + 1 \in DOMAIN t /\ t[Len(s) + 1] = b
    BY <1>1, <1>2
  <2>4. QED
    BY <2>1, <2>2, <2>3 DEF ToSet
<1>5. IsInjective(t)
  <2>1. \A k \in DOMAIN s : s[k] # b
    BY DEF ToSet
  <2>2. QED
    BY <1>3, <2>1 DEF IsInjective
<1>6. QED
  BY <1>1, <1>4, <1>5 DEF t
-----------------------------------------------------------------------------
(* What holds of a set as soon as it holds of the set with any one element *)
(* less, holds of every finite set.                                        *)
LEMMA SubsetInduction ==
  ASSUME NEW U, IsFiniteSet(U), NEW T,
         \A s \in SUBSET U : (\A x \in s : s \ {x} \in T) => s \in T
  PROVE  \A s \in SUBSET U : s \in T
<1> DEFINE P == {n \in Nat : \A s \in SUBSET U : Cardinality(s) = n => s \in T}
<1>1. \A s \in SUBSET U : IsFiniteSet(s) /\ Cardinality(s) \in 0 .. Cardinality(U)
  BY FS_Subset, FS_CardinalityType
<1>2. 0 \in P
  <2> SUFFICES ASSUME NEW s \in SUBSET U, Cardinality(s) = 0 PROVE s \in T
    OBVIOUS
  <2>1. s = {}
    BY <1>1, FS_EmptySet
  <2>2. QED
    BY <2>1
<1>3. ASSUME NEW n \in 0 .. Cardinality(U) - 1, n \in P PROVE n + 1 \in P
  <2> SUFFICES ASSUME NEW s \in SUBSET U, Cardinality(s) = n + 1 PROVE s \in T
    BY <1>3
  <2>1. ASSUME NEW x \in s PROVE s \ {x} \in T
    <3>1. IsFiniteSet(s)
      BY <1>1
    <3>2. Cardinality(s \ {x}) = Cardinality(s) - 1
      BY <3>1, FS_RemoveElement
    <3>3. Cardinality(s \ {x}) = n /\ s \ {x} \in SUBSET U
      BY <3>2
    <3>4. QED
      BY <1>3, <3>3
  <2>2. QED
    BY <2>1
<1>4. 0 \in Int /\ Cardinality(U) \in Int
  BY FS_CardinalityType
<1> HIDE DEF P
<1>5. \A n \in 0 .. Cardinality(U) : n \in P
  BY <1>2, <1>3, <1>4, Induction
<1>6. QED
  BY <1>1, <1>5 DEF P

(* A recursive function over the subsets of U, as the folds over sets are  *)
(* defined: base at the empty set, and at another set step of the element  *)
(* that choose takes and of the value at the rest.                         *)
Chooses(choose, U) == \A s \in SUBSET U : s # {} => choose[s] \in s

Gathers(f, U, V, base, step, choose) ==
  /\ f \in [SUBSET U -> V]
  /\ f = [s \in SUBSET U |-> IF s = {} THEN base ELSE step[<<choose[s], f[s \ {choose[s]}]>>]]

LEMMA Gathered ==
  ASSUME NEW U, NEW f, NEW V, NEW base, NEW step, NEW choose,
         Gathers(f, U, V, base, step, choose),
         NEW s \in SUBSET U
  PROVE  f[s] = IF s = {} THEN base ELSE step[<<choose[s], f[s \ {choose[s]}]>>]
<1> DEFINE g == [t \in SUBSET U |-> IF t = {} THEN base ELSE step[<<choose[t], f[t \ {choose[t]}]>>]]
<1>1. f = g
  BY Zenon DEF Gathers
<1>2. f[s] = g[s]
  BY <1>1
<1>3. g[s] = IF s = {} THEN base ELSE step[<<choose[s], f[s \ {choose[s]}]>>]
  BY Zenon
<1>4. QED
  BY <1>2, <1>3

(* Such a function exists. *)
LEMMA GatherExists ==
  ASSUME NEW U, IsFiniteSet(U), NEW V, NEW base \in V, NEW step, NEW choose,
         Chooses(choose, U), \A x \in U, v \in V : step[<<x, v>>] \in V
  PROVE  \E f : Gathers(f, U, V, base, step, choose)
<1> DEFINE Small(n) == {s \in SUBSET U : Cardinality(s) <= n}
           Follow(n, f) == \A s \in Small(n) :
                 f[s] = IF s = {} THEN base ELSE step[<<choose[s], f[s \ {choose[s]}]>>]
           T == {n \in Nat : \E f \in [Small(n) -> V] : Follow(n, f)}
           N == Cardinality(U)
<1>1. \A s \in SUBSET U : IsFiniteSet(s) /\ Cardinality(s) \in 0 .. N
  BY FS_Subset, FS_CardinalityType
<1>2. N \in Nat
  BY FS_CardinalityType
<1>3. \A s \in SUBSET U : s # {} =>
        /\ choose[s] \in U
        /\ s \ {choose[s]} \in SUBSET U
        /\ Cardinality(s \ {choose[s]}) = Cardinality(s) - 1
  BY <1>1, FS_RemoveElement DEF Chooses
<1>4. 0 \in T
  <2>1. \A s \in Small(0) : s = {}
    BY <1>1, FS_EmptySet
  <2>2. [s \in Small(0) |-> base] \in [Small(0) -> V]
    OBVIOUS
  <2>3. Follow(0, [s \in Small(0) |-> base])
    BY <2>1
  <2>4. QED
    BY <2>2, <2>3
<1>5. ASSUME NEW n \in 0 .. N - 1, n \in T PROVE n + 1 \in T
  <2>1. PICK f \in [Small(n) -> V] : Follow(n, f)
    BY <1>5
  <2> DEFINE g == [s \in Small(n + 1) |->
                     IF s = {} THEN base ELSE step[<<choose[s], f[s \ {choose[s]}]>>]]
  <2>2. \A s \in Small(n + 1) : s # {} => s \ {choose[s]} \in Small(n)
    BY <1>1, <1>3
  <2>3. g \in [Small(n + 1) -> V]
    <3> SUFFICES ASSUME NEW s \in Small(n + 1), s # {}
                 PROVE  step[<<choose[s], f[s \ {choose[s]}]>>] \in V
      OBVIOUS
    <3>1. f[s \ {choose[s]}] \in V
      BY <2>1, <2>2
    <3>2. choose[s] \in U
      BY <1>3
    <3>3. QED
      BY <3>1, <3>2
  <2>4. \A s \in Small(n) : s \in Small(n + 1) /\ g[s] = f[s]
    <3> SUFFICES ASSUME NEW s \in Small(n) PROVE s \in Small(n + 1) /\ g[s] = f[s]
      OBVIOUS
    <3>1. s \in Small(n + 1)
      BY <1>1
    <3>2. g[s] = IF s = {} THEN base ELSE step[<<choose[s], f[s \ {choose[s]}]>>]
      BY <3>1
    <3>3. f[s] = IF s = {} THEN base ELSE step[<<choose[s], f[s \ {choose[s]}]>>]
      BY <2>1
    <3>4. QED
      BY <3>1, <3>2, <3>3
  <2>5. \A s \in Small(n + 1) : g[s] = IF s = {} THEN base ELSE step[<<choose[s], f[s \ {choose[s]}]>>]
    OBVIOUS
  <2> HIDE DEF g
  <2>6. Follow(n + 1, g)
    <3> SUFFICES ASSUME NEW s \in Small(n + 1)
                 PROVE  g[s] = IF s = {} THEN base ELSE step[<<choose[s], g[s \ {choose[s]}]>>]
      OBVIOUS
    <3>1. CASE s = {}
      BY <2>5, <3>1
    <3>2. CASE s # {}
      BY <2>2, <2>4, <2>5, <3>2
    <3>3. QED
      BY <3>1, <3>2
  <2>7. n + 1 \in Nat
    OBVIOUS
  <2>8. QED
    BY <2>3, <2>6, <2>7
<1> HIDE DEF T
<1>6. N \in T
  <2>1. \A n \in 0 .. N : n \in T
    BY <1>2, <1>4, <1>5, Induction
  <2>2. QED
    BY <1>2, <2>1
<1>7. PICK f \in [Small(N) -> V] : Follow(N, f)
  BY <1>6 DEF T
<1>8. Small(N) = SUBSET U
  BY <1>1
<1>9. f \in [SUBSET U -> V]
  BY <1>8
<1>10. \A s \in SUBSET U :
         f[s] = IF s = {} THEN base ELSE step[<<choose[s], f[s \ {choose[s]}]>>]
  BY <1>7, <1>8
<1>11. Gathers(f, U, V, base, step, choose)
  BY <1>9, <1>10 DEF Gathers
<1>12. QED
  BY <1>9, <1>11

(* It does not depend on the set that it is defined over. *)
LEMMA GatherAgree ==
  ASSUME NEW U, IsFiniteSet(U), NEW W \in SUBSET U, NEW V, NEW base, NEW step, NEW choose,
         Chooses(choose, U), NEW f, Gathers(f, U, V, base, step, choose),
         NEW g, Gathers(g, W, V, base, step, choose)
  PROVE  \A s \in SUBSET W : f[s] = g[s]
<1> DEFINE T == {s \in SUBSET W : f[s] = g[s]}
<1>1. ASSUME NEW s \in SUBSET W, \A x \in s : s \ {x} \in T PROVE s \in T
  <2>1. s \in SUBSET U
    OBVIOUS
  <2>2. f[s] = IF s = {} THEN base ELSE step[<<choose[s], f[s \ {choose[s]}]>>]
    BY <2>1, Gathered
  <2>3. g[s] = IF s = {} THEN base ELSE step[<<choose[s], g[s \ {choose[s]}]>>]
    BY Gathered
  <2>4. s # {} => f[s \ {choose[s]}] = g[s \ {choose[s]}]
    BY <1>1, <2>1 DEF Chooses
  <2>5. QED
    BY <2>2, <2>3, <2>4
<1>2. IsFiniteSet(W)
  BY FS_Subset
<1> HIDE DEF T
<1>3. \A s \in SUBSET W : s \in T
  BY <1>1, <1>2, SubsetInduction
<1>4. QED
  BY <1>3 DEF T

(* If the order of two steps does not matter any element may be the first. *)
Commutes(step, U, V) ==
  \A x, y \in U, v \in V : step[<<x, step[<<y, v>>]>>] = step[<<y, step[<<x, v>>]>>]

LEMMA GatherAny ==
  ASSUME NEW U, IsFiniteSet(U), NEW V, NEW base, NEW step, NEW choose,
         Chooses(choose, U), NEW f, Gathers(f, U, V, base, step, choose),
         Commutes(step, U, V)
  PROVE  \A s \in SUBSET U : \A x \in s : f[s] = step[<<x, f[s \ {x}]>>]
<1> DEFINE T == {s \in SUBSET U : \A x \in s : f[s] = step[<<x, f[s \ {x}]>>]}
<1>1. ASSUME NEW s \in SUBSET U, \A x \in s : s \ {x} \in T PROVE s \in T
  <2> SUFFICES ASSUME NEW x \in s PROVE f[s] = step[<<x, f[s \ {x}]>>]
    OBVIOUS
  <2> DEFINE c == choose[s]
  <2>1. c \in s
    BY DEF Chooses
  <2>2. f[s] = step[<<c, f[s \ {c}]>>]
    BY Gathered
  <2> HIDE DEF c
  <2>3. CASE x = c
    BY <2>2, <2>3
  <2>4. CASE x # c
    <3>1. x \in s \ {c} /\ c \in s \ {x} /\ (s \ {c}) \ {x} = (s \ {x}) \ {c}
      BY <2>1, <2>4
    <3>2. f[s \ {c}] = step[<<x, f[(s \ {c}) \ {x}]>>]
      BY <1>1, <2>1, <3>1
    <3>3. f[s \ {x}] = step[<<c, f[(s \ {x}) \ {c}]>>]
      BY <1>1, <3>1
    <3>4. f[(s \ {x}) \ {c}] \in V /\ x \in U /\ c \in U
      BY <2>1 DEF Gathers
    <3>5. step[<<c, step[<<x, f[(s \ {x}) \ {c}]>>]>>] = step[<<x, step[<<c, f[(s \ {x}) \ {c}]>>]>>]
      BY <3>4 DEF Commutes
    <3>6. QED
      BY <2>2, <3>1, <3>2, <3>3, <3>5
  <2>5. QED
    BY <2>3, <2>4
<1> HIDE DEF T
<1>2. \A s \in SUBSET U : s \in T
  BY <1>1, SubsetInduction
<1>3. QED
  BY <1>2 DEF T
-----------------------------------------------------------------------------
(* A loop of n rounds in which only the value itself is used. *)
Loops(f, n, V, v, step) ==
  /\ f \in [0 .. n -> V]
  /\ \A i \in 0 .. n : f[i] = IF i = 0 THEN v ELSE step[f[i - 1]]

LEMMA LoopExists ==
  ASSUME NEW n \in Nat, NEW V, NEW v \in V, NEW step, \A x \in V : step[x] \in V
  PROVE  \E f : Loops(f, n, V, v, step)
<1> DEFINE round == [p \in (1 .. n) \X V |-> step[p[2]]]
<1>1. \A i \in 1 .. n, x \in V : round[<<i, x>>] = step[x]
  OBVIOUS
<1> HIDE DEF round
<1>2. StaysIn(V, 0, n, round)
  <2>1. \A i \in 0 + 1 .. n : i \in 1 .. n
    OBVIOUS
  <2>2. QED
    BY <1>1, <2>1 DEF StaysIn
<1>3. PICK f \in [0 .. n -> V] : Follows(f, 0, n, v, round)
  <2>1. 0 \in Int /\ n \in Int /\ 0 <= n
    OBVIOUS
  <2>2. QED
    BY <1>2, <2>1, Recursion
<1>4. \A i \in 0 .. n : f[i] = IF i = 0 THEN v ELSE step[f[i - 1]]
  <2>1. \A i \in 0 .. n : i # 0 => i \in 1 .. n /\ f[i - 1] \in V
    OBVIOUS
  <2>2. \A i \in 0 .. n : f[i] = IF i = 0 THEN v ELSE round[<<i, f[i - 1]>>]
    BY <1>3 DEF Follows
  <2>3. QED
    BY <1>1, <2>1, <2>2
<1>5. QED
  BY <1>3, <1>4 DEF Loops

(* Whatever does the same for the first m rounds has the same values. *)
LEMMA LoopUnique ==
  ASSUME NEW n \in Nat, NEW V, NEW v, NEW step, NEW f, Loops(f, n, V, v, step),
         NEW m \in 0 .. n, NEW g, g[0] = v,
         \A i \in 1 .. m : g[i - 1] \in V => g[i] = step[g[i - 1]]
  PROVE  g[m] = f[m]
<1> DEFINE T == {i \in 0 .. m : g[i] = f[i]}
<1>1. 0 \in T
  BY DEF Loops
<1>2. ASSUME NEW i \in 0 .. m - 1, i \in T PROVE i + 1 \in T
  <2>1. i + 1 \in 1 .. m /\ i + 1 \in 0 .. n /\ i \in 0 .. n /\ i + 1 # 0 /\ (i + 1) - 1 = i
        /\ i + 1 \in 0 .. m
    OBVIOUS
  <2>2. g[i] = f[i] /\ f[i] \in V
    BY <1>2, <2>1 DEF Loops
  <2>3. g[i + 1] = step[g[i]]
    <3>1. g[(i + 1) - 1] \in V => g[i + 1] = step[g[(i + 1) - 1]]
      BY <2>1
    <3>2. QED
      BY <2>1, <2>2, <3>1
  <2>4. f[i + 1] = step[f[i]]
    BY <2>1 DEF Loops
  <2>5. QED
    BY <2>1, <2>2, <2>3, <2>4
<1> HIDE DEF T
<1>3. \A i \in 0 .. m : i \in T
  <2>1. 0 \in Int /\ m \in Int
    OBVIOUS
  <2>2. QED
    BY <1>1, <1>2, <2>1, Induction
<1>4. QED
  BY <1>3 DEF T

(* A loop with one round more. *)
LEMMA LoopOnce ==
  ASSUME NEW n \in Nat, NEW V, NEW v, NEW step, NEW f, Loops(f, n, V, v, step),
         NEW g, Loops(g, n + 1, V, v, step)
  PROVE  f[n] \in V /\ g[n + 1] = step[f[n]]
<1>1. f[n] \in V
  BY DEF Loops
<1>2. g[n] = f[n]
  <2>1. \A i \in 1 .. n : g[i] = step[g[i - 1]]
    BY DEF Loops
  <2>2. g[0] = v /\ n \in 0 .. n
    BY DEF Loops
  <2>3. QED
    BY <2>1, <2>2, LoopUnique
<1>3. g[n + 1] = step[g[n]]
  <2>1. n + 1 \in 0 .. n + 1 /\ n + 1 # 0 /\ (n + 1) - 1 = n
    OBVIOUS
  <2>2. QED
    BY <2>1 DEF Loops
<1>4. QED
  BY <1>1, <1>2, <1>3
-----------------------------------------------------------------------------
(* Remainders, and sizes that are rounded up to whole words. *)

(* A number below the modulus is its own remainder. *)
LEMMA ModSmall == \A a, m \in Nat : a < m => a % m = a
  OBVIOUS

(* The remainder is below the modulus and not above the number. *)
LEMMA ModRange == \A a \in Nat, m \in Nat \ {0} : a % m \in 0 .. m - 1 /\ a % m <= a
  OBVIOUS

(* Division with remainder. *)
LEMMA DivMod == \A a \in Nat, m \in Nat \ {0} :
                  a \div m \in Nat /\ a = m * (a \div m) + (a % m)
  OBVIOUS

(* Multiples have no remainder. *)
LEMMA ModMultiple == \A k \in Nat, m \in Nat \ {0} : (m * k) % m = 0
  OBVIOUS

(* Taking the remainder away leaves whole words. *)
LEMMA ModRound == \A a \in Nat, m \in Nat \ {0} : (a - (a % m)) % m = 0
<1> TAKE a \in Nat, m \in Nat \ {0}
<1>1. a - (a % m) = m * (a \div m) /\ a \div m \in Nat
  BY DivMod, ModRange
<1>2. QED
  BY <1>1, ModMultiple

(* Sums of whole words are whole words. *)
LEMMA ModSum == \A a, b \in Nat, m \in Nat \ {0} :
                  a % m = 0 /\ b % m = 0 => (a + b) % m = 0
<1> TAKE a, b \in Nat, m \in Nat \ {0}
<1> HAVE a % m = 0 /\ b % m = 0
<1> DEFINE p == a \div m
           q == b \div m
<1>1. p \in Nat /\ q \in Nat /\ a = m * p /\ b = m * q
  BY DivMod
<1> HIDE DEF p, q
<1>2. a + b = m * (p + q) /\ p + q \in Nat
  BY <1>1
<1>3. QED
  BY <1>2, ModMultiple

(* The sum of n and a word less one, taken modulo m and cut to whole words, is n rounded *)
(* up, when the sum does not wrap around.                                                *)
Rounded(n, w, m) == LET s == (n + (w - 1)) % m IN s - (s % w)

LEMMA RoundedUp ==
  ASSUME NEW w \in Nat \ {0}, NEW m \in Nat, NEW n \in 1 .. m - w
  PROVE  /\ Rounded(n, w, m) \in Nat
         /\ Rounded(n, w, m) >= n
         /\ Rounded(n, w, m) < m
         /\ Rounded(n, w, m) % w = 0
<1> DEFINE s == n + (w - 1)
<1>1. s \in Nat /\ s < m
  OBVIOUS
<1>2. Rounded(n, w, m) = s - (s % w)
  BY <1>1, ModSmall DEF Rounded
<1> HIDE DEF s
<1>3. s % w \in 0 .. w - 1 /\ s % w <= s
  BY <1>1, ModRange
<1>4. (s - (s % w)) % w = 0
  BY <1>1, ModRound
<1>5. QED
  BY <1>1, <1>2, <1>3, <1>4 DEF s

(* Where the sum wraps around it is a number all the same. *)
LEMMA RoundedNat ==
  ASSUME NEW w \in Nat \ {0}, NEW m \in Nat \ {0}, NEW n \in Nat
  PROVE  Rounded(n, w, m) \in Nat
<1> DEFINE s == (n + (w - 1)) % m
<1>1. s \in Nat
  <2>1. n + (w - 1) \in Nat
    OBVIOUS
  <2>2. QED
    BY <2>1, ModRange
<1>2. Rounded(n, w, m) = s - (s % w)
  BY DEF Rounded
<1> HIDE DEF s
<1>3. s % w \in 0 .. w - 1 /\ s % w <= s
  BY <1>1, ModRange
<1>4. QED
  BY <1>1, <1>2, <1>3
-----------------------------------------------------------------------------
(* Words are combined in any order, and what is added twice is gone. *)
LEMMA XorFacts ==
  /\ \A a, b : BitXor(a, b) = BitXor(b, a)
  /\ \A a, b, c : BitXor(a, BitXor(b, c)) = BitXor(BitXor(a, b), c)
  /\ \A a : BitXor(a, {}) = a
  /\ \A a, b : BitXor(a, BitXor(a, b)) = b
<1>1. \A a, b, x : x \in BitXor(a, b) <=> ~(x \in a <=> x \in b)
  BY DEF BitXor
<1>2. \A a, b : BitXor(a, b) = BitXor(b, a)
  BY DEF BitXor
<1>3. ASSUME NEW a, NEW b, NEW c PROVE BitXor(a, BitXor(b, c)) = BitXor(BitXor(a, b), c)
  BY DEF BitXor
<1>4. \A a : BitXor(a, {}) = a
  BY DEF BitXor
<1>5. ASSUME NEW a, NEW b PROVE BitXor(a, BitXor(a, b)) = b
  BY DEF BitXor
<1>6. QED
  BY <1>2, <1>3, <1>4, <1>5
=============================================================================
