------------------------ MODULE CircularBufferLemmas ------------------------
(***************************************************************************)
(* The operations of the circular buffer, for every capacity: which slots  *)
(* they visit, and what they add up.  First, SumFunctionOnSet: what it is  *)
(* on the empty set and when an element is taken away, so that sums taken  *)
(* in different orders can be compared.                                    *)
(***************************************************************************)
EXTENDS CircularBufferOps, FiniteSetTheorems, SequenceTheorems, TLAPS

(* Induction on the natural numbers, over a set instead of a predicate. *)
LEMMA SetInduction ==
  ASSUME NEW T, 0 \in T, \A n \in Nat : n \in T => n + 1 \in T
  PROVE  Nat \subseteq T
<1> SUFFICES ASSUME Nat \ T # {} PROVE FALSE
  OBVIOUS
<1>1. PICK m \in Nat \ T : \A k \in Nat \ T : <<k, m>> \notin OpToRel(<, Nat)
  BY NatLessThanWellFounded, WFMin
<1>2. m # 0 /\ m - 1 \in Nat /\ m - 1 < m
  OBVIOUS
<1>3. <<m - 1, m>> \in OpToRel(<, Nat)
  BY <1>2 DEF OpToRel
<1>4. m - 1 \in T
  BY <1>1, <1>2, <1>3
<1> QED BY <1>2, <1>4

---------------------------------------------------------------------------
(* The recursion behind the sum: an element is picked and taken away. *)
Pick(s) == CHOOSE x \in s : TRUE

IsSums(f, S, sum) ==
  sum = [s \in SUBSET S |-> IF s = {} THEN 0 ELSE f[Pick(s)] + sum[s \ {Pick(s)}]]

Sums(f, S) == CHOOSE sum : IsSums(f, S, sum)

LEMMA SumIsSums == ASSUME NEW f, NEW S PROVE SumFunctionOnSet(f, S) = Sums(f, S)[S]
  BY DEF SumFunctionOnSet, FoldFunctionOnSet, MapThenFoldSet, Sums, IsSums, Pick

LEMMA PickIn == ASSUME NEW s, s # {} PROVE Pick(s) \in s
  BY DEF Pick

LEMMA Smaller ==
  ASSUME NEW S, IsFiniteSet(S), NEW x \in S
  PROVE  /\ IsFiniteSet(S \ {x}) /\ Cardinality(S \ {x}) = Cardinality(S) - 1
         /\ Cardinality(S) \in Nat /\ Cardinality(S \ {x}) \in Nat
  BY FS_RemoveElement, FS_CardinalityType

(* A function with that recursion exists, by induction on the cardinality  *)
(* of the sets it is defined on.                                           *)
LEMMA SumsExists ==
  ASSUME NEW f, NEW S, IsFiniteSet(S)
  PROVE  \E sum : IsSums(f, S, sum)
<1> DEFINE Upto(n) == {s \in SUBSET S : Cardinality(s) <= n}
           Next(sum, s) == IF s = {} THEN 0 ELSE f[Pick(s)] + sum[s \ {Pick(s)}]
           T == {n \in Nat : \E sum : sum = [s \in Upto(n) |-> Next(sum, s)]}
<1>1. \A s \in SUBSET S : IsFiniteSet(s) /\ Cardinality(s) \in Nat
  BY FS_Subset, FS_CardinalityType
<1>2. 0 \in T
  <2>1. \A s \in Upto(0) : s = {}
    BY <1>1, FS_EmptySet
  <2>2. [s \in Upto(0) |-> 0] = [s \in Upto(0) |-> Next([t \in Upto(0) |-> 0], s)]
    BY <2>1
  <2> QED BY <2>2
<1>3. ASSUME NEW n \in Nat, n \in T PROVE n + 1 \in T
  <2>1. PICK sum : sum = [s \in Upto(n) |-> Next(sum, s)]
    BY <1>3
  <2> DEFINE sum2 == [s \in Upto(n + 1) |-> Next(sum, s)]
  <2>2. \A s \in Upto(n + 1) : s # {} => s \ {Pick(s)} \in Upto(n)
    BY <1>1, PickIn, Smaller
  <2>3. \A s \in Upto(n) : s \in Upto(n + 1) /\ sum2[s] = sum[s]
    <3>1. \A s \in Upto(n) : s \in Upto(n + 1)
      BY <1>1
    <3> HIDE DEF Next, Upto
    <3> QED BY <2>1, <3>1
  <2>4. \A s \in Upto(n + 1) : Next(sum2, s) = Next(sum, s)
    BY <2>2, <2>3
  <2>5. sum2 = [s \in Upto(n + 1) |-> Next(sum2, s)]
    BY <2>4
  <2>6. \E g : g = [s \in Upto(n + 1) |-> Next(g, s)]
    <3> HIDE DEF sum2, Upto
    <3> QED BY <2>5
  <2> HIDE DEF Upto, Next
  <2> QED BY <2>6 DEF T
<1>4. Cardinality(S) \in T
  <2> HIDE DEF T
  <2> QED BY <1>1, <1>2, <1>3, SetInduction
<1>5. Upto(Cardinality(S)) = SUBSET S
  BY FS_Subset
<1> QED BY <1>4, <1>5 DEF IsSums

LEMMA SumsDef ==
  ASSUME NEW f, NEW S, IsFiniteSet(S)
  PROVE  /\ Sums(f, S)[{}] = 0
         /\ \A s \in SUBSET S : s # {} =>
              Sums(f, S)[s] = f[Pick(s)] + Sums(f, S)[s \ {Pick(s)}]
<1> DEFINE sums == Sums(f, S)
<1>1. sums = [s \in SUBSET S |-> IF s = {} THEN 0 ELSE f[Pick(s)] + sums[s \ {Pick(s)}]]
  <2>1. IsSums(f, S, sums)
    BY SumsExists DEF Sums
  <2> QED BY <2>1 DEF IsSums
<1> HIDE DEF sums
<1>2. {} \in SUBSET S
  OBVIOUS
<1>3. sums[{}] = 0 /\ \A s \in SUBSET S : s # {} => sums[s] = f[Pick(s)] + sums[s \ {Pick(s)}]
  BY <1>1, <1>2
<1> QED BY <1>3 DEF sums

(* The sum over s does not depend on the set the recursion started from,   *)
(* nor on values outside s.                                                *)
LEMMA SumsAgree ==
  ASSUME NEW f, NEW g, NEW S, NEW T, IsFiniteSet(S), IsFiniteSet(T),
         \A x \in S \cap T : f[x] = g[x]
  PROVE  \A s \in SUBSET (S \cap T) : Sums(f, S)[s] = Sums(g, T)[s]
<1> DEFINE N == {n \in Nat : \A s \in SUBSET (S \cap T) :
                               Cardinality(s) <= n => Sums(f, S)[s] = Sums(g, T)[s]}
<1>1. \A s \in SUBSET (S \cap T) : IsFiniteSet(s) /\ Cardinality(s) \in Nat
  BY FS_Subset, FS_CardinalityType
<1>2. Sums(f, S)[{}] = Sums(g, T)[{}]
  BY SumsDef
<1>3. 0 \in N
  BY <1>1, <1>2, FS_EmptySet
<1>4. ASSUME NEW n \in Nat, n \in N PROVE n + 1 \in N
  <2> SUFFICES ASSUME NEW s \in SUBSET (S \cap T), Cardinality(s) <= n + 1, s # {}
               PROVE  Sums(f, S)[s] = Sums(g, T)[s]
    <3>1. \A s \in SUBSET (S \cap T) : s = {} => Sums(f, S)[s] = Sums(g, T)[s]
      BY <1>2
    <3> QED BY <3>1
  <2> DEFINE x == Pick(s)
             r == s \ {x}
  <2>1. x \in s
    BY PickIn
  <2>2. r \in SUBSET (S \cap T) /\ Cardinality(r) <= n
    BY <1>1, <2>1, Smaller
  <2>3. Sums(f, S)[r] = Sums(g, T)[r]
    BY <1>4, <2>2
  <2>4. Sums(f, S)[s] = f[x] + Sums(f, S)[r] /\ Sums(g, T)[s] = g[x] + Sums(g, T)[r]
    BY SumsDef
  <2>5. f[x] = g[x]
    BY <2>1
  <2> QED BY <2>3, <2>4, <2>5
<1> HIDE DEF N
<1>5. Nat \subseteq N
  BY <1>3, <1>4, SetInduction
<1> QED BY <1>1, <1>5 DEF N

LEMMA SumSame ==
  ASSUME NEW f, NEW g, NEW S, IsFiniteSet(S), \A x \in S : f[x] = g[x]
  PROVE  SumFunctionOnSet(f, S) = SumFunctionOnSet(g, S)
  BY SumsAgree, SumIsSums

LEMMA SumEmpty == ASSUME NEW f PROVE SumFunctionOnSet(f, {}) = 0
  BY SumsDef, SumIsSums, FS_EmptySet

(* The sum's own recursion, and the type of a sum of naturals. *)
LEMMA SumPick ==
  ASSUME NEW f, NEW S, IsFiniteSet(S), S # {}
  PROVE  SumFunctionOnSet(f, S) = f[Pick(S)] + SumFunctionOnSet(f, S \ {Pick(S)})
<1> DEFINE r == S \ {Pick(S)}
<1>1. IsFiniteSet(r) /\ r \in SUBSET (S \cap r)
  BY PickIn, Smaller
<1>2. Sums(f, S)[r] = Sums(f, r)[r]
  BY <1>1, SumsAgree
<1>3. Sums(f, S)[S] = f[Pick(S)] + Sums(f, S)[r]
  BY SumsDef
<1> QED BY <1>2, <1>3, SumIsSums

LEMMA SumNat ==
  ASSUME NEW f, NEW S, IsFiniteSet(S), \A x \in S : f[x] \in Nat
  PROVE  SumFunctionOnSet(f, S) \in Nat
<1> DEFINE N == {n \in Nat : \A s \in SUBSET S :
                               Cardinality(s) <= n => SumFunctionOnSet(f, s) \in Nat}
<1>1. \A s \in SUBSET S : IsFiniteSet(s) /\ Cardinality(s) \in Nat
  BY FS_Subset, FS_CardinalityType
<1>2. 0 \in N
  BY <1>1, SumEmpty, FS_EmptySet
<1>3. ASSUME NEW n \in Nat, n \in N PROVE n + 1 \in N
  <2> SUFFICES ASSUME NEW s \in SUBSET S, Cardinality(s) <= n + 1, s # {}
               PROVE  SumFunctionOnSet(f, s) \in Nat
    BY SumEmpty
  <2>1. Pick(s) \in s
    BY PickIn
  <2>2. s \ {Pick(s)} \in SUBSET S /\ Cardinality(s \ {Pick(s)}) <= n
    BY <1>1, <2>1, Smaller
  <2>3. SumFunctionOnSet(f, s) = f[Pick(s)] + SumFunctionOnSet(f, s \ {Pick(s)})
    BY <1>1, SumPick
  <2>4. SumFunctionOnSet(f, s \ {Pick(s)}) \in Nat /\ f[Pick(s)] \in Nat
    BY <1>3, <2>1, <2>2
  <2> QED BY <2>3, <2>4
<1> HIDE DEF N
<1>4. Nat \subseteq N
  BY <1>2, <1>3, SetInduction
<1> QED BY <1>1, <1>4 DEF N

(* Any element can be the one that is taken away. *)
LEMMA SumRemove ==
  ASSUME NEW f, NEW S, IsFiniteSet(S), \A x \in S : f[x] \in Nat, NEW x \in S
  PROVE  SumFunctionOnSet(f, S) = f[x] + SumFunctionOnSet(f, S \ {x})
<1> DEFINE Sum(s) == SumFunctionOnSet(f, s)
           N == {n \in Nat : \A s \in SUBSET S : Cardinality(s) <= n =>
                               \A y \in s : Sum(s) = f[y] + Sum(s \ {y})}
<1>1. \A s \in SUBSET S : IsFiniteSet(s) /\ Cardinality(s) \in Nat /\ Sum(s) \in Nat
  BY FS_Subset, FS_CardinalityType, SumNat
<1>2. 0 \in N
  BY <1>1, FS_EmptySet
<1>3. ASSUME NEW n \in Nat, n \in N PROVE n + 1 \in N
  <2> SUFFICES ASSUME NEW s \in SUBSET S, Cardinality(s) <= n + 1, NEW y \in s
               PROVE  Sum(s) = f[y] + Sum(s \ {y})
    OBVIOUS
  <2> DEFINE z == Pick(s)
  <2>1. z \in s
    BY PickIn
  <2>2. Sum(s) = f[z] + Sum(s \ {z})
    BY <1>1, SumPick
  <2>3. CASE y = z
    BY <2>2, <2>3
  <2>4. CASE y # z
    <3> DEFINE r == s \ {y, z}
    <3>1. /\ s \ {z} \in SUBSET S /\ Cardinality(s \ {z}) <= n /\ y \in s \ {z}
          /\ s \ {y} \in SUBSET S /\ Cardinality(s \ {y}) <= n /\ z \in s \ {y}
      BY <1>1, <2>1, <2>4, Smaller
    <3>2. (s \ {z}) \ {y} = r /\ (s \ {y}) \ {z} = r /\ r \in SUBSET S
      OBVIOUS
    <3>3. Sum(s \ {z}) = f[y] + Sum(r) /\ Sum(s \ {y}) = f[z] + Sum(r)
      BY <1>3, <3>1, <3>2
    <3>4. f[y] \in Nat /\ f[z] \in Nat /\ Sum(r) \in Nat
      BY <1>1, <2>1, <3>2
    <3> HIDE DEF Sum, z, r
    <3> QED BY <2>2, <3>3, <3>4
  <2> QED BY <2>3, <2>4
<1> HIDE DEF N
<1>4. Nat \subseteq N
  BY <1>2, <1>3, SetInduction
<1> QED BY <1>1, <1>4 DEF N

(* Append, element by element. *)
LEMMA AppendByElement ==
  ASSUME NEW S, NEW s \in Seq(S), NEW e \in S, NEW n \in Nat, Len(s) = n
  PROVE  [k \in 1 .. n + 1 |-> IF k = n + 1 THEN e ELSE s[k]] = Append(s, e)
<1> DEFINE t == [k \in 1 .. n + 1 |-> IF k = n + 1 THEN e ELSE s[k]]
<1>1. s \in [1 .. n -> S]
  BY LenProperties
<1>2. t \in [1 .. n + 1 -> S]
  BY <1>1
<1>3. t \in Seq(S) /\ Len(t) = n + 1
  BY <1>2
<1>4. /\ Append(s, e) \in Seq(S) /\ Len(Append(s, e)) = n + 1
      /\ Append(s, e)[n + 1] = e
      /\ \A k \in 1 .. n : Append(s, e)[k] = s[k]
  OBVIOUS
<1>5. \A k \in 1 .. n + 1 : t[k] = Append(s, e)[k]
  BY <1>4
<1> HIDE DEF t
<1>6. t = Append(s, e)
  BY <1>3, <1>4, <1>5, SeqEqual
<1> QED BY <1>6 DEF t

---------------------------------------------------------------------------
(* The indices *)

USE CapacityAssumption DEF Slots

(* The % Capacity of an index update, as the case distinction it is. *)
LEMMA NextSlotValue ==
  ASSUME NEW i \in Slots
  PROVE  NextSlot(i) = IF i + 1 = Capacity THEN 0 ELSE i + 1
<1>1. CASE i + 1 = Capacity
  BY <1>1 DEF NextSlot
<1>2. CASE i + 1 # Capacity
  BY <1>2 DEF NextSlot
<1> QED BY <1>1, <1>2

(* The slot visited in round k of the lookup, without the %. *)
LEMMA SlotAtValue ==
  ASSUME NEW b, b.out_offs \in Slots, NEW k \in 1 .. Capacity
  PROVE  SlotAt(b, k) = IF b.out_offs + k - 1 < Capacity THEN b.out_offs + k - 1
                        ELSE b.out_offs + k - 1 - Capacity
<1>1. CASE b.out_offs + k - 1 < Capacity
  BY <1>1 DEF SlotAt
<1>2. CASE b.out_offs + k - 1 >= Capacity
  BY <1>2 DEF SlotAt
<1> QED BY <1>1, <1>2

(* The number of rounds, without the %. *)
LEMMA RetainedValue ==
  ASSUME NEW b, b.out_offs \in Slots, b.in_offs \in Slots, b.full \in BOOLEAN
  PROVE  /\ Retained(b) = IF b.in_offs = b.out_offs
                          THEN (IF b.full THEN Capacity ELSE 0)
                          ELSE IF b.in_offs > b.out_offs
                               THEN b.in_offs - b.out_offs
                               ELSE b.in_offs - b.out_offs + Capacity
         /\ Retained(b) \in 0 .. Capacity
<1>1. CASE b.in_offs = b.out_offs
  BY <1>1 DEF Retained
<1>2. CASE b.in_offs > b.out_offs
  <2>1. (b.in_offs - b.out_offs) % Capacity = b.in_offs - b.out_offs
    BY <1>2
  <2> QED BY <1>2, <2>1 DEF Retained
<1>3. CASE b.in_offs < b.out_offs
  <2>1. (b.in_offs - b.out_offs) % Capacity = b.in_offs - b.out_offs + Capacity
    BY <1>3
  <2> QED BY <1>3, <2>1 DEF Retained
<1> QED BY <1>1, <1>2, <1>3

---------------------------------------------------------------------------
(* A buffer whose indices are in the array, and equal when it is full. *)
Ring(b) ==
  /\ b.in_offs \in Slots /\ b.out_offs \in Slots /\ b.full \in BOOLEAN
  /\ b.full => b.in_offs = b.out_offs

LEMMA RingSlots ==
  ASSUME NEW b, Ring(b)
  PROVE  /\ Retained(b) \in 0 .. Capacity /\ (b.full <=> Retained(b) = Capacity)
         /\ \A k \in 1 .. Capacity :
              /\ SlotAt(b, k) \in Slots
              /\ SlotAt(b, k) = IF b.out_offs + k - 1 < Capacity THEN b.out_offs + k - 1
                                ELSE b.out_offs + k - 1 - Capacity
         /\ \A j, k \in 1 .. Capacity : SlotAt(b, j) = SlotAt(b, k) => j = k
<1>1. b.in_offs \in Slots /\ b.out_offs \in Slots /\ b.full \in BOOLEAN
  BY DEF Ring
<1>2. Retained(b) \in 0 .. Capacity /\ (b.full <=> Retained(b) = Capacity)
  BY <1>1, RetainedValue DEF Ring
<1>3. \A k \in 1 .. Capacity :
        SlotAt(b, k) = IF b.out_offs + k - 1 < Capacity THEN b.out_offs + k - 1
                       ELSE b.out_offs + k - 1 - Capacity
  BY <1>1, SlotAtValue
<1> QED BY <1>1, <1>2, <1>3

LEMMA FirstRound == ASSUME NEW b, Ring(b) PROVE SlotAt(b, 1) = b.out_offs
  BY RingSlots DEF Ring

(* add_entry into a buffer with room: one more round, which ends at the    *)
(* slot that was written.                                                  *)
LEMMA AddRoomSlots ==
  ASSUME NEW b, Ring(b), ~ b.full, NEW e, NEW c, c = aesd_circular_buffer_add_entry(b, e)
  PROVE  LET n == Retained(b)
         IN  /\ Ring(c) /\ n \in 0 .. Capacity - 1 /\ Retained(c) = n + 1
             /\ \A k \in 1 .. n + 1 : SlotAt(c, k) = SlotAt(b, k)
             /\ SlotAt(b, n + 1) = b.in_offs
             /\ \A k \in 1 .. n : SlotAt(b, k) \in Slots \ {b.in_offs}
<1> DEFINE n == Retained(b)
<1>1. b.in_offs \in Slots /\ b.out_offs \in Slots /\ b.full \in BOOLEAN
  BY DEF Ring
<1>2. n \in 0 .. Capacity - 1
  BY RingSlots
<1>3. n = IF b.in_offs = b.out_offs THEN 0
          ELSE IF b.in_offs > b.out_offs THEN b.in_offs - b.out_offs
               ELSE b.in_offs - b.out_offs + Capacity
  BY <1>1, RetainedValue
<1>4. /\ c.out_offs = b.out_offs /\ c.in_offs = NextSlot(b.in_offs)
      /\ c.full <=> NextSlot(b.in_offs) = b.out_offs
      /\ c.full \in BOOLEAN
  BY <1>1 DEF aesd_circular_buffer_add_entry
<1>5. c.in_offs = IF b.in_offs + 1 = Capacity THEN 0 ELSE b.in_offs + 1
  BY <1>1, <1>4, NextSlotValue
<1>6. Ring(c)
  BY <1>1, <1>4, <1>5 DEF Ring
<1>7. Retained(c) = n + 1
  <2>1. Retained(c) = IF c.in_offs = c.out_offs THEN (IF c.full THEN Capacity ELSE 0)
                      ELSE IF c.in_offs > c.out_offs THEN c.in_offs - c.out_offs
                           ELSE c.in_offs - c.out_offs + Capacity
    BY <1>6, RetainedValue DEF Ring
  <2> QED BY <1>1, <1>3, <1>4, <1>5, <2>1
<1>8. \A k \in 1 .. n + 1 : SlotAt(c, k) = SlotAt(b, k)
  BY <1>4 DEF SlotAt
<1>9. /\ SlotAt(b, n + 1) = b.in_offs
      /\ \A k \in 1 .. n : SlotAt(b, k) \in Slots \ {b.in_offs}
  BY <1>1, <1>2, <1>3, RingSlots
<1> QED BY <1>2, <1>6, <1>7, <1>8, <1>9

(* add_entry into a full buffer: the rounds move on by one, and the slot   *)
(* that was the first, and was written, is now the last.                   *)
LEMMA AddFullSlots ==
  ASSUME NEW b, Ring(b), b.full, NEW e, NEW c, c = aesd_circular_buffer_add_entry(b, e)
  PROVE  /\ Ring(c) /\ Retained(b) = Capacity /\ Retained(c) = Capacity /\ c.full
         /\ \A k \in 1 .. Capacity - 1 : /\ SlotAt(c, k) = SlotAt(b, k + 1)
                                         /\ SlotAt(b, k + 1) \in Slots \ {b.in_offs}
         /\ SlotAt(c, Capacity) = b.in_offs /\ SlotAt(b, 1) = b.in_offs
<1>1. b.in_offs \in Slots /\ b.out_offs = b.in_offs /\ b.full \in BOOLEAN
  BY DEF Ring
<1>2. /\ c.out_offs = NextSlot(b.out_offs) /\ c.in_offs = NextSlot(b.in_offs) /\ c.full
      /\ c.full \in BOOLEAN
  BY <1>1 DEF aesd_circular_buffer_add_entry
<1>3. /\ c.in_offs = IF b.in_offs + 1 = Capacity THEN 0 ELSE b.in_offs + 1
      /\ c.out_offs = c.in_offs
  BY <1>1, <1>2, NextSlotValue
<1>4. Ring(c)
  BY <1>1, <1>2, <1>3 DEF Ring
<1>5. Retained(b) = Capacity /\ Retained(c) = Capacity
  BY <1>2, <1>4, RingSlots
<1>6. \A k \in 1 .. Capacity :
        /\ SlotAt(b, k) = IF b.in_offs + k - 1 < Capacity THEN b.in_offs + k - 1
                          ELSE b.in_offs + k - 1 - Capacity
        /\ SlotAt(c, k) = IF c.in_offs + k - 1 < Capacity THEN c.in_offs + k - 1
                          ELSE c.in_offs + k - 1 - Capacity
  BY <1>1, <1>3, <1>4, RingSlots
<1> QED BY <1>1, <1>2, <1>3, <1>4, <1>5, <1>6
---------------------------------------------------------------------------
(* The lookup's running total *)

(* The total after round k, as an equation: the recursive function exists, *)
(* by induction on the number of rounds it is defined for.                 *)
LEMMA TotalsDef ==
  ASSUME NEW b
  PROVE  /\ Totals(b)[0] = 0
         /\ \A k \in 1 .. Capacity :
              Totals(b)[k] = Totals(b)[k - 1] + b.entry[SlotAt(b, k)].size
<1> DEFINE Round(total, k) == IF k = 0 THEN 0 ELSE total[k - 1] + b.entry[SlotAt(b, k)].size
           N == {n \in Nat : \E total : total = [k \in 0 .. n |-> Round(total, k)]}
<1>1. 0 \in N
  <2>1. [k \in 0 .. 0 |-> 0] = [k \in 0 .. 0 |-> Round([j \in 0 .. 0 |-> 0], k)]
    OBVIOUS
  <2> QED BY <2>1
<1>2. ASSUME NEW n \in Nat, n \in N PROVE n + 1 \in N
  <2>1. PICK total : total = [k \in 0 .. n |-> Round(total, k)]
    BY <1>2
  <2> DEFINE total2 == [k \in 0 .. n + 1 |-> Round(total, k)]
  <2>2. \A k \in 0 .. n : total2[k] = total[k]
    <3> HIDE DEF Round
    <3> QED BY <2>1
  <2>3. \A k \in 0 .. n + 1 : Round(total2, k) = Round(total, k)
    <3> HIDE DEF total2
    <3>1. \A k \in 0 .. n + 1 : k # 0 => total2[k - 1] = total[k - 1]
      BY <2>2
    <3> QED BY <3>1
  <2>4. total2 = [k \in 0 .. n + 1 |-> Round(total2, k)]
    BY <2>3
  <2> HIDE DEF total2, Round
  <2> QED BY <2>4 DEF N
<1>3. Capacity \in N
  <2> HIDE DEF N
  <2> QED BY <1>1, <1>2, SetInduction
<1> DEFINE totals == Totals(b)
           Is(total) == total = [k \in 0 .. Capacity |-> Round(total, k)]
<1>4. totals = [k \in 0 .. Capacity |-> Round(totals, k)]
  <2>1. \E total : Is(total)
    BY <1>3
  <2>2. totals = CHOOSE total : Is(total)
    BY DEF Totals
  <2>3. Is(totals)
    <3> HIDE DEF Is, totals
    <3> QED BY <2>1, <2>2
  <2> QED BY <2>3
<1> HIDE DEF totals
<1>5. \A k \in 0 .. Capacity : totals[k] = Round(totals, k)
  <2> HIDE DEF Round
  <2> QED BY <1>4
<1>6. totals[0] = 0
  BY <1>5
<1>7. \A k \in 1 .. Capacity : totals[k] = totals[k - 1] + b.entry[SlotAt(b, k)].size
  BY <1>5
<1> QED BY <1>6, <1>7 DEF totals

Sized(b) == \A i \in Slots : b.entry[i].size \in Nat

(* The total is the sum of the sizes of the slots visited so far, and it   *)
(* does not decrease.                                                      *)
Visited(b, k) == {SlotAt(b, j) : j \in 1 .. k}

LEMMA TotalsSum ==
  ASSUME NEW b, Ring(b), Sized(b)
  PROVE  \A k \in 0 .. Capacity :
           /\ Totals(b)[k] \in Nat
           /\ Totals(b)[k] = SumFunctionOnSet([i \in Slots |-> b.entry[i].size], Visited(b, k))
<1> DEFINE size == [i \in Slots |-> b.entry[i].size]
           N == {n \in Nat : n \in 0 .. Capacity =>
                   Totals(b)[n] = SumFunctionOnSet(size, Visited(b, n))}
<1>1. \A k \in 0 .. Capacity : Visited(b, k) \in SUBSET Slots /\ IsFiniteSet(Visited(b, k))
  <2>1. IsFiniteSet(Slots)
    BY FS_Interval
  <2>2. \A k \in 0 .. Capacity : Visited(b, k) \in SUBSET Slots
    BY RingSlots DEF Visited
  <2> QED BY <2>1, <2>2, FS_Subset
<1>2. \A i \in Slots : size[i] \in Nat
  BY DEF Sized
<1>3. 0 \in N
  <2>1. Visited(b, 0) = {}
    BY DEF Visited
  <2> QED BY <2>1, TotalsDef, SumEmpty
<1>4. ASSUME NEW n \in Nat, n \in N PROVE n + 1 \in N
  <2> SUFFICES ASSUME n + 1 \in 0 .. Capacity
               PROVE  Totals(b)[n + 1] = SumFunctionOnSet(size, Visited(b, n + 1))
    OBVIOUS
  <2> DEFINE s == SlotAt(b, n + 1)
  <2>1. s \in Slots /\ \A j \in 1 .. n : SlotAt(b, j) # s
    BY RingSlots
  <2>2. Visited(b, n + 1) \ {s} = Visited(b, n) /\ s \in Visited(b, n + 1)
    BY <2>1 DEF Visited
  <2>3. SumFunctionOnSet(size, Visited(b, n + 1))
          = size[s] + SumFunctionOnSet(size, Visited(b, n))
    <3>1. \A x \in Visited(b, n + 1) : size[x] \in Nat
      BY <1>1, <1>2
    <3> HIDE DEF size, s
    <3> QED BY <1>1, <2>2, <3>1, SumRemove
  <2>4. SumFunctionOnSet(size, Visited(b, n)) \in Nat
    <3>1. \A x \in Visited(b, n) : size[x] \in Nat
      BY <1>1, <1>2
    <3> HIDE DEF size
    <3> QED BY <1>1, <3>1, SumNat
  <2>5. Totals(b)[n + 1] = Totals(b)[n] + b.entry[s].size
    BY TotalsDef
  <2>6. Totals(b)[n] = SumFunctionOnSet(size, Visited(b, n)) /\ size[s] = b.entry[s].size
    BY <1>4, <2>1
  <2> HIDE DEF size, s
  <2> QED BY <1>2, <2>1, <2>3, <2>4, <2>5, <2>6
<1>5. Nat \subseteq N
  <2> HIDE DEF N
  <2> QED BY <1>3, <1>4, SetInduction
<1>6. \A k \in 0 .. Capacity : SumFunctionOnSet(size, Visited(b, k)) \in Nat
  <2>1. \A k \in 0 .. Capacity : \A x \in Visited(b, k) : size[x] \in Nat
    BY <1>1, <1>2
  <2> HIDE DEF size
  <2> QED BY <1>1, <2>1, SumNat
<1> QED BY <1>5, <1>6

LEMMA TotalsGrow ==
  ASSUME NEW b, Ring(b), Sized(b)
  PROVE  \A k \in 0 .. Capacity : \A j \in 0 .. k : Totals(b)[j] <= Totals(b)[k]
<1> DEFINE N == {n \in Nat : n \in 0 .. Capacity => \A j \in 0 .. n : Totals(b)[j] <= Totals(b)[n]}
<1>1. \A k \in 0 .. Capacity : Totals(b)[k] \in Nat
  BY TotalsSum
<1>2. \A k \in 1 .. Capacity : Totals(b)[k - 1] <= Totals(b)[k]
  <2> TAKE k \in 1 .. Capacity
  <2>1. b.entry[SlotAt(b, k)].size \in Nat
    BY RingSlots DEF Sized
  <2> QED BY <1>1, <2>1, TotalsDef
<1>3. 0 \in N
  BY <1>1
<1>4. ASSUME NEW n \in Nat, n \in N PROVE n + 1 \in N
  BY <1>1, <1>2, <1>4
<1>5. Nat \subseteq N
  <2> HIDE DEF N
  <2> QED BY <1>3, <1>4, SetInduction
<1> QED BY <1>5
---------------------------------------------------------------------------
(* The least element that the lookup, or the kernel, takes. *)
LEMMA MinIn ==
  ASSUME NEW S \in SUBSET Nat, S # {}
  PROVE  Min(S) \in S /\ \A x \in S : Min(S) <= x
<1>1. PICK m \in S : \A k \in S : <<k, m>> \notin OpToRel(<, Nat)
  BY NatLessThanWellFounded, WFMin
<1>2. \A k \in S : k < m => <<k, m>> \in OpToRel(<, Nat)
  BY DEF OpToRel
<1>3. \A k \in S : ~ (k < m)
  BY <1>1, <1>2
<1>4. \A k \in S : m <= k
  BY <1>3
<1> QED BY <1>4 DEF Min

(* The lookup stops in the round whose entry holds the position, and       *)
(* reports how far into that entry it lies, as a 16-bit number.            *)
LEMMA FindCorrect ==
  ASSUME NEW b, Ring(b), Sized(b), NEW p \in Nat,
         NEW r, r = aesd_circular_buffer_find_entry_offset_for_fpos(b, p)
  PROVE  IF p < Totals(b)[Retained(b)]
         THEN \E k \in 1 .. Retained(b) :
                /\ Totals(b)[k - 1] <= p /\ p < Totals(b)[k]
                /\ r = [slot |-> SlotAt(b, k), offset |-> (p - Totals(b)[k - 1]) % 2^16]
         ELSE r = NotFound
<1> DEFINE n == Retained(b)
           total == Totals(b)
           hits == {k \in 1 .. n : total[k] > p}
           k == Min(hits)
           s == SlotAt(b, k)
<1>1. n \in 0 .. Capacity
  BY RingSlots
<1>2. \A j \in 0 .. n : total[j] \in Nat /\ total[j] <= total[n]
  <2>1. \A j \in 0 .. Capacity : total[j] \in Nat
    BY TotalsSum
  <2>2. \A j \in 0 .. n : total[j] <= total[n]
    BY <1>1, TotalsGrow
  <2> QED BY <1>1, <2>1, <2>2
<1>3. r = IF hits = {} THEN NotFound
          ELSE [slot |-> s, offset |-> (p - (total[k] - b.entry[s].size)) % 2^16]
  BY DEF aesd_circular_buffer_find_entry_offset_for_fpos
<1>4. total[0] = 0
  BY TotalsDef
<1> HIDE DEF total, n
<1>5. CASE p < total[n]
  <2>1. n \in hits
    BY <1>1, <1>4, <1>5
  <2>2. k \in hits /\ \A j \in hits : k <= j
    <3>1. hits \in SUBSET Nat /\ hits # {}
      BY <1>1, <2>1
    <3> HIDE DEF hits
    <3> QED BY <3>1, MinIn
  <2>3. k \in 1 .. n /\ p < total[k]
    BY <1>1, <1>2, <2>2
  <2>4. total[k - 1] <= p
    <3>1. CASE k = 1
      BY <1>4, <3>1
    <3>2. CASE k # 1
      <4> HIDE DEF k
      <4>1. k - 1 \in 1 .. n /\ k - 1 < k
        BY <1>1, <2>3, <3>2
      <4>2. k - 1 \notin hits
        BY <1>1, <2>2, <2>3, <4>1
      <4> QED BY <1>1, <1>2, <2>3, <4>1, <4>2
    <3> QED BY <3>1, <3>2
  <2>5. /\ total[k] = total[k - 1] + b.entry[s].size /\ b.entry[s].size \in Nat
        /\ total[k - 1] \in Nat
    <3> HIDE DEF k
    <3>1. k \in 1 .. Capacity /\ s \in Slots /\ k - 1 \in 0 .. n
      BY <1>1, <2>3, RingSlots
    <3>2. total[k] = total[k - 1] + b.entry[s].size
      BY <3>1, TotalsDef DEF total
    <3> QED BY <1>2, <3>1, <3>2 DEF Sized
  <2> HIDE DEF k, s
  <2>6. total[k] - b.entry[s].size = total[k - 1]
    BY <2>5
  <2>7. r = [slot |-> s, offset |-> (p - total[k - 1]) % 2^16]
    BY <1>3, <2>1, <2>6
  <2>8. \E j \in 1 .. n : /\ total[j - 1] <= p /\ p < total[j]
                          /\ r = [slot |-> SlotAt(b, j), offset |-> (p - total[j - 1]) % 2^16]
    BY <2>3, <2>4, <2>7 DEF s
  <2> QED BY <1>5, <2>8 DEF n, total
<1>6. CASE ~ (p < total[n])
  <2>1. hits = {}
    BY <1>1, <1>2, <1>6
  <2> QED BY <1>3, <1>6, <2>1 DEF n, total
<1> QED BY <1>5, <1>6

(* The slots in use: all of a full buffer, else those from 0 to in_offs. *)
Filled(b) ==
  IF b.full THEN \A i \in Slots : b.entry[i].buffptr # NULL
  ELSE b.out_offs = 0 /\ \A i \in Slots : b.entry[i].buffptr # NULL <=> i < b.in_offs

(* add_entry keeps the indices in the array and the slots in use known. *)
LEMMA AddFilled ==
  ASSUME NEW b, Ring(b), Filled(b), DOMAIN b.entry = Slots,
         NEW e, e.buffptr # NULL, NEW c, c = aesd_circular_buffer_add_entry(b, e)
  PROVE  Ring(c) /\ Filled(c)
<1>1. /\ c.entry = [b.entry EXCEPT ![b.in_offs] = e] /\ c.in_offs = NextSlot(b.in_offs)
      /\ c.out_offs = IF b.full THEN NextSlot(b.out_offs) ELSE b.out_offs
      /\ b.full => c.full
  BY DEF aesd_circular_buffer_add_entry
<1>2. Ring(c)
  BY AddRoomSlots, AddFullSlots DEF Ring
<1>3. /\ b.in_offs \in Slots /\ b.out_offs \in Slots
      /\ c.in_offs = IF b.in_offs + 1 = Capacity THEN 0 ELSE b.in_offs + 1
  BY <1>1, NextSlotValue DEF Ring
<1>4. \A i \in Slots : c.entry[i] = IF i = b.in_offs THEN e ELSE b.entry[i]
  BY <1>1
<1>5. CASE b.full
  BY <1>1, <1>2, <1>4, <1>5 DEF Filled
<1>6. CASE ~ b.full
  <2>1. c.out_offs = 0 /\ (c.full <=> c.in_offs = 0)
    BY <1>1, <1>6 DEF Filled, aesd_circular_buffer_add_entry
  <2> QED BY <1>1, <1>2, <1>3, <1>4, <1>6, <2>1 DEF Filled
<1> QED BY <1>5, <1>6

(* The entries that are remembered have memory. *)
LEMMA RetainedFilled ==
  ASSUME NEW b, Ring(b), Filled(b), NEW k \in 1 .. Retained(b)
  PROVE  k \in 1 .. Capacity /\ SlotAt(b, k) \in Slots /\ b.entry[SlotAt(b, k)].buffptr # NULL
<1>1. b.in_offs \in Slots /\ b.out_offs \in Slots /\ b.full \in BOOLEAN
  BY DEF Ring
<1>2. Retained(b) \in 0 .. Capacity
  BY RingSlots
<1>3. k \in 1 .. Capacity /\ SlotAt(b, k) \in Slots
  BY <1>2, RingSlots
<1>4. CASE b.full
  BY <1>3, <1>4 DEF Filled
<1>5. CASE ~ b.full
  <2>1. Retained(b) = b.in_offs /\ b.out_offs = 0
    BY <1>1, <1>5, RetainedValue DEF Filled
  <2>2. SlotAt(b, k) = k - 1
    BY <1>1, <1>3, <2>1, RingSlots
  <2> QED BY <1>1, <1>3, <1>5, <2>1, <2>2 DEF Filled
<1> QED BY <1>3, <1>4, <1>5

(* Summed in array order, the slots in use have the lookup's last total. *)
LEMMA SizeCorrect ==
  ASSUME NEW b, Ring(b), Sized(b), Filled(b)
  PROVE  aesd_circular_buffer_size(b) = Totals(b)[Retained(b)]
<1> DEFINE used == {i \in Slots : \A j \in 0 .. i : b.entry[j].buffptr # NULL}
<1>1. b.in_offs \in Slots /\ b.out_offs \in Slots /\ b.full \in BOOLEAN
  BY DEF Ring
<1>2. Retained(b) \in 0 .. Capacity
  BY RingSlots
<1>3. used = Visited(b, Retained(b))
  <2>1. CASE b.full
    <3>1. used = Slots
      BY <2>1 DEF Filled
    <3>2. Retained(b) = Capacity
      BY <2>1, RingSlots
    <3>3. ASSUME NEW i \in Slots PROVE i \in Visited(b, Capacity)
      <4> DEFINE j == IF i >= b.out_offs THEN i - b.out_offs + 1
                      ELSE i - b.out_offs + 1 + Capacity
      <4>1. j \in 1 .. Capacity
        BY <1>1
      <4>2. SlotAt(b, j) = i
        BY <1>1, <4>1, RingSlots
      <4> HIDE DEF j
      <4> QED BY <4>1, <4>2 DEF Visited
    <3>4. Visited(b, Capacity) \subseteq Slots
      BY RingSlots DEF Visited
    <3> QED BY <3>1, <3>2, <3>3, <3>4
  <2>2. CASE ~ b.full
    <3>1. used = 0 .. b.in_offs - 1
      BY <1>1, <2>2 DEF Filled
    <3>2. Retained(b) = b.in_offs
      BY <1>1, <2>2, RetainedValue DEF Filled
    <3>3. \A k \in 1 .. b.in_offs : SlotAt(b, k) = k - 1
      BY <1>1, <2>2, RingSlots DEF Filled
    <3>4. ASSUME NEW i \in 0 .. b.in_offs - 1 PROVE i \in Visited(b, b.in_offs)
      <4>1. i + 1 \in 1 .. b.in_offs /\ SlotAt(b, i + 1) = i
        BY <1>1, <3>3
      <4> QED BY <4>1 DEF Visited
    <3>5. Visited(b, b.in_offs) \subseteq 0 .. b.in_offs - 1
      BY <1>1, <3>3 DEF Visited
    <3> QED BY <3>1, <3>2, <3>4, <3>5
  <2> QED BY <1>1, <2>1, <2>2
<1>4. aesd_circular_buffer_size(b) = SumFunctionOnSet([i \in Slots |-> b.entry[i].size], used)
  BY DEF aesd_circular_buffer_size
<1> QED BY <1>2, <1>3, <1>4, TotalsSum

(* The lookup's total is also the sum over its rounds. *)
LEMMA RoundsSum ==
  ASSUME NEW b, Ring(b), Sized(b)
  PROVE  \A k \in 0 .. Capacity :
           SumFunctionOnSet([j \in 1 .. Capacity |-> b.entry[SlotAt(b, j)].size], 1 .. k)
             = Totals(b)[k]
<1> DEFINE size == [j \in 1 .. Capacity |-> b.entry[SlotAt(b, j)].size]
           N == {k \in Nat : k \in 0 .. Capacity =>
                               SumFunctionOnSet(size, 1 .. k) = Totals(b)[k]}
<1>1. \A k \in 1 .. Capacity : size[k] = b.entry[SlotAt(b, k)].size /\ size[k] \in Nat
  BY RingSlots DEF Sized
<1>2. 0 \in N
  <2>1. 1 .. 0 = {}
    OBVIOUS
  <2> QED BY <2>1, SumEmpty, TotalsDef
<1> HIDE DEF size
<1>3. ASSUME NEW k \in Nat, k \in N PROVE k + 1 \in N
  <2> SUFFICES ASSUME k + 1 \in 0 .. Capacity
               PROVE  SumFunctionOnSet(size, 1 .. k + 1) = Totals(b)[k + 1]
    OBVIOUS
  <2> DEFINE S == 1 .. k + 1
             x == k + 1
  <2>1. IsFiniteSet(S)
    BY FS_Interval
  <2>2. x \in S /\ (\A y \in S : size[y] \in Nat) /\ S \ {x} = 1 .. k
    BY <1>1
  <2>3. SumFunctionOnSet(size, S) = size[x] + SumFunctionOnSet(size, S \ {x})
    <3> HIDE DEF S, x
    <3> QED BY <2>1, <2>2, SumRemove
  <2>4. SumFunctionOnSet(size, 1 .. k) = Totals(b)[k]
    BY <1>3
  <2>5. /\ Totals(b)[k + 1] = Totals(b)[k] + size[k + 1]
        /\ Totals(b)[k] \in Nat /\ size[k + 1] \in Nat
    <3>1. k + 1 \in 1 .. Capacity /\ k \in 0 .. Capacity
      OBVIOUS
    <3>2. Totals(b)[k] \in Nat
      BY <3>1, TotalsSum
    <3>3. Totals(b)[k + 1] = Totals(b)[k + 1 - 1] + b.entry[SlotAt(b, k + 1)].size
      BY <3>1, TotalsDef
    <3> QED BY <1>1, <3>1, <3>2, <3>3
  <2>6. SumFunctionOnSet(size, S) = size[k + 1] + Totals(b)[k]
    <3> HIDE DEF S
    <3> QED BY <2>2, <2>3, <2>4
  <2> QED BY <2>5, <2>6
<1>4. Nat \subseteq N
  <2> HIDE DEF N
  <2> QED BY <1>2, <1>3, SetInduction
<1> QED BY <1>4 DEF size

(* Entries of at most 2^16 bytes have no offset that last_index cuts. *)
Short(b) == \A i \in Slots : b.entry[i].size <= 2^16

LEMMA FindShort ==
  ASSUME NEW b, Ring(b), Sized(b), Short(b), NEW p \in Nat,
         NEW r, r = aesd_circular_buffer_find_entry_offset_for_fpos(b, p)
  PROVE  IF p < Totals(b)[Retained(b)]
         THEN \E k \in 1 .. Retained(b) :
                /\ Totals(b)[k - 1] <= p /\ p - Totals(b)[k - 1] < b.entry[SlotAt(b, k)].size
                /\ r = [slot |-> SlotAt(b, k), offset |-> p - Totals(b)[k - 1]]
         ELSE r = NotFound
<1> DEFINE width == 2^16
           n == Retained(b)
           total == Totals(b)
<1>1. width \in Nat /\ width > 0 /\ \A i \in Slots : b.entry[i].size <= width
  BY DEF Short
<1>2. IF p < total[n]
      THEN \E k \in 1 .. n :
             /\ total[k - 1] <= p /\ p < total[k]
             /\ r = [slot |-> SlotAt(b, k), offset |-> (p - total[k - 1]) % width]
      ELSE r = NotFound
  BY FindCorrect
<1> HIDE DEF width
<1>3. n \in 0 .. Capacity /\ \A k \in 1 .. Capacity : SlotAt(b, k) \in Slots
  BY RingSlots
<1>4. \A k \in 0 .. Capacity : total[k] \in Nat
  BY TotalsSum
<1> HIDE DEF n, total
<1>5. CASE p < total[n]
  <2>1. PICK k \in 1 .. n :
          /\ total[k - 1] <= p /\ p < total[k]
          /\ r = [slot |-> SlotAt(b, k), offset |-> (p - total[k - 1]) % width]
    BY <1>2, <1>5
  <2>2. k \in 1 .. Capacity /\ k \in 0 .. Capacity /\ k - 1 \in 0 .. Capacity
    BY <1>3
  <2>3. total[k] = total[k - 1] + b.entry[SlotAt(b, k)].size
    BY <2>2, TotalsDef DEF total
  <2>4. b.entry[SlotAt(b, k)].size \in 0 .. width
    BY <1>1, <1>3, <2>2 DEF Sized
  <2>5. p - total[k - 1] \in 0 .. width - 1 /\ p - total[k - 1] < b.entry[SlotAt(b, k)].size
    BY <1>1, <1>4, <2>1, <2>2, <2>3, <2>4
  <2>6. (p - total[k - 1]) % width = p - total[k - 1]
    BY <1>1, <2>5
  <2> QED BY <1>5, <2>1, <2>5, <2>6 DEF n, total
<1>6. CASE ~ (p < total[n])
  BY <1>2, <1>6 DEF n, total
<1> QED BY <1>5, <1>6

(* The lookup, given the position of a byte of the k-th entry, finds it. *)
LEMMA FindAt ==
  ASSUME NEW b, Ring(b), Sized(b), Short(b), NEW k \in 1 .. Retained(b),
         NEW o \in Nat, o < b.entry[SlotAt(b, k)].size
  PROVE  aesd_circular_buffer_find_entry_offset_for_fpos(b, Totals(b)[k - 1] + o)
           = [slot |-> SlotAt(b, k), offset |-> o]
<1> DEFINE total == Totals(b)
           n == Retained(b)
           p == total[k - 1] + o
           r == aesd_circular_buffer_find_entry_offset_for_fpos(b, p)
<1>1. n \in 0 .. Capacity
  BY RingSlots
<1>2. \A j \in 0 .. Capacity : total[j] \in Nat
  BY TotalsSum
<1>3. \A j \in 1 .. Capacity : total[j] = total[j - 1] + b.entry[SlotAt(b, j)].size
  BY TotalsDef
<1>4. \A i \in 0 .. Capacity : \A j \in 0 .. i : total[j] <= total[i]
  BY TotalsGrow
<1>5. \A j \in 1 .. Capacity : b.entry[SlotAt(b, j)].size \in Nat
  BY RingSlots DEF Sized
<1> HIDE DEF total, n
<1>6. p \in Nat /\ p < total[k] /\ total[k] <= total[n]
  BY <1>1, <1>2, <1>3, <1>4, <1>5 DEF n
<1>7. p < total[n]
  <2>1. total[k] \in Nat /\ total[n] \in Nat
    BY <1>1, <1>2 DEF n
  <2> QED BY <1>6, <2>1
<1>8. PICK j \in 1 .. n :
        /\ total[j - 1] <= p /\ p - total[j - 1] < b.entry[SlotAt(b, j)].size
        /\ r = [slot |-> SlotAt(b, j), offset |-> p - total[j - 1]]
  <2> HIDE DEF p
  <2>1. r = aesd_circular_buffer_find_entry_offset_for_fpos(b, p)
    OBVIOUS
  <2> HIDE DEF r
  <2> QED BY <1>6, <1>7, <2>1, FindShort DEF n, total
<1>9. j \in 1 .. Capacity /\ k \in 1 .. Capacity
  BY <1>1 DEF n
<1>10. p < total[j] /\ total[j] \in Nat /\ total[k] \in Nat
  BY <1>2, <1>3, <1>5, <1>6, <1>8, <1>9
<1>11. j = k
  <2>1. ASSUME j < k PROVE FALSE
    <3>1. total[j] <= total[k - 1]
      BY <1>4, <1>9, <2>1
    <3> QED BY <1>2, <1>9, <1>10, <3>1
  <2>2. ASSUME k < j PROVE FALSE
    <3>1. total[k] <= total[j - 1]
      BY <1>4, <1>9, <2>2
    <3>2. total[j - 1] \in Nat
      BY <1>2, <1>9
    <3> QED BY <1>6, <1>8, <1>10, <3>1, <3>2
  <2> QED BY <1>9, <2>1, <2>2
<1>12. p - total[k - 1] = o
  BY <1>2, <1>9
<1> QED BY <1>8, <1>11, <1>12 DEF total

(* Adding to a buffer with room leaves the totals alone, and adds one. *)
LEMMA AddRoomTotals ==
  ASSUME NEW b, Ring(b), Sized(b), ~ b.full, DOMAIN b.entry = Slots,
         NEW e, e.size \in Nat, NEW c, c = aesd_circular_buffer_add_entry(b, e)
  PROVE  Totals(c)[Retained(c)] = Totals(b)[Retained(b)] + e.size
<1> DEFINE n == Retained(b)
           now == Totals(b)
           then == Totals(c)
           Old(k) == b.entry[SlotAt(b, k)].size
           New(k) == c.entry[SlotAt(c, k)].size
           N == {k \in Nat : k \in 0 .. n => then[k] = now[k]}
<1>1. /\ n \in 0 .. Capacity - 1 /\ Retained(c) = n + 1 /\ b.in_offs \in Slots
      /\ \A k \in 1 .. n + 1 : SlotAt(c, k) = SlotAt(b, k)
      /\ SlotAt(b, n + 1) = b.in_offs
      /\ \A k \in 1 .. n : SlotAt(b, k) \in Slots \ {b.in_offs}
  BY AddRoomSlots DEF Ring
<1>2. c.entry = [b.entry EXCEPT ![b.in_offs] = e]
  BY DEF aesd_circular_buffer_add_entry
<1>3. New(n + 1) = e.size /\ \A k \in 1 .. n : New(k) = Old(k)
  BY <1>1, <1>2, SMTT(30)
<1>4. /\ now[0] = 0 /\ then[0] = 0
      /\ \A k \in 1 .. Capacity : now[k] = now[k - 1] + Old(k) /\ then[k] = then[k - 1] + New(k)
  BY TotalsDef
<1> HIDE DEF n, now, then, Old, New
<1>5. 0 \in N
  BY <1>4
<1>6. ASSUME NEW k \in Nat, k \in N PROVE k + 1 \in N
  <2> SUFFICES ASSUME k + 1 \in 0 .. n PROVE then[k + 1] = now[k + 1]
    OBVIOUS
  <2>1. k + 1 \in 1 .. n /\ k + 1 \in 1 .. Capacity /\ k \in 0 .. n /\ k + 1 - 1 = k
    BY <1>1
  <2> QED BY <1>3, <1>4, <1>6, <2>1
<1>7. Nat \subseteq N
  <2> HIDE DEF N
  <2> QED BY <1>5, <1>6, SetInduction
<1>8. then[n] = now[n] /\ n + 1 \in 1 .. Capacity /\ n + 1 - 1 = n
  BY <1>1, <1>7
<1>9. then[n + 1] = now[n] + e.size
  <2> DEFINE m == n + 1
  <2>1. m \in 1 .. Capacity /\ m - 1 = n
    BY <1>1, <1>8
  <2>2. New(m) = e.size
    BY <1>3
  <2> HIDE DEF m
  <2>3. then[m] = then[m - 1] + New(m)
    BY <1>4, <2>1
  <2>4. then[m] = now[n] + e.size
    BY <1>8, <2>1, <2>2, <2>3
  <2> QED BY <2>4 DEF m
<1> QED BY <1>1, <1>9 DEF n, now, then

(* Adding to a full buffer takes the oldest entry's size off. *)
LEMMA AddFullTotals ==
  ASSUME NEW b, Ring(b), Sized(b), b.full, DOMAIN b.entry = Slots,
         NEW e, e.size \in Nat, NEW c, c = aesd_circular_buffer_add_entry(b, e)
  PROVE  Totals(c)[Retained(c)]
           = Totals(b)[Retained(b)] - b.entry[b.out_offs].size + e.size
<1> DEFINE now == Totals(b)
           then == Totals(c)
           Old(k) == b.entry[SlotAt(b, k)].size
           New(k) == c.entry[SlotAt(c, k)].size
           last == Capacity - 1
           N == {k \in Nat : k \in 0 .. last => then[k] = now[k + 1] - now[1]}
<1>1. /\ Retained(b) = Capacity /\ Retained(c) = Capacity /\ b.in_offs \in Slots
      /\ b.out_offs = b.in_offs
      /\ \A k \in 1 .. last : /\ SlotAt(c, k) = SlotAt(b, k + 1)
                              /\ SlotAt(b, k + 1) \in Slots \ {b.in_offs}
      /\ SlotAt(c, Capacity) = b.in_offs /\ SlotAt(b, 1) = b.in_offs
  <2>1. b.in_offs \in Slots /\ b.out_offs = b.in_offs
    BY DEF Ring
  <2> HIDE DEF N
  <2> QED BY <2>1, AddFullSlots
<1>2. c.entry = [b.entry EXCEPT ![b.in_offs] = e]
  BY DEF aesd_circular_buffer_add_entry
<1>3. /\ New(Capacity) = e.size /\ Old(1) = b.entry[b.out_offs].size
      /\ \A k \in 1 .. last : New(k) = Old(k + 1)
  BY <1>1, <1>2
<1>4. /\ now[0] = 0 /\ then[0] = 0
      /\ \A k \in 1 .. Capacity : now[k] = now[k - 1] + Old(k) /\ then[k] = then[k - 1] + New(k)
  BY TotalsDef
<1>5. \A k \in 0 .. Capacity : now[k] \in Nat
  BY TotalsSum
<1>6. \A k \in 1 .. Capacity : Old(k) \in Nat
  BY RingSlots DEF Sized
<1> HIDE DEF now, then, Old, New
<1>7. 0 \in N
  <2>1. now[0 + 1] = now[1] /\ now[1] \in Nat
    BY <1>5
  <2> QED BY <1>4, <2>1
<1>8. ASSUME NEW k \in Nat, k \in N PROVE k + 1 \in N
  <2> SUFFICES ASSUME k + 1 \in 0 .. last PROVE then[k + 1] = now[k + 1 + 1] - now[1]
    OBVIOUS
  <2>1. /\ k + 1 \in 1 .. last /\ k + 1 \in 1 .. Capacity /\ k \in 0 .. last /\ k + 1 - 1 = k
        /\ k + 1 + 1 \in 1 .. Capacity /\ k + 1 + 1 - 1 = k + 1 /\ k + 1 \in 0 .. Capacity
        /\ 1 \in 0 .. Capacity
    OBVIOUS
  <2>2. then[k] = now[k + 1] - now[1]
    BY <1>8, <2>1
  <2>3. then[k + 1] = then[k] + Old(k + 1 + 1)
    BY <1>3, <1>4, <2>1
  <2>4. now[k + 1 + 1] = now[k + 1] + Old(k + 1 + 1)
    BY <1>4, <2>1
  <2>5. now[k + 1] \in Nat /\ now[1] \in Nat /\ Old(k + 1 + 1) \in Nat
    BY <1>5, <1>6, <2>1
  <2> QED BY <2>2, <2>3, <2>4, <2>5
<1>9. Nat \subseteq N
  <2> HIDE DEF N
  <2> QED BY <1>7, <1>8, SetInduction
<1>10. then[last] = now[Capacity] - now[1]
  <2>1. last \in Nat /\ last \in 0 .. last /\ last + 1 = Capacity
    OBVIOUS
  <2> HIDE DEF last
  <2> QED BY <1>9, <2>1
<1>11. then[Capacity] = then[last] + e.size
  BY <1>3, <1>4
<1>12. now[1] = b.entry[b.out_offs].size
  <2>1. now[1] = now[1 - 1] + Old(1) /\ Old(1) \in Nat
    BY <1>4, <1>6
  <2> QED BY <1>3, <1>4, <2>1
<1>13. now[Capacity] \in Nat /\ now[1] \in Nat
  BY <1>5
<1> QED BY <1>1, <1>10, <1>11, <1>12, <1>13 DEF now, then
=============================================================================
