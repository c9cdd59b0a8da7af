-------------------------- MODULE AllocLimitProofs --------------------------
(***************************************************************************)
(* Theorems about AllocLimit, for any finite set of addresses, any sizes   *)
(* and limits, and any behaviour of the C allocator.                       *)
(*                                                                         *)
(* The argument goes through the limiter's operators.  Each of them takes  *)
(* a limiter whose books balance to one whose books balance, and keeps its *)
(* mode and limit; an action then only has to be seen to apply them under  *)
(* their preconditions.                                                    *)
(***************************************************************************)
EXTENDS AllocLimit, FiniteSetTheorems, SequenceTheorems, TLAPS

-----------------------------------------------------------------------------
(***************************************************************************)
(* Facts about Volume, the sum that the budget properties speak of: what   *)
(* one entry adds, and how two sums compare.  No induction: a sum is the   *)
(* cardinality of a set, and an entry's share of it is an interval.        *)
(***************************************************************************)
(* The elements of Bytes(f), one by one.                                   *)
LEMMA BytesMember ==
  ASSUME NEW K, NEW max \in Nat, NEW f \in [K -> 0 .. max], NEW x
  PROVE  x \in Bytes(f) <=> \E k \in K : \E b \in 1 .. f[k] : x = <<k, b>>
BY DEF Bytes

(* A sum of finitely many bounded numbers is a number.                     *)
LEMMA VolumeType ==
  ASSUME NEW K, IsFiniteSet(K), NEW max \in Nat, NEW f \in [K -> 0 .. max]
  PROVE  IsFiniteSet(Bytes(f)) /\ Volume(f) \in Nat
<1>1. IsFiniteSet(1 .. max)
  BY FS_Interval
<1>2. IsFiniteSet(K \X (1 .. max))
  BY <1>1, FS_Product
<1>3. Bytes(f) \subseteq K \X (1 .. max)
  BY BytesMember
<1>4. IsFiniteSet(Bytes(f))
  BY <1>2, <1>3, FS_Subset
<1>. QED
  BY <1>4, FS_CardinalityType DEF Volume

(* One entry's share of the sum is its value.                              *)
LEMMA OneEntry ==
  ASSUME NEW k, NEW n \in Nat
  PROVE  IsFiniteSet({k} \X (1 .. n)) /\ Cardinality({k} \X (1 .. n)) = n
<1>1. IsFiniteSet(1 .. n) /\ Cardinality(1 .. n) = n
  BY FS_Interval
<1>2. IsFiniteSet({k}) /\ Cardinality({k}) = 1
  BY FS_Singleton
<1>. QED
  BY <1>1, <1>2, FS_Product

(* The sum is an entry and the rest.                                       *)
Others(f, k) == {x \in Bytes(f) : x[1] # k}

LEMMA VolumeSplit ==
  ASSUME NEW K, IsFiniteSet(K), NEW max \in Nat, NEW f \in [K -> 0 .. max],
         NEW k \in K
  PROVE  /\ IsFiniteSet(Others(f, k))
         /\ Volume(f) = Cardinality(Others(f, k)) + f[k]
<1>1. IsFiniteSet(Bytes(f))
  BY VolumeType
<1>2. IsFiniteSet(Others(f, k))
  BY <1>1, FS_Subset DEF Others
<1>3. Bytes(f) = Others(f, k) \cup ({k} \X (1 .. f[k]))
  BY BytesMember DEF Others
<1>4. Others(f, k) \cap ({k} \X (1 .. f[k])) = {}
  BY DEF Others
<1>5. f[k] \in Nat
  OBVIOUS
<1>6. IsFiniteSet({k} \X (1 .. f[k])) /\ Cardinality({k} \X (1 .. f[k])) = f[k]
  BY <1>5, OneEntry
<1>7. Cardinality(Others(f, k)) \in Nat
  BY <1>2, FS_CardinalityType
<1>8. Cardinality(Bytes(f)) =
        Cardinality(Others(f, k)) + f[k] - Cardinality({})
  BY <1>2, <1>3, <1>4, <1>6, FS_Union
<1>. QED
  BY <1>2, <1>5, <1>7, <1>8, FS_EmptySet DEF Volume

(* Changing one entry changes the sum by the difference.                   *)
LEMMA VolumeUpdate ==
  ASSUME NEW K, IsFiniteSet(K), NEW max \in Nat,
         NEW f \in [K -> 0 .. max], NEW g \in [K -> 0 .. max],
         NEW k \in K, \A j \in K : j # k => g[j] = f[j]
  PROVE  Volume(g) = Volume(f) - f[k] + g[k]
<1>1. Others(g, k) = Others(f, k)
  BY BytesMember DEF Others
<1>2. Volume(f) = Cardinality(Others(f, k)) + f[k]
  BY VolumeSplit
<1>3. Volume(g) = Cardinality(Others(f, k)) + g[k]
  BY <1>1, VolumeSplit
<1>4. Cardinality(Others(f, k)) \in Nat
  BY VolumeSplit, FS_CardinalityType
<1>5. f[k] \in Nat /\ g[k] \in Nat
  OBVIOUS
<1>. QED
  BY <1>2, <1>3, <1>4, <1>5

(* A sum of zeros.                                                         *)
LEMMA VolumeZero ==
  ASSUME NEW K, NEW f \in [K -> {0}]
  PROVE  Volume(f) = 0
<1>1. f \in [K -> 0 .. 0] /\ \A k \in K : 1 .. f[k] = {}
  OBVIOUS
<1>2. Bytes(f) = {}
  BY <1>1, BytesMember
<1>. QED
  BY <1>2, FS_EmptySet DEF Volume

(* Entries that find distinct entries at least as large in another sum add *)
(* up to no more than that sum.                                            *)
LEMMA VolumeInjection ==
  ASSUME NEW K, NEW L, IsFiniteSet(L), NEW max \in Nat,
         NEW f \in [K -> 0 .. max], NEW g \in [L -> 0 .. max],
         NEW i \in [K -> L],
         \A j, k \in K : i[j] = i[k] => j = k,
         \A k \in K : f[k] <= g[i[k]]
  PROVE  Volume(f) <= Volume(g)
<1>. DEFINE h == [x \in Bytes(f) |-> <<i[x[1]], x[2]>>]
<1>1. \A x \in Bytes(f) : x[1] \in K /\ x[2] \in 1 .. f[x[1]] /\ x = <<x[1], x[2]>>
  BY BytesMember
<1>2. \A x \in Bytes(f) : <<i[x[1]], x[2]>> \in Bytes(g)
  <2>. TAKE x \in Bytes(f)
  <2>1. i[x[1]] \in L /\ f[x[1]] \in Nat /\ g[i[x[1]]] \in Nat
    BY <1>1
  <2>2. x[2] \in 1 .. g[i[x[1]]]
    BY <1>1, <2>1
  <2>. QED
    BY <2>1, <2>2, BytesMember
<1>3. h \in [Bytes(f) -> Bytes(g)]
  BY <1>2
<1>4. \A x, y \in Bytes(f) : h[x] = h[y] => x = y
  BY <1>1
<1>5. h \in Injection(Bytes(f), Bytes(g))
  BY <1>3, <1>4 DEF Injection, IsInjective
<1>6. IsFiniteSet(Bytes(g))
  BY VolumeType
<1>. QED
  BY <1>5, <1>6, FS_Injection DEF Volume

-----------------------------------------------------------------------------
(* Stacks of records, and what the operators do to one.                    *)

LEMMA StackMember ==
  ASSUME NEW t
  PROVE  t \in Stacks <=> t \in Seq(Size) /\ Len(t) <= MaxRecords
<1>1. ASSUME t \in Stacks PROVE t \in Seq(Size) /\ Len(t) <= MaxRecords
  <2>1. PICK k \in 0 .. MaxRecords : t \in [1 .. k -> Size]
    BY <1>1 DEF Stacks
  <2>2. k \in Nat
    BY <2>1, AllocAssumption DEF AllocAssumption
  <2>3. t \in Seq(Size) /\ Len(t) = k
    BY <2>1, <2>2
  <2>. QED
    BY <2>1, <2>3, AllocAssumption DEF AllocAssumption
<1>2. ASSUME t \in Seq(Size), Len(t) <= MaxRecords PROVE t \in Stacks
  <2>1. Len(t) \in 0 .. MaxRecords /\ t \in [1 .. Len(t) -> Size]
    BY <1>2, AllocAssumption DEF AllocAssumption
  <2>. QED
    BY <2>1 DEF Stacks
<1>. QED
  BY <1>1, <1>2

LEMMA StackPush ==
  ASSUME NEW t \in Stacks, NEW n \in Size, Len(t) < MaxRecords
  PROVE  /\ Append(t, n) \in Stacks
         /\ Append(t, n) # << >>
         /\ Len(t) + 1 \in 1 .. MaxRecords
         /\ Len(Append(t, n)) = Len(t) + 1
         /\ DOMAIN t = 1 .. Len(t)
         /\ DOMAIN Append(t, n) = 1 .. Len(t) + 1
         /\ Append(t, n)[Len(t) + 1] = n
         /\ \A i \in 1 .. Len(t) : Append(t, n)[i] = t[i]
<1>1. t \in Seq(Size) /\ Len(t) \in Nat /\ MaxRecords \in Nat
  BY StackMember, LenProperties, AllocAssumption DEF AllocAssumption
<1>2. /\ Append(t, n) \in Seq(Size)
      /\ Len(Append(t, n)) = Len(t) + 1
      /\ Append(t, n) # << >>
      /\ Append(t, n)[Len(t) + 1] = n
      /\ \A i \in 1 .. Len(t) : Append(t, n)[i] = t[i]
  BY <1>1, AppendProperties
<1>3. DOMAIN t = 1 .. Len(t) /\ DOMAIN Append(t, n) = 1 .. Len(t) + 1
  BY <1>1, <1>2, LenProperties
<1>4. Len(Append(t, n)) <= MaxRecords
  BY <1>1, <1>2
<1>5. Append(t, n) \in Stacks
  BY <1>2, <1>4, StackMember, Zenon
<1>. QED
  BY <1>1, <1>2, <1>3, <1>5

LEMMA StackPop ==
  ASSUME NEW t \in Stacks, t # << >>
  PROVE  /\ Len(t) \in 1 .. MaxRecords
         /\ t[Len(t)] \in Size
         /\ SubSeq(t, 1, Len(t) - 1) \in Stacks
         /\ DOMAIN t = 1 .. Len(t)
         /\ DOMAIN SubSeq(t, 1, Len(t) - 1) = 1 .. Len(t) - 1
         /\ \A i \in 1 .. Len(t) - 1 : SubSeq(t, 1, Len(t) - 1)[i] = t[i]
<1>1. t \in Seq(Size) /\ Len(t) \in Nat /\ Len(t) <= MaxRecords /\ MaxRecords \in Nat
  BY StackMember, LenProperties, AllocAssumption DEF AllocAssumption
<1>2. Len(t) \in Nat \ {0}
  BY <1>1, EmptySeq
<1>3. \A i \in 1 .. Len(t) : t[i] \in Size
  BY <1>1, ElementOfSeq
<1>4. /\ SubSeq(t, 1, Len(t) - 1) \in Seq(Size)
      /\ Len(SubSeq(t, 1, Len(t) - 1)) = Len(t) - 1
      /\ \A i \in 1 .. Len(t) - 1 : SubSeq(t, 1, Len(t) - 1)[i] = t[i]
  <2>. DEFINE m == Len(t) - 1
              u == SubSeq(t, 1, m)
  <2>1. m \in Int /\ \A i \in 1 .. m : t[i] \in Size
    BY <1>2, <1>3
  <2>2. /\ u \in Seq(Size)
        /\ Len(u) = IF 1 <= m THEN m - 1 + 1 ELSE 0
        /\ \A i \in 1 .. m - 1 + 1 : u[i] = t[1 + i - 1]
    BY <2>1, SubSeqProperties
  <2>3. m \in Nat /\ m - 1 + 1 = m
    BY <1>2
  <2>. HIDE DEF m, u
  <2>4. u \in Seq(Size) /\ Len(u) = m /\ \A i \in 1 .. m : u[i] = t[i]
    BY <2>2, <2>3
  <2>. QED
    BY <2>4 DEF m, u
<1>5. /\ DOMAIN t = 1 .. Len(t)
      /\ DOMAIN SubSeq(t, 1, Len(t) - 1) = 1 .. Len(t) - 1
  BY <1>1, <1>4, LenProperties
<1>6. Len(SubSeq(t, 1, Len(t) - 1)) <= MaxRecords
  BY <1>1, <1>2, <1>4
<1>7. SubSeq(t, 1, Len(t) - 1) \in Stacks
  BY <1>4, <1>6, StackMember, Zenon
<1>. QED
  BY <1>1, <1>2, <1>3, <1>4, <1>5, <1>7

LEMMA StackChange ==
  ASSUME NEW t \in Stacks, t # << >>, NEW n \in Size
  PROVE  /\ [t EXCEPT ![Len(t)] = n] \in Stacks
         /\ [t EXCEPT ![Len(t)] = n] # << >>
         /\ Len([t EXCEPT ![Len(t)] = n]) = Len(t)
         /\ [t EXCEPT ![Len(t)] = n][Len(t)] = n
<1>1. t \in Seq(Size) /\ Len(t) \in 1 .. MaxRecords
  BY StackMember, StackPop
<1>2. /\ [t EXCEPT ![Len(t)] = n] \in Seq(Size)
      /\ Len([t EXCEPT ![Len(t)] = n]) = Len(t)
      /\ [t EXCEPT ![Len(t)] = n][Len(t)] = n
  BY <1>1, ExceptSeq
<1>3. [t EXCEPT ![Len(t)] = n] # << >>
  BY <1>1, <1>2, EmptySeq
<1>. QED
  BY <1>1, <1>2, <1>3, StackMember

LEMMA NoRecordsType == NoRecords \in [Pointer -> Stacks]
<1>1. << >> \in Seq(Size) /\ Len(<< >>) <= MaxRecords
  BY EmptySeq, AllocAssumption DEF AllocAssumption
<1>2. << >> \in Stacks
  BY <1>1, StackMember, Zenon
<1>. QED
  BY <1>2 DEF NoRecords

-----------------------------------------------------------------------------
(* The sum of the records, after each of the three changes.                *)

Slots == Pointer \X (1 .. MaxRecords)

LEMMA RecordSizesType ==
  ASSUME NEW list \in [Pointer -> Stacks]
  PROVE  /\ IsFiniteSet(Slots)
         /\ RecordSizes(list) \in [Slots -> 0 .. SizeMax]
         /\ Volume(RecordSizes(list)) \in Nat
<1>1. IsFiniteSet(Slots)
  <2>1. IsFiniteSet(1 .. MaxRecords)
    BY FS_Interval, AllocAssumption DEF AllocAssumption
  <2>2. IsFiniteSet(Pointer)
    BY AllocAssumption DEF AllocAssumption
  <2>. QED
    BY <2>1, <2>2, FS_Product, Zenon DEF Slots
<1>2. RecordSizes(list) \in [Slots -> 0 .. SizeMax]
  <2>1. ASSUME NEW k \in Slots, k[2] \in DOMAIN list[k[1]]
        PROVE  list[k[1]][k[2]] \in Size
    <3>1. list[k[1]] \in Seq(Size)
      BY StackMember DEF Slots
    <3>. QED
      BY <2>1, <3>1, LenProperties, ElementOfSeq
  <2>. QED
    BY <2>1, SizeMaxAssumption DEF RecordSizes, Slots, Size, SizeMaxAssumption
<1>. QED
  BY <1>1, <1>2, VolumeType, SizeMaxAssumption DEF SizeMaxAssumption

LEMMA SumOfNone == Volume(RecordSizes(NoRecords)) = 0
<1>1. RecordSizes(NoRecords) \in [Slots -> {0}]
  BY DEF RecordSizes, NoRecords, Slots
<1>. QED
  BY <1>1, VolumeZero

LEMMA SlotUpdate ==
  ASSUME NEW old \in [Pointer -> Stacks], NEW new \in [Pointer -> Stacks],
         NEW slot \in Slots,
         \A k \in Slots : k # slot => RecordSizes(new)[k] = RecordSizes(old)[k]
  PROVE  Volume(RecordSizes(new)) =
           Volume(RecordSizes(old)) - RecordSizes(old)[slot] + RecordSizes(new)[slot]
<1>1. /\ IsFiniteSet(Slots)
      /\ RecordSizes(old) \in [Slots -> 0 .. SizeMax]
      /\ RecordSizes(new) \in [Slots -> 0 .. SizeMax]
  BY RecordSizesType
<1>2. SizeMax \in Nat
  BY SizeMaxAssumption DEF SizeMaxAssumption
<1>. QED
  BY <1>1, <1>2, VolumeUpdate

LEMMA SumAfterPush ==
  ASSUME NEW list \in [Pointer -> Stacks], NEW p \in Pointer, NEW n \in Size,
         Len(list[p]) < MaxRecords
  PROVE  /\ [list EXCEPT ![p] = Append(@, n)] \in [Pointer -> Stacks]
         /\ Volume(RecordSizes([list EXCEPT ![p] = Append(@, n)]))
              = Volume(RecordSizes(list)) + n
<1>. DEFINE new  == [list EXCEPT ![p] = Append(@, n)]
            slot == <<p, Len(list[p]) + 1>>
<1>1. new \in [Pointer -> Stacks]
  BY StackPush
<1>2. slot \in Slots /\ RecordSizes(list)[slot] = 0 /\ RecordSizes(new)[slot] = n
  BY StackPush DEF Slots, RecordSizes
<1>3. \A k \in Slots : k # slot => RecordSizes(new)[k] = RecordSizes(list)[k]
  BY StackPush DEF Slots, RecordSizes
<1>4. Volume(RecordSizes(list)) \in Nat
  BY RecordSizesType
<1>. HIDE DEF new, slot
<1>5. Volume(RecordSizes(new)) = Volume(RecordSizes(list)) - 0 + n
  BY <1>1, <1>2, <1>3, SlotUpdate
<1>. QED
  BY <1>1, <1>4, <1>5 DEF Size, new

LEMMA SumAfterPop ==
  ASSUME NEW list \in [Pointer -> Stacks], NEW p \in Pointer, list[p] # << >>
  PROVE  /\ [list EXCEPT ![p] = SubSeq(@, 1, Len(@) - 1)] \in [Pointer -> Stacks]
         /\ list[p][Len(list[p])] \in Size
         /\ Volume(RecordSizes([list EXCEPT ![p] = SubSeq(@, 1, Len(@) - 1)]))
              = Volume(RecordSizes(list)) - list[p][Len(list[p])]
         /\ list[p][Len(list[p])] <= Volume(RecordSizes(list))
<1>. DEFINE new  == [list EXCEPT ![p] = SubSeq(@, 1, Len(@) - 1)]
            slot == <<p, Len(list[p])>>
            size == list[p][Len(list[p])]
<1>1. new \in [Pointer -> Stacks] /\ size \in Size
  BY StackPop
<1>2. slot \in Slots /\ RecordSizes(list)[slot] = size /\ RecordSizes(new)[slot] = 0
  BY StackPop DEF Slots, RecordSizes
<1>3. \A k \in Slots : k # slot => RecordSizes(new)[k] = RecordSizes(list)[k]
  BY StackPop DEF Slots, RecordSizes
<1>4. Volume(RecordSizes(new)) \in Nat /\ Volume(RecordSizes(list)) \in Nat
  BY <1>1, RecordSizesType
<1>. HIDE DEF new, slot, size
<1>5. Volume(RecordSizes(new)) = Volume(RecordSizes(list)) - size + 0
  BY <1>1, <1>2, <1>3, SlotUpdate
<1>. QED
  BY <1>1, <1>4, <1>5 DEF Size, new, size

LEMMA SumAfterChange ==
  ASSUME NEW list \in [Pointer -> Stacks], NEW p \in Pointer, list[p] # << >>,
         NEW n \in Size
  PROVE  /\ [list EXCEPT ![p][Len(list[p])] = n] \in [Pointer -> Stacks]
         /\ Volume(RecordSizes([list EXCEPT ![p][Len(list[p])] = n]))
              = Volume(RecordSizes(list)) - list[p][Len(list[p])] + n
<1>. DEFINE new  == [list EXCEPT ![p][Len(list[p])] = n]
            slot == <<p, Len(list[p])>>
<1>1. new = [list EXCEPT ![p] = [list[p] EXCEPT ![Len(list[p])] = n]]
  OBVIOUS
<1>2. new \in [Pointer -> Stacks]
  BY <1>1, StackChange
<1>3. /\ slot \in Slots
      /\ RecordSizes(list)[slot] = list[p][Len(list[p])]
      /\ RecordSizes(new)[slot] = n
  BY <1>1, StackPop DEF Slots, RecordSizes
<1>4. \A k \in Slots : k # slot => RecordSizes(new)[k] = RecordSizes(list)[k]
  BY <1>1, StackPop DEF Slots, RecordSizes
<1>. HIDE DEF new, slot
<1>5. Volume(RecordSizes(new)) =
        Volume(RecordSizes(list)) - list[p][Len(list[p])] + n
  BY <1>2, <1>3, <1>4, SlotUpdate
<1>. QED
  BY <1>2, <1>5 DEF new

-----------------------------------------------------------------------------
(***************************************************************************)
(* The limiter's operators.  Balanced is LedgerBalanced, said of a limiter *)
(* value; Kept says that the mode and the limit are not touched.           *)
(***************************************************************************)
Balanced(s) ==
  IF s.state = "LIMIT_PEAK"
  THEN s.remaining + Volume(RecordSizes(s.list)) = s.limit
  ELSE s.list = NoRecords

Sound(s) == s \in Limiter /\ Balanced(s)

Kept(s, r) == r.state = s.state /\ r.limit = s.limit

LEMMA WrapInside ==
  ASSUME NEW x \in Size
  PROVE  Wrap(x) = x
BY SizeMaxAssumption DEF Wrap, Size, Modulus, SizeMaxAssumption

(* A setter leaves no record and the whole limit.                          *)
LEMMA SetLimiterSound ==
  ASSUME NEW mode \in Modes, NEW n \in Size
  PROVE  Sound(SetLimiter(mode, n))
<1>1. SetLimiter(mode, n) \in Limiter
  BY NoRecordsType DEF SetLimiter, Limiter
<1>2. Balanced(SetLimiter(mode, n))
  BY SumOfNone DEF SetLimiter, Balanced, Size
<1>. QED
  BY <1>1, <1>2 DEF Sound

(* Adding a record and taking its size from what remains.                  *)
LEMMA RememberSound ==
  ASSUME NEW s, Sound(s), s.state = "LIMIT_PEAK", NEW p \in Pointer,
         NEW n \in Size, n <= s.remaining, Room(s, p),
         NEW r, r = [remember_allocation(s, p, n) EXCEPT !.remaining = s.remaining - n]
  PROVE  Sound(r) /\ Kept(s, r)
<1>1. s \in Limiter /\ s.list \in [Pointer -> Stacks] /\ s.remaining \in Size
  BY DEF Sound, Limiter
<1>2. s.remaining - n \in Size
  BY <1>1, SizeMaxAssumption DEF Size, SizeMaxAssumption
<1>3. r = [s EXCEPT !.list = [s.list EXCEPT ![p] = Append(@, n)],
                    !.remaining = s.remaining - n]
  BY <1>1 DEF remember_allocation, Limiter
<1>4. /\ [s.list EXCEPT ![p] = Append(@, n)] \in [Pointer -> Stacks]
      /\ Volume(RecordSizes([s.list EXCEPT ![p] = Append(@, n)]))
           = Volume(RecordSizes(s.list)) + n
  BY <1>1, SumAfterPush DEF Room
<1>5. r \in Limiter /\ Kept(s, r)
  BY <1>1, <1>2, <1>3, <1>4 DEF Limiter, Kept
<1>6. r.remaining = s.remaining - n /\ r.list = [s.list EXCEPT ![p] = Append(@, n)]
  BY <1>1, <1>3 DEF Limiter
<1>7. Volume(RecordSizes(s.list)) \in Nat /\ s.remaining \in Nat /\ n \in Nat
  BY <1>1, RecordSizesType DEF Size
<1>8. Balanced(r)
  BY <1>4, <1>5, <1>6, <1>7 DEF Balanced, Sound, Kept
<1>. QED
  BY <1>5, <1>8 DEF Sound

(* A grant, once it has been tested for.                                   *)
LEMMA DidAllocSound ==
  ASSUME NEW s, Sound(s), NEW p \in Pointer, NEW n \in Size,
         alloc_limit_may_alloc(s, n), s.state = "LIMIT_PEAK" => Room(s, p),
         NEW r, r = alloc_limit_did_alloc(s, p, n)
  PROVE  /\ Sound(r) /\ Kept(s, r)
         /\ Limited(s) => r.remaining = s.remaining - n
<1>1. s \in Limiter /\ s.remaining \in Size
  BY DEF Sound, Limiter
<1>2. CASE s.state = "LIMIT_PEAK"
  <2>1. n <= s.remaining
    BY <1>1, <1>2 DEF alloc_limit_may_alloc, Limited, Size
  <2>2. Wrap(s.remaining - n) = s.remaining - n
    BY <1>1, <2>1, WrapInside, SizeMaxAssumption DEF Size, SizeMaxAssumption
  <2>3. remember_allocation(s, p, n).remaining = s.remaining
    BY <1>1 DEF remember_allocation, Limiter
  <2>4. r = [remember_allocation(s, p, n) EXCEPT !.remaining = s.remaining - n]
    BY <1>2, <2>2, <2>3 DEF alloc_limit_did_alloc, Limited
  <2>5. r.remaining = s.remaining - n
    BY <1>1, <2>4 DEF remember_allocation, Limiter
  <2>. QED
    BY <1>2, <2>1, <2>4, <2>5, RememberSound
<1>3. CASE s.state = "LIMIT_TOTAL"
  <2>1. n <= s.remaining
    BY <1>1, <1>3 DEF alloc_limit_may_alloc, Limited, Size
  <2>2. Wrap(s.remaining - n) = s.remaining - n /\ s.remaining - n \in Size
    BY <1>1, <2>1, WrapInside, SizeMaxAssumption DEF Size, SizeMaxAssumption
  <2>3. r = [s EXCEPT !.remaining = s.remaining - n]
    BY <1>3, <2>2 DEF alloc_limit_did_alloc, Limited
  <2>. QED
    BY <1>1, <1>3, <2>2, <2>3 DEF Sound, Limiter, Balanced, Kept
<1>4. CASE ~ Limited(s)
  BY <1>4 DEF alloc_limit_did_alloc, Kept, Limited
<1>. QED
  BY <1>2, <1>3, <1>4 DEF Limited

(* Giving back what the newest record says.                                *)
LEMMA WillFreeSound ==
  ASSUME NEW s, Sound(s), NEW p \in Pointer,
         NEW r, r = alloc_limit_will_free(s, p)
  PROVE  /\ Sound(r) /\ Kept(s, r)
         /\ s.state # "LIMIT_PEAK" => r = s
<1>1. s \in Limiter /\ s.list \in [Pointer -> Stacks] /\ s.remaining \in Size
      /\ s.limit \in Size
  BY DEF Sound, Limiter
<1>2. CASE s.state = "LIMIT_PEAK" /\ Recorded(s, p)
  <2>. DEFINE size == s.list[p][Len(s.list[p])]
              rest == [s.list EXCEPT ![p] = SubSeq(@, 1, Len(@) - 1)]
  <2>1. /\ rest \in [Pointer -> Stacks]
        /\ size \in Size
        /\ Volume(RecordSizes(rest)) = Volume(RecordSizes(s.list)) - size
        /\ size <= Volume(RecordSizes(s.list))
    BY <1>1, <1>2, SumAfterPop DEF Recorded
  <2>2. Volume(RecordSizes(s.list)) \in Nat
    BY <1>1, RecordSizesType
  <2>3. s.remaining + Volume(RecordSizes(s.list)) = s.limit
    BY <1>2 DEF Sound, Balanced
  <2>4. s.remaining + size \in Size
    <3>. HIDE DEF size, rest
    <3>. QED
      BY <1>1, <2>1, <2>2, <2>3, SizeMaxAssumption DEF Size, SizeMaxAssumption
  <2>5. RecordSize(s, p) = size
    BY <1>2 DEF RecordSize
  <2>6. r = [s EXCEPT !.remaining = s.remaining + size, !.list = rest]
    BY <1>1, <1>2, <2>4, <2>5, WrapInside
    DEF alloc_limit_will_free, forget_allocation, Limiter
  <2>. HIDE DEF size, rest
  <2>7. /\ r \in Limiter /\ Kept(s, r)
        /\ r.remaining = s.remaining + size /\ r.list = rest
    BY <1>1, <2>1, <2>4, <2>6 DEF Limiter, Kept
  <2>8. Balanced(r)
    BY <1>1, <1>2, <2>1, <2>2, <2>3, <2>7 DEF Balanced, Kept, Size
  <2>. QED
    BY <1>2, <2>7, <2>8 DEF Sound
<1>3. CASE ~ (s.state = "LIMIT_PEAK" /\ Recorded(s, p))
  BY <1>3 DEF alloc_limit_will_free, forget_allocation, Kept
<1>. QED
  BY <1>2, <1>3

(* The unsigned difference: what it leaves of the budget and of a record.  *)
LEMMA UnsignedChange ==
  ASSUME NEW old \in Size, NEW n \in Size, NEW left \in Size,
         n - old <= left, left + old - n <= SizeMax
  PROVE  /\ Wrap(left - Wrap(n - old)) = left + old - n
         /\ Wrap(old + Wrap(n - old)) = n
         /\ left + old - n \in Size
<1>1. SizeMax \in Nat /\ Modulus = SizeMax + 1
  BY SizeMaxAssumption DEF SizeMaxAssumption, Modulus
<1>2. CASE n >= old
  <2>1. Wrap(n - old) = n - old
    BY <1>1, <1>2 DEF Wrap, Size
  <2>. QED
    BY <1>1, <1>2, <2>1 DEF Wrap, Size
<1>3. CASE n < old
  <2>1. Wrap(n - old) = n - old + Modulus
    BY <1>1, <1>3 DEF Wrap, Size
  <2>. QED
    BY <1>1, <1>3, <2>1 DEF Wrap, Size
<1>. QED
  BY <1>2, <1>3 DEF Size

(* The bookkeeping of realloc_with_peak_limit, wherever the block went.    *)
LEMMA DidReallocSound ==
  ASSUME NEW s, Sound(s), s.state = "LIMIT_PEAK",
         NEW p \in Pointer, NEW q \in Pointer, NEW n \in Size,
         alloc_limit_may_alloc(s, Needed(s, p, n)),
         ~ Recorded(s, p) => Room(s, q),
         NEW r, r = did_realloc(s, p, q, n)
  PROVE  Sound(r) /\ Kept(s, r)
<1>1. s \in Limiter /\ s.list \in [Pointer -> Stacks] /\ s.remaining \in Size
      /\ s.limit \in Size
  BY DEF Sound, Limiter
<1>2. Volume(RecordSizes(s.list)) \in Nat
  BY <1>1, RecordSizesType
<1>3. s.remaining + Volume(RecordSizes(s.list)) = s.limit
  BY DEF Sound, Balanced
<1>4. CASE Recorded(s, p)
  <2>. DEFINE old  == s.list[p][Len(s.list[p])]
              left == s.remaining + old - n
              list == [s.list EXCEPT ![p][Len(s.list[p])] = n]
  <2>1. RecordSize(s, p) = old
    BY <1>4 DEF RecordSize
  <2>2. old \in Size /\ old <= Volume(RecordSizes(s.list))
    BY <1>1, <1>4, SumAfterPop DEF Recorded
  <2>3. /\ list \in [Pointer -> Stacks]
        /\ Volume(RecordSizes(list)) = Volume(RecordSizes(s.list)) - old + n
    BY <1>1, <1>4, SumAfterChange DEF Recorded
  <2>4. n - old <= s.remaining /\ left <= SizeMax
    <3>1. Needed(s, p, n) = IF n > old THEN n - old ELSE 0
      BY <2>1 DEF Needed
    <3>2. Needed(s, p, n) <= s.remaining
      <4>. HIDE DEF old
      <4>. QED
        BY <1>1, <2>2, <3>1 DEF alloc_limit_may_alloc, Limited, Size
    <3>3. SizeMax \in Nat
      BY SizeMaxAssumption DEF SizeMaxAssumption
    <3>. HIDE DEF old
    <3>4. n > old => n - old <= s.remaining
      BY <3>1, <3>2
    <3>5. CASE n > old
      BY <1>1, <2>2, <3>3, <3>4, <3>5 DEF Size
    <3>6. CASE n <= old
      BY <1>1, <1>2, <1>3, <2>2, <3>3, <3>6 DEF Size
    <3>. QED
      BY <2>2, <3>5, <3>6 DEF Size
  <2>5. /\ Wrap(s.remaining - Wrap(n - old)) = left
        /\ Wrap(old + Wrap(n - old)) = n
        /\ left \in Size
    BY <1>1, <2>2, <2>4, UnsignedChange
  <2>6. r = [s EXCEPT !.remaining = left, !.list = list]
    BY <1>1, <1>4, <2>1, <2>5 DEF did_realloc, Limiter
  <2>7. r \in Limiter /\ Kept(s, r) /\ r.remaining = left /\ r.list = list
    <3>. HIDE DEF left, list
    <3>. QED
      BY <1>1, <2>3, <2>5, <2>6 DEF Limiter, Kept
  <2>8. Balanced(r)
    <3>1. left + (Volume(RecordSizes(s.list)) - old + n) = s.limit
      <4>. HIDE DEF old
      <4>. QED
        BY <1>1, <1>2, <1>3, <2>2 DEF Size
    <3>. QED
      BY <2>3, <2>7, <3>1 DEF Balanced, Kept
  <2>. QED
    BY <2>7, <2>8 DEF Sound
<1>5. CASE ~ Recorded(s, p)
  <2>1. RecordSize(s, p) = 0
    BY <1>5 DEF RecordSize
  <2>2. n <= s.remaining
    BY <1>1, <2>1 DEF alloc_limit_may_alloc, Limited, Size, Needed
  <2>3. Wrap(s.remaining - Wrap(n - 0)) = s.remaining - n
    BY <1>1, <2>2, WrapInside, SizeMaxAssumption DEF Size, SizeMaxAssumption
  <2>4. r = [remember_allocation(s, q, n) EXCEPT !.remaining = s.remaining - n]
    BY <1>1, <1>5, <2>1, <2>3 DEF did_realloc, remember_allocation, Limiter
  <2>. QED
    BY <1>5, <2>2, <2>4, RememberSound
<1>. QED
  BY <1>4, <1>5

-----------------------------------------------------------------------------
(***************************************************************************)
(* The inductive invariant.  The two balances need the types, and one      *)
(* fact of their own: before the first call, and while there is no limit,  *)
(* nothing is counted, so that a limit found in the environment starts     *)
(* from nothing and a block that moves leaves no count behind.             *)
(***************************************************************************)
Statuses == {"running", "exit 254", "exit 255", "SIGFPE", "double free"}

MemoryOK ==
  /\ env \in Environments
  /\ heap \in [Pointer -> Size \cup {Vacant}]
  /\ status \in Statuses
  /\ reply \in Replies
  /\ counted \subseteq Live
  /\ spent \in Nat

FreshStart ==
  /\ alloc_limit_state = "UNINITIALIZED" => spent = 0
  /\ alloc_limit_state \in {"UNINITIALIZED", "NO_LIMIT"} => counted = {}

IInv == TypeOK /\ LedgerBalanced /\ SpentBalanced /\ FreshStart

(* What remains of a total limit, said of a limiter value.                 *)
Spends(s, n) == s.state = "LIMIT_TOTAL" => s.remaining + n = s.limit

LEMMA EnvLimiter ==
  ASSUME NEW e \in Environment
  PROVE  EnvMode(e) \in Modes /\ EnvBytes(e) \in Size
<1>1. ASSUME NEW v \in EnvText
      PROVE  get_limit(v).out \in Size
  <2>1. v.size \in Nat /\ Factor(v.unit) \in Nat
    BY <1>1 DEF EnvText, Factor, Size
  <2>2. v.size * Factor(v.unit) \in Nat
    BY <2>1
  <2>3. Modulus \in Nat \ {0} /\ Size = 0 .. Modulus - 1 /\ 0 \in Size
    BY SizeMaxAssumption DEF SizeMaxAssumption, Modulus, Size
  <2>. DEFINE x == v.size * Factor(v.unit)
  <2>. HIDE DEF x
  <2>4. x % Modulus \in Size
    BY <2>2, <2>3 DEF x
  <2>5. Scaled(v) \in Size
    BY <2>4 DEF Scaled, x
  <2>. QED
    BY <2>3, <2>5 DEF get_limit
<1>2. EnvMode(e) \in Modes
  BY DEF EnvMode, Modes
<1>3. EnvBytes(e) \in Size
  <2>1. CASE Answering(e) = {}
    BY <2>1, SizeMaxAssumption DEF EnvBytes, Size, SizeMaxAssumption
  <2>2. CASE Answering(e) # {}
    <3>1. \E i \in Answering(e) : \A j \in Answering(e) : i <= j
      BY <2>2 DEF Answering
    <3>2. Decider(e) \in 1 .. 4
      BY <3>1 DEF Decider, Answering
    <3>3. e[Decider(e)] \in EnvText
      BY <3>2 DEF Environment
    <3>. QED
      BY <1>1, <2>2, <3>3 DEF EnvBytes
  <2>. QED
    BY <2>1, <2>2
<1>. QED
  BY <1>2, <1>3

(* The limiter that the body of a wrapper sees is a sound one.             *)
LEMMA EnsuredSound ==
  ASSUME IInv
  PROVE  /\ Sound(Ensured) /\ Spends(Ensured, spent)
         /\ Limited(Ensured) \/ counted = {}
<1>1. CASE alloc_limit_state = "UNINITIALIZED"
  <2>1. env \in Environment
    BY AllocAssumption DEF AllocAssumption, IInv, TypeOK
  <2>2. EnvMode(env) \in Modes /\ EnvBytes(env) \in Size
    BY <2>1, EnvLimiter
  <2>3. Ensured = SetLimiter(EnvMode(env), EnvBytes(env))
    BY <1>1 DEF Ensured
  <2>4. Spends(Ensured, spent)
    BY <1>1, <2>2, <2>3 DEF IInv, FreshStart, Spends, SetLimiter, Size
  <2>5. counted = {}
    BY <1>1 DEF IInv, FreshStart
  <2>. QED
    BY <2>2, <2>3, <2>4, <2>5, SetLimiterSound
<1>2. CASE alloc_limit_state # "UNINITIALIZED"
  <2>1. Ensured = [state |-> alloc_limit_state, remaining |-> bytes_remaining,
                   list |-> allocation_list, limit |-> limit]
    BY <1>2 DEF Ensured
  <2>2. Ensured \in Limiter
    BY <1>2, <2>1 DEF IInv, TypeOK, Limiter
  <2>3. Balanced(Ensured) /\ Spends(Ensured, spent)
    BY <2>1 DEF IInv, LedgerBalanced, SpentBalanced, Balanced, Spends, Ledger
  <2>4. Limited(Ensured) \/ counted = {}
    BY <1>2, <2>1 DEF IInv, TypeOK, FreshStart, Limited, Modes
  <2>. QED
    BY <2>2, <2>3, <2>4 DEF Sound
<1>. QED
  BY <1>1, <1>2

(* A step that leaves a sound limiter behind, and a sound memory.          *)
LEMMA SoundStep ==
  ASSUME NEW r, Sound(r), Becomes(r), Spends(r, spent'), MemoryOK',
         Limited(r) \/ counted' = {}
  PROVE  IInv'
<1>1. r.state # "UNINITIALIZED"
  BY DEF Sound, Limiter, Modes
<1>2. TypeOK'
  BY DEF TypeOK, MemoryOK, Sound, Limiter, Becomes, Statuses
<1>3. LedgerBalanced'
  BY DEF LedgerBalanced, Ledger, Sound, Balanced, Becomes
<1>4. SpentBalanced'
  BY DEF SpentBalanced, Spends, Becomes
<1>5. FreshStart'
  BY <1>1 DEF FreshStart, Becomes, Limited
<1>. QED
  BY <1>2, <1>3, <1>4, <1>5 DEF IInv

LEMMA ExitStep ==
  ASSUME IInv, NEW how \in Statuses, Exits(how)
  PROVE  IInv'
<1>1. TypeOK'
  BY DEF IInv, TypeOK, Exits, Statuses, Live, Free
<1>2. LedgerBalanced' /\ SpentBalanced' /\ FreshStart'
  BY DEF IInv, LedgerBalanced, Ledger, SpentBalanced, FreshStart, Exits
<1>. QED
  BY <1>1, <1>2 DEF IInv

-----------------------------------------------------------------------------
(* The actions, one lemma each, from the shared bodies up.                 *)

(* A call that changes nothing but the reply and the initialisation.       *)
LEMMA BooksOnly ==
  ASSUME IInv, Becomes(Ensured), NEW r \in Replies, Returns(r),
         UNCHANGED <<heap, counted, spent>>
  PROVE  IInv'
<1>1. MemoryOK'
  BY DEF IInv, TypeOK, MemoryOK, Returns, Live, Free, Statuses
<1>. QED
  BY <1>1, EnsuredSound, SoundStep

LEMMA RepliesType ==
  /\ \A k \in {"none", "granted", "failed", "refused"} : Said(k) \in Replies
  /\ \A c \in Size : Refusal(c) \in Replies
BY SizeMaxAssumption DEF Said, Refusal, Replies, Size, SizeMaxAssumption

(* The memory after a grant of n bytes at q, in place of the blocks of     *)
(* gone, if any.                                                           *)
LEMMA GrantMemory ==
  ASSUME IInv, NEW q \in Pointer, NEW n \in Size, NEW gone,
         heap' = [x \in Pointer |-> IF x = q THEN n
                                    ELSE IF x \in gone THEN Vacant ELSE heap[x]],
         Counts(Ensured, gone, q, n), Returns(Said("granted"))
  PROVE  MemoryOK' /\ (Limited(Ensured) \/ counted' = {})
<1>1. heap \in [Pointer -> Size \cup {Vacant}] /\ counted \subseteq Live /\ spent \in Nat
  BY DEF IInv, TypeOK
<1>2. heap' \in [Pointer -> Size \cup {Vacant}]
  BY <1>1
<1>3. n \in Nat /\ n # Vacant
  BY DEF Size, Vacant
<1>4. counted' = IF Limited(Ensured) THEN (counted \ gone) \cup {q} ELSE {}
  BY EnsuredSound DEF Counts
<1>5. counted' \subseteq Live'
  BY <1>1, <1>3, <1>4 DEF Live, Free
<1>6. spent' \in Nat
  BY <1>1, <1>3 DEF Counts
<1>. QED
  BY <1>2, <1>4, <1>5, <1>6, RepliesType
  DEF IInv, TypeOK, MemoryOK, Returns, Statuses

(* A total limit has been charged what it granted.                         *)
LEMMA GrantSpends ==
  ASSUME IInv, NEW p \in Pointer, NEW n \in Size, NEW gone, NEW r,
         Sound(r), Kept(Ensured, r),
         Ensured.state = "LIMIT_TOTAL" => r.remaining = Ensured.remaining - n,
         Counts(Ensured, gone, p, n)
  PROVE  Spends(r, spent')
<1>1. spent \in Nat /\ n \in Nat
  <2>1. spent \in Nat
    BY DEF IInv, TypeOK
  <2>2. n \in Nat
    BY DEF Size
  <2>. QED
    BY <2>1, <2>2
<1>2. CASE Ensured.state = "LIMIT_TOTAL"
  <2>1. spent' = spent + n /\ r.remaining = Ensured.remaining - n
    BY <1>2 DEF Counts
  <2>2. Ensured.remaining + spent = Ensured.limit /\ Ensured.remaining \in Nat
    BY <1>2, EnsuredSound DEF Spends, Sound, Limiter, Size
  <2>3. (Ensured.remaining - n) + (spent + n) = Ensured.limit
    BY <1>1, <2>2
  <2>. QED
    BY <2>1, <2>3 DEF Spends, Kept
<1>. QED
  BY <1>2 DEF Spends, Kept

LEMMA QuietMallocStep ==
  ASSUME IInv, NEW n \in Size, quiet_malloc(Ensured, n)
  PROVE  IInv'
<1>1. CASE /\ Becomes(Ensured)
           /\ \E r \in {Refusal(n), Said("failed")} : Returns(r)
           /\ UNCHANGED <<heap, counted, spent>>
  BY <1>1, BooksOnly, RepliesType
<1>2. CASE /\ alloc_limit_may_alloc(Ensured, n)
           /\ \E p \in Free :
                /\ Ensured.state = "LIMIT_PEAK" => Room(Ensured, p)
                /\ Becomes(alloc_limit_did_alloc(Ensured, p, n))
                /\ heap' = [heap EXCEPT ![p] = n]
                /\ Counts(Ensured, {}, p, n)
                /\ Returns(Said("granted"))
  <2>1. PICK p \in Free :
          /\ Ensured.state = "LIMIT_PEAK" => Room(Ensured, p)
          /\ Becomes(alloc_limit_did_alloc(Ensured, p, n))
          /\ heap' = [heap EXCEPT ![p] = n]
          /\ Counts(Ensured, {}, p, n)
          /\ Returns(Said("granted"))
    BY <1>2
  <2>. DEFINE r == alloc_limit_did_alloc(Ensured, p, n)
  <2>2. p \in Pointer
    BY DEF Free
  <2>3. /\ Sound(r) /\ Kept(Ensured, r)
        /\ Limited(Ensured) => r.remaining = Ensured.remaining - n
    BY <1>2, <2>1, <2>2, EnsuredSound, DidAllocSound
  <2>4. MemoryOK' /\ (Limited(Ensured) \/ counted' = {})
    <3>1. heap' = [x \in Pointer |-> IF x = p THEN n
                                    ELSE IF x \in {} THEN Vacant ELSE heap[x]]
      BY <2>1 DEF IInv, TypeOK
    <3>. QED
      BY <2>1, <2>2, <3>1, GrantMemory
  <2>5. Spends(r, spent')
    BY <2>1, <2>2, <2>3, GrantSpends DEF Limited
  <2>6. Limited(r) \/ counted' = {}
    BY <2>3, <2>4 DEF Limited, Kept
  <2>. QED
    BY <2>1, <2>3, <2>4, <2>5, <2>6, SoundStep
<1>3. CASE Exits("exit 255")
  BY <1>3, ExitStep DEF Statuses
<1>. QED
  BY <1>1, <1>2, <1>3 DEF quiet_malloc

LEMMA QuietFreeStep ==
  ASSUME IInv, NEW p \in Live, NEW r \in Replies, quiet_free(Ensured, p, r)
  PROVE  IInv'
<1>. DEFINE t == alloc_limit_will_free(Ensured, p)
<1>1. p \in Pointer
  BY DEF Live
<1>2. Sound(t) /\ Kept(Ensured, t) /\ (Ensured.state # "LIMIT_PEAK" => t = Ensured)
  BY <1>1, EnsuredSound, WillFreeSound
<1>3. MemoryOK'
  BY <1>1 DEF IInv, TypeOK, MemoryOK, quiet_free, Returns, Live, Free, Statuses
<1>4. Spends(t, spent') /\ (Limited(t) \/ counted' = {})
  BY <1>2, EnsuredSound DEF Spends, Kept, quiet_free, Limited
<1>. QED
  BY <1>2, <1>3, <1>4, SoundStep DEF quiet_free

(* The product that quiet_calloc passes on fits in a size_t.               *)
LEMMA ProductFits ==
  ASSUME NEW nmemb \in Size, NEW size \in Size, size <= Quotients(nmemb)
  PROVE  nmemb * size \in Size
<1>1. CASE nmemb = 0
  BY <1>1, SizeMaxAssumption DEF Size, SizeMaxAssumption
<1>2. CASE nmemb # 0
  <2>. DEFINE quot == SizeMax \div nmemb
  <2>1. SizeMax \in Nat /\ nmemb \in Nat \ {0} /\ size \in Nat
    BY <1>2, SizeMaxAssumption DEF Size, SizeMaxAssumption
  <2>2. quot \in Nat /\ nmemb * quot <= SizeMax /\ size <= quot
    BY <1>2, <2>1 DEF Quotients
  <2>. HIDE DEF quot
  <2>3. nmemb * size <= nmemb * quot
    BY <2>1, <2>2
  <2>4. nmemb * size \in Nat /\ nmemb * quot \in Nat
    BY <2>1, <2>2
  <2>. QED
    BY <2>1, <2>2, <2>3, <2>4 DEF Size
<1>. QED
  BY <1>1, <1>2

LEMMA RequestSize ==
  ASSUME NEW n \in Requests
  PROVE  n \in Size
BY AllocAssumption DEF AllocAssumption

LEMMA CostType ==
  ASSUME IInv, NEW p \in Pointer, NEW n \in Size
  PROVE  CostOfResize(Ensured, p, n) \in Size
<1>1. ASSUME p \in counted PROVE Charge(p) \in Size
  BY <1>1 DEF IInv, TypeOK, Charge, Live, Free
<1>2. Charge(p) \in Size
  BY <1>1, SizeMaxAssumption DEF Charge, Size, SizeMaxAssumption
<1>. QED
  BY <1>2, SizeMaxAssumption DEF CostOfResize, Size, SizeMaxAssumption

LEMMA CallocStep ==
  ASSUME IInv, NEW nmemb \in Requests, NEW size \in Requests,
         rtipd_calloc(nmemb, size)
  PROVE  IInv'
<1>1. CASE CallocTraps(nmemb)
  BY <1>1, ExitStep DEF CallocTraps, Statuses
<1>2. CASE CallocOverflows(nmemb, size)
  BY <1>2, BooksOnly, RepliesType DEF CallocOverflows
<1>3. CASE CallocFits(nmemb, size)
  BY <1>3, ProductFits, RequestSize, QuietMallocStep DEF CallocFits
<1>. QED
  BY <1>1, <1>2, <1>3 DEF rtipd_calloc

LEMMA ReallocReturnsNullStep ==
  ASSUME IInv, NEW p \in Live, NEW n \in Requests, ReallocReturnsNull(p, n)
  PROVE  IInv'
<1>1. p \in Pointer /\ n \in Size
  BY RequestSize DEF Live
<1>2. Becomes(Ensured) /\ spent' = spent
  BY DEF ReallocReturnsNull
<1>3. CASE UNCHANGED <<heap, counted>> /\ \E r \in Replies : Returns(r)
  BY <1>2, <1>3, BooksOnly
<1>4. CASE /\ heap' = [heap EXCEPT ![p] = Vacant]
           /\ counted' = counted \ {p}
           /\ Returns(Said("none"))
  <2>1. MemoryOK'
    BY <1>1, <1>2, <1>4, RepliesType
    DEF IInv, TypeOK, MemoryOK, Returns, Live, Free, Statuses
  <2>2. Spends(Ensured, spent') /\ (Limited(Ensured) \/ counted' = {})
    BY <1>2, <1>4, EnsuredSound
  <2>. QED
    BY <1>2, <2>1, <2>2, EnsuredSound, SoundStep
<1>. QED
  BY <1>1, <1>3, <1>4, CostType, RepliesType DEF ReallocReturnsNull

(* The limiter after a successful realloc, under each limit.               *)
LEMMA ReallocLimiterSound ==
  ASSUME NEW s, Sound(s), NEW p \in Pointer, NEW q \in Pointer, NEW n \in Size,
         ReallocAllowed(s, p, n),
         s.state = "LIMIT_PEAK" /\ ~ Recorded(s, p) => Room(s, q),
         NEW r, r = ReallocLimiter(s, p, q, n)
  PROVE  /\ Sound(r) /\ Kept(s, r)
         /\ s.state = "LIMIT_TOTAL" => r.remaining = s.remaining - n
<1>1. alloc_limit_may_alloc(s, Needed(s, p, n))
  BY DEF ReallocAllowed, ReallocRefused
<1>2. CASE s.state = "LIMIT_PEAK"
  BY <1>1, <1>2, DidReallocSound DEF ReallocLimiter
<1>3. CASE s.state # "LIMIT_PEAK"
  BY <1>1, <1>3, DidAllocSound DEF ReallocLimiter, Needed, Limited
<1>. QED
  BY <1>2, <1>3

LEMMA ReallocReturnsBlockStep ==
  ASSUME IInv, NEW p \in Live, NEW n \in Requests, ReallocReturnsBlock(p, n)
  PROVE  IInv'
<1>1. p \in Pointer /\ n \in Size
  BY RequestSize DEF Live
<1>2. CASE ReallocGranted(Ensured, p, n)
  <2>1. PICK q \in Destinations(p) :
          /\ Ensured.state = "LIMIT_PEAK" /\ ~ Recorded(Ensured, p) => Room(Ensured, q)
          /\ Becomes(ReallocLimiter(Ensured, p, q, n))
          /\ heap' = [heap EXCEPT ![p] = Vacant, ![q] = n]
          /\ Counts(Ensured, {p}, q, n)
          /\ Returns(Said("granted"))
    BY <1>2 DEF ReallocGranted
  <2>. DEFINE r == ReallocLimiter(Ensured, p, q, n)
  <2>2. q \in Pointer
    BY <1>1, <2>1 DEF Destinations, Free
  <2>3. /\ Sound(r) /\ Kept(Ensured, r)
        /\ Ensured.state = "LIMIT_TOTAL" => r.remaining = Ensured.remaining - n
    BY <1>1, <1>2, <2>1, <2>2, EnsuredSound, ReallocLimiterSound DEF ReallocGranted
  <2>4. MemoryOK' /\ (Limited(Ensured) \/ counted' = {})
    <3>1. heap' = [x \in Pointer |-> IF x = q THEN n
                                     ELSE IF x \in {p} THEN Vacant ELSE heap[x]]
      BY <1>1, <2>1, <2>2 DEF IInv, TypeOK
    <3>. QED
      BY <1>1, <2>1, <2>2, <3>1, GrantMemory
  <2>5. Spends(r, spent')
    BY <1>1, <2>1, <2>2, <2>3, GrantSpends
  <2>6. Limited(r) \/ counted' = {}
    BY <2>3, <2>4 DEF Limited, Kept
  <2>. QED
    BY <2>1, <2>3, <2>4, <2>5, <2>6, SoundStep
<1>3. CASE ReallocNodeFails(Ensured, p, n)
  BY <1>3, ExitStep DEF ReallocNodeFails, Statuses
<1>. QED
  BY <1>2, <1>3 DEF ReallocReturnsBlock

LEMMA ReallocfStep ==
  ASSUME IInv, NEW p \in Live, NEW n \in Requests, rtipd_reallocf(p, n)
  PROVE  IInv'
<1>1. p \in Pointer /\ n \in Size
  BY RequestSize DEF Live
<1>2. CASE ReallocfFrees(p, n)
  BY <1>1, <1>2, CostType, RepliesType, QuietFreeStep DEF ReallocfFrees
<1>3. CASE ReallocfFreesTwice(p, n)
  BY <1>3, ExitStep DEF ReallocfFreesTwice, Statuses
<1>4. CASE ReallocReturnsBlock(p, n)
  BY <1>4, ReallocReturnsBlockStep
<1>. QED
  BY <1>2, <1>3, <1>4 DEF rtipd_reallocf

LEMMA SetStep ==
  ASSUME IInv, NEW mode \in Modes, NEW n \in Size, Set(mode, n)
  PROVE  IInv'
<1>1. MemoryOK'
  BY RepliesType DEF Set, IInv, TypeOK, MemoryOK, Returns, Live, Free, Statuses
<1>2. Spends(SetLimiter(mode, n), spent') /\ counted' = {}
  BY DEF Set, Spends, SetLimiter, Size
<1>. QED
  BY <1>1, <1>2, SetLimiterSound, SoundStep DEF Set

(* Foreign code touches the heap and no book.                              *)
LEMMA ForeignStep ==
  ASSUME IInv, MemoryOK', counted' \subseteq counted,
         UNCHANGED <<alloc_limit_state, bytes_remaining, allocation_list, limit,
                     spent>>
  PROVE  IInv'
<1>1. TypeOK'
  BY DEF IInv, TypeOK, MemoryOK, Statuses
<1>2. LedgerBalanced' /\ SpentBalanced' /\ FreshStart'
  BY DEF IInv, LedgerBalanced, Ledger, SpentBalanced, FreshStart
<1>. QED
  BY <1>1, <1>2 DEF IInv

LEMMA ForeignMallocStep ==
  ASSUME IInv, NEW p \in Pointer, NEW n \in Requests, ForeignMalloc(p, n)
  PROVE  IInv'
<1>1. n \in Size /\ n # Vacant
  BY RequestSize DEF Size, Vacant
<1>2. MemoryOK'
  BY <1>1, RepliesType
  DEF IInv, TypeOK, MemoryOK, ForeignMalloc, Returns, Live, Free, Statuses
<1>. QED
  BY <1>2, ForeignStep DEF ForeignMalloc

LEMMA ForeignFreeStep ==
  ASSUME IInv, NEW p \in Live, ForeignFree(p)
  PROVE  IInv'
<1>1. MemoryOK'
  BY RepliesType
  DEF IInv, TypeOK, MemoryOK, ForeignFree, Returns, Live, Free, Statuses
<1>. QED
  BY <1>1, ForeignStep DEF ForeignFree

-----------------------------------------------------------------------------
LEMMA InitIInv == Init => IInv
<1>. SUFFICES ASSUME Init PROVE IInv
  OBVIOUS
<1>1. TypeOK
  BY NoRecordsType, RepliesType, SizeMaxAssumption
  DEF Init, TypeOK, Size, SizeMaxAssumption, Live, Free
<1>2. LedgerBalanced /\ SpentBalanced /\ FreshStart
  BY DEF Init, LedgerBalanced, SpentBalanced, FreshStart
<1>. QED
  BY <1>1, <1>2 DEF IInv

LEMMA NextIInv == IInv /\ [Next]_vars => IInv'
<1>. SUFFICES ASSUME IInv, [Next]_vars PROVE IInv'
  OBVIOUS
<1>1. CASE BadEnvVar
  BY <1>1, ExitStep DEF BadEnvVar, Statuses
<1>2. CASE FreeNull
  BY <1>2, BooksOnly, RepliesType DEF FreeNull
<1>3. CASE alloc_limit_set_no_limit
  <2>1. 0 \in Size /\ "NO_LIMIT" \in Modes
    BY SizeMaxAssumption DEF Size, SizeMaxAssumption, Modes
  <2>. QED
    BY <1>3, <2>1, SetStep DEF alloc_limit_set_no_limit
<1>4. CASE \E n \in Limits : alloc_limit_set_total(n) \/ alloc_limit_set_peak(n)
  <2>1. Limits \subseteq Size /\ {"LIMIT_TOTAL", "LIMIT_PEAK"} \subseteq Modes
    BY AllocAssumption DEF AllocAssumption, Modes
  <2>. QED
    BY <1>4, <2>1, SetStep DEF alloc_limit_set_total, alloc_limit_set_peak
<1>5. CASE \E n \in Requests : rtipd_malloc(n)
  BY <1>5, RequestSize, QuietMallocStep DEF rtipd_malloc
<1>6. CASE \E nmemb, size \in Requests : rtipd_calloc(nmemb, size)
  BY <1>6, CallocStep
<1>7. CASE \E p \in Live : rtipd_free(p)
  BY <1>7, QuietFreeStep, RepliesType DEF rtipd_free
<1>8. CASE \E p \in Live, n \in Requests : rtipd_realloc(p, n)
  BY <1>8, ReallocReturnsNullStep, ReallocReturnsBlockStep DEF rtipd_realloc
<1>9. CASE \E p \in Live, n \in Requests : rtipd_reallocf(p, n)
  BY <1>9, ReallocfStep
<1>10. CASE \E p \in Pointer, n \in Requests : ForeignMalloc(p, n)
  BY <1>10, ForeignMallocStep
<1>11. CASE \E p \in Live : ForeignFree(p)
  BY <1>11, ForeignFreeStep
<1>12. CASE UNCHANGED vars
  BY <1>12 DEF vars, IInv, TypeOK, LedgerBalanced, SpentBalanced, FreshStart,
            Ledger, Live, Free
<1>. QED
  BY <1>1, <1>2, <1>3, <1>4, <1>5, <1>6, <1>7, <1>8, <1>9, <1>10, <1>11, <1>12
  DEF Next

(***************************************************************************)
(* The inductive invariant holds of every run: types, both balances, and   *)
(* nothing counted before the first call.                                  *)
(***************************************************************************)
THEOREM Invariance == Spec => []IInv
BY InitIInv, NextIInv, PTL DEF Spec

(***************************************************************************)
(* Every variable keeps to its type, whatever the C allocator and foreign  *)
(* code do.                                                                *)
(***************************************************************************)
THEOREM TypeCorrect == Spec => []TypeOK
<1>1. IInv => TypeOK
  BY DEF IInv
<1>. QED
  BY <1>1, Invariance, PTL

(***************************************************************************)
(* The peak budget and the records always balance, even when realloc moves *)
(* blocks, frees them, or foreign code frees behind the limiter's back.    *)
(***************************************************************************)
THEOREM LedgerAlwaysBalanced == Spec => []LedgerBalanced
<1>1. IInv => LedgerBalanced
  BY DEF IInv
<1>. QED
  BY <1>1, Invariance, PTL

(***************************************************************************)
(* A total limit has always been charged every byte that it granted.       *)
(***************************************************************************)
THEOREM SpentAlwaysBalanced == Spec => []SpentBalanced
<1>1. IInv => SpentBalanced
  BY DEF IInv
<1>. QED
  BY <1>1, Invariance, PTL

-----------------------------------------------------------------------------
(***************************************************************************)
(* The monotonicity of a total limit follows from its balance: no call but *)
(* a setter changes the limit, and none makes the bytes spent fewer.       *)
(***************************************************************************)
SpendsMore == limit' = limit /\ spent' \in Nat /\ spent <= spent'

LEMMA TotalKept ==
  ASSUME IInv, alloc_limit_state = "LIMIT_TOTAL"
  PROVE  /\ Ensured.limit = limit
         /\ \A p, n : alloc_limit_did_alloc(Ensured, p, n).limit = limit
         /\ \A p : alloc_limit_will_free(Ensured, p) = Ensured
         /\ \A p, q, n : ReallocLimiter(Ensured, p, q, n).limit = limit
<1>1. Ensured = [state |-> "LIMIT_TOTAL", remaining |-> bytes_remaining,
                 list |-> allocation_list, limit |-> limit]
  BY DEF Ensured
<1>2. \A p, n : alloc_limit_did_alloc(Ensured, p, n).limit = limit
  BY <1>1 DEF alloc_limit_did_alloc
<1>. QED
  BY <1>1, <1>2 DEF alloc_limit_will_free, ReallocLimiter

LEMMA SpendsNothing ==
  ASSUME IInv, limit' = limit, spent' = spent
  PROVE  SpendsMore
<1>1. spent \in Nat
  BY DEF IInv, TypeOK
<1>. QED
  BY <1>1 DEF SpendsMore

LEMMA SpendsGrant ==
  ASSUME IInv, NEW n \in Size, NEW q, NEW gone, limit' = limit,
         Counts(Ensured, gone, q, n)
  PROVE  SpendsMore
<1>1. spent \in Nat
  BY DEF IInv, TypeOK
<1>2. n \in Nat
  BY DEF Size
<1>3. spent' = spent + n \/ spent' = spent
  BY DEF Counts
<1>. QED
  BY <1>1, <1>2, <1>3 DEF SpendsMore

LEMMA QuietMallocSpends ==
  ASSUME IInv, alloc_limit_state = "LIMIT_TOTAL", NEW n \in Size,
         quiet_malloc(Ensured, n)
  PROVE  SpendsMore
<1>1. CASE Becomes(Ensured) /\ UNCHANGED spent
  BY <1>1, TotalKept, SpendsNothing DEF Becomes
<1>2. CASE \E p \in Free : /\ Becomes(alloc_limit_did_alloc(Ensured, p, n))
                          /\ Counts(Ensured, {}, p, n)
  BY <1>2, TotalKept, SpendsGrant DEF Becomes
<1>3. CASE Exits("exit 255")
  BY <1>3, SpendsNothing DEF Exits
<1>. QED
  BY <1>1, <1>2, <1>3 DEF quiet_malloc

LEMMA ReallocSpends ==
  ASSUME IInv, alloc_limit_state = "LIMIT_TOTAL", NEW p \in Live,
         NEW n \in Requests,
         rtipd_realloc(p, n) \/ rtipd_reallocf(p, n)
  PROVE  SpendsMore
<1>1. n \in Size
  BY RequestSize
<1>2. CASE ReallocReturnsNull(p, n)
  BY <1>2, TotalKept, SpendsNothing DEF ReallocReturnsNull, Becomes
<1>3. CASE ReallocGranted(Ensured, p, n)
  <2>1. PICK q \in Destinations(p) : /\ Becomes(ReallocLimiter(Ensured, p, q, n))
                                     /\ Counts(Ensured, {p}, q, n)
    BY <1>3 DEF ReallocGranted
  <2>. QED
    BY <1>1, <2>1, TotalKept, SpendsGrant DEF Becomes
<1>4. CASE ReallocNodeFails(Ensured, p, n)
  BY <1>4, SpendsNothing DEF ReallocNodeFails, Exits
<1>5. CASE ReallocfFrees(p, n)
  BY <1>5, TotalKept, SpendsNothing DEF ReallocfFrees, quiet_free, Becomes
<1>6. CASE ReallocfFreesTwice(p, n)
  BY <1>6, SpendsNothing DEF ReallocfFreesTwice, Exits
<1>. QED
  BY <1>2, <1>3, <1>4, <1>5, <1>6
  DEF rtipd_realloc, rtipd_reallocf, ReallocReturnsBlock

LEMMA NextSpends ==
  ASSUME IInv, [Next]_vars, alloc_limit_state = "LIMIT_TOTAL",
         alloc_limit_state' = "LIMIT_TOTAL", ~ Resets
  PROVE  SpendsMore
<1>1. CASE BadEnvVar
  BY <1>1, SpendsNothing DEF BadEnvVar, Exits
<1>2. CASE FreeNull
  BY <1>2, TotalKept, SpendsNothing DEF FreeNull, Becomes
<1>3. CASE alloc_limit_set_no_limit
  BY <1>3 DEF alloc_limit_set_no_limit, Set, Becomes, SetLimiter
<1>4. CASE \E n \in Limits : alloc_limit_set_total(n) \/ alloc_limit_set_peak(n)
  BY <1>4 DEF alloc_limit_set_peak, Set, Becomes, SetLimiter, Resets
<1>5. CASE \E n \in Requests : rtipd_malloc(n)
  BY <1>5, RequestSize, QuietMallocSpends DEF rtipd_malloc
<1>6. CASE \E nmemb, size \in Requests : rtipd_calloc(nmemb, size)
  <2>1. PICK nmemb \in Requests, size \in Requests : rtipd_calloc(nmemb, size)
    BY <1>6
  <2>2. CASE CallocTraps(nmemb)
    BY <2>2, SpendsNothing DEF CallocTraps, Exits
  <2>3. CASE CallocOverflows(nmemb, size)
    BY <2>3, TotalKept, SpendsNothing DEF CallocOverflows, Becomes
  <2>4. CASE CallocFits(nmemb, size)
    BY <2>4, RequestSize, ProductFits, QuietMallocSpends DEF CallocFits
  <2>. QED
    BY <2>1, <2>2, <2>3, <2>4 DEF rtipd_calloc
<1>7. CASE \E p \in Live : rtipd_free(p)
  BY <1>7, TotalKept, SpendsNothing DEF rtipd_free, quiet_free, Becomes
<1>8. CASE \E p \in Live, n \in Requests : rtipd_realloc(p, n)
  BY <1>8, ReallocSpends
<1>9. CASE \E p \in Live, n \in Requests : rtipd_reallocf(p, n)
  BY <1>9, ReallocSpends
<1>10. CASE \E p \in Pointer, n \in Requests : ForeignMalloc(p, n)
  BY <1>10, SpendsNothing DEF ForeignMalloc
<1>11. CASE \E p \in Live : ForeignFree(p)
  BY <1>11, SpendsNothing DEF ForeignFree
<1>12. CASE UNCHANGED vars
  BY <1>12, SpendsNothing DEF vars
<1>. QED
  BY <1>1, <1>2, <1>3, <1>4, <1>5, <1>6, <1>7, <1>8, <1>9, <1>10, <1>11, <1>12
  DEF Next

(***************************************************************************)
(* No call gives bytes back to a total limit, unless it sets the limit.    *)
(***************************************************************************)
THEOREM TotalNeverGrows == Spec => TotalOnlyShrinks
<1>1. ASSUME IInv, IInv', [Next]_vars, alloc_limit_state = "LIMIT_TOTAL",
             alloc_limit_state' = "LIMIT_TOTAL", ~ Resets
      PROVE  bytes_remaining' <= bytes_remaining
  <2>1. limit' = limit /\ spent' \in Nat /\ spent <= spent'
    BY <1>1, NextSpends DEF SpendsMore
  <2>2. bytes_remaining + spent = limit /\ bytes_remaining' + spent' = limit'
    BY <1>1 DEF IInv, SpentBalanced
  <2>3. spent \in Nat
    BY <1>1 DEF IInv, TypeOK
  <2>4. bytes_remaining \in Nat /\ bytes_remaining' \in Nat
    <3>1. bytes_remaining \in Size /\ bytes_remaining' \in Size
      BY <1>1 DEF IInv, TypeOK
    <3>. QED
      BY <3>1 DEF Size
  <2>. QED
    BY <2>1, <2>2, <2>3, <2>4
<1>2. IInv /\ IInv' /\ [Next]_vars =>
        [ /\ alloc_limit_state = "LIMIT_TOTAL"
          /\ alloc_limit_state' = "LIMIT_TOTAL"
          /\ ~ Resets
          => bytes_remaining' <= bytes_remaining ]_vars
  BY <1>1
<1>. QED
  BY <1>2, Invariance, PTL DEF Spec, TotalOnlyShrinks

-----------------------------------------------------------------------------
(***************************************************************************)
(* A peak limit caps the heap, for any sizes and limits, as long as the C  *)
(* allocator's realloc leaves blocks where they are.                       *)
(*                                                                         *)
(* The records of a pointer may be out of date below the newest: foreign   *)
(* code frees blocks whose record stays.  The newest record of a block     *)
(* that counts is its own, though, which makes the live blocks part of     *)
(* what the records add up to, and that is part of the limit.  A realloc   *)
(* that moves a block leaves the record with the old pointer: there the    *)
(* argument fails, and so does the cap.                                    *)
(***************************************************************************)
TopIs(list, p, n) == list[p] # << >> /\ list[p][Len(list[p])] = n

(* Blocks that count have a record of their size, the newest.              *)
Tops(state, list, blocks, sizes) ==
  state = "LIMIT_PEAK" => \A p \in blocks : TopIs(list, p, sizes[p])

NewestIsOwn == Tops(alloc_limit_state, allocation_list, counted, heap)

-----------------------------------------------------------------------------
(* The charges of live blocks are found among the records.                 *)
LEMMA ChargesWithinLedger ==
  ASSUME IInv, NewestIsOwn, alloc_limit_state = "LIMIT_PEAK"
  PROVE  InUse <= Ledger
<1>. DEFINE K == counted
            list == allocation_list
            f == [p \in K |-> heap[p]]
            i == [p \in K |-> <<p, Len(list[p])>>]
<1>1. list \in [Pointer -> Stacks] /\ K \subseteq Pointer
  BY DEF IInv, TypeOK, Live
<1>2. \A p \in K : TopIs(list, p, heap[p])
  BY DEF NewestIsOwn, Tops
<1>3. \A p \in K : Len(list[p]) \in 1 .. MaxRecords /\ list[p][Len(list[p])] \in Size
                   /\ Len(list[p]) \in DOMAIN list[p]
  <2>. TAKE p \in K
  <2>1. list[p] \in Stacks /\ list[p] # << >>
    BY <1>1, <1>2 DEF TopIs
  <2>2. list[p] \in Seq(Size)
    BY <2>1, StackMember, Zenon
  <2>3. Len(list[p]) \in 1 .. MaxRecords /\ list[p][Len(list[p])] \in Size
    BY <2>1, StackPop, Zenon
  <2>4. Len(list[p]) \in DOMAIN list[p]
    BY <2>2, <2>3
  <2>. QED
    BY <2>3, <2>4
<1>4. i \in [K -> Slots]
  BY <1>1, <1>3 DEF Slots
<1>5. \A p \in K : RecordSizes(list)[i[p]] = heap[p]
  BY <1>1, <1>2, <1>3, <1>4 DEF RecordSizes, Slots, TopIs
<1>6. IsFiniteSet(Slots) /\ RecordSizes(list) \in [Slots -> 0 .. SizeMax] /\ SizeMax \in Nat
  BY <1>1, RecordSizesType, SizeMaxAssumption DEF SizeMaxAssumption
<1>7. f \in [K -> 0 .. SizeMax]
  BY <1>2, <1>3 DEF TopIs, Size
<1>8. \A p, q \in K : i[p] = i[q] => p = q
  OBVIOUS
<1>9. \A p \in K : f[p] <= RecordSizes(list)[i[p]]
  BY <1>5, <1>7
<1>10. Volume(f) <= Volume(RecordSizes(list))
  <2>. HIDE DEF f, i, K, list
  <2>. QED
    BY <1>4, <1>6, <1>7, <1>8, <1>9, VolumeInjection
<1>11. Charges \in [Pointer -> 0 .. SizeMax]
  BY <1>6, <1>7 DEF Charges, Charge
<1>12. Bytes(Charges) = Bytes(f)
  <2>1. \A x : x \in Bytes(Charges) <=> \E p \in Pointer : \E b \in 1 .. Charges[p] : x = <<p, b>>
    BY <1>6, <1>11, BytesMember
  <2>2. \A x : x \in Bytes(f) <=> \E p \in K : \E b \in 1 .. f[p] : x = <<p, b>>
    <3>. HIDE DEF f
    <3>. QED
      BY <1>6, <1>7, BytesMember
  <2>3. \A p \in K : Charges[p] = f[p]
    BY <1>1 DEF Charges, Charge
  <2>4. \A p \in Pointer \ K : Charges[p] = 0
    BY DEF Charges, Charge
  <2>5. \A p \in Pointer \ K : 1 .. Charges[p] = {}
    BY <2>4
  <2>. HIDE DEF f, K
  <2>6. \A x : x \in Bytes(Charges) <=> x \in Bytes(f)
    BY <1>1, <2>1, <2>2, <2>3, <2>5
  <2>. QED
    BY <2>6
<1>. QED
  BY <1>10, <1>12 DEF InUse, Ledger, Volume

LEMMA PeakCapFollows ==
  ASSUME IInv, NewestIsOwn
  PROVE  PeakCap
<1>. SUFFICES ASSUME alloc_limit_state = "LIMIT_PEAK" PROVE InUse <= limit
  BY DEF PeakCap
<1>1. bytes_remaining + Ledger = limit
  BY DEF IInv, LedgerBalanced
<1>2. bytes_remaining \in Nat /\ limit \in Nat
  <2>1. bytes_remaining \in Size /\ limit \in Size
    BY DEF IInv, TypeOK
  <2>. QED
    BY <2>1 DEF Size
<1>3. Ledger \in Nat
  BY RecordSizesType DEF Ledger, IInv, TypeOK
<1>4. Charges \in [Pointer -> 0 .. SizeMax]
  <2>1. \A p \in counted : heap[p] \in Size
    BY DEF IInv, TypeOK, Live, Free
  <2>. QED
    BY <2>1, SizeMaxAssumption DEF Charges, Charge, Size, SizeMaxAssumption
<1>5. InUse \in Nat
  BY <1>4, VolumeType, AllocAssumption, SizeMaxAssumption
  DEF InUse, AllocAssumption, SizeMaxAssumption
<1>6. InUse <= Ledger
  BY ChargesWithinLedger
<1>. QED
  BY <1>1, <1>2, <1>3, <1>5, <1>6

-----------------------------------------------------------------------------
(* The limiter's operators and the newest records.                         *)
LEMMA EnsuredTops ==
  ASSUME IInv, NewestIsOwn
  PROVE  Tops(Ensured.state, Ensured.list, counted, heap)
<1>1. CASE alloc_limit_state = "UNINITIALIZED"
  <2>1. counted = {}
    BY <1>1 DEF IInv, FreshStart
  <2>. QED
    BY <2>1 DEF Tops
<1>2. CASE alloc_limit_state # "UNINITIALIZED"
  BY <1>2 DEF Ensured, NewestIsOwn
<1>. QED
  BY <1>1, <1>2

LEMMA TopsStep ==
  ASSUME NEW r, Becomes(r), Tops(r.state, r.list, counted', heap')
  PROVE  NewestIsOwn'
BY DEF Becomes, NewestIsOwn, Tops, TopIs

LEMMA RememberTops ==
  ASSUME NEW s, Sound(s), NEW p \in Pointer, NEW n \in Size, Room(s, p)
  PROVE  /\ TopIs(remember_allocation(s, p, n).list, p, n)
         /\ \A q \in Pointer : q # p => remember_allocation(s, p, n).list[q] = s.list[q]
<1>1. s \in Limiter /\ s.list \in [Pointer -> Stacks] /\ s.list[p] \in Stacks
  BY DEF Sound, Limiter
<1>2. Append(s.list[p], n) # << >> /\ Append(s.list[p], n)[Len(Append(s.list[p], n))] = n
  <2>1. s.list[p] \in Seq(Size)
    BY <1>1, StackMember, Zenon
  <2>. QED
    BY <2>1
<1>3. remember_allocation(s, p, n).list = [s.list EXCEPT ![p] = Append(@, n)]
  BY <1>1 DEF remember_allocation, Limiter
<1>. QED
  BY <1>1, <1>2, <1>3 DEF TopIs

LEMMA DidAllocTops ==
  ASSUME NEW s, Sound(s), NEW p \in Pointer, NEW n \in Size,
         s.state = "LIMIT_PEAK", Room(s, p), NEW r, r = alloc_limit_did_alloc(s, p, n)
  PROVE  /\ TopIs(r.list, p, n)
         /\ \A q \in Pointer : q # p => r.list[q] = s.list[q]
<1>1. r.list = remember_allocation(s, p, n).list
  BY DEF alloc_limit_did_alloc, Limited, remember_allocation, Sound, Limiter
<1>. QED
  BY <1>1, RememberTops DEF TopIs

LEMMA WillFreeTops ==
  ASSUME NEW s, Sound(s), NEW p \in Pointer, NEW r, r = alloc_limit_will_free(s, p)
  PROVE  \A q \in Pointer : q # p => r.list[q] = s.list[q]
<1>1. s \in Limiter /\ s.list \in [Pointer -> Stacks]
  BY DEF Sound, Limiter
<1>. QED
  BY <1>1 DEF alloc_limit_will_free, forget_allocation, Limiter

(* The record of a block that stays becomes its new size: the unsigned     *)
(* difference, added to the old size, wraps to it.                         *)
LEMMA RecordBecomes ==
  ASSUME NEW old \in Size, NEW n \in Size
  PROVE  Wrap(old + Wrap(n - old)) = n
BY SizeMaxAssumption DEF Wrap, Size, Modulus, SizeMaxAssumption

LEMMA DidReallocTops ==
  ASSUME NEW s, Sound(s), NEW p \in Pointer, NEW n \in Size,
         ~ Recorded(s, p) => Room(s, p), NEW r, r = did_realloc(s, p, p, n)
  PROVE  /\ TopIs(r.list, p, n)
         /\ \A q \in Pointer : q # p => r.list[q] = s.list[q]
<1>1. s \in Limiter /\ s.list \in [Pointer -> Stacks] /\ s.list[p] \in Stacks
  BY DEF Sound, Limiter
<1>2. CASE Recorded(s, p)
  <2>. DEFINE t == s.list[p]
  <2>1. t # << >> /\ RecordSize(s, p) = t[Len(t)]
    BY <1>2 DEF Recorded, RecordSize
  <2>2. t[Len(t)] \in Size /\ Len(t) \in 1 .. MaxRecords
    BY <1>1, <2>1, StackPop, Zenon
  <2>3. Wrap(t[Len(t)] + Wrap(n - RecordSize(s, p))) = n
    BY <2>1, <2>2, RecordBecomes
  <2>4. r.list = [s.list EXCEPT ![p][Len(s.list[p])] =
                    Wrap(@ + Wrap(n - RecordSize(s, p)))]
    BY <1>1, <1>2 DEF did_realloc, Limiter
  <2>5. r.list[p] = [t EXCEPT ![Len(t)] = Wrap(t[Len(t)] + Wrap(n - RecordSize(s, p)))]
    BY <1>1, <2>4
  <2>6. r.list[p] = [t EXCEPT ![Len(t)] = n]
    BY <2>3, <2>5
  <2>7. t \in Stacks
    BY <1>1
  <2>8. /\ [t EXCEPT ![Len(t)] = n] # << >>
        /\ Len([t EXCEPT ![Len(t)] = n]) = Len(t)
    <3>. HIDE DEF t
    <3>. QED
      BY <2>1, <2>7, StackChange, Zenon
  <2>9. Len(t) \in DOMAIN t
    <3>1. t \in Seq(Size)
      BY <2>7, StackMember, Zenon
    <3>. QED
      BY <2>2, <3>1
  <2>10. TopIs(r.list, p, n)
    <3>. HIDE DEF t
    <3>. QED
      BY <2>6, <2>8, <2>9 DEF TopIs
  <2>. QED
    BY <1>1, <2>4, <2>10
<1>3. CASE ~ Recorded(s, p)
  <2>. DEFINE paid == [s EXCEPT !.remaining = Wrap(@ - Wrap(n - RecordSize(s, p)))]
  <2>1. r = remember_allocation(paid, p, n)
    BY <1>3 DEF did_realloc
  <2>2. paid.list = s.list
    BY <1>1 DEF Limiter
  <2>3. r.list = remember_allocation(s, p, n).list
    BY <1>1, <2>1, <2>2 DEF remember_allocation, Limiter
  <2>. QED
    BY <1>3, <2>3, RememberTops DEF TopIs
<1>. QED
  BY <1>2, <1>3

-----------------------------------------------------------------------------
(* What a call may do to the newest records.  Under a peak limit, a grant  *)
(* gives its block a record of its size and leaves the others alone...     *)
LEMMA GrantTops ==
  ASSUME IInv, NewestIsOwn, NEW r, Becomes(r), Kept(Ensured, r),
         NEW q \in Pointer, NEW n,
         Ensured.state = "LIMIT_PEAK" =>
           /\ TopIs(r.list, q, n)
           /\ \A x \in Pointer : x # q => r.list[x] = Ensured.list[x],
         heap' = [heap EXCEPT ![q] = n], counted' \subseteq counted \cup {q}
  PROVE  NewestIsOwn'
<1>1. counted \subseteq Pointer /\ heap \in [Pointer -> Size \cup {Vacant}]
  BY DEF IInv, TypeOK, Live
<1>2. Tops(Ensured.state, Ensured.list, counted, heap)
  BY EnsuredTops
<1>3. ASSUME r.state = "LIMIT_PEAK", NEW x \in counted'
      PROVE  TopIs(r.list, x, heap'[x])
  <2>1. Ensured.state = "LIMIT_PEAK"
    BY <1>3 DEF Kept
  <2>2. CASE x = q
    BY <1>1, <2>1, <2>2
  <2>3. CASE x # q
    <3>1. x \in counted
      BY <1>3, <2>3
    <3>2. TopIs(Ensured.list, x, heap[x])
      BY <1>2, <2>1, <3>1 DEF Tops
    <3>3. heap'[x] = heap[x] /\ r.list[x] = Ensured.list[x]
      BY <1>1, <2>1, <2>3, <3>1
    <3>. QED
      BY <3>2, <3>3 DEF TopIs
  <2>. QED
    BY <2>2, <2>3
<1>. QED
  BY <1>3, TopsStep DEF Tops

(* ... and any other call leaves them alone, but for the blocks that go.   *)
LEMMA LeaveTops ==
  ASSUME IInv, NewestIsOwn, NEW r, Becomes(r), Kept(Ensured, r),
         NEW gone,
         \A x \in Pointer \ gone : r.list[x] = Ensured.list[x] /\ heap'[x] = heap[x],
         counted' \subseteq counted \ gone
  PROVE  NewestIsOwn'
<1>1. counted \subseteq Pointer
  BY DEF IInv, TypeOK, Live
<1>2. Tops(Ensured.state, Ensured.list, counted, heap)
  BY EnsuredTops
<1>3. ASSUME r.state = "LIMIT_PEAK", NEW x \in counted'
      PROVE  TopIs(r.list, x, heap'[x])
  <2>1. x \in counted /\ x \in Pointer \ gone
    BY <1>1, <1>3
  <2>2. TopIs(Ensured.list, x, heap[x])
    BY <1>2, <1>3, <2>1 DEF Tops, Kept
  <2>3. r.list[x] = Ensured.list[x] /\ heap'[x] = heap[x]
    BY <2>1
  <2>. QED
    BY <2>2, <2>3 DEF TopIs
<1>. QED
  BY <1>3, TopsStep DEF Tops

LEMMA NothingTops ==
  ASSUME IInv, NewestIsOwn, Becomes(Ensured), UNCHANGED <<heap, counted>>
  PROVE  NewestIsOwn'
BY LeaveTops DEF Kept

(* A call that is not one of the limiter's.                                *)
LEMMA OutsideTops ==
  ASSUME IInv, NewestIsOwn, counted' \subseteq counted,
         \A x \in counted' : heap'[x] = heap[x],
         UNCHANGED <<alloc_limit_state, allocation_list>>
  PROVE  NewestIsOwn'
BY DEF NewestIsOwn, Tops, TopIs

LEMMA QuietMallocTops ==
  ASSUME IInv, NewestIsOwn, NEW n \in Size, quiet_malloc(Ensured, n)
  PROVE  NewestIsOwn'
<1>1. CASE Becomes(Ensured) /\ UNCHANGED <<heap, counted>>
  BY <1>1, NothingTops
<1>2. CASE /\ alloc_limit_may_alloc(Ensured, n)
           /\ \E p \in Free :
                /\ Ensured.state = "LIMIT_PEAK" => Room(Ensured, p)
                /\ Becomes(alloc_limit_did_alloc(Ensured, p, n))
                /\ heap' = [heap EXCEPT ![p] = n]
                /\ Counts(Ensured, {}, p, n)
  <2>1. PICK p \in Free :
          /\ Ensured.state = "LIMIT_PEAK" => Room(Ensured, p)
          /\ Becomes(alloc_limit_did_alloc(Ensured, p, n))
          /\ heap' = [heap EXCEPT ![p] = n]
          /\ Counts(Ensured, {}, p, n)
    BY <1>2
  <2>. DEFINE r == alloc_limit_did_alloc(Ensured, p, n)
  <2>2. p \in Pointer /\ counted' \subseteq counted \cup {p}
    BY <2>1 DEF Free, Counts
  <2>3. Kept(Ensured, r)
    BY <1>2, <2>1, <2>2, EnsuredSound, DidAllocSound
  <2>4. Ensured.state = "LIMIT_PEAK" =>
          /\ TopIs(r.list, p, n)
          /\ \A x \in Pointer : x # p => r.list[x] = Ensured.list[x]
    BY <2>1, <2>2, EnsuredSound, DidAllocTops
  <2>. HIDE DEF r
  <2>. QED
    BY <2>1, <2>2, <2>3, <2>4, GrantTops DEF r
<1>3. CASE Exits("exit 255")
  BY <1>3, OutsideTops DEF Exits
<1>. QED
  BY <1>1, <1>2, <1>3 DEF quiet_malloc

LEMMA QuietFreeTops ==
  ASSUME IInv, NewestIsOwn, NEW p \in Live, NEW r, quiet_free(Ensured, p, r)
  PROVE  NewestIsOwn'
<1>. DEFINE t == alloc_limit_will_free(Ensured, p)
<1>1. p \in Pointer
  BY DEF Live
<1>2. Kept(Ensured, t) /\ \A x \in Pointer : x # p => t.list[x] = Ensured.list[x]
  BY <1>1, EnsuredSound, WillFreeSound, WillFreeTops
<1>3. \A x \in Pointer \ {p} : t.list[x] = Ensured.list[x] /\ heap'[x] = heap[x]
  BY <1>2 DEF quiet_free, IInv, TypeOK
<1>4. Becomes(t) /\ counted' \subseteq counted \ {p}
  BY DEF quiet_free
<1>. HIDE DEF t
<1>. QED
  BY <1>2, <1>3, <1>4, LeaveTops

LEMMA ReallocReturnsNullTops ==
  ASSUME IInv, NewestIsOwn, NEW p \in Live, NEW n \in Requests,
         ReallocReturnsNull(p, n)
  PROVE  NewestIsOwn'
<1>1. Becomes(Ensured)
  BY DEF ReallocReturnsNull
<1>2. CASE UNCHANGED <<heap, counted>>
  BY <1>1, <1>2, NothingTops
<1>3. CASE heap' = [heap EXCEPT ![p] = Vacant] /\ counted' = counted \ {p}
  <2>1. \A x \in Pointer \ {p} : heap'[x] = heap[x]
    BY <1>3 DEF IInv, TypeOK
  <2>. QED
    BY <1>1, <1>3, <2>1, LeaveTops DEF Kept
<1>. QED
  BY <1>2, <1>3 DEF ReallocReturnsNull

(* A realloc that stays: the one place where MayMove matters.              *)
LEMMA ReallocReturnsBlockTops ==
  ASSUME ~ MayMove, IInv, NewestIsOwn, NEW p \in Live, NEW n \in Requests,
         ReallocReturnsBlock(p, n)
  PROVE  NewestIsOwn'
<1>1. p \in Pointer /\ n \in Size
  BY RequestSize DEF Live
<1>2. CASE ReallocGranted(Ensured, p, n)
  <2>. DEFINE r == ReallocLimiter(Ensured, p, p, n)
  <2>1. /\ Ensured.state = "LIMIT_PEAK" /\ ~ Recorded(Ensured, p) => Room(Ensured, p)
        /\ Becomes(r)
        /\ heap' = [heap EXCEPT ![p] = Vacant, ![p] = n]
        /\ Counts(Ensured, {p}, p, n)
    BY <1>2 DEF ReallocGranted, Destinations
  <2>2. heap' = [heap EXCEPT ![p] = n]
    BY <2>1 DEF IInv, TypeOK
  <2>3. counted' \subseteq counted \cup {p}
    BY <2>1 DEF Counts
  <2>4. Kept(Ensured, r)
    BY <1>1, <1>2, <2>1, EnsuredSound, ReallocLimiterSound DEF ReallocGranted
  <2>5. Ensured.state = "LIMIT_PEAK" =>
          /\ TopIs(r.list, p, n)
          /\ \A x \in Pointer : x # p => r.list[x] = Ensured.list[x]
    BY <1>1, <2>1, EnsuredSound, DidReallocTops DEF ReallocLimiter
  <2>6. Becomes(r)
    BY <2>1
  <2>. HIDE DEF r
  <2>. QED
    BY <1>1, <2>2, <2>3, <2>4, <2>5, <2>6, GrantTops
<1>3. CASE ReallocNodeFails(Ensured, p, n)
  BY <1>3, OutsideTops DEF ReallocNodeFails, Exits
<1>. QED
  BY <1>2, <1>3 DEF ReallocReturnsBlock

LEMMA ReallocfTops ==
  ASSUME ~ MayMove, IInv, NewestIsOwn, NEW p \in Live, NEW n \in Requests,
         rtipd_reallocf(p, n)
  PROVE  NewestIsOwn'
<1>1. CASE ReallocfFrees(p, n)
  BY <1>1, QuietFreeTops DEF ReallocfFrees
<1>2. CASE ReallocfFreesTwice(p, n)
  BY <1>2, OutsideTops DEF ReallocfFreesTwice, Exits
<1>3. CASE ReallocReturnsBlock(p, n)
  BY <1>3, ReallocReturnsBlockTops
<1>. QED
  BY <1>1, <1>2, <1>3 DEF rtipd_reallocf

LEMMA CallocTops ==
  ASSUME IInv, NewestIsOwn, NEW nmemb \in Requests, NEW size \in Requests,
         rtipd_calloc(nmemb, size)
  PROVE  NewestIsOwn'
<1>1. CASE CallocTraps(nmemb)
  BY <1>1, OutsideTops DEF CallocTraps, Exits
<1>2. CASE CallocOverflows(nmemb, size)
  BY <1>2, NothingTops DEF CallocOverflows
<1>3. CASE CallocFits(nmemb, size)
  BY <1>3, ProductFits, RequestSize, QuietMallocTops DEF CallocFits
<1>. QED
  BY <1>1, <1>2, <1>3 DEF rtipd_calloc

(* A new limit counts nothing.                                             *)
LEMMA SetTops ==
  ASSUME NEW mode, NEW n, Set(mode, n)
  PROVE  NewestIsOwn'
BY DEF Set, NewestIsOwn, Tops

LEMMA ForeignTops ==
  ASSUME IInv, NewestIsOwn, NEW p \in Pointer,
         (\E n \in Requests : ForeignMalloc(p, n)) \/ ForeignFree(p)
  PROVE  NewestIsOwn'
<1>1. p \in Free => p \notin counted
  BY DEF IInv, TypeOK, Live
<1>2. counted' \subseteq counted \ {p}
  BY <1>1 DEF ForeignMalloc, ForeignFree
<1>3. \A x \in Pointer \ {p} : heap'[x] = heap[x]
  BY DEF ForeignMalloc, ForeignFree, IInv, TypeOK
<1>4. counted \subseteq Pointer
  BY DEF IInv, TypeOK, Live
<1>5. UNCHANGED <<alloc_limit_state, allocation_list>>
  BY DEF ForeignMalloc, ForeignFree
<1>. QED
  BY <1>2, <1>3, <1>4, <1>5, OutsideTops

-----------------------------------------------------------------------------
LEMMA NextNewest ==
  ASSUME ~ MayMove, IInv, NewestIsOwn, [Next]_vars
  PROVE  NewestIsOwn'
<1>1. CASE BadEnvVar
  BY <1>1, OutsideTops DEF BadEnvVar, Exits
<1>2. CASE FreeNull
  BY <1>2, NothingTops DEF FreeNull
<1>3. CASE alloc_limit_set_no_limit
  BY <1>3, SetTops DEF alloc_limit_set_no_limit
<1>4. CASE \E n \in Limits : alloc_limit_set_total(n) \/ alloc_limit_set_peak(n)
  BY <1>4, SetTops DEF alloc_limit_set_total, alloc_limit_set_peak
<1>5. CASE \E n \in Requests : rtipd_malloc(n)
  BY <1>5, RequestSize, QuietMallocTops DEF rtipd_malloc
<1>6. CASE \E nmemb, size \in Requests : rtipd_calloc(nmemb, size)
  BY <1>6, CallocTops
<1>7. CASE \E p \in Live : rtipd_free(p)
  BY <1>7, QuietFreeTops DEF rtipd_free
<1>8. CASE \E p \in Live, n \in Requests : rtipd_realloc(p, n)
  BY <1>8, ReallocReturnsNullTops, ReallocReturnsBlockTops DEF rtipd_realloc
<1>9. CASE \E p \in Live, n \in Requests : rtipd_reallocf(p, n)
  BY <1>9, ReallocfTops
<1>10. CASE \E p \in Pointer, n \in Requests : ForeignMalloc(p, n)
  BY <1>10, ForeignTops
<1>11. CASE \E p \in Live : ForeignFree(p)
  BY <1>11, ForeignTops DEF Live
<1>12. CASE UNCHANGED vars
  BY <1>12, OutsideTops DEF vars
<1>. QED
  BY <1>1, <1>2, <1>3, <1>4, <1>5, <1>6, <1>7, <1>8, <1>9, <1>10, <1>11, <1>12
  DEF Next

(***************************************************************************)
(* With an allocator whose realloc leaves blocks in place, a peak limit    *)
(* caps the heap: no sequence of calls, failures, growths and shrinks, and *)
(* no block freed behind the limiter's back, makes the live blocks granted *)
(* since the limit was set add up to more than it.                         *)
(***************************************************************************)
THEOREM PeakCapped == ~ MayMove => (Spec => []PeakCap)
<1>. SUFFICES ASSUME ~ MayMove PROVE Spec => []PeakCap
  OBVIOUS
<1>1. Init => NewestIsOwn
  BY DEF Init, NewestIsOwn, Tops
<1>2. IInv /\ NewestIsOwn /\ [Next]_vars => NewestIsOwn'
  BY NextNewest
<1>3. IInv /\ NewestIsOwn => PeakCap
  BY PeakCapFollows
<1>. QED
  BY <1>1, <1>2, <1>3, Invariance, PTL DEF Spec
=============================================================================
