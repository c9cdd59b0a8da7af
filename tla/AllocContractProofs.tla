------------------------ MODULE AllocContractProofs ------------------------
(***************************************************************************)
(* The limiter implements the manual page, for any sizes, limits and       *)
(* environments, if blocks are resized in place and none goes behind the   *)
(* limiter's back.                                                         *)
(*                                                                         *)
(* The manual page's budget is what is left of the limit after the charges *)
(* of live blocks; the limiter's is bytes_remaining.  They are the same    *)
(* because a block that counts has one record, and no other block has any, *)
(* so that the records and the charges have one sum.                       *)
(***************************************************************************)
EXTENDS AllocImplements, AllocLimitProofs

(* Under a peak limit, a block that counts has one record, others none.    *)
Once(state, list, blocks) ==
  state = "LIMIT_PEAK" =>
    \A p \in Pointer : Len(list[p]) = IF p \in blocks THEN 1 ELSE 0

OwnRecords == Once(alloc_limit_state, allocation_list, counted)

Books == IInv /\ NewestIsOwn /\ OwnRecords

-----------------------------------------------------------------------------
(* Entries that are zero add nothing to a sum: f on K is g on L, and zero  *)
(* elsewhere.                                                              *)
Extends(f, K, g, L) ==
  /\ L \subseteq K
  /\ f \in [K -> 0 .. SizeMax] /\ \A k \in K : k \notin L => f[k] = 0
  /\ g \in [L -> 0 .. SizeMax] /\ \A k \in L : g[k] = f[k]

LEMMA VolumeSupport ==
  ASSUME NEW f, NEW K, NEW g, NEW L, Extends(f, K, g, L)
  PROVE  Volume(g) = Volume(f)
<1> USE SizeMaxAssumption DEF SizeMaxAssumption, Extends
<1>1. \A x : x \in Bytes(f) <=> \E k \in K : \E b \in 1 .. f[k] : x = <<k, b>>
  BY BytesMember
<1>2. \A x : x \in Bytes(g) <=> \E k \in L : \E b \in 1 .. g[k] : x = <<k, b>>
  BY BytesMember
<1>3. \A k \in K : k \notin L => 1 .. f[k] = {}
  OBVIOUS
<1>4. \A x : x \in Bytes(g) <=> x \in Bytes(f)
  BY <1>1, <1>2, <1>3
<1>5. Bytes(g) = Bytes(f)
  BY <1>4
<1> QED
  BY <1>5 DEF Volume

LEMMA ChargesType ==
  ASSUME IInv
  PROVE  Charges \in [Pointer -> 0 .. SizeMax]
<1>1. \A p \in counted : heap[p] \in Size
  BY DEF IInv, TypeOK, Live, Free
<1> QED
  BY <1>1, SizeMaxAssumption DEF Charges, Charge, Size, SizeMaxAssumption

(* With one record for each block that counts, both sums are the same.     *)
LEMMA OneSum ==
  ASSUME IInv, NEW list \in [Pointer -> Stacks],
         \A p \in counted : TopIs(list, p, heap[p]) /\ Len(list[p]) = 1,
         \A p \in Pointer \ counted : Len(list[p]) = 0
  PROVE  Volume(RecordSizes(list)) = Volume(Charges)
<1> DEFINE f  == Charges
           g  == RecordSizes(list)
           L  == counted \X {1}
           fK == [p \in counted |-> f[p]]
           gL == [k \in L |-> g[k]]
           i  == [p \in counted |-> <<p, 1>>]
           j  == [k \in L |-> k[1]]
<1>1. counted \subseteq Pointer /\ IsFiniteSet(Pointer) /\ SizeMax \in Nat
  BY AllocAssumption, SizeMaxAssumption
  DEF IInv, TypeOK, Live, AllocAssumption, SizeMaxAssumption
<1>2. IsFiniteSet(counted) /\ IsFiniteSet(L)
  <2>1. IsFiniteSet(counted)
    BY <1>1, FS_Subset
  <2>2. IsFiniteSet({1})
    BY FS_Singleton
  <2> QED
    BY <2>1, <2>2, FS_Product
<1>3. f \in [Pointer -> 0 .. SizeMax] /\ \A p \in Pointer \ counted : f[p] = 0
  BY ChargesType DEF Charges, Charge
<1>4. \A p \in Pointer : list[p] \in Stacks /\ DOMAIN list[p] = 1 .. Len(list[p])
                         /\ Len(list[p]) \in 0 .. MaxRecords
  <2> TAKE p \in Pointer
  <2>1. list[p] \in Stacks
    OBVIOUS
  <2>2. list[p] \in Seq(Size) /\ Len(list[p]) <= MaxRecords
    BY <2>1, StackMember, Zenon
  <2>3. DOMAIN list[p] = 1 .. Len(list[p]) /\ Len(list[p]) \in Nat
    BY <2>2, LenProperties
  <2> QED
    BY <2>1, <2>2, <2>3, AllocAssumption DEF AllocAssumption
<1>5. g \in [Slots -> 0 .. SizeMax]
  BY RecordSizesType
<1>6. L \subseteq Slots
  BY <1>1, <1>4 DEF Slots
<1>7. \A p \in counted : g[<<p, 1>>] = heap[p]
  <2> TAKE p \in counted
  <2>1. <<p, 1>> \in Slots /\ 1 \in DOMAIN list[p] /\ list[p][1] = heap[p]
    BY <1>1, <1>4, <1>6 DEF TopIs
  <2> QED
    BY <2>1 DEF RecordSizes, Slots
<1>8. \A k \in Slots \ L : g[k] = 0
  <2> SUFFICES ASSUME NEW p \in Pointer, NEW m \in 1 .. MaxRecords, <<p, m>> \notin L
               PROVE  g[<<p, m>>] = 0
    BY DEF Slots
  <2>1. m \notin DOMAIN list[p]
    <3>1. CASE p \in counted
      <4>1. m # 1 /\ DOMAIN list[p] = 1 .. 1
        BY <1>4, <3>1
      <4> QED
        BY <4>1
    <3>2. CASE p \notin counted
      <4>1. DOMAIN list[p] = 1 .. 0
        BY <1>4, <3>2
      <4> QED
        BY <4>1
    <3> QED
      BY <3>1, <3>2
  <2>2. <<p, m>> \in Pointer \X (1 .. MaxRecords)
    OBVIOUS
  <2> QED
    BY <2>1, <2>2 DEF RecordSizes
<1>9. fK \in [counted -> 0 .. SizeMax] /\ Volume(fK) = Volume(f)
  <2>1. fK \in [counted -> 0 .. SizeMax] /\ \A p \in counted : fK[p] = f[p]
    BY <1>1, <1>3
  <2>2. \A p \in Pointer : p \notin counted => f[p] = 0
    BY <1>3
  <2>3. Extends(f, Pointer, fK, counted)
    BY <1>1, <1>3, <2>1, <2>2 DEF Extends
  <2> QED
    BY <2>1, <2>3, VolumeSupport, Zenon
<1>10. gL \in [L -> 0 .. SizeMax] /\ Volume(gL) = Volume(g)
  <2> HIDE DEF g, L
  <2>1. gL \in [L -> 0 .. SizeMax] /\ \A k \in L : gL[k] = g[k]
    BY <1>5, <1>6
  <2>2. \A k \in Slots : k \notin L => g[k] = 0
    BY <1>8
  <2> HIDE DEF gL
  <2>3. Extends(g, Slots, gL, L)
    BY <1>5, <1>6, <2>1, <2>2 DEF Extends
  <2> QED
    BY <2>1, <2>3, VolumeSupport, Zenon
<1>11. /\ i \in [counted -> L]
       /\ \A p, q \in counted : i[p] = i[q] => p = q
       /\ \A p \in counted : fK[p] = gL[i[p]]
  BY <1>1, <1>7 DEF Charges, Charge
<1>12. /\ j \in [L -> counted]
       /\ \A k, l \in L : j[k] = j[l] => k = l
       /\ \A k \in L : gL[k] = fK[j[k]]
  BY <1>1, <1>7 DEF Charges, Charge
<1> HIDE DEF fK, gL, i, j, L, f, g
<1>13. \A p \in counted : fK[p] <= gL[i[p]]
  BY <1>1, <1>9, <1>11
<1>14. \A k \in L : gL[k] <= fK[j[k]]
  BY <1>1, <1>10, <1>12
<1>15. Volume(fK) <= Volume(gL)
  BY <1>1, <1>2, <1>9, <1>10, <1>11, <1>13, VolumeInjection
<1>16. Volume(gL) <= Volume(fK)
  BY <1>1, <1>2, <1>9, <1>10, <1>12, <1>14, VolumeInjection
<1>17. Volume(fK) \in Nat /\ Volume(gL) \in Nat
  BY <1>1, <1>2, <1>9, <1>10, VolumeType
<1>18. Volume(f) = Volume(g)
  BY <1>9, <1>10, <1>15, <1>16, <1>17
<1> QED
  BY <1>18 DEF f, g

-----------------------------------------------------------------------------
(* What a wrapper finds when it begins: the contract's budget.             *)
LEMMA EnsuredOnce ==
  ASSUME IInv, OwnRecords
  PROVE  Once(Ensured.state, Ensured.list, counted)
<1>1. CASE alloc_limit_state = "UNINITIALIZED"
  <2>1. counted = {}
    BY <1>1 DEF IInv, FreshStart
  <2>2. Ensured.list = NoRecords
    BY <1>1 DEF Ensured, SetLimiter
  <2>3. \A p \in Pointer : Ensured.list[p] = << >>
    BY <2>2 DEF NoRecords
  <2> QED
    BY <2>1, <2>3, EmptySeq DEF Once
<1>2. CASE alloc_limit_state # "UNINITIALIZED"
  BY <1>2 DEF Ensured, OwnRecords
<1> QED
  BY <1>1, <1>2

LEMMA ContractVolume == Contract!Volume(Charges) = Volume(Charges)
<1>1. Contract!Bytes(Charges) = Bytes(Charges)
  BY Zenon DEF Contract!Bytes, Bytes
<1>2. Contract!Cardinality(Bytes(Charges)) = Cardinality(Bytes(Charges))
  BY Zenon DEF Contract!Cardinality, Cardinality
<1> QED
  BY <1>1, <1>2, Zenon DEF Contract!Volume, Volume

LEMMA BudgetsAgree ==
  ASSUME Books
  PROVE  /\ Ensured \in Limiter /\ Sound(Ensured)
         /\ Limited(Ensured) => Contract!Left = Ensured.remaining
         /\ Ensured.state = "LIMIT_PEAK" =>
              \A p \in Pointer : /\ RecordSize(Ensured, p) = Charge(p)
                                 /\ Recorded(Ensured, p) <=> p \in counted
         /\ ~ Limited(Ensured) => counted = {}
<1>1. /\ Sound(Ensured) /\ Spends(Ensured, spent) /\ Ensured \in Limiter
      /\ Limited(Ensured) \/ counted = {}
  BY EnsuredSound DEF Books, Sound
<1>2. Once(Ensured.state, Ensured.list, counted)
  BY EnsuredOnce DEF Books
<1>3. Tops(Ensured.state, Ensured.list, counted, heap)
  BY EnsuredTops DEF Books
<1>4. /\ Ensured.list \in [Pointer -> Stacks] /\ counted \subseteq Pointer
      /\ Ensured.remaining \in Nat /\ Ensured.limit \in Nat /\ spent \in Nat
  <2>1. Ensured.list \in [Pointer -> Stacks] /\ Ensured.remaining \in Size
        /\ Ensured.limit \in Size
    BY <1>1, Zenon DEF Limiter
  <2>2. counted \subseteq Pointer /\ spent \in Nat
    BY DEF Books, IInv, TypeOK, Live
  <2> QED
    BY <2>1, <2>2 DEF Size
<1>5. CASE Ensured.state = "LIMIT_PEAK"
  <2>1. /\ \A p \in counted : TopIs(Ensured.list, p, heap[p]) /\ Len(Ensured.list[p]) = 1
        /\ \A p \in Pointer \ counted : Len(Ensured.list[p]) = 0
    BY <1>2, <1>3, <1>4, <1>5 DEF Once, Tops
  <2>2. Volume(RecordSizes(Ensured.list)) = Volume(Charges)
    BY <1>4, <2>1, OneSum DEF Books
  <2>3. Ensured.remaining + Volume(RecordSizes(Ensured.list)) = Ensured.limit
    BY <1>1, <1>5 DEF Sound, Balanced
  <2>4. Volume(RecordSizes(Ensured.list)) \in Nat
    BY <1>4, RecordSizesType
  <2>5. Contract!Left = Ensured.limit - Volume(Charges)
    BY <1>5, ContractVolume DEF Contract!Left
  <2>6. Contract!Left = Ensured.remaining
    BY <1>4, <2>2, <2>3, <2>4, <2>5
  <2>7. ASSUME NEW p \in Pointer
        PROVE  /\ RecordSize(Ensured, p) = Charge(p)
               /\ Recorded(Ensured, p) <=> p \in counted
    <3>1. CASE p \in counted
      BY <2>1, <3>1 DEF TopIs, RecordSize, Recorded, Charge
    <3>2. CASE p \notin counted
      <4>1. Ensured.list[p] = << >>
        <5>1. Ensured.list[p] \in Stacks
          BY <1>4
        <5>2. Ensured.list[p] \in Seq(Size)
          BY <5>1, StackMember, Zenon
        <5> QED
          BY <2>1, <3>2, <5>2, EmptySeq
      <4> QED
        BY <3>2, <4>1 DEF RecordSize, Recorded, Charge
    <3> QED
      BY <3>1, <3>2
  <2> QED
    BY <1>1, <1>5, <2>6, <2>7 DEF Limited
<1>6. CASE Ensured.state # "LIMIT_PEAK"
  <2>1. Ensured.state = "LIMIT_TOTAL" => Contract!Left = Ensured.remaining
    <3>1. Ensured.state = "LIMIT_TOTAL" => Contract!Left = Ensured.limit - spent
      BY DEF Contract!Left
    <3> QED
      BY <1>1, <1>4, <3>1 DEF Spends
  <2> QED
    BY <1>1, <1>6, <2>1 DEF Limited
<1> QED
  BY <1>5, <1>6

-----------------------------------------------------------------------------
(* The steps of the contract, as a wrapper takes them.                     *)
LEMMA EnsuredAfter ==
  ASSUME NEW r, r \in Limiter, Becomes(r), Kept(Ensured, r)
  PROVE  Ensured'.state = Ensured.state /\ Ensured'.limit = Ensured.limit
<1>1. r.state # "UNINITIALIZED"
  BY DEF Limiter, Modes
<1>2. Ensured' = [state |-> r.state, remaining |-> r.remaining, list |-> r.list,
                  limit |-> r.limit]
  BY <1>1 DEF Ensured, Becomes
<1> QED
  BY <1>2 DEF Kept

LEMMA GrantMaps ==
  ASSUME Books, NEW r, r \in Limiter, Becomes(r), Kept(Ensured, r),
         NEW p \in Pointer, NEW n \in Size,
         Ensured.state = "LIMIT_TOTAL" => n <= Ensured.remaining,
         Ensured.state = "LIMIT_PEAK" => n - Charge(p) <= Ensured.remaining,
         heap' = [heap EXCEPT ![p] = n],
         counted' = IF Limited(Ensured) THEN counted \cup {p} ELSE counted,
         spent' = IF Ensured.state = "LIMIT_TOTAL" THEN spent + n ELSE spent,
         reply' = Said("granted")
  PROVE  Contract!Next
<1>1. Ensured'.state = Ensured.state /\ Ensured'.limit = Ensured.limit
  BY EnsuredAfter
<1>2. /\ Limited(Ensured) => Contract!Left = Ensured.remaining
      /\ ~ Limited(Ensured) => counted = {}
  BY BudgetsAgree
<1>3. heap \in [Pointer -> Size \cup {Vacant}] /\ Charges[p] = Charge(p)
  BY DEF Books, IInv, TypeOK, Charges
<1>4. Charges' = IF Ensured.state = "NO_LIMIT" THEN Charges
                 ELSE [Charges EXCEPT ![p] = 0, ![p] = n]
  <2>1. CASE Limited(Ensured)
    <3>1. \A q \in Pointer : Charge(q)' = IF q = p THEN n ELSE Charge(q)
      BY <1>3, <2>1 DEF Charge
    <3>2. Ensured.state # "NO_LIMIT"
      BY <2>1 DEF Limited
    <3> QED
      BY <3>1, <3>2 DEF Charges
  <2>2. CASE ~ Limited(Ensured)
    <3>1. \A q \in Pointer : Charge(q) = 0 /\ Charge(q)' = 0
      BY <1>2, <2>2 DEF Charge
    <3>2. Ensured.state = "NO_LIMIT"
      BY <2>2, BudgetsAgree DEF Limited, Limiter, Modes
    <3> QED
      BY <3>1, <3>2 DEF Charges
  <2> QED
    BY <2>1, <2>2
<1>5. Contract!Answers({"granted"})
  BY DEF Contract!Answers, Said
<1>6. Contract!Grant(p, p, n)
  BY <1>1, <1>2, <1>3, <1>4, <1>5 DEF Contract!Grant, Limited
<1> QED
  BY <1>6 DEF Contract!Next, Size

(* What is charged after the blocks of gone are.                           *)
LEMMA ChargesGone ==
  ASSUME NEW gone, counted' = counted \ gone, counted \subseteq Pointer,
         \A p \in Pointer \ gone : heap'[p] = heap[p]
  PROVE  Charges' = [p \in Pointer |-> IF p \in gone THEN 0 ELSE Charges[p]]
<1>1. \A p \in Pointer : Charge(p)' = IF p \in gone THEN 0 ELSE Charge(p)
  BY DEF Charge
<1> QED
  BY <1>1 DEF Charges

LEMMA ReleaseMaps ==
  ASSUME Books, NEW r, r \in Limiter, Becomes(r), Kept(Ensured, r),
         NEW gone \in Contract!AtMostOne, counted' = counted \ gone,
         \A p \in Pointer \ gone : heap'[p] = heap[p], spent' = spent,
         reply' \in {Said("none"), Said("failed")}
  PROVE  Contract!Next
<1>1. Ensured'.state = Ensured.state /\ Ensured'.limit = Ensured.limit
  BY EnsuredAfter
<1>2. Charges' = [p \in Pointer |-> IF p \in gone THEN 0 ELSE Charges[p]]
  BY ChargesGone DEF Books, IInv, TypeOK, Live
<1>3. Contract!Answers(Contract!Quiet)
  BY DEF Contract!Answers, Contract!Quiet, Said
<1>4. Contract!Release(gone)
  BY <1>1, <1>2, <1>3 DEF Contract!Release
<1> QED
  BY <1>4 DEF Contract!Next

LEMMA RefuseMaps ==
  ASSUME Books, NEW r, r \in Limiter, Becomes(r), Kept(Ensured, r),
         Limited(Ensured), NEW n \in Size, n > Ensured.remaining,
         NEW gone \in Contract!AtMostOne, counted' = counted \ gone,
         \A p \in Pointer \ gone : heap'[p] = heap[p], spent' = spent,
         reply' = Refusal(n)
  PROVE  Contract!Next
<1>1. Ensured'.state = Ensured.state /\ Ensured'.limit = Ensured.limit
  BY EnsuredAfter
<1>2. Charges' = [p \in Pointer |-> IF p \in gone THEN 0 ELSE Charges[p]]
  BY ChargesGone DEF Books, IInv, TypeOK, Live
<1>3. /\ reply' \in [kind : {"refused"}, cost : 0 .. SizeMax]
      /\ reply'.cost = n
  BY DEF Refusal, Size
<1>4. Ensured.state # "NO_LIMIT" /\ Contract!Left = Ensured.remaining
  BY BudgetsAgree DEF Limited
<1>5. Contract!Refuse(gone)
  BY <1>1, <1>2, <1>3, <1>4 DEF Contract!Refuse
<1> QED
  BY <1>5 DEF Contract!Next

(* A call that ends the process inside it is no step of the contract.      *)
LEMMA ExitStutters ==
  ASSUME NEW how, Exits(how)
  PROVE  UNCHANGED Contract!vars
<1>1. UNCHANGED <<alloc_limit_state, bytes_remaining, allocation_list, env, heap, reply,
                  limit, counted, spent>>
  BY DEF Exits
<1>2. Ensured' = Ensured /\ Charges' = Charges
  BY <1>1 DEF Ensured, Charges, Charge
<1> QED
  BY <1>1, <1>2 DEF Contract!vars

-----------------------------------------------------------------------------
(* What the limiter's operators do to the number of records.               *)
LEMMA OnceStep ==
  ASSUME NEW r, Becomes(r), Once(r.state, r.list, counted')
  PROVE  OwnRecords'
BY DEF Becomes, OwnRecords, Once

LEMMA KeptOnce ==
  ASSUME Books, Becomes(Ensured), counted' = counted
  PROVE  OwnRecords'
BY EnsuredOnce, OnceStep DEF Books

LEMMA OutsideOnce ==
  ASSUME Books, UNCHANGED <<alloc_limit_state, allocation_list, counted>>
  PROVE  OwnRecords'
BY DEF Books, OwnRecords, Once

(* A block is charged n bytes, and no other block's records change.        *)
LEMMA GrantOnce ==
  ASSUME Books, NEW r, Becomes(r), Kept(Ensured, r), NEW p \in Pointer,
         Ensured.state = "LIMIT_PEAK" =>
           /\ Len(r.list[p]) = 1
           /\ \A q \in Pointer : q # p => r.list[q] = Ensured.list[q],
         counted' = IF Limited(Ensured) THEN counted \cup {p} ELSE counted
  PROVE  OwnRecords'
<1>1. Once(Ensured.state, Ensured.list, counted)
  BY EnsuredOnce DEF Books
<1>2. r.state = Ensured.state
  BY DEF Kept
<1>3. ASSUME r.state = "LIMIT_PEAK", NEW q \in Pointer
      PROVE  Len(r.list[q]) = IF q \in counted' THEN 1 ELSE 0
  <2>1. counted' = counted \cup {p}
    BY <1>2, <1>3 DEF Limited
  <2>2. CASE q = p
    BY <1>2, <1>3, <2>1, <2>2
  <2>3. CASE q # p
    BY <1>1, <1>2, <1>3, <2>1, <2>3 DEF Once
  <2> QED
    BY <2>2, <2>3
<1>4. Once(r.state, r.list, counted')
  BY <1>3 DEF Once
<1> QED
  BY <1>4, OnceStep

LEMMA FreeOnce ==
  ASSUME Books, NEW p \in Pointer, NEW r, r = alloc_limit_will_free(Ensured, p),
         Becomes(r), counted' = counted \ {p}
  PROVE  OwnRecords'
<1>1. /\ Ensured \in Limiter /\ Sound(Ensured)
      /\ Ensured.list \in [Pointer -> Stacks] /\ Ensured.list[p] \in Stacks
  BY BudgetsAgree DEF Limiter
<1>2. Kept(Ensured, r) /\ \A q \in Pointer : q # p => r.list[q] = Ensured.list[q]
  BY <1>1, WillFreeSound, WillFreeTops
<1>3. Once(Ensured.state, Ensured.list, counted)
  BY EnsuredOnce DEF Books
<1>4. ASSUME Ensured.state = "LIMIT_PEAK" PROVE Len(r.list[p]) = 0
  <2>1. r = forget_allocation(Ensured, p)
    BY <1>4 DEF alloc_limit_will_free
  <2>2. CASE Recorded(Ensured, p)
    <3> DEFINE t == Ensured.list[p]
    <3>1. r.list[p] = SubSeq(t, 1, Len(t) - 1)
      BY <1>1, <2>1, <2>2 DEF forget_allocation, Limiter
    <3>2. Len(t) = 1
      <4>1. p \in counted
        BY <1>4, <2>2, BudgetsAgree
      <4> QED
        BY <1>3, <1>4, <4>1 DEF Once
    <3>3. t \in Seq(Size)
      BY <1>1, StackMember, Zenon
    <3> HIDE DEF t
    <3>4. Len(SubSeq(t, 1, 0)) = 0
      BY <3>3
    <3> QED
      BY <3>1, <3>2, <3>4
  <2>3. CASE ~ Recorded(Ensured, p)
    <3>1. r.list[p] = << >>
      BY <2>1, <2>3 DEF forget_allocation, Recorded
    <3> QED
      BY <3>1, EmptySeq
  <2> QED
    BY <2>2, <2>3
<1>5. ASSUME r.state = "LIMIT_PEAK", NEW q \in Pointer
      PROVE  Len(r.list[q]) = IF q \in counted' THEN 1 ELSE 0
  <2>1. Ensured.state = "LIMIT_PEAK"
    BY <1>2, <1>5 DEF Kept
  <2>2. CASE q = p
    BY <1>4, <2>1, <2>2
  <2>3. CASE q # p
    BY <1>2, <1>3, <2>1, <2>3 DEF Once
  <2> QED
    BY <2>2, <2>3
<1>6. Once(r.state, r.list, counted')
  BY <1>5 DEF Once
<1> QED
  BY <1>6, OnceStep

(* A stack with one more record than none, or with its record changed.     *)
LEMMA OneMore ==
  ASSUME Books, Ensured.state = "LIMIT_PEAK", NEW p \in Pointer, NEW n \in Size,
         ~ Recorded(Ensured, p)
  PROVE  Len(remember_allocation(Ensured, p, n).list[p]) = 1
<1>1. Ensured.list \in [Pointer -> Stacks] /\ Ensured \in Limiter
  BY BudgetsAgree DEF Limiter
<1>2. Ensured.list[p] = << >>
  BY DEF Recorded
<1>3. remember_allocation(Ensured, p, n).list[p] = Append(Ensured.list[p], n)
  BY <1>1 DEF remember_allocation, Limiter
<1>4. Len(Append(<< >>, n)) = 1
  OBVIOUS
<1> QED
  BY <1>2, <1>3, <1>4

LEMMA DidReallocOnce ==
  ASSUME Books, Ensured.state = "LIMIT_PEAK", NEW p \in Pointer, NEW n \in Size,
         NEW r, r = did_realloc(Ensured, p, p, n)
  PROVE  Len(r.list[p]) = 1
<1>1. /\ Ensured \in Limiter /\ Ensured.list \in [Pointer -> Stacks]
      /\ Ensured.list[p] \in Stacks
  BY BudgetsAgree DEF Limiter
<1>2. CASE Recorded(Ensured, p)
  <2> DEFINE t == Ensured.list[p]
             w == Wrap(t[Len(t)] + Wrap(n - RecordSize(Ensured, p)))
  <2>1. r.list = [Ensured.list EXCEPT ![p][Len(Ensured.list[p])] =
                    Wrap(@ + Wrap(n - RecordSize(Ensured, p)))]
    BY <1>1, <1>2 DEF did_realloc, Limiter
  <2>2. r.list[p] = [t EXCEPT ![Len(t)] = w]
    BY <1>1, <2>1
  <2>3. t # << >> /\ RecordSize(Ensured, p) = t[Len(t)]
    BY <1>2 DEF Recorded, RecordSize
  <2>4. t[Len(t)] \in Size
    BY <1>1, <2>3, StackPop, Zenon
  <2>5. w = n
    BY <2>3, <2>4, RecordBecomes
  <2>6. t \in Stacks
    BY <1>1
  <2>7. Len(t) = 1
    <3>1. p \in counted /\ Once(Ensured.state, Ensured.list, counted)
      BY <1>2, BudgetsAgree, EnsuredOnce DEF Books
    <3> QED
      BY <3>1 DEF Once
  <2> HIDE DEF t, w
  <2>8. Len([t EXCEPT ![Len(t)] = n]) = Len(t)
    BY <2>3, <2>6, StackChange, Zenon
  <2> QED
    BY <2>2, <2>5, <2>7, <2>8
<1>3. CASE ~ Recorded(Ensured, p)
  <2> DEFINE paid == [Ensured EXCEPT !.remaining =
                        Wrap(@ - Wrap(n - RecordSize(Ensured, p)))]
  <2>1. r = remember_allocation(paid, p, n)
    BY <1>3 DEF did_realloc
  <2>2. paid.list = Ensured.list
    BY <1>1 DEF Limiter
  <2>3. r.list = remember_allocation(Ensured, p, n).list
    BY <1>1, <2>1, <2>2 DEF remember_allocation, Limiter
  <2> QED
    BY <1>3, <2>3, OneMore
<1> QED
  BY <1>2, <1>3

-----------------------------------------------------------------------------
(* Every action of the limiter is a step of the contract, or none, and     *)
(* leaves each block that counts its one record.                           *)
Maps == Contract!Next \/ UNCHANGED Contract!vars

LEMMA NoneGone == {} \in Contract!AtMostOne
BY DEF Contract!AtMostOne

LEMMA QuietMaps ==
  ASSUME Books, Becomes(Ensured), UNCHANGED <<heap, counted, spent>>,
         reply' \in {Said("none"), Said("failed")}
  PROVE  Maps /\ OwnRecords'
<1>1. Ensured \in Limiter /\ Kept(Ensured, Ensured)
  BY BudgetsAgree DEF Kept
<1>2. Contract!Next
  BY <1>1, NoneGone, ReleaseMaps
<1> QED
  BY <1>2, KeptOnce DEF Maps

LEMMA ExitMaps ==
  ASSUME Books, NEW how, Exits(how)
  PROVE  Maps /\ OwnRecords'
<1>1. UNCHANGED Contract!vars
  BY ExitStutters
<1>2. OwnRecords'
  BY OutsideOnce DEF Exits
<1> QED
  BY <1>1, <1>2 DEF Maps

LEMMA QuietMallocMaps ==
  ASSUME Books, NEW n \in Size, quiet_malloc(Ensured, n)
  PROVE  Maps /\ OwnRecords'
<1>1. Ensured \in Limiter /\ Sound(Ensured) /\ Kept(Ensured, Ensured)
  BY BudgetsAgree DEF Kept
<1>2. CASE /\ ~ alloc_limit_may_alloc(Ensured, n)
           /\ Becomes(Ensured)
           /\ Returns(Refusal(n))
           /\ UNCHANGED <<heap, counted, spent>>
  <2>1. Limited(Ensured) /\ n > Ensured.remaining
    BY <1>2 DEF alloc_limit_may_alloc
  <2>2. Contract!Next
    BY <1>1, <1>2, <2>1, NoneGone, RefuseMaps DEF Returns
  <2> QED
    BY <1>2, <2>2, KeptOnce DEF Maps
<1>3. CASE /\ Becomes(Ensured)
           /\ Returns(Said("failed"))
           /\ UNCHANGED <<heap, counted, spent>>
  BY <1>3, QuietMaps DEF Returns
<1>4. CASE /\ alloc_limit_may_alloc(Ensured, n)
           /\ \E p \in Free :
                /\ Ensured.state = "LIMIT_PEAK" => Room(Ensured, p)
                /\ Becomes(alloc_limit_did_alloc(Ensured, p, n))
                /\ heap' = [heap EXCEPT ![p] = n]
                /\ Counts(Ensured, {}, p, n)
                /\ Returns(Said("granted"))
  <2>1. PICK p \in Free :
          /\ Ensured.state = "LIMIT_PEAK" => Room(Ensured, p)
          /\ Becomes(alloc_limit_did_alloc(Ensured, p, n))
          /\ heap' = [heap EXCEPT ![p] = n]
          /\ Counts(Ensured, {}, p, n)
          /\ Returns(Said("granted"))
    BY <1>4
  <2> DEFINE r == alloc_limit_did_alloc(Ensured, p, n)
  <2>2. p \in Pointer /\ p \notin counted
    BY DEF Free, Books, IInv, TypeOK, Live
  <2>3. r \in Limiter /\ Kept(Ensured, r)
    BY <1>1, <1>4, <2>1, <2>2, DidAllocSound DEF Sound
  <2>4. counted' = IF Limited(Ensured) THEN counted \cup {p} ELSE counted
    BY <2>1 DEF Counts
  <2>5. Limited(Ensured) => n <= Ensured.remaining
    BY <1>1, <1>4 DEF alloc_limit_may_alloc, Limiter, Size
  <2>6. Ensured.state = "LIMIT_PEAK" => n - Charge(p) <= Ensured.remaining
    BY <2>2, <2>5 DEF Charge, Limited, Size
  <2>7. ASSUME Ensured.state = "LIMIT_PEAK"
        PROVE  /\ Len(r.list[p]) = 1
               /\ \A q \in Pointer : q # p => r.list[q] = Ensured.list[q]
    <3>1. ~ Recorded(Ensured, p)
      BY <2>2, <2>7, BudgetsAgree
    <3>2. r.list = remember_allocation(Ensured, p, n).list
      BY <1>1, <2>7 DEF alloc_limit_did_alloc, Limited, remember_allocation, Limiter
    <3>3. Len(r.list[p]) = 1
      BY <2>2, <2>7, <3>1, <3>2, OneMore
    <3>4. \A q \in Pointer : q # p => r.list[q] = Ensured.list[q]
      BY <1>1, <2>1, <2>2, <2>7, DidAllocTops
    <3> QED
      BY <3>3, <3>4
  <2>8. /\ Becomes(r) /\ heap' = [heap EXCEPT ![p] = n] /\ reply' = Said("granted")
        /\ spent' = IF Ensured.state = "LIMIT_TOTAL" THEN spent + n ELSE spent
        /\ Ensured.state = "LIMIT_TOTAL" => n <= Ensured.remaining
    BY <2>1, <2>5 DEF Counts, Returns, Limited
  <2> HIDE DEF r
  <2>9. Contract!Next
    BY <2>2, <2>3, <2>4, <2>6, <2>8, GrantMaps
  <2>10. OwnRecords'
    BY <2>2, <2>3, <2>4, <2>7, <2>8, GrantOnce
  <2> QED
    BY <2>9, <2>10 DEF Maps
<1>5. CASE Exits("exit 255")
  BY <1>5, ExitMaps
<1> QED
  BY <1>2, <1>3, <1>4, <1>5 DEF quiet_malloc

LEMMA FreeMaps ==
  ASSUME Books, NEW p \in Live, quiet_free(Ensured, p, Said("none"))
  PROVE  Maps /\ OwnRecords'
<1> DEFINE r == alloc_limit_will_free(Ensured, p)
<1>1. p \in Pointer /\ {p} \in Contract!AtMostOne
  BY DEF Live, Contract!AtMostOne
<1>2. r \in Limiter /\ Kept(Ensured, r)
  BY <1>1, BudgetsAgree, WillFreeSound DEF Sound
<1>3. \A q \in Pointer \ {p} : heap'[q] = heap[q]
  BY DEF quiet_free, Books, IInv, TypeOK
<1>4. Becomes(r) /\ counted' = counted \ {p} /\ spent' = spent /\ reply' = Said("none")
  BY DEF quiet_free, Returns
<1> HIDE DEF r
<1>5. Contract!Next
  BY <1>1, <1>2, <1>3, <1>4, ReleaseMaps
<1>6. OwnRecords'
  BY <1>1, <1>4, FreeOnce DEF r
<1> QED
  BY <1>5, <1>6 DEF Maps

-----------------------------------------------------------------------------
(* A refused resize costs what the limiter was asked for.                  *)
LEMMA ResizeCost ==
  ASSUME Books, NEW p \in Pointer, NEW n \in Size
  PROVE  /\ Limited(Ensured) => CostOfResize(Ensured, p, n) = Needed(Ensured, p, n)
         /\ CostOfResize(Ensured, p, n) \in Size
<1>1. Ensured.state = "LIMIT_PEAK" => RecordSize(Ensured, p) = Charge(p)
  BY BudgetsAgree
<1>2. CostOfResize(Ensured, p, n) \in Size
  BY CostType DEF Books
<1> QED
  BY <1>1, <1>2 DEF CostOfResize, Needed

LEMMA ResizeRefused ==
  ASSUME Books, NEW p \in Live, NEW n \in Size, ReallocRefused(Ensured, p, n)
  PROVE  /\ Limited(Ensured) /\ CostOfResize(Ensured, p, n) \in Size
         /\ CostOfResize(Ensured, p, n) > Ensured.remaining
BY ResizeCost DEF ReallocRefused, alloc_limit_may_alloc, Live

LEMMA ReallocReturnsNullMaps ==
  ASSUME Books, ~ ZeroFrees, NEW p \in Live, NEW n \in Size, ReallocReturnsNull(p, n)
  PROVE  Maps /\ OwnRecords'
<1>1. Ensured \in Limiter /\ Kept(Ensured, Ensured)
  BY BudgetsAgree DEF Kept
<1>2. Becomes(Ensured) /\ spent' = spent
  BY DEF ReallocReturnsNull
<1>3. CASE /\ ReallocRefused(Ensured, p, n)
           /\ Returns(Refusal(CostOfResize(Ensured, p, n)))
           /\ UNCHANGED <<heap, counted>>
  <2>1. Contract!Next
    BY <1>1, <1>2, <1>3, NoneGone, ResizeRefused, RefuseMaps DEF Returns
  <2> QED
    BY <1>2, <1>3, <2>1, KeptOnce DEF Maps
<1>4. CASE Returns(Said("failed")) /\ UNCHANGED <<heap, counted>>
  BY <1>2, <1>4, QuietMaps DEF Returns
<1> QED
  BY <1>3, <1>4 DEF ReallocReturnsNull, FreedByRealloc

LEMMA ReallocReturnsBlockMaps ==
  ASSUME ~ MayMove, Books, NEW p \in Live, NEW n \in Size, ReallocReturnsBlock(p, n)
  PROVE  Maps /\ OwnRecords'
<1>1. Ensured \in Limiter /\ Sound(Ensured) /\ p \in Pointer
  BY BudgetsAgree DEF Live
<1>2. CASE ReallocGranted(Ensured, p, n)
  <2> DEFINE r == ReallocLimiter(Ensured, p, p, n)
  <2>1. /\ Ensured.state = "LIMIT_PEAK" /\ ~ Recorded(Ensured, p) => Room(Ensured, p)
        /\ Becomes(r)
        /\ heap' = [heap EXCEPT ![p] = Vacant, ![p] = n]
        /\ Counts(Ensured, {p}, p, n)
        /\ Returns(Said("granted"))
    BY <1>2 DEF ReallocGranted, Destinations
  <2>2. heap' = [heap EXCEPT ![p] = n]
    BY <2>1 DEF Books, IInv, TypeOK
  <2>3. counted' = IF Limited(Ensured) THEN counted \cup {p} ELSE counted
    <3>1. (counted \ {p}) \cup {p} = counted \cup {p}
      OBVIOUS
    <3> QED
      BY <2>1, <3>1 DEF Counts
  <2>4. r \in Limiter /\ Kept(Ensured, r)
    BY <1>1, <1>2, <2>1, ReallocLimiterSound DEF ReallocGranted, Sound
  <2>5. Limited(Ensured) => Needed(Ensured, p, n) <= Ensured.remaining
    <3>1. Limited(Ensured) => ~ (Needed(Ensured, p, n) > Ensured.remaining)
      BY <1>2 DEF ReallocGranted, ReallocAllowed, ReallocRefused, alloc_limit_may_alloc
    <3>2. Limited(Ensured) => Needed(Ensured, p, n) \in Size
      BY <1>1, ResizeCost
    <3>3. Ensured.remaining \in Size
      BY <1>1 DEF Limiter
    <3> QED
      BY <3>1, <3>2, <3>3 DEF Size
  <2>6. Ensured.state = "LIMIT_PEAK" => n - Charge(p) <= Ensured.remaining
    <3> SUFFICES ASSUME Ensured.state = "LIMIT_PEAK"
                 PROVE  n - Charge(p) <= Ensured.remaining
      OBVIOUS
    <3>1. CostOfResize(Ensured, p, n) <= Ensured.remaining
      BY <1>1, <2>5, ResizeCost DEF Limited
    <3>2. CostOfResize(Ensured, p, n) = IF n > Charge(p) THEN n - Charge(p) ELSE 0
      BY DEF CostOfResize
    <3>3. Ensured.remaining \in Nat /\ Charge(p) \in Int /\ n \in Int
      <4>1. Ensured.remaining \in Size
        BY <1>1 DEF Limiter
      <4>2. Charges[p] \in 0 .. SizeMax
        BY <1>1, ChargesType DEF Books
      <4>3. Charges[p] = Charge(p)
        BY <1>1 DEF Charges
      <4> QED
        BY <4>1, <4>2, <4>3 DEF Size
    <3> QED
      BY <3>1, <3>2, <3>3
  <2>7. ASSUME Ensured.state = "LIMIT_PEAK"
        PROVE  /\ Len(r.list[p]) = 1
               /\ \A q \in Pointer : q # p => r.list[q] = Ensured.list[q]
    <3>1. r = did_realloc(Ensured, p, p, n)
      BY <2>7 DEF ReallocLimiter
    <3>2. Len(r.list[p]) = 1
      BY <1>1, <2>7, <3>1, DidReallocOnce
    <3>3. \A q \in Pointer : q # p => r.list[q] = Ensured.list[q]
      BY <1>1, <2>1, <2>7, <3>1, DidReallocTops
    <3> QED
      BY <3>2, <3>3
  <2>8. /\ Becomes(r) /\ reply' = Said("granted")
        /\ spent' = IF Ensured.state = "LIMIT_TOTAL" THEN spent + n ELSE spent
    BY <2>1 DEF Counts, Returns
  <2>9. Ensured.state = "LIMIT_TOTAL" => n <= Ensured.remaining
    BY <2>5 DEF Limited, Needed
  <2> HIDE DEF r
  <2>10. Contract!Next
    BY <1>1, <2>2, <2>3, <2>4, <2>6, <2>8, <2>9, GrantMaps
  <2>11. OwnRecords'
    BY <1>1, <2>3, <2>4, <2>7, <2>8, GrantOnce
  <2> QED
    BY <2>10, <2>11 DEF Maps
<1>3. CASE ReallocNodeFails(Ensured, p, n)
  BY <1>3, ExitMaps DEF ReallocNodeFails
<1> QED
  BY <1>2, <1>3 DEF ReallocReturnsBlock

(* reallocf that cannot resize releases the block, refused or failed.      *)
LEMMA ReallocfFreesMaps ==
  ASSUME Books, NEW p \in Live, NEW n \in Size, ReallocfFrees(p, n)
  PROVE  Maps /\ OwnRecords'
<1> DEFINE r == alloc_limit_will_free(Ensured, p)
<1>1. p \in Pointer /\ {p} \in Contract!AtMostOne
  BY DEF Live, Contract!AtMostOne
<1>2. r \in Limiter /\ Kept(Ensured, r)
  BY <1>1, BudgetsAgree, WillFreeSound DEF Sound
<1>3. \A q \in Pointer \ {p} : heap'[q] = heap[q]
  BY DEF ReallocfFrees, quiet_free, Books, IInv, TypeOK
<1>4. Becomes(r) /\ counted' = counted \ {p} /\ spent' = spent
  BY DEF ReallocfFrees, quiet_free
<1>5. \/ ReallocRefused(Ensured, p, n) /\ reply' = Refusal(CostOfResize(Ensured, p, n))
      \/ reply' = Said("failed")
  BY DEF ReallocfFrees, quiet_free, Returns
<1> HIDE DEF r
<1>6. ASSUME ReallocRefused(Ensured, p, n),
             reply' = Refusal(CostOfResize(Ensured, p, n))
      PROVE  Contract!Next
  BY <1>1, <1>2, <1>3, <1>4, <1>6, ResizeRefused, RefuseMaps
<1>7. ASSUME reply' = Said("failed") PROVE Contract!Next
  BY <1>1, <1>2, <1>3, <1>4, <1>7, ReleaseMaps
<1>8. OwnRecords'
  BY <1>1, <1>4, FreeOnce DEF r
<1> QED
  BY <1>5, <1>6, <1>7, <1>8 DEF Maps

LEMMA ReallocfMaps ==
  ASSUME ~ MayMove, Books, NEW p \in Live, NEW n \in Size, rtipd_reallocf(p, n)
  PROVE  Maps /\ OwnRecords'
<1>1. CASE ReallocfFrees(p, n)
  BY <1>1, ReallocfFreesMaps
<1>2. CASE ReallocfFreesTwice(p, n)
  BY <1>2, ExitMaps DEF ReallocfFreesTwice
<1>3. CASE ReallocReturnsBlock(p, n)
  BY <1>3, ReallocReturnsBlockMaps
<1> QED
  BY <1>1, <1>2, <1>3 DEF rtipd_reallocf

LEMMA CallocMaps ==
  ASSUME Books, NEW nmemb \in Requests, NEW size \in Requests,
         rtipd_calloc(nmemb, size)
  PROVE  Maps /\ OwnRecords'
<1>1. CASE CallocTraps(nmemb)
  BY <1>1, ExitMaps DEF CallocTraps
<1>2. CASE CallocOverflows(nmemb, size)
  BY <1>2, QuietMaps DEF CallocOverflows, Returns
<1>3. CASE CallocFits(nmemb, size)
  BY <1>3, ProductFits, RequestSize, QuietMallocMaps DEF CallocFits
<1> QED
  BY <1>1, <1>2, <1>3 DEF rtipd_calloc

(* A new limit forgets the charges and the records together.               *)
LEMMA SetMaps ==
  ASSUME Books, NEW mode \in Modes, NEW n \in Size, Set(mode, n)
  PROVE  Maps /\ OwnRecords'
<1>1. /\ alloc_limit_state' = mode /\ allocation_list' = NoRecords /\ limit' = n
      /\ bytes_remaining' = n /\ counted' = {} /\ spent' = 0 /\ reply' = Said("none")
  BY DEF Set, Becomes, SetLimiter, Returns
<1>2. Ensured'.state = mode /\ Ensured'.limit = n
  <2>1. mode # "UNINITIALIZED"
    BY DEF Modes
  <2> QED
    BY <1>1, <2>1 DEF Ensured
<1>3. Charges' = Contract!Uncharged
  <2>1. \A p \in Pointer : Charge(p)' = 0
    BY <1>1 DEF Charge
  <2> QED
    BY <2>1 DEF Charges, Contract!Uncharged
<1>4. Contract!SetLimit
  BY <1>1, <1>2, <1>3 DEF Contract!SetLimit, Contract!Answers, Said, Modes, Size
<1>5. OwnRecords'
  <2>1. \A p \in Pointer : Len(NoRecords[p]) = 0
    BY EmptySeq DEF NoRecords
  <2> QED
    BY <1>1, <2>1 DEF OwnRecords, Once
<1> QED
  BY <1>4, <1>5 DEF Maps, Contract!Next

(* Foreign code is given a block: no block that counts changes.            *)
LEMMA ForeignMallocMaps ==
  ASSUME Books, NEW p \in Pointer, NEW n, ForeignMalloc(p, n)
  PROVE  Maps /\ OwnRecords'
<1>1. /\ UNCHANGED <<alloc_limit_state, bytes_remaining, allocation_list, env, limit,
                     counted, spent>>
      /\ reply' = Said("none") /\ p \in Free
  BY DEF ForeignMalloc, Returns
<1>2. Ensured' = Ensured
  BY <1>1 DEF Ensured
<1>3. counted \subseteq Pointer /\ p \notin counted
  BY <1>1 DEF Books, IInv, TypeOK, Live
<1>4. \A q \in counted : heap'[q] = heap[q]
  BY <1>3 DEF ForeignMalloc, Books, IInv, TypeOK
<1>5. Charges' = Charges
  <2>1. \A q \in Pointer : Charge(q)' = Charge(q)
    BY <1>1, <1>4 DEF Charge
  <2> QED
    BY <2>1 DEF Charges
<1>6. Charges = [q \in Pointer |-> IF q \in {} THEN 0 ELSE Charges[q]]
  BY DEF Charges
<1>7. Contract!Answers(Contract!Quiet)
  BY <1>1 DEF Contract!Answers, Contract!Quiet, Said
<1>8. Contract!Release({})
  BY <1>1, <1>2, <1>5, <1>6, <1>7 DEF Contract!Release
<1>9. OwnRecords'
  BY <1>1, OutsideOnce
<1> QED
  BY <1>8, <1>9, NoneGone DEF Maps, Contract!Next

-----------------------------------------------------------------------------
LEMMA NextMaps ==
  ASSUME ~ MayMove, ~ ZeroFrees, ~ ForeignFrees, Books, [Next]_vars
  PROVE  Maps /\ OwnRecords'
<1>1. CASE BadEnvVar
  BY <1>1, ExitMaps DEF BadEnvVar
<1>2. CASE FreeNull
  BY <1>2, QuietMaps DEF FreeNull, Returns
<1>3. CASE alloc_limit_set_no_limit
  BY <1>3, SetMaps, SizeMaxAssumption
  DEF alloc_limit_set_no_limit, Modes, Size, SizeMaxAssumption
<1>4. CASE \E n \in Limits : alloc_limit_set_total(n) \/ alloc_limit_set_peak(n)
  BY <1>4, SetMaps, AllocAssumption
  DEF alloc_limit_set_total, alloc_limit_set_peak, Modes, AllocAssumption
<1>5. CASE \E n \in Requests : rtipd_malloc(n)
  BY <1>5, RequestSize, QuietMallocMaps DEF rtipd_malloc
<1>6. CASE \E nmemb, size \in Requests : rtipd_calloc(nmemb, size)
  BY <1>6, CallocMaps
<1>7. CASE \E p \in Live : rtipd_free(p)
  BY <1>7, FreeMaps DEF rtipd_free
<1>8. CASE \E p \in Live, n \in Requests : rtipd_realloc(p, n)
  BY <1>8, RequestSize, ReallocReturnsNullMaps, ReallocReturnsBlockMaps
  DEF rtipd_realloc
<1>9. CASE \E p \in Live, n \in Requests : rtipd_reallocf(p, n)
  BY <1>9, RequestSize, ReallocfMaps
<1>10. CASE \E p \in Pointer, n \in Requests : ForeignMalloc(p, n)
  BY <1>10, ForeignMallocMaps
<1>11. CASE \E p \in Live : ForeignFree(p)
  BY <1>11 DEF ForeignFree
<1>12. CASE UNCHANGED vars
  <2>1. Ensured' = Ensured /\ Charges' = Charges
    BY <1>12 DEF vars, Ensured, Charges, Charge
  <2>2. UNCHANGED Contract!vars
    BY <1>12, <2>1 DEF vars, Contract!vars
  <2>3. OwnRecords'
    BY <1>12, OutsideOnce DEF vars
  <2> QED
    BY <2>2, <2>3 DEF Maps
<1> QED
  BY <1>1, <1>2, <1>3, <1>4, <1>5, <1>6, <1>7, <1>8, <1>9, <1>10, <1>11, <1>12
  DEF Next

LEMMA InitMaps ==
  ASSUME Init
  PROVE  Contract!Init /\ NewestIsOwn /\ OwnRecords
<1>1. Ensured \in Limiter
  BY InitIInv, EnsuredSound DEF Sound
<1>2. Charges = Contract!Uncharged
  <2>1. \A p \in Pointer : Charge(p) = 0
    BY DEF Init, Charge
  <2> QED
    BY <2>1 DEF Charges, Contract!Uncharged
<1>3. spent = 0 /\ reply = [kind |-> "none", cost |-> 0]
  BY DEF Init, Said
<1>4. Ensured.state \in Modes /\ Ensured.limit \in Size
  BY <1>1, Zenon DEF Limiter
<1>5. Contract!Init
  BY <1>2, <1>3, <1>4 DEF Contract!Init, Modes, Size
<1> QED
  BY <1>5 DEF Init, NewestIsOwn, Tops, OwnRecords, Once

(***************************************************************************)
(* With a realloc that resizes in place and keeps a block of zero bytes,   *)
(* and no block freed behind its back, the limiter does what the manual    *)
(* page says: a call is refused only when the budget of the page is        *)
(* exceeded, and granted only when it is not, for any sizes and limits.    *)
(***************************************************************************)
THEOREM ContractHolds ==
  (~ MayMove /\ ~ ZeroFrees /\ ~ ForeignFrees) => (Spec => ImplementsContract)
<1> SUFFICES ASSUME ~ MayMove, ~ ZeroFrees, ~ ForeignFrees
             PROVE  Spec => ImplementsContract
  OBVIOUS
<1>1. Init => Contract!Init /\ NewestIsOwn /\ OwnRecords
  BY InitMaps
<1>2. IInv /\ NewestIsOwn /\ OwnRecords /\ [Next]_vars =>
        [Contract!Next]_(Contract!vars) /\ OwnRecords'
  BY NextMaps DEF Books, Maps
<1>3. IInv /\ NewestIsOwn /\ [Next]_vars => NewestIsOwn'
  BY NextNewest
<1> QED
  BY <1>1, <1>2, <1>3, Invariance, PTL DEF Spec, ImplementsContract, Contract!Spec
=============================================================================
