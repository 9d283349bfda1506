-------------------------- MODULE DeviceMemory_proofs --------------------------
(****************************************************************************)
(* Proofs about DeviceMemory, for every number of buffers and offsets, every*)
(* size and length, as long as addresses do not wrap around (NoWrap): fewer *)
(* buffers than identifiers, and accesses that end within the address space.*)
(****************************************************************************)
EXTENDS DeviceMemory, SequenceTheorems, TLAPS

NoWrap == /\ MaxAllocs < BufferSpan
          /\ \A n \in Lengths \cup {1} : n + OffsetSpan <= AddressSpan

(* The parts of an address.                                                 *)
LEMMA Parts ==
  ASSUME NEW a \in Nat
  PROVE  /\ Id(a) \in Nat /\ Offset(a) \in 0..(OffsetSpan - 1)
         /\ a = Id(a) * OffsetSpan + Offset(a)
BY SpanAssumption DEF Id, Offset

(* What the quotient of two numbers is.                                     *)
LEMMA Quotient ==
  ASSUME NEW a \in Nat, NEW d \in Nat \ {0}, NEW q \in Nat, q * d <= a, a < q * d + d
  PROVE  a \div d = q
<1>1. /\ a \div d \in Nat /\ (a \div d) * d <= a /\ a < (a \div d) * d + d
  OBVIOUS
<1>2. ASSUME NEW r \in Nat, r * d <= a, a < r * d + d PROVE r = q
  <2>1. CASE r < q
    <3>1. r + 1 <= q
      BY <2>1
    <3>2. (r + 1) * d <= q * d
      BY <3>1
    <3> QED  BY <1>2, <3>2
  <2>2. CASE r > q
    <3>1. q + 1 <= r
      BY <2>2
    <3>2. (q + 1) * d <= r * d
      BY <3>1
    <3> QED  BY <1>2, <3>2
  <2> QED  BY <2>1, <2>2
<1> QED  BY <1>1, <1>2

(* ... and the address they make.                                           *)
LEMMA Whole ==
  ASSUME NEW id \in Nat, NEW o \in 0..(OffsetSpan - 1)
  PROVE  Id(id * OffsetSpan + o) = id /\ Offset(id * OffsetSpan + o) = o
<1> DEFINE a == id * OffsetSpan + o
<1>1. OffsetSpan \in Nat \ {0} /\ id * OffsetSpan \in Nat /\ o \in Nat /\ o < OffsetSpan
  BY SpanAssumption
<1>2. a \in Nat /\ id * OffsetSpan <= a /\ a < id * OffsetSpan + OffsetSpan
  BY <1>1
<1>3. Id(a) = id
  BY <1>1, <1>2, Quotient DEF Id
<1>4. a = Id(a) * OffsetSpan + Offset(a) /\ Offset(a) \in Nat
  BY <1>2, Parts
<1>5. a = id * OffsetSpan + Offset(a)
  BY <1>3, <1>4
<1>6. ASSUME NEW k \in Nat, NEW x \in Nat, a = k + x, a = k + o PROVE x = o
  BY <1>1, <1>6
<1>7. Offset(a) = o
  BY <1>1, <1>4, <1>5, <1>6
<1> QED  BY <1>3, <1>7

(* While identifiers do not run out, a base address is not wrapped, and      *)
(* those of two buffers differ.                                              *)
LEMMA Bases ==
  ASSUME NoWrap, NEW id \in 1..MaxAllocs
  PROVE  /\ BaseAddress(id) = id * OffsetSpan /\ BaseAddress(id) \in Address
         /\ BaseAddress(id) # 0
         /\ \A j \in 1..MaxAllocs : BaseAddress(j) = BaseAddress(id) => j = id
<1>1. /\ OffsetSpan \in Nat \ {0} /\ BufferSpan \in Nat \ {0} /\ MaxAllocs \in Nat
      /\ AddressSpan = BufferSpan * OffsetSpan /\ MaxAllocs < BufferSpan
  BY SpanAssumption DEF NoWrap, AddressSpan
<1>2. ASSUME NEW j \in 1..MaxAllocs
      PROVE  /\ j * OffsetSpan \in Nat \ {0} /\ j * OffsetSpan < AddressSpan
             /\ BaseAddress(j) = j * OffsetSpan
  <2>1. j \in Nat \ {0} /\ j + 1 <= BufferSpan
    BY <1>1
  <2>2. j * OffsetSpan \in Nat \ {0} /\ j * OffsetSpan + OffsetSpan <= BufferSpan * OffsetSpan
    BY <1>1, <2>1
  <2>3. AddressSpan \in Nat /\ j * OffsetSpan < AddressSpan
    BY <1>1, <2>2
  <2> QED  BY <2>2, <2>3 DEF BaseAddress
<1>3. ASSUME NEW j \in 1..MaxAllocs, j * OffsetSpan = id * OffsetSpan PROVE j = id
  BY <1>1, <1>3
<1> QED  BY <1>1, <1>2, <1>3 DEF Address

(* What isAccessValid tests, when the end of the access does not wrap.       *)
LEMMA ValidAccess ==
  ASSUME NoWrap, TypeOK, NEW a \in Nat, NEW n \in Lengths \cup {1}
  PROVE  isAccessValid(a, n) <=>
           Id(a) \in LiveIds /\ Offset(a) + n <= Allocs[Id(a)].NumBytes
<1>1. /\ n \in Nat /\ Offset(a) \in 0..(OffsetSpan - 1) /\ n + OffsetSpan <= AddressSpan
      /\ OffsetSpan \in Nat /\ AddressSpan \in Nat
  BY Parts, SpanAssumption DEF NoWrap, AddressSpan
<1>2. Offset(a) + n \in Nat /\ Offset(a) + n < AddressSpan
  BY <1>1
<1>3. (Offset(a) + n) % AddressSpan = Offset(a) + n
  BY <1>1, <1>2
<1> QED  BY <1>3 DEF isAccessValid, LiveIds

-------------------------------------------------------------------------------
(* The invariant: FreeListExact, which includes the types, DataOwned, and the*)
(* bound on identifiers, without which two of them could have one base.      *)
MemInv == FreeListExact /\ DataOwned /\ Len(Allocs) <= MaxAllocs

(* FreeListExact, one identifier at a time.                                  *)
FreeOnes ==
  /\ \A i, j \in 1..Len(FreeList) : FreeList[i] = FreeList[j] => i = j
  /\ \A i \in 1..Len(FreeList) :
       FreeList[i] \in 1..Len(Allocs) /\ Allocs[FreeList[i]].Data = Null
  /\ \A id \in 1..Len(Allocs) :
       Allocs[id].Data = Null => \E i \in 1..Len(FreeList) : FreeList[i] = id

(* The two forms of it say the same.                                         *)
LEMMA FreeOneByOne == TypeOK => (FreeListExact <=> FreeOnes)
BY DEF TypeOK, FreeListExact, FreeOnes, LiveIds

(* The invariant holds at first, when there is nothing.                      *)
LEMMA InitMem == Init => MemInv
<1> SUFFICES ASSUME Init PROVE MemInv
  OBVIOUS
<1>1. Allocs = <<>> /\ FreeList = <<>> /\ DOMAIN heap = {} /\ mapped = {}
  BY DEF Init
<1>2. TypeOK
  BY <1>1 DEF TypeOK
<1>3. FreeOnes /\ DataOwned /\ Len(Allocs) <= MaxAllocs
  BY <1>1, SpanAssumption DEF FreeOnes, DataOwned, LiveIds
<1> QED  BY <1>2, <1>3, FreeOneByOne DEF MemInv

(* A step that only changes contents.                                        *)
LEMMA ContentStep ==
  ASSUME MemInv, UNCHANGED <<Allocs, FreeList, mapped>>, DOMAIN heap' = DOMAIN heap,
         \A p \in DOMAIN heap : heap'[p] \in Seq(Value) /\ Len(heap'[p]) = Len(heap[p])
  PROVE  MemInv'
<1>1. TypeOK /\ FreeListExact /\ DataOwned /\ Len(Allocs) <= MaxAllocs
  BY DEF MemInv, FreeListExact
<1>2. TypeOK'
  BY <1>1 DEF TypeOK
<1>3. LiveIds' = LiveIds
  BY DEF LiveIds
<1>4. FreeListExact'
  BY <1>1, <1>2, <1>3 DEF FreeListExact
<1>5. \A i \in LiveIds : /\ Allocs'[i].Data \in DOMAIN heap'
                         /\ Len(heap'[Allocs'[i].Data]) = Allocs'[i].NumBytes
  BY <1>1 DEF DataOwned
<1>6. \A id \in LiveIds : BaseAddress(id)' = BaseAddress(id)
  BY DEF BaseAddress
<1>7. DataOwned'
  BY <1>1, <1>3, <1>5, <1>6 DEF DataOwned
<1> QED  BY <1>1, <1>4, <1>7 DEF MemInv

(* A block of memory keeps its length when a part of it is overwritten.      *)
LEMMA Overwritten ==
  ASSUME NEW bytes \in Seq(Value), NEW offset \in Int, NEW data \in Seq(Value)
  PROVE  /\ Overwrite(bytes, offset, data) \in Seq(Value)
         /\ Len(Overwrite(bytes, offset, data)) = Len(bytes)
<1>1. \A i \in 1..Len(bytes) :
        (IF i - offset \in 1..Len(data) THEN data[i - offset] ELSE bytes[i]) \in Value
  OBVIOUS
<1> QED  BY <1>1 DEF Overwrite

(* What is read from a live buffer are bytes, as many as were asked for.     *)
LEMMA ReadBytes ==
  ASSUME NoWrap, MemInv, NEW a \in Nat, NEW n \in Lengths \cup {1}, isAccessValid(a, n)
  PROVE  Read(a, n) \in Seq(Value) /\ Len(Read(a, n)) = n
<1>1. TypeOK /\ DataOwned
  BY DEF MemInv, FreeListExact
<1>2. Id(a) \in LiveIds /\ Offset(a) + n <= Allocs[Id(a)].NumBytes
  BY <1>1, ValidAccess
<1> DEFINE h == heap[Allocs[Id(a)].Data]
<1>3. h \in Seq(Value) /\ Len(h) = Allocs[Id(a)].NumBytes
  BY <1>1, <1>2 DEF DataOwned, TypeOK
<1>4. n \in Nat /\ Offset(a) \in Nat
  BY Parts, SpanAssumption
<1>5. Offset(a) + n <= Len(h)
  BY <1>2, <1>3
<1> DEFINE o == Offset(a)
<1>6. o \in Nat /\ o + n <= Len(h)
  BY <1>4, <1>5
<1> HIDE DEF h, o
<1>7. \A i \in (o + 1)..(o + n) : h[i] \in Value
  <2>1. ASSUME NEW i \in (o + 1)..(o + n) PROVE i \in 1..Len(h)
    BY <1>3, <1>4, <1>6
  <2> QED  BY <1>3, <2>1, ElementOfSeq
<1>8. o + 1 \in Int /\ o + n \in Int
  BY <1>4, <1>6
<1>9. /\ SubSeq(h, o + 1, o + n) \in Seq(Value)
      /\ Len(SubSeq(h, o + 1, o + n))
           = IF o + 1 <= o + n THEN (o + n) - (o + 1) + 1 ELSE 0
  BY <1>7, <1>8, SubSeqProperties
<1>10. Len(SubSeq(h, o + 1, o + n)) = n
  BY <1>4, <1>6, <1>9
<1> QED  BY <1>9, <1>10 DEF Read, h, o

(* A store to an address in a live buffer changes contents only.             *)
LEMMA WriteStep ==
  ASSUME MemInv, NEW a \in Nat, Id(a) \in LiveIds, NEW data \in Seq(Value),
         heap' = Write(a, data), UNCHANGED <<Allocs, FreeList, mapped>>
  PROVE  MemInv'
<1>1. TypeOK /\ DataOwned
  BY DEF MemInv, FreeListExact
<1>2. Offset(a) \in Int
  BY Parts
<1> DEFINE p == Allocs[Id(a)].Data
<1>3. p \in DOMAIN heap /\ heap[p] \in Seq(Value)
  BY <1>1 DEF DataOwned, TypeOK
<1>4. /\ Overwrite(heap[p], Offset(a), data) \in Seq(Value)
      /\ Len(Overwrite(heap[p], Offset(a), data)) = Len(heap[p])
  BY <1>2, <1>3, Overwritten
<1>5. heap' = [heap EXCEPT ![p] = Overwrite(heap[p], Offset(a), data)]
  BY <1>3 DEF Write
<1>6. \A q \in DOMAIN heap : heap[q] \in Seq(Value)
  BY <1>1 DEF TypeOK
<1> HIDE DEF p
<1>7. DOMAIN heap' = DOMAIN heap
  BY <1>5
<1>8. ASSUME NEW q \in DOMAIN heap
      PROVE  heap'[q] \in Seq(Value) /\ Len(heap'[q]) = Len(heap[q])
  <2>1. CASE q = p
    BY <1>3, <1>4, <1>5, <2>1
  <2>2. CASE q # p
    BY <1>5, <1>6, <2>2
  <2> QED  BY <2>1, <2>2
<1> QED  BY <1>7, <1>8, ContentStep

(* The contents of a block, as a sequence of bytes.                           *)
LEMMA BytesSeq ==
  ASSUME NEW n \in Nat, NEW bytes \in [1..n -> Value]
  PROVE  bytes \in Seq(Value) /\ Len(bytes) = n
<1>1. bytes \in UNION {[1..m -> Value] : m \in Nat}
  BY Zenon
<1>2. bytes \in Seq(Value)
  BY <1>1, SeqDef, Zenon
<1>3. DOMAIN bytes = 1..n
  OBVIOUS
<1>4. Len(bytes) \in Nat /\ 1..Len(bytes) = 1..n
  BY <1>2, <1>3, LenProperties
<1> QED  BY <1>2, <1>4

(* An identifier that holds no buffer gets a block that is not in use.       *)
LEMMA NewBlock ==
  ASSUME MemInv, NEW n \in Sizes, NEW p \in Pointer \ DOMAIN heap, NewData(p, n),
         UNCHANGED mapped, NEW id \in 1..Len(Allocs'), id \notin LiveIds,
         Allocs' \in Seq(Alloc), Allocs'[id] = [NumBytes |-> n, Data |-> p],
         Len(Allocs) <= Len(Allocs'), Len(Allocs') <= MaxAllocs,
         \A j \in 1..Len(Allocs') :
           j # id => j \in 1..Len(Allocs) /\ Allocs'[j] = Allocs[j],
         FreeList' \in Seq(1..Len(Allocs')), FreeOnes'
  PROVE  MemInv'
<1>1. TypeOK /\ DataOwned
  BY DEF MemInv, FreeListExact
<1>2. PICK bytes \in [1..n -> Value] :
        heap' = [q \in DOMAIN heap \cup {p} |-> IF q = p THEN bytes ELSE heap[q]]
  BY DEF NewData
<1>3. n \in Nat /\ bytes \in Seq(Value) /\ Len(bytes) = n
  <2>1. n \in Nat
    BY SpanAssumption
  <2> QED  BY <2>1, BytesSeq
<1>4. /\ DOMAIN heap' = DOMAIN heap \cup {p} /\ heap'[p] = bytes
      /\ \A q \in DOMAIN heap : heap'[q] = heap[q]
  BY <1>2
<1>5. TypeOK'
  BY <1>1, <1>3, <1>4 DEF TypeOK
<1>6. /\ LiveIds' = LiveIds \cup {id} /\ p # Null
      /\ \A j \in LiveIds : j # id /\ Allocs'[j] = Allocs[j]
  <2>1. p # Null /\ Allocs'[id].Data = p /\ Len(Allocs) \in Nat /\ Len(Allocs') \in Nat
    BY <1>1, NullAssumption DEF TypeOK
  <2>2. \A j \in LiveIds : j \in 1..Len(Allocs') /\ j # id /\ Allocs'[j] = Allocs[j]
    BY <2>1 DEF LiveIds
  <2>3. \A j \in LiveIds' : j \in LiveIds \/ j = id
    BY DEF LiveIds
  <2>4. id \in LiveIds' /\ \A j \in LiveIds : j \in LiveIds'
    BY <2>1, <2>2 DEF LiveIds
  <2> QED  BY <2>1, <2>2, <2>3, <2>4
<1>7. \A i \in LiveIds' : /\ Allocs'[i].Data \in DOMAIN heap'
                          /\ Len(heap'[Allocs'[i].Data]) = Allocs'[i].NumBytes
  <2>1. ASSUME NEW i \in LiveIds
        PROVE  Allocs[i].Data \in DOMAIN heap /\ Len(heap[Allocs[i].Data]) = Allocs[i].NumBytes
    BY <1>1 DEF DataOwned
  <2>2. Allocs'[id].Data = p /\ Allocs'[id].NumBytes = n
    OBVIOUS
  <2> QED  BY <1>3, <1>4, <1>6, <2>1, <2>2
<1>8. \A i, j \in LiveIds' : Allocs'[i].Data = Allocs'[j].Data => i = j
  <2>1. \A i \in LiveIds : Allocs'[i].Data \in DOMAIN heap
    BY <1>1, <1>6 DEF DataOwned
  <2>2. Allocs'[id].Data = p
    OBVIOUS
  <2> QED  BY <1>1, <1>6, <2>1, <2>2 DEF DataOwned
<1>9. \A k \in LiveIds : BaseAddress(k)' = BaseAddress(k)
  BY DEF BaseAddress
<1>10. DataOwned'
  BY <1>1, <1>6, <1>7, <1>8, <1>9 DEF DataOwned
<1>11. FreeListExact'
  BY <1>5, FreeOneByOne, PTL
<1> QED  BY <1>10, <1>11 DEF MemInv

(* Reuse of an identifier: it leaves FreeList and becomes that of a buffer.  *)
LEMMA AllocateReusedStep ==
  ASSUME MemInv, NEW n \in Sizes, AllocateReused(n)
  PROVE  MemInv'
<1>1. TypeOK /\ FreeOnes /\ Len(Allocs) <= MaxAllocs
  BY FreeOneByOne DEF MemInv, FreeListExact
<1> DEFINE L == Len(FreeList)
           id == FreeList[L]
<1>2. PICK p \in Pointer \ DOMAIN heap :
        /\ NewData(p, n)
        /\ Allocs' = [Allocs EXCEPT ![id] = [NumBytes |-> n, Data |-> p]]
  BY DEF AllocateReused, Reused
<1>3. /\ L \in Nat /\ L >= 1 /\ FreeList' = SubSeq(FreeList, 1, L - 1)
      /\ FreeList \in Seq(1..Len(Allocs)) /\ Allocs \in Seq(Alloc)
  BY <1>1 DEF AllocateReused, TypeOK
<1>4. id \in 1..Len(Allocs) /\ Allocs[id].Data = Null
  BY <1>1, <1>3 DEF FreeOnes
<1>5. [NumBytes |-> n, Data |-> p] \in Alloc
  BY DEF Alloc
<1>6. /\ Allocs' \in Seq(Alloc) /\ Len(Allocs') = Len(Allocs)
      /\ Allocs'[id] = [NumBytes |-> n, Data |-> p]
      /\ \A j \in 1..Len(Allocs) : j # id => Allocs'[j] = Allocs[j]
  <2> HIDE DEF id
  <2> QED  BY <1>2, <1>3, <1>4, <1>5
<1>7. /\ FreeList' \in Seq(1..Len(Allocs)) /\ Len(FreeList') = L - 1
      /\ \A i \in 1..(L - 1) : FreeList'[i] = FreeList[i]
  <2>1. \A i \in 1..(L - 1) : FreeList[i] \in 1..Len(Allocs)
    BY <1>3
  <2> DEFINE f == SubSeq(FreeList, 1, L - 1)
  <2>2. /\ f \in Seq(1..Len(Allocs))
        /\ Len(f) = IF 1 <= L - 1 THEN (L - 1) - 1 + 1 ELSE 0
        /\ \A i \in 1..((L - 1) - 1 + 1) : f[i] = FreeList[1 + i - 1]
    BY <1>3, <2>1, SubSeqProperties
  <2> HIDE DEF f, L
  <2>3. Len(f) = L - 1 /\ \A i \in 1..(L - 1) : f[i] = FreeList[i]
    BY <1>3, <2>2
  <2> QED  BY <1>3, <2>2, <2>3 DEF f
<1>8. \A i \in 1..(L - 1) : FreeList[i] # id
  <2> SUFFICES ASSUME NEW i \in 1..(L - 1), FreeList[i] = FreeList[L]
               PROVE  FALSE
    BY DEF id
  <2>1. i \in 1..L /\ L \in 1..L /\ i # L
    BY <1>3
  <2> QED  BY <1>1, <2>1 DEF FreeOnes
<1>9. \A i, j \in 1..Len(FreeList') : FreeList'[i] = FreeList'[j] => i = j
  <2>1. \A i, j \in 1..L : FreeList[i] = FreeList[j] => i = j
    BY <1>1 DEF FreeOnes
  <2>2. \A i \in 1..(L - 1) : i \in 1..L /\ FreeList'[i] = FreeList[i]
    BY <1>3, <1>7
  <2> HIDE DEF L
  <2> QED  BY <1>7, <2>1, <2>2
<1>10. \A i \in 1..Len(FreeList') :
         FreeList'[i] \in 1..Len(Allocs') /\ Allocs'[FreeList'[i]].Data = Null
  <2>1. ASSUME NEW i \in 1..(L - 1)
        PROVE  /\ FreeList[i] \in 1..Len(Allocs) /\ Allocs[FreeList[i]].Data = Null
               /\ FreeList[i] # id /\ FreeList'[i] = FreeList[i]
    <3>1. i \in 1..L
      BY <1>3
    <3> QED  BY <1>1, <1>7, <1>8, <3>1 DEF FreeOnes
  <2> HIDE DEF id, L
  <2> QED  BY <1>6, <1>7, <2>1
<1>11. ASSUME NEW k \in 1..Len(Allocs'), Allocs'[k].Data = Null
       PROVE  \E i \in 1..Len(FreeList') : FreeList'[i] = k
  <2>1. k # id
    BY <1>6, <1>11, NullAssumption
  <2>2. Allocs[k].Data = Null
    BY <1>6, <1>11, <2>1
  <2>3. PICK i \in 1..L : FreeList[i] = k
    BY <1>1, <1>6, <2>2 DEF FreeOnes
  <2>4. i # L
    BY <2>1, <2>3
  <2>5. i \in 1..(L - 1)
    BY <1>3, <2>4
  <2> QED  BY <1>7, <2>3, <2>5
<1>12. FreeOnes'
  BY <1>9, <1>10, <1>11 DEF FreeOnes
<1>13. id \notin LiveIds
  BY <1>4 DEF LiveIds
<1>14. Len(Allocs) \in Nat /\ mapped' = mapped
  BY <1>3 DEF AllocateReused
<1> HIDE DEF id, L
<1> QED  BY <1>1, <1>2, <1>4, <1>6, <1>7, <1>12, <1>13, <1>14, NewBlock

(* A new identifier: the one after the last.                                 *)
LEMMA AllocateNewStep ==
  ASSUME MemInv, NEW n \in Sizes, AllocateNew(n)
  PROVE  MemInv'
<1>1. /\ TypeOK /\ FreeOnes /\ Allocs \in Seq(Alloc)
      /\ FreeList = <<>> /\ Len(Allocs) < MaxAllocs /\ FreeList' = <<>> /\ mapped' = mapped
  BY FreeOneByOne DEF MemInv, FreeListExact, AllocateNew, TypeOK
<1>2. PICK p \in Pointer \ DOMAIN heap :
        NewData(p, n) /\ Allocs' = Append(Allocs, [NumBytes |-> n, Data |-> p])
  BY DEF AllocateNew
<1> DEFINE id == Len(Allocs) + 1
<1>3. [NumBytes |-> n, Data |-> p] \in Alloc
  BY DEF Alloc
<1>4. /\ Allocs' \in Seq(Alloc) /\ Len(Allocs') = id
      /\ Allocs'[id] = [NumBytes |-> n, Data |-> p]
      /\ \A j \in 1..Len(Allocs) : Allocs'[j] = Allocs[j]
  BY <1>1, <1>2, <1>3
<1>5. FreeOnes'
  BY <1>1, <1>4, NullAssumption DEF FreeOnes
<1>6. id \in 1..Len(Allocs') /\ id \notin LiveIds /\ Len(Allocs) <= id /\ id <= MaxAllocs
  BY <1>1, <1>4, SpanAssumption DEF LiveIds
<1>7. \A j \in 1..Len(Allocs') : j # id => j \in 1..Len(Allocs) /\ Allocs'[j] = Allocs[j]
  BY <1>1, <1>4
<1>8. FreeList' \in Seq(1..Len(Allocs'))
  BY <1>1
<1> HIDE DEF id
<1> QED  BY <1>1, <1>2, <1>4, <1>5, <1>6, <1>7, <1>8, NewBlock

(* Release: the identifier, its block and the mappings of its buffer go.     *)
LEMMA ReleaseStep ==
  ASSUME MemInv, NEW id \in LiveIds, Release(id)
  PROVE  MemInv'
<1>1. /\ TypeOK /\ FreeOnes /\ DataOwned /\ Len(Allocs) <= MaxAllocs
      /\ Allocs \in Seq(Alloc) /\ FreeList \in Seq(1..Len(Allocs))
      /\ id \in 1..Len(Allocs) /\ Allocs[id].Data # Null
  BY FreeOneByOne DEF MemInv, FreeListExact, TypeOK, LiveIds
<1> DEFINE p == Allocs[id].Data
<1>2. /\ heap' = [q \in DOMAIN heap \ {p} |-> heap[q]]
      /\ Allocs' = [Allocs EXCEPT ![id].Data = Null]
      /\ FreeList' = Append(FreeList, id)
      /\ mapped' = {m \in mapped : m.base # BaseAddress(id)}
  BY DEF Release
<1>3. /\ Allocs' \in Seq(Alloc) /\ Len(Allocs') = Len(Allocs)
      /\ Allocs'[id].Data = Null /\ Allocs'[id].NumBytes = Allocs[id].NumBytes
      /\ \A j \in 1..Len(Allocs) : j # id => Allocs'[j] = Allocs[j]
  <2> DEFINE b == [Allocs[id] EXCEPT !.Data = Null]
  <2>1. Allocs[id] \in Alloc
    BY <1>1, ElementOfSeq
  <2>2. b \in Alloc /\ b.Data = Null /\ b.NumBytes = Allocs[id].NumBytes
    BY <2>1 DEF Alloc
  <2>3. Allocs' = [Allocs EXCEPT ![id] = b]
    BY <1>1, <1>2
  <2> HIDE DEF b
  <2> QED  BY <1>1, <2>2, <2>3
<1>4. /\ LiveIds' = LiveIds \ {id}
      /\ \A j \in LiveIds' : j \in 1..Len(Allocs) /\ Allocs'[j] = Allocs[j]
  BY <1>1, <1>3 DEF LiveIds
<1>5. /\ DOMAIN heap' = DOMAIN heap \ {p}
      /\ \A q \in DOMAIN heap' : heap'[q] = heap[q]
  BY <1>2
<1>6. /\ FreeList' \in Seq(1..Len(Allocs)) /\ Len(FreeList') = Len(FreeList) + 1
      /\ Len(FreeList) \in Nat /\ FreeList'[Len(FreeList) + 1] = id
      /\ \A i \in 1..Len(FreeList) : FreeList'[i] = FreeList[i]
  BY <1>1, <1>2
<1>7. TypeOK'
  BY <1>1, <1>2, <1>3, <1>5, <1>6 DEF TypeOK
<1>8. \A i \in 1..Len(FreeList) : FreeList[i] # id
  BY <1>1 DEF FreeOnes
<1>9. \A i, j \in 1..Len(FreeList') : FreeList'[i] = FreeList'[j] => i = j
  <2>1. \A i, j \in 1..Len(FreeList) : FreeList[i] = FreeList[j] => i = j
    BY <1>1 DEF FreeOnes
  <2>2. \A i \in 1..Len(FreeList') :
          \/ i \in 1..Len(FreeList) /\ FreeList'[i] = FreeList[i]
          \/ i = Len(FreeList) + 1 /\ FreeList'[i] = id
    BY <1>6
  <2> QED  BY <1>8, <2>1, <2>2
<1>10. \A i \in 1..Len(FreeList') :
         FreeList'[i] \in 1..Len(Allocs') /\ Allocs'[FreeList'[i]].Data = Null
  <2>1. \A i \in 1..Len(FreeList) :
          /\ FreeList[i] \in 1..Len(Allocs) /\ Allocs[FreeList[i]].Data = Null
          /\ FreeList'[i] = FreeList[i] /\ FreeList[i] # id
    BY <1>1, <1>6, <1>8 DEF FreeOnes
  <2>2. \A i \in 1..Len(FreeList') : i \in 1..Len(FreeList) \/ i = Len(FreeList) + 1
    BY <1>6
  <2>3. FreeList'[Len(FreeList) + 1] = id
    BY <1>6
  <2>4. ASSUME NEW i \in 1..Len(FreeList)
        PROVE  FreeList'[i] \in 1..Len(Allocs') /\ Allocs'[FreeList'[i]].Data = Null
    <3> DEFINE k == FreeList[i]
    <3>1. k \in 1..Len(Allocs) /\ Allocs[k].Data = Null /\ FreeList'[i] = k /\ k # id
      BY <2>1
    <3> HIDE DEF k
    <3> QED  BY <1>3, <3>1
  <2>5. /\ FreeList'[Len(FreeList) + 1] \in 1..Len(Allocs')
        /\ Allocs'[FreeList'[Len(FreeList) + 1]].Data = Null
    BY <1>1, <1>3, <2>3
  <2> QED  BY <2>2, <2>4, <2>5
<1>11. ASSUME NEW k \in 1..Len(Allocs'), Allocs'[k].Data = Null
       PROVE  \E i \in 1..Len(FreeList') : FreeList'[i] = k
  <2>1. CASE k = id
    BY <1>6, <2>1
  <2>2. CASE k # id
    <3>1. PICK i \in 1..Len(FreeList) : FreeList[i] = k
      BY <1>1, <1>3, <1>11, <2>2 DEF FreeOnes
    <3> QED  BY <1>6, <3>1
  <2> QED  BY <2>1, <2>2
<1>12. FreeListExact'
  <2>1. FreeOnes'
    BY <1>9, <1>10, <1>11 DEF FreeOnes
  <2> QED  BY <1>7, <2>1, FreeOneByOne, PTL
<1>13. \A i \in LiveIds' : /\ Allocs'[i].Data \in DOMAIN heap'
                           /\ Len(heap'[Allocs'[i].Data]) = Allocs'[i].NumBytes
  BY <1>1, <1>4, <1>5 DEF DataOwned
<1>14. \A i, j \in LiveIds' : Allocs'[i].Data = Allocs'[j].Data => i = j
  BY <1>1, <1>4 DEF DataOwned
<1>15. ASSUME NEW m \in mapped'
       PROVE  \E k \in LiveIds' : /\ BaseAddress(k)' = m.base /\ Allocs'[k].Data = m.data
                                  /\ m.offset + m.length <= Allocs'[k].NumBytes
  <2>1. m \in mapped /\ m.base # BaseAddress(id)
    BY <1>2
  <2>2. PICK k \in LiveIds : /\ BaseAddress(k) = m.base /\ Allocs[k].Data = m.data
                             /\ m.offset + m.length <= Allocs[k].NumBytes
    BY <1>1, <2>1 DEF DataOwned
  <2>3. k \in LiveIds'
    BY <1>4, <2>1, <2>2
  <2>4. BaseAddress(k)' = BaseAddress(k)
    BY DEF BaseAddress
  <2> QED  BY <1>4, <2>2, <2>3, <2>4
<1>16. DataOwned'
  BY <1>13, <1>14, <1>15 DEF DataOwned
<1> QED  BY <1>1, <1>3, <1>12, <1>16 DEF MemInv

(* Steps that change what is mapped, and nothing else of the memory.         *)
LEMMA MappingStep ==
  ASSUME MemInv, UNCHANGED <<Allocs, FreeList, heap>>,
         mapped' \subseteq [base : Address, data : Pointer, offset : Nat, length : Nat],
         \A m \in mapped' : m \in mapped \/ \E id \in LiveIds :
           /\ BaseAddress(id) = m.base /\ Allocs[id].Data = m.data
           /\ m.offset + m.length <= Allocs[id].NumBytes
  PROVE  MemInv'
<1>1. TypeOK /\ FreeListExact /\ DataOwned /\ Len(Allocs) <= MaxAllocs
  BY DEF MemInv, FreeListExact
<1>2. LiveIds' = LiveIds /\ \A id \in LiveIds : BaseAddress(id)' = BaseAddress(id)
  BY DEF LiveIds, BaseAddress
<1>3. FreeListExact'
  BY <1>1, <1>2 DEF FreeListExact, TypeOK
<1>4. DataOwned'
  BY <1>1, <1>2 DEF DataOwned
<1> QED  BY <1>1, <1>3, <1>4 DEF MemInv

(* vkMapMemory: the range is one of the buffer, by the test of the code.     *)
LEMMA MapStep ==
  ASSUME NoWrap, MemInv, NEW id \in LiveIds, NEW n \in Lengths,
         NEW offset \in 0..(OffsetSpan - 1), Map(id, offset, n)
  PROVE  MemInv'
<1>1. /\ TypeOK /\ DataOwned /\ id \in 1..MaxAllocs /\ id \in Nat
      /\ DOMAIN heap \subseteq Pointer
      /\ mapped \subseteq [base : Address, data : Pointer, offset : Nat, length : Nat]
  <2>1. TypeOK /\ DataOwned /\ Len(Allocs) \in Nat /\ Len(Allocs) <= MaxAllocs
    BY DEF MemInv, FreeListExact, TypeOK
  <2>2. id \in 1..Len(Allocs)
    BY DEF LiveIds
  <2> QED  BY <2>1, <2>2, SpanAssumption DEF TypeOK
<1>2. BaseAddress(id) = id * OffsetSpan /\ BaseAddress(id) \in Address
  BY <1>1, Bases
<1>3. id * OffsetSpan \in Nat /\ id * OffsetSpan + offset \in Nat /\ offset \in Nat /\ n \in Nat
  BY <1>1, SpanAssumption
<1>4. Id(BaseAddress(id) + offset) = id /\ Offset(BaseAddress(id) + offset) = offset
  BY <1>1, <1>2, Whole
<1>5. offset + n <= Allocs[id].NumBytes
  BY <1>1, <1>2, <1>3, <1>4, ValidAccess DEF Map
<1>6. Allocs[id].Data \in Pointer
  BY <1>1 DEF DataOwned
<1>7. /\ mapped' = mapped \cup {[base |-> BaseAddress(id), data |-> Allocs[id].Data,
                                 offset |-> offset, length |-> n]}
      /\ UNCHANGED <<Allocs, FreeList, heap>>
  BY DEF Map
<1>8. mapped' \subseteq [base : Address, data : Pointer, offset : Nat, length : Nat]
  BY <1>1, <1>2, <1>3, <1>6, <1>7
<1> QED  BY <1>5, <1>7, <1>8, MappingStep

(* vkUnmapMemory takes mappings away.                                        *)
LEMMA UnmapStep ==
  ASSUME MemInv, NEW id \in LiveIds, Unmap(id)
  PROVE  MemInv'
<1>1. /\ mapped' \subseteq mapped /\ UNCHANGED <<Allocs, FreeList, heap>>
      /\ mapped \subseteq [base : Address, data : Pointer, offset : Nat, length : Nat]
  BY DEF MemInv, FreeListExact, TypeOK, Unmap
<1> QED  BY <1>1, MappingStep

(* Loads and invalid accesses change nothing.                                *)
LEMMA UnchangedStep ==
  ASSUME MemInv, UNCHANGED <<Allocs, FreeList, heap, mapped>>
  PROVE  MemInv'
<1>1. \A p \in DOMAIN heap : heap[p] \in Seq(Value)
  BY DEF MemInv, FreeListExact, TypeOK
<1> QED  BY <1>1, ContentStep

(* A store that is valid is to a live buffer.                                *)
LEMMA StoreStep ==
  ASSUME MemInv, NEW a \in Address, NEW n \in Lengths, NEW data \in [1..n -> Value],
         Store(a, data)
  PROVE  MemInv'
<1>1. a \in Nat /\ n \in Nat
  BY SpanAssumption DEF Address
<1>2. data \in Seq(Value)
  BY <1>1, BytesSeq
<1>3. CASE isAccessValid(a, Len(data))
  <2>1. Id(a) \in LiveIds
    BY <1>3 DEF isAccessValid, LiveIds
  <2> QED  BY <1>1, <1>2, <1>3, <2>1, WriteStep DEF Store
<1>4. CASE ~isAccessValid(a, Len(data))
  BY <1>4, UnchangedStep DEF Store
<1> QED  BY <1>3, <1>4

(* A copy stores bytes that it has read.                                     *)
LEMMA CopyStep ==
  ASSUME NoWrap, MemInv, NEW dst \in Address, NEW src \in Address, NEW n \in Lengths,
         Copy(dst, src, n)
  PROVE  MemInv'
<1>1. dst \in Nat /\ src \in Nat
  BY DEF Address
<1>2. CASE isAccessValid(src, n) /\ isAccessValid(dst, n)
  <2>1. Id(dst) \in LiveIds
    BY <1>2 DEF isAccessValid, LiveIds
  <2>2. Read(src, n) \in Seq(Value)
    BY <1>1, <1>2, ReadBytes
  <2> QED  BY <1>1, <1>2, <2>1, <2>2, WriteStep DEF Copy
<1>3. CASE ~(isAccessValid(src, n) /\ isAccessValid(dst, n))
  BY <1>3, UnchangedStep DEF Copy
<1> QED  BY <1>2, <1>3

(* What an atomic operation stores is truncated to its width.                *)
LEMMA UpdatedValue ==
  ASSUME NEW opcode \in {"exchange", "iadd", "cmpxchg"}, NEW old \in Value,
         NEW value \in Value, NEW comparator
  PROVE  Updated(opcode, old, value, comparator) \in Value
<1>1. old \in Nat /\ value \in Nat /\ ValueSpan \in Nat \ {0}
  BY SpanAssumption DEF Value
<1>2. (old + value) % ValueSpan \in Value
  BY <1>1 DEF Value
<1> QED  BY <1>2 DEF Updated

(* An atomic operation stores one byte, computed from the one it has read.   *)
LEMMA AtomicStep ==
  ASSUME NoWrap, MemInv, NEW a \in Address, NEW opcode \in {"exchange", "iadd", "cmpxchg"},
         NEW v \in Value, NEW c, Atomic(a, opcode, v, c)
  PROVE  MemInv'
<1>1. a \in Nat
  BY DEF Address
<1>2. CASE isAccessValid(a, 1)
  <2> DEFINE new == Updated(opcode, Read(a, 1)[1], v, c)
  <2>1. Id(a) \in LiveIds
    BY <1>2 DEF isAccessValid, LiveIds
  <2>2. Read(a, 1) \in Seq(Value) /\ Len(Read(a, 1)) = 1
    BY <1>1, <1>2, ReadBytes
  <2>3. Read(a, 1)[1] \in Value
    BY <2>2, ElementOfSeq
  <2>4. new \in Value
    BY <2>3, UpdatedValue
  <2>5. heap' = Write(a, <<new>>) /\ UNCHANGED <<Allocs, FreeList, mapped>>
    BY <1>2 DEF Atomic
  <2> HIDE DEF new
  <2>6. <<new>> \in Seq(Value)
    BY <2>4
  <2> QED  BY <1>1, <2>1, <2>5, <2>6, WriteStep
<1>3. CASE ~isAccessValid(a, 1)
  BY <1>3, UnchangedStep DEF Atomic
<1> QED  BY <1>2, <1>3

(* A pointer that is mapped points at a block in use.                        *)
LEMMA HostWriteStep ==
  ASSUME MemInv, NEW m \in mapped, NEW v \in Value, NEW i \in 0..(m.length - 1),
         HostWrite(m, i, v)
  PROVE  MemInv'
<1>1. /\ m.data \in DOMAIN heap /\ m.offset \in Nat
      /\ \A p \in DOMAIN heap : heap[p] \in Seq(Value)
  BY DEF MemInv, FreeListExact, TypeOK, DataOwned
<1> DEFINE bytes == Overwrite(heap[m.data], m.offset + i, <<v>>)
<1>2. /\ heap' = [heap EXCEPT ![m.data] = bytes] /\ UNCHANGED <<Allocs, FreeList, mapped>>
  BY <1>1 DEF HostWrite
<1>3. m.offset + i \in Int /\ <<v>> \in Seq(Value)
  BY <1>1
<1>4. bytes \in Seq(Value) /\ Len(bytes) = Len(heap[m.data])
  BY <1>1, <1>3, Overwritten
<1> HIDE DEF bytes
<1>5. DOMAIN heap' = DOMAIN heap
  BY <1>2
<1>6. ASSUME NEW q \in DOMAIN heap
      PROVE  heap'[q] \in Seq(Value) /\ Len(heap'[q]) = Len(heap[q])
  <2>1. CASE q = m.data
    BY <1>1, <1>2, <1>4, <2>1
  <2>2. CASE q # m.data
    BY <1>1, <1>2, <2>2
  <2> QED  BY <2>1, <2>2
<1> QED  BY <1>2, <1>5, <1>6, ContentStep

(* Every step preserves the invariant.                                       *)
LEMMA StepMem ==
  ASSUME NoWrap, MemInv, [Next]_vars
  PROVE  MemInv'
<1>1. ASSUME NEW n \in Sizes, AllocateReused(n) PROVE MemInv'
  BY <1>1, AllocateReusedStep
<1>2. ASSUME NEW n \in Sizes, AllocateNew(n) PROVE MemInv'
  BY <1>2, AllocateNewStep
<1>3. ASSUME NEW id \in LiveIds, Release(id) PROVE MemInv'
  BY <1>3, ReleaseStep
<1>4. ASSUME NEW id \in LiveIds, Unmap(id) PROVE MemInv'
  BY <1>4, UnmapStep
<1>5. ASSUME NEW id \in LiveIds, NEW n \in Lengths, NEW offset \in 0..(OffsetSpan - 1),
             Map(id, offset, n)
      PROVE  MemInv'
  BY <1>5, MapStep
<1>6. ASSUME NEW a \in Address, NEW n \in Lengths, Load(a, n) PROVE MemInv'
  BY <1>6, UnchangedStep DEF Load
<1>7. ASSUME NEW a \in Address, NEW n \in Lengths, NEW data \in [1..n -> Value], Store(a, data)
      PROVE  MemInv'
  BY <1>7, StoreStep
<1>8. ASSUME NEW a \in Address, NEW b \in Address, NEW n \in Lengths, Copy(a, b, n)
      PROVE  MemInv'
  BY <1>8, CopyStep
<1>9. ASSUME NEW a \in Address, NEW v \in Value, Atomic(a, "exchange", v, 0) PROVE MemInv'
  BY <1>9, AtomicStep
<1>10. ASSUME NEW a \in Address, NEW v \in Value, Atomic(a, "iadd", v, 0) PROVE MemInv'
  BY <1>10, AtomicStep
<1>11. ASSUME NEW a \in Address, NEW v \in Value, NEW c \in Value, Atomic(a, "cmpxchg", v, c)
       PROVE  MemInv'
  BY <1>11, AtomicStep
<1>12. ASSUME NEW m \in mapped, NEW v \in Value, NEW i \in 0..(m.length - 1), HostWrite(m, i, v)
       PROVE  MemInv'
  BY <1>12, HostWriteStep
<1>13. CASE UNCHANGED vars
  BY <1>13, UnchangedStep DEF vars
<1> QED
  BY <1>1, <1>2, <1>3, <1>4, <1>5, <1>6, <1>7, <1>8, <1>9, <1>10, <1>11, <1>12, <1>13
  DEF Next

(* It is an invariant of the memory.                                         *)
LEMMA MemInvHolds == ASSUME NoWrap PROVE Spec => []MemInv
<1>1. Init => MemInv
  BY InitMem
<1>2. MemInv /\ [Next]_vars => MemInv'
  BY StepMem
<1> QED  BY <1>1, <1>2, PTL DEF Spec

(* However buffers come and go, every identifier is either that of one live  *)
(* buffer or once in FreeList.                                               *)
THEOREM FreeListIsExact == ASSUME NoWrap PROVE Spec => []FreeListExact
<1>1. MemInv => FreeListExact
  BY DEF MemInv
<1> QED  BY <1>1, MemInvHolds, PTL

(* Buffers own their memory, and what the host has mapped is memory of the   *)
(* buffer it mapped.                                                         *)
THEOREM DataIsOwned == ASSUME NoWrap PROVE Spec => []DataOwned
<1>1. MemInv => DataOwned
  BY DEF MemInv
<1> QED  BY <1>1, MemInvHolds, PTL

-------------------------------------------------------------------------------
(* DeviceMemory implements AddressSpace.  The buffers, as BufferAt shows them:*)
(* each at its base, which tells its identifier.                             *)
LEMMA Shown ==
  ASSUME NoWrap, MemInv
  PROVE  /\ LiveIds \subseteq 1..MaxAllocs
         /\ DOMAIN BufferAt = {BaseAddress(j) : j \in LiveIds}
         /\ \A j \in LiveIds : BufferAt[BaseAddress(j)] = heap[Allocs[j].Data]
         /\ BufferAt = [b \in DOMAIN BufferAt |-> BufferAt[b]]
<1>1. LiveIds \subseteq 1..MaxAllocs
  <2>1. Len(Allocs) \in Nat /\ Len(Allocs) <= MaxAllocs
    BY DEF MemInv, FreeListExact, TypeOK
  <2> QED  BY <2>1, SpanAssumption DEF LiveIds
<1>2. /\ DOMAIN BufferAt = {BaseAddress(id) : id \in LiveIds}
      /\ BufferAt = [b \in DOMAIN BufferAt |-> BufferAt[b]]
  BY DEF BufferAt
<1>3. ASSUME NEW id \in LiveIds
      PROVE  BufferAt[BaseAddress(id)] = heap[Allocs[id].Data]
  <2> DEFINE k == CHOOSE j \in LiveIds : BaseAddress(j) = BaseAddress(id)
  <2>1. k \in LiveIds /\ BaseAddress(k) = BaseAddress(id)
    OBVIOUS
  <2>2. k = id
    <3> HIDE DEF k
    <3> QED  BY <1>1, <2>1, Bases
  <2>3. BufferAt[BaseAddress(id)] = heap[Allocs[k].Data]
    BY DEF BufferAt
  <2> QED  BY <2>2, <2>3
<1> QED  BY <1>1, <1>2, <1>3

(* The same of the next state.                                               *)
View ==
  /\ LiveIds \subseteq 1..MaxAllocs
  /\ DOMAIN BufferAt = {BaseAddress(j) : j \in LiveIds}
  /\ \A j \in LiveIds : BufferAt[BaseAddress(j)] = heap[Allocs[j].Data]
  /\ BufferAt = [b \in DOMAIN BufferAt |-> BufferAt[b]]

(* What Shown says is a property of a state ...                              *)
LEMMA ShownView == NoWrap /\ MemInv => View
BY Shown DEF View

(* ... and so holds of the next one.                                         *)
LEMMA ShownNext ==
  ASSUME NoWrap, MemInv'
  PROVE  /\ LiveIds' \subseteq 1..MaxAllocs
         /\ DOMAIN BufferAt' = {BaseAddress(j) : j \in LiveIds'}
         /\ \A j \in LiveIds' : BufferAt'[BaseAddress(j)] = heap'[Allocs'[j].Data]
         /\ BufferAt' = [b \in DOMAIN BufferAt' |-> BufferAt'[b]]
<1>1. View'
  BY ShownView, PTL
<1>2. \A j : BaseAddress(j)' = BaseAddress(j)
  BY DEF BaseAddress
<1> QED  BY <1>1, <1>2 DEF View

(* The base of an address is that of a buffer if its identifier is.          *)
LEMMA BaseShown ==
  ASSUME NoWrap, MemInv, NEW a \in Nat
  PROVE  /\ Space!BaseOf(a) \in DOMAIN BufferAt <=> Id(a) \in LiveIds
         /\ Id(a) \in LiveIds => Space!BaseOf(a) = BaseAddress(Id(a))
<1>1. Space!BaseOf(a) = Id(a) * OffsetSpan
  <2>1. Id(a) \in Nat /\ Offset(a) \in Nat /\ a = Id(a) * OffsetSpan + Offset(a)
    BY Parts, SpanAssumption
  <2>2. Id(a) * OffsetSpan \in Nat
    BY <2>1, SpanAssumption
  <2>3. Space!BaseOf(a) = a - Offset(a)
    BY DEF Space!BaseOf, Offset
  <2> DEFINE q == Id(a) * OffsetSpan
  <2>4. q \in Nat /\ a = q + Offset(a) /\ Space!BaseOf(a) = a - Offset(a)
    BY <2>1, <2>2, <2>3
  <2> HIDE DEF q
  <2>5. Space!BaseOf(a) = q
    BY <2>1, <2>4
  <2> QED  BY <2>5 DEF q
<1>2. ASSUME NEW id \in LiveIds
      PROVE  id \in Nat /\ BaseAddress(id) = id * OffsetSpan
  BY Shown, Bases
<1>3. ASSUME NEW id \in LiveIds, id * OffsetSpan = Id(a) * OffsetSpan PROVE id = Id(a)
  <2>1. id \in Nat /\ Id(a) \in Nat /\ OffsetSpan \in Nat \ {0}
    BY <1>2, Parts, SpanAssumption
  <2> QED  BY <1>3, <2>1
<1> QED  BY <1>1, <1>2, <1>3, Shown

(* Accesses are valid where AddressSpace has a buffer, and read what is in it.*)
LEMMA AccessShown ==
  ASSUME NoWrap, MemInv, NEW a \in Nat, NEW n \in Lengths \cup {1}
  PROVE  /\ Space!Inside(a, n) = isAccessValid(a, n)
         /\ isAccessValid(a, n) => Space!Contents(a, n) = Read(a, n)
<1>1. isAccessValid(a, n) <=>
        Id(a) \in LiveIds /\ Offset(a) + n <= Allocs[Id(a)].NumBytes
  BY ValidAccess DEF MemInv, FreeListExact
<1>2. ASSUME Id(a) \in LiveIds
      PROVE  /\ BufferAt[Space!BaseOf(a)] = heap[Allocs[Id(a)].Data]
             /\ Len(heap[Allocs[Id(a)].Data]) = Allocs[Id(a)].NumBytes
  BY <1>2, BaseShown, Shown DEF MemInv, DataOwned
<1>3. Space!Inside(a, n) <=> isAccessValid(a, n)
  BY <1>1, <1>2, BaseShown DEF Space!Inside, Offset
<1>4. isAccessValid(a, n) => Space!Contents(a, n) = Read(a, n)
  BY <1>1, <1>2 DEF Space!Contents, Read, Offset
<1>5. Space!Inside(a, n) \in BOOLEAN /\ isAccessValid(a, n) \in BOOLEAN
  BY DEF Space!Inside, isAccessValid
<1> QED  BY <1>3, <1>4, <1>5

(* What Write does, seen through BufferAt.                                   *)
LEMMA WriteShown ==
  ASSUME NoWrap, MemInv, MemInv', NEW a \in Nat, Id(a) \in LiveIds, NEW data,
         heap' = Write(a, data), Allocs' = Allocs
  PROVE  BufferAt' = Space!Written(a, data)
<1> DEFINE base == BaseAddress(Id(a))
           p == Allocs[Id(a)].Data
           W == Space!Written(a, data)
<1>1. LiveIds' = LiveIds /\ \A id \in LiveIds : BaseAddress(id)' = BaseAddress(id)
  BY DEF LiveIds, BaseAddress
<1>2. /\ DOMAIN BufferAt' = DOMAIN BufferAt
      /\ BufferAt' = [b \in DOMAIN BufferAt' |-> BufferAt'[b]]
      /\ \A id \in LiveIds : BufferAt'[BaseAddress(id)] = heap'[Allocs[id].Data]
  BY <1>1, Shown, ShownNext
<1>3. /\ Space!BaseOf(a) = base /\ base \in DOMAIN BufferAt /\ BufferAt[base] = heap[p]
      /\ p \in DOMAIN heap
  BY BaseShown, Shown DEF MemInv, DataOwned
<1>4. /\ DOMAIN W = DOMAIN BufferAt /\ W = [b \in DOMAIN W |-> W[b]]
      /\ W[base] = Overwrite(heap[p], Offset(a), data)
      /\ \A b \in DOMAIN BufferAt : b # base => W[b] = BufferAt[b]
  BY <1>3 DEF Space!Written, Overwrite, Offset
<1>5. /\ heap'[p] = Overwrite(heap[p], Offset(a), data)
      /\ \A q \in DOMAIN heap : q # p => heap'[q] = heap[q]
  BY <1>3 DEF Write
<1>6. ASSUME NEW id \in LiveIds PROVE BufferAt'[BaseAddress(id)] = W[BaseAddress(id)]
  <2>1. CASE id = Id(a)
    BY <1>2, <1>4, <1>5, <2>1
  <2>2. CASE id # Id(a)
    <3>1. BaseAddress(id) # base /\ BaseAddress(id) \in DOMAIN BufferAt
      BY <2>2, Shown, Bases
    <3>2. Allocs[id].Data # p /\ Allocs[id].Data \in DOMAIN heap
      BY <2>2 DEF MemInv, DataOwned
    <3> HIDE DEF W, p, base
    <3> QED  BY <1>2, <1>4, <1>5, <3>1, <3>2, Shown
  <2> QED  BY <2>1, <2>2
<1>7. \A b \in DOMAIN BufferAt : BufferAt'[b] = W[b]
  BY <1>6, Shown
<1> HIDE DEF W
<1>8. BufferAt' = W
  BY <1>2, <1>4, <1>7
<1> QED  BY <1>8 DEF W

(* Nothing changes for AddressSpace when neither heap nor Allocs do.         *)
LEMMA SameShown ==
  ASSUME UNCHANGED <<Allocs, heap>> PROVE BufferAt' = BufferAt
BY DEF BufferAt, LiveIds, BaseAddress

(* Allocation is a step of AddressSpace: the new base is in the address      *)
(* space, not null, and not in use.                                          *)
LEMMA AllocateShown ==
  ASSUME NoWrap, MemInv, MemInv', NEW n \in Sizes, AllocateReused(n) \/ AllocateNew(n)
  PROVE  Space!Create
<1>1. /\ TypeOK /\ FreeOnes /\ Len(Allocs) \in Nat /\ Len(FreeList) \in Nat
      /\ FreeList \in Seq(1..Len(Allocs)) /\ Allocs \in Seq(Alloc)
  BY FreeOneByOne DEF MemInv, FreeListExact, TypeOK
<1>2. PICK id : /\ id \notin LiveIds /\ LiveIds' = LiveIds \cup {id}
                /\ \A j \in LiveIds : Allocs'[j] = Allocs[j]
                /\ access'.op = "allocate" /\ access'.address = BaseAddress(id)
                /\ \E p \in Pointer \ DOMAIN heap : NewData(p, n)
  <2>1. CASE AllocateReused(n)
    <3> DEFINE id == FreeList[Len(FreeList)]
    <3>1. Len(FreeList) \in 1..Len(FreeList)
      BY <1>1, <2>1, EmptySeq DEF AllocateReused
    <3>2. id \in 1..Len(Allocs) /\ Allocs[id].Data = Null
      BY <1>1, <3>1 DEF FreeOnes
    <3>3. PICK p \in Pointer \ DOMAIN heap :
            NewData(p, n) /\ Allocs' = [Allocs EXCEPT ![id] = [NumBytes |-> n, Data |-> p]]
      BY <2>1 DEF AllocateReused, Reused
    <3>4. access'.op = "allocate" /\ access'.address = BaseAddress(id)
      BY <2>1 DEF AllocateReused, Done, Reused
    <3>5. p # Null
      BY NullAssumption
    <3> HIDE DEF id
    <3>6. /\ Len(Allocs') = Len(Allocs) /\ Allocs'[id].Data = p
          /\ \A j \in 1..Len(Allocs) : j # id => Allocs'[j] = Allocs[j]
      BY <1>1, <3>2, <3>3
    <3>7. /\ id \notin LiveIds /\ LiveIds' = LiveIds \cup {id}
          /\ \A j \in LiveIds : Allocs'[j] = Allocs[j]
      BY <3>2, <3>5, <3>6 DEF LiveIds
    <3> QED  BY <3>3, <3>4, <3>7
  <2>2. CASE AllocateNew(n)
    <3> DEFINE id == Len(Allocs) + 1
    <3>1. PICK p \in Pointer \ DOMAIN heap :
            NewData(p, n) /\ Allocs' = Append(Allocs, [NumBytes |-> n, Data |-> p])
      BY <2>2 DEF AllocateNew
    <3>2. access'.op = "allocate" /\ access'.address = BaseAddress(id)
      BY <2>2 DEF AllocateNew, Done
    <3>3. p # Null
      BY NullAssumption
    <3>4. /\ Len(Allocs') = id /\ Allocs'[id].Data = p
          /\ \A j \in 1..Len(Allocs) : Allocs'[j] = Allocs[j]
      BY <1>1, <3>1
    <3>5. id \notin LiveIds /\ \A j \in LiveIds : j \in 1..Len(Allocs)
      BY <1>1 DEF LiveIds
    <3>6. \A j \in 1..id : j \in 1..Len(Allocs) \/ j = id
      BY <1>1
    <3>7. id \in 1..id /\ \A j \in 1..Len(Allocs) : j \in 1..id
      BY <1>1
    <3> HIDE DEF id
    <3>8. LiveIds' = LiveIds \cup {id}
      BY <3>3, <3>4, <3>5, <3>6, <3>7 DEF LiveIds
    <3> QED  BY <3>1, <3>2, <3>4, <3>5, <3>8
  <2> QED  BY <2>1, <2>2
<1> DEFINE base == BaseAddress(id)
<1>3. /\ LiveIds' \subseteq 1..MaxAllocs
      /\ DOMAIN BufferAt' = {BaseAddress(j) : j \in LiveIds'}
      /\ \A j \in LiveIds' : BufferAt'[BaseAddress(j)] = heap'[Allocs'[j].Data]
  BY ShownNext
<1>4. id \in 1..MaxAllocs
  BY <1>2, <1>3
<1>5. /\ base = id * OffsetSpan /\ base \in Address /\ base # 0
      /\ \A j \in 1..MaxAllocs : BaseAddress(j) = base => j = id
  BY <1>4, Bases
<1>6. base % OffsetSpan = 0 /\ base < AddressSpan
  <2>1. id \in Nat /\ OffsetSpan \in Nat \ {0} /\ 0 \in 0..(OffsetSpan - 1)
    BY <1>4, SpanAssumption
  <2>2. ASSUME NEW o \in 0..(OffsetSpan - 1), o = 0
        PROVE  Offset(id * OffsetSpan) = 0
    <3>1. Offset(id * OffsetSpan + o) = o
      BY <2>1, Whole
    <3>2. id * OffsetSpan + o = id * OffsetSpan
      BY <2>1, <2>2
    <3> QED  BY <2>2, <3>1, <3>2
  <2>3. Offset(id * OffsetSpan) = 0
    BY <2>1, <2>2
  <2>4. AddressSpan \in Nat
    BY SpanAssumption DEF AddressSpan
  <2> HIDE DEF base
  <2> QED  BY <1>5, <2>3, <2>4 DEF Offset, Address
<1>7. base \notin DOMAIN BufferAt
  BY <1>2, <1>5, Shown
<1>8. DOMAIN BufferAt' = DOMAIN BufferAt \cup {base}
  BY <1>2, <1>3, Shown
<1>9. ASSUME NEW b \in DOMAIN BufferAt PROVE BufferAt'[b] = BufferAt[b]
  <2>1. PICK j \in LiveIds : b = BaseAddress(j)
    BY Shown
  <2>2. BufferAt[b] = heap[Allocs[j].Data] /\ BufferAt'[b] = heap'[Allocs[j].Data]
    BY <1>2, <1>3, <2>1, Shown
  <2>3. Allocs[j].Data \in DOMAIN heap
    BY DEF MemInv, DataOwned
  <2>4. \A q \in DOMAIN heap : heap'[q] = heap[q]
    BY <1>2 DEF NewData
  <2> QED  BY <2>2, <2>3, <2>4
<1> HIDE DEF base
<1>10. access'.op = "allocate" /\ access'.address = base
  BY <1>2 DEF base
<1> QED  BY <1>5, <1>6, <1>7, <1>8, <1>9, <1>10 DEF Space!Create

(* Release takes the buffer away, and leaves the others.                     *)
LEMMA ReleaseShown ==
  ASSUME NoWrap, MemInv, MemInv', NEW id \in LiveIds, Release(id)
  PROVE  Space!Destroy
<1> DEFINE base == BaseAddress(id)
<1>1. /\ heap' = [q \in DOMAIN heap \ {Allocs[id].Data} |-> heap[q]]
      /\ Allocs' = [Allocs EXCEPT ![id].Data = Null]
      /\ access'.op = "release" /\ access'.address = base
  BY DEF Release, Done
<1>2. Allocs \in Seq(Alloc)
  BY DEF MemInv, FreeListExact, TypeOK
<1>3. /\ Len(Allocs') = Len(Allocs) /\ Allocs'[id].Data = Null
      /\ \A j \in 1..Len(Allocs) : j # id => Allocs'[j] = Allocs[j]
  <2>1. id \in 1..Len(Allocs) /\ Allocs[id] \in Alloc
    BY <1>2, ElementOfSeq DEF LiveIds
  <2> DEFINE c == [Allocs[id] EXCEPT !.Data = Null]
  <2>2. c.Data = Null
    BY <2>1 DEF Alloc
  <2>3. Allocs' = [Allocs EXCEPT ![id] = c]
    BY <1>1, <1>2, <2>1
  <2> HIDE DEF c
  <2> QED  BY <1>2, <2>1, <2>2, <2>3
<1>4. LiveIds' = LiveIds \ {id} /\ \A j \in LiveIds' : Allocs'[j] = Allocs[j]
  BY <1>3 DEF LiveIds
<1>5. /\ DOMAIN BufferAt' = {BaseAddress(j) : j \in LiveIds'}
      /\ \A j \in LiveIds' : BufferAt'[BaseAddress(j)] = heap'[Allocs'[j].Data]
      /\ BufferAt' = [b \in DOMAIN BufferAt' |-> BufferAt'[b]]
  BY ShownNext
<1>6. \A j \in LiveIds : BaseAddress(j) = base => j = id
  BY Shown, Bases
<1>7. base \in DOMAIN BufferAt /\ DOMAIN BufferAt' = DOMAIN BufferAt \ {base}
  BY <1>4, <1>5, <1>6, Shown
<1>8. ASSUME NEW b \in DOMAIN BufferAt' PROVE BufferAt'[b] = BufferAt[b]
  <2>1. PICK j \in LiveIds' : b = BaseAddress(j)
    BY <1>5
  <2>2. j \in LiveIds /\ j # id
    BY <1>4
  <2>3. BufferAt[b] = heap[Allocs[j].Data] /\ BufferAt'[b] = heap'[Allocs[j].Data]
    BY <1>4, <1>5, <2>1, <2>2, Shown
  <2>4. Allocs[j].Data \in DOMAIN heap /\ Allocs[j].Data # Allocs[id].Data
    BY <2>2 DEF MemInv, DataOwned
  <2> QED  BY <1>1, <2>3, <2>4
<1>9. BufferAt' = [b \in DOMAIN BufferAt \ {base} |-> BufferAt[b]]
  BY <1>5, <1>7, <1>8
<1> QED  BY <1>1, <1>7, <1>9 DEF Space!Destroy

(* Zeros are returned as many as were asked for.                             *)
LEMMA ZerosLength ==
  ASSUME NEW n \in Nat
  PROVE  Len([i \in 1..n |-> 0]) = n
OBVIOUS

(* A load returns what AddressSpace has there, or zeros.                     *)
LEMMA LoadShown ==
  ASSUME NoWrap, MemInv, NEW a \in Address, NEW n \in Lengths, Load(a, n)
  PROVE  Space!Load
<1>1. a \in Nat /\ n \in Nat /\ BufferAt' = BufferAt
  BY SpanAssumption, SameShown DEF Address, Load
<1>2. access'.op = "load" /\ access'.address = a /\ access'.ok = isAccessValid(a, n)
  BY DEF Load, Done
<1>3. access'.data = IF isAccessValid(a, n) THEN Read(a, n) ELSE [i \in 1..n |-> 0]
  BY DEF Load, Done
<1>4. Len(access'.data) = n
  BY <1>1, <1>3, ReadBytes, ZerosLength
<1>5. /\ Space!Inside(a, n) = isAccessValid(a, n)
      /\ isAccessValid(a, n) => Space!Contents(a, n) = Read(a, n)
  BY <1>1, AccessShown
<1>6. access'.data = IF Space!Inside(a, n) THEN Space!Contents(a, n) ELSE Space!Zeros(n)
  BY <1>3, <1>5 DEF Space!Zeros
<1> QED  BY <1>1, <1>2, <1>4, <1>5, <1>6 DEF Space!Load

(* A store changes the bytes it is for, or nothing.                          *)
LEMMA StoreShown ==
  ASSUME NoWrap, MemInv, MemInv', NEW a \in Address, NEW n \in Lengths,
         NEW data \in [1..n -> Value], Store(a, data)
  PROVE  Space!Store
<1>1. a \in Nat /\ n \in Nat /\ Len(data) = n
  BY SpanAssumption, BytesSeq DEF Address
<1>2. /\ access'.op = "store" /\ access'.address = a /\ access'.data = data
      /\ access'.ok = isAccessValid(a, n) /\ Allocs' = Allocs
      /\ heap' = IF isAccessValid(a, n) THEN Write(a, data) ELSE heap
  BY <1>1 DEF Store, Done
<1>3. Space!Inside(a, n) = isAccessValid(a, n)
  BY <1>1, AccessShown
<1>4. BufferAt' = IF Space!Inside(a, n) THEN Space!Written(a, data) ELSE BufferAt
  <2>1. CASE isAccessValid(a, n)
    <3>1. Id(a) \in LiveIds
      BY <2>1 DEF isAccessValid, LiveIds
    <3> QED  BY <1>1, <1>2, <1>3, <2>1, <3>1, WriteShown
  <2>2. CASE ~isAccessValid(a, n)
    BY <1>2, <1>3, <2>2, SameShown
  <2> QED  BY <2>1, <2>2
<1> QED  BY <1>1, <1>2, <1>3, <1>4 DEF Space!Store

(* A copy moves what is at its source, if both ends are valid.               *)
LEMMA CopyShown ==
  ASSUME NoWrap, MemInv, MemInv', NEW dst \in Address, NEW src \in Address,
         NEW n \in Lengths, Copy(dst, src, n)
  PROVE  Space!Copy
<1> DEFINE ok == isAccessValid(src, n) /\ isAccessValid(dst, n)
<1>1. dst \in Nat /\ src \in Nat /\ n \in Nat
  BY SpanAssumption DEF Address
<1>2. /\ access'.op = "copy" /\ access'.address = dst /\ access'.source = src
      /\ access'.ok = ok /\ Allocs' = Allocs
      /\ access'.data = IF ok THEN Read(src, n) ELSE [i \in 1..n |-> 0]
      /\ heap' = IF ok THEN Write(dst, Read(src, n)) ELSE heap
  BY DEF Copy, Done
<1>3. /\ Space!Inside(dst, n) = isAccessValid(dst, n)
      /\ Space!Inside(src, n) = isAccessValid(src, n)
      /\ isAccessValid(src, n) => Space!Contents(src, n) = Read(src, n)
  BY <1>1, AccessShown
<1>4. Len(access'.data) = n
  <2>1. CASE ok
    BY <1>1, <1>2, <2>1, ReadBytes
  <2>2. CASE ~ok
    BY <1>1, <1>2, <2>2, ZerosLength
  <2> QED  BY <2>1, <2>2
<1>5. BufferAt' = IF ok THEN Space!Written(dst, access'.data) ELSE BufferAt
  <2>1. CASE ok
    <3>1. Id(dst) \in LiveIds
      BY <2>1 DEF isAccessValid, LiveIds
    <3> QED  BY <1>1, <1>2, <2>1, <3>1, WriteShown
  <2>2. CASE ~ok
    BY <1>2, <2>2, SameShown
  <2> QED  BY <2>1, <2>2
<1>6. ok => access'.data = Space!Contents(src, n)
  BY <1>2, <1>3
<1>7. access'.ok = (Space!Inside(dst, n) /\ Space!Inside(src, n))
  BY <1>2, <1>3
<1> HIDE DEF ok
<1> QED  BY <1>2, <1>4, <1>5, <1>6, <1>7 DEF Space!Copy

(* Validity is a truth value, whatever is accessed.                          *)
LEMMA AccessBoolean ==
  ASSUME NEW a, NEW n PROVE isAccessValid(a, n) \in BOOLEAN /\ Space!Inside(a, n) \in BOOLEAN
BY DEF isAccessValid, Space!Inside

(* An atomic operation returns the old byte and stores the new one.          *)
LEMMA AtomicShown ==
  ASSUME NoWrap, MemInv, MemInv', NEW a \in Address, NEW opcode, NEW v, NEW c,
         Atomic(a, opcode, v, c)
  PROVE  Space!Atomic
<1> DEFINE new == Updated(opcode, Read(a, 1)[1], v, c)
<1>1. a \in Nat
  BY DEF Address
<1>2. access'.op = "atomic" /\ access'.address = a
  <2>1. \E data, source, ok : Done("atomic", a, data, source, ok)
    BY DEF Atomic
  <2> QED  BY <2>1 DEF Done
<1>3. /\ Space!Inside(a, 1) = isAccessValid(a, 1)
      /\ isAccessValid(a, 1) => Space!Contents(a, 1) = Read(a, 1)
  BY <1>1, AccessShown
<1>4. CASE isAccessValid(a, 1)
  <2>1. Id(a) \in LiveIds
    BY <1>4 DEF isAccessValid, LiveIds
  <2>2. /\ heap' = Write(a, <<new>>) /\ Allocs' = Allocs
        /\ access'.data = <<Read(a, 1)[1]>> /\ access'.source = new /\ access'.ok = TRUE
    BY <1>4 DEF Atomic, Done
  <2>3. Read(a, 1) = <<Read(a, 1)[1]>>
    <3>1. Read(a, 1) \in Seq(Value) /\ Len(Read(a, 1)) = 1
      BY <1>1, <1>4, ReadBytes
    <3> DEFINE r == Read(a, 1)
    <3>2. r \in Seq(Value) /\ Len(r) = 1
      BY <3>1
    <3> HIDE DEF r
    <3>3. r = <<r[1]>>
      BY <3>2
    <3> QED  BY <3>3 DEF r
  <2> HIDE DEF new
  <2>4. BufferAt' = Space!Written(a, <<new>>)
    BY <1>1, <2>1, <2>2, WriteShown
  <2>5. Space!Inside(a, 1) = TRUE
    BY <1>3, <1>4, AccessBoolean
  <2> QED  BY <1>2, <1>3, <1>4, <2>2, <2>3, <2>4, <2>5 DEF Space!Atomic
<1>5. CASE ~isAccessValid(a, 1)
  <2>1. access'.data = <<0>> /\ access'.ok = FALSE /\ BufferAt' = BufferAt
    BY <1>5, SameShown DEF Atomic, Done
  <2>2. Space!Zeros(1) = <<0>>
    BY DEF Space!Zeros
  <2>3. Space!Inside(a, 1) = FALSE
    BY <1>3, <1>5, AccessBoolean
  <2> QED  BY <1>2, <2>1, <2>2, <2>3 DEF Space!Atomic
<1> QED  BY <1>4, <1>5

(* A host that writes through a mapped pointer stores at the address it      *)
(* mapped.                                                                   *)
LEMMA HostWriteShown ==
  ASSUME NoWrap, MemInv, MemInv', NEW m \in mapped, NEW v \in Value,
         NEW i \in 0..(m.length - 1), HostWrite(m, i, v)
  PROVE  Space!Store
<1>1. m.offset \in Nat /\ m.length \in Nat /\ m.base \in Address
  BY DEF MemInv, FreeListExact, TypeOK
<1>2. PICK id \in LiveIds : /\ BaseAddress(id) = m.base /\ Allocs[id].Data = m.data
                            /\ m.offset + m.length <= Allocs[id].NumBytes
  BY DEF MemInv, DataOwned
<1> DEFINE o == m.offset + i
           a == m.base + m.offset + i
<1>3. id \in Nat /\ m.base = id * OffsetSpan
  BY <1>2, Shown, Bases
<1>4. Allocs[id].NumBytes \in 0..OffsetSpan
  <2>1. Allocs[id] \in Alloc
    BY DEF MemInv, FreeListExact, TypeOK, LiveIds
  <2> QED  BY <2>1, SpanAssumption DEF Alloc
<1>5. o \in 0..(OffsetSpan - 1) /\ o + 1 <= Allocs[id].NumBytes
  BY <1>1, <1>2, <1>4, SpanAssumption
<1>6. a = id * OffsetSpan + o /\ a \in Nat
  <2>1. m.base \in Nat
    BY <1>1 DEF Address
  <2> QED  BY <1>1, <1>3, <2>1
<1>7. Id(a) = id /\ Offset(a) = o
  <2> HIDE DEF o, a
  <2> QED  BY <1>3, <1>5, <1>6, Whole
<1>8. isAccessValid(a, 1)
  <2> HIDE DEF o, a
  <2> QED  BY <1>2, <1>5, <1>6, <1>7, ValidAccess DEF MemInv, FreeListExact
<1>9. /\ access'.op = "store" /\ access'.address = a /\ access'.data = <<v>>
      /\ access'.ok = TRUE /\ Allocs' = Allocs
      /\ heap' = [heap EXCEPT ![m.data] = Overwrite(@, m.offset + i, <<v>>)]
  BY DEF HostWrite, Done
<1>10. heap' = Write(a, <<v>>)
  BY <1>2, <1>7, <1>9 DEF Write
<1> HIDE DEF o, a
<1>11. BufferAt' = Space!Written(a, <<v>>)
  BY <1>2, <1>6, <1>7, <1>9, <1>10, WriteShown
<1>12. Space!Inside(a, 1) = TRUE /\ Len(<<v>>) = 1
  BY <1>6, <1>8, AccessShown
<1> QED  BY <1>9, <1>11, <1>12 DEF Space!Store

(* Every step is one of AddressSpace, or changes nothing there.              *)
LEMMA StepShown ==
  ASSUME NoWrap, MemInv, MemInv', [Next]_vars
  PROVE  [Space!Next]_(Space!vars)
<1> USE DEF Space!Next
<1>1. ASSUME NEW n \in Sizes, AllocateReused(n) \/ AllocateNew(n) PROVE Space!Next
  BY <1>1, AllocateShown
<1>2. ASSUME NEW id \in LiveIds, Release(id) PROVE Space!Next
  BY <1>2, ReleaseShown
<1>3. ASSUME NEW id \in LiveIds, Unmap(id) PROVE UNCHANGED Space!vars
  BY <1>3, SameShown DEF Unmap, Space!vars
<1>4. ASSUME NEW id \in LiveIds, NEW n \in Lengths, NEW offset \in 0..(OffsetSpan - 1),
             Map(id, offset, n)
      PROVE  UNCHANGED Space!vars
  BY <1>4, SameShown DEF Map, Space!vars
<1>5. ASSUME NEW a \in Address, NEW n \in Lengths, Load(a, n) PROVE Space!Next
  BY <1>5, LoadShown
<1>6. ASSUME NEW a \in Address, NEW n \in Lengths, NEW data \in [1..n -> Value], Store(a, data)
      PROVE  Space!Next
  BY <1>6, StoreShown
<1>7. ASSUME NEW a \in Address, NEW b \in Address, NEW n \in Lengths, Copy(a, b, n)
      PROVE  Space!Next
  BY <1>7, CopyShown
<1>8. ASSUME NEW a \in Address, NEW opcode, NEW v, NEW c, Atomic(a, opcode, v, c)
      PROVE  Space!Next
  BY <1>8, AtomicShown
<1>9. ASSUME NEW m \in mapped, NEW v \in Value, NEW i \in 0..(m.length - 1), HostWrite(m, i, v)
      PROVE  Space!Next
  BY <1>9, HostWriteShown
<1>10. CASE UNCHANGED vars
  BY <1>10, SameShown DEF vars, Space!vars
<1> HIDE DEF Space!Next
<1> QED
  BY <1>1, <1>2, <1>3, <1>4, <1>5, <1>6, <1>7, <1>8, <1>9, <1>10 DEF Next

(* At first there are no buffers.                                            *)
LEMMA InitShown == Init => Space!Init
<1> SUFFICES ASSUME Init PROVE Space!Init
  OBVIOUS
<1>1. Allocs = <<>> /\ access.op = "none"
  BY DEF Init
<1>2. LiveIds = {}
  BY <1>1 DEF LiveIds
<1>3. BufferAt = <<>>
  <2>1. DOMAIN BufferAt = {} /\ BufferAt = [b \in DOMAIN BufferAt |-> BufferAt[b]]
    BY <1>2 DEF BufferAt
  <2> QED  BY <2>1
<1> QED  BY <1>1, <1>3 DEF Space!Init

(* A memory, whatever is allocated, released, mapped and accessed in it, is  *)
(* an address space: buffers at distinct bases that only stores into them    *)
(* change, loads that return what was stored, and zeros elsewhere.           *)
THEOREM MemoryIsAddressSpace == ASSUME NoWrap PROVE Spec => ImplementsAddressSpace
<1>1. Init => Space!Init
  BY InitShown
<1>2. MemInv /\ MemInv' /\ [Next]_vars => [Space!Next]_(Space!vars)
  BY StepShown
<1> QED  BY <1>1, <1>2, MemInvHolds, PTL DEF Spec, ImplementsAddressSpace, Space!Spec
=================================================================================
