---------------------------- MODULE DeviceMemory ----------------------------
(***************************************************************************)
(* The virtual memory of the device (lib/talvos/Memory.cpp), with the      *)
(* allocation and mapping calls of lib/vulkan/memory.cpp that act on it.   *)
(*                                                                         *)
(* An address is a buffer identifier in its high bits and an offset in its *)
(* low bits.  Allocs gives each identifier a size and a host pointer; the  *)
(* identifiers of released buffers are reused, last released first.  Host  *)
(* pointers matter because vkMapMemory hands them out: heap is the store   *)
(* behind them, a function from the pointers in use to what they point at. *)
(*                                                                         *)
(* A byte is a number below ValueSpan.  The operations are atomic here, as *)
(* they are when the host allocates and releases only while the queue is   *)
(* idle.                                                                   *)
(*                                                                         *)
(* An operator introduced by "Fault:" is a variant of the next definition  *)
(* with a mistake in it; it shows that a property can fail.                *)
(***************************************************************************)
EXTENDS Integers, Sequences, FiniteSets

CONSTANTS
  BufferSpan,   \* number of buffer identifiers, 2^BUFFER_BITS
  OffsetSpan,   \* number of offsets, 2^OFFSET_BITS
  ValueSpan,    \* number of values of a byte
  Sizes,        \* the sizes of buffers
  Lengths,      \* the lengths of accesses
  Pointer,      \* host pointers
  MaxAllocs,    \* bound on the number of identifiers ever handed out
  Null

ASSUME SpanAssumption ==
  /\ BufferSpan \in Nat \ {0} /\ OffsetSpan \in Nat \ {0}
  /\ ValueSpan \in Nat \ {0}
  /\ Sizes \subseteq 0..OffsetSpan /\ Lengths \subseteq Nat /\ MaxAllocs \in Nat
ASSUME NullAssumption == Null \notin Pointer

AddressSpan == BufferSpan * OffsetSpan
Address == 0..(AddressSpan - 1)
Value == 0..(ValueSpan - 1)

VARIABLES
  Allocs,    \* Memory::Allocs without its slot 0, which never holds a buffer
  FreeList,  \* Memory::FreeList
  heap,      \* what the pointers in use point at
  mapped,    \* the pointers vkMapMemory has given to the host
  access     \* the latest operation, as its caller sees it

vars == <<Allocs, FreeList, heap, mapped, access>>

Alloc == [NumBytes : Sizes, Data : Pointer \cup {Null}]

TypeOK ==
  /\ Allocs \in Seq(Alloc) /\ FreeList \in Seq(1..Len(Allocs))
  /\ DOMAIN heap \subseteq Pointer
  /\ \A p \in DOMAIN heap : heap[p] \in Seq(Value)
  /\ mapped \subseteq [base : Address, data : Pointer, offset : Nat, length : Nat]

(* Id << OFFSET_BITS, in 64 bits, and the parts of an address.             *)
BaseAddress(id) == (id * OffsetSpan) % AddressSpan
Id(a) == a \div OffsetSpan
Offset(a) == a % OffsetSpan

(* Memory::isAccessValid.                                                  *)
\* Fault: an access may not reach the end of its buffer.
AccessValidButEnd(a, n) ==
  /\ Id(a) \in 1..Len(Allocs)
  /\ Allocs[Id(a)].Data # Null
  /\ (Offset(a) + n) % AddressSpan < Allocs[Id(a)].NumBytes
isAccessValid(a, n) ==
  /\ Id(a) \in 1..Len(Allocs)
  /\ Allocs[Id(a)].Data # Null
  /\ (Offset(a) + n) % AddressSpan <= Allocs[Id(a)].NumBytes

(* memcpy from and to the host memory behind an address.                   *)
Read(a, n) == SubSeq(heap[Allocs[Id(a)].Data], Offset(a) + 1, Offset(a) + n)
Overwrite(bytes, offset, data) ==
  [i \in 1..Len(bytes) |-> IF i - offset \in 1..Len(data)
                           THEN data[i - offset] ELSE bytes[i]]
Write(a, data) ==
  [heap EXCEPT ![Allocs[Id(a)].Data] = Overwrite(@, Offset(a), data)]

Done(op, a, data, source, ok) ==
  access' = [op |-> op, address |-> a, data |-> data, source |-> source, ok |-> ok]

LiveIds == {id \in 1..Len(Allocs) : Allocs[id].Data # Null}

Init ==
  /\ Allocs = <<>> /\ FreeList = <<>>
  /\ heap = <<>> /\ mapped = {}
  /\ access = [op |-> "none", address |-> 0, data |-> <<>>, source |-> 0, ok |-> TRUE]

-------------------------------------------------------------------------------
(* new uint8_t[NumBytes] leaves the bytes uninitialised. *)
NewData(p, n) ==
  \E bytes \in [1..n -> Value] :
    heap' = [q \in DOMAIN heap \cup {p} |-> IF q = p THEN bytes ELSE heap[q]]

\* The identifier to reuse.  Fault: the first, while the last is popped.
ReusedFront == FreeList[1]
Reused == FreeList[Len(FreeList)]

\* Memory::allocate, when there is an identifier to reuse: the last released.
AllocateReused(n) ==
  /\ FreeList # <<>>
  /\ \E p \in Pointer \ DOMAIN heap :
       /\ NewData(p, n)
       /\ Allocs' = [Allocs EXCEPT ![Reused] = [NumBytes |-> n, Data |-> p]]
  /\ FreeList' = SubSeq(FreeList, 1, Len(FreeList) - 1)
  /\ Done("allocate", BaseAddress(Reused), <<>>, 0, TRUE)
  /\ UNCHANGED mapped

\* ... and when there is none: Allocs.push_back(B).
AllocateNew(n) ==
  /\ FreeList = <<>> /\ Len(Allocs) < MaxAllocs
  /\ \E p \in Pointer \ DOMAIN heap :
       /\ NewData(p, n)
       /\ Allocs' = Append(Allocs, [NumBytes |-> n, Data |-> p])
  /\ Done("allocate", BaseAddress(Len(Allocs) + 1), <<>>, 0, TRUE)
  /\ UNCHANGED <<FreeList, mapped>>

\* Memory::release, for a buffer its owner has not released before.  Whoever
\* mapped it may not use the pointer any more.
\* Fault: the entry keeps its pointer.
ReleaseKept(id) ==
  /\ id \in LiveIds
  /\ heap' = [q \in DOMAIN heap \ {Allocs[id].Data} |-> heap[q]]
  /\ FreeList' = Append(FreeList, id)
  /\ Done("release", BaseAddress(id), <<>>, 0, TRUE)
  /\ UNCHANGED <<Allocs, mapped>>
Release(id) ==
  /\ id \in LiveIds
  /\ heap' = [q \in DOMAIN heap \ {Allocs[id].Data} |-> heap[q]]
  /\ Allocs' = [Allocs EXCEPT ![id].Data = Null]
  /\ FreeList' = Append(FreeList, id)
  /\ mapped' = {m \in mapped : m.base # BaseAddress(id)}
  /\ Done("release", BaseAddress(id), <<>>, 0, TRUE)

\* Memory::load.
Load(a, n) ==
  /\ Done("load", a, IF isAccessValid(a, n) THEN Read(a, n) ELSE [i \in 1..n |-> 0],
          0, isAccessValid(a, n))
  /\ UNCHANGED <<Allocs, FreeList, heap, mapped>>

\* Memory::store.
Store(a, data) ==
  /\ heap' = IF isAccessValid(a, Len(data)) THEN Write(a, data) ELSE heap
  /\ Done("store", a, data, 0, isAccessValid(a, Len(data)))
  /\ UNCHANGED <<Allocs, FreeList, mapped>>

\* Memory::copy: a load that is not valid ends it; the rest is a store.  The
\* regions of one buffer may not overlap.
Copy(dst, src, n) ==
  /\ Id(dst) = Id(src) => Offset(dst) + n <= Offset(src) \/ Offset(src) + n <= Offset(dst)
  /\ LET ok == isAccessValid(src, n) /\ isAccessValid(dst, n) IN
       /\ heap' = IF ok THEN Write(dst, Read(src, n)) ELSE heap
       /\ Done("copy", dst, IF ok THEN Read(src, n) ELSE [i \in 1..n |-> 0], src, ok)
  /\ UNCHANGED <<Allocs, FreeList, mapped>>

\* Memory::atomic and Memory::atomicCmpXchg: exchange, add and compare-exchange
\* stand for the opcodes.
\* Fault: the sum is not truncated to the width of the value.
UpdatedWide(opcode, old, value, comparator) ==
  CASE opcode = "exchange" -> value
    [] opcode = "iadd"     -> old + value
    [] opcode = "cmpxchg"  -> IF old = comparator THEN value ELSE old
Updated(opcode, old, value, comparator) ==
  CASE opcode = "exchange" -> value
    [] opcode = "iadd"     -> (old + value) % ValueSpan
    [] opcode = "cmpxchg"  -> IF old = comparator THEN value ELSE old

Atomic(a, opcode, value, comparator) ==
  /\ IF isAccessValid(a, 1)
     THEN LET old == Read(a, 1)[1]
              new == Updated(opcode, old, value, comparator) IN
            /\ heap' = Write(a, <<new>>)
            /\ Done("atomic", a, <<old>>, new, TRUE)
     ELSE heap' = heap /\ Done("atomic", a, <<0>>, 0, FALSE)
  /\ UNCHANGED <<Allocs, FreeList, mapped>>

\* vkMapMemory of a range of a buffer the host owns and has not mapped already:
\* Memory::map.
Map(id, offset, n) ==
  /\ id \in LiveIds /\ isAccessValid(BaseAddress(id) + offset, n)
  /\ \A m \in mapped : m.base # BaseAddress(id)
  /\ mapped' = mapped \cup {[base |-> BaseAddress(id), data |-> Allocs[id].Data,
                             offset |-> offset, length |-> n]}
  /\ UNCHANGED <<Allocs, FreeList, heap, access>>

\* vkUnmapMemory: the host gives the pointers up.
Unmap(id) ==
  /\ mapped' = {m \in mapped : m.base # BaseAddress(id)}
  /\ UNCHANGED <<Allocs, FreeList, heap, access>>

\* The host writes through a mapped pointer, past Memory: it means to store at
\* the address it mapped.
HostWrite(m, i, v) ==
  /\ i < m.length
  /\ heap' = [heap EXCEPT ![m.data] = Overwrite(@, m.offset + i, <<v>>)]
  /\ Done("store", m.base + m.offset + i, <<v>>, 0, TRUE)
  /\ UNCHANGED <<Allocs, FreeList, mapped>>

Next ==
  \/ \E n \in Sizes : AllocateReused(n) \/ AllocateNew(n)
  \/ \E id \in LiveIds : Release(id) \/ Unmap(id)
  \/ \E id \in LiveIds, n \in Lengths, offset \in 0..(OffsetSpan - 1) : Map(id, offset, n)
  \/ \E a \in Address, n \in Lengths : Load(a, n)
  \/ \E a \in Address, n \in Lengths : \E data \in [1..n -> Value] : Store(a, data)
  \/ \E a, b \in Address, n \in Lengths : Copy(a, b, n)
  \/ \E a \in Address, v \in Value : \/ Atomic(a, "exchange", v, 0)
                                      \/ Atomic(a, "iadd", v, 0)
                                      \/ \E c \in Value : Atomic(a, "cmpxchg", v, c)
  \/ \E m \in mapped, v \in Value : \E i \in 0..(m.length - 1) : HostWrite(m, i, v)

Spec == Init /\ [][Next]_vars

-------------------------------------------------------------------------------
\* The identifiers to reuse are those that hold no buffer, each of them once:
\* no identifier is handed out twice and none is lost.
FreeListExact ==
  /\ TypeOK
  /\ \A i, j \in 1..Len(FreeList) : FreeList[i] = FreeList[j] => i = j
  /\ {FreeList[i] : i \in 1..Len(FreeList)} = (1..Len(Allocs)) \ LiveIds

\* Two buffers never share host memory, a live buffer never points at memory
\* that was freed, and its host memory is as long as isAccessValid assumes.  A
\* pointer the host has mapped stays the memory of its buffer for as long as the
\* host may use it, whatever else is allocated and released meanwhile.
DataOwned ==
  /\ \A i \in LiveIds : /\ Allocs[i].Data \in DOMAIN heap
                        /\ Len(heap[Allocs[i].Data]) = Allocs[i].NumBytes
  /\ \A i, j \in LiveIds : Allocs[i].Data = Allocs[j].Data => i = j
  /\ \A m \in mapped : \E id \in LiveIds :
       /\ BaseAddress(id) = m.base /\ Allocs[id].Data = m.data
       /\ m.offset + m.length <= Allocs[id].NumBytes

\* Memory keeps the promises of AddressSpace: the buffer at a base address is
\* what the pointer of its identifier points at.
BufferAt ==
  [b \in {BaseAddress(id) : id \in LiveIds} |->
     heap[Allocs[CHOOSE id \in LiveIds : BaseAddress(id) = b].Data]]
Space == INSTANCE AddressSpace WITH buffers <- BufferAt
ImplementsAddressSpace == Space!Spec
=============================================================================
