--------------------------------- MODULE Types ---------------------------------
(*****************************************************************************)
(* The types of a shader, the objects that hold its values and their layout  *)
(* in bytes (lib/talvos/Type.cpp, Object.cpp).                               *)
(*                                                                           *)
(* A byte is a number below Byte.  A type is a record with its size; an      *)
(* object is its type, its bytes and, if it is a pointer, the layout of the  *)
(* matrix it points into and the buffers of the descriptor array it stands   *)
(* for.  The bytes of a pointer are <<the buffer, the offset into it>>, and  *)
(* buffer 0 is none.  A runtime array is an array of as many elements as its *)
(* buffer holds.                                                             *)
(*****************************************************************************)
EXTENDS Integers, SequencesExt

CONSTANT Byte
ASSUME ByteAssumption == Byte \in Nat /\ Byte > 1

BoolType        == [kind |-> "bool", size |-> 1]
IntType(size)   == [kind |-> "int", size |-> size]
FloatType(size) == [kind |-> "float", size |-> size]
VectorType(t, n) == [kind |-> "vector", count |-> n, elem |-> t, size |-> n * t.size]
MatrixType(t, n) == [kind |-> "matrix", count |-> n, elem |-> t, size |-> n * t.size]
ArrayType(t, n, stride) ==
  [kind |-> "array", count |-> n, elem |-> t, stride |-> stride, size |-> n * stride]
PointerType(class, t, stride) ==
  [kind |-> "pointer", class |-> class, elem |-> t, stride |-> stride, size |-> 2]

\* PtrMatrixLayout; a stride of zero says that there is none.
NoLayout == [order |-> "ROW_MAJOR", stride |-> 0]
Layout(order, stride) == [order |-> order, stride |-> stride]

\* A member of a structure: its type, the matrix layout that decorates it, and the
\* offset that does, or Follows for the place after the member before.
Follows == -1
Member(t, offset, layout) == [type |-> t, offset |-> offset, layout |-> layout]
MemberSize(m) ==
  IF m.type.kind = "matrix" /\ m.layout.stride # 0
  THEN m.layout.stride * (IF m.layout.order = "COL_MAJOR" THEN m.type.count
                                                          ELSE m.type.elem.count)
  ELSE m.type.size
StructType(members) ==
  LET start(k, end) == IF members[k].offset = Follows THEN end ELSE members[k].offset
      ends[k \in 0..Len(members)] ==
        IF k = 0 THEN 0 ELSE start(k, ends[k - 1]) + MemberSize(members[k])
  IN [kind |-> "struct", count |-> Len(members), members |-> members,
      offsets |-> [k \in DOMAIN members |-> start(k, ends[k - 1])],
      size |-> ends[Len(members)]]

ScalarType(t) == IF t.kind = "vector" THEN t.elem ELSE t
Components(t) == IF t.kind = "vector" THEN t.count ELSE 1

\* Elements are counted from 0.
ElementType(t, i) == IF t.kind = "struct" THEN t.members[i + 1].type ELSE t.elem
\* Fault: the elements of an array follow one another without gaps.
ElementOffsetTight(t, i) ==
  IF t.kind = "struct" THEN t.offsets[i + 1] ELSE i * t.elem.size
ElementOffset(t, i) ==
  CASE t.kind = "struct" -> t.offsets[i + 1]
    [] t.kind \in {"vector", "matrix"} -> i * t.elem.size
    [] t.kind \in {"array", "pointer"} -> i * t.stride

-------------------------------------------------------------------------------
\* The number that little-endian bytes stand for, and the bytes of a number.
Number(bytes) == FoldRight(LAMBDA b, v : b + Byte * v, bytes, 0)
Bytes(v, size) == [i \in 1..size |-> ((v % Byte^size) \div Byte^(i - 1)) % Byte]

Object(t, data)   == [type |-> t, data |-> data, layout |-> NoLayout, elements |-> <<>>]
Scalar(t, v)      == Object(t, Bytes(v, t.size))
PointerTo(t, at)  == Object(t, at)
\* An object whose bytes have never been written.
Blank(t, garbage) == Object(t, [k \in 1..t.size |-> garbage])

Part(data, at, size) == SubSeq(data, at + 1, at + size)
Overwritten(data, at, bytes) ==
  [k \in DOMAIN data |-> IF k - at \in DOMAIN bytes THEN bytes[k - at] ELSE data[k]]

\* Where a list of indices leads to in an object: an offset and a type.
Reached(t, indices) ==
  FoldLeft(LAMBDA r, i : [at |-> r.at + ElementOffset(r.type, i),
                          type |-> ElementType(r.type, i)],
           [at |-> 0, type |-> t], indices)
Extract(o, indices) ==
  LET r == Reached(o.type, indices) IN Object(r.type, Part(o.data, r.at, r.type.size))
Insert(o, indices, e) ==
  [o EXCEPT !.data = Overwritten(@, Reached(o.type, indices).at, e.data)]
Get(o, i) ==
  LET size == ScalarType(o.type).size IN Number(Part(o.data, i * size, size))

-------------------------------------------------------------------------------
\* The accesses that Object::load and Object::store make to the memory behind a
\* pointer: one, or with a matrix layout one for each scalar.  An access has its
\* place in the object, its offset from the pointer and its size.
\* Fault: the rows and columns of a row-major matrix are confused.
AccessesColumns(t, layout) ==
  IF layout.stride = 0 THEN {[in |-> 0, out |-> 0, size |-> t.size]}
  ELSE LET column == IF t.kind = "matrix" THEN t.elem ELSE t
           size   == column.elem.size
       IN {[in |-> c * column.size + r * size, out |-> c * layout.stride + r * size,
            size |-> size] : c \in 0..((t.size \div column.size) - 1),
                             r \in 0..(column.count - 1)}
Accesses(t, layout) ==
  IF layout.stride = 0 THEN {[in |-> 0, out |-> 0, size |-> t.size]}
  ELSE LET column == IF t.kind = "matrix" THEN t.elem ELSE t
           size   == column.elem.size
           across == IF layout.order = "COL_MAJOR" THEN layout.stride ELSE size
           down   == IF layout.order = "COL_MAJOR" THEN size ELSE layout.stride
       IN {[in |-> c * column.size + r * size, out |-> c * across + r * down,
            size |-> size] : c \in 0..((t.size \div column.size) - 1),
                             r \in 0..(column.count - 1)}
Covers(start, size, k) == k \in start..(start + size - 1)

\* Memory::load leaves zeros where an access is not valid, Memory::store nothing.
\* contents: the bytes of the buffer that the pointer names.
LoadedFrom(contents, t, pointer) ==
  LET at == pointer.data[2]
      byte(k) == LET a == CHOOSE x \in Accesses(t, pointer.layout) : Covers(x.in, x.size, k)
                 IN IF at + a.out + a.size <= Len(contents)
                    THEN contents[at + a.out + (k - a.in) + 1] ELSE 0
  IN Object(t, [k \in 1..t.size |-> byte(k - 1)])
StoredTo(contents, o, pointer) ==
  LET at == pointer.data[2]
      writes(k) == {a \in Accesses(o.type, pointer.layout) :
                      Covers(at + a.out, a.size, k) /\ at + a.out + a.size <= Len(contents)}
  IN [k \in DOMAIN contents |->
        IF writes(k - 1) = {} THEN contents[k]
        ELSE LET a == CHOOSE x \in writes(k - 1) : TRUE
             IN o.data[a.in + (k - 1 - at - a.out) + 1]]
=================================================================================
