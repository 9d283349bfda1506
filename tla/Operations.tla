------------------------------- MODULE Operations -------------------------------
(*****************************************************************************)
(* The handlers of Invocation that compute an object from objects.           *)
(*****************************************************************************)
EXTENDS Shader

\* executeOp: component by component.
EachComponent(fn, t, args) ==
  LET of == ScalarType(args[1].type)
      to == ScalarType(t)
  IN Object(t, FlattenSeq([i \in 1..Components(t) |->
       Bytes(Applied(fn, of, to, [j \in DOMAIN args |-> Get(args[j], i - 1)]), to.size)]))
Float(of, o, i) == Signed(of, Get(o, i))
\* The sum over the components i of a vector of its product with another's.
DotProduct(of, a, b) ==
  Bytes(FoldLeft(LAMBDA r, i : FAdd(of, r, FMul(of, Float(of, a, i - 1), Float(of, b, i - 1))),
                 0, [i \in 1..Components(a.type) |-> i]), of.size)
Column(m, c) == Extract(m, <<c>>)
Row(m, r) == Object(VectorType(m.type.elem.elem, m.type.count),
                    FlattenSeq([c \in 1..m.type.count |-> Extract(m, <<c - 1, r>>).data]))
Scaled(o, of, scalar) ==
  Object(o.type, FlattenSeq([i \in 1..(o.type.size \div of.size) |->
    LET v == Number(Part(o.data, (i - 1) * of.size, of.size))
    IN Bytes(FMul(of, Signed(of, v), scalar), of.size)]))

\* A handler that makes an object from objects; `garbage` fills what it leaves
\* uninitialized.
\* Fault: executeVectorShuffle takes the components of the second vector from their
\* places in both.
ShuffledUnshifted(t, vec1, vec2, indices, garbage) ==
  Object(t, FlattenSeq([i \in DOMAIN indices |->
    CASE indices[i] = Null -> Blank(t.elem, garbage).data
      [] indices[i] # Null /\ indices[i] < vec1.type.count -> Extract(vec1, <<indices[i]>>).data
      [] OTHER -> Extract(vec2, <<indices[i] % vec2.type.count>>).data]))
Shuffled(t, vec1, vec2, indices, garbage) ==
  Object(t, FlattenSeq([i \in DOMAIN indices |->
    IF indices[i] = Null THEN Blank(t.elem, garbage).data
    ELSE IF indices[i] < vec1.type.count THEN Extract(vec1, <<indices[i]>>).data
    ELSE Extract(vec2, <<indices[i] - vec1.type.count>>).data]))
Constructed(t, parts, garbage) ==
  FoldLeft(LAMBDA o, i : Insert(o, <<i - 1>>, parts[i]), Blank(t, garbage),
           [i \in DOMAIN parts |-> i])
Component(vector, index) == Extract(vector, <<Get(index, 0)>>)
WithComponent(vector, component, index) == Insert(vector, <<Get(index, 0)>>, component)
Select(t, condition, a, b) ==
  IF condition.type.kind = "bool" THEN IF Get(condition, 0) = 1 THEN a ELSE b
  ELSE Object(t, FlattenSeq([i \in 1..t.count |->
         Extract(IF Get(condition, i - 1) = 1 THEN a ELSE b, <<i - 1>>).data]))
AllHold(a) == \A i \in 1..a.type.count : Get(a, i - 1) = 1
AnyHolds(a) == \E i \in 1..a.type.count : Get(a, i - 1) = 1
MatrixTimesVector(t, m, v) ==
  Object(t, FlattenSeq([r \in 1..t.count |-> DotProduct(t.elem, v, Row(m, r - 1))]))
VectorTimesMatrix(t, v, m) ==
  Object(t, FlattenSeq([c \in 1..t.count |-> DotProduct(t.elem, v, Column(m, c - 1))]))
Computed(J, args, garbage) ==
  LET t == J.type
      a == args[1]
      b == args[2]
  IN CASE J.fn = "CopyObject" -> a
       [] J.fn = "Undef" -> Blank(t, garbage)
       [] J.fn = "Bitcast" -> Object(t, a.data)
       [] J.fn = "CompositeConstruct" -> Constructed(t, args, garbage)
       [] J.fn = "CompositeExtract" -> Extract(a, J.indices)
       [] J.fn = "CompositeInsert" -> Insert(b, J.indices, a)
       [] J.fn = "VectorExtractDynamic" -> Component(a, b)
       [] J.fn = "VectorInsertDynamic" -> WithComponent(a, b, args[3])
       [] J.fn = "VectorShuffle" -> Shuffled(t, a, b, J.indices, garbage)
       [] J.fn = "Select" -> Select(t, a, b, args[3])
       [] J.fn = "All" -> Scalar(t, Holds(AllHold(a)))
       [] J.fn = "Any" -> Scalar(t, Holds(AnyHolds(a)))
       [] J.fn = "Dot" -> Object(t, DotProduct(t, a, b))
       [] J.fn = "VectorTimesScalar" -> Scaled(a, t.elem, Float(t.elem, b, 0))
       [] J.fn = "MatrixTimesScalar" -> Scaled(a, b.type, Float(b.type, b, 0))
       [] J.fn = "MatrixTimesVector" -> MatrixTimesVector(t, a, b)
       [] J.fn = "VectorTimesMatrix" -> VectorTimesMatrix(t, a, b)
       [] OTHER -> EachComponent(J.fn, t, args)
=================================================================================
