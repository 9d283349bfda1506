------------------------------ MODULE Draw_proofs ------------------------------
(****************************************************************************)
(* Proofs about Draw, for any draw command: any topology, number of vertices*)
(* and instances, indices and offsets, with vertices at any integer places, *)
(* framebuffers and scissors of any size.  DrawInv is about what is         *)
(* assembled; then come the geometry of a sample and a triangle, the pixels *)
(* of a bounding box, and FrameInv, which is about what is shown.           *)
(****************************************************************************)
EXTENDS Draw, FiniteSetTheorems, SequenceTheorems, TLAPS

(* A number below the span is its own remainder.                            *)
LEMMA Unwrapped ==
  ASSUME NEW n \in Nat, NEW d \in Nat \ {0}, n < d
  PROVE  n % d = n
OBVIOUS

(* The number of a primitive is the instance it belongs to and its place in *)
(* that instance.                                                           *)
LEMMA InstanceAndPlace ==
  ASSUME NEW c \in Nat \ {0}, NEW i \in Nat, NEW q \in 0..(c - 1)
  PROVE  (i * c + q) \div c = i /\ (i * c + q) % c = q
<1> DEFINE a == i * c + q
           d == a \div c
           r == a % c
<1>1. i * c \in Nat /\ a \in Nat /\ q < c /\ 0 <= q
  OBVIOUS
<1>2. d \in Nat /\ r \in 0..(c - 1) /\ a = c * d + r
  BY <1>1
<1>3. c * d = d * c /\ d * c \in Nat
  BY <1>2
<1> HIDE DEF d, r
<1>4. d * c + r = i * c + q
  BY <1>2, <1>3
<1>5. ~(d < i)
  <2> SUFFICES ASSUME d + 1 <= i PROVE FALSE
    BY <1>2
  <2>1. (d + 1) * c <= i * c /\ (d + 1) * c = d * c + c
    BY <1>2
  <2> HIDE DEF a
  <2> QED  BY <1>1, <1>2, <1>3, <1>4, <2>1
<1>6. ~(i < d)
  <2> SUFFICES ASSUME i + 1 <= d PROVE FALSE
    BY <1>2
  <2>1. (i + 1) * c <= d * c /\ (i + 1) * c = i * c + c
    BY <1>2
  <2> HIDE DEF a
  <2> QED  BY <1>1, <1>2, <1>3, <1>4, <2>1
<1>7. d = i
  BY <1>2, <1>5, <1>6
<1>8. r = q
  BY <1>2, <1>3, <1>4, <1>7
<1> QED  BY <1>7, <1>8 DEF d, r

-------------------------------------------------------------------------------
(* The invariant.                                                           *)

Types ==
  /\ draw \in Draws /\ Instance \in Nat /\ NextWorkIndex \in Nat /\ next \in Nat
  /\ pc \in {"instance", "vertex", "primitive", "fragment", "done", "crashed"}
  /\ DOMAIN VertexOutputs = Vertices
  /\ assembled \in Seq([instance : Nat, of : Seq(Int)])

\* The output of a vertex is that of this instance.
IsFresh(v) == VertexOutputs[v] = [vertex |-> VertexIndex(v),
                                  instance |-> Instance + draw.instanceOffset]
OutputsFresh ==
  /\ pc = "vertex" => \A v \in Vertices : v < NextWorkIndex => IsFresh(v)
  /\ pc \in {"primitive", "fragment"} => \A v \in Vertices : IsFresh(v)

\* The primitives so far are those of the instances that are done, and of this one
\* those up to next.
Before(i) == IF draw.discard THEN 0 ELSE i * Count
InPlace ==
  /\ pc = "done" => Instance = draw.numInstances
  /\ pc \in {"instance", "vertex", "done"} => Len(assembled) = Before(Instance)
  /\ pc \in {"primitive", "fragment"} => ~draw.discard
  /\ pc = "primitive" => \E q \in 0..Count : /\ next = FirstPrimitive + Stride * q
                                             /\ Len(assembled) = Instance * Count + q
  /\ pc = "fragment" => \E q \in 0..(Count - 1) : /\ next = FirstPrimitive + Stride * q
                                                  /\ Len(assembled) = Instance * Count + q + 1
AllSpecified ==
  \A i \in DOMAIN assembled : /\ assembled[i].instance = (i - 1) \div Count
                              /\ assembled[i].of = Specified((i - 1) % Count)

DrawInv == Types /\ OutputsFresh /\ InPlace /\ AllSpecified

(* The parameters of a command.                                             *)
LEMMA Parameters ==
  ASSUME draw \in Draws
  PROVE  /\ draw.topology \in Topology /\ draw.numVertices \in Nat /\ draw.numInstances \in Nat
         /\ draw.instanceOffset \in Nat /\ draw.indexed \in BOOLEAN /\ draw.vertexOffset \in Int
         /\ draw.indexOffset \in Nat /\ draw.discard \in BOOLEAN
BY DrawAssumption

(* How many primitives there are in an instance.                            *)
LEMMA CountIs ==
  ASSUME draw \in Draws
  PROVE  /\ Count \in Nat /\ FirstPrimitive \in Nat /\ Stride \in {1, 3}
         /\ \A q \in Nat : FirstPrimitive + Stride * q >= draw.numVertices => q >= Count
<1> DEFINE n == draw.numVertices
<1>1. draw.topology \in Topology /\ n \in Nat
  BY Parameters
<1>2. CASE draw.topology = "points"
  <2>1. Count = n /\ FirstPrimitive = 0 /\ Stride = 1
    BY <1>2 DEF Count, FirstPrimitive, Stride
  <2> QED  BY <1>1, <2>1
<1>3. CASE draw.topology = "list"
  <2>1. Count = n \div 3 /\ FirstPrimitive = 0 /\ Stride = 3
    BY <1>3 DEF Count, FirstPrimitive, Stride
  <2>2. n \div 3 \in Nat /\ 3 * (n \div 3) <= n
    BY <1>1
  <2> QED  BY <1>1, <2>1, <2>2
<1>4. CASE draw.topology \in {"strip", "fan"}
  <2>1. Count = (IF n < 2 THEN 0 ELSE n - 2) /\ FirstPrimitive = 2 /\ Stride = 1
    BY <1>4 DEF Count, FirstPrimitive, Stride
  <2> QED  BY <1>1, <2>1
<1> QED  BY <1>1, <1>2, <1>3, <1>4 DEF Topology

(* The primitive at the place q of the loop is the q-th one of the          *)
(* topology, and there is such a one.                                       *)
LEMMA PrimitiveIs ==
  ASSUME draw \in Draws, NEW q \in Nat, next = FirstPrimitive + Stride * q,
         next < draw.numVertices, \A i \in DOMAIN Primitive(next) : Primitive(next)[i] \in Vertices
  PROVE  /\ q < Count /\ Primitive(next) = Specified(q) /\ Primitive(next) \in Seq(Int)
<1> DEFINE n == draw.numVertices
<1>1. draw.topology \in Topology /\ n \in Nat /\ next \in Nat
  BY Parameters, CountIs
<1>2. CASE draw.topology = "points"
  <2>1. Count = n /\ next = q
    BY <1>2 DEF Count, FirstPrimitive, Stride
  <2>2. Primitive(next) = <<q>> /\ Specified(q) = <<q>>
    BY <1>2, <2>1 DEF Primitive, Specified
  <2>3. <<q>> \in Seq(Int) /\ q < n
    BY <1>1, <2>1
  <2> QED  BY <2>1, <2>2, <2>3
<1>3. CASE draw.topology = "list"
  <2>1. Count = n \div 3 /\ next = 3 * q
    BY <1>3 DEF Count, FirstPrimitive, Stride
  <2>2. Primitive(next) = <<3 * q, 3 * q + 1, 3 * q + 2>> /\ Specified(q) = Primitive(next)
    BY <1>3, <2>1 DEF Primitive, Specified
  <2>3. 3 * q + 2 \in 0..(n - 1)
    <3>1. 3 \in DOMAIN Primitive(next) /\ Primitive(next)[3] = 3 * q + 2
      BY <2>2
    <3> QED  BY <3>1 DEF Vertices
  <2>4. q < n \div 3
    BY <1>1, <2>3
  <2>5. <<3 * q, 3 * q + 1, 3 * q + 2>> \in Seq(Int)
    OBVIOUS
  <2> QED  BY <2>1, <2>2, <2>4, <2>5
<1>4. CASE draw.topology = "strip"
  <2>1. Count = (IF n < 2 THEN 0 ELSE n - 2) /\ next = q + 2
    BY <1>4 DEF Count, FirstPrimitive, Stride
  <2>2. q < Count
    BY <1>1, <2>1
  <2>3. CASE q % 2 = 0
    <3>1. next % 2 = 0
      BY <2>1, <2>3
    <3>2. Primitive(next) = <<q, q + 1, q + 2>>
      BY <1>4, <2>1, <3>1 DEF Primitive
    <3>3. Specified(q) = <<q, q + 1, q + 2>>
      BY <1>4, <2>3 DEF Specified
    <3>4. <<q, q + 1, q + 2>> \in Seq(Int)
      OBVIOUS
    <3> QED  BY <2>2, <3>2, <3>3, <3>4
  <2>4. CASE q % 2 # 0
    <3>1. next % 2 # 0 /\ q % 2 = 1
      BY <2>1, <2>4
    <3>2. Primitive(next) = <<q, q + 2, q + 1>>
      BY <1>4, <2>1, <3>1 DEF Primitive
    <3>3. Specified(q) = <<q, q + 2, q + 1>>
      BY <1>4, <3>1 DEF Specified
    <3>4. <<q, q + 2, q + 1>> \in Seq(Int)
      OBVIOUS
    <3> QED  BY <2>2, <3>2, <3>3, <3>4
  <2> QED  BY <2>3, <2>4
<1>5. CASE draw.topology = "fan"
  <2>1. Count = (IF n < 2 THEN 0 ELSE n - 2) /\ next = q + 2
    BY <1>5 DEF Count, FirstPrimitive, Stride
  <2>2. Primitive(next) = <<q + 1, q + 2, 0>> /\ Specified(q) = <<q + 1, q + 2, 0>>
    BY <1>5, <2>1 DEF Primitive, Specified
  <2>3. <<q + 1, q + 2, 0>> \in Seq(Int) /\ q < Count
    BY <1>1, <2>1
  <2> QED  BY <2>2, <2>3
<1> QED  BY <1>1, <1>2, <1>3, <1>4, <1>5 DEF Topology

(* At the start of a draw nothing is assembled.                             *)
LEMMA InitHolds == Init => DrawInv
<1> SUFFICES ASSUME Init PROVE DrawInv
  OBVIOUS
<1>1. Types
  BY DEF Init, Types
<1>2. OutputsFresh
  BY DEF Init, OutputsFresh
<1>3. InPlace
  BY <1>1, CountIs DEF Init, InPlace, Before, Types
<1>4. AllSpecified
  BY DEF Init, AllSpecified
<1> QED  BY <1>1, <1>2, <1>3, <1>4 DEF DrawInv

(* What is assembled stays as specified while nothing is assembled.         *)
LEMMA SpecifiedKept ==
  ASSUME AllSpecified, UNCHANGED <<draw, assembled>>
  PROVE  AllSpecified'
BY DEF AllSpecified, Count, Specified

(* The steps of the loop over instances.                                    *)
LEMMA InstanceStep ==
  ASSUME DrawInv, StartInstance \/ Discard \/ InstanceDone \/ Stop \/ StopFails
  PROVE  DrawInv'
<1> USE DEF DrawInv
<1>1. UNCHANGED <<draw, next, VertexOutputs, assembled>>
  BY DEF StartInstance, Discard, InstanceDone, Stop, StopFails, Crash
<1>2. Types'
  BY <1>1 DEF Types, Vertices, StartInstance, Discard, InstanceDone, Stop, StopFails, Crash
<1>3. OutputsFresh'
  <2>1. CASE StartInstance
    BY <1>1, <2>1 DEF StartInstance, OutputsFresh, Vertices
  <2>2. CASE Discard \/ InstanceDone \/ Stop \/ StopFails
    BY <2>2 DEF OutputsFresh, Discard, InstanceDone, Stop, StopFails, Crash
  <2> QED  BY <2>1, <2>2
<1>4. AllSpecified'
  BY <1>1, SpecifiedKept
<1>5. Count' = Count /\ Count \in Nat /\ Instance \in Nat /\ draw.discard \in BOOLEAN
  BY <1>1, CountIs, Parameters DEF Types, Count
<1>6. InPlace'
  <2>1. CASE StartInstance \/ Stop \/ StopFails
    BY <1>1, <1>5, <2>1 DEF InPlace, Before, StartInstance, Stop, StopFails, Crash
  <2>2. CASE Discard
    BY <1>1, <1>5, <2>2 DEF InPlace, Before, Discard
  <2>3. CASE InstanceDone
    <3>1. PICK q \in 0..Count : /\ next = FirstPrimitive + Stride * q
                                /\ Len(assembled) = Instance * Count + q
      BY <2>3 DEF InstanceDone, InPlace
    <3>2. q = Count
      BY <1>5, <2>3, <3>1, CountIs DEF InstanceDone, Types
    <3>3. Len(assembled) = (Instance + 1) * Count
      BY <1>5, <3>1, <3>2
    <3> QED  BY <1>1, <1>5, <2>3, <3>3 DEF InPlace, Before, InstanceDone
  <2> QED  BY <2>1, <2>2, <2>3
<1> QED  BY <1>2, <1>3, <1>4, <1>6

(* A vertex is shaded for this instance.                                    *)
LEMMA VertexStep ==
  ASSUME DrawInv, ShadeVertex
  PROVE  DrawInv'
<1> USE DEF DrawInv
<1>1. /\ pc = "vertex" /\ NextWorkIndex < draw.numVertices /\ NextWorkIndex' = NextWorkIndex + 1
      /\ VertexOutputs' = [VertexOutputs EXCEPT ![NextWorkIndex] =
           [vertex |-> VertexIndex(NextWorkIndex), instance |-> Instance + draw.instanceOffset]]
      /\ UNCHANGED <<draw, pc, Instance, next, assembled>>
  BY DEF ShadeVertex
<1>2. NextWorkIndex \in Vertices /\ draw.numVertices \in Nat
  BY <1>1, Parameters DEF Types, Vertices
<1>3. Types'
  BY <1>1 DEF Types, Vertices
<1>4. ASSUME NEW v \in Vertices, v < NextWorkIndex' PROVE IsFresh(v)'
  <2>1. VertexIndex(v)' = VertexIndex(v)
    BY <1>1 DEF VertexIndex
  <2>2. CASE v = NextWorkIndex
    BY <1>1, <1>2, <2>1, <2>2 DEF IsFresh, Types
  <2>3. CASE v # NextWorkIndex
    <3>1. v < NextWorkIndex
      BY <1>1, <1>2, <1>4, <2>3 DEF Vertices
    <3>2. IsFresh(v) /\ VertexOutputs'[v] = VertexOutputs[v]
      BY <1>1, <2>3, <3>1 DEF OutputsFresh, Types
    <3> QED  BY <1>1, <2>1, <3>2 DEF IsFresh
  <2> QED  BY <2>2, <2>3
<1>5. OutputsFresh'
  BY <1>1, <1>4 DEF OutputsFresh, Vertices
<1>6. InPlace'
  BY <1>1 DEF InPlace, Before, Count
<1> QED  BY <1>1, <1>3, <1>5, <1>6, SpecifiedKept

(* Steps that leave the vertices alone keep their outputs fresh.            *)
LEMMA FreshKept ==
  ASSUME OutputsFresh, UNCHANGED <<draw, Instance, VertexOutputs>>,
         pc \in {"primitive", "fragment"}
  PROVE  pc' # "vertex" => OutputsFresh'
<1>1. \A v : IsFresh(v)' <=> IsFresh(v)
  BY DEF IsFresh, VertexIndex
<1> QED  BY <1>1 DEF OutputsFresh, Vertices

(* The loop over the primitives of an instance starts.                      *)
LEMMA VerticesDoneStep ==
  ASSUME DrawInv, VerticesDone
  PROVE  DrawInv'
<1> USE DEF DrawInv
<1>1. /\ pc = "vertex" /\ pc' = "primitive" /\ NextWorkIndex >= draw.numVertices /\ ~draw.discard
      /\ next' = FirstPrimitive
      /\ UNCHANGED <<draw, Instance, NextWorkIndex, VertexOutputs, assembled>>
  BY DEF VerticesDone
<1>2. Count \in Nat /\ Count' = Count /\ FirstPrimitive \in Nat /\ Stride \in {1, 3}
      /\ draw.numVertices \in Nat
  BY <1>1, CountIs, Parameters DEF Types, Count
<1>3. Types'
  BY <1>1, <1>2 DEF Types, Vertices
<1>4. OutputsFresh'
  <2>1. \A v \in Vertices : v < NextWorkIndex
    BY <1>1, <1>2 DEF Vertices, Types
  <2>2. \A v : IsFresh(v)' <=> IsFresh(v)
    BY <1>1 DEF IsFresh, VertexIndex
  <2> QED  BY <1>1, <2>1, <2>2 DEF OutputsFresh, Vertices
<1>5. InPlace'
  <2>1. FirstPrimitive' = FirstPrimitive /\ Stride' = Stride
    BY <1>1 DEF FirstPrimitive, Stride
  <2>2. 0 \in 0..Count /\ next' = FirstPrimitive + Stride * 0
    BY <1>1, <1>2
  <2>3. Len(assembled') = Instance' * Count + 0
    BY <1>1, <1>2 DEF InPlace, Before, Types
  <2> QED  BY <1>1, <1>2, <2>1, <2>2, <2>3 DEF InPlace
<1> QED  BY <1>1, <1>3, <1>4, <1>5, SpecifiedKept

(* The next primitive is the one that the topology demands.                 *)
LEMMA StartPrimitiveStep ==
  ASSUME DrawInv, StartPrimitive
  PROVE  DrawInv'
<1> USE DEF DrawInv
<1>1. /\ pc = "primitive" /\ pc' = "fragment" /\ next < draw.numVertices /\ NextWorkIndex' = 0
      /\ \A i \in DOMAIN Primitive(next) : Primitive(next)[i] \in Vertices
      /\ assembled' = Append(assembled, [instance |-> Instance, of |-> Primitive(next)])
      /\ UNCHANGED <<draw, Instance, next, VertexOutputs>>
  BY DEF StartPrimitive
<1>2. PICK q \in 0..Count : /\ next = FirstPrimitive + Stride * q
                            /\ Len(assembled) = Instance * Count + q
  BY <1>1 DEF InPlace
<1>3. Count \in Nat /\ Count' = Count /\ Instance \in Nat /\ q \in Nat
  BY <1>1, CountIs DEF Types, Count
<1>4. q < Count /\ Primitive(next) = Specified(q) /\ Primitive(next) \in Seq(Int)
  BY <1>1, <1>2, <1>3, PrimitiveIs DEF Types
<1>5. /\ Len(assembled') = Len(assembled) + 1 /\ DOMAIN assembled' = 1..(Len(assembled) + 1)
      /\ \A i \in 1..Len(assembled) : assembled'[i] = assembled[i]
      /\ assembled'[Len(assembled) + 1] = [instance |-> Instance, of |-> Primitive(next)]
      /\ assembled' \in Seq([instance : Nat, of : Seq(Int)])
  <2> DEFINE e == [instance |-> Instance, of |-> Primitive(next)]
  <2>1. e \in [instance : Nat, of : Seq(Int)]
    BY <1>3, <1>4
  <2> HIDE DEF e
  <2> QED  BY <1>1, <2>1, AppendProperties DEF Types, e
<1>6. Types'
  BY <1>1, <1>5 DEF Types, Vertices
<1>7. OutputsFresh'
  BY <1>1, FreshKept
<1>8. InPlace'
  <2>1. FirstPrimitive' = FirstPrimitive /\ Stride' = Stride
    BY <1>1 DEF FirstPrimitive, Stride
  <2>2. /\ q \in 0..(Count' - 1) /\ next' = FirstPrimitive' + Stride' * q
        /\ Len(assembled') = Instance' * Count' + q + 1
    BY <1>1, <1>2, <1>3, <1>4, <1>5, <2>1
  <2> QED  BY <1>1, <2>2 DEF InPlace
<1>9. AllSpecified'
  <2>1. ASSUME NEW i \in DOMAIN assembled'
        PROVE  /\ assembled'[i].instance = (i - 1) \div Count
               /\ assembled'[i].of = Specified((i - 1) % Count)
    <3>1. CASE i \in 1..Len(assembled)
      <4>1. i \in DOMAIN assembled
        BY <3>1 DEF Types
      <4>2. assembled'[i] = assembled[i]
        BY <1>5, <3>1
      <4> QED  BY <4>1, <4>2 DEF AllSpecified
    <3>2. CASE i = Len(assembled) + 1
      <4>1. i - 1 = Instance * Count + q
        BY <1>2, <1>3, <3>2
      <4>2. (i - 1) \div Count = Instance /\ (i - 1) % Count = q
        <5>1. Count \in Nat \ {0} /\ q \in 0..(Count - 1)
          BY <1>3, <1>4
        <5>2. Instance \in Nat
          BY <1>3
        <5>3. /\ (Instance * Count + q) \div Count = Instance
              /\ (Instance * Count + q) % Count = q
          BY <5>1, <5>2, InstanceAndPlace
        <5> QED  BY <4>1, <5>3
      <4> QED  BY <1>4, <1>5, <3>2, <4>2
    <3> QED  BY <1>5, <3>1, <3>2
  <2>2. \A k : Specified(k)' = Specified(k)
    BY <1>1 DEF Specified
  <2> QED  BY <1>3, <2>1, <2>2 DEF AllSpecified
<1> QED  BY <1>6, <1>7, <1>8, <1>9

(* The fragments of a primitive, the step to the next one, and the crash.   *)
LEMMA FragmentStep ==
  ASSUME DrawInv, ShadeFragment \/ PrimitiveDone \/ PastTheEnd
  PROVE  DrawInv'
<1> USE DEF DrawInv
<1>1. /\ UNCHANGED <<draw, Instance, VertexOutputs, assembled>>
      /\ pc \in {"primitive", "fragment"} /\ pc' # "vertex"
  BY DEF ShadeFragment, PrimitiveDone, PastTheEnd, Crash
<1>2. Count \in Nat /\ Count' = Count /\ Stride \in {1, 3} /\ Stride' = Stride
      /\ FirstPrimitive \in Nat /\ FirstPrimitive' = FirstPrimitive
  BY <1>1, CountIs DEF Types, Count, Stride, FirstPrimitive
<1>3. Types'
  BY <1>1, <1>2 DEF Types, Vertices, ShadeFragment, PrimitiveDone, PastTheEnd, Crash
<1>4. OutputsFresh'
  BY <1>1, FreshKept
<1>5. InPlace'
  <2>1. CASE ShadeFragment
    BY <1>1, <1>2, <2>1 DEF InPlace, Before, ShadeFragment
  <2>2. CASE PastTheEnd
    BY <2>2 DEF InPlace, PastTheEnd, Crash
  <2>3. CASE PrimitiveDone
    <3>1. pc = "fragment" /\ pc' = "primitive" /\ next' = next + Stride
      BY <2>3 DEF PrimitiveDone
    <3>2. PICK q \in 0..(Count - 1) : /\ next = FirstPrimitive + Stride * q
                                      /\ Len(assembled) = Instance * Count + q + 1
      BY <3>1 DEF InPlace
    <3>3. /\ q + 1 \in 0..Count /\ next' = FirstPrimitive + Stride * (q + 1)
          /\ Len(assembled) = Instance * Count + (q + 1)
      <4>1. Instance * Count \in Nat
        BY <1>2 DEF Types
      <4> HIDE DEF DrawInv
      <4>2. Len(assembled) = Instance * Count + (q + 1)
        BY <1>2, <3>2, <4>1
      <4> QED  BY <1>2, <3>1, <3>2, <4>2
    <3> QED  BY <1>1, <1>2, <3>1, <3>3 DEF InPlace
  <2> QED  BY <2>1, <2>2, <2>3
<1> QED  BY <1>1, <1>3, <1>4, <1>5, SpecifiedKept

(* Every step keeps the invariant.                                          *)
LEMMA NextHolds == DrawInv /\ [Next]_vars => DrawInv'
<1> SUFFICES ASSUME DrawInv, [Next]_vars PROVE DrawInv'
  OBVIOUS
<1>1. CASE UNCHANGED vars
  <2> USE <1>1 DEF vars, DrawInv
  <2>1. Types'
    BY DEF Types, Vertices
  <2>2. OutputsFresh'
    BY DEF OutputsFresh, IsFresh, VertexIndex, Vertices
  <2>3. InPlace'
    BY DEF InPlace, Before, Count, FirstPrimitive, Stride
  <2> QED  BY <2>1, <2>2, <2>3, SpecifiedKept
<1> QED  BY <1>1, InstanceStep, VertexStep, VerticesDoneStep, StartPrimitiveStep, FragmentStep
         DEF Next, Ended

(* The invariant of draws.                                                  *)
LEMMA DrawInvHolds == Spec => []DrawInv
BY InitHolds, NextHolds, PTL DEF Spec

-------------------------------------------------------------------------------
(* Primitives are assembled from the outputs of the instance, and a vertex  *)
(* number that 32 bits can hold is the index plus the offset.               *)
THEOREM OutputsAreFresh == Spec => []FreshVertices
<1>1. ASSUME DrawInv PROVE FreshVertices
  <2> SUFFICES ASSUME pc \in {"primitive", "fragment"}, NEW v \in Vertices
               PROVE  /\ VertexOutputs[v] # Null
                      /\ VertexOutputs[v].instance = draw.instanceOffset + Instance
                      /\ LET n == draw.vertexOffset + (IF draw.indexed
                                    THEN draw.indices[draw.indexOffset + v + 1] ELSE v)
                         IN n \in 0..(NumberSpan - 1) => VertexOutputs[v].vertex = n
    BY DEF FreshVertices
  <2> DEFINE w == IF draw.indexed THEN draw.indices[v + draw.indexOffset + 1] ELSE v
  <2>1. IsFresh(v) /\ draw \in Draws /\ Instance \in Nat
    BY <1>1 DEF DrawInv, OutputsFresh, Types
  <2>2. /\ draw.instanceOffset \in Nat /\ draw.vertexOffset \in Int /\ draw.indexOffset \in Nat
        /\ draw.numVertices \in Nat /\ NumberSpan \in Nat \ {0}
    BY <2>1, Parameters, SizeAssumption
  <2>3. v \in Nat /\ v + draw.indexOffset + 1 = draw.indexOffset + v + 1
    BY <2>2 DEF Vertices
  <2>4. w \in Nat
    BY <2>1, <2>3, DrawAssumption DEF Vertices
  <2>5. VertexOutputs[v] = [vertex |-> VertexIndex(v), instance |-> Instance + draw.instanceOffset]
    BY <2>1 DEF IsFresh
  <2>6. VertexIndex(v) = (w + draw.vertexOffset) % NumberSpan
    BY DEF VertexIndex
  <2> HIDE DEF w
  <2>7. VertexIndex(v) \in Nat
    BY <2>2, <2>4, <2>6
  <2>8. VertexOutputs[v] # Null
    BY <2>1, <2>2, <2>5, <2>7, NullAssumption
  <2>9. ASSUME draw.vertexOffset + w \in 0..(NumberSpan - 1)
        PROVE  VertexOutputs[v].vertex = draw.vertexOffset + w
    <3>1. w + draw.vertexOffset = draw.vertexOffset + w
      BY <2>2, <2>4
    <3>2. (w + draw.vertexOffset) % NumberSpan = w + draw.vertexOffset
      BY <2>2, <2>9, <3>1, Unwrapped
    <3> QED  BY <2>5, <2>6, <3>1, <3>2
  <2> QED  BY <2>1, <2>2, <2>3, <2>5, <2>8, <2>9 DEF w
<1> QED  BY <1>1, DrawInvHolds, PTL

(* The primitives of a draw are those of the topology, instance after       *)
(* instance, with the winding and in the order Vulkan gives them, and none  *)
(* is left out.                                                             *)
THEOREM PrimitivesRight == Spec => []PrimitivesAsSpecified
<1>1. ASSUME DrawInv PROVE PrimitivesAsSpecified
  BY <1>1 DEF DrawInv, AllSpecified, InPlace, Before, PrimitivesAsSpecified
<1> QED  BY <1>1, DrawInvHolds, PTL

-------------------------------------------------------------------------------
(* The geometry of a triangle and a sample, in integers.                    *)

Point == Int \X Int

(* The coordinates of a point.                                              *)
LEMMA PointIs ==
  ASSUME NEW A \in Point
  PROVE  A[1] \in Int /\ A[2] \in Int /\ A = <<A[1], A[2]>>
BY DEF Point

(* Signed areas: going round keeps them, turning round changes the sign.    *)
LEMMA AreaTurns ==
  ASSUME NEW A \in Point, NEW B \in Point, NEW C \in Point
  PROVE  /\ Area(A, B, C) \in Int
         /\ Area(B, C, A) = Area(A, B, C)
         /\ Area(B, A, C) = - Area(A, B, C)
<1>1. A[1] \in Int /\ A[2] \in Int /\ B[1] \in Int /\ B[2] \in Int /\ C[1] \in Int /\ C[2] \in Int
  BY PointIs
<1>2. Area(A, B, C) \in Int
  BY <1>1 DEF Area
<1>3. ASSUME NEW a1 \in Int, NEW a2 \in Int, NEW b1 \in Int, NEW b2 \in Int, NEW c1 \in Int,
             NEW c2 \in Int
      PROVE  /\ (a1 - b1) * (c2 - b2) - (c1 - b1) * (a2 - b2)
                  = (c1 - a1) * (b2 - a2) - (b1 - a1) * (c2 - a2)
             /\ (c1 - b1) * (a2 - b2) - (a1 - b1) * (c2 - b2)
                  = - ((c1 - a1) * (b2 - a2) - (b1 - a1) * (c2 - a2))
  OBVIOUS
<1> QED  BY <1>1, <1>2, <1>3 DEF Area

(* The identities of barycentric coordinates.                               *)
LEMMA WeightsOf ==
  ASSUME NEW a1 \in Int, NEW a2 \in Int, NEW b1 \in Int, NEW b2 \in Int, NEW c1 \in Int,
         NEW c2 \in Int, NEW s1 \in Int, NEW s2 \in Int, NEW a, NEW b, NEW c,
         a = (s1 - b1) * (c2 - b2) - (c1 - b1) * (s2 - b2),
         b = (s1 - c1) * (a2 - c2) - (a1 - c1) * (s2 - c2),
         c = (s1 - a1) * (b2 - a2) - (b1 - a1) * (s2 - a2)
  PROVE  /\ a + b + c = (c1 - a1) * (b2 - a2) - (b1 - a1) * (c2 - a2)
         /\ a * (a1 - s1) + b * (b1 - s1) + c * (c1 - s1) = 0
         /\ a * (a2 - s2) + b * (b2 - s2) + c * (c2 - s2) = 0
OBVIOUS

(* Barycentric coordinates: the three areas at a sample add up to that of   *)
(* the triangle, and weigh its corners to the sample.                       *)
LEMMA Barycentric ==
  ASSUME NEW A \in Point, NEW B \in Point, NEW C \in Point, NEW s \in Point,
         NEW a, NEW b, NEW c, a = Area(B, C, s), b = Area(C, A, s), c = Area(A, B, s)
  PROVE  /\ a \in Int /\ b \in Int /\ c \in Int /\ a + b + c = Area(A, B, C)
         /\ \A axis \in {1, 2} :
              a * (A[axis] - s[axis]) + b * (B[axis] - s[axis]) + c * (C[axis] - s[axis]) = 0
<1>1. /\ A[1] \in Int /\ A[2] \in Int /\ B[1] \in Int /\ B[2] \in Int
      /\ C[1] \in Int /\ C[2] \in Int /\ s[1] \in Int /\ s[2] \in Int
  BY PointIs
<1>2. a \in Int /\ b \in Int /\ c \in Int
  BY AreaTurns
<1>4. /\ a = (s[1] - B[1]) * (C[2] - B[2]) - (C[1] - B[1]) * (s[2] - B[2])
      /\ b = (s[1] - C[1]) * (A[2] - C[2]) - (A[1] - C[1]) * (s[2] - C[2])
      /\ c = (s[1] - A[1]) * (B[2] - A[2]) - (B[1] - A[1]) * (s[2] - A[2])
      /\ Area(A, B, C) = (C[1] - A[1]) * (B[2] - A[2]) - (B[1] - A[1]) * (C[2] - A[2])
  BY DEF Area
<1>5. /\ a + b + c = Area(A, B, C)
      /\ a * (A[1] - s[1]) + b * (B[1] - s[1]) + c * (C[1] - s[1]) = 0
      /\ a * (A[2] - s[2]) + b * (B[2] - s[2]) + c * (C[2] - s[2]) = 0
  BY <1>1, <1>4, WeightsOf
<1> QED  BY <1>2, <1>5

(* Weights of one sign, not all zero, cannot weigh three positive numbers,  *)
(* or three negative ones, to zero.                                         *)
LEMMA Weights ==
  ASSUME NEW a \in Int, NEW b \in Int, NEW c \in Int, NEW x \in Int, NEW y \in Int, NEW z \in Int,
         a + b + c # 0, a * x + b * y + c * z = 0,
         (a >= 0 /\ b >= 0 /\ c >= 0) \/ (a <= 0 /\ b <= 0 /\ c <= 0)
  PROVE  ~(x > 0 /\ y > 0 /\ z > 0) /\ ~(x < 0 /\ y < 0 /\ z < 0)
<1>1. ASSUME NEW d \in Int, NEW e \in Int, NEW f \in Int,
             NEW u \in Int, NEW v \in Int, NEW w \in Int,
             d >= 0, e >= 0, f >= 0, u > 0, v > 0, w > 0, d * u + e * v + f * w <= 0
      PROVE  d = 0 /\ e = 0 /\ f = 0
  <2>1. ASSUME NEW m \in Int, NEW n \in Int, m >= 0, n > 0 PROVE m * n >= m /\ m * n \in Int
    <3>1. m * (n - 1) >= 0
      BY <2>1
    <3>2. m * n = m * (n - 1) + m
      BY <2>1
    <3> QED  BY <3>1, <3>2
  <2>2. d * u >= d /\ e * v >= e /\ f * w >= f /\ d * u \in Int /\ e * v \in Int /\ f * w \in Int
    BY <1>1, <2>1
  <2> QED  BY <1>1, <2>2
<1>2. /\ (-a) * (-x) = a * x /\ (-b) * (-y) = b * y /\ (-c) * (-z) = c * z
      /\ (-a) * x = -(a * x) /\ (-b) * y = -(b * y) /\ (-c) * z = -(c * z)
      /\ a * (-x) = -(a * x) /\ b * (-y) = -(b * y) /\ c * (-z) = -(c * z)
      /\ a * x \in Int /\ b * y \in Int /\ c * z \in Int
  <2>1. ASSUME NEW m \in Int, NEW n \in Int
        PROVE  (-m) * (-n) = m * n /\ (-m) * n = -(m * n) /\ m * (-n) = -(m * n) /\ m * n \in Int
    OBVIOUS
  <2> QED  BY <2>1
<1>3. CASE a >= 0 /\ b >= 0 /\ c >= 0
  <2>1. x > 0 /\ y > 0 /\ z > 0 => FALSE
    BY <1>1, <1>3
  <2>2. x < 0 /\ y < 0 /\ z < 0 => FALSE
    <3> SUFFICES ASSUME x < 0, y < 0, z < 0 PROVE FALSE
      OBVIOUS
    <3>1. a * (-x) + b * (-y) + c * (-z) <= 0
      BY <1>2
    <3>2. -x > 0 /\ -y > 0 /\ -z > 0 /\ -x \in Int /\ -y \in Int /\ -z \in Int
      OBVIOUS
    <3> QED  BY <1>1, <1>3, <3>1, <3>2
  <2> QED  BY <2>1, <2>2
<1>4. CASE a <= 0 /\ b <= 0 /\ c <= 0
  <2>0. -a >= 0 /\ -b >= 0 /\ -c >= 0 /\ -a \in Int /\ -b \in Int /\ -c \in Int
    BY <1>4
  <2>1. x > 0 /\ y > 0 /\ z > 0 => FALSE
    <3>1. (-a) * x + (-b) * y + (-c) * z <= 0
      BY <1>2
    <3>2. x > 0 /\ y > 0 /\ z > 0 => -a = 0 /\ -b = 0 /\ -c = 0
      BY <1>1, <2>0, <3>1
    <3> QED  BY <3>2
  <2>2. x < 0 /\ y < 0 /\ z < 0 => FALSE
    <3> SUFFICES ASSUME x < 0, y < 0, z < 0 PROVE FALSE
      OBVIOUS
    <3>1. (-a) * (-x) + (-b) * (-y) + (-c) * (-z) <= 0
      BY <1>2
    <3>2. -x > 0 /\ -y > 0 /\ -z > 0 /\ -x \in Int /\ -y \in Int /\ -z \in Int
      OBVIOUS
    <3>3. -a = 0 /\ -b = 0 /\ -c = 0
      BY <1>1, <2>0, <3>1, <3>2
    <3> QED  BY <3>3
  <2> QED  BY <2>1, <2>2
<1> QED  BY <1>3, <1>4

\* Whether a triangle with the corners A, B, C covers a sample, by its corners.
SideOf(o, x) == IF o > 0 THEN x >= 0 ELSE x <= 0
EdgeOf(o, P, Q) == IF (IF draw.frontFace = "ccw" THEN o > 0 ELSE o < 0)
                   THEN <<Q[1] - P[1], Q[2] - P[2]>> ELSE <<P[1] - Q[1], P[2] - Q[2]>>
Sampled(A, B, C, s) ==
  LET o == Area(A, B, C) IN
  /\ o # 0
  /\ SideOf(o, Area(B, C, s)) /\ SideOf(o, Area(C, A, s)) /\ SideOf(o, Area(A, B, s))
  /\ Area(B, C, s) = 0 => Owns(EdgeOf(o, B, C))
  /\ Area(C, A, s) = 0 => Owns(EdgeOf(o, C, A))
  /\ Area(A, B, s) = 0 => Owns(EdgeOf(o, A, B))

Centre(p) == <<2 * p[1] + 1, 2 * p[2] + 1>>

(* The test of the rasterizer is this one.                                  *)
LEMMA CoversIsSampled ==
  ASSUME NEW t, NEW p
  PROVE  CoversTriangle(t, p) <=>
           Sampled(Position(t[1]), Position(t[2]), Position(t[3]), Centre(p))
BY DEF CoversTriangle, Sampled, SideOf, EdgeOf, Edge, FrontFacing, Area2, Centre

(* It does not depend on where the triangle starts nor on its winding.      *)
LEMMA SampledTurns ==
  ASSUME NEW A \in Point, NEW B \in Point, NEW C \in Point, NEW s \in Point
  PROVE  /\ Sampled(A, B, C, s) <=> Sampled(B, C, A, s)
         /\ Sampled(A, B, C, s) <=> Sampled(B, A, C, s)
<1>1. Area(B, C, A) = Area(A, B, C) /\ Area(B, A, C) = - Area(A, B, C) /\ Area(A, B, C) \in Int
  BY AreaTurns
<1>2. Sampled(A, B, C, s) <=> Sampled(B, C, A, s)
  BY <1>1 DEF Sampled
<1>3. /\ Area(A, C, s) = - Area(C, A, s) /\ Area(C, B, s) = - Area(B, C, s)
      /\ Area(B, A, s) = - Area(A, B, s)
      /\ Area(C, A, s) \in Int /\ Area(B, C, s) \in Int /\ Area(A, B, s) \in Int
  BY AreaTurns
<1>4. ASSUME NEW o \in Int, o # 0, NEW x \in Int
      PROVE  (SideOf(-o, -x) <=> SideOf(o, x)) /\ (-x = 0 <=> x = 0) /\ -o # 0
  BY <1>4 DEF SideOf
<1>5. ASSUME NEW o \in Int, o # 0, NEW P, NEW Q
      PROVE  EdgeOf(-o, Q, P) = EdgeOf(o, P, Q)
  BY <1>5 DEF EdgeOf
<1>6. Sampled(A, B, C, s) <=> Sampled(B, A, C, s)
  <2>1. CASE Area(A, B, C) = 0
    <3>1. Area(B, A, C) = 0
      <4>1. \A n \in Int : -n = 0 <=> n = 0
        OBVIOUS
      <4> QED  BY <1>1, <2>1, <4>1, Zenon
    <3> QED  BY <2>1, <3>1 DEF Sampled
  <2>2. CASE Area(A, B, C) # 0
    <3> DEFINE o == Area(A, B, C)
    <3>1. /\ EdgeOf(-o, A, C) = EdgeOf(o, C, A) /\ EdgeOf(-o, C, B) = EdgeOf(o, B, C)
          /\ EdgeOf(-o, B, A) = EdgeOf(o, A, B)
      BY <1>1, <1>5, <2>2
    <3>2. /\ SideOf(-o, -Area(C, A, s)) <=> SideOf(o, Area(C, A, s))
          /\ SideOf(-o, -Area(B, C, s)) <=> SideOf(o, Area(B, C, s))
          /\ SideOf(-o, -Area(A, B, s)) <=> SideOf(o, Area(A, B, s))
          /\ (-Area(C, A, s) = 0 <=> Area(C, A, s) = 0) /\ (-Area(B, C, s) = 0 <=> Area(B, C, s) = 0)
          /\ (-Area(A, B, s) = 0 <=> Area(A, B, s) = 0) /\ -o # 0
      BY <1>1, <1>3, <1>4, <2>2
    <3> QED  BY <1>1, <1>3, <2>2, <3>1, <3>2 DEF Sampled
  <2> QED  BY <2>1, <2>2
<1> QED  BY <1>2, <1>6

(* What a triangle covers is in its bounding box.                           *)
LEMMA SampledInBox ==
  ASSUME NEW A \in Point, NEW B \in Point, NEW C \in Point, NEW s \in Point,
         Sampled(A, B, C, s), NEW axis \in {1, 2}
  PROVE  /\ A[axis] <= s[axis] \/ B[axis] <= s[axis] \/ C[axis] <= s[axis]
         /\ A[axis] >= s[axis] \/ B[axis] >= s[axis] \/ C[axis] >= s[axis]
<1>1. PICK a : a = Area(B, C, s)
  OBVIOUS
<1>2. PICK b : b = Area(C, A, s)
  OBVIOUS
<1>3. PICK c : c = Area(A, B, s)
  OBVIOUS
<1>4. /\ a \in Int /\ b \in Int /\ c \in Int /\ a + b + c = Area(A, B, C)
      /\ a * (A[axis] - s[axis]) + b * (B[axis] - s[axis]) + c * (C[axis] - s[axis]) = 0
  <2>1. /\ a \in Int /\ b \in Int /\ c \in Int /\ a + b + c = Area(A, B, C)
        /\ \A x \in {1, 2} : a * (A[x] - s[x]) + b * (B[x] - s[x]) + c * (C[x] - s[x]) = 0
    BY <1>1, <1>2, <1>3, Barycentric
  <2> QED  BY <2>1
<1>5. A[axis] \in Int /\ B[axis] \in Int /\ C[axis] \in Int /\ s[axis] \in Int
  BY PointIs
<1>6. /\ Area(A, B, C) # 0
      /\ (a >= 0 /\ b >= 0 /\ c >= 0) \/ (a <= 0 /\ b <= 0 /\ c <= 0)
  BY <1>1, <1>2, <1>3 DEF Sampled, SideOf
<1>7. PICK x \in Int : x = A[axis] - s[axis]
  BY <1>5
<1>8. PICK y \in Int : y = B[axis] - s[axis]
  BY <1>5
<1>9. PICK z \in Int : z = C[axis] - s[axis]
  BY <1>5
<1>10. ~(x > 0 /\ y > 0 /\ z > 0) /\ ~(x < 0 /\ y < 0 /\ z < 0)
  <2>1. a * x + b * y + c * z = 0 /\ a + b + c # 0
    BY <1>4, <1>6, <1>7, <1>8, <1>9
  <2> QED  BY <1>4, <1>6, <2>1, Weights
<1> QED  BY <1>5, <1>7, <1>8, <1>9, <1>10

(* On the line through two corners the areas next to them are as the        *)
(* distances from them.                                                     *)
LEMMA OnLine ==
  ASSUME NEW p1 \in Int, NEW p2 \in Int, NEW q1 \in Int, NEW q2 \in Int, NEW r1 \in Int,
         NEW r2 \in Int, NEW s1 \in Int, NEW s2 \in Int, NEW o, NEW b, NEW c,
         o = (r1 - p1) * (q2 - p2) - (q1 - p1) * (r2 - p2),
         b = (s1 - r1) * (p2 - r2) - (p1 - r1) * (s2 - r2),
         c = (s1 - p1) * (q2 - p2) - (q1 - p1) * (s2 - p2)
  PROVE  /\ b * (q1 - p1) = o * (s1 - p1) - c * (r1 - p1)
         /\ b * (q2 - p2) = o * (s2 - p2) - c * (r2 - p2)
OBVIOUS

(* Products that are equal, of factors of which two have one sign.          *)
LEMMA SameSign ==
  ASSUME NEW b \in Int, NEW d \in Int, NEW o \in Int, NEW k \in Int, b * d = o * k,
         (d > 0 /\ k > 0) \/ (d < 0 /\ k < 0)
  PROVE  (o > 0 => b > 0) /\ (o < 0 => b < 0)
<1>1. ASSUME NEW x \in Int, NEW y \in Int, x > 0, y > 0 PROVE x * y > 0
  BY <1>1
<1>2. ASSUME NEW x \in Int, NEW y \in Int, x <= 0, y > 0 PROVE x * y <= 0
  BY <1>2
<1>3. ASSUME NEW x \in Int, NEW y \in Int, x > 0, y < 0 PROVE x * y < 0
  BY <1>3
<1>4. ASSUME NEW x \in Int, NEW y \in Int, x <= 0, y < 0 PROVE x * y >= 0
  BY <1>4
<1>5. ASSUME NEW x \in Int, NEW y \in Int, x < 0, y > 0 PROVE x * y < 0
  BY <1>5
<1>6. ASSUME NEW x \in Int, NEW y \in Int, x < 0, y < 0 PROVE x * y > 0
  BY <1>6
<1>7. ASSUME NEW x \in Int, NEW y \in Int, x >= 0, y > 0 PROVE x * y >= 0
  BY <1>7
<1>8. ASSUME NEW x \in Int, NEW y \in Int, x >= 0, y < 0 PROVE x * y <= 0
  BY <1>8
<1>9. b * d \in Int /\ o * k \in Int
  OBVIOUS
<1>10. ASSUME o > 0, ~(b > 0) PROVE FALSE
  <2>1. CASE d > 0 /\ k > 0
    <3>1. b * d <= 0 /\ o * k > 0
      BY <1>1, <1>2, <1>10, <2>1
    <3> QED  BY <1>9, <3>1
  <2>2. CASE d < 0 /\ k < 0
    <3>1. b * d >= 0 /\ o * k < 0
      BY <1>3, <1>4, <1>10, <2>2
    <3> QED  BY <1>9, <3>1
  <2> QED  BY <2>1, <2>2
<1>11. ASSUME o < 0, ~(b < 0) PROVE FALSE
  <2>1. CASE d > 0 /\ k > 0
    <3>1. b * d >= 0 /\ o * k < 0
      BY <1>5, <1>7, <1>11, <2>1
    <3> QED  BY <1>9, <3>1
  <2>2. CASE d < 0 /\ k < 0
    <3>1. b * d <= 0 /\ o * k > 0
      BY <1>6, <1>8, <1>11, <2>2
    <3> QED  BY <1>9, <3>1
  <2> QED  BY <2>1, <2>2
<1> QED  BY <1>10, <1>11

(* A sample inside of a side of a triangle is strictly on the inner side of *)
(* the other two.                                                           *)
LEMMA InnerSide ==
  ASSUME NEW P \in Point, NEW Q \in Point, NEW R \in Point, NEW s \in Point,
         OnSegment(s, P, Q), s # P
  PROVE  /\ Area(P, Q, R) > 0 => Area(R, P, s) > 0
         /\ Area(P, Q, R) < 0 => Area(R, P, s) < 0
<1>1. /\ P[1] \in Int /\ P[2] \in Int /\ Q[1] \in Int /\ Q[2] \in Int
      /\ R[1] \in Int /\ R[2] \in Int /\ s[1] \in Int /\ s[2] \in Int
  BY PointIs
<1>2. PICK o \in Int : o = Area(P, Q, R)
  BY AreaTurns
<1>3. PICK b \in Int : b = Area(R, P, s)
  BY AreaTurns
<1>4. Area(P, Q, s) = 0 /\ (s[1] # P[1] \/ s[2] # P[2])
  BY PointIs DEF OnSegment
<1>5. PICK d1 \in Int : d1 = Q[1] - P[1]
  BY <1>1
<1>6. PICK d2 \in Int : d2 = Q[2] - P[2]
  BY <1>1
<1>7. PICK k1 \in Int : k1 = s[1] - P[1]
  BY <1>1
<1>8. PICK k2 \in Int : k2 = s[2] - P[2]
  BY <1>1
<1>9. b * d1 = o * k1 /\ b * d2 = o * k2
  <2>1. /\ o = (R[1] - P[1]) * (Q[2] - P[2]) - (Q[1] - P[1]) * (R[2] - P[2])
        /\ b = (s[1] - R[1]) * (P[2] - R[2]) - (P[1] - R[1]) * (s[2] - R[2])
        /\ Area(P, Q, s) = (s[1] - P[1]) * (Q[2] - P[2]) - (Q[1] - P[1]) * (s[2] - P[2])
    BY <1>2, <1>3 DEF Area
  <2>2. /\ b * (Q[1] - P[1]) = o * (s[1] - P[1]) - Area(P, Q, s) * (R[1] - P[1])
        /\ b * (Q[2] - P[2]) = o * (s[2] - P[2]) - Area(P, Q, s) * (R[2] - P[2])
    BY <1>1, <2>1, OnLine
  <2>3. ASSUME NEW x \in Int, NEW y \in Int, NEW z \in Int, NEW w \in Int, x * y = z * w - 0 * y
        PROVE  x * y = z * w
    BY <2>3
  <2> QED  BY <1>1, <1>4, <1>5, <1>6, <1>7, <1>8, <2>2
<1>10. /\ (0 <= k1 /\ k1 <= d1) \/ (d1 <= k1 /\ k1 <= 0)
       /\ (0 <= k2 /\ k2 <= d2) \/ (d2 <= k2 /\ k2 <= 0)
  BY <1>1, <1>5, <1>6, <1>7, <1>8 DEF OnSegment
<1>11. k1 # 0 \/ k2 # 0
  BY <1>1, <1>4, <1>7, <1>8
<1>12. CASE k1 # 0
  <2>1. (d1 > 0 /\ k1 > 0) \/ (d1 < 0 /\ k1 < 0)
    BY <1>10, <1>12
  <2> QED  BY <1>2, <1>3, <1>9, <2>1, SameSign
<1>13. CASE k2 # 0
  <2>1. (d2 > 0 /\ k2 > 0) \/ (d2 < 0 /\ k2 < 0)
    BY <1>10, <1>13
  <2> QED  BY <1>2, <1>3, <1>9, <2>1, SameSign
<1> QED  BY <1>11, <1>12, <1>13

(* A triangle on a side of which a sample is has the sample if it has the   *)
(* side, except perhaps at a corner.                                        *)
LEMMA OnSide ==
  ASSUME NEW P \in Point, NEW Q \in Point, NEW R \in Point, NEW s \in Point,
         OnSegment(s, P, Q), Area(P, Q, R) # 0
  PROVE  /\ Sampled(P, Q, R, s) => Owns(EdgeOf(Area(P, Q, R), P, Q))
         /\ s \notin {P, Q} /\ Owns(EdgeOf(Area(P, Q, R), P, Q)) => Sampled(P, Q, R, s)
<1>1. Area(P, Q, s) = 0
  BY DEF OnSegment
<1>2. ASSUME s \notin {P, Q}, Owns(EdgeOf(Area(P, Q, R), P, Q)) PROVE Sampled(P, Q, R, s)
  <2>1. PICK o \in Int : o = Area(P, Q, R)
    BY AreaTurns
  <2>2. PICK a \in Int : a = Area(Q, R, s)
    BY AreaTurns
  <2>3. PICK b \in Int : b = Area(R, P, s)
    BY AreaTurns
  <2>4. (o > 0 => b > 0) /\ (o < 0 => b < 0)
    BY <1>2, <2>1, <2>3, InnerSide
  <2>5. Area(Q, P, R) = -o /\ Area(R, Q, s) = -a /\ Area(Q, P, s) = -Area(P, Q, s)
    BY <2>1, <2>2, AreaTurns
  <2>6. OnSegment(s, Q, P)
    <3>1. \A n \in Int : n = 0 <=> -n = 0
      OBVIOUS
    <3>2. 0 \in Int
      OBVIOUS
    <3>3. Area(Q, P, s) = 0
      BY <1>1, <2>5, <3>1, <3>2, Zenon
    <3> QED  BY <3>3 DEF OnSegment
  <2>7. (-o > 0 => -a > 0) /\ (-o < 0 => -a < 0)
    BY <1>2, <2>5, <2>6, InnerSide
  <2>8. (o > 0 => a > 0) /\ (o < 0 => a < 0) /\ o # 0
    BY <2>1, <2>7
  <2>9. SideOf(o, a) /\ SideOf(o, b) /\ SideOf(o, 0) /\ a # 0 /\ b # 0
    BY <2>4, <2>8 DEF SideOf
  <2> QED  BY <1>1, <1>2, <2>1, <2>2, <2>3, <2>8, <2>9 DEF Sampled
<1> QED  BY <1>1, <1>2 DEF Sampled

(* Of two triangles on the two sides of an edge one, and only one, has it.  *)
LEMMA EdgeOnce ==
  ASSUME NEW P \in Point, NEW Q \in Point, P # Q, NEW o \in Int, NEW q \in Int,
         o # 0, q # 0, o > 0 <=> q < 0
  PROVE  Owns(EdgeOf(o, P, Q)) <=> ~Owns(EdgeOf(q, P, Q))
<1>1. PICK x \in Int : x = Q[1] - P[1]
  BY PointIs
<1>2. PICK y \in Int : y = Q[2] - P[2]
  BY PointIs
<1>3. P[1] - Q[1] = -x /\ P[2] - Q[2] = -y
  BY <1>1, <1>2, PointIs
<1>4. x # 0 \/ y # 0
  BY <1>1, <1>2, PointIs
<1>5. Owns(<<x, y>>) <=> ~Owns(<<-x, -y>>)
  BY <1>4 DEF Owns
<1>6. \/ EdgeOf(o, P, Q) = <<x, y>> /\ EdgeOf(q, P, Q) = <<-x, -y>>
      \/ EdgeOf(o, P, Q) = <<-x, -y>> /\ EdgeOf(q, P, Q) = <<x, y>>
  BY <1>1, <1>2, <1>3 DEF EdgeOf
<1> QED  BY <1>5, <1>6

(* A sample on the common edge of two triangles.                            *)
LEMMA SharedOnce ==
  ASSUME NEW P \in Point, NEW Q \in Point, P # Q, NEW R \in Point, NEW S \in Point,
         NEW s \in Point, OnSegment(s, P, Q), Area(P, Q, R) # 0, Area(P, Q, S) # 0,
         Area(P, Q, R) > 0 <=> Area(P, Q, S) < 0
  PROVE  /\ ~(Sampled(P, Q, R, s) /\ Sampled(P, Q, S, s))
         /\ s \notin {P, Q} => Sampled(P, Q, R, s) \/ Sampled(P, Q, S, s)
<1>1. Area(P, Q, R) \in Int /\ Area(P, Q, S) \in Int
  BY AreaTurns
<1>2. Owns(EdgeOf(Area(P, Q, R), P, Q)) <=> ~Owns(EdgeOf(Area(P, Q, S), P, Q))
  BY <1>1, EdgeOnce
<1> QED  BY <1>2, OnSide

(* The corners of a triangle, two of them first.                            *)
LEMMA CornersFirst ==
  ASSUME NEW A \in Point, NEW B \in Point, NEW C \in Point, Area(A, B, C) # 0,
         NEW P \in {A, B, C}, NEW Q \in {A, B, C}, P # Q
  PROVE  \E R \in {A, B, C} \ {P, Q} :
           /\ Area(P, Q, R) # 0
           /\ \A s \in Point : Sampled(A, B, C, s) <=> Sampled(P, Q, R, s)
<1>1. Area(A, B, C) \in Int
  BY AreaTurns
<1>2. \A X, Y \in Point : Area(X, X, Y) = 0 /\ Area(X, Y, Y) = 0 /\ Area(X, Y, X) = 0
  <2>1. ASSUME NEW x1 \in Int, NEW x2 \in Int, NEW y1 \in Int, NEW y2 \in Int
        PROVE  /\ (y1 - x1) * (x2 - x2) - (x1 - x1) * (y2 - x2) = 0
               /\ (y1 - x1) * (y2 - x2) - (y1 - x1) * (y2 - x2) = 0
               /\ (x1 - x1) * (y2 - x2) - (y1 - x1) * (x2 - x2) = 0
    OBVIOUS
  <2>2. ASSUME NEW X \in Point, NEW Y \in Point
        PROVE  Area(X, X, Y) = 0 /\ Area(X, Y, Y) = 0 /\ Area(X, Y, X) = 0
    <3>1. X[1] \in Int /\ X[2] \in Int /\ Y[1] \in Int /\ Y[2] \in Int
      BY PointIs
    <3> QED  BY <2>1, <3>1 DEF Area
  <2> QED  BY <2>2
<1>3. A # B /\ B # C /\ A # C
  BY <1>2
<1>4. ASSUME NEW X \in Point, NEW Y \in Point, NEW Z \in Point, Area(X, Y, Z) # 0
      PROVE  /\ Area(Y, Z, X) # 0 /\ \A s \in Point : Sampled(X, Y, Z, s) <=> Sampled(Y, Z, X, s)
             /\ Area(Y, X, Z) # 0 /\ \A s \in Point : Sampled(X, Y, Z, s) <=> Sampled(Y, X, Z, s)
  <2>1. \A n \in Int : -n = 0 <=> n = 0
    OBVIOUS
  <2>2. Area(Y, Z, X) = Area(X, Y, Z) /\ Area(Y, X, Z) = -Area(X, Y, Z) /\ Area(X, Y, Z) \in Int
    BY AreaTurns
  <2>3. Area(Y, X, Z) # 0
    BY <1>4, <2>1, <2>2, Zenon
  <2> QED  BY <1>4, <2>2, <2>3, SampledTurns
<1>5. CASE P = A /\ Q = B
  BY <1>3, <1>5
<1>6. CASE P = B /\ Q = C
  BY <1>3, <1>4, <1>6
<1>7. CASE P = C /\ Q = A
  <2>1. Area(C, A, B) # 0 /\ \A s \in Point : Sampled(A, B, C, s) <=> Sampled(C, A, B, s)
    BY <1>4
  <2> QED  BY <1>3, <1>7, <2>1
<1>8. CASE P = B /\ Q = A
  BY <1>3, <1>4, <1>8
<1>9. CASE P = C /\ Q = B
  <2>1. Area(C, B, A) # 0 /\ \A s \in Point : Sampled(A, B, C, s) <=> Sampled(C, B, A, s)
    BY <1>4
  <2> QED  BY <1>3, <1>9, <2>1
<1>10. CASE P = A /\ Q = C
  <2>1. Area(C, A, B) # 0 /\ \A s \in Point : Sampled(A, B, C, s) <=> Sampled(C, A, B, s)
    BY <1>4
  <2>2. Area(A, C, B) # 0 /\ \A s \in Point : Sampled(C, A, B, s) <=> Sampled(A, C, B, s)
    BY <1>4, <2>1
  <2> QED  BY <1>3, <1>10, <2>1, <2>2
<1> QED  BY <1>5, <1>6, <1>7, <1>8, <1>9, <1>10

-------------------------------------------------------------------------------
(* The fragments of a primitive.                                            *)

(* The least and the greatest of a set that has them.                       *)
LEMMA LeastIs ==
  ASSUME NEW S \in SUBSET Int, NEW m \in S, \A x \in S : m <= x
  PROVE  Least(S) = m
<1>1. Least(S) \in S /\ \A y \in S : Least(S) <= y
  <2> DEFINE P(x) == x \in S /\ \A y \in S : x <= y
  <2>1. P(m)
    OBVIOUS
  <2>2. P(CHOOSE x : P(x))
    BY <2>1
  <2>3. Least(S) = CHOOSE x : P(x)
    BY DEF Least
  <2> QED  BY <2>2, <2>3
<1>2. Least(S) \in Int /\ m \in Int /\ Least(S) <= m /\ m <= Least(S)
  BY <1>1
<1> QED  BY <1>2

(* A set of one or three numbers has a least and a greatest one.            *)
LEMMA LeastAndGreatest ==
  ASSUME NEW x \in Int, NEW y \in Int, NEW z \in Int, NEW S, S = {x, y, z}
  PROVE  /\ Least(S) \in S /\ \A n \in S : Least(S) <= n
         /\ Greatest(S) \in S /\ \A n \in S : n <= Greatest(S)
<1>1. PICK l \in S : \A n \in S : l <= n
  <2>1. CASE x <= y /\ x <= z
    BY <2>1
  <2>2. CASE y <= x /\ y <= z
    BY <2>2
  <2>3. CASE z <= x /\ z <= y
    BY <2>3
  <2> QED  BY <2>1, <2>2, <2>3
<1>2. PICK g \in S : \A n \in S : g >= n
  <2>1. CASE x >= y /\ x >= z
    BY <2>1
  <2>2. CASE y >= x /\ y >= z
    BY <2>2
  <2>3. CASE z >= x /\ z >= y
    BY <2>3
  <2> QED  BY <2>1, <2>2, <2>3
<1>3. Least(S) \in S /\ \A n \in S : Least(S) <= n
  BY <1>1 DEF Least
<1>4. Greatest(S) \in S /\ \A n \in S : Greatest(S) >= n
  BY <1>2 DEF Greatest
<1>5. S \subseteq Int
  OBVIOUS
<1> QED  BY <1>3, <1>4, <1>5

(* Clamping brings a number into the framebuffer and past no pixel of it.   *)
LEMMA ClampIs ==
  ASSUME NEW x \in Int, NEW n \in Nat \ {0}
  PROVE  /\ Clamp(x, n) \in 0..(n - 1)
         /\ \A c \in 0..(n - 1) : (x <= c => Clamp(x, n) <= c) /\ (c <= x => c <= Clamp(x, n))
BY DEF Clamp

\* The vertices of a primitive: of a point or a triangle.
IsPrimitive(vs) == /\ vs \in Seq(Vertices) /\ Len(vs) = IF draw.topology = "points" THEN 1 ELSE 3
                   /\ \A v \in Vertices : Position(v) \in Point
Length(axis) == IF axis = 1 THEN Width ELSE Height

(* The corners of a primitive are vertices, and vertices have a place.      *)
LEMMA CornersPlaced ==
  ASSUME NEW vs, IsPrimitive(vs)
  PROVE  /\ Len(vs) \in {1, 3} /\ DOMAIN vs = 1..Len(vs)
         /\ \A i \in 1..Len(vs) : vs[i] \in Vertices /\ Position(vs[i]) \in Point
<1>1. Len(vs) \in {1, 3} /\ DOMAIN vs = 1..Len(vs)
  BY LenProperties DEF IsPrimitive
<1>2. \A i \in 1..Len(vs) : vs[i] \in Vertices
  BY <1>1, ElementOfSeq DEF IsPrimitive
<1> QED  BY <1>1, <1>2 DEF IsPrimitive

(* The bounding box is an interval of the framebuffer, and what a primitive *)
(* reaches along an axis is within.                                         *)
LEMMA BoundsAre ==
  ASSUME NEW vs, IsPrimitive(vs), NEW axis \in {1, 2}, NEW n \in Nat \ {0},
         NEW reach, reach = IF Len(vs) = 1 THEN PointSize ELSE 0
  PROVE  /\ \E l, h \in 0..(n - 1) : Bounds(vs, axis, n) = l..h
         /\ \A c \in 0..(n - 1), i, j \in DOMAIN vs :
              /\ Position(vs[i])[axis] - reach <= 2 * c + 1
              /\ Position(vs[j])[axis] + reach >= 2 * c + 1
              => c \in Bounds(vs, axis, n)
<1> DEFINE xs    == {Position(vs[i])[axis] : i \in DOMAIN vs}
           l     == Clamp((Least(xs) - reach) \div 2, n)
           h     == Clamp((Greatest(xs) + reach + 1) \div 2, n)
<1>1. Len(vs) \in {1, 3} /\ DOMAIN vs = 1..Len(vs) /\ reach \in Nat
  BY CornersPlaced, SizeAssumption
<1>2. \A i \in DOMAIN vs : Position(vs[i])[axis] \in Int
  BY CornersPlaced, PointIs
<1>3. PICK x \in Int, y \in Int, z \in Int : xs = {x, y, z}
  <2>1. CASE Len(vs) = 1
    <3>1. xs = {Position(vs[1])[axis]} /\ Position(vs[1])[axis] \in Int
      BY <1>1, <1>2, <2>1
    <3>2. PICK u \in Int : xs = {u}
      BY <3>1
    <3>3. xs = {u, u, u}
      BY <3>2
    <3> QED  BY <3>3
  <2>2. CASE Len(vs) = 3
    <3>1. DOMAIN vs = {1, 2, 3}
      BY <1>1, <2>2
    <3>2. xs = {Position(vs[1])[axis], Position(vs[2])[axis], Position(vs[3])[axis]}
      BY <3>1
    <3> QED  BY <1>2, <3>1, <3>2
  <2> QED  BY <1>1, <2>1, <2>2
<1>4. /\ Least(xs) \in xs /\ \A k \in xs : Least(xs) <= k
      /\ Greatest(xs) \in xs /\ \A k \in xs : k <= Greatest(xs)
  BY <1>3, LeastAndGreatest
<1>5. PICK a \in Int : a = Least(xs)
  BY <1>3, <1>4
<1>6. PICK b \in Int : b = Greatest(xs)
  BY <1>3, <1>4
<1>7. (a - reach) \div 2 \in Int /\ (b + reach + 1) \div 2 \in Int
  BY <1>1
<1>8. l \in 0..(n - 1) /\ h \in 0..(n - 1)
  BY <1>5, <1>6, <1>7, ClampIs
<1>9. Bounds(vs, axis, n) = l..h
  BY DEF Bounds
<1>10. ASSUME NEW c \in 0..(n - 1),
              NEW i \in DOMAIN vs, Position(vs[i])[axis] - reach <= 2 * c + 1,
              NEW j \in DOMAIN vs, Position(vs[j])[axis] + reach >= 2 * c + 1
       PROVE  c \in l..h
  <2>1. a <= Position(vs[i])[axis] /\ Position(vs[j])[axis] <= b
    BY <1>4, <1>5, <1>6
  <2>2. PICK u \in Int : u = Position(vs[i])[axis]
    BY <1>2
  <2>3. PICK w \in Int : w = Position(vs[j])[axis]
    BY <1>2
  <2>4. PICK r \in Nat : r = reach
    BY <1>1
  <2> HIDE DEF xs
  <2>5. a - r <= 2 * c + 1 /\ b + r >= 2 * c + 1 /\ c \in Int
    BY <1>10, <2>1, <2>2, <2>3, <2>4
  <2>6. (a - r) \div 2 <= c /\ c <= (b + r + 1) \div 2
    BY <2>4, <2>5
  <2>7. Clamp((a - r) \div 2, n) <= c /\ c <= Clamp((b + r + 1) \div 2, n)
    BY <1>7, <2>4, <2>6, ClampIs
  <2> QED  BY <1>5, <1>6, <1>8, <2>4, <2>7
<1> HIDE DEF l, h
<1> QED  BY <1>8, <1>9, <1>10

(* A pixel that a primitive covers is in its bounding box.                  *)
LEMMA CoveredInBounds ==
  ASSUME NEW vs, IsPrimitive(vs), NEW p \in Pixel, Covers(vs, p), NEW axis \in {1, 2}
  PROVE  p[axis] \in Bounds(vs, axis, Length(axis))
<1> DEFINE n == Length(axis)
<1>1. n \in Nat \ {0} /\ p[axis] \in 0..(n - 1)
  BY SizeAssumption DEF Length, Pixel
<1>2. Len(vs) \in {1, 3} /\ DOMAIN vs = 1..Len(vs)
      /\ \A i \in 1..Len(vs) : Position(vs[i]) \in Point
  BY CornersPlaced
<1>3. CASE Len(vs) = 1
  <2>1. /\ -PointSize <= 2 * p[axis] + 1 - Position(vs[1])[axis]
        /\ 2 * p[axis] + 1 - Position(vs[1])[axis] <= PointSize
    BY <1>3 DEF Covers, CoversPoint
  <2>2. Position(vs[1])[axis] \in Int
    BY <1>2, <1>3, PointIs
  <2>3. PICK x \in Int : x = Position(vs[1])[axis]
    BY <2>2
  <2>4. PICK c \in Int : c = p[axis]
    BY <1>1
  <2>5. /\ Position(vs[1])[axis] - PointSize <= 2 * p[axis] + 1
        /\ Position(vs[1])[axis] + PointSize >= 2 * p[axis] + 1
    BY <2>1, <2>3, <2>4, SizeAssumption
  <2>6. 1 \in DOMAIN vs
    BY <1>2, <1>3
  <2> HIDE DEF n
  <2> QED  BY <1>1, <1>3, <2>5, <2>6, BoundsAre DEF n
<1>4. CASE Len(vs) = 3
  <2>1. DOMAIN vs = {1, 2, 3}
    BY <1>2, <1>4
  <2>2. CoversTriangle(vs, p)
    BY <1>4 DEF Covers
  <2>3. Centre(p) \in Point /\ Centre(p)[axis] = 2 * p[axis] + 1
    BY DEF Pixel, Point, Centre
  <2>4. PICK A \in Point : A = Position(vs[1])
    BY <1>2, <1>4
  <2>5. PICK B \in Point : B = Position(vs[2])
    BY <1>2, <1>4
  <2>6. PICK C \in Point : C = Position(vs[3])
    BY <1>2, <1>4
  <2>7. Sampled(A, B, C, Centre(p))
    BY <2>2, <2>4, <2>5, <2>6, CoversIsSampled
  <2>8. /\ A[axis] <= 2 * p[axis] + 1 \/ B[axis] <= 2 * p[axis] + 1 \/ C[axis] <= 2 * p[axis] + 1
        /\ A[axis] >= 2 * p[axis] + 1 \/ B[axis] >= 2 * p[axis] + 1 \/ C[axis] >= 2 * p[axis] + 1
    BY <2>3, <2>7, SampledInBox
  <2>9. A[axis] \in Int /\ B[axis] \in Int /\ C[axis] \in Int
    BY PointIs
  <2>10. ASSUME NEW x \in Int PROVE x - 0 = x /\ x + 0 = x
    OBVIOUS
  <2>11. PICK i \in DOMAIN vs : Position(vs[i])[axis] - 0 <= 2 * p[axis] + 1
    BY <2>1, <2>4, <2>5, <2>6, <2>8, <2>9, <2>10
  <2>12. PICK j \in DOMAIN vs : Position(vs[j])[axis] + 0 >= 2 * p[axis] + 1
    BY <2>1, <2>4, <2>5, <2>6, <2>8, <2>9, <2>10
  <2>13. 0 = IF Len(vs) = 1 THEN PointSize ELSE 0
    BY <1>4
  <2> HIDE DEF n
  <2>14. \A c \in 0..(n - 1), k, m \in DOMAIN vs :
           /\ Position(vs[k])[axis] - 0 <= 2 * c + 1
           /\ Position(vs[m])[axis] + 0 >= 2 * c + 1
           => c \in Bounds(vs, axis, n)
    BY <1>1, <2>13, BoundsAre
  <2> QED  BY <1>1, <2>11, <2>12, <2>14 DEF n
<1> QED  BY <1>2, <1>3, <1>4

(* Pixels are numbered row by row.                                          *)
LEMMA RowByRow ==
  ASSUME NEW w \in Nat \ {0}, NEW h \in Nat \ {0}
  PROVE  /\ w * h \in Nat
         /\ \A k \in 0..(w * h - 1) :
              k % w \in 0..(w - 1) /\ k \div w \in 0..(h - 1) /\ k = (k \div w) * w + (k % w)
         /\ \A x \in 0..(w - 1), y \in 0..(h - 1) :
              /\ y * w + x \in 0..(w * h - 1)
              /\ (y * w + x) % w = x /\ (y * w + x) \div w = y
<1>1. w * h \in Nat
  OBVIOUS
<1>2. ASSUME NEW k \in 0..(w * h - 1)
      PROVE  k % w \in 0..(w - 1) /\ k \div w \in 0..(h - 1) /\ k = (k \div w) * w + (k % w)
  <2>1. PICK d \in Nat : d = k \div w
    OBVIOUS
  <2>2. PICK r \in 0..(w - 1) : r = k % w
    OBVIOUS
  <2>3. k = w * d + r /\ w * d = d * w /\ d * w \in Nat
    BY <2>1, <2>2
  <2>4. d < h
    <3> SUFFICES ASSUME d >= h PROVE FALSE
      BY <2>1
    <3>1. w * d >= w * h
      <4>1. w * (d - h) >= 0 /\ w * (d - h) = w * d - w * h
        OBVIOUS
      <4> QED  BY <1>1, <2>3, <4>1
    <3> QED  BY <1>1, <2>3, <3>1
  <2>5. k = d * w + r /\ d \in 0..(h - 1)
    BY <2>3, <2>4
  <2>6. k = (k \div w) * w + (k % w)
    BY <2>1, <2>2, <2>5, Zenon
  <2> QED  BY <2>1, <2>2, <2>5, <2>6
<1>3. ASSUME NEW x \in 0..(w - 1), NEW y \in 0..(h - 1)
      PROVE  /\ y * w + x \in 0..(w * h - 1)
             /\ (y * w + x) % w = x /\ (y * w + x) \div w = y
  <2>1. y * w \in Nat
    OBVIOUS
  <2>2. w * (h - 1 - y) >= 0 /\ w * (h - 1 - y) = w * h - w - y * w
    <3>1. h - 1 - y \in Nat
      OBVIOUS
    <3> QED  BY <3>1
  <2>3. y * w + x \in 0..(w * h - 1)
    BY <1>1, <2>1, <2>2
  <2> QED  BY <2>3, InstanceAndPlace
<1> QED  BY <1>1, <1>2, <1>3

(* The box in the scissor is empty or an interval.                          *)
LEMMA SideIs ==
  ASSUME draw \in Draws, NEW vs, IsPrimitive(vs), NEW axis \in {1, 2}, NEW n \in Nat \ {0},
         NEW S, S = Bounds(vs, axis, n) \cap draw.scissor[axis], S # {}
  PROVE  \E l \in 0..(n - 1), k \in Nat \ {0} :
           /\ S = l..(l + k - 1) /\ S \subseteq 0..(n - 1)
           /\ Least(S) = l /\ Cardinality(S) = k
<1>1. PICK a \in 0..(n - 1), b \in 0..(n - 1) : Bounds(vs, axis, n) = a..b
  BY BoundsAre
<1>2. PICK x \in Int, z \in Int : draw.scissor[axis] = x..z
  BY PlaceAssumption
<1>3. PICK l \in Int : l = IF a <= x THEN x ELSE a
  BY <1>1, <1>2
<1>4. PICK h \in Int : h = IF b <= z THEN b ELSE z
  BY <1>1, <1>2
<1>5. S = l..h /\ S \subseteq 0..(n - 1) /\ l <= h
  BY <1>1, <1>2, <1>3, <1>4
<1>6. Least(S) = l
  <2>1. S \subseteq Int /\ l \in S /\ \A y \in S : l <= y
    BY <1>5
  <2> QED  BY <2>1, LeastIs
<1>7. Cardinality(S) = h - l + 1
  <2>1. Cardinality(l..h) = IF l > h THEN 0 ELSE h - l + 1
    BY FS_Interval
  <2>2. Cardinality(l..h) = h - l + 1
    BY <1>5, <2>1
  <2> QED  BY <1>5, <2>2, Zenon
<1>8. l \in 0..(n - 1) /\ h - l + 1 \in Nat \ {0} /\ l + (h - l + 1) - 1 = h
  <2>1. l \in S
    BY <1>5
  <2>2. l \in 0..(n - 1)
    BY <1>5, <2>1
  <2>3. h - l \in Nat
    BY <1>5
  <2> QED  BY <2>2, <2>3
<1> QED  BY <1>5, <1>6, <1>7, <1>8

\* The pixels of a framebuffer row and column that a primitive may reach.
Side(vs, axis) == Bounds(vs, axis, Length(axis)) \cap draw.scissor[axis]

(* The pending fragments of a primitive are the pixels of its box in the    *)
(* scissor, each of them once.                                              *)
LEMMA PendingAre ==
  ASSUME draw \in Draws, NEW vs, IsPrimitive(vs)
  PROVE  /\ Pending(vs) \in Seq(Pixel)
         /\ \A i \in 1..Len(Pending(vs)) : InScissor(Pending(vs)[i])
         /\ \A i, j \in 1..Len(Pending(vs)) : Pending(vs)[i] = Pending(vs)[j] => i = j
         /\ \A p \in Pixel : p[1] \in Side(vs, 1) /\ p[2] \in Side(vs, 2) =>
              \E i \in 1..Len(Pending(vs)) : Pending(vs)[i] = p
<1> DEFINE xs == Side(vs, 1)
           ys == Side(vs, 2)
<1>1. /\ xs = Bounds(vs, 1, Width) \cap draw.scissor[1]
      /\ ys = Bounds(vs, 2, Height) \cap draw.scissor[2]
  BY DEF Side, Length
<1>2. Width \in Nat \ {0} /\ Height \in Nat \ {0}
  BY SizeAssumption
<1>3. Pending(vs) = [i \in 1..(Cardinality(xs) * Cardinality(ys)) |->
        <<Least(xs) + ((i - 1) % Cardinality(xs)), Least(ys) + ((i - 1) \div Cardinality(xs))>>]
  BY <1>1 DEF Pending
<1>4. xs # {} => \E l \in 0..(Width - 1), k \in Nat \ {0} :
           /\ xs = l..(l + k - 1) /\ xs \subseteq 0..(Width - 1)
           /\ Least(xs) = l /\ Cardinality(xs) = k
  BY <1>1, <1>2, SideIs
<1>5. ys # {} => \E l \in 0..(Height - 1), k \in Nat \ {0} :
           /\ ys = l..(l + k - 1) /\ ys \subseteq 0..(Height - 1)
           /\ Least(ys) = l /\ Cardinality(ys) = k
  BY <1>1, <1>2, SideIs
<1> HIDE DEF xs, ys
<1>6. CASE xs = {} \/ ys = {}
  <2>1. Cardinality({}) = 0
    BY FS_EmptySet
  <2>2. Cardinality(xs) \in Nat /\ Cardinality(ys) \in Nat
    <3>1. Cardinality(xs) \in Nat
      <4>1. CASE xs = {}
        BY <2>1, <4>1
      <4>2. CASE xs # {}
        <5>1. PICK k \in Nat \ {0} : Cardinality(xs) = k
          BY <1>4, <4>2
        <5> QED  BY <5>1
      <4> QED  BY <4>1, <4>2
    <3>2. Cardinality(ys) \in Nat
      <4>1. CASE ys = {}
        BY <2>1, <4>1
      <4>2. CASE ys # {}
        <5>1. PICK k \in Nat \ {0} : Cardinality(ys) = k
          BY <1>5, <4>2
        <5> QED  BY <5>1
      <4> QED  BY <4>1, <4>2
    <3> QED  BY <3>1, <3>2
  <2>3. Cardinality(xs) * Cardinality(ys) = 0
    <3>1. PICK a \in Nat : a = Cardinality(xs)
      BY <2>2
    <3>2. PICK b \in Nat : b = Cardinality(ys)
      BY <2>2
    <3>3. a = 0 \/ b = 0
      BY <1>6, <2>1, <3>1, <3>2
    <3>4. a * b = 0
      BY <3>3
    <3> QED  BY <3>1, <3>2, <3>4
  <2>4. Pending(vs) = <<>>
    BY <1>3, <2>3
  <2> QED  BY <1>6, <2>4 DEF xs, ys
<1>7. CASE xs # {} /\ ys # {}
  <2>1. PICK l \in 0..(Width - 1), w \in Nat \ {0} :
          /\ xs = l..(l + w - 1) /\ xs \subseteq 0..(Width - 1)
          /\ Least(xs) = l /\ Cardinality(xs) = w
    BY <1>4, <1>7
  <2>2. PICK m \in 0..(Height - 1), h \in Nat \ {0} :
          /\ ys = m..(m + h - 1) /\ ys \subseteq 0..(Height - 1)
          /\ Least(ys) = m /\ Cardinality(ys) = h
    BY <1>5, <1>7
  <2>3. Pending(vs) = [i \in 1..(w * h) |-> <<l + ((i - 1) % w), m + ((i - 1) \div w)>>]
    BY <1>3, <2>1, <2>2
  <2>4. w * h \in Nat
    BY RowByRow
  <2>5. ASSUME NEW i \in 1..(w * h)
        PROVE  /\ (i - 1) % w \in 0..(w - 1) /\ (i - 1) \div w \in 0..(h - 1)
               /\ i - 1 = ((i - 1) \div w) * w + ((i - 1) % w)
    <3>1. i - 1 \in 0..(w * h - 1)
      BY <2>4
    <3> QED  BY <3>1, RowByRow
  <2>6. ASSUME NEW i \in 1..(w * h)
        PROVE  /\ l + ((i - 1) % w) \in xs /\ m + ((i - 1) \div w) \in ys
               /\ <<l + ((i - 1) % w), m + ((i - 1) \div w)>> \in Pixel
               /\ Pending(vs)[i] = <<l + ((i - 1) % w), m + ((i - 1) \div w)>>
    <3>1. PICK x \in 0..(w - 1) : x = (i - 1) % w
      BY <2>5
    <3>2. PICK y \in 0..(h - 1) : y = (i - 1) \div w
      BY <2>5
    <3>3. l + x \in xs /\ m + y \in ys
      BY <2>1, <2>2
    <3>4. <<l + x, m + y>> \in Pixel
      BY <2>1, <2>2, <3>3 DEF Pixel
    <3>5. Pending(vs)[i] = <<l + ((i - 1) % w), m + ((i - 1) \div w)>>
      BY <2>3
    <3> QED  BY <3>1, <3>2, <3>3, <3>4, <3>5
  <2>7. Pending(vs) \in Seq(Pixel) /\ Len(Pending(vs)) = w * h
    <3>1. DOMAIN Pending(vs) = 1..(w * h)
      BY <2>3
    <3>2. Pending(vs) \in [1..(w * h) -> Pixel]
      BY <2>3, <2>6
    <3> QED  BY <2>4, <3>1, <3>2, SeqDef
  <2>8. \A i \in 1..(w * h) : InScissor(Pending(vs)[i])
    <3>1. ASSUME NEW i \in 1..(w * h) PROVE InScissor(Pending(vs)[i])
      <4>1. Pending(vs)[i][1] \in xs /\ Pending(vs)[i][2] \in ys
        <5>1. PICK x \in xs : x = l + ((i - 1) % w)
          BY <2>6
        <5>2. PICK y \in ys : y = m + ((i - 1) \div w)
          BY <2>6
        <5>3. Pending(vs)[i] = <<x, y>>
          BY <2>6, <5>1, <5>2
        <5> QED  BY <5>3
      <4> QED  BY <1>1, <4>1 DEF InScissor
    <3> QED  BY <3>1
  <2>9. ASSUME NEW i \in 1..(w * h), NEW j \in 1..(w * h), Pending(vs)[i] = Pending(vs)[j]
        PROVE  i = j
    <3>1. PICK x \in 0..(w - 1) : x = (i - 1) % w
      BY <2>5
    <3>2. PICK y \in 0..(h - 1) : y = (i - 1) \div w
      BY <2>5
    <3>3. PICK z \in 0..(w - 1) : z = (j - 1) % w
      BY <2>5
    <3>4. PICK u \in 0..(h - 1) : u = (j - 1) \div w
      BY <2>5
    <3>5. <<l + x, m + y>> = <<l + z, m + u>>
      BY <2>6, <2>9, <3>1, <3>2, <3>3, <3>4
    <3>6. x = z /\ y = u
      BY <3>5
    <3>7. i - 1 = y * w + x /\ j - 1 = u * w + z
      BY <2>5, <3>1, <3>2, <3>3, <3>4
    <3>8. i - 1 = j - 1
      BY <3>6, <3>7
    <3> QED  BY <2>4, <3>8
  <2>10. ASSUME NEW p \in Pixel, p[1] \in xs, p[2] \in ys
         PROVE  \E i \in 1..(w * h) : Pending(vs)[i] = p
    <3>1. PICK x \in 0..(w - 1) : x = p[1] - l
      BY <2>1, <2>10
    <3>2. PICK y \in 0..(h - 1) : y = p[2] - m
      BY <2>2, <2>10
    <3>3. y * w + x \in 0..(w * h - 1) /\ (y * w + x) % w = x /\ (y * w + x) \div w = y
      BY RowByRow
    <3>4. PICK k \in 0..(w * h - 1) : k = y * w + x
      BY <3>3
    <3>5. k + 1 \in 1..(w * h) /\ (k + 1) - 1 = k
      BY <2>4
    <3>6. Pending(vs)[k + 1] = <<l + x, m + y>>
      BY <2>6, <3>3, <3>4, <3>5
    <3>7. p = <<p[1], p[2]>> /\ p[1] \in Int /\ p[2] \in Int
      BY DEF Pixel
    <3>8. l + x = p[1] /\ m + y = p[2]
      BY <3>1, <3>2, <3>7
    <3> QED  BY <3>5, <3>6, <3>7, <3>8
  <2> QED  BY <2>7, <2>8, <2>9, <2>10 DEF xs, ys
<1> QED  BY <1>6, <1>7

(* What a primitive covers in the scissor is pending, once.                 *)
LEMMA CoveredIsPending ==
  ASSUME draw \in Draws, NEW vs, IsPrimitive(vs), NEW p \in Pixel, Covers(vs, p), InScissor(p)
  PROVE  \E i \in 1..Len(Pending(vs)) : Pending(vs)[i] = p
BY CoveredInBounds, PendingAre DEF Side, InScissor

-------------------------------------------------------------------------------
(* What is shown, step by step.                                             *)

Output == [vertex : 0..(NumberSpan - 1), instance : Nat]
FrameTypes ==
  /\ Instance \in 0..draw.numInstances
  /\ pc \in {"vertex", "primitive", "fragment"} => Instance < draw.numInstances
  /\ CurrentStage \in {"none", "vertex", "fragment"}
  /\ array \in {"none", "live", "released"}
  /\ VertexOutputs \in [Vertices -> {Null} \cup Output]
  /\ PendingFragments \in Seq(Pixel)
  /\ assembled \in Seq([instance : Nat, of : Seq(Vertices)])
  /\ shown \in [Pixel -> Seq(DOMAIN assembled)]

\* Once there are primitives every vertex has its place, in this instance or the last.
Placed == assembled # <<>> => \A v \in Vertices : VertexOutputs[v].vertex = VertexIndex(v)
Shapes == \A k \in DOMAIN assembled :
            Len(assembled[k].of) = IF draw.topology = "points" THEN 1 ELSE 3
PendingOf == pc = "fragment" => /\ assembled # <<>>
                                /\ PendingFragments = Pending(assembled[Len(assembled)].of)

\* A pixel holds a primitive when this covers the pixel and the workers have passed it.
Right(vs, p) == Covers(vs, p) /\ InScissor(p) /\ p \notin draw.killed
Passed(p) == \E i \in 1..Len(PendingFragments) : i <= NextWorkIndex /\ PendingFragments[i] = p
Reached(k, p) == pc = "fragment" /\ k = Len(assembled) => Passed(p)
InOrder == \A p \in Pixel : \A i, j \in DOMAIN shown[p] : i < j => shown[p][i] < shown[p][j]
Shows == \A p \in Pixel, k \in DOMAIN assembled :
           Samples(k, p) <=> Right(assembled[k].of, p) /\ Reached(k, p)

FrameInv == FrameTypes /\ Placed /\ Shapes /\ PendingOf /\ InOrder /\ Shows

(* The output of a vertex, and its place.                                   *)
LEMMA OutputIs ==
  ASSUME draw \in Draws, Instance \in Nat, NEW v \in Vertices
  PROVE  /\ VertexIndex(v) \in 0..(NumberSpan - 1)
         /\ [vertex |-> VertexIndex(v), instance |-> Instance + draw.instanceOffset] \in Output
         /\ draw.positions[VertexIndex(v)] \in Point
<1>1. /\ draw.vertexOffset \in Int /\ draw.indexOffset \in Nat /\ draw.numVertices \in Nat
      /\ draw.instanceOffset \in Nat /\ NumberSpan \in Nat \ {0} /\ v \in Nat
  BY Parameters, SizeAssumption DEF Vertices
<1>2. PICK w \in Nat : w = IF draw.indexed THEN draw.indices[v + draw.indexOffset + 1] ELSE v
  BY <1>1, DrawAssumption DEF Vertices
<1>3. VertexIndex(v) = (w + draw.vertexOffset) % NumberSpan
  BY <1>2 DEF VertexIndex
<1>4. VertexIndex(v) \in 0..(NumberSpan - 1)
  BY <1>1, <1>3
<1>5. Instance + draw.instanceOffset \in Nat
  BY <1>1
<1> QED  BY <1>4, <1>5, PlaceAssumption DEF Output, Point

(* What is assembled consists of vertices that have a place.                *)
LEMMA AssembledAre ==
  ASSUME draw \in Draws, Instance \in Nat, FrameInv, NEW k \in DOMAIN assembled
  PROVE  IsPrimitive(assembled[k].of)
<1>1. assembled[k] \in [instance : Nat, of : Seq(Vertices)]
  BY ElementOfSeq, LenProperties DEF FrameInv, FrameTypes
<1>2. assembled # <<>>
  OBVIOUS
<1>3. \A v \in Vertices : Position(v) \in Point
  BY <1>2, OutputIs DEF FrameInv, Placed, Position
<1> QED  BY <1>1, <1>3 DEF FrameInv, Shapes, IsPrimitive

(* What a primitive covers stays while the vertices keep their numbers.     *)
LEMMA CoversKept ==
  ASSUME NEW vs, IsPrimitive(vs), draw' = draw, NEW p \in Pixel,
         \A v \in Vertices : VertexOutputs'[v].vertex = VertexOutputs[v].vertex
  PROVE  Right(vs, p)' <=> Right(vs, p)
<1>1. \A i \in 1..Len(vs) : Position(vs[i])' = Position(vs[i])
  BY CornersPlaced DEF Position
<1>2. InScissor(p)' <=> InScissor(p)
  BY DEF InScissor
<1>3. CASE Len(vs) = 1
  <2>1. Position(vs[1])' = Position(vs[1])
    BY <1>1, <1>3
  <2>2. CoversPoint(vs[1], p)' <=> CoversPoint(vs[1], p)
    BY <2>1 DEF CoversPoint
  <2> QED  BY <1>2, <1>3, <2>2 DEF Right, Covers
<1>4. CASE Len(vs) = 3
  <2>1. /\ Position(vs[1])' = Position(vs[1]) /\ Position(vs[2])' = Position(vs[2])
        /\ Position(vs[3])' = Position(vs[3])
    BY <1>1, <1>4
  <2>2. Area2(vs)' = Area2(vs)
    BY <2>1 DEF Area2
  <2>3. FrontFacing(vs)' <=> FrontFacing(vs)
    BY <2>2 DEF FrontFacing
  <2>4. Culled(vs)' <=> Culled(vs)
    BY <2>3 DEF Culled
  <2>5. CoversTriangle(vs, p)' <=> CoversTriangle(vs, p)
    BY <2>1, <2>2, <2>3 DEF CoversTriangle, Edge
  <2> QED  BY <1>2, <1>4, <2>4, <2>5 DEF Right, Covers
<1> QED  BY <1>3, <1>4, CornersPlaced

(* So what is assembled is to be shown where it was before.                 *)
LEMMA RightKept ==
  ASSUME draw \in Draws, Instance \in Nat, FrameInv, draw' = draw,
         \A v \in Vertices : VertexOutputs'[v].vertex = VertexOutputs[v].vertex,
         NEW k \in DOMAIN assembled, NEW p \in Pixel, assembled'[k] = assembled[k]
  PROVE  Right(assembled[k].of, p)' <=> Right(assembled[k].of, p)
<1>1. PICK vs : vs = assembled[k].of
  OBVIOUS
<1>2. IsPrimitive(vs)
  BY <1>1, AssembledAre
<1>3. Right(vs, p)' <=> Right(vs, p)
  BY <1>2, CoversKept
<1>4. vs = assembled'[k].of
  BY <1>1
<1>5. Right(assembled[k].of, p)' <=> Right(vs, p)'
  BY <1>4
<1> QED  BY <1>1, <1>3, <1>5

(* At the start nothing is shown.                                           *)
LEMMA InitFrame == Init => FrameInv
<1> SUFFICES ASSUME Init PROVE FrameInv
  OBVIOUS
<1>1. draw.numInstances \in Nat
  BY Parameters DEF Init
<1>2. /\ Instance = 0 /\ pc = "instance" /\ CurrentStage = "none" /\ array = "none"
      /\ VertexOutputs = [v \in Vertices |-> Null] /\ PendingFragments = <<>>
      /\ shown = [p \in Pixel |-> <<>>] /\ assembled = <<>>
  BY DEF Init
<1>3. FrameTypes
  BY <1>1, <1>2 DEF FrameTypes
<1>4. Placed /\ Shapes /\ PendingOf /\ InOrder /\ Shows
  BY <1>2 DEF Placed, Shapes, PendingOf, InOrder, Shows
<1> QED  BY <1>3, <1>4 DEF FrameInv

(* Steps that show and assemble nothing.                                    *)
LEMMA ShowsKept ==
  ASSUME draw \in Draws, Instance \in Nat, FrameInv, UNCHANGED <<draw, shown, assembled>>,
         assembled # <<>> =>
           \A v \in Vertices : VertexOutputs'[v].vertex = VertexOutputs[v].vertex,
         \A k \in DOMAIN assembled, p \in Pixel :
           Right(assembled[k].of, p) => (Reached(k, p)' <=> Reached(k, p))
  PROVE  Shapes' /\ InOrder' /\ Shows'
<1>1. Shapes' /\ InOrder'
  BY DEF FrameInv, Shapes, InOrder
<1>2. ASSUME NEW p \in Pixel, NEW k \in DOMAIN assembled
      PROVE  Samples(k, p)' <=> Right(assembled[k].of, p)' /\ Reached(k, p)'
  <2>1. assembled # <<>>
    BY <1>2
  <2>2. Right(assembled[k].of, p)' <=> Right(assembled[k].of, p)
    BY <1>2, <2>1, RightKept
  <2>3. Samples(k, p)' <=> Samples(k, p)
    BY DEF Samples
  <2>4. Samples(k, p) <=> Right(assembled[k].of, p) /\ Reached(k, p)
    BY <1>2 DEF FrameInv, Shows
  <2> QED  BY <1>2, <2>2, <2>3, <2>4
<1>3. Shows'
  BY <1>2 DEF Shows
<1> QED  BY <1>1, <1>3

(* The loop over instances and the ends of the other loops.                 *)
LEMMA QuietFrame ==
  ASSUME DrawInv, FrameInv,
         \/ StartInstance \/ VerticesDone \/ Discard \/ InstanceDone \/ Stop \/ StopFails
         \/ PastTheEnd
  PROVE  FrameInv'
<1>1. draw \in Draws /\ Instance \in Nat
  BY DEF DrawInv, Types
<1>2. /\ UNCHANGED <<draw, VertexOutputs, PendingFragments, shown, assembled>>
      /\ pc # "fragment" /\ pc' # "fragment"
  BY DEF StartInstance, VerticesDone, Discard, InstanceDone, Stop, StopFails, PastTheEnd, Crash
<1>3. FrameTypes'
  <2>1. draw.numInstances \in Nat /\ Vertices' = Vertices
    BY <1>1, <1>2, Parameters DEF Vertices
  <2>2. CurrentStage' \in {"none", "vertex", "fragment"} /\ array' \in {"none", "live", "released"}
    BY DEF FrameInv, FrameTypes, StartInstance, VerticesDone, Discard, InstanceDone, Stop,
           StopFails, PastTheEnd, Crash, Variables
  <2>3. /\ Instance' \in 0..draw.numInstances
        /\ pc' \in {"vertex", "primitive", "fragment"} => Instance' < draw.numInstances
    BY <1>1, <2>1 DEF FrameInv, FrameTypes, StartInstance, VerticesDone, Discard, InstanceDone, Stop,
           StopFails, PastTheEnd, Crash
  <2> QED  BY <1>2, <2>1, <2>2, <2>3 DEF FrameInv, FrameTypes
<1>4. Placed'
  BY <1>2 DEF FrameInv, Placed, Vertices, VertexIndex
<1>5. PendingOf'
  BY <1>2 DEF PendingOf
<1>6. Shapes' /\ InOrder' /\ Shows'
  <2>1. \A k \in DOMAIN assembled, p \in Pixel : Reached(k, p)' <=> Reached(k, p)
    BY <1>2 DEF Reached
  <2> QED  BY <1>1, <1>2, <2>1, ShowsKept
<1> QED  BY <1>3, <1>4, <1>5, <1>6 DEF FrameInv

(* A vertex gets the number that it had.                                    *)
LEMMA VertexFrame ==
  ASSUME DrawInv, FrameInv, ShadeVertex
  PROVE  FrameInv'
<1>1. draw \in Draws /\ Instance \in Nat
  BY DEF DrawInv, Types
<1>2. /\ pc = "vertex" /\ NextWorkIndex < draw.numVertices
      /\ VertexOutputs' = [VertexOutputs EXCEPT ![NextWorkIndex] =
           [vertex |-> VertexIndex(NextWorkIndex), instance |-> Instance + draw.instanceOffset]]
      /\ UNCHANGED <<draw, pc, Instance, CurrentStage, PendingFragments, array, shown, assembled>>
  BY DEF ShadeVertex
<1>3. NextWorkIndex \in Vertices
  BY <1>1, <1>2, Parameters DEF DrawInv, Types, Vertices
<1>4. [vertex |-> VertexIndex(NextWorkIndex), instance |-> Instance + draw.instanceOffset] \in Output
  BY <1>1, <1>3, OutputIs
<1>5. FrameTypes'
  <2>1. VertexOutputs' \in [Vertices -> {Null} \cup Output]
    BY <1>2, <1>3, <1>4 DEF FrameInv, FrameTypes
  <2>2. Vertices' = Vertices
    BY <1>2 DEF Vertices
  <2> QED  BY <1>2, <2>1, <2>2 DEF FrameInv, FrameTypes
<1>6. ASSUME assembled # <<>>, NEW v \in Vertices
      PROVE  VertexOutputs'[v].vertex = VertexOutputs[v].vertex
  <2>1. VertexOutputs[v].vertex = VertexIndex(v)
    BY <1>6 DEF FrameInv, Placed
  <2> QED  BY <1>2, <1>3, <2>1 DEF FrameInv, FrameTypes
<1>7. Placed'
  <2>1. \A v : VertexIndex(v)' = VertexIndex(v)
    BY <1>2 DEF VertexIndex
  <2> QED  BY <1>2, <1>6, <2>1 DEF FrameInv, Placed, Vertices
<1>8. PendingOf'
  BY <1>2 DEF PendingOf
<1>9. Shapes' /\ InOrder' /\ Shows'
  <2>1. \A k \in DOMAIN assembled, p \in Pixel : Reached(k, p)' <=> Reached(k, p)
    BY <1>2 DEF Reached
  <2> QED  BY <1>1, <1>2, <1>6, <2>1, ShowsKept
<1> QED  BY <1>5, <1>7, <1>8, <1>9 DEF FrameInv

(* When the workers are through, they have passed every pixel that the      *)
(* primitive covers.                                                        *)
LEMMA DoneFrame ==
  ASSUME DrawInv, FrameInv, PrimitiveDone
  PROVE  FrameInv'
<1>1. draw \in Draws /\ Instance \in Nat /\ NextWorkIndex \in Nat
  BY DEF DrawInv, Types
<1>2. /\ pc = "fragment" /\ pc' = "primitive" /\ NextWorkIndex >= Len(PendingFragments)
      /\ PendingFragments' = <<>>
      /\ UNCHANGED <<draw, Instance, CurrentStage, VertexOutputs, array, shown, assembled>>
  BY DEF PrimitiveDone
<1>3. FrameTypes'
  BY <1>2 DEF FrameInv, FrameTypes, Vertices
<1>4. Placed'
  BY <1>2 DEF FrameInv, Placed, Vertices, VertexIndex
<1>5. PendingOf'
  BY <1>2 DEF PendingOf
<1>6. ASSUME NEW k \in DOMAIN assembled, NEW p \in Pixel, Right(assembled[k].of, p)
      PROVE  Reached(k, p)' <=> Reached(k, p)
  <2>1. ASSUME k = Len(assembled) PROVE Passed(p)
    <3>1. IsPrimitive(assembled[k].of)
      BY <1>1, AssembledAre
    <3>2. PendingFragments = Pending(assembled[k].of)
      BY <1>2, <2>1 DEF FrameInv, PendingOf
    <3>3. PICK i \in 1..Len(PendingFragments) : PendingFragments[i] = p
      BY <1>1, <1>6, <3>1, <3>2, CoveredIsPending DEF Right
    <3>4. Len(PendingFragments) \in Nat
      BY LenProperties DEF FrameInv, FrameTypes
    <3>5. i <= NextWorkIndex
      BY <1>1, <1>2, <3>4
    <3> QED  BY <3>3, <3>5 DEF Passed
  <2> QED  BY <1>2, <2>1 DEF Reached
<1>7. Shapes' /\ InOrder' /\ Shows'
  BY <1>1, <1>2, <1>6, ShowsKept
<1> QED  BY <1>3, <1>4, <1>5, <1>7 DEF FrameInv

(* A primitive has one vertex or three.                                     *)
LEMMA PrimitiveShape ==
  ASSUME draw \in Draws, \A i \in DOMAIN Primitive(next) : Primitive(next)[i] \in Vertices
  PROVE  /\ Primitive(next) \in Seq(Vertices)
         /\ Len(Primitive(next)) = IF draw.topology = "points" THEN 1 ELSE 3
<1>1. ASSUME NEW s, NEW x, NEW y, NEW z, s = <<x, y, z>>, \A i \in DOMAIN s : s[i] \in Vertices
      PROVE  s \in Seq(Vertices) /\ Len(s) = 3
  <2>1. 1 \in DOMAIN s /\ 2 \in DOMAIN s /\ 3 \in DOMAIN s /\ s[1] = x /\ s[2] = y /\ s[3] = z
    BY <1>1
  <2>2. x \in Vertices /\ y \in Vertices /\ z \in Vertices
    BY <1>1, <2>1
  <2> QED  BY <1>1, <2>2
<1>2. CASE draw.topology = "points"
  <2>1. Primitive(next) = <<next>>
    BY <1>2 DEF Primitive
  <2>2. next \in Vertices
    <3>1. 1 \in DOMAIN Primitive(next) /\ Primitive(next)[1] = next
      BY <2>1
    <3> QED  BY <3>1
  <2> QED  BY <1>2, <2>1, <2>2
<1>3. CASE draw.topology = "list"
  <2>1. Primitive(next) = <<next, next + 1, next + 2>>
    BY <1>3 DEF Primitive
  <2>2. Primitive(next) \in Seq(Vertices) /\ Len(Primitive(next)) = 3
    BY <1>1, <2>1
  <2> QED  BY <1>3, <2>2
<1>4. CASE draw.topology = "strip"
  <2>1. \/ Primitive(next) = <<next - 2, next - 1, next>>
        \/ Primitive(next) = <<next - 2, next, next - 1>>
    BY <1>4 DEF Primitive
  <2>2. Primitive(next) \in Seq(Vertices) /\ Len(Primitive(next)) = 3
    BY <1>1, <2>1
  <2> QED  BY <1>4, <2>2
<1>5. CASE draw.topology = "fan"
  <2>1. Primitive(next) = <<next - 1, next, 0>>
    BY <1>5 DEF Primitive
  <2>2. Primitive(next) \in Seq(Vertices) /\ Len(Primitive(next)) = 3
    BY <1>1, <2>1
  <2> QED  BY <1>5, <2>2
<1> QED  BY <1>2, <1>3, <1>4, <1>5, Parameters DEF Topology

(* A primitive is assembled: its pixels are pending, none of them passed.   *)
LEMMA StartFrame ==
  ASSUME DrawInv, FrameInv, StartPrimitive
  PROVE  FrameInv'
<1>1. draw \in Draws /\ Instance \in Nat
  BY DEF DrawInv, Types
<1>2. /\ pc = "primitive" /\ pc' = "fragment" /\ NextWorkIndex' = 0
      /\ \A i \in DOMAIN Primitive(next) : Primitive(next)[i] \in Vertices
      /\ assembled' = Append(assembled, [instance |-> Instance, of |-> Primitive(next)])
      /\ PendingFragments' = Pending(Primitive(next))
      /\ UNCHANGED <<draw, Instance, CurrentStage, VertexOutputs, array, shown>>
  BY DEF StartPrimitive
<1>3. PICK vs : vs = Primitive(next)
  OBVIOUS
<1>4. PICK n \in Nat : n = Len(assembled)
  BY LenProperties DEF FrameInv, FrameTypes
<1>5. /\ vs \in Seq(Vertices) /\ Len(vs) = IF draw.topology = "points" THEN 1 ELSE 3
  BY <1>1, <1>2, <1>3, PrimitiveShape
<1>6. \A v \in Vertices : VertexOutputs[v].vertex = VertexIndex(v)
  <2>1. \A v \in Vertices : IsFresh(v)
    BY <1>2 DEF DrawInv, OutputsFresh
  <2>2. ASSUME NEW v \in Vertices PROVE VertexOutputs[v].vertex = VertexIndex(v)
    <3>1. VertexOutputs[v] = [vertex |-> VertexIndex(v), instance |-> Instance + draw.instanceOffset]
      BY <2>1 DEF IsFresh
    <3> QED  BY <3>1
  <2> QED  BY <2>2
<1>7. IsPrimitive(vs)
  BY <1>1, <1>5, <1>6, OutputIs DEF IsPrimitive, Position
<1>8. /\ assembled' \in Seq([instance : Nat, of : Seq(Vertices)])
      /\ Len(assembled') = n + 1 /\ DOMAIN assembled' = 1..(n + 1) /\ DOMAIN assembled = 1..n
      /\ \A k \in 1..n : assembled'[k] = assembled[k]
      /\ assembled'[n + 1].of = vs /\ assembled' # <<>>
  <2>1. PICK e \in [instance : Nat, of : Seq(Vertices)] :
          e = [instance |-> Instance, of |-> Primitive(next)]
    BY <1>1, <1>3, <1>5
  <2>2. assembled' = Append(assembled, e) /\ e.of = vs
    BY <1>2, <1>3, <2>1
  <2>3. assembled \in Seq([instance : Nat, of : Seq(Vertices)])
    BY DEF FrameInv, FrameTypes
  <2>4. /\ assembled' \in Seq([instance : Nat, of : Seq(Vertices)])
        /\ Len(assembled') = n + 1 /\ assembled'[n + 1] = e /\ assembled' # <<>>
        /\ \A k \in 1..n : assembled'[k] = assembled[k]
    BY <1>4, <2>2, <2>3, AppendProperties
  <2> QED  BY <1>4, <2>2, <2>3, <2>4, LenProperties
<1>9. Vertices' = Vertices /\ Pending(vs)' = Pending(vs)
  <2>1. draw' = draw /\ VertexOutputs' = VertexOutputs
    BY <1>2
  <2>2. \A v : Position(v)' = Position(v)
    BY <2>1 DEF Position
  <2>3. \A axis, m : Bounds(vs, axis, m)' = Bounds(vs, axis, m)
    BY <2>2 DEF Bounds
  <2> QED  BY <2>1, <2>3 DEF Vertices, Pending
<1>10. FrameTypes'
  <2>1. PendingFragments' \in Seq(Pixel)
    BY <1>1, <1>2, <1>3, <1>7, PendingAre
  <2>2. ASSUME NEW p \in Pixel PROVE shown[p] \in Seq(DOMAIN assembled')
    <3>1. shown[p] \in Seq(1..n) /\ 1..n \subseteq 1..(n + 1)
      BY <1>8 DEF FrameInv, FrameTypes
    <3> QED  BY <1>8, <3>1, SeqMonotonic
  <2>3. shown' \in [Pixel -> Seq(DOMAIN assembled')]
    BY <1>2, <2>2 DEF FrameInv, FrameTypes
  <2> QED  BY <1>2, <1>8, <1>9, <2>1, <2>3 DEF FrameInv, FrameTypes
<1>11. Placed'
  <2>1. \A v : VertexIndex(v)' = VertexIndex(v)
    BY <1>2 DEF VertexIndex
  <2> QED  BY <1>2, <1>6, <1>9, <2>1 DEF Placed
<1>12. Shapes'
  <2>1. ASSUME NEW k \in 1..(n + 1)
        PROVE  Len(assembled'[k].of) = IF draw.topology = "points" THEN 1 ELSE 3
    <3>1. CASE k \in 1..n
      <4>1. k \in DOMAIN assembled /\ assembled'[k] = assembled[k]
        BY <1>8, <3>1
      <4> QED  BY <4>1 DEF FrameInv, Shapes
    <3>2. CASE k = n + 1
      BY <1>5, <1>8, <3>2
    <3> QED  BY <3>1, <3>2
  <2> QED  BY <1>2, <1>8, <2>1 DEF Shapes
<1>13. PendingOf'
  <2>1. assembled'[Len(assembled')].of = vs
    BY <1>8
  <2>2. Pending(assembled[Len(assembled)].of)' = Pending(vs)'
    BY <2>1
  <2> QED  BY <1>2, <1>3, <1>8, <1>9, <2>2 DEF PendingOf
<1>14. InOrder'
  BY <1>2 DEF FrameInv, InOrder
<1>15. ASSUME NEW p \in Pixel, NEW k \in 1..(n + 1)
       PROVE  Samples(k, p)' <=> Right(assembled[k].of, p)' /\ Reached(k, p)'
  <2>1. Samples(k, p)' <=> Samples(k, p)
    BY <1>2 DEF Samples
  <2>2. CASE k \in 1..n
    <3>1. k \in DOMAIN assembled /\ k # n + 1 /\ assembled'[k] = assembled[k]
      BY <1>8, <2>2
    <3>2. Right(assembled[k].of, p)' <=> Right(assembled[k].of, p)
      BY <1>1, <1>2, <3>1, RightKept
    <3>3. Samples(k, p) <=> Right(assembled[k].of, p) /\ Reached(k, p)
      BY <3>1 DEF FrameInv, Shows
    <3>4. Reached(k, p) /\ Reached(k, p)'
      BY <1>2, <1>8, <3>1 DEF Reached
    <3> QED  BY <2>1, <3>2, <3>3, <3>4
  <2>3. CASE k = n + 1
    <3>1. ~Samples(k, p)
      <4>1. shown[p] \in Seq(1..n)
        BY <1>8 DEF FrameInv, FrameTypes
      <4>2. \A i \in DOMAIN shown[p] : shown[p][i] \in 1..n
        BY <4>1, ElementOfSeq, LenProperties
      <4> QED  BY <2>3, <4>2 DEF Samples
    <3>2. ~Passed(p)'
      BY <1>2 DEF Passed
    <3>3. ~Reached(k, p)'
      BY <1>2, <1>8, <2>3, <3>2 DEF Reached
    <3> QED  BY <2>1, <3>1, <3>3
  <2> QED  BY <2>2, <2>3
<1>16. Shows'
  BY <1>8, <1>15 DEF Shows
<1> QED  BY <1>10, <1>11, <1>12, <1>13, <1>14, <1>16 DEF FrameInv

(* A worker passes a pixel, which it did not before.                        *)
LEMMA PassedOnce ==
  ASSUME DrawInv, FrameInv, ShadeFragment, NEW q, q = PendingFragments[NextWorkIndex + 1]
  PROVE  /\ q \in Pixel /\ InScissor(q) /\ ~Passed(q)
         /\ \A p : Passed(p)' <=> Passed(p) \/ p = q
<1>1. draw \in Draws /\ Instance \in Nat /\ NextWorkIndex \in Nat
  BY DEF DrawInv, Types
<1>2. /\ pc = "fragment" /\ NextWorkIndex < Len(PendingFragments)
      /\ NextWorkIndex' = NextWorkIndex + 1 /\ PendingFragments' = PendingFragments
  BY DEF ShadeFragment
<1>3. assembled # <<>> /\ PendingFragments = Pending(assembled[Len(assembled)].of)
  BY <1>2 DEF FrameInv, PendingOf
<1>4. Len(assembled) \in DOMAIN assembled
  BY <1>3, LenProperties, EmptySeq DEF FrameInv, FrameTypes
<1>5. PICK vs : vs = assembled[Len(assembled)].of
  OBVIOUS
<1>6. IsPrimitive(vs) /\ PendingFragments = Pending(vs)
  BY <1>1, <1>3, <1>4, <1>5, AssembledAre
<1>7. Len(PendingFragments) \in Nat /\ NextWorkIndex + 1 \in 1..Len(PendingFragments)
  BY <1>1, <1>2, LenProperties DEF FrameInv, FrameTypes
<1>8. q \in Pixel /\ InScissor(q)
  BY <1>1, <1>6, <1>7, PendingAre, ElementOfSeq
<1>9. \A i, j \in 1..Len(PendingFragments) : PendingFragments[i] = PendingFragments[j] => i = j
  BY <1>1, <1>6, PendingAre
<1>10. ~Passed(q)
  BY <1>1, <1>7, <1>9 DEF Passed
<1>11. ASSUME NEW p PROVE Passed(p)' <=> Passed(p) \/ p = q
  <2>1. ASSUME NEW i \in 1..Len(PendingFragments)
        PROVE  i <= NextWorkIndex + 1 <=> i <= NextWorkIndex \/ i = NextWorkIndex + 1
    BY <1>1
  <2> QED  BY <1>2, <1>7, <2>1 DEF Passed
<1> QED  BY <1>8, <1>10, <1>11

(* A fragment that is covered and lives is blended on top of its pixel.     *)
LEMMA FragmentFrame ==
  ASSUME DrawInv, FrameInv, ShadeFragment
  PROVE  FrameInv'
<1>1. draw \in Draws /\ Instance \in Nat
  BY DEF DrawInv, Types
<1>2. PICK q : q = PendingFragments[NextWorkIndex + 1]
  OBVIOUS
<1>3. PICK n \in Nat : n = Len(assembled)
  BY LenProperties DEF FrameInv, FrameTypes
<1>4. /\ pc = "fragment"
      /\ shown' = IF Covers(assembled[n].of, q) /\ q \notin draw.killed
                  THEN [shown EXCEPT ![q] = Append(@, n)] ELSE shown
      /\ UNCHANGED <<draw, pc, Instance, CurrentStage, VertexOutputs, PendingFragments, array,
                     assembled>>
  BY <1>2, <1>3 DEF ShadeFragment
<1>5. q \in Pixel /\ InScissor(q) /\ ~Passed(q) /\ \A p : Passed(p)' <=> Passed(p) \/ p = q
  BY <1>2, PassedOnce
<1>6. DOMAIN assembled = 1..n /\ n \in 1..n
  <2>1. assembled # <<>>
    BY <1>4 DEF FrameInv, PendingOf
  <2> QED  BY <1>3, <2>1, LenProperties, EmptySeq DEF FrameInv, FrameTypes
<1>7. \A p \in Pixel : shown[p] \in Seq(1..n)
  BY <1>6 DEF FrameInv, FrameTypes
<1>8. ~Samples(n, q)
  <2>1. ~Reached(n, q)
    BY <1>3, <1>4, <1>5 DEF Reached
  <2> QED  BY <1>5, <1>6, <2>1 DEF FrameInv, Shows
<1>9. ASSUME Right(assembled[n].of, q)
      PROVE  /\ shown' \in [Pixel -> Seq(1..n)] /\ InOrder'
             /\ \A p \in Pixel, k \in 1..n :
                  Samples(k, p)' <=> Samples(k, p) \/ (p = q /\ k = n)
  <2>1. shown' = [shown EXCEPT ![q] = Append(@, n)]
    BY <1>4, <1>9 DEF Right
  <2>2. /\ shown'[q] = Append(shown[q], n)
        /\ \A p \in Pixel : p # q => shown'[p] = shown[p]
        /\ DOMAIN shown' = Pixel
    BY <1>5, <2>1 DEF FrameInv, FrameTypes
  <2>3. PICK m \in Nat : m = Len(shown[q])
    BY <1>5, <1>7, LenProperties
  <2>4. /\ shown'[q] \in Seq(1..n) /\ DOMAIN shown'[q] = 1..(m + 1) /\ DOMAIN shown[q] = 1..m
        /\ \A i \in 1..m : shown'[q][i] = shown[q][i]
        /\ shown'[q][m + 1] = n
    <3>1. shown[q] \in Seq(1..n)
      BY <1>5, <1>7
    <3>2. /\ Append(shown[q], n) \in Seq(1..n) /\ Len(Append(shown[q], n)) = m + 1
          /\ \A i \in 1..m : Append(shown[q], n)[i] = shown[q][i]
          /\ Append(shown[q], n)[m + 1] = n
      BY <1>6, <2>3, <3>1, AppendProperties
    <3> QED  BY <2>2, <2>3, <3>1, <3>2, LenProperties
  <2>5. shown' \in [Pixel -> Seq(1..n)]
    <3>1. ASSUME NEW p \in Pixel PROVE shown'[p] \in Seq(1..n)
      BY <1>7, <2>2, <2>4
    <3> QED  BY <2>1, <3>1 DEF FrameInv, FrameTypes
  <2>6. InOrder'
    <3>1. ASSUME NEW p \in Pixel, NEW i \in DOMAIN shown'[p], NEW j \in DOMAIN shown'[p], i < j
          PROVE  shown'[p][i] < shown'[p][j]
      <4>1. CASE p # q
        BY <2>2, <3>1, <4>1 DEF FrameInv, InOrder
      <4>2. CASE p = q /\ j \in 1..m
        <5>1. i \in 1..m
          BY <2>4, <3>1, <4>2
        <5> QED  BY <1>5, <2>4, <3>1, <4>2, <5>1 DEF FrameInv, InOrder
      <4>3. CASE p = q /\ j = m + 1
        <5>1. i \in 1..m
          BY <2>4, <3>1, <4>3
        <5>2. shown[q][i] \in 1..n
          BY <1>5, <1>7, <2>3, <5>1, ElementOfSeq
        <5>3. shown[q][i] # n
          BY <1>8, <2>4, <5>1 DEF Samples
        <5> QED  BY <2>4, <4>3, <5>1, <5>2, <5>3
      <4> QED  BY <2>4, <4>1, <4>2, <4>3
    <3> QED  BY <3>1 DEF InOrder
  <2>7. ASSUME NEW p \in Pixel, NEW k \in 1..n
        PROVE  Samples(k, p)' <=> Samples(k, p) \/ (p = q /\ k = n)
    <3>1. CASE p # q
      BY <2>2, <3>1 DEF Samples
    <3>2. CASE p = q
      <4>1. Samples(k, p)' <=> \E i \in 1..(m + 1) : shown'[q][i] = k
        BY <2>4, <3>2 DEF Samples
      <4>2. Samples(k, p) <=> \E i \in 1..m : shown[q][i] = k
        BY <2>4, <3>2 DEF Samples
      <4>3. 1..(m + 1) = 1..m \cup {m + 1}
        BY <2>3
      <4> QED  BY <2>4, <3>2, <4>1, <4>2, <4>3
    <3> QED  BY <3>1, <3>2
  <2> QED  BY <1>9, <2>5, <2>6, <2>7
<1>10. ASSUME ~Right(assembled[n].of, q)
       PROVE  /\ shown' \in [Pixel -> Seq(1..n)] /\ InOrder'
              /\ \A p \in Pixel, k \in 1..n :
                   Samples(k, p)' <=> Samples(k, p)
  <2>1. shown' = shown
    BY <1>4, <1>5, <1>10 DEF Right
  <2>2. \A p, k : Samples(k, p)' <=> Samples(k, p)
    BY <2>1 DEF Samples
  <2> QED  BY <1>7, <1>10, <2>1, <2>2 DEF FrameInv, FrameTypes, InOrder
<1>11. /\ shown' \in [Pixel -> Seq(1..n)] /\ InOrder'
       /\ \A p \in Pixel, k \in 1..n :
            Samples(k, p)' <=> Samples(k, p) \/ (p = q /\ k = n /\ Right(assembled[n].of, q))
  <2>1. CASE Right(assembled[n].of, q)
    BY <1>9, <2>1
  <2>2. CASE ~Right(assembled[n].of, q)
    BY <1>10, <2>2
  <2> QED  BY <2>1, <2>2
<1>12. FrameTypes'
  BY <1>4, <1>6, <1>11 DEF FrameInv, FrameTypes, Vertices
<1>13. Placed'
  BY <1>4 DEF FrameInv, Placed, Vertices, VertexIndex
<1>14. Shapes'
  BY <1>4 DEF FrameInv, Shapes
<1>15. PendingOf'
  <2>1. PICK vs : vs = assembled[Len(assembled)].of
    OBVIOUS
  <2>2. draw' = draw /\ VertexOutputs' = VertexOutputs /\ assembled' = assembled
    BY <1>4
  <2>3. \A v : Position(v)' = Position(v)
    BY <2>2 DEF Position
  <2>4. \A axis, m : Bounds(vs, axis, m)' = Bounds(vs, axis, m)
    BY <2>3 DEF Bounds
  <2>5. Pending(vs)' = Pending(vs)
    BY <2>2, <2>4 DEF Pending
  <2>6. Pending(assembled[Len(assembled)].of)' = Pending(vs)'
    BY <2>1, <2>2
  <2> QED  BY <1>4, <2>1, <2>2, <2>5, <2>6 DEF FrameInv, PendingOf
<1>16. ASSUME NEW p \in Pixel, NEW k \in 1..n
       PROVE  Samples(k, p)' <=> Right(assembled[k].of, p)' /\ Reached(k, p)'
  <2>1. Right(assembled[k].of, p)' <=> Right(assembled[k].of, p)
    BY <1>1, <1>4, <1>6, RightKept
  <2>2. Samples(k, p) <=> Right(assembled[k].of, p) /\ Reached(k, p)
    BY <1>6 DEF FrameInv, Shows
  <2>3. Samples(k, p)' <=> Samples(k, p) \/ (p = q /\ k = n /\ Right(assembled[n].of, q))
    BY <1>11
  <2>4. Reached(k, p)' <=> Reached(k, p) \/ p = q
    BY <1>4, <1>5 DEF Reached
  <2>5. p = q => (Reached(k, p) <=> k # n)
    BY <1>3, <1>4, <1>5 DEF Reached
  <2> QED  BY <2>1, <2>2, <2>3, <2>4, <2>5
<1>17. Shows'
  BY <1>4, <1>6, <1>16 DEF Shows
<1> QED  BY <1>11, <1>12, <1>13, <1>14, <1>15, <1>17 DEF FrameInv

(* Every step keeps what is shown.                                          *)
LEMMA NextFrame == DrawInv /\ FrameInv /\ [Next]_vars => FrameInv'
<1> SUFFICES ASSUME DrawInv, FrameInv, [Next]_vars PROVE FrameInv'
  OBVIOUS
<1>1. CASE UNCHANGED vars
  <2> USE <1>1 DEF vars
  <2>1. draw \in Draws /\ Instance \in Nat
    BY DEF DrawInv, Types
  <2>2. FrameTypes'
    BY DEF FrameInv, FrameTypes, Vertices
  <2>3. Placed'
    BY DEF FrameInv, Placed, Vertices, VertexIndex
  <2>4. PendingOf'
    <3>1. PICK vs : vs = assembled[Len(assembled)].of
      OBVIOUS
    <3>2. Pending(vs)' = Pending(vs)
      <4>1. \A v : Position(v)' = Position(v)
        BY DEF Position
      <4>2. \A axis, m : Bounds(vs, axis, m)' = Bounds(vs, axis, m)
        BY <4>1 DEF Bounds
      <4> QED  BY <4>2 DEF Pending
    <3>3. Pending(assembled[Len(assembled)].of)' = Pending(vs)'
      BY <3>1
    <3> QED  BY <3>1, <3>2, <3>3 DEF FrameInv, PendingOf
  <2>5. \A k \in DOMAIN assembled, p \in Pixel : Reached(k, p)' <=> Reached(k, p)
    BY DEF Reached, Passed
  <2>6. Shapes' /\ InOrder' /\ Shows'
    BY <2>1, <2>5, ShowsKept
  <2> QED  BY <2>2, <2>3, <2>4, <2>6 DEF FrameInv
<1> QED  BY <1>1, QuietFrame, VertexFrame, StartFrame, FragmentFrame, DoneFrame
         DEF Next, Ended

(* The invariant of what is shown.                                          *)
LEMMA FrameInvHolds == Spec => [](DrawInv /\ FrameInv)
<1>1. Init => DrawInv /\ FrameInv
  BY InitHolds, InitFrame
<1>2. (DrawInv /\ FrameInv) /\ [Next]_vars => (DrawInv /\ FrameInv)'
  BY NextHolds, NextFrame
<1> QED  BY <1>1, <1>2, PTL DEF Spec

(* The attachment holds at each pixel, in the order of the draw, exactly    *)
(* the primitives that cover the pixel: the box of buildPendingFragments    *)
(* cuts none off, and no pixel is visited twice, whatever the sizes of the  *)
(* framebuffer, the scissor and the primitives.                             *)
THEOREM NothingIsMissed == Spec => []NothingMissed
<1>1. ASSUME DrawInv, FrameInv PROVE NothingMissed
  <2>1. TypeOK
    BY <1>1 DEF DrawInv, Types, FrameInv, FrameTypes, TypeOK, Output
  <2>2. ASSUME pc = "instance", NEW p \in Pixel
        PROVE  /\ \A i, j \in DOMAIN shown[p] : i < j => shown[p][i] < shown[p][j]
               /\ \A k \in DOMAIN assembled :
                    Samples(k, p) <=> /\ Covers(assembled[k].of, p)
                                      /\ InScissor(p) /\ p \notin draw.killed
    BY <1>1, <2>2 DEF FrameInv, InOrder, Shows, Right, Reached
  <2> QED  BY <2>1, <2>2 DEF NothingMissed
<1> QED  BY <1>1, FrameInvHolds, PTL

(* A triangle on an edge of which a pixel's centre is, by that edge.        *)
LEMMA EdgeFirst ==
  ASSUME DrawInv, FrameInv, pc = "instance", draw.topology # "points",
         NEW i \in DOMAIN assembled, NEW t, t = assembled[i].of, ~Culled(t), Area2(t) # 0,
         NEW P \in Corners(t), NEW Q \in Corners(t), P # Q
  PROVE  /\ P \in Point /\ Q \in Point
         /\ \E R \in Corners(t) \ {P, Q} :
              /\ R \in Point /\ Area(P, Q, R) # 0
              /\ \A p \in Pixel :
                   Samples(i, p) <=> /\ Sampled(P, Q, R, Centre(p))
                                     /\ InScissor(p) /\ p \notin draw.killed
<1>1. IsPrimitive(t) /\ Len(t) = 3
  BY AssembledAre DEF DrawInv, Types, IsPrimitive
<1>2. PICK A \in Point : A = Position(t[1])
  BY <1>1, CornersPlaced
<1>3. PICK B \in Point : B = Position(t[2])
  BY <1>1, CornersPlaced
<1>4. PICK C \in Point : C = Position(t[3])
  BY <1>1, CornersPlaced
<1>5. Corners(t) = {A, B, C}
  <2>1. 1..3 = {1, 2, 3}
    OBVIOUS
  <2>2. Corners(t) = {Position(t[1]), Position(t[2]), Position(t[3])}
    BY <2>1 DEF Corners
  <2> QED  BY <1>2, <1>3, <1>4, <2>2
<1>6. Area(A, B, C) # 0
  BY <1>2, <1>3, <1>4 DEF Area2
<1>7. PICK R \in {A, B, C} \ {P, Q} :
        /\ Area(P, Q, R) # 0
        /\ \A s \in Point : Sampled(A, B, C, s) <=> Sampled(P, Q, R, s)
  BY <1>5, <1>6, CornersFirst
<1>8. ASSUME NEW p \in Pixel
      PROVE  Samples(i, p) <=> /\ Sampled(P, Q, R, Centre(p))
                               /\ InScissor(p) /\ p \notin draw.killed
  <2>1. Samples(i, p) <=> Covers(t, p) /\ InScissor(p) /\ p \notin draw.killed
    BY DEF FrameInv, Shows, Reached, Right
  <2>2. Covers(t, p) <=> CoversTriangle(t, p)
    BY <1>1 DEF Covers
  <2>3. CoversTriangle(t, p) <=> Sampled(A, B, C, Centre(p))
    BY <1>2, <1>3, <1>4, CoversIsSampled
  <2>4. Centre(p) \in Point
    BY DEF Centre, Pixel, Point
  <2> QED  BY <1>7, <2>1, <2>2, <2>3, <2>4
<1> QED  BY <1>5, <1>7, <1>8

(* Of two triangles of an instance on the two sides of an edge one samples  *)
(* a pixel on the edge, and only one, whatever their places, their winding  *)
(* and the face that is in front: the rule of top and left edges.           *)
THEOREM SharedEdgesAreOnce == Spec => []SharedEdgesOnce
<1>1. ASSUME DrawInv, FrameInv PROVE SharedEdgesOnce
  <2>1. ASSUME pc = "instance", draw.topology # "points",
               NEW i \in DOMAIN assembled, NEW j \in DOMAIN assembled,
               NEW t, t = assembled[i].of, NEW u, u = assembled[j].of,
               ~Culled(t), ~Culled(u),
               NEW P \in Corners(t), NEW Q \in Corners(t), Across(t, u, P, Q),
               NEW p \in Pixel, OnSegment(Centre(p), P, Q)
        PROVE  /\ ~(Samples(i, p) /\ Samples(j, p))
               /\ Centre(p) \notin {P, Q} /\ InScissor(p) /\ p \notin draw.killed
                    => Samples(i, p) \/ Samples(j, p)
    <3>1. /\ P # Q /\ P \in Corners(u) /\ Q \in Corners(u) /\ Area2(t) # 0 /\ Area2(u) # 0
          /\ \A R \in Corners(t) \ {P, Q}, S \in Corners(u) \ {P, Q} :
               Area(P, Q, R) > 0 <=> Area(P, Q, S) < 0
      BY <2>1 DEF Across
    <3>2. P \in Point /\ Q \in Point
      BY <1>1, <2>1, <3>1, EdgeFirst
    <3>3. PICK R \in Corners(t) \ {P, Q} :
            /\ R \in Point /\ Area(P, Q, R) # 0
            /\ Samples(i, p) <=> /\ Sampled(P, Q, R, Centre(p))
                                 /\ InScissor(p) /\ p \notin draw.killed
      BY <1>1, <2>1, <3>1, EdgeFirst
    <3>4. PICK S \in Corners(u) \ {P, Q} :
            /\ S \in Point /\ Area(P, Q, S) # 0
            /\ Samples(j, p) <=> /\ Sampled(P, Q, S, Centre(p))
                                 /\ InScissor(p) /\ p \notin draw.killed
      BY <1>1, <2>1, <3>1, EdgeFirst
    <3>5. Area(P, Q, R) > 0 <=> Area(P, Q, S) < 0
      BY <3>1
    <3>6. Centre(p) \in Point
      BY DEF Centre, Pixel, Point
    <3>7. /\ ~(Sampled(P, Q, R, Centre(p)) /\ Sampled(P, Q, S, Centre(p)))
          /\ Centre(p) \notin {P, Q} => Sampled(P, Q, R, Centre(p)) \/ Sampled(P, Q, S, Centre(p))
      BY <2>1, <3>1, <3>2, <3>3, <3>4, <3>5, <3>6, SharedOnce
    <3> QED  BY <3>3, <3>4, <3>7
  <2> QED  BY <2>1 DEF SharedEdgesOnce, Centre
<1> QED  BY <1>1, FrameInvHolds, PTL
================================================================================
