--------------------------------- MODULE Draw ---------------------------------
(***************************************************************************)
(* One draw command in PipelineExecutor::run(const DrawCommandBase &):     *)
(* for each instance the vertex shader runs for every vertex, the          *)
(* primitives are assembled from its outputs, and each is rasterized into  *)
(* fragments that are blended into the attachment.                         *)
(*                                                                         *)
(* Coordinates are framebuffer coordinates in halves of a pixel, so that   *)
(* the vertices and the pixel centres that matter are integers; arithmetic *)
(* is exact.  What shaders compute from their inputs is left out: a vertex *)
(* shader places vertex number n at positions[n].                          *)
(***************************************************************************)
EXTENDS Integers, Sequences, FiniteSets

CONSTANTS Draws,          \* draw commands, with the state of their context
          Width, Height,  \* of the framebuffer, in pixels
          NumberSpan,     \* vertex numbers are 32 bits wide: 2^32
          PointSize,      \* in pixels
          Null

Pixel == (0..(Width - 1)) \X (0..(Height - 1))
Topology == {"points", "list", "strip", "fan"}

ASSUME SizeAssumption ==
  /\ Width \in Nat \ {0} /\ Height \in Nat \ {0} /\ NumberSpan \in Nat \ {0}
  /\ PointSize \in Nat
ASSUME DrawAssumption == \A d \in Draws :
  /\ d.topology \in Topology /\ d.numVertices \in Nat
  /\ d.numInstances \in Nat /\ d.instanceOffset \in Nat
  /\ d.indexed \in BOOLEAN /\ d.vertexOffset \in Int /\ d.indexOffset \in Nat
  /\ d.frontFace \in {"ccw", "cw"} /\ d.cullMode \subseteq {"front", "back"}
  /\ d.discard \in BOOLEAN /\ d.arrays \in BOOLEAN /\ d.killed \subseteq Pixel
  /\ d.indexed => \A v \in 0..(d.numVertices - 1) : d.indices[v + d.indexOffset + 1] \in Nat
\* A vertex has a place; a scissor is a rectangle.
ASSUME PlaceAssumption == \A d \in Draws :
  /\ \A n \in 0..(NumberSpan - 1) : d.positions[n] \in Int \X Int
  /\ \A axis \in {1, 2} : /\ d.scissor[axis] \subseteq Int
                          /\ \/ d.scissor[axis] = {}
                             \/ \E x, z \in d.scissor[axis] : d.scissor[axis] = x..z
ASSUME NullAssumption == Null \notin [vertex : Nat, instance : Nat]

VARIABLES
  draw,           \* the command
  pc,             \* the loop the executor is in
  Instance,
  NextWorkIndex,
  next,           \* v, the variable of the loop over primitives
  CurrentStage,
  VertexOutputs,
  PendingFragments,
  array,          \* the copy that an array of descriptors is given
  shown,          \* per pixel the primitives blended into it, oldest first
  assembled       \* history: the primitives that were assembled

vars == <<draw, pc, Instance, NextWorkIndex, next, CurrentStage, VertexOutputs,
          PendingFragments, array, shown, assembled>>

Vertices == 0..(draw.numVertices - 1)

TypeOK ==
  /\ draw \in Draws
  /\ pc \in {"instance", "vertex", "primitive", "fragment", "stop", "done", "crashed"}
  /\ Instance \in 0..draw.numInstances /\ NextWorkIndex \in Nat /\ next \in Nat
  /\ CurrentStage \in {"none", "vertex", "fragment"}
  /\ VertexOutputs \in
       [Vertices -> {Null} \cup [vertex : 0..(NumberSpan - 1), instance : Nat]]
  /\ PendingFragments \in Seq(Pixel)
  /\ array \in {"none", "live", "released"}
  /\ shown \in [Pixel -> Seq(DOMAIN assembled)]
  /\ assembled \in Seq([instance : Nat, of : Seq(Vertices)])

Init ==
  /\ draw \in Draws
  /\ pc = "instance" /\ Instance = 0 /\ NextWorkIndex = 0 /\ next = 0
  /\ CurrentStage = "none" /\ array = "none"
  /\ VertexOutputs = [v \in Vertices |-> Null]
  /\ PendingFragments = <<>>
  /\ shown = [p \in Pixel |-> <<>>] /\ assembled = <<>>

-------------------------------------------------------------------------------
(* initializeVariables gives an array of descriptors a live allocation with *)
(* copies of its elements; finalizeVariables copies them back, releases it. *)
Variables(state) == array' = IF draw.arrays THEN state ELSE array

Crash == pc' = "crashed" /\ UNCHANGED <<draw, Instance, NextWorkIndex, next,
           CurrentStage, VertexOutputs, PendingFragments, array, shown, assembled>>

\* The head of the loop over instances.
StartInstance ==
  /\ pc = "instance" /\ Instance < draw.numInstances
  /\ CurrentStage' = "vertex" /\ Variables("live")
  /\ NextWorkIndex' = 0
  /\ pc' = "vertex"
  /\ UNCHANGED <<draw, Instance, next, VertexOutputs, PendingFragments, shown, assembled>>

\* The number of a vertex, in 32 bits.  Faults: it does not wrap round; the indices
\* are read from their start.
VertexIndexUnwrapped(w) ==
  (IF draw.indexed THEN draw.indices[w + draw.indexOffset + 1] ELSE w) + draw.vertexOffset
VertexIndexFromStart(w) ==
  ((IF draw.indexed THEN draw.indices[w + 1] ELSE w) + draw.vertexOffset) % NumberSpan
VertexIndex(w) ==
  ((IF draw.indexed THEN draw.indices[w + draw.indexOffset + 1] ELSE w)
     + draw.vertexOffset) % NumberSpan

\* One iteration of runVertexWorker.
ShadeVertex ==
  /\ pc = "vertex" /\ NextWorkIndex < draw.numVertices
  /\ VertexOutputs' = [VertexOutputs EXCEPT ![NextWorkIndex] =
       [vertex |-> VertexIndex(NextWorkIndex), instance |-> Instance + draw.instanceOffset]]
  /\ NextWorkIndex' = NextWorkIndex + 1
  /\ UNCHANGED <<draw, pc, Instance, next, CurrentStage, PendingFragments, array,
                 shown, assembled>>

\* for (v = 2; ...) of strips and fans.
FirstPrimitive == IF draw.topology \in {"strip", "fan"} THEN 2 ELSE 0

\* All vertices are shaded: the variables of the vertex stage are finalized and, to
\* rasterize the instance, those of the fragment stage initialized ...
VerticesDone ==
  /\ pc = "vertex" /\ NextWorkIndex >= draw.numVertices /\ ~draw.discard
  /\ CurrentStage' = "fragment" /\ Variables("live")
  /\ next' = FirstPrimitive
  /\ pc' = "primitive"
  /\ UNCHANGED <<draw, Instance, NextWorkIndex, VertexOutputs, PendingFragments,
                 shown, assembled>>

\* ... unless rasterizerDiscardEnable.
Discard ==
  /\ pc = "vertex" /\ NextWorkIndex >= draw.numVertices /\ draw.discard
  /\ Variables("released")
  /\ Instance' = Instance + 1
  /\ pc' = "instance"
  /\ UNCHANGED <<draw, NextWorkIndex, next, CurrentStage, VertexOutputs,
                 PendingFragments, shown, assembled>>

-------------------------------------------------------------------------------
(* Assembly.                                                               *)

\* The vertices of the primitive at v, in the order they are passed.
\* Fault: a strip does not turn every other triangle round.
PrimitiveUnturned(v) ==
  CASE draw.topology = "points" -> <<v>>
    [] draw.topology = "list"   -> <<v, v + 1, v + 2>>
    [] draw.topology = "strip"  -> <<v - 2, v - 1, v>>
    [] draw.topology = "fan"    -> <<v - 1, v, 0>>
Primitive(v) ==
  CASE draw.topology = "points" -> <<v>>
    [] draw.topology = "list"   -> <<v, v + 1, v + 2>>
    [] draw.topology = "strip"  -> IF v % 2 = 0 THEN <<v - 2, v - 1, v>>
                                                ELSE <<v - 2, v, v - 1>>
    [] draw.topology = "fan"    -> <<v - 1, v, 0>>

Position(v) == draw.positions[VertexOutputs[v].vertex]
\* Twice the area of a triangle, as TriArea2.
Area(a, b, c) == (c[1] - a[1]) * (b[2] - a[2]) - (b[1] - a[1]) * (c[2] - a[2])
Least(S)    == CHOOSE x \in S : \A y \in S : x <= y
Greatest(S) == CHOOSE x \in S : \A y \in S : x >= y
Clamp(x, n) == IF x < 0 THEN 0 ELSE IF x >= n THEN n - 1 ELSE x

\* The sides of the bounding box along one axis, from floor to ceil.
\* Fault: the upper side is exclusive.
BoundsExclusive(vs, axis, n) ==
  LET reach == IF Len(vs) = 1 THEN PointSize ELSE 0
      xs    == {Position(vs[i])[axis] : i \in DOMAIN vs}
  IN Clamp((Least(xs) - reach) \div 2, n)..(Clamp((Greatest(xs) + reach + 1) \div 2, n) - 1)
Bounds(vs, axis, n) ==
  LET reach == IF Len(vs) = 1 THEN PointSize ELSE 0
      xs    == {Position(vs[i])[axis] : i \in DOMAIN vs}
  IN Clamp((Least(xs) - reach) \div 2, n)..Clamp((Greatest(xs) + reach + 1) \div 2, n)

\* buildPendingFragments: the pixels of the box in the scissor, row by row.
InScissor(p) == p[1] \in draw.scissor[1] /\ p[2] \in draw.scissor[2]
Pending(vs) ==
  LET xs == Bounds(vs, 1, Width) \cap draw.scissor[1]
      ys == Bounds(vs, 2, Height) \cap draw.scissor[2]
      w  == Cardinality(xs)
  IN [i \in 1..(w * Cardinality(ys)) |->
        <<Least(xs) + ((i - 1) % w), Least(ys) + ((i - 1) \div w)>>]

Area2(t) == Area(Position(t[1]), Position(t[2]), Position(t[3]))
FrontFacing(t) == IF draw.frontFace = "ccw" THEN Area2(t) > 0 ELSE Area2(t) < 0
Culled(t) == \/ FrontFacing(t) /\ "front" \in draw.cullMode
             \/ ~FrontFacing(t) /\ "back" \in draw.cullMode

\* rasterizePoint and rasterizeTriangle, up to the fragment worker.
StartPrimitive ==
  /\ pc = "primitive" /\ next < draw.numVertices
  /\ \A i \in DOMAIN Primitive(next) : Primitive(next)[i] \in Vertices
  /\ assembled' = Append(assembled, [instance |-> Instance, of |-> Primitive(next)])
  /\ PendingFragments' = Pending(Primitive(next))
  /\ NextWorkIndex' = 0
  /\ pc' = "fragment"
  /\ UNCHANGED <<draw, Instance, next, CurrentStage, VertexOutputs, array, shown>>

\* The remainder of a list: an element past the end of VertexOutputs.
PastTheEnd ==
  /\ pc = "primitive" /\ next < draw.numVertices
  /\ \E i \in DOMAIN Primitive(next) : Primitive(next)[i] \notin Vertices
  /\ Crash

-------------------------------------------------------------------------------
(* Fragments.                                                              *)

\* An edge of a triangle, turned round when the triangle faces back.
Edge(t, a, b) == IF FrontFacing(t) THEN <<b[1] - a[1], b[2] - a[2]>>
                                   ELSE <<a[1] - b[1], a[2] - b[2]>>
\* A sample on an edge is the triangle's for top and left edges only.
\* Fault: every edge is.
OwnsEvery(e) == TRUE
Owns(e) == (e[2] = 0 /\ e[1] < 0) \/ e[2] > 0

\* The barycentric coordinates have the sign of the areas over Area2; a triangle
\* without area has none that are all >= 0.
CoversTriangle(t, p) ==
  LET A == Position(t[1])  B == Position(t[2])  C == Position(t[3])
      centre == <<2 * p[1] + 1, 2 * p[2] + 1>>
      a == Area(B, C, centre)  b == Area(C, A, centre)  c == Area(A, B, centre)
      inside(x) == IF Area2(t) > 0 THEN x >= 0 ELSE x <= 0
  IN /\ Area2(t) # 0
     /\ inside(a) /\ inside(b) /\ inside(c)
     /\ a = 0 => Owns(Edge(t, B, C))
     /\ b = 0 => Owns(Edge(t, C, A))
     /\ c = 0 => Owns(Edge(t, A, B))

\* 0 <= S <= 1 and 0 <= T <= 1.
CoversPoint(v, p) ==
  \A axis \in {1, 2} : LET d == 2 * p[axis] + 1 - Position(v)[axis] IN
    -PointSize <= d /\ d <= PointSize

Covers(vs, p) == IF Len(vs) = 1 THEN CoversPoint(vs[1], p)
                                ELSE ~Culled(vs) /\ CoversTriangle(vs, p)

\* One iteration of a fragment worker, with processFragment: a fragment that is not
\* killed is blended with what the attachment holds.
ShadeFragment ==
  /\ pc = "fragment" /\ NextWorkIndex < Len(PendingFragments)
  /\ LET p == PendingFragments[NextWorkIndex + 1]  k == Len(assembled) IN
       shown' = IF Covers(assembled[k].of, p) /\ p \notin draw.killed
                THEN [shown EXCEPT ![p] = Append(@, k)] ELSE shown
  /\ NextWorkIndex' = NextWorkIndex + 1
  /\ UNCHANGED <<draw, pc, Instance, next, CurrentStage, VertexOutputs,
                 PendingFragments, array, assembled>>

\* The work is done: PendingFragments.clear(), and the next primitive.
Stride == IF draw.topology = "list" THEN 3 ELSE 1
PrimitiveDone ==
  /\ pc = "fragment" /\ NextWorkIndex >= Len(PendingFragments)
  /\ PendingFragments' = <<>>
  /\ next' = next + Stride
  /\ pc' = "primitive"
  /\ UNCHANGED <<draw, Instance, NextWorkIndex, CurrentStage, VertexOutputs, array,
                 shown, assembled>>

\* All primitives are rasterized.
InstanceDone ==
  /\ pc = "primitive" /\ next >= draw.numVertices
  /\ Variables("released")
  /\ Instance' = Instance + 1
  /\ pc' = "instance"
  /\ UNCHANGED <<draw, NextWorkIndex, next, CurrentStage, VertexOutputs,
                 PendingFragments, shown, assembled>>

\* stop finalizes the variables of the current stage, with the descriptors bound for
\* compute: it needs a stage, and an array has been finalized before.
Stop ==
  /\ pc = "instance" /\ Instance = draw.numInstances
  /\ CurrentStage # "none" /\ ~draw.arrays
  /\ CurrentStage' = "none"
  /\ pc' = "done"
  /\ UNCHANGED <<draw, Instance, NextWorkIndex, next, VertexOutputs,
                 PendingFragments, array, shown, assembled>>

StopFails ==
  /\ pc = "instance" /\ Instance = draw.numInstances
  /\ CurrentStage = "none" \/ draw.arrays
  /\ Crash

Ended == pc \in {"done", "crashed"} /\ UNCHANGED vars

Next == \/ StartInstance \/ ShadeVertex \/ VerticesDone \/ Discard
        \/ StartPrimitive \/ PastTheEnd \/ ShadeFragment \/ PrimitiveDone
        \/ InstanceDone \/ Stop \/ StopFails \/ Ended

Spec == Init /\ [][Next]_vars
-------------------------------------------------------------------------------
(* An instance is rasterized from outputs of its own vertices only: the     *)
(* outputs are kept from one instance to the next, and the 32-bit vertex    *)
(* number is the index plus a vertexOffset that may be negative.            *)
FreshVertices ==
  pc \in {"primitive", "fragment"} =>
    \A v \in Vertices :
      /\ VertexOutputs[v] # Null
      /\ VertexOutputs[v].instance = draw.instanceOffset + Instance
      /\ LET n == draw.vertexOffset + (IF draw.indexed
                    THEN draw.indices[draw.indexOffset + v + 1] ELSE v)
         IN n \in 0..(NumberSpan - 1) => VertexOutputs[v].vertex = n

(* Vulkan's definition of the topologies: which primitives, with which      *)
(* winding, and in which order a draw consists of (the loops of run).       *)
Count == CASE draw.topology = "points" -> draw.numVertices
           [] draw.topology = "list"   -> draw.numVertices \div 3
           [] OTHER -> IF draw.numVertices < 2 THEN 0 ELSE draw.numVertices - 2
Specified(k) == CASE draw.topology = "points" -> <<k>>
                  [] draw.topology = "list"  -> <<3 * k, 3 * k + 1, 3 * k + 2>>
                  [] draw.topology = "strip" -> <<k, k + 1 + (k % 2), k + 2 - (k % 2)>>
                  [] draw.topology = "fan"   -> <<k + 1, k + 2, 0>>
PrimitivesAsSpecified ==
  /\ \A i \in DOMAIN assembled :
       /\ assembled[i].instance = (i - 1) \div Count
       /\ assembled[i].of = Specified((i - 1) % Count)
  /\ pc = "done" => Len(assembled) = IF draw.discard THEN 0 ELSE draw.numInstances * Count

(* "Only fill top-left edges to avoid double-sampling on shared edges": of  *)
(* two triangles on the two sides of an edge, whatever the winding of each, *)
(* one and only one samples a pixel on the edge, unless it is culled.       *)
Corners(t) == {Position(t[i]) : i \in 1..3}
OnSegment(c, P, Q) ==
  /\ Area(P, Q, c) = 0
  /\ \A axis \in {1, 2} : \/ P[axis] <= c[axis] /\ c[axis] <= Q[axis]
                          \/ Q[axis] <= c[axis] /\ c[axis] <= P[axis]
Across(t, u, P, Q) ==
  /\ P # Q /\ {P, Q} \subseteq Corners(t) /\ {P, Q} \subseteq Corners(u)
  /\ Area2(t) # 0 /\ Area2(u) # 0
  /\ \A R \in Corners(t) \ {P, Q}, S \in Corners(u) \ {P, Q} :
       Area(P, Q, R) > 0 <=> Area(P, Q, S) < 0
Samples(i, p) == \E k \in DOMAIN shown[p] : shown[p][k] = i
SharedEdgesOnce ==
  pc = "instance" /\ draw.topology # "points" =>
    \A i, j \in DOMAIN assembled :
      LET t == assembled[i].of  u == assembled[j].of IN
      i < j /\ assembled[i].instance = assembled[j].instance
      /\ ~Culled(t) /\ ~Culled(u) =>
        \A P, Q \in Corners(t) : Across(t, u, P, Q) =>
          \A p \in Pixel : LET c == <<2 * p[1] + 1, 2 * p[2] + 1>> IN
            OnSegment(c, P, Q) =>
              /\ ~(Samples(i, p) /\ Samples(j, p))
              /\ c \notin {P, Q} /\ InScissor(p) /\ p \notin draw.killed
                   => Samples(i, p) \/ Samples(j, p)

(* The bounding box, clamped to the framebuffer and the scissor, cuts no    *)
(* pixel off: the attachment holds, in the order of the draw, exactly the   *)
(* primitives that cover the pixel.                                         *)
NothingMissed ==
  /\ TypeOK
  /\ pc = "instance" => \A p \in Pixel :
       /\ \A i, j \in DOMAIN shown[p] : i < j => shown[p][i] < shown[p][j]
       /\ \A k \in DOMAIN assembled :
            Samples(k, p) <=> Covers(assembled[k].of, p) /\ InScissor(p) /\ p \notin draw.killed
===============================================================================
