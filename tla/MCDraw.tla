-------------------------------- MODULE MCDraw --------------------------------
(***************************************************************************)
(* Instances of Draw for TLC: the draw commands.                           *)
(***************************************************************************)
EXTENDS Draw, TLC

At(ps) == [n \in 0..(NumberSpan - 1) |-> ps[1 + (n % Len(ps))]]
\* A draw of four vertices, one instance, with everything enabled.
Plain(ps) == [topology |-> "strip", numVertices |-> 4, numInstances |-> 1,
              instanceOffset |-> 0, indexed |-> FALSE, vertexOffset |-> 0,
              indexOffset |-> 0, indices |-> <<>>, frontFace |-> "ccw",
              cullMode |-> {}, discard |-> FALSE, arrays |-> FALSE, killed |-> {},
              scissor |-> <<0..(Width - 1), 0..(Height - 1)>>, positions |-> At(ps)]

\* Two triangles on four vertices at pixel centres: a strip, a fan, and a list in
\* which the two may wind in opposite ways.
Centre == {1, 3, 5} \X {1, 3, 5}
Quads  == {<<a, b, c, d>> : a \in {<<1, 1>>, <<3, 1>>, <<3, 3>>}, b, c, d \in Centre}
TwoTriangles(d) ==
  {d, [d EXCEPT !.topology = "fan", !.frontFace = "cw"],
   [d EXCEPT !.topology = "list", !.numVertices = 6, !.indexed = TRUE,
             !.indices = <<0, 1, 2, 1, 2, 3>>]}
Meshes == UNION {TwoTriangles(Plain(q)) : q \in Quads}

\* A fan round a centre, larger than the framebuffer and between pixel centres.
Round == <<<<3, 3>>, <<0, 0>>, <<8, 1>>, <<6, 7>>, <<-3, 5>>, <<0, 0>>>>
Fan   == [Plain(Round) EXCEPT !.topology = "fan", !.numVertices = 6]
Strip == [Plain(Round) EXCEPT !.numVertices = 6]

\* Instances, indices and offsets; faces that are culled; pixels that are left out.
Special ==
  {Fan, Strip,
   [Fan EXCEPT !.numInstances = 2, !.instanceOffset = 1],
   [Fan EXCEPT !.cullMode = {"front"}], [Fan EXCEPT !.cullMode = {"back"}],
   [Fan EXCEPT !.scissor = <<1..2, 0..1>>], [Fan EXCEPT !.scissor = <<3..4, 0..2>>],
   [Fan EXCEPT !.killed = {<<1, 1>>, <<0, 1>>}],
   [Strip EXCEPT !.indexed = TRUE, !.indices = <<7, 6, 5, 4, 3, 2, 1, 2>>,
                 !.indexOffset = 2, !.vertexOffset = -1, !.numInstances = 2],
   [Strip EXCEPT !.numVertices = 3, !.vertexOffset = 2],
   [Strip EXCEPT !.vertexOffset = -3],
   [Strip EXCEPT !.numVertices = 2], [Fan EXCEPT !.numVertices = 0],
   [Fan EXCEPT !.topology = "points"],
   [Fan EXCEPT !.topology = "list", !.numInstances = 2],
   [Fan EXCEPT !.discard = TRUE, !.numInstances = 2]}
Sound == Meshes \cup Special

\* Draws at the end of which the executor fails: without instances, with arrays of
\* descriptors, and with vertices that are left over.
Failing == {[Fan EXCEPT !.numInstances = 0], [Strip EXCEPT !.arrays = TRUE],
            [Fan EXCEPT !.topology = "list", !.numVertices = 4]}
All == Sound \cup Failing
===============================================================================
