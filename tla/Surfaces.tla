------------------------------ MODULE Surfaces ------------------------------
(***************************************************************************)
(* What images and buffers promise, without addresses: an image is a       *)
(* function of mip level, array layer and coordinate, a buffer is a        *)
(* function of byte offsets, and a command changes the places it names.    *)
(* That is what Vulkan asks for, except for the departures of the code,    *)
(* which are called so where they are.                                     *)
(*                                                                         *)
(* A place is <<image, level, layer, x, y, z>> and holds the bytes of one  *)
(* texel, or <<buffer, offset>> and holds a byte.  last is the latest      *)
(* command, as in Images; texels are converted as Texel says.              *)
(***************************************************************************)
EXTENDS Texel, TLC

CONSTANTS Image, Buffer, Info, BufferSize, ViewInfo

VARIABLES content, result, last

vars == <<content, result, last>>

Span(first, n) == first..(first + n - 1)

Places == PlacesOf(Info, BufferSize)

Bytes1(b, n, k) == [j \in 1..k |-> content[<<b, n + j - 1>>]]

\* new is a function of the places that change.
Becomes(new) == content' = new @@ content

\* Regions of one command name places of their own, so they are one function.
Regions(New(_)) ==
  LET each == [k \in DOMAIN last'.regions |-> New(last'.regions[k])]
  IN Becomes(FoldLeft(LAMBDA f, g : g @@ f, <<>>, each))

CopyBuffer ==
  LET c == last' IN
  Regions(LAMBDA r : [p \in {<<c.dst, n>> : n \in Span(r.dstOffset, r.size)} |->
                        content[<<c.src, p[2] - r.dstOffset + r.srcOffset>>]])

\* The texels of a region that is copied between an image and a buffer.
RegionTexels(i, r) ==
  {<<i, r.level, layer, x, y, z>> :
     layer \in Span(r.layer, r.layers), x \in Span(r.xyz[1], r.extent[1]),
     y \in Span(r.xyz[2], r.extent[2]), z \in Span(r.xyz[3], r.extent[3])}

\* Where the buffer has the texel p: rows, and slices or layers of rows.
BufferOffset(r, p, size) ==
  LET row == IF r.rowLength = 0 THEN r.extent[1] ELSE r.rowLength
      rows == IF r.imageHeight = 0 THEN r.extent[2] ELSE r.imageHeight
      slice == (p[3] - r.layer) + (p[6] - r.xyz[3])
  IN r.offset + size * ((p[4] - r.xyz[1])
                          + row * ((p[5] - r.xyz[2]) + rows * slice))

CopyBufferToImage ==
  LET c == last'  size == ElementSize(Info[c.dst].format) IN
  Regions(LAMBDA r : [p \in RegionTexels(c.dst, r) |->
                        Bytes1(c.src, BufferOffset(r, p, size), size)])

CopyImageToBuffer ==
  LET c == last'  size == ElementSize(Info[c.src].format) IN
  Regions(LAMBDA r :
    LET texels == RegionTexels(c.src, r)
        to(p) == Span(BufferOffset(r, p, size), size)
    IN [q \in {<<c.dst, n>> : n \in UNION {to(p) : p \in texels}} |->
          LET p == CHOOSE t \in texels : q[2] \in to(t)
          IN content[p][q[2] - BufferOffset(r, p, size) + 1]])

\* A departure: the texels go to layer 0, whichever layer the region names.
CopyImage ==
  LET c == last' IN
  Regions(LAMBDA r :
    [p \in {<<c.dst, 0, 0, r.dstXyz[1] + x, r.dstXyz[2] + y, r.dstXyz[3] + z>> :
              x \in Span(0, r.extent[1]), y \in Span(0, r.extent[2]),
              z \in Span(0, r.extent[3])} |->
       content[<<c.src, 0, 0, p[4] - r.dstXyz[1] + r.srcXyz[1],
                 p[5] - r.dstXyz[2] + r.srcXyz[2],
                 p[6] - r.dstXyz[3] + r.srcXyz[3]>>]])

\* s is the source coordinate of x: the texel that the middle of texel x of the
\* destination falls into, when the destination box is laid over the source.
Scaled(x, s, srcBox, dstBox) ==
  LET src == srcBox[2] - srcBox[1]  dst == dstBox[2] - dstBox[1]
      sign == IF dst < 0 THEN -1 ELSE 1
      off == sign * ((2 * (x - dstBox[1]) + 1) * src
                       - 2 * (s - srcBox[1]) * dst)
  IN 0 <= off /\ off < 2 * sign * dst

BlitImage ==
  LET c == last'  from == Info[c.src]  to == Info[c.dst]
      box(b) == Min({b[1], b[2]})..(Max({b[1], b[2]}) - 1)
      source(x, srcBox, dstBox) ==
        CHOOSE s \in box(srcBox) : Scaled(x, s, srcBox, dstBox)
  IN Regions(LAMBDA r :
       [p \in {<<c.dst, r.dstLevel, r.dstLayer + l, x, y, z>> :
                 l \in Span(0, r.layers), x \in box(r.dst[1]),
                 y \in box(r.dst[2]), z \in box(r.dst[3])} |->
          Write(to.format,
            Read(from.format,
              content[<<c.src, r.srcLevel, p[3] - r.dstLayer + r.srcLayer,
                        source(p[4], r.src[1], r.dst[1]),
                        source(p[5], r.src[2], r.dst[2]),
                        source(p[6], r.src[3], r.dst[3])>>]))])

\* Levels or layers from the first of n on, to the last one if the count is
\* Rest.
Counted(first, n, all) == IF n = Rest THEN first..(all - 1) ELSE Span(first, n)

ClearColorImage ==
  LET c == last'  info == Info[c.dst] IN
  Regions(LAMBDA r :
    [p \in {q \in Places :
              /\ q[1] = c.dst
              /\ q[2] \in Counted(r.level, r.levels, info.levels)
              /\ q[3] \in Counted(r.layer, r.layers, info.layers)} |->
       Write(info.format, c.color)])

\* The place of a texel of a view, and its bytes.
ViewPlace(v, xyz, layer, level) ==
  <<ViewInfo[v].of, ViewInfo[v].level + level, ViewInfo[v].layer + layer,
    xyz[1], xyz[2], xyz[3]>>
ViewTexel(v, xyz, layer, level) ==
  LET info == ViewInfo[v]  size == ElementSize(info.format) IN
  IF info.of \in Buffer THEN Bytes1(info.of, info.offset + xyz[1] * size, size)
  ELSE content[ViewPlace(v, xyz, layer, level)]

ClearAttachment ==
  LET c == last' IN
  Regions(LAMBDA r :
    [p \in {ViewPlace(c.view, <<x, y, 0>>, layer, 0) :
              x \in Span(r.xy[1], r.extent[1]),
              y \in Span(r.xy[2], r.extent[2]),
              layer \in Span(r.layer, r.layers)} |->
       Write(ViewInfo[c.view].format, c.color)])

\* The bytes of a buffer from an offset on, all of them if the size is Rest.
Range1(c) ==
  {<<c.dst, n>> : n \in IF c.size = Rest THEN c.offset..(BufferSize[c.dst] - 1)
                                            ELSE Span(c.offset, c.size)}

\* Whole words are filled.  A departure: a range to the end of the buffer that
\* leaves a part of a word (Vulkan leaves it alone) either keeps that part or has
\* it filled too, and then as many bytes elsewhere may change as the word is
\* larger than the part.
FillBuffer ==
  LET c == last'
      range == Range1(c)
      part == Cardinality(range) % 4
      filled(places) == [p \in places |-> c.data[((p[2] - c.offset) % 4) + 1]]
      whole == {p \in range : p[2] - c.offset < Cardinality(range) - part}
      others == {p \in Places : p[1] # c.dst /\ content'[p] # content[p]}
      bytes(p) == IF p[1] \in Buffer THEN 1
                  ELSE Cardinality({k \in DOMAIN content[p] : content'[p][k] # content[p][k]})
  IN \/ Becomes(filled(whole))
     \/ /\ part > 0 /\ DOMAIN content' = Places
        /\ \A p \in Places : p[1] = c.dst => content'[p] = (filled(range) @@ content)[p]
        /\ MapThenSumSet(bytes, others) <= 4 - part

UpdateBuffer ==
  LET c == last' IN Becomes([p \in Range1(c) |-> c.data[p[2] - c.offset + 1]])

\* A departure: a host that asks for the layout of another level writes to level 0.
HostWrite ==
  LET c == last' IN
  Becomes(<<c.dst, 0, c.layer, c.xyz[1], c.xyz[2], c.xyz[3]>> :> c.data)

\* A coordinate operand as x, y, z and layer.
Coordinate(c) ==
  LET arrayed == ViewInfo[c.view].arrayed  n == Len(c.coord) IN
  IF arrayed THEN [xyz |-> SubSeq(c.coord, 1, n - 1) \o [a \in 1..(4 - n) |-> 0],
                   layer |-> c.coord[n]]
  ELSE [xyz |-> c.coord \o [a \in 1..(3 - n) |-> 0], layer |-> 0]

ShaderWrite ==
  LET c == last'  info == ViewInfo[c.view]  at == Coordinate(c)
      bytes == Write(info.format, c.texel)
  IN IF info.of \in Buffer
     THEN Becomes([p \in {<<info.of, n>> :
                            n \in Span(info.offset + at.xyz[1] * Len(bytes),
                                       Len(bytes))} |->
                     bytes[p[2] - info.offset - at.xyz[1] * Len(bytes) + 1]])
     ELSE Becomes(ViewPlace(c.view, at.xyz, at.layer, 0) :> bytes)

ShaderRead ==
  LET c == last'  at == Coordinate(c) IN
  result' = Read(ViewInfo[c.view].format,
                 ViewTexel(c.view, at.xyz, at.layer, c.level))

\* A blend factor: what it is taken from, whether it is the alpha component
\* alone, and whether it is taken from one.
Factors ==
  LET of(what, alpha, minus) == [what |-> what, alpha |-> alpha, minus |-> minus] IN
  [ZERO |-> of("none", FALSE, FALSE), ONE |-> of("none", FALSE, TRUE),
   SRC_COLOR |-> of("src", FALSE, FALSE), ONE_MINUS_SRC_COLOR |-> of("src", FALSE, TRUE),
   DST_COLOR |-> of("dst", FALSE, FALSE), ONE_MINUS_DST_COLOR |-> of("dst", FALSE, TRUE),
   SRC_ALPHA |-> of("src", TRUE, FALSE), ONE_MINUS_SRC_ALPHA |-> of("src", TRUE, TRUE),
   DST_ALPHA |-> of("dst", TRUE, FALSE), ONE_MINUS_DST_ALPHA |-> of("dst", TRUE, TRUE),
   CONSTANT_COLOR |-> of("constant", FALSE, FALSE),
   ONE_MINUS_CONSTANT_COLOR |-> of("constant", FALSE, TRUE),
   CONSTANT_ALPHA |-> of("constant", TRUE, FALSE),
   ONE_MINUS_CONSTANT_ALPHA |-> of("constant", TRUE, TRUE)]

\* A fragment writes only the channels of its mask, and each channel depends on
\* the source, the destination and their factors alone.
WriteFragment ==
  LET c == last'  b == c.blend  f == ViewInfo[c.view].format
      at == ViewPlace(c.view, <<c.xy[1], c.xy[2], 0>>, 0, 0)
      dst == [k \in 1..4 |-> IF k = 4 /\ f.channels < 4 THEN Unit
                             ELSE Read(f, content[at])[k]]
      setting(k) == {o \in DOMAIN c.outputs :
                       k - c.outputs[o].component \in DOMAIN c.outputs[o].values}
      src == [k \in 1..4 |->
                IF setting(k) = {} THEN c.stale[k]
                ELSE LET o == c.outputs[Max(setting(k))] IN o.values[k - o.component]]
      weight(name, k) ==
        IF name = "SRC_ALPHA_SATURATE"
        THEN IF k = 4 THEN Unit ELSE Min({src[4], Unit - dst[4]})
        ELSE LET w == Factors[name]
                 from == CASE w.what = "none" -> <<0, 0, 0, 0>> [] w.what = "src" -> src
                           [] w.what = "dst" -> dst [] w.what = "constant" -> b.constant
                 value == from[IF w.alpha THEN 4 ELSE k]
             IN IF w.minus THEN Unit - value ELSE value
      blended(k) ==
        LET op == IF k = 4 THEN b.alphaOp ELSE b.colorOp
            s == (src[k] * weight(IF k = 4 THEN b.srcAlpha ELSE b.srcColor, k)) \div Unit
            d == (dst[k] * weight(IF k = 4 THEN b.dstAlpha ELSE b.dstColor, k)) \div Unit
        IN IF ~b.enable THEN src[k]
           ELSE CASE op = "ADD" -> s + d [] op = "SUBTRACT" -> s - d
                  [] op = "REVERSE_SUBTRACT" -> d - s
                  [] op = "MIN" -> Min({src[k], dst[k]}) [] op = "MAX" -> Max({src[k], dst[k]})
      \* the component that channel p is of
      component(p) == IF f.bgr /\ p \in {1, 3} THEN 4 - p ELSE p
  IN Becomes(at :> [n \in DOMAIN content[at] |->
       LET p == ((n - 1) \div f.size) + 1  k == component(p) IN
       IF k \in c.mask
       THEN Bytes(Store(f, blended(k)), f.size)[n - (p - 1) * f.size]
       ELSE content[at][n]])

\* How large a view of an image is, and how many layers it has.
ViewSize(v, axis, level) ==
  LET info == ViewInfo[v] IN
  IF info.of \in Image THEN LevelSize(Info[info.of], axis, info.level + level)
  ELSE IF axis # 1 THEN 1
  ELSE (IF info.range = Rest THEN BufferSize[info.of] - info.offset
                                ELSE info.range) \div ElementSize(info.format)
ViewLayerCount(v) ==
  LET info == ViewInfo[v] IN
  IF info.of \in Buffer THEN 1
  ELSE Cardinality(Counted(info.layer, info.layers, Info[info.of].layers))

Axes(v) == CASE ViewInfo[v].dim = "1D" -> 1
             [] ViewInfo[v].dim \in {"2D", "Cube"} -> 2
             [] ViewInfo[v].dim = "3D" -> 3

ShaderQuery ==
  LET c == last'  info == ViewInfo[c.view]
      each == [a \in 1..Axes(c.view) |-> ViewSize(c.view, a, c.level)]
      layers == ViewLayerCount(c.view) \div (IF info.dim = "Cube" THEN 6 ELSE 1)
  IN result' = IF info.arrayed THEN Append(each, layers) ELSE each

\* A sample, with coordinates and layer in quarters.  Outside the image a
\* coordinate repeats or stays at the edge.  The linear filter weighs every
\* texel by how near its middle is on each axis of the view; the nearest filter
\* gives a texel whose middle is no farther than any other's.  Departures: below
\* zero a coordinate repeats out of step, unless the size divides the number of
\* values of a word; texels have the format of the image, not of the view; any
\* layer may be taken if the layer asked for is below zero.
ShaderSample ==
  LET c == last'  v == c.view  at == Coordinate(c)
      n == Axes(v)
      u == [a \in 1..n |-> at.xyz[a] * ViewSize(v, a, 0)]
      near(a) == {i \in Span((u[a] \div 4) - 2, 5) : Abs(u[a] - 4 * i - 2) < 5}
      neighbours == {d \in [1..n -> UNION {near(a) : a \in 1..n}] :
                       \A a \in 1..n : d[a] \in near(a)}
      wrap(a, i) == IF c.mode = "REPEAT"
                    THEN (IF i < 0 THEN i + Word ELSE i) % ViewSize(v, a, 0)
                    ELSE Clamp(i, 0, ViewSize(v, a, 0) - 1)
      layers == 0..(ViewLayerCount(v) - 1)
      chosen == {l \in layers : at.layer <= -2 \/ \A k \in layers :
                   Abs(4 * l - at.layer) <= Abs(4 * k - at.layer)}
      info == ViewInfo[v]
      texel(d, l) ==
        Read(IF info.of \in Image THEN Info[info.of].format ELSE info.format,
             ViewTexel(v, [a \in 1..3 |-> IF a <= n THEN wrap(a, d[a]) ELSE 0],
                       l, 0))
      hat(a, i) == Max({0, 4 - Abs(u[a] - 4 * i - 2)})
      weight(d) == FoldFunction(LAMBDA x, y : x * y, 1, [a \in 1..n |-> hat(a, d[a])])
  IN \E l \in chosen :
       IF c.filter = "LINEAR"
       THEN result' = [k \in 1..4 |->
              MapThenSumSet(LAMBDA d : weight(d) * texel(d, l)[k], neighbours)
                \div 4^n]
       ELSE \E d \in neighbours :
              /\ \A a \in 1..n : Abs(u[a] - 4 * d[a] - 2) <= 2
              /\ result' = texel(d, l)

\* An attribute of a vertex or instance, of which the variable has the
\* components from c.component on.  Missing ones are (0, 0, 0, 1).  A departure:
\* a component that is not the first is found only if the attribute has all that
\* the variable asks for.
VertexInput ==
  LET c == last'  f == c.format
      first == (IF c.rate = "INSTANCE" THEN c.instance ELSE c.vertex) * c.stride + c.offset
      one == IF c.float THEN Unit ELSE 1
      attribute == [k \in 1..4 |->
        IF k <= f.channels
        THEN Load(f, Number(Bytes1(c.src, first + (k - 1) * f.size, f.size)))
        ELSE IF k = 4 THEN one ELSE 0]
  IN /\ DOMAIN result' = 1..c.count
     /\ c.component = 0 \/ c.component + c.count <= f.channels =>
          result' = [k \in 1..c.count |-> attribute[c.component + k]]

\* The size of an image is that of its texels.
RequireMemory ==
  LET img == last'.image IN
  Fits32(img) => result' = <<ElementSize(img.format) * Cardinality(TexelsOf(img))>>

Init == /\ DOMAIN content = Places /\ result = <<>> /\ last.op = "none"

Moves == \/ last'.op = "copyBuffer" /\ CopyBuffer
         \/ last'.op = "copyBufferToImage" /\ CopyBufferToImage
         \/ last'.op = "copyImageToBuffer" /\ CopyImageToBuffer
         \/ last'.op = "copyImage" /\ CopyImage
         \/ last'.op = "blitImage" /\ BlitImage
         \/ last'.op = "clearColorImage" /\ ClearColorImage
         \/ last'.op = "clearAttachment" /\ ClearAttachment
         \/ last'.op = "fillBuffer" /\ FillBuffer
         \/ last'.op = "updateBuffer" /\ UpdateBuffer
         \/ last'.op = "fragment" /\ WriteFragment
         \/ last'.op = "hostWrite" /\ HostWrite
         \/ last'.op = "write" /\ ShaderWrite

Asks == \/ last'.op = "read" /\ ShaderRead
        \/ last'.op = "query" /\ ShaderQuery
        \/ last'.op = "sample" /\ ShaderSample
        \/ last'.op = "vertex" /\ VertexInput
        \/ last'.op = "require" /\ RequireMemory

Next == \/ Moves /\ UNCHANGED result
        \/ Asks /\ UNCHANGED content

Spec == Init /\ [][Next]_vars
=============================================================================
