------------------------------- MODULE Images -------------------------------
(***************************************************************************)
(* Images, their views, and the commands and shader instructions that move *)
(* texels (lib/talvos/Image.cpp, Commands.cpp, the image handlers of       *)
(* Invocation.cpp, lib/vulkan/resources.cpp, copies.cpp, clears.cpp).      *)
(*                                                                         *)
(* All of it works on one flat memory of bytes.  An image is a record of   *)
(* its format, extent, array layers and mip levels; where its texels are   *)
(* is arithmetic on the address the host bound it to.  Each command        *)
(* computes addresses in its own way; Surfaces says what they promise.     *)
(***************************************************************************)
EXTENDS Blending, FiniteSets, TLC

CONSTANTS Image,        \* names of images
          Buffer,       \* names of buffers
          View,         \* names of image views and buffer views
          Info,         \* [Image -> [format, extent, layers, levels]]
          BufferSize,   \* [Buffer -> Nat]: bytes
          TexelUse,     \* the buffers created for uniform, storage or texel use
          Alignment,    \* what those must be aligned to (256)
          ViewInfo,     \* [View -> what the view was created from]
          Command,      \* the commands and instructions of the instance
          Placement,    \* the addresses the host may bind resources to
          Contents,     \* what memory may hold at first
          MaxCommands,  \* bound: commands of one behaviour
          Shape         \* the images an application asks the size of

\* What Vulkan lets an image be: with extents of 32 bits there are no more than
\* 32 levels, and an image with depth has one layer (getTexelAddress adds the
\* slice and the layer, and asserts that one of them is 0).
IsShape(img) ==
  /\ IsFormat(img.format)
  /\ \A axis \in 1..3 : img.extent[axis] \in Nat \ {0}
  /\ img.layers \in Nat \ {0} /\ img.levels \in 1..32
  /\ img.layers = 1 \/ img.extent[3] = 1

ASSUME ShapeAssumption == \A img \in Shape : IsShape(img)
ASSUME BoundAssumption == MaxCommands \in Nat

Resource == Image \cup Buffer

VARIABLES address,  \* [Resource -> Nat]: what bind*Memory stored
          mem,      \* the bytes of global memory
          result,   \* what the latest shader instruction returned
          last,     \* the latest command
          count     \* how many there have been

vars == <<address, mem, result, last, count>>

-----------------------------------------------------------------------------
(* The layout of an image *)

\* getWidth, getHeight and getDepth of a mip level: axis 1, 2 and 3.
Extent(img, axis, level) ==
  LET size == img.extent[axis] \div 2^level IN IF size = 0 THEN 1 ELSE size

\* Each term is a product of 32-bit numbers, and wraps as one.
MipLevelOffset(img, level) ==
  MapThenSumSet(LAMBDA l : (Extent(img, 1, l) * Extent(img, 2, l)
                             * Extent(img, 3, l) * img.layers
                             * ElementSize(img.format)) % Word,
                0..(level - 1))

TotalSize(img) == MipLevelOffset(img, img.levels)

\* Fault: a layer is as high as level 0 whatever the level.
TexelOffsetTall(img, xyz, layer, level) ==
  MipLevelOffset(img, level)
    + (((xyz[1] + (xyz[2] + (xyz[3] + layer) * Extent(img, 2, 0))
                    * Extent(img, 1, level)) * ElementSize(img.format)) % Word)

\* getTexelAddress, less the address of the image.
TexelOffset(img, xyz, layer, level) ==
  MipLevelOffset(img, level)
    + (((xyz[1] + (xyz[2] + (xyz[3] + layer) * Extent(img, 2, level))
                    * Extent(img, 1, level)) * ElementSize(img.format)) % Word)

\* vkGetBufferMemoryRequirements and vkGetImageMemoryRequirements.
MemoryRequirements(r) ==
  IF r \in Image
  THEN [size |-> TotalSize(Info[r]), alignment |-> 1]
  ELSE [size |-> BufferSize[r],
        alignment |-> IF r \in TexelUse THEN Alignment ELSE 1]

\* The host binds resources where their requirements let it.
BindMemory(place) ==
  /\ \A r \in Resource : place[r] % MemoryRequirements(r).alignment = 0
  /\ \A r, s \in Resource : r # s =>
       \/ place[r] + MemoryRequirements(r).size <= place[s]
       \/ place[s] + MemoryRequirements(s).size <= place[r]

\* vkGetImageSubresourceLayout: where a mapped host finds a layer.  The mip
\* level asked for is not looked at.
SubresourceLayout(img, layer) ==
  LET row == Extent(img, 1, 0) * ElementSize(img.format)
      slice == Extent(img, 2, 0) * row
      array == Extent(img, 3, 0) * slice
  IN [rowPitch |-> row, depthPitch |-> slice, offset |-> layer * array]

-----------------------------------------------------------------------------
(* Views *)

\* The image a view is of.  A buffer view makes one of its own: one row of as
\* many whole elements as the range holds (vkCreateBufferView).
ViewBytes(v) ==
  LET c == ViewInfo[v] IN
  IF c.range = Rest THEN BufferSize[c.of] - c.offset ELSE c.range
ViewImage(v) ==
  LET c == ViewInfo[v] IN
  IF c.of \in Image THEN Info[c.of]
  ELSE [format |-> c.format, layers |-> 1, levels |-> 1,
        extent |-> <<ViewBytes(v) \div ElementSize(c.format), 1, 1>>]
ViewStart(v) ==
  LET c == ViewInfo[v] IN
  IF c.of \in Image THEN address[c.of] ELSE address[c.of] + c.offset

\* Fault: REMAINING_ARRAY_LAYERS counts from layer 0.
ViewLayersAll(v) ==
  IF ViewInfo[v].layers = Rest THEN ViewImage(v).layers
                                 ELSE ViewInfo[v].layers

\* ImageView::ImageView, for VK_REMAINING_ARRAY_LAYERS.
ViewLayers(v) ==
  IF ViewInfo[v].layers = Rest
  THEN ViewImage(v).layers - ViewInfo[v].layer ELSE ViewInfo[v].layers

ViewExtent(v, axis, level) ==
  Extent(ViewImage(v), axis, ViewInfo[v].level + level)

ViewAddress(v, xyz, layer, level) ==
  ViewStart(v) + TexelOffset(ViewImage(v), xyz, ViewInfo[v].layer + layer,
                             ViewInfo[v].level + level)

-----------------------------------------------------------------------------
(* Memory *)

Span(first, n) == first..(first + n - 1)

\* Memory::isAccessValid: the bytes are all of one allocation.
IsAccessValid(m, at, n) == Span(at, n) \subseteq DOMAIN m

\* Memory::load: an access that is not valid is reported, and reads zeroes.
LoadFrom(m, at, n) ==
  [k \in 1..n |-> IF IsAccessValid(m, at, n) THEN m[at + k - 1] ELSE 0]

\* Stores to places that do not overlap: each an address and its bytes.
\* Memory::store reports one that is not valid and leaves it out as a whole.
Stored(m, stores) ==
  LET at(s) == Span(s.at, Len(s.bytes))
      done == {s \in stores : IsAccessValid(m, s.at, Len(s.bytes))}
  IN [a \in DOMAIN m |->
        IF \E s \in done : a \in at(s)
        THEN LET s == CHOOSE t \in done : a \in at(t) IN s.bytes[a - s.at + 1]
        ELSE m[a]]

\* Memory::copy of lines of bytes, which stores nothing of a line that cannot be
\* loaded.  A source and a destination that overlap are the application's error,
\* so the order of the lines does not matter.
Copied(m, lines) ==
  Stored(m, {[at |-> l.to, bytes |-> LoadFrom(m, l.from, l.n)] :
               l \in {k \in lines : IsAccessValid(m, k.from, k.n)}})

-----------------------------------------------------------------------------
(* Commands *)

CopyBufferRegion(m, c, r) ==
  Copied(m, {[to |-> address[c.dst] + r.dstOffset,
              from |-> address[c.src] + r.srcOffset, n |-> r.size]})

\* Texels of the buffer from one layer to the next.
\* Fault: layers are as high as the region, whatever bufferImageHeight says.
LayerStrideTight(r, bw, bh) == bw * r.extent[2]
LayerStride(r, bw, bh) == bw * bh

\* The lines of a copy between a buffer and an image: pairs of addresses.
\* bufferRowLength and bufferImageHeight are those of the region unless zero.
Scanlines(b, i, r) ==
  LET img == Info[i]  size == ElementSize(img.format)
      width == Extent(img, 1, r.level)  height == Extent(img, 2, r.level)
      bw == IF r.rowLength = 0 THEN r.extent[1] ELSE r.rowLength
      bh == IF r.imageHeight = 0 THEN r.extent[2] ELSE r.imageHeight
      corner == (r.xyz[1] + (r.xyz[2] + r.xyz[3] * height) * width) * size
      layerSize == width * height * Extent(img, 3, r.level) * size
  IN {[buffer |-> address[b] + r.offset + LayerStride(r, bw, bh) * size * l
                    + (z * bh + y) * bw * size,
       image |-> address[i] + MipLevelOffset(img, r.level) + corner
                   + layerSize * (r.layer + l)
                   + (z * height + y) * width * size,
       n |-> r.extent[1] * size] :
      l \in Span(0, r.layers), z \in Span(0, r.extent[3]),
      y \in Span(0, r.extent[2])}

CopyBufferToImageRegion(m, c, r) ==
  Copied(m, {[to |-> l.image, from |-> l.buffer, n |-> l.n] :
               l \in Scanlines(c.src, c.dst, r)})

CopyImageToBufferRegion(m, c, r) ==
  Copied(m, {[to |-> l.buffer, from |-> l.image, n |-> l.n] :
               l \in Scanlines(c.dst, c.src, r)})

\* Level 0 and layer 0 of both images: the layer of the destination is not
\* looked at, the assertion that would refuse it tests the source twice.
CopyImageRegion(m, c, r) ==
  LET size == ElementSize(Info[c.src].format)
      line(i, xyz, y, z) ==
        address[i] + (xyz[1] + (xyz[2] + y + (xyz[3] + z) * Extent(Info[i], 2, 0))
                                  * Extent(Info[i], 1, 0)) * size
  IN Copied(m, {[to |-> line(c.dst, r.dstXyz, y, z),
                 from |-> line(c.src, r.srcXyz, y, z),
                 n |-> r.extent[1] * size] :
                z \in Span(0, r.extent[3]), y \in Span(0, r.extent[2])})

\* The source coordinate of a destination one, on one axis: the middle of the
\* destination texel scaled into the source, rounded down and kept inside
\* level 0.  srcBox and dstBox are the two offsets of each on that axis.
\* Fault: the corner of the texel is scaled, not its middle.
BlitSourceCorner(x, srcBox, dstBox, size) ==
  LET n == (x - dstBox[1]) * (srcBox[2] - srcBox[1])
      d == dstBox[2] - dstBox[1]
      u == IF d < 0 THEN (-n) \div (-d) ELSE n \div d
  IN Clamp(srcBox[1] + u, 0, size - 1)

BlitSource(x, srcBox, dstBox, size) ==
  LET n == (2 * (x - dstBox[1]) + 1) * (srcBox[2] - srcBox[1])
      d == 2 * (dstBox[2] - dstBox[1])
      u == IF d < 0 THEN (-n) \div (-d) ELSE n \div d
  IN Clamp(srcBox[1] + u, 0, size - 1)

\* The coordinates a box given by its two corners covers on one axis.
Between(box) == Min({box[1], box[2]})..(Max({box[1], box[2]}) - 1)

BlitRegion(m, c, r) ==
  LET src == Info[c.src]  dst == Info[c.dst]
      from(xyz) == [a \in 1..3 |->
                      BlitSource(xyz[a], r.src[a], r.dst[a], src.extent[a])]
      texel(xyz, l) ==
        Read(src.format,
             LoadFrom(m, address[c.src] + TexelOffset(src, from(xyz), r.srcLayer + l,
                                                       r.srcLevel),
                      ElementSize(src.format)))
  IN Stored(m, {[at |-> address[c.dst]
                          + TexelOffset(dst, xyz, r.dstLayer + l, r.dstLevel),
                 bytes |-> Write(dst.format, texel(xyz, l))] :
                l \in Span(0, r.layers),
                xyz \in Between(r.dst[1]) \X Between(r.dst[2])
                          \X Between(r.dst[3])})

\* REMAINING levels and layers run to the last of the image.
ClearColorRange(m, c, r) ==
  LET img == Info[c.dst]
      lastLevel == IF r.levels = Rest THEN img.levels - 1
                                        ELSE r.level + r.levels - 1
      lastLayer == IF r.layers = Rest THEN img.layers - 1
                                        ELSE r.layer + r.layers - 1
      texels(level) == {<<x, y, z>> : x \in 0..(Extent(img, 1, level) - 1),
                                      y \in 0..(Extent(img, 2, level) - 1),
                                      z \in 0..(Extent(img, 3, level) - 1)}
  IN Stored(m, UNION {{[at |-> address[c.dst] + TexelOffset(img, xyz, layer, level),
                        bytes |-> Write(img.format, c.color)] :
                         xyz \in texels(level), layer \in r.layer..lastLayer} :
                      level \in r.level..lastLevel})

\* One rectangle of vkCmdClearAttachments, through the view of the attachment.
ClearRect(m, c, r) ==
  Stored(m, {[at |-> ViewAddress(c.view, <<x, y, 0>>, layer, 0),
              bytes |-> Write(ViewInfo[c.view].format, c.color)] :
             x \in Span(r.xy[1], r.extent[1]), y \in Span(r.xy[2], r.extent[2]),
             layer \in Span(r.layer, r.layers)})

Region(m, c, r) ==
  CASE c.op = "copyBuffer" -> CopyBufferRegion(m, c, r)
    [] c.op = "copyBufferToImage" -> CopyBufferToImageRegion(m, c, r)
    [] c.op = "copyImageToBuffer" -> CopyImageToBufferRegion(m, c, r)
    [] c.op = "copyImage" -> CopyImageRegion(m, c, r)
    [] c.op = "blitImage" -> BlitRegion(m, c, r)
    [] c.op = "clearColorImage" -> ClearColorRange(m, c, r)
    [] c.op = "clearAttachment" -> ClearRect(m, c, r)

\* Every region of a command in turn.
EachRegion(m, c) ==
  LET after[k \in 0..Len(c.regions)] ==
        IF k = 0 THEN m ELSE Region(after[k - 1], c, c.regions[k])
  IN after[Len(c.regions)]

\* VK_WHOLE_SIZE of vkCmdFillBuffer and vkCmdUpdateBuffer.
NumBytes(c) ==
  IF c.size = Rest THEN BufferSize[c.dst] - c.offset ELSE c.size

\* Words of four bytes for as long as one starts inside the range.
FilledBuffer(m, c) ==
  Stored(m, {[at |-> address[c.dst] + c.offset + 4 * w, bytes |-> c.data] :
             w \in {v \in 0..NumBytes(c) : 4 * v < NumBytes(c)}})

UpdatedBuffer(m, c) ==
  Stored(m, {[at |-> address[c.dst] + c.offset,
              bytes |-> SubSeq(c.data, 1, NumBytes(c))]})

-----------------------------------------------------------------------------
(* Shader instructions *)

\* The texel a coordinate operand names: the last number is the array layer of
\* an arrayed or cube image, missing ones are zero.
Place(v, coord) ==
  LET arrayed == ViewInfo[v].arrayed
      n == IF arrayed THEN Len(coord) - 1 ELSE Len(coord)
  IN [xyz |-> [a \in 1..3 |-> IF a <= n THEN coord[a] ELSE 0],
      layer |-> IF arrayed THEN coord[Len(coord)] ELSE 0]

TexelAt(v, xyz, layer, level, format) ==
  Read(format, LoadFrom(mem, ViewAddress(v, xyz, layer, level),
                        ElementSize(format)))

ImageRead(c) ==
  LET p == Place(c.view, c.coord)
  IN TexelAt(c.view, p.xyz, p.layer, c.level, ViewInfo[c.view].format)

ImageWrite(c) ==
  LET p == Place(c.view, c.coord)
  IN Stored(mem, {[at |-> ViewAddress(c.view, p.xyz, p.layer, 0),
                   bytes |-> Write(ViewInfo[c.view].format, c.texel)]})

ImageQuerySize(c) ==
  LET info == ViewInfo[c.view]
      layers == ViewLayers(c.view) \div (IF info.dim = "Cube" THEN 6 ELSE 1)
      axes == CASE info.dim = "1D" -> 1
                [] info.dim \in {"2D", "Cube"} -> 2
                [] info.dim = "3D" -> 3
  IN [a \in 1..axes |-> ViewExtent(c.view, a, c.level)]
       \o (IF info.arrayed THEN <<layers>> ELSE <<>>)

\* handleEdge: a coordinate below zero becomes a large one before the
\* remainder is taken.
\* Fault: a coordinate beyond the edge repeats in the other mode too.
HandleEdgeRepeat(mode, i, size) == (i % Word) % size

HandleEdge(mode, i, size) ==
  IF mode = "REPEAT" THEN (i % Word) % size ELSE Clamp(i, 0, size - 1)

\* The layer of a sample, std::round of an operand that is counted in quarters.
\* One that rounds to less than zero has no value as a uint32_t, so that any
\* layer may be selected.
SampledLayers(c) ==
  LET at == Place(c.view, c.coord).layer
      last1 == ViewLayers(c.view) - 1
  IN IF at <= -2 THEN 0..last1 ELSE {Clamp((at + 2) \div 4, 0, last1)}

\* Sampler::sample.  Coordinates are counted in quarters, so the weight of a
\* neighbour on one axis is 0 to 4, and those of the eight add up to 64.  The
\* texels are read in the format of the image, not of the view.
ImageSample(c, layer) ==
  LET v == c.view
      info == ViewInfo[v]
      place == Place(v, c.coord)
      u == [a \in 1..3 |-> place.xyz[a] * ViewExtent(v, a, 0)]
      \* The two neighbours on an axis and how far the second one weighs.
      near == [a \in 1..3 |-> (u[a] - 2) \div 4]
      part == [a \in 1..3 |-> (u[a] - 2) % 4]
      edge(a, i) == HandleEdge(c.mode, i, ViewExtent(v, a, 0))
      texel(d) == TexelAt(v, [a \in 1..3 |-> edge(a, near[a] + d[a])], layer, 0,
                          ViewImage(v).format)
      \* Dimensions the view does not have use the first texel again.
      axes == CASE info.dim = "1D" -> 1 [] info.dim = "2D" -> 2
                [] info.dim = "3D" -> 3
      corner == {0, 1} \X {0, 1} \X {0, 1}
      reused(d) == [a \in 1..3 |-> IF a <= axes THEN d[a] ELSE 0]
      weight(d) == ((IF d[1] = 1 THEN part[1] ELSE 4 - part[1])
                     * (IF d[2] = 1 THEN part[2] ELSE 4 - part[2])
                     * (IF d[3] = 1 THEN part[3] ELSE 4 - part[3]))
  IN IF c.filter = "LINEAR"
     THEN [k \in 1..4 |->
             MapThenSumSet(LAMBDA d : weight(d) * texel(reused(d))[k], corner)
               \div 64]
     ELSE texel([a \in 1..3 |-> IF part[a] <= 2 THEN 0 ELSE 1])

-----------------------------------------------------------------------------
(* Vertex inputs (PipelineExecutor.cpp) *)

\* Fault: what is advanced by the instance is advanced by the vertex.
ElementIndexVertex(c) == c.vertex
ElementIndex(c) == IF c.rate = "VERTEX" THEN c.vertex ELSE c.instance

\* loadVertexInput: the value of an input variable of c.count components, from
\* an attribute of the bound vertex buffer, in one load.  32-bit formats are
\* copied as bytes, no more of them than the variable or the attribute has;
\* normalised ones are converted.  The fourth component is 1 unless the attribute
\* has it.  The component decoration moves the address by words, whatever the
\* format, and does not take from the channels that are loaded.  (Normalised
\* attributes with more channels than the variable are written past its end,
\* which has no defined outcome: the instance has none.)
LoadVertexInput(c) ==
  LET at == address[c.src] + ((ElementIndex(c) * c.stride) % Word) + c.offset
              + c.component * 4
      zero == [k \in 1..c.count |-> IF k < 4 THEN 0 ELSE IF c.float THEN Unit ELSE 1]
      size == c.format.size
      channels == IF size = 4 THEN Min({c.count, c.format.channels})
                  ELSE c.format.channels
      bytes == LoadFrom(mem, at, channels * size)
      channel(k) == Number(SubSeq(bytes, (k - 1) * size + 1, k * size))
  IN [k \in 1..c.count |-> IF k > channels THEN zero[k]
                           ELSE Load(c.format, channel(k))]

-----------------------------------------------------------------------------
(* What Vulkan asks of the application *)

Inside(first, n, all) == first \in Nat /\ n \in Nat /\ first + n <= all
InsideBuffer(b, first, n) == b \in Buffer /\ Inside(first, n, BufferSize[b])
InsideImage(i, level, layer, layers, xyz, extent) ==
  /\ i \in Image /\ level \in 0..(Info[i].levels - 1)
  /\ Inside(layer, layers, Info[i].layers)
  /\ \A a \in 1..3 : Inside(xyz[a], extent[a], Extent(Info[i], a, level))
InsideView(v, xyz, layer, level) ==
  /\ v \in View /\ level \in Nat /\ ViewInfo[v].level + level < ViewImage(v).levels
  /\ layer \in 0..(ViewLayers(v) - 1)
  /\ \A a \in 1..3 : xyz[a] \in 0..(ViewExtent(v, a, level) - 1)

\* A view of an image has the size of its texels and some of its levels and
\* layers; a view of a buffer has a texel at least.
IsView(v) ==
  LET c == ViewInfo[v] IN
  /\ IsFormat(c.format) /\ c.arrayed \in BOOLEAN /\ c.dim \in {"1D", "2D", "3D", "Cube"}
  /\ IF c.of \in Image
     THEN /\ ElementSize(c.format) = ElementSize(Info[c.of].format)
          /\ c.level \in 0..(Info[c.of].levels - 1) /\ c.layer \in 0..(Info[c.of].layers - 1)
          /\ c.layers = Rest \/ (c.layers > 0 /\ Inside(c.layer, c.layers, Info[c.of].layers))
     ELSE /\ c.level = 0 /\ c.layer = 0 /\ c.layers = 1 /\ c.dim = "1D" /\ ~c.arrayed
          /\ InsideBuffer(c.of, c.offset, ViewBytes(v))
          /\ ViewBytes(v) >= ElementSize(c.format)

\* The region that a copy between a buffer and an image names in each.
InsideBoth(b, i, r) ==
  LET bw == IF r.rowLength = 0 THEN r.extent[1] ELSE r.rowLength
      bh == IF r.imageHeight = 0 THEN r.extent[2] ELSE r.imageHeight
      slices == r.layers * r.extent[3]
      rows == bh * (slices - 1) + r.extent[2]
      texels == bw * (rows - 1) + r.extent[1]
  IN /\ InsideImage(i, r.level, r.layer, r.layers, r.xyz, r.extent)
     /\ r.layers > 0 /\ \A a \in 1..3 : r.extent[a] > 0
     /\ bw \in Nat /\ bh \in Nat /\ bw >= r.extent[1] /\ bh >= r.extent[2]
     /\ InsideBuffer(b, r.offset, texels * ElementSize(Info[i].format))

\* The first texel of a box and its size, for a box given by two corners.
Corner(box) == [a \in 1..3 |-> Min({box[a][1], box[a][2]})]
Size(box) == [a \in 1..3 |-> Max({box[a][1], box[a][2]}) - Corner(box)[a]]

IsRegion(c, r) ==
  CASE c.op = "copyBuffer" ->
         InsideBuffer(c.src, r.srcOffset, r.size) /\ InsideBuffer(c.dst, r.dstOffset, r.size)
    [] c.op = "copyBufferToImage" -> InsideBoth(c.src, c.dst, r)
    [] c.op = "copyImageToBuffer" -> InsideBoth(c.dst, c.src, r)
    [] c.op = "copyImage" ->
         /\ InsideImage(c.src, 0, 0, 1, r.srcXyz, r.extent)
         /\ InsideImage(c.dst, 0, r.dstLayer, 1, r.dstXyz, r.extent)
         /\ ElementSize(Info[c.src].format) = ElementSize(Info[c.dst].format)
    [] c.op = "blitImage" ->
         /\ \A a \in 1..3 : /\ r.src[a] \in Nat \X Nat /\ r.dst[a] \in Nat \X Nat
                            /\ r.src[a][1] # r.src[a][2]
         /\ InsideImage(c.src, r.srcLevel, r.srcLayer, r.layers, Corner(r.src), Size(r.src))
         /\ InsideImage(c.dst, r.dstLevel, r.dstLayer, r.layers, Corner(r.dst), Size(r.dst))
    [] c.op = "clearColorImage" ->
         LET levels == IF r.levels = Rest THEN Info[c.dst].levels - r.level ELSE r.levels
             layers == IF r.layers = Rest THEN Info[c.dst].layers - r.layer ELSE r.layers
         IN /\ c.dst \in Image
            /\ Inside(r.level, levels, Info[c.dst].levels)
            /\ Inside(r.layer, layers, Info[c.dst].layers)
    [] c.op = "clearAttachment" ->
         /\ r.xy \in Nat \X Nat /\ r.extent \in Nat \X Nat /\ r.layer \in Nat /\ r.layers \in Nat
         /\ \A x \in Span(r.xy[1], r.extent[1]), y \in Span(r.xy[2], r.extent[2]),
               layer \in Span(r.layer, r.layers) : InsideView(c.view, <<x, y, 0>>, layer, 0)

\* The four numbers of a texel; a float that is stored as one is a word.
IsTexel(t) == t \in Seq(Int) /\ Len(t) = 4
Storable(f, t) ==
  f.kind = "SFLOAT" => \A k \in 1..4 : t[k] \in -(Word \div 2)..(Word \div 2 - 1)

IsBlend(b) ==
  b.enable =>
    /\ \A s \in {b.srcColor, b.dstColor, b.srcAlpha, b.dstAlpha} : s \in BlendFactors
    /\ b.colorOp \in BlendOps /\ b.alphaOp \in BlendOps /\ IsTexel(b.constant)

HasCoord(c, level) ==
  LET p == Place(c.view, c.coord) IN
  /\ c.view \in View /\ c.coord \in Seq(Nat)
  /\ Len(c.coord) \in 1..(IF ViewInfo[c.view].arrayed THEN 4 ELSE 3)
  /\ InsideView(c.view, p.xyz, p.layer, level)

IsCommand(c) ==
  /\ c.op \in {"copyBuffer", "copyBufferToImage", "copyImageToBuffer", "copyImage", "blitImage",
               "clearColorImage", "clearAttachment"} =>
       Len(c.regions) \in Nat /\ \A k \in 1..Len(c.regions) : IsRegion(c, c.regions[k])
  /\ c.op \in {"clearColorImage", "clearAttachment"} => IsTexel(c.color)
  /\ c.op \in {"fillBuffer", "updateBuffer"} =>
       /\ c.data \in Seq(0..(Byte - 1)) /\ InsideBuffer(c.dst, c.offset, NumBytes(c))
       /\ IF c.op = "fillBuffer"
          THEN Len(c.data) = 4 /\ (c.size = Rest \/ NumBytes(c) % 4 = 0)
          ELSE Len(c.data) >= NumBytes(c)
  /\ c.op = "hostWrite" =>
       /\ InsideImage(c.dst, c.level, c.layer, 1, c.xyz, <<1, 1, 1>>)
       /\ c.data \in Seq(0..(Byte - 1)) /\ Len(c.data) = ElementSize(Info[c.dst].format)
  /\ c.op = "fragment" =>
       /\ InsideView(c.view, <<c.xy[1], c.xy[2], 0>>, 0, 0)
       /\ Len(c.outputs) \in Nat
       /\ \A k \in 1..Len(c.outputs) :
            c.outputs[k].component \in 0..3 /\ c.outputs[k].values \in Seq(Int)
       /\ IsTexel(c.stale) /\ IsBlend(c.blend)
  /\ c.op = "write" => /\ HasCoord(c, 0) /\ IsTexel(c.texel)
                     /\ Storable(ViewInfo[c.view].format, c.texel)
  /\ c.op = "read" => HasCoord(c, c.level)

ASSUME ApplicationAssumption ==
  /\ Image \cap Buffer = {}
  /\ \A i \in Image : IsShape(Info[i]) /\ Fits32(Info[i])
  /\ \A b \in Buffer : BufferSize[b] \in 1..(Word - 1)
  /\ \A v \in View : IsView(v)
  /\ \A c \in Command : IsCommand(c)

\* The memory there is holds what is bound to it.
ASSUME MemoryAssumption ==
  \A m \in Contents :
    /\ DOMAIN m \subseteq Nat /\ \A a \in DOMAIN m : m[a] \in 0..(Byte - 1)
    /\ \A p \in Placement : \A r \in Resource :
         p[r] \in Nat /\ Span(p[r], MemoryRequirements(r).size) \subseteq DOMAIN m

-----------------------------------------------------------------------------
\* The type invariant: global memory keeps its size, and is made of bytes.
TypeOK ==
  /\ address \in Placement /\ count \in 0..MaxCommands
  /\ \E m \in Contents : DOMAIN mem = DOMAIN m
  /\ \A a \in DOMAIN mem : mem[a] \in 0..(Byte - 1)

Init ==
  /\ address \in {p \in Placement : BindMemory(p)}
  /\ mem \in Contents
  /\ result = <<>> /\ last = [op |-> "none"] /\ count = 0

Executes(op, c) ==
  /\ count < MaxCommands /\ count' = count + 1
  /\ c.op = op /\ last' = c
  /\ UNCHANGED address

CopyBuffer(c) ==
  /\ Executes("copyBuffer", c)
  /\ mem' = EachRegion(mem, c) /\ UNCHANGED result

CopyBufferToImage(c) ==
  /\ Executes("copyBufferToImage", c)
  /\ mem' = EachRegion(mem, c) /\ UNCHANGED result

CopyImageToBuffer(c) ==
  /\ Executes("copyImageToBuffer", c)
  /\ mem' = EachRegion(mem, c) /\ UNCHANGED result

CopyImage(c) ==
  /\ Executes("copyImage", c)
  /\ mem' = EachRegion(mem, c) /\ UNCHANGED result

BlitImage(c) ==
  /\ Executes("blitImage", c)
  /\ mem' = EachRegion(mem, c) /\ UNCHANGED result

ClearColorImage(c) ==
  /\ Executes("clearColorImage", c)
  /\ mem' = EachRegion(mem, c) /\ UNCHANGED result

ClearAttachment(c) ==
  /\ Executes("clearAttachment", c)
  /\ mem' = EachRegion(mem, c) /\ UNCHANGED result

FillBuffer(c) ==
  /\ Executes("fillBuffer", c)
  /\ mem' = FilledBuffer(mem, c) /\ UNCHANGED result

UpdateBuffer(c) ==
  /\ Executes("updateBuffer", c)
  /\ mem' = UpdatedBuffer(mem, c) /\ UNCHANGED result

\* The host writes a texel of a mapped image where SubresourceLayout puts it,
\* whatever the level it asked for.
HostWrite(c) ==
  /\ Executes("hostWrite", c)
  /\ LET img == Info[c.dst]
         layout == SubresourceLayout(img, c.layer)
         at == address[c.dst] + layout.offset + c.xyz[3] * layout.depthPitch
                 + c.xyz[2] * layout.rowPitch
                 + c.xyz[1] * ElementSize(img.format)
     IN mem' = Stored(mem, {[at |-> at, bytes |-> c.data]})
  /\ UNCHANGED result

\* A fragment reaches a colour attachment (the end of processFragment).
WriteFragment(c) ==
  /\ Executes("fragment", c)
  /\ LET f == ViewInfo[c.view].format
         at == ViewAddress(c.view, <<c.xy[1], c.xy[2], 0>>, 0, 0)
     IN mem' = Stored(mem, {[at |-> at,
                             bytes |-> FragmentBytes(f, LoadFrom(mem, at, ElementSize(f)), c)]})
  /\ UNCHANGED result

ShaderWrite(c) ==
  /\ Executes("write", c) /\ mem' = ImageWrite(c) /\ UNCHANGED result

ShaderRead(c) ==
  /\ Executes("read", c) /\ result' = ImageRead(c) /\ UNCHANGED mem

ShaderSample(c) ==
  /\ Executes("sample", c) /\ UNCHANGED mem
  /\ \E layer \in SampledLayers(c) : result' = ImageSample(c, layer)

ShaderQuery(c) ==
  /\ Executes("query", c) /\ result' = ImageQuerySize(c) /\ UNCHANGED mem

VertexInput(c) ==
  /\ Executes("vertex", c) /\ result' = LoadVertexInput(c) /\ UNCHANGED mem

\* vkGetImageMemoryRequirements of an image that is not bound yet.
RequireMemory(img) ==
  /\ Executes("require", [op |-> "require", image |-> img])
  /\ result' = <<TotalSize(img)>> /\ UNCHANGED mem

Next ==
  \/ \E img \in Shape : RequireMemory(img)
  \/ \E c \in Command :
       \/ CopyBuffer(c) \/ CopyBufferToImage(c) \/ CopyImageToBuffer(c)
       \/ CopyImage(c) \/ BlitImage(c) \/ ClearColorImage(c)
       \/ ClearAttachment(c) \/ FillBuffer(c) \/ UpdateBuffer(c) \/ HostWrite(c)
       \/ ShaderWrite(c) \/ ShaderRead(c) \/ ShaderSample(c) \/ ShaderQuery(c)
       \/ VertexInput(c) \/ WriteFragment(c)

Spec == Init /\ [][Next]_vars

-----------------------------------------------------------------------------
(* Properties *)

\* What a place of Surfaces holds: a byte of a buffer, or the bytes of a texel
\* found where getTexelAddress finds it.
Content ==
  [p \in PlacesOf(Info, BufferSize) |->
     IF p[1] \in Buffer THEN mem[address[p[1]] + p[2]]
     ELSE LET img == Info[p[1]] IN
          LoadFrom(mem, address[p[1]] + TexelOffset(img, SubSeq(p, 4, 6), p[3], p[2]),
                   ElementSize(img.format))]

Surface == INSTANCE Surfaces WITH content <- Content

(***************************************************************************)
(* Whatever address arithmetic of its own a command or instruction does,   *)
(* it changes and returns the texels and bytes that Surfaces says, and no  *)
(* other: copies agree with getTexelAddress about levels, layers and       *)
(* slices, views add their base level and layer, a scaled or mirrored blit *)
(* takes the texel under the middle of each destination texel, and filters *)
(* weigh the neighbours by their distance.  Surfaces says what Vulkan asks *)
(* for, except where the code does something else: a sample that repeats   *)
(* below zero, selects a layer below zero or is of a view in another       *)
(* format; a copy between images to a layer that is not the first; a fill  *)
(* to the end of a buffer that leaves a part of a word; the layout of a    *)
(* level that is not the first; a vertex input with a component that is    *)
(* not the first.  There Surfaces describes what the code does, or leaves  *)
(* the result open.                                                        *)
(***************************************************************************)
ImplementsSurfaces == Surface!Spec

\* What a command writes to, an image or a buffer.
Target(c) ==
  IF c.op \in {"clearAttachment", "fragment", "write"} THEN ViewInfo[c.view].of ELSE c.dst

\* The places a command may write: those of its target and, after a buffer that
\* is filled, of the part of a word that its last word has beyond the range.
Reach(c) ==
  LET size == MemoryRequirements(Target(c)).size
  IN Span(address[Target(c)],
          IF c.op = "fillBuffer" THEN size + ((-NumBytes(c)) % 4) ELSE size)

ChangesInside ==
  /\ DOMAIN mem' = DOMAIN mem
  /\ \A a \in DOMAIN mem : mem'[a] # mem[a] =>
       /\ last' \in Command /\ last'.op \notin {"read", "query", "sample", "vertex"}
       /\ a \in Reach(last')

(***************************************************************************)
(* Memory keeps its size, and the bytes that a step changes are all of the *)
(* image or buffer that its command names, whatever its regions, levels,   *)
(* layers and the shape of its image are, or one of the three at most that *)
(* the last word of a fill has beyond the end of its buffer.  Those may be *)
(* of the resource that is bound next to it.                               *)
(***************************************************************************)
WritesStayInside == [][ChangesInside]_vars

(***************************************************************************)
(* In an image of any shape the texels of all levels, layers and slices    *)
(* are apart from each other and fill the size that                        *)
(* vkGetImageMemoryRequirements tells the application to bind, as long as  *)
(* the bytes of each level are counted in 32 bits.                         *)
(***************************************************************************)
TexelsApart ==
  last.op = "require" =>
    LET img == last.image
        size == ElementSize(img.format)
        at(t) == TexelOffset(img, SubSeq(t, 3, 5), t[2], t[1])
        bytes(t) == at(t)..(at(t) + size - 1)
    IN Fits32(img) =>
         /\ UNION {bytes(t) : t \in TexelsOf(img)} = 0..(result[1] - 1)
         /\ \A t, u \in TexelsOf(img) : t # u => bytes(t) \cap bytes(u) = {}

(***************************************************************************)
(* What a shader writes into a channel is the nearest value that the       *)
(* format of the view has.  The one exception is a signed normalised value *)
(* below -1, which is stored as the least number and so reads as something *)
(* less than -1.                                                           *)
(***************************************************************************)
NearestStored ==
  TypeOK /\ (last.op = "write" =>
    LET f == ViewInfo[last.view].format
        p == Place(last.view, last.coord)
        now == TexelAt(last.view, p.xyz, p.layer, 0, f)
        values == {Load(f, n) : n \in 0..(Values(f.size) - 1)}
        worth(c) == IF f.kind = "UINT" THEN c % Word ELSE c
        off(v, c) == Abs(worth(v) - worth(c))
    IN \A k \in 1..f.channels :
         LET c == last.texel[k] IN
         IF f.kind = "SNORM" /\ c < -Unit THEN now[k] = Min(values)
         ELSE \A v \in values : off(now[k], c) <= off(v, c))
=============================================================================
