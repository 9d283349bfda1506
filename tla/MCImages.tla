------------------------------ MODULE MCImages ------------------------------
(* A small instance of Images for TLC: six images and two buffers, packed  *)
(* without a gap, and some commands of each kind.                          *)
EXTENDS Images

Format(channels, size, kind, bgr) ==
  [channels |-> channels, size |-> size, kind |-> kind, bgr |-> bgr]
RGBA8 == Format(4, 1, "UNORM", FALSE)
BGRA8 == Format(4, 1, "UNORM", TRUE)
BGR8S == Format(3, 1, "SNORM", TRUE)
R8I == Format(1, 1, "SINT", FALSE)
R8N == Format(1, 1, "SNORM", FALSE)
R8 == Format(1, 1, "UNORM", FALSE)
R16I == Format(1, 2, "SINT", FALSE)
RG8U == Format(2, 1, "UINT", FALSE)
R16U == Format(1, 2, "UINT", FALSE)
R32F == Format(1, 4, "SFLOAT", FALSE)

Img(format, w, h, d, layers, levels) ==
  [format |-> format, extent |-> <<w, h, d>>, layers |-> layers,
   levels |-> levels]

TheImages ==
  [color |-> Img(RGBA8, 2, 2, 1, 2, 2), bytes |-> Img(R8I, 3, 2, 1, 3, 2),
   solid |-> Img(RG8U, 2, 2, 2, 1, 2), floats |-> Img(R32F, 2, 1, 1, 1, 1),
   swapped |-> Img(BGRA8, 2, 1, 1, 1, 1), wide |-> Img(RGBA8, 3, 1, 1, 1, 1)]
TheBuffers == [big |-> 24, small |-> 10]

ImageView(of, dim, arrayed, format, level, layer, layers) ==
  [of |-> of, dim |-> dim, arrayed |-> arrayed, format |-> format,
   level |-> level, layer |-> layer, layers |-> layers]
BufferView(of, format, offset, range) ==
  [of |-> of, dim |-> "1D", arrayed |-> FALSE, format |-> format, level |-> 0,
   layer |-> 0, layers |-> 1, offset |-> offset, range |-> range]

TheViews ==
  [flat |-> ImageView("color", "2D", FALSE, RGBA8, 0, 1, 1),
   array |-> ImageView("color", "2D", TRUE, RGBA8, 0, 0, Rest),
   mip |-> ImageView("bytes", "2D", TRUE, R8N, 1, 1, Rest),
   volume |-> ImageView("solid", "3D", FALSE, RG8U, 0, 0, 1),
   line |-> ImageView("wide", "1D", FALSE, RGBA8, 0, 0, Rest),
   swap |-> ImageView("swapped", "2D", FALSE, BGRA8, 0, 0, 1),
   recast |-> ImageView("swapped", "2D", FALSE, RGBA8, 0, 0, 1),
   texels |-> BufferView("big", R16U, 3, 7), 
   tail |-> BufferView("big", BGR8S, 5, Rest),
   snorm |-> BufferView("big", R8N, 1, 4), unorm |-> BufferView("big", R8, 1, 4),
   sint |-> BufferView("big", R16I, 2, 4)]

\* Resources one after another, in the order given.
Packed(order) ==
  LET size(r) == IF r \in DOMAIN TheBuffers THEN TheBuffers[r]
                 ELSE TotalSize(TheImages[r])
      before(k) == MapThenSumSet(LAMBDA j : size(order[j]), 1..(k - 1))
  IN [r \in DOMAIN TheImages \cup DOMAIN TheBuffers |->
        4 + before(CHOOSE k \in 1..Len(order) : order[k] = r)]
Placements ==
  {Packed(<<"big", "color", "bytes", "solid", "floats", "swapped", "wide", "small">>),
   Packed(<<"solid", "small", "big", "wide", "floats", "color", "swapped", "bytes">>)}

\* Two bytes of memory differ in one of these.
Patterns == LET top == 4 + MapThenSumSet(LAMBDA r : MemoryRequirements(r).size, Resource)
            IN
  {[a \in 0..(top - 1) |-> a % 8],
   [a \in 0..(top - 1) |-> ((a \div 8) + 3 * (a \div 64)) % 8]}

-----------------------------------------------------------------------------
(* Commands *)

BufferCopies ==
  {[op |-> "copyBuffer", src |-> "big", dst |-> "small", regions |-> r] :
     r \in {<<[srcOffset |-> 3, dstOffset |-> 1, size |-> 5]>>,
            <<[srcOffset |-> 0, dstOffset |-> 8, size |-> 2],
              [srcOffset |-> 20, dstOffset |-> 0, size |-> 4]>>}}

\* Regions of each image, whole or in part, tight or with a row length.
Regions(xyz, extent, level, layer, layers) ==
  {[offset |-> o, rowLength |-> rl, imageHeight |-> ih, level |-> level,
    layer |-> layer, layers |-> layers, xyz |-> xyz, extent |-> extent] :
     o \in {0, 1}, rl \in {0, extent[1] + 1}, ih \in {0, extent[2] + 1}}
BytesRegions ==
  Regions(<<1, 0, 0>>, <<2, 2, 1>>, 0, 1, 2) \cup Regions(<<0, 1, 0>>, <<3, 1, 1>>, 0, 0, 3)
    \cup Regions(<<0, 0, 0>>, <<1, 1, 1>>, 1, 1, 2)
SolidRegions ==
  Regions(<<0, 1, 0>>, <<2, 1, 2>>, 0, 0, 1) \cup Regions(<<0, 0, 0>>, <<1, 1, 1>>, 1, 0, 1)
Between2(b, i, rs) ==
  {[op |-> "copyBufferToImage", src |-> b, dst |-> i, regions |-> <<r>>] : r \in rs}
    \cup {[op |-> "copyImageToBuffer", src |-> i, dst |-> b, regions |-> <<r>>] : r \in rs}
TexelCopies == Between2("big", "bytes", BytesRegions) \cup Between2("big", "solid", SolidRegions)
  \cup Between2("big", "color", Regions(<<1, 0, 0>>, <<1, 2, 1>>, 0, 1, 1))
  \cup {[op |-> "copyBufferToImage", src |-> "big", dst |-> "bytes",
         regions |-> <<CHOOSE r \in Regions(<<0, 0, 0>>, <<2, 1, 1>>, 0, 2, 1) : TRUE,
                       CHOOSE r \in Regions(<<0, 0, 0>>, <<1, 1, 1>>, 1, 0, 1) : TRUE>>]}

ImageCopies ==
  {[op |-> "copyImage", src |-> "floats", dst |-> d, regions |-> <<r>>] :
     d \in {"color", "swapped"},
     r \in {[srcXyz |-> <<0, 0, 0>>, dstXyz |-> <<0, 0, 0>>, dstLayer |-> 0, extent |-> <<2, 1, 1>>],
            [srcXyz |-> <<1, 0, 0>>, dstXyz |-> <<0, 0, 0>>, dstLayer |-> 0, extent |-> <<1, 1, 1>>]}}
  \cup {[op |-> "copyImage", src |-> "color", dst |-> "wide", regions |->
           <<[srcXyz |-> <<0, 1, 0>>, dstXyz |-> <<1, 0, 0>>, dstLayer |-> 0, extent |-> <<2, 1, 1>>]>>],
        [op |-> "copyImage", src |-> "floats", dst |-> "color", regions |->
           <<[srcXyz |-> <<0, 0, 0>>, dstXyz |-> <<0, 1, 0>>, dstLayer |-> 1, extent |-> <<2, 1, 1>>]>>]}

Boxes(w, h) == {<<<<0, w>>, <<0, h>>, <<0, 1>>>>, <<<<w, 0>>, <<0, h>>, <<0, 1>>>>,
                <<<<0, w>>, <<h, 0>>, <<0, 1>>>>, <<<<w - 1, w>>, <<0, 1>>, <<0, 1>>>>}
Blit(src, dst, sl, sy, dl, dy, n, from, to) ==
  [op |-> "blitImage", src |-> src, dst |-> dst,
   regions |-> <<[srcLevel |-> sl, srcLayer |-> sy, dstLevel |-> dl, dstLayer |-> dy,
                  layers |-> n, src |-> from, dst |-> to]>>]
Blits ==
  {Blit("color", "bytes", 0, 0, 0, 1, 2, b, d) : b \in Boxes(2, 2), d \in Boxes(3, 2)}
    \cup {Blit("wide", "color", 0, 0, 0, 1, 1, b, d) : b \in Boxes(3, 1), d \in Boxes(2, 2)}
    \cup {Blit("color", "swapped", 1, 1, 0, 0, 1, b, d) : b \in {<<<<0, 1>>, <<0, 1>>, <<0, 1>>>>}, d \in Boxes(2, 1)}
    \cup {Blit("swapped", "floats", 0, 0, 0, 0, 1, b, d) : b \in Boxes(2, 1), d \in Boxes(2, 1)}

Clears ==
  {[op |-> "clearColorImage", dst |-> i, color |-> <<Unit \div 4, -1, 2 * Unit, Unit \div 2>>,
    regions |-> <<[level |-> l, levels |-> n, layer |-> y, layers |-> m]>>] :
     i \in {"color", "bytes"}, l \in {0, 1}, n \in {1, Rest}, y \in {0, 1}, m \in {1, Rest}}
  \cup {[op |-> "clearColorImage", dst |-> "solid", color |-> <<1, 300, 0, 0>>,
         regions |-> <<[level |-> 0, levels |-> Rest, layer |-> 0, layers |-> 1]>>]}
  \cup {[op |-> "clearAttachment", view |-> v, color |-> <<3, -Unit, 5, 0>>,
         regions |-> <<[xy |-> <<x, 0>>, extent |-> <<1, 1>>, layer |-> 0, layers |-> 1],
                       [xy |-> <<0, 0>>, extent |-> <<1, 1>>, layer |-> 0, layers |-> 1]>>] :
        v \in {"flat", "mip"}, x \in {0}}
  \cup {[op |-> "clearAttachment", view |-> "array", color |-> <<Unit, 0, 96, 90>>,
         regions |-> <<[xy |-> <<1, 0>>, extent |-> <<1, 2>>, layer |-> 0, layers |-> 2]>>]}

Fills ==
  {[op |-> "fillBuffer", dst |-> "small", offset |-> o, size |-> n, data |-> <<7, 6, 5, 4>>] :
     o \in {0, 4}, n \in {4, Rest}}
  \cup {[op |-> "fillBuffer", dst |-> "small", offset |-> 8, size |-> Rest, data |-> <<7, 6, 5, 4>>]}
  \cup {[op |-> "updateBuffer", dst |-> "big", offset |-> 20, size |-> n, data |-> <<1, 3, 5, 7>>] :
          n \in {Rest, 3}}
  \cup {[op |-> "hostWrite", dst |-> "bytes", level |-> 0, layer |-> y, xyz |-> <<x, 1, 0>>,
         data |-> <<5>>] : x \in 0..2, y \in 0..2}
  \cup {[op |-> "hostWrite", dst |-> "bytes", level |-> 1, layer |-> y, xyz |-> <<0, 0, 0>>,
         data |-> <<5>>] : y \in 0..2}
  \cup {[op |-> "hostWrite", dst |-> "solid", level |-> 0, layer |-> 0, xyz |-> <<1, y, z>>,
         data |-> <<5, 2>>] : y \in 0..1, z \in 0..1}

\* Values around the ends and the middles of the ranges of the formats.
Components == {-2048, -1345, -1344, -673, -33, -32, -1, 0, 1, 31, 32, 63, 64, 95, 97, 223,
               224, 225, 671, 673, 1343, 1344, 2047}
Shaders ==
  {[op |-> "read", view |-> "array", coord |-> <<1, y, l>>, level |-> 0] : y \in 0..1, l \in 0..1}
  \cup {[op |-> "read", view |-> "mip", coord |-> <<0, 0, l>>, level |-> 0] : l \in 0..1}
  \cup {[op |-> "read", view |-> "array", coord |-> <<0, 0, 1>>, level |-> 1],
        [op |-> "read", view |-> "volume", coord |-> <<1, 0, 1>>, level |-> 0]}
  \cup {[op |-> "read", view |-> v, coord |-> <<x>>, level |-> 0] : v \in {"texels", "tail"}, x \in 0..2}
  \cup {[op |-> "write", view |-> v, coord |-> <<x>>, texel |-> <<t, 0, 0, 0>>] :
          v \in {"texels", "snorm", "unorm", "sint"}, x \in {0, 1}, t \in Components}
  \cup {[op |-> "write", view |-> "tail", coord |-> <<x>>, texel |-> <<t, 500, -t, 9>>] :
          x \in 0..2, t \in {-1700, -300, 200, 1400}}
  \cup {[op |-> "write", view |-> "mip", coord |-> <<0, 0, 1>>, texel |-> <<Unit \div 2, 0, 0, 0>>],
        [op |-> "write", view |-> "volume", coord |-> <<0, 1, 1>>, texel |-> <<9, 1, 0, 0>>]}
  \cup {[op |-> "query", view |-> v, level |-> 0] : v \in DOMAIN TheViews}
  \cup {[op |-> "query", view |-> "array", level |-> 1]}
Samples ==
  {[op |-> "sample", view |-> "flat", coord |-> <<s, t>>, mode |-> m, filter |-> f] :
     s \in {-1, 0, 1, 3, 5}, t \in {0, 2, 3}, m \in {"REPEAT", "CLAMP"}, f \in {"LINEAR", "NEAREST"}}
  \cup {[op |-> "sample", view |-> "array", coord |-> <<1, t, y>>, mode |-> "CLAMP", filter |-> f] :
     t \in {1, 2}, y \in {-4, -2, -1, 0, 1, 3, 9}, f \in {"LINEAR", "NEAREST"}}
  \cup {[op |-> "sample", view |-> "line", coord |-> <<s>>, mode |-> m, filter |-> f] :
     s \in -3..5, m \in {"REPEAT", "CLAMP"}, f \in {"LINEAR", "NEAREST"}}
  \cup {[op |-> "sample", view |-> "recast", coord |-> <<s, 2>>, mode |-> "REPEAT", filter |-> f] :
     s \in 0..4, f \in {"LINEAR", "NEAREST"}}

Vertex(f, rate, o, k, n, float) ==
  {[op |-> "vertex", src |-> "big", format |-> f, rate |-> rate, stride |-> 5, vertex |-> v,
    instance |-> i, offset |-> o, component |-> k, count |-> n, float |-> float] :
     v \in {0, 2}, i \in {0, 1}}
Vertices ==
  UNION {Vertex(R32F, r, o, 0, n, TRUE) : r \in {"VERTEX", "INSTANCE"}, o \in {0, 3}, n \in {1, 2, 4}}
    \cup UNION {Vertex(Format(2, 4, "UINT", FALSE), r, 2, k, 2 - k, FALSE) :
                  r \in {"VERTEX", "INSTANCE"}, k \in {0, 1}}
    \cup UNION {Vertex(Format(3, 1, k, FALSE), "INSTANCE", 1, 0, n, TRUE) :
                  k \in {"SNORM", "UNORM"}, n \in {3, 4}}
    \cup Vertex(Format(3, 1, "UNORM", FALSE), "VERTEX", 0, 1, 3, TRUE)
    \cup Vertex(Format(2, 4, "UINT", FALSE), "VERTEX", 1, 1, 2, FALSE)

Blend(cs, cd, co, as, ad, ao) ==
  [enable |-> TRUE, srcColor |-> cs, dstColor |-> cd, colorOp |-> co, srcAlpha |-> as,
   dstAlpha |-> ad, alphaOp |-> ao, constant |-> <<192, 672, 1344, 336>>]
NoBlend == [enable |-> FALSE]
Fragment(v, x, y, outputs, mask, blend) ==
  [op |-> "fragment", view |-> v, xy |-> <<x, y>>, outputs |-> outputs, mask |-> mask,
   blend |-> blend, stale |-> <<7, 7, 7, 7>>]
OneOutput == <<[component |-> 0, values |-> <<672, 1344, 0, 960>>]>>
TwoOutputs == <<[component |-> 2, values |-> <<300, 1000>>], [component |-> 0, values |-> <<500, -60>>]>>
Fragments ==
  {Fragment("flat", 1, 0, OneOutput, 1..4, Blend(f, "ONE_MINUS_SRC_ALPHA", "ADD", f, "DST_ALPHA", "ADD")) :
     f \in BlendFactors}
  \cup {Fragment("array", 0, 1, TwoOutputs, 1..4, Blend("SRC_ALPHA", f, o, "ONE", f, "REVERSE_SUBTRACT")) :
     f \in BlendFactors, o \in {"SUBTRACT", "REVERSE_SUBTRACT"}}
  \cup {Fragment(v, 1, 0, TwoOutputs, k, NoBlend) : v \in {"flat", "swap"}, k \in SUBSET (1..4)}
  \cup {Fragment(v, 0, 0, OneOutput, 1..4, Blend("ONE", "ONE", o, "ZERO", "ONE", p)) :
          v \in {"flat", "mip", "swap"}, o \in {"MIN", "MAX"}, p \in {"MIN", "MAX", "SUBTRACT"}}

TheCommands ==
  BufferCopies \cup TexelCopies \cup ImageCopies \cup Blits \cup Clears \cup Fills
    \cup Shaders \cup Samples \cup Vertices \cup Fragments

-----------------------------------------------------------------------------
TheShapes ==
  {Img(f, w, h, d, n, l) : f \in {R8I, RG8U}, w \in {1, 2, 3, 5}, h \in {1, 3, 4},
                           d \in {1}, n \in {1, 3}, l \in 1..3}
  \cup {Img(BGR8S, w, h, d, 1, l) : w \in {1, 3, 4}, h \in {2, 3}, d \in {1, 2, 5}, l \in 1..3}
  \cup {Img(R32F, 32, 32, 1, 1, l) : l \in 1..2}
=============================================================================
