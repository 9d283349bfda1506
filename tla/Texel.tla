------------------------------- MODULE Texel -------------------------------
(***************************************************************************)
(* Texels and their formats (lib/talvos/Image.cpp): what Image::read makes *)
(* of the bytes of a texel, and what Image::write leaves in memory.        *)
(*                                                                         *)
(* A byte has Byte values.  The four components of a texel are raw words,  *)
(* written as signed numbers.  A float is fixed point, Unit being 1.0: the *)
(* instance picks a Unit of which every value it reaches is an exact       *)
(* multiple of 1/Unit.                                                     *)
(*                                                                         *)
(* A format is a record: its channels (1 to 4), the bytes of a channel,    *)
(* the kind of number a channel is, and whether red and blue are swapped.  *)
(***************************************************************************)
EXTENDS Integers, Sequences, FiniteSetsExt, SequencesExt

CONSTANTS Byte, Unit

\* What the bytes of a number weigh, from the first on: the powers of Byte.
Weights == <<1, Byte, Byte * Byte, Byte * Byte * Byte, Byte * Byte * Byte * Byte>>

\* How many values a number of so many bytes has; a word has four.
Values(size) == Weights[size + 1]
Word == Values(4)

ASSUME NumbersAssumption ==
  /\ Byte \in Nat /\ Byte > 2 /\ Byte % 2 = 0
  /\ Unit \in 1..(Word \div 2 - 1)

Signed(v, size) == IF v >= Values(size) \div 2 THEN v - Values(size) ELSE v
Raw(v) == Signed(v % Word, 4)

\* All that is left: VK_REMAINING_MIP_LEVELS, VK_REMAINING_ARRAY_LAYERS and
\* VK_WHOLE_SIZE.
Rest == -1

\* The number that little-endian bytes stand for, and the bytes of a number.
Number(bytes) == FoldRight(LAMBDA b, v : b + Byte * v, bytes, 0)
Bytes(v, size) ==
  [i \in 1..size |-> ((v % Values(size)) \div Weights[i]) % Byte]

ElementSize(f) == f.channels * f.size
HasAlphaChannel(f) == f.channels = 4

IsSigned(f) == f.kind \in {"SINT", "SNORM"}
Least(f) == IF IsSigned(f) THEN -(Values(f.size) \div 2) ELSE 0
Most(f) == (IF IsSigned(f) THEN Values(f.size) \div 2 ELSE Values(f.size)) - 1

\* The formats there are: a float is a word, red and blue are only swapped
\* where both are, and Unit is a multiple of what a normalised value is one of.
IsFormat(f) ==
  /\ f.channels \in 1..4 /\ f.size \in {1, 2, 4}
  /\ f.kind \in {"SINT", "UINT", "SNORM", "UNORM", "SFLOAT"}
  /\ f.kind = "SFLOAT" => f.size = 4
  /\ f.bgr \in BOOLEAN /\ f.bgr => f.channels >= 3
  /\ f.kind \in {"SNORM", "UNORM"} => Unit % Most(f) = 0

Abs(n) == IF n < 0 THEN -n ELSE n
Clamp(v, lo, hi) == IF v < lo THEN lo ELSE IF v > hi THEN hi ELSE v

\* Fault: a normalised value is cut off instead of rounded.
RoundDown(n, d) == n \div d

\* std::round of n / d: halves go away from zero.
Round(n, d) == IF n < 0 THEN -((d - 2 * n) \div (2 * d))
                        ELSE (2 * n + d) \div (2 * d)

\* Texel::load*: one channel, given as the number its bytes stand for.
Load(f, v) ==
  CASE f.kind = "SINT"  -> Signed(v, f.size)
    [] f.kind = "UINT"  -> Raw(v)
    [] f.kind = "SNORM" -> (Signed(v, f.size) * Unit) \div Most(f)
    [] f.kind = "UNORM" -> (v * Unit) \div Most(f)
    [] f.kind = "SFLOAT" -> Raw(v)

\* Texel::store*: the number one channel is stored as.
Store(f, c) ==
  CASE f.kind = "SINT"  -> Clamp(c, Least(f), Most(f))
    [] f.kind = "UINT"  -> Clamp(c % Word, 0, Most(f))
    [] f.kind \in {"SNORM", "UNORM"} ->
         IF c < (IF IsSigned(f) THEN -Unit ELSE 0) THEN Least(f)
         ELSE IF c >= Unit THEN Most(f)
         ELSE Round(c * Most(f), Unit)
    [] f.kind = "SFLOAT" -> c

\* std::swap(Data[0], Data[2])
Swapped(f, s) == IF f.bgr THEN [s EXCEPT ![1] = s[3], ![3] = s[1]] ELSE s

\* Image::read.  A format without alpha puts a one into the last raw channel
\* before the conversion, which then divides it in the normalised kinds.
Read(f, bytes) ==
  LET channel(c) ==
        IF c <= f.channels
        THEN Number(SubSeq(bytes, (c - 1) * f.size + 1, c * f.size))
        ELSE IF c = 4 THEN (IF f.kind = "SFLOAT" THEN Unit ELSE 1) ELSE 0
      raw == Swapped(f, [c \in 1..4 |-> channel(c)])
  IN [c \in 1..4 |-> Load(f, raw[c])]

\* Image::write: the bytes a texel leaves in memory.
Write(f, texel) ==
  LET stored == Swapped(f, [c \in 1..4 |-> Store(f, texel[c])])
  IN FlattenSeq([c \in 1..f.channels |-> Bytes(stored[c], f.size)])

\* The texels of an image: mip level, array layer and coordinate.  A level is
\* half the one before on each axis, and never less than one texel.
LevelSize(img, axis, level) == Max({1, img.extent[axis] \div 2^level})
TexelsOf(img) ==
  UNION {{<<level, layer, x, y, z>> :
            layer \in 0..(img.layers - 1),
            x \in 0..(LevelSize(img, 1, level) - 1),
            y \in 0..(LevelSize(img, 2, level) - 1),
            z \in 0..(LevelSize(img, 3, level) - 1)} :
         level \in 0..(img.levels - 1)}

\* The bytes of each level can be counted in a word.
Fits32(img) ==
  \A l \in 0..(img.levels - 1) :
    LevelSize(img, 1, l) * LevelSize(img, 2, l) * LevelSize(img, 3, l)
      * img.layers * ElementSize(img.format) < Word

\* The places of a set of images and buffers, each with its name.
PlacesOf(images, buffers) ==
  UNION {{<<i>> \o t : t \in TexelsOf(images[i])} : i \in DOMAIN images}
    \cup UNION {{<<b, n>> : n \in 0..(buffers[b] - 1)} : b \in DOMAIN buffers}
=============================================================================
