---------------------------- MODULE Images_proofs ----------------------------
(****************************************************************************)
(* Proofs about Images, for any images, views, memory and commands that     *)
(* ApplicationAssumption and MemoryAssumption allow.                        *)
(*                                                                          *)
(*   NothingWrittenOutside  a command changes bytes of what it names        *)
(*   WrittenIsNearest       a channel holds the nearest value of its format *)
(*   TexelsAreApart         the texels of an image are apart and fill it    *)
(*                                                                          *)
(* A texel is read back as it was written (ReadWritten): the number of some *)
(* bytes is a fold over a set, which unfolds into digits, and a number has  *)
(* one set of digits.  What a channel keeps of a value is then the nearest  *)
(* value of its format (NearestKept), format by format.                     *)
(*                                                                          *)
(* The offset of a mip level is a sum over the set of levels before it.     *)
(* Such a sum, taken in any order, is the sum of a sequence (AddingSums),   *)
(* and the terms of one cut the numbers below it into ranges (SumsMonotone, *)
(* SumsCover).  In a level, a texel is a number of four digits, its plane,  *)
(* row, column and byte, and digits exist and are unique (DigitsExist,      *)
(* DigitsUnique).                                                           *)
(*                                                                          *)
(* A coordinate inside its level is then inside the image (LevelMapped,     *)
(* ViewMapped), among the bytes that are bound to it (Held).  Each command  *)
(* changes bytes of the resource it names and no others (ChangesOnly, from  *)
(* CopyBufferType to ImageWriteType), but for the last word of a fill       *)
(* (WordsInside); the invariant Written carries this from step to step.     *)
(****************************************************************************)
EXTENDS Images, FiniteSetTheorems, SequenceTheorems, WellFoundedInduction, TLAPS
-------------------------------------------------------------------------------
(* Bytes and numbers                                                         *)

(* A quotient and a remainder are known by what they make up.                *)
LEMMA DivideUnique ==
  ASSUME NEW n \in Int, NEW d \in Nat \ {0}, NEW q \in Int, NEW r \in 0..(d - 1), n = q * d + r
  PROVE  n \div d = q /\ n % d = r
<1> DEFINE p == n \div d
           t == n % d
<1>1. p \in Int /\ t \in 0..(d - 1) /\ n = d * p + t
  OBVIOUS
<1> HIDE DEF p, t
<1>2. (q - p) * d = t - r
  BY <1>1
<1>3. CASE q > p
  <2>1. (q - p - 1) * d \in Nat /\ (q - p - 1) * d = (q - p) * d - d
    BY <1>1, <1>3
  <2> QED  BY <1>1, <1>2, <2>1
<1>4. CASE p > q
  <2>1. (p - q - 1) * d \in Nat /\ (p - q - 1) * d = -((q - p) * d) - d
    BY <1>1, <1>4
  <2> QED  BY <1>1, <1>2, <2>1
<1>5. CASE p = q
  BY <1>1, <1>2, <1>5 DEF p, t
<1> QED  BY <1>1, <1>3, <1>4, <1>5

(* A number of two digits is below the product of their bounds.              *)
LEMMA DigitsBounded ==
  ASSUME NEW m \in Nat, NEW b \in Nat, NEW q \in 0..(m - 1), NEW r \in 0..(b - 1)
  PROVE  q * b + r \in 0..(m * b - 1)
<1>1. q * b \in Nat /\ r \in Nat
  OBVIOUS
<1>2. (m - 1 - q) * b \in Nat /\ (m - 1 - q) * b = m * b - b - q * b
  OBVIOUS
<1> QED  BY <1>1, <1>2

(* A number that is written with two digits.                                 *)
HasDigits(m, b, a) == \E q \in 0..(m - 1), r \in 0..(b - 1) : a = q * b + r
(* Every number below m * b has its two digits.                              *)
LEMMA DigitsExist ==
  ASSUME NEW m \in Nat, NEW b \in Nat \ {0}, NEW a \in 0..(m * b - 1)
  PROVE  HasDigits(m, b, a)
<1> DEFINE q == a \div b
           r == a % b
<1>1. a \in Nat /\ q \in Nat /\ r \in 0..(b - 1) /\ a = b * q + r
  OBVIOUS
<1> HIDE DEF q, r
<1>2. q < m
  <2> SUFFICES ASSUME q >= m PROVE FALSE
    BY <1>1
  <2>1. b * (q - m) \in Nat /\ b * (q - m) = b * q - b * m
    BY <1>1
  <2> QED  BY <1>1, <2>1
<1>3. q \in 0..(m - 1) /\ a = q * b + r
  BY <1>1, <1>2
<1> QED  BY <1>1, <1>3 DEF HasDigits

(* How many values numbers of one, two and four bytes have.                  *)
LEMMA ValuesAre ==
  /\ Byte \in Nat /\ Byte > 2
  /\ Values(1) = Byte /\ Values(2) = Byte * Byte /\ Values(4) = Byte * Byte * Byte * Byte
  /\ Values(4) = Word
<1>1. Byte \in Nat /\ Byte > 2
  BY NumbersAssumption
<1>2. /\ Weights[2] = Byte /\ Weights[3] = Byte * Byte
      /\ Weights[5] = Byte * Byte * Byte * Byte
  BY DEF Weights
<1> QED  BY <1>1, <1>2 DEF Values, Word

(* There is an even number of them.                                          *)
LEMMA ValuesType ==
  ASSUME NEW size \in {1, 2, 4}
  PROVE  /\ Values(size) \in Nat /\ Values(size) \div 2 \in Nat /\ Values(size) \div 2 > 1
         /\ Values(size) = 2 * (Values(size) \div 2) /\ Values(size) <= Word
<1>1. PICK h \in Nat : h > 1 /\ Byte = 2 * h
  <2>1. Byte \in Nat /\ Byte > 2 /\ Byte % 2 = 0
    BY NumbersAssumption
  <2>2. Byte \div 2 \in Nat /\ Byte = 2 * (Byte \div 2)
    BY <2>1
  <2> QED  BY <2>1, <2>2
<1>2. h * Byte \in Nat /\ h * Byte >= h /\ h * Byte > 1 /\ Byte * Byte = 2 * (h * Byte)
  BY <1>1
<1>3. h * Byte * Byte \in Nat /\ h * Byte * Byte >= h * Byte /\ Byte * Byte * Byte = 2 * (h * Byte * Byte)
  BY <1>1, <1>2
<1>4. /\ h * Byte * Byte * Byte \in Nat /\ h * Byte * Byte * Byte >= h * Byte * Byte
      /\ Byte * Byte * Byte * Byte = 2 * (h * Byte * Byte * Byte)
  BY <1>1, <1>2, <1>3
<1>5. \A k \in Nat : (2 * k) \div 2 = k
  OBVIOUS
<1>6. CASE size = 1
  BY <1>1, <1>2, <1>3, <1>4, <1>5, <1>6, ValuesAre
<1>7. CASE size = 2
  BY <1>1, <1>2, <1>3, <1>4, <1>5, <1>7, ValuesAre
<1>8. CASE size = 4
  BY <1>1, <1>2, <1>3, <1>4, <1>5, <1>8, ValuesAre
<1> QED  BY <1>6, <1>7, <1>8

(* The bytes of a number, as quotients and remainders.                       *)
LEMMA BytesAre ==
  ASSUME NEW v \in Int, NEW size \in {1, 2, 4}
  PROVE  /\ Bytes(v, size) \in [1..size -> 0..(Byte - 1)]
         /\ DOMAIN Bytes(v, size) = 1..size
<1>1. v % Values(size) \in Nat
  BY ValuesType
<1>2. ASSUME NEW i \in 1..size PROVE ((v % Values(size)) \div Weights[i]) % Byte \in 0..(Byte - 1)
  <2>1. /\ Weights[1] = 1 /\ Weights[2] = Byte /\ Weights[3] = Byte * Byte
        /\ Weights[4] = Byte * Byte * Byte
    BY DEF Weights
  <2>2. Byte \in Nat /\ Byte > 2
    BY ValuesAre
  <2>3. Byte * Byte \in Nat \ {0}
    BY <2>2
  <2>4. Byte * Byte * Byte \in Nat \ {0}
    BY <2>2, <2>3
  <2>5. i \in {1, 2, 3, 4}
    OBVIOUS
  <2>6. Weights[i] \in Nat \ {0}
    BY <2>1, <2>2, <2>3, <2>4, <2>5
  <2> HIDE DEF Weights
  <2>7. (v % Values(size)) \div Weights[i] \in Nat
    BY <1>1, <2>6
  <2> QED  BY <2>2, <2>7
<1> QED  BY <1>2 DEF Bytes

-----------------------------------------------------------------------------
(* The step of the fold that puts a number together.                         *)
Digits(b, g, D) ==
  g = [s \in SUBSET D |-> IF s = {} THEN 0 ELSE b[Min(s)] + Byte * g[s \ {Min(s)}]]
(* Number is the fold's value of all places.                                 *)
LEMMA NumberFold ==
  ASSUME NEW b
  PROVE  Number(b) = (CHOOSE g : Digits(b, g, DOMAIN b))[DOMAIN b]
BY DEF Number, FoldRight, MapThenFoldSet, Digits

(* A place counts if it is in the set.                                       *)
Counts(s, k, d, rest) == IF k \in s THEN d + Byte * rest ELSE rest
(* The fold over no more than four places exists.                            *)
LEMMA DigitsExistOver ==
  ASSUME NEW n \in {1, 2, 4}, NEW b, \A k \in 1..n : b[k] \in Int
  PROVE  \E g : Digits(b, g, 1..n)
<1> DEFINE D == SUBSET (1..n)
           f(k) == IF k <= n THEN b[k] ELSE 0
           h4(s) == Counts(s, 4, f(4), 0)
           h3(s) == Counts(s, 3, f(3), h4(s))
           h2(s) == Counts(s, 2, f(2), h3(s))
           h1(s) == Counts(s, 1, f(1), h2(s))
           g == [s \in D |-> h1(s)]
<1>1. ASSUME NEW s \in D PROVE g[s] = IF s = {} THEN 0 ELSE b[Min(s)] + Byte * g[s \ {Min(s)}]
  <2>1. CASE s = {}
    BY <2>1 DEF Counts
  <2>2. CASE s # {}
    <3>0. \A i \in s : i \in {1, 2, 3, 4} /\ i <= n /\ i \in Nat
      OBVIOUS
    <3>1. Min(s) \in s /\ \A i \in s : Min(s) <= i
      <4>1. \E x \in s : \A y \in s : x <= y
        <5>1. \A k \in {1, 2, 3, 4} : (k \in s /\ \A j \in s : k <= j) \/ k \notin s \/ \E j \in s : j < k
          BY <3>0
        <5>2. 1 \in s \/ 2 \in s \/ 3 \in s \/ 4 \in s
          <6>1. PICK x : x \in s
            BY <2>2
          <6>2. x \in {1, 2, 3, 4}
            BY <3>0, <6>1
          <6> QED  BY <6>1, <6>2
        <5> QED  BY <3>0, <5>1, <5>2
      <4> QED  BY <4>1 DEF Min
    <3> DEFINE m == Min(s)
               t == s \ {m}
    <3>2. t \in D
      OBVIOUS
    <3>3. m \in {1, 2, 3, 4} /\ m <= n /\ f(m) = b[m]
      BY <3>0, <3>1
    <3> HIDE DEF m
    <3>4. h1(s) = f(m) + Byte * h1(t)
      <4>1. CASE m = 1
        BY <3>1, <4>1 DEF Counts, m
      <4>2. CASE m = 2
        BY <3>1, <4>2 DEF Counts, m
      <4>3. CASE m = 3
        BY <3>1, <4>3 DEF Counts, m
      <4>4. CASE m = 4
        BY <3>1, <4>4 DEF Counts, m
      <4> QED  BY <3>3, <4>1, <4>2, <4>3, <4>4
    <3> QED  BY <2>2, <3>2, <3>3, <3>4 DEF m
  <2> QED  BY <2>1, <2>2
<1>2. g = [s \in D |-> g[s]]
  OBVIOUS
<1> HIDE DEF g
<1>3. g = [s \in D |-> IF s = {} THEN 0 ELSE b[Min(s)] + Byte * g[s \ {Min(s)}]]
  BY <1>1, <1>2, Zenon
<1>4. Digits(b, g, 1..n)
  BY <1>3 DEF Digits
<1> QED  BY <1>4

(* Number, one place at a time.                                              *)
Unfolds(b, n, g) ==
  /\ Number(b) = g[1..n] /\ g[(n + 1)..n] = 0
  /\ \A k \in 1..n : g[k..n] = b[k] + Byte * g[(k + 1)..n]
(* There is such a function of the places left.                              *)
LEMMA NumberSteps ==
  ASSUME NEW n \in {1, 2, 4}, NEW b, DOMAIN b = 1..n, \A k \in 1..n : b[k] \in Int
  PROVE  \E g : Unfolds(b, n, g)
<1> DEFINE G == CHOOSE g : Digits(b, g, 1..n)
<1>1. \E g : Digits(b, g, 1..n)
  BY DigitsExistOver
<1>2. Digits(b, G, 1..n)
  BY <1>1
<1>3. Number(b) = G[1..n]
  BY NumberFold
<1> HIDE DEF G
<1>4. \A s \in SUBSET (1..n) : G[s] = IF s = {} THEN 0 ELSE b[Min(s)] + Byte * G[s \ {Min(s)}]
  BY <1>2 DEF Digits
<1>5. G[(n + 1)..n] = 0
  <2>1. (n + 1)..n = {}
    OBVIOUS
  <2>2. {} \in SUBSET (1..n)
    OBVIOUS
  <2> QED  BY <1>4, <2>1, <2>2
<1>6. ASSUME NEW k \in 1..n PROVE G[k..n] = b[k] + Byte * G[(k + 1)..n]
  <2>1. Min(k..n) = k
    <3>1. k \in k..n /\ \A y \in k..n : k <= y /\ y \in Int
      OBVIOUS
    <3>2. Min(k..n) \in k..n /\ \A y \in k..n : Min(k..n) <= y
      BY <3>1 DEF Min
    <3> QED  BY <3>1, <3>2
  <2>2. (k..n) \ {k} = (k + 1)..n /\ k..n \in SUBSET (1..n) /\ k..n # {}
    <3>1. \A y : y \in (k..n) \ {k} <=> y \in (k + 1)..n
      OBVIOUS
    <3>2. k \in k..n /\ k..n \in SUBSET (1..n)
      OBVIOUS
    <3> QED  BY <3>1, <3>2
  <2> QED  BY <1>4, <2>1, <2>2
<1> QED  BY <1>3, <1>5, <1>6 DEF Unfolds

(* A number is what its bytes stand for, as far as there are bytes for it.   *)
LEMMA NumberOfBytes ==
  ASSUME NEW v \in Int, NEW size \in {1, 2, 4}
  PROVE  Number(Bytes(v, size)) = v % Values(size)
<1> DEFINE b == Bytes(v, size)
           w == v % Values(size)
<1>1. PICK g : /\ Number(b) = g[1..size] /\ g[(size + 1)..size] = 0
               /\ \A k \in 1..size : g[k..size] = b[k] + Byte * g[(k + 1)..size]
  <2>1. DOMAIN b = 1..size /\ \A k \in 1..size : b[k] \in Int
    <3>1. b \in [1..size -> 0..(Byte - 1)] /\ DOMAIN b = 1..size
      BY BytesAre
    <3> HIDE DEF b
    <3>2. \A k \in 1..size : b[k] \in 0..(Byte - 1)
      BY <3>1
    <3> QED  BY <3>1, <3>2
  <2> HIDE DEF b
  <2>2. \E g : Unfolds(b, size, g)
    BY <2>1, NumberSteps
  <2> QED  BY <2>2 DEF Unfolds
<1>2. \A k \in 1..size : b[k] = (w \div Weights[k]) % Byte
  BY DEF Bytes
<1>3. Byte \in Nat \ {0} /\ w \in 0..(Values(size) - 1)
  BY ValuesAre, ValuesType
<1>4. /\ Weights[1] = 1 /\ Weights[2] = Byte /\ Weights[3] = Byte * Byte
      /\ Weights[4] = Byte * Byte * Byte
  BY DEF Weights
<1> HIDE DEF b, w, Weights
<1>5. CASE size = 1
  <2>1. w \in 0..(Byte - 1) /\ b[1] = (w \div 1) % Byte
    BY <1>2, <1>3, <1>4, <1>5, ValuesAre
  <2>2. b[1] = w
    BY <1>3, <2>1
  <2>3. g[1..1] = b[1] + Byte * g[2..1] /\ g[2..1] = 0
    BY <1>1, <1>5
  <2>4. Byte * 0 = 0 /\ w + 0 = w
    BY <1>3
  <2> QED  BY <1>1, <1>5, <2>2, <2>3, <2>4 DEF w, b
<1>6. CASE size = 2
  <2>1. PICK q \in 0..(Byte - 1), r \in 0..(Byte - 1) : w = q * Byte + r
    <3>1. w \in 0..(Byte * Byte - 1) /\ Byte \in Nat
      BY <1>3, <1>6, ValuesAre
    <3>2. HasDigits(Byte, Byte, w)
      BY <1>3, <3>1, DigitsExist, Zenon
    <3> QED  BY <3>2 DEF HasDigits
  <2>2. w \div Byte = q /\ w % Byte = r /\ w \div 1 = w
    BY <1>3, <2>1, DivideUnique
  <2>3. q % Byte = q
    BY <1>3
  <2>4. b[1] = r /\ b[2] = q
    BY <1>2, <1>4, <1>6, <2>2, <2>3
  <2>5. g[1..2] = b[1] + Byte * g[2..2] /\ g[2..2] = b[2] + Byte * g[3..2] /\ g[3..2] = 0
    BY <1>1, <1>6
  <2>6. r + Byte * (q + Byte * 0) = w
    BY <1>3, <2>1
  <2>7. g[1..2] = w
    BY <2>4, <2>5, <2>6
  <2> QED  BY <1>1, <1>6, <2>7 DEF w, b
<1>7. CASE size = 4
  <2> DEFINE B2 == Byte * Byte
             B3 == Byte * Byte * Byte
  <2>1. PICK p3 \in 0..(B3 - 1), d1 \in 0..(Byte - 1) : w = p3 * Byte + d1
    <3>1. w \in 0..(B3 * Byte - 1) /\ B3 \in Nat
      BY <1>3, <1>7, ValuesAre
    <3>2. HasDigits(B3, Byte, w)
      BY <1>3, <3>1, DigitsExist, Zenon
    <3> QED  BY <3>2 DEF HasDigits
  <2>2. PICK p2 \in 0..(B2 - 1), d2 \in 0..(Byte - 1) : p3 = p2 * Byte + d2
    <3>1. p3 \in 0..(B2 * Byte - 1) /\ B2 \in Nat
      BY <1>3, <2>1
    <3>2. HasDigits(B2, Byte, p3)
      BY <1>3, <3>1, DigitsExist, Zenon
    <3> QED  BY <3>2 DEF HasDigits
  <2>3. PICK d4 \in 0..(Byte - 1), d3 \in 0..(Byte - 1) : p2 = d4 * Byte + d3
    <3>1. p2 \in 0..(Byte * Byte - 1) /\ Byte \in Nat
      BY <1>3, <2>2
    <3>2. HasDigits(Byte, Byte, p2)
      BY <1>3, <3>1, DigitsExist, Zenon
    <3> QED  BY <3>2 DEF HasDigits
  <2>4. B2 \in Nat \ {0}
    BY <1>3
  <2>5. B3 \in Nat \ {0} /\ B3 = B2 * Byte
    BY <1>3, <2>4
  <2>6. w \div 1 = w /\ w % Byte = d1
    <3>1. p3 \in Int /\ w \in Int /\ w \div 1 = w
      BY <1>3, <2>1, <2>5
    <3> QED  BY <1>3, <2>1, <3>1, DivideUnique, Zenon
  <2>7. w \div Byte = p3 /\ p3 % Byte = d2
    <3>1. p3 \in Int /\ w \in Int /\ p2 \in Int
      BY <1>3, <2>1, <2>2, <2>4, <2>5
    <3>2. w \div Byte = p3
      BY <1>3, <2>1, <3>1, DivideUnique
    <3>3. p3 % Byte = d2
      BY <1>3, <2>2, <3>1, DivideUnique, Zenon
    <3> QED  BY <3>2, <3>3
  <2>8. w \div B2 = p2 /\ p2 % Byte = d3
    <3>1. d2 * Byte + d1 \in 0..(B2 - 1)
      BY <1>3, <2>1, <2>2, DigitsBounded
    <3>2. w = p2 * B2 + (d2 * Byte + d1)
      BY <1>3, <2>1, <2>2
    <3>3. p2 \in Int /\ w \in Int
      BY <1>3, <2>2
    <3>4. w \div B2 = p2
      BY <2>4, <3>1, <3>2, <3>3, DivideUnique
    <3>5. d4 \in Int
      BY <2>3
    <3>6. p2 % Byte = d3
      BY <1>3, <2>3, <3>3, <3>5, DivideUnique, Zenon
    <3> QED  BY <3>4, <3>6
  <2>9. w \div B3 = d4 /\ d4 % Byte = d4
    <3>1. d3 * Byte + d2 \in 0..(B2 - 1)
      BY <1>3, <2>2, <2>3, DigitsBounded
    <3>2. (d3 * Byte + d2) * Byte + d1 \in 0..(B3 - 1)
      BY <1>3, <2>1, <2>4, <2>5, <3>1, DigitsBounded
    <3>3. w = d4 * B3 + ((d3 * Byte + d2) * Byte + d1)
      BY <1>3, <2>1, <2>2, <2>3
    <3> QED  BY <1>3, <2>3, <2>5, <3>2, <3>3, DivideUnique
  <2>10. b[1] = d1 /\ b[2] = d2 /\ b[3] = d3 /\ b[4] = d4
    BY <1>2, <1>4, <1>7, <2>6, <2>7, <2>8, <2>9
  <2>11. /\ g[1..4] = b[1] + Byte * g[2..4] /\ g[2..4] = b[2] + Byte * g[3..4]
         /\ g[3..4] = b[3] + Byte * g[4..4] /\ g[4..4] = b[4] + Byte * g[5..4] /\ g[5..4] = 0
    BY <1>1, <1>7
  <2>12. d1 + Byte * (d2 + Byte * (d3 + Byte * (d4 + Byte * 0))) = w
    BY <1>3, <2>1, <2>2, <2>3
  <2>13. g[1..4] = w
    BY <2>10, <2>11, <2>12
  <2> QED  BY <1>1, <1>7, <2>13 DEF w, b
<1> QED  BY <1>5, <1>6, <1>7

(* The least and the greatest number of a channel.                           *)
LEMMA RangeType ==
  ASSUME NEW f, IsFormat(f)
  PROVE  /\ Least(f) \in Int /\ Most(f) \in Nat \ {0} /\ Least(f) <= 0
         /\ f.size \in {1, 2, 4} /\ Values(f.size) \in Nat /\ Values(f.size) \div 2 \in Nat
         /\ Values(f.size) = 2 * (Values(f.size) \div 2) /\ Values(f.size) <= Word
         /\ IsSigned(f) => /\ Least(f) = -(Values(f.size) \div 2)
                           /\ Most(f) = Values(f.size) \div 2 - 1
         /\ ~IsSigned(f) => Least(f) = 0 /\ Most(f) = Values(f.size) - 1
<1>1. f.size \in {1, 2, 4}
  BY DEF IsFormat
<1>2. /\ Values(f.size) \in Nat /\ Values(f.size) \div 2 \in Nat /\ Values(f.size) \div 2 > 1
      /\ Values(f.size) = 2 * (Values(f.size) \div 2) /\ Values(f.size) <= Word
  BY <1>1, ValuesType
<1> QED  BY <1>1, <1>2 DEF Least, Most

(* What a channel is stored as is a number.                                  *)
LEMMA StoreType ==
  ASSUME NEW f, IsFormat(f), NEW c \in Int
  PROVE  Store(f, c) \in Int
<1>1. Unit \in Nat \ {0} /\ Word \in Nat \ {0}
  <2>1. Word \div 2 \in Nat /\ Word \in Nat /\ Word = 2 * (Word \div 2) /\ Word \div 2 > 1
    BY ValuesType, ValuesAre
  <2> QED  BY <2>1, NumbersAssumption
<1>2. Least(f) \in Int /\ Most(f) \in Nat \ {0}
  BY RangeType
<1>3. \A n \in Int : Round(n, Unit) \in Int
  <2> SUFFICES ASSUME NEW n \in Int PROVE Round(n, Unit) \in Int
    OBVIOUS
  <2>1. 2 * Unit \in Nat \ {0} /\ Unit - 2 * n \in Int /\ 2 * n + Unit \in Int
    BY <1>1
  <2>2. (Unit - 2 * n) \div (2 * Unit) \in Int /\ (2 * n + Unit) \div (2 * Unit) \in Int
    BY <2>1
  <2> QED  BY <2>2 DEF Round
<1>4. c * Most(f) \in Int /\ c % Word \in Int
  BY <1>1, <1>2
<1>5. f.kind \in {"SINT", "UINT", "SNORM", "UNORM", "SFLOAT"}
  BY DEF IsFormat
<1>6. Round(c * Most(f), Unit) \in Int
  BY <1>3, <1>4
<1>7. CASE f.kind = "SINT"
  BY <1>2, <1>7 DEF Store, Clamp
<1>8. CASE f.kind = "UINT"
  BY <1>2, <1>4, <1>8 DEF Store, Clamp
<1>9. CASE f.kind \in {"SNORM", "UNORM"}
  <2>1. Store(f, c) = IF c < (IF IsSigned(f) THEN -Unit ELSE 0) THEN Least(f)
                      ELSE IF c >= Unit THEN Most(f) ELSE Round(c * Most(f), Unit)
    BY <1>9 DEF Store
  <2> QED  BY <1>2, <1>6, <2>1
<1>10. CASE f.kind = "SFLOAT"
  BY <1>10 DEF Store
<1> QED  BY <1>5, <1>7, <1>8, <1>9, <1>10

-----------------------------------------------------------------------------
(* A function of the numbers up to size is a sequence.                       *)
LEMMA ArrayIsSeq ==
  ASSUME NEW size \in Nat, NEW S, NEW b \in [1..size -> S]
  PROVE  b \in Seq(S) /\ Len(b) = size
OBVIOUS

(* The first i channels, one after another.                                  *)
Blocks(a, s, i, size) ==
  /\ a \in Seq(0..(Byte - 1)) /\ Len(a) = i * size
  /\ \A c \in 1..i, k \in 1..size : a[(c - 1) * size + k] = s[c][k]

(* One more channel.                                                         *)
LEMMA NextBlock ==
  ASSUME NEW size \in {1, 2, 4}, NEW i \in 1..3, NEW s, NEW a, Blocks(a, s, i, size),
         s[i + 1] \in [1..size -> 0..(Byte - 1)]
  PROVE  Blocks(a \o s[i + 1], s, i + 1, size)
<1> DEFINE b == s[i + 1]
           j == i + 1
<1>1. b \in Seq(0..(Byte - 1)) /\ Len(b) = size
  BY ArrayIsSeq
<1>2. a \in Seq(0..(Byte - 1)) /\ Len(a) = i * size
  BY DEF Blocks
<1>3. \A c \in 1..i, k \in 1..size : a[(c - 1) * size + k] = s[c][k]
  BY DEF Blocks
<1>4. s[j] = b
  OBVIOUS
<1> HIDE DEF b
<1>5. /\ a \o b \in Seq(0..(Byte - 1)) /\ Len(a \o b) = Len(a) + Len(b)
      /\ \A n \in 1..(Len(a) + Len(b)) :
           (a \o b)[n] = IF n <= Len(a) THEN a[n] ELSE b[n - Len(a)]
  BY <1>1, <1>2, ConcatProperties
<1>6. Len(a \o b) = j * size /\ Len(a) + Len(b) = j * size
  BY <1>1, <1>2, <1>5
<1>7. ASSUME NEW c \in 1..j, NEW k \in 1..size
      PROVE  (a \o b)[(c - 1) * size + k] = s[c][k]
  <2> DEFINE n == (c - 1) * size + k
  <2>1. CASE c \in 1..i
    <3>1. n \in 1..(i * size) /\ n \in 1..(j * size)
      BY <2>1
    <3>2. a[n] = s[c][k]
      BY <1>3, <2>1
    <3> HIDE DEF n, b
    <3>3. (a \o b)[n] = a[n]
      BY <1>2, <1>5, <1>6, <3>1
    <3> QED  BY <3>2, <3>3 DEF n
  <2>2. CASE c = j
    <3>1. n = i * size + k /\ n \in 1..(j * size) /\ ~(n <= i * size) /\ n - i * size = k
      BY <2>2
    <3> HIDE DEF n, j
    <3>2. (a \o b)[n] = b[k]
      BY <1>2, <1>5, <1>6, <3>1
    <3> QED  BY <1>4, <2>2, <3>2 DEF n
  <2>3. c \in 1..i \/ c = j
    OBVIOUS
  <2> QED  BY <2>1, <2>2, <2>3
<1> HIDE DEF j
<1> QED  BY <1>5, <1>6, <1>7 DEF Blocks, j, b

(* A sequence of channels, flattened.                                        *)
LEMMA FlattenBlocks ==
  ASSUME NEW size \in {1, 2, 4}, NEW n \in 1..4, NEW s,
         s \in [1..n -> [1..size -> 0..(Byte - 1)]]
  PROVE  Blocks(FlattenSeq(s), s, n, size)
<1> DEFINE flatten == CHOOSE h : h = [i \in 1..n |-> IF i = 1 THEN s[i] ELSE h[i - 1] \o s[i]]
           g == [i \in 1..n |-> IF i = 1 THEN s[1] ELSE IF i = 2 THEN s[1] \o s[2]
                                ELSE IF i = 3 THEN (s[1] \o s[2]) \o s[3]
                                ELSE ((s[1] \o s[2]) \o s[3]) \o s[4]]
<1>1. Len(s) = n /\ n # 0
  OBVIOUS
<1>2. FlattenSeq(s) = flatten[n]
  BY <1>1 DEF FlattenSeq
<1>3. \E h : h = [i \in 1..n |-> IF i = 1 THEN s[i] ELSE h[i - 1] \o s[i]]
  <2>1. ASSUME NEW i \in 1..n PROVE g[i] = IF i = 1 THEN s[i] ELSE g[i - 1] \o s[i]
    <3>1. i \in {1, 2, 3, 4}
      OBVIOUS
    <3>2. i # 1 => i - 1 \in 1..n /\ i - 1 \in {1, 2, 3}
      OBVIOUS
    <3> QED  BY <3>1, <3>2
  <2>2. g = [i \in 1..n |-> IF i = 1 THEN s[i] ELSE g[i - 1] \o s[i]]
    BY <2>1
  <2> HIDE DEF g
  <2> QED  BY <2>2
<1>4. flatten = [i \in 1..n |-> IF i = 1 THEN s[i] ELSE flatten[i - 1] \o s[i]]
  BY <1>3
<1> HIDE DEF flatten, g
<1>5. \A i \in 1..n : flatten[i] = IF i = 1 THEN s[i] ELSE flatten[i - 1] \o s[i]
  BY <1>4
<1>6. \A i \in 1..n : s[i] \in [1..size -> 0..(Byte - 1)]
  OBVIOUS
<1>7. Blocks(flatten[1], s, 1, size)
  <2>1. flatten[1] = s[1]
    BY <1>5
  <2>2. s[1] \in Seq(0..(Byte - 1)) /\ Len(s[1]) = size
    <3>1. 1 \in 1..n /\ size \in Nat
      OBVIOUS
    <3>2. s[1] \in [1..size -> 0..(Byte - 1)]
      BY <1>6, <3>1
    <3> QED  BY <3>1, <3>2, ArrayIsSeq
  <2> QED  BY <2>1, <2>2 DEF Blocks
<1>8. n >= 2 => Blocks(flatten[2], s, 2, size)
  <2> SUFFICES ASSUME n >= 2 PROVE Blocks(flatten[2], s, 2, size)
    OBVIOUS
  <2>1. 2 \in 1..n /\ 1 + 1 = 2 /\ 1 \in 1..3 /\ flatten[2] = flatten[1] \o s[2]
    <3>1. 2 \in 1..n /\ 2 # 1 /\ 2 - 1 = 1 /\ 1 + 1 = 2 /\ 1 \in 1..3
      OBVIOUS
    <3>2. flatten[2] = IF 2 = 1 THEN s[2] ELSE flatten[2 - 1] \o s[2]
      BY <1>5, <3>1
    <3> QED  BY <3>1, <3>2
  <2>2. s[1 + 1] \in [1..size -> 0..(Byte - 1)]
    BY <1>6, <2>1
  <2>3. Blocks(flatten[1], s, 1, size)
    BY <1>7, <2>1
  <2>4. Blocks(flatten[1] \o s[1 + 1], s, 1 + 1, size)
    BY <2>1, <2>2, <2>3, NextBlock
  <2> QED  BY <2>1, <2>4
<1>9. n >= 3 => Blocks(flatten[3], s, 3, size)
  <2> SUFFICES ASSUME n >= 3 PROVE Blocks(flatten[3], s, 3, size)
    OBVIOUS
  <2>1. 3 \in 1..n /\ 2 + 1 = 3 /\ 2 \in 1..3 /\ flatten[3] = flatten[2] \o s[3]
    <3>1. 3 \in 1..n /\ 3 # 1 /\ 3 - 1 = 2 /\ 2 + 1 = 3 /\ 2 \in 1..3
      OBVIOUS
    <3>2. flatten[3] = IF 3 = 1 THEN s[3] ELSE flatten[3 - 1] \o s[3]
      BY <1>5, <3>1
    <3> QED  BY <3>1, <3>2
  <2>2. s[2 + 1] \in [1..size -> 0..(Byte - 1)]
    BY <1>6, <2>1
  <2>3. Blocks(flatten[2], s, 2, size)
    BY <1>8, <2>1
  <2>4. Blocks(flatten[2] \o s[2 + 1], s, 2 + 1, size)
    BY <2>1, <2>2, <2>3, NextBlock
  <2> QED  BY <2>1, <2>4
<1>10. n >= 4 => Blocks(flatten[4], s, 4, size)
  <2> SUFFICES ASSUME n >= 4 PROVE Blocks(flatten[4], s, 4, size)
    OBVIOUS
  <2>1. 4 \in 1..n /\ 3 + 1 = 4 /\ 3 \in 1..3 /\ flatten[4] = flatten[3] \o s[4]
    <3>1. 4 \in 1..n /\ 4 # 1 /\ 4 - 1 = 3 /\ 3 + 1 = 4 /\ 3 \in 1..3
      OBVIOUS
    <3>2. flatten[4] = IF 4 = 1 THEN s[4] ELSE flatten[4 - 1] \o s[4]
      BY <1>5, <3>1
    <3> QED  BY <3>1, <3>2
  <2>2. s[3 + 1] \in [1..size -> 0..(Byte - 1)]
    BY <1>6, <2>1
  <2>3. Blocks(flatten[3], s, 3, size)
    BY <1>9, <2>1
  <2>4. Blocks(flatten[3] \o s[3 + 1], s, 3 + 1, size)
    BY <2>1, <2>2, <2>3, NextBlock
  <2> QED  BY <2>1, <2>4
<1>11. n \in {1, 2, 3, 4}
  OBVIOUS
<1> QED  BY <1>2, <1>7, <1>8, <1>9, <1>10, <1>11

-------------------------------------------------------------------------------
(* Texels, written and read back                                             *)

\* What the channels of a texel are stored as, in the order of memory.
Channels(f, texel) == Swapped(f, [c \in 1..4 |-> Store(f, texel[c])])

(* The swap of red and blue, channel by channel.                             *)
LEMMA SwappedIs ==
  ASSUME NEW f, NEW S, NEW s \in [1..4 -> S]
  PROVE  /\ Swapped(f, s) \in [1..4 -> S]
         /\ \A c \in 1..4 : Swapped(f, s)[c] =
              IF f.bgr /\ c = 1 THEN s[3] ELSE IF f.bgr /\ c = 3 THEN s[1] ELSE s[c]
<1>1. CASE f.bgr
  <2>1. Swapped(f, s) = [s EXCEPT ![1] = s[3], ![3] = s[1]]
    BY <1>1 DEF Swapped
  <2>2. s[1] \in S /\ s[3] \in S
    OBVIOUS
  <2> QED  BY <1>1, <2>1, <2>2
<1>2. CASE ~f.bgr
  BY <1>2 DEF Swapped
<1> QED  BY <1>1, <1>2

(* The bytes a texel leaves in memory are those of its channels.             *)
LEMMA WriteBlocks ==
  ASSUME NEW f, IsFormat(f), NEW texel \in [1..4 -> Int]
  PROVE  /\ Channels(f, texel) \in [1..4 -> Int]
         /\ Blocks(Write(f, texel), [c \in 1..f.channels |-> Bytes(Channels(f, texel)[c], f.size)],
                   f.channels, f.size)
<1> DEFINE st == Channels(f, texel)
           s == [c \in 1..f.channels |-> Bytes(st[c], f.size)]
<1>1. [c \in 1..4 |-> Store(f, texel[c])] \in [1..4 -> Int]
  BY StoreType
<1>2. st \in [1..4 -> Int]
  BY <1>1, SwappedIs DEF Channels
<1>3. Write(f, texel) = FlattenSeq(s)
  BY DEF Write, Channels
<1>4. f.channels \in 1..4 /\ f.size \in {1, 2, 4}
  BY DEF IsFormat
<1> HIDE DEF st
<1>5. ASSUME NEW c \in 1..f.channels PROVE s[c] \in [1..f.size -> 0..(Byte - 1)]
  <2>1. st[c] \in Int
    BY <1>2, <1>4
  <2> QED  BY <1>4, <2>1, BytesAre
<1>6. s \in [1..f.channels -> [1..f.size -> 0..(Byte - 1)]]
  BY <1>5
<1> HIDE DEF s
<1>7. Blocks(FlattenSeq(s), s, f.channels, f.size)
  BY <1>4, <1>6, FlattenBlocks
<1> QED  BY <1>2, <1>3, <1>7 DEF st, s

(* A texel is as many bytes as its format says, each of them a byte.         *)
LEMMA WriteType ==
  ASSUME NEW f, IsFormat(f), NEW texel \in [1..4 -> Int]
  PROVE  /\ Write(f, texel) \in Seq(0..(Byte - 1))
         /\ Len(Write(f, texel)) = ElementSize(f) /\ ElementSize(f) \in Nat \ {0}
<1>1. f.channels \in 1..4 /\ f.size \in {1, 2, 4}
  BY DEF IsFormat
<1>2. f.channels * f.size \in Nat \ {0}
  BY <1>1
<1> QED  BY <1>2, WriteBlocks DEF Blocks, ElementSize

(* What the bytes of a channel stand for.                                    *)
LEMMA BlockNumber ==
  ASSUME NEW size \in {1, 2, 4}, NEW n \in 1..4, NEW a, NEW s, Blocks(a, s, n, size),
         NEW c \in 1..n, NEW v \in Int, s[c] = Bytes(v, size)
  PROVE  Number(SubSeq(a, (c - 1) * size + 1, c * size)) = v % Values(size)
<1> DEFINE first == (c - 1) * size + 1
           end == c * size
           sub == SubSeq(a, first, end)
<1>1. a \in Seq(0..(Byte - 1)) /\ Len(a) = n * size
  BY DEF Blocks
<1>2. /\ first \in 1..(Len(a) + 1) /\ end \in (first - 1)..Len(a) /\ end - first + 1 = size
  BY <1>1
<1> HIDE DEF first, end
<1>3. Len(sub) = size /\ sub \in Seq(0..(Byte - 1)) /\ \A i \in 1..size : sub[i] = a[first + i - 1]
  <2>1. /\ sub \in Seq(0..(Byte - 1))
        /\ Len(sub) = IF first <= end THEN end - first + 1 ELSE 0
        /\ \A i \in 1..(end - first + 1) : sub[i] = a[first + i - 1]
    <3>1. \A i \in first..end : a[i] \in 0..(Byte - 1)
      <4> SUFFICES ASSUME NEW i \in first..end PROVE a[i] \in 0..(Byte - 1)
        OBVIOUS
      <4>1. i \in 1..Len(a)
        BY <1>1, <1>2
      <4> QED  BY <1>1, <4>1, ElementOfSeq
    <3>2. first \in Int /\ end \in Int
      BY <1>1, <1>2
    <3> QED  BY <3>1, <3>2, SubSeqProperties
  <2>2. first <= end /\ end - first + 1 = size
    BY <1>2
  <2> HIDE DEF sub
  <2> QED  BY <2>1, <2>2
<1>4. \A k \in 1..size : a[(c - 1) * size + k] = s[c][k]
  BY DEF Blocks
<1>5. ASSUME NEW k \in 1..size PROVE sub[k] = s[c][k]
  <2>1. first + k - 1 = (c - 1) * size + k
    BY DEF first
  <2> QED  BY <1>3, <1>4, <2>1
<1>6. sub = s[c]
  <2>1. sub \in [1..size -> 0..(Byte - 1)]
    <3> HIDE DEF sub
    <3> QED  BY <1>3, LenProperties
  <2>2. s[c] \in [1..size -> 0..(Byte - 1)]
    BY BytesAre
  <2> HIDE DEF sub
  <2> QED  BY <1>5, <2>1, <2>2
<1> QED  BY <1>6, NumberOfBytes DEF sub, first, end

(* A channel that is written and read in the same format comes back as the   *)
(* value of the number it was stored as.                                     *)
LEMMA ReadWritten ==
  ASSUME NEW f, IsFormat(f), NEW texel \in [1..4 -> Int], NEW k \in 1..f.channels
  PROVE  Read(f, Write(f, texel))[k] = Load(f, Store(f, texel[k]) % Values(f.size))
<1> DEFINE a == Write(f, texel)
           st == Channels(f, texel)
           channel(c) ==
             IF c <= f.channels
             THEN Number(SubSeq(a, (c - 1) * f.size + 1, c * f.size))
             ELSE IF c = 4 THEN (IF f.kind = "SFLOAT" THEN Unit ELSE 1) ELSE 0
           all == [c \in 1..4 |-> channel(c)]
           plain == [c \in 1..4 |-> Store(f, texel[c])]
<1>1. /\ f.channels \in 1..4 /\ f.size \in {1, 2, 4} /\ k \in 1..4
      /\ f.bgr => f.channels >= 3
  <2>1. f.channels \in 1..4 /\ f.size \in {1, 2, 4} /\ (f.bgr => f.channels >= 3)
    BY DEF IsFormat
  <2> QED  BY <2>1
<1>2. Read(f, a)[k] = Load(f, Swapped(f, all)[k])
  BY <1>1 DEF Read
<1>3. st \in [1..4 -> Int]
  BY WriteBlocks
<1>4. \A c \in 1..f.channels : channel(c) = st[c] % Values(f.size)
  <2> DEFINE s == [c \in 1..f.channels |-> Bytes(st[c], f.size)]
  <2>1. Blocks(a, s, f.channels, f.size)
    BY WriteBlocks
  <2> SUFFICES ASSUME NEW c \in 1..f.channels PROVE channel(c) = st[c] % Values(f.size)
    OBVIOUS
  <2>2. st[c] \in Int /\ s[c] = Bytes(st[c], f.size)
    BY <1>1, <1>3
  <2> HIDE DEF s, a, st
  <2>3. Number(SubSeq(a, (c - 1) * f.size + 1, c * f.size)) = st[c] % Values(f.size)
    BY <1>1, <2>1, <2>2, BlockNumber
  <2>4. c <= f.channels
    BY <1>1
  <2> QED  BY <2>3, <2>4
<1>5. st = Swapped(f, plain) /\ plain \in [1..4 -> Int]
  BY StoreType DEF Channels
<1>6. \A c \in 1..4 : Swapped(f, all)[c] =
        IF f.bgr /\ c = 1 THEN all[3] ELSE IF f.bgr /\ c = 3 THEN all[1] ELSE all[c]
  <2> DEFINE R == {all[c] : c \in 1..4}
  <2>1. all \in [1..4 -> R]
    OBVIOUS
  <2> HIDE DEF all, R
  <2> QED  BY <2>1, SwappedIs
<1>7. \A c \in 1..4 : st[c] =
        IF f.bgr /\ c = 1 THEN plain[3] ELSE IF f.bgr /\ c = 3 THEN plain[1] ELSE plain[c]
  BY <1>5, SwappedIs
<1>8. Swapped(f, all)[k] = Store(f, texel[k]) % Values(f.size)
  <2>1. \A c \in 1..f.channels : all[c] = st[c] % Values(f.size)
    BY <1>1, <1>4
  <2>2. plain[k] = Store(f, texel[k])
    BY <1>1
  <2> HIDE DEF all, st, plain
  <2>3. CASE f.bgr /\ k = 1
    <3>1. 3 \in 1..f.channels /\ 3 \in 1..4 /\ 1 \in 1..4
      BY <1>1, <2>3
    <3> QED  BY <1>6, <1>7, <2>1, <2>2, <2>3, <3>1
  <2>4. CASE f.bgr /\ k = 3
    <3>1. 1 \in 1..f.channels /\ 3 \in 1..4 /\ 1 \in 1..4
      BY <1>1, <2>4
    <3> QED  BY <1>6, <1>7, <2>1, <2>2, <2>4, <3>1
  <2>5. CASE ~(f.bgr /\ k = 1) /\ ~(f.bgr /\ k = 3)
    BY <1>1, <1>6, <1>7, <2>1, <2>2, <2>5
  <2> QED  BY <2>3, <2>4, <2>5
<1> QED  BY <1>2, <1>8

-------------------------------------------------------------------------------
(* The values of a format                                                    *)

(* What a quotient and a remainder make up.                                  *)
LEMMA DivideIs ==
  ASSUME NEW n \in Int, NEW d \in Nat \ {0}
  PROVE  n \div d \in Int /\ n % d \in 0..(d - 1) /\ n = d * (n \div d) + (n % d)
<1>1. n \div d \in Int
  OBVIOUS
<1>2. n % d \in 0..(d - 1)
  OBVIOUS
<1>3. n = d * (n \div d) + (n % d)
  OBVIOUS
<1> QED  BY <1>1, <1>2, <1>3

(* A signed number comes back from its bytes.                                *)
LEMMA SignedOfMod ==
  ASSUME NEW size \in {1, 2, 4},
         NEW n \in Int, -(Values(size) \div 2) <= n, n < Values(size) \div 2
  PROVE  Signed(n % Values(size), size) = n
<1> DEFINE v == Values(size)
           h == v \div 2
<1>1. v \in Nat /\ h \in Nat /\ h > 1 /\ v = 2 * h
  BY ValuesType
<1> HIDE DEF v, h
<1>2. CASE n >= 0
  <2>1. n \in 0..(v - 1) /\ n < h
    BY <1>1, <1>2 DEF v, h
  <2>2. n % v = n
    BY <1>1, <2>1
  <2> QED  BY <1>1, <2>1, <2>2 DEF Signed, v, h
<1>3. CASE n < 0
  <2>1. n + v \in 0..(v - 1) /\ n = (-1) * v + (n + v) /\ n + v >= h
    BY <1>1, <1>3 DEF v, h
  <2>2. n % v = n + v
    <3>1. -1 \in Int /\ v \in Nat \ {0}
      BY <1>1
    <3> QED  BY <2>1, <3>1, DivideUnique, Zenon
  <2> QED  BY <1>1, <2>1, <2>2 DEF Signed, v, h
<1> QED  BY <1>2, <1>3

(* And every number of so many bytes is a signed one.                        *)
LEMMA SignedRange ==
  ASSUME NEW size \in {1, 2, 4}, NEW n \in 0..(Values(size) - 1)
  PROVE  Signed(n, size) \in -(Values(size) \div 2)..(Values(size) \div 2 - 1)
BY ValuesType DEF Signed

(* The word that a number below Word is read as stands for that number.      *)
LEMMA RawOf ==
  ASSUME NEW n \in 0..(Word - 1)
  PROVE  Raw(n) \in Int /\ Raw(n) % Word = n
<1>1. Word \in Nat /\ Word > 1 /\ Word = Values(4)
  BY ValuesType, ValuesAre
<1>2. n % Word = n
  BY <1>1
<1>3. Raw(n) = n \/ Raw(n) = n - Word
  BY <1>1, <1>2 DEF Raw, Signed
<1>4. n - Word = (-1) * Word + n
  BY <1>1
<1>5. (n - Word) % Word = n
  BY <1>1, <1>4, DivideUnique
<1> QED  BY <1>1, <1>2, <1>3, <1>5

(* No multiple of q is nearer to c than one that is half of q away.          *)
LEMMA NearestMultiple ==
  ASSUME NEW q \in Nat \ {0}, NEW c \in Int, NEW r \in Int, NEW n \in Int,
         2 * (r * q - c) <= q, -q <= 2 * (r * q - c)
  PROVE  Abs(r * q - c) <= Abs(n * q - c)
<1> DEFINE a == r * q
           b == n * q
<1>1. a \in Int /\ b \in Int /\ 2 * (a - c) <= q /\ -q <= 2 * (a - c)
  OBVIOUS
<1>2. CASE n > r
  <2>1. (n - r - 1) * q \in Nat /\ (n - r - 1) * q = b - a - q
    BY <1>2
  <2> HIDE DEF a, b
  <2> QED  BY <1>1, <2>1 DEF Abs
<1>3. CASE n < r
  <2>1. (r - n - 1) * q \in Nat /\ (r - n - 1) * q = a - b - q
    BY <1>3
  <2> HIDE DEF a, b
  <2> QED  BY <1>1, <2>1 DEF Abs
<1>4. CASE n = r
  BY <1>1, <1>4 DEF Abs
<1> QED  BY <1>2, <1>3, <1>4

(* What a normalised value is rounded to, when 1.0 is q times the greatest   *)
(* number m of its format.                                                   *)
LEMMA RoundedIs ==
  ASSUME NEW q \in Nat \ {0}, NEW m \in Nat \ {0}, NEW c \in Int
  PROVE  \E r \in Int : /\ Round(c * m, q * m) = r
                        /\ 2 * (r * q - c) <= q /\ -q <= 2 * (r * q - c)
<1> DEFINE d == q * m
<1>0. d \in Nat \ {0} /\ c * m \in Int /\ 2 * d \in Nat \ {0} /\ 2 * q \in Nat \ {0}
  OBVIOUS
<1>1. CASE c < 0
  <2> DEFINE r == (q - 2 * c) \div (2 * q)
             t == (q - 2 * c) % (2 * q)
  <2>1. r \in Int /\ t \in 0..(2 * q - 1) /\ q - 2 * c = (2 * q) * r + t
    <3>1. q - 2 * c \in Int
      BY <1>0
    <3> QED  BY <1>0, <3>1, DivideIs
  <2> HIDE DEF r, t
  <2>2. t * m \in 0..(2 * d - 1)
    <3>1. t * m \in Nat /\ (2 * q - 1 - t) * m \in Nat
      BY <2>1
    <3>2. (2 * q - 1 - t) * m = 2 * d - m - t * m
      BY <2>1
    <3> QED  BY <1>0, <3>1, <3>2
  <2>3. d - 2 * (c * m) = r * (2 * d) + t * m
    <3>1. (q - 2 * c) * m = ((2 * q) * r + t) * m
      BY <2>1
    <3>2. (q - 2 * c) * m = d - 2 * (c * m) /\ ((2 * q) * r + t) * m = r * (2 * d) + t * m
      BY <2>1
    <3> QED  BY <3>1, <3>2
  <2>4. (d - 2 * (c * m)) \div (2 * d) = r
    <3>1. d - 2 * (c * m) \in Int
      BY <1>0
    <3> HIDE DEF d
    <3> QED  BY <1>0, <2>1, <2>2, <2>3, <3>1, DivideUnique
  <2>5. c * m < 0
    <3>1. (-c - 1) * m \in Nat /\ (-c - 1) * m = -(c * m) - m
      BY <1>1
    <3> QED  BY <1>0, <3>1
  <2>6. Round(c * m, d) = -r
    BY <2>4, <2>5 DEF Round
  <2>7. r * q \in Int /\ (-r) * q = -(r * q) /\ (2 * q) * r = 2 * (r * q)
    BY <2>1
  <2>8. 2 * ((-r) * q - c) <= q /\ -q <= 2 * ((-r) * q - c) /\ -r \in Int
    BY <2>1, <2>7
  <2> QED  BY <2>6, <2>8
<1>2. CASE c >= 0
  <2> DEFINE r == (2 * c + q) \div (2 * q)
             t == (2 * c + q) % (2 * q)
  <2>1. r \in Int /\ t \in 0..(2 * q - 1) /\ 2 * c + q = (2 * q) * r + t
    <3>1. 2 * c + q \in Int
      BY <1>0
    <3> QED  BY <1>0, <3>1, DivideIs
  <2> HIDE DEF r, t
  <2>2. t * m \in 0..(2 * d - 1)
    <3>1. t * m \in Nat /\ (2 * q - 1 - t) * m \in Nat
      BY <2>1
    <3>2. (2 * q - 1 - t) * m = 2 * d - m - t * m
      BY <2>1
    <3> QED  BY <1>0, <3>1, <3>2
  <2>3. 2 * (c * m) + d = r * (2 * d) + t * m
    <3>1. (2 * c + q) * m = ((2 * q) * r + t) * m
      BY <2>1
    <3>2. (2 * c + q) * m = 2 * (c * m) + d /\ ((2 * q) * r + t) * m = r * (2 * d) + t * m
      BY <2>1
    <3> QED  BY <3>1, <3>2
  <2>4. (2 * (c * m) + d) \div (2 * d) = r
    <3>1. 2 * (c * m) + d \in Int
      BY <1>0
    <3> HIDE DEF d
    <3> QED  BY <1>0, <2>1, <2>2, <2>3, <3>1, DivideUnique
  <2>5. c * m >= 0
    BY <1>2
  <2>6. Round(c * m, d) = r
    BY <1>0, <2>4, <2>5 DEF Round
  <2>7. r * q \in Int /\ (2 * q) * r = 2 * (r * q)
    BY <2>1
  <2>8. 2 * (r * q - c) <= q /\ -q <= 2 * (r * q - c)
    BY <2>1, <2>7
  <2> QED  BY <2>1, <2>6, <2>8
<1> QED  BY <1>1, <1>2

\* What a stored channel reads as.
Kept(f, c) == Load(f, Store(f, c) % Values(f.size))
\* What a value counts as when values are compared.
Worth(f, c) == IF f.kind = "UINT" THEN c % Word ELSE c

(* A clamped number is inside the bounds.                                    *)
LEMMA ClampRange ==
  ASSUME NEW v \in Int, NEW lo \in Int, NEW hi \in Int, lo <= hi
  PROVE  Clamp(v, lo, hi) \in Int /\ lo <= Clamp(v, lo, hi) /\ Clamp(v, lo, hi) <= hi
BY DEF Clamp

(* And no number inside them is nearer to the one that was clamped.          *)
LEMMA ClampNearest ==
  ASSUME NEW v \in Int, NEW lo \in Int, NEW hi \in Int, NEW n \in Int, lo <= n, n <= hi
  PROVE  Abs(Clamp(v, lo, hi) - v) <= Abs(n - v)
BY DEF Clamp, Abs

(* The nearest signed number.                                                *)
LEMMA NearestSINT ==
  ASSUME NEW f, IsFormat(f), f.kind = "SINT", NEW c \in Int, NEW n \in 0..(Values(f.size) - 1)
  PROVE  Abs(Kept(f, c) - c) <= Abs(Load(f, n) - c)
<1> DEFINE h == Values(f.size) \div 2
           s == Clamp(c, Least(f), Most(f))
<1>1. /\ f.size \in {1, 2, 4} /\ Values(f.size) \in Nat /\ h \in Nat /\ Values(f.size) = 2 * h
      /\ Least(f) = -h /\ Most(f) = h - 1 /\ Least(f) \in Int /\ Most(f) \in Int /\ Least(f) <= Most(f)
  BY RangeType DEF IsSigned
<1>2. Store(f, c) = s
  BY DEF Store
<1>3. s \in Int /\ -h <= s /\ s < h
  <2>1. s \in Int /\ Least(f) <= s /\ s <= Most(f)
    BY <1>1, ClampRange
  <2> QED  BY <1>1, <2>1
<1> HIDE DEF s
<1>4. Signed(s % Values(f.size), f.size) = s
  BY <1>1, <1>3, SignedOfMod
<1>5. Load(f, s % Values(f.size)) = s
  BY <1>4 DEF Load
<1>6. Load(f, n) = Signed(n, f.size)
  BY DEF Load
<1>7. Signed(n, f.size) \in -h..(h - 1)
  BY <1>1, SignedRange
<1>8. Abs(s - c) <= Abs(Signed(n, f.size) - c)
  <2>1. Signed(n, f.size) \in Int /\ Least(f) <= Signed(n, f.size) /\ Signed(n, f.size) <= Most(f)
    BY <1>1, <1>7
  <2> QED  BY <1>1, <2>1, ClampNearest DEF s
<1> QED  BY <1>2, <1>5, <1>6, <1>8 DEF Kept

(* The nearest unsigned number.                                              *)
LEMMA NearestUINT ==
  ASSUME NEW f, IsFormat(f), f.kind = "UINT", NEW c \in Int, NEW n \in 0..(Values(f.size) - 1)
  PROVE  Abs((Kept(f, c) % Word) - (c % Word)) <= Abs((Load(f, n) % Word) - (c % Word))
<1> DEFINE w == c % Word
           s == Clamp(w, 0, Most(f))
           v == Values(f.size)
<1>1. v \in Nat /\ v <= Word /\ Most(f) = v - 1 /\ Most(f) \in Nat \ {0}
  BY RangeType DEF IsSigned
<1>2. Word \in Nat \ {0} /\ w \in Int
  <2>1. Word \in Nat /\ Word > 1
    BY ValuesType, ValuesAre
  <2> QED  BY <2>1
<1>3. Store(f, c) = s
  BY DEF Store
<1>4. s \in Int /\ 0 <= s /\ s <= Most(f)
  <2>1. 0 <= Most(f) /\ Most(f) \in Int /\ 0 \in Int
    BY <1>1
  <2> HIDE DEF w
  <2> QED  BY <1>2, <2>1, ClampRange
<1> HIDE DEF s, w, v
<1>5. s \in 0..(Word - 1) /\ s % v = s /\ n \in 0..(Word - 1)
  BY <1>1, <1>2, <1>4 DEF v
<1>6. Load(f, s % v) % Word = s /\ Load(f, n) % Word = n
  BY <1>5, RawOf DEF Load
<1>7. Abs(s - w) <= Abs(n - w)
  <2>1. 0 \in Int /\ Most(f) \in Int /\ n \in Int /\ 0 <= n /\ n <= Most(f)
    BY <1>1 DEF v
  <2> QED  BY <1>2, <2>1, ClampNearest DEF s
<1> QED  BY <1>3, <1>6, <1>7 DEF Kept, w, v

(* A float is kept.                                                          *)
LEMMA NearestSFLOAT ==
  ASSUME NEW f, IsFormat(f), f.kind = "SFLOAT", NEW c \in -(Word \div 2)..(Word \div 2 - 1),
         NEW n \in 0..(Values(f.size) - 1)
  PROVE  Abs(Kept(f, c) - c) <= Abs(Load(f, n) - c)
<1>1. f.size = 4 /\ Values(4) = Word /\ Word \in Nat /\ Word > 1
  BY ValuesType, ValuesAre DEF IsFormat
<1>2. Store(f, c) = c
  BY DEF Store
<1>3. Signed(c % Word, 4) = c
  BY <1>1, SignedOfMod
<1>4. (c % Word) % Word = c % Word
  BY <1>1
<1>5. Kept(f, c) = c
  BY <1>1, <1>2, <1>3, <1>4 DEF Kept, Load, Raw
<1>6. Load(f, n) \in Int
  <2>1. n \in 0..(Word - 1)
    BY <1>1
  <2> QED  BY <2>1, RawOf DEF Load
<1> QED  BY <1>5, <1>6 DEF Abs

\* What one step of a normalised number is worth.
Quantum(f) == Unit \div Most(f)

(* The unit the values are counted in is a multiple of it.                   *)
LEMMA QuantumType ==
  ASSUME NEW f, IsFormat(f), f.kind \in {"SNORM", "UNORM"}
  PROVE  /\ Quantum(f) \in Nat \ {0} /\ Unit = Quantum(f) * Most(f)
         /\ Most(f) \in Nat \ {0} /\ Unit \in Nat \ {0}
<1>1. Most(f) \in Nat \ {0} /\ Unit % Most(f) = 0
  BY RangeType DEF IsFormat
<1>2. Unit \in Nat \ {0}
  <2>1. Word \div 2 \in Nat
    BY ValuesType, ValuesAre
  <2> QED  BY <2>1, NumbersAssumption
<1> DEFINE q == Unit \div Most(f)
<1>3. q \in Int /\ Unit = Most(f) * q + (Unit % Most(f)) /\ q >= 0
  <2>1. q \in Int /\ Unit = Most(f) * q + (Unit % Most(f))
    <3>1. Unit \in Int
      BY <1>2
    <3> QED  BY <1>1, <3>1, DivideIs
  <2>2. q >= 0
    BY <1>1, <1>2
  <2> QED  BY <2>1, <2>2
<1> HIDE DEF q
<1>4. Unit = Most(f) * q
  BY <1>1, <1>2, <1>3
<1>5. q # 0
  BY <1>1, <1>2, <1>4
<1>6. Most(f) * q = q * Most(f)
  BY <1>1, <1>3
<1> QED  BY <1>1, <1>2, <1>3, <1>4, <1>5, <1>6 DEF q, Quantum

(* The number s reads as s times that.                                       *)
LEMMA QuantumOf ==
  ASSUME NEW f, IsFormat(f), f.kind \in {"SNORM", "UNORM"}, NEW s \in Int
  PROVE  (s * Unit) \div Most(f) = s * Quantum(f) /\ s * Quantum(f) \in Int
<1> DEFINE q == Quantum(f)
           m == Most(f)
<1>1. q \in Nat \ {0} /\ Unit = q * m /\ m \in Nat \ {0}
  BY QuantumType
<1> HIDE DEF q, m
<1>2. s * Unit = (s * q) * m + 0 /\ s * q \in Int /\ s * Unit \in Int /\ 0 \in 0..(m - 1)
  BY <1>1
<1>3. (s * Unit) \div m = s * q
  BY <1>1, <1>2, DivideUnique
<1> QED  BY <1>2, <1>3 DEF q, m

(* What a normalised value inside the range of its format is stored as.      *)
LEMMA NormalisedStore ==
  ASSUME NEW f, IsFormat(f), f.kind \in {"SNORM", "UNORM"}, NEW c \in Int, c < Unit,
         c >= (IF IsSigned(f) THEN -Unit ELSE 0)
  PROVE  \E r \in Int : /\ Store(f, c) = r /\ Least(f) <= r /\ r <= Most(f)
                        /\ 2 * (r * Quantum(f) - c) <= Quantum(f)
                        /\ -Quantum(f) <= 2 * (r * Quantum(f) - c)
<1> DEFINE q == Quantum(f)
           m == Most(f)
<1>1. q \in Nat \ {0} /\ Unit = q * m /\ m \in Nat \ {0} /\ Unit \in Nat \ {0}
  BY QuantumType
<1>2. Store(f, c) = Round(c * m, q * m)
  BY <1>1 DEF Store
<1>3. IF IsSigned(f) THEN Least(f) = -m - 1 ELSE Least(f) = 0
  <2>1. CASE IsSigned(f)
    <3>1. Least(f) = -(Values(f.size) \div 2) /\ m = Values(f.size) \div 2 - 1 /\ Values(f.size) \div 2 \in Nat
      BY <2>1, RangeType
    <3> QED  BY <2>1, <3>1
  <2>2. CASE ~IsSigned(f)
    BY <2>2, RangeType
  <2> QED  BY <2>1, <2>2
<1> HIDE DEF q, m
<1>4. PICK r \in Int : Round(c * m, q * m) = r /\ 2 * (r * q - c) <= q /\ -q <= 2 * (r * q - c)
  BY <1>1, RoundedIs
<1>5. r <= m
  <2> SUFFICES ASSUME r > m PROVE FALSE
    BY <1>1, <1>4
  <2>1. (r - m - 1) * q \in Nat /\ (r - m - 1) * q = r * q - q * m - q
    BY <1>1, <1>4
  <2>2. r * q \in Int /\ q * m \in Int /\ c < q * m
    BY <1>1, <1>4
  <2> QED  BY <1>1, <1>4, <2>1, <2>2
<1>6. Least(f) <= r
  <2>1. CASE IsSigned(f)
    <3> SUFFICES ASSUME r < -m PROVE FALSE
      BY <1>1, <1>3, <1>4, <2>1
    <3>1. (-m - r - 1) * q \in Nat /\ (-m - r - 1) * q = -(q * m) - r * q - q
      BY <1>1, <1>4
    <3>2. r * q \in Int /\ q * m \in Int /\ c >= -(q * m)
      BY <1>1, <1>4, <2>1
    <3> QED  BY <1>1, <1>4, <3>1, <3>2
  <2>2. CASE ~IsSigned(f)
    <3> SUFFICES ASSUME r < 0 PROVE FALSE
      BY <1>1, <1>3, <1>4, <2>2
    <3>1. (- r - 1) * q \in Nat /\ (-r - 1) * q = - (r * q) - q
      BY <1>1, <1>4
    <3>2. r * q \in Int /\ c >= 0
      BY <1>1, <1>4, <2>2
    <3> QED  BY <1>1, <1>4, <3>1, <3>2
  <2> QED  BY <2>1, <2>2
<1> QED  BY <1>2, <1>4, <1>5, <1>6 DEF q, m

(* What a normalised channel reads as.                                       *)
LEMMA NormalisedLoad ==
  ASSUME NEW f, IsFormat(f), f.kind \in {"SNORM", "UNORM"}, NEW s \in Int,
         Least(f) <= s, s <= Most(f)
  PROVE  Load(f, s % Values(f.size)) = s * Quantum(f)
<1>1. /\ f.size \in {1, 2, 4} /\ Values(f.size) \in Nat \ {0} /\ Values(f.size) \div 2 \in Nat
      /\ IsSigned(f) => Least(f) = -(Values(f.size) \div 2) /\ Most(f) = Values(f.size) \div 2 - 1
      /\ ~IsSigned(f) => Least(f) = 0 /\ Most(f) = Values(f.size) - 1
  <2>1. /\ Values(f.size) = 2 * (Values(f.size) \div 2) /\ f.size \in {1, 2, 4} /\ Values(f.size) \in Nat
        /\ Values(f.size) \div 2 \in Nat /\ Most(f) \in Nat \ {0}
    BY RangeType
  <2>2. IsSigned(f) => Least(f) = -(Values(f.size) \div 2) /\ Most(f) = Values(f.size) \div 2 - 1
    BY RangeType
  <2>3. ~IsSigned(f) => Least(f) = 0 /\ Most(f) = Values(f.size) - 1
    BY RangeType
  <2>4. Values(f.size) # 0
    BY <2>1, <2>2, <2>3
  <2> QED  BY <2>1, <2>2, <2>3, <2>4
<1>2. (s * Unit) \div Most(f) = s * Quantum(f)
  BY QuantumOf
<1>3. CASE f.kind = "SNORM"
  <2>1. Signed(s % Values(f.size), f.size) = s
    BY <1>1, <1>3, SignedOfMod DEF IsSigned
  <2> QED  BY <1>2, <1>3, <2>1 DEF Load
<1>4. CASE f.kind = "UNORM"
  <2>1. s % Values(f.size) = s
    BY <1>1, <1>4 DEF IsSigned
  <2> QED  BY <1>2, <1>4, <2>1 DEF Load
<1> QED  BY <1>3, <1>4

(* Every number of the format reads as one of those.                         *)
LEMMA NormalisedValue ==
  ASSUME NEW f, IsFormat(f), f.kind \in {"SNORM", "UNORM"}, NEW n \in 0..(Values(f.size) - 1)
  PROVE  \E s \in Int : Least(f) <= s /\ s <= Most(f) /\ Load(f, n) = s * Quantum(f)
<1>1. f.size \in {1, 2, 4} /\ Values(f.size) \in Nat /\ Values(f.size) \div 2 \in Nat
  BY RangeType
<1>2. CASE f.kind = "SNORM"
  <2>1. IsSigned(f)
    BY <1>2 DEF IsSigned
  <2>2. Least(f) = -(Values(f.size) \div 2) /\ Most(f) = Values(f.size) \div 2 - 1
    BY <2>1, RangeType
  <2>3. Signed(n, f.size) \in -(Values(f.size) \div 2)..(Values(f.size) \div 2 - 1)
    BY <1>1, SignedRange
  <2>4. /\ Signed(n, f.size) \in Int /\ Least(f) <= Signed(n, f.size) /\ Signed(n, f.size) <= Most(f)
    BY <1>1, <2>2, <2>3
  <2>5. Load(f, n) = Signed(n, f.size) * Quantum(f)
    BY <1>2, <2>4, QuantumOf DEF Load
  <2> QED  BY <2>4, <2>5
<1>3. CASE f.kind = "UNORM"
  <2>1. ~IsSigned(f)
    BY <1>3 DEF IsSigned
  <2>2. Least(f) = 0 /\ Most(f) = Values(f.size) - 1
    BY <2>1, RangeType
  <2>3. Load(f, n) = n * Quantum(f)
    BY <1>3, QuantumOf DEF Load
  <2> QED  BY <1>1, <2>2, <2>3
<1> QED  BY <1>2, <1>3

(* The nearest normalised value.                                             *)
LEMMA NearestNormalised ==
  ASSUME NEW f, IsFormat(f), f.kind \in {"SNORM", "UNORM"}, NEW c \in Int,
         ~(f.kind = "SNORM" /\ c < -Unit), NEW n \in 0..(Values(f.size) - 1)
  PROVE  Abs(Kept(f, c) - c) <= Abs(Load(f, n) - c)
<1> DEFINE q == Quantum(f)
           m == Most(f)
           floor == IF IsSigned(f) THEN -Unit ELSE 0
<1>1. q \in Nat \ {0} /\ Unit = q * m /\ m \in Nat \ {0} /\ Unit \in Nat \ {0}
  BY QuantumType
<1>2. PICK s \in Int : Least(f) <= s /\ s <= m /\ Load(f, n) = s * q
  BY NormalisedValue
<1>3. Store(f, c) = IF c < floor THEN Least(f) ELSE IF c >= Unit THEN m ELSE Round(c * m, Unit)
  BY DEF Store
<1>4. Least(f) \in Int /\ Least(f) <= m /\ (~IsSigned(f) => Least(f) = 0)
  BY <1>1, RangeType
<1>5. f.kind = "SNORM" <=> IsSigned(f)
  BY DEF IsSigned
<1>6. CASE c < floor
  <2>1. ~IsSigned(f) /\ c < 0 /\ Least(f) = 0
    BY <1>4, <1>5, <1>6
  <2>2. Kept(f, c) = 0 * q /\ 0 * q = 0
    <3>1. Load(f, 0 % Values(f.size)) = 0 * q
      BY <1>1, <1>4, <2>1, NormalisedLoad
    <3>2. 0 * q = 0
      BY <1>1
    <3> QED  BY <1>3, <1>6, <2>1, <3>1, <3>2 DEF Kept
  <2>3. s * q \in Nat
    BY <1>1, <1>2, <2>1
  <2> HIDE DEF q
  <2> QED  BY <1>2, <2>1, <2>2, <2>3 DEF Abs
<1>7. CASE c >= Unit
  <2>1. Kept(f, c) = m * q
    <3>1. Load(f, m % Values(f.size)) = m * q
      BY <1>1, <1>4, NormalisedLoad
    <3>2. ~(c < floor)
      BY <1>1, <1>7
    <3> QED  BY <1>3, <1>7, <3>1, <3>2 DEF Kept
  <2>2. (m - s) * q \in Nat /\ (m - s) * q = m * q - s * q /\ m * q \in Int /\ s * q \in Int /\ m * q = Unit
    BY <1>1, <1>2
  <2> HIDE DEF q, m
  <2> QED  BY <1>2, <1>7, <2>1, <2>2 DEF Abs
<1>8. CASE c >= floor /\ c < Unit
  <2>1. PICK r \in Int : /\ Store(f, c) = r /\ Least(f) <= r /\ r <= m
                         /\ 2 * (r * q - c) <= q /\ -q <= 2 * (r * q - c)
    BY <1>8, NormalisedStore
  <2>2. Kept(f, c) = r * q
    BY <2>1, NormalisedLoad DEF Kept
  <2>3. Abs(r * q - c) <= Abs(s * q - c)
    BY <1>1, <1>2, <2>1, NearestMultiple
  <2> QED  BY <1>2, <2>2, <2>3
<1>9. c < floor \/ c >= Unit \/ (c >= floor /\ c < Unit)
  BY <1>1
<1> QED  BY <1>6, <1>7, <1>8, <1>9

(* A signed normalised value below -1 is stored as the least value there is. *)
LEMMA LeastKept ==
  ASSUME NEW f, IsFormat(f), f.kind = "SNORM", NEW c \in Int, c < -Unit
  PROVE  Kept(f, c) = Min({Load(f, n) : n \in 0..(Values(f.size) - 1)})
<1> DEFINE q == Quantum(f)
           v == Values(f.size)
           S == {Load(f, n) : n \in 0..(v - 1)}
           least == Least(f)
<1>1. q \in Nat \ {0} /\ least \in Int /\ least <= Most(f) /\ v \in Nat \ {0} /\ Most(f) \in Int
  <2>1. q \in Nat \ {0}
    BY QuantumType
  <2>2. least \in Int /\ least <= 0 /\ Most(f) \in Nat /\ v \in Nat /\ f.size \in {1, 2, 4}
    BY RangeType
  <2>3. v \div 2 > 1 /\ v = 2 * (v \div 2) /\ v \div 2 \in Nat
    BY <2>2, ValuesType
  <2> QED  BY <2>1, <2>2, <2>3
<1>2. Store(f, c) = least
  BY DEF Store, IsSigned
<1>3. Kept(f, c) = least * q
  BY <1>1, <1>2, NormalisedLoad DEF Kept
<1>4. least * q \in S
  <2>1. least % v \in 0..(v - 1)
    BY <1>1
  <2>2. Load(f, least % v) = least * q
    BY <1>2, <1>3 DEF Kept
  <2> QED  BY <2>1, <2>2
<1>5. ASSUME NEW n \in 0..(v - 1) PROVE least * q <= Load(f, n) /\ Load(f, n) \in Int
  <2>1. PICK s \in Int : Least(f) <= s /\ s <= Most(f) /\ Load(f, n) = s * q
    BY NormalisedValue
  <2>2. (s - least) * q \in Nat /\ (s - least) * q = s * q - least * q /\ s * q \in Int /\ least * q \in Int
    BY <1>1, <2>1
  <2> HIDE DEF q, least
  <2> QED  BY <2>1, <2>2
<1>6. \A x \in S : least * q <= x /\ x \in Int
  BY <1>5
<1> HIDE DEF S
<1>7. Min(S) \in S /\ \A y \in S : Min(S) <= y
  BY <1>4, <1>6 DEF Min
<1>8. Min(S) = least * q
  BY <1>4, <1>6, <1>7
<1> QED  BY <1>3, <1>8 DEF S

(* A channel keeps the nearest value that its format has.                    *)
LEMMA NearestKept ==
  ASSUME NEW f, IsFormat(f), NEW c \in Int,
         f.kind = "SFLOAT" => c \in -(Word \div 2)..(Word \div 2 - 1),
         NEW n \in 0..(Values(f.size) - 1), ~(f.kind = "SNORM" /\ c < -Unit)
  PROVE  Abs(Worth(f, Kept(f, c)) - Worth(f, c)) <= Abs(Worth(f, Load(f, n)) - Worth(f, c))
<1>1. f.kind \in {"SINT", "UINT", "SNORM", "UNORM", "SFLOAT"}
  BY DEF IsFormat
<1>2. c \in Int
  OBVIOUS
<1>3. CASE f.kind = "SINT"
  BY <1>2, <1>3, NearestSINT DEF Worth
<1>4. CASE f.kind = "UINT"
  BY <1>2, <1>4, NearestUINT DEF Worth
<1>5. CASE f.kind \in {"SNORM", "UNORM"}
  BY <1>2, <1>5, NearestNormalised DEF Worth
<1>6. CASE f.kind = "SFLOAT"
  BY <1>6, NearestSFLOAT DEF Worth
<1> QED  BY <1>1, <1>3, <1>4, <1>5, <1>6

-------------------------------------------------------------------------------
(* Sums, for the offsets of mip levels                                       *)

(* Induction, over a set of natural numbers: one that has 0 and with every   *)
(* number its successor has all of them.                                     *)
LEMMA SetInduction ==
  ASSUME NEW S, 0 \in S, \A n \in Nat : n \in S => n + 1 \in S
  PROVE  Nat \subseteq S
<1> DEFINE T == Nat \ S
<1> SUFFICES ASSUME T # {} PROVE FALSE
  OBVIOUS
<1>1. IsWellFoundedOn(OpToRel(<, Nat), Nat)
  BY NatLessThanWellFounded
<1>2. T \subseteq Nat
  OBVIOUS
<1> HIDE DEF T
<1>3. PICK x \in T : \A y \in T : ~(<<y, x>> \in OpToRel(<, Nat))
  BY <1>1, <1>2, WFMin
<1>4. x # 0 /\ x \in Nat
  BY DEF T
<1>5. x - 1 \in Nat /\ (x - 1) + 1 = x /\ x - 1 < x
  BY <1>4
<1>6. x - 1 \in T
  BY <1>4, <1>5 DEF T
<1>7. <<x - 1, x>> \in OpToRel(<, Nat)
  BY <1>4, <1>5 DEF OpToRel
<1> QED  BY <1>3, <1>6, <1>7

-------------------------------------------------------------------------------
(* The sums of the first numbers of a sequence without end.                  *)
SumsTo(a, n) ==
  {h \in [0..n -> Nat] : h[0] = 0 /\ \A k \in 0..(n - 1) : h[k + 1] = h[k] + a[k]}
AreSums(a, g) ==
  g \in [Nat -> Nat] /\ g[0] = 0 /\ \A n \in Nat : g[n + 1] = g[n] + a[n]
Sums(a) == CHOOSE g : AreSums(a, g)

(* Two sums of one sequence agree as far as both go.                         *)
LEMMA SumsAgree ==
  ASSUME NEW a \in [Nat -> Nat], NEW m \in Nat, NEW n \in Nat,
         NEW g \in SumsTo(a, m), NEW h \in SumsTo(a, n), NEW k \in Nat, k <= m, k <= n
  PROVE  g[k] = h[k]
<1> DEFINE S == {j \in Nat : j <= m /\ j <= n => g[j] = h[j]}
<1>1. 0 \in S
  BY DEF SumsTo
<1>2. ASSUME NEW j \in Nat, j \in S PROVE j + 1 \in S
  <2>1. CASE j + 1 <= m /\ j + 1 <= n
    <3>1. j \in 0..(m - 1) /\ j \in 0..(n - 1) /\ g[j] = h[j]
      BY <1>2, <2>1
    <3>2. g[j + 1] = g[j] + a[j] /\ h[j + 1] = h[j] + a[j]
      BY <3>1 DEF SumsTo
    <3> QED  BY <3>1, <3>2
  <2>2. CASE ~(j + 1 <= m /\ j + 1 <= n)
    <3>1. j + 1 \in Nat
      OBVIOUS
    <3> QED  BY <2>2, <3>1
  <2> QED  BY <2>1, <2>2
<1> HIDE DEF S
<1>3. k \in S
  BY <1>1, <1>2, SetInduction
<1> QED  BY <1>3 DEF S

(* A sequence has sums.                                                      *)
LEMMA SumsExist == ASSUME NEW a \in [Nat -> Nat] PROVE AreSums(a, Sums(a))
<1> DEFINE S == {n \in Nat : SumsTo(a, n) # {}}
<1>1. 0 \in S
  <2>1. [k \in 0..0 |-> 0] \in SumsTo(a, 0)
    BY DEF SumsTo
  <2> QED  BY <2>1
<1>2. ASSUME NEW n \in Nat, n \in S PROVE n + 1 \in S
  <2>1. PICK h : h \in SumsTo(a, n)
    BY <1>2
  <2> DEFINE g == [k \in 0..(n + 1) |-> IF k <= n THEN h[k] ELSE h[n] + a[n]]
  <2>2. h \in [0..n -> Nat] /\ h[0] = 0 /\ \A k \in 0..(n - 1) : h[k + 1] = h[k] + a[k]
    BY <2>1 DEF SumsTo
  <2>3. g \in [0..(n + 1) -> Nat] /\ g[0] = 0
    <3>1. a[n] \in Nat /\ n \in 0..n /\ h[n] \in Nat
      BY <2>2
    <3>2. ASSUME NEW k \in 0..(n + 1) PROVE g[k] \in Nat
      <4>1. CASE k <= n
        <5>1. k \in 0..n
          BY <4>1
        <5> QED  BY <2>2, <4>1, <5>1
      <4>2. CASE ~(k <= n)
        BY <3>1, <4>2
      <4> QED  BY <4>1, <4>2
    <3>3. 0 \in 0..(n + 1) /\ 0 <= n
      OBVIOUS
    <3> QED  BY <2>2, <3>2, <3>3
  <2>4. ASSUME NEW k \in 0..((n + 1) - 1) PROVE g[k + 1] = g[k] + a[k]
    <3>1. CASE k = n
      BY <3>1
    <3>2. CASE k # n
      <4>1. k \in 0..(n - 1) /\ k + 1 <= n /\ k + 1 \in 0..(n + 1) /\ k \in 0..(n + 1) /\ k <= n
        BY <3>2
      <4> QED  BY <2>2, <4>1
    <3> QED  BY <3>1, <3>2
  <2> HIDE DEF g
  <2>5. g \in SumsTo(a, n + 1)
    <3> DEFINE m == n + 1
    <3>1. \A k \in 0..(m - 1) : g[k + 1] = g[k] + a[k]
      BY <2>4
    <3>2. g \in [0..m -> Nat] /\ g[0] = 0
      BY <2>3
    <3> HIDE DEF m
    <3>3. g \in SumsTo(a, m)
      BY <3>1, <3>2, Zenon DEF SumsTo
    <3> QED  BY <3>3 DEF m
  <2> QED  BY <2>5
<1> HIDE DEF S
<1>3. \A n \in Nat : n \in S
  BY <1>1, <1>2, SetInduction
<1> DEFINE To(n) == CHOOSE h : h \in SumsTo(a, n)
           g == [n \in Nat |-> To(n)[n]]
<1>4. \A n \in Nat : To(n) \in SumsTo(a, n)
  BY <1>3 DEF S
<1> HIDE DEF To
<1>5. g \in [Nat -> Nat] /\ g[0] = 0
  BY <1>4 DEF SumsTo
<1>6. ASSUME NEW n \in Nat PROVE g[n + 1] = g[n] + a[n]
  <2>1. To(n) \in SumsTo(a, n) /\ To(n + 1) \in SumsTo(a, n + 1) /\ n + 1 \in Nat
    BY <1>4
  <2>2. To(n + 1)[n] = To(n)[n]
    BY <2>1, SumsAgree
  <2>3. To(n + 1)[n + 1] = To(n + 1)[n] + a[n]
    BY <2>1 DEF SumsTo
  <2> QED  BY <2>1, <2>2, <2>3
<1> HIDE DEF g
<1>7. AreSums(a, g)
  BY <1>5, <1>6 DEF AreSums
<1> QED  BY <1>7 DEF Sums

(* Sequences that agree as far as l have equal sums there.                   *)
LEMMA SumsSame ==
  ASSUME NEW a \in [Nat -> Nat], NEW b \in [Nat -> Nat], NEW l \in Nat,
         \A k \in 0..(l - 1) : a[k] = b[k]
  PROVE  Sums(a)[l] = Sums(b)[l]
<1> DEFINE S == {n \in Nat : n <= l => Sums(a)[n] = Sums(b)[n]}
<1>0. AreSums(a, Sums(a)) /\ AreSums(b, Sums(b))
  BY SumsExist
<1>1. 0 \in S
  BY <1>0 DEF AreSums
<1>2. ASSUME NEW n \in Nat, n \in S PROVE n + 1 \in S
  <2>1. n + 1 <= l => n \in 0..(l - 1) /\ n <= l
    OBVIOUS
  <2>2. n + 1 <= l => Sums(a)[n] = Sums(b)[n] /\ a[n] = b[n]
    BY <1>2, <2>1
  <2>3. n + 1 <= l => Sums(a)[n + 1] = Sums(b)[n + 1]
    BY <1>0, <2>2 DEF AreSums
  <2>4. n + 1 \in Nat
    OBVIOUS
  <2> QED  BY <2>3, <2>4
<1> HIDE DEF S
<1>3. l \in S
  BY <1>1, <1>2, SetInduction
<1> QED  BY <1>3 DEF S

(* The sum without one of the numbers.                                       *)
Only(a, s) == [n \in Nat |-> IF n \in s THEN a[n] ELSE 0]
(* The sum over a set is that over the set without one element, and the      *)
(* number at that element.                                                   *)
LEMMA SumWithout ==
  ASSUME NEW a \in [Nat -> Nat], NEW s, NEW x \in Nat, x \in s, NEW l \in Nat, x < l
  PROVE  Sums(Only(a, s))[l] = a[x] + Sums(Only(a, s \ {x}))[l]
<1> DEFINE b == Only(a, s)
           c == Only(a, s \ {x})
           S == {n \in Nat : Sums(b)[n] = Sums(c)[n] + IF x < n THEN a[x] ELSE 0}
<1>0. /\ b \in [Nat -> Nat] /\ c \in [Nat -> Nat] /\ a[x] \in Nat
      /\ \A n \in Nat : b[n] = c[n] + IF n = x THEN a[x] ELSE 0
  BY DEF Only
<1> HIDE DEF b, c
<1>1. AreSums(b, Sums(b)) /\ AreSums(c, Sums(c))
  BY <1>0, SumsExist
<1>2. 0 \in S
  BY <1>0, <1>1 DEF AreSums
<1>3. ASSUME NEW n \in Nat, n \in S PROVE n + 1 \in S
  <2>1. Sums(b)[n] = Sums(c)[n] + IF x < n THEN a[x] ELSE 0
    BY <1>3
  <2>2. /\ Sums(b)[n + 1] = Sums(b)[n] + b[n] /\ Sums(c)[n + 1] = Sums(c)[n] + c[n]
        /\ Sums(b)[n] \in Nat /\ Sums(c)[n] \in Nat /\ b[n] \in Nat /\ c[n] \in Nat
    BY <1>0, <1>1 DEF AreSums
  <2>3. b[n] = c[n] + IF n = x THEN a[x] ELSE 0
    BY <1>0
  <2>4. Sums(b)[n + 1] = Sums(c)[n + 1] + IF x < n + 1 THEN a[x] ELSE 0
    BY <1>0, <2>1, <2>2, <2>3
  <2> QED  BY <2>4
<1> HIDE DEF S
<1>4. l \in S
  BY <1>2, <1>3, SetInduction
<1>5. Sums(b)[l] = Sums(c)[l] + a[x]
  BY <1>4 DEF S
<1>6. Sums(c)[l] \in Nat
  BY <1>1 DEF AreSums
<1> QED  BY <1>0, <1>5, <1>6 DEF b, c

(* How the sum over a set takes its elements, in any order.                  *)
One(s) == CHOOSE x \in s : TRUE
Adding(a, l, g) ==
  g = [s \in SUBSET (0..(l - 1)) |-> IF s = {} THEN 0 ELSE a[One(s)] + g[s \ {One(s)}]]

(* The sum over a set is its next number and the sum over the rest.          *)
LEMMA AddingStep ==
  ASSUME NEW a \in [Nat -> Nat], NEW l \in Nat, NEW s \in SUBSET (0..(l - 1))
  PROVE  Sums(Only(a, s))[l] =
           IF s = {} THEN 0 ELSE a[One(s)] + Sums(Only(a, s \ {One(s)}))[l]
<1>1. CASE s # {}
  <2>1. One(s) \in s
    BY <1>1 DEF One
  <2>2. One(s) \in Nat /\ One(s) < l
    <3>1. One(s) \in 0..(l - 1)
      BY <2>1
    <3> QED  BY <3>1
  <2> QED  BY <1>1, <2>1, <2>2, SumWithout
<1>2. CASE s = {}
  <2> DEFINE z == Only(a, s)
             S == {n \in Nat : Sums(z)[n] = 0}
  <2>1. z \in [Nat -> Nat] /\ \A n \in Nat : z[n] = 0
    BY <1>2 DEF Only
  <2> HIDE DEF z
  <2>2. AreSums(z, Sums(z))
    BY <2>1, SumsExist
  <2>3. 0 \in S
    BY <2>2 DEF AreSums
  <2>4. ASSUME NEW n \in Nat, n \in S PROVE n + 1 \in S
    BY <2>1, <2>2, <2>4 DEF AreSums
  <2> HIDE DEF S
  <2>5. l \in S
    BY <2>3, <2>4, SetInduction
  <2> QED  BY <1>2, <2>5 DEF S, z
<1> QED  BY <1>1, <1>2

(* Adding over the set of the first l indices gives the sum of the first l.  *)
LEMMA AddingSums ==
  ASSUME NEW a \in [Nat -> Nat], NEW l \in Nat
  PROVE  /\ \E g : Adding(a, l, g)
         /\ \A g : Adding(a, l, g) => g[0..(l - 1)] = Sums(a)[l]
<1> DEFINE D == SUBSET (0..(l - 1))
<1>1. \E g : Adding(a, l, g)
  <2> DEFINE g == [s \in D |-> Sums(Only(a, s))[l]]
  <2>1. \A s \in D : s \ {One(s)} \in D
    OBVIOUS
  <2>2. \A s \in D : g[s] = IF s = {} THEN 0 ELSE a[One(s)] + g[s \ {One(s)}]
    BY <2>1, AddingStep
  <2>3. g = [s \in D |-> g[s]]
    OBVIOUS
  <2> HIDE DEF g
  <2>4. Adding(a, l, g)
    BY <2>2, <2>3 DEF Adding
  <2> QED  BY <2>4
<1>2. ASSUME NEW g, Adding(a, l, g) PROVE g[0..(l - 1)] = Sums(a)[l]
  <2> DEFINE S == {n \in Nat : \A s \in D : Cardinality(s) = n => g[s] = Sums(Only(a, s))[l]}
  <2>0. /\ \A s \in D : g[s] = IF s = {} THEN 0 ELSE a[One(s)] + g[s \ {One(s)}]
        /\ \A s \in D : IsFiniteSet(s)
    <3>1. \A s \in D : g[s] = IF s = {} THEN 0 ELSE a[One(s)] + g[s \ {One(s)}]
      BY <1>2 DEF Adding
    <3>2. IsFiniteSet(0..(l - 1))
      BY FS_Interval
    <3> QED  BY <3>1, <3>2, FS_Subset
  <2>1. 0 \in S
    <3> SUFFICES ASSUME NEW s \in D, Cardinality(s) = 0 PROVE g[s] = Sums(Only(a, s))[l]
      OBVIOUS
    <3>1. s = {}
      BY <2>0, FS_EmptySet
    <3> QED  BY <2>0, <3>1, AddingStep
  <2>2. ASSUME NEW n \in Nat, n \in S PROVE n + 1 \in S
    <3> SUFFICES ASSUME NEW s \in D, Cardinality(s) = n + 1 PROVE g[s] = Sums(Only(a, s))[l]
      OBVIOUS
    <3>1. s # {}
      BY FS_EmptySet
    <3>2. One(s) \in s
      BY <3>1 DEF One
    <3>3. Cardinality(s \ {One(s)}) = n /\ s \ {One(s)} \in D
      <4>1. Cardinality(s \ {One(s)}) = Cardinality(s) - 1
        BY <2>0, <3>2, FS_RemoveElement
      <4>2. (n + 1) - 1 = n
        OBVIOUS
      <4>3. s \ {One(s)} \in D
        OBVIOUS
      <4> HIDE DEF D
      <4> QED  BY <4>1, <4>2, <4>3
    <3>4. g[s \ {One(s)}] = Sums(Only(a, s \ {One(s)}))[l]
      BY <2>2, <3>3
    <3>5. g[s] = a[One(s)] + g[s \ {One(s)}]
      BY <2>0, <3>1
    <3>6. Sums(Only(a, s))[l] = a[One(s)] + Sums(Only(a, s \ {One(s)}))[l]
      BY <3>1, AddingStep
    <3> QED  BY <3>4, <3>5, <3>6
  <2> HIDE DEF S
  <2>3. 0..(l - 1) \in D /\ Cardinality(0..(l - 1)) \in Nat
    BY <2>0, FS_CardinalityType
  <2>4. Cardinality(0..(l - 1)) \in S
    BY <2>1, <2>2, <2>3, SetInduction
  <2>5. g[0..(l - 1)] = Sums(Only(a, 0..(l - 1)))[l]
    BY <2>3, <2>4 DEF S
  <2>6. Only(a, 0..(l - 1)) \in [Nat -> Nat] /\ \A k \in 0..(l - 1) : Only(a, 0..(l - 1))[k] = a[k]
    BY DEF Only
  <2> QED  BY <2>5, <2>6, SumsSame
<1> QED  BY <1>1, <1>2

-------------------------------------------------------------------------------
(* The bytes of a level, as the code counts them.                            *)
Wrapped(img, l) ==
  (Extent(img, 1, l) * Extent(img, 2, l) * Extent(img, 3, l) * img.layers
     * ElementSize(img.format)) % Word
Iter(img, l, g) ==
  g = [s \in SUBSET (0..(l - 1)) |->
         IF s = {} THEN 0 ELSE Wrapped(img, One(s)) + g[s \ {One(s)}]]

(* The code of the fold that adds up the levels is such a sum.               *)
LEMMA OffsetIter ==
  ASSUME NEW img, NEW l
  PROVE  MipLevelOffset(img, l) = (CHOOSE g : Iter(img, l, g))[0..(l - 1)]
BY DEF MipLevelOffset, MapThenSumSet, MapThenFoldSet, Iter, Wrapped, One

(* The provers know a power of two by its numerals only.                     *)
PowerOfTwo(n) == 2^n
(* A power of two with an exponent below 32 is a positive number.            *)
LEMMA PowersOfTwo == ASSUME NEW l \in 0..31 PROVE 2^l \in Nat \ {0}
<1>1. /\ 2^0 = 1 /\ 2^1 = 2 /\ 2^2 = 4
      /\ 2^3 = 8 /\ 2^4 = 16 /\ 2^5 = 32
      /\ 2^6 = 64 /\ 2^7 = 128 /\ 2^8 = 256
      /\ 2^9 = 512 /\ 2^10 = 1024 /\ 2^11 = 2048
      /\ 2^12 = 4096 /\ 2^13 = 8192 /\ 2^14 = 16384
      /\ 2^15 = 32768 /\ 2^16 = 65536 /\ 2^17 = 131072
      /\ 2^18 = 262144 /\ 2^19 = 524288 /\ 2^20 = 1048576
      /\ 2^21 = 2097152 /\ 2^22 = 4194304 /\ 2^23 = 8388608
      /\ 2^24 = 16777216 /\ 2^25 = 33554432 /\ 2^26 = 67108864
      /\ 2^27 = 134217728 /\ 2^28 = 268435456 /\ 2^29 = 536870912
      /\ 2^30 = 1073741824 /\ 2^31 = 2147483648
  OBVIOUS
<1>2. /\ PowerOfTwo(0) > 0 /\ PowerOfTwo(1) > 0 /\ PowerOfTwo(2) > 0 /\ PowerOfTwo(3) > 0
      /\ PowerOfTwo(4) > 0 /\ PowerOfTwo(5) > 0 /\ PowerOfTwo(6) > 0 /\ PowerOfTwo(7) > 0
      /\ PowerOfTwo(8) > 0 /\ PowerOfTwo(9) > 0 /\ PowerOfTwo(10) > 0 /\ PowerOfTwo(11) > 0
      /\ PowerOfTwo(12) > 0 /\ PowerOfTwo(13) > 0 /\ PowerOfTwo(14) > 0 /\ PowerOfTwo(15) > 0
      /\ PowerOfTwo(16) > 0 /\ PowerOfTwo(17) > 0 /\ PowerOfTwo(18) > 0 /\ PowerOfTwo(19) > 0
      /\ PowerOfTwo(20) > 0 /\ PowerOfTwo(21) > 0 /\ PowerOfTwo(22) > 0 /\ PowerOfTwo(23) > 0
      /\ PowerOfTwo(24) > 0 /\ PowerOfTwo(25) > 0 /\ PowerOfTwo(26) > 0 /\ PowerOfTwo(27) > 0
      /\ PowerOfTwo(28) > 0 /\ PowerOfTwo(29) > 0 /\ PowerOfTwo(30) > 0 /\ PowerOfTwo(31) > 0
  BY <1>1 DEF PowerOfTwo
<1>3. /\ PowerOfTwo(0) \in Nat /\ PowerOfTwo(1) \in Nat /\ PowerOfTwo(2) \in Nat /\ PowerOfTwo(3) \in Nat
      /\ PowerOfTwo(4) \in Nat /\ PowerOfTwo(5) \in Nat /\ PowerOfTwo(6) \in Nat /\ PowerOfTwo(7) \in Nat
      /\ PowerOfTwo(8) \in Nat /\ PowerOfTwo(9) \in Nat /\ PowerOfTwo(10) \in Nat /\ PowerOfTwo(11) \in Nat
      /\ PowerOfTwo(12) \in Nat /\ PowerOfTwo(13) \in Nat /\ PowerOfTwo(14) \in Nat /\ PowerOfTwo(15) \in Nat
      /\ PowerOfTwo(16) \in Nat /\ PowerOfTwo(17) \in Nat /\ PowerOfTwo(18) \in Nat /\ PowerOfTwo(19) \in Nat
      /\ PowerOfTwo(20) \in Nat /\ PowerOfTwo(21) \in Nat /\ PowerOfTwo(22) \in Nat /\ PowerOfTwo(23) \in Nat
      /\ PowerOfTwo(24) \in Nat /\ PowerOfTwo(25) \in Nat /\ PowerOfTwo(26) \in Nat /\ PowerOfTwo(27) \in Nat
      /\ PowerOfTwo(28) \in Nat /\ PowerOfTwo(29) \in Nat /\ PowerOfTwo(30) \in Nat /\ PowerOfTwo(31) \in Nat
  BY <1>1 DEF PowerOfTwo
<1>4. PowerOfTwo(l) \in Nat /\ PowerOfTwo(l) > 0
  BY <1>2, <1>3
<1>5. PowerOfTwo(l) \in Nat \ {0}
  BY <1>4
<1> QED  BY <1>5, Zenon DEF PowerOfTwo

-------------------------------------------------------------------------------
(* The number of values of a word is positive.                               *)
LEMMA WordType == Word \in Nat \ {0}
<1>1. Values(4) \in Nat /\ Values(4) \div 2 \in Nat /\ Values(4) \div 2 > 1
      /\ Values(4) = 2 * (Values(4) \div 2)
  BY ValuesType
<1> QED  BY <1>1, ValuesAre

(* A texel takes some bytes.                                                 *)
LEMMA ElementSizeType == ASSUME NEW f, IsFormat(f) PROVE ElementSize(f) \in Nat \ {0}
<1>1. f.channels \in 1..4 /\ f.size \in {1, 2, 4}
  BY DEF IsFormat
<1> QED  BY <1>1 DEF ElementSize

(* What is less than the modulus is its own remainder.                       *)
LEMMA ModSmall == ASSUME NEW n \in Nat, NEW m \in Nat, n < m PROVE n % m = n
OBVIOUS

-------------------------------------------------------------------------------
(* The extents of the levels of an image, and the bytes of one.              *)
LEMMA ExtentType ==
  ASSUME NEW img, IsShape(img), NEW l \in 0..(img.levels - 1), NEW axis \in 1..3
  PROVE  /\ Extent(img, axis, l) \in Nat \ {0}
         /\ LevelSize(img, axis, l) = Extent(img, axis, l)
         /\ img.extent[axis] = 1 => Extent(img, axis, l) = 1
<1> DEFINE p == 2^l
           q == img.extent[axis] \div p
<1>1. img.extent[axis] \in Nat \ {0} /\ l \in 0..31
  BY DEF IsShape
<1>2. p \in Nat \ {0}
  BY <1>1, PowersOfTwo
<1>3. Extent(img, axis, l) = (IF q = 0 THEN 1 ELSE q) /\ LevelSize(img, axis, l) = Max({1, q})
  BY DEF Extent, LevelSize
<1> HIDE DEF p
<1>4. q \in Nat /\ (img.extent[axis] = 1 => q \in {0, 1})
  BY <1>1, <1>2
<1> HIDE DEF q
<1>5. Max({1, q}) = IF q = 0 THEN 1 ELSE q
  <2> DEFINE m == IF q = 0 THEN 1 ELSE q
  <2>1. m \in {1, q} /\ (\A x \in {1, q} : m >= x) /\ \A y \in {1, q} : (\A x \in {1, q} : y >= x) => y = m
    BY <1>4
  <2> HIDE DEF m
  <2>2. Max({1, q}) = m
    BY <2>1 DEF Max
  <2> QED  BY <2>2 DEF m
<1> QED  BY <1>3, <1>4, <1>5

(* The planes of a level are its slices or its layers: one of the two counts *)
(* is 1.                                                                     *)
Planes(img, l) == Extent(img, 3, l) * img.layers
LevelBytes(img, l) ==
  ((Planes(img, l) * Extent(img, 2, l)) * Extent(img, 1, l)) * ElementSize(img.format)

(* The extents of a level are positive numbers, and so are its bytes.        *)
LEMMA LevelBytesType ==
  ASSUME NEW img, IsShape(img), NEW l \in 0..(img.levels - 1)
  PROVE  /\ Planes(img, l) \in Nat \ {0} /\ LevelBytes(img, l) \in Nat \ {0}
         /\ img.layers = 1 \/ Extent(img, 3, l) = 1
         /\ Extent(img, 1, l) \in Nat \ {0} /\ Extent(img, 2, l) \in Nat \ {0}
         /\ Extent(img, 3, l) \in Nat \ {0} /\ img.layers \in Nat \ {0}
         /\ ElementSize(img.format) \in Nat \ {0}
<1> DEFINE w == Extent(img, 1, l)
           h == Extent(img, 2, l)
           d == Extent(img, 3, l)
           n == img.layers
           s == ElementSize(img.format)
<1>1. /\ w \in Nat \ {0} /\ h \in Nat \ {0} /\ d \in Nat \ {0}
      /\ img.extent[3] = 1 => d = 1
  BY ExtentType
<1>2. n \in Nat \ {0} /\ s \in Nat \ {0} /\ (n = 1 \/ img.extent[3] = 1)
  BY ElementSizeType DEF IsShape
<1>3. Planes(img, l) = d * n /\ LevelBytes(img, l) = ((d * n * h) * w) * s
  BY DEF Planes, LevelBytes
<1> HIDE DEF w, h, d, n, s
<1>4. d * n \in Nat \ {0}
  BY <1>1, <1>2
<1>5. d * n * h \in Nat \ {0}
  BY <1>1, <1>4
<1>6. (d * n * h) * w \in Nat \ {0}
  BY <1>1, <1>5
<1>7. ((d * n * h) * w) * s \in Nat \ {0}
  BY <1>2, <1>6
<1> QED  BY <1>1, <1>2, <1>3, <1>4, <1>7 DEF w, h, d, n, s

(* When they fit in 32 bits, the code counts the bytes of a level right.     *)
LEMMA WrappedBytes ==
  ASSUME NEW img, IsShape(img), NEW l \in 0..(img.levels - 1), Fits32(img)
  PROVE  Wrapped(img, l) = LevelBytes(img, l) /\ LevelBytes(img, l) < Word
<1> DEFINE w == Extent(img, 1, l)
           h == Extent(img, 2, l)
           d == Extent(img, 3, l)
           n == img.layers
           s == ElementSize(img.format)
<1>1. /\ w \in Nat \ {0} /\ h \in Nat \ {0} /\ d \in Nat \ {0} /\ n \in Nat \ {0}
      /\ s \in Nat \ {0} /\ LevelBytes(img, l) \in Nat \ {0}
  BY LevelBytesType
<1>2. LevelSize(img, 1, l) = w /\ LevelSize(img, 2, l) = h /\ LevelSize(img, 3, l) = d
  BY ExtentType
<1>3. LevelSize(img, 1, l) * LevelSize(img, 2, l) * LevelSize(img, 3, l) * n * s < Word
  BY DEF Fits32
<1>4. w * h * d * n * s < Word
  BY <1>2, <1>3
<1>5. /\ LevelBytes(img, l) = (((d * n) * h) * w) * s
      /\ Wrapped(img, l) = (w * h * d * n * s) % Word
  BY DEF LevelBytes, Planes, Wrapped
<1> HIDE DEF w, h, d, n, s
<1>6. w * h * d * n * s = (((d * n) * h) * w) * s
  BY <1>1
<1>7. LevelBytes(img, l) = w * h * d * n * s
  BY <1>5, <1>6
<1> QED  BY <1>1, <1>4, <1>5, <1>7, WordType, ModSmall

-------------------------------------------------------------------------------
(* Sums do not decrease.                                                     *)
LEMMA SumsMonotone ==
  ASSUME NEW a \in [Nat -> Nat], NEW j \in Nat, NEW k \in Nat, j <= k
  PROVE  Sums(a)[j] <= Sums(a)[k]
<1> DEFINE S == {n \in Nat : j <= n => Sums(a)[j] <= Sums(a)[n]}
<1>0. AreSums(a, Sums(a))
  BY SumsExist
<1>1. \A n \in Nat : Sums(a)[n] \in Nat /\ a[n] \in Nat /\ Sums(a)[n + 1] = Sums(a)[n] + a[n]
  BY <1>0 DEF AreSums
<1>2. 0 \in S
  <2>1. j <= 0 => j = 0
    OBVIOUS
  <2> QED  BY <1>1, <2>1
<1>3. ASSUME NEW n \in Nat, n \in S PROVE n + 1 \in S
  <2>1. CASE j <= n
    <3>1. Sums(a)[j] <= Sums(a)[n]
      BY <1>3, <2>1
    <3> QED  BY <1>1, <3>1
  <2>2. CASE ~(j <= n)
    <3>1. j <= n + 1 => j = n + 1
      BY <2>2
    <3> QED  BY <1>1, <3>1
  <2> QED  BY <2>1, <2>2
<1> HIDE DEF S
<1>4. k \in S
  BY <1>2, <1>3, SetInduction
<1> QED  BY <1>4 DEF S

(* What is below a sum is in one of its terms.                               *)
LEMMA SumsCover ==
  ASSUME NEW a \in [Nat -> Nat], NEW m \in Nat, NEW b \in 0..(Sums(a)[m] - 1)
  PROVE  \E l \in 0..(m - 1) : b \in Sums(a)[l]..(Sums(a)[l] + a[l] - 1)
<1> DEFINE Term(l) == b \in Sums(a)[l]..(Sums(a)[l] + a[l] - 1)
           S == {n \in Nat : b < Sums(a)[n] => \E l \in 0..(n - 1) : Term(l)}
<1>0. AreSums(a, Sums(a))
  BY SumsExist
<1>1. /\ \A n \in Nat : Sums(a)[n] \in Nat /\ a[n] \in Nat /\ Sums(a)[n + 1] = Sums(a)[n] + a[n]
      /\ Sums(a)[0] = 0
  BY <1>0 DEF AreSums
<1>2. b \in Nat /\ b < Sums(a)[m]
  BY <1>1
<1>3. 0 \in S
  BY <1>1, <1>2
<1>4. ASSUME NEW n \in Nat, n \in S PROVE n + 1 \in S
  <2> SUFFICES ASSUME b < Sums(a)[n + 1] PROVE \E l \in 0..n : Term(l)
    OBVIOUS
  <2>1. CASE b < Sums(a)[n]
    <3>1. PICK l \in 0..(n - 1) : Term(l)
      BY <1>4, <2>1
    <3> HIDE DEF Term
    <3>2. l \in 0..n
      OBVIOUS
    <3> QED  BY <3>1, <3>2
  <2>2. CASE ~(b < Sums(a)[n])
    <3>1. Term(n)
      BY <1>1, <1>2, <2>2
    <3> HIDE DEF Term
    <3> QED  BY <3>1
  <2> QED  BY <2>1, <2>2
<1> HIDE DEF S
<1>5. m \in S
  BY <1>3, <1>4, SetInduction
<1> QED  BY <1>2, <1>5 DEF S

(* A level starts where the bytes of the levels before it end.               *)
LevelsOf(img) == [n \in Nat |-> IF n < img.levels THEN LevelBytes(img, n) ELSE 0]
(* Levels have numbers of bytes, and there are at most 32 of them.           *)
LEMMA LevelsType ==
  ASSUME NEW img, IsShape(img)
  PROVE  /\ LevelsOf(img) \in [Nat -> Nat] /\ img.levels \in 1..32
         /\ \A l \in 0..(img.levels - 1) : LevelsOf(img)[l] = LevelBytes(img, l)
<1>1. img.levels \in 1..32
  BY DEF IsShape
<1>2. ASSUME NEW l \in Nat, l < img.levels PROVE LevelBytes(img, l) \in Nat
  <2>1. l \in 0..(img.levels - 1)
    BY <1>1, <1>2
  <2> QED  BY <2>1, LevelBytesType
<1> QED  BY <1>1, <1>2 DEF LevelsOf

(* The offset of a level is the sum of the bytes of the levels before it.    *)
LEMMA OffsetIsSum ==
  ASSUME NEW img, IsShape(img), Fits32(img), NEW l \in 0..img.levels
  PROVE  MipLevelOffset(img, l) = Sums(LevelsOf(img))[l]
<1> DEFINE a == LevelsOf(img)
           G == CHOOSE g : Iter(img, l, g)
<1>1. a \in [Nat -> Nat] /\ l \in Nat /\ img.levels \in 1..32
  BY LevelsType
<1>2. ASSUME NEW s \in SUBSET (0..(l - 1)), s # {} PROVE Wrapped(img, One(s)) = a[One(s)]
  <2>1. One(s) \in 0..(l - 1)
    BY <1>2 DEF One
  <2>2. One(s) \in 0..(img.levels - 1)
    BY <1>1, <2>1
  <2> QED  BY <2>2, WrappedBytes, LevelsType
<1> HIDE DEF a
<1>3. ASSUME NEW g PROVE Iter(img, l, g) <=> Adding(a, l, g)
  BY <1>2 DEF Iter, Adding
<1>4. Iter(img, l, G)
  <2>1. \E g : Iter(img, l, g)
    BY <1>1, <1>3, AddingSums
  <2> QED  BY <2>1
<1> HIDE DEF G
<1>5. G[0..(l - 1)] = Sums(a)[l]
  BY <1>1, <1>3, <1>4, AddingSums
<1> QED  BY <1>5, OffsetIter DEF G, a

-------------------------------------------------------------------------------
(* Where a texel is in its level.                                            *)
Within(img, l, n, x, y, z) ==
  (((z + n) * Extent(img, 2, l) + y) * Extent(img, 1, l) + x) * ElementSize(img.format)

(* The bytes of a texel are bytes of its level.                              *)
LEMMA TexelInLevel ==
  ASSUME NEW img, IsShape(img), NEW l \in 0..(img.levels - 1), NEW n \in 0..(img.layers - 1),
         NEW x \in 0..(Extent(img, 1, l) - 1), NEW y \in 0..(Extent(img, 2, l) - 1),
         NEW z \in 0..(Extent(img, 3, l) - 1), NEW c \in 0..(ElementSize(img.format) - 1)
  PROVE  Within(img, l, n, x, y, z) \in Nat
         /\ Within(img, l, n, x, y, z) + c \in 0..(LevelBytes(img, l) - 1)
<1> DEFINE w == Extent(img, 1, l)
           h == Extent(img, 2, l)
           d == Extent(img, 3, l)
           m == img.layers
           s == ElementSize(img.format)
           planes == Planes(img, l)
           plane == z + n
           row == plane * h + y
           texel == row * w + x
<1>1. /\ w \in Nat \ {0} /\ h \in Nat \ {0} /\ d \in Nat \ {0} /\ m \in Nat \ {0}
      /\ s \in Nat \ {0} /\ planes \in Nat \ {0} /\ (m = 1 \/ d = 1)
  BY LevelBytesType
<1>2. /\ planes = d * m /\ LevelBytes(img, l) = ((planes * h) * w) * s
      /\ Within(img, l, n, x, y, z) = texel * s
  BY DEF Planes, LevelBytes, Within
<1> HIDE DEF w, h, d, m, s, planes
<1>3. plane \in 0..(planes - 1)
  <2>0. n \in 0..(m - 1) /\ z \in 0..(d - 1)
    BY DEF m, d
  <2>1. CASE m = 1
    <3>1. n = 0 /\ d * m = d
      BY <1>1, <2>0, <2>1
    <3> QED  BY <1>1, <1>2, <2>0, <3>1
  <2>2. CASE d = 1
    <3>1. z = 0 /\ d * m = m
      BY <1>1, <2>0, <2>2
    <3> QED  BY <1>1, <1>2, <2>0, <3>1
  <2> QED  BY <1>1, <2>1, <2>2
<1> HIDE DEF plane
<1>4. planes * h \in Nat /\ row \in 0..(planes * h - 1)
  BY <1>1, <1>3, DigitsBounded DEF h
<1> HIDE DEF row
<1>5. (planes * h) * w \in Nat /\ texel \in 0..((planes * h) * w - 1)
  BY <1>1, <1>4, DigitsBounded DEF w
<1> HIDE DEF texel
<1>6. texel * s + c \in 0..(((planes * h) * w) * s - 1) /\ texel * s \in Nat
  BY <1>1, <1>5, DigitsBounded DEF s
<1> QED  BY <1>2, <1>6

(* Every byte of the level is a byte of a texel of it.                       *)
LEMMA LevelCovered ==
  ASSUME NEW img, IsShape(img), NEW l \in 0..(img.levels - 1), NEW b \in 0..(LevelBytes(img, l) - 1)
  PROVE  \E n \in 0..(img.layers - 1), x \in 0..(Extent(img, 1, l) - 1),
            y \in 0..(Extent(img, 2, l) - 1), z \in 0..(Extent(img, 3, l) - 1),
            c \in 0..(ElementSize(img.format) - 1) :
           b = Within(img, l, n, x, y, z) + c
<1> DEFINE w == Extent(img, 1, l)
           h == Extent(img, 2, l)
           d == Extent(img, 3, l)
           m == img.layers
           s == ElementSize(img.format)
           planes == Planes(img, l)
<1>1. /\ w \in Nat \ {0} /\ h \in Nat \ {0} /\ d \in Nat \ {0} /\ m \in Nat \ {0}
      /\ s \in Nat \ {0} /\ planes \in Nat \ {0} /\ (m = 1 \/ d = 1)
  BY LevelBytesType
<1>2. planes = d * m /\ b \in 0..(((planes * h) * w) * s - 1)
  BY DEF Planes, LevelBytes
<1>3. \A n, x, y, z : Within(img, l, n, x, y, z) = (((z + n) * h + y) * w + x) * s
  BY DEF Within
<1> SUFFICES \E n \in 0..(m - 1), x \in 0..(w - 1), y \in 0..(h - 1), z \in 0..(d - 1),
                c \in 0..(s - 1) : b = (((z + n) * h + y) * w + x) * s + c
  BY <1>3
<1> HIDE DEF w, h, d, m, s, planes
<1> DEFINE rows == planes * h
           texels == rows * w
<1>a. rows \in Nat /\ rows = planes * h
  BY <1>1
<1> HIDE DEF rows
<1>b. texels \in Nat /\ texels = rows * w
  BY <1>1, <1>a
<1>c. b \in 0..(texels * s - 1)
  BY <1>2, <1>a
<1> HIDE DEF texels
<1>4. PICK texel \in 0..(texels - 1), c \in 0..(s - 1) : b = texel * s + c
  <2>1. HasDigits(texels, s, b)
    BY <1>1, <1>b, <1>c, DigitsExist
  <2> QED  BY <2>1 DEF HasDigits
<1>5. PICK row \in 0..(rows - 1), x \in 0..(w - 1) : texel = row * w + x
  <2>1. HasDigits(rows, w, texel)
    BY <1>1, <1>a, <1>b, DigitsExist
  <2> QED  BY <2>1 DEF HasDigits
<1>6. PICK plane \in 0..(planes - 1), y \in 0..(h - 1) : row = plane * h + y
  <2>1. row \in 0..(planes * h - 1)
    BY <1>a
  <2>2. HasDigits(planes, h, row)
    BY <1>1, <2>1, DigitsExist
  <2> QED  BY <2>2 DEF HasDigits
<1>7. PICK n \in 0..(m - 1), z \in 0..(d - 1) : plane = z + n
  <2>1. CASE m = 1
    <3>1. planes = d
      BY <1>1, <1>2, <2>1
    <3>2. plane \in 0..(d - 1) /\ plane = plane + 0 /\ 0 \in 0..(m - 1)
      BY <2>1, <3>1
    <3> QED  BY <3>2
  <2>2. CASE d = 1
    <3>1. planes = m
      BY <1>1, <1>2, <2>2
    <3>2. plane \in 0..(m - 1) /\ plane = 0 + plane /\ 0 \in 0..(d - 1)
      BY <2>2, <3>1
    <3> QED  BY <3>2
  <2> QED  BY <1>1, <2>1, <2>2
<1>8. b = (((z + n) * h + y) * w + x) * s + c
  BY <1>4, <1>5, <1>6, <1>7
<1> QED  BY <1>4, <1>5, <1>6, <1>7, <1>8

-------------------------------------------------------------------------------
(* getTexelAddress finds it there.                                           *)
Named(l, n, x, y, z) == <<l, n, x, y, z>>
At(img, t) == TexelOffset(img, SubSeq(t, 3, 5), t[2], t[1])
InImage(img, l, n, x, y, z) ==
  /\ l \in 0..(img.levels - 1) /\ n \in 0..(img.layers - 1)
  /\ x \in 0..(Extent(img, 1, l) - 1) /\ y \in 0..(Extent(img, 2, l) - 1)
  /\ z \in 0..(Extent(img, 3, l) - 1)

(* The offset of a texel is where its level starts and where it is in the    *)
(* level.                                                                    *)
LEMMA OffsetIs ==
  ASSUME NEW img, IsShape(img), Fits32(img), NEW l, NEW n, NEW xyz,
         InImage(img, l, n, xyz[1], xyz[2], xyz[3])
  PROVE  TexelOffset(img, xyz, n, l)
           = Sums(LevelsOf(img))[l] + Within(img, l, n, xyz[1], xyz[2], xyz[3])
<1> DEFINE x == xyz[1]
           y == xyz[2]
           z == xyz[3]
           w == Extent(img, 1, l)
           h == Extent(img, 2, l)
           s == ElementSize(img.format)
           there == Within(img, l, n, x, y, z)
           sum == (x + (y + (z + n) * h) * w) * s
<1>0. InImage(img, l, n, x, y, z)
  OBVIOUS
<1>a. TexelOffset(img, xyz, n, l) = MipLevelOffset(img, l) + (sum % Word)
  BY Zenon DEF TexelOffset
<1> HIDE DEF x, y, z
<1>1. /\ l \in 0..(img.levels - 1) /\ n \in 0..(img.layers - 1) /\ x \in 0..(w - 1)
      /\ y \in 0..(h - 1) /\ z \in 0..(Extent(img, 3, l) - 1)
  BY <1>0 DEF InImage
<1>2. /\ w \in Nat \ {0} /\ h \in Nat \ {0} /\ s \in Nat \ {0}
      /\ img.levels \in 1..32 /\ img.layers \in Nat \ {0}
      /\ Extent(img, 3, l) \in Nat \ {0} /\ LevelBytes(img, l) \in Nat
  BY <1>1, LevelBytesType, LevelsType
<1>3. n \in Nat /\ x \in Nat /\ y \in Nat /\ z \in Nat
  BY <1>1, <1>2
<1>6. there \in Nat /\ there < Word
  <2>1. 0 \in 0..(s - 1)
    BY <1>2
  <2>2. there \in Nat /\ there + 0 \in 0..(LevelBytes(img, l) - 1)
    BY <1>1, <2>1, TexelInLevel
  <2>3. LevelBytes(img, l) < Word
    BY <1>1, WrappedBytes
  <2> HIDE DEF there
  <2> QED  BY <1>2, <2>2, <2>3, WordType
<1>7. there = sum
  <2>1. there = (((z + n) * h + y) * w + x) * s
    BY DEF Within
  <2> HIDE DEF there, w, h, s
  <2> QED  BY <1>2, <1>3, <2>1
<1>8. there % Word = there
  BY <1>6, WordType, ModSmall
<1>9. MipLevelOffset(img, l) = Sums(LevelsOf(img))[l]
  <2>1. l \in 0..img.levels
    BY <1>1, <1>2
  <2> QED  BY <2>1, OffsetIsSum
<1> HIDE DEF there, sum, w, h, s
<1>11. TexelOffset(img, xyz, n, l) = Sums(LevelsOf(img))[l] + there
  BY <1>7, <1>8, <1>9, <1>a, Zenon
<1> QED  BY <1>11 DEF there, x, y, z

(* The place of a named texel is its coordinates.                            *)
LEMMA TexelAtOffset ==
  ASSUME NEW img, IsShape(img), Fits32(img), NEW l, NEW n, NEW x, NEW y, NEW z,
         InImage(img, l, n, x, y, z)
  PROVE  At(img, Named(l, n, x, y, z))
           = Sums(LevelsOf(img))[l] + Within(img, l, n, x, y, z)
<1> DEFINE t == Named(l, n, x, y, z)
           xyz == SubSeq(t, 3, 5)
<1>1. /\ l \in 0..(img.levels - 1) /\ n \in 0..(img.layers - 1)
      /\ x \in 0..(Extent(img, 1, l) - 1) /\ y \in 0..(Extent(img, 2, l) - 1)
      /\ z \in 0..(Extent(img, 3, l) - 1)
  BY DEF InImage
<1>2. x \in Nat /\ y \in Nat /\ z \in Nat
  BY <1>1, LevelBytesType
<1>3. t[1] = l /\ t[2] = n /\ t[3] = x /\ t[4] = y /\ t[5] = z
  BY DEF Named
<1>4. xyz[1] = x /\ xyz[2] = y /\ xyz[3] = z
  <2> HIDE DEF t
  <2>1. \A i \in 3..5 : t[i] \in Nat
    <3>1. \A i \in 3..5 : i = 3 \/ i = 4 \/ i = 5
      OBVIOUS
    <3> QED  BY <1>2, <1>3, <3>1
  <2>2. \A i \in 1..(5 - 3 + 1) : SubSeq(t, 3, 5)[i] = t[3 + i - 1]
    BY <2>1, SubSeqProperties
  <2>3. SubSeq(t, 3, 5)[1] = t[3] /\ SubSeq(t, 3, 5)[2] = t[4] /\ SubSeq(t, 3, 5)[3] = t[5]
    BY <2>2
  <2> QED  BY <1>3, <2>3
<1>5. At(img, t) = TexelOffset(img, xyz, n, l)
  <2> HIDE DEF t
  <2> QED  BY <1>3, Zenon DEF At
<1> HIDE DEF t, xyz
<1>6. TexelOffset(img, xyz, n, l)
        = Sums(LevelsOf(img))[l] + Within(img, l, n, xyz[1], xyz[2], xyz[3])
  BY <1>4, OffsetIs
<1> QED  BY <1>4, <1>5, <1>6 DEF t

(* The texels of an image are those of its levels.                           *)
TexelsIn(img, l, w, h, d) ==
  {<<l, n, x, y, z>> : n \in 0..(img.layers - 1), x \in 0..(w - 1),
                       y \in 0..(h - 1), z \in 0..(d - 1)}
(* A tuple is a texel of the image if and only if its coordinates are in the *)
(* image.                                                                    *)
LEMMA TexelsAre ==
  ASSUME NEW img, IsShape(img)
  PROVE  /\ \A t \in TexelsOf(img) : \E l, n, x, y, z :
              InImage(img, l, n, x, y, z) /\ t = Named(l, n, x, y, z)
         /\ \A l, n, x, y, z : InImage(img, l, n, x, y, z) => Named(l, n, x, y, z) \in TexelsOf(img)
<1>1. \A l \in 0..(img.levels - 1) : \A axis \in 1..3 : LevelSize(img, axis, l) = Extent(img, axis, l)
  BY ExtentType
<1>2. \A l \in 0..(img.levels - 1) : /\ LevelSize(img, 1, l) = Extent(img, 1, l)
                                     /\ LevelSize(img, 2, l) = Extent(img, 2, l)
                                     /\ LevelSize(img, 3, l) = Extent(img, 3, l)
  BY <1>1
<1> DEFINE In(l) == TexelsIn(img, l, Extent(img, 1, l), Extent(img, 2, l), Extent(img, 3, l))
<1>3. TexelsOf(img) = UNION {In(l) : l \in 0..(img.levels - 1)}
  <2> DEFINE F(l) ==
        TexelsIn(img, l, LevelSize(img, 1, l), LevelSize(img, 2, l), LevelSize(img, 3, l))
  <2>1. TexelsOf(img) = UNION {F(l) : l \in 0..(img.levels - 1)}
    BY DEF TexelsOf, TexelsIn
  <2>2. ASSUME NEW l \in 0..(img.levels - 1) PROVE F(l) = In(l)
    BY <1>2
  <2> HIDE DEF F, In
  <2> QED  BY <2>1, <2>2, Zenon
<1> QED  BY <1>3 DEF TexelsIn, InImage, Named

-------------------------------------------------------------------------------
(* The bytes of the texels of an image are those of its size.                *)
BytesOf(img, t) == At(img, t)..(At(img, t) + ElementSize(img.format) - 1)

(* The bytes of a texel are inside the size of the image.                    *)
LEMMA TexelsInSize ==
  ASSUME NEW img, IsShape(img), Fits32(img), NEW t \in TexelsOf(img)
  PROVE  BytesOf(img, t) \subseteq 0..(TotalSize(img) - 1)
<1> DEFINE a == LevelsOf(img)
           total == TotalSize(img)
           s == ElementSize(img.format)
<1>1. PICK l, n, x, y, z : InImage(img, l, n, x, y, z) /\ t = Named(l, n, x, y, z)
  BY TexelsAre
<1> DEFINE there == Within(img, l, n, x, y, z)
<1>2. /\ a \in [Nat -> Nat] /\ img.levels \in 1..32 /\ l \in 0..(img.levels - 1)
      /\ a[l] = LevelBytes(img, l)
  BY <1>1, LevelsType DEF InImage
<1>3. AreSums(a, Sums(a))
  BY <1>2, SumsExist
<1>4. total = Sums(a)[img.levels]
  <2>1. img.levels \in 0..img.levels
    BY <1>2
  <2> QED  BY <2>1, OffsetIsSum DEF TotalSize
<1>5. At(img, t) = Sums(a)[l] + there
  BY <1>1, TexelAtOffset
<1>6. s \in Nat \ {0} /\ there \in Nat /\ \A c \in 0..(s - 1) : there + c \in 0..(a[l] - 1)
  <2>1. s \in Nat \ {0}
    BY <1>2, LevelBytesType
  <2>2. \A c \in 0..(s - 1) : there \in Nat /\ there + c \in 0..(a[l] - 1)
    BY <1>1, <1>2, TexelInLevel DEF InImage
  <2>3. 0 \in 0..(s - 1)
    BY <2>1
  <2> QED  BY <2>1, <2>2, <2>3
<1> HIDE DEF a, there, total, s
<1>7. /\ Sums(a)[l] \in Nat /\ Sums(a)[l + 1] = Sums(a)[l] + a[l] /\ a[l] \in Nat
      /\ Sums(a)[img.levels] \in Nat /\ Sums(a)[l + 1] <= Sums(a)[img.levels]
  <2>1. l \in Nat /\ l + 1 \in Nat /\ img.levels \in Nat /\ l + 1 <= img.levels
    BY <1>2
  <2>2. Sums(a)[l + 1] <= Sums(a)[img.levels]
    BY <1>2, <2>1, SumsMonotone
  <2> QED  BY <1>2, <1>3, <2>1, <2>2 DEF AreSums
<1>8. ASSUME NEW b \in (Sums(a)[l] + there)..(Sums(a)[l] + there + s - 1)
      PROVE  b \in 0..(total - 1)
  <2>1. b - Sums(a)[l] - there \in 0..(s - 1)
    BY <1>6, <1>7
  <2>2. there + (b - Sums(a)[l] - there) \in 0..(a[l] - 1)
    BY <1>6, <2>1
  <2> QED  BY <1>4, <1>6, <1>7, <2>2
<1>9. BytesOf(img, t) = (Sums(a)[l] + there)..(Sums(a)[l] + there + s - 1)
  BY <1>5 DEF BytesOf, s
<1> QED  BY <1>8, <1>9 DEF total

(* Every byte of the size is a byte of a texel.                              *)
LEMMA SizeCovered ==
  ASSUME NEW img, IsShape(img), Fits32(img), NEW b \in 0..(TotalSize(img) - 1)
  PROVE  \E t \in TexelsOf(img) : b \in BytesOf(img, t)
<1> DEFINE a == LevelsOf(img)
           s == ElementSize(img.format)
<1>1. a \in [Nat -> Nat] /\ img.levels \in 1..32 /\ img.levels \in Nat
  BY LevelsType
<1>2. AreSums(a, Sums(a))
  BY <1>1, SumsExist
<1>3. TotalSize(img) = Sums(a)[img.levels]
  <2>1. img.levels \in 0..img.levels
    BY <1>1
  <2> QED  BY <2>1, OffsetIsSum DEF TotalSize
<1>4. PICK l \in 0..(img.levels - 1) : b \in Sums(a)[l]..(Sums(a)[l] + a[l] - 1)
  <2> HIDE DEF a
  <2>1. b \in 0..(Sums(a)[img.levels] - 1)
    BY <1>3
  <2> QED  BY <1>1, <2>1, SumsCover
<1>5. a[l] = LevelBytes(img, l) /\ Sums(a)[l] \in Nat /\ LevelBytes(img, l) \in Nat
  <2>1. a[l] = LevelBytes(img, l)
    BY LevelsType
  <2>2. LevelBytes(img, l) \in Nat
    BY LevelBytesType
  <2>3. l \in Nat
    BY <1>1
  <2> HIDE DEF a
  <2>4. Sums(a)[l] \in Nat
    BY <1>2, <2>3 DEF AreSums
  <2> QED  BY <2>1, <2>2, <2>4
<1> HIDE DEF a
<1>6. b - Sums(a)[l] \in 0..(LevelBytes(img, l) - 1)
  BY <1>4, <1>5
<1>7. PICK n \in 0..(img.layers - 1), x \in 0..(Extent(img, 1, l) - 1),
           y \in 0..(Extent(img, 2, l) - 1), z \in 0..(Extent(img, 3, l) - 1),
           c \in 0..(s - 1) : b - Sums(a)[l] = Within(img, l, n, x, y, z) + c
  BY <1>6, LevelCovered
<1>8. InImage(img, l, n, x, y, z)
  BY DEF InImage
<1>9. Named(l, n, x, y, z) \in TexelsOf(img)
  BY <1>8, TexelsAre
<1> DEFINE there == Within(img, l, n, x, y, z)
<1>10. At(img, Named(l, n, x, y, z)) = Sums(a)[l] + there
  BY <1>8, TexelAtOffset DEF a
<1>11. s \in Nat \ {0} /\ there \in Nat
  BY LevelBytesType, TexelInLevel
<1>12. b - Sums(a)[l] = there + c
  BY <1>7
<1> HIDE DEF there, s
<1>13. b \in (Sums(a)[l] + there)..(Sums(a)[l] + there + s - 1)
  BY <1>4, <1>5, <1>11, <1>12
<1>14. b \in BytesOf(img, Named(l, n, x, y, z))
  BY <1>10, <1>13 DEF BytesOf, s
<1> QED  BY <1>9, <1>14

(* A byte of a texel belongs to its level, and is found there from where the *)
(* level starts.                                                             *)
BelongsTo(img, b, l, n, x, y, z) ==
  /\ b - Sums(LevelsOf(img))[l] \in 0..(LevelBytes(img, l) - 1)
  /\ \E c \in 0..(ElementSize(img.format) - 1) :
       b - Sums(LevelsOf(img))[l] = Within(img, l, n, x, y, z) + c

(* A byte of a texel is that many bytes after the start of the level.        *)
LEMMA ByteBelongs ==
  ASSUME NEW img, IsShape(img), Fits32(img), NEW l, NEW n, NEW x, NEW y, NEW z,
         InImage(img, l, n, x, y, z), NEW b \in BytesOf(img, Named(l, n, x, y, z))
  PROVE  b \in Int /\ BelongsTo(img, b, l, n, x, y, z)
<1> DEFINE s == ElementSize(img.format)
           there == Within(img, l, n, x, y, z)
           start == Sums(LevelsOf(img))[l]
           c == b - start - there
<1>1. At(img, Named(l, n, x, y, z)) = start + there
  BY TexelAtOffset
<1>2. s \in Nat \ {0}
  BY LevelBytesType DEF InImage
<1>3. \A i \in 0..(s - 1) : there \in Nat /\ there + i \in 0..(LevelBytes(img, l) - 1)
  BY TexelInLevel DEF InImage
<1>4. there \in Nat
  <2>1. 0 \in 0..(s - 1)
    BY <1>2
  <2> QED  BY <1>3, <2>1
<1>5. start \in Nat
  BY LevelsType, SumsExist DEF AreSums, InImage
<1>6. b \in (start + there)..(start + there + s - 1)
  <2> HIDE DEF start, there
  <2> QED  BY <1>1 DEF BytesOf
<1> HIDE DEF there, start, s
<1>7. c \in 0..(s - 1) /\ b \in Int /\ b - start = there + c
  BY <1>2, <1>4, <1>5, <1>6
<1> HIDE DEF c
<1>8. b - start \in 0..(LevelBytes(img, l) - 1)
  BY <1>3, <1>7
<1> QED  BY <1>7, <1>8 DEF BelongsTo, there, start, s

(* No byte is in two levels.                                                 *)
LEMMA LevelUnique ==
  ASSUME NEW img, IsShape(img), NEW l \in 0..(img.levels - 1), NEW k \in 0..(img.levels - 1),
         NEW b \in Int,
         b - Sums(LevelsOf(img))[l] \in 0..(LevelBytes(img, l) - 1),
         b - Sums(LevelsOf(img))[k] \in 0..(LevelBytes(img, k) - 1)
  PROVE  l = k
<1> DEFINE a == LevelsOf(img)
<1>1. /\ a \in [Nat -> Nat] /\ img.levels \in 1..32 /\ a[l] = LevelBytes(img, l)
      /\ a[k] = LevelBytes(img, k)
  BY LevelsType
<1>2. AreSums(a, Sums(a))
  BY <1>1, SumsExist
<1> HIDE DEF a
<1>3. b - Sums(a)[l] \in 0..(a[l] - 1) /\ b - Sums(a)[k] \in 0..(a[k] - 1)
  BY <1>1 DEF a
<1>4. l \in Nat /\ k \in Nat
  BY <1>1
<1>5. \A j \in Nat : Sums(a)[j] \in Nat /\ a[j] \in Nat /\ Sums(a)[j + 1] = Sums(a)[j] + a[j]
  BY <1>1, <1>2 DEF AreSums
<1>6. ASSUME NEW i \in Nat, NEW j \in Nat, i < j, b - Sums(a)[i] \in 0..(a[i] - 1),
             b - Sums(a)[j] \in 0..(a[j] - 1)
      PROVE  FALSE
  <2>1. i + 1 \in Nat /\ i + 1 <= j
    BY <1>6
  <2>2. Sums(a)[i + 1] <= Sums(a)[j]
    BY <1>1, <2>1, SumsMonotone
  <2>3. /\ Sums(a)[i] \in Nat /\ Sums(a)[j] \in Nat /\ a[i] \in Nat /\ a[j] \in Nat
        /\ Sums(a)[i + 1] = Sums(a)[i] + a[i]
    BY <1>5
  <2> QED  BY <1>6, <2>2, <2>3
<1>7. ~(l < k) /\ ~(k < l)
  BY <1>3, <1>4, <1>6
<1> QED  BY <1>4, <1>7

(* A number has these digits and no others.                                  *)
LEMMA DigitsUnique ==
  ASSUME NEW b \in Nat, NEW q \in Int, NEW r \in 0..(b - 1), NEW p \in Int,
         NEW t \in 0..(b - 1), q * b + r = p * b + t
  PROVE  q = p /\ r = t
<1>1. (q - p) * b = t - r
  OBVIOUS
<1>2. CASE q > p
  <2>1. (q - p - 1) * b \in Nat /\ (q - p - 1) * b = (q - p) * b - b
    BY <1>2
  <2> QED  BY <1>1, <2>1
<1>3. CASE p > q
  <2>1. (p - q - 1) * b \in Nat /\ (p - q - 1) * b = -((q - p) * b) - b
    BY <1>3
  <2> QED  BY <1>1, <2>1
<1>4. CASE p = q
  BY <1>1, <1>4
<1> QED  BY <1>2, <1>3, <1>4

(* No byte of a level is in two texels of it.                                *)
LEMMA TexelUnique ==
  ASSUME NEW img, IsShape(img), NEW l, NEW n, NEW x, NEW y, NEW z, NEW m, NEW v, NEW w, NEW d,
         InImage(img, l, n, x, y, z), InImage(img, l, m, v, w, d), NEW b \in Int,
         BelongsTo(img, b, l, n, x, y, z), BelongsTo(img, b, l, m, v, w, d)
  PROVE  n = m /\ x = v /\ y = w /\ z = d
<1> DEFINE width == Extent(img, 1, l)
           height == Extent(img, 2, l)
           depth == Extent(img, 3, l)
           layers == img.layers
           s == ElementSize(img.format)
           at == b - Sums(LevelsOf(img))[l]
<1>1. PICK c \in 0..(s - 1) : at = (((z + n) * height + y) * width + x) * s + c
  BY DEF BelongsTo, Within
<1>2. PICK e \in 0..(s - 1) : at = (((d + m) * height + w) * width + v) * s + e
  BY DEF BelongsTo, Within
<1>3. /\ n \in 0..(layers - 1) /\ x \in 0..(width - 1) /\ y \in 0..(height - 1)
      /\ z \in 0..(depth - 1) /\ m \in 0..(layers - 1) /\ v \in 0..(width - 1)
      /\ w \in 0..(height - 1) /\ d \in 0..(depth - 1)
  BY DEF InImage
<1>4. /\ width \in Nat \ {0} /\ height \in Nat \ {0} /\ depth \in Nat \ {0}
      /\ layers \in Nat \ {0} /\ s \in Nat \ {0} /\ (layers = 1 \/ depth = 1)
  BY LevelBytesType DEF InImage
<1> HIDE DEF width, height, depth, layers, s, at
<1> DEFINE row == (z + n) * height + y
           sRow == (d + m) * height + w
           texel == row * width + x
           sTexel == sRow * width + v
<1>5. row \in Int /\ sRow \in Int
  BY <1>3, <1>4
<1>6. at = texel * s + c /\ at = sTexel * s + e
  BY <1>1, <1>2
<1> HIDE DEF row, sRow
<1>7. texel \in Int /\ sTexel \in Int
  BY <1>3, <1>4, <1>5
<1> HIDE DEF texel, sTexel
<1>8. texel = sTexel
  BY <1>4, <1>6, <1>7, DigitsUnique
<1>9. row = sRow /\ x = v
  BY <1>3, <1>4, <1>5, <1>8, DigitsUnique DEF texel, sTexel
<1>10. z + n = d + m /\ y = w
  <2>1. z + n \in Int /\ d + m \in Int
    BY <1>3, <1>4
  <2>2. (z + n) * height + y = (d + m) * height + w
    BY <1>9 DEF row, sRow
  <2> QED  BY <1>3, <1>4, <2>1, <2>2, DigitsUnique
<1>11. n = m /\ z = d
  BY <1>3, <1>4, <1>10
<1> QED  BY <1>9, <1>10, <1>11

(* Two texels do not share a byte.                                           *)
LEMMA TexelsDisjoint ==
  ASSUME NEW img, IsShape(img), Fits32(img), NEW t \in TexelsOf(img),
         NEW u \in TexelsOf(img), NEW b \in BytesOf(img, t), b \in BytesOf(img, u)
  PROVE  t = u
<1> DEFINE a == LevelsOf(img)
           s == ElementSize(img.format)
<1>1. PICK l, n, x, y, z : InImage(img, l, n, x, y, z) /\ t = Named(l, n, x, y, z)
  BY TexelsAre
<1>2. PICK k, m, v, w, d : InImage(img, k, m, v, w, d) /\ u = Named(k, m, v, w, d)
  BY TexelsAre
<1>3. /\ b \in Int /\ BelongsTo(img, b, l, n, x, y, z) /\ BelongsTo(img, b, k, m, v, w, d)
  BY <1>1, <1>2, ByteBelongs
<1>4. l = k
  BY <1>1, <1>2, <1>3, LevelUnique DEF BelongsTo, InImage
<1>5. n = m /\ x = v /\ y = w /\ z = d
  BY <1>1, <1>2, <1>3, <1>4, TexelUnique
<1> QED  BY <1>1, <1>2, <1>4, <1>5

-------------------------------------------------------------------------------
(* What is told of an image whose size was asked for.                        *)
SizeTold ==
  last.op = "require" => last.image \in Shape /\ result = <<TotalSize(last.image)>>

(* At first no size has been told.                                           *)
LEMMA SizeToldInit == Init => SizeTold
BY DEF Init, SizeTold

(* Every step keeps it: only RequireMemory makes the latest command          *)
(* "require".                                                                *)
LEMMA SizeToldNext == SizeTold /\ [Next]_vars => SizeTold'
<1> SUFFICES ASSUME SizeTold, [Next]_vars PROVE SizeTold'
  OBVIOUS
<1>1. ASSUME NEW img \in Shape, RequireMemory(img) PROVE SizeTold'
  BY <1>1 DEF RequireMemory, Executes, SizeTold
<1>2. ASSUME NEW c \in Command,
             \/ CopyBuffer(c) \/ CopyBufferToImage(c) \/ CopyImageToBuffer(c)
             \/ CopyImage(c) \/ BlitImage(c) \/ ClearColorImage(c)
             \/ ClearAttachment(c) \/ FillBuffer(c) \/ UpdateBuffer(c) \/ HostWrite(c)
             \/ ShaderWrite(c) \/ ShaderRead(c) \/ ShaderSample(c) \/ ShaderQuery(c)
             \/ VertexInput(c) \/ WriteFragment(c)
      PROVE  SizeTold'
  <2>1. last'.op # "require"
    BY <1>2 DEF Executes, CopyBuffer, CopyBufferToImage, CopyImageToBuffer, CopyImage, BlitImage,
      ClearColorImage, ClearAttachment, FillBuffer, UpdateBuffer, HostWrite, ShaderWrite,
      ShaderRead, ShaderSample, ShaderQuery, VertexInput, WriteFragment
  <2> QED  BY <2>1 DEF SizeTold
<1>3. CASE UNCHANGED vars
  BY <1>3 DEF vars, SizeTold
<1> QED  BY <1>1, <1>2, <1>3 DEF Next

(* Told that, the texels of the image are apart.                             *)
LEMMA SizeToldApart == SizeTold => TexelsApart
<1> SUFFICES ASSUME SizeTold, last.op = "require", Fits32(last.image)
             PROVE  LET img == last.image
                        size == ElementSize(img.format)
                        at(t) == TexelOffset(img, SubSeq(t, 3, 5), t[2], t[1])
                        bytes(t) == at(t)..(at(t) + size - 1)
                    IN /\ UNION {bytes(t) : t \in TexelsOf(img)} = 0..(result[1] - 1)
                       /\ \A t, u \in TexelsOf(img) : t # u => bytes(t) \cap bytes(u) = {}
  BY DEF TexelsApart
<1> DEFINE img == last.image
           total == TotalSize(img)
<1>1. img \in Shape /\ result[1] = total
  BY DEF SizeTold
<1>2. IsShape(img)
  BY <1>1, ShapeAssumption
<1> HIDE DEF img
<1>3. \A t \in TexelsOf(img) : BytesOf(img, t) \subseteq 0..(total - 1)
  BY <1>2, TexelsInSize DEF img
<1>4. \A b \in 0..(total - 1) : \E t \in TexelsOf(img) : b \in BytesOf(img, t)
  BY <1>2, SizeCovered DEF img
<1>5. ASSUME NEW t \in TexelsOf(img), NEW u \in TexelsOf(img), t # u
      PROVE  BytesOf(img, t) \cap BytesOf(img, u) = {}
  BY <1>2, <1>5, TexelsDisjoint DEF img
<1> HIDE DEF total
<1>6. UNION {BytesOf(img, t) : t \in TexelsOf(img)} = 0..(total - 1)
  BY <1>3, <1>4
<1> QED  BY <1>1, <1>5, <1>6 DEF BytesOf, At, img

(* In an image of any shape, every texel of every level, layer and slice is  *)
(* inside the size that vkGetImageMemoryRequirements tells, no two of them   *)
(* share a byte, and no byte is left over.  Nothing is assumed but that the  *)
(* bytes of a level can be counted in 32 bits.                               *)
THEOREM TexelsAreApart == Spec => []TexelsApart
<1>1. Init => SizeTold
  BY SizeToldInit
<1>2. SizeTold /\ [Next]_vars => SizeTold'
  BY SizeToldNext
<1>3. SizeTold => TexelsApart
  BY SizeToldApart
<1> QED  BY <1>1, <1>2, <1>3, PTL DEF Spec

-------------------------------------------------------------------------------
(* Memory                                                                    *)

\* Memory of bytes, of the size of one of the contents there are.
Memory(m) ==
  /\ \E i \in Contents : DOMAIN m = DOMAIN i
  /\ \A a \in DOMAIN m : m[a] \in 0..(Byte - 1)
\* The bytes of an image or a buffer.
Held(r) == Span(address[r], MemoryRequirements(r).size)
\* n bytes from an address on are among those of S.
Mapped(S, at, n) == at \in Int /\ n \in Nat /\ Span(at, n) \subseteq S
\* Stores are of bytes, to places of S.
AreStores(S, stores) ==
  \A s \in stores : s.bytes \in Seq(0..(Byte - 1)) /\ Mapped(S, s.at, Len(s.bytes))
\* Memory m2 is of bytes too, as large as m, and differs from it in S only.
ChangesOnly(S, m, m2) ==
  /\ Memory(m2) /\ DOMAIN m2 = DOMAIN m
  /\ \A a \in DOMAIN m : m2[a] # m[a] => a \in S

(* Memory that is left alone changes nowhere.                                *)
LEMMA ChangesNothing == ASSUME NEW S, NEW m, Memory(m) PROVE ChangesOnly(S, m, m)
BY DEF ChangesOnly
(* One change after the other.                                               *)
LEMMA ChangesTwice ==
  ASSUME NEW S, NEW m, NEW m2, NEW m3, ChangesOnly(S, m, m2), ChangesOnly(S, m2, m3)
  PROVE  ChangesOnly(S, m, m3)
<1>1. Memory(m3) /\ DOMAIN m3 = DOMAIN m
  BY DEF ChangesOnly
<1>2. ASSUME NEW a \in DOMAIN m, m3[a] # m[a] PROVE a \in S
  <2>1. CASE m2[a] = m[a]
    <3>1. a \in DOMAIN m2 /\ m3[a] # m2[a]
      BY <1>2, <2>1 DEF ChangesOnly
    <3> QED  BY <3>1 DEF ChangesOnly
  <2>2. CASE m2[a] # m[a]
    BY <2>2 DEF ChangesOnly
  <2> QED  BY <2>1, <2>2
<1> QED  BY <1>1, <1>2 DEF ChangesOnly

(* Stores leave memory of bytes, as large as it was, and change what they    *)
(* are to: those that are not valid are left out.                            *)
LEMMA StoredType ==
  ASSUME NEW m, Memory(m), NEW S, NEW stores, AreStores(S, stores)
  PROVE  ChangesOnly(S, m, Stored(m, stores))
<1> DEFINE now == Stored(m, stores)
           done == {s \in stores : IsAccessValid(m, s.at, Len(s.bytes))}
<1>1. DOMAIN now = DOMAIN m
  BY DEF Stored
<1>2. DOMAIN m \subseteq Nat
  BY MemoryAssumption DEF Memory
<1>3. ASSUME NEW a \in DOMAIN m PROVE now[a] \in 0..(Byte - 1) /\ (now[a] # m[a] => a \in S)
  <2> DEFINE In(t) == a \in Span(t.at, Len(t.bytes))
             s == CHOOSE t \in done : In(t)
  <2>1. CASE \E t \in done : In(t)
    <3>1. s \in done /\ In(s)
      BY <2>1
    <3>2. now[a] = s.bytes[a - s.at + 1]
      BY <2>1 DEF Stored
    <3> HIDE DEF s, now
    <3>3. /\ s.at \in Int /\ s.bytes \in Seq(0..(Byte - 1)) /\ Len(s.bytes) \in Nat
          /\ Span(s.at, Len(s.bytes)) \subseteq S
      BY <3>1 DEF AreStores, Mapped
    <3>4. a - s.at + 1 \in 1..Len(s.bytes)
      BY <1>2, <3>1, <3>3 DEF Span
    <3>5. s.bytes[a - s.at + 1] \in 0..(Byte - 1)
      BY <3>3, <3>4, ElementOfSeq
    <3>6. a \in S
      BY <3>1, <3>3
    <3> QED  BY <3>2, <3>5, <3>6
  <2>2. CASE ~\E t \in done : In(t)
    <3>1. now[a] = m[a]
      BY <2>2 DEF Stored
    <3> QED  BY <3>1 DEF Memory
  <2> QED  BY <2>1, <2>2
<1> HIDE DEF now
<1> QED  BY <1>1, <1>3 DEF ChangesOnly, Memory, now

(* What is loaded is bytes, whether the access is valid or not.              *)
LEMMA LoadType ==
  ASSUME NEW m, Memory(m), NEW S, NEW at, NEW n, Mapped(S, at, n)
  PROVE  /\ LoadFrom(m, at, n) \in [1..n -> 0..(Byte - 1)]
         /\ LoadFrom(m, at, n) \in Seq(0..(Byte - 1)) /\ Len(LoadFrom(m, at, n)) = n
<1>1. at \in Int /\ n \in Nat /\ 0 \in 0..(Byte - 1)
  BY ValuesAre DEF Mapped
<1>2. ASSUME NEW k \in 1..n, IsAccessValid(m, at, n) PROVE m[at + k - 1] \in 0..(Byte - 1)
  <2>1. at + k - 1 \in at..(at + n - 1)
    BY <1>1
  <2> QED  BY <1>2, <2>1 DEF IsAccessValid, Span, Memory
<1>3. LoadFrom(m, at, n) \in [1..n -> 0..(Byte - 1)]
  BY <1>1, <1>2 DEF LoadFrom
<1> QED  BY <1>1, <1>3, ArrayIsSeq

\* The lines of a copy are read from places of T, and written to places of S.
AreLines(S, T, lines) == \A l \in lines : Mapped(S, l.to, l.n) /\ Mapped(T, l.from, l.n)
(* A copy changes what it is to.                                             *)
LEMMA CopiedType ==
  ASSUME NEW m, Memory(m), NEW S, NEW T, NEW lines, AreLines(S, T, lines)
  PROVE  ChangesOnly(S, m, Copied(m, lines))
<1> DEFINE valid == {l \in lines : IsAccessValid(m, l.from, l.n)}
           stores == {[at |-> l.to, bytes |-> LoadFrom(m, l.from, l.n)] : l \in valid}
<1>1. AreStores(S, stores)
  <2> SUFFICES ASSUME NEW l \in lines
               PROVE  /\ LoadFrom(m, l.from, l.n) \in Seq(0..(Byte - 1))
                      /\ Mapped(S, l.to, Len(LoadFrom(m, l.from, l.n)))
    BY DEF AreStores
  <2> QED  BY LoadType DEF AreLines
<1> QED  BY <1>1, StoredType DEF Copied

-------------------------------------------------------------------------------
(* Bytes stand for a number.                                                 *)
LEMMA NumberType ==
  ASSUME NEW n \in {1, 2, 4}, NEW b, DOMAIN b = 1..n, \A k \in 1..n : b[k] \in Int
  PROVE  Number(b) \in Int
<1>1. PICK g : Unfolds(b, n, g)
  BY NumberSteps
<1>2. /\ Number(b) = g[1..n] /\ g[(n + 1)..n] = 0
      /\ \A k \in 1..n : g[k..n] = b[k] + Byte * g[(k + 1)..n]
  BY <1>1 DEF Unfolds
<1>3. Byte \in Int
  BY ValuesAre
<1>4. ASSUME NEW k \in 1..n, g[(k + 1)..n] \in Int PROVE g[k..n] \in Int
  <2>1. b[k] \in Int /\ g[k..n] = b[k] + Byte * g[(k + 1)..n]
    BY <1>2
  <2> QED  BY <1>3, <1>4, <2>1
<1>5. g[(n + 1)..n] \in Int
  BY <1>2
<1>6. CASE n = 1
  BY <1>2, <1>4, <1>5, <1>6
<1>7. CASE n = 2
  <2>1. g[2..n] \in Int
    BY <1>4, <1>5, <1>7
  <2> QED  BY <1>2, <1>4, <1>7, <2>1
<1>8. CASE n = 4
  <2>1. g[4..n] \in Int
    BY <1>4, <1>5, <1>8
  <2>2. g[3..n] \in Int
    BY <1>4, <1>8, <2>1
  <2>3. g[2..n] \in Int
    BY <1>4, <1>8, <2>2
  <2> QED  BY <1>2, <1>4, <1>8, <2>3
<1> QED  BY <1>6, <1>7, <1>8

(* What a channel reads as is a number.                                      *)
LEMMA LoadedType == ASSUME NEW f, IsFormat(f), NEW v \in Int PROVE Load(f, v) \in Int
<1>1. /\ Most(f) \in Nat \ {0} /\ f.size \in {1, 2, 4} /\ Values(f.size) \in Nat
  BY RangeType
<1>2. f.kind \in {"SINT", "UINT", "SNORM", "UNORM", "SFLOAT"}
  BY DEF IsFormat
<1>3. Signed(v, f.size) \in Int
  BY <1>1 DEF Signed
<1>4. Raw(v) \in Int
  <2>1. Values(4) \in Nat /\ Word \in Nat \ {0}
    BY ValuesType, WordType
  <2>2. v % Word \in Int
    BY <2>1
  <2> QED  BY <2>1, <2>2 DEF Raw, Signed
<1>5. Unit \in Int
  BY WordType, NumbersAssumption
<1>6. CASE f.kind = "SNORM"
  <2>1. Signed(v, f.size) * Unit \in Int
    BY <1>3, <1>5
  <2> QED  BY <1>1, <1>6, <2>1 DEF Load
<1>7. CASE f.kind = "UNORM"
  <2>1. v * Unit \in Int
    BY <1>5
  <2> QED  BY <1>1, <1>7, <2>1 DEF Load
<1>8. CASE f.kind = "SINT"
  BY <1>3, <1>8 DEF Load
<1>9. CASE f.kind = "UINT" \/ f.kind = "SFLOAT"
  BY <1>4, <1>9 DEF Load
<1> QED  BY <1>2, <1>6, <1>7, <1>8, <1>9

(* A part of a sequence.                                                     *)
LEMMA PartOf ==
  ASSUME NEW S, NEW a \in Seq(S), NEW first \in Nat, NEW end \in Nat,
         1 <= first, first <= end + 1, end <= Len(a)
  PROVE  SubSeq(a, first, end) \in Seq(S) /\ Len(SubSeq(a, first, end)) = end - first + 1
<1>1. \A i \in first..end : a[i] \in S
  <2> SUFFICES ASSUME NEW i \in first..end PROVE a[i] \in S
    OBVIOUS
  <2>1. i \in 1..Len(a)
    BY LenProperties
  <2> QED  BY <2>1, ElementOfSeq
<1>2. first \in Int /\ end \in Int
  OBVIOUS
<1>3. /\ SubSeq(a, first, end) \in Seq(S)
      /\ Len(SubSeq(a, first, end)) = IF first <= end THEN end - first + 1 ELSE 0
  BY <1>1, <1>2, SubSeqProperties
<1> QED  BY <1>3

(* The places of a channel among the bytes of a texel.                       *)
LEMMA ChannelPlaces ==
  ASSUME NEW n \in Nat \ {0}, NEW all \in Nat, NEW c \in 1..all
  PROVE  /\ (c - 1) * n + 1 \in Nat /\ 1 <= (c - 1) * n + 1 /\ c * n \in Nat
         /\ c * n - ((c - 1) * n + 1) + 1 = n /\ c * n <= all * n
<1>1. c \in Nat /\ c - 1 \in Nat /\ all - c \in Nat
  OBVIOUS
<1>2. (c - 1) * n \in Nat /\ c * n \in Nat /\ (all - c) * n \in Nat /\ all * n \in Nat
  BY <1>1
<1>3. (c - 1) * n = c * n - n /\ (all - c) * n = all * n - c * n
  BY <1>1
<1> QED  BY <1>2, <1>3

(* What is read of the bytes of a texel is four numbers.                     *)
LEMMA ReadType ==
  ASSUME NEW f, IsFormat(f), NEW bytes \in Seq(0..(Byte - 1)), Len(bytes) = ElementSize(f)
  PROVE  Read(f, bytes) \in [1..4 -> Int]
<1> DEFINE sub(c) == SubSeq(bytes, (c - 1) * f.size + 1, c * f.size)
           channel(c) == IF c <= f.channels THEN Number(sub(c))
                         ELSE IF c = 4 THEN (IF f.kind = "SFLOAT" THEN Unit ELSE 1) ELSE 0
           raw == Swapped(f, [c \in 1..4 |-> channel(c)])
<1>1. f.channels \in 1..4 /\ f.size \in {1, 2, 4} /\ Byte \in Nat
  BY ValuesAre DEF IsFormat
<1>2. Unit \in Int
  BY WordType, NumbersAssumption
<1>3. ASSUME NEW c \in 1..4, c <= f.channels PROVE Number(sub(c)) \in Int
  <2> DEFINE first == (c - 1) * f.size + 1
             end == c * f.size
             s == SubSeq(bytes, first, end)
  <2>1. f.size \in Nat \ {0} /\ f.channels \in Nat /\ c \in 1..f.channels
    BY <1>1, <1>3
  <2>2. /\ first \in Nat /\ 1 <= first /\ end \in Nat /\ end - first + 1 = f.size
        /\ end <= f.channels * f.size
    BY <2>1, ChannelPlaces
  <2>5. Len(s) = f.size /\ s \in Seq(0..(Byte - 1))
    <3>1. Len(bytes) = f.channels * f.size
      BY DEF ElementSize
    <3> HIDE DEF first, end
    <3>2. first <= end + 1 /\ end <= Len(bytes)
      BY <2>1, <2>2, <3>1
    <3> QED  BY <2>2, <3>2, PartOf
  <2>6. DOMAIN s = 1..f.size /\ \A i \in 1..f.size : s[i] \in Int
    <3>1. \A i \in 1..Len(s) : s[i] \in 0..(Byte - 1)
      BY <2>5, ElementOfSeq
    <3> HIDE DEF s
    <3>2. DOMAIN s = 1..Len(s)
      BY <2>5
    <3> QED  BY <2>5, <3>1, <3>2
  <2> HIDE DEF s
  <2>7. Number(s) \in Int
    BY <1>1, <2>6, NumberType
  <2> QED  BY <2>7 DEF s, first, end
<1> HIDE DEF sub
<1>4. [c \in 1..4 |-> channel(c)] \in [1..4 -> Int]
  BY <1>2, <1>3
<1> HIDE DEF channel
<1>5. raw \in [1..4 -> Int]
  BY <1>4, SwappedIs
<1>6. Read(f, bytes) = [c \in 1..4 |-> Load(f, raw[c])]
  BY DEF Read, raw, channel, sub
<1> HIDE DEF raw
<1> QED  BY <1>5, <1>6, LoadedType

-------------------------------------------------------------------------------
(* What a fragment leaves in its attachment                                  *)

(* The numbers of a texel.                                                   *)
LEMMA TexelType == ASSUME NEW t, IsTexel(t) PROVE t \in [1..4 -> Int]
BY LenProperties DEF IsTexel

\* The texels that the first n outputs make up, as a function of their number.
Gathers(g, n, outputs, stale) ==
  g = [k \in 0..n |->
         IF k = 0 THEN stale
         ELSE LET o == outputs[k] IN
              [i \in 1..4 |-> IF i - o.component \in 1..Len(o.values)
                              THEN o.values[i - o.component] ELSE g[k - 1][i]]]
(* There is such a function.                                                 *)
LEMMA GathersExist ==
  ASSUME NEW n \in Nat, NEW outputs, NEW stale
  PROVE  \E g : Gathers(g, n, outputs, stale)
<1> DEFINE With(o, t) == [i \in 1..4 |-> IF i - o.component \in 1..Len(o.values)
                                         THEN o.values[i - o.component] ELSE t[i]]
           Step(g, k) == IF k = 0 THEN stale ELSE With(outputs[k], g[k - 1])
           S == {m \in Nat : \E g : g = [k \in 0..m |-> Step(g, k)]}
<1> HIDE DEF With
<1>1. 0 \in S
  <2> DEFINE g == [k \in {0} |-> stale]
  <2>1. 0..0 = {0}
    OBVIOUS
  <2>2. g = [k \in 0..0 |-> Step(g, k)]
    BY <2>1
  <2> QED  BY <2>2
<1>2. ASSUME NEW m \in Nat, m \in S PROVE m + 1 \in S
  <2>1. PICK g : g = [k \in 0..m |-> Step(g, k)]
    BY <1>2
  <2> DEFINE h == [k \in 0..(m + 1) |-> IF k <= m THEN g[k] ELSE With(outputs[m + 1], g[m])]
  <2>2. ASSUME NEW k \in 0..(m + 1) PROVE h[k] = Step(h, k)
    <3>1. CASE k = 0
      <4>1. h[k] = g[0] /\ 0 \in 0..m
        BY <3>1
      <4> HIDE DEF h
      <4> QED  BY <2>1, <3>1, <4>1
    <3>2. CASE k # 0 /\ k <= m
      <4>1. h[k] = g[k] /\ k \in 0..m /\ k - 1 \in 0..m /\ h[k - 1] = g[k - 1]
        BY <3>2
      <4> HIDE DEF h
      <4> QED  BY <2>1, <3>2, <4>1
    <3>3. CASE k = m + 1
      <4>1. h[k] = With(outputs[m + 1], g[m]) /\ k - 1 = m /\ h[m] = g[m] /\ k # 0
        BY <3>3
      <4> HIDE DEF h
      <4> QED  BY <3>3, <4>1
    <3> QED  BY <3>1, <3>2, <3>3
  <2>3. h = [k \in 0..(m + 1) |-> Step(h, k)]
    BY <2>2
  <2> HIDE DEF h, Step
  <2> QED  BY <2>3
<1> HIDE DEF S
<1>3. n \in S
  BY <1>1, <1>2, SetInduction
<1> QED  BY <1>3 DEF S, Step, With, Gathers

\* The outputs of a fragment shader.
AreOutputs(outputs) ==
  /\ Len(outputs) \in Nat
  /\ \A k \in 1..Len(outputs) : outputs[k].component \in 0..3 /\ outputs[k].values \in Seq(Int)
(* They make up a texel.                                                     *)
LEMMA GatheredType ==
  ASSUME NEW outputs, AreOutputs(outputs), NEW stale, IsTexel(stale)
  PROVE  Gathered(outputs, stale) \in [1..4 -> Int]
<1> DEFINE n == Len(outputs)
           G == CHOOSE g : Gathers(g, n, outputs, stale)
<1>1. n \in Nat
  BY DEF AreOutputs
<1>2. Gathers(G, n, outputs, stale)
  BY <1>1, GathersExist
<1>3. Gathered(outputs, stale) = G[n]
  BY DEF Gathered, Gathers
<1> DEFINE S == {k \in Nat : k <= n => G[k] \in [1..4 -> Int]}
<1> HIDE DEF G
<1>4. 0 \in S
  <2>1. 0 \in 0..n
    BY <1>1
  <2>2. G[0] = stale
    BY <1>2, <2>1 DEF Gathers
  <2> QED  BY <2>2, TexelType
<1>5. ASSUME NEW k \in Nat, k \in S PROVE k + 1 \in S
  <2> SUFFICES ASSUME k + 1 <= n PROVE G[k + 1] \in [1..4 -> Int]
    OBVIOUS
  <2> DEFINE o == outputs[k + 1]
  <2>1. k + 1 \in 0..n /\ k + 1 # 0 /\ (k + 1) - 1 = k /\ k + 1 \in 1..n /\ k <= n
    BY <1>1
  <2>2. G[k] \in [1..4 -> Int]
    BY <1>5, <2>1
  <2>3. o.component \in 0..3 /\ o.values \in Seq(Int)
    BY <2>1 DEF AreOutputs
  <2>4. G[k + 1] = [i \in 1..4 |-> IF i - o.component \in 1..Len(o.values)
                                   THEN o.values[i - o.component] ELSE G[k][i]]
    <3> DEFINE j == k + 1
    <3>1. j \in 0..n /\ j # 0 /\ j - 1 = k
      BY <2>1
    <3> HIDE DEF j
    <3>2. G[j] = [i \in 1..4 |-> IF i - outputs[j].component \in 1..Len(outputs[j].values)
                                 THEN outputs[j].values[i - outputs[j].component] ELSE G[j - 1][i]]
      BY <1>2, <3>1 DEF Gathers
    <3> QED  BY <3>1, <3>2 DEF j
  <2>5. ASSUME NEW i \in 1..4, i - o.component \in 1..Len(o.values)
        PROVE  o.values[i - o.component] \in Int
    BY <2>3, <2>5, ElementOfSeq
  <2> HIDE DEF o
  <2> QED  BY <2>2, <2>4, <2>5
<1> HIDE DEF S
<1>6. n \in S
  BY <1>1, <1>4, <1>5, SetInduction
<1> QED  BY <1>3, <1>6 DEF S

(* The lesser and the greater of two numbers.                                *)
LEMMA MinMax ==
  ASSUME NEW a \in Int, NEW b \in Int
  PROVE  /\ Min({a, b}) = (IF a <= b THEN a ELSE b)
         /\ Max({a, b}) = (IF a <= b THEN b ELSE a)
<1> DEFINE lo == IF a <= b THEN a ELSE b
           hi == IF a <= b THEN b ELSE a
<1>1. lo \in {a, b} /\ (\A x \in {a, b} : lo <= x) /\ \A y \in {a, b} : (\A x \in {a, b} : y <= x) => y = lo
  OBVIOUS
<1>2. hi \in {a, b} /\ (\A x \in {a, b} : x <= hi) /\ \A y \in {a, b} : (\A x \in {a, b} : x <= y) => y = hi
  OBVIOUS
<1> HIDE DEF lo, hi
<1>3. Min({a, b}) = lo
  BY <1>1 DEF Min
<1>4. Max({a, b}) = hi
  <2>1. \A x, y : y >= x <=> x <= y
    OBVIOUS
  <2> QED  BY <1>2, <2>1 DEF Max
<1> QED  BY <1>3, <1>4 DEF lo, hi

(* A blend factor is a number.                                               *)
LEMMA BlendFactorType ==
  ASSUME NEW factor \in BlendFactors, NEW src \in [1..4 -> Int], NEW dst \in [1..4 -> Int],
         NEW constant \in [1..4 -> Int], NEW k \in 1..4
  PROVE  BlendFactor(factor, src, dst, constant, k) \in Int
<1>1. Unit \in Int
  BY WordType, NumbersAssumption
<1>2. /\ src[k] \in Int /\ dst[k] \in Int /\ constant[k] \in Int
      /\ src[4] \in Int /\ dst[4] \in Int /\ constant[4] \in Int
  OBVIOUS
<1>3. Min({src[4], Unit - dst[4]}) \in Int
  <2>1. Unit - dst[4] \in Int
    BY <1>1, <1>2
  <2> QED  BY <1>2, <2>1, MinMax
<1>4. /\ Unit - src[k] \in Int /\ Unit - dst[k] \in Int /\ Unit - constant[k] \in Int
      /\ Unit - src[4] \in Int /\ Unit - dst[4] \in Int /\ Unit - constant[4] \in Int /\ 0 \in Int
  BY <1>1, <1>2
<1> QED  BY <1>1, <1>2, <1>3, <1>4 DEF BlendFactor, BlendFactors

(* A blend operator makes a number.                                          *)
LEMMA BlendOpType ==
  ASSUME NEW op \in BlendOps, NEW s \in Int, NEW sf \in Int, NEW d \in Int, NEW df \in Int
  PROVE  BlendOp(op, s, sf, d, df) \in Int
<1>1. Unit \in Nat \ {0}
  BY WordType, NumbersAssumption
<1>2. ASSUME NEW a \in Int, NEW b \in Int PROVE Times(a, b) \in Int
  <2>1. a * b \in Int
    OBVIOUS
  <2> QED  BY <1>1, <2>1 DEF Times
<1>3. Times(s, sf) \in Int /\ Times(d, df) \in Int
  BY <1>2
<1>4. Min({s, d}) \in Int /\ Max({s, d}) \in Int
  BY MinMax
<1>5. /\ Times(s, sf) + Times(d, df) \in Int /\ Times(s, sf) - Times(d, df) \in Int
      /\ Times(d, df) - Times(s, sf) \in Int
  BY <1>3
<1> QED  BY <1>4, <1>5 DEF BlendOp, BlendOps

(* Blending makes a texel.                                                   *)
LEMMA BlendTexelType ==
  ASSUME NEW src \in [1..4 -> Int], NEW dst \in [1..4 -> Int], NEW b, IsBlend(b), b.enable
  PROVE  BlendTexel(src, dst, b) \in [1..4 -> Int]
<1>1. /\ b.srcColor \in BlendFactors /\ b.dstColor \in BlendFactors
      /\ b.srcAlpha \in BlendFactors /\ b.dstAlpha \in BlendFactors
      /\ b.colorOp \in BlendOps /\ b.alphaOp \in BlendOps /\ IsTexel(b.constant)
  BY DEF IsBlend
<1>2. b.constant \in [1..4 -> Int]
  BY <1>1, TexelType
<1>3. Unit \in Int
  BY WordType, NumbersAssumption
<1>4. ASSUME NEW factor \in BlendFactors PROVE AlphaFactor(factor, src, dst, b.constant) \in Int
  <2>1. BlendFactor(factor, src, dst, b.constant, 4) \in Int
    BY <1>2, BlendFactorType
  <2> QED  BY <1>3, <2>1 DEF AlphaFactor
<1>5. ASSUME NEW k \in 1..4
      PROVE  BlendOp(b.colorOp, src[k], BlendFactor(b.srcColor, src, dst, b.constant, k),
                     dst[k], BlendFactor(b.dstColor, src, dst, b.constant, k)) \in Int
  <2>1. /\ BlendFactor(b.srcColor, src, dst, b.constant, k) \in Int
        /\ BlendFactor(b.dstColor, src, dst, b.constant, k) \in Int
    BY <1>1, <1>2, BlendFactorType
  <2>2. src[k] \in Int /\ dst[k] \in Int
    OBVIOUS
  <2> QED  BY <1>1, <2>1, <2>2, BlendOpType
<1>6. BlendOp(b.alphaOp, src[4], AlphaFactor(b.srcAlpha, src, dst, b.constant),
              dst[4], AlphaFactor(b.dstAlpha, src, dst, b.constant)) \in Int
  <2>1. /\ AlphaFactor(b.srcAlpha, src, dst, b.constant) \in Int
        /\ AlphaFactor(b.dstAlpha, src, dst, b.constant) \in Int
    BY <1>1, <1>4
  <2>2. src[4] \in Int /\ dst[4] \in Int
    OBVIOUS
  <2> QED  BY <1>1, <2>1, <2>2, BlendOpType
<1> QED  BY <1>5, <1>6 DEF BlendTexel

(* A fragment leaves the bytes of a texel.                                   *)
LEMMA FragmentType ==
  ASSUME NEW f, IsFormat(f), NEW bytes \in Seq(0..(Byte - 1)), Len(bytes) = ElementSize(f),
         NEW c, AreOutputs(c.outputs), IsTexel(c.stale), IsBlend(c.blend)
  PROVE  /\ FragmentBytes(f, bytes, c) \in Seq(0..(Byte - 1))
         /\ Len(FragmentBytes(f, bytes, c)) = ElementSize(f)
<1> DEFINE read == Read(f, bytes)
           old == IF HasAlphaChannel(f) THEN read ELSE [read EXCEPT ![4] = Unit]
           new == Gathered(c.outputs, c.stale)
           blended == IF c.blend.enable THEN BlendTexel(new, old, c.blend) ELSE new
           texel == [k \in 1..4 |-> IF k \in c.mask THEN blended[k] ELSE old[k]]
<1>1. read \in [1..4 -> Int]
  BY ReadType
<1>2. Unit \in Int
  BY WordType, NumbersAssumption
<1>3. new \in [1..4 -> Int]
  BY GatheredType
<1> HIDE DEF read, new
<1>4. old \in [1..4 -> Int]
  BY <1>1, <1>2
<1> HIDE DEF old
<1>5. blended \in [1..4 -> Int]
  BY <1>3, <1>4, BlendTexelType
<1> HIDE DEF blended
<1>6. texel \in [1..4 -> Int]
  BY <1>4, <1>5
<1>7. FragmentBytes(f, bytes, c) = Write(f, texel)
  BY DEF FragmentBytes, texel, blended, old, new, read
<1> HIDE DEF texel
<1> QED  BY <1>6, <1>7, WriteType

-------------------------------------------------------------------------------
(* Levels, rows and texels are in memory                                     *)

(* The bytes of a level are inside the size of the image.                    *)
LEMMA LevelInSize ==
  ASSUME NEW img, IsShape(img), Fits32(img), NEW l \in 0..(img.levels - 1)
  PROVE  /\ Sums(LevelsOf(img))[l] \in Nat /\ LevelBytes(img, l) \in Nat /\ TotalSize(img) \in Nat
         /\ Sums(LevelsOf(img))[l] + LevelBytes(img, l) <= TotalSize(img)
<1> DEFINE a == LevelsOf(img)
<1>1. a \in [Nat -> Nat] /\ img.levels \in 1..32 /\ a[l] = LevelBytes(img, l)
  BY LevelsType
<1>2. AreSums(a, Sums(a))
  BY <1>1, SumsExist
<1>3. TotalSize(img) = Sums(a)[img.levels]
  <2>1. img.levels \in 0..img.levels
    BY <1>1
  <2> QED  BY <2>1, OffsetIsSum DEF TotalSize
<1> HIDE DEF a
<1>4. l \in Nat /\ l + 1 \in Nat /\ img.levels \in Nat /\ l + 1 <= img.levels
  BY <1>1
<1>5. Sums(a)[l + 1] <= Sums(a)[img.levels]
  BY <1>1, <1>4, SumsMonotone
<1>6. /\ Sums(a)[l] \in Nat /\ a[l] \in Nat /\ Sums(a)[img.levels] \in Nat
      /\ Sums(a)[l + 1] = Sums(a)[l] + a[l]
  BY <1>1, <1>2, <1>4 DEF AreSums
<1> QED  BY <1>1, <1>3, <1>5, <1>6 DEF a

(* Texels that follow each other in a row are inside their level.            *)
LEMMA RowInLevel ==
  ASSUME NEW img, IsShape(img), NEW l, NEW n, NEW x, NEW y, NEW z,
         InImage(img, l, n, x, y, z), NEW k \in Nat \ {0}, x + k <= Extent(img, 1, l)
  PROVE  /\ Within(img, l, n, x, y, z) \in Nat /\ k * ElementSize(img.format) \in Nat
         /\ Within(img, l, n, x, y, z) + k * ElementSize(img.format) <= LevelBytes(img, l)
<1> DEFINE w == Extent(img, 1, l)
           s == ElementSize(img.format)
           last1 == x + k - 1
           row == (z + n) * Extent(img, 2, l) + y
<1>1. /\ l \in 0..(img.levels - 1) /\ n \in 0..(img.layers - 1) /\ x \in 0..(w - 1)
      /\ y \in 0..(Extent(img, 2, l) - 1) /\ z \in 0..(Extent(img, 3, l) - 1)
  BY DEF InImage
<1>2. /\ w \in Nat \ {0} /\ s \in Nat \ {0} /\ LevelBytes(img, l) \in Nat
      /\ Extent(img, 2, l) \in Nat \ {0} /\ Extent(img, 3, l) \in Nat \ {0}
      /\ img.layers \in Nat \ {0}
  BY <1>1, LevelBytesType
<1>3. last1 \in 0..(w - 1) /\ s - 1 \in 0..(s - 1) /\ 0 \in 0..(s - 1)
  BY <1>1, <1>2
<1>4. Within(img, l, n, last1, y, z) + (s - 1) \in 0..(LevelBytes(img, l) - 1)
  BY <1>1, <1>3, TexelInLevel
<1>5. Within(img, l, n, x, y, z) \in Nat
  BY <1>1, <1>3, TexelInLevel
<1>6. /\ Within(img, l, n, last1, y, z) = (row * w + last1) * s
      /\ Within(img, l, n, x, y, z) = (row * w + x) * s
  BY DEF Within
<1>7. row \in Nat
  BY <1>1, <1>2
<1> HIDE DEF row, w, s
<1>8. row * w \in Nat /\ x \in Nat /\ k \in Nat
  BY <1>1, <1>2, <1>7
<1> DEFINE b == row * w
<1> HIDE DEF b
<1>9. (b + last1) * s = (b + x) * s + k * s - s /\ k * s \in Nat
  BY <1>2, <1>8 DEF b
<1> QED  BY <1>2, <1>4, <1>5, <1>6, <1>9 DEF b, s

-------------------------------------------------------------------------------
(* A resource is bound to an address in memory.                              *)
LEMMA ResourceMapped ==
  ASSUME address \in Placement, NEW m, Memory(m), NEW r \in Resource
  PROVE  address[r] \in Nat /\ Held(r) \subseteq DOMAIN m
<1>1. PICK i \in Contents : DOMAIN m = DOMAIN i
  BY DEF Memory
<1> QED  BY <1>1, MemoryAssumption DEF Held

(* A range of a buffer is among the bytes that it holds.                     *)
LEMMA BufferMapped ==
  ASSUME address \in Placement, NEW m, Memory(m), NEW b, NEW first, NEW n,
         InsideBuffer(b, first, n)
  PROVE  /\ b \in Buffer /\ address[b] \in Nat /\ first \in Nat /\ n \in Nat
         /\ Mapped(Held(b), address[b] + first, n)
<1>1. b \in Buffer /\ first \in Nat /\ n \in Nat /\ first + n <= BufferSize[b]
  BY DEF InsideBuffer, Inside
<1>2. b \notin Image /\ BufferSize[b] \in Nat
  <2>1. Image \cap Buffer = {} /\ BufferSize[b] \in 1..(Word - 1)
    BY <1>1, ApplicationAssumption
  <2> QED  BY <1>1, <2>1, WordType
<1>3. MemoryRequirements(b).size = BufferSize[b]
  BY <1>2 DEF MemoryRequirements
<1>4. address[b] \in Nat /\ Held(b) = address[b]..(address[b] + BufferSize[b] - 1)
  BY <1>1, <1>3, ResourceMapped DEF Resource, Held, Span
<1>5. ASSUME NEW a \in (address[b] + first)..(address[b] + first + n - 1)
      PROVE  a \in address[b]..(address[b] + BufferSize[b] - 1)
  BY <1>1, <1>2, <1>4
<1> QED  BY <1>1, <1>4, <1>5 DEF Mapped, Span

(* So are the bytes of a level of an image.                                  *)
LEMMA LevelMapped ==
  ASSUME address \in Placement, NEW m, Memory(m), NEW i \in Image,
         NEW l \in 0..(Info[i].levels - 1), NEW first \in Nat, NEW n \in Nat,
         first + n <= LevelBytes(Info[i], l)
  PROVE  /\ address[i] \in Nat /\ Sums(LevelsOf(Info[i]))[l] \in Nat
         /\ Mapped(Held(i), address[i] + (Sums(LevelsOf(Info[i]))[l] + first), n)
<1> DEFINE img == Info[i]
           start == Sums(LevelsOf(img))[l]
           total == TotalSize(img)
           bytes == LevelBytes(img, l)
<1>1. IsShape(img) /\ Fits32(img)
  BY ApplicationAssumption
<1>2. start \in Nat /\ bytes \in Nat /\ total \in Nat /\ start + bytes <= total
  BY <1>1, LevelInSize
<1>3. MemoryRequirements(i).size = total
  BY DEF MemoryRequirements
<1> HIDE DEF start, total, bytes
<1>4. address[i] \in Nat /\ Held(i) = address[i]..(address[i] + total - 1)
  BY <1>3, ResourceMapped DEF Resource, Held, Span
<1>5. first + n <= bytes
  BY DEF bytes
<1>6. ASSUME NEW a \in (address[i] + (start + first))..(address[i] + (start + first) + n - 1)
      PROVE  a \in address[i]..(address[i] + total - 1)
  BY <1>2, <1>4, <1>5
<1> QED  BY <1>2, <1>4, <1>6 DEF Mapped, Span, start

(* So are the texels of a row from one on.                                   *)
LEMMA RowMapped ==
  ASSUME address \in Placement, NEW m, Memory(m), NEW i \in Image, NEW l, NEW n,
         NEW x, NEW y, NEW z, InImage(Info[i], l, n, x, y, z), NEW k \in Nat \ {0}, x + k <= Extent(Info[i], 1, l)
  PROVE  Mapped(Held(i), address[i] + (Sums(LevelsOf(Info[i]))[l] + Within(Info[i], l, n, x, y, z)),
                k * ElementSize(Info[i].format))
<1>1. IsShape(Info[i]) /\ Fits32(Info[i])
  BY ApplicationAssumption
<1>2. l \in 0..(Info[i].levels - 1)
  BY DEF InImage
<1>3. /\ Within(Info[i], l, n, x, y, z) \in Nat /\ k * ElementSize(Info[i].format) \in Nat
      /\ Within(Info[i], l, n, x, y, z) + k * ElementSize(Info[i].format) <= LevelBytes(Info[i], l)
  BY <1>1, RowInLevel
<1> QED  BY <1>2, <1>3, LevelMapped

(* So is a texel, where getTexelAddress finds it.                            *)
LEMMA TexelMapped ==
  ASSUME address \in Placement, NEW m, Memory(m), NEW i \in Image, NEW l, NEW n, NEW xyz,
         InImage(Info[i], l, n, xyz[1], xyz[2], xyz[3])
  PROVE  Mapped(Held(i), address[i] + TexelOffset(Info[i], xyz, n, l), ElementSize(Info[i].format))
<1> DEFINE img == Info[i]
           s == ElementSize(img.format)
<1>1. IsShape(img) /\ Fits32(img)
  BY ApplicationAssumption
<1>2. /\ l \in 0..(img.levels - 1) /\ xyz[1] \in 0..(Extent(img, 1, l) - 1)
  BY DEF InImage
<1>3. Extent(img, 1, l) \in Nat \ {0} /\ s \in Nat \ {0}
  BY <1>1, <1>2, LevelBytesType
<1>4. xyz[1] + 1 <= Extent(img, 1, l) /\ 1 * s = s /\ 1 \in Nat \ {0}
  BY <1>2, <1>3
<1>5. TexelOffset(img, xyz, n, l)
        = Sums(LevelsOf(img))[l] + Within(img, l, n, xyz[1], xyz[2], xyz[3])
  BY <1>1, OffsetIs
<1>6. Mapped(Held(i), address[i] + (Sums(LevelsOf(img))[l]
                                      + Within(img, l, n, xyz[1], xyz[2], xyz[3])), 1 * s)
  BY <1>4, RowMapped
<1> HIDE DEF img, s
<1> QED  BY <1>4, <1>5, <1>6 DEF img, s

-------------------------------------------------------------------------------
(* Views are of what is in memory                                            *)

(* The image that a buffer view makes has a row of texels, and no more bytes *)
(* than the range of the view.                                               *)
LEMMA BufferImage ==
  ASSUME NEW v \in View, ViewInfo[v].of \notin Image
  PROVE  /\ IsShape(ViewImage(v)) /\ Fits32(ViewImage(v))
         /\ LevelBytes(ViewImage(v), 0) <= ViewBytes(v)
         /\ InsideBuffer(ViewInfo[v].of, ViewInfo[v].offset, ViewBytes(v))
         /\ ViewImage(v).levels = 1 /\ ViewImage(v).layers = 1 /\ ViewBytes(v) \in Nat
         /\ ViewImage(v).format = ViewInfo[v].format
<1> DEFINE c == ViewInfo[v]
           img == ViewImage(v)
           s == ElementSize(c.format)
           bytes == ViewBytes(v)
           q == bytes \div s
<1>1. /\ IsFormat(c.format) /\ InsideBuffer(c.of, c.offset, bytes) /\ bytes >= s
  BY ApplicationAssumption DEF IsView
<1>2. bytes \in Nat /\ c.of \in Buffer /\ c.offset \in Nat /\ c.offset + bytes <= BufferSize[c.of]
  BY <1>1 DEF InsideBuffer, Inside
<1>3. bytes < Word
  <2>1. BufferSize[c.of] \in 1..(Word - 1)
    BY <1>2, ApplicationAssumption
  <2> QED  BY <1>2, <2>1, WordType
<1>4. img = [format |-> c.format, layers |-> 1, levels |-> 1, extent |-> <<q, 1, 1>>]
  BY DEF ViewImage
<1>5. s \in Nat \ {0}
  BY <1>1, ElementSizeType
<1> HIDE DEF s, bytes, c
<1>6. q \in Nat \ {0} /\ q * s <= bytes
  <2>1. q \in Int /\ bytes % s \in 0..(s - 1) /\ bytes = s * q + (bytes % s)
    BY <1>2, <1>5, DivideIs
  <2> HIDE DEF q
  <2>2. q > 0
    <3> SUFFICES ASSUME q <= 0 PROVE FALSE
      BY <2>1
    <3>1. s * (-q) \in Nat /\ s * q = -(s * (-q))
      BY <1>5, <2>1
    <3> QED  BY <1>1, <1>2, <1>5, <2>1, <3>1 DEF s, bytes, c
  <2>3. q * s = s * q
    BY <1>5, <2>1
  <2> QED  BY <1>2, <1>5, <2>1, <2>2, <2>3
<1> HIDE DEF q, img
<1>7. /\ img.format = c.format /\ img.layers = 1 /\ img.levels = 1
      /\ img.extent[1] = q /\ img.extent[2] = 1 /\ img.extent[3] = 1
  BY <1>4
<1>8. IsShape(img)
  <2>1. \A axis \in 1..3 : img.extent[axis] \in Nat \ {0}
    BY <1>6, <1>7
  <2> QED  BY <1>1, <1>7, <2>1 DEF IsShape, c
<1>9. /\ Extent(img, 1, 0) = q /\ Extent(img, 2, 0) = 1 /\ Extent(img, 3, 0) = 1
      /\ LevelSize(img, 1, 0) = q /\ LevelSize(img, 2, 0) = 1 /\ LevelSize(img, 3, 0) = 1
  <2>1. 2^0 = 1 /\ q \div 1 = q /\ 1 \div 1 = 1
    BY <1>6
  <2>2. Extent(img, 1, 0) = q /\ Extent(img, 2, 0) = 1 /\ Extent(img, 3, 0) = 1
    BY <1>6, <1>7, <2>1 DEF Extent
  <2>3. 0 \in 0..(img.levels - 1)
    BY <1>7
  <2> QED  BY <1>8, <2>2, <2>3, ExtentType
<1>10. LevelBytes(img, 0) = q * s
  <2>1. LevelBytes(img, 0) = (((1 * 1) * 1) * q) * s
    BY <1>7, <1>9 DEF LevelBytes, Planes, s
  <2> QED  BY <1>5, <1>6, <2>1
<1>11. Fits32(img)
  <2> SUFFICES ASSUME NEW l \in 0..(img.levels - 1)
               PROVE  LevelSize(img, 1, l) * LevelSize(img, 2, l) * LevelSize(img, 3, l)
                        * img.layers * ElementSize(img.format) < Word
    BY DEF Fits32
  <2>1. l = 0
    BY <1>7
  <2>2. LevelSize(img, 1, l) * LevelSize(img, 2, l) * LevelSize(img, 3, l)
          * img.layers * ElementSize(img.format) = q * 1 * 1 * 1 * s
    BY <1>7, <1>9, <2>1 DEF s
  <2> QED  BY <1>2, <1>3, <1>5, <1>6, <2>2, WordType
<1> QED  BY <1>1, <1>2, <1>6, <1>7, <1>8, <1>10, <1>11 DEF img, bytes, c

(* The texel of a view is one of the levels and layers of its image.         *)
LEMMA ViewInImage ==
  ASSUME NEW v, NEW xyz, NEW layer, NEW level, InsideView(v, xyz, layer, level)
  PROVE  /\ v \in View /\ IsFormat(ViewInfo[v].format)
         /\ InImage(ViewImage(v), ViewInfo[v].level + level, ViewInfo[v].layer + layer,
                    xyz[1], xyz[2], xyz[3])
         /\ ElementSize(ViewImage(v).format) = ElementSize(ViewInfo[v].format)
         /\ ViewInfo[v].of \notin Image => ViewInfo[v].level + level = 0
<1> DEFINE c == ViewInfo[v]
           img == ViewImage(v)
<1>1. /\ v \in View /\ level \in Nat /\ c.level + level < img.levels
      /\ layer \in 0..(ViewLayers(v) - 1)
      /\ \A a \in 1..3 : xyz[a] \in 0..(Extent(img, a, c.level + level) - 1)
  BY DEF InsideView, ViewExtent
<1>2. IsView(v)
  BY <1>1, ApplicationAssumption
<1>3. CASE c.of \in Image
  <2>1. /\ IsFormat(c.format) /\ ElementSize(c.format) = ElementSize(Info[c.of].format)
        /\ c.level \in 0..(Info[c.of].levels - 1) /\ c.layer \in 0..(Info[c.of].layers - 1)
        /\ c.layers = Rest \/ (c.layers > 0 /\ Inside(c.layer, c.layers, Info[c.of].layers))
    BY <1>2, <1>3 DEF IsView
  <2>2. img = Info[c.of]
    BY <1>3 DEF ViewImage
  <2>3. img.levels \in 1..32 /\ img.layers \in Nat \ {0}
    BY <1>3, <2>2, ApplicationAssumption DEF IsShape
  <2>4. ViewLayers(v) = IF c.layers = Rest THEN img.layers - c.layer ELSE c.layers
    BY DEF ViewLayers
  <2> HIDE DEF c, img
  <2>5. c.layer \in Nat /\ ViewLayers(v) \in Int /\ c.layer + ViewLayers(v) <= img.layers
    BY <2>1, <2>2, <2>3, <2>4 DEF Inside
  <2>6. c.layer + layer \in 0..(img.layers - 1)
    BY <1>1, <2>3, <2>5
  <2>7. c.level + level \in 0..(img.levels - 1)
    BY <1>1, <2>1, <2>2, <2>3
  <2>8. InImage(img, c.level + level, c.layer + layer, xyz[1], xyz[2], xyz[3])
    BY <1>1, <2>6, <2>7 DEF InImage
  <2> QED  BY <1>1, <1>3, <2>1, <2>2, <2>8 DEF c, img
<1>4. CASE c.of \notin Image
  <2>1. IsFormat(c.format) /\ c.level = 0 /\ c.layer = 0 /\ c.layers = 1
    BY <1>2, <1>4 DEF IsView
  <2>2. img.levels = 1 /\ img.layers = 1 /\ img.format = c.format
    BY <1>1, <1>4, BufferImage
  <2>3. ViewLayers(v) = 1
    BY <2>1 DEF ViewLayers, Rest
  <2> HIDE DEF c, img
  <2>4. level = 0 /\ layer = 0 /\ c.level + level = 0 /\ c.layer + layer = 0
    BY <1>1, <2>1, <2>2, <2>3
  <2>5. InImage(img, c.level + level, c.layer + layer, xyz[1], xyz[2], xyz[3])
    BY <1>1, <2>2, <2>4 DEF InImage
  <2> QED  BY <1>1, <2>1, <2>2, <2>4, <2>5 DEF c, img
<1> QED  BY <1>3, <1>4

(* The texel of a view is among the bytes of what the view is of.            *)
LEMMA ViewMapped ==
  ASSUME address \in Placement, NEW m, Memory(m), NEW v, NEW xyz, NEW layer, NEW level,
         InsideView(v, xyz, layer, level)
  PROVE  Mapped(Held(ViewInfo[v].of), ViewAddress(v, xyz, layer, level),
                ElementSize(ViewInfo[v].format))
<1> DEFINE c == ViewInfo[v]
           img == ViewImage(v)
           n == c.layer + layer
           l == c.level + level
           s == ElementSize(c.format)
           offset == TexelOffset(img, xyz, n, l)
<1>1. /\ v \in View /\ IsFormat(c.format) /\ InImage(img, l, n, xyz[1], xyz[2], xyz[3])
      /\ ElementSize(img.format) = s /\ (c.of \notin Image => l = 0)
  BY ViewInImage
<1>2. ViewAddress(v, xyz, layer, level) = ViewStart(v) + offset
  BY DEF ViewAddress
<1>3. CASE c.of \in Image
  <2>1. img = Info[c.of] /\ ViewStart(v) = address[c.of]
    BY <1>3 DEF ViewImage, ViewStart
  <2> HIDE DEF c, n, l, s
  <2>2. Mapped(Held(c.of), address[c.of] + TexelOffset(Info[c.of], xyz, n, l),
               ElementSize(Info[c.of].format))
    BY <1>1, <1>3, <2>1, TexelMapped
  <2> QED  BY <1>1, <1>2, <2>1, <2>2 DEF s, c
<1>4. CASE c.of \notin Image
  <2> DEFINE bytes == ViewBytes(v)
             there == Within(img, l, n, xyz[1], xyz[2], xyz[3])
  <2>1. /\ IsShape(img) /\ Fits32(img) /\ LevelBytes(img, 0) <= bytes /\ bytes \in Nat
        /\ InsideBuffer(c.of, c.offset, bytes)
    BY <1>1, <1>4, BufferImage
  <2>2. ViewStart(v) = address[c.of] + c.offset
    BY <1>4 DEF ViewStart
  <2>3. l = 0
    BY <1>1, <1>4
  <2> HIDE DEF c, n, l, s, bytes
  <2>4. offset = Sums(LevelsOf(img))[0] + there
    BY <1>1, <2>1, <2>3, OffsetIs
  <2>5. Sums(LevelsOf(img))[0] = 0
    BY <2>1, LevelsType, SumsExist DEF AreSums
  <2>6. /\ s \in Nat \ {0} /\ Extent(img, 1, 0) \in Nat \ {0} /\ LevelBytes(img, 0) \in Nat
    BY <1>1, <2>1, <2>3, LevelBytesType DEF InImage
  <2>7. there \in Nat /\ there + 1 * s <= LevelBytes(img, 0)
    <3>1. xyz[1] + 1 <= Extent(img, 1, 0) /\ 1 \in Nat \ {0}
      BY <1>1, <2>3, <2>6 DEF InImage
    <3> QED  BY <1>1, <2>1, <2>3, <3>1, RowInLevel
  <2> HIDE DEF there, offset, img
  <2>8. offset = there /\ there + s <= bytes
    BY <2>1, <2>4, <2>5, <2>6, <2>7
  <2>9. /\ c.of \in Buffer /\ address[c.of] \in Nat /\ c.offset \in Nat
        /\ c.offset + bytes <= BufferSize[c.of]
    BY <2>1, BufferMapped DEF InsideBuffer, Inside
  <2>10. BufferSize[c.of] \in Nat
    <3>1. BufferSize[c.of] \in 1..(Word - 1)
      BY <2>9, ApplicationAssumption
    <3> QED  BY <3>1, WordType
  <2>11. InsideBuffer(c.of, c.offset + there, s)
    BY <2>1, <2>6, <2>7, <2>8, <2>9, <2>10 DEF InsideBuffer, Inside
  <2>12. Mapped(Held(c.of), address[c.of] + (c.offset + there), s)
    BY <2>11, BufferMapped
  <2>13. address[c.of] + (c.offset + there) = (address[c.of] + c.offset) + offset
    BY <2>7, <2>8, <2>9
  <2> QED  BY <1>2, <2>2, <2>12, <2>13 DEF s, c, offset
<1> QED  BY <1>3, <1>4

-------------------------------------------------------------------------------
(* Copies                                                                    *)

(* A region of a copy between buffers changes bytes of the destination.      *)
LEMMA CopyBufferType ==
  ASSUME address \in Placement, NEW m, Memory(m), NEW c, NEW r,
         InsideBuffer(c.src, r.srcOffset, r.size), InsideBuffer(c.dst, r.dstOffset, r.size)
  PROVE  ChangesOnly(Held(c.dst), m, CopyBufferRegion(m, c, r))
<1> DEFINE line == [to |-> address[c.dst] + r.dstOffset,
                    from |-> address[c.src] + r.srcOffset, n |-> r.size]
<1>1. Mapped(Held(c.dst), address[c.dst] + r.dstOffset, r.size)
  BY BufferMapped
<1>2. Mapped(Held(c.src), address[c.src] + r.srcOffset, r.size)
  BY BufferMapped
<1>3. AreLines(Held(c.dst), Held(c.src), {line})
  BY <1>1, <1>2 DEF AreLines
<1>4. CopyBufferRegion(m, c, r) = Copied(m, {line})
  BY DEF CopyBufferRegion
<1> HIDE DEF line
<1> QED  BY <1>3, <1>4, CopiedType

\* Where the code starts a line, and where its first texel is.
StartsAtTexel(x, y, z, n, j, k, w, h, d, s) ==
  (x + (y + z * h) * w) * s + (w * h * d * s) * n + (k * h + j) * w * s
    = (((z + k + n) * h + (y + j)) * w + x) * s
(* Where a line of a copy starts in its level: layers are as far apart as    *)
(* the slices of a level, of which there is one if there are layers.         *)
LEMMA LineInLevel ==
  ASSUME NEW x \in Nat, NEW y \in Nat, NEW z \in Nat, NEW n \in Nat, NEW j \in Nat, NEW k \in Nat,
         NEW w \in Nat \ {0}, NEW h \in Nat \ {0}, NEW d \in Nat \ {0}, NEW s \in Nat \ {0},
         n = 0 \/ d = 1
  PROVE  StartsAtTexel(x, y, z, n, j, k, w, h, d, s)
<1>1. (w * h * d * s) * n = w * h * s * n
  <2>1. CASE n = 0
    <3>1. w * h * d * s \in Nat /\ w * h * s \in Nat
      OBVIOUS
    <3> QED  BY <2>1, <3>1
  <2>2. CASE d = 1
    BY <2>2
  <2> QED  BY <2>1, <2>2
<1>2. (x + (y + z * h) * w) * s + w * h * s * n + (k * h + j) * w * s
        = (((z + k + n) * h + (y + j)) * w + x) * s
  OBVIOUS
<1>3. /\ (x + (y + z * h) * w) * s \in Int /\ (k * h + j) * w * s \in Int
  OBVIOUS
<1> QED  BY <1>1, <1>2 DEF StartsAtTexel

(* Where it ends in the buffer.                                              *)
LEMMA LineInBuffer ==
  ASSUME NEW w \in Nat, NEW h \in Nat, NEW s \in Nat \ {0}, NEW e1 \in Nat, NEW e2 \in Nat \ {0},
         NEW slices \in Nat \ {0}, NEW l \in Nat, NEW z \in Nat, NEW y \in Nat,
         l + z <= slices - 1, y <= e2 - 1
  PROVE  /\ w * h * s * l + (z * h + y) * w * s \in Nat /\ e1 * s \in Nat
         /\ w * h * s * l + (z * h + y) * w * s + e1 * s
              <= (w * ((h * (slices - 1) + e2) - 1) + e1) * s
         /\ (w * ((h * (slices - 1) + e2) - 1) + e1) * s \in Nat
<1> DEFINE a == h * (l + z) + y
           b == (h * (slices - 1) + e2) - 1
<1>1. w * h * s * l + (z * h + y) * w * s = (w * a) * s
  OBVIOUS
<1>2. a \in Nat
  OBVIOUS
<1>3. b \in Nat /\ b - a \in Nat
  <2>1. h * ((slices - 1) - (l + z)) \in Nat /\ h * (slices - 1) \in Nat
    OBVIOUS
  <2>2. h * ((slices - 1) - (l + z)) = h * (slices - 1) - h * (l + z)
    OBVIOUS
  <2> QED  BY <2>1, <2>2
<1> HIDE DEF a, b
<1>4. w * (b - a) \in Nat /\ w * (b - a) = w * b - w * a /\ w * a \in Nat /\ w * b \in Nat
  BY <1>2, <1>3
<1>5. (w * (b - a)) * s \in Nat /\ (w * a) * s \in Nat /\ (w * b) * s \in Nat /\ e1 * s \in Nat
  BY <1>4
<1>6. (w * (b - a)) * s = (w * b) * s - (w * a) * s
  BY <1>2, <1>3, <1>4
<1>7. (w * b + e1) * s = (w * b) * s + e1 * s
  BY <1>4
<1> QED  BY <1>1, <1>5, <1>6, <1>7 DEF b

(* A line of a copy between a buffer and an image is inside both.            *)
LEMMA ScanlinesMapped ==
  ASSUME address \in Placement, NEW m, Memory(m), NEW b, NEW i, NEW r, InsideBoth(b, i, r),
         NEW line \in Scanlines(b, i, r)
  PROVE  Mapped(Held(b), line.buffer, line.n) /\ Mapped(Held(i), line.image, line.n)
<1> DEFINE img == Info[i]
           s == ElementSize(img.format)
           w == Extent(img, 1, r.level)
           h == Extent(img, 2, r.level)
           d == Extent(img, 3, r.level)
           bw == IF r.rowLength = 0 THEN r.extent[1] ELSE r.rowLength
           bh == IF r.imageHeight = 0 THEN r.extent[2] ELSE r.imageHeight
           x == r.xyz[1]
           e1 == r.extent[1]
           e2 == r.extent[2]
           e3 == r.extent[3]
           slices == r.layers * e3
           texels == bw * ((bh * (slices - 1) + e2) - 1) + e1
           corner == (x + (r.xyz[2] + r.xyz[3] * h) * w) * s
           layerSize == w * h * d * s
<1>1. PICK l \in Span(0, r.layers), z \in Span(0, e3), y \in Span(0, e2) :
        line = [buffer |-> address[b] + r.offset + LayerStride(r, bw, bh) * s * l
                             + (z * bh + y) * bw * s,
                image |-> address[i] + MipLevelOffset(img, r.level) + corner
                            + layerSize * (r.layer + l) + (z * h + y) * w * s,
                n |-> e1 * s]
  BY DEF Scanlines
<1>2. /\ line.buffer = address[b] + r.offset + (bw * bh) * s * l + (z * bh + y) * bw * s
      /\ line.image = address[i] + MipLevelOffset(img, r.level) + corner
                        + layerSize * (r.layer + l) + (z * h + y) * w * s
      /\ line.n = e1 * s
  BY <1>1 DEF LayerStride
<1>3. /\ InsideImage(i, r.level, r.layer, r.layers, r.xyz, r.extent)
      /\ r.layers > 0 /\ (\A a \in 1..3 : r.extent[a] > 0)
      /\ bw \in Nat /\ bh \in Nat /\ InsideBuffer(b, r.offset, texels * s)
  BY DEF InsideBoth
<1>4. i \in Image /\ IsShape(img) /\ Fits32(img)
  BY <1>3, ApplicationAssumption DEF InsideImage
<1>5. /\ r.level \in 0..(img.levels - 1) /\ r.layer \in Nat /\ r.layers \in Nat \ {0}
      /\ r.layer + r.layers <= img.layers
      /\ x \in Nat /\ r.xyz[2] \in Nat /\ r.xyz[3] \in Nat
      /\ e1 \in Nat \ {0} /\ e2 \in Nat \ {0} /\ e3 \in Nat \ {0}
      /\ x + e1 <= w /\ r.xyz[2] + e2 <= h /\ r.xyz[3] + e3 <= d
  BY <1>3 DEF InsideImage, Inside
<1>6. /\ w \in Nat \ {0} /\ h \in Nat \ {0} /\ d \in Nat \ {0} /\ s \in Nat \ {0}
      /\ img.layers \in Nat \ {0} /\ (img.layers = 1 \/ d = 1)
  BY <1>4, <1>5, LevelBytesType
<1>7. l \in Nat /\ z \in Nat /\ y \in Nat /\ l < r.layers /\ z < e3 /\ y < e2
  BY <1>5 DEF Span
<1>8. slices \in Nat \ {0} /\ l + z <= slices - 1 /\ (r.layer + l = 0 \/ d = 1)
  <2>1. CASE img.layers = 1
    <3>1. r.layers = 1 /\ r.layer = 0 /\ l = 0
      BY <1>5, <1>7, <2>1
    <3>2. slices = e3
      BY <1>5, <3>1
    <3> HIDE DEF slices
    <3> QED  BY <1>5, <1>7, <3>1, <3>2
  <2>2. CASE d = 1
    <3>1. e3 = 1 /\ z = 0
      BY <1>5, <1>7, <2>2
    <3>2. slices = r.layers
      BY <1>5, <3>1
    <3> HIDE DEF slices
    <3> QED  BY <1>5, <1>7, <2>2, <3>1, <3>2
  <2> QED  BY <1>6, <2>1, <2>2
<1> HIDE DEF slices
<1>9. Mapped(Held(b), line.buffer, line.n)
  <2> DEFINE off == (bw * bh) * s * l + (z * bh + y) * bw * s
             all == texels * s
             n == e1 * s
  <2>1. off \in Nat /\ n \in Nat /\ off + n <= all /\ all \in Nat
    <3>1. y <= e2 - 1
      BY <1>5, <1>7
    <3> HIDE DEF bw, bh, s, e1, e2
    <3> QED  BY <1>3, <1>5, <1>6, <1>7, <1>8, <3>1, LineInBuffer
  <2>2. address[b] \in Nat /\ r.offset \in Nat /\ b \in Buffer
    BY <1>3, BufferMapped
  <2>3. line.buffer = address[b] + (r.offset + off) /\ line.n = n
    <3>1. line.buffer = ((address[b] + r.offset) + (bw * bh) * s * l) + (z * bh + y) * bw * s
      BY <1>2
    <3>2. (bw * bh) * s * l \in Int /\ (z * bh + y) * bw * s \in Int
      BY <1>3, <1>6, <1>7
    <3> QED  BY <1>2, <2>2, <3>1, <3>2
  <2> HIDE DEF off, all, n
  <2>4. r.offset + all <= BufferSize[b] /\ BufferSize[b] \in Nat
    <3>1. BufferSize[b] \in 1..(Word - 1)
      BY <2>2, ApplicationAssumption
    <3> QED  BY <1>3, <3>1, WordType DEF InsideBuffer, Inside, all
  <2>5. InsideBuffer(b, r.offset + off, n)
    BY <2>1, <2>2, <2>4 DEF InsideBuffer, Inside
  <2> QED  BY <2>3, <2>5, BufferMapped
<1>10. Mapped(Held(i), line.image, line.n)
  <2> DEFINE n == r.layer + l
             v == r.xyz[2] + y
             u == r.xyz[3] + z
             start == Sums(LevelsOf(img))[r.level]
             there == Within(img, r.level, n, x, v, u)
  <2>1. n \in 0..(img.layers - 1) /\ v \in 0..(h - 1) /\ u \in 0..(d - 1) /\ x \in 0..(w - 1)
    BY <1>5, <1>6, <1>7
  <2>2. InImage(img, r.level, n, x, v, u)
    BY <1>5, <2>1 DEF InImage
  <2>3. Mapped(Held(i), address[i] + (start + there), e1 * s)
    BY <1>4, <1>5, <2>2, RowMapped
  <2>4. MipLevelOffset(img, r.level) = start
    <3>1. r.level \in 0..img.levels
      <4>1. img.levels \in 1..32
        BY <1>4, LevelsType
      <4> HIDE DEF img
      <4> QED  BY <1>5, <4>1
    <3> QED  BY <1>4, <3>1, OffsetIsSum
  <2>5. start \in Nat
    BY <1>4, <1>5, LevelInSize
  <2>6. there = ((((r.xyz[3] + z) + n) * h + (r.xyz[2] + y)) * w + x) * s
    BY DEF Within
  <2>7. corner + layerSize * n + (z * h + y) * w * s
          = (((r.xyz[3] + z + n) * h + (r.xyz[2] + y)) * w + x) * s
    <3>1. n \in Nat /\ (n = 0 \/ d = 1)
      BY <1>5, <1>7, <1>8
    <3>2. /\ x \in Nat /\ r.xyz[2] \in Nat /\ r.xyz[3] \in Nat /\ y \in Nat /\ z \in Nat
          /\ w \in Nat \ {0} /\ h \in Nat \ {0} /\ d \in Nat \ {0} /\ s \in Nat \ {0}
      BY <1>5, <1>6, <1>7
    <3> HIDE DEF n, w, h, d, s, x
    <3>3. StartsAtTexel(x, r.xyz[2], r.xyz[3], n, y, z, w, h, d, s)
      BY <3>1, <3>2, LineInLevel
    <3> QED  BY <3>3, Zenon DEF StartsAtTexel
  <2>8. corner \in Int /\ layerSize * n \in Int /\ (z * h + y) * w * s \in Int
    <3>1. n \in Nat
      BY <1>5, <1>7
    <3> HIDE DEF n, w, h, d, s, x
    <3>2. corner \in Int
      BY <1>5, <1>6
    <3>3. layerSize * n \in Int
      BY <1>6, <3>1
    <3> QED  BY <1>6, <1>7, <3>2, <3>3
  <2>9. address[i] \in Nat
    BY <1>4, ResourceMapped DEF Resource
  <2> DEFINE p == layerSize * n
             q == (z * h + y) * w * s
  <2>10. line.image = address[i] + start + corner + p + q
    BY <1>2, <2>4
  <2> HIDE DEF corner, start, there, p, q
  <2>11. corner + p + q = there
    BY <2>6, <2>7 DEF p, q
  <2>12. line.image = address[i] + (start + there)
    BY <2>5, <2>8, <2>9, <2>10, <2>11 DEF p, q
  <2> QED  BY <1>2, <2>3, <2>12
<1> QED  BY <1>9, <1>10

(* So copies between a buffer and an image change bytes of the destination.  *)
LEMMA CopyLinesType ==
  ASSUME address \in Placement, NEW m, Memory(m), NEW c, NEW r
  PROVE  /\ InsideBoth(c.src, c.dst, r) =>
              ChangesOnly(Held(c.dst), m, CopyBufferToImageRegion(m, c, r))
         /\ InsideBoth(c.dst, c.src, r) =>
              ChangesOnly(Held(c.dst), m, CopyImageToBufferRegion(m, c, r))
<1>1. ASSUME InsideBoth(c.src, c.dst, r)
      PROVE  ChangesOnly(Held(c.dst), m, CopyBufferToImageRegion(m, c, r))
  <2> DEFINE lines == {[to |-> l.image, from |-> l.buffer, n |-> l.n] :
                      l \in Scanlines(c.src, c.dst, r)}
  <2>1. AreLines(Held(c.dst), Held(c.src), lines)
    <3> SUFFICES ASSUME NEW l \in Scanlines(c.src, c.dst, r)
                 PROVE  Mapped(Held(c.dst), l.image, l.n) /\ Mapped(Held(c.src), l.buffer, l.n)
      BY DEF AreLines
    <3> QED  BY <1>1, ScanlinesMapped
  <2> QED  BY <2>1, CopiedType DEF CopyBufferToImageRegion
<1>2. ASSUME InsideBoth(c.dst, c.src, r)
      PROVE  ChangesOnly(Held(c.dst), m, CopyImageToBufferRegion(m, c, r))
  <2> DEFINE lines == {[to |-> l.buffer, from |-> l.image, n |-> l.n] :
                      l \in Scanlines(c.dst, c.src, r)}
  <2>1. AreLines(Held(c.dst), Held(c.src), lines)
    <3> SUFFICES ASSUME NEW l \in Scanlines(c.dst, c.src, r)
                 PROVE  Mapped(Held(c.dst), l.buffer, l.n) /\ Mapped(Held(c.src), l.image, l.n)
      BY DEF AreLines
    <3> QED  BY <1>2, ScanlinesMapped
  <2> QED  BY <2>1, CopiedType DEF CopyImageToBufferRegion
<1> QED  BY <1>1, <1>2

(* A line of a copy between images, which is of level 0 and layer 0, is      *)
(* inside the image, whichever layer the region names.                       *)
LEMMA LineOfImage ==
  ASSUME address \in Placement, NEW m, Memory(m), NEW i, NEW layer, NEW xyz, NEW extent,
         InsideImage(i, 0, layer, 1, xyz, extent),
         NEW y \in Span(0, extent[2]), NEW z \in Span(0, extent[3])
  PROVE  Mapped(Held(i),
                address[i] + (xyz[1] + (xyz[2] + y + (xyz[3] + z) * Extent(Info[i], 2, 0))
                                         * Extent(Info[i], 1, 0)) * ElementSize(Info[i].format),
                extent[1] * ElementSize(Info[i].format))
<1> DEFINE img == Info[i]
           s == ElementSize(img.format)
           w == Extent(img, 1, 0)
           h == Extent(img, 2, 0)
           d == Extent(img, 3, 0)
           x == xyz[1]
           v == xyz[2] + y
           u == xyz[3] + z
           e == extent[1]
           off == (x + (v + u * h) * w) * s
<1>1. i \in Image /\ IsShape(img) /\ Fits32(img) /\ 0 \in 0..(img.levels - 1)
  BY ApplicationAssumption DEF InsideImage
<1>2. /\ x \in Nat /\ xyz[2] \in Nat /\ xyz[3] \in Nat
      /\ e \in Nat /\ extent[2] \in Nat /\ extent[3] \in Nat
      /\ x + e <= w /\ xyz[2] + extent[2] <= h /\ xyz[3] + extent[3] <= d
  BY DEF InsideImage, Inside
<1>3. w \in Nat \ {0} /\ h \in Nat \ {0} /\ d \in Nat \ {0} /\ s \in Nat \ {0} /\ img.layers \in Nat \ {0}
  BY <1>1, LevelBytesType
<1>4. v \in 0..(h - 1) /\ u \in 0..(d - 1)
  BY <1>2, <1>3 DEF Span
<1>5. address[i] \in Nat
  BY <1>1, ResourceMapped DEF Resource
<1>6. off \in Nat
  <2> HIDE DEF v, u, w, h, s, x
  <2>1. v \in Nat /\ u \in Nat
    BY <1>3, <1>4
  <2>2. (v + u * h) * w \in Nat
    BY <1>3, <2>1
  <2> QED  BY <1>2, <1>3, <2>2
<1>7. CASE e = 0
  <2> HIDE DEF off, s
  <2>1. e * s = 0 /\ address[i] + off \in Int
    BY <1>3, <1>5, <1>6, <1>7
  <2>2. Span(address[i] + off, 0) = {}
    BY <2>1 DEF Span
  <2>3. Mapped(Held(i), address[i] + off, 0)
    BY <2>1, <2>2 DEF Mapped
  <2> QED  BY <2>1, <2>3 DEF off, s
<1>8. CASE e # 0
  <2>1. InImage(img, 0, 0, x, v, u)
    <3>1. x \in 0..(w - 1) /\ 0 \in 0..(img.layers - 1)
      <4> HIDE DEF x, w, e, img
      <4> QED  BY <1>2, <1>3, <1>8
    <3> QED  BY <1>1, <1>4, <3>1 DEF InImage
  <2> DEFINE there == Within(img, 0, 0, x, v, u)
             start == Sums(LevelsOf(img))[0]
  <2>2. Mapped(Held(i), address[i] + (start + there), e * s)
    BY <1>1, <1>2, <1>8, <2>1, RowMapped
  <2>3. start = 0
    BY <1>1, LevelsType, SumsExist DEF AreSums
  <2>4. there = (((u + 0) * h + v) * w + x) * s
    BY DEF Within
  <2> HIDE DEF there, start, v, u, w, h, s, x
  <2>5. v \in Nat /\ u \in Nat
    BY <1>3, <1>4
  <2>6. (((u + 0) * h + v) * w + x) * s = off
    BY <1>2, <1>3, <2>5
  <2>7. start + there = off
    BY <1>6, <2>3, <2>4, <2>6
  <2> QED  BY <2>2, <2>7 DEF v, u, w, h, s, x
<1> QED  BY <1>7, <1>8

(* A region of a copy between images changes bytes of the destination.       *)
LEMMA CopyImageType ==
  ASSUME address \in Placement, NEW m, Memory(m), NEW c, NEW r,
         InsideImage(c.src, 0, 0, 1, r.srcXyz, r.extent),
         InsideImage(c.dst, 0, r.dstLayer, 1, r.dstXyz, r.extent),
         ElementSize(Info[c.src].format) = ElementSize(Info[c.dst].format)
  PROVE  ChangesOnly(Held(c.dst), m, CopyImageRegion(m, c, r))
<1> DEFINE size == ElementSize(Info[c.src].format)
           line(i, xyz, y, z) ==
             address[i] + (xyz[1] + (xyz[2] + y + (xyz[3] + z) * Extent(Info[i], 2, 0))
                                       * Extent(Info[i], 1, 0)) * size
           lines == {[to |-> line(c.dst, r.dstXyz, y, z),
                      from |-> line(c.src, r.srcXyz, y, z), n |-> r.extent[1] * size] :
                     z \in Span(0, r.extent[3]), y \in Span(0, r.extent[2])}
<1>1. CopyImageRegion(m, c, r) = Copied(m, lines)
  BY DEF CopyImageRegion
<1>2. ASSUME NEW z \in Span(0, r.extent[3]), NEW y \in Span(0, r.extent[2])
      PROVE  /\ Mapped(Held(c.src), line(c.src, r.srcXyz, y, z), r.extent[1] * size)
             /\ Mapped(Held(c.dst), line(c.dst, r.dstXyz, y, z), r.extent[1] * size)
  <2>1. Mapped(Held(c.src), line(c.src, r.srcXyz, y, z), r.extent[1] * size)
    BY LineOfImage
  <2>2. Mapped(Held(c.dst), line(c.dst, r.dstXyz, y, z), r.extent[1] * size)
    BY LineOfImage
  <2> QED  BY <2>1, <2>2
<1> HIDE DEF line, size
<1>3. AreLines(Held(c.dst), Held(c.src), lines)
  BY <1>2 DEF AreLines
<1> HIDE DEF lines
<1> QED  BY <1>1, <1>3, CopiedType

-------------------------------------------------------------------------------
(* A part of a whole, scaled, is a part of what it is scaled to: t out of    *)
(* 2 * d, of a size in either direction.                                     *)
LEMMA ScaledPart ==
  ASSUME NEW t \in Nat \ {0}, NEW d \in Nat \ {0}, t < 2 * d, NEW size \in Nat \ {0}
  PROVE  /\ (t * size) \div (2 * d) \in 0..(size - 1)
         /\ (-(t * size)) \div (2 * d) \in (-size)..(-1)
<1> DEFINE e == 2 * d
           n == t * size
<1>1. e \in Nat \ {0} /\ n \in Nat \ {0}
  OBVIOUS
<1>2. e * size - n \in Nat \ {0}
  <2>1. e - t \in Nat \ {0}
    OBVIOUS
  <2>2. (e - t) * size \in Nat \ {0} /\ (e - t) * size = e * size - n
    BY <2>1
  <2> QED  BY <2>2
<1>3. e * size \in Nat
  OBVIOUS
<1> HIDE DEF e, n
<1>4. n \div e \in 0..(size - 1)
  <2> DEFINE q == n \div e
             r == n % e
  <2>1. q \in Int /\ r \in 0..(e - 1) /\ n = e * q + r
    BY <1>1, DivideIs
  <2> HIDE DEF q, r
  <2>2. q >= 0
    <3> SUFFICES ASSUME q < 0 PROVE FALSE
      BY <2>1
    <3>1. e * (-q - 1) \in Nat /\ e * (-q - 1) = -(e * q) - e
      BY <1>1, <2>1
    <3> QED  BY <1>1, <2>1, <3>1
  <2>3. q < size
    <3> SUFFICES ASSUME q >= size PROVE FALSE
      BY <2>1
    <3>1. e * (q - size) \in Nat /\ e * (q - size) = e * q - e * size
      BY <1>1, <2>1
    <3> QED  BY <1>1, <1>2, <1>3, <2>1, <3>1
  <2> QED  BY <2>1, <2>2, <2>3 DEF q
<1>5. (-n) \div e \in (-size)..(-1)
  <2> DEFINE q == (-n) \div e
             r == (-n) % e
  <2>0. -n \in Int
    BY <1>1
  <2>1. q \in Int /\ r \in 0..(e - 1) /\ -n = e * q + r
    BY <1>1, <2>0, DivideIs
  <2> HIDE DEF q, r
  <2>2. q < 0
    <3> SUFFICES ASSUME q >= 0 PROVE FALSE
      BY <2>1
    <3>1. e * q \in Nat
      BY <1>1, <2>1
    <3> QED  BY <1>1, <2>1, <3>1
  <2>3. q >= -size
    <3> SUFFICES ASSUME q < -size PROVE FALSE
      BY <2>1
    <3>1. e * (-size - q - 1) \in Nat /\ e * (-size - q - 1) = -(e * size) - e * q - e
      BY <1>1, <2>1
    <3> QED  BY <1>1, <1>2, <1>3, <2>1, <3>1
  <2> QED  BY <2>1, <2>2, <2>3 DEF q
<1> QED  BY <1>4, <1>5 DEF e, n

(* The source coordinate of a texel of the destination box is in the source  *)
(* box, in which it needs no clamping.                                       *)
LEMMA BlitSourceInside ==
  ASSUME NEW src, NEW dst, src[1] \in Nat, src[2] \in Nat, dst[1] \in Nat, dst[2] \in Nat,
         src[1] # src[2], NEW x \in Between(dst), NEW size \in Nat,
         Max({src[1], src[2]}) <= size
  PROVE  BlitSource(x, src, dst, size) \in Between(src)
<1> DEFINE a == src[1]
           b == src[2]
           p == dst[1]
           q == dst[2]
           n == (2 * (x - p) + 1) * (b - a)
           d == 2 * (q - p)
           u == IF d < 0 THEN (-n) \div (-d) ELSE n \div d
<1>1. BlitSource(x, src, dst, size) = Clamp(a + u, 0, size - 1)
  BY DEF BlitSource
<1>2. /\ Between(src) = (IF a <= b THEN a ELSE b)..((IF a <= b THEN b ELSE a) - 1)
      /\ Between(dst) = (IF p <= q THEN p ELSE q)..((IF p <= q THEN q ELSE p) - 1)
      /\ (IF a <= b THEN b ELSE a) <= size
  <2>1. src[1] \in Int /\ src[2] \in Int /\ dst[1] \in Int /\ dst[2] \in Int
    OBVIOUS
  <2>2. /\ Min({src[1], src[2]}) = (IF a <= b THEN a ELSE b)
        /\ Max({src[1], src[2]}) = (IF a <= b THEN b ELSE a)
    BY <2>1, MinMax
  <2>3. /\ Min({dst[1], dst[2]}) = (IF p <= q THEN p ELSE q)
        /\ Max({dst[1], dst[2]}) = (IF p <= q THEN q ELSE p)
    BY <2>1, MinMax
  <2> QED  BY <2>2, <2>3, Zenon DEF Between
<1>3. a \in Nat /\ b \in Nat /\ p \in Nat /\ q \in Nat /\ a # b
  OBVIOUS
<1> DEFINE t == 2 * (x - p) + 1
           s == b - a
<1> HIDE DEF a, b, p, q
<1>4. x \in Int /\ (IF p <= q THEN p <= x /\ x < q ELSE q <= x /\ x < p)
  BY <1>2, <1>3
<1>5. n = t * s /\ t \in Int /\ s \in Int
  BY <1>3, <1>4
<1>6. u \in Int /\ IF s > 0 THEN 0 <= u /\ u < s ELSE s <= u /\ u < 0
  <2>1. CASE p <= q
    <3>1. t \in Nat \ {0} /\ q - p \in Nat \ {0} /\ t < 2 * (q - p) /\ ~(d < 0)
      BY <1>3, <1>4, <2>1
    <3> HIDE DEF t, n
    <3>2. CASE s > 0
      <4>1. s \in Nat \ {0}
        BY <1>5, <3>2
      <4> HIDE DEF s
      <4>2. (t * s) \div (2 * (q - p)) \in 0..(s - 1)
        BY <3>1, <4>1, ScaledPart
      <4>3. u = (t * s) \div (2 * (q - p))
        BY <1>5, <3>1
      <4> HIDE DEF u
      <4> QED  BY <3>2, <4>1, <4>2, <4>3
    <3>3. CASE ~(s > 0)
      <4>1. -s \in Nat \ {0} /\ n = -(t * (-s))
        <5>1. -s \in Nat \ {0}
          BY <1>3, <3>3
        <5> HIDE DEF s
        <5> QED  BY <1>5, <5>1
      <4> HIDE DEF s
      <4>2. (-(t * (-s))) \div (2 * (q - p)) \in (-(-s))..(-1)
        BY <3>1, <4>1, ScaledPart
      <4>3. u = (-(t * (-s))) \div (2 * (q - p))
        BY <3>1, <4>1
      <4> HIDE DEF u
      <4> QED  BY <1>5, <3>3, <4>1, <4>2, <4>3
    <3> QED  BY <3>2, <3>3
  <2>2. CASE ~(p <= q)
    <3>1. -t \in Nat \ {0} /\ p - q \in Nat \ {0} /\ -t < 2 * (p - q) /\ d < 0 /\ -d = 2 * (p - q)
      BY <1>3, <1>4, <2>2
    <3> HIDE DEF t, n, d
    <3>2. CASE s > 0
      <4>1. s \in Nat \ {0} /\ -n = (-t) * s
        <5>1. s \in Nat \ {0}
          BY <1>5, <3>2
        <5> HIDE DEF s
        <5> QED  BY <1>5, <5>1
      <4> HIDE DEF s
      <4>2. ((-t) * s) \div (2 * (p - q)) \in 0..(s - 1)
        BY <3>1, <4>1, ScaledPart
      <4>3. u = ((-t) * s) \div (2 * (p - q))
        BY <3>1, <4>1
      <4> HIDE DEF u
      <4> QED  BY <3>2, <4>1, <4>2, <4>3
    <3>3. CASE ~(s > 0)
      <4>1. -s \in Nat \ {0} /\ -n = -((-t) * (-s))
        <5>1. -s \in Nat \ {0}
          BY <1>3, <3>3
        <5> HIDE DEF s
        <5> QED  BY <1>5, <5>1
      <4> HIDE DEF s
      <4>2. (-((-t) * (-s))) \div (2 * (p - q)) \in (-(-s))..(-1)
        BY <3>1, <4>1, ScaledPart
      <4>3. u = (-((-t) * (-s))) \div (2 * (p - q))
        BY <3>1, <4>1
      <4> HIDE DEF u
      <4> QED  BY <1>5, <3>3, <4>1, <4>2, <4>3
    <3> QED  BY <3>2, <3>3
  <2> QED  BY <2>1, <2>2
<1> HIDE DEF u
<1>7. a + u \in (IF a <= b THEN a ELSE b)..((IF a <= b THEN b ELSE a) - 1)
  BY <1>3, <1>6
<1>8. Clamp(a + u, 0, size - 1) = a + u
  BY <1>2, <1>3, <1>6, <1>7 DEF Clamp
<1> QED  BY <1>1, <1>2, <1>7, <1>8

-------------------------------------------------------------------------------
(* Blits                                                                     *)

(* A level is no larger than level 0.                                        *)
LEMMA ExtentSmaller ==
  ASSUME NEW img, IsShape(img), NEW l \in 0..(img.levels - 1), NEW axis \in 1..3
  PROVE  Extent(img, axis, l) <= img.extent[axis] /\ img.extent[axis] \in Nat \ {0}
<1> DEFINE p == 2^l
           e == img.extent[axis]
           q == e \div p
<1>1. e \in Nat \ {0} /\ l \in 0..31
  BY DEF IsShape
<1>2. p \in Nat \ {0}
  BY <1>1, PowersOfTwo
<1>3. Extent(img, axis, l) = (IF q = 0 THEN 1 ELSE q)
  BY DEF Extent
<1> HIDE DEF p, e
<1>4. q \in Int /\ e % p \in 0..(p - 1) /\ e = p * q + (e % p)
  BY <1>1, <1>2, DivideIs
<1> DEFINE rest == e % p
<1> HIDE DEF q, rest
<1>5. q <= e
  <2> SUFFICES ASSUME q > e PROVE FALSE
    BY <1>1, <1>4
  <2>1. (p - 1) * q \in Nat /\ (p - 1) * q = p * q - q
    BY <1>1, <1>2, <1>4
  <2> QED  BY <1>1, <1>2, <1>4, <2>1 DEF rest
<1> QED  BY <1>1, <1>3, <1>5 DEF e

\* A box has two corners on each axis.
IsBox(box) == \A a \in 1..3 : box[a] \in Nat \X Nat
(* What is between the corners of a box on each axis is a texel of the image *)
(* that the box is inside of.                                                *)
LEMMA BoxInside ==
  ASSUME NEW box, IsBox(box), NEW i, NEW level, NEW layer, NEW layers,
         InsideImage(i, level, layer, layers, Corner(box), Size(box)),
         NEW l \in Span(0, layers), NEW p, \A a \in 1..3 : p[a] \in Between(box[a])
  PROVE  /\ i \in Image /\ level \in 0..(Info[i].levels - 1)
         /\ InImage(Info[i], level, layer + l, p[1], p[2], p[3])
         /\ \A a \in 1..3 : Max({box[a][1], box[a][2]}) <= Extent(Info[i], a, level)
<1> DEFINE img == Info[i]
<1>1. /\ i \in Image /\ level \in 0..(img.levels - 1)
      /\ layer \in Nat /\ layers \in Nat /\ layer + layers <= img.layers
      /\ \A a \in 1..3 : /\ Corner(box)[a] \in Nat /\ Size(box)[a] \in Nat
                         /\ Corner(box)[a] + Size(box)[a] <= Extent(img, a, level)
  BY DEF InsideImage, Inside
<1>2. IsShape(img)
  BY <1>1, ApplicationAssumption
<1>3. img.layers \in Nat
  BY <1>2 DEF IsShape
<1>4. layer + l \in 0..(img.layers - 1)
  <2> HIDE DEF img
  <2> QED  BY <1>1, <1>3 DEF Span
<1>5. ASSUME NEW a \in 1..3
      PROVE  /\ p[a] \in 0..(Extent(img, a, level) - 1)
             /\ Max({box[a][1], box[a][2]}) <= Extent(img, a, level)
  <2> DEFINE lo == Min({box[a][1], box[a][2]})
             hi == Max({box[a][1], box[a][2]})
             e == Extent(img, a, level)
  <2>1. box[a][1] \in Int /\ box[a][2] \in Int /\ box[a][1] \in Nat /\ box[a][2] \in Nat
    BY DEF IsBox
  <2>2. lo \in Nat /\ hi \in Nat
    BY <2>1, MinMax
  <2>3. Corner(box)[a] = lo /\ Size(box)[a] = hi - Corner(box)[a]
    BY DEF Corner, Size
  <2>4. p[a] \in lo..(hi - 1)
    BY DEF Between
  <2>5. e \in Nat
    BY <1>1, <1>2, ExtentType
  <2>6. Corner(box)[a] + Size(box)[a] <= e
    BY <1>1
  <2> HIDE DEF lo, hi, e
  <2>7. hi <= e
    BY <2>2, <2>3, <2>5, <2>6
  <2> QED  BY <2>2, <2>4, <2>5, <2>7 DEF hi, e
<1>6. InImage(img, level, layer + l, p[1], p[2], p[3])
  BY <1>1, <1>4, <1>5 DEF InImage
<1> QED  BY <1>1, <1>5, <1>6

(* A region of a blit changes bytes of the destination, and reads texels of  *)
(* the source: those inside its box.                                         *)
LEMMA BlitType ==
  ASSUME address \in Placement, NEW m, Memory(m), NEW c, NEW r,
         IsBox(r.src), IsBox(r.dst), \A a \in 1..3 : r.src[a][1] # r.src[a][2],
         InsideImage(c.src, r.srcLevel, r.srcLayer, r.layers, Corner(r.src), Size(r.src)),
         InsideImage(c.dst, r.dstLevel, r.dstLayer, r.layers, Corner(r.dst), Size(r.dst))
  PROVE  ChangesOnly(Held(c.dst), m, BlitRegion(m, c, r))
<1> DEFINE src == Info[c.src]
           dst == Info[c.dst]
           from(xyz) == [a \in 1..3 |-> BlitSource(xyz[a], r.src[a], r.dst[a], src.extent[a])]
           read(xyz, l) ==
             LoadFrom(m, address[c.src] + TexelOffset(src, from(xyz), r.srcLayer + l, r.srcLevel),
                      ElementSize(src.format))
           to(xyz, l) == address[c.dst] + TexelOffset(dst, xyz, r.dstLayer + l, r.dstLevel)
           bytes(xyz, l) == Write(dst.format, Read(src.format, read(xyz, l)))
           box == Between(r.dst[1]) \X Between(r.dst[2]) \X Between(r.dst[3])
           stores == {[at |-> to(xyz, l), bytes |-> bytes(xyz, l)] :
                        l \in Span(0, r.layers), xyz \in box}
<1>1. BlitRegion(m, c, r) = Stored(m, stores)
  BY DEF BlitRegion
<1>2. ASSUME NEW l \in Span(0, r.layers), NEW xyz \in box
      PROVE  /\ bytes(xyz, l) \in Seq(0..(Byte - 1))
             /\ Mapped(Held(c.dst), to(xyz, l), Len(bytes(xyz, l)))
  <2>1. \A a \in 1..3 : xyz[a] \in Between(r.dst[a])
    <3>1. xyz[1] \in Between(r.dst[1]) /\ xyz[2] \in Between(r.dst[2]) /\ xyz[3] \in Between(r.dst[3])
      OBVIOUS
    <3>2. \A a \in 1..3 : a = 1 \/ a = 2 \/ a = 3
      OBVIOUS
    <3> QED  BY <3>1, <3>2
  <2> HIDE DEF box
  <2>2. /\ c.dst \in Image
        /\ InImage(dst, r.dstLevel, r.dstLayer + l, xyz[1], xyz[2], xyz[3])
    BY <2>1, BoxInside
  <2>3. Mapped(Held(c.dst), to(xyz, l), ElementSize(dst.format))
    BY <2>2, TexelMapped
  <2>4. /\ c.src \in Image /\ r.srcLevel \in 0..(src.levels - 1)
        /\ \A a \in 1..3 : Max({r.src[a][1], r.src[a][2]}) <= Extent(src, a, r.srcLevel)
        /\ \A p : (\A a \in 1..3 : p[a] \in Between(r.src[a]))
                    => InImage(src, r.srcLevel, r.srcLayer + l, p[1], p[2], p[3])
    <3>1. \A p : (\A a \in 1..3 : p[a] \in Between(r.src[a]))
             => /\ c.src \in Image /\ r.srcLevel \in 0..(src.levels - 1)
                /\ InImage(src, r.srcLevel, r.srcLayer + l, p[1], p[2], p[3])
                /\ \A a \in 1..3 : Max({r.src[a][1], r.src[a][2]}) <= Extent(src, a, r.srcLevel)
      BY BoxInside
    <3> DEFINE low == [a \in 1..3 |-> Min({r.src[a][1], r.src[a][2]})]
    <3>2. \A a \in 1..3 : low[a] \in Between(r.src[a])
      <4> SUFFICES ASSUME NEW a \in 1..3
                   PROVE  Min({r.src[a][1], r.src[a][2]}) \in Between(r.src[a])
        OBVIOUS
      <4>1. r.src[a][1] \in Int /\ r.src[a][2] \in Int /\ r.src[a][1] # r.src[a][2]
        BY DEF IsBox
      <4>2. /\ Min({r.src[a][1], r.src[a][2]}) = (IF r.src[a][1] <= r.src[a][2] THEN r.src[a][1] ELSE r.src[a][2])
            /\ Max({r.src[a][1], r.src[a][2]}) = (IF r.src[a][1] <= r.src[a][2] THEN r.src[a][2] ELSE r.src[a][1])
        BY <4>1, MinMax
      <4> QED  BY <4>1, <4>2 DEF Between
    <3> HIDE DEF low
    <3> QED  BY <3>1, <3>2
  <2>5. IsShape(src) /\ IsShape(dst)
    BY <2>2, <2>4, ApplicationAssumption
  <2>6. ASSUME NEW a \in 1..3 PROVE from(xyz)[a] \in Between(r.src[a])
    <3> DEFINE e == src.extent[a]
    <3>1. Extent(src, a, r.srcLevel) <= e /\ e \in Nat \ {0} /\ Extent(src, a, r.srcLevel) \in Nat
      BY <2>4, <2>5, ExtentSmaller, ExtentType
    <3>2. /\ r.src[a][1] \in Nat /\ r.src[a][2] \in Nat /\ r.dst[a][1] \in Nat /\ r.dst[a][2] \in Nat
          /\ r.src[a][1] \in Int /\ r.src[a][2] \in Int
      BY DEF IsBox
    <3>3. Max({r.src[a][1], r.src[a][2]}) \in Nat
      BY <3>2, MinMax
    <3> HIDE DEF src, e
    <3>4. Max({r.src[a][1], r.src[a][2]}) <= e
      <4> DEFINE hi == Max({r.src[a][1], r.src[a][2]})
      <4>1. hi <= Extent(src, a, r.srcLevel)
        BY <2>4, Zenon
      <4> HIDE DEF hi
      <4> QED  BY <3>1, <3>3, <4>1 DEF hi
    <3>5. BlitSource(xyz[a], r.src[a], r.dst[a], e) \in Between(r.src[a])
      BY <2>1, <3>1, <3>2, <3>4, BlitSourceInside
    <3> QED  BY <3>5 DEF e
  <2> DEFINE p == from(xyz)
  <2>7. \A a \in 1..3 : p[a] \in Between(r.src[a])
    BY <2>6
  <2> HIDE DEF from
  <2>8. InImage(src, r.srcLevel, r.srcLayer + l, p[1], p[2], p[3])
    <3> HIDE DEF p
    <3> QED  BY <2>4, <2>7
  <2>9. Mapped(Held(c.src), address[c.src] + TexelOffset(src, p, r.srcLayer + l, r.srcLevel),
               ElementSize(src.format))
    BY <2>4, <2>8, TexelMapped
  <2>10. read(xyz, l) \in Seq(0..(Byte - 1)) /\ Len(read(xyz, l)) = ElementSize(src.format)
    BY <2>9, LoadType
  <2> HIDE DEF read
  <2>11. IsFormat(src.format) /\ IsFormat(dst.format)
    BY <2>5 DEF IsShape
  <2>12. Read(src.format, read(xyz, l)) \in [1..4 -> Int]
    BY <2>10, <2>11, ReadType
  <2>13. bytes(xyz, l) \in Seq(0..(Byte - 1)) /\ Len(bytes(xyz, l)) = ElementSize(dst.format)
    BY <2>11, <2>12, WriteType
  <2> QED  BY <2>3, <2>13
<1> HIDE DEF to, bytes, box
<1>3. AreStores(Held(c.dst), stores)
  BY <1>2 DEF AreStores
<1> HIDE DEF stores
<1> QED  BY <1>1, <1>3, StoredType

-------------------------------------------------------------------------------
(* Clears, and all regions of a command                                      *)

(* A range of a clear changes bytes of the image.                            *)
LEMMA ClearColorType ==
  ASSUME address \in Placement, NEW m, Memory(m), NEW c, NEW r, IsTexel(c.color),
         c.op = "clearColorImage", IsRegion(c, r)
  PROVE  ChangesOnly(Held(c.dst), m, ClearColorRange(m, c, r))
<1> DEFINE img == Info[c.dst]
           levels == IF r.levels = Rest THEN img.levels - r.level ELSE r.levels
           layers == IF r.layers = Rest THEN img.layers - r.layer ELSE r.layers
           lastLevel == IF r.levels = Rest THEN img.levels - 1 ELSE r.level + r.levels - 1
           lastLayer == IF r.layers = Rest THEN img.layers - 1 ELSE r.layer + r.layers - 1
           texels(level) == {<<x, y, z>> : x \in 0..(Extent(img, 1, level) - 1),
                                           y \in 0..(Extent(img, 2, level) - 1),
                                           z \in 0..(Extent(img, 3, level) - 1)}
           at(xyz, layer, level) == address[c.dst] + TexelOffset(img, xyz, layer, level)
           bytes == Write(img.format, c.color)
           stores == UNION {{[at |-> at(xyz, layer, level), bytes |-> bytes] :
                               xyz \in texels(level), layer \in r.layer..lastLayer} :
                            level \in r.level..lastLevel}
<1>1. ClearColorRange(m, c, r) = Stored(m, stores)
  BY DEF ClearColorRange
<1>2. c.dst \in Image /\ Inside(r.level, levels, img.levels) /\ Inside(r.layer, layers, img.layers)
  BY DEF IsRegion
<1>3. IsShape(img)
  BY <1>2, ApplicationAssumption
<1>4. /\ r.level \in Nat /\ levels \in Nat /\ r.level + levels <= img.levels
      /\ r.layer \in Nat /\ layers \in Nat /\ r.layer + layers <= img.layers
      /\ img.levels \in Nat /\ img.layers \in Nat
  BY <1>2, <1>3 DEF Inside, IsShape
<1>5. /\ \A level \in r.level..lastLevel : level \in 0..(img.levels - 1)
      /\ \A layer \in r.layer..lastLayer : layer \in 0..(img.layers - 1)
  <2> HIDE DEF img
  <2>1. lastLevel = r.level + levels - 1 /\ lastLayer = r.layer + layers - 1
    BY <1>4
  <2> HIDE DEF lastLevel, lastLayer, levels, layers
  <2> QED  BY <1>4, <2>1
<1>6. bytes \in Seq(0..(Byte - 1)) /\ Len(bytes) = ElementSize(img.format)
  <2>1. IsFormat(img.format)
    BY <1>3 DEF IsShape
  <2> QED  BY <2>1, TexelType, WriteType
<1>7. ASSUME NEW level \in r.level..lastLevel, NEW layer \in r.layer..lastLayer,
             NEW xyz \in texels(level)
      PROVE  Mapped(Held(c.dst), at(xyz, layer, level), Len(bytes))
  <2>1. /\ xyz[1] \in 0..(Extent(img, 1, level) - 1) /\ xyz[2] \in 0..(Extent(img, 2, level) - 1)
        /\ xyz[3] \in 0..(Extent(img, 3, level) - 1)
    OBVIOUS
  <2>2. InImage(img, level, layer, xyz[1], xyz[2], xyz[3])
    BY <1>5, <2>1 DEF InImage
  <2>3. Mapped(Held(c.dst), at(xyz, layer, level), ElementSize(img.format))
    BY <1>2, <2>2, TexelMapped
  <2> QED  BY <1>6, <2>3
<1> HIDE DEF at, bytes, texels, lastLevel, lastLayer
<1>8. AreStores(Held(c.dst), stores)
  BY <1>6, <1>7 DEF AreStores
<1> HIDE DEF stores
<1> QED  BY <1>1, <1>8, StoredType

(* So does a rectangle of the clear of an attachment.                        *)
LEMMA ClearRectType ==
  ASSUME address \in Placement, NEW m, Memory(m), NEW c, NEW r, IsTexel(c.color),
         c.op = "clearAttachment", IsRegion(c, r)
  PROVE  ChangesOnly(Held(ViewInfo[c.view].of), m, ClearRect(m, c, r))
<1> DEFINE xs == Span(r.xy[1], r.extent[1])
           ys == Span(r.xy[2], r.extent[2])
           ls == Span(r.layer, r.layers)
           at(x, y, layer) == ViewAddress(c.view, <<x, y, 0>>, layer, 0)
           bytes == Write(ViewInfo[c.view].format, c.color)
           stores == {[at |-> at(x, y, layer), bytes |-> bytes] : x \in xs, y \in ys, layer \in ls}
<1>1. ClearRect(m, c, r) = Stored(m, stores)
  BY DEF ClearRect
<1>2. ASSUME NEW x \in xs, NEW y \in ys, NEW layer \in ls
      PROVE  /\ bytes \in Seq(0..(Byte - 1))
             /\ Mapped(Held(ViewInfo[c.view].of), at(x, y, layer), Len(bytes))
  <2>1. InsideView(c.view, <<x, y, 0>>, layer, 0)
    BY DEF IsRegion
  <2>2. Mapped(Held(ViewInfo[c.view].of), at(x, y, layer), ElementSize(ViewInfo[c.view].format))
    BY <2>1, ViewMapped
  <2>3. IsFormat(ViewInfo[c.view].format)
    BY <2>1, ViewInImage
  <2>4. bytes \in Seq(0..(Byte - 1)) /\ Len(bytes) = ElementSize(ViewInfo[c.view].format)
    BY <2>3, TexelType, WriteType
  <2> QED  BY <2>2, <2>4
<1> HIDE DEF at, bytes, xs, ys, ls
<1>3. AreStores(Held(ViewInfo[c.view].of), stores)
  BY <1>2 DEF AreStores
<1> HIDE DEF stores
<1> QED  BY <1>1, <1>3, StoredType

-------------------------------------------------------------------------------
\* The commands that go through their regions in turn.
RegionOps ==
  {"copyBuffer", "copyBufferToImage", "copyImageToBuffer", "copyImage", "blitImage",
   "clearColorImage", "clearAttachment"}
(* A region of any of them changes bytes of what the command writes to.      *)
LEMMA RegionType ==
  ASSUME address \in Placement, NEW m, Memory(m), NEW c, NEW r, c.op \in RegionOps, IsRegion(c, r),
         c.op \in {"clearColorImage", "clearAttachment"} => IsTexel(c.color)
  PROVE  ChangesOnly(Held(Target(c)), m, Region(m, c, r))
<1>1. CASE c.op = "copyBuffer"
  <2>1. InsideBuffer(c.src, r.srcOffset, r.size) /\ InsideBuffer(c.dst, r.dstOffset, r.size)
    BY <1>1 DEF IsRegion
  <2>2. Region(m, c, r) = CopyBufferRegion(m, c, r) /\ Target(c) = c.dst
    BY <1>1 DEF Region, Target
  <2> QED  BY <2>1, <2>2, CopyBufferType
<1>2. CASE c.op = "copyBufferToImage"
  <2>1. InsideBoth(c.src, c.dst, r)
    BY <1>2 DEF IsRegion
  <2>2. Region(m, c, r) = CopyBufferToImageRegion(m, c, r) /\ Target(c) = c.dst
    BY <1>2 DEF Region, Target
  <2> QED  BY <2>1, <2>2, CopyLinesType
<1>3. CASE c.op = "copyImageToBuffer"
  <2>1. InsideBoth(c.dst, c.src, r)
    BY <1>3 DEF IsRegion
  <2>2. Region(m, c, r) = CopyImageToBufferRegion(m, c, r) /\ Target(c) = c.dst
    BY <1>3 DEF Region, Target
  <2> QED  BY <2>1, <2>2, CopyLinesType
<1>4. CASE c.op = "copyImage"
  <2>1. /\ InsideImage(c.src, 0, 0, 1, r.srcXyz, r.extent)
        /\ InsideImage(c.dst, 0, r.dstLayer, 1, r.dstXyz, r.extent)
        /\ ElementSize(Info[c.src].format) = ElementSize(Info[c.dst].format)
    BY <1>4 DEF IsRegion
  <2>2. Region(m, c, r) = CopyImageRegion(m, c, r) /\ Target(c) = c.dst
    BY <1>4 DEF Region, Target
  <2> QED  BY <2>1, <2>2, CopyImageType
<1>5. CASE c.op = "blitImage"
  <2>1. /\ IsBox(r.src) /\ IsBox(r.dst) /\ \A a \in 1..3 : r.src[a][1] # r.src[a][2]
        /\ InsideImage(c.src, r.srcLevel, r.srcLayer, r.layers, Corner(r.src), Size(r.src))
        /\ InsideImage(c.dst, r.dstLevel, r.dstLayer, r.layers, Corner(r.dst), Size(r.dst))
    BY <1>5 DEF IsRegion, IsBox
  <2>2. Region(m, c, r) = BlitRegion(m, c, r) /\ Target(c) = c.dst
    BY <1>5 DEF Region, Target
  <2> QED  BY <2>1, <2>2, BlitType
<1>6. CASE c.op = "clearColorImage"
  <2>1. Region(m, c, r) = ClearColorRange(m, c, r) /\ Target(c) = c.dst
    BY <1>6 DEF Region, Target
  <2> QED  BY <1>6, <2>1, ClearColorType
<1>7. CASE c.op = "clearAttachment"
  <2>1. Region(m, c, r) = ClearRect(m, c, r) /\ Target(c) = ViewInfo[c.view].of
    BY <1>7 DEF Region, Target
  <2> QED  BY <1>7, <2>1, ClearRectType
<1> QED  BY <1>1, <1>2, <1>3, <1>4, <1>5, <1>6, <1>7 DEF RegionOps

\* The memory after each number of regions.
Passes(g, n, m, c) ==
  g = [k \in 0..n |-> IF k = 0 THEN m ELSE Region(g[k - 1], c, c.regions[k])]
(* There is such a function.                                                 *)
LEMMA PassesExist ==
  ASSUME NEW n \in Nat, NEW m, NEW c
  PROVE  \E g : Passes(g, n, m, c)
<1> DEFINE Step(g, k) == IF k = 0 THEN m ELSE Region(g[k - 1], c, c.regions[k])
           S == {i \in Nat : \E g : g = [k \in 0..i |-> Step(g, k)]}
<1>1. 0 \in S
  <2> DEFINE g == [k \in {0} |-> m]
  <2>1. 0..0 = {0}
    OBVIOUS
  <2>2. g = [k \in 0..0 |-> Step(g, k)]
    BY <2>1
  <2> QED  BY <2>2
<1>2. ASSUME NEW i \in Nat, i \in S PROVE i + 1 \in S
  <2>1. PICK g : g = [k \in 0..i |-> Step(g, k)]
    BY <1>2
  <2> DEFINE h == [k \in 0..(i + 1) |-> IF k <= i THEN g[k] ELSE Region(g[i], c, c.regions[i + 1])]
  <2>2. ASSUME NEW k \in 0..(i + 1) PROVE h[k] = Step(h, k)
    <3>1. CASE k = 0
      <4>1. h[k] = g[0] /\ 0 \in 0..i
        BY <3>1
      <4> HIDE DEF h
      <4> QED  BY <2>1, <3>1, <4>1
    <3>2. CASE k # 0 /\ k <= i
      <4>1. h[k] = g[k] /\ k \in 0..i /\ k - 1 \in 0..i /\ h[k - 1] = g[k - 1]
        BY <3>2
      <4> HIDE DEF h
      <4> QED  BY <2>1, <3>2, <4>1
    <3>3. CASE k = i + 1
      <4>1. h[k] = Region(g[i], c, c.regions[i + 1]) /\ k - 1 = i /\ h[i] = g[i] /\ k # 0
        BY <3>3
      <4> HIDE DEF h
      <4> QED  BY <3>3, <4>1
    <3> QED  BY <3>1, <3>2, <3>3
  <2>3. h = [k \in 0..(i + 1) |-> Step(h, k)]
    BY <2>2
  <2> HIDE DEF h, Step
  <2> QED  BY <2>3
<1> HIDE DEF S
<1>3. n \in S
  BY <1>1, <1>2, SetInduction
<1> QED  BY <1>3 DEF S, Step, Passes

(* All the regions of a command together do.                                 *)
LEMMA EachRegionType ==
  ASSUME address \in Placement, Memory(mem), NEW c \in Command, c.op \in RegionOps
  PROVE  ChangesOnly(Held(Target(c)), mem, EachRegion(mem, c))
<1> DEFINE n == Len(c.regions)
           G == CHOOSE g : Passes(g, n, mem, c)
<1>1. /\ n \in Nat /\ \A k \in 1..n : IsRegion(c, c.regions[k])
      /\ c.op \in {"clearColorImage", "clearAttachment"} => IsTexel(c.color)
  <2>1. IsCommand(c)
    BY ApplicationAssumption
  <2> QED  BY <2>1 DEF IsCommand, RegionOps
<1>2. Passes(G, n, mem, c)
  BY <1>1, PassesExist
<1>3. EachRegion(mem, c) = G[n]
  BY DEF EachRegion, Passes
<1> DEFINE S == {k \in Nat : k <= n => ChangesOnly(Held(Target(c)), mem, G[k])}
<1> HIDE DEF G
<1>4. 0 \in S
  <2>1. 0 \in 0..n
    BY <1>1
  <2>2. G[0] = mem
    BY <1>2, <2>1 DEF Passes
  <2> QED  BY <2>2, ChangesNothing
<1>5. ASSUME NEW k \in Nat, k \in S PROVE k + 1 \in S
  <2> SUFFICES ASSUME k + 1 <= n PROVE ChangesOnly(Held(Target(c)), mem, G[k + 1])
    OBVIOUS
  <2>1. k + 1 \in 0..n /\ k + 1 # 0 /\ (k + 1) - 1 = k /\ k + 1 \in 1..n /\ k <= n
    BY <1>1
  <2>2. ChangesOnly(Held(Target(c)), mem, G[k]) /\ Memory(G[k])
    BY <1>5, <2>1 DEF ChangesOnly
  <2>3. G[k + 1] = Region(G[k], c, c.regions[k + 1])
    BY <1>2, <2>1 DEF Passes
  <2>4. IsRegion(c, c.regions[k + 1])
    BY <1>1, <2>1
  <2>5. ChangesOnly(Held(Target(c)), G[k], G[k + 1])
    BY <1>1, <2>2, <2>3, <2>4, RegionType
  <2> QED  BY <2>2, <2>5, ChangesTwice
<1> HIDE DEF S
<1>6. n \in S
  BY <1>1, <1>4, <1>5, SetInduction
<1> QED  BY <1>1, <1>3, <1>6 DEF S

-------------------------------------------------------------------------------
(* The commands and instructions that write one place, or words of a buffer  *)

(* A store of some bytes changes where it is to.                             *)
LEMMA StoreOneType ==
  ASSUME Memory(mem), NEW S, NEW at, NEW b \in Seq(0..(Byte - 1)), Mapped(S, at, Len(b))
  PROVE  ChangesOnly(S, mem, Stored(mem, {[at |-> at, bytes |-> b]}))
BY StoredType DEF AreStores

(* And the bytes are what is there after it, if there is such a place.       *)
LEMMA StoreOneLoads ==
  ASSUME NEW m, NEW at, NEW b \in Seq(0..(Byte - 1)), Mapped(DOMAIN m, at, Len(b))
  PROVE  LoadFrom(Stored(m, {[at |-> at, bytes |-> b]}), at, Len(b)) = b
<1> DEFINE s == [at |-> at, bytes |-> b]
           now == Stored(m, {s})
           n == Len(b)
<1>1. at \in Int /\ n \in Nat /\ \A a \in at..(at + n - 1) : a \in DOMAIN m
  BY DEF Mapped, Span
<1>2. s.at = at /\ s.bytes = b
  OBVIOUS
<1>3. IsAccessValid(m, s.at, Len(s.bytes)) /\ IsAccessValid(now, at, n)
  BY DEF Mapped, IsAccessValid, Stored
<1>4. ASSUME NEW k \in 1..n PROVE now[at + k - 1] = b[k]
  <2> DEFINE a == at + k - 1
  <2>1. a \in at..(at + n - 1) /\ a - at + 1 = k
    BY <1>1
  <2>2. a \in DOMAIN m
    BY <1>1, <2>1
  <2>3. a \in Span(s.at, Len(s.bytes))
    BY <1>2, <2>1 DEF Span
  <2>4. (CHOOSE t \in {s} : a \in Span(t.at, Len(t.bytes))) = s
    <3> HIDE DEF s, a
    <3> QED  BY <2>3
  <2> HIDE DEF s, a
  <2>5. {t \in {s} : IsAccessValid(m, t.at, Len(t.bytes))} = {s}
    BY <1>3
  <2>6. now[a] = s.bytes[a - s.at + 1]
    BY <2>2, <2>3, <2>4, <2>5 DEF Stored
  <2> QED  BY <1>2, <2>1, <2>6 DEF a
<1>5. LoadFrom(now, at, n) = [k \in 1..n |-> b[k]]
  BY <1>3, <1>4 DEF LoadFrom
<1>6. b = [k \in 1..n |-> b[k]]
  BY LenProperties
<1> QED  BY <1>5, <1>6

(* A place of a resource is one of memory.                                   *)
LEMMA HeldMapped ==
  ASSUME address \in Placement, NEW m, Memory(m), NEW r \in Resource, NEW at, NEW n,
         Mapped(Held(r), at, n)
  PROVE  Mapped(DOMAIN m, at, n)
BY ResourceMapped DEF Mapped

(* The last of the words that start in a range ends where the range does, or *)
(* as many bytes after it as its size lacks of whole words.                  *)
LEMMA WordsInside ==
  ASSUME NEW n \in Nat, NEW w \in Nat, 4 * w < n
  PROVE  (-n) % 4 \in 0..3 /\ 4 * w + 4 <= n + ((-n) % 4)
OBVIOUS

(* vkCmdFillBuffer.                                                          *)
LEMMA FillType ==
  ASSUME address \in Placement, Memory(mem), NEW c \in Command, c.op = "fillBuffer"
  PROVE  ChangesOnly(Reach(c), mem, FilledBuffer(mem, c))
<1> DEFINE n == NumBytes(c)
           size == BufferSize[c.dst]
           over == (-n) % 4
           S == Reach(c)
           words == {v \in 0..n : 4 * v < n}
           at(w) == address[c.dst] + c.offset + 4 * w
           stores == {[at |-> at(w), bytes |-> c.data] : w \in words}
<1>1. c.data \in Seq(0..(Byte - 1)) /\ InsideBuffer(c.dst, c.offset, n) /\ Len(c.data) = 4
  <2>1. IsCommand(c)
    BY ApplicationAssumption
  <2> QED  BY <2>1 DEF IsCommand
<1>2. /\ c.dst \in Buffer /\ address[c.dst] \in Nat /\ c.offset \in Nat /\ n \in Nat
      /\ c.offset + n <= size
  BY <1>1, BufferMapped DEF InsideBuffer, Inside
<1>3. size \in Nat /\ c.dst \notin Image
  <2>1. size \in 1..(Word - 1) /\ Image \cap Buffer = {}
    BY <1>2, ApplicationAssumption
  <2> QED  BY <1>2, <2>1, WordType
<1>4. S = Span(address[c.dst], size + over)
  BY <1>3 DEF MemoryRequirements, Reach, Target
<1>5. ASSUME NEW w \in words PROVE Mapped(S, at(w), Len(c.data))
  <2>1. w \in Nat /\ 4 * w < n
    BY <1>2
  <2>2. over \in 0..3 /\ 4 * w + 4 <= n + over
    BY <1>2, <2>1, WordsInside
  <2> HIDE DEF n, size, over, S
  <2>3. at(w) \in Int /\ \A a \in at(w)..(at(w) + 4 - 1) :
          a \in address[c.dst]..(address[c.dst] + (size + over) - 1)
    BY <1>2, <1>3, <2>1, <2>2
  <2> HIDE DEF at
  <2>4. Span(at(w), 4) \subseteq S
    BY <1>4, <2>3 DEF Span
  <2> QED  BY <1>1, <2>3, <2>4 DEF Mapped
<1> HIDE DEF at, words, S
<1>6. AreStores(S, stores)
  <2> SUFFICES ASSUME NEW w \in words
               PROVE  c.data \in Seq(0..(Byte - 1)) /\ Mapped(S, at(w), Len(c.data))
    BY DEF AreStores
  <2> QED  BY <1>1, <1>5
<1>7. FilledBuffer(mem, c) = Stored(mem, stores)
  BY DEF FilledBuffer, at, words
<1> HIDE DEF stores
<1> QED  BY <1>6, <1>7, StoredType DEF S

(* vkCmdUpdateBuffer.                                                        *)
LEMMA UpdateType ==
  ASSUME address \in Placement, Memory(mem), NEW c \in Command, c.op = "updateBuffer"
  PROVE  ChangesOnly(Held(c.dst), mem, UpdatedBuffer(mem, c))
<1>1. /\ c.data \in Seq(0..(Byte - 1)) /\ InsideBuffer(c.dst, c.offset, NumBytes(c))
      /\ Len(c.data) >= NumBytes(c)
  <2>1. IsCommand(c)
    BY ApplicationAssumption
  <2> QED  BY <2>1 DEF IsCommand
<1>2. address[c.dst] \in Nat /\ c.offset \in Nat /\ NumBytes(c) \in Nat
  BY <1>1, BufferMapped
<1>3. Mapped(Held(c.dst), address[c.dst] + c.offset, NumBytes(c))
  BY <1>1, BufferMapped
<1>4. SubSeq(c.data, 1, NumBytes(c)) \in Seq(0..(Byte - 1))
      /\ Len(SubSeq(c.data, 1, NumBytes(c))) = NumBytes(c)
  <2>1. 1 \in Nat /\ 1 <= 1 /\ 1 <= NumBytes(c) + 1 /\ NumBytes(c) <= Len(c.data)
    BY <1>1, <1>2, LenProperties
  <2>2. NumBytes(c) - 1 + 1 = NumBytes(c)
    BY <1>2
  <2> QED  BY <1>1, <1>2, <2>1, <2>2, PartOf
<1> QED  BY <1>3, <1>4, StoreOneType DEF UpdatedBuffer

\* Where a subresource layout finds a texel, and where it is in its level.
LayoutIsTexel(x, y, z, n, w, h, d, s) ==
  n * (d * (h * (w * s))) + z * (h * (w * s)) + y * (w * s) + x * s = (((z + n) * h + y) * w + x) * s
(* They are the same place.                                                  *)
LEMMA LayoutInLevel ==
  ASSUME NEW x \in Nat, NEW y \in Nat, NEW z \in Nat, NEW n \in Nat,
         NEW w \in Nat, NEW h \in Nat, NEW d \in Nat, NEW s \in Nat, n = 0 \/ d = 1
  PROVE  LayoutIsTexel(x, y, z, n, w, h, d, s)
<1>1. n * (d * (h * (w * s))) = n * (h * (w * s))
  <2>1. CASE n = 0
    <3>1. d * (h * (w * s)) \in Nat /\ h * (w * s) \in Nat
      OBVIOUS
    <3> QED  BY <2>1, <3>1
  <2>2. CASE d = 1
    BY <2>2
  <2> QED  BY <2>1, <2>2
<1>2. n * (h * (w * s)) + z * (h * (w * s)) + y * (w * s) + x * s = (((z + n) * h + y) * w + x) * s
  OBVIOUS
<1> QED  BY <1>1, <1>2 DEF LayoutIsTexel

(* No level of an image is larger than the first.                            *)
LEMMA ExtentNotLarger ==
  ASSUME NEW img, IsShape(img), NEW l \in 0..(img.levels - 1), NEW axis \in 1..3
  PROVE  Extent(img, axis, l) <= Extent(img, axis, 0)
<1> DEFINE e == img.extent[axis]
<1>1. Extent(img, axis, l) <= e /\ e \in Nat \ {0}
  BY ExtentSmaller
<1>2. 2^0 = 1 /\ e \div 1 = e
  BY <1>1
<1>3. Extent(img, axis, 0) = e
  BY <1>1, <1>2 DEF Extent
<1> QED  BY <1>1, <1>3

(* The host writes a texel.                                                  *)
LEMMA HostWriteType ==
  ASSUME address \in Placement, Memory(mem), NEW c \in Command, HostWrite(c)
  PROVE  ChangesOnly(Held(c.dst), mem, mem')
<1> DEFINE img == Info[c.dst]
           w == Extent(img, 1, 0)
           h == Extent(img, 2, 0)
           d == Extent(img, 3, 0)
           s == ElementSize(img.format)
           x == c.xyz[1]
           y == c.xyz[2]
           z == c.xyz[3]
           n == c.layer
           off == n * (d * (h * (w * s))) + z * (h * (w * s)) + y * (w * s) + x * s
           at == address[c.dst] + n * (d * (h * (w * s))) + z * (h * (w * s)) + y * (w * s) + x * s
<1>1. c.op = "hostWrite" /\ mem' = Stored(mem, {[at |-> at, bytes |-> c.data]})
  BY DEF HostWrite, Executes, SubresourceLayout
<1>2. /\ InsideImage(c.dst, c.level, n, 1, c.xyz, <<1, 1, 1>>)
      /\ c.data \in Seq(0..(Byte - 1)) /\ Len(c.data) = s
  <2>1. IsCommand(c)
    BY ApplicationAssumption
  <2> QED  BY <1>1, <2>1 DEF IsCommand
<1>3. /\ c.dst \in Image /\ n \in Nat /\ x \in Nat /\ y \in Nat /\ z \in Nat
      /\ n + 1 <= img.layers /\ c.level \in 0..(img.levels - 1)
      /\ x + 1 <= Extent(img, 1, c.level) /\ y + 1 <= Extent(img, 2, c.level)
      /\ z + 1 <= Extent(img, 3, c.level)
  BY <1>2 DEF InsideImage, Inside
<1>4. IsShape(img) /\ Fits32(img) /\ 0 \in 0..(img.levels - 1)
  <2>1. IsShape(img) /\ Fits32(img)
    BY <1>3, ApplicationAssumption
  <2> QED  BY <2>1 DEF IsShape
<1>5. /\ w \in Nat \ {0} /\ h \in Nat \ {0} /\ d \in Nat \ {0} /\ s \in Nat \ {0}
      /\ img.layers \in Nat \ {0} /\ (img.layers = 1 \/ d = 1)
  BY <1>4, LevelBytesType
<1>6. InImage(img, 0, n, x, y, z)
  <2> DEFINE e(axis) == Extent(img, axis, c.level)
  <2>1. e(1) \in Nat /\ e(1) <= w /\ e(2) \in Nat /\ e(2) <= h /\ e(3) \in Nat /\ e(3) <= d
    BY <1>3, <1>4, ExtentType, ExtentNotLarger
  <2>2. x + 1 <= e(1) /\ y + 1 <= e(2) /\ z + 1 <= e(3)
    BY <1>3
  <2> HIDE DEF w, h, d, n, x, y, z, e
  <2>3. n \in 0..(img.layers - 1) /\ x \in 0..(w - 1) /\ y \in 0..(h - 1) /\ z \in 0..(d - 1)
    BY <1>3, <1>5, <2>1, <2>2
  <2> QED  BY <1>4, <2>3 DEF InImage, w, h, d
<1>7. off = Within(img, 0, n, x, y, z)
  <2>1. n = 0 \/ d = 1
    BY <1>3, <1>5
  <2> HIDE DEF w, h, d, n, x, y, z, s
  <2>2. LayoutIsTexel(x, y, z, n, w, h, d, s)
    BY <1>3, <1>5, <2>1, LayoutInLevel
  <2> QED  BY <2>2, Zenon DEF LayoutIsTexel, Within, w, h, s
<1>8. TexelOffset(img, c.xyz, n, 0) = off
  <2>1. TexelOffset(img, c.xyz, n, 0) = Sums(LevelsOf(img))[0] + Within(img, 0, n, x, y, z)
    BY <1>4, <1>6, OffsetIs
  <2>2. Sums(LevelsOf(img))[0] = 0
    BY <1>4, LevelsType, SumsExist DEF AreSums
  <2>3. Within(img, 0, n, x, y, z) \in Int
    <3>1. 0 \in 0..(s - 1)
      BY <1>5
    <3> QED  BY <1>4, <1>6, <3>1, TexelInLevel DEF InImage
  <2> HIDE DEF off
  <2> QED  BY <1>7, <2>1, <2>2, <2>3
<1>9. address[c.dst] \in Nat
  BY <1>3, ResourceMapped DEF Resource
<1>10. at = address[c.dst] + off
  <2> HIDE DEF w, h, d, s, n, x, y, z
  <2>1. h * (w * s) \in Nat /\ w * s \in Nat
    BY <1>5
  <2>2. d * (h * (w * s)) \in Nat
    BY <1>5, <2>1
  <2>3. /\ n * (d * (h * (w * s))) \in Nat /\ z * (h * (w * s)) \in Nat
        /\ y * (w * s) \in Nat /\ x * s \in Nat
    BY <1>3, <1>5, <2>1, <2>2
  <2> QED  BY <1>9, <2>3
<1>11. Mapped(Held(c.dst), address[c.dst] + TexelOffset(img, c.xyz, n, 0), s)
  BY <1>3, <1>6, TexelMapped
<1> HIDE DEF at, off
<1> QED  BY <1>1, <1>2, <1>8, <1>10, <1>11, StoreOneType

(* A fragment reaches its attachment.                                        *)
LEMMA WriteFragmentType ==
  ASSUME address \in Placement, Memory(mem), NEW c \in Command, WriteFragment(c)
  PROVE  ChangesOnly(Held(ViewInfo[c.view].of), mem, mem')
<1> DEFINE f == ViewInfo[c.view].format
           at == ViewAddress(c.view, <<c.xy[1], c.xy[2], 0>>, 0, 0)
           bytes == FragmentBytes(f, LoadFrom(mem, at, ElementSize(f)), c)
<1>1. c.op = "fragment" /\ mem' = Stored(mem, {[at |-> at, bytes |-> bytes]})
  BY DEF WriteFragment, Executes
<1>2. /\ InsideView(c.view, <<c.xy[1], c.xy[2], 0>>, 0, 0)
      /\ AreOutputs(c.outputs) /\ IsTexel(c.stale) /\ IsBlend(c.blend)
  <2>1. IsCommand(c)
    BY ApplicationAssumption
  <2> QED  BY <1>1, <2>1 DEF IsCommand, AreOutputs
<1>3. IsFormat(f) /\ Mapped(Held(ViewInfo[c.view].of), at, ElementSize(f))
  BY <1>2, ViewInImage, ViewMapped
<1>4. LoadFrom(mem, at, ElementSize(f)) \in Seq(0..(Byte - 1))
      /\ Len(LoadFrom(mem, at, ElementSize(f))) = ElementSize(f)
  BY <1>3, LoadType
<1>5. bytes \in Seq(0..(Byte - 1)) /\ Len(bytes) = ElementSize(f)
  BY <1>2, <1>3, <1>4, FragmentType
<1> HIDE DEF bytes, at
<1> QED  BY <1>1, <1>3, <1>5, StoreOneType DEF at

(* A view is of an image or of a buffer.                                     *)
LEMMA ViewedResource ==
  ASSUME NEW v, NEW xyz, NEW layer, NEW level, InsideView(v, xyz, layer, level)
  PROVE  ViewInfo[v].of \in Resource
<1>1. IsView(v)
  BY ApplicationAssumption DEF InsideView
<1> QED  BY <1>1 DEF IsView, InsideBuffer, Resource

(* A shader writes a texel, and the bytes of it are there afterwards.        *)
LEMMA ImageWriteType ==
  ASSUME address \in Placement, Memory(mem), NEW c \in Command, c.op = "write"
  PROVE  LET p == Place(c.view, c.coord)
             f == ViewInfo[c.view].format
         IN /\ ChangesOnly(Held(ViewInfo[c.view].of), mem, ImageWrite(c))
            /\ LoadFrom(ImageWrite(c), ViewAddress(c.view, p.xyz, p.layer, 0), ElementSize(f))
                 = Write(f, c.texel)
<1> DEFINE p == Place(c.view, c.coord)
           f == ViewInfo[c.view].format
           at == ViewAddress(c.view, p.xyz, p.layer, 0)
           bytes == Write(f, c.texel)
<1>1. InsideView(c.view, p.xyz, p.layer, 0) /\ IsTexel(c.texel)
  <2>1. IsCommand(c)
    BY ApplicationAssumption
  <2> QED  BY <2>1 DEF IsCommand, HasCoord
<1>2. IsFormat(f) /\ Mapped(Held(ViewInfo[c.view].of), at, ElementSize(f))
  BY <1>1, ViewInImage, ViewMapped
<1>3. bytes \in Seq(0..(Byte - 1)) /\ Len(bytes) = ElementSize(f)
  BY <1>1, <1>2, TexelType, WriteType
<1>4. ImageWrite(c) = Stored(mem, {[at |-> at, bytes |-> bytes]})
  BY DEF ImageWrite
<1> HIDE DEF bytes, at
<1>5. ChangesOnly(Held(ViewInfo[c.view].of), mem, ImageWrite(c))
  BY <1>2, <1>3, <1>4, StoreOneType
<1>6. LoadFrom(ImageWrite(c), at, ElementSize(f)) = bytes
  <2>1. ViewInfo[c.view].of \in Resource
    BY <1>1, ViewedResource
  <2>2. Mapped(DOMAIN mem, at, ElementSize(f))
    BY <1>2, <2>1, HeldMapped
  <2> QED  BY <1>3, <1>4, <2>2, StoreOneLoads
<1> QED  BY <1>5, <1>6 DEF at, bytes

-------------------------------------------------------------------------------
(* The invariant of memory *)

\* What ShaderWrite leaves: the bytes of the texel where the view has it.
Holds(m, c) ==
  LET p == Place(c.view, c.coord)
      f == ViewInfo[c.view].format
  IN LoadFrom(m, ViewAddress(c.view, p.xyz, p.layer, 0), ElementSize(f)) = Write(f, c.texel)

\* Memory stays as large as it was, and holds what a shader has just written.
Written ==
  /\ address \in Placement /\ count \in 0..MaxCommands /\ Memory(mem)
  /\ last.op = "write" => last \in Command /\ Holds(mem, last)

(* At first nothing has been written.                                        *)
LEMMA WrittenInit == Init => Written
<1> SUFFICES ASSUME Init PROVE Written
  OBVIOUS
<1>1. address \in Placement /\ mem \in Contents /\ last = [op |-> "none"] /\ count = 0
  BY DEF Init
<1>2. Memory(mem)
  BY <1>1, MemoryAssumption DEF Memory
<1>3. count \in 0..MaxCommands
  BY <1>1, BoundAssumption
<1> QED  BY <1>1, <1>2, <1>3 DEF Written

\* What every step must do.
Keeps == Written' /\ ChangesInside

(* A command or instruction that is not a shader's write keeps the invariant *)
(* if memory is left alone.                                                  *)
LEMMA KeepsStill ==
  ASSUME Written, NEW op, NEW c, Executes(op, c), op # "write", mem' = mem
  PROVE  Keeps
<1>1. count < MaxCommands /\ count' = count + 1 /\ c.op = op /\ last' = c /\ address' = address
  BY DEF Executes
<1>2. count' \in 0..MaxCommands
  BY <1>1, BoundAssumption DEF Written
<1>3. address' \in Placement /\ last'.op # "write" /\ Memory(mem')
  BY <1>1 DEF Written
<1>4. Written'
  BY <1>2, <1>3 DEF Written, Memory
<1> QED  BY <1>4 DEF Keeps, ChangesInside

(* So does one that changes what it may write.                               *)
LEMMA KeepsWriting ==
  ASSUME Written, NEW op, NEW c \in Command, Executes(op, c),
         op \notin {"write", "read", "query", "sample", "vertex"},
         ChangesOnly(Reach(c), mem, mem')
  PROVE  Keeps
<1>1. count < MaxCommands /\ count' = count + 1 /\ c.op = op /\ last' = c /\ address' = address
  BY DEF Executes
<1>2. count' \in 0..MaxCommands
  BY <1>1, BoundAssumption DEF Written
<1>3. address' \in Placement /\ last'.op # "write" /\ Memory(mem')
  BY <1>1 DEF Written, ChangesOnly
<1>4. Written'
  BY <1>2, <1>3 DEF Written, Memory
<1>5. ChangesInside
  BY <1>1 DEF ChangesOnly, ChangesInside
<1> QED  BY <1>4, <1>5 DEF Keeps

(* A shader's write keeps it.                                                *)
LEMMA KeepsImageWrite ==
  ASSUME Written, NEW c \in Command, ShaderWrite(c)
  PROVE  Keeps
<1>1. /\ count < MaxCommands /\ count' = count + 1 /\ c.op = "write" /\ last' = c
      /\ address' = address /\ mem' = ImageWrite(c)
  BY DEF ShaderWrite, Executes
<1>2. count' \in 0..MaxCommands
  BY <1>1, BoundAssumption DEF Written
<1>3. ChangesOnly(Held(ViewInfo[c.view].of), mem, mem') /\ Holds(mem', c)
  BY <1>1, ImageWriteType DEF Written, Holds
<1>4. Holds(mem, last)' <=> Holds(mem', c)
  BY <1>1 DEF Holds, ViewAddress, ViewStart
<1>5. Memory(mem')
  BY <1>3 DEF ChangesOnly
<1>6. Written'
  BY <1>1, <1>2, <1>3, <1>4, <1>5 DEF Written, Memory
<1>7. Reach(c) = Held(ViewInfo[c.view].of)
  BY <1>1 DEF Reach, Held, Target
<1>8. ChangesInside
  BY <1>1, <1>3, <1>7 DEF ChangesOnly, ChangesInside
<1> QED  BY <1>6, <1>8 DEF Keeps

(* Every step keeps it.                                                      *)
LEMMA NextKeeps == Written /\ [Next]_vars => Written' /\ [ChangesInside]_vars
<1> SUFFICES ASSUME Written, [Next]_vars PROVE Written' /\ [ChangesInside]_vars
  OBVIOUS
<1>1. address \in Placement /\ Memory(mem)
  BY DEF Written
<1>2. CASE UNCHANGED vars
  <2>1. Written'
    BY <1>2 DEF Written, vars, Memory, Holds, ViewAddress, ViewStart
  <2> QED  BY <1>2, <2>1
<1>3. ASSUME NEW img \in Shape, RequireMemory(img) PROVE Keeps
  <2>1. Executes("require", [op |-> "require", image |-> img]) /\ mem' = mem
    BY <1>3 DEF RequireMemory
  <2> QED  BY <2>1, KeepsStill
<1>4. ASSUME NEW c \in Command, NEW op \in RegionOps, Executes(op, c), mem' = EachRegion(mem, c)
      PROVE  Keeps
  <2>1. c.op \in RegionOps /\ c.op # "fillBuffer"
        /\ op \notin {"write", "read", "query", "sample", "vertex"}
    BY <1>4 DEF Executes, RegionOps
  <2>2. Reach(c) = Held(Target(c))
    BY <2>1 DEF Reach, Held
  <2>3. ChangesOnly(Reach(c), mem, mem')
    BY <1>1, <1>4, <2>1, <2>2, EachRegionType
  <2> QED  BY <1>4, <2>1, <2>3, KeepsWriting
<1>5. ASSUME NEW c \in Command,
             \/ CopyBuffer(c) \/ CopyBufferToImage(c) \/ CopyImageToBuffer(c) \/ CopyImage(c)
             \/ BlitImage(c) \/ ClearColorImage(c) \/ ClearAttachment(c)
      PROVE  Keeps
  <2>1. \E op \in RegionOps : Executes(op, c) /\ mem' = EachRegion(mem, c)
    BY <1>5 DEF CopyBuffer, CopyBufferToImage, CopyImageToBuffer, CopyImage, BlitImage,
                ClearColorImage, ClearAttachment, RegionOps
  <2> QED  BY <1>4, <2>1
<1>6. ASSUME NEW c \in Command, FillBuffer(c) PROVE Keeps
  <2>1. Executes("fillBuffer", c) /\ c.op = "fillBuffer" /\ mem' = FilledBuffer(mem, c)
    BY <1>6 DEF FillBuffer, Executes
  <2>2. ChangesOnly(Reach(c), mem, mem')
    BY <1>1, <2>1, FillType
  <2> QED  BY <2>1, <2>2, KeepsWriting
<1>7. ASSUME NEW c \in Command, UpdateBuffer(c) PROVE Keeps
  <2>1. Executes("updateBuffer", c) /\ c.op = "updateBuffer" /\ mem' = UpdatedBuffer(mem, c)
    BY <1>7 DEF UpdateBuffer, Executes
  <2>2. Reach(c) = Held(c.dst)
    BY <2>1 DEF Reach, Held, Target
  <2>3. ChangesOnly(Reach(c), mem, mem')
    BY <1>1, <2>1, <2>2, UpdateType
  <2> QED  BY <2>1, <2>3, KeepsWriting
<1>8. ASSUME NEW c \in Command, HostWrite(c) PROVE Keeps
  <2>1. Executes("hostWrite", c) /\ c.op = "hostWrite"
    BY <1>8 DEF HostWrite, Executes
  <2>2. Reach(c) = Held(c.dst)
    BY <2>1 DEF Reach, Held, Target
  <2>3. ChangesOnly(Reach(c), mem, mem')
    BY <1>1, <1>8, <2>2, HostWriteType
  <2> QED  BY <2>1, <2>3, KeepsWriting
<1>9. ASSUME NEW c \in Command, WriteFragment(c) PROVE Keeps
  <2>1. Executes("fragment", c) /\ c.op = "fragment"
    BY <1>9 DEF WriteFragment, Executes
  <2>2. Reach(c) = Held(ViewInfo[c.view].of)
    BY <2>1 DEF Reach, Held, Target
  <2>3. ChangesOnly(Reach(c), mem, mem')
    BY <1>1, <1>9, <2>2, WriteFragmentType
  <2> QED  BY <2>1, <2>3, KeepsWriting
<1>10. ASSUME NEW c \in Command,
              ShaderRead(c) \/ ShaderSample(c) \/ ShaderQuery(c) \/ VertexInput(c)
       PROVE  Keeps
  <2>1. \E op \in {"read", "sample", "query", "vertex"} : Executes(op, c) /\ mem' = mem
    BY <1>10 DEF ShaderRead, ShaderSample, ShaderQuery, VertexInput
  <2> QED  BY <2>1, KeepsStill
<1>11. CASE Next
  <2>1. Keeps
    BY <1>3, <1>5, <1>6, <1>7, <1>8, <1>9, <1>10, <1>11, KeepsImageWrite DEF Next
  <2> QED  BY <2>1 DEF Keeps
<1> QED  BY <1>2, <1>11

-------------------------------------------------------------------------------
(* What a shader reads of what it wrote *)

\* What a format makes of a number that a channel may hold, and how far two
\* values are apart.
ValuesOf(f) == {Load(f, n) : n \in 0..(Values(f.size) - 1)}
Off(f, v, c) == Abs(Worth(f, v) - Worth(f, c))

(* One channel of what is read of a written texel.                           *)
LEMMA ChannelNearest ==
  ASSUME NEW f, IsFormat(f), NEW texel, IsTexel(texel), Storable(f, texel),
         NEW k \in 1..f.channels
  PROVE  LET now == Read(f, Write(f, texel))
             c == texel[k]
         IN IF f.kind = "SNORM" /\ c < -Unit THEN now[k] = Min(ValuesOf(f))
            ELSE \A v \in ValuesOf(f) : Off(f, now[k], c) <= Off(f, v, c)
<1> DEFINE now == Read(f, Write(f, texel))
           c == texel[k]
<1>1. k \in 1..4 /\ c \in Int
  BY TexelType DEF IsFormat
<1>2. now[k] = Kept(f, c)
  BY TexelType, ReadWritten DEF Kept
<1>3. f.kind = "SFLOAT" => c \in -(Word \div 2)..(Word \div 2 - 1)
  BY <1>1 DEF Storable
<1> HIDE DEF now, c
<1>4. CASE f.kind = "SNORM" /\ c < -Unit
  <2>1. Kept(f, c) = Min(ValuesOf(f))
    BY <1>1, <1>4, LeastKept DEF ValuesOf
  <2> QED  BY <1>2, <1>4, <2>1 DEF now, c
<1>5. CASE ~(f.kind = "SNORM" /\ c < -Unit)
  <2>1. ASSUME NEW n \in 0..(Values(f.size) - 1) PROVE Off(f, Kept(f, c), c) <= Off(f, Load(f, n), c)
    BY <1>1, <1>3, <1>5, NearestKept DEF Off
  <2>2. \A v \in ValuesOf(f) : Off(f, now[k], c) <= Off(f, v, c)
    BY <1>2, <2>1 DEF ValuesOf
  <2> QED  BY <1>5, <2>2 DEF now, c
<1> QED  BY <1>4, <1>5

(* The invariant says what the property says.                                *)
LEMMA WrittenNearest == Written => NearestStored
<1> SUFFICES ASSUME Written PROVE NearestStored
  OBVIOUS
<1>1. TypeOK
  BY DEF Written, TypeOK, Memory
<1>2. ASSUME last.op = "write"
      PROVE  LET f == ViewInfo[last.view].format
                 p == Place(last.view, last.coord)
                 now == TexelAt(last.view, p.xyz, p.layer, 0, f)
             IN \A k \in 1..f.channels :
                  IF f.kind = "SNORM" /\ last.texel[k] < -Unit THEN now[k] = Min(ValuesOf(f))
                  ELSE \A v \in ValuesOf(f) : Off(f, now[k], last.texel[k]) <= Off(f, v, last.texel[k])
  <2> DEFINE f == ViewInfo[last.view].format
             p == Place(last.view, last.coord)
             now == TexelAt(last.view, p.xyz, p.layer, 0, f)
  <2>1. last \in Command /\ Holds(mem, last)
    BY <1>2 DEF Written
  <2>2. now = Read(f, Write(f, last.texel))
    BY <2>1 DEF Holds, TexelAt
  <2>3. /\ InsideView(last.view, p.xyz, p.layer, 0) /\ IsTexel(last.texel)
        /\ Storable(f, last.texel)
    <3>1. IsCommand(last)
      BY <2>1, ApplicationAssumption
    <3> QED  BY <1>2, <3>1 DEF IsCommand, HasCoord
  <2>4. IsFormat(f)
    BY <2>3, ViewInImage
  <2> HIDE DEF now, f
  <2> SUFFICES ASSUME NEW k \in 1..f.channels
               PROVE  IF f.kind = "SNORM" /\ last.texel[k] < -Unit THEN now[k] = Min(ValuesOf(f))
                      ELSE \A v \in ValuesOf(f) : Off(f, now[k], last.texel[k]) <= Off(f, v, last.texel[k])
    BY DEF f, now
  <2> QED  BY <2>2, <2>3, <2>4, ChannelNearest
<1> QED  BY <1>1, <1>2 DEF NearestStored, ValuesOf, Off, Worth

(***************************************************************************)
(* Whatever commands and shader instructions run, in any order, what they  *)
(* compute from levels, layers, rows, slices and offsets are places of the *)
(* image or buffer they name: a step changes no other byte of memory.  The *)
(* exception is the last word of a fill of a number of bytes that is not a *)
(* multiple of four, which VK_WHOLE_SIZE allows: it may change up to three *)
(* bytes after its buffer.                                                 *)
(***************************************************************************)
THEOREM NothingWrittenOutside == Spec => WritesStayInside
<1>1. Init => Written
  BY WrittenInit
<1>2. Written /\ [Next]_vars => Written' /\ [ChangesInside]_vars
  BY NextKeeps
<1> QED  BY <1>1, <1>2, PTL DEF Spec, WritesStayInside

(***************************************************************************)
(* A texel that a shader writes is read back, from the same coordinate and *)
(* view, as the nearest values that the format of the view has, whatever   *)
(* the number of values of a byte, the sizes of images and what else the   *)
(* memory holds.                                                           *)
(***************************************************************************)
THEOREM WrittenIsNearest == Spec => []NearestStored
<1>1. Init => Written
  BY WrittenInit
<1>2. Written /\ [Next]_vars => Written' /\ [ChangesInside]_vars
  BY NextKeeps
<1>3. Written => NearestStored
  BY WrittenNearest
<1> QED  BY <1>1, <1>2, <1>3, PTL DEF Spec
==============================================================================
