------------------------------- MODULE Arithmetic -------------------------------
(*****************************************************************************)
(* What the scalar operations of a shader compute (the lambdas that          *)
(* Invocation's handlers hand to executeOp, and Memory::atomic).             *)
(*                                                                           *)
(* A number is what the bytes of a scalar stand for.  A float of the model   *)
(* is an integer in two's complement: the least is the NaN, the greatest and *)
(* its negation are the infinities, and there are no fractions.  Divisors    *)
(* are not zero and shifts are less than the width, which SPIR-V asks for.   *)
(*****************************************************************************)
EXTENDS Types, Bitwise

ASSUME BitsAssumption == \E b \in 1..Byte : 2^b = Byte

Half(t)      == Byte^t.size \div 2
Signed(t, v) == IF v >= Half(t) THEN v - Byte^t.size ELSE v
Sign(v)      == IF v < 0 THEN -1 ELSE 1
Abs(v)       == v * Sign(v)
Holds(b)     == IF b THEN 1 ELSE 0
\* C++ division truncates.
Quotient(a, b) == Sign(a) * Sign(b) * (Abs(a) \div Abs(b))

NaN(t)      == -Half(t)
Infinity(t) == Half(t) - 1
IsInf(t, v) == Abs(v) = Infinity(t)
Least(a, b)    == IF a < b THEN a ELSE b
Greatest(a, b) == IF a < b THEN b ELSE a
Rounded(t, v)  == Greatest(-Infinity(t), Least(Infinity(t), v))
Unordered(t, a, b) == NaN(t) \in {a, b}
FAdd(t, a, b) == CASE Unordered(t, a, b) -> NaN(t)
                   [] IsInf(t, a) /\ b = -a -> NaN(t)
                   [] IsInf(t, a) -> a
                   [] IsInf(t, b) -> b
                   [] OTHER -> Rounded(t, a + b)
FMul(t, a, b) == IF Unordered(t, a, b) \/ (a * b = 0 /\ (IsInf(t, a) \/ IsInf(t, b)))
                 THEN NaN(t) ELSE Rounded(t, a * b)
FNeg(t, a)    == IF a = NaN(t) THEN a ELSE -a
\* fmax and fmin answer with the number when there is a NaN.
FMax(t, a, b) == IF a = NaN(t) THEN b ELSE Greatest(a, b)
FMin(t, a, b) == CASE a = NaN(t) -> b [] b = NaN(t) -> a [] OTHER -> Least(a, b)

\* executeOpUInt: the operands as they are.
Integral(fn, a, b) ==
  CASE fn = "IAdd" -> a + b
    [] fn = "ISub" -> a - b
    [] fn = "IMul" -> a * b
    [] fn = "IEqual" -> Holds(a = b)
    [] fn = "INotEqual" -> Holds(a # b)
Bits(fn, of, a, b) ==
  CASE fn = "BitwiseAnd" -> a & b
    [] fn = "BitwiseOr" -> a | b
    [] fn = "BitwiseXor" -> a ^^ b
    [] fn = "Not" -> Byte^of.size - 1 - a
Unsigned(fn, a, b) ==
  CASE fn = "UDiv" -> a \div b
    [] fn = "UMod" -> a % b
    [] fn = "ULessThan" -> Holds(a < b)
    [] fn = "ULessThanEqual" -> Holds(a <= b)
    [] fn = "UGreaterThan" -> Holds(a > b)
    [] fn = "UGreaterThanEqual" -> Holds(a >= b)
    [] fn = "ShiftLeftLogical" -> a * 2^b
    [] fn = "ShiftRightLogical" -> a \div 2^b
IntegralOps == {"IAdd", "ISub", "IMul", "IEqual", "INotEqual"}
BitOps      == {"BitwiseAnd", "BitwiseOr", "BitwiseXor", "Not"}

\* executeOpSInt.  SMod takes the remainder of the absolute value, which differs
\* from SPIR-V's for operands of different signs.
SignedOp(fn, of, n) ==
  LET a == Signed(of, n[1])
      b == Signed(of, n[Len(n)])
  IN CASE fn = "SDiv" -> Quotient(a, b)
       [] fn = "SRem" -> a - b * Quotient(a, b)
       [] fn = "SMod" -> (Abs(a) % Abs(b)) * Sign(b)
       [] fn = "SNegate" -> -a
       [] fn = "SLessThan" -> Holds(a < b)
       [] fn = "SLessThanEqual" -> Holds(a <= b)
       [] fn = "SGreaterThan" -> Holds(a > b)
       [] fn = "SGreaterThanEqual" -> Holds(a >= b)
       [] fn = "ShiftRightArithmetic" -> a \div 2^b
SignedOps == {"SDiv", "SRem", "SMod", "SNegate", "SLessThan", "SLessThanEqual",
  "SGreaterThan", "SGreaterThanEqual", "ShiftRightArithmetic"}

\* executeOpFP, also for the extended instructions that GLSLstd450 numbers.
Floating(fn, of, n) ==
  LET a == Signed(of, n[1])
      b == Signed(of, n[Len(n)])
  IN CASE fn = "FAdd" -> FAdd(of, a, b)
       [] fn = "FSub" -> FAdd(of, a, FNeg(of, b))
       [] fn = "FMul" -> FMul(of, a, b)
       [] fn = "FNegate" -> FNeg(of, a)
       [] fn = "FAbs" -> IF a = NaN(of) THEN a ELSE Abs(a)
       [] fn = "Fma" -> FAdd(of, FMul(of, a, Signed(of, n[2])), b)
       [] fn = "FMax" -> FMax(of, a, b)
       [] fn = "FMin" -> FMin(of, a, b)
       [] fn = "NClamp" -> FMin(of, FMax(of, a, Signed(of, n[2])), b)
       [] fn = "IsNan" -> Holds(a = NaN(of))
       [] fn = "IsInf" -> Holds(IsInf(of, a))

\* Comparisons, which a NaN makes false if they are ordered and true if not.
Ordered(fn, a, b) ==
  CASE fn = "FOrdEqual" -> a = b
    [] fn = "FOrdNotEqual" -> a # b
    [] fn = "FOrdLessThan" -> a < b
    [] fn = "FOrdLessThanEqual" -> a <= b
    [] fn = "FOrdGreaterThan" -> a > b
    [] fn = "FOrdGreaterThanEqual" -> a >= b
OrUnordered(fn, a, b) ==
  CASE fn = "FUnordEqual" -> a = b
    [] fn = "FUnordNotEqual" -> a # b
    [] fn = "FUnordLessThan" -> a < b
    [] fn = "FUnordLessThanEqual" -> a <= b
    [] fn = "FUnordGreaterThan" -> a > b
    [] fn = "FUnordGreaterThanEqual" -> a >= b
FOrdOps   == {"FOrdEqual", "FOrdNotEqual", "FOrdLessThan", "FOrdLessThanEqual",
  "FOrdGreaterThan", "FOrdGreaterThanEqual"}
FUnordOps == {"FUnordEqual", "FUnordNotEqual", "FUnordLessThan", "FUnordLessThanEqual",
  "FUnordGreaterThan", "FUnordGreaterThanEqual"}
Compared(fn, of, a, b) ==
  Holds(IF fn \in FOrdOps THEN ~Unordered(of, a, b) /\ Ordered(fn, a, b)
                          ELSE Unordered(of, a, b) \/ OrUnordered(fn, a, b))

\* executeOp with bool.
Logical(fn, n) ==
  LET a == n[1] = 1
      b == n[Len(n)] = 1
  IN CASE fn = "LogicalAnd" -> Holds(a /\ b)
       [] fn = "LogicalOr" -> Holds(a \/ b)
       [] fn = "LogicalNot" -> Holds(~a)
       [] fn = "LogicalEqual" -> Holds(a = b)
       [] fn = "LogicalNotEqual" -> Holds(a # b)

\* Conversions between numbers: of the same kind, and of different kinds.
Narrowed(fn, of, to, v) ==
  CASE fn = "UConvert" -> v
    [] fn = "SConvert" -> Signed(of, v)
    [] fn = "FConvert" -> LET a == Signed(of, v) IN
         CASE a = NaN(of) -> NaN(to)
           [] IsInf(of, a) -> Sign(a) * Infinity(to)
           [] OTHER -> Rounded(to, a)
Converted(fn, of, to, v) ==
  CASE fn \in {"ConvertFToS", "ConvertFToU"} -> Signed(of, v)
    [] fn = "ConvertSToF" -> Rounded(to, Signed(of, v))
    [] fn = "ConvertUToF" -> Rounded(to, v)
Narrowings  == {"UConvert", "SConvert", "FConvert"}
Conversions == {"ConvertFToS", "ConvertFToU", "ConvertSToF", "ConvertUToF"}

\* One component: operands of scalar type `of`, a result of scalar type `to`.
Applied(fn, of, to, n) ==
  CASE fn \in Narrowings  -> Narrowed(fn, of, to, n[1])
    [] fn \in Conversions -> Converted(fn, of, to, n[1])
    [] of.kind = "bool"   -> Logical(fn, n)
    [] fn \in FOrdOps \cup FUnordOps ->
         Compared(fn, of, Signed(of, n[1]), Signed(of, n[2]))
    [] of.kind = "float"  -> Floating(fn, of, n)
    [] fn \in SignedOps   -> SignedOp(fn, of, n)
    [] fn \in IntegralOps -> Integral(fn, n[1], n[2])
    [] fn \in BitOps      -> Bits(fn, of, n[1], n[Len(n)])
    [] OTHER              -> Unsigned(fn, n[1], n[2])

\* What Memory::atomic leaves in place of old, and atomicCmpXchg with a comparator.
\* SMax and SMin compare signed numbers.
Atomic(fn, of, old, v, comparator) ==
  CASE fn = "AtomicLoad" -> old
    [] fn \in {"AtomicStore", "AtomicExchange"} -> v
    [] fn = "AtomicIIncrement" -> old + 1
    [] fn = "AtomicIDecrement" -> old - 1
    [] fn = "AtomicIAdd" -> old + v
    [] fn = "AtomicISub" -> old - v
    [] fn = "AtomicAnd" -> old & v
    [] fn = "AtomicOr" -> old | v
    [] fn = "AtomicXor" -> old ^^ v
    [] fn = "AtomicUMax" -> Greatest(old, v)
    [] fn = "AtomicUMin" -> Least(old, v)
    [] fn = "AtomicSMax" -> Greatest(Signed(of, old), Signed(of, v))
    [] fn = "AtomicSMin" -> Least(Signed(of, old), Signed(of, v))
    [] fn = "AtomicCompareExchange" -> IF old = comparator THEN v ELSE old
=================================================================================
