------------------------------ MODULE MCInvocation ------------------------------
(* Small instances of Invocation for TLC: shaders that loop, call and branch, and  *)
(* shaders that compute with vectors, matrices, structures, arrays and pointers.   *)
EXTENDS Invocation

Word  == IntType(2)
Short == IntType(1)
Real  == FloatType(2)
Half1 == FloatType(1)
Word2 == VectorType(Word, 2)
Real2 == VectorType(Real, 2)
Real3 == VectorType(Real, 3)
Bool2 == VectorType(BoolType, 2)
Ptr(class, t) == PointerType(class, t, t.size)

Data(t, ns) == FlattenSeq([k \in DOMAIN ns |-> Bytes(ns[k], t.size)])
Value(id, t, n) == [kind |-> "value", id |-> id, type |-> t, value |-> n, specId |-> Null]
Composite(id, t, parts) ==
  [kind |-> "composite", id |-> id, type |-> t, parts |-> parts, special |-> FALSE]
Consts == <<Value("c0", Word, 0), Value("c1", Word, 1), Value("c2", Word, 2),
            Value("true", BoolType, 1), Value("false", BoolType, 0)>>
C3 == Value("c3", Word, 3)
\* Contents that tell all places of a buffer apart.
Pattern(size, n) == [k \in 1..size |-> ((k * k) + (n * k) + (k \div 3)) % Byte]
Var(id, class, t, contents) ==
  [id |-> id, class |-> class, type |-> t, bound |-> TRUE, elements |-> <<>>, init |-> Null,
   contents |-> contents]
WordVar(id, class) == Var(id, class, Word, {Bytes(n, 2) : n \in 0..2})
PrivateVar(id, init) == [Var(id, "private", Word, {}) EXCEPT !.init = init]

Simple(op)            == [op |-> op]
Does(id, fn, of, t, args) ==
  [op |-> "compute", id |-> id, fn |-> fn, of |-> of, type |-> t, args |-> args, indices |-> <<>>]
At(I1, indices)       == [I1 EXCEPT !.indices = indices]
LoadAs(id, t, p)      == [op |-> "load", id |-> id, type |-> t, pointer |-> p]
LoadOf(id, p)         == LoadAs(id, Word, p)
StoreTo(p, v)         == [op |-> "store", pointer |-> p, value |-> v]
Chain(id, class, t, base, indices) ==
  [op |-> "accessChain", id |-> id, type |-> Ptr(class, t), base |-> base, element |-> Null,
   indices |-> indices]
AtomicOf(id, fn, p, v) ==
  [op |-> "atomic", id |-> id, fn |-> fn, of |-> Word, pointer |-> p, value |-> v,
   comparator |-> Null]
Phi(id, values, from) == [op |-> "phi", id |-> id, values |-> values, from |-> from]
To(b)                 == [op |-> "branch", to |-> b]
If(v, b, c)           == [op |-> "branchConditional", on |-> v, to |-> b, else |-> c]
CallOf(id, f, args)   == [op |-> "call", id |-> id, func |-> f, args |-> args]
LocalAs(id, t, init)  == [op |-> "variable", id |-> id, type |-> Ptr("function", t), init |-> init]
Local1(id, init)      == LocalAs(id, Word, init)
Result(v)             == [op |-> "returnValue", value |-> v]
Fn(params, blocks)    == [params |-> params, first |-> "entry", blocks |-> blocks]
Point(name, model, f) ==
  [name |-> name, model |-> model, function |-> f, interface |-> <<>>]
Module(constants, functions, variables) ==
  [entry |-> "run", model |-> "GLCompute", entryPoints |-> <<Point("run", "GLCompute", "main")>>,
   capability |-> "Shader", localSizes |-> <<>>, workgroupSize |-> Null,
   specializations |-> {<<>>}, constants |-> constants, functions |-> functions,
   variables |-> variables]
Shader1(functions, variables) == Module(Consts, functions, variables)
Straight(constants, code, variables) ==
  Module(constants, "main" :> Fn(<<>>, "entry" :> Append(code, Simple("return"))), variables)

\* A loop round two values that depend on one another in every possible way, with a
\* counter and an OpLoopMerge; the condition is an OpPhi, too.
Loop(x, y) == Shader1("main" :> Fn(<<>>,
   ("entry" :> <<LoadOf("a", "in"), To("loop")>>)
   @@ ("loop" :> <<Phi("x", <<"a", x>>, <<"entry", "loop">>),
                   Phi("y", <<"c2", y>>, <<"entry", "loop">>),
                   Phi("more", <<"true", "last">>, <<"entry", "loop">>),
                   Phi("last", <<"true", "false">>, <<"entry", "loop">>),
                   Simple("nop"), If("more", "loop", "leave")>>)
   @@ ("leave" :> <<Phi("z", <<"x">>, <<"loop">>), To("exit")>>)
   @@ ("exit" :> <<StoreTo("out", "z"), StoreTo("shared", "y"), Simple("return")>>)),
   <<WordVar("in", "input"), WordVar("out", "uniform"), WordVar("shared", "workgroup")>>)
Loops == <<Loop("x", "x"), Loop("x", "y"), Loop("x", "a"), Loop("y", "x"), Loop("y", "y"),
           Loop("y", "a"), Loop("a", "x"), Loop("a", "y"), Loop("a", "a")>>

\* Calls with variables, one through a pointer and one from within another; an OpPhi
\* after a call that has branched.
Twice == Fn(<<"n">>,
   ("entry" :> <<Local1("v", "n"), LoadOf("m", "v"),
                 Does("z", "IEqual", Word, BoolType, <<"m", "c0">>),
                 If("z", "zero", "other")>>)
   @@ ("zero" :> <<Result("c2")>>)
   @@ ("other" :> <<AtomicOf("old", "AtomicIAdd", "v", "m"),
                    LoadOf("sum", "v"), Result("sum")>>))
Through == Fn(<<"p", "k">>,
   "entry" :> <<Local1("w", Null), StoreTo("w", "k"), CallOf("t", "twice", <<"k">>),
                LoadOf("w1", "w"), Does("s", "IAdd", Word, Word, <<"t", "w1">>), StoreTo("p", "s"),
                [op |-> "copyMemory", target |-> "own", source |-> "w"], Simple("return")>>)
Calls == Shader1(
   ("twice" :> Twice) @@ ("through" :> Through)
   @@ ("main" :> Fn(<<>>,
        ("entry" :> <<Local1("loc", "c1"), LoadOf("a", "in"), CallOf("r", "twice", <<"a">>),
                      [op |-> "switch", on |-> "r", literals |-> <<0, 1>>,
                       labels |-> <<"join", "next">>, else |-> "next"]>>)
        @@ ("next" :> <<CallOf("q", "through", <<"loc", "r">>), LoadOf("b", "loc"), To("join")>>)
        @@ ("join" :> <<Phi("f", <<"a", "b">>, <<"entry", "next">>),
                        CallOf("g", "twice", <<"f">>), StoreTo("out", "g"),
                        LoadOf("h", "own"), StoreTo("out", "h"), Simple("return")>>))),
   <<PrivateVar("own", "c1"), WordVar("in", "input"), WordVar("out", "uniform")>>)

\* Barriers, also in a function, and an invocation that may be killed in one.
Killing == Shader1(
   ("main" :> Fn(<<>>, "entry" :> <<LoadOf("a", "in"), Simple("barrier"),
        CallOf("r", "check", <<"a">>), Simple("nop"), StoreTo("out", "a"), Simple("return")>>))
   @@ ("check" :> Fn(<<"n">>,
        ("entry" :> <<Local1("v", "n"), Simple("barrier"), LoadOf("m", "v"),
                      Does("some", "INotEqual", Word, BoolType, <<"m", "c0">>),
                      If("some", "live", "dead")>>)
        @@ ("live" :> <<Simple("return")>>) @@ ("dead" :> <<Simple("kill")>>))),
   <<WordVar("in", "input"), WordVar("out", "uniform")>>)

-------------------------------------------------------------------------------
\* Every scalar operation, on vectors; the identifiers are the operations.
Each(fns, of, t, args) == [k \in DOMAIN fns |-> Does(fns[k], fns[k], of, t, args)]
Integers1 == Straight(Consts \o <<C3, Composite("shift", Word2, <<"c1", "c3">>)>>,
  <<LoadAs("a", Word2, "in"), LoadAs("b", Word2, "by")>>
  \o Each(<<"IAdd", "ISub", "IMul", "UDiv", "UMod", "SDiv", "SRem", "SMod", "BitwiseAnd",
            "BitwiseOr", "BitwiseXor">>, Word, Word2, <<"a", "b">>)
  \o Each(<<"ShiftLeftLogical", "ShiftRightLogical", "ShiftRightArithmetic">>,
          Word, Word2, <<"a", "shift">>)
  \o Each(<<"Not", "SNegate">>, Word, Word2, <<"a">>)
  \o Each(<<"IEqual", "INotEqual", "ULessThan", "ULessThanEqual", "UGreaterThan",
            "UGreaterThanEqual", "SLessThan", "SLessThanEqual", "SGreaterThan",
            "SGreaterThanEqual">>, Word, Bool2, <<"a", "b">>)
  \o Each(<<"LogicalAnd", "LogicalOr", "LogicalEqual", "LogicalNotEqual">>,
          BoolType, Bool2, <<"ULessThan", "SLessThan">>)
  \o Each(<<"LogicalNot">>, BoolType, Bool2, <<"ULessThan">>)
  \o <<Does("all", "All", BoolType, BoolType, <<"LogicalOr">>),
       Does("any", "Any", BoolType, BoolType, <<"LogicalAnd">>),
       Does("mixed", "Select", BoolType, Word2, <<"ULessThan", "a", "b">>),
       Does("whole", "Select", BoolType, Word2, <<"all", "a", "b">>),
       Does("shorts", "UConvert", Word, VectorType(Short, 2), <<"a">>),
       Does("words", "SConvert", Short, Word2, <<"shorts">>),
       Does("cast", "Bitcast", Short, Word, <<"shorts">>),
       Does("back", "Bitcast", Word, VectorType(Short, 2), <<"cast">>),
       Does("reals", "ConvertSToF", Word, Real2, <<"a">>),
       Does("naturals", "ConvertUToF", Word, Real2, <<"b">>), StoreTo("in", "mixed")>>,
  <<Var("in", "private", Word2, {Data(Word, <<n, m>>) : n \in {0, 1, 7, 13}, m \in {3, 15}}),
    Var("by", "uniform", Word2, {Data(Word, <<n, m>>) : n \in {1, 14}, m \in {2, 15}})>>)

\* The least float is the NaN, the greatest an infinity.
Floats == Straight(Consts,
  <<LoadAs("a", Real2, "in"), LoadAs("b", Real2, "by")>>
  \o Each(<<"FAdd", "FSub", "FMul", "FMax", "FMin">>, Real, Real2, <<"a", "b">>)
  \o Each(<<"FNegate", "FAbs">>, Real, Real2, <<"a">>)
  \o Each(<<"Fma", "NClamp">>, Real, Real2, <<"a", "b", "FMax">>)
  \o Each(<<"IsNan", "IsInf">>, Real, Bool2, <<"a">>)
  \o Each(<<"FOrdEqual", "FOrdNotEqual", "FOrdLessThan", "FOrdLessThanEqual",
            "FOrdGreaterThan", "FOrdGreaterThanEqual", "FUnordEqual", "FUnordNotEqual",
            "FUnordLessThan", "FUnordLessThanEqual", "FUnordGreaterThan",
            "FUnordGreaterThanEqual">>, Real, Bool2, <<"a", "b">>)
  \o <<Does("narrow", "FConvert", Real, VectorType(Half1, 2), <<"a">>),
       Does("wide", "FConvert", Half1, Real2, <<"narrow">>),
       Does("ints", "ConvertFToS", Real, Word2, <<"FAbs">>),
       Does("naturals", "ConvertFToU", Real, Word2, <<"FAbs">>),
       Does("bits", "Bitcast", Real, Word2, <<"a">>)>>,
  <<Var("in", "input", Real2, {Data(Real, <<n, m>>) : n \in {-7, 0, 3, 7}, m \in {-8, 2}}),
    Var("by", "private", Real2, {Data(Real, <<n, m>>) : n \in {-8, -2, 7}, m \in {0, 2, 3}})>>)

\* Composites of several kinds, with components at constant and at computed places.
Pair == StructType(<<Member(Word2, Follows, NoLayout), Member(Short, Follows, NoLayout)>>)
Composites == Straight(
  Consts \o <<Value("narrow", Short, 3), Value("c7", Word, 7),
              Composite("both", Word2, <<"c7", "c2">>),
              Composite("pair", Pair, <<"both", "narrow">>)>>,
  <<LoadAs("v", Word2, "in"), LoadOf("i", "at"),
    At(Does("x", "CompositeExtract", Word, Word, <<"v">>), <<0>>),
    Does("y", "VectorExtractDynamic", Word, Word, <<"v", "i">>),
    Does("v1", "VectorInsertDynamic", Word, Word2, <<"v", "x", "i">>),
    Does("w", "CompositeConstruct", Word, VectorType(Word, 3), <<"x", "y", "c2">>),
    At(Does("s", "VectorShuffle", Word, VectorType(Word, 4), <<"w", "v">>), <<4, 2, 3, 0>>),
    At(Does("u", "VectorShuffle", Word, Word2, <<"v", "w">>), <<Null, 2>>),
    Does("q", "CompositeConstruct", Word, Pair, <<"v1", "narrow">>),
    At(Does("q1", "CompositeInsert", Word, Pair, <<"y", "q">>), <<0, 1>>),
    At(Does("q2", "CompositeInsert", Word, Pair, <<"v", "pair">>), <<0>>),
    At(Does("e", "CompositeExtract", Word, Word, <<"q1">>), <<0, 1>>),
    At(Does("f", "CompositeExtract", Word, Short, <<"q2">>), <<1>>),
    Does("pairs", "CompositeConstruct", Word, ArrayType(Pair, 2, 7), <<"q1", "q2">>),
    At(Does("g", "CompositeExtract", Word, Word2, <<"pairs">>), <<1, 0>>),
    Does("none", "Undef", Word, Pair, <<"v">>),
    LocalAs("p", ArrayType(Pair, 2, 7), Null),
    Chain("second", "function", Pair, "p", <<"c1">>), StoreTo("second", "q1"),
    Chain("short", "function", Short, "p", <<"i", "c1">>), LoadAs("h", Short, "short"),
    Does("same", "CopyObject", Word, Ptr("function", Pair), <<"second">>),
    LoadAs("last", Pair, "same")>>,
  <<Var("in", "input", Word2, {Data(Word, <<1, 6>>), Data(Word, <<9, 0>>)}),
    Var("at", "uniform", Word, {Bytes(0, 2), Bytes(1, 2)})>>)

\* A block with a matrix of two columns and three rows in each of the two layouts.
Mat == MatrixType(Real3, 2)
Uniforms == StructType(<<Member(Word, 0, NoLayout), Member(Mat, 3, Layout("ROW_MAJOR", 5)),
                         Member(ArrayType(Mat, 1, 14), Follows, Layout("COL_MAJOR", 7)),
                         Member(Word, Follows, NoLayout)>>)
Matrices == [Straight(Append(Consts, C3),
  <<Chain("tail", "uniform", Word, "block", <<"c3">>), LoadOf("i", "tail"),
    Chain("rm", "uniform", Mat, "block", <<"c1">>), LoadAs("m", Mat, "rm"),
    Chain("column", "uniform", Real3, "block", <<"c1", "i">>), LoadAs("v", Real3, "column"),
    Chain("element", "uniform", Real, "column", <<"c2">>), LoadAs("e", Real, "element"),
    Chain("cm", "uniform", Mat, "block", <<"c2", "c0">>), LoadAs("n", Mat, "cm"),
    StoreTo("cm", "m"), StoreTo("rm", "n"),
    Chain("target", "uniform", Real3, "cm", <<"c1">>),
    Chain("other", "uniform", Real, "block", <<"c1", "i", "c1">>), StoreTo("other", "e"),
    CallOf("done", "through", <<"column", "v">>),
    Does("either", "Select", BoolType, Ptr("uniform", Real3), <<"true", "column", "target">>),
    LoadAs("w", Real3, "either"),
    At(Does("pair", "VectorShuffle", Real, Real2, <<"w", "v">>), <<1, 3>>),
    Does("mv", "MatrixTimesVector", Real, Real3, <<"m", "pair">>),
    Does("vm", "VectorTimesMatrix", Real, Real2, <<"v", "n">>),
    Does("vs", "VectorTimesScalar", Real, Real3, <<"v", "e">>),
    Does("ms", "MatrixTimesScalar", Real, Mat, <<"n", "e">>),
    Does("d", "Dot", Real, Real, <<"v", "w">>),
    LocalAs("copy", Mat, "ms"), Chain("part", "function", Real3, "copy", <<"c1">>),
    StoreTo("part", "vs"), LoadAs("all", Mat, "copy")>>,
  <<Var("block", "uniform", Uniforms,
        {Pattern(Uniforms.size - 2, n) \o Bytes(i, 2) : n \in {0, 1}, i \in {0, 1}})>>)
  EXCEPT !.functions = @ @@ ("through" :> Fn(<<"to", "value">>,
    "entry" :> <<Chain("row", "uniform", Real, "to", <<"c0">>), LoadAs("r", Real, "row"),
                 StoreTo("to", "value"), StoreTo("row", "r"), Simple("return")>>))]

\* Arrays with gaps, indices that an array of descriptors does not have or to which
\* nothing is bound, and a variable to which nothing is bound; every atomic operation.
Item  == StructType(<<Member(Word, 0, NoLayout), Member(Short, 2, NoLayout)>>)
Items == StructType(<<Member(ArrayType(Item, 3, 4), 0, NoLayout)>>)
ToItem == PointerType("uniform", Item, 4)
Atomics == <<"AtomicLoad", "AtomicExchange", "AtomicIIncrement", "AtomicIDecrement",
  "AtomicIAdd", "AtomicISub", "AtomicAnd", "AtomicOr", "AtomicXor", "AtomicUMax",
  "AtomicUMin", "AtomicSMax", "AtomicSMin">>
Arrays == Straight(Consts,
  <<LoadOf("i", "at"),
    [Chain("item", "uniform", Item, "items", <<"c0", "i">>) EXCEPT !.type = ToItem],
    LoadAs("v", Item, "item"),
    [Chain("next", "uniform", Item, "item", <<>>) EXCEPT !.element = "c1", !.type = ToItem],
    LoadAs("w", Item, "next"), StoreTo("next", "v"),
    [op |-> "copyMemory", target |-> "item", source |-> "own"],
    Chain("bound", "uniform", Item, "set", <<"i">>), StoreTo("bound", "v"),
    Chain("short", "uniform", Short, "set", <<"i", "c1">>), LoadAs("s", Short, "short"),
    Chain("lost", "uniform", Short, "nothing", <<"c1">>), StoreTo("lost", "s"),
    LoadAs("zero", Short, "lost"),
    Chain("word", "uniform", Word, "item", <<"c0">>)>>
  \o [k \in DOMAIN Atomics |-> AtomicOf(Atomics[k], Atomics[k], "word", "i")]
  \o <<AtomicOf(Null, "AtomicStore", "word", "c2"),
       [AtomicOf("swap", "AtomicCompareExchange", "word", "i") EXCEPT !.comparator = "c2"],
       [AtomicOf("stays", "AtomicCompareExchange", "word", "c1") EXCEPT !.comparator = "c2"],
       Chain("gone", "uniform", Word, "set", <<"i", "c0">>),
       AtomicOf("never", "AtomicIAdd", "gone", "c2")>>,
  <<Var("items", "uniform", Items, {Pattern(Items.size, n) : n \in {0, 3}}),
    Var("at", "uniform", Word, {Bytes(n, 2) : n \in 0..3}),
    [Var("set", "uniform", ArrayType(Item, 3, 4), {Pattern(6, 2)})
       EXCEPT !.elements = <<<<3, 0>>, <<0, 0>>, <<3, 3>>>>],
    [Var("nothing", "uniform", Item, {}) EXCEPT !.bound = FALSE],
    Var("own", "private", Item, {Pattern(3, 1)})>>)

\* Constants that are specialized and others that are computed from them, one of which is
\* the size of a workgroup; two entry points with one name, and decorations of objects.
Special(id, t, n, specId) == [Value(id, t, n) EXCEPT !.specId = specId]
Op(id, t, fn, of, args, indices) ==
  [kind |-> "op", id |-> id, type |-> t,
   inst |-> [fn |-> fn, of |-> of, args |-> args, indices |-> indices]]
Word3 == VectorType(Word, 3)
Specials == [Module(
    Consts \o <<Special("x", Word, 2, 1), Special("y", Word, 1, 4), Special("flag", BoolType, 0, 2),
                [Composite("size", Word3, <<"x", "y", "c1">>) EXCEPT !.special = TRUE],
                Op("sum", Word, "IAdd", Word, <<"x", "y">>, <<>>),
                Op("either", Word, "Select", BoolType, <<"flag", "sum", "x">>, <<>>),
                Op("part", Word, "CompositeExtract", Word, <<"size">>, <<0>>),
                [kind |-> "null", id |-> "zeros", type |-> Word2],
                [kind |-> "undef", id |-> "none", type |-> Short]>>,
    ("main" :> Fn(<<>>, "entry" :>
       <<LoadOf("a", "own"), StoreTo("out", "a"), StoreTo("last", "either"),
         StoreTo("pair", "zeros"), StoreTo("last", "part"), Simple("return")>>))
    @@ ("other" :> Fn(<<>>, "entry" :> <<Simple("return")>>)),
    <<Var("pair", "private", Word2, {Data(Word, <<1, 2>>)}), PrivateVar("own", "sum"),
      WordVar("last", "uniform"), WordVar("out", "uniform")>>)
  EXCEPT !.entryPoints = <<Point("run", "Vertex", "other"), Point("run", "GLCompute", "main")>>,
         !.localSizes = <<[function |-> "main", size |-> <<3, 1, 2>>]>>,
         !.specializations = {<<>>, 1 :> 5, (1 :> 3) @@ (2 :> 2) @@ (9 :> 1)},
         !.workgroupSize = "size"]
\* The size of the workgroup is that of the entry point.
Sized == [Specials EXCEPT !.workgroupSize = Null, !.specializations = {4 :> 3},
            !.localSizes = <<[function |-> "other", size |-> <<1, 2, 1>>],
                             [function |-> "main", size |-> <<3, 1, 2>>]>>]
\* Programs that ask for what is not implemented.
Unimplemented == <<[Specials EXCEPT !.capability = "DeviceEnqueue"],
                   [Specials EXCEPT !.entryPoints = <<Point("run", "Geometry", "main")>>]>>

AllPrograms == Loops \o <<Calls, Killing, Integers1, Floats, Composites, Matrices, Arrays,
                          Specials, Sized>> \o Unimplemented
=================================================================================
