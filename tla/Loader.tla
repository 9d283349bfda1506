--------------------------------- MODULE Loader ---------------------------------
(*****************************************************************************)
(* From the text of a program to a compute pipeline: ModuleBuilder, to which *)
(* the parser hands one instruction after the other and which builds a       *)
(* Module, and PipelineStage, which specializes a copy of its objects.       *)
(*****************************************************************************)
EXTENDS Assembly

VARIABLES shader,  \* the name of the program
          unparsed, \* the instructions of its text still to be processed
          builder, \* the variables of ModuleBuilder; Null once it has called abort
          Mod,     \* the module
          stage    \* the pipeline's stage, or Null

loaderVars == <<shader, unparsed, builder, Mod, stage>>

program == Programs[shader]
Line == Head(unparsed)
Mapped(f, key, value) == (key :> value) @@ f

NoFunction == [id |-> Null, params |-> <<>>, first |-> Null, blocks |-> <<>>]
NoBlock    == [id |-> Null, code |-> <<>>]
LoaderInit ==
  /\ shader \in DOMAIN Programs /\ unparsed = Texts[shader] /\ stage = Null
  /\ builder = [CurrentFunction |-> NoFunction, CurrentBlock |-> NoBlock, ArrayStrides |-> <<>>,
                MemberDecorations |-> <<>>, ObjectDecorations |-> <<>>, EntryPoints |-> <<>>]
  /\ Mod = [Types |-> <<>>, Objects |-> <<>>, functions |-> <<>>, EntryPoints |-> <<>>,
            Variables |-> <<>>, SpecConstants |-> <<>>, SpecConstantOps |-> <<>>,
            LocalSizes |-> <<>>, WorkgroupSizeId |-> Null]

\* processInstruction: outside functions the opcode decides.
Loading == builder # Null /\ unparsed # <<>>
Inside  == builder.CurrentFunction.id # Null
Parses(ops) == /\ Loading /\ Line.op \in ops /\ unparsed' = Tail(unparsed)
               /\ UNCHANGED <<shader, stage>>
Outside(ops) == Parses(ops) /\ ~Inside /\ UNCHANGED builder
getType(id) == Mod.Types[id]
AddsObject(o) == Mod' = [Mod EXCEPT !.Objects = Mapped(@, Line.id, o)]

-------------------------------------------------------------------------------
\* Functions.
EntryPointOf(f) ==
  LET E == builder.EntryPoints[f]
  IN [function |-> f, name |-> E.name, model |-> E.model,
      variables |-> [k \in DOMAIN E.interface |->
        CHOOSE v \in Range(Mod.Variables) : v.id = E.interface[k]]]
Function ==
  /\ Parses({"OpFunction"})
  /\ builder' = [builder EXCEPT !.CurrentFunction = [NoFunction EXCEPT !.id = Line.id]]
  /\ Mod' = IF Line.id \in DOMAIN builder.EntryPoints
            THEN [Mod EXCEPT !.EntryPoints = Append(@, EntryPointOf(Line.id))] ELSE Mod
FunctionParameter ==
  /\ Parses({"OpFunctionParameter"})
  /\ builder' = [builder EXCEPT !.CurrentFunction.params = Append(@, Line.id)]
  /\ UNCHANGED Mod
\* addBlock(CurrentBlock)
WithBlock == IF builder.CurrentBlock.id = Null THEN builder.CurrentFunction.blocks
             ELSE Mapped(builder.CurrentFunction.blocks, builder.CurrentBlock.id,
                         builder.CurrentBlock.code)
Label ==
  /\ Parses({"OpLabel"})
  /\ builder' = [builder EXCEPT
       !.CurrentFunction.blocks = WithBlock,
       !.CurrentFunction.first = IF builder.CurrentBlock.id = Null THEN Line.id ELSE @,
       !.CurrentBlock = [id |-> Line.id, code |-> <<>>]]
  /\ UNCHANGED Mod
\* Every other instruction in a function, with its type; OpLine is dropped.
Markers == {"OpFunction", "OpFunctionParameter", "OpLabel", "OpFunctionEnd"}
Instruction(line) ==
  IF "type" \in DOMAIN line THEN [line EXCEPT !.type = getType(line.type)] ELSE line
BodyInstruction ==
  /\ Loading /\ Inside /\ Line.op \notin Markers
  /\ unparsed' = Tail(unparsed) /\ UNCHANGED <<shader, stage, Mod>>
  /\ builder' = IF Line.op = "OpLine" THEN builder
                ELSE [builder EXCEPT !.CurrentBlock.code = Append(@, Instruction(Line))]
FunctionEnd ==
  /\ Parses({"OpFunctionEnd"})
  /\ Mod' = LET F == builder.CurrentFunction
            IN [Mod EXCEPT !.functions = Mapped(@, F.id,
                  [params |-> F.params, first |-> F.first, blocks |-> WithBlock])]
  /\ builder' = [builder EXCEPT !.CurrentFunction = NoFunction, !.CurrentBlock = NoBlock]

-------------------------------------------------------------------------------
\* What a program asks for and says of its entry points.
Capabilities == {"Shader", "Matrix", "Int16", "Int64", "Float64", "VariablePointers"}
Capability ==
  /\ Parses({"OpCapability"}) /\ UNCHANGED Mod
  /\ builder' = IF Line.name \in Capabilities THEN builder ELSE Null
Models == {"GLCompute", "Vertex", "Fragment", "Kernel"}
EntryPoint ==
  /\ Parses({"OpEntryPoint"}) /\ UNCHANGED Mod
  /\ builder' = IF Line.model \notin Models THEN Null
                ELSE [builder EXCEPT !.EntryPoints = Mapped(@, Line.function,
                        [name |-> Line.name, model |-> Line.model,
                         interface |-> Line.interface])]
\* LocalSize
ExecutionMode ==
  /\ Outside({"OpExecutionMode"})
  /\ Mod' = [Mod EXCEPT !.LocalSizes = Mapped(@, Line.function, Line.size)]
\* OpSource and the like.
Ignored == Outside({"OpSource"}) /\ UNCHANGED Mod

\* Decorations.
Added(map, key, name, value) ==
  Mapped(map, key, Mapped(IF key \in DOMAIN map THEN map[key] ELSE <<>>, name, value))
DecorateObject ==
  /\ Parses({"OpDecorate"}) /\ ~Inside
  /\ LET d == Line.decoration IN
     /\ builder' = CASE d = "ArrayStride" ->
                          [builder EXCEPT !.ArrayStrides = Mapped(@, Line.target, Line.value)]
                     [] d = "Binding" ->
                          [builder EXCEPT !.ObjectDecorations =
                             Added(@, Line.target, d, Line.value)]
                     [] OTHER -> builder
     /\ Mod' = CASE d = "SpecId" ->
                      [Mod EXCEPT !.SpecConstants = Mapped(@, Line.value, Line.target)]
                 [] d = "WorkgroupSize" -> [Mod EXCEPT !.WorkgroupSizeId = Line.target]
                 [] OTHER -> Mod
\* Fault: a member keeps its last decoration only.
DecorateMemberOnce ==
  /\ Parses({"OpMemberDecorate"}) /\ ~Inside /\ UNCHANGED Mod
  /\ builder' = [builder EXCEPT !.MemberDecorations =
       Mapped(@, <<Line.target, Line.member>>, Line.decoration :> Line.value)]
DecorateMember ==
  /\ Parses({"OpMemberDecorate"}) /\ ~Inside /\ UNCHANGED Mod
  /\ builder' = [builder EXCEPT !.MemberDecorations =
       Added(@, <<Line.target, Line.member>>, Line.decoration, Line.value)]

-------------------------------------------------------------------------------
\* Types.  An array has the length that the object of its length has now.
Stride(element) == IF Line.id \in DOMAIN builder.ArrayStrides
                   THEN builder.ArrayStrides[Line.id] ELSE element.size
DecoratedMember(k) ==
  LET key  == <<Line.id, k>>
      with == IF key \in DOMAIN builder.MemberDecorations
              THEN builder.MemberDecorations[key] ELSE <<>>
      has(name) == name \in DOMAIN with
  IN Member(getType(Line.members[k]), IF has("Offset") THEN with["Offset"] ELSE Follows,
            IF has("MatrixStride")
            THEN Layout(IF has("ColMajor") THEN "COL_MAJOR" ELSE "ROW_MAJOR", with["MatrixStride"])
            ELSE NoLayout)
DeclaredType ==
  LET of == getType(Line.of) IN
  CASE Line.op = "OpTypeBool"    -> BoolType
    [] Line.op = "OpTypeInt"     -> IntType(Line.width)
    [] Line.op = "OpTypeFloat"   -> FloatType(Line.width)
    [] Line.op = "OpTypeVector"  -> VectorType(of, Line.count)
    [] Line.op = "OpTypeMatrix"  -> MatrixType(of, Line.count)
    [] Line.op = "OpTypeArray"   -> ArrayType(of, Get(Mod.Objects[Line.length], 0), Stride(of))
    [] Line.op = "OpTypePointer" -> PointerType(Line.class, of, Stride(of))
    [] Line.op = "OpTypeStruct"  -> StructType([k \in DOMAIN Line.members |-> DecoratedMember(k)])
Type ==
  /\ Outside({"OpTypeBool", "OpTypeInt", "OpTypeFloat", "OpTypeVector", "OpTypeMatrix",
              "OpTypeArray", "OpTypePointer", "OpTypeStruct"})
  /\ Mod' = [Mod EXCEPT !.Types = Mapped(@, Line.id, DeclaredType)]

\* Constants and variables.
Constant == Outside({"OpConstant"}) /\ AddsObject(Scalar(getType(Line.type), Line.value))
ConstantBool ==
  /\ Outside({"OpConstantTrue", "OpConstantFalse"})
  /\ AddsObject(Scalar(getType(Line.type), Holds(Line.op = "OpConstantTrue")))
ConstantNull ==
  /\ Outside({"OpConstantNull"}) /\ AddsObject(Blank(getType(Line.type), 0))
UndefObject ==
  /\ Outside({"OpUndef"})
  /\ \E g \in Garbage : AddsObject(Blank(getType(Line.type), g))
ConstantComposite ==
  /\ Outside({"OpConstantComposite"})
  /\ AddsObject(FoldLeft(LAMBDA o, k : Insert(o, <<k - 1>>, Mod.Objects[Line.parts[k]]),
                         Blank(getType(Line.type), 0), [k \in DOMAIN Line.parts |-> k]))
AddsOp(J) == Mod' = [Mod EXCEPT !.SpecConstantOps =
                       Append(@, J @@ [id |-> Line.id, type |-> getType(Line.type)])]
\* An OpCompositeConstruct.
SpecConstantComposite ==
  /\ Outside({"OpSpecConstantComposite"})
  /\ AddsOp([fn |-> "CompositeConstruct", args |-> Line.parts, indices |-> <<>>])
SpecConstantOp == Outside({"OpSpecConstantOp"}) /\ AddsOp(Line.inst)
Variable ==
  /\ Outside({"OpVariable"})
  /\ Mod' = [Mod EXCEPT !.Variables = Append(@,
       [id |-> Line.id, type |-> getType(Line.type), init |-> Line.init,
        decorations |-> IF Line.id \in DOMAIN builder.ObjectDecorations
                        THEN builder.ObjectDecorations[Line.id] ELSE <<>>])]

-------------------------------------------------------------------------------
\* genSpecConstantMap: the entries whose identifier the module knows, with the type of
\* the constant.  Any number but 0 is true.
SpecObject(id, v) ==
  LET t == Mod.Objects[id].type
  IN Scalar(t, IF t.kind = "bool" THEN Holds(v # 0) ELSE v)
Known(info) == {s \in DOMAIN info : s \in DOMAIN Mod.SpecConstants}
\* PipelineStage: first the specialized constants, then the operations in their order.
Specialized(info) ==
  [id \in DOMAIN Mod.Objects |->
     LET by == {s \in Known(info) : Mod.SpecConstants[s] = id}
     IN IF by = {} THEN Mod.Objects[id] ELSE SpecObject(id, info[CHOOSE s \in by : TRUE])]
Evaluated(objects, J) ==
  Mapped(objects, J.id, Computed(J, [k \in DOMAIN J.args |-> objects[J.args[k]]], 0))
\* Fault: the operations are evaluated with the constants' default values.
StageObjectsDefault(info) ==
  Specialized(info) @@ FoldLeft(Evaluated, Mod.Objects, Mod.SpecConstantOps)
StageObjects(info) == FoldLeft(Evaluated, Specialized(info), Mod.SpecConstantOps)
\* The size of a workgroup: WorkgroupSize overrides LocalSize.
GroupSize(objects, f) ==
  IF Mod.WorkgroupSizeId # Null
  THEN [d \in 1..3 |-> Get(objects[Mod.WorkgroupSizeId], d - 1)]
  ELSE IF f \in DOMAIN Mod.LocalSizes THEN Mod.LocalSizes[f] ELSE <<1, 1, 1>>
\* getEntryPoint
EntryFunction(name, model) ==
  Mod.EntryPoints[CHOOSE k \in DOMAIN Mod.EntryPoints :
    LET matches(j) == Mod.EntryPoints[j].name = name /\ Mod.EntryPoints[j].model = model
    IN matches(k) /\ \A j \in 1..(k - 1) : ~matches(j)].function
\* vkCreateComputePipelines
CreateStage ==
  /\ builder # Null /\ unparsed = <<>> /\ stage = Null
  /\ \E info \in program.specializations :
       LET objects == StageObjects(info)
           f == EntryFunction(program.entry, program.model)
       IN stage' = [Objects |-> objects, GroupSize |-> GroupSize(objects, f), entry |-> f,
                    info |-> info]
  /\ UNCHANGED <<shader, unparsed, builder, Mod>>

LoaderNext ==
  \/ Function \/ FunctionParameter \/ Label \/ BodyInstruction \/ FunctionEnd
  \/ Capability \/ EntryPoint \/ ExecutionMode \/ Ignored \/ DecorateObject \/ DecorateMember
  \/ Type \/ Constant \/ ConstantBool \/ ConstantNull \/ UndefObject \/ ConstantComposite
  \/ SpecConstantComposite \/ SpecConstantOp \/ Variable \/ CreateStage
================================================================================
