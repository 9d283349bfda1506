-------------------------------- MODULE Assembly --------------------------------
(*****************************************************************************)
(* The text of a program: the instructions that declare its entry points,    *)
(* decorations, types, constants, variables and functions, in the order that *)
(* SPIR-V asks for.  The identifier of a type is the type that it is to      *)
(* denote.  The other identifiers are those of the program.                  *)
(*****************************************************************************)
EXTENDS Operations

Listed(S) == FoldSet(LAMBDA x, list : Append(list, x), <<>>, S)
Lines(f(_), list) == FlattenSeq([k \in DOMAIN list |-> f(list[k])])
When(condition, line) == IF condition THEN <<line>> ELSE <<>>

\* All types that a program's types are made of; lengths of arrays are words.
LengthType == IntType(2)
LengthIds  == <<"length1", "length2", "length3", "length4">>
Elements(t) == CASE t.kind = "struct" -> {m.type : m \in Range(t.members)}
                 [] "elem" \in DOMAIN t -> {t.elem}
                 [] OTHER -> {}
RECURSIVE Made(_), Depth(_)
Made(t)  == {t} \cup UNION {Made(e) : e \in Elements(t)}
Depth(t) == IF Elements(t) = {} THEN 0 ELSE 1 + Max({Depth(e) : e \in Elements(t)})
PointerOf(v) == PointerType(v.class, v.type, v.type.size)
Declared(p) == UNION {Made(t) : t \in TypesOf(p) \cup {LengthType}
                                       \cup {PointerOf(v) : v \in Range(p.variables)}}

Decorate(target, decoration, value) ==
  [op |-> "OpDecorate", target |-> target, decoration |-> decoration, value |-> value]
MemberDecorate(t, k, decoration, value) ==
  [op |-> "OpMemberDecorate", target |-> t, member |-> k, decoration |-> decoration,
   value |-> value]
Decorations(t) ==
  CASE t.kind \in {"array", "pointer"} ->
         When(t.stride # t.elem.size, Decorate(t, "ArrayStride", t.stride))
    [] t.kind = "struct" ->
         FlattenSeq([k \in DOMAIN t.members |-> LET m == t.members[k] IN
           When(m.offset # Follows, MemberDecorate(t, k, "Offset", m.offset))
           \o When(m.layout.stride # 0, MemberDecorate(t, k, "MatrixStride", m.layout.stride))
           \o When(m.layout.stride # 0,
                   MemberDecorate(t, k, IF m.layout.order = "COL_MAJOR" THEN "ColMajor"
                                                                        ELSE "RowMajor", 1))])
    [] OTHER -> <<>>
TypeLine(t) ==
  CASE t.kind = "bool"    -> [op |-> "OpTypeBool", id |-> t]
    [] t.kind = "int"     -> [op |-> "OpTypeInt", id |-> t, width |-> t.size]
    [] t.kind = "float"   -> [op |-> "OpTypeFloat", id |-> t, width |-> t.size]
    [] t.kind = "vector"  -> [op |-> "OpTypeVector", id |-> t, of |-> t.elem, count |-> t.count]
    [] t.kind = "matrix"  -> [op |-> "OpTypeMatrix", id |-> t, of |-> t.elem, count |-> t.count]
    [] t.kind = "array"   -> [op |-> "OpTypeArray", id |-> t, of |-> t.elem,
                              length |-> LengthIds[t.count]]
    [] t.kind = "pointer" -> [op |-> "OpTypePointer", id |-> t, class |-> t.class, of |-> t.elem]
    [] t.kind = "struct"  -> [op |-> "OpTypeStruct", id |-> t,
                              members |-> [k \in DOMAIN t.members |-> t.members[k].type]]
LengthLines == [n \in DOMAIN LengthIds |->
  [op |-> "OpConstant", id |-> LengthIds[n], type |-> LengthType, value |-> n]]

\* Constants: [kind, id, type, ...].
ConstantLine(c) ==
  CASE c.kind = "value" /\ c.type.kind = "bool" ->
         [op |-> IF c.value = 1 THEN "OpConstantTrue" ELSE "OpConstantFalse", id |-> c.id,
          type |-> c.type]
    [] c.kind = "value" /\ c.type.kind # "bool" ->
         [op |-> "OpConstant", id |-> c.id, type |-> c.type, value |-> c.value]
    [] c.kind = "composite" ->
         [op |-> IF c.special THEN "OpSpecConstantComposite" ELSE "OpConstantComposite",
          id |-> c.id, type |-> c.type, parts |-> c.parts]
    [] c.kind = "null"  -> [op |-> "OpConstantNull", id |-> c.id, type |-> c.type]
    [] c.kind = "undef" -> [op |-> "OpUndef", id |-> c.id, type |-> c.type]
    [] c.kind = "op"    -> [op |-> "OpSpecConstantOp", id |-> c.id, type |-> c.type,
                            inst |-> c.inst]
SpecIds(c) ==
  When(c.kind = "value" /\ c.specId # Null, Decorate(c.id, "SpecId", c.specId))
VariableLine(v) ==
  [op |-> "OpVariable", id |-> v.id, type |-> PointerOf(v), init |-> v.init]
\* The variable at place k is bound to descriptor k.
Binding(p, k) ==
  When(p.variables[k].class = "uniform", Decorate(p.variables[k].id, "Binding", k))

BlockLines(id, code) ==
  <<[op |-> "OpLabel", id |-> id], [op |-> "OpLine"]>> \o code
FunctionLines(p, f) ==
  LET F == p.functions[f]
      param(id) == <<[op |-> "OpFunctionParameter", id |-> id]>>
      block(b) == BlockLines(b, F.blocks[b])
  IN <<[op |-> "OpFunction", id |-> f]>> \o Lines(param, F.params)
     \o Lines(block, <<F.first>> \o Listed(DOMAIN F.blocks \ {F.first}))
     \o <<[op |-> "OpFunctionEnd"]>>

TextOf(p) ==
  LET types    == Declared(p)
      depth(d) == Listed({t \in types : Depth(t) = d})
      typeLine(t) == <<TypeLine(t)>>
      entry(e) == <<[op |-> "OpEntryPoint", function |-> e.function, name |-> e.name,
                     model |-> e.model, interface |-> e.interface]>>
      size(s)  == <<[op |-> "OpExecutionMode", function |-> s.function, size |-> s.size]>>
      constant(c) == <<ConstantLine(c)>>
      variable(v) == <<VariableLine(v)>>
      function(f) == FunctionLines(p, f)
  IN <<[op |-> "OpCapability", name |-> p.capability], [op |-> "OpSource"]>>
     \o Lines(entry, p.entryPoints) \o Lines(size, p.localSizes)
     \o Lines(Decorations, Listed(types)) \o Lines(SpecIds, p.constants)
     \o FlattenSeq([k \in DOMAIN p.variables |-> Binding(p, k)])
     \o When(p.workgroupSize # Null, Decorate(p.workgroupSize, "WorkgroupSize", 1))
     \o Lines(typeLine, depth(0)) \o LengthLines
     \o FlattenSeq([d \in 1..Max({Depth(t) : t \in types}) |-> Lines(typeLine, depth(d))])
     \o Lines(constant, p.constants) \o Lines(variable, p.variables)
     \o Lines(function, Listed(DOMAIN p.functions))
\* Worked out once.
Texts == [name \in DOMAIN Programs |-> TextOf(Programs[name])]
================================================================================
