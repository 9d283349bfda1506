------------------------------- MODULE Invocation -------------------------------
(*****************************************************************************)
(* One invocation of a shader: Invocation::step and the handlers of the      *)
(* instructions.  All functions share one array of result objects, which are *)
(* bytes with a type, OpPhi results wait in PhiTemps, and function-scope     *)
(* variables are allocated from the private memory.  Handlers that compute a *)
(* value from values are one action, Compute.                                *)
(*****************************************************************************)
EXTENDS Loader

VARIABLES Objects, CallStack, CurrentFunction, CurrentBlock, PreviousBlock,
          CurrentInstruction, \* its place in the block, or Null
          PhiTemps, AtBarrier, Discarded,
          memory,   \* the four memories: [<<memory, buffer>> -> its bytes]
          sources,  \* the buffers behind the elements of descriptor arrays
          layouts,  \* history: what each buffer is for, [type, elements]
          defined   \* history: for each activation, the identifiers it has defined

placeVars == <<CallStack, CurrentFunction, CurrentBlock, PreviousBlock, CurrentInstruction>>
invocationVars == <<Objects, placeVars, PhiTemps, AtBarrier, Discarded, memory, sources,
                    layouts, defined>>
vars == <<loaderVars, invocationVars>>

\* getMemory: the memory that a pointer's storage class selects.
Memory(class) == CASE class = "uniform" -> "global"
                   [] class = "workgroup" -> "local"
                   [] class = "input" -> "pipeline"
                   [] class \in {"private", "function"} -> "private"
Place(pointer) == <<Memory(pointer.type.class), pointer.data[1]>>
\* Object::load and Object::store: the null pointer names no buffer.
Loaded(t, pointer) ==
  LoadedFrom(IF Place(pointer) \in DOMAIN memory THEN memory[Place(pointer)] ELSE <<>>,
             t, pointer)
StoredIn(mem, o, pointer) ==
  [m \in DOMAIN mem |-> IF m = Place(pointer) THEN StoredTo(mem[m], o, pointer) ELSE mem[m]]

Inst == Block(Mod, CurrentFunction, CurrentBlock)[CurrentInstruction]
getState == IF AtBarrier THEN "BARRIER"
            ELSE IF CurrentInstruction = Null THEN "FINISHED" ELSE "READY"

\* step applies PhiTemps before the first instruction that is not an OpPhi (or an
\* OpLine, but Module drops those).
\* Faults: they are applied before an OpPhi too; they are not before an OpBranch.
AppliesAlways == PhiTemps # <<>>
AppliesLate   == PhiTemps # <<>> /\ Inst.op \notin {"phi", "branch"}
Applies == PhiTemps # <<>> /\ Inst.op # "phi"
Updated(objects, temps) ==
  [id \in DOMAIN objects |->
     LET of == {k \in DOMAIN temps : temps[k].id = id}
     IN IF of = {} THEN objects[id]
        ELSE temps[CHOOSE k \in of : \A j \in of : j <= k].value]
Seen == IF Applies THEN Updated(Objects, PhiTemps) ELSE Objects
Args(ids) == [k \in DOMAIN ids |-> Seen[ids[k]]]

Init ==
  /\ LoaderInit
  /\ Objects = <<>> /\ CallStack = <<>> /\ CurrentFunction = Null /\ CurrentBlock = Null
  /\ PreviousBlock = Null /\ CurrentInstruction = Null /\ PhiTemps = <<>>
  /\ AtBarrier = FALSE /\ Discarded = FALSE
  /\ memory = <<>> /\ sources = <<>> /\ layouts = <<>> /\ defined = <<>>
\* The buffer of the variable at place k of the module: the binding of a uniform selects
\* its descriptor.
BufferOf(k) == LET v == Mod.Variables[k] IN
  IF v.type.class # "uniform" THEN k
  ELSE IF "Binding" \in DOMAIN v.decorations THEN v.decorations["Binding"] ELSE Null
\* initializeVariables: a variable to which nothing is bound has no object.  Those of an
\* array's elements to which a buffer is bound follow one another in a new allocation.
DescriptorArrays == {k \in Bound(program) : program.variables[k].elements # <<>>}
Sources(k) == {i \in DOMAIN program.variables[k].elements : program.variables[k].elements[i][1] # 0}
\* Fault: every element has its place, although nothing may be bound to it.
ElementAddressAll(k, i) == <<k, (i - 1) * program.variables[k].type.elem.size>>
ElementAddress(k, i) ==
  IF i \notin Sources(k) THEN <<0, 0>>
  ELSE <<k, Cardinality(Sources(k) \cap 1..(i - 1)) * program.variables[k].type.elem.size>>
Gathered(k, from) ==
  FlattenSeq([i \in DOMAIN program.variables[k].elements |->
    IF i \in Sources(k) THEN from[<<k, i>>] ELSE <<>>])
VariableObject(k) == LET v == Mod.Variables[k]  b == BufferOf(k) IN
  IF b \notin Bound(program) THEN Null
  ELSE [PointerTo(v.type, <<b, 0>>)
          EXCEPT !.elements = [i \in DOMAIN program.variables[b].elements |-> ElementAddress(b, i)]]
InitialObject(id) ==
  IF id \in DOMAIN stage.Objects THEN stage.Objects[id]
  ELSE LET own == {k \in DOMAIN Mod.Variables : Mod.Variables[k].id = id}
       IN IF own = {} THEN Null ELSE VariableObject(CHOOSE k \in own : TRUE)
\* The constructor: private variables get the values of their initializers.
\* PreviousBlock is indeterminate, but the first block of a function has no OpPhi.
Begin ==
  /\ stage # Null /\ defined = <<>> /\ defined' = <<{}>>
  /\ Objects' = [id \in Ids(program) \cup DOMAIN stage.Objects |-> InitialObject(id)]
  /\ CurrentFunction' = stage.entry /\ CurrentBlock' = Mod.functions[stage.entry].first
  /\ CurrentInstruction' = 1
  /\ \E data \in BufferContents(program) :
       /\ sources' = [x \in UNION {{k} \X Sources(k) : k \in DescriptorArrays} |->
            Part(data[x[1]], program.variables[x[1]].elements[x[2]][2],
                 program.variables[x[1]].type.elem.size)]
       /\ memory' = [m \in {<<Memory(program.variables[k].class), k>> : k \in Bound(program)} |->
            CASE m[2] \in DescriptorArrays -> Gathered(m[2], sources')
              [] m[2] \in DOMAIN data \ DescriptorArrays -> data[m[2]]
              [] OTHER -> stage.Objects[Mod.Variables[m[2]].init].data]
  /\ layouts' = [m \in DOMAIN memory' |->
       [type |-> program.variables[m[2]].type, elements |-> program.variables[m[2]].elements]]
  /\ UNCHANGED <<loaderVars, CallStack, PreviousBlock, PhiTemps, AtBarrier, Discarded>>

-------------------------------------------------------------------------------
\* step: apply the OpPhi results, execute, and move on unless the handler moved.
Executes(op) == /\ getState = "READY" /\ Inst.op = op
                /\ PhiTemps' = IF Applies THEN <<>> ELSE PhiTemps
Next1 == After(Block(Mod, CurrentFunction, CurrentBlock), CurrentInstruction)
MovesOn == /\ CurrentInstruction' = Next1
           /\ UNCHANGED <<CallStack, CurrentFunction, CurrentBlock, PreviousBlock>>
Marked(ids) == [defined EXCEPT ![Len(defined)] = @ \cup ids]
Sets(id, v) == Objects' = [Seen EXCEPT ![id] = v] /\ defined' = Marked({id})
SetsNothing == Objects' = Seen /\ UNCHANGED defined
Keeps == UNCHANGED <<loaderVars, sources, AtBarrier, Discarded>>

ExecuteCompute ==
  /\ Executes("compute") /\ MovesOn /\ Keeps
  /\ \E g \in Filling(Inst) : Sets(Inst.id, Computed(Inst, Args(Inst.args), g))
  /\ UNCHANGED <<memory, layouts>>

\* One index of an access chain: r is the address, the type there, the matrix layout,
\* and the elements if the pointer is still to an array of descriptors.
\* Fault: the layout of a matrix is forgotten behind the index of its column.
IndexedPlainly(r, i) ==
  [at |-> IF r.elements = <<>> THEN [r.at EXCEPT ![2] = @ + ElementOffset(r.type, i)]
          ELSE IF i < r.type.count THEN r.elements[i + 1] ELSE <<0, 0>>,
   type |-> ElementType(r.type, i), layout |-> NoLayout, elements |-> <<>>]
Indexed(r, i) ==
  LET scalar == ScalarType(r.type.elem).size
      by == CASE r.type.kind \notin {"matrix", "vector"} \/ r.layout.stride = 0 ->
                   ElementOffset(r.type, i)
              [] r.type.kind = "matrix" ->
                   i * (IF r.layout.order = "COL_MAJOR" THEN r.layout.stride ELSE scalar)
              [] r.type.kind = "vector" ->
                   i * (IF r.layout.order = "COL_MAJOR" THEN scalar ELSE r.layout.stride)
  IN [at |-> IF r.elements = <<>> THEN [r.at EXCEPT ![2] = @ + by]
             ELSE IF i < r.type.count THEN r.elements[i + 1] ELSE <<0, 0>>,
      type |-> ElementType(r.type, i),
      layout |-> IF r.type.kind = "struct" /\ r.type.members[i + 1].layout.stride # 0
                 THEN r.type.members[i + 1].layout ELSE r.layout,
      elements |-> <<>>]
\* OpAccessChain and OpPtrAccessChain: a chain from a variable to which nothing is
\* bound, and one to an element that an array of descriptors does not have, are
\* reported and give the null pointer.
Chained(base, element, indices) ==
  LET start == [at |-> IF element = Null THEN base.data
                       ELSE [base.data EXCEPT ![2] = @ + ElementOffset(base.type, Get(element, 0))],
                type |-> base.type.elem, layout |-> base.layout, elements |-> base.elements]
      r == FoldLeft(LAMBDA x, o : Indexed(x, Get(o, 0)), start, indices)
  IN [PointerTo(Inst.type, r.at)
        EXCEPT !.layout = IF r.type.kind \in {"vector", "matrix"} THEN r.layout ELSE NoLayout]
ExecuteAccessChain ==
  /\ Executes("accessChain") /\ MovesOn /\ Keeps
  /\ Sets(Inst.id,
       IF Seen[Inst.base] = Null THEN PointerTo(Inst.type, <<0, 0>>)
       ELSE Chained(Seen[Inst.base], IF Inst.element = Null THEN Null ELSE Seen[Inst.element],
                    Args(Inst.indices)))
  /\ UNCHANGED <<memory, layouts>>
\* OpNop, OpLoopMerge, OpSelectionMerge and the like.
ExecuteNop ==
  /\ Executes("nop") /\ MovesOn /\ Keeps /\ SetsNothing
  /\ UNCHANGED <<memory, layouts>>

ExecuteLoad ==
  /\ Executes("load") /\ MovesOn /\ Keeps
  /\ Sets(Inst.id, Loaded(Inst.type, Seen[Inst.pointer]))
  /\ UNCHANGED <<memory, layouts>>
ExecuteStore ==
  /\ Executes("store") /\ MovesOn /\ Keeps /\ SetsNothing
  /\ memory' = StoredIn(memory, Seen[Inst.value], Seen[Inst.pointer])
  /\ UNCHANGED layouts
\* Memory::copy of the bytes, whatever the layout.
ExecuteCopyMemory ==
  /\ Executes("copyMemory") /\ MovesOn /\ Keeps /\ SetsNothing
  /\ LET bytes(pointer) == [pointer EXCEPT !.layout = NoLayout]
         source == Seen[Inst.source]
     IN memory' = StoredIn(memory, Loaded(source.type.elem, bytes(source)),
                           bytes(Seen[Inst.target]))
  /\ UNCHANGED layouts
\* Memory::atomic and atomicCmpXchg: an access that is not valid gives zero.
ExecuteAtomicOp ==
  /\ Executes("atomic") /\ MovesOn /\ Keeps
  /\ LET pointer == Seen[Inst.pointer]
         t   == pointer.type.elem
         operand(id) == IF id = Null THEN 0 ELSE Get(Seen[id], 0)
         old == Loaded(t, pointer)
     IN /\ IF Inst.id = Null THEN SetsNothing ELSE Sets(Inst.id, old)
        /\ memory' = StoredIn(memory, Scalar(t, Atomic(Inst.fn, t, Get(old, 0), operand(Inst.value),
                                                operand(Inst.comparator))), pointer)
  /\ UNCHANGED layouts

\* Any buffer that is not in use; without an initializer, any contents.
ExecuteVariable ==
  /\ Executes("variable") /\ Keeps
  /\ CurrentInstruction' = Next1
  /\ UNCHANGED <<CurrentFunction, CurrentBlock, PreviousBlock>>
  /\ \E k \in Buffer, g \in Garbage :
       LET m == <<"private", k>>
           t == Inst.type.elem
           o == IF Inst.init = Null THEN Blank(t, g) ELSE Seen[Inst.init]
       IN /\ m \notin DOMAIN memory
          /\ memory' = [n \in DOMAIN memory \cup {m} |-> IF n = m THEN o.data ELSE memory[n]]
          /\ layouts' = [n \in DOMAIN memory \cup {m} |->
                           IF n = m THEN [type |-> t, elements |-> <<>>] ELSE layouts[n]]
          /\ Sets(Inst.id, PointerTo(Inst.type, <<k, 0>>))
          /\ CallStack' = IF CallStack = <<>> THEN CallStack
               ELSE [CallStack EXCEPT ![Len(CallStack)].Allocations = Append(@, k)]

\* moveToBlock; step then moves on from a terminator that has moved to itself.
\* Fault: a branch within a function leaves PreviousBlock as it was.
PreviousOfCalls(from, to) ==
  IF from \in DOMAIN Mod.functions[CurrentFunction].blocks
     /\ to \in DOMAIN Mod.functions[CurrentFunction].blocks THEN PreviousBlock ELSE from
PreviousOf(from, to)      == from
MovesTo(f, b) ==
  /\ CurrentFunction' = f
  /\ CurrentInstruction' = IF <<f, b, 1>> = <<CurrentFunction, CurrentBlock, CurrentInstruction>>
                           THEN Next1 ELSE 1
  /\ PreviousBlock' = PreviousOf(CurrentBlock, b) /\ CurrentBlock' = b
ExecuteBranch ==
  /\ \/ Executes("branch") /\ MovesTo(CurrentFunction, Target(Inst, Null))
     \/ /\ Executes("branchConditional") \/ Executes("switch")
        /\ MovesTo(CurrentFunction, Target(Inst, Get(Seen[Inst.on], 0)))
  /\ Keeps /\ SetsNothing /\ UNCHANGED <<memory, layouts, CallStack>>

\* The first pair whose block is the previous one.
Matching(I) == {k \in DOMAIN I.from : I.from[k] = PreviousBlock}
PhiValue(I) == Seen[I.values[CHOOSE k \in Matching(I) : \A j \in Matching(I) : k <= j]]
ExecutePhi ==
  /\ getState = "READY" /\ Inst.op = "phi" /\ MovesOn /\ Keeps
  /\ PhiTemps' = Append(IF Applies THEN <<>> ELSE PhiTemps,
                        [id |-> Inst.id, value |-> PhiValue(Inst)])
  /\ Objects' = Seen /\ defined' = Marked({Inst.id})
  /\ UNCHANGED <<memory, layouts>>

ExecuteFunctionCall ==
  /\ Executes("call") /\ Keeps /\ UNCHANGED <<memory, layouts>>
  /\ LET f == Inst.func  params == Mod.functions[f].params
     IN /\ Objects' = [id \in DOMAIN Seen |->
             IF id \in Params(Mod, f)
             THEN Seen[Inst.args[CHOOSE k \in DOMAIN params : params[k] = id]] ELSE Seen[id]]
        /\ defined' = Append(defined, Params(Mod, f))
        /\ MovesTo(f, Mod.functions[f].first)
  /\ CallStack' = Append(CallStack, [CallInst |-> CurrentInstruction,
                    CallFunc |-> CurrentFunction, CallBlock |-> CurrentBlock,
                    Allocations |-> <<>>])

\* The addresses that a return releases.
Released(SE) == {<<"private", SE.Allocations[i]>> : i \in DOMAIN SE.Allocations}
\* The return of the entry function does nothing, and is the last of its block.
ExecuteReturn ==
  /\ Executes("return") \/ Executes("returnValue")
  /\ Keeps
  /\ IF CallStack = <<>>
     THEN MovesOn /\ SetsNothing /\ UNCHANGED <<memory, layouts>>
     ELSE LET n  == Len(CallStack)  SE == CallStack[n]
              caller == Block(Mod, SE.CallFunc, SE.CallBlock)
              id == caller[SE.CallInst].id
          IN /\ CallStack' = SubSeq(CallStack, 1, n - 1)
             /\ memory' = [m \in DOMAIN memory \ Released(SE) |-> memory[m]]
             /\ layouts' = [m \in DOMAIN memory \ Released(SE) |-> layouts[m]]
             /\ CurrentFunction' = SE.CallFunc /\ CurrentBlock' = SE.CallBlock
             /\ CurrentInstruction' = After(caller, SE.CallInst)
             /\ UNCHANGED PreviousBlock
             /\ IF Inst.op = "returnValue"
                THEN /\ Objects' = [Seen EXCEPT ![id] = Seen[Inst.value]]
                     /\ defined' = [SubSeq(defined, 1, n) EXCEPT ![n] = @ \cup {id}]
                ELSE Objects' = Seen /\ defined' = SubSeq(defined, 1, n)

ExecuteKill ==
  /\ Executes("kill") /\ SetsNothing
  /\ Discarded' = TRUE /\ CurrentInstruction' = Null
  /\ UNCHANGED <<loaderVars, sources, CallStack, CurrentFunction, CurrentBlock, PreviousBlock,
                 AtBarrier, memory, layouts>>
ExecuteControlBarrier ==
  /\ Executes("barrier") /\ MovesOn /\ SetsNothing
  /\ AtBarrier' = TRUE
  /\ UNCHANGED <<loaderVars, sources, Discarded, memory, layouts>>
\* Called when every invocation of the workgroup has come to its barrier.
ClearBarrier ==
  /\ AtBarrier /\ AtBarrier' = FALSE
  /\ UNCHANGED <<loaderVars, sources, Objects, placeVars, PhiTemps, Discarded, memory, layouts,
                 defined>>

\* finalizeVariables, once the invocations are done: what the elements of the arrays hold
\* goes back to the buffers, and the allocations are released.
Finalize ==
  /\ defined # <<>> /\ getState = "FINISHED"
  /\ LET allocations == {<<"global", k>> : k \in DescriptorArrays} IN
     /\ allocations # {} /\ allocations \subseteq DOMAIN memory
     /\ sources' = [x \in DOMAIN sources |->
          Part(memory[<<"global", x[1]>>], ElementAddress(x[1], x[2])[2],
               program.variables[x[1]].type.elem.size)]
     /\ memory' = [m \in DOMAIN memory \ allocations |-> memory[m]]
  /\ UNCHANGED <<loaderVars, Objects, placeVars, PhiTemps, AtBarrier, Discarded, layouts,
                 defined>>

Next == \/ LoaderNext /\ UNCHANGED invocationVars
        \/ Begin \/ ExecuteCompute \/ ExecuteAccessChain \/ ExecuteNop
        \/ ExecuteLoad \/ ExecuteStore
        \/ ExecuteCopyMemory \/ ExecuteAtomicOp \/ ExecuteVariable \/ ExecuteBranch
        \/ ExecutePhi \/ ExecuteFunctionCall \/ ExecuteReturn \/ ExecuteKill
        \/ ExecuteControlBarrier \/ ClearBarrier
        \/ Finalize
Spec == Init /\ [][Next]_vars
-------------------------------------------------------------------------------
Code == Block(Mod, CurrentFunction, CurrentBlock)
Active == CurrentInstruction # Null
TypeOK ==
  /\ \A id \in DOMAIN Objects : Objects[id] # Null => Len(Objects[id].data) = Objects[id].type.size
  /\ Active => CurrentBlock \in DOMAIN Mod.functions[CurrentFunction].blocks
  /\ Active => CurrentInstruction \in DOMAIN Code
  /\ \A k \in DOMAIN PhiTemps :
       /\ Active /\ CurrentInstruction <= Body(Code)
       /\ \E phi \in Phis(Code) : phi.id = PhiTemps[k].id
  /\ \A k \in DOMAIN CallStack : LET SE == CallStack[k] IN
       /\ Block(Mod, SE.CallFunc, SE.CallBlock)[SE.CallInst].op = "call"
       /\ \A i \in DOMAIN SE.Allocations : <<"private", SE.Allocations[i]>> \in DOMAIN memory
  /\ AtBarrier \in BOOLEAN /\ Discarded \in BOOLEAN
  /\ \A m \in DOMAIN memory : m[2] \in Buffer /\ memory[m] \in Seq(0..(Byte - 1))

(* executePhi's assertion "no matching predecessor block for OpPhi":           *)
(* PreviousBlock, which calls change and returns do not restore, names the     *)
(* block from which the current one was entered whenever an OpPhi looks at it. *)
PredecessorFound ==
  TypeOK /\ (Active /\ ~AtBarrier /\ Inst.op = "phi" => Matching(Inst) # {})

\* The values that the current activation will have once its OpPhi have been applied.
Rest == {Code[i] : i \in CurrentInstruction..(Body(Code) - 1)}
Settled == [id \in DOMAIN Objects |->
  IF \E phi \in Rest : phi.id = id
  THEN LET phi == CHOOSE x \in Rest : x.id = id IN
       Objects[phi.values[CHOOSE k \in Matching(phi) : TRUE]]
  ELSE Updated(Objects, PhiTemps)[id]]
\* The cells of the buffers, and the cell at an offset in one.
IsVariable(m) == \E k \in Bound(program) : m = <<Memory(program.variables[k].class), k>>
ClassOf(m) == IF IsVariable(m) THEN program.variables[m[2]].class ELSE "function"
CellAt(m, offset) ==
  LET b  == layouts[m]
      at == AtTable[b.type]
      in == {i \in DOMAIN b.elements : b.elements[i][1] # 0 /\ offset >= b.elements[i][2]
               /\ offset - b.elements[i][2] \in DOMAIN AtTable[b.type.elem]}
      i  == CHOOSE x \in in : TRUE
      cell(path) == <<ClassOf(m), m[2], path>>
  IN CASE b.elements = <<>> /\ offset \in DOMAIN at -> cell(at[offset])
       [] in # {} -> cell(<<i - 1>> \o AtTable[b.type.elem][offset - b.elements[i][2]])
       [] OTHER -> <<>>
\* What an object means: numbers, or for a pointer the cells it leads to.
Meaning(o) ==
  IF o.type.kind # "pointer"
  THEN Numbers(o.type, o.data)
  ELSE [p \in DOMAIN SpotTable[o.type.elem] |->
    LET leaf == IF o.elements # <<>>
                THEN [at |-> o.elements[p[1] + 1],
                      by |-> SpotTable[o.type.elem.elem][Tail(p)].at]
                ELSE [at |-> o.data, by |-> IF o.layout = NoLayout THEN SpotTable[o.type.elem][p].at
                                                    ELSE Spot(o.type.elem, o.layout, p).at]
        m == <<Memory(o.type.class), leaf.at[1]>>
    IN IF m \in DOMAIN memory THEN CellAt(m, leaf.at[2] + leaf.by) ELSE <<>>]
Frame(k) ==
  IF k <= Len(CallStack)
  THEN [func |-> CallStack[k].CallFunc, block |-> CallStack[k].CallBlock,
        index |-> CallStack[k].CallInst]
  ELSE [func |-> CurrentFunction, block |-> CurrentBlock,
        index |-> IF CurrentInstruction < Body(Code) THEN Body(Code) ELSE CurrentInstruction]
Env(k) ==
  IF k <= Len(CallStack) THEN [id \in defined[k] |-> Meaning(Objects[id])]
  ELSE [id \in defined[k] \cup {phi.id : phi \in Rest} |-> Meaning(Settled[id])]
Activations == IF Active THEN 1..(Len(CallStack) + 1) ELSE {}
Cells(m) ==
  {<<ClassOf(m), m[2], p>> : p \in CellPaths(layouts[m].type, layouts[m].elements)}
CellValue(c) ==
  LET m == <<Memory(c[1]), c[2]>>
      s == CellSpot(layouts[m].type, layouts[m].elements, c[3])
      x == <<c[2], c[3][1] + 1>>
  IN IF m \in DOMAIN memory THEN Number(Part(memory[m], s.at, s.size))
     ELSE Number(Part(sources[x], s.at - ElementAddress(x[1], x[2])[2], s.size))
Begun == defined # <<>>
Semantics == INSTANCE ShaderSemantics WITH
  specialization <- IF Begun THEN stage.info ELSE Null,
  groupSize <- IF Begun THEN stage.GroupSize ELSE Null,
  constants <- [id \in IF Begun THEN Constants(program) ELSE {} |-> Meaning(Objects[id])],
  frames <- [k \in Activations |-> Frame(k)],
  envs   <- [k \in Activations |-> Env(k)],
  store  <- [c \in UNION {Cells(m) : m \in DOMAIN layouts} |-> CellValue(c)],
  status <- IF Begun THEN getState ELSE "LOADING"

(* The array of objects that all functions share, the OpPhi results applied   *)
(* one by one, the call stack and the private memory implement activations    *)
(* with values and variables of their own and simultaneous OpPhi: no call     *)
(* disturbs its caller, no variable outlives its activation or shares storage.*)
(* The bytes, offsets, strides and matrix layouts implement typed values: an  *)
(* access chain leads to the scalars that its indices name, and nothing else  *)
(* is read or written through it.  Decorations that come before their targets *)
(* and constants that come before they are specialized make the types, the    *)
(* constants and the size of the workgroup that the program declares.         *)
ImplementsSemantics == Semantics!Spec
===============================================================================
