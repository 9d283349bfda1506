----------------------------- MODULE ShaderSemantics ----------------------------
(*****************************************************************************)
(* What an invocation computes: each activation of a function has values and *)
(* variables of its own, the OpPhi of a block take their values at once when *)
(* the block is entered, and values have no bytes.                           *)
(*                                                                           *)
(* A value maps the path to each of its scalars to a number.  A cell is a    *)
(* scalar of a buffer, <<storage class, buffer, path>>; a pointer is a value *)
(* that maps paths to cells, or to Nowhere.  The cells that a pointer made   *)
(* from a struct, a matrix of any layout or an array leads to are those that *)
(* its indices name.  The constants are what the program declares, with the   *)
(* values of those that the pipeline specializes.                            *)
(*****************************************************************************)
EXTENDS Shader

VARIABLES shader,
          specialization, \* the values given to specialization constants
          groupSize,
          constants,      \* the value of each constant of the program
          frames, \* the activations: [func, block, index]
          envs,   \* the values of the identifiers that each has defined
          store,  \* the number in each cell
          status  \* "LOADING", "READY", "BARRIER" or "FINISHED"

pipelineVars == <<shader, specialization, groupSize, constants>>
vars == <<pipelineVars, frames, envs, store, status>>

program == Programs[shader]

Nowhere == <<>>

Top == frames[Len(frames)]
I   == Block(program, Top.func, Top.block)[Top.index]
\* The values of the module: constants, and pointers to the buffers of its variables.
InitialValue(id) ==
  IF id \in DOMAIN constants THEN constants[id]
  ELSE LET k == CHOOSE n \in DOMAIN program.variables : program.variables[n].id = id
           v == program.variables[k]
       IN [p \in Paths(v.type) |-> IF v.bound /\ ~Unbound(v.elements, p)
                                   THEN <<v.class, k, p>> ELSE Nowhere]
Env         == envs[Len(envs)]
Value(id)   == IF id \in DOMAIN Env THEN Env[id] ELSE InitialValue(id)
Values(ids) == [k \in DOMAIN ids |-> Value(ids[k])]

-------------------------------------------------------------------------------
\* Values.
Within(v, path) ==
  [q \in {SubSeq(p, Len(path) + 1, Len(p)) : p \in {x \in DOMAIN v : IsPrefix(path, x)}}
     |-> v[path \o q]]
With(v, path, e) ==
  [p \in DOMAIN v |-> IF IsPrefix(path, p) THEN e[SubSeq(p, Len(path) + 1, Len(p))] ELSE v[p]]
Built(parts) ==
  [p \in UNION {{<<i - 1>> \o q : q \in DOMAIN parts[i]} : i \in DOMAIN parts}
     |-> parts[p[1] + 1][Tail(p)]]
Size(v) == Cardinality({p[1] : p \in DOMAIN v}) \* of a vector, or the columns of a matrix
Index(v) == v[<<>>]

Result(t, number) == number % Byte^t.size
Sum(t, terms) == FoldLeft(LAMBDA a, b : FAdd(t, a, b), 0, terms)
Product(t, v, p, w, q) == FMul(t, Signed(t, v[p]), Signed(t, w[q]))
Chained(base, indices, t) ==
  [q \in Paths(t) |-> IF indices \o q \in DOMAIN base THEN base[indices \o q] ELSE Nowhere]
\* A pointer to an element of an array, moved by n elements.
Moved(pointer, n) ==
  [q \in DOMAIN pointer |->
     IF pointer[q] = Nowhere THEN Nowhere
     ELSE LET path == pointer[q][3]
              cell == [pointer[q] EXCEPT ![3] = [path EXCEPT ![Len(path) - Len(q)] = @ + n]]
          IN IF cell \in DOMAIN store THEN cell ELSE Nowhere]

\* What an instruction without side effects computes.  `of` is the scalar type of
\* its first operand; undefined components are filled with garbage.
Computed(J, args, garbage) ==
  LET t  == J.type
      of == J.of
      to == ScalarType(t)
      a  == args[1]
      b  == args[2]
  IN CASE J.fn = "CopyObject" -> a
       [] J.fn = "Undef" -> Numbers(t, Blank(t, garbage).data)
       [] J.fn = "Bitcast" ->
            LET bytes == FlattenSeq([k \in 1..Cardinality(DOMAIN a) |->
                           Bytes(a[IF <<>> \in DOMAIN a THEN <<>> ELSE <<k - 1>>], of.size)])
            IN [p \in Paths(t) |->
                  Number(Part(bytes, (IF p = <<>> THEN 0 ELSE p[1]) * to.size, to.size))]
       [] J.fn = "CompositeConstruct" -> Built(args)
       [] J.fn = "CompositeExtract" -> Within(a, J.indices)
       [] J.fn = "CompositeInsert" -> With(b, J.indices, a)
       [] J.fn = "VectorExtractDynamic" -> Within(a, <<Index(b)>>)
       [] J.fn = "VectorInsertDynamic" -> With(a, <<Index(args[3])>>, b)
       [] J.fn = "VectorShuffle" ->
            [p \in Paths(t) |->
               LET k == J.indices[p[1] + 1]
               IN IF k = Null THEN Number(Blank(to, garbage).data)
                  ELSE IF k < Size(a) THEN a[<<k>>] ELSE b[<<k - Size(a)>>]]
       [] J.fn = "Select" ->
            [p \in DOMAIN b |-> IF a[IF <<>> \in DOMAIN a THEN <<>> ELSE p] = 1
                                THEN b[p] ELSE args[3][p]]
       [] J.fn = "All" -> [p \in {<<>>} |-> Holds(\A q \in DOMAIN a : a[q] = 1)]
       [] J.fn = "Any" -> [p \in {<<>>} |-> Holds(\E q \in DOMAIN a : a[q] = 1)]
       [] J.fn = "Dot" ->
            [p \in {<<>>} |-> Result(of, Sum(of, [k \in 1..Size(a) |->
                                Product(of, a, <<k - 1>>, b, <<k - 1>>)]))]
       [] J.fn \in {"MatrixTimesScalar", "VectorTimesScalar"} ->
            [p \in DOMAIN a |-> Result(of, Product(of, a, p, b, <<>>))]
       [] J.fn = "MatrixTimesVector" ->
            [p \in Paths(t) |-> Result(of, Sum(of, [k \in 1..Size(a) |->
                                  Product(of, b, <<k - 1>>, a, <<k - 1>> \o p)]))]
       [] J.fn = "VectorTimesMatrix" ->
            [p \in Paths(t) |-> Result(of, Sum(of, [k \in 1..Size(a) |->
                                  Product(of, a, <<k - 1>>, b, p \o <<k - 1>>)]))]
       [] OTHER -> [p \in Paths(t) |->
                      Result(to, Applied(J.fn, of, to, [k \in DOMAIN args |-> args[k][p]]))]

\* Memory: a scalar that is nowhere reads as zero, and is not written.
Read(pointer) == [p \in DOMAIN pointer |-> IF pointer[p] = Nowhere THEN 0 ELSE store[pointer[p]]]
Written(pointer, v) ==
  LET targets == {<<pointer[p], p>> : p \in DOMAIN pointer}
      cells   == {x[1] : x \in targets}
  IN [c \in DOMAIN store |->
        IF c \in cells THEN v[(CHOOSE x \in targets : x[1] = c)[2]] ELSE store[c]]

\* The values of the OpPhi of block b when it is entered from the current one.
PhiValues(b) ==
  LET phis == Phis(Block(program, Top.func, b))
      from(phi) == CHOOSE k \in DOMAIN phi.from : phi.from[k] = Top.block
  IN [id \in {phi.id : phi \in phis} |->
        LET phi == CHOOSE x \in phis : x.id = id IN Value(phi.values[from(phi)])]
Start(f) == LET first == program.functions[f].first
            IN [func |-> f, block |-> first, index |-> Body(Block(program, f, first))]
Parameters(f, args) ==
  LET params == program.functions[f].params
  IN [id \in Params(program, f) |-> args[CHOOSE k \in DOMAIN params : params[k] = id]]
-------------------------------------------------------------------------------
\* The value of a constant: one that is specialized has the value it was given, where
\* any number but 0 is true.
ConstantValue(c, info, values, garbage) ==
  CASE c.kind = "value" ->
         LET n == IF c.specId \in DOMAIN info THEN info[c.specId] ELSE c.value
         IN [p \in {<<>>} |-> IF c.type.kind = "bool" THEN Holds(n # 0) ELSE n]
    [] c.kind = "composite" -> Built([k \in DOMAIN c.parts |-> values[c.parts[k]]])
    [] c.kind = "null"  -> [p \in Paths(c.type) |-> 0]
    [] c.kind = "undef" -> Numbers(c.type, Blank(c.type, garbage).data)
    [] c.kind = "op" -> Computed(c.inst @@ [type |-> c.type],
                                 [k \in DOMAIN c.inst.args |-> values[c.inst.args[k]]], garbage)
ConstantValues(info, garbage) ==
  FoldLeft(LAMBDA values, c : (c.id :> ConstantValue(c, info, values, garbage)) @@ values,
           <<>>, program.constants)
Entry == CHOOSE e \in Range(program.entryPoints) :
           e.name = program.entry /\ e.model = program.model
SizeOf(f, values) ==
  LET sizes == {s \in Range(program.localSizes) : s.function = f}
  IN IF program.workgroupSize # Null THEN [d \in 1..3 |-> values[program.workgroupSize][<<d - 1>>]]
     ELSE IF sizes = {} THEN <<1, 1, 1>> ELSE (CHOOSE s \in sizes : TRUE).size

CellsOf(k) == LET v == program.variables[k]
              IN {<<v.class, k, p>> : p \in CellPaths(v.type, v.elements)}

Init == /\ shader \in DOMAIN Programs /\ status = "LOADING"
        /\ specialization = Null /\ groupSize = Null /\ constants = <<>>
        /\ frames = <<>> /\ envs = <<>> /\ store = <<>>
\* A pipeline is made and its first invocation starts.
Begin ==
  /\ status = "LOADING" /\ status' = "READY"
  /\ \E info \in program.specializations, g \in Garbage :
       /\ specialization' = info /\ constants' = ConstantValues(info, g)
       /\ groupSize' = SizeOf(Entry.function, constants')
  /\ frames' = <<Start(Entry.function)>> /\ envs' = <<Parameters(Entry.function, <<>>)>>
  /\ \E data \in BufferContents(program) :
       store' = [c \in UNION {CellsOf(k) : k \in Bound(program)} |->
                   LET v == program.variables[c[2]]
                   IN IF v.init = Null THEN Contents(v.type, v.elements, data[c[2]])[c[3]]
                      ELSE constants'[v.init][c[3]]]
  /\ UNCHANGED shader

Runs(op) == status = "READY" /\ I.op = op
MovesOn  == frames' = [frames EXCEPT ![Len(frames)].index = @ + 1]
Defines(v) ==
  /\ MovesOn
  /\ envs' = [envs EXCEPT ![Len(envs)] =
                [id \in DOMAIN @ \cup {I.id} |-> IF id = I.id THEN v ELSE @[id]]]
DefinesNothing == MovesOn /\ UNCHANGED envs

Compute == /\ Runs("compute")
           /\ \E g \in Filling(I) : Defines(Computed(I, Values(I.args), g))
           /\ UNCHANGED <<store, status>>
AccessChain ==
  /\ Runs("accessChain")
  /\ LET base == IF I.element = Null THEN Value(I.base)
                 ELSE Moved(Value(I.base), Index(Value(I.element)))
     IN Defines(Chained(base, [k \in DOMAIN I.indices |-> Index(Value(I.indices[k]))], I.type.elem))
  /\ UNCHANGED <<store, status>>
Nop == Runs("nop") /\ DefinesNothing /\ UNCHANGED <<store, status>>
Load == /\ Runs("load")
        /\ Defines(Read(Value(I.pointer)))
        /\ UNCHANGED <<store, status>>
Store == /\ Runs("store") /\ DefinesNothing
         /\ store' = Written(Value(I.pointer), Value(I.value))
         /\ UNCHANGED status
CopyMemory == /\ Runs("copyMemory") /\ DefinesNothing
              /\ store' = Written(Value(I.target), Read(Value(I.source)))
              /\ UNCHANGED status
AtomicOp ==
  /\ Runs("atomic")
  /\ LET cell == Value(I.pointer)
         old  == Read(cell)
         new  == Atomic(I.fn, I.of, old[<<>>], IF I.value = Null THEN 0 ELSE Index(Value(I.value)),
                        IF I.comparator = Null THEN 0 ELSE Index(Value(I.comparator)))
     IN /\ IF I.id = Null THEN DefinesNothing ELSE Defines(old)
        /\ store' = Written(cell, [p \in {<<>>} |-> Result(I.of, new)])
  /\ UNCHANGED status
Variable ==
  /\ Runs("variable")
  /\ \E k \in Buffer, g \in Garbage :
       LET t == I.type.elem
           pointer == [p \in Paths(t) |-> <<"function", k, p>>]
           v == IF I.init # Null THEN Value(I.init)
                ELSE Numbers(t, Blank(t, g).data)
       IN /\ \A c \in DOMAIN store : c[1] = "function" => c[2] # k
          /\ Defines(pointer)
          /\ store' = [c \in DOMAIN store \cup {pointer[p] : p \in Paths(t)} |->
                          IF c \in DOMAIN store THEN store[c] ELSE v[c[3]]]
  /\ UNCHANGED status
Enters(b) ==
  /\ frames' = [frames EXCEPT ![Len(frames)].block = b,
                              ![Len(frames)].index = Body(Block(program, Top.func, b))]
  /\ envs' = [envs EXCEPT ![Len(envs)] =
       LET new == PhiValues(b)
       IN [id \in DOMAIN @ \cup DOMAIN new |-> IF id \in DOMAIN new THEN new[id] ELSE @[id]]]
Branch == /\ \/ Runs("branch") /\ Enters(Target(I, Null))
             \/ /\ Runs("branchConditional") \/ Runs("switch")
                /\ Enters(Target(I, Index(Value(I.on))))
          /\ UNCHANGED <<store, status>>
Call == /\ Runs("call")
        /\ frames' = Append(frames, Start(I.func))
        /\ envs' = Append(envs, Parameters(I.func, Values(I.args)))
        /\ UNCHANGED <<store, status>>

\* The variables of an activation live as long as it does.
Variables ==
  LET own == {x \in DOMAIN Env : \E b \in DOMAIN program.functions[Top.func].blocks :
                \E J \in Range(Block(program, Top.func, b)) : J.op = "variable" /\ J.id = x}
  IN {LET cell == Env[x][CHOOSE p \in DOMAIN Env[x] : TRUE] IN <<cell[1], cell[2]>> : x \in own}
Return ==
  /\ Runs("return") \/ Runs("returnValue")
  /\ IF Len(frames) = 1
     THEN frames' = <<>> /\ envs' = <<>> /\ status' = "FINISHED" /\ UNCHANGED store
     ELSE LET n == Len(frames) - 1
              caller == frames[n]
              J == Block(program, caller.func, caller.block)[caller.index]
              v == IF I.op = "return" THEN <<>> ELSE J.id :> Value(I.value)
          IN /\ frames' = [SubSeq(frames, 1, n) EXCEPT ![n].index = @ + 1]
             /\ envs' = [SubSeq(envs, 1, n) EXCEPT ![n] = v @@ @]
             /\ store' = [c \in {x \in DOMAIN store : <<x[1], x[2]>> \notin Variables} |-> store[c]]
             /\ UNCHANGED status
Kill == /\ Runs("kill") /\ frames' = <<>> /\ envs' = <<>> /\ status' = "FINISHED"
        /\ UNCHANGED store
Barrier == /\ Runs("barrier") /\ DefinesNothing /\ status' = "BARRIER" /\ UNCHANGED store
Resume  == /\ status = "BARRIER" /\ status' = "READY" /\ UNCHANGED <<frames, envs, store>>

Steps == /\ \/ Compute \/ Nop \/ Load \/ Store \/ CopyMemory \/ AtomicOp \/ Variable
            \/ AccessChain \/ Branch \/ Call \/ Return \/ Kill \/ Barrier \/ Resume
         /\ UNCHANGED pipelineVars
Next == Begin \/ Steps
Spec == Init /\ [][Next]_vars
=================================================================================
