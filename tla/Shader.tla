--------------------------------- MODULE Shader ---------------------------------
(*****************************************************************************)
(* SPIR-V programs and what they declare.  A program has constants, some of  *)
(* them computed from others or specialized when a pipeline is made, and     *)
(* functions with parameters and basic blocks; a block is the sequence of    *)
(* instructions after its label, the last of which is a terminator.  Result  *)
(* identifiers are unique in the program, and no function calls itself.      *)
(*                                                                           *)
(* The variable at place k of a program points to buffer k, of which there   *)
(* is none when nothing was bound.  One that is an array of descriptors has  *)
(* the elements that initializeVariables copied into that buffer: for each   *)
(* its address, which is null if nothing was bound to it.                    *)
(*****************************************************************************)
EXTENDS Arithmetic

CONSTANTS Programs,  \* name -> [entryPoints, entry, constants, functions, variables, ...]
          MaxBuffer, \* the greatest number of a buffer
          Garbage,   \* the bytes that memory never written may hold
          Null

Buffer == 1..MaxBuffer

Results(seq) == {I.id : I \in {J \in Range(seq) : "id" \in DOMAIN J /\ J.id # Null}}
Params(p, f) == Range(p.functions[f].params)
\* The identifiers that a function gives values to, and those of the program.
Local(p, f)  == Params(p, f) \cup UNION {Results(p.functions[f].blocks[b])
                                          : b \in DOMAIN p.functions[f].blocks}
Constants(p) == Results(p.constants)
Global(p)    == Constants(p) \cup Results(p.variables)
Ids(p)       == Global(p) \cup UNION {Local(p, f) : f \in DOMAIN p.functions}
Bound(p)     == {k \in DOMAIN p.variables : p.variables[k].bound}

ASSUME BufferAssumption == MaxBuffer \in Nat /\ Garbage \subseteq 0..(Byte - 1)
ASSUME ProgramAssumption == \A p \in Range(Programs) :
  /\ \A e \in Range(p.entryPoints) : e.function \in DOMAIN p.functions
  /\ \A f, g \in DOMAIN p.functions : f # g => Local(p, f) \cap Local(p, g) = {}
  /\ \A f \in DOMAIN p.functions : Local(p, f) \cap Global(p) = {}

Block(p, f, b) == p.functions[f].blocks[b]
\* Instruction::next: there is none after a terminator.
After(block, i) == IF i < Len(block) THEN i + 1 ELSE Null

\* The first instruction of a block that is not an OpPhi.
Body(block) == CHOOSE i \in DOMAIN block :
  block[i].op # "phi" /\ \A j \in 1..(i - 1) : block[j].op = "phi"
Phis(block) == {block[i] : i \in 1..(Body(block) - 1)}

\* The block to which a terminator moves with the number of its operand.
\* An OpSwitch takes the first literal that is equal.
Target(I, v) ==
  CASE I.op = "branch"            -> I.to
    [] I.op = "branchConditional" -> IF v = 0 THEN I.else ELSE I.to
    [] I.op = "switch" ->
         LET equal == {k \in DOMAIN I.literals : I.literals[k] = v} IN
         IF equal = {} THEN I.else
         ELSE I.labels[CHOOSE k \in equal : \A j \in equal : k <= j]

-------------------------------------------------------------------------------
\* The paths to the scalars of a type, and where SPIR-V's layout decorations put
\* each of them: its offset, type and the layout of a matrix on the way.
RECURSIVE Paths(_)
Paths(t) == IF t.kind \in {"vector", "matrix", "array", "struct"}
            THEN UNION {{<<i>> \o p : p \in Paths(ElementType(t, i))} : i \in 0..(t.count - 1)}
            ELSE {<<>>}
Spot(t, layout, path) ==
  LET by(s, i) ==
        CASE s.type.kind = "struct" -> s.type.offsets[i + 1]
          [] s.type.kind = "array" -> i * s.type.stride
          [] s.layout.stride = 0 -> i * s.type.elem.size
          [] (s.type.kind = "matrix") = (s.layout.order = "COL_MAJOR") -> i * s.layout.stride
          [] OTHER -> i * ScalarType(s.type.elem).size
      enter(s, i) ==
        LET child == ElementType(s.type, i) IN
        [at |-> s.at + by(s, i), type |-> child,
         layout |-> IF s.type.kind = "struct" THEN s.type.members[i + 1].layout ELSE s.layout]
  IN FoldLeft(enter, [at |-> 0, type |-> t, layout |-> layout], path)
\* The same for all types of the programs, worked out once.
Instructions(p) ==
  UNION {UNION {Range(f.blocks[b]) : b \in DOMAIN f.blocks} : f \in Range(p.functions)}
TypesOf(p) == {c.type : c \in Range(p.constants)} \cup {v.type : v \in Range(p.variables)}
              \cup {J.type : J \in {I \in Instructions(p) : "type" \in DOMAIN I}}
Behind(types) == {t.elem : t \in {u \in types : u.kind \in {"pointer", "array"}}}
AllTypes == LET types == UNION {TypesOf(p) : p \in Range(Programs)}
            IN types \cup Behind(types) \cup Behind(Behind(types))
SpotTable == [t \in AllTypes |-> [path \in Paths(t) |->
  LET s == Spot(t, NoLayout, path) IN [at |-> s.at, size |-> s.type.size]]]
\* The numbers in the bytes of an object.
Numbers(t, data) ==
  [path \in DOMAIN SpotTable[t] |->
     LET s == SpotTable[t][path] IN Number(Part(data, s.at, s.size))]

\* The cells of a buffer: the paths to the scalars of the type of its variable, without
\* the elements of an array of descriptors to which nothing is bound.
Unbound(elements, path) == elements # <<>> /\ elements[path[1] + 1][1] = 0
CellPaths(t, elements) == {path \in DOMAIN SpotTable[t] : ~Unbound(elements, path)}
CellSpot(t, elements, path) ==
  IF elements = <<>> THEN SpotTable[t][path]
  ELSE [SpotTable[t.elem][Tail(path)] EXCEPT !.at = @ + elements[path[1] + 1][2]]
\* The path to the cell at an offset.
AtTable == [t \in AllTypes |-> LET spots == SpotTable[t] IN
  [offset \in {spots[path].at : path \in DOMAIN spots} |->
     CHOOSE path \in DOMAIN spots : spots[path].at = offset]]
Contents(t, elements, data) ==
  [path \in CellPaths(t, elements) |->
     LET s == CellSpot(t, elements, path) IN Number(Part(data, s.at, s.size))]

\* The instructions that leave bytes of their result uninitialized.
Filling(I) == IF I.fn \in {"Undef", "VectorShuffle"} THEN Garbage ELSE {0}

\* What the buffers of a program may hold when an invocation starts.
External(p) == {k \in Bound(p) : p.variables[k].init = Null}
BufferContents(p) ==
  {data \in [External(p) -> UNION {p.variables[k].contents : k \in External(p)}] :
     \A k \in External(p) : data[k] \in p.variables[k].contents}
=================================================================================
