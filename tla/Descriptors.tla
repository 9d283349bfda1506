------------------------------ MODULE Descriptors ------------------------------
(***************************************************************************)
(* Descriptor sets: allocation from a pool, updates that run over from one *)
(* binding into the next, and vkCmdBindDescriptorSets, which copies sets   *)
(* into the bindings of a command buffer and adds the dynamic offsets.     *)
(*                                                                         *)
(* A descriptor is the address of a resource, or of the object that the    *)
(* set keeps in global memory for a combined image sampler; the offset is  *)
(* named by its place in pDynamicOffsets, from 1, and 0 is no offset.      *)
(***************************************************************************)
EXTENDS Integers, Sequences, FiniteSets

CONSTANTS Set,        \* descriptor sets
          Layouts,    \* by binding number, [count, type, immutable]
          SetNumbers,
          MaxUpdates, MaxBinds, Null

Type == {"buffer", "dynamic", "combined"}
ASSUME LayoutAssumption == \A l \in Layouts :
  /\ DOMAIN l \subseteq Nat /\ IsFiniteSet(DOMAIN l)
  /\ \A b \in DOMAIN l : /\ l[b].count \in Nat /\ l[b].type \in Type
                         /\ l[b].immutable \in BOOLEAN
ASSUME NumberAssumption == SetNumbers \subseteq Nat
ASSUME NullAssumption ==
  Null \notin Layouts /\ Null \notin [set : Set, at : Nat \X Nat, done : Nat, count : Nat]

VARIABLES
  Layout,                \* of each set, Null when it is not allocated
  DescriptorSet,         \* by binding and array element, what has been set
  CombinedImageSamplers, \* by binding and array element, an allocation
  memory,                \* the live allocations and what they hold
  allocated,             \* how many there have been
  DSM,                   \* the sets bound for a pipeline, by number
  update,                \* the update in progress
  crashed,
  writes,                \* history: the updates of each set
  updates, binds,        \* counted, and bounded
  origin                 \* history: what each set number was bound to

vars == <<Layout, DescriptorSet, CombinedImageSamplers, memory, allocated, DSM,
          update, crashed, writes, updates, binds, origin>>

Nothing == [x \in {} |-> Null]
With(f, x, v) == [y \in DOMAIN f \cup {x} |-> IF y = x THEN v ELSE f[y]]

\* The elements of a layout in the order of std::map<pair<binding, element>>.
Elements(l) == UNION {{<<b, e>> : e \in 0..(l[b].count - 1)} : b \in DOMAIN l}
Before(x, y) == x[1] < y[1] \/ (x[1] = y[1] /\ x[2] < y[2])

Init ==
  /\ Layout = [s \in Set |-> Null]
  /\ DescriptorSet = [s \in Set |-> Nothing]
  /\ CombinedImageSamplers = [s \in Set |-> Nothing]
  /\ memory = Nothing /\ allocated = 0
  /\ DSM = [n \in SetNumbers |-> Nothing]
  /\ update = Null /\ crashed = FALSE
  /\ writes = [s \in Set |-> <<>>]
  /\ updates = 0 /\ binds = 0 /\ origin = [n \in SetNumbers |-> Null]

-------------------------------------------------------------------------------
\* vkAllocateDescriptorSets sets the addresses of immutable samplers.
Address(r) == [res |-> r, offset |-> 0]
Object(a)  == Address(<<"object", a, 0>>)
Allocate(s) ==
  /\ Layout[s] = Null /\ update = Null
  /\ \E l \in Layouts :
       /\ Layout' = [Layout EXCEPT ![s] = l]
       /\ DescriptorSet' = [DescriptorSet EXCEPT ![s] =
            [x \in {y \in Elements(l) : l[y[1]].immutable} |-> Address(<<"sampler", x[1], x[2]>>)]]
  /\ UNCHANGED <<CombinedImageSamplers, memory, allocated, DSM, update, crashed,
                 writes, updates, binds, origin>>

\* The binding to go on with after one that is full: at(++Binding) throws for a
\* binding that the layout does not have.
Following(l, b) ==
  LET after == {c \in DOMAIN l : c > b /\ l[c].count > 0 /\ (b + 1)..c \subseteq DOMAIN l}
  IN IF after = {} THEN Null ELSE CHOOSE c \in after : \A d \in after : c <= d
\* Where a descriptor goes when the loop is at an element.
\* Faults: ArrayElement is not reset; empty bindings are not skipped.
PlaceKept(l, at) ==
  IF at[2] < l[at[1]].count THEN at
  ELSE IF Following(l, at[1]) = Null THEN Null ELSE <<Following(l, at[1]), at[2]>>
PlaceNext(l, at) ==
  IF at[2] < l[at[1]].count THEN at
  ELSE IF at[1] + 1 \notin DOMAIN l THEN Null ELSE <<at[1] + 1, 0>>
Place(l, at) ==
  IF at[2] < l[at[1]].count THEN at
  ELSE IF Following(l, at[1]) = Null THEN Null ELSE <<Following(l, at[1]), 0>>

\* The address a combined image sampler is stored at.
\* Fault: every update allocates.
SampledNew(s, x) == allocated + 1
Sampled(s, x) == IF x \in DOMAIN CombinedImageSamplers[s]
                 THEN CombinedImageSamplers[s][x] ELSE allocated + 1

\* vkUpdateDescriptorSets, or an entry of a template: n descriptors from an element on.
\* They are of one type, as Vulkan demands, and there are as many elements.
Ahead(l, x) == {y \in Elements(l) : y = x \/ Before(x, y)}
Alike(l, x, y) == l[x[1]].type = l[y[1]].type /\ l[x[1]].immutable = l[y[1]].immutable
Update(s) ==
  /\ Layout[s] # Null /\ update = Null /\ updates < MaxUpdates
  /\ \E x \in Elements(Layout[s]) : \E n \in 1..Cardinality(Ahead(Layout[s], x)) :
       /\ \A y \in Ahead(Layout[s], x) :
            Cardinality({z \in Ahead(Layout[s], x) : Before(z, y)}) < n => Alike(Layout[s], x, y)
       /\ update' = [set |-> s, at |-> x, done |-> 0, count |-> n]
       /\ writes' = [writes EXCEPT ![s] = Append(@, [from |-> x, count |-> n, id |-> updates])]
  /\ updates' = updates + 1
  /\ UNCHANGED <<Layout, DescriptorSet, CombinedImageSamplers, memory, allocated,
                 DSM, crashed, binds, origin>>

Resource(id, k) == <<"resource", id, k>>

\* One iteration of updateDescriptors.
UpdateNext ==
  /\ update # Null
  /\ LET s == update.set
         x == Place(Layout[s], update.at)
         r == Resource(updates - 1, update.done)
     IN IF x = Null
        THEN /\ crashed' = TRUE
             /\ UNCHANGED <<DescriptorSet, CombinedImageSamplers, memory, allocated, update>>
        ELSE /\ IF Layout[s][x[1]].type = "combined"
                THEN LET a == Sampled(s, x) IN
                     /\ memory' = With(memory, a, r)
                     /\ allocated' = IF a > allocated THEN a ELSE allocated
                     /\ CombinedImageSamplers' = [CombinedImageSamplers EXCEPT ![s] = With(@, x, a)]
                     /\ DescriptorSet' = [DescriptorSet EXCEPT ![s] = With(@, x, Object(a))]
                ELSE /\ DescriptorSet' = [DescriptorSet EXCEPT ![s] = With(@, x, Address(r))]
                     /\ UNCHANGED <<CombinedImageSamplers, memory, allocated>>
             /\ update' = IF update.done + 1 = update.count THEN Null
                          ELSE [update EXCEPT !.at = <<x[1], x[2] + 1>>, !.done = @ + 1]
             /\ UNCHANGED crashed
  /\ UNCHANGED <<Layout, DSM, writes, updates, binds, origin>>

\* destroyDescriptorSet, for one set or, on a reset of their pool, for all.
Destroyed(sets) ==
  /\ LET freed == UNION {{CombinedImageSamplers[s][x] : x \in DOMAIN CombinedImageSamplers[s]}
                          : s \in sets}
     IN memory' = [a \in DOMAIN memory \ freed |-> memory[a]]
  /\ Layout' = [s \in Set |-> IF s \in sets THEN Null ELSE Layout[s]]
  /\ DescriptorSet' = [s \in Set |-> IF s \in sets THEN Nothing ELSE DescriptorSet[s]]
  /\ CombinedImageSamplers' =
       [s \in Set |-> IF s \in sets THEN Nothing ELSE CombinedImageSamplers[s]]
  /\ writes' = [s \in Set |-> IF s \in sets THEN <<>> ELSE writes[s]]
  /\ UNCHANGED <<allocated, DSM, crashed, update, updates, binds, origin>>
Free(s)   == update = Null /\ Layout[s] # Null /\ Destroyed({s})
ResetPool == update = Null /\ Destroyed({s \in Set : Layout[s] # Null})

-------------------------------------------------------------------------------
(* vkCmdBindDescriptorSets.                                                *)

DynamicOf(l) == {x \in Elements(l) : l[x[1]].type = "dynamic"}
Dynamic(s)   == DynamicOf(Layout[s])
\* The dynamic descriptors that the loop meets: those that have been set.
Met(s) == Dynamic(s) \cap DOMAIN DescriptorSet[s]
\* The place of the offset of x in the i-th set of the call.
\* Fault: OffsetIndex starts again in every set.
OffsetOfOwn(sets, i, x) == 1 + Cardinality({y \in Met(sets[i]) : Before(y, x)})
OffsetOf(sets, i, x) ==
  1 + Cardinality(UNION {{j} \X Met(sets[j]) : j \in 1..(i - 1)})
    + Cardinality({y \in Met(sets[i]) : Before(y, x)})

Mapping(sets, i) ==
  LET s == sets[i] IN
  [x \in DOMAIN DescriptorSet[s] |->
     IF x \in Met(s) THEN [DescriptorSet[s][x] EXCEPT !.offset = OffsetOf(sets, i, x)]
                     ELSE DescriptorSet[s][x]]

\* The caller gives one offset for each dynamic descriptor of the layouts.
Bind(first, sets) ==
  /\ update = Null /\ binds < MaxBinds
  /\ \A i \in DOMAIN sets : Layout[sets[i]] # Null /\ first + i - 1 \in SetNumbers
  /\ binds' = binds + 1
  /\ IF \E i \in DOMAIN sets : Met(sets[i]) # Dynamic(sets[i])
     THEN crashed' = TRUE /\ UNCHANGED <<DSM, origin>>
     ELSE /\ DSM' = [n \in SetNumbers |-> IF n - first + 1 \in DOMAIN sets
                                          THEN Mapping(sets, n - first + 1) ELSE DSM[n]]
          /\ origin' = [n \in SetNumbers |->
               IF n - first + 1 \in DOMAIN sets
               THEN [sets |-> [i \in DOMAIN sets |-> [layout |-> Layout[sets[i]],
                                  was |-> DescriptorSet[sets[i]]]],
                     i |-> n - first + 1]
               ELSE origin[n]]
          /\ UNCHANGED crashed
  /\ UNCHANGED <<Layout, DescriptorSet, CombinedImageSamplers, memory, allocated,
                 update, writes, updates>>

Next == /\ ~crashed
        /\ \/ \E s \in Set : Allocate(s) \/ Update(s) \/ Free(s)
           \/ UpdateNext \/ ResetPool
           \/ \E first \in SetNumbers, s \in Set : Bind(first, <<s>>)
           \/ \E first \in SetNumbers, s, t \in Set : Bind(first, <<s, t>>)

Spec == Init /\ [][Next]_vars
-------------------------------------------------------------------------------
Descriptor == [res : {"resource", "object", "sampler"} \X Nat \X Nat, offset : Nat]
TypeOK ==
  /\ Layout \in [Set -> Layouts \cup {Null}] /\ crashed \in BOOLEAN
  /\ \A s \in Set : LET elements == IF Layout[s] = Null THEN {} ELSE Elements(Layout[s]) IN
       /\ DOMAIN DescriptorSet[s] \subseteq elements
       /\ \A x \in DOMAIN DescriptorSet[s] : DescriptorSet[s][x] \in Descriptor
       /\ DOMAIN CombinedImageSamplers[s] \subseteq elements
  /\ DOMAIN memory \subseteq 1..allocated /\ allocated \in Nat
  /\ \A n \in SetNumbers : \A x \in DOMAIN DSM[n] : DSM[n][x] \in Descriptor

(* Updates run over array elements and bindings in the order of the layout, *)
(* skipping empty bindings: each element holds the resource of the last     *)
(* update that reached it, that is, whose first element is at most count    *)
(* elements before it, and no other element is disturbed.                   *)
Distance(l, x, y) == Cardinality({z \in Elements(l) : (z = x \/ Before(x, z)) /\ Before(z, y)})
Reaches(l, w, y) == /\ (y = w.from \/ Before(w.from, y)) /\ Distance(l, w.from, y) < w.count
Holds(s, y) == LET d == DescriptorSet[s][y].res IN
                 IF d[1] = "object" THEN memory[d[2]] ELSE d
WritesLandInOrder ==
  update = Null /\ ~crashed => \A s \in Set : Layout[s] # Null =>
    \A y \in Elements(Layout[s]) :
      LET by == {k \in DOMAIN writes[s] : Reaches(Layout[s], writes[s][k], y)} IN
      IF by = {}
      THEN y \in DOMAIN DescriptorSet[s] <=> Layout[s][y[1]].immutable
      ELSE LET w == writes[s][CHOOSE k \in by : \A j \in by : j <= k] IN
           /\ y \in DOMAIN DescriptorSet[s]
           /\ Holds(s, y) = Resource(w.id, Distance(Layout[s], w.from, y))

(* The objects for combined image samplers: every live allocation is that    *)
(* of one element of one set, the descriptor of which points at it, and the  *)
(* sets that were freed or whose pool was reset have left none behind.       *)
CombinedOwned ==
  LET owners == {<<s, x>> : s \in Set, x \in UNION {DOMAIN CombinedImageSamplers[t] : t \in Set}}
      own    == {o \in owners : o[2] \in DOMAIN CombinedImageSamplers[o[1]]}
  IN /\ TypeOK
     /\ \A a \in DOMAIN memory : Cardinality({o \in own : CombinedImageSamplers[o[1]][o[2]] = a}) = 1
     /\ \A o \in own : LET a == CombinedImageSamplers[o[1]][o[2]] IN
          /\ a \in DOMAIN memory
          /\ DescriptorSet[o[1]][o[2]] = Object(a)

(* A set stays bound as it was at vkCmdBindDescriptorSets, whatever becomes  *)
(* of it later, and the dynamic offsets are those of its dynamic descriptors *)
(* in the order of the layouts of the sets of the call, one each.            *)
Rank(sets, i, x) ==
  LET all == UNION {{j} \X DynamicOf(sets[j].layout) : j \in DOMAIN sets} IN
  1 + Cardinality({y \in all : y[1] < i \/ (y[1] = i /\ Before(y[2], x))})
BoundInOrder(sets, i, m) ==
  /\ DOMAIN m = DOMAIN sets[i].was
  /\ \A x \in DOMAIN m :
       /\ m[x].res = sets[i].was[x].res
       /\ m[x].offset = IF x \in DynamicOf(sets[i].layout) THEN Rank(sets, i, x) ELSE 0
OffsetsInOrder ==
  \A n \in SetNumbers : origin[n] # Null => BoundInOrder(origin[n].sets, origin[n].i, DSM[n])
===============================================================================
