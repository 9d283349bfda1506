-------------------------- MODULE Descriptors_proofs --------------------------
(****************************************************************************)
(* Proofs about Descriptors, for any layouts, any sets and any order of     *)
(* allocations, updates, bindings and destructions.                         *)
(****************************************************************************)
EXTENDS Descriptors, FiniteSetTheorems, SequenceTheorems, WellFoundedInduction, TLAPS

(* A set of numbers that is not empty has a least one.                      *)
LEMMA Smallest ==
  ASSUME NEW T \in SUBSET Nat, T # {}
  PROVE  \E x \in T : \A y \in T : x <= y
<1>1. PICK x \in T : \A y \in T : <<y, x>> \notin OpToRel(<, Nat)
  BY NatLessThanWellFounded, WFMin
<1>2. \A y \in T : ~(y < x)
  BY <1>1 DEF OpToRel
<1> QED  BY <1>2

(* The elements of a layout, one at a time.                                 *)
LEMMA ElementsOf ==
  ASSUME NEW l, NEW x
  PROVE  x \in Elements(l) <=>
           \E b \in DOMAIN l : \E e \in 0..(l[b].count - 1) : x = <<b, e>>
BY DEF Elements

(* What an element is made of.                                            *)
LEMMA ElementNumbers ==
  ASSUME NEW l \in Layouts, NEW x \in Elements(l)
  PROVE  /\ x[1] \in DOMAIN l /\ x[1] \in Nat /\ x[2] \in Nat /\ x = <<x[1], x[2]>>
         /\ x[2] < l[x[1]].count
<1>1. PICK b \in DOMAIN l : \E e \in 0..(l[b].count - 1) : x = <<b, e>>
  BY ElementsOf
<1>2. b \in Nat /\ l[b].count \in Nat
  BY LayoutAssumption
<1> QED  BY <1>1, <1>2

(* An update goes to an element of the layout, or fails.                    *)
LEMMA PlaceIn ==
  ASSUME NEW l \in Layouts, NEW b \in DOMAIN l, NEW e \in Nat, Place(l, <<b, e>>) # Null
  PROVE  Place(l, <<b, e>>) \in Elements(l)
<1> DEFINE after == {c \in DOMAIN l : c > b /\ l[c].count > 0 /\ (b + 1)..c \subseteq DOMAIN l}
<1>1. DOMAIN l \subseteq Nat /\ \A c \in DOMAIN l : l[c].count \in Nat
  BY LayoutAssumption
<1>2. CASE e < l[b].count
  <2>1. Place(l, <<b, e>>) = <<b, e>> /\ e \in 0..(l[b].count - 1)
    BY <1>1, <1>2 DEF Place
  <2> QED  BY <2>1, ElementsOf
<1>3. CASE ~(e < l[b].count)
  <2>1. Place(l, <<b, e>>) = <<Following(l, b), 0>> /\ Following(l, b) # Null
    BY <1>3 DEF Place
  <2>2. after # {} /\ after \subseteq Nat
    BY <1>1, <2>1 DEF Following
  <2>3. PICK m \in after : \A d \in after : m <= d
    BY <2>2, Smallest
  <2>4. Following(l, b) \in after
    BY <2>2, <2>3 DEF Following
  <2>5. Following(l, b) \in DOMAIN l /\ l[Following(l, b)].count > 0
    BY <2>4
  <2>6. 0 \in 0..(l[Following(l, b)].count - 1)
    BY <1>1, <2>5
  <2> QED  BY <2>1, <2>5, <2>6, ElementsOf
<1> QED  BY <1>2, <1>3

(* There are finitely many.                                                 *)
LEMMA ElementsFinite ==
  ASSUME NEW l \in Layouts
  PROVE  IsFiniteSet(Elements(l))
<1> DEFINE row(b) == {<<b, e>> : e \in 0..(l[b].count - 1)}
           rows   == {row(b) : b \in DOMAIN l}
           f      == [b \in DOMAIN l |-> row(b)]
<1>1. IsFiniteSet(DOMAIN l) /\ \A b \in DOMAIN l : l[b].count \in Nat
  BY LayoutAssumption
<1>2. f \in Surjection(DOMAIN l, rows)
  BY DEF Surjection
<1>3. IsFiniteSet(rows)
  <2> HIDE DEF f, rows
  <2> QED  BY <1>1, <1>2, FS_Surjection
<1>4. ASSUME NEW b \in DOMAIN l PROVE IsFiniteSet(row(b))
  <2> DEFINE g == [e \in 0..(l[b].count - 1) |-> <<b, e>>]
  <2>1. IsFiniteSet(0..(l[b].count - 1))
    BY <1>1, FS_Interval
  <2>2. g \in Surjection(0..(l[b].count - 1), row(b))
    BY DEF Surjection
  <2> HIDE DEF g, row
  <2> QED  BY <2>1, <2>2, FS_Surjection
<1>5. \A r \in rows : IsFiniteSet(r)
  BY <1>4
<1>6. Elements(l) = UNION rows
  BY DEF Elements
<1> HIDE DEF rows
<1> QED  BY <1>3, <1>5, <1>6, FS_UNION

-------------------------------------------------------------------------------
(* The invariant.                                                           *)

\* The elements of a set, none when it is not allocated.
ElementsOfSet(s) == IF Layout[s] = Null THEN {} ELSE Elements(Layout[s])

\* What a set holds, before any dynamic offset is added.
Plain == [res : {"resource", "object", "sampler"} \X Nat \X Nat, offset : {0}]

SetTypes ==
  /\ Layout \in [Set -> Layouts \cup {Null}] /\ crashed \in BOOLEAN
  /\ DOMAIN DescriptorSet = Set /\ DOMAIN CombinedImageSamplers = Set
  /\ \A s \in Set :
       /\ DOMAIN DescriptorSet[s] \subseteq ElementsOfSet(s)
       /\ DOMAIN CombinedImageSamplers[s] \subseteq ElementsOfSet(s)
       /\ \A x \in DOMAIN DescriptorSet[s] : DescriptorSet[s][x] \in Plain
  /\ allocated \in Nat /\ DOMAIN memory \subseteq 1..allocated

UpdateTypes ==
  /\ updates \in Nat
  /\ update # Null =>
       /\ update \in [set : Set, at : Nat \X Nat, done : Nat, count : Nat] /\ updates >= 1
       /\ Layout[update.set] # Null /\ update.at[1] \in DOMAIN Layout[update.set]

\* Elements and live allocations are in one-to-one correspondence.
Owned ==
  /\ \A s \in Set : \A x \in DOMAIN CombinedImageSamplers[s] :
       /\ CombinedImageSamplers[s][x] \in DOMAIN memory
       /\ x \in DOMAIN DescriptorSet[s] /\ Layout[s][x[1]].type = "combined"
       /\ DescriptorSet[s][x] = Object(CombinedImageSamplers[s][x])
  /\ \A s, t \in Set :
       \A x \in DOMAIN CombinedImageSamplers[s], y \in DOMAIN CombinedImageSamplers[t] :
         CombinedImageSamplers[s][x] = CombinedImageSamplers[t][y] => s = t /\ x = y
  /\ \A a \in DOMAIN memory :
       \E s \in Set : \E x \in DOMAIN CombinedImageSamplers[s] : CombinedImageSamplers[s][x] = a

BoundTypes == /\ DOMAIN DSM = SetNumbers /\ DOMAIN origin = SetNumbers
              /\ \A n \in SetNumbers : \A x \in DOMAIN DSM[n] : DSM[n][x] \in Descriptor

DescInv == SetTypes /\ UpdateTypes /\ Owned /\ BoundTypes /\ OffsetsInOrder

(* What a map holds when an element has been put into it.                   *)
LEMMA WithIs ==
  ASSUME NEW f, NEW x, NEW v
  PROVE  /\ DOMAIN With(f, x, v) = DOMAIN f \cup {x}
         /\ \A y \in DOMAIN f \cup {x} : With(f, x, v)[y] = IF y = x THEN v ELSE f[y]
BY DEF With

(* The descriptors that are set have no dynamic offset.                     *)
LEMMA PlainAddress ==
  /\ \A a \in Nat : Object(a) \in Plain
  /\ \A i, k \in Nat : Address(<<"resource", i, k>>) \in Plain
  /\ \A i, k \in Nat : Address(<<"sampler", i, k>>) \in Plain
BY DEF Object, Address, Plain

(* In the beginning nothing is allocated, set or bound.                     *)
LEMMA InitHolds == Init => DescInv
<1> SUFFICES ASSUME Init PROVE DescInv
  OBVIOUS
<1>1. DOMAIN Nothing = {}
  BY DEF Nothing
<1>2. SetTypes
  BY <1>1 DEF Init, SetTypes
<1>3. UpdateTypes
  BY DEF Init, UpdateTypes
<1>4. Owned
  BY <1>1 DEF Init, Owned
<1>5. BoundTypes
  BY <1>1 DEF Init, BoundTypes
<1>6. OffsetsInOrder
  BY DEF Init, OffsetsInOrder
<1> QED  BY <1>2, <1>3, <1>4, <1>5, <1>6 DEF DescInv

(* What was bound stays as it was bound.                                    *)
LEMMA BoundKept ==
  ASSUME BoundTypes, OffsetsInOrder, UNCHANGED <<DSM, origin>>
  PROVE  BoundTypes' /\ OffsetsInOrder'
<1>1. BoundTypes'
  BY DEF BoundTypes
<1>2. OffsetsInOrder'
  BY DEF OffsetsInOrder
<1> QED  BY <1>1, <1>2

(* Allocation sets the immutable samplers of a set that had nothing.        *)
LEMMA AllocateStep ==
  ASSUME DescInv, NEW s \in Set, Allocate(s)
  PROVE  DescInv'
<1>1. PICK l \in Layouts :
        /\ Layout' = [Layout EXCEPT ![s] = l]
        /\ DescriptorSet' = [DescriptorSet EXCEPT ![s] =
             [x \in {y \in Elements(l) : l[y[1]].immutable} |-> Address(<<"sampler", x[1], x[2]>>)]]
  BY DEF Allocate
<1>2. /\ Layout[s] = Null /\ update = Null /\ l # Null
      /\ UNCHANGED <<CombinedImageSamplers, memory, allocated, DSM, update, crashed,
                     writes, updates, binds, origin>>
  BY NullAssumption DEF Allocate
<1> USE DEF DescInv
<1>3. /\ Layout' \in [Set -> Layouts \cup {Null}] /\ Layout'[s] = l
      /\ \A t \in Set : t # s => Layout'[t] = Layout[t] /\ DescriptorSet'[t] = DescriptorSet[t]
      /\ DOMAIN DescriptorSet' = Set
  BY <1>1 DEF SetTypes
<1>4. /\ DOMAIN DescriptorSet'[s] = {y \in Elements(l) : l[y[1]].immutable}
      /\ \A x \in DOMAIN DescriptorSet'[s] : DescriptorSet'[s][x] = Address(<<"sampler", x[1], x[2]>>)
  BY <1>1 DEF SetTypes
<1>5. DOMAIN CombinedImageSamplers[s] = {} /\ DOMAIN DescriptorSet[s] = {}
  BY <1>2 DEF SetTypes, ElementsOfSet
<1>6. ASSUME NEW x \in DOMAIN DescriptorSet'[s] PROVE DescriptorSet'[s][x] \in Plain
  <2>1. x \in Elements(l) /\ DescriptorSet'[s][x] = Address(<<"sampler", x[1], x[2]>>)
    BY <1>4
  <2>2. x[1] \in Nat /\ x[2] \in Nat
    BY <2>1, ElementNumbers
  <2> QED  BY <2>1, <2>2, PlainAddress
<1>7. SetTypes'
  <2>1. ASSUME NEW t \in Set
        PROVE  /\ DOMAIN DescriptorSet'[t] \subseteq ElementsOfSet(t)'
               /\ DOMAIN CombinedImageSamplers'[t] \subseteq ElementsOfSet(t)'
               /\ \A x \in DOMAIN DescriptorSet'[t] : DescriptorSet'[t][x] \in Plain
    <3>1. CASE t = s
      BY <1>2, <1>3, <1>4, <1>5, <1>6, <3>1 DEF ElementsOfSet
    <3>2. CASE t # s
      BY <1>2, <1>3, <3>2 DEF SetTypes, ElementsOfSet
    <3> QED  BY <3>1, <3>2
  <2> QED  BY <1>2, <1>3, <2>1 DEF SetTypes
<1>8. UpdateTypes'
  BY <1>2 DEF UpdateTypes
<1>9. Owned'
  <2>1. \A t \in Set : \A x \in DOMAIN CombinedImageSamplers[t] :
          t # s /\ Layout'[t] = Layout[t] /\ DescriptorSet'[t] = DescriptorSet[t]
    BY <1>3, <1>5
  <2> QED  BY <1>2, <2>1 DEF Owned
<1> QED  BY <1>2, <1>7, <1>8, <1>9, BoundKept

(* An update that starts.                                                   *)
LEMMA UpdateStep ==
  ASSUME DescInv, NEW s \in Set, Update(s)
  PROVE  DescInv'
<1> USE DEF DescInv
<1>1. /\ Layout[s] # Null /\ updates' = updates + 1
      /\ UNCHANGED <<Layout, DescriptorSet, CombinedImageSamplers, memory, allocated,
                     DSM, crashed, binds, origin>>
  BY DEF Update
<1>2. PICK x \in Elements(Layout[s]) : \E n \in 1..Cardinality(Ahead(Layout[s], x)) :
        update' = [set |-> s, at |-> x, done |-> 0, count |-> n]
  BY DEF Update
<1>3. PICK n \in 1..Cardinality(Ahead(Layout[s], x)) :
        update' = [set |-> s, at |-> x, done |-> 0, count |-> n]
  BY <1>2
<1>4. Layout[s] \in Layouts
  BY <1>1 DEF SetTypes
<1>5. x[1] \in DOMAIN Layout[s] /\ x \in Nat \X Nat /\ n \in Nat
  BY <1>4, ElementNumbers
<1>6. UpdateTypes'
  BY <1>1, <1>3, <1>5 DEF UpdateTypes
<1>7. SetTypes'
  BY <1>1 DEF SetTypes, ElementsOfSet
<1>8. Owned'
  BY <1>1 DEF Owned
<1> QED  BY <1>1, <1>6, <1>7, <1>8, BoundKept

(* An element that takes the address of a resource.                         *)
LEMMA PutAddress ==
  ASSUME SetTypes, Owned, NEW s \in Set, Layout[s] \in Layouts, NEW x \in Elements(Layout[s]),
         Layout[s][x[1]].type # "combined", NEW v \in Plain, Layout[s] # Null,
         DescriptorSet' = [DescriptorSet EXCEPT ![s] = With(@, x, v)],
         UNCHANGED <<Layout, CombinedImageSamplers, memory, allocated>>, crashed' \in BOOLEAN
  PROVE  SetTypes' /\ Owned'
<1>1. /\ DOMAIN DescriptorSet' = Set /\ DescriptorSet'[s] = With(DescriptorSet[s], x, v)
      /\ \A t \in Set : t # s => DescriptorSet'[t] = DescriptorSet[t]
  BY DEF SetTypes
<1>2. /\ DOMAIN DescriptorSet'[s] = DOMAIN DescriptorSet[s] \cup {x}
      /\ DescriptorSet'[s][x] = v
      /\ \A y \in DOMAIN DescriptorSet[s] : y # x => DescriptorSet'[s][y] = DescriptorSet[s][y]
  BY <1>1 DEF With
<1>3. SetTypes'
  <2>1. ASSUME NEW t \in Set
        PROVE  /\ DOMAIN DescriptorSet'[t] \subseteq ElementsOfSet(t)'
               /\ \A y \in DOMAIN DescriptorSet'[t] : DescriptorSet'[t][y] \in Plain
    BY <1>1, <1>2 DEF SetTypes, ElementsOfSet
  <2>2. \A t \in Set : DOMAIN CombinedImageSamplers'[t] \subseteq ElementsOfSet(t)'
    BY DEF SetTypes, ElementsOfSet
  <2> QED  BY <1>1, <2>1, <2>2 DEF SetTypes
<1>4. ASSUME NEW t \in Set, NEW y \in DOMAIN CombinedImageSamplers[t]
      PROVE  y \in DOMAIN DescriptorSet'[t] /\ DescriptorSet'[t][y] = DescriptorSet[t][y]
  <2>1. y \in DOMAIN DescriptorSet[t] /\ Layout[t][y[1]].type = "combined"
    BY DEF Owned
  <2> QED  BY <1>1, <1>2, <2>1
<1>5. Owned'
  BY <1>4 DEF Owned
<1> QED  BY <1>3, <1>5

(* A combined image sampler keeps its allocation or gets a new one.         *)
LEMMA PutSampled ==
  ASSUME SetTypes, Owned, NEW s \in Set, Layout[s] \in Layouts, NEW x \in Elements(Layout[s]),
         Layout[s][x[1]].type = "combined", Layout[s] # Null, NEW a, a = Sampled(s, x), NEW r,
         memory' = With(memory, a, r),
         allocated' = IF a > allocated THEN a ELSE allocated,
         CombinedImageSamplers' = [CombinedImageSamplers EXCEPT ![s] = With(@, x, a)],
         DescriptorSet' = [DescriptorSet EXCEPT ![s] = With(@, x, Object(a))],
         Layout' = Layout, crashed' \in BOOLEAN
  PROVE  SetTypes' /\ Owned'
<1>1. /\ DOMAIN DescriptorSet' = Set /\ DescriptorSet'[s] = With(DescriptorSet[s], x, Object(a))
      /\ \A t \in Set : t # s => DescriptorSet'[t] = DescriptorSet[t]
  BY DEF SetTypes
<1>2. /\ DOMAIN DescriptorSet'[s] = DOMAIN DescriptorSet[s] \cup {x}
      /\ DescriptorSet'[s][x] = Object(a)
      /\ \A y \in DOMAIN DescriptorSet[s] : y # x => DescriptorSet'[s][y] = DescriptorSet[s][y]
  BY <1>1 DEF With
<1>3. /\ DOMAIN CombinedImageSamplers' = Set
      /\ CombinedImageSamplers'[s] = With(CombinedImageSamplers[s], x, a)
      /\ \A t \in Set : t # s => CombinedImageSamplers'[t] = CombinedImageSamplers[t]
  BY DEF SetTypes
<1>4. /\ DOMAIN CombinedImageSamplers'[s] = DOMAIN CombinedImageSamplers[s] \cup {x}
      /\ CombinedImageSamplers'[s][x] = a
      /\ \A y \in DOMAIN CombinedImageSamplers[s] : y # x =>
           CombinedImageSamplers'[s][y] = CombinedImageSamplers[s][y]
  BY <1>3 DEF With
<1>5. DOMAIN memory' = DOMAIN memory \cup {a}
  BY WithIs
<1>6. /\ a \in Nat /\ a <= allocated + 1 /\ a >= 1
      /\ x \in DOMAIN CombinedImageSamplers[s] => a = CombinedImageSamplers[s][x]
      /\ x \notin DOMAIN CombinedImageSamplers[s] => a \notin DOMAIN memory
  BY DEF Sampled, SetTypes, Owned
<1>7. allocated' \in Nat /\ DOMAIN memory' \subseteq 1..allocated'
  BY <1>5, <1>6 DEF SetTypes
<1>8. SetTypes'
  <2>1. Object(a) \in Plain
    BY <1>6, PlainAddress
  <2>2. ASSUME NEW t \in Set
        PROVE  /\ DOMAIN DescriptorSet'[t] \subseteq ElementsOfSet(t)'
               /\ \A y \in DOMAIN DescriptorSet'[t] : DescriptorSet'[t][y] \in Plain
    BY <1>1, <1>2, <2>1 DEF SetTypes, ElementsOfSet
  <2>3. \A t \in Set : DOMAIN CombinedImageSamplers'[t] \subseteq ElementsOfSet(t)'
    BY <1>3, <1>4 DEF SetTypes, ElementsOfSet
  <2> QED  BY <1>1, <1>3, <1>7, <2>2, <2>3 DEF SetTypes
\* No element but x has the allocation of x.
<1>9. ASSUME NEW t \in Set, NEW y \in DOMAIN CombinedImageSamplers'[t]
      PROVE  \/ t = s /\ y = x /\ CombinedImageSamplers'[t][y] = a
             \/ /\ ~(t = s /\ y = x) /\ y \in DOMAIN CombinedImageSamplers[t]
                /\ CombinedImageSamplers'[t][y] = CombinedImageSamplers[t][y]
                /\ CombinedImageSamplers[t][y] # a
  <2>1. CASE t = s /\ y = x
    BY <1>4, <2>1
  <2>2. CASE ~(t = s /\ y = x)
    <3>1. /\ y \in DOMAIN CombinedImageSamplers[t]
          /\ CombinedImageSamplers'[t][y] = CombinedImageSamplers[t][y]
      BY <1>3, <1>4, <2>2
    <3>2. CASE x \in DOMAIN CombinedImageSamplers[s]
      BY <1>6, <2>2, <3>1, <3>2 DEF Owned
    <3>3. CASE x \notin DOMAIN CombinedImageSamplers[s]
      BY <1>6, <3>1, <3>3 DEF Owned
    <3> QED  BY <2>2, <3>1, <3>2, <3>3
  <2> QED  BY <2>1, <2>2
<1>10. ASSUME NEW t \in Set, NEW y \in DOMAIN CombinedImageSamplers'[t]
       PROVE  /\ CombinedImageSamplers'[t][y] \in DOMAIN memory'
              /\ y \in DOMAIN DescriptorSet'[t] /\ Layout'[t][y[1]].type = "combined"
              /\ DescriptorSet'[t][y] = Object(CombinedImageSamplers'[t][y])
  <2>1. CASE t = s /\ y = x
    BY <1>2, <1>4, <1>5, <2>1
  <2>2. CASE ~(t = s /\ y = x)
    <3>1. /\ y \in DOMAIN CombinedImageSamplers[t]
          /\ CombinedImageSamplers'[t][y] = CombinedImageSamplers[t][y]
      BY <1>9, <2>2
    <3>2. /\ CombinedImageSamplers[t][y] \in DOMAIN memory
          /\ y \in DOMAIN DescriptorSet[t] /\ Layout[t][y[1]].type = "combined"
          /\ DescriptorSet[t][y] = Object(CombinedImageSamplers[t][y])
      BY <3>1 DEF Owned
    <3>3. y \in DOMAIN DescriptorSet'[t] /\ DescriptorSet'[t][y] = DescriptorSet[t][y]
      BY <1>1, <1>2, <2>2, <3>2
    <3> QED  BY <1>5, <3>1, <3>2, <3>3
  <2> QED  BY <2>1, <2>2
<1>11. ASSUME NEW t \in Set, NEW u \in Set, NEW y \in DOMAIN CombinedImageSamplers'[t],
              NEW z \in DOMAIN CombinedImageSamplers'[u],
              CombinedImageSamplers'[t][y] = CombinedImageSamplers'[u][z]
       PROVE  t = u /\ y = z
  BY <1>9, <1>11 DEF Owned
<1>12. ASSUME NEW b \in DOMAIN memory'
       PROVE  \E t \in Set : \E y \in DOMAIN CombinedImageSamplers'[t] :
                CombinedImageSamplers'[t][y] = b
  <2>1. CASE b = a
    BY <1>4, <2>1
  <2>2. CASE b # a
    <3>1. PICK t \in Set : \E y \in DOMAIN CombinedImageSamplers[t] : CombinedImageSamplers[t][y] = b
      BY <1>5, <2>2 DEF Owned
    <3>2. PICK y \in DOMAIN CombinedImageSamplers[t] : CombinedImageSamplers[t][y] = b
      BY <3>1
    <3>3. ~(t = s /\ y = x)
      BY <1>6, <2>2, <3>2
    <3>4. y \in DOMAIN CombinedImageSamplers'[t] /\ CombinedImageSamplers'[t][y] = b
      BY <1>3, <1>4, <3>2, <3>3
    <3> QED  BY <3>4
  <2> QED  BY <2>1, <2>2
<1>13. Owned'
  BY <1>10, <1>11, <1>12 DEF Owned
<1> QED  BY <1>8, <1>13

(* One iteration of an update.                                              *)
LEMMA UpdateNextStep ==
  ASSUME DescInv, UpdateNext
  PROVE  DescInv'
<1> USE DEF DescInv
<1> DEFINE s == update.set
           x == Place(Layout[s], update.at)
           r == Resource(updates - 1, update.done)
<1>1. /\ update \in [set : Set, at : Nat \X Nat, done : Nat, count : Nat] /\ updates >= 1
      /\ s \in Set /\ Layout[s] # Null /\ update.at[1] \in DOMAIN Layout[s] /\ updates \in Nat
  BY DEF UpdateNext, UpdateTypes
<1>2. UNCHANGED <<Layout, DSM, writes, updates, binds, origin>>
  BY DEF UpdateNext
<1>3. Layout[s] \in Layouts
  BY <1>1 DEF SetTypes
<1>4. CASE x = Null
  <2>1. crashed' = TRUE
        /\ UNCHANGED <<DescriptorSet, CombinedImageSamplers, memory, allocated, update>>
    BY <1>4 DEF UpdateNext
  <2>2. SetTypes'
    BY <1>2, <2>1 DEF SetTypes, ElementsOfSet
  <2>3. UpdateTypes'
    BY <1>2, <2>1 DEF UpdateTypes
  <2>4. Owned'
    BY <1>2, <2>1 DEF Owned
  <2> QED  BY <1>2, <2>2, <2>3, <2>4, BoundKept
<1>5. CASE x # Null
  <2>1. x \in Elements(Layout[s])
    <3>1. update.at = <<update.at[1], update.at[2]>> /\ update.at[2] \in Nat
      BY <1>1
    <3> QED  BY <1>1, <1>3, <1>5, <3>1, PlaceIn
  <2>2. x[1] \in DOMAIN Layout[s] /\ x[1] \in Nat /\ x[2] \in Nat
    BY <1>3, <2>1, ElementNumbers
  <2>3. /\ update' = IF update.done + 1 = update.count THEN Null
                     ELSE [update EXCEPT !.at = <<x[1], x[2] + 1>>, !.done = @ + 1]
        /\ crashed' = crashed
    BY <1>5 DEF UpdateNext
  <2>4. UpdateTypes'
    <3> HIDE DEF x
    <3>1. CASE update.done + 1 = update.count
      BY <1>1, <1>2, <2>3, <3>1 DEF UpdateTypes
    <3>2. CASE update.done + 1 # update.count
      <4>1. /\ update' \in [set : Set, at : Nat \X Nat, done : Nat, count : Nat]
            /\ update'.set = s /\ update'.at[1] = x[1]
        <5> DEFINE p == <<x[1], x[2] + 1>>
        <5>1. p \in Nat \X Nat /\ p[1] = x[1]
          BY <2>2
        <5>2. update.done + 1 \in Nat /\ update.count \in Nat
          BY <1>1
        <5>3. update' = [set |-> s, at |-> p, done |-> update.done + 1, count |-> update.count]
          BY <1>1, <2>3, <3>2
        <5> HIDE DEF p, s
        <5> QED  BY <1>1, <5>1, <5>2, <5>3
      <4> QED  BY <1>1, <1>2, <2>2, <4>1 DEF UpdateTypes
    <3> QED  BY <3>1, <3>2
  <2>5. crashed' \in BOOLEAN
    BY <2>3 DEF SetTypes
  <2>6. CASE Layout[s][x[1]].type = "combined"
    <3> DEFINE a == Sampled(s, x)
    <3>1. /\ memory' = With(memory, a, r)
          /\ allocated' = IF a > allocated THEN a ELSE allocated
          /\ CombinedImageSamplers' = [CombinedImageSamplers EXCEPT ![s] = With(@, x, a)]
          /\ DescriptorSet' = [DescriptorSet EXCEPT ![s] = With(@, x, Object(a))]
      BY <1>5, <2>6 DEF UpdateNext
    <3>2. SetTypes' /\ Owned'
      <4> HIDE DEF a, x, s, r
      <4>1. a = Sampled(s, x)
        BY DEF a
      <4> QED  BY <1>1, <1>2, <1>3, <2>1, <2>5, <2>6, <3>1, <4>1, PutSampled
    <3> QED  BY <1>2, <2>4, <3>2, BoundKept
  <2>7. CASE Layout[s][x[1]].type # "combined"
    <3>1. /\ DescriptorSet' = [DescriptorSet EXCEPT ![s] = With(@, x, Address(r))]
          /\ UNCHANGED <<CombinedImageSamplers, memory, allocated>>
      BY <1>5, <2>7 DEF UpdateNext
    <3>2. Address(r) \in Plain
      BY <1>1, PlainAddress DEF Resource
    <3>3. SetTypes' /\ Owned'
      <4> HIDE DEF x, s, r
      <4> QED  BY <1>1, <1>2, <1>3, <2>1, <2>5, <2>7, <3>1, <3>2, PutAddress
    <3> QED  BY <1>2, <2>4, <3>3, BoundKept
  <2> QED  BY <2>6, <2>7
<1> QED  BY <1>4, <1>5

(* Destroyed sets take their allocations with them, and no others.          *)
LEMMA DestroyedStep ==
  ASSUME DescInv, update = Null, NEW sets \in SUBSET Set, Destroyed(sets)
  PROVE  DescInv'
<1> USE DEF DescInv
<1> DEFINE freed == UNION {{CombinedImageSamplers[s][x] : x \in DOMAIN CombinedImageSamplers[s]}
                            : s \in sets}
<1>1. memory' = [a \in DOMAIN memory \ freed |-> memory[a]]
  BY DEF Destroyed
<1>2. /\ Layout' = [s \in Set |-> IF s \in sets THEN Null ELSE Layout[s]]
      /\ DescriptorSet' = [s \in Set |-> IF s \in sets THEN Nothing ELSE DescriptorSet[s]]
      /\ CombinedImageSamplers' =
           [s \in Set |-> IF s \in sets THEN Nothing ELSE CombinedImageSamplers[s]]
      /\ UNCHANGED <<allocated, DSM, crashed, update, updates, binds, origin>>
  BY DEF Destroyed
<1>3. \A a : a \in freed <=> \E s \in sets : \E x \in DOMAIN CombinedImageSamplers[s] :
                               a = CombinedImageSamplers[s][x]
  OBVIOUS
<1>4. DOMAIN memory' = DOMAIN memory \ freed
  BY <1>1
<1> HIDE DEF freed
<1>5. DOMAIN Nothing = {}
  BY DEF Nothing
<1>6. SetTypes'
  <2>1. ASSUME NEW s \in Set
        PROVE  /\ DOMAIN DescriptorSet'[s] \subseteq ElementsOfSet(s)'
               /\ DOMAIN CombinedImageSamplers'[s] \subseteq ElementsOfSet(s)'
               /\ \A x \in DOMAIN DescriptorSet'[s] : DescriptorSet'[s][x] \in Plain
    BY <1>2, <1>5 DEF SetTypes, ElementsOfSet
  <2>2. Layout' \in [Set -> Layouts \cup {Null}]
    BY <1>2 DEF SetTypes
  <2> QED  BY <1>2, <1>4, <2>1, <2>2 DEF SetTypes
<1>7. UpdateTypes'
  BY <1>2 DEF UpdateTypes
<1>8. \A s \in Set : \A x \in DOMAIN CombinedImageSamplers'[s] :
        /\ s \notin sets /\ CombinedImageSamplers'[s] = CombinedImageSamplers[s]
        /\ DescriptorSet'[s] = DescriptorSet[s] /\ Layout'[s] = Layout[s]
  BY <1>2, <1>5
<1>9. ASSUME NEW s \in Set, NEW x \in DOMAIN CombinedImageSamplers'[s]
      PROVE  CombinedImageSamplers[s][x] \in DOMAIN memory'
  <2>1. CombinedImageSamplers[s][x] \in DOMAIN memory
    BY <1>8 DEF Owned
  <2>2. CombinedImageSamplers[s][x] \notin freed
    BY <1>3, <1>8 DEF Owned
  <2> QED  BY <1>4, <2>1, <2>2
<1>10. ASSUME NEW a \in DOMAIN memory'
       PROVE  \E s \in Set : \E x \in DOMAIN CombinedImageSamplers'[s] :
                CombinedImageSamplers'[s][x] = a
  <2>1. PICK s \in Set : \E x \in DOMAIN CombinedImageSamplers[s] : CombinedImageSamplers[s][x] = a
    BY <1>4 DEF Owned
  <2>2. s \notin sets
    BY <1>3, <1>4, <2>1
  <2> QED  BY <1>2, <2>1, <2>2
<1>11. Owned'
  <2>1. \A s \in Set : \A x \in DOMAIN CombinedImageSamplers'[s] :
          /\ CombinedImageSamplers'[s][x] \in DOMAIN memory'
          /\ x \in DOMAIN DescriptorSet'[s] /\ Layout'[s][x[1]].type = "combined"
          /\ DescriptorSet'[s][x] = Object(CombinedImageSamplers'[s][x])
    BY <1>8, <1>9 DEF Owned
  <2>2. \A s, t \in Set :
          \A x \in DOMAIN CombinedImageSamplers'[s], y \in DOMAIN CombinedImageSamplers'[t] :
            CombinedImageSamplers'[s][x] = CombinedImageSamplers'[t][y] => s = t /\ x = y
    BY <1>8 DEF Owned
  <2> QED  BY <1>10, <2>1, <2>2 DEF Owned
<1> QED  BY <1>2, <1>6, <1>7, <1>11, BoundKept

-------------------------------------------------------------------------------
(* vkCmdBindDescriptorSets.                                                 *)

(* The dynamic descriptors of the sets of a call, by set, are finitely many.*)
LEMMA RowsFinite ==
  ASSUME NEW n \in Nat, NEW D, \A j \in 1..n : IsFiniteSet(D[j])
  PROVE  IsFiniteSet(UNION {{j} \X D[j] : j \in 1..n})
<1> DEFINE row(j) == {j} \X D[j]
           rows   == {row(j) : j \in 1..n}
           f      == [j \in 1..n |-> row(j)]
<1>1. f \in Surjection(1..n, rows)
  BY DEF Surjection
<1>2. IsFiniteSet(1..n)
  <2>1. 1 \in Int /\ n \in Int
    OBVIOUS
  <2> QED  BY <2>1, FS_Interval
<1>3. IsFiniteSet(rows)
  <2> HIDE DEF f, rows
  <2> QED  BY <1>1, <1>2, FS_Surjection
<1>4. \A j \in 1..n : IsFiniteSet(row(j))
  BY FS_Singleton, FS_Product
<1>5. \A R \in rows : IsFiniteSet(R)
  BY <1>4
<1> HIDE DEF rows
<1>6. IsFiniteSet(UNION rows)
  BY <1>3, <1>5, FS_UNION
<1> QED  BY <1>6 DEF rows

(* The offset that the loop gives a dynamic descriptor is the one at its    *)
(* rank among those of all sets of the call.                                *)
LEMMA OffsetIsRank ==
  ASSUME SetTypes, NEW sets \in Seq(Set), \A i \in 1..Len(sets) : Layout[sets[i]] \in Layouts,
         \A i \in 1..Len(sets) : Met(sets[i]) = Dynamic(sets[i]),
         NEW was, NEW i \in 1..Len(sets), NEW x,
         was = [j \in 1..Len(sets) |-> [layout |-> Layout[sets[j]],
                                        was |-> DescriptorSet[sets[j]]]]
  PROVE  /\ OffsetOf(sets, i, x) = Rank(was, i, x)
         /\ OffsetOf(sets, i, x) \in Nat
<1> DEFINE D(j) == DynamicOf(Layout[sets[j]])
           earlier == UNION {{j} \X D(j) : j \in 1..(i - 1)}
           own     == {y \in D(i) : Before(y, x)}
           all     == UNION {{j} \X D(j) : j \in 1..Len(sets)}
           ranked  == {y \in all : y[1] < i \/ (y[1] = i /\ Before(y[2], x))}
<1>1. i \in Nat /\ Len(sets) \in Nat /\ i - 1 \in Nat /\ \A j \in 1..(i - 1) : j \in 1..Len(sets)
  OBVIOUS
<1>2. \A j \in 1..Len(sets) : IsFiniteSet(D(j))
  <2> SUFFICES ASSUME NEW j \in 1..Len(sets) PROVE IsFiniteSet(D(j))
    OBVIOUS
  <2>1. D(j) \subseteq Elements(Layout[sets[j]])
    BY DEF DynamicOf
  <2> QED  BY <2>1, ElementsFinite, FS_Subset
<1>3. IsFiniteSet(own) /\ IsFiniteSet(earlier)
  <2>1. own \subseteq D(i)
    OBVIOUS
  <2>2. IsFiniteSet(own)
    <3> HIDE DEF own, D
    <3> QED  BY <1>2, <2>1, FS_Subset
  <2>3. \A j \in 1..(i - 1) : IsFiniteSet(D(j))
    BY <1>1, <1>2
  <2>4. IsFiniteSet(earlier)
    <3> DEFINE g == [j \in 1..(i - 1) |-> D(j)]
    <3>1. \A j \in 1..(i - 1) : g[j] = D(j)
      OBVIOUS
    <3>2. earlier = UNION {{j} \X g[j] : j \in 1..(i - 1)}
      BY <3>1
    <3>3. \A j \in 1..(i - 1) : IsFiniteSet(g[j])
      BY <2>3, <3>1
    <3> DEFINE m == i - 1
    <3>4. m \in Nat
      BY <1>1
    <3> HIDE DEF g, m
    <3>5. (\A j \in 1..m : IsFiniteSet(g[j])) => IsFiniteSet(UNION {{j} \X g[j] : j \in 1..m})
      BY <3>4, RowsFinite
    <3> QED  BY <3>2, <3>3, <3>5 DEF m
  <2> QED  BY <2>2, <2>4
<1>4. \A y : y \in earlier <=> \E j \in 1..(i - 1) : y \in {j} \X D(j)
  OBVIOUS
<1>5. \A y : y \in all <=> \E j \in 1..Len(sets) : y \in {j} \X D(j)
  OBVIOUS
<1>6. ranked = earlier \cup ({i} \X own)
  <2>1. ASSUME NEW y \in ranked PROVE y \in earlier \cup ({i} \X own)
    <3>1. PICK j \in 1..Len(sets) : y \in {j} \X D(j)
      BY <1>5
    <3>2. y[1] = j /\ y[2] \in D(j) /\ y = <<y[1], y[2]>>
      BY <3>1
    <3>3. CASE j < i
      <4>1. j \in 1..(i - 1)
        BY <3>3
      <4> QED  BY <1>4, <3>1, <4>1
    <3>4. CASE ~(j < i)
      <4>1. j = i /\ Before(y[2], x)
        BY <3>2, <3>4
      <4>2. y[2] \in own
        BY <3>2, <4>1
      <4> HIDE DEF own
      <4> QED  BY <3>2, <4>1, <4>2
    <3> QED  BY <3>3, <3>4
  <2>2. ASSUME NEW y \in earlier PROVE y \in ranked
    <3>1. PICK j \in 1..(i - 1) : y \in {j} \X D(j)
      BY <1>4
    <3>2. y[1] = j /\ j < i /\ j \in 1..Len(sets)
      BY <1>1, <3>1
    <3> QED  BY <1>5, <3>1, <3>2
  <2>3. ASSUME NEW y \in {i} \X own PROVE y \in ranked
    <3>1. y[1] = i /\ y[2] \in D(i) /\ Before(y[2], x) /\ y \in {i} \X D(i)
      OBVIOUS
    <3> QED  BY <1>5, <3>1
  <2> QED  BY <2>1, <2>2, <2>3
<1>7. earlier \cap ({i} \X own) = {}
  <2> SUFFICES ASSUME NEW y \in earlier, y \in {i} \X own PROVE FALSE
    OBVIOUS
  <2>1. PICK j \in 1..(i - 1) : y \in {j} \X D(j)
    BY <1>4
  <2>2. y[1] = j /\ y[1] = i
    BY <2>1
  <2> QED  BY <1>1, <2>2
<1> HIDE DEF earlier, own, ranked
<1>8. /\ IsFiniteSet({i} \X own) /\ Cardinality({i} \X own) = Cardinality(own)
      /\ Cardinality(own) \in Nat /\ Cardinality(earlier) \in Nat
  <2>1. IsFiniteSet({i}) /\ Cardinality({i}) = 1
    BY FS_Singleton
  <2>2. /\ IsFiniteSet({i} \X own)
        /\ Cardinality({i} \X own) = Cardinality({i}) * Cardinality(own)
    BY <1>3, <2>1, FS_Product
  <2>3. Cardinality(own) \in Nat /\ Cardinality(earlier) \in Nat
    BY <1>3, FS_CardinalityType
  <2> QED  BY <2>1, <2>2, <2>3
<1>9. Cardinality(ranked) = Cardinality(earlier) + Cardinality(own)
  <2>1. Cardinality(earlier \cap ({i} \X own)) = 0
    BY <1>7, FS_EmptySet
  <2>2. Cardinality(earlier \cup ({i} \X own)) =
          Cardinality(earlier) + Cardinality({i} \X own)
            - Cardinality(earlier \cap ({i} \X own))
    BY <1>3, <1>8, FS_Union
  <2> QED  BY <1>6, <1>8, <2>1, <2>2
<1>10. OffsetOf(sets, i, x) = 1 + Cardinality(earlier) + Cardinality(own)
  <2>1. \A j \in 1..(i - 1) : Met(sets[j]) = D(j)
    BY <1>1 DEF Dynamic
  <2>2. UNION {{j} \X Met(sets[j]) : j \in 1..(i - 1)} = earlier
    BY <2>1 DEF earlier
  <2>3. {y \in Met(sets[i]) : Before(y, x)} = own
    BY DEF own, Dynamic
  <2> QED  BY <2>2, <2>3 DEF OffsetOf
<1>11. Rank(was, i, x) = 1 + Cardinality(ranked)
  <2>1. DOMAIN was = 1..Len(sets) /\ \A j \in 1..Len(sets) : was[j].layout = Layout[sets[j]]
    OBVIOUS
  <2>2. UNION {{j} \X DynamicOf(was[j].layout) : j \in DOMAIN was} = all
    BY <2>1
  <2> QED  BY <2>2 DEF Rank, ranked
<1> QED  BY <1>8, <1>9, <1>10, <1>11

(* What a binding leaves at a number of the call.                           *)
LEMMA MappingRight ==
  ASSUME SetTypes, NEW sets \in Seq(Set), \A i \in 1..Len(sets) : Layout[sets[i]] \in Layouts,
         \A i \in 1..Len(sets) : Met(sets[i]) = Dynamic(sets[i]),
         NEW was, NEW i \in 1..Len(sets),
         was = [j \in 1..Len(sets) |-> [layout |-> Layout[sets[j]],
                                        was |-> DescriptorSet[sets[j]]]]
  PROVE  /\ BoundInOrder(was, i, Mapping(sets, i))
         /\ \A x \in DOMAIN Mapping(sets, i) : Mapping(sets, i)[x] \in Descriptor
<1> DEFINE s == sets[i]
           m == Mapping(sets, i)
<1>1. s \in Set /\ was[i].layout = Layout[s] /\ was[i].was = DescriptorSet[s]
  BY ElementOfSeq
<1>2. /\ DOMAIN m = DOMAIN DescriptorSet[s]
      /\ \A x \in DOMAIN DescriptorSet[s] :
           m[x] = IF x \in Met(s) THEN [DescriptorSet[s][x] EXCEPT !.offset = OffsetOf(sets, i, x)]
                  ELSE DescriptorSet[s][x]
  BY DEF Mapping
<1>3. \A x \in DOMAIN DescriptorSet[s] : x \in Met(s) <=> x \in DynamicOf(was[i].layout)
  BY <1>1 DEF Met, Dynamic
<1> HIDE DEF m, s
<1>4. ASSUME NEW x \in DOMAIN m
      PROVE  /\ m[x].res = was[i].was[x].res
             /\ m[x].offset = IF x \in DynamicOf(was[i].layout) THEN Rank(was, i, x) ELSE 0
             /\ m[x] \in Descriptor
  <2>1. DescriptorSet[s][x] \in Plain /\ x \in DOMAIN DescriptorSet[s]
    BY <1>1, <1>2 DEF SetTypes
  <2>2. OffsetOf(sets, i, x) = Rank(was, i, x) /\ OffsetOf(sets, i, x) \in Nat
    BY OffsetIsRank
  <2>3. CASE x \in Met(s)
    <3> DEFINE k == OffsetOf(sets, i, x)
               d == DescriptorSet[s][x]
    <3>1. m[x] = [d EXCEPT !.offset = k] /\ x \in DynamicOf(was[i].layout)
      BY <1>2, <1>3, <2>1, <2>3
    <3>2. d \in Plain /\ k \in Nat /\ k = Rank(was, i, x) /\ was[i].was[x] = d
      BY <1>1, <2>1, <2>2
    <3> HIDE DEF k, d
    <3>3. m[x].res = d.res /\ m[x].offset = k /\ m[x] \in Descriptor
      BY <3>1, <3>2 DEF Plain, Descriptor
    <3> QED  BY <3>1, <3>2, <3>3
  <2>4. CASE x \notin Met(s)
    <3>1. m[x] = DescriptorSet[s][x] /\ x \notin DynamicOf(was[i].layout)
      BY <1>2, <1>3, <2>1, <2>4
    <3>2. m[x].offset = 0 /\ m[x] \in Descriptor
      BY <2>1, <3>1 DEF Plain, Descriptor
    <3> QED  BY <1>1, <3>1, <3>2
  <2> QED  BY <2>3, <2>4
<1>5. DOMAIN m = DOMAIN was[i].was
  BY <1>1, <1>2
<1> QED  BY <1>4, <1>5 DEF BoundInOrder, m

(* vkCmdBindDescriptorSets copies the sets, with the offsets, or fails.     *)
LEMMA BindStep ==
  ASSUME DescInv, NEW first \in SetNumbers, NEW sets \in Seq(Set), Bind(first, sets)
  PROVE  DescInv'
<1> USE DEF DescInv
<1>1. /\ update = Null /\ DOMAIN sets = 1..Len(sets)
      /\ \A i \in 1..Len(sets) : Layout[sets[i]] # Null /\ first + i - 1 \in SetNumbers
      /\ UNCHANGED <<Layout, DescriptorSet, CombinedImageSamplers, memory, allocated,
                     update, writes, updates>>
  BY DEF Bind
<1>2. \A i \in 1..Len(sets) : Layout[sets[i]] \in Layouts
  BY <1>1, ElementOfSeq DEF SetTypes
<1>3. crashed' \in BOOLEAN
  BY DEF Bind, SetTypes
<1>4. SetTypes'
  BY <1>1, <1>3 DEF SetTypes, ElementsOfSet
<1>5. UpdateTypes'
  BY <1>1 DEF UpdateTypes
<1>6. Owned'
  BY <1>1 DEF Owned
<1>7. CASE \E i \in DOMAIN sets : Met(sets[i]) # Dynamic(sets[i])
  <2>1. UNCHANGED <<DSM, origin>>
    BY <1>7 DEF Bind
  <2> QED  BY <1>4, <1>5, <1>6, <2>1, BoundKept
<1>8. CASE ~ \E i \in DOMAIN sets : Met(sets[i]) # Dynamic(sets[i])
  <2> DEFINE was == [i \in DOMAIN sets |-> [layout |-> Layout[sets[i]],
                                            was |-> DescriptorSet[sets[i]]]]
  <2>1. /\ DSM' = [n \in SetNumbers |-> IF n - first + 1 \in DOMAIN sets
                                        THEN Mapping(sets, n - first + 1) ELSE DSM[n]]
        /\ origin' = [n \in SetNumbers |-> IF n - first + 1 \in DOMAIN sets
                                           THEN [sets |-> was, i |-> n - first + 1]
                                           ELSE origin[n]]
    BY <1>8 DEF Bind
  <2>2. was = [i \in 1..Len(sets) |-> [layout |-> Layout[sets[i]],
                                       was |-> DescriptorSet[sets[i]]]]
    BY <1>1
  <2>3. \A i \in 1..Len(sets) : Met(sets[i]) = Dynamic(sets[i])
    BY <1>1, <1>8
  <2> HIDE DEF was
  <2>4. ASSUME NEW i \in 1..Len(sets)
        PROVE  /\ BoundInOrder(was, i, Mapping(sets, i))
               /\ \A x \in DOMAIN Mapping(sets, i) : Mapping(sets, i)[x] \in Descriptor
    BY <1>2, <2>2, <2>3, MappingRight
  <2>5. ASSUME NEW n \in SetNumbers
        PROVE  /\ \A x \in DOMAIN DSM'[n] : DSM'[n][x] \in Descriptor
               /\ origin'[n] # Null => BoundInOrder(origin'[n].sets, origin'[n].i, DSM'[n])
    <3>1. CASE n - first + 1 \in DOMAIN sets
      <4> DEFINE i == n - first + 1
      <4>1. i \in 1..Len(sets)
        BY <1>1, <3>1
      <4>2. DSM'[n] = Mapping(sets, i) /\ origin'[n].sets = was /\ origin'[n].i = i
        BY <2>1, <3>1
      <4> HIDE DEF i
      <4> QED  BY <2>4, <4>1, <4>2
    <3>2. CASE n - first + 1 \notin DOMAIN sets
      <4>1. DSM'[n] = DSM[n] /\ origin'[n] = origin[n]
        BY <2>1, <3>2
      <4> QED  BY <4>1 DEF BoundTypes, OffsetsInOrder
    <3> QED  BY <3>1, <3>2
  <2>6. BoundTypes'
    BY <2>1, <2>5 DEF BoundTypes
  <2>7. OffsetsInOrder'
    BY <2>5 DEF OffsetsInOrder
  <2> QED  BY <1>4, <1>5, <1>6, <2>6, <2>7
<1> QED  BY <1>7, <1>8

(* Every step keeps the invariant.                                          *)
LEMMA NextHolds == DescInv /\ [Next]_vars => DescInv'
<1> SUFFICES ASSUME DescInv, [Next]_vars PROVE DescInv'
  OBVIOUS
<1>1. CASE \E s \in Set : Allocate(s) \/ Update(s) \/ Free(s)
  <2>1. PICK s \in Set : Allocate(s) \/ Update(s) \/ Free(s)
    BY <1>1
  <2>2. CASE Free(s)
    <3>1. update = Null /\ Destroyed({s}) /\ {s} \in SUBSET Set
      BY <2>2 DEF Free
    <3> QED  BY <3>1, DestroyedStep
  <2> QED  BY <2>1, <2>2, AllocateStep, UpdateStep
<1>2. CASE UpdateNext
  BY <1>2, UpdateNextStep
<1>3. CASE ResetPool
  <2>1. update = Null /\ Destroyed({s \in Set : Layout[s] # Null})
    BY <1>3 DEF ResetPool
  <2>2. {s \in Set : Layout[s] # Null} \in SUBSET Set
    OBVIOUS
  <2> QED  BY <2>1, <2>2, DestroyedStep
<1>4. CASE \E first \in SetNumbers, s \in Set : Bind(first, <<s>>)
  <2>1. PICK first \in SetNumbers : \E s \in Set : Bind(first, <<s>>)
    BY <1>4
  <2>2. PICK s \in Set : Bind(first, <<s>>)
    BY <2>1
  <2>3. <<s>> \in Seq(Set)
    OBVIOUS
  <2> QED  BY <2>2, <2>3, BindStep
<1>5. CASE \E first \in SetNumbers, s, t \in Set : Bind(first, <<s, t>>)
  <2>1. PICK first \in SetNumbers : \E s, t \in Set : Bind(first, <<s, t>>)
    BY <1>5
  <2>2. PICK s \in Set : \E t \in Set : Bind(first, <<s, t>>)
    BY <2>1
  <2>3. PICK t \in Set : Bind(first, <<s, t>>)
    BY <2>2
  <2>4. <<s, t>> \in Seq(Set)
    OBVIOUS
  <2> QED  BY <2>3, <2>4, BindStep
<1>6. CASE UNCHANGED vars
  <2> USE <1>6 DEF vars, DescInv
  <2>1. SetTypes'
    BY DEF SetTypes, ElementsOfSet
  <2>2. UpdateTypes'
    BY DEF UpdateTypes
  <2>3. Owned'
    BY DEF Owned
  <2> QED  BY <2>1, <2>2, <2>3, BoundKept
<1> QED  BY <1>1, <1>2, <1>3, <1>4, <1>5, <1>6 DEF Next

(* The invariant of descriptor sets.                                        *)
LEMMA DescInvHolds == Spec => []DescInv
BY InitHolds, NextHolds, PTL DEF Spec

-------------------------------------------------------------------------------
(* What is bound stays as it was when vkCmdBindDescriptorSets was called,   *)
(* and its dynamic offsets are those at the ranks of the descriptors, for   *)
(* any layouts and any order of calls.                                      *)
THEOREM OffsetsOrdered == Spec => []OffsetsInOrder
<1>1. DescInv => OffsetsInOrder
  BY DEF DescInv
<1> QED  BY <1>1, DescInvHolds, PTL

(* The types of the sets follow from the invariant.                         *)
LEMMA TypesHold == ASSUME DescInv PROVE TypeOK
<1> USE DEF DescInv
<1>1. ASSUME NEW s \in Set
      PROVE  LET elements == IF Layout[s] = Null THEN {} ELSE Elements(Layout[s]) IN
               /\ DOMAIN DescriptorSet[s] \subseteq elements
               /\ \A x \in DOMAIN DescriptorSet[s] : DescriptorSet[s][x] \in Descriptor
               /\ DOMAIN CombinedImageSamplers[s] \subseteq elements
  <2>1. Plain \subseteq Descriptor
    BY DEF Plain, Descriptor
  <2> QED  BY <2>1 DEF SetTypes, ElementsOfSet
<1> QED  BY <1>1 DEF TypeOK, SetTypes, BoundTypes

(* No object of a combined image sampler is leaked, shared or freed under a *)
(* set, for any number of sets, updates, frees and resets.                  *)
THEOREM CombinedAreOwned == Spec => []CombinedOwned
<1>1. ASSUME DescInv PROVE CombinedOwned
  <2> USE <1>1 DEF DescInv
  <2> DEFINE owners == {<<s, x>> : s \in Set,
                                   x \in UNION {DOMAIN CombinedImageSamplers[t] : t \in Set}}
             own    == {o \in owners : o[2] \in DOMAIN CombinedImageSamplers[o[1]]}
             has(a) == {o \in own : CombinedImageSamplers[o[1]][o[2]] = a}
  <2>1. \A o \in own : /\ o[1] \in Set /\ o[2] \in DOMAIN CombinedImageSamplers[o[1]]
                       /\ o = <<o[1], o[2]>>
    OBVIOUS
  <2>2. \A s \in Set : \A x \in DOMAIN CombinedImageSamplers[s] : <<s, x>> \in own
    OBVIOUS
  <2> HIDE DEF own
  <2>3. ASSUME NEW a \in DOMAIN memory PROVE Cardinality(has(a)) = 1
    <3>1. PICK s \in Set : \E x \in DOMAIN CombinedImageSamplers[s] : CombinedImageSamplers[s][x] = a
      BY DEF Owned
    <3>2. PICK x \in DOMAIN CombinedImageSamplers[s] : CombinedImageSamplers[s][x] = a
      BY <3>1
    <3>3. <<s, x>> \in has(a)
      BY <2>2, <3>2
    <3>4. ASSUME NEW o \in has(a) PROVE o = <<s, x>>
      <4>1. /\ o[1] \in Set /\ o[2] \in DOMAIN CombinedImageSamplers[o[1]]
            /\ o = <<o[1], o[2]>> /\ CombinedImageSamplers[o[1]][o[2]] = a
        BY <2>1
      <4>2. o[1] = s /\ o[2] = x
        BY <3>2, <4>1 DEF Owned
      <4> QED  BY <4>1, <4>2
    <3>5. has(a) = {<<s, x>>}
      <4> HIDE DEF has
      <4> QED  BY <3>3, <3>4
    <3> HIDE DEF has
    <3> QED  BY <3>5, FS_Singleton
  <2>4. ASSUME NEW o \in own
        PROVE  LET a == CombinedImageSamplers[o[1]][o[2]] IN
                 a \in DOMAIN memory /\ DescriptorSet[o[1]][o[2]] = Object(a)
    BY <2>1 DEF Owned
  <2> QED  BY <2>3, <2>4, TypesHold DEF CombinedOwned, own
<1> QED  BY <1>1, DescInvHolds, PTL

-------------------------------------------------------------------------------
(* Where updates land.                                                      *)

(* The elements of a layout are in a total order.                           *)
LEMMA Ordered ==
  ASSUME NEW x \in Nat \X Nat, NEW y \in Nat \X Nat, NEW z \in Nat \X Nat
  PROVE  /\ ~Before(x, x) /\ (x = y \/ Before(x, y) \/ Before(y, x))
         /\ (Before(x, y) => ~Before(y, x)) /\ (Before(x, y) /\ Before(y, z) => Before(x, z))
<1>1. /\ x[1] \in Nat /\ x[2] \in Nat /\ y[1] \in Nat /\ y[2] \in Nat
      /\ z[1] \in Nat /\ z[2] \in Nat /\ (x[1] = y[1] /\ x[2] = y[2] => x = y)
  OBVIOUS
<1> QED  BY <1>1 DEF Before

\* The elements from one to a place, without the latter.
Between(l, x, y) == {z \in Elements(l) : (z = x \/ Before(x, z)) /\ Before(z, y)}

(* They are finitely many.                                                  *)
LEMMA BetweenFinite ==
  ASSUME NEW l \in Layouts, NEW x, NEW y
  PROVE  /\ IsFiniteSet(Between(l, x, y)) /\ Distance(l, x, y) = Cardinality(Between(l, x, y))
         /\ Distance(l, x, y) \in Nat
<1>1. Between(l, x, y) \subseteq Elements(l)
  BY DEF Between
<1>2. IsFiniteSet(Between(l, x, y))
  BY <1>1, ElementsFinite, FS_Subset
<1>3. Distance(l, x, y) = Cardinality(Between(l, x, y))
  BY DEF Distance, Between
<1> QED  BY <1>2, <1>3, FS_CardinalityType

(* The place after an element is one further away.                          *)
LEMMA DistanceNext ==
  ASSUME NEW l \in Layouts, NEW from \in Elements(l), NEW x \in Elements(l), ~Before(x, from)
  PROVE  Distance(l, from, <<x[1], x[2] + 1>>) = Distance(l, from, x) + 1
<1> DEFINE y == <<x[1], x[2] + 1>>
<1>1. /\ x \in Nat \X Nat /\ from \in Nat \X Nat /\ y \in Nat \X Nat
      /\ y[1] = x[1] /\ y[2] = x[2] + 1 /\ x[1] \in Nat /\ x[2] \in Nat
  BY ElementNumbers
<1>2. from = x \/ Before(from, x)
  BY <1>1, Ordered
<1>3. ASSUME NEW z \in Elements(l) PROVE Before(z, y) <=> Before(z, x) \/ z = x
  <2>1. z \in Nat \X Nat /\ z[1] \in Nat /\ z[2] \in Nat /\ z = <<z[1], z[2]>> /\ x = <<x[1], x[2]>>
    BY ElementNumbers
  <2> HIDE DEF y
  <2> QED  BY <1>1, <2>1 DEF Before
<1> HIDE DEF y
<1>4. Between(l, from, y) = Between(l, from, x) \cup {x}
  BY <1>2, <1>3 DEF Between
<1>5. x \notin Between(l, from, x)
  BY <1>1, Ordered DEF Between
<1>6. Cardinality(Between(l, from, x) \cup {x}) = Cardinality(Between(l, from, x)) + 1
  BY <1>5, BetweenFinite, FS_AddElement
<1>7. /\ Distance(l, from, y) = Cardinality(Between(l, from, y))
      /\ Distance(l, from, x) = Cardinality(Between(l, from, x))
  BY BetweenFinite
<1>8. Distance(l, from, y) = Distance(l, from, x) + 1
  BY <1>4, <1>6, <1>7
<1> QED  BY <1>8 DEF y

(* An element is nearer than those behind it.                               *)
LEMMA DistanceLess ==
  ASSUME NEW l \in Layouts, NEW from \in Elements(l), NEW x \in Elements(l), NEW y \in Nat \X Nat,
         ~Before(x, from), Before(x, y)
  PROVE  Distance(l, from, x) < Distance(l, from, y)
<1> DEFINE S == Between(l, from, x)
           T == Between(l, from, y)
<1>1. x \in Nat \X Nat /\ from \in Nat \X Nat /\ \A z \in Elements(l) : z \in Nat \X Nat
  BY ElementNumbers
<1>2. from = x \/ Before(from, x)
  BY <1>1, Ordered
<1>3. x \notin S
  BY <1>1, Ordered DEF Between
<1>4. S \cup {x} \subseteq T
  BY <1>1, <1>2, Ordered DEF Between
<1> HIDE DEF S, T
<1>5. IsFiniteSet(S) /\ IsFiniteSet(T) /\ Cardinality(S) \in Nat
  BY BetweenFinite, FS_CardinalityType DEF S, T
<1>6. Cardinality(S \cup {x}) = Cardinality(S) + 1 /\ IsFiniteSet(S \cup {x})
  BY <1>3, <1>5, FS_AddElement
<1>7. Cardinality(S \cup {x}) <= Cardinality(T) /\ Cardinality(T) \in Nat
  BY <1>4, <1>5, FS_Subset, FS_CardinalityType
<1>8. Distance(l, from, x) = Cardinality(S) /\ Distance(l, from, y) = Cardinality(T)
  BY BetweenFinite DEF S, T
<1> QED  BY <1>5, <1>6, <1>7, <1>8

(* The loop goes on to the next element there is: none is left out.         *)
LEMMA PlaceNoneBetween ==
  ASSUME NEW l \in Layouts, NEW at \in Nat \X Nat, at[1] \in DOMAIN l, Place(l, at) # Null
  PROVE  /\ ~Before(Place(l, at), at)
         /\ \A z \in Elements(l) : Before(z, Place(l, at)) <=> Before(z, at)
<1> DEFINE b == at[1]
           e == at[2]
           x == Place(l, at)
           after == {c \in DOMAIN l : c > b /\ l[c].count > 0 /\ (b + 1)..c \subseteq DOMAIN l}
<1>1. /\ DOMAIN l \subseteq Nat /\ \A c \in DOMAIN l : l[c].count \in Nat
      /\ b \in Nat /\ e \in Nat /\ at = <<b, e>>
  BY LayoutAssumption
<1>2. CASE e < l[b].count
  <2>1. x = at
    BY <1>2 DEF Place
  <2> QED  BY <2>1, Ordered
<1>3. CASE ~(e < l[b].count)
  <2>1. x = <<Following(l, b), 0>> /\ Following(l, b) # Null
    BY <1>3 DEF Place
  <2>2. after # {} /\ after \subseteq Nat /\ Following(l, b) = CHOOSE c \in after : \A d \in after : c <= d
    BY <1>1, <2>1 DEF Following
  <2>3. PICK m \in after : \A d \in after : m <= d
    BY <2>2, Smallest
  <2>4. Following(l, b) \in after /\ \A d \in after : Following(l, b) <= d
    BY <2>2, <2>3
  <2> DEFINE c == Following(l, b)
  <2>5. c \in Nat /\ c > b /\ (b + 1)..c \subseteq DOMAIN l /\ \A d \in after : c <= d
    BY <1>1, <2>4
  <2>6. x[1] = c /\ x[2] = 0 /\ x = <<c, 0>>
    BY <2>1
  <2> HIDE DEF c, x, after
  <2>7. ~Before(x, at)
    BY <1>1, <2>5, <2>6 DEF Before
  <2>8. ASSUME NEW z \in Elements(l) PROVE Before(z, x) <=> Before(z, at)
    <3>1. z[1] \in DOMAIN l /\ z[1] \in Nat /\ z[2] \in Nat /\ z[2] < l[z[1]].count
      BY ElementNumbers
    <3>2. z[1] > b => c <= z[1] \/ ~(z[1] < c)
      <4> SUFFICES ASSUME z[1] > b, z[1] < c PROVE FALSE
        BY <2>5, <3>1
      <4>1. (b + 1)..z[1] \subseteq DOMAIN l
        BY <2>5, <3>1
      <4>2. l[z[1]].count > 0
        BY <1>1, <3>1
      <4>3. z[1] \in after
        BY <3>1, <4>1, <4>2 DEF after
      <4> QED  BY <2>5, <3>1, <4>3
    <3>3. z[1] = b => z[2] < e
      BY <1>1, <1>3, <3>1
    <3> QED  BY <1>1, <2>5, <2>6, <3>1, <3>2, <3>3 DEF Before
  <2> QED  BY <2>7, <2>8 DEF x
<1> QED  BY <1>2, <1>3

\* A write of a set, while its update goes on, is as long as what is done of it.
Write == [from : Nat \X Nat, count : Nat, id : Nat]
Going(s, k) == update # Null /\ update.set = s /\ k = Len(writes[s])
CountOf(s, k) == IF Going(s, k) THEN update.done ELSE writes[s][k].count
Hits(s, k, y) == LET from == writes[s][k].from IN
  (y = from \/ Before(from, y)) /\ Distance(Layout[s], from, y) < CountOf(s, k)
LastHit(s, k, y) == Hits(s, k, y) /\ \A j \in DOMAIN writes[s] : j > k => ~Hits(s, j, y)

\* An element has the resource of the last write that hit it.
Landed(s, y) ==
  /\ \A k \in DOMAIN writes[s] : LastHit(s, k, y) =>
       /\ y \in DOMAIN DescriptorSet[s]
       /\ Holds(s, y) = Resource(writes[s][k].id, Distance(Layout[s], writes[s][k].from, y))
  /\ (\A k \in DOMAIN writes[s] : ~Hits(s, k, y)) =>
       (y \in DOMAIN DescriptorSet[s] <=> Layout[s][y[1]].immutable)

WriteTypes ==
  /\ DOMAIN writes = Set
  /\ \A s \in Set : /\ writes[s] \in Seq(Write)
                    /\ Layout[s] = Null => writes[s] = <<>>
                    /\ \A k \in DOMAIN writes[s] : writes[s][k].from \in Elements(Layout[s])
\* Where the update is: done counts the elements up to its place.
UpdateRight ==
  update # Null =>
    LET s == update.set
        w == writes[s][Len(writes[s])]
    IN /\ writes[s] # <<>> /\ w.count = update.count /\ w.id = updates - 1
       /\ update.done < update.count /\ ~Before(update.at, w.from)
       /\ update.done = Distance(Layout[s], w.from, update.at)
\* A descriptor that is an object is that of its element.
ObjectsOwned ==
  \A s \in Set : \A x \in DOMAIN DescriptorSet[s] : DescriptorSet[s][x].res[1] = "object" =>
    /\ x \in DOMAIN CombinedImageSamplers[s]
    /\ DescriptorSet[s][x].res[2] = CombinedImageSamplers[s][x]
AllLanded == \A s \in Set : Layout[s] # Null => \A y \in Elements(Layout[s]) : Landed(s, y)

LandInv == DescInv /\ WriteTypes /\ UpdateRight /\ ObjectsOwned /\ AllLanded

(* Nothing is written at first.                                             *)
LEMMA InitLands == Init => LandInv
<1> SUFFICES ASSUME Init PROVE LandInv
  OBVIOUS
<1>1. DOMAIN Nothing = {}
  BY DEF Nothing
<1>2. WriteTypes
  BY DEF Init, WriteTypes
<1>3. UpdateRight
  BY DEF Init, UpdateRight
<1>4. ObjectsOwned
  BY <1>1 DEF Init, ObjectsOwned
<1>5. AllLanded
  BY DEF Init, AllLanded
<1> QED  BY <1>2, <1>3, <1>4, <1>5, InitHolds DEF LandInv

(* What an element has landed depends on its set, its writes, its descriptor*)
(* and the object of that only.                                             *)
LEMMA LandedSame ==
  ASSUME NEW s \in Set, NEW y, Landed(s, y), WriteTypes,
         Layout'[s] = Layout[s], writes'[s] = writes[s],
         \A k \in DOMAIN writes[s] : Hits(s, k, y)' = Hits(s, k, y),
         y \in DOMAIN DescriptorSet[s] <=> y \in DOMAIN DescriptorSet'[s],
         y \in DOMAIN DescriptorSet[s] => Holds(s, y)' = Holds(s, y)
  PROVE  Landed(s, y)'
<1>1. \A k \in DOMAIN writes[s] : LastHit(s, k, y)' <=> LastHit(s, k, y)
  BY DEF LastHit
<1> QED  BY <1>1 DEF Landed

(* Hits do not change while neither the writes of a set nor its update do.  *)
LEMMA HitsSame ==
  ASSUME NEW s \in Set, NEW k, NEW y, Layout'[s] = Layout[s], writes'[s] = writes[s],
         CountOf(s, k)' = CountOf(s, k)
  PROVE  Hits(s, k, y)' = Hits(s, k, y)
<1>1. Distance(Layout[s], writes[s][k].from, y)' = Distance(Layout[s], writes[s][k].from, y)
  BY DEF Distance
<1> QED  BY <1>1 DEF Hits

(* Steps that change nothing of sets and updates.                           *)
LEMMA LandsKept ==
  ASSUME LandInv, UNCHANGED <<Layout, DescriptorSet, CombinedImageSamplers, memory, update,
                              writes, updates>>
  PROVE  WriteTypes' /\ UpdateRight' /\ ObjectsOwned' /\ AllLanded'
<1> USE DEF LandInv
<1>1. WriteTypes'
  BY DEF WriteTypes
<1>2. UpdateRight'
  BY DEF UpdateRight, Distance
<1>3. ObjectsOwned'
  BY DEF ObjectsOwned
<1>4. ASSUME NEW s \in Set, Layout[s] # Null, NEW y \in Elements(Layout[s])
      PROVE  Landed(s, y)'
  <2>1. \A k : CountOf(s, k)' = CountOf(s, k)
    BY DEF CountOf, Going
  <2>2. \A k \in DOMAIN writes[s] : Hits(s, k, y)' = Hits(s, k, y)
    BY <2>1, HitsSame
  <2>3. Holds(s, y)' = Holds(s, y)
    BY DEF Holds
  <2>4. Landed(s, y)
    BY <1>4 DEF AllLanded
  <2> QED  BY <2>2, <2>3, <2>4, LandedSame
<1>5. AllLanded'
  BY <1>4 DEF AllLanded
<1> QED  BY <1>1, <1>2, <1>3, <1>5

(* A set that is allocated has no writes.                                   *)
LEMMA AllocateLands ==
  ASSUME LandInv, NEW s \in Set, Allocate(s)
  PROVE  WriteTypes' /\ UpdateRight' /\ ObjectsOwned' /\ AllLanded'
<1> USE DEF LandInv
<1>1. PICK l \in Layouts :
        /\ Layout' = [Layout EXCEPT ![s] = l]
        /\ DescriptorSet' = [DescriptorSet EXCEPT ![s] =
             [x \in {y \in Elements(l) : l[y[1]].immutable} |-> Address(<<"sampler", x[1], x[2]>>)]]
  BY DEF Allocate
<1>2. /\ Layout[s] = Null /\ update = Null
      /\ UNCHANGED <<CombinedImageSamplers, memory, update, writes, updates>>
  BY DEF Allocate
<1>3. /\ Layout'[s] = l /\ DOMAIN Layout' = Set
      /\ \A t \in Set : t # s => Layout'[t] = Layout[t] /\ DescriptorSet'[t] = DescriptorSet[t]
  BY <1>1 DEF DescInv, SetTypes
<1>4. /\ DOMAIN DescriptorSet'[s] = {y \in Elements(l) : l[y[1]].immutable}
      /\ \A x \in DOMAIN DescriptorSet'[s] : DescriptorSet'[s][x] = Address(<<"sampler", x[1], x[2]>>)
  BY <1>1 DEF DescInv, SetTypes
<1>5. writes[s] = <<>>
  BY <1>2 DEF WriteTypes
<1>6. WriteTypes'
  BY <1>2, <1>3, <1>5 DEF WriteTypes
<1>7. UpdateRight'
  BY <1>2 DEF UpdateRight
<1>8. ObjectsOwned'
  <2>1. ASSUME NEW x \in DOMAIN DescriptorSet'[s] PROVE DescriptorSet'[s][x].res[1] # "object"
    <3> DEFINE r == <<"sampler", x[1], x[2]>>
    <3>1. DescriptorSet'[s][x] = Address(r)
      BY <1>4
    <3>2. Address(r).res = r /\ r[1] = "sampler"
      BY DEF Address
    <3> QED  BY <3>1, <3>2
  <2> QED  BY <1>2, <1>3, <2>1 DEF ObjectsOwned
<1>9. ASSUME NEW t \in Set, Layout'[t] # Null, NEW y \in Elements(Layout'[t])
      PROVE  Landed(t, y)'
  <2>1. CASE t = s
    <3>1. DOMAIN writes'[t] = {}
      BY <1>2, <1>5, <2>1
    <3>2. y \in DOMAIN DescriptorSet'[t] <=> Layout'[t][y[1]].immutable
      BY <1>3, <1>4, <1>9, <2>1
    <3> QED  BY <3>1, <3>2 DEF Landed
  <2>2. CASE t # s
    <3>1. /\ Layout'[t] = Layout[t] /\ DescriptorSet'[t] = DescriptorSet[t]
          /\ writes'[t] = writes[t] /\ memory' = memory
      BY <1>2, <1>3, <2>2
    <3>2. \A k : CountOf(t, k)' = CountOf(t, k)
      BY <1>2 DEF CountOf, Going
    <3>3. \A k \in DOMAIN writes[t] : Hits(t, k, y)' = Hits(t, k, y)
      BY <3>1, <3>2, HitsSame
    <3>4. Holds(t, y)' = Holds(t, y)
      BY <3>1 DEF Holds
    <3>5. Landed(t, y)
      BY <1>9, <3>1 DEF AllLanded
    <3> QED  BY <3>1, <3>3, <3>4, <3>5, LandedSame
  <2> QED  BY <2>1, <2>2
<1>10. AllLanded'
  BY <1>9 DEF AllLanded
<1> QED  BY <1>6, <1>7, <1>8, <1>10

(* A write that starts has hit nothing yet.                                 *)
LEMMA UpdateLands ==
  ASSUME LandInv, NEW s \in Set, Update(s)
  PROVE  WriteTypes' /\ UpdateRight' /\ ObjectsOwned' /\ AllLanded'
<1> USE DEF LandInv
<1>1. /\ Layout[s] # Null /\ update = Null /\ updates' = updates + 1
      /\ UNCHANGED <<Layout, DescriptorSet, CombinedImageSamplers, memory>>
  BY DEF Update
<1>2. PICK x \in Elements(Layout[s]) : \E n \in 1..Cardinality(Ahead(Layout[s], x)) :
        /\ update' = [set |-> s, at |-> x, done |-> 0, count |-> n]
        /\ writes' = [writes EXCEPT ![s] = Append(@, [from |-> x, count |-> n, id |-> updates])]
  BY DEF Update
<1>3. PICK n \in 1..Cardinality(Ahead(Layout[s], x)) :
        /\ update' = [set |-> s, at |-> x, done |-> 0, count |-> n]
        /\ writes' = [writes EXCEPT ![s] = Append(@, [from |-> x, count |-> n, id |-> updates])]
  BY <1>2
<1>4. Layout[s] \in Layouts /\ x \in Nat \X Nat /\ n \in Nat /\ n >= 1 /\ updates \in Nat
  <2>1. Layout[s] \in Layouts
    BY <1>1 DEF DescInv, SetTypes
  <2>2. IsFiniteSet(Ahead(Layout[s], x))
    <3>1. Ahead(Layout[s], x) \subseteq Elements(Layout[s])
      BY DEF Ahead
    <3> QED  BY <2>1, <3>1, ElementsFinite, FS_Subset
  <2>3. Cardinality(Ahead(Layout[s], x)) \in Nat
    BY <2>2, FS_CardinalityType
  <2> QED  BY <2>1, <2>3, ElementNumbers DEF DescInv, UpdateTypes
<1> DEFINE w == [from |-> x, count |-> n, id |-> updates]
<1>5. /\ writes[s] \in Seq(Write) /\ w \in Write
      /\ writes'[s] = Append(writes[s], w) /\ DOMAIN writes' = Set
      /\ \A t \in Set : t # s => writes'[t] = writes[t]
  BY <1>3, <1>4 DEF WriteTypes, Write
<1>6. w.from = x /\ w.count = n /\ w.id = updates
  OBVIOUS
<1> HIDE DEF w
<1>0. PICK m \in Nat : m = Len(writes[s])
  BY <1>5
<1>7. /\ writes'[s] \in Seq(Write) /\ Len(writes'[s]) = m + 1 /\ writes'[s][m + 1] = w
      /\ DOMAIN writes[s] = 1..m /\ DOMAIN writes'[s] = 1..(m + 1)
      /\ \A k \in 1..m : writes'[s][k] = writes[s][k]
  BY <1>0, <1>5, AppendProperties, LenProperties
<1>8. WriteTypes'
  <2>1. \A k \in DOMAIN writes'[s] : writes'[s][k].from \in Elements(Layout[s])
    <3> SUFFICES ASSUME NEW k \in 1..(m + 1) PROVE writes'[s][k].from \in Elements(Layout[s])
      BY <1>7
    <3>1. CASE k \in 1..m
      BY <1>7, <3>1 DEF WriteTypes
    <3>2. CASE k = m + 1
      BY <1>6, <1>7, <3>2
    <3>3. k \in 1..m \/ k = m + 1
      BY <1>0
    <3> QED  BY <3>1, <3>2, <3>3
  <2> QED  BY <1>1, <1>5, <1>7, <2>1 DEF WriteTypes
<1>9. UpdateRight'
  <2>1. Between(Layout[s], x, x) = {}
    BY <1>4, ElementNumbers, Ordered DEF Between
  <2>2. Distance(Layout[s], x, x) = 0
    BY <1>4, <2>1, BetweenFinite, FS_EmptySet
  <2>3. ~Before(x, x) /\ writes'[s] # <<>>
    BY <1>4, <1>5, <1>7, Ordered
  <2>5. update'.set = s /\ update'.at = x /\ update'.done = 0 /\ update'.count = n
    BY <1>3
  <2>6. writes'[s][Len(writes'[s])] = w
    BY <1>7
  <2>7. /\ w.count = update'.count /\ w.id = updates' - 1 /\ update'.done < update'.count
        /\ ~Before(update'.at, w.from)
        /\ update'.done = Distance(Layout'[s], w.from, update'.at)
    BY <1>1, <1>4, <1>6, <2>2, <2>3, <2>5
  <2> QED  BY <2>3, <2>5, <2>6, <2>7 DEF UpdateRight, Distance
<1>10. ObjectsOwned'
  BY <1>1 DEF ObjectsOwned
<1>11. update'.set = s /\ update'.done = 0 /\ update' # Null
  <2>1. update' \in [set : Set, at : Nat \X Nat, done : Nat, count : Nat]
    BY <1>3, <1>4
  <2> QED  BY <1>3, <2>1, NullAssumption
<1>12. ASSUME NEW y \in Elements(Layout[s]) PROVE Landed(s, y)'
  <2>1. ASSUME NEW k \in 1..m PROVE Hits(s, k, y)' = Hits(s, k, y)
    <3>1. CountOf(s, k)' = CountOf(s, k)
      BY <1>1, <1>5, <1>7 DEF CountOf, Going
    <3>2. writes'[s][k].from = writes[s][k].from
      BY <1>7
    <3>3. Distance(Layout[s], writes[s][k].from, y)' = Distance(Layout[s], writes[s][k].from, y)
      BY <1>1, <3>2 DEF Distance
    <3> QED  BY <3>1, <3>2, <3>3 DEF Hits
  <2>2. ~Hits(s, m + 1, y)'
    <3>1. CountOf(s, m + 1)' = 0
      BY <1>7, <1>11 DEF CountOf, Going
    <3>2. Distance(Layout[s], x, y) \in Nat
      BY <1>4, BetweenFinite
    <3>3. Distance(Layout[s], writes[s][m + 1].from, y)' = Distance(Layout[s], x, y)
      BY <1>1, <1>6, <1>7 DEF Distance
    <3> QED  BY <3>1, <3>2, <3>3 DEF Hits
  <2>3. \A k \in 1..m : LastHit(s, k, y)' <=> LastHit(s, k, y)
    <3> SUFFICES ASSUME NEW k \in 1..m PROVE LastHit(s, k, y)' <=> LastHit(s, k, y)
      OBVIOUS
    <3>1. (\A j \in DOMAIN writes[s] : j > k => ~Hits(s, j, y))' <=>
            \A j \in 1..m : j > k => ~Hits(s, j, y)'
      <4>1. \A j : j \in DOMAIN writes'[s] <=> j \in 1..m \/ j = m + 1
        BY <1>0, <1>7
      <4> QED  BY <1>0, <2>2, <4>1
    <3> QED  BY <1>7, <2>1, <3>1 DEF LastHit
  <2>4. Landed(s, y) /\ Holds(s, y)' = Holds(s, y)
    BY <1>1 DEF AllLanded, Holds
  <2>5. ASSUME NEW k \in DOMAIN writes'[s], LastHit(s, k, y)'
        PROVE  /\ y \in DOMAIN DescriptorSet'[s]
               /\ Holds(s, y)' = Resource(writes'[s][k].id,
                                          Distance(Layout[s], writes[s][k].from, y)')
    <3>1. k \in 1..m
      <4>1. k # m + 1
        BY <2>2, <2>5 DEF LastHit
      <4> QED  BY <1>0, <1>7, <4>1
    <3>2. LastHit(s, k, y) /\ writes'[s][k] = writes[s][k] /\ k \in DOMAIN writes[s]
      BY <1>7, <2>3, <2>5, <3>1
    <3>3. Distance(Layout[s], writes[s][k].from, y)' = Distance(Layout[s], writes[s][k].from, y)
      BY <1>1, <3>2 DEF Distance
    <3> QED  BY <1>1, <2>4, <3>2, <3>3 DEF Landed
  <2>6. ASSUME \A k \in DOMAIN writes'[s] : ~Hits(s, k, y)'
        PROVE  y \in DOMAIN DescriptorSet'[s] <=> Layout'[s][y[1]].immutable
    <3>1. \A k \in DOMAIN writes[s] : ~Hits(s, k, y)
      <4>1. 1..m \subseteq 1..(m + 1)
        BY <1>0
      <4> QED  BY <1>7, <2>1, <2>6, <4>1
    <3> QED  BY <1>1, <2>4, <3>1 DEF Landed
  <2> QED  BY <2>5, <2>6 DEF Landed
<1>13. ASSUME NEW t \in Set, t # s, Layout[t] # Null, NEW y \in Elements(Layout[t])
       PROVE  Landed(t, y)'
  <2>1. writes'[t] = writes[t]
    BY <1>5, <1>13
  <2>2. \A k : CountOf(t, k)' = CountOf(t, k)
    BY <1>1, <1>11, <1>13, <2>1 DEF CountOf, Going
  <2>3. \A k \in DOMAIN writes[t] : Hits(t, k, y)' = Hits(t, k, y)
    BY <1>1, <2>1, <2>2, HitsSame
  <2>4. Holds(t, y)' = Holds(t, y)
    BY <1>1 DEF Holds
  <2>5. Landed(t, y)
    BY <1>13 DEF AllLanded
  <2> QED  BY <1>1, <2>1, <2>3, <2>4, <2>5, LandedSame
<1>14. AllLanded'
  BY <1>1, <1>12, <1>13 DEF AllLanded
<1> QED  BY <1>8, <1>9, <1>10, <1>14

(* An iteration hits the element it goes to, and no other.                  *)
LEMMA HitsNext ==
  ASSUME LandInv, UpdateNext,
         NEW s, s = update.set, NEW n, n = Len(writes[s]), NEW from, from = writes[s][n].from,
         NEW x, x = Place(Layout[s], update.at), x # Null
  PROVE  /\ s \in Set /\ Layout[s] # Null /\ Layout[s] \in Layouts /\ x \in Elements(Layout[s])
         /\ n \in DOMAIN writes[s] /\ from \in Elements(Layout[s])
         /\ update.done = Distance(Layout[s], from, x) /\ ~Before(x, from)
         /\ \A t \in Set : \A k \in DOMAIN writes[t] : \A y \in Elements(Layout[t]) :
              Layout[t] # Null =>
                (Hits(t, k, y)' <=> Hits(t, k, y) \/ (t = s /\ k = n /\ y = x))
<1> USE DEF LandInv
<1> DEFINE l == Layout[s]
<1>1. /\ update # Null /\ update \in [set : Set, at : Nat \X Nat, done : Nat, count : Nat]
      /\ s \in Set /\ l # Null /\ update.at[1] \in DOMAIN l
  BY DEF UpdateNext, DescInv, UpdateTypes
<1>2. l \in Layouts
  BY <1>1 DEF DescInv, SetTypes
<1>3. /\ writes[s] # <<>> /\ writes[s][n].count = update.count /\ update.done < update.count
      /\ ~Before(update.at, from) /\ update.done = Distance(l, from, update.at)
  BY <1>1 DEF UpdateRight
<1>4. n \in DOMAIN writes[s] /\ from \in Elements(l)
  <2>1. writes[s] \in Seq(Write) /\ \A k \in DOMAIN writes[s] : writes[s][k].from \in Elements(l)
    BY <1>1 DEF WriteTypes
  <2>2. n \in DOMAIN writes[s]
    BY <1>3, <2>1, EmptySeq, LenProperties
  <2> QED  BY <2>1, <2>2
<1>5. /\ ~Before(x, update.at) /\ \A z \in Elements(l) : Before(z, x) <=> Before(z, update.at)
      /\ update.at \in Nat \X Nat
  BY <1>1, <1>2, PlaceNoneBetween
<1>6. x \in Elements(l)
  <2>1. update.at = <<update.at[1], update.at[2]>> /\ update.at[2] \in Nat
    BY <1>1
  <2> QED  BY <1>1, <1>2, <2>1, PlaceIn
<1>7. x \in Nat \X Nat /\ from \in Nat \X Nat
  BY <1>2, <1>4, <1>6, ElementNumbers
<1>8. ~Before(x, from)
  BY <1>3, <1>5, <1>7, Ordered
<1>9. update.done = Distance(l, from, x)
  <2>1. Between(l, from, update.at) = Between(l, from, x)
    BY <1>5 DEF Between
  <2> QED  BY <1>2, <1>3, <2>1, BetweenFinite
<1>10. /\ UNCHANGED <<Layout, writes>>
       /\ update' = IF update.done + 1 = update.count THEN Null
                    ELSE [update EXCEPT !.at = <<x[1], x[2] + 1>>, !.done = @ + 1]
  BY DEF UpdateNext
<1>11. IF update.done + 1 = update.count THEN update' = Null
       ELSE update' # Null /\ update'.set = s /\ update'.done = update.done + 1
  <2>1. CASE update.done + 1 = update.count
    BY <1>10, <2>1
  <2>2. CASE update.done + 1 # update.count
    <3> DEFINE p == <<x[1], x[2] + 1>>
    <3>1. p \in Nat \X Nat
      BY <1>7
    <3>2. update.done + 1 \in Nat /\ update.count \in Nat
      BY <1>1
    <3>3. update' = [set |-> s, at |-> p, done |-> update.done + 1, count |-> update.count]
      BY <1>1, <1>10, <2>2
    <3> HIDE DEF p
    <3>4. update' \in [set : Set, at : Nat \X Nat, done : Nat, count : Nat]
      BY <1>1, <3>1, <3>2, <3>3
    <3> QED  BY <2>2, <3>3, <3>4, NullAssumption
  <2> QED  BY <2>1, <2>2
<1>12. CountOf(s, n) = update.done /\ CountOf(s, n)' = update.done + 1
  BY <1>1, <1>3, <1>10, <1>11 DEF CountOf, Going
<1>13. ASSUME NEW t, NEW k, ~(t = s /\ k = n) PROVE CountOf(t, k)' = CountOf(t, k)
  BY <1>1, <1>10, <1>11, <1>13 DEF CountOf, Going
<1>14. ASSUME NEW t \in Set, NEW k \in DOMAIN writes[t], NEW y \in Elements(Layout[t]), Layout[t] # Null
       PROVE  Hits(t, k, y)' <=> Hits(t, k, y) \/ (t = s /\ k = n /\ y = x)
  <2>1. CASE ~(t = s /\ k = n)
    BY <1>10, <1>13, <2>1, HitsSame
  <2>2. CASE t = s /\ k = n
    <3> DEFINE d == Distance(l, from, y)
    <3>1. d \in Nat /\ update.done \in Nat /\ y \in Nat \X Nat
      BY <1>1, <1>2, <2>2, BetweenFinite, ElementNumbers
    <3>2. Hits(t, k, y) <=> (y = from \/ Before(from, y)) /\ d < update.done
      BY <1>12, <2>2 DEF Hits
    <3>3. Hits(t, k, y)' <=> (y = from \/ Before(from, y)) /\ d < update.done + 1
      <4>1. Distance(Layout[s], from, y)' = d /\ writes'[s][n].from = from
        BY <1>10 DEF Distance
      <4> QED  BY <1>12, <2>2, <4>1 DEF Hits
    <3>4. x = from \/ Before(from, x)
      BY <1>7, <1>8, Ordered
    <3>5. y = from \/ Before(from, y) => ~Before(y, from)
      BY <1>7, <3>1, Ordered
    <3>6. Before(x, y) => update.done < d
      BY <1>2, <1>4, <1>6, <1>8, <1>9, <3>1, DistanceLess
    <3>7. (y = from \/ Before(from, y)) /\ Before(y, x) => d < update.done
      BY <1>2, <1>4, <1>7, <1>9, <2>2, <3>5, DistanceLess
    <3>8. x = y \/ Before(x, y) \/ Before(y, x)
      BY <1>7, <3>1, Ordered
    <3>9. y = x => d = update.done
      BY <1>9
    <3> HIDE DEF d
    <3> QED  BY <2>2, <3>1, <3>2, <3>3, <3>4, <3>6, <3>7, <3>8, <3>9
  <2> QED  BY <2>1, <2>2
<1> QED  BY <1>1, <1>2, <1>4, <1>6, <1>8, <1>9, <1>14

(* An iteration stores the resource in the element it goes to, and disturbs *)
(* no other: the object that it writes to, if any, is of no other element.  *)
LEMMA PutHolds ==
  ASSUME LandInv, UpdateNext, NEW s \in Set, s = update.set,
         NEW x, x = Place(Layout[s], update.at), x # Null,
         NEW r, r = Resource(updates - 1, update.done)
  PROVE  /\ ObjectsOwned'
         /\ x \in DOMAIN DescriptorSet'[s] /\ Holds(s, x)' = r
         /\ \A t \in Set : \A y : ~(t = s /\ y = x) =>
              /\ y \in DOMAIN DescriptorSet[t] <=> y \in DOMAIN DescriptorSet'[t]
              /\ y \in DOMAIN DescriptorSet[t] => Holds(t, y)' = Holds(t, y)
<1> USE DEF LandInv, DescInv
<1>1. CASE Layout[s][x[1]].type # "combined"
  <2>1. /\ DescriptorSet' = [DescriptorSet EXCEPT ![s] = With(@, x, Address(r))]
        /\ UNCHANGED <<CombinedImageSamplers, memory>>
    BY <1>1 DEF UpdateNext
  <2>2. DescriptorSet'[s] = With(DescriptorSet[s], x, Address(r))
        /\ \A t \in Set : t # s => DescriptorSet'[t] = DescriptorSet[t]
    BY <2>1 DEF SetTypes
  <2>3. /\ DOMAIN DescriptorSet'[s] = DOMAIN DescriptorSet[s] \cup {x}
        /\ DescriptorSet'[s][x] = Address(r)
        /\ \A y \in DOMAIN DescriptorSet[s] : y # x => DescriptorSet'[s][y] = DescriptorSet[s][y]
    BY <2>2 DEF With
  <2>4. Address(r).res = r /\ r[1] = "resource"
    BY DEF Address, Resource
  <2>5. ASSUME NEW t \in Set, NEW y, ~(t = s /\ y = x)
        PROVE  /\ y \in DOMAIN DescriptorSet[t] <=> y \in DOMAIN DescriptorSet'[t]
               /\ y \in DOMAIN DescriptorSet[t] => DescriptorSet'[t][y] = DescriptorSet[t][y]
    BY <2>2, <2>3, <2>5
  <2>6. ObjectsOwned'
    <3> SUFFICES ASSUME NEW t \in Set, NEW y \in DOMAIN DescriptorSet'[t],
                        DescriptorSet'[t][y].res[1] = "object"
                 PROVE  /\ y \in DOMAIN CombinedImageSamplers'[t]
                        /\ DescriptorSet'[t][y].res[2] = CombinedImageSamplers'[t][y]
      BY DEF ObjectsOwned
    <3>1. ~(t = s /\ y = x)
      BY <2>3, <2>4
    <3>2. y \in DOMAIN DescriptorSet[t] /\ DescriptorSet'[t][y] = DescriptorSet[t][y]
      BY <2>5, <3>1
    <3> QED  BY <2>1, <3>2 DEF ObjectsOwned
  <2>7. Holds(s, x)' = r
    BY <2>3, <2>4 DEF Holds
  <2>8. ASSUME NEW t \in Set, NEW y \in DOMAIN DescriptorSet[t], ~(t = s /\ y = x)
        PROVE  Holds(t, y)' = Holds(t, y)
    BY <2>1, <2>5, <2>8 DEF Holds
  <2> QED  BY <2>3, <2>5, <2>6, <2>7, <2>8
<1>2. CASE Layout[s][x[1]].type = "combined"
  <2> DEFINE a == Sampled(s, x)
  <2>1. /\ memory' = With(memory, a, r)
        /\ CombinedImageSamplers' = [CombinedImageSamplers EXCEPT ![s] = With(@, x, a)]
        /\ DescriptorSet' = [DescriptorSet EXCEPT ![s] = With(@, x, Object(a))]
    BY <1>2 DEF UpdateNext
  <2>2. /\ x \in DOMAIN CombinedImageSamplers[s] => a = CombinedImageSamplers[s][x]
        /\ x \notin DOMAIN CombinedImageSamplers[s] => a \notin DOMAIN memory
    <3>1. allocated + 1 \notin DOMAIN memory
      BY DEF SetTypes
    <3> QED  BY <3>1 DEF Sampled
  <2>3. PICK o : o = a
    OBVIOUS
  <2> HIDE DEF a
  <2>4. /\ DescriptorSet'[s] = With(DescriptorSet[s], x, Object(o))
        /\ CombinedImageSamplers'[s] = With(CombinedImageSamplers[s], x, o)
        /\ \A t \in Set : t # s => /\ DescriptorSet'[t] = DescriptorSet[t]
                                   /\ CombinedImageSamplers'[t] = CombinedImageSamplers[t]
    BY <2>1, <2>3 DEF SetTypes
  <2>5. /\ DOMAIN DescriptorSet'[s] = DOMAIN DescriptorSet[s] \cup {x}
        /\ DescriptorSet'[s][x] = Object(o)
        /\ \A y \in DOMAIN DescriptorSet[s] : y # x => DescriptorSet'[s][y] = DescriptorSet[s][y]
    BY <2>4 DEF With
  <2>6. /\ DOMAIN CombinedImageSamplers'[s] = DOMAIN CombinedImageSamplers[s] \cup {x}
        /\ CombinedImageSamplers'[s][x] = o
        /\ \A y \in DOMAIN CombinedImageSamplers[s] : y # x =>
             CombinedImageSamplers'[s][y] = CombinedImageSamplers[s][y]
    BY <2>4 DEF With
  <2>7. memory'[o] = r /\ \A b \in DOMAIN memory : b # o => memory'[b] = memory[b]
    BY <2>1, <2>3 DEF With
  <2>8. Object(o).res = <<"object", o, 0>>
    BY DEF Object, Address
  <2>9. ASSUME NEW t \in Set, NEW y, ~(t = s /\ y = x)
        PROVE  /\ y \in DOMAIN DescriptorSet[t] <=> y \in DOMAIN DescriptorSet'[t]
               /\ y \in DOMAIN DescriptorSet[t] => DescriptorSet'[t][y] = DescriptorSet[t][y]
               /\ y \in DOMAIN CombinedImageSamplers[t] =>
                    /\ y \in DOMAIN CombinedImageSamplers'[t]
                    /\ CombinedImageSamplers'[t][y] = CombinedImageSamplers[t][y]
    BY <2>4, <2>5, <2>6, <2>9
  <2>10. ObjectsOwned'
    <3> SUFFICES ASSUME NEW t \in Set, NEW y \in DOMAIN DescriptorSet'[t],
                        DescriptorSet'[t][y].res[1] = "object"
                 PROVE  /\ y \in DOMAIN CombinedImageSamplers'[t]
                        /\ DescriptorSet'[t][y].res[2] = CombinedImageSamplers'[t][y]
      BY DEF ObjectsOwned
    <3>1. CASE t = s /\ y = x
      BY <2>5, <2>6, <2>8, <3>1
    <3>2. CASE ~(t = s /\ y = x)
      <4>1. y \in DOMAIN DescriptorSet[t] /\ DescriptorSet'[t][y] = DescriptorSet[t][y]
        BY <2>9, <3>2
      <4>2. /\ y \in DOMAIN CombinedImageSamplers[t]
            /\ DescriptorSet[t][y].res[2] = CombinedImageSamplers[t][y]
        BY <4>1 DEF ObjectsOwned
      <4> QED  BY <2>9, <3>2, <4>1, <4>2
    <3> QED  BY <3>1, <3>2
  <2>11. Holds(s, x)' = r
    BY <2>5, <2>7, <2>8 DEF Holds
  <2>12. ASSUME NEW t \in Set, NEW y \in DOMAIN DescriptorSet[t], ~(t = s /\ y = x)
         PROVE  Holds(t, y)' = Holds(t, y)
    <3>1. DescriptorSet'[t][y] = DescriptorSet[t][y]
      BY <2>9, <2>12
    <3>2. CASE DescriptorSet[t][y].res[1] = "object"
      <4> DEFINE b == DescriptorSet[t][y].res[2]
      <4>1. y \in DOMAIN CombinedImageSamplers[t] /\ b = CombinedImageSamplers[t][y]
        BY <3>2 DEF ObjectsOwned
      <4>2. b \in DOMAIN memory
        BY <4>1 DEF Owned
      <4>3. b # o
        <5>1. CASE x \in DOMAIN CombinedImageSamplers[s]
          BY <2>2, <2>3, <2>12, <4>1, <5>1 DEF Owned
        <5>2. CASE x \notin DOMAIN CombinedImageSamplers[s]
          BY <2>2, <2>3, <4>2, <5>2
        <5> QED  BY <5>1, <5>2
      <4>4. memory'[b] = memory[b]
        BY <2>7, <4>2, <4>3
      <4> QED  BY <3>1, <3>2, <4>4 DEF Holds
    <3>3. CASE DescriptorSet[t][y].res[1] # "object"
      BY <3>1, <3>3 DEF Holds
    <3> QED  BY <3>2, <3>3
  <2> QED  BY <2>5, <2>9, <2>10, <2>11, <2>12
<1> QED  BY <1>1, <1>2

(* An iteration keeps what earlier ones wrote.                              *)
LEMMA UpdateNextLands ==
  ASSUME LandInv, UpdateNext
  PROVE  WriteTypes' /\ UpdateRight' /\ ObjectsOwned' /\ AllLanded'
<1> USE DEF LandInv
<1>1. UNCHANGED <<Layout, writes, updates>>
  BY DEF UpdateNext
<1>2. CASE Place(Layout[update.set], update.at) = Null
  <2>1. UNCHANGED <<DescriptorSet, CombinedImageSamplers, memory, update>>
    BY <1>2 DEF UpdateNext
  <2> QED  BY <1>1, <2>1, LandsKept
<1>3. CASE Place(Layout[update.set], update.at) # Null
  <2>1. PICK s : s = update.set
    OBVIOUS
  <2>2. PICK n : n = Len(writes[s])
    OBVIOUS
  <2>3. PICK from : from = writes[s][n].from
    OBVIOUS
  <2>4. PICK x : x = Place(Layout[s], update.at)
    OBVIOUS
  <2>5. PICK r : r = Resource(updates - 1, update.done)
    OBVIOUS
  <2>6. x # Null
    BY <1>3, <2>1, <2>4
  <2>7. /\ s \in Set /\ Layout[s] # Null /\ Layout[s] \in Layouts /\ x \in Elements(Layout[s])
        /\ n \in DOMAIN writes[s] /\ from \in Elements(Layout[s])
        /\ update.done = Distance(Layout[s], from, x) /\ ~Before(x, from)
        /\ \A t \in Set : \A k \in DOMAIN writes[t] : \A y \in Elements(Layout[t]) :
             Layout[t] # Null =>
               (Hits(t, k, y)' <=> Hits(t, k, y) \/ (t = s /\ k = n /\ y = x))
    BY <2>1, <2>2, <2>3, <2>4, <2>6, HitsNext
  <2>8. /\ ObjectsOwned'
        /\ x \in DOMAIN DescriptorSet'[s] /\ Holds(s, x)' = r
        /\ \A t \in Set : \A y : ~(t = s /\ y = x) =>
             /\ y \in DOMAIN DescriptorSet[t] <=> y \in DOMAIN DescriptorSet'[t]
             /\ y \in DOMAIN DescriptorSet[t] => Holds(t, y)' = Holds(t, y)
    BY <2>1, <2>4, <2>5, <2>6, <2>7, PutHolds
  <2>9. WriteTypes'
    BY <1>1 DEF WriteTypes
  <2>10. /\ update # Null /\ update \in [set : Set, at : Nat \X Nat, done : Nat, count : Nat]
         /\ writes[s][n].count = update.count /\ writes[s][n].id = updates - 1
         /\ update.done < update.count /\ writes[s] # <<>>
    BY <2>1, <2>2 DEF UpdateNext, DescInv, UpdateTypes, UpdateRight
  <2>11. update' = IF update.done + 1 = update.count THEN Null
                   ELSE [update EXCEPT !.at = <<x[1], x[2] + 1>>, !.done = @ + 1]
    BY <1>3, <2>1, <2>4 DEF UpdateNext
  <2>12. UpdateRight'
    <3>1. CASE update.done + 1 = update.count
      BY <2>11, <3>1 DEF UpdateRight
    <3>2. CASE update.done + 1 # update.count
      <4>1. PICK p : p = <<x[1], x[2] + 1>>
        OBVIOUS
      <4>2. x \in Nat \X Nat /\ from \in Nat \X Nat /\ p \in Nat \X Nat
        BY <2>7, <4>1, ElementNumbers
      <4>3. /\ update'.set = s /\ update'.at = p /\ update'.done = update.done + 1
            /\ update'.count = update.count
        BY <2>1, <2>10, <2>11, <3>2, <4>1
      <4>4. update.done + 1 < update.count
        BY <2>10, <3>2
      <4>5. Distance(Layout[s], from, p) = update.done + 1
        BY <2>7, <4>1, <4>2, DistanceNext
      <4>6. ~Before(p, from)
        BY <2>7, <4>1, <4>2 DEF Before
      <4>7. Distance(Layout[s], from, p)' = Distance(Layout[s], from, p)
        BY <1>1 DEF Distance
      <4>8. /\ writes'[s] # <<>> /\ writes'[s][n].count = update'.count
            /\ writes'[s][n].id = updates' - 1 /\ writes'[s][n].from = from
            /\ n = Len(writes'[s])
        BY <1>1, <2>2, <2>3, <2>10, <4>3
      <4> QED  BY <1>1, <4>3, <4>4, <4>5, <4>6, <4>8 DEF UpdateRight, Distance
    <3> QED  BY <3>1, <3>2
  <2>13. ASSUME NEW t \in Set, Layout[t] # Null, NEW y \in Elements(Layout[t])
         PROVE  Landed(t, y)'
    <3>1. Landed(t, y)
      BY <2>13 DEF AllLanded
    <3>2. CASE ~(t = s /\ y = x)
      <4>1. \A k \in DOMAIN writes[t] : Hits(t, k, y)' <=> Hits(t, k, y)
        BY <2>7, <2>13, <3>2
      <4>2. \A k \in DOMAIN writes[t] : Hits(t, k, y)' = Hits(t, k, y)
        BY <4>1 DEF Hits
      <4>3. Layout'[t] = Layout[t] /\ writes'[t] = writes[t]
        BY <1>1
      <4> QED  BY <2>8, <3>1, <3>2, <4>2, <4>3, LandedSame
    <3>3. CASE t = s /\ y = x
      <4>1. Hits(s, n, x)'
        BY <2>7, <2>13, <3>3
      <4>2. ASSUME NEW k \in DOMAIN writes'[s], LastHit(s, k, x)' PROVE k = n
        <5>1. PICK m \in Nat : m = Len(writes[s]) /\ DOMAIN writes[s] = 1..m
          BY <2>7, LenProperties DEF WriteTypes
        <5>2. k \in 1..m /\ n = m
          BY <1>1, <2>2, <4>2, <5>1
        <5>3. ~(n > k)
          BY <1>1, <2>7, <4>1, <4>2 DEF LastHit
        <5> QED  BY <5>1, <5>2, <5>3
      <4>3. /\ writes'[s][n].id = updates - 1 /\ writes'[s][n].from = from
        BY <1>1, <2>3, <2>10
      <4>4. Distance(Layout[s], from, x)' = update.done
        BY <1>1, <2>7 DEF Distance
      <4>5. Holds(s, x)' = Resource(writes'[s][n].id, Distance(Layout[s], writes[s][n].from, x)')
        BY <1>1, <2>3, <2>5, <2>8, <4>3, <4>4 DEF Distance
      <4>6. n \in DOMAIN writes'[s]
        BY <1>1, <2>7
      <4> QED  BY <2>8, <3>3, <4>1, <4>2, <4>5, <4>6 DEF Landed
    <3> QED  BY <3>2, <3>3
  <2>14. AllLanded'
    BY <1>1, <2>13 DEF AllLanded
  <2> QED  BY <2>8, <2>9, <2>12, <2>14
<1> QED  BY <1>2, <1>3

(* Destroyed sets have no writes; the others keep their objects.            *)
LEMMA DestroyedLands ==
  ASSUME LandInv, update = Null, NEW sets \in SUBSET Set, Destroyed(sets)
  PROVE  WriteTypes' /\ UpdateRight' /\ ObjectsOwned' /\ AllLanded'
<1> USE DEF LandInv, DescInv
<1> DEFINE freed == UNION {{CombinedImageSamplers[s][x] : x \in DOMAIN CombinedImageSamplers[s]}
                            : s \in sets}
<1>1. /\ memory' = [a \in DOMAIN memory \ freed |-> memory[a]]
      /\ UNCHANGED <<update, updates>> /\ update' = Null
  BY DEF Destroyed
<1>2. /\ DOMAIN Layout' = Set /\ DOMAIN writes' = Set
      /\ \A s \in sets : Layout'[s] = Null /\ DescriptorSet'[s] = Nothing /\ writes'[s] = <<>>
      /\ \A s \in Set \ sets : /\ Layout'[s] = Layout[s] /\ DescriptorSet'[s] = DescriptorSet[s]
                               /\ CombinedImageSamplers'[s] = CombinedImageSamplers[s]
                               /\ writes'[s] = writes[s]
  BY DEF Destroyed
<1>3. \A a : a \in freed <=> \E s \in sets : \E x \in DOMAIN CombinedImageSamplers[s] :
                               a = CombinedImageSamplers[s][x]
  OBVIOUS
<1>4. \A a \in DOMAIN memory : a \notin freed => memory'[a] = memory[a]
  BY <1>1
<1> HIDE DEF freed
<1>5. DOMAIN Nothing = {}
  BY DEF Nothing
<1>6. WriteTypes'
  <2>1. ASSUME NEW s \in Set
        PROVE  /\ writes'[s] \in Seq(Write)
               /\ Layout'[s] = Null => writes'[s] = <<>>
               /\ \A k \in DOMAIN writes'[s] : writes'[s][k].from \in Elements(Layout'[s])
    <3>1. CASE s \in sets
      <4>1. <<>> \in Seq(Write) /\ DOMAIN <<>> = {}
        OBVIOUS
      <4>2. writes'[s] = <<>> /\ Layout'[s] = Null
        BY <1>2, <3>1
      <4> QED  BY <4>1, <4>2
    <3>2. CASE s \notin sets
      BY <1>2, <3>2 DEF WriteTypes
    <3> QED  BY <3>1, <3>2
  <2> QED  BY <1>2, <2>1 DEF WriteTypes
<1>7. UpdateRight'
  BY <1>1 DEF UpdateRight
<1>8. ObjectsOwned'
  BY <1>2, <1>5 DEF ObjectsOwned
<1>9. ASSUME NEW s \in Set, Layout'[s] # Null, NEW y \in Elements(Layout'[s])
      PROVE  Landed(s, y)'
  <2>1. s \notin sets
    BY <1>2, <1>9
  <2>2. /\ Layout'[s] = Layout[s] /\ DescriptorSet'[s] = DescriptorSet[s]
        /\ writes'[s] = writes[s]
    BY <1>2, <2>1
  <2>3. \A k : CountOf(s, k)' = CountOf(s, k)
    BY <1>1, <2>2 DEF CountOf, Going
  <2>4. \A k \in DOMAIN writes[s] : Hits(s, k, y)' = Hits(s, k, y)
    BY <2>2, <2>3, HitsSame
  <2>5. ASSUME y \in DOMAIN DescriptorSet[s] PROVE Holds(s, y)' = Holds(s, y)
    <3>1. CASE DescriptorSet[s][y].res[1] = "object"
      <4> DEFINE a == DescriptorSet[s][y].res[2]
      <4>1. y \in DOMAIN CombinedImageSamplers[s] /\ a = CombinedImageSamplers[s][y]
        BY <2>5, <3>1 DEF ObjectsOwned
      <4>2. a \in DOMAIN memory
        BY <4>1 DEF Owned
      <4>3. a \notin freed
        BY <1>3, <2>1, <4>1 DEF Owned
      <4>4. memory'[a] = memory[a]
        BY <1>4, <4>2, <4>3
      <4> QED  BY <2>2, <3>1, <4>4 DEF Holds
    <3>2. CASE DescriptorSet[s][y].res[1] # "object"
      BY <2>2, <3>2 DEF Holds
    <3> QED  BY <3>1, <3>2
  <2>6. Landed(s, y)
    BY <1>9, <2>2 DEF AllLanded
  <2> QED  BY <2>2, <2>4, <2>5, <2>6, LandedSame
<1>10. AllLanded'
  BY <1>9 DEF AllLanded
<1> QED  BY <1>6, <1>7, <1>8, <1>10

(* Every step keeps it all.                                                 *)
LEMMA NextLands == LandInv /\ [Next]_vars => LandInv'
<1> SUFFICES ASSUME LandInv, [Next]_vars PROVE LandInv'
  OBVIOUS
<1>1. DescInv'
  BY NextHolds DEF LandInv
<1> SUFFICES WriteTypes' /\ UpdateRight' /\ ObjectsOwned' /\ AllLanded'
  BY <1>1 DEF LandInv
<1>2. CASE \E s \in Set : Allocate(s)
  BY <1>2, AllocateLands
<1>3. CASE \E s \in Set : Update(s)
  BY <1>3, UpdateLands
<1>4. CASE UpdateNext
  BY <1>4, UpdateNextLands
<1>5. CASE \E s \in Set : Free(s)
  <2>1. PICK s \in Set : Free(s)
    BY <1>5
  <2>2. update = Null /\ {s} \in SUBSET Set /\ Destroyed({s})
    BY <2>1 DEF Free
  <2> QED  BY <2>2, DestroyedLands
<1>6. CASE ResetPool
  <2> DEFINE sets == {s \in Set : Layout[s] # Null}
  <2>1. update = Null /\ sets \in SUBSET Set /\ Destroyed(sets)
    BY <1>6 DEF ResetPool
  <2> HIDE DEF sets
  <2> QED  BY <2>1, DestroyedLands
<1>7. CASE \E first \in SetNumbers : \E sets : Bind(first, sets)
  <2>1. UNCHANGED <<Layout, DescriptorSet, CombinedImageSamplers, memory, update, writes, updates>>
    BY <1>7 DEF Bind
  <2> QED  BY <2>1, LandsKept
<1>8. CASE UNCHANGED vars
  BY <1>8, LandsKept DEF vars
<1> QED  BY <1>2, <1>3, <1>4, <1>5, <1>6, <1>7, <1>8 DEF Next

(* So it holds in every state.                                             *)
LEMMA LandInvHolds == Spec => []LandInv
BY InitLands, NextLands, PTL DEF Spec

(* Each element of a set holds the resource of the last update that reached *)
(* it, in every order of updates, allocations and destructions.             *)
THEOREM WritesLand == Spec => []WritesLandInOrder
<1>1. LandInv => WritesLandInOrder
  <2> SUFFICES ASSUME LandInv, update = Null, NEW s \in Set, Layout[s] # Null,
                      NEW y \in Elements(Layout[s]), NEW by,
                      by = {k \in DOMAIN writes[s] : Reaches(Layout[s], writes[s][k], y)}
               PROVE  IF by = {}
                      THEN y \in DOMAIN DescriptorSet[s] <=> Layout[s][y[1]].immutable
                      ELSE LET w == writes[s][CHOOSE k \in by : \A j \in by : j <= k] IN
                           /\ y \in DOMAIN DescriptorSet[s]
                           /\ Holds(s, y) = Resource(w.id, Distance(Layout[s], w.from, y))
    BY DEF WritesLandInOrder
  <2>1. Landed(s, y)
    BY DEF LandInv, AllLanded
  <2>2. \A k \in DOMAIN writes[s] : k \in by <=> Hits(s, k, y)
    BY DEF Hits, CountOf, Going, Reaches
  <2>3. CASE by = {}
    BY <2>1, <2>2, <2>3 DEF Landed
  <2>4. CASE by # {}
    <3>1. PICK n \in Nat : n = Len(writes[s]) /\ DOMAIN writes[s] = 1..n
      BY LenProperties DEF LandInv, WriteTypes
    <3>2. by \subseteq 1..n
      BY <3>1
    <3> DEFINE back == {n - k : k \in by}
    <3>3. back \in SUBSET Nat /\ back # {}
      BY <2>4, <3>2
    <3>4. PICK d \in back : \A e \in back : d <= e
      <4> HIDE DEF back
      <4> QED  BY <3>3, Smallest
    <3>5. PICK m \in by : d = n - m
      BY <3>4
    <3>6. \A j \in by : j <= m
      <4> SUFFICES ASSUME NEW j \in by PROVE j <= m
        OBVIOUS
      <4>1. n - m <= n - j
        BY <3>4, <3>5
      <4> QED  BY <3>2, <4>1
    <3>7. PICK k : k = CHOOSE c \in by : \A j \in by : j <= c
      OBVIOUS
    <3>8. k \in by /\ \A j \in by : j <= k
      BY <3>6, <3>7
    <3>9. LastHit(s, k, y)
      <4>1. Hits(s, k, y)
        BY <2>2, <3>1, <3>2, <3>8
      <4>2. ASSUME NEW j \in DOMAIN writes[s], j > k PROVE ~Hits(s, j, y)
        <5>1. j \in Nat /\ k \in Nat
          BY <3>1, <3>2, <3>8
        <5> QED  BY <2>2, <3>8, <4>2, <5>1
      <4> QED  BY <4>1, <4>2 DEF LastHit
    <3>10. k \in DOMAIN writes[s]
      BY <3>1, <3>2, <3>8
    <3> QED  BY <2>1, <2>4, <3>7, <3>9, <3>10 DEF Landed
  <2> QED  BY <2>3, <2>4
<1> QED  BY <1>1, LandInvHolds, PTL
===============================================================================
