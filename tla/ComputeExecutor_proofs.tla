------------------------- MODULE ComputeExecutor_proofs -------------------------
(*****************************************************************************)
(* Proofs about the compute scheduler under every caller of Debugger, for    *)
(* every number of cores, lanes, groups and invocations, every program and   *)
(* every mask; and about uniform dispatches under the interactive debugger.  *)
(*****************************************************************************)
EXTENDS Debugger, FiniteSetTheorems, SequenceTheorems, TLAPS

(* Division, as the scheduler uses it for cores and groups.                  *)
LEMMA Quotient ==
  ASSUME NEW a \in Nat, NEW d \in Nat \ {0}
  PROVE  a \div d \in Nat /\ (a \div d) * d <= a /\ a < (a \div d) * d + d
OBVIOUS

(* A number is in one interval of length d that starts at a multiple of d.   *)
LEMMA QuotientUnique ==
  ASSUME NEW a \in Nat, NEW d \in Nat \ {0}, NEW q \in Nat, q * d <= a, a < q * d + d
  PROVE  a \div d = q
BY Quotient

(* ... and the quotient is below n for the numbers below n * d.              *)
LEMMA QuotientBound ==
  ASSUME NEW a \in Nat, NEW d \in Nat \ {0}, NEW n \in Nat, a < n * d
  PROVE  a \div d \in 0..(n - 1)
BY Quotient

(* What start relies on: the lanes in use exist, each on a core that exists, *)
(* and the coordinate of a lane is that of an invocation.                    *)
LEMMA AssignedLanes ==
  /\ Assigned \subseteq Lane /\ Assigned \subseteq Invocation
  /\ \A l \in Assigned : CoreOf(l) \in Core /\ l \in LanesOf(CoreOf(l))
<1>1. NumGroups <= NumGroups * GroupSize
  BY SizeAssumption
<1>2. NumCores * LanesPerCore \in Nat /\ NumGroups * GroupSize \in Nat
  BY SizeAssumption
<1>3. Assigned \subseteq Lane /\ Assigned \subseteq Invocation
  BY <1>1, <1>2, SizeAssumption DEF Assigned, Lane, Invocation
<1>4. ASSUME NEW l \in Assigned PROVE CoreOf(l) \in Core
  <2>1. l \in Nat /\ l < NumCores * LanesPerCore
    BY <1>2, SizeAssumption DEF Assigned
  <2> QED  BY <2>1, QuotientBound, SizeAssumption DEF CoreOf, Core
<1> QED  BY <1>3, <1>4 DEF LanesOf

(* The group of an invocation exists and has the invocation among its work   *)
(* items, which are invocations of that group.                               *)
LEMMA GroupsOfInvocations ==
  /\ \A i \in Invocation : GroupOf(i) \in Group /\ i \in WorkItems(GroupOf(i))
  /\ \A g \in Group : \A i \in WorkItems(g) : i \in Invocation /\ GroupOf(i) = g
<1>1. ASSUME NEW i \in Invocation PROVE GroupOf(i) \in Group /\ i \in WorkItems(GroupOf(i))
  <2>1. i \in Nat /\ i < NumGroups * GroupSize
    BY SizeAssumption DEF Invocation
  <2>2. GroupOf(i) \in Group
    BY <2>1, QuotientBound, SizeAssumption DEF GroupOf, Group
  <2>3. /\ GroupOf(i) \in Nat /\ GroupOf(i) * GroupSize \in Nat
        /\ GroupOf(i) * GroupSize <= i /\ i < GroupOf(i) * GroupSize + GroupSize
    BY <2>1, Quotient, SizeAssumption DEF GroupOf
  <2>4. i \in WorkItems(GroupOf(i))
    BY <2>1, <2>3, SizeAssumption DEF WorkItems
  <2> QED  BY <2>2, <2>4
<1>2. ASSUME NEW g \in Group, NEW i \in WorkItems(g) PROVE i \in Invocation /\ GroupOf(i) = g
  <2>1. g \in Nat /\ g + 1 <= NumGroups /\ g * GroupSize \in Nat
    BY SizeAssumption DEF Group
  <2>2. i \in Nat /\ g * GroupSize <= i /\ i < g * GroupSize + GroupSize
    BY <2>1, SizeAssumption DEF WorkItems
  <2>3. GroupOf(i) = g
    BY <2>1, <2>2, QuotientUnique, SizeAssumption DEF GroupOf
  <2>4. g * GroupSize + GroupSize <= NumGroups * GroupSize
    BY <2>1, SizeAssumption
  <2>5. NumGroups * GroupSize \in Nat
    BY SizeAssumption
  <2>6. i < NumGroups * GroupSize
    BY <2>1, <2>2, <2>4, <2>5, SizeAssumption
  <2> QED  BY <2>2, <2>3, <2>5, <2>6 DEF Invocation
<1> QED  BY <1>1, <1>2

(* An interval can be listed in increasing order, so that InOrder does.      *)
LEMMA IntervalInOrder ==
  ASSUME NEW a \in Nat, NEW b \in Int, NEW ls, ls = a..b
  PROVE  /\ IsFiniteSet(ls) /\ Cardinality(ls) \in Nat
         /\ InOrder(ls) \in [1..Cardinality(ls) -> ls]
         /\ \A i, j \in 1..Cardinality(ls) : i < j => InOrder(ls)[i] < InOrder(ls)[j]
<1> DEFINE n == Cardinality(ls)
<1>1. IsFiniteSet(ls) /\ n = IF a > b THEN 0 ELSE b - a + 1
  BY FS_Interval
<1>2. n \in Nat
  BY <1>1
<1> HIDE DEF n
<1>3. [i \in 1..n |-> a + i - 1] \in [1..n -> ls]
  BY <1>1, <1>2
<1>4. \E s \in [1..n -> ls] : \A i, j \in DOMAIN s : i < j => s[i] < s[j]
  <2>1. \A i, j \in DOMAIN [k \in 1..n |-> a + k - 1] :
          i < j => [k \in 1..n |-> a + k - 1][i] < [k \in 1..n |-> a + k - 1][j]
    BY <1>2
  <2> QED  BY <1>3, <2>1
<1>5. /\ InOrder(ls) \in [1..n -> ls]
      /\ \A i, j \in DOMAIN InOrder(ls) : i < j => InOrder(ls)[i] < InOrder(ls)[j]
  BY <1>4 DEF InOrder, n
<1> QED  BY <1>1, <1>2, <1>5 DEF n

(* The lanes of a core are an interval, as are all lanes in use.             *)
LEMMA LanesInOrder ==
  ASSUME NEW c \in Core, NEW ls \in {Assigned, LanesOf(c)}
  PROVE  /\ Cardinality(ls) \in Nat
         /\ InOrder(ls) \in Seq(ls) /\ Len(InOrder(ls)) = Cardinality(ls)
         /\ \A i, j \in 1..Cardinality(ls) : InOrder(ls)[i] = InOrder(ls)[j] => i = j
<1>1. \E a \in Nat, b \in Int : ls = a..b
  <2>1. CASE ls = Assigned
    BY <2>1, SizeAssumption DEF Assigned
  <2>2. CASE ls = LanesOf(c)
    <3> DEFINE first == c * LanesPerCore
               last  == IF first + LanesPerCore <= NumGroups
                        THEN first + LanesPerCore - 1 ELSE NumGroups - 1
    <3>1. c \in Nat /\ first \in Nat /\ LanesPerCore \in Nat \ {0} /\ last \in Int
      BY SizeAssumption DEF Core
    <3>2. \A l \in Assigned : l \in LanesOf(c) <=> first <= l /\ l < first + LanesPerCore
      BY <3>1, Quotient, QuotientUnique DEF LanesOf, CoreOf, Assigned
    <3>3. LanesOf(c) \subseteq Assigned
      BY DEF LanesOf
    <3> HIDE DEF first
    <3>4. \A l \in Int : l \in Assigned <=> 0 <= l /\ l <= NumGroups - 1
      BY SizeAssumption DEF Assigned
    <3>5. \A l : l \in LanesOf(c) => l \in Int
      BY <3>3 DEF Assigned
    <3>6. \A l \in Int : l \in LanesOf(c) <=> l \in first..last
      BY <3>1, <3>2, <3>3, <3>4, SizeAssumption
    <3> HIDE DEF last
    <3>7. LanesOf(c) = first..last
      <4>1. \A l : l \in LanesOf(c) => l \in first..last
        BY <3>5, <3>6
      <4>2. \A l : l \in first..last => l \in LanesOf(c)
        BY <3>1, <3>6
      <4> QED  BY <4>1, <4>2
    <3> QED  BY <2>2, <3>1, <3>7
  <2> QED  BY <2>1, <2>2
<1>2. PICK a \in Nat, b \in Int : ls = a..b
  BY <1>1
<1>3. /\ Cardinality(ls) \in Nat /\ InOrder(ls) \in [1..Cardinality(ls) -> ls]
      /\ \A i, j \in 1..Cardinality(ls) : i < j => InOrder(ls)[i] < InOrder(ls)[j]
  BY <1>2, IntervalInOrder
<1>4. InOrder(ls) \in Seq(ls) /\ Len(InOrder(ls)) = Cardinality(ls)
  BY <1>3
<1>5. \A i \in 1..Cardinality(ls) : InOrder(ls)[i] \in Int
  BY <1>2, <1>3
<1>6. ASSUME NEW i \in 1..Cardinality(ls), NEW j \in 1..Cardinality(ls),
             InOrder(ls)[i] = InOrder(ls)[j]
      PROVE  i = j
  <2>1. ~(i < j) /\ ~(j < i)
    BY <1>3, <1>5, <1>6
  <2> QED  BY <1>3, <2>1
<1> QED  BY <1>3, <1>4, <1>6

-------------------------------------------------------------------------------
(* The groups, wherever they are: still pending, suspended, current or       *)
(* completed.  Each is in one of these places, and in no list twice.         *)
Distinct(s) == \A i, j \in 1..Len(s) : s[i] = s[j] => i = j
Fresh  == {PendingGroups[i] : i \in (NextWorkIndex + 1)..Len(PendingGroups)}
Asleep == {RunningGroups[i] : i \in 1..Len(RunningGroups)}

GroupTypes ==
  /\ PendingGroups \in Seq(Group) /\ NextWorkIndex \in Nat
  /\ RunningGroups \in Seq(Group) /\ CurrentGroup \in Group \cup {Null}
  /\ CurrentInvocation \in Invocation \cup {Null} /\ completed \subseteq Group

OnePlace ==
  /\ Distinct(PendingGroups) /\ Distinct(RunningGroups)
  /\ NextWorkIndex <= Len(PendingGroups)
  /\ Fresh \cap Asleep = {} /\ completed \cap (Fresh \cup Asleep) = {}
  /\ CurrentGroup \notin Fresh \cup Asleep \cup completed
  /\ Group \subseteq Fresh \cup Asleep \cup completed \cup {CurrentGroup}

(* Without takes one element out of a list in which it is only once.         *)
LEMMA TakenOut ==
  ASSUME NEW S, NEW s \in Seq(S), Distinct(s), NEW k \in 1..Len(s)
  PROVE  /\ Without(s, s[k]) \in Seq(S)
         /\ Len(Without(s, s[k])) = Len(s) - 1
         /\ \A j \in 1..(Len(s) - 1) :
              Without(s, s[k])[j] = IF j < k THEN s[j] ELSE s[j + 1]
<1>1. (CHOOSE n \in DOMAIN s : s[n] = s[k]) = k
  BY DEF Distinct
<1>2. Without(s, s[k]) = SubSeq(s, 1, k - 1) \o SubSeq(s, k + 1, Len(s))
  BY <1>1 DEF Without
<1> DEFINE a == SubSeq(s, 1, k - 1)
           b == SubSeq(s, k + 1, Len(s))
<1>3. /\ a \in Seq(S) /\ Len(a) = k - 1 /\ \A j \in 1..(k - 1) : a[j] = s[j]
  OBVIOUS
<1>4. /\ b \in Seq(S) /\ Len(b) = Len(s) - k
      /\ \A j \in 1..(Len(s) - k) : b[j] = s[k + j]
  OBVIOUS
<1> HIDE DEF a, b
<1>5. /\ a \o b \in Seq(S) /\ Len(a \o b) = Len(s) - 1
      /\ \A j \in 1..(Len(s) - 1) : j <= k - 1 => (a \o b)[j] = a[j]
      /\ \A j \in 1..(Len(s) - 1) : ~(j <= k - 1) => (a \o b)[j] = b[j - (k - 1)]
  <2>1. a \o b \in Seq(S) /\ Len(a \o b) = Len(a) + Len(b)
    BY <1>3, <1>4, ConcatProperties
  <2>2. \A j \in 1..(Len(a) + Len(b)) :
          (a \o b)[j] = IF j <= Len(a) THEN a[j] ELSE b[j - Len(a)]
    BY <1>3, <1>4, ConcatProperties
  <2>3. Len(a) + Len(b) = Len(s) - 1
    BY <1>3, <1>4
  <2> QED  BY <1>3, <2>1, <2>2, <2>3
<1>6. ASSUME NEW j \in 1..(Len(s) - 1)
      PROVE  (a \o b)[j] = IF j < k THEN s[j] ELSE s[j + 1]
  <2>1. CASE j < k
    BY <1>3, <1>5, <2>1
  <2>2. CASE ~(j < k)
    <3>1. j - (k - 1) \in 1..(Len(s) - k) /\ k + (j - (k - 1)) = j + 1 /\ ~(j <= k - 1)
      BY <2>2
    <3> QED  BY <1>4, <1>5, <2>2, <3>1
  <2> QED  BY <2>1, <2>2
<1> QED  BY <1>2, <1>5, <1>6 DEF a, b

(* The list of suspended groups after one has been taken out.                *)
LEMMA Resumed ==
  ASSUME NEW S, NEW s \in Seq(S), Distinct(s), NEW k \in 1..Len(s)
  PROVE  LET t == Without(s, s[k]) IN
           /\ t \in Seq(S) /\ Distinct(t)
           /\ {t[i] : i \in 1..Len(t)} = {s[i] : i \in 1..Len(s)} \ {s[k]}
<1> DEFINE t == Without(s, s[k])
<1>1. /\ t \in Seq(S) /\ Len(t) = Len(s) - 1
      /\ \A j \in 1..(Len(s) - 1) : t[j] = IF j < k THEN s[j] ELSE s[j + 1]
  BY TakenOut
<1> HIDE DEF t
<1>2. Distinct(t)
  BY <1>1 DEF Distinct
<1>3. ASSUME NEW i \in 1..Len(t) PROVE t[i] \in {s[j] : j \in 1..Len(s)} \ {s[k]}
  BY <1>1, <1>3 DEF Distinct
<1>4. ASSUME NEW i \in 1..Len(s), s[i] # s[k] PROVE s[i] \in {t[j] : j \in 1..Len(t)}
  <2>1. CASE i < k
    <3>1. i \in 1..Len(t) /\ t[i] = s[i]
      BY <1>1, <2>1
    <3> QED  BY <3>1
  <2>2. CASE i > k
    <3>1. i - 1 \in 1..Len(t) /\ t[i - 1] = s[i]
      BY <1>1, <2>2
    <3> QED  BY <3>1
  <2> QED  BY <1>4, <2>1, <2>2
<1> QED  BY <1>1, <1>2, <1>3, <1>4 DEF t

(* ... and the list of pending groups after one beyond NextWorkIndex has.    *)
LEMMA Created ==
  ASSUME NEW S, NEW s \in Seq(S), Distinct(s), NEW n \in Nat, n <= Len(s),
         NEW k \in (n + 1)..Len(s)
  PROVE  LET t == Without(s, s[k]) IN
           /\ t \in Seq(S) /\ Distinct(t) /\ n <= Len(t)
           /\ {t[i] : i \in (n + 1)..Len(t)} = {s[i] : i \in (n + 1)..Len(s)} \ {s[k]}
<1> DEFINE t == Without(s, s[k])
<1>0. k \in 1..Len(s)
  OBVIOUS
<1>1. /\ t \in Seq(S) /\ Len(t) = Len(s) - 1
      /\ \A j \in 1..(Len(s) - 1) : t[j] = IF j < k THEN s[j] ELSE s[j + 1]
  BY <1>0, TakenOut
<1> HIDE DEF t
<1>2. Distinct(t) /\ n <= Len(t)
  BY <1>1 DEF Distinct
<1>3. ASSUME NEW i \in (n + 1)..Len(t) PROVE t[i] \in {s[j] : j \in (n + 1)..Len(s)} \ {s[k]}
  <2>1. CASE i < k
    <3>1. i \in (n + 1)..Len(s) /\ i # k /\ t[i] = s[i]
      BY <1>1, <2>1
    <3> QED  BY <1>0, <3>1 DEF Distinct
  <2>2. CASE i >= k
    <3>1. i + 1 \in (n + 1)..Len(s) /\ i + 1 # k /\ t[i] = s[i + 1]
      BY <1>1, <2>2
    <3> QED  BY <1>0, <3>1 DEF Distinct
  <2> QED  BY <2>1, <2>2, <1>0
<1>4. ASSUME NEW i \in (n + 1)..Len(s), s[i] # s[k] PROVE s[i] \in {t[j] : j \in (n + 1)..Len(t)}
  <2>1. CASE i < k
    <3>1. i \in (n + 1)..Len(t) /\ t[i] = s[i]
      BY <1>1, <2>1
    <3> QED  BY <3>1
  <2>2. CASE i > k
    <3>1. i - 1 \in (n + 1)..Len(t) /\ t[i - 1] = s[i]
      BY <1>1, <2>2
    <3> QED  BY <3>1
  <2> QED  BY <1>4, <2>1, <2>2
<1> QED  BY <1>1, <1>2, <1>3, <1>4 DEF t

(* Suspending adds the current group, if there is one, to the list.          *)
LEMMA PutAside ==
  ASSUME GroupTypes, NEW s \in Seq(Group), Distinct(s), \A i \in 1..Len(s) : s[i] # CurrentGroup
  PROVE  LET t == Suspending(s) IN
           /\ t \in Seq(Group) /\ Distinct(t)
           /\ {t[i] : i \in 1..Len(t)} = {s[i] : i \in 1..Len(s)} \cup ({CurrentGroup} \ {Null})
<1>1. CASE CurrentGroup = Null
  BY <1>1 DEF Suspending
<1>2. CASE CurrentGroup # Null
  <2> DEFINE t == Append(s, CurrentGroup)
  <2>1. CurrentGroup \in Group
    BY <1>2 DEF GroupTypes
  <2>2. /\ t \in Seq(Group) /\ Len(t) = Len(s) + 1 /\ t[Len(t)] = CurrentGroup
        /\ \A i \in 1..Len(s) : t[i] = s[i]
    BY <2>1
  <2> HIDE DEF t
  <2>3. Distinct(t)
    BY <2>2 DEF Distinct
  <2>4. {t[i] : i \in 1..Len(t)} = {s[i] : i \in 1..Len(s)} \cup {CurrentGroup}
    <3>1. \A i \in 1..Len(t) : i \in 1..Len(s) \/ i = Len(t)
      BY <2>2
    <3>2. \A i \in 1..Len(s) : i \in 1..Len(t)
      BY <2>2
    <3>3. Len(t) \in 1..Len(t)
      BY <2>2
    <3> QED  BY <2>2, <3>1, <3>2, <3>3
  <2> QED  BY <1>2, <2>2, <2>3, <2>4 DEF Suspending, t
<1> QED  BY <1>1, <1>2

(* doSwtch keeps every group in one place, and finds the invocation unless   *)
(* its group has completed.                                                  *)
LEMMA SwtchStep ==
  ASSUME GroupTypes, OnePlace, NEW id \in Invocation, Swtch(id)
  PROVE  /\ GroupTypes' /\ OnePlace'
         /\ CurrentInvocation' \in {id, Null}
         /\ completed = {} => CurrentInvocation' = id
<1> DEFINE g == GroupOf(id)
           kept == IF Suspended(g) THEN Without(RunningGroups, g) ELSE RunningGroups
<1>1. g \in Group /\ Null \notin Group
  BY GroupsOfInvocations, CallAssumption DEF Group
<1>2. NextWorkIndex' = NextWorkIndex /\ completed' = completed
  BY DEF Swtch
<1>3. PendingGroups \in Seq(Group) /\ RunningGroups \in Seq(Group) /\ NextWorkIndex \in Nat
  BY DEF GroupTypes
<1>4. DOMAIN RunningGroups = 1..Len(RunningGroups)
  BY <1>3
<1>5. Suspended(g) <=> g # CurrentGroup /\ g \in Asleep
  BY <1>4 DEF Suspended, Elements, Asleep
<1>6. IsPending(g) <=> g # CurrentGroup /\ g \notin Asleep /\ g \in Fresh
  BY <1>5 DEF IsPending, Fresh
<1> HIDE DEF g
<1>7. CASE g = CurrentGroup
  <2>1. /\ UNCHANGED <<PendingGroups, RunningGroups, NextWorkIndex, completed, CurrentGroup>>
        /\ CurrentInvocation' = id
    BY <1>5, <1>6, <1>7 DEF Swtch, g
  <2>2. Fresh' = Fresh /\ Asleep' = Asleep
    BY <2>1 DEF Fresh, Asleep
  <2> QED  BY <1>1, <2>1, <2>2 DEF GroupTypes, OnePlace, Distinct
<1>8. CASE g # CurrentGroup /\ g \in Asleep
  <2>1. PICK k \in 1..Len(RunningGroups) : RunningGroups[k] = g
    BY <1>8 DEF Asleep
  <2>2. /\ UNCHANGED <<PendingGroups, NextWorkIndex, completed>>
        /\ RunningGroups' = Suspending(Without(RunningGroups, RunningGroups[k]))
        /\ CurrentGroup' = g /\ CurrentInvocation' = id
    BY <1>5, <1>6, <1>8, <2>1 DEF Swtch, g
  <2> DEFINE rest == Without(RunningGroups, RunningGroups[k])
  <2>3. /\ rest \in Seq(Group) /\ Distinct(rest)
        /\ {rest[i] : i \in 1..Len(rest)} = Asleep \ {g}
    BY <1>3, <2>1, Resumed DEF OnePlace, Asleep
  <2> HIDE DEF rest
  <2>4. \A i \in 1..Len(rest) : rest[i] # CurrentGroup
    BY <2>3 DEF OnePlace
  <2>5. /\ RunningGroups' \in Seq(Group) /\ Distinct(RunningGroups')
        /\ Asleep' = (Asleep \ {g}) \cup ({CurrentGroup} \ {Null})
    <3> DEFINE t == Suspending(rest)
    <3>1. /\ t \in Seq(Group) /\ Distinct(t)
          /\ {t[i] : i \in 1..Len(t)} =
               {rest[i] : i \in 1..Len(rest)} \cup ({CurrentGroup} \ {Null})
      BY <2>3, <2>4, PutAside
    <3>2. RunningGroups' = t
      BY <2>2 DEF rest
    <3>3. Asleep' = {t[i] : i \in 1..Len(t)}
      BY <3>2 DEF Asleep
    <3> HIDE DEF t
    <3> QED  BY <2>3, <3>1, <3>2, <3>3
  <2>6. Fresh' = Fresh
    BY <2>2 DEF Fresh
  <2>7. GroupTypes'
    BY <1>1, <2>2, <2>5 DEF GroupTypes
  <2>8. OnePlace'
    <3>1. /\ Distinct(PendingGroups)' /\ Distinct(RunningGroups)'
          /\ NextWorkIndex' <= Len(PendingGroups')
      BY <1>1, <1>8, <2>2, <2>5, <2>6 DEF OnePlace, Distinct
    <3>2. Fresh' \cap Asleep' = {} /\ completed' \cap (Fresh' \cup Asleep') = {}
      BY <1>1, <1>8, <2>2, <2>5, <2>6 DEF OnePlace
    <3>3. CurrentGroup' \notin Fresh' \cup Asleep' \cup completed'
      BY <1>1, <1>8, <2>2, <2>5, <2>6 DEF OnePlace
    <3>4. Group \subseteq Fresh' \cup Asleep' \cup completed' \cup {CurrentGroup'}
      BY <1>1, <1>8, <2>2, <2>5, <2>6 DEF OnePlace
    <3> QED  BY <3>1, <3>2, <3>3, <3>4 DEF OnePlace
  <2> QED  BY <2>2, <2>7, <2>8
<1>9. CASE g # CurrentGroup /\ g \notin Asleep /\ g \in Fresh
  <2>1. PICK k \in (NextWorkIndex + 1)..Len(PendingGroups) : PendingGroups[k] = g
    BY <1>9 DEF Fresh
  <2>2. /\ PendingGroups' = Without(PendingGroups, PendingGroups[k])
        /\ RunningGroups' = Suspending(RunningGroups)
        /\ CurrentGroup' = g /\ CurrentInvocation' = id
    BY <1>5, <1>6, <1>9, <2>1 DEF Swtch, g
  <2>3. /\ PendingGroups' \in Seq(Group) /\ Distinct(PendingGroups')
        /\ NextWorkIndex' <= Len(PendingGroups')
        /\ Fresh' = Fresh \ {g}
    <3> DEFINE t == Without(PendingGroups, PendingGroups[k])
    <3>1. /\ t \in Seq(Group) /\ Distinct(t) /\ NextWorkIndex <= Len(t)
          /\ {t[i] : i \in (NextWorkIndex + 1)..Len(t)} = Fresh \ {PendingGroups[k]}
      BY <1>3, <2>1, Created DEF OnePlace, Fresh
    <3>2. PendingGroups' = t
      BY <2>2
    <3> HIDE DEF t
    <3> QED  BY <1>2, <2>1, <3>1, <3>2 DEF Fresh
  <2>4. \A i \in 1..Len(RunningGroups) : RunningGroups[i] # CurrentGroup
    BY DEF OnePlace, Asleep
  <2>5. /\ RunningGroups' \in Seq(Group) /\ Distinct(RunningGroups')
        /\ Asleep' = Asleep \cup ({CurrentGroup} \ {Null})
    <3> DEFINE t == Suspending(RunningGroups)
    <3>1. Distinct(RunningGroups)
      BY DEF OnePlace
    <3>2. /\ t \in Seq(Group) /\ Distinct(t)
          /\ {t[i] : i \in 1..Len(t)} =
               {RunningGroups[i] : i \in 1..Len(RunningGroups)} \cup ({CurrentGroup} \ {Null})
      BY <1>3, <2>4, <3>1, PutAside
    <3>3. RunningGroups' = t
      BY <2>2
    <3>4. Asleep' = {t[i] : i \in 1..Len(t)}
      BY <3>3 DEF Asleep
    <3> HIDE DEF t
    <3> QED  BY <3>2, <3>3, <3>4 DEF Asleep
  <2>6. GroupTypes'
    BY <1>1, <1>2, <2>2, <2>3, <2>5 DEF GroupTypes
  <2>7. OnePlace'
    <3>1. /\ Distinct(PendingGroups)' /\ Distinct(RunningGroups)'
          /\ NextWorkIndex' <= Len(PendingGroups')
      BY <1>1, <1>2, <1>9, <2>2, <2>3, <2>5 DEF OnePlace, Distinct
    <3>2. Fresh' \cap Asleep' = {} /\ completed' \cap (Fresh' \cup Asleep') = {}
      BY <1>1, <1>2, <1>9, <2>2, <2>3, <2>5 DEF OnePlace
    <3>3. CurrentGroup' \notin Fresh' \cup Asleep' \cup completed'
      BY <1>1, <1>2, <1>9, <2>2, <2>3, <2>5 DEF OnePlace
    <3>4. Group \subseteq Fresh' \cup Asleep' \cup completed' \cup {CurrentGroup'}
      BY <1>1, <1>2, <1>9, <2>2, <2>3, <2>5 DEF OnePlace
    <3> QED  BY <3>1, <3>2, <3>3, <3>4 DEF OnePlace
  <2> QED  BY <2>2, <2>6, <2>7
<1>10. CASE g # CurrentGroup /\ g \notin Asleep /\ g \notin Fresh
  <2>1. /\ UNCHANGED PendingGroups
        /\ RunningGroups' = Suspending(RunningGroups)
        /\ CurrentGroup' = Null /\ CurrentInvocation' = Null
    BY <1>5, <1>6, <1>10 DEF Swtch, g
  <2>2. \A i \in 1..Len(RunningGroups) : RunningGroups[i] # CurrentGroup
    BY DEF OnePlace, Asleep
  <2>3. /\ RunningGroups' \in Seq(Group) /\ Distinct(RunningGroups')
        /\ Asleep' = Asleep \cup ({CurrentGroup} \ {Null})
    <3> DEFINE t == Suspending(RunningGroups)
    <3>1. Distinct(RunningGroups)
      BY DEF OnePlace
    <3>2. /\ t \in Seq(Group) /\ Distinct(t)
          /\ {t[i] : i \in 1..Len(t)} =
               {RunningGroups[i] : i \in 1..Len(RunningGroups)} \cup ({CurrentGroup} \ {Null})
      BY <1>3, <2>2, <3>1, PutAside
    <3>3. RunningGroups' = t
      BY <2>1
    <3>4. Asleep' = {t[i] : i \in 1..Len(t)}
      BY <3>3 DEF Asleep
    <3> HIDE DEF t
    <3> QED  BY <3>2, <3>3, <3>4 DEF Asleep
  <2>4. Fresh' = Fresh
    BY <1>2, <2>1 DEF Fresh
  <2>5. GroupTypes'
    BY <1>2, <2>1, <2>3 DEF GroupTypes
  <2>6. Fresh \subseteq Group /\ Asleep \subseteq Group /\ completed \subseteq Group
    BY <1>3 DEF Fresh, Asleep, GroupTypes
  <2>7. OnePlace'
    <3>1. /\ Distinct(PendingGroups)' /\ Distinct(RunningGroups)'
          /\ NextWorkIndex' <= Len(PendingGroups')
      BY <1>1, <1>2, <2>1, <2>3, <2>4, <2>6 DEF OnePlace, Distinct
    <3>2. Fresh' \cap Asleep' = {} /\ completed' \cap (Fresh' \cup Asleep') = {}
      BY <1>1, <1>2, <2>1, <2>3, <2>4, <2>6 DEF OnePlace
    <3>3. CurrentGroup' \notin Fresh' \cup Asleep' \cup completed'
      BY <1>1, <1>2, <2>1, <2>3, <2>4, <2>6 DEF OnePlace
    <3>4. Group \subseteq Fresh' \cup Asleep' \cup completed' \cup {CurrentGroup'}
      BY <1>1, <1>2, <2>1, <2>3, <2>4, <2>6 DEF OnePlace
    <3> QED  BY <3>1, <3>2, <3>3, <3>4 DEF OnePlace
  <2>8. g \in completed
    BY <1>1, <1>10 DEF OnePlace
  <2> QED  BY <2>1, <2>5, <2>7, <2>8
<1> QED  BY <1>7, <1>8, <1>9, <1>10

(* stepComputeWorker resumes or creates a group without losing one.          *)
LEMMA NextGroupStep ==
  ASSUME GroupTypes, OnePlace, NextGroup PROVE GroupTypes' /\ OnePlace'
<1>1. /\ CurrentGroup = Null /\ Null \notin Group
      /\ UNCHANGED <<PendingGroups, CurrentInvocation, completed>>
  BY CallAssumption DEF NextGroup, Group
<1>2. PendingGroups \in Seq(Group) /\ RunningGroups \in Seq(Group) /\ NextWorkIndex \in Nat
  BY DEF GroupTypes
<1>3. CASE RunningGroups # <<>>
  <2> DEFINE n == Len(RunningGroups)
  <2>1. /\ n \in Nat \ {0} /\ CurrentGroup' = RunningGroups[n] /\ UNCHANGED NextWorkIndex
        /\ RunningGroups' = SubSeq(RunningGroups, 1, n - 1)
    BY <1>2, <1>3 DEF NextGroup
  <2>2. /\ RunningGroups' \in Seq(Group) /\ Len(RunningGroups') = n - 1
        /\ \A i \in 1..(n - 1) : RunningGroups'[i] = RunningGroups[i]
    <3> DEFINE t == SubSeq(RunningGroups, 1, n - 1)
    <3>1. \A i \in 1..(n - 1) : RunningGroups[i] \in Group
      BY <1>2, <2>1
    <3>2. /\ t \in Seq(Group) /\ Len(t) = IF 1 <= n - 1 THEN (n - 1) - 1 + 1 ELSE 0
          /\ \A i \in 1..((n - 1) - 1 + 1) : t[i] = RunningGroups[1 + i - 1]
      BY <2>1, <3>1, SubSeqProperties
    <3> HIDE DEF t
    <3>3. n \in Nat \ {0}
      BY <2>1
    <3> HIDE DEF n
    <3>4. Len(t) = n - 1 /\ 1..((n - 1) - 1 + 1) = 1..(n - 1)
      BY <3>2, <3>3
    <3>5. ASSUME NEW i \in 1..(n - 1) PROVE t[i] = RunningGroups[i]
      <4>1. i \in Int /\ 1 + i - 1 = i
        BY <3>3
      <4> QED  BY <3>2, <3>4, <4>1
    <3> QED  BY <2>1, <3>2, <3>4, <3>5 DEF t
  <2>3. Fresh' = Fresh
    BY <1>1, <2>1 DEF Fresh
  <2>4. Asleep' = Asleep \ {CurrentGroup'} /\ CurrentGroup' \in Asleep
    BY <2>1, <2>2 DEF Asleep, OnePlace, Distinct
  <2>5. Distinct(RunningGroups')
    BY <2>1, <2>2 DEF OnePlace, Distinct
  <2>6. CurrentGroup' \in Group
    <3>1. n \in 1..Len(RunningGroups)
      BY <2>1
    <3> QED  BY <1>2, <2>1, <3>1
  <2> QED  BY <1>1, <1>2, <2>1, <2>2, <2>3, <2>4, <2>5, <2>6 DEF GroupTypes, OnePlace, Distinct
<1>4. CASE RunningGroups = <<>> /\ NextWorkIndex < Len(PendingGroups)
  <2>1. /\ CurrentGroup' = PendingGroups[NextWorkIndex + 1]
        /\ NextWorkIndex' = NextWorkIndex + 1 /\ UNCHANGED RunningGroups
    BY <1>4 DEF NextGroup
  <2>2. NextWorkIndex + 1 \in 1..Len(PendingGroups)
    BY <1>2, <1>4
  <2>3. Fresh' = Fresh \ {CurrentGroup'} /\ CurrentGroup' \in Fresh
    BY <1>1, <1>2, <1>4, <2>1, <2>2 DEF Fresh, OnePlace, Distinct
  <2>4. Asleep' = Asleep
    BY <2>1 DEF Asleep
  <2>5. CurrentGroup' \in Group
    BY <1>2, <2>1, <2>2
  <2>6. NextWorkIndex' \in Nat /\ NextWorkIndex' <= Len(PendingGroups')
    BY <1>1, <1>2, <2>1, <2>2
  <2>7. GroupTypes'
    BY <1>1, <2>1, <2>5, <2>6 DEF GroupTypes
  <2>8. Distinct(PendingGroups') /\ Distinct(RunningGroups')
    BY <1>1, <2>1 DEF OnePlace, Distinct
  <2>9. /\ Fresh' \cap Asleep' = {} /\ completed' \cap (Fresh' \cup Asleep') = {}
        /\ CurrentGroup' \notin Fresh' \cup Asleep' \cup completed'
        /\ Group \subseteq Fresh' \cup Asleep' \cup completed' \cup {CurrentGroup'}
    BY <1>1, <2>3, <2>4 DEF OnePlace
  <2> QED  BY <2>6, <2>7, <2>8, <2>9 DEF OnePlace, Distinct
<1>5. CASE RunningGroups = <<>> /\ ~(NextWorkIndex < Len(PendingGroups))
  <2>1. UNCHANGED <<RunningGroups, CurrentGroup, NextWorkIndex>>
    BY <1>5 DEF NextGroup
  <2>2. GroupTypes'
    BY <1>1, <2>1 DEF GroupTypes
  <2>3. Fresh' = Fresh /\ Asleep' = Asleep
    BY <1>1, <2>1 DEF Fresh, Asleep
  <2>4. OnePlace'
    BY <1>1, <2>1, <2>3 DEF OnePlace, Distinct
  <2> QED  BY <2>2, <2>4
<1> QED  BY <1>3, <1>4, <1>5

(* ... and moves a group that is done from current to completed.             *)
LEMMA CompleteGroupStep ==
  ASSUME GroupTypes, OnePlace, CompleteGroup PROVE GroupTypes' /\ OnePlace'
<1>1. /\ CurrentGroup # Null /\ CurrentGroup' = Null /\ CurrentInvocation' = Null
      /\ completed' = completed \cup {CurrentGroup}
      /\ UNCHANGED <<PendingGroups, NextWorkIndex, RunningGroups>>
  BY DEF CompleteGroup, Stuck
<1>2. Fresh' = Fresh /\ Asleep' = Asleep
  BY <1>1 DEF Fresh, Asleep
<1>3. CurrentGroup \in Group /\ Null \notin Group
  BY <1>1, CallAssumption DEF GroupTypes, Group
<1>4. Fresh \subseteq Group /\ Asleep \subseteq Group
  BY DEF Fresh, Asleep, GroupTypes
<1>5. GroupTypes'
  BY <1>1, <1>3 DEF GroupTypes
<1>6. OnePlace'
  BY <1>1, <1>2, <1>3, <1>4 DEF GroupTypes, OnePlace, Distinct
<1> QED  BY <1>5, <1>6

-------------------------------------------------------------------------------
(* The microtasks a core has queued visit lanes of that core, none twice.    *)
OncePerLane(c, s) ==
  /\ s \in Seq([kind : {"local", "mem"}, lanes : Seq(LanesOf(c))])
  /\ \A t, u \in 1..Len(s) : \A i \in 1..Len(s[t].lanes), j \in 1..Len(s[u].lanes) :
       s[t].lanes[i] = s[u].lanes[j] => t = u /\ i = j
TasksRight ==
  /\ Microtasks = [c \in Core |-> Microtasks[c]]
  /\ \A c \in Core : OncePerLane(c, Microtasks[c])

(* Those that doPrepareTick makes for a core do.                             *)
LEMMA TasksOfRight == ASSUME NEW c \in Core PROVE OncePerLane(c, TasksOf(c))
<1> DEFINE ls == LanesOf(c)
           n  == Cardinality(ls)
           s  == InOrder(ls)
<1>1. /\ n \in Nat /\ s \in Seq(ls) /\ Len(s) = n
      /\ \A i, j \in 1..n : s[i] = s[j] => i = j
  BY LanesInOrder
<1>2. TasksOf(c) = CASE PC[c] = Null  -> <<>>
                     [] PC[c] = "mem" -> [i \in 1..n |-> [kind |-> "mem", lanes |-> <<s[i]>>]]
                     [] OTHER         -> <<[kind |-> "local", lanes |-> s]>>
  BY DEF TasksOf
<1> HIDE DEF n, s, ls
<1>3. \A i \in 1..n : s[i] \in ls
  BY <1>1
<1>4. CASE PC[c] = Null
  <2>1. TasksOf(c) = <<>> /\ Len(<<>>) = 0
    BY <1>2, <1>4, CallAssumption DEF Kind
  <2> QED  BY <2>1, EmptySeq DEF OncePerLane
<1>5. CASE PC[c] # Null /\ PC[c] = "mem"
  <2> DEFINE q == [i \in 1..n |-> [kind |-> "mem", lanes |-> <<s[i]>>]]
  <2>1. TasksOf(c) = q
    BY <1>2, <1>5
  <2>2. /\ q \in Seq([kind : {"local", "mem"}, lanes : Seq(ls)]) /\ Len(q) = n
        /\ \A i \in 1..n : Len(q[i].lanes) = 1 /\ q[i].lanes[1] = s[i]
    BY <1>1, <1>3
  <2> HIDE DEF q
  <2>3. ASSUME NEW t \in 1..Len(q), NEW u \in 1..Len(q),
               NEW i \in 1..Len(q[t].lanes), NEW j \in 1..Len(q[u].lanes),
               q[t].lanes[i] = q[u].lanes[j]
        PROVE  t = u /\ i = j
    <3>1. Len(q[t].lanes) = 1 /\ Len(q[u].lanes) = 1
      BY <2>2
    <3>2. i = 1 /\ j = 1
      BY <3>1
    <3> QED  BY <1>1, <2>2, <2>3, <3>2
  <2> QED  BY <2>1, <2>2, <2>3 DEF OncePerLane, ls
<1>6. CASE PC[c] # Null /\ PC[c] # "mem"
  <2>1. TasksOf(c) = <<[kind |-> "local", lanes |-> s]>>
    BY <1>2, <1>6
  <2> QED  BY <1>1, <2>1 DEF OncePerLane, ls
<1> QED  BY <1>4, <1>5, <1>6

(* doPrepareTick is called only when no core has microtasks left.            *)
LEMMA PrepareStep ==
  ASSUME TasksRight, ~Queued, Prepare PROVE TasksRight'
<1>1. \A c \in Core : Microtasks[c] = <<>>
  BY DEF Queued
<1>2. \A c \in Core : Microtasks'[c] = TasksOf(c)
  <2> TAKE c \in Core
  <2>1. Microtasks'[c] = <<>> \o TasksOf(c)
    BY <1>1 DEF Prepare
  <2>2. TasksOf(c) \in Seq([kind : {"local", "mem"}, lanes : Seq(LanesOf(c))])
    BY TasksOfRight DEF OncePerLane
  <2> QED  BY <2>1, <2>2, ConcatEmptySeq
<1>3. Microtasks' = [c \in Core |-> Microtasks'[c]]
  BY DEF Prepare
<1>4. \A c \in Core : OncePerLane(c, Microtasks'[c])
  BY <1>2, TasksOfRight
<1> QED  BY <1>3, <1>4 DEF TasksRight, OncePerLane

(* A microtask that is done is taken from the front.                         *)
LEMMA TailStep ==
  ASSUME TasksRight, NEW c \in Core, Microtasks[c] # <<>>,
         Microtasks' = [Microtasks EXCEPT ![c] = Tail(@)]
  PROVE  TasksRight'
<1> DEFINE s == Microtasks[c]
           T == [kind : {"local", "mem"}, lanes : Seq(LanesOf(c))]
<1>1. s \in Seq(T) /\ s # <<>>
  BY DEF TasksRight, OncePerLane
<1>2. /\ Tail(s) \in Seq(T) /\ Len(Tail(s)) = Len(s) - 1 /\ Len(s) \in Nat
      /\ \A i \in 1..Len(Tail(s)) : Tail(s)[i] = s[i + 1]
  BY <1>1, HeadTailProperties
<1>3. /\ Microtasks' = [d \in Core |-> Microtasks'[d]]
      /\ \A d \in Core : Microtasks'[d] = IF d = c THEN Tail(s) ELSE Microtasks[d]
  BY DEF TasksRight
<1>4. OncePerLane(c, Tail(s))
  <2>1. ASSUME NEW t \in 1..Len(Tail(s)), NEW u \in 1..Len(Tail(s)),
               NEW i \in 1..Len(Tail(s)[t].lanes), NEW j \in 1..Len(Tail(s)[u].lanes),
               Tail(s)[t].lanes[i] = Tail(s)[u].lanes[j]
        PROVE  t = u /\ i = j
    <3>1. t + 1 \in 1..Len(s) /\ u + 1 \in 1..Len(s)
      BY <1>2
    <3>2. Tail(s)[t] = s[t + 1] /\ Tail(s)[u] = s[u + 1]
      BY <1>2
    <3>3. \A v, w \in 1..Len(s) : \A k \in 1..Len(s[v].lanes), l \in 1..Len(s[w].lanes) :
            s[v].lanes[k] = s[w].lanes[l] => v = w /\ k = l
      BY DEF TasksRight, OncePerLane
    <3> HIDE DEF s
    <3>4. i \in 1..Len(s[t + 1].lanes) /\ j \in 1..Len(s[u + 1].lanes)
      BY <3>2
    <3>5. s[t + 1].lanes[i] = s[u + 1].lanes[j]
      BY <2>1, <3>2
    <3>6. t + 1 = u + 1 /\ i = j
      BY <3>1, <3>3, <3>4, <3>5
    <3>7. t \in Int /\ u \in Int
      BY <1>2
    <3> QED  BY <3>6, <3>7
  <2> QED  BY <1>2, <2>1 DEF OncePerLane
<1>5. \A d \in Core : OncePerLane(d, Microtasks'[d])
  BY <1>3, <1>4 DEF TasksRight
<1> QED  BY <1>3, <1>5 DEF TasksRight, OncePerLane

-------------------------------------------------------------------------------
(* The inductive invariant: where the loops of the executor are, what the    *)
(* prompt of the debugger has interrupted, and how far the invocations are.  *)
ControlTypes ==
  /\ PC \in [Core -> Kind \cup {Null}] /\ Lanes \in [Lane -> LaneState]
  /\ pc \in {"start", "idle", "tick", "lane", "work", "collect", "finished",
             "stopped", "aborted", "crashed"}
  /\ call \in {"step", "tick"} /\ mask \subseteq Lane
  /\ core \in 0..NumCores /\ todo \in Seq(Assigned)
ControlRight ==
  /\ pc \in {"lane", "work"} => core \in Core /\ Microtasks[core] # <<>>
  /\ pc = "work" => todo # <<>> /\ Head(todo) \in mask
  /\ pc = "start" => completed = {}
PromptRight ==
  /\ front = "session" => prompt = "closed"
  /\ prompt = "open" => pc \in {"idle", "crashed"}
  /\ prompt = "error" => pc \in {"work", "crashed"}
  /\ prompt = "error" /\ pc = "work" =>
       stepping = Head(todo) /\ Ready(stepping) /\ Current(stepping) = "mem"
  /\ pc = "work" /\ prompt \in {"none", "closed"} => CurrentInvocation \in {Head(todo), Null}

InvocTypes ==
  /\ program \in Programs
  /\ executed \in [Invocation -> Nat] /\ atBarrier \in [Invocation -> BOOLEAN]
ProgressRight ==
  /\ \A i \in Invocation : executed[i] <= Len(program[i])
  /\ \A g \in completed : \A i \in WorkItems(g) : executed[i] = Len(program[i])
SamePassed ==
  \A i, j \in Invocation : GroupOf(i) = GroupOf(j) => Passed(i) = Passed(j)

ExecInv ==
  /\ InvocTypes /\ GroupTypes /\ ControlTypes /\ TasksRight
  /\ pc # "stopped" => OnePlace
  /\ ControlRight /\ PromptRight /\ ProgressRight /\ SamePassed

(* Nothing has happened to the groups.                                       *)
LEMMA GroupsUnchanged ==
  ASSUME UNCHANGED groupVars
  PROVE  (GroupTypes => GroupTypes') /\ (OnePlace => OnePlace')
<1>1. GroupTypes => GroupTypes'
  BY DEF groupVars, GroupTypes
<1>2. Fresh' = Fresh /\ Asleep' = Asleep
  BY DEF groupVars, Fresh, Asleep
<1>3. OnePlace => OnePlace'
  BY <1>2 DEF groupVars, OnePlace, Distinct
<1> QED  BY <1>1, <1>3

(* A lane in use stands for an invocation.                                   *)
LEMMA LaneInvocation ==
  ASSUME ControlTypes, todo # <<>>
  PROVE  /\ Head(todo) \in Assigned /\ LogCoord(Head(todo)) \in Invocation
         /\ Tail(todo) \in Seq(Assigned)
<1>1. Head(todo) \in Assigned /\ Tail(todo) \in Seq(Assigned)
  BY DEF ControlTypes
<1> QED  BY <1>1, AssignedLanes DEF LogCoord

(* Nobody acts once the dispatch has come to its stop.                       *)
LEMMA NotStopped ==
  ASSUME PromptRight, AtHost PROVE pc \in {"idle", "work"} /\ (prompt = "error" <=> pc = "work")
BY DEF PromptRight, AtHost, Prompted

(* Every step keeps every group in one place.                                *)
LEMMA GroupStep ==
  ExecInv /\ [DebugNext]_allVars => GroupTypes' /\ (pc' # "stopped" => OnePlace')
<1> SUFFICES ASSUME ExecInv, [DebugNext]_allVars
             PROVE  GroupTypes' /\ (pc' # "stopped" => OnePlace')
  OBVIOUS
<1>0. GroupTypes /\ ControlTypes /\ (pc # "stopped" => OnePlace)
  BY DEF ExecInv
<1>1. CASE UNCHANGED allVars
  BY <1>0, <1>1, GroupsUnchanged DEF allVars, vars
<1>2. ASSUME Advance PROVE GroupTypes' /\ (pc' # "stopped" => OnePlace')
  <2>1. CASE StartLane
    BY <1>0, <2>1, LaneInvocation, SwtchStep DEF StartLane
  <2>2. CASE EnterLane
    BY <1>0, <2>2, LaneInvocation, SwtchStep DEF EnterLane
  <2>3. CASE CollectLane
    <3>1. CASE InMask(Head(todo))
      BY <1>0, <2>3, <3>1, LaneInvocation, SwtchStep DEF CollectLane
    <3>2. CASE ~InMask(Head(todo))
      BY <1>0, <2>3, <3>2, GroupsUnchanged DEF CollectLane
    <3> QED  BY <3>1, <3>2
  <2>4. CASE NextGroup
    BY <1>0, <2>4, NextGroupStep DEF NextGroup, Working
  <2>5. CASE CompleteGroup
    BY <1>0, <2>5, CompleteGroupStep DEF CompleteGroup, Stuck, Working
  <2>6. CASE PickInvocation
    <3>1. /\ pc = "work" /\ CurrentGroup \in Group
          /\ \E i \in WorkItems(CurrentGroup) : CurrentInvocation' = i
          /\ UNCHANGED <<PendingGroups, NextWorkIndex, RunningGroups, CurrentGroup, completed>>
      BY <1>0, <2>6 DEF PickInvocation, Working, GroupTypes
    <3>2. CurrentInvocation' \in Invocation
      BY <3>1, GroupsOfInvocations
    <3>3. Fresh' = Fresh /\ Asleep' = Asleep
      BY <3>1 DEF Fresh, Asleep
    <3> QED  BY <1>0, <3>1, <3>2, <3>3 DEF GroupTypes, OnePlace, Distinct
  <2>7. CASE ClearBarrier \/ BarrierAbort
    <3>1. /\ pc = "work" /\ CurrentInvocation' = Null
          /\ UNCHANGED <<PendingGroups, NextWorkIndex, RunningGroups, CurrentGroup, completed>>
      BY <2>7 DEF ClearBarrier, BarrierAbort, Stuck, Working
    <3>2. Fresh' = Fresh /\ Asleep' = Asleep
      BY <3>1 DEF Fresh, Asleep
    <3> QED  BY <1>0, <3>1, <3>2 DEF GroupTypes, OnePlace, Distinct
  <2>8. CASE Stop
    <3>1. PendingGroups' \in Seq(Group) /\ pc' = "stopped"
          /\ UNCHANGED <<NextWorkIndex, RunningGroups, CurrentGroup, CurrentInvocation, completed>>
      BY <2>8, EmptySeq DEF Stop
    <3> QED  BY <1>0, <3>1 DEF GroupTypes
  <2>9. CASE \/ Started \/ RunFront \/ TickDone \/ SkipLane \/ EndMicrotask \/ StepInvocation
             \/ StepDone
    BY <1>0, <2>9, GroupsUnchanged
    DEF Started, RunFront, TickDone, SkipLane, EndMicrotask, StepInvocation, StepDone, Working
  <2> QED  BY <1>2, <2>1, <2>2, <2>3, <2>4, <2>5, <2>6, <2>7, <2>8, <2>9 DEF Advance, Worker
<1>3. ASSUME NEW m, NEW entry, Call(m, entry)
      PROVE  GroupTypes' /\ (pc' # "stopped" => OnePlace')
  BY <1>0, <1>3, GroupsUnchanged DEF Call
<1>4. ASSUME NEW id \in Invocation, SwtchCommand(id)
      PROVE  GroupTypes' /\ (pc' # "stopped" => OnePlace')
  <2>1. pc # "stopped" /\ Swtch(id)
    BY <1>4, NotStopped DEF SwtchCommand, ExecInv
  <2> QED  BY <1>0, <2>1, SwtchStep
<1>5. CASE UseOfNull
  <2>1. pc # "stopped" /\ UNCHANGED groupVars
    BY <1>5, NotStopped DEF UseOfNull, ExecInv
  <2> QED  BY <1>0, <2>1, GroupsUnchanged
<1>6. CASE Cont \/ StepCommand
  <2>1. pc # "stopped" /\ UNCHANGED groupVars
    BY <1>6, NotStopped DEF Cont, StepCommand, Leave, AtHost, ExecInv, vars
  <2> QED  BY <1>0, <2>1, GroupsUnchanged
<1>7. CASE \/ Interact \/ ReportError \/ Quit \/ DebugEnded
           \/ \E id \in ResultIds : Brk(id)
           \/ \E ns \in {DOMAIN Breakpoints} \cup {{n} : n \in DOMAIN Breakpoints} : Delete(ns)
  <2>1. UNCHANGED groupVars /\ pc' = pc
    BY <1>7 DEF Interact, ReportError, Quit, DebugEnded, Brk, Delete, allVars, vars
  <2> QED  BY <1>0, <2>1, GroupsUnchanged
<1> QED  BY <1>1, <1>2, <1>3, <1>4, <1>5, <1>6, <1>7
         DEF DebugNext, RunOn, NextStep, SessionCall, User

(* Every step keeps the microtasks right.                                    *)
LEMMA TaskStep == ExecInv /\ [DebugNext]_allVars => TasksRight'
<1> SUFFICES ASSUME ExecInv, [DebugNext]_allVars PROVE TasksRight'
  OBVIOUS
<1>0. TasksRight /\ ControlTypes /\ ControlRight /\ PromptRight
  BY DEF ExecInv
<1>1. CASE UNCHANGED Microtasks
  <2>1. \A c \in Core : OncePerLane(c, Microtasks'[c])
    BY <1>0, <1>1 DEF TasksRight
  <2>2. Microtasks' = [c \in Core |-> Microtasks'[c]]
    BY <1>0, <1>1 DEF TasksRight
  <2> QED  BY <2>1, <2>2 DEF TasksRight, OncePerLane
<1>2. CASE TickDone
  BY <1>0, <1>1, <1>2, PrepareStep DEF TickDone
<1>3. CASE EndMicrotask
  <2>1. core \in Core /\ Microtasks[core] # <<>>
    BY <1>0, <1>3 DEF EndMicrotask, ControlRight
  <2> QED  BY <1>0, <1>3, <2>1, TailStep DEF EndMicrotask
<1>4. ASSUME NEW m, NEW entry, Call(m, entry) PROVE TasksRight'
  BY <1>0, <1>1, <1>4, PrepareStep DEF Call
<1>5. CASE \/ StartLane \/ Started \/ RunFront \/ SkipLane \/ EnterLane \/ StepInvocation
           \/ NextGroup \/ PickInvocation \/ ClearBarrier \/ BarrierAbort \/ CompleteGroup
           \/ CollectLane \/ StepDone \/ Stop
  BY <1>1, <1>5 DEF StartLane, Started, RunFront, SkipLane, EnterLane, StepInvocation, NextGroup,
                    PickInvocation, ClearBarrier, BarrierAbort, CompleteGroup, CollectLane,
                    StepDone, Stop, coreVars
<1>6. CASE \/ Interact \/ ReportError \/ Quit \/ DebugEnded \/ Cont \/ StepCommand \/ UseOfNull
           \/ \E id \in ResultIds : Brk(id)
           \/ \E ns \in {DOMAIN Breakpoints} \cup {{n} : n \in DOMAIN Breakpoints} : Delete(ns)
           \/ \E id \in Invocation : SwtchCommand(id)
           \/ UNCHANGED allVars
  BY <1>1, <1>6 DEF Interact, ReportError, Quit, DebugEnded, Cont, StepCommand, UseOfNull, Leave,
                    Brk, Delete, SwtchCommand, coreVars, allVars, vars
<1> QED  BY <1>2, <1>3, <1>4, <1>5, <1>6
         DEF DebugNext, RunOn, NextStep, SessionCall, User, Advance, Worker

(* The barriers among the first n instructions of a program.                 *)
Barriers(p, n) == {k \in 1..n : p[k] = "barrier"}

(* One more instruction is one more barrier if it is one.                    *)
LEMMA BarrierCount ==
  ASSUME NEW p, NEW n \in Nat
  PROVE  /\ Cardinality(Barriers(p, n)) \in Nat
         /\ Cardinality(Barriers(p, n + 1)) =
              Cardinality(Barriers(p, n)) + (IF p[n + 1] = "barrier" THEN 1 ELSE 0)
<1>1. IsFiniteSet(Barriers(p, n))
  <2>1. IsFiniteSet(1..n) /\ Barriers(p, n) \in SUBSET (1..n)
    BY FS_Interval DEF Barriers
  <2> QED  BY <2>1, FS_Subset
<1>2. Cardinality(Barriers(p, n)) \in Nat
  BY <1>1, FS_CardinalityType
<1>3. CASE p[n + 1] = "barrier"
  <2>1. Barriers(p, n + 1) = Barriers(p, n) \cup {n + 1} /\ n + 1 \notin Barriers(p, n)
    BY <1>3 DEF Barriers
  <2> QED  BY <1>1, <1>2, <1>3, <2>1, FS_AddElement
<1>4. CASE p[n + 1] # "barrier"
  <2>1. Barriers(p, n + 1) = Barriers(p, n)
    BY <1>4 DEF Barriers
  <2> QED  BY <1>2, <1>4, <2>1
<1> QED  BY <1>2, <1>3, <1>4

(* An invocation executes an instruction: it has passed as many barriers as  *)
(* before, as it waits at one it has just reached.                           *)
LEMMA ExecuteStep ==
  ASSUME InvocTypes, ProgressRight, SamePassed, NEW i \in Invocation, Ready(i),
         program' = program, executed' = [executed EXCEPT ![i] = @ + 1],
         atBarrier' = [atBarrier EXCEPT ![i] = (Current(i) = "barrier")],
         completed' = completed
  PROVE  InvocTypes' /\ ProgressRight' /\ SamePassed'
<1>1. /\ executed \in [Invocation -> Nat] /\ atBarrier \in [Invocation -> BOOLEAN]
      /\ executed[i] < Len(program[i]) /\ ~atBarrier[i]
  BY DEF InvocTypes, Ready
<1>2. InvocTypes'
  BY <1>1 DEF InvocTypes
<1>3. Len(program[i]) \in Nat
  BY ProgramAssumption DEF InvocTypes
<1>4. /\ executed'[i] = executed[i] + 1
      /\ \A j \in Invocation \ {i} : executed'[j] = executed[j] /\ atBarrier'[j] = atBarrier[j]
      /\ atBarrier'[i] = (program[i][executed[i] + 1] = "barrier")
  BY <1>1 DEF Current
<1>5. ProgressRight'
  <2>1. \A j \in Invocation : executed'[j] <= Len(program[j])
    BY <1>1, <1>3, <1>4 DEF ProgressRight
  <2>2. \A g \in completed : \A j \in WorkItems(g) : j # i
    BY <1>1, <1>3 DEF ProgressRight
  <2>3. ASSUME NEW g \in completed, NEW j \in WorkItems(g) PROVE executed'[j] = Len(program[j])
    <3>1. j # i /\ executed[j] = Len(program[j])
      BY <2>2 DEF ProgressRight
    <3> QED  BY <1>1, <3>1
  <2> QED  BY <2>1, <2>3 DEF ProgressRight
<1>6. \A j \in Invocation : Passed(j)' = Passed(j)
  <2> TAKE j \in Invocation
  <2>1. CASE j # i
    BY <1>4, <2>1 DEF Passed, Reached
  <2>2. CASE j = i
    <3> DEFINE n == executed[i]
    <3>1. /\ Reached(i) = Cardinality(Barriers(program[i], n))
          /\ Reached(i)' = Cardinality(Barriers(program[i], n + 1))
      BY <1>4 DEF Reached, Barriers
    <3>2. /\ Reached(i) \in Nat
          /\ Reached(i)' = Reached(i) + (IF program[i][n + 1] = "barrier" THEN 1 ELSE 0)
      <4>1. n \in Nat
        BY <1>1
      <4> HIDE DEF n
      <4> QED  BY <3>1, <4>1, BarrierCount
    <3>3. Passed(i) = Reached(i)
      BY <1>1, <3>2 DEF Passed
    <3>4. CASE program[i][n + 1] = "barrier"
      <4>1. atBarrier'[i] /\ Reached(i)' = Reached(i) + 1
        BY <1>4, <3>2, <3>4
      <4>2. Passed(i)' = Reached(i)' - 1
        BY <4>1 DEF Passed
      <4> QED  BY <2>2, <3>2, <3>3, <4>1, <4>2
    <3>5. CASE program[i][n + 1] # "barrier"
      <4>1. ~atBarrier'[i] /\ Reached(i)' = Reached(i) + 0
        BY <1>4, <3>2, <3>5
      <4>2. Passed(i)' = Reached(i)' - 0
        BY <4>1 DEF Passed
      <4> QED  BY <2>2, <3>2, <3>3, <4>1, <4>2
    <3> QED  BY <3>4, <3>5
  <2> QED  BY <2>1, <2>2
<1>7. SamePassed'
  BY <1>6 DEF SamePassed
<1> QED  BY <1>2, <1>5, <1>7

(* A group that passes its barrier does so with all of its invocations.      *)
LEMMA ClearStep ==
  ASSUME InvocTypes, GroupTypes, ProgressRight, SamePassed, ClearBarrier
  PROVE  InvocTypes' /\ ProgressRight' /\ SamePassed'
<1>1. /\ CurrentGroup \in Group
      /\ \A i \in WorkItems(CurrentGroup) : atBarrier[i]
      /\ atBarrier' = [i \in Invocation |-> atBarrier[i] /\ i \notin WorkItems(CurrentGroup)]
      /\ UNCHANGED <<program, executed, completed>>
  BY DEF ClearBarrier, Stuck, AllWaiting, Waiting, GroupTypes
<1>2. InvocTypes' /\ ProgressRight'
  BY <1>1 DEF InvocTypes, ProgressRight
<1>3. \A i \in Invocation : Reached(i)' = Reached(i) /\ Reached(i) \in Nat
  <2> TAKE i \in Invocation
  <2>1. Reached(i) = Cardinality(Barriers(program[i], executed[i])) /\ executed[i] \in Nat
    BY DEF Reached, Barriers, InvocTypes
  <2> QED  BY <1>1, <2>1, BarrierCount DEF Reached
<1>4. \A i \in Invocation :
        Passed(i)' = IF GroupOf(i) = CurrentGroup THEN Passed(i) + 1 ELSE Passed(i)
  <2> TAKE i \in Invocation
  <2>1. CASE GroupOf(i) = CurrentGroup
    <3>1. i \in WorkItems(CurrentGroup)
      BY <2>1, GroupsOfInvocations
    <3>2. atBarrier[i] /\ ~atBarrier'[i]
      BY <1>1, <3>1
    <3>3. Passed(i) = Reached(i) - 1 /\ Passed(i)' = Reached(i)' - 0
      BY <3>2 DEF Passed
    <3> QED  BY <1>3, <2>1, <3>3
  <2>2. CASE GroupOf(i) # CurrentGroup
    <3>1. i \notin WorkItems(CurrentGroup)
      BY <1>1, <2>2, GroupsOfInvocations
    <3>2. atBarrier'[i] = atBarrier[i]
      BY <1>1, <3>1 DEF InvocTypes
    <3> QED  BY <1>3, <2>2, <3>2 DEF Passed
  <2> QED  BY <2>1, <2>2
<1>5. SamePassed'
  BY <1>4 DEF SamePassed
<1> QED  BY <1>2, <1>5

(* Every step keeps the invocations of a group together.                     *)
LEMMA InvocStep ==
  ExecInv /\ [DebugNext]_allVars => InvocTypes' /\ ProgressRight' /\ SamePassed'
<1> DEFINE Kept == InvocTypes' /\ ProgressRight' /\ SamePassed'
<1> SUFFICES ASSUME ExecInv, [DebugNext]_allVars PROVE Kept
  OBVIOUS
<1>0. InvocTypes /\ GroupTypes /\ ControlTypes /\ PromptRight /\ ProgressRight /\ SamePassed
  BY DEF ExecInv
<1>1. ASSUME UNCHANGED <<invocVars, completed>> PROVE Kept
  BY <1>0, <1>1 DEF InvocTypes, ProgressRight, SamePassed, Passed, Reached, invocVars
<1>2. CASE StepInvocation
  BY <1>0, <1>2, ExecuteStep DEF StepInvocation, NoReady, GroupTypes, groupVars
<1>3. CASE ClearBarrier
  BY <1>0, <1>3, ClearStep
<1>4. CASE CompleteGroup
  <2>1. /\ UNCHANGED invocVars /\ completed' = completed \cup {CurrentGroup}
        /\ CurrentGroup \in Group
        /\ \A i \in WorkItems(CurrentGroup) : ~Ready(i) /\ ~atBarrier[i]
    BY <1>0, <1>4 DEF CompleteGroup, Stuck, Waiting, GroupTypes
  <2>2. ASSUME NEW i \in WorkItems(CurrentGroup) PROVE executed[i] = Len(program[i])
    <3>1. i \in Invocation
      BY <2>1, GroupsOfInvocations
    <3>2. executed[i] \in Nat /\ Len(program[i]) \in Nat
      BY <1>0, <3>1, ProgramAssumption DEF InvocTypes
    <3> QED  BY <1>0, <2>1, <3>1, <3>2 DEF Ready, ProgressRight
  <2>3. ProgressRight'
    BY <1>0, <2>1, <2>2 DEF ProgressRight, invocVars
  <2> QED  BY <1>0, <2>1, <2>3 DEF InvocTypes, SamePassed, Passed, Reached, invocVars
<1>5. CASE Cont \/ StepCommand
  <2>1. CASE prompt = "open"
    BY <1>1, <1>5, <2>1 DEF Cont, StepCommand, Leave, vars, groupVars
  <2>2. CASE prompt # "open"
    <3>1. prompt = "error" /\ pc = "work"
      BY <1>0, <1>5, <2>2 DEF Cont, StepCommand, Prompted, PromptRight
    <3>2. /\ stepping = Head(todo) /\ Ready(stepping) /\ Current(stepping) = "mem"
          /\ stepping \in Invocation
      <4>1. todo # <<>>
        BY <3>1 DEF ExecInv, ControlRight
      <4> QED  BY <1>0, <3>1, <4>1, LaneInvocation DEF PromptRight, LogCoord
    <3>3. /\ executed' = [executed EXCEPT ![stepping] = @ + 1]
          /\ UNCHANGED <<program, atBarrier, completed>>
      BY <1>5, <2>2 DEF Cont, StepCommand, Leave, groupVars
    <3>4. atBarrier' = [atBarrier EXCEPT ![stepping] = (Current(stepping) = "barrier")]
      BY <1>0, <3>2, <3>3 DEF Ready, InvocTypes
    <3> QED  BY <1>0, <3>2, <3>3, <3>4, ExecuteStep
  <2> QED  BY <2>1, <2>2
<1>6. CASE \/ StartLane \/ Started \/ RunFront \/ TickDone \/ SkipLane \/ EnterLane
           \/ EndMicrotask \/ NextGroup \/ PickInvocation \/ BarrierAbort
           \/ StepDone \/ Stop
  BY <1>1, <1>6 DEF StartLane, Started, RunFront, TickDone, SkipLane, EnterLane, EndMicrotask,
                    NextGroup, PickInvocation, BarrierAbort, StepDone, Stop, Swtch, groupVars
<1>7. CASE CollectLane
  BY <1>1, <1>7 DEF CollectLane, Swtch, groupVars
<1>8. ASSUME NEW m, NEW entry, Call(m, entry) PROVE Kept
  BY <1>1, <1>8 DEF Call, groupVars
<1>9. ASSUME NEW id, SwtchCommand(id) PROVE Kept
  BY <1>1, <1>9 DEF SwtchCommand, Swtch
<1>10. CASE \/ Interact \/ ReportError \/ Quit \/ DebugEnded \/ UseOfNull
            \/ \E id \in ResultIds : Brk(id)
            \/ \E ns \in {DOMAIN Breakpoints} \cup {{n} : n \in DOMAIN Breakpoints} : Delete(ns)
            \/ UNCHANGED allVars
  BY <1>1, <1>10 DEF Interact, ReportError, Quit, DebugEnded, UseOfNull, Brk, Delete, groupVars,
                     allVars, vars
<1> HIDE DEF Kept
<1> QED  BY <1>2, <1>3, <1>4, <1>5, <1>6, <1>7, <1>8, <1>9, <1>10
         DEF DebugNext, RunOn, NextStep, SessionCall, User, Advance, Worker

(* What an invocation is at is an instruction, or nothing once it is done.   *)
LEMMA CurrentKind ==
  ASSUME NEW p \in Programs, NEW e \in [Invocation -> Nat], NEW i \in Invocation
  PROVE  (IF e[i] < Len(p[i]) THEN p[i][e[i] + 1] ELSE Null) \in Kind \cup {Null}
<1>1. p[i] \in Seq(Kind)
  BY ProgramAssumption
<1>2. CASE e[i] < Len(p[i])
  <2>1. e[i] + 1 \in 1..Len(p[i])
    BY <1>1, <1>2
  <2> QED  BY <1>1, <1>2, <2>1, ElementOfSeq
<1> QED  BY <1>2

(* A lane is left at the end of stepComputeWorker.                           *)
LEMMA LeaveStep ==
  ASSUME ControlTypes, InvocTypes', CurrentInvocation' \in Invocation \cup {Null},
         core \in Core, todo # <<>>, LeaveLane
  PROVE  /\ PC' \in [Core -> Kind \cup {Null}] /\ pc' \in {"lane", "crashed"}
         /\ todo' = Tail(todo)
<1>1. CurrentInvocation' # Null => CurrentPC' \in Kind \cup {Null}
  BY CurrentKind DEF InvocTypes, CurrentPC, Current
<1> QED  BY <1>1 DEF LeaveLane, ControlTypes

(* Every step of the executor keeps its loops right.                         *)
LEMMA AdvanceControl ==
  ASSUME ExecInv, Advance, GroupTypes', InvocTypes', prompt \in {"none", "closed"},
         prompt' = prompt, stepping' = stepping, front' = front
  PROVE  ControlTypes' /\ ControlRight' /\ PromptRight'
<1> DEFINE Right == ControlTypes' /\ ControlRight' /\ PromptRight'
<1>0. /\ ControlTypes /\ ControlRight /\ PromptRight /\ GroupTypes /\ InvocTypes /\ TasksRight
      /\ pc # "stopped" => OnePlace
  BY DEF ExecInv
<1>1. 0 \in Core /\ NumCores \in Nat \ {0} /\ Core = 0..(NumCores - 1)
  BY SizeAssumption DEF Core
<1>2. InOrder(Assigned) \in Seq(Assigned)
  BY <1>1, LanesInOrder
<1>3. CASE StartLane
  <2>1. Head(todo) \in Assigned /\ Head(todo) \in Invocation /\ Tail(todo) \in Seq(Assigned)
    BY <1>0, <1>3, LaneInvocation DEF StartLane, LogCoord
  <2>2. completed' = {} /\ CurrentInvocation' \in Invocation
    BY <1>0, <1>3, <2>1, SwtchStep DEF StartLane, ControlRight, LogCoord, Swtch
  <2>3. CurrentPC' \in Kind \cup {Null}
    BY <2>2, CurrentKind DEF InvocTypes, CurrentPC, Current
  <2>4. PC' \in [Core -> Kind \cup {Null}]
    BY <1>0, <1>3, <2>1, <2>3, AssignedLanes DEF StartLane, ControlTypes
  <2> QED  BY <1>0, <1>3, <2>1, <2>2, <2>4
           DEF StartLane, ControlTypes, ControlRight, PromptRight
<1>4. CASE Started \/ TickDone \/ StepDone \/ Stop
  BY <1>0, <1>1, <1>2, <1>4
  DEF Started, TickDone, StepDone, Stop, ControlTypes, ControlRight, PromptRight, coreVars
<1>5. CASE RunFront
  <2>1. CASE Microtasks[core] = <<>>
    BY <1>0, <1>1, <1>5, <2>1 DEF RunFront, ControlTypes, ControlRight, PromptRight, coreVars
  <2>2. CASE Microtasks[core] # <<>>
    <3>1. core \in Core
      BY <1>0, <1>1, <1>5 DEF RunFront, ControlTypes
    <3>2. Microtasks[core] \in Seq([kind : {"local", "mem"}, lanes : Seq(LanesOf(core))])
      BY <1>0, <3>1 DEF TasksRight, OncePerLane
    <3>3. Head(Microtasks[core]).lanes \in Seq(LanesOf(core)) /\ LanesOf(core) \subseteq Assigned
      <4>1. Head(Microtasks[core]) \in [kind : {"local", "mem"}, lanes : Seq(LanesOf(core))]
        BY <2>2, <3>2, HeadTailProperties
      <4> QED  BY <4>1 DEF LanesOf
    <3>4. Head(Microtasks[core]).lanes \in Seq(Assigned)
      BY <3>3, SeqMonotonic
    <3> QED  BY <1>0, <1>5, <2>2, <3>1, <3>4
             DEF RunFront, ControlTypes, ControlRight, PromptRight, coreVars
  <2> QED  BY <2>1, <2>2
<1>6. CASE SkipLane
  BY <1>0, <1>6, LaneInvocation
  DEF SkipLane, ControlTypes, ControlRight, PromptRight, coreVars
<1>7. CASE EnterLane
  <2>1. Head(todo) \in Invocation /\ Tail(todo) \in Seq(Assigned)
    BY <1>0, <1>7, LaneInvocation DEF EnterLane, LogCoord
  <2>2. CurrentInvocation' \in {Head(todo), Null} /\ completed' = completed
    BY <1>0, <1>7, <2>1, SwtchStep DEF EnterLane, LogCoord, Swtch
  <2> QED  BY <1>0, <1>7, <2>1, <2>2
           DEF EnterLane, InMask, ControlTypes, ControlRight, PromptRight, coreVars
<1>8. CASE EndMicrotask
  <2>1. core \in Core /\ core + 1 \in 0..NumCores
    BY <1>0, <1>1, <1>8 DEF EndMicrotask, ControlRight
  <2>2. CurrentInvocation # Null => CurrentPC \in Kind \cup {Null}
    BY <1>0, CurrentKind DEF InvocTypes, GroupTypes, CurrentPC, Current
  <2>3. PC' \in [Core -> Kind \cup {Null}]
    BY <1>0, <1>8, <2>1, <2>2 DEF EndMicrotask, ControlTypes
  <2> QED  BY <1>0, <1>8, <2>1, <2>3
           DEF EndMicrotask, ControlTypes, ControlRight, PromptRight
<1>9. ASSUME pc = "work", LeaveLane, UNCHANGED <<Microtasks, Lanes, call, mask, core>>
      PROVE  Right
  <2>1. core \in Core /\ Microtasks[core] # <<>> /\ todo # <<>>
    BY <1>0, <1>9 DEF ControlRight
  <2>2. /\ PC' \in [Core -> Kind \cup {Null}] /\ pc' \in {"lane", "crashed"}
        /\ todo' = Tail(todo)
    BY <1>0, <1>9, <2>1, LeaveStep DEF GroupTypes
  <2> QED  BY <1>0, <1>9, <2>1, <2>2, LaneInvocation
           DEF ControlTypes, ControlRight, PromptRight
<1>10. ASSUME pc = "work", pc' \in {"work", "aborted"},
              CurrentInvocation' \in {CurrentInvocation, Null},
              UNCHANGED <<coreVars, call, mask, core, todo>>
       PROVE  Right
  BY <1>0, <1>10 DEF ControlTypes, ControlRight, PromptRight, coreVars
<1>11. CASE StepInvocation \/ PickInvocation
  BY <1>9, <1>11 DEF StepInvocation, PickInvocation, Working
<1>12. CASE NextGroup
  BY <1>9, <1>10, <1>12 DEF NextGroup, Working, coreVars
<1>13. CASE ClearBarrier \/ BarrierAbort \/ CompleteGroup
  BY <1>10, <1>13 DEF ClearBarrier, BarrierAbort, CompleteGroup, Stuck, Working
<1>14. CASE CollectLane
  <2>1. Tail(todo) \in Seq(Assigned) /\ Head(todo) \in Lane
    BY <1>0, <1>14, LaneInvocation, AssignedLanes DEF CollectLane
  <2>2. Lanes' \in [Lane -> LaneState]
    <3>1. CASE InMask(Head(todo))
      BY <1>0, <1>14, <2>1, <3>1 DEF CollectLane, ControlTypes, LaneState
    <3>2. CASE ~InMask(Head(todo))
      BY <1>0, <1>14, <2>1, <3>2 DEF CollectLane, ControlTypes, LaneState
    <3> QED  BY <3>1, <3>2
  <2> QED  BY <1>0, <1>14, <2>1, <2>2
           DEF CollectLane, ControlTypes, ControlRight, PromptRight
<1> HIDE DEF Right
<1>15. Right
  BY <1>3, <1>4, <1>5, <1>6, <1>7, <1>8, <1>11, <1>12, <1>13, <1>14 DEF Advance, Worker, Right
<1> QED  BY <1>15 DEF Right

(* ... and so does every step of its callers.                                *)
LEMMA ControlStep ==
  ASSUME ExecInv, [DebugNext]_allVars, GroupTypes', InvocTypes'
  PROVE  ControlTypes' /\ ControlRight' /\ PromptRight'
<1> DEFINE Right == ControlTypes' /\ ControlRight' /\ PromptRight'
<1>0. /\ ControlTypes /\ ControlRight /\ PromptRight /\ GroupTypes /\ InvocTypes /\ TasksRight
  BY DEF ExecInv
<1>1. CASE RunOn
  BY <1>1, AdvanceControl DEF RunOn, debugVars
<1>2. ASSUME NEW m \in SUBSET Lane, NEW entry \in {"step", "tick"}, Call(m, entry),
             prompt \in {"none", "closed"}, prompt' \in {"none", prompt}, front' = front,
             front = "session" => prompt' = prompt
      PROVE  Right
  <2>1. pc = "idle" /\ pc' \in {"tick", "finished"} /\ mask' \subseteq Lane /\ core' = 0
        /\ call' = entry /\ UNCHANGED <<PC, Lanes, todo>>
    BY <1>2 DEF Call
  <2>2. 0 \in 0..NumCores
    BY SizeAssumption
  <2> QED  BY <1>0, <1>2, <2>1, <2>2 DEF ControlTypes, ControlRight, PromptRight
<1>3. CASE NextStep
  BY <1>2, <1>3 DEF NextStep
<1>4. CASE SessionCall
  BY <1>0, <1>2, <1>4, CallAssumption DEF SessionCall, debugVars, PromptRight
<1>5. CASE Interact
  BY <1>0, <1>5 DEF Interact, ControlTypes, ControlRight, PromptRight, vars, coreVars, groupVars
<1>6. CASE ReportError
  <2>1. /\ pc = "work" /\ prompt = "none" /\ CurrentInvocation # Null
        /\ Ready(CurrentInvocation) /\ Current(CurrentInvocation) = "mem"
        /\ prompt' = "error" /\ stepping' = CurrentInvocation /\ UNCHANGED vars
        /\ front = "interactive" /\ front' = front
    BY <1>6 DEF ReportError, Working, NoReady
  <2>2. CurrentInvocation = Head(todo)
    BY <1>0, <2>1 DEF PromptRight
  <2> QED  BY <1>0, <2>1, <2>2
           DEF ControlTypes, ControlRight, PromptRight, Ready, Current, vars, coreVars, groupVars,
               invocVars
<1>7. CASE Cont \/ StepCommand
  <2>1. CASE prompt = "open"
    BY <1>0, <1>7, <2>1
    DEF Cont, StepCommand, Leave, Prompted, ControlTypes, ControlRight, PromptRight, vars,
        coreVars, groupVars
  <2>2. CASE prompt # "open"
    <3>1. prompt = "error" /\ pc = "work" /\ prompt' = "none" /\ front' = front
      BY <1>0, <1>7, <2>2 DEF Cont, StepCommand, Leave, Prompted, PromptRight
    <3>2. core \in Core /\ Microtasks[core] # <<>> /\ todo # <<>>
      BY <1>0, <3>1 DEF ControlRight
    <3>3. LeaveLane /\ UNCHANGED <<groupVars, Microtasks, Lanes, call, mask, core>>
      BY <1>7, <2>2 DEF Cont, StepCommand, Leave
    <3>4. /\ PC' \in [Core -> Kind \cup {Null}] /\ pc' \in {"lane", "crashed"}
          /\ todo' = Tail(todo)
      BY <1>0, <3>2, <3>3, LeaveStep DEF GroupTypes
    <3> QED  BY <1>0, <3>1, <3>2, <3>3, <3>4, LaneInvocation
             DEF ControlTypes, ControlRight, PromptRight
  <2> QED  BY <2>1, <2>2
<1>8. ASSUME NEW id \in Invocation, SwtchCommand(id) PROVE Right
  <2>1. pc \in {"idle", "work"} /\ (prompt = "error" <=> pc = "work")
    BY <1>0, <1>8, NotStopped DEF SwtchCommand
  <2>2. UNCHANGED <<invocVars, coreVars, pc, call, mask, core, todo, prompt, stepping, front>>
    BY <1>8 DEF SwtchCommand
  <2> QED  BY <1>0, <2>1, <2>2
           DEF ControlTypes, ControlRight, PromptRight, Ready, Current, coreVars, invocVars
<1>9. CASE UseOfNull
  BY <1>0, <1>9 DEF UseOfNull, ControlTypes, ControlRight, PromptRight, coreVars, debugVars
<1>10. CASE Quit
  BY <1>0, <1>10
     DEF Quit, Prompted, ControlTypes, ControlRight, PromptRight, vars, coreVars, groupVars
<1>11. ASSUME UNCHANGED <<vars, prompt, stepping, front>> PROVE Right
  BY <1>0, <1>11
  DEF ControlTypes, ControlRight, PromptRight, Ready, Current, vars, coreVars, groupVars, invocVars
<1>12. CASE \/ DebugEnded \/ UNCHANGED allVars
            \/ \E id \in ResultIds : Brk(id)
            \/ \E ns \in {DOMAIN Breakpoints} \cup {{n} : n \in DOMAIN Breakpoints} : Delete(ns)
  BY <1>11, <1>12 DEF DebugEnded, Brk, Delete, allVars, debugVars
<1> HIDE DEF Right
<1>13. Right
  BY <1>1, <1>3, <1>4, <1>5, <1>6, <1>7, <1>8, <1>9, <1>10, <1>12 DEF Right, DebugNext, User
<1> QED  BY <1>13 DEF Right

(* The dispatch starts right.                                                *)
LEMMA InitExec == DebugInit => ExecInv
<1> SUFFICES ASSUME DebugInit PROVE ExecInv
  OBVIOUS
<1> USE DEF DebugInit, Init
<1>1. InvocTypes
  BY DEF InvocTypes
<1>2. /\ PendingGroups \in Seq(Group) /\ Len(PendingGroups) = NumGroups
      /\ \A i \in 1..NumGroups : PendingGroups[i] = i - 1
  BY SizeAssumption DEF Group
<1>3. GroupTypes
  BY <1>2, EmptySeq DEF GroupTypes
<1>4. 0 \in Core /\ 0 \in 0..NumCores /\ InOrder(Assigned) \in Seq(Assigned)
  <2>1. 0 \in Core /\ 0 \in 0..NumCores
    BY SizeAssumption DEF Core
  <2> QED  BY <2>1, LanesInOrder
<1>5. ControlTypes
  BY <1>4 DEF ControlTypes, LaneState
<1>6. TasksRight
  <2>1. \A c \in Core : Microtasks[c] = <<>>
    OBVIOUS
  <2>2. \A c \in Core : OncePerLane(c, <<>>)
    BY EmptySeq DEF OncePerLane
  <2> QED  BY <2>1, <2>2 DEF TasksRight
<1>7. OnePlace
  <2>0. /\ NextWorkIndex = 0 /\ RunningGroups = <<>> /\ Len(RunningGroups) = 0
        /\ CurrentGroup = Null /\ completed = {}
    OBVIOUS
  <2> HIDE DEF DebugInit, Init
  <2>1. Fresh = Group /\ Asleep = {}
    <3>1. \A g \in Group : g + 1 \in 1..NumGroups /\ (g + 1) - 1 = g
      BY SizeAssumption DEF Group
    <3>2. Group \subseteq Fresh
      BY <1>2, <2>0, <3>1 DEF Fresh
    <3>3. Fresh \subseteq Group
      BY <1>2, <2>0, SizeAssumption DEF Fresh, Group
    <3>4. Asleep = {}
      BY <2>0 DEF Asleep
    <3> QED  BY <3>2, <3>3, <3>4
  <2>2. Distinct(PendingGroups) /\ Distinct(RunningGroups)
    BY <1>2, <2>0 DEF Distinct
  <2>3. Null \notin Group
    BY CallAssumption DEF Group
  <2> QED  BY <1>2, <2>0, <2>1, <2>2, <2>3, SizeAssumption DEF OnePlace
<1>8. ControlRight /\ PromptRight
  BY DEF ControlRight, PromptRight
<1>9. ProgressRight
  BY ProgramAssumption DEF ProgressRight
<1>10. SamePassed
  <2>1. \A i \in Invocation : Passed(i) = Cardinality({}) - 0
    BY DEF Passed, Reached
  <2> QED  BY <2>1 DEF SamePassed
<1> QED  BY <1>1, <1>3, <1>5, <1>6, <1>7, <1>8, <1>9, <1>10 DEF ExecInv

(* The invariant holds of the executor under every caller.                   *)
THEOREM ExecInvHolds == DebugSpec => []ExecInv
<1>1. ExecInv /\ [DebugNext]_allVars => ExecInv'
  <2> SUFFICES ASSUME ExecInv, [DebugNext]_allVars PROVE ExecInv'
    OBVIOUS
  <2>1. GroupTypes' /\ (pc' # "stopped" => OnePlace')
    BY GroupStep
  <2>2. InvocTypes' /\ ProgressRight' /\ SamePassed'
    BY InvocStep
  <2>3. TasksRight'
    BY TaskStep
  <2>4. ControlTypes' /\ ControlRight' /\ PromptRight'
    BY <2>1, <2>2, ControlStep
  <2> QED  BY <2>1, <2>2, <2>3, <2>4 DEF ExecInv
<1> QED  BY InitExec, <1>1, PTL DEF DebugSpec

-------------------------------------------------------------------------------
(* The index set that counts an element of a list without repetitions.       *)
LEMMA CountOnce ==
  ASSUME NEW s, Distinct(s), NEW a \in 1..(Len(s) + 1), Len(s) \in Nat, NEW x
  PROVE  Cardinality({i \in a..Len(s) : s[i] = x}) =
           IF x \in {s[i] : i \in a..Len(s)} THEN 1 ELSE 0
<1>1. CASE x \in {s[i] : i \in a..Len(s)}
  <2>1. PICK k \in a..Len(s) : s[k] = x
    BY <1>1
  <2>2. {i \in a..Len(s) : s[i] = x} = {k}
    BY <2>1 DEF Distinct
  <2> QED  BY <1>1, <2>2, FS_Singleton
<1>2. CASE x \notin {s[i] : i \in a..Len(s)}
  <2>1. {i \in a..Len(s) : s[i] = x} = {}
    BY <1>2
  <2> QED  BY <1>2, <2>1, FS_EmptySet
<1> QED  BY <1>1, <1>2

(* The executor's variables keep their types.                                *)
LEMMA ExecTypes == ExecInv => TypeOK
<1> SUFFICES ASSUME ExecInv PROVE TypeOK
  OBVIOUS
<1>1. InvocTypes /\ GroupTypes /\ ControlTypes /\ TasksRight
  BY DEF ExecInv
<1>2. todo \in Seq(Lane)
  BY <1>1, AssignedLanes, SeqMonotonic DEF ControlTypes
<1>3. Microtasks \in [Core -> Seq(Microtask)]
  <2> SUFFICES ASSUME NEW c \in Core PROVE Microtasks[c] \in Seq(Microtask)
    BY <1>1 DEF TasksRight
  <2>1. Microtasks[c] \in Seq([kind : {"local", "mem"}, lanes : Seq(LanesOf(c))])
    BY <1>1 DEF TasksRight, OncePerLane
  <2>2. LanesOf(c) \subseteq Lane
    BY AssignedLanes DEF LanesOf
  <2>3. Seq(LanesOf(c)) \subseteq Seq(Lane)
    BY <2>2, SeqMonotonic
  <2>4. [kind : {"local", "mem"}, lanes : Seq(LanesOf(c))] \subseteq Microtask
    BY <2>3 DEF Microtask
  <2> QED  BY <2>1, <2>4, SeqMonotonic
<1> QED  BY <1>1, <1>2, <1>3 DEF InvocTypes, GroupTypes, ControlTypes, TypeOK

(* No group is lost or created twice by doSwtch and stepComputeWorker, and a *)
(* group is reported complete only when its invocations are.                 *)
THEOREM GroupsConserved == DebugSpec => []GroupConservation
<1>1. ExecInv => GroupConservation
  <2> SUFFICES ASSUME ExecInv PROVE GroupConservation
    OBVIOUS
  <2>1. TypeOK
    BY ExecTypes
  <2>2. ASSUME pc # "stopped", NEW g \in Group PROVE Places(g) = 1
    <3>1. OnePlace /\ GroupTypes
      BY <2>2 DEF ExecInv
    <3>2. /\ PendingGroups \in Seq(Group) /\ RunningGroups \in Seq(Group)
          /\ NextWorkIndex \in Nat /\ NextWorkIndex <= Len(PendingGroups)
      BY <3>1 DEF GroupTypes, OnePlace
    <3>3. /\ Len(PendingGroups) \in Nat /\ Len(RunningGroups) \in Nat
          /\ DOMAIN RunningGroups = 1..Len(RunningGroups)
          /\ NextWorkIndex + 1 \in 1..(Len(PendingGroups) + 1) /\ 1 \in 1..(Len(RunningGroups) + 1)
      BY <3>2
    <3>4. Cardinality({i \in (NextWorkIndex + 1)..Len(PendingGroups) : PendingGroups[i] = g})
            = IF g \in Fresh THEN 1 ELSE 0
      BY <3>1, <3>3, CountOnce DEF Fresh, OnePlace
    <3>5. Cardinality({i \in DOMAIN RunningGroups : RunningGroups[i] = g})
            = IF g \in Asleep THEN 1 ELSE 0
      <4>1. Cardinality({i \in 1..Len(RunningGroups) : RunningGroups[i] = g})
              = IF g \in {RunningGroups[i] : i \in 1..Len(RunningGroups)} THEN 1 ELSE 0
        BY <3>1, <3>3, CountOnce DEF OnePlace
      <4> QED  BY <3>3, <4>1 DEF Asleep
    <3>6. Places(g) = (IF g \in Fresh THEN 1 ELSE 0) + (IF g \in Asleep THEN 1 ELSE 0)
                      + (IF CurrentGroup = g THEN 1 ELSE 0) + (IF g \in completed THEN 1 ELSE 0)
      BY <3>4, <3>5 DEF Places
    <3>7. g \in Fresh \/ g \in Asleep \/ g \in completed \/ g = CurrentGroup
      BY <3>1 DEF OnePlace
    <3>8. CASE g \in Fresh
      BY <3>1, <3>6, <3>8 DEF OnePlace
    <3>9. CASE g \in Asleep
      BY <3>1, <3>6, <3>9 DEF OnePlace
    <3>10. CASE g \in completed
      BY <3>1, <3>6, <3>10 DEF OnePlace
    <3>11. CASE g = CurrentGroup
      BY <3>1, <3>6, <3>11 DEF OnePlace
    <3> QED  BY <3>7, <3>8, <3>9, <3>10, <3>11
  <2> QED  BY <2>1, <2>2 DEF GroupConservation, ExecInv, ProgressRight
<1> QED  BY <1>1, ExecInvHolds, PTL

(* The microtasks queued for a core visit each of its lanes at most once.    *)
THEOREM LanesOnce == DebugSpec => []LaneOnce
<1>1. ExecInv => LaneOnce
  <2> SUFFICES ASSUME ExecInv, NEW c \in Core,
                      NEW t \in DOMAIN Microtasks[c], NEW u \in DOMAIN Microtasks[c],
                      NEW i \in DOMAIN Microtasks[c][t].lanes,
                      NEW j \in DOMAIN Microtasks[c][u].lanes
               PROVE  /\ Microtasks[c][t].lanes[i] \in LanesOf(c)
                      /\ Microtasks[c][t].lanes[i] = Microtasks[c][u].lanes[j] =>
                           <<t, i>> = <<u, j>>
    BY DEF LaneOnce
  <2> DEFINE s == Microtasks[c]
  <2>1. OncePerLane(c, s)
    BY DEF ExecInv, TasksRight
  <2>2. s \in Seq([kind : {"local", "mem"}, lanes : Seq(LanesOf(c))])
    BY <2>1 DEF OncePerLane
  <2> HIDE DEF s
  <2>3. t \in 1..Len(s) /\ u \in 1..Len(s)
    BY <2>2 DEF s
  <2>4. s[t].lanes \in Seq(LanesOf(c)) /\ s[u].lanes \in Seq(LanesOf(c))
    <3>1. s[t] \in [kind : {"local", "mem"}, lanes : Seq(LanesOf(c))]
      BY <2>2, <2>3, ElementOfSeq
    <3>2. s[u] \in [kind : {"local", "mem"}, lanes : Seq(LanesOf(c))]
      BY <2>2, <2>3, ElementOfSeq
    <3> QED  BY <3>1, <3>2
  <2>5. i \in 1..Len(s[t].lanes) /\ j \in 1..Len(s[u].lanes)
    BY <2>4 DEF s
  <2>6. s[t].lanes[i] \in LanesOf(c)
    BY <2>4, <2>5, ElementOfSeq
  <2>7. s[t].lanes[i] = s[u].lanes[j] => t = u /\ i = j
    <3>1. \A v, w \in 1..Len(s) :
            \A k \in 1..Len(s[v].lanes), l \in 1..Len(s[w].lanes) :
              s[v].lanes[k] = s[w].lanes[l] => v = w /\ k = l
      BY <2>1 DEF OncePerLane
    <3> QED  BY <2>3, <2>5, <3>1
  <2> QED  BY <2>6, <2>7 DEF s
<1> QED  BY <1>1, ExecInvHolds, PTL

(* No invocation passes a workgroup barrier that another one of its group    *)
(* has not reached.                                                          *)
THEOREM BarriersHold == DebugSpec => []BarrierTogether
<1>1. ExecInv => BarrierTogether
  <2> SUFFICES ASSUME ExecInv, NEW i \in Invocation, NEW j \in Invocation,
                      GroupOf(i) = GroupOf(j)
               PROVE  Passed(i) <= Reached(j)
    BY DEF BarrierTogether
  <2>1. Passed(i) = Passed(j)
    BY DEF ExecInv, SamePassed
  <2>2. Reached(j) = Cardinality(Barriers(program[j], executed[j])) /\ executed[j] \in Nat
    BY DEF Reached, Barriers, ExecInv, InvocTypes
  <2>3. Reached(j) \in Nat
    BY <2>2, BarrierCount
  <2>4. Passed(j) = Reached(j) - (IF atBarrier[j] THEN 1 ELSE 0)
    BY DEF Passed
  <2>5. Passed(j) <= Reached(j)
    <3>1. CASE atBarrier[j]
      BY <2>3, <2>4, <3>1
    <3>2. CASE ~atBarrier[j]
      BY <2>3, <2>4, <3>2
    <3> QED  BY <3>1, <3>2
  <2> QED  BY <2>1, <2>5
<1> QED  BY <1>1, ExecInvHolds, PTL

(* What MaskRespected says of one step.                                      *)
Masked ==
  \A i \in Invocation : executed'[i] # executed[i] =>
    /\ executed'[i] = executed[i] + 1
    /\ Head(todo) \in mask /\ LogCoord(Head(todo)) = i

(* Every step executes an instruction of the lane its microtask is at, if of *)
(* any.                                                                      *)
LEMMA MaskStep ==
  ASSUME ExecInv, [DebugNext]_allVars PROVE Masked
<1>0. executed \in [Invocation -> Nat]
  BY DEF ExecInv, InvocTypes
<1>1. ASSUME UNCHANGED executed PROVE Masked
  BY <1>1 DEF Masked
<1>2. ASSUME NEW i, i = Head(todo), pc = "work",
             executed' = [executed EXCEPT ![i] = @ + 1]
      PROVE  Masked
  BY <1>0, <1>2 DEF ExecInv, ControlRight, LogCoord, Masked
<1>3. ASSUME RunOn, StepInvocation PROVE Masked
  <2>1. /\ pc = "work" /\ CurrentInvocation = Head(todo)
        /\ executed' = [executed EXCEPT ![CurrentInvocation] = @ + 1]
    BY <1>3 DEF RunOn, StepInvocation, Working, NoReady, ExecInv, PromptRight
  <2> QED  BY <1>2, <2>1
<1>4. CASE Cont \/ StepCommand
  <2>1. CASE prompt = "open"
    BY <1>1, <1>4, <2>1 DEF Cont, StepCommand, Leave, vars, invocVars
  <2>2. CASE prompt # "open"
    <3>1. /\ pc = "work" /\ stepping = Head(todo)
          /\ executed' = [executed EXCEPT ![stepping] = @ + 1]
      BY <1>4, <2>2 DEF Cont, StepCommand, Leave, Prompted, ExecInv, PromptRight
    <3> QED  BY <1>2, <3>1
  <2> QED  BY <2>1, <2>2
<1>5. CASE \/ StartLane \/ Started \/ RunFront \/ TickDone \/ SkipLane \/ EnterLane
           \/ EndMicrotask \/ NextGroup \/ PickInvocation \/ ClearBarrier \/ BarrierAbort
           \/ CompleteGroup \/ CollectLane \/ StepDone \/ Stop
  BY <1>1, <1>5 DEF StartLane, Started, RunFront, TickDone, SkipLane, EnterLane, EndMicrotask,
                    NextGroup, PickInvocation, ClearBarrier, BarrierAbort, CompleteGroup,
                    CollectLane, StepDone, Stop, invocVars
<1>6. ASSUME NEW m, NEW entry, Call(m, entry) PROVE Masked
  BY <1>1, <1>6 DEF Call, invocVars
<1>7. CASE \/ Interact \/ ReportError \/ Quit \/ DebugEnded \/ UseOfNull
           \/ \E id \in ResultIds : Brk(id)
           \/ \E ns \in {DOMAIN Breakpoints} \cup {{n} : n \in DOMAIN Breakpoints} : Delete(ns)
           \/ \E id \in Invocation : SwtchCommand(id)
           \/ UNCHANGED allVars
  BY <1>1, <1>7 DEF Interact, ReportError, Quit, DebugEnded, UseOfNull, Brk, Delete,
                    SwtchCommand, allVars, vars, invocVars
<1> QED  BY <1>3, <1>4, <1>5, <1>6, <1>7
         DEF DebugNext, RunOn, NextStep, SessionCall, User, Advance, Worker

(* An instruction is executed only for the invocation of a lane in the mask  *)
(* that the caller of step has given.                                        *)
THEOREM MasksRespected == DebugSpec => MaskRespected
<1>1. ExecInv /\ [DebugNext]_allVars => [Masked]_vars
  BY MaskStep
<1>2. DebugSpec => [][Masked]_vars
  BY <1>1, ExecInvHolds, PTL DEF DebugSpec
<1> QED  BY <1>2 DEF Masked, MaskRespected
-------------------------------------------------------------------------------
(* A uniform dispatch: one invocation in a workgroup, all of them with the   *)
(* same instructions, stepped by the interactive debugger.                   *)
Uniform ==
  /\ GroupSize = 1 /\ Fronts = {"interactive"}
  /\ \A p \in Programs : \A i, j \in Invocation : p[i] = p[j]

\* The lanes a round of microtasks has still to step: those of the microtasks that
\* wait, and of the one that runs, but for a lane that has just passed its barrier.
InTask  == pc \in {"lane", "work"}
Passing == pc = "work" /\ CurrentInvocation = Null
Visits(c, t, i) == \E k \in 1..Len(Microtasks[c][t].lanes) : Microtasks[c][t].lanes[k] = i
Waits(i) ==
  \E t \in 1..Len(Microtasks[CoreOf(i)]) :
    (InTask /\ core = CoreOf(i) => t # 1) /\ Visits(CoreOf(i), t, i)
ListedIn(s, i) == \E k \in 1..Len(s) : s[k] = i
Left ==
  {i \in Invocation :
     Waits(i) \/ (InTask /\ ListedIn(todo, i) /\ ~(Passing /\ i = Head(todo)))}

AllExecuted == \A i \in Invocation : executed[i] = Len(program[i])

(* The invocations still to be stepped are at one place, those stepped are   *)
(* at one place too, and the second is one step ahead of the first.          *)
SameState(i, j) == executed[i] = executed[j] /\ atBarrier[i] = atBarrier[j]
OneAhead(i, j) ==
  /\ executed[j] = IF atBarrier[i] THEN executed[i] ELSE executed[i] + 1
  /\ atBarrier[j] = (~atBarrier[i] /\ Current(i) = "barrier")
Together ==
  /\ \A i, j \in Invocation : (i \in Left <=> j \in Left) => SameState(i, j)
  /\ \A i \in Left : executed[i] < Len(program[i])
  /\ \A i \in Left, j \in Invocation \ Left : OneAhead(i, j)

(* The PC of a core is that of its lanes before the first of them is stepped *)
(* and after the last of them is.  A user who has switched at the prompt of  *)
(* an error can have made it the PC of another one, which has not ended.     *)
CoreIs(i) ==
  IF meddled THEN PC[CoreOf(i)] # Null \/ executed[i] = Len(program[i])
             ELSE PC[CoreOf(i)] = Current(i)
Settled(c) ==
  /\ pc # "start"
  /\ \/ Microtasks[c] = <<>>
     \/ /\ pc = "lane" /\ core = c /\ todo = <<>>
        /\ Len(Microtasks[c]) = 1 /\ Microtasks[c][1].kind = "mem"
CoresRight ==
  /\ \A i \in Invocation : Settled(CoreOf(i)) \/ i \in Left => CoreIs(i)
  /\ \A c \in Core : LanesOf(c) = {} => PC[c] = Null
  /\ pc = "start" => \A i \in Invocation : CoreIs(i) \/ ListedIn(todo, i)

(* The microtasks of a core are one for each lane, or one for all of them.   *)
ShapeOf(s) ==
  \A t \in 1..Len(s) :
    /\ s[t].lanes # <<>>
    /\ s[t].kind = "mem" => Len(s[t].lanes) = 1
    /\ s[t].kind = "local" => Len(s) = 1
TaskShape == \A c \in Core : ShapeOf(Microtasks[c])
TodoRight ==
  InTask => Distinct(todo) /\ \A i \in Invocation : ListedIn(todo, i) => Visits(core, 1, i)

(* Which invocation and group are current.                                   *)
CurrentRight ==
  /\ completed = {}
  /\ CurrentInvocation # Null => CurrentGroup = CurrentInvocation
  /\ CurrentInvocation = Null => pc = "work" \/ (pc = "start" /\ todo # <<>>)
  /\ Passing => CurrentGroup = Head(todo) /\ Ready(CurrentGroup) /\ prompt # "error"
  /\ pc = "work" /\ prompt = "error" /\ ~meddled => CurrentInvocation = Head(todo)
  /\ pc = "lane" /\ todo = <<>> /\ ~meddled => CurrentInvocation \notin Left
PhaseRight ==
  /\ front = "interactive" /\ pc \notin {"aborted", "crashed"}
  /\ pc \in {"tick", "lane", "work", "collect"} => mask = Lane /\ call = "step"
  /\ pc = "start" => \A c \in Core : Microtasks[c] = <<>>
  /\ pc \in {"start", "idle", "finished", "stopped"} => Left = {} \/ Left = Invocation
  /\ pc = "collect" => Left = Invocation
  /\ pc \in {"finished", "stopped"} => AllExecuted

(* The inductive invariant of a uniform dispatch.                            *)
InRound ==
  Together /\ CoresRight /\ TaskShape /\ TodoRight /\ CurrentRight /\ PhaseRight
LockInv == (meddled /\ AllExecuted) \/ InRound

(* With one invocation in a group, groups, lanes in use and invocations are  *)
(* the same numbers.                                                         *)
LEMMA OneItem ==
  ASSUME Uniform
  PROVE  /\ Invocation = Assigned /\ Group = Invocation /\ Invocation \subseteq Nat
         /\ \A i \in Invocation :
              /\ GroupOf(i) = i /\ WorkItems(i) = {i}
              /\ i \in Lane /\ CoreOf(i) \in Core /\ i \in LanesOf(CoreOf(i))
         /\ 0 \in Invocation /\ Null \notin Invocation
<1>1. GroupSize = 1 /\ NumGroups * 1 = NumGroups /\ NumGroups \in Nat \ {0}
  BY SizeAssumption DEF Uniform
<1>2. Invocation = Assigned /\ Group = Invocation /\ Invocation \subseteq Nat /\ 0 \in Invocation
  BY <1>1 DEF Invocation, Assigned, Group
<1>3. ASSUME NEW i \in Invocation PROVE GroupOf(i) = i /\ WorkItems(i) = {i}
  <2>1. WorkItems(i) = {i}
    BY <1>1, <1>2 DEF WorkItems
  <2>2. GroupOf(i) = i
    BY <1>1, <1>2, QuotientUnique DEF GroupOf
  <2> QED  BY <2>1, <2>2
<1>4. Null \notin Invocation
  BY CallAssumption DEF Invocation
<1> QED  BY <1>2, <1>3, <1>4, AssignedLanes

(* Two invocations execute the same instructions.                            *)
LEMMA SameProgram ==
  ASSUME Uniform, InvocTypes, NEW i \in Invocation, NEW j \in Invocation
  PROVE  /\ program[i] = program[j] /\ Len(program[i]) \in Nat
         /\ executed[i] \in Nat /\ atBarrier[i] \in BOOLEAN
<1>1. program \in Programs /\ executed[i] \in Nat /\ atBarrier[i] \in BOOLEAN
  BY DEF InvocTypes
<1>2. program[i] = program[j]
  BY <1>1 DEF Uniform
<1>3. program[i] \in Seq(Kind)
  BY <1>1, ProgramAssumption
<1>4. Len(program[i]) \in Nat
  BY <1>3, LenProperties
<1> QED  BY <1>1, <1>2, <1>4

(* An invocation is at no instruction only when it has ended.                *)
LEMMA CurrentNull ==
  ASSUME Uniform, InvocTypes, ProgressRight, NEW i \in Invocation
  PROVE  Current(i) = Null <=> executed[i] = Len(program[i])
<1>1. /\ program[i] \in Seq(Kind) /\ executed[i] \in Nat /\ executed[i] <= Len(program[i])
  BY ProgramAssumption DEF InvocTypes, ProgressRight
<1>2. CASE executed[i] < Len(program[i])
  <2>1. executed[i] + 1 \in 1..Len(program[i])
    BY <1>1, <1>2
  <2>2. Current(i) \in Kind
    BY <1>1, <1>2, <2>1, ElementOfSeq DEF Current
  <2> QED  BY <1>1, <1>2, <2>2, CallAssumption
<1>3. CASE ~(executed[i] < Len(program[i]))
  BY <1>1, <1>3 DEF Current
<1> QED  BY <1>2, <1>3

(* Until a group has completed, doSwtch finds every invocation.              *)
LEMMA SwtchFinds ==
  ASSUME Uniform, GroupTypes, OnePlace, completed = {}, NEW id \in Invocation, Swtch(id)
  PROVE  CurrentInvocation' = id /\ CurrentGroup' = id /\ completed' = {}
<1>1. CurrentInvocation' = id
  BY SwtchStep
<1>2. GroupOf(id) = id /\ id # Null
  BY OneItem
<1> QED  BY <1>1, <1>2 DEF Swtch

(* The elements of a list without its first.                                 *)
LEMMA TailKeeps ==
  ASSUME NEW S, NEW s \in Seq(S), s # <<>>, NEW i, ListedIn(s, i), i # Head(s)
  PROVE  ListedIn(Tail(s), i)
<1>1. /\ Tail(s) \in Seq(S) /\ Len(Tail(s)) = Len(s) - 1 /\ Len(s) \in Nat \ {0}
      /\ \A k \in 1..Len(Tail(s)) : Tail(s)[k] = s[k + 1]
      /\ Head(s) = s[1]
  BY HeadTailProperties
<1>2. PICK k \in 1..Len(s) : s[k] = i
  BY DEF ListedIn
<1>3. k # 1
  BY <1>1, <1>2
<1>4. k - 1 \in 1..Len(Tail(s)) /\ (k - 1) + 1 = k
  BY <1>1, <1>3
<1>5. Tail(s)[k - 1] = i
  BY <1>1, <1>2, <1>4
<1> QED  BY <1>4, <1>5 DEF ListedIn

(* They are all but the first, if the list has no repetitions.               *)
LEMMA TailListed ==
  ASSUME NEW S, NEW s \in Seq(S), s # <<>>, Distinct(s), NEW i
  PROVE  /\ Distinct(Tail(s)) /\ ListedIn(s, Head(s))
         /\ ListedIn(Tail(s), i) <=> ListedIn(s, i) /\ i # Head(s)
<1>1. /\ Tail(s) \in Seq(S) /\ Len(Tail(s)) = Len(s) - 1 /\ Len(s) \in Nat \ {0}
      /\ \A k \in 1..Len(Tail(s)) : Tail(s)[k] = s[k + 1]
      /\ Head(s) = s[1]
  BY HeadTailProperties
<1>2. \A k \in 1..Len(Tail(s)) : k + 1 \in 1..Len(s) /\ k + 1 # 1
  BY <1>1
<1>3. Distinct(Tail(s))
  <2>1. ASSUME NEW j \in 1..Len(Tail(s)), NEW k \in 1..Len(Tail(s)), Tail(s)[j] = Tail(s)[k]
        PROVE  j = k
    <3>1. j + 1 = k + 1
      BY <1>1, <1>2, <2>1 DEF Distinct
    <3> QED  BY <1>1, <3>1
  <2> QED  BY <2>1 DEF Distinct
<1>4. 1 \in 1..Len(s)
  BY <1>1
<1>5. ListedIn(s, Head(s))
  BY <1>1, <1>4 DEF ListedIn
<1>6. ASSUME ListedIn(Tail(s), i) PROVE ListedIn(s, i) /\ i # Head(s)
  <2>1. PICK k \in 1..Len(Tail(s)) : Tail(s)[k] = i
    BY <1>6 DEF ListedIn
  <2> QED  BY <1>1, <1>2, <1>4, <2>1 DEF ListedIn, Distinct
<1> QED  BY <1>3, <1>5, <1>6, TailKeeps

(* A lane is visited by one microtask, of its own core.                      *)
LEMMA VisitedOnce ==
  ASSUME TasksRight, NEW c \in Core, NEW t \in 1..Len(Microtasks[c]),
         NEW u \in 1..Len(Microtasks[c]), NEW i, Visits(c, t, i)
  PROVE  /\ CoreOf(i) = c /\ i \in Assigned
         /\ Visits(c, u, i) => t = u
<1> DEFINE s == Microtasks[c]
<1>1. OncePerLane(c, s)
  BY DEF TasksRight
<1>2. PICK k \in 1..Len(s[t].lanes) : s[t].lanes[k] = i
  BY DEF Visits
<1>3. s \in Seq([kind : {"local", "mem"}, lanes : Seq(LanesOf(c))])
  BY <1>1 DEF OncePerLane
<1> HIDE DEF s
<1>4. s[t] \in [kind : {"local", "mem"}, lanes : Seq(LanesOf(c))]
  BY <1>3, ElementOfSeq DEF s
<1>5. s[t].lanes \in Seq(LanesOf(c))
  BY <1>4
<1>6. i \in LanesOf(c)
  BY <1>2, <1>5, ElementOfSeq
<1>7. ASSUME Visits(c, u, i) PROVE t = u
  <2>1. PICK n \in 1..Len(s[u].lanes) : s[u].lanes[n] = i
    BY <1>7 DEF Visits, s
  <2> QED  BY <1>1, <1>2, <2>1 DEF OncePerLane, s
<1> QED  BY <1>6, <1>7 DEF LanesOf

(* A core's microtasks, as a list with a first one.                          *)
LEMMA TasksListed ==
  ASSUME TasksRight, NEW c \in Core, Microtasks[c] # <<>>
  PROVE  /\ Len(Microtasks[c]) \in Nat \ {0} /\ Head(Microtasks[c]) = Microtasks[c][1]
         /\ Microtasks[c][1].kind \in {"local", "mem"}
         /\ Microtasks[c][1].lanes \in Seq(LanesOf(c))
<1> DEFINE s == Microtasks[c]
<1>1. s \in Seq([kind : {"local", "mem"}, lanes : Seq(LanesOf(c))]) /\ s # <<>>
  BY DEF TasksRight, OncePerLane
<1> HIDE DEF s
<1>2. Len(s) \in Nat \ {0} /\ Head(s) = s[1] /\ 1 \in 1..Len(s)
  BY <1>1
<1>3. s[1] \in [kind : {"local", "mem"}, lanes : Seq(LanesOf(c))]
  BY <1>1, <1>2, ElementOfSeq
<1> QED  BY <1>2, <1>3 DEF s

(* The lane at which stepComputeWorker is.                                   *)
LEMMA AtWork ==
  ASSUME Uniform, ExecInv, TodoRight, pc = "work"
  PROVE  /\ Head(todo) \in Invocation /\ todo \in Seq(Assigned) /\ todo # <<>>
         /\ ListedIn(todo, Head(todo)) /\ Distinct(todo)
         /\ core \in Core /\ Visits(core, 1, Head(todo)) /\ CoreOf(Head(todo)) = core
         /\ Microtasks[core] # <<>>
         /\ ~Waits(Head(todo)) /\ (Head(todo) \in Left <=> CurrentInvocation # Null)
<1>1. /\ todo \in Seq(Assigned) /\ todo # <<>> /\ core \in Core /\ Microtasks[core] # <<>>
      /\ TasksRight /\ InTask
  BY DEF ExecInv, ControlTypes, ControlRight, InTask
<1>2. Head(todo) \in Invocation
  BY <1>1, OneItem
<1>3. Distinct(todo) /\ \A i \in Invocation : ListedIn(todo, i) => Visits(core, 1, i)
  BY <1>1 DEF TodoRight
<1>4. ListedIn(todo, Head(todo))
  BY <1>1, <1>3, TailListed
<1>5. Visits(core, 1, Head(todo))
  BY <1>2, <1>3, <1>4
<1>6. 1 \in 1..Len(Microtasks[core])
  BY <1>1, TasksListed
<1>7. CoreOf(Head(todo)) = core
  BY <1>1, <1>5, <1>6, VisitedOnce
<1>8. ~Waits(Head(todo))
  <2> SUFFICES ASSUME Waits(Head(todo)) PROVE FALSE
    OBVIOUS
  <2>1. PICK t \in 1..Len(Microtasks[core]) : t # 1 /\ Visits(core, t, Head(todo))
    BY <1>1, <1>7 DEF Waits
  <2> QED  BY <1>1, <1>5, <1>6, <2>1, VisitedOnce
<1>9. Head(todo) \in Left <=> CurrentInvocation # Null
  BY <1>1, <1>2, <1>4, <1>8 DEF Left, Passing
<1> QED  BY <1>1, <1>2, <1>3, <1>4, <1>5, <1>7, <1>8, <1>9

(* Nothing has happened to the lanes to be stepped.                          *)
LEMMA LeftSame ==
  ASSUME UNCHANGED <<Microtasks, core, todo>>, InTask' <=> InTask, Passing' <=> Passing
  PROVE  Left' = Left /\ (TodoRight => TodoRight')
<1>1. \A i \in Invocation : Waits(i)' <=> Waits(i)
  BY DEF Waits, Visits
<1>2. Left' = Left
  BY <1>1 DEF Left, ListedIn
<1>3. TodoRight => TodoRight'
  BY DEF TodoRight, Visits, ListedIn, Distinct
<1> QED  BY <1>2, <1>3

(* The lane at work is stepped when its microtask leaves it, or when it has  *)
(* passed its barrier.                                                       *)
LEMMA LeftAfter ==
  ASSUME Uniform, ExecInv, TodoRight, pc = "work", UNCHANGED <<Microtasks, core>>,
         \/ pc' = "lane" /\ todo' = Tail(todo)
         \/ pc' = "work" /\ CurrentInvocation' = Null /\ todo' = todo
  PROVE  Left' = Left \ {Head(todo)} /\ TodoRight'
<1> DEFINE h == Head(todo)
<1>1. /\ h \in Invocation /\ todo \in Seq(Assigned) /\ todo # <<>> /\ Distinct(todo)
      /\ core \in Core /\ Visits(core, 1, h) /\ CoreOf(h) = core /\ Microtasks[core] # <<>>
      /\ TasksRight /\ ~Waits(h)
  BY AtWork DEF ExecInv
<1>2. InTask /\ InTask'
  BY DEF InTask
<1> HIDE DEF h
<1>3. \A i \in Invocation : Waits(i)' <=> Waits(i)
  BY <1>2 DEF Waits, Visits
<1>5. ASSUME NEW i \in Invocation
      PROVE  /\ ListedIn(todo, i)' => ListedIn(todo, i)
             /\ (ListedIn(todo, i) /\ ~(Passing /\ i = Head(todo)))' <=>
                  ListedIn(todo, i) /\ i # h
  <2>1. CASE pc' = "lane" /\ todo' = Tail(todo)
    <3>1. ListedIn(Tail(todo), i) <=> ListedIn(todo, i) /\ i # h
      BY <1>1, TailListed DEF h
    <3>2. ListedIn(todo, i)' <=> ListedIn(Tail(todo), i)
      BY <2>1 DEF ListedIn
    <3>3. ~Passing'
      BY <2>1 DEF Passing
    <3> QED  BY <3>1, <3>2, <3>3
  <2>2. CASE pc' = "work" /\ CurrentInvocation' = Null /\ todo' = todo
    BY <2>2 DEF ListedIn, Passing, h
  <2> QED  BY <2>1, <2>2
<1>6. ASSUME NEW i \in Invocation PROVE i \in Left' <=> i \in Left \ {h}
  <2>1. i \in Left' <=> Waits(i) \/ (ListedIn(todo, i) /\ i # h)
    BY <1>2, <1>3, <1>5 DEF Left
  <2>2. i \in Left <=> Waits(i) \/ (ListedIn(todo, i) /\ ~(Passing /\ i = h))
    BY <1>2 DEF Left, h
  <2> QED  BY <1>1, <2>1, <2>2
<1>7. Left' = Left \ {h}
  BY <1>6 DEF Left
<1>8. TodoRight'
  <2>1. Distinct(todo)'
    <3>1. CASE todo' = todo
      BY <1>1, <3>1 DEF Distinct
    <3>2. CASE todo' = Tail(todo)
      <4>1. Distinct(Tail(todo))
        BY <1>1, TailListed
      <4> QED  BY <3>2, <4>1 DEF Distinct
    <3> QED  BY <3>1, <3>2
  <2>2. ASSUME NEW i \in Invocation, ListedIn(todo, i)' PROVE Visits(core, 1, i)'
    <3>1. Visits(core, 1, i)
      BY <1>2, <1>5, <2>2 DEF TodoRight
    <3> QED  BY <3>1 DEF Visits
  <2> QED  BY <2>1, <2>2 DEF TodoRight
<1> QED  BY <1>7, <1>8 DEF h

(* One invocation is stepped.                                                *)
StepsOnly(h) ==
  /\ program' = program
  /\ executed'[h] = IF atBarrier[h] THEN executed[h] ELSE executed[h] + 1
  /\ atBarrier'[h] = (~atBarrier[h] /\ Current(h) = "barrier")
  /\ \A i \in Invocation \ {h} : executed'[i] = executed[i] /\ atBarrier'[i] = atBarrier[i]

(* Then it is where those are that were stepped before it.                   *)
LEMMA StepTogether ==
  ASSUME Uniform, InvocTypes, Together, NEW h \in Left, StepsOnly(h), Left' = Left \ {h}
  PROVE  Together'
<1>0. Left \subseteq Invocation
  BY DEF Left
<1>1. /\ executed'[h] = IF atBarrier[h] THEN executed[h] ELSE executed[h] + 1
      /\ atBarrier'[h] = (~atBarrier[h] /\ Current(h) = "barrier")
      /\ \A i \in Invocation \ {h} : executed'[i] = executed[i] /\ atBarrier'[i] = atBarrier[i]
      /\ program' = program
  BY DEF StepsOnly
<1>2. ASSUME NEW i \in Left, NEW j \in Left
      PROVE  executed[i] = executed[j] /\ atBarrier[i] = atBarrier[j]
  BY <1>0 DEF Together, SameState
<1>3. ASSUME NEW i \in Invocation \ Left, NEW j \in Invocation \ Left
      PROVE  executed[i] = executed[j] /\ atBarrier[i] = atBarrier[j]
  BY DEF Together, SameState
<1>4. ASSUME NEW i \in Left, NEW j \in Invocation \ Left
      PROVE  /\ executed[j] = IF atBarrier[i] THEN executed[i] ELSE executed[i] + 1
             /\ atBarrier[j] = (~atBarrier[i] /\ Current(i) = "barrier")
  BY DEF Together, OneAhead
<1>5. ASSUME NEW i \in Invocation \ Left
      PROVE  executed'[i] = executed'[h] /\ atBarrier'[i] = atBarrier'[h]
  BY <1>1, <1>4
<1>6. ASSUME NEW i \in Left \ {h}
      PROVE  /\ executed'[i] = executed[i] /\ atBarrier'[i] = atBarrier[i]
             /\ executed[i] = executed[h] /\ atBarrier[i] = atBarrier[h]
             /\ Current(i)' = Current(i) /\ Current(i) = Current(h)
  <2>1. executed'[i] = executed[i] /\ atBarrier'[i] = atBarrier[i]
    BY <1>0, <1>1
  <2>2. executed[i] = executed[h] /\ atBarrier[i] = atBarrier[h]
    BY <1>2
  <2>3. program[i] = program[h]
    BY <1>0, SameProgram
  <2> QED  BY <1>1, <2>1, <2>2, <2>3 DEF Current
<1>7. ASSUME NEW i \in Invocation, NEW j \in Invocation, i \in Left' <=> j \in Left'
      PROVE  SameState(i, j)'
  <2>1. CASE i \in Left' /\ j \in Left'
    BY <1>6, <2>1 DEF SameState
  <2>2. CASE i \notin Left' /\ j \notin Left'
    <3>1. i = h \/ i \in Invocation \ Left
      BY <2>2
    <3>2. j = h \/ j \in Invocation \ Left
      BY <2>2
    <3> QED  BY <1>5, <3>1, <3>2 DEF SameState
  <2> QED  BY <1>7, <2>1, <2>2
<1>8. ASSUME NEW i \in Left' PROVE executed'[i] < Len(program'[i])
  BY <1>1, <1>6 DEF Together
<1>9. ASSUME NEW i \in Left', NEW j \in (Invocation \ Left)' PROVE OneAhead(i, j)'
  <2>1. /\ executed'[h] = IF atBarrier'[i] THEN executed'[i] ELSE executed'[i] + 1
        /\ atBarrier'[h] = (~atBarrier'[i] /\ Current(i)' = "barrier")
    BY <1>1, <1>6
  <2>2. j = h \/ j \in Invocation \ Left
    OBVIOUS
  <2>3. executed'[j] = executed'[h] /\ atBarrier'[j] = atBarrier'[h]
    BY <1>5, <2>2
  <2> QED  BY <2>1, <2>3 DEF OneAhead
<1> QED  BY <1>7, <1>8, <1>9 DEF Together

(* Nothing has happened to the invocations.                                  *)
LEMMA TogetherSame ==
  ASSUME Together, UNCHANGED invocVars, Left' = Left PROVE Together'
BY DEF Together, SameState, OneAhead, Current, invocVars

(* The PC of a core is right while neither it nor the invocation changes.    *)
LEMMA CoreKept ==
  ASSUME Uniform, InvocTypes, ProgressRight, NEW i \in Invocation, CoreIs(i),
         UNCHANGED <<program, PC[CoreOf(i)], executed[i]>>, meddled => meddled'
  PROVE  CoreIs(i)'
<1>1. Current(i)' = Current(i) /\ (executed[i] = Len(program[i]))' = (executed[i] = Len(program[i]))
  BY DEF Current
<1>2. PC[CoreOf(i)]' = PC[CoreOf(i)]
  OBVIOUS
<1>3. Current(i) = Null <=> executed[i] = Len(program[i])
  BY CurrentNull
<1> QED  BY <1>1, <1>2, <1>3 DEF CoreIs

(* The PC of the core of i has been taken from x.                            *)
TakenFrom(x, i) ==
  i \notin Left /\ PC[CoreOf(i)] = Current(x) /\ (~meddled => x \notin Left)

(* The PC of a core is right for an invocation that has been stepped when it *)
(* has been taken from another one that has.                                 *)
LEMMA CoreTaken ==
  Uniform /\ InvocTypes /\ ProgressRight /\ Together =>
    \A x, i \in Invocation : TakenFrom(x, i) => CoreIs(i)
<1> SUFFICES ASSUME Uniform, InvocTypes, ProgressRight, Together, NEW x \in Invocation,
                    NEW i \in Invocation, TakenFrom(x, i)
             PROVE  CoreIs(i)
  OBVIOUS
<1>1. i \notin Left /\ PC[CoreOf(i)] = Current(x) /\ (~meddled => x \notin Left)
  BY DEF TakenFrom
<1>2. Current(x) = Null <=> executed[x] = Len(program[x])
  BY CurrentNull
<1>3. x \in Left => executed[x] # Len(program[x])
  BY SameProgram DEF Together
<1>4. ASSUME x \notin Left PROVE executed[x] = executed[i] /\ program[x] = program[i]
  BY <1>1, <1>4, SameProgram DEF Together, SameState
<1>5. x \notin Left => Current(x) = Current(i)
  BY <1>4 DEF Current
<1> QED  BY <1>1, <1>2, <1>3, <1>4, <1>5 DEF CoreIs

(* Which holds in the next state too.                                        *)
LEMMA CoreTakenThen ==
  (Uniform /\ InvocTypes /\ ProgressRight /\ Together =>
     \A x, i \in Invocation : TakenFrom(x, i) => CoreIs(i))'
BY CoreTaken, PTL

(* A lane is left: the core has the PC of its lanes, if the lane was its     *)
(* last.                                                                     *)
LEMMA LeaveCores ==
  ASSUME Uniform, ExecInv, InRound, pc = "work", LeaveLane,
         UNCHANGED <<program, Microtasks, core, meddled>>,
         InvocTypes', ProgressRight', Together', CurrentInvocation' \in Invocation,
         ~meddled => CurrentInvocation' = Head(todo),
         \A i \in Invocation \ {Head(todo)} : executed'[i] = executed[i]
  PROVE  pc' = "lane" /\ todo' = Tail(todo) /\ Left' = Left \ {Head(todo)} /\ CoresRight'
<1> DEFINE h == Head(todo)
           s == Microtasks[core]
<1>1. /\ CoresRight /\ TaskShape /\ TodoRight /\ InvocTypes /\ ProgressRight /\ TasksRight
      /\ PC \in [Core -> Kind \cup {Null}]
  BY DEF InRound, ExecInv, ControlTypes
<1>2. /\ h \in Invocation /\ todo \in Seq(Assigned) /\ todo # <<>> /\ ListedIn(todo, h)
      /\ Distinct(todo) /\ core \in Core /\ Visits(core, 1, h) /\ CoreOf(h) = core /\ s # <<>>
  BY <1>1, AtWork
<1>3. pc' = "lane" /\ todo' = Tail(todo) /\ CurrentInvocation' # Null
  BY OneItem DEF LeaveLane
<1>4. Left' = Left \ {h}
  BY <1>1, <1>3, LeftAfter
<1>5. /\ Len(s) \in Nat \ {0} /\ Head(s) = s[1] /\ 1 \in 1..Len(s)
      /\ s[1].lanes \in Seq(LanesOf(core))
  BY <1>1, <1>2, TasksListed
<1>6. ShapeOf(s)
  BY <1>1, <1>2 DEF TaskShape
<1>7. ASSUME NEW c \in Core PROVE (Settled(c))' =>
               \/ Settled(c) /\ c # core
               \/ c = core /\ Len(s) = 1 /\ s[1].kind = "mem"
  BY <1>2, <1>3 DEF Settled
<1>8. ASSUME NEW i \in Invocation, CoreIs(i), i # h, PC'[CoreOf(i)] = PC[CoreOf(i)]
      PROVE  CoreIs(i)'
  BY <1>1, <1>2, <1>8, CoreKept
<1>9. ASSUME NEW i \in Invocation PROVE CoreOf(i) \in Core
  BY OneItem
<1> HIDE DEF h, s
<1>10. CASE Len(s) = 1 /\ s[1].kind = "mem"
  <2>1. PC' = [PC EXCEPT ![core] = CurrentPC']
    BY <1>3, <1>5, <1>10 DEF LeaveLane, s
  <2>2. ASSUME NEW i \in Invocation, CoreOf(i) = core PROVE i \notin Left'
    <3>1. ~Waits(i)'
      <4>1. InTask' /\ core' = core /\ Len(Microtasks[core])' = 1
        BY <1>3, <1>10 DEF InTask, s
      <4> QED  BY <2>2, <4>1 DEF Waits
    <3>2. ~ListedIn(todo, i)'
      <4> SUFFICES ASSUME ListedIn(Tail(todo), i) PROVE FALSE
        BY <1>3 DEF ListedIn
      <4>1. ListedIn(todo, i) /\ i # h
        BY <1>2, TailListed DEF h
      <4>2. Visits(core, 1, i)
        BY <1>1, <4>1 DEF TodoRight, InTask
      <4>3. Len(s[1].lanes) = 1
        BY <1>5, <1>6, <1>10 DEF ShapeOf
      <4> QED  BY <1>2, <4>1, <4>2, <4>3 DEF Visits, s
    <3> QED  BY <3>1, <3>2 DEF Left
  <2>3. CurrentInvocation' \in Left' => meddled'
    BY <1>4 DEF h
  <2>4. ASSUME NEW i \in Invocation, CoreOf(i) = core PROVE CoreIs(i)'
    <3>1. PICK x \in Invocation : x = CurrentInvocation'
      OBVIOUS
    <3>2. PC'[core] = Current(x)'
      BY <1>1, <1>2, <2>1, <3>1 DEF CurrentPC, Current
    <3>3. TakenFrom(x, i)'
      BY <2>2, <2>3, <2>4, <3>1, <3>2 DEF TakenFrom
    <3>4. (Uniform /\ InvocTypes /\ ProgressRight /\ Together)'
      BY DEF Uniform
    <3> QED  BY <3>3, <3>4, CoreTakenThen
  <2>5. ASSUME NEW i \in Invocation, (Settled(CoreOf(i)) \/ i \in Left)' PROVE CoreIs(i)'
    <3>1. CASE CoreOf(i) = core
      BY <2>4, <3>1
    <3>2. CASE CoreOf(i) # core
      <4>1. Settled(CoreOf(i)) \/ i \in Left
        BY <1>4, <1>7, <1>9, <2>5, <3>2
      <4>2. PC'[CoreOf(i)] = PC[CoreOf(i)] /\ i # h
        BY <1>1, <1>2, <1>9, <2>1, <3>2
      <4> QED  BY <1>1, <1>8, <4>1, <4>2 DEF CoresRight
    <3> QED  BY <3>1, <3>2
  <2>6. ASSUME NEW c \in Core, LanesOf(c) = {} PROVE PC'[c] = Null
    <3>1. c # core
      BY <1>2, <2>6, OneItem
    <3> QED  BY <1>1, <2>1, <2>6, <3>1 DEF CoresRight
  <2> QED  BY <1>3, <1>4, <2>5, <2>6 DEF CoresRight, h
<1>11. CASE ~(Len(s) = 1 /\ s[1].kind = "mem")
  <2>1. PC' = PC
    BY <1>5, <1>11 DEF LeaveLane, s
  <2>2. ASSUME NEW i \in Invocation, (Settled(CoreOf(i)) \/ i \in Left)' PROVE CoreIs(i)'
    <3>1. (Settled(CoreOf(i)) \/ i \in Left) /\ i # h
      BY <1>2, <1>4, <1>7, <1>9, <1>11, <2>2
    <3> QED  BY <1>1, <1>8, <2>1, <3>1 DEF CoresRight
  <2> QED  BY <1>1, <1>3, <1>4, <2>1, <2>2 DEF CoresRight, h
<1> QED  BY <1>10, <1>11

(* stepComputeWorker returns to the microtask of the lane.                   *)
LEMMA LeaveRound ==
  ASSUME Uniform, ExecInv, InRound, pc = "work", LeaveLane,
         UNCHANGED <<program, Microtasks, core, mask, call, completed, front, meddled>>,
         InvocTypes', ProgressRight', Together',
         CurrentInvocation' \in Invocation, CurrentGroup' = CurrentInvocation',
         ~meddled => CurrentInvocation' = Head(todo),
         \A i \in Invocation \ {Head(todo)} : executed'[i] = executed[i]
  PROVE  InRound'
<1>1. pc' = "lane" /\ todo' = Tail(todo) /\ Left' = Left \ {Head(todo)} /\ CoresRight'
  BY LeaveCores
<1>2. TaskShape /\ TodoRight /\ CurrentRight /\ PhaseRight
  BY DEF InRound
<1>3. TodoRight'
  BY <1>1, <1>2, LeftAfter
<1>4. TaskShape'
  BY <1>2 DEF TaskShape, ShapeOf
<1>5. CurrentInvocation' # Null
  BY OneItem
<1>6. CurrentRight'
  BY <1>1, <1>2, <1>5 DEF CurrentRight, Passing
<1>7. PhaseRight'
  BY <1>1, <1>2 DEF PhaseRight
<1> QED  BY <1>1, <1>3, <1>4, <1>6, <1>7 DEF InRound

(* The lane executes an instruction.                                         *)
LEMMA ExecuteRound ==
  ASSUME Uniform, ExecInv, InRound, pc = "work", CurrentInvocation # Null,
         ~meddled => CurrentInvocation = Head(todo), Ready(Head(todo)), program' = program,
         executed' = [executed EXCEPT ![Head(todo)] = @ + 1],
         atBarrier' = [atBarrier EXCEPT ![Head(todo)] = (Current(Head(todo)) = "barrier")],
         LeaveLane, UNCHANGED <<groupVars, Microtasks, core, mask, call, front, meddled>>,
         InvocTypes', ProgressRight'
  PROVE  InRound'
<1> DEFINE h == Head(todo)
<1>1. /\ TodoRight /\ CurrentRight /\ Together /\ InvocTypes /\ GroupTypes
      /\ CurrentInvocation' = CurrentInvocation /\ CurrentInvocation \in Invocation
      /\ CurrentGroup' = CurrentInvocation' /\ completed' = completed
  BY DEF InRound, CurrentRight, ExecInv, GroupTypes, groupVars
<1>2. h \in Left /\ h \in Invocation
  BY <1>1, AtWork
<1>3. Left' = Left \ {h}
  <2>1. pc' = "lane" /\ todo' = Tail(todo)
    BY <1>1, OneItem DEF LeaveLane
  <2> QED  BY <1>1, <2>1, LeftAfter
<1>4. StepsOnly(h)
  BY <1>1, <1>2 DEF StepsOnly, Ready, InvocTypes
<1>5. Together'
  BY <1>1, <1>2, <1>3, <1>4, StepTogether
<1>6. \A i \in Invocation \ {h} : executed'[i] = executed[i]
  BY <1>4 DEF StepsOnly
<1> QED  BY <1>1, <1>5, <1>6, LeaveRound

(* The group of the lane passes its barrier.                                 *)
LEMMA ClearRound ==
  ASSUME Uniform, ExecInv, InRound, ClearBarrier, prompt \in {"none", "closed"},
         UNCHANGED debugVars
  PROVE  InRound'
<1> DEFINE h == Head(todo)
<1>1. /\ Together /\ CoresRight /\ TaskShape /\ TodoRight /\ CurrentRight /\ PhaseRight
      /\ InvocTypes /\ ProgressRight /\ PromptRight /\ pc = "work"
  BY DEF InRound, ExecInv, ClearBarrier, Stuck, Working
<1>2. h \in Invocation /\ (h \in Left <=> CurrentInvocation # Null)
  BY <1>1, AtWork
<1>3. WorkItems(h) = {h} /\ h # Null
  BY <1>2, OneItem
<1>4. CurrentInvocation = h /\ CurrentGroup = h /\ atBarrier[h]
  <2>1. CurrentGroup = h => ~Ready(h)
    BY <1>3 DEF ClearBarrier, Stuck
  <2>2. ~Passing
    BY <1>1, <2>1 DEF CurrentRight
  <2>3. CurrentInvocation = h /\ CurrentGroup = h
    BY <1>1, <2>2 DEF Passing, PromptRight, CurrentRight
  <2> QED  BY <1>3, <2>3 DEF ClearBarrier, AllWaiting, Waiting
<1>5. h \in Left /\ executed[h] < Len(program[h])
  BY <1>1, <1>2, <1>3, <1>4 DEF Together
<1>6. /\ pc' = "work" /\ CurrentInvocation' = Null /\ CurrentGroup' = h
      /\ atBarrier' = [i \in Invocation |-> atBarrier[i] /\ i \notin {h}]
      /\ UNCHANGED <<program, executed, completed, PC, Microtasks, mask, call, core, todo,
                     front, meddled, prompt>>
  BY <1>3, <1>4 DEF ClearBarrier, coreVars, debugVars, Stuck, Working
<1>7. Left' = Left \ {h} /\ TodoRight'
  BY <1>1, <1>6, LeftAfter
<1>8. StepsOnly(h)
  BY <1>1, <1>2, <1>4, <1>6 DEF StepsOnly, InvocTypes
<1>9. Together'
  BY <1>1, <1>5, <1>7, <1>8, StepTogether
<1>10. CoresRight'
  <2>1. ASSUME NEW i \in Invocation, (Settled(CoreOf(i)) \/ i \in Left)' PROVE CoreIs(i)'
    <3>1. Settled(CoreOf(i)) \/ i \in Left
      BY <1>1, <1>6, <1>7, <2>1 DEF Settled
    <3> QED  BY <1>1, <1>6, <3>1, CoreKept DEF CoresRight
  <2> QED  BY <1>1, <1>6, <2>1 DEF CoresRight
<1>11. TaskShape'
  BY <1>1, <1>6 DEF TaskShape, ShapeOf
<1>12. Ready(h)'
  BY <1>2, <1>5, <1>6 DEF Ready
<1>13. CurrentRight'
  BY <1>1, <1>6, <1>12 DEF CurrentRight, Passing, Ready
<1>14. PhaseRight'
  BY <1>1, <1>6 DEF PhaseRight
<1> QED  BY <1>7, <1>9, <1>10, <1>11, <1>13, <1>14 DEF InRound

(* What stepComputeWorker does in a round.                                   *)
LEMMA WorkerRound ==
  ASSUME Uniform, ExecInv, InRound, Worker, prompt \in {"none", "closed"},
         UNCHANGED debugVars, InvocTypes', ProgressRight'
  PROVE  InRound'
<1> DEFINE h == Head(todo)
<1>1. /\ Together /\ TodoRight /\ CurrentRight /\ PromptRight /\ pc = "work"
  BY DEF InRound, ExecInv, Worker, StepInvocation, NextGroup, PickInvocation, ClearBarrier,
         BarrierAbort, CompleteGroup, Stuck, Working
<1>2. h \in Invocation /\ (h \in Left <=> CurrentInvocation # Null)
  BY <1>1, AtWork
<1>3. WorkItems(h) = {h} /\ h # Null
  BY <1>2, OneItem
<1>4. CurrentGroup = h /\ (CurrentInvocation = Null => Ready(h))
      /\ (CurrentInvocation # Null => CurrentInvocation = h)
  BY <1>1 DEF CurrentRight, PromptRight, Passing
<1>5. CurrentInvocation # Null => executed[h] < Len(program[h])
  BY <1>1, <1>2 DEF Together
<1>6. UNCHANGED <<front, meddled, prompt>>
  BY DEF debugVars
<1> HIDE DEF h
<1>7. CASE StepInvocation
  <2>1. CurrentInvocation = h /\ CurrentInvocation # Null /\ Ready(h)
    BY <1>4, <1>7 DEF StepInvocation, NoReady
  <2> QED  BY <1>1, <1>6, <1>7, <2>1, ExecuteRound DEF StepInvocation, h
<1>8. CASE PickInvocation
  <2>1. CurrentInvocation = Null /\ CurrentInvocation' = h
    BY <1>3, <1>4, <1>8 DEF PickInvocation, NoReady
  <2>2. UNCHANGED <<invocVars, CurrentGroup, completed, Microtasks, mask, call, core>> /\ LeaveLane
    BY <1>8 DEF PickInvocation
  <2>3. Left' = Left
    <3>1. pc' = "lane" /\ todo' = Tail(todo)
      BY <1>3, <2>1, <2>2 DEF LeaveLane
    <3>2. Left' = Left \ {h}
      BY <1>1, <2>2, <3>1, LeftAfter DEF h
    <3> QED  BY <1>2, <2>1, <3>2
  <2>4. Together'
    BY <1>1, <2>2, <2>3, TogetherSame
  <2> QED  BY <1>1, <1>2, <1>4, <1>6, <2>1, <2>2, <2>4, LeaveRound DEF invocVars, h
<1>9. CASE ClearBarrier
  BY <1>9, ClearRound
<1>10. CASE NextGroup
  BY <1>3, <1>4, <1>10 DEF NextGroup
<1>11. CASE BarrierAbort
  BY <1>3, <1>4, <1>11 DEF BarrierAbort, Waiting
<1>12. CASE CompleteGroup
  <2>1. ~Ready(h) /\ ~atBarrier[h]
    BY <1>3, <1>4, <1>12 DEF CompleteGroup, Stuck, Waiting
  <2> QED  BY <1>4, <1>5, <2>1 DEF Ready
<1> QED  BY <1>7, <1>8, <1>9, <1>10, <1>11, <1>12 DEF Worker

(* Between the microtasks, it does not matter where the loops are.           *)
LEMMA LeftIdle ==
  ASSUME ~InTask, ~InTask', Microtasks' = Microtasks
  PROVE  Left' = Left /\ TodoRight' /\ (TaskShape => TaskShape')
<1>1. \A i \in Invocation : Waits(i)' <=> Waits(i)
  BY DEF Waits, Visits
<1>2. Left' = Left
  BY <1>1 DEF Left
<1> QED  BY <1>2 DEF TodoRight, TaskShape, ShapeOf

(* The cores while no PC changes and no lane is stepped.                     *)
LEMMA CoresSame ==
  ASSUME Uniform, InvocTypes, ProgressRight, CoresRight, UNCHANGED <<invocVars, PC>>,
         meddled => meddled', Left' = Left, pc' # "start",
         \A c \in Core : Settled(c)' => Settled(c)
  PROVE  CoresRight'
<1>1. ASSUME NEW i \in Invocation, (Settled(CoreOf(i)) \/ i \in Left)' PROVE CoreIs(i)'
  <2>1. CoreOf(i) \in Core
    BY OneItem
  <2>2. CoreIs(i)
    BY <1>1, <2>1 DEF CoresRight
  <2> QED  BY <2>2, CoreKept DEF invocVars
<1> QED  BY <1>1 DEF CoresRight

(* A step outside the microtasks that neither prepares any nor touches the   *)
(* invocations.                                                              *)
LEMMA IdleRound ==
  ASSUME Uniform, InvocTypes, ProgressRight, Together, CoresRight, TaskShape,
         ~InTask, ~InTask', pc # "start", pc' # "start",
         UNCHANGED <<invocVars, PC, Microtasks, meddled>>
  PROVE  Together' /\ CoresRight' /\ TaskShape' /\ TodoRight' /\ Left' = Left
<1>1. Left' = Left /\ TodoRight' /\ TaskShape'
  BY LeftIdle
<1>2. \A c \in Core : Settled(c)' => Settled(c)
  BY DEF Settled, InTask
<1> QED  BY <1>1, <1>2, TogetherSame, CoresSame

(* A lane in the mask, and all of them are, is entered.                      *)
LEMMA EnterRound ==
  ASSUME Uniform, ExecInv, InRound, EnterLane \/ SkipLane, UNCHANGED debugVars
  PROVE  InRound'
<1>1. /\ Together /\ CoresRight /\ TaskShape /\ TodoRight /\ CurrentRight /\ PhaseRight
      /\ InvocTypes /\ ProgressRight /\ GroupTypes /\ OnePlace /\ ControlTypes
      /\ pc = "lane" /\ todo # <<>>
  BY DEF InRound, ExecInv, EnterLane, SkipLane
<1>2. Head(todo) \in Invocation /\ Head(todo) # Null /\ InMask(Head(todo))
  BY <1>1, LaneInvocation, OneItem DEF LogCoord, InMask, PhaseRight
<1>3. EnterLane /\ Swtch(Head(todo))
  BY <1>2 DEF EnterLane, SkipLane, LogCoord
<1>4. CurrentInvocation' = Head(todo) /\ CurrentGroup' = Head(todo) /\ completed' = {}
  BY <1>1, <1>2, <1>3, SwtchFinds DEF CurrentRight
<1>5. /\ pc' = "work"
      /\ UNCHANGED <<invocVars, PC, Microtasks, mask, call, core, todo, front, meddled>>
  BY <1>2, <1>3, <1>4 DEF EnterLane, coreVars, debugVars
<1>6. Left' = Left /\ TodoRight'
  BY <1>1, <1>2, <1>4, <1>5, LeftSame DEF InTask, Passing
<1>7. \A c \in Core : Settled(c)' => Settled(c)
  BY <1>1, <1>5 DEF Settled
<1>8. Together' /\ CoresRight'
  BY <1>1, <1>5, <1>6, <1>7, TogetherSame, CoresSame
<1>9. TaskShape'
  BY <1>1, <1>5 DEF TaskShape, ShapeOf
<1>10. CurrentRight' /\ PhaseRight'
  BY <1>1, <1>2, <1>4, <1>5 DEF CurrentRight, PhaseRight, Passing
<1> QED  BY <1>6, <1>8, <1>9, <1>10 DEF InRound

(* The microtask at the front of a core begins: its lanes are those to do.   *)
LEMMA FrontRound ==
  ASSUME Uniform, ExecInv, InRound, RunFront, UNCHANGED debugVars
  PROVE  InRound'
<1>1. /\ Together /\ CoresRight /\ TaskShape /\ TodoRight /\ CurrentRight /\ PhaseRight
      /\ InvocTypes /\ ProgressRight /\ TasksRight /\ ControlTypes
      /\ pc = "tick" /\ core < NumCores
      /\ UNCHANGED <<invocVars, groupVars, PC, Microtasks, mask, call, front, meddled>>
  BY DEF InRound, ExecInv, RunFront, coreVars, debugVars
<1>2. core \in Core
  BY <1>1, SizeAssumption DEF ControlTypes, Core
<1>3. CASE Microtasks[core] = <<>>
  <2>1. pc' = "tick"
    BY <1>1, <1>3 DEF RunFront
  <2>2. Together' /\ CoresRight' /\ TaskShape' /\ TodoRight' /\ Left' = Left
    BY <1>1, <2>1, IdleRound DEF InTask
  <2>3. CurrentRight' /\ PhaseRight'
    BY <1>1, <2>1 DEF CurrentRight, PhaseRight, Passing, groupVars
  <2> QED  BY <2>2, <2>3 DEF InRound
<1>4. CASE Microtasks[core] # <<>>
  <2> DEFINE s == Microtasks[core]
  <2>1. /\ Len(s) \in Nat \ {0} /\ Head(s) = s[1] /\ s[1].lanes \in Seq(LanesOf(core))
        /\ 1 \in 1..Len(s)
    BY <1>1, <1>2, <1>4, TasksListed
  <2>2. pc' = "lane" /\ todo' = s[1].lanes /\ core' = core
    BY <1>1, <1>4, <2>1 DEF RunFront
  <2>3. s[1].lanes # <<>>
    BY <1>1, <1>2, <2>1 DEF TaskShape, ShapeOf
  <2> HIDE DEF s
  <2>4. \A i : ListedIn(todo, i)' <=> Visits(core, 1, i)
    BY <2>2 DEF ListedIn, Visits, s
  <2>5. Distinct(todo)'
    <3>1. OncePerLane(core, s)
      BY <1>1, <1>2 DEF TasksRight, s
    <3> QED  BY <2>1, <2>2, <3>1 DEF OncePerLane, Distinct
  <2>6. TodoRight'
    BY <1>1, <2>2, <2>4, <2>5 DEF TodoRight, Visits
  <2>7. InTask' /\ ~InTask /\ ~Passing'
    BY <1>1, <2>2 DEF InTask, Passing
  <2>8. ASSUME NEW i \in Invocation PROVE i \in Left' <=> i \in Left
    <3>1. i \in Left <=> \E t \in 1..Len(Microtasks[CoreOf(i)]) : Visits(CoreOf(i), t, i)
      BY <2>7 DEF Left, Waits
    <3>2. i \in Left' <=>
            \/ \E t \in 1..Len(Microtasks[CoreOf(i)]) :
                 (core = CoreOf(i) => t # 1) /\ Visits(CoreOf(i), t, i)
            \/ Visits(core, 1, i)
      BY <1>1, <2>2, <2>4, <2>7 DEF Left, Waits, Visits
    <3>3. Visits(core, 1, i) => CoreOf(i) = core
      BY <1>1, <1>2, <2>1, VisitedOnce DEF s
    <3> QED  BY <2>1, <3>1, <3>2, <3>3 DEF s
  <2>9. Left' = Left
    BY <2>8 DEF Left
  <2>10. \A c \in Core : Settled(c)' => Settled(c)
    BY <1>1, <2>2, <2>3 DEF Settled
  <2>11. Together' /\ CoresRight'
    BY <1>1, <2>2, <2>9, <2>10, TogetherSame, CoresSame
  <2>12. TaskShape'
    BY <1>1 DEF TaskShape, ShapeOf
  <2>13. CurrentRight' /\ PhaseRight'
    BY <1>1, <2>2, <2>3 DEF CurrentRight, PhaseRight, Passing, groupVars
  <2> QED  BY <2>6, <2>11, <2>12, <2>13 DEF InRound
<1> QED  BY <1>3, <1>4

(* A microtask that has ended is taken from the front of its core.           *)
LEMMA EndLeft ==
  ASSUME Uniform, TasksRight, TaskShape, core \in Core, pc = "lane", pc' = "tick", todo = <<>>,
         Microtasks[core] # <<>>, Microtasks' = [Microtasks EXCEPT ![core] = Tail(@)]
  PROVE  Left' = Left /\ TaskShape'
<1> DEFINE s == Microtasks[core]
           r == Tail(s)
           T == [kind : {"local", "mem"}, lanes : Seq(LanesOf(core))]
<1>1. s \in Seq(T) /\ s # <<>> /\ ShapeOf(s)
  BY DEF TasksRight, OncePerLane, TaskShape
<1> HIDE DEF s, T
<1>2. /\ r \in Seq(T) /\ Len(r) = Len(s) - 1 /\ Len(s) \in Nat \ {0}
      /\ \A t \in 1..Len(r) : r[t] = s[t + 1]
  BY <1>1, HeadTailProperties
<1> HIDE DEF r
<1>3. \A c \in Core : Microtasks'[c] = IF c = core THEN r ELSE Microtasks[c]
  BY DEF TasksRight, r, s
<1>4. ShapeOf(r)
  <2>1. ASSUME NEW t \in 1..Len(r)
        PROVE  /\ r[t].lanes # <<>> /\ (r[t].kind = "mem" => Len(r[t].lanes) = 1)
               /\ (r[t].kind = "local" => Len(r) = 1)
    <3>0. r[t] = s[t + 1]
      BY <1>2
    <3>1. t + 1 \in 1..Len(s) /\ r[t] = s[t + 1] /\ Len(s) # 1
      BY <1>2, <3>0
    <3> QED  BY <1>1, <3>1 DEF ShapeOf
  <2> QED  BY <2>1 DEF ShapeOf
<1>5. TaskShape'
  <2>1. ASSUME NEW c \in Core PROVE ShapeOf(Microtasks'[c])
    BY <1>3, <1>4 DEF TaskShape
  <2> QED  BY <2>1 DEF TaskShape, ShapeOf
<1>6. InTask /\ ~InTask'
  BY DEF InTask
<1>7. ASSUME NEW i \in Invocation PROVE i \in Left' <=> i \in Left
  <2>0. CoreOf(i) \in Core /\ ~ListedIn(todo, i)
    BY OneItem DEF ListedIn
  <2>1. i \in Left' <=> \E t \in 1..Len(Microtasks'[CoreOf(i)]) :
                           \E k \in 1..Len(Microtasks'[CoreOf(i)][t].lanes) :
                             Microtasks'[CoreOf(i)][t].lanes[k] = i
    BY <1>6 DEF Left, Waits, Visits
  <2>2. i \in Left <=> \E t \in 1..Len(Microtasks[CoreOf(i)]) :
                          /\ core = CoreOf(i) => t # 1
                          /\ \E k \in 1..Len(Microtasks[CoreOf(i)][t].lanes) :
                               Microtasks[CoreOf(i)][t].lanes[k] = i
    BY <1>6, <2>0 DEF Left, Waits, Visits
  <2>3. CASE CoreOf(i) # core
    BY <1>3, <2>0, <2>1, <2>2, <2>3
  <2>4. CASE CoreOf(i) = core
    <3>1. i \in Left' <=> \E t \in 1..Len(r) : \E k \in 1..Len(r[t].lanes) : r[t].lanes[k] = i
      <4>1. Microtasks'[CoreOf(i)] = r
        BY <1>3, <2>0, <2>4
      <4> HIDE DEF r
      <4> QED  BY <2>1, <4>1
    <3>2. i \in Left <=>
            \E t \in 1..Len(s) : t # 1 /\ \E k \in 1..Len(s[t].lanes) : s[t].lanes[k] = i
      BY <2>2, <2>4 DEF s
    <3>3. \A t \in 1..Len(r) : t + 1 \in 1..Len(s) /\ t + 1 # 1 /\ r[t] = s[t + 1]
      BY <1>2
    <3>4. \A t \in 1..Len(s) : t # 1 => t - 1 \in 1..Len(r) /\ r[t - 1] = s[t]
      <4>1. ASSUME NEW t \in 1..Len(s), t # 1 PROVE t - 1 \in 1..Len(r) /\ r[t - 1] = s[t]
        <5>1. t - 1 \in 1..Len(r) /\ (t - 1) + 1 = t
          BY <1>2, <4>1
        <5>2. r[t - 1] = s[(t - 1) + 1]
          BY <1>2, <5>1
        <5> QED  BY <5>1, <5>2
      <4> QED  BY <4>1
    <3>5. ASSUME i \in Left' PROVE i \in Left
      <4>1. PICK t \in 1..Len(r) : \E k \in 1..Len(r[t].lanes) : r[t].lanes[k] = i
        BY <3>1, <3>5
      <4>2. /\ t + 1 \in 1..Len(s) /\ t + 1 # 1
            /\ \E k \in 1..Len(s[t + 1].lanes) : s[t + 1].lanes[k] = i
        BY <3>3, <4>1
      <4> QED  BY <3>2, <4>2
    <3>6. ASSUME i \in Left PROVE i \in Left'
      <4>1. PICK t \in 1..Len(s) : t # 1 /\ \E k \in 1..Len(s[t].lanes) : s[t].lanes[k] = i
        BY <3>2, <3>6
      <4>2. t - 1 \in 1..Len(r) /\ \E k \in 1..Len(r[t - 1].lanes) : r[t - 1].lanes[k] = i
        BY <3>4, <4>1
      <4> QED  BY <3>1, <4>2
    <3> QED  BY <3>5, <3>6
  <2> QED  BY <2>3, <2>4
<1>8. Left' = Left
  BY <1>7 DEF Left
<1> QED  BY <1>5, <1>8

(* ... and the core takes the PC of its lanes, if it was for all of them.    *)
LEMMA EndRound ==
  ASSUME Uniform, ExecInv, InRound, EndMicrotask, UNCHANGED debugVars
  PROVE  InRound'
<1> DEFINE s == Microtasks[core]
<1>1. /\ Together /\ CoresRight /\ TaskShape /\ TodoRight /\ CurrentRight /\ PhaseRight
      /\ InvocTypes /\ ProgressRight /\ GroupTypes /\ TasksRight
      /\ core \in Core /\ s # <<>> /\ PC \in [Core -> Kind \cup {Null}]
      /\ pc = "lane" /\ todo = <<>> /\ pc' = "tick"
      /\ UNCHANGED <<invocVars, groupVars, mask, call, front, meddled>>
      /\ Microtasks' = [Microtasks EXCEPT ![core] = Tail(@)]
      /\ PC' = IF Head(s).kind = "local" /\ CurrentInvocation # Null
               THEN [PC EXCEPT ![core] = CurrentPC] ELSE PC
  BY DEF InRound, ExecInv, ControlTypes, ControlRight, EndMicrotask, debugVars
<1>2. Left' = Left /\ TaskShape'
  BY <1>1, EndLeft
<1>3. /\ CurrentInvocation # Null /\ CurrentInvocation \in Invocation
      /\ CurrentInvocation \notin Left \/ meddled
  BY <1>1 DEF CurrentRight, GroupTypes
<1>4. Together'
  BY <1>1, <1>2, TogetherSame
<1>5. /\ Len(s) \in Nat \ {0} /\ Head(s) = s[1] /\ 1 \in 1..Len(s)
      /\ s[1].kind \in {"local", "mem"} /\ s[1].lanes \in Seq(LanesOf(core)) /\ s[1].lanes # <<>>
  <2>1. /\ Len(s) \in Nat \ {0} /\ Head(s) = s[1] /\ s[1].kind \in {"local", "mem"}
        /\ s[1].lanes \in Seq(LanesOf(core))
    BY <1>1, TasksListed
  <2>2. 1 \in 1..Len(s)
    BY <2>1
  <2> QED  BY <1>1, <2>1, <2>2 DEF TaskShape, ShapeOf
<1>6. /\ \A c \in Core : c # core => Microtasks'[c] = Microtasks[c]
      /\ Microtasks'[core] = Tail(s)
  BY <1>1 DEF TasksRight
<1>7. \A c \in Core : c # core => (Settled(c)' => Settled(c))
  BY <1>1, <1>6 DEF Settled
<1>8. ASSUME NEW i \in Invocation PROVE CoreOf(i) \in Core
  BY OneItem
<1>9. CoresRight'
  <2>1. CASE s[1].kind = "local"
    <3>1. Len(s) = 1 /\ PC' = [PC EXCEPT ![core] = CurrentPC]
      BY <1>1, <1>3, <1>5, <2>1 DEF TaskShape, ShapeOf
    <3>2. ASSUME NEW i \in Invocation, CoreOf(i) = core PROVE i \notin Left
      <4>1. InTask /\ Len(Microtasks[CoreOf(i)]) = 1
        BY <1>1, <3>1, <3>2 DEF InTask
      <4>2. ~Waits(i)
        BY <3>2, <4>1 DEF Waits
      <4> QED  BY <1>1, <4>2 DEF Left, ListedIn
    <3>3. ASSUME NEW i \in Invocation, CoreOf(i) = core PROVE CoreIs(i)'
      <4>1. PICK x \in Invocation : x = CurrentInvocation
        BY <1>3
      <4>2. PC'[core] = Current(x)'
        BY <1>1, <3>1, <4>1 DEF CurrentPC, Current, invocVars
      <4>3. TakenFrom(x, i)'
        BY <1>1, <1>2, <1>3, <3>2, <3>3, <4>1, <4>2 DEF TakenFrom
      <4>4. (Uniform /\ InvocTypes /\ ProgressRight /\ Together)'
        BY <1>1, <1>4 DEF Uniform, InvocTypes, ProgressRight, invocVars, groupVars
      <4> QED  BY <4>3, <4>4, CoreTakenThen
    <3>4. ASSUME NEW i \in Invocation, (Settled(CoreOf(i)) \/ i \in Left)' PROVE CoreIs(i)'
      <4>1. CASE CoreOf(i) = core
        BY <3>3, <4>1
      <4>2. CASE CoreOf(i) # core
        <5>1. CoreIs(i)
          BY <1>1, <1>2, <1>7, <1>8, <3>4, <4>2 DEF CoresRight
        <5>2. PC'[CoreOf(i)] = PC[CoreOf(i)]
          BY <1>1, <1>8, <3>1, <4>2
        <5> QED  BY <1>1, <5>1, <5>2, CoreKept DEF invocVars
      <4> QED  BY <4>1, <4>2
    <3>5. ASSUME NEW c \in Core, LanesOf(c) = {} PROVE PC'[c] = Null
      <4>1. s[1].lanes[1] \in LanesOf(core)
        BY <1>5
      <4> QED  BY <1>1, <3>1, <3>5, <4>1 DEF CoresRight
    <3> QED  BY <1>1, <3>4, <3>5 DEF CoresRight
  <2>2. CASE s[1].kind = "mem"
    <3>1. PC' = PC
      BY <1>1, <1>5, <2>2
    <3>2. ASSUME Tail(s) = <<>> PROVE Len(s) = 1
      <4>1. Len(Tail(s)) = Len(s) - 1
        BY <1>1, HeadTailProperties DEF TasksRight, OncePerLane
      <4>2. Len(s) - 1 = 0
        BY <3>2, <4>1
      <4> QED  BY <1>5, <4>2
    <3>3. ASSUME NEW c \in Core PROVE Settled(c)' => Settled(c)
      <4>1. CASE c = core
        BY <1>1, <1>6, <2>2, <3>2, <4>1 DEF Settled
      <4> QED  BY <1>7, <4>1
    <3> QED  BY <1>1, <1>2, <3>1, <3>3, CoresSame
  <2> QED  BY <1>5, <2>1, <2>2
<1>10. TodoRight' /\ CurrentRight' /\ PhaseRight'
  BY <1>1, <1>2, <1>3 DEF TodoRight, CurrentRight, PhaseRight, InTask, Passing, groupVars
<1> QED  BY <1>2, <1>4, <1>9, <1>10 DEF InRound

(* InOrder lists every lane: it has as many places as there are lanes, and   *)
(* no lane twice.                                                            *)
LEMMA AllListed ==
  ASSUME NEW c \in Core, NEW ls \in {Assigned, LanesOf(c)}, NEW l \in ls
  PROVE  ListedIn(InOrder(ls), l)
<1> DEFINE s == InOrder(ls)
           n == Cardinality(ls)
           T == {s[k] : k \in 1..n}
<1>1. /\ n \in Nat /\ s \in Seq(ls) /\ Len(s) = n
      /\ \A i, j \in 1..n : s[i] = s[j] => i = j
  BY LanesInOrder
<1>2. IsFiniteSet(ls)
  <2>1. IsFiniteSet(0..(NumGroups - 1))
    BY FS_Interval, SizeAssumption
  <2>2. ls \in SUBSET (0..(NumGroups - 1))
    BY DEF Assigned, LanesOf
  <2> QED  BY <2>1, <2>2, FS_Subset
<1>3. s \in [1..n -> ls]
  BY <1>1
<1> HIDE DEF s, n
<1>4. IsFiniteSet(1..n) /\ Cardinality(1..n) = n
  BY <1>1, FS_Interval
<1>5. s \in Injection(1..n, ls)
  BY <1>1, <1>3 DEF Injection, IsInjective
<1>6. s \in Surjection(1..n, ls)
  BY <1>2, <1>4, <1>5, FS_Injection DEF n
<1> QED  BY <1>1, <1>6 DEF Surjection, ListedIn, s

\* A list of microtasks that visits a lane.
VisitedBy(s, i) == \E t \in 1..Len(s) : ListedIn(s[t].lanes, i)

(* The microtasks doPrepareTick makes for a core visit all of its lanes,     *)
(* unless the core has no instruction left.                                  *)
LEMMA TasksOfAll ==
  ASSUME NEW c \in Core
  PROVE  /\ PC[c] = Null => TasksOf(c) = <<>>
         /\ \A i \in LanesOf(c) : PC[c] # Null => VisitedBy(TasksOf(c), i)
         /\ (LanesOf(c) = {} => PC[c] = Null) => ShapeOf(TasksOf(c))
<1> DEFINE ls == LanesOf(c)
           n  == Cardinality(ls)
           s  == InOrder(ls)
<1>1. /\ n \in Nat /\ s \in Seq(ls) /\ Len(s) = n
  BY LanesInOrder
<1>2. \A i \in ls : ListedIn(s, i)
  BY AllListed
<1>3. TasksOf(c) = CASE PC[c] = Null  -> <<>>
                     [] PC[c] = "mem" -> [i \in 1..n |-> [kind |-> "mem", lanes |-> <<s[i]>>]]
                     [] OTHER         -> <<[kind |-> "local", lanes |-> s]>>
  BY DEF TasksOf
<1> HIDE DEF n, s, ls
<1>4. CASE PC[c] = Null
  <2>1. TasksOf(c) = <<>> /\ Len(<<>>) = 0
    BY <1>3, <1>4, CallAssumption DEF Kind
  <2> QED  BY <1>4, <2>1 DEF ShapeOf
<1>5. CASE PC[c] # Null /\ PC[c] = "mem"
  <2> DEFINE q == [i \in 1..n |-> [kind |-> "mem", lanes |-> <<s[i]>>]]
  <2>1. TasksOf(c) = q
    BY <1>3, <1>5
  <2>2. /\ Len(q) = n
        /\ \A i \in 1..n : q[i].kind = "mem" /\ q[i].lanes = <<s[i]>>
    BY <1>1
  <2> HIDE DEF q
  <2>3. ShapeOf(q)
    <3>1. ASSUME NEW t \in 1..Len(q)
          PROVE  q[t].kind = "mem" /\ Len(q[t].lanes) = 1 /\ q[t].lanes # <<>>
      <4>1. q[t].kind = "mem" /\ q[t].lanes = <<s[t]>>
        BY <2>2
      <4>2. Len(<<s[t]>>) = 1 /\ <<s[t]>> # <<>>
        OBVIOUS
      <4> QED  BY <4>1, <4>2
    <3> QED  BY <3>1 DEF ShapeOf
  <2>4. ASSUME NEW i \in ls PROVE VisitedBy(q, i)
    <3>1. PICK k \in 1..n : s[k] = i
      BY <1>1, <1>2 DEF ListedIn
    <3>2. ListedIn(<<s[k]>>, i)
      BY <3>1 DEF ListedIn
    <3> QED  BY <2>2, <3>1, <3>2 DEF VisitedBy
  <2> QED  BY <1>5, <2>1, <2>3, <2>4 DEF ls
<1>6. CASE PC[c] # Null /\ PC[c] # "mem"
  <2> DEFINE q == <<[kind |-> "local", lanes |-> s]>>
  <2>1. TasksOf(c) = q
    BY <1>3, <1>6
  <2>2. Len(q) = 1 /\ q[1].kind = "local" /\ q[1].lanes = s
    OBVIOUS
  <2> HIDE DEF q
  <2>3. \A i \in ls : VisitedBy(q, i)
    BY <1>2, <2>2 DEF VisitedBy
  <2>4. ASSUME ls # {} PROVE ShapeOf(q)
    <3>1. s # <<>>
      <4>1. PICK i \in ls : ListedIn(s, i)
        BY <1>2, <2>4
      <4> QED  BY <4>1 DEF ListedIn
    <3> QED  BY <2>2, <3>1 DEF ShapeOf
  <2> QED  BY <1>6, <2>1, <2>3, <2>4 DEF ls
<1> QED  BY <1>4, <1>5, <1>6

(* When the microtasks are done, all invocations are at one place, and the   *)
(* PC of a core tells whether they have ended.                               *)
LEMMA WhenDone ==
  ASSUME Uniform, ExecInv, InRound, ~InTask, pc # "start", ~Queued
  PROVE  /\ Left = {} /\ \A i \in Invocation : CoreIs(i)
         /\ \A i \in Invocation : PC[CoreOf(i)] = Null => executed[i] = Len(program[i])
         /\ AllDone => AllExecuted
         /\ ~AllDone /\ AllExecuted => meddled
<1>1. /\ InvocTypes /\ ProgressRight /\ CoresRight /\ Together
      /\ \A c \in Core : Microtasks[c] = <<>>
  BY DEF ExecInv, InRound, Queued
<1>2. ASSUME NEW i \in Invocation PROVE CoreOf(i) \in Core
  BY OneItem
<1>3. Left = {}
  <2>1. \A i \in Invocation : ~Waits(i)
    BY <1>1, <1>2 DEF Waits
  <2> QED  BY <2>1 DEF Left
<1>4. ASSUME NEW i \in Invocation PROVE CoreIs(i)
  BY <1>1, <1>2 DEF Settled, CoresRight
<1>5. ASSUME NEW i \in Invocation PROVE PC[CoreOf(i)] = Null => executed[i] = Len(program[i])
  BY <1>1, <1>4, CurrentNull DEF CoreIs
<1>6. AllDone => AllExecuted
  BY <1>2, <1>5 DEF AllDone, AllExecuted
<1>7. ASSUME AllExecuted, ~meddled PROVE AllDone
  <2>1. ASSUME NEW i \in Invocation PROVE PC[CoreOf(i)] = Null
    BY <1>1, <1>4, <1>7, CurrentNull DEF CoreIs, AllExecuted
  <2>2. ASSUME NEW c \in Core PROVE PC[c] = Null
    <3>1. CASE LanesOf(c) = {}
      BY <1>1, <3>1 DEF CoresRight
    <3>2. CASE LanesOf(c) # {}
      <4>1. PICK i \in Assigned : CoreOf(i) = c
        BY <3>2 DEF LanesOf
      <4> QED  BY <2>1, <4>1, OneItem
    <3> QED  BY <3>1, <3>2
  <2> QED  BY <2>2 DEF AllDone
<1> QED  BY <1>3, <1>4, <1>5, <1>6, <1>7

(* The next microtasks are prepared: for all lanes or, when the invocations  *)
(* have ended, for none.                                                     *)
LEMMA PrepareRound ==
  ASSUME Uniform, ExecInv, InRound, ~InTask, ~InTask', pc # "start", pc' # "start",
         ~Queued, Prepare, UNCHANGED <<invocVars, PC, meddled>>
  PROVE  /\ TaskShape' /\ TodoRight'
         /\ AllDone => AllExecuted /\ Left' = {} /\ Together' /\ CoresRight'
         /\ ~AllDone => \/ meddled /\ AllExecuted
                        \/ Left' = Invocation /\ Together' /\ CoresRight'
<1>1. /\ InvocTypes /\ ProgressRight /\ CoresRight /\ Together
      /\ \A c \in Core : Microtasks[c] = <<>>
  BY DEF ExecInv, InRound, Queued
<1>2. /\ Left = {} /\ \A i \in Invocation : CoreIs(i)
      /\ \A i \in Invocation : PC[CoreOf(i)] = Null => executed[i] = Len(program[i])
      /\ AllDone => AllExecuted
      /\ ~AllDone /\ AllExecuted => meddled
  BY WhenDone
<1>3. ASSUME NEW c \in Core PROVE Microtasks'[c] = TasksOf(c)
  <2>1. Microtasks'[c] = <<>> \o TasksOf(c)
    BY <1>1 DEF Prepare
  <2>2. TasksOf(c) \in Seq([kind : {"local", "mem"}, lanes : Seq(LanesOf(c))])
    BY TasksOfRight DEF OncePerLane
  <2> QED  BY <2>1, <2>2, ConcatEmptySeq
<1>4. TaskShape' /\ TodoRight'
  <2>1. ASSUME NEW c \in Core PROVE ShapeOf(Microtasks'[c])
    BY <1>1, <1>3, TasksOfAll DEF CoresRight
  <2> QED  BY <2>1 DEF TaskShape, ShapeOf, TodoRight
<1>5. ASSUME NEW i \in Invocation PROVE i \in Left' <=> PC[CoreOf(i)] # Null
  <2>1. CoreOf(i) \in Core /\ i \in LanesOf(CoreOf(i))
    BY OneItem
  <2>2. i \in Left' <=> VisitedBy(Microtasks'[CoreOf(i)], i)
    BY DEF Left, Waits, Visits, VisitedBy, ListedIn
  <2>3. PC[CoreOf(i)] # Null => VisitedBy(TasksOf(CoreOf(i)), i)
    BY <2>1, TasksOfAll
  <2>4. PC[CoreOf(i)] = Null => ~VisitedBy(TasksOf(CoreOf(i)), i)
    BY <2>1, TasksOfAll DEF VisitedBy
  <2> QED  BY <1>3, <2>1, <2>2, <2>3, <2>4
<1>6. CoresRight'
  <2>1. ASSUME NEW i \in Invocation PROVE CoreIs(i)'
    BY <1>1, <1>2, CoreKept DEF invocVars
  <2> QED  BY <1>1, <2>1 DEF CoresRight
<1>7. ASSUME NEW i \in Invocation, NEW j \in Invocation PROVE SameState(i, j) /\ SameState(i, j)'
  BY <1>1, <1>2 DEF Together, SameState, invocVars
<1>8. CASE AllDone
  <2>1. Left' = {}
    <3>1. \A i \in Invocation : i \notin Left'
      BY <1>5, <1>8, OneItem DEF AllDone
    <3> QED  BY <3>1 DEF Left
  <2> QED  BY <1>2, <1>4, <1>6, <1>7, <1>8, <2>1 DEF Together
<1>9. CASE ~AllDone
  <2>1. CASE AllExecuted
    BY <1>2, <1>4, <1>9, <2>1
  <2>2. CASE ~AllExecuted
    <3>1. PICK j \in Invocation : executed[j] # Len(program[j])
      BY <2>2 DEF AllExecuted
    <3>2. ASSUME NEW i \in Invocation PROVE executed[i] < Len(program[i])
      <4>1. executed[i] = executed[j] /\ program[i] = program[j]
        BY <1>1, <1>7, SameProgram DEF SameState
      <4> QED  BY <1>1, <3>1, <4>1, SameProgram DEF ProgressRight
    <3>3. ASSUME NEW i \in Invocation PROVE i \in Left'
      BY <1>1, <1>2, <1>5, <3>2, SameProgram, CurrentNull DEF CoreIs
    <3>4. Left' = Invocation
      BY <3>3 DEF Left
    <3> QED  BY <1>4, <1>6, <1>7, <1>9, <3>2, <3>4 DEF Together, invocVars
  <2> QED  BY <2>1, <2>2
<1> QED  BY <1>8, <1>9

(* A round ends, and step prepares the next one or finishes.                 *)
LEMMA TickRound ==
  ASSUME Uniform, ExecInv, InRound, TickDone, UNCHANGED debugVars
  PROVE  LockInv'
<1>1. /\ Together /\ CoresRight /\ TaskShape /\ TodoRight /\ CurrentRight /\ PhaseRight
      /\ InvocTypes /\ ProgressRight /\ pc = "tick" /\ call = "step"
      /\ UNCHANGED <<invocVars, groupVars, PC, mask, call, front, meddled>>
  BY DEF InRound, ExecInv, TickDone, PhaseRight, debugVars
<1>2. ~InTask
  BY <1>1 DEF InTask
<1>3. CASE Queued
  <2>1. pc' = "tick" /\ UNCHANGED Microtasks
    BY <1>1, <1>3 DEF TickDone
  <2>2. Together' /\ CoresRight' /\ TaskShape' /\ TodoRight' /\ Left' = Left
    BY <1>1, <2>1, IdleRound DEF InTask
  <2>3. CurrentRight' /\ PhaseRight'
    BY <1>1, <2>1 DEF CurrentRight, PhaseRight, Passing, groupVars
  <2> QED  BY <2>2, <2>3 DEF InRound, LockInv
<1>4. CASE ~Queued
  <2>1. Prepare /\ pc' = IF AllDone THEN "finished" ELSE "collect"
    BY <1>1, <1>4 DEF TickDone
  <2>2. ~InTask' /\ pc' # "start"
    BY <2>1 DEF InTask
  <2>3. /\ TaskShape' /\ TodoRight'
        /\ AllDone => AllExecuted /\ Left' = {} /\ Together' /\ CoresRight'
        /\ ~AllDone => \/ meddled /\ AllExecuted
                       \/ Left' = Invocation /\ Together' /\ CoresRight'
    BY <1>1, <1>2, <1>4, <2>1, <2>2, PrepareRound
  <2>4. AllExecuted => AllExecuted'
    BY <1>1 DEF AllExecuted, invocVars
  <2>5. CurrentRight'
    BY <1>1, <2>1 DEF CurrentRight, Passing, groupVars
  <2>6. CASE AllDone
    <3>1. PhaseRight'
      BY <1>1, <2>1, <2>3, <2>4, <2>6 DEF PhaseRight
    <3> QED  BY <2>3, <2>5, <2>6, <3>1 DEF InRound, LockInv
  <2>7. CASE ~AllDone /\ meddled /\ AllExecuted
    BY <1>1, <2>4, <2>7 DEF LockInv
  <2>8. CASE ~AllDone /\ ~(meddled /\ AllExecuted)
    <3>1. PhaseRight'
      BY <1>1, <2>1, <2>3, <2>8 DEF PhaseRight
    <3> QED  BY <2>3, <2>5, <2>8, <3>1 DEF InRound, LockInv
  <2> QED  BY <2>6, <2>7, <2>8
<1> QED  BY <1>3, <1>4

(* The debugger steps all lanes.                                             *)
LEMMA CallRound ==
  ASSUME Uniform, ExecInv, InRound, NextStep PROVE LockInv'
<1>1. /\ Together /\ CoresRight /\ TaskShape /\ TodoRight /\ CurrentRight /\ PhaseRight
      /\ InvocTypes /\ ProgressRight /\ pc = "idle" /\ mask' = Lane /\ call' = "step"
      /\ UNCHANGED <<invocVars, groupVars, PC, todo, front, meddled>> /\ prompt' = "none"
  BY DEF InRound, ExecInv, NextStep, Call
<1>2. ~InTask
  BY <1>1 DEF InTask
<1>3. CASE Queued \/ AllDone
  <2>1. pc' = (IF Queued THEN "tick" ELSE "finished") /\ UNCHANGED Microtasks
    BY <1>3 DEF NextStep, Call
  <2>2. Together' /\ CoresRight' /\ TaskShape' /\ TodoRight' /\ Left' = Left
    BY <1>1, <1>2, <2>1, IdleRound DEF InTask
  <2>3. ~Queued => AllExecuted'
    BY <1>1, <1>2, <1>3, WhenDone DEF AllExecuted, invocVars
  <2>4. CurrentRight' /\ PhaseRight'
    BY <1>1, <2>1, <2>2, <2>3 DEF CurrentRight, PhaseRight, Passing, groupVars
  <2> QED  BY <2>2, <2>4 DEF InRound, LockInv
<1>4. CASE ~Queued /\ ~AllDone
  <2>1. Prepare /\ pc' = "tick"
    BY <1>4 DEF NextStep, Call
  <2>2. /\ TaskShape' /\ TodoRight'
        /\ \/ meddled /\ AllExecuted
           \/ Left' = Invocation /\ Together' /\ CoresRight'
    BY <1>1, <1>2, <1>4, <2>1, PrepareRound DEF InTask
  <2>3. CurrentRight' /\ PhaseRight'
    BY <1>1, <2>1 DEF CurrentRight, PhaseRight, Passing, groupVars
  <2>4. AllExecuted => AllExecuted'
    BY <1>1 DEF AllExecuted, invocVars
  <2> QED  BY <1>1, <2>2, <2>3, <2>4 DEF InRound, LockInv
<1> QED  BY <1>3, <1>4

(* start makes every lane's invocation current in turn, and its core has the *)
(* PC of the entry point.                                                    *)
LEMMA StartRound ==
  ASSUME Uniform, ExecInv, InRound, StartLane \/ Started, UNCHANGED debugVars
  PROVE  InRound'
<1>1. /\ Together /\ CoresRight /\ TaskShape /\ TodoRight /\ CurrentRight /\ PhaseRight
      /\ InvocTypes /\ ProgressRight /\ GroupTypes /\ OnePlace /\ ControlTypes
      /\ pc = "start" /\ UNCHANGED <<invocVars, Microtasks, front, meddled>>
      /\ \A c \in Core : Microtasks[c] = <<>>
  BY DEF InRound, ExecInv, PhaseRight, StartLane, Started, coreVars, debugVars
<1>2. ~InTask /\ ~InTask'
  BY <1>1 DEF InTask, StartLane, Started
<1>3. Left = {}
  <2>1. \A i \in Invocation : ~Waits(i)
    BY <1>1, OneItem DEF Waits
  <2> QED  BY <1>2, <2>1 DEF Left
<1>4. Left' = {} /\ TodoRight' /\ TaskShape'
  BY <1>1, <1>2, <1>3, LeftIdle
<1>5. Together'
  BY <1>1, <1>3, <1>4, TogetherSame
<1>6. CASE StartLane
  <2> DEFINE h == Head(todo)
  <2>1. /\ h \in Invocation /\ todo \in Seq(Assigned) /\ todo # <<>> /\ todo' = Tail(todo)
        /\ pc' = "start" /\ PC \in [Core -> Kind \cup {Null}]
        /\ PC' = [PC EXCEPT ![CoreOf(h)] = CurrentPC']
    BY <1>1, <1>6, OneItem DEF StartLane, ControlTypes, LogCoord
  <2>2. CurrentInvocation' = h /\ CurrentGroup' = h /\ completed' = {} /\ h # Null
    BY <1>1, <1>6, <2>1, SwtchFinds, OneItem DEF StartLane, CurrentRight, LogCoord
  <2> HIDE DEF h
  <2>3. ASSUME NEW i \in Invocation, CoreIs(i) \/ ListedIn(todo, i)
        PROVE  CoreIs(i)' \/ ListedIn(todo, i)'
    <3>1. CoreOf(i) \in Core /\ CoreOf(h) \in Core
      BY <2>1, OneItem
    <3>2. CASE CoreOf(i) = CoreOf(h)
      <4>1. PICK x \in Invocation : x = h
        BY <2>1
      <4>2. PC'[CoreOf(i)] = Current(x)'
        BY <1>1, <2>1, <2>2, <3>1, <3>2, <4>1 DEF CurrentPC, Current, invocVars
      <4>3. TakenFrom(x, i)'
        BY <1>4, <4>2 DEF TakenFrom
      <4>4. (Uniform /\ InvocTypes /\ ProgressRight /\ Together)'
        BY <1>1, <1>5, <2>2 DEF Uniform, InvocTypes, ProgressRight, invocVars
      <4> QED  BY <4>3, <4>4, CoreTakenThen
    <3>3. CASE CoreOf(i) # CoreOf(h)
      <4>1. PC'[CoreOf(i)] = PC[CoreOf(i)] /\ i # h
        BY <2>1, <3>1, <3>3
      <4>2. CoreIs(i) => CoreIs(i)'
        BY <1>1, <4>1, CoreKept DEF invocVars
      <4>3. ListedIn(todo, i) => ListedIn(Tail(todo), i)
        BY <2>1, <4>1, TailKeeps DEF h
      <4> QED  BY <2>1, <2>3, <4>2, <4>3 DEF ListedIn
    <3> QED  BY <3>2, <3>3
  <2>4. ASSUME NEW c \in Core, LanesOf(c) = {} PROVE PC'[c] = Null
    <3>1. c # CoreOf(h)
      BY <2>1, <2>4, OneItem
    <3> QED  BY <1>1, <2>1, <2>4, <3>1 DEF CoresRight
  <2>5. CoresRight'
    BY <1>1, <1>4, <2>1, <2>3, <2>4 DEF CoresRight, Settled
  <2>6. CurrentRight' /\ PhaseRight'
    BY <1>1, <1>4, <2>1, <2>2 DEF CurrentRight, PhaseRight, Passing
  <2> QED  BY <1>4, <1>5, <2>5, <2>6 DEF InRound
<1>7. CASE Started
  <2>1. pc' = "idle" /\ todo = <<>> /\ UNCHANGED <<groupVars, PC>>
    BY <1>7 DEF Started, coreVars
  <2>2. ASSUME NEW i \in Invocation PROVE CoreIs(i)'
    <3>1. CoreIs(i)
      BY <1>1, <2>1 DEF CoresRight, ListedIn
    <3> QED  BY <1>1, <2>1, <3>1, CoreKept DEF invocVars
  <2>3. CoresRight'
    BY <1>1, <2>1, <2>2 DEF CoresRight
  <2>4. CurrentRight' /\ PhaseRight'
    BY <1>1, <1>4, <2>1 DEF CurrentRight, PhaseRight, Passing, groupVars
  <2> QED  BY <1>4, <1>5, <2>3, <2>4 DEF InRound
<1> QED  BY <1>6, <1>7

(* step collects the states of the lanes and returns; the dispatch stops.    *)
LEMMA CollectRound ==
  ASSUME Uniform, ExecInv, InRound, CollectLane \/ StepDone \/ Stop, UNCHANGED debugVars
  PROVE  InRound'
<1>1. /\ Together /\ CoresRight /\ TaskShape /\ TodoRight /\ CurrentRight /\ PhaseRight
      /\ InvocTypes /\ ProgressRight /\ GroupTypes /\ ControlTypes
      /\ UNCHANGED <<invocVars, PC, Microtasks, mask, call, front, meddled>>
      /\ pc # "stopped" => OnePlace
  BY DEF InRound, ExecInv, CollectLane, StepDone, Stop, coreVars, debugVars
<1>2. /\ pc \in {"collect", "finished"}
      /\ pc' \in {"collect", "finished", "crashed", "idle", "stopped"}
  BY DEF CollectLane, StepDone, Stop
<1>3. Together' /\ CoresRight' /\ TaskShape' /\ TodoRight' /\ Left' = Left
  BY <1>1, <1>2, IdleRound DEF InTask
<1>4. CASE CollectLane
  <2>1. /\ Head(todo) \in Invocation /\ InMask(Head(todo)) /\ pc = "collect" /\ pc' = "collect"
    BY <1>1, <1>4, LaneInvocation, OneItem DEF CollectLane, LogCoord, InMask, PhaseRight
  <2>2. /\ CurrentInvocation' = Head(todo) /\ CurrentGroup' = Head(todo) /\ completed' = {}
        /\ Head(todo) # Null
    BY <1>1, <1>4, <2>1, SwtchFinds, OneItem DEF CollectLane, LogCoord, CurrentRight
  <2>3. CurrentRight' /\ PhaseRight'
    BY <1>1, <1>3, <2>1, <2>2 DEF CurrentRight, PhaseRight, Passing
  <2> QED  BY <1>3, <2>3 DEF InRound
<1>5. CASE StepDone
  <2>1. CurrentInvocation \in Invocation /\ CurrentInvocation # Null /\ CurrentGroup # Null
        /\ pc = "collect" /\ Left = Invocation
    BY <1>1, <1>5 DEF StepDone, CurrentRight, GroupTypes, PhaseRight
  <2>2. executed[CurrentInvocation] < Len(program[CurrentInvocation])
    BY <1>1, <2>1 DEF Together
  <2>3. ~Finished(CurrentInvocation)
    BY <1>1, <2>1, <2>2, SameProgram DEF Finished
  <2>4. pc' = "idle" /\ UNCHANGED groupVars
    BY <1>5, <2>1, <2>3 DEF StepDone
  <2>5. CurrentRight' /\ PhaseRight'
    BY <1>1, <1>3, <2>1, <2>4 DEF CurrentRight, PhaseRight, Passing, groupVars
  <2> QED  BY <1>3, <2>5 DEF InRound
<1>6. CASE Stop
  <2>1. /\ pc = "finished" /\ pc' = "stopped"
        /\ UNCHANGED <<CurrentInvocation, CurrentGroup, completed>>
    BY <1>6 DEF Stop
  <2>2. CurrentRight' /\ PhaseRight'
    BY <1>1, <1>3, <2>1 DEF CurrentRight, PhaseRight, Passing, AllExecuted, invocVars
  <2> QED  BY <1>3, <2>2 DEF InRound
<1> QED  BY <1>4, <1>5, <1>6

(* The debugger looks on, or a lane reports an error.                        *)
LEMMA QuietRound ==
  ASSUME Uniform, ExecInv, InRound, UNCHANGED <<vars, front, meddled>>,
         prompt' = "error" /\ prompt # "error" =>
           CurrentInvocation = Head(todo) /\ CurrentInvocation # Null
  PROVE  InRound'
<1>1. /\ Together /\ CoresRight /\ TaskShape /\ TodoRight /\ CurrentRight /\ PhaseRight
  BY DEF InRound
<1>2. UNCHANGED <<invocVars, PC, Microtasks, CurrentInvocation, CurrentGroup, completed, mask,
                  call, core, todo, pc, front, meddled>>
  BY DEF vars, groupVars, coreVars
<1>3. (InTask' <=> InTask) /\ (Passing' <=> Passing)
  BY <1>2 DEF InTask, Passing
<1>4. Left' = Left /\ TodoRight'
  BY <1>1, <1>2, <1>3, LeftSame
<1>5. Together'
  BY <1>1, <1>2, <1>4, TogetherSame
<1>6. CoresRight'
  BY <1>1, <1>2, <1>4 DEF CoresRight, Settled, CoreIs, Current, ListedIn, invocVars
<1>7. TaskShape'
  BY <1>1, <1>2 DEF TaskShape, ShapeOf
<1>8. CurrentRight'
  BY <1>1, <1>2, <1>4 DEF CurrentRight, Passing, Ready, invocVars
<1>9. PhaseRight'
  BY <1>1, <1>2, <1>4 DEF PhaseRight, AllExecuted, invocVars
<1> QED  BY <1>4, <1>5, <1>6, <1>7, <1>8, <1>9 DEF InRound

(* The user switches to another invocation; at the prompt of an error that   *)
(* is the one the microtask takes the PC from.                               *)
LEMMA SwtchRound ==
  ASSUME Uniform, ExecInv, InRound, NEW id \in Invocation, SwtchCommand(id)
  PROVE  InRound'
<1>1. /\ Together /\ CoresRight /\ TaskShape /\ TodoRight /\ CurrentRight /\ PhaseRight
      /\ InvocTypes /\ ProgressRight /\ GroupTypes /\ PromptRight
      /\ UNCHANGED <<invocVars, PC, Microtasks, pc, mask, call, core, todo, front, prompt>>
      /\ meddled' = (meddled \/ prompt = "error")
  BY DEF InRound, ExecInv, SwtchCommand, coreVars
<1>2. pc \in {"idle", "work"} /\ (prompt = "error" <=> pc = "work")
  BY <1>1, NotStopped DEF SwtchCommand
<1>3. CurrentInvocation' = id /\ CurrentGroup' = id /\ completed' = {} /\ id # Null
  BY <1>1, <1>2, SwtchFinds, OneItem DEF SwtchCommand, ExecInv, CurrentRight
<1>4. ~Passing /\ ~Passing' /\ (InTask' <=> InTask)
  BY <1>1, <1>2, <1>3 DEF CurrentRight, Passing, InTask
<1>5. Left' = Left /\ TodoRight'
  BY <1>1, <1>4, LeftSame
<1>6. \A c \in Core : Settled(c)' => Settled(c)
  BY <1>1 DEF Settled
<1>7. Together' /\ CoresRight'
  BY <1>1, <1>2, <1>5, <1>6, TogetherSame, CoresSame
<1>8. TaskShape'
  BY <1>1 DEF TaskShape, ShapeOf
<1>9. CurrentRight' /\ PhaseRight'
  BY <1>1, <1>2, <1>3, <1>4, <1>5 DEF CurrentRight, PhaseRight, Passing, AllExecuted, invocVars
<1> QED  BY <1>5, <1>7, <1>8, <1>9 DEF InRound

(* The prompt of an error is left: the instruction is executed.              *)
LEMMA LeavePrompt ==
  ASSUME Uniform, ExecInv, InRound, Cont \/ StepCommand, InvocTypes', ProgressRight'
  PROVE  InRound'
<1>1. /\ CurrentRight /\ PromptRight /\ TodoRight /\ Leave
      /\ prompt \in {"open", "error"} /\ pc # "crashed"
  BY DEF InRound, ExecInv, Cont, StepCommand, Prompted
<1>2. CASE prompt = "open"
  <2>1. UNCHANGED <<vars, front, meddled>> /\ prompt' = "closed"
    BY <1>1, <1>2 DEF Leave
  <2> QED  BY <2>1, QuietRound
<1>3. CASE prompt = "error"
  <2>1. pc = "work" /\ CurrentInvocation # Null /\ (~meddled => CurrentInvocation = Head(todo))
    BY <1>1, <1>3 DEF PromptRight, CurrentRight, Passing
  <2>2. stepping = Head(todo) /\ Ready(stepping) /\ Current(stepping) = "mem"
    BY <1>1, <1>3, <2>1 DEF PromptRight
  <2>3. /\ executed' = [executed EXCEPT ![Head(todo)] = @ + 1]
        /\ UNCHANGED <<program, atBarrier, groupVars, Microtasks, core, mask, call, front, meddled>>
        /\ LeaveLane
    BY <1>1, <1>3, <2>2 DEF Leave
  <2>4. atBarrier' = [atBarrier EXCEPT ![Head(todo)] = (Current(Head(todo)) = "barrier")]
    <3>1. Head(todo) \in Invocation
      BY <1>1, <2>1, AtWork
    <3> QED  BY <2>2, <2>3, <3>1 DEF Ready, ExecInv, InvocTypes
  <2> QED  BY <2>1, <2>2, <2>3, <2>4, ExecuteRound
<1> QED  BY <1>1, <1>2, <1>3

(* What no step changes.                                                     *)
Kept == program' = program /\ (meddled = TRUE => meddled' = TRUE)

(* No step changes the instructions of an invocation, or takes back that the *)
(* user has switched at the prompt of an error.                              *)
LEMMA StepKept ==
  ASSUME [DebugNext]_allVars PROVE Kept
<1>1. ASSUME UNCHANGED <<program, meddled>> PROVE Kept
  BY <1>1 DEF Kept
<1>2. ASSUME RunOn PROVE Kept
  <2>1. CASE \/ StartLane \/ Started \/ RunFront \/ TickDone \/ SkipLane \/ EnterLane
             \/ EndMicrotask \/ CollectLane \/ StepDone \/ Stop
    BY <1>1, <1>2, <2>1 DEF StartLane, Started, RunFront, TickDone, SkipLane, EnterLane,
                      EndMicrotask, CollectLane, StepDone, Stop, RunOn, debugVars, invocVars
  <2>2. CASE Worker
    BY <1>1, <1>2, <2>2 DEF Worker, StepInvocation, NextGroup, PickInvocation, ClearBarrier,
                      BarrierAbort, CompleteGroup, RunOn, debugVars, invocVars
  <2> QED  BY <1>2, <2>1, <2>2 DEF RunOn, Advance
<1>3. ASSUME NEW m, NEW entry, Call(m, entry), UNCHANGED meddled PROVE Kept
  BY <1>1, <1>3 DEF Call, invocVars
<1>4. CASE NextStep
  BY <1>3, <1>4 DEF NextStep
<1>5. CASE SessionCall
  BY <1>3, <1>5 DEF SessionCall, debugVars
<1>6. CASE Cont \/ StepCommand
  BY <1>1, <1>6 DEF Cont, StepCommand, Leave, vars, invocVars
<1>7. ASSUME NEW id, SwtchCommand(id) PROVE Kept
  BY <1>7 DEF SwtchCommand, invocVars, Kept
<1>8. CASE \/ Interact \/ ReportError \/ Quit \/ DebugEnded \/ UseOfNull
           \/ \E id \in ResultIds : Brk(id)
           \/ \E ns \in {DOMAIN Breakpoints} \cup {{n} : n \in DOMAIN Breakpoints} : Delete(ns)
           \/ UNCHANGED allVars
  BY <1>1, <1>8 DEF Interact, ReportError, Quit, DebugEnded, UseOfNull, Brk, Delete,
                    allVars, debugVars, vars, invocVars
<1> QED  BY <1>2, <1>4, <1>5, <1>6, <1>7, <1>8 DEF DebugNext, User

(* Invocations that have ended stay so.                                      *)
LEMMA EndedStays ==
  ASSUME ExecInv, [DebugNext]_allVars, meddled, AllExecuted
  PROVE  meddled' /\ AllExecuted'
<1>1. program' = program /\ meddled'
  BY StepKept DEF Kept
<1>2. InvocTypes /\ InvocTypes' /\ ProgressRight'
  BY InvocStep DEF ExecInv
<1>3. ASSUME NEW i \in Invocation PROVE executed'[i] = Len(program'[i])
  <2>1. executed[i] = Len(program[i]) /\ executed'[i] <= Len(program[i])
    BY <1>1, <1>2, <1>3 DEF AllExecuted, ProgressRight
  <2>2. executed[i] \in Nat /\ executed'[i] \in Nat
    BY <1>2 DEF InvocTypes
  <2>3. executed'[i] # executed[i] => executed'[i] = executed[i] + 1
    BY MaskStep DEF Masked
  <2> QED  BY <1>1, <2>1, <2>2, <2>3
<1> QED  BY <1>1, <1>3 DEF AllExecuted

(* Every step of the debugger keeps the round right.                         *)
LEMMA RoundStep ==
  ASSUME Uniform, ExecInv, InRound, [DebugNext]_allVars PROVE LockInv'
<1>0. /\ InvocTypes' /\ ProgressRight' /\ PromptRight /\ CurrentRight /\ front = "interactive"
  BY InvocStep DEF ExecInv, InRound, PhaseRight
<1>1. InRound' => LockInv'
  BY DEF LockInv
<1>2. CASE RunOn
  <2>1. Advance /\ prompt \in {"none", "closed"} /\ UNCHANGED debugVars
    BY <1>2 DEF RunOn
  <2>2. CASE StartLane \/ Started
    BY <1>1, <2>1, <2>2, StartRound
  <2>3. CASE RunFront
    BY <1>1, <2>1, <2>3, FrontRound
  <2>4. CASE TickDone
    BY <2>1, <2>4, TickRound
  <2>5. CASE SkipLane \/ EnterLane
    BY <1>1, <2>1, <2>5, EnterRound
  <2>6. CASE EndMicrotask
    BY <1>1, <2>1, <2>6, EndRound
  <2>7. CASE Worker
    BY <1>0, <1>1, <2>1, <2>7, WorkerRound
  <2>8. CASE CollectLane \/ StepDone \/ Stop
    BY <1>1, <2>1, <2>8, CollectRound
  <2> QED  BY <2>1, <2>2, <2>3, <2>4, <2>5, <2>6, <2>7, <2>8 DEF Advance
<1>3. CASE NextStep
  BY <1>3, CallRound
<1>4. ~SessionCall
  BY <1>0 DEF SessionCall
<1>5. CASE Cont \/ StepCommand
  BY <1>0, <1>1, <1>5, LeavePrompt
<1>6. ASSUME NEW id \in Invocation, SwtchCommand(id) PROVE LockInv'
  BY <1>1, <1>6, SwtchRound
<1>7. ~UseOfNull
  <2> SUFFICES ASSUME UseOfNull PROVE FALSE
    OBVIOUS
  <2>1. CurrentInvocation = Null /\ pc \in {"idle", "work"} /\ (prompt = "error" <=> pc = "work")
    BY <1>0, NotStopped DEF UseOfNull
  <2> QED  BY <1>0, <2>1 DEF CurrentRight, Passing
<1>8. CASE ReportError
  <2>1. UNCHANGED <<vars, front, meddled>> /\ CurrentInvocation # Null /\ pc = "work"
        /\ prompt = "none"
    BY <1>8 DEF ReportError, Working, NoReady
  <2>2. CurrentInvocation = Head(todo)
    BY <1>0, <2>1 DEF PromptRight
  <2> QED  BY <1>1, <2>1, <2>2, QuietRound
<1>9. CASE \/ Interact \/ Quit \/ DebugEnded
           \/ \E id \in ResultIds : Brk(id)
           \/ \E ns \in {DOMAIN Breakpoints} \cup {{n} : n \in DOMAIN Breakpoints} : Delete(ns)
           \/ UNCHANGED allVars
  <2>1. UNCHANGED <<vars, front, meddled>> /\ (prompt' = prompt \/ prompt' # "error")
    BY <1>9 DEF Interact, Quit, DebugEnded, Brk, Delete, allVars, debugVars
  <2> QED  BY <1>1, <2>1, QuietRound
<1> QED  BY <1>2, <1>3, <1>4, <1>5, <1>6, <1>7, <1>8, <1>9 DEF DebugNext, User

(* Every step of the debugger keeps the invariant.                           *)
LEMMA LockStepInv ==
  ASSUME Uniform, ExecInv, LockInv, [DebugNext]_allVars PROVE LockInv'
<1>1. CASE meddled /\ AllExecuted
  BY <1>1, EndedStays DEF LockInv
<1>2. CASE InRound
  BY <1>2, RoundStep
<1> QED  BY <1>1, <1>2 DEF LockInv

(* The dispatch starts with all invocations at their first instruction.      *)
LEMMA InitLock == ASSUME Uniform, DebugInit PROVE LockInv
<1>1. /\ executed = [i \in Invocation |-> 0] /\ atBarrier = [i \in Invocation |-> FALSE]
      /\ program \in Programs /\ CurrentInvocation = Null /\ completed = {}
      /\ PC = [c \in Core |-> Null] /\ Microtasks = [c \in Core |-> <<>>]
      /\ pc = "start" /\ todo = InOrder(Assigned) /\ front \in Fronts /\ prompt = "closed"
  BY DEF DebugInit, Init
<1>2. ~InTask /\ ~Passing
  BY <1>1 DEF InTask, Passing
<1>3. \A c \in Core : Microtasks[c] = <<>>
  BY <1>1
<1>4. Left = {}
  <2>1. \A i \in Invocation : ~Waits(i)
    BY <1>3, OneItem DEF Waits
  <2> QED  BY <1>2, <2>1 DEF Left
<1>5. Together
  BY <1>1, <1>4 DEF Together, SameState
<1>6. \A i \in Invocation : ListedIn(todo, i)
  <2>1. 0 \in Core /\ Invocation = Assigned
    BY SizeAssumption, OneItem DEF Core
  <2> QED  BY <1>1, <2>1, AllListed
<1>7. CoresRight
  BY <1>1, <1>4, <1>6 DEF CoresRight, Settled
<1>8. TaskShape /\ TodoRight
  BY <1>2, <1>3 DEF TaskShape, ShapeOf, TodoRight
<1>9. todo # <<>>
  BY <1>6, OneItem DEF ListedIn
<1>10. CurrentRight /\ PhaseRight
  BY <1>1, <1>2, <1>3, <1>4, <1>9 DEF CurrentRight, PhaseRight, Uniform
<1> QED  BY <1>5, <1>7, <1>8, <1>10 DEF LockInv, InRound

(* Between two steps, a core with microtasks left has a lane left to step.   *)
LEMMA FirstWaits ==
  ASSUME Uniform, ExecInv, TaskShape, ~InTask, NEW c \in Core, Microtasks[c] # <<>>
  PROVE  \E i \in Invocation : Waits(i)
<1>1. TasksRight
  BY DEF ExecInv
<1>2. /\ Len(Microtasks[c]) \in Nat \ {0} /\ Microtasks[c][1].lanes \in Seq(LanesOf(c))
      /\ 1 \in 1..Len(Microtasks[c])
  BY <1>1, TasksListed
<1>3. Microtasks[c][1].lanes # <<>>
  BY <1>2 DEF TaskShape, ShapeOf
<1>4. 1 \in 1..Len(Microtasks[c][1].lanes)
  BY <1>2, <1>3
<1>5. Visits(c, 1, Microtasks[c][1].lanes[1])
  BY <1>4 DEF Visits
<1>6. PICK i : i = Microtasks[c][1].lanes[1]
  OBVIOUS
<1>7. i \in LanesOf(c)
  BY <1>2, <1>4, <1>6, ElementOfSeq
<1>8. i \in Invocation /\ CoreOf(i) = c
  BY <1>7, OneItem DEF LanesOf
<1> QED  BY <1>2, <1>5, <1>6, <1>8 DEF Waits


(* The types of the debugger's variables.                                    *)
DebugTypes ==
  /\ front \in Fronts /\ Continue \in BOOLEAN /\ meddled \in BOOLEAN
  /\ NextBreakpoint \in 1..(MaxBreakpoints + 1) /\ DOMAIN Breakpoints \subseteq 1..MaxBreakpoints
  /\ prompt \in {"none", "open", "error", "closed", "quit"}
  /\ stepping \in Invocation \cup {Null} /\ errors \in 0..MaxErrors

(* Every step keeps them.                                                    *)
LEMMA DebugTypesStep ==
  ASSUME GroupTypes, DebugTypes, [DebugNext]_allVars PROVE DebugTypes'
<1>1. CASE RunOn \/ SessionCall \/ UseOfNull \/ DebugEnded \/ UNCHANGED allVars
  BY <1>1 DEF RunOn, SessionCall, UseOfNull, DebugEnded, DebugTypes, allVars, debugVars
<1>2. CASE NextStep \/ Quit
  BY <1>2 DEF NextStep, Quit, DebugTypes
<1>3. CASE Interact
  BY <1>3 DEF Interact, DebugTypes
<1>4. CASE ReportError
  <2>1. errors' \in 0..MaxErrors
    BY <1>4, FrontAssumption DEF ReportError, DebugTypes
  <2>2. stepping' \in Invocation \cup {Null} /\ Continue' \in BOOLEAN /\ prompt' = "error"
    BY <1>4 DEF ReportError, GroupTypes
  <2> QED  BY <1>4, <2>1, <2>2 DEF ReportError, DebugTypes
<1>5. CASE Cont \/ StepCommand
  BY <1>5 DEF Cont, StepCommand, Leave, DebugTypes
<1>6. ASSUME NEW id, Brk(id) PROVE DebugTypes'
  BY <1>6, FrontAssumption DEF Brk, DebugTypes
<1>7. ASSUME NEW ns, Delete(ns) PROVE DebugTypes'
  BY <1>7 DEF Delete, DebugTypes
<1>8. ASSUME NEW id, SwtchCommand(id) PROVE DebugTypes'
  BY <1>8 DEF SwtchCommand, DebugTypes
<1> QED  BY <1>1, <1>2, <1>3, <1>4, <1>5, <1>6, <1>7, <1>8 DEF DebugNext, User

(* They hold when the dispatch starts.                                       *)
LEMMA InitDebugTypes == DebugInit => DebugTypes
<1> SUFFICES ASSUME DebugInit PROVE DebugTypes
  OBVIOUS
<1>1. NextBreakpoint \in 1..(MaxBreakpoints + 1) /\ errors \in 0..MaxErrors
  BY FrontAssumption DEF DebugInit
<1>2. DOMAIN Breakpoints = {}
  BY DEF DebugInit
<1> QED  BY <1>1, <1>2 DEF DebugInit, DebugTypes

(* The invariant holds of a uniform dispatch, whatever the user does.        *)
THEOREM LockInvHolds == Uniform /\ DebugSpec => [](ExecInv /\ DebugTypes /\ LockInv)
<1> DEFINE Inv == ExecInv /\ DebugTypes /\ LockInv
<1> SUFFICES ASSUME Uniform PROVE DebugSpec => []Inv
  OBVIOUS
<1>1. DebugInit => Inv
  BY InitLock, InitExec, InitDebugTypes
<1>2. ExecInv /\ DebugTypes /\ LockInv /\ [DebugNext]_allVars => DebugTypes' /\ LockInv'
  BY LockStepInv, DebugTypesStep DEF ExecInv
<1>3. ExecInv /\ Inv /\ [DebugNext]_allVars => DebugTypes' /\ LockInv'
  BY <1>2
<1>4. DebugSpec => []ExecInv
  BY ExecInvHolds
<1> QED  BY <1>1, <1>3, <1>4, PTL DEF DebugSpec

(* Whatever invocation the user has switched to between two steps, the lanes *)
(* of a core are in lock step between one step and the next.                 *)
THEOREM LanesInLockStep == Uniform /\ DebugSpec => []DebugLockStep
<1>1. ASSUME Uniform, ExecInv, DebugTypes, LockInv PROVE DebugLockStep
  <2>1. DebugTypeOK
    BY <1>1, ExecTypes DEF DebugTypes, DebugTypeOK
  <2>2. ASSUME ~meddled, pc = "idle", NEW l \in Assigned
        PROVE  /\ PC[CoreOf(l)] = Current(LogCoord(l))
               /\ \A m \in LanesOf(CoreOf(l)) : executed[LogCoord(l)] = executed[LogCoord(m)]
    <3>1. Together /\ CoresRight /\ TaskShape /\ (Left = {} \/ Left = Invocation)
      BY <1>1, <2>2 DEF LockInv, InRound, PhaseRight
    <3>2. Invocation = Assigned /\ l \in Invocation
      BY <1>1, <2>2, OneItem
    <3>3. \A m \in Invocation : executed[l] = executed[m]
      BY <3>1, <3>2 DEF Together, SameState
    <3>4. CASE Left = Invocation
      BY <2>2, <3>1, <3>2, <3>3, <3>4 DEF CoresRight, CoreIs, LogCoord, LanesOf
    <3>5. CASE Left = {}
      <4>1. CoreOf(l) \in Core
        BY <1>1, <3>2, OneItem
      <4>2. ~InTask
        BY <2>2 DEF InTask
      <4>3. Microtasks[CoreOf(l)] = <<>>
        <5> SUFFICES ASSUME Microtasks[CoreOf(l)] # <<>> PROVE FALSE
          OBVIOUS
        <5>1. PICK i \in Invocation : Waits(i)
          BY <1>1, <3>1, <4>1, <4>2, FirstWaits
        <5> QED  BY <3>5, <5>1 DEF Left
      <4>4. CoreIs(l)
        BY <2>2, <3>1, <3>2, <4>3 DEF CoresRight, Settled
      <4> QED  BY <2>2, <3>2, <3>3, <4>4 DEF CoreIs, LogCoord, LanesOf
    <3> QED  BY <3>1, <3>4, <3>5
  <2> QED  BY <2>1, <2>2 DEF DebugLockStep, LockStep
<1> SUFFICES ASSUME Uniform PROVE DebugSpec => []DebugLockStep
  OBVIOUS
<1>2. ExecInv /\ DebugTypes /\ LockInv => DebugLockStep
  BY <1>1
<1>3. DebugSpec => [](ExecInv /\ DebugTypes /\ LockInv)
  BY LockInvHolds
<1> QED  BY <1>2, <1>3, PTL

(* step returns FINISHED only when no invocation has instructions left.      *)
THEOREM UniformCompletes == Uniform /\ DebugSpec => []DebugCompletes
<1> SUFFICES ASSUME Uniform PROVE DebugSpec => []DebugCompletes
  OBVIOUS
<1>1. ExecInv /\ DebugTypes /\ LockInv => DebugCompletes
  BY DEF LockInv, InRound, PhaseRight, AllExecuted, DebugCompletes, Completes
<1>2. DebugSpec => [](ExecInv /\ DebugTypes /\ LockInv)
  BY LockInvHolds
<1> QED  BY <1>1, <1>2, PTL

(* No assertion of step fails, no barrier aborts the dispatch and no null    *)
(* invocation is dereferenced, unless the user has switched at the prompt of *)
(* an error.                                                                 *)
THEOREM UniformRunsSafely ==
  Uniform /\ DebugSpec => [](~meddled => pc \notin {"aborted", "crashed"})
<1> SUFFICES ASSUME Uniform PROVE DebugSpec => [](~meddled => pc \notin {"aborted", "crashed"})
  OBVIOUS
<1>1. ExecInv /\ DebugTypes /\ LockInv => (~meddled => pc \notin {"aborted", "crashed"})
  BY DEF LockInv, InRound, PhaseRight
<1>2. DebugSpec => [](ExecInv /\ DebugTypes /\ LockInv)
  BY LockInvHolds
<1> QED  BY <1>1, <1>2, PTL

(* An instruction with a result is one that is still to be executed.         *)
LEMMA BrokenAlike ==
  ASSUME Uniform, InvocTypes, NEW i \in Invocation, NEW j \in Invocation,
         executed[i] = executed[j], atBarrier[i] = atBarrier[j], Broken(i)
  PROVE  Broken(j) /\ executed[i] # Len(program[i])
<1>1. program[i] = program[j] /\ executed[i] \in Nat /\ Len(program[i]) \in Nat
  BY SameProgram
<1>2. Current(i) = Current(j) /\ (Ready(i) <=> Ready(j)) /\ ResultId(i) = ResultId(j)
  BY <1>1 DEF Current, Ready, ResultId
<1> QED  BY <1>1, <1>2 DEF Broken, HasResult, Ready

(* No breakpoint is passed while the user continues, although interact looks *)
(* at the current invocation only.                                           *)
THEOREM UniformBreakpointsHit == Uniform /\ DebugSpec => BreakpointsHit
<1> SUFFICES ASSUME Uniform PROVE DebugSpec => BreakpointsHit
  OBVIOUS
<1> DEFINE Hit == prompt = "none" /\ prompt' = "closed" => \A i \in Invocation : ~Broken(i)
<1>1. ASSUME ExecInv, LockInv, [DebugNext]_allVars, prompt = "none", prompt' = "closed",
             NEW i \in Invocation
      PROVE  ~Broken(i)
  <2>1. Interact
    BY <1>1 DEF DebugNext, RunOn, NextStep, SessionCall, ReportError, User, Cont, StepCommand,
                Leave, Quit, UseOfNull, Brk, Delete, SwtchCommand, DebugEnded, Prompted,
                allVars, debugVars
  <2>2. pc = "idle" /\ InvocTypes /\ ProgressRight /\ GroupTypes
    BY <1>1, <2>1 DEF Interact, ExecInv
  <2>3. CASE AllExecuted
    BY <2>2, <2>3, BrokenAlike DEF AllExecuted
  <2>4. CASE InRound
    <3>1. /\ Together /\ (Left = {} \/ Left = Invocation)
          /\ CurrentInvocation \in Invocation /\ CurrentInvocation # Null
      BY <2>2, <2>4 DEF InRound, PhaseRight, CurrentRight, GroupTypes
    <3>2. ~Broken(CurrentInvocation)
      BY <1>1, <2>1, <3>1 DEF Interact
    <3>3. executed[i] = executed[CurrentInvocation] /\ atBarrier[i] = atBarrier[CurrentInvocation]
      BY <3>1 DEF Together, SameState
    <3> QED  BY <2>2, <3>1, <3>2, <3>3, BrokenAlike
  <2> QED  BY <1>1, <2>3, <2>4 DEF LockInv
<1>2. ExecInv /\ DebugTypes /\ LockInv /\ [DebugNext]_allVars => [Hit]_allVars
  BY <1>1
<1>3. DebugSpec => [](ExecInv /\ DebugTypes /\ LockInv)
  BY LockInvHolds
<1> HIDE DEF Hit
<1>4. DebugSpec => [][Hit]_allVars
  BY <1>2, <1>3, PTL DEF DebugSpec
<1> QED  BY <1>4 DEF Hit, BreakpointsHit
=================================================================================
