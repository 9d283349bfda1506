---------------------------- MODULE AddressSpace ----------------------------
(***************************************************************************)
(* What an address space of the virtual device promises                    *)
(* (include/talvos/Memory.h).  Buffers live at distinct base addresses,    *)
(* none of them null, and only a store inside a buffer changes it.  A load *)
(* returns the contents; where there is no buffer it returns zeros, and a  *)
(* store is dropped (robust buffer access).                                *)
(*                                                                         *)
(* access is the latest operation as its caller sees it: what was asked,   *)
(* the data moved, and whether it was valid.                               *)
(***************************************************************************)
EXTENDS Integers, Sequences

CONSTANTS OffsetSpan, AddressSpan

VARIABLES buffers, access

vars == <<buffers, access>>

BaseOf(a) == a - (a % OffsetSpan)
Inside(a, n) == /\ BaseOf(a) \in DOMAIN buffers
                /\ (a % OffsetSpan) + n <= Len(buffers[BaseOf(a)])
Contents(a, n) ==
  SubSeq(buffers[BaseOf(a)], (a % OffsetSpan) + 1, (a % OffsetSpan) + n)
Zeros(n) == [i \in 1..n |-> 0]

\* buffers after data has been written at address a.
Written(a, data) ==
  [buffers EXCEPT ![BaseOf(a)] =
     [i \in 1..Len(@) |-> IF i - (a % OffsetSpan) \in 1..Len(data)
                          THEN data[i - (a % OffsetSpan)] ELSE @[i]]]

Init == buffers = <<>> /\ access.op = "none"

Create ==
  /\ access'.op = "allocate"
  /\ LET base == access'.address IN
       /\ base # 0 /\ base % OffsetSpan = 0 /\ base < AddressSpan
       /\ base \notin DOMAIN buffers
       /\ DOMAIN buffers' = DOMAIN buffers \cup {base}
       /\ \A b \in DOMAIN buffers : buffers'[b] = buffers[b]

Destroy ==
  /\ access'.op = "release" /\ access'.address \in DOMAIN buffers
  /\ buffers' = [b \in DOMAIN buffers \ {access'.address} |-> buffers[b]]

Load ==
  LET a == access'.address  n == Len(access'.data) IN
  /\ access'.op = "load" /\ access'.ok = Inside(a, n)
  /\ access'.data = IF Inside(a, n) THEN Contents(a, n) ELSE Zeros(n)
  /\ UNCHANGED buffers

Store ==
  LET a == access'.address  n == Len(access'.data) IN
  /\ access'.op = "store" /\ access'.ok = Inside(a, n)
  /\ buffers' = IF Inside(a, n) THEN Written(a, access'.data) ELSE buffers

\* access'.data is what is copied, from access'.source.
Copy ==
  LET a == access'.address  s == access'.source  n == Len(access'.data) IN
  /\ access'.op = "copy" /\ access'.ok = (Inside(a, n) /\ Inside(s, n))
  /\ access'.ok => access'.data = Contents(s, n)
  /\ buffers' = IF access'.ok THEN Written(a, access'.data) ELSE buffers

\* access'.data is the old value, access'.source the new one.
Atomic ==
  LET a == access'.address IN
  /\ access'.op = "atomic" /\ access'.ok = Inside(a, 1)
  /\ access'.data = IF Inside(a, 1) THEN Contents(a, 1) ELSE Zeros(1)
  /\ buffers' = IF Inside(a, 1) THEN Written(a, <<access'.source>>) ELSE buffers

Next == Create \/ Destroy \/ Load \/ Store \/ Copy \/ Atomic

Spec == Init /\ [][Next]_vars
=============================================================================
