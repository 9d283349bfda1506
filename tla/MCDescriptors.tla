----------------------------- MODULE MCDescriptors -----------------------------
(* Small instances of Descriptors for TLC.                                     *)
EXTENDS Descriptors, TLC

L(count, type) == [count |-> count, type |-> type, immutable |-> FALSE]
\* Bindings that are empty, between others and at the end.
Dynamics == (0 :> L(2, "dynamic")) @@ (1 :> L(0, "buffer")) @@ (2 :> L(1, "dynamic"))
              @@ (3 :> L(1, "buffer")) @@ (4 :> L(0, "dynamic"))
\* Combined image samplers, the last with immutable samplers.
Samplers == (0 :> L(1, "combined")) @@ (1 :> L(2, "combined"))
              @@ (2 :> [L(1, "combined") EXCEPT !.immutable = TRUE])
\* A binding number that is not used.
Sparse == (0 :> L(1, "buffer")) @@ (2 :> L(1, "buffer")) @@ (3 :> L(1, "dynamic"))
AllLayouts == {Dynamics, Samplers, Sparse}
SetSymmetry == Permutations(Set)
================================================================================
