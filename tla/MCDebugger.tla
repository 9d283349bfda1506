------------------------------ MODULE MCDebugger ------------------------------
(***************************************************************************)
(* Instances of Debugger for TLC: the programs and the step masks.         *)
(***************************************************************************)
EXTENDS Debugger

\* Sequences of up to four instructions, the last of them a terminator.
Texts(kinds) == {Append(t, "other") : t \in UNION {[1..n -> kinds] : n \in 0..3}}

\* All invocations execute the same instructions, with barriers or without ...
UniformPrograms == {[i \in Invocation |-> t] : t \in Texts(Kind)}
\* ... or all but one of the invocations that have a lane take the same.
MixedTexts == {<<"other">>, <<"other", "barrier", "mem", "other">>}
MixedPrograms ==
  {[i \in Invocation |-> IF i = k THEN t ELSE u] : k \in {2}, t, u \in MixedTexts}

\* Masks: all lanes, single lanes, part of a core and across cores.
AllLanes == {Lane}
FewLanes == {Lane, {1, 3}}
===============================================================================
