--------------------------- MODULE MCCommandQueue ---------------------------
(* Small instances of CommandQueue for TLC.                                *)
EXTENDS CommandQueue, TLC

CONSTANTS e1, e2

Work  == [op |-> "work", events |-> <<>>]
Set1  == [op |-> "setEvent", events |-> <<e1>>]
Reset1 == [op |-> "resetEvent", events |-> <<e1>>]
Wait12 == [op |-> "waitEvents", events |-> <<e1, e2>>]
Wait1 == [op |-> "waitEvents", events |-> <<e1>>]

\* Plain commands only: batches without and with a command.
PlainCommand == {Work}
PlainBatch == {<<>>, <<Work>>}

\* Fences alone: a fence is submitted, waited for, reset and submitted again.
FenceBatch == {<<>>}

\* Every event command, alone or behind another.
EventCommand == {Work, Set1, Reset1, Wait1, Wait12}
EventBatch == {<<Work>>, <<Set1>>, <<Reset1>>, <<Wait12>>, <<Wait1, Work>>}

HostSymmetry == Permutations(Host) \cup Permutations(Fence)
=============================================================================
