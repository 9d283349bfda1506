---------------------------- MODULE CommandStream ----------------------------
(***************************************************************************)
(* What a Talvos queue promises to the threads that use it, without its    *)
(* thread, locks and condition variable (include/talvos/Queue.h): entries  *)
(* (commands and fences) take effect one at a time in the order in which   *)
(* they were submitted, a fence by becoming signaled, and waiting for the  *)
(* queue to be idle waits for everything that was submitted before.        *)
(***************************************************************************)
EXTENDS Naturals, Sequences

CONSTANTS
  Host,   \* the threads that use the queue
  Entry,  \* what they submit
  Fence   \* the entries among these that are fences

VARIABLES
  log,       \* every entry submitted, in order
  ran,       \* the entries that have taken effect, in order
  signaled,  \* the state of each fence
  ticket     \* how much of log each host waits for (0: it does not wait)

vars == <<log, ran, signaled, ticket>>

Init ==
  /\ log = <<>> /\ ran = <<>>
  /\ signaled \in [Fence -> BOOLEAN]
  /\ ticket = [h \in Host |-> 0]

Submit ==
  /\ log' \in Seq(Entry) /\ Len(log') > Len(log)
  /\ SubSeq(log', 1, Len(log)) = log
  /\ UNCHANGED <<ran, signaled, ticket>>

TakeEffect ==
  /\ Len(ran) < Len(log)
  /\ LET next == log[Len(ran) + 1] IN
       /\ ran' = Append(ran, next)
       /\ signaled' = [f \in Fence |-> f = next \/ signaled[f]]
  /\ UNCHANGED <<log, ticket>>

Reset(f) ==
  /\ signaled' = [signaled EXCEPT ![f] = FALSE]
  /\ UNCHANGED <<log, ran, ticket>>

WaitIdle(h) ==
  /\ ticket[h] = 0
  /\ ticket' = [ticket EXCEPT ![h] = Len(log)]
  /\ UNCHANGED <<log, ran, signaled>>

Return(h) ==
  /\ ticket[h] <= Len(ran)
  /\ ticket' = [ticket EXCEPT ![h] = 0]
  /\ UNCHANGED <<log, ran, signaled>>

Next ==
  \/ Submit \/ TakeEffect
  \/ \E f \in Fence : Reset(f)
  \/ \E h \in Host : WaitIdle(h) \/ Return(h)

Spec == Init /\ [][Next]_vars

(* Every entry takes effect in the end. *)
FairSpec == Spec /\ WF_vars(TakeEffect)
==============================================================================
