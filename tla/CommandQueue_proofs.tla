------------------------- MODULE CommandQueue_proofs -------------------------
(***************************************************************************)
(* Proofs about CommandQueue, for every set of hosts, commands, fences,    *)
(* events and batches and every bound.                                     *)
(***************************************************************************)
EXTENDS CommandQueue, Integers, TLAPS

USE DEF Entry, queueVars, threadVars, historyVars, Pushed, Inserted, Awaited, QueueIdle

(* Every initial state satisfies the inductive invariant: the queue is empty *)
(* and no host is in a call.                                                 *)
LEMMA InitInv == Init => Inv
<1> SUFFICES ASSUME Init PROVE Inv
  OBVIOUS
<1>1. TypeOK
  BY DEF Init, TypeOK, NoWait, WaitCall
<1>2. FencesQueued /\ FenceAtFront /\ CommandAtFront /\ DueExact /\ InOrder
  BY DEF Init, FencesQueued, FenceAtFront, CommandAtFront, DueExact, InOrder, Unpopped
<1>3. ScanExact /\ NoLostFenceWakeup /\ NoLostQueueWakeup
  BY DEF Init, ScanExact, NoLostFenceWakeup, NoLostQueueWakeup, NoWait
<1> QED  BY <1>1, <1>2, <1>3 DEF Inv

(* A call that takes a fence from those it has yet to read is still a call   *)
(* (LockFences, ReadFence).                                                  *)
LEMMA WaitUpdate ==
  ASSUME NEW w \in WaitCall, NEW unread \in SUBSET Fence, NEW seen \in SUBSET Fence
  PROVE  [w EXCEPT !.unread = unread, !.seen = seen] \in WaitCall
BY DEF WaitCall

(* A call whose timeout has passed is still a call (Expire).               *)
LEMMA WaitExpire ==
  ASSUME NEW w \in WaitCall PROVE [w EXCEPT !.expired = TRUE] \in WaitCall
BY DEF WaitCall

(* Every step of the queue thread and of the hosts keeps the types.          *)
LEMMA TypeStep == Inv /\ [Next]_vars => TypeOK'
<1> SUFFICES ASSUME Inv, [Next]_vars PROVE TypeOK'
  OBVIOUS
<1> USE DEF Inv, TypeOK
<1>1. CASE Test \/ Sleep \/ SpuriousWake \/ GoRound
  BY <1>1 DEF Test, Sleep, SpuriousWake, GoRound
<1>2. CASE FetchCommand
  BY <1>2, CommandAssumption DEF FetchCommand, FencesQueued
<1>3. CASE SignalFence
  BY <1>3 DEF SignalFence
<1>4. CASE EraseFence
  BY <1>4 DEF EraseFence, WakeIdlers, FenceAtFront
<1>5. CASE NotifyFence
  BY <1>5 DEF NotifyFence, WakeFenceWaiters
<1>6. CASE PassEvent
  BY <1>6 DEF PassEvent
<1>7. CASE FinishCommand
  <2>1. Cmd \in Command
    BY <1>7 DEF FinishCommand, CommandAtFront
  <2>2. isSet' \in [Event -> BOOLEAN]
    BY <1>7 DEF FinishCommand
  <2> QED  BY <1>7, <2>1, <2>2 DEF FinishCommand
<1>8. CASE Pop
  BY <1>8 DEF Pop, WakeIdlers
<1>9. ASSUME NEW h \in Host, HostThread(h) PROVE TypeOK'
  <2>1. ASSUME NEW batch \in Batch, NEW f \in Fence \cup {Null}, Submit(h, batch, f)
        PROVE  TypeOK'
    <3> DEFINE new == IF f = Null THEN batch ELSE Append(batch, f)
    <3>1. new \in Seq(Entry)
      BY BatchAssumption
    <3>2. Commands' = Commands \o new /\ log' = log \o new
      BY <2>1 DEF Submit
    <3> HIDE DEF new
    <3>3. Commands' \in Seq(Entry) /\ log' \in Seq(Entry)
      BY <3>1, <3>2
    <3>4. due' \in [Fence -> Nat]
      BY <2>1, <3>3 DEF Submit, Calls, MutexFree
    <3>5. owned' \in [Fence -> BOOLEAN]
      BY <2>1, <3>3 DEF Submit, Calls, MutexFree
    <3>6. Fences' \subseteq Fence
      BY <2>1, <3>3 DEF Submit, Calls, MutexFree
    <3> QED  BY <2>1, <3>3, <3>4, <3>5, <3>6 DEF Submit, Calls, MutexFree, WakeQueue, WakeIdlers
  <2>2. CASE WaitIdle(h)
    BY <2>2 DEF WaitIdle
  <2>3. CASE IdleReturn(h)
    <3>1. drained' = TRUE
      BY <2>3, Zenon DEF IdleReturn
    <3>2. ticket' \in [Host -> Nat]
      BY <2>3 DEF IdleReturn, MutexFree
    <3>3. hpc' = [hpc EXCEPT ![h] = "idle"]
      BY <2>3 DEF IdleReturn, MutexFree
    <3> QED  BY <2>3, <3>1, <3>2, <3>3 DEF IdleReturn, MutexFree
  <2>31. CASE IdleSleep(h)
    BY <2>31 DEF IdleSleep, MutexFree
  <2>4. ASSUME NEW fs \in (SUBSET Fence) \ {{}}, NEW all \in BOOLEAN, NEW t \in Timeouts,
               WaitForFences(h, fs, all, t)
        PROVE  TypeOK'
    <3>1. wait' \in [Host -> WaitCall]
      BY <2>4 DEF WaitForFences, NoWait, WaitCall
    <3> QED  BY <2>4, <3>1 DEF WaitForFences
  <2>5. CASE LockFences(h) \/ ReadFence(h) \/ FencesReturn(h) \/ Expire(h)
    <3>1. \E w \in WaitCall : wait' = [wait EXCEPT ![h] = w]
      <4>0. /\ wait[h] \in WaitCall
            /\ wait[h].fences \in SUBSET Fence
            /\ wait[h].unread \in SUBSET Fence /\ wait[h].seen \in SUBSET Fence
        BY DEF WaitCall
      <4>1. CASE LockFences(h)
        <5>1. [wait[h] EXCEPT !.unread = wait[h].fences, !.seen = {}] \in WaitCall
          BY <4>0, WaitUpdate
        <5> QED  BY <4>1, <5>1, Zenon DEF LockFences
      <4>2. CASE ReadFence(h)
        <5>1. PICK f \in wait[h].unread :
                wait' = [wait EXCEPT ![h] = [@ EXCEPT
                  !.unread = wait[h].unread \ {f},
                  !.seen = wait[h].seen \cup {g \in {f} : signaled[g]}]]
          BY <4>2, Zenon DEF ReadFence
        <5>2. /\ wait[h].unread \ {f} \in SUBSET Fence
              /\ wait[h].seen \cup {g \in {f} : signaled[g]} \in SUBSET Fence
          BY <4>0
        <5>3. [wait[h] EXCEPT !.unread = wait[h].unread \ {f},
                              !.seen = wait[h].seen \cup {g \in {f} : signaled[g]}] \in WaitCall
          BY <4>0, <5>2, WaitUpdate, Zenon
        <5> QED  BY <5>1, <5>3, Zenon
      <4>3. CASE FencesReturn(h)
        BY <4>3 DEF FencesReturn, NoWait, WaitCall
      <4>4. CASE Expire(h)
        <5>1. [wait[h] EXCEPT !.expired = TRUE] \in WaitCall
          BY <4>0, WaitExpire, Zenon
        <5>2. wait' = [wait EXCEPT ![h].expired = TRUE]
          BY <4>4, Zenon DEF Expire
        <5> QED  BY <5>1, <5>2, Zenon
      <4> QED  BY <2>5, <4>1, <4>2, <4>3, <4>4
    <3>2. wait' \in [Host -> WaitCall]
      BY <3>1
    <3> QED  BY <2>5, <3>2 DEF LockFences, ReadFence, FencesReturn, Expire
  <2>6. CASE FencesSleep(h) \/ Timer(h) \/ SpuriousHostWake(h)
    BY <2>6 DEF FencesSleep, Timer, SpuriousHostWake
  <2>7. CASE (\E f \in Fence : ResetFence(h, f))
             \/ (\E e \in Event : SetEvent(h, e) \/ ResetEvent(h, e))
    <3>1. CASE \E f \in Fence : ResetFence(h, f)
      BY <3>1 DEF ResetFence
    <3>2. CASE \E e \in Event : SetEvent(h, e)
      BY <3>2 DEF SetEvent
    <3>3. CASE \E e \in Event : ResetEvent(h, e)
      BY <3>3 DEF ResetEvent
    <3> QED  BY <2>7, <3>1, <3>2, <3>3
  <2>8. CASE Destroy(h)
    <3>1. /\ Running' = FALSE /\ Commands' = <<>> /\ qpc' = WakeQueue
          /\ hpc' = [hpc EXCEPT ![h] = "join"]
          /\ UNCHANGED <<Fences, Cmd, spin, signaled, isSet, wait, historyVars>>
      BY <2>8, Zenon DEF Destroy
    <3>2. Running' \in BOOLEAN
      BY <3>1
    <3>3. Commands' \in Seq(Entry)
      BY <3>1
    <3>4. hpc' \in [Host -> {"idle", "idleLock", "idleAsleep", "fenceLock", "scan", "fenceAsleep", "join", "gone"}]
      BY <3>1
    <3> QED  BY <3>1, <3>2, <3>3, <3>4 DEF WakeQueue
  <2>9. CASE Join(h) \/ Gone(h)
    BY <2>9 DEF Join, Gone, vars
  <2> QED  BY <1>9, <2>1, <2>2, <2>3, <2>31, <2>4, <2>5, <2>6, <2>7, <2>8, <2>9
             DEF HostThread, NewCall, InCall
<1>10. CASE UNCHANGED vars
  BY <1>10 DEF vars
<1> QED  BY <1>1, <1>2, <1>3, <1>4, <1>5, <1>6, <1>7, <1>8, <1>9, <1>10
           DEF Next, QueueThread

(* The part of the invariant that is about the queue, its entries and the  *)
(* flags, and the variables it is about.                                   *)
QueueInv == FencesQueued /\ FenceAtFront /\ CommandAtFront /\ DueExact /\ InOrder
entryVars == <<Commands, Fences, Running, Cmd, signaled, log, ran, due, owned>>

(* A step that leaves the entries alone, and the queue thread inside or    *)
(* outside of the stages at which it holds one, keeps QueueInv.            *)
LEMMA QueueUnchanged ==
  ASSUME QueueInv, UNCHANGED entryVars,
         qpc' = qpc \/ {qpc, qpc'} \cap {"run", "pop", "erase"} = {}
  PROVE  QueueInv'
<1>1. FencesQueued'
  BY DEF QueueInv, entryVars, FencesQueued
<1>2. FenceAtFront'
  BY DEF QueueInv, entryVars, FenceAtFront
<1>3. CommandAtFront'
  BY DEF QueueInv, entryVars, CommandAtFront
<1>4. DueExact' /\ InOrder'
  BY DEF QueueInv, entryVars, DueExact, InOrder, Unpopped
<1> QED  BY <1>1, <1>2, <1>3, <1>4 DEF QueueInv

(* Queue::run takes the front entry: the entries stay what they were.        *)
LEMMA FetchStep == Inv /\ FetchCommand => QueueInv'
<1> SUFFICES ASSUME Inv, FetchCommand PROVE QueueInv'
  OBVIOUS
<1> USE DEF Inv, TypeOK, FetchCommand
<1>1. FencesQueued'
  BY DEF FencesQueued
<1>2. FenceAtFront'
  BY DEF FenceAtFront
<1>3. Running
  BY DEF FencesQueued
<1>4. CommandAtFront'
  BY <1>3 DEF CommandAtFront, InOrder, Unpopped, FencesQueued
<1>5. DueExact' /\ InOrder'
  BY DEF DueExact, InOrder, Unpopped
<1> QED  BY <1>1, <1>2, <1>4, <1>5 DEF QueueInv

(* The queue thread signals the fence at the front, whose entries before it  *)
(* have all been popped: it is due.                                          *)
LEMMA SignalStep == Inv /\ SignalFence => QueueInv'
<1> SUFFICES ASSUME Inv, SignalFence PROVE QueueInv'
  OBVIOUS
<1> USE DEF Inv, TypeOK, SignalFence
<1>1. FencesQueued'
  BY DEF FencesQueued
<1>2. Running
  BY DEF FencesQueued
<1>3. FenceAtFront'
  BY <1>2 DEF FenceAtFront
<1>4. CommandAtFront'
  BY DEF CommandAtFront
<1>5. /\ Len(ran) \in Nat /\ Len(ran') = Len(ran) + 1
      /\ \A i \in 1..Len(ran) : ran'[i] = ran[i]
      /\ ran'[Len(ran) + 1] = Commands[1]
      /\ Len(Commands) \in Nat /\ Len(Commands) >= 1 /\ Head(Commands) = Commands[1]
  OBVIOUS
<1>6. Unpopped = 0 /\ Unpopped' = 1
  BY DEF Unpopped
<1>7. InOrder'
  <2>1. /\ Len(log) \in Nat /\ Len(ran) + 1 <= Len(log)
        /\ Commands[1] = log[Len(ran) + 1]
    BY <1>2, <1>5, <1>6 DEF InOrder
  <2>2. \A i \in 1..Len(ran') : ran'[i] = log'[i]
    BY <1>5, <2>1 DEF InOrder
  <2>3. /\ Len(Commands') = Len(log') - Len(ran') + Unpopped'
        /\ \A i \in 1..Len(Commands') :
             Commands'[i] = log'[Len(ran') - Unpopped' + i]
    BY <1>2, <1>5, <1>6 DEF InOrder
  <2> QED  BY <1>5, <1>6, <2>1, <2>2, <2>3 DEF InOrder
<1>8. DueExact'
  <2>1. \A f \in Fence : signaled'[f] => due'[f] <= Len(ran')
    BY <1>2, <1>5, <1>6 DEF DueExact, FencesQueued
  <2>2. /\ Head(Commands) \in Fence
        /\ \A f \in Fence : ~signaled'[f] => ~signaled[f]
    OBVIOUS
  <2> QED  BY <1>2, <1>5, <1>6, <2>1, <2>2 DEF DueExact
<1> QED  BY <1>1, <1>3, <1>4, <1>7, <1>8 DEF QueueInv

(* The signaled fence leaves Commands and Fences together.                   *)
LEMMA EraseStep == Inv /\ EraseFence => QueueInv'
<1> SUFFICES ASSUME Inv, EraseFence PROVE QueueInv'
  OBVIOUS
<1>0. FencesQueued'
  <2>1. /\ Running /\ UNCHANGED Running /\ Fences' = Fences \ {Commands[1]}
        /\ Len(Commands') = Len(Commands) - 1 /\ Len(Commands) \in Nat \ {0}
        /\ \A i \in 1..Len(Commands') : Commands'[i] = Commands[i + 1]
        /\ Commands[1] \in Fence
    BY DEF Inv, TypeOK, EraseFence, FenceAtFront
  <2>2. /\ \A i \in 1..Len(Commands) : Commands[i] \in Fence => Commands[i] \in Fences
        /\ \A i, j \in 1..Len(Commands) :
             Commands[i] \in Fence /\ Commands[i] = Commands[j] => i = j
    BY DEF Inv, FencesQueued
  <2>3. ASSUME NEW i \in 1..Len(Commands'), Commands'[i] \in Fence
        PROVE  Commands'[i] \in Fences'
    <3>1. i + 1 \in 1..Len(Commands) /\ Commands'[i] = Commands[i + 1] /\ i + 1 # 1
      BY <2>1
    <3>2. Commands[i + 1] # Commands[1]
      BY <2>1, <2>2, <2>3, <3>1
    <3> QED  BY <2>1, <2>2, <2>3, <3>1, <3>2
  <2>4. ASSUME NEW i \in 1..Len(Commands'), NEW j \in 1..Len(Commands'),
               Commands'[i] \in Fence, Commands'[i] = Commands'[j]
        PROVE  i = j
    <3>1. /\ i + 1 \in 1..Len(Commands) /\ Commands'[i] = Commands[i + 1]
          /\ j + 1 \in 1..Len(Commands) /\ Commands'[j] = Commands[j + 1]
      BY <2>1
    <3>2. i + 1 = j + 1
      BY <2>2, <2>4, <3>1
    <3> QED  BY <3>2
  <2> QED  BY <2>1, <2>3, <2>4 DEF FencesQueued
<1> USE DEF Inv, TypeOK, EraseFence
<1>2. FenceAtFront'
  BY DEF FenceAtFront
<1>3. CommandAtFront'
  BY DEF CommandAtFront
<1>4. InOrder'
  BY DEF InOrder, Unpopped, FenceAtFront
<1>5. DueExact'
  <2>1. /\ Running /\ Unpopped = 1 /\ Unpopped' = 0
        /\ Len(Commands') = Len(Commands) - 1
        /\ \A i \in 1..Len(Commands') : Commands'[i] = Commands[i + 1]
        /\ Len(Commands) \in Nat /\ Len(ran) \in Nat
    BY DEF FenceAtFront, Unpopped
  <2>2. \A f \in Fence : signaled'[f] => due'[f] <= Len(ran')
    BY DEF DueExact
  <2>3. ASSUME NEW i \in 1..Len(Commands'), Commands'[i] \in Fence
        PROVE  due'[Commands'[i]] = Len(ran') - Unpopped' + i
    <3>1. i + 1 \in 1..Len(Commands) /\ Commands'[i] = Commands[i + 1]
      BY <2>1
    <3>2. due[Commands[i + 1]] = Len(ran) - Unpopped + (i + 1)
      BY <2>3, <2>1, <3>1 DEF DueExact
    <3> QED  BY <2>1, <3>1, <3>2
  <2>4. ASSUME NEW f \in Fences' PROVE \E i \in 1..Len(Commands') : Commands'[i] = f
    <3>1. PICK i \in 1..Len(Commands) : Commands[i] = f
      BY <2>1 DEF DueExact
    <3>2. f # Commands[1]
      BY <2>1
    <3>3. i - 1 \in 1..Len(Commands') /\ Commands'[i - 1] = Commands[(i - 1) + 1]
      BY <2>1, <3>1, <3>2
    <3>4. Commands'[i - 1] = f
      BY <3>1, <3>3
    <3> QED  BY <3>3, <3>4
  <2>5. \A f \in Fence : owned'[f] /\ ~signaled'[f] => f \in Fences'
    BY <2>1 DEF DueExact, FenceAtFront
  <2> QED  BY <2>2, <2>3, <2>4, <2>5 DEF DueExact
<1> QED  BY <1>0, <1>2, <1>3, <1>4, <1>5 DEF QueueInv

(* The command at the front has run and is still in Commands: ran grows.     *)
LEMMA FinishStep == Inv /\ FinishCommand => QueueInv'
<1> SUFFICES ASSUME Inv, FinishCommand PROVE QueueInv'
  OBVIOUS
<1> USE DEF Inv, TypeOK, FinishCommand
<1>1. FencesQueued'
  BY DEF FencesQueued
<1>2. FenceAtFront'
  BY DEF FenceAtFront
<1>3. CommandAtFront'
  BY DEF CommandAtFront
<1>4. InOrder'
  <2>1. /\ Len(ran) \in Nat /\ Len(ran') = Len(ran) + 1
        /\ \A i \in 1..Len(ran) : ran'[i] = ran[i]
        /\ ran'[Len(ran) + 1] = Cmd
        /\ Unpopped = 0 /\ Unpopped' = 1
    BY DEF Unpopped, CommandAtFront
  <2>2. Len(log) \in Nat /\ Len(ran) < Len(log) /\ Cmd = log[Len(ran) + 1]
    BY DEF CommandAtFront
  <2>3. \A i \in 1..Len(ran') : ran'[i] = log'[i]
    BY <2>1, <2>2 DEF InOrder
  <2> QED  BY <2>1, <2>2, <2>3 DEF InOrder
<1>5. DueExact'
  BY DEF DueExact, Unpopped
<1> QED  BY <1>1, <1>2, <1>3, <1>4, <1>5 DEF QueueInv

(* The command that ran leaves Commands: the rest is still the tail of log.  *)
LEMMA PopStep == Inv /\ Pop => QueueInv'
<1> SUFFICES ASSUME Inv, Pop PROVE QueueInv'
  OBVIOUS
<1> USE DEF Inv, TypeOK, Pop
<1>1. FencesQueued'
  BY DEF FencesQueued
<1>2. FenceAtFront'
  BY DEF FenceAtFront
<1>3. CommandAtFront'
  BY DEF CommandAtFront
<1>4. InOrder'
  BY DEF InOrder, Unpopped, CommandAtFront
<1>5. CASE ~Running
  BY <1>1, <1>2, <1>3, <1>4, <1>5 DEF QueueInv, DueExact
<1>6. ASSUME Running PROVE DueExact'
  <2>1. /\ Unpopped = 1 /\ Unpopped' = 0 /\ Commands # <<>> /\ Commands[1] \notin Fence
        /\ Len(Commands') = Len(Commands) - 1
        /\ \A i \in 1..Len(Commands') : Commands'[i] = Commands[i + 1]
        /\ Len(Commands) \in Nat /\ Len(ran) \in Nat
    BY <1>6, CommandAssumption DEF CommandAtFront, Unpopped
  <2>2. ASSUME NEW i \in 1..Len(Commands'), Commands'[i] \in Fence
        PROVE  due'[Commands'[i]] = Len(ran') - Unpopped' + i
    <3>1. i + 1 \in 1..Len(Commands) /\ Commands'[i] = Commands[i + 1]
      BY <2>1
    <3>2. due[Commands[i + 1]] = Len(ran) - Unpopped + (i + 1)
      BY <1>6, <2>2, <2>1, <3>1 DEF DueExact
    <3> QED  BY <2>1, <3>1, <3>2
  <2>3. ASSUME NEW f \in Fences' PROVE \E i \in 1..Len(Commands') : Commands'[i] = f
    <3>1. PICK i \in 1..Len(Commands) : Commands[i] = f
      BY <1>6, <2>1 DEF DueExact
    <3>2. f # Commands[1]
      BY <2>1
    <3>3. i - 1 \in 1..Len(Commands') /\ Commands'[i - 1] = Commands[(i - 1) + 1]
      BY <2>1, <3>1, <3>2
    <3>4. Commands'[i - 1] = f
      BY <3>1, <3>3
    <3> QED  BY <3>3, <3>4
  <2> QED  BY <1>6, <2>2, <2>3 DEF DueExact
<1> QED  BY <1>1, <1>2, <1>3, <1>4, <1>5, <1>6 DEF QueueInv

(* Queue::submit appends the batch and its fence to the entries, under Mutex.*)
LEMMA SubmitStep ==
  ASSUME Inv, NEW h \in Host, NEW batch \in Batch, NEW f \in Fence \cup {Null},
         Submit(h, batch, f)
  PROVE  QueueInv'
<1> DEFINE new == IF f = Null THEN batch ELSE Append(batch, f)
           n == Len(Commands)
           m == Len(new)
<1>1. /\ Running /\ qpc \notin {"erase", "notify"} /\ new # <<>>
      /\ Commands' = Commands \o new /\ log' = log \o new
      /\ Fences' = Fences \cup ({f} \ {Null})
      /\ UNCHANGED <<Running, Cmd, signaled, ran>> /\ qpc' = WakeQueue
  BY DEF Submit, Calls, MutexFree
<1>2. /\ due'   = [g \in Fence |-> IF g = f THEN Len(log') ELSE due[g]]
      /\ owned' = [g \in Fence |-> IF g = f THEN TRUE ELSE owned[g]]
      /\ f # Null => ~owned[f] /\ ~signaled[f]
  BY Zenon DEF Submit
<1>3. /\ Null \notin Fence /\ new \in Seq(Entry) /\ m \in Nat /\ m >= 1
      /\ \A i \in 1..m : new[i] \in Fence => i = m /\ f # Null /\ new[i] = f
      /\ f # Null => new[m] = f
  BY <1>1, BatchAssumption, CommandAssumption
<1>4. /\ Commands \in Seq(Entry) /\ log \in Seq(Entry) /\ ran \in Seq(Entry)
      /\ n \in Nat /\ Len(log) \in Nat /\ Len(ran) \in Nat
      /\ signaled \in [Fence -> BOOLEAN] /\ owned \in [Fence -> BOOLEAN]
      /\ Fences \subseteq Fence
  BY DEF Inv, TypeOK
<1> HIDE DEF new
<1>5. /\ Len(Commands') = n + m /\ Len(log') = Len(log) + m
      /\ \A i \in 1..n : Commands'[i] = Commands[i]
      /\ \A i \in (n + 1)..(n + m) : Commands'[i] = new[i - n]
      /\ \A i \in 1..Len(log) : log'[i] = log[i]
      /\ \A i \in (Len(log) + 1)..(Len(log) + m) : log'[i] = new[i - Len(log)]
  BY <1>1, <1>3, <1>4
<1>6. Unpopped' = Unpopped /\ Unpopped \in {0, 1}
  BY <1>1 DEF Unpopped, WakeQueue
<1>7. f # Null => f \notin Fences
  BY <1>1, <1>2 DEF Inv, FenceAtFront
<1>8. \A i \in 1..(n + m) : Commands'[i] \in Fence =>
        \/ i \in 1..n /\ Commands'[i] = Commands[i] /\ Commands[i] \in Fences
        \/ i = n + m /\ f # Null /\ Commands'[i] = f
  <2> TAKE i \in 1..(n + m)
  <2>1. CASE i <= n
    <3>1. i \in 1..n /\ Commands'[i] = Commands[i]
      BY <2>1, <1>4, <1>5
    <3>2. Commands[i] \in Fence => Commands[i] \in Fences
      BY <3>1, <1>1 DEF Inv, FencesQueued
    <3> QED  BY <3>1, <3>2
  <2>2. ASSUME i > n, Commands'[i] \in Fence
        PROVE  i = n + m /\ f # Null /\ Commands'[i] = f
    <3>1. i - n \in 1..m /\ Commands'[i] = new[i - n]
      BY <2>2, <1>3, <1>4, <1>5
    <3>2. i - n = m /\ f # Null /\ new[i - n] = f
      BY <2>2, <3>1, <1>3, Zenon
    <3>3. n \in Nat /\ m \in Nat /\ i \in 1..(n + m) /\ i - n = m
      <4>1. n \in Nat /\ m \in Nat
        BY <1>3, <1>4, Zenon
      <4> QED  BY <3>2, <4>1, Zenon
    <3> HIDE DEF n, m
    <3>5. i = n + m
      BY <3>3
    <3> USE DEF n, m
    <3>4. Commands'[i] = f
      BY <3>1, <3>2, Zenon
    <3> QED  BY <3>2, <3>4, <3>5, Zenon
  <2> QED  BY <2>1, <2>2, <1>3, <1>4
<1>9. FencesQueued'
  <2>1. ASSUME NEW i \in 1..(n + m), Commands'[i] \in Fence PROVE Commands'[i] \in Fences'
    BY <2>1, <1>1, <1>8
  <2>2. ASSUME NEW i \in 1..(n + m), NEW j \in 1..(n + m),
               Commands'[i] \in Fence, Commands'[i] = Commands'[j]
        PROVE  i = j
    BY <2>2, <1>7, <1>8 DEF Inv, FencesQueued
  <2>3. Running'
    BY <1>1
  <2> QED  BY <1>5, <2>1, <2>2, <2>3 DEF FencesQueued
<1>10. FenceAtFront'
  BY <1>1, <1>2, <1>3, <1>4, <1>5, <1>7 DEF Inv, FenceAtFront, WakeQueue
<1>11. CommandAtFront'
  BY <1>1, <1>4, <1>5, <1>3 DEF Inv, CommandAtFront, WakeQueue
<1>12. /\ n = Len(log) - Len(ran) + Unpopped
       /\ Unpopped <= Len(ran) /\ Len(ran) <= Len(log)
       /\ \A i \in 1..n : Commands[i] = log[Len(ran) - Unpopped + i]
       /\ \A i \in 1..Len(ran) : ran[i] = log[i]
  BY <1>1 DEF Inv, InOrder
<1>13. InOrder'
  <2>1. \A i \in 1..Len(ran') : ran'[i] = log'[i]
    BY <1>1, <1>4, <1>5, <1>12
  <2>2. ASSUME NEW i \in 1..Len(Commands')
        PROVE  Commands'[i] = log'[Len(ran') - Unpopped' + i]
    <3>0. Len(ran') - Unpopped' + i = Len(ran) - Unpopped + i
      BY <1>1, <1>6
    <3>1. CASE i <= n
      <4>1. Len(ran) - Unpopped + i \in 1..Len(log)
        BY <3>1, <1>4, <1>5, <1>6, <1>12
      <4>2. Commands[i] = log[Len(ran) - Unpopped + i]
        BY <3>1, <1>4, <1>5, <1>12, <2>2
      <4>3. Commands'[i] = Commands[i]
        BY <3>1, <2>2, <1>1, <1>5
      <4>4. log'[Len(ran) - Unpopped + i] = log[Len(ran) - Unpopped + i]
        BY <4>1, <1>1, <1>5
      <4> QED  BY <3>0, <4>2, <4>3, <4>4
    <3>2. CASE i > n
      <4>1. /\ i \in (n + 1)..(n + m)
            /\ Len(ran) - Unpopped + i \in (Len(log) + 1)..(Len(log) + m)
            /\ i - n = (Len(ran) - Unpopped + i) - Len(log)
        BY <3>2, <2>2, <1>3, <1>4, <1>5, <1>6, <1>12
      <4>2. Commands'[i] = new[i - n]
        BY <4>1, <1>5
      <4>3. log'[Len(ran) - Unpopped + i] = new[i - n]
        BY <4>1, <1>5
      <4> QED  BY <3>0, <4>2, <4>3
    <3> QED  BY <3>1, <3>2, <2>2, <1>3, <1>4, <1>5
  <2>3. Len(Commands') = Len(log') - Len(ran') + Unpopped'
    BY <1>1, <1>3, <1>4, <1>5, <1>6, <1>12
  <2>4. Unpopped' <= Len(ran') /\ Len(ran') <= Len(log')
    BY <1>1, <1>3, <1>4, <1>5, <1>6, <1>12
  <2> QED  BY <2>1, <2>2, <2>3, <2>4 DEF InOrder
<1>14. DueExact'
  <2>1. \A g \in Fence : signaled'[g] => due'[g] <= Len(ran')
    BY <1>1, <1>2, <1>3 DEF Inv, DueExact
  <2>2. ASSUME NEW i \in 1..Len(Commands'), Commands'[i] \in Fence
        PROVE  due'[Commands'[i]] = Len(ran') - Unpopped' + i
    <3>1. CASE i \in 1..n /\ Commands'[i] = Commands[i] /\ Commands[i] \in Fences
      <4>1. due[Commands[i]] = Len(ran) - Unpopped + i
        BY <3>1, <2>2, <1>1 DEF Inv, DueExact
      <4>2. due'[Commands'[i]] = due[Commands[i]]
        BY <3>1, <1>2, <1>3, <1>4, <1>7
      <4> QED  BY <4>1, <4>2, <1>1, <1>6
    <3>2. CASE i = n + m /\ f # Null /\ Commands'[i] = f
      <4>1. due'[f] = Len(log) + m
        BY <3>2, <2>2, <1>2, <1>5
      <4> QED  BY <3>2, <4>1, <1>1, <1>3, <1>4, <1>6, <1>12
    <3> QED  BY <3>1, <3>2, <2>2, <1>5, <1>8
  <2>3. ASSUME NEW g \in Fences' PROVE \E i \in 1..Len(Commands') : Commands'[i] = g
    <3>1. CASE g \in Fences
      <4>1. PICK i \in 1..n : Commands[i] = g
        BY <3>1, <1>1 DEF Inv, DueExact
      <4> QED  BY <4>1, <1>3, <1>4, <1>5
    <3>2. CASE f # Null /\ g = f
      <4>1. n + m \in (n + 1)..(n + m) /\ (n + m) - n = m /\ n + m \in 1..Len(Commands')
        BY <1>3, <1>4, <1>5
      <4>2. Commands'[n + m] = g
        BY <3>2, <4>1, <1>3, <1>5
      <4> QED  BY <4>1, <4>2
    <3> QED  BY <3>1, <3>2, <1>1
  <2>4. \A g \in Fence : owned'[g] /\ ~signaled'[g] => g \in Fences'
    BY <1>1, <1>2, <1>3 DEF Inv, DueExact
  <2> QED  BY <2>1, <2>2, <2>3, <2>4 DEF DueExact
<1> QED  BY <1>9, <1>10, <1>11, <1>13, <1>14 DEF QueueInv

(* vkResetFences of a fence that is not in flight leaves the queue alone.    *)
LEMMA ResetStep ==
  ASSUME Inv, NEW h \in Host, NEW f \in Fence, ResetFence(h, f)
  PROVE  QueueInv'
<1> USE DEF Inv, TypeOK, ResetFence
<1>1. FencesQueued'
  BY DEF FencesQueued
<1>2. FenceAtFront'
  BY DEF FenceAtFront
<1>3. CommandAtFront'
  BY DEF CommandAtFront
<1>4. DueExact' /\ InOrder'
  BY DEF DueExact, InOrder, Unpopped
<1> QED  BY <1>1, <1>2, <1>3, <1>4 DEF QueueInv

(* Queue::~Queue clears Commands and Running together: the parts about the   *)
(* entries of a running queue have nothing left to say.                      *)
LEMMA DestroyStep ==
  ASSUME Inv, NEW h \in Host, Destroy(h)
  PROVE  QueueInv'
<1>1. /\ Running' = FALSE /\ Commands' = <<>> /\ qpc' = WakeQueue
      /\ UNCHANGED <<Fences, Cmd, signaled, historyVars>>
      /\ qpc \notin {"erase", "notify"}
  BY Zenon DEF Destroy, MutexFree
<1> USE DEF Inv, TypeOK, WakeQueue
<1>2. FencesQueued'
  BY <1>1 DEF FencesQueued
<1>3. FenceAtFront'
  BY <1>1 DEF FenceAtFront
<1>4. CommandAtFront'
  BY <1>1 DEF CommandAtFront
<1>5. DueExact' /\ InOrder'
  BY <1>1 DEF DueExact, InOrder, Unpopped
<1> QED  BY <1>2, <1>3, <1>4, <1>5 DEF QueueInv

(* The part of the invariant about the entries is inductive.                 *)
LEMMA QueueStep == Inv /\ [Next]_vars => QueueInv'
<1> SUFFICES ASSUME Inv, [Next]_vars PROVE QueueInv'
  OBVIOUS
<1>1. QueueInv
  BY DEF Inv, QueueInv
<1>2. CASE Test \/ Sleep \/ SpuriousWake \/ GoRound \/ NotifyFence \/ PassEvent
  <2>1. UNCHANGED entryVars
    BY <1>2 DEF Test, Sleep, SpuriousWake, GoRound, NotifyFence, PassEvent, entryVars
  <2>2. qpc' = qpc \/ {qpc, qpc'} \cap {"run", "pop", "erase"} = {}
    BY <1>2 DEF Test, Sleep, SpuriousWake, GoRound, NotifyFence, PassEvent
  <2> QED  BY <1>1, <2>1, <2>2, QueueUnchanged
<1>3. CASE FetchCommand \/ SignalFence \/ EraseFence \/ FinishCommand \/ Pop
  BY <1>3, FetchStep, SignalStep, EraseStep, FinishStep, PopStep
<1>4. ASSUME NEW h \in Host, HostThread(h) PROVE QueueInv'
  <2>1. CASE \E batch \in Batch, f \in Fence \cup {Null} : Submit(h, batch, f)
    BY <2>1, SubmitStep
  <2>2. CASE (\E f \in Fence : ResetFence(h, f)) \/ Destroy(h)
    BY <2>2, ResetStep, DestroyStep
  <2>3. CASE \/ WaitIdle(h) \/ InCall(h) \/ Expire(h) \/ Timer(h)
             \/ SpuriousHostWake(h) \/ Gone(h)
    <3>1. UNCHANGED entryVars /\ qpc' = qpc
      BY <2>3, Zenon DEF WaitIdle, InCall, IdleReturn, IdleSleep, LockFences, ReadFence,
             FencesReturn, FencesSleep, Join, Expire, Timer, SpuriousHostWake, Gone,
             entryVars, vars
    <3> QED  BY <1>1, <3>1, QueueUnchanged
  <2>4. CASE \/ \E fs \in (SUBSET Fence) \ {{}}, all \in BOOLEAN, t \in Timeouts :
                  WaitForFences(h, fs, all, t)
             \/ \E e \in Event : SetEvent(h, e) \/ ResetEvent(h, e)
    <3>1. UNCHANGED entryVars /\ qpc' = qpc
      BY <2>4, Zenon DEF WaitForFences, SetEvent, ResetEvent, entryVars
    <3> QED  BY <1>1, <3>1, QueueUnchanged
  <2> QED  BY <1>4, <2>1, <2>2, <2>3, <2>4 DEF HostThread, NewCall
<1>5. CASE UNCHANGED vars
  BY <1>1, <1>5, QueueUnchanged DEF vars, entryVars
<1> QED  BY <1>2, <1>3, <1>4, <1>5 DEF Next, QueueThread

(* No host thread other than one in submit or the destructor touches       *)
(* Commands, and no step other than a return of the queue thread to its    *)
(* critical section lets a host fall asleep in waitIdle.                   *)
LEMMA IdleWaitStep == Inv /\ [Next]_vars => NoLostQueueWakeup'
<1> SUFFICES ASSUME Inv, [Next]_vars PROVE NoLostQueueWakeup'
  OBVIOUS
<1> USE DEF Inv, TypeOK, NoLostQueueWakeup
<1>1. CASE Test \/ Sleep \/ SpuriousWake \/ GoRound \/ FetchCommand \/ SignalFence
  BY <1>1 DEF Test, Sleep, SpuriousWake, GoRound, FetchCommand, SignalFence
<1>2. CASE EraseFence \/ Pop
  BY <1>2 DEF EraseFence, Pop, WakeIdlers
<1>3. CASE NotifyFence
  BY <1>3 DEF NotifyFence, WakeFenceWaiters
<1>4. CASE PassEvent \/ FinishCommand
  <2>1. UNCHANGED <<Commands, Running, hpc>> /\ qpc' # "asleep"
    BY <1>4 DEF PassEvent, FinishCommand
  <2> QED  BY <2>1
<1>5. ASSUME NEW h \in Host, HostThread(h) PROVE NoLostQueueWakeup'
  <2>1. ASSUME NEW batch \in Batch, NEW f \in Fence \cup {Null}, Submit(h, batch, f)
        PROVE  NoLostQueueWakeup'
    <3>1. qpc' = WakeQueue /\ hpc' = WakeIdlers(hpc)
      BY <2>1, Zenon DEF Submit
    <3> QED  BY <3>1 DEF WakeQueue, WakeIdlers
  <2>2. CASE Destroy(h)
    <3>1. /\ qpc' = WakeQueue /\ hpc' = [hpc EXCEPT ![h] = "join"]
          /\ \A g \in Host : hpc[g] = "idle"
      BY <2>2, Zenon DEF Destroy
    <3> QED  BY <3>1 DEF WakeQueue
  <2>3. ASSUME UNCHANGED <<Commands, Running, qpc>>,
               \A g \in Host : hpc'[g] = "idleAsleep" =>
                                 hpc[g] = "idleAsleep" \/ Commands # <<>>
        PROVE  NoLostQueueWakeup'
    BY <2>3
  <2>4. CASE WaitIdle(h) \/ IdleReturn(h) \/ IdleSleep(h) \/ Join(h)
    BY <2>3, <2>4 DEF WaitIdle, IdleReturn, IdleSleep, Join, Calls, MutexFree
  <2>5. CASE LockFences(h) \/ ReadFence(h) \/ FencesReturn(h) \/ FencesSleep(h)
    BY <2>3, <2>5 DEF LockFences, ReadFence, FencesReturn, FencesSleep
  <2>6. CASE Expire(h) \/ Timer(h) \/ SpuriousHostWake(h) \/ Gone(h)
    BY <2>3, <2>6 DEF Expire, Timer, SpuriousHostWake, Gone, vars
  <2>7. ASSUME NEW fs, NEW all, NEW t, WaitForFences(h, fs, all, t)
        PROVE  NoLostQueueWakeup'
    BY <2>3, <2>7 DEF WaitForFences
  <2>8. CASE \/ \E f \in Fence : ResetFence(h, f)
             \/ \E e \in Event : SetEvent(h, e) \/ ResetEvent(h, e)
    BY <2>3, <2>8 DEF ResetFence, SetEvent, ResetEvent
  <2> QED  BY <1>5, <2>1, <2>2, <2>4, <2>5, <2>6, <2>7, <2>8
             DEF HostThread, NewCall, InCall
<1>6. CASE UNCHANGED vars
  BY <1>6 DEF vars
<1> QED  BY <1>1, <1>2, <1>3, <1>4, <1>5, <1>6 DEF Next, QueueThread

(* The fence waits.  A step that keeps the calls, the flags and every host  *)
(* that scans or sleeps where they are, and the queue thread between a      *)
(* signal and its notification if it was there, loses no wake-up.           *)
WaitInv == ScanExact /\ NoLostFenceWakeup

(* A step that leaves the fences, the calls and the places of the hosts alone*)
(* keeps WaitInv.                                                            *)
LEMMA WaitUnchanged ==
  ASSUME WaitInv, UNCHANGED <<wait, signaled>>,
         qpc \in {"erase", "notify"} => qpc' \in {"erase", "notify"},
         \A h \in Host : hpc'[h] \in {"scan", "fenceAsleep"} => hpc'[h] = hpc[h]
  PROVE  WaitInv'
<1>1. ScanExact'
  BY DEF WaitInv, ScanExact
<1>2. NoLostFenceWakeup'
  BY DEF WaitInv, NoLostFenceWakeup
<1> QED  BY <1>1, <1>2 DEF WaitInv

(* The signal comes between a scan and a sleep of a host only if the         *)
(* notification is still to come.                                            *)
LEMMA SignalWaitStep == Inv /\ SignalFence => WaitInv'
BY DEF Inv, SignalFence, WaitInv, ScanExact, NoLostFenceWakeup

(* FenceSignaled.notify_all() wakes every host that sleeps on a fence.       *)
LEMMA NotifyWaitStep == Inv /\ NotifyFence => WaitInv'
<1> SUFFICES ASSUME Inv, NotifyFence PROVE WaitInv'
  OBVIOUS
<1>1. \A h \in Host : hpc'[h] \notin {"scan", "fenceAsleep"}
  BY DEF Inv, TypeOK, NotifyFence, FenceMutexFree, WakeFenceWaiters
<1>2. UNCHANGED wait
  BY DEF NotifyFence
<1> QED  BY <1>1, <1>2 DEF Inv, WaitInv, ScanExact, NoLostFenceWakeup

(* vkResetFences leaves the fences of every call in progress alone.          *)
LEMMA ResetWaitStep ==
  ASSUME Inv, NEW h \in Host, NEW f \in Fence, ResetFence(h, f)
  PROVE  WaitInv'
<1>1. /\ UNCHANGED <<hpc, qpc, wait>>
      /\ \A g \in Fence : g # f => signaled'[g] = signaled[g]
      /\ \A g \in Host : f \notin wait[g].fences
  BY DEF Inv, TypeOK, ResetFence
<1>2. \A g \in Host : wait[g].fences \subseteq Fence
  BY DEF Inv, TypeOK, WaitCall
<1>3. ScanExact'
  BY <1>1, <1>2 DEF Inv, ScanExact
<1>4. NoLostFenceWakeup'
  BY <1>1, <1>2 DEF Inv, NoLostFenceWakeup
<1> QED  BY <1>3, <1>4 DEF WaitInv

(* The call of one host changes; the others stay as they are.              *)
LEMMA CallWaitStep ==
  ASSUME Inv, NEW h \in Host, NEW w, NEW pc,
         wait'[h] = w, hpc'[h] = pc, UNCHANGED <<qpc, signaled>>,
         \A g \in Host : g # h => wait'[g] = wait[g] /\ hpc'[g] = hpc[g],
         w.unread \subseteq w.fences, w.seen \subseteq w.fences,
         pc = "scan" => \A f \in w.fences \ (w.unread \cup w.seen) :
                          signaled[f] => qpc \in {"erase", "notify"},
         pc = "fenceAsleep" =>
           ((IF w.all THEN \A f \in w.fences : signaled[f]
                      ELSE \E f \in w.fences : signaled[f])
             => qpc \in {"erase", "notify"})
  PROVE  WaitInv'
<1>1. ScanExact'
  BY DEF Inv, ScanExact
<1>2. NoLostFenceWakeup'
  BY DEF Inv, NoLostFenceWakeup
<1> QED  BY <1>1, <1>2 DEF WaitInv

(* The part of the invariant about the waits for fences is inductive.        *)
LEMMA FenceWaitStep == Inv /\ [Next]_vars => WaitInv'
<1> SUFFICES ASSUME Inv, [Next]_vars PROVE WaitInv'
  OBVIOUS
<1>0. WaitInv
  BY DEF Inv, WaitInv
<1>1. CASE Test \/ Sleep \/ SpuriousWake \/ GoRound \/ FetchCommand \/ PassEvent
  BY <1>0, <1>1, WaitUnchanged
    DEF Test, Sleep, SpuriousWake, GoRound, FetchCommand, PassEvent
<1>2. CASE FinishCommand
  <2>1. UNCHANGED <<wait, signaled, hpc>> /\ qpc \notin {"erase", "notify"}
    BY <1>2 DEF FinishCommand
  <2> QED  BY <1>0, <2>1, WaitUnchanged
<1>3. CASE EraseFence \/ Pop
  <2>1. /\ UNCHANGED <<wait, signaled>>
        /\ qpc \in {"erase", "notify"} => qpc' \in {"erase", "notify"}
        /\ \A h \in Host : hpc'[h] \in {"scan", "fenceAsleep"} => hpc'[h] = hpc[h]
    BY <1>3 DEF EraseFence, Pop, WakeIdlers
  <2> QED  BY <1>0, <2>1, WaitUnchanged
<1>4. CASE SignalFence \/ NotifyFence
  BY <1>4, SignalWaitStep, NotifyWaitStep
<1>5. ASSUME NEW h \in Host, HostThread(h) PROVE WaitInv'
  <2>0. /\ wait \in [Host -> WaitCall] /\ DOMAIN hpc = Host
        /\ signaled \in [Fence -> BOOLEAN]
        /\ wait[h].unread \subseteq wait[h].fences /\ wait[h].seen \subseteq wait[h].fences
    BY DEF Inv, TypeOK, ScanExact
  <2>1. ASSUME NEW batch \in Batch, NEW f \in Fence \cup {Null}, Submit(h, batch, f)
        PROVE  WaitInv'
    <3>1. /\ qpc' = WakeQueue /\ hpc' = WakeIdlers(hpc)
          /\ UNCHANGED <<wait, signaled>>
      BY <2>1, Zenon DEF Submit
    <3> QED  BY <1>0, <3>1, WaitUnchanged DEF WakeQueue, WakeIdlers
  <2>2. CASE Destroy(h)
    <3>1. /\ qpc' = WakeQueue /\ hpc' = [hpc EXCEPT ![h] = "join"]
          /\ UNCHANGED <<wait, signaled>>
      BY <2>2, Zenon DEF Destroy
    <3> QED  BY <1>0, <2>0, <3>1, WaitUnchanged DEF WakeQueue
  <2>3. ASSUME NEW f \in Fence, ResetFence(h, f) PROVE WaitInv'
    BY <2>3, ResetWaitStep
  <2>4. CASE \/ WaitIdle(h) \/ IdleReturn(h) \/ IdleSleep(h) \/ Join(h) \/ Timer(h)
             \/ SpuriousHostWake(h) \/ Gone(h)
    <3>1. /\ UNCHANGED <<wait, signaled, qpc>>
          /\ \A g \in Host : hpc'[g] \in {"scan", "fenceAsleep"} => hpc'[g] = hpc[g]
      BY <2>0, <2>4 DEF WaitIdle, IdleReturn, IdleSleep, Join, Timer, SpuriousHostWake,
                       Gone, Calls, MutexFree, vars
    <3> QED  BY <1>0, <3>1, WaitUnchanged
  <2>5. CASE \E e \in Event : SetEvent(h, e) \/ ResetEvent(h, e)
    <3>1. UNCHANGED <<wait, signaled, qpc, hpc>>
      BY <2>5 DEF SetEvent, ResetEvent
    <3> QED  BY <1>0, <3>1, WaitUnchanged
  <2>6. ASSUME NEW fs, NEW all, NEW t, WaitForFences(h, fs, all, t)
        PROVE  WaitInv'
    <3>1. /\ wait' = [wait EXCEPT ![h] = [NoWait EXCEPT
                        !.fences = fs, !.all = all, !.timeout = t]]
          /\ hpc' = [hpc EXCEPT ![h] = "fenceLock"] /\ UNCHANGED <<qpc, signaled>>
      BY <2>6 DEF WaitForFences
    <3>2. wait'[h].unread = {} /\ wait'[h].seen = {}
      BY <2>0, <3>1 DEF NoWait
    <3>3. /\ hpc'[h] = "fenceLock"
          /\ \A g \in Host : g # h => wait'[g] = wait[g] /\ hpc'[g] = hpc[g]
      BY <2>0, <3>1
    <3>4. UNCHANGED <<qpc, signaled>>
      BY <3>1
    <3> QED  BY <3>2, <3>3, <3>4, CallWaitStep
  <2>7. CASE LockFences(h)
    <3>1. /\ wait' = [wait EXCEPT ![h] =
                        [wait[h] EXCEPT !.unread = wait[h].fences, !.seen = {}]]
          /\ hpc' = [hpc EXCEPT ![h] = "scan"] /\ UNCHANGED <<qpc, signaled>>
      BY <2>7 DEF LockFences
    <3>2. /\ wait'[h].unread = wait'[h].fences /\ wait'[h].seen = {}
      BY <2>0, <3>1 DEF WaitCall
    <3>3. /\ hpc'[h] = "scan"
          /\ \A g \in Host : g # h => wait'[g] = wait[g] /\ hpc'[g] = hpc[g]
      BY <2>0, <3>1
    <3>4. UNCHANGED <<qpc, signaled>>
      BY <3>1
    <3> QED  BY <3>2, <3>3, <3>4, CallWaitStep
  <2>8. CASE ReadFence(h)
    <3>1. PICK f \in wait[h].unread :
            wait' = [wait EXCEPT ![h] = [wait[h] EXCEPT
                       !.unread = wait[h].unread \ {f},
                       !.seen = wait[h].seen \cup {g \in {f} : signaled[g]}]]
      BY <2>8 DEF ReadFence
    <3>2. UNCHANGED <<qpc, signaled, hpc>> /\ hpc[h] = "scan"
      BY <2>8 DEF ReadFence
    <3>3. /\ wait'[h].fences = wait[h].fences
          /\ wait'[h].unread = wait[h].unread \ {f}
          /\ wait'[h].seen = wait[h].seen \cup {g \in {f} : signaled[g]}
      BY <2>0, <3>1 DEF WaitCall
    <3>4. \A g \in wait[h].fences \ (wait[h].unread \cup wait[h].seen) :
            signaled[g] => qpc \in {"erase", "notify"}
      BY <3>2 DEF Inv, ScanExact
    <3>5. \A g \in wait'[h].fences \ (wait'[h].unread \cup wait'[h].seen) :
            signaled[g] => qpc \in {"erase", "notify"}
      BY <3>3, <3>4
    <3>6. wait'[h].unread \subseteq wait'[h].fences /\ wait'[h].seen \subseteq wait'[h].fences
      BY <2>0, <3>3
    <3>7. \A g \in Host : g # h => wait'[g] = wait[g] /\ hpc'[g] = hpc[g]
      BY <2>0, <3>1, <3>2
    <3> QED  BY <3>2, <3>5, <3>6, <3>7, CallWaitStep
  <2>9. CASE FencesReturn(h)
    <3>1. /\ wait' = [wait EXCEPT ![h] = NoWait]
          /\ hpc' = [hpc EXCEPT ![h] = "idle"] /\ UNCHANGED <<qpc, signaled>>
      BY <2>9 DEF FencesReturn
    <3>2. wait'[h].unread = {} /\ wait'[h].seen = {}
      BY <2>0, <3>1 DEF NoWait
    <3> QED  BY <2>0, <3>1, <3>2, CallWaitStep
  <2>10. CASE FencesSleep(h)
    <3>1. /\ hpc' = [hpc EXCEPT ![h] = "fenceAsleep"] /\ UNCHANGED <<qpc, signaled, wait>>
          /\ hpc[h] = "scan" /\ wait[h].unread = {} /\ ~Satisfied(h)
      BY <2>10, Zenon DEF FencesSleep
    <3>2. \A g \in wait[h].fences \ wait[h].seen :
            signaled[g] => qpc \in {"erase", "notify"}
      BY <3>1 DEF Inv, ScanExact
    <3>3. (IF wait[h].all THEN \A f \in wait[h].fences : signaled[f]
                          ELSE \E f \in wait[h].fences : signaled[f])
            => qpc \in {"erase", "notify"}
      BY <2>0, <3>1, <3>2 DEF Satisfied
    <3> QED  BY <2>0, <3>1, <3>3, CallWaitStep
  <2>11. CASE Expire(h)
    <3>1. /\ wait' = [wait EXCEPT ![h] = [wait[h] EXCEPT !.expired = TRUE]]
          /\ UNCHANGED <<qpc, signaled, hpc>>
      BY <2>11 DEF Expire
    <3>2. /\ wait'[h].fences = wait[h].fences /\ wait'[h].unread = wait[h].unread
          /\ wait'[h].seen = wait[h].seen /\ wait'[h].all = wait[h].all
      BY <2>0, <3>1 DEF WaitCall
    <3>3. \A g \in Host : g # h => wait'[g] = wait[g] /\ hpc'[g] = hpc[g]
      BY <2>0, <3>1
    <3>4. ScanExact' /\ NoLostFenceWakeup'
      BY <3>1, <3>2, <3>3 DEF Inv, ScanExact, NoLostFenceWakeup
    <3> QED  BY <3>4 DEF WaitInv
  <2> QED  BY <1>5, <2>1, <2>2, <2>3, <2>4, <2>5, <2>6, <2>7, <2>8, <2>9, <2>10, <2>11
             DEF HostThread, NewCall, InCall
<1>6. CASE UNCHANGED vars
  BY <1>0, <1>6, WaitUnchanged DEF vars
<1> QED  BY <1>1, <1>2, <1>3, <1>4, <1>5, <1>6 DEF Next, QueueThread

-------------------------------------------------------------------------------
(* Inv is an inductive invariant: what the queue thread holds, and what the *)
(* fences in flight and their waiters are, at every step of every thread.   *)
THEOREM InvHolds == Spec => []Inv
<1>1. Inv /\ [Next]_vars => Inv'
  BY TypeStep, QueueStep, IdleWaitStep, FenceWaitStep DEF Inv, QueueInv, WaitInv
<1> QED  BY InitInv, <1>1, PTL DEF Spec

(* Every variable keeps its type.                                          *)
THEOREM TypeCorrect == Spec => []TypeOK
<1>1. Inv => TypeOK
  BY DEF Inv
<1> QED  BY InvHolds, <1>1, PTL

(* Queue::run executes the entries one by one in the order in which submit *)
(* pushed them: what ran is a prefix of the log, and Commands is the rest. *)
THEOREM RunsInOrder == Spec => []InOrder
<1>1. Inv => InOrder
  BY DEF Inv
<1> QED  BY InvHolds, <1>1, PTL

(* A fence that is signaled tells the truth: its batch, and all that was   *)
(* submitted before it, has taken effect; while it is in flight and not    *)
(* signaled it is still queued.                                            *)
THEOREM FencesTellTheTruth == Spec => []FenceAfterBatch
<1>1. Inv => FenceAfterBatch
  <2> SUFFICES ASSUME Inv, NEW f \in Fence
               PROVE  /\ signaled[f] => due[f] <= Len(ran)
                      /\ Running /\ owned[f] /\ ~signaled[f] =>
                           f \in Fences /\ due[f] > Len(ran)
    BY DEF FenceAfterBatch
  <2>1. signaled[f] => due[f] <= Len(ran)
    BY DEF Inv, DueExact
  <2>2. ASSUME Running, owned[f], ~signaled[f]
        PROVE  f \in Fences /\ due[f] > Len(ran)
    <3>1. f \in Fences
      BY <2>2 DEF Inv, DueExact
    <3>2. PICK i \in 1..Len(Commands) : Commands[i] = f
      BY <2>2, <3>1 DEF Inv, DueExact
    <3>3. due[f] = Len(ran) - Unpopped + i
      BY <2>2, <3>2 DEF Inv, DueExact
    <3>4. Len(ran) \in Nat
      BY DEF Inv, TypeOK
    <3>5. Unpopped \in {0, 1} /\ (Unpopped = 1 => i # 1)
      <4>1. CASE qpc = "pop"
        BY <4>1, <2>2, <3>2, CommandAssumption DEF Inv, CommandAtFront, Unpopped
      <4>2. CASE qpc = "erase"
        BY <4>2, <2>2, <3>2 DEF Inv, FenceAtFront, Unpopped
      <4> QED  BY <4>1, <4>2 DEF Unpopped
    <3> QED  BY <3>1, <3>3, <3>4, <3>5
  <2> QED  BY <2>1, <2>2
<1> QED  BY InvHolds, <1>1, PTL

(* The assertion of Queue::submit does not fail for a host that submits a  *)
(* fence again as soon as it has seen it signaled and reset it.            *)
THEOREM AssertionHolds == Spec => []SubmitAssertion
<1>1. Inv => SubmitAssertion
  BY DEF Inv, FenceAtFront, SubmitAssertion, MutexFree
<1> QED  BY InvHolds, <1>1, PTL

(* No wake-up is lost, neither that of a fence waiter, whose condition is  *)
(* written under Queue::Mutex and not under the FenceMutex it sleeps on,   *)
(* nor those of StateChanged.                                              *)
THEOREM NoWakeupLost == Spec => [](NoLostFenceWakeup /\ NoLostQueueWakeup)
<1>1. Inv => NoLostFenceWakeup /\ NoLostQueueWakeup
  BY DEF Inv
<1> QED  BY InvHolds, <1>1, PTL

-------------------------------------------------------------------------------
(*****************************************************************************)
(* Proofs that CommandQueue keeps its promises to the threads that call it,  *)
(* for every set of hosts, commands, fences, events and batches and every    *)
(* bound: it implements CommandStream, and the two kinds of waits return     *)
(* only when what they wait for is so.                                       *)
(*****************************************************************************)

HIDE DEF Pushed, Inserted, Awaited, QueueIdle

(* What waitIdle waits for: the entries there were when it was called, while *)
(* the device exists; a host in another call waits for none.                 *)
Idling(pc) == pc \in {"idleLock", "idleAsleep"}
TicketExact ==
  \A h \in Host : IF Idling(hpc[h]) THEN Running /\ ticket[h] <= Len(log)
                                    ELSE ticket[h] = 0

(* Tickets are exact at first: no host is in a call.                         *)
LEMMA InitTicket == Init => TicketExact
BY DEF Init, TicketExact, Idling

(* A step in which waitIdle is neither called nor returns, and the device is *)
(* not destroyed, keeps the tickets exact, as log only grows.                *)
LEMMA TicketKept ==
  ASSUME Inv, TicketExact, Running' = Running, ticket' = ticket,
         log' \in Seq(Entry), Len(log) <= Len(log'),
         \A h \in Host : Idling(hpc'[h]) <=> Idling(hpc[h])
  PROVE  TicketExact'
<1>1. /\ ticket \in [Host -> Nat] /\ Len(log) \in Nat
      /\ Len(log') \in Nat
  BY DEF Inv, TypeOK
<1> QED  BY <1>1 DEF TicketExact

(* What a host submits makes log longer, by entries.                         *)
LEMMA SubmitLog ==
  ASSUME Inv, NEW h \in Host, NEW batch \in Batch, NEW f \in Fence \cup {Null},
         Submit(h, batch, f)
  PROVE  /\ log' \in Seq(Entry) /\ Len(log') > Len(log)
         /\ SubSeq(log', 1, Len(log)) = log
<1> DEFINE new == Pushed(batch, f)
<1>1. new \in Seq(Entry)
  BY BatchAssumption DEF Pushed
<1>2. new # <<>> /\ log' = log \o new
  BY DEF Submit
<1>3. log \in Seq(Entry)
  BY DEF Inv, TypeOK
<1> HIDE DEF new
<1>4. Len(new) \in Nat \ {0}
  BY <1>1, <1>2
<1>5. log' \in Seq(Entry) /\ Len(log') = Len(log) + Len(new)
  BY <1>1, <1>2, <1>3
<1>6. \A i \in 1..Len(log) : log'[i] = log[i]
  BY <1>1, <1>2, <1>3
<1>7. SubSeq(log', 1, Len(log)) = log
  BY <1>3, <1>4, <1>5, <1>6
<1> QED  BY <1>3, <1>4, <1>5, <1>7

(* Every step keeps the tickets exact.                                       *)
LEMMA TicketStep == Inv /\ TicketExact /\ [Next]_vars => TicketExact'
<1> SUFFICES ASSUME Inv, TicketExact, [Next]_vars PROVE TicketExact'
  OBVIOUS
<1>0. /\ hpc = [h \in Host |-> hpc[h]] /\ log \in Seq(Entry) /\ Len(log) \in Nat
      /\ ticket \in [Host -> Nat]
  BY DEF Inv, TypeOK
<1>1. CASE QueueThread \/ SpuriousWake
  <2>1. Running' = Running /\ ticket' = ticket /\ log' = log
    BY <1>1 DEF QueueThread, SpuriousWake, Test, Sleep, GoRound, FetchCommand, SignalFence,
                EraseFence, NotifyFence, PassEvent, FinishCommand, Pop
  <2>2. \/ hpc' = hpc \/ hpc' = WakeIdlers(hpc) \/ hpc' = WakeFenceWaiters(hpc)
    BY <1>1 DEF QueueThread, SpuriousWake, Test, Sleep, GoRound, FetchCommand, SignalFence,
                EraseFence, NotifyFence, PassEvent, FinishCommand, Pop
  <2>3. \A h \in Host : Idling(hpc'[h]) <=> Idling(hpc[h])
    BY <2>2 DEF WakeIdlers, WakeFenceWaiters, Idling
  <2> QED  BY <1>0, <2>1, <2>3, TicketKept
<1>2. ASSUME NEW h \in Host, HostThread(h) PROVE TicketExact'
  <2>1. ASSUME NEW batch \in Batch, NEW f \in Fence \cup {Null}, Submit(h, batch, f)
        PROVE  TicketExact'
    <3>1. Running' = Running /\ ticket' = ticket /\ hpc' = WakeIdlers(hpc)
      BY <2>1 DEF Submit
    <3>2. \A g \in Host : Idling(hpc'[g]) <=> Idling(hpc[g])
      BY <3>1 DEF WakeIdlers, Idling
    <3>3. log' \in Seq(Entry) /\ Len(log) <= Len(log')
      BY <1>0, <2>1, SubmitLog
    <3> QED  BY <3>1, <3>2, <3>3, TicketKept
  <2>2. CASE WaitIdle(h)
    <3>1. /\ Running /\ Running' = Running /\ log' = log
          /\ ticket' = [ticket EXCEPT ![h] = Len(log)]
          /\ hpc' = [hpc EXCEPT ![h] = "idleLock"]
      BY <2>2 DEF WaitIdle, Calls
    <3> QED  BY <1>0, <3>1 DEF TicketExact, Idling
  <2>3. CASE IdleReturn(h)
    <3>1. /\ Running' = Running /\ log' = log
          /\ ticket' = [ticket EXCEPT ![h] = 0]
          /\ hpc' = [hpc EXCEPT ![h] = "idle"]
      BY <2>3 DEF IdleReturn
    <3> QED  BY <1>0, <3>1 DEF TicketExact, Idling
  <2>4. CASE Destroy(h)
    <3>1. /\ \A g \in Host : hpc[g] = "idle"
          /\ ticket' = ticket /\ log' = log
          /\ hpc' = [hpc EXCEPT ![h] = "join"]
      BY <2>4 DEF Destroy
    <3> QED  BY <1>0, <3>1 DEF TicketExact, Idling
  <2>5. CASE \/ \E fs \in (SUBSET Fence) \ {{}}, all \in BOOLEAN, t \in Timeouts :
                  WaitForFences(h, fs, all, t)
             \/ \E f \in Fence : ResetFence(h, f)
             \/ \E e \in Event : SetEvent(h, e) \/ ResetEvent(h, e)
             \/ IdleSleep(h) \/ LockFences(h) \/ ReadFence(h) \/ FencesReturn(h)
             \/ FencesSleep(h) \/ Join(h) \/ Expire(h) \/ Timer(h) \/ SpuriousHostWake(h) \/ Gone(h)
    <3>1. Running' = Running /\ ticket' = ticket /\ log' = log
      BY <2>5 DEF WaitForFences, ResetFence, SetEvent, ResetEvent, IdleSleep, LockFences, ReadFence,
                  FencesReturn, FencesSleep, Join, Expire, Timer, SpuriousHostWake, Gone, vars
    <3>2. CASE hpc' = hpc
      BY <1>0, <3>1, <3>2, TicketKept
    <3>3. ASSUME NEW p, hpc' = [hpc EXCEPT ![h] = p], Idling(p) <=> Idling(hpc[h])
          PROVE  TicketExact'
      <4>1. \A g \in Host : Idling(hpc'[g]) <=> Idling(hpc[g])
        BY <1>0, <3>3
      <4> QED  BY <1>0, <3>1, <4>1, TicketKept
    <3>4. CASE \E fs \in (SUBSET Fence) \ {{}}, all \in BOOLEAN, t \in Timeouts :
                 WaitForFences(h, fs, all, t)
      <4>1. hpc[h] = "idle" /\ hpc' = [hpc EXCEPT ![h] = "fenceLock"]
        BY <3>4 DEF WaitForFences, Calls
      <4> QED  BY <3>3, <4>1 DEF Idling
    <3>5. CASE IdleSleep(h)
      BY <3>3, <3>5 DEF IdleSleep, Idling
    <3>6. CASE LockFences(h)
      BY <3>3, <3>6 DEF LockFences, Idling
    <3>7. CASE FencesReturn(h)
      BY <3>3, <3>7 DEF FencesReturn, Idling
    <3>8. CASE FencesSleep(h)
      BY <3>3, <3>8 DEF FencesSleep, Idling
    <3>9. CASE Join(h)
      BY <3>3, <3>9 DEF Join, Idling
    <3>10. CASE Timer(h)
      BY <3>3, <3>10 DEF Timer, Idling
    <3>11. CASE SpuriousHostWake(h)
      <4>1. \/ hpc[h] = "idleAsleep" /\ hpc' = [hpc EXCEPT ![h] = "idleLock"]
            \/ hpc[h] = "fenceAsleep" /\ hpc' = [hpc EXCEPT ![h] = "fenceLock"]
        BY <3>11 DEF SpuriousHostWake
      <4> QED  BY <3>3, <4>1 DEF Idling
    <3>12. CASE \/ \E f \in Fence : ResetFence(h, f)
                \/ \E e \in Event : SetEvent(h, e) \/ ResetEvent(h, e)
                \/ ReadFence(h) \/ Expire(h) \/ Gone(h)
      BY <3>2, <3>12 DEF ResetFence, SetEvent, ResetEvent, ReadFence, Expire, Gone, vars
    <3> QED  BY <2>5, <3>4, <3>5, <3>6, <3>7, <3>8, <3>9, <3>10, <3>11, <3>12
  <2> QED  BY <1>2, <2>1, <2>2, <2>3, <2>4, <2>5 DEF HostThread, NewCall, InCall
<1>3. CASE UNCHANGED vars
  BY <1>0, <1>3, TicketKept DEF vars
<1> QED  BY <1>1, <1>2, <1>3 DEF Next

(* The entry that takes effect is the next of the log.                       *)
LEMMA NextEntry ==
  ASSUME Inv
  PROVE  /\ SignalFence => Len(ran) < Len(log) /\ Head(Commands) = log[Len(ran) + 1]
                           /\ Head(Commands) \in Fence
         /\ FinishCommand => Len(ran) < Len(log) /\ Cmd = log[Len(ran) + 1] /\ Cmd \notin Fence
<1>1. ASSUME SignalFence
      PROVE  Len(ran) < Len(log) /\ Head(Commands) = log[Len(ran) + 1] /\ Head(Commands) \in Fence
  <2>1. Commands # <<>> /\ qpc \in {"lock", "woken"} /\ Head(Commands) \in Fences
    BY <1>1 DEF SignalFence
  <2>2. Running /\ Unpopped = 0
    BY <2>1 DEF Inv, FencesQueued, Unpopped
  <2>3. Len(Commands) = Len(log) - Len(ran) /\ Commands[1] = log[Len(ran) + 1]
    BY <2>1, <2>2 DEF Inv, InOrder, TypeOK
  <2>4. /\ Commands \in Seq(Entry) /\ Len(log) \in Nat /\ Len(ran) \in Nat /\ Fences \subseteq Fence
    BY DEF Inv, TypeOK
  <2> QED  BY <2>1, <2>3, <2>4
<1>2. ASSUME FinishCommand PROVE Len(ran) < Len(log) /\ Cmd = log[Len(ran) + 1] /\ Cmd \notin Fence
  BY <1>2, CommandAssumption DEF FinishCommand, Inv, CommandAtFront
<1> QED  BY <1>1, <1>2

(* Every step of the queue thread and of the hosts is one of the stream's or *)
(* changes nothing that the stream shows.                                    *)
LEMMA StreamStep ==
  Inv /\ TicketExact /\ [Next]_vars => [Stream!Next]_Stream!vars
<1> SUFFICES ASSUME Inv, TicketExact, [Next]_vars PROVE [Stream!Next]_Stream!vars
  OBVIOUS
<1> USE DEF Stream!vars
<1>0. /\ signaled = [f \in Fence |-> signaled[f]] /\ \A f \in Fence : signaled[f] \in BOOLEAN
      /\ log \in Seq(Entry) /\ Len(log) \in Nat /\ Len(ran) \in Nat
  BY DEF Inv, TypeOK
<1>1. CASE SignalFence
  <2>1. /\ signaled' = [signaled EXCEPT ![Head(Commands)] = TRUE]
        /\ ran' = Append(ran, Head(Commands)) /\ log' = log /\ ticket' = ticket
    BY <1>1 DEF SignalFence
  <2>2. signaled' = [f \in Fence |-> f = log[Len(ran) + 1] \/ signaled[f]]
    BY <1>0, <1>1, <2>1, NextEntry
  <2> QED  BY <1>1, <2>1, <2>2, NextEntry DEF Stream!Next, Stream!TakeEffect
<1>2. CASE FinishCommand
  <2>1. ran' = Append(ran, Cmd) /\ signaled' = signaled /\ log' = log /\ ticket' = ticket
    BY <1>2 DEF FinishCommand
  <2>2. signaled' = [f \in Fence |-> f = log[Len(ran) + 1] \/ signaled[f]]
    BY <1>0, <1>2, <2>1, NextEntry
  <2> QED  BY <1>2, <2>1, <2>2, NextEntry DEF Stream!Next, Stream!TakeEffect
<1>3. CASE \/ Test \/ Sleep \/ SpuriousWake \/ GoRound \/ FetchCommand \/ EraseFence
           \/ NotifyFence \/ PassEvent \/ Pop
  BY <1>3 DEF Test, Sleep, SpuriousWake, GoRound, FetchCommand, EraseFence, NotifyFence, PassEvent, Pop
<1>4. ASSUME NEW h \in Host, HostThread(h) PROVE [Stream!Next]_Stream!vars
  <2>1. ASSUME NEW batch \in Batch, NEW f \in Fence \cup {Null}, Submit(h, batch, f)
        PROVE  Stream!Next
    BY <2>1, SubmitLog DEF Submit, Stream!Next, Stream!Submit
  <2>2. CASE WaitIdle(h)
    <3>1. hpc[h] = "idle" /\ ticket' = [ticket EXCEPT ![h] = Len(log)]
          /\ UNCHANGED <<log, ran, signaled>>
      BY <2>2 DEF WaitIdle, Calls
    <3>2. ticket[h] = 0
      BY <3>1 DEF TicketExact, Idling
    <3> QED  BY <3>1, <3>2 DEF Stream!Next, Stream!WaitIdle
  <2>3. CASE IdleReturn(h)
    <3>1. hpc[h] = "idleLock" /\ Commands = <<>> /\ ticket' = [ticket EXCEPT ![h] = 0]
          /\ UNCHANGED <<log, ran, signaled>>
      BY <2>3 DEF IdleReturn, QueueIdle
    <3>2. Running /\ ticket[h] <= Len(log) /\ ticket[h] \in Nat
      BY <3>1 DEF TicketExact, Idling, Inv, TypeOK
    <3>3. Len(log) <= Len(ran)
      BY <1>0, <3>1, <3>2 DEF Inv, InOrder, Unpopped
    <3>4. Len(log) \in Nat /\ Len(ran) \in Nat
      BY <1>0 DEF Inv, TypeOK
    <3>5. ticket[h] <= Len(ran)
      BY <3>2, <3>3, <3>4
    <3>6. Stream!Return(h)
      BY <3>1, <3>5 DEF Stream!Return
    <3> QED  BY <3>6 DEF Stream!Next
  <2>4. ASSUME NEW f \in Fence, ResetFence(h, f) PROVE Stream!Next
    BY <2>4 DEF ResetFence, Stream!Next, Stream!Reset
  <2>5. CASE \/ \E fs \in (SUBSET Fence) \ {{}}, all \in BOOLEAN, t \in Timeouts :
                  WaitForFences(h, fs, all, t)
             \/ \E e \in Event : SetEvent(h, e) \/ ResetEvent(h, e)
             \/ Destroy(h) \/ IdleSleep(h) \/ LockFences(h) \/ ReadFence(h) \/ FencesReturn(h)
             \/ FencesSleep(h) \/ Join(h) \/ Expire(h) \/ Timer(h) \/ SpuriousHostWake(h) \/ Gone(h)
    BY <2>5 DEF WaitForFences, SetEvent, ResetEvent, Destroy, IdleSleep, LockFences, ReadFence,
                FencesReturn, FencesSleep, Join, Expire, Timer, SpuriousHostWake, Gone, vars
  <2> QED  BY <1>4, <2>1, <2>2, <2>3, <2>4, <2>5 DEF HostThread, NewCall, InCall
<1>5. CASE UNCHANGED vars
  BY <1>5 DEF vars
<1> QED  BY <1>1, <1>2, <1>3, <1>4, <1>5 DEF Next, QueueThread

(* The queue implements CommandStream: entries take effect one at a time in  *)
(* submission order, a fence by becoming signaled, and waitIdle returns only *)
(* after all that was submitted before it has taken effect.                  *)
THEOREM QueueIsStream == Spec => ImplementsStream
<1>1. Init => Stream!Init
  BY DEF Init, Stream!Init
<1>2. Inv /\ TicketExact /\ [Next]_vars => TicketExact' /\ [Stream!Next]_Stream!vars
  BY TicketStep, StreamStep
<1> QED  BY <1>1, <1>2, InitTicket, InvHolds, PTL DEF Spec, ImplementsStream, Stream!Spec

-------------------------------------------------------------------------------
(* The fences a waiter has counted are signaled, and stay so: a host resets *)
(* no fence that a thread waits for.                                        *)
SeenSignaled == \A h \in Host : \A f \in wait[h].seen : signaled[f]

(* Every step keeps the fences seen signaled.                               *)
LEMMA SeenStep == Inv /\ SeenSignaled /\ [Next]_vars => SeenSignaled'
<1> SUFFICES ASSUME Inv, SeenSignaled, [Next]_vars PROVE SeenSignaled'
  OBVIOUS
<1>0. /\ signaled \in [Fence -> BOOLEAN] /\ wait \in [Host -> WaitCall]
      /\ \A h \in Host : wait[h].seen \subseteq wait[h].fences /\ wait[h].fences \subseteq Fence
  BY DEF Inv, TypeOK, ScanExact, WaitCall
<1>1. CASE SignalFence
  BY <1>0, <1>1 DEF SignalFence, SeenSignaled
<1>2. CASE UNCHANGED <<wait, signaled>>
  BY <1>2 DEF SeenSignaled
<1>3. ASSUME NEW h \in Host, HostThread(h) PROVE SeenSignaled'
  <2>1. ASSUME NEW fs \in SUBSET Fence, NEW all \in BOOLEAN, NEW t \in Timeouts,
               WaitForFences(h, fs, all, t)
        PROVE  SeenSignaled'
    <3>1. wait'[h].seen = {} /\ \A g \in Host \ {h} : wait'[g] = wait[g]
      BY <1>0, <2>1 DEF WaitForFences, NoWait
    <3> QED  BY <2>1, <3>1 DEF SeenSignaled, WaitForFences
  <2>2. CASE LockFences(h)
    <3>1. wait'[h].seen = {} /\ \A g \in Host \ {h} : wait'[g] = wait[g]
      BY <1>0, <2>2 DEF LockFences, WaitCall
    <3> QED  BY <2>2, <3>1 DEF SeenSignaled, LockFences
  <2>3. CASE ReadFence(h)
    <3>1. PICK f \in wait[h].unread :
            wait' = [wait EXCEPT ![h] = [@ EXCEPT
                       !.unread = wait[h].unread \ {f},
                       !.seen = wait[h].seen \cup {g \in {f} : signaled[g]}]]
      BY <2>3 DEF ReadFence
    <3>2. wait'[h].seen = wait[h].seen \cup {g \in {f} : signaled[g]}
      BY <1>0, <3>1 DEF WaitCall
    <3>3. \A g \in Host \ {h} : wait'[g] = wait[g]
      BY <1>0, <3>1
    <3> QED  BY <2>3, <3>2, <3>3 DEF SeenSignaled, ReadFence
  <2>4. CASE FencesReturn(h)
    <3>1. wait'[h].seen = {} /\ \A g \in Host \ {h} : wait'[g] = wait[g]
      BY <1>0, <2>4 DEF FencesReturn, NoWait
    <3> QED  BY <2>4, <3>1 DEF SeenSignaled, FencesReturn
  <2>5. CASE Expire(h)
    <3>1. \A g \in Host : wait'[g].seen = wait[g].seen
      BY <1>0, <2>5 DEF Expire, WaitCall
    <3> QED  BY <2>5, <3>1 DEF SeenSignaled, Expire
  <2>6. ASSUME NEW f \in Fence, ResetFence(h, f) PROVE SeenSignaled'
    BY <1>0, <2>6 DEF ResetFence, SeenSignaled
  <2>7. CASE \/ \E batch \in Batch, f \in Fence \cup {Null} : Submit(h, batch, f)
             \/ \E e \in Event : SetEvent(h, e) \/ ResetEvent(h, e)
             \/ WaitIdle(h) \/ Destroy(h) \/ IdleReturn(h) \/ IdleSleep(h) \/ FencesSleep(h)
             \/ Join(h) \/ Timer(h) \/ SpuriousHostWake(h) \/ Gone(h)
    BY <1>2, <2>7 DEF Submit, SetEvent, ResetEvent, WaitIdle, Destroy, IdleReturn, IdleSleep,
                      FencesSleep, Join, Timer, SpuriousHostWake, Gone, vars
  <2> QED  BY <1>3, <2>1, <2>2, <2>3, <2>4, <2>5, <2>6, <2>7 DEF HostThread, NewCall, InCall
<1>4. CASE \/ Test \/ Sleep \/ SpuriousWake \/ GoRound \/ FetchCommand \/ EraseFence
           \/ NotifyFence \/ PassEvent \/ FinishCommand \/ Pop \/ UNCHANGED vars
  BY <1>2, <1>4 DEF Test, Sleep, SpuriousWake, GoRound, FetchCommand, EraseFence, NotifyFence,
                    PassEvent, FinishCommand, Pop, vars
<1> QED  BY <1>1, <1>3, <1>4 DEF Next, QueueThread

(* vkWaitForFences succeeds only when the batches of all its fences, or of  *)
(* one of them, have taken effect, although it reads their flags one after  *)
(* the other while the queue thread sets them.                              *)
THEOREM WaitsAreComplete == Spec => WaitForFencesComplete
<1> DEFINE Complete ==
      \A h \in Host :
        hpc[h] = "scan" /\ hpc'[h] = "idle" /\ Satisfied(h) =>
          LET ready == {f \in wait[h].fences : signaled[f] /\ due[f] <= Len(ran)}
          IN  IF wait[h].all THEN ready = wait[h].fences ELSE ready # {}
<1>1. Init => SeenSignaled
  BY DEF Init, SeenSignaled, NoWait
<1>2. Inv /\ SeenSignaled => Complete
  <2> SUFFICES ASSUME Inv, SeenSignaled, NEW h \in Host, Satisfied(h)
               PROVE  LET ready == {f \in wait[h].fences : signaled[f] /\ due[f] <= Len(ran)}
                      IN  IF wait[h].all THEN ready = wait[h].fences ELSE ready # {}
    OBVIOUS
  <2>1. wait[h].seen \subseteq wait[h].fences /\ wait[h].fences \subseteq Fence
    BY DEF Inv, ScanExact, TypeOK, WaitCall
  <2>2. \A f \in wait[h].seen : signaled[f] /\ due[f] <= Len(ran)
    BY <2>1 DEF SeenSignaled, Inv, DueExact
  <2> QED  BY <2>1, <2>2 DEF Satisfied
<1> HIDE DEF Complete
<1>3. Inv /\ SeenSignaled /\ [Next]_vars => SeenSignaled' /\ [Complete]_vars
  BY <1>2, SeenStep
<1>4. Spec => [][Complete]_vars
  BY <1>1, <1>3, InvHolds, PTL DEF Spec
<1> QED  BY <1>4 DEF Complete, WaitForFencesComplete

-------------------------------------------------------------------------------
(* While a WaitEventsCommand runs, spin is what is left of its events, and  *)
(* those before are set: no host resets an event it is waiting for.         *)
PassedEventsSet ==
  qpc = "run" /\ Cmd.op = "waitEvents" =>
    /\ Len(spin) <= Len(Cmd.events)
    /\ \A k \in 1..Len(spin) : spin[k] = Cmd.events[Len(Cmd.events) - Len(spin) + k]
    /\ \A i \in 1..(Len(Cmd.events) - Len(spin)) : isSet[Cmd.events[i]]

(* Every step keeps the passed events set.                                  *)
LEMMA EventStep == Inv /\ PassedEventsSet /\ [Next]_vars => PassedEventsSet'
<1> SUFFICES ASSUME Inv, PassedEventsSet, [Next]_vars PROVE PassedEventsSet'
  OBVIOUS
<1>0. /\ spin \in Seq(Event) /\ isSet \in [Event -> BOOLEAN]
      /\ qpc = "run" => Cmd.events \in Seq(Event)
  BY CommandAssumption DEF Inv, TypeOK, CommandAtFront
<1>1. CASE FetchCommand
  BY <1>1 DEF FetchCommand, Awaited, PassedEventsSet
<1>2. CASE PassEvent
  <2> SUFFICES ASSUME Cmd.op = "waitEvents"
               PROVE  /\ Len(spin') <= Len(Cmd.events)
                      /\ \A k \in 1..Len(spin') :
                           spin'[k] = Cmd.events[Len(Cmd.events) - Len(spin') + k]
                      /\ \A i \in 1..(Len(Cmd.events) - Len(spin')) : isSet[Cmd.events[i]]
    BY <1>2 DEF PassEvent, PassedEventsSet
  <2>1. /\ spin # <<>> /\ spin' = Tail(spin) /\ isSet[Head(spin)]
        /\ Cmd.events \in Seq(Event) /\ Len(spin) <= Len(Cmd.events)
        /\ \A k \in 1..Len(spin) : spin[k] = Cmd.events[Len(Cmd.events) - Len(spin) + k]
        /\ \A i \in 1..(Len(Cmd.events) - Len(spin)) : isSet[Cmd.events[i]]
    BY <1>0, <1>2 DEF PassEvent, PassedEventsSet
  <2>2. /\ Len(spin) \in Nat \ {0} /\ Len(spin') = Len(spin) - 1
        /\ \A k \in 1..Len(spin') : spin'[k] = spin[k + 1]
        /\ Head(spin) = spin[1]
    BY <1>0, <2>1
  <2>3. /\ Len(Cmd.events) \in Nat /\ Len(spin) \in Nat \ {0}
        /\ Len(spin') = Len(spin) - 1
    BY <2>1, <2>2
  <2>4. \A k \in 1..Len(spin') : spin'[k] = Cmd.events[Len(Cmd.events) - Len(spin') + k]
    <3> SUFFICES ASSUME NEW k \in 1..Len(spin')
                 PROVE  spin'[k] = Cmd.events[Len(Cmd.events) - Len(spin') + k]
      OBVIOUS
    <3>1. k + 1 \in 1..Len(spin)
      BY <2>3
    <3> DEFINE m == Len(Cmd.events)
               n == Len(spin)
    <3>2. k \in Int /\ m \in Int /\ n \in Int
      BY <2>3
    <3> HIDE DEF m, n
    <3>3. m - n + (k + 1) = m - (n - 1) + k
      BY <3>2
    <3> QED  BY <2>1, <2>2, <2>3, <3>1, <3>3 DEF m, n
  <2>5. \A i \in 1..(Len(Cmd.events) - Len(spin')) : isSet[Cmd.events[i]]
    <3> SUFFICES ASSUME NEW i \in 1..(Len(Cmd.events) - Len(spin'))
                 PROVE  isSet[Cmd.events[i]]
      OBVIOUS
    <3>1. CASE i <= Len(Cmd.events) - Len(spin)
      BY <2>1, <2>2, <2>3, <3>1
    <3>2. CASE i > Len(Cmd.events) - Len(spin)
      <4>1. i = Len(Cmd.events) - Len(spin) + 1 /\ 1 \in 1..Len(spin)
        BY <2>3, <3>2
      <4> QED  BY <2>1, <2>2, <4>1
    <3> QED  BY <2>2, <2>3, <3>1, <3>2
  <2> QED  BY <2>1, <2>2, <2>3, <2>4, <2>5
<1>3. CASE qpc' # "run"
  BY <1>3 DEF PassedEventsSet
<1>4. CASE UNCHANGED <<qpc, Cmd, spin, isSet>>
  BY <1>4 DEF PassedEventsSet
<1>5. ASSUME NEW h \in Host, HostThread(h) PROVE PassedEventsSet'
  <2>1. ASSUME NEW e \in Event, SetEvent(h, e) PROVE PassedEventsSet'
    BY <1>0, <2>1 DEF SetEvent, PassedEventsSet
  <2>2. ASSUME NEW e \in Event, ResetEvent(h, e) PROVE PassedEventsSet'
    <3> SUFFICES ASSUME qpc = "run", Cmd.op = "waitEvents" PROVE PassedEventsSet'
      BY <2>2 DEF ResetEvent, PassedEventsSet
    <3>1. \A i \in 1..Len(Cmd.events) : Cmd.events[i] # e
      BY <1>0, <2>2 DEF ResetEvent, BeingWaitedFor
    <3>2. Len(spin) \in Nat /\ Len(Cmd.events) \in Nat
      BY <1>0
    <3>3. \A i \in 1..(Len(Cmd.events) - Len(spin)) : isSet'[Cmd.events[i]]
      <4> SUFFICES ASSUME NEW i \in 1..(Len(Cmd.events) - Len(spin))
                   PROVE  isSet'[Cmd.events[i]]
        OBVIOUS
      <4>1. i \in 1..Len(Cmd.events) /\ isSet[Cmd.events[i]]
        BY <3>2 DEF PassedEventsSet
      <4>2. Cmd.events[i] \in Event /\ Cmd.events[i] # e
        BY <1>0, <3>1, <4>1
      <4> QED  BY <1>0, <2>2, <4>1, <4>2 DEF ResetEvent
    <3> QED  BY <2>2, <3>3 DEF ResetEvent, PassedEventsSet
  <2>3. ASSUME NEW batch \in Batch, NEW f \in Fence \cup {Null}, Submit(h, batch, f)
        PROVE  PassedEventsSet'
    BY <1>3, <1>4, <2>3 DEF Submit, WakeQueue
  <2>4. CASE Destroy(h)
    BY <1>3, <1>4, <2>4 DEF Destroy, WakeQueue
  <2>5. CASE \/ \E f \in Fence : ResetFence(h, f)
             \/ \E fs \in (SUBSET Fence) \ {{}}, all \in BOOLEAN, t \in Timeouts :
                  WaitForFences(h, fs, all, t)
             \/ WaitIdle(h) \/ IdleReturn(h) \/ IdleSleep(h) \/ LockFences(h) \/ ReadFence(h)
             \/ FencesReturn(h) \/ FencesSleep(h) \/ Join(h) \/ Expire(h) \/ Timer(h)
             \/ SpuriousHostWake(h) \/ Gone(h)
    BY <1>4, <2>5 DEF ResetFence, WaitForFences, WaitIdle, IdleReturn, IdleSleep, LockFences,
                      ReadFence, FencesReturn, FencesSleep, Join, Expire, Timer,
                      SpuriousHostWake, Gone, vars
  <2> QED  BY <1>5, <2>1, <2>2, <2>3, <2>4, <2>5 DEF HostThread, NewCall, InCall
<1>6. CASE \/ Test \/ Sleep \/ SpuriousWake \/ GoRound \/ SignalFence \/ EraseFence
           \/ NotifyFence \/ FinishCommand \/ Pop \/ UNCHANGED vars
  BY <1>3, <1>4, <1>6 DEF Test, Sleep, SpuriousWake, GoRound, SignalFence, EraseFence,
                          NotifyFence, FinishCommand, Pop, vars
<1> QED  BY <1>1, <1>2, <1>5, <1>6 DEF Next, QueueThread

(* vkCmdWaitEvents lets later commands run only once all of its events are  *)
(* set, although it tests them one after the other and hosts reset others.  *)
THEOREM EventWaitsAreComplete == Spec => []WaitEventsComplete
<1>1. Init => PassedEventsSet
  BY DEF Init, PassedEventsSet
<1>2. Inv /\ PassedEventsSet => WaitEventsComplete
  <2> SUFFICES ASSUME Inv, PassedEventsSet, qpc = "run", Cmd.op = "waitEvents", spin = <<>>,
                      NEW i \in DOMAIN Cmd.events
               PROVE  isSet[Cmd.events[i]]
    BY DEF WaitEventsComplete
  <2>1. Cmd.events \in Seq(Event)
    BY CommandAssumption DEF Inv, CommandAtFront
  <2>2. i \in 1..(Len(Cmd.events) - Len(spin))
    BY <2>1
  <2> QED  BY <2>2 DEF PassedEventsSet
<1> QED  BY <1>1, <1>2, EventStep, InvHolds, PTL DEF Spec
===================================================================================
