----------------------------- MODULE CommandQueue -----------------------------
(***************************************************************************)
(* The command queue of a Talvos device (lib/talvos/Queue.cpp), the event  *)
(* commands it runs (lib/talvos/Commands.cpp), the fence waits of          *)
(* Device::waitForFences and the entry points of                           *)
(* lib/vulkan/synchronization.cpp by which application threads use them.   *)
(*                                                                         *)
(* One background thread executes Queue::run.  It shares the members       *)
(* Commands, Fences and Running with the application ("host") threads      *)
(* under Queue::Mutex, and sleeps on StateChanged.  Fence waiters sleep on *)
(* Device::FenceSignaled under Device::FenceMutex.  The flags behind       *)
(* fences and events are plain booleans that both sides read and write     *)
(* without a lock, so every read and write of one is a step of its own.    *)
(*                                                                         *)
(* log, ran, due, owned, ticket and drained are history: no code reads     *)
(* them.  owned and drained record what a host may rely on, and guard the  *)
(* calls by the rules Vulkan sets to its callers.                          *)
(*                                                                         *)
(* An operator introduced by "Fault:" is a variant of the next definition  *)
(* with a mistake in it; it shows that a property can fail.                *)
(***************************************************************************)
EXTENDS Naturals, Sequences

CONSTANTS
  Host,        \* application threads
  Command,     \* recorded commands: records with fields op and events
  Fence,       \* VkFence objects, i.e. the addresses of their flags
  Event,       \* VkEvent objects
  Batch,       \* the command sequences a vkQueueSubmit may carry
  Timeouts,    \* kinds of timeout given to vkWaitForFences
  MaxEntries,  \* bound on the number of entries ever submitted
  MustDrain,   \* hosts wait for the queue to be idle before destroying it
  Null         \* the null pointer

Entry == Command \cup Fence
Ops == {"work", "setEvent", "resetEvent", "waitEvents"}

ASSUME CommandAssumption ==
  /\ \A c \in Command : c.op \in Ops /\ c.events \in Seq(Event)
  /\ \A c \in Command : c.op \in {"setEvent", "resetEvent"} => Len(c.events) = 1
  /\ Command \cap Fence = {}
  /\ Null \notin Entry
ASSUME BatchAssumption == Batch \subseteq Seq(Command)
ASSUME ParameterAssumption ==
  /\ Timeouts \subseteq {"zero", "finite", "forever"}
  /\ MaxEntries \in Nat
  /\ MustDrain \in BOOLEAN

VARIABLES
  Commands,  \* Queue::Commands, the front first
  Fences,    \* Queue::Fences
  Running,   \* Queue::Running
  qpc,       \* where the queue thread is
  Cmd,       \* its local variable Cmd, while it runs a command
  spin,      \* events WaitEventsCommand::runImpl has still to see set
  signaled,  \* VkFence_T::Signaled
  isSet,     \* VkEvent_T::Signaled
  hpc,       \* where each host thread is
  wait,      \* the vkWaitForFences call of each host thread
  log,       \* history: every entry pushed, in order
  ran,       \* history: every entry that took effect, in order
  due,       \* history: where in log a fence was pushed last (0: nowhere)
  owned,     \* history: the fence is in flight as far as the hosts know
  ticket,    \* history: Len(log) when the host called waitIdle
  drained    \* history: waitIdle has returned since the last submission

queueVars   == <<Commands, Fences, Running>>
threadVars  == <<qpc, Cmd, spin>>
historyVars == <<log, ran, due, owned, ticket, drained>>
vars == <<queueVars, threadVars, signaled, isSet, hpc, wait, historyVars>>

(* The queue thread keeps Mutex from the moment it finds a fence at the    *)
(* front until Device::notifyFenceSignaled returns; every other critical   *)
(* section is one step.  A fence waiter keeps FenceMutex while it counts.  *)
\* Fault: the fence is erased after the lock is released.
MutexForgotten == TRUE
MutexFree      == qpc \notin {"erase", "notify"}
\* Fault: notifyFenceSignaled without FenceMutex.
FenceMutexForgotten == TRUE
FenceMutexFree == \A h \in Host : hpc[h] # "scan"

NoWait == [fences |-> {}, all |-> TRUE, timeout |-> "zero",
           unread |-> {}, seen |-> {}, expired |-> FALSE]

WaitCall == [fences : SUBSET Fence, all : BOOLEAN, timeout : Timeouts \cup {"zero"},
             unread : SUBSET Fence, seen : SUBSET Fence, expired : BOOLEAN]

TypeOK ==
  /\ Commands \in Seq(Entry) /\ Fences \subseteq Fence /\ Running \in BOOLEAN
  /\ qpc \in {"test", "lock", "asleep", "woken", "run", "pop", "erase",
              "notify", "exited"}
  /\ Cmd \in Command \cup {Null} /\ spin \in Seq(Event)
  /\ signaled \in [Fence -> BOOLEAN] /\ isSet \in [Event -> BOOLEAN]
  /\ hpc \in [Host -> {"idle", "idleLock", "idleAsleep", "fenceLock", "scan",
                       "fenceAsleep", "join", "gone"}]
  /\ wait \in [Host -> WaitCall]
  /\ log \in Seq(Entry) /\ ran \in Seq(Entry)
  /\ due \in [Fence -> Nat] /\ owned \in [Fence -> BOOLEAN]
  /\ ticket \in [Host -> Nat] /\ drained \in BOOLEAN

Init ==
  /\ Commands = <<>> /\ Fences = {} /\ Running = TRUE
  /\ qpc = "test" /\ Cmd = Null /\ spin = <<>>
  /\ signaled \in [Fence -> BOOLEAN]      \* VK_FENCE_CREATE_SIGNALED_BIT
  /\ isSet = [e \in Event |-> FALSE]
  /\ hpc = [h \in Host |-> "idle"] /\ wait = [h \in Host |-> NoWait]
  /\ log = <<>> /\ ran = <<>>
  /\ due = [f \in Fence |-> 0] /\ owned = [f \in Fence |-> FALSE]
  /\ ticket = [h \in Host |-> 0] /\ drained = TRUE

(* StateChanged.notify_all(), as it moves the queue thread and the hosts.  *)
\* Fault: no notification after submit or in the destructor.
WakeQueueForgotten == qpc
WakeQueue == IF qpc = "asleep" THEN "woken" ELSE qpc
\* Fault: no notification after the queue thread's pop.
WakeIdlersForgotten(pcs) == pcs
WakeIdlers(pcs) ==
  [h \in Host |-> IF pcs[h] = "idleAsleep" THEN "idleLock" ELSE pcs[h]]
(* FenceSignaled.notify_all().                                             *)
WakeFenceWaiters(pcs) ==
  [h \in Host |-> IF pcs[h] = "fenceAsleep" THEN "fenceLock" ELSE pcs[h]]

-------------------------------------------------------------------------------
(* The queue thread: Queue::run.                                           *)

\* while (Running): an unlocked read of a volatile flag.
Test ==
  /\ qpc = "test"
  /\ qpc' = IF Running THEN "lock" ELSE "exited"
  /\ UNCHANGED <<queueVars, Cmd, spin, signaled, isSet, hpc, wait, historyVars>>

\* if (Commands.empty() && Running) StateChanged.wait(Lock): once, not a loop.
Sleep ==
  /\ qpc = "lock" /\ Commands = <<>> /\ Running
  /\ qpc' = "asleep"
  /\ UNCHANGED <<queueVars, Cmd, spin, signaled, isSet, hpc, wait, historyVars>>

\* The wait may end without a notification.
SpuriousWake ==
  /\ qpc = "asleep" /\ qpc' = "woken"
  /\ UNCHANGED <<queueVars, Cmd, spin, signaled, isSet, hpc, wait, historyVars>>

\* if (Commands.empty()) continue: woken for nothing, or told to exit.
GoRound ==
  /\ qpc = "woken" \/ (qpc = "lock" /\ ~Running)
  /\ Commands = <<>>
  /\ qpc' = "test"
  /\ UNCHANGED <<queueVars, Cmd, spin, signaled, isSet, hpc, wait, historyVars>>

\* The events WaitEventsCommand::runImpl iterates over.
\* Fault: the last one is missed.
AwaitedButLast(c) == IF c.op = "waitEvents" THEN SubSeq(c.events, 1, Len(c.events) - 1)
                                            ELSE <<>>
Awaited(c) == IF c.op = "waitEvents" THEN c.events ELSE <<>>

\* Cmd = Commands.front(), not a fence: unlock and start to run it.  The entry
\* stays at the front while it runs.
FetchCommand ==
  /\ qpc \in {"lock", "woken"}
  /\ Commands # <<>> /\ Head(Commands) \notin Fences
  /\ Cmd' = Head(Commands)
  /\ spin' = Awaited(Cmd')
  /\ qpc' = "run"
  /\ UNCHANGED <<queueVars, signaled, isSet, hpc, wait, historyVars>>

\* The front is a fence: set its flag.  Any host may see it at once, although
\* the fence is still in Fences and Mutex is held.
SignalFence ==
  /\ qpc \in {"lock", "woken"}
  /\ Commands # <<>> /\ Head(Commands) \in Fences
  /\ signaled' = [signaled EXCEPT ![Head(Commands)] = TRUE]
  /\ ran' = Append(ran, Head(Commands))
  /\ qpc' = "erase"
  /\ UNCHANGED <<queueVars, Cmd, spin, isSet, hpc, wait, log, due, owned,
                 ticket, drained>>

EraseFence ==
  /\ qpc = "erase"
  /\ Fences' = Fences \ {Head(Commands)}
  /\ Commands' = Tail(Commands)
  /\ hpc' = WakeIdlers(hpc)
  /\ qpc' = "notify"
  /\ UNCHANGED <<Running, Cmd, spin, signaled, isSet, wait, historyVars>>

\* Device::notifyFenceSignaled takes FenceMutex while Mutex is held.
NotifyFence ==
  /\ qpc = "notify" /\ FenceMutexFree
  /\ hpc' = WakeFenceWaiters(hpc)
  /\ qpc' = "test"
  /\ UNCHANGED <<queueVars, Cmd, spin, signaled, isSet, wait, historyVars>>

\* WaitEventsCommand::runImpl spins on one event after the other.
PassEvent ==
  /\ qpc = "run" /\ spin # <<>> /\ isSet[Head(spin)]
  /\ spin' = Tail(spin)
  /\ UNCHANGED <<queueVars, qpc, Cmd, signaled, isSet, hpc, wait, historyVars>>

\* Command::run returns: the command has taken effect.
FinishCommand ==
  /\ qpc = "run" /\ spin = <<>>
  /\ isSet' = CASE Cmd.op = "setEvent"   -> [isSet EXCEPT ![Head(Cmd.events)] = TRUE]
                [] Cmd.op = "resetEvent" -> [isSet EXCEPT ![Head(Cmd.events)] = FALSE]
                [] OTHER                 -> isSet
  /\ ran' = Append(ran, Cmd)
  /\ qpc' = "pop"
  /\ UNCHANGED <<queueVars, Cmd, spin, signaled, hpc, wait, log, due, owned,
                 ticket, drained>>

\* Commands.pop() under the lock.  If the destructor has emptied Commands in
\* the meantime the pop is undefined; nothing reads Commands after that, so
\* the queue is left empty here.
Pop ==
  /\ qpc = "pop"
  /\ Commands' = IF Commands = <<>> THEN <<>> ELSE Tail(Commands)
  /\ hpc' = WakeIdlers(hpc)
  /\ Cmd' = Null /\ qpc' = "test"
  /\ UNCHANGED <<Fences, Running, spin, signaled, isSet, wait, historyVars>>

QueueThread ==
  \/ Test \/ Sleep \/ GoRound \/ FetchCommand \/ SignalFence \/ EraseFence
  \/ NotifyFence \/ PassEvent \/ FinishCommand \/ Pop

-------------------------------------------------------------------------------
(* Host threads.  A call starts only while the device exists.              *)

Calls(h) == hpc[h] = "idle" /\ Running

\* What submit pushes: the commands, then the fence if there is one.
\* Fault: the fence first.
PushedFenceFirst(batch, f) == IF f = Null THEN batch ELSE <<f>> \o batch
Pushed(batch, f) == IF f = Null THEN batch ELSE Append(batch, f)
\* What it inserts into Fences.
Inserted(f) == {f} \ {Null}

\* vkQueueSubmit and Queue::submit.  A host gives a fence only if it knows it
\* to be unsignaled and not in flight.
Submit(h, batch, f) ==
  /\ Calls(h) /\ MutexFree
  /\ f # Null => ~owned[f] /\ ~signaled[f]
  /\ LET new == Pushed(batch, f) IN
       /\ new # <<>> /\ Len(log) + Len(new) <= MaxEntries
       /\ Commands' = Commands \o new
       /\ log' = log \o new
  /\ Fences' = Fences \cup Inserted(f)
  /\ due'   = [g \in Fence |-> IF g = f THEN Len(log') ELSE due[g]]
  /\ owned' = [g \in Fence |-> IF g = f THEN TRUE ELSE owned[g]]
  /\ drained' = FALSE
  /\ qpc' = WakeQueue /\ hpc' = WakeIdlers(hpc)
  /\ UNCHANGED <<Running, Cmd, spin, signaled, isSet, wait, ran, ticket>>

\* vkQueueWaitIdle, vkDeviceWaitIdle: Queue::waitIdle.
WaitIdle(h) ==
  /\ Calls(h)
  /\ hpc' = [hpc EXCEPT ![h] = "idleLock"]
  /\ ticket' = [ticket EXCEPT ![h] = Len(log)]
  /\ UNCHANGED <<queueVars, threadVars, signaled, isSet, wait, log, ran, due,
                 owned, drained>>

\* Fault: the entry being run, which is still at the front, is not counted.
QueueAlmostIdle == Len(Commands) <= 1
QueueIdle == Commands = <<>>

IdleReturn(h) ==
  /\ hpc[h] = "idleLock" /\ MutexFree /\ QueueIdle
  /\ hpc' = [hpc EXCEPT ![h] = "idle"]
  /\ ticket' = [ticket EXCEPT ![h] = 0]
  /\ drained' = TRUE
  /\ UNCHANGED <<queueVars, threadVars, signaled, isSet, wait, log, ran, due,
                 owned>>

IdleSleep(h) ==
  /\ hpc[h] = "idleLock" /\ MutexFree /\ ~QueueIdle
  /\ hpc' = [hpc EXCEPT ![h] = "idleAsleep"]
  /\ UNCHANGED <<queueVars, threadVars, signaled, isSet, wait, historyVars>>

\* vkWaitForFences.
WaitForFences(h, fs, all, timeout) ==
  /\ Calls(h)
  /\ wait' = [wait EXCEPT ![h] = [NoWait EXCEPT
                !.fences = fs, !.all = all, !.timeout = timeout]]
  /\ hpc' = [hpc EXCEPT ![h] = "fenceLock"]
  /\ UNCHANGED <<queueVars, threadVars, signaled, isSet, historyVars>>

\* One round of the loop in Device::waitForFences: lock FenceMutex, ...
LockFences(h) ==
  /\ hpc[h] = "fenceLock" /\ FenceMutexFree
  /\ wait' = [wait EXCEPT ![h] = [@ EXCEPT !.unread = wait[h].fences, !.seen = {}]]
  /\ hpc' = [hpc EXCEPT ![h] = "scan"]
  /\ UNCHANGED <<queueVars, threadVars, signaled, isSet, historyVars>>

\* ... read the flags one after the other, ...
ReadFence(h) ==
  /\ hpc[h] = "scan"
  /\ \E f \in wait[h].unread :
       wait' = [wait EXCEPT ![h] = [@ EXCEPT
                  !.unread = wait[h].unread \ {f},
                  !.seen = wait[h].seen \cup {g \in {f} : signaled[g]}]]
  /\ UNCHANGED <<queueVars, threadVars, signaled, isSet, hpc, historyVars>>

\* Faults: one fence is enough for all; one is not enough for any.
SatisfiedByOne(h) == wait[h].seen # {}
SatisfiedByTwo(h) == IF wait[h].all THEN wait[h].seen = wait[h].fences
                                    ELSE \E f, g \in wait[h].seen : f # g
Satisfied(h) == IF wait[h].all THEN wait[h].seen = wait[h].fences
                               ELSE wait[h].seen # {}
\* Fault: a timeout that passes during the wait is not noticed.
TimedOutAtOnce(h) == wait[h].timeout = "zero"
TimedOut(h)  == wait[h].timeout = "zero" \/ wait[h].expired

\* ... and return (VK_SUCCESS or VK_TIMEOUT) ...
FencesReturn(h) ==
  /\ hpc[h] = "scan" /\ wait[h].unread = {}
  /\ Satisfied(h) \/ TimedOut(h)
  /\ hpc' = [hpc EXCEPT ![h] = "idle"]
  /\ wait' = [wait EXCEPT ![h] = NoWait]
  /\ UNCHANGED <<queueVars, threadVars, signaled, isSet, historyVars>>

\* ... or sleep on FenceSignaled.
FencesSleep(h) ==
  /\ hpc[h] = "scan" /\ wait[h].unread = {}
  /\ ~Satisfied(h) /\ ~TimedOut(h)
  /\ hpc' = [hpc EXCEPT ![h] = "fenceAsleep"]
  /\ UNCHANGED <<queueVars, threadVars, signaled, isSet, wait, historyVars>>

\* The clock passes the finite timeout of a wait, wherever the wait is.
Expire(h) ==
  /\ hpc[h] \in {"fenceLock", "scan", "fenceAsleep"}
  /\ wait[h].timeout = "finite" /\ ~wait[h].expired
  /\ wait' = [wait EXCEPT ![h].expired = TRUE]
  /\ UNCHANGED <<queueVars, threadVars, signaled, isSet, hpc, historyVars>>

\* wait_for gives up: a finite timeout has passed, or the timeout is UINT64_MAX,
\* which becomes a negative duration, so that wait_for never sleeps at all.
Timer(h) ==
  /\ hpc[h] = "fenceAsleep" /\ (wait[h].expired \/ wait[h].timeout = "forever")
  /\ hpc' = [hpc EXCEPT ![h] = "fenceLock"]
  /\ UNCHANGED <<queueVars, threadVars, signaled, isSet, wait, historyVars>>

\* Either wait of a host may end without a notification.
SpuriousHostWake(h) ==
  /\ hpc[h] \in {"idleAsleep", "fenceAsleep"}
  /\ hpc' = [hpc EXCEPT ![h] = IF @ = "idleAsleep" THEN "idleLock" ELSE "fenceLock"]
  /\ UNCHANGED <<queueVars, threadVars, signaled, isSet, wait, historyVars>>

\* vkResetFences: no lock.  A host resets a fence it has seen signaled, while
\* no thread is waiting for it.
ResetFence(h, f) ==
  /\ Calls(h) /\ signaled[f]
  /\ \A g \in Host : f \notin wait[g].fences
  /\ signaled' = [signaled EXCEPT ![f] = FALSE]
  /\ owned' = [owned EXCEPT ![f] = FALSE]
  /\ UNCHANGED <<queueVars, threadVars, isSet, hpc, wait, log, ran, due, ticket,
                 drained>>

\* vkSetEvent, vkResetEvent: no lock.  A host does not reset an event that a
\* command is waiting for.
SetEvent(h, e) ==
  /\ Calls(h)
  /\ isSet' = [isSet EXCEPT ![e] = TRUE]
  /\ UNCHANGED <<queueVars, threadVars, signaled, hpc, wait, historyVars>>

BeingWaitedFor(e) ==
  qpc = "run" /\ Cmd.op = "waitEvents" /\ \E i \in DOMAIN Cmd.events : Cmd.events[i] = e

ResetEvent(h, e) ==
  /\ Calls(h) /\ ~BeingWaitedFor(e)
  /\ isSet' = [isSet EXCEPT ![e] = FALSE]
  /\ UNCHANGED <<queueVars, threadVars, signaled, hpc, wait, historyVars>>

\* vkDestroyDevice, the destructor of Queue up to Thread.join().  No other call
\* is in progress.
Destroy(h) ==
  /\ \A g \in Host : hpc[g] = "idle"
  /\ Running /\ MutexFree
  /\ MustDrain => drained
  /\ Running' = FALSE
  /\ Commands' = <<>>
  /\ qpc' = WakeQueue
  /\ hpc' = [hpc EXCEPT ![h] = "join"]
  /\ UNCHANGED <<Fences, Cmd, spin, signaled, isSet, wait, historyVars>>

Join(h) ==
  /\ hpc[h] = "join" /\ qpc = "exited"
  /\ hpc' = [hpc EXCEPT ![h] = "gone"]
  /\ UNCHANGED <<queueVars, threadVars, signaled, isSet, wait, historyVars>>

\* The device is gone: nothing more happens.
Gone(h) == hpc[h] = "gone" /\ UNCHANGED vars

\* The steps by which a call a host has begun gets on.
InCall(h) ==
  \/ IdleReturn(h) \/ IdleSleep(h) \/ LockFences(h) \/ ReadFence(h)
  \/ FencesReturn(h) \/ FencesSleep(h) \/ Join(h)

NewCall(h) ==
  \/ \E batch \in Batch, f \in Fence \cup {Null} : Submit(h, batch, f)
  \/ WaitIdle(h)
  \/ \E fs \in (SUBSET Fence) \ {{}}, all \in BOOLEAN, t \in Timeouts :
       WaitForFences(h, fs, all, t)
  \/ \E f \in Fence : ResetFence(h, f)
  \/ \E e \in Event : SetEvent(h, e) \/ ResetEvent(h, e)
  \/ Destroy(h)

HostThread(h) ==
  NewCall(h) \/ InCall(h) \/ Expire(h) \/ Timer(h) \/ SpuriousHostWake(h)
  \/ Gone(h)

Next == QueueThread \/ SpuriousWake \/ \E h \in Host : HostThread(h)

Spec == Init /\ [][Next]_vars

(* Fairness: a thread that can run does run.  A thread blocked on a mutex  *)
(* that others keep taking gets it in the end (strong fairness of the two  *)
(* kinds of lock acquisition that contend with a repeated one: a host that *)
(* polls with an unlimited timeout takes FenceMutex again and again).  A   *)
(* timer that is due fires.  Nothing obliges a host to make a call, or a   *)
(* wait to end without a notification.                                     *)
Fairness ==
  /\ WF_vars(QueueThread) /\ SF_vars(NotifyFence)
  /\ \A h \in Host : /\ WF_vars(InCall(h)) /\ WF_vars(Expire(h)) /\ WF_vars(Timer(h))
                     /\ SF_vars(LockFences(h)) /\ SF_vars(IdleReturn(h))

FairSpec == Spec /\ Fairness

-------------------------------------------------------------------------------
(* The queue implements CommandStream, which declares log, ran, signaled    *)
(* and ticket: the histories above, and the flags of the fences.           *)

Stream == INSTANCE CommandStream

\* Commands and fences take effect one by one in submission order, and waitIdle
\* waits for all that was submitted before it.
ImplementsStream == Stream!Spec

\* As above, and every entry takes effect in the end (commands that end by
\* themselves, on a queue that is idle when it is destroyed).
ImplementsFairStream == Stream!FairSpec

-------------------------------------------------------------------------------
(* Safety.                                                                 *)

\* Entries take effect one by one in the order in which they were submitted:
\* what ran is a prefix of what was pushed, and while the device exists the
\* rest is exactly what Commands holds (its front may have run already).
Unpopped == IF qpc \in {"pop", "erase"} THEN 1 ELSE 0
InOrder ==
  /\ Unpopped <= Len(ran) /\ Len(ran) <= Len(log)
  /\ \A i \in 1..Len(ran) : ran[i] = log[i]
  /\ Running =>
       /\ Len(Commands) = Len(log) - Len(ran) + Unpopped
       /\ \A i \in 1..Len(Commands) :
            Commands[i] = log[Len(ran) - Unpopped + i]

\* A host that sees a fence signaled knows that the batch it came with, and all
\* that was submitted before, has taken effect; a fence in flight that has not
\* been signaled is still pending.
FenceAfterBatch ==
  \A f \in Fence :
    /\ signaled[f] => due[f] <= Len(ran)
    /\ Running /\ owned[f] /\ ~signaled[f] => f \in Fences /\ due[f] > Len(ran)

\* The assertion of Queue::submit, Fences.count(Fence) == 0, for a host that
\* reuses a fence as soon as it has seen it signaled and reset it.
SubmitAssertion ==
  \A f \in Fence : MutexFree /\ ~owned[f] => f \notin Fences

\* No fence wake-up is lost: a thread that sleeps in waitForFences although its
\* condition holds is about to be notified.
NoLostFenceWakeup ==
  \A h \in Host :
    hpc[h] = "fenceAsleep"
      /\ (IF wait[h].all THEN \A f \in wait[h].fences : signaled[f]
                         ELSE \E f \in wait[h].fences : signaled[f])
    => qpc \in {"erase", "notify"}

\* No wake-up of StateChanged is lost: the queue thread sleeps only on an empty
\* queue it has to serve, waitIdle only on a queue that is not empty.
NoLostQueueWakeup ==
  /\ qpc = "asleep" => Commands = <<>> /\ Running
  /\ \A h \in Host : hpc[h] = "idleAsleep" => Commands # <<>>

\* When vkWaitForFences succeeds on all of its fences, the batches they came
\* with have taken effect, and with any of them, one of the batches has.
WaitForFencesComplete ==
  [][\A h \in Host :
       hpc[h] = "scan" /\ hpc'[h] = "idle" /\ Satisfied(h) =>
         LET ready == {f \in wait[h].fences : signaled[f] /\ due[f] <= Len(ran)}
         IN  IF wait[h].all THEN ready = wait[h].fences ELSE ready # {}]_vars

\* vkCmdWaitEvents lets later commands run only once all of its events are set.
WaitEventsComplete ==
  qpc = "run" /\ Cmd.op = "waitEvents" /\ spin = <<>> =>
    \A i \in DOMAIN Cmd.events : isSet[Cmd.events[i]]

(* The inductive invariant behind the properties above.  Its parts relate   *)
(* Commands, Fences, the flags and the histories at every step of both      *)
(* sides.                                                                   *)

\* Every fence queued is in Fences, and queued once; once the destructor has
\* cleared Commands it stays empty.
FencesQueued ==
  /\ \A i \in 1..Len(Commands) : Commands[i] \in Fence => Commands[i] \in Fences
  /\ \A i, j \in 1..Len(Commands) :
       Commands[i] \in Fence /\ Commands[i] = Commands[j] => i = j
  /\ ~Running => Commands = <<>>

\* While the queue thread holds Mutex the fence it signals is at the front, and
\* that one alone may be signaled, or reset by a host, and still be in Fences.
FenceAtFront ==
  /\ qpc = "erase" => /\ Running /\ Commands # <<>> /\ Head(Commands) \in Fence
                      /\ signaled[Head(Commands)] \/ ~owned[Head(Commands)]
  /\ \A f \in Fences : signaled[f] \/ ~owned[f] =>
       qpc = "erase" /\ f = Head(Commands)

\* The command being run is the next entry of log, and at the front of Commands
\* unless the destructor has cleared it.
CommandAtFront ==
  /\ qpc \in {"run", "pop"} => Cmd \in Command
  /\ qpc = "run" => Len(ran) < Len(log) /\ Cmd = log[Len(ran) + 1]
  /\ qpc \in {"run", "pop"} /\ Running => Commands # <<>> /\ Head(Commands) = Cmd

\* due is where a fence in Commands is in log, and a fence in flight is queued.
DueExact ==
  /\ \A f \in Fence : signaled[f] => due[f] <= Len(ran)
  /\ Running =>
       /\ \A i \in 1..Len(Commands) :
            Commands[i] \in Fence => due[Commands[i]] = Len(ran) - Unpopped + i
       /\ \A f \in Fences : \E i \in 1..Len(Commands) : Commands[i] = f
       /\ \A f \in Fence : owned[f] /\ ~signaled[f] => f \in Fences

\* A waiter has counted the fences it has read and seen signaled; one that it
\* read too early has been signaled by a thread that has yet to notify.
ScanExact ==
  \A h \in Host :
    /\ wait[h].unread \subseteq wait[h].fences /\ wait[h].seen \subseteq wait[h].fences
    /\ hpc[h] = "scan" =>
         \A f \in wait[h].fences \ (wait[h].unread \cup wait[h].seen) :
           signaled[f] => qpc \in {"erase", "notify"}

Inv == /\ TypeOK /\ FencesQueued /\ FenceAtFront /\ CommandAtFront /\ DueExact
       /\ InOrder /\ ScanExact /\ NoLostFenceWakeup /\ NoLostQueueWakeup

(* Liveness.                                                               *)

\* The queue thread spins on an event that is not set.
Blocked == qpc = "run" /\ spin # <<>> /\ ~isSet[Head(spin)]

\* A wait returns once its fences are all signaled, and one with a finite
\* timeout returns whatever happens to them.
FenceWaitersReturn ==
  \A h \in Host :
    /\ (hpc[h] \in {"fenceLock", "scan", "fenceAsleep"}
         /\ \A f \in wait[h].fences : signaled[f]) ~> hpc[h] = "idle"
    /\ (hpc[h] = "fenceLock" /\ wait[h].timeout = "finite") ~> hpc[h] = "idle"

\* Once no more batches are submitted (the history is finite), and unless the
\* queue thread spins on an unset event, waitIdle returns, and so does
\* vkDestroyDevice: the thread notices that it has to exit even if it was about
\* to sleep.
QueueWaitersReturn ==
  \A h \in Host :
    /\ hpc[h] = "idleLock" ~> (hpc[h] = "idle" \/ Blocked)
    /\ hpc[h] = "join" ~> (hpc[h] = "gone" \/ Blocked)
===============================================================================
