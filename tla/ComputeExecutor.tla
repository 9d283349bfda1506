--------------------------- MODULE ComputeExecutor ---------------------------
(***************************************************************************)
(* The scheduler that runs one compute dispatch on the lanes of the        *)
(* virtual GPU (lib/talvos/PipelineExecutor.cpp): start, step, tickModel,  *)
(* doPrepareTick, stepComputeWorker, doSwtch, stop, as the dispatch        *)
(* command and the debugging session of tools/talvos-cmd/wasm.cpp call     *)
(* them.                                                                   *)
(*                                                                         *)
(* Groups and invocations are numbered along one dimension.  Lane l is     *)
(* lane l % LanesPerCore of core l \div LanesPerCore; start gives lane l   *)
(* the l-th group.  What an invocation computes is left out: it is a       *)
(* sequence of instructions of three kinds, a memory access, a workgroup   *)
(* barrier or anything else.  The function of invocations to sequences is  *)
(* chosen at the start, so that invocations may diverge after the first,   *)
(* that of the entry point; the last is a terminator.                      *)
(*                                                                         *)
(* The executor has one thread.  Its calls are cut into steps at the loop  *)
(* iterations of the code: pc says which loop it is in, and todo lists the *)
(* lanes which that loop has still to visit.                               *)
(*                                                                         *)
(* An operator introduced by "Fault:" is a variant of the next definition  *)
(* with a mistake in it; it shows that a property can fail.                *)
(***************************************************************************)
EXTENDS Integers, Sequences, FiniteSets

CONSTANTS
  NumCores, LanesPerCore,  \* Device::Cores, Device::Lanes
  NumGroups, GroupSize,    \* size of the dispatch and of a workgroup
  Programs,                \* the functions of invocations to instructions
  Masks,                   \* the step masks callers pass
  Calls,                   \* the entry points callers use: "step", "tick"
  Null

Lane       == 0..(NumCores * LanesPerCore - 1)
Core       == 0..(NumCores - 1)
Group      == 0..(NumGroups - 1)
Invocation == 0..(NumGroups * GroupSize - 1)
Kind       == {"mem", "barrier", "other"}

(* "tiny scheduler ran out of numbers": the assertion of start also fails  *)
(* when the groups fill the lanes exactly.                                 *)
ASSUME SizeAssumption ==
  /\ NumCores \in Nat \ {0} /\ LanesPerCore \in Nat \ {0}
  /\ GroupSize \in Nat \ {0}
  /\ NumGroups \in Nat \ {0} /\ NumGroups < NumCores * LanesPerCore
ASSUME ProgramAssumption ==
  \A p \in Programs : /\ DOMAIN p = Invocation
                      /\ \A i \in Invocation : /\ p[i] \in Seq(Kind) /\ p[i] # <<>>
                                                /\ p[i][Len(p[i])] = "other"
                      /\ \A i, j \in Invocation : p[i][1] = p[j][1]
ASSUME CallAssumption ==
  /\ Masks \subseteq SUBSET Lane /\ Calls \subseteq {"step", "tick"}
  /\ Null \notin Int \cup Kind

VARIABLES
  program,            \* the instructions of each invocation
  executed,           \* how many of them it has executed
  atBarrier,          \* Invocation::AtBarrier
  PendingGroups, NextWorkIndex,
  RunningGroups,      \* created groups that are not the current one
  CurrentGroup, CurrentInvocation,
  PC,                 \* Core::PC: the kind of instruction each core is at
  Microtasks,         \* Core::Microtasks
  Lanes,              \* PipelineExecutor::Lanes
  completed,          \* groups reported complete and deleted
  pc, call, mask,     \* the call in progress
  core, todo          \* where its loops are

invocVars == <<program, executed, atBarrier>>
groupVars == <<PendingGroups, NextWorkIndex, RunningGroups, CurrentGroup,
               CurrentInvocation, completed>>
coreVars  == <<PC, Microtasks, Lanes>>
vars == <<invocVars, groupVars, coreVars, pc, call, mask, core, todo>>

(* Assignments: the lanes in use are the first NumGroups, and the logical  *)
(* coordinate given to lane l is group number l.                           *)
Assigned == 0..(NumGroups - 1)
LogCoord(l) == l
CoreOf(l) == l \div LanesPerCore
LanesOf(c) == {l \in Assigned : CoreOf(l) = c}
\* The elements of a set of lanes in the order in which Assignments visits them.
InOrder(ls) ==
  CHOOSE s \in [1..Cardinality(ls) -> ls] : \A i, j \in DOMAIN s : i < j => s[i] < s[j]

GroupOf(i) == i \div GroupSize
WorkItems(g) == (g * GroupSize)..(g * GroupSize + GroupSize - 1)

\* Invocation::getState and getCurrentInstruction.
\* Fault: an invocation at its last instruction counts as finished.
ReadyBeforeLast(i) == ~atBarrier[i] /\ executed[i] + 1 < Len(program[i])
Ready(i)    == ~atBarrier[i] /\ executed[i] < Len(program[i])
Finished(i) == ~atBarrier[i] /\ executed[i] = Len(program[i])
Current(i)  == IF executed[i] < Len(program[i]) THEN program[i][executed[i] + 1] ELSE Null
CurrentPC   == Current(CurrentInvocation)

Elements(s) == {s[i] : i \in DOMAIN s}
\* Fault: RunningGroups.erase is missing.
WithoutErasing(s, x) == s
Without(s, x) ==
  LET n == CHOOSE n \in DOMAIN s : s[n] = x IN SubSeq(s, 1, n - 1) \o SubSeq(s, n + 1, Len(s))

LaneState == {"NotLaunched", "AtBreakpoint", "Active", "Inactive", "AtBarrier", "Exited"}
Microtask == [kind : {"local", "mem"}, lanes : Seq(Lane)]

TypeOK ==
  /\ program \in Programs
  /\ executed \in [Invocation -> Nat] /\ atBarrier \in [Invocation -> BOOLEAN]
  /\ PendingGroups \in Seq(Group) /\ NextWorkIndex \in Nat
  /\ RunningGroups \in Seq(Group) /\ CurrentGroup \in Group \cup {Null}
  /\ CurrentInvocation \in Invocation \cup {Null}
  /\ PC \in [Core -> Kind \cup {Null}] /\ Microtasks \in [Core -> Seq(Microtask)]
  /\ Lanes \in [Lane -> LaneState] /\ completed \subseteq Group
  /\ pc \in {"start", "idle", "tick", "lane", "work", "collect", "finished",
             "stopped", "aborted", "crashed"}
  /\ call \in {"step", "tick"} /\ mask \subseteq Lane
  /\ core \in 0..NumCores /\ todo \in Seq(Lane)

-------------------------------------------------------------------------------
\* start, up to startComputeWorker.
Init ==
  /\ program \in Programs
  /\ executed = [i \in Invocation |-> 0] /\ atBarrier = [i \in Invocation |-> FALSE]
  /\ PendingGroups = [i \in 1..NumGroups |-> i - 1] /\ NextWorkIndex = 0
  /\ RunningGroups = <<>> /\ CurrentGroup = Null /\ CurrentInvocation = Null
  /\ PC = [c \in Core |-> Null] /\ Microtasks = [c \in Core |-> <<>>]
  /\ Lanes = [l \in Lane |-> IF l \in Assigned THEN "AtBreakpoint" ELSE "NotLaunched"]
  /\ completed = {}
  /\ pc = "start" /\ call = "step" /\ mask = {}
  /\ core = 0 /\ todo = InOrder(Assigned)

\* The groups doSwtch looks in.  Fault: the list of suspended groups is left out.
SuspendedNever(g) == FALSE
Suspended(g) == g # CurrentGroup /\ g \in Elements(RunningGroups)
IsPending(g) == /\ g # CurrentGroup /\ ~Suspended(g)
                /\ \E i \in (NextWorkIndex + 1)..Len(PendingGroups) : PendingGroups[i] = g
\* if (CurrentGroup) RunningGroups.push_back(CurrentGroup).  Fault: always.
SuspendingAlways(kept) == Append(kept, CurrentGroup)
Suspending(kept) == IF CurrentGroup = Null THEN kept ELSE Append(kept, CurrentGroup)

\* doSwtch: make the invocation with a global id and its group current, and
\* suspend the group left behind; a pending group is created.
Swtch(id) ==
  LET g     == GroupOf(id)
      found == g = CurrentGroup \/ Suspended(g) \/ IsPending(g)
      kept  == IF Suspended(g) THEN Without(RunningGroups, g) ELSE RunningGroups
  IN /\ PendingGroups' = IF IsPending(g) THEN Without(PendingGroups, g) ELSE PendingGroups
     /\ RunningGroups' = IF g = CurrentGroup THEN kept ELSE Suspending(kept)
     /\ CurrentGroup' = IF found THEN g ELSE Null
     /\ CurrentInvocation' = IF found THEN id ELSE Null
     /\ UNCHANGED <<NextWorkIndex, completed>>

\* startComputeWorker: the PC of a core is that of its lanes, which agree.
StartLane ==
  /\ pc = "start" /\ todo # <<>>
  /\ UNCHANGED invocVars
  /\ Swtch(LogCoord(Head(todo)))
  /\ LET c == CoreOf(Head(todo)) IN
       PC' = [PC EXCEPT ![c] = CurrentPC']
  /\ todo' = Tail(todo)
  /\ UNCHANGED <<Microtasks, Lanes, pc, call, mask, core>>

Started ==
  /\ pc = "start" /\ todo = <<>>
  /\ pc' = "idle"
  /\ UNCHANGED <<invocVars, groupVars, coreVars, call, mask, core, todo>>

-------------------------------------------------------------------------------
\* doPrepareTick: one microtask for all lanes of a core, but one for each of its
\* lanes when the core is at a memory access.
\* Faults: memory microtasks for the lanes of every core; a local microtask that
\* misses the first lane.
TasksOfAnyCore(c) ==
  CASE PC[c] = Null  -> <<>>
    [] PC[c] = "mem" -> [i \in 1..NumGroups |-> [kind |-> "mem", lanes |-> <<i - 1>>]]
    [] OTHER         -> <<[kind |-> "local", lanes |-> InOrder(LanesOf(c))]>>
TasksOfAllButFirst(c) ==
  CASE PC[c] = Null  -> <<>>
    [] PC[c] = "mem" -> [i \in 1..Cardinality(LanesOf(c)) |->
                           [kind |-> "mem", lanes |-> <<InOrder(LanesOf(c))[i]>>]]
    [] OTHER         -> <<[kind |-> "local", lanes |-> Tail(InOrder(LanesOf(c)))]>>
TasksOf(c) ==
  CASE PC[c] = Null  -> <<>>
    [] PC[c] = "mem" -> [i \in 1..Cardinality(LanesOf(c)) |->
                           [kind |-> "mem", lanes |-> <<InOrder(LanesOf(c))[i]>>]]
    [] OTHER         -> <<[kind |-> "local", lanes |-> InOrder(LanesOf(c))]>>
Prepare == Microtasks' = [c \in Core |-> Microtasks[c] \o TasksOf(c)]
AllDone == \A c \in Core : PC[c] = Null
Queued  == \E c \in Core : Microtasks[c] # <<>>

\* A caller steps the lanes in m, or ticks all of them once.
Call(m, entry) ==
  /\ pc = "idle"
  /\ call' = entry /\ mask' = IF entry = "tick" THEN Lane ELSE m
  /\ core' = 0
  /\ IF Queued \/ entry = "tick" THEN pc' = "tick" /\ UNCHANGED Microtasks
     ELSE IF AllDone             THEN pc' = "finished" /\ UNCHANGED Microtasks
                                 ELSE pc' = "tick" /\ Prepare
  /\ UNCHANGED <<invocVars, groupVars, PC, Lanes, todo>>

\* tickModel: every core runs the microtask at its front.
RunFront ==
  /\ pc = "tick" /\ core < NumCores
  /\ IF Microtasks[core] = <<>>
     THEN core' = core + 1 /\ UNCHANGED <<pc, todo>>
     ELSE pc' = "lane" /\ todo' = Head(Microtasks[core]).lanes /\ UNCHANGED core
  /\ UNCHANGED <<invocVars, groupVars, coreVars, call, mask>>

\* After every core: step ticks on while there are microtasks and then, like
\* tick, prepares the next ones.
TickDone ==
  /\ pc = "tick" /\ core = NumCores
  /\ IF Queued
     THEN /\ pc' = IF call = "step" THEN "tick" ELSE "idle"
          /\ core' = 0 /\ UNCHANGED <<Microtasks, todo>>
     ELSE /\ Prepare
          /\ pc' = CASE call = "tick"             -> "idle"
                     [] call = "step" /\ AllDone  -> "finished"
                     [] call = "step" /\ ~AllDone -> "collect"
          /\ todo' = IF call = "step" THEN InOrder(Assigned) ELSE todo
          /\ UNCHANGED core
  /\ UNCHANGED <<invocVars, groupVars, PC, Lanes, call, mask>>

\* Mask & LaneBit.  Fault: the mask is tested for the core only.
CoreInMask(l) == mask \cap LanesOf(CoreOf(l)) # {}
InMask(l) == l \in mask

\* A microtask passes over a lane that the mask leaves out ...
SkipLane ==
  /\ pc = "lane" /\ todo # <<>> /\ ~InMask(Head(todo))
  /\ todo' = Tail(todo)
  /\ UNCHANGED <<invocVars, groupVars, coreVars, pc, call, mask, core>>

\* ... and switches to the invocation of any other, unless that has exited and
\* its group is gone.
EnterLane ==
  /\ pc = "lane" /\ todo # <<>> /\ InMask(Head(todo))
  /\ Swtch(LogCoord(Head(todo)))
  /\ IF CurrentInvocation' = Null /\ Lanes[Head(todo)] = "Exited"
     THEN todo' = Tail(todo) /\ UNCHANGED pc
     ELSE pc' = "work" /\ UNCHANGED todo
  /\ UNCHANGED <<invocVars, coreVars, call, mask, core>>

\* Fault: memory microtasks leave the PC as it is.
LeaveLaneForgotten ==
  /\ todo' = Tail(todo)
  /\ pc' = "lane" /\ UNCHANGED PC
\* stepComputeWorker returns to the microtask.  The last memory microtask of a
\* core takes the PC from the current invocation, which it dereferences.
LeaveLane ==
  /\ todo' = Tail(todo)
  /\ IF Head(Microtasks[core]).kind = "mem" /\ Len(Microtasks[core]) = 1
     THEN IF CurrentInvocation' = Null
          THEN pc' = "crashed" /\ UNCHANGED PC
          ELSE /\ PC' = [PC EXCEPT ![core] = CurrentPC']
               /\ pc' = "lane"
     ELSE pc' = "lane" /\ UNCHANGED PC

\* The end of a microtask.  One that is not for memory has the PC taken from the
\* current invocation, whichever that is.
EndMicrotask ==
  /\ pc = "lane" /\ todo = <<>>
  /\ Microtasks' = [Microtasks EXCEPT ![core] = Tail(@)]
  /\ PC' = IF Head(Microtasks[core]).kind = "local" /\ CurrentInvocation # Null
           THEN [PC EXCEPT ![core] = CurrentPC] ELSE PC
  /\ core' = core + 1
  /\ pc' = "tick"
  /\ UNCHANGED <<invocVars, groupVars, Lanes, call, mask, todo>>

-------------------------------------------------------------------------------
(* stepComputeWorker: its loop, one iteration or early return at a time.   *)

Working == pc = "work"
NoReady == ~(CurrentInvocation # Null /\ Ready(CurrentInvocation))

\* Invocation::step.
StepInvocation ==
  /\ Working /\ ~NoReady
  /\ LET i == CurrentInvocation IN
       /\ executed' = [executed EXCEPT ![i] = @ + 1]
       /\ atBarrier' = [atBarrier EXCEPT ![i] = (Current(i) = "barrier")]
  /\ UNCHANGED <<program, groupVars, Microtasks, Lanes, call, mask, core>>
  /\ LeaveLane

\* There is no current group: resume the group suspended last, or create the next
\* pending one, or return, when all groups are finished.
NextGroup ==
  /\ Working /\ NoReady /\ CurrentGroup = Null
  /\ UNCHANGED <<invocVars, PendingGroups, CurrentInvocation, completed,
                 Microtasks, Lanes, call, mask, core>>
  /\ IF RunningGroups # <<>>
     THEN /\ CurrentGroup' = RunningGroups[Len(RunningGroups)]
          /\ RunningGroups' = SubSeq(RunningGroups, 1, Len(RunningGroups) - 1)
          /\ UNCHANGED <<NextWorkIndex, PC, pc, todo>>
     ELSE /\ UNCHANGED RunningGroups
          /\ IF NextWorkIndex < Len(PendingGroups)
             THEN /\ CurrentGroup' = PendingGroups[NextWorkIndex + 1]
                  /\ NextWorkIndex' = NextWorkIndex + 1
                  /\ UNCHANGED <<PC, pc, todo>>
             ELSE UNCHANGED <<CurrentGroup, NextWorkIndex>> /\ LeaveLane

\* Make the first ready invocation of the group current, without stepping it.
PickInvocation ==
  /\ Working /\ NoReady /\ CurrentGroup # Null
  /\ \E i \in WorkItems(CurrentGroup) :
       /\ Ready(i) /\ \A j \in WorkItems(CurrentGroup) : Ready(j) => i <= j
       /\ CurrentInvocation' = i
  /\ UNCHANGED <<invocVars, PendingGroups, NextWorkIndex, RunningGroups, CurrentGroup,
                 completed, Microtasks, Lanes, call, mask, core>>
  /\ LeaveLane

Stuck ==
  /\ Working /\ NoReady /\ CurrentGroup # Null
  /\ \A i \in WorkItems(CurrentGroup) : ~Ready(i)
Waiting(g) == {i \in WorkItems(g) : atBarrier[i]}

\* BarrierCount == WorkItems.size().  Fault: BarrierCount > 0 is enough.
SomeWaiting == Waiting(CurrentGroup) # {}
AllWaiting == Waiting(CurrentGroup) = WorkItems(CurrentGroup)

\* All invocations of the group have reached the barrier: they pass it.
ClearBarrier ==
  /\ Stuck /\ AllWaiting
  /\ atBarrier' = [i \in Invocation |-> atBarrier[i] /\ i \notin WorkItems(CurrentGroup)]
  /\ CurrentInvocation' = Null
  /\ UNCHANGED <<program, executed, PendingGroups, NextWorkIndex, RunningGroups,
                 CurrentGroup, completed, coreVars, pc, call, mask, core, todo>>

\* "Barrier not reached by every invocation."
BarrierAbort ==
  /\ Stuck /\ Waiting(CurrentGroup) \notin {{}, WorkItems(CurrentGroup)}
  /\ CurrentInvocation' = Null
  /\ pc' = "aborted"
  /\ UNCHANGED <<invocVars, PendingGroups, NextWorkIndex, RunningGroups, CurrentGroup,
                 completed, coreVars, call, mask, core, todo>>

\* All invocations of the group have completed: report it and delete it.
CompleteGroup ==
  /\ Stuck /\ Waiting(CurrentGroup) = {}
  /\ completed' = completed \cup {CurrentGroup}
  /\ CurrentGroup' = Null /\ CurrentInvocation' = Null
  /\ UNCHANGED <<invocVars, PendingGroups, NextWorkIndex, RunningGroups,
                 coreVars, pc, call, mask, core, todo>>

-------------------------------------------------------------------------------
\* The last loop of step: the state of every lane, for the debugger.
CollectLane ==
  /\ pc = "collect" /\ todo # <<>>
  /\ LET l == Head(todo)  i == CurrentInvocation' IN
       IF InMask(l)
       THEN /\ Swtch(LogCoord(l))
            /\ Lanes' = [Lanes EXCEPT ![l] =
                 IF i = Null THEN "Exited" ELSE IF Finished(i) THEN "Exited"
                 ELSE IF atBarrier[i] THEN "AtBarrier" ELSE "Active"]
       ELSE /\ Lanes' = [Lanes EXCEPT ![l] = "Inactive"]
            /\ UNCHANGED groupVars
  /\ todo' = Tail(todo)
  /\ UNCHANGED <<invocVars, PC, Microtasks, pc, call, mask, core>>

\* The end of step, with its two assertions.
StepDone ==
  /\ pc = "collect" /\ todo = <<>>
  /\ pc' = IF /\ CurrentInvocation = Null \/ Finished(CurrentInvocation)
              /\ RunningGroups = <<>> /\ NextWorkIndex >= Len(PendingGroups)
           THEN "finished"
           ELSE IF CurrentInvocation = Null \/ CurrentGroup = Null THEN "crashed"
           ELSE "idle"
  /\ UNCHANGED <<invocVars, groupVars, coreVars, call, mask, core, todo>>

\* stop.
Stop ==
  /\ pc = "finished"
  /\ PendingGroups' = <<>>
  /\ pc' = "stopped"
  /\ UNCHANGED <<invocVars, NextWorkIndex, RunningGroups, CurrentGroup,
                 CurrentInvocation, completed, coreVars, call, mask, core, todo>>

Worker == StepInvocation \/ NextGroup \/ PickInvocation \/ ClearBarrier \/ BarrierAbort \/ CompleteGroup

\* One step of the executor's thread.  Debugger adds who calls step and when.
Advance ==
  \/ StartLane \/ Started
  \/ RunFront \/ TickDone \/ SkipLane \/ EnterLane \/ EndMicrotask \/ Worker
  \/ CollectLane \/ StepDone \/ Stop

-------------------------------------------------------------------------------
(* Every group of the dispatch is in exactly one place: still pending,      *)
(* suspended, current, or reported complete (PendingGroups from             *)
(* NextWorkIndex on, RunningGroups, CurrentGroup).  The lookups of doSwtch  *)
(* and stepComputeWorker must neither lose a group nor create it twice, and *)
(* a group is reported complete only when each of its invocations has       *)
(* executed its whole program (the fall-through of stepComputeWorker).      *)
Places(g) ==
  Cardinality({i \in (NextWorkIndex + 1)..Len(PendingGroups) : PendingGroups[i] = g})
  + Cardinality({i \in DOMAIN RunningGroups : RunningGroups[i] = g})
  + (IF CurrentGroup = g THEN 1 ELSE 0) + (IF g \in completed THEN 1 ELSE 0)
GroupConservation ==
  /\ TypeOK
  /\ pc # "stopped" => \A g \in Group : Places(g) = 1
  /\ \A g \in completed : \A i \in WorkItems(g) : executed[i] = Len(program[i])

(* The workgroup barrier: an invocation has passed a number of barriers     *)
(* only if every invocation of its group has reached as many of them.       *)
Reached(i) == Cardinality({k \in 1..executed[i] : program[i][k] = "barrier"})
Passed(i)  == Reached(i) - (IF atBarrier[i] THEN 1 ELSE 0)
BarrierTogether ==
  \A i, j \in Invocation : GroupOf(i) = GroupOf(j) => Passed(i) <= Reached(j)

(* doPrepareTick "gather[s] enough work to step every active core a single  *)
(* time": the microtasks a core has queued visit only lanes of that core,   *)
(* and none of them twice, however steps and ticks follow one another.      *)
LaneOnce ==
  \A c \in Core : \A t, u \in DOMAIN Microtasks[c] :
    LET a == Microtasks[c][t].lanes  b == Microtasks[c][u].lanes IN
      \A i \in DOMAIN a, j \in DOMAIN b :
        a[i] \in LanesOf(c) /\ (a[i] = b[j] => <<t, i>> = <<u, j>>)

(* The step mask: an instruction is executed only for the invocation of a   *)
(* lane in the mask, the one its microtask is at, although doSwtch and      *)
(* stepComputeWorker move CurrentInvocation to others on the way.           *)
MaskRespected ==
  [][\A i \in Invocation : executed'[i] # executed[i] =>
       /\ executed'[i] = executed[i] + 1
       /\ Head(todo) \in mask /\ LogCoord(Head(todo)) = i]_vars

(* "Run a compute dispatch command to completion" (PipelineExecutor.h): no  *)
(* invocation has instructions left when step returns FINISHED.             *)
Completes ==
  pc \in {"finished", "stopped"} => \A i \in Invocation : executed[i] = Len(program[i])

(* The lanes of a core share its PC: between one step and the next their    *)
(* invocations have executed equally many instructions, and the PC, from    *)
(* which the next microtasks were prepared, is that of each of them.        *)
LockStep ==
  pc = "idle" =>
    \A l \in Assigned :
      /\ PC[CoreOf(l)] = Current(LogCoord(l))
      /\ \A m \in LanesOf(CoreOf(l)) : executed[LogCoord(l)] = executed[LogCoord(m)]

(* runComputeWorker leaves its loop and the dispatch comes to its stop, with *)
(* no assertion of step failing, no null invocation dereferenced by the      *)
(* memory microtask and no barrier aborting on the way.                      *)
Terminates == <>(pc = "stopped")
===============================================================================
