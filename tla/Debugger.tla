------------------------------- MODULE Debugger -------------------------------
(***************************************************************************)
(* The callers of the compute scheduler: the interactive debugger of       *)
(* PipelineExecutor (interact and its commands, signalError), which        *)
(* runComputeWorker enters after every step, and the session of            *)
(* tools/talvos-cmd/wasm.cpp, whose host steps, ticks and switches as it   *)
(* likes.                                                                  *)
(*                                                                         *)
(* Only the commands that change state are modelled; help and list print,  *)
(* and an empty line repeats a command that could be given anyway.  An     *)
(* access to memory may report an error (Device::reportError), which opens *)
(* the prompt in the middle of an instruction.                             *)
(***************************************************************************)
EXTENDS ComputeExecutor

CONSTANTS
  Fronts,          \* who calls: "interactive" (TALVOS_INTERACTIVE), "session"
  MaxErrors,       \* Device::MaxErrors
  MaxBreakpoints   \* bound: breakpoints set in one run

ASSUME FrontAssumption ==
  Fronts \subseteq {"interactive", "session"} /\ MaxErrors \in Nat /\ MaxBreakpoints \in Nat

VARIABLES
  front,
  Continue, Breakpoints, NextBreakpoint,
  prompt,     \* "none"; "open", between two steps; "error", inside an instruction;
              \* "closed", left for the next step; "quit"
  stepping,   \* the invocation whose instruction reported an error
  errors,     \* NumErrors
  meddled     \* history: the user has switched at the prompt of an error

debugVars == <<front, Continue, Breakpoints, NextBreakpoint, prompt, stepping, errors, meddled>>
allVars == <<vars, debugVars>>

\* The type invariant, with that of ComputeExecutor.
DebugTypeOK ==
  /\ TypeOK /\ front \in Fronts
  /\ Continue \in BOOLEAN /\ meddled \in BOOLEAN
  /\ NextBreakpoint \in 1..(MaxBreakpoints + 1) /\ DOMAIN Breakpoints \subseteq 1..MaxBreakpoints
  /\ prompt \in {"none", "open", "error", "closed", "quit"}
  /\ stepping \in Invocation \cup {Null} /\ errors \in 0..MaxErrors

DebugInit ==
  /\ Init
  /\ front \in Fronts
  /\ Continue = FALSE /\ Breakpoints = <<>> /\ NextBreakpoint = 1
  /\ prompt = "closed" /\ stepping = Null /\ errors = 0 /\ meddled = FALSE

\* The instruction an invocation is at, if it has a result: invocations that took
\* the same way are at the same one.
HasResult(i) == Ready(i) /\ Current(i) # "barrier" /\ executed[i] + 1 < Len(program[i])
ResultId(i)  == SubSeq(program[i], 1, executed[i] + 1)
ResultIds    == UNION {{SubSeq(program[i], 1, n) : n \in 1..(Len(program[i]) - 1)} : i \in Invocation}
Broken(i)    == HasResult(i) /\ \E n \in DOMAIN Breakpoints : Breakpoints[n] = ResultId(i)

-------------------------------------------------------------------------------
\* interact, after a step: a breakpoint reached by the current invocation ends
\* continue.  Fault: continue is looked at first.
InteractContinuing ==
  /\ front = "interactive" /\ pc = "idle" /\ prompt = "none"
  /\ Continue' = Continue
  /\ prompt' = IF Continue' \/ CurrentInvocation = Null THEN "closed" ELSE "open"
  /\ UNCHANGED <<vars, front, Breakpoints, NextBreakpoint, stepping, errors, meddled>>
Interact ==
  /\ front = "interactive" /\ pc = "idle" /\ prompt = "none"
  /\ Continue' = (Continue /\ ~(CurrentInvocation # Null /\ Broken(CurrentInvocation)))
  /\ prompt' = IF Continue' \/ CurrentInvocation = Null THEN "closed" ELSE "open"
  /\ UNCHANGED <<vars, front, Breakpoints, NextBreakpoint, stepping, errors, meddled>>

\* reportError, up to its limit, and signalError: the instruction waits for the user.
ReportError ==
  /\ front = "interactive" /\ prompt = "none" /\ errors < MaxErrors
  /\ Working /\ ~NoReady /\ Current(CurrentInvocation) = "mem"
  /\ errors' = errors + 1 /\ Continue' = FALSE
  /\ prompt' = "error" /\ stepping' = CurrentInvocation
  /\ UNCHANGED <<vars, front, Breakpoints, NextBreakpoint, meddled>>

Prompted == prompt \in {"open", "error"} /\ pc # "crashed"
AtHost   == Prompted \/ (front = "session" /\ pc = "idle")

\* brk, breakpoint delete and breakpoint clear.
Brk(id) ==
  /\ Prompted /\ NextBreakpoint <= MaxBreakpoints
  /\ Breakpoints' = [n \in DOMAIN Breakpoints \cup {NextBreakpoint} |->
                       IF n = NextBreakpoint THEN id ELSE Breakpoints[n]]
  /\ NextBreakpoint' = NextBreakpoint + 1
  /\ UNCHANGED <<vars, front, Continue, prompt, stepping, errors, meddled>>
Delete(ns) ==
  /\ Prompted /\ ns # {} /\ ns \subseteq DOMAIN Breakpoints
  /\ Breakpoints' = [n \in DOMAIN Breakpoints \ ns |-> Breakpoints[n]]
  /\ UNCHANGED <<vars, front, Continue, NextBreakpoint, prompt, stepping, errors, meddled>>

\* The prompt is left: for the next step, or for the rest of the instruction,
\* which belongs to the invocation that was being stepped, while the microtask
\* goes on with the one that is current now.
Leave ==
  /\ stepping' = Null
  /\ IF prompt = "open" THEN prompt' = "closed" /\ UNCHANGED vars
     ELSE /\ prompt' = "none"
          /\ executed' = [executed EXCEPT ![stepping] = @ + 1]
          /\ UNCHANGED <<program, atBarrier, groupVars, Microtasks, Lanes, call, mask, core>>
          /\ LeaveLane
  /\ UNCHANGED <<front, Breakpoints, NextBreakpoint, errors, meddled>>
Cont == Prompted /\ Continue' = TRUE /\ Leave
StepCommand ==
  /\ Prompted /\ CurrentInvocation # Null /\ Ready(CurrentInvocation)
  /\ UNCHANGED Continue /\ Leave

\* swtch and the switch of a session, which knows no prompt.
SwtchCommand(id) ==
  /\ AtHost
  /\ CurrentInvocation \notin {Null, id}
  /\ Swtch(id)
  /\ meddled' = (meddled \/ prompt = "error")
  /\ UNCHANGED <<invocVars, coreVars, pc, call, mask, core, todo, front, Continue, Breakpoints,
                 NextBreakpoint, prompt, stepping, errors>>

\* After a switch that found no group, step, print and switch use the current
\* invocation, which is null.
UseOfNull ==
  /\ AtHost
  /\ CurrentInvocation = Null
  /\ pc' = "crashed"
  /\ UNCHANGED <<invocVars, groupVars, coreVars, call, mask, core, todo, debugVars>>

Quit ==
  /\ Prompted
  /\ prompt' = "quit"
  /\ UNCHANGED <<vars, front, Continue, Breakpoints, NextBreakpoint, stepping, errors, meddled>>

-------------------------------------------------------------------------------
\* The executor runs on, and its callers step it.
RunOn == prompt \in {"none", "closed"} /\ Advance /\ UNCHANGED debugVars
NextStep ==
  /\ front = "interactive" /\ prompt = "closed" /\ Call(Lane, "step")
  /\ prompt' = "none"
  /\ UNCHANGED <<front, Continue, Breakpoints, NextBreakpoint, stepping, errors, meddled>>
SessionCall ==
  /\ front = "session" /\ \E m \in Masks, entry \in Calls : Call(m, entry)
  /\ UNCHANGED debugVars
DebugEnded == (pc \in {"stopped", "aborted", "crashed"} \/ prompt = "quit") /\ UNCHANGED allVars

User ==
  \/ Cont \/ StepCommand \/ Quit \/ UseOfNull
  \/ \E id \in ResultIds : Brk(id)
  \/ \E ns \in {DOMAIN Breakpoints} \cup {{n} : n \in DOMAIN Breakpoints} : Delete(ns)
  \/ \E id \in Invocation : SwtchCommand(id)

DebugNext == RunOn \/ NextStep \/ SessionCall \/ Interact \/ ReportError \/ User \/ DebugEnded

DebugSpec == DebugInit /\ [][DebugNext]_allVars

(* The executor's thread runs on, and the user does not stay at the prompt   *)
(* for ever.                                                                 *)
FairDebugSpec ==
  DebugSpec /\ WF_allVars(RunOn \/ NextStep \/ Interact) /\ WF_allVars(Cont)
-------------------------------------------------------------------------------
(* "Breakpoint hit": while the user continues, no step is begun with an      *)
(* invocation at an instruction that has a breakpoint, although interact     *)
(* looks at the current invocation only; the lanes are in lock step.         *)
BreakpointsHit ==
  [][prompt = "none" /\ prompt' = "closed" => \A i \in Invocation : ~Broken(i)]_allVars

(* Switching is inspection (the comment in wasm.cpp): whatever invocation    *)
(* the user has switched to between two steps, the lanes stay in lock step,  *)
(* the dispatch is run to completion, and comes to its stop.  At the prompt  *)
(* of an error this is not so: the microtask that is interrupted takes the   *)
(* PC of its core from the invocation switched to.                           *)
DebugLockStep  == DebugTypeOK /\ (~meddled => LockStep)
DebugCompletes == ~meddled => Completes
DebugTerminates == <>(pc = "stopped" \/ prompt = "quit" \/ meddled)
===============================================================================
