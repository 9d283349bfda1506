------------------------------- MODULE Session -------------------------------
(***************************************************************************)
(* A command file and the session that runs or debugs it                   *)
(* (tools/talvos-cmd/CommandFile.cpp, wasm.cpp).  CommandFile::run reads   *)
(* one command after the other and executes it; under a debugger it        *)
(* returns when it has started a dispatch, and the step that finishes the  *)
(* dispatch calls it again for the commands that follow.                   *)
(*                                                                         *)
(* A file is a sequence of tokens, white space and comments left out, with *)
(* or without white space after the last.  A handler is cut into steps at  *)
(* each token it gets, so that a file may end or fail between any two.     *)
(* The executor is reduced to what a session sees of it: whether it has a  *)
(* command, the ticks that are left of it, and whether groups of the last  *)
(* dispatch are still suspended; ComputeExecutor has the rest.             *)
(***************************************************************************)
EXTENDS Integers, Sequences, FiniteSets

CONSTANTS
  Files,      \* records: text, a sequence of tokens; newline, whether white space
              \* follows the last; EntryName, the Params of the host ("" if none)
  Modes,      \* the modes run is called with: "RUN", "DEBUG", "NO_RESET"
  Ticks,      \* the ticks a dispatch takes
  Cores, Lanes,  \* of the device: 4 cores of 8 lanes
  Null

Numeral == [t \in {"0", "1", "2", "3", "4", "5", "6", "7", "8"} |->
              CASE t = "0" -> 0 [] t = "1" -> 1 [] t = "2" -> 2 [] t = "3" -> 3 [] t = "4" -> 4
                [] t = "5" -> 5 [] t = "6" -> 6 [] t = "7" -> 7 [] t = "8" -> 8]
Width    == [INT16 |-> 2, UINT16 |-> 2, INT32 |-> 4, UINT32 |-> 4, FLOAT |-> 4]
\* The module files that load; their entry points and specialization constants.
Loadable == {"kernel.spv"}
EntryPoints == {"main"}
SpecConstants == [x \in {"1"} |-> 4]
Commands == {"BUFFER", "DESCRIPTOR_SET", "DISPATCH", "EXEC", "DUMP", "ENDLOOP", "ENTRY",
             "LOOP", "MODULE", "SPECIALIZE"}
\* The calls of the host; a start that has started a dispatch is "started".
Calls == {"run", "start", "started", "step", "cont"}

ASSUME FileAssumption ==
  /\ \A f \in Files : f.text \in Seq(STRING) /\ Len(f.text) > 0 /\ f.newline \in BOOLEAN
  /\ Modes \subseteq {"RUN", "DEBUG", "NO_RESET"} /\ Ticks \subseteq Nat \ {0}
  /\ Null \notin Commands \cup Calls
\* "not step-able with a single mask": the assertion of start about the device.
ASSUME DeviceAssumption == Cores \in Nat \ {0} /\ Lanes \in Nat \ {0} /\ Cores * Lanes < 64

VARIABLES
  file, pos, eof, fail,          \* Stream: its text, the next token, eofbit, failbit
  handler, args,                 \* the command being parsed and the tokens it has got
  Loops, Buffers, DescriptorSets, SpecConstMap,
  loads, Module, Entry,          \* modules loaded so far; the one in use, that of Entry
  CurrentCommand, left, suspended, launched,  \* the executor
  pc, mode, call, result,        \* the call of the host in progress; what run returned
  trace                          \* the commands executed, with what they print

streamVars == <<file, pos, eof, fail>>
parseVars  == <<Loops, Buffers, DescriptorSets, SpecConstMap, loads, Module, Entry>>
execVars   == <<CurrentCommand, left, suspended, launched>>
vars == <<streamVars, handler, args, parseVars, execVars, pc, mode, call, result, trace>>

Init ==
  /\ file \in Files /\ pos = 1 /\ eof = FALSE /\ fail = FALSE
  /\ handler = Null /\ args = <<>>
  /\ Loops = <<>> /\ Buffers = <<>> /\ DescriptorSets = <<>> /\ SpecConstMap = <<>>
  /\ loads = 0 /\ Module = Null /\ Entry = Null
  /\ CurrentCommand = Null /\ left = 0 /\ suspended = FALSE /\ launched = FALSE
  /\ pc = "host" /\ mode \in Modes /\ call = Null /\ result = Null /\ trace = <<>>

\* The type invariant.
TypeOK ==
  /\ pos \in 1..(Len(file.text) + 1) /\ eof \in BOOLEAN /\ fail \in BOOLEAN
  /\ handler \in Commands \cup {Null} /\ Len(args) < Len(file.text)
  /\ \A i \in DOMAIN Loops :
       Loops[i].count \in Nat \ {0} /\ Loops[i].start \in 0..(Len(file.text) + 1)
  /\ loads \in Nat /\ Module \in 1..loads \cup {Null} /\ Entry \in 1..loads \cup {Null}
  /\ left \in Nat /\ suspended \in BOOLEAN /\ launched \in BOOLEAN
  /\ pc \in {"host", "parse", "step", "return", "ended", "thrown", "aborted", "crashed"}
  /\ call \in Calls \cup {Null}
  /\ mode \in Modes /\ result \in {TRUE, FALSE, Null}

Put(f, k, v) == [x \in DOMAIN f \cup {k} |-> IF x = k THEN v ELSE f[x]]
Good   == ~eof /\ ~fail
AtEnd  == pos > Len(file.text)
Token  == file.text[pos]
Number(t) == Numeral[t]
Got(n) == Len(args) = n

-------------------------------------------------------------------------------
(* What the handlers do with the tokens they have got.                     *)

\* The elements that an initializer writes: the loops run while i < NumBytes.
Elements == (Number(args[2]) + Width[args[4]] - 1) \div Width[args[4]]
InitArgs == [UNINIT |-> 0, DATA |-> 1, FILL |-> 2, SERIES |-> 3]

\* What the next get of the handler reads: a name, a number, or nothing.
Wants ==
  LET by(types) == IF Len(args) < Len(types) THEN types[Len(args) + 1] ELSE "nothing" IN
  CASE handler = "BUFFER" ->
         IF Len(args) < 3 THEN by(<<"name", "number", "name">>)
         ELSE IF args[3] = "UNINIT" THEN "nothing"
         ELSE IF Got(3) THEN "name"
         ELSE IF Len(args) < 4 + (CASE args[3] = "DATA" -> Elements [] args[3] = "FILL" -> 1
                                    [] args[3] = "SERIES" -> 2)
              THEN "number" ELSE "nothing"
    [] handler = "DESCRIPTOR_SET" -> by(<<"number", "number", "number", "name">>)
    [] handler = "DISPATCH"       -> by(<<"number", "number", "number">>)
    [] handler = "DUMP"           -> IF args = <<"ALL">> THEN "nothing" ELSE by(<<"name", "name">>)
    [] handler = "SPECIALIZE"     -> by(<<"number", "name", "number">>)
    [] handler \in {"ENTRY", "MODULE"} -> by(<<"name">>)
    [] handler = "LOOP"           -> by(<<"number">>)
    [] OTHER                      -> "nothing"

\* An entry point named by the host is looked up for every dispatch.
NoEntry == IF file.EntryName = "" THEN Entry = Null ELSE file.EntryName \notin EntryPoints
EntryUsed == IF file.EntryName = "" THEN Entry ELSE Module

\* The messages and NotRecognizedException thrown between two gets.
\* Fault: a loop may have a count of zero.
ThrowsButForZero ==
  \/ handler = "BUFFER" /\ Got(1) /\ args[1] \in DOMAIN Buffers
  \/ handler \in {"DISPATCH", "EXEC"} /\ Got(0) /\ (Module = Null \/ NoEntry)
  \/ handler = "DUMP" /\ Got(2) /\ args[2] \notin DOMAIN Buffers
  \/ handler = "ENDLOOP" /\ Loops = <<>>
Throws ==
  \/ handler = "BUFFER" /\ Got(1) /\ args[1] \in DOMAIN Buffers
  \/ handler = "BUFFER" /\ Got(3) /\ args[3] \notin DOMAIN InitArgs
  \/ handler = "BUFFER" /\ Got(4) /\ args[4] \notin DOMAIN Width
  \/ handler = "DESCRIPTOR_SET" /\ Got(4) /\ args[4] \notin DOMAIN Buffers
  \/ handler \in {"DISPATCH", "EXEC"} /\ Got(0) /\ (Module = Null \/ NoEntry)
  \/ handler = "DUMP" /\ Got(1) /\ args[1] \notin DOMAIN Width \cup {"ALL", "RAW"}
  \/ handler = "DUMP" /\ Got(2) /\ args[2] \notin DOMAIN Buffers
  \/ handler = "ENDLOOP" /\ Loops = <<>>
  \/ handler = "ENTRY" /\ Got(1) /\ Module # Null /\ args[1] \notin EntryPoints
  \/ handler = "LOOP" /\ Got(1) /\ Number(args[1]) = 0
  \/ handler = "MODULE" /\ Got(1) /\ args[1] \notin Loadable
  \/ handler = "SPECIALIZE" /\ Got(2) /\ Module # Null
     /\ ~(/\ args[1] \in DOMAIN SpecConstants /\ args[2] \in DOMAIN Width
          /\ SpecConstants[args[1]] = Width[args[2]])

\* parseEntry and specialize use the module without asking whether there is one,
\* and the entry point of a module that has been replaced is used all the same.
Dangles ==
  \/ handler = "ENTRY" /\ Got(1) /\ Module = Null
  \/ handler = "SPECIALIZE" /\ Got(2) /\ Module = Null /\ args[2] \in DOMAIN Width
  \/ handler \in {"DISPATCH", "EXEC"} /\ Got(0) /\ EntryUsed # Module

\* The return of run to its caller: Session::start goes on to step, the other
\* calls return to the host.
Return(r) ==
  /\ result' = r /\ handler' = Null /\ args' = <<>>
  /\ pc' = IF call = "start" THEN "step" ELSE "return"
  /\ call' = IF call = "start" THEN "started" ELSE call

-------------------------------------------------------------------------------
(* CommandFile::run.                                                       *)

\* operator>> reads the next token, and meets the end of the stream if nothing
\* follows it.
Extract == pos' = pos + 1 /\ eof' = (pos = Len(file.text) /\ ~file.newline) /\ UNCHANGED <<file, fail>>

ReadCommand ==
  /\ pc = "parse" /\ handler = Null /\ Good /\ ~AtEnd
  /\ Extract
  /\ IF Token \in Commands
     THEN handler' = Token /\ UNCHANGED <<args, pc, call, result>>
     ELSE Return(FALSE)
  /\ UNCHANGED <<parseVars, execVars, mode, trace>>

\* while (Stream.good()) ends the run without looking at Loops, ...
NoMore ==
  /\ pc = "parse" /\ handler = Null /\ ~Good
  /\ Return(TRUE)
  /\ UNCHANGED <<streamVars, parseVars, execVars, mode, trace>>

\* ... which the handler of the exception at the end of the file does.
\* Fault: it does not.
EndOfFileAnyway ==
  /\ pc = "parse" /\ handler = Null /\ Good /\ AtEnd
  /\ eof' = TRUE /\ fail' = TRUE
  /\ Return(TRUE)
  /\ UNCHANGED <<file, pos, parseVars, execVars, mode, trace>>
EndOfFile ==
  /\ pc = "parse" /\ handler = Null /\ Good /\ AtEnd
  /\ eof' = TRUE /\ fail' = TRUE
  /\ Return(Loops = <<>>)
  /\ UNCHANGED <<file, pos, parseVars, execVars, mode, trace>>

Parsing == pc = "parse" /\ handler # Null /\ ~Throws /\ ~Dangles

\* get: a token that is missing or of another type sets failbit.
Get ==
  /\ Parsing /\ Wants # "nothing"
  /\ ~(handler = "BUFFER" /\ Got(2) /\ args[1] \notin DOMAIN Buffers)
  /\ IF AtEnd \/ (Wants = "number" /\ Token \notin DOMAIN Numeral)
     THEN /\ fail' = TRUE /\ eof' = AtEnd /\ UNCHANGED <<file, pos>>
          /\ Return(FALSE)
     ELSE /\ Extract /\ args' = Append(args, Token)
          /\ UNCHANGED <<handler, pc, call, result>>
  /\ UNCHANGED <<parseVars, execVars, mode, trace>>

\* A module that does not load and an entry that is not found are stored as null.
Throw ==
  /\ pc = "parse" /\ handler # Null /\ Throws
  /\ Return(FALSE)
  /\ Module' = IF handler = "MODULE" THEN Null ELSE Module
  /\ Entry' = IF handler = "ENTRY" THEN Null ELSE Entry
  /\ UNCHANGED <<streamVars, Loops, Buffers, DescriptorSets, SpecConstMap, loads, execVars, mode, trace>>

Crash ==
  /\ pc = "parse" /\ handler # Null /\ ~Throws /\ Dangles
  /\ pc' = "crashed"
  /\ UNCHANGED <<streamVars, handler, args, parseVars, execVars, mode, call, result, trace>>

\* The end of a handler.
Done(event) == handler' = Null /\ args' = <<>> /\ trace' = Append(trace, event)
Ready(h) == Parsing /\ handler = h /\ Wants = "nothing"
NoChange == UNCHANGED <<pc, call, result, mode>>

\* parseBuffer allocates the buffer before it reads the initializer, ...
ParseBuffer ==
  /\ Parsing /\ handler = "BUFFER" /\ Got(2) /\ args[1] \notin DOMAIN Buffers
  /\ Buffers' = Put(Buffers, args[1], [i \in 1..Number(args[2]) |-> Null])
  /\ UNCHANGED <<streamVars, handler, args, Loops, DescriptorSets, SpecConstMap, loads, Module, Entry,
                 execVars, trace>> /\ NoChange

\* ... whose elements data, fill and series store; a store that would go past the
\* end is refused as a whole.
Initial(k) == CASE args[3] = "DATA"   -> Number(args[5 + k])
                [] args[3] = "FILL"   -> Number(args[5])
                [] args[3] = "SERIES" -> Number(args[5]) + k * Number(args[6])
InitializeBuffer ==
  /\ Ready("BUFFER")
  /\ LET size == Number(args[2])
         w    == IF args[3] = "UNINIT" THEN 1 ELSE Width[args[4]]
         stored(k) == args[3] # "UNINIT" /\ k < Elements /\ k * w + w <= size
     IN Buffers' = [Buffers EXCEPT ![args[1]] =
          [i \in 1..size |-> IF stored((i - 1) \div w) THEN Initial((i - 1) \div w) ELSE Null]]
  /\ Done(<<handler, args>>)
  /\ UNCHANGED <<streamVars, Loops, DescriptorSets, SpecConstMap, loads, Module, Entry, execVars>> /\ NoChange

ParseDescriptorSet ==
  /\ Ready("DESCRIPTOR_SET")
  /\ DescriptorSets' = Put(DescriptorSets, SubSeq(args, 1, 3), args[4])
  /\ Done(<<handler, args>>)
  /\ UNCHANGED <<streamVars, Loops, Buffers, SpecConstMap, loads, Module, Entry, execVars>> /\ NoChange

\* dump prints the elements that are in the buffer as a whole.
Dumped ==
  IF args[1] \notin DOMAIN Width THEN <<>>
  ELSE [k \in 1..(Len(Buffers[args[2]]) \div Width[args[1]]) |->
          Buffers[args[2]][(k - 1) * Width[args[1]] + 1]]
ParseDump ==
  /\ Ready("DUMP")
  /\ Done(<<handler, args, Dumped>>)
  /\ UNCHANGED <<streamVars, parseVars, execVars>> /\ NoChange

\* --Loops.back().first.  Fault: the loop is ended at one instead of zero.
AgainTwice == Loops[Len(Loops)].count > 2
Again == Loops[Len(Loops)].count > 1
\* seekg forgets the end of the stream.
ParseEndLoop ==
  /\ Ready("ENDLOOP")
  /\ LET n == Len(Loops) IN
       IF Again
       THEN /\ Loops' = [Loops EXCEPT ![n].count = @ - 1]
            /\ pos' = Loops[n].start /\ eof' = FALSE
       ELSE /\ Loops' = SubSeq(Loops, 1, n - 1)
            /\ UNCHANGED <<pos, eof>>
  /\ handler' = Null /\ args' = <<>>
  /\ UNCHANGED <<file, fail, Buffers, DescriptorSets, SpecConstMap, loads, Module, Entry, execVars, trace>>
  /\ NoChange

\* tellg fails once the end of the stream has been met.
ParseLoop ==
  /\ Ready("LOOP")
  /\ Loops' = Append(Loops, [count |-> Number(args[1]), start |-> IF eof THEN 0 ELSE pos])
  /\ fail' = eof
  /\ handler' = Null /\ args' = <<>>
  /\ UNCHANGED <<file, pos, eof, Buffers, DescriptorSets, SpecConstMap, loads, Module, Entry, execVars, trace>>
  /\ NoChange

ParseEntry ==
  /\ Ready("ENTRY")
  /\ Entry' = Module
  /\ Done(<<handler, args>>)
  /\ UNCHANGED <<streamVars, Loops, Buffers, DescriptorSets, SpecConstMap, loads, Module, execVars>> /\ NoChange

ParseModule ==
  /\ Ready("MODULE")
  /\ loads' = loads + 1 /\ Module' = loads'
  /\ Done(<<handler, args>>)
  /\ UNCHANGED <<streamVars, Loops, Buffers, DescriptorSets, SpecConstMap, Entry, execVars>> /\ NoChange

ParseSpecialize ==
  /\ Ready("SPECIALIZE")
  /\ SpecConstMap' = Put(SpecConstMap, args[1], args[3])
  /\ Done(<<handler, args>>)
  /\ UNCHANGED <<streamVars, Loops, Buffers, DescriptorSets, loads, Module, Entry, execVars>> /\ NoChange

-------------------------------------------------------------------------------
(* parseDispatch, parseExec and the executor.                              *)

GroupsOf(h, as) == IF h = "EXEC" THEN 1 ELSE Number(as[1]) * Number(as[2]) * Number(as[3])
Groups == GroupsOf(handler, args)
LookUp == Entry' = EntryUsed /\ UNCHANGED <<Loops, Buffers, DescriptorSets, SpecConstMap, loads, Module>>
\* The dispatch takes the descriptors and constants as they are now.
Event == <<handler, args, DescriptorSets, SpecConstMap>>
\* "tiny scheduler ran out of numbers" is asserted after the place of the group
\* that would come next has been computed, so the last lane stays free.
Fits(h, as) == GroupsOf(h, as) < Cores * Lanes
\* The assertions of PipelineExecutor::start.
CanStart == CurrentCommand = Null /\ ~suspended /\ Fits(handler, args)
NotSupported == handler = "DISPATCH" /\ mode = "NO_RESET"

\* runtime_error is not caught by run.
UncaughtMode ==
  /\ (Ready("DISPATCH") \/ Ready("EXEC")) /\ NotSupported
  /\ pc' = "thrown"
  /\ UNCHANGED <<streamVars, handler, args, parseVars, execVars, mode, call, result, trace>>

StartFails ==
  /\ (Ready("DISPATCH") \/ Ready("EXEC")) /\ ~NotSupported /\ ~CanStart
  /\ pc' = "aborted"
  /\ UNCHANGED <<streamVars, handler, args, parseVars, execVars, mode, call, result, trace>>

\* Fault: stop does not forget the command.
RunDispatchUnstopped ==
  /\ (Ready("DISPATCH") \/ Ready("EXEC")) /\ mode # "DEBUG" /\ ~NotSupported /\ CanStart
  /\ suspended' = (Groups > 1) /\ launched' = TRUE /\ CurrentCommand' = Groups
  /\ Done(Event) /\ LookUp
  /\ UNCHANGED <<streamVars, left, pc, call, result, mode>>
\* RUN: from start to stop; the groups but the last stay in RunningGroups.
RunDispatch ==
  /\ (Ready("DISPATCH") \/ Ready("EXEC")) /\ mode # "DEBUG" /\ ~NotSupported /\ CanStart
  /\ suspended' = (Groups > 1) /\ launched' = TRUE
  /\ Done(Event)
  /\ LookUp
  /\ UNCHANGED <<streamVars, CurrentCommand, left, pc, call, result, mode>>

\* DEBUG: start the dispatch and return false.
StartDispatch ==
  /\ (Ready("DISPATCH") \/ Ready("EXEC")) /\ mode = "DEBUG" /\ CanStart
  /\ CurrentCommand' = Groups /\ left' \in Ticks /\ launched' = TRUE
  /\ trace' = Append(trace, Event)
  /\ Return(FALSE) /\ LookUp
  /\ UNCHANGED <<streamVars, suspended, mode>>

\* PipelineExecutor::step runs one or more ticks; when nothing is left it is
\* FINISHED, and Session::step runs the commands that follow.
\* Faults: the commands are not run after the last step; they are run after each.
StepAndReturn ==
  /\ pc = "step"
  /\ left' \in {n \in 0..left : n < left \/ left = 0}
  /\ pc' = IF left' > 0 /\ call = "cont" THEN "step" ELSE "return"
  /\ UNCHANGED <<streamVars, handler, args, parseVars, CurrentCommand, suspended, launched, mode,
                 call, result, trace>>
StepAndGoOn ==
  /\ pc = "step"
  /\ left' \in {n \in 0..left : n < left \/ left = 0}
  /\ pc' = "parse"
  /\ UNCHANGED <<streamVars, handler, args, parseVars, CurrentCommand, suspended, launched, mode,
                 call, result, trace>>
Step ==
  /\ pc = "step"
  /\ left' \in {n \in 0..left : n < left \/ left = 0}
  /\ pc' = IF left' = 0 THEN "parse" ELSE IF call = "cont" THEN "step" ELSE "return"
  /\ UNCHANGED <<streamVars, handler, args, parseVars, CurrentCommand, suspended, launched, mode,
                 call, result, trace>>

\* makeU asserts that there are lanes to tell of.
ReturnToHost ==
  /\ pc = "return"
  /\ pc' = IF call \in {"started", "step", "cont"} /\ ~launched THEN "aborted"
           ELSE IF call = "run" THEN "ended" ELSE "host"
  /\ UNCHANGED <<streamVars, handler, args, parseVars, execVars, mode, call, result, trace>>

-------------------------------------------------------------------------------
(* The host: main and Session_run call run once; a debugger calls start    *)
(* once, and then steps, ticks and continues.                              *)

Run ==
  /\ pc = "host" /\ mode # "DEBUG"
  /\ call' = "run" /\ pc' = "parse"
  /\ UNCHANGED <<streamVars, handler, args, parseVars, execVars, mode, result, trace>>

Start ==
  /\ pc = "host" /\ mode = "DEBUG" /\ call = Null
  /\ call' = "start" /\ pc' = "parse"
  /\ UNCHANGED <<streamVars, handler, args, parseVars, execVars, mode, result, trace>>

StepOrContinue ==
  /\ pc = "host" /\ mode = "DEBUG" /\ call # Null
  /\ call' \in {"step", "cont"} /\ pc' = "step"
  /\ UNCHANGED <<streamVars, handler, args, parseVars, execVars, mode, result, trace>>

\* Session::tick: the last tick of a dispatch does not run the commands that follow.
Tick ==
  /\ pc = "host" /\ mode = "DEBUG" /\ call # Null
  /\ left' = IF left = 0 THEN 0 ELSE left - 1
  /\ UNCHANGED <<streamVars, handler, args, parseVars, CurrentCommand, suspended, launched,
                 pc, mode, call, result, trace>>

Ended == pc \in {"ended", "thrown", "aborted", "crashed"} /\ UNCHANGED vars

Next ==
  \/ Run \/ Start \/ StepOrContinue \/ Tick \/ Step \/ ReturnToHost
  \/ ReadCommand \/ NoMore \/ EndOfFile \/ Get \/ Throw \/ Crash
  \/ ParseBuffer \/ InitializeBuffer \/ ParseDescriptorSet \/ ParseDump \/ ParseEndLoop
  \/ ParseLoop \/ ParseEntry \/ ParseModule \/ ParseSpecialize
  \/ UncaughtMode \/ StartFails \/ RunDispatch \/ StartDispatch \/ Ended

Spec == Init /\ [][Next]_vars

-------------------------------------------------------------------------------
(* Under a debugger no command is executed while the dispatch it started has *)
(* ticks left: what is dumped after a dispatch is what the dispatch wrote.   *)
DebuggerWaits == [][trace' # trace => left = 0]_vars

(* The assertions of start fail only on a dispatch of as many groups as the  *)
(* device has lanes, or more, or on one after another dispatch: in a         *)
(* debugger on any, because its executor is never stopped, otherwise on one  *)
(* after a dispatch of several groups, which are left suspended; and makeU   *)
(* fails only when there was no dispatch at all.                             *)
Dispatched(several) ==
  \E i \in DOMAIN trace : /\ trace[i][1] \in {"DISPATCH", "EXEC"}
                          /\ several => GroupsOf(trace[i][1], trace[i][2]) > 1
AbortsExplained ==
  TypeOK /\ (pc = "aborted" =>
    IF handler \in {"DISPATCH", "EXEC"}
    THEN Dispatched(mode # "DEBUG") \/ ~Fits(handler, args)
    ELSE ~Dispatched(FALSE))
===============================================================================
