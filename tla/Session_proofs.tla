---------------------------- MODULE Session_proofs ----------------------------
(****************************************************************************)
(* Proofs about Session, for any command files, any modes and any calls of  *)
(* the host.                                                                *)
(****************************************************************************)
EXTENDS Session, SequenceTheorems, TLAPS

(* The parser: while a command is parsed the stream has not failed, and the  *)
(* command and its tokens are behind the position; ...                       *)
ParseInv ==
  /\ file \in Files /\ args \in Seq(STRING)
  /\ handler # Null => /\ pc \in {"parse", "thrown", "aborted", "crashed"} /\ fail = FALSE
                       /\ Len(args) + 2 <= pos
  /\ handler = Null => args = <<>>
  /\ handler = "LOOP" => Len(args) <= 1 /\ \A i \in DOMAIN args : args[i] \in DOMAIN Numeral
(* ... a loop that tellg could not place leaves a stream that has failed; ... *)
LoopsInv ==
  /\ Loops \in Seq([count : Nat \ {0}, start : 0..(Len(file.text) + 1)])
  /\ \A i \in DOMAIN Loops : Loops[i].start = 0 => fail = TRUE
(* ... a dispatch has ticks left only in a debugger, and not in a parse; ...  *)
CallInv ==
  /\ IF mode = "DEBUG" THEN call \in (Calls \cup {Null}) \ {"run"}
                       ELSE call \in {Null, "run"} /\ pc # "step"
  /\ call = Null => pc = "host"
  /\ call = "start" => pc \in {"parse", "aborted", "crashed"}
  /\ left # 0 => call \in {"started", "step", "cont"} /\ pc # "parse"
(* ... and what the executor keeps is of a dispatch that has been executed.  *)
HistoryInv ==
  /\ \E S : trace \in Seq(S)
  /\ launched = TRUE <=> Dispatched(FALSE)
  /\ suspended = TRUE => Dispatched(TRUE)
  /\ CurrentCommand # Null => mode = "DEBUG" /\ Dispatched(FALSE)
AbortInv ==
  pc = "aborted" =>
    IF handler \in {"DISPATCH", "EXEC"}
    THEN Dispatched(mode # "DEBUG") \/ ~Fits(handler, args)
    ELSE ~Dispatched(FALSE)
SessionInv == TypeOK /\ ParseInv /\ LoopsInv /\ CallInv /\ HistoryInv /\ AbortInv

(* Whether an event is a dispatch (of several groups), and whether there is   *)
(* one in a sequence of events.                                               *)
IsDispatch(e, several) ==
  e[1] \in {"DISPATCH", "EXEC"} /\ (several => GroupsOf(e[1], e[2]) > 1)
DispatchedIn(t, several) == \E i \in DOMAIN t : IsDispatch(t[i], several)

(* Dispatched, of the sequence of events as a value.                          *)
LEMMA DispatchedIsIn ==
  \A several \in BOOLEAN : Dispatched(several) <=> DispatchedIn(trace, several)
BY DEF Dispatched, DispatchedIn, IsDispatch

(* A sequence of events with one more: it is a sequence, and it has a         *)
(* dispatch if it had one or the event is one.                                *)
LEMMA OneMoreEvent ==
  ASSUME NEW S, NEW t \in Seq(S), NEW e
  PROVE  /\ \E T : Append(t, e) \in Seq(T)
         /\ \A several : DispatchedIn(Append(t, e), several)
                           <=> DispatchedIn(t, several) \/ IsDispatch(e, several)
<1>. DEFINE T == S \cup {e}  u == Append(t, e)
<1>1. t \in Seq(T)
  BY SeqMonotonic
<1>2. /\ u \in Seq(T) /\ Len(u) = Len(t) + 1
      /\ \A i \in 1..Len(t) : u[i] = t[i]
      /\ u[Len(t) + 1] = e
  BY <1>1, AppendProperties
<1>3. DOMAIN t = 1..Len(t) /\ Len(t) \in Nat /\ DOMAIN u = 1..Len(u)
  BY <1>1, <1>2, LenProperties
<1>. HIDE DEF T, u
<1>4. DOMAIN u = DOMAIN t \cup {Len(t) + 1}
  BY <1>2, <1>3
<1>5. ASSUME NEW several
      PROVE  DispatchedIn(u, several) <=> DispatchedIn(t, several) \/ IsDispatch(e, several)
  BY <1>2, <1>3, <1>4 DEF DispatchedIn
<1>. QED
  BY <1>2, <1>5 DEF u

(* The sequence of events, and whether it has a dispatch, for the steps that *)
(* record one: that of a command which is not a dispatch makes no difference.*)
LEMMA OtherEvent ==
  ASSUME HistoryInv, NEW e, e[1] \notin {"DISPATCH", "EXEC"}, trace' = Append(trace, e)
  PROVE  /\ \E S : trace' \in Seq(S)
         /\ \A several \in BOOLEAN :
              DispatchedIn(trace', several) <=> DispatchedIn(trace, several)
<1>1. PICK S : trace \in Seq(S)
  BY DEF HistoryInv
<1>2. \A several : ~IsDispatch(e, several)
  BY DEF IsDispatch
<1>. QED
  BY <1>1, <1>2, OneMoreEvent

(* That of a dispatch makes there be one.                                    *)
LEMMA DispatchEvent ==
  ASSUME HistoryInv, NEW e, IsDispatch(e, FALSE), trace' = Append(trace, e)
  PROVE  /\ \E S : trace' \in Seq(S)
         /\ DispatchedIn(trace', FALSE)
         /\ GroupsOf(e[1], e[2]) > 1 => DispatchedIn(trace', TRUE)
<1>1. PICK S : trace \in Seq(S)
  BY DEF HistoryInv
<1>2. IsDispatch(e, FALSE) /\ (GroupsOf(e[1], e[2]) > 1 => IsDispatch(e, TRUE))
  BY DEF IsDispatch
<1>. QED
  BY <1>1, <1>2, OneMoreEvent

(* Null is none of the commands and calls that the proofs tell it from.      *)
LEMMA NullIsNoName ==
  /\ Null \notin Commands /\ Null # "LOOP" /\ Null \notin {"DISPATCH", "EXEC"}
  /\ Null \notin {"run", "start", "started", "step", "cont"}
BY FileAssumption DEF Commands, Calls

(* What the handler of LOOP gets.                                            *)
LEMMA LoopWants ==
  ASSUME handler = "LOOP"
  PROVE  Wants = IF Len(args) < 1 THEN <<"number">>[Len(args) + 1] ELSE "nothing"
BY DEF Wants

(* The actions of the session are those of the host and of the debugger, ... *)
HostStep == Run \/ Start \/ StepOrContinue \/ Tick \/ Step \/ ReturnToHost \/ Ended
(* ... those that read the file, those that end a handler without an event,  *)
(* with the event of another command, and with a dispatch or its failure.    *)
ReadStep == ReadCommand \/ NoMore \/ EndOfFile \/ Get \/ Throw \/ Crash \/ ParseBuffer
LoopStep == ParseEndLoop \/ ParseLoop
OtherStep == InitializeBuffer \/ ParseDescriptorSet \/ ParseDump \/ ParseEntry \/ ParseModule
             \/ ParseSpecialize
DispatchStep == UncaughtMode \/ StartFails \/ RunDispatch \/ StartDispatch

(* Every step is one of these.                                               *)
LEMMA NextSteps == Next => HostStep \/ ReadStep \/ LoopStep \/ OtherStep \/ DispatchStep
BY DEF Next, HostStep, ReadStep, LoopStep, OtherStep, DispatchStep

(* What a step of the host or the debugger leaves alone.                     *)
LEMMA HostFrame ==
  ASSUME HostStep
  PROVE  UNCHANGED <<streamVars, handler, args, parseVars, CurrentCommand, suspended, launched,
                     mode, result, trace>>
<1>1. CASE Run \/ Start \/ StepOrContinue \/ ReturnToHost
  BY <1>1 DEF Run, Start, StepOrContinue, ReturnToHost, execVars
<1>2. CASE Tick \/ Step
  BY <1>2 DEF Tick, Step
<1>3. CASE Ended
  BY <1>3 DEF Ended, vars, execVars
<1>. QED
  BY <1>1, <1>2, <1>3 DEF HostStep

(* What a step that reads the file leaves alone.                             *)
LEMMA ReadFrame ==
  ASSUME ReadStep
  PROVE  /\ UNCHANGED <<file, Loops, DescriptorSets, SpecConstMap, loads, execVars, mode, trace>>
         /\ pc = "parse"
<1>1. CASE ReadCommand \/ NoMore \/ EndOfFile
  BY <1>1 DEF ReadCommand, NoMore, EndOfFile, Extract, streamVars, parseVars
<1>2. CASE Get \/ Throw \/ Crash
  BY <1>2 DEF Get, Parsing, Throw, Crash, Extract, streamVars, parseVars
<1>3. CASE ParseBuffer
  BY <1>3 DEF ParseBuffer, Parsing, streamVars, NoChange
<1>. QED
  BY <1>1, <1>2, <1>3 DEF ReadStep

(* What the end of a loop leaves alone.                                      *)
LEMMA LoopFrame ==
  ASSUME LoopStep
  PROVE  /\ UNCHANGED <<file, Buffers, DescriptorSets, SpecConstMap, loads, Module, Entry, execVars,
                        trace, pc, call, result, mode>>
         /\ handler' = Null /\ args' = <<>> /\ pc = "parse" /\ handler # Null
         /\ ~Throws
BY DEF LoopStep, ParseEndLoop, ParseLoop, Ready, Parsing, NoChange

(* What the other commands leave alone, and that they record an event.       *)
LEMMA OtherFrame ==
  ASSUME OtherStep
  PROVE  /\ UNCHANGED <<streamVars, Loops, execVars, pc, call, result, mode>>
         /\ handler' = Null /\ args' = <<>> /\ pc = "parse" /\ handler # Null
         /\ \E e : trace' = Append(trace, e) /\ e[1] \notin {"DISPATCH", "EXEC"}
<1>1. CASE InitializeBuffer
  <2>1. trace' = Append(trace, <<handler, args>>) /\ <<handler, args>>[1] = "BUFFER"
    BY <1>1 DEF InitializeBuffer, Ready, Done
  <2>2. \E e : trace' = Append(trace, e) /\ e[1] \notin {"DISPATCH", "EXEC"}
    BY <2>1
  <2>3. /\ UNCHANGED <<streamVars, Loops, execVars, pc, call, result, mode>>
        /\ handler' = Null /\ args' = <<>> /\ pc = "parse" /\ handler # Null
    BY <1>1 DEF InitializeBuffer, Ready, Parsing, Done, NoChange
  <2>. QED
    BY <2>2, <2>3
<1>2. CASE ParseDescriptorSet
  <2>1. trace' = Append(trace, <<handler, args>>) /\ <<handler, args>>[1] = "DESCRIPTOR_SET"
    BY <1>2 DEF ParseDescriptorSet, Ready, Done
  <2>2. \E e : trace' = Append(trace, e) /\ e[1] \notin {"DISPATCH", "EXEC"}
    BY <2>1
  <2>3. /\ UNCHANGED <<streamVars, Loops, execVars, pc, call, result, mode>>
        /\ handler' = Null /\ args' = <<>> /\ pc = "parse" /\ handler # Null
    BY <1>2 DEF ParseDescriptorSet, Ready, Parsing, Done, NoChange
  <2>. QED
    BY <2>2, <2>3
<1>3. CASE ParseDump
  <2>1. trace' = Append(trace, <<handler, args, Dumped>>) /\ <<handler, args, Dumped>>[1] = "DUMP"
    BY <1>3 DEF ParseDump, Ready, Done
  <2>2. \E e : trace' = Append(trace, e) /\ e[1] \notin {"DISPATCH", "EXEC"}
    BY <2>1
  <2>3. /\ UNCHANGED <<streamVars, Loops, execVars, pc, call, result, mode>>
        /\ handler' = Null /\ args' = <<>> /\ pc = "parse" /\ handler # Null
    BY <1>3 DEF ParseDump, Ready, Parsing, Done, NoChange, parseVars
  <2>. QED
    BY <2>2, <2>3
<1>4. CASE ParseEntry
  <2>1. trace' = Append(trace, <<handler, args>>) /\ <<handler, args>>[1] = "ENTRY"
    BY <1>4 DEF ParseEntry, Ready, Done
  <2>2. \E e : trace' = Append(trace, e) /\ e[1] \notin {"DISPATCH", "EXEC"}
    BY <2>1
  <2>3. /\ UNCHANGED <<streamVars, Loops, execVars, pc, call, result, mode>>
        /\ handler' = Null /\ args' = <<>> /\ pc = "parse" /\ handler # Null
    BY <1>4 DEF ParseEntry, Ready, Parsing, Done, NoChange
  <2>. QED
    BY <2>2, <2>3
<1>5. CASE ParseModule
  <2>1. trace' = Append(trace, <<handler, args>>) /\ <<handler, args>>[1] = "MODULE"
    BY <1>5 DEF ParseModule, Ready, Done
  <2>2. \E e : trace' = Append(trace, e) /\ e[1] \notin {"DISPATCH", "EXEC"}
    BY <2>1
  <2>3. /\ UNCHANGED <<streamVars, Loops, execVars, pc, call, result, mode>>
        /\ handler' = Null /\ args' = <<>> /\ pc = "parse" /\ handler # Null
    BY <1>5 DEF ParseModule, Ready, Parsing, Done, NoChange
  <2>. QED
    BY <2>2, <2>3
<1>6. CASE ParseSpecialize
  <2>1. trace' = Append(trace, <<handler, args>>) /\ <<handler, args>>[1] = "SPECIALIZE"
    BY <1>6 DEF ParseSpecialize, Ready, Done
  <2>2. \E e : trace' = Append(trace, e) /\ e[1] \notin {"DISPATCH", "EXEC"}
    BY <2>1
  <2>3. /\ UNCHANGED <<streamVars, Loops, execVars, pc, call, result, mode>>
        /\ handler' = Null /\ args' = <<>> /\ pc = "parse" /\ handler # Null
    BY <1>6 DEF ParseSpecialize, Ready, Parsing, Done, NoChange
  <2>. QED
    BY <2>2, <2>3
<1>. QED
  BY <1>1, <1>2, <1>3, <1>4, <1>5, <1>6 DEF OtherStep

(* The return of run.                                                        *)
LEMMA Returns ==
  ASSUME NEW r, Return(r)
  PROVE  /\ handler' = Null /\ args' = <<>> /\ result' = r
         /\ call = "start" => pc' = "step" /\ call' = "started"
         /\ call # "start" => pc' = "return" /\ call' = call
BY DEF Return

(* What the calls and the ticks of a debugger leave true.                    *)
LEMMA CallStep == ASSUME CallInv, TypeOK, Next PROVE CallInv'
<1>. USE NullIsNoName DEF Calls
<1>1. CASE HostStep
  <2>. mode' = mode
    BY <1>1, HostFrame
  <2>1. CASE Run \/ Start \/ StepOrContinue
    BY <2>1 DEF CallInv, Run, Start, StepOrContinue, execVars
  <2>2. CASE Tick
    BY <2>2 DEF CallInv, Tick
  <2>3. CASE Step
    BY <2>3 DEF CallInv, Step, TypeOK
  <2>4. CASE ReturnToHost
    BY <2>4 DEF CallInv, ReturnToHost, execVars
  <2>5. CASE Ended
    BY <2>5 DEF CallInv, Ended, vars, execVars
  <2>. QED
    BY <1>1, <2>1, <2>2, <2>3, <2>4, <2>5 DEF HostStep
<1>2. CASE ReadStep
  <2>1. mode' = mode /\ left' = left /\ pc = "parse"
    BY <1>2, ReadFrame DEF execVars
  <2>2. CASE UNCHANGED <<pc, call>>
    BY <2>1, <2>2 DEF CallInv
  <2>3. ASSUME NEW r, Return(r) PROVE CallInv'
    BY <2>1, <2>3, Returns DEF CallInv
  <2>4. CASE Crash
    BY <2>1, <2>4 DEF CallInv, Crash
  <2>5. \/ UNCHANGED <<pc, call>>
        \/ Return(FALSE) \/ Return(TRUE) \/ Return(Loops = <<>>)
        \/ Crash
    BY <1>2 DEF ReadStep, ReadCommand, NoMore, EndOfFile, Get, Throw, ParseBuffer, NoChange
  <2>. QED
    BY <2>2, <2>3, <2>4, <2>5
<1>3. CASE LoopStep
  <2>. UNCHANGED <<pc, call, mode, left>>
    BY <1>3, LoopFrame DEF execVars
  <2>. QED
    BY DEF CallInv
<1>4. CASE OtherStep
  <2>. UNCHANGED <<pc, call, mode, left>>
    BY <1>4, OtherFrame DEF execVars
  <2>. QED
    BY DEF CallInv
<1>5. CASE DispatchStep
  <2>1. CASE UncaughtMode \/ StartFails
    BY <2>1 DEF CallInv, UncaughtMode, StartFails, Ready, Parsing, NotSupported, execVars
  <2>2. CASE RunDispatch
    BY <2>2 DEF CallInv, RunDispatch
  <2>3. CASE StartDispatch
    <3>1. mode = "DEBUG" /\ mode' = mode /\ pc = "parse" /\ Return(FALSE)
      BY <2>3 DEF StartDispatch, Ready, Parsing
    <3>. QED
      BY <3>1, Returns DEF CallInv
  <2>. QED
    BY <1>5, <2>1, <2>2, <2>3 DEF DispatchStep
<1>. QED
  BY <1>1, <1>2, <1>3, <1>4, <1>5, NextSteps

(* The parser's part of the types: what a step that extracts a token, and    *)
(* one that leaves the parser alone, keep.                                   *)
ParseTypes ==
  /\ pos \in 1..(Len(file.text) + 1) /\ eof \in BOOLEAN /\ fail \in BOOLEAN
  /\ handler \in Commands \cup {Null} /\ Len(args) < Len(file.text)

(* The text of the file and the tokens of the handler are sequences.         *)
LEMMA Text ==
  ASSUME ParseInv
  PROVE  file.text \in Seq(STRING) /\ Len(file.text) \in Nat /\ Len(file.text) > 0
         /\ file.newline \in BOOLEAN /\ Len(args) \in Nat /\ DOMAIN args = 1..Len(args)
<1>1. file.text \in Seq(STRING) /\ Len(file.text) > 0 /\ file.newline \in BOOLEAN
  BY FileAssumption DEF ParseInv
<1>2. Len(file.text) \in Nat /\ Len(args) \in Nat /\ DOMAIN args = 1..Len(args)
  BY <1>1, LenProperties DEF ParseInv
<1>. QED
  BY <1>1, <1>2

(* The parser at rest: no command, no tokens.                                *)
LEMMA AtRest ==
  ASSUME ParseInv, file' = file, handler' = Null, args' = <<>>,
         pos' \in 1..(Len(file.text) + 1), eof' \in BOOLEAN, fail' \in BOOLEAN
  PROVE  ParseTypes' /\ ParseInv'
<1>1. Len(<<>>) = 0 /\ <<>> \in Seq(STRING)
  BY EmptySeq
<1>. QED
  BY <1>1, Text, NullIsNoName DEF ParseTypes, ParseInv

(* Steps that leave the parser alone but for the program counter.            *)
LEMMA ParserKept ==
  ASSUME ParseInv, ParseTypes, UNCHANGED <<file, pos, eof, fail, handler, args>>,
         handler # Null => pc' \in {"parse", "thrown", "aborted", "crashed"}
  PROVE  ParseTypes' /\ ParseInv'
BY DEF ParseTypes, ParseInv

(* Reading a token.                                                          *)
LEMMA Extracted ==
  ASSUME ParseInv, ParseTypes, Extract, ~AtEnd
  PROVE  /\ pos' = pos + 1 /\ pos' \in 1..(Len(file.text) + 1) /\ eof' \in BOOLEAN
         /\ fail' = fail /\ file' = file /\ Token \in STRING
<1>1. pos \in 1..Len(file.text)
  BY Text DEF ParseTypes, AtEnd
<1>2. Token \in STRING
  BY <1>1, Text, ElementOfSeq DEF Token
<1>. QED
  BY <1>1, <1>2, Text DEF Extract

(* A sequence with one more element.                                         *)
LEMMA Longer ==
  ASSUME NEW S, NEW s \in Seq(S), NEW e \in S, NEW t, t = Append(s, e)
  PROVE  /\ t \in Seq(S) /\ Len(t) = Len(s) + 1 /\ Len(s) \in Nat
         /\ \A i \in 1..Len(s) : t[i] = s[i]
         /\ t[Len(s) + 1] = e /\ DOMAIN t = 1..Len(t) /\ DOMAIN s = 1..Len(s)
<1>1. Append(s, e) \in Seq(S)
  BY AppendProperties
<1>. QED
  BY <1>1, AppendProperties, LenProperties

(* What a step that reads the file leaves true of the parser.                *)
LEMMA ReadParse == ASSUME ParseInv, ParseTypes, ReadStep PROVE ParseTypes' /\ ParseInv'
<1>. USE Text
<1>1. CASE ReadCommand
  <2>1. Extract /\ ~AtEnd /\ pc = "parse" /\ handler = Null /\ Good
    BY <1>1 DEF ReadCommand
  <2>2. CASE Token \in Commands
    <3>1. handler' = Token /\ args' = <<>> /\ pc' = pc /\ fail = FALSE /\ Len(<<>>) = 0
          /\ <<>> \in Seq(STRING) /\ DOMAIN <<>> = {}
      BY <1>1, <2>1, <2>2, EmptySeq DEF ReadCommand, ParseInv, Good, ParseTypes
    <3>2. pos' >= 2 /\ pos \in Nat
      BY <2>1, Extracted DEF ParseTypes
    <3>. QED
      BY <2>1, <2>2, <3>1, <3>2, Extracted DEF ParseInv, ParseTypes
  <2>3. CASE Token \notin Commands
    <3>1. Return(FALSE)
      BY <1>1, <2>3 DEF ReadCommand
    <3>. QED
      BY <2>1, <3>1, Returns, Extracted, AtRest DEF ParseTypes
  <2>. QED
    BY <2>2, <2>3
<1>2. CASE NoMore
  <2>1. Return(TRUE) /\ UNCHANGED streamVars
    BY <1>2 DEF NoMore
  <2>. QED
    BY <2>1, Returns, AtRest DEF ParseTypes, streamVars
<1>3. CASE EndOfFile
  <2>1. Return(Loops = <<>>) /\ eof' = TRUE /\ fail' = TRUE /\ file' = file /\ pos' = pos
    BY <1>3 DEF EndOfFile
  <2>. QED
    BY <2>1, Returns, AtRest DEF ParseTypes
<1>4. CASE Get
  <2>1. CASE AtEnd \/ (Wants = "number" /\ Token \notin DOMAIN Numeral)
    <3>1. Return(FALSE) /\ fail' = TRUE /\ eof' = AtEnd /\ file' = file /\ pos' = pos
      BY <1>4, <2>1 DEF Get
    <3>2. eof' \in BOOLEAN
      BY <3>1 DEF AtEnd
    <3>. QED
      BY <3>1, <3>2, Returns, AtRest DEF ParseTypes
  <2>2. CASE ~(AtEnd \/ (Wants = "number" /\ Token \notin DOMAIN Numeral))
    <3>1. /\ Extract /\ ~AtEnd /\ args' = Append(args, Token) /\ UNCHANGED <<handler, pc>>
          /\ handler # Null /\ Wants # "nothing" /\ pc = "parse"
          /\ Wants = "number" => Token \in DOMAIN Numeral
      BY <1>4, <2>2 DEF Get, Parsing
    <3>2. /\ args' \in Seq(STRING) /\ Len(args') = Len(args) + 1
          /\ \A i \in 1..Len(args) : args'[i] = args[i]
          /\ args'[Len(args) + 1] = Token /\ DOMAIN args' = 1..Len(args')
      <4>1. Token \in STRING /\ args \in Seq(STRING) /\ args' = Append(args, Token)
        BY <3>1, Extracted DEF ParseInv
      <4>2. args' \in Seq(STRING) /\ Len(args') = Len(args) + 1
        BY <4>1, Longer
      <4>3. \A i \in 1..Len(args) : args'[i] = args[i]
        BY <4>1, Longer
      <4>4. args'[Len(args) + 1] = Token /\ DOMAIN args' = 1..Len(args')
        BY <4>1, Longer
      <4>. QED
        BY <4>2, <4>3, <4>4
    <3>3. fail' = FALSE /\ pos' = pos + 1 /\ pos' \in 1..(Len(file.text) + 1) /\ file' = file
          /\ eof' \in BOOLEAN /\ Len(args) + 2 <= pos /\ pos \in Nat
      <4>1. fail = FALSE /\ Len(args) + 2 <= pos /\ pos \in Nat
        BY <3>1 DEF ParseInv, ParseTypes
      <4>. QED
        BY <3>1, <4>1, Extracted
    <3>4. Len(args') + 2 <= pos' /\ Len(args') < Len(file.text)
      BY <3>2, <3>3
    <3>5. ASSUME handler = "LOOP"
          PROVE  Len(args') <= 1 /\ \A i \in DOMAIN args' : args'[i] \in DOMAIN Numeral
      <4>1. Len(args) < 1
        BY <3>1, <3>5, LoopWants
      <4>2. Len(args) = 0 /\ <<"number">>[Len(args) + 1] = "number"
        BY <4>1
      <4>. QED
        BY <3>1, <3>2, <3>5, <4>2, LoopWants
    <3>. QED
      BY <3>1, <3>2, <3>3, <3>4, <3>5 DEF ParseInv, ParseTypes
  <2>. QED
    BY <2>1, <2>2
<1>5. CASE Throw
  <2>1. Return(FALSE) /\ UNCHANGED streamVars
    BY <1>5 DEF Throw
  <2>. QED
    BY <2>1, Returns, AtRest DEF ParseTypes, streamVars
<1>6. CASE Crash
  BY <1>6, ParserKept DEF Crash, streamVars
<1>7. CASE ParseBuffer
  BY <1>7, ParserKept DEF ParseBuffer, streamVars, NoChange, Parsing
<1>. QED
  BY <1>1, <1>2, <1>3, <1>4, <1>5, <1>6, <1>7 DEF ReadStep

(* What Loops keeps of a loop, for a file of n tokens.                       *)
LoopRecord(n) == [count : Nat \ {0}, start : 0..(n + 1)]
(* The last loop while a command is parsed: its start is in the file.        *)
LEMMA LastLoop ==
  ASSUME ParseInv, ParseTypes, LoopsInv, ParseEndLoop
  PROVE  /\ Loops \in Seq(LoopRecord(Len(file.text))) /\ Len(Loops) \in Nat \ {0}
         /\ Loops[Len(Loops)] \in LoopRecord(Len(file.text))
         /\ Loops[Len(Loops)].start \in 1..(Len(file.text) + 1)
         /\ \A i \in DOMAIN Loops : Loops[i].start # 0
<1>1. Loops \in Seq(LoopRecord(Len(file.text)))
  BY DEF LoopsInv, LoopRecord
<1>2. Loops # <<>> /\ fail = FALSE
  BY DEF ParseEndLoop, Ready, Parsing, Throws, ParseInv
<1>3. Len(Loops) \in Nat \ {0} /\ DOMAIN Loops = 1..Len(Loops)
  BY <1>1, <1>2, EmptySeq, LenProperties
<1>4. Loops[Len(Loops)] \in LoopRecord(Len(file.text))
  BY <1>1, <1>3, ElementOfSeq
<1>5. \A i \in DOMAIN Loops : Loops[i].start # 0
  BY <1>2 DEF LoopsInv
<1>6. Loops[Len(Loops)].start # 0
  BY <1>3, <1>5
<1>7. Loops[Len(Loops)].start \in 1..(Len(file.text) + 1)
  BY <1>4, <1>6, Text DEF LoopRecord
<1>. QED
  BY <1>1, <1>3, <1>4, <1>5, <1>7

(* The loops with the count of one of them reduced.                          *)
LEMMA LoopCounted ==
  ASSUME NEW m \in Nat, NEW s \in Seq(LoopRecord(m)), NEW n \in 1..Len(s), s[n].count > 1,
         NEW t, t = [s EXCEPT ![n].count = @ - 1]
  PROVE  /\ t \in Seq(LoopRecord(m)) /\ DOMAIN t = DOMAIN s
         /\ \A i \in DOMAIN t : t[i].start = s[i].start
<1>. DEFINE r == [s[n] EXCEPT !.count = @ - 1]
<1>1. s[n] \in LoopRecord(m)
  BY ElementOfSeq
<1>2. r \in LoopRecord(m) /\ r.start = s[n].start
  <2>1. /\ s[n] = [count |-> s[n].count, start |-> s[n].start]
        /\ s[n].count \in Nat \ {0} /\ s[n].start \in 0..(m + 1)
    BY <1>1 DEF LoopRecord
  <2>2. r = [count |-> s[n].count - 1, start |-> s[n].start]
    BY <2>1
  <2>3. s[n].count - 1 \in Nat \ {0}
    BY <2>1
  <2>. HIDE DEF r
  <2>. QED
    BY <2>1, <2>2, <2>3 DEF LoopRecord
<1>3. t = [s EXCEPT ![n] = r]
  OBVIOUS
<1>. HIDE DEF r
<1>4. t \in Seq(LoopRecord(m)) /\ Len(t) = Len(s) /\ \A i \in 1..Len(s) : t[i] = IF i = n THEN r
    ELSE s[i]
  BY <1>2, <1>3, ExceptSeq
<1>5. DOMAIN t = 1..Len(s) /\ DOMAIN s = 1..Len(s)
  BY <1>4, LenProperties
<1>. QED
  BY <1>2, <1>4, <1>5

(* The loops but the last.                                                   *)
LEMMA LoopClosed ==
  ASSUME NEW S, NEW s \in Seq(S), Len(s) \in Nat \ {0}, NEW t, t = SubSeq(s, 1, Len(s) - 1)
  PROVE  /\ t \in Seq(S)
         /\ \A i \in DOMAIN t : i \in DOMAIN s /\ t[i] = s[i]
<1>1. \A i \in 1..(Len(s) - 1) : s[i] \in S
  BY ElementOfSeq
<1>3. /\ t \in Seq(S) /\ Len(t) = Len(s) - 1
      /\ \A i \in 1..Len(t) : t[i] = s[i]
  <2>1. SubSeq(s, 1, Len(s) - 1) \in Seq(S)
    BY <1>1, SubSeqProperties
  <2>2. Len(SubSeq(s, 1, Len(s) - 1)) = IF 1 <= Len(s) - 1 THEN Len(s) - 1 - 1 + 1 ELSE 0
    BY <1>1, SubSeqProperties
  <2>3. \A i \in 1..(Len(s) - 1 - 1 + 1) : SubSeq(s, 1, Len(s) - 1)[i] = s[1 + i - 1]
    BY <1>1, SubSeqProperties
  <2>4. t \in Seq(S) /\ Len(t) = Len(s) - 1
    <3>1. t \in Seq(S)
      BY <2>1
    <3>2. Len(t) = IF 1 <= Len(s) - 1 THEN Len(s) - 1 - 1 + 1 ELSE 0
      BY <2>2, Zenon
    <3>3. \A k \in Nat \ {0} : (IF 1 <= k - 1 THEN k - 1 - 1 + 1 ELSE 0) = k - 1
      OBVIOUS
    <3>4. Len(t) = Len(s) - 1
      BY <3>2, <3>3, Zenon
    <3>. QED
      BY <3>1, <3>4
  <2>5. ASSUME NEW i \in 1..Len(t) PROVE t[i] = s[i]
    <3>1. i \in 1..(Len(s) - 1 - 1 + 1) /\ 1 + i - 1 = i
      BY <2>4, <2>5
    <3>. QED
      BY <2>3, <3>1
  <2>. QED
    BY <2>4, <2>5
<1>4. DOMAIN t = 1..Len(t) /\ DOMAIN s = 1..Len(s)
  BY <1>3, LenProperties
<1>. QED
  BY <1>3, <1>4

(* What the end and the head of a loop leave true of the parser and of the   *)
(* loops.                                                                    *)
LEMMA LoopStepInv ==
  ASSUME ParseInv, ParseTypes, LoopsInv, LoopStep
  PROVE  ParseTypes' /\ ParseInv' /\ LoopsInv'
<1>. USE Text
<1>. /\ file' = file /\ handler' = Null /\ args' = <<>> /\ handler # Null
  BY LoopFrame
<1>1. CASE ParseEndLoop
  <2>. DEFINE n == Len(Loops)
  <2>1. CASE Again
    <3>1. /\ Loops' = [Loops EXCEPT ![n].count = @ - 1] /\ pos' = Loops[n].start
          /\ eof' = FALSE /\ fail' = fail
      BY <1>1, <2>1 DEF ParseEndLoop
    <3>2. /\ Loops' \in Seq(LoopRecord(Len(file.text))) /\ DOMAIN Loops' = DOMAIN Loops
          /\ \A i \in DOMAIN Loops' : Loops'[i].start = Loops[i].start
      <4>1. n \in 1..n /\ Loops[n].count > 1
        BY <1>1, <2>1, LastLoop DEF Again
      <4>2. /\ Loops \in Seq(LoopRecord(Len(file.text))) /\ Len(file.text) \in Nat
            /\ Loops' = [Loops EXCEPT ![n].count = @ - 1]
        BY <1>1, <3>1, LastLoop
      <4>3. n \in 1..Len(Loops)
        BY <4>1
      <4>. QED
        <5>. HIDE DEF n
        <5>1. Loops' \in Seq(LoopRecord(Len(file.text))) /\ DOMAIN Loops' = DOMAIN Loops
          BY <4>1, <4>2, <4>3, LoopCounted
        <5>2. \A i \in DOMAIN Loops' : Loops'[i].start = Loops[i].start
          BY <4>1, <4>2, <4>3, LoopCounted
        <5>. QED
          BY <5>1, <5>2
    <3>3. ParseTypes' /\ ParseInv'
      BY <1>1, <3>1, LastLoop, AtRest DEF ParseTypes
    <3>4. \A i \in DOMAIN Loops' : Loops'[i].start # 0
      BY <1>1, <3>2, LastLoop
    <3>. QED
      BY <3>2, <3>3, <3>4 DEF LoopsInv, LoopRecord
  <2>2. CASE ~Again
    <3>1. Loops' = SubSeq(Loops, 1, n - 1) /\ UNCHANGED <<pos, eof, fail>>
      BY <1>1, <2>2 DEF ParseEndLoop
    <3>2. /\ Loops' \in Seq(LoopRecord(Len(file.text)))
          /\ \A i \in DOMAIN Loops' : i \in DOMAIN Loops /\ Loops'[i] = Loops[i]
      BY <1>1, <3>1, LastLoop, LoopClosed
    <3>3. ParseTypes' /\ ParseInv'
      BY <3>1, AtRest DEF ParseTypes
    <3>4. \A i \in DOMAIN Loops' : Loops'[i].start # 0
      BY <1>1, <3>2, LastLoop
    <3>. QED
      BY <3>2, <3>3, <3>4 DEF LoopsInv, LoopRecord
  <2>. QED
    BY <2>1, <2>2
<1>2. CASE ParseLoop
  <2>. DEFINE loop == [count |-> Number(args[1]), start |-> IF eof THEN 0 ELSE pos]
  <2>1. /\ Loops' = Append(Loops, loop) /\ fail' = eof /\ UNCHANGED <<pos, eof>>
        /\ handler = "LOOP" /\ Wants = "nothing" /\ ~Throws /\ fail = FALSE
    BY <1>2 DEF ParseLoop, Ready, Parsing, ParseInv
  <2>2. ParseTypes' /\ ParseInv'
    BY <2>1, AtRest DEF ParseTypes
  <2>3. Number(args[1]) \in Nat \ {0}
    <3>1. Len(args) = 1
      <4>1. ~(Len(args) < 1)
        <5>1. SUFFICES ASSUME Len(args) < 1 PROVE FALSE
          OBVIOUS
        <5>2. Len(args) = 0 /\ <<"number">>[Len(args) + 1] = "number"
          BY <5>1
        <5>. QED
          BY <2>1, <5>1, <5>2, LoopWants
      <4>2. Len(args) <= 1
        BY <2>1 DEF ParseInv
      <4>. QED
        BY <4>1, <4>2
    <3>2. args[1] \in DOMAIN Numeral /\ Number(args[1]) # 0
      BY <2>1, <3>1 DEF ParseInv, Throws, Got
    <3>3. \A t \in DOMAIN Numeral : Numeral[t] \in Nat
      BY DEF Numeral
    <3>. QED
      BY <3>2, <3>3 DEF Number
  <2>4. loop \in LoopRecord(Len(file.text)) /\ (loop.start = 0 => eof = TRUE)
    BY <2>3 DEF ParseTypes, LoopRecord
  <2>. HIDE DEF loop
  <2>5. /\ Loops \in Seq(LoopRecord(Len(file.text)))
        /\ \A i \in DOMAIN Loops : Loops[i].start # 0
    BY <2>1 DEF LoopsInv, LoopRecord
  <2>6. /\ Loops' \in Seq(LoopRecord(Len(file.text)))
        /\ \A i \in 1..Len(Loops) : Loops'[i] = Loops[i]
    BY <2>1, <2>4, <2>5, Longer
  <2>7. /\ Loops'[Len(Loops) + 1] = loop /\ Len(Loops') = Len(Loops) + 1 /\ Len(Loops) \in Nat
        /\ DOMAIN Loops' = 1..Len(Loops') /\ DOMAIN Loops = 1..Len(Loops)
    BY <2>1, <2>4, <2>5, Longer
  <2>8. ASSUME NEW i \in DOMAIN Loops', Loops'[i].start = 0 PROVE fail' = TRUE
    <3>1. i \in DOMAIN Loops \/ i = Len(Loops) + 1
      BY <2>7
    <3>. QED
      BY <2>1, <2>4, <2>5, <2>6, <2>7, <2>8, <3>1
  <2>. QED
    BY <2>2, <2>6, <2>8 DEF LoopsInv, LoopRecord
<1>. QED
  BY <1>1, <1>2 DEF LoopStep

(* The parts of the types that are not the parser's.                         *)
LoopTypes ==
  \A i \in DOMAIN Loops :
     Loops[i].count \in Nat \ {0} /\ Loops[i].start \in 0..(Len(file.text) + 1)
ModuleTypes ==
  loads \in Nat /\ Module \in 1..loads \cup {Null} /\ Entry \in 1..loads \cup {Null}
ControlTypes ==
  /\ left \in Nat /\ suspended \in BOOLEAN /\ launched \in BOOLEAN
  /\ pc \in {"host", "parse", "step", "return", "ended", "thrown", "aborted", "crashed"}
  /\ call \in Calls \cup {Null}
  /\ mode \in Modes /\ result \in {TRUE, FALSE, Null}

(* The parts make up the type invariant, ...                                 *)
LEMMA TypeParts == TypeOK <=> ParseTypes /\ LoopTypes /\ ModuleTypes /\ ControlTypes
BY DEF TypeOK, ParseTypes, LoopTypes, ModuleTypes, ControlTypes

(* ... and that of the loops is in the invariant.                            *)
LEMMA LoopsTyped == LoopsInv => LoopTypes
<1>. SUFFICES ASSUME LoopsInv, NEW i \in DOMAIN Loops
              PROVE  Loops[i].count \in Nat \ {0} /\ Loops[i].start \in 0..(Len(file.text) + 1)
  BY DEF LoopTypes
<1>1. Loops \in Seq([count : Nat \ {0}, start : 0..(Len(file.text) + 1)])
  BY DEF LoopsInv
<1>2. i \in 1..Len(Loops)
  BY <1>1, LenProperties
<1>3. Loops[i] \in [count : Nat \ {0}, start : 0..(Len(file.text) + 1)]
  BY <1>1, <1>2, ElementOfSeq
<1>. QED
  BY <1>3

(* What every step leaves true of the modules.                               *)
LEMMA ModuleStep == ASSUME ModuleTypes, Next PROVE ModuleTypes'
<1>1. CASE HostStep
  BY <1>1, HostFrame DEF ModuleTypes, parseVars
<1>2. CASE ReadStep
  <2>1. loads' = loads /\ Module' \in {Module, Null} /\ Entry' \in {Entry, Null}
    <3>1. loads' = loads
      BY <1>2, ReadFrame
    <3>2. CASE ReadCommand \/ NoMore \/ EndOfFile \/ Get \/ Crash
      BY <3>2 DEF ReadCommand, NoMore, EndOfFile, Get, Crash, parseVars
    <3>3. CASE Throw
      BY <3>3 DEF Throw
    <3>4. CASE ParseBuffer
      BY <3>4 DEF ParseBuffer
    <3>. QED
      BY <1>2, <3>1, <3>2, <3>3, <3>4 DEF ReadStep
  <2>. QED
    BY <2>1 DEF ModuleTypes
<1>3. CASE LoopStep
  BY <1>3, LoopFrame DEF ModuleTypes
<1>4. CASE OtherStep
  <2>1. CASE ParseModule
    BY <2>1 DEF ParseModule, ModuleTypes
  <2>2. CASE ParseEntry
    BY <2>2 DEF ParseEntry, ModuleTypes
  <2>3. CASE InitializeBuffer \/ ParseDescriptorSet \/ ParseDump \/ ParseSpecialize
    BY <2>3 DEF InitializeBuffer, ParseDescriptorSet, ParseDump, ParseSpecialize, parseVars,
                ModuleTypes
  <2>. QED
    BY <1>4, <2>1, <2>2, <2>3 DEF OtherStep
<1>5. CASE DispatchStep
  BY <1>5 DEF DispatchStep, UncaughtMode, StartFails, RunDispatch, StartDispatch, LookUp,
              EntryUsed, parseVars, ModuleTypes
<1>. QED
  BY <1>1, <1>2, <1>3, <1>4, <1>5, NextSteps

(* What every step leaves true of the types of the control.                  *)
LEMMA ControlStep == ASSUME ControlTypes, Next PROVE ControlTypes'
<1>. USE DEF Calls
<1>1. CASE HostStep
  <2>1. UNCHANGED <<suspended, launched, mode, result>>
    BY <1>1, HostFrame
  <2>2. CASE Run \/ Start \/ StepOrContinue \/ ReturnToHost
    BY <2>1, <2>2 DEF ControlTypes, Run, Start, StepOrContinue, ReturnToHost, execVars
  <2>3. CASE Tick \/ Step
    <3>1. left' \in Nat
      BY <2>3 DEF ControlTypes, Tick, Step
    <3>2. pc' \in {pc, "parse", "step", "return"} /\ call' = call
      BY <2>3 DEF Tick, Step
    <3>. QED
      BY <2>1, <3>1, <3>2 DEF ControlTypes
  <2>4. CASE Ended
    BY <2>1, <2>4 DEF ControlTypes, Ended, vars, execVars
  <2>. QED
    BY <1>1, <2>2, <2>3, <2>4 DEF HostStep
<1>2. CASE ReadStep
  <2>1. UNCHANGED <<left, suspended, launched, mode>>
    BY <1>2, ReadFrame DEF execVars
  <2>2. CASE UNCHANGED <<pc, call, result>>
    BY <2>1, <2>2 DEF ControlTypes
  <2>3. ASSUME NEW r \in BOOLEAN, Return(r) PROVE ControlTypes'
    BY <2>1, <2>3, Returns DEF ControlTypes
  <2>4. CASE Crash
    BY <2>1, <2>4 DEF ControlTypes, Crash
  <2>5. \/ UNCHANGED <<pc, call, result>>
        \/ Return(FALSE) \/ Return(TRUE) \/ Return(Loops = <<>>)
        \/ Crash
    BY <1>2 DEF ReadStep, ReadCommand, NoMore, EndOfFile, Get, Throw, ParseBuffer, NoChange
  <2>6. (Loops = <<>>) \in BOOLEAN
    OBVIOUS
  <2>. QED
    BY <2>2, <2>3, <2>4, <2>5, <2>6
<1>3. CASE LoopStep
  BY <1>3, LoopFrame DEF ControlTypes, execVars
<1>4. CASE OtherStep
  BY <1>4, OtherFrame DEF ControlTypes, execVars
<1>5. CASE DispatchStep
  <2>1. CASE UncaughtMode \/ StartFails
    BY <2>1 DEF ControlTypes, UncaughtMode, StartFails, execVars
  <2>2. CASE RunDispatch
    <3>1. suspended' \in BOOLEAN
      BY <2>2 DEF RunDispatch
    <3>2. launched' = TRUE /\ UNCHANGED <<left, pc, call, result, mode>>
      BY <2>2 DEF RunDispatch
    <3>. QED
      BY <3>1, <3>2 DEF ControlTypes
  <2>3. CASE StartDispatch
    <3>1. /\ left' \in Ticks /\ launched' = TRUE /\ UNCHANGED <<suspended, mode>>
          /\ Return(FALSE)
      BY <2>3 DEF StartDispatch
    <3>. QED
      BY <3>1, FileAssumption, Returns DEF ControlTypes
  <2>. QED
    BY <1>5, <2>1, <2>2, <2>3 DEF DispatchStep
<1>. QED
  BY <1>1, <1>2, <1>3, <1>4, <1>5, NextSteps

(* What every step leaves true of the parser and of the loops.               *)
LEMMA ParseStep ==
  ASSUME ParseInv, ParseTypes, LoopsInv, CallInv, Next
  PROVE  ParseTypes' /\ ParseInv' /\ LoopsInv'
<1>1. CASE HostStep
  <2>1. UNCHANGED <<file, pos, eof, fail, handler, args, Loops>>
    BY <1>1, HostFrame DEF streamVars, parseVars
  <2>2. handler # Null => pc' \in {"parse", "thrown", "aborted", "crashed"}
    BY <1>1 DEF HostStep, Run, Start, StepOrContinue, Tick, Step, ReturnToHost, Ended, vars,
        ParseInv
  <2>. QED
    BY <2>1, <2>2, ParserKept DEF LoopsInv
<1>2. CASE ReadStep
  <2>1. file' = file /\ Loops' = Loops
    BY <1>2, ReadFrame
  <2>2. fail' \in {fail, TRUE}
    BY <1>2 DEF ReadStep, ReadCommand, NoMore, EndOfFile, Get, Throw, Crash, ParseBuffer, Extract,
                streamVars
  <2>. QED
    BY <1>2, <2>1, <2>2, ReadParse DEF LoopsInv
<1>3. CASE LoopStep
  BY <1>3, LoopStepInv
<1>4. CASE OtherStep
  <2>1. UNCHANGED <<file, pos, eof, fail, Loops>> /\ handler' = Null /\ args' = <<>>
    BY <1>4, OtherFrame DEF streamVars
  <2>. QED
    BY <2>1, AtRest DEF ParseTypes, LoopsInv
<1>5. CASE DispatchStep
  <2>1. UNCHANGED <<file, pos, eof, fail, Loops>>
    BY <1>5 DEF DispatchStep, UncaughtMode, StartFails, RunDispatch, StartDispatch, LookUp,
                streamVars, parseVars
  <2>2. CASE UncaughtMode \/ StartFails
    <3>1. UNCHANGED <<handler, args>> /\ pc' \in {"thrown", "aborted"}
      BY <2>2 DEF UncaughtMode, StartFails
    <3>. QED
      BY <2>1, <3>1, ParserKept DEF LoopsInv
  <2>3. CASE RunDispatch \/ StartDispatch
    <3>1. handler' = Null /\ args' = <<>>
      BY <2>3 DEF RunDispatch, StartDispatch, Done, Return
    <3>. QED
      BY <2>1, <3>1, AtRest DEF ParseTypes, LoopsInv
  <2>. QED
    BY <1>5, <2>2, <2>3 DEF DispatchStep
<1>. QED
  BY <1>1, <1>2, <1>3, <1>4, <1>5, NextSteps

(* What is known of the events and the executor stays true when no dispatch is *)
(* recorded and the executor is left alone.                                   *)
LEMMA HistoryKept ==
  ASSUME HistoryInv, UNCHANGED <<launched, suspended, CurrentCommand, mode>>,
         \E S : trace' \in Seq(S),
         \A several \in BOOLEAN : DispatchedIn(trace', several) <=> DispatchedIn(trace, several)
  PROVE  HistoryInv'
<1>1. /\ Dispatched(FALSE) <=> DispatchedIn(trace, FALSE)
      /\ Dispatched(TRUE) <=> DispatchedIn(trace, TRUE)
  BY DispatchedIsIn
<1>2. /\ Dispatched(FALSE)' <=> DispatchedIn(trace', FALSE)
      /\ Dispatched(TRUE)' <=> DispatchedIn(trace', TRUE)
  BY DEF Dispatched, DispatchedIn, IsDispatch
<1>. QED
  BY <1>1, <1>2 DEF HistoryInv

(* Every step, whether it records an event or none.                          *)
LEMMA HistoryStep == ASSUME HistoryInv, Next PROVE HistoryInv'
<1>0. /\ Dispatched(FALSE)' <=> DispatchedIn(trace', FALSE)
      /\ Dispatched(TRUE)' <=> DispatchedIn(trace', TRUE)
  BY DEF Dispatched, DispatchedIn, IsDispatch
<1>1. CASE UNCHANGED <<launched, suspended, CurrentCommand, mode, trace>>
  BY <1>1, HistoryKept DEF HistoryInv
<1>2. CASE HostStep \/ ReadStep \/ LoopStep
  BY <1>1, <1>2, HostFrame, ReadFrame, LoopFrame DEF execVars
<1>3. CASE OtherStep
  <2>1. PICK e : trace' = Append(trace, e) /\ e[1] \notin {"DISPATCH", "EXEC"}
    BY <1>3, OtherFrame
  <2>2. UNCHANGED <<launched, suspended, CurrentCommand, mode>>
    BY <1>3, OtherFrame DEF execVars
  <2>. QED
    BY <2>1, <2>2, OtherEvent, HistoryKept
<1>4. CASE UncaughtMode \/ StartFails
  BY <1>1, <1>4 DEF UncaughtMode, StartFails, execVars
<1>5. CASE RunDispatch \/ StartDispatch
  <2>1. trace' = Append(trace, Event) /\ launched' = TRUE /\ mode' = mode
        /\ handler \in {"DISPATCH", "EXEC"}
    BY <1>5 DEF RunDispatch, StartDispatch, Done, Ready
  <2>2. Event[1] = handler /\ Event[2] = args
    BY DEF Event
  <2>3. /\ \E S : trace' \in Seq(S)
        /\ DispatchedIn(trace', FALSE)
        /\ Groups > 1 => DispatchedIn(trace', TRUE)
    <3>1. IsDispatch(Event, FALSE) /\ Groups = GroupsOf(Event[1], Event[2])
      BY <2>1, <2>2 DEF Groups, IsDispatch
    <3>. QED
      BY <2>1, <3>1, DispatchEvent
  <2>4. CASE RunDispatch
    <3>1. suspended' = (Groups > 1) /\ CurrentCommand' = CurrentCommand
      BY <2>4 DEF RunDispatch
    <3>. QED
      BY <1>0, <2>1, <2>3, <3>1 DEF HistoryInv
  <2>5. CASE StartDispatch
    <3>1. suspended' = suspended /\ mode = "DEBUG" /\ CanStart
      BY <2>5 DEF StartDispatch
    <3>. QED
      BY <1>0, <2>1, <2>3, <3>1 DEF HistoryInv, CanStart
  <2>. QED
    BY <1>5, <2>4, <2>5
<1>. QED
  BY <1>2, <1>3, <1>4, <1>5, NextSteps DEF DispatchStep

(* The only steps that abort are the assertion of start and that of makeU.   *)
LEMMA AbortStep ==
  ASSUME HistoryInv, ParseInv, AbortInv, HistoryInv', ControlTypes, Next
  PROVE  AbortInv'
<1>1. CASE pc' # "aborted"
  BY <1>1 DEF AbortInv
<1>2. CASE ReturnToHost /\ pc' = "aborted"
  <2>1. launched' = launched /\ handler' = handler /\ launched = FALSE /\ pc = "return"
    BY <1>2 DEF ReturnToHost, execVars, ControlTypes
  <2>2. handler' \notin {"DISPATCH", "EXEC"}
    BY <2>1, NullIsNoName DEF ParseInv
  <2>3. ~Dispatched(FALSE)'
    BY <2>1 DEF HistoryInv
  <2>. QED
    BY <2>2, <2>3 DEF AbortInv
<1>3. CASE StartFails
  <2>1. /\ handler' \in {"DISPATCH", "EXEC"} /\ mode' = mode
        /\ UNCHANGED <<CurrentCommand, suspended, handler, args>>
        /\ CurrentCommand # Null \/ suspended = TRUE \/ ~Fits(handler, args)
    BY <1>3 DEF StartFails, Ready, CanStart, execVars, ControlTypes
  <2>2. trace' = trace
    BY <1>3 DEF StartFails
  <2>0. CASE ~Fits(handler, args)
    <3>1. ~Fits(handler', args')
      BY <2>0, <2>1
    <3>. QED
      BY <2>1, <3>1 DEF AbortInv
  <2>3. CASE mode = "DEBUG" /\ Fits(handler, args)
    <3>1. Dispatched(FALSE)
      BY <2>1, <2>3 DEF HistoryInv, Dispatched
    <3>2. Dispatched(mode # "DEBUG")'
      BY <2>1, <2>2, <2>3, <3>1 DEF Dispatched
    <3>. QED
      BY <2>1, <3>2 DEF AbortInv
  <2>4. CASE mode # "DEBUG" /\ Fits(handler, args)
    <3>1. Dispatched(TRUE)
      BY <2>1, <2>4 DEF HistoryInv
    <3>2. Dispatched(mode # "DEBUG")'
      BY <2>1, <2>2, <2>4, <3>1 DEF Dispatched
    <3>. QED
      BY <2>1, <3>2 DEF AbortInv
  <2>. QED
    BY <2>0, <2>3, <2>4
<1>4. CASE Ended
  BY <1>4 DEF Ended, vars, AbortInv, Dispatched, Fits, GroupsOf
<1>5. pc' # "aborted" \/ ReturnToHost \/ StartFails \/ Ended
  <2>1. CASE HostStep
    BY <2>1 DEF HostStep, Run, Start, StepOrContinue, Tick, Step
  <2>2. CASE ReadStep
    <3>1. pc = "parse" /\ (pc' = pc \/ pc' \in {"step", "return", "crashed"})
      BY <2>2, ReadFrame DEF ReadStep, ReadCommand, NoMore, EndOfFile, Get, Throw, Crash,
          ParseBuffer,
                          Return, NoChange
    <3>. QED
      BY <3>1
  <2>3. CASE LoopStep \/ OtherStep
    BY <2>3, LoopFrame, OtherFrame
  <2>4. CASE DispatchStep
    BY <2>4 DEF DispatchStep, UncaughtMode, RunDispatch, StartDispatch, Return, Ready, Parsing
  <2>. QED
    BY <2>1, <2>2, <2>3, <2>4, NextSteps
<1>. QED
  BY <1>1, <1>2, <1>3, <1>4, <1>5

(* The invariant of the session holds at the start, ...                      *)
LEMMA SessionStart == ASSUME Init PROVE SessionInv
<1>. USE DEF Init
<1>1. Len(<<>>) = 0 /\ <<>> \in Seq(STRING) /\ DOMAIN <<>> = {}
      /\ <<>> \in Seq([count : Nat \ {0}, start : 0..(Len(file.text) + 1)])
  BY EmptySeq
<1>2. ParseInv
  BY <1>1, NullIsNoName DEF ParseInv
<1>3. ParseTypes /\ LoopTypes /\ ModuleTypes /\ ControlTypes
  <2>1. ParseTypes
    <3>1. Len(args) = 0 /\ Len(file.text) \in Nat /\ Len(file.text) > 0
      BY <1>1, <1>2, Text
    <3>2. pos \in 1..(Len(file.text) + 1)
      BY <3>1
    <3>. QED
      BY <3>1, <3>2 DEF ParseTypes
  <2>2. LoopTypes /\ ModuleTypes
    BY <1>1 DEF LoopTypes, ModuleTypes
  <2>3. ControlTypes
    BY DEF ControlTypes
  <2>. QED
    BY <2>1, <2>2, <2>3
<1>4. LoopsInv
  BY <1>1 DEF LoopsInv
<1>5. CallInv
  BY NullIsNoName DEF CallInv
<1>6. \A several \in BOOLEAN : ~Dispatched(several)
  BY <1>1 DEF Dispatched
<1>7. HistoryInv /\ AbortInv
  BY <1>1, <1>6 DEF HistoryInv, AbortInv
<1>. QED
  BY <1>2, <1>3, <1>4, <1>5, <1>7, TypeParts DEF SessionInv

(* ... and every step keeps it.                                              *)
LEMMA SessionStep == ASSUME SessionInv, [Next]_vars PROVE SessionInv'
<1>. USE DEF SessionInv
<1>1. CASE Next
  <2>1. ParseTypes' /\ ParseInv' /\ LoopsInv'
    BY <1>1, TypeParts, ParseStep
  <2>2. CallInv'
    BY <1>1, CallStep
  <2>3. HistoryInv'
    BY <1>1, HistoryStep
  <2>4. ModuleTypes' /\ ControlTypes'
    BY <1>1, TypeParts, ModuleStep, ControlStep
  <2>5. AbortInv'
    BY <1>1, <2>3, TypeParts, AbortStep
  <2>6. LoopTypes'
    BY <2>1, LoopsTyped, PTL
  <2>7. TypeOK'
    BY <2>1, <2>4, <2>6 DEF TypeOK, ParseTypes, LoopTypes, ModuleTypes, ControlTypes
  <2>. QED
    BY <2>1, <2>2, <2>3, <2>5, <2>7
<1>2. CASE UNCHANGED vars
  <2>. USE <1>2 DEF vars, streamVars, parseVars, execVars
  <2>1. ParseTypes' /\ LoopTypes' /\ ModuleTypes' /\ ControlTypes'
    <3>1. ParseTypes /\ LoopTypes /\ ModuleTypes /\ ControlTypes
      BY TypeParts
    <3>2. ParseTypes'
      BY <3>1 DEF ParseTypes
    <3>3. LoopTypes' /\ ModuleTypes'
      BY <3>1 DEF LoopTypes, ModuleTypes
    <3>4. ControlTypes'
      BY <3>1 DEF ControlTypes
    <3>. QED
      BY <3>2, <3>3, <3>4
  <2>2. TypeOK'
    BY <2>1 DEF TypeOK, ParseTypes, LoopTypes, ModuleTypes, ControlTypes
  <2>3. ParseInv' /\ LoopsInv' /\ CallInv'
    BY DEF ParseInv, LoopsInv, CallInv
  <2>4. HistoryInv' /\ AbortInv'
    BY DEF HistoryInv, AbortInv, Dispatched, Fits, GroupsOf
  <2>. QED
    BY <2>2, <2>3, <2>4
<1>. QED
  BY <1>1, <1>2

(* The invariant of every session.                                           *)
THEOREM SessionInvHolds == Spec => []SessionInv
<1>. QED
  BY SessionStart, SessionStep, PTL DEF Spec

(* AbortsExplained, for any files, modes, ticks and calls of the host: the   *)
(* assertions of start and makeU fail only for the reasons it names.         *)
THEOREM AbortsAreExplained == Spec => []AbortsExplained
<1>1. SessionInv => AbortsExplained
  BY DEF SessionInv, AbortInv, AbortsExplained
<1>. QED
  BY <1>1, SessionInvHolds, PTL

(* DebuggerWaits, for the same: under a debugger no command is executed      *)
(* while the dispatch that it started has ticks left.                        *)
THEOREM DebuggerAlwaysWaits == Spec => DebuggerWaits
<1>1. SessionInv /\ [Next]_vars => [trace' # trace => left = 0]_vars
  <2>1. ASSUME SessionInv, Next, trace' # trace PROVE left = 0
    <3>1. pc = "parse"
      <4>1. OtherStep \/ DispatchStep
        BY <2>1, NextSteps, HostFrame, ReadFrame, LoopFrame
      <4>2. CASE OtherStep
        BY <4>2, OtherFrame
      <4>3. CASE DispatchStep
        BY <4>3 DEF DispatchStep, UncaughtMode, StartFails, RunDispatch, StartDispatch, Ready,
            Parsing
      <4>. QED
        BY <4>1, <4>2, <4>3
    <3>. QED
      BY <2>1, <3>1 DEF SessionInv, CallInv
  <2>. QED
    BY <2>1
<1>. QED
  BY <1>1, SessionInvHolds, PTL DEF Spec, DebuggerWaits
===============================================================================
