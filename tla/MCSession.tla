------------------------------ MODULE MCSession ------------------------------
(***************************************************************************)
(* An instance of Session for TLC: command files written out from          *)
(* programs, and what executing such a program means.                      *)
(*                                                                         *)
(* A program is a sequence of statements: a command, with the tokens of    *)
(* its arguments and what it prints; a loop, with its count and its body;  *)
(* an error, a command that cannot be executed; or the head of a loop      *)
(* that is never closed.                                                   *)
(***************************************************************************)
EXTENDS Session

Digits == <<"0", "1", "2", "3", "4", "5", "6", "7", "8">>
Cmd(h, as)      == [kind |-> "cmd", cmd |-> <<h, as>>]
Dump(as, shown) == [kind |-> "cmd", cmd |-> <<"DUMP", as, shown>>]
Loop(n, body)   == [kind |-> "loop", count |-> n, body |-> body]
Bad(h, as)      == [kind |-> "error", cmd |-> <<h, as>>]
Open(n) == [kind |-> "open", cmd |-> <<"LOOP", <<Digits[n + 1]>>>>]

\* The text of a program, ...
RECURSIVE Text(_)
Text(p) ==
  IF p = <<>> THEN <<>>
  ELSE (IF Head(p).kind = "loop"
        THEN <<"LOOP", Digits[Head(p).count + 1]>> \o Text(Head(p).body) \o <<"ENDLOOP">>
        ELSE <<Head(p).cmd[1]>> \o Head(p).cmd[2]) \o Text(Tail(p))
\* ... the statements it stands for, loops unrolled, ...
RECURSIVE Unroll(_)
Unroll(p) ==
  IF p = <<>> THEN <<>>
  ELSE (IF Head(p).kind = "loop"
        THEN Unroll(Head(p).body)
             \o (IF Head(p).count = 1 THEN <<>>
                 ELSE Unroll(<<[Head(p) EXCEPT !.count = @ - 1]>>))
        ELSE IF Head(p).kind = "open" THEN <<>> ELSE <<Head(p)>>)
       \o Unroll(Tail(p)) \o (IF Head(p).kind = "open" THEN <<Head(p)>> ELSE <<>>)
\* ... and what is left of an event when the state that a dispatch takes is dropped.
Plain(event) == IF event[1] \in {"DISPATCH", "EXEC"} THEN SubSeq(event, 1, 2) ELSE event

\* Statements: what programs begin with, ...
Setup == <<Cmd("MODULE", <<"kernel.spv">>), Cmd("ENTRY", <<"main">>)>>
Data  == <<Cmd("BUFFER", <<"a", "6", "DATA", "INT16", "7", "8", "7">>),
           Cmd("BUFFER", <<"b", "7", "SERIES", "INT16", "1", "2">>),
           Cmd("DESCRIPTOR_SET", <<"0", "0", "0", "a">>), Cmd("SPECIALIZE", <<"1", "INT32", "3">>)>>
\* ... and what they go on with.
Bind(b)     == Cmd("DESCRIPTOR_SET", <<"0", "0", "0", b>>)
Grid(x, y)  == Cmd("DISPATCH", <<x, y, "1">>)
Dispatch(n) == Grid(n, "1")
Exec        == Cmd("EXEC", <<>>)
ShowA == Dump(<<"INT16", "a">>, <<7, 8, 7>>)
ShowB == Dump(<<"INT16", "b">>, <<1, 3, 5>>)
Plains == {Bind("b"), Dispatch("1"), Exec, ShowA, ShowB, Dump(<<"ALL">>, <<>>)}
Errors == {Bad("DUMP", <<"INT16", "nothing">>), Bad("DUMP", <<"WORDS", "a">>), Bad("LOOP", <<"0">>),
           Bad("BUFFER", <<"a", "2", "UNINIT">>), Bad("BUFFER", <<"c", "4", "DATA", "INT16", "1">>),
           Bad("ENDLOOP", <<>>), Bad("ENTRY", <<"other">>), Bad("MODULE", <<"missing.spv">>),
           Bad("SPECIALIZE", <<"1", "INT16", "3">>), Bad("SPECIALIZE", <<"2", "INT32", "3">>),
           Bad("DISPATCH", <<"1", "LOOP">>), Bad("HELLO", <<>>), Bad("BUFFER", <<"d", "8", "RANDOM">>),
           Bad("DESCRIPTOR_SET", <<"0", "1", "0", "nothing">>)}
Bodies == {<<s>> : s \in Plains} \cup {<<Loop(2, <<s>>), t>> : s, t \in Plains}
Programs ==
  {Setup \o Data \o <<s>> \o t : s \in Plains \cup Errors \cup {Open(2)}, t \in Bodies}
  \cup {Setup \o Data \o <<Loop(n, body)>> \o t :
          n \in {1, 3}, body \in Bodies, t \in {<<ShowB>>, <<Loop(2, <<ShowA>>)>>, <<>>}}
  \cup {Setup \o Data \o <<Loop(2, <<Dispatch("2")>>)>>, Setup \o <<Dispatch("2"), Dispatch("1")>>,
        <<Open(2)>>, <<ShowA>>, <<Exec>>, <<Cmd("ENTRY", <<"main">>), Exec>>, Setup \o Setup \o <<Exec>>,
        Setup \o <<Cmd("MODULE", <<"kernel.spv">>), Exec>>, <<Bad("HELLO", <<>>)>>,
        <<Cmd("MODULE", <<"kernel.spv">>), Exec>>, <<Cmd("SPECIALIZE", <<"1", "INT32", "3">>)>>,
        Setup \o <<Grid("6", "5")>>, Setup \o <<Grid("8", "4"), Exec>>, Setup \o <<Grid("8", "8")>>}

MCFiles ==
  {[text |-> Text(p), newline |-> TRUE, EntryName |-> "", program |-> p] : p \in Programs}
  \cup {[text |-> Text(p), newline |-> FALSE, EntryName |-> e, program |-> p] :
          p \in {Setup \o Data \o <<s, Loop(2, <<t>>)>> : s, t \in Plains}
                \cup {Setup \o Data \o <<Open(2)>> \o t : t \in Bodies \cup {<<>>}}
                \cup {Setup \o Data \o <<s>> : s \in Errors} \cup {<<Open(2)>>}
                \cup {<<Cmd("MODULE", <<"kernel.spv">>), Exec, Exec>>}, e \in {"", "main"}}
-------------------------------------------------------------------------------
Plan    == Unroll(file.program)
Correct == \A i \in DOMAIN Plan : Plan[i].kind = "cmd"
DoneAs(i) == Plan[i].kind = "cmd" /\ Plain(trace[i]) = Plan[i].cmd
Complete  == Correct /\ Len(trace) = Len(Plan)
\* All commands have been executed and the one thing wrong with them is a loop that
\* is open when the file ends.
LeftOpen  == Plan # <<>> /\ Plan[Len(Plan)].kind = "open" /\ Len(trace) = Len(Plan) - 1

(* The nested loops, seekg and the counts of Loops: the commands executed,   *)
(* with the buffers as they were initialized, are those of the program with  *)
(* its loops unrolled, in order, and none after an error (under a debugger,  *)
(* which goes on after an error, only of a program without one).             *)
ExecutesAsWritten ==
  mode # "DEBUG" \/ Correct =>
    /\ Len(trace) <= Len(Plan)
    /\ \A i \in DOMAIN trace : DoneAs(i)

(* run returns true when it has executed the whole file, so that talvos-cmd  *)
(* exits with 0 for no file which fails half way; and in one case more: a    *)
(* loop left open is only reported where the handler of the end of the file  *)
(* looks for it, and a file without white space after its last command       *)
(* leaves the loop of run before.                                            *)
ResultRight == pc = "ended" => result = (Complete \/ (LeftOpen /\ ~file.newline))

(* cont returns when the file has been executed to its end: the commands     *)
(* after a dispatch are run however steps, ticks and continues follow one    *)
(* another before.                                                           *)
ContinueRunsAll == pc = "host" /\ call = "cont" /\ Correct => Complete
===============================================================================
