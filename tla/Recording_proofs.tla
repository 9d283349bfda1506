--------------------------- MODULE Recording_proofs ---------------------------
(****************************************************************************)
(* Proofs about Recording, for any buffers, any calls and any order of      *)
(* recording, resetting, executing and submitting.                          *)
(****************************************************************************)
EXTENDS Recording, FiniteSetTheorems, SequenceTheorems, TLAPS

(* The calls of a sequence that name a slot, and that there is a last of them.*)
Named(tr, s) == {i \in DOMAIN tr : Names(tr[i], s)}
HasLast(tr, s) ==
  Named(tr, s) = {} \/ \E i \in Named(tr, s) : \A j \in Named(tr, s) : j <= i

(* The value that a sequence of calls leaves in a slot, as the bindings of a *)
(* command buffer have it.                                                   *)
AsBound(ctx, tr, s) ==
  ctx[s] = LastNamed(tr, s) \/ (s[1] = "push" /\ LastNamed(tr, s) = Null)

(* The invariant: the bindings of every buffer are what its calls have bound,*)
(* and those of every command what the calls before it had bound.            *)
BufferInv ==
  /\ script \in [CommandBuffer -> Seq(Call)]
  /\ calls \in [CommandBuffer -> Seq(Call)]
  /\ DOMAIN context = CommandBuffer
  /\ \A c \in CommandBuffer : \A s \in Slot :
       HasLast(calls[c], s) /\ AsBound(context[c], calls[c], s)
CapturedRight(r) ==
  r.type \in {"draw", "drawIndexed", "dispatch"} =>
    \A s \in Slot : AsBound(r.context, r.calls, s)
HeapInv ==
  /\ \E S : heap \in Seq(S)
  /\ \A k \in DOMAIN heap : CapturedRight(heap[k])
RecInv == BufferInv /\ HeapInv

(* The calls that name a slot, after one more call.                          *)
LEMMA NamedAppend ==
  ASSUME NEW tr \in Seq(Call), NEW call \in Call, NEW s
  PROVE  /\ Named(Append(tr, call), s)
              = Named(tr, s) \cup (IF Names(call, s) THEN {Len(tr) + 1} ELSE {})
         /\ \A i \in Named(tr, s) : i \in 1..Len(tr) /\ Append(tr, call)[i] = tr[i]
         /\ Append(tr, call)[Len(tr) + 1] = call /\ Len(tr) \in Nat
<1>1. /\ DOMAIN tr = 1..Len(tr) /\ Len(tr) \in Nat
      /\ DOMAIN Append(tr, call) = 1..(Len(tr) + 1)
      /\ \A i \in 1..Len(tr) : Append(tr, call)[i] = tr[i]
      /\ Append(tr, call)[Len(tr) + 1] = call
  OBVIOUS
<1>2. \A i : i \in 1..(Len(tr) + 1) <=> i \in 1..Len(tr) \/ i = Len(tr) + 1
  BY <1>1
<1>3. \A i : i \in Named(Append(tr, call), s) <=>
               i \in Named(tr, s) \/ (i = Len(tr) + 1 /\ Names(call, s))
  <2> DEFINE n == Len(tr)
             tr2 == Append(tr, call)
  <2>1. /\ DOMAIN tr = 1..n /\ DOMAIN tr2 = 1..(n + 1) /\ n + 1 \notin 1..n
        /\ \A i \in 1..n : tr2[i] = tr[i]
        /\ tr2[n + 1] = call
        /\ \A i : i \in 1..(n + 1) <=> i \in 1..n \/ i = n + 1
    BY <1>1, <1>2
  <2> HIDE DEF n, tr2
  <2>2. \A i : i \in Named(tr2, s) <=> i \in Named(tr, s) \/ (i = n + 1 /\ Names(call, s))
    BY <2>1 DEF Named
  <2> QED  BY <2>2 DEF n, tr2
<1> QED  BY <1>1, <1>3 DEF Named

(* The last call of a sequence decides for the slots it names, the earlier   *)
(* ones for the others.                                                      *)
LEMMA LastOfAppend ==
  ASSUME NEW tr \in Seq(Call), NEW call \in Call, NEW s, HasLast(tr, s)
  PROVE  /\ HasLast(Append(tr, call), s)
         /\ LastNamed(Append(tr, call), s) =
              IF Names(call, s) THEN call.values[s[2] - call.first + 1] ELSE LastNamed(tr, s)
<1> DEFINE n == Len(tr)
           tr2 == Append(tr, call)
           last(t) == CHOOSE i \in Named(t, s) : \A j \in Named(t, s) : j <= i
<1>1. /\ Named(tr2, s) = Named(tr, s) \cup (IF Names(call, s) THEN {n + 1} ELSE {})
      /\ \A i \in Named(tr, s) : i \in 1..n /\ tr2[i] = tr[i]
      /\ tr2[n + 1] = call /\ n \in Nat
  BY NamedAppend
<1>2. \A t : LastNamed(t, s) =
        IF Named(t, s) = {} THEN Null ELSE t[last(t)].values[s[2] - t[last(t)].first + 1]
  BY DEF LastNamed, Named
<1> HIDE DEF n, tr2
<1>3. CASE Names(call, s)
  <2>1. n + 1 \in Named(tr2, s) /\ \A j \in Named(tr2, s) : j \in Int /\ j <= n + 1
    BY <1>1, <1>3
  <2>2. last(tr2) = n + 1
    <3>1. last(tr2) \in Named(tr2, s) /\ \A j \in Named(tr2, s) : j <= last(tr2)
      BY <2>1
    <3> HIDE DEF last
    <3> QED  BY <1>1, <2>1, <3>1
  <2>3. LastNamed(tr2, s) = call.values[s[2] - call.first + 1]
    <3> HIDE DEF last
    <3> QED  BY <1>1, <1>2, <2>1, <2>2
  <2> QED  BY <1>3, <2>1, <2>3 DEF HasLast, tr2
<1>4. CASE ~Names(call, s)
  <2>1. Named(tr2, s) = Named(tr, s)
    BY <1>1, <1>4
  <2>2. HasLast(tr2, s)
    BY <2>1 DEF HasLast
  <2>3. CASE Named(tr, s) = {}
    BY <1>2, <1>4, <2>1, <2>2, <2>3 DEF tr2
  <2>4. CASE Named(tr, s) # {}
    <3>1. last(tr) \in Named(tr, s)
      BY <2>4 DEF HasLast
    <3>2. last(tr2) = last(tr)
      BY <2>1
    <3> HIDE DEF last
    <3>3. tr2[last(tr2)] = tr[last(tr)]
      BY <1>1, <3>1, <3>2
    <3>4. LastNamed(tr2, s) = LastNamed(tr, s)
      BY <1>2, <2>1, <2>4, <3>3
    <3> QED  BY <1>4, <2>2, <3>4 DEF tr2
  <2> QED  BY <2>3, <2>4
<1> QED  BY <1>3, <1>4

(* A buffer that is begun or reset has no bindings but old push constants.   *)
LEMMA EmptiedStep ==
  ASSUME RecInv, NEW c \in CommandBuffer, NEW tr \in Seq(Call), NEW rest \in Seq(Call),
         \A s \in Slot : Named(tr, s) = {},
         calls' = [calls EXCEPT ![c] = tr], script' = [script EXCEPT ![c] = rest],
         context' = [context EXCEPT ![c] = Cleared(context[c])], heap' = heap
  PROVE  RecInv'
<1>1. /\ script' \in [CommandBuffer -> Seq(Call)] /\ calls' \in [CommandBuffer -> Seq(Call)]
      /\ DOMAIN context' = CommandBuffer
  BY DEF RecInv, BufferInv
<1>2. ASSUME NEW d \in CommandBuffer, NEW s \in Slot
      PROVE  HasLast(calls'[d], s) /\ AsBound(context'[d], calls'[d], s)
  <2>1. CASE d = c
    <3>1. calls'[d] = tr /\ context'[d] = Cleared(context[c])
      BY <2>1 DEF RecInv, BufferInv
    <3>2. HasLast(tr, s) /\ LastNamed(tr, s) = Null
      BY DEF HasLast, LastNamed, Named
    <3>3. Cleared(context[c])[s] = Null \/ s[1] = "push"
      BY DEF Cleared
    <3> QED  BY <3>1, <3>2, <3>3 DEF AsBound
  <2>2. CASE d # c
    <3>1. calls'[d] = calls[d] /\ context'[d] = context[d]
      BY <2>2 DEF RecInv, BufferInv
    <3> QED  BY <3>1 DEF RecInv, BufferInv
  <2> QED  BY <2>1, <2>2
<1>3. BufferInv'
  BY <1>1, <1>2 DEF BufferInv
<1>4. HeapInv'
  BY DEF RecInv, HeapInv
<1> QED  BY <1>3, <1>4 DEF RecInv

(* A call, the slots that it binds, and the histories.                       *)
LEMMA CallStep ==
  ASSUME RecInv, NEW c \in CommandBuffer, NEW call \in Call, NEW rest \in Seq(Call),
         calls' = [calls EXCEPT ![c] = Append(@, call)],
         script' = [script EXCEPT ![c] = rest],
         \/ call.op # "bind" /\ context' = context
         \/ call.op = "bind" /\ context' = [context EXCEPT ![c] = Bound(@, call)]
  PROVE  BufferInv'
<1>1. /\ calls[c] \in Seq(Call) /\ DOMAIN context = CommandBuffer
      /\ Append(calls[c], call) \in Seq(Call)
  BY DEF RecInv, BufferInv
<1>2. /\ script' \in [CommandBuffer -> Seq(Call)] /\ calls' \in [CommandBuffer -> Seq(Call)]
      /\ DOMAIN context' = CommandBuffer /\ calls'[c] = Append(calls[c], call)
  BY <1>1 DEF RecInv, BufferInv
<1>3. ASSUME NEW s \in Slot
      PROVE  HasLast(calls'[c], s) /\ AsBound(context'[c], calls'[c], s)
  <2>1. HasLast(calls[c], s) /\ AsBound(context[c], calls[c], s)
    BY DEF RecInv, BufferInv
  <2>2. /\ HasLast(calls'[c], s)
        /\ LastNamed(calls'[c], s) = IF Names(call, s)
                                     THEN call.values[s[2] - call.first + 1]
                                     ELSE LastNamed(calls[c], s)
    BY <1>1, <1>2, <2>1, LastOfAppend
  <2>3. CASE call.op # "bind"
    <3>1. ~Names(call, s) /\ context' = context
      BY <2>3 DEF Names
    <3> QED  BY <2>1, <2>2, <3>1 DEF AsBound
  <2>4. CASE call.op = "bind"
    <3>1. context'[c] = Bound(context[c], call)
      BY <1>1, <2>4
    <3>2. context'[c][s] = IF Names(call, s) THEN call.values[s[2] - call.first + 1]
                           ELSE context[c][s]
      BY <2>4, <3>1 DEF Bound, Names
    <3> QED  BY <2>1, <2>2, <3>2 DEF AsBound
  <2> QED  BY <2>3, <2>4
<1>4. ASSUME NEW d \in CommandBuffer, d # c, NEW s \in Slot
      PROVE  HasLast(calls'[d], s) /\ AsBound(context'[d], calls'[d], s)
  <2>1. calls'[d] = calls[d] /\ context'[d] = context[d]
    BY <1>1, <1>4 DEF RecInv, BufferInv
  <2> QED  BY <2>1 DEF RecInv, BufferInv
<1> QED  BY <1>2, <1>3, <1>4 DEF BufferInv

(* The call at the head of a script.                                         *)
LEMMA CallingTypes ==
  ASSUME RecInv, NEW c \in CommandBuffer, NEW op, Calling(c, op)
  PROVE  /\ Head(script[c]) \in Call /\ Head(script[c]).op = op
         /\ Tail(script[c]) \in Seq(Call)
         /\ script' = [script EXCEPT ![c] = Tail(script[c])]
         /\ calls' = [calls EXCEPT ![c] = Append(@, Head(script[c]))]
<1>1. script[c] \in Seq(Call) /\ script[c] # <<>>
  BY DEF RecInv, BufferInv, Calling
<1>2. Head(script[c]) \in Call /\ Tail(script[c]) \in Seq(Call)
  BY <1>1, HeadTailProperties
<1> QED  BY <1>2 DEF Calling

(* A call that binds nothing.                                                *)
LEMMA PlainCall ==
  ASSUME RecInv, NEW c \in CommandBuffer, NEW op, op # "bind", Calling(c, op),
         context' = context
  PROVE  BufferInv'
<1> DEFINE call == Head(script[c])
<1>1. call \in Call /\ call.op # "bind" /\ Tail(script[c]) \in Seq(Call)
  BY CallingTypes
<1>2. /\ script' = [script EXCEPT ![c] = Tail(script[c])]
      /\ calls' = [calls EXCEPT ![c] = Append(@, call)]
  BY CallingTypes
<1> HIDE DEF call
<1> QED  BY <1>1, <1>2, CallStep

(* A new command has what its buffer has bound, or is no draw or dispatch.   *)
LEMMA PushStep ==
  ASSUME RecInv, NEW c \in CommandBuffer, NEW type, NEW captured, NEW i,
         type \in {"draw", "drawIndexed", "dispatch"} => captured = context[c],
         Push(c, type, captured, i)
  PROVE  HeapInv'
<1> DEFINE r == [type |-> type, context |-> captured, instance |-> i, calls |-> calls[c]]
<1>1. heap' = Append(heap, r) /\ CapturedRight(r)
  BY DEF Push, RecInv, BufferInv, CapturedRight
<1>2. PICK S : heap \in Seq(S)
  BY DEF RecInv, HeapInv
<1>3. \A k \in DOMAIN heap : CapturedRight(heap[k])
  BY DEF RecInv, HeapInv
<1> HIDE DEF r
<1>4. heap \in Seq(S \cup {r})
  BY <1>2, SeqMonotonic, S \subseteq S \cup {r}
<1>5. heap' \in Seq(S \cup {r})
  BY <1>1, <1>4
<1>6. \A k \in DOMAIN heap' : heap'[k] = r \/ (k \in DOMAIN heap /\ heap'[k] = heap[k])
  BY <1>1, <1>4
<1>7. \A k \in DOMAIN heap' : CapturedRight(heap'[k])
  BY <1>1, <1>3, <1>6
<1> QED  BY <1>5, <1>7 DEF HeapInv

(* The execution of a secondary buffer leaves the bindings of its commands.  *)
LEMMA RetargetStep ==
  ASSUME RecInv, NEW cmds, NEW i, heap' = Retargeted(cmds, i)
  PROVE  HeapInv'
<1>1. PICK S : heap \in Seq(S)
  BY DEF RecInv, HeapInv
<1> DEFINE e(k) == IF k \in cmds /\ heap[k].type \in {"draw", "drawIndexed"}
                   THEN [heap[k] EXCEPT !.instance = i] ELSE heap[k]
           T == {e(k) : k \in 1..Len(heap)}
<1>2. Len(heap) \in Nat /\ DOMAIN heap = 1..Len(heap) /\ heap' = [k \in 1..Len(heap) |-> e(k)]
  BY <1>1 DEF Retargeted
<1>3. \A k \in 1..Len(heap) : e(k) \in T
  OBVIOUS
<1>4. heap' \in [1..Len(heap) -> T]
  <2> HIDE DEF e, T
  <2> QED  BY <1>2, <1>3
<1>5. heap' \in Seq(T)
  <2>1. heap' \in UNION {[1..n -> T] : n \in Nat}
    BY <1>2, <1>4, Zenon
  <2> QED  BY <2>1, SeqDef, Zenon
<1>6. ASSUME NEW k \in DOMAIN heap' PROVE CapturedRight(heap'[k])
  <2>1. k \in DOMAIN heap /\ heap'[k] = e(k) /\ CapturedRight(heap[k])
    BY <1>2 DEF RecInv, HeapInv
  <2>2. CASE e(k) = heap[k]
    BY <2>1, <2>2
  <2>3. CASE e(k) = [heap[k] EXCEPT !.instance = i]
    <3>1. /\ heap'[k].type = heap[k].type /\ heap'[k].context = heap[k].context
          /\ heap'[k].calls = heap[k].calls
      BY <2>1, <2>3
    <3> QED  BY <2>1, <3>1 DEF CapturedRight
  <2> QED  BY <2>2, <2>3
<1> QED  BY <1>5, <1>6 DEF HeapInv

(* Steps that record nothing.                                                *)
LEMMA NothingRecorded ==
  ASSUME RecInv, UNCHANGED <<script, calls, context, heap>>
  PROVE  RecInv'
BY DEF RecInv, BufferInv, HeapInv

(* vkBeginCommandBuffer begins a buffer again.                               *)
LEMMA BeginStep ==
  ASSUME RecInv, NEW c \in CommandBuffer, Begin(c)
  PROVE  RecInv'
<1>1. PICK t \in Scripts[c] :
        /\ script' = [script EXCEPT ![c] = Tail(t)] /\ calls' = [calls EXCEPT ![c] = <<t[1]>>]
  BY DEF Begin
<1>2. t \in Seq(Call) /\ t # <<>> /\ t[1].op \in {"begin", "continue"}
  BY ScriptAssumption
<1>3. t[1] \in Call /\ Tail(t) \in Seq(Call)
  BY <1>2, HeadTailProperties
<1>4. <<t[1]>> \in Seq(Call) /\ \A s \in Slot : Named(<<t[1]>>, s) = {}
  <2>1. <<t[1]>> \in Seq(Call) /\ DOMAIN <<t[1]>> = {1} /\ <<t[1]>>[1] = t[1]
    BY <1>3
  <2>2. \A s : ~Names(t[1], s)
    BY <1>2 DEF Names
  <2> QED  BY <2>1, <2>2 DEF Named
<1>5. context' = [context EXCEPT ![c] = Cleared(context[c])] /\ heap' = heap
  BY DEF Begin, Emptied, RecInv, BufferInv
<1> QED  BY <1>1, <1>3, <1>4, <1>5, EmptiedStep

(* vkResetCommandBuffer empties it.                                          *)
LEMMA ResetStep ==
  ASSUME RecInv, NEW c \in CommandBuffer, Reset(c)
  PROVE  RecInv'
<1>1. /\ script' = [script EXCEPT ![c] = <<>>] /\ calls' = [calls EXCEPT ![c] = <<>>]
      /\ context' = [context EXCEPT ![c] = Cleared(context[c])] /\ heap' = heap
  BY DEF Reset, Emptied, RecInv, BufferInv
<1>2. <<>> \in Seq(Call) /\ \A s \in Slot : Named(<<>>, s) = {}
  BY DEF Named
<1> QED  BY <1>1, <1>2, EmptiedStep

(* The calls that bind.                                                      *)
LEMMA BindStep ==
  ASSUME RecInv, NEW c \in CommandBuffer, NEW kinds, Bind(c, kinds)
  PROVE  RecInv'
<1>1. Calling(c, "bind") /\ context' = [context EXCEPT ![c] = Bound(@, Head(script[c]))]
      /\ heap' = heap
  BY DEF Bind, Recorded
<1>2. BufferInv'
  BY <1>1, CallingTypes, CallStep
<1> QED  BY <1>1, <1>2 DEF RecInv, HeapInv

(* A call that records a command: draws and dispatches with their bindings.  *)
LEMMA CommandStep ==
  ASSUME RecInv, NEW c \in CommandBuffer, NEW op, op # "bind", Calling(c, op),
         context' = context, NEW type, NEW captured, NEW i, Push(c, type, captured, i),
         type \in {"draw", "drawIndexed", "dispatch"} => captured = context[c]
  PROVE  RecInv'
BY PlainCall, PushStep DEF RecInv

(* The calls that record a command.                                          *)
LEMMA RecordStep ==
  ASSUME RecInv, NEW c \in CommandBuffer, Record(c)
  PROVE  RecInv'
<1>1. CASE Begin(c) \/ Reset(c)
  BY <1>1, BeginStep, ResetStep
<1>2. CASE End(c) \/ ClearWithoutInstance(c)
  BY <1>2, NothingRecorded DEF End, ClearWithoutInstance, bufferVars
<1>3. CASE \/ BindPipeline(c) \/ BindDescriptorSets(c) \/ PushConstants(c)
           \/ BindVertexBuffers(c) \/ BindIndexBuffer(c)
  BY <1>3, BindStep
     DEF BindPipeline, BindDescriptorSets, PushConstants, BindVertexBuffers, BindIndexBuffer
<1>4. CASE Dispatch(c)
  BY <1>4, CommandStep DEF Dispatch, Recorded
<1>5. CASE Draw(c)
  BY <1>5, CommandStep DEF Draw, Recorded
<1>6. CASE BeginRenderPass(c)
  BY <1>6, CommandStep DEF BeginRenderPass, Recorded
<1>7. CASE NextSubpass(c)
  BY <1>7, CommandStep DEF NextSubpass, Recorded
<1>8. CASE EndRenderPass(c)
  BY <1>8, CommandStep DEF EndRenderPass, Recorded
<1>9. CASE ClearAttachments(c)
  BY <1>9, CommandStep DEF ClearAttachments, Recorded
<1> QED  BY <1>1, <1>2, <1>3, <1>4, <1>5, <1>6, <1>7, <1>8, <1>9 DEF Record

(* vkCmdExecuteCommands.                                                     *)
LEMMA ExecuteStep ==
  ASSUME RecInv, NEW p \in Primary, NEW s \in Secondary, ExecuteCommands(p, s)
  PROVE  RecInv'
<1>1. p \in CommandBuffer
  BY DEF CommandBuffer
<1>2. BufferInv'
  BY <1>1, PlainCall DEF ExecuteCommands
<1>3. HeapInv'
  BY RetargetStep DEF ExecuteCommands
<1> QED  BY <1>2, <1>3 DEF RecInv

(* The commands in execution record nothing.                                 *)
LEMMA RunStep ==
  ASSUME RecInv, Run
  PROVE  RecInv'
<1>1. UNCHANGED <<script, calls, context, heap>>
  BY DEF Run, RunBeginRenderPass, RunNextSubpass, RunEndRenderPass, RunDraw, RunDispatch,
         Popped, bufferVars
<1> QED  BY <1>1, NothingRecorded

(* The invariant of recording.                                               *)
LEMMA RecInvHolds == Spec => []RecInv
<1>1. Init => RecInv
  <2> SUFFICES ASSUME Init PROVE RecInv
    OBVIOUS
  <2>1. /\ script = [c \in CommandBuffer |-> <<>>] /\ calls = [c \in CommandBuffer |-> <<>>]
        /\ context = [c \in CommandBuffer |-> Empty] /\ heap = <<>>
    BY DEF Init
  <2>2. \A s \in Slot : /\ HasLast(<<>>, s) /\ LastNamed(<<>>, s) = Null /\ Empty[s] = Null
    BY DEF HasLast, LastNamed, Named, Empty
  <2>3. BufferInv
    BY <2>1, <2>2 DEF BufferInv, AsBound
  <2>4. HeapInv
    BY <2>1, EmptySeq DEF HeapInv
  <2> QED  BY <2>3, <2>4 DEF RecInv
<1>2. RecInv /\ [Next]_vars => RecInv'
  <2> SUFFICES ASSUME RecInv, [Next]_vars PROVE RecInv'
    OBVIOUS
  <2>1. ASSUME NEW p \in Primary, Submit(p) PROVE RecInv'
    BY <2>1, NothingRecorded DEF Submit, bufferVars
  <2>2. CASE UNCHANGED vars
    BY <2>2, NothingRecorded DEF vars, bufferVars
  <2> QED  BY <2>1, <2>2, RecordStep, ExecuteStep, RunStep DEF Next
<1> QED  BY <1>1, <1>2, PTL DEF Spec

(* A draw or a dispatch keeps what was bound when it was recorded, through   *)
(* whatever is bound, reset, recorded again or executed later.               *)
THEOREM CapturesHold == Spec => []CapturedAsBound
<1>1. RecInv => CapturedAsBound
  BY DEF RecInv, HeapInv, CapturedRight, AsBound, CapturedAsBound, Command
<1> QED  BY <1>1, RecInvHolds, PTL

-------------------------------------------------------------------------------
(****************************************************************************)
(* That a draw runs in the subpass in which it was recorded, and that the   *)
(* images show what the commands executed say.                              *)
(*                                                                          *)
(* Every command starts where a renderer may be, outside render passes or in*)
(* a subpass of an instance, and leads somewhere.  The commands of a primary*)
(* buffer, and so those in the queue, form a path of such places that begins*)
(* and ends outside render passes; the renderer is where the queue starts.  *)
(****************************************************************************)

(* The types of everything that is recorded and executed.                    *)
Bindings == [Slot -> Value \cup {Null}]
CommandRecord ==
  [type : {"draw", "drawIndexed", "dispatch", "beginRenderPass", "nextSubpass",
           "endRenderPass", "clearAttachments"},
   context : Bindings \cup {Null}, instance : Nat \cup {Null}, calls : Seq(Call)]
InstanceRecord ==
  [pass : Passes, Rendering : BOOLEAN, SubpassIndex : Nat,
   AttachmentsInitialized : SUBSET Image]

Handles == 1..Len(instances) \cup {Null}
StateInv ==
  /\ state \in [CommandBuffer -> {"initial", "recording", "executable", "invalid"}]
  /\ context \in [CommandBuffer -> Bindings]
  /\ executes \in [CommandBuffer -> SUBSET Secondary]
CommandsInv ==
  /\ heap \in Seq(CommandRecord) /\ instances \in Seq(InstanceRecord)
  /\ commands \in [CommandBuffer -> Seq(1..Len(heap))]
  /\ instance \in [CommandBuffer -> Handles]
  /\ \A k \in 1..Len(heap) : heap[k].instance \in Handles
DeviceInv ==
  /\ queue \in Seq([cmd : 1..Len(heap), of : Primary])
  /\ content \in [Image -> Seq(1..Len(heap))]
  /\ ran \in Seq(1..Len(heap))
TypeInv == StateInv /\ CommandsInv /\ DeviceInv

(* What is typed by the commands and instances there are stays typed when    *)
(* there are more.                                                           *)
LEMMA TypesGrow ==
  ASSUME CommandsInv, DeviceInv, heap' \in Seq(CommandRecord),
         instances' \in Seq(InstanceRecord), Len(heap') >= Len(heap),
         Len(instances') >= Len(instances)
  PROVE  /\ Len(heap) \in Nat /\ Len(heap') \in Nat
         /\ Len(instances) \in Nat /\ Len(instances') \in Nat
         /\ 1..Len(heap) \subseteq 1..Len(heap')
         /\ Handles \subseteq Handles'
         /\ commands \in [CommandBuffer -> Seq(1..Len(heap'))]
         /\ instance \in [CommandBuffer -> Handles']
         /\ queue \in Seq([cmd : 1..Len(heap'), of : Primary])
         /\ content \in [Image -> Seq(1..Len(heap'))]
         /\ ran \in Seq(1..Len(heap'))
<1>1. /\ Len(heap) \in Nat /\ Len(heap') \in Nat
      /\ Len(instances) \in Nat /\ Len(instances') \in Nat
  BY DEF CommandsInv
<1>2. 1..Len(heap) \subseteq 1..Len(heap') /\ 1..Len(instances) \subseteq 1..Len(instances')
  BY <1>1
<1>3. Handles \subseteq Handles'
  BY <1>2 DEF Handles
<1>4. Seq(1..Len(heap)) \subseteq Seq(1..Len(heap'))
  BY <1>2, SeqMonotonic
<1>5. [cmd : 1..Len(heap), of : Primary] \subseteq [cmd : 1..Len(heap'), of : Primary]
  BY <1>2
<1>6. Seq([cmd : 1..Len(heap), of : Primary]) \subseteq Seq([cmd : 1..Len(heap'), of : Primary])
  BY <1>5, SeqMonotonic
<1>7. /\ commands \in [CommandBuffer -> Seq(1..Len(heap'))]
      /\ content \in [Image -> Seq(1..Len(heap'))]
  BY <1>4 DEF CommandsInv, DeviceInv
<1>8. instance \in [CommandBuffer -> Handles']
  BY <1>3 DEF CommandsInv
<1> QED  BY <1>1, <1>2, <1>3, <1>4, <1>6, <1>7, <1>8 DEF DeviceInv

(* A call that binds gives values to slots.                                  *)
LEMMA BoundType ==
  ASSUME NEW ctx \in Bindings, NEW b \in Call, b.op = "bind"
  PROVE  Bound(ctx, b) \in Bindings
<1>1. b \in Binds
  BY DEF Binds
<1>2. \A i \in DOMAIN b.values : b.values[i] \in Value
  BY <1>1 DEF Value
<1> QED  BY <1>2 DEF Bound, Bindings

(* A buffer that is begun or reset.                                          *)
LEMMA EmptiedTypes ==
  ASSUME TypeInv, NEW c \in CommandBuffer, NEW next \in {"initial", "recording"},
         Emptied(c, next)
  PROVE  TypeInv'
<1>1. Cleared(context[c]) \in Bindings
  BY DEF Cleared, Bindings, TypeInv, StateInv
<1>2. StateInv'
  BY <1>1 DEF Emptied, TypeInv, StateInv
<1>3. heap' = heap /\ instances' = instances
  BY DEF Emptied
<1>4. <<>> \in Seq(1..Len(heap)) /\ Null \in Handles
  BY DEF Handles
<1>5. CommandsInv'
  <2>1. Handles' = Handles
    BY <1>3 DEF Handles
  <2>2. commands' \in [CommandBuffer -> Seq(1..Len(heap))]
    BY <1>4 DEF Emptied, TypeInv, CommandsInv
  <2>3. instance' \in [CommandBuffer -> Handles]
    BY <1>4 DEF Emptied, TypeInv, CommandsInv
  <2> QED  BY <1>3, <2>1, <2>2, <2>3 DEF TypeInv, CommandsInv
<1>6. DeviceInv'
  BY <1>3 DEF Emptied, TypeInv, DeviceInv, deviceVars
<1> QED  BY <1>2, <1>5, <1>6 DEF TypeInv

(* A call that records a command.                                            *)
LEMMA PushTypes ==
  ASSUME TypeInv, RecInv, NEW c \in CommandBuffer, NEW op, Recorded(c, op), NEW type,
         NEW captured, NEW i, Push(c, type, captured, i),
         [type |-> type, context |-> captured, instance |-> i, calls |-> calls[c]]
           \in CommandRecord,
         context' = context, instances' \in Seq(InstanceRecord),
         Len(instances') >= Len(instances), i \in Handles',
         instance' \in [CommandBuffer -> Handles']
  PROVE  TypeInv'
<1> DEFINE r == [type |-> type, context |-> captured, instance |-> i, calls |-> calls[c]]
<1>1. /\ r \in CommandRecord /\ heap \in Seq(CommandRecord)
      /\ heap' = Append(heap, r) /\ r.instance = i
  BY DEF Push, TypeInv, CommandsInv
<1> HIDE DEF r
<1>2. heap' \in Seq(CommandRecord) /\ Len(heap') = Len(heap) + 1 /\ Len(heap) \in Nat
      /\ heap'[Len(heap) + 1] = r /\ \A k \in 1..Len(heap) : heap'[k] = heap[k]
  BY <1>1
<1>3. /\ Handles \subseteq Handles'
      /\ commands \in [CommandBuffer -> Seq(1..Len(heap'))]
      /\ queue \in Seq([cmd : 1..Len(heap'), of : Primary])
      /\ content \in [Image -> Seq(1..Len(heap'))]
      /\ ran \in Seq(1..Len(heap'))
  BY <1>2, TypesGrow DEF TypeInv
<1>4. commands' \in [CommandBuffer -> Seq(1..Len(heap'))]
  <2>1. commands[c] \in Seq(1..Len(heap')) /\ Len(heap) + 1 \in 1..Len(heap')
    BY <1>2, <1>3
  <2>2. Append(commands[c], Len(heap) + 1) \in Seq(1..Len(heap'))
    BY <2>1
  <2>3. commands' = [commands EXCEPT ![c] = Append(commands[c], Len(heap) + 1)]
    BY DEF Push
  <2> QED  BY <1>3, <2>2, <2>3
<1>5. \A k \in 1..Len(heap') : heap'[k].instance \in Handles'
  <2>1. \A k \in 1..Len(heap') : k \in 1..Len(heap) \/ k = Len(heap) + 1
    BY <1>2
  <2>2. \A k \in 1..Len(heap) : heap[k].instance \in Handles
    BY DEF TypeInv, CommandsInv
  <2> QED  BY <1>1, <1>2, <1>3, <2>1, <2>2
<1>6. CommandsInv'
  BY <1>2, <1>4, <1>5 DEF CommandsInv
<1>7. StateInv'
  BY DEF Recorded, TypeInv, StateInv
<1>8. DeviceInv'
  BY <1>3 DEF Recorded, deviceVars, DeviceInv
<1> QED  BY <1>6, <1>7, <1>8 DEF TypeInv

(* The draws of an executed buffer get another instance and stay what they   *)
(* are.                                                                      *)
LEMMA RetargetTypes ==
  ASSUME heap \in Seq(CommandRecord), NEW cmds, NEW i \in Nat \cup {Null}
  PROVE  /\ Retargeted(cmds, i) \in Seq(CommandRecord)
         /\ Len(Retargeted(cmds, i)) = Len(heap) /\ Len(heap) \in Nat
         /\ \A k \in 1..Len(heap) :
              Retargeted(cmds, i)[k] =
                IF k \in cmds /\ heap[k].type \in {"draw", "drawIndexed"}
                THEN [heap[k] EXCEPT !.instance = i] ELSE heap[k]
<1> DEFINE h2 == Retargeted(cmds, i)
           n == Len(heap)
<1>1. /\ n \in Nat /\ DOMAIN heap = 1..n
      /\ \A k \in 1..n : heap[k] \in CommandRecord
  OBVIOUS
<1>2. h2 = [k \in 1..n |-> IF k \in cmds /\ heap[k].type \in {"draw", "drawIndexed"}
                           THEN [heap[k] EXCEPT !.instance = i] ELSE heap[k]]
  BY <1>1 DEF Retargeted
<1>3. \A k \in 1..n : [heap[k] EXCEPT !.instance = i] \in CommandRecord
  BY <1>1 DEF CommandRecord
<1>4. h2 \in [1..n -> CommandRecord]
  <2> HIDE DEF n, h2
  <2> QED  BY <1>1, <1>2, <1>3
<1>5. h2 \in Seq(CommandRecord)
  <2> HIDE DEF n, h2
  <2>1. h2 \in UNION {[1..m -> CommandRecord] : m \in Nat}
    BY <1>1, <1>4, Zenon
  <2> QED  BY <2>1, SeqDef, Zenon
<1>6. Len(h2) = n
  <2> HIDE DEF n, h2
  <2> QED  BY <1>1, <1>4, <1>5, LenProperties
<1> QED  BY <1>1, <1>2, <1>5, <1>6

(* The calls, whether or not they record a command.                          *)
LEMMA RecordTypes ==
  ASSUME TypeInv, RecInv, NEW c \in CommandBuffer, Record(c)
  PROVE  TypeInv'
<1>1. /\ context[c] \in Bindings /\ calls[c] \in Seq(Call)
      /\ instance[c] \in Handles /\ Handles \subseteq Nat \cup {Null}
      /\ instances \in Seq(InstanceRecord) /\ Len(instances) \in Nat
      /\ instance \in [CommandBuffer -> Handles]
  BY DEF TypeInv, StateInv, CommandsInv, RecInv, BufferInv, Handles
<1>2. CASE Begin(c) \/ Reset(c)
  BY <1>2, EmptiedTypes DEF Begin, Reset
<1>3. CASE End(c)
  BY <1>3 DEF End, TypeInv, StateInv, CommandsInv, DeviceInv, deviceVars, Handles
<1>4. CASE ClearWithoutInstance(c)
  BY <1>4 DEF ClearWithoutInstance, TypeInv, StateInv, CommandsInv, DeviceInv, bufferVars,
              deviceVars, Handles
<1>5. ASSUME NEW kinds, Bind(c, kinds) PROVE TypeInv'
  <2>1. Bound(context[c], Head(script[c])) \in Bindings
    BY <1>1, <1>5, CallingTypes, BoundType DEF Bind, Recorded
  <2>2. /\ context' = [context EXCEPT ![c] = Bound(@, Head(script[c]))]
        /\ UNCHANGED <<state, executes, instance, commands, heap, instances, queue, content, ran>>
    BY <1>5 DEF Bind, Recorded, deviceVars
  <2>3. StateInv'
    BY <2>1, <2>2 DEF TypeInv, StateInv
  <2>4. CommandsInv' /\ DeviceInv'
    BY <2>2 DEF TypeInv, CommandsInv, DeviceInv, Handles
  <2> QED  BY <2>3, <2>4 DEF TypeInv
<1>6. CASE \/ BindPipeline(c) \/ BindDescriptorSets(c) \/ PushConstants(c)
           \/ BindVertexBuffers(c) \/ BindIndexBuffer(c)
  BY <1>5, <1>6
     DEF BindPipeline, BindDescriptorSets, PushConstants, BindVertexBuffers, BindIndexBuffer
<1>7. ASSUME NEW op, Recorded(c, op), context' = context, UNCHANGED <<instance, instances>>,
             NEW type \in {"draw", "drawIndexed", "dispatch", "nextSubpass", "clearAttachments"},
             NEW captured \in Bindings \cup {Null}, NEW i \in Handles, Push(c, type, captured, i)
      PROVE  TypeInv'
  <2>1. [type |-> type, context |-> captured, instance |-> i, calls |-> calls[c]] \in CommandRecord
    BY <1>1, <1>7 DEF CommandRecord
  <2>2. Handles' = Handles
    BY <1>7 DEF Handles
  <2> QED  BY <1>1, <1>7, <2>1, <2>2, PushTypes
<1>8. CASE Dispatch(c)
  BY <1>1, <1>7, <1>8 DEF Dispatch, Handles
<1>9. CASE Draw(c)
  BY <1>1, <1>7, <1>9 DEF Draw
<1>10. CASE NextSubpass(c)
  BY <1>1, <1>7, <1>10 DEF NextSubpass
<1>11. CASE ClearAttachments(c)
  BY <1>1, <1>7, <1>11 DEF ClearAttachments
<1>12. CASE BeginRenderPass(c)
  <2> DEFINE call == Head(script[c])
             new == [pass |-> call.pass, Rendering |-> FALSE, SubpassIndex |-> 0,
                     AttachmentsInitialized |-> {}]
             i == Len(instances) + 1
  <2>1. call \in Call /\ call.op = "beginRenderPass"
    BY <1>12, CallingTypes DEF BeginRenderPass, Recorded
  <2>2. call.pass \in Passes
    BY <2>1 DEF Passes
  <2>3. new \in InstanceRecord
    BY <2>2 DEF InstanceRecord
  <2>4. instances' = Append(instances, new)
    BY <1>12 DEF BeginRenderPass
  <2> HIDE DEF new
  <2>5. instances' \in Seq(InstanceRecord) /\ Len(instances') = i
    BY <1>1, <2>3, <2>4
  <2>6. i \in Handles' /\ Handles \subseteq Handles' /\ i \in Nat
    BY <1>1, <2>5 DEF Handles
  <2>7. instance' \in [CommandBuffer -> Handles']
    BY <1>1, <1>12, <2>6 DEF BeginRenderPass
  <2>8. [type |-> "beginRenderPass", context |-> Null, instance |-> i, calls |-> calls[c]]
          \in CommandRecord
    BY <1>1, <2>6 DEF CommandRecord
  <2>9. /\ Recorded(c, "beginRenderPass") /\ context' = context
        /\ Push(c, "beginRenderPass", Null, i)
    BY <1>12 DEF BeginRenderPass
  <2> QED  BY <1>1, <2>5, <2>6, <2>7, <2>8, <2>9, PushTypes
<1>13. CASE EndRenderPass(c)
  <2>1. /\ Recorded(c, "endRenderPass") /\ UNCHANGED <<context, instances>>
        /\ Push(c, "endRenderPass", Null, instance[c])
        /\ instance' = [instance EXCEPT ![c] = Null]
    BY <1>13 DEF EndRenderPass
  <2>2. Handles' = Handles /\ Null \in Handles
    BY <2>1 DEF Handles
  <2>3. [type |-> "endRenderPass", context |-> Null, instance |-> instance[c],
         calls |-> calls[c]] \in CommandRecord
    BY <1>1 DEF CommandRecord
  <2> QED  BY <1>1, <2>1, <2>2, <2>3, PushTypes
<1> QED  BY <1>2, <1>3, <1>4, <1>6, <1>8, <1>9, <1>10, <1>11, <1>12, <1>13 DEF Record

(* vkCmdExecuteCommands.                                                     *)
LEMMA ExecuteTypes ==
  ASSUME TypeInv, NEW p \in Primary, NEW s \in Secondary, ExecuteCommands(p, s)
  PROVE  TypeInv'
<1> DEFINE cmds == {commands[s][i] : i \in DOMAIN commands[s]}
           n == Len(heap)
<1>1. p \in CommandBuffer /\ s \in CommandBuffer
  BY DEF CommandBuffer
<1>2. /\ heap' = Retargeted(cmds, instance[p]) /\ instances' = instances
      /\ commands' = [commands EXCEPT ![p] = @ \o commands[s]]
      /\ executes' = [executes EXCEPT ![p] = @ \cup {s}]
      /\ UNCHANGED <<state, context, instance, queue, content, ran>>
  BY DEF ExecuteCommands, deviceVars
<1>3. instance[p] \in Handles /\ instance[p] \in Nat \cup {Null} /\ Handles' = Handles
      /\ heap \in Seq(CommandRecord)
  BY <1>1, <1>2 DEF TypeInv, CommandsInv, Handles
<1>4. /\ heap' \in Seq(CommandRecord) /\ Len(heap') = n /\ n \in Nat
      /\ \A k \in 1..n : heap'[k] = IF k \in cmds /\ heap[k].type \in {"draw", "drawIndexed"}
                                    THEN [heap[k] EXCEPT !.instance = instance[p]] ELSE heap[k]
  <2> HIDE DEF cmds
  <2> QED  BY <1>2, <1>3, RetargetTypes
<1>5. commands' \in [CommandBuffer -> Seq(1..n)]
  <2>1. commands \in [CommandBuffer -> Seq(1..n)]
    BY DEF TypeInv, CommandsInv
  <2>2. commands[p] \o commands[s] \in Seq(1..n)
    BY <1>1, <2>1
  <2> QED  BY <1>2, <2>1, <2>2
<1>6. \A k \in 1..n : heap'[k].instance \in Handles
  <2> HIDE DEF cmds, n
  <2> SUFFICES ASSUME NEW k \in 1..n PROVE heap'[k].instance \in Handles
    OBVIOUS
  <2>1. heap[k] \in CommandRecord /\ heap[k].instance \in Handles
    BY <1>3 DEF n, TypeInv, CommandsInv
  <2>2. [heap[k] EXCEPT !.instance = instance[p]].instance = instance[p]
    BY <2>1 DEF CommandRecord
  <2> QED  BY <1>3, <1>4, <2>1, <2>2
<1>7. CommandsInv'
  BY <1>2, <1>3, <1>4, <1>5, <1>6 DEF TypeInv, CommandsInv
<1>8. StateInv'
  BY <1>2 DEF TypeInv, StateInv
<1>9. DeviceInv'
  BY <1>2, <1>4 DEF TypeInv, DeviceInv
<1> QED  BY <1>7, <1>8, <1>9 DEF TypeInv

(* What vkQueueSubmit puts into the queue, as commands and of what buffer.   *)
LEMMA Submission ==
  ASSUME TypeInv, NEW p \in Primary,
         NEW new, new = [i \in DOMAIN commands[p] |-> [cmd |-> commands[p][i], of |-> p]]
  PROVE  /\ commands[p] \in Seq(1..Len(heap))
         /\ new \in Seq([cmd : 1..Len(heap), of : Primary]) /\ Len(new) = Len(commands[p])
         /\ \A i \in 1..Len(commands[p]) : new[i].cmd = commands[p][i] /\ new[i].of = p
<1> DEFINE n == Len(commands[p])
           E == [cmd : 1..Len(heap), of : Primary]
<1>1. commands[p] \in Seq(1..Len(heap))
  BY DEF TypeInv, CommandsInv, CommandBuffer
<1>2. n \in Nat /\ DOMAIN commands[p] = 1..n /\ \A i \in 1..n : commands[p][i] \in 1..Len(heap)
  BY <1>1
<1> HIDE DEF n
<1>3. new = [i \in 1..n |-> [cmd |-> commands[p][i], of |-> p]]
  BY <1>2
<1>4. new \in [1..n -> E]
  BY <1>2, <1>3
<1> HIDE DEF E
<1>5. new \in Seq(E)
  <2>1. new \in UNION {[1..m -> E] : m \in Nat}
    BY <1>2, <1>4, Zenon
  <2> QED  BY <2>1, SeqDef, Zenon
<1>6. Len(new) = n
  BY <1>2, <1>4, <1>5, LenProperties
<1>7. ASSUME NEW i \in 1..n PROVE new[i].cmd = commands[p][i] /\ new[i].of = p
  <2>1. new[i] = [cmd |-> commands[p][i], of |-> p]
    BY <1>3
  <2> QED  BY <2>1
<1> QED  BY <1>1, <1>5, <1>6, <1>7 DEF n, E

(* vkQueueSubmit.                                                            *)
LEMMA SubmitTypes ==
  ASSUME TypeInv, NEW p \in Primary, Submit(p)
  PROVE  TypeInv'
<1> DEFINE new == [i \in DOMAIN commands[p] |-> [cmd |-> commands[p][i], of |-> p]]
           E == [cmd : 1..Len(heap), of : Primary]
<1>1. new \in Seq(E)
  BY Submission
<1>2. queue' = queue \o new /\ queue \in Seq(E)
  BY DEF Submit, TypeInv, DeviceInv
<1>3. queue' \in Seq(E)
  <2> HIDE DEF new, E
  <2> QED  BY <1>1, <1>2
<1>4. UNCHANGED <<state, context, executes, heap, instances, commands, instance, content, ran>>
  BY DEF Submit, bufferVars
<1>5. StateInv' /\ CommandsInv'
  BY <1>4 DEF TypeInv, StateInv, CommandsInv, Handles
<1>6. DeviceInv'
  BY <1>3, <1>4 DEF TypeInv, DeviceInv
<1> QED  BY <1>5, <1>6 DEF TypeInv

(* Where a renderer is: in a subpass of a render pass instance, or outside   *)
(* render passes.  A command is executed at one place and leads to another.  *)
Outside == <<0, 0>>
At(i, n) == <<i, n>>
StartsAt(r) == IF r.type \in {"beginRenderPass", "dispatch"} THEN Outside
               ELSE At(r.instance, SubpassOf(r.calls))
LeadsTo(r) ==
  CASE r.type \in {"dispatch", "endRenderPass"} -> Outside
    [] r.type = "beginRenderPass" -> At(r.instance, 0)
    [] r.type = "nextSubpass" -> At(r.instance, SubpassOf(r.calls) + 1)
    [] OTHER -> At(r.instance, SubpassOf(r.calls))

(* A sequence of commands, each of which starts where the one before it led. *)
Path(h, cmds, from, to) ==
  /\ cmds = <<>> => from = to
  /\ cmds # <<>> => StartsAt(h[cmds[1]]) = from /\ LeadsTo(h[cmds[Len(cmds)]]) = to
  /\ \A j \in 1..(Len(cmds) - 1) : LeadsTo(h[cmds[j]]) = StartsAt(h[cmds[j + 1]])

(* What a command in a primary buffer has.                                   *)
Placed(is, r) ==
  r.type # "dispatch" =>
    /\ r.instance \in 1..Len(is)
    /\ r.type = "nextSubpass" => SubpassOf(r.calls) + 1 < Len(is[r.instance].pass.subpasses)

PlaceOf(c) == IF instance[c] = Null THEN Outside ELSE At(instance[c], SubpassOf(calls[c]))

Elements(u) == {u[j] : j \in DOMAIN u}
CommandsOf(c) == Elements(commands[c])

(* The commands of a primary buffer enter and leave render passes in turn,   *)
(* and so far have led to where its recording is.                            *)
PrimaryInv ==
  \A p \in Primary :
    /\ Path(heap, commands[p], Outside, PlaceOf(p))
    /\ \A k \in CommandsOf(p) : Placed(instances, heap[k])
    /\ state[p] = "executable" => instance[p] = Null

(* A secondary buffer has only draws, in subpass 0, or only dispatches; no   *)
(* buffer shares them but the primary ones that execute it.                  *)
SecondaryInv ==
  \A s \in Secondary :
    /\ instance[s] = Null /\ SubpassOf(calls[s]) = 0
    /\ state[s] = "recording" => calls[s] # <<>>
    /\ \A k \in CommandsOf(s) :
         /\ SubpassOf(heap[k].calls) = 0
         /\ heap[k].type \in IF Continues(s) THEN {"draw", "drawIndexed"} ELSE {"dispatch"}
    /\ \A d \in CommandBuffer \ {s} :
         CommandsOf(d) \cap CommandsOf(s) # {} => d \in Primary /\ s \in executes[d]

(* The renderer is where the commands in the queue will start, and they lead *)
(* out of the last render pass; they are commands of executable buffers.     *)
Renders(place) ==
  /\ place[1] \in 0..Len(instances)
  /\ \A i \in 1..Len(instances) :
       /\ instances[i].Rendering <=> i = place[1]
       /\ i = place[1] => instances[i].SubpassIndex = place[2]
Cmds == [i \in DOMAIN queue |-> queue[i].cmd]
QueueInv ==
  /\ \E place : Renders(place) /\ Path(heap, Cmds, place, Outside)
  /\ \A i \in DOMAIN queue : /\ state[queue[i].of] = "executable"
                             /\ queue[i].cmd \in CommandsOf(queue[i].of)
PlaceInv == PrimaryInv /\ SecondaryInv /\ QueueInv

(* The calls of vkCmdNextSubpass since the last render pass was begun.       *)
SubpassCalls(tr) ==
  {i \in DOMAIN tr : /\ \A j \in i..Len(tr) : tr[j].op # "beginRenderPass"
                     /\ tr[i].op = "nextSubpass"}

(* The number of a subpass.                                                  *)
LEMMA SubpassNumber ==
  ASSUME NEW tr \in Seq(Call)
  PROVE  /\ SubpassOf(tr) = Cardinality(SubpassCalls(tr)) /\ SubpassOf(tr) \in Nat
         /\ IsFiniteSet(SubpassCalls(tr)) /\ SubpassCalls(tr) \subseteq 1..Len(tr)
<1>1. DOMAIN tr = 1..Len(tr) /\ Len(tr) \in Nat
  OBVIOUS
<1>2. SubpassCalls(tr) \subseteq 1..Len(tr)
  BY <1>1 DEF SubpassCalls
<1>3. IsFiniteSet(1..Len(tr))
  BY <1>1, FS_Interval
<1>4. IsFiniteSet(SubpassCalls(tr))
  BY <1>2, <1>3, FS_Subset
<1>5. {i \in {k \in DOMAIN tr : \A j \in k..Len(tr) : tr[j].op # "beginRenderPass"} :
         tr[i].op = "nextSubpass"} = SubpassCalls(tr)
  BY DEF SubpassCalls
<1>6. SubpassOf(tr) = Cardinality(SubpassCalls(tr))
  BY <1>5 DEF SubpassOf
<1> QED  BY <1>2, <1>4, <1>6, FS_CardinalityType

(* The subpass of a recording, after one more call.                          *)
LEMMA SubpassAppend ==
  ASSUME NEW tr \in Seq(Call), NEW call \in Call
  PROVE  SubpassOf(Append(tr, call)) =
           CASE call.op = "beginRenderPass" -> 0
             [] call.op = "nextSubpass" -> SubpassOf(tr) + 1
             [] OTHER -> SubpassOf(tr)
<1> DEFINE n == Len(tr)
           tr2 == Append(tr, call)
<1>1. /\ n \in Nat /\ Len(tr2) = n + 1 /\ tr2 \in Seq(Call)
      /\ DOMAIN tr = 1..n /\ DOMAIN tr2 = 1..(n + 1)
      /\ \A i \in 1..n : tr2[i] = tr[i]
      /\ tr2[n + 1] = call
  OBVIOUS
<1> HIDE DEF n, tr2
<1>2. SubpassCalls(tr) \subseteq 1..n /\ n + 1 \notin 1..n
  BY <1>1, SubpassNumber DEF n
<1>3. /\ SubpassOf(tr2) = Cardinality(SubpassCalls(tr2))
      /\ SubpassOf(tr) = Cardinality(SubpassCalls(tr)) /\ IsFiniteSet(SubpassCalls(tr))
  BY <1>1, SubpassNumber
<1>4. CASE call.op = "beginRenderPass"
  <2>1. \A i \in 1..(n + 1) : n + 1 \in i..(n + 1)
    BY <1>1
  <2>2. SubpassCalls(tr2) = {}
    BY <1>1, <1>4, <2>1 DEF SubpassCalls
  <2> QED  BY <1>3, <1>4, <2>2, FS_EmptySet DEF tr2
<1>5. ASSUME call.op # "beginRenderPass"
      PROVE  SubpassCalls(tr2) = SubpassCalls(tr) \cup
                                   (IF call.op = "nextSubpass" THEN {n + 1} ELSE {})
  <2>1. ASSUME NEW i \in 1..n
        PROVE  i \in SubpassCalls(tr2) <=> i \in SubpassCalls(tr)
    <3>1. i \in 1..(n + 1) /\ \A j : j \in i..(n + 1) <=> j \in i..n \/ j = n + 1
      BY <1>1
    <3>2. \A j \in i..n : tr2[j] = tr[j]
      BY <1>1
    <3>3. (\A j \in i..(n + 1) : tr2[j].op # "beginRenderPass")
            <=> (\A j \in i..n : tr[j].op # "beginRenderPass")
      BY <1>1, <1>5, <3>1, <3>2
    <3> QED  BY <1>1, <3>1, <3>3 DEF SubpassCalls, n
  <2>2. n + 1 \in SubpassCalls(tr2) <=> call.op = "nextSubpass"
    <3>1. n + 1 \in 1..(n + 1) /\ \A j \in (n + 1)..(n + 1) : j = n + 1
      BY <1>1
    <3> QED  BY <1>1, <1>5, <3>1 DEF SubpassCalls
  <2>3. \A i : i \in SubpassCalls(tr2) => i \in 1..n \/ i = n + 1
    BY <1>1 DEF SubpassCalls
  <2>4. \A i : i \in SubpassCalls(tr2) <=>
                 i \in SubpassCalls(tr) \/ (i = n + 1 /\ call.op = "nextSubpass")
    BY <1>2, <2>1, <2>2, <2>3
  <2> QED  BY <2>4
<1>6. CASE call.op = "nextSubpass"
  <2>1. SubpassCalls(tr2) = SubpassCalls(tr) \cup {n + 1} /\ n + 1 \notin SubpassCalls(tr)
    BY <1>2, <1>5, <1>6
  <2>2. Cardinality(SubpassCalls(tr2)) = Cardinality(SubpassCalls(tr)) + 1
    BY <1>3, <2>1, FS_AddElement
  <2> QED  BY <1>3, <1>6, <2>2 DEF tr2
<1>7. CASE call.op \notin {"beginRenderPass", "nextSubpass"}
  <2>1. SubpassCalls(tr2) = SubpassCalls(tr)
    BY <1>5, <1>7
  <2> QED  BY <1>3, <1>7, <2>1 DEF tr2
<1> QED  BY <1>4, <1>6, <1>7

(* At the beginning of a recording.                                          *)
LEMMA SubpassAtFirst ==
  /\ SubpassOf(<<>>) = 0
  /\ \A call \in Call : call.op \in {"begin", "continue"} => SubpassOf(<<call>>) = 0
<1>1. SubpassOf(<<>>) = 0
  <2>1. <<>> \in Seq(Call) /\ SubpassCalls(<<>>) = {}
    BY DEF SubpassCalls
  <2> QED  BY <2>1, SubpassNumber, FS_EmptySet
<1>2. ASSUME NEW call \in Call, call.op \in {"begin", "continue"}
      PROVE  SubpassOf(<<call>>) = 0
  <2>1. /\ <<>> \in Seq(Call) /\ Append(<<>>, call) = <<call>>
        /\ call.op # "beginRenderPass" /\ call.op # "nextSubpass"
    BY <1>2
  <2> QED  BY <1>1, <2>1, SubpassAppend
<1> QED  BY <1>1, <1>2

(* Nothing leads nowhere.                                                    *)
LEMMA PathEmpty ==
  ASSUME NEW h, NEW q PROVE Path(h, <<>>, q, q)
<1>1. <<>> \in Seq({}) /\ Len(<<>>) = 0
  OBVIOUS
<1>2. \A j \in 1..(Len(<<>>) - 1) : FALSE
  BY <1>1
<1> QED  BY <1>2 DEF Path

(* A path after another.                                                     *)
LEMMA PathConcat ==
  ASSUME NEW T, NEW h, NEW u \in Seq(T), NEW v \in Seq(T), NEW q, NEW r, NEW t,
         Path(h, u, q, r), Path(h, v, r, t)
  PROVE  Path(h, u \o v, q, t)
<1> DEFINE m == Len(u)
           n == Len(v)
           w == u \o v
<1>1. /\ m \in Nat /\ n \in Nat /\ w \in Seq(T) /\ Len(w) = m + n
      /\ \A i \in 1..m : w[i] = u[i]
      /\ \A i \in 1..n : w[m + i] = v[i]
      /\ u = <<>> <=> m = 0
      /\ v = <<>> <=> n = 0
      /\ w = <<>> <=> m + n = 0
  OBVIOUS
<1>2. /\ m = 0 => q = r
      /\ m # 0 => StartsAt(h[u[1]]) = q /\ LeadsTo(h[u[m]]) = r
      /\ \A j \in 1..(m - 1) : LeadsTo(h[u[j]]) = StartsAt(h[u[j + 1]])
      /\ n = 0 => r = t
      /\ n # 0 => StartsAt(h[v[1]]) = r /\ LeadsTo(h[v[n]]) = t
      /\ \A j \in 1..(n - 1) : LeadsTo(h[v[j]]) = StartsAt(h[v[j + 1]])
  BY <1>1 DEF Path
<1> HIDE DEF m, n, w
<1>3. m + n = 0 => q = t
  BY <1>1, <1>2
<1>4. ASSUME m + n # 0 PROVE StartsAt(h[w[1]]) = q /\ LeadsTo(h[w[m + n]]) = t
  <2>1. StartsAt(h[w[1]]) = q
    <3>1. CASE m # 0
      BY <1>1, <1>2, <3>1
    <3>2. CASE m = 0
      <4>1. w[1] = v[1] /\ n # 0
        BY <1>1, <1>4, <3>2
      <4> QED  BY <1>2, <3>2, <4>1
    <3> QED  BY <3>1, <3>2
  <2>2. LeadsTo(h[w[m + n]]) = t
    <3>1. CASE n # 0
      BY <1>1, <1>2, <3>1
    <3>2. CASE n = 0
      <4>1. w[m + n] = u[m] /\ m # 0
        BY <1>1, <1>4, <3>2
      <4> QED  BY <1>2, <3>2, <4>1
    <3> QED  BY <3>1, <3>2
  <2> QED  BY <2>1, <2>2
<1>5. ASSUME NEW j \in 1..(m + n - 1)
      PROVE  LeadsTo(h[w[j]]) = StartsAt(h[w[j + 1]])
  <2>1. CASE j < m
    <3>1. w[j] = u[j] /\ w[j + 1] = u[j + 1] /\ j \in 1..(m - 1)
      BY <1>1, <2>1
    <3> QED  BY <1>2, <3>1
  <2>2. CASE j = m
    <3>1. w[j] = u[m] /\ w[j + 1] = v[1] /\ m # 0 /\ n # 0
      BY <1>1, <2>2
    <3> QED  BY <1>2, <3>1
  <2>3. CASE j > m
    <3>1. PICK i \in 1..(n - 1) : j = m + i
      <4>1. j - m \in 1..(n - 1) /\ j = m + (j - m)
        BY <1>1, <2>3
      <4> QED  BY <4>1
    <3>2. i \in 1..n /\ i + 1 \in 1..n /\ m + i + 1 = m + (i + 1)
      BY <1>1
    <3>3. w[j] = v[i] /\ w[j + 1] = v[i + 1]
      <4>1. w[m + i] = v[i]
        BY <1>1, <3>2
      <4>2. w[m + (i + 1)] = v[i + 1]
        BY <1>1, <3>2
      <4>3. j + 1 = m + (i + 1)
        BY <1>1, <3>1, <3>2
      <4> QED  BY <3>1, <4>1, <4>2, <4>3
    <3> QED  BY <1>2, <3>3
  <2> QED  BY <1>1, <2>1, <2>2, <2>3
<1>6. Path(h, w, q, t)
  <2>1. Len(w) = m + n /\ (w = <<>> <=> m + n = 0)
    BY <1>1
  <2>2. w = <<>> => q = t
    BY <1>3, <2>1
  <2>3. w # <<>> => StartsAt(h[w[1]]) = q /\ LeadsTo(h[w[Len(w)]]) = t
    BY <1>4, <2>1
  <2>4. \A j \in 1..(Len(w) - 1) : LeadsTo(h[w[j]]) = StartsAt(h[w[j + 1]])
    <3>1. Len(w) - 1 = m + n - 1
      BY <1>1, <2>1
    <3>2. ASSUME NEW j \in 1..(Len(w) - 1) PROVE LeadsTo(h[w[j]]) = StartsAt(h[w[j + 1]])
      <4>1. j \in 1..(m + n - 1)
        BY <3>1
      <4> QED  BY <1>5, <4>1
    <3> QED  BY <3>2
  <2> QED  BY <2>2, <2>3, <2>4 DEF Path
<1> QED  BY <1>6 DEF w

(* One command is a path.                                                    *)
LEMMA PathOne ==
  ASSUME NEW h, NEW k PROVE Path(h, <<k>>, StartsAt(h[k]), LeadsTo(h[k]))
<1>1. <<k>> \in Seq({k}) /\ Len(<<k>>) = 1 /\ <<k>>[1] = k /\ <<k>> # <<>>
  OBVIOUS
<1>2. \A j \in 1..(Len(<<k>>) - 1) : FALSE
  BY <1>1
<1> QED  BY <1>1, <1>2 DEF Path

(* A path with one more command.                                             *)
LEMMA PathAppend ==
  ASSUME NEW T, NEW h, NEW u \in Seq(T), NEW k \in T, NEW q, Path(h, u, q, StartsAt(h[k]))
  PROVE  Path(h, Append(u, k), q, LeadsTo(h[k]))
<1>1. <<k>> \in Seq(T) /\ Append(u, k) = u \o <<k>>
  OBVIOUS
<1> QED  BY <1>1, PathOne, PathConcat

(* A path without its first command.                                         *)
LEMMA PathTail ==
  ASSUME NEW T, NEW h, NEW u \in Seq(T), u # <<>>, NEW q, NEW r, Path(h, u, q, r)
  PROVE  q = StartsAt(h[Head(u)]) /\ Path(h, Tail(u), LeadsTo(h[Head(u)]), r)
<1> DEFINE n == Len(u)
           w == Tail(u)
<1>1. /\ n \in Nat /\ n >= 1 /\ w \in Seq(T) /\ Len(w) = n - 1 /\ Head(u) = u[1]
      /\ \A i \in 1..(n - 1) : w[i] = u[i + 1]
      /\ w = <<>> <=> n = 1
  <2>1. n \in Nat /\ n >= 1
    BY EmptySeq
  <2>2. w \in Seq(T) /\ Len(w) = n - 1 /\ Head(u) = u[1]
    BY HeadTailProperties
  <2>3. \A i \in 1..(n - 1) : w[i] = u[i + 1]
    BY <2>1
  <2>4. w = <<>> <=> n = 1
    <3>1. w \in Seq(T) => (w = <<>> <=> Len(w) = 0)
      <4> HIDE DEF w
      <4> QED  BY EmptySeq
    <3>2. Len(w) = 0 <=> n = 1
      BY <2>1, <2>2
    <3> QED  BY <2>2, <3>1, <3>2
  <2> QED  BY <2>1, <2>2, <2>3, <2>4
<1>2. /\ StartsAt(h[u[1]]) = q /\ LeadsTo(h[u[n]]) = r
      /\ \A j \in 1..(n - 1) : LeadsTo(h[u[j]]) = StartsAt(h[u[j + 1]])
  BY DEF Path
<1> HIDE DEF n, w
<1>3. CASE n = 1
  <2>1. w = <<>> /\ LeadsTo(h[Head(u)]) = r
    BY <1>1, <1>2, <1>3
  <2> QED  BY <1>1, <1>2, <2>1, PathEmpty DEF w
<1>4. CASE n # 1
  <2>1. w # <<>> /\ 1 \in 1..(n - 1) /\ w[1] = u[2] /\ w[n - 1] = u[n]
    BY <1>1, <1>4
  <2>2. StartsAt(h[w[1]]) = LeadsTo(h[u[1]])
    BY <1>2, <2>1
  <2>3. ASSUME NEW j \in 1..(n - 2)
        PROVE  LeadsTo(h[w[j]]) = StartsAt(h[w[j + 1]])
    <3>1. j \in 1..(n - 1) /\ j + 1 \in 1..(n - 1)
      BY <1>1
    <3>2. w[j] = u[j + 1] /\ w[j + 1] = u[(j + 1) + 1]
      BY <1>1, <3>1
    <3> QED  BY <1>2, <3>1, <3>2
  <2>4. Len(w) - 1 = n - 2
    BY <1>1
  <2> QED  BY <1>1, <1>2, <2>1, <2>2, <2>3, <2>4 DEF Path, w
<1> QED  BY <1>3, <1>4

SameAt(h, h2, u) == \A i \in DOMAIN u : h2[u[i]] = h[u[i]]

(* The same commands in two heaps make the same path.                        *)
LEMMA PathSame ==
  ASSUME NEW T, NEW h, NEW h2, NEW u \in Seq(T), NEW q, NEW r, Path(h, u, q, r),
         SameAt(h, h2, u)
  PROVE  Path(h2, u, q, r)
<1>1. Len(u) \in Nat /\ DOMAIN u = 1..Len(u) /\ (u # <<>> <=> Len(u) # 0)
  OBVIOUS
<1>2. \A j \in 1..(Len(u) - 1) : j \in DOMAIN u /\ j + 1 \in DOMAIN u
  BY <1>1
<1>3. u # <<>> => 1 \in DOMAIN u /\ Len(u) \in DOMAIN u
  BY <1>1
<1> QED  BY <1>2, <1>3 DEF Path, SameAt

(* Commands that all start and end at one place.                             *)
LEMMA PathLoop ==
  ASSUME NEW T, NEW h, NEW u \in Seq(T), NEW q,
         \A i \in DOMAIN u : StartsAt(h[u[i]]) = q /\ LeadsTo(h[u[i]]) = q
  PROVE  Path(h, u, q, q)
<1>1. Len(u) \in Nat /\ DOMAIN u = 1..Len(u) /\ (u # <<>> <=> Len(u) # 0)
  OBVIOUS
<1>2. \A j \in 1..(Len(u) - 1) : j \in DOMAIN u /\ j + 1 \in DOMAIN u
  BY <1>1
<1>3. u # <<>> => 1 \in DOMAIN u /\ Len(u) \in DOMAIN u
  BY <1>1
<1> QED  BY <1>2, <1>3 DEF Path

(* The commands of a buffer, after one more, and after those of another.     *)
LEMMA RangeAppend ==
  ASSUME NEW T, NEW u \in Seq(T), NEW k
  PROVE  Elements(Append(u, k)) = Elements(u) \cup {k}
<1> DEFINE w == Append(u, k)
<1>1. /\ Len(u) \in Nat /\ DOMAIN u = 1..Len(u) /\ DOMAIN w = 1..(Len(u) + 1)
      /\ \A j \in 1..Len(u) : w[j] = u[j]
      /\ w[Len(u) + 1] = k
  OBVIOUS
<1>2. \A j : j \in 1..(Len(u) + 1) <=> j \in 1..Len(u) \/ j = Len(u) + 1
  BY <1>1
<1> HIDE DEF w
<1>3. \A x : x \in {w[j] : j \in DOMAIN w} <=> x \in {u[j] : j \in DOMAIN u} \cup {k}
  BY <1>1, <1>2
<1> QED  BY <1>3 DEF w, Elements

(* The commands of two sequences, one after the other.                       *)
LEMMA RangeConcat ==
  ASSUME NEW T, NEW u \in Seq(T), NEW v \in Seq(T)
  PROVE  Elements(u \o v) = Elements(u) \cup Elements(v)
<1> DEFINE w == u \o v
           m == Len(u)
           n == Len(v)
<1>1. /\ m \in Nat /\ n \in Nat /\ DOMAIN u = 1..m /\ DOMAIN v = 1..n /\ DOMAIN w = 1..(m + n)
      /\ \A j \in 1..m : w[j] = u[j]
      /\ \A j \in 1..n : w[m + j] = v[j]
  OBVIOUS
<1> HIDE DEF w, m, n
<1>2. ASSUME NEW j \in 1..(m + n)
      PROVE  w[j] \in {u[i] : i \in DOMAIN u} \cup {v[i] : i \in DOMAIN v}
  <2>1. CASE j <= m
    BY <1>1, <2>1
  <2>2. CASE j > m
    <3>1. j - m \in 1..n /\ m + (j - m) = j
      BY <1>1, <2>2
    <3>2. w[j] = v[j - m]
      BY <1>1, <3>1
    <3> QED  BY <1>1, <3>1, <3>2
  <2> QED  BY <1>1, <2>1, <2>2
<1>3. ASSUME NEW j \in 1..m PROVE j \in 1..(m + n) /\ w[j] = u[j]
  BY <1>1
<1>4. ASSUME NEW j \in 1..n PROVE m + j \in 1..(m + n) /\ w[m + j] = v[j]
  BY <1>1
<1>5. \A x : x \in {w[j] : j \in DOMAIN w}
               <=> x \in {u[j] : j \in DOMAIN u} \cup {v[j] : j \in DOMAIN v}
  <2>1. \A x : x \in {w[j] : j \in DOMAIN w}
                 => x \in {u[j] : j \in DOMAIN u} \cup {v[j] : j \in DOMAIN v}
    BY <1>1, <1>2
  <2>2. \A x : x \in {u[j] : j \in DOMAIN u} => x \in {w[j] : j \in DOMAIN w}
    BY <1>1, <1>3
  <2>3. \A x : x \in {v[j] : j \in DOMAIN v} => x \in {w[j] : j \in DOMAIN w}
    BY <1>1, <1>4
  <2> QED  BY <2>1, <2>2, <2>3
<1> QED  BY <1>5 DEF w, Elements

(* The commands of every buffer are in the heap.                             *)
LEMMA CommandsInHeap ==
  ASSUME TypeInv, NEW c \in CommandBuffer
  PROVE  /\ CommandsOf(c) \subseteq 1..Len(heap) /\ commands[c] \in Seq(1..Len(heap))
         /\ Len(heap) \in Nat /\ heap \in Seq(CommandRecord)
<1>1. commands[c] \in Seq(1..Len(heap)) /\ Len(heap) \in Nat /\ heap \in Seq(CommandRecord)
  BY DEF TypeInv, CommandsInv
<1> QED  BY <1>1 DEF CommandsOf, Elements

(* The commands in the queue are in the heap and of primary buffers.         *)
LEMMA QueueEntry ==
  ASSUME TypeInv, NEW i \in DOMAIN queue
  PROVE  queue[i].cmd \in 1..Len(heap) /\ queue[i].of \in Primary
<1> DEFINE E == [cmd : 1..Len(heap), of : Primary]
<1>1. queue \in Seq(E)
  BY DEF TypeInv, DeviceInv
<1> HIDE DEF E
<1>2. queue[i] \in E
  BY <1>1
<1> QED  BY <1>2 DEF E

(* A buffer that is begun or reset is not in the queue and has no commands.  *)
LEMMA EmptiedPlaces ==
  ASSUME TypeInv, RecInv, PlaceInv, NEW c \in CommandBuffer, NEW next \in {"initial", "recording"},
         ~Pending(c), Emptied(c, next), NEW tr,
         calls' = [calls EXCEPT ![c] = tr], SubpassOf(tr) = 0,
         next = "recording" => tr # <<>>
  PROVE  PlaceInv'
<1>1. /\ calls \in [CommandBuffer -> Seq(Call)]
      /\ state \in [CommandBuffer -> {"initial", "recording", "executable", "invalid"}]
      /\ DOMAIN commands = CommandBuffer /\ DOMAIN instance = CommandBuffer
      /\ DOMAIN executes = CommandBuffer
  BY DEF RecInv, BufferInv, TypeInv, StateInv, CommandsInv
<1>2. /\ calls'[c] = tr /\ commands'[c] = <<>> /\ instance'[c] = Null /\ state'[c] = next
      /\ UNCHANGED <<heap, instances, queue>>
      /\ CommandsOf(c)' = {}
  BY <1>1 DEF Emptied, deviceVars, CommandsOf, Elements
<1>3. ASSUME NEW d \in CommandBuffer, d # c
      PROVE  /\ calls'[d] = calls[d] /\ commands'[d] = commands[d] /\ instance'[d] = instance[d]
             /\ executes'[d] = executes[d] /\ CommandsOf(d)' = CommandsOf(d)
             /\ state'[d] = IF c \in executes[d] THEN "invalid" ELSE state[d]
  BY <1>1, <1>3 DEF Emptied, CommandsOf, Elements
<1>4. PrimaryInv'
  <2> SUFFICES ASSUME NEW p \in Primary
               PROVE  /\ Path(heap, commands[p], Outside, PlaceOf(p))'
                      /\ (\A k \in CommandsOf(p) : Placed(instances, heap[k]))'
                      /\ (state[p] = "executable" => instance[p] = Null)'
    BY DEF PrimaryInv
  <2>1. p \in CommandBuffer
    BY DEF CommandBuffer
  <2>2. CASE p = c
    <3>1. PlaceOf(p)' = Outside
      BY <1>2, <2>2 DEF PlaceOf
    <3> QED  BY <1>2, <2>2, <3>1, PathEmpty
  <2>3. CASE p # c
    <3>1. PlaceOf(p)' = PlaceOf(p)
      BY <1>3, <2>1, <2>3 DEF PlaceOf
    <3> QED  BY <1>2, <1>3, <2>1, <2>3, <3>1 DEF PlaceInv, PrimaryInv
  <2> QED  BY <2>2, <2>3
<1>5. SecondaryInv'
  <2> SUFFICES ASSUME NEW s \in Secondary
               PROVE  /\ (instance[s] = Null /\ SubpassOf(calls[s]) = 0)'
                      /\ (state[s] = "recording" => calls[s] # <<>>)'
                      /\ (\A k \in CommandsOf(s) :
                           /\ SubpassOf(heap[k].calls) = 0
                           /\ heap[k].type \in IF Continues(s) THEN {"draw", "drawIndexed"}
                                               ELSE {"dispatch"})'
                      /\ (\A d \in CommandBuffer \ {s} :
                            CommandsOf(d) \cap CommandsOf(s) # {}
                              => d \in Primary /\ s \in executes[d])'
    BY DEF SecondaryInv
  <2>1. s \in CommandBuffer
    BY DEF CommandBuffer
  <2>2. CASE s = c
    BY <1>2, <2>2
  <2>3. CASE s # c
    <3>1. Continues(s)' <=> Continues(s)
      BY <1>3, <2>1, <2>3 DEF Continues
    <3>2. \A d \in CommandBuffer \ {s} :
            CommandsOf(d)' \cap CommandsOf(s)' # {} => d \in Primary /\ s \in executes'[d]
      BY <1>2, <1>3, <2>1, <2>3 DEF PlaceInv, SecondaryInv
    <3> QED  BY <1>2, <1>3, <2>1, <2>3, <3>1, <3>2 DEF PlaceInv, SecondaryInv
  <2> QED  BY <2>2, <2>3
<1>6. QueueInv'
  <2>1. PICK q : Renders(q) /\ Path(heap, Cmds, q, Outside)
    BY DEF PlaceInv, QueueInv
  <2>2. Renders(q)' /\ Path(heap, Cmds, q, Outside)'
    BY <1>2, <2>1 DEF Renders, Cmds
  <2>3. ASSUME NEW i \in DOMAIN queue
        PROVE  /\ state'[queue[i].of] = "executable"
               /\ queue[i].cmd \in CommandsOf(queue[i].of)'
    <3>1. PICK d \in Primary : d = queue[i].of
      BY QueueEntry
    <3>2. d # c /\ c \notin executes[d] /\ d \in CommandBuffer
      BY <3>1 DEF Pending, CommandBuffer
    <3>3. state[d] = "executable" /\ queue[i].cmd \in CommandsOf(d)
      BY <3>1 DEF PlaceInv, QueueInv
    <3>4. state'[d] = "executable" /\ CommandsOf(d)' = CommandsOf(d)
      BY <1>3, <3>2, <3>3
    <3> QED  BY <1>2, <3>1, <3>3, <3>4 DEF CommandsOf, Elements
  <2> QED  BY <1>2, <2>2, <2>3 DEF QueueInv
<1> QED  BY <1>4, <1>5, <1>6 DEF PlaceInv

(* A call of a recording buffer.                                             *)
LEMMA CallFacts ==
  ASSUME TypeInv, RecInv, PlaceInv, NEW c \in CommandBuffer, NEW op, Calling(c, op)
  PROVE  /\ SubpassOf(calls[c]) \in Nat
         /\ SubpassOf(calls'[c]) = CASE op = "beginRenderPass" -> 0
                                     [] op = "nextSubpass" -> SubpassOf(calls[c]) + 1
                                     [] OTHER -> SubpassOf(calls[c])
         /\ calls'[c] # <<>>
         /\ \A s \in Secondary : Continues(s)' <=> Continues(s)
         /\ \A d \in CommandBuffer : d # c => calls'[d] = calls[d]
         /\ calls[c] \in Seq(Call) /\ state[c] = "recording"
<1> DEFINE call == Head(script[c])
<1>1. call \in Call /\ call.op = op /\ calls' = [calls EXCEPT ![c] = Append(@, call)]
  BY CallingTypes
<1> HIDE DEF call
<1>2. calls \in [CommandBuffer -> Seq(Call)]
  BY DEF RecInv, BufferInv
<1>3. calls[c] \in Seq(Call) /\ calls'[c] = Append(calls[c], call)
      /\ \A d \in CommandBuffer : d # c => calls'[d] = calls[d]
  BY <1>1, <1>2
<1>4. SubpassOf(calls[c]) \in Nat
  BY <1>3, SubpassNumber
<1>5. SubpassOf(calls'[c]) = CASE op = "beginRenderPass" -> 0
                               [] op = "nextSubpass" -> SubpassOf(calls[c]) + 1
                               [] OTHER -> SubpassOf(calls[c])
  BY <1>1, <1>3, SubpassAppend
<1>6. calls'[c] # <<>>
  BY <1>1, <1>3
<1>7. state[c] = "recording"
  BY DEF Calling
<1>8. ASSUME NEW s \in Secondary PROVE Continues(s)' <=> Continues(s)
  <2>1. s \in CommandBuffer
    BY DEF CommandBuffer
  <2>2. CASE s # c
    BY <1>3, <2>1, <2>2 DEF Continues
  <2>3. CASE s = c
    <3>1. calls[c] # <<>>
      BY <1>7, <2>3 DEF PlaceInv, SecondaryInv
    <3>2. calls'[c][1] = calls[c][1]
      BY <1>1, <1>3, <3>1, EmptySeq
    <3> QED  BY <1>6, <2>3, <3>1, <3>2 DEF Continues
  <2> QED  BY <2>2, <2>3
<1> QED  BY <1>3, <1>4, <1>5, <1>6, <1>7, <1>8

(* Where a recording is does not change with a call that records no command. *)
LEMMA BindPlaces ==
  ASSUME TypeInv, RecInv, PlaceInv, NEW c \in CommandBuffer, NEW kinds, Bind(c, kinds)
  PROVE  PlaceInv'
<1>1. /\ UNCHANGED <<state, executes, instance, commands, heap, instances, queue>>
      /\ Calling(c, "bind")
  BY DEF Bind, Recorded, deviceVars
<1>2. /\ \A d \in CommandBuffer : SubpassOf(calls[d])' = SubpassOf(calls[d])
      /\ \A s \in Secondary : Continues(s)' <=> Continues(s)
      /\ \A d \in CommandBuffer : d # c => calls'[d] = calls[d]
      /\ calls'[c] # <<>>
  <2>1. SubpassOf(calls'[c]) = SubpassOf(calls[c])
    BY <1>1, CallFacts
  <2>2. /\ \A s \in Secondary : Continues(s)' <=> Continues(s)
        /\ \A d \in CommandBuffer : d # c => calls'[d] = calls[d]
        /\ calls'[c] # <<>>
    BY <1>1, CallFacts
  <2> QED  BY <2>1, <2>2
<1>3. /\ \A d \in CommandBuffer : PlaceOf(d)' = PlaceOf(d) /\ CommandsOf(d)' = CommandsOf(d)
  BY <1>1, <1>2 DEF PlaceOf, CommandsOf
<1>4. \A p \in Primary \cup Secondary : p \in CommandBuffer
  BY DEF CommandBuffer
<1>5. PrimaryInv'
  BY <1>1, <1>3, <1>4 DEF PlaceInv, PrimaryInv
<1>6. SecondaryInv'
  <2> SUFFICES ASSUME NEW s \in Secondary
               PROVE  /\ (instance[s] = Null /\ SubpassOf(calls[s]) = 0)'
                      /\ (state[s] = "recording" => calls[s] # <<>>)'
                      /\ (\A k \in CommandsOf(s) :
                           /\ SubpassOf(heap[k].calls) = 0
                           /\ heap[k].type \in IF Continues(s) THEN {"draw", "drawIndexed"}
                                               ELSE {"dispatch"})'
                      /\ (\A d \in CommandBuffer \ {s} :
                            CommandsOf(d) \cap CommandsOf(s) # {}
                              => d \in Primary /\ s \in executes[d])'
    BY DEF SecondaryInv
  <2>1. s \in CommandBuffer
    BY <1>4
  <2>2. (instance[s] = Null /\ SubpassOf(calls[s]) = 0)'
    BY <1>1, <1>2, <2>1 DEF PlaceInv, SecondaryInv
  <2>3. (state[s] = "recording" => calls[s] # <<>>)'
    BY <1>1, <1>2, <2>1 DEF PlaceInv, SecondaryInv
  <2>4. \A k \in CommandsOf(s)' :
          /\ SubpassOf(heap'[k].calls) = 0
          /\ heap'[k].type \in IF Continues(s)' THEN {"draw", "drawIndexed"} ELSE {"dispatch"}
    BY <1>1, <1>2, <1>3, <2>1 DEF PlaceInv, SecondaryInv
  <2>5. \A d \in CommandBuffer \ {s} :
          CommandsOf(d)' \cap CommandsOf(s)' # {} => d \in Primary /\ s \in executes'[d]
    BY <1>1, <1>3, <2>1 DEF PlaceInv, SecondaryInv
  <2> QED  BY <2>2, <2>3, <2>4, <2>5
<1>7. QueueInv'
  BY <1>1 DEF PlaceInv, QueueInv, Renders, Cmds, CommandsOf
<1> QED  BY <1>5, <1>6, <1>7 DEF PlaceInv

(* Steps that touch neither the recordings nor their execution.              *)
LEMMA PlacesUnchanged ==
  ASSUME PlaceInv,
         UNCHANGED <<state, calls, instance, commands, executes, heap, instances, queue>>
  PROVE  PlaceInv'
<1>1. /\ \A d : PlaceOf(d)' = PlaceOf(d) /\ CommandsOf(d)' = CommandsOf(d)
      /\ \A d : Continues(d)' <=> Continues(d)
      /\ \A q : Renders(q)' <=> Renders(q)
      /\ Cmds' = Cmds
  BY DEF PlaceOf, CommandsOf, Continues, Renders, Cmds
<1>2. PrimaryInv'
  BY <1>1 DEF PlaceInv, PrimaryInv
<1>3. SecondaryInv'
  BY <1>1 DEF PlaceInv, SecondaryInv
<1>4. QueueInv'
  <2>1. \E q : Renders(q)' /\ Path(heap', Cmds', q, Outside)
    BY <1>1 DEF PlaceInv, QueueInv
  <2>2. (\A i \in DOMAIN queue : /\ state[queue[i].of] = "executable"
                                  /\ queue[i].cmd \in CommandsOf(queue[i].of))'
    BY DEF PlaceInv, QueueInv, CommandsOf
  <2> QED  BY <2>1, <2>2 DEF QueueInv
<1> QED  BY <1>2, <1>3, <1>4 DEF PlaceInv

(* vkEndCommandBuffer, outside of render passes.                             *)
LEMMA EndPlaces ==
  ASSUME TypeInv, PlaceInv, NEW c \in CommandBuffer, End(c)
  PROVE  PlaceInv'
<1>1. /\ UNCHANGED <<calls, instance, commands, executes, heap, instances, queue>>
      /\ state' = [state EXCEPT ![c] = "executable"] /\ instance[c] = Null
      /\ state[c] = "recording"
  BY DEF End, deviceVars
<1>2. /\ state'[c] = "executable"
      /\ \A d \in CommandBuffer : d # c => state'[d] = state[d]
  BY <1>1 DEF TypeInv, StateInv
<1>3. /\ \A d : PlaceOf(d)' = PlaceOf(d) /\ CommandsOf(d)' = CommandsOf(d)
      /\ \A d : Continues(d)' <=> Continues(d)
      /\ \A q : Renders(q)' <=> Renders(q)
      /\ Cmds' = Cmds
  BY <1>1 DEF PlaceOf, CommandsOf, Continues, Renders, Cmds
<1>4. \A p \in Primary \cup Secondary : p \in CommandBuffer
  BY DEF CommandBuffer
<1>5. PrimaryInv'
  BY <1>1, <1>2, <1>3, <1>4 DEF PlaceInv, PrimaryInv
<1>6. SecondaryInv'
  BY <1>1, <1>2, <1>3, <1>4 DEF PlaceInv, SecondaryInv
<1>7. QueueInv'
  <2>1. \E q : Renders(q)' /\ Path(heap', Cmds', q, Outside)
    BY <1>1, <1>3 DEF PlaceInv, QueueInv
  <2>2. ASSUME NEW i \in DOMAIN queue
        PROVE  /\ state'[queue[i].of] = "executable"
               /\ queue'[i].cmd \in CommandsOf(queue[i].of)'
    <3>1. PICK d \in Primary : d = queue[i].of
      BY QueueEntry
    <3>2. state[d] = "executable" /\ queue[i].cmd \in CommandsOf(d)
      BY <3>1 DEF PlaceInv, QueueInv
    <3> QED  BY <1>1, <1>2, <1>3, <1>4, <3>1, <3>2
  <2> QED  BY <1>1, <2>1, <2>2 DEF QueueInv
<1> QED  BY <1>5, <1>6, <1>7 DEF PlaceInv

(* The commands in the queue as a sequence, after the first, and after those *)
(* of one more submission.                                                   *)
LEMMA CmdsType ==
  ASSUME TypeInv
  PROVE  /\ Cmds \in Seq(1..Len(heap)) /\ Len(Cmds) = Len(queue) /\ Len(queue) \in Nat
         /\ DOMAIN Cmds = DOMAIN queue /\ DOMAIN queue = 1..Len(queue)
         /\ \A i \in DOMAIN queue : Cmds[i] = queue[i].cmd
<1> DEFINE n == Len(queue)
<1>1. n \in Nat /\ DOMAIN queue = 1..n
  BY DEF TypeInv, DeviceInv
<1>2. \A i \in 1..n : queue[i].cmd \in 1..Len(heap)
  BY <1>1, QueueEntry
<1>3. Cmds = [i \in 1..n |-> queue[i].cmd]
  BY <1>1 DEF Cmds
<1> HIDE DEF n
<1>4. Cmds \in [1..n -> 1..Len(heap)]
  BY <1>2, <1>3
<1>5. Cmds \in Seq(1..Len(heap))
  <2>1. Cmds \in UNION {[1..m -> 1..Len(heap)] : m \in Nat}
    BY <1>1, <1>4, Zenon
  <2> QED  BY <2>1, SeqDef, Zenon
<1>6. Len(Cmds) = n
  BY <1>1, <1>4, <1>5, LenProperties
<1> QED  BY <1>1, <1>3, <1>5, <1>6 DEF n

(* The paths of a buffer and of the queue when their commands do not change. *)
LEMMA BufferPathKept ==
  ASSUME TypeInv, NEW c \in CommandBuffer, NEW q, NEW r, Path(heap, commands[c], q, r),
         \A k \in CommandsOf(c) : heap'[k] = heap[k]
  PROVE  Path(heap', commands[c], q, r)
<1> DEFINE T == 1..Len(heap)
<1>1. commands[c] \in Seq(T)
  BY CommandsInHeap
<1>2. SameAt(heap, heap', commands[c])
  BY DEF CommandsOf, Elements, SameAt
<1>3. PICK h : h = heap
  OBVIOUS
<1>4. PICK h2 : h2 = heap'
  OBVIOUS
<1>5. PICK u : u = commands[c]
  OBVIOUS
<1> HIDE DEF T
<1>6. u \in Seq(T) /\ Path(h, u, q, r) /\ SameAt(h, h2, u)
  BY <1>1, <1>2, <1>3, <1>4, <1>5
<1>7. Path(h2, u, q, r)
  BY <1>6, PathSame
<1> QED  BY <1>4, <1>5, <1>7

(* The path of the queue is kept while the commands in it are.               *)
LEMMA QueuePathKept ==
  ASSUME TypeInv, queue' = queue, NEW q, NEW r, Path(heap, Cmds, q, r),
         \A i \in DOMAIN queue : heap'[queue[i].cmd] = heap[queue[i].cmd]
  PROVE  Path(heap', Cmds', q, r)
<1> DEFINE T == 1..Len(heap)
<1>1. Cmds \in Seq(T) /\ SameAt(heap, heap', Cmds)
  BY CmdsType DEF SameAt
<1>2. PICK h : h = heap
  OBVIOUS
<1>3. PICK h2 : h2 = heap'
  OBVIOUS
<1>4. PICK u : u = Cmds
  OBVIOUS
<1> HIDE DEF T
<1>5. u \in Seq(T) /\ Path(h, u, q, r) /\ SameAt(h, h2, u)
  BY <1>1, <1>2, <1>3, <1>4
<1>6. Path(h2, u, q, r)
  BY <1>5, PathSame
<1>7. Cmds' = Cmds
  BY DEF Cmds
<1> QED  BY <1>3, <1>4, <1>6, <1>7

(* A call that records a command extends the path of its buffer.             *)
LEMMA PushPlaces ==
  ASSUME TypeInv, RecInv, PlaceInv, NEW c \in CommandBuffer, NEW op, Recorded(c, op),
         NEW r, heap' = Append(heap, r),
         commands' = [commands EXCEPT ![c] = Append(@, Len(heap) + 1)],
         Len(instances') \in Nat, Len(instances') >= Len(instances),
         \A i \in 1..Len(instances) : instances'[i] = instances[i],
         \A i \in 1..Len(instances') : i > Len(instances) => ~instances'[i].Rendering,
         \A d \in CommandBuffer : d # c => instance'[d] = instance[d],
         c \in Primary => /\ StartsAt(r) = PlaceOf(c) /\ LeadsTo(r) = PlaceOf(c)'
                          /\ Placed(instances', r),
         c \in Secondary => /\ instance'[c] = Null /\ SubpassOf(calls'[c]) = 0
                            /\ SubpassOf(r.calls) = 0
                            /\ r.type \in IF Continues(c) THEN {"draw", "drawIndexed"}
                                          ELSE {"dispatch"}
  PROVE  PlaceInv'
<1> DEFINE n == Len(heap)
<1>1. /\ n \in Nat /\ heap' [n + 1] = r /\ \A k \in 1..n : heap'[k] = heap[k]
      /\ Len(instances) \in Nat
  BY DEF TypeInv, CommandsInv
<1>2. /\ UNCHANGED <<state, executes, queue>> /\ Calling(c, op) /\ state[c] = "recording"
      /\ DOMAIN commands = CommandBuffer
  BY DEF Recorded, deviceVars, Calling, TypeInv, CommandsInv
<1>3. /\ \A s \in Secondary : Continues(s)' <=> Continues(s)
      /\ \A d \in CommandBuffer : d # c => calls'[d] = calls[d]
      /\ calls'[c] # <<>>
  BY <1>2, CallFacts
<1>4. \A d \in CommandBuffer : CommandsOf(d) \subseteq 1..n /\ commands[d] \in Seq(1..n)
  BY CommandsInHeap
<1>5. commands'[c] = Append(commands[c], n + 1) /\ CommandsOf(c)' = CommandsOf(c) \cup {n + 1}
  <2>1. commands'[c] = Append(commands[c], n + 1)
    BY <1>2
  <2>2. Elements(Append(commands[c], n + 1)) = Elements(commands[c]) \cup {n + 1}
    BY <1>4, RangeAppend
  <2> QED  BY <2>1, <2>2 DEF CommandsOf
<1>6. \A d \in CommandBuffer : d # c => /\ commands'[d] = commands[d]
                                        /\ CommandsOf(d)' = CommandsOf(d)
                                        /\ PlaceOf(d)' = PlaceOf(d)
  BY <1>2, <1>3 DEF CommandsOf, PlaceOf
<1>7. ASSUME NEW k \in 1..n, Placed(instances, heap[k]) PROVE Placed(instances', heap'[k])
  <2>1. heap'[k] = heap[k]
    BY <1>1
  <2>2. heap[k].type # "dispatch" =>
          /\ heap[k].instance \in 1..Len(instances) /\ heap[k].instance \in 1..Len(instances')
          /\ instances'[heap[k].instance] = instances[heap[k].instance]
    BY <1>1, <1>7 DEF Placed
  <2> QED  BY <1>7, <2>1, <2>2 DEF Placed
<1>8. \A p \in Primary \cup Secondary : p \in CommandBuffer
  BY DEF CommandBuffer
<1> HIDE DEF n
<1>9. PrimaryInv'
  <2> SUFFICES ASSUME NEW p \in Primary
               PROVE  /\ Path(heap', commands'[p], Outside, PlaceOf(p)')
                      /\ \A k \in CommandsOf(p)' : Placed(instances', heap'[k])
                      /\ state'[p] = "executable" => instance'[p] = Null
    BY DEF PrimaryInv
  <2>0. p \in CommandBuffer /\ commands[p] \in Seq(1..n) /\ CommandsOf(p) \subseteq 1..n
    BY <1>4, <1>8
  <2>1. /\ Path(heap, commands[p], Outside, PlaceOf(p))
        /\ \A k \in CommandsOf(p) : Placed(instances, heap[k])
    BY DEF PlaceInv, PrimaryInv
  <2>2. Path(heap', commands[p], Outside, PlaceOf(p))
    <3>1. \A k \in CommandsOf(p) : heap'[k] = heap[k]
      BY <1>1, <2>0
    <3> QED  BY <2>0, <2>1, <3>1, BufferPathKept
  <2>3. CASE p = c
    <3>1. StartsAt(heap'[n + 1]) = PlaceOf(p) /\ LeadsTo(heap'[n + 1]) = PlaceOf(p)'
      BY <1>1, <2>3
    <3>2. commands[p] \in Seq(1..(n + 1)) /\ n + 1 \in 1..(n + 1)
      <4>1. 1..n \subseteq 1..(n + 1)
        BY <1>1
      <4> QED  BY <1>1, <2>0, <4>1, SeqMonotonic
    <3>3. Path(heap', Append(commands[p], n + 1), Outside, PlaceOf(p)')
      BY <2>2, <3>1, <3>2, PathAppend
    <3>4. \A k \in CommandsOf(p)' : Placed(instances', heap'[k])
      BY <1>1, <1>5, <1>7, <2>0, <2>1, <2>3
    <3> QED  BY <1>2, <1>5, <2>3, <3>3, <3>4
  <2>4. CASE p # c
    <3>1. \A k \in CommandsOf(p)' : Placed(instances', heap'[k])
      BY <1>6, <1>7, <2>0, <2>1, <2>4
    <3>2. state'[p] = "executable" => instance'[p] = Null
      BY <1>2, <2>0, <2>4 DEF PlaceInv, PrimaryInv
    <3> QED  BY <1>6, <2>0, <2>2, <2>4, <3>1, <3>2
  <2> QED  BY <2>3, <2>4
<1>10. SecondaryInv'
  <2> SUFFICES ASSUME NEW s \in Secondary
               PROVE  /\ (instance[s] = Null /\ SubpassOf(calls[s]) = 0)'
                      /\ (state[s] = "recording" => calls[s] # <<>>)'
                      /\ (\A k \in CommandsOf(s) :
                           /\ SubpassOf(heap[k].calls) = 0
                           /\ heap[k].type \in IF Continues(s) THEN {"draw", "drawIndexed"}
                                               ELSE {"dispatch"})'
                      /\ (\A d \in CommandBuffer \ {s} :
                            CommandsOf(d) \cap CommandsOf(s) # {}
                              => d \in Primary /\ s \in executes[d])'
    BY DEF SecondaryInv
  <2>0. /\ s \in CommandBuffer /\ CommandsOf(s) \subseteq 1..n
        /\ Continues(s)' <=> Continues(s)
    BY <1>3, <1>4, <1>8
  <2>1. (instance[s] = Null /\ SubpassOf(calls[s]) = 0)'
    BY <1>3, <2>0 DEF PlaceInv, SecondaryInv
  <2>2. (state[s] = "recording" => calls[s] # <<>>)'
    BY <1>2, <1>3, <2>0 DEF PlaceInv, SecondaryInv
  <2>3. ASSUME NEW k \in CommandsOf(s)'
        PROVE  /\ SubpassOf(heap'[k].calls) = 0
               /\ heap'[k].type \in IF Continues(s)' THEN {"draw", "drawIndexed"} ELSE {"dispatch"}
    <3>1. CASE k \in CommandsOf(s)
      <4>1. heap'[k] = heap[k]
        BY <1>1, <2>0, <3>1
      <4> QED  BY <2>0, <3>1, <4>1 DEF PlaceInv, SecondaryInv
    <3>2. CASE k \notin CommandsOf(s)
      <4>1. s = c /\ k = n + 1
        BY <1>5, <1>6, <2>0, <2>3, <3>2
      <4> QED  BY <1>1, <2>0, <4>1
    <3> QED  BY <3>1, <3>2
  <2>4. ASSUME NEW d \in CommandBuffer \ {s}, CommandsOf(d)' \cap CommandsOf(s)' # {}
        PROVE  d \in Primary /\ s \in executes'[d]
    <3>1. CommandsOf(d) \subseteq 1..n /\ n + 1 \notin 1..n
      BY <1>1, <1>4
    <3>2. CommandsOf(d) \cap CommandsOf(s) # {}
      BY <1>5, <1>6, <2>0, <2>4, <3>1
    <3> QED  BY <1>2, <3>2 DEF PlaceInv, SecondaryInv
  <2> QED  BY <2>1, <2>2, <2>3, <2>4
<1>11. QueueInv'
  <2>1. PICK q : Renders(q) /\ Path(heap, Cmds, q, Outside)
    BY DEF PlaceInv, QueueInv
  <2>2. Renders(q)'
    <3>1. q[1] \in 0..Len(instances')
      BY <1>1, <2>1 DEF Renders
    <3>2. ASSUME NEW i \in 1..Len(instances')
          PROVE  /\ instances'[i].Rendering <=> i = q[1]
                 /\ i = q[1] => instances'[i].SubpassIndex = q[2]
      <4>1. CASE i <= Len(instances)
        <5>1. i \in 1..Len(instances) /\ instances'[i] = instances[i]
          BY <1>1, <4>1
        <5> QED  BY <2>1, <5>1 DEF Renders
      <4>2. CASE i > Len(instances)
        <5>1. i # q[1]
          BY <1>1, <2>1, <4>2 DEF Renders
        <5> QED  BY <4>2, <5>1
      <4> QED  BY <1>1, <4>1, <4>2
    <3> QED  BY <3>1, <3>2 DEF Renders
  <2>3. Path(heap', Cmds', q, Outside)
    <3>1. \A i \in DOMAIN queue : heap'[queue[i].cmd] = heap[queue[i].cmd]
      BY <1>1, QueueEntry DEF n
    <3> QED  BY <1>2, <2>1, <3>1, QueuePathKept
  <2>4. ASSUME NEW i \in DOMAIN queue
        PROVE  /\ state'[queue[i].of] = "executable"
               /\ queue[i].cmd \in CommandsOf(queue[i].of)'
    <3>1. PICK d \in Primary : d = queue[i].of
      BY QueueEntry
    <3>2. state[d] = "executable" /\ queue[i].cmd \in CommandsOf(d)
      BY <3>1 DEF PlaceInv, QueueInv
    <3>3. d # c /\ d \in CommandBuffer
      BY <1>2, <1>8, <3>2
    <3> QED  BY <1>2, <1>6, <3>1, <3>2, <3>3 DEF CommandsOf
  <2> QED  BY <1>2, <2>2, <2>3, <2>4 DEF QueueInv
<1> QED  BY <1>9, <1>10, <1>11 DEF PlaceInv

(* The record of a command, and that a primary buffer is no secondary one.   *)
LEMMA LevelFacts ==
  /\ \A c \in CommandBuffer : c \in Primary \/ c \in Secondary
  /\ \A c \in Primary : c \notin Secondary /\ ~Continues(c)
BY BufferAssumption DEF CommandBuffer, Continues

(* A call that records a command and leaves the instance of its buffer.      *)
LEMMA CommandPlaces ==
  ASSUME TypeInv, RecInv, PlaceInv, NEW c \in CommandBuffer,
         NEW op \in {"draw", "drawIndexed", "dispatch", "nextSubpass", "clearAttachments"},
         Recorded(c, op), NEW captured,
         UNCHANGED <<instance, instances>>,
         op = "dispatch" => ~Inside(c),
         op \in {"draw", "drawIndexed"} => Inside(c),
         op \in {"nextSubpass", "clearAttachments"} => instance[c] # Null,
         op = "nextSubpass" =>
           SubpassOf(calls[c]) + 1 < Len(instances[instance[c]].pass.subpasses),
         NEW i, i = (IF op = "dispatch" THEN Null ELSE instance[c]),
         Push(c, op, captured, i)
  PROVE  PlaceInv'
<1> DEFINE r == [type |-> op, context |-> captured, instance |-> i, calls |-> calls[c]]
<1>1. heap' = Append(heap, r) /\ commands' = [commands EXCEPT ![c] = Append(@, Len(heap) + 1)]
  BY DEF Push
<1>2. r.type = op /\ r.instance = i /\ r.calls = calls[c]
  OBVIOUS
<1> HIDE DEF r
<1>3. Calling(c, op)
  BY DEF Recorded
<1>4. /\ SubpassOf(calls'[c]) = IF op = "nextSubpass" THEN SubpassOf(calls[c]) + 1
                                ELSE SubpassOf(calls[c])
      /\ SubpassOf(calls[c]) \in Nat
  BY <1>3, CallFacts
<1>5. /\ Len(instances) \in Nat /\ instance[c] \in 1..Len(instances) \cup {Null}
      /\ \A k \in 1..Len(instances') : ~(k > Len(instances))
  BY DEF TypeInv, CommandsInv, Handles
<1>6. ASSUME c \in Primary
      PROVE  StartsAt(r) = PlaceOf(c) /\ LeadsTo(r) = PlaceOf(c)' /\ Placed(instances', r)
  <2>1. Inside(c) <=> instance[c] # Null
    BY <1>6, LevelFacts DEF Inside
  <2>2. CASE op = "dispatch"
    <3>1. instance[c] = Null /\ instance'[c] = Null
      BY <2>1, <2>2
    <3> QED  BY <1>2, <2>2, <3>1 DEF StartsAt, LeadsTo, PlaceOf, Placed
  <2>3. CASE op # "dispatch"
    <3>1. /\ instance[c] # Null /\ instance'[c] = instance[c] /\ i = instance[c]
          /\ instance[c] \in 1..Len(instances)
      BY <1>5, <2>1, <2>3
    <3>2. StartsAt(r) = PlaceOf(c)
      BY <1>2, <2>3, <3>1 DEF StartsAt, PlaceOf
    <3>3. LeadsTo(r) = PlaceOf(c)'
      <4>1. PlaceOf(c)' = At(instance[c], SubpassOf(calls'[c]))
        BY <3>1 DEF PlaceOf
      <4>2. LeadsTo(r) = IF op = "nextSubpass" THEN At(instance[c], SubpassOf(calls[c]) + 1)
                         ELSE At(instance[c], SubpassOf(calls[c]))
        BY <1>2, <2>3, <3>1 DEF LeadsTo
      <4> QED  BY <1>4, <4>1, <4>2
    <3>4. Placed(instances', r)
      BY <1>2, <3>1 DEF Placed
    <3> QED  BY <3>2, <3>3, <3>4
  <2> QED  BY <2>2, <2>3
<1>7. ASSUME c \in Secondary
      PROVE  /\ instance'[c] = Null /\ SubpassOf(calls'[c]) = 0 /\ SubpassOf(r.calls) = 0
             /\ r.type \in IF Continues(c) THEN {"draw", "drawIndexed"} ELSE {"dispatch"}
  <2>1. instance[c] = Null /\ SubpassOf(calls[c]) = 0
    BY <1>7 DEF PlaceInv, SecondaryInv
  <2>2. op \in {"draw", "drawIndexed", "dispatch"} /\ (Inside(c) <=> Continues(c))
    BY <2>1 DEF Inside
  <2>3. op \in IF Continues(c) THEN {"draw", "drawIndexed"} ELSE {"dispatch"}
    BY <2>2
  <2> QED  BY <1>2, <1>4, <2>1, <2>2, <2>3
<1>8. /\ Len(instances') \in Nat /\ Len(instances') >= Len(instances)
      /\ \A k \in 1..Len(instances) : instances'[k] = instances[k]
      /\ \A k \in 1..Len(instances') : k > Len(instances) => ~instances'[k].Rendering
      /\ \A d \in CommandBuffer : d # c => instance'[d] = instance[d]
  BY <1>5
<1> QED  BY <1>1, <1>6, <1>7, <1>8, PushPlaces

(* The calls.                                                                *)
LEMMA RecordPlaces ==
  ASSUME TypeInv, RecInv, PlaceInv, NEW c \in CommandBuffer, Record(c)
  PROVE  PlaceInv'
<1>1. CASE Begin(c)
  <2>1. PICK t \in Scripts[c] : calls' = [calls EXCEPT ![c] = <<t[1]>>]
    BY <1>1 DEF Begin
  <2>2. t \in Seq(Call) /\ t # <<>> /\ t[1].op \in {"begin", "continue"}
    BY ScriptAssumption
  <2>3. t[1] \in Call
    BY <2>2, HeadTailProperties
  <2>4. SubpassOf(<<t[1]>>) = 0 /\ <<t[1]>> # <<>>
    BY <2>2, <2>3, SubpassAtFirst
  <2>5. ~Pending(c) /\ Emptied(c, "recording")
    BY <1>1 DEF Begin
  <2> QED  BY <2>1, <2>4, <2>5, EmptiedPlaces
<1>2. CASE Reset(c)
  <2>1. calls' = [calls EXCEPT ![c] = <<>>] /\ ~Pending(c) /\ Emptied(c, "initial")
    BY <1>2 DEF Reset
  <2> QED  BY <2>1, SubpassAtFirst, EmptiedPlaces
<1>3. CASE End(c)
  BY <1>3, EndPlaces
<1>4. CASE ClearWithoutInstance(c)
  BY <1>4, PlacesUnchanged DEF ClearWithoutInstance, bufferVars, deviceVars
<1>5. CASE \/ BindPipeline(c) \/ BindDescriptorSets(c) \/ PushConstants(c)
           \/ BindVertexBuffers(c) \/ BindIndexBuffer(c)
  BY <1>5, BindPlaces
     DEF BindPipeline, BindDescriptorSets, PushConstants, BindVertexBuffers, BindIndexBuffer
<1>6. CASE Dispatch(c)
  BY <1>6, CommandPlaces DEF Dispatch
<1>7. CASE Draw(c)
  BY <1>7, CommandPlaces DEF Draw
<1>8. CASE NextSubpass(c)
  BY <1>8, CommandPlaces DEF NextSubpass
<1>9. CASE ClearAttachments(c)
  BY <1>9, CommandPlaces DEF ClearAttachments
<1>10. CASE BeginRenderPass(c)
  <2> DEFINE new == [pass |-> Head(script[c]).pass, Rendering |-> FALSE, SubpassIndex |-> 0,
                     AttachmentsInitialized |-> {}]
             m == Len(instances)
             r == [type |-> "beginRenderPass", context |-> Null, instance |-> m + 1,
                   calls |-> calls[c]]
  <2>1. /\ c \in Primary /\ ~Inside(c) /\ Recorded(c, "beginRenderPass")
        /\ instances' = Append(instances, new)
        /\ instance' = [instance EXCEPT ![c] = m + 1]
        /\ heap' = Append(heap, r)
        /\ commands' = [commands EXCEPT ![c] = Append(@, Len(heap) + 1)]
    BY <1>10 DEF BeginRenderPass, Push
  <2>2. /\ m \in Nat /\ DOMAIN instance = CommandBuffer /\ instances \in Seq(InstanceRecord)
    BY DEF TypeInv, CommandsInv
  <2>3. /\ Len(instances') = m + 1 /\ \A i \in 1..m : instances'[i] = instances[i]
        /\ instances'[m + 1] = new
    BY <2>1, <2>2
  <2>4. /\ r.type = "beginRenderPass" /\ r.instance = m + 1 /\ r.calls = calls[c]
        /\ ~new.Rendering
    OBVIOUS
  <2> HIDE DEF new, r, m
  <2>5. instance'[c] = m + 1 /\ \A d \in CommandBuffer : d # c => instance'[d] = instance[d]
    BY <2>1, <2>2
  <2>6. SubpassOf(calls'[c]) = 0
    BY <2>1, CallFacts DEF Recorded
  <2>7. instance[c] = Null /\ instance'[c] # Null
    BY <2>1, <2>2, <2>5, NullAssumption DEF Inside
  <2>8. StartsAt(r) = PlaceOf(c) /\ LeadsTo(r) = PlaceOf(c)' /\ Placed(instances', r)
    BY <2>2, <2>3, <2>4, <2>5, <2>6, <2>7 DEF StartsAt, LeadsTo, PlaceOf, Placed
  <2>9. \A i \in 1..Len(instances') : i > m => ~instances'[i].Rendering
    BY <2>2, <2>3, <2>4
  <2>10. c \notin Secondary
    BY <2>1, LevelFacts
  <2>11. /\ Len(instances') \in Nat /\ Len(instances') >= Len(instances)
         /\ \A i \in 1..Len(instances) : instances'[i] = instances[i]
         /\ \A i \in 1..Len(instances') : i > Len(instances) => ~instances'[i].Rendering
    BY <2>2, <2>3, <2>9 DEF m
  <2> QED  BY <2>1, <2>5, <2>8, <2>10, <2>11, PushPlaces
<1>11. CASE EndRenderPass(c)
  <2> DEFINE r == [type |-> "endRenderPass", context |-> Null, instance |-> instance[c],
                   calls |-> calls[c]]
  <2>1. /\ instance[c] # Null /\ Recorded(c, "endRenderPass") /\ instances' = instances
        /\ instance' = [instance EXCEPT ![c] = Null]
        /\ heap' = Append(heap, r)
        /\ commands' = [commands EXCEPT ![c] = Append(@, Len(heap) + 1)]
    BY <1>11 DEF EndRenderPass, Push
  <2>2. /\ DOMAIN instance = CommandBuffer /\ instance[c] \in 1..Len(instances)
        /\ Len(instances) \in Nat
    BY <2>1 DEF TypeInv, CommandsInv, Handles
  <2>3. r.type = "endRenderPass" /\ r.instance = instance[c] /\ r.calls = calls[c]
    OBVIOUS
  <2> HIDE DEF r
  <2>4. instance'[c] = Null /\ \A d \in CommandBuffer : d # c => instance'[d] = instance[d]
    BY <2>1, <2>2
  <2>5. StartsAt(r) = PlaceOf(c) /\ LeadsTo(r) = PlaceOf(c)' /\ Placed(instances', r)
    BY <2>1, <2>2, <2>3, <2>4 DEF StartsAt, LeadsTo, PlaceOf, Placed
  <2>6. c \notin Secondary
    BY <2>1 DEF PlaceInv, SecondaryInv
  <2>7. /\ Len(instances') \in Nat /\ Len(instances') >= Len(instances)
        /\ \A i \in 1..Len(instances) : instances'[i] = instances[i]
        /\ \A i \in 1..Len(instances') : i > Len(instances) => ~instances'[i].Rendering
    BY <2>1, <2>2
  <2> QED  BY <2>1, <2>4, <2>5, <2>6, <2>7, PushPlaces
<1> QED  BY <1>1, <1>2, <1>3, <1>4, <1>5, <1>6, <1>7, <1>8, <1>9, <1>10, <1>11 DEF Record

(* vkCmdExecuteCommands: the commands of the secondary buffer, in no other   *)
(* buffer and not in the queue, all start and end where the primary one is.  *)
LEMMA ExecutePlaces ==
  ASSUME TypeInv, RecInv, PlaceInv, NEW p \in Primary, NEW s \in Secondary,
         ExecuteCommands(p, s)
  PROVE  PlaceInv'
<1> DEFINE n == Len(heap)
           i == instance[p]
<1>1. /\ p \in CommandBuffer /\ s \in CommandBuffer /\ p # s /\ s \notin Primary
      /\ ~Continues(p) /\ p \notin Secondary
  BY LevelFacts DEF CommandBuffer
<1>2. /\ Calling(p, "executeCommands") /\ heap' = Retargeted(CommandsOf(s), i)
      /\ commands' = [commands EXCEPT ![p] = @ \o commands[s]]
      /\ executes' = [executes EXCEPT ![p] = @ \cup {s}]
      /\ UNCHANGED <<state, instance, instances, queue>>
      /\ \A d \in Primary : s \notin executes[d]
      /\ Inside(p) = Continues(s) /\ (Inside(p) => SubpassOf(calls[p]) = 0)
  BY DEF ExecuteCommands, deviceVars, CommandsOf, Elements
<1>3. /\ i \in 1..Len(instances) \cup {Null} /\ Len(instances) \in Nat /\ n \in Nat
      /\ heap \in Seq(CommandRecord)
      /\ DOMAIN commands = CommandBuffer /\ DOMAIN executes = CommandBuffer
  BY <1>1 DEF TypeInv, StateInv, CommandsInv, Handles
<1>4. ASSUME NEW k \in 1..n
      PROVE  /\ k \notin CommandsOf(s) => heap'[k] = heap[k]
             /\ heap'[k].type = heap[k].type /\ heap'[k].calls = heap[k].calls
             /\ k \in CommandsOf(s) /\ heap[k].type \in {"draw", "drawIndexed"}
                  => heap'[k].instance = i
             /\ heap[k].type \notin {"draw", "drawIndexed"} => heap'[k] = heap[k]
  <2>1. i \in Nat \cup {Null}
    BY <1>3
  <2>2. heap'[k] = IF k \in CommandsOf(s) /\ heap[k].type \in {"draw", "drawIndexed"}
                   THEN [heap[k] EXCEPT !.instance = i] ELSE heap[k]
    <3>1. PICK cmds : cmds = CommandsOf(s)
      OBVIOUS
    <3>2. heap \in Seq(CommandRecord) /\ heap' = Retargeted(cmds, i) /\ k \in 1..Len(heap)
      BY <1>2, <1>3, <3>1
    <3>3. heap'[k] = IF k \in cmds /\ heap[k].type \in {"draw", "drawIndexed"}
                     THEN [heap[k] EXCEPT !.instance = i] ELSE heap[k]
      <4> HIDE DEF i, n
      <4> QED  BY <2>1, <3>2, RetargetTypes
    <3> QED  BY <3>1, <3>3
  <2>3. heap[k] \in CommandRecord
    BY <1>3
  <2>4. /\ [heap[k] EXCEPT !.instance = i].type = heap[k].type
        /\ [heap[k] EXCEPT !.instance = i].calls = heap[k].calls
        /\ [heap[k] EXCEPT !.instance = i].instance = i
    BY <2>3 DEF CommandRecord
  <2> QED  BY <2>2, <2>4
<1>5. /\ \A d \in CommandBuffer : d # p => calls'[d] = calls[d]
      /\ \A t \in Secondary : Continues(t)' <=> Continues(t)
      /\ SubpassOf(calls'[p]) = SubpassOf(calls[p])
      /\ state[p] = "recording"
  BY <1>1, <1>2, CallFacts
<1>6. \A d \in CommandBuffer : CommandsOf(d) \subseteq 1..n /\ commands[d] \in Seq(1..n)
  BY CommandsInHeap
<1>7. ASSUME NEW d \in CommandBuffer, d # s PROVE CommandsOf(d) \cap CommandsOf(s) = {}
  BY <1>2, <1>7 DEF PlaceInv, SecondaryInv
<1>8. /\ commands'[p] = commands[p] \o commands[s]
      /\ CommandsOf(p)' = CommandsOf(p) \cup CommandsOf(s)
  <2>1. commands'[p] = commands[p] \o commands[s]
    BY <1>1, <1>2, <1>3
  <2>2. Elements(commands[p] \o commands[s]) = Elements(commands[p]) \cup Elements(commands[s])
    BY <1>1, <1>6, RangeConcat
  <2> QED  BY <2>1, <2>2 DEF CommandsOf
<1>9. \A d \in CommandBuffer : d # p => commands'[d] = commands[d] /\ CommandsOf(d)' = CommandsOf(d)
                                        /\ executes'[d] = executes[d]
  BY <1>2, <1>3 DEF CommandsOf
<1>10. executes'[p] = executes[p] \cup {s}
  BY <1>1, <1>2, <1>3
<1>11. \A d \in CommandBuffer : PlaceOf(d)' = PlaceOf(d)
  BY <1>2, <1>5 DEF PlaceOf
<1>12. ASSUME NEW k \in CommandsOf(s)
       PROVE  /\ StartsAt(heap'[k]) = PlaceOf(p) /\ LeadsTo(heap'[k]) = PlaceOf(p)
              /\ Placed(instances', heap'[k])
  <2>1. k \in 1..n
    BY <1>1, <1>6
  <2>2. /\ SubpassOf(heap[k].calls) = 0
        /\ heap[k].type \in IF Continues(s) THEN {"draw", "drawIndexed"} ELSE {"dispatch"}
    BY DEF PlaceInv, SecondaryInv
  <2>3. CASE Continues(s)
    <3>1. i # Null /\ SubpassOf(calls[p]) = 0
      BY <1>1, <1>2, <2>3 DEF Inside
    <3>2. PlaceOf(p) = At(i, 0)
      BY <3>1 DEF PlaceOf
    <3>3. /\ heap'[k].type \in {"draw", "drawIndexed"} /\ heap'[k].instance = i
          /\ SubpassOf(heap'[k].calls) = 0
      BY <1>4, <2>1, <2>2, <2>3
    <3>4. StartsAt(heap'[k]) = At(i, 0) /\ LeadsTo(heap'[k]) = At(i, 0)
      BY <3>3 DEF StartsAt, LeadsTo
    <3>5. Placed(instances', heap'[k])
      BY <1>2, <1>3, <3>1, <3>3 DEF Placed
    <3> QED  BY <3>2, <3>4, <3>5
  <2>4. CASE ~Continues(s)
    <3>1. i = Null
      BY <1>2, <2>4 DEF Inside
    <3>2. PlaceOf(p) = Outside
      BY <3>1 DEF PlaceOf
    <3>3. heap'[k].type = "dispatch"
      BY <1>4, <2>1, <2>2, <2>4
    <3> QED  BY <3>2, <3>3 DEF StartsAt, LeadsTo, Placed
  <2> QED  BY <2>3, <2>4
<1> HIDE DEF n, i
<1>13. PrimaryInv'
  <2> SUFFICES ASSUME NEW d \in Primary
               PROVE  /\ Path(heap', commands'[d], Outside, PlaceOf(d)')
                      /\ \A k \in CommandsOf(d)' : Placed(instances', heap'[k])
                      /\ state'[d] = "executable" => instance'[d] = Null
    BY DEF PrimaryInv
  <2>1. d \in CommandBuffer /\ d # s
    BY <1>1 DEF CommandBuffer
  <2>2. /\ Path(heap, commands[d], Outside, PlaceOf(d))
        /\ \A k \in CommandsOf(d) : Placed(instances, heap[k])
        /\ state[d] = "executable" => instance[d] = Null
    BY DEF PlaceInv, PrimaryInv
  <2>3. \A k \in CommandsOf(d) : heap'[k] = heap[k]
    BY <1>4, <1>6, <1>7, <2>1
  <2>4. Path(heap', commands[d], Outside, PlaceOf(d))
    BY <2>1, <2>2, <2>3, BufferPathKept
  <2>5. \A k \in CommandsOf(d) : Placed(instances', heap'[k])
    BY <1>2, <2>2, <2>3
  <2>6. CASE d = p
    <3>1. Path(heap', commands[s], PlaceOf(p), PlaceOf(p))
      <4>1. \A j \in DOMAIN commands[s] : commands[s][j] \in CommandsOf(s)
        BY DEF CommandsOf, Elements
      <4>2. \A j \in DOMAIN commands[s] : /\ StartsAt(heap'[commands[s][j]]) = PlaceOf(p)
                                          /\ LeadsTo(heap'[commands[s][j]]) = PlaceOf(p)
        BY <1>12, <4>1
      <4> QED  BY <1>1, <1>6, <4>2, PathLoop
    <3>2. Path(heap', commands[p] \o commands[s], Outside, PlaceOf(p))
      BY <1>1, <1>6, <2>4, <2>6, <3>1, PathConcat
    <3> QED  BY <1>2, <1>8, <1>11, <1>12, <2>1, <2>2, <2>5, <2>6, <3>2
  <2>7. CASE d # p
    BY <1>2, <1>9, <1>11, <2>1, <2>2, <2>4, <2>5, <2>7
  <2> QED  BY <2>6, <2>7
<1>14. SecondaryInv'
  <2> SUFFICES ASSUME NEW t \in Secondary
               PROVE  /\ (instance[t] = Null /\ SubpassOf(calls[t]) = 0)'
                      /\ (state[t] = "recording" => calls[t] # <<>>)'
                      /\ (\A k \in CommandsOf(t) :
                           /\ SubpassOf(heap[k].calls) = 0
                           /\ heap[k].type \in IF Continues(t) THEN {"draw", "drawIndexed"}
                                               ELSE {"dispatch"})'
                      /\ (\A d \in CommandBuffer \ {t} :
                            CommandsOf(d) \cap CommandsOf(t) # {}
                              => d \in Primary /\ t \in executes[d])'
    BY DEF SecondaryInv
  <2>1. t \in CommandBuffer /\ t # p
    BY <1>1 DEF CommandBuffer
  <2>2. (instance[t] = Null /\ SubpassOf(calls[t]) = 0)'
    BY <1>2, <1>5, <2>1 DEF PlaceInv, SecondaryInv
  <2>3. (state[t] = "recording" => calls[t] # <<>>)'
    BY <1>2, <1>5, <2>1 DEF PlaceInv, SecondaryInv
  <2>4. ASSUME NEW k \in CommandsOf(t)'
        PROVE  /\ SubpassOf(heap'[k].calls) = 0
               /\ heap'[k].type \in IF Continues(t)' THEN {"draw", "drawIndexed"} ELSE {"dispatch"}
    <3>1. k \in CommandsOf(t) /\ k \in 1..n
      BY <1>6, <1>9, <2>1
    <3>2. heap'[k].type = heap[k].type /\ heap'[k].calls = heap[k].calls
      BY <1>4, <3>1
    <3> QED  BY <1>5, <3>1, <3>2 DEF PlaceInv, SecondaryInv
  <2>5. ASSUME NEW d \in CommandBuffer \ {t}, CommandsOf(d)' \cap CommandsOf(t)' # {}
        PROVE  d \in Primary /\ t \in executes'[d]
    <3>1. CASE CommandsOf(d) \cap CommandsOf(t) # {}
      <4>1. d \in Primary /\ t \in executes[d]
        BY <2>5, <3>1 DEF PlaceInv, SecondaryInv
      <4> QED  BY <1>9, <1>10, <4>1
    <3>2. CASE CommandsOf(d) \cap CommandsOf(t) = {}
      <4>1. d = p /\ CommandsOf(s) \cap CommandsOf(t) # {}
        BY <1>8, <1>9, <2>1, <2>5, <3>2
      <4>2. t = s
        BY <1>7, <2>1, <4>1
      <4> QED  BY <1>10, <4>1, <4>2
    <3> QED  BY <3>1, <3>2
  <2> QED  BY <2>2, <2>3, <2>4, <2>5
<1>15. QueueInv'
  <2>1. PICK q : Renders(q) /\ Path(heap, Cmds, q, Outside)
    BY DEF PlaceInv, QueueInv
  <2>2. Renders(q)'
    BY <1>2, <2>1 DEF Renders
  <2>3. ASSUME NEW j \in DOMAIN queue
        PROVE  /\ heap'[queue[j].cmd] = heap[queue[j].cmd]
               /\ state'[queue[j].of] = "executable"
               /\ queue[j].cmd \in CommandsOf(queue[j].of)'
    <3>1. PICK d \in Primary : d = queue[j].of
      BY QueueEntry
    <3>2. state[d] = "executable" /\ queue[j].cmd \in CommandsOf(d)
      BY <3>1 DEF PlaceInv, QueueInv
    <3>3. d # p /\ d # s /\ d \in CommandBuffer
      BY <1>1, <1>5, <3>2 DEF CommandBuffer
    <3>4. heap'[queue[j].cmd] = heap[queue[j].cmd]
      BY <1>4, <1>6, <1>7, <3>2, <3>3
    <3> QED  BY <1>2, <1>9, <3>1, <3>2, <3>3, <3>4 DEF CommandsOf
  <2>4. Path(heap', Cmds', q, Outside)
    BY <1>2, <2>1, <2>3, QueuePathKept
  <2> QED  BY <1>2, <2>2, <2>3, <2>4 DEF QueueInv
<1> QED  BY <1>13, <1>14, <1>15 DEF PlaceInv

(* What is in a concatenation.                                               *)
LEMMA ConcatFacts ==
  ASSUME NEW T, NEW u \in Seq(T), NEW v \in Seq(T), NEW m, m = Len(u), NEW l, l = Len(v)
  PROVE  /\ m \in Nat /\ l \in Nat /\ DOMAIN u = 1..m /\ DOMAIN (u \o v) = 1..(m + l)
         /\ \A j \in 1..m : (u \o v)[j] = u[j]
         /\ \A j \in 1..l : (u \o v)[m + j] = v[j]
         /\ u \o v = [j \in 1..(m + l) |-> IF j <= m THEN u[j] ELSE v[j - m]]
<1> DEFINE w == u \o v
<1>1. /\ m \in Nat /\ l \in Nat /\ w \in Seq(T) /\ Len(w) = m + l /\ DOMAIN u = 1..m
      /\ DOMAIN w = 1..(m + l)
  OBVIOUS
<1>2. \A j \in 1..(m + l) : w[j] = IF j <= m THEN u[j] ELSE v[j - m]
  BY ConcatProperties
<1>3. (\A j \in 1..m : w[j] = u[j]) /\ \A j \in 1..l : w[m + j] = v[j]
  OBVIOUS
<1> HIDE DEF w
<1>4. w = [j \in 1..(m + l) |-> w[j]]
  BY <1>1
<1>5. w = [j \in 1..(m + l) |-> IF j <= m THEN u[j] ELSE v[j - m]]
  BY <1>2, <1>4
<1> QED  BY <1>1, <1>3, <1>5 DEF w

(* vkQueueSubmit: a buffer that is executable has left its render passes.    *)
LEMMA SubmitPlaces ==
  ASSUME TypeInv, PlaceInv, NEW p \in Primary, Submit(p)
  PROVE  PlaceInv'
<1> DEFINE new == [j \in DOMAIN commands[p] |-> [cmd |-> commands[p][j], of |-> p]]
           E == [cmd : 1..Len(heap), of : Primary]
           m == Len(queue)
           l == Len(commands[p])
<1>1. /\ queue' = queue \o new /\ state[p] = "executable"
      /\ UNCHANGED <<state, calls, instance, commands, executes, heap, instances>>
  BY DEF Submit, bufferVars
<1>2. /\ commands[p] \in Seq(1..Len(heap)) /\ new \in Seq(E) /\ Len(new) = l
      /\ \A j \in 1..l : new[j].cmd = commands[p][j] /\ new[j].of = p
  BY Submission
<1>3. queue \in Seq(E) /\ m \in Nat /\ l \in Nat /\ DOMAIN commands[p] = 1..l
  BY <1>2 DEF TypeInv, DeviceInv
<1> HIDE DEF new, E
<1>4. /\ DOMAIN queue' = 1..(m + l) /\ DOMAIN queue = 1..m
      /\ \A j \in 1..m : queue'[j] = queue[j]
      /\ \A j \in 1..l : queue'[m + j] = new[j]
  <2>1. PICK u : u = queue
    OBVIOUS
  <2>2. u \in Seq(E) /\ m = Len(u) /\ l = Len(new) /\ queue' = u \o new
    BY <1>1, <1>2, <1>3, <2>1
  <2> HIDE DEF m, l
  <2>3. /\ DOMAIN u = 1..m /\ DOMAIN (u \o new) = 1..(m + l)
        /\ \A j \in 1..m : (u \o new)[j] = u[j]
        /\ \A j \in 1..l : (u \o new)[m + j] = new[j]
    BY <1>2, <2>2, ConcatFacts
  <2> QED  BY <2>1, <2>2, <2>3
<1> HIDE DEF m, l
<1>5. ASSUME NEW j \in 1..(m + l), j > m
      PROVE  j - m \in 1..l /\ queue'[j].cmd = commands[p][j - m] /\ queue'[j].of = p
  <2>1. j - m \in 1..l /\ m + (j - m) = j
    BY <1>3, <1>5
  <2> QED  BY <1>2, <1>4, <2>1
<1>6. Cmds' = Cmds \o commands[p]
  <2>1. /\ Cmds \in Seq(1..Len(heap)) /\ Len(Cmds) = m
        /\ \A j \in 1..m : Cmds[j] = queue[j].cmd
    BY <1>4, CmdsType DEF m
  <2>2. PICK u : u = Cmds
    OBVIOUS
  <2>3. PICK v : v = commands[p]
    OBVIOUS
  <2>4. PICK T : T = 1..Len(heap)
    OBVIOUS
  <2>5. u \in Seq(T) /\ v \in Seq(T) /\ Len(u) = m /\ Len(v) = l
    BY <1>2, <2>1, <2>2, <2>3, <2>4 DEF l
  <2>7. u \o v = [j \in 1..(m + l) |-> IF j <= m THEN u[j] ELSE v[j - m]]
    BY <2>5, ConcatFacts
  <2>8. Cmds' = [j \in 1..(m + l) |-> queue'[j].cmd]
    BY <1>4 DEF Cmds
  <2>9. ASSUME NEW j \in 1..(m + l)
        PROVE  queue'[j].cmd = IF j <= m THEN u[j] ELSE v[j - m]
    <3>1. CASE j <= m
      <4>1. j \in 1..m
        BY <1>3, <3>1
      <4> QED  BY <1>4, <2>1, <2>2, <3>1, <4>1
    <3>2. CASE ~(j <= m)
      <4>1. j > m
        BY <1>3, <3>2
      <4> QED  BY <1>5, <2>3, <3>2, <4>1
    <3> QED  BY <3>1, <3>2
  <2>10. Cmds' = u \o v
    BY <2>7, <2>8, <2>9
  <2> QED  BY <2>2, <2>3, <2>10
<1>7. /\ \A d : PlaceOf(d)' = PlaceOf(d) /\ CommandsOf(d)' = CommandsOf(d)
      /\ \A d : Continues(d)' <=> Continues(d)
      /\ \A q : Renders(q)' <=> Renders(q)
  BY <1>1 DEF PlaceOf, CommandsOf, Continues, Renders
<1>8. PrimaryInv'
  BY <1>1, <1>7 DEF PlaceInv, PrimaryInv
<1>9. SecondaryInv'
  BY <1>1, <1>7 DEF PlaceInv, SecondaryInv
<1>10. QueueInv'
  <2>1. PICK q : Renders(q) /\ Path(heap, Cmds, q, Outside)
    BY DEF PlaceInv, QueueInv
  <2>2. Path(heap, commands[p], Outside, Outside)
    <3>1. instance[p] = Null /\ Path(heap, commands[p], Outside, PlaceOf(p))
      BY <1>1 DEF PlaceInv, PrimaryInv
    <3> QED  BY <3>1 DEF PlaceOf
  <2>3. Path(heap', Cmds', q, Outside)
    <3>1. Cmds \in Seq(1..Len(heap))
      BY CmdsType
    <3>2. Path(heap, Cmds \o commands[p], q, Outside)
      BY <1>2, <2>1, <2>2, <3>1, PathConcat
    <3> QED  BY <1>1, <1>6, <3>2
  <2>4. ASSUME NEW j \in DOMAIN queue'
        PROVE  /\ state'[queue'[j].of] = "executable"
               /\ queue'[j].cmd \in CommandsOf(queue[j].of)'
    <3>1. CASE j <= m
      <4>1. j \in DOMAIN queue /\ queue'[j] = queue[j]
        BY <1>3, <1>4, <3>1
      <4>2. PICK d : d = queue[j].of
        OBVIOUS
      <4>3. state[d] = "executable" /\ queue[j].cmd \in CommandsOf(d)
        BY <4>1, <4>2 DEF PlaceInv, QueueInv
      <4> QED  BY <1>1, <4>1, <4>2, <4>3 DEF CommandsOf
    <3>2. CASE ~(j <= m)
      <4>1. queue'[j].of = p /\ j - m \in 1..l /\ queue'[j].cmd = commands[p][j - m]
        BY <1>3, <1>4, <1>5, <3>2
      <4>2. queue'[j].cmd \in CommandsOf(p)
        BY <1>3, <4>1 DEF CommandsOf, Elements
      <4> QED  BY <1>1, <4>1, <4>2 DEF CommandsOf
    <3> QED  BY <3>1, <3>2
  <2> QED  BY <1>7, <2>1, <2>3, <2>4 DEF QueueInv
<1> QED  BY <1>8, <1>9, <1>10 DEF PlaceInv

(* The instances: they are in a subpass of their render pass, and have       *)
(* initialized attachments of the subpasses so far, of all of them while     *)
(* they are rendering.                                                       *)
ColorsTo(i, s) == UNION {Colors(i, t) : t \in 0..s}
PassesInv ==
  \A i \in 1..Len(instances) :
    /\ instances[i].SubpassIndex < Len(instances[i].pass.subpasses)
    /\ instances[i].AttachmentsInitialized \subseteq ColorsTo(i, instances[i].SubpassIndex)
    /\ instances[i].Rendering =>
         instances[i].AttachmentsInitialized = ColorsTo(i, instances[i].SubpassIndex)

(* The subpasses of a render pass.                                           *)
LEMMA PassFacts ==
  ASSUME TypeInv, NEW i \in 1..Len(instances)
  PROVE  /\ instances[i] \in InstanceRecord /\ instances[i].pass.subpasses \in Seq(SUBSET Image)
         /\ Len(instances[i].pass.subpasses) \in Nat /\ Len(instances[i].pass.subpasses) >= 1
<1>1. instances \in Seq(InstanceRecord)
  BY DEF TypeInv, CommandsInv
<1>2. instances[i] \in InstanceRecord
  BY <1>1
<1>3. instances[i].pass \in Passes
  BY <1>2 DEF InstanceRecord
<1>4. instances[i].pass.subpasses \in Seq(SUBSET Image) /\ instances[i].pass.subpasses # <<>>
  BY <1>3, PassAssumption
<1> QED  BY <1>2, <1>4, EmptySeq

(* The attachments of a subpass, and of the first ones.                      *)
LEMMA ColorsFacts ==
  ASSUME TypeInv, NEW i \in 1..Len(instances)
  PROVE  /\ \A s \in Nat : s < Len(instances[i].pass.subpasses) => Colors(i, s) \subseteq Image
         /\ ColorsTo(i, 0) = Colors(i, 0)
         /\ \A s \in Nat : ColorsTo(i, s + 1) = ColorsTo(i, s) \cup Colors(i, s + 1)
<1>1. ASSUME NEW s \in Nat, s < Len(instances[i].pass.subpasses)
      PROVE  Colors(i, s) \subseteq Image
  <2>1. PICK v : v = instances[i].pass.subpasses
    OBVIOUS
  <2>2. v \in Seq(SUBSET Image) /\ s + 1 \in 1..Len(v)
    BY <1>1, <2>1, PassFacts
  <2>3. v[s + 1] \in SUBSET Image
    BY <2>2, ElementOfSeq
  <2> QED  BY <2>1, <2>3 DEF Colors
<1>2. ColorsTo(i, 0) = Colors(i, 0)
  <2>1. 0..0 = {0}
    OBVIOUS
  <2>2. \A x : x \in ColorsTo(i, 0) <=> \E t \in 0..0 : x \in Colors(i, t)
    BY DEF ColorsTo
  <2>3. \A x : x \in ColorsTo(i, 0) <=> x \in Colors(i, 0)
    BY <2>1, <2>2
  <2> QED  BY <2>3
<1>3. ASSUME NEW s \in Nat
      PROVE  ColorsTo(i, s + 1) = ColorsTo(i, s) \cup Colors(i, s + 1)
  <2>1. \A t : t \in 0..(s + 1) <=> t \in 0..s \/ t = s + 1
    OBVIOUS
  <2>2. \A x : x \in ColorsTo(i, s + 1) <=> \E t \in 0..(s + 1) : x \in Colors(i, t)
    BY DEF ColorsTo
  <2>3. \A x : x \in ColorsTo(i, s) <=> \E t \in 0..s : x \in Colors(i, t)
    BY DEF ColorsTo
  <2>4. \A x : x \in ColorsTo(i, s + 1) <=> x \in ColorsTo(i, s) \/ x \in Colors(i, s + 1)
    BY <2>1, <2>2, <2>3
  <2> QED  BY <2>4
<1> QED  BY <1>1, <1>2, <1>3

(* Recording leaves the instances, or adds one that has not been begun.      *)
LEMMA RecordPasses ==
  ASSUME TypeInv, RecInv, PassesInv, NEW c \in CommandBuffer, Record(c)
  PROVE  PassesInv'
<1>1. CASE BeginRenderPass(c)
  <2> DEFINE new == [pass |-> Head(script[c]).pass, Rendering |-> FALSE, SubpassIndex |-> 0,
                     AttachmentsInitialized |-> {}]
             m == Len(instances)
  <2>1. instances' = Append(instances, new) /\ Calling(c, "beginRenderPass")
    BY <1>1 DEF BeginRenderPass, Recorded
  <2>2. /\ Head(script[c]) \in Call /\ Head(script[c]).op = "beginRenderPass"
        /\ instances \in Seq(InstanceRecord)
    BY <2>1, CallingTypes DEF TypeInv, CommandsInv
  <2>3. new.pass \in Passes
    BY <2>2 DEF Passes
  <2>4. new.pass.subpasses \in Seq(SUBSET Image) /\ new.pass.subpasses # <<>>
    BY <2>3, PassAssumption
  <2>5. Len(new.pass.subpasses) \in Nat /\ Len(new.pass.subpasses) > 0
    <3> HIDE DEF new
    <3> QED  BY <2>4, EmptySeq
  <2>6. new.SubpassIndex = 0 /\ new.AttachmentsInitialized = {} /\ ~new.Rendering
    OBVIOUS
  <2> HIDE DEF new, m
  <2>7. /\ m \in Nat /\ Len(instances') = m + 1 /\ instances'[m + 1] = new
        /\ \A i \in 1..m : instances'[i] = instances[i]
    BY <2>1, <2>2 DEF m
  <2>8. ASSUME NEW i \in 1..Len(instances')
        PROVE  (/\ instances[i].SubpassIndex < Len(instances[i].pass.subpasses)
                /\ instances[i].AttachmentsInitialized
                     \subseteq ColorsTo(i, instances[i].SubpassIndex)
                /\ instances[i].Rendering =>
                     instances[i].AttachmentsInitialized
                       = ColorsTo(i, instances[i].SubpassIndex))'
    <3>1. CASE i \in 1..m
      <4>1. instances'[i] = instances[i]
        BY <2>7, <3>1
      <4>2. \A s : ColorsTo(i, s)' = ColorsTo(i, s)
        BY <4>1 DEF ColorsTo, Colors
      <4> QED  BY <3>1, <4>1, <4>2 DEF PassesInv, m
    <3>2. CASE i \notin 1..m
      <4>1. instances'[i] = new
        BY <2>7, <3>2
      <4> QED  BY <2>5, <2>6, <4>1
    <3> QED  BY <3>1, <3>2
  <2> QED  BY <2>8 DEF PassesInv
<1>2. CASE ~BeginRenderPass(c)
  <2>1. instances' = instances
    BY <1>2 DEF Record, Begin, Reset, Emptied, End, BindPipeline, BindDescriptorSets,
         PushConstants, BindVertexBuffers, BindIndexBuffer, Bind, Dispatch, Draw, NextSubpass,
         EndRenderPass, ClearAttachments, ClearWithoutInstance
  <2> QED  BY <2>1 DEF PassesInv, ColorsTo, Colors
<1> QED  BY <1>1, <1>2

(* The command that is executed next: in the heap, placed, and the renderer  *)
(* is where it starts.                                                       *)
LEMMA RunFacts ==
  ASSUME TypeInv, PlaceInv, queue # <<>>
  PROVE  /\ Head(queue).cmd \in 1..Len(heap) /\ Cmd \in CommandRecord
         /\ Cmd.instance \in Handles
         /\ Placed(instances, Cmd) /\ Renders(StartsAt(Cmd))
         /\ Head(queue) = queue[1] /\ Len(queue) \in Nat /\ Len(queue) >= 1
         /\ Path(heap, Tail(Cmds), LeadsTo(Cmd), Outside)
<1> DEFINE E == [cmd : 1..Len(heap), of : Primary]
<1>1. queue \in Seq(E)
  BY DEF TypeInv, DeviceInv
<1> HIDE DEF E
<1>2. Len(queue) \in Nat /\ Len(queue) >= 1 /\ Head(queue) = queue[1] /\ 1 \in DOMAIN queue
  <2>1. Len(queue) \in Nat /\ Len(queue) >= 1
    BY <1>1, EmptySeq
  <2> QED  BY <1>1, <2>1
<1>3. queue[1].cmd \in 1..Len(heap) /\ queue[1].of \in Primary
  BY <1>2, QueueEntry
<1>4. Cmd = heap[queue[1].cmd] /\ Cmd \in CommandRecord /\ Cmd.instance \in Handles
  BY <1>2, <1>3 DEF Cmd, TypeInv, CommandsInv
<1>5. Placed(instances, Cmd)
  BY <1>2, <1>3, <1>4 DEF PlaceInv, QueueInv, PrimaryInv
<1>6. PICK q : Renders(q) /\ Path(heap, Cmds, q, Outside)
  BY DEF PlaceInv, QueueInv
<1>7. Cmds \in Seq(1..Len(heap)) /\ Cmds # <<>> /\ Head(Cmds) = queue[1].cmd
  <2>1. Cmds \in Seq(1..Len(heap)) /\ Len(Cmds) >= 1 /\ Cmds[1] = queue[1].cmd
    BY <1>2, CmdsType
  <2>2. Head(Cmds) = Cmds[1] /\ Cmds # <<>>
    BY <2>1
  <2> QED  BY <2>1, <2>2
<1>8. q = StartsAt(heap[Head(Cmds)]) /\ Path(heap, Tail(Cmds), LeadsTo(heap[Head(Cmds)]), Outside)
  BY <1>6, <1>7, PathTail
<1> QED  BY <1>2, <1>3, <1>4, <1>5, <1>6, <1>7, <1>8

(* The queue without the command that is executed.                           *)
LEMMA PoppedCmds ==
  ASSUME TypeInv, queue # <<>>, queue' = Tail(queue)
  PROVE  /\ Cmds' = Tail(Cmds)
         /\ \A j \in DOMAIN queue' : j + 1 \in DOMAIN queue /\ queue'[j] = queue[j + 1]
<1> DEFINE E == [cmd : 1..Len(heap), of : Primary]
           m == Len(queue)
<1>1. queue \in Seq(E)
  BY DEF TypeInv, DeviceInv
<1> HIDE DEF E
<1>2. /\ m \in Nat /\ m >= 1 /\ DOMAIN queue = 1..m /\ DOMAIN queue' = 1..(m - 1)
      /\ \A j \in 1..(m - 1) : queue'[j] = queue[j + 1]
  <2>1. m \in Nat /\ m >= 1
    BY <1>1, EmptySeq
  <2>2. Tail(queue) \in Seq(E) /\ Len(Tail(queue)) = m - 1
    BY <1>1, HeadTailProperties
  <2>3. \A j \in 1..(m - 1) : Tail(queue)[j] = queue[j + 1]
    BY <1>1, <2>1, <2>2, HeadTailProperties
  <2> QED  BY <1>1, <2>1, <2>2, <2>3
<1> HIDE DEF m
<1>3. Cmds' = [j \in 1..(m - 1) |-> queue[j + 1].cmd]
  BY <1>2 DEF Cmds
<1>4. Tail(Cmds) = [j \in 1..(m - 1) |-> queue[j + 1].cmd]
  <2>1. /\ Cmds \in Seq(1..Len(heap)) /\ Len(Cmds) = m
        /\ \A j \in DOMAIN queue : Cmds[j] = queue[j].cmd
    BY CmdsType DEF m
  <2>2. PICK u : u = Cmds
    OBVIOUS
  <2>3. PICK T : T = 1..Len(heap)
    OBVIOUS
  <2>4. u \in Seq(T) /\ Len(u) = m
    BY <2>1, <2>2, <2>3
  <2>5. u # <<>>
    BY <1>2, <2>4
  <2>6. /\ Tail(u) \in Seq(T) /\ Len(Tail(u)) = m - 1
        /\ \A j \in 1..(m - 1) : Tail(u)[j] = u[j + 1]
    BY <2>4, <2>5, HeadTailProperties
  <2>7. PICK w : w = Tail(u)
    OBVIOUS
  <2>8. w = [j \in 1..(m - 1) |-> w[j]]
    <3>1. w \in Seq(T) /\ Len(w) = m - 1
      BY <2>6, <2>7
    <3> QED  BY <3>1
  <2>9. ASSUME NEW j \in 1..(m - 1) PROVE w[j] = queue[j + 1].cmd
    <3>1. w[j] = u[j + 1]
      BY <2>6, <2>7
    <3>2. j + 1 \in DOMAIN queue
      BY <1>2
    <3> QED  BY <2>1, <2>2, <3>1, <3>2
  <2>10. w = [j \in 1..(m - 1) |-> queue[j + 1].cmd]
    BY <2>8, <2>9
  <2> QED  BY <2>2, <2>7, <2>10
<1>5. \A j \in DOMAIN queue' : j + 1 \in DOMAIN queue /\ queue'[j] = queue[j + 1]
  BY <1>2
<1> QED  BY <1>3, <1>4, <1>5

(* An executed command has led the renderer where the next one starts.       *)
LEMMA PoppedPlaces ==
  ASSUME TypeInv, PlaceInv, queue # <<>>, Popped, NEW q, q = LeadsTo(Cmd), Renders(q)',
         Len(instances') = Len(instances),
         \A i \in 1..Len(instances) : instances'[i].pass = instances[i].pass
  PROVE  PlaceInv'
<1>1. /\ queue' = Tail(queue)
      /\ UNCHANGED <<state, calls, instance, commands, executes, heap>>
  BY DEF Popped, bufferVars
<1>2. /\ \A d : PlaceOf(d)' = PlaceOf(d) /\ CommandsOf(d)' = CommandsOf(d)
      /\ \A d : Continues(d)' <=> Continues(d)
      /\ \A r : Placed(instances, r) => Placed(instances', r)
  BY <1>1 DEF PlaceOf, CommandsOf, Continues, Placed
<1>3. PrimaryInv'
  BY <1>1, <1>2 DEF PlaceInv, PrimaryInv
<1>4. SecondaryInv'
  BY <1>1, <1>2 DEF PlaceInv, SecondaryInv
<1>5. QueueInv'
  <2>1. Path(heap', Cmds', LeadsTo(Cmd), Outside)
    BY <1>1, PoppedCmds, RunFacts
  <2>2. ASSUME NEW j \in DOMAIN queue'
        PROVE  /\ state'[queue'[j].of] = "executable"
               /\ queue'[j].cmd \in CommandsOf(queue[j].of)'
    <3>1. j + 1 \in DOMAIN queue /\ queue'[j] = queue[j + 1]
      BY <1>1, PoppedCmds
    <3>2. PICK d : d = queue'[j].of
      OBVIOUS
    <3>3. state[d] = "executable" /\ queue[j + 1].cmd \in CommandsOf(d)
      BY <3>1, <3>2 DEF PlaceInv, QueueInv
    <3> QED  BY <1>1, <3>1, <3>2, <3>3 DEF CommandsOf
  <2> QED  BY <2>1, <2>2 DEF QueueInv
<1> QED  BY <1>3, <1>4, <1>5 DEF PlaceInv

(* Without a change of the instances.                                        *)
LEMMA PassesKept ==
  ASSUME PassesInv, instances' = instances PROVE PassesInv'
<1>1. \A i, s : ColorsTo(i, s)' = ColorsTo(i, s)
  BY DEF ColorsTo, Colors
<1> QED  BY <1>1 DEF PassesInv

(* Executing a command keeps the types.                                      *)
LEMMA PoppedTypes ==
  ASSUME TypeInv, PlaceInv, queue # <<>>, Popped,
         instances' \in Seq(InstanceRecord), Len(instances') = Len(instances),
         content' \in [Image -> Seq(1..Len(heap))]
  PROVE  TypeInv'
<1> DEFINE E == [cmd : 1..Len(heap), of : Primary]
<1>1. /\ queue' = Tail(queue) /\ ran' = Append(ran, Head(queue).cmd)
      /\ UNCHANGED <<state, context, executes, instance, commands, heap>>
  BY DEF Popped, bufferVars
<1>2. Tail(queue) \in Seq(E)
  <2>1. queue \in Seq(E)
    BY DEF TypeInv, DeviceInv
  <2> HIDE DEF E
  <2> QED  BY <2>1, HeadTailProperties
<1>3. Append(ran, Head(queue).cmd) \in Seq(1..Len(heap))
  BY RunFacts DEF TypeInv, DeviceInv
<1>4. Handles' = Handles
  BY DEF Handles
<1>5. StateInv' /\ CommandsInv'
  BY <1>1, <1>4 DEF TypeInv, StateInv, CommandsInv
<1>6. DeviceInv'
  BY <1>1, <1>2, <1>3 DEF DeviceInv
<1> QED  BY <1>5, <1>6 DEF TypeInv

(* Some instances change in other things than their render pass.             *)
LEMMA InstanceChanges ==
  ASSUME TypeInv, NEW i \in 1..Len(instances), NEW rec \in InstanceRecord,
         rec.pass = instances[i].pass, instances' = [instances EXCEPT ![i] = rec]
  PROVE  /\ instances' \in Seq(InstanceRecord) /\ Len(instances') = Len(instances)
         /\ instances'[i] = rec /\ Len(instances) \in Nat
         /\ \A j \in 1..Len(instances) : j # i => instances'[j] = instances[j]
         /\ \A j \in 1..Len(instances) : instances'[j].pass = instances[j].pass
         /\ \A s : Colors(i, s)' = Colors(i, s) /\ ColorsTo(i, s)' = ColorsTo(i, s)
<1>1. instances \in Seq(InstanceRecord) /\ Len(instances) \in Nat
  BY DEF TypeInv, CommandsInv
<1>2. /\ instances' \in Seq(InstanceRecord) /\ Len(instances') = Len(instances)
      /\ instances'[i] = rec
      /\ \A j \in 1..Len(instances) : j # i => instances'[j] = instances[j]
  BY <1>1, ExceptSeq
<1>3. \A j \in 1..Len(instances) : instances'[j].pass = instances[j].pass
  BY <1>2
<1>4. \A s : Colors(i, s)' = Colors(i, s)
  BY <1>3 DEF Colors
<1>5. \A s : ColorsTo(i, s)' = ColorsTo(i, s)
  BY <1>4 DEF ColorsTo
<1> QED  BY <1>1, <1>2, <1>3, <1>4, <1>5

(* An instance changes as the command that is executed says.                 *)
LEMMA InstancePlaces ==
  ASSUME TypeInv, PlaceInv, PassesInv, queue # <<>>, Popped,
         NEW i \in 1..Len(instances), NEW rec \in InstanceRecord,
         rec.pass = instances[i].pass, instances' = [instances EXCEPT ![i] = rec],
         content' \in [Image -> Seq(1..Len(heap))],
         \A j \in 1..Len(instances) : instances[j].Rendering => j = i,
         LeadsTo(Cmd) = IF rec.Rendering THEN At(i, rec.SubpassIndex) ELSE Outside,
         rec.SubpassIndex < Len(rec.pass.subpasses),
         rec.AttachmentsInitialized = ColorsTo(i, rec.SubpassIndex)
  PROVE  TypeInv' /\ PlaceInv' /\ PassesInv'
<1>1. /\ instances' \in Seq(InstanceRecord) /\ Len(instances') = Len(instances)
      /\ instances'[i] = rec /\ Len(instances) \in Nat
      /\ \A j \in 1..Len(instances) : j # i => instances'[j] = instances[j]
      /\ \A j \in 1..Len(instances) : instances'[j].pass = instances[j].pass
      /\ \A s : ColorsTo(i, s)' = ColorsTo(i, s)
  BY InstanceChanges
<1>2. TypeInv'
  BY <1>1, PoppedTypes
<1>3. PICK q : q = LeadsTo(Cmd)
  OBVIOUS
<1>4. rec.Rendering \in BOOLEAN
  BY DEF InstanceRecord
<1>5. Renders(q)'
  <2>1. CASE rec.Rendering
    <3>1. q[1] = i /\ q[2] = rec.SubpassIndex
      BY <1>3, <2>1 DEF At
    <3> QED  BY <1>1, <1>4, <2>1, <3>1 DEF Renders
  <2>2. CASE ~rec.Rendering
    <3>1. q[1] = 0
      BY <1>3, <2>2 DEF Outside
    <3>2. ASSUME NEW j \in 1..Len(instances) PROVE ~instances'[j].Rendering /\ j # 0
      BY <1>1, <2>2
    <3>3. 0 \in 0..Len(instances')
      BY <1>1
    <3>4. ASSUME NEW j \in 1..Len(instances') PROVE ~instances'[j].Rendering /\ j # 0
      BY <1>1, <3>2
    <3>5. ASSUME NEW j \in 1..Len(instances') PROVE instances'[j].Rendering \in BOOLEAN
      <4>1. instances'[j] \in InstanceRecord
        BY <1>1
      <4> QED  BY <4>1 DEF InstanceRecord
    <3> QED  BY <3>1, <3>3, <3>4, <3>5 DEF Renders
  <2> QED  BY <2>1, <2>2
<1>6. PlaceInv'
  BY <1>1, <1>3, <1>5, PoppedPlaces
<1>7. PassesInv'
  <2> SUFFICES ASSUME NEW j \in 1..Len(instances')
               PROVE  (/\ instances[j].SubpassIndex < Len(instances[j].pass.subpasses)
                       /\ instances[j].AttachmentsInitialized
                            \subseteq ColorsTo(j, instances[j].SubpassIndex)
                       /\ instances[j].Rendering =>
                            instances[j].AttachmentsInitialized
                              = ColorsTo(j, instances[j].SubpassIndex))'
    BY DEF PassesInv
  <2>1. CASE j = i
    BY <1>1, <2>1
  <2>2. CASE j # i
    <3>1. instances'[j] = instances[j] /\ j \in 1..Len(instances)
      BY <1>1, <2>2
    <3>2. \A s : ColorsTo(j, s)' = ColorsTo(j, s)
      BY <3>1 DEF ColorsTo, Colors
    <3> QED  BY <3>1, <3>2 DEF PassesInv
  <2> QED  BY <2>1, <2>2
<1> QED  BY <1>2, <1>6, <1>7

(* beginSubpass.                                                             *)
LEMMA BeginSubpassPlaces ==
  ASSUME TypeInv, PlaceInv, PassesInv, queue # <<>>, Popped,
         NEW i \in 1..Len(instances), NEW s \in Nat, NEW done \in SUBSET Image,
         s < Len(instances[i].pass.subpasses), done \cup Colors(i, s) = ColorsTo(i, s),
         \A j \in 1..Len(instances) : instances[j].Rendering => j = i,
         LeadsTo(Cmd) = At(i, s), BeginSubpass(i, s, done)
  PROVE  TypeInv' /\ PlaceInv' /\ PassesInv'
<1> DEFINE rec == [instances[i] EXCEPT !.Rendering = TRUE, !.SubpassIndex = s,
                     !.AttachmentsInitialized = ColorsTo(i, s)]
<1>1. /\ instances[i] \in InstanceRecord /\ Colors(i, s) \subseteq Image
      /\ instances \in Seq(InstanceRecord)
  BY PassFacts, ColorsFacts DEF TypeInv, CommandsInv
<1>2. ColorsTo(i, s) \in SUBSET Image
  BY <1>1
<1>3. /\ rec \in InstanceRecord /\ rec.pass = instances[i].pass /\ rec.Rendering = TRUE
      /\ rec.SubpassIndex = s /\ rec.AttachmentsInitialized = ColorsTo(i, s)
  BY <1>1, <1>2 DEF InstanceRecord
<1>4. done \cup Uninitialized(i, s, done) = ColorsTo(i, s)
  BY DEF Uninitialized
<1>5. instances' = [instances EXCEPT ![i] = rec]
  <2>1. instances' = [instances EXCEPT ![i].Rendering = TRUE, ![i].SubpassIndex = s,
                        ![i].AttachmentsInitialized = ColorsTo(i, s)]
    BY <1>4 DEF BeginSubpass
  <2> QED  BY <1>1, <2>1
<1> HIDE DEF rec
<1>6. content' \in [Image -> Seq(1..Len(heap))]
  <2>1. <<Head(queue).cmd>> \in Seq(1..Len(heap))
    BY RunFacts
  <2>2. content \in [Image -> Seq(1..Len(heap))]
    BY DEF TypeInv, DeviceInv
  <2> QED  BY <2>1, <2>2 DEF BeginSubpass
<1> QED  BY <1>3, <1>5, <1>6, InstancePlaces

(* The place where the renderer is.                                          *)
LEMMA RenderingFacts ==
  ASSUME TypeInv, PlaceInv, queue # <<>>, Cmd.type # "dispatch"
  PROVE  /\ Cmd.instance \in 1..Len(instances) /\ SubpassOf(Cmd.calls) \in Nat
         /\ Cmd.type = "beginRenderPass" =>
              \A j \in 1..Len(instances) : ~instances[j].Rendering
         /\ Cmd.type # "beginRenderPass" =>
              /\ instances[Cmd.instance].Rendering
              /\ instances[Cmd.instance].SubpassIndex = SubpassOf(Cmd.calls)
              /\ \A j \in 1..Len(instances) : instances[j].Rendering => j = Cmd.instance
         /\ Cmd.type = "nextSubpass" =>
              SubpassOf(Cmd.calls) + 1 < Len(instances[Cmd.instance].pass.subpasses)
<1>1. /\ Placed(instances, Cmd) /\ Renders(StartsAt(Cmd)) /\ Cmd \in CommandRecord
      /\ Len(instances) \in Nat
  BY RunFacts DEF TypeInv, CommandsInv
<1>2. /\ Cmd.instance \in 1..Len(instances) /\ SubpassOf(Cmd.calls) \in Nat
      /\ Cmd.type = "nextSubpass" =>
           SubpassOf(Cmd.calls) + 1 < Len(instances[Cmd.instance].pass.subpasses)
  <2>1. Cmd.calls \in Seq(Call)
    BY <1>1 DEF CommandRecord
  <2> QED  BY <1>1, <2>1, SubpassNumber DEF Placed
<1>3. CASE Cmd.type = "beginRenderPass"
  <2>1. StartsAt(Cmd)[1] = 0
    BY <1>3 DEF StartsAt, Outside
  <2>2. \A j \in 1..Len(instances) : ~instances[j].Rendering
    BY <1>1, <2>1 DEF Renders
  <2> QED  BY <1>2, <1>3, <2>2
<1>4. CASE Cmd.type # "beginRenderPass"
  <2>1. StartsAt(Cmd)[1] = Cmd.instance /\ StartsAt(Cmd)[2] = SubpassOf(Cmd.calls)
    BY <1>4 DEF StartsAt, At
  <2>2. /\ instances[Cmd.instance].Rendering
        /\ instances[Cmd.instance].SubpassIndex = SubpassOf(Cmd.calls)
        /\ \A j \in 1..Len(instances) : instances[j].Rendering => j = Cmd.instance
    BY <1>1, <1>2, <2>1 DEF Renders
  <2> QED  BY <1>2, <1>4, <2>2
<1> QED  BY <1>3, <1>4

(* A command that leaves the renderer where it is.                           *)
LEMMA StayingPlaces ==
  ASSUME TypeInv, PlaceInv, PassesInv, queue # <<>>, Popped, instances' = instances,
         content' \in [Image -> Seq(1..Len(heap))], LeadsTo(Cmd) = StartsAt(Cmd)
  PROVE  TypeInv' /\ PlaceInv' /\ PassesInv'
<1>1. instances \in Seq(InstanceRecord)
  BY DEF TypeInv, CommandsInv
<1>2. TypeInv'
  BY <1>1, PoppedTypes
<1>3. PICK q : q = LeadsTo(Cmd)
  OBVIOUS
<1>4. Renders(q)'
  BY <1>3, RunFacts DEF Renders
<1>5. PlaceInv'
  BY <1>3, <1>4, PoppedPlaces
<1>6. PassesInv'
  BY PassesKept
<1> QED  BY <1>2, <1>5, <1>6

(* The commands in execution.                                                *)
LEMMA RunPlaces ==
  ASSUME TypeInv, PlaceInv, PassesInv, Run
  PROVE  TypeInv' /\ PlaceInv' /\ PassesInv'
<1> DEFINE i == Cmd.instance
<1>1. content \in [Image -> Seq(1..Len(heap))]
  BY DEF TypeInv, DeviceInv
<1>2. CASE RunBeginRenderPass
  <2>1. queue # <<>> /\ Popped /\ Cmd.type = "beginRenderPass"
    BY <1>2 DEF RunBeginRenderPass, Running, Cmd
  <2>2. i \in 1..Len(instances) /\ \A j \in 1..Len(instances) : ~instances[j].Rendering
    BY <2>1, RenderingFacts
  <2>3. BeginSubpass(i, 0, {})
    BY <1>2, <2>2 DEF RunBeginRenderPass, AtBegin
  <2>4. 0 < Len(instances[i].pass.subpasses) /\ {} \cup Colors(i, 0) = ColorsTo(i, 0)
    BY <2>2, PassFacts, ColorsFacts
  <2>5. LeadsTo(Cmd) = At(i, 0)
    BY <2>1 DEF LeadsTo
  <2> HIDE DEF i
  <2> QED  BY <2>1, <2>2, <2>3, <2>4, <2>5, BeginSubpassPlaces
<1>3. CASE RunNextSubpass
  <2> DEFINE s == instances[i].SubpassIndex
             done == instances[i].AttachmentsInitialized
  <2>1. queue # <<>> /\ Popped /\ Cmd.type = "nextSubpass"
    BY <1>3 DEF RunNextSubpass, Running, Cmd
  <2>2. /\ i \in 1..Len(instances) /\ instances[i].Rendering /\ s = SubpassOf(Cmd.calls)
        /\ s \in Nat /\ s + 1 < Len(instances[i].pass.subpasses)
        /\ \A j \in 1..Len(instances) : instances[j].Rendering => j = i
    BY <2>1, RenderingFacts
  <2>3. BeginSubpass(i, s + 1, done)
    BY <1>3, <2>2 DEF RunNextSubpass
  <2>4. done = ColorsTo(i, s) /\ done \in SUBSET Image
    BY <2>2, PassFacts DEF PassesInv, InstanceRecord
  <2>5. done \cup Colors(i, s + 1) = ColorsTo(i, s + 1)
    BY <2>2, <2>4, ColorsFacts
  <2>6. LeadsTo(Cmd) = At(i, s + 1)
    BY <2>1, <2>2 DEF LeadsTo
  <2>7. s + 1 \in Nat
    BY <2>2
  <2> HIDE DEF i, s, done
  <2> QED  BY <2>1, <2>2, <2>3, <2>4, <2>5, <2>6, <2>7, BeginSubpassPlaces
<1>4. CASE RunEndRenderPass
  <2>1. queue # <<>> /\ Popped /\ Cmd.type = "endRenderPass"
    BY <1>4 DEF RunEndRenderPass, Running, Cmd
  <2>2. /\ i \in 1..Len(instances) /\ instances[i].Rendering
        /\ \A j \in 1..Len(instances) : instances[j].Rendering => j = i
    BY <2>1, RenderingFacts
  <2> DEFINE rec == [instances[i] EXCEPT !.Rendering = FALSE]
  <2>3. instances' = [instances EXCEPT ![i].Rendering = FALSE] /\ content' = content
    BY <1>4, <2>2 DEF RunEndRenderPass
  <2>4. instances[i] \in InstanceRecord /\ instances \in Seq(InstanceRecord)
    BY <2>2, PassFacts DEF TypeInv, CommandsInv
  <2>5. instances' = [instances EXCEPT ![i] = rec]
    BY <2>3
  <2>6. /\ rec \in InstanceRecord /\ rec.pass = instances[i].pass /\ rec.Rendering = FALSE
        /\ rec.SubpassIndex = instances[i].SubpassIndex
        /\ rec.AttachmentsInitialized = instances[i].AttachmentsInitialized
    BY <2>4 DEF InstanceRecord
  <2>7. /\ rec.SubpassIndex < Len(rec.pass.subpasses)
        /\ rec.AttachmentsInitialized = ColorsTo(i, rec.SubpassIndex)
    BY <2>2, <2>6 DEF PassesInv
  <2>8. LeadsTo(Cmd) = Outside
    BY <2>1 DEF LeadsTo
  <2> HIDE DEF i, rec
  <2> QED  BY <1>1, <2>1, <2>2, <2>3, <2>5, <2>6, <2>7, <2>8, InstancePlaces
<1>5. CASE RunDraw
  <2>1. /\ queue # <<>> /\ Popped /\ Cmd.type \in {"draw", "drawIndexed", "clearAttachments"}
    BY <1>5 DEF RunDraw, Running, Cmd
  <2>2. i \in 1..Len(instances) /\ i # Null
    BY <2>1, NullAssumption, RenderingFacts
  <2>3. /\ instances' = instances
        /\ content' = [a \in Image |->
             IF a \in Colors(i, instances[i].SubpassIndex)
             THEN Append(content[a], Head(queue).cmd) ELSE content[a]]
    BY <1>5, <2>2 DEF RunDraw
  <2>4. content' \in [Image -> Seq(1..Len(heap))]
    <3>1. Head(queue).cmd \in 1..Len(heap)
      BY <2>1, RunFacts
    <3>2. \A a \in Image : Append(content[a], Head(queue).cmd) \in Seq(1..Len(heap))
      BY <1>1, <3>1
    <3> HIDE DEF i
    <3> QED  BY <1>1, <2>3, <3>2
  <2>5. LeadsTo(Cmd) = StartsAt(Cmd)
    BY <2>1 DEF LeadsTo, StartsAt
  <2> QED  BY <2>1, <2>3, <2>4, <2>5, StayingPlaces
<1>6. CASE RunDispatch
  <2>1. queue # <<>> /\ Popped /\ Cmd.type = "dispatch" /\ UNCHANGED <<instances, content>>
    BY <1>6 DEF RunDispatch, Running, Cmd
  <2>2. LeadsTo(Cmd) = StartsAt(Cmd)
    BY <2>1 DEF LeadsTo, StartsAt
  <2> QED  BY <1>1, <2>1, <2>2, StayingPlaces
<1> QED  BY <1>2, <1>3, <1>4, <1>5, <1>6 DEF Run

(* The invariant of recording and execution.                                 *)
PassInv == RecInv /\ TypeInv /\ PlaceInv /\ PassesInv

(* It holds initially and every step keeps it.                               *)
LEMMA PassInvHolds == Spec => []PassInv
<1>1. Init => TypeInv /\ PlaceInv /\ PassesInv
  <2> SUFFICES ASSUME Init PROVE TypeInv /\ PlaceInv /\ PassesInv
    OBVIOUS
  <2>1. /\ state = [c \in CommandBuffer |-> "initial"]
        /\ context = [c \in CommandBuffer |-> Empty]
        /\ instance = [c \in CommandBuffer |-> Null]
        /\ commands = [c \in CommandBuffer |-> <<>>]
        /\ heap = <<>> /\ instances = <<>> /\ queue = <<>>
        /\ content = [a \in Image |-> <<>>]
        /\ calls = [c \in CommandBuffer |-> <<>>]
        /\ executes = [c \in CommandBuffer |-> {}] /\ ran = <<>>
    BY DEF Init
  <2>2. Len(heap) = 0 /\ Len(instances) = 0 /\ 1..0 = {}
    BY <2>1
  <2>3. StateInv
    BY <2>1 DEF StateInv, Bindings, Empty
  <2>4. CommandsInv
    BY <2>1, <2>2 DEF CommandsInv, Handles
  <2>5. DeviceInv
    BY <2>1, <2>2 DEF DeviceInv
  <2>6. PassesInv
    BY <2>2 DEF PassesInv
  <2>7. /\ \A c \in CommandBuffer : PlaceOf(c) = Outside /\ CommandsOf(c) = {}
        /\ \A p \in Primary \cup Secondary : p \in CommandBuffer
    BY <2>1 DEF PlaceOf, CommandsOf, Elements, CommandBuffer
  <2>8. PrimaryInv
    BY <2>1, <2>7, PathEmpty DEF PrimaryInv
  <2>9. SecondaryInv
    BY <2>1, <2>7, SubpassAtFirst DEF SecondaryInv
  <2>10. QueueInv
    <3>1. Cmds = <<>>
      BY <2>1 DEF Cmds
    <3>2. Renders(Outside)
      BY <2>2 DEF Renders, Outside
    <3>3. Path(heap, Cmds, Outside, Outside)
      BY <3>1, PathEmpty
    <3> QED  BY <2>1, <3>2, <3>3 DEF QueueInv
  <2> QED  BY <2>3, <2>4, <2>5, <2>6, <2>8, <2>9, <2>10 DEF TypeInv, PlaceInv
<1>2. RecInv /\ TypeInv /\ PlaceInv /\ PassesInv /\ [Next]_vars
        => TypeInv' /\ PlaceInv' /\ PassesInv'
  <2> SUFFICES ASSUME RecInv, TypeInv, PlaceInv, PassesInv, [Next]_vars
               PROVE  TypeInv' /\ PlaceInv' /\ PassesInv'
    OBVIOUS
  <2>1. ASSUME NEW c \in CommandBuffer, Record(c) PROVE TypeInv' /\ PlaceInv' /\ PassesInv'
    BY <2>1, RecordTypes, RecordPlaces, RecordPasses
  <2>2. ASSUME NEW p \in Primary, Submit(p) PROVE TypeInv' /\ PlaceInv' /\ PassesInv'
    <3>1. PassesInv'
      BY <2>2, PassesKept DEF Submit
    <3> QED  BY <2>2, <3>1, SubmitTypes, SubmitPlaces
  <2>3. ASSUME NEW p \in Primary, NEW s \in Secondary, ExecuteCommands(p, s)
        PROVE  TypeInv' /\ PlaceInv' /\ PassesInv'
    <3>1. PassesInv'
      BY <2>3, PassesKept DEF ExecuteCommands
    <3> QED  BY <2>3, <3>1, ExecuteTypes, ExecutePlaces
  <2>4. CASE UNCHANGED vars
    <3>1. UNCHANGED <<state, context, instance, commands, calls, executes, heap, instances,
                      queue, content, ran>>
      BY <2>4 DEF vars, bufferVars, deviceVars
    <3>2. TypeInv'
      BY <3>1 DEF TypeInv, StateInv, CommandsInv, DeviceInv, Handles
    <3>3. PassesInv'
      BY <3>1, PassesKept
    <3> QED  BY <3>1, <3>2, <3>3, PlacesUnchanged
  <2> QED  BY <2>1, <2>2, <2>3, <2>4, RunPlaces DEF Next
<1> QED  BY <1>1, <1>2, RecInvHolds, PTL DEF Spec, PassInv

(* A draw runs while its instance, and no other, is rendering, in the subpass*)
(* in which the draw was recorded; the assertions on Rendering hold.         *)
THEOREM DrawsStayInSubpass == Spec => []DrawsInTheirSubpass
<1>1. ASSUME PassInv PROVE DrawsInTheirSubpass
  <2> USE <1>1 DEF PassInv
  <2>1. TypeOK
    <3>1. DOMAIN heap = 1..Len(heap) /\ DOMAIN instances = 1..Len(instances)
      BY DEF TypeInv, CommandsInv
    <3>2. \A k \in 1..Len(heap) :
            heap[k].context = Null \/ heap[k].context \in [Slot -> Value \cup {Null}]
      <4> SUFFICES ASSUME NEW k \in 1..Len(heap)
                   PROVE  heap[k].context \in [Slot -> Value \cup {Null}] \cup {Null}
        OBVIOUS
      <4>1. heap[k] \in CommandRecord
        BY DEF TypeInv, CommandsInv
      <4> QED  BY <4>1 DEF CommandRecord, Bindings
    <3>3. ASSUME NEW i \in 1..Len(instances)
          PROVE  /\ instances[i].SubpassIndex + 1 \in DOMAIN instances[i].pass.subpasses
                 /\ instances[i].AttachmentsInitialized
                      \subseteq UNION {Colors(i, t) : t \in 0..instances[i].SubpassIndex}
      <4>1. /\ instances[i] \in InstanceRecord
            /\ instances[i].pass.subpasses \in Seq(SUBSET Image)
        BY PassFacts
      <4>2. instances[i].SubpassIndex \in Nat
        BY <4>1 DEF InstanceRecord
      <4> QED  BY <4>1, <4>2 DEF PassesInv, ColorsTo
    <3> QED  BY <3>1, <3>2, <3>3
             DEF TypeOK, Command, TypeInv, StateInv, CommandsInv, DeviceInv, Handles, Bindings
  <2>2. ASSUME NEW i \in DOMAIN instances, NEW j \in DOMAIN instances,
               IsRendering(i), IsRendering(j)
        PROVE  i = j
    <3>1. i \in 1..Len(instances) /\ j \in 1..Len(instances)
      BY DEF TypeInv, CommandsInv
    <3> QED  BY <2>2, <3>1 DEF PlaceInv, QueueInv, Renders, IsRendering
  <2>3. ASSUME Running("draw") \/ Running("drawIndexed") \/ Running("clearAttachments")
        PROVE  /\ Cmd.instance # Null /\ IsRendering(Cmd.instance)
               /\ instances[Cmd.instance].SubpassIndex = SubpassOf(Cmd.calls)
    <3>1. queue # <<>> /\ Cmd.type \in {"draw", "drawIndexed", "clearAttachments"}
      BY <2>3 DEF Running, Cmd
    <3> QED  BY <3>1, NullAssumption, RenderingFacts DEF IsRendering
  <2>4. Running("nextSubpass") \/ Running("endRenderPass") => IsRendering(Cmd.instance)
    BY RenderingFacts DEF Running, Cmd, IsRendering
  <2>5. Running("beginRenderPass") => ~IsRendering(Cmd.instance)
    BY RenderingFacts DEF Running, Cmd, IsRendering
  <2> QED  BY <2>1, <2>2, <2>3, <2>4, <2>5 DEF DrawsInTheirSubpass
<1> QED  BY <1>1, PassInvHolds, PTL

(* The commands that an image shows, in their order of execution: those of   *)
(* FrameAsRecorded, and what it says of an image.                            *)
Ranked(S, w) ==
  [n \in 1..Cardinality(S) |-> w[CHOOSE k \in S : Cardinality({j \in S : j <= k}) = n]]
Dense(S) == \A n \in 1..Cardinality(S) : \E k \in S : Cardinality({j \in S : j <= k}) = n
Clearing(a) == {k \in DOMAIN ran : ClearsAt(k, a)}
Shown(a) == {k \in DOMAIN ran : /\ \A c \in Clearing(a) : c <= k
                                /\ k \in Clearing(a) \/ DrawsAt(k, a)}

(* The last render pass that was begun, for the first k commands executed.   *)
LastAt(k, b) == /\ b \in 1..k /\ OfType(b, "beginRenderPass")
                /\ \A j \in (b + 1)..k : ~OfType(j, "beginRenderPass")
PassOf(j) == instances[heap[ran[j]].instance].pass

(* The invariant: only dispatches are executed before the first render pass  *)
(* is begun, the instance that is rendering is the one that was begun last,  *)
(* in the subpass that the commands executed since say.                      *)
BegunInv ==
  /\ \A k \in 1..Len(ran) : OfType(k, "dispatch") \/ \E b \in 1..k : LastAt(k, b)
  /\ \A k \in 1..Len(ran) :
       OfType(k, "beginRenderPass") => heap[ran[k]].instance \in 1..Len(instances)
  /\ \A i \in 1..Len(instances) : instances[i].Rendering =>
       /\ SubpassAt(Len(ran)) = instances[i].SubpassIndex
       /\ \E b \in 1..Len(ran) : LastAt(Len(ran), b) /\ heap[ran[b]].instance = i
ShownInv ==
  \A a \in Image : content[a] = Ranked(Shown(a), ran) /\ Dense(Shown(a))

(* What an image shows when a command alone is shown.                        *)
LEMMA RankedOne ==
  ASSUME NEW w, NEW k \in Int
  PROVE  Ranked({k}, w) = <<w[k]>> /\ Dense({k})
<1>1. Cardinality({k}) = 1 /\ {j \in {k} : j <= k} = {k} /\ 1..1 = {1}
  BY FS_Singleton
<1>2. (CHOOSE x \in {k} : Cardinality({j \in {k} : j <= x}) = 1) = k
  BY <1>1
<1>3. Ranked({k}, w) = [n \in {1} |-> w[k]]
  BY <1>1, <1>2 DEF Ranked
<1>4. <<w[k]>> = [n \in {1} |-> w[k]]
  OBVIOUS
<1>5. Dense({k})
  BY <1>1 DEF Dense
<1> QED  BY <1>3, <1>4, <1>5

(* The ranks of the commands before one more.                                *)
LEMMA RanksKept ==
  ASSUME NEW n \in Nat, NEW S \in SUBSET (1..n), NEW c, c = Cardinality(S)
  PROVE  /\ IsFiniteSet(S) /\ c \in Nat /\ Cardinality(S \cup {n + 1}) = c + 1
         /\ \A k \in S : {j \in S \cup {n + 1} : j <= k} = {j \in S : j <= k}
         /\ {j \in S \cup {n + 1} : j <= n + 1} = S \cup {n + 1}
         /\ \A k \in S : Cardinality({j \in S : j <= k}) \in Nat
                         /\ Cardinality({j \in S : j <= k}) <= c
<1>1. IsFiniteSet(S) /\ n + 1 \notin S
  <2>1. IsFiniteSet(1..n)
    BY FS_Interval
  <2>2. IsFiniteSet(S)
    BY <2>1, FS_Subset
  <2>3. n + 1 \notin 1..n
    OBVIOUS
  <2> QED  BY <2>2, <2>3
<1>2. c \in Nat /\ Cardinality(S \cup {n + 1}) = c + 1
  BY <1>1, FS_AddElement, FS_CardinalityType
<1>3. \A k \in S : {j \in S \cup {n + 1} : j <= k} = {j \in S : j <= k}
  <2>1. \A k \in S : ~(n + 1 <= k)
    OBVIOUS
  <2> QED  BY <2>1
<1>4. {j \in S \cup {n + 1} : j <= n + 1} = S \cup {n + 1}
  <2>1. \A j \in S \cup {n + 1} : j <= n + 1
    OBVIOUS
  <2> QED  BY <2>1
<1>5. ASSUME NEW k \in S
      PROVE  Cardinality({j \in S : j <= k}) \in Nat /\ Cardinality({j \in S : j <= k}) <= c
  <2>1. {j \in S : j <= k} \subseteq S
    OBVIOUS
  <2>2. IsFiniteSet({j \in S : j <= k})
    BY <1>1, <2>1, FS_Subset
  <2> QED  BY <1>1, <2>1, <2>2, FS_Subset, FS_CardinalityType
<1> QED  BY <1>1, <1>2, <1>3, <1>4, <1>5

(* One more command comes last, and one that is not shown changes nothing.   *)
LEMMA RankedMore ==
  ASSUME NEW T, NEW w \in Seq(T), NEW x \in T, NEW n, n = Len(w), NEW S \in SUBSET (1..n),
         Dense(S)
  PROVE  /\ Ranked(S, Append(w, x)) = Ranked(S, w)
         /\ Ranked(S \cup {n + 1}, Append(w, x)) = Append(Ranked(S, w), x)
         /\ Dense(S \cup {n + 1})
<1> DEFINE c == Cardinality(S)
           w2 == Append(w, x)
           S2 == S \cup {n + 1}
           at(U, m) == CHOOSE k \in U : Cardinality({j \in U : j <= k}) = m
<1>1. n \in Nat /\ w2[n + 1] = x /\ \A k \in 1..n : w2[k] = w[k] /\ w[k] \in T
  OBVIOUS
<1>2. /\ c \in Nat /\ Cardinality(S2) = c + 1
      /\ \A k \in S : {j \in S2 : j <= k} = {j \in S : j <= k}
      /\ {j \in S2 : j <= n + 1} = S2
      /\ \A k \in S : Cardinality({j \in S : j <= k}) \in Nat
                      /\ Cardinality({j \in S : j <= k}) <= c
  BY <1>1, RanksKept
<1>3. \A m \in 1..c : at(S, m) \in S /\ Cardinality({j \in S : j <= at(S, m)}) = m
  BY DEF Dense
<1> HIDE DEF c, w2, S2
<1>4. \A m \in 1..c : w2[at(S, m)] = w[at(S, m)] /\ w[at(S, m)] \in T
  <2> HIDE DEF at
  <2> QED  BY <1>1, <1>3
<1>5. ASSUME NEW m \in 1..c PROVE at(S2, m) = at(S, m)
  <2>1. ASSUME NEW k
        PROVE  (k \in S2 /\ Cardinality({j \in S2 : j <= k}) = m)
                 <=> (k \in S /\ Cardinality({j \in S : j <= k}) = m)
    <3>1. CASE k \in S
      <4>1. {j \in S2 : j <= k} = {j \in S : j <= k} /\ k \in S2
        BY <1>2, <3>1 DEF S2
      <4> QED  BY <3>1, <4>1
    <3>2. CASE k \notin S
      <4>1. k \in S2 => k = n + 1
        BY <3>2 DEF S2
      <4>2. Cardinality({j \in S2 : j <= n + 1}) = c + 1
        BY <1>2
      <4>3. c + 1 # m
        BY <1>2
      <4> QED  BY <3>2, <4>1, <4>2, <4>3
    <3> QED  BY <3>1, <3>2
  <2> QED  BY <2>1, Zenon
<1>6. at(S2, c + 1) = n + 1
  <2>1. n + 1 \in S2 /\ Cardinality({j \in S2 : j <= n + 1}) = c + 1
    BY <1>2 DEF S2
  <2>2. ASSUME NEW k \in S2, Cardinality({j \in S2 : j <= k}) = c + 1 PROVE k = n + 1
    <3>1. CASE k \in S
      <4>1. {j \in S2 : j <= k} = {j \in S : j <= k}
        BY <1>2, <3>1
      <4>2. Cardinality({j \in S : j <= k}) \in Nat /\ Cardinality({j \in S : j <= k}) <= c
        BY <1>2, <3>1
      <4>3. Cardinality({j \in S : j <= k}) = c + 1
        BY <2>2, <4>1
      <4> QED  BY <1>2, <4>2, <4>3
    <3>2. CASE k \notin S
      BY <3>2 DEF S2
    <3> QED  BY <3>1, <3>2
  <2> QED  BY <2>1, <2>2
<1>7. /\ Ranked(S, w) = [m \in 1..c |-> w[at(S, m)]]
      /\ Ranked(S, w2) = [m \in 1..c |-> w2[at(S, m)]]
      /\ Ranked(S2, w2) = [m \in 1..(c + 1) |-> w2[at(S2, m)]]
  BY <1>2 DEF Ranked, c
<1> HIDE DEF at
<1>8. Ranked(S, w2) = Ranked(S, w)
  BY <1>4, <1>7
<1>9. Ranked(S2, w2) = Append(Ranked(S, w), x)
  <2>1. PICK u : u = Ranked(S, w)
    OBVIOUS
  <2>2. u \in [1..c -> T] /\ \A m \in 1..c : u[m] = w[at(S, m)]
    BY <1>4, <1>7, <2>1
  <2>3. u \in Seq(T) /\ Len(u) = c
    <3>1. u \in UNION {[1..m -> T] : m \in Nat}
      BY <1>2, <2>2, Zenon
    <3>2. u \in Seq(T)
      BY <3>1, SeqDef, Zenon
    <3> QED  BY <1>2, <2>2, <3>2, LenProperties
  <2>4. Append(u, x) = [m \in 1..(c + 1) |-> IF m = c + 1 THEN x ELSE u[m]]
    <3>1. Append(u, x) \in Seq(T) /\ Len(Append(u, x)) = c + 1
          /\ \A m \in 1..(c + 1) : Append(u, x)[m] = IF m = c + 1 THEN x ELSE u[m]
      BY <2>3
    <3>2. PICK v : v = Append(u, x)
      OBVIOUS
    <3>5. v \in Seq(T) /\ DOMAIN v = 1..(c + 1)
      BY <1>2, <3>1, <3>2
    <3>3. v = [m \in 1..(c + 1) |-> v[m]]
      <4>1. v = [m \in DOMAIN v |-> v[m]]
        BY <3>5
      <4> QED  BY <3>5, <4>1
    <3>4. v = [m \in 1..(c + 1) |-> IF m = c + 1 THEN x ELSE u[m]]
      BY <3>1, <3>2, <3>3
    <3> QED  BY <3>2, <3>4
  <2>5. ASSUME NEW m \in 1..(c + 1)
        PROVE  w2[at(S2, m)] = IF m = c + 1 THEN x ELSE u[m]
    <3>1. CASE m = c + 1
      BY <1>1, <1>6, <3>1
    <3>2. CASE m # c + 1
      <4>1. m \in 1..c
        BY <1>2, <3>2
      <4> QED  BY <1>4, <1>5, <2>2, <3>2, <4>1
    <3> QED  BY <3>1, <3>2
  <2> QED  BY <1>7, <2>1, <2>4, <2>5
<1>10. Dense(S2)
  <2> SUFFICES ASSUME NEW m \in 1..(c + 1)
               PROVE  \E k \in S2 : Cardinality({j \in S2 : j <= k}) = m
    BY <1>2 DEF Dense
  <2>1. CASE m = c + 1
    BY <1>2, <2>1 DEF S2
  <2>2. CASE m # c + 1
    <3>1. m \in 1..c
      BY <1>2, <2>2
    <3>2. PICK k \in S : Cardinality({j \in S : j <= k}) = m
      BY <1>3, <3>1
    <3>3. k \in S2 /\ {j \in S2 : j <= k} = {j \in S : j <= k}
      BY <1>2 DEF S2
    <3> QED  BY <3>2, <3>3
  <2> QED  BY <2>1, <2>2
<1> QED  BY <1>8, <1>9, <1>10 DEF w2, S2

(* The last begin is the only one with no other after it.                    *)
LEMMA LastUnique ==
  ASSUME NEW k \in Nat, NEW b, LastAt(k, b)
  PROVE  LastBegin(k) = b /\ b \in 1..k
<1> DEFINE P(x) == /\ OfType(x, "beginRenderPass")
                   /\ \A j \in (x + 1)..k : ~OfType(j, "beginRenderPass")
<1>1. b \in 1..k /\ P(b)
  BY DEF LastAt
<1>2. ASSUME NEW x \in 1..k, P(x) PROVE x = b
  <2>1. ~(x < b) /\ ~(b < x)
    BY <1>1, <1>2
  <2> QED  BY <1>1, <2>1
<1>3. LastBegin(k) = CHOOSE x \in 1..k : P(x)
  BY DEF LastBegin
<1> HIDE DEF P
<1> QED  BY <1>1, <1>2, <1>3

(* What a step keeps of the commands executed before it.                     *)
Kept == \A j \in 1..Len(ran) :
          /\ (heap[ran[j]].type)' = heap[ran[j]].type
          /\ OfType(j, "beginRenderPass") => PassOf(j)' = PassOf(j)

(* Then their last begin, its render pass and their subpass are kept.        *)
LEMMA KeptLast ==
  ASSUME Kept, Len(ran) \in Nat, NEW k \in 1..Len(ran), NEW b
  PROVE  /\ LastAt(k, b)' <=> LastAt(k, b)
         /\ LastAt(k, b) => PassAt(k)' = PassAt(k) /\ SubpassAt(k)' = SubpassAt(k)
<1>1. \A j \in 1..k : (heap[ran[j]].type)' = heap[ran[j]].type
  BY DEF Kept
<1>2. \A t : \A j \in 1..k : OfType(j, t)' <=> OfType(j, t)
  BY <1>1 DEF OfType
<1>3. b \in 1..k => \A j \in (b + 1)..k : j \in 1..k
  OBVIOUS
<1>4. LastAt(k, b)' <=> LastAt(k, b)
  BY <1>2, <1>3 DEF LastAt
<1>5. ASSUME LastAt(k, b) PROVE PassAt(k)' = PassAt(k) /\ SubpassAt(k)' = SubpassAt(k)
  <2>1. LastBegin(k) = b /\ b \in 1..k /\ OfType(b, "beginRenderPass")
    BY <1>5, LastUnique DEF LastAt
  <2>2. LastBegin(k)' = b
    <3> DEFINE P(x) == /\ OfType(x, "beginRenderPass")
                       /\ \A j \in (x + 1)..k : ~OfType(j, "beginRenderPass")
    <3>1. ASSUME NEW x \in 1..k PROVE P(x)' <=> P(x)
      <4>1. \A j \in (x + 1)..k : j \in 1..k
        OBVIOUS
      <4> QED  BY <1>2, <4>1
    <3>2. LastBegin(k) = (CHOOSE x \in 1..k : P(x))
          /\ LastBegin(k)' = (CHOOSE x \in 1..k : P(x)')
      BY DEF LastBegin
    <3>3. \A x : (x \in 1..k /\ P(x)') <=> (x \in 1..k /\ P(x))
      BY <3>1
    <3> HIDE DEF P
    <3> QED  BY <2>1, <3>2, <3>3, Zenon
  <2>3. PassOf(b)' = PassOf(b)
    BY <2>1 DEF Kept
  <2>4. PassAt(k)' = PassAt(k)
    BY <2>1, <2>2, <2>3 DEF PassAt, PassOf
  <2>5. {j \in b..k : OfType(j, "nextSubpass")}' = {j \in b..k : OfType(j, "nextSubpass")}
    <3>1. \A j \in b..k : j \in 1..k
      BY <2>1
    <3> QED  BY <1>2, <3>1
  <2> QED  BY <2>1, <2>2, <2>4, <2>5 DEF SubpassAt
<1> QED  BY <1>4, <1>5

(* And so is what they clear and draw.                                       *)
LEMMA KeptAt ==
  ASSUME Kept, Len(ran) \in Nat, NEW k \in 1..Len(ran),
         OfType(k, "dispatch") \/ \E b \in 1..k : LastAt(k, b), NEW a
  PROVE  /\ (OfType(k, "dispatch") \/ \E b \in 1..k : LastAt(k, b))'
         /\ ClearsAt(k, a)' <=> ClearsAt(k, a)
         /\ DrawsAt(k, a)' <=> DrawsAt(k, a)
<1>1. \A t : OfType(k, t)' <=> OfType(k, t)
  BY DEF OfType, Kept
<1>2. CASE OfType(k, "dispatch")
  BY <1>1, <1>2 DEF ClearsAt, DrawsAt, OfType
<1>3. CASE ~OfType(k, "dispatch")
  <2>1. PICK b \in 1..k : LastAt(k, b)
    BY <1>3
  <2>2. LastAt(k, b)' /\ PassAt(k)' = PassAt(k) /\ SubpassAt(k)' = SubpassAt(k)
    BY <2>1, KeptLast
  <2>3. ClearsAt(k, a)' <=> ClearsAt(k, a)
    BY <1>1, <2>2 DEF ClearsAt, UsesAt
  <2>4. DrawsAt(k, a)' <=> DrawsAt(k, a)
    BY <1>1, <2>2 DEF DrawsAt, UsesAt
  <2> QED  BY <2>1, <2>2, <2>3, <2>4
<1> QED  BY <1>2, <1>3

FrameInv == BegunInv /\ ShownInv

(* A step that executes nothing.                                             *)
LEMMA FrameKept ==
  ASSUME TypeInv, FrameInv, UNCHANGED <<ran, content>>,
         \A k \in 1..Len(heap) :
           /\ heap'[k].type = heap[k].type
           /\ heap[k].type = "beginRenderPass" => heap'[k].instance = heap[k].instance,
         Len(instances') \in Nat, Len(instances') >= Len(instances),
         \A i \in 1..Len(instances) :
           /\ instances'[i].pass = instances[i].pass
           /\ instances'[i].Rendering = instances[i].Rendering
           /\ instances'[i].SubpassIndex = instances[i].SubpassIndex,
         \A i \in 1..Len(instances') : i \notin 1..Len(instances) => ~instances'[i].Rendering
  PROVE  FrameInv'
<1> DEFINE n == Len(ran)
<1>1. /\ n \in Nat /\ DOMAIN ran = 1..n /\ \A j \in 1..n : ran[j] \in 1..Len(heap)
      /\ Len(instances) \in Nat
  <2>1. ran \in Seq(1..Len(heap)) /\ instances \in Seq(InstanceRecord)
    BY DEF TypeInv, DeviceInv, CommandsInv
  <2>2. Len(instances) \in Nat
    BY <2>1
  <2>3. n \in Nat /\ DOMAIN ran = 1..n
    BY <2>1
  <2>4. \A j \in 1..n : ran[j] \in 1..Len(heap)
    BY <2>1
  <2> QED  BY <2>2, <2>3, <2>4
<1>2. ASSUME NEW j \in 1..n
      PROVE  /\ (heap[ran[j]].type)' = heap[ran[j]].type
             /\ OfType(j, "beginRenderPass") =>
                  /\ (heap[ran[j]].instance)' = heap[ran[j]].instance
                  /\ heap[ran[j]].instance \in 1..Len(instances)
                  /\ PassOf(j)' = PassOf(j)
  <2>1. /\ (heap[ran[j]].type)' = heap[ran[j]].type
        /\ heap[ran[j]].type = "beginRenderPass" =>
             (heap[ran[j]].instance)' = heap[ran[j]].instance
    BY <1>1
  <2>2. OfType(j, "beginRenderPass") => heap[ran[j]].instance \in 1..Len(instances)
    BY DEF FrameInv, BegunInv
  <2> QED  BY <2>1, <2>2 DEF OfType, PassOf
<1>3. Kept
  BY <1>2 DEF Kept
<1>4. ASSUME NEW k \in 1..n
      PROVE  /\ (OfType(k, "dispatch") \/ \E b \in 1..k : LastAt(k, b))'
             /\ \A a : /\ ClearsAt(k, a)' <=> ClearsAt(k, a)
                       /\ DrawsAt(k, a)' <=> DrawsAt(k, a)
  <2>1. OfType(k, "dispatch") \/ \E b \in 1..k : LastAt(k, b)
    BY DEF FrameInv, BegunInv
  <2> QED  BY <1>1, <1>3, <2>1, KeptAt
<1>5. ASSUME NEW k \in 1..n, OfType(k, "beginRenderPass")'
      PROVE  (heap[ran[k]].instance \in 1..Len(instances))'
  <2>1. OfType(k, "beginRenderPass")
    BY <1>2, <1>5 DEF OfType
  <2>2. (heap[ran[k]].instance)' \in 1..Len(instances)
    BY <1>2, <2>1
  <2> QED  BY <1>1, <2>2
<1>6. ASSUME NEW i \in 1..Len(instances'), instances'[i].Rendering
      PROVE  /\ SubpassAt(Len(ran))' = instances'[i].SubpassIndex
             /\ (\E b \in 1..Len(ran) : LastAt(Len(ran), b) /\ heap[ran[b]].instance = i)'
  <2>1. i \in 1..Len(instances) /\ instances[i].Rendering
        /\ instances'[i].SubpassIndex = instances[i].SubpassIndex
    BY <1>6
  <2>2. PICK b \in 1..n : LastAt(n, b) /\ heap[ran[b]].instance = i
    BY <2>1 DEF FrameInv, BegunInv
  <2>3. n \in 1..n /\ OfType(b, "beginRenderPass")
    BY <1>1, <2>2 DEF LastAt
  <2>4. PICK m : m = n
    OBVIOUS
  <2>5. LastAt(m, b)' /\ SubpassAt(m)' = SubpassAt(m)
    BY <1>1, <1>3, <2>2, <2>3, <2>4, KeptLast
  <2>6. (heap[ran[b]].instance)' = i
    BY <1>2, <2>2, <2>3
  <2>7. SubpassAt(m) = instances[i].SubpassIndex
    BY <2>1, <2>4 DEF FrameInv, BegunInv
  <2>8. Len(ran)' = m /\ Len(ran') = m
    BY <2>4
  <2> QED  BY <2>1, <2>2, <2>4, <2>5, <2>6, <2>7, <2>8
<1>7. BegunInv'
  BY <1>4, <1>5, <1>6 DEF BegunInv
<1>8. ASSUME NEW a PROVE Shown(a)' = Shown(a)
  <2>1. Clearing(a)' = Clearing(a)
    BY <1>1, <1>4 DEF Clearing
  <2> QED  BY <1>1, <1>4, <2>1 DEF Shown
<1>9. ShownInv'
  <2> SUFFICES ASSUME NEW a \in Image
               PROVE  (content[a] = Ranked(Shown(a), ran) /\ Dense(Shown(a)))'
    BY DEF ShownInv
  <2>1. content[a] = Ranked(Shown(a), ran) /\ Dense(Shown(a))
    BY DEF FrameInv, ShownInv
  <2>2. PICK S, w : S = Shown(a) /\ w = ran
    OBVIOUS
  <2>3. S = Shown(a)' /\ w = ran' /\ content'[a] = content[a]
    BY <1>8, <2>2
  <2>4. Ranked(S, w)' = Ranked(S, w) /\ Dense(S)' = Dense(S)
    BY DEF Ranked, Dense
  <2> QED  BY <2>1, <2>2, <2>3, <2>4
<1> QED  BY <1>7, <1>9 DEF FrameInv

(* Recording executes nothing, and adds commands and instances.              *)
LEMMA RecordFrame ==
  ASSUME TypeInv, FrameInv, NEW c \in CommandBuffer, Record(c)
  PROVE  FrameInv'
<1> DEFINE n == Len(instances)
<1>1. heap \in Seq(CommandRecord) /\ instances \in Seq(InstanceRecord) /\ n \in Nat
  BY DEF TypeInv, CommandsInv
<1>2. UNCHANGED <<ran, content>>
  BY DEF Record, Begin, Reset, Emptied, End, BindPipeline, BindDescriptorSets, PushConstants,
         BindVertexBuffers, BindIndexBuffer, Bind, Dispatch, Draw, BeginRenderPass, NextSubpass,
         EndRenderPass, ClearAttachments, ClearWithoutInstance, Recorded, deviceVars
<1>3. heap' = heap \/ \E r : heap' = Append(heap, r)
  BY DEF Record, Begin, Reset, Emptied, End, BindPipeline, BindDescriptorSets, PushConstants,
         BindVertexBuffers, BindIndexBuffer, Bind, Dispatch, Draw, BeginRenderPass, NextSubpass,
         EndRenderPass, ClearAttachments, ClearWithoutInstance, Push
<1>4. \A k \in 1..Len(heap) : heap'[k] = heap[k]
  BY <1>1, <1>3
<1>5. CASE BeginRenderPass(c)
  <2>1. PICK new : /\ instances' = Append(instances, new)
                   /\ new = [pass |-> Head(script[c]).pass, Rendering |-> FALSE,
                             SubpassIndex |-> 0, AttachmentsInitialized |-> {}]
    BY <1>5 DEF BeginRenderPass
  <2>2. ~new.Rendering
    BY <2>1
  <2>3. /\ Len(instances') = n + 1 /\ instances'[n + 1] = new
        /\ \A i \in 1..n : instances'[i] = instances[i]
    BY <1>1, <2>1
  <2>4. ASSUME NEW i \in 1..Len(instances'), i \notin 1..n PROVE ~instances'[i].Rendering
    <3>1. i = n + 1
      BY <1>1, <2>3, <2>4
    <3> QED  BY <2>2, <2>3, <3>1
  <2> QED  BY <1>1, <1>2, <1>4, <2>3, <2>4, FrameKept
<1>6. CASE ~BeginRenderPass(c)
  <2>1. instances' = instances
    BY <1>6 DEF Record, Begin, Reset, Emptied, End, BindPipeline, BindDescriptorSets,
         PushConstants, BindVertexBuffers, BindIndexBuffer, Bind, Dispatch, Draw, NextSubpass,
         EndRenderPass, ClearAttachments, ClearWithoutInstance
  <2>2. Len(instances') \in Nat /\ Len(instances') >= n
    BY <1>1, <2>1
  <2> QED  BY <1>2, <1>4, <2>1, <2>2, FrameKept
<1> QED  BY <1>5, <1>6

(* Draws that get another instance have not begun a render pass.             *)
LEMMA ExecuteFrame ==
  ASSUME TypeInv, FrameInv, NEW p \in Primary, NEW s \in Secondary, ExecuteCommands(p, s)
  PROVE  FrameInv'
<1> DEFINE cmds == {commands[s][j] : j \in DOMAIN commands[s]}
<1>1. /\ heap' = Retargeted(cmds, instance[p]) /\ instances' = instances
      /\ UNCHANGED <<ran, content>>
  BY DEF ExecuteCommands, deviceVars
<1>2. /\ heap \in Seq(CommandRecord) /\ instances \in Seq(InstanceRecord)
      /\ instance[p] \in Nat \cup {Null}
  BY DEF TypeInv, CommandsInv, Handles, CommandBuffer
<1> HIDE DEF cmds
<1>3. ASSUME NEW k \in 1..Len(heap)
      PROVE  /\ heap'[k].type = heap[k].type
             /\ heap[k].type = "beginRenderPass" => heap'[k].instance = heap[k].instance
  <2>1. heap'[k] = IF k \in cmds /\ heap[k].type \in {"draw", "drawIndexed"}
                   THEN [heap[k] EXCEPT !.instance = instance[p]] ELSE heap[k]
    BY <1>1, <1>2, RetargetTypes
  <2>2. heap[k] \in CommandRecord
    BY <1>2
  <2>3. [heap[k] EXCEPT !.instance = instance[p]].type = heap[k].type
    BY <2>2 DEF CommandRecord
  <2> QED  BY <2>1, <2>3
<1>4. Len(instances') \in Nat /\ Len(instances') >= Len(instances)
  BY <1>1, <1>2
<1> QED  BY <1>1, <1>3, <1>4, FrameKept

(* What a command does to the images: for every image, the command is the    *)
(* only one that it shows, the last one, or is not shown.                    *)
LEMMA ShownStep ==
  ASSUME TypeInv, FrameInv, Kept, NEW n, n = Len(ran), NEW x \in 1..Len(heap),
         ran' = Append(ran, x),
         content' = [a \in Image |->
           IF ClearsAt(n + 1, a)' THEN <<x>>
           ELSE IF DrawsAt(n + 1, a)' THEN Append(content[a], x) ELSE content[a]]
  PROVE  ShownInv'
<1>1. ran \in Seq(1..Len(heap)) /\ n \in Nat /\ DOMAIN ran = 1..n
  BY DEF TypeInv, DeviceInv
<1>2. DOMAIN ran' = 1..(n + 1) /\ ran'[n + 1] = x
  BY <1>1
<1>3. ASSUME NEW k \in 1..n, NEW a
      PROVE  /\ ClearsAt(k, a)' <=> ClearsAt(k, a)
             /\ DrawsAt(k, a)' <=> DrawsAt(k, a)
  <2>1. OfType(k, "dispatch") \/ \E b \in 1..k : LastAt(k, b)
    BY DEF FrameInv, BegunInv
  <2> QED  BY <1>1, <2>1, KeptAt
<1>4. ASSUME NEW a \in Image
      PROVE  (content[a] = Ranked(Shown(a), ran) /\ Dense(Shown(a)))'
  <2>1. PICK S, C, w, u : S = Shown(a) /\ C = Clearing(a) /\ w = ran' /\ u = ran
    OBVIOUS
  <2>2. content[a] = Ranked(S, u) /\ Dense(S)
    BY <2>1 DEF FrameInv, ShownInv
  <2>3. S \in SUBSET (1..n) /\ C \in SUBSET (1..n) /\ C = {k \in 1..n : ClearsAt(k, a)}
        /\ S = {k \in 1..n : (\A c \in C : c <= k) /\ (k \in C \/ DrawsAt(k, a))}
    BY <1>1, <2>1 DEF Shown, Clearing
  <2>4. Clearing(a)' = IF ClearsAt(n + 1, a)' THEN C \cup {n + 1} ELSE C
    <3>1. Clearing(a)' = {k \in 1..(n + 1) : ClearsAt(k, a)'}
      BY <1>2 DEF Clearing
    <3>2. \A k \in 1..(n + 1) : k \in 1..n \/ k = n + 1
      BY <1>1
    <3>3. \A k \in 1..n : k \in 1..(n + 1)
      BY <1>1
    <3>4. n + 1 \in 1..(n + 1)
      BY <1>1
    <3> QED  BY <1>3, <2>3, <3>1, <3>2, <3>3, <3>4
  <2>5. PICK D : D = Clearing(a)'
    OBVIOUS
  <2>6. Shown(a)' = {k \in 1..(n + 1) : (\A c \in D : c <= k) /\ (k \in D \/ DrawsAt(k, a)')}
    BY <1>2, <2>5 DEF Shown
  <2>7. CASE ClearsAt(n + 1, a)'
    <3>1. D = C \cup {n + 1}
      BY <2>4, <2>5, <2>7
    <3>2. Shown(a)' = {n + 1}
      <4>1. \A k \in 1..n : ~(n + 1 <= k)
        BY <1>1
      <4>2. \A k \in 1..(n + 1) : k \in 1..n \/ k = n + 1
        BY <1>1
      <4>3. n + 1 \in 1..(n + 1) /\ \A c \in D : c <= n + 1
        BY <1>1, <2>3, <3>1
      <4> QED  BY <2>6, <3>1, <4>1, <4>2, <4>3
    <3>3. content'[a] = <<x>>
      BY <2>7
    <3>4. Ranked({n + 1}, w) = <<w[n + 1]>> /\ Dense({n + 1})
      <4>1. PICK m : m = n + 1 /\ m \in Int
        BY <1>1
      <4>2. Ranked({m}, w) = <<w[m]>> /\ Dense({m})
        BY <4>1, RankedOne
      <4> QED  BY <4>1, <4>2
    <3>5. w[n + 1] = x
      BY <1>2, <2>1
    <3>6. PICK S2 : S2 = {n + 1}
      OBVIOUS
    <3>7. content'[a] = Ranked(S2, w) /\ Dense(S2) /\ S2 = Shown(a)' /\ w = ran'
      BY <2>1, <3>2, <3>3, <3>4, <3>5, <3>6
    <3>8. Ranked(S2, w)' = Ranked(S2, w) /\ Dense(S2)' = Dense(S2)
      BY DEF Ranked, Dense
    <3> QED  BY <3>7, <3>8
  <2>8. CASE ~ClearsAt(n + 1, a)'
    <3>1. D = C
      BY <2>4, <2>5, <2>8
    <3>2. \A k \in 1..n : k \in Shown(a)' <=> k \in S
      <4>1. \A k \in 1..n : k \in 1..(n + 1)
        BY <1>1
      <4> QED  BY <1>3, <2>3, <2>6, <3>1, <4>1
    <3>3. n + 1 \in Shown(a)' <=> DrawsAt(n + 1, a)'
      <4>1. n + 1 \in 1..(n + 1) /\ n + 1 \notin C /\ \A c \in C : c <= n + 1
        BY <1>1, <2>3
      <4> QED  BY <2>6, <3>1, <4>1
    <3>4. Shown(a)' \subseteq 1..(n + 1) /\ \A k \in 1..(n + 1) : k \in 1..n \/ k = n + 1
      BY <1>1, <2>6
    <3>5. PICK S2 : S2 = Shown(a)'
      OBVIOUS
    <3>6. /\ Ranked(S, w) = Ranked(S, u)
          /\ Ranked(S \cup {n + 1}, w) = Append(Ranked(S, u), x)
          /\ Dense(S \cup {n + 1})
      <4>1. PICK T : T = 1..Len(heap)
        OBVIOUS
      <4>2. u \in Seq(T) /\ x \in T /\ n = Len(u) /\ w = Append(u, x)
        BY <1>1, <2>1, <4>1
      <4>4. S \in SUBSET (1..n) /\ Dense(S)
        BY <2>2, <2>3
      <4>3. /\ Ranked(S, Append(u, x)) = Ranked(S, u)
            /\ Ranked(S \cup {n + 1}, Append(u, x)) = Append(Ranked(S, u), x)
            /\ Dense(S \cup {n + 1})
        BY <4>2, <4>4, RankedMore, Zenon
      <4> QED  BY <4>2, <4>3
    <3>7. content'[a] = Ranked(S2, w) /\ Dense(S2)
      <4>1. CASE DrawsAt(n + 1, a)'
        <5>1. S2 = S \cup {n + 1}
          BY <2>3, <3>2, <3>3, <3>4, <3>5, <4>1
        <5>2. content'[a] = Append(content[a], x)
          BY <2>8, <4>1
        <5> QED  BY <2>2, <3>6, <5>1, <5>2
      <4>2. CASE ~DrawsAt(n + 1, a)'
        <5>1. S2 = S
          BY <2>3, <3>2, <3>3, <3>4, <3>5, <4>2
        <5>2. content'[a] = content[a]
          BY <2>8, <4>2
        <5> QED  BY <2>2, <3>6, <5>1, <5>2
      <4> QED  BY <4>1, <4>2
    <3>8. Ranked(S2, w)' = Ranked(S2, w) /\ Dense(S2)' = Dense(S2)
      BY DEF Ranked, Dense
    <3> QED  BY <2>1, <3>5, <3>7, <3>8
  <2> QED  BY <2>7, <2>8
<1> QED  BY <1>4 DEF ShownInv

(* Which holds in the next state too.                                        *)
LEMMA LastUniqueThen == (\A k \in Nat : \A b : LastAt(k, b) => LastBegin(k) = b)'
<1>1. \A k \in Nat : \A b : LastAt(k, b) => LastBegin(k) = b
  BY LastUnique
<1> QED  BY <1>1, PTL

(* The numbers up to one more.                                               *)
LEMMA OneMore ==
  ASSUME NEW n \in Nat, NEW b \in Int, NEW j \in b..(n + 1)
  PROVE  j \in b..n \/ j = n + 1
OBVIOUS

(* A step that executes a command keeps the others.                          *)
LEMMA ExecutedKept ==
  ASSUME TypeInv, FrameInv, NEW x \in 1..Len(heap), ran' = Append(ran, x), heap' = heap,
         \A i \in 1..Len(instances) : instances'[i].pass = instances[i].pass
  PROVE  Kept
<1> SUFFICES ASSUME NEW j \in 1..Len(ran)
             PROVE  /\ (heap[ran[j]].type)' = heap[ran[j]].type
                    /\ OfType(j, "beginRenderPass") => PassOf(j)' = PassOf(j)
  BY DEF Kept
<1>1. ran \in Seq(1..Len(heap))
  BY DEF TypeInv, DeviceInv
<1>2. ran'[j] = ran[j]
  BY <1>1
<1>3. OfType(j, "beginRenderPass") => heap[ran[j]].instance \in 1..Len(instances)
  BY DEF FrameInv, BegunInv
<1> QED  BY <1>2, <1>3 DEF PassOf

(* The last begin and the subpass after one more command.                    *)
LEMMA LastStep ==
  ASSUME TypeInv, FrameInv, Kept, NEW n, n = Len(ran), NEW x \in 1..Len(heap),
         ran' = Append(ran, x), heap' = heap
  PROVE  /\ heap[x].type = "beginRenderPass" =>
              /\ LastAt(n + 1, n + 1)' /\ SubpassAt(n + 1)' = 0
              /\ PassAt(n + 1)' = instances'[heap[x].instance].pass
         /\ heap[x].type # "beginRenderPass" => \A b \in 1..n : LastAt(n, b) =>
              /\ LastAt(n + 1, b)' /\ PassAt(n + 1)' = PassAt(n)
              /\ SubpassAt(n + 1)' =
                   IF heap[x].type = "nextSubpass" THEN SubpassAt(n) + 1 ELSE SubpassAt(n)
<1>1. ran \in Seq(1..Len(heap)) /\ n \in Nat /\ DOMAIN ran = 1..n
  BY DEF TypeInv, DeviceInv
<1>2. ran'[n + 1] = x /\ \A j \in 1..n : ran'[j] = ran[j]
  BY <1>1
<1>3. ASSUME NEW t
      PROVE  /\ OfType(n + 1, t)' <=> heap[x].type = t
             /\ \A j \in 1..n : OfType(j, t)' <=> OfType(j, t)
  BY <1>2 DEF OfType
<1>4. n + 1 \in Nat /\ n + 1 \in 1..(n + 1) /\ \A j \in 1..(n + 1) : j \in 1..n \/ j = n + 1
  BY <1>1
<1>5. CASE heap[x].type = "beginRenderPass"
  <2>1. LastAt(n + 1, n + 1)'
    <3>1. \A j \in (n + 1 + 1)..(n + 1) : FALSE
      BY <1>1
    <3> QED  BY <1>3, <1>4, <1>5, <3>1 DEF LastAt
  <2>2. LastBegin(n + 1)' = n + 1
    BY <1>4, <2>1, LastUniqueThen
  <2>3. \A j \in (n + 1)..(n + 1) : j = n + 1
    BY <1>1
  <2>4. {j \in (n + 1)..(n + 1) : OfType(j, "nextSubpass")'} = {}
    BY <1>3, <1>5, <2>3
  <2>5. SubpassAt(n + 1)' = 0
    BY <2>2, <2>4, FS_EmptySet DEF SubpassAt
  <2> QED  BY <1>2, <1>5, <2>1, <2>2, <2>5 DEF PassAt
<1>6. ASSUME heap[x].type # "beginRenderPass", NEW b \in 1..n, LastAt(n, b)
      PROVE  /\ LastAt(n + 1, b)' /\ PassAt(n + 1)' = PassAt(n)
             /\ SubpassAt(n + 1)' =
                  IF heap[x].type = "nextSubpass" THEN SubpassAt(n) + 1 ELSE SubpassAt(n)
  <2>1. n \in 1..n /\ b \in 1..(n + 1) /\ b \in Int
    BY <1>1
  <2>2. LastAt(n + 1, b)'
    <3>1. OfType(b, "beginRenderPass")' /\ LastAt(n, b)'
      BY <1>1, <1>3, <1>6, <2>1, KeptLast DEF LastAt
    <3>2. \A j \in (b + 1)..(n + 1) : j \in (b + 1)..n \/ j = n + 1
      <4>1. b + 1 \in Int /\ n \in Nat
        BY <1>1, <2>1
      <4> QED  BY <4>1, OneMore
    <3>3. ~OfType(n + 1, "beginRenderPass")'
      BY <1>3, <1>6
    <3> QED  BY <2>1, <3>1, <3>2, <3>3 DEF LastAt
  <2>3. LastBegin(n + 1)' = b /\ LastBegin(n) = b
    BY <1>1, <1>4, <1>6, <2>2, LastUnique, LastUniqueThen
  <2>4. PassOf(b)' = PassOf(b)
    BY <1>6 DEF Kept, LastAt
  <2>5. PassAt(n + 1)' = PassAt(n)
    BY <2>3, <2>4 DEF PassAt, PassOf
  <2> DEFINE S == {j \in b..n : OfType(j, "nextSubpass")}
             S2 == {j \in b..(n + 1) : OfType(j, "nextSubpass")'}
  <2>6. S2 = IF heap[x].type = "nextSubpass" THEN S \cup {n + 1} ELSE S
    <3>1. \A j \in b..(n + 1) : j \in b..n \/ j = n + 1
      BY <1>1, <2>1, OneMore
    <3>2. n + 1 \in b..(n + 1) /\ \A j \in b..n : j \in b..(n + 1) /\ j \in 1..n
      BY <1>1, <2>1
    <3> QED  BY <1>3, <3>1, <3>2
  <2>7. IsFiniteSet(S) /\ n + 1 \notin S
    <3>1. IsFiniteSet(b..n)
      BY <1>1, <2>1, FS_Interval
    <3>2. S \subseteq b..n
      OBVIOUS
    <3>3. n + 1 \notin b..n
      BY <1>1, <2>1
    <3> QED  BY <3>1, <3>2, <3>3, FS_Subset
  <2>8. SubpassAt(n) = Cardinality(S) /\ SubpassAt(n + 1)' = Cardinality(S2)
    BY <2>3 DEF SubpassAt
  <2> HIDE DEF S, S2
  <2>9. Cardinality(S \cup {n + 1}) = Cardinality(S) + 1
    BY <2>7, FS_AddElement
  <2> QED  BY <2>2, <2>5, <2>6, <2>8, <2>9
<1> QED  BY <1>5, <1>6

(* In a step that executes its m-th command, x: what it does to the images,  *)
(* that some render pass has been begun before, and that the instance of the *)
(* last one is i, and the subpass that of every instance that renders.       *)
ImagesChange(m, x) ==
  content' = [a \in Image |->
    IF ClearsAt(m, a)' THEN <<x>>
    ELSE IF DrawsAt(m, a)' THEN Append(content[a], x) ELSE content[a]]
BegunAt(n) == \E b \in 1..n : LastAt(n, b)
LastIs(m, i) == \E b \in 1..m : LastAt(m, b)' /\ (heap[ran[b]].instance)' = i
RendersAt(m) ==
  \A i \in 1..Len(instances) : instances'[i].Rendering =>
    SubpassAt(m)' = instances'[i].SubpassIndex /\ LastIs(m, i)

(* The invariant after one more command.                                     *)
LEMMA FrameStep ==
  ASSUME TypeInv, FrameInv, NEW n, n = Len(ran), NEW x \in 1..Len(heap),
         ran' = Append(ran, x), heap' = heap, Len(instances') = Len(instances),
         \A i \in 1..Len(instances) : instances'[i].pass = instances[i].pass,
         heap[x].type # "dispatch" => heap[x].instance \in 1..Len(instances),
         heap[x].type \in {"dispatch", "beginRenderPass"} \/ BegunAt(n),
         ImagesChange(n + 1, x), RendersAt(n + 1)
  PROVE  FrameInv'
<1>1. Kept
  BY ExecutedKept
<1>2. ShownInv'
  BY <1>1, ShownStep DEF ImagesChange
<1>3. /\ n \in Nat /\ Len(ran)' = n + 1 /\ ran'[n + 1] = x
      /\ \A j \in 1..n : ran'[j] = ran[j]
      /\ \A k \in 1..(n + 1) : k \in 1..n \/ k = n + 1
      /\ n + 1 \in 1..(n + 1) /\ \A k \in 1..n : k \in 1..(n + 1)
  <2>1. ran \in Seq(1..Len(heap))
    BY DEF TypeInv, DeviceInv
  <2> QED  BY <2>1
<1>4. ASSUME NEW k \in 1..(n + 1)
      PROVE  (OfType(k, "dispatch") \/ \E b \in 1..k : LastAt(k, b))'
  <2>1. CASE k \in 1..n
    <3>1. OfType(k, "dispatch") \/ \E b \in 1..k : LastAt(k, b)
      BY <2>1 DEF FrameInv, BegunInv
    <3> QED  BY <1>1, <1>3, <2>1, <3>1, KeptAt
  <2>2. CASE k = n + 1
    <3>1. (heap[ran[n + 1]].type)' = heap[x].type
      BY <1>3
    <3>2. CASE heap[x].type = "dispatch"
      BY <2>2, <3>1, <3>2 DEF OfType
    <3>3. CASE heap[x].type = "beginRenderPass"
      BY <1>1, <1>3, <2>2, <3>3, LastStep
    <3>4. CASE heap[x].type \notin {"dispatch", "beginRenderPass"}
      <4>1. PICK b \in 1..n : LastAt(n, b)
        BY <3>4 DEF BegunAt
      <4>2. LastAt(n + 1, b)'
        BY <1>1, <3>4, <4>1, LastStep
      <4> QED  BY <1>3, <2>2, <4>2
    <3> QED  BY <3>2, <3>3, <3>4
  <2> QED  BY <1>3, <2>1, <2>2
<1>5. ASSUME NEW k \in 1..(n + 1), OfType(k, "beginRenderPass")'
      PROVE  (heap[ran[k]].instance)' \in 1..Len(instances)
  <2>1. CASE k \in 1..n
    <3>1. OfType(k, "beginRenderPass") /\ (heap[ran[k]].instance)' = heap[ran[k]].instance
      BY <1>3, <1>5, <2>1 DEF OfType
    <3> QED  BY <2>1, <3>1 DEF FrameInv, BegunInv
  <2>2. CASE k = n + 1
    BY <1>3, <1>5, <2>2 DEF OfType
  <2> QED  BY <1>3, <2>1, <2>2
<1>6. BegunInv'
  <2>1. PICK m, l : m = n + 1 /\ l = Len(instances)
    OBVIOUS
  <2>2. Len(ran)' = m /\ Len(instances)' = l
    BY <1>3, <2>1
  <2>3. ASSUME NEW j \in 1..l, instances'[j].Rendering
        PROVE  /\ SubpassAt(m)' = instances'[j].SubpassIndex
               /\ \E b \in 1..m : LastAt(m, b)' /\ (heap[ran[b]].instance)' = j
    BY <2>1, <2>3 DEF RendersAt, LastIs
  <2>4. \A k \in 1..m : (OfType(k, "dispatch") \/ \E b \in 1..k : LastAt(k, b))'
    BY <1>4, <2>1
  <2>5. \A k \in 1..m :
          OfType(k, "beginRenderPass")' => (heap[ran[k]].instance)' \in 1..l
    BY <1>5, <2>1
  <2> QED  BY <2>2, <2>3, <2>4, <2>5 DEF BegunInv
<1> QED  BY <1>2, <1>6 DEF FrameInv

(* The render pass and the subpass in which the renderer is.                 *)
LEMMA BegunFacts ==
  ASSUME TypeInv, FrameInv, NEW n, n = Len(ran), NEW i \in 1..Len(instances),
         instances[i].Rendering
  PROVE  /\ n \in Nat /\ SubpassAt(n) = instances[i].SubpassIndex
         /\ PassAt(n) = instances[i].pass
         /\ \E b \in 1..n : LastAt(n, b) /\ heap[ran[b]].instance = i
<1>1. ran \in Seq(1..Len(heap)) /\ n \in Nat
  BY DEF TypeInv, DeviceInv
<1>2. /\ SubpassAt(n) = instances[i].SubpassIndex
      /\ \E b \in 1..n : LastAt(n, b) /\ heap[ran[b]].instance = i
  BY DEF FrameInv, BegunInv
<1>3. PICK b \in 1..n : LastAt(n, b) /\ heap[ran[b]].instance = i
  BY <1>2
<1>4. LastBegin(n) = b
  BY <1>1, <1>3, LastUnique
<1> QED  BY <1>1, <1>2, <1>3, <1>4 DEF PassAt

(* A command executed in the render pass that was begun last.                *)
LEMMA WithinStep ==
  ASSUME TypeInv, FrameInv, NEW n, n = Len(ran), NEW x \in 1..Len(heap),
         ran' = Append(ran, x), heap' = heap,
         \A j \in 1..Len(instances) : instances'[j].pass = instances[j].pass,
         NEW i \in 1..Len(instances), instances[i].Rendering, heap[x].type # "beginRenderPass"
  PROVE  /\ BegunAt(n) /\ LastIs(n + 1, i)
         /\ PassAt(n + 1)' = instances[i].pass
         /\ SubpassAt(n + 1)' = IF heap[x].type = "nextSubpass"
                                THEN instances[i].SubpassIndex + 1 ELSE instances[i].SubpassIndex
<1>1. Kept
  BY ExecutedKept
<1>2. /\ n \in Nat /\ SubpassAt(n) = instances[i].SubpassIndex /\ PassAt(n) = instances[i].pass
      /\ \E b \in 1..n : LastAt(n, b) /\ heap[ran[b]].instance = i
  BY BegunFacts
<1>3. PICK b \in 1..n : LastAt(n, b) /\ heap[ran[b]].instance = i
  BY <1>2
<1>4. /\ LastAt(n + 1, b)' /\ PassAt(n + 1)' = PassAt(n)
      /\ SubpassAt(n + 1)' =
           IF heap[x].type = "nextSubpass" THEN SubpassAt(n) + 1 ELSE SubpassAt(n)
  BY <1>1, <1>3, LastStep
<1>5. ran'[b] = ran[b] /\ b \in 1..(n + 1)
  <2>1. ran \in Seq(1..Len(heap))
    BY DEF TypeInv, DeviceInv
  <2> QED  BY <1>2, <1>3, <2>1
<1>6. (heap[ran[b]].instance)' = i
  BY <1>3, <1>5
<1> QED  BY <1>2, <1>3, <1>4, <1>5, <1>6 DEF BegunAt, LastIs

(* beginSubpass changes one instance, which renders.                         *)
LEMMA BeginSubpassInstances ==
  ASSUME instances \in Seq(InstanceRecord), NEW i \in 1..Len(instances), NEW s, NEW done,
         BeginSubpass(i, s, done),
         \A j \in 1..Len(instances) : instances[j].Rendering => j = i
  PROVE  /\ Len(instances') = Len(instances)
         /\ \A j \in 1..Len(instances) : instances'[j].pass = instances[j].pass
         /\ instances'[i].SubpassIndex = s
         /\ \A j \in 1..Len(instances) : instances'[j].Rendering => j = i
<1>1. /\ instances[i] \in InstanceRecord /\ Len(instances) \in Nat
      /\ DOMAIN instances = 1..Len(instances)
  OBVIOUS
<1>2. PICK new : instances' = [instances EXCEPT ![i].Rendering = TRUE, ![i].SubpassIndex = s,
                                 ![i].AttachmentsInitialized = new]
  BY DEF BeginSubpass
<1>3. PICK rec : rec = [instances[i] EXCEPT !.Rendering = TRUE, !.SubpassIndex = s,
                          !.AttachmentsInitialized = new]
  OBVIOUS
<1>4. rec.pass = instances[i].pass /\ rec.SubpassIndex = s
  BY <1>1, <1>3 DEF InstanceRecord
<1>5. instances' = [instances EXCEPT ![i] = rec]
  BY <1>1, <1>2, <1>3
<1>6. /\ DOMAIN instances' = 1..Len(instances) /\ instances'[i] = rec
      /\ \A j \in 1..Len(instances) : j # i => instances'[j] = instances[j]
  BY <1>1, <1>5
<1>7. Len(instances') = Len(instances)
  BY <1>1, <1>5
<1> QED  BY <1>4, <1>6, <1>7

(* The attachments of the first subpasses.                                   *)
LEMMA ColorsUpTo ==
  ASSUME NEW i, NEW s \in Nat, NEW a
  PROVE  a \notin ColorsTo(i, s)
           <=> \A t \in 1..(s + 1) : a \notin instances[i].pass.subpasses[t]
<1>1. a \in ColorsTo(i, s) <=> \E t \in 0..s : a \in instances[i].pass.subpasses[t + 1]
  BY DEF ColorsTo, Colors
<1>2. \A t \in 1..(s + 1) : t - 1 \in 0..s /\ t = (t - 1) + 1
  OBVIOUS
<1>3. \A t \in 0..s : t + 1 \in 1..(s + 1)
  OBVIOUS
<1> QED  BY <1>1, <1>2, <1>3

(* The commands in execution.                                                *)
LEMMA RunFrame ==
  ASSUME TypeInv, PlaceInv, PassesInv, FrameInv, Run
  PROVE  FrameInv'
<1>0. PICK i, x, n, pass : /\ i = Cmd.instance /\ x = Head(queue).cmd
                           /\ n = Len(ran) /\ pass = instances[i].pass
  OBVIOUS
<1> USE <1>0
<1>1. /\ content \in [Image -> Seq(1..Len(heap))] /\ instances \in Seq(InstanceRecord)
      /\ ran \in Seq(1..Len(heap)) /\ n \in Nat
  BY DEF TypeInv, DeviceInv, CommandsInv
<1>2. content = [a \in Image |-> content[a]]
  BY <1>1
<1>3. queue # <<>> /\ Popped /\ Cmd = heap[x]
  BY DEF Run, RunBeginRenderPass, RunNextSubpass, RunEndRenderPass, RunDraw, RunDispatch,
         Running, Cmd
<1>4. /\ x \in 1..Len(heap) /\ ran' = Append(ran, x) /\ heap' = heap /\ i = heap[x].instance
      /\ heap[x].type # "dispatch" => i \in 1..Len(instances)
  BY <1>3, RunFacts, RenderingFacts DEF Popped
<1>5. \A t : OfType(n + 1, t)' <=> heap[x].type = t
  BY <1>1, <1>4 DEF OfType
<1>6. CASE RunBeginRenderPass
  <2>1. heap[x].type = "beginRenderPass"
    BY <1>3, <1>6 DEF RunBeginRenderPass, Running
  <2>2. i \in 1..Len(instances) /\ \A j \in 1..Len(instances) : ~instances[j].Rendering
    BY <1>3, <2>1, RenderingFacts
  <2>3. BeginSubpass(i, 0, {})
    BY <1>6, <2>2 DEF RunBeginRenderPass, AtBegin
  <2>4. /\ Len(instances') = Len(instances)
        /\ \A j \in 1..Len(instances) : instances'[j].pass = instances[j].pass
        /\ instances'[i].SubpassIndex = 0
        /\ \A j \in 1..Len(instances) : instances'[j].Rendering => j = i
    BY <1>1, <2>2, <2>3, BeginSubpassInstances
  <2>5. Kept
    BY <1>4, <2>4, ExecutedKept
  <2>6. LastAt(n + 1, n + 1)' /\ SubpassAt(n + 1)' = 0 /\ PassAt(n + 1)' = pass
    <3>1. /\ LastAt(n + 1, n + 1)' /\ SubpassAt(n + 1)' = 0
          /\ PassAt(n + 1)' = instances'[heap[x].instance].pass
      BY <1>4, <2>1, <2>5, LastStep
    <3> QED  BY <1>4, <2>2, <2>4, <3>1
  <2>7. ASSUME NEW a
        PROVE  /\ ClearsAt(n + 1, a)' <=> a \in Uninitialized(i, 0, {}) \cap pass.clear
               /\ ~DrawsAt(n + 1, a)'
    <3>1. ClearsAt(n + 1, a)' <=> a \in pass.clear /\ a \in pass.subpasses[1]
      BY <1>5, <2>1, <2>6 DEF ClearsAt, UsesAt
    <3>2. ~DrawsAt(n + 1, a)'
      BY <1>5, <2>1 DEF DrawsAt
    <3> QED  BY <3>1, <3>2 DEF Uninitialized, Colors
  <2>8. ImagesChange(n + 1, x)
    BY <2>3, <2>7 DEF BeginSubpass, ImagesChange
  <2>9. ASSUME NEW j \in 1..Len(instances), instances'[j].Rendering
        PROVE  SubpassAt(n + 1)' = instances'[j].SubpassIndex /\ LastIs(n + 1, j)
    <3>1. j = i /\ (heap[ran[n + 1]].instance)' = i /\ n + 1 \in 1..(n + 1)
      BY <1>1, <1>4, <2>4, <2>9
    <3> QED  BY <2>4, <2>6, <3>1 DEF LastIs
  <2>10. RendersAt(n + 1)
    BY <2>9 DEF RendersAt
  <2> QED  BY <1>4, <2>1, <2>4, <2>8, <2>10, FrameStep
<1>7. CASE RunNextSubpass
  <2> DEFINE s == instances[i].SubpassIndex
  <2>1. heap[x].type = "nextSubpass"
    BY <1>3, <1>7 DEF RunNextSubpass, Running
  <2>2. /\ i \in 1..Len(instances) /\ instances[i].Rendering /\ s \in Nat
        /\ \A j \in 1..Len(instances) : instances[j].Rendering => j = i
    BY <1>3, <2>1, RenderingFacts
  <2>3. BeginSubpass(i, s + 1, ColorsTo(i, s))
    BY <1>7, <2>2 DEF RunNextSubpass, PassesInv
  <2>4. /\ Len(instances') = Len(instances)
        /\ \A j \in 1..Len(instances) : instances'[j].pass = instances[j].pass
        /\ instances'[i].SubpassIndex = s + 1
        /\ \A j \in 1..Len(instances) : instances'[j].Rendering => j = i
    BY <1>1, <2>2, <2>3, BeginSubpassInstances
  <2>5. /\ BegunAt(n) /\ LastIs(n + 1, i)
        /\ PassAt(n + 1)' = pass /\ SubpassAt(n + 1)' = s + 1
    BY <1>1, <1>4, <2>1, <2>2, <2>4, WithinStep
  <2>6. ASSUME NEW a
        PROVE  /\ ClearsAt(n + 1, a)'
                    <=> a \in Uninitialized(i, s + 1, ColorsTo(i, s)) \cap pass.clear
               /\ ~DrawsAt(n + 1, a)'
    <3>1. ClearsAt(n + 1, a)' <=> /\ a \in pass.clear /\ a \in pass.subpasses[s + 1 + 1]
                                  /\ \A t \in 1..(s + 1) : a \notin pass.subpasses[t]
      BY <1>5, <2>1, <2>5 DEF ClearsAt, UsesAt
    <3>2. ~DrawsAt(n + 1, a)'
      BY <1>5, <2>1 DEF DrawsAt
    <3>3. a \notin ColorsTo(i, s) <=> \A t \in 1..(s + 1) : a \notin pass.subpasses[t]
      BY <2>2, ColorsUpTo
    <3> QED  BY <3>1, <3>2, <3>3 DEF Uninitialized, Colors
  <2>7. ImagesChange(n + 1, x)
    BY <2>3, <2>6 DEF BeginSubpass, ImagesChange
  <2>8. RendersAt(n + 1)
    BY <2>4, <2>5 DEF RendersAt
  <2> QED  BY <1>4, <2>1, <2>4, <2>5, <2>7, <2>8, FrameStep
<1>8. CASE RunEndRenderPass
  <2>1. heap[x].type = "endRenderPass"
    BY <1>3, <1>8 DEF RunEndRenderPass, Running
  <2>2. /\ i \in 1..Len(instances) /\ instances[i].Rendering
        /\ \A j \in 1..Len(instances) : instances[j].Rendering => j = i
    BY <1>3, <2>1, RenderingFacts
  <2>3. instances' = [instances EXCEPT ![i].Rendering = FALSE] /\ content' = content
    BY <1>8, <2>2 DEF RunEndRenderPass
  <2>4. /\ Len(instances') = Len(instances)
        /\ \A j \in 1..Len(instances) : instances'[j].pass = instances[j].pass
        /\ \A j \in 1..Len(instances) : ~instances'[j].Rendering
    <3>1. instances[i] \in InstanceRecord
      BY <1>1, <2>2
    <3>2. PICK rec : rec = [instances[i] EXCEPT !.Rendering = FALSE]
      OBVIOUS
    <3>3. rec \in InstanceRecord /\ rec.pass = pass /\ ~rec.Rendering
      BY <3>1, <3>2 DEF InstanceRecord
    <3>4. instances' = [instances EXCEPT ![i] = rec]
      BY <2>3, <3>2
    <3>5. /\ Len(instances') = Len(instances) /\ instances'[i] = rec
          /\ \A j \in 1..Len(instances) : j # i => instances'[j] = instances[j]
      BY <1>1, <2>2, <3>3, <3>4, ExceptSeq
    <3> QED  BY <2>2, <3>3, <3>5
  <2>5. BegunAt(n)
    BY <1>1, <2>2, BegunFacts DEF BegunAt
  <2>8. RendersAt(n + 1)
    BY <2>4 DEF RendersAt
  <2>6. \A a : ~ClearsAt(n + 1, a)' /\ ~DrawsAt(n + 1, a)'
    BY <1>5, <2>1 DEF ClearsAt, DrawsAt
  <2>7. ImagesChange(n + 1, x)
    BY <1>2, <2>3, <2>6 DEF ImagesChange
  <2> QED  BY <1>4, <2>1, <2>4, <2>5, <2>7, <2>8, FrameStep
<1>9. CASE RunDraw
  <2> DEFINE s == instances[i].SubpassIndex
  <2>1. heap[x].type \in {"draw", "drawIndexed", "clearAttachments"}
    BY <1>3, <1>9 DEF RunDraw, Running
  <2>2. /\ i \in 1..Len(instances) /\ i # Null /\ instances[i].Rendering
        /\ \A j \in 1..Len(instances) : instances[j].Rendering => j = i
    BY <1>3, <2>1, NullAssumption, RenderingFacts
  <2>3. /\ instances' = instances
        /\ content' = [a \in Image |-> IF a \in Colors(i, s) THEN Append(content[a], x)
                                       ELSE content[a]]
    BY <1>9, <2>2 DEF RunDraw
  <2>4. /\ BegunAt(n) /\ LastIs(n + 1, i)
        /\ PassAt(n + 1)' = pass /\ SubpassAt(n + 1)' = s
    BY <1>1, <1>4, <2>1, <2>2, <2>3, WithinStep
  <2>5. \A a : ~ClearsAt(n + 1, a)' /\ (DrawsAt(n + 1, a)' <=> a \in Colors(i, s))
    BY <1>5, <2>1, <2>4 DEF ClearsAt, DrawsAt, UsesAt, Colors
  <2>6. ImagesChange(n + 1, x)
    BY <2>3, <2>5 DEF ImagesChange
  <2>7. RendersAt(n + 1)
    BY <2>2, <2>3, <2>4 DEF RendersAt
  <2> QED  BY <1>4, <2>3, <2>4, <2>6, <2>7, FrameStep
<1>10. CASE RunDispatch
  <2>1. heap[x].type = "dispatch" /\ instances' = instances /\ content' = content
    BY <1>3, <1>10 DEF RunDispatch, Running
  <2>2. \A j \in 1..Len(instances) : ~instances[j].Rendering
    <3>1. StartsAt(Cmd) = Outside /\ Renders(StartsAt(Cmd))
      BY <1>3, <2>1, RunFacts DEF StartsAt
    <3> QED  BY <3>1 DEF Renders, Outside
  <2>3. \A a : ~ClearsAt(n + 1, a)' /\ ~DrawsAt(n + 1, a)'
    BY <1>5, <2>1 DEF ClearsAt, DrawsAt
  <2>4. ImagesChange(n + 1, x)
    BY <1>2, <2>1, <2>3 DEF ImagesChange
  <2>5. RendersAt(n + 1)
    BY <2>1, <2>2 DEF RendersAt
  <2> QED  BY <1>4, <2>1, <2>4, <2>5, FrameStep
<1> QED  BY <1>6, <1>7, <1>8, <1>9, <1>10 DEF Run

(* The images show what was executed, for every state.                       *)
LEMMA FrameInvHolds == Spec => []FrameInv
<1>1. Init => FrameInv
  <2> SUFFICES ASSUME Init PROVE FrameInv
    OBVIOUS
  <2>1. /\ instances = <<>> /\ ran = <<>> /\ Len(ran) = 0 /\ Len(instances) = 0
        /\ content = [a \in Image |-> <<>>] /\ DOMAIN ran = {} /\ 1..0 = {}
    BY DEF Init
  <2>2. BegunInv
    BY <2>1 DEF BegunInv
  <2>3. ASSUME NEW a \in Image PROVE content[a] = Ranked(Shown(a), ran) /\ Dense(Shown(a))
    <3>1. Shown(a) = {} /\ Cardinality({}) = 0 /\ content[a] = <<>>
      BY <2>1, FS_EmptySet DEF Shown
    <3>2. Ranked({}, ran) = <<>> /\ Dense({})
      BY <2>1, <3>1 DEF Ranked, Dense
    <3> QED  BY <3>1, <3>2
  <2> QED  BY <2>2, <2>3 DEF FrameInv, ShownInv
<1>2. PassInv /\ FrameInv /\ [Next]_vars => FrameInv'
  <2> SUFFICES ASSUME PassInv, FrameInv, [Next]_vars PROVE FrameInv'
    OBVIOUS
  <2>1. TypeInv /\ PlaceInv /\ PassesInv /\ Len(instances) \in Nat
    BY DEF PassInv, TypeInv, CommandsInv
  <2>2. ASSUME UNCHANGED <<heap, instances, ran, content>> PROVE FrameInv'
    BY <2>1, <2>2, FrameKept
  <2>3. ASSUME NEW p \in Primary, Submit(p) PROVE FrameInv'
    BY <2>2, <2>3 DEF Submit
  <2>4. CASE UNCHANGED vars
    BY <2>2, <2>4 DEF vars, bufferVars, deviceVars
  <2> QED  BY <2>1, <2>3, <2>4, RecordFrame, ExecuteFrame, RunFrame DEF Next
<1> QED  BY <1>1, <1>2, PassInvHolds, PTL DEF Spec

(* Every image shows what a renderer would that follows the commands executed*)
(* alone, whatever is recorded, shared and submitted again meanwhile.        *)
THEOREM FramesAreRecorded == Spec => []FrameAsRecorded
<1>1. FrameInv => FrameAsRecorded
  BY DEF FrameInv, ShownInv, FrameAsRecorded, Ranked, Shown, Clearing
<1> QED  BY <1>1, FrameInvHolds, PTL

===============================================================================
