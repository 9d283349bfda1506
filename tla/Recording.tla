------------------------------- MODULE Recording -------------------------------
(***************************************************************************)
(* Command buffers: the vkCmd* calls that record state and commands, the   *)
(* primary and secondary command buffers that hold them, the render pass   *)
(* instances they share, and the execution of what has been submitted.     *)
(*                                                                         *)
(* The queue executes commands one at a time in the order in which they    *)
(* were submitted (CommandStream); nothing else of it is seen here.  What  *)
(* a draw or a dispatch computes is left out: the model keeps the bindings *)
(* it runs with and the images it renders to.                              *)
(***************************************************************************)
EXTENDS Integers, Sequences, FiniteSets

CONSTANTS Primary, Secondary, \* command buffers, by level
          Scripts,            \* by buffer, the sequences of calls that may record it
          MaxRecordings,      \* of all buffers together
          MaxSubmits,
          Null

CommandBuffer == Primary \cup Secondary
Kind == {"computePL", "graphicsPL", "computeDSM", "graphicsDSM", "vertex", "push", "index"}

Call   == UNION {UNION {{t[i] : i \in DOMAIN t} : t \in Scripts[c]} : c \in CommandBuffer}
Binds  == {call \in Call : call.op = "bind"}
Passes == {call.pass : call \in {x \in Call : x.op = "beginRenderPass"}}

\* What can be bound, numbered within its kind: set numbers, vertex bindings, parts
\* of the push constants.
Slot  == UNION {{<<b.kind, b.first + i - 1>> : i \in DOMAIN b.values} : b \in Binds}
Value == UNION {{b.values[i] : i \in DOMAIN b.values} : b \in Binds}
Image == UNION {UNION {p.subpasses[s] : s \in DOMAIN p.subpasses} : p \in Passes}

ASSUME BufferAssumption == Primary \cap Secondary = {}
ASSUME ScriptAssumption ==
  \A c \in CommandBuffer : \A t \in Scripts[c] :
    t \in Seq(Call) /\ t # <<>> /\ t[1].op \in {"begin", "continue"}
ASSUME BindAssumption ==
  /\ Null \notin Value
  /\ \A b \in Binds : b.kind \in Kind /\ b.first \in Nat /\ b.values # <<>>
ASSUME PassAssumption == \A p \in Passes : p.subpasses \in Seq(SUBSET Image) \ {<<>>}
ASSUME NullAssumption == Null \notin Nat

VARIABLES
  state,      \* of each command buffer in Vulkan's life cycle
  context,    \* PipelineContext, IndexBufferAddress and IndexType
  instance,   \* RenderPassInstance
  commands,   \* Commands
  heap,       \* the command objects, which are never deleted
  instances,  \* the render pass instances
  queue,      \* commands submitted and not executed: [cmd, of]
  content,    \* per image the commands that it shows, oldest first
  crashed,
  script,     \* the calls that the recording of a buffer still consists of
  calls,      \* history: the calls it has had
  executes,   \* history: secondary buffers in a primary one
  recordings, submits, \* counters, bounded
  ran         \* history: the commands executed

bufferVars == <<state, context, instance, commands, script, calls, executes, recordings>>
deviceVars == <<queue, content, ran>>
vars == <<bufferVars, heap, instances, deviceVars, crashed, submits>>

Empty == [s \in Slot |-> Null]
Init ==
  /\ state = [c \in CommandBuffer |-> "initial"]
  /\ context = [c \in CommandBuffer |-> Empty]
  /\ instance = [c \in CommandBuffer |-> Null]
  /\ commands = [c \in CommandBuffer |-> <<>>]
  /\ heap = <<>> /\ instances = <<>>
  /\ queue = <<>> /\ content = [i \in Image |-> <<>>]
  /\ crashed = FALSE
  /\ script = [c \in CommandBuffer |-> <<>>]
  /\ calls = [c \in CommandBuffer |-> <<>>]
  /\ executes = [c \in CommandBuffer |-> {}]
  /\ recordings = 0 /\ submits = 0
  /\ ran = <<>>

Pending(c) == \E i \in DOMAIN queue :
                LET p == queue[i].of IN c = p \/ c \in executes[p]

-------------------------------------------------------------------------------
(* Recording.                                                              *)

\* PipelineContext::clear leaves the push constants as they are.
\* Fault: it forgets the vertex buffers.
ClearedButVertex(ctx) ==
  [s \in Slot |-> IF s[1] \in {"push", "vertex"} THEN ctx[s] ELSE Null]
Cleared(ctx) == [s \in Slot |-> IF s[1] = "push" THEN ctx[s] ELSE Null]

\* resetCommandBuffer; a primary buffer that executes this one becomes invalid.
Emptied(c, next) ==
  /\ state' = [d \in CommandBuffer |-> IF d = c THEN next
                 ELSE IF c \in executes[d] THEN "invalid" ELSE state[d]]
  /\ context' = [context EXCEPT ![c] = Cleared(@)]
  /\ instance' = [instance EXCEPT ![c] = Null]
  /\ commands' = [commands EXCEPT ![c] = <<>>]
  /\ executes' = [executes EXCEPT ![c] = {}]
  /\ UNCHANGED <<heap, instances, deviceVars, crashed, submits>>

\* A secondary buffer may be begun to continue a render pass, in its subpass 0.
Begin(c) ==
  /\ state[c] # "recording" /\ ~Pending(c) /\ recordings < MaxRecordings
  /\ \E t \in Scripts[c] :
       /\ t[1].op \in {"begin"} \cup (IF c \in Secondary THEN {"continue"} ELSE {})
       /\ script' = [script EXCEPT ![c] = Tail(t)]
       /\ calls' = [calls EXCEPT ![c] = <<t[1]>>]
  /\ recordings' = recordings + 1
  /\ Emptied(c, "recording")

\* vkResetCommandBuffer.
Reset(c) ==
  /\ state[c] \in {"executable", "invalid"} /\ ~Pending(c)
  /\ script' = [script EXCEPT ![c] = <<>>]
  /\ calls' = [calls EXCEPT ![c] = <<>>]
  /\ UNCHANGED recordings
  /\ Emptied(c, "initial")

\* The application makes the next call of the script.
Calling(c, op) ==
  /\ state[c] = "recording" /\ script[c] # <<>> /\ Head(script[c]).op = op
  /\ script' = [script EXCEPT ![c] = Tail(@)]
  /\ calls' = [calls EXCEPT ![c] = Append(@, Head(script[c]))]
Recorded(c, op) ==
  /\ Calling(c, op)
  /\ UNCHANGED <<state, executes, recordings, deviceVars, crashed, submits>>

\* What Vulkan asks of the caller: calls inside and outside render passes.
Continues(c) == c \in Secondary /\ calls[c] # <<>> /\ calls[c][1].op = "continue"
Inside(c)    == instance[c] # Null \/ Continues(c)

End(c) ==
  /\ state[c] = "recording" /\ script[c] = <<>> /\ instance[c] = Null
  /\ state' = [state EXCEPT ![c] = "executable"]
  /\ UNCHANGED <<context, instance, commands, script, calls, executes, recordings, heap,
                 instances, deviceVars, crashed, submits>>

\* The slots that a call names are given its values, the others keep theirs.
\* Fault: descriptor sets bound earlier are dropped.
BoundAlone(ctx, b) ==
  [s \in Slot |-> IF s[1] = b.kind
                  THEN IF s[2] - b.first + 1 \in DOMAIN b.values
                       THEN b.values[s[2] - b.first + 1] ELSE Null
                  ELSE ctx[s]]
Bound(ctx, b) ==
  [s \in Slot |-> IF s[1] = b.kind /\ s[2] - b.first + 1 \in DOMAIN b.values
                  THEN b.values[s[2] - b.first + 1] ELSE ctx[s]]
Bind(c, kinds) ==
  /\ Recorded(c, "bind") /\ Head(script[c]).kind \in kinds
  /\ context' = [context EXCEPT ![c] = Bound(@, Head(script[c]))]
  /\ UNCHANGED <<instance, commands, heap, instances>>

BindPipeline(c)       == Bind(c, {"computePL", "graphicsPL"})
BindDescriptorSets(c) == Bind(c, {"computeDSM", "graphicsDSM"})
PushConstants(c)      == Bind(c, {"push"})
BindVertexBuffers(c)  == Bind(c, {"vertex"})
BindIndexBuffer(c)    == Bind(c, {"index"})

\* commandBuffer->Commands.push_back(new ...).  The draws and dispatches capture a
\* copy of the bindings and, the draws, the instance.
Push(c, type, captured, i) ==
  /\ heap' = Append(heap, [type |-> type, context |-> captured, instance |-> i,
                           calls |-> calls[c]])
  /\ commands' = [commands EXCEPT ![c] = Append(@, Len(heap) + 1)]

\* The bindings by which a pipeline is found bound.
Has(c, kind) == \A s \in Slot : s[1] = kind => context[c][s] # Null

Dispatch(c) ==
  /\ ~Inside(c) /\ Has(c, "computePL")
  /\ Recorded(c, "dispatch")
  /\ Push(c, "dispatch", context[c], Null)
  /\ UNCHANGED <<context, instance, instances>>

Draw(c) ==
  /\ Inside(c) /\ Has(c, "graphicsPL")
  /\ \/ Recorded(c, "draw") /\ Push(c, "draw", context[c], instance[c])
     \/ /\ Has(c, "index")
        /\ Recorded(c, "drawIndexed")
        /\ Push(c, "drawIndexed", context[c], instance[c])
  /\ UNCHANGED <<context, instance, instances>>

BeginRenderPass(c) ==
  /\ c \in Primary /\ ~Inside(c)
  /\ Recorded(c, "beginRenderPass")
  /\ instances' = Append(instances, [pass |-> Head(script[c]).pass, Rendering |-> FALSE,
                           SubpassIndex |-> 0, AttachmentsInitialized |-> {}])
  /\ instance' = [instance EXCEPT ![c] = Len(instances) + 1]
  /\ Push(c, "beginRenderPass", Null, Len(instances) + 1)
  /\ UNCHANGED context

\* The number of vkCmdNextSubpass calls since the render pass was begun.
SubpassOf(tr) ==
  LET after == {i \in DOMAIN tr : \A j \in i..Len(tr) : tr[j].op # "beginRenderPass"}
  IN Cardinality({i \in after : tr[i].op = "nextSubpass"})

NextSubpass(c) ==
  /\ instance[c] # Null
  /\ SubpassOf(calls[c]) + 1 < Len(instances[instance[c]].pass.subpasses)
  /\ Recorded(c, "nextSubpass")
  /\ Push(c, "nextSubpass", Null, instance[c])
  /\ UNCHANGED <<context, instance, instances>>

EndRenderPass(c) ==
  /\ instance[c] # Null
  /\ SubpassOf(calls[c]) + 1 = Len(instances[instance[c]].pass.subpasses)
  /\ Recorded(c, "endRenderPass")
  /\ Push(c, "endRenderPass", Null, instance[c])
  /\ instance' = [instance EXCEPT ![c] = Null]
  /\ UNCHANGED <<context, instances>>

ClearAttachments(c) ==
  /\ instance[c] # Null
  /\ Recorded(c, "clearAttachments")
  /\ Push(c, "clearAttachments", Null, instance[c])
  /\ UNCHANGED <<context, instance, instances>>

\* *commandBuffer->RenderPassInstance, which a secondary buffer does not have.
ClearWithoutInstance(c) ==
  /\ Inside(c) /\ instance[c] = Null
  /\ state[c] = "recording" /\ script[c] # <<>>
  /\ Head(script[c]).op = "clearAttachments"
  /\ crashed' = TRUE
  /\ UNCHANGED <<bufferVars, heap, instances, deviceVars, submits>>

\* The commands of a secondary buffer are shared; its draws are given the instance.
\* Fault: only plain draws are.
RetargetedPlain(cmds, i) == [k \in DOMAIN heap |->
  IF k \in cmds /\ heap[k].type = "draw"
  THEN [heap[k] EXCEPT !.instance = i] ELSE heap[k]]
Retargeted(cmds, i) == [k \in DOMAIN heap |->
  IF k \in cmds /\ heap[k].type \in {"draw", "drawIndexed"}
  THEN [heap[k] EXCEPT !.instance = i] ELSE heap[k]]

ExecuteCommands(p, s) ==
  /\ Calling(p, "executeCommands")
  /\ state[s] = "executable" /\ \A d \in Primary : s \notin executes[d]
  /\ Inside(p) = Continues(s) /\ (Inside(p) => SubpassOf(calls[p]) = 0)
  /\ heap' = Retargeted({commands[s][i] : i \in DOMAIN commands[s]}, instance[p])
  /\ commands' = [commands EXCEPT ![p] = @ \o commands[s]]
  /\ executes' = [executes EXCEPT ![p] = @ \cup {s}]
  /\ UNCHANGED <<state, context, instance, recordings, instances, deviceVars,
                 crashed, submits>>

\* vkQueueSubmit.  A buffer that executes no other is recorded for simultaneous use.
Submit(p) ==
  /\ state[p] = "executable" /\ submits < MaxSubmits
  /\ Pending(p) => executes[p] = {}
  /\ queue' = queue \o [i \in DOMAIN commands[p] |-> [cmd |-> commands[p][i], of |-> p]]
  /\ submits' = submits + 1
  /\ UNCHANGED <<bufferVars, heap, instances, content, ran, crashed>>

-------------------------------------------------------------------------------
(* Execution.                                                              *)

Running(type) == queue # <<>> /\ heap[Head(queue).cmd].type = type
Cmd == heap[Head(queue).cmd]
Popped ==
  /\ queue' = Tail(queue) /\ ran' = Append(ran, Head(queue).cmd)
  /\ UNCHANGED <<bufferVars, heap, submits>>
AssertFails == crashed' = TRUE /\ UNCHANGED <<instances, content>>

Colors(i, s) == instances[i].pass.subpasses[s + 1]
\* beginSubpass: an attachment is initialized in the first subpass that uses it,
\* cleared if its loadOp says so.
\* Fault: the attachments of every subpass are.
UninitializedAll(i, s, initialized) == Colors(i, s)
Uninitialized(i, s, initialized) == Colors(i, s) \ initialized
BeginSubpass(i, s, initialized) ==
  LET new == Uninitialized(i, s, initialized) IN
  /\ instances' = [instances EXCEPT ![i].Rendering = TRUE, ![i].SubpassIndex = s,
                     ![i].AttachmentsInitialized = initialized \cup new]
  /\ content' = [a \in Image |-> IF a \in new \cap instances[i].pass.clear
                                 THEN <<Head(queue).cmd>> ELSE content[a]]

\* RenderPassInstance::begin, nextSubpass and end.
\* Fault: begin keeps the flags of the last time.
AtBeginKept(i) == instances[i].AttachmentsInitialized
AtBegin(i) == {}
RunBeginRenderPass ==
  /\ Running("beginRenderPass") /\ Popped
  /\ LET i == Cmd.instance IN
       IF instances[i].Rendering THEN AssertFails
       ELSE BeginSubpass(i, 0, AtBegin(i)) /\ UNCHANGED crashed

RunNextSubpass ==
  /\ Running("nextSubpass") /\ Popped
  /\ LET i == Cmd.instance IN
       IF ~instances[i].Rendering THEN AssertFails
       ELSE /\ BeginSubpass(i, instances[i].SubpassIndex + 1,
                            instances[i].AttachmentsInitialized)
            /\ UNCHANGED crashed

RunEndRenderPass ==
  /\ Running("endRenderPass") /\ Popped
  /\ LET i == Cmd.instance IN
       IF ~instances[i].Rendering THEN AssertFails
       ELSE /\ instances' = [instances EXCEPT ![i].Rendering = FALSE]
            /\ UNCHANGED <<content, crashed>>

\* A draw, like a clear of attachments, is seen in the attachments of the current
\* subpass of its instance.
RunDraw ==
  /\ Running("draw") \/ Running("drawIndexed") \/ Running("clearAttachments")
  /\ Popped
  /\ IF Cmd.instance = Null THEN AssertFails
     ELSE /\ content' = [a \in Image |->
               IF a \in Colors(Cmd.instance, instances[Cmd.instance].SubpassIndex)
               THEN Append(content[a], Head(queue).cmd) ELSE content[a]]
          /\ UNCHANGED <<instances, crashed>>

RunDispatch ==
  /\ Running("dispatch") /\ Popped
  /\ UNCHANGED <<instances, content, crashed>>

Record(c) == \/ Begin(c) \/ Reset(c) \/ End(c)
             \/ BindPipeline(c) \/ BindDescriptorSets(c) \/ PushConstants(c)
             \/ BindVertexBuffers(c) \/ BindIndexBuffer(c)
             \/ Dispatch(c) \/ Draw(c)
             \/ BeginRenderPass(c) \/ NextSubpass(c) \/ EndRenderPass(c)
             \/ ClearAttachments(c) \/ ClearWithoutInstance(c)
Run == \/ RunBeginRenderPass \/ RunNextSubpass \/ RunEndRenderPass
       \/ RunDraw \/ RunDispatch

Next == ~crashed /\ \/ \E c \in CommandBuffer : Record(c)
                    \/ \E p \in Primary : Submit(p)
                    \/ \E p \in Primary, s \in Secondary : ExecuteCommands(p, s)
                    \/ Run

Spec == Init /\ [][Next]_vars
-------------------------------------------------------------------------------
Command == DOMAIN heap
TypeOK ==
  /\ state \in [CommandBuffer -> {"initial", "recording", "executable", "invalid"}]
  /\ context \in [CommandBuffer -> [Slot -> Value \cup {Null}]]
  /\ instance \in [CommandBuffer -> DOMAIN instances \cup {Null}]
  /\ commands \in [CommandBuffer -> Seq(Command)]
  /\ \A k \in Command : /\ heap[k].instance \in DOMAIN instances \cup {Null}
                        /\ heap[k].context = Null \/ heap[k].context \in [Slot -> Value \cup {Null}]
  /\ \A i \in DOMAIN instances :
       /\ instances[i].SubpassIndex + 1 \in DOMAIN instances[i].pass.subpasses
       /\ instances[i].AttachmentsInitialized \subseteq
            UNION {Colors(i, t) : t \in 0..instances[i].SubpassIndex}
  /\ queue \in Seq([cmd : Command, of : Primary])
  /\ content \in [Image -> Seq(Command)] /\ ran \in Seq(Command)

(* A draw or a dispatch runs with what was bound when it was recorded: for   *)
(* each slot, the value of the last call since vkBeginCommandBuffer that     *)
(* named it, or nothing (push constants that were never set have any value). *)
(* This must survive later bindings, resets, a new recording of the buffer   *)
(* and the execution from another one.                                       *)
Names(call, s) == /\ call.op = "bind" /\ call.kind = s[1]
                  /\ s[2] - call.first + 1 \in DOMAIN call.values
LastNamed(tr, s) ==
  LET named == {i \in DOMAIN tr : Names(tr[i], s)}
      last  == CHOOSE i \in named : \A j \in named : j <= i
  IN IF named = {} THEN Null ELSE tr[last].values[s[2] - tr[last].first + 1]
CapturedAsBound ==
  \A k \in Command : heap[k].type \in {"draw", "drawIndexed", "dispatch"} =>
    \A s \in Slot : LET v == LastNamed(heap[k].calls, s) IN
      heap[k].context[s] = v \/ (s[1] = "push" /\ v = Null)

(* When a draw is about to run, its instance is the one, and the only one,   *)
(* that is rendering, in the subpass in which the draw was recorded or, from *)
(* a secondary buffer, in subpass 0; the assertions on Rendering hold.       *)
IsRendering(i) == instances[i].Rendering
DrawsInTheirSubpass ==
  /\ TypeOK
  /\ \A i, j \in DOMAIN instances : IsRendering(i) /\ IsRendering(j) => i = j
  /\ Running("draw") \/ Running("drawIndexed") \/ Running("clearAttachments") =>
       /\ Cmd.instance # Null /\ IsRendering(Cmd.instance)
       /\ instances[Cmd.instance].SubpassIndex = SubpassOf(Cmd.calls)
  /\ Running("nextSubpass") \/ Running("endRenderPass") => IsRendering(Cmd.instance)
  /\ Running("beginRenderPass") => ~IsRendering(Cmd.instance)

(* The images show what a renderer would that follows the stream of executed *)
(* commands alone: from the last clear, by the loadOp of an attachment in    *)
(* the first subpass that uses it, all that was drawn to it, in order.       *)
OfType(k, t)  == heap[ran[k]].type = t
LastBegin(k)  == CHOOSE b \in 1..k : /\ OfType(b, "beginRenderPass")
                   /\ \A j \in (b + 1)..k : ~OfType(j, "beginRenderPass")
PassAt(k)     == instances[heap[ran[LastBegin(k)]].instance].pass
SubpassAt(k)  == Cardinality({j \in LastBegin(k)..k : OfType(j, "nextSubpass")})
UsesAt(k, a)  == a \in PassAt(k).subpasses[SubpassAt(k) + 1]
ClearsAt(k, a) ==
  /\ OfType(k, "beginRenderPass") \/ OfType(k, "nextSubpass")
  /\ a \in PassAt(k).clear /\ UsesAt(k, a)
  /\ \A s \in 1..SubpassAt(k) : a \notin PassAt(k).subpasses[s]
DrawsAt(k, a) == /\ OfType(k, "draw") \/ OfType(k, "drawIndexed") \/ OfType(k, "clearAttachments")
                 /\ UsesAt(k, a)
FrameAsRecorded ==
  \A a \in Image :
    LET clears == {k \in DOMAIN ran : ClearsAt(k, a)}
        shown  == {k \in DOMAIN ran : /\ \A c \in clears : c <= k
                                      /\ k \in clears \/ DrawsAt(k, a)}
        at(n)  == CHOOSE k \in shown : Cardinality({j \in shown : j <= k}) = n
    IN content[a] = [n \in 1..Cardinality(shown) |-> ran[at(n)]]
===============================================================================
