# Talvos in TLA+

Talvos emulates a Vulkan device: an application calls the Vulkan entry points
(`lib/vulkan`), which record commands and submit them to a queue; a queue thread
executes them (`lib/talvos`), running SPIR-V shaders on a virtual GPU of cores and
lanes that can be stepped interactively (`tools/talvos-cmd`).  This directory holds
TLA+ models of its core, the TLC instances that check them and machine-checked
proofs about them.  Paths below are relative to `src/`.

## 1. The system

| Component | State | Operations | Interacts with |
|---|---|---|---|
| Command queue (`lib/talvos/Queue.cpp`) | `Commands`, `Fences`, `Running`, the queue thread | constructor, `submit`, `run`, `waitIdle`, destructor | host threads through `Mutex`/`StateChanged`; runs `Command`s; notifies the device of fences |
| Fences and events (`lib/talvos/Device.cpp`, `lib/vulkan/synchronization.cpp`, `lib/talvos/Commands.cpp`) | plain boolean flags, `FenceMutex`/`FenceSignaled` | `waitForFences`, `notifyFenceSignaled`, reset, set, wait commands | both the queue thread and the hosts read and write the flags without a lock |
| Memory (`lib/talvos/Memory.cpp`) | `Allocs`, `FreeList` and host heap blocks | allocate, release, map, unmap, load, store, copy, atomics | device memory is used by hosts and the queue thread; every invocation and workgroup has a `Memory` of its own |
| Compute scheduler (`lib/talvos/PipelineExecutor.cpp`) | pending, running and current groups, current invocation, core PCs, microtasks, lane states | `start`, `step`, `tickModel`, `doPrepareTick`, `stepComputeWorker`, `doSwtch`, `stop` | called by `DispatchCommand` in the queue thread, or by a debugging session; steps `Invocation`s |
| Interactive debugger (`PipelineExecutor::interact`, `signalError`) | breakpoints, continue flag | step, continue, break, breakpoint, switch, quit | switches groups under the scheduler |
| Nested dispatch (`Invocation::executeDispatch_Talvos`) | saved statics | `pushState`, `popState` | an executor inside an executor |
| Draw pipeline (`lib/talvos/PipelineExecutor.cpp`) | pending fragments, primitives | vertex and fragment workers, rasterization, blending | render pass instances, images |
| Images and buffers (`lib/talvos/Image.cpp`, `lib/vulkan/resources.cpp`, `copies.cpp`, `clears.cpp`) | formats, extents, addresses in device memory | layout, views, copies, blits, clears, texel reads and writes, sampling | device memory; commands and invocations |
| Invocation (`lib/talvos/Invocation.cpp`) | objects, call stack, phi temporaries, barrier flag | `step`, one handler per opcode | memory, images, the executor |
| Command buffers, pipeline context, render passes | recorded commands, bindings | recording, execution, reset | the queue holds pointers to recorded commands |
| Descriptor sets | bindings by set, layout counts | allocate, update, copy, templates | captured by the pipeline context |
| Module, types, objects (`lib/talvos/Module.cpp`, `Type.cpp`, `Object.cpp`) | the parsed program | `processInstruction`, lookups, layout in bytes | everything that executes |
| Pipelines (`PipelineStage.cpp`, `lib/vulkan/pipelines.cpp`) | specialized objects, the workgroup size | creation | dispatches and draws |
| Command files and sessions (`tools/talvos-cmd`) | the parse position, named buffers | the command language; `start`, `step`, `tick`, `cont` | device and executor |
| Device, errors and plugins | error count, plugin list | `reportError`, reports | all of the above |

What is hard here:

* **Threads.** Host threads and the queue thread share the queue under one lock and
  fence flags under none.  A host may act on a fence flag while the queue thread is
  still inside the critical section that set it.
* **Condition variables** with several kinds of waiters, a wait that is not in a
  loop, and one lock taken inside another.
* **Progress**: hosts that poll, events that are never set, destruction while the
  queue thread is in any state.
* **Re-entrant scheduling state**: `doSwtch` and `stepComputeWorker` both move the
  current group and invocation; steps and ticks with different masks interleave and
  leave microtasks for one another.
* **Reuse of identifiers** in memory, with pointers into it in the hands of hosts.
* **Two parsers that are left and entered again**: a command file is resumed by the step of a
  debugger, and a shader module is built from declarations that decorate what comes later.
* **Addresses by arithmetic**: mip levels, layers, rows, strides, matrix layouts and arrays of
  descriptors are all offsets into flat memory, each computed in several places.

`PROJECT.json` lists each hazard with the line where it bites and the properties
that would catch it going wrong.

## 2. Modules

| Module | Content |
|---|---|
| `CommandQueue` | the queue thread, hosts, fences, events and fence waits; safety, liveness and the inductive invariant |
| `CommandStream` | what the queue promises: a FIFO stream of entries that take effect one at a time |
| `CommandQueue_proofs` | proofs about `CommandQueue`, and that it implements `CommandStream` |
| `DeviceMemory` | `Memory` and the Vulkan memory calls |
| `AddressSpace` | what a memory promises: buffers at distinct bases, robust access |
| `DeviceMemory_proofs` | proofs about `DeviceMemory`, and that it implements `AddressSpace` |
| `ComputeExecutor` | one dispatch on the virtual GPU |
| `Debugger` | its callers: the interactive debugger, and the session with its masks |
| `ComputeExecutor_proofs` | proofs about the executor with either caller |
| `Session` | command files, and the session that runs or debugs them |
| `Session_proofs` | proofs about `Session` |
| `Draw` | one draw command: vertices, primitive assembly, rasterization |
| `Draw_proofs` | proofs about `Draw` |
| `Recording` | command buffers, bindings, render pass instances and their execution |
| `Recording_proofs` | proofs about `Recording`: what commands capture, and where and on what they run |
| `Descriptors` | descriptor sets: allocation, updates, binding with dynamic offsets |
| `Descriptors_proofs` | proofs about `Descriptors` |
| `Texel`, `Blending` | formats and the conversion of texels; what becomes of fragment outputs |
| `Images` | images, views and every command and instruction that moves texels, by addresses |
| `Images_proofs` | proofs about `Images`: the layout, the accesses to the memory, the texels written |
| `Surfaces` | what these promise, by coordinates |
| `Types`, `Arithmetic`, `Operations` | types and objects as bytes; the operations on numbers; the handlers that compute a value |
| `Shader` | the programs as an author writes them, with tables of their types and places |
| `Assembly` | the text of a program, the instructions that a SPIR-V module has for it |
| `Loader` | `ModuleBuilder`, `PipelineStage` and the creation of a pipeline |
| `Invocation` | one invocation: calls, branches, phi nodes, variables, pointers, memory |
| `ShaderSemantics` | what an invocation promises: typed values, activations with environments of their own |
| `MC...` | an instance for TLC of the module it is named after |

How they are composed: `Debugger` extends `ComputeExecutor`, so that every step of the user
interleaves with the steps of the scheduler.  `Invocation` extends `Loader`, which extends
`Assembly`: a behaviour loads the text of a program, makes it a pipeline and runs it.  `Images` extends
`Blending` and `Texel`.  `CommandQueue`, `DeviceMemory`, `Images` and `Invocation` each instantiate the module
that says what they promise with a refinement mapping.

The other modules meet at what they take for granted of one another.  `CommandStream`, which
`CommandQueue` implements, is the order in which `Recording` executes commands.  The copy of a
descriptor set that `Descriptors` makes at `vkCmdBindDescriptorSets` is the value that
`Recording` binds.  A command that `Recording` executes is a dispatch of `ComputeExecutor`, a
draw of `Draw` or a command of `Images`.  The instruction kinds of `ComputeExecutor` stand for those of `Invocation`,
whose memories are `DeviceMemory`.  The executor of `Session` is what `ComputeExecutor` shows
of itself to a session.

An operator introduced by `Fault:` in a module is a variant of the definition that
follows it with one plausible mistake.  It takes no part in the specification; it
documents a mistake that a property detects.

`TypeOK` of a module is its type invariant: in `CommandQueue` it is a part of `Inv`, elsewhere a
conjunct of one of the properties of the module.

### 2.1 CommandQueue

`qpc` is the position of the queue thread in `Queue::run`.  A critical section under
`Mutex` is one step, except where the code does something inside it that others see
without the lock: the branch that signals a fence is three steps (`SignalFence`
writes the flag, `EraseFence` removes the fence and pops, `NotifyFence` takes
`FenceMutex`), during which `MutexFree` is false.  `hpc` is the position of each host in
the call it has begun.  A host in `Device::waitForFences` reads the flags one at a time
(`ReadFence`) while it holds `FenceMutex` (`hpc = "scan"`), then returns or sleeps.

`notify_all` moves the sleepers of a condition variable to the state in which they
contend for the lock (`WakeQueue`, `WakeIdlers`, `WakeFenceWaiters`).  Waits may also end
without a notification (`SpuriousWake`, `SpuriousHostWake`).  `Timer` ends a
`wait_for`; with a timeout of `UINT64_MAX` the duration that the code computes is
negative as a signed number of nanoseconds, so the wait ends at once and the host polls:
`Timer` is enabled for `"forever"` too.

`WaitEventsCommand::runImpl` spins on one event after the other; `PassEvent` is the
iteration in which it finds the event set.  `Destroy` is the destructor up to
`Thread.join()`, `Join` the rest.  If the destructor has emptied `Commands` under a
running command, the `pop` that follows is undefined behaviour on an empty
container; since `Running` is false nothing reads the container after it, and `Pop` leaves it
empty.

The guards of host calls are the rules Vulkan sets to its callers, and nothing more: a
fence is submitted only when the host knows it to be unsignaled and not in flight
(`owned`), it is not reset while someone waits for it, an event is not reset while a
command waits for it, and the device is destroyed when no other call is in progress
and, with `MustDrain`, when the queue has been found idle.  With `MustDrain = FALSE`
the destructor meets a busy queue, as it can whenever an application exits early.

History variables: `log` (everything pushed), `ran` (everything that took effect), `due`
(where in `log` a fence was pushed), `owned`, `ticket` (the length of `log` when
`waitIdle` began) and `drained`.

`CommandStream` declares `log`, `ran`, `signaled` and `ticket`; the refinement is the
identity on them and hides threads, locks and queues: that entries take effect one by one in
order, and that `waitIdle` returns only after what preceded it, is its content.

### 2.2 DeviceMemory

An address is `id * OffsetSpan + offset`; the code has `BUFFER_BITS` and `OFFSET_BITS`
instead of `BufferSpan` and `OffsetSpan`, and arithmetic modulo `AddressSpan` as it has
modulo 2^64.  `heap` is what host pointers point at, so that buffers sharing memory or
pointing at freed memory would be seen.  Uninitialised contents of a new buffer are
any bytes.  `access` is the latest operation as its caller sees it; with the mapping
`BufferAt`, `AddressSpace` says what each operation returns and changes.  Operations
are atomic, as they are when hosts allocate and release while the queue is idle.

### 2.3 ComputeExecutor

A program is a sequence of instruction kinds: memory access (which
`doPrepareTick` schedules one lane at a time), barrier and anything else.  Programs
are chosen at the start, one per invocation, equal in their first instruction (that of
the entry point, where `startComputeWorker` asserts agreement) and ending in a
terminator.  `pc` says which loop of which function the executor is in:
`start` → `StartLane`; a call `step(mask)` or `Session::tick` → `Call`; `tickModel` → `RunFront`;
a microtask visiting its lanes → `SkipLane`, `EnterLane` … `EndMicrotask`;
`stepComputeWorker` → `StepInvocation`, `NextGroup`, `PickInvocation`, `ClearBarrier`,
`BarrierAbort`, `CompleteGroup`; the collection of lane states → `CollectLane`; the end → `StepDone`, `Stop`.
`Swtch` is `doSwtch`.  A failed assertion, a null dereference or `abort` is the
state `crashed` or `aborted`.

With workgroups of one invocation `doSwtch` has created the groups of all lanes
before `stepComputeWorker` runs; with larger ones the lanes cover only the first groups, and
`NextGroup` takes the others from the pending list.

### 2.4 Debugger and Session

`Debugger` adds to `ComputeExecutor` what `interact` keeps and does: `Interact` is its
entry after a step (a breakpoint ends `continue`), `ReportError` the prompt that
`signalError` opens in the middle of an instruction, `Brk`, `Delete`, `Cont`,
`StepCommand`, `SwtchCommand` and `Quit` the commands.  An invocation's breakpoint is the
result identifier of its current instruction, which `ResultId` takes from the way to it.
`UseOfNull` is the crash of the commands that dereference the current invocation after a switch
to a finished group.  `meddled` records a switch at the prompt of an error: the interrupted
microtask then takes the PC of its core from the wrong invocation, and the properties
make no claim after it.  `front` tells whether the user or a session is the caller.

In `Session` a command file is a sequence of tokens.  `ReadCommand` reads a keyword and
`Get` what its handler wants next, so that a file may end, or a conversion fail, at any token;
`eof` and `fail` are the bits of the stream, and `newline` tells whether white space follows the last
token, since `eofbit` is set by the token before otherwise.  The executor is
reduced to its command, the ticks that are left, and whether groups are still suspended.  Hosts
call `Run`, or `Start` and then `StepOrContinue` and `Tick` in any order.
`Throw` is the exception that `run` catches (and `UncaughtMode` the one it does not), `StartFails`
the assertions of `start`: that nothing is running, no group is left from before, and the groups are
fewer than the lanes of the device (`Fits`).  That the device has less than 64 lanes is `DeviceAssumption`.

### 2.5 Draw

A draw is a record of the parameters of the command and of the pipeline state.  `pc` goes
through `run(DrawCommandBase)`: `StartInstance`, one `ShadeVertex` for each vertex worker,
`VerticesDone`, then for each primitive `StartPrimitive` (its bounding box and its
culling), one `ShadeFragment` for each pending fragment, `PrimitiveDone`; at the end of the
last instance `Stop`.  Positions are in half pixels, so that pixel centres, edges
and areas are exact integers; the code computes in floating point and rounds.
`VertexIndex` keeps 32 bits.  `shown` records for each pixel the primitives that were
blended into it, in order.  Interpolation and depth are data and left out; vertex inputs and blending are
in `Images`.

`Stop` is shared with dispatches: `StopFails` gives the states in which what it does after a draw
is undefined, and `PastTheEnd` the read of vertices that do not exist.  The run
`draw` includes draws that come to either; they end in the state `crashed`.

### 2.6 Recording

The application follows one of the `Scripts` of a buffer, a sequence of `vkCmd*` calls, one
call a step.  `context` is the `PipelineContext` of a buffer with its index buffer, by
slot: a descriptor set number, a vertex binding, a part of the push constants, a
pipeline.  A draw or dispatch copies it into the command (`Push`), together with a
pointer to the render pass instance, which is shared.  `PipelineContext::clear` does not
clear push constants (`Cleared`).  `ExecuteCommands` appends the commands of a secondary buffer
and changes their instance, as the code does, in the shared command objects.  `Submit`
copies the pointers into the queue; the actions `Run...` execute the first of them.  `content`
is what an attachment shows: the commands that wrote to it since it was cleared, oldest first.

The guards are Vulkan's rules: calls inside and outside a render pass, the life cycle of a
buffer (`state`), no reset of a pending buffer, a secondary buffer executed by one
primary at a time.  A buffer may be submitted while it is pending if it executes no
other one (simultaneous use), since `vkBeginCommandBuffer` asserts that a continued
secondary buffer is not recorded for it.  `ClearWithoutInstance` is the null
dereference of `vkCmdClearAttachments` in a secondary buffer.

### 2.7 Descriptors

Layouts map binding numbers to a count, a type and whether samplers are immutable.
`Update` begins a `VkWriteDescriptorSet` or an entry of a template, `UpdateNext` is one
iteration of `updateDescriptors`: `Place` goes on to the next binding that is not empty, and is
`Null` where `at(++Binding)` throws.  `CombinedImageSamplers` points to objects in `memory`.
`Bind` copies the sets of one call and gives each dynamic descriptor the next offset; it
fails its assertions (`crashed`) if a dynamic descriptor has not been written, since only written
descriptors are in the map that it walks.

### 2.8 Images

`Images` has one flat memory of bytes and the addresses that the host bound its images and buffers to.
`Layout` is in `TexelOffset` (level, layer, slice, row), sizes multiply modulo `Byte^4`, and
each command computes its addresses as the code does: copies (`CopyBufferRegion`,
`CopyBufferToImageRegion`, ...), blits, clears of images and attachments, fills,
host writes through a subresource layout, the image instructions of a
shader through a view, samplers, vertex inputs, and the fragments of a draw with
blending.  `Texel` has `Image::read` and `Image::write`: an integer or normalized
component of some bytes, or a float; `Blending` has the factors and operators of `blendTexel`.
A byte has `Byte` values, and a float is a multiple of `1/Unit`.

An access that is not valid loads zeroes, or stores nothing (`IsAccessValid`).

`Surfaces` knows no address: an image is a function of level, layer and coordinate, and a
command says which places change and to what.  The refinement mapping reads the
places out of the memory with the layout; a command that touches a byte too many, in
another image as well, is not a step of `Surfaces`.  Where the code does not do what Vulkan asks for,
a comment in `Surfaces` says "A departure" and the definition describes what the code does:
section 5 lists them.

### 2.9 Loading a program

`Shader` describes a program as its author sees it: entry points, constants,
functions of blocks, and variables with the contents of their buffers.  `Assembly`
turns it into the instructions of a SPIR-V module, as a compiler and the parser of
SPIRV-Tools deliver them; it is the environment of the code, not a part of it.

`Loader` hands them to `ModuleBuilder::processInstruction` one at a time; `unparsed` are those still
to come.  `builder` has the variables of the builder (the current function and block,
and decorations that wait for their targets), `Mod` the module.  There is one
action for each group of opcodes, and an opcode or capability the code does not know ends in `abort`.
`CreateStage` is `vkCreateComputePipelines` with `PipelineStage`: it looks up the entry
point, gives the specialized constants their values and then evaluates the operations on
constants, in the order of the module.

`Types` has the layout of types in bytes, `Operations` and `Arithmetic` what the handlers compute.
Numbers have one or two bytes of `Byte` values, signed or not; floats are numbers
of that width with NaN and infinities, and their operations are exact.

### 2.10 Invocation

`Begin` is the constructor with `initializeVariables`: variables in buffers are addresses, an array of descriptors
is gathered into an allocation of its own, constants are the objects of the stage.
`Objects` is the array of results that all functions share, so that a call overwrites the parameters
of its callee in place; `CallStack`, `PreviousBlock`, `PhiTemps` and the program counter are those of the
class.  Every action is one `Invocation::step` with one handler: it applies
`PhiTemps` if the instruction is not an `OpPhi` (`Seen` is what the handler then reads), and
moves on unless the handler has moved.  Objects hold bytes and, if they are pointers, a matrix layout, as in
the code; an access chain adds up offsets.  `Finalize` copies the gathered arrays back and releases them.
A phi node that finds no predecessor and a read of an identifier
without a value would be failures of the code.

`ShaderSemantics` has neither bytes nor addresses.  A value is a tree of scalars, a pointer names
a place in a variable (a path of indices), each activation has an environment of its own, the phi nodes of
a block are assigned at once when it is entered, variables end with their activation, and
specialization is what the pipeline was asked for.  The
refinement mapping takes the activations from `CallStack`, decodes objects with their types, and finds the
place that an address names; the identifiers that each activation
has defined come from the history `defined`, and phi nodes that have been executed in part
are completed (`Settled`), so that they are stuttering steps, as are all steps of the loader.

The programs satisfy the rules of SPIR-V that the interpreter takes for granted: no recursion, unique
identifiers, definitions before uses, phi nodes first in their blocks and none in the first block of
a function.

## 3. What the runs check

| Run | Module | Instance | Properties |
|---|---|---|---|
| `fences` | `CommandQueue` | 2 hosts, 2 fences, batches with and without a command, 3 entries, polls and unlimited waits | `Inv`, `FenceAfterBatch`, `SubmitAssertion`, `ImplementsStream`, `WaitForFencesComplete` |
| `progress` | `CommandQueue` | 2 hosts, 1 fence submitted twice, finite and unlimited timeouts | `ImplementsFairStream`, `FenceWaitersReturn` |
| `events` | `CommandQueue` | 2 hosts, 2 events, every event command, destruction of a busy queue | `WaitEventsComplete`, `QueueWaitersReturn` |
| `space` | `DeviceMemory` | 2 identifiers, 2 offsets, 1-bit bytes | `FreeListExact`, `DataOwned`, `ImplementsAddressSpace` |
| `uniform` | `Debugger` | the interactive debugger over 2 cores of 2 lanes, 3 groups of 1, all uniform programs of up to 4 instructions, 1 breakpoint, 1 error | `DebugCompletes`, `DebugLockStep`, `BreakpointsHit`, `DebugTerminates` |
| `masks` | `Debugger` | a session over 2 cores of 3 lanes, 4 groups of 2, programs that agree but for one invocation, with barriers and memory accesses; steps, ticks and switches | `GroupConservation`, `LaneOnce`, `BarrierTogether`, `MaskRespected` |
| `session` | `Session` | 4 cores of 8 lanes; files with nested loops, every kind of error, an open loop, several dispatches and dispatches of 30, 32 and 64 groups, with and without a last newline; dispatches of 1 or 3 ticks; run and debugged | `ExecutesAsWritten`, `ResultRight`, `ContinueRunsAll`, `AbortsExplained`, `DebuggerWaits` |
| `draw` | `Draw` | 3×3 pixels, quads with vertices on pixel centres as strips, fans and lists, and draws with instances, indices, offsets, culling, scissors and discards | `FreshVertices`, `PrimitivesAsSpecified`, `SharedEdgesOnce`, `NothingMissed` |
| `recording` | `Recording` | 1 primary and 1 secondary buffer, 16 scripts, 3 recordings, 2 submissions | `CapturedAsBound`, `DrawsInTheirSubpass`, `FrameAsRecorded` |
| `descriptors` | `Descriptors` | 2 sets, 3 layouts with empty, sparse, dynamic, combined and immutable bindings, 3 updates, 1 bind | `WritesLandInOrder`, `CombinedOwned`, `OffsetsInOrder` |
| `images` | `Images` | 6 images, 2 buffers and 12 views of every shape and kind of format, two placements and two contents of the memory, every command with its boundary cases | `TexelsApart`, `NearestStored`, `ImplementsSurfaces` |
| `invocation` | `Invocation` | 20 programs: 9 loops with 2 phi nodes that depend on each other or not, nested calls with pointers to variables and a switch, a kill, arithmetic on integers and floats, composites, matrices of both layouts, arrays, descriptor arrays, atomics, barriers, specialization, and two that the loader rejects; all inputs | `PredecessorFound`, `ImplementsSemantics` |

**What they show.**

* `Inv` has the order of submission, and that no waiter misses a wake-up; `FenceAfterBatch`: a fence that is seen signaled belongs
  to a batch that has run; `SubmitAssertion`: the assertion of `submit` holds although a
  host may reset and submit a fence while the queue thread is still erasing it; `WaitForFencesComplete`: a
  wait that succeeds has seen every fence it asked for signaled.
  `ImplementsStream` and `ImplementsFairStream` are refinements of `CommandStream`.
* `FreeListExact`: identifiers are live or free, once; `DataOwned`: no two buffers share host memory, and none is left
  behind; `ImplementsAddressSpace`: every access returns and changes what the abstract space says.
* `DebugLockStep`, `DebugCompletes` and `DebugTerminates`: with uniform programs, whatever the user sets and
  switches to between steps, the lanes keep in lock step, the dispatch is
  finished only when all have finished, and it is; `BreakpointsHit`: no breakpoint is passed, although `interact` looks
  at one invocation only.
* `GroupConservation`: a group is pending, suspended, current or completed, once; `LaneOnce`: a tick
  steps a lane at most once; `BarrierTogether`: nobody passes a barrier alone; `MaskRespected`: no step of a masked lane.
* `ExecutesAsWritten`: the commands of a file are executed in order with loops unrolled and none after an
  error; `ResultRight`: the result tells whether all were, with one exception, a loop that is open at the end of a file without a last
  newline, for which it is true; `ContinueRunsAll` and `DebuggerWaits`: a debugger gets through the file,
  and no command is executed while a dispatch is unfinished;
  `AbortsExplained`: the assertions of `start` fail for a dispatch of as many groups as there are lanes, or more, or after another
  dispatch, and in no other situation.
* `FreshVertices`: no primitive is assembled from the outputs of an earlier instance; `PrimitivesAsSpecified`: primitives and their
  winding are those of the topology; `SharedEdgesOnce`: a sample on a shared edge is shaded once;
  `NothingMissed`: the bounding box cuts nothing off.
* `CapturedAsBound`: a command runs with what was bound last when it was recorded; `DrawsInTheirSubpass` and `FrameAsRecorded`: the
  attachments show what the stream of `vkCmd*` calls draws.
* `WritesLandInOrder`: every element holds its latest resource; `CombinedOwned`: each combined sampler has its object, released once;
  `OffsetsInOrder`: dynamic offsets go to the right descriptors.
* `TexelsApart`: texels share no byte and fill the memory required; `NearestStored`: a normalized value is stored as the nearest one;
  `ImplementsSurfaces`: refinement of `Surfaces`, which is what Vulkan asks for except for the departures of section 5.
* `PredecessorFound`: an `OpPhi` finds the block it was entered from, also after calls and returns; `ImplementsSemantics`: refinement of
  `ShaderSemantics`, from the text of the program to the contents of its buffers at the end.

No run expects a violation.  What was found besides is in section 5.

**Bounds.** Two hosts suffice for every pair of racing calls, and the queue thread is a
third actor; two fences for `all`/`any` waits and for two fences queued at once;
three entries for a batch with a fence, and another before or after it, or for a fence
reused.  `MaxEntries` bounds the history, not the queue's behaviour.  In
`space`, two identifiers and two pointers make reuse in either order and
exhaustion of both happen, and `BufferSpan = 3` keeps them below the limit of
`BUFFER_BITS`, which `allocate` does not check.  In `masks`, one core has three lanes and another one, two
groups have lanes for all
of their invocations and two have none, so lanes of one core and of different cores
diverge, groups are suspended, completed, and taken from the pending list; the masks are all
lanes, and a pair across cores.  In `uniform`, one breakpoint can be set, hit, deleted and passed,
and one error interrupts an instruction of any lane.
In `session`, 30 groups are less than the lanes and 32 as many; loops have counts of one to three and a loop within; a dispatch of three ticks can be stepped, ticked
and continued in every way.

In `draw`, a vertex on a pixel centre makes edges go through samples, which is where the
rule for shared edges matters; every pair of triangles that four such vertices make is
drawn.  In `recording`, the scripts of the primary buffer have two subpasses that share an
image, with each kind of binding before or between its draws; three recordings allow a buffer to be
recorded again, or the secondary to be, after commands were captured, and two
submissions an instance to be used again.  In `descriptors`, three updates can overwrite
each other in part and run over an empty binding, and one bind of two sets has all the ways
of consuming offsets.

In `images`, the resources are packed without a gap, so that a byte too many is a byte of
another; a command is executed on a memory in which bytes differ, so one command a behaviour
(`MaxCommands = 1`) is enough, as commands share nothing but the memory. Each departure of
the code has a command that takes it: samples below zero on sizes of 2 and 3 in both modes,
in views of another format and on a layer below zero, a copy to the second layer, fills to
the end of a buffer of ten bytes, host writes to each level, vertex inputs that start at
another component. `Byte = 8` leaves the ranges of one-byte formats small; `Unit = 1344` is
a multiple of what they divide by. `TexelsApart` goes over all images of up to 5×4 texels
with layers, slices and levels.

In `invocation`, two phi nodes can swap, copy or leave each other, one function is called
from two others at different depths, with a variable in each activation, and an address is
reused while outer variables are alive. `Byte = 4` makes words of 16 and halves of 4 values,
so that every operation overflows; `MaxBuffer = 5` is the number of the identifiers that are
live at once; `Garbage` are the bytes an uninitialized allocation may hold.

**Symmetry** is used on hosts, pointers and descriptor sets in runs without liveness.

**Deadlock** is checked everywhere but in `events`, where a queue thread may
spin for ever on an event that no host sets before it calls the destructor: the
program hangs there too; in `recording`, `descriptors` and `images`, where the application has made all the
calls it is allowed by the bounds; and in `invocation`, whose shaders finish.

**Fairness.** Weak fairness of each thread: the operating system runs a thread that can
run.  Strong fairness of `NotifyFence`, `LockFences` and `IdleReturn`, which acquire a
mutex that others release and take again: a host that polls with an unlimited
timeout takes `FenceMutex` over and over, and the code relies on the mutex not
starving the queue thread.  Timers fire.  No fairness of new host calls, of spurious wake-ups, or of
events being set: `QueueWaitersReturn` excepts
a queue thread that spins on an unset event.  `ComputeExecutor` has one thread, and
`run()` calls `step` until it returns `FINISHED`; in `Debugger` the user does not stay at a prompt for ever but
continues in the end.

## 4. What is proved

Each theorem holds for every value of the constants that satisfies the assumptions of its module
(hosts, commands and batches; layouts and sets; programs, cores and lanes; scripts of calls; draw commands).
In each case the property is not inductive, and an invariant that is carries the proof.

| Theorem | States |
|---|---|
| **`CommandQueue_proofs`** | |
| `TypeCorrect`, `InvHolds` | `Spec => []TypeOK`, `Spec => []Inv` |
| `RunsInOrder` | `Spec => []InOrder` |
| `FencesTellTheTruth` | `Spec => []FenceAfterBatch` |
| `AssertionHolds` | `Spec => []SubmitAssertion` |
| `NoWakeupLost` | `Spec => [](NoLostFenceWakeup /\ NoLostQueueWakeup)` |
| `QueueIsStream` | `Spec => ImplementsStream`, the refinement |
| `WaitsAreComplete` | `Spec => WaitForFencesComplete`, an action property |
| `EventWaitsAreComplete` | `Spec => []WaitEventsComplete` |
| **`DeviceMemory_proofs`**, under `NoWrap` | |
| `FreeListIsExact` | `Spec => []FreeListExact` |
| `DataIsOwned` | `Spec => []DataOwned` |
| `MemoryIsAddressSpace` | `Spec => ImplementsAddressSpace`, the refinement |
| **`ComputeExecutor_proofs`** | |
| `ExecInvHolds` | `DebugSpec => []ExecInv` |
| `GroupsConserved` | `DebugSpec => []GroupConservation` |
| `LanesOnce` | `DebugSpec => []LaneOnce` |
| `BarriersHold` | `DebugSpec => []BarrierTogether` |
| `MasksRespected` | `DebugSpec => MaskRespected`, an action property |
| `LockInvHolds` | `Uniform /\ DebugSpec => [](ExecInv /\ DebugTypes /\ LockInv)` |
| `LanesInLockStep` | `Uniform /\ DebugSpec => []DebugLockStep` |
| `UniformCompletes` | `Uniform /\ DebugSpec => []DebugCompletes` |
| `UniformBreakpointsHit` | `Uniform /\ DebugSpec => BreakpointsHit`, an action property |
| `UniformRunsSafely` | `Uniform /\ DebugSpec => [](~meddled => pc \notin {"aborted", "crashed"})` |
| **`Session_proofs`** | |
| `SessionInvHolds` | `Spec => []SessionInv` |
| `AbortsAreExplained` | `Spec => []AbortsExplained` |
| `DebuggerAlwaysWaits` | `Spec => DebuggerWaits`, an action property |
| **`Draw_proofs`** | |
| `OutputsAreFresh` | `Spec => []FreshVertices` |
| `PrimitivesRight` | `Spec => []PrimitivesAsSpecified` |
| `NothingIsMissed` | `Spec => []NothingMissed` |
| `SharedEdgesAreOnce` | `Spec => []SharedEdgesOnce` |
| **`Recording_proofs`** | |
| `CapturesHold` | `Spec => []CapturedAsBound` |
| `DrawsStayInSubpass` | `Spec => []DrawsInTheirSubpass` |
| `FramesAreRecorded` | `Spec => []FrameAsRecorded` |
| **`Images_proofs`** | |
| `TexelsAreApart` | `Spec => []TexelsApart` |
| `NothingWrittenOutside` | `Spec => WritesStayInside`, an action property: a step changes bytes of what its command names and, after a buffer that is filled, at most three more |
| `WrittenIsNearest` | `Spec => []NearestStored` |
| **`Descriptors_proofs`** | |
| `OffsetsOrdered` | `Spec => []OffsetsInOrder` |
| `CombinedAreOwned` | `Spec => []CombinedOwned` |
| `WritesLand` | `Spec => []WritesLandInOrder` |

**The queue.** `InOrder` needs to know that what is
popped is what ran: `CommandAtFront` and `FenceAtFront` say what is at the front of `Commands`
at each position of the queue thread.  `FenceAfterBatch` needs the place of a queued fence
in the log (`DueExact`) and that a fence is queued at most once (`FencesQueued`), which
in turn needs that a fence given to `submit` is not still in `Fences`: the one fence
that is signaled and still there is the one being erased, under the mutex that `submit`
needs.  `NoLostFenceWakeup` needs to know what a waiter has counted while it scanned
(`ScanExact`): a flag that it read too early was set by a thread that still has to
take `FenceMutex`.  `Inv` is the conjunction of these parts and is itself checked by TLC in
`fences`.  `TypeStep` proves the types, one lemma for each action of the
queue thread and of the hosts the parts about the queue (gathered in `QueueStep`), and another
group (`SignalWaitStep`, `NotifyWaitStep`, `CallWaitStep`, ...) the parts about waiters.

**The queue as a stream.** `NextEntry` finds in `Inv` that the entry which takes effect is the
next one of the log.  `waitIdle` needs `TicketExact` in addition: while the device exists, a host that waits has a
ticket within the log, and no other has one.  The two waits need history:
`SeenSignaled` says that the fences which a scan has counted are still signaled, because no fence is reset while
someone waits for it, and `PassedEventsSet` says the same of the events that were passed.

**Memory.** `MemInv` adds to the two properties that there are no more buffers than `MaxAllocs`.  `NoWrap` says that
identifiers fit `BufferSpan` and that an access does not run over the end of the address space; the instance
that TLC checks satisfies it (two identifiers of three, lengths up to `OffsetSpan`).  Under it `Bases` shows that
bases are distinct multiples of `OffsetSpan`, `ValidAccess` that the test of `isAccessValid` is the one of the
abstract memory, and `...Shown` for each operation that it is the step of `AddressSpace`
that the mapping `BufferAt` shows.

**Executor and debugger.** `ExecInv` is the invariant of both, whoever calls.  `OnePlace` says
that the not yet created, suspended, current and completed groups are a partition; `SwtchStep`,
`NextGroupStep` and `CompleteGroupStep` show that a group moves between lists and never into two.
`TasksRight` says that the microtasks of a core visit its lanes at most once, `ControlRight` that a microtask is there
when a lane executes, `PromptRight` that a prompt in the middle of an instruction leaves the instruction to be executed
by the lane it interrupted, unless the user has switched.  `SamePassed` says that the invocations of a group have passed equally many barriers;
it is kept because `ClearBarrier` needs all of them at the barrier (`ClearStep`), and no other step
passes one (`BarrierCount`).

That lanes are in lock step, the dispatch completes and breakpoints are hit is a matter of uniform dispatches, and what is
proved is about them: `Uniform` is what the run `uniform` fixes (one invocation in a workgroup, equal instructions in all
invocations, stepped by the interactive debugger), for any numbers of cores, lanes and groups, any instructions, and
whatever the user switches to, breaks at and continues.  None of the three holds without it.  `LockInv` describes a
round of microtasks.  `Left` are the lanes it has still to step.  They are all at one place; those that have been stepped
are at one place too, one instruction, or one passed barrier, further on (`Together`).  The PC of a core is that of its lanes until the
first of them is stepped and again after its last microtask (`CoresRight`); in between it is nobody's, and no code
reads it.  So every lane of a core with a PC gets a microtask (`PrepareRound`) and all of them leave a round at one place (`WhenDone`).
The user who switches at the prompt of an error can set the PC of a core from a lane that is one step off; from then on
(`meddled`) the invariant only says that such a PC is not null before the lanes have ended (`CoreIs`), or that every
invocation has ended (`AllExecuted`), and that stays so (`EndedStays`).  That a breakpoint is not passed even then
needs this weaker half too.

**Draws.** `DrawInv` says which vertices have the output of this instance: those below `NextWorkIndex` while they
are shaded, all of them afterwards (`OutputsFresh`).  `InPlace` relates the loop variable `next` to the history: at
the place `FirstPrimitive + Stride * q` of an instance, `Instance * Count + q` primitives have been
assembled.  `PrimitiveIs` shows for each topology that the loop body then assembles primitive `q` of Vulkan's
definition, `CountIs` that the loop does not end before the last of them, and `InstanceAndPlace` that
a number of that form is split into instance and place by division.

What is shown has an invariant of its own, `FrameInv`: a pixel holds a primitive when this covers the pixel and, as
long as its fragments are worked on, a worker has passed the pixel (`Shows`).  Vertices may be shaded again for the next instance, but
keep their numbers and so their places (`Placed`), hence what was shown rightly stays right.
`PendingAre` shows that the pending fragments are the pixels of the box in the scissor, each once;
`CoveredInBounds` that a covered pixel is in the box: the sample is the mean of the corners with the three areas as
weights (`Barycentric`), so it is not beyond all of them (`Weights`).  For an edge, `SampledTurns` lets any two corners come first; `OnSide` shows
that a sample on the edge is the triangle's if and only if it owns the edge, since inside of an edge it is strictly inside of the
other two (`InnerSide`), and `EdgeOnce` that of two triangles on the two sides of an edge one owns it.
The coordinates are any integers (`PlaceAssumption`); that floating point computes the signs of the areas exactly is part of the model, not proved.

**Command buffers.** `RecInv` says of every buffer that each slot of its context holds what the last call that
names the slot gave it, as the history `calls` has it, and of every command in the heap, reachable or not, that it
has what its buffer had when it was recorded.  `LastOfAppend` shows what one more call changes, `EmptiedStep` why
a reset or a new begin keeps the rest.

Where a draw runs is settled by what is recorded long before.  A command starts at a place, outside render passes or in
a subpass of an instance (`StartsAt`), and leads to one (`LeadsTo`).  `PlaceInv` says that the commands of a primary buffer
form a path from outside to where its recording is (`PrimaryInv`), that a secondary buffer has only draws, in subpass 0, or only
dispatches, and shares them with nobody but the buffers that execute it (`SecondaryInv`), so that `vkCmdExecuteCommands` may
redirect its draws without moving a command of any other path (`ExecutePlaces`), and that the queue is a path to the outside that begins
where the renderer is (`QueueInv`).  A buffer that is submitted a second time is a second loop from outside to outside
(`PathConcat`).  The assertions on `Rendering` follow.

`FrameInv` reads the same off the commands that were executed: the instance that renders is the one of the last begin,
in the subpass that the number of next-subpass commands since then says (`BegunInv`), and each image shows its commands by their rank
(`ShownInv`).  `KeptAt` shows that nothing later changes what an executed command
cleared or drew: a begin keeps its instance and an instance its render pass, and only draws are redirected.  In `ShownStep` one more command
is the only one, the last one (`RankedMore`) or none; that it clears exactly where an attachment is used for the first time needs
that `AttachmentsInitialized` has the attachments of all subpasses so far while the instance renders (`PassesInv`).

**Images.** `SizeTold` says that the answer to an application is the `TotalSize` of an image that can be created; the
rest is arithmetic.  The offset of a level is a sum over the levels before it, written with the `MapThenSumSet` of the
community modules, which adds up a set in an arbitrary order.  `AddingSums` shows that it is the sum of a sequence
(`OffsetIsSum`), by induction.  The induction theorems of the library take a predicate, which the
provers cannot instantiate, but a least element of a set of numbers exists by `WFMin`, and
`SetInduction` follows.  The texels of a level are numbered with four digits: plane (slice or layer, one of which is 0), row,
column and byte, and each number below the bytes of the level has these digits (`DigitsBounded`,
`DigitsExist`, `DigitsUnique`).  Levels follow each other without a gap (`SumsMonotone`, `SumsCover`).  Where `Fits32`
holds no product wraps (`WrappedBytes`, `TexelAtOffset`).  `ShapeAssumption` asks of an image that
its extents and layers are positive, its levels at most 32, and its layers 1 if there is depth; `PowersOfTwo` goes through the 32 shifts one by one.

The other two theorems go through every command, so they say what they take from an application, which Vulkan asks of it
and the code does not check (`ApplicationAssumption`): an image has such a shape and
fits in 32 bits (`Fits32`); a buffer is shorter than 2^32 bytes (so no product of a copy
wraps); a view has the texel size of its image and some of its levels and layers; a region, a clear, a coordinate and a host write are inside of what
they name.  A fill is of whole words or, with `VK_WHOLE_SIZE`, up to the end of its buffer, whatever is left of a word there.  `MemoryAssumption` has every resource inside of the memory at
the address it is bound to.  `IsFormat` asks of `Unit` that the maximum of a normalized component
divides it, so that the values the code computes in floating point are exact: rounding to `float` is not modelled.  With bytes of 256
values there are such units for formats of 8 bits and for those of 16, signed or not, but none for all of them at once.  TLC evaluates the assumptions on `images`.

`WritesStayInside` is about every step: the bytes it changes are of the resource that its command names.  The bytes of a resource
are `Held`, and `ChangesOnly` says of two memories that they differ in given places only; it holds for a store (`StoredType`), a
copy (`CopiedType`) and one change after the other (`ChangesTwice`).  So each command needs that its addresses are among those `Held`.
The lemmas per command (`CopyBufferType` to `ImageWriteType`, and `EachRegionType` for all regions of one) compute them: an offset in a box of texels is
inside of the level, a place of a view is a place of the image (`ViewMapped`), and a level is inside of the `TotalSize` that was bound (`LevelMapped`).
A host that writes to a small level with the layout of the first one still hits its image (`LayoutInLevel`, `ExtentNotLarger`).  The one
command that leaves its resource is a fill to the end of a buffer: `WordsInside` bounds its last word, which may change up to three bytes of
what is bound next to it, and the property says so (`Reach`).
That what is stored is bytes rests on the conversions: `ReadWritten` shows what `Read` finds where `Write` has been, for each kind of
format.  `NearestStored` says it of the texel last written; the invariant `Written` adds to it that `memory` still
holds the bytes of that texel, and `NearestKept` that the number stored is the one that `Round` has
chosen among the multiples of `Quantum`.

**Sessions.** The theorems are about any files, which need not be those of a program: `FileAssumption` asks for a
nonempty sequence of tokens, and the device may have any numbers of cores and lanes below 64 in all (`DeviceAssumption`).  `SessionInv` has, beside the types, four parts.  `ParseInv`: while a handler
parses, the stream has not failed, and the command and the tokens it has got are behind the position; so `args` is
shorter than the file.  `LoopsInv`: a loop whose start `tellg` could not give leaves a stream that has
failed, so no `ENDLOOP` is ever parsed that seeks there.  `CallInv`: a dispatch has ticks left only in a debugger that has
started one, and never while `run` parses, from which `DebuggerWaits` follows.  `HistoryInv`: the lanes are launched exactly when
the commands executed have a dispatch among them, suspended groups are of a dispatch of several groups, and a
command stays current in a debugger only; these are, with the number of groups (`Fits`), what the assertions of `start` and `makeU` ask, so `AbortInv` follows.  The actions are
taken in five groups (`HostStep`, `ReadStep`, `LoopStep`, `OtherStep`, `DispatchStep`), with a lemma for
what each group leaves alone.

**Descriptor sets.** `DescInv` has the types, the place of an update in progress, and `Owned`: elements and live allocations
correspond one to one.  `PlaceIn` shows that an update that runs over stays inside of
the layout or fails, `PutSampled` and `PutAddress` that an element of another type is not hit, `DestroyedStep` that exactly the
allocations of the destroyed sets go.  `OffsetIsRank` counts: the number that `OffsetIndex` has at a
descriptor is its rank among those of all sets of the call, because the descriptors of earlier sets and those before it in its own are disjoint and finite.

`LandInv` adds what `WritesLandInOrder` needs while an update is under way: a write hits the elements that it has come to so
far, each element has the resource of the last write that hit it (`AllLanded`), the iterations done are
the number of elements between the first element and the present place (`UpdateRight`), and an object is read by its
own element only (`ObjectsOwned`).  `PlaceNoneBetween` shows that the step to the next binding leaves no element
out, `DistanceNext` and `DistanceLess` that distances count them in order, so that `HitsNext` finds exactly one new hit per iteration;
`PutHolds` that the iteration disturbs no other element.

**Only model-checked**: liveness and everything under fairness (the prover has no support for
`ENABLED`), so also that the queue implements the fair `CommandStream`;
the property of `Invocation`, and those of `Session` that compare a file with the program it was written
from (`ExecutesAsWritten`, `ResultRight`, `ContinueRunsAll`), since `Shader`, `Assembly` and `MCSession` have
`RECURSIVE` operators, and no module with a proof reaches them.
That `Images` implements `Surfaces` is checked only: its proof would go from bytes back to places, once for each
command and at each texel of a region, and the theorems above have only the first half of it, that
layouts are injective, accesses are inside, and that texels are read as they were written.

## 5. Not modelled, and what else was found

Outside the models by nature: perspective and interpolation, transcendental functions, output, tables of
device features, unimplemented stubs, parsing and validation by SPIRV-Tools.  The worker pool
(`doWork`, `runWorker`) is dead code: `NumThreads` is 1 and no thread is started.  Plugins are external code.

* **Nested dispatch** (`lib/talvos/Invocation.cpp:642`): `popState` does not restore `IsWorkerThread`, and
  `Cores.clear()` in `start` destroys the microtask that is running; what happens after the first nested dispatch is undefined.
* **Races on `Allocs`** (`lib/talvos/Memory.cpp:258`): a host in `allocate` moves the vector that an access reads without the lock.
  There is no set of outcomes to choose from.
* **The error limit** (`lib/talvos/Device.cpp:159`): after `MaxErrors` errors `reportError` neither aborts on a
  fatal error nor opens the prompt.
* **Lanes that diverge**: a lane that has finished sets the PC of its core to null
  (`lib/talvos/PipelineExecutor.cpp:578`), and the dispatch is finished although another lane has instructions left.  `include/talvos/PipelineExecutor.h:99` says that `run` runs a dispatch to completion.  `uniform` therefore has uniform programs, and `masks`
  does not require that a dispatch completes.
* **After a dispatch** the groups but the last are still in `RunningGroups`, where the next `start` asserts that there are none
  (`test/misc/jacobi.tcf` has two); a debugger does not stop its executor, so its second dispatch fails as well.  A dispatch of as many groups as the device has
  lanes (32 with 4 cores of 8), or more, fails an assertion of `start` by itself (`lib/talvos/PipelineExecutor.cpp:340`): the lane
  after that of the last group is computed, and must exist.  A draw
  shares `stop` and finalizes the variables of a stage that is not its own.  `AbortsExplained`
  and the state `crashed` of `Draw` have these.
* **Command files**: a file that ends inside a `LOOP` without a last newline returns true, where
  `test/talvos-cmd/unterminated-loop.tcf` expects an error (the exception in `ResultRight`); `ENTRY` before `MODULE` dereferences null, and `Entry`
  dangles after a second `MODULE`; a debugger goes on with the file after an error; `Cores`, `Lanes` and `Assignments` are
  static and survive a session.
* **Destruction** of a queue that is not idle drops pending fences, also that of a batch
  whose last command has just run, although `include/talvos/Queue.h` says that a fence is set when all of
  the commands have completed.
* **Images**, where the code does not do what Vulkan asks for, and `Surfaces` describes what it does: `REPEAT` takes a negative
  coordinate for an unsigned one, wrong unless the size is a power of two; a sampler reads in the format of the image, not of the
  view; `CopyImage` ignores the layer of its destination; `FillBuffer` with `VK_WHOLE_SIZE`, where Vulkan rounds down to whole
  words, writes the remainder as well and up to three bytes beyond the buffer; a subresource layout ignores the mip level.  It leaves open which
  layer a sample takes that rounds to one below zero (a negative `float` converted to `uint32_t` is undefined behaviour,
  `lib/talvos/Image.cpp:536`), and what a vertex input with a `Component` reads, which is moved by words of four bytes whatever
  its format.
* **Images**, further: a format without alpha reads an alpha of 1 divided by the maximum in normalized formats (blending corrects
  it); a blit clamps to the extent of level 0; a signed normalized value below −1 is stored as the least number; the size of a level
  is a 32-bit product (`TexelsApart` is conditional on `Fits32`); blending does not clamp the outputs for UNORM, and components no
  output names are uninitialized.  A normalized vertex attribute with more channels than its variable has components is stored beyond
  the object (`lib/talvos/Object.cpp:295`): undefined behaviour, and left out.
* **Shaders**: structures with a matrix of an explicit layout are loaded, stored and copied as a whole with the bytes of a tight one;
  `OpCompositeConstruct` asserts when it makes a vector of smaller ones; `OpSMod` differs from its specification for operands of different signs; an index out of range
  of a vector is reported and then used; division by zero and wide shifts are undefined behaviour.  The programs avoid these.
* **Loading**: of two entry points that name one function the second replaces the first (`lib/talvos/Module.cpp:381`); an array
  with a specialized length has the default one (line 561); two constants with one `SpecId` fail an
  assertion (line 835).  A buffer that is bound in two places, one of them an array of descriptors,
  is incoherent, as the array is a copy.

The destruction of command buffers and pools, image and function types, and the TALVOS extensions of SPIR-V are left
out; so are graphics pipelines as objects: their state is part of the draws of `Draw`, the
bindings of `Recording` and the fragments of `Images`.
