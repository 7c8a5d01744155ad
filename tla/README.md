# Verification of Chaaya

Chaaya is an R7RS Scheme system in C: a reader, a macro expander, a compiler to
byte code, a register VM with first-class continuations, a generational
collector, and a concurrency layer of cooperative fibers, channels and OS
threads. This directory holds TLA+ models of that system, the TLC
configurations that check them on small instances, and proofs of the main
results for every instance. It starts from the concurrency layer, where an
error needs an order of steps that no test was written for, and goes on to the
machine, the heap, the compiler and the data the primitives work on.

Paths below are relative to the repository: `src/fiber.c` is the scheduler,
`include/chaaya/` the headers, `tests/` the tests.

## 1. Inventory

### The concurrency layer

**Fiber scheduler** (`src/fiber.c`). State: per fiber `state`, `snapshot`,
`park_kind`, `waiting_on`, `park_payload`; per VM the ready ring (256 entries),
`current`, and a reactor with timers. Operations: spawn, park, wake a waiter
list, dispatch the oldest ready fiber and run it to its next park or its end,
yield, join (also with a timeout), sleep. The main program is not a fiber: its
calls are C loops that dispatch one fiber after the other, look at the reactor
when nobody is ready, and give a verdict (`deadlock`, `no runnable fibers`,
`timed out`) when nothing can happen any more. Hard: a woken fiber may find
that somebody else took what it was woken for; the resume of a sender clears and
puts back three fields; the verdicts are drawn from the ring and the timers
alone. Correct when: nobody who waits is forgotten, nobody is woken twice,
nobody READY is outside the ring, and a verdict of deadlock is a deadlock.

**Local channels** (`src/channel.c`). State: a circular buffer, `closed`, two
waiter lists (64 entries each). Operations: send, receive, the timed variants,
close. `(make-channel 0)` is a rendezvous channel: it accepts a message only
when a receiver waits. Correct when: a channel is a closable FIFO queue, nothing
is lost or duplicated by parking, waking or timing out, and eof ends it.

**Shared channels** (`src/shared_channel.c`, the callers in `src/channel.c`).
A channel captured by a thread's thunk is promoted: its state moves behind a
mutex, messages are copied into envelopes, and threads of different VMs meet
on it. State: `items`, `closed`, `rv_demand`, two lists of registered
notifiers, two condition variables, `refcount`. `try_send` checks, unlocks to
copy the payload, locks and checks again. A thread without a current fiber waits
on a condition variable for at most a millisecond at a time; one with a current
fiber, or a timeout, registers its reactor's notifier, runs sibling fibers and
polls. Hard: every gap between two critical sections. Correct when: it is the
same closable FIFO queue, no ring is lost between registration and poll, a close
ends every call, and a rendezvous send has a receiver.

**Thread notifier** (`src/reactor.c` 110-281, 508-521). An eventfd (a kqueue
event elsewhere) with a reference count, shared by its reactor, by the call in
progress, by the channels it is registered with and by whoever is about to ring
it. Hard: the thread may end while others still hold it. Correct when: it is
freed once, by the last holder.

**OS threads** (`src/thread.c`). State: per thread object `os_state`, a join box
with the outcome, terminate flags, the child's VM. Operations: start, run to the
end, join with and without a timeout, terminate. A join that waits dispatches
other fibers inside its loop, so several joins of one thread nest on the C
stack. Correct when: the OS thread is joined and its VM freed once, after it has
exited; the outcome reaches the first caller; every join returns.

**Mutexes and condition variables** (`src/thread.c` 500-664). State: `locked`,
`owner`, `abandoned`, a generation per condition variable. Correct when: the
death of an owner is reported to the next locker, and no signal falls between
unlock and wait. Exclusion does not hold for a contended fiber (section 6).

**Reactor** (`src/reactor.c`). An indexed binary heap over 64 timer slots; 64
descriptors over one-shot registrations. Correct when: timers fire in order and
none is lost, and every descriptor waited for is armed.

### The machine

**Control** (`src/vm.c`, `src/prim_control.c`). State: frames, the C activations
of `ch_vm_apply` between them, the wind, handler and parameter stacks, full
continuations that copy all but the C activations. Hard: a native is on the C
stack while a continuation replaces the frames it was called from. Correct when:
code runs inside exactly the winds it has entered, with the handlers and the
parameters of its extent.

**Upvalues** (`src/vm.c` 536-585, 820-885). Open upvalues point into registers and
are closed when a frame is left; re-entering a continuation opens them again.
Correct when: a variable has one value for all who share it.

**Collector** (`src/gc.c`), **deep copy** (`src/gc_deep_copy.c`). Two generations,
write barrier, remembered set, ephemerons; a copy of a graph for another
thread's heap. Correct when: nothing reachable is freed, an ephemeron is broken
exactly when its key is unreachable, a copy is isomorphic to its source.

**Libraries** (`src/library.c`). Registry, stack of names being loaded, two
passes over every import set. Correct when: an import succeeds exactly when it
can, a failure leaves no trace, modifiers rename simultaneously.

**Compile cache** (`src/cache.c`, `src/cli.c`). Files shared by processes. Correct
when: what is loaded was compiled from the text that was read.

**Compiler** (`src/ir*.c`, `src/compiler*.c`) and the instructions of `vm.c`.
Correct when: compiled code computes what the source means.

### Data and primitives

Hash tables, lists, vectors, strings, exact numbers, the reader and the printer:
functions of their arguments, apart from the callbacks of hash tables. Hard:
circular lists, characters of several bytes, tables with deleted entries,
carries and signs at the ends of the limb and fixnum ranges, labels, tokens cut
by the end of a buffer. Correct when they agree with the plain definition.

### Not modelled

| Component | Why |
|---|---|
| Nested dispatch of fibers (`fiber.c` 470-660) | needs the VM's frames in every fiber; `entry_frames` is one pair per VM and is not restored after an inner dispatch (hazard list) |
| Promotion of a local channel (`shared_channel.c` 311-351) | needs both channel models in one state space |
| FFI callbacks (`ffi_callback.c`) | half of the protocol is foreign code; next candidate |
| Macro expander (`expander_*.c`) | next candidate, against a reference matcher |
| Ports, process, file system | thin layers over the operating system |
| Eval, CLI, REPL, language server, formatter, disassembler, back ends, profiling | sequential glue, text layout, code emission |
| Unicode tables, vendored code, Scheme libraries | generated data, third-party code, programs that run on the components above |

`PROJECT.json` lists each component with what is missing in it.

Interactions: a channel operation parks the current fiber with the scheduler and
wakes others through `wake_waiter_list`; a sleep goes through the reactor, whose
poll marks the fiber ready; Main's calls drive the scheduler; a shared channel
reaches another thread only through its notifier or a condition variable;
`thread-terminate!` changes a fiber's state from outside. Everything inside one
VM runs on one C thread, so control changes hands only where a fiber parks or
finishes. Threads interleave everywhere else, down to the critical section. Processes meet
in the files of the compile cache.

## 2. Modules

| Module | What it is |
|---|---|
| `ChannelSpec` | the abstract channel: offer, accept, refuse, receive, close |
| `FiberSched`, `MCFiberSched`, `FiberSchedProofs` | scheduler and local channels of one VM, its instances, its theorems |
| `SharedChannel`, `MCSharedChannel`, `SharedChannelProofs` | shared channels, the three ways to wait, notifiers; theorems |
| `ThreadJoin`, `FiberMutex`, `MCThreads`, `ThreadJoinProofs` | OS threads and their join boxes; mutex and condition variable; theorems about both |
| `VmControl`, `VmUpvalues`, `VmProofs` | frames, activations, winds, handlers, continuations; captured variables in registers and cells; theorems about both |
| `Reactor`, `ReactorProofs` | timer heap; descriptors and `fiber-wait-fd`; theorems |
| `Heap`, `HeapProofs`, `DeepCopy` | collector; theorems about it and about `HashTable`; copy between heaps |
| `LibraryLoad`, `Cache`, `LibraryProofs` | imports and import sets; the compile cache between processes; theorems about both |
| `Iteration` | a loop as a number of rounds of a step, with the lemmas the proofs need of it |
| `Compiler` | lowering, optimiser, code generator and machine |
| `HashTable`, `Lists`, `Vectors`, `Strings`, `Numbers` | data and its primitives |
| `ReadNumber`, `ReadWrite` | number literals; printer and reader |
| `MCMachine`, `MCNumbers` | the instances of the runs `Machine` and `Division` |

### FiberSched

Variables carry the names of the struct fields. `ready` is the ring as a
sequence, `queue` the circular buffer as a sequence, `waking` what is left of
the loop in `wake_waiter_list`: one `WakeOne` step per waiter, and nothing else
happens until the loop is over (`Settled`). `pc`, `call`, `ran`, `spins` and
`outcome` are the frame of Main's C call; `delivered` is a history variable.

A fiber's turn is a sequence of `FiberStep`s (`FiberSend`, `FiberRecv`,
`FiberSleep`, `FiberEnd`, and `Spawn`, `Close`, `Terminate`, which Main may do
too) until one parks it. `Run` starts it, `ResumeRecv`, `ResumeSend` and
`ResumePlain` are the branches of `run_fiber_to_park_or_done` for a fiber with a
snapshot, `Repark` the way back to waiting. `MainCall` starts one of Main's
calls; `MainSend` ... `MainTimeout` are the tests at the head of its loop,
`MainPoll` the poll that does not wait, `MainDispatch` one dispatch,
`MainBlock` the wait when nothing is ready, `MainReturned` the branch on what
the dispatch returned. Programs are arbitrary: whoever runs picks any operation
of `Ops`. A message is its sender and a number, so all differ.

Left out: `fiber-wait-fd` (in `Reactor`), `ch_fiber_drive`, nested dispatch,
allocation failures. Time is not counted: a timer may fire at any poll, a deadline may pass
at any test.

### SharedChannel

What a call does under the lock is one action; what it does between two critical
sections is a step of its own: `TrySend`, `CopyIn`, then `PushMessage` or
`PushTooLate`; `TryRecvEmpty` or `PopMessage`; `Ring`, one notifier at a time,
after the unlock; `ReleaseDemand`. `SendLock`, `RecvLockAgain`, `RecvCommit` and
`CondWaitEnds` are the blocking wait, `PollNow`, `TimedOut` and `PollWaits` the
driving one. `EndReactor` and `DropStub` end a thread (`child_vm_cleanup` tears
the reactor down before the heap); the last stub destroys the channel and
releases what is registered with it. A notifier is named by its thread: `alive`
and `refs` are its fields, `notified` says whether its eventfd is readable. A
broadcast on a condition variable has no step: the wait may end at any moment
anyway, by its millisecond or spuriously.

Left out: promotion, allocation failures other than a payload that cannot be
copied (`Uncopyable`), the timed wait of a VM without a fiber runtime (a nap
in place of the poll), and what sibling fibers do while a call drives
them: only that one ran, or failed. After destruction `queue` keeps the
envelopes that were freed: nobody can read it any more.

### ChannelSpec

Both detailed modules refine it (`ImplementsChannel`). An offer is a send in
progress: a parked fiber's payload, the argument of Main's pending send, or the
message of a thread's call before its push. An offer can be refused only
on a closed channel, or when its sender may give up (`Impatient`: Main, whose
calls time out or draw verdicts; driving threads; messages that cannot be
copied). A local rendezvous channel refines a queue of one message, a shared one
a queue of as many as there are threads.

### ThreadJoin and FiberMutex

`callers` and `mstack` are the C stack of one VM: a call that waits dispatches a
fiber, which may wait in turn, and only the last of them runs. In `ThreadJoin` a
child thread finishes, leaves its outcome in `box` and exits in its own steps;
`JoinDrive`, `JoinWait` and `JoinFinish` are the loop of `ch_thread_join`, `Reap`
its end. In `FiberMutex` a contended fiber parks and its resume takes the mutex
without looking (`thread.c` 585-591, `fiber.c` 592-594); that is modelled as it
is, and nothing that relies on exclusion is claimed. `died` and `signals` are
history variables.

### VmControl and VmUpvalues

User code is any sequence of `dynamic-wind`, `with-exception-handler`, `call/cc`,
raises, calls of captured continuations and returns, in tail position or not.
`acts` are the C activations; `Transition` is `ch_vm_wind_transition`, one thunk
a step. `inside` is a history variable: the winds whose before thunk has run and
whose after thunk has not. `torn` and `astray` mark behaviours in which a
continuation outlived the native it was captured under, or was taken for the end
of a wind thunk: there the code itself gives up its invariants (section 6). The
copy a continuation makes has one field the code lacks, `needs`: the C activations
its frames return to. `Fits` compares them with those there are when it is
entered, and decides `astray`; nothing else depends on it. In `VmUpvalues` a frame has one local and one
register for its callee; `cell` is what the variable should hold.

### Reactor, Heap, DeepCopy

`Schedule`, `Cancel` and `PollTimer` include the sifting of the heap. `WaitFd`,
`FdReady` and `PollFd` are `fiber-wait-fd` and its poll, one-shot; `crossed` marks
two waits on one descriptor, which the code does not keep apart. `Heap` has pairs
and ephemerons, the roots the mutator holds (`held`), and whole collections as
one step, since nothing runs meanwhile; `AllocRoots` is what an allocation
protects. The loops of a
collection that run until nothing changes are `Iterate` of module `Iteration`.
`exact` records whether the last collection broke the ephemerons it had to.
`DeepCopy` runs the recursion on every graph of three nodes, whose kinds stand
for the orders in which the code notes an object as visited: before its fields
(pair), after its function (closure), between its fields (parameter), after them
(record). A closure's variable is a box (`ChUpvalue`), which closures may share
and which is never noted. The property excludes two families of graphs by name:
`RecordsAcyclic` the cycles through what is noted late, where the code does not
end or copies twice, and `VariablesUnshared` the graphs in which closures share a
variable, where each closure's copy gets one of its own. Hash tables are left out.

### LibraryLoad and Cache

`LibraryLoad` has the C stack of `ch_ensure_library` and `process_import_set` as
`nest`, one step per library found, loaded or failed; a file's body succeeds,
raises or is missing, and files are edited between imports. `env` is the
environment of an import set, which each modifier rewrites as the code does;
`final` is a history variable, what each name should stand for. `Cache` has files as
sequences of blocks behind names, so that a reader keeps the file it has opened
when the name goes to another; a process may be killed or its last write may be
lost. `overlapped` marks two stores with the same `.tmp` file open.

### Compiler

Programs are all nestings of the forms in `Contexts` around a few leaves. The
whole way from an expression to code is one function, as in the code; the
machine then takes one instruction a step. `Eval` is the reference: a direct
evaluator with environments and cells. `KnownDivergence` names the programs for
which the code is known to differ (section 6).

### Data modules

`HashTable` is a state machine, since its callbacks change the table while a
primitive runs; `promise` is the map it should be. `Lists`, `Vectors`, `Strings`,
`Numbers`, `ReadNumber` and `ReadWrite` have one variable each, the arguments of a
call, and their property compares what the loops of the code compute with a
definition that says what is meant. A loop that does not end has the outcome
`Loops`, one that stores past the end of its C array `Overrun`. Fixed arrays and
limits of the code are constants, refusals and raising callbacks are outcomes, and
`Vectors` also counts the root slots a loop leaves behind. `Numbers` scales the limb to 3 bits and the fixnum to 2, so that operands
of one, two and three limbs are small numbers; decimal texts have radix 2 and
chunks of 2 digits for the same reason. `ReadWrite` prints every datum of up to
three cells and reads the text back, with the end of the buffer at every place.

## 3. Runs

| Run | Instance | What it shows |
|---|---|---|
| `FiberSched` | 2 fibers, Main, one-slot channel, 2 operations each, all kinds | all safety properties, deadlock verdict, refinement (1.1 million states) |
| `FiberSchedLive` | 3 fibers, rendezvous channel, 1 operation each | ready fibers run while Main joins; refinement for rendezvous |
| `SharedChannel` | 3 threads (blocking, fiber, blocking or timed), one slot, 4 calls, one message uncopyable; or two of them and a rendezvous channel | refinement, reference counts, rings, close ends calls |
| `Threads` | 2 threads, 2 fibers and Main, 5 calls; 2 fibers and Main, 7 calls on one mutex and condition variable; 3 threads on one shared rendezvous channel, 5 calls | join boxes and reaping, deaths reported, signals not lost; demand never exceeds the committed receivers nor goes below zero, refinement (400 000 states) |
| `Machine` | one instance for each of the other modules, told apart by `subject` | everything in the table below (1.3 million states) |
| `FiberRendezvous`, `FiberNotRunnable`, `FiberLostWakeup`, `FiberTerminate`, `SharedDemand`, `ThreadTerminate`, `Division` | see 6 | disagreements between code and documentation |

Properties of `FiberSched`:

- `PendingSendsCarryMessages`: whoever is in a send still has the message.
- `NoStrandedWaiter`: nobody is listed as waiting for what is already there.
- `EveryWaiterHasOneWaker`: each waiting fiber is in exactly one place that will
  wake it, and each READY fiber is in the ring exactly once.
- `EofIsFinal`: no message after eof.
- `DeadlockVerdictSound`: when join says deadlock, no fiber is ready or asleep,
  and no parked operation could complete.
- `ReadyFibersRun` (liveness).

Properties of `SharedChannel`:

- `RendezvousHasReceiver` (run `Threads`, as are the type invariant and the
  refinement once more, for rendezvous): queue length plus open demand never exceeds the
  receivers that have committed.
- `RefsExact`: a notifier's count is the number of its holders.
- `RungBeforePoll`: between registering and the first poll nothing that makes
  the call possible goes unrung. It says nothing of a rendezvous sender,
  which a committing receiver does not ring (it only broadcasts `send_cv`).
- `CloseEndsCalls` (liveness).

Properties of `Threads`: `ReapedOnceAfterExit`, `FirstJoinTakesOutcome`
(a thread's outcome goes to the first join that does not time out, and one that
was terminated before its start has none),
`JoinReturns` (liveness), `DeathIsReported` (a step may not lock past a death
unreported), `SignalEndsWait` (liveness).

Properties of `Machine`:

| Property | Says |
|---|---|
| `WindsInside` | code runs inside exactly the winds it has entered, with their parameters |
| `HandlersOfExtent` | the handler stack is the one of the dynamic extent |
| `OneValuePerVariable` | a captured variable has one value, and no closure points into a register given back |
| `HeapIsQueue` | the timer heap holds the active timers, in heap order, with exact positions |
| `WaitsAreArmed` | every descriptor waited for is armed once, and no other |
| `ReachedIsAllocated` | nothing the program can reach is freed |
| `EphemeronsExact` | a collection breaks exactly the ephemerons whose key nothing it keeps reaches, and leaves what it keeps unchanged |
| `CopyIsIsomorphic` | a copy has the shape, sharing and cycles of its source, or is refused when it must be; cycles through late-noted objects and variables shared by closures are excluded |
| `ImportVerdict` | an import succeeds exactly when its libraries can be had, and registers no others |
| `ImportSetRenames` | modifiers rename simultaneously |
| `HashTableIsMap` | a table is a map under every sequence of operations and callbacks |
| `HitIsOwnSource` | a cache hit is the compilation of the text that was read |
| `CompiledMeansSource` | compiled code computes what the source means |
| `ListsKeepPromises`, `VectorsKeepPromises`, `StringsAreTexts` | the primitives agree with their definitions, within the limits and arities of the code, and refuse beyond them where the code has a test; a property's guards name where it has none or errs (section 6) |
| `NumbersExact` | exact arithmetic is arithmetic, in one representation per number |
| `LiteralsDenote` | a literal is read as the number it stands for |
| `ReadsBack` | what is written reads back, with its sharing |

Every property of a passing run has a slip beside the code it checks (the
operators marked `Slip:`): a plausible error in one operation under which TLC
finds the property violated.

### Bounds

`FiberSched`: two fibers and Main are three actors on a channel, which is what
the hard cases need: one waits, one acts, a third takes the message in between.
Two operations each let a fiber park twice. `ReadyMax`, `WaiterMax` and
`TimerMax` are 3, at least the number of fibers, so the ring and the waiter lists
do not overflow (three fibers and Main can still need one timer more than there is);
`FiberLostWakeup` sets `ReadyMax` to 1 to see what happens when the ring does.
`SpinMax` is 1, so the give-up branches are reached. `MaxOps` bounds what a
program does and nothing in the code. Fibers are symmetric in the safety run and
not in the liveness run.

`SharedChannel`: a behaviour has one channel, buffered and held by all threads, or
rendezvous and held by two; `Captures` says which heaps have stubs at first.
Three threads are two on one side and one on the other, or a
thief between two. `MaxCalls` gives the calls of each thread; a thread ends, and
drops its stub, after its last. `WaiterMax` 3 is as many notifiers as there are,
so no registration is dropped (at 64 the code drops it, and the call falls
back on its bounded polls). `IdleMax` is 1 for 400. `CHECK_DEADLOCK` is off:
threads end, and then the system stops.

`Threads`: two callers of one join besides Main give nested joins; two threads let
the inner join wait for another than the outer. Seven calls are lock, wait,
signal, death and what follows. On the rendezvous channel three threads are two
committed receivers and a sender, or a sender and two that compete for its message.

`Machine`: control has one wind and two continuation variables, five operations
and five frames: enough to escape from a before or after thunk, to re-enter the
extent from outside, and to leave one thunk through the other continuation. With
one wind no transition runs two thunks of different winds, and once a continuation
captured in a thunk is taken for another's end (`astray`) the properties are
silent. Upvalues need three frames for two captured variables
below a third. Six timers make a heap of three levels, in which a removal may
have to sift up. Three objects make an ephemeron chain; `PromotionAge` 1 makes an
object old at its first collection. Three libraries make a cycle with a tail; only
their names tell them apart, so those with more imports come first.
Three keys in a table of two to eight slots collide and wrap around. Two
processes, three runs and one edit make a store meet an edit, a kill, a clear and
a reader. Programs are nested two deep, and every form of the compiler occurs in
every position. Lists have up to three pairs and any tail; strings and vectors
up to three elements with a second of up to two; the limits of the code (4096
elements, 64 arguments, 512 parts, 1000000 elements of a vector) are scaled to lie
within those sizes, so that both sides of each are reached. `Parts` holds
the numerators and denominators of rationals: products of two have two limbs, and
their reductions stay clear of the division error of section 6. Literals have up
to three characters before and two after the point. `CHECK_DEADLOCK` is off:
programs end.

### Fairness

`LiveSpec` has `WF_vars(Next)`: a VM runs on one C thread, which takes its next
step whenever it has one. No choice of the program and no firing of a timer is
fair by itself. `SharedChannel!Spec` has weak fairness of `Step(t)` for each
thread: the operating system runs every thread, every wait is bounded, and no
thread has to start a call or end. `ThreadsSpec` has weak fairness of the child
threads' last steps (the operating system runs them, and a thread in these
programs ends), of the loop of a join or wait (it polls, and never blocks without
a bound), and of a dispatched fiber's leaving: a fiber that computes for ever is
left out, as it would stop the VM by design. Starting a call is never fair.

## 4. Proofs

The theorems hold for every number of fibers, threads, channels, objects,
libraries and so on, and for every limit, unless an assumption is named.

| Theorem | Statement | Assumes |
|---|---|---|
| *FiberSchedProofs* | | |
| `TypeCorrect` | `Spec => []TypeOK` | |
| `PendingSendsKeepTheirMessage` | `Spec => []PendingSendsCarryMessages` | |
| `WaitersAreNotStranded` | `Spec => []NoStrandedWaiter` | |
| `EofEndsTheStream` | `Spec => []EofIsFinal` | |
| `FibersInPlace` | `Spec => []PlaceInv` | `EnoughRoom` |
| `OneWakerEach` | `Spec => []EveryWaiterHasOneWaker` | `EnoughRoom` |
| `DeadlockIsReal` | `Spec => DeadlockVerdictSound` | `EnoughRoom`, `Rendezvous = {}` |
| `LocalChannelImplemented` | `Spec => ImplementsChannel` | |
| *SharedChannelProofs* | | |
| `CallsInPlace` | `Spec => []CallInv` | |
| `SharedTypesKept` | `Spec => []TypeOK` | |
| `RefsCounted` | `Spec => []RefsExact` | |
| `RendezvousSound` | `Spec => []RendezvousHasReceiver` | |
| `WakeupsArrive` | `Spec => []RungBeforePoll` | `Cardinality(Threads) <= WaiterMax` |
| `ChannelImplemented` | `Spec => ImplementsChannel` | |
| *ThreadJoinProofs* | | |
| `ThreadsReapedOnce` | `JoinSpec => []ReapedOnceAfterExit` | |
| `OutcomeTakenOnce` | `JoinSpec => []FirstJoinTakesOutcome` | |
| `DeathsAreReported` | `MutexSpec => DeathIsReported` | |
| *LibraryProofs* | | |
| `HitsAreSound` | `CacheSpec => []HitIsOwnSource` | |
| `ImportsAreDecided` | `LibSpec => []ImportVerdict` | `MaxNest >= Cardinality(Libs)` |
| `ImportSetsRename` | `SetSpec => []ImportSetRenames` | |
| *VmProofs* | | |
| `ControlInvariant` | `VmSpec => []ControlInv` | |
| `WindsMatch` | `VmSpec => []WindsInside` | |
| `HandlersMatch` | `VmSpec => []HandlersOfExtent` | |
| `CapturedVariablesAgree` | `UvSpec => []OneValuePerVariable` | |
| *HeapProofs* | | |
| `HeapInvariant` | `HeapSpec => []HeapInv` | |
| `NoUseAfterFree` | `HeapSpec => []ReachedIsAllocated` | |
| `EphemeronsBreakExactly` | `HeapSpec => []EphemeronsExact` | |
| `HashTablesAreMaps` | `HtSpec => []HashTableIsMap` | |
| *ReactorProofs* | | |
| `TimersAreQueue` | `ReactorSpec => []HeapIsQueue` | |
| `FirstTimerIsNext` | `ReactorSpec => []FirstIsNext` | |
| `WaitsHaveEntries` | `ReactorSpec => []WaitsAreArmed` | |

### Assumptions

Every module's `...Assumption` says only what its constants are (sets are
finite, limits are numbers, Main is not a fiber). Beyond that:

- `EnoughRoom`: the ready ring and the waiter lists have room for every fiber. The
  code has 256 and 64 entries and drops what does not fit; `FiberLostWakeup` is
  the run in which that happens, so the theorems that need it say so. The
  assumption is satisfiable and is the one a program has to keep.
- `Rendezvous = {}`: with a rendezvous channel the verdict is wrong
  (`FiberRendezvous`).
- `Cardinality(Threads) <= WaiterMax`: a registration that does not fit is dropped,
  and the call falls back on polls of at most a millisecond.
- `MaxNest >= Cardinality(Libs)`: the loading stack has room for every name (32 in
  the code); a deeper chain is refused though it could be had.

Five properties are stated of behaviours in which a history variable is still
false: `HitIsOwnSource` (`overlapped`: two stores had one temporary file open),
`OneValuePerVariable` (`uvStray`: a re-entry reopened upvalues in the wrong order
or without their copy), `WaitsAreArmed` (`crossed`: two waits met on a descriptor),
and `WindsInside` and `HandlersOfExtent` (`astray`: a continuation outlived the
native it was captured under, was taken for the end of a wind thunk, or
`ch_vm_raise` got its value though it was not its own). What the code does after that is in section 6. The
history variables are part of the model and their values are what the steps make
of them, so nothing is assumed; the property is silent there.

### Arguments

*Scheduler: types.* `TypeOK` is not inductive: a woken sender that finds room puts
its `payload` into the queue, which is a message only if the field was put back
after every vain wake-up. `TypeInv` is `TypeOK` together with
`PendingSendsCarryMessages`. There is one lemma per action.

*Scheduler: channels.* What any step can do to one channel is said once
(`ChannelStep`: leave it alone, push, pop, take eof, list a waiter under its guard,
close, ...), and `Channelwise` shows that every step of the system is one of these
on every channel. `NoStrandedWaiter` then is inductive with `TypeInv`: a push
needs that the receivers' list is emptied, a pop the senders'. `EofIsFinal` needs
`EofInv`: once eof was received the channel is closed and empty, and stays so.

*Scheduler: places.* `PlaceInv` gives each fiber the one place its status asks for
(ring, waker's list, timers, a channel's list) and says that no list has anyone
twice. A step either leaves a fiber listed as before or moves it from a channel's
list to `waking` (`Wakes`), and the fiber that runs is the only one whose status
changes otherwise. The ring is never full because it has no fiber twice.
`DeadlockVerdictSound` is an action property: the verdict is drawn with an empty
ring, so whoever is not done waits in a list, and `NoStrandedWaiter` says that
what it waits for is not there.

*Scheduler: refinement.* An offer is a parked sender's payload, so the mapping
needs that payloads in flight are their owner's own and were not used before
(`FlowInv`). Each action is a step of `ChannelSpec` or leaves its variables
alone.

*Shared channels.* `CallInv` locates every thread: the program counter says which
call is made, in which mode and on which channel; it has the types, says that a
thread in a call still holds its stub, that a message in flight is its sender's
and has the number of the call under way, and that a thread's demand is open only
where its pc says so. Mutexes do not occur: a critical section is one action. `RendezvousInv`
counts, per rendezvous channel, the committed receivers against the queue and the
open demand. `RungInv` is about the window between registration and poll: a
listening thread is registered, or has been rung, or someone is on the way to ring
it. `UsedInv` (a message in flight has not been used before) carries the
refinement. `RefsExact` is inductive with `CallInv` and with the lists having each
notifier once per registration: the count changes by exactly what the set of
holders changes by, and that set is a union of four parts counted apart.

*Joins and mutexes.* `ReapInv`: handle and heap leave a join box together, after
the exit, and every frame on the nested C stack that waits is in a join of a thread
that was started. `TakeInv` adds what the box held before the first taker.
`DeathShows`: a mutex locked in a dead fiber's name is marked, or the death has
been reported since.

*Cache.* `Clean`: while no two stores overlapped, each file holds the beginning of
what one text compiles to, a file behind the cache's name holds the whole, and a
process that stores is the only one with its file open. What others do to a file
somebody reads only extends it (`Grows`).

*Libraries.* `Loadable` is a least fixed point, computed by as many rounds as there
are libraries; `LibInv` says that the frames of the stack are the chain of
imports that led here, that what is registered is loadable, and that a refusal
already given has its reason below. The room on the stack is counted by
the names on it, which differ. `SetInv` says of an import set that each name bound
so far stands for what the modifiers applied so far, one by one, make of it.

*Upvalues.* `UvInv`: the open list is sorted by register and has each register
once, every open upvalue points into the frame of its own variable, and a closed
one holds the variable's value. A continuation's copy has the same of the frames
it copied.

*Winds and handlers.* What user code may rely on is not in the current stacks alone:
every frame and every C activation below will go on one day, each with the winds
and handlers of its own call. `Coherent` says that such contexts exist: one for each
frame (`FrameLink`: user code returns with the winds it was called with,
`dynamic-wind` with one fewer) and one for each activation (`ActLink`:
`with-exception-handler` returns with one handler fewer, call/cc with the same, as
does a raise whose handler may return; any other raise goes on only where the
number of handlers differs from the one it noted, which is how the code tells),
given that the levels at which the activations stand rise. `Machine` then says where the machine is:
in user code, between the calls of `dynamic-wind`, in a thunk called by
`dynamic-wind`, by `ch_vm_raise` or by a transition, at the end of an activation, or
in an escape that leaves the innermost of them. An escape knows which activations
are still good (`EscapeState`), and that is why the copies of a continuation need
the same property of themselves (`GoodCont`): with `Fits`, the activations it needs
are the first of those there are, those above them at its own level pass
its value on, and the rest are left (`Division`, `RestoreStep`). A transition is on
its way between two wind stacks with a common prefix (`Underway`, `Entering`).
There is one lemma per action.

*Collector.* `HeapInv`: remembered objects are old, and some set of allocated
objects that no field leads out of has all that is held and all that is
remembered. "No object refers to a freed one" would be false: a major collection
forgets which old objects refer to young ones, and the next minor one frees what
only dead old objects refer to. The trace and the ephemeron loop are closures
(`Iteration!LoopEnds`: a loop that lowers a number or changes nothing has come to
rest); what a collection keeps is the least set closed under them.

*Hash tables.* `Represents(t, m)` relates a table to the map it was promised to
be: each key has one slot, every slot in its probe order before that one has been
used (`Met`), the count is the number of slots in use, and the entries are the
map's. A deletion keeps `Met` because it leaves a tombstone; an insertion keeps it
because the vacant slot it takes is the first of the probe order, and a table that
has none doubles. A probe visits every slot, so a search that
ends without its key has shown that the key has none. Rehashing, copying, merging
and reading an alist are loops over the entries, with `Over(mm, m, l, n)`, the map
`m` with the first `n` entries of `l` stored in it, as their invariant.

*Reactor.* `TimerInv`: `heap_pos` is the inverse of the heap, and every slot is not
before its parent. During sifting one place is out of order, and `SiftUp` and
`SiftDown` each have the invariant that says which. `FdInv` pairs descriptors and
entries while nothing has crossed.

*Iteration.* tlapm cannot expand a recursive function at an unknown argument, so
`Iterations` and `FixedPoint` state what a loop of n rounds computes (from the
existence of its path), `LoopExists` the same of a loop over 1..n, and the modules
above cite them.

## 5. What is only model-checked

- `ReadyFibersRun`, `CloseEndsCalls`, `JoinReturns` and `SignalEndsWait`: liveness
  under fairness is out of the prover's reach, as is `ENABLED`.
- `CopyIsIsomorphic`, `CompiledMeansSource`, `NumbersExact`, `LiteralsDenote`,
  `ReadsBack`: the definitions are `RECURSIVE` operators, for which the prover has
  no backend, and what they compute for every input needs induction over data.
  The same induction is needed for `ListsKeepPromises`, `VectorsKeepPromises` and
  `StringsAreTexts`.
- The seven disagreements of section 6 are single counterexamples.

## 6. Disagreements found

Each is a run that TLC finds violated; `PROJECT.json` quotes both sides.

1. `FiberRendezvous`: a sender that parks first on a rendezvous channel is not
   woken by a receiver that comes later. Both wait, join says deadlock. The
   tests say that whichever side arrives first waits for the other.
2. `FiberNotRunnable`: a dispatch that parked its fiber returns 0 like an empty
   ring, and a send or receive of Main takes it for "no runnable fibers"
   although a peer is ready or asleep.
3. `FiberLostWakeup`: a wake-up that meets a full ready ring marks the fiber
   READY and does not queue it; it never runs.
4. `FiberTerminate`: a woken fiber that is terminated before it runs stays in
   the ring and runs again.
5. `SharedDemand`: `rv_demand` is taken back twice for one hand-over, or used up
   by a message that a third thread takes. A committed receiver then waits
   and no send can go through. Two threads receiving on one
   shared rendezvous channel and two sends show it: the second send blocks.
6. `Division`: long division corrects a digit at most 256 times, and its guess
   comes from the two top limbs of each side, wherever they stand. When the
   remainder has a limb more than the shifted divisor, the guess is about 2^64
   times too small, the loop stops early and quotient and remainder are wrong.
   The built program answers the quotient of 2^200 (written out) and
   18446744073709551617123 with 4722366482869645213952, which is
   256 * 2^64 + 256.
7. `ThreadTerminate`: `thread-terminate!` of a thread that was never started sets
   it FAILED without making a join box. A join then answers "missing join
   state", where the comments at `thread.c` 432-434 and `thread.h` 20-21
   let it raise the termination (or time out).

Others were met while modelling. Most contradict no line of the repository that
could be quoted; for all of them the models have the behaviour of the code, and
the properties are stated around them, with the guard that says where.

| Where | What |
|---|---|
| `thread.c` 585, `fiber.c` 592 | a contended fiber owns the mutex after its park, whoever else owns it |
| `thread.c` 299 | a second `thread-join!` returns no value |
| `fiber.c` 484, 650 | `entry_frames` is not restored after a nested dispatch |
| `fiber.c`, `reactor.c` 369 | two waits on one descriptor share one one-shot registration (`crossed`) |
| `vm.c` 866-882 | re-entry reopens upvalues in reverse order, and variables captured after the snapshot revert (`uvStray`) |
| `vm.c` 1504, 712-740 | a continuation captured in a wind thunk and invoked in a later one leaves as many frames as the thunk's caller has; `ch_vm_apply` takes it for the thunk's normal end, the transition it should abandon goes on and an older continuation overrides it, against the comment at `vm.c` 821 (`astray`) |
| `prim_control.c` 131-136 | a nested `guard` loses the outer handler; a re-entered `with-exception-handler` leaks its own (`astray`) |
| `gc_deep_copy.c` | cycles through records, parameters and error objects are copied twice or without end (`RecordsAcyclic`) |
| `gc_deep_copy.c` 266-281 | closures that share a variable get one each in the copy, so an assignment by one is not seen by the other (`VariablesUnshared`) |
| `library.c` 1083-1094 | a body that fails is evaluated twice per import and level |
| `cache.c` 437 | overlapping stores of two texts can leave an entry that mixes them (`overlapped`) |
| `compiler_control.c`, `compiler_bind.c` | `cond` binds an unhygienic `t`; a definition in `let*` shares the body's register; a primitive redefined in a lambda is folded all the same (`KnownDivergence`) |
| `prim_srfi1.c` 324-331 | `take` stores into its array of 4096 without a test, so a larger count writes past it (`TakeOverruns`) |
| `prim_srfi1.c` | `proper-list?` is wrong for even lengths (`HareFallsOff`); `unfold` stops at 4096 elements without an error; `fold` copies its lists into an array of 64 without a test |
| `prim_srfi133.c` | `vector-skip-right` is `vector-index-right` (`SkipsTheWrongWay`); `vector-unfold` and `vector-unfold-right` leave entries on the root stack that are addresses of dead locals, where a later collection reads them (`RootsLeft`) |
| `prim_vector.c` 136, 227 | the native `vector-map` takes at most 64 vectors, the Scheme one results of at most 1000000 elements; elsewhere they agree (`MapsAgree`) |
| `hashtable.c` | tables with `equal?` hash compound keys by identity |
| `bignum.c` 114 | `view_of` returns a pointer to a local (`nums.slot`) |
| `printer.c` 237, `reader_number.c` 388 | symbols such as `-n` or `inf` are written bare and read as something else (`TakenForNumber`), though `tests/scheme/kaappi-deferred/compliance/printer-gaps.scm` 141-142 says of `symbolNeedsBars` that it must bar anything that would otherwise read back as something else |
| `reader.c` 660, 1192 | a number across the end of a buffer is split; patching keeps no visited set |

## 7. Plan

Done: the concurrency layer, the machine, the heap, libraries, cache, compiler,
data, reader and printer; the theorems of section 4. Left to model, in this order: FFI
callback slots; `syntax-rules`; nested dispatch with frames; promotion; the
circular buffer of channels.
