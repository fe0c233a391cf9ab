# A verification of cixl

cixl is an interpreter in C for a stack language: a parser, a compiler to byte code, a virtual
machine, a C back end, and libraries with coroutines, tasks and polling. The modules in this
directory model its core as TLA+ specifications. TLC checks them on small instances, and TLAPS
checks the proofs of the theorems, which hold for any size.

All paths below are relative to `src/cixl/` unless they begin with `README.md`, `devlog/` or `tests/`.

## The system

| Component | State | Operations | Works with |
|---|---|---|---|
| Tasks and schedulers (`sched.c`, `task.c`) | three lists of tasks, counters `ntasks` and `nruns`, semaphores `run` and `done`, a thread for each task | push, run, resched | contexts, the interpreter |
| Coroutines (`coro.c`) | state, semaphore `on_call`, a thread | call, suspend, reset, cancel, last dereference | contexts, `cx->coro` |
| Contexts (`cont.c`, `task.c`) | what was current before (`prev_*`), heights of the stacks, saved libraries, scopes and calls | reset, suspend, resume, finish, clear | the stacks of the interpreter |
| Polling (`poll.c`) | sorted vectors of `pollfd`s and of callbacks | on-read, on-write, no-read, no-write, delete, wait | callbacks, which are any code |
| Virtual machine (`bin.c`, `op.c`, `cx.c`, `call.c`) | byte code, `cx->bin` and `cx->pc`, stacks of libraries, scopes and calls, errors | eval in normal and in error mode, begin/end, call/return/recall, throw/catch | everything |
| Compiler to C (`emit.c`, `op.c`) | none at run time | emit | mirrors the virtual machine |
| Functions and dispatch (`func.c`, `fimp.c`, `arg.c`, `lambda.c`) | implementations of each function, one cached by each call site | match, score, call, inline | types, scopes |
| Types (`type.c`, `type_set.c`) | parents, children, levels, generic instances | derive, instantiate, supertype, is | dispatch |
| Libraries (`lib.c`, `link.c`) | lazily initialised tables of definitions | init, use, link | dispatch, types |
| Scopes, references, values (`scope.c`, `env.c`, `ref.c`, `box.c`) | reference counts, variables, a stack for each scope | begin, end, copy, deinit | everything |
| Memory (`malloc.c`) | slabs and a free list | malloc, free | lambdas, scopes, files ... |
| Containers and iterators (`vec.c`, `set.c`, `table.c`, `stack.c`, `rec.c`, `iter.c`) | growing arrays, sorted sets | insert, delete, iterate | everything |
| Files, buffers, network, processes (`file.c`, `buf.c`, `net.c`, `proc.c`) | descriptors, positions, children | read, write, close, fork, wait | polling |
| Parser, REPL (`parse.c`, `tok.c`, `repl.c`) | tokens, lines, history | parse, edit | the compiler |
| Errors (`error.c`) | a vector of errors, each with copies of calls | throw, catch, dump | the virtual machine |

What is hard in it:

- **Concurrency.** Coroutines and tasks are POSIX threads, but the interpreter has one set of
  stacks and no lock around it. That only one thread evaluates at a time rests on a protocol of
  semaphores, atomics and spinning, for tasks a different one than for coroutines.
- **Switching contexts.** Who leaves has to take away exactly what it has pushed, from stacks
  that others have pushed on below it, and put it back on top of whatever is there when it resumes.
- **Callbacks** in a loop over vectors that the callbacks change.
- **Errors.** They do not unwind: evaluation goes on over the byte code in another mode, and
  each operation has to undo what is due.
- **Reference counts** of values that refer to scopes that hold values.
- **Boundaries**: `CX_MAX_CALLS`, slab sizes, vector growth.

What makes the components correct, as far as it is modelled:

- tasks, coroutines: at most one thread evaluates and the turn is not lost; `run` returns when, and
  not before, all tasks are joined; threads are created and joined in pairs;
- contexts: the stacks hold what the waiting controls and the one that evaluates have pushed, in
  order, and nothing else;
- polling: each event that `poll` reports is answered by one call of the right callback;
- virtual machine, compiler to C: a program prints what its text means, closes what it has opened
  whatever fails in it, but for the returns and recalls that give up, and does the same when it has
  been compiled to C;
- types, dispatch: the matrix of derivations is their closure, the most specific implementation is
  called, and a compiled program starts with the same types;
- values and containers: each reference is counted, each block goes back to where it came from, and
  errors stop what is at work, also when an action changes the container it is called from;
- files, buffers, processes: each descriptor is closed by exactly one owner, whatever fails while
  it is made or handed on, and the bytes that come into a buffer leave it in order, none of them lost;
  what a short read leaves in between is none of those that are still to be written.

## Modules

| Module | What it is |
|---|---|
| `Baton` | what the documentation promises of tasks: one baton that its owner hands out and gets back |
| `Sched` | `sched.c`, `task.c` and `lib/task.c`, thread by thread; implements `Baton` |
| `SchedProofs` | theorems about `Sched`: batons, exclusion, what `run` joins, and that it implements `Baton` |
| `Handoff` | what the documentation promises of coroutines: one turn, given back to whoever resumed |
| `Coro` | `coro.c` with the handling of `cx->coro`, thread by thread; implements `Handoff` |
| `CoroProofs` | theorems about `Coro` and `Handoff`, for disciplined programs |
| `TurnProofs` | a theorem about `Coro`, for all programs |
| `Cont` | `cont.c` and what `task.c` does in its place, with the stacks of the interpreter |
| `MCCont` | assignments of tasks to schedulers for TLC |
| `ContProofs` | theorems about `Cont` |
| `Poll` | `poll.c` and `lib/poll.c` |
| `PollProofs` | theorems about `Poll` |
| `Compile` | `tok.c`, `bin.c`, `fimp.c` and the macros of the libraries: from tokens to byte code |
| `Emit` | `cx_emit` and the emit functions of `op.c`: where the C text of an operation goes, what it names |
| `Natives` | what the libraries register and `Eval` can call |
| `Bmips` | the compiled program in `repl.c`, operation by operation, next to what the model makes of it |
| `Eval` | the virtual machine: the loop, the operations, calls, scopes, errors, natives that call back |
| `Meaning` | what programs mean, from their tokens alone; the properties of `Eval` |
| `MCEval` | programs for `Eval` |
| `Derivation` | what `derive()` puts into the matrix of a type graph, and what is read off it: supertypes, distances, the best implementation |
| `DerivationProofs` | theorems about `Derivation` |
| `Types` | instances, conversions, scoring, and the definitions of types that a compiled program repeats |
| `MCTypes` | definitions for `Types` |
| `Values` | values and their types, addresses, and a new object in a world |
| `Descriptors` | files and processes as owners of descriptors: open and close, pipes, fork in the parent and in the child |
| `DescriptorProofs` | a theorem about `Descriptors` |
| `Heap` | counted objects, vectors and slabs, as operators on a world |
| `Data` | the functions on stacks, references, pairs, tables and records, with actions they call back |
| `Buffers` | the bytes of a buffer: `buf.c` and `lib/buf.c` over `open_memstream` |
| `BufferProofs` | theorems about `Buffers` |
| `Streams` | the functions on files, sockets, buffers and processes, as words of a program; what a buffer keeps |
| `Iters` | iterators and the functions that consume sequences; the program as a whole, the properties |
| `MCData` | vocabularies and worlds for `Iters` |

`Sched` and `Coro` show that one thread evaluates at a time. `Cont` builds on that: switching is
one step there, and coroutines and tasks may nest in any way. `PROJECT.json` names for each
definition the lines it stands for. A definition marked as a mutant is the code with a plausible
mistake; with it in the place of the right one TLC finds the property violated that is said there.

### Sched

Thread 0 owns the scheduler, threads 1 to `NTasks` are the tasks. `pc` says where each thread
is; the steps between two accesses to shared state are one action.

| Code | Actions |
|---|---|
| `cx_sched_push` | `PushRead` (reads `ntasks`), `PushLink` (creates the thread), `PushGrow` (spins until `ntasks` differs) |
| `cx_sched_run` | `RunPost`, `RunLoop`, `RunWaitDone`, `RunRecheck`, `RunReap`, `RunJoin`, `RunSweep`, `RunSweepJoin`, `RunTakeBack` |
| `on_start` | `StartCount`, `StartMove`, `StartRunNext`, `StartWait`, `StartEnter`, `StartLeave`, `StartDone`, `StartUncount`, `StartSignal` |
| `run_next` | `RunNextLoad`, `RunNextPost`, `RunNextSpin`, `RunNextTake` |
| `cx_task_resched` | `Resched`, `ReschedRunNext`, `ReschedAlone`, `ReschedResume` |

A semaphore is a number, and which waiter it wakes is open, as POSIX leaves it. `q_lock` is
modelled by the guard `QLocked`. A list operation is one step. Casting the head of an empty list
to a task is the state `ub`.

A task that starts while it is not at the head of the new tasks posts a baton it does not have
and takes one back later. So "at most one" does not hold of all programs: `Cooperative` needs that
each task reaches its semaphore before the next one is pushed (`Paced`), and what always holds is
`CooperativeOnceStarted`.

### Coro

Each coroutine has a thread. `pc` tells whether it evaluates, spins for a coroutine it called,
has saved its context (`saved`), waits on `on_call`, has finished, joins another thread, or is
dead. `Call*`, `Suspend*`, `Finish*` follow `cx_coro_call`, `cx_coro_suspend` and `on_start`,
split where another thread can look at `state` or at the semaphore; `Reset`, `Cancel` and `Drop`
follow the functions of that name and the last `cx_coro_deref`, with `Join` and `Joined` for
their `pthread_cancel` and `pthread_join`. `MaxThreads` lets `pthread_create` fail. `Disciplined`
programs do not reset, cancel or drop a coroutine that is being called or is cancelled already.

### Cont

An entry of a stack is represented by the control that pushed it: the main program, a coroutine
or a task. `chain` lists who waits for whom, innermost last, and `own` counts what each has
pushed; both are history, and no action of the code depends on them other than to say who
evaluates. `Remember`, `Restore`, `Save` and `Finish` follow `cx_cont_reset`, `cx_cont_resume`,
`cx_cont_suspend` and `cx_cont_finish`, and `before_run`, `before_resume`, `cx_task_resched` and
`on_start` of tasks, which do the same. `Save` finds `cx->coro` or `cx->task`, whoever that is:
with `Across` code may suspend a coroutine from inside of a task, or reschedule a task from inside
of a coroutine. `FrameSets` are the ways in which evaluation pushes: a block, a call of a C
function, a call of a cixl function.

### Poll

The two vectors of a poll always change together and are one sequence of entries. A new entry
keeps the bytes that were in its place (`OldBytes`), as `cx_vec_insert` leaves them. `frames` is
the C stack of nested calls of `cx_poll_wait`, with `rem` and the callback that runs. `due` is
history: what `poll(2)` has reported and no call has answered. With `tame`, callbacks do not add
files, withdraw events of files that are pending, or wait themselves; deleting any file, and
registering and withdrawing otherwise, is allowed. Both kinds of programs are initial states of
the same specification.

### Compile, Eval and Emit

Tokens are trees, as the parser leaves them. The operators of `Compile` append to a bin, a sequence of
operations that starts with operation 0; blocks are compiled in place behind an operation that
holds their length. `cx` is `struct cx` with the heap of scopes behind it. A function in C that
takes `cx` and returns is an operator from one value of `cx` to the next; one that evaluates code
and comes back, `cx_eval` and each native that calls an action, leaves a frame on `cx.frames`, the
stack of C. So a step is one operation of one `eval` loop or one return to a native.

| Code | Definitions |
|---|---|
| `cx_eval`, `eval` of `bin.c` | `StartEval`, `Operation`, `FinishEval`: `cx->pc` is moved before an operation runs, and pending errors select its error function |
| the operations of `op.c` | `OpBegin`, `OpBeginFailed` and so on: the normal and the error function of each |
| `cx_fimp_call`, `cx_call`, `lambda.c` | `FimpCall`, `CallBox`, `LambdaCall`, `CixlCall`, `Return`, `Again`: what pushes a scope, a library and a call, who borrows whose stack, recalls. `cx.left` has no counterpart in the code: it counts the returns and recalls that have given up (`GiveUp`) |
| `func.c`, `fimp.c` | `FuncMatch`, `Matches`, `Score`, and the call site of `OpFuncall` |
| `cx_error`, `cx_catch` | `Throw`, `OpCatch`, `OpCatchFailed`, `CatchAll` |
| natives that call back | `Native`: a frame with the phase it goes on in |
| `cx_repl` | `ReadLine`, `ShowLine` |

`emitted` says whether a program is interpreted or has been compiled to C. The compiled program
runs the same operations but goes where `Emit` says that its gotos lead, resolves names when it is
compiled, and fails if the text names what it does not declare. `Bmips` compares both with a text
that exists: the benchmark that `repl.c` carries.

`Meaning` has no byte code and no program counter: it is a recursive evaluation of the tokens with
errors pending. It differs from `Eval` in all that is hard there (skips, stacks of calls and
libraries, call sites that keep an implementation, borrowed stacks) and shares what is data:
scopes, values, the matching of arguments.

### Types

A type is its index; `world.types` has parents, children, levels, members and fields, and
`world.names` what the libraries list. The steps of `derive()` are operators of `Derivation`
(`Related`, `Learned`, `Above`, `Under`), and so are the choices made by what it leaves (`Supertype`,
`Distance`, `Best`); `Types` has the recursion over them. `Derive`, `Vget` with `Instantiate`, `TypeIdForm`,
`TypeForm` and `RecForm` follow `cx_derive`, `cx_type_vget` and the three forms, with the errors
that stop them half way: at the prompt a refused form does not end the program, so that the
definitions after it meet what it left. `EmitRec`, `EmitTypeId` and `EmitType` are the text that
`typedef_emit_init` prints, and `Compiled` the world of an executable that starts with it. `Match`
is `cx_func_match` with `cx_fimp_score`.

### Heap, Data and Iters

A program is any sequence of a vocabulary of functions, chosen step by step, with a variable `s`
that holds a container and `t`. A function that calls an action leaves a frame with the arguments
it owns; the action is again any sequence of functions of the vocabulary, which may change `s`,
fail, or return at any point, and may call further ones. `sig` is what happens next: the program
goes on, an iterator is asked, or a frame receives what it asked for. Objects have counts, vectors
have a capacity and slots that keep what was popped until it is overwritten, and the blocks of
the smallest size come from slabs. Where the code forgets a reference (the last `deref` of a
reference, `clear`, `into` that refuses an item ...) the model notes it in `lost`, so that nothing
else can get lost unseen. Using a slot that is no longer an item sets `stale`, and ends what is
claimed about that program.

### Descriptors and Streams

The functions on files, sockets, buffers and processes are further words of the same programs.
`world.fds` is the set of descriptors that the system has open; it gives out the lowest one and may
refuse. A file knows its number and whether it has a `FILE *` (`ptr`); a process its three numbers, and
the files that `in`, `out` and `error` made of them. `Owners` are those that will close a number when
they go: the file, or the process if it has made no file of it. What opens and closes is in
`Descriptors`; `Streams` adds the arguments, results and errors of the functions.

| Code | Definitions |
|---|---|
| `fopen`, `listen`, `connect`, `accept` | `Open`, `Accept`: a file, nil or an error; `Opened` |
| `cx_file_close`, `cx_file_deref`, `cx_file_ptr` | `CloseFile` and `Closed`, `FileFree`, `WithPtr` |
| the iterators of characters, of `lines` and of `reverse` | `CharNext`, `LineNext`, `ReverseNext` |
| `struct cx_buf` on `open_memstream` | `Buffers`: `BufObj` with `Memory`, `Flushed`, `Cleared`; `Printed`, `Filled` and `Drained` are what `PrintTo`, `ReadBytes` and `WriteBytes` do to it, with any part done |
| `cx_proc_fork` | `Fork`: `Piped`, the pipes one after the other, then `InParent`, `InChild` (with `Redirect`), or neither goes on (`NotPiped`, `NotForked`) |
| `in`, `out`, `error`, `wait`, `kill` | `EndOf` and `EndKept`, `WaitFor`, `Kill`; `ProcFree` |

The bytes of a buffer are numbered as they come in, so that `BytesKept` can tell that they go out in
that order. `read-bytes` moves the position over the room it asks for before it reads, and what it does not
fill keeps what memory had there, a byte written long ago or a `Gap`; `room` remembers where that is, as
history. A write sends it all the same: `BytesKept` says that it is nothing that is still to be written.
A buffer that is written by the length of an older flush is `stale`. A `pipe` that fails after a file was given closes numbers that were never
set: that is the mark `wild`. A child in which `dup2` fails goes on with the far ends open: they are
`leaked`.

## Runs

| Run | Instance | Shows |
|---|---|---|
| `sched_any` | 3 tasks, pushed in any way, 1 run, 1 resched each, fair | the baton is conserved, evaluation is exclusive once no task is starting, the join under `q_lock` cannot block, a push returns unless a task ends meanwhile |
| `sched_paced` | 3 tasks pushed one by one, fair | evaluation is exclusive, `run` joins all tasks and returns, rescheds return, `Baton` is implemented |
| `sched_early_baton` | 2 tasks | **violated:** two pushes in quick succession let a task evaluate beside its owner |
| `coro_handoff` | 3 coroutines, 3 calls, fair | threads and posts are accounted for, calls and joins return, `Handoff` is implemented |
| `coro_any` | 2 coroutines, 4 calls, undisciplined, 1 thread | two threads never evaluate at once, even so |
| `cont_mixed` | 1 coroutine, 2 tasks, 5 entries | stacks, saved stacks and `cx->coro` are those of the control that evaluates |
| `poll` | 2 files, 4 changes, 2 waits | registrations own their callbacks; with tame callbacks each report is answered once, by its own callback, and `wait` returns |
| `eval` | 3,923 programs, interpreted and, if they have one line, compiled | `ShowsMeaning`: what is left on the stack, in variables and as errors is what the program means, as long as no return or recall gives up; `Balanced`: those leave a scope, a library and a call open each, and nothing else is; `Ends`; `NamesDeclared`; `CompiledAsRepl` |
| `eval_nested_switch` | 1 program | **violated:** a switch in a clause that is not the last one sends the inner clauses to the end of the outer switch |
| `types` | programs of 4 of 17 definitions and uses | the matrix is the closure of the derivations, records are complete, the specific implementation is called, values are wrapped over the most specific member and unwrapped to it, the compiled program has the same types |
| `types_compiled` | programs of 2 definitions | **violated:** a record type with a record parent aborts the compiled program as it starts |
| `data` | 42 vocabularies, 5 to 7 calls | counts, blocks and slots are right whatever actions do and wherever they fail; nothing is called while an error is pending; clones are detached; `DescriptorsOwned`, `BytesKept` |

**Bounds.** Three tasks are the fewest with one that finishes, one that reschedules and one that
starts at the same time. Of coroutines three allow a call from inside a call while a third is
suspended. Five entries allow main - task - coroutine, a suspension and a resumption at another
height. Two files allow one to move the other.
A push that has read `ntasks` always gets a task (`TaskLeft`), so that the bound on tasks does not stop it.
`eval` puts nine leaves (a value, an error, something missing, an unknown variable ...) into
everything that contains code, in everything that contains code, with three kinds of handlers
behind it; constructs interact through what they leave open and through the errors they meet, and
with two around a leaf each meets each on its way in and out. Six more leaves call functions whose results
are left over, missing, of a wrong type or unbound, or whose recall does not apply, in four of the inner
constructs; programs of several lines go on behind such a return. What needs more than one line or more
than nesting (recalls, closures that outlive their scope, dispatch, sequences, lines after an
error) is in 35 programs of its own. `MaxCalls` is 5 for `CX_MAX_CALLS`, so that recursion
reaches it. A switch inside of a clause is left out there and is the run `eval_nested_switch`.
`types` needs three definitions for a late parent in the middle of a line and a fourth to use it. Two of them
are wrappers with a common member, one of which has members that include each other and may wrap the other
wrapper; it and the type id `Shape` are refused half way where that, or `Point`, is not defined yet.
In `data` six calls are enough to call a function with an action that changes the container in two
steps and to look at the result; `VecMin` is 2 for `CX_VEC_MIN`, so that stacks grow out of their
slab; six addresses suffice for all but a few programs, which `full` excludes. Seven descriptors are
those of three pipes and one more, so that later `fork`s of a program fail at each of the pipes; five calls are two reads, a print and two writes of a buffer.
The bounds only stop programs from doing more; where a run says `CHECK_DEADLOCK FALSE`, it is
because they do, or because the protocol itself can stop (`sched_any`: a task that reschedules and
one that starts can spin for each other; and in undisciplined programs a coroutine that joins its
own caller waits for ever). `coro_handoff`, `sched_paced` and `eval` do check deadlock: the owner
may only end when it evaluates, and a program stops when its lines are done.

**Fairness.** Threads are scheduled by the operating system, so each step that a thread can take
without waiting for its program is weakly fair; a semaphore that stays positive wakes its waiter.
What the program does is not fair: it may never push, run or call. The actions of coroutines and
tasks end, suspend or reschedule some day, and so do callbacks; programs for which this is not so
wait for ever by themselves. In `Poll` the loop of `cx_poll_wait` goes on. `Eval` is one thread that
is never stopped: `Ends` is stated for behaviours that go on until they end (`GoesOn`).

## Proofs

| Theorem | States |
|---|---|
| `SchedProofs!TypeCorrect` | types; no counter or semaphore goes below zero |
| `SchedProofs!BatonConserved` | `IInv` is invariant |
| `SchedProofs!ExclusiveOnceStarted` | `CooperativeOnceStarted` |
| `SchedProofs!PacedCooperative` | `Cooperative`, if `Paced` |
| `SchedProofs!LockedJoin` | `LockedJoinReturns` |
| `SchedProofs!RunJoins` | `RunJoinsAll`, if `Paced` and not `Nested` |
| `SchedProofs!Refinement` | `Sched` implements `Baton`, if `Paced` and not `Nested` |
| `CoroProofs!OneTurn` | `OneRuns` and `SomeoneRuns` |
| `CoroProofs!NothingLeftOver` | `CurrentCoro` and `PostConsumed` |
| `CoroProofs!ThreadsAccounted` | `ThreadsOwned` |
| `CoroProofs!NothingUndefined` | `NoUndefined` |
| `CoroProofs!Refinement` | `Coro` implements `Handoff` |
| `TurnProofs!NeverTwo` | `OneRuns`, of all programs and with any limit of threads |
| `ContProofs!Invariant` | `ContInv` is invariant |
| `ContProofs!Stacked`, `Saved`, `Current` | `StackedInOrder`; `SavedInFull`; `InnermostCoro`, `InnermostTask` and `OwnPosition` |
| `PollProofs!TypeCorrect` | types; no callback is released more often than it was copied |
| `PollProofs!Registrations` | `RegisteredOwned` |
| `PollProofs!CallsRegistered` | `CalledAsRegistered` |
| `PollProofs!CallsEveryone` | `EveryoneCalled` |
| `DerivationProofs!DeclaredAncestors` | what `IsDeclared` says of the types of a program |
| `DerivationProofs!LevelsKeptApart` | levels grow along each line of types, if no type is put above one that exists |
| `DerivationProofs!SpecificIsCalled`, `LowestIsShared` | what `SpecificFirst` and `LeastSupertype` say, on the same condition |
| `DescriptorProofs!OwnedByOne` | `DescriptorsOwned`, for any descriptors and objects |
| `BufferProofs!BytesStay` | `Kept`, for reads, writes and buffers of any size |
| `BufferProofs!WrittenInTurn` | `InTurn`: outside of room that was not filled, a write takes the bytes that come next |

- **Sched**, for any number of tasks, runs and rescheds. "At most one" is not inductive, because a
  step that takes the baton has to know that there is one. `IInv` counts: the value of `run` and
  the tasks that hold the baton are as many as the tasks that have posted early, and one more
  while the owner is in `cx_sched_run`; and `ntasks` is the number of threads between their
  increment and their decrement. Each action moves one task between two of these sets.
  `PacedInv` adds that no two tasks start at once.
  `LockedJoinReturns` needs neither: `DoneOnce` says that every task on `done_q` has counted down or
  is about to, that it is there once, and that the one being joined has left it. `RunJoinsAll` is
  about where tasks are when `run` looks for the last time: `Accounted` follows each from `new_q`
  over its end to `done_q` and the join, and says what the owner knows in each phase of `run`
  (nobody is left but those that end; then nobody but those that have; then nobody). It needs
  `Paced`, as the owner has to wait until a task is counted before it looks at `ntasks`, and
  `~Nested`: with pushes from inside of tasks `run` can return early, which is no weakness of the
  proof but the behaviour that "Where the code differs" lists. Under the same conditions each step is
  one of `Baton` or a stutter: who holds the baton is read off the program counters, `BatonPlace`
  says that nobody has it while it is on the semaphore.
- **Coro**, for any number of coroutines and calls, for disciplined programs and if threads can be
  created. `HandoffInv` adds `Linked` to the properties: an active coroutine has one caller, which
  spins for it and is its `prev_coro`; a suspended one waits on its semaphore; only such a one, or
  one that is done, is joined. The same steps map to steps of `Handoff` or to stutters. `ThreadsOwned`
  is one of the properties that hold each other up: a coroutine that is reset joins its thread, if
  there is one, and its state says whether there is.
  Without discipline, or when the system refuses a thread, the turn can be lost, and most of
  `HandoffInv` with it. `NeverTwo` therefore has an invariant of its own, `TurnInv`: as long as
  somebody goes on, each active coroutine that has a thread has at most one caller, only the one
  that goes on may have a post, and `cx->coro` is the coroutine of the thread that evaluates or a
  phantom (`Phantoms`, active without a thread, for which nobody waits). Once nobody goes on, nothing
  is left that could wake a thread, and the invariant says no more.
- **Cont**, for any controls, heights and number of switches, if no code suspends another control
  than its own (`~Across`). `ContInv` adds to the properties that the chain is what `prev` links
  (`PrevOK`), that the heights rise along it (`Ascending`), and what is saved of whom (`AwayOK`).
  The lemmas are about piles: what appending, cutting off and putting back do to a stack that
  is made of the pieces of each control.
- **Poll**, for any files, operations, waits and depth of waits inside of callbacks. The vectors are
  searched by file, which finds the one entry there is because they are sorted (`Sorted`); so
  inserting at the place of the search, with what the memory there held, releasing and deleting keep
  what each other file owns (`EachOwns`, `OthersKept`), and `held` counts what is given back
  (`GivenBack`). The loop reads the vectors again after every callback. With tame callbacks there is
  one call of `wait`; `Loop` says of each entry that what is due of it is what its `revents` say and
  what it asked for (`Answered`), and that at most `rem` files have any `revents` left. `rem` is
  decremented only with the last of a file's, so when it is zero nobody is due.
  Callbacks that are not tame break `CalledWhenReported`, as "Where the code differs" says; the first two
  theorems hold of them as well.
- **Derivation**, for any number of types. `Types` reaches recursive operators, so the theorems are about
  a type graph and the operators of `Derivation` that `Derive` and `Inherit` consist of. The recursion of
  `derive()` is the set `due` of the calls that are yet to be made, taken in any order: each call adds those
  it makes. That is more general than the depth-first order of the code, and a call that is made twice finds
  its ancestor there. That the recursion ends is left to TLC. A call returns at once if the ancestor is known,
  and relies on that one's own ancestors being known as well; so the invariant has to say what
  may be missing, and why: a type lacks an ancestor of one of its ancestors, or the child of a type one
  of that type's, only if the call is due (`Upwards`, `Downwards`), or if it goes over the link that this very derivation
  puts in, which is in place on both sides before anything follows from it (`NewLink`). `Closed` shows that the last exception
  heals itself: when nothing is due, the parent is in the child's row, the row is closed under parents, and
  so it has all that the parent is. Ancestors are stated without recursion, as what is in every set that
  is closed under parents, so that links in circles need no case of their own.
  The other three hold of programs in which a type is derived while it has no children, from types made
  before it (`DownSpec`, which `PutAbove` excludes the rest of): then only the row and the level of the type that
  is being derived change, and no other type has it as an ancestor (`Childless`). Redefined types are out, as they
  are for the properties.
- **Descriptors**, for any number of objects and of descriptors. `Streams` reaches recursive operators, so
  the theorem is about a program that applies the operators of `Descriptors` in any order: it opens, closes,
  forks with any files as arguments, asks for ends, and releases any file or process at any time. That is
  more general than the counts of `Heap`, which release an object only with its last reference. After a use
  of what is no longer there (`stale`) anything may follow (`Misuse`). The invariant has to hold of the
  worlds in the middle of a fork as well, in which pipes are open that nobody owns yet. `Held(w, X)` says
  that X is what the step has in hand: what is open, is not `leaked` and is not in X, is owned, and each
  number by one slot of one object. There is a lemma for each thing an operator can do: to open is to
  take into hand, to close is to let go of; a new file or process is given what is in hand; one
  that closes, goes or hands an end to a file puts its numbers back. So `Piped` ends with its near and far ends
  in hand, all different; the parent closes the far ones and gives the near ones to the process; in
  the child what has not been closed yet is still in hand, after each `Redirect`, also if that one fails,
  and is then leaked. Left to TLC: that the words of `Streams` change files, processes and
  descriptors only by these operators, and what follows from the counts, that the last reference is the last.
- **Buffers**, for any numbers of bytes. `BytesKept` says `Kept` of each buffer in the world of `Streams`,
  which reaches recursive operators; so the theorems are about one buffer and what `Streams` does to it.
  `Next` has the operators of `Buffers` that `PrintTo`, `FlushBuf`, `ClearBuf`, `ReadBytes` and `WriteBytes`
  use, and leaves out what `Streams` marks as `stale`: a buffer that is written without being flushed, and
  `EAGAIN` from a write, which the code counts as -1 bytes. What is left to TLC is that these are the only words that change a buffer. `Good`
  adds to `Kept` that the positions are in order and within the memory, that room is before the position,
  and that all other memory has nothing that is still to be written (`Spent`): without that, room could be made where such a byte is. What comes in lies behind
  all that is there, with room after it (`Extended`); what is written is an interval of the numbers
  because it is closed downwards, so the count of bytes says which they are (`DownClosed`, `Divided`).

The assumptions on constants are named in the modules (`BoundsAssumption`, `CoroAssumption`,
`ContAssumption`, `PollAssumption`, `EvalAssumption`, `AddrAssumption`, `FdAssumption`, `VecMinAssumption`); the runs evaluate them.
Every safety property of `Sched`, `Coro`, `Cont` and `Poll` that a run checks is proved. Only
model-checked are what holds under fairness, which the prover does not do (`RunReturns`,
`PushReturns`, `ReschedReturns`, `CallReturns`, `JoinReturns`, `WaitReturns`, `Ends`), and everything
about `Eval`, `Types` and `Data` but derivation, the owners of descriptors and the bytes of buffers. `Compile`, `Meaning` and `Types` recurse over tokens and types, and
`Heap` over values that hold values, with recursive operators. These are out of the prover's reach,
as is induction over data.

## Where the code differs from what it says

`PROJECT.json` lists three with their lines and the sentences they contradict; runs show them.
Others the models tell of. Properties that state them are in the modules and are violated by the
programs named here, but no run repeats it:

- **Tasks.** `done` counts posts of an earlier run as well, and the next run frees the head of an
  empty list. A task that reschedules and one that starts can spin for each other (two pushes in
  quick succession). `cx_sched_push` spins for ever if after it has read `ntasks` its own task is counted and
  another one ends before it looks again (`sched.c:81-92`): one, two, and one again. Tasks end while another is
  pushed if a task pushes, or if two pushes in quick succession let the first task run early; `PushReturns`
  claims the return of a push during which no task ends. `cx_sched_run` can return before a task that was pushed from inside a task is
  joined (`RunJoinsAll` with `Nested`). Tasks need not start in the order they were pushed
  (`InPushOrder`); `tests/task.cx` expects it.
- **Coroutines.** Resetting a cancelled coroutine cancels and joins a thread that is gone
  (`NoUndefined`).
- **Contexts.** The remembered heights are absolute and go stale when an enclosing control is moved
  (`StackedInOrder` with `Across`). A coroutine that reschedules the task it was called from comes
  back without a current coroutine, and a task that suspends the coroutine it is run from without a
  current task (`InnermostCoro`, `InnermostTask` with `Across`). A call can be resumed on top of more
  calls than `CX_MAX_CALLS` leaves room for (`CallsFit`).
- **Polling.** A file that a callback adds can be called though nothing was reported, as its
  `revents` is not initialised (`CalledWhenReported`). `no-read` and `no-write` never release their
  callback (`NothingLeaked`).
- **Dispatch.** `README.md:837-850` tells of implementations for literal values. The one for a literal
  is preferred only if its id sorts before the one for the type (`func.c:133-154`), and a call site
  that has found the general one keeps it (`op.c:511`).
- **Types.** A type id's constraints are checked after the member was derived from it, and so hold
  of any member (`ConstraintsChecked`). After a type id is emitted its level can differ from the
  interpreter's, and the executable may call another implementation (`op.c:1440`). The conversions
  set the type of the value to that of the member, so that a wrapped Int comes back as a Num if the
  member is Num. Redefining a `type:` leaves it without its parameter, and redefining a type id of a
  single member aborts. A use of an instance of a type id with several members makes each an instance
  of the others: after `StackIter<Int>` a `Stack<Int>` is an `Iter<Int>`. Type ids put above types that
  have descendants bring levels together, and two implementations can tie.
- **Returns.** A return that finds results left over, missing, unbound or of a wrong type reports the error and
  gives up, and so does a recall that does not apply (`op.c:1089-1161`; the emitted code does the same): the scope,
  the library and the call of the function stay open for the rest of the session. A function around it
  then closes those instead of its own. What is evaluated later runs in the scope that stayed, sees its
  variables and leaves its values there; `this-fimp` and `recall` find the call; calls are lost to
  `CX_MAX_CALLS`. `Balanced` states this exactly, `ShowsMeaning` claims the errors of the line and nothing
  of what follows in the scope. The C text of a return uses the symbol of a result's name but does not
  declare it (`op.c:1234`, no `emit_syms` at `op.c:1346`): if nothing else in the program names it, the text does not
  compile. The programs of `eval` name it elsewhere (`NamesDeclared`).
- **Control flow.** `for` and `..` over a callable do not look at whether the call failed, and go on
  for ever if it leaves a value. `min`, `max`, `sort` and comparisons of values without an order stop
  the process, as does `mod` by zero.
- **Data.** The last reference to a reference, `clear`, `into` and `put-call` that refuse a value, and
  `find-if` that fails forget references. A condition in `table` is the wrong way round, so that the
  types of keys and values are never kept. `put-call`, `repeat`, `set-call` and `move` store values of
  any type. `rezip` exchanges the values in a pair that others may hold.
- **Buffers.** A read of fewer bytes than asked for leaves the rest of the room in the buffer, with what
  was there before (`lib/buf.c:56-58`), and `write-bytes` sends it: after two bytes were read and written,
  a read of two that gets one has the second of them sent again. `write-bytes` goes by the length of the last flush, and if nothing can be written
  now, it moves the position back by one (`lib/buf.c:90`). `lines` and `reverse` of a buffer, released
  last, give it back to the slabs of files (`lib/io.c:111`).
- **Processes and sockets.** When a later pipe cannot be made, `cx_proc_fork` closes uninitialised
  numbers if files were given (`proc.c:72`). It compares the file for errors with standard output
  (`proc.c:132`). `wait` compares microseconds with milliseconds (`proc.c:158`), and like `kill` it leaves
  an error pending and succeeds. `accept` forgets a connection that cannot be unblocked (`lib/net.c:79`).

Hazards that no property covers, besides those: `pthread_create` of a task that fails (`sched.c:87`);
the last reference to a scheduler that has tasks (`sched.c:63`); a task that runs its own scheduler
(`sched.c:96`); an action that ends without a value while its coroutine is iterated (`coro.c:221`);
`on_start` reading a scope that `cx_cont_finish` has popped (`coro.c:88`); `cx_task_deinit` using an
uninitialised pointer (`task.c:38`); callbacks that withdraw a pending file (`poll.c:158`); files that are closed
without `delete` (`poll.c:191`, `file.c:123`); signals (`poll.c:147`); errors in callbacks deciding by
`errno` (`lib/poll.c:76`); the calls an error keeps, one more than it has room for (`error.c:45`);
overflow of integers (`lib/math.c:78`); `put-call` and `sort` with actions that shorten or grow the stack they
work on (`lib/stack.c:61`, `lib/stack.c:251`); stacks put into themselves (`stack.c:122`); keys of tables
that change (`set.c:33`); indices below zero (`lib/stack.c:85`).

## What is not modelled

Of the modelled components: the reference counts of schedulers and of scopes, a task that runs its
own scheduler, system calls that fail other than `pthread_create` of a coroutine, the pointers of
the lists in `ls.c`, iterating a coroutine, C callbacks of a poll, signals. Of programs: negative
indices, starts and lengths of sequences; values that contain themselves; numbers near the ends of
64 bits; kinds of plain values other than numbers, booleans, nil, symbols and strings that are only
passed on. Of the compiler to C the text itself other than where it goes and what it names, and
the C compiler. Of the parser all that reads characters: modules start from tokens and definitions.
Lazy initialisation of libraries, `use:` and links; constants; the listing of implementations.

Of files the contents and positions, other than of buffers, `read`, `write`, `load`, `include:` and
`unblock`; of processes parent and child at once (either goes on), what the child's standard descriptors
stand for, `exec`, `exit`, and processes that nobody waits for, which stay with the system.

Not modelled at all: the line editor; strings, floats and times, which are functions of values without
state; the graphics library, which only prints.

## Plan

1. `Poll` with `Streams`: descriptors that are closed and used again under a poll.
2. `Libs` (`lib.c`, `link.c`): a library is initialised once and before its definitions are used.
3. Reference counts of scopes in `Eval`, from which the lifetime of lambdas follows.
4. Proofs: the laws of the vectors of `Heap` (`VecSet`, growing and slabs), once they are in a module
   of their own as `Buffers` and `Descriptors` are.
