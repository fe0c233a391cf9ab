-------------------------------- MODULE Cont --------------------------------
(***************************************************************************)
(* Contexts: src/cixl/cont.c, and the same steps of task.c for tasks.      *)
(*                                                                         *)
(* All code shares one interpreter `cx': its position in the byte code and *)
(* three stacks, of libraries, scopes and calls.  A coroutine or task that *)
(* is entered remembers how high the stacks are; to suspend it, everything *)
(* above is moved to its own vectors, and put back on top when it resumes. *)
(*                                                                         *)
(* That only one thread evaluates at a time is shown in Coro and Sched, so *)
(* a switch is a single step here.  An entry of a stack is represented by  *)
(* the control (the main program, a coroutine or a task) that pushed it.   *)
(***************************************************************************)
EXTENDS Integers, Sequences, SequencesExt

CONSTANTS
  Coros, Tasks, Scheds,
  SchedOf,    \* the scheduler of each task
  Main,       \* the main program; also NULL, as a coroutine or task
  MaxFrames,  \* bound: the entries one control pushes on one of the stacks
  MaxEnters,  \* bound: how often controls are entered or resumed
  MaxCalls,   \* CX_MAX_CALLS
  Across      \* whether code suspends a coroutine from inside of a task, or
              \* reschedules a task from inside of a coroutine

ASSUME ContAssumption ==
  /\ Main \notin Coros \cup Tasks /\ Coros \cap Tasks = {}
  /\ SchedOf \in [Tasks -> Scheds]
  /\ MaxFrames \in Nat /\ MaxEnters \in Nat /\ MaxCalls \in Nat
  /\ Across \in BOOLEAN

Movable == Coros \cup Tasks
Controls == Movable \cup {Main}
Kinds == {"libs", "scopes", "calls"}

VARIABLES
  coro, task, at,  \* cx->coro, cx->task; cx->bin and cx->pc: whose code it is
  stacks,          \* cx->libs, cx->scopes and cx->calls
  prev,            \* prev_coro, prev_task, prev_bin and prev_pc of each
  base,            \* prev_nlibs, prev_nscopes and prev_ncalls
  saved, savedAt,  \* libs, scopes and calls; bin and pc
  phase,           \* of each coroutine or task
  chain,           \* the threads in the order in which they wait for another
  slice,           \* the part of the chain that was suspended with a control
  runner,          \* who is in cx_sched_run; Main if nobody or the main program
  running,         \* the schedulers that run
  own,             \* how many entries each control has pushed and not popped
  enters

ctx == <<coro, task, at, stacks>>
vars == <<coro, task, at, stacks, prev, base, saved, savedAt, phase, chain,
          slice, runner, running, own, enters>>

Empty == [k \in Kinds |-> <<>>]
Zero == [k \in Kinds |-> 0]

TypeOK ==
  /\ coro \in Coros \cup {Main} /\ task \in Tasks \cup {Main} /\ at \in Controls
  /\ stacks \in [Kinds -> Seq(Controls)]
  /\ prev \in [Movable -> [coro : Coros \cup {Main}, task : Tasks \cup {Main}, at : Controls]]
  /\ base \in [Movable -> [Kinds -> Nat]]
  /\ saved \in [Movable -> [Kinds -> Seq(Controls)]]
  /\ savedAt \in [Movable -> Controls]
  /\ phase \in [Movable -> {"new", "active", "away", "done"}]
  /\ chain \in Seq(Controls)
  /\ slice \in [Movable -> Seq(Controls)]
  /\ runner \in [Scheds -> Controls]
  /\ running \subseteq Scheds
  /\ own \in [Controls -> [Kinds -> Nat]]
  /\ enters \in Nat

Init ==
  /\ coro = Main /\ task = Main /\ at = Main
  /\ stacks = Empty
  /\ prev = [x \in Movable |-> [coro |-> Main, task |-> Main, at |-> Main]]
  /\ base = [x \in Movable |-> Zero]
  /\ saved = [x \in Movable |-> Empty]
  /\ savedAt = [x \in Movable |-> Main]
  /\ phase = [x \in Movable |-> "new"]
  /\ chain = <<Main>>
  /\ slice = [x \in Movable |-> <<>>]
  /\ runner = [s \in Scheds |-> Main]
  /\ running = {}
  /\ own = [x \in Controls |-> Zero]
  /\ enters = 0

Top == Last(chain)

(* The top of the chain waits in cx_sched_run, or evaluates. *)
InRun == \E s \in running : runner[s] = Top
Evaluates(x) == x = Top /\ ~InRun

-----------------------------------------------------------------------------
(* Evaluation: a block pushes a scope, a call of a C function a call and   *)
(* the function's library, a call of a Cixl function all three.            *)
FrameSets == {{"scopes"}, {"libs", "calls"}, Kinds}

Fits(F) == "calls" \in F => Len(stacks["calls"]) < MaxCalls

PushOn(F, x) == [k \in Kinds |-> IF k \in F THEN Append(stacks[k], x) ELSE stacks[k]]
Owned(x, F, n) == [own EXCEPT ![x] = [k \in Kinds |-> IF k \in F THEN @[k] + n ELSE @[k]]]

Push(F) ==
  /\ Evaluates(Top)
  /\ \A k \in F : own[Top][k] < MaxFrames
  /\ Fits(F)
  /\ stacks' = PushOn(F, Top)
  /\ own' = Owned(Top, F, 1)
  /\ UNCHANGED <<coro, task, at, prev, base, saved, savedAt, phase, chain, slice,
                 runner, running, enters>>

Pop(F) ==
  /\ Evaluates(Top)
  /\ \A k \in F : own[Top][k] > 0
  /\ stacks' = [k \in Kinds |-> IF k \in F THEN Front(stacks[k]) ELSE stacks[k]]
  /\ own' = Owned(Top, F, -1)
  /\ UNCHANGED <<coro, task, at, prev, base, saved, savedAt, phase, chain, slice,
                 runner, running, enters>>

-----------------------------------------------------------------------------
(* Mutant: the heights of the first time are kept. *)
RememberOnce(x) ==
  /\ enters < MaxEnters
  /\ enters' = enters + 1
  /\ prev' = [prev EXCEPT ![x] = [coro |-> coro, task |-> task, at |-> at]]
  /\ base' = IF phase[x] = "new" THEN [base EXCEPT ![x] = [k \in Kinds |-> Len(stacks[k])]]
             ELSE base
  /\ phase' = [phase EXCEPT ![x] = "active"]

(* cx_cont_reset, and before_run of tasks: what was before is remembered. *)
Remember(x) ==
  /\ enters < MaxEnters
  /\ enters' = enters + 1
  /\ prev' = [prev EXCEPT ![x] = [coro |-> coro, task |-> task, at |-> at]]
  /\ base' = [base EXCEPT ![x] = [k \in Kinds |-> Len(stacks[k])]]
  /\ phase' = [phase EXCEPT ![x] = "active"]

(* on_start of both: the action is evaluated on top of what is there. *)
Start(x) ==
  /\ phase[x] = "new"
  /\ Remember(x)
  /\ at' = x
  /\ chain' = Append(chain, x)
  /\ UNCHANGED <<stacks, saved, savedAt, slice, runner, running, own>>

(* Mutant: the vectors that were put back are not cleared. *)
RestoreKeepsSaved(x) ==
  /\ phase[x] = "away"
  /\ Remember(x)
  /\ at' = savedAt[x]
  /\ stacks' = [k \in Kinds |-> stacks[k] \o saved[x][k]]
  /\ chain' = chain \o slice[x]
  /\ slice' = [slice EXCEPT ![x] = <<>>]
  /\ UNCHANGED <<saved, savedAt, runner, running, own>>

(* cx_cont_resume and before_resume: what was saved is put on top. *)
Restore(x) ==
  /\ phase[x] = "away"
  /\ Remember(x)
  /\ at' = savedAt[x]
  /\ stacks' = [k \in Kinds |-> stacks[k] \o saved[x][k]]
  /\ saved' = [saved EXCEPT ![x] = Empty]
  /\ chain' = chain \o slice[x]
  /\ slice' = [slice EXCEPT ![x] = <<>>]
  /\ UNCHANGED <<savedAt, runner, running, own>>

(* cx_cont_suspend and cx_task_resched: everything above the base is moved. *)
(* A stack on which nothing was pushed leaves the old vector as it is.      *)
(* `suspend' and `resched' are themselves calls of C functions.             *)
Save(x) ==
  /\ x \in Movable
  /\ \E i \in DOMAIN chain :
       /\ chain[i] = x
       /\ chain' = SubSeq(chain, 1, i - 1)
       /\ slice' = [slice EXCEPT ![x] = SubSeq(chain, i, Len(chain))]
  /\ Fits({"libs", "calls"})
  /\ own' = Owned(Top, {"libs", "calls"}, 1)
  /\ LET now == PushOn({"libs", "calls"}, Top)
         Above(k) == SubSeq(now[k], base[x][k] + 1, Len(now[k])) IN
     /\ stacks' = [k \in Kinds |-> SubSeq(now[k], 1, base[x][k])]
     /\ saved' = [saved EXCEPT ![x] =
          [k \in Kinds |-> IF Above(k) # <<>> THEN Above(k) ELSE @[k]]]
  /\ coro' = prev[x].coro /\ task' = prev[x].task /\ at' = prev[x].at
  /\ savedAt' = [savedAt EXCEPT ![x] = at]
  /\ phase' = [phase EXCEPT ![x] = "away"]
  /\ UNCHANGED <<prev, base, runner, running, enters>>

(* Mutant: the coroutine and task of before are not put back. *)
FinishKeepsCurrent(x) ==
  /\ Evaluates(x) /\ x \in Movable
  /\ stacks' = [k \in Kinds |-> SubSeq(stacks[k], 1, base[x][k])]
  /\ at' = prev[x].at
  /\ phase' = [phase EXCEPT ![x] = "done"]
  /\ chain' = Front(chain)
  /\ own' = [own EXCEPT ![x] = Zero]
  /\ UNCHANGED <<coro, task, prev, base, saved, savedAt, slice, runner, running, enters>>

(* cx_cont_finish and the end of a task: what an action that failed left   *)
(* on the stacks is popped.                                                *)
Finish(x) ==
  /\ Evaluates(x) /\ x \in Movable
  /\ stacks' = [k \in Kinds |-> SubSeq(stacks[k], 1, base[x][k])]
  /\ coro' = prev[x].coro /\ task' = prev[x].task /\ at' = prev[x].at
  /\ phase' = [phase EXCEPT ![x] = "done"]
  /\ chain' = Front(chain)
  /\ own' = [own EXCEPT ![x] = Zero]
  /\ UNCHANGED <<prev, base, saved, savedAt, slice, runner, running, enters>>

-----------------------------------------------------------------------------
(* cx_coro_call of a new and of a suspended coroutine. *)
CallCoro(c) ==
  /\ Evaluates(Top)
  /\ Start(c) \/ Restore(c)
  /\ coro' = c
  /\ UNCHANGED task

(* suspend_imp: it is cx->coro that is suspended. *)
Suspend ==
  /\ Evaluates(Top)
  /\ coro # Main
  /\ Across \/ coro = Top
  /\ Save(coro)

(* Mutant: the scopes are forgotten, the calls and libraries are left. *)
ResetKeepsScopes(c) ==
  /\ Evaluates(Top)
  /\ phase[c] \in {"away", "done"}
  /\ saved' = [saved EXCEPT ![c]["libs"] = <<>>, ![c]["calls"] = <<>>]
  /\ phase' = [phase EXCEPT ![c] = "new"]
  /\ slice' = [slice EXCEPT ![c] = <<>>]
  /\ own' = [own EXCEPT ![c] = Zero]
  /\ UNCHANGED <<coro, task, at, stacks, prev, base, savedAt, chain, runner, running, enters>>

(* cx_coro_reset: cx_cont_clear forgets the scopes and calls that were     *)
(* saved, and leaves the libraries.                                        *)
Reset(c) ==
  /\ Evaluates(Top)
  /\ phase[c] \in {"away", "done"}
  /\ saved' = [saved EXCEPT ![c]["scopes"] = <<>>, ![c]["calls"] = <<>>]
  /\ phase' = [phase EXCEPT ![c] = "new"]
  /\ slice' = [slice EXCEPT ![c] = <<>>]
  /\ own' = [own EXCEPT ![c] = Zero]
  /\ UNCHANGED <<coro, task, at, stacks, prev, base, savedAt, chain, runner, running, enters>>

-----------------------------------------------------------------------------
(* cx_sched_run: the baton goes to the tasks. *)
RunStart(s) ==
  /\ Evaluates(Top)
  /\ s \notin running
  /\ running' = running \cup {s}
  /\ runner' = [runner EXCEPT ![s] = Top]
  /\ UNCHANGED <<ctx, prev, base, saved, savedAt, phase, chain, slice, own, enters>>

RunReturn(s) ==
  /\ s \in running /\ runner[s] = Top
  /\ \A t \in Tasks : SchedOf[t] = s => phase[t] = "done"
  /\ running' = running \ {s}
  /\ runner' = [runner EXCEPT ![s] = Main]
  /\ UNCHANGED <<ctx, prev, base, saved, savedAt, phase, chain, slice, own, enters>>

(* A task that waited for the baton gets it: on_start, or the end of       *)
(* cx_task_resched.                                                        *)
TaskRun(t) ==
  /\ SchedOf[t] \in running /\ runner[SchedOf[t]] = Top
  /\ Start(t) \/ Restore(t)
  /\ task' = t
  /\ UNCHANGED coro

Resched ==
  /\ Evaluates(Top)
  /\ task # Main
  /\ Across \/ task = Top
  /\ Save(task)

-----------------------------------------------------------------------------
Next ==
  \/ \E F \in FrameSets : Push(F) \/ Pop(F)
  \/ \E c \in Coros : CallCoro(c) \/ Reset(c)
  \/ Suspend \/ Resched
  \/ \E x \in Movable : Finish(x)
  \/ \E s \in Scheds : RunStart(s) \/ RunReturn(s)
  \/ \E t \in Tasks : TaskRun(t)

Spec == Init /\ [][Next]_vars

-----------------------------------------------------------------------------
(* Above the entries of c[i], which start at height h[i], are those of      *)
(* c[i + 1], and those of the last one end the stack; n counts them.       *)
Piled(c, h, n, s) ==
  \A i \in DOMAIN c :
    /\ h[i] + n[c[i]] = IF i = Len(c) THEN Len(s) ELSE h[i + 1]
    /\ \A j \in 1 .. n[c[i]] : s[h[i] + j] = c[i]

Heights(k) == [i \in DOMAIN chain |-> IF i = 1 THEN 0 ELSE base[chain[i]][k]]
Counts(k) == [x \in Controls |-> own[x][k]]

(* The stacks are what the controls of the chain have pushed, one above    *)
(* the other, and nothing else.                                            *)
StackedInOrder == \A k \in Kinds : Piled(chain, Heights(k), Counts(k), stacks[k])

(* What is saved for a control that was suspended by itself is what it had *)
(* pushed, nothing more and nothing less.                                  *)
SavedInFull ==
  \A x \in Movable : phase[x] = "away" /\ slice[x] = <<x>> =>
    \A k \in Kinds :
      /\ Len(saved[x][k]) = own[x][k]
      /\ \A j \in DOMAIN saved[x][k] : saved[x][k][j] = x

(* The innermost of some controls among the first i of the chain. *)
InnermostAt(S, i) ==
  LET last == {m \in 1 .. i : chain[m] \in S /\ \A j \in m + 1 .. i : chain[j] \notin S} IN
  IF last = {} THEN Main ELSE chain[CHOOSE m \in last : TRUE]

(* cx->coro is the innermost coroutine, so that it is this one that suspend *)
(* suspends, after any switches in between.                                *)
InnermostCoro == coro = InnermostAt(Coros, Len(chain))

(* And cx->task is the innermost task, so that resched is that task's.     *)
InnermostTask == task = InnermostAt(Tasks, Len(chain))

(* cx->bin and cx->pc are in the code of the control that evaluates: each  *)
(* one goes on where it was.                                               *)
OwnPosition == at = Top

(* What makes these inductive, for the proofs in ContProofs. *)
ChainOK ==
  /\ Len(chain) >= 1 /\ chain[1] = Main
  /\ \A i \in 2 .. Len(chain) : chain[i] \in Movable
  /\ \A i, j \in DOMAIN chain : chain[i] = chain[j] => i = j
  /\ \A x \in Movable : phase[x] = "active" <=> \E i \in DOMAIN chain : chain[i] = x
PrevOK ==
  \A i \in 2 .. Len(chain) :
    prev[chain[i]] = [coro |-> InnermostAt(Coros, i - 1),
                      task |-> InnermostAt(Tasks, i - 1), at |-> chain[i - 1]]
Rising(h) == \A i, j \in DOMAIN h : i <= j => h[i] <= h[j]
Ascending == \A k \in Kinds : Rising(Heights(k))
AwayOK ==
  \A x \in Movable :
    /\ phase[x] \in {"new", "done"} => own[x] = Zero
    /\ phase[x] = "away" => slice[x] = <<x>> /\ savedAt[x] = x
    /\ phase[x] # "away" => saved[x]["scopes"] = <<>>

(* The inductive invariant of ContProofs: what the stacks, the saved       *)
(* stacks and the current control have to do with the chain.               *)
ContInv ==
  /\ TypeOK /\ ChainOK /\ PrevOK /\ AwayOK /\ Ascending
  /\ StackedInOrder /\ SavedInFull /\ InnermostCoro /\ InnermostTask /\ OwnPosition

(* The calls fit into cx->calls, as cx_push_call sees to. *)
CallsFit == Len(stacks["calls"]) <= MaxCalls
=============================================================================
