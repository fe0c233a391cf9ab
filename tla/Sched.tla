------------------------------- MODULE Sched -------------------------------
(***************************************************************************)
(* The task scheduler of cixl: src/cixl/sched.c and src/cixl/task.c.       *)
(*                                                                         *)
(* Every task is a POSIX thread, but only one of them is meant to be       *)
(* inside the interpreter at a time: the semaphore `run' is a baton that   *)
(* cx_sched_run posts, tasks pass to each other, and cx_sched_run takes    *)
(* back.  `ntasks' and `nruns' are atomics that threads spin on, `done'    *)
(* counts finished tasks, and three lists hold the new, the started and    *)
(* the finished tasks.                                                     *)
(*                                                                         *)
(* Thread 0 is the thread that owns the scheduler, threads 1..NTasks are   *)
(* the tasks in the order in which cx_sched_push links them.  The steps of *)
(* a thread between two accesses to shared state are one action.  A list   *)
(* operation is one step here, its pointer writes are left out.  What a     *)
(* task keeps of the interpreter's stacks is the subject of Cont.          *)
(***************************************************************************)
EXTENDS Naturals, Sequences, SequencesExt, FiniteSets

CONSTANTS
  NTasks,      \* bound: how many tasks are ever pushed
  MaxRuns,     \* bound: how many times the owner calls cx_sched_run
  MaxResched,  \* bound: how many times one task calls cx_task_resched
  Nested,      \* whether the action of a task may push to its own scheduler
  Paced        \* whether every task reaches its sem_wait before the next push

ASSUME BoundsAssumption ==
  /\ NTasks \in Nat
  /\ MaxRuns \in Nat
  /\ MaxResched \in Nat
  /\ Nested \in BOOLEAN /\ Paced \in BOOLEAN

Main == 0
Tasks == 1..NTasks
Threads == {Main} \cup Tasks

VARIABLES
  pc,        \* where each thread is
  ret,       \* where a task's call of run_next returns to
  newQ, readyQ, doneQ,
  ntasks, nruns,
  run, done, \* the semaphores
  prevTasks, \* local prev_ntasks of cx_sched_push
  prevRuns,  \* local prev_nruns of run_next
  victim,    \* the task that cx_sched_run is freeing
  resched,   \* how often each task has called cx_task_resched
  runs       \* how often the owner has called cx_sched_run

queues == <<newQ, readyQ, doneQ>>
counters == <<ntasks, nruns>>
sems == <<run, done>>
locals == <<ret, prevTasks, prevRuns, victim, resched, runs>>
vars == <<pc, queues, counters, sems, locals>>

MainPc == {"idle", "link", "grow", "loop", "wait", "recheck", "reap", "join",
           "sweep", "sweepjoin", "last", "ub"}
TaskPc == {"none", "count", "check", "load", "post", "spin", "take", "ready",
           "enter", "act", "link", "grow", "resched", "resume", "move",
           "uncount", "signal", "exited", "freed"}

TypeOK ==
  /\ pc \in [Threads -> MainPc \cup TaskPc]
  /\ pc[Main] \in MainPc
  /\ \A t \in Tasks : pc[t] \in TaskPc
  /\ ret \in [Tasks -> {"check", "resume"}]
  /\ newQ \in Seq(Tasks) /\ readyQ \in Seq(Tasks) /\ doneQ \in Seq(Tasks)
  /\ ntasks \in Nat /\ nruns \in Nat
  /\ run \in Nat /\ done \in Nat
  /\ prevTasks \in [Threads -> Nat]
  /\ prevRuns \in [Tasks -> Nat]
  /\ victim \in Threads
  /\ resched \in [Tasks -> Nat]
  /\ runs \in Nat

Goto(th, to) == pc' = [pc EXCEPT ![th] = to]

(* cx_sched_new *)
Init ==
  /\ pc = [th \in Threads |-> IF th = Main THEN "idle" ELSE "none"]
  /\ ret = [t \in Tasks |-> "check"]
  /\ newQ = <<>> /\ readyQ = <<>> /\ doneQ = <<>>
  /\ ntasks = 0 /\ nruns = 0
  /\ run = 0 /\ done = 0
  /\ prevTasks = [th \in Threads |-> 0]
  /\ prevRuns = [t \in Tasks |-> 0]
  /\ victim = Main
  /\ resched = [t \in Tasks |-> 0]
  /\ runs = 0

-----------------------------------------------------------------------------
(* cx_sched_push, called by the owner or from inside the action of a task. *)

(* Inside the loop of on_start. *)
Starting ==
  {t \in Tasks : \/ pc[t] \in {"count", "check"}
                 \/ pc[t] \in {"load", "post", "spin", "take"} /\ ret[t] = "check"}

(* The code does not wait for Starting to be empty; a program that is slow *)
(* between two pushes, such as the REPL of a user who types, behaves as if *)
(* it did.                                                                 *)
MayPush(th) ==
  /\ \/ th = Main /\ pc[th] = "idle"
     \/ Nested /\ th \in Tasks /\ pc[th] = "act"
  /\ Paced => Starting = {}

(* The bound on tasks stops a push before it begins, never half way. *)
TaskLeft ==
  Cardinality({th \in Threads : pc[th] = "link"}) < Cardinality({t \in Tasks : pc[t] = "none"})

(* The number of tasks is read before the new task exists. *)
PushRead(th) ==
  /\ MayPush(th)
  /\ TaskLeft
  /\ prevTasks' = [prevTasks EXCEPT ![th] = ntasks]
  /\ Goto(th, "link")
  /\ UNCHANGED <<queues, counters, sems, ret, prevRuns, victim, resched, runs>>

(* The task is linked at the end of new_q and its thread is created; the   *)
(* task with the least number among those not yet pushed stands for it.    *)
PushLink(th) ==
  /\ pc[th] = "link"
  /\ \E t \in Tasks :
       /\ pc[t] = "none"
       /\ \A u \in Tasks : u < t => pc[u] # "none"
       /\ newQ' = Append(newQ, t)
       /\ pc' = [pc EXCEPT ![th] = "grow", ![t] = "count"]
  /\ UNCHANGED <<readyQ, doneQ, counters, sems, locals>>

PushReturnsTo(th) == IF th = Main THEN "idle" ELSE "act"

(* The pusher spins until ntasks differs from the number it read. *)
PushGrow(th) ==
  /\ pc[th] = "grow"
  /\ ntasks # prevTasks[th]
  /\ prevTasks' = [prevTasks EXCEPT ![th] = 0]
  /\ Goto(th, PushReturnsTo(th))
  /\ UNCHANGED <<queues, counters, sems, ret, prevRuns, victim, resched, runs>>

-----------------------------------------------------------------------------
(* run_next: hand the baton to another task and take it back. *)

RunNextLoad(t) ==
  /\ pc[t] = "load"
  /\ prevRuns' = [prevRuns EXCEPT ![t] = nruns]
  /\ Goto(t, "post")
  /\ UNCHANGED <<queues, counters, sems, ret, prevTasks, victim, resched, runs>>

RunNextPost(t) ==
  /\ pc[t] = "post"
  /\ run' = run + 1
  /\ Goto(t, "spin")
  /\ UNCHANGED <<queues, counters, done, locals>>

(* Mutant: spins for another run only, whatever becomes of the other tasks. *)
RunNextSpinForRunOnly(t) ==
  /\ pc[t] = "spin"
  /\ nruns # prevRuns[t]
  /\ prevRuns' = [prevRuns EXCEPT ![t] = 0]
  /\ Goto(t, "take")
  /\ UNCHANGED <<queues, counters, sems, ret, prevTasks, victim, resched, runs>>

RunNextSpin(t) ==
  /\ pc[t] = "spin"
  /\ ntasks <= 1 \/ nruns # prevRuns[t]
  /\ prevRuns' = [prevRuns EXCEPT ![t] = 0]
  /\ Goto(t, "take")
  /\ UNCHANGED <<queues, counters, sems, ret, prevTasks, victim, resched, runs>>

(* Mutant: goes on without waiting for the baton. *)
RunNextNoTake(t) ==
  /\ pc[t] = "take"
  /\ Goto(t, ret[t])
  /\ UNCHANGED <<queues, counters, sems, locals>>

RunNextTake(t) ==
  /\ pc[t] = "take"
  /\ run > 0
  /\ run' = run - 1
  /\ Goto(t, ret[t])
  /\ UNCHANGED <<queues, counters, done, locals>>

-----------------------------------------------------------------------------
(* on_start of task.c: the thread of a task. *)

(* Mutant: the thread is never counted. *)
StartNoCount(t) ==
  /\ pc[t] = "count"
  /\ Goto(t, "check")
  /\ UNCHANGED <<queues, counters, sems, locals>>

StartCount(t) ==
  /\ pc[t] = "count"
  /\ ntasks' = ntasks + 1
  /\ Goto(t, "check")
  /\ UNCHANGED <<queues, nruns, sems, locals>>

(* The task at the head of new_q moves itself to ready_q. *)
StartMove(t) ==
  /\ pc[t] = "check"
  /\ newQ # <<>> /\ Head(newQ) = t
  /\ newQ' = Tail(newQ)
  /\ readyQ' = Append(readyQ, t)
  /\ Goto(t, "ready")
  /\ UNCHANGED <<doneQ, counters, sems, locals>>

(* Any other task calls run_next, although it does not hold the baton. *)
StartRunNext(t) ==
  /\ pc[t] = "check"
  /\ newQ = <<>> \/ Head(newQ) # t
  /\ ret' = [ret EXCEPT ![t] = "check"]
  /\ Goto(t, "load")
  /\ UNCHANGED <<queues, counters, sems, prevTasks, prevRuns, victim, resched, runs>>

(* Mutant: the task starts without waiting for the baton. *)
StartNoWait(t) ==
  /\ pc[t] = "ready"
  /\ Goto(t, "enter")
  /\ UNCHANGED <<queues, counters, sems, locals>>

StartWait(t) ==
  /\ pc[t] = "ready"
  /\ run > 0
  /\ run' = run - 1
  /\ Goto(t, "enter")
  /\ UNCHANGED <<queues, counters, done, locals>>

(* before_run, nruns, and then the action is called. *)
StartEnter(t) ==
  /\ pc[t] = "enter"
  /\ nruns' = nruns + 1
  /\ Goto(t, "act")
  /\ UNCHANGED <<queues, ntasks, sems, locals>>

(* Mutant: the baton is dropped when the action returns. *)
StartLeaveNoPost(t) ==
  /\ pc[t] = "act"
  /\ Goto(t, "move")
  /\ UNCHANGED <<queues, counters, sems, locals>>

(* The action has returned and the context is restored: pass the baton on. *)
StartLeave(t) ==
  /\ pc[t] = "act"
  /\ run' = run + 1
  /\ Goto(t, "move")
  /\ UNCHANGED <<queues, counters, done, locals>>

QLocked == pc[Main] = "join"

(* Under q_lock the task moves itself to the end of done_q. *)
StartDone(t) ==
  /\ pc[t] = "move"
  /\ ~QLocked
  /\ \E i \in DOMAIN readyQ : readyQ[i] = t /\ readyQ' = RemoveAt(readyQ, i)
  /\ doneQ' = Append(doneQ, t)
  /\ Goto(t, "uncount")
  /\ UNCHANGED <<newQ, counters, sems, locals>>

StartUncount(t) ==
  /\ pc[t] = "uncount"
  /\ ntasks' = ntasks - 1
  /\ Goto(t, "signal")
  /\ UNCHANGED <<queues, nruns, sems, locals>>

(* Mutant: the thread ends without posting done. *)
StartNoSignal(t) ==
  /\ pc[t] = "signal"
  /\ Goto(t, "exited")
  /\ UNCHANGED <<queues, counters, sems, locals>>

StartSignal(t) ==
  /\ pc[t] = "signal"
  /\ done' = done + 1
  /\ Goto(t, "exited")
  /\ UNCHANGED <<queues, counters, run, locals>>

-----------------------------------------------------------------------------
(* cx_task_resched, called by the action of a task. *)

Resched(t) ==
  /\ pc[t] = "act"
  /\ resched[t] < MaxResched
  /\ resched' = [resched EXCEPT ![t] = @ + 1]
  /\ Goto(t, "resched")
  /\ UNCHANGED <<queues, counters, sems, ret, prevTasks, prevRuns, victim, runs>>

ReschedRunNext(t) ==
  /\ pc[t] = "resched"
  /\ ntasks > 1
  /\ ret' = [ret EXCEPT ![t] = "resume"]
  /\ Goto(t, "load")
  /\ UNCHANGED <<queues, counters, sems, prevTasks, prevRuns, victim, resched, runs>>

(* A task that is alone keeps the baton. *)
ReschedAlone(t) ==
  /\ pc[t] = "resched"
  /\ ntasks <= 1
  /\ Goto(t, "resume")
  /\ UNCHANGED <<queues, counters, sems, locals>>

ReschedResume(t) ==
  /\ pc[t] = "resume"
  /\ nruns' = nruns + 1
  /\ Goto(t, "act")
  /\ UNCHANGED <<queues, ntasks, sems, locals>>

-----------------------------------------------------------------------------
(* cx_sched_run, called by the owner. *)

RunPost ==
  /\ pc[Main] = "idle"
  /\ runs < MaxRuns
  /\ runs' = runs + 1
  /\ run' = run + 1
  /\ Goto(Main, "loop")
  /\ UNCHANGED <<queues, counters, done, ret, prevTasks, prevRuns, victim, resched>>

RunLoop ==
  /\ pc[Main] = "loop"
  /\ Goto(Main, IF ntasks = 0 THEN "sweep" ELSE "wait")
  /\ UNCHANGED <<queues, counters, sems, locals>>

RunWaitDone ==
  /\ pc[Main] = "wait"
  /\ done > 0
  /\ done' = done - 1
  /\ Goto(Main, "recheck")
  /\ UNCHANGED <<queues, counters, run, locals>>

(* Mutant: the first finished task ends the loop. *)
RunRecheckStops ==
  /\ pc[Main] = "recheck"
  /\ Goto(Main, "sweep")
  /\ UNCHANGED <<queues, counters, sems, locals>>

RunRecheck ==
  /\ pc[Main] = "recheck"
  /\ Goto(Main, IF ntasks = 0 THEN "sweep" ELSE "reap")
  /\ UNCHANGED <<queues, counters, sems, locals>>

(* Mutant: the task to join is taken from ready_q. *)
RunReapReady ==
  /\ pc[Main] = "reap"
  /\ readyQ # <<>>
  /\ victim' = Head(readyQ)
  /\ readyQ' = Tail(readyQ)
  /\ Goto(Main, "join")
  /\ UNCHANGED <<newQ, doneQ, counters, sems, ret, prevTasks, prevRuns, resched, runs>>

(* q_lock is taken and the first task of done_q unlinked.  When done_q is  *)
(* empty, cx_baseof makes a task of the list head itself: undefined.       *)
RunReap ==
  /\ pc[Main] = "reap"
  /\ IF doneQ = <<>>
       THEN Goto(Main, "ub") /\ UNCHANGED <<doneQ, victim>>
       ELSE /\ victim' = Head(doneQ)
            /\ doneQ' = Tail(doneQ)
            /\ Goto(Main, "join")
  /\ UNCHANGED <<newQ, readyQ, counters, sems, ret, prevTasks, prevRuns, resched, runs>>

(* cx_task_free joins the thread; q_lock is held until it has exited. *)
RunJoin ==
  /\ pc[Main] = "join"
  /\ pc[victim] = "exited"
  /\ pc' = [pc EXCEPT ![Main] = "loop", ![victim] = "freed"]
  /\ victim' = Main
  /\ UNCHANGED <<queues, counters, sems, ret, prevTasks, prevRuns, resched, runs>>

(* Mutant: nothing is freed after the loop. *)
RunNoSweep ==
  /\ pc[Main] = "sweep"
  /\ Goto(Main, "last")
  /\ UNCHANGED <<queues, counters, sems, locals>>

(* After the loop, what is left of done_q is freed without the lock. *)
RunSweep ==
  /\ pc[Main] = "sweep"
  /\ IF doneQ = <<>>
       THEN Goto(Main, "last") /\ UNCHANGED <<doneQ, victim>>
       ELSE /\ victim' = Head(doneQ)
            /\ doneQ' = Tail(doneQ)
            /\ Goto(Main, "sweepjoin")
  /\ UNCHANGED <<newQ, readyQ, counters, sems, ret, prevTasks, prevRuns, resched, runs>>

RunSweepJoin ==
  /\ pc[Main] = "sweepjoin"
  /\ pc[victim] = "exited"
  /\ pc' = [pc EXCEPT ![Main] = "sweep", ![victim] = "freed"]
  /\ victim' = Main
  /\ UNCHANGED <<queues, counters, sems, ret, prevTasks, prevRuns, resched, runs>>

RunTakeBack ==
  /\ pc[Main] = "last"
  /\ run > 0
  /\ run' = run - 1
  /\ Goto(Main, "idle")
  /\ UNCHANGED <<queues, counters, done, locals>>

-----------------------------------------------------------------------------
TaskStep(t) ==
  \/ StartCount(t) \/ StartMove(t) \/ StartRunNext(t) \/ StartWait(t)
  \/ StartEnter(t) \/ StartLeave(t) \/ StartDone(t) \/ StartUncount(t)
  \/ StartSignal(t)
  \/ RunNextLoad(t) \/ RunNextPost(t) \/ RunNextSpin(t) \/ RunNextTake(t)
  \/ Resched(t) \/ ReschedRunNext(t) \/ ReschedAlone(t) \/ ReschedResume(t)

PushStep(th) == PushRead(th) \/ PushLink(th) \/ PushGrow(th)

RunStep ==
  \/ RunLoop \/ RunWaitDone \/ RunRecheck \/ RunReap \/ RunJoin
  \/ RunSweep \/ RunSweepJoin \/ RunTakeBack

(* The owner's program may end between two calls. *)
Quit == pc[Main] \in {"idle", "ub"} /\ UNCHANGED vars

Next ==
  \/ \E t \in Tasks : TaskStep(t)
  \/ \E th \in Threads : PushStep(th)
  \/ RunPost \/ RunStep
  \/ Quit

Spec == Init /\ [][Next]_vars

(* The operating system runs every thread; whether the owner pushes or     *)
(* runs anything is up to its program.  A semaphore that stays positive    *)
(* wakes a waiter, one that is only sometimes positive owes it nothing.    *)
Fairness ==
  /\ \A t \in Tasks : WF_vars(TaskStep(t))
  /\ \A th \in Threads : WF_vars(PushLink(th) \/ PushGrow(th))
  /\ WF_vars(RunStep)

FairSpec == Spec /\ Fairness

-----------------------------------------------------------------------------
InRun == pc[Main] \in {"loop", "wait", "recheck", "reap", "join", "sweep",
                       "sweepjoin", "last", "ub"}

(* The tasks that have the interpreter: between taking and posting run. *)
Holding ==
  {t \in Tasks : \/ pc[t] \in {"enter", "act", "link", "grow", "resched", "resume"}
                 \/ pc[t] \in {"load", "post"} /\ ret[t] = "resume"}

(* The tasks that have posted a baton which they did not have. *)
Early == {t \in Tasks : pc[t] \in {"spin", "take"} /\ ret[t] = "check"}

(* The tasks between their increment and their decrement of ntasks. *)
Counted ==
  {t \in Tasks : pc[t] \notin {"none", "count", "signal", "exited", "freed"}}

(* No baton is lost or made: what is on the semaphore and in the hands of  *)
(* tasks was put there by cx_sched_run or by a task that starts and will   *)
(* take it back (run, in sched.c and task.c).                              *)
TokenConservation ==
  run + Cardinality(Holding) = Cardinality(Early) + (IF InRun THEN 1 ELSE 0)

(* ntasks is the number of threads inside their counted part. *)
TaskCount == ntasks = Cardinality(Counted)

(* The inductive invariant of SchedProofs. *)
IInv == TypeOK /\ TokenConservation /\ TaskCount

(* Cooperative concurrency: at any time at most one thread is evaluating   *)
(* code, the owner (outside of cx_sched_run) or one task.                  *)
Cooperative == Cardinality(Holding) + (IF InRun THEN 0 ELSE 1) <= 1

(* Once every pushed task is past the loop of on_start, evaluation is      *)
(* exclusive, in every interleaving of rescheds, ends and runs.            *)
CooperativeOnceStarted == Early = {} => Cooperative

(* cx_sched_run joins a thread while it holds q_lock: that thread must     *)
(* never need q_lock again, or both would wait for ever.                   *)
LockedJoinReturns ==
  pc[Main] \in {"join", "sweepjoin"} =>
    pc[victim] \in {"uncount", "signal", "exited"}

(* cx_sched_run does not return before every task pushed so far is joined. *)
RunJoinsAll ==
  pc[Main] = "last" => \A t \in Tasks : pc[t] \in {"none", "freed"}

(* Tasks first get to run in the order in which they were pushed. *)
InPushOrder ==
  \A t, u \in Tasks :
    t < u /\ pc[u] = "enter" => t \notin Starting /\ pc[t] # "ready"

(* A call of cx_sched_run returns to its owner, and never takes the head   *)
(* of done_q for a task ("ub", where it would stay).                       *)
RunReturns == pc[Main] = "loop" ~> pc[Main] = "idle"

(* The tasks that do not count any more. *)
Uncounted == {t \in Tasks : pc[t] \in {"signal", "exited", "freed"}}

(* A call of cx_sched_push returns unless a task ends after it has read    *)
(* ntasks: whoever else pushes, starts or spins meanwhile, its spin sees   *)
(* ntasks change.  A task that ends can bring ntasks back to the number    *)
(* that was read, and then nothing else need ever change it.               *)
PushReturns ==
  \A th \in Threads, n \in 0..NTasks :
    (pc[th] = "link" /\ ntasks = prevTasks[th] /\ Cardinality(Uncounted) = n)
      ~> (pc[th] \notin {"link", "grow"} \/ Cardinality(Uncounted) > n)

(* A task that calls resched gets to run again. *)
ReschedReturns == \A t \in Tasks : pc[t] = "resched" ~> pc[t] = "act"

(* The threads, semaphores and spins implement the passing of one baton.   *)
Gone == {t \in Tasks : pc[t] \in {"move", "uncount", "signal", "exited", "freed"}}
BatonFree == NTasks + 1
BatonWho == IF ~InRun THEN Main
            ELSE IF Holding = {} THEN BatonFree
            ELSE CHOOSE t \in Tasks : t \in Holding
Abstract == INSTANCE Baton WITH
  Owner <- Main,
  Free <- BatonFree,
  who <- BatonWho,
  live <- {t \in Tasks : pc[t] # "none"} \ Gone,
  gone <- Gone

(* The scheduler behaves as Baton says. *)
ImplementsBaton == Abstract!Spec
============================================================================
