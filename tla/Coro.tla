-------------------------------- MODULE Coro --------------------------------
(***************************************************************************)
(* Coroutines: src/cixl/coro.c, with the part of cont.c and lib/coro.c     *)
(* that keeps cx->coro.                                                    *)
(*                                                                         *)
(* A coroutine evaluates its action on a thread of its own.  Its caller    *)
(* spins until `state' is no longer RESUME; the coroutine waits on its     *)
(* semaphore on_call between calls.  Resetting, cancelling and freeing     *)
(* cancel the thread, wherever it is, and join it.                         *)
(*                                                                         *)
(* Main is the thread that owns the interpreter, and also stands for NULL  *)
(* as a value of cx->coro.  An evaluating thread may do anything the       *)
(* language lets a program do with coroutines; what its action computes is *)
(* left out.  Contexts other than cx->coro are the subject of Cont.        *)
(***************************************************************************)
EXTENDS Naturals, FiniteSets

CONSTANTS
  Coros,       \* the coroutines
  Main,        \* the main thread
  MaxCalls,    \* bound: the number of calls of coroutines
  MaxThreads,  \* how many threads the system can create at a time
  Disciplined  \* whether programs only reset, cancel and drop coroutines
               \* that are not being called and are not cancelled yet

ASSUME CoroAssumption ==
  /\ Main \notin Coros
  /\ MaxCalls \in Nat /\ MaxThreads \in Nat
  /\ Disciplined \in BOOLEAN

Threads == Coros \cup {Main}

VARIABLES
  state,      \* enum cx_coro_state; FREED when the last reference is gone
  onCall,     \* the semaphore on_call
  coro,       \* cx->coro
  prevCoro,   \* cont.prev_coro
  pc,         \* where each thread is
  target,     \* the coroutine that a thread calls, suspends or joins, or Main
  op,         \* what a thread joins its target for ("reset" otherwise)
  cancelReq,  \* whether pthread_cancel was called for the thread
  calls       \* how many calls were made

vars == <<state, onCall, coro, prevCoro, pc, target, op, cancelReq, calls>>

States == {"NEW", "SUSPEND", "RESUME", "DONE", "CANCEL", "FREED"}
Ops == {"reset", "cancel", "drop"}

TypeOK ==
  /\ state \in [Coros -> States]
  /\ onCall \in [Coros -> Nat]
  /\ coro \in Threads
  /\ prevCoro \in [Coros -> Threads]
  /\ pc \in [Threads -> {"none", "eval", "spin", "saved", "wait", "finished",
                         "join", "dead", "ub"}]
  /\ target \in [Threads -> Threads]
  /\ op \in [Threads -> Ops]
  /\ cancelReq \in [Coros -> BOOLEAN]
  /\ calls \in Nat

Init ==
  /\ state = [c \in Coros |-> "NEW"]
  /\ onCall = [c \in Coros |-> 0]
  /\ coro = Main
  /\ prevCoro = [c \in Coros |-> Main]
  /\ pc = [th \in Threads |-> IF th = Main THEN "eval" ELSE "none"]
  /\ target = [th \in Threads |-> Main]
  /\ op = [th \in Threads |-> "reset"]
  /\ cancelReq = [c \in Coros |-> FALSE]
  /\ calls = 0

-----------------------------------------------------------------------------
(* cx_coro_call *)

CanCreate == Cardinality({c \in Coros : pc[c] \notin {"none", "dead"}}) < MaxThreads

(* cx_cont_reset and the assignments after it: the caller is remembered. *)
Enter(th, c) ==
  /\ pc[th] = "eval"
  /\ calls < MaxCalls
  /\ calls' = calls + 1
  /\ prevCoro' = [prevCoro EXCEPT ![c] = coro]
  /\ coro' = c
  /\ state' = [state EXCEPT ![c] = "RESUME"]

CallNew(th, c) ==
  /\ state[c] = "NEW" /\ CanCreate
  /\ Enter(th, c)
  /\ pc' = [pc EXCEPT ![th] = "spin", ![c] = "eval"]
  /\ target' = [target EXCEPT ![th] = c]
  /\ UNCHANGED <<onCall, op, cancelReq>>

(* pthread_create fails: the caller goes on with an error, as c. *)
CallNoThread(th, c) ==
  /\ state[c] = "NEW" /\ ~CanCreate
  /\ Enter(th, c)
  /\ UNCHANGED <<onCall, pc, target, op, cancelReq>>

(* Mutant: the semaphore is posted twice. *)
CallPostsTwice(th, c) ==
  /\ state[c] = "SUSPEND"
  /\ Enter(th, c)
  /\ onCall' = [onCall EXCEPT ![c] = @ + 2]
  /\ pc' = [pc EXCEPT ![th] = "spin"]
  /\ target' = [target EXCEPT ![th] = c]
  /\ UNCHANGED <<op, cancelReq>>

(* Mutant: the semaphore is not posted. *)
CallNoPost(th, c) ==
  /\ state[c] = "SUSPEND"
  /\ Enter(th, c)
  /\ pc' = [pc EXCEPT ![th] = "spin"]
  /\ target' = [target EXCEPT ![th] = c]
  /\ UNCHANGED <<onCall, op, cancelReq>>

CallSuspended(th, c) ==
  /\ state[c] = "SUSPEND"
  /\ Enter(th, c)
  /\ onCall' = [onCall EXCEPT ![c] = @ + 1]
  /\ pc' = [pc EXCEPT ![th] = "spin"]
  /\ target' = [target EXCEPT ![th] = c]
  /\ UNCHANGED <<op, cancelReq>>

(* The caller sees that the coroutine has suspended or ended. *)
CallReturn(th) ==
  /\ pc[th] = "spin"
  /\ state[target[th]] # "RESUME"
  /\ pc' = [pc EXCEPT ![th] = "eval"]
  /\ target' = [target EXCEPT ![th] = Main]
  /\ UNCHANGED <<state, onCall, coro, prevCoro, op, cancelReq, calls>>

-----------------------------------------------------------------------------
(* suspend_imp and cx_coro_suspend: it is cx->coro that is suspended. *)

(* Mutant: the state is stored before the context is saved. *)
SuspendStoreFirst(th) ==
  /\ pc[th] = "eval"
  /\ coro # Main
  /\ target' = [target EXCEPT ![th] = coro]
  /\ coro' = prevCoro[coro]
  /\ pc' = [pc EXCEPT ![th] = "saved"]
  /\ state' = [state EXCEPT ![coro] = "SUSPEND"]
  /\ UNCHANGED <<onCall, prevCoro, op, cancelReq, calls>>

Suspend(th) ==
  /\ pc[th] = "eval"
  /\ coro # Main
  /\ target' = [target EXCEPT ![th] = coro]
  /\ coro' = prevCoro[coro]
  /\ pc' = [pc EXCEPT ![th] = "saved"]
  /\ UNCHANGED <<state, onCall, prevCoro, op, cancelReq, calls>>

SuspendStore(th) ==
  /\ pc[th] = "saved"
  /\ state' = [state EXCEPT ![target[th]] = "SUSPEND"]
  /\ pc' = [pc EXCEPT ![th] = "wait"]
  /\ UNCHANGED <<onCall, coro, prevCoro, target, op, cancelReq, calls>>

(* Mutant: the thread goes on without waiting. *)
SuspendNoWait(th) ==
  /\ pc[th] = "wait"
  /\ pc' = [pc EXCEPT ![th] = "eval"]
  /\ target' = [target EXCEPT ![th] = Main]
  /\ UNCHANGED <<state, onCall, coro, prevCoro, op, cancelReq, calls>>

SuspendWait(th) ==
  /\ pc[th] = "wait"
  /\ onCall[target[th]] > 0
  /\ onCall' = [onCall EXCEPT ![target[th]] = @ - 1]
  /\ pc' = [pc EXCEPT ![th] = "eval"]
  /\ target' = [target EXCEPT ![th] = Main]
  /\ UNCHANGED <<state, coro, prevCoro, op, cancelReq, calls>>

-----------------------------------------------------------------------------
(* on_start, once the action has returned: cx_cont_finish, then the state. *)

Finish(c) ==
  /\ pc[c] = "eval"
  /\ coro' = prevCoro[c]
  /\ pc' = [pc EXCEPT ![c] = "finished"]
  /\ UNCHANGED <<state, onCall, prevCoro, target, op, cancelReq, calls>>

FinishStore(c) ==
  /\ pc[c] = "finished"
  /\ state' = [state EXCEPT ![c] = "DONE"]
  /\ pc' = [pc EXCEPT ![c] = "dead"]
  /\ UNCHANGED <<onCall, coro, prevCoro, target, op, cancelReq, calls>>

(* A cancelled thread ends at its next cancellation point: sem_wait,       *)
(* pthread_join or a system call of its action; sched_yield is none.       *)
Die(c) ==
  /\ cancelReq[c]
  /\ pc[c] \in {"eval", "wait", "join"}
  /\ pc' = [pc EXCEPT ![c] = "dead"]
  /\ UNCHANGED <<state, onCall, coro, prevCoro, target, op, cancelReq, calls>>

-----------------------------------------------------------------------------
(* cx_coro_reset, cx_coro_cancel and cx_coro_deref. *)

(* A coroutine is referenced while a call of it is in progress. *)
Called(c) == \E th \in Threads : pc[th] = "spin" /\ target[th] = c

MayDispose(c) ==
  Disciplined => state[c] \notin {"RESUME", "CANCEL"} /\ ~Called(c)

(* There is no thread to wait for. *)
Settle(th, c, from, to) ==
  /\ pc[th] = "eval"
  /\ state[c] \in from
  /\ state' = [state EXCEPT ![c] = to]
  /\ UNCHANGED <<onCall, coro, prevCoro, pc, target, op, cancelReq, calls>>

(* Mutant: the thread is joined but never cancelled. *)
JoinNoCancel(th, c, what) ==
  /\ pc[th] = "eval"
  /\ target' = [target EXCEPT ![th] = c]
  /\ op' = [op EXCEPT ![th] = what]
  /\ pc' = [pc EXCEPT ![th] = IF pc[c] = "none" THEN "ub"
                              ELSE IF th = c THEN "eval" ELSE "join"]
  /\ UNCHANGED <<state, onCall, coro, prevCoro, cancelReq, calls>>

(* Cancels the thread unless it is done, and joins it.  To join oneself is *)
(* an error (EDEADLK); a thread that never was, or was joined already, is  *)
(* undefined behaviour.                                                    *)
Join(th, c, what) ==
  /\ pc[th] = "eval"
  /\ target' = [target EXCEPT ![th] = c]
  /\ op' = [op EXCEPT ![th] = what]
  /\ cancelReq' = [cancelReq EXCEPT ![c] = @ \/ (state[c] # "DONE" /\ pc[c] # "none")]
  /\ pc' = [pc EXCEPT ![th] = IF pc[c] = "none" THEN "ub"
                              ELSE IF th = c THEN "eval" ELSE "join"]
  /\ UNCHANGED <<state, onCall, coro, prevCoro, calls>>

Reset(th, c) ==
  /\ MayDispose(c)
  /\ state[c] \notin {"NEW", "FREED"}
  /\ Join(th, c, "reset")

Cancel(th, c) ==
  /\ MayDispose(c)
  /\ \/ Settle(th, c, {"NEW"}, "CANCEL")
     \/ state[c] \in {"SUSPEND", "RESUME", "DONE"} /\ Join(th, c, "cancel")

(* Mutant: freeing forgets the thread of a coroutine that is done. *)
DropNoJoin(th, c) ==
  /\ ~Called(c)
  /\ \/ Settle(th, c, {"NEW", "CANCEL", "DONE"}, "FREED")
     \/ state[c] \in {"SUSPEND", "RESUME"} /\ th # c /\ Join(th, c, "drop")

(* The last reference goes. *)
Drop(th, c) ==
  /\ ~Called(c)
  /\ \/ Settle(th, c, {"NEW", "CANCEL"}, "FREED")
     \/ state[c] \in {"SUSPEND", "RESUME", "DONE"} /\ th # c /\ Join(th, c, "drop")

AfterJoin == [reset |-> "NEW", cancel |-> "CANCEL", drop |-> "FREED"]

Joined(th) ==
  /\ pc[th] = "join"
  /\ pc[target[th]] = "dead"
  /\ pc' = [pc EXCEPT ![th] = "eval", ![target[th]] = "none"]
  /\ state' = [state EXCEPT ![target[th]] = AfterJoin[op[th]]]
  /\ cancelReq' = [cancelReq EXCEPT ![target[th]] = FALSE]
  /\ target' = [target EXCEPT ![th] = Main]
  /\ op' = [op EXCEPT ![th] = "reset"]
  /\ UNCHANGED <<onCall, coro, prevCoro, calls>>

-----------------------------------------------------------------------------
Dispose(th) == \E c \in Coros : Reset(th, c) \/ Cancel(th, c) \/ Drop(th, c)

Call(th) == \E c \in Coros : CallNew(th, c) \/ CallNoThread(th, c) \/ CallSuspended(th, c)

(* The steps that do not depend on what the program wants. *)
Step(th) ==
  \/ CallReturn(th) \/ SuspendStore(th) \/ SuspendWait(th) \/ Joined(th)

CoroStep(c) ==
  \/ Step(c) \/ Call(c) \/ Dispose(c) \/ Suspend(c)
  \/ Finish(c) \/ FinishStore(c) \/ Die(c)

(* The main program may end. *)
Quit == pc[Main] \in {"eval", "ub"} /\ UNCHANGED vars

Next ==
  \/ \E c \in Coros : CoroStep(c)
  \/ Step(Main) \/ Call(Main) \/ Dispose(Main) \/ Suspend(Main)
  \/ Quit

Spec == Init /\ [][Next]_vars

(* Every thread is scheduled, and the action of a coroutine gets somewhere: *)
(* it ends or suspends if it does nothing else.                             *)
Fairness == WF_vars(Step(Main)) /\ \A c \in Coros : WF_vars(CoroStep(c))

FairSpec == Spec /\ Fairness

-----------------------------------------------------------------------------
(* The threads that go on, or can as soon as they are scheduled. *)
Running ==
  {th \in Threads :
     \/ pc[th] \in {"eval", "saved", "finished", "join", "ub"}
     \/ pc[th] = "spin" /\ state[target[th]] # "RESUME"
     \/ pc[th] = "wait" /\ onCall[target[th]] > 0}

(* At most one thread uses the interpreter; the handoff leaves no moment   *)
(* in which two do, and none in which the caller still sees an old state.  *)
OneRuns == \A th, u \in Running : th = u

(* The turn is never lost: somebody goes on, or nobody ever would. *)
SomeoneRuns == Running # {}

(* cx->coro is the coroutine whose thread evaluates. *)
CurrentCoro == \A th \in Threads : pc[th] \in {"eval", "join"} => coro = th

(* Every thread is owned by a coroutine that will join it: none is leaked, *)
(* and none is joined twice.                                               *)
ThreadsOwned ==
  \A c \in Coros : pc[c] = "none" <=> state[c] \in {"NEW", "CANCEL", "FREED"}

(* A post of on_call is consumed by the thread that it was meant for: none *)
(* is left over for the thread that a reset coroutine gets.                *)
PostConsumed ==
  \A c \in Coros :
    onCall[c] > 0 => onCall[c] = 1 /\ state[c] = "RESUME" /\ pc[c] = "wait"

(* A coroutine call returns to its caller. *)
CallReturns == \A th \in Threads : pc[th] = "spin" ~> pc[th] # "spin"

(* Resetting, cancelling and freeing a coroutine does not block for ever.  *)
JoinReturns == \A th \in Threads : pc[th] = "join" ~> pc[th] # "join"

(* No thread is cancelled or joined that does not exist. *)
NoUndefined == \A th \in Threads : pc[th] # "ub"

(* What connects the threads, for the proofs in CoroProofs: an active      *)
(* coroutine has one caller, which spins for it and is its prev_coro; a    *)
(* suspended one waits on its own semaphore; only that one is joined alive.*)
Linked ==
  /\ \A c \in Coros :
       /\ state[c] = "RESUME" =>
            /\ pc[c] \notin {"none", "dead"} /\ ~cancelReq[c]
            /\ pc[prevCoro[c]] = "spin" /\ target[prevCoro[c]] = c
            /\ pc[c] = "wait" => onCall[c] = 1 /\ coro = c
       /\ state[c] = "SUSPEND" => pc[c] = "wait" \/ (pc[c] = "dead" /\ cancelReq[c])
       /\ state[c] = "DONE" => pc[c] = "dead"
       /\ cancelReq[c] =>
            state[c] = "SUSPEND" /\ \E th \in Threads : pc[th] = "join" /\ target[th] = c
       /\ pc[c] \in {"saved", "wait"} => target[c] = c
       /\ pc[c] \in {"saved", "finished"} => coro = prevCoro[c] /\ state[c] = "RESUME"
       /\ pc[c] \in {"eval", "spin", "join"} => state[c] = "RESUME"
  /\ \A th \in Threads :
       /\ pc[th] \in {"spin", "join"} => target[th] \in Coros
       /\ pc[th] = "spin" =>
            IF state[target[th]] = "RESUME" THEN prevCoro[target[th]] = th ELSE coro = th
       /\ pc[th] = "join" =>
            pc[target[th]] \in {"wait", "dead"} /\ state[target[th]] \in {"SUSPEND", "DONE"}
  /\ pc[Main] \in {"eval", "spin", "join"}

(* The inductive invariant of CoroProofs: the turn, the threads and posts, *)
(* and who waits for whom.                                                 *)
HandoffInv ==
  /\ TypeOK /\ OneRuns /\ SomeoneRuns
  /\ CurrentCoro /\ ThreadsOwned /\ PostConsumed /\ Linked

(* The threads, states and semaphores implement passing on the turn. *)
PhaseName == [NEW |-> "fresh", SUSPEND |-> "suspended", RESUME |-> "active",
              DONE |-> "done", CANCEL |-> "cancelled", FREED |-> "gone"]
PhaseOf == [c \in Coros |-> PhaseName[state[c]]]
Turn == CHOOSE th \in Threads : th \in Running
ResumerOf == [c \in Coros |-> IF state[c] = "RESUME" THEN prevCoro[c] ELSE Main]
Abstract == INSTANCE Handoff WITH turn <- Turn, resumer <- ResumerOf, phase <- PhaseOf

(* Every program's coroutines behave as Handoff says. *)
ImplementsHandoff == Abstract!Spec
=============================================================================
