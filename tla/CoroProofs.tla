----------------------------- MODULE CoroProofs -----------------------------
(***************************************************************************)
(* Proofs about Coro, for any finite set of coroutines and any number of   *)
(* calls, under the discipline that programs reset, cancel and drop only   *)
(* coroutines that are not being called.  The inductive invariant is       *)
(* HandoffInv; there is one lemma for each action.                         *)
(***************************************************************************)
EXTENDS Coro, FiniteSetTheorems, TLAPS

(* The system can always create one more thread for a new coroutine. *)
EnoughThreads == IsFiniteSet(Coros) /\ MaxThreads >= Cardinality(Coros)

(* A function that differs from another one in one place. *)
LEMMA ExceptEq ==
  ASSUME NEW S, NEW F, NEW G, F = [d \in S |-> F[d]], G = [d \in S |-> G[d]],
         NEW c, NEW v, \A d \in S : G[d] = IF d = c THEN v ELSE F[d]
  PROVE  G = [F EXCEPT ![c] = v]
OBVIOUS

(* The first call of a coroutine. *)
LEMMA CallNewInv ==
  ASSUME HandoffInv, NEW th \in Threads, NEW c \in Coros, CallNew(th, c)
  PROVE  HandoffInv' /\ Abstract!Resume(c)
<1> USE CoroAssumption DEF Threads, States, Ops
<1>a. TypeOK /\ OneRuns /\ SomeoneRuns /\ CurrentCoro /\ ThreadsOwned /\ PostConsumed /\ Linked
  BY DEF HandoffInv
<1>b. pc[th] = "eval" /\ state[c] = "NEW" /\ pc[c] = "none" /\ th # c /\ coro = th
  BY <1>a DEF CallNew, Enter, TypeOK, Linked, CurrentCoro, ThreadsOwned, PostConsumed, OneRuns, Running
<1>1. TypeOK'
  BY <1>a, <1>b DEF CallNew, Enter, TypeOK
<1>2. /\ pc'[th] = "spin" /\ pc'[c] = "eval" /\ \A u \in Threads : u # th /\ u # c => pc'[u] = pc[u]
      /\ state'[c] = "RESUME" /\ \A u \in Coros : u # c => state'[u] = state[u]
      /\ target'[th] = c /\ \A u \in Threads : u # th => target'[u] = target[u]
      /\ prevCoro'[c] = th /\ \A u \in Coros : u # c => prevCoro'[u] = prevCoro[u]
      /\ coro' = c /\ onCall' = onCall /\ cancelReq' = cancelReq
  BY <1>a, <1>b DEF CallNew, Enter, TypeOK
<1>c. th \in Running /\ \A u \in Running : u = th
  BY <1>a, <1>b DEF OneRuns, Running
<1>3. c \in Running' /\ OneRuns' /\ SomeoneRuns'
  <2>1. \A u \in Threads : u \in Running' => u = c
    BY <1>a, <1>b, <1>c, <1>2 DEF Running, PostConsumed, Linked
  <2>2. c \in Threads /\ c \in Running'
    BY <1>a, <1>b, <1>c, <1>2 DEF Running, Linked, TypeOK
  <2>3. QED
    BY <2>1, <2>2 DEF OneRuns, SomeoneRuns, Running
<1>4. CurrentCoro' /\ ThreadsOwned' /\ PostConsumed'
  BY <1>a, <1>b, <1>c, <1>2 DEF CurrentCoro, ThreadsOwned, PostConsumed, Running, Linked
<1>5. Linked'
  BY <1>a, <1>b, <1>c, <1>2 DEF Linked, Running, TypeOK, ThreadsOwned, PostConsumed
<1>6. HandoffInv'
  BY <1>1, <1>3, <1>4, <1>5 DEF HandoffInv
<1>7. Turn = th /\ Turn' = c
  BY <1>a, <1>c, <1>3 DEF Turn, OneRuns, Running
<1>8. ResumerOf' = [ResumerOf EXCEPT ![c] = th]
  <2>1. ResumerOf = [d \in Coros |-> ResumerOf[d]] /\ ResumerOf' = [d \in Coros |-> ResumerOf'[d]]
    BY DEF ResumerOf
  <2>2. \A d \in Coros : ResumerOf'[d] = IF d = c THEN th ELSE ResumerOf[d]
    BY <1>a, <1>b, <1>2 DEF ResumerOf, TypeOK
  <2>3. QED
    BY <1>b, <2>1, <2>2, ExceptEq
<1>9. PhaseOf[c] \in {"fresh", "suspended"} /\ PhaseOf' = [PhaseOf EXCEPT ![c] = "active"]
  <2>1. PhaseOf = [d \in Coros |-> PhaseOf[d]] /\ PhaseOf' = [d \in Coros |-> PhaseOf'[d]]
    BY DEF PhaseOf
  <2>2. \A d \in Coros : PhaseOf'[d] = IF d = c THEN "active" ELSE PhaseOf[d]
    BY <1>a, <1>b, <1>2 DEF PhaseOf, PhaseName, TypeOK
  <2>3. PhaseOf[c] \in {"fresh", "suspended"}
    BY <1>a, <1>b, <1>2 DEF PhaseOf, PhaseName, TypeOK, Linked
  <2>4. QED
    BY <1>b, <2>1, <2>2, <2>3, ExceptEq
<1>10. QED
  BY <1>a, <1>b, <1>6, <1>7, <1>8, <1>9 DEF Abstract!Resume

(* A call of a coroutine that has suspended. *)
LEMMA CallSuspendedInv ==
  ASSUME HandoffInv, NEW th \in Threads, NEW c \in Coros, CallSuspended(th, c)
  PROVE  HandoffInv' /\ Abstract!Resume(c)
<1> USE CoroAssumption DEF Threads, States, Ops
<1>a. TypeOK /\ OneRuns /\ SomeoneRuns /\ CurrentCoro /\ ThreadsOwned /\ PostConsumed /\ Linked
  BY DEF HandoffInv
<1>b. pc[th] = "eval" /\ state[c] = "SUSPEND" /\ ~cancelReq[c] /\ pc[c] = "wait" /\ onCall[c] = 0 /\ th # c /\ coro = th
  BY <1>a DEF CallSuspended, Enter, TypeOK, Linked, CurrentCoro, ThreadsOwned, PostConsumed, OneRuns, Running
<1>1. TypeOK'
  BY <1>a, <1>b DEF CallSuspended, Enter, TypeOK
<1>2. /\ pc'[th] = "spin" /\ \A u \in Threads : u # th => pc'[u] = pc[u]
      /\ state'[c] = "RESUME" /\ \A u \in Coros : u # c => state'[u] = state[u]
      /\ target'[th] = c /\ \A u \in Threads : u # th => target'[u] = target[u]
      /\ prevCoro'[c] = th /\ \A u \in Coros : u # c => prevCoro'[u] = prevCoro[u]
      /\ onCall'[c] = onCall[c] + 1 /\ \A u \in Coros : u # c => onCall'[u] = onCall[u]
      /\ coro' = c /\ cancelReq' = cancelReq
  BY <1>a, <1>b DEF CallSuspended, Enter, TypeOK
<1>c. th \in Running /\ \A u \in Running : u = th
  BY <1>a, <1>b DEF OneRuns, Running
<1>3. c \in Running' /\ OneRuns' /\ SomeoneRuns'
  <2>1. \A u \in Threads : u \in Running' => u = c
    BY <1>a, <1>b, <1>c, <1>2 DEF Running, PostConsumed, Linked
  <2>2. c \in Threads /\ c \in Running'
    BY <1>a, <1>b, <1>c, <1>2 DEF Running, Linked, TypeOK
  <2>3. QED
    BY <2>1, <2>2 DEF OneRuns, SomeoneRuns, Running
<1>4. CurrentCoro' /\ ThreadsOwned' /\ PostConsumed'
  BY <1>a, <1>b, <1>c, <1>2 DEF CurrentCoro, ThreadsOwned, PostConsumed, Running, Linked
<1>5. Linked'
  BY <1>a, <1>b, <1>c, <1>2 DEF Linked, Running, TypeOK, ThreadsOwned, PostConsumed
<1>6. HandoffInv'
  BY <1>1, <1>3, <1>4, <1>5 DEF HandoffInv
<1>7. Turn = th /\ Turn' = c
  BY <1>a, <1>c, <1>3 DEF Turn, OneRuns, Running
<1>8. ResumerOf' = [ResumerOf EXCEPT ![c] = th]
  <2>1. ResumerOf = [d \in Coros |-> ResumerOf[d]] /\ ResumerOf' = [d \in Coros |-> ResumerOf'[d]]
    BY DEF ResumerOf
  <2>2. \A d \in Coros : ResumerOf'[d] = IF d = c THEN th ELSE ResumerOf[d]
    BY <1>a, <1>b, <1>2 DEF ResumerOf, TypeOK
  <2>3. QED
    BY <1>b, <2>1, <2>2, ExceptEq
<1>9. PhaseOf[c] \in {"fresh", "suspended"} /\ PhaseOf' = [PhaseOf EXCEPT ![c] = "active"]
  <2>1. PhaseOf = [d \in Coros |-> PhaseOf[d]] /\ PhaseOf' = [d \in Coros |-> PhaseOf'[d]]
    BY DEF PhaseOf
  <2>2. \A d \in Coros : PhaseOf'[d] = IF d = c THEN "active" ELSE PhaseOf[d]
    BY <1>a, <1>b, <1>2 DEF PhaseOf, PhaseName, TypeOK
  <2>3. PhaseOf[c] \in {"fresh", "suspended"}
    BY <1>a, <1>b, <1>2 DEF PhaseOf, PhaseName, TypeOK, Linked
  <2>4. QED
    BY <1>b, <2>1, <2>2, <2>3, ExceptEq
<1>10. QED
  BY <1>a, <1>b, <1>6, <1>7, <1>8, <1>9 DEF Abstract!Resume

(* A caller sees that the call is over. *)
LEMMA CallReturnInv ==
  ASSUME HandoffInv, NEW th \in Threads, CallReturn(th)
  PROVE  HandoffInv' /\ UNCHANGED <<Turn, ResumerOf, PhaseOf>>
<1> USE CoroAssumption DEF Threads, States, Ops
<1>a. TypeOK /\ OneRuns /\ SomeoneRuns /\ CurrentCoro /\ ThreadsOwned /\ PostConsumed /\ Linked
  BY DEF HandoffInv
<1>b. pc[th] = "spin" /\ state[target[th]] # "RESUME" /\ coro = th /\ target[th] \in Coros
  BY <1>a DEF CallReturn, TypeOK, Linked, CurrentCoro, ThreadsOwned, PostConsumed, OneRuns, Running
<1>1. TypeOK'
  BY <1>a, <1>b DEF CallReturn, TypeOK
<1>2. /\ pc'[th] = "eval" /\ \A u \in Threads : u # th => pc'[u] = pc[u]
      /\ \A u \in Threads : u # th => target'[u] = target[u]
      /\ state' = state /\ onCall' = onCall /\ coro' = coro /\ prevCoro' = prevCoro /\ cancelReq' = cancelReq
  BY <1>a, <1>b DEF CallReturn, TypeOK
<1>c. th \in Running /\ \A u \in Running : u = th
  BY <1>a, <1>b DEF OneRuns, Running
<1>3. th \in Running' /\ OneRuns' /\ SomeoneRuns'
  <2>1. \A u \in Threads : u \in Running' => u = th
    BY <1>a, <1>b, <1>c, <1>2 DEF Running, PostConsumed, Linked
  <2>2. th \in Threads /\ th \in Running'
    BY <1>a, <1>b, <1>c, <1>2 DEF Running, Linked, TypeOK
  <2>3. QED
    BY <2>1, <2>2 DEF OneRuns, SomeoneRuns, Running
<1>4. CurrentCoro' /\ ThreadsOwned' /\ PostConsumed'
  BY <1>a, <1>b, <1>c, <1>2 DEF CurrentCoro, ThreadsOwned, PostConsumed, Running, Linked
<1>5. Linked'
  BY <1>a, <1>b, <1>c, <1>2 DEF Linked, Running, TypeOK, ThreadsOwned, PostConsumed
<1>6. HandoffInv'
  BY <1>1, <1>3, <1>4, <1>5 DEF HandoffInv
<1>7. Turn = th /\ Turn' = th
  BY <1>a, <1>c, <1>3 DEF Turn, OneRuns, Running
<1>8. ResumerOf' = ResumerOf
  BY <1>2 DEF ResumerOf
<1>9. PhaseOf' = PhaseOf
  BY <1>2 DEF PhaseOf, PhaseName
<1>10. QED
  BY <1>a, <1>b, <1>6, <1>7, <1>8, <1>9 DEF Turn

(* A coroutine suspends: its context is saved. *)
LEMMA SuspendInv ==
  ASSUME HandoffInv, NEW th \in Threads, Suspend(th)
  PROVE  HandoffInv' /\ UNCHANGED <<Turn, ResumerOf, PhaseOf>>
<1> USE CoroAssumption DEF Threads, States, Ops
<1>a. TypeOK /\ OneRuns /\ SomeoneRuns /\ CurrentCoro /\ ThreadsOwned /\ PostConsumed /\ Linked
  BY DEF HandoffInv
<1>b. pc[th] = "eval" /\ coro = th /\ th # Main /\ th \in Coros /\ state[th] = "RESUME"
  BY <1>a DEF Suspend, TypeOK, Linked, CurrentCoro, ThreadsOwned, PostConsumed, OneRuns, Running
<1>1. TypeOK'
  BY <1>a, <1>b DEF Suspend, TypeOK
<1>2. /\ pc'[th] = "saved" /\ \A u \in Threads : u # th => pc'[u] = pc[u]
      /\ target'[th] = th /\ \A u \in Threads : u # th => target'[u] = target[u]
      /\ coro' = prevCoro[th] /\ state' = state /\ onCall' = onCall /\ prevCoro' = prevCoro /\ cancelReq' = cancelReq
  BY <1>a, <1>b DEF Suspend, TypeOK
<1>c. th \in Running /\ \A u \in Running : u = th
  BY <1>a, <1>b DEF OneRuns, Running
<1>3. th \in Running' /\ OneRuns' /\ SomeoneRuns'
  <2>1. \A u \in Threads : u \in Running' => u = th
    BY <1>a, <1>b, <1>c, <1>2 DEF Running, PostConsumed, Linked
  <2>2. th \in Threads /\ th \in Running'
    BY <1>a, <1>b, <1>c, <1>2 DEF Running, Linked, TypeOK
  <2>3. QED
    BY <2>1, <2>2 DEF OneRuns, SomeoneRuns, Running
<1>4. CurrentCoro' /\ ThreadsOwned' /\ PostConsumed'
  BY <1>a, <1>b, <1>c, <1>2 DEF CurrentCoro, ThreadsOwned, PostConsumed, Running, Linked
<1>5. Linked'
  BY <1>a, <1>b, <1>c, <1>2 DEF Linked, Running, TypeOK, ThreadsOwned, PostConsumed
<1>6. HandoffInv'
  BY <1>1, <1>3, <1>4, <1>5 DEF HandoffInv
<1>7. Turn = th /\ Turn' = th
  BY <1>a, <1>c, <1>3 DEF Turn, OneRuns, Running
<1>8. ResumerOf' = ResumerOf
  BY <1>2 DEF ResumerOf
<1>9. PhaseOf' = PhaseOf
  BY <1>2 DEF PhaseOf, PhaseName
<1>10. QED
  BY <1>a, <1>b, <1>6, <1>7, <1>8, <1>9 DEF Turn

(* Its state is stored, which lets the caller go on. *)
LEMMA SuspendStoreInv ==
  ASSUME HandoffInv, NEW th \in Threads, SuspendStore(th)
  PROVE  HandoffInv' /\ Abstract!GiveBack(th, "suspended")
<1> USE CoroAssumption DEF Threads, States, Ops
<1>a. TypeOK /\ OneRuns /\ SomeoneRuns /\ CurrentCoro /\ ThreadsOwned /\ PostConsumed /\ Linked
  BY DEF HandoffInv
<1>b. pc[th] = "saved" /\ th \in Coros /\ target[th] = th /\ coro = prevCoro[th] /\ state[th] = "RESUME"
  BY <1>a DEF SuspendStore, TypeOK, Linked, CurrentCoro, ThreadsOwned, PostConsumed, OneRuns, Running
<1>1. TypeOK'
  BY <1>a, <1>b DEF SuspendStore, TypeOK
<1>2. /\ pc'[th] = "wait" /\ \A u \in Threads : u # th => pc'[u] = pc[u]
      /\ state'[th] = "SUSPEND" /\ \A u \in Coros : u # th => state'[u] = state[u]
      /\ onCall' = onCall /\ coro' = coro /\ prevCoro' = prevCoro /\ target' = target /\ cancelReq' = cancelReq
  BY <1>a, <1>b DEF SuspendStore, TypeOK
<1>c. th \in Running /\ \A u \in Running : u = th
  BY <1>a, <1>b DEF OneRuns, Running
<1>3. prevCoro[th] \in Running' /\ OneRuns' /\ SomeoneRuns'
  <2>1. \A u \in Threads : u \in Running' => u = prevCoro[th]
    BY <1>a, <1>b, <1>c, <1>2 DEF Running, PostConsumed, Linked
  <2>2. prevCoro[th] \in Threads /\ prevCoro[th] \in Running'
    BY <1>a, <1>b, <1>c, <1>2 DEF Running, Linked, TypeOK
  <2>3. QED
    BY <2>1, <2>2 DEF OneRuns, SomeoneRuns, Running
<1>4. CurrentCoro' /\ ThreadsOwned' /\ PostConsumed'
  BY <1>a, <1>b, <1>c, <1>2 DEF CurrentCoro, ThreadsOwned, PostConsumed, Running, Linked
<1>5. Linked'
  BY <1>a, <1>b, <1>c, <1>2 DEF Linked, Running, TypeOK, ThreadsOwned, PostConsumed
<1>6. HandoffInv'
  BY <1>1, <1>3, <1>4, <1>5 DEF HandoffInv
<1>7. Turn = th /\ Turn' = prevCoro[th]
  BY <1>a, <1>c, <1>3 DEF Turn, OneRuns, Running
<1>8. ResumerOf[th] = prevCoro[th] /\ ResumerOf' = [ResumerOf EXCEPT ![th] = Main]
  <2>1. ResumerOf = [d \in Coros |-> ResumerOf[d]] /\ ResumerOf' = [d \in Coros |-> ResumerOf'[d]]
    BY DEF ResumerOf
  <2>2. \A d \in Coros : ResumerOf'[d] = IF d = th THEN Main ELSE ResumerOf[d]
    BY <1>a, <1>b, <1>2 DEF ResumerOf, TypeOK
  <2>3. ResumerOf[th] = prevCoro[th]
    BY <1>a, <1>b, <1>2 DEF ResumerOf, TypeOK, Linked
  <2>4. QED
    BY <1>b, <2>1, <2>2, <2>3, ExceptEq
<1>9. PhaseOf' = [PhaseOf EXCEPT ![th] = "suspended"]
  <2>1. PhaseOf = [d \in Coros |-> PhaseOf[d]] /\ PhaseOf' = [d \in Coros |-> PhaseOf'[d]]
    BY DEF PhaseOf
  <2>2. \A d \in Coros : PhaseOf'[d] = IF d = th THEN "suspended" ELSE PhaseOf[d]
    BY <1>a, <1>b, <1>2 DEF PhaseOf, PhaseName, TypeOK
  <2>3. QED
    BY <1>b, <2>1, <2>2, ExceptEq
<1>10. QED
  BY <1>a, <1>b, <1>6, <1>7, <1>8, <1>9 DEF Abstract!GiveBack

(* It takes the post of its next call. *)
LEMMA SuspendWaitInv ==
  ASSUME HandoffInv, NEW th \in Threads, SuspendWait(th)
  PROVE  HandoffInv' /\ UNCHANGED <<Turn, ResumerOf, PhaseOf>>
<1> USE CoroAssumption DEF Threads, States, Ops
<1>a. TypeOK /\ OneRuns /\ SomeoneRuns /\ CurrentCoro /\ ThreadsOwned /\ PostConsumed /\ Linked
  BY DEF HandoffInv
<1>b. pc[th] = "wait" /\ th \in Coros /\ target[th] = th /\ onCall[th] = 1 /\ state[th] = "RESUME" /\ coro = th
  BY <1>a DEF SuspendWait, TypeOK, Linked, CurrentCoro, ThreadsOwned, PostConsumed, OneRuns, Running
<1>1. TypeOK'
  BY <1>a, <1>b DEF SuspendWait, TypeOK
<1>2. /\ pc'[th] = "eval" /\ \A u \in Threads : u # th => pc'[u] = pc[u]
      /\ onCall'[th] = 0 /\ \A u \in Coros : u # th => onCall'[u] = onCall[u]
      /\ \A u \in Threads : u # th => target'[u] = target[u]
      /\ state' = state /\ coro' = coro /\ prevCoro' = prevCoro /\ cancelReq' = cancelReq
  BY <1>a, <1>b DEF SuspendWait, TypeOK
<1>c. th \in Running /\ \A u \in Running : u = th
  BY <1>a, <1>b DEF OneRuns, Running
<1>3. th \in Running' /\ OneRuns' /\ SomeoneRuns'
  <2>1. \A u \in Threads : u \in Running' => u = th
    BY <1>a, <1>b, <1>c, <1>2 DEF Running, PostConsumed, Linked
  <2>2. th \in Threads /\ th \in Running'
    BY <1>a, <1>b, <1>c, <1>2 DEF Running, Linked, TypeOK
  <2>3. QED
    BY <2>1, <2>2 DEF OneRuns, SomeoneRuns, Running
<1>4. CurrentCoro' /\ ThreadsOwned' /\ PostConsumed'
  BY <1>a, <1>b, <1>c, <1>2 DEF CurrentCoro, ThreadsOwned, PostConsumed, Running, Linked
<1>5. Linked'
  BY <1>a, <1>b, <1>c, <1>2 DEF Linked, Running, TypeOK, ThreadsOwned, PostConsumed
<1>6. HandoffInv'
  BY <1>1, <1>3, <1>4, <1>5 DEF HandoffInv
<1>7. Turn = th /\ Turn' = th
  BY <1>a, <1>c, <1>3 DEF Turn, OneRuns, Running
<1>8. ResumerOf' = ResumerOf
  BY <1>2 DEF ResumerOf
<1>9. PhaseOf' = PhaseOf
  BY <1>2 DEF PhaseOf, PhaseName
<1>10. QED
  BY <1>a, <1>b, <1>6, <1>7, <1>8, <1>9 DEF Turn

(* The action of a coroutine returns. *)
LEMMA FinishInv ==
  ASSUME HandoffInv, NEW th \in Coros, Finish(th)
  PROVE  HandoffInv' /\ UNCHANGED <<Turn, ResumerOf, PhaseOf>>
<1> USE CoroAssumption DEF Threads, States, Ops
<1>a. TypeOK /\ OneRuns /\ SomeoneRuns /\ CurrentCoro /\ ThreadsOwned /\ PostConsumed /\ Linked
  BY DEF HandoffInv
<1>b. pc[th] = "eval" /\ coro = th /\ state[th] = "RESUME"
  BY <1>a DEF Finish, TypeOK, Linked, CurrentCoro, ThreadsOwned, PostConsumed, OneRuns, Running
<1>1. TypeOK'
  BY <1>a, <1>b DEF Finish, TypeOK
<1>2. /\ pc'[th] = "finished" /\ \A u \in Threads : u # th => pc'[u] = pc[u]
      /\ coro' = prevCoro[th] /\ state' = state /\ onCall' = onCall /\ prevCoro' = prevCoro /\ target' = target /\ cancelReq' = cancelReq
  BY <1>a, <1>b DEF Finish, TypeOK
<1>c. th \in Running /\ \A u \in Running : u = th
  BY <1>a, <1>b DEF OneRuns, Running
<1>3. th \in Running' /\ OneRuns' /\ SomeoneRuns'
  <2>1. \A u \in Threads : u \in Running' => u = th
    BY <1>a, <1>b, <1>c, <1>2 DEF Running, PostConsumed, Linked
  <2>2. th \in Threads /\ th \in Running'
    BY <1>a, <1>b, <1>c, <1>2 DEF Running, Linked, TypeOK
  <2>3. QED
    BY <2>1, <2>2 DEF OneRuns, SomeoneRuns, Running
<1>4. CurrentCoro' /\ ThreadsOwned' /\ PostConsumed'
  BY <1>a, <1>b, <1>c, <1>2 DEF CurrentCoro, ThreadsOwned, PostConsumed, Running, Linked
<1>5. Linked'
  BY <1>a, <1>b, <1>c, <1>2 DEF Linked, Running, TypeOK, ThreadsOwned, PostConsumed
<1>6. HandoffInv'
  BY <1>1, <1>3, <1>4, <1>5 DEF HandoffInv
<1>7. Turn = th /\ Turn' = th
  BY <1>a, <1>c, <1>3 DEF Turn, OneRuns, Running
<1>8. ResumerOf' = ResumerOf
  BY <1>2 DEF ResumerOf
<1>9. PhaseOf' = PhaseOf
  BY <1>2 DEF PhaseOf, PhaseName
<1>10. QED
  BY <1>a, <1>b, <1>6, <1>7, <1>8, <1>9 DEF Turn

(* Its last store, which lets the caller go on. *)
LEMMA FinishStoreInv ==
  ASSUME HandoffInv, NEW th \in Coros, FinishStore(th)
  PROVE  HandoffInv' /\ Abstract!GiveBack(th, "done")
<1> USE CoroAssumption DEF Threads, States, Ops
<1>a. TypeOK /\ OneRuns /\ SomeoneRuns /\ CurrentCoro /\ ThreadsOwned /\ PostConsumed /\ Linked
  BY DEF HandoffInv
<1>b. pc[th] = "finished" /\ coro = prevCoro[th] /\ state[th] = "RESUME"
  BY <1>a DEF FinishStore, TypeOK, Linked, CurrentCoro, ThreadsOwned, PostConsumed, OneRuns, Running
<1>1. TypeOK'
  BY <1>a, <1>b DEF FinishStore, TypeOK
<1>2. /\ pc'[th] = "dead" /\ \A u \in Threads : u # th => pc'[u] = pc[u]
      /\ state'[th] = "DONE" /\ \A u \in Coros : u # th => state'[u] = state[u]
      /\ onCall' = onCall /\ coro' = coro /\ prevCoro' = prevCoro /\ target' = target /\ cancelReq' = cancelReq
  BY <1>a, <1>b DEF FinishStore, TypeOK
<1>c. th \in Running /\ \A u \in Running : u = th
  BY <1>a, <1>b DEF OneRuns, Running
<1>3. prevCoro[th] \in Running' /\ OneRuns' /\ SomeoneRuns'
  <2>1. \A u \in Threads : u \in Running' => u = prevCoro[th]
    BY <1>a, <1>b, <1>c, <1>2 DEF Running, PostConsumed, Linked
  <2>2. prevCoro[th] \in Threads /\ prevCoro[th] \in Running'
    BY <1>a, <1>b, <1>c, <1>2 DEF Running, Linked, TypeOK
  <2>3. QED
    BY <2>1, <2>2 DEF OneRuns, SomeoneRuns, Running
<1>4. CurrentCoro' /\ ThreadsOwned' /\ PostConsumed'
  BY <1>a, <1>b, <1>c, <1>2 DEF CurrentCoro, ThreadsOwned, PostConsumed, Running, Linked
<1>5. Linked'
  BY <1>a, <1>b, <1>c, <1>2 DEF Linked, Running, TypeOK, ThreadsOwned, PostConsumed
<1>6. HandoffInv'
  BY <1>1, <1>3, <1>4, <1>5 DEF HandoffInv
<1>7. Turn = th /\ Turn' = prevCoro[th]
  BY <1>a, <1>c, <1>3 DEF Turn, OneRuns, Running
<1>8. ResumerOf[th] = prevCoro[th] /\ ResumerOf' = [ResumerOf EXCEPT ![th] = Main]
  <2>1. ResumerOf = [d \in Coros |-> ResumerOf[d]] /\ ResumerOf' = [d \in Coros |-> ResumerOf'[d]]
    BY DEF ResumerOf
  <2>2. \A d \in Coros : ResumerOf'[d] = IF d = th THEN Main ELSE ResumerOf[d]
    BY <1>a, <1>b, <1>2 DEF ResumerOf, TypeOK
  <2>3. ResumerOf[th] = prevCoro[th]
    BY <1>a, <1>b, <1>2 DEF ResumerOf, TypeOK, Linked
  <2>4. QED
    BY <1>b, <2>1, <2>2, <2>3, ExceptEq
<1>9. PhaseOf' = [PhaseOf EXCEPT ![th] = "done"]
  <2>1. PhaseOf = [d \in Coros |-> PhaseOf[d]] /\ PhaseOf' = [d \in Coros |-> PhaseOf'[d]]
    BY DEF PhaseOf
  <2>2. \A d \in Coros : PhaseOf'[d] = IF d = th THEN "done" ELSE PhaseOf[d]
    BY <1>a, <1>b, <1>2 DEF PhaseOf, PhaseName, TypeOK
  <2>3. QED
    BY <1>b, <2>1, <2>2, ExceptEq
<1>10. QED
  BY <1>a, <1>b, <1>6, <1>7, <1>8, <1>9 DEF Abstract!GiveBack

(* A cancelled thread ends. *)
LEMMA DieInv ==
  ASSUME HandoffInv, NEW th \in Threads, NEW c \in Coros, Die(c), pc[th] = "join", target[th] = c
  PROVE  HandoffInv' /\ UNCHANGED <<Turn, ResumerOf, PhaseOf>>
<1> USE CoroAssumption DEF Threads, States, Ops
<1>a. TypeOK /\ OneRuns /\ SomeoneRuns /\ CurrentCoro /\ ThreadsOwned /\ PostConsumed /\ Linked
  BY DEF HandoffInv
<1>b. cancelReq[c] /\ pc[c] = "wait" /\ state[c] = "SUSPEND" /\ th # c
  BY <1>a DEF Die, TypeOK, Linked, CurrentCoro, ThreadsOwned, PostConsumed, OneRuns, Running
<1>1. TypeOK'
  BY <1>a, <1>b DEF Die, TypeOK
<1>2. /\ pc'[c] = "dead" /\ \A u \in Threads : u # c => pc'[u] = pc[u]
      /\ state' = state /\ onCall' = onCall /\ coro' = coro /\ prevCoro' = prevCoro /\ target' = target /\ cancelReq' = cancelReq
  BY <1>a, <1>b DEF Die, TypeOK
<1>c. th \in Running /\ \A u \in Running : u = th
  BY <1>a, <1>b DEF OneRuns, Running
<1>3. th \in Running' /\ OneRuns' /\ SomeoneRuns'
  <2>1. \A u \in Threads : u \in Running' => u = th
    BY <1>a, <1>b, <1>c, <1>2 DEF Running, PostConsumed, Linked
  <2>2. th \in Threads /\ th \in Running'
    BY <1>a, <1>b, <1>c, <1>2 DEF Running, Linked, TypeOK
  <2>3. QED
    BY <2>1, <2>2 DEF OneRuns, SomeoneRuns, Running
<1>4. CurrentCoro' /\ ThreadsOwned' /\ PostConsumed'
  BY <1>a, <1>b, <1>c, <1>2 DEF CurrentCoro, ThreadsOwned, PostConsumed, Running, Linked
<1>5. Linked'
  BY <1>a, <1>b, <1>c, <1>2 DEF Linked, Running, TypeOK, ThreadsOwned, PostConsumed
<1>6. HandoffInv'
  BY <1>1, <1>3, <1>4, <1>5 DEF HandoffInv
<1>7. Turn = th /\ Turn' = th
  BY <1>a, <1>c, <1>3 DEF Turn, OneRuns, Running
<1>8. ResumerOf' = ResumerOf
  BY <1>2 DEF ResumerOf
<1>9. PhaseOf' = PhaseOf
  BY <1>2 DEF PhaseOf, PhaseName
<1>10. QED
  BY <1>a, <1>b, <1>6, <1>7, <1>8, <1>9 DEF Turn

(* The thread of a coroutine is cancelled and joined. *)
LEMMA JoinInv ==
  ASSUME HandoffInv, NEW th \in Threads, NEW c \in Coros, NEW what \in Ops,
         state[c] \in {"SUSPEND", "DONE"}, Join(th, c, what)
  PROVE  HandoffInv' /\ UNCHANGED <<Turn, ResumerOf, PhaseOf>>
<1> USE CoroAssumption DEF Threads, States, Ops
<1>a. TypeOK /\ OneRuns /\ SomeoneRuns /\ CurrentCoro /\ ThreadsOwned /\ PostConsumed /\ Linked
  BY DEF HandoffInv
<1>b. pc[th] = "eval" /\ coro = th /\ th # c /\ pc[c] \in {"wait", "dead"} /\ ~cancelReq[c]
  BY <1>a DEF Join, TypeOK, Linked, CurrentCoro, ThreadsOwned, PostConsumed, OneRuns, Running
<1>1. TypeOK'
  BY <1>a, <1>b DEF Join, TypeOK
<1>2. /\ pc'[th] = "join" /\ \A u \in Threads : u # th => pc'[u] = pc[u]
      /\ target'[th] = c /\ \A u \in Threads : u # th => target'[u] = target[u]
      /\ (cancelReq'[c] <=> state[c] = "SUSPEND") /\ \A u \in Coros : u # c => cancelReq'[u] = cancelReq[u]
      /\ state' = state /\ onCall' = onCall /\ coro' = coro /\ prevCoro' = prevCoro
  BY <1>a, <1>b DEF Join, TypeOK
<1>c. th \in Running /\ \A u \in Running : u = th
  BY <1>a, <1>b DEF OneRuns, Running
<1>3. th \in Running' /\ OneRuns' /\ SomeoneRuns'
  <2>1. \A u \in Threads : u \in Running' => u = th
    BY <1>a, <1>b, <1>c, <1>2 DEF Running, PostConsumed, Linked
  <2>2. th \in Threads /\ th \in Running'
    BY <1>a, <1>b, <1>c, <1>2 DEF Running, Linked, TypeOK
  <2>3. QED
    BY <2>1, <2>2 DEF OneRuns, SomeoneRuns, Running
<1>4. CurrentCoro' /\ ThreadsOwned' /\ PostConsumed'
  BY <1>a, <1>b, <1>c, <1>2 DEF CurrentCoro, ThreadsOwned, PostConsumed, Running, Linked
<1>5. Linked'
  BY <1>a, <1>b, <1>c, <1>2 DEF Linked, Running, TypeOK, ThreadsOwned, PostConsumed
<1>6. HandoffInv'
  BY <1>1, <1>3, <1>4, <1>5 DEF HandoffInv
<1>7. Turn = th /\ Turn' = th
  BY <1>a, <1>c, <1>3 DEF Turn, OneRuns, Running
<1>8. ResumerOf' = ResumerOf
  BY <1>2 DEF ResumerOf
<1>9. PhaseOf' = PhaseOf
  BY <1>2 DEF PhaseOf, PhaseName
<1>10. QED
  BY <1>a, <1>b, <1>6, <1>7, <1>8, <1>9 DEF Turn

(* There is no thread to join. *)
LEMMA SettleInv ==
  ASSUME HandoffInv, NEW th \in Threads, NEW c \in Coros, NEW to \in {"CANCEL", "FREED"},
         to = "CANCEL" => state[c] = "NEW", Settle(th, c, {"NEW", "CANCEL"}, to)
  PROVE  HandoffInv' /\ (Abstract!Cancel(c) \/ Abstract!Drop(c))
<1> USE CoroAssumption DEF Threads, States, Ops
<1>a. TypeOK /\ OneRuns /\ SomeoneRuns /\ CurrentCoro /\ ThreadsOwned /\ PostConsumed /\ Linked
  BY DEF HandoffInv
<1>b. pc[th] = "eval" /\ coro = th /\ th # c /\ pc[c] = "none" /\ state[c] \in {"NEW", "CANCEL"}
  BY <1>a DEF Settle, TypeOK, Linked, CurrentCoro, ThreadsOwned, PostConsumed, OneRuns, Running
<1>1. TypeOK'
  BY <1>a, <1>b DEF Settle, TypeOK
<1>2. /\ state'[c] = to /\ \A u \in Coros : u # c => state'[u] = state[u]
      /\ pc' = pc /\ onCall' = onCall /\ coro' = coro /\ prevCoro' = prevCoro /\ target' = target /\ cancelReq' = cancelReq
  BY <1>a, <1>b DEF Settle, TypeOK
<1>c. th \in Running /\ \A u \in Running : u = th
  BY <1>a, <1>b DEF OneRuns, Running
<1>3. th \in Running' /\ OneRuns' /\ SomeoneRuns'
  <2>1. \A u \in Threads : u \in Running' => u = th
    BY <1>a, <1>b, <1>c, <1>2 DEF Running, PostConsumed, Linked
  <2>2. th \in Threads /\ th \in Running'
    BY <1>a, <1>b, <1>c, <1>2 DEF Running, Linked, TypeOK
  <2>3. QED
    BY <2>1, <2>2 DEF OneRuns, SomeoneRuns, Running
<1>4. CurrentCoro' /\ ThreadsOwned' /\ PostConsumed'
  BY <1>a, <1>b, <1>c, <1>2 DEF CurrentCoro, ThreadsOwned, PostConsumed, Running, Linked
<1>5. Linked'
  BY <1>a, <1>b, <1>c, <1>2 DEF Linked, Running, TypeOK, ThreadsOwned, PostConsumed
<1>6. HandoffInv'
  BY <1>1, <1>3, <1>4, <1>5 DEF HandoffInv
<1>7. Turn = th /\ Turn' = th
  BY <1>a, <1>c, <1>3 DEF Turn, OneRuns, Running
<1>8. ResumerOf' = ResumerOf
  <2>1. \A d \in Coros : state'[d] = "RESUME" <=> state[d] = "RESUME"
    BY <1>b, <1>2
  <2>2. QED
    BY <1>2, <2>1 DEF ResumerOf
<1>9. PhaseOf[c] \in {"fresh", "cancelled"} /\ (to = "CANCEL" => PhaseOf[c] = "fresh") /\ PhaseOf' = [PhaseOf EXCEPT ![c] = PhaseName[to]]
  <2>1. PhaseOf = [d \in Coros |-> PhaseOf[d]] /\ PhaseOf' = [d \in Coros |-> PhaseOf'[d]]
    BY DEF PhaseOf
  <2>2. \A d \in Coros : PhaseOf'[d] = IF d = c THEN PhaseName[to] ELSE PhaseOf[d]
    BY <1>a, <1>b, <1>2 DEF PhaseOf, PhaseName, TypeOK
  <2>3. PhaseOf[c] \in {"fresh", "cancelled"} /\ (to = "CANCEL" => PhaseOf[c] = "fresh")
    BY <1>a, <1>b, <1>2 DEF PhaseOf, PhaseName, TypeOK, Linked
  <2>4. QED
    BY <1>b, <2>1, <2>2, <2>3, ExceptEq
<1>10. CASE to = "CANCEL"
  <2>1. PhaseName[to] = "cancelled"
    BY <1>10 DEF PhaseName
  <2>2. Abstract!Cancel(c)
    BY <2>1, <1>7, <1>8, <1>9, <1>10 DEF Abstract!Cancel, Abstract!Settle
  <2>3. QED
    BY <1>6, <2>2
<1>11. CASE to = "FREED"
  <2>1. PhaseName[to] = "gone"
    BY <1>11 DEF PhaseName
  <2>2. Abstract!Drop(c)
    BY <2>1, <1>7, <1>8, <1>9 DEF Abstract!Drop, Abstract!Settle
  <2>3. QED
    BY <1>6, <2>2
<1>12. QED
  BY <1>10, <1>11

(* The thread was joined. *)
LEMMA JoinedInv ==
  ASSUME HandoffInv, NEW th \in Threads, Joined(th)
  PROVE  HandoffInv' /\ (\E c \in Coros : Abstract!Restart(c) \/ Abstract!Cancel(c) \/ Abstract!Drop(c))
<1> USE CoroAssumption DEF Threads, States, Ops
<1>a. TypeOK /\ OneRuns /\ SomeoneRuns /\ CurrentCoro /\ ThreadsOwned /\ PostConsumed /\ Linked
  BY DEF HandoffInv
<1>b. /\ pc[th] = "join" /\ coro = th /\ target[th] # th /\ target[th] \in Coros
      /\ pc[target[th]] = "dead" /\ state[target[th]] \in {"SUSPEND", "DONE"}
      /\ op[th] \in {"reset", "cancel", "drop"}
  BY <1>a DEF Joined, AfterJoin, TypeOK, Linked, CurrentCoro, ThreadsOwned, PostConsumed, OneRuns, Running
<1>1. TypeOK'
  BY <1>a, <1>b DEF Joined, AfterJoin, TypeOK
<1>2. /\ pc'[th] = "eval" /\ pc'[target[th]] = "none"
      /\ \A u \in Threads : u # th /\ u # target[th] => pc'[u] = pc[u]
      /\ state'[target[th]] \in {"NEW", "CANCEL", "FREED"}
      /\ \A u \in Coros : u # target[th] => state'[u] = state[u]
      /\ cancelReq'[target[th]] = FALSE
      /\ \A u \in Coros : u # target[th] => cancelReq'[u] = cancelReq[u]
      /\ \A u \in Threads : u # th => target'[u] = target[u]
      /\ onCall' = onCall /\ coro' = coro /\ prevCoro' = prevCoro
  BY <1>a, <1>b DEF Joined, AfterJoin, TypeOK
<1>c. th \in Running /\ \A u \in Running : u = th
  BY <1>a, <1>b DEF OneRuns, Running
<1>3. th \in Running' /\ OneRuns' /\ SomeoneRuns'
  <2>1. \A u \in Threads : u \in Running' => u = th
    BY <1>a, <1>b, <1>c, <1>2 DEF Running, PostConsumed, Linked
  <2>2. th \in Threads /\ th \in Running'
    BY <1>a, <1>b, <1>c, <1>2 DEF Running, Linked, TypeOK
  <2>3. QED
    BY <2>1, <2>2 DEF OneRuns, SomeoneRuns, Running
<1>4. CurrentCoro' /\ ThreadsOwned' /\ PostConsumed'
  BY <1>a, <1>b, <1>c, <1>2 DEF CurrentCoro, ThreadsOwned, PostConsumed, Running, Linked
<1>5. Linked'
  BY <1>a, <1>b, <1>c, <1>2 DEF Linked, Running, TypeOK, ThreadsOwned, PostConsumed
<1>6. HandoffInv'
  BY <1>1, <1>3, <1>4, <1>5 DEF HandoffInv
<1>7. Turn = th /\ Turn' = th
  BY <1>a, <1>c, <1>3 DEF Turn, OneRuns, Running
<1>8. ResumerOf' = ResumerOf
  <2>1. \A d \in Coros : state'[d] = "RESUME" <=> state[d] = "RESUME"
    BY <1>b, <1>2
  <2>2. QED
    BY <1>2, <2>1 DEF ResumerOf
<1>9. PhaseOf[target[th]] \in {"suspended", "done"} /\ PhaseOf' = [PhaseOf EXCEPT ![target[th]] = PhaseName[state'[target[th]]]]
  <2>1. PhaseOf = [d \in Coros |-> PhaseOf[d]] /\ PhaseOf' = [d \in Coros |-> PhaseOf'[d]]
    BY DEF PhaseOf
  <2>2. \A d \in Coros : PhaseOf'[d] = IF d = target[th] THEN PhaseName[state'[target[th]]] ELSE PhaseOf[d]
    BY <1>a, <1>b, <1>2 DEF PhaseOf, PhaseName, TypeOK
  <2>3. PhaseOf[target[th]] \in {"suspended", "done"}
    BY <1>a, <1>b, <1>2 DEF PhaseOf, PhaseName, TypeOK, Linked
  <2>4. QED
    BY <1>b, <2>1, <2>2, <2>3, ExceptEq
<1>10. PhaseName[state'[target[th]]] \in {"fresh", "cancelled", "gone"}
  BY <1>2 DEF PhaseName
<1>11. Abstract!Restart(target[th]) \/ Abstract!Cancel(target[th]) \/ Abstract!Drop(target[th])
  BY <1>7, <1>8, <1>9, <1>10 DEF Abstract!Restart, Abstract!Cancel, Abstract!Drop, Abstract!Settle
<1>12. QED
  BY <1>b, <1>6, <1>11

-----------------------------------------------------------------------------
(* Creating a thread cannot fail if every coroutine may have one. *)
LEMMA Creatable ==
  ASSUME EnoughThreads, NEW c \in Coros, pc[c] = "none"
  PROVE  CanCreate
<1> DEFINE Busy == {d \in Coros : pc[d] \notin {"none", "dead"}}
<1>1. Busy \subseteq Coros \ {c} /\ IsFiniteSet(Coros \ {c})
  BY FS_RemoveElement DEF EnoughThreads
<1>2. Cardinality(Busy) <= Cardinality(Coros \ {c})
  BY <1>1, FS_Subset
<1>3. Cardinality(Coros \ {c}) = Cardinality(Coros) - 1 /\ Cardinality(Coros) \in Nat
  BY FS_RemoveElement, FS_CardinalityType DEF EnoughThreads
<1>4. Cardinality(Busy) \in Nat
  BY <1>1, FS_Subset, FS_CardinalityType
<1>5. QED
  BY <1>2, <1>3, <1>4, CoroAssumption DEF EnoughThreads, CanCreate

(* The initial state, and what it maps to. *)
LEMMA InitInv == Init => HandoffInv /\ Abstract!Init
<1> SUFFICES ASSUME Init PROVE HandoffInv /\ Abstract!Init
  OBVIOUS
<1> USE CoroAssumption DEF Init, Threads
<1>1. TypeOK
  BY DEF TypeOK, States, Ops
<1>2. Main \in Running /\ \A u \in Running : u = Main
  BY DEF Running
<1>3. OneRuns /\ SomeoneRuns /\ CurrentCoro /\ ThreadsOwned /\ PostConsumed
  BY <1>2 DEF OneRuns, SomeoneRuns, CurrentCoro, ThreadsOwned, PostConsumed
<1>4. Linked
  BY DEF Linked
<1>5. Turn = Main
  BY <1>2 DEF Turn
<1>6. Abstract!Init
  BY <1>5 DEF Abstract!Init, PhaseOf, PhaseName, ResumerOf
<1>7. QED
  BY <1>1, <1>3, <1>4, <1>6 DEF HandoffInv

(* Every step keeps the invariant, and passes the turn on or does nothing  *)
(* that Handoff can see.                                                   *)
LEMMA NextInv ==
  ASSUME Disciplined, EnoughThreads, HandoffInv, [Next]_vars
  PROVE  HandoffInv' /\ [Abstract!Next]_(Abstract!vars)
<1> DEFINE Goal == HandoffInv' /\ (Abstract!Next \/ UNCHANGED <<Turn, ResumerOf, PhaseOf>>)
<1>a. ThreadsOwned /\ Linked /\ TypeOK
  BY DEF HandoffInv
<1>1. ASSUME NEW th \in Threads, Call(th) PROVE Goal
  <2>1. PICK c \in Coros : CallNew(th, c) \/ CallNoThread(th, c) \/ CallSuspended(th, c)
    BY <1>1 DEF Call
  <2>2. ~CallNoThread(th, c)
    BY <1>a, Creatable DEF CallNoThread, ThreadsOwned
  <2>3. QED
    BY <2>1, <2>2, CallNewInv, CallSuspendedInv DEF Abstract!Next
<1>2. ASSUME NEW th \in Threads, Dispose(th) PROVE Goal
  <2>1. PICK c \in Coros : Reset(th, c) \/ Cancel(th, c) \/ Drop(th, c)
    BY <1>2 DEF Dispose
  <2>2. state[c] = "RESUME" => Called(c)
    BY <1>a DEF Linked, Called, TypeOK
  <2>3. CASE \E what \in Ops : state[c] \in {"SUSPEND", "DONE"} /\ Join(th, c, what)
    BY <2>3, JoinInv
  <2>4. CASE /\ \E to \in {"CANCEL", "FREED"} :
                  (to = "CANCEL" => state[c] = "NEW") /\ Settle(th, c, {"NEW", "CANCEL"}, to)
    BY <2>4, SettleInv DEF Abstract!Next
  <2>5. CASE Reset(th, c)
    <3>1. state[c] \in {"SUSPEND", "DONE"}
      BY <1>a, <2>5 DEF Reset, MayDispose, TypeOK, States
    <3>2. QED
      BY <2>5, <3>1, <2>3 DEF Reset, Ops
  <2>6. CASE Cancel(th, c)
    <3>1. CASE Settle(th, c, {"NEW"}, "CANCEL")
      BY <3>1, <2>4 DEF Settle
    <3>2. CASE state[c] \in {"SUSPEND", "RESUME", "DONE"} /\ Join(th, c, "cancel")
      <4>1. state[c] \in {"SUSPEND", "DONE"}
        BY <1>a, <2>6, <3>2 DEF Cancel, MayDispose, TypeOK, States
      <4>2. "cancel" \in Ops
        BY DEF Ops
      <4>3. QED
        BY <3>2, <4>1, <4>2, <2>3
    <3>3. QED
      BY <2>6, <3>1, <3>2 DEF Cancel
  <2>7. CASE Drop(th, c)
    <3>1. CASE Settle(th, c, {"NEW", "CANCEL"}, "FREED")
      BY <3>1, <2>4
    <3>2. CASE state[c] \in {"SUSPEND", "RESUME", "DONE"} /\ Join(th, c, "drop")
      <4>1. state[c] \in {"SUSPEND", "DONE"}
        BY <2>2, <2>7, <3>2 DEF Drop
      <4>2. "drop" \in Ops
        BY DEF Ops
      <4>3. QED
        BY <3>2, <4>1, <4>2, <2>3
    <3>3. QED
      BY <2>7, <3>1, <3>2 DEF Drop
  <2>8. QED
    BY <2>1, <2>5, <2>6, <2>7
<1>3. ASSUME NEW th \in Threads, Step(th) PROVE Goal
  <2>1. SuspendStore(th) => th \in Coros
    BY <1>a DEF SuspendStore, Linked, Threads
  <2>2. QED
    BY <1>3, <2>1, CallReturnInv, SuspendStoreInv, SuspendWaitInv, JoinedInv
       DEF Step, Abstract!Next, Abstract!Suspend
<1>4. ASSUME NEW th \in Threads, Suspend(th) PROVE Goal
  BY <1>4, SuspendInv
<1>5. ASSUME NEW c \in Coros, Finish(c) \/ FinishStore(c) PROVE Goal
  BY <1>5, FinishInv, FinishStoreInv DEF Abstract!Next, Abstract!End
<1>6. ASSUME NEW c \in Coros, Die(c) PROVE Goal
  <2>1. PICK th \in Threads : pc[th] = "join" /\ target[th] = c
    BY <1>6, <1>a DEF Die, Linked
  <2>2. QED
    BY <1>6, <2>1, DieInv
<1>7. ASSUME UNCHANGED vars PROVE Goal
  <2>1. HandoffInv'
    BY <1>7 DEF vars, HandoffInv, TypeOK, OneRuns, SomeoneRuns, Running, CurrentCoro,
       ThreadsOwned, PostConsumed, Linked
  <2>2. UNCHANGED <<Turn, ResumerOf, PhaseOf>>
    BY <1>7 DEF vars, Turn, Running, ResumerOf, PhaseOf
  <2>3. QED
    BY <2>1, <2>2
<1>8. Goal
  <2>1. \A c \in Coros : c \in Threads
    BY DEF Threads
  <2>2. Main \in Threads
    BY DEF Threads
  <2>3. QED
    BY <2>1, <2>2, <1>1, <1>2, <1>3, <1>4, <1>5, <1>6, <1>7 DEF Next, CoroStep, Quit
<1>9. QED
  BY <1>8 DEF Abstract!vars

(* Exactly one thread goes on at any time: the interpreter is never shared *)
(* and the turn is never lost, in every interleaving of calls, suspensions *)
(* and disposals.                                                          *)
THEOREM OneTurn ==
  ASSUME Disciplined, EnoughThreads
  PROVE  Spec => [](OneRuns /\ SomeoneRuns)
<1>1. Init => HandoffInv
  BY InitInv
<1>2. HandoffInv /\ [Next]_vars => HandoffInv'
  BY NextInv
<1>3. HandoffInv => OneRuns /\ SomeoneRuns
  BY DEF HandoffInv
<1>4. QED
  BY <1>1, <1>2, <1>3, PTL DEF Spec

(* cx->coro is the coroutine whose thread evaluates, and no post of a      *)
(* semaphore is left over for the next thread of one that was reset.       *)
THEOREM NothingLeftOver ==
  ASSUME Disciplined, EnoughThreads
  PROVE  Spec => [](CurrentCoro /\ PostConsumed)
<1>1. Init => HandoffInv
  BY InitInv
<1>2. HandoffInv /\ [Next]_vars => HandoffInv'
  BY NextInv
<1>3. HandoffInv => CurrentCoro /\ PostConsumed
  BY DEF HandoffInv
<1>4. QED
  BY <1>1, <1>2, <1>3, PTL DEF Spec

(* A thread exists, running or ended, exactly while its coroutine is not   *)
(* new, cancelled or freed, which is when it has not been joined: none is  *)
(* leaked by a reset, a free or an end, and none joined twice.             *)
THEOREM ThreadsAccounted ==
  ASSUME Disciplined, EnoughThreads
  PROVE  Spec => []ThreadsOwned
<1>1. Init => HandoffInv
  BY InitInv
<1>2. HandoffInv /\ [Next]_vars => HandoffInv'
  BY NextInv
<1>3. HandoffInv => ThreadsOwned
  BY DEF HandoffInv
<1>4. QED
  BY <1>1, <1>2, <1>3, PTL DEF Spec

(* Only a join can be undefined, and a disciplined one never is: what may  *)
(* be reset, cancelled or freed still has its thread.                      *)
LEMMA NoUndefinedNext ==
  ASSUME Disciplined, HandoffInv, NoUndefined, [Next]_vars
  PROVE  NoUndefined'
<1>a. TypeOK /\ ThreadsOwned /\ Linked
  BY DEF HandoffInv
<1>1. ASSUME NEW th \in Threads, NEW c \in Coros, NEW what \in Ops, Join(th, c, what),
             state[c] \in {"SUSPEND", "DONE"}
      PROVE  NoUndefined'
  <2>1. pc[c] # "none"
    BY <1>a, <1>1 DEF ThreadsOwned
  <2>2. QED
    BY <1>a, <1>1, <2>1 DEF Join, NoUndefined, TypeOK
<1>2. ASSUME NEW th \in Threads, Dispose(th) PROVE NoUndefined'
  <2>1. PICK c \in Coros : Reset(th, c) \/ Cancel(th, c) \/ Drop(th, c)
    BY <1>2 DEF Dispose
  <2>2. state[c] = "RESUME" => Called(c)
    BY <1>a DEF Linked, Called, TypeOK
  <2>3. \/ pc' = pc
        \/ \E what \in Ops : state[c] \in {"SUSPEND", "DONE"} /\ Join(th, c, what)
    BY <1>a, <2>1, <2>2 DEF Reset, Cancel, Drop, Settle, MayDispose, Ops, TypeOK, States
  <2>4. QED
    BY <1>1, <2>3 DEF NoUndefined
<1>3. ASSUME NEW th \in Threads, Call(th) \/ Step(th) \/ Suspend(th) PROVE NoUndefined'
  BY <1>a, <1>3 DEF Call, CallNew, CallNoThread, CallSuspended, Enter, Step, CallReturn, SuspendStore,
     SuspendWait, Joined, Suspend, NoUndefined, TypeOK, Threads
<1>4. ASSUME NEW c \in Coros, Finish(c) \/ FinishStore(c) \/ Die(c) PROVE NoUndefined'
  BY <1>a, <1>4 DEF Finish, FinishStore, Die, NoUndefined, TypeOK, Threads
<1>5. CASE UNCHANGED vars
  BY <1>5 DEF vars, NoUndefined
<1>6. \A c \in Coros : c \in Threads
  BY DEF Threads
<1>7. Main \in Threads
  BY DEF Threads
<1>8. QED
  BY <1>2, <1>3, <1>4, <1>5, <1>6, <1>7 DEF Next, CoroStep, Quit

(* No thread is ever cancelled or joined that was never created or is      *)
(* joined already, which the system leaves undefined.                      *)
THEOREM NothingUndefined ==
  ASSUME Disciplined, EnoughThreads
  PROVE  Spec => []NoUndefined
<1>1. Init => HandoffInv /\ NoUndefined
  BY InitInv DEF Init, NoUndefined
<1>2. HandoffInv /\ NoUndefined /\ [Next]_vars => HandoffInv' /\ NoUndefined'
  BY NextInv, NoUndefinedNext
<1>3. QED
  BY <1>1, <1>2, PTL DEF Spec

(* Threads, states and semaphores implement coroutines that suspend,       *)
(* resume and restart.                                                     *)
THEOREM Refinement ==
  ASSUME Disciplined, EnoughThreads
  PROVE  Spec => ImplementsHandoff
<1>1. Init => HandoffInv /\ Abstract!Init
  BY InitInv
<1>2. HandoffInv /\ [Next]_vars => HandoffInv' /\ [Abstract!Next]_(Abstract!vars)
  BY NextInv
<1>3. QED
  BY <1>1, <1>2, PTL DEF Spec, ImplementsHandoff, Abstract!Spec
=============================================================================
