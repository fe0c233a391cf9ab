----------------------------- MODULE TurnProofs -----------------------------
(***************************************************************************)
(* More proofs about Coro: that never two threads evaluate at once, for    *)
(* any programs at all.  They may reset, cancel and free coroutines that   *)
(* are being called, that are cancelled, or that run the code that does    *)
(* it, and the system may refuse any thread.  The turn may then be lost,   *)
(* but it is never doubled.                                                *)
(***************************************************************************)
EXTENDS Coro, TLAPS

(* Coroutines that are active without a thread: it could not be created,   *)
(* and their caller goes on in their place.                                *)
Phantoms == {c \in Coros : state[c] = "RESUME" /\ pc[c] = "none"}

(* What cx->coro is while th evaluates. *)
Standing(th) == {th} \cup Phantoms

(* A coroutine that does not live has no thread. *)
Settled == \A c \in Coros : state[c] \in {"NEW", "CANCEL", "FREED"} => pc[c] = "none"

(* What a coroutine's state tells of its thread. *)
StateOfThread(c) ==
  /\ onCall[c] > 0 => onCall[c] = 1 /\ pc[c] = "wait" /\ state[c] = "RESUME"
  /\ state[c] \in {"SUSPEND", "DONE"} => pc[c] \in {"wait", "dead"}
  /\ pc[c] \in {"eval", "spin", "saved", "finished", "join", "ub"} => state[c] = "RESUME"
  /\ pc[c] = "wait" => state[c] = "SUSPEND" \/ (state[c] = "RESUME" /\ onCall[c] > 0)
  /\ pc[c] = "dead" => state[c] # "RESUME"
  /\ pc[c] = "finished" => coro = prevCoro[c]

(* What a thread is doing tells whom it is doing it for, and what cx->coro *)
(* is or will be when it goes on.                                          *)
ThreadOfState(th) ==
  /\ pc[th] \in {"eval", "join"} => coro \in Standing(th)
  /\ pc[th] = "join" => target[th] \in Coros
  /\ pc[th] = "wait" => th \in Coros /\ target[th] = th /\ (onCall[th] > 0 => coro = th)
  /\ pc[th] = "saved" => \/ th \in Coros /\ target[th] = th /\ coro = prevCoro[th]
                         \/ target[th] \in Phantoms
  /\ pc[th] = "spin" =>
       /\ target[th] \in Coros
       /\ IF state[target[th]] = "RESUME"
          THEN prevCoro[target[th]] \in Standing(th) /\ pc[target[th]] # "none"
          ELSE coro \in Standing(th)

(* Nobody else waits for a coroutine that th is waiting for. *)
OnlyCaller(th) ==
  \A u \in Threads : pc[th] = "spin" /\ pc[u] = "spin" /\ target[th] = target[u] => th = u

(* How the threads hang together as long as somebody goes on. *)
Links ==
  /\ \A c \in Coros : StateOfThread(c)
  /\ \A th \in Threads : ThreadOfState(th)
  /\ \A th \in Threads : OnlyCaller(th)

(* The inductive invariant.  Once nobody goes on nobody ever does, and     *)
(* nothing has to be known any more.                                       *)
TurnInv == TypeOK /\ Settled /\ OneRuns /\ (Running # {} => Links)

-----------------------------------------------------------------------------
(* Threads that neither evaluate nor can go on. *)
Stopped(u) ==
  /\ pc[u] \in {"none", "spin", "wait", "dead"}
  /\ pc[u] = "spin" => state[target[u]] = "RESUME"
  /\ pc[u] = "wait" => ~(onCall[target[u]] > 0)

LEMMA NotRunning ==
  ASSUME TypeOK, NEW u \in Threads
  PROVE  u \notin Running <=> Stopped(u)
BY DEF TypeOK, Running, Stopped

(* While one thread goes on all others are stopped, and everything hangs   *)
(* together.                                                               *)
LEMMA Alone ==
  ASSUME TurnInv, NEW th \in Threads, ~Stopped(th)
  PROVE  Links /\ \A u \in Threads : u # th => Stopped(u)
<1>1. th \in Running
  BY NotRunning DEF TurnInv
<1>2. \A u \in Threads : u # th => u \notin Running
  BY <1>1 DEF TurnInv, OneRuns
<1>3. QED
  BY <1>1, <1>2, NotRunning DEF TurnInv

(* The turn passes to r, or nobody has it any more. *)
LEMMA Passed ==
  ASSUME TypeOK', Settled', NEW r \in Threads,
         \A u \in Threads : u # r => Stopped(u)', ~Stopped(r)' => Links'
  PROVE  TurnInv'
<1>0. \A u \in Threads : u \notin Running' <=> Stopped(u)'
  BY DEF TypeOK, Running, Stopped
<1>1. Running' \subseteq {r}
  BY <1>0 DEF Running
<1>2. Running' # {} => ~Stopped(r)'
  BY <1>0, <1>1
<1>3. QED
  BY <1>1, <1>2 DEF TurnInv, OneRuns

-----------------------------------------------------------------------------
(* The first call of a coroutine: it has no caller yet, and gets one.      *)
LEMMA CallNewTurn ==
  ASSUME TurnInv, NEW th \in Threads, NEW c \in Coros, CallNew(th, c)
  PROVE  TurnInv'
<1> USE CoroAssumption DEF Threads, States, Ops
<1>a. TypeOK /\ Settled /\ pc[th] = "eval" /\ ~Stopped(th)
  BY DEF TurnInv, CallNew, Enter, Stopped
<1>b. Links /\ \A u \in Threads : u # th => Stopped(u)
  BY <1>a, Alone
<1>c. state[c] = "NEW" /\ pc[c] = "none" /\ th # c /\ ~(onCall[c] > 0) /\ coro \in Standing(th)
  BY <1>a, <1>b DEF CallNew, Settled, Links, StateOfThread, ThreadOfState
<1>1. TypeOK'
  BY <1>a DEF CallNew, Enter, TypeOK
<1>2. /\ pc'[th] = "spin" /\ pc'[c] = "eval" /\ \A u \in Threads : u # th /\ u # c => pc'[u] = pc[u]
      /\ state'[c] = "RESUME" /\ \A d \in Coros : d # c => state'[d] = state[d]
      /\ target'[th] = c /\ \A u \in Threads : u # th => target'[u] = target[u]
      /\ prevCoro'[c] = coro /\ \A d \in Coros : d # c => prevCoro'[d] = prevCoro[d]
      /\ coro' = c /\ onCall' = onCall
  BY <1>a, <1>c DEF CallNew, Enter, TypeOK
<1>3. Settled'
  BY <1>a, <1>c, <1>2 DEF Settled
<1>4. \A u \in Threads : u # c => Stopped(u)'
  BY <1>a, <1>b, <1>c, <1>2 DEF Stopped, Links, ThreadOfState
<1>5. Phantoms' = Phantoms
  BY <1>a, <1>b, <1>c, <1>2 DEF Phantoms
<1>6. \A d \in Coros : StateOfThread(d)'
  <2> SUFFICES ASSUME NEW d \in Coros PROVE StateOfThread(d)'
    OBVIOUS
  <2>1. StateOfThread(d) /\ (d # th => Stopped(d))
    BY <1>b DEF Links
  <2>2. CASE d = c
    BY <1>c, <1>2, <2>2 DEF StateOfThread
  <2>3. CASE d = th
    BY <1>a, <1>c, <1>2, <2>1, <2>3 DEF StateOfThread
  <2>4. CASE d # c /\ d # th
    BY <1>2, <2>1, <2>4 DEF StateOfThread, Stopped
  <2>5. QED
    BY <2>2, <2>3, <2>4
<1>7. \A u \in Threads : ThreadOfState(u)'
  BY <1>a, <1>b, <1>c, <1>2, <1>5 DEF Links, ThreadOfState, Stopped, Standing
<1>8. \A u \in Threads : OnlyCaller(u)'
  BY <1>a, <1>b, <1>c, <1>2 DEF Links, OnlyCaller, ThreadOfState, Stopped
<1>9. QED
  BY <1>1, <1>3, <1>4, <1>6, <1>7, <1>8, Passed DEF Links

(* A call whose thread the system refuses: the caller goes on as a phantom. *)
LEMMA CallNoThreadTurn ==
  ASSUME TurnInv, NEW th \in Threads, NEW c \in Coros, CallNoThread(th, c)
  PROVE  TurnInv'
<1> USE CoroAssumption DEF Threads, States, Ops
<1>a. TypeOK /\ Settled /\ pc[th] = "eval" /\ ~Stopped(th)
  BY DEF TurnInv, CallNoThread, Enter, Stopped
<1>b. Links /\ \A u \in Threads : u # th => Stopped(u)
  BY <1>a, Alone
<1>c. state[c] = "NEW" /\ pc[c] = "none" /\ th # c /\ ~(onCall[c] > 0)
  BY <1>a, <1>b DEF CallNoThread, Settled, Links, StateOfThread
<1>1. TypeOK'
  BY <1>a DEF CallNoThread, Enter, TypeOK
<1>2. /\ pc' = pc /\ target' = target /\ coro' = c /\ onCall' = onCall
      /\ state'[c] = "RESUME" /\ \A d \in Coros : d # c => state'[d] = state[d]
      /\ prevCoro'[c] = coro /\ \A d \in Coros : d # c => prevCoro'[d] = prevCoro[d]
  BY <1>a DEF CallNoThread, Enter, TypeOK
<1>3. Settled'
  BY <1>a, <1>2 DEF Settled
<1>4. \A u \in Threads : u # th => Stopped(u)'
  BY <1>a, <1>b, <1>c, <1>2 DEF Stopped, Links, ThreadOfState
<1>5. Phantoms' = Phantoms \cup {c}
  BY <1>a, <1>c, <1>2 DEF Phantoms
<1>6. \A d \in Coros : StateOfThread(d)'
  <2> SUFFICES ASSUME NEW d \in Coros PROVE StateOfThread(d)'
    OBVIOUS
  <2>1. StateOfThread(d) /\ (d # th => Stopped(d))
    BY <1>b DEF Links
  <2>2. CASE d = c
    BY <1>c, <1>2, <2>2 DEF StateOfThread
  <2>3. CASE d # c
    BY <1>a, <1>2, <2>1, <2>3 DEF StateOfThread, Stopped
  <2>4. QED
    BY <2>2, <2>3
<1>7. \A u \in Threads : ThreadOfState(u)'
  <2> SUFFICES ASSUME NEW u \in Threads PROVE ThreadOfState(u)'
    OBVIOUS
  <2>1. ThreadOfState(u) /\ (u # th => Stopped(u))
    BY <1>b DEF Links
  <2>2. CASE u = th
    BY <1>a, <1>2, <1>5, <2>2 DEF ThreadOfState, Standing
  <2>3. CASE u # th
    BY <1>c, <1>2, <1>5, <2>1, <2>3 DEF ThreadOfState, Standing, Stopped
  <2>4. QED
    BY <2>2, <2>3
<1>8. \A u \in Threads : OnlyCaller(u)'
  BY <1>b, <1>2 DEF Links, OnlyCaller
<1>9. QED
  BY <1>1, <1>3, <1>4, <1>6, <1>7, <1>8, Passed DEF Links

(* A call of a suspended coroutine: its thread is the only one that takes  *)
(* the post, unless it has been cancelled, and then nobody does.           *)
LEMMA CallSuspendedTurn ==
  ASSUME TurnInv, NEW th \in Threads, NEW c \in Coros, CallSuspended(th, c)
  PROVE  TurnInv'
<1> USE CoroAssumption DEF Threads, States, Ops
<1>a. TypeOK /\ Settled /\ pc[th] = "eval" /\ ~Stopped(th)
  BY DEF TurnInv, CallSuspended, Enter, Stopped
<1>b. Links /\ \A u \in Threads : u # th => Stopped(u)
  BY <1>a, Alone
<1>c. /\ state[c] = "SUSPEND" /\ pc[c] \in {"wait", "dead"} /\ th # c /\ coro \in Standing(th)
      /\ onCall[c] = 0
  BY <1>a, <1>b DEF CallSuspended, TypeOK, Links, StateOfThread, ThreadOfState
<1>1. TypeOK'
  BY <1>a DEF CallSuspended, Enter, TypeOK
<1>2. /\ pc'[th] = "spin" /\ \A u \in Threads : u # th => pc'[u] = pc[u]
      /\ state'[c] = "RESUME" /\ \A d \in Coros : d # c => state'[d] = state[d]
      /\ target'[th] = c /\ \A u \in Threads : u # th => target'[u] = target[u]
      /\ prevCoro'[c] = coro /\ \A d \in Coros : d # c => prevCoro'[d] = prevCoro[d]
      /\ onCall'[c] = 1 /\ \A d \in Coros : d # c => onCall'[d] = onCall[d]
      /\ coro' = c
  BY <1>a, <1>c DEF CallSuspended, Enter, TypeOK
<1>3. Settled'
  BY <1>a, <1>c, <1>2 DEF Settled
<1>4. \A u \in Threads : u # c => Stopped(u)'
  BY <1>a, <1>b, <1>c, <1>2 DEF Stopped, Links, ThreadOfState
<1>5. CASE pc[c] = "dead"
  <2>1. Stopped(c)'
    BY <1>c, <1>2, <1>5 DEF Stopped
  <2>2. QED
    BY <1>1, <1>3, <1>4, <2>1, Passed
<1>6. CASE pc[c] = "wait"
  <2>1. Phantoms' = Phantoms
    BY <1>a, <1>b, <1>c, <1>2, <1>6 DEF Phantoms
  <2>2. \A d \in Coros : StateOfThread(d)'
    <3> SUFFICES ASSUME NEW d \in Coros PROVE StateOfThread(d)'
      OBVIOUS
    <3>1. StateOfThread(d) /\ (d # th => Stopped(d))
      BY <1>b DEF Links
    <3>2. CASE d = c
      BY <1>c, <1>2, <1>6, <3>2 DEF StateOfThread
    <3>3. CASE d = th
      BY <1>a, <1>c, <1>2, <3>1, <3>3 DEF StateOfThread
    <3>4. CASE d # c /\ d # th
      BY <1>2, <3>1, <3>4 DEF StateOfThread, Stopped
    <3>5. QED
      BY <3>2, <3>3, <3>4
  <2>3. \A u \in Threads : ThreadOfState(u)'
    <3> SUFFICES ASSUME NEW u \in Threads PROVE ThreadOfState(u)'
      OBVIOUS
    <3>1. ThreadOfState(u) /\ (u # th => Stopped(u))
      BY <1>b DEF Links
    <3>2. CASE u = th
      BY <1>a, <1>c, <1>2, <1>6, <2>1, <3>2 DEF ThreadOfState, Standing
    <3>3. CASE u # th
      BY <1>c, <1>2, <1>6, <2>1, <3>1, <3>3 DEF ThreadOfState, Standing, Stopped
    <3>4. QED
      BY <3>2, <3>3
  <2>4. \A u \in Threads : OnlyCaller(u)'
    BY <1>a, <1>b, <1>c, <1>2 DEF Links, OnlyCaller, ThreadOfState, Stopped
  <2>5. QED
    BY <1>1, <1>3, <1>4, <2>2, <2>3, <2>4, Passed DEF Links
<1>7. QED
  BY <1>c, <1>5, <1>6

(* A caller sees that the call is over. *)
LEMMA CallReturnTurn ==
  ASSUME TurnInv, NEW th \in Threads, CallReturn(th)
  PROVE  TurnInv'
<1> USE CoroAssumption DEF Threads, States, Ops
<1>a. TypeOK /\ Settled /\ pc[th] = "spin" /\ state[target[th]] # "RESUME" /\ ~Stopped(th)
  BY DEF TurnInv, CallReturn, Stopped
<1>b. Links /\ \A u \in Threads : u # th => Stopped(u)
  BY <1>a, Alone
<1>c. coro \in Standing(th) /\ (th \in Coros => state[th] = "RESUME")
  BY <1>a, <1>b DEF Links, ThreadOfState, StateOfThread
<1>1. TypeOK'
  BY <1>a DEF CallReturn, TypeOK
<1>2. /\ pc'[th] = "eval" /\ \A u \in Threads : u # th => pc'[u] = pc[u]
      /\ \A u \in Threads : u # th => target'[u] = target[u]
      /\ UNCHANGED <<state, onCall, coro, prevCoro>>
  BY <1>a DEF CallReturn, TypeOK
<1>3. Settled'
  BY <1>a, <1>c, <1>2 DEF Settled
<1>4. \A u \in Threads : u # th => Stopped(u)'
  BY <1>a, <1>b, <1>2 DEF Stopped, TypeOK
<1>5. Phantoms' = Phantoms
  BY <1>a, <1>2 DEF Phantoms
<1>6. \A d \in Coros : StateOfThread(d)'
  <2> SUFFICES ASSUME NEW d \in Coros PROVE StateOfThread(d)'
    OBVIOUS
  <2>1. StateOfThread(d) /\ (d # th => Stopped(d))
    BY <1>b DEF Links
  <2>2. CASE d = th
    BY <1>a, <1>c, <1>2, <2>1, <2>2 DEF StateOfThread
  <2>3. CASE d # th
    BY <1>2, <2>1, <2>3 DEF StateOfThread
  <2>4. QED
    BY <2>2, <2>3
<1>7. \A u \in Threads : ThreadOfState(u)'
  <2> SUFFICES ASSUME NEW u \in Threads PROVE ThreadOfState(u)'
    OBVIOUS
  <2>1. ThreadOfState(u) /\ (u # th => Stopped(u))
    BY <1>b DEF Links
  <2>2. CASE u = th
    BY <1>c, <1>2, <1>5, <2>2 DEF ThreadOfState, Standing
  <2>3. CASE u # th
    BY <1>a, <1>2, <1>5, <2>1, <2>3 DEF ThreadOfState, Standing, Stopped
  <2>4. QED
    BY <2>2, <2>3
<1>8. \A u \in Threads : OnlyCaller(u)'
  BY <1>b, <1>2 DEF Links, OnlyCaller
<1>9. QED
  BY <1>1, <1>3, <1>4, <1>6, <1>7, <1>8, Passed DEF Links

(* suspend saves the context of cx->coro, the thread's own or a phantom. *)
LEMMA SuspendTurn ==
  ASSUME TurnInv, NEW th \in Threads, Suspend(th)
  PROVE  TurnInv'
<1> USE CoroAssumption DEF Threads, States, Ops
<1>a. TypeOK /\ Settled /\ pc[th] = "eval" /\ ~Stopped(th)
  BY DEF TurnInv, Suspend, Stopped
<1>b. Links /\ \A u \in Threads : u # th => Stopped(u)
  BY <1>a, Alone
<1>c. coro \in Coros /\ coro \in Standing(th) /\ (th \in Coros => state[th] = "RESUME")
  BY <1>a, <1>b DEF Suspend, TypeOK, Links, ThreadOfState, StateOfThread
<1>1. TypeOK'
  BY <1>a, <1>c DEF Suspend, TypeOK
<1>2. /\ pc'[th] = "saved" /\ \A u \in Threads : u # th => pc'[u] = pc[u]
      /\ target'[th] = coro /\ \A u \in Threads : u # th => target'[u] = target[u]
      /\ coro' = prevCoro[coro] /\ UNCHANGED <<state, onCall, prevCoro>>
  BY <1>a DEF Suspend, TypeOK
<1>3. Settled'
  BY <1>a, <1>c, <1>2 DEF Settled
<1>4. \A u \in Threads : u # th => Stopped(u)'
  BY <1>a, <1>b, <1>2 DEF Stopped, TypeOK
<1>5. Phantoms' = Phantoms
  BY <1>a, <1>2 DEF Phantoms
<1>6. \A d \in Coros : StateOfThread(d)'
  <2> SUFFICES ASSUME NEW d \in Coros PROVE StateOfThread(d)'
    OBVIOUS
  <2>1. StateOfThread(d) /\ (d # th => Stopped(d))
    BY <1>b DEF Links
  <2>2. CASE d = th
    BY <1>a, <1>c, <1>2, <2>1, <2>2 DEF StateOfThread
  <2>3. CASE d # th
    BY <1>2, <2>1, <2>3 DEF StateOfThread, Stopped
  <2>4. QED
    BY <2>2, <2>3
<1>7. \A u \in Threads : ThreadOfState(u)'
  <2> SUFFICES ASSUME NEW u \in Threads PROVE ThreadOfState(u)'
    OBVIOUS
  <2>1. ThreadOfState(u) /\ (u # th => Stopped(u))
    BY <1>b DEF Links
  <2>2. CASE u = th
    BY <1>c, <1>2, <1>5, <2>2 DEF ThreadOfState, Standing
  <2>3. CASE u # th
    BY <1>2, <1>5, <2>1, <2>3 DEF ThreadOfState, Standing, Stopped
  <2>4. QED
    BY <2>2, <2>3
<1>8. \A u \in Threads : OnlyCaller(u)'
  BY <1>b, <1>2 DEF Links, OnlyCaller
<1>9. QED
  BY <1>1, <1>3, <1>4, <1>6, <1>7, <1>8, Passed DEF Links

(* The one who called d, if anybody did, is the only one that goes on once *)
(* its state is no longer RESUME.                                          *)
LEMMA CallerOf ==
  ASSUME Links, NEW d \in Coros
  PROVE  \E r \in Threads : \A u \in Threads : pc[u] = "spin" /\ target[u] = d => u = r
<1>1. CASE \E r \in Threads : pc[r] = "spin" /\ target[r] = d
  BY <1>1 DEF Links, OnlyCaller
<1>2. CASE ~\E r \in Threads : pc[r] = "spin" /\ target[r] = d
  BY <1>2 DEF Threads
<1>3. QED
  BY <1>1, <1>2

(* The state is stored, which lets the caller go on.  Nobody waits for a   *)
(* phantom, so the thread that suspends as one is the last to do anything. *)
LEMMA SuspendStoreTurn ==
  ASSUME TurnInv, NEW th \in Threads, SuspendStore(th)
  PROVE  TurnInv'
<1> USE CoroAssumption DEF Threads, States, Ops
<1>a. TypeOK /\ Settled /\ pc[th] = "saved" /\ ~Stopped(th)
  BY DEF TurnInv, SuspendStore, Stopped
<1>b. Links /\ \A u \in Threads : u # th => Stopped(u)
  BY <1>a, Alone
<1>1. TypeOK'
  BY <1>a DEF SuspendStore, TypeOK
<1>2. /\ pc'[th] = "wait" /\ \A u \in Threads : u # th => pc'[u] = pc[u]
      /\ \A d \in Coros : d # target[th] => state'[d] = state[d]
      /\ target[th] \in Coros => state'[target[th]] = "SUSPEND"
      /\ UNCHANGED <<target, onCall, prevCoro, coro>>
  BY <1>a DEF SuspendStore, TypeOK
<1>c. \/ th \in Coros /\ target[th] = th /\ coro = prevCoro[th] /\ state[th] = "RESUME" /\ ~(onCall[th] > 0)
      \/ target[th] \in Phantoms
  BY <1>a, <1>b DEF Links, ThreadOfState, StateOfThread
<1>3. Settled'
  BY <1>a, <1>c, <1>2 DEF Settled, Phantoms
<1>4. CASE target[th] \in Phantoms
  <2>1. Stopped(th)'
    BY <1>a, <1>b, <1>2, <1>4 DEF Stopped, Links, StateOfThread, Phantoms
  <2>2. \A u \in Threads : u # th => Stopped(u)'
    BY <1>a, <1>b, <1>2, <1>4 DEF Stopped, Links, ThreadOfState, Phantoms
  <2>3. QED
    BY <1>1, <1>3, <2>1, <2>2, Passed
<1>5. CASE th \in Coros /\ target[th] = th /\ coro = prevCoro[th] /\ state[th] = "RESUME" /\ ~(onCall[th] > 0)
  <2>1. PICK r \in Threads : \A u \in Threads : pc[u] = "spin" /\ target[u] = th => u = r
    BY <1>b, <1>5, CallerOf
  <2>2. \A u \in Threads : u # r => Stopped(u)'
    BY <1>a, <1>b, <1>2, <1>5, <2>1 DEF Stopped, Links, ThreadOfState
  <2>3. Phantoms' = Phantoms
    BY <1>a, <1>2, <1>5 DEF Phantoms
  <2>4. \A d \in Coros : StateOfThread(d)'
    <3> SUFFICES ASSUME NEW d \in Coros PROVE StateOfThread(d)'
      OBVIOUS
    <3>1. StateOfThread(d) /\ (d # th => Stopped(d))
      BY <1>b DEF Links
    <3>2. CASE d = th
      BY <1>2, <1>5, <3>2 DEF StateOfThread
    <3>3. CASE d # th
      BY <1>2, <1>5, <3>1, <3>3 DEF StateOfThread, Stopped
    <3>4. QED
      BY <3>2, <3>3
  <2>5. \A u \in Threads : ThreadOfState(u)'
    <3> SUFFICES ASSUME NEW u \in Threads PROVE ThreadOfState(u)'
      OBVIOUS
    <3>1. ThreadOfState(u) /\ (u # th => Stopped(u))
      BY <1>b DEF Links
    <3>2. CASE u = th
      BY <1>2, <1>5, <3>2 DEF ThreadOfState, Standing
    <3>3. CASE u # th
      BY <1>2, <1>5, <2>3, <3>1, <3>3 DEF ThreadOfState, Standing, Stopped
    <3>4. QED
      BY <3>2, <3>3
  <2>6. \A u \in Threads : OnlyCaller(u)'
    BY <1>b, <1>2, <1>a DEF Links, OnlyCaller
  <2>7. QED
    BY <1>1, <1>3, <2>2, <2>4, <2>5, <2>6, Passed DEF Links
<1>6. QED
  BY <1>c, <1>4, <1>5

(* A suspended coroutine takes the post of its call. *)
LEMMA SuspendWaitTurn ==
  ASSUME TurnInv, NEW th \in Threads, SuspendWait(th)
  PROVE  TurnInv'
<1> USE CoroAssumption DEF Threads, States, Ops
<1>a. TypeOK /\ Settled /\ pc[th] = "wait" /\ ~Stopped(th)
  BY DEF TurnInv, SuspendWait, Stopped
<1>b. Links /\ \A u \in Threads : u # th => Stopped(u)
  BY <1>a, Alone
<1>c. th \in Coros /\ target[th] = th /\ onCall[th] = 1 /\ state[th] = "RESUME" /\ coro = th
  BY <1>a, <1>b DEF SuspendWait, Links, ThreadOfState, StateOfThread
<1>1. TypeOK'
  BY <1>a, <1>c DEF SuspendWait, TypeOK
<1>2. /\ pc'[th] = "eval" /\ \A u \in Threads : u # th => pc'[u] = pc[u]
      /\ \A u \in Threads : u # th => target'[u] = target[u]
      /\ onCall'[th] = 0 /\ \A d \in Coros : d # th => onCall'[d] = onCall[d]
      /\ UNCHANGED <<state, coro, prevCoro>>
  BY <1>a, <1>c DEF SuspendWait, TypeOK
<1>3. Settled'
  BY <1>a, <1>c, <1>2 DEF Settled
<1>4. \A u \in Threads : u # th => Stopped(u)'
  BY <1>a, <1>b, <1>2 DEF Stopped, Links, ThreadOfState
<1>5. Phantoms' = Phantoms
  BY <1>a, <1>2 DEF Phantoms
<1>6. \A d \in Coros : StateOfThread(d)'
  <2> SUFFICES ASSUME NEW d \in Coros PROVE StateOfThread(d)'
    OBVIOUS
  <2>1. StateOfThread(d) /\ (d # th => Stopped(d))
    BY <1>b DEF Links
  <2>2. CASE d = th
    BY <1>a, <1>c, <1>2, <2>1, <2>2 DEF StateOfThread
  <2>3. CASE d # th
    BY <1>2, <2>1, <2>3 DEF StateOfThread, Stopped
  <2>4. QED
    BY <2>2, <2>3
<1>7. \A u \in Threads : ThreadOfState(u)'
  <2> SUFFICES ASSUME NEW u \in Threads PROVE ThreadOfState(u)'
    OBVIOUS
  <2>1. ThreadOfState(u) /\ (u # th => Stopped(u))
    BY <1>b DEF Links
  <2>2. CASE u = th
    BY <1>a, <1>c, <1>2, <1>5, <2>1, <2>2 DEF ThreadOfState, Standing
  <2>3. CASE u # th
    BY <1>a, <1>2, <1>5, <2>1, <2>3 DEF ThreadOfState, Standing, Stopped
  <2>4. QED
    BY <2>2, <2>3
<1>8. \A u \in Threads : OnlyCaller(u)'
  BY <1>b, <1>2 DEF Links, OnlyCaller
<1>9. QED
  BY <1>1, <1>3, <1>4, <1>6, <1>7, <1>8, Passed DEF Links

(* The action of a coroutine returns. *)
LEMMA FinishTurn ==
  ASSUME TurnInv, NEW th \in Coros, Finish(th)
  PROVE  TurnInv'
<1> USE CoroAssumption DEF Threads, States, Ops
<1>a. TypeOK /\ Settled /\ pc[th] = "eval" /\ ~Stopped(th)
  BY DEF TurnInv, Finish, Stopped
<1>b. Links /\ \A u \in Threads : u # th => Stopped(u)
  BY <1>a, Alone
<1>c. state[th] = "RESUME"
  BY <1>a, <1>b DEF Links, StateOfThread
<1>1. TypeOK'
  BY <1>a DEF Finish, TypeOK
<1>2. /\ pc'[th] = "finished" /\ \A u \in Threads : u # th => pc'[u] = pc[u]
      /\ coro' = prevCoro[th] /\ UNCHANGED <<state, onCall, prevCoro, target>>
  BY <1>a DEF Finish, TypeOK
<1>3. Settled'
  BY <1>a, <1>c, <1>2 DEF Settled
<1>4. \A u \in Threads : u # th => Stopped(u)'
  BY <1>a, <1>b, <1>2 DEF Stopped
<1>5. Phantoms' = Phantoms
  BY <1>a, <1>2 DEF Phantoms
<1>6. \A d \in Coros : StateOfThread(d)'
  <2> SUFFICES ASSUME NEW d \in Coros PROVE StateOfThread(d)'
    OBVIOUS
  <2>1. StateOfThread(d) /\ (d # th => Stopped(d))
    BY <1>b DEF Links
  <2>2. CASE d = th
    BY <1>a, <1>c, <1>2, <2>1, <2>2 DEF StateOfThread
  <2>3. CASE d # th
    BY <1>2, <2>1, <2>3 DEF StateOfThread, Stopped
  <2>4. QED
    BY <2>2, <2>3
<1>7. \A u \in Threads : ThreadOfState(u)'
  <2> SUFFICES ASSUME NEW u \in Threads PROVE ThreadOfState(u)'
    OBVIOUS
  <2>1. ThreadOfState(u) /\ (u # th => Stopped(u))
    BY <1>b DEF Links
  <2>2. CASE u = th
    BY <1>a, <1>c, <1>2, <1>5, <2>1, <2>2 DEF ThreadOfState, Standing
  <2>3. CASE u # th
    BY <1>a, <1>2, <1>5, <2>1, <2>3 DEF ThreadOfState, Standing, Stopped
  <2>4. QED
    BY <2>2, <2>3
<1>8. \A u \in Threads : OnlyCaller(u)'
  BY <1>b, <1>2 DEF Links, OnlyCaller
<1>9. QED
  BY <1>1, <1>3, <1>4, <1>6, <1>7, <1>8, Passed DEF Links

(* Its thread ends, and the caller goes on. *)
LEMMA FinishStoreTurn ==
  ASSUME TurnInv, NEW th \in Coros, FinishStore(th)
  PROVE  TurnInv'
<1> USE CoroAssumption DEF Threads, States, Ops
<1>a. TypeOK /\ Settled /\ pc[th] = "finished" /\ ~Stopped(th)
  BY DEF TurnInv, FinishStore, Stopped
<1>b. Links /\ \A u \in Threads : u # th => Stopped(u)
  BY <1>a, Alone
<1>c. state[th] = "RESUME" /\ coro = prevCoro[th] /\ ~(onCall[th] > 0)
  BY <1>a, <1>b DEF Links, StateOfThread
<1>1. TypeOK'
  BY <1>a DEF FinishStore, TypeOK
<1>2. /\ pc'[th] = "dead" /\ \A u \in Threads : u # th => pc'[u] = pc[u]
      /\ state'[th] = "DONE" /\ \A d \in Coros : d # th => state'[d] = state[d]
      /\ UNCHANGED <<onCall, coro, prevCoro, target>>
  BY <1>a DEF FinishStore, TypeOK
<1>3. Settled'
  BY <1>a, <1>c, <1>2 DEF Settled
<1>d. PICK r \in Threads : \A u \in Threads : pc[u] = "spin" /\ target[u] = th => u = r
  BY <1>b, CallerOf
<1>4. \A u \in Threads : u # r => Stopped(u)'
  BY <1>a, <1>b, <1>2, <1>d DEF Stopped, Links, ThreadOfState
<1>5. Phantoms' = Phantoms
  BY <1>a, <1>2 DEF Phantoms
<1>6. \A d \in Coros : StateOfThread(d)'
  <2> SUFFICES ASSUME NEW d \in Coros PROVE StateOfThread(d)'
    OBVIOUS
  <2>1. StateOfThread(d) /\ (d # th => Stopped(d))
    BY <1>b DEF Links
  <2>2. CASE d = th
    BY <1>a, <1>c, <1>2, <2>1, <2>2 DEF StateOfThread
  <2>3. CASE d # th
    BY <1>2, <2>1, <2>3 DEF StateOfThread, Stopped
  <2>4. QED
    BY <2>2, <2>3
<1>7. \A u \in Threads : ThreadOfState(u)'
  <2> SUFFICES ASSUME NEW u \in Threads PROVE ThreadOfState(u)'
    OBVIOUS
  <2>1. ThreadOfState(u) /\ (u # th => Stopped(u))
    BY <1>b DEF Links
  <2>2. CASE u = th
    BY <1>a, <1>c, <1>2, <1>5, <2>1, <2>2 DEF ThreadOfState, Standing
  <2>3. CASE u # th /\ pc[u] # "spin"
    BY <1>2, <1>5, <2>1, <2>3 DEF ThreadOfState, Stopped
  <2>4. CASE u # th /\ pc[u] = "spin"
    <3>1. /\ target[u] \in Coros /\ state[target[u]] = "RESUME" /\ pc[target[u]] # "none"
          /\ prevCoro[target[u]] \in Standing(u)
      BY <2>1, <2>4 DEF ThreadOfState, Stopped
    <3>2. Standing(u)' = Standing(u)
      BY <1>5 DEF Standing
    <3>3. CASE target[u] = th
      BY <1>c, <1>2, <2>4, <3>1, <3>2, <3>3 DEF ThreadOfState
    <3>4. CASE target[u] # th
      BY <1>2, <2>4, <3>1, <3>2, <3>4 DEF ThreadOfState
    <3>5. QED
      BY <3>3, <3>4
  <2>5. QED
    BY <2>2, <2>3, <2>4
<1>8. \A u \in Threads : OnlyCaller(u)'
  BY <1>b, <1>2 DEF Links, OnlyCaller
<1>9. QED
  BY <1>1, <1>3, <1>4, <1>6, <1>7, <1>8, Passed DEF Links

(* A cancelled thread ends.  If it had the turn, that is lost. *)
LEMMA DieTurn ==
  ASSUME TurnInv, NEW th \in Coros, Die(th)
  PROVE  TurnInv'
<1> USE CoroAssumption DEF Threads, States, Ops
<1>a. TypeOK /\ Settled /\ pc[th] \in {"eval", "wait", "join"}
  BY DEF TurnInv, Die
<1>1. TypeOK'
  BY <1>a DEF Die, TypeOK
<1>2. /\ pc'[th] = "dead" /\ \A u \in Threads : u # th => pc'[u] = pc[u]
      /\ UNCHANGED <<state, onCall, coro, prevCoro, target>>
  BY <1>a DEF Die, TypeOK
<1>3. Settled'
  BY <1>a, <1>2 DEF Settled
<1>4. Stopped(th)'
  BY <1>2 DEF Stopped
<1>5. CASE \A u \in Threads : u # th => Stopped(u)
  <2>1. \A u \in Threads : u # th => Stopped(u)'
    BY <1>2, <1>5 DEF Stopped
  <2>2. QED
    BY <1>1, <1>3, <1>4, <2>1, Passed
<1>6. ASSUME NEW r \in Threads, r # th, ~Stopped(r) PROVE TurnInv'
  <2>b. Links /\ \A u \in Threads : u # r => Stopped(u)
    BY <1>6, Alone
  <2>c. pc[th] = "wait" /\ state[th] # "RESUME"
    BY <1>a, <1>6, <2>b DEF Links, StateOfThread, ThreadOfState, Stopped
  <2>1. \A u \in Threads : u # r => Stopped(u)'
    BY <1>2, <1>4, <2>b DEF Stopped
  <2>2. Phantoms' = Phantoms
    BY <1>2, <2>c DEF Phantoms
  <2>3. \A d \in Coros : StateOfThread(d)'
    <3> SUFFICES ASSUME NEW d \in Coros PROVE StateOfThread(d)'
      OBVIOUS
    <3>1. StateOfThread(d)
      BY <2>b DEF Links
    <3>2. CASE d = th
      BY <1>2, <2>c, <3>1, <3>2 DEF StateOfThread
    <3>3. CASE d # th
      BY <1>2, <3>1, <3>3 DEF StateOfThread
    <3>4. QED
      BY <3>2, <3>3
  <2>4. \A u \in Threads : ThreadOfState(u)'
    <3> SUFFICES ASSUME NEW u \in Threads PROVE ThreadOfState(u)'
      OBVIOUS
    <3>1. ThreadOfState(u)
      BY <2>b DEF Links
    <3>2. CASE u = th
      BY <1>2, <3>2 DEF ThreadOfState
    <3>3. CASE u # th
      BY <1>2, <2>2, <2>c, <3>1, <3>3 DEF ThreadOfState, Standing
    <3>4. QED
      BY <3>2, <3>3
  <2>5. \A u \in Threads : OnlyCaller(u)'
    BY <1>2, <2>b DEF Links, OnlyCaller
  <2>6. QED
    BY <1>1, <1>3, <2>1, <2>3, <2>4, <2>5, Passed DEF Links
<1>7. QED
  BY <1>5, <1>6

(* There is no thread to wait for. *)
LEMMA SettleTurn ==
  ASSUME TurnInv, NEW th \in Threads, NEW c \in Coros, NEW to \in {"CANCEL", "FREED"},
         Settle(th, c, {"NEW", "CANCEL"}, to)
  PROVE  TurnInv'
<1> USE CoroAssumption DEF Threads, States, Ops
<1>a. TypeOK /\ Settled /\ pc[th] = "eval" /\ ~Stopped(th)
  BY DEF TurnInv, Settle, Stopped
<1>b. Links /\ \A u \in Threads : u # th => Stopped(u)
  BY <1>a, Alone
<1>c. state[c] \in {"NEW", "CANCEL"} /\ pc[c] = "none" /\ th # c /\ ~(onCall[c] > 0)
  BY <1>a, <1>b DEF Settle, Settled, Links, StateOfThread
<1>1. TypeOK'
  BY <1>a DEF Settle, TypeOK
<1>2. /\ state'[c] = to /\ \A d \in Coros : d # c => state'[d] = state[d]
      /\ UNCHANGED <<pc, target, onCall, coro, prevCoro>>
  BY <1>a DEF Settle, TypeOK
<1>3. Settled'
  BY <1>a, <1>c, <1>2 DEF Settled
<1>4. \A u \in Threads : u # th => Stopped(u)'
  BY <1>a, <1>b, <1>c, <1>2 DEF Stopped, Links, ThreadOfState
<1>5. Phantoms' = Phantoms
  BY <1>a, <1>c, <1>2 DEF Phantoms
<1>6. \A d \in Coros : StateOfThread(d)'
  <2> SUFFICES ASSUME NEW d \in Coros PROVE StateOfThread(d)'
    OBVIOUS
  <2>1. StateOfThread(d)
    BY <1>b DEF Links
  <2>2. CASE d = c
    BY <1>c, <1>2, <2>2 DEF StateOfThread
  <2>3. CASE d # c
    BY <1>2, <2>1, <2>3 DEF StateOfThread
  <2>4. QED
    BY <2>2, <2>3
<1>7. \A u \in Threads : ThreadOfState(u)'
  <2> SUFFICES ASSUME NEW u \in Threads PROVE ThreadOfState(u)'
    OBVIOUS
  <2>1. ThreadOfState(u) /\ (u # th => Stopped(u))
    BY <1>b DEF Links
  <2>2. CASE u = th
    BY <1>a, <1>2, <1>5, <2>1, <2>2 DEF ThreadOfState, Standing
  <2>3. CASE u # th
    BY <1>c, <1>2, <1>5, <2>1, <2>3 DEF ThreadOfState, Standing, Stopped
  <2>4. QED
    BY <2>2, <2>3
<1>8. \A u \in Threads : OnlyCaller(u)'
  BY <1>b, <1>2 DEF Links, OnlyCaller
<1>9. QED
  BY <1>1, <1>3, <1>4, <1>6, <1>7, <1>8, Passed DEF Links

(* A thread goes to join another one, or fails to join itself, or does     *)
(* what is undefined: it keeps the turn, and nobody else gets it.          *)
LEMMA JoinTurn ==
  ASSUME TurnInv, NEW th \in Threads, NEW c \in Coros, NEW what \in Ops, Join(th, c, what)
  PROVE  TurnInv'
<1> USE CoroAssumption DEF Threads, States, Ops
<1>a. TypeOK /\ Settled /\ pc[th] = "eval" /\ ~Stopped(th)
  BY DEF TurnInv, Join, Stopped
<1>b. Links /\ \A u \in Threads : u # th => Stopped(u)
  BY <1>a, Alone
<1>c. coro \in Standing(th) /\ (th \in Coros => state[th] = "RESUME")
  BY <1>a, <1>b DEF Links, StateOfThread, ThreadOfState
<1>1. TypeOK'
  BY <1>a DEF Join, TypeOK
<1>2. /\ pc'[th] \in {"ub", "eval", "join"} /\ \A u \in Threads : u # th => pc'[u] = pc[u]
      /\ target'[th] = c /\ \A u \in Threads : u # th => target'[u] = target[u]
      /\ UNCHANGED <<state, onCall, coro, prevCoro>>
  BY <1>a DEF Join, TypeOK
<1>3. Settled'
  BY <1>a, <1>c, <1>2 DEF Settled
<1>4. \A u \in Threads : u # th => Stopped(u)'
  BY <1>a, <1>b, <1>2 DEF Stopped
<1>5. Phantoms' = Phantoms
  BY <1>a, <1>2 DEF Phantoms
<1>6. \A d \in Coros : StateOfThread(d)'
  <2> SUFFICES ASSUME NEW d \in Coros PROVE StateOfThread(d)'
    OBVIOUS
  <2>1. StateOfThread(d) /\ (d # th => Stopped(d))
    BY <1>b DEF Links
  <2>2. CASE d = th
    BY <1>a, <1>c, <1>2, <2>1, <2>2 DEF StateOfThread
  <2>3. CASE d # th
    BY <1>2, <2>1, <2>3 DEF StateOfThread, Stopped
  <2>4. QED
    BY <2>2, <2>3
<1>7. \A u \in Threads : ThreadOfState(u)'
  <2> SUFFICES ASSUME NEW u \in Threads PROVE ThreadOfState(u)'
    OBVIOUS
  <2>1. ThreadOfState(u) /\ (u # th => Stopped(u))
    BY <1>b DEF Links
  <2>2. CASE u = th
    BY <1>a, <1>c, <1>2, <1>5, <2>1, <2>2 DEF ThreadOfState, Standing
  <2>3. CASE u # th
    BY <1>a, <1>2, <1>5, <2>1, <2>3 DEF ThreadOfState, Standing, Stopped
  <2>4. QED
    BY <2>2, <2>3
<1>8. \A u \in Threads : OnlyCaller(u)'
  BY <1>b, <1>2 DEF Links, OnlyCaller
<1>9. QED
  BY <1>1, <1>3, <1>4, <1>6, <1>7, <1>8, Passed DEF Links

(* The joined thread is gone, and its coroutine new, cancelled or freed:   *)
(* nobody was waiting for a call of it to end.                             *)
LEMMA JoinedTurn ==
  ASSUME TurnInv, NEW th \in Threads, Joined(th)
  PROVE  TurnInv'
<1> USE CoroAssumption DEF Threads, States, Ops
<1> DEFINE c == target[th]
<1>a. TypeOK /\ Settled /\ pc[th] = "join" /\ ~Stopped(th)
  BY DEF TurnInv, Joined, Stopped
<1>b. Links /\ \A u \in Threads : u # th => Stopped(u)
  BY <1>a, Alone
<1>c. /\ c \in Coros /\ pc[c] = "dead" /\ c # th /\ state[c] # "RESUME" /\ ~(onCall[c] > 0)
      /\ coro \in Standing(th) /\ (th \in Coros => state[th] = "RESUME")
  BY <1>a, <1>b DEF Joined, Links, StateOfThread, ThreadOfState
<1>d. AfterJoin[op[th]] \in {"NEW", "CANCEL", "FREED"}
  BY <1>a DEF TypeOK, AfterJoin
<1>1. TypeOK'
  BY <1>a, <1>c, <1>d DEF Joined, TypeOK
<1>2. /\ pc'[th] = "eval" /\ pc'[c] = "none" /\ \A u \in Threads : u # th /\ u # c => pc'[u] = pc[u]
      /\ state'[c] \in {"NEW", "CANCEL", "FREED"} /\ \A d \in Coros : d # c => state'[d] = state[d]
      /\ \A u \in Threads : u # th => target'[u] = target[u]
      /\ UNCHANGED <<onCall, coro, prevCoro>>
  BY <1>a, <1>c, <1>d DEF Joined, TypeOK
<1> HIDE DEF c
<1>3. Settled'
  BY <1>a, <1>c, <1>2 DEF Settled
<1>4. \A u \in Threads : u # th => Stopped(u)'
  BY <1>a, <1>b, <1>c, <1>2 DEF Stopped, Links, ThreadOfState
<1>5. Phantoms' = Phantoms
  BY <1>a, <1>c, <1>2 DEF Phantoms
<1>6. \A d \in Coros : StateOfThread(d)'
  <2> SUFFICES ASSUME NEW d \in Coros PROVE StateOfThread(d)'
    OBVIOUS
  <2>1. StateOfThread(d)
    BY <1>b DEF Links
  <2>2. CASE d = c
    BY <1>c, <1>2, <2>2 DEF StateOfThread
  <2>3. CASE d = th
    BY <1>a, <1>c, <1>2, <2>1, <2>3 DEF StateOfThread
  <2>4. CASE d # c /\ d # th
    BY <1>2, <2>1, <2>4 DEF StateOfThread
  <2>5. QED
    BY <2>2, <2>3, <2>4
<1>7. \A u \in Threads : ThreadOfState(u)'
  <2> SUFFICES ASSUME NEW u \in Threads PROVE ThreadOfState(u)'
    OBVIOUS
  <2>1. ThreadOfState(u) /\ (u # th => Stopped(u))
    BY <1>b DEF Links
  <2>2. CASE u = th
    BY <1>c, <1>2, <1>5, <2>2 DEF ThreadOfState, Standing
  <2>3. CASE u # th
    BY <1>a, <1>c, <1>2, <1>5, <2>1, <2>3 DEF ThreadOfState, Standing, Stopped
  <2>4. QED
    BY <2>2, <2>3
<1>8. \A u \in Threads : OnlyCaller(u)'
  BY <1>a, <1>b, <1>c, <1>2 DEF Links, OnlyCaller
<1>9. QED
  BY <1>1, <1>3, <1>4, <1>6, <1>7, <1>8, Passed DEF Links

-----------------------------------------------------------------------------
(* The initial state: the main thread evaluates. *)
LEMMA TurnInit == Init => TurnInv
<1> SUFFICES ASSUME Init PROVE TurnInv
  OBVIOUS
<1> USE CoroAssumption DEF Init, Threads, States, Ops
<1>1. TypeOK
  BY DEF TypeOK
<1>2. Settled
  BY DEF Settled
<1>3. OneRuns
  BY DEF OneRuns, Running
<1>4. Links
  BY DEF Links, StateOfThread, ThreadOfState, OnlyCaller, Standing
<1>5. QED
  BY <1>1, <1>2, <1>3, <1>4 DEF TurnInv

(* Disposing of a coroutine settles it or goes to join its thread. *)
LEMMA DisposeTurn ==
  ASSUME TurnInv, NEW th \in Threads, Dispose(th)
  PROVE  TurnInv'
<1>1. PICK c \in Coros : Reset(th, c) \/ Cancel(th, c) \/ Drop(th, c)
  BY DEF Dispose
<1>2. \/ \E what \in Ops : Join(th, c, what)
      \/ \E to \in {"CANCEL", "FREED"} : Settle(th, c, {"NEW", "CANCEL"}, to)
  BY <1>1 DEF Reset, Cancel, Drop, Settle, Ops
<1>3. QED
  BY <1>2, JoinTurn, SettleTurn

(* What every thread can do. *)
LEMMA AnyThreadTurn ==
  ASSUME TurnInv, NEW th \in Threads, Step(th) \/ Call(th) \/ Dispose(th) \/ Suspend(th)
  PROVE  TurnInv'
<1>1. CASE Step(th)
  BY <1>1, CallReturnTurn, SuspendStoreTurn, SuspendWaitTurn, JoinedTurn DEF Step
<1>2. CASE Call(th)
  BY <1>2, CallNewTurn, CallNoThreadTurn, CallSuspendedTurn DEF Call
<1>3. QED
  BY <1>1, <1>2, DisposeTurn, SuspendTurn

(* Every step keeps the invariant. *)
LEMMA TurnNext == TurnInv /\ [Next]_vars => TurnInv'
<1> SUFFICES ASSUME TurnInv, [Next]_vars PROVE TurnInv'
  OBVIOUS
<1>1. CASE UNCHANGED vars
  BY <1>1 DEF vars, TurnInv, TypeOK, Settled, OneRuns, Running, Links, StateOfThread, ThreadOfState,
     OnlyCaller, Standing, Phantoms
<1>2. ASSUME NEW c \in Coros, CoroStep(c) PROVE TurnInv'
  BY <1>2, AnyThreadTurn, FinishTurn, FinishStoreTurn, DieTurn DEF CoroStep, Threads
<1>3. CASE Step(Main) \/ Call(Main) \/ Dispose(Main) \/ Suspend(Main)
  BY <1>3, AnyThreadTurn DEF Threads
<1>4. QED
  BY <1>1, <1>2, <1>3 DEF Next, Quit

(* At no time two threads use the interpreter, whatever programs do to     *)
(* coroutines that are being called and whatever threads the system can    *)
(* create: cancelling, joining and refused threads can lose the turn, but  *)
(* they cannot give it to two.                                             *)
THEOREM NeverTwo == Spec => []OneRuns
<1>1. TurnInv => OneRuns
  BY DEF TurnInv
<1>2. QED
  BY <1>1, TurnInit, TurnNext, PTL DEF Spec

=============================================================================
