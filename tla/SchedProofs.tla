---------------------------- MODULE SchedProofs ----------------------------
(***************************************************************************)
(* Proofs about Sched, for any number of tasks and any bounds: the types,  *)
(* the conservation of the baton and, from it, mutual exclusion inside the *)
(* interpreter; what cx_sched_run joins, with q_lock and without; and that *)
(* threads, semaphores and spins implement the passing of one baton as     *)
(* Baton states it.                                                        *)
(***************************************************************************)
EXTENDS Sched, FiniteSetTheorems, SequenceTheorems, TLAPS

(* There are finitely many tasks, and the owner is none of them.           *)
LEMMA TasksFinite == IsFiniteSet(Tasks) /\ Main \notin Tasks
BY BoundsAssumption, FS_Interval DEF Tasks, Main

(* The sets of tasks that IInv counts are finite.                          *)
LEMMA SubsetFinite ==
  /\ IsFiniteSet(Holding) /\ IsFiniteSet(Early) /\ IsFiniteSet(Counted)
  /\ Cardinality(Holding) \in Nat
  /\ Cardinality(Early) \in Nat
  /\ Cardinality(Counted) \in Nat
<1>1. Holding \subseteq Tasks /\ Early \subseteq Tasks /\ Counted \subseteq Tasks
  BY DEF Holding, Early, Counted
<1>2. QED
  BY <1>1, TasksFinite, FS_Subset, FS_CardinalityType

(* A new member makes a set larger by one.                                 *)
LEMMA CardAdd ==
  ASSUME NEW S, IsFiniteSet(S), NEW x, x \notin S
  PROVE  Cardinality(S \cup {x}) = Cardinality(S) + 1
BY FS_AddElement

(* Without one of its members a set is smaller by one.                     *)
LEMMA CardRemove ==
  ASSUME NEW S, IsFiniteSet(S), NEW x, x \in S
  PROVE  Cardinality(S \ {x}) = Cardinality(S) - 1
BY FS_RemoveElement

(* Taking an element out of a queue leaves a queue.                        *)
LEMMA RemoveAtType ==
  ASSUME NEW S, NEW s \in Seq(S), NEW i \in DOMAIN s
  PROVE  RemoveAt(s, i) \in Seq(S)
<1>1. i \in 1..Len(s)
  BY LenProperties
<1>2. SubSeq(s, 1, i-1) \in Seq(S)
  BY <1>1, SubSeqProperties, SMT
<1>3. SubSeq(s, i+1, Len(s)) \in Seq(S)
  BY <1>1, SubSeqProperties, SMT
<1>4. QED
  BY <1>2, <1>3, ConcatProperties DEF RemoveAt

-----------------------------------------------------------------------------
(* The steps of a task. *)

(* Every step of on_start and cx_task_resched keeps the types.             *)
LEMMA TaskStepTypeOK ==
  ASSUME TypeOK, TaskCount, NEW t \in Tasks, TaskStep(t)
  PROVE  TypeOK'
<1> USE DEF TypeOK, Goto, queues, counters, sems, locals, Threads, MainPc, TaskPc
<1>a. t # Main
  BY TasksFinite
<1>1. CASE StartCount(t)
  BY <1>1, <1>a DEF StartCount
<1>2. CASE StartMove(t)
  <2>1. newQ' \in Seq(Tasks)
    BY <1>2, HeadTailProperties DEF StartMove
  <2>2. readyQ' \in Seq(Tasks)
    BY <1>2, AppendProperties DEF StartMove
  <2>3. /\ pc' \in [Threads -> MainPc \cup TaskPc]
        /\ pc'[Main] \in MainPc
        /\ \A u \in Tasks : pc'[u] \in TaskPc
    BY <1>2, <1>a DEF StartMove
  <2>4. UNCHANGED <<doneQ, ntasks, nruns, run, done, prevTasks, prevRuns, victim,
                    resched, runs, ret>>
    BY <1>2 DEF StartMove
  <2>5. QED
    BY <2>1, <2>2, <2>3, <2>4
<1>3. CASE StartRunNext(t)
  BY <1>3, <1>a DEF StartRunNext
<1>4. CASE StartWait(t)
  BY <1>4, <1>a DEF StartWait
<1>5. CASE StartEnter(t)
  BY <1>5, <1>a DEF StartEnter
<1>6. CASE StartLeave(t)
  BY <1>6, <1>a DEF StartLeave
<1>7. CASE StartDone(t)
  <2>1. readyQ' \in Seq(Tasks)
    BY <1>7, RemoveAtType DEF StartDone
  <2>2. QED
    BY <1>7, <1>a, <2>1 DEF StartDone
<1>8. CASE StartUncount(t)
  <2>1. t \in Counted
    BY <1>8 DEF StartUncount, Counted
  <2>2. ntasks > 0
    BY <2>1, SubsetFinite, FS_EmptySet DEF TaskCount
  <2>3. QED
    BY <1>8, <1>a, <2>2 DEF StartUncount
<1>9. CASE StartSignal(t)
  BY <1>9, <1>a DEF StartSignal
<1>10. CASE RunNextLoad(t)
  BY <1>10, <1>a DEF RunNextLoad
<1>11. CASE RunNextPost(t)
  BY <1>11, <1>a DEF RunNextPost
<1>12. CASE RunNextSpin(t)
  BY <1>12, <1>a DEF RunNextSpin
<1>13. CASE RunNextTake(t)
  BY <1>13, <1>a DEF RunNextTake
<1>14. CASE Resched(t)
  BY <1>14, <1>a DEF Resched
<1>15. CASE ReschedRunNext(t)
  BY <1>15, <1>a DEF ReschedRunNext
<1>16. CASE ReschedAlone(t)
  BY <1>16, <1>a DEF ReschedAlone
<1>17. CASE ReschedResume(t)
  BY <1>17, <1>a DEF ReschedResume
<1>18. QED
  BY <1>1, <1>2, <1>3, <1>4, <1>5, <1>6, <1>7, <1>8, <1>9, <1>10, <1>11,
     <1>12, <1>13, <1>14, <1>15, <1>16, <1>17 DEF TaskStep

(* No step of a task makes or loses a baton, and each keeps the count. *)
LEMMA TaskStepBalance ==
  ASSUME IInv, NEW t \in Tasks, TaskStep(t)
  PROVE  TokenConservation' /\ TaskCount'
<1> USE DEF IInv, TypeOK, Goto, queues, counters, sems, locals, Threads
<1>a. t # Main
  BY TasksFinite
<1>b. TokenConservation /\ TaskCount
  OBVIOUS
<1>1. CASE StartCount(t)
  <2>1. Holding' = Holding /\ Early' = Early /\ (InRun' <=> InRun)
    BY <1>1, <1>a DEF StartCount, Holding, Early, InRun
  <2>2. Counted' = Counted \cup {t} /\ t \notin Counted
    BY <1>1, <1>a DEF StartCount, Counted
  <2>3. Cardinality(Counted') = Cardinality(Counted) + 1
    BY <2>2, SubsetFinite, CardAdd
  <2>4. QED
    BY <1>b, <1>1, <2>1, <2>3, SubsetFinite
       DEF StartCount, TokenConservation, TaskCount
<1>2. CASE StartMove(t)
  <2>1. Holding' = Holding /\ Early' = Early /\ Counted' = Counted /\ (InRun' <=> InRun)
    BY <1>2, <1>a DEF StartMove, Holding, Early, Counted, InRun
  <2>2. QED
    BY <1>b, <1>2, <2>1, SubsetFinite
       DEF StartMove, TokenConservation, TaskCount
<1>3. CASE StartRunNext(t)
  <2>1. Holding' = Holding /\ Early' = Early /\ Counted' = Counted /\ (InRun' <=> InRun)
    BY <1>3, <1>a DEF StartRunNext, Holding, Early, Counted, InRun
  <2>2. QED
    BY <1>b, <1>3, <2>1, SubsetFinite
       DEF StartRunNext, TokenConservation, TaskCount
<1>4. CASE StartWait(t)
  <2>1. Early' = Early /\ Counted' = Counted /\ (InRun' <=> InRun)
    BY <1>4, <1>a DEF StartWait, Early, Counted, InRun
  <2>2. Holding' = Holding \cup {t} /\ t \notin Holding
    BY <1>4, <1>a DEF StartWait, Holding
  <2>3. Cardinality(Holding') = Cardinality(Holding) + 1
    BY <2>2, SubsetFinite, CardAdd
  <2>4. QED
    BY <1>b, <1>4, <2>1, <2>3, SubsetFinite
       DEF StartWait, TokenConservation, TaskCount
<1>5. CASE StartEnter(t)
  <2>1. Holding' = Holding /\ Early' = Early /\ Counted' = Counted /\ (InRun' <=> InRun)
    BY <1>5, <1>a DEF StartEnter, Holding, Early, Counted, InRun
  <2>2. QED
    BY <1>b, <1>5, <2>1, SubsetFinite
       DEF StartEnter, TokenConservation, TaskCount
<1>6. CASE StartLeave(t)
  <2>1. Early' = Early /\ Counted' = Counted /\ (InRun' <=> InRun)
    BY <1>6, <1>a DEF StartLeave, Early, Counted, InRun
  <2>2. Holding' = Holding \ {t} /\ t \in Holding
    BY <1>6, <1>a DEF StartLeave, Holding
  <2>3. Cardinality(Holding') = Cardinality(Holding) - 1
    BY <2>2, SubsetFinite, CardRemove
  <2>4. QED
    BY <1>b, <1>6, <2>1, <2>3, SubsetFinite
       DEF StartLeave, TokenConservation, TaskCount
<1>7. CASE StartDone(t)
  <2>1. Holding' = Holding /\ Early' = Early /\ Counted' = Counted /\ (InRun' <=> InRun)
    BY <1>7, <1>a DEF StartDone, Holding, Early, Counted, InRun
  <2>2. QED
    BY <1>b, <1>7, <2>1, SubsetFinite
       DEF StartDone, TokenConservation, TaskCount
<1>8. CASE StartUncount(t)
  <2>1. Holding' = Holding /\ Early' = Early /\ (InRun' <=> InRun)
    BY <1>8, <1>a DEF StartUncount, Holding, Early, InRun
  <2>2. Counted' = Counted \ {t} /\ t \in Counted
    BY <1>8, <1>a DEF StartUncount, Counted
  <2>3. Cardinality(Counted') = Cardinality(Counted) - 1
    BY <2>2, SubsetFinite, CardRemove
  <2>4. QED
    BY <1>b, <1>8, <2>1, <2>3, SubsetFinite
       DEF StartUncount, TokenConservation, TaskCount
<1>9. CASE StartSignal(t)
  <2>1. Holding' = Holding /\ Early' = Early /\ Counted' = Counted /\ (InRun' <=> InRun)
    BY <1>9, <1>a DEF StartSignal, Holding, Early, Counted, InRun
  <2>2. QED
    BY <1>b, <1>9, <2>1, SubsetFinite
       DEF StartSignal, TokenConservation, TaskCount
<1>10. CASE RunNextLoad(t)
  <2>1. Holding' = Holding /\ Early' = Early /\ Counted' = Counted /\ (InRun' <=> InRun)
    BY <1>10, <1>a DEF RunNextLoad, Holding, Early, Counted, InRun
  <2>2. QED
    BY <1>b, <1>10, <2>1, SubsetFinite
       DEF RunNextLoad, TokenConservation, TaskCount
<1>11. CASE RunNextPost(t)
  <2>1. CASE ret[t] = "check"
    <3>1. Holding' = Holding /\ Counted' = Counted /\ (InRun' <=> InRun)
      BY <1>11, <1>a, <2>1 DEF RunNextPost, Holding, Counted, InRun
    <3>2. Early' = Early \cup {t} /\ t \notin Early
      BY <1>11, <1>a, <2>1 DEF RunNextPost, Early
    <3>3. Cardinality(Early') = Cardinality(Early) + 1
      BY <3>2, SubsetFinite, CardAdd
    <3>4. QED
      BY <1>b, <1>11, <2>1, <3>1, <3>3, SubsetFinite
         DEF RunNextPost, TokenConservation, TaskCount
  <2>2. CASE ret[t] = "resume"
    <3>1. Early' = Early /\ Counted' = Counted /\ (InRun' <=> InRun)
      BY <1>11, <1>a, <2>2 DEF RunNextPost, Early, Counted, InRun
    <3>2. Holding' = Holding \ {t} /\ t \in Holding
      BY <1>11, <1>a, <2>2 DEF RunNextPost, Holding
    <3>3. Cardinality(Holding') = Cardinality(Holding) - 1
      BY <3>2, SubsetFinite, CardRemove
    <3>4. QED
      BY <1>b, <1>11, <2>2, <3>1, <3>3, SubsetFinite
         DEF RunNextPost, TokenConservation, TaskCount
  <2>3. QED
    BY <2>1, <2>2
<1>12. CASE RunNextSpin(t)
  <2>1. Holding' = Holding /\ Early' = Early /\ Counted' = Counted /\ (InRun' <=> InRun)
    BY <1>12, <1>a DEF RunNextSpin, Holding, Early, Counted, InRun
  <2>2. QED
    BY <1>b, <1>12, <2>1, SubsetFinite
       DEF RunNextSpin, TokenConservation, TaskCount
<1>13. CASE RunNextTake(t)
  <2>1. CASE ret[t] = "check"
    <3>1. Holding' = Holding /\ Counted' = Counted /\ (InRun' <=> InRun)
      BY <1>13, <1>a, <2>1 DEF RunNextTake, Holding, Counted, InRun
    <3>2. Early' = Early \ {t} /\ t \in Early
      BY <1>13, <1>a, <2>1 DEF RunNextTake, Early
    <3>3. Cardinality(Early') = Cardinality(Early) - 1
      BY <3>2, SubsetFinite, CardRemove
    <3>4. QED
      BY <1>b, <1>13, <2>1, <3>1, <3>3, SubsetFinite
         DEF RunNextTake, TokenConservation, TaskCount
  <2>2. CASE ret[t] = "resume"
    <3>1. Early' = Early /\ Counted' = Counted /\ (InRun' <=> InRun)
      BY <1>13, <1>a, <2>2 DEF RunNextTake, Early, Counted, InRun
    <3>2. Holding' = Holding \cup {t} /\ t \notin Holding
      BY <1>13, <1>a, <2>2 DEF RunNextTake, Holding
    <3>3. Cardinality(Holding') = Cardinality(Holding) + 1
      BY <3>2, SubsetFinite, CardAdd
    <3>4. QED
      BY <1>b, <1>13, <2>2, <3>1, <3>3, SubsetFinite
         DEF RunNextTake, TokenConservation, TaskCount
  <2>3. QED
    BY <2>1, <2>2
<1>14. CASE Resched(t)
  <2>1. Holding' = Holding /\ Early' = Early /\ Counted' = Counted /\ (InRun' <=> InRun)
    BY <1>14, <1>a DEF Resched, Holding, Early, Counted, InRun
  <2>2. QED
    BY <1>b, <1>14, <2>1, SubsetFinite
       DEF Resched, TokenConservation, TaskCount
<1>15. CASE ReschedRunNext(t)
  <2>1. Holding' = Holding /\ Early' = Early /\ Counted' = Counted /\ (InRun' <=> InRun)
    BY <1>15, <1>a DEF ReschedRunNext, Holding, Early, Counted, InRun
  <2>2. QED
    BY <1>b, <1>15, <2>1, SubsetFinite
       DEF ReschedRunNext, TokenConservation, TaskCount
<1>16. CASE ReschedAlone(t)
  <2>1. Holding' = Holding /\ Early' = Early /\ Counted' = Counted /\ (InRun' <=> InRun)
    BY <1>16, <1>a DEF ReschedAlone, Holding, Early, Counted, InRun
  <2>2. QED
    BY <1>b, <1>16, <2>1, SubsetFinite
       DEF ReschedAlone, TokenConservation, TaskCount
<1>17. CASE ReschedResume(t)
  <2>1. Holding' = Holding /\ Early' = Early /\ Counted' = Counted /\ (InRun' <=> InRun)
    BY <1>17, <1>a DEF ReschedResume, Holding, Early, Counted, InRun
  <2>2. QED
    BY <1>b, <1>17, <2>1, SubsetFinite
       DEF ReschedResume, TokenConservation, TaskCount
<1>18. QED
  BY <1>1, <1>2, <1>3, <1>4, <1>5, <1>6, <1>7, <1>8, <1>9, <1>10, <1>11,
     <1>12, <1>13, <1>14, <1>15, <1>16, <1>17 DEF TaskStep

-----------------------------------------------------------------------------
(* The steps of a thread that pushes a task. *)

(* cx_sched_push keeps the balance of batons and threads.                  *)
LEMMA PushStepInv ==
  ASSUME IInv, NEW th \in Threads, PushStep(th)
  PROVE  IInv'
<1> USE DEF IInv, TypeOK, Goto, queues, counters, sems, locals, Threads
<1>a. Main \notin Tasks /\ TokenConservation /\ TaskCount
  BY TasksFinite
<1>1. CASE PushRead(th)
  <2>1. TypeOK'
    BY <1>1, <1>a DEF PushRead, MayPush, MainPc, TaskPc
  <2>2. Holding' = Holding /\ Early' = Early /\ Counted' = Counted /\ (InRun' <=> InRun)
    BY <1>1, <1>a DEF PushRead, MayPush, Holding, Early, Counted, InRun
  <2>3. QED
    BY <1>1, <1>a, <2>1, <2>2 DEF PushRead, TokenConservation, TaskCount
<1>2. CASE PushLink(th)
  <2>1. PICK t \in Tasks :
          /\ pc[t] = "none" /\ newQ' = Append(newQ, t)
          /\ pc' = [pc EXCEPT ![th] = "grow", ![t] = "count"]
    BY <1>2 DEF PushLink
  <2>2. t # th /\ pc[th] = "link"
    BY <1>2, <2>1 DEF PushLink
  <2>a. /\ pc'[t] = "count" /\ pc'[th] = "grow"
        /\ \A x \in Threads : x # t /\ x # th => pc'[x] = pc[x]
    BY <2>1, <2>2
  <2>3. TypeOK'
    <3>1. pc' \in [Threads -> MainPc \cup TaskPc]
      BY <2>1 DEF MainPc, TaskPc
    <3>2. pc'[Main] \in MainPc /\ \A x \in Tasks : pc'[x] \in TaskPc
      BY <1>a, <2>2, <2>a DEF MainPc, TaskPc
    <3>3. newQ' \in Seq(Tasks)
      BY <2>1
    <3>4. QED
      BY <1>2, <3>1, <3>2, <3>3 DEF PushLink
  <2>4. Holding' = Holding /\ Early' = Early /\ Counted' = Counted /\ (InRun' <=> InRun)
    <3>1. ret' = ret
      BY <1>2 DEF PushLink
    <3>2. Holding' = Holding
      BY <1>a, <2>1, <2>2, <2>a, <3>1 DEF Holding
    <3>3. Early' = Early
      BY <1>a, <2>1, <2>2, <2>a, <3>1 DEF Early
    <3>4. Counted' = Counted
      BY <1>a, <2>1, <2>2, <2>a DEF Counted
    <3>5. InRun' <=> InRun
      BY <1>a, <2>1, <2>2, <2>a DEF InRun
    <3>6. QED
      BY <3>2, <3>3, <3>4, <3>5
  <2>5. QED
    BY <1>2, <1>a, <2>3, <2>4 DEF PushLink, TokenConservation, TaskCount
<1>3. CASE PushGrow(th)
  <2>1. TypeOK'
    BY <1>3, <1>a DEF PushGrow, PushReturnsTo, MainPc, TaskPc
  <2>2. Holding' = Holding /\ Early' = Early /\ Counted' = Counted /\ (InRun' <=> InRun)
    BY <1>3, <1>a DEF PushGrow, PushReturnsTo, Holding, Early, Counted, InRun
  <2>3. QED
    BY <1>3, <1>a, <2>1, <2>2 DEF PushGrow, TokenConservation, TaskCount
<1>4. QED
  BY <1>1, <1>2, <1>3 DEF PushStep

-----------------------------------------------------------------------------
(* The steps of cx_sched_run. *)

(* So does cx_sched_run: it posts one baton and takes one back.            *)
LEMMA RunStepInv ==
  ASSUME IInv, RunPost \/ RunStep
  PROVE  IInv'
<1> USE DEF IInv, TypeOK, Goto, queues, counters, sems, locals, Threads
<1>a. Main \notin Tasks /\ TokenConservation /\ TaskCount
  BY TasksFinite
<1>1. CASE RunPost
  <2>1. TypeOK'
    BY <1>1, <1>a DEF RunPost, MainPc
  <2>2. Holding' = Holding /\ Early' = Early /\ Counted' = Counted
    BY <1>1, <1>a DEF RunPost, Holding, Early, Counted
  <2>3. ~InRun /\ InRun'
    BY <1>1, <1>a DEF RunPost, InRun
  <2>4. QED
    <3>1. run' = run + 1 /\ ntasks' = ntasks /\ run \in Nat
      BY <1>1 DEF RunPost
    <3>2. TokenConservation'
      BY ONLY TokenConservation, <2>2, <2>3, <3>1, SubsetFinite DEF TokenConservation
    <3>3. TaskCount'
      BY <1>a, <2>2, <3>1 DEF TaskCount
    <3>4. QED
      BY <2>1, <3>2, <3>3
<1>2. CASE RunTakeBack
  <2>1. TypeOK'
    BY <1>2, <1>a DEF RunTakeBack, MainPc
  <2>2. Holding' = Holding /\ Early' = Early /\ Counted' = Counted
    BY <1>2, <1>a DEF RunTakeBack, Holding, Early, Counted
  <2>3. InRun /\ ~InRun'
    BY <1>2, <1>a DEF RunTakeBack, InRun
  <2>4. QED
    <3>1. run' = run - 1 /\ ntasks' = ntasks /\ run \in Nat
      BY <1>2 DEF RunTakeBack
    <3>2. TokenConservation'
      BY ONLY TokenConservation, <2>2, <2>3, <3>1, SubsetFinite DEF TokenConservation
    <3>3. TaskCount'
      BY <1>a, <2>2, <3>1 DEF TaskCount
    <3>4. QED
      BY <2>1, <3>2, <3>3
<1>3. CASE RunJoin \/ RunSweepJoin
  <2>1. victim \in Tasks
    BY <1>3 DEF RunJoin, RunSweepJoin
  <2>2. TypeOK'
    BY <1>3, <1>a, <2>1 DEF RunJoin, RunSweepJoin, MainPc, TaskPc
  <2>3. Holding' = Holding /\ Early' = Early /\ Counted' = Counted /\ (InRun' <=> InRun)
    BY <1>3, <1>a, <2>1 DEF RunJoin, RunSweepJoin, Holding, Early, Counted, InRun
  <2>4. QED
    BY <1>3, <1>a, <2>2, <2>3 DEF RunJoin, RunSweepJoin, TokenConservation, TaskCount
<1>4. CASE RunReap \/ RunSweep
  <2>1. PICK to \in {"sweep", "wait", "recheck", "reap", "ub", "join", "sweepjoin", "last"} :
          pc' = [pc EXCEPT ![Main] = to]
    BY <1>4 DEF RunReap, RunSweep
  <2>2. doneQ' \in Seq(Tasks) /\ victim' \in Threads
    <3>1. CASE doneQ = <<>>
      BY <1>4, <3>1 DEF RunReap, RunSweep
    <3>2. CASE doneQ # <<>>
      <4>1. Head(doneQ) \in Tasks /\ Tail(doneQ) \in Seq(Tasks)
        BY <3>2
      <4>2. doneQ' = Tail(doneQ) /\ victim' = Head(doneQ)
        BY <1>4, <3>2 DEF RunReap, RunSweep
      <4>3. QED
        BY <4>1, <4>2
    <3>3. QED
      BY <3>1, <3>2
  <2>3. /\ UNCHANGED <<newQ, readyQ, ntasks, nruns, run, ret, prevTasks, prevRuns, resched, runs>>
        /\ done' \in Nat
    BY <1>4 DEF RunReap, RunSweep
  <2>4. TypeOK'
    BY <1>a, <2>1, <2>2, <2>3 DEF MainPc, TaskPc
  <2>5. pc'[Main] = to /\ \A t \in Tasks : pc'[t] = pc[t]
    BY <1>a, <2>1
  <2>6. Holding' = Holding /\ Early' = Early /\ Counted' = Counted
    BY <2>3, <2>5 DEF Holding, Early, Counted
  <2>7. InRun /\ InRun'
    BY <1>4, <2>1, <2>5 DEF RunReap, RunSweep, InRun
  <2>8. QED
    BY <1>a, <2>3, <2>4, <2>6, <2>7 DEF TokenConservation, TaskCount
<1>5. CASE RunLoop \/ RunWaitDone \/ RunRecheck
  <2>1. PICK to \in {"sweep", "wait", "recheck", "reap", "ub", "join", "sweepjoin", "last"} :
          pc' = [pc EXCEPT ![Main] = to]
    BY <1>5 DEF RunLoop, RunWaitDone, RunRecheck
  <2>2. doneQ' \in Seq(Tasks) /\ victim' \in Threads
    BY <1>5 DEF RunLoop, RunWaitDone, RunRecheck
  <2>3. /\ UNCHANGED <<newQ, readyQ, ntasks, nruns, run, ret, prevTasks, prevRuns, resched, runs>>
        /\ done' \in Nat
    BY <1>5 DEF RunLoop, RunWaitDone, RunRecheck
  <2>4. TypeOK'
    BY <1>a, <2>1, <2>2, <2>3 DEF MainPc, TaskPc
  <2>5. pc'[Main] = to /\ \A t \in Tasks : pc'[t] = pc[t]
    BY <1>a, <2>1
  <2>6. Holding' = Holding /\ Early' = Early /\ Counted' = Counted
    BY <2>3, <2>5 DEF Holding, Early, Counted
  <2>7. InRun /\ InRun'
    BY <1>5, <2>1, <2>5 DEF RunLoop, RunWaitDone, RunRecheck, InRun
  <2>8. QED
    BY <1>a, <2>3, <2>4, <2>6, <2>7 DEF TokenConservation, TaskCount
<1>6. QED
  BY <1>1, <1>2, <1>3, <1>4, <1>5 DEF RunStep

-----------------------------------------------------------------------------
(* No thread and no baton is there at first.                               *)
LEMMA InitInv == Init => IInv
<1> SUFFICES ASSUME Init PROVE IInv
  OBVIOUS
<1> USE DEF Init
<1>1. TypeOK
  BY TasksFinite DEF TypeOK, MainPc, TaskPc, Threads
<1>2. Holding = {} /\ Early = {} /\ Counted = {} /\ ~InRun
  BY TasksFinite DEF Holding, Early, Counted, InRun, Threads
<1>3. QED
  BY <1>1, <1>2, FS_EmptySet DEF IInv, TokenConservation, TaskCount

(* IInv is inductive.                                                      *)
LEMMA NextInv == IInv /\ [Next]_vars => IInv'
<1> SUFFICES ASSUME IInv, [Next]_vars PROVE IInv'
  OBVIOUS
<1>1. ASSUME NEW t \in Tasks, TaskStep(t) PROVE IInv'
  BY <1>1, TaskStepTypeOK, TaskStepBalance DEF IInv
<1>2. CASE UNCHANGED vars
  BY <1>2 DEF vars, queues, counters, sems, locals, IInv, TypeOK, TokenConservation,
     TaskCount, Holding, Early, Counted, InRun
<1>3. QED
  BY <1>1, <1>2, PushStepInv, RunStepInv DEF Next, Quit

(* In every reachable state of the scheduler, for any number of tasks, the *)
(* semaphore run and the tasks that have taken it account for exactly the  *)
(* posts that were made, and ntasks for the threads that are counted.      *)
THEOREM BatonConserved == Spec => []IInv
BY InitInv, NextInv, PTL DEF Spec

(* Every variable keeps its type; in particular ntasks and the semaphores  *)
(* never become negative, whatever the interleaving.                       *)
THEOREM TypeCorrect == Spec => []TypeOK
<1>1. IInv => TypeOK
  BY DEF IInv
<1>2. QED
  BY <1>1, BatonConserved, PTL

(* One baton at most means one evaluating thread at most.                  *)
LEMMA ConservedExclusive == IInv => CooperativeOnceStarted
BY SubsetFinite, FS_EmptySet
   DEF IInv, TypeOK, TokenConservation, CooperativeOnceStarted, Cooperative

(* Once no task is left in the loop of on_start, at most one thread is in  *)
(* the interpreter, for any number of tasks, runs and rescheds.            *)
THEOREM ExclusiveOnceStarted == Spec => []CooperativeOnceStarted
BY ConservedExclusive, BatonConserved, PTL

-----------------------------------------------------------------------------
(* A program that lets each task reach its semaphore before the next push. *)

(* The only task that can be starting is alone on new_q, so it never posts *)
(* a baton; nobody else is between the two halves of a push meanwhile.     *)
StartsAlone ==
  /\ \A t \in Starting : pc[t] \in {"count", "check"} /\ newQ = <<t>>
  /\ Starting = {} => newQ = <<>>
  /\ \A th \in Threads : pc[th] = "link" => Starting = {}

PacedInv == IInv /\ StartsAlone

(* Without a baton posted early that holds throughout.                     *)
LEMMA PacedExclusive == PacedInv => Cooperative
<1> SUFFICES ASSUME PacedInv PROVE Cooperative
  OBVIOUS
<1>1. Early = {}
  BY DEF PacedInv, StartsAlone, Early, Starting
<1>2. QED
  BY <1>1, ConservedExclusive DEF PacedInv, CooperativeOnceStarted

(* A task that holds the baton is the only one, and a run is on.           *)
LEMMA OneHolder ==
  ASSUME Cooperative, NEW t \in Holding
  PROVE  InRun /\ \A u \in Holding : u = t
<1>1. Cardinality(Holding \ {t}) = Cardinality(Holding) - 1
  BY SubsetFinite, CardRemove
<1>2. Cardinality(Holding \ {t}) \in Nat /\ IsFiniteSet(Holding \ {t})
  BY SubsetFinite, FS_Subset, FS_CardinalityType
<1>3. Cardinality(Holding \ {t}) = 0 /\ InRun
  BY <1>1, <1>2, SubsetFinite DEF Cooperative
<1>4. QED
  BY <1>2, <1>3, FS_EmptySet

(* At most one thread is between linking a task and its start.             *)
LEMMA OnePusher ==
  ASSUME PacedInv, NEW th \in Threads, NEW ph \in Threads,
         pc[th] = "link", pc[ph] = "link"
  PROVE  th = ph
<1>1. \A x \in Threads : pc[x] = "link" => (x = Main /\ ~InRun) \/ x \in Holding
  BY TasksFinite DEF Threads, Holding, InRun
<1>2. QED
  BY <1>1, OneHolder, PacedExclusive

(* PacedInv is inductive when pushes are paced.                            *)
LEMMA PacedNext == Paced /\ PacedInv /\ [Next]_vars => PacedInv'
<1> SUFFICES ASSUME Paced, PacedInv, [Next]_vars PROVE StartsAlone'
  BY NextInv DEF PacedInv
<1> USE DEF Goto, queues, counters, sems, locals, Threads
<1>a. TypeOK /\ StartsAlone /\ Main \notin Tasks
  BY TasksFinite DEF PacedInv, IInv
<1>b. \A t \in Tasks : ret[t] \in {"check", "resume"}
  BY <1>a DEF TypeOK
<1>1. ASSUME NEW t \in Tasks, StartMove(t) PROVE StartsAlone'
  <2>1. t \in Starting
    BY <1>1 DEF StartMove, Starting
  <2>2. Starting' = Starting \ {t}
    BY <1>1, <1>a DEF StartMove, Starting, TypeOK
  <2>3. newQ = <<t>> /\ \A u \in Starting : u = t
    BY <2>1, <1>a DEF StartsAlone
  <2>4. Starting' = {} /\ newQ' = <<>>
    BY <1>1, <2>2, <2>3 DEF StartMove
  <2>5. QED
    BY <2>4 DEF StartsAlone
<1>2. ASSUME NEW t \in Tasks, StartRunNext(t) PROVE FALSE
  BY <1>2, <1>a DEF StartRunNext, StartsAlone, Starting
<1>3. ASSUME NEW t \in Tasks,
             TaskStep(t), ~StartMove(t), ~StartRunNext(t)
      PROVE  StartsAlone'
  <2>1. ~(pc[t] \in {"load", "post", "spin", "take"} /\ ret[t] = "check")
    BY <1>a DEF StartsAlone, Starting
  <2>2. newQ' = newQ
    BY <1>3 DEF TaskStep, StartCount, StartWait, StartEnter, StartLeave, StartDone,
       StartUncount, StartSignal, RunNextLoad, RunNextPost, RunNextSpin, RunNextTake,
       Resched, ReschedRunNext, ReschedAlone, ReschedResume
  <2>3. pc'[t] # "link" /\ \A x \in Threads \ {t} : pc'[x] = pc[x]
    BY <1>3, <1>a, <1>b DEF TaskStep, StartCount, StartWait, StartEnter, StartLeave, StartDone,
       StartUncount, StartSignal, RunNextLoad, RunNextPost, RunNextSpin, RunNextTake,
       Resched, ReschedRunNext, ReschedAlone, ReschedResume, TypeOK
  <2>4. Starting' = Starting /\ (t \in Starting => pc'[t] = "check")
    BY <1>3, <1>a, <1>b, <2>1 DEF TaskStep, StartCount, StartWait, StartEnter, StartLeave, StartDone,
       StartUncount, StartSignal, RunNextLoad, RunNextPost, RunNextSpin, RunNextTake,
       Resched, ReschedRunNext, ReschedAlone, ReschedResume, TypeOK, Starting
  <2>5. Starting \subseteq Threads
    BY DEF Starting
  <2>6. QED
    BY <1>a, <2>2, <2>3, <2>4, <2>5 DEF StartsAlone
<1>4. ASSUME NEW th \in Threads, PushRead(th) PROVE StartsAlone'
  <2>1. Starting = {} /\ newQ' = newQ
    BY <1>4 DEF PushRead, MayPush
  <2>2. Starting' = {}
    BY <1>4, <1>a, <2>1 DEF PushRead, MayPush, Starting, TypeOK
  <2>3. QED
    BY <1>a, <2>1, <2>2 DEF StartsAlone
<1>5. ASSUME NEW th \in Threads, PushLink(th) PROVE StartsAlone'
  <2>1. PICK t \in Tasks :
          /\ pc[t] = "none" /\ newQ' = Append(newQ, t)
          /\ pc' = [pc EXCEPT ![th] = "grow", ![t] = "count"]
    BY <1>5 DEF PushLink
  <2>2. t # th /\ pc[th] = "link" /\ Starting = {} /\ newQ = <<>>
    BY <1>5, <1>a, <2>1 DEF PushLink, StartsAlone
  <2>a. /\ pc'[t] = "count" /\ pc'[th] = "grow"
        /\ \A x \in Threads : x # t /\ x # th => pc'[x] = pc[x]
    BY <1>a, <2>1, <2>2 DEF TypeOK
  <2>b. ret' = ret
    BY <1>5 DEF PushLink
  <2>3. Starting' = {t} /\ pc'[t] = "count"
    BY <2>2, <2>a, <2>b DEF Starting
  <2>4. newQ' = <<t>>
    BY <2>1, <2>2
  <2>5. \A x \in Threads : pc'[x] # "link"
    BY <1>a, <2>1, <2>2, OnePusher DEF TypeOK
  <2>6. QED
    BY <2>3, <2>4, <2>5 DEF StartsAlone
<1>6. ASSUME NEW th \in Threads, PushGrow(th) PROVE StartsAlone'
  <2>1. Starting' = Starting /\ newQ' = newQ
    BY <1>6, <1>a DEF PushGrow, PushReturnsTo, Starting, TypeOK
  <2>2. \A x \in Threads : x # th => pc'[x] = pc[x]
    BY <1>6, <1>a DEF PushGrow, TypeOK
  <2>3. th \notin Starting /\ pc'[th] # "link"
    BY <1>6, <1>a DEF PushGrow, PushReturnsTo, Starting, TypeOK
  <2>4. Starting \subseteq Threads
    BY DEF Starting
  <2>5. QED
    BY <1>a, <2>1, <2>2, <2>3, <2>4 DEF StartsAlone
<1>7. ASSUME RunPost \/ RunStep PROVE StartsAlone'
  <2> USE <1>7, <1>a DEF TypeOK, RunPost, RunStep, RunLoop, RunWaitDone, RunRecheck, RunReap,
       RunJoin, RunSweep, RunSweepJoin, RunTakeBack
  <2>1. newQ' = newQ
    OBVIOUS
  <2>2. Starting' = Starting /\ \A t \in Starting : pc'[t] = pc[t]
    BY DEF Starting
  <2>3. \A x \in Threads : pc'[x] = "link" => pc[x] = "link"
    OBVIOUS
  <2>4. QED
    BY <2>1, <2>2, <2>3 DEF StartsAlone
<1>8. CASE UNCHANGED vars
  BY <1>8, <1>a DEF vars, StartsAlone, Starting
<1>9. QED
  BY <1>1, <1>2, <1>3, <1>4, <1>5, <1>6, <1>7, <1>8 DEF Next, Quit, PushStep

(* When a program paces its pushes, cixl's promise of cooperative          *)
(* concurrency holds unconditionally: one evaluating thread at a time.     *)
THEOREM PacedCooperative ==
  ASSUME Paced
  PROVE  Spec => []Cooperative
<1>1. Init => PacedInv
  BY InitInv, TasksFinite DEF PacedInv, StartsAlone, Init, Starting, Threads
<1>2. PacedInv /\ [Next]_vars => PacedInv'
  BY PacedNext
<1>3. QED
  BY <1>1, <1>2, PacedExclusive, PTL DEF Spec

-----------------------------------------------------------------------------
(* The threads that cx_sched_run joins. *)

(* A task that is on done_q has only to count itself out and to signal. *)
Ended == {"uncount", "signal", "exited"}
Joining == pc[Main] \in {"join", "sweepjoin"}

(* Every task on done_q has ended, it is there once, and the one that is   *)
(* being joined is not there any more.                                     *)
DoneOnce ==
  /\ \A i \in 1..Len(doneQ) : pc[doneQ[i]] \in Ended
  /\ \A i, j \in 1..Len(doneQ) : doneQ[i] = doneQ[j] => i = j
  /\ Joining => /\ victim \in Tasks /\ pc[victim] \in Ended
                /\ \A i \in 1..Len(doneQ) : doneQ[i] # victim

(* A step that leaves done_q and the join alone, and no task behind.       *)
LEMMA DoneOnceFrame ==
  ASSUME TypeOK, DoneOnce, UNCHANGED <<doneQ, victim>>, Joining' => Joining,
         \A t \in Tasks : pc[t] \in Ended => pc'[t] \in Ended
  PROVE  DoneOnce'
<1>1. \A i \in 1..Len(doneQ) : doneQ[i] \in Tasks
  BY DEF TypeOK
<1>2. QED
  BY <1>1 DEF DoneOnce

(* Everything but ending and joining is such a step.                       *)
LEMMA TaskDoneOnce ==
  ASSUME TypeOK, DoneOnce, NEW t \in Tasks, TaskStep(t), ~StartDone(t)
  PROVE  DoneOnce'
<1>1. UNCHANGED <<doneQ, victim>> /\ pc'[Main] = pc[Main]
  BY TasksFinite DEF TypeOK, TaskStep, Goto, queues, counters, sems, locals, StartCount, StartMove,
     StartRunNext, StartWait, StartEnter, StartLeave, StartUncount, StartSignal, RunNextLoad,
     RunNextPost, RunNextSpin, RunNextTake, Resched, ReschedRunNext, ReschedAlone, ReschedResume,
     Threads
<1>2. \A u \in Tasks : pc[u] \in Ended => pc'[u] \in Ended
  BY DEF TypeOK, TaskStep, Goto, StartCount, StartMove,
     StartRunNext, StartWait, StartEnter, StartLeave, StartUncount, StartSignal, RunNextLoad,
     RunNextPost, RunNextSpin, RunNextTake, Resched, ReschedRunNext, ReschedAlone, ReschedResume,
     Threads, Ended
<1>3. QED
  BY <1>1, <1>2, DoneOnceFrame DEF Joining

(* Neither does a push end a task.                                         *)
LEMMA PushDoneOnce ==
  ASSUME TypeOK, DoneOnce, NEW th \in Threads, PushStep(th)
  PROVE  DoneOnce'
<1> USE DEF Goto, queues, counters, sems, locals, Threads, Ended, Joining
<1>1. UNCHANGED <<doneQ, victim>>
  BY DEF PushStep, PushRead, PushLink, PushGrow
<1>2. (Joining' => Joining) /\ \A u \in Tasks : pc[u] \in Ended => pc'[u] \in Ended
  <2>1. CASE PushRead(th)
    BY <2>1, TasksFinite DEF TypeOK, PushRead, MayPush
  <2>2. CASE PushLink(th)
    BY <2>2, TasksFinite DEF TypeOK, PushLink
  <2>3. CASE PushGrow(th)
    BY <2>3, TasksFinite DEF TypeOK, PushGrow, PushReturnsTo
  <2>4. QED
    BY <2>1, <2>2, <2>3 DEF PushStep
<1>3. QED
  BY <1>1, <1>2, DoneOnceFrame

(* A task that moves itself to done_q has not been there before.           *)
LEMMA StartDoneOnce ==
  ASSUME TypeOK, DoneOnce, NEW t \in Tasks, StartDone(t)
  PROVE  DoneOnce'
<1> USE DEF Goto, queues, counters, sems, locals, Threads, Ended, Joining
<1>1. /\ pc[t] = "move" /\ doneQ' = Append(doneQ, t) /\ victim' = victim
      /\ pc' = [pc EXCEPT ![t] = "uncount"]
  BY DEF StartDone
<1>2. pc'[t] = "uncount" /\ \A x \in Threads : x # t => pc'[x] = pc[x]
  BY <1>1 DEF TypeOK
<1>3. doneQ \in Seq(Tasks) /\ \A i \in 1..Len(doneQ) : doneQ[i] \in Tasks /\ doneQ[i] # t
  <2>1. doneQ \in Seq(Tasks) /\ \A i \in 1..Len(doneQ) : doneQ[i] \in Tasks
    BY DEF TypeOK
  <2>2. \A i \in 1..Len(doneQ) : pc[doneQ[i]] # "move"
    BY DEF DoneOnce
  <2>3. QED
    BY <1>1, <2>1, <2>2
<1>4. /\ Len(doneQ') = Len(doneQ) + 1 /\ Len(doneQ) \in Nat
      /\ \A i \in 1..Len(doneQ) : doneQ'[i] = doneQ[i]
      /\ doneQ'[Len(doneQ) + 1] = t
  BY <1>1, <1>3, AppendProperties
<1>5. \A i \in 1..Len(doneQ') : i \in 1..Len(doneQ) \/ i = Len(doneQ) + 1
  BY <1>4
<1>6. \A i \in 1..Len(doneQ') : pc'[doneQ'[i]] \in Ended
  BY <1>2, <1>3, <1>4, <1>5 DEF DoneOnce
<1>7. \A i, j \in 1..Len(doneQ') : doneQ'[i] = doneQ'[j] => i = j
  BY <1>3, <1>4, <1>5 DEF DoneOnce
<1>8. Joining' => /\ victim' \in Tasks /\ pc'[victim'] \in Ended
                  /\ \A i \in 1..Len(doneQ') : doneQ'[i] # victim'
  BY <1>1, <1>2, <1>4, <1>5, TasksFinite DEF DoneOnce
<1>9. QED
  BY <1>6, <1>7, <1>8 DEF DoneOnce

(* Joining a task takes it off done_q, and the thread it frees is not      *)
(* waited for again.                                                       *)
LEMMA RunDoneOnce ==
  ASSUME TypeOK, DoneOnce, RunPost \/ RunStep
  PROVE  DoneOnce'
<1> USE DEF Goto, queues, counters, sems, locals, Threads
<1>a. Main \notin Tasks /\ doneQ \in Seq(Tasks) /\ \A i \in 1..Len(doneQ) : doneQ[i] \in Tasks
  BY TasksFinite DEF TypeOK
<1>1. CASE RunPost \/ RunLoop \/ RunWaitDone \/ RunRecheck \/ RunTakeBack
  <2>1. UNCHANGED <<doneQ, victim>> /\ ~Joining'
    BY <1>1 DEF TypeOK, RunPost, RunLoop, RunWaitDone, RunRecheck, RunTakeBack, Joining
  <2>2. \A u \in Tasks : pc'[u] = pc[u]
    BY <1>1, <1>a DEF TypeOK, RunPost, RunLoop, RunWaitDone, RunRecheck, RunTakeBack
  <2>3. QED
    BY <2>1, <2>2, DoneOnceFrame
<1>2. CASE (RunReap \/ RunSweep) /\ doneQ = <<>>
  <2>1. UNCHANGED <<doneQ, victim>> /\ ~Joining'
    BY <1>2 DEF TypeOK, RunReap, RunSweep, Joining
  <2>2. \A u \in Tasks : pc'[u] = pc[u]
    BY <1>2, <1>a DEF TypeOK, RunReap, RunSweep
  <2>3. QED
    BY <2>1, <2>2, DoneOnceFrame
<1>3. CASE (RunReap \/ RunSweep) /\ doneQ # <<>>
  <2>1. victim' = Head(doneQ) /\ doneQ' = Tail(doneQ)
    BY <1>3 DEF RunReap, RunSweep
  <2>2. \A u \in Tasks : pc'[u] = pc[u]
    BY <1>3, <1>a DEF TypeOK, RunReap, RunSweep
  <2>3. /\ victim' = doneQ[1] /\ 1 \in 1..Len(doneQ)
        /\ Len(doneQ') = Len(doneQ) - 1 /\ Len(doneQ) \in Nat
        /\ \A i \in 1..Len(doneQ') : doneQ'[i] = doneQ[i+1] /\ i+1 \in 1..Len(doneQ)
    BY <1>3, <1>a, <2>1, HeadTailProperties
  <2>4. \A i \in 1..Len(doneQ') : doneQ'[i] \in Tasks /\ pc'[doneQ'[i]] \in Ended
    BY <1>a, <2>2, <2>3 DEF DoneOnce
  <2>5. \A i, j \in 1..Len(doneQ') : doneQ'[i] = doneQ'[j] => i = j
    BY <2>3 DEF DoneOnce
  <2>6. victim' \in Tasks /\ pc'[victim'] \in Ended
    BY <1>a, <2>2, <2>3 DEF DoneOnce
  <2>7. \A i \in 1..Len(doneQ') : doneQ'[i] # victim'
    BY <2>3 DEF DoneOnce
  <2>8. QED
    BY <2>4, <2>5, <2>6, <2>7 DEF DoneOnce
<1>4. CASE RunJoin \/ RunSweepJoin
  <2>1. doneQ' = doneQ /\ Joining /\ victim \in Tasks
    BY <1>4 DEF RunJoin, RunSweepJoin, DoneOnce, Joining
  <2>2. ~Joining' /\ \A u \in Tasks : u # victim => pc'[u] = pc[u]
    BY <1>4, <1>a, <2>1 DEF TypeOK, RunJoin, RunSweepJoin, Joining
  <2>3. QED
    BY <1>a, <2>1, <2>2 DEF DoneOnce
<1>5. QED
  BY <1>1, <1>2, <1>3, <1>4 DEF RunStep

(* DoneOnce is inductive, whatever is pushed when.                         *)
LEMMA DoneOnceNext == TypeOK /\ DoneOnce /\ [Next]_vars => DoneOnce'
<1> SUFFICES ASSUME TypeOK, DoneOnce, [Next]_vars PROVE DoneOnce'
  OBVIOUS
<1>1. CASE UNCHANGED vars
  BY <1>1, DoneOnceFrame DEF vars, queues, locals, Joining
<1>2. QED
  BY <1>1, TaskDoneOnce, StartDoneOnce, PushDoneOnce, RunDoneOnce DEF Next, Quit

(* done_q is empty at first.                                               *)
LEMMA DoneOnceInit == Init => DoneOnce
BY TasksFinite DEF Init, DoneOnce, Joining, Threads

(* The thread that cx_sched_run joins under q_lock never needs that lock   *)
(* again: the owner and a task do not wait for each other for ever, in     *)
(* any program, nested, paced or neither.                                  *)
THEOREM LockedJoin == Spec => []LockedJoinReturns
<1>1. DoneOnce => LockedJoinReturns
  BY DEF DoneOnce, LockedJoinReturns, Joining, Ended
<1>2. QED
  BY <1>1, DoneOnceInit, DoneOnceNext, TypeCorrect, PTL DEF Spec

-----------------------------------------------------------------------------
(* Pushes that are paced and come from the owner only. *)

(* Every task that has ended is to be joined; at the end of cx_sched_run   *)
(* no task is counted, and outside of it none is between taking the baton  *)
(* and being joined.  A push goes on as soon as its own task is counted.   *)
Accounted ==
  /\ \A t \in Tasks : pc[t] \in Ended =>
       \/ Joining /\ victim = t
       \/ \E i \in 1..Len(doneQ) : doneQ[i] = t
  /\ pc[Main] \in {"sweep", "sweepjoin", "last"} =>
       \A t \in Tasks : pc[t] \in {"none", "signal", "exited", "freed"}
  /\ pc[Main] = "last" => doneQ = <<>>
  /\ ~InRun => \A t \in Tasks : pc[t] \in {"none", "count", "check", "ready", "freed"}
  /\ \A t \in Tasks : pc[t] = "count" => pc[Main] = "grow" /\ ntasks = prevTasks[Main]
  /\ pc[Main] = "link" => ntasks = prevTasks[Main]
  /\ \A t \in Tasks : pc[t] \notin {"link", "grow"}

JoinInv == PacedInv /\ DoneOnce /\ Accounted

(* Where the only baton is: nobody has it outside of cx_sched_run, and     *)
(* nobody while it is on the semaphore.                                    *)
LEMMA BatonPlace ==
  ASSUME PacedInv
  PROVE  /\ ~InRun => run = 0 /\ Holding = {}
         /\ run > 0 => InRun /\ Holding = {}
         /\ Holding # {} => InRun /\ run = 0
<1>1. Early = {} /\ run \in Nat /\ TokenConservation
  BY DEF PacedInv, StartsAlone, Early, Starting, IInv, TypeOK
<1>2. run + Cardinality(Holding) = (IF InRun THEN 1 ELSE 0)
  BY <1>1, FS_EmptySet DEF TokenConservation
<1>3. Cardinality(Holding) = 0 <=> Holding = {}
  BY SubsetFinite, FS_EmptySet
<1>4. QED
  BY ONLY <1>1, <1>2, <1>3, SubsetFinite

(* No task that starts ever calls run_next: it is alone on new_q.          *)
LEMMA NoEarlyRunNext ==
  ASSUME PacedInv, NEW t \in Tasks
  PROVE  ~StartRunNext(t) /\ (pc[t] \in {"load", "post", "spin", "take"} => ret[t] = "resume")
<1>a. StartsAlone /\ ret[t] \in {"check", "resume"}
  BY DEF PacedInv, IInv, TypeOK
<1>1. ~StartRunNext(t)
  <2>1. SUFFICES ASSUME StartRunNext(t) PROVE FALSE
    OBVIOUS
  <2>2. newQ = <<t>>
    BY <1>a, <2>1 DEF StartRunNext, StartsAlone, Starting
  <2>3. QED
    BY <2>1, <2>2 DEF StartRunNext
<1>2. pc[t] \in {"load", "post", "spin", "take"} => ret[t] = "resume"
  BY <1>a DEF StartsAlone, Starting
<1>3. QED
  BY <1>1, <1>2

(* A task can be counted, or move itself to ready_q, at any time.          *)
LEMMA StartAccounted ==
  ASSUME JoinInv, NEW t \in Tasks, StartCount(t) \/ StartMove(t)
  PROVE  Accounted'
<1> USE DEF Goto, queues, counters, sems, locals, Threads
<1>a. TypeOK /\ Accounted /\ StartsAlone /\ Main \notin Tasks
  BY TasksFinite DEF JoinInv, PacedInv, IInv
<1>1. /\ UNCHANGED <<doneQ, victim, prevTasks>>
      /\ pc[t] \in {"count", "check"} /\ pc'[t] \in {"check", "ready"}
      /\ \A x \in Threads : x # t => pc'[x] = pc[x]
  BY <1>a DEF StartCount, StartMove, TypeOK
<1>2. pc'[Main] = pc[Main] /\ (Joining' <=> Joining) /\ (InRun' <=> InRun)
  BY <1>a, <1>1 DEF Joining, InRun
<1>3. pc[t] = "check" => ntasks' = ntasks
  BY <1>1 DEF StartCount, StartMove
<1>4. \A u \in Tasks : pc'[u] = "count" => pc[t] = "check" /\ pc[u] = "count"
  BY <1>a, <1>1 DEF StartsAlone, Starting
<1>5. pc[t] = "count" => pc[Main] # "link"
  BY <1>a DEF Accounted
<1>6. QED
  BY <1>a, <1>1, <1>2, <1>3, <1>4, <1>5 DEF Accounted, Ended

(* Any other step of a task that does not end it is one within a run.      *)
LEMMA TaskAccounted ==
  ASSUME JoinInv, NEW t \in Tasks, TaskStep(t),
         ~StartCount(t), ~StartMove(t), ~StartDone(t)
  PROVE  Accounted'
<1> USE DEF Goto, queues, counters, sems, locals, Threads
<1>a. TypeOK /\ Accounted /\ Main \notin Tasks /\ PacedInv
  BY TasksFinite DEF JoinInv, PacedInv, IInv
<1>b. ~StartRunNext(t)
  BY <1>a, NoEarlyRunNext
<1>c. ret[t] \in {"check", "resume"}
  BY <1>a DEF TypeOK
<1> DEFINE Steps == \/ StartWait(t) \/ StartEnter(t) \/ StartLeave(t) \/ StartUncount(t)
                    \/ StartSignal(t) \/ RunNextLoad(t) \/ RunNextPost(t) \/ RunNextSpin(t)
                    \/ RunNextTake(t) \/ Resched(t) \/ ReschedRunNext(t) \/ ReschedAlone(t)
                    \/ ReschedResume(t)
<1>1. Steps
  BY <1>b DEF TaskStep
<1>2. UNCHANGED <<doneQ, victim, prevTasks>> /\ \A x \in Threads : x # t => pc'[x] = pc[x]
  BY <1>a, <1>1 DEF TypeOK, StartWait, StartEnter, StartLeave, StartUncount, StartSignal, RunNextLoad,
     RunNextPost, RunNextSpin, RunNextTake, Resched, ReschedRunNext, ReschedAlone, ReschedResume
<1>3. /\ pc[t] \notin {"none", "count", "check", "move", "exited", "freed"}
      /\ pc'[t] \notin {"none", "count", "link", "grow", "freed"}
      /\ pc'[t] \in Ended => pc[t] \in Ended
      /\ pc[t] = "signal" => pc'[t] = "exited"
  BY <1>a, <1>c, <1>1 DEF TypeOK, StartWait, StartEnter, StartLeave, StartUncount, StartSignal, RunNextLoad,
     RunNextPost, RunNextSpin, RunNextTake, Resched, ReschedRunNext, ReschedAlone, ReschedResume, Ended
<1>4. pc'[Main] = pc[Main] /\ (Joining' <=> Joining) /\ (InRun' <=> InRun)
  BY <1>a, <1>2 DEF Joining, InRun
<1>5. InRun
  <2>1. CASE pc[t] = "ready"
    <3>1. run > 0
      BY <1>1, <2>1 DEF StartWait, StartEnter, StartLeave, StartUncount, StartSignal, RunNextLoad,
         RunNextPost, RunNextSpin, RunNextTake, Resched, ReschedRunNext, ReschedAlone, ReschedResume
    <3>2. QED
      BY <1>a, <3>1, BatonPlace
  <2>2. CASE pc[t] # "ready"
    BY <1>a, <1>3, <2>2 DEF Accounted
  <2>3. QED
    BY <2>1, <2>2
<1>6. pc[Main] \notin {"link", "grow"}
  BY <1>5 DEF InRun
<1>7. QED
  BY <1>a, <1>2, <1>3, <1>4, <1>5, <1>6 DEF Accounted

(* A task that ends is on done_q from then on.                             *)
LEMMA EndAccounted ==
  ASSUME JoinInv, NEW t \in Tasks, StartDone(t)
  PROVE  Accounted'
<1> USE DEF Goto, queues, counters, sems, locals, Threads
<1>a. TypeOK /\ Accounted /\ Main \notin Tasks
  BY TasksFinite DEF JoinInv, PacedInv, IInv
<1>1. /\ UNCHANGED <<victim, prevTasks, ntasks>> /\ doneQ' = Append(doneQ, t)
      /\ pc[t] = "move" /\ pc'[t] = "uncount"
      /\ \A x \in Threads : x # t => pc'[x] = pc[x]
  BY <1>a DEF StartDone, TypeOK
<1>2. pc'[Main] = pc[Main] /\ (Joining' <=> Joining) /\ (InRun' <=> InRun)
  BY <1>a, <1>1 DEF Joining, InRun
<1>3. InRun /\ pc[Main] \notin {"sweep", "sweepjoin", "last"}
  BY <1>a, <1>1 DEF Accounted
<1>4. /\ Len(doneQ) + 1 \in 1..Len(doneQ') /\ doneQ'[Len(doneQ) + 1] = t
      /\ \A i \in 1..Len(doneQ) : i \in 1..Len(doneQ') /\ doneQ'[i] = doneQ[i]
  BY <1>a, <1>1, AppendProperties DEF TypeOK
<1>5. \A u \in Tasks : pc'[u] \in Ended =>
        \/ Joining' /\ victim' = u
        \/ \E i \in 1..Len(doneQ') : doneQ'[i] = u
  <2>1. TAKE u \in Tasks
  <2>2. CASE u = t
    BY <1>4, <2>2
  <2>3. CASE u # t
    BY <1>a, <1>1, <1>2, <1>4, <2>3 DEF Accounted
  <2>4. QED
    BY <2>2, <2>3
<1>6. QED
  BY <1>a, <1>1, <1>2, <1>3, <1>5 DEF Accounted

(* The owner is the only one who pushes, and only outside of a run.        *)
LEMMA PushAccounted ==
  ASSUME Paced, ~Nested, JoinInv, NEW th \in Threads, PushStep(th)
  PROVE  Accounted'
<1> USE DEF Goto, queues, counters, sems, locals, Threads
<1>a. TypeOK /\ Accounted /\ Main \notin Tasks
  BY TasksFinite DEF JoinInv, PacedInv, IInv
<1>b. th = Main
  BY <1>a DEF PushStep, PushRead, PushLink, PushGrow, MayPush, Accounted
<1>1. CASE PushRead(Main)
  <2>1. /\ UNCHANGED <<doneQ, victim, ntasks>> /\ prevTasks'[Main] = ntasks
        /\ pc[Main] = "idle" /\ pc'[Main] = "link" /\ \A x \in Tasks : pc'[x] = pc[x]
    BY <1>1, <1>a DEF PushRead, MayPush, TypeOK
  <2>2. \A x \in Tasks : pc[x] # "count"
    BY <2>1, <1>a DEF Accounted
  <2>3. QED
    BY <1>a, <2>1, <2>2 DEF Accounted, InRun, Joining
<1>2. CASE PushLink(Main)
  <2>1. PICK t \in Tasks :
          /\ pc[t] = "none" /\ pc' = [pc EXCEPT ![Main] = "grow", ![t] = "count"]
    BY <1>2 DEF PushLink
  <2>2. /\ UNCHANGED <<doneQ, victim, ntasks, prevTasks>> /\ pc[Main] = "link"
        /\ pc'[Main] = "grow" /\ pc'[t] = "count" /\ \A x \in Tasks : x # t => pc'[x] = pc[x]
    BY <1>2, <1>a, <2>1 DEF PushLink, TypeOK
  <2>3. ntasks = prevTasks[Main]
    BY <1>a, <2>2 DEF Accounted
  <2>4. QED
    BY <1>a, <2>1, <2>2, <2>3 DEF Accounted, InRun, Joining, Ended
<1>3. CASE PushGrow(Main)
  <2>1. /\ UNCHANGED <<doneQ, victim, ntasks>> /\ ntasks # prevTasks[Main]
        /\ pc[Main] = "grow" /\ pc'[Main] = "idle" /\ \A x \in Tasks : pc'[x] = pc[x]
    BY <1>3, <1>a DEF PushGrow, PushReturnsTo, TypeOK
  <2>2. \A x \in Tasks : pc[x] # "count"
    BY <2>1, <1>a DEF Accounted
  <2>3. QED
    BY <1>a, <2>1, <2>2 DEF Accounted, InRun, Joining
<1>4. QED
  BY <1>b, <1>1, <1>2, <1>3 DEF PushStep

(* cx_sched_run leaves its loop when no thread is counted, and returns     *)
(* when done_q is empty as well.                                           *)
LEMMA RunAccounted ==
  ASSUME JoinInv, RunPost \/ RunStep
  PROVE  Accounted'
<1> USE DEF Goto, queues, counters, sems, locals, Threads
<1>a. TypeOK /\ Accounted /\ DoneOnce /\ TaskCount /\ Main \notin Tasks
  BY TasksFinite DEF JoinInv, PacedInv, IInv
<1>b. doneQ \in Seq(Tasks) /\ \A t \in Tasks : pc[t] \in TaskPc
  BY <1>a DEF TypeOK
<1>c. UNCHANGED <<ntasks, prevTasks>>
  BY DEF RunPost, RunStep, RunLoop, RunWaitDone, RunRecheck, RunReap, RunJoin, RunSweep,
     RunSweepJoin, RunTakeBack
<1>d. pc[Main] \notin {"link", "grow"} /\ pc'[Main] \notin {"link", "grow"}
  BY <1>a DEF RunPost, RunStep, RunLoop, RunWaitDone, RunRecheck, RunReap, RunJoin, RunSweep,
     RunSweepJoin, RunTakeBack, TypeOK
<1>e. \A t \in Tasks : pc[t] # "count"
  BY <1>a, <1>d DEF Accounted
<1>1. CASE RunPost \/ RunWaitDone
  <2>1. /\ UNCHANGED <<doneQ, victim>> /\ ~Joining /\ ~Joining' /\ \A t \in Tasks : pc'[t] = pc[t]
        /\ InRun' /\ pc'[Main] \notin {"sweep", "sweepjoin", "last"}
    BY <1>1, <1>a DEF RunPost, RunWaitDone, TypeOK, Joining, InRun
  <2>2. QED
    BY <1>a, <1>c, <1>d, <1>e, <2>1 DEF Accounted
<1>2. CASE RunLoop \/ RunRecheck
  <2>1. /\ UNCHANGED <<doneQ, victim>> /\ ~Joining /\ ~Joining' /\ \A t \in Tasks : pc'[t] = pc[t]
        /\ InRun' /\ pc'[Main] # "last"
        /\ pc'[Main] \in {"sweep", "sweepjoin", "last"} => ntasks = 0
    BY <1>2, <1>a DEF RunLoop, RunRecheck, TypeOK, Joining, InRun
  <2>2. ntasks = 0 => \A t \in Tasks : pc[t] \in {"none", "signal", "exited", "freed"}
    <3>1. ntasks = 0 => Counted = {}
      BY <1>a, SubsetFinite, FS_EmptySet DEF TaskCount
    <3>2. QED
      BY <1>e, <3>1 DEF Counted
  <2>3. QED
    BY <1>a, <1>c, <1>d, <1>e, <2>1, <2>2 DEF Accounted
<1>3. CASE (RunReap \/ RunSweep) /\ doneQ = <<>>
  <2>1. /\ UNCHANGED <<doneQ, victim>> /\ ~Joining /\ ~Joining' /\ \A t \in Tasks : pc'[t] = pc[t]
        /\ InRun'
        /\ pc'[Main] \in {"sweep", "sweepjoin", "last"} => pc[Main] = "sweep"
    BY <1>3, <1>a DEF RunReap, RunSweep, TypeOK, Joining, InRun
  <2>2. QED
    BY <1>a, <1>c, <1>d, <1>e, <1>3, <2>1 DEF Accounted
<1>4. CASE (RunReap \/ RunSweep) /\ doneQ # <<>>
  <2>1. /\ ~Joining /\ Joining' /\ InRun' /\ pc'[Main] # "last"
        /\ \A t \in Tasks : pc'[t] = pc[t]
        /\ pc'[Main] \in {"sweep", "sweepjoin", "last"} => pc[Main] = "sweep"
        /\ victim' = Head(doneQ) /\ doneQ' = Tail(doneQ)
    BY <1>4, <1>a DEF RunReap, RunSweep, TypeOK, Joining, InRun
  <2>2. \A i \in 1..Len(doneQ) : doneQ[i] = victim' \/ \E j \in 1..Len(doneQ') : doneQ'[j] = doneQ[i]
    <3>1. /\ Len(doneQ) \in Nat /\ Len(doneQ') = Len(doneQ) - 1 /\ victim' = doneQ[1]
          /\ \A j \in 1..Len(doneQ') : doneQ'[j] = doneQ[j+1]
      BY <1>4, <1>b, <2>1, HeadTailProperties
    <3>2. ASSUME NEW i \in 1..Len(doneQ), i # 1
          PROVE  i - 1 \in 1..Len(doneQ') /\ doneQ'[i-1] = doneQ[i]
      BY <3>1, <3>2
    <3>3. QED
      BY <3>1, <3>2
  <2>3. \A t \in Tasks : pc'[t] \in Ended =>
          (Joining' /\ victim' = t) \/ \E i \in 1..Len(doneQ') : doneQ'[i] = t
    BY <1>a, <2>1, <2>2 DEF Accounted
  <2>4. QED
    BY <1>a, <1>c, <1>d, <1>e, <2>1, <2>3 DEF Accounted
<1>5. CASE RunJoin \/ RunSweepJoin
  <2>1. /\ UNCHANGED doneQ /\ Joining /\ ~Joining' /\ victim \in Tasks
        /\ InRun' /\ pc'[Main] # "last"
        /\ pc'[Main] \in {"sweep", "sweepjoin", "last"} => pc[Main] = "sweepjoin"
        /\ pc'[victim] = "freed" /\ \A t \in Tasks : t # victim => pc'[t] = pc[t]
    <3>1. Joining /\ victim \in Tasks
      BY <1>5, <1>a DEF RunJoin, RunSweepJoin, Joining, DoneOnce
    <3>2. QED
      BY <1>5, <1>a, <3>1 DEF RunJoin, RunSweepJoin, TypeOK, Joining, InRun
  <2>2. QED
    BY <1>a, <1>c, <1>d, <1>e, <2>1 DEF Accounted, Ended
<1>6. CASE RunTakeBack
  <2>1. /\ UNCHANGED <<doneQ, victim>> /\ pc[Main] = "last" /\ pc'[Main] = "idle"
        /\ \A t \in Tasks : pc'[t] = pc[t]
    BY <1>6, <1>a DEF RunTakeBack, TypeOK
  <2>2. \A t \in Tasks : pc[t] \in {"none", "freed"}
    <3>1. doneQ = <<>> /\ Len(doneQ) = 0 /\ ~Joining
      BY <1>a, <2>1 DEF Accounted, Joining
    <3>2. QED
      BY <1>a, <2>1, <3>1 DEF Accounted, Ended
  <2>3. QED
    BY <1>a, <1>c, <2>1, <2>2 DEF Accounted, Joining, Ended
<1>7. QED
  BY <1>1, <1>2, <1>3, <1>4, <1>5, <1>6 DEF RunStep

(* JoinInv is inductive for such programs.                                 *)
LEMMA JoinNext == Paced /\ ~Nested /\ JoinInv /\ [Next]_vars => JoinInv'
<1> SUFFICES ASSUME Paced, ~Nested, JoinInv, [Next]_vars PROVE JoinInv'
  OBVIOUS
<1>1. PacedInv' /\ DoneOnce'
  BY PacedNext, DoneOnceNext DEF JoinInv, PacedInv, IInv
<1>2. Accounted'
  <2>1. CASE UNCHANGED vars
    BY <2>1 DEF vars, queues, counters, locals, JoinInv, Accounted, Joining, InRun
  <2>2. QED
    BY <2>1, StartAccounted, TaskAccounted, EndAccounted, PushAccounted, RunAccounted
       DEF Next, Quit
<1>3. QED
  BY <1>1, <1>2 DEF JoinInv

(* There is nothing to join at first.                                      *)
LEMMA JoinInit == Init => JoinInv
<1> SUFFICES ASSUME Init PROVE JoinInv
  OBVIOUS
<1>1. PacedInv
  BY InitInv, TasksFinite DEF PacedInv, StartsAlone, Init, Starting, Threads
<1>2. Accounted
  BY TasksFinite DEF Init, Accounted, Ended, Joining, InRun, Threads
<1>3. QED
  BY <1>1, <1>2, DoneOnceInit DEF JoinInv

(* When tasks do not push, a run that is about to return has joined every  *)
(* task that was pushed before it.                                         *)
LEMMA AllJoined == JoinInv => RunJoinsAll
<1> SUFFICES ASSUME JoinInv, pc[Main] = "last" PROVE \A t \in Tasks : pc[t] \in {"none", "freed"}
  BY DEF RunJoinsAll
<1>1. doneQ = <<>> /\ Len(doneQ) = 0 /\ ~Joining
  BY DEF JoinInv, Accounted, Joining
<1>2. QED
  BY <1>1 DEF JoinInv, Accounted, Ended

(* The same of every reachable state, for any number of tasks and runs.    *)
THEOREM RunJoins ==
  ASSUME Paced, ~Nested
  PROVE  Spec => []RunJoinsAll
<1>1. JoinInv /\ [Next]_vars => JoinInv'
  BY JoinNext
<1>2. QED
  BY <1>1, JoinInit, AllJoined, PTL DEF Spec

-----------------------------------------------------------------------------
(* The refinement: what each step is for Baton. *)

(* Who has the baton of Baton, in the terms of threads.                    *)
LEMMA WhoIs ==
  ASSUME JoinInv
  PROVE  /\ ~InRun => BatonWho = Main /\ Holding = {}
         /\ InRun /\ Holding = {} => BatonWho = BatonFree
         /\ \A t \in Holding : InRun /\ BatonWho = t /\ Holding = {t}
         /\ BatonFree # Main /\ BatonFree \notin Tasks
<1>1. Cooperative
  BY PacedExclusive DEF JoinInv
<1>2. BatonFree # Main /\ BatonFree \notin Tasks
  BY BoundsAssumption DEF BatonFree, Main, Tasks
<1>3. ASSUME NEW t \in Holding PROVE InRun /\ BatonWho = t /\ Holding = {t}
  <2>1. InRun /\ \A u \in Holding : u = t
    BY <1>1, <1>3, OneHolder
  <2>2. t \in Tasks
    BY DEF Holding
  <2>3. (CHOOSE u \in Tasks : u \in Holding) = t
    BY <2>1, <2>2
  <2>4. QED
    BY <2>1, <2>3 DEF BatonWho
<1>4. QED
  BY <1>2, <1>3, BatonPlace DEF BatonWho, JoinInv

(* The tasks that Baton calls live.                                        *)
Live == {t \in Tasks : pc[t] # "none"} \ Gone

(* A step that gives nobody the baton and ends no task changes nothing     *)
(* that Baton sees.                                                        *)
LEMMA Stutter ==
  ASSUME Holding' = Holding, InRun' <=> InRun, Gone' = Gone, Live' = Live
  PROVE  UNCHANGED Abstract!vars
<1>1. BatonWho' = BatonWho
  BY DEF BatonWho, BatonFree
<1>2. QED
  BY <1>1 DEF Abstract!vars, Live

(* Counting, moving, spinning and signalling are such steps.               *)
LEMMA TaskStutters ==
  ASSUME JoinInv, NEW t \in Tasks, TaskStep(t),
         ~StartWait(t), ~RunNextTake(t), ~RunNextPost(t), ~StartLeave(t)
  PROVE  UNCHANGED Abstract!vars
<1> USE DEF Goto, queues, counters, sems, locals, Threads
<1>a. TypeOK /\ Main \notin Tasks
  BY TasksFinite DEF JoinInv, PacedInv, IInv
<1>b. ~StartRunNext(t) /\ (pc[t] \in {"load", "post", "spin", "take"} => ret[t] = "resume")
  BY NoEarlyRunNext DEF JoinInv
<1> DEFINE Steps == \/ StartCount(t) \/ StartMove(t) \/ StartEnter(t) \/ StartDone(t)
                    \/ StartUncount(t) \/ StartSignal(t) \/ RunNextLoad(t) \/ RunNextSpin(t)
                    \/ Resched(t) \/ ReschedRunNext(t) \/ ReschedAlone(t) \/ ReschedResume(t)
<1>1. Steps
  BY <1>b DEF TaskStep
<1>2. /\ \A x \in Threads : x # t => pc'[x] = pc[x]
      /\ \A x \in Tasks : x # t => ret'[x] = ret[x]
  BY <1>a, <1>1 DEF TypeOK, StartCount, StartMove, StartEnter, StartDone, StartUncount, StartSignal,
     RunNextLoad, RunNextSpin, Resched, ReschedRunNext, ReschedAlone, ReschedResume
<1>3. Holding' = Holding
  <2>1. t \in Holding' <=> t \in Holding
    BY <1>a, <1>b, <1>1 DEF TypeOK, Holding, StartCount, StartMove, StartEnter, StartDone, StartUncount,
       StartSignal, RunNextLoad, RunNextSpin, Resched, ReschedRunNext, ReschedAlone, ReschedResume
  <2>2. QED
    BY <1>2, <2>1 DEF Holding
<1>4. Gone' = Gone /\ Live' = Live
  <2>1. (t \in Gone' <=> t \in Gone) /\ pc[t] # "none" /\ pc'[t] # "none"
    BY <1>a, <1>1 DEF TypeOK, Gone, StartCount, StartMove, StartEnter, StartDone, StartUncount,
       StartSignal, RunNextLoad, RunNextSpin, Resched, ReschedRunNext, ReschedAlone, ReschedResume
  <2>2. Gone' = Gone
    BY <1>2, <2>1 DEF Gone
  <2>3. QED
    BY <1>2, <2>1, <2>2 DEF Live
<1>5. InRun' <=> InRun
  BY <1>a, <1>2 DEF InRun
<1>6. QED
  BY <1>3, <1>4, <1>5, Stutter

(* Taking the semaphore is getting the baton, posting it giving it away.   *)
LEMMA TaskSwitches ==
  ASSUME JoinInv, NEW t \in Tasks,
         StartWait(t) \/ RunNextTake(t) \/ RunNextPost(t) \/ StartLeave(t)
  PROVE  Abstract!Resume(t) \/ Abstract!Yield(t) \/ Abstract!Finish(t)
<1> USE DEF Goto, queues, counters, sems, locals, Threads
<1>a. TypeOK /\ Main \notin Tasks /\ PacedInv
  BY TasksFinite DEF JoinInv, PacedInv, IInv
<1>b. pc[t] \in {"load", "post", "spin", "take"} => ret[t] = "resume"
  BY <1>a, NoEarlyRunNext
<1>c. ret' = ret /\ \A x \in Threads : x # t => pc'[x] = pc[x]
  BY <1>a DEF TypeOK, StartWait, RunNextTake, RunNextPost, StartLeave
<1>d. InRun' <=> InRun
  BY <1>a, <1>c DEF InRun
<1>1. CASE StartWait(t) \/ RunNextTake(t)
  <2>1. run > 0 /\ t \in Holding' /\ t \notin Gone /\ t \notin Gone' /\ pc[t] # "none" /\ pc'[t] # "none"
    BY <1>1, <1>a, <1>b DEF StartWait, RunNextTake, TypeOK, Holding, Gone
  <2>2. BatonWho = BatonFree
    BY <1>a, <2>1, BatonPlace, WhoIs
  <2>3. BatonWho' = t
    <3>1. Holding' = {t} /\ InRun'
      BY <1>a, <1>c, <1>d, <2>1, BatonPlace DEF Holding
    <3>2. (CHOOSE u \in Tasks : u \in {t}) = t
      OBVIOUS
    <3>3. QED
      BY <1>a, <3>1, <3>2 DEF BatonWho
  <2>4. Gone' = Gone
    BY <1>c, <2>1 DEF Gone
  <2>5. Live' = Live /\ t \in Live
    BY <1>c, <2>1, <2>4 DEF Live
  <2>6. QED
    BY <2>2, <2>3, <2>4, <2>5 DEF Abstract!Resume, Live
<1>2. CASE RunNextPost(t) \/ StartLeave(t)
  <2>1. t \in Holding
    BY <1>2, <1>b DEF RunNextPost, StartLeave, Holding
  <2>2. InRun /\ BatonWho = t /\ Holding = {t}
    BY <2>1, WhoIs
  <2>3. Holding' = {}
    BY <1>2, <1>a, <1>b, <1>c, <2>2 DEF RunNextPost, StartLeave, TypeOK, Holding
  <2>4. BatonWho' = BatonFree
    BY <1>d, <2>2, <2>3 DEF BatonWho, BatonFree
  <2>5. CASE RunNextPost(t)
    <3>1. t \notin Gone /\ t \notin Gone' /\ pc[t] # "none" /\ pc'[t] # "none"
      BY <2>5, <1>a DEF RunNextPost, TypeOK, Gone
    <3>2. Gone' = Gone
      BY <1>c, <3>1 DEF Gone
    <3>3. Live' = Live
      BY <1>c, <3>1, <3>2 DEF Live
    <3>4. QED
      BY <2>2, <2>4, <3>2, <3>3 DEF Abstract!Yield, Live
  <2>6. CASE StartLeave(t)
    <3>1. t \notin Gone /\ t \in Gone' /\ pc[t] # "none" /\ pc'[t] # "none"
      BY <2>6, <1>a DEF StartLeave, TypeOK, Gone
    <3>2. Gone' = Gone \cup {t}
      BY <1>c, <3>1 DEF Gone
    <3>3. Live' = Live \ {t}
      BY <1>c, <3>1, <3>2 DEF Live
    <3>4. QED
      BY <2>2, <2>4, <3>2, <3>3 DEF Abstract!Finish, Live
  <2>7. QED
    BY <1>2, <2>5, <2>6
<1>3. QED
  BY <1>1, <1>2

(* Linking a task is pushing it.                                           *)
LEMMA PushPushes ==
  ASSUME JoinInv, NEW th \in Threads, PushStep(th)
  PROVE  \/ UNCHANGED Abstract!vars
         \/ \E t \in Tasks : Abstract!Push(t)
<1> USE DEF Goto, queues, counters, sems, locals, Threads
<1>a. TypeOK /\ Main \notin Tasks
  BY TasksFinite DEF JoinInv, PacedInv, IInv
<1>b. pc[th] # "none" /\ ret' = ret
  BY DEF PushStep, PushRead, MayPush, PushLink, PushGrow
<1>1. CASE PushRead(th) \/ PushGrow(th)
  <2>1. \A x \in Threads : x # th => pc'[x] = pc[x]
    BY <1>1, <1>a DEF TypeOK, PushRead, PushGrow
  <2>2. Holding' = Holding
    BY <1>1, <1>a, <1>b DEF PushRead, PushGrow, MayPush, PushReturnsTo, Holding, TypeOK
  <2>3. Gone' = Gone
    BY <1>1, <1>a DEF PushRead, PushGrow, MayPush, PushReturnsTo, Gone, TypeOK
  <2>4. {t \in Tasks : pc'[t] # "none"} = {t \in Tasks : pc[t] # "none"}
    BY <1>1, <1>a DEF PushRead, PushGrow, MayPush, PushReturnsTo, TypeOK
  <2>5. InRun' <=> InRun
    BY <1>1, <1>a DEF PushRead, PushGrow, MayPush, PushReturnsTo, InRun, TypeOK
  <2>6. QED
    BY <2>2, <2>3, <2>4, <2>5, Stutter DEF Live
<1>2. CASE PushLink(th)
  <2>1. PICK t \in Tasks :
          /\ pc[t] = "none" /\ pc' = [pc EXCEPT ![th] = "grow", ![t] = "count"]
    BY <1>2 DEF PushLink
  <2>2. /\ pc[th] = "link" /\ t # th
        /\ pc'[th] = "grow" /\ pc'[t] = "count"
        /\ \A x \in Threads : x # t /\ x # th => pc'[x] = pc[x]
    BY <1>2, <1>a, <2>1 DEF PushLink, TypeOK
  <2>3. Holding' = Holding
    BY <1>b, <2>1, <2>2 DEF Holding
  <2>4. Gone' = Gone /\ t \notin Gone
    BY <2>1, <2>2 DEF Gone
  <2>5. Live' = Live \cup {t} /\ t \notin Live
    BY <2>1, <2>2, <2>4 DEF Live
  <2>6. InRun' <=> InRun
    BY <1>a, <2>2 DEF InRun
  <2>7. BatonWho' = BatonWho
    BY <2>3, <2>6 DEF BatonWho, BatonFree
  <2>8. BatonWho # BatonFree
    <3>1. CASE th = Main
      BY <2>2, <3>1, WhoIs DEF InRun
    <3>2. CASE th \in Holding
      <4>1. BatonWho = th /\ th \in Tasks
        BY <3>2, WhoIs DEF Holding
      <4>2. QED
        BY <4>1, WhoIs
    <3>3. QED
      BY <2>2, <3>1, <3>2 DEF Holding
  <2>9. QED
    BY <2>4, <2>5, <2>7, <2>8 DEF Abstract!Push, Live
<1>3. QED
  BY <1>1, <1>2 DEF PushStep

(* Posting the first baton is running, taking it back returning.           *)
LEMMA RunRuns ==
  ASSUME JoinInv, RunPost \/ RunStep
  PROVE  UNCHANGED Abstract!vars \/ Abstract!Run \/ Abstract!Return
<1> USE DEF Goto, queues, counters, sems, locals, Threads
<1>a. TypeOK /\ DoneOnce /\ Main \notin Tasks
  BY TasksFinite DEF JoinInv, PacedInv, IInv
<1>b. ret' = ret
  BY DEF RunPost, RunStep, RunLoop, RunWaitDone, RunRecheck, RunReap, RunJoin, RunSweep,
     RunSweepJoin, RunTakeBack
<1>1. CASE RunJoin \/ RunSweepJoin
  <2>1. victim \in Tasks
    BY <1>1, <1>a DEF RunJoin, RunSweepJoin, DoneOnce, Joining
  <2>2. /\ InRun /\ InRun' /\ pc[victim] = "exited" /\ pc'[victim] = "freed"
        /\ \A t \in Tasks : t # victim => pc'[t] = pc[t]
    BY <1>1, <1>a, <2>1 DEF RunJoin, RunSweepJoin, TypeOK, InRun
  <2>3. Holding' = Holding /\ Gone' = Gone
    BY <1>b, <2>1, <2>2 DEF Holding, Gone
  <2>4. Live' = Live
    BY <2>1, <2>2, <2>3 DEF Live
  <2>5. QED
    BY <2>2, <2>3, <2>4, Stutter
<1>2. ASSUME RunPost \/ RunLoop \/ RunWaitDone \/ RunRecheck \/ RunReap \/ RunSweep \/ RunTakeBack
      PROVE  Holding' = Holding /\ Gone' = Gone /\ Live' = Live
  <2>1. \A t \in Tasks : pc'[t] = pc[t]
    BY <1>2, <1>a DEF RunPost, RunLoop, RunWaitDone, RunRecheck, RunReap, RunSweep, RunTakeBack,
       TypeOK
  <2>2. Holding' = Holding /\ Gone' = Gone
    BY <1>b, <2>1 DEF Holding, Gone
  <2>3. QED
    BY <2>1, <2>2 DEF Live
<1>3. CASE RunPost
  <2>1. ~InRun /\ InRun'
    BY <1>3, <1>a DEF RunPost, InRun, TypeOK
  <2>2. Holding = {} /\ BatonWho = Main
    BY <2>1, WhoIs
  <2>3. BatonWho' = BatonFree
    BY <1>2, <1>3, <2>1, <2>2 DEF BatonWho, BatonFree
  <2>4. QED
    BY <1>2, <1>3, <2>2, <2>3 DEF Abstract!Run, Live
<1>4. CASE RunTakeBack
  <2>1. /\ InRun /\ ~InRun' /\ run > 0 /\ pc[Main] = "last"
    BY <1>4, <1>a DEF RunTakeBack, InRun, TypeOK
  <2>2. BatonWho = BatonFree
    BY <2>1, BatonPlace, WhoIs DEF JoinInv
  <2>3. BatonWho' = Main
    BY <2>1 DEF BatonWho
  <2>4. Live = {}
    BY <2>1, AllJoined DEF RunJoinsAll, Live, Gone
  <2>5. QED
    BY <1>2, <1>4, <2>2, <2>3, <2>4 DEF Abstract!Return, Live
<1>5. CASE RunLoop \/ RunWaitDone \/ RunRecheck \/ RunReap \/ RunSweep
  <2>1. InRun /\ InRun'
    BY <1>5, <1>a DEF RunLoop, RunWaitDone, RunRecheck, RunReap, RunSweep, InRun, TypeOK
  <2>2. QED
    BY <1>2, <1>5, <2>1, Stutter
<1>6. QED
  BY <1>1, <1>3, <1>4, <1>5 DEF RunStep

(* Every step of the threads is a step of Baton, or none.                  *)
LEMMA StepRefines ==
  Paced /\ ~Nested /\ JoinInv /\ [Next]_vars => [Abstract!Next]_(Abstract!vars)
<1> SUFFICES ASSUME Paced, ~Nested, JoinInv, [Next]_vars
             PROVE  Abstract!Next \/ UNCHANGED Abstract!vars
  OBVIOUS
<1>2. ASSUME NEW t \in Tasks, TaskStep(t) PROVE Abstract!Next \/ UNCHANGED Abstract!vars
  BY <1>2, TaskStutters, TaskSwitches DEF Abstract!Next
<1>3. ASSUME NEW th \in Threads, PushStep(th) PROVE Abstract!Next \/ UNCHANGED Abstract!vars
  BY <1>3, PushPushes DEF Abstract!Next
<1>4. ASSUME RunPost \/ RunStep PROVE Abstract!Next \/ UNCHANGED Abstract!vars
  BY <1>4, RunRuns DEF Abstract!Next
<1>5. ASSUME UNCHANGED vars PROVE UNCHANGED Abstract!vars
  BY <1>5, Stutter DEF vars, locals, Holding, InRun, Gone, Live
<1>6. QED
  BY <1>2, <1>3, <1>4, <1>5 DEF Next, Quit

(* POSIX threads, one semaphore and the spinning on ntasks and nruns       *)
(* implement the passing of one baton: it is the owner's, a task's or      *)
(* free, a task has it until it yields or finishes, and the owner gets it  *)
(* back when nobody is left.                                               *)
THEOREM Refinement ==
  ASSUME Paced, ~Nested
  PROVE  Spec => ImplementsBaton
<1>1. Init => Abstract!Init
  BY TasksFinite DEF Init, Abstract!Init, BatonWho, InRun, Gone, Threads
<1>2. JoinInv /\ [Next]_vars => JoinInv' /\ [Abstract!Next]_(Abstract!vars)
  BY JoinNext, StepRefines
<1>3. QED
  BY <1>1, <1>2, JoinInit, PTL DEF Spec, ImplementsBaton, Abstract!Spec
=============================================================================
