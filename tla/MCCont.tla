------------------------------- MODULE MCCont -------------------------------
(* Instances of Cont: which scheduler each task belongs to. *)
EXTENDS Cont, TLC

CONSTANTS t1, t2, t3, s1, s2

OneSched == t1 :> s1 @@ t2 :> s1

(* As in tests/task.cx: a task of one scheduler runs another one. *)
TwoScheds == t1 :> s1 @@ t2 :> s2 @@ t3 :> s2

NoTasks == <<>>
=============================================================================
