------------------------------- MODULE Baton -------------------------------
(***************************************************************************)
(* What cixl's documentation promises of a scheduler and its tasks (README *)
(* "Tasks", devlog/faster_fibers.md): cooperative concurrency.  There is   *)
(* one baton.  Its owner hands it over by running the scheduler, a task    *)
(* that has it keeps it until it yields or finishes, and the owner gets it *)
(* back when no task is left.                                              *)
(***************************************************************************)
CONSTANTS Owner, Tasks, Free  \* Free is neither the owner nor a task

VARIABLES
  who,   \* who has the baton, or Free while it is passed on
  live,  \* the tasks that were pushed and have not finished
  gone   \* the tasks that have finished

vars == <<who, live, gone>>

Init == who = Owner /\ live = {} /\ gone = {}

Push(t) ==
  /\ who # Free
  /\ t \notin live \cup gone
  /\ live' = live \cup {t}
  /\ UNCHANGED <<who, gone>>

Run ==
  /\ who = Owner
  /\ who' = Free
  /\ UNCHANGED <<live, gone>>

Resume(t) ==
  /\ who = Free
  /\ t \in live
  /\ who' = t
  /\ UNCHANGED <<live, gone>>

Yield(t) ==
  /\ who = t
  /\ who' = Free
  /\ UNCHANGED <<live, gone>>

Finish(t) ==
  /\ who = t
  /\ who' = Free
  /\ live' = live \ {t}
  /\ gone' = gone \cup {t}

Return ==
  /\ who = Free
  /\ live = {}
  /\ who' = Owner
  /\ UNCHANGED <<live, gone>>

Next ==
  \/ Run \/ Return
  \/ \E t \in Tasks : Push(t) \/ Resume(t) \/ Yield(t) \/ Finish(t)

Spec == Init /\ [][Next]_vars
============================================================================
