------------------------------ MODULE Handoff ------------------------------
(***************************************************************************)
(* What cixl's documentation promises of coroutines (README "Coroutines"): *)
(* they suspend, resume and restart the execution of a call.  Exactly one  *)
(* of the main program and the coroutines has its turn; a coroutine that   *)
(* suspends or ends gives the turn back to the one that resumed it.        *)
(***************************************************************************)
CONSTANTS Coros, Main

VARIABLES
  turn,     \* who is evaluating
  resumer,  \* who gets the turn back from an active coroutine
  phase     \* of each coroutine

vars == <<turn, resumer, phase>>

Init ==
  /\ turn = Main
  /\ resumer = [c \in Coros |-> Main]
  /\ phase = [c \in Coros |-> "fresh"]

Resume(c) ==
  /\ phase[c] \in {"fresh", "suspended"}
  /\ turn' = c
  /\ resumer' = [resumer EXCEPT ![c] = turn]
  /\ phase' = [phase EXCEPT ![c] = "active"]

GiveBack(c, to) ==
  /\ turn = c
  /\ turn' = resumer[c]
  /\ resumer' = [resumer EXCEPT ![c] = Main]
  /\ phase' = [phase EXCEPT ![c] = to]

Suspend(c) == GiveBack(c, "suspended")
End(c) == GiveBack(c, "done")

(* Whoever has the turn restarts, cancels or drops a coroutine. *)
Settle(c, from, to) ==
  /\ phase[c] \in from
  /\ phase' = [phase EXCEPT ![c] = to]
  /\ UNCHANGED <<turn, resumer>>

Restart(c) == Settle(c, {"suspended", "done"}, "fresh")
Cancel(c) == Settle(c, {"fresh", "suspended", "done"}, "cancelled")
Drop(c) == Settle(c, {"fresh", "suspended", "done", "cancelled"}, "gone")

Next ==
  \E c \in Coros :
    Resume(c) \/ Suspend(c) \/ End(c) \/ Restart(c) \/ Cancel(c) \/ Drop(c)

Spec == Init /\ [][Next]_vars
============================================================================
