-------------------------------- MODULE Poll --------------------------------
(***************************************************************************)
(* Polling with callbacks: src/cixl/poll.c and src/cixl/lib/poll.c.        *)
(*                                                                         *)
(* A poll keeps two vectors, sorted by file descriptor: the pollfd array   *)
(* and the callbacks.  They are changed together, and are one sequence of  *)
(* entries here.  cx_poll_wait calls the callbacks of what poll(2) reports *)
(* one by one; they are ordinary code and may change the very entries the  *)
(* loop looks at.                                                          *)
(***************************************************************************)
EXTENDS Integers, SequencesExt

CONSTANTS
  Fds,       \* file descriptors
  MaxOps,    \* bound: registrations, withdrawals and deletions
  MaxWaits,  \* bound: calls of wait
  MaxDepth   \* bound: waits inside of the callbacks of another one

ASSUME PollAssumption ==
  Fds \subseteq Nat /\ MaxOps \in Nat /\ MaxWaits \in Nat /\ MaxDepth \in Nat

Dirs == {"in", "out"}                \* POLLIN and POLLOUT
Flags == Dirs \cup {"hup", "err"}    \* err: POLLERR and POLLNVAL
Junk == <<>>                         \* memory that nobody has written to

(* The callback a program registers for f and d stands for any value. *)
Boxes == (Fds \X Dirs) \cup {Junk}
NoCall == [at |-> Junk, box |-> Junk]

VARIABLES
  tame,     \* whether callbacks keep to what the loop can stand; see Allowed
  entries,  \* files and fds
  frames,   \* the calls of cx_poll_wait: rem, and the callback that is called
  held,     \* how many references to each callback were taken and not given back
  due,      \* what poll(2) has reported, and was not answered by a call
  gone,     \* whether the last reference to the poll is gone
  ops, waits

vars == <<tame, entries, frames, held, due, gone, ops, waits>>

Entry == [fd : Fds, events : SUBSET Dirs, revents : SUBSET Flags, in : Boxes, out : Boxes]

(* Types; above all, no callback is released more often than it was copied. *)
TypeOK ==
  /\ tame \in BOOLEAN /\ gone \in BOOLEAN
  /\ entries \in Seq(Entry)
  /\ frames \in Seq([rem : Nat, call : [at : Boxes, box : Boxes]])
  /\ held \in [Fds \X Dirs -> Nat]
  /\ due \subseteq Fds \X Flags
  /\ ops \in 0 .. MaxOps /\ waits \in 0 .. MaxWaits

Init ==
  /\ tame \in BOOLEAN
  /\ entries = <<>> /\ frames = <<>>
  /\ held = [x \in Fds \X Dirs |-> 0]
  /\ due = {} /\ gone = FALSE
  /\ ops = 0 /\ waits = 0

Found(f) == \E i \in DOMAIN entries : entries[i].fd = f
Pos(f) == 1 + Cardinality({i \in DOMAIN entries : entries[i].fd < f})

(* Code of the program runs, outside of any wait or as a callback. *)
Inside == frames # <<>>
CodeRuns == ~gone /\ (Inside => Last(frames).call # NoCall)
Op == CodeRuns /\ ops < MaxOps /\ ops' = ops + 1

-----------------------------------------------------------------------------
Taken(h, f, d) == [h EXCEPT ![<<f, d>>] = @ + 1]

(* cx_box_deinit of the callbacks of an entry for some of the directions. *)
Released(h, e, D) == [x \in Fds \X Dirs |-> h[x] - Cardinality({d \in D : e[d] = x})]

(* cx_poll_read and cx_poll_write of a file that is polled already.       *)
Reregister(f, d) ==
  /\ Op /\ Found(f)
  /\ LET e == entries[Pos(f)] IN
     /\ entries' = [entries EXCEPT ![Pos(f)] = [e EXCEPT !.events = @ \cup {d}, ![d] = <<f, d>>]]
     /\ held' = Taken(Released(held, e, {d} \cap e.events), f, d)
  /\ UNCHANGED <<tame, frames, due, gone, waits>>

(* What is in the memory at index i when cx_vec_insert has made room there: *)
(* the entry that was there, or what nobody has written to.                *)
OldBytes(f, i) ==
  IF i <= Len(entries) THEN {entries[i]}
  ELSE [fd : {f}, events : {{}}, revents : SUBSET {"in", "out", "hup"}, in : {Junk}, out : {Junk}]

(* Mutant: events is not cleared. *)
InsertKeepsEvents(f, d) ==
  /\ Op /\ ~Found(f)
  /\ tame => ~Inside
  /\ \E old \in OldBytes(f, Pos(f)) :
       entries' = InsertAt(entries, Pos(f),
                           [old EXCEPT !.fd = f, !.events = @ \cup {d}, ![d] = <<f, d>>])
  /\ held' = Taken(held, f, d)
  /\ UNCHANGED <<tame, frames, due, gone, waits>>

(* The same of a file that is not: fd and events are set, revents and the  *)
(* other callback stay as they are found.                                  *)
Insert(f, d) ==
  /\ Op /\ ~Found(f)
  /\ tame => ~Inside
  /\ \E old \in OldBytes(f, Pos(f)) :
       entries' = InsertAt(entries, Pos(f),
                           [old EXCEPT !.fd = f, !.events = {d}, ![d] = <<f, d>>])
  /\ held' = Taken(held, f, d)
  /\ UNCHANGED <<tame, frames, due, gone, waits>>

(* cx_poll_no_read and cx_poll_no_write: nothing is released. *)
Withdraw(f, d) ==
  /\ Op /\ Found(f)
  /\ LET e == entries[Pos(f)] IN
     /\ d \in e.events
     /\ tame /\ Inside => d \notin e.revents
     /\ entries' = [entries EXCEPT ![Pos(f)].events = @ \ {d}]
  /\ UNCHANGED <<tame, frames, held, due, gone, waits>>

(* cx_poll_delete *)
Delete(f) ==
  /\ Op /\ Found(f)
  /\ entries' = RemoveAt(entries, Pos(f))
  /\ held' = Released(held, entries[Pos(f)], entries[Pos(f)].events)
  /\ due' = {x \in due : x[1] # f}
  /\ UNCHANGED <<tame, frames, gone, waits>>

(* The last cx_poll_deref; the call of wait holds a reference as well. *)
Drop ==
  /\ ~gone /\ ~Inside
  /\ gone' = TRUE
  /\ held' = [x \in Fds \X Dirs |->
       held[x] - Cardinality({i \in DOMAIN entries : \E d \in entries[i].events : entries[i][d] = x})]
  /\ entries' = <<>> /\ due' = {}
  /\ UNCHANGED <<tame, frames, ops, waits>>

-----------------------------------------------------------------------------
(* What poll(2) may report: hangups and errors whatever is asked for; a     *)
(* file that has hung up is not writable.                                  *)
Reports ==
  {r \in SUBSET UNION {{e.fd} \X (e.events \cup {"hup", "err"}) : e \in ToSet(entries)} :
    \A f \in Fds : ~({<<f, "hup">>, <<f, "out">>} \subseteq r)}

(* cx_poll_wait up to its loop. *)
Wait ==
  /\ CodeRuns
  /\ waits < MaxWaits /\ waits' = waits + 1
  /\ Len(frames) < (IF tame THEN 1 ELSE MaxDepth)
  /\ \E r \in Reports :
       LET rev == [f \in Fds |-> {g \in Flags : <<f, g>> \in r}] IN
       /\ entries' = [i \in DOMAIN entries |-> [entries[i] EXCEPT !.revents = rev[entries[i].fd]]]
       /\ due' = r \ (Fds \X {"err"})
       /\ frames' = Append(frames, [rem |-> Cardinality({f \in Fds : rev[f] # {}}), call |-> NoCall])
  /\ UNCHANGED <<tame, held, gone, ops>>

(* Mutant: a hangup counts for both directions. *)
ReadyOnHangup(e, d) == d \in e.revents \/ "hup" \in e.revents

Ready(e, d) == d \in e.revents \/ (d \in e.events /\ "hup" \in e.revents)

Hits == {i \in DOMAIN entries : \E d \in Dirs : Ready(entries[i], d)}

(* Mutants: rem is counted down for each call; a hangup is not cleared. *)
RestCounted(rem, left) == rem - 1
ClearedOfDir(e, d) == e.revents \ {d}

Rest(rem, left) == IF left = {} THEN rem - 1 ELSE rem
Cleared(e, d) == e.revents \ {d, "hup"}

(* One round of the loop: the first entry that is hit is called, for       *)
(* reading rather than for writing, and the loop starts over.              *)
Dispatch ==
  /\ Inside /\ Last(frames).call = NoCall /\ Last(frames).rem # 0
  /\ \E i \in Hits :
       LET e == entries[i]
           d == IF Ready(e, "in") THEN "in" ELSE "out"
           left == Cleared(e, d) IN
       /\ \A j \in Hits : i <= j
       /\ entries' = [entries EXCEPT ![i].revents = left]
       /\ frames' = [frames EXCEPT ![Len(frames)] =
            [rem |-> Rest(@.rem, left), call |-> [at |-> <<e.fd, d>>, box |-> e[d]]]]
       /\ due' = due \ {<<e.fd, d>>, <<e.fd, "hup">>}
  /\ UNCHANGED <<tame, held, gone, ops, waits>>

WaitReturn ==
  /\ Inside /\ Last(frames).call = NoCall
  /\ Last(frames).rem = 0 \/ Hits = {}
  /\ frames' = Front(frames)
  /\ UNCHANGED <<tame, entries, held, due, gone, ops, waits>>

CallReturn ==
  /\ Inside /\ Last(frames).call # NoCall
  /\ frames' = [frames EXCEPT ![Len(frames)].call = NoCall]
  /\ UNCHANGED <<tame, entries, held, due, gone, ops, waits>>

(* The callback fails, and wait with it. *)
CallFail ==
  /\ Inside /\ Last(frames).call # NoCall
  /\ frames' = Front(frames)
  /\ UNCHANGED <<tame, entries, held, due, gone, ops, waits>>

-----------------------------------------------------------------------------
Next ==
  \/ \E f \in Fds : Delete(f) \/ \E d \in Dirs : Reregister(f, d) \/ Insert(f, d) \/ Withdraw(f, d)
  \/ Drop \/ Wait \/ Dispatch \/ WaitReturn \/ CallReturn \/ CallFail

Spec == Init /\ [][Next]_vars

(* The loop goes on, and callbacks come to an end. *)
FairSpec == Spec /\ WF_vars(Dispatch) /\ WF_vars(WaitReturn) /\ WF_vars(CallReturn \/ CallFail)

-----------------------------------------------------------------------------
(* For each direction that is asked for there is a callback of that very   *)
(* file to call and to release, whatever callbacks do: cx_poll_read,       *)
(* cx_poll_delete and cx_poll_deref release what they find there.          *)
RegisteredOwned ==
  \A i \in DOMAIN entries : \A d \in entries[i].events :
    entries[i][d] = <<entries[i].fd, d>> /\ held[<<entries[i].fd, d>>] > 0

(* The step is the call of a callback by the loop of cx_poll_wait. *)
Called ==
  /\ Inside /\ Len(frames') = Len(frames)
  /\ Last(frames).call = NoCall /\ Last(frames').call # NoCall
CalledAt == Last(frames').call.at
Reported == <<CalledAt[1], CalledAt[2]>> \in due \/ <<CalledAt[1], "hup">> \in due

(* A file's callbacks are called only if poll(2) has reported that file,   *)
(* since it is polled, and once for each report.                           *)
CalledWhenReported == [][Called => Reported]_vars

(* If callbacks neither add files nor withdraw what is pending, nor wait:  *)
(* who is called has been reported, is still registered, and it is its own *)
(* callback that is called.                                                *)
CalledAsRegistered ==
  [][tame /\ Called =>
      /\ Reported
      /\ CalledAt[2] \in entries[Pos(CalledAt[1])].events
      /\ Last(frames').call.box = CalledAt]_vars

(* And a wait that does not fail has called everyone who was reported: rem *)
(* does not end the loop before.                                           *)
EveryoneCalled ==
  [][tame /\ WaitReturn =>
      \A i \in DOMAIN entries : LET e == entries[i] IN
        /\ \A d \in e.events : <<e.fd, d>> \notin due
        /\ e.events # {} => <<e.fd, "hup">> \notin due]_vars

(* And wait returns: a report is answered once, not again and again. *)
WaitReturns == tame /\ Inside ~> ~Inside

(* References to callbacks are given back as soon as they are not asked for *)
(* any more.                                                               *)
NothingLeaked ==
  \A x \in Fds \X Dirs :
    held[x] = Cardinality({i \in DOMAIN entries : entries[i].fd = x[1] /\ x[2] \in entries[i].events})
=============================================================================
