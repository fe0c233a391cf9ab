----------------------------- MODULE Descriptors -----------------------------
(***************************************************************************)
(* Files and processes as the owners of descriptors: what file.c and       *)
(* proc.c open and close, and cx_proc_fork in the parent and in the child. *)
(*                                                                         *)
(* A world has a heap, the descriptors that are open (fds), those of them  *)
(* that nobody will close (leaked), and wild if numbers were closed that   *)
(* were never set.  The system gives out the lowest number.                *)
(***************************************************************************)
EXTENDS Values

CONSTANT Fd        \* bound on the descriptors, besides the three standard ones

ASSUME FdAssumption == Fd \subseteq Nat \ (0 .. 2)

VARIABLE world     \* see Heap

(* open(2), and close(2): of numbers that are not open, it does nothing.   *)
Unused(w) == Fd \ w.fds
Close(w, fds) == [w EXCEPT !.fds = @ \ fds]

FileObj(fd, ptr) == [k |-> "file", fd |-> fd, ptr |-> ptr, n |-> 1]

(* in, out and error: the descriptors of this side, and the files made of  *)
(* them so far.                                                            *)
ProcObj(fds) ==
  [k |-> "proc", pid |-> TRUE, fds |-> fds, ends |-> <<NilBox, NilBox, NilBox>>, n |-> 1]

IsFile(b) == b.t \in Files
FdOf(w, b) == Object(w, b).fd

(* cx_file_new, for the number that the system gave. *)
Opened(w, ptr) ==
  LET fd == Min(Unused(w))
  IN Place([w EXCEPT !.fds = @ \cup {fd}], FileObj(fd, ptr))

(* cx_file_close, also of the last reference; the standard ones stay open. *)
Closed(w, a) ==
  LET o == w.heap[a]
  IN IF o.fd \in 0 .. 2 THEN w
     ELSE [Close(w, {o.fd}) EXCEPT !.heap[a] = [o EXCEPT !.fd = -1, !.ptr = FALSE]]
FileFree(w, obj) == IF obj.fd \in 0 .. 2 THEN w ELSE Close(w, {obj.fd})
ProcFree(w, obj) == Close(w, {obj.fds[i] : i \in {j \in 1 .. 3 : obj.ends[j].t = "nil"}})

(* Mutant: the process forgets that the descriptor has a file. *)
EndUnkept(w, a, i) == Place(w, FileObj(w.heap[a].fds[i], FALSE)).w

(* The file of an end is made when it is asked for, and is the process's.  *)
EndKept(w, a, i) ==
  LET o == w.heap[a]
      r == Place(w, FileObj(o.fds[i], FALSE))
  IN IF o.ends[i].t # "nil" \/ o.fds[i] = -1 THEN w
     ELSE [r.w EXCEPT !.heap[a] = [o EXCEPT !.ends = [@ EXCEPT ![i] = Box("file", r.v)]]]

----------------------------------------------------------------------------
(* Processes: the pipes, one after the other, for what was not given: near *)
(* is the end of this process, far that of the other one.                  *)
Unpiped(w) == [w |-> w, near |-> <<-1, -1, -1>>, far |-> <<-1, -1, -1>>, ok |-> TRUE, at |-> 0]
Pipe(p, a, i) ==
  LET free == Unused(p.w)
      first == Min(free)
      second == Min(free \ {first})
  IN IF ~p.ok \/ IsFile(a[i]) THEN p
     ELSE IF ~\E x, y \in free : x # y THEN [p EXCEPT !.ok = FALSE, !.at = i]
     ELSE [p EXCEPT !.w = [p.w EXCEPT !.fds = @ \cup {first, second}],
                    !.near = [@ EXCEPT ![i] = IF i = 1 THEN second ELSE first],
                    !.far = [@ EXCEPT ![i] = IF i = 1 THEN first ELSE second]]
Piped(w, a) == Pipe(Pipe(Pipe(Unpiped(w), a, 1), a, 2), a, 3)

Numbers(ends) == {ends[i] : i \in 1 .. 3}

(* Without a process; after a pipe that cannot be made what would be there *)
(* if nothing had been given is closed, too.                               *)
NotForked(p) == Close(p.w, Numbers(p.far) \cup Numbers(p.near))
NotPiped(p, a) == [NotForked(p) EXCEPT !.wild = @ \/ \E j \in 1 .. 3 : j < p.at /\ IsFile(a[j])]

InParent(p) == Close(p.w, Numbers(p.far))

(* One of the three in the child: dup2 of a closed file fails, and ends it.*)
Std(i) == IF i = 1 THEN 0 ELSE 1    \* what cx_proc_fork compares with, error too
Redirect(p, c, b, i) ==
  IF ~c.ok \/ (IsFile(b) /\ FdOf(c.w, b) = Std(i)) THEN c
  ELSE IF ~IsFile(b) THEN [c EXCEPT !.w = Close(@, {p.far[i], p.near[i]})]
  ELSE IF FdOf(c.w, b) = -1 THEN [c EXCEPT !.ok = FALSE]
  ELSE [c EXCEPT !.w = Closed(@, b.v)]

(* The child: it goes on with the program, with an error if that failed.   *)
(* Then the far ends that were not used yet stay open.                     *)
InChild(p, a) ==
  LET started == [w |-> p.w, ok |-> TRUE]
      c == Redirect(p, Redirect(p, Redirect(p, started, a[1], 1), a[2], 2), a[3], 3)
      w == Close(c.w, Numbers(p.near))
  IN [c EXCEPT !.w = IF c.ok THEN w ELSE [w EXCEPT !.leaked = @ \cup (w.fds \cap Numbers(p.far))]]

----------------------------------------------------------------------------
(* Who will close a descriptor: its file, or a process that has made none. *)
Owns(w, a, i, d) ==
  IF i = 0 THEN w.heap[a].k = "file" /\ w.heap[a].fd = d
  ELSE w.heap[a].k = "proc" /\ w.heap[a].fds[i] = d /\ w.heap[a].ends[i].t = "nil"
Owners(w, d) == {o \in Addr \X (0 .. 3) : Owns(w, o[1], o[2], d)}

(* What is open has one owner, and what is owned is open, but for what     *)
(* nobody will close.                                                      *)
OwnedOnce(w) ==
  \A d \in Fd : IF d \in w.fds \ w.leaked THEN Cardinality(Owners(w, d)) = 1 ELSE Owners(w, d) = {}

(* Nothing that was taken out of a stack has been used, nor a length of    *)
(* before the last flush; Addr was enough.                                 *)
Sound == ~world.stale /\ ~world.full

(* Every open descriptor has exactly one owner, and every owner's is open, *)
(* in the parent and in the child, with any pipe or fork failing: nothing  *)
(* is closed twice, when its number may be somebody else's, and nothing is *)
(* left open, but for what a child that failed forgets.                    *)
DescriptorsOwned == Sound /\ ~world.wild => OwnedOnce(world)
=============================================================================
