------------------------------- MODULE Streams -------------------------------
(***************************************************************************)
(* The functions on files, buffers and processes: file.c, buf.c, proc.c,   *)
(* lib/io.c, lib/buf.c, lib/net.c and lib/proc.c.                          *)
(*                                                                         *)
(* A descriptor is its number; what is read from it, and whether reading,  *)
(* writing and waiting succeed, is up to others.                           *)
(***************************************************************************)
EXTENDS Data, Buffers

PushFile(w, t, ptr) ==
  LET r == Opened(w, ptr)
  IN Push(r.w, Box(t, r.v))

(* cx_file_ptr and its use: of a file that is closed there is none. *)
WithPtr(w, b) ==
  IF Object(w, b).ptr THEN w
  ELSE IF FdOf(w, b) # -1 THEN [w EXCEPT !.heap[b.v].ptr = TRUE]
  ELSE Abort(w)

----------------------------------------------------------------------------
(* Files. *)

(* fopen, listen and connect: a new descriptor, or an error; nil from      *)
(* fopen if there is no such file.                                         *)
Open(x, t, ptr) ==
  \E got \in {"file", "nil", "error"} :
    /\ got = "file" => Unused(world) # {}
    /\ got = "nil" => ptr
    /\ Native(x, <<>>, LAMBDA w, a :
         CASE got = "file" -> Done(PushFile(w, t, ptr))
           [] got = "nil" -> Done(Push(w, NilBox))
           [] OTHER -> Refuse(w))

(* The file that cannot be unblocked is forgotten. *)
Accept ==
  \E got \in {"client", "blocking", "again", "error"} :
    /\ got \in {"client", "blocking"} => Unused(world) # {}
    /\ Native("accept", <<"rfile">>, LAMBDA w, a :
         LET made == PushFile(w, "rwfile", FALSE)
         IN CASE FdOf(w, a[1]) = -1 \/ got = "error" -> Refuse(w)
              [] got = "client" -> Done(made)
              [] got = "blocking" -> IF made.full THEN Done(made) ELSE Refuse(Forget(Pop(made), Top(made)))
              [] OTHER -> Done(Push(w, NilBox)))

(* cx_file_close: the standard ones stay open. *)
CloseFile ==
  Native("close", <<"file">>, LAMBDA w, a :
    LET o == Object(w, a[1])
    IN IF o.fd \in 0 .. 2 THEN Done(w)
       ELSE IF o.fd = -1 /\ ~o.ptr THEN Refuse(w)
       ELSE Done(Closed(w, a[1].v)))

Attach ==
  Native("attach", <<"file", "file">>, LAMBDA w, a :
    IF -1 \in {FdOf(w, a[1]), FdOf(w, a[2])} THEN Refuse(w) ELSE Done(w))

(* Iterators keep a pointer to the file; only that of characters, which    *)
(* IterOf makes, keeps a box.                                              *)
Lines ==
  Native("lines", <<"rfile">>, LAMBDA w, a :
    Done(PushNew(Copy(w, a[1]), IterObj("line", Box("file", a[1].v), NilBox, 0, 0, 1), "iter", <<"str">>)))

ReverseFile ==
  \E empty \in BOOLEAN :
    Native("reverse", <<"rfile">>, LAMBDA w, a :
      Done(PushNew(WithPtr(Copy(w, a[1]), a[1]),
                   [IterObj("reverse", Box("file", a[1].v), NilBox, 0, 0, -1) EXCEPT !.done = empty],
                   "iter", <<"char">>)))

(* What is read stands for itself: a number.  From the end backwards the   *)
(* first character is the last one; forwards the end is found by reading.  *)
Read(w, got) ==
  CASE got = "item" -> Answer(w, Num(1))
    [] got = "last" -> Answer(Ended(w, Asked), Num(1))
    [] got = "again" -> Answer(w, NilBox)
    [] got = "end" -> End(w)
    [] OTHER -> world' = Err(w) /\ sig' = Sig("end") /\ UNCHANGED frames

CharNext == \E got \in {"item", "again", "end", "error"} :
  Asks("char") /\ Read(WithPtr(world, world.heap[Asked].src), got)
LineNext == \E got \in {"item", "again", "end", "error"} :
  Asks("line") /\ Read(WithPtr(world, world.heap[Asked].src), got)
ReverseNext == \E got \in {"item", "last", "again", "error"} :
  Asks("reverse") /\ Read(WithPtr(world, world.heap[Asked].src), got)

(* Functions that only need the pointer: tell and eof answer, read-char    *)
(* fails at the end of the file as well, and is nil if there is nothing.   *)
UsePtr(x, t) ==
  \E got \in {"value", "nil", "error"} :
    /\ got = "nil" => x = "read-char"
    /\ got = "error" => x # "eof"
    /\ Native(x, <<t>>, LAMBDA w, a :
         LET v == WithPtr(w, a[1])
         IN IF got = "error" THEN Refuse(v) ELSE Done(Push(v, IF got = "nil" THEN NilBox ELSE Num(1))))

----------------------------------------------------------------------------
(* Buffers.  The buffer is in variable s and what it is read from and      *)
(* written to in t: `$s $t 2 read-bytes _' is one step.                    *)

Buf == world.heap[world.vars["s"].v]
Peer == world.heap[world.vars["t"].v]
HasBuf == world.vars["s"].t = "buf" /\ Buf.ptr /\ IsFile(world.vars["t"])

NewBuf == Native("Buf new", <<>>, LAMBDA w, a : Done(PushNew(w, BufObj, "buf", <<>>)))

BufCall(x, buf) ==
  /\ HasBuf /\ Word(x)
  /\ world' = [world EXCEPT !.heap[world.vars["s"].v] = buf] /\ sig' = Sig("run")
  /\ UNCHANGED frames

PrintTo == BufCall("print", Printed(Buf))
FlushBuf == \E x \in {"flush", "str"} : BufCall(x, Flushed(Buf))
ClearBuf == BufCall("clear", Emptied(Buf))

ReadBytes ==
  /\ HasBuf /\ Word("read-bytes") /\ UNCHANGED frames
  /\ \E n \in 1 .. 2, got \in {"bytes", "end", "again", "error"}, k \in 0 .. 2 :
       /\ IF got = "bytes" THEN k \in 1 .. n ELSE k = 0
       /\ Peer.fd = -1 => got = "error"
       /\ LET w == [world EXCEPT !.heap[world.vars["s"].v] = Filled(Buf, n, k, got = "end")]
          IN IF got = "error" THEN world' = Err(w) /\ sig' = Sig("fail")
             ELSE world' = w /\ sig' = Sig("run")

(* len is as of the last flush.  EAGAIN counts as -1 bytes. *)
WriteBytes ==
  /\ HasBuf /\ Word("write-bytes") /\ UNCHANGED frames
  /\ \E got \in {"bytes", "again", "error"}, k \in -1 .. Max({0, Buf.len - Buf.pos}) :
       /\ (got = "again") <=> (k = -1)
       /\ got = "error" => k = 0
       /\ Peer.fd = -1 => got = "error"
       /\ LET w == [world EXCEPT !.heap[world.vars["s"].v] = Drained(Buf, k),
                                 !.stale = @ \/ Buf.len # Buf.wp \/ got = "again"]
          IN IF got = "error" THEN world' = Err(world) /\ sig' = Sig("fail")
             ELSE world' = w /\ sig' = Sig("run")

----------------------------------------------------------------------------
(* Processes. *)

GivenTypes == <<"rfile", "wfile", "wfile">>

Fork ==
  /\ Running /\ Depth(world) >= 3
  /\ \A i \in 1 .. 3 : Args(3)[i].t = "nil" \/ IsA(Args(3)[i].t, GivenTypes[i])
  /\ \E as \in {"parent", "child", "none"} :
       Native("fork", <<"opt", "opt", "opt">>, LAMBDA w, a :
         LET p == Piped(w, a)
             c == InChild(p, a)
         IN CASE ~p.ok -> Refuse(NotPiped(p, a))
              [] p.ok /\ as = "parent" -> Done(PushNew(InParent(p), ProcObj(p.near), "proc", <<>>))
              [] p.ok /\ as = "child" -> IF c.ok THEN Done(Push(c.w, NilBox)) ELSE Refuse(c.w)
              [] OTHER -> Refuse(NotForked(p)))

EndTypes == <<"wfile", "rfile", "rfile">>

EndOf(x, i) ==
  Native(x, <<"proc">>, LAMBDA w, a :
    LET kept == EndKept(w, a[1].v, i)
        end == kept.heap[a[1].v].ends[i]
    IN Done(IF end.t = "nil" THEN Push(kept, NilBox)
            ELSE PushCopy(kept, Box(EndTypes[i], end.v))))

(* A wait that fails leaves an error pending, and nil, and succeeds. *)
Exited(w, p, status) == Push([w EXCEPT !.heap[p.v].pid = FALSE], status)
Unwaited(w) == Push(Err(w), NilBox)

WaitFor ==
  \E got \in {"exit", "signal", "timeout"} :
    Native("-1 wait", <<"proc">>, LAMBDA w, a :
      IF ~Object(w, a[1]).pid \/ got = "timeout" THEN Done(Unwaited(w))
      ELSE Done(Exited(w, a[1], IF got = "exit" THEN Num(0) ELSE NilBox)))

(* With a time to wait: SIGKILL follows, and the error of the wait stays.  *)
Kill ==
  \E got \in {"exit", "signal", "unwaited", "killed", "error"} :
    Native("kill", <<"proc">>, LAMBDA w, a :
      IF ~Object(w, a[1]).pid \/ got = "error" THEN Done(Unwaited(w))
      ELSE IF got = "killed" THEN Done(Exited(Err(w), a[1], NilBox))
      ELSE Done(Exited(w, a[1], IF got = "exit" THEN Num(0) ELSE NilBox)))

----------------------------------------------------------------------------
IoWords ==
  \/ Open("fopen r", "rfile", TRUE) \/ Open("fopen w", "wfile", TRUE)
  \/ Open("listen", "rfile", FALSE) \/ Open("connect", "rwfile", FALSE)
  \/ UsePtr("tell", "file") \/ UsePtr("eof", "file") \/ UsePtr("read-char", "rfile")
  \/ Accept \/ CloseFile \/ Attach \/ Lines \/ ReverseFile
  \/ CharNext \/ LineNext \/ ReverseNext

BufWords == NewBuf \/ PrintTo \/ FlushBuf \/ ClearBuf \/ ReadBytes \/ WriteBytes

ProcWords == Fork \/ EndOf("in", 1) \/ EndOf("out", 2) \/ EndOf("error", 3) \/ WaitFor \/ Kill

----------------------------------------------------------------------------
(* The bytes of every buffer are kept: however reads and writes divide     *)
(* them, none is lost, and what room is sent along is none of them.        *)
BytesKept == Sound => \A a \in Addr : world.heap[a].k = "buf" => Kept(world.heap[a])
=============================================================================
