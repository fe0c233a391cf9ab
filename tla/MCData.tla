------------------------------- MODULE MCData -------------------------------
(***************************************************************************)
(* Programs for Iters: what each may call, and what its variables hold.    *)
(***************************************************************************)
EXTENDS Iters

Empty ==
  [heap |-> [a \in Addr |-> Free], st |-> EmptyVec, vars |-> [x \in {"s", "t"} |-> NilBox],
   lost |-> [a \in Addr |-> 0], slabs |-> 0, fds |-> {}, leaked |-> {},
   stale |-> FALSE, broken |-> FALSE, wild |-> FALSE, aborted |-> FALSE, full |-> FALSE, err |-> FALSE]

(* r is the world so far and the value just made. *)
Of(w, b) == [w |-> w, b |-> b]
Made(w, obj, t, e) == LET r == New(w, obj) IN Of(r.w, Typed(t, e, r.v))
Let(x, r) == [r.w EXCEPT !.vars[x] = r.b]

MadeRef(w, b) == Made(w, RefObj(b), "ref", <<ElemOf(b)>>)
MadeStack(w, bs, e) ==
  LET r == FoldLeft(LAMBDA v, b : VecPush(v.w, v.vec, b), [w |-> w, vec |-> EmptyVec], bs)
  IN Made(r.w, [StackObj EXCEPT !.vec = r.vec], "stack", <<e>>)
MadePair(w, x, y) == Made(w, PairObj(x, y), "pair", <<x.t, y.t>>)
MadeTable(w, es) == Made(w, [TableObj EXCEPT !.entries = es], "table", <<"int", "opt">>)

(* [r 7], with a reference r that nothing else holds, or n of them. *)
StackOfRef(w, n) ==
  LET r == MadeRef(w, Num(1))
      q == MadeRef(r.w, Num(2))
  IN IF n = 1 THEN MadeStack(r.w, <<r.b, Num(7)>>, "any") ELSE MadeStack(q.w, <<r.b, q.b>>, "any")
StackOfStack(w) ==
  LET r == MadeStack(w, <<Num(1)>>, "int")
  IN MadeStack(r.w, <<r.b, Num(7)>>, "opt")
PairStack(w) ==
  LET p == MadePair(w, Num(1), Num(3))
      q == MadePair(p.w, Num(2), Num(0))
  IN MadeStack(q.w, <<p.b, q.b>>, "pair")
Table(w) ==
  LET r == MadeRef(w, Num(1))
  IN MadeTable(r.w, <<[key |-> Num(0), val |-> r.b], [key |-> Num(2), val |-> Num(7)]>>)
SymPairs(w) ==
  LET r == MadeRef(w, Num(1))
      p == MadePair(r.w, Box("sym", 2), r.b)
  IN MadeStack(p.w, <<p.b>>, "pair")
MadeRec(w) == Made(w, RecObj, "rec", <<>>)

P(ws, w) == [words |-> ws \cup {"$s", "return"}, world |-> w, steps |-> 6]
Longer(p, n) == [p EXCEPT !.steps = n]
One(r) == Let("s", r)
WithRef(w) == Let("t", MadeRef(w, Num(3)))

RecFields == <<"int", "any">>

(* A container that a function is at work on is changed by its action. *)
Changing ==
  { P({"act", "for", "pop", "push", "_"}, One(StackOfRef(Empty, 2))),
    P({"iter", "riter", "%", "_", "next", "pop", "push", "Stack new"}, One(StackOfRef(Empty, 2))),
    P({"act", "$t", "put-call", "0", "pop", "_"}, WithRef(One(StackOfRef(Empty, 1)))),
    P({"act", "sort", "sym x", "pop", "put", "0"}, One(StackOfRef(Empty, 2))),
    P({"act", "repeat", "2", "Ref new", "pop", "%"}, One(StackOfRef(Empty, 1))),
    P({"act", "put-call", "0", "Ref new", "delete", "put"}, One(Table(Empty))),
    P({"act", "for", "delete", "put", "0", "1", "_"}, One(Table(Empty))),
    P({"act", "set-call", "$t", "ref", "_"}, WithRef(One(MadeRef(Empty, Num(0))))),
    P({"act", "set", "set-call", "deref", "ref", "throw", "catch"}, One(MadeRef(Empty, Num(0)))) }

(* Sequences that fail half way. *)
Failing ==
  { P({"act", "map", "stack", "_", "throw", "catch"}, One(StackOfRef(Empty, 2))),
    P({"act", "map", "for", "..", "_"}, One(StackOfRef(Empty, 2))),
    P({"act", "filter", "for", "_", "#t", "#f", "|"}, One(StackOfRef(Empty, 1))),
    P({"act", "find-if", "_", "0", "throw", "catch"}, One(StackOfRef(Empty, 2))),
    P({"act", "iter", "stack", "..", "_", "Ref new", "throw"}, One(StackOfRef(Empty, 1))),
    P({"$t", "->", "stack", "Stack new", "clear", "_"}, One(StackOfStack(Empty))),
    P({"table", "->", "Table new", "rezip", "..", "a", "b"}, One(PairStack(Empty))),
    P({"->", "Rec new", "get", "put", "$t", "let t"}, One(SymPairs(Empty))),
    P({"act", "put-call", "Ref new", "get", "_", "sym x", "sym y"}, One(MadeRec(Empty))),
    P({"act", "map", "iter", "next", "drop", "is-done", "2"}, One(StackOfRef(Empty, 2))) }

(* Values that are shared. *)
Sharing ==
  { P({"%", "%%", "stash", ",", "_", "~"}, One(StackOfStack(Empty))),
    P({"%%", ",", "stash", "get", "0", "_"}, One(Table(Empty))),
    P({"ref", "%%", "stash", "Rec new", "len", "last"}, One(StackOfStack(Empty))),
    P({"0", "1", "2", "move", "stash", "get-rand"}, One(StackOfRef(Empty, 2))),
    P({"0", "1", "2", "3", "put", "len"}, One(Table(Empty))),
    P({"sort", "#nil", "pop", "0", "push", "put", "last"}, One(StackOfRef(Empty, 2))),
    P({"push", "stash", "pop", "get", "0", "|"}, One(StackOfStack(Empty))) }

(* A file that is open as descriptor fd; the standard ones need not be.    *)
MadeFile(w, t, fd) ==
  LET r == New([w EXCEPT !.fds = IF fd \in Fd THEN @ \cup {fd} ELSE @], FileObj(fd, FALSE))
  IN Of(r.w, Box(t, r.v))
WithSocket(w) == Let("t", MadeFile(w, "rwfile", 3))
WithBuf == WithSocket(Let("s", Made(Empty, BufObj, "buf", <<>>)))
Output == One(MadeFile(Empty, "wfile", 1))
Nils(w, n) == FoldLeft(Push, w, [i \in 1 .. n |-> NilBox])
MadeProc(w) == Made([w EXCEPT !.fds = @ \cup {4, 5, 6}], ProcObj(<<4, 5, 6>>), "proc", <<>>)

(* Descriptors that are opened, closed and handed to others. *)
Io ==
  { Longer(P({"fopen w", "close", "%", "_"}, Empty), 7),
    Longer(P({"fopen r", "$t", "attach", "close"}, WithSocket(Empty)), 5),
    Longer(P({"listen", "accept", "connect"}, Empty), 5),
    P({"$t", "accept", "close", "_"}, WithSocket(Empty)),
    P({"$t", "tell", "eof", "read-char", "close"}, WithSocket(Empty)),
    P({"$t", "lines", "reverse", "next"}, WithSocket(Empty)),
    P({"$t", "iter", "next", "close"}, WithSocket(Empty)),
    P({"iter", "next", "close", "lines"}, One(Made(Empty, BufObj, "buf", <<>>))),
    P({"Buf new", "%", "_"}, Empty),
    P({"fork", "in", "close", "_", "fopen w"}, Nils(Empty, 6)),
    P({"fork", "in", "out", "%", "_"}, Nils(Empty, 3)),
    P({"$t", "fork", "out", "error"}, Nils(WithSocket(Output), 3)),
    P({"$t", "fork", "#nil", "close"}, WithSocket(Output)),
    P({"kill", "-1 wait", "in", "error", "%", "let t"}, One(MadeProc(Empty))),
    Longer(P({"print", "flush", "clear", "read-bytes", "write-bytes"}, WithBuf), 5),
    Longer(P({"print", "flush", "str", "write-bytes"}, WithBuf), 7) }

Catalogue == Changing \cup Failing \cup Sharing \cup Io
=============================================================================
