------------------------------ MODULE Meaning ------------------------------
(***************************************************************************)
(* What programs mean, from the structure of their tokens: no byte code,   *)
(* no program counter, no stacks of scopes, libraries and calls.  The      *)
(* reference that Eval and the code it compiles are compared with.         *)
(*                                                                         *)
(* w is a world: scopes in a heap, as in Eval, pending errors, the scope   *)
(* each function was defined in, what is being called, and how often each  *)
(* active call of a function in cixl has been asked to run again.          *)
(***************************************************************************)
EXTENDS Eval, Bmips

Sub(w, parent) ==
  [w EXCEPT !.heap = Append(@, [parent |-> parent, stack |-> <<>>, vars |-> <<>>, safe |-> TRUE])]
New1(w) == Len(w.heap) + 1
Bad(w) == w.errors # <<>>
DropTop(w, s) == Drop(w, s, 1)
Empty(w, s) == StackAt(w, s) = <<>>
TopOf(w, s) == Last(StackAt(w, s))
Lacks(w) == Throw(Throw(w, Msg("Stack is empty")), Msg("Missing arg"))

RECURSIVE Does(_, _, _), DoesOne(_, _, _), Calls(_, _, _), CallsBox(_, _, _), Repeats(_, _, _, _),
          Loops(_, _, _), Draws(_, _, _, _, _), Clauses(_, _, _), Handlers(_, _, _), Runs(_, _, _)

(* Tokens run one after another in scope s. *)
Does(ts, s, w) == FoldLeft(LAMBDA acc, t : DoesOne(t, s, acc), w, ts)

(* A scope that ends leaves its stack to the one around it, in any case.   *)
Inner(ts, s, w) == MoveStack(Does(ts, New1(w), Sub(w, s)), New1(w), s)
Collected(ts, s, w) ==
  LET w1 == Does(ts, New1(w), Sub(w, s))
  IN IF Bad(w1) THEN MoveStack(w1, New1(w), s)
     ELSE Push(w1, s, <<Box("Stack", StackAt(w1, New1(w)))>>)
Binds(t, s, w) ==
  LET Step(acc, x) ==
        IF Bad(acc) THEN acc
        ELSE IF Empty(acc, s) THEN Throw(acc, Msg("Stack is empty"))
        ELSE IF x.type # "none" /\ ~Is(TopOf(acc, s), x.type)
        THEN Throw(DropTop(acc, s), Msg("Expected type"))
        ELSE PutVar(DropTop(acc, s), s, x.id, TopOf(acc, s))
  IN FoldLeft(Step, Does(t.ts, s, w), Reverse(Typed(t.ids)))

(* The first clause whose condition holds. *)
Clauses(cs, s, w) ==
  IF cs = <<>> THEN w
  ELSE LET w1 == Does(Head(cs).c, s, w)
       IN IF Bad(w1) THEN w1
          ELSE IF Empty(w1, s) THEN Throw(w1, Msg("Stack is empty"))
          ELSE IF Holds(TopOf(w1, s)) THEN Does(Head(cs).ts, s, DropTop(w1, s))
          ELSE Clauses(Tail(cs), s, DropTop(w1, s))

(* A clause for all errors runs in any case and keeps the error; one for a *)
(* type takes the last error, if it is of the type.                        *)
Handlers(cs, s, w) ==
  LET Step(acc, c) ==
        IF c.c = "_"
        THEN IF Bad(acc)
             THEN LET e == Last(acc.errors)
                      w1 == Does(c.ts, s, [acc EXCEPT !.errors = Front(@)])
                  IN Throw(w1, e)
             ELSE Does(c.ts, s, acc)
        ELSE IF Bad(acc) /\ Is(Last(acc.errors), c.c)
        THEN Does(c.ts, s, Push([acc EXCEPT !.errors = Front(@)], s,
                                <<Box("Error", Last(acc.errors))>>))
        ELSE acc
  IN FoldLeft(Step, w, cs)

Applies(t, s, w) ==
  LET given == t.imp # "any" /\ Matches(w, t.imp, s)
      i == IF given THEN t.imp ELSE FuncMatch(w, t.f, s)
  IN IF i = "none" THEN Throw(w, Msg("Func not applicable")) ELSE Calls(i, s, w)

DoesOne(t, s, w) ==
  CASE t.k = "func" -> [w EXCEPT !.defined[t.i] = IF @ = 0 THEN s ELSE @]
    [] t.k = "catch" -> Handlers(t.cs, s, w)
    [] t.k \notin {"func", "catch"} /\ Bad(w) -> w
    [] t.k = "literal" /\ ~Bad(w) -> Push(w, s, <<t.v>>)
    [] t.k = "ref" /\ ~Bad(w) -> Push(w, s, <<Box("Func", t.f)>>)
    [] t.k = "var" /\ ~Bad(w) -> IF Bound(w, s, t.x) THEN Push(w, s, <<GetVar(w, s, t.x)>>)
                                 ELSE Throw(w, Msg("Unknown var"))
    [] t.k = "group" /\ ~Bad(w) -> Inner(t.ts, s, w)
    [] t.k = "stack" /\ ~Bad(w) -> Collected(t.ts, s, w)
    [] t.k = "lambda" /\ ~Bad(w) ->
         Push(Sub(w, s), s, <<Box("Lambda", [ts |-> t.ts, scope |-> New1(w)])>>)
    [] t.k = "let" /\ ~Bad(w) -> Binds(t, s, w)
    [] t.k = "switch" /\ ~Bad(w) -> Clauses(t.cs, s, w)
    [] t.k = "id" /\ ~Bad(w) -> Applies(t, s, w)

(* Calling a lambda lends it the stack. *)
CallsBox(v, s, w) ==
  CASE v.t = "Lambda" ->
         MoveStack(Does(v.v.ts, v.v.scope, MoveStack(w, s, v.v.scope)), v.v.scope, s)
    [] v.t = "Func" -> Applies(Id(v.v), s, w)
    [] v.t = "Fimp" -> IF Matches(w, v.v, s) THEN Calls(v.v, s, w) ELSE Throw(w, Msg("Func not applicable"))
    [] OTHER -> Push(w, s, <<v>>)

Repeats(n, v, s, w) == IF n <= 0 \/ Bad(w) THEN w ELSE Repeats(n - 1, v, s, CallsBox(v, s, w))
Loops(v, s, w) ==
  LET w1 == CallsBox(v, s, w)
  IN IF Bad(w1) THEN w1
     ELSE IF Empty(w1, s) THEN Lacks(w1)
     ELSE IF Holds(TopOf(w1, s)) THEN Loops(v, s, DropTop(w1, s)) ELSE DropTop(w1, s)
(* Everything a sequence has is left on the stack, for act to take it.     *)
Takes(f, v, act, s, w) ==
  IF Bad(w) THEN w ELSE IF f = ".." THEN Push(w, s, <<v>>) ELSE CallsBox(act, s, Push(w, s, <<v>>))
Draws(f, seq, act, s, w) ==
  LET w1 == CallsBox(seq, s, w)
  IN IF Bad(w1) THEN w1
     ELSE IF Empty(w1, s) THEN Throw(w1, Msg("Missing iter result"))
     ELSE IF TopOf(w1, s) = Nil THEN DropTop(w1, s)
     ELSE LET w2 == Takes(f, TopOf(w1, s), act, s, DropTop(w1, s))
          IN IF Bad(w2) THEN w2 ELSE Draws(f, seq, act, s, w2)
Traverses(f, seq, act, s, w) ==
  IF Callable(seq) THEN Draws(f, seq, act, s, w)
  ELSE FoldLeft(LAMBDA acc, v : Takes(f, v, act, s, acc), w, Items(seq))
Divides(f, a, s, w) ==
  LET q == Quotient(a[1].v, a[2].v)
  IN IF a[2].v = 0 THEN Throw(w, Msg("Division by zero"))
     ELSE Push(w, s, <<IntBox(IF f = "/" THEN q ELSE a[1].v - q * a[2].v)>>)
Junction(f, a, s, w) ==
  LET w1 == CallsBox(a[1], s, w)
      w2 == CallsBox(a[2], s, DropTop(w1, s))
  IN IF Bad(w1) THEN w1
     ELSE IF Empty(w1, s) THEN Lacks(w1)
     ELSE IF Holds(TopOf(w1, s)) = (f = "or") THEN w1
     ELSE IF ~Bad(w2) /\ Empty(w2, s) THEN Lacks(w2) ELSE w2
RunsNative(f, a, s, w) ==
  CASE f \in Pure -> Push(w, s, Result(f, a))
    [] f \in {"and", "or"} -> Junction(f, a, s, w)
    [] f \in {"if", "else", "if-else", "call"} ->
         IF Chosen(f, a) = <<>> THEN w ELSE CallsBox(Chosen(f, a)[1], s, w)
    [] f = "for" -> Traverses(f, a[1], a[2], s, w)
    [] f = ".." -> Traverses(f, a[1], Nil, s, w)
    [] f \in {"/", "mod"} -> Divides(f, a, s, w)
    [] f = "this-fimp" -> LET n == Len(w.active)
                          IN Push(w, s, <<IF n > 1 THEN Box("Fimp", w.active[n - 1]) ELSE Nil>>)
    [] f = "clock" -> Push(CallsBox(a[1], s, w), s, <<Elapsed>>)
    [] f = "times" -> Repeats(a[1].v, a[2], s, w)
    [] f = "while" -> Loops(a[1], s, w)
    [] f = "recall" -> IF w.again = <<>> THEN Throw(w, Msg("Nothing to recall"))
                       ELSE [w EXCEPT !.again[Len(w.again)] = @ + 1]
    [] f = "let" -> PutVar(w, s, a[1].v, a[2])
    [] f = "var" -> Push(w, s, <<IF Bound(w, s, a[1].v) THEN GetVar(w, s, a[1].v) ELSE Nil>>)
    [] f = "check" -> IF Holds(a[1]) THEN w ELSE Throw(w, Msg("Check failed"))
    [] f = "throw" -> Throw(w, IF a[1].t = "Error" THEN a[1].v ELSE a[1])
    [] f = "|" -> [w EXCEPT !.heap[s].stack = <<>>]
    [] f = "stash" -> [w EXCEPT !.heap[s].stack = <<Box("Stack", @)>>]
    [] f \in {"safe", "unsafe"} -> w

(* The body of a function runs until nobody asks for another round; then   *)
(* the results are checked, and nothing else may be left.                  *)
Arguments(i, in, from, w) ==
  LET as == Imp[i].args
      vs == TopN(StackAt(w, from), Len(as))
      Step(acc, k) == IF as[k].varg THEN acc
                      ELSE IF as[k].id # "" THEN PutVar(acc, in, as[k].id, vs[k])
                      ELSE Push(acc, in, <<vs[k]>>)
  IN FoldLeft(Step, Drop(w, from, Len(as)), [k \in 1..Len(as) |-> k])
Results(i, in, s, w) ==
  LET rs == Imp[i].rets
      st == StackAt(w, in)
      Taken(k) == Cardinality({j \in 1..k : ~rs[j].varg /\ rs[j].id = ""})
      Value(k) == IF rs[k].varg THEN rs[k].lit
                  ELSE IF rs[k].id # "" THEN GetVar(w, in, rs[k].id) ELSE st[Taken(k)]
      unbound == {k \in 1..Len(rs) : rs[k].id # "" /\ ~Bound(w, in, rs[k].id)}
      lacking == {k \in 1..Len(rs) : rs[k].id = "" /\ Taken(k) > Len(st)}
      misfits == {k \in (1..Len(rs)) \ (unbound \cup lacking) : ~rs[k].varg /\ ~Is(Value(k), rs[k].type)}
      k1 == Min(unbound \cup lacking \cup misfits)  \* the first that is wrong
      Wrong(text) == MoveStack(Throw(w, Msg(text)), in, s)
  IN IF unbound \cup lacking \cup misfits # {}
     THEN Wrong(IF k1 \in unbound THEN "Unknown var"
                ELSE IF k1 \in lacking THEN "Not enough return values" ELSE "Invalid return type")
     ELSE IF Taken(Len(rs)) < Len(st) THEN Wrong("Stack not empty on return")
     ELSE [w EXCEPT !.heap[in].stack = <<>>, !.heap[s].stack = @ \o [k \in 1..Len(rs) |-> Value(k)]]
Runs(i, in, w) ==
  LET w1 == Does(Imp[i].ts, in, w)
  IN IF Bad(w1) \/ Last(w1.again) = 0 THEN w1
     ELSE LET w2 == [w1 EXCEPT !.again[Len(w1.again)] = @ - 1]
          IN IF Matches(w2, i, in) THEN Runs(i, in, Arguments(i, in, in, w2))
             ELSE Throw(w2, Msg("Recall not applicable"))
Calls(i, s, w) ==
  LET n == Len(Imp[i].args)
      in == New1(w)
      w1 == [Arguments(i, in, s, Sub(w, w.defined[i])) EXCEPT !.active = Append(@, i), !.again = Append(@, 0)]
      w2 == Runs(i, in, w1)
      w3 == [w2 EXCEPT !.active = w.active, !.again = Front(@)]
      a == TopN(StackAt(w, s), n)
  IN IF Len(w.active) = MaxCalls THEN Throw(w, Msg("Max calls exceeded"))
     ELSE IF Imp[i].ptr
     THEN [RunsNative(Imp[i].func, a, s, [Drop(w, s, n) EXCEPT !.active = Append(@, i)])
             EXCEPT !.active = w.active]
     ELSE IF Bad(w3) THEN MoveStack(w3, in, s) ELSE Results(i, in, s, w3)

(* A line with an unknown function or type, or a type of nothing, is not  *)
(* run at all.                                                            *)
RECURSIVE Known(_)
Known(ts) ==
  \A k \in 1..Len(ts) :
    LET t == ts[k]
    IN CASE t.k = "id" -> IsFunc(t.f) /\ t.imp \in ImpsOf(t.f) \cup {"any"}
         [] t.k = "ref" -> IsFunc(t.f)
         [] t.k \in {"group", "stack", "lambda"} -> Known(t.ts)
         [] t.k = "let" -> Known(t.ts) /\ ~MissingId(t.ids)
         [] t.k = "switch" -> \A j \in 1..Len(t.cs) : Known(t.cs[j].c) /\ Known(t.cs[j].ts)
         [] t.k = "catch" -> \A j \in 1..Len(t.cs) : t.cs[j].c \in Types \cup {"_"} /\ Known(t.cs[j].ts)
         [] t.k = "func" -> Known(Imp[t.i].ts)
         [] OTHER -> TRUE

World == [heap |-> <<[parent |-> 0, stack |-> <<>>, vars |-> <<>>, safe |-> TRUE]>>,
          errors |-> <<>>, defined |-> [i \in DOMAIN Imp |-> 0], active |-> <<>>, again |-> <<>>]
Shows(out, w) ==
  [w |-> [w EXCEPT !.errors = <<>>],
   out |-> Append(out, [errors |-> ShownAll(w.errors),
                        stack |-> IF Bad(w) THEN <<>> ELSE ShownAll(StackAt(w, 1))])]
Reads(acc, ts) ==
  Shows(acc.out, IF Known(ts) THEN Does(ts, 1, acc.w) ELSE Throw(acc.w, Msg("Failed compiling")))
Meaning(lines) == FoldLeft(Reads, [w |-> World, out |-> <<>>], lines).out

-----------------------------------------------------------------------------
(* A program shows what it means: the results of its lines are those of    *)
(* the reference, interpreted or compiled to C, whatever was thrown,       *)
(* caught, recalled, called back or refused on the way.  A line in which a *)
(* return or a recall gives up ends with the errors the reference has, but *)
(* its stack is that of the scope that stayed open; what the lines behind  *)
(* it do in there is not claimed.                                          *)
Agree(r, e) ==
  /\ IF Last(<<Nil>> \o e.errors) = Msg("Failed compiling") THEN r.errors # <<>> ELSE r.errors = e.errors
  /\ r.left = 0 => r.stack = e.stack
ShowsMeaning ==
  Ended => \A k \in 1..Len(results) :
             (k = 1 \/ results[k - 1].left = 0) => Agree(results[k], Meaning(Program(prog))[k])

(* After a line exactly what the returns and recalls that gave up have     *)
(* left is open: a scope, a library and a call for each of them, and       *)
(* everything else is closed.  Blocks, functions, lambdas and natives open *)
(* and close them in code that errors skip and jumps cross, and behind a   *)
(* return that gave up each of them closes what another one has opened.    *)
Balanced ==
  (Idle /\ cx.read) =>
    /\ Len(cx.scopes) = 1 + cx.left
    /\ Len(cx.libs) = 1 + cx.left
    /\ Len(cx.calls) = cx.left

(* Everything the emitted text names is declared in front of it. *)
NamesDeclared == emitted => \A k \in 1..Len(cx.bins) : Undeclared(cx.bins[k]) = {}

(* The program that was compiled into repl.c compiles to the same today:   *)
(* the same operations, blocks and functions in the same places, the same  *)
(* gotos, and what the text names is declared.                             *)
CompiledAsRepl == \A k \in 1..Len(cx.bins) : prog = <<"bmips">> => SameAsRepl(cx.bins[k])

(* Programs end. *)
Ends == <>Ended
=============================================================================
