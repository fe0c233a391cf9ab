-------------------------------- MODULE Eval --------------------------------
(***************************************************************************)
(* The virtual machine: eval of bin.c, the operations of op.c, calls       *)
(* (call.c, fimp.c, lambda.c), scopes (scope.c, cx.c), errors (error.c)    *)
(* and the functions that call back (lib/cond.c, lib/iter.c, lib/func.c).  *)
(*                                                                         *)
(* cx is struct cx and the memory behind it.  Functions in C that take cx  *)
(* are operators that take the old one (m) and return the new one.  What   *)
(* evaluates code and comes back later, cx_eval and natives that call      *)
(* back, leaves a frame on cx.frames, the C stack.  A program is a         *)
(* sequence of lines that are compiled and evaluated one after another, as *)
(* the read-eval-print loop does it.                                       *)
(***************************************************************************)
EXTENDS Emit

CONSTANTS
  Names, Program(_),  \* the programs: sequences of lines of tokens
  MaxCalls            \* CX_MAX_CALLS

ASSUME EvalAssumption == MaxCalls \in Nat \ {0}

VARIABLES
  prog, emitted,  \* what runs, and whether it has been compiled to C
  cx,
  results         \* of the lines so far

vars == <<prog, emitted, cx, results>>

-----------------------------------------------------------------------------
Is(v, t) == t \in IsA[v.t]
(* cx_ok *)
Holds(v) ==
  CASE v.t = "Bool" -> v.v [] v.t = "Int" -> v.v # 0 [] v.t = "Nil" -> FALSE
    [] v.t = "Stack" -> v.v # <<>> [] OTHER -> TRUE
Msg(text) == Box("Str", text)

-----------------------------------------------------------------------------
(* Errors, scopes, libraries and calls. *)
Throw(m, v) == [m EXCEPT !.errors = Append(@, v)]
Abort(m) == [m EXCEPT !.aborted = TRUE]  \* cx_test fails
Ret(m, ok) == [m EXCEPT !.ret = ok]
Top(m) == Last(m.scopes)
StackAt(m, s) == m.heap[s].stack
Push(m, s, vs) == [m EXCEPT !.heap[s].stack = @ \o vs]
Drop(m, s, n) == [m EXCEPT !.heap[s].stack = SubSeq(@, 1, Len(@) - n)]
MoveStack(m, from, to) ==
  IF from = to THEN m
  ELSE [m EXCEPT !.heap[to].stack = @ \o m.heap[from].stack, !.heap[from].stack = <<>>]

NewScope(m, parent) ==
  [m EXCEPT !.heap = Append(@, [parent |-> parent, stack |-> <<>>, vars |-> <<>>,
                                safe |-> m.heap[Top(m)].safe])]
PushScope(m, s) == [m EXCEPT !.scopes = Append(@, s)]
BeginScope(m, parent) == PushScope(NewScope(m, parent), Len(m.heap) + 1)
PopScope(m) ==
  IF Len(m.scopes) = 1 THEN Throw(m, Msg("No open scopes"))
  ELSE LET n == [m EXCEPT !.scopes = Front(@)] IN MoveStack(n, Top(m), Top(n))

PutVar(m, s, x, v) ==
  [m EXCEPT !.heap[s].vars = [y \in DOMAIN @ \cup {x} |-> IF y = x THEN v ELSE @[y]]]
RECURSIVE Owner(_, _, _)
Owner(m, s, x) ==
  IF s = 0 \/ x \in DOMAIN m.heap[s].vars THEN s ELSE Owner(m, m.heap[s].parent, x)
Bound(m, s, x) == Owner(m, s, x) # 0
GetVar(m, s, x) == m.heap[Owner(m, s, x)].vars[x]

PushLib(m, l) == [m EXCEPT !.libs = Append(@, l)]
PopLib(m) == IF Len(m.libs) = 1 THEN Abort(m) ELSE [m EXCEPT !.libs = Front(@)]
PopCall(m) ==
  IF m.calls = <<>> THEN Ret(Throw(m, Msg("Failed popping call")), FALSE)
  ELSE [m EXCEPT !.calls = Front(@)]

-----------------------------------------------------------------------------
(* Which implementation applies: cx_fimp_score and cx_func_match. *)
TopN(seq, n) == SubSeq(seq, Len(seq) - n + 1, Len(seq))
(* cx_resolve_arg_refs: Arg0 stands for the type of the first argument.    *)
Wanted(a, vs) == IF a.type = "Arg0" THEN vs[1].t ELSE a.type
ArgMatches(a, v, vs) == IF a.varg THEN v = a.lit ELSE Is(v, Wanted(a, vs))
Matches(m, i, s) ==
  LET as == Imp[i].args st == StackAt(m, s) vs == TopN(st, Len(as))
  IN Len(st) >= Len(as) /\ \A k \in 1..Len(as) : ArgMatches(as[k], vs[k], vs)
Distance(a, v, vs) == IF a.varg THEN 0 ELSE Level[v.t] - Level[Wanted(a, vs)]
Distances(as, vs) == FoldLeft(LAMBDA x, k : x + Distance(as[k], vs[k], vs), 0, [k \in 1..Len(as) |-> k])
Score(m, i, s) == Distances(Imp[i].args, TopN(StackAt(m, s), Len(Imp[i].args)))
(* The id of the best match, the first of them in the order of their ids;  *)
(* "none" if there is none.                                                *)
Before(x, i, y, j) == x < y \/ (x = y /\ Imp[i].ord <= Imp[j].ord)
Best(m, s, is) ==
  IF is = {} THEN "none"
  ELSE CHOOSE i \in is : \A j \in is : Before(Score(m, i, s), i, Score(m, j, s), j)
FuncMatch(m, f, s) == Best(m, s, {i \in ImpsOf(f) : Matches(m, i, s)})

-----------------------------------------------------------------------------
(* Calls. *)

(* cx_eval: the frame remembers what to do when it is done. *)
StartEval(m, bin, start, stop, then, x) ==
  [m EXCEPT !.frames = Append(@, [f |-> "eval", stop |-> stop, bin |-> m.bin, pc |-> m.pc,
                                  then |-> then, x |-> x]),
            !.bin = bin, !.pc = start]

(* call_imp of lambda.c: the lambda takes over the stack of its caller. *)
LambdaCall(m, l, s) ==
  LET popLib == Last(m.libs) # l.lib
      popScope == s # l.scope
      m1 == IF popLib THEN PushLib(m, l.lib) ELSE m
      m2 == IF popScope THEN MoveStack(PushScope(m1, l.scope), s, l.scope) ELSE m1
  IN StartEval(m2, l.bin, l.start, l.start + l.nops, "lambda", <<popScope, popLib>>)

(* The end of cx_fimp_call, for natives. *)
NativeCall(m, i) ==
  LET popLib == Last(m.libs) # Imp[i].lib
      m1 == IF popLib THEN PushLib(m, Imp[i].lib) ELSE m
  IN [m1 EXCEPT !.frames = Append(@, [f |-> "native", imp |-> i, call |-> Len(m.calls),
                                      popLib |-> popLib, phase |-> 0, n |-> 0])]
(* The same, for functions in cixl: in their own bin, or in the one that   *)
(* runs; compiled if it does not have them.                                *)
EnterFimp(m, b, at) == StartEval(m, b, at.start, at.start + at.nops, "call", <<>>)
EnterNew(m, i, b) ==
  EnterFimp([m EXCEPT !.bins = Append(@, b), !.fimps[i].bin = Len(m.bins) + 1], Len(m.bins) + 1, b.fimps[i])
CixlCall(m, i) ==
  LET bin == IF m.fimps[i].bin # 0 THEN m.fimps[i].bin ELSE m.bin
  IN IF i \in DOMAIN m.bins[bin].fimps THEN EnterFimp(m, bin, m.bins[bin].fimps[i])
     ELSE EnterNew(m, i, Inline(i, NewBin) @@ [emitted |-> FALSE])
PushCall(m, i, s, n) ==
  [Drop(m, s, n) EXCEPT !.calls =
     Append(@, [imp |-> i, scope |-> s, args |-> TopN(StackAt(m, s), n), recalls |-> 0])]
FimpCall(m, i, s) ==
  LET n == Len(Imp[i].args)
  IN IF Len(m.calls) = MaxCalls THEN Ret(Throw(m, Msg("Max calls exceeded")), FALSE)
     ELSE IF Len(StackAt(m, s)) < n THEN Ret(Throw(m, Msg("Not enough args")), FALSE)
     ELSE IF Imp[i].ptr THEN NativeCall(PushCall(m, i, s, n), i) ELSE CixlCall(PushCall(m, i, s, n), i)
(* A function that does not apply is an error. *)
Apply(m, i, s) == IF i = "none" THEN Ret(Throw(m, Msg("Func not applicable")), FALSE) ELSE FimpCall(m, i, s)

Callee(m, v, s) ==
  IF v.t = "Func" THEN FuncMatch(m, v.v, s)
  ELSE IF m.heap[s].safe /\ ~Matches(m, v.v, s) THEN "none" ELSE v.v
(* cx_call: what cannot be called is pushed. *)
CallBox(m, v, s) ==
  CASE v.t = "Lambda" -> LambdaCall(m, v.v, s)
    [] v.t \in {"Func", "Fimp"} -> Apply(m, Callee(m, v, s), s)
    [] OTHER -> Ret(Push(m, s, <<v>>), TRUE)

-----------------------------------------------------------------------------
(* Operations: eval and error_eval of op.c, and the emitted code, which    *)
(* does the same and differs in how it gets to the next operation.         *)

Frame == Last(cx.frames)
Bin == cx.bins[cx.bin]
Evaluating == cx.frames # <<>> /\ Frame.f = "eval" /\ ~cx.aborted
Running == Evaluating /\ cx.pc < Count(Bin) /\ cx.pc # Frame.stop
Op == Bin.ops[cx.pc + 1]
Goto(way) ==
  IF Bin.emitted THEN EmitTarget(Bin, Op, cx.pc, way) ELSE EvalTarget(Bin, Op, cx.pc, way)
At(way) == [cx EXCEPT !.pc = Goto(way)]

Failed == cx.errors # <<>>
Do(op) == Running /\ Op.op = op /\ ~Failed
DoFailed(op) == Running /\ Op.op = op /\ Failed
Become(m) == cx' = m /\ UNCHANGED <<prog, emitted, results>>

(* Mutant: a function runs in the scope of its caller. *)
OpBeginDynamic ==
  /\ Do("begin")
  /\ LET m == BeginScope(At("next"), Top(cx))
     IN Become(IF Op.imp = "none" THEN m
               ELSE [PushLib(m, Imp[Op.imp].lib) EXCEPT !.calls[Len(m.calls)].scope = Top(m)])
(* A block in the scope it is in, or the body of a function in the scope   *)
(* the function was defined in; the call then lives in the new scope.      *)
OpBegin ==
  /\ Do("begin")
  /\ LET m == BeginScope(At("next"), IF Op.child THEN Top(cx) ELSE cx.fimps[Op.imp].scope)
     IN Become(IF Op.imp = "none" THEN m
               ELSE [PushLib(m, Imp[Op.imp].lib) EXCEPT !.calls[Len(m.calls)].scope = Top(m)])
OpBeginFailed == DoFailed("begin") /\ Become(At("skip"))

(* A catch for all errors is a block that runs in any case, and goes on    *)
(* with the error; one for a type takes the last error if it is of it.     *)
OpCatch == Do("catch") /\ Become(At(IF Op.type = "_" THEN "next" ELSE "skip"))
CatchAll(m) ==
  StartEval([m EXCEPT !.errors = Front(@)], m.bin, m.pc, m.pc + Op.nops, "catch", Last(m.errors))
OpCatchFailed ==
  /\ DoFailed("catch")
  /\ LET e == Last(cx.errors)
     IN Become(IF Op.type = "_" THEN CatchAll(At("next"))
               ELSE IF Is(e, Op.type)
               THEN Push([At("next") EXCEPT !.errors = Front(@)], Top(cx), <<Box("Error", e)>>)
               ELSE At("skip"))

OpElse ==
  /\ Do("else")
  /\ LET s == Top(cx) st == StackAt(cx, s)
     IN Become(IF st = <<>> THEN Throw(At("next"), Msg("Stack is empty"))
               ELSE Drop(At(IF Holds(Last(st)) THEN "next" ELSE "skip"), s, 1))
OpEnd == Running /\ Op.op = "end" /\ Become(PopScope(At("next")))
OpFimp == Running /\ Op.op = "fimp" /\ Become(At("skip"))
OpFuncdef ==
  /\ Running /\ Op.op = "funcdef"
  /\ Become([At("next") EXCEPT !.fimps[Op.imp].scope = IF @ = 0 THEN Top(cx) ELSE @])

(* The operation remembers what it found; in safe scopes it looks again.   *)
Remember(m, i, s) == Apply([m EXCEPT !.bins[cx.bin].ops[cx.pc + 1].imp = i], i, s)
OpFuncall ==
  /\ Do("funcall")
  /\ LET s == Top(cx)
         kept == Op.imp # "none" /\ (cx.heap[s].safe => Matches(cx, Op.imp, s))
     IN Become(Remember(At("next"), IF kept THEN Op.imp ELSE FuncMatch(cx, Op.func, s), s))

OpGetvar ==
  /\ Do("getvar")
  /\ LET s == Top(cx)
     IN Become(IF Bound(cx, s, Op.id) THEN Push(At("next"), s, <<GetVar(cx, s, Op.id)>>)
               ELSE Throw(At("next"), Msg("Unknown var")))
OpPutvar ==
  /\ Do("putvar")
  /\ LET s == Top(cx) st == StackAt(cx, s) m == Drop(At("next"), s, 1)
     IN Become(IF st = <<>> THEN Throw(At("next"), Msg("Stack is empty"))
               ELSE IF Op.type # "none" /\ ~Is(Last(st), Op.type)
               THEN Throw(m, Msg("Expected type"))
               ELSE PutVar(m, s, Op.id, Last(st)))

OpJump == Running /\ Op.op = "jump" /\ Become(At("jump"))

(* A lambda has a scope of its own, which all its calls share. *)
OpLambda ==
  /\ Do("lambda")
  /\ LET m == NewScope(At("skip"), Top(cx))
         l == [bin |-> cx.bin, start |-> cx.pc + 1, nops |-> Op.nops,
               scope |-> Len(m.heap), lib |-> Last(cx.libs)]
     IN Become(Push(m, Top(cx), <<Box("Lambda", l)>>))
OpLambdaFailed == DoFailed("lambda") /\ Become(At("skip"))

OpPush == Do("push") /\ Become(Push(At("next"), Top(cx), <<Op.v>>))
OpPutargs ==
  /\ Do("putargs")
  /\ LET as == Imp[Op.imp].args
         s == Top(cx)
         Step(m, k) ==
           IF as[k].varg THEN m
           ELSE IF as[k].id # "" THEN PutVar(m, s, as[k].id, Last(cx.calls).args[k])
           ELSE Push(m, s, <<Last(cx.calls).args[k]>>)
     IN Become(IF cx.calls = <<>> THEN Abort(cx)
               ELSE FoldLeft(Step, At("next"), [k \in 1..Len(as) |-> k]))
(* cx_stash *)
OpStash ==
  /\ Do("stash")
  /\ Become([At("next") EXCEPT !.heap[Top(cx)].stack = <<Box("Stack", @)>>])

-----------------------------------------------------------------------------
(* Returning.  Results are taken from the bottom of the stack, or are      *)
(* variables or constants; what is left over is an error.  A return that   *)
(* fails, and a recall that does not apply, give up where they are: the    *)
(* scope, the library and the call stay.  `left' counts them.              *)
GiveUp(m) == [m EXCEPT !.left = @ + 1]

(* One result: from ss, the scope that ends, to ds, the one below. *)
ReturnOne(acc, r, ss, ds) ==
  LET m == acc.m
      named == r.id # ""
      missing == IF named THEN ~Bound(m, ss, r.id) ELSE acc.si = Len(StackAt(m, ss))
      v == IF named THEN GetVar(m, ss, r.id) ELSE StackAt(m, ss)[acc.si + 1]
      Fail(text) == [acc EXCEPT !.m = Throw(@, Msg(text)), !.failed = TRUE]
  IN IF acc.failed THEN acc
     ELSE IF r.varg THEN [acc EXCEPT !.m = Push(m, ds, <<r.lit>>)]
     ELSE IF missing THEN Fail(IF named THEN "Unknown var" ELSE "Not enough return values")
     ELSE IF m.heap[ss].safe /\ ~Is(v, r.type)
     THEN [Fail("Invalid return type") EXCEPT !.si = IF named THEN @ ELSE @ + 1]
     ELSE [acc EXCEPT !.m = Push(m, ds, <<v>>), !.si = IF named THEN @ ELSE @ + 1]
EndCall(m) == PopCall(PopLib(PopScope(m)))
Return(m, i) ==
  LET ss == Top(m)
      ds == m.scopes[Len(m.scopes) - 1]
      r == FoldLeft(LAMBDA acc, x : ReturnOne(acc, x, ss, ds),
                    [m |-> m, si |-> 0, failed |-> FALSE], Imp[i].rets)
  IN IF Len(m.scopes) = 1 /\ Imp[i].rets # <<>> THEN Abort(m)
     ELSE IF r.failed THEN GiveUp(r.m)
     ELSE IF r.si < Len(StackAt(m, ss)) THEN GiveUp(Throw(r.m, Msg("Stack not empty on return")))
     ELSE EndCall([r.m EXCEPT !.heap[ss].stack = <<>>])
(* Recall: the body runs again on new arguments, in the same scope. *)
Again(m, i) ==
  LET n == Len(Imp[i].args)
      k == Len(m.calls)
      s == m.calls[k].scope
      st == StackAt(m, s)
      enough == Len(st) >= n
      m1 == [m EXCEPT !.calls[k].recalls = @ - 1]
  IN IF m.heap[Top(m)].safe /\ ~Matches(m, i, Top(m))
     THEN GiveUp(Throw(IF Bin.emitted THEN m ELSE m1, Msg("Recall not applicable")))
     ELSE IF enough
     THEN [Drop(m1, s, n) EXCEPT !.calls[k].args = TopN(st, n), !.pc = Goto("again")]
     ELSE [Throw(m1, Msg("Not enough args")) EXCEPT !.pc = Goto("again")]
OpReturn ==
  /\ Do("return")
  /\ Become(IF cx.calls = <<>> THEN Abort(cx)
            ELSE IF Last(cx.calls).recalls > 0 THEN Again(At("next"), Op.imp)
            ELSE Return(At("next"), Op.imp))
(* Mutant: the library stays. *)
OpReturnFailedInLib == DoFailed("return") /\ Become(PopCall(PopScope(At("next"))))
OpReturnFailed == DoFailed("return") /\ Become(EndCall(At("next")))

(* Operations without error_eval do nothing once there is an error. *)
OpSkipped ==
  /\ Running /\ Failed
  /\ Op.op \in {"else", "funcall", "getvar", "putvar", "push", "putargs", "stash"}
  /\ Become(At("next"))

Operation ==
  \/ OpBegin \/ OpBeginFailed \/ OpCatch \/ OpCatchFailed \/ OpElse \/ OpEnd \/ OpFimp
  \/ OpFuncdef \/ OpFuncall \/ OpGetvar \/ OpPutvar \/ OpJump \/ OpLambda \/ OpLambdaFailed
  \/ OpPush \/ OpPutargs \/ OpStash \/ OpReturn \/ OpReturnFailed \/ OpSkipped

-----------------------------------------------------------------------------
(* cx_eval comes back. *)
FinishEval ==
  /\ Evaluating /\ ~Running
  /\ LET fr == Frame
         m == Ret([cx EXCEPT !.frames = Front(@), !.bin = fr.bin, !.pc = fr.pc], ~Failed)
         m1 == IF fr.x[1] THEN PopScope(m) ELSE m
     IN Become(CASE fr.then \in {"call", "line"} -> m
                 [] fr.then = "catch" -> [m EXCEPT !.errors = Append(@, fr.x)]
                 [] fr.then = "lambda" -> IF fr.x[2] THEN PopLib(m1) ELSE m1)

-----------------------------------------------------------------------------
(* Natives.  One that calls back waits on its frame, phase says where.     *)

(* cx_fimp_call after imp->ptr(call). *)
Done(m, ok) ==
  LET m1 == [m EXCEPT !.frames = Front(@)]
      m2 == IF Last(m.frames).popLib THEN PopLib(m1) ELSE m1
  IN PopCall(Ret(m2, ok))

(* What the ones that only look at their arguments leave on the stack.     *)
(* Values are compared by what they are; == differs from = for references, *)
(* which programs here do not compare.                                     *)
Comparing == {"=", "==", "<", ">", "<=", ">=", "?", "!"}
Compared(f, a) ==
  CASE f \in {"=", "=="} -> a[1] = a[2]  [] f = "<" -> a[1].v < a[2].v
    [] f = ">" -> a[1].v > a[2].v        [] f = "<=" -> a[1].v <= a[2].v
    [] f = ">=" -> a[1].v >= a[2].v      [] f = "?" -> Holds(a[1])
    [] f = "!" -> ~Holds(a[1])
Calculating == {"++", "--", "+", "-", "*", "**", "abs"}
Calculated(f, a) ==
  CASE f = "++" -> a[1].v + 1         [] f = "--" -> a[1].v - 1
    [] f = "+" -> a[1].v + a[2].v     [] f = "-" -> a[1].v - a[2].v
    [] f = "*" -> a[1].v * a[2].v     [] f = "**" -> a[1].v * a[1].v
    [] f = "abs" -> IF a[1].v < 0 THEN -a[1].v ELSE a[1].v
Moving == {"_", "%", "%%", "~"}
Moved(f, a) == CASE f = "_" -> <<>> [] f \in {"%", "%%"} -> <<a[1], a[1]>> [] f = "~" -> <<a[2], a[1]>>
(* min_imp and max_imp: x is the second argument. *)
Extreme(f, a) ==
  CASE f = "min" -> IF a[2].v > a[1].v THEN a[1] ELSE a[2]
    [] f = "max" -> IF a[2].v < a[1].v THEN a[1] ELSE a[2]
Telling == {"int", "<=>", "min", "max", "id", "lib", "imps", "value"}
Told(f, a) ==
  CASE f = "int" -> IntBox(IF a[1].v THEN 1 ELSE 0)
    [] f = "<=>" -> Box("Sym", IF a[1].v < a[2].v THEN "<" ELSE IF a[1].v = a[2].v THEN "=" ELSE ">")
    [] f \in {"min", "max"} -> Extreme(f, a)
    [] f = "id" -> Box("Sym", a[1].v)
    [] f = "lib" /\ a[1].t = "Fimp" -> Box("Lib", Imp[a[1].v].lib)
    [] f = "lib" /\ a[1].t = "Func" -> Box("Lib", Imp[CHOOSE i \in ImpsOf(a[1].v) : TRUE].lib)
    [] f = "imps" -> Box("Stack", [k \in 1..Cardinality(ImpsOf(a[1].v)) |->
         Box("Fimp", CHOOSE i \in ImpsOf(a[1].v) :
           Cardinality({j \in ImpsOf(a[1].v) : Imp[j].ord < Imp[i].ord}) = k - 1)])
    [] f = "value" -> a[1].v
Pure == Comparing \cup Calculating \cup Moving \cup Telling
Result(f, a) ==
  CASE f \in Comparing -> <<BoolBox(Compared(f, a))>>
    [] f \in Calculating -> <<IntBox(Calculated(f, a))>>
    [] f \in Moving -> Moved(f, a)
    [] f \in Telling -> <<Told(f, a)>>

(* Division goes towards zero.  Nobody looks whether mod divides by zero:  *)
(* the processor stops the program.                                        *)
Quotient(x, y) ==
  LET Size(n) == IF n < 0 THEN -n ELSE n
      q == Size(x) \div Size(y)
  IN IF (x < 0) = (y < 0) THEN q ELSE -q
Divided(m, f, a, s) ==
  IF a[2].v # 0
  THEN Done(Push(m, s, <<IntBox(IF f = "/" THEN Quotient(a[1].v, a[2].v)
                                ELSE a[1].v - a[2].v * Quotient(a[1].v, a[2].v))>>), TRUE)
  ELSE IF f = "/" THEN Done(Throw(m, Msg("Division by zero")), FALSE) ELSE Abort(m)

(* for_imp and splat_imp.  A number is the numbers below it, a stack its   *)
(* items; what can be called yields what it leaves on the stack, until     *)
(* that is nil.  Whether the call failed is not asked.                     *)
Items(v) == IF v.t = "Int" THEN [k \in 1..v.v |-> IntBox(k - 1)] ELSE v.v
Callable(v) == v.t \in {"Lambda", "Func", "Fimp"}
Iterate(m, f, a, s, fr) ==
  LET st == StackAt(m, s)
      To(m1, p) == [m1 EXCEPT !.frames[Len(m.frames)].phase = p, !.frames[Len(m.frames)].n = @ + 1]
      Yield(m1) == IF f = ".." THEN To(m1, 0) ELSE CallBox(To(m1, 2), a[2], s)
  IN CASE fr.phase = 2 /\ ~m.ret -> Done(m, FALSE)
       [] fr.phase # 1 /\ Callable(a[1]) /\ (fr.phase = 2 => m.ret) -> CallBox(To(m, 1), a[1], s)
       [] fr.phase # 1 /\ ~Callable(a[1]) /\ (fr.phase = 2 => m.ret) ->
            LET done == Items(a[1]) k == fr.n + 1
            IN IF k > Len(done) THEN Done(m, TRUE) ELSE Yield(Push(m, s, <<done[k]>>))
       [] fr.phase = 1 -> IF st = <<>> THEN Done(Throw(m, Msg("Missing iter result")), TRUE)
                          ELSE IF Last(st) = Nil THEN Done(Drop(m, s, 1), TRUE) ELSE Yield(m)

(* and_imp, or_imp: the second argument is called if the first says so.    *)
(* What it finds missing is reported twice, by cx_pop and by itself.       *)
Missing(m) == Done(Throw(Throw(m, Msg("Stack is empty")), Msg("Missing arg")), FALSE)
AndOr(m, f, a, s, phase) ==
  LET st == StackAt(m, s)
      To(p) == [m EXCEPT !.frames[Len(m.frames)].phase = p]
  IN CASE phase = 0 -> CallBox(To(1), a[1], s)
       [] phase = 1 -> IF ~m.ret THEN Done(m, FALSE)
                       ELSE IF st = <<>> THEN Missing(m)
                       ELSE IF Holds(Last(st)) = (f = "or") THEN Done(m, TRUE)
                       ELSE CallBox(Drop(To(2), s, 1), a[2], s)
       [] phase = 2 -> IF ~m.ret THEN Done(m, FALSE)
                       ELSE IF st = <<>> THEN Missing(m) ELSE Done(m, TRUE)

(* if_imp, else_imp, if_else_imp, call_imp: they end with what they call. *)
Chosen(f, a) ==
  CASE f = "if" -> IF Holds(a[1]) THEN <<a[2]>> ELSE <<>>
    [] f = "else" -> IF Holds(a[1]) THEN <<>> ELSE <<a[2]>>
    [] f = "if-else" -> IF Holds(a[1]) THEN <<a[2]>> ELSE <<a[3]>>
    [] f = "call" -> <<a[1]>>
Tailed(m, f, a, s, phase) ==
  IF phase = 1 THEN Done(m, m.ret)
  ELSE IF Chosen(f, a) = <<>> THEN Done(m, FALSE)
  ELSE CallBox([m EXCEPT !.frames[Len(m.frames)].phase = 1], Chosen(f, a)[1], s)

(* clock_imp tells what passed even if the call failed.  How much that is  *)
(* is not modelled.                                                        *)
Elapsed == IntBox(7)
Clock(m, a, s, phase) ==
  IF phase = 1 THEN Done(Push(m, s, <<Elapsed>>), m.ret)
  ELSE CallBox([m EXCEPT !.frames[Len(m.frames)].phase = 1], a[1], s)

(* times_imp *)
Times(m, a, s, fr) ==
  IF fr.n > 0 /\ ~m.ret THEN Done(m, FALSE)
  ELSE IF fr.n >= a[1].v THEN Done(m, TRUE)
  ELSE CallBox([m EXCEPT !.frames[Len(m.frames)].n = @ + 1], a[2], s)

(* Mutant: the condition is thrown away. *)
WhileForever(m, a, s, phase) ==
  LET st == StackAt(m, s)
      Call(m1) == CallBox([m1 EXCEPT !.frames[Len(m.frames)].phase = 1], a[1], s)
  IN IF phase = 0 THEN Call(m)
     ELSE IF ~m.ret THEN Done(m, FALSE)
     ELSE IF st = <<>> THEN Missing(m) ELSE Call(Drop(m, s, 1))
(* while_imp: again as long as what it leaves on the stack holds. *)
While(m, a, s, phase) ==
  LET st == StackAt(m, s)
      Call(m1) == CallBox([m1 EXCEPT !.frames[Len(m.frames)].phase = 1], a[1], s)
  IN IF phase = 0 THEN Call(m)
     ELSE IF ~m.ret THEN Done(m, FALSE)
     ELSE IF st = <<>> THEN Missing(m)
     ELSE IF Holds(Last(st)) THEN Call(Drop(m, s, 1)) ELSE Done(Drop(m, s, 1), TRUE)

(* recall_imp: the innermost call of a function in cixl. *)
Recall(m) ==
  LET ks == {k \in 1..Len(m.calls) : ~Imp[m.calls[k].imp].ptr}
  IN IF ks = {} THEN Done(Throw(m, Msg("Nothing to recall")), FALSE)
     ELSE Done([m EXCEPT !.calls[CHOOSE k \in ks : \A j \in ks : j <= k].recalls = @ + 1], TRUE)

(* this_fimp_imp: the call below its own. *)
ThisFimp(m, s) ==
  LET n == Len(m.calls)
  IN Done(Push(m, s, <<IF n > 1 THEN Box("Fimp", m.calls[n - 1].imp) ELSE Nil>>), TRUE)

(* let_imp and var_imp, the functions behind let: *)
LetVar(m, f, a, s) ==
  IF f = "let" THEN Done(PutVar(m, s, a[1].v, a[2]), TRUE)
  ELSE Done(Push(m, s, <<IF Bound(m, s, a[1].v) THEN GetVar(m, s, a[1].v) ELSE Nil>>), TRUE)

NativeStep ==
  LET fr == Frame
      call == cx.calls[fr.call]
      a == call.args
      s == call.scope
      f == Imp[fr.imp].func
  IN CASE f \in {"min", "max"} /\ ~Is(a[1], "Cmp") -> Abort(cx)
       [] f \in Pure /\ ~(f \in {"min", "max"} /\ ~Is(a[1], "Cmp")) -> Done(Push(cx, s, Result(f, a)), TRUE)
       [] f \in {"and", "or"} -> AndOr(cx, f, a, s, fr.phase)
       [] f \in {"if", "else", "if-else", "call"} -> Tailed(cx, f, a, s, fr.phase)
       [] f \in {"for", ".."} -> Iterate(cx, f, a, s, fr)
       [] f \in {"/", "mod"} -> Divided(cx, f, a, s)
       [] f = "this-fimp" -> ThisFimp(cx, s)
       [] f = "clock" -> Clock(cx, a, s, fr.phase)
       [] f = "times" -> Times(cx, a, s, fr)
       [] f = "while" -> While(cx, a, s, fr.phase)
       [] f = "recall" -> Recall(cx)
       [] f \in {"let", "var"} -> LetVar(cx, f, a, s)
       [] f = "check" -> Done(IF Holds(a[1]) THEN cx ELSE Throw(cx, Msg("Check failed")), TRUE)
       [] f = "throw" -> Done(Throw(cx, IF a[1].t = "Error" THEN a[1].v ELSE a[1]), TRUE)
       [] f = "|" -> Done([cx EXCEPT !.heap[s].stack = <<>>], TRUE)
       [] f = "stash" -> Done([cx EXCEPT !.heap[s].stack = <<Box("Stack", @)>>], TRUE)
       [] f \in {"safe", "unsafe"} -> Done([cx EXCEPT !.heap[s].safe = f = "safe"], TRUE)
Native ==
  /\ cx.frames # <<>> /\ Frame.f = "native" /\ ~cx.aborted
  /\ Become(NativeStep)

-----------------------------------------------------------------------------
(* The read-eval-print loop: cx_eval_str and cx_eval_toks, then the errors *)
(* are shown and forgotten, or the stack is shown.  A program that has     *)
(* been compiled is one line; functions are registered when it starts.     *)

Line == Len(results) + 1
(* What a result can be told by: no scopes and no bins. *)
Shown(v) == IF v.t = "Lambda" THEN Box("Lambda", 0) ELSE v
ShownAll(vs) == [k \in 1..Len(vs) |-> Shown(vs[k])]

Defined(b) == {b.ops[k].imp : k \in {j \in 1..Count(b) : b.ops[j].op = "funcdef"}}
(* funcdef_emit_init *)
EmitInit(m, b, n) ==
  IF emitted THEN [m EXCEPT !.fimps = [i \in DOMAIN @ |->
                                         IF i \in Defined(b) THEN [@[i] EXCEPT !.bin = n] ELSE @[i]]]
  ELSE m

Idle == cx.frames = <<>> /\ ~cx.aborted
Load(m, b, n) ==
  IF b.errs > 0
  THEN [m EXCEPT !.read = TRUE, !.errors = [k \in 1..b.errs |-> Msg("Failed compiling")]]
  ELSE StartEval([EmitInit(m, b, n) EXCEPT !.bins = Append(@, b @@ [emitted |-> emitted]), !.read = TRUE],
                 n, 0, -1, "line", <<FALSE, FALSE>>)
ReadLine ==
  /\ Idle /\ ~cx.read /\ Line <= Len(Program(prog))
  /\ Become(Load(cx, Toks(Program(prog)[Line], NewBin), Len(cx.bins) + 1))
ShowLine ==
  /\ Idle /\ cx.read
  /\ results' = Append(results, [errors |-> ShownAll(cx.errors),
                                 stack |-> IF Failed THEN <<>> ELSE ShownAll(StackAt(cx, Top(cx))),
                                 left |-> cx.left])
  /\ cx' = [cx EXCEPT !.errors = <<>>, !.read = FALSE]
  /\ UNCHANGED <<prog, emitted>>

Ended == Idle /\ ~cx.read /\ Line > Len(Program(prog))
Stop == (Ended \/ cx.aborted) /\ UNCHANGED vars

Init ==
  /\ prog \in Names
  /\ emitted \in IF Len(Program(prog)) = 1 THEN BOOLEAN ELSE {FALSE}
  /\ cx = [bin |-> 0, pc |-> 0, errors |-> <<>>, scopes |-> <<1>>, libs |-> <<"lobby">>,
           calls |-> <<>>, frames |-> <<>>, left |-> 0, ret |-> TRUE, aborted |-> FALSE, read |-> FALSE,
           bins |-> <<>>, fimps |-> [i \in DOMAIN Imp |-> [bin |-> 0, scope |-> 0]],
           heap |-> <<[parent |-> 0, stack |-> <<>>, vars |-> <<>>, safe |-> TRUE]>>]
  /\ results = <<>>
Next == Operation \/ FinishEval \/ Native \/ ReadLine \/ ShowLine \/ Stop

(* The one thread goes on while there is something to do.  A step that     *)
(* changes vars is possible in every state but these, so that this is      *)
(* WF_vars(Next), without asking TLC what is enabled.                      *)
GoesOn == []<>(Ended \/ cx.aborted) \/ []<><<TRUE>>_vars
Spec == Init /\ [][Next]_vars /\ GoesOn
=============================================================================
