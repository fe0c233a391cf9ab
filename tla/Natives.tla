------------------------------ MODULE Natives ------------------------------
(***************************************************************************)
(* The functions that libraries register, as far as they control what is   *)
(* evaluated: lib/cond.c, lib/error.c, lib/func.c, lib/iter.c, lib/math.c, *)
(* lib/stack.c, lib/time.c, lib/type.c and lib/var.c.  Each is named by what it is     *)
(* called and by the types of its arguments, as its implementation is.     *)
(* Tables list the implementations of one function in the order of these   *)
(* ids.  Results are not checked: what a native pushes is its result.      *)
(***************************************************************************)
EXTENDS Compile

ArgOf(t) == [id |-> "", type |-> t, varg |-> FALSE, lit |-> Nil]
NamedArg(x, t) == [ArgOf(t) EXCEPT !.id = x]
Named(f, ts) == f \o "<" \o FoldLeft(LAMBDA acc, t : IF acc = "" THEN t ELSE acc \o " " \o t, "", ts) \o ">"

(* cx_add_cfunc, for all of a library. *)
Cfuncs(lib, table) ==
  LET Ident(k) == Named(table[k][1], table[k][2])
      At(n) == CHOOSE k \in 1..Len(table) : Ident(k) = n
  IN [n \in {Ident(k) : k \in 1..Len(table)} |->
       [func |-> table[At(n)][1], args |-> [j \in 1..Len(table[At(n)][2]) |-> ArgOf(table[At(n)][2][j])],
        rets |-> <<>>, ptr |-> TRUE, lib |-> lib, ts |-> <<>>, ord |-> At(n)]]
(* cx_add_cxfunc *)
Cxfunc(lib, f, args, rets, ts) ==
  [func |-> f, args |-> args, rets |-> [k \in 1..Len(rets) |-> ArgOf(rets[k])], ptr |-> FALSE,
   lib |-> lib, ts |-> ts, ord |-> 1]

CondFuncs == Cfuncs("cx/cond",
  <<<<"int", <<"Bool">>>>, <<"=", <<"Opt", "Arg0">>>>, <<"==", <<"Opt", "Arg0">>>>,
    <<"<=>", <<"Cmp", "Arg0">>>>, <<"<", <<"Cmp", "Arg0">>>>, <<">", <<"Cmp", "Arg0">>>>,
    <<"<=", <<"Cmp", "Arg0">>>>, <<">=", <<"Cmp", "Arg0">>>>, <<"?", <<"Opt">>>>, <<"!", <<"Opt">>>>,
    <<"and", <<"Opt", "Opt">>>>, <<"or", <<"Opt", "Opt">>>>, <<"if", <<"Opt", "Opt">>>>,
    <<"else", <<"Opt", "Opt">>>>, <<"if-else", <<"Opt", "Opt", "Opt">>>>,
    <<"min", <<"A", "Arg0">>>>, <<"max", <<"A", "Arg0">>>>>>)
ErrorFuncs == Cfuncs("cx/error",
  <<<<"check", <<"Opt">>>>, <<"throw", <<"Error">>>>, <<"throw", <<"Opt">>>>, <<"value", <<"Error">>>>>>)
FuncFuncs == Cfuncs("cx/func",
  <<<<"id", <<"Func">>>>, <<"lib", <<"Fimp">>>>, <<"lib", <<"Func">>>>, <<"imps", <<"Func">>>>,
    <<"call", <<"A">>>>, <<"this-fimp", <<>>>>, <<"recall", <<>>>>>>)
IterFuncs == Cfuncs("cx/iter",
  <<<<"for", <<"Seq", "A">>>>, <<"times", <<"Int", "A">>>>, <<"while", <<"A">>>>>>)
MathFuncs == Cfuncs("cx/math",
  <<<<"++", <<"Int">>>>, <<"--", <<"Int">>>>, <<"+", <<"Int", "Int">>>>, <<"-", <<"Int", "Int">>>>,
    <<"*", <<"Int", "Int">>>>, <<"/", <<"Int", "Int">>>>, <<"**", <<"Int">>>>,
    <<"mod", <<"Int", "Int">>>>, <<"abs", <<"Int">>>>>>)
StackFuncs == Cfuncs("cx/stack",
  <<<<"stash", <<>>>>, <<"..", <<"Seq">>>>, <<"|", <<>>>>, <<"_", <<"Opt">>>>, <<"%", <<"Opt">>>>,
    <<"%%", <<"Opt">>>>, <<"~", <<"Opt", "Opt">>>>>>)
TypeFuncs == Cfuncs("cx/type", <<<<"safe", <<>>>>, <<"unsafe", <<>>>>>>)
TimeFuncs == Cfuncs("cx/time", <<<<"clock", <<"A">>>>>>)
VarFuncs == Cfuncs("cx/var", <<<<"let", <<"Sym", "A">>>>, <<"var", <<"Sym">>>>>>)

(* Three functions of cx/math are written in cixl:                         *)
(* $n?<Opt> {$b $a $b +<Int Int> $n -- recall} $a if-else                  *)
FibRec ==
  Cxfunc("cx/math", "fib-rec", <<NamedArg("a", "Int"), NamedArg("b", "Int"), NamedArg("n", "Int")>>, <<"Int">>,
    <<Var("n"), Fimp("?", "?<Opt>"),
      Lambda(<<Var("b"), Var("a"), Var("b"), Fimp("+", "+<Int Int>"), Var("n"), Id("--"), Id("recall")>>),
      Var("a"), Id("if-else")>>)
(* 0 1 $n fib-rec *)
Fib == Cxfunc("cx/math", "fib", <<NamedArg("n", "Int")>>, <<"Int">>,
              <<Lit(IntBox(0)), Lit(IntBox(1)), Var("n"), Id("fib-rec")>>)
(* 0 $in &+ for *)
SumOf == Cxfunc("cx/math", "sum", <<NamedArg("in", "Seq")>>, <<"A">>,
                <<Lit(IntBox(0)), Var("in"), Ref("+"), Id("for")>>)
MathCxfuncs == "fib-rec<Int Int Int>" :> FibRec @@ "fib<Int>" :> Fib @@ "sum<Seq>" :> SumOf

Natives ==
  CondFuncs @@ ErrorFuncs @@ FuncFuncs @@ IterFuncs @@ MathFuncs @@ StackFuncs @@ TimeFuncs @@ TypeFuncs
  @@ VarFuncs @@ MathCxfuncs
=============================================================================
