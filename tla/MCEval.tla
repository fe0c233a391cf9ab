------------------------------- MODULE MCEval -------------------------------
(***************************************************************************)
(* Programs for Eval: everything that can be put inside of something else, *)
(* three levels deep, with and without handlers behind it; and programs    *)
(* for what takes more than one line.                                      *)
(***************************************************************************)
EXTENDS Meaning

-----------------------------------------------------------------------------
(* The functions programs can call, besides Natives. *)
Arg(t) == ArgOf(t)
LitArg(v) == [id |-> "", type |-> v.t, varg |-> TRUE, lit |-> v]
CixlFunc(f, args, rets, ts) ==
  [func |-> f, args |-> args, rets |-> rets, ptr |-> FALSE, lib |-> "lobby", ts |-> ts,
   ord |-> IF args = <<>> \/ args[1].varg THEN 1 ELSE IF args[1].type = "Int" THEN 2 ELSE 3]

-----------------------------------------------------------------------------
(* What stands innermost: a value, an error, something missing, a variable *)
(* of the scopes around it, a call that does not apply.                    *)
One == Lit(IntBox(1))
Three == Lit(IntBox(3))
True == Lit(BoolBox(TRUE))
False == Lit(BoolBox(FALSE))
Raise == <<Lit(Msg("x")), Id("throw")>>
Leaves ==
  "one" :> <<One>> @@ "nothing" :> <<>> @@ "raise" :> <<One>> \o Raise @@
  "unknown" :> <<Var("z")>> @@ "known" :> <<Var("y")>> @@
  "rebind" :> <<Let(<<"y">>, <<Three>>), Var("y")>> @@
  "refuse" :> <<True, True, Id("+")>> @@ "wrong" :> <<Let(<<"z", "Bool">>, <<Three>>)>> @@
  "take" :> <<Id("_")>>

(* The same, for returns and recalls that give up: results left over,      *)
(* missing, of a wrong type, unbound, one of two wrong, and a recall that  *)
(* does not apply.                                                         *)
Spoiled == {"lost", "short", "mistyped", "unbound", "half", "recalled"}
LeafOf(l) == IF l \in Spoiled THEN <<Func(l), Three, Id(l)>> ELSE Leaves[l]

(* What it can stand in. *)
Contexts == {"group", "stack", "call", "times", "if", "if-else", "and", "or", "cond", "clause",
             "let", "handle", "func", "while"}
Innermost == {"group", "call", "times", "cond", "clause", "handle", "func", "and"}
In(c, name, ts) ==
  CASE c = "group" -> <<Group(ts)>>
    [] c = "stack" -> <<StackOf(ts)>>
    [] c = "call" -> <<Lambda(ts), Id("call")>>
    [] c = "times" -> <<Lit(IntBox(2)), Lambda(ts), Id("times")>>
    [] c = "if" -> <<True, Lambda(ts), Id("if")>>
    [] c = "if-else" -> <<False, Lambda(<<>>), Lambda(<<Group(ts)>>), Id("if-else")>>
    [] c = "and" -> <<True, Lambda(ts), Id("and")>>
    [] c = "or" -> <<Lambda(ts), One, Id("or")>>
    [] c = "cond" -> <<Switch(<<Clause(ts, <<Three>>), Clause(<<True>>, <<One>>)>>)>>
    [] c = "clause" -> <<Switch(<<Clause(<<False>>, <<One>>), Clause(<<True>>, ts),
                                  Clause(<<True>>, <<Three>>)>>)>>
    [] c = "let" -> <<Let(<<"y">>, ts)>>
    [] c = "handle" -> Raise \o <<Catch(<<Clause("Str", <<Group(ts)>>)>>)>>
    [] c = "while" -> <<Lambda(ts \o <<False>>), Id("while")>>
    [] c = "func" -> <<Func(name), Three, Id(name)>>

(* A function of a number that leaves all that its body leaves. *)
Wrapper(name, ts) ==
  CixlFunc(name, <<NamedArg("y", "Int")>>, <<Arg("Opt")>>, ts \o <<Id("stash")>>)
Wrappers ==
  LET ls == DOMAIN Leaves \cup Spoiled
  IN [n \in DOMAIN Leaves |-> Wrapper(n, Leaves[n])] @@
     [n \in {"of " \o l : l \in Spoiled} |->
        Wrapper(n, LeafOf(CHOOSE l \in Spoiled : n = "of " \o l))] @@
     [n \in {c \o "/" \o l : c \in Innermost, l \in ls} |->
        LET p == CHOOSE p \in Innermost \X ls : n = p[1] \o "/" \o p[2]
        IN Wrapper(n, In(p[1], IF p[2] \in Spoiled THEN "of " \o p[2] ELSE p[2], LeafOf(p[2])))]

(* What stands behind it. *)
Behind ==
  "none" :> <<One>> @@
  "typed" :> <<Catch(<<Clause("Int", <<Three>>), Clause("Str", <<Id("value")>>)>>), One>> @@
  "all" :> <<Catch(<<Clause("_", <<Three>>)>>), One>>

(* A switch in a clause of another one is compiled to something else.      *)
Nested(c, d) == c \in {"cond", "clause"} /\ d \in {"cond", "clause"}
Combined ==
  {p \in Contexts \X Innermost \X (DOMAIN Leaves \cup Spoiled) \X (DOMAIN Behind) :
     ~Nested(p[1], p[2]) /\ (p[3] \in Spoiled => p[2] \in {"func", "handle", "clause", "call"})}
Combine(c, d, leaf, behind) ==
  LET inner == In(d, IF leaf \in Spoiled THEN "of " \o leaf ELSE leaf, LeafOf(leaf))
  IN <<<<Let(<<"y">>, <<One>>)>> \o In(c, d \o "/" \o leaf, inner) \o Behind[behind]>>

-----------------------------------------------------------------------------
(* Functions and programs for what the combinations do not reach. *)
N == NamedArg("n", "Int")
Less == <<Var("n"), Lit(IntBox(-1)), Id("+")>>
IntOf(n) == Lit(IntBox(n))
SymOf(x) == Lit(Box("Sym", x))
Defined1 ==
  "down" :> CixlFunc("down", <<N>>, <<>>, <<Var("n"), Lambda(Less \o <<Id("recall")>>), Id("if")>>) @@
  "twice" :> CixlFunc("twice", <<N>>, <<>>,
               <<Var("n"), Lambda(<<IntOf(0), IntOf(0), Id("recall"), Id("recall")>>), Id("if")>>) @@
  "deep" :> CixlFunc("deep", <<N>>, <<Arg("Int")>>,
               <<Var("n"), Lambda(Less \o <<Id("deep")>>), Lambda(<<One>>), Id("if-else")>>) @@
  "keep" :> CixlFunc("keep", <<Arg("Int"), NamedArg("n", "Opt")>>, <<Arg("Int"), Arg("Lambda")>>,
               <<Lambda(<<Var("n"), Let(<<"n">>, <<Three>>)>>)>>) @@
  "pickInt" :> CixlFunc("pick", <<NamedArg("n", "Int")>>, <<LitArg(Box("Sym", "int")), NamedArg("n", "Int")>>,
               <<Let(<<"n", "Int">>, <<Var("n")>>), Lambda(<<>>), Id("call")>>) @@
  "reads" :> CixlFunc("reads", <<>>, <<Arg("Int")>>, <<Var("y")>>) @@
  "which" :> CixlFunc("which", <<LitArg(Box("Sym", "this"))>>, <<LitArg(Box("Sym", "that"))>>, <<>>) @@
  "pickOne" :> CixlFunc("pick", <<LitArg(IntBox(1))>>, <<LitArg(Box("Sym", "one"))>>, <<>>) @@
  "pickAny" :> CixlFunc("pick", <<Arg("Opt")>>, <<Arg("A")>>, <<>>) @@
  "outer" :> CixlFunc("outer", <<N>>, <<Arg("Int")>>, <<Func("inner"), Id("inner")>>) @@
  "inner" :> CixlFunc("inner", <<>>, <<Arg("Int")>>, <<Var("n"), Let(<<"m">>, <<Three>>)>>) @@
  "add" :> CixlFunc("add", <<N, NamedArg("m", "Int")>>, <<Arg("Int")>>, <<Var("n"), Var("m"), Id("+")>>) @@
  "this" :> CixlFunc("this", <<>>, <<Arg("Fimp")>>, <<Id("this-fimp")>>) @@
  "lost" :> CixlFunc("lost", <<N>>, <<Arg("Int")>>, <<Var("n"), One>>) @@
  "short" :> CixlFunc("short", <<N>>, <<NamedArg("n", "Int"), Arg("Int")>>, <<>>) @@
  "mistyped" :> CixlFunc("mistyped", <<N>>, <<Arg("Int")>>, <<True>>) @@
  "unbound" :> CixlFunc("unbound", <<N>>, <<NamedArg("q", "Int")>>,
                 <<Lambda(<<Let(<<"q">>, <<One>>)>>), Id("_")>>) @@  \* q is bound elsewhere, if at all
  "half" :> CixlFunc("half", <<N>>, <<Arg("Int"), Arg("Int")>>, <<Var("n"), True>>) @@
  "recalled" :> CixlFunc("recalled", <<N>>, <<Arg("Int")>>, <<Var("n"), True, Id("recall")>>) @@
  "tries" :> CixlFunc("tries", <<N>>, <<Arg("Int")>>,
               <<Var("n"), Func("mistyped"), Id("mistyped"), Catch(<<Clause("Str", <<Id("_"), One>>)>>)>>)

Picks == <<Func("pickInt"), Func("pickOne"), Func("pickAny")>>
Curated ==
  "recall" :> <<<<Func("down"), Three, Id("down")>>, <<Three, Id("down"), True, Id("down")>>>> @@
  "queue" :> <<<<Func("twice"), One, Id("twice"), One>>>> @@
  "stray" :> <<<<One, Lambda(<<Id("recall")>>), Id("call")>>, <<Id("recall")>>>> @@
  "depth" :> <<<<Func("deep"), One, Id("deep")>>, <<Three, Id("deep"), Three>>,
               <<Catch(<<Clause("A", <<>>)>>), IntOf(0), Id("deep")>>>> @@
  "caught" :> <<<<Func("deep"), Three, Id("deep"), Catch(<<Clause("Str", <<Id("value")>>)>>)>>>> @@
  "closure" :> <<<<Func("keep"), One, Three, Id("keep"), Let(<<"f">>, <<>>)>>,
                 <<Var("f"), Id("call"), Var("f"), Id("call")>>,
                 <<Group(<<Var("f"), Id("call")>>), Var("n")>>>> @@
  "pick" :> <<Picks \o <<One, Id("pick"), Three, Id("pick"), True, Id("pick")>>>> @@
  "repick" :> <<Picks \o <<Let(<<"f">>, <<Lambda(<<Id("pick")>>)>>), Three, Var("f"), Id("call"),
                           True, Var("f"), Id("call")>>,
                <<False, Ref("pick"), Id("call"), Three, Ref("pick"), Id("call")>>>> @@
  "inner" :> <<<<Func("outer"), One, Id("outer"), Three, Id("outer"), Id("inner")>>>> @@
  "ref" :> <<<<Func("add"), One, IntOf(2), Ref("add"), Id("times")>>,
             <<One, One, One, IntOf(2), Ref("add"), Id("times"), Id("stash")>>,
             <<True, One, Ref("add"), Id("and")>>>> @@
  "unknown" :> <<<<One>>, <<Three, Group(<<Id("missing")>>)>>, <<Catch(<<Clause("Foo", <<>>)>>)>>,
                 <<Let(<<"Int", "y">>, <<One, One>>)>>, <<Lambda(<<Ref("none")>>)>>, <<Three>>>> @@
  "lexical" :> <<<<Let(<<"y">>, <<One>>), Func("reads"), Group(<<Let(<<"y">>, <<Three>>), Id("reads")>>)>>>> @@
  "which" :> <<<<Func("which"), One>>>> @@ "that" :> <<<<Func("which"), SymOf("this"), Id("which")>>>> @@
  "symbols" :> <<<<SymOf("y"), Three, Id("let"), Var("y"), SymOf("z"), Id("var")>>>> @@
  "types" :> <<<<Let(<<"x", "y", "Int", "z">>, <<One, Three, True>>), Var("x"), Var("z"),
                 Let(<<"y", "Int">>, <<True>>)>>, <<Var("y")>>>> @@
  "errors" :> <<<<One>> \o Raise, <<Three>> \o Raise \o <<Catch(<<Clause("Int", <<>>)>>)>>, <<One>>>> @@
  "skipped" :> <<Raise \o <<Group(<<One>>), Lambda(<<Three>>), StackOf(<<One>>),
                            Catch(<<Clause("Str", <<Id("value")>>)>>)>>>> @@
  "rethrow" :> <<Raise \o <<Catch(<<Clause("A", <<Id("throw")>>), Clause("Str", <<Id("%")>>)>>)>>>> @@
  "drain" :> <<<<One, One, Lambda(<<Id("|"), Var("y")>>), Id("call")>>,
               <<One, Lambda(<<Id("_"), One>>), Lambda(<<Id("_"), False>>), Id("and"), Id("!")>>,
               <<Lambda(<<>>), Id("while")>>, <<Lambda(<<>>), One, Id("or"), Lambda(<<Id("|")>>), Id("and")>>>> @@
  "check" :> <<<<One, Id("check"), Lit(Nil), Id("check")>>, <<One, Three, Id("<"), Id("check")>>>> @@
  "loop" :> <<<<Let(<<"y">>, <<IntOf(0)>>),
                Lambda(<<Let(<<"y">>, <<Var("y"), One, Id("+")>>), Var("y"), Three, Id("<")>>),
                Id("while"), Var("y")>>>> @@
  "fib" :> <<<<Three, Id("fib"), IntOf(0), Id("fib"), IntOf(4), Id("fib")>>, <<True, Id("fib")>>>> @@
  "sum" :> <<<<IntOf(4), Id("sum"), StackOf(<<One, Three>>), Id("sum"), StackOf(<<True>>), Id("sum")>>>> @@
  "for" :> <<<<Let(<<"y">>, <<Three>>), Lambda(<<Let(<<"y">>, <<Var("y"), Id("--")>>), Var("y"), Var("y"),
                 Lit(Nil), Id("if-else")>>), Id("..")>>,
               <<One, Lambda(<<Lit(Nil)>>), Ref("_"), Id("for"), Group(<<Lambda(<<>>), One, Id("for")>>)>>,
               <<IntOf(2), One, Id("for"), IntOf(2), Id("..")>>, <<IntOf(2), Ref("recall"), Id("for")>>>> @@
  "compare" :> <<<<One, Three, Id("min"), One, Three, Id("max"), SymOf("y"), SymOf("y"), Id("="), One, Three, Id("<=>")>>,
                 <<One, Three, Id(">"), One, One, Id(">="), Three, One, Id("<="), One, Three, Id("=="), One, True, Id("=")>>>> @@
  "arith" :> <<<<IntOf(-7), IntOf(2), Id("/"), IntOf(-7), IntOf(2), Id("mod"), Id("-"), Id("abs"), Id("**"), Three, Id("*")>>,
               <<One, Id("%%"), Id("--"), Id("/"), One>>>> @@
  "fimps" :> <<<<Func("this"), Id("this"), Id("this-fimp"), Ref("this"), Id("imps"), Ref("this"), Id("lib")>>,
               Picks \o <<Ref("pick"), Id("imps"), Id("..")>>, <<Let(<<"f">>, <<>>), One, Var("f"), Id("call")>>,
               <<Let(<<"f">>, <<Id("_")>>), Three, Var("f"), Id("call"), One, Var("f"), Id("lib"), Ref("throw"), Id("id")>>>> @@
  "spoiled" :> <<<<One>>, <<Func("lost"), Three, Id("lost")>>, <<One, Group(<<Three>>)>>,
                 <<Func("recalled"), One, Id("recalled"), Catch(<<Clause("Str", <<Id("_")>>)>>)>>,
                 <<Lambda(<<Three>>), Id("call"), Id("recall")>>, <<Func("deep"), IntOf(0), Id("deep")>>>> @@
  "tries" :> <<<<Func("tries"), Three, Id("tries"), One>>, <<Id("tries"), Three, Id("tries")>>>> @@
  "tried" :> <<<<Func("tries"), Three, Id("tries"), One>>>> @@
  "given" :> <<Picks \o <<One, Fimp("pick", "pickInt"), True, Fimp("pick", "pickInt"), Fimp("add", "pickInt")>>,
               Picks \o <<One, Fimp("pick", "pickInt"), True, Fimp("pick", "pickInt")>>>> @@
  "bmips" :> <<<<Func("emit-bmips<>")>>>> @@
  "clock" :> <<<<IntOf(2), Lambda(<<One, Id("--")>>), Id("clock"), Lambda(<<Raise[1]>> \o Raise), Id("clock")>>,
               <<Lambda(<<Lambda(Raise), Id("clock")>>), Id("call"), Catch(<<Clause("A", <<Id("value")>>)>>)>>>> @@
  "unsafe" :> <<<<Func("add"), Id("unsafe"), One, One, Id("add"), Group(<<One, Three, Id("add")>>)>>,
                <<IntOf(-1), Lambda(<<One>>), Id("times"), One, Three, Id("~"), Id("add")>>>>

Imps == LET all == "emit-bmips<>" :> EmitBmips @@ Natives @@ Wrappers @@ Defined1 IN all
CuratedNames == {<<n>> : n \in DOMAIN Curated}
AllNames == Combined \cup CuratedNames
ProgramOf(p) == IF Len(p) = 1 THEN Curated[p[1]] ELSE Combine(p[1], p[2], p[3], p[4])

(* A switch in a clause of a switch that is not the last.                  *)
Diverging ==
  "nested" :> <<<<Switch(<<Clause(<<True>>, <<Switch(<<Clause(<<True>>, <<One>>)>>), Id("_")>>),
                           Clause(<<True>>, <<Three>>)>>)>>>>
NestedSwitch == {"nested"}
DivergingOf(p) == Diverging[p]
=============================================================================
