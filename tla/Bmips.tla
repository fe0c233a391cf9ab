------------------------------- MODULE Bmips -------------------------------
(***************************************************************************)
(* A program that was compiled to C and is kept in repl.c: the benchmark   *)
(* that the read-eval-print loop runs when it starts,                      *)
(*                                                                         *)
(*   func: emit-bmips()(_ Int) 10000000000 {10 {50 fib _} times} clock /;  *)
(*                                                                         *)
(* The text of repl.c, operation by operation: what it is, what it names   *)
(* and where its gotos lead, next to what Compile and Emit make of the     *)
(* program.  The compiler that wrote it was an older one: it left more to  *)
(* be looked up by calls, and did not know the lobby.                      *)
(***************************************************************************)
EXTENDS Natives, Emit

Big == 1000  \* 10000000000
EmitBmips ==
  Cxfunc("cx/bin", "emit-bmips", <<>>, <<"Int">>,
         <<Lit(IntBox(Big)),
           Lambda(<<Lit(IntBox(10)), Lambda(<<Lit(IntBox(50)), Id("fib"), Id("_")>>), Id("times")>>),
           Id("clock"), Id("/")>>)

-----------------------------------------------------------------------------
(* What repl.c declares. *)
ReplSyms == {"b", "n", "a"}
ReplLibs == {"cx/bin", "cx/math"}
ReplTypes == {"Int"}
ReplFuncs == {"+", "--", "/", "?", "_", "clock", "emit-bmips", "fib", "fib-rec", "if-else", "recall", "times"}
ReplFimps == {"?<Opt>", "fib<Int>", "+<Int Int>", "fib-rec<Int Int Int>", "emit-bmips<>"}
(* Where the functions start, and their lengths. *)
ReplStarts ==
  "emit-bmips<>" :> [start |-> 2, nops |-> 36] @@ "fib<Int>" :> [start |-> 9, nops |-> 23] @@
  "fib-rec<Int Int Int>" :> [start |-> 15, nops |-> 15]

(* Operations: kind, what it names, and where its gotos lead; none lead to *)
(* the next operation.                                                     *)
Row(op, name) == [op |-> op, name |-> name, to |-> {}]
RowTo(op, name, to) == [Row(op, name) EXCEPT !.to = {to}]
ReplFront ==   \* op0 to op8
  <<Row("funcdef", "emit-bmips<>"), RowTo("fimp", "", 38), RowTo("begin", "emit-bmips<>", 38),
    Row("push", ""), RowTo("lambda", "", 35), Row("push", ""), RowTo("lambda", "", 34), Row("push", ""),
    RowTo("fimp", "", 32)>>
ReplFib ==     \* op9 to op14
  <<RowTo("begin", "fib<Int>", 32), Row("putargs", "n"), Row("push", ""), Row("push", ""),
    Row("getvar", "n"), RowTo("fimp", "", 30)>>
ReplFibRec ==  \* op15 to op23
  <<RowTo("begin", "fib-rec<Int Int Int>", 30), Row("putargs", "a b n"), Row("getvar", "n"),
    Row("funcall", "?"), RowTo("lambda", "", 27), Row("getvar", "b"), Row("getvar", "a"),
    Row("getvar", "b"), Row("funcall", "+")>>
ReplRecall ==  \* op24 to op29
  <<Row("getvar", "n"), Row("funcall", "--"), Row("funcall", "recall"), Row("getvar", "a"),
    Row("funcall", "if-else"), RowTo("return", "fib-rec<Int Int Int>", 16)>>
ReplFibEnd ==  \* op30 and op31
  <<Row("funcall", "fib-rec"), RowTo("return", "fib<Int>", 10)>>
ReplBack ==    \* op32 to op36
  <<Row("funcall", "fib"), Row("funcall", "_"), Row("funcall", "times"), Row("funcall", "clock"),
    Row("funcall", "/")>>
ReplReturn ==  \* op37
  <<RowTo("return", "emit-bmips<>", 3)>>
ReplOps == ReplFront \o ReplFib \o ReplFibRec \o ReplRecall \o ReplFibEnd \o ReplBack \o ReplReturn

-----------------------------------------------------------------------------
(* The same of what the model compiles. *)
Words(xs) == FoldLeft(LAMBDA acc, x : IF acc = "" THEN x ELSE acc \o " " \o x, "", xs)
RowOf(b, o, pc) ==
  LET Gotos(ways) == {EmitTarget(b, o, pc, w) : w \in ways}
  IN CASE o.op = "funcdef" -> Row(o.op, o.imp)
       [] o.op = "fimp" -> [Row(o.op, "") EXCEPT !.to = Gotos({"skip"})]
       [] o.op = "begin" -> [Row(o.op, o.imp) EXCEPT !.to = Gotos({"skip"})]
       [] o.op = "lambda" -> [Row(o.op, "") EXCEPT !.to = Gotos({"skip"})]
       [] o.op = "return" -> [Row(o.op, o.imp) EXCEPT !.to = Gotos({"again"})]
       [] o.op = "putargs" -> Row(o.op, Words([k \in 1..Len(Imp[o.imp].args) |-> Imp[o.imp].args[k].id]))
       [] o.op = "getvar" -> Row(o.op, o.id)
       [] o.op = "funcall" -> Row(o.op, o.func)
       [] OTHER -> Row(o.op, "")
RowsOf(b) == [k \in 1..Count(b) |-> RowOf(b, b.ops[k], k - 1)]
DeclaredAs(b, kind) == {d[2] : d \in {e \in Declared(b) : e[1] = kind}}
SameAsRepl(b) ==
  /\ RowsOf(b) = ReplOps
  /\ \A i \in DOMAIN ReplStarts : i \in DOMAIN b.fimps /\ b.fimps[i] = ReplStarts[i]
  /\ DeclaredAs(b, "sym") = ReplSyms /\ DeclaredAs(b, "type") = ReplTypes
  /\ DeclaredAs(b, "func") = ReplFuncs
  /\ ReplFimps \subseteq DeclaredAs(b, "fimp") /\ ReplLibs \subseteq DeclaredAs(b, "lib")
=============================================================================
