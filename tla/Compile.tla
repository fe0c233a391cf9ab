------------------------------ MODULE Compile ------------------------------
(***************************************************************************)
(* The compiler: tok.c, bin.c, fimp.c and the macros of lib/cond.c,        *)
(* lib/error.c, lib/func.c and lib/var.c.                                  *)
(*                                                                         *)
(* Tokens form trees; compiling one appends operations to a `bin'.         *)
(* Operations are numbered from 0, as in the code: operation i of a bin is *)
(* ops[i+1].  Blocks are compiled in place: an operation in front of them  *)
(* holds their length, which is patched once it is known.                  *)
(***************************************************************************)
EXTENDS Integers, Sequences, SequencesExt, FiniteSetsExt, TLC

CONSTANT Imp  \* the implementations of functions, by id: natives and those
              \* that the programs define (see Lib)

(* Values: cx_box, a type and what it holds. *)
Box(t, v) == [t |-> t, v |-> v]
IntBox(n) == Box("Int", n)
BoolBox(b) == Box("Bool", b)
Nil == Box("Nil", 0)

(* Tokens, as the parser leaves them. *)
Lit(v) == [k |-> "literal", v |-> v]
Id(f) == [k |-> "id", f |-> f, imp |-> "any"]
Fimp(f, i) == [k |-> "id", f |-> f, imp |-> i]
Ref(f) == [k |-> "ref", f |-> f]
Var(x) == [k |-> "var", x |-> x]
Group(ts) == [k |-> "group", ts |-> ts]
StackOf(ts) == [k |-> "stack", ts |-> ts]
Lambda(ts) == [k |-> "lambda", ts |-> ts]
Switch(cs) == [k |-> "switch", cs |-> cs]
Catch(cs) == [k |-> "catch", cs |-> cs]
Func(i) == [k |-> "func", i |-> i]
Let(ids, ts) == [k |-> "let", ids |-> ids, ts |-> ts]
Clause(c, ts) == [c |-> c, ts |-> ts]

Funcs == LET imp == Imp
         IN [f \in {imp[i].func : i \in DOMAIN imp} |-> {i \in DOMAIN imp : imp[i].func = f}]
IsFunc(f) == f \in DOMAIN Funcs
ImpsOf(f) == IF IsFunc(f) THEN Funcs[f] ELSE {}
Only(f) == CHOOSE i \in ImpsOf(f) : ImpsOf(f) = {i}
IsCixl(i) == ~Imp[i].ptr

(* The types of cx/abc and what they are derived from; level counts the    *)
(* longest way up.  See Types for how both come about.                     *)
Parents ==
  "Opt" :> {} @@ "A" :> {"Opt"} @@ "Nil" :> {"Opt"} @@ "Cmp" :> {"A"} @@ "Seq" :> {"A"} @@
  "Sink" :> {"A"} @@ "Num" :> {"Cmp"} @@ "Seq<Int>" :> {"Seq"} @@ "Seq<Char>" :> {"Seq"} @@
  "Lib" :> {"A"} @@ "Bool" :> {"A"} @@ "Int" :> {"Num", "Seq<Int>"} @@ "Str" :> {"Cmp", "Seq<Char>"} @@
  "Sym" :> {"Cmp"} @@ "Func" :> {"A", "Seq"} @@ "Fimp" :> {"Seq"} @@ "Lambda" :> {"Seq"} @@
  "Stack" :> {"Cmp", "Seq", "Sink"} @@ "Error" :> {"A"}
Types == DOMAIN Parents
Level[t \in Types] == IF Parents[t] = {} THEN 0 ELSE 1 + Max({Level[p] : p \in Parents[t]})
IsA[t \in Types] == {t} \cup UNION {IsA[p] : p \in Parents[t]}

NewBin == [ops |-> <<>>, fimps |-> <<>>, errs |-> 0, halt |-> FALSE]
Count(b) == Len(b.ops)
New(b, o) == [b EXCEPT !.ops = Append(@, o)]
Error(b) == [b EXCEPT !.errs = @ + 1]
Halt(b) == [b EXCEPT !.halt = TRUE]
(* Sets nops of the block that starts behind operation i. *)
Close(b, i) == [b EXCEPT !.ops[i + 1].nops = Count(b) - i - 1]

Begin(child, i) == [op |-> "begin", child |-> child, imp |-> i, nops |-> -1]

(* let_eval: a type applies to the ids in front of it that have none. *)
Typed(ids) ==
  LET TypeOf(p) == LET qs == {q \in p..Len(ids) : ids[q] \in Types}
                   IN IF qs = {} THEN "none" ELSE ids[CHOOSE q \in qs : \A r \in qs : q <= r]
      names == SelectSeq([p \in 1..Len(ids) |-> p], LAMBDA p : ids[p] \notin Types)
  IN [k \in 1..Len(names) |-> [id |-> ids[names[k]], type |-> TypeOf(names[k])]]
MissingId(ids) == \E p \in 1..Len(ids) : ids[p] \in Types /\ (p = 1 \/ ids[p - 1] \in Types)

RECURSIVE Toks(_, _), Tok(_, _)

(* cx_compile: stops at the first token that fails for good. *)
Toks(ts, b) ==
  LET Step(acc, t) == IF acc.halt THEN acc ELSE Tok(t, acc)
  IN [FoldLeft(Step, [b EXCEPT !.halt = FALSE], ts) EXCEPT !.halt = FALSE]

(* Where a body ends, unless compiling it has failed. *)
Returned(i, start, errs, b) ==
  IF b.errs > errs THEN Halt(Error(b))
  ELSE Close(New(b, [op |-> "return", imp |-> i, target |-> start]), start)
PutArgs(i, b) == New(b, [op |-> "putargs", imp |-> i])

(* Mutant: arguments are put where there are none. *)
BodyAlwaysPuts(i, b) ==
  Returned(i, Count(b), b.errs, Toks(Imp[i].ts, PutArgs(i, New(b, Begin(FALSE, i)))))
(* compile of fimp.c: the body between BEGIN and RETURN. *)
Body(i, b) ==
  Returned(i, Count(b), b.errs,
           Toks(Imp[i].ts, IF Imp[i].args = <<>> THEN New(b, Begin(FALSE, i))
                           ELSE PutArgs(i, New(b, Begin(FALSE, i)))))

(* cx_fimp_inline: once per bin, behind an operation that skips it. *)
Located(i, start, n, b) ==
  [b EXCEPT !.fimps = [j \in DOMAIN @ \cup {i} |-> IF j = i THEN [start |-> start, nops |-> n] ELSE @[j]]]
Measured(i, start, b) == IF b.halt THEN b ELSE Located(i, start, Count(b) - start, b)
Inline(i, b) ==
  IF i \in DOMAIN b.fimps THEN b
  ELSE Measured(i, Count(b) + 1, Body(i, New(Located(i, Count(b) + 1, -1, b), [op |-> "fimp", imp |-> i])))

(* group_compile; an empty group is nothing. *)
GroupTok(t, b) ==
  LET c == Toks(t.ts, New(b, Begin(TRUE, "none")))
  IN IF t.ts = <<>> THEN b
     ELSE IF c.errs > b.errs THEN Error(c)
     ELSE Close(New(c, [op |-> "end"]), Count(b))

(* stack_compile *)
StackTok(t, b) ==
  LET c == Toks(t.ts, New(b, Begin(TRUE, "none")))
  IN IF t.ts = <<>> THEN New(b, [op |-> "push", v |-> Box("Stack", <<>>)])
     ELSE IF c.errs > b.errs THEN Halt(Error(c))
     ELSE Close(New(New(c, [op |-> "stash"]), [op |-> "end"]), Count(b))

(* lambda_compile *)
LambdaTok(t, b) ==
  LET c == Toks(t.ts, New(b, [op |-> "lambda", nops |-> -1]))
  IN IF c.errs > b.errs THEN Error(c) ELSE Close(c, Count(b))

(* id_compile, for functions: the implementation that is asked for, or the *)
(* only one there is, is inlined in front of the call.                     *)
Given(t) ==
  IF t.imp # "any" THEN t.imp
  ELSE IF \E i \in ImpsOf(t.f) : ImpsOf(t.f) = {i} THEN Only(t.f) ELSE "none"
IdTok(t, b) ==
  LET i == Given(t)
      c == IF i # "none" /\ IsCixl(i) THEN Inline(i, b) ELSE b
  IN IF ~IsFunc(t.f) \/ (t.imp # "any" /\ i \notin ImpsOf(t.f)) THEN Halt(Error(b))
     ELSE IF c.halt THEN c
     ELSE New(c, [op |-> "funcall", func |-> t.f, imp |-> i])

RefTok(t, b) ==
  IF ~IsFunc(t.f) THEN Halt(Error(b)) ELSE New(b, [op |-> "push", v |-> Box("Func", t.f)])

(* switch_eval: the condition, ELSE over the clause, the clause and JUMP; *)
(* at last every JUMP of the range is sent to its end.                    *)
SwitchTok(t, b) ==
  LET Step(acc, c) ==
        LET c1 == Toks(c.c, acc)
            c2 == Toks(c.ts, New(c1, [op |-> "else", nops |-> -1]))
        IN Close(New(c2, [op |-> "jump", target |-> -1]), Count(c1))
      d == FoldLeft(Step, b, t.cs)
  IN [d EXCEPT !.ops = [k \in 1..Len(@) |->
       IF k > Count(b) /\ @[k].op = "jump" THEN [@[k] EXCEPT !.target = Count(d)] ELSE @[k]]]

(* catch_eval of lib/error.c; `_' stands for no type. *)
CatchTok(t, b) ==
  LET Step(acc, c) ==
        IF acc.halt THEN acc
        ELSE IF c.c \notin Types \cup {"_"} THEN Halt(Error(acc))
        ELSE LET d == Toks(c.ts, New(acc, [op |-> "catch", type |-> c.c, nops |-> -1]))
             IN IF d.errs > acc.errs THEN Halt(d) ELSE Close(d, Count(acc))
  IN FoldLeft(Step, b, t.cs)

(* func_eval *)
FuncTok(t, b) == Inline(t.i, New(b, [op |-> "funcdef", imp |-> t.i]))

(* let_eval: the last id takes the top of the stack. *)
LetTok(t, b) ==
  LET c == Toks(t.ts, b)
      Step(acc, x) == New(acc, [op |-> "putvar", id |-> x.id, type |-> x.type])
  IN IF c.errs > b.errs \/ MissingId(t.ids) THEN Error(c)
     ELSE FoldLeft(Step, c, Reverse(Typed(t.ids)))

Tok(t, b) ==
  CASE t.k = "literal" -> New(b, [op |-> "push", v |-> t.v])
    [] t.k = "var" -> New(b, [op |-> "getvar", id |-> t.x])
    [] t.k = "id" -> IdTok(t, b)
    [] t.k = "ref" -> RefTok(t, b)
    [] t.k = "group" -> GroupTok(t, b)
    [] t.k = "stack" -> StackTok(t, b)
    [] t.k = "lambda" -> LambdaTok(t, b)
    [] t.k = "switch" -> SwitchTok(t, b)
    [] t.k = "catch" -> CatchTok(t, b)
    [] t.k = "func" -> FuncTok(t, b)
    [] t.k = "let" -> LetTok(t, b)
=============================================================================
