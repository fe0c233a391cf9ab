-------------------------------- MODULE Emit --------------------------------
(***************************************************************************)
(* The compiler to C: cx_emit of bin.c and the emit functions of op.c.     *)
(*                                                                         *)
(* Operation i of a bin becomes the label op<i>, behind it the code for    *)
(* the case with and for the case without pending errors.  The text leaves *)
(* through gotos whose targets are computed here and not by cx->pc; it     *)
(* names libraries, types, functions, implementations and symbols through  *)
(* variables and accessors, which cx_emit declares if the operations list  *)
(* them.                                                                   *)
(***************************************************************************)
EXTENDS Compile

-----------------------------------------------------------------------------
(* Where an operation leaves the program counter.  `way' is "next", "skip" *)
(* (past the block behind it), "jump" or "again" (a recall).               *)

(* The eval functions: cx->pc has been incremented before they run. *)
EvalTarget(b, o, pc, way) ==
  CASE way = "next" -> pc + 1
    [] way = "skip" /\ o.op = "fimp" -> pc + 1 + b.fimps[o.imp].nops
    [] way = "skip" /\ o.op # "fimp" -> pc + 1 + o.nops
    [] way = "jump" -> o.target
    [] way = "again" -> o.target + 1

(***************************************************************************)
(* The emit functions of one operation, number op: where the text goes,    *)
(* and what it names.  The accessor of an implementation calls the one of  *)
(* its function.                                                           *)
(***************************************************************************)
FimpNames(i) == {<<"fimp", i>>, <<"func", Imp[i].func>>}
LibNames(i) == {<<"lib", Imp[i].lib>>}
TypeNames(t) == IF t \in {"_", "none"} THEN {} ELSE {<<"type", t>>}
Syms(xs) == {<<"sym", x>> : x \in xs \ {""}}
NamedArgs(i) == {Imp[i].args[k].id : k \in 1..Len(Imp[i].args)}

BeginEmit(b, o, op) ==
  [next |-> op + 1, skip |-> op + 1 + o.nops,
   names |-> IF o.imp = "none" THEN {} ELSE FimpNames(o.imp) \cup LibNames(o.imp)]
CatchEmit(b, o, op) ==
  [next |-> op + 1, skip |-> op + o.nops + 1, names |-> TypeNames(o.type)]
ElseEmit(b, o, op) == [next |-> op + 1, skip |-> op + o.nops + 1, names |-> {}]
FimpEmit(b, o, op) ==
  [skip |-> op + b.fimps[o.imp].nops + 1, names |-> FimpNames(o.imp) \cup LibNames(o.imp)]
FuncallEmit(b, o, op) ==
  [next |-> op + 1,
   names |-> {<<"func", o.func>>} \cup (IF o.imp = "none" THEN {} ELSE FimpNames(o.imp))]
GetvarEmit(b, o, op) == [next |-> op + 1, names |-> Syms({o.id})]
JumpEmit(b, o, op) == [jump |-> o.target, names |-> {}]
LambdaEmit(b, o, op) == [skip |-> op + o.nops + 1, names |-> {}]
(* cx_box_emit: the emit functions of the types. *)
BoxNames(v) ==
  CASE v.t = "Func" -> {<<"func", v.v>>} [] v.t = "Sym" -> Syms({v.v}) [] OTHER -> {}
LitNames(as) == UNION {BoxNames(as[k].lit) : k \in {j \in 1..Len(as) : as[j].varg}}
FuncdefEmit(b, o, op) ==
  [next |-> op + 1,
   names |-> FimpNames(o.imp) \cup LitNames(Imp[o.imp].args) \cup LitNames(Imp[o.imp].rets)]
PushEmit(b, o, op) == [next |-> op + 1, names |-> BoxNames(o.v)]
PutargsEmit(b, o, op) == [next |-> op + 1, names |-> Syms(NamedArgs(o.imp))]
PutvarEmit(b, o, op) == [next |-> op + 1, names |-> Syms({o.id}) \cup TypeNames(o.type)]
RetNames(r) == IF r.varg THEN BoxNames(r.lit) ELSE TypeNames(r.type) \cup Syms({r.id})
ReturnEmit(b, o, op) ==
  [next |-> op + 1, again |-> o.target + 1,
   names |-> FimpNames(o.imp) \cup UNION {RetNames(Imp[o.imp].rets[k]) : k \in 1..Len(Imp[o.imp].rets)}]
PlainEmit(b, o, op) == [next |-> op + 1, names |-> {}]  \* end, stash
EmitOf(b, o, op) ==
  CASE o.op = "begin" -> BeginEmit(b, o, op)     [] o.op = "catch" -> CatchEmit(b, o, op)
    [] o.op = "else" -> ElseEmit(b, o, op)       [] o.op = "fimp" -> FimpEmit(b, o, op)
    [] o.op = "funcdef" -> FuncdefEmit(b, o, op) [] o.op = "funcall" -> FuncallEmit(b, o, op)
    [] o.op = "getvar" -> GetvarEmit(b, o, op)   [] o.op = "jump" -> JumpEmit(b, o, op)
    [] o.op = "lambda" -> LambdaEmit(b, o, op)   [] o.op = "push" -> PushEmit(b, o, op)
    [] o.op = "putargs" -> PutargsEmit(b, o, op) [] o.op = "putvar" -> PutvarEmit(b, o, op)
    [] o.op = "return" -> ReturnEmit(b, o, op)   [] OTHER -> PlainEmit(b, o, op)
EmitTarget(b, o, op, way) == EmitOf(b, o, op)[way]

-----------------------------------------------------------------------------
(* What cx_emit asks the operations for, to declare it: the emit_funcs,    *)
(* emit_fimps, emit_syms and emit_types functions.                         *)

FuncsOf(o) ==
  CASE o.op \in {"fimp", "putargs", "return"} -> {Imp[o.imp].func}
    [] o.op = "begin" -> IF o.imp = "none" THEN {} ELSE {Imp[o.imp].func}
    [] o.op = "funcall" -> {o.func}
    [] o.op = "push" -> IF o.v.t = "Func" THEN {o.v.v} ELSE {}
    [] OTHER -> {}
FimpsOf(o) ==
  IF o.op \in {"fimp", "putargs", "return", "begin", "funcall"} THEN {o.imp} \ {"none"} ELSE {}
(* Mutant: literal arguments are forgotten. *)
FuncdefSymsOfRets(i) ==
  {Imp[i].rets[k].lit.v : k \in {j \in 1..Len(Imp[i].rets) : Imp[i].rets[j].varg}}
FuncdefSyms(i) ==
  LET Lits(as) == {as[k].lit.v : k \in {j \in 1..Len(as) : as[j].varg /\ as[j].lit.t = "Sym"}}
  IN Lits(Imp[i].args) \cup Lits(Imp[i].rets)
SymsOf(o) ==
  CASE o.op \in {"getvar", "putvar"} -> Syms({o.id})
    [] o.op = "putargs" -> Syms(NamedArgs(o.imp))
    [] o.op = "funcdef" -> Syms(FuncdefSyms(o.imp))
    [] o.op = "push" -> IF o.v.t = "Sym" THEN Syms({o.v.v}) ELSE {}
    [] OTHER -> {}
RetTypes(i) == {Imp[i].rets[k].type : k \in {j \in 1..Len(Imp[i].rets) : ~Imp[i].rets[j].varg}}
TypesOf(o) ==
  CASE o.op \in {"catch", "putvar"} -> TypeNames(o.type)
    [] o.op = "return" -> UNION {TypeNames(t) : t \in RetTypes(o.imp)}
    [] OTHER -> {}

(* cx_emit, up to the declarations.  The implementations come with the     *)
(* accessors of their libraries.                                           *)
Over(b, F(_)) == UNION {F(b.ops[k]) : k \in 1..Count(b)}
Declared(b) ==
  {<<"func", f>> : f \in Over(b, FuncsOf)} \cup {<<"fimp", i>> : i \in Over(b, FimpsOf)}
  \cup Over(b, SymsOf) \cup Over(b, TypesOf)
  \cup {<<"lib", "lobby">>} \cup UNION {LibNames(i) : i \in Over(b, FimpsOf)}
Undeclared(b) == UNION {EmitOf(b, b.ops[k], k - 1).names : k \in 1..Count(b)} \ Declared(b)
=============================================================================
