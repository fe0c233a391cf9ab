------------------------------- MODULE Types -------------------------------
(***************************************************************************)
(* The type graph: type.c, type_set.c, arg.c and rec.c, the forms type-id:,*)
(* type: and rec: of lib/type.c and lib/rec.c, the scoring of              *)
(* implementations of fimp.c and func.c, and the definitions that op.c     *)
(* emits for a compiled program.                                           *)
(*                                                                         *)
(* A type is known by its tag, its index in the sequence of types.  A type *)
(* id is the tuple of the name and the ids of the arguments: Stack<Int> is *)
(* <<"Stack", <<"Int">>>>.  Methods (write, dump, iter...) are left out.   *)
(* Sets of types, which the code orders by address, are walked in the      *)
(* order of their creation.                                                *)
(***************************************************************************)
EXTENDS Derivation, Sequences, SequencesExt, TLC

CONSTANTS
  Indices,      \* the references to arguments, by name: "Arg1:0" :> <<1, 0>>
  Definitions,  \* what a program may contain: definitions and uses of types
  MaxDefs       \* bound on the length of a program

VARIABLES
  world,  \* the types, their names and the conversions between them
  defs,   \* the CX_OTYPEDEF operations compiled so far, by the type they name
  uses,   \* the type expressions the program has mentioned
  past    \* which kinds of definitions there have been

vars == <<world, defs, uses, past>>

----------------------------------------------------------------------------
(* Types. *)

Ok(w, t) == [w |-> w, t |-> t, ok |-> TRUE]
Null(w) == [w |-> w, t |-> 0, ok |-> FALSE]
Fail(w) == Null([w EXCEPT !.errors = TRUE])
Broken(w) == Null([w EXCEPT !.broken = TRUE])  \* a failed cx_test or a wild pointer

IdOf(w, t) == w.types[t].id
Raw(w, t) == w.types[t].raw
Named(w, id) == IF id \in DOMAIN w.names THEN w.names[id] ELSE 0
Sorted(ts) == SetToSortSeq(ts, <)
Next1(w) == Len(w.types) + 1

NewType(w, id, meta, new) ==
  [w EXCEPT !.types = Append(@,
     [id |-> id, meta |-> meta, new |-> new, init |-> "none", raw |-> Next1(w), args |-> <<>>,
      members |-> {}, bases |-> {}, fields |-> <<>>, live |-> TRUE] @@ Bare(Next1(w)))]

PushName(w, t) == [w EXCEPT !.names = (IdOf(w, t) :> t) @@ @]

(* derive(), by recursion. *)
RECURSIVE Inherit(_, _, _)
Inherit(w, c, p) ==
  IF Knows(w.types, c, p) THEN w
  ELSE LET put == [w EXCEPT !.types = Learned(@, c, p),
                            !.broken = @ \/ ~w.types[c].live \/ ~w.types[p].live]
           up == FoldLeft(LAMBDA v, t : Inherit(v, c, t), put, Sorted(Above(w.types, c, p)))
       IN FoldLeft(LAMBDA v, t : Inherit(v, t, p), up, Sorted(Under(w.types, c, p)))

Derive(w, c, p) == Inherit([w EXCEPT !.types = Related(@, c, p)], c, p)

(* Reinit(w, t): the definition of t is replaced.  The entry of t among    *)
(* the children of its parents stays, and so does what the types below its *)
(* children know of it.                                                    *)
Reinit(w, t) ==
  LET old == w.types[t]
      Orphan(v, c) ==
        LET up == v.types[c].parents \ {t}
        IN [v EXCEPT !.types[c].parents = up, !.types[c].is = @ \ {t},
                     !.types[c].level = IF up = {} THEN 0 ELSE Max({v.types[p].level + 1 : p \in up}),
                     !.broken = @ \/ ~v.types[c].live]
      bare == [w EXCEPT !.types[t].level = 0, !.types[t].is = {t}, !.types[t].args = <<>>,
                        !.types[t].parents = {}]
  IN [FoldLeft(Orphan, bare, Sorted(old.children)) EXCEPT !.types[t].children = {}]

(* cx_is: through the matrix, and argument by argument for another         *)
(* instance of the same type.                                              *)
RECURSIVE Is(_, _, _)
Is(w, x, y) ==
  \/ x = y
  \/ \E c \in w.types[x].is :
       /\ Raw(w, c) = Raw(w, y)
       /\ \/ c = y
          \/ LET i == w.types[c].args
                 j == w.types[y].args
             IN \A k \in 1 .. Min({Len(i), Len(j)}) : Is(w, i[k], j[k])

(* What x is of the raw type of y; the scan leaves out the first type.     *)
Subtype(w, x, y) ==
  LET found == {c \in w.types[x].is : c # 1 /\ Raw(w, c) = Raw(w, y)}
  IN IF x = y THEN x ELSE IF found = {} THEN 0 ELSE Max(found)

RECURSIVE HasRefs(_, _)
HasRefs(w, t) ==
  w.types[t].meta = "arg" \/ \E a \in Range(w.types[t].args) : a # t /\ HasRefs(w, a)

(* AddField: TRUE in ok unless the record has such a field. *)
AddField(w, t, id, type) ==
  IF \E f \in Range(w.types[t].fields) : f.id = id THEN Null(w)
  ELSE Ok([w EXCEPT !.types[t].fields = Append(@, [id |-> id, type |-> type])], t)

NewRec(w, id) ==
  LET v == NewType(w, id, "rec", "rec")
  IN Derive([v EXCEPT !.types[Next1(w)].init = "rec"], Next1(w), w.names[<<"Rec">>])

----------------------------------------------------------------------------
(* Instances.  A reference is followed with what stands for the arguments  *)
(* of the declaration (ps) and the types given for them (ts).              *)

At(ts, i) == IF i < Len(ts) THEN ts[i + 1] ELSE 0

RECURSIVE Find(_, _), Vget(_, _, _), Resolve(_, _, _, _)

(* Types by their expressions, in order, up to the first unknown one. *)
FoundTo(ts, g) == IF g.t = 0 THEN [Fail(g.w) EXCEPT !.t = ts] ELSE Ok(g.w, Append(ts, g.t))
FindAll(w, es) == FoldLeft(LAMBDA r, e : IF r.ok THEN FoundTo(r.t, Find(r.w, e)) ELSE r, Ok(w, <<>>), es)

AddRef(w, id) ==
  LET v == PushName(NewType(w, id, "arg", "plain"), Next1(w))
  IN Ok(Derive(v, Next1(w), w.names[<<"Cmp">>]), Next1(w))

(* cx_get_type, silent. *)
Instance(raw, args) == IF raw.t = 0 THEN raw ELSE Vget(raw.w, raw.t, args)
InstanceOf(id, args) == Instance(Find(args.w, <<id>>), args.t)
Find(w, e) ==
  IF Len(e) > 1 THEN InstanceOf(e[1], FindAll(w, Tail(e)))
  ELSE IF Named(w, e) # 0 THEN Ok(w, Named(w, e))
  ELSE IF e[1] \in DOMAIN Indices THEN AddRef(w, e)
  ELSE Null(w)

Known(g) == IF g.t = 0 THEN Fail(g.w) ELSE g
Get(w, e) == Known(Find(w, e))

Follow(r, i, ts) ==
  LET args == r.w.types[r.t].args
  IN IF i >= Len(args) THEN Fail(r.w) ELSE Resolve(r.w, At(args, i), args, ts)
FollowAll(r, path, ts) == FoldLeft(LAMBDA q, i : IF q.t = 0 THEN q ELSE Follow(q, i, ts), r, path)
FollowIn(w, s, path, ts) ==
  IF s = 0 THEN Null(w)
  ELSE IF path[2] >= Len(w.types[s].args) THEN Broken([w EXCEPT !.errors = TRUE])
  ELSE FollowAll(Ok(w, At(w.types[s].args, path[2])), SubSeq(path, 3, Len(path)), ts)
FollowRef(w, path, ps, ts) ==
  LET t == At(ts, path[1])
      p == At(ps, path[1])
  IN IF t = 0 THEN Fail(w)
     ELSE IF Len(path) = 1 THEN Ok(w, t)
     ELSE FollowIn(w, IF p = 0 THEN 0 ELSE Subtype(w, t, p), path, ts)

(* cx_resolve_arg_refs *)
Also(ts, g) == [g EXCEPT !.t = Append(ts, g.t)]
ResolveArgs(w, t, ps, ts) ==
  FoldLeft(LAMBDA r, a : Also(r.t, IF a = t THEN Ok(r.w, a) ELSE Resolve(r.w, a, ps, ts)),
           Ok(w, <<>>), w.types[t].args)
WithArgs(t, old, new) == IF new.t = old THEN Ok(new.w, t) ELSE Vget(new.w, Raw(new.w, t), new.t)
Resolve(w, t, ps, ts) ==
  IF w.types[t].meta = "arg" THEN FollowRef(w, Indices[IdOf(w, t)[1]], ps, ts)
  ELSE WithArgs(t, w.types[t].args, ResolveArgs(w, t, ps, ts))

(* cx_type_id_init_imp: the instance and the members it stands for become  *)
(* one another.                                                            *)
LinkMember(raw, n, m, r) ==
  IF m \in {raw, n} \/ r.t \in {0, m} THEN r.w ELSE Derive(Derive(r.w, r.t, n), n, r.t)
InitTypeId(w, n, args) ==
  LET raw == Raw(w, n)
  IN Ok(FoldLeft(LAMBDA v, m : LinkMember(raw, n, m, Resolve(v, m, w.types[raw].args, args)),
                 w, Sorted(w.types[raw].members)), n)

(* cx_type_init_imp: the argument is one of the members. *)
InitType(w, n, args) ==
  IF \E m \in w.types[n].members : Is(w, args[1], m) THEN Ok(w, n) ELSE Fail(w)

SetFieldType(n, i, r) == IF r.t = 0 THEN r.w ELSE [r.w EXCEPT !.types[n].fields[i].type = r.t]
InitRec(w, n, args) ==
  Ok(FoldLeft(LAMBDA v, i : SetFieldType(n, i, Resolve(v, v.types[n].fields[i].type,
                                                       w.types[Raw(w, n)].args, args)),
              w, [i \in DOMAIN w.types[n].fields |-> i]), n)

(* type_init_imp of opt.c, iter.c and stack.c *)
IsAlso(n, p) == Ok(Derive(p.w, n, p.t), n)
InitOpt(w, n, args) == Ok(Derive(Derive(w, args[1], n), w.names[<<"Nil">>], n), n)
InitSeq(w, n, args) == IsAlso(n, Vget(w, w.names[<<"Seq">>], args))
InitStack(w, n, args) == IsAlso(n, Vget(InitSeq(w, n, args).w, w.names[<<"Sink">>], args))

InitInstance(w, n, args) ==
  CASE w.types[n].init = "id" -> InitTypeId(w, n, args)
    [] w.types[n].init = "type" -> InitType(w, n, args)
    [] w.types[n].init = "rec" -> InitRec(w, n, args)
    [] w.types[n].init = "opt" -> InitOpt(w, n, args)
    [] w.types[n].init = "iter" -> InitSeq(w, n, args)
    [] w.types[n].init = "stack" -> InitStack(w, n, args)
    [] OTHER -> Ok(w, n)

(* The rest of cx_type_vget.  A set of types reads its arguments from its  *)
(* id, too, so that its instances have them twice.  An instance whose      *)
(* initialisation fails is freed, but stays among the children of t.       *)
Made(w, old, id) == IF old.new = "rec" THEN NewRec(w, id) ELSE NewType(w, id, old.meta, old.new)
Typed(w, n, old, args) ==
  [w EXCEPT !.types[n].meta = old.meta, !.types[n].raw = old.raw, !.types[n].init = old.init,
            !.types[n].members = old.members, !.types[n].fields = old.fields,
            !.types[n].args = IF old.new = "set" THEN args ELSE <<>>]
Placed(w, n, t, args) == [Derive(w, n, t) EXCEPT !.types[n].args = @ \o args]
Kept(r, n) == IF r.t = 0 THEN Null([r.w EXCEPT !.types[n].live = FALSE]) ELSE Ok(PushName(r.w, n), n)
Instantiate(w, t, id, args) ==
  LET n == Next1(w) old == w.types[t]
  IN Kept(InitInstance(Placed(Typed(Made(w, old, id), n, old, args), n, t, args), n, args), n)

Cached(w, t, id, args) == IF Named(w, id) # 0 THEN Ok(w, Named(w, id)) ELSE Instantiate(w, t, id, args)
Vget(w, t, args) ==
  LET want == w.types[t].args
      same == \A i \in DOMAIN want : args[i] \in {0, want[i]}
      fits == \A i \in DOMAIN want :
                \/ args[i] \in {0, want[i]}
                \/ w.types[args[i]].meta = "arg"
                \/ Is(w, args[i], want[i])
  IN IF want = <<>> \/ Len(args) # Len(want) \/ ~fits THEN Fail(w)
     ELSE IF same THEN Ok(w, t)
     ELSE IF 0 \in Range(args) THEN Broken(w)
     ELSE Cached(w, t, IdOf(w, Raw(w, t)) \o [i \in DOMAIN args |-> IdOf(w, args[i])], args)

----------------------------------------------------------------------------
(* The library: what cx/abc and cx/rec add, in their order. *)

Named1(w, n, type) == [PushName(NewType(w, <<type.id>>, type.meta, "plain"), n) EXCEPT !.types[n].init = type.init]
AddType(w, n, ps, type) ==
  [FoldLeft(LAMBDA v, p : Derive(v, n, p), Named1(w, n, type), ps) EXCEPT !.types[n].args = type.args]
(* The declarations; one of a type that is there adds parents to it.       *)
Declare(r, type) ==
  IF Named(r.w, <<type.id>>) = 0 THEN AddType(r.w, Next1(r.w), r.t, type)
  ELSE FoldLeft(LAMBDA v, p : Derive(v, Named(v, <<type.id>>), p), r.w, r.t)
Declared(w, types) == FoldLeft(LAMBDA v, type : Declare(FindAll(v, type.parents), type), w, types)

LibId(id, parents, args, init) == [id |-> id, meta |-> "id", parents |-> parents, args |-> args, init |-> init]
LibType(id, parents, args, init) == [LibId(id, parents, args, init) EXCEPT !.meta = "imp"]
LibraryTypes ==
  LET any == <<"A">> cmp == <<"Cmp">> seq == <<"Seq">> opt == <<1>>
  IN << LibId("Opt", <<>>, opt, "opt"), LibType("Nil", <<<<"Opt">>>>, <<>>, "none"),
        LibId("A", <<<<"Opt">>>>, <<>>, "none"), LibId("Cmp", <<any>>, <<>>, "none"),
        LibId("Seq", <<any>>, opt, "none"), LibId("Sink", <<any>>, opt, "none"), LibId("Num", <<cmp>>, <<>>, "none"),
        LibType("Int", <<<<"Num">>>>, <<>>, "none"), LibType("Int", <<<<"Seq", <<"Int">>>>>>, <<>>, "none"),
        LibType("Char", <<cmp>>, <<>>, "none"), LibType("Str", <<cmp, <<"Seq", <<"Char">>>>>>, <<>>, "none"),
        LibType("Iter", <<seq>>, opt, "iter"), LibType("Stack", <<cmp, seq, <<"Sink">>>>, opt, "stack"),
        [LibType("Rec", <<cmp>>, <<>>, "none") EXCEPT !.meta = "rec"] >>
NoTypes == [types |-> <<>>, names |-> <<>>, convs |-> <<>>, errors |-> FALSE, broken |-> FALSE]
Library == Declared(NoTypes, LibraryTypes)

----------------------------------------------------------------------------
(* Calls: the implementations of a function of one argument, in the order  *)
(* of their ids; the first one with the best score is called.              *)

(* Mutant: levels do not count. *)
ScoreFlat(w, t, v) == IF Is(w, v, t) THEN 0 ELSE -1

Score(w, t, v) ==
  IF Is(w, v, t) THEN Distance(w.types, t, v) ELSE -1
Match(w, imps, v) ==
  LET best == Best([i \in DOMAIN imps |-> Score(w, imps[i], v)])
  IN IF best = 0 THEN 0 ELSE imps[best]

(* Mutant: the value is given the raw type. *)
DefineConvRaw(w, t, m) ==
  LET wrap == IdOf(w, Raw(w, t))
      back == IdOf(w, m)
  IN [w EXCEPT !.convs = (<<wrap, m>> :> Raw(w, t)) @@ (<<back, t>> :> m) @@ @]

(* cx_type_define_conv: the conversions between a type and a member, under *)
(* the names of both.                                                      *)
DefineConv(w, t, m) ==
  LET wrap == IdOf(w, Raw(w, t))
      back == IdOf(w, m)
  IN [w EXCEPT !.convs = (<<wrap, m>> :> t) @@ (<<back, t>> :> m) @@ @]

(* What calling the conversion named f on a value of type v gives. *)
Convert(w, f, v) ==
  LET imps == Sorted({c[2] : c \in {k \in DOMAIN w.convs : k[1] = f}})
      m == Match(w, imps, v)
  IN IF m = 0 THEN 0 ELSE w.convs[<<f, m>>]

----------------------------------------------------------------------------
(* The forms.  A form that is refused keeps what it has done so far.       *)

Then(r, F(_)) == IF r.ok THEN F(r.w) ELSE r
Each(r, xs, F(_, _)) == FoldLeft(LAMBDA q, x : IF q.ok THEN F(q.w, x) ELSE q, r, xs)

Registered(w, n, own, e, init, args) ==
  IF Named(w, <<e[1]>>) # 0 THEN Fail(w)
  ELSE Ok(PushName([w EXCEPT !.types[n].init = init, !.types[n].args = own \o args], n), n)
SetWith(own, e, meta, init, args) ==
  Registered(NewType(own.w, <<e[1]>>, meta, "set"), Next1(own.w), own.t, e, init, args)
NewSet(w, e, meta, init, args) == SetWith(FindAll(w, Tail(e)), e, meta, init, args)

(* The type set that a form defines: a new one, or the old one emptied. *)
OpenSet(w, old, e, meta, init, args) ==
  IF old = 0 THEN NewSet(w, e, meta, init, args)
  ELSE IF w.types[old].new # "set" THEN Broken(w)
  ELSE Ok([Reinit(w, old) EXCEPT !.types[old].members = {}], old)

AddMember(w, t, m) == [w EXCEPT !.types[t].members = @ \cup {m}]
AddBase(w, t, p) == [w EXCEPT !.types[t].bases = @ \cup {p}]
IsAny(w, t) == Ok(Derive(w, t, w.names[<<"A">>]), t)

(* The parents, which are constraints on the members; the members; and a   *)
(* type id with a single member is it.                                     *)
Constrain(w, t, p) ==
  IF p \in w.types[t].bases THEN Fail(w)
  ELSE Ok(IF HasRefs(w, p) THEN AddBase(w, t, p) ELSE Derive(AddBase(w, t, p), t, p), t)
Checked(w, t, m) == IF \A p \in w.types[t].bases : Is(w, m, p) THEN Ok(w, t) ELSE Fail(w)
Enrol(t, g) ==
  IF g.t = 0 THEN g
  ELSE IF g.t \in g.w.types[t].members THEN Fail(g.w)
  ELSE IF HasRefs(g.w, g.t) THEN Ok(AddMember(g.w, t, g.t), t)
  ELSE Checked(Derive(AddMember(g.w, t, g.t), g.t, t), t, g.t)
Alias(w, t) ==
  LET ms == w.types[t].members
  IN IF Cardinality(ms) # 1 \/ HasRefs(w, Max(ms)) THEN Ok(w, t)
     ELSE IF Max(ms) \in w.types[t].bases THEN Broken(w)
     ELSE Ok(Derive(AddBase(w, t, Max(ms)), t, Max(ms)), t)
Fill(open, bases, members) ==
  LET t == open.t
  IN Then(Each(Each(Then(open, LAMBDA v : IsAny(v, t)), bases, LAMBDA v, p : Constrain(v, t, p)),
               members, LAMBDA v, e : Enrol(t, Get(v, e))), LAMBDA v : Alias(v, t))
FillWith(t, bases, d) ==
  IF ~bases.ok THEN bases ELSE Fill(OpenSet(bases.w, t, d.id, "id", "id", <<>>), bases.t, d.members)
(* The form is for a new name, or for one of the same kind. *)
Unless(old, meta) == old.t # 0 /\ old.w.types[old.t].meta # meta
TypeIdOver(old, d) ==
  IF Unless(old, "id") THEN Fail(old.w) ELSE FillWith(old.t, FindAll(old.w, d.bases), d)
TypeIdForm(w, d) == TypeIdOver(Find(w, d.id), d)

(* A wrapper for each member, with conversions. *)
Linked(t, m, wrap) == Ok(DefineConv(Derive(wrap.w, wrap.t, m), wrap.t, m), t)
Wrapped(t, m, wrap) == IF wrap.t = 0 THEN Broken(wrap.w) ELSE Linked(t, m, wrap)
Wrap(w, t, m) == Wrapped(t, m, Vget(AddMember(w, t, m), t, <<m>>))
WrapNew(t, g) ==
  IF g.t = 0 THEN g ELSE IF g.t \in g.w.types[t].members THEN Fail(g.w) ELSE Wrap(g.w, t, g.t)
WrapAll(open, members) == Each(open, members, LAMBDA v, e : WrapNew(open.t, Get(v, e)))
TypeOver(old, d) ==
  IF Unless(old, "type") THEN Fail(old.w)
  ELSE WrapAll(OpenSet(old.w, old.t, d.id, "type", "type", <<1>>), d.members)
TypeForm(w, d) == TypeOver(Find(w, d.id), d)

(* Mutant: the fields of the parent are left behind. *)
DeriveRecBare(w, t, p) == Ok(Derive(w, t, p), t)

(* cx_derive_rec: a parent gives its fields, except those that are there. *)
Inherited(w, t, p) ==
  IF ~Is(w, p, w.names[<<"Rec">>]) THEN Ok(w, t)
  ELSE IF w.types[p].new # "rec" THEN Broken(w)
  ELSE Ok(FoldLeft(LAMBDA v, f : AddField(v, t, f.id, f.type).w, w, w.types[p].fields), t)
DeriveRec(w, t, p) == Inherited(Derive(w, t, p), t, p)

(* cx_add_rec_type; cx_test of its callers wants the name to be new. *)
RecArgs(n, args) == Ok([args.w EXCEPT !.types[n].args = args.t], n)
AddRecType(w, e) ==
  IF Named(w, <<e[1]>>) # 0 THEN Broken(w)
  ELSE RecArgs(Next1(w), FindAll(PushName(NewRec(w, <<e[1]>>), Next1(w)), Tail(e)))

Emptied(w, t) == [Derive(Reinit(w, t), t, w.names[<<"Rec">>]) EXCEPT !.types[t].fields = <<>>]
OpenRec(w, old, e) ==
  IF old = 0 THEN AddRecType(w, e) ELSE IF w.types[old].new # "rec" THEN Broken(w) ELSE Ok(Emptied(w, old), old)
NewField(r) == IF r.ok THEN r ELSE Fail(r.w)
FillRec(t, types, bases, fields) ==
  IF ~types.ok THEN types
  ELSE Each(Each(Ok(types.w, t), [i \in DOMAIN fields |-> i],
                 LAMBDA v, i : NewField(AddField(v, t, fields[i].id, types.t[i]))),
            bases, LAMBDA v, p : DeriveRec(v, t, p))
TypedRec(open, bases, fields) ==
  IF ~open.ok THEN open
  ELSE FillRec(open.t, FindAll(open.w, [i \in DOMAIN fields |-> fields[i].type]), bases, fields)
RecWith(t, bases, d) ==
  IF ~bases.ok THEN Broken(bases.w)
  ELSE IF \E p \in Range(bases.t) : bases.w.types[p].meta \notin {"id", "rec"} THEN Fail(bases.w)
  ELSE TypedRec(OpenRec(bases.w, t, d.id), bases.t, d.fields)
RecOver(old, d) ==
  IF old.t # 0 /\ ~Is(old.w, old.t, old.w.names[<<"Rec">>]) THEN Fail(old.w)
  ELSE RecWith(old.t, FindAll(old.w, d.bases), d)
RecForm(w, d) == RecOver(Find(w, d.id), d)

----------------------------------------------------------------------------
(* A compiled program: the definitions that typedef_emit_init() writes for *)
(* the types as they are when compilation ends, in the order of the        *)
(* CX_OTYPEDEF operations, executed from the library.  What is missing or  *)
(* there already ends the program in cx_test().                            *)

MustBe(g) == IF g.t = 0 THEN Broken(g.w) ELSE g
MustGet(w, id) == MustBe(Find(w, id))
(* Mutant: the parameters are not emitted. *)
PushArgsNone(r, d, w) == r

PushArg(t, g) == Ok([g.w EXCEPT !.types[t].args = Append(@, g.t)], t)
PushArgs(r, d, w) == Each(r, d.args, LAMBDA v, a : PushArg(r.t, Get(v, IdOf(w, a))))

NewEmitted(r) == IF r.ok THEN r ELSE Broken(r.w)
EmitParent(t, g) == IF g.ok THEN DeriveRec(g.w, t, g.t) ELSE g
EmitField(t, f, g) == IF ~g.ok THEN g ELSE NewEmitted(AddField(g.w, t, f.id, g.t))
EmitFields(new, d, w) ==
  LET t == new.t
  IN Each(PushArgs(Each(new, Sorted(d.parents \ {w.names[<<"Rec">>]}),
                        LAMBDA u, p : EmitParent(t, MustGet(u, IdOf(w, p)))), d, w),
          d.fields, LAMBDA u, f : EmitField(t, f, MustGet(u, IdOf(w, f.type))))
EmitRec(v, w, d) == EmitFields(AddRecType(v, d.id), d, w)

(* The set of parents is given the type itself, once for each of them, and *)
(* a set refuses the second. *)
EmitBase(t, refs, g) ==
  IF t \in g.w.types[t].bases THEN Broken(g.w)
  ELSE IF refs THEN Ok(AddBase(g.w, t, t), t)
  ELSE IF g.t = 0 THEN Broken(g.w) ELSE Ok(Derive(AddBase(g.w, t, t), t, g.t), t)
EmitMember(t, refs, g) ==
  IF g.t = 0 THEN Broken(g.w)
  ELSE Ok(AddMember(IF refs THEN g.w ELSE Derive(g.w, g.t, t), t, g.t), t)
EmitAlias(w, t) ==
  LET ms == w.types[t].members
  IN IF Cardinality(ms) # 1 \/ HasRefs(w, Max(ms)) THEN Ok(w, t) ELSE Ok(Derive(w, t, Max(ms)), t)
EmitSet(new, d, w) ==
  LET t == new.t
  IN Then(Each(Each(PushArgs(Then(new, LAMBDA u : IsAny(u, t)), d, w),
                    Sorted(d.bases), LAMBDA u, p : EmitBase(t, HasRefs(w, p), Get(u, IdOf(w, p)))),
               Sorted(d.members), LAMBDA u, m : EmitMember(t, HasRefs(w, m), Get(u, IdOf(w, m)))),
          LAMBDA u : EmitAlias(u, t))
EmitTypeId(v, w, d) == EmitSet(NewSet(v, d.id, "id", "id", <<>>), d, w)

EmitWrapper(t, g) == IF g.t = 0 THEN Broken(g.w) ELSE Wrap(g.w, t, g.t)
EmitWrappers(new, d, w) ==
  Each(PushArgs(new, d, w), Sorted(d.members), LAMBDA u, m : EmitWrapper(new.t, Get(u, IdOf(w, m))))
EmitType(v, w, d) == EmitWrappers(NewSet(v, d.id, "type", "type", <<>>), d, w)

EmitInit(v, w, d) ==
  CASE d.meta = "rec" -> EmitRec(v, w, d)
    [] d.meta = "id" -> EmitTypeId(v, w, d)
    [] d.meta = "type" -> EmitType(v, w, d)
    [] OTHER -> Ok(v, 1)

Mention(w, es) == FoldLeft(LAMBDA v, e : IF v.broken THEN v ELSE Get(v, e).w, w, es)
Compiled ==
  Mention(Each(Ok(Library, 1), defs, LAMBDA v, t : EmitInit(v, world, world.types[t])).w, uses)

----------------------------------------------------------------------------
(* Programs.  At the prompt a form that is refused does not end the        *)
(* program, so that the ones after it meet what it left.                   *)

Init == /\ world = Library
        /\ defs = <<>>
        /\ uses = <<>>
        /\ past = <<>>

May(d, kind) == /\ d.kind = kind
                /\ Len(past) < MaxDefs
                /\ ~world.broken

Define(d, r) ==
  /\ world' = r.w
  /\ defs' = IF r.ok THEN Append(defs, r.t) ELSE defs
  /\ past' = Append(past, [kind |-> d.kind, known |-> Named(world, <<d.id[1]>>) # 0, ok |-> r.ok,
                           bases |-> Len(d.bases), members |-> Len(d.members)])
  /\ UNCHANGED uses

DefineTypeId(d) == May(d, "type-id") /\ Define(d, TypeIdForm(world, d))
DefineType(d) == May(d, "type") /\ Define(d, TypeForm(world, d))
DefineRec(d) == May(d, "rec") /\ Define(d, RecForm(world, d))

UseType(d) ==
  /\ May(d, "use")
  /\ LET g == Get(world, d.id)
     IN /\ world' = g.w
        /\ past' = Append(past, [kind |-> "use", known |-> FALSE, ok |-> g.ok, bases |-> 0, members |-> 0])
  /\ uses' = Append(uses, d.id)
  /\ UNCHANGED defs

Next == \E d \in Definitions : DefineTypeId(d) \/ DefineType(d) \/ DefineRec(d) \/ UseType(d)

Spec == Init /\ [][Next]_vars

----------------------------------------------------------------------------
(* Properties. *)

Live(w) == {t \in DOMAIN w.types : w.types[t].live}
Plain(w) == {t \in Live(w) : w.types[t].args = <<>> /\ w.types[t].meta # "arg"}
Below(w, x, y) == Is(w, x, y) /\ ~Is(w, y, x)
Redefined == \E i \in DOMAIN past : past[i].known
PutAbove == \E i \in DOMAIN past : past[i].kind = "type-id" /\ past[i].members > 0
Sound == ~world.broken /\ ~Redefined

RECURSIVE UpFrom(_, _)
UpFrom(w, ts) ==
  LET up == ts \cup UNION {w.types[t].parents : t \in ts}
  IN IF up = ts THEN ts ELSE UpFrom(w, up)

(* The matrix that derive() keeps up to date holds exactly what the        *)
(* derivations imply: whatever the order of definitions and instances,     *)
(* late parents reach the types and instances below, and nothing else.     *)
IsDeclared ==
  Sound => \A t \in Live(world) : world.types[t].is = UpFrom(world, {t})

(* A record has the fields of every record type it is, and no field of an  *)
(* instance with actual arguments has a type that still refers to one.     *)
RecordsComplete ==
  Sound => \A x \in {t \in Live(world) : world.types[t].new = "rec"} :
    /\ \A y \in {t \in world.types[x].is : world.types[t].new = "rec"} :
         \A f \in Range(world.types[y].fields) : \E g \in Range(world.types[x].fields) : g.id = f.id
    /\ Raw(world, x) # x /\ ~HasRefs(world, x) =>
         \A f \in Range(world.types[x].fields) : ~HasRefs(world, f.type)

(* Of two implementations that accept a value, the one for the more        *)
(* specific type is called, in whatever order they are kept: levels are    *)
(* kept apart.  Only a type id put above types that exist brings levels    *)
(* together.                                                               *)
SpecificFirst ==
  Sound /\ ~PutAbove =>
    \A x, c, p \in Plain(world) :
      Is(world, x, c) /\ Below(world, c, p) =>
        Match(world, <<p, c>>, x) = c /\ Match(world, <<c, p>>, x) = c

(* The type that two types have in common is the lowest they share.        *)
LeastSupertype ==
  Sound /\ ~PutAbove =>
    \A x, y \in Plain(world) :
      ~\E c \in Plain(world) :
         /\ Is(world, x, c) /\ Is(world, y, c)
         /\ Below(world, c, Supertype(world.types, x, y))

(* A value that is one of the members of a wrapper, or several of them, is *)
(* wrapped over the most specific one, and what that gives is unwrapped to *)
(* this member: of the conversions of one name, which members of a wrapper *)
(* share, wrappers of one member, and wrappers of wrappers, the right one  *)
(* answers, whatever the order of definitions.                             *)
WrapsBack ==
  Sound /\ ~PutAbove =>
    \A t \in {u \in Live(world) : world.types[u].meta = "type" /\ Raw(world, u) = u} :
      \A v \in {u \in Live(world) : world.types[u].meta # "arg" /\ ~HasRefs(world, u)} :
        LET fits == {m \in world.types[t].members : Is(world, v, m)}
            wrapped == Convert(world, IdOf(world, t), v)
        IN fits # {} =>
             \E m \in fits :
               /\ ~\E n \in fits : Below(world, n, m)
               /\ Raw(world, wrapped) = t /\ m \in world.types[wrapped].parents
               /\ Convert(world, IdOf(world, m), wrapped) = m

(* The compiled program has the same types as the compiler had: what is    *)
(* what, the fields of records and, unless type ids were put above types,  *)
(* the levels that decide which implementation is called.                  *)
SameTypes(v, w) ==
  LET Ups(u, x) == {y \in DOMAIN u.names : Is(u, u.names[x], u.names[y])}
      Level(u, x) == u.types[u.names[x]].level
      Fields(u, x) == {<<f.id, IdOf(u, f.type)>> : f \in Range(u.types[u.names[x]].fields)}
  IN DOMAIN v.names = DOMAIN w.names /\ \A x \in DOMAIN w.names :
       /\ Ups(w, x) = Ups(v, x)
       /\ Fields(w, x) = Fields(v, x)
       /\ PutAbove \/ Level(w, x) = Level(v, x)
Agrees(v) == v.broken \/ SameTypes(v, world)
CompiledAsDeclared == Sound /\ ~world.errors => Agrees(Compiled)

(* A program without errors starts when it has been compiled. *)
CompiledStarts == Sound /\ ~world.errors => ~Compiled.broken

OldFacts(w, v) ==
  \A x, y \in Live(w) \cap Live(v) : Is(w, x, y) = Is(v, x, y)

(* A type id's constraints are checked against its members, so that it     *)
(* makes no type something that it was not.                                *)
ConstraintsChecked ==
  [][ ~Sound' \/ past'[Len(past')].kind # "type-id" \/ OldFacts(world, world') ]_vars
=============================================================================
