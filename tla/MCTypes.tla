------------------------------ MODULE MCTypes ------------------------------
(***************************************************************************)
(* Programs for Types: the definitions of README.md and tests/, variations *)
(* of them, and uses of the types.                                         *)
(***************************************************************************)
EXTENDS Types

N(name) == <<name>>
Of(name, arg) == <<name, arg>>
Refs == "Arg0" :> <<0>> @@ "Arg1" :> <<1>> @@ "Arg1:0" :> <<1, 0>>

TypeId(id, bases, members) ==
  [kind |-> "type-id", id |-> id, bases |-> bases, members |-> members, fields |-> <<>>]
Type(id, members) ==
  [kind |-> "type", id |-> id, bases |-> <<>>, members |-> members, fields |-> <<>>]
Rec(id, bases, fields) ==
  [kind |-> "rec", id |-> id, bases |-> bases, members |-> <<>>, fields |-> fields]
Use(id) ==
  [kind |-> "use", id |-> id, bases |-> <<>>, members |-> <<>>, fields |-> <<>>]
F(id, type) == [id |-> id, type |-> type]

Point == Rec(N("Point"), <<>>, <<F("x", N("Int"))>>)
Pixel == Rec(N("Pixel"), <<N("Point")>>, <<F("c", N("Str"))>>)
Generic == Rec(<<"Generic", N("A"), Of("Seq", N("A"))>>, <<>>,
               <<F("foo", Of("Opt", N("Arg0"))), F("bar", N("Arg1:0"))>>)

Mixed ==
  { Point, Pixel, Generic,
    Rec(N("Box"), <<N("Shape")>>, <<F("w", N("Int"))>>),
    Type(N("IntStr"), <<N("Int"), N("Str")>>),
    Type(N("Some"), <<N("Cmp"), N("Int"), N("IntStr")>>),
    TypeId(N("Shape"), <<>>, <<>>),
    TypeId(N("Pos"), <<>>, <<Of("Stack", N("Int"))>>),
    TypeId(N("Shape"), <<>>, <<N("Str"), N("Point")>>),
    TypeId(Of("OptStack", N("A")), <<>>, <<Of("Stack", Of("Opt", N("Arg0")))>>),
    TypeId(Of("StackIter", N("A")), <<Of("Seq", N("Arg0"))>>,
           <<Of("Stack", N("Arg0")), Of("Iter", N("Arg0"))>>),
    Use(Of("OptStack", N("Int"))),
    Use(Of("StackIter", N("Int"))),
    Use(<<"Generic", N("Int"), N("Str")>>),
    Use(Of("Stack", N("Int"))),
    Use(Of("Stack", Of("Opt", N("Int")))),
    Use(Of("IntStr", N("Char"))) }

Constrained == { TypeId(N("Text"), <<N("Str")>>, <<N("Int"), N("Char")>>), Point }
=============================================================================
