----------------------------- MODULE Derivation -----------------------------
(***************************************************************************)
(* What a type is: derive(), cx_derive() and cx_supertype() of type.c, and *)
(* what it decides: the distances that cx_fimp_score() of fimp.c adds up   *)
(* and cx_func_match() of func.c chooses by.                               *)
(*                                                                         *)
(* Types are known by their tags, which are given out in order; types maps *)
(* tags to types.  is is the row of the matrix that says what a type is.   *)
(***************************************************************************)
EXTENDS Integers, FiniteSetsExt

Bare(t) == [is |-> {t}, level |-> 0, parents |-> {}, children |-> {}]

(* Mutant: the parent does not know its child. *)
RelatedOneWay(types, c, p) == [types EXCEPT ![c].parents = @ \cup {p}]

(* cx_derive: parent and child know each other before derive() is called.  *)
Related(types, c, p) ==
  [types EXCEPT ![c].parents = @ \cup {p}, ![p].children = @ \cup {c}]

(* derive(child, parent): an ancestor that is there already is taken to    *)
(* have its own ancestors there.  A new one is put in; then its parents    *)
(* become ancestors of the child, and it one of the child's children.      *)
Knows(types, c, p) == p \in types[c].is
Learned(types, c, p) ==
  [types EXCEPT ![c].is = @ \cup {p}, ![c].level = Max({@, types[p].level + 1})]
Above(types, c, p) == types[p].parents \ {c, p}
Under(types, c, p) == types[c].children \ {c, p}

(* Mutant: the scan runs upwards. *)
SupertypeFirst(types, x, y) ==
  LET common == {c \in types[x].is \cap types[y].is : c <= x}
  IN IF common = {} THEN 0 ELSE Min(common)

(* The type that cx_supertype gives two types. *)
Supertype(types, x, y) ==
  LET common == {c \in types[x].is \cap types[y].is : c <= x}
  IN IF common = {} THEN 0 ELSE Max(common)

(* How far an implementation for type t is from a value of type v. *)
Distance(types, t, v) ==
  LET gap == types[v].level - types[t].level IN Max({gap, -gap})

(* cx_func_match: which of the implementations, by what cx_fimp_score()    *)
(* says of each, is called: the first of the best, 0 if none fits.         *)
Best(scores) ==
  LET fits == {i \in DOMAIN scores : scores[i] # -1}
      least == {i \in fits : \A j \in fits : scores[i] <= scores[j]}
  IN IF fits = {} THEN 0 ELSE Min(least)
=============================================================================
