-------------------------- MODULE DerivationProofs --------------------------
(***************************************************************************)
(* Proofs about Derivation, for any number of types, derived from one      *)
(* another in any order, in circles too.                                   *)
(***************************************************************************)
EXTENDS Derivation, Sequences, FiniteSetTheorems, WellFoundedInduction, TLAPS

(* A type that is not made yet is bare. *)
Tag == Nat \ {0}

(* The call of cx_derive() that goes on: due are the calls of derive()     *)
(* that its recursion has yet to make, or to return from where they began. *)
VARIABLES types, call, due
vars == <<types, call, due>>

Init ==
  /\ types = [t \in Tag |-> Bare(t)]
  /\ call = <<1, 1>>
  /\ due = {}

Derive(c, p) ==
  /\ due = {}
  /\ types' = Related(types, c, p)
  /\ call' = <<c, p>>
  /\ due' = {<<c, p>>}

(* One call of derive(). *)
Visit(c, p) ==
  /\ <<c, p>> \in due
  /\ IF Knows(types, c, p)
     THEN types' = types /\ due' = due \ {<<c, p>>}
     ELSE /\ types' = Learned(types, c, p)
          /\ due' = (due \ {<<c, p>>}) \cup ({c} \X Above(types, c, p)) \cup (Under(types, c, p) \X {p})
  /\ UNCHANGED call

Next == \E c, p \in Tag : Derive(c, p) \/ Visit(c, p)
Spec == Init /\ [][Next]_vars

(* The ancestors that the derivations declare: what is in every set that   *)
(* has the type and the parents of its members.                            *)
UpClosed(ts, S) == \A s \in S : ts[s].parents \subseteq S
Ancestor(ts, c, p) == \A S \in SUBSET Tag : c \in S /\ UpClosed(ts, S) => p \in S

-----------------------------------------------------------------------------
(* The inductive invariant. *)

Type ==
  [is : SUBSET Tag, level : Nat, parents : SUBSET Tag, children : SUBSET Tag]

TypeOK ==
  /\ types \in [Tag -> Type]
  /\ call \in Tag \X Tag
  /\ due \in SUBSET (Tag \X Tag)

(* Parents and children know each other, and a type is itself. *)
Mutual == \A c, p \in Tag : p \in types[c].parents <=> c \in types[p].children
Reflexive == \A t \in Tag : t \in types[t].is

(* Nothing but ancestors is put in. *)
Declared == \A c, p \in Tag : p \in types[c].is \/ <<c, p>> \in due => Ancestor(types, c, p)

(* Ancestors of ancestors, and ancestors of parents, are in the matrix or  *)
(* will be.  Over the new link that is not so until the call returns.      *)
Upwards ==
  \A x, y, z \in Tag :
    y \in types[x].is /\ z \in types[y].parents =>
      z \in types[x].is \/ <<x, z>> \in due \/ <<y, z>> = call
Downwards ==
  \A x, y, t \in Tag :
    y \in types[x].is /\ t \in types[x].children =>
      y \in types[t].is \/ <<t, y>> \in due \/ <<t, x>> = call
NewLink == call[2] \in types[call[1]].is \/ call \in due

Inv == TypeOK /\ Mutual /\ Reflexive /\ Declared /\ Upwards /\ Downwards /\ NewLink

(* What IsDeclared says of the types of a program. *)
Complete == due = {} => \A t \in Tag : types[t].is = {p \in Tag : Ancestor(types, t, p)}

-----------------------------------------------------------------------------
(* Programs that put no type above one that exists: a type is derived when *)
(* it is made, from types made before, and nothing is derived from it yet. *)
DownNext ==
  \E c, p \in Tag :
    \/ p < c /\ types[c].children = {} /\ Derive(c, p)
    \/ Visit(c, p)
DownSpec == Init /\ [][DownNext]_vars

(* Parents come first, and while a type is derived it has no children. *)
Downward ==
  /\ \A t, s \in Tag : s \in types[t].parents => s < t
  /\ \A x, y \in Tag : <<x, y>> \in due => x = call[1] /\ types[x].children = {}

(* What a type is comes before it, and has a lower level. *)
Ordered == \A x, y \in Tag : y \in types[x].is => y <= x
LevelsApart == \A x, y \in Tag : y \in types[x].is /\ y # x => types[y].level < types[x].level

DownInv == Inv /\ Downward /\ LevelsApart

(* What cx_fimp_score() says of implementations for types without          *)
(* arguments, where cx_is() looks for the type itself.                     *)
Scores(imps, x) ==
  [k \in DOMAIN imps |-> IF imps[k] \in types[x].is THEN Distance(types, imps[k], x) ELSE -1]

(* What SpecificFirst says, for any number of implementations: one that    *)
(* fits is called, and none that fits is for a more specific type.         *)
Specific ==
  \A imps \in Seq(Tag), x \in Tag :
    LET fits == {k \in DOMAIN imps : imps[k] \in types[x].is}
        called == Best(Scores(imps, x))
    IN IF fits = {} THEN called = 0
       ELSE /\ called \in fits
            /\ \A k \in fits : imps[called] \in types[imps[k]].is => imps[k] = imps[called]

(* What LeastSupertype says: the supertype is shared, and what else is     *)
(* shared is not below it.                                                 *)
Lowest ==
  \A x, y \in Tag :
    LET shared == types[x].is \cap types[y].is
        s == Supertype(types, x, y)
    IN IF shared = {} THEN s = 0
       ELSE s \in shared /\ \A c \in shared : s \in types[c].is => c = s

-----------------------------------------------------------------------------
(* The larger of two levels. *)
LEMMA Larger ==
  ASSUME NEW a \in Nat, NEW b \in Nat
  PROVE  Max({a, b}) \in Nat /\ Max({a, b}) >= a /\ Max({a, b}) >= b /\ Max({a, b}) \in {a, b}
<1>1. \E x \in {a, b} : \A y \in {a, b} : x >= y
  <2>1. CASE a >= b
    BY <2>1
  <2>2. CASE b >= a
    BY <2>2
  <2>3. QED
    BY <2>1, <2>2
<1>2. Max({a, b}) \in {a, b} /\ \A y \in {a, b} : Max({a, b}) >= y
  BY <1>1 DEF Max
<1>3. QED
  BY <1>2

(* What a new link changes, and what a new ancestor does. *)
Links(ts, us, c, p) ==
  /\ us \in [Tag -> Type]
  /\ \A t \in Tag :
       /\ us[t].is = ts[t].is /\ us[t].level = ts[t].level
       /\ us[t].parents = IF t = c THEN ts[t].parents \cup {p} ELSE ts[t].parents
       /\ us[t].children = IF t = p THEN ts[t].children \cup {c} ELSE ts[t].children
Learns(ts, us, c, p) ==
  /\ us \in [Tag -> Type]
  /\ \A t \in Tag :
       /\ us[t].parents = ts[t].parents /\ us[t].children = ts[t].children
       /\ us[t].is = IF t = c THEN ts[t].is \cup {p} ELSE ts[t].is
       /\ t # c => us[t].level = ts[t].level
  /\ us[c].level = Max({ts[c].level, ts[p].level + 1})

(* The link is put in on both sides. *)
LEMMA RelatedAt ==
  ASSUME NEW ts \in [Tag -> Type], NEW c \in Tag, NEW p \in Tag
  PROVE  Links(ts, Related(ts, c, p), c, p)
<1> DEFINE vs == [ts EXCEPT ![c].parents = @ \cup {p}]
           us == [vs EXCEPT ![p].children = @ \cup {c}]
<1>1. /\ vs \in [Tag -> Type]
      /\ \A t \in Tag :
           /\ vs[t].is = ts[t].is /\ vs[t].level = ts[t].level /\ vs[t].children = ts[t].children
           /\ vs[t].parents = IF t = c THEN ts[t].parents \cup {p} ELSE ts[t].parents
  <2> DEFINE r == [ts[c] EXCEPT !.parents = ts[c].parents \cup {p}]
  <2>1. /\ r \in Type /\ r.is = ts[c].is /\ r.level = ts[c].level
        /\ r.children = ts[c].children /\ r.parents = ts[c].parents \cup {p}
    BY DEF Type
  <2>2. vs = [ts EXCEPT ![c] = r]
    OBVIOUS
  <2> HIDE DEF r, vs
  <2>3. vs \in [Tag -> Type] /\ \A t \in Tag : vs[t] = IF t = c THEN r ELSE ts[t]
    BY <2>1, <2>2
  <2>4. QED
    BY <2>1, <2>3
<1>2. us = Related(ts, c, p)
  BY DEF Related
<1> HIDE DEF vs
<1>3. /\ us \in [Tag -> Type]
      /\ \A t \in Tag :
           /\ us[t].is = vs[t].is /\ us[t].level = vs[t].level /\ us[t].parents = vs[t].parents
           /\ us[t].children = IF t = p THEN vs[t].children \cup {c} ELSE vs[t].children
  <2> DEFINE r == [vs[p] EXCEPT !.children = vs[p].children \cup {c}]
  <2>1. /\ r \in Type /\ r.is = vs[p].is /\ r.level = vs[p].level
        /\ r.parents = vs[p].parents /\ r.children = vs[p].children \cup {c}
    BY <1>1 DEF Type
  <2>2. us = [vs EXCEPT ![p] = r]
    OBVIOUS
  <2> HIDE DEF r, us
  <2>3. us \in [Tag -> Type] /\ \A t \in Tag : us[t] = IF t = p THEN r ELSE vs[t]
    BY <1>1, <2>1, <2>2
  <2>4. QED
    BY <2>1, <2>3
<1> HIDE DEF us
<1>4. Links(ts, us, c, p)
  BY <1>1, <1>3 DEF Links
<1>5. QED
  BY <1>2, <1>4

(* The ancestor is put in and the level raised. *)
LEMMA LearnedAt ==
  ASSUME NEW ts \in [Tag -> Type], NEW c \in Tag, NEW p \in Tag
  PROVE  Learns(ts, Learned(ts, c, p), c, p)
<1> DEFINE l == Max({ts[c].level, ts[p].level + 1})
           us == [ts EXCEPT ![c].is = @ \cup {p}, ![c].level = l]
<1>1. l \in Nat /\ l >= ts[c].level /\ l >= ts[p].level + 1
  <2>1. ts[c].level \in Nat /\ ts[p].level + 1 \in Nat
    BY DEF Type
  <2>2. QED
    BY <2>1, Larger
<1>2. us = Learned(ts, c, p)
  BY DEF Learned
<1> HIDE DEF l
<1>3. /\ us \in [Tag -> Type]
      /\ \A t \in Tag :
           /\ us[t].parents = ts[t].parents /\ us[t].children = ts[t].children
           /\ us[t].is = IF t = c THEN ts[t].is \cup {p} ELSE ts[t].is
           /\ us[t].level = IF t = c THEN l ELSE ts[t].level
  <2> DEFINE r == [ts[c] EXCEPT !.is = ts[c].is \cup {p}, !.level = l]
  <2>1. /\ r \in Type /\ r.is = ts[c].is \cup {p} /\ r.level = l
        /\ r.parents = ts[c].parents /\ r.children = ts[c].children
    <3>1. PICK o \in Type : o = ts[c]
      OBVIOUS
    <3>2. o.is \cup {p} \in SUBSET Tag /\ l \in Nat
      BY <1>1 DEF Type
    <3>3. r = [o EXCEPT !.is = o.is \cup {p}, !.level = l]
      BY <3>1
    <3> HIDE DEF r
    <3>4. r \in Type /\ r.is = o.is \cup {p} /\ r.level = l /\ r.parents = o.parents /\ r.children = o.children
      BY <3>2, <3>3 DEF Type
    <3>5. QED
      BY <3>1, <3>4
  <2>2. us = [ts EXCEPT ![c] = r]
    <3>1. ts[c] \in Type
      OBVIOUS
    <3>2. r = [[ts[c] EXCEPT !.is = ts[c].is \cup {p}] EXCEPT !.level = l]
      BY <3>1 DEF Type
    <3>3. QED
      BY <3>1, <3>2 DEF Type
  <2> HIDE DEF r, us
  <2>3. us \in [Tag -> Type] /\ \A t \in Tag : us[t] = IF t = c THEN r ELSE ts[t]
    BY <2>1, <2>2
  <2>4. QED
    BY <2>1, <2>3
<1> HIDE DEF us
<1>4. us[c].level = l
  BY <1>3
<1> USE DEF l
<1>5. Learns(ts, us, c, p)
  BY <1>3, <1>4 DEF Learns
<1>6. QED
  BY <1>2, <1>5

-----------------------------------------------------------------------------
(* A type is its own ancestor, its ancestors' parents are its ancestors,   *)
(* and so are those of its parents; more links make more ancestors.        *)
LEMMA AncestorSelf ==
  ASSUME NEW ts, NEW c
  PROVE  Ancestor(ts, c, c)
BY DEF Ancestor

(* Parents of ancestors. *)
LEMMA AncestorParent ==
  ASSUME NEW ts, NEW c, NEW p, Ancestor(ts, c, p), NEW z \in ts[p].parents
  PROVE  Ancestor(ts, c, z)
BY DEF Ancestor, UpClosed

(* Ancestors of parents. *)
LEMMA AncestorBelow ==
  ASSUME NEW ts, NEW t, NEW c \in ts[t].parents, NEW p, Ancestor(ts, c, p)
  PROVE  Ancestor(ts, t, p)
BY DEF Ancestor, UpClosed

(* Links that are added. *)
LEMMA AncestorGrows ==
  ASSUME NEW ts, NEW us, \A t \in Tag : ts[t].parents \subseteq us[t].parents,
         NEW c, NEW p, Ancestor(ts, c, p)
  PROVE  Ancestor(us, c, p)
BY DEF Ancestor, UpClosed

(* When the calls have returned the matrix is closed over the new link     *)
(* too, and so is what the links declare.                                  *)
LEMMA Closed ==
  ASSUME Inv, due = {}
  PROVE  /\ \A x, y, z \in Tag : y \in types[x].is /\ z \in types[y].parents => z \in types[x].is
         /\ \A x, y, t \in Tag : y \in types[x].is /\ t \in types[x].children => y \in types[t].is
         /\ \A t \in Tag : types[t].is = {p \in Tag : Ancestor(types, t, p)}
<1> USE DEF Inv
<1>1. PICK c \in Tag, p \in Tag : call = <<c, p>>
  BY DEF TypeOK
<1>2. p \in types[c].is
  BY <1>1 DEF NewLink
<1>3. \A t \in Tag : types[t].is \subseteq Tag /\ types[t].parents \subseteq Tag /\ types[t].children \subseteq Tag
  BY DEF TypeOK, Type
<1>4. \A y \in types[p].is : y \in types[c].is
  <2>1. UpClosed(types, types[c].is)
    BY <1>1, <1>2, <1>3 DEF UpClosed, Upwards
  <2>2. \A y \in types[p].is : Ancestor(types, p, y)
    BY <1>3 DEF Declared
  <2>3. QED
    BY <1>2, <1>3, <2>1, <2>2 DEF Ancestor
<1>5. \A x, y, t \in Tag : y \in types[x].is /\ t \in types[x].children => y \in types[t].is
  BY <1>1, <1>4 DEF Downwards
<1>6. \A t \in Tag : types[t].is = {q \in Tag : Ancestor(types, t, q)}
  <2> SUFFICES ASSUME NEW t \in Tag, NEW q \in Tag, Ancestor(types, t, q) PROVE q \in types[t].is
    BY <1>3 DEF Declared
  <2> DEFINE S == {s \in Tag : q \notin types[s].is}
  <2>1. UpClosed(types, S)
    <3> SUFFICES ASSUME NEW s \in S, NEW z \in types[s].parents PROVE z \in S
      BY DEF UpClosed
    <3>1. z \in Tag /\ s \in types[z].children
      BY <1>3 DEF Mutual
    <3>2. QED
      BY <1>5, <3>1
  <2>2. q \notin S
    BY DEF Reflexive
  <2>3. t \notin S
    BY <2>1, <2>2 DEF Ancestor
  <2>4. QED
    BY <2>3
<1>7. \A x, y, z \in Tag : y \in types[x].is /\ z \in types[y].parents => z \in types[x].is
  BY <1>6, AncestorParent
<1>8. QED
  BY <1>5, <1>6, <1>7

-----------------------------------------------------------------------------
(* Before anything is derived each type is just itself. *)
LEMMA InitInv == Init => Inv
<1> SUFFICES ASSUME Init PROVE Inv
  OBVIOUS
<1>1. \A t \in Tag : Bare(t) \in Type /\ Bare(t).is = {t} /\ Bare(t).parents = {} /\ Bare(t).children = {}
  BY DEF Bare, Type
<1>2. types \in [Tag -> Type]
  BY <1>1 DEF Init
<1>3. \A t \in Tag : types[t].is = {t} /\ types[t].parents = {} /\ types[t].children = {}
  BY <1>1 DEF Init
<1>4. 1 \in Tag /\ call = <<1, 1>> /\ due = {}
  BY DEF Init, Tag
<1>5. TypeOK
  BY <1>2, <1>4 DEF TypeOK
<1>6. Mutual /\ Reflexive /\ Upwards /\ Downwards
  BY <1>3 DEF Mutual, Reflexive, Upwards, Downwards
<1>7. Declared
  BY <1>3, <1>4, AncestorSelf DEF Declared
<1>8. NewLink
  BY <1>3, <1>4 DEF NewLink
<1>9. QED
  BY <1>5, <1>6, <1>7, <1>8 DEF Inv

(* What types is made of. *)
LEMMA Ranges ==
  ASSUME TypeOK
  PROVE  /\ types \in [Tag -> Type] /\ due \subseteq Tag \X Tag
         /\ \A t \in Tag : types[t].is \subseteq Tag /\ types[t].parents \subseteq Tag
                            /\ types[t].children \subseteq Tag /\ types[t].level \in Nat
BY DEF TypeOK, Type

(* A new link leaves only what goes over it to be done. *)
LEMMA DeriveKeeps ==
  ASSUME Inv, NEW c \in Tag, NEW p \in Tag, Derive(c, p)
  PROVE  Inv'
<1>1. /\ due = {} /\ call' = <<c, p>> /\ due' = {<<c, p>>} /\ types' = Related(types, c, p)
  BY DEF Derive
<1>2. TypeOK /\ Mutual /\ Reflexive /\ Declared
  BY DEF Inv
<1>3. /\ types' \in [Tag -> Type]
      /\ \A t \in Tag :
           /\ types'[t].is = types[t].is
           /\ types'[t].parents = IF t = c THEN types[t].parents \cup {p} ELSE types[t].parents
           /\ types'[t].children = IF t = p THEN types[t].children \cup {c} ELSE types[t].children
  <2>1. types \in [Tag -> Type]
    BY <1>2, Ranges
  <2>2. Links(types, types', c, p)
    BY <1>1, <2>1, RelatedAt
  <2>3. QED
    BY <2>2 DEF Links
<1>4. TypeOK'
  BY <1>1, <1>3 DEF TypeOK
<1>5. Mutual'
  <2> SUFFICES ASSUME NEW t \in Tag, NEW q \in Tag
               PROVE  q \in types'[t].parents <=> t \in types'[q].children
    BY DEF Mutual
  <2>1. q \in types[t].parents <=> t \in types[q].children
    BY <1>2 DEF Mutual
  <2>2. q \in types'[t].parents <=> q \in types[t].parents \/ (t = c /\ q = p)
    BY <1>3
  <2>3. t \in types'[q].children <=> t \in types[q].children \/ (t = c /\ q = p)
    BY <1>3
  <2>4. QED
    BY <2>1, <2>2, <2>3
<1>6. Reflexive'
  BY <1>2, <1>3 DEF Reflexive
<1>7. Declared'
  <2>1. \A t \in Tag : types[t].parents \subseteq types'[t].parents
    BY <1>3
  <2>2. p \in types'[c].parents
    BY <1>3
  <2>3. Ancestor(types', c, p)
    BY <2>2, AncestorSelf, AncestorBelow
  <2>4. ASSUME NEW x \in Tag, NEW y \in Tag, y \in types'[x].is PROVE Ancestor(types', x, y)
    <3>1. Ancestor(types, x, y)
      BY <1>2, <1>3, <2>4 DEF Declared
    <3>2. QED
      BY <2>1, <3>1, AncestorGrows
  <2>5. QED
    BY <1>1, <2>3, <2>4 DEF Declared
<1>8. Upwards'
  <2> SUFFICES ASSUME NEW x \in Tag, NEW y \in Tag, NEW z \in Tag,
                      y \in types'[x].is, z \in types'[y].parents, <<y, z>> # call'
               PROVE  z \in types'[x].is
    BY DEF Upwards
  <2>1. y \in types[x].is /\ z \in types[y].parents
    BY <1>1, <1>3
  <2>2. QED
    BY <1>1, <1>3, <2>1, Closed
<1>9. Downwards'
  <2> SUFFICES ASSUME NEW x \in Tag, NEW y \in Tag, NEW t \in Tag,
                      y \in types'[x].is, t \in types'[x].children, <<t, x>> # call'
               PROVE  y \in types'[t].is
    BY DEF Downwards
  <2>1. y \in types[x].is /\ t \in types[x].children
    BY <1>1, <1>3
  <2>2. QED
    BY <1>1, <1>3, <2>1, Closed
<1>10. NewLink'
  BY <1>1 DEF NewLink
<1>11. QED
  BY <1>4, <1>5, <1>6, <1>7, <1>8, <1>9, <1>10 DEF Inv

(* A call of derive() leaves no more to be done than the calls it makes. *)
LEMMA VisitKeeps ==
  ASSUME Inv, NEW c \in Tag, NEW p \in Tag, Visit(c, p)
  PROVE  Inv'
<1>1. <<c, p>> \in due /\ call' = call
  BY DEF Visit
<1>2. TypeOK /\ Mutual /\ Reflexive /\ Declared /\ Upwards /\ Downwards /\ NewLink
  BY DEF Inv
<1>3. call \in Tag \X Tag
  BY <1>2 DEF TypeOK
<1>4. CASE Knows(types, c, p)
  <2>1. types' = types /\ due' = due \ {<<c, p>>} /\ p \in types[c].is
    BY <1>4 DEF Visit, Knows
  <2>2. TypeOK'
    BY <1>1, <1>2, <1>3, <2>1 DEF TypeOK
  <2>3. Mutual' /\ Reflexive'
    BY <1>2, <2>1 DEF Mutual, Reflexive
  <2>4. Declared'
    BY <1>2, <2>1 DEF Declared
  <2>5. Upwards'
    BY <1>1, <1>2, <2>1 DEF Upwards
  <2>6. Downwards'
    BY <1>1, <1>2, <2>1 DEF Downwards
  <2>7. NewLink'
    <3>1. call = <<call[1], call[2]>>
      BY <1>3
    <3>2. CASE call = <<c, p>>
      BY <1>1, <2>1, <3>2 DEF NewLink
    <3>3. CASE call # <<c, p>>
      BY <1>1, <1>2, <2>1, <3>3 DEF NewLink
    <3>4. QED
      BY <3>2, <3>3
  <2>8. QED
    BY <2>2, <2>3, <2>4, <2>5, <2>6, <2>7 DEF Inv
<1>5. CASE ~Knows(types, c, p)
  <2>1. /\ types' = Learned(types, c, p)
        /\ due' = (due \ {<<c, p>>}) \cup ({c} \X Above(types, c, p)) \cup (Under(types, c, p) \X {p})
    BY <1>5 DEF Visit
  <2>2. /\ types' \in [Tag -> Type]
        /\ \A t \in Tag :
             /\ types'[t].parents = types[t].parents /\ types'[t].children = types[t].children
             /\ types'[t].is = IF t = c THEN types[t].is \cup {p} ELSE types[t].is
    <3>1. types \in [Tag -> Type]
      BY <1>2, Ranges
    <3>2. Learns(types, types', c, p)
      BY <2>1, <3>1, LearnedAt
    <3>3. QED
      BY <3>2 DEF Learns
  <2>3. /\ \A z \in types[p].parents : z \in {c, p} \/ <<c, z>> \in due'
        /\ \A t \in types[c].children : t \in {c, p} \/ <<t, p>> \in due'
        /\ \A x, y \in Tag : <<x, y>> \in due' =>
             \/ <<x, y>> \in due
             \/ x = c /\ y \in types[p].parents
             \/ y = p /\ x \in types[c].children
        /\ \A x, y \in Tag : <<x, y>> \in due => <<x, y>> \in due' \/ (x = c /\ y = p)
    <3>1. \A x, y : <<x, y>> \in {c} \X Above(types, c, p) <=> x = c /\ y \in types[p].parents \ {c, p}
      BY DEF Above
    <3>2. \A x, y : <<x, y>> \in Under(types, c, p) \X {p} <=> y = p /\ x \in types[c].children \ {c, p}
      BY DEF Under
    <3>3. \A x, y : <<x, y>> \in due' <=>
            \/ <<x, y>> \in due /\ ~(x = c /\ y = p)
            \/ x = c /\ y \in types[p].parents \ {c, p}
            \/ y = p /\ x \in types[c].children \ {c, p}
      BY <2>1, <3>1, <3>2
    <3>4. \A z \in types[p].parents : z \in {c, p} \/ <<c, z>> \in due'
      BY <3>3
    <3>5. \A t \in types[c].children : t \in {c, p} \/ <<t, p>> \in due'
      BY <3>3
    <3>6. \A x, y \in Tag : <<x, y>> \in due => <<x, y>> \in due' \/ (x = c /\ y = p)
      BY <3>3
    <3>7. \A x, y \in Tag : <<x, y>> \in due' =>
             \/ <<x, y>> \in due
             \/ x = c /\ y \in types[p].parents
             \/ y = p /\ x \in types[c].children
      BY <3>3
    <3>8. QED
      BY <3>4, <3>5, <3>6, <3>7
  <2>4. TypeOK'
    <3>1. Above(types, c, p) \subseteq Tag /\ Under(types, c, p) \subseteq Tag
      BY <1>2, Ranges DEF Above, Under
    <3>2. due' \in SUBSET (Tag \X Tag)
      BY <1>2, <2>1, <3>1, Ranges
    <3>3. QED
      BY <1>1, <1>3, <2>2, <3>2 DEF TypeOK
  <2>5. Mutual' /\ Reflexive'
    BY <1>2, <2>2 DEF Mutual, Reflexive
  <2>6. Declared'
    <3>1. Ancestor(types, c, p)
      BY <1>1, <1>2 DEF Declared
    <3>2. ASSUME NEW x \in Tag, NEW y \in Tag, y \in types'[x].is \/ <<x, y>> \in due'
          PROVE  Ancestor(types, x, y)
      <4>1. CASE y \in types[x].is \/ <<x, y>> \in due
        BY <1>2, <4>1 DEF Declared
      <4>2. CASE x = c /\ y = p
        BY <3>1, <4>2
      <4>3. CASE x = c /\ y \in types[p].parents
        BY <3>1, <4>3, AncestorParent
      <4>4. CASE y = p /\ x \in types[c].children
        <5>1. c \in types[x].parents
          BY <1>2, <4>4 DEF Mutual
        <5>2. QED
          BY <3>1, <4>4, <5>1, AncestorBelow
      <4>5. \/ y \in types[x].is \/ <<x, y>> \in due
            \/ x = c /\ y = p
            \/ x = c /\ y \in types[p].parents
            \/ y = p /\ x \in types[c].children
        <5>1. CASE y \in types'[x].is
          BY <2>2, <5>1
        <5>2. CASE <<x, y>> \in due'
          BY <2>3, <5>2
        <5>3. QED
          BY <3>2, <5>1, <5>2
      <4>6. QED
        BY <4>1, <4>2, <4>3, <4>4, <4>5
    <3>3. \A t \in Tag : types[t].parents \subseteq types'[t].parents
      BY <2>2
    <3>4. QED
      BY <3>2, <3>3, AncestorGrows DEF Declared
  <2>7. Upwards'
    <3> SUFFICES ASSUME NEW x \in Tag, NEW y \in Tag, NEW z \in Tag,
                        y \in types'[x].is, z \in types'[y].parents
                 PROVE  z \in types'[x].is \/ <<x, z>> \in due' \/ <<y, z>> = call'
      BY DEF Upwards
    <3>1. z \in types[y].parents
      BY <2>2
    <3>2. CASE y \in types[x].is
      <4>1. z \in types[x].is \/ <<x, z>> \in due \/ <<y, z>> = call
        BY <1>2, <3>1, <3>2 DEF Upwards
      <4>2. z \in types[x].is => z \in types'[x].is
        BY <2>2
      <4>3. <<x, z>> \in due => <<x, z>> \in due' \/ z \in types'[x].is
        BY <2>2, <2>3
      <4>4. QED
        BY <1>1, <4>1, <4>2, <4>3
    <3>3. CASE x = c /\ y = p
      BY <1>2, <2>2, <2>3, <3>1, <3>3 DEF Reflexive
    <3>4. QED
      BY <2>2, <3>2, <3>3
  <2>8. Downwards'
    <3> SUFFICES ASSUME NEW x \in Tag, NEW y \in Tag, NEW t \in Tag,
                        y \in types'[x].is, t \in types'[x].children
                 PROVE  y \in types'[t].is \/ <<t, y>> \in due' \/ <<t, x>> = call'
      BY DEF Downwards
    <3>1. t \in types[x].children
      BY <2>2
    <3>2. CASE y \in types[x].is
      <4>1. y \in types[t].is \/ <<t, y>> \in due \/ <<t, x>> = call
        BY <1>2, <3>1, <3>2 DEF Downwards
      <4>2. y \in types[t].is => y \in types'[t].is
        BY <2>2
      <4>3. <<t, y>> \in due => <<t, y>> \in due' \/ y \in types'[t].is
        BY <2>2, <2>3
      <4>4. QED
        BY <1>1, <4>1, <4>2, <4>3
    <3>3. CASE x = c /\ y = p
      BY <1>2, <2>2, <2>3, <3>1, <3>3 DEF Reflexive
    <3>4. QED
      BY <2>2, <3>2, <3>3
  <2>9. NewLink'
    <3>1. PICK a \in Tag, b \in Tag : call = <<a, b>>
      BY <1>3
    <3>2. QED
      BY <1>1, <1>2, <2>2, <2>3, <3>1 DEF NewLink
  <2>10. QED
    BY <2>4, <2>5, <2>6, <2>7, <2>8, <2>9 DEF Inv
<1>6. QED
  BY <1>4, <1>5

(* Every step keeps the invariant. *)
LEMMA StepKeeps == Inv /\ [Next]_vars => Inv'
<1> SUFFICES ASSUME Inv, [Next]_vars PROVE Inv'
  OBVIOUS
<1>1. CASE \E c, p \in Tag : Derive(c, p)
  BY <1>1, DeriveKeeps
<1>2. CASE \E c, p \in Tag : Visit(c, p)
  BY <1>2, VisitKeeps
<1>3. CASE UNCHANGED vars
  BY <1>3 DEF vars, Inv, TypeOK, Mutual, Reflexive, Declared, Upwards, Downwards, NewLink
<1>4. QED
  BY <1>1, <1>2, <1>3 DEF Next

(* Whenever cx_derive() has returned, a type is exactly what its           *)
(* derivations declare: IsDeclared, for any number of types, derived in    *)
(* any order, with circles, however derive() takes its calls in turn.      *)
THEOREM DeclaredAncestors == Spec => []Complete
<1>1. Inv => Complete
  BY Closed DEF Complete
<1>2. QED
  BY InitInv, StepKeeps, <1>1, PTL DEF Spec

-----------------------------------------------------------------------------
(* Numbers have a least one, and a largest one if there is a bound.        *)
LEMMA LeastOne ==
  ASSUME NEW S \in SUBSET Nat, S # {}
  PROVE  \E x \in S : \A y \in S : x <= y
<1>1. PICK x \in S : \A y \in S : ~(<<y, x>> \in OpToRel(<, Nat))
  BY WFMin, NatLessThanWellFounded
<1>2. \A y \in S : ~(y < x)
  BY <1>1 DEF OpToRel
<1>3. QED
  BY <1>2

(* The largest of a set. *)
LEMMA LargestOne ==
  ASSUME NEW n \in Nat, NEW S \in SUBSET Nat, S # {}, \A x \in S : x <= n
  PROVE  \E x \in S : \A y \in S : y <= x
<1> DEFINE R == {n - x : x \in S}
<1>1. R \in SUBSET Nat /\ R # {}
  <2>1. ASSUME NEW x \in S PROVE n - x \in Nat
    <3>1. x \in Nat /\ x <= n
      OBVIOUS
    <3>2. QED
      BY <3>1
  <2>2. \A r \in R : r \in Nat
    BY <2>1
  <2>3. PICK x \in S : TRUE
    OBVIOUS
  <2>4. n - x \in R
    OBVIOUS
  <2>5. QED
    BY <2>2, <2>4
<1>2. PICK r \in R : \A q \in R : r <= q
  BY <1>1, LeastOne
<1>3. PICK x \in S : r = n - x
  OBVIOUS
<1>4. ASSUME NEW y \in S PROVE y <= x
  <2>1. n - y \in R
    OBVIOUS
  <2>2. n - x <= n - y
    BY <1>2, <1>3, <2>1
  <2>3. x \in Nat /\ y \in Nat
    OBVIOUS
  <2>4. QED
    BY <2>2, <2>3
<1>5. QED
  BY <1>4

(* What Min and Max choose. *)
LEMMA MinOf ==
  ASSUME NEW S \in SUBSET Nat, S # {}
  PROVE  Min(S) \in S /\ \A y \in S : Min(S) <= y
<1>1. \E x \in S : \A y \in S : x <= y
  BY LeastOne
<1>2. QED
  BY <1>1 DEF Min

(* The same for Max. *)
LEMMA MaxOf ==
  ASSUME NEW n \in Nat, NEW S \in SUBSET Nat, S # {}, \A x \in S : x <= n
  PROVE  Max(S) \in S /\ \A y \in S : y <= Max(S)
<1>1. \E x \in S : \A y \in S : x >= y
  <2>1. PICK x \in S : \A y \in S : y <= x
    BY LargestOne
  <2>2. x \in Nat /\ \A y \in S : y \in Nat
    OBVIOUS
  <2>3. QED
    BY <2>1, <2>2
<1>2. Max(S) \in S /\ \A y \in S : Max(S) >= y
  BY <1>1 DEF Max
<1>3. \A y \in S : y \in Nat
  OBVIOUS
<1>4. QED
  BY <1>2, <1>3

(* The implementation that is called fits, and none that fits is better. *)
LEMMA BestOf ==
  ASSUME NEW scores, DOMAIN scores \subseteq Nat,
         \A k \in DOMAIN scores : scores[k] \in Nat \cup {-1}
  PROVE  LET fits == {k \in DOMAIN scores : scores[k] # -1}
         IN IF fits = {} THEN Best(scores) = 0
            ELSE Best(scores) \in fits /\ \A k \in fits : scores[Best(scores)] <= scores[k]
<1> DEFINE fits == {k \in DOMAIN scores : scores[k] # -1}
           least == {k \in fits : \A j \in fits : scores[k] <= scores[j]}
           points == {scores[k] : k \in fits}
<1>1. Best(scores) = IF fits = {} THEN 0 ELSE Min(least)
  BY DEF Best
<1>2. ASSUME fits # {} PROVE Min(least) \in least
  <2>1. points \in SUBSET Nat /\ points # {}
    BY <1>2
  <2>2. PICK q \in points : \A r \in points : q <= r
    BY <2>1, LeastOne
  <2>3. PICK k \in fits : q = scores[k]
    OBVIOUS
  <2>4. k \in least
    BY <2>2, <2>3
  <2>5. least \in SUBSET Nat
    OBVIOUS
  <2>6. QED
    BY <2>4, <2>5, MinOf
<1> HIDE DEF points
<1>3. QED
  BY <1>1, <1>2

-----------------------------------------------------------------------------
(* What a type is was made before it. *)
LEMMA Before ==
  ASSUME Inv, Downward
  PROVE  Ordered
<1> SUFFICES ASSUME NEW x \in Tag, NEW y \in Tag, y \in types[x].is
             PROVE  y <= x
  BY DEF Ordered
<1> DEFINE S == {s \in Tag : s <= x}
<1>1. \A s \in Tag : types[s].parents \subseteq Tag
  BY Ranges DEF Inv
<1>2. UpClosed(types, S)
  <2> SUFFICES ASSUME NEW s \in S, NEW z \in types[s].parents PROVE z \in S
    BY DEF UpClosed
  <2>1. z \in Tag /\ z < s
    BY <1>1 DEF Downward
  <2>2. QED
    BY <2>1 DEF Tag
<1>3. Ancestor(types, x, y)
  BY DEF Inv, Declared
<1>4. x \in S
  BY DEF Tag
<1>5. y \in S
  BY <1>2, <1>3, <1>4 DEF Ancestor
<1>6. QED
  BY <1>5

(* A type that has no children is nothing that another type is. *)
LEMMA Childless ==
  ASSUME Inv, NEW c \in Tag, types[c].children = {}, NEW x \in Tag, c \in types[x].is
  PROVE  x = c
<1> SUFFICES ASSUME x # c PROVE FALSE
  OBVIOUS
<1> DEFINE S == Tag \ {c}
<1>1. \A s \in Tag : types[s].parents \subseteq Tag
  BY Ranges DEF Inv
<1>2. UpClosed(types, S)
  <2> SUFFICES ASSUME NEW s \in S, NEW z \in types[s].parents PROVE z # c
    BY <1>1 DEF UpClosed
  <2>1. z = c => s \in types[c].children
    BY DEF Inv, Mutual
  <2>2. QED
    BY <2>1
<1>3. Ancestor(types, x, c)
  BY DEF Inv, Declared
<1>4. QED
  BY <1>2, <1>3 DEF Ancestor

(* A new link of a type that has no children changes no level. *)
LEMMA DownDeriveKeeps ==
  ASSUME DownInv, NEW c \in Tag, NEW p \in Tag, p < c, types[c].children = {}, Derive(c, p)
  PROVE  DownInv'
<1>1. Inv /\ Downward /\ LevelsApart
  BY DEF DownInv
<1>2. Inv'
  BY <1>1, DeriveKeeps
<1>3. call' = <<c, p>> /\ due' = {<<c, p>>} /\ types' = Related(types, c, p) /\ types \in [Tag -> Type]
  BY <1>1, Ranges DEF Derive, Inv
<1>4. Links(types, types', c, p)
  BY <1>3, RelatedAt
<1>5. c # p
  BY DEF Tag
<1>6. Downward'
  <2>1. ASSUME NEW t \in Tag, NEW s \in Tag, s \in types'[t].parents PROVE s < t
    <3>1. s \in types[t].parents \/ (t = c /\ s = p)
      BY <1>4, <2>1 DEF Links
    <3>2. QED
      BY <1>1, <3>1 DEF Downward
  <2>2. types'[c].children = {}
    BY <1>4, <1>5 DEF Links
  <2>3. \A x, y \in Tag : <<x, y>> \in due' => x = call'[1] /\ types'[x].children = {}
    BY <1>3, <2>2
  <2>4. QED
    BY <2>1, <2>3 DEF Downward
<1>7. LevelsApart'
  <2>1. \A t \in Tag : types'[t].is = types[t].is /\ types'[t].level = types[t].level
    BY <1>4 DEF Links
  <2>2. QED
    BY <1>1, <2>1 DEF LevelsApart
<1>8. QED
  BY <1>2, <1>6, <1>7 DEF DownInv

(* No type is the one that is derived yet, so that no level above it that  *)
(* was below it changes.                                                   *)
LEMMA DownVisitKeeps ==
  ASSUME DownInv, NEW c \in Tag, NEW p \in Tag, Visit(c, p)
  PROVE  DownInv'
<1>1. Inv /\ Downward /\ LevelsApart
  BY DEF DownInv
<1>2. Inv'
  BY <1>1, VisitKeeps
<1>3. <<c, p>> \in due /\ call' = call /\ types \in [Tag -> Type]
  BY <1>1, Ranges DEF Visit, Inv
<1>4. c = call[1] /\ types[c].children = {}
  BY <1>1, <1>3 DEF Downward
<1>5. CASE Knows(types, c, p)
  <2>1. types' = types /\ due' \subseteq due
    BY <1>5 DEF Visit
  <2>2. Downward' /\ LevelsApart'
    BY <1>1, <1>3, <2>1 DEF Downward, LevelsApart
  <2>3. QED
    BY <1>2, <2>2 DEF DownInv
<1>6. CASE ~Knows(types, c, p)
  <2>1. /\ types' = Learned(types, c, p)
        /\ due' = (due \ {<<c, p>>}) \cup ({c} \X Above(types, c, p)) \cup (Under(types, c, p) \X {p})
    BY <1>6 DEF Visit
  <2>2. Learns(types, types', c, p)
    BY <1>3, <2>1, LearnedAt
  <2>3. Under(types, c, p) = {}
    BY <1>4 DEF Under
  <2>4. \A x, y \in Tag : <<x, y>> \in due' => <<x, y>> \in due \/ x = c
    BY <2>1, <2>3
  <2>5. Downward'
    <3>1. \A t \in Tag : types'[t].parents = types[t].parents /\ types'[t].children = types[t].children
      BY <2>2 DEF Learns
    <3>2. QED
      BY <1>1, <1>3, <1>4, <2>4, <3>1 DEF Downward
  <2>6. p # c
    BY <1>1, <1>6 DEF Knows, Inv, Reflexive
  <2>7. \A t \in Tag : types[t].level \in Nat
    BY <1>1, Ranges DEF Inv
  <2>8. types'[c].level >= types[c].level /\ types'[c].level > types[p].level
    <3>1. types'[c].level = Max({types[c].level, types[p].level + 1})
      BY <2>2 DEF Learns
    <3>2. PICK a \in Nat, b \in Nat, m \in {types'[c].level} : a = types[c].level /\ b = types[p].level
      BY <2>7
    <3>3. m = Max({a, b + 1})
      BY <3>1, <3>2
    <3>4. m \in Nat /\ m >= a /\ m >= b + 1
      BY <3>3, Larger
    <3>5. m > b
      BY <3>4
    <3>6. QED
      BY <3>2, <3>4, <3>5
  <2>9. types'[c].level \in Nat
    BY <1>2, Ranges DEF Inv, TypeOK, Type
  <2>10. \A t \in Tag : t # c => types'[t].level = types[t].level
    BY <2>2 DEF Learns
  <2>11. LevelsApart'
    <3> SUFFICES ASSUME NEW x \in Tag, NEW y \in Tag, y \in types'[x].is, y # x
                 PROVE  types'[y].level < types'[x].level
      BY DEF LevelsApart
    <3>1. y \in types[x].is \/ (x = c /\ y = p)
      BY <2>2 DEF Learns
    <3>2. y # c
      BY <1>1, <1>4, <2>6, <3>1, Childless
    <3>3. types'[y].level = types[y].level
      BY <2>10, <3>2
    <3>4. CASE x # c
      BY <1>1, <2>10, <3>1, <3>3, <3>4 DEF LevelsApart
    <3>5. CASE x = c /\ y \in types[c].is
      <4>1. types[y].level < types[c].level
        BY <1>1, <3>2, <3>5 DEF LevelsApart
      <4>2. PICK a \in Nat, b \in Nat, m \in Nat :
              a = types[y].level /\ b = types[c].level /\ m = types'[c].level
        BY <2>7, <2>9
      <4>3. a < b /\ m >= b
        BY <2>8, <4>1, <4>2
      <4>4. a < m
        BY <4>3
      <4>5. QED
        BY <3>3, <3>5, <4>2, <4>4
    <3>6. CASE x = c /\ y = p
      <4>1. PICK b \in Nat, m \in Nat : b = types[p].level /\ m = types'[c].level
        BY <2>7, <2>9
      <4>2. b < m
        BY <2>8, <4>1
      <4>3. QED
        BY <3>3, <3>6, <4>1, <4>2
    <3>7. QED
      BY <3>1, <3>4, <3>5, <3>6
  <2>12. QED
    BY <1>2, <2>5, <2>11 DEF DownInv
<1>7. QED
  BY <1>5, <1>6

(* The invariant of such programs. *)
LEMMA DownInvariance == DownSpec => []DownInv
<1>1. Init => DownInv
  <2> SUFFICES ASSUME Init PROVE DownInv
    OBVIOUS
  <2>1. \A t \in Tag : types[t].is = {t} /\ types[t].parents = {}
    BY DEF Init, Bare
  <2>2. due = {}
    BY DEF Init
  <2>3. Downward /\ LevelsApart
    BY <2>1, <2>2 DEF Downward, LevelsApart
  <2>4. QED
    BY <2>3, InitInv DEF DownInv
<1>2. DownInv /\ [DownNext]_vars => DownInv'
  <2> SUFFICES ASSUME DownInv, [DownNext]_vars PROVE DownInv'
    OBVIOUS
  <2>1. CASE \E c, p \in Tag : p < c /\ types[c].children = {} /\ Derive(c, p)
    BY <2>1, DownDeriveKeeps
  <2>2. CASE \E c, p \in Tag : Visit(c, p)
    BY <2>2, DownVisitKeeps
  <2>3. CASE UNCHANGED vars
    <3>1. Inv'
      BY <2>3, StepKeeps DEF DownInv
    <3>2. (Downward /\ LevelsApart)'
      BY <2>3 DEF vars, DownInv, Downward, LevelsApart
    <3>3. QED
      BY <3>1, <3>2 DEF DownInv
  <2>4. QED
    BY <2>1, <2>2, <2>3 DEF DownNext
<1>3. QED
  BY <1>1, <1>2, PTL DEF DownSpec

(* Levels grow along everything that is derived, even while it is derived: *)
(* two implementations for types of one line are never as good.            *)
THEOREM LevelsKeptApart == DownSpec => []LevelsApart
BY DownInvariance, PTL DEF DownInv

(* The size of a number. *)
LEMMA SizeOf ==
  ASSUME NEW g \in Int
  PROVE  Max({g, -g}) \in Nat /\ (g >= 0 => Max({g, -g}) = g)
<1>1. \E a \in {g, -g} : \A b \in {g, -g} : a >= b
  <2>1. CASE g >= 0
    BY <2>1
  <2>2. CASE g < 0
    BY <2>2
  <2>3. QED
    BY <2>1, <2>2
<1>2. Max({g, -g}) \in {g, -g} /\ \A b \in {g, -g} : Max({g, -g}) >= b
  BY <1>1 DEF Max
<1>3. Max({g, -g}) >= g /\ Max({g, -g}) >= -g
  BY <1>2
<1>4. QED
  BY <1>2, <1>3

(* Distances are no less than nothing. *)
LEMMA Apart ==
  ASSUME DownInv, NEW x \in Tag, NEW t \in Tag
  PROVE  Distance(types, t, x) \in Nat
<1>1. types[t].level \in Nat /\ types[x].level \in Nat
  BY Ranges DEF DownInv, Inv
<1>2. types[x].level - types[t].level \in Int
  BY <1>1
<1>3. QED
  BY <1>2, SizeOf DEF Distance

(* A more specific type is nearer to the value. *)
LEMMA Nearer ==
  ASSUME DownInv, NEW x \in Tag, NEW c \in Tag, NEW p \in Tag,
         c \in types[x].is, p \in types[c].is, p \in types[x].is, p # c
  PROVE  Distance(types, c, x) < Distance(types, p, x)
<1>1. \A t \in Tag : types[t].level \in Nat
  BY Ranges DEF DownInv, Inv
<1>2. types[p].level < types[c].level /\ (c = x \/ types[c].level < types[x].level)
  BY DEF DownInv, LevelsApart
<1>3. PICK i \in Nat, j \in Nat, k \in Nat : i = types[p].level /\ j = types[c].level /\ k = types[x].level
  BY <1>1
<1>4. i < j /\ j <= k
  BY <1>2, <1>3
<1>5. k - j \in Nat /\ k - i \in Nat /\ k - j < k - i
  BY <1>4
<1>6. k - j >= 0 /\ k - i >= 0 /\ k - j \in Int /\ k - i \in Int
  BY <1>5
<1>7. Max({k - j, -(k - j)}) = k - j /\ Max({k - i, -(k - i)}) = k - i
  BY <1>6, SizeOf
<1>8. Distance(types, c, x) = k - j /\ Distance(types, p, x) = k - i
  BY <1>3, <1>7 DEF Distance
<1>9. QED
  BY <1>5, <1>8

(* SpecificFirst, for any number of types and of implementations.          *)
THEOREM SpecificIsCalled == DownSpec => []Specific
<1>1. ASSUME DownInv PROVE Specific
  <2> SUFFICES ASSUME NEW imps \in Seq(Tag), NEW x \in Tag
               PROVE  LET fits == {k \in DOMAIN imps : imps[k] \in types[x].is}
                          called == Best(Scores(imps, x))
                      IN IF fits = {} THEN called = 0
                         ELSE /\ called \in fits
                              /\ \A k \in fits : imps[called] \in types[imps[k]].is => imps[k] = imps[called]
    BY DEF Specific
  <2> DEFINE fits == {k \in DOMAIN imps : imps[k] \in types[x].is}
             scores == Scores(imps, x)
             called == Best(scores)
  <2>1. DOMAIN scores = DOMAIN imps /\ DOMAIN scores \subseteq Nat /\ \A k \in DOMAIN imps : imps[k] \in Tag
    BY DEF Scores
  <2>2. \A k \in DOMAIN scores : scores[k] = IF k \in fits THEN Distance(types, imps[k], x) ELSE -1
    BY DEF Scores
  <2>3. \A t \in Tag : Distance(types, t, x) \in Nat
    BY <1>1, Apart
  <2>4. fits = {k \in DOMAIN scores : scores[k] # -1}
    BY <2>1, <2>2, <2>3
  <2>5. \A k \in DOMAIN scores : scores[k] \in Nat \cup {-1}
    BY <2>1, <2>2, <2>3
  <2> HIDE DEF scores
  <2>6. IF fits = {} THEN called = 0
        ELSE called \in fits /\ \A k \in fits : scores[called] <= scores[k]
    BY <2>1, <2>4, <2>5, BestOf
  <2>7. ASSUME fits # {}, NEW k \in fits, imps[called] \in types[imps[k]].is PROVE imps[k] = imps[called]
    <3> SUFFICES ASSUME imps[k] # imps[called] PROVE FALSE
      OBVIOUS
    <3>1. called \in fits
      BY <2>6, <2>7
    <3>2. imps[k] \in Tag /\ imps[called] \in Tag /\ imps[k] \in types[x].is /\ imps[called] \in types[x].is
      BY <2>1, <3>1
    <3>3. Distance(types, imps[k], x) < Distance(types, imps[called], x)
      BY <1>1, <2>7, <3>2, Nearer
    <3>4. scores[called] = Distance(types, imps[called], x) /\ scores[k] = Distance(types, imps[k], x)
      BY <2>1, <2>2, <3>1
    <3>5. scores[called] <= scores[k]
      BY <2>6, <2>7
    <3>6. Distance(types, imps[k], x) \in Nat /\ Distance(types, imps[called], x) \in Nat
      BY <2>3, <3>2
    <3>7. QED
      BY <3>3, <3>4, <3>5, <3>6
  <2>8. QED
    BY <2>6, <2>7 DEF scores
<1>2. QED
  BY <1>1, DownInvariance, PTL

(* LeastSupertype, for any number of types. *)
THEOREM LowestIsShared == DownSpec => []Lowest
<1>1. ASSUME DownInv PROVE Lowest
  <2> SUFFICES ASSUME NEW x \in Tag, NEW y \in Tag
               PROVE  LET shared == types[x].is \cap types[y].is
                          s == Supertype(types, x, y)
                      IN IF shared = {} THEN s = 0
                         ELSE s \in shared /\ \A c \in shared : s \in types[c].is => c = s
    BY DEF Lowest
  <2> DEFINE shared == types[x].is \cap types[y].is
             common == {c \in shared : c <= x}
  <2>1. Ordered
    BY <1>1, Before DEF DownInv
  <2>2. \A t \in Tag : types[t].is \subseteq Tag
    BY <1>1, Ranges DEF DownInv, Inv
  <2>3. common = shared
    BY <2>1, <2>2 DEF Ordered
  <2>4. Supertype(types, x, y) = IF shared = {} THEN 0 ELSE Max(shared)
    BY <2>3 DEF Supertype
  <2>5. ASSUME shared # {} PROVE Max(shared) \in shared /\ \A c \in shared : c <= Max(shared)
    <3>1. shared \in SUBSET Nat /\ x \in Nat /\ \A c \in shared : c <= x
      BY <2>2, <2>3 DEF Tag
    <3>2. QED
      BY <2>5, <3>1, MaxOf
  <2>6. ASSUME shared # {}, NEW c \in shared, Max(shared) \in types[c].is PROVE c = Max(shared)
    <3>1. PICK s \in shared : s = Max(shared)
      BY <2>5, <2>6
    <3>2. s \in Tag /\ c \in Tag /\ c <= s
      BY <2>2, <2>5, <2>6, <3>1
    <3>3. s <= c
      BY <2>1, <2>6, <3>1, <3>2 DEF Ordered
    <3>4. QED
      BY <3>1, <3>2, <3>3 DEF Tag
  <2> HIDE DEF shared
  <2>7. IF shared = {} THEN Supertype(types, x, y) = 0
        ELSE /\ Supertype(types, x, y) \in shared
             /\ \A c \in shared : Supertype(types, x, y) \in types[c].is => c = Supertype(types, x, y)
    BY <2>4, <2>5, <2>6
  <2>8. QED
    BY <2>7 DEF shared
<1>2. QED
  BY <1>1, DownInvariance, PTL

=============================================================================
