------------------------------- MODULE Values -------------------------------
(***************************************************************************)
(* Values, the types that their functions tell apart, and the objects that *)
(* they refer to: box.h, type.c, malloc.c.                                 *)
(*                                                                         *)
(* A box is a type, the arguments of that type, and a value or the address *)
(* of an object.  The objects are in the heap of a world.                  *)
(***************************************************************************)
EXTENDS Integers, FiniteSetsExt

CONSTANT Addr      \* bound on the objects that are alive

ASSUME AddrAssumption == Addr \subseteq Nat \ {0}

Box(t, v) == [t |-> t, e |-> <<>>, v |-> v]
Typed(t, e, v) == [t |-> t, e |-> e, v |-> v]
NilBox == Box("nil", 0)
Num(n) == Box("int", n)
Bool(b) == Box("bool", IF b THEN 1 ELSE 0)

(* "file" stands for a struct cx_file * that is held without a box. *)
Files == {"rfile", "wfile", "rwfile", "buf", "file"}
Counted == {"stack", "ref", "pair", "table", "rec", "iter", "proc"} \cup Files
Points(b) == b.t \in Counted

(* cx_is and cx_supertype, for the types this module has. *)
Cmps == {"int", "sym", "stack", "pair", "table", "rec", "proc", "cmp"} \cup Files
Seqs == {"int", "stack", "table", "iter", "act", "rfile", "rwfile", "buf", "seq"}
IsA(t, u) ==
  \/ t = u
  \/ u = "opt"
  \/ u = "any" /\ t \notin {"nil", "opt"}
  \/ u = "cmp" /\ t \in Cmps
  \/ u = "seq" /\ t \in Seqs
  \/ u = "file" /\ t \in Files
  \/ u \in {"rfile", "wfile"} /\ t \in {"rwfile", "buf"}
  \/ u = "rwfile" /\ t = "buf"
Super(t, u) ==
  IF t = u THEN t
  ELSE IF {t, u} \cap {"nil", "opt"} # {} THEN "opt"
  ELSE IF {t, u} \subseteq Seqs THEN "seq"
  ELSE IF {t, u} \subseteq Cmps THEN "cmp"
  ELSE "any"

----------------------------------------------------------------------------
Free == [k |-> "free"]
Object(w, b) == w.heap[b.v]
Alive(w, a) == w.heap[a].k # "free"

HasRoom(w) == \E a \in Addr : ~Alive(w, a)
NextAddr(w) == IF HasRoom(w) THEN Min({a \in Addr : ~Alive(w, a)}) ELSE 0

(* The new object and its address. *)
Place(w, obj) ==
  IF HasRoom(w) THEN [w |-> [w EXCEPT !.heap[NextAddr(w)] = obj], v |-> NextAddr(w)]
  ELSE [w |-> [w EXCEPT !.full = TRUE], v |-> 0]
=============================================================================
