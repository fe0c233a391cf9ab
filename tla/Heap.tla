-------------------------------- MODULE Heap --------------------------------
(***************************************************************************)
(* Values and the counted objects they refer to: box.c, vec.c, set.c,      *)
(* stack.c, ref.c, pair.c, table.c, rec.c, env.c, iter.c, int.c, file.c,   *)
(* buf.c, proc.c and the operand stack of scope.c, as operators on a world.*)
(*                                                                         *)
(* A box is a type, the arguments of that type, and a value or the address *)
(* of an object.  A world has the objects, the operand stack, the          *)
(* variables, the number of blocks taken from the slabs, the descriptors   *)
(* that are open (fds; those that nobody will close are leaked, too), and  *)
(* these marks:                                                            *)
(*   lost    how many counted references to each object were forgotten     *)
(*   stale   something that is no longer an item of a stack was used, or   *)
(*           the length of a buffer that is not that of its contents       *)
(*   broken  memory was used that is not there, or released twice          *)
(*   wild    a descriptor was closed whose number was never set            *)
(*   aborted the program was stopped by a cx_test, for a type that has no  *)
(*           such method, or by the use of a file that is closed           *)
(* An item that was popped stays in its slot until it is overwritten.      *)
(***************************************************************************)
EXTENDS Descriptors, Sequences, SequencesExt, TLC

CONSTANT VecMin     \* CX_VEC_MIN: the size of the blocks of items of the slabs

ASSUME VecMinAssumption == VecMin \in Nat \ {0}

Broken(w) == [w EXCEPT !.broken = TRUE]
Abort(w) == [w EXCEPT !.aborted = TRUE]
Forget(w, b) == IF Points(b) THEN [w EXCEPT !.lost[b.v] = @ + 1] ELSE w

----------------------------------------------------------------------------
(* Vectors. *)

EmptyVec == [slots |-> <<>>, count |-> 0, capac |-> 0, from |-> "none"]

Items(vec) == SubSeq(vec.slots, 1, vec.count)

(* cx_vec_grow: the size, and where the block of that size comes from. *)
Capac(vec, n) ==
  IF vec.capac = 0 THEN Max({n, VecMin})
  ELSE Min({c \in {vec.capac * 3 ^ k : k \in 1 .. 4} : c >= n})

(* Mutant: the slab's block is handed to realloc. *)
GrowInPlace(w, vec, n) ==
  IF n <= vec.capac THEN [w |-> w, vec |-> vec]
  ELSE LET c == Capac(vec, n)
       IN IF c = VecMin
          THEN [w |-> [w EXCEPT !.slabs = @ + 1], vec |-> [vec EXCEPT !.capac = c, !.from = "slab"]]
          ELSE [w |-> w, vec |-> [vec EXCEPT !.capac = c, !.from = "heap"]]

Grow(w, vec, n) ==
  IF n <= vec.capac THEN [w |-> w, vec |-> vec]
  ELSE LET c == Capac(vec, n)
       IN IF c = VecMin
          THEN [w |-> [w EXCEPT !.slabs = @ + 1, !.broken = @ \/ vec.from # "none"],
                vec |-> [vec EXCEPT !.capac = c, !.from = "slab"]]
          ELSE [w |-> IF vec.capac = VecMin THEN [w EXCEPT !.slabs = @ - 1] ELSE w,
                vec |-> [vec EXCEPT !.capac = c, !.from = "heap",
                                    !.slots = SubSeq(@, 1, vec.count)]]

(* The slot after the last item, and all slots before it, exist. *)
Put(vec, i, b) == [vec EXCEPT !.slots = SubSeq(@, 1, i) \o <<b>> \o SubSeq(@, i + 2, Len(@))]

VecPush(w, vec, b) ==
  LET r == Grow(w, vec, IF vec.capac = vec.count THEN vec.capac + 1 ELSE 0)
  IN [w |-> r.w, vec |-> [Put(r.vec, vec.count, b) EXCEPT !.count = @ + 1]]

VecFree(w, vec) ==
  IF vec.from # "none" /\ vec.capac = VecMin THEN [w EXCEPT !.slabs = @ - 1] ELSE w

HasSlot(vec, i) == i \in 0 .. Len(vec.slots) - 1

----------------------------------------------------------------------------
(* Objects and their counts. *)

StackObj == [k |-> "stack", vec |-> EmptyVec]
RefObj(b) == [k |-> "ref", val |-> b]
PairObj(x, y) == [k |-> "pair", x |-> x, y |-> y]
TableObj == [k |-> "table", entries |-> <<>>]
RecObj == [k |-> "rec", fields |-> <<>>]
IterObj(kind, src, act, i, end, delta) ==
  [k |-> "iter", kind |-> kind, src |-> src, act |-> act,
   i |-> i, end |-> end, delta |-> delta, done |-> FALSE]

(* nrefs is 1, and the reference belongs to the caller. *)
New(w, obj) == Place(w, obj @@ [n |-> 1])

(* cx_copy: the new box is the same; the object has one more reference. *)
Copy(w, b) ==
  IF ~Points(b) \/ w.full THEN w
  ELSE IF Alive(w, b.v) THEN [w EXCEPT !.heap[b.v].n = @ + 1]
  ELSE Broken(w)

CopyAll(w, bs) == FoldLeft(Copy, w, bs)

(* What an object holds, in the order in which it is released. *)
Parts(obj) ==
  CASE obj.k = "stack" -> Items(obj.vec)
    [] obj.k = "ref" -> <<obj.val>>
    [] obj.k = "pair" -> <<obj.x, obj.y>>
    [] obj.k = "table" -> FlattenSeq([i \in 1 .. Len(obj.entries) |->
                                        <<obj.entries[i].key, obj.entries[i].val>>])
    [] obj.k = "rec" -> [i \in 1 .. Len(obj.fields) |-> obj.fields[i].val]
    [] obj.k = "iter" -> <<obj.src, obj.act>>
    [] obj.k = "proc" -> obj.ends
    [] OTHER -> <<>>

(* cx_box_deinit, down to everything that goes with it.  The value of a    *)
(* reference does not.  A buffer that goes with a plain pointer to its     *)
(* file is given back to the slabs of files.                               *)
RECURSIVE Drop(_, _)
DropAll(w, bs) == FoldLeft(Drop, w, bs)
Drop(w, b) ==
  IF ~Points(b) \/ w.full THEN w
  ELSE IF ~Alive(w, b.v) THEN Broken(w)
  ELSE IF w.heap[b.v].n = 0 THEN Broken(w)
  ELSE IF w.heap[b.v].n > 1 THEN [w EXCEPT !.heap[b.v].n = @ - 1]
  ELSE LET obj == w.heap[b.v]
           rest == IF obj.k = "ref" THEN Forget(w, obj.val)
                   ELSE DropAll([w EXCEPT !.heap[b.v].n = 0], Parts(obj))
           less == CASE obj.k = "stack" -> VecFree(rest, obj.vec)
                     [] obj.k = "file" -> FileFree(rest, obj)
                     [] obj.k = "buf" -> IF b.t = "file" THEN Broken(rest) ELSE rest
                     [] obj.k = "proc" -> ProcFree(rest, obj)
                     [] OTHER -> rest
       IN [less EXCEPT !.heap[b.v] = Free, !.lost[b.v] = 0]

(* The objects a value holds, itself included, through those of kinds ks.  *)
Pointed(bs, ks) == {b.v : b \in {c \in Range(bs) : c.t \in ks}}
Reach(w, bs, ks) ==
  LET More(as, n) == as \cup UNION {Pointed(Parts(w.heap[a]), ks) : a \in as}
  IN FoldLeft(More, Pointed(bs, ks), [n \in 1 .. Cardinality(Addr) |-> n])
Cyclic(w, b) == \E a \in Reach(w, <<b>>, Counted) : a \in Reach(w, Parts(w.heap[a]), Counted)

----------------------------------------------------------------------------
(* The operand stack.  cx_pop hands the reference to the caller; nothing   *)
(* reads what is above the top, so its slots end there.                    *)

Push(w, b) ==
  LET r == VecPush(w, w.st, b)
  IN [r.w EXCEPT !.st = r.vec]
PushCopy(w, b) == Push(Copy(w, b), b)
Depth(w) == w.st.count
Top(w) == w.st.slots[w.st.count]
PopArgs(w, n) == [w EXCEPT !.st.count = @ - n, !.st.slots = SubSeq(@, 1, Depth(w) - n)]
Pop(w) == PopArgs(w, 1)

PushNew(w, obj, t, e) ==
  LET r == New(w, obj)
  IN Push(r.w, Typed(t, e, r.v))

----------------------------------------------------------------------------
(* Comparing.  2 stands for a type that has no cmp. *)

Sign(n) == IF n < 0 THEN -1 ELSE IF n > 0 THEN 1 ELSE 0

RECURSIVE Cmp(_, _, _)
CmpAll(w, xs, ys) ==
  LET both == 1 .. Min({Len(xs), Len(ys)})
      differ == {i \in both : Cmp(w, xs[i], ys[i]) # 0}
  IN IF differ = {} THEN Sign(Len(xs) - Len(ys)) ELSE Cmp(w, xs[Min(differ)], ys[Min(differ)])
Cmp(w, x, y) ==
  CASE x.t \in {"int", "sym", "table", "rec"} \cup Files -> Sign(x.v - y.v)
    [] x.t = "stack" /\ y.t = "stack" -> CmpAll(w, Items(Object(w, x).vec), Items(Object(w, y).vec))
    [] x.t = "pair" /\ y.t = "pair" -> CmpAll(w, Parts(Object(w, x)), Parts(Object(w, y)))
    [] OTHER -> 2

RECURSIVE Eqval(_, _, _)
Eqval(w, x, y) ==
  LET xo == Object(w, x)
      yo == Object(w, y)
      AllEq(xs, ys) == Len(xs) = Len(ys) /\ \A i \in 1 .. Len(xs) : Eqval(w, xs[i], ys[i])
  IN IF x.t # y.t THEN FALSE
     ELSE CASE x.t \in {"stack", "pair", "table", "ref"} -> AllEq(Parts(xo), Parts(yo))
            [] x.t = "rec" -> /\ Len(xo.fields) = Len(yo.fields)
                              /\ \A i \in 1 .. Len(xo.fields) : \E j \in 1 .. Len(yo.fields) :
                                   /\ xo.fields[i].id = yo.fields[j].id
                                   /\ Eqval(w, xo.fields[i].val, yo.fields[j].val)
            [] OTHER -> x.v = y.v

RECURSIVE IsOk(_, _)
IsOk(w, b) ==
  CASE b.t = "nil" -> FALSE
    [] b.t \in {"int", "bool"} -> b.v # 0
    [] b.t = "stack" -> Object(w, b).vec.count > 0
    [] b.t = "pair" -> IsOk(w, Object(w, b).x) /\ IsOk(w, Object(w, b).y)
    [] b.t = "ref" -> IsOk(w, Object(w, b).val)
    [] b.t = "table" -> Object(w, b).entries # <<>>
    [] b.t = "rec" -> Object(w, b).fields # <<>>
    [] b.t = "iter" -> ~Object(w, b).done
    [] b.t = "buf" -> Object(w, b).wp # Object(w, b).pos
    [] b.t \in Files -> Object(w, b).ptr \/ Object(w, b).fd # -1
    [] OTHER -> TRUE

----------------------------------------------------------------------------
(* Tables: entries in the order of their keys. *)

Find(w, entries, key) ==
  LET f[min \in 0 .. Len(entries), max \in 0 .. Len(entries)] ==
        LET i == (max + min) \div 2
            c == Cmp(w, key, entries[i + 1].key)
        IN IF min >= max THEN [i |-> min, found |-> FALSE]
           ELSE IF c < 0 THEN f[min, i]
           ELSE IF c = 0 THEN [i |-> i, found |-> TRUE]
           ELSE f[i + 1, max]
  IN f[0, Len(entries)]

TableGet(w, a, key) ==
  LET f == Find(w, w.heap[a].entries, key)
  IN IF f.found THEN w.heap[a].entries[f.i + 1].val ELSE NilBox

TablePut(w, a, key, val) ==
  LET f == Find(w, w.heap[a].entries, key)
      e == [key |-> key, val |-> val]
  IN IF f.found
     THEN LET d == Drop(w, w.heap[a].entries[f.i + 1].val)
          IN Copy([d EXCEPT !.heap[a].entries[f.i + 1].val = val], val)
     ELSE CopyAll([w EXCEPT !.heap[a].entries = InsertAt(@, f.i + 1, e)], <<key, val>>)

TableDelete(w, a, key) ==
  LET f == Find(w, w.heap[a].entries, key)
      e == w.heap[a].entries[f.i + 1]
  IN IF f.found THEN [DropAll(w, <<e.key, e.val>>) EXCEPT !.heap[a].entries = RemoveAt(@, f.i + 1)]
     ELSE w

(* check_key_type: against the first key the table has. *)
KeyFits(w, a, key) ==
  LET es == w.heap[a].entries
  IN es = <<>> \/ IsA(key.t, es[1].key.t)

----------------------------------------------------------------------------
(* Records: the fields that have been put. *)

FieldAt(w, a, id) == SelectInSeq(w.heap[a].fields, LAMBDA f : f.id = id)
FieldGet(w, a, id) ==
  IF FieldAt(w, a, id) = 0 THEN NilBox ELSE w.heap[a].fields[FieldAt(w, a, id)].val

(* cx_rec_put releases what is there; the caller stores a box it owns. *)
FieldPut(w, a, id, val) ==
  LET i == FieldAt(w, a, id)
  IN IF i = 0 THEN [w EXCEPT !.heap[a].fields = Append(@, [id |-> id, val |-> val])]
     ELSE [Drop(w, w.heap[a].fields[i].val) EXCEPT !.heap[a].fields[i].val = val]

----------------------------------------------------------------------------
(* Iterators. *)

(* cx_iter: an iterator is its own iterator. *)
IterOf(w, b) ==
  LET Made(obj, held) ==
        LET r == New(Copy(w, held), obj)
        IN [w |-> r.w, it |-> Box("iter", r.v)]
  IN CASE b.t = "iter" -> [w |-> Copy(w, b), it |-> b]
       [] b.t = "stack" -> Made(IterObj("stack", b, NilBox, 0, Object(w, b).vec.count, 1), b)
       [] b.t = "table" -> Made(IterObj("table", b, NilBox, 0, 0, 1), b)
       [] b.t = "int" -> Made(IterObj("int", NilBox, NilBox, 0, b.v, 1), NilBox)
       [] b.t \in Files -> Made(IterObj("char", b, NilBox, 0, 0, 1), b)
       [] OTHER -> Made(IterObj("call", NilBox, b, 0, 0, 1), b)

(* Mutant: the items of a stack are copied, not cloned. *)
CloneShallow(w, b) ==
  LET items == Parts(Object(w, b))
      v == FoldLeft(LAMBDA r, x : VecPush(r.w, r.vec, x), [w |-> CopyAll(w, items), vec |-> EmptyVec], items)
      new == New(v.w, [StackObj EXCEPT !.vec = v.vec])
  IN IF b.t = "stack" THEN [w |-> new.w, b |-> [b EXCEPT !.v = new.v]] ELSE [w |-> Copy(w, b), b |-> b]

(* cx_clone *)
RECURSIVE Clone(_, _)
CloneAll(w, bs) ==
  FoldLeft(LAMBDA r, b : LET c == Clone(r.w, b) IN [w |-> c.w, bs |-> Append(r.bs, c.b)],
           [w |-> w, bs |-> <<>>], bs)
Clone(w, b) ==
  LET obj == Object(w, b)
      parts == CloneAll(w, Parts(obj))
      Made(u, o) == LET r == New(u, o) IN [w |-> r.w, b |-> [b EXCEPT !.v = r.v]]
      Pushed == FoldLeft(LAMBDA r, x : VecPush(r.w, r.vec, x), [w |-> parts.w, vec |-> EmptyVec], parts.bs)
      Entries == [i \in 1 .. Len(obj.entries) |->
                    [key |-> parts.bs[2 * i - 1], val |-> parts.bs[2 * i]]]
      Inserted == FoldLeft(LAMBDA es, e : InsertAt(es, Find(parts.w, es, e.key).i + 1, e), <<>>, Entries)
  IN CASE b.t = "stack" -> Made(Pushed.w, [StackObj EXCEPT !.vec = Pushed.vec])
       [] b.t = "pair" -> Made(parts.w, PairObj(parts.bs[1], parts.bs[2]))
       [] b.t = "ref" -> Made(Copy(w, obj.val), RefObj(obj.val))
       [] b.t = "table" -> Made(parts.w, [TableObj EXCEPT !.entries = Inserted])
       [] b.t = "rec" -> Made(parts.w, [RecObj EXCEPT !.fields = [i \in 1 .. Len(obj.fields) |->
                                  [id |-> obj.fields[i].id, val |-> parts.bs[i]]]])
       [] OTHER -> [w |-> Copy(w, b), b |-> b]
=============================================================================
