-------------------------------- MODULE Data --------------------------------
(***************************************************************************)
(* The functions on containers, references and iterators: lib/stack.c,     *)
(* lib/ref.c, lib/pair.c, lib/table.c, lib/rec.c, lib/iter.c, lib/var.c    *)
(* and push and new, called by a program that is any sequence of them.     *)
(*                                                                         *)
(* A function that calls an action back keeps a frame, with the arguments  *)
(* it owns and what it holds in local variables; the action it calls is    *)
(* again any sequence of functions, which may use the same containers.     *)
(* sig is what the topmost frame is to do: run more of the program, give   *)
(* the next value of an iterator, or go on after what it asked for.  The   *)
(* world has a mark more: err, whether an error is pending.                *)
(***************************************************************************)
EXTENDS Heap

CONSTANTS
  Programs,  \* what a program may use, the world it starts in, and a bound
             \* on the functions that it calls
  Fields     \* the types of the fields of a record, by symbol

VARIABLES
  frames,  \* the calls in progress
  sig,     \* what the topmost of them is told
  words,   \* the functions of this program
  steps    \* how many it may still call

vars == <<world, frames, sig, words, steps>>

Frame(op, args, locals) == [op |-> op, args |-> args, locals |-> locals, at |-> 0, n |-> 0, e |-> "none"]
IterFrame(op, a) == [Frame(op, <<>>, <<>>) EXCEPT !.at = a]
Sig(k) == [k |-> k, v |-> NilBox]
Item(b) == [k |-> "item", v |-> b]
NextOf(it) == [k |-> "next", v |-> it]
f == Last(frames)
Below == Front(frames)

InAction == IF frames = <<>> THEN TRUE ELSE f.op = "act"
Err(w) == [w EXCEPT !.err = TRUE]
Done(w) == [w |-> w, ok |-> TRUE]
Refuse(w) == [w |-> Err(w), ok |-> FALSE]
After(r) == IF r.ok /\ ~r.w.err THEN Sig("run") ELSE Sig("fail")

----------------------------------------------------------------------------
(* Calls. *)

Running == ~world.aborted /\ ~world.full

Word(x) ==
  /\ x \in words /\ sig.k = "run" /\ steps > 0 /\ Running
  /\ steps' = steps - 1 /\ UNCHANGED words

Args(n) == SubSeq(world.st.slots, Depth(world) - n + 1, Depth(world))

(* "pairs" is a sequence of pairs, "elem" and "val" are what the first     *)
(* argument is declared to hold.                                           *)
Fits(kinds) ==
  /\ Depth(world) >= Len(kinds)
  /\ LET a == Args(Len(kinds))
     IN \A i \in 1 .. Len(kinds) :
          CASE kinds[i] = "pairs" -> a[i].t = "stack" /\ a[i].e = <<"pair">>
            [] kinds[i] = "elem" -> IsA(a[i].t, a[1].e[1])
            [] kinds[i] = "val" -> IsA(a[i].t, a[1].e[2])
            [] OTHER -> IsA(a[i].t, kinds[i])

(* cx_fimp_call of a C function that calls nothing back. *)
Native(x, kinds, Effect(_, _)) ==
  /\ Word(x) /\ Fits(kinds)
  /\ LET a == Args(Len(kinds))
         r == Effect(PopArgs(world, Len(kinds)), a)
     IN world' = DropAll(r.w, a) /\ sig' = After(r)
  /\ UNCHANGED frames

(* ... and of one that does: it goes on in frame g. *)
Enter(x, kinds, Go(_, _)) ==
  /\ Word(x) /\ Fits(kinds)
  /\ Go(PopArgs(world, Len(kinds)), Args(Len(kinds)))

(* Mutant: an action is called while an error is pending. *)
CallActAnyway(w, fs, act) ==
  IF act.t = "act"
  THEN world' = w /\ frames' = Append(fs, Frame("act", <<>>, <<>>)) /\ sig' = Sig("run")
  ELSE world' = PushCopy(w, act) /\ frames' = fs /\ sig' = Sig("acted")

(* cx_call: a value that is no action is pushed. *)
CallAct(w, fs, act) ==
  IF act.t = "act"
  THEN /\ world' = w /\ frames' = Append(fs, Frame("act", <<>>, <<>>))
       /\ sig' = IF w.err THEN Sig("fail") ELSE Sig("run")
  ELSE world' = PushCopy(w, act) /\ frames' = fs /\ sig' = Sig("acted")

Iterate(w, g) == world' = w /\ frames' = Append(frames, g) /\ sig' = NextOf(g.locals[1])
Ask(w, it) == world' = w /\ sig' = NextOf(it) /\ UNCHANGED frames
AskAs(w, g) == world' = w /\ frames' = Append(Below, g) /\ sig' = NextOf(g.locals[1])

(* The return of a function: what it still holds is released, and then its *)
(* arguments.                                                              *)
Leave(w, held, ok) ==
  /\ world' = DropAll(w, held \o f.args)
  /\ frames' = Below /\ sig' = After([w |-> w, ok |-> ok])

(* The return of next of an iterator that others own. *)
Yield(w, s) == world' = w /\ frames' = Below /\ sig' = s
Ended(w, a) == [w EXCEPT !.heap[a].done = TRUE]

(* An iterator that is asked, and what those answer that call nothing.     *)
Asked == sig.v.v
Asks(kind) ==
  /\ sig.k = "next" /\ Running /\ world.heap[Asked].kind = kind /\ ~world.heap[Asked].done
  /\ UNCHANGED <<words, steps>>
Answer(w, b) == world' = w /\ sig' = Item(b) /\ UNCHANGED frames
End(w) == world' = Ended(w, Asked) /\ sig' = Sig("end") /\ UNCHANGED frames

Step(k, op) == Running /\ sig.k = k /\ frames # <<>> /\ f.op = op /\ UNCHANGED <<words, steps>>

----------------------------------------------------------------------------
(* The program. *)

Return == Word("return") /\ frames # <<>> /\ f.op = "act" /\ frames' = Below /\ sig' = Sig("acted") /\ UNCHANGED world
Throw == Word("throw") /\ InAction /\ world' = Err(world) /\ sig' = Sig("fail") /\ UNCHANGED frames

(* catch: in the code that runs. *)
Catch ==
  /\ sig.k = "fail" /\ InAction /\ Running /\ world.err /\ "catch" \in words /\ steps > 0
  /\ world' = [world EXCEPT !.err = FALSE] /\ sig' = Sig("run") /\ steps' = steps - 1
  /\ UNCHANGED <<frames, words>>

FailOut == Step("fail", "act") /\ frames' = Below /\ UNCHANGED <<world, sig>>

GetVar(x) == Native("$" \o x, <<>>, LAMBDA w, a : Done(PushCopy(w, w.vars[x])))
PutVar(x) == Native("let " \o x, <<"any">>, LAMBDA w, a : Done(Copy([Drop(w, w.vars[x]) EXCEPT !.vars[x] = a[1]], a[1])))
Literals ==
  "0" :> Num(0) @@ "1" :> Num(1) @@ "2" :> Num(2) @@ "3" :> Num(3) @@
  "#t" :> Bool(TRUE) @@ "#f" :> Bool(FALSE) @@ "#nil" :> NilBox @@
  "sym x" :> Box("sym", 1) @@ "sym y" :> Box("sym", 2)
Literal(x) == Word(x) /\ world' = Push(world, Literals[x]) /\ sig' = sig /\ UNCHANGED frames
PushAct == Word("act") /\ world' = Push(world, Box("act", 0)) /\ sig' = sig /\ UNCHANGED frames

NewStack == Native("Stack new", <<>>, LAMBDA w, a : Done(PushNew(w, StackObj, "stack", <<"opt">>)))
NewRef == Native("Ref new", <<>>, LAMBDA w, a : Done(PushNew(w, RefObj(NilBox), "ref", <<"opt">>)))
NewTable == Native("Table new", <<>>, LAMBDA w, a : Done(PushNew(w, TableObj, "table", <<"cmp", "opt">>)))
NewRec == Native("Rec new", <<>>, LAMBDA w, a : Done(PushNew(w, RecObj, "rec", <<>>)))

----------------------------------------------------------------------------
(* The operand stack. *)

Zap == Native("_", <<"opt">>, LAMBDA w, a : Done(w))
CopyTop == Native("%", <<"opt">>, LAMBDA w, a : Done(PushCopy(PushCopy(w, a[1]), a[1])))

(* The clone of a value that holds itself never ends. *)
CloneTop ==
  /\ Running /\ "%%" \in words /\ Depth(world) > 0 /\ ~Cyclic(world, Top(world))
  /\ Native("%%", <<"opt">>, LAMBDA w, a : LET c == Clone(PushCopy(w, a[1]), a[1]) IN Done(Push(c.w, c.b)))

Swap == Native("~", <<"opt", "opt">>, LAMBDA w, a : Done(PushCopy(PushCopy(w, a[2]), a[1])))
Reset == Native("|", <<>>, LAMBDA w, a : Done(PopArgs(DropAll(w, Items(w.st)), Depth(w))))

SuperOf(bs) == IF bs = <<>> THEN "opt" ELSE FoldLeft(LAMBDA t, b : Super(t, b.t), bs[1].t, bs)

(* cx_stash: the stack moves as it is, and with it what it refers to. *)
Stash ==
  Native("stash", <<>>, LAMBDA w, a :
    LET r == New([w EXCEPT !.st = EmptyVec], [StackObj EXCEPT !.vec = w.st])
    IN Done(Push(r.w, Typed("stack", <<SuperOf(Items(w.st))>>, r.v))))

----------------------------------------------------------------------------
(* Stacks. *)

Vec(w, b) == w.heap[b.v].vec
WithVec(w, b, r) == [r.w EXCEPT !.heap[b.v].vec = r.vec]
StackPush(w, b, v) == WithVec(w, b, VecPush(w, Vec(w, b), v))
At(w, b, i) == Vec(w, b).slots[i + 1]

LenOf == Native("len", <<"stack">>, LAMBDA w, a : Done(Push(w, Num(Vec(w, a[1]).count))))
PushTo == Native("push", <<"stack", "elem">>, LAMBDA w, a : Done(StackPush(Copy(w, a[2]), a[1], a[2])))

PopFrom ==
  Native("pop", <<"stack">>, LAMBDA w, a :
    LET n == Vec(w, a[1]).count
    IN IF n = 0 THEN Done(Push(w, NilBox))
       ELSE Done([Push(w, At(w, a[1], n - 1)) EXCEPT !.heap[a[1].v].vec.count = n - 1]))

(* get: an index below zero is not refused. *)
GetAt ==
  Native("get", <<"stack", "int">>, LAMBDA w, a :
    IF a[2].v >= Vec(w, a[1]).count THEN Done(Push(w, NilBox))
    ELSE IF a[2].v < 0 THEN Done(Broken(w))
    ELSE Done(PushCopy(w, At(w, a[1], a[2].v))))

LastOf ==
  Native("last", <<"stack">>, LAMBDA w, a :
    LET n == Vec(w, a[1]).count
    IN Done(IF n = 0 THEN Push(w, NilBox) ELSE PushCopy(w, At(w, a[1], n - 1))))

GetRand ==
  /\ Running /\ Depth(world) > 0 /\ Top(world).t = "stack"
  /\ \E i \in 0 .. Max({0, Vec(world, Top(world)).count - 1}) :
       Native("get-rand", <<"stack">>, LAMBDA w, a :
         Done(IF Vec(w, a[1]).count = 0 THEN Push(w, NilBox) ELSE PushCopy(w, At(w, a[1], i))))

(* Mutant: the new item is stored without a reference. *)
PutAtMoved ==
  Native("put", <<"stack", "int", "elem">>, LAMBDA w, a :
    IF a[2].v \notin 0 .. Vec(w, a[1]).count - 1 THEN Refuse(w)
    ELSE Done([Drop(w, At(w, a[1], a[2].v)) EXCEPT !.heap[a[1].v].vec.slots[a[2].v + 1] = a[3]]))

PutAt ==
  Native("put", <<"stack", "int", "elem">>, LAMBDA w, a :
    IF a[2].v \notin 0 .. Vec(w, a[1]).count - 1 THEN Refuse(w)
    ELSE Done(Copy([Drop(w, At(w, a[1], a[2].v)) EXCEPT !.heap[a[1].v].vec.slots[a[2].v + 1] = a[3]], a[3])))

(* clear forgets the items. *)
Clear ==
  Native("clear", <<"stack">>, LAMBDA w, a :
    Done([FoldLeft(Forget, w, Items(Vec(w, a[1]))) EXCEPT !.heap[a[1].v].vec.count = 0]))

(* Moved(vec, start, len, delta): the items are moved over others, which   *)
(* are released, and leave nil where they were.                            *)
MoveReleases(vec, start, len, delta) ==
  IF delta > 0 THEN SubSeq(vec.slots, start + len + 1, Min({vec.count, start + len + delta}))
  ELSE SubSeq(vec.slots, start + delta + 1, start)

Moved(vec, start, len, delta) ==
  LET n == IF delta > 0 THEN Max({vec.count, start + len + delta}) ELSE vec.count
      gap == IF delta > 0 THEN start .. start + delta - 1 ELSE start + len + delta .. start + len - 1
  IN [i \in 1 .. n |->
        IF i - 1 \in gap THEN NilBox
        ELSE IF i - 1 - delta \in start .. start + len - 1 THEN vec.slots[i - delta]
        ELSE vec.slots[i]]

Move ==
  Native("move", <<"stack", "int", "int", "int">>, LAMBDA w, a :
    LET vec == Vec(w, a[1])
        start == a[2].v
        len == a[3].v
        delta == a[4].v
        r == Grow(w, vec, IF delta > 0 THEN start + len + delta ELSE 0)
        slots == Moved(vec, start, len, delta)
    IN IF start + delta < 0 \/ start + len > vec.count THEN Refuse(w)
       ELSE IF start < 0 \/ len < 0 THEN Done(Broken(w))
       ELSE Done(DropAll([r.w EXCEPT !.heap[a[1].v].vec = [r.vec EXCEPT !.slots = slots, !.count = Len(slots)]],
                         MoveReleases(vec, start, len, delta))))

(* Mutant: it starts after the last item. *)
RiterPast ==
  Native("riter", <<"stack">>, LAMBDA w, a :
    Done(PushNew(Copy(w, a[1]), IterObj("stack", a[1], NilBox, Vec(w, a[1]).count, -1, -1), "iter", a[1].e)))

(* riter starts at the last item and goes down to before the first. *)
Riter ==
  Native("riter", <<"stack">>, LAMBDA w, a :
    Done(PushNew(Copy(w, a[1]), IterObj("stack", a[1], NilBox, Vec(w, a[1]).count - 1, -1, -1), "iter", a[1].e)))

PutCall ==
  Enter("put-call", <<"stack", "int", "any">>, LAMBDA w, a :
    LET g == Frame("put-call", a, <<>>)
    IN IF a[2].v \notin 0 .. Vec(w, a[1]).count - 1
       THEN /\ world' = DropAll(Err(w), a) /\ sig' = Sig("fail") /\ UNCHANGED frames
       ELSE CallAct(PushCopy(w, At(w, a[1], a[2].v)), Append(frames, g), a[3]))

(* The index was checked before the action ran; the item is looked up now. *)
PutCallActed ==
  LET st == f.args[1]
      i == f.args[2].v
      vec == Vec(world, st)
      w == Pop(world)
  IN /\ Step("acted", "put-call")
     /\ IF Depth(world) = 0 THEN Leave(Err(world), <<>>, FALSE)
        ELSE IF ~HasSlot(vec, i) THEN Leave(Broken(w), <<>>, TRUE)
        ELSE Leave([Drop(w, At(w, st, i)) EXCEPT !.heap[st.v].vec.slots[i + 1] = Top(world),
                                                 !.stale = @ \/ i >= vec.count], <<>>, TRUE)

(* The actions of these functions failed: nothing to release but args. *)
CallFailed ==
  \E op \in {"put-call", "table-put-call", "rec-put-call", "set-call", "repeat"} :
    Step("fail", op) /\ Leave(world, <<>>, FALSE)

Repeat ==
  Enter("repeat", <<"stack", "int", "opt">>, LAMBDA w, a :
    LET n == a[2].v
        g == [Frame("repeat", a, <<>>) EXCEPT !.n = n]
    IN IF n <= 0
       THEN /\ world' = DropAll(IF n < 0 THEN Broken(w) ELSE w, a)
            /\ sig' = sig /\ UNCHANGED frames
       ELSE CallAct(WithVec(w, a[1], Grow(w, Vec(w, a[1]), Vec(w, a[1]).count + n)), Append(frames, g), a[3]))

RepeatActed ==
  /\ Step("acted", "repeat")
  /\ LET w == StackPush(Pop(world), f.args[1], Top(world))
     IN IF Depth(world) = 0 THEN Leave(Err(world), <<>>, FALSE)
        ELSE IF f.n = 1 THEN Leave(w, <<>>, TRUE)
        ELSE CallAct(w, Append(Below, [f EXCEPT !.n = @ - 1]), f.args[3])

(* qsort: it copies the items while it asks for comparisons, and puts them *)
(* back in some order; which comparisons it makes is left open.            *)
Rearranged(bs) ==
  {[i \in 1 .. Len(bs) |-> bs[p[i]]] : p \in {q \in [1 .. Len(bs) -> 1 .. Len(bs)] : IsInjective(q)}}

(* With #nil for cmp: by their type's cmp.  Items of different types are   *)
(* an error, and are left in any order.                                    *)
SortPlain ==
  /\ Running /\ "sort" \in words /\ Depth(world) > 1 /\ Args(2)[1].t = "stack" /\ Args(2)[2].t = "nil"
  /\ LET bs == Items(Vec(world, Args(2)[1]))
         Alike(x, y) == IsA(x.t, y.t) \/ IsA(y.t, x.t)
         pairs == {<<x, y>> \in Range(bs) \X Range(bs) : x # y}
     IN \E cs \in Rearranged(bs) :
          /\ (\A p \in pairs : Alike(p[1], p[2]) /\ Cmp(world, p[1], p[2]) # 2)
                => \A i, j \in 1 .. Len(cs) : i < j => Cmp(world, cs[i], cs[j]) # 1
          /\ Native("sort", <<"stack", "opt">>, LAMBDA w, a :
               LET v == [w EXCEPT !.heap[a[1].v].vec.slots = cs \o SubSeq(@, Len(cs) + 1, Len(@))]
               IN IF \E p \in pairs : ~Alike(p[1], p[2]) THEN Done(Err(v))
                  ELSE IF \E p \in pairs : Cmp(world, p[1], p[2]) = 2 THEN Done(Abort(v))
                  ELSE Done(v))

Compare(w, fs, st, act) ==
  \E i, j \in 1 .. Len(st) : i # j /\ CallAct(PushCopy(PushCopy(w, st[i]), st[j]), fs, act)

SortBy ==
  Enter("sort", <<"stack", "any">>, LAMBDA w, a :
    LET bs == Items(Vec(w, a[1]))
        g == [Frame("sort", a, <<>>) EXCEPT !.n = 1, !.e = Vec(w, a[1])]
    IN IF Len(bs) < 2 THEN world' = DropAll(w, a) /\ sig' = sig /\ UNCHANGED frames
       ELSE Compare(w, Append(frames, g), bs, a[2]))

(* A comparison that fails counts as equal, and the sort goes on.          *)
Sorted(w) ==
  LET st == f.args[1].v
      bs == Items(f.e)
      vec == w.heap[st].vec
  IN \E cs \in Rearranged(bs) :
       Leave([w EXCEPT !.heap[st].vec.slots = cs \o SubSeq(@, Len(cs) + 1, Len(@)),
                       !.stale = @ \/ vec # f.e,
                       !.broken = @ \/ vec.capac # f.e.capac], <<>>, TRUE)

SortActed ==
  /\ sig.k \in {"acted", "fail"} /\ Step(sig.k, "sort")
  /\ LET bs == Items(f.e)
         v == Top(world)
         w == IF sig.k = "fail" THEN world
              ELSE IF Depth(world) = 0 THEN Err(world)
              ELSE IF v.t # "sym" THEN Drop(Err(Pop(world)), v)
              ELSE Pop(world)
     IN \/ f.n >= Len(bs) - 1 /\ Sorted(w)
        \/ f.n < (Len(bs) * (Len(bs) - 1)) \div 2 /\ Compare(w, Append(Below, [f EXCEPT !.n = @ + 1]), bs, f.args[2])

----------------------------------------------------------------------------
(* References and pairs. *)

RefTo == Native("ref", <<"opt">>, LAMBDA w, a :
  Done(PushNew(Copy(w, a[1]), RefObj(a[1]), "ref", <<IF a[1].t = "nil" THEN "opt" ELSE a[1].t>>)))
Deref == Native("deref", <<"ref">>, LAMBDA w, a : Done(PushCopy(w, Object(w, a[1]).val)))
SetRef == Native("set", <<"ref", "elem">>, LAMBDA w, a :
  Done(Copy([Drop(w, Object(w, a[1]).val) EXCEPT !.heap[a[1].v].val = a[2]], a[2])))

SetCall ==
  Enter("set-call", <<"ref", "any">>, LAMBDA w, a :
    CallAct(PushCopy(w, Object(w, a[1]).val), Append(frames, Frame("set-call", a, <<>>)), a[2]))

(* Nothing on the stack is an error and still a success. *)
SetCallActed ==
  /\ Step("acted", "set-call")
  /\ IF Depth(world) = 0 THEN Leave(Err(world), <<>>, TRUE)
     ELSE Leave([Drop(Pop(world), Object(world, f.args[1]).val) EXCEPT !.heap[f.args[1].v].val = Top(world)], <<>>, TRUE)

ElemOf(b) == IF b.t = "nil" THEN "opt" ELSE b.t
Pair == Native(",", <<"opt", "opt">>, LAMBDA w, a :
  Done(PushNew(CopyAll(w, a), PairObj(a[1], a[2]), "pair", <<ElemOf(a[1]), ElemOf(a[2])>>)))
Unzip == Native("..", <<"pair">>, LAMBDA w, a : Done(PushCopy(PushCopy(w, Object(w, a[1]).x), Object(w, a[1]).y)))
PairA == Native("a", <<"pair">>, LAMBDA w, a : Done(PushCopy(w, Object(w, a[1]).x)))
PairB == Native("b", <<"pair">>, LAMBDA w, a : Done(PushCopy(w, Object(w, a[1]).y)))

(* rezip changes the pair itself; what comes back is the same pair, with   *)
(* the arguments of its type the other way round.                          *)
Rezip == Native("rezip", <<"pair">>, LAMBDA w, a :
  LET p == Object(w, a[1])
      v == [w EXCEPT !.heap[a[1].v].x = p.y, !.heap[a[1].v].y = p.x]
  IN Done(Push(Copy(v, a[1]), [a[1] EXCEPT !.e = Reverse(@)])))

----------------------------------------------------------------------------
(* Tables. *)

TblGet == Native("get", <<"table", "elem">>, LAMBDA w, a :
  IF KeyFits(w, a[1].v, a[2]) THEN Done(PushCopy(w, TableGet(w, a[1].v, a[2]))) ELSE Refuse(w))
TblPut == Native("put", <<"table", "elem", "val">>, LAMBDA w, a :
  IF KeyFits(w, a[1].v, a[2]) THEN Done(TablePut(w, a[1].v, a[2], a[3])) ELSE Refuse(w))
TblDelete == Native("delete", <<"table", "elem">>, LAMBDA w, a :
  IF KeyFits(w, a[1].v, a[2]) THEN Done(TableDelete(w, a[1].v, a[2])) ELSE Refuse(w))
TblLen == Native("len", <<"table">>, LAMBDA w, a : Done(Push(w, Num(Len(Object(w, a[1]).entries)))))

TblPutCall ==
  Enter("put-call", <<"table", "elem", "any">>, LAMBDA w, a :
    IF ~KeyFits(w, a[1].v, a[2])
    THEN /\ world' = DropAll(Err(w), a) /\ sig' = Sig("fail") /\ UNCHANGED frames
    ELSE CallAct(PushCopy(w, TableGet(w, a[1].v, a[2])), Append(frames, Frame("table-put-call", a, <<>>)), a[3]))

(* cx_table_put copies the value that was popped, which nothing releases.  *)
TblPutCallActed ==
  /\ Step("acted", "table-put-call")
  /\ IF Depth(world) = 0 THEN Leave(Err(world), <<>>, FALSE)
     ELSE Leave(Forget(TablePut(Pop(world), f.args[1].v, f.args[2], Top(world)), Top(world)), <<>>, TRUE)

----------------------------------------------------------------------------
(* Records. *)

HasField(id) == id \in DOMAIN Fields
FieldFits(id, b) == b.t = "nil" \/ IsA(b.t, Fields[id])

RecGet == Native("get", <<"rec", "sym">>, LAMBDA w, a :
  IF HasField(a[2].v) THEN Done(PushCopy(w, FieldGet(w, a[1].v, a[2].v))) ELSE Refuse(w))
RecPut == Native("put", <<"rec", "sym", "opt">>, LAMBDA w, a :
  IF HasField(a[2].v) /\ FieldFits(a[2].v, a[3]) THEN Done(Copy(FieldPut(w, a[1].v, a[2].v, a[3]), a[3]))
  ELSE Refuse(w))

RecPutCall ==
  Enter("put-call", <<"rec", "sym", "any">>, LAMBDA w, a :
    IF ~HasField(a[2].v)
    THEN /\ world' = DropAll(Err(w), a) /\ sig' = Sig("fail") /\ UNCHANGED frames
    ELSE CallAct(PushCopy(w, FieldGet(w, a[1].v, a[2].v)), Append(frames, Frame("rec-put-call", a, <<>>)), a[3]))

RecPutCallActed ==
  LET v == Top(world)
      w == Pop(world)
  IN /\ Step("acted", "rec-put-call")
     /\ IF Depth(world) = 0 THEN Leave(Err(world), <<>>, FALSE)
        ELSE IF FieldFits(f.args[2].v, v) THEN Leave(FieldPut(w, f.args[1].v, f.args[2].v, v), <<>>, TRUE)
        ELSE Leave(Drop(Err(w), v), <<>>, FALSE)
=============================================================================
