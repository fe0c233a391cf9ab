-------------------------------- MODULE Iters --------------------------------
(***************************************************************************)
(* The functions on sequences: lib/iter.c, those of lib/stack.c,           *)
(* lib/table.c and lib/rec.c that take a sequence, and the iterators of    *)
(* stack.c, table.c, int.c, lib/iter.c and call_iter.c; and the program    *)
(* as a whole.                                                             *)
(*                                                                         *)
(* What next of an iterator answers is an item, which then belongs to who  *)
(* asked, or the end.  An iterator that calls an action fails by ending,   *)
(* with an error pending; who asked takes it for the end.                  *)
(***************************************************************************)
EXTENDS Streams

(* cx_iter_next, for the iterators that have their values at hand. *)
NextDone ==
  /\ sig.k = "next" /\ Running /\ world.heap[Asked].done
  /\ sig' = Sig("end") /\ UNCHANGED <<world, frames, words, steps>>

(* The end of a stack is where it was when the iterator was made. *)
StackNext ==
  /\ Asks("stack")
  /\ LET it == world.heap[Asked]
         vec == Vec(world, it.src)
     IN IF it.i = it.end THEN End(world)
        ELSE IF ~HasSlot(vec, it.i) THEN Answer(Broken(world), NilBox)
        ELSE Answer(Copy([world EXCEPT !.heap[Asked].i = @ + it.delta,
                                       !.stale = @ \/ it.i >= vec.count], vec.slots[it.i + 1]),
                    vec.slots[it.i + 1])

(* The end of a table is where it is now. *)
TableNext ==
  /\ Asks("table")
  /\ LET it == world.heap[Asked]
         es == Object(world, it.src).entries
         e == es[it.i + 1]
         r == New(CopyAll([world EXCEPT !.heap[Asked].i = @ + 1], <<e.key, e.val>>), PairObj(e.key, e.val))
     IN IF it.i >= Len(es) THEN End(world) ELSE Answer(r.w, Typed("pair", <<"opt", "opt">>, r.v))

IntNext ==
  /\ Asks("int")
  /\ LET it == world.heap[Asked]
     IN IF it.i >= it.end THEN End(world)
        ELSE Answer([world EXCEPT !.heap[Asked].i = @ + 1], Num(it.i))

(* A call that fails is not noticed, and may be answered by what is on the *)
(* stack for ever: each counts as a step.                                  *)
CallNext ==
  LET it == world.heap[Asked]
  IN /\ sig.k = "next" /\ Running /\ it.kind = "call" /\ ~it.done /\ steps > 0
     /\ CallAct(world, Append(frames, IterFrame("call", Asked)), it.act)
     /\ steps' = steps - 1 /\ UNCHANGED words

(* map_next and filter_next start by asking. *)
MapNext ==
  \E op \in {"map", "filter"} :
    /\ Asks(op) /\ sig' = NextOf(world.heap[Asked].src)
    /\ frames' = Append(frames, IterFrame(op, Asked)) /\ UNCHANGED world


It == world.heap[f.at]

MapItem == Step("item", "map") /\ CallAct(Push(world, sig.v), frames, It.act)
MapEnd == Step("end", "map") /\ Yield(Ended(world, f.at), Sig("end"))
MapFailed == Step("fail", "map") /\ Yield(world, Sig("end"))
MapActed ==
  /\ Step("acted", "map")
  /\ IF Depth(world) = 0 THEN Yield(Err(world), Sig("end")) ELSE Yield(Pop(world), Item(Top(world)))

FilterItem ==
  /\ Step("item", "filter")
  /\ CallAct(PushCopy(world, sig.v), Append(Below, [f EXCEPT !.locals = <<sig.v>>]), It.act)
FilterEnd ==
  /\ Step("end", "filter")
  /\ Yield([world EXCEPT !.heap[f.at].done = world.heap[It.src.v].done], Sig("end"))

(* Whether the action failed is not looked at. *)
FilterActed ==
  /\ sig.k \in {"acted", "fail"} /\ Step(sig.k, "filter")
  /\ LET ov == Top(world)
         w == Pop(world)
     IN IF Depth(world) = 0 THEN Yield(Drop(Err(world), f.locals[1]), Sig("end"))
        ELSE IF ov.t # "bool" THEN Yield(Forget(Drop(Err(w), f.locals[1]), ov), Sig("end"))
        ELSE IF ov.v = 1 THEN Yield(w, Item(f.locals[1]))
        ELSE /\ world' = Drop(w, f.locals[1]) /\ sig' = NextOf(It.src)
             /\ frames' = Append(Below, [f EXCEPT !.locals = <<>>])

CallActed ==
  /\ sig.k \in {"acted", "fail"} /\ Step(sig.k, "call")
  /\ IF Depth(world) = 0 THEN Yield(Err(world), Sig("end"))
     ELSE IF Top(world).t = "nil" THEN Yield(Ended(Pop(world), f.at), Sig("end"))
     ELSE Yield(Pop(world), Item(Top(world)))

----------------------------------------------------------------------------
(* The functions that iterate.  locals[1] is the iterator. *)

NewIter == Native("iter", <<"seq">>, LAMBDA w, a : LET i == IterOf(w, a[1]) IN Done(Push(i.w, i.it)))
IsDone == Native("is-done", <<"iter">>, LAMBDA w, a : Done(Push(w, Bool(Object(w, a[1]).done))))

Lazy(x) ==
  Native(x, <<"seq", "any">>, LAMBDA w, a :
    LET i == IterOf(w, a[1])
    IN Done(PushNew(Copy(i.w, a[2]), IterObj(x, i.it, a[2], 0, 0, 1), "iter", <<"opt">>)))
MapOver == Lazy("map")
FilterBy == Lazy("filter")

Loop(x, op, kinds, Locals(_, _)) ==
  Enter(x, kinds, LAMBDA w, a :
    LET i == IterOf(w, a[1])
        r == Locals(i.w, i.it)
    IN Iterate(r.w, Frame(op, a, r.locals)))
Only(w, it) == [w |-> w, locals |-> <<it>>]
WithOut(w, it, obj, b) == LET r == New(w, obj) IN [w |-> r.w, locals |-> <<it, [b EXCEPT !.v = r.v]>>]

For == Loop("for", "for", <<"seq", "any">>, Only)
ForItem == Step("item", "for") /\ CallAct(Push(world, sig.v), frames, f.args[2])
ForActed == Step("acted", "for") /\ Ask(world, f.locals[1])
ForEnd == (\E k \in {"end", "fail"} : Step(k, "for")) /\ Leave(world, f.locals, sig.k = "end")

Splat == Loop("..", "..", <<"seq">>, Only)
SplatItem == Step("item", "..") /\ Ask(Push(world, sig.v), f.locals[1])
SplatEnd == Step("end", "..") /\ Leave(world, f.locals, TRUE)

StackOf == Loop("stack", "stack", <<"seq">>, LAMBDA w, it : WithOut(w, it, StackObj, Typed("stack", <<"opt">>, 0)))
StackItem ==
  /\ Step("item", "stack")
  /\ AskAs(StackPush(world, f.locals[2], sig.v),
           [f EXCEPT !.e = IF @ = "none" THEN sig.v.t ELSE Super(@, sig.v.t)])
StackEnd ==
  /\ Step("end", "stack")
  /\ Leave(Push(world, IF f.e = "none" THEN f.locals[2] ELSE [f.locals[2] EXCEPT !.e = <<f.e>>]),
           <<f.locals[1]>>, TRUE)

(* An item of another type is not released. *)
StackInto == Loop("->", "->stack", <<"seq", "stack">>, Only)
StackIntoItem ==
  /\ Step("item", "->stack")
  /\ IF IsA(sig.v.t, f.args[2].e[1]) THEN Ask(StackPush(world, f.args[2], sig.v), f.locals[1])
     ELSE Leave(Err(Forget(world, sig.v)), f.locals, FALSE)

TableOf == Loop("table", "table", <<"pairs">>, LAMBDA w, it : WithOut(w, it, TableObj, Typed("table", <<"cmp", "opt">>, 0)))
TableItem ==
  LET p == Object(world, sig.v)
      out == f.locals[2]
  IN /\ Step("item", "table")
     /\ IF sig.v.t # "pair" THEN Leave(Broken(world), f.locals, FALSE)
        ELSE IF ~KeyFits(world, out.v, p.x) THEN Leave(Err(Forget(world, sig.v)), Reverse(f.locals), FALSE)
        ELSE Ask(Drop(TablePut(world, out.v, p.x, p.y), sig.v), f.locals[1])

TableEnd == Step("end", "table") /\ Leave(Push(world, f.locals[2]), <<f.locals[1]>>, TRUE)

TableInto == Loop("->", "->table", <<"pairs", "table">>, Only)
TableIntoItem ==
  LET p == Object(world, sig.v)
      out == f.args[2]
  IN /\ Step("item", "->table")
     /\ IF sig.v.t # "pair" THEN Leave(Broken(world), f.locals, FALSE)
        ELSE IF ~IsA(p.x.t, out.e[1]) \/ ~IsA(p.y.t, out.e[2]) THEN Leave(Err(Forget(world, sig.v)), f.locals, FALSE)
        ELSE Ask(Drop(TablePut(world, out.v, p.x, p.y), sig.v), f.locals[1])

RecInto == Loop("->", "->rec", <<"pairs", "rec">>, Only)
RecIntoItem ==
  LET p == Object(world, sig.v)
      Fit == p.x.t = "sym" /\ HasField(p.x.v) /\ IsA(p.y.t, Fields[p.x.v])
  IN /\ Step("item", "->rec")
     /\ IF sig.v.t # "pair" THEN Leave(Broken(world), f.locals, FALSE)
        ELSE IF ~Fit THEN Leave(Err(Forget(world, sig.v)), f.locals, FALSE)
        ELSE Ask(Drop(Copy(FieldPut(world, f.args[2].v, p.x.v, p.y), p.y), sig.v), f.locals[1])

IntoEnd ==
  \E op \in {"->stack", "->table", "->rec"} :
    Step("end", op) /\ Leave(PushCopy(world, f.args[2]), f.locals, TRUE)

(* next and drop use the iterator that the argument holds. *)
Using(x, kinds, n(_)) ==
  Enter(x, kinds, LAMBDA w, a :
    IF n(a) > 0
    THEN world' = w /\ frames' = Append(frames, [Frame(x, a, <<>>) EXCEPT !.n = n(a)]) /\ sig' = NextOf(a[1])
    ELSE world' = DropAll(w, a) /\ sig' = sig /\ UNCHANGED frames)

NextIn == Using("next", <<"iter">>, LAMBDA a : 1)
NextItem == Step("item", "next") /\ Leave(Push(world, sig.v), <<>>, TRUE)
NextEnd == Step("end", "next") /\ Leave(Push(world, NilBox), <<>>, TRUE)

DropIn == Using("drop", <<"iter", "int">>, LAMBDA a : a[2].v)
DropItem ==
  /\ Step("item", "drop")
  /\ IF f.n = 1 THEN Leave(Drop(world, sig.v), <<>>, TRUE)
     ELSE /\ world' = Drop(world, sig.v) /\ frames' = Append(Below, [f EXCEPT !.n = @ - 1])
          /\ sig' = NextOf(f.args[1])
DropEnd == Step("end", "drop") /\ Leave(Err(world), <<>>, FALSE)

FindIf == Loop("find-if", "find-if", <<"seq", "any">>, Only)
FindItem ==
  /\ Step("item", "find-if")
  /\ CallAct(PushCopy(world, sig.v), Append(Below, [f EXCEPT !.locals = Append(@, sig.v)]), f.args[2])
FindActed ==
  LET it == f.locals[1]
      v == f.locals[2]
      w == Drop(Pop(world), Top(world))
  IN /\ Step("acted", "find-if")
     /\ IF Depth(world) = 0 THEN Leave(Err(Forget(world, v)), <<it>>, FALSE)
        ELSE IF IsOk(world, Top(world)) THEN Leave(Push(w, v), <<it>>, TRUE)
        ELSE AskAs(Drop(w, v), [f EXCEPT !.locals = <<it>>])
FindFailed == Step("fail", "find-if") /\ Leave(Forget(world, f.locals[2]), <<f.locals[1]>>, FALSE)

(* Nothing found: #nil is pushed, and the call fails. *)
FindEnd == Step("end", "find-if") /\ Leave(Push(world, NilBox), f.locals, FALSE)

----------------------------------------------------------------------------
(* The program. *)

Init ==
  \E p \in Programs :
    /\ world = p.world /\ words = p.words
    /\ frames = <<>> /\ sig = Sig("run") /\ steps = p.steps

Program ==
  \/ Return \/ Throw \/ Catch \/ FailOut \/ PushAct
  \/ \E x \in DOMAIN world.vars : GetVar(x) \/ PutVar(x)
  \/ \E x \in DOMAIN Literals : Literal(x)
  \/ NewStack \/ NewRef \/ NewTable \/ NewRec
  \/ Zap \/ CopyTop \/ CloneTop \/ Swap \/ Reset \/ Stash

Stacks ==
  \/ LenOf \/ PushTo \/ PopFrom \/ GetAt \/ LastOf \/ GetRand \/ PutAt \/ Clear \/ Move \/ Riter
  \/ PutCall \/ PutCallActed \/ CallFailed \/ Repeat \/ RepeatActed
  \/ SortPlain \/ SortBy \/ SortActed

Refs == RefTo \/ Deref \/ SetRef \/ SetCall \/ SetCallActed
Pairs == Pair \/ Unzip \/ PairA \/ PairB \/ Rezip
Tables == TblGet \/ TblPut \/ TblDelete \/ TblLen \/ TblPutCall \/ TblPutCallActed
Records == RecGet \/ RecPut \/ RecPutCall \/ RecPutCallActed

Iterators ==
  \/ NextDone \/ StackNext \/ TableNext \/ IntNext \/ MapNext \/ CallNext
  \/ MapItem \/ MapEnd \/ MapFailed \/ MapActed
  \/ FilterItem \/ FilterEnd \/ FilterActed \/ CallActed
  \/ NewIter \/ IsDone \/ MapOver \/ FilterBy

Loops ==
  \/ For \/ ForItem \/ ForActed \/ ForEnd \/ Splat \/ SplatItem \/ SplatEnd
  \/ StackOf \/ StackItem \/ StackEnd \/ StackInto \/ StackIntoItem \/ IntoEnd
  \/ TableOf \/ TableItem \/ TableEnd \/ TableInto \/ TableIntoItem
  \/ RecInto \/ RecIntoItem
  \/ NextIn \/ NextItem \/ NextEnd \/ DropIn \/ DropItem \/ DropEnd
  \/ FindIf \/ FindItem \/ FindActed \/ FindFailed \/ FindEnd

Next ==
  \/ Program \/ Stacks \/ Refs \/ Pairs \/ Tables \/ Records \/ Iterators \/ Loops
  \/ IoWords \/ BufWords \/ ProcWords

Spec == Init /\ [][Next]_vars

----------------------------------------------------------------------------
(* Properties. *)

(* What holds a reference: the operand stack, the variables, the calls in  *)
(* progress, the other objects, and a value on its way to who asked.       *)
BoxesOf(w, fs, s) ==
  Items(w.st)
  \o LET names == SetToSeq(DOMAIN w.vars) IN [i \in 1 .. Len(names) |-> w.vars[names[i]]]
  \o FlattenSeq([i \in 1 .. Len(fs) |-> fs[i].args \o fs[i].locals])
  \o FlattenSeq([a \in 1 .. Cardinality(Addr) |-> Parts(w.heap[a])])
  \o IF s.k = "item" THEN <<s.v>> ELSE <<>>

(* Every object counts exactly those who hold it and the references that   *)
(* the code forgets, whatever is called from within a function that has    *)
(* not returned and however it fails: nothing in use is freed, and nothing *)
(* else is kept.                                                           *)
CountsExact ==
  Sound =>
    LET bs == BoxesOf(world, frames, sig)
    IN \A a \in Addr :
         LET held == Cardinality({i \in 1 .. Len(bs) : Points(bs[i]) /\ bs[i].v = a})
         IN IF Alive(world, a) THEN world.heap[a].n = held + world.lost[a] ELSE held = 0

(* No slot is used that no item was ever stored in, nothing is released    *)
(* twice, and no block of items is grown twice.                            *)
NotBroken == Sound => ~world.broken

(* The blocks of the slabs are those of the vectors that are exactly as    *)
(* long: a vector that grows past it, moves to a stash, or goes with its   *)
(* stack gives its block back to where it came from.                       *)
BlocksReturned ==
  LET vecs == <<world.st>> \o FlattenSeq([a \in 1 .. Cardinality(Addr) |->
                IF world.heap[a].k = "stack" THEN <<world.heap[a].vec>> ELSE <<>>])
  IN Sound => world.slabs = Cardinality({i \in 1 .. Len(vecs) : vecs[i].capac = VecMin})

(* While an error is pending no function is called, neither by the program *)
(* nor by an action of a function that did not notice.                     *)
QuietInError == sig.k = "run" => ~world.err

(* A clone is equal to what it was made from and shares no part of it,     *)
(* except what a reference refers to.                                      *)
CloneDetached ==
  [][CloneTop =>
       LET x == world'.st.slots[Depth(world') - 1]
           y == world'.st.slots[Depth(world')]
           deep == Counted \ ({"iter", "proc"} \cup Files)
           Owned(b) == Reach(world', <<b>>, deep \ {"ref"})
       IN world'.full \/ (Eqval(world', x, y) /\ Owned(x) \cap Owned(y) = {})]_vars
=============================================================================
