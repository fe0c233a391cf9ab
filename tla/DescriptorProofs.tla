-------------------------- MODULE DescriptorProofs --------------------------
(***************************************************************************)
(* Proofs about Descriptors, for any number of objects and of descriptors: *)
(* files and processes are opened, closed, released and forked in any      *)
(* order, with every call to the system that can fail failing.             *)
(***************************************************************************)
EXTENDS Descriptors, FiniteSetTheorems, WellFoundedInduction, TLAPS

(* A number of a process, -1 if there is none, and of a file, which may be *)
(* a standard one.                                                         *)
Number == Fd \cup {-1}
Ends == {NilBox} \cup {Box("file", a) : a \in Addr \cup {0}}

FileObjs == [k : {"file"}, fd : Number \cup (0 .. 2), ptr : BOOLEAN, n : Nat]
ProcObjs == [k : {"proc"}, pid : BOOLEAN, fds : [1 .. 3 -> Number], ends : [1 .. 3 -> Ends], n : Nat]

(* Buffers are files without a descriptor; nothing else has one.           *)
BufObjs == [k : {"buf"}, fd : {-1}, ptr : BOOLEAN, n : Nat]
OtherObjs == [k : {"other"}, n : Nat]
Objs == {Free} \cup FileObjs \cup ProcObjs \cup BufObjs \cup OtherObjs

World ==
  [heap : [Addr -> Objs], fds : SUBSET Fd, leaked : SUBSET Fd,
   stale : BOOLEAN, wild : BOOLEAN, full : BOOLEAN]

(* What fork may be given. *)
Given == {NilBox} \cup {Box(t, a) : t \in Files, a \in Addr}
Args(w) ==
  {as \in [1 .. 3 -> Given] :
     \A i \in 1 .. 3 : IsFile(as[i]) => w.heap[as[i].v].k \in {"file", "buf"}}

(* The standard files are there, as many times as one likes. *)
Init ==
  /\ world \in World
  /\ \A a \in Addr : world.heap[a] = Free \/ (world.heap[a].k = "file" /\ world.heap[a].fd \in 0 .. 2)
  /\ world.fds = {} /\ world.leaked = {}
  /\ ~world.stale /\ ~world.wild /\ ~world.full

At(a, ks) == world.heap[a].k \in ks
Becomes(a, obj) == [world EXCEPT !.heap[a] = obj]

OpenFile == \E ptr \in BOOLEAN : Unused(world) # {} /\ world' = Opened(world, ptr).w
NewObject == \E o \in BufObjs \cup OtherObjs : world' = Place(world, o).w
CloseFile(a) == At(a, {"file", "buf"}) /\ world' = Closed(world, a)

(* The last reference to an object goes. *)
FileGone(a) == At(a, {"file"}) /\ world' = [FileFree(world, world.heap[a]) EXCEPT !.heap[a] = Free]
ProcGone(a) == At(a, {"proc"}) /\ world' = [ProcFree(world, world.heap[a]) EXCEPT !.heap[a] = Free]
OtherGone(a) == At(a, {"buf", "other"}) /\ world' = Becomes(a, Free)

(* What does not change who owns what: references, the pointer of a file,  *)
(* the end of a process.                                                   *)
Count(a) == ~At(a, {"free"}) /\ \E n \in Nat : world' = Becomes(a, [world.heap[a] EXCEPT !.n = n])
Use(a) == At(a, {"file", "buf"}) /\ \E ptr \in BOOLEAN : world' = Becomes(a, [world.heap[a] EXCEPT !.ptr = ptr])
Exit(a) == At(a, {"proc"}) /\ world' = Becomes(a, [world.heap[a] EXCEPT !.pid = FALSE])

KeepEnd(a, i) == At(a, {"proc"}) /\ world' = EndKept(world, a, i)

Forked(w, as, side) ==
  LET p == Piped(w, as)
  IN CASE ~p.ok -> NotPiped(p, as)
       [] p.ok /\ side = "parent" -> Place(InParent(p), ProcObj(p.near)).w
       [] p.ok /\ side = "child" -> InChild(p, as).w
       [] OTHER -> NotForked(p)

Fork == \E as \in Args(world), side \in {"parent", "child", "none"} : world' = Forked(world, as, side)

(* What was taken out of a stack is used: whatever follows.                *)
Misuse == \E w \in World : w.stale /\ world' = w

Next ==
  \/ OpenFile \/ NewObject \/ Fork \/ Misuse
  \/ \E a \in Addr :
       CloseFile(a) \/ FileGone(a) \/ ProcGone(a) \/ OtherGone(a) \/ Count(a) \/ Use(a) \/ Exit(a)
  \/ \E a \in Addr, i \in 1 .. 3 : KeepEnd(a, i)

Spec == Init /\ [][Next]_world

-----------------------------------------------------------------------------
(* The inductive invariant, also of the worlds in the middle of a step: X  *)
(* is what the step has in its hands, open and not owned yet.              *)

Claimed(w, X) == (w.fds \ w.leaked) \ X

OwnedOpen(w, X) == \A a \in Addr, i \in 0 .. 3, d \in Fd : Owns(w, a, i, d) => d \in Claimed(w, X)
OpenOwned(w, X) == \A d \in Claimed(w, X) : \E a \in Addr, i \in 0 .. 3 : Owns(w, a, i, d)
OneOwner(w) ==
  \A a, b \in Addr, i, j \in 0 .. 3, d \in Fd : Owns(w, a, i, d) /\ Owns(w, b, j, d) => a = b /\ i = j

Held(w, X) ==
  /\ w.leaked \subseteq w.fds
  /\ X \subseteq w.fds \ w.leaked
  /\ OwnedOpen(w, X)
  /\ OpenOwned(w, X)
  /\ OneOwner(w)

Good(w) == ~w.stale /\ ~w.wild /\ ~w.full
Inv == world \in World /\ (Good(world) => Held(world, {}))

-----------------------------------------------------------------------------
(* What the operators give. *)

(* The lowest number of a set is one of it.                                *)
LEMMA MinOf ==
  ASSUME NEW S \in SUBSET Nat, S # {}
  PROVE  Min(S) \in S
<1>1. PICK x \in S : \A y \in S : ~(<<y, x>> \in OpToRel(<, Nat))
  BY WFMin, NatLessThanWellFounded
<1>2. \A y \in S : ~(y < x)
  BY <1>1 DEF OpToRel
<1>3. \A y \in S : x <= y
  BY <1>2
<1>4. QED
  BY <1>3 DEF Min

(* The fields of a world, and its objects.                                 *)
LEMMA WorldFields ==
  ASSUME NEW w \in World
  PROVE  /\ w.heap \in [Addr -> Objs] /\ w.fds \in SUBSET Fd /\ w.leaked \in SUBSET Fd
         /\ w.stale \in BOOLEAN /\ w.wild \in BOOLEAN /\ w.full \in BOOLEAN
BY DEF World

(* What close(2) changes.                                                  *)
LEMMA CloseFields ==
  ASSUME NEW w \in World, NEW F
  PROVE  /\ Close(w, F) \in World
         /\ Close(w, F).heap = w.heap /\ Close(w, F).fds = w.fds \ F /\ Close(w, F).leaked = w.leaked
         /\ Close(w, F).stale = w.stale /\ Close(w, F).wild = w.wild /\ Close(w, F).full = w.full
BY DEF World, Close

(* What storing an object changes.                                         *)
LEMMA StoreFields ==
  ASSUME NEW w \in World, NEW a \in Addr, NEW obj \in Objs
  PROVE  LET v == [w EXCEPT !.heap[a] = obj]
         IN /\ v \in World
            /\ v.heap = [w.heap EXCEPT ![a] = obj] /\ v.fds = w.fds /\ v.leaked = w.leaked
            /\ v.stale = w.stale /\ v.wild = w.wild /\ v.full = w.full
BY DEF World

(* Only files and processes own.                                           *)
LEMMA OwnerKinds ==
  ASSUME NEW w \in World, NEW a \in Addr, w.heap[a].k \notin {"file", "proc"}
  PROVE  \A i, d : ~Owns(w, a, i, d)
BY DEF Owns

(* A new object is where there was none, unless there is no room.          *)
LEMMA Placed ==
  ASSUME NEW w \in World, NEW obj \in Objs
  PROVE  LET r == Place(w, obj)
         IN /\ r.w \in World
            /\ r.w.fds = w.fds /\ r.w.leaked = w.leaked /\ r.w.stale = w.stale /\ r.w.wild = w.wild
            /\ r.v \in Addr \cup {0}
            /\ ~r.w.full => /\ ~w.full /\ r.v \in Addr /\ w.heap[r.v].k = "free"
                            /\ r.w.heap = [w.heap EXCEPT ![r.v] = obj]
            /\ r.w.full => r.w.heap = w.heap \/ w.full
<1>1. CASE HasRoom(w)
  <2> DEFINE S == {a \in Addr : ~Alive(w, a)}
  <2>1. S \in SUBSET Nat /\ S # {}
    BY <1>1, AddrAssumption DEF HasRoom
  <2>2. Min(S) \in S
    BY <2>1, MinOf
  <2>3. NextAddr(w) \in Addr /\ w.heap[NextAddr(w)].k = "free"
    BY <1>1, <2>2 DEF NextAddr, Alive
  <2>4. Place(w, obj) = [w |-> [w EXCEPT !.heap[NextAddr(w)] = obj], v |-> NextAddr(w)]
    BY <1>1 DEF Place
  <2> DEFINE v == [w EXCEPT !.heap[NextAddr(w)] = obj]
  <2>5. v \in World /\ v.heap = [w.heap EXCEPT ![NextAddr(w)] = obj] /\ v.fds = w.fds
        /\ v.leaked = w.leaked /\ v.stale = w.stale /\ v.wild = w.wild /\ v.full = w.full
    BY <2>3, StoreFields
  <2>6. Place(w, obj).w = v /\ Place(w, obj).v = NextAddr(w)
    BY <2>4
  <2> HIDE DEF v
  <2>7. QED
    BY <2>3, <2>5, <2>6
<1>2. CASE ~HasRoom(w)
  <2>1. Place(w, obj) = [w |-> [w EXCEPT !.full = TRUE], v |-> 0]
    BY <1>2 DEF Place
  <2> DEFINE v == [w EXCEPT !.full = TRUE]
  <2>2. v \in World /\ v.heap = w.heap /\ v.fds = w.fds
        /\ v.leaked = w.leaked /\ v.stale = w.stale /\ v.wild = w.wild /\ v.full
    BY DEF World
  <2>3. Place(w, obj).w = v /\ Place(w, obj).v = 0
    BY <2>1
  <2> HIDE DEF v
  <2>4. QED
    BY <2>2, <2>3
<1>3. QED
  BY <1>1, <1>2

(* The objects that are made are objects.                                  *)
LEMMA NewObjs ==
  /\ \A d \in Number \cup (0 .. 2), ptr \in BOOLEAN : FileObj(d, ptr) \in FileObjs
  /\ \A fds \in [1 .. 3 -> Number] : ProcObj(fds) \in ProcObjs
<1>1. <<NilBox, NilBox, NilBox>> \in [1 .. 3 -> Ends]
  BY DEF Ends
<1>2. QED
  BY <1>1 DEF FileObj, ProcObj, FileObjs, ProcObjs

-----------------------------------------------------------------------------
(* How what is held changes. *)

(* Nobody's descriptors change, and what is open and not in hand is the    *)
(* same.                                                                   *)
LEMMA SameOwners ==
  ASSUME NEW w \in World, NEW v \in World, NEW X, NEW Y, Held(w, X),
         v.leaked \subseteq v.fds, Y \subseteq v.fds \ v.leaked, Claimed(v, Y) = Claimed(w, X),
         \A a \in Addr, i \in 0 .. 3, d \in Fd : Owns(v, a, i, d) <=> Owns(w, a, i, d)
  PROVE  Held(v, Y)
<1>1. Claimed(w, X) \subseteq Fd
  BY WorldFields DEF Claimed
<1>2. OwnedOpen(v, Y)
  BY DEF Held, OwnedOpen
<1>3. OpenOwned(v, Y)
  <2>1. ASSUME NEW d \in Claimed(v, Y) PROVE \E a \in Addr, i \in 0 .. 3 : Owns(v, a, i, d)
    <3>1. d \in Fd /\ d \in Claimed(w, X)
      BY <1>1, <2>1
    <3>2. \E a \in Addr, i \in 0 .. 3 : Owns(w, a, i, d)
      BY <3>1 DEF Held, OpenOwned
    <3>3. QED
      BY <3>1, <3>2
  <2>2. QED
    BY <2>1 DEF OpenOwned
<1>4. OneOwner(v)
  <2>1. ASSUME NEW a \in Addr, NEW b \in Addr, NEW i \in 0 .. 3, NEW j \in 0 .. 3, NEW d \in Fd,
               Owns(v, a, i, d), Owns(v, b, j, d)
        PROVE  a = b /\ i = j
    <3>1. Owns(w, a, i, d) /\ Owns(w, b, j, d)
      BY <2>1
    <3>2. QED
      BY <3>1 DEF Held, OneOwner
  <2>2. QED
    BY <2>1 DEF OneOwner
<1>5. QED
  BY <1>2, <1>3, <1>4 DEF Held

(* What is in hand can be closed; of other numbers nothing must be open.   *)
LEMMA CloseHeld ==
  ASSUME NEW w \in World, NEW X, Held(w, X), NEW F, F \cap w.fds \subseteq X
  PROVE  Held(Close(w, F), X \ F)
<1> DEFINE v == Close(w, F)
<1>1. v.heap = w.heap /\ v.fds = w.fds \ F /\ v.leaked = w.leaked
  BY CloseFields
<1> HIDE DEF v
<1>2. \A a, i, d : Owns(v, a, i, d) <=> Owns(w, a, i, d)
  BY <1>1 DEF Owns
<1>3. Claimed(v, X \ F) = Claimed(w, X)
  BY <1>1 DEF Claimed
<1>4. v.leaked \subseteq v.fds /\ X \ F \subseteq v.fds \ v.leaked
  BY <1>1 DEF Held
<1>5. v \in World
  BY CloseFields DEF v
<1>6. Held(v, X \ F)
  BY <1>2, <1>3, <1>4, <1>5, SameOwners
<1>7. QED
  BY <1>6 DEF v

(* What was not open is in hand when it has been opened.                   *)
LEMMA OpenHeld ==
  ASSUME NEW w \in World, NEW v \in World, NEW X, Held(w, X), NEW F, F \subseteq Unused(w),
         v.heap = w.heap, v.leaked = w.leaked, v.fds = w.fds \cup F
  PROVE  Held(v, X \cup F)
<1>1. \A a, i, d : Owns(v, a, i, d) <=> Owns(w, a, i, d)
  BY DEF Owns
<1>2. F \cap w.fds = {} /\ F \cap w.leaked = {}
  BY DEF Unused, Held
<1>3. Claimed(v, X \cup F) = Claimed(w, X)
  BY <1>2 DEF Claimed
<1>4. v.leaked \subseteq v.fds /\ X \cup F \subseteq v.fds \ v.leaked
  BY <1>2 DEF Held
<1>5. QED
  BY <1>1, <1>3, <1>4, SameOwners

(* What is in hand can be given up for good.                               *)
LEMMA LeakHeld ==
  ASSUME NEW w \in World, NEW v \in World, NEW X, Held(w, X),
         v.heap = w.heap, v.fds = w.fds, v.leaked = w.leaked \cup X
  PROVE  Held(v, {})
<1>1. \A a, i, d : Owns(v, a, i, d) <=> Owns(w, a, i, d)
  BY DEF Owns
<1>2. Claimed(v, {}) = Claimed(w, X)
  BY DEF Claimed
<1>3. v.leaked \subseteq v.fds
  BY DEF Held
<1>4. QED
  BY <1>1, <1>2, <1>3, SameOwners

(* An object that owned nothing can own, each by one slot, what is in hand. *)
LEMMA GivenHeld ==
  ASSUME NEW w \in World, NEW v \in World, NEW X, NEW Y, Held(w, X), Y \subseteq X, X \subseteq Fd,
         NEW a \in Addr,
         v.fds = w.fds, v.leaked = w.leaked,
         \A b \in Addr \ {a} : v.heap[b] = w.heap[b],
         \A i \in 0 .. 3, d \in Fd : ~Owns(w, a, i, d),
         \A i \in 0 .. 3, d \in Fd : Owns(v, a, i, d) => d \in Y,
         \A d \in Y : \E i \in 0 .. 3 : Owns(v, a, i, d),
         \A i, j \in 0 .. 3, d \in Fd : Owns(v, a, i, d) /\ Owns(v, a, j, d) => i = j
  PROVE  Held(v, X \ Y)
<1>1. \A b \in Addr \ {a} : \A i, d : Owns(v, b, i, d) <=> Owns(w, b, i, d)
  BY DEF Owns
<1>2. X \subseteq w.fds \ w.leaked
  BY DEF Held
<1>3. Claimed(v, X \ Y) = Claimed(w, X) \cup Y /\ Claimed(w, X) \cap Y = {}
  BY <1>2 DEF Claimed
<1>4. v.leaked \subseteq v.fds /\ X \ Y \subseteq v.fds \ v.leaked
  BY DEF Held
<1>5. OwnedOpen(v, X \ Y)
  <2>1. ASSUME NEW b \in Addr, NEW i \in 0 .. 3, NEW d \in Fd, Owns(v, b, i, d)
        PROVE  d \in Claimed(v, X \ Y)
    <3>1. CASE b = a
      BY <1>3, <2>1, <3>1
    <3>2. CASE b # a
      <4>1. Owns(w, b, i, d)
        BY <1>1, <2>1, <3>2
      <4>2. d \in Claimed(w, X)
        BY <4>1 DEF Held, OwnedOpen
      <4>3. QED
        BY <1>3, <4>2
    <3>3. QED
      BY <3>1, <3>2
  <2>2. QED
    BY <2>1 DEF OwnedOpen
<1>6. OpenOwned(v, X \ Y)
  <2>1. ASSUME NEW d \in Claimed(v, X \ Y) PROVE \E b \in Addr, i \in 0 .. 3 : Owns(v, b, i, d)
    <3>1. CASE d \in Y
      BY <3>1
    <3>2. CASE d \notin Y
      <4>1. d \in Claimed(w, X)
        BY <1>3, <2>1, <3>2
      <4>2. PICK b \in Addr, i \in 0 .. 3 : Owns(w, b, i, d)
        BY <4>1 DEF Held, OpenOwned
      <4>3. d \in Fd
        BY <4>1, WorldFields DEF Claimed
      <4>4. b # a
        BY <4>2, <4>3
      <4>5. QED
        BY <1>1, <4>2, <4>4
    <3>3. QED
      BY <3>1, <3>2
  <2>2. QED
    BY <2>1 DEF OpenOwned
<1>7. OneOwner(v)
  <2>1. ASSUME NEW b \in Addr, NEW c \in Addr, NEW i \in 0 .. 3, NEW j \in 0 .. 3, NEW d \in Fd,
               Owns(v, b, i, d), Owns(v, c, j, d)
        PROVE  b = c /\ i = j
    <3>1. CASE b = a /\ c = a
      BY <2>1, <3>1
    <3>2. CASE b # a /\ c # a
      BY <1>1, <2>1, <3>2 DEF Held, OneOwner
    <3>3. CASE b = a /\ c # a
      BY <1>1, <1>3, <2>1, <3>3 DEF Held, OwnedOpen
    <3>4. CASE b # a /\ c = a
      BY <1>1, <1>3, <2>1, <3>4 DEF Held, OwnedOpen
    <3>5. QED
      BY <3>1, <3>2, <3>3, <3>4
  <2>2. QED
    BY <2>1 DEF OneOwner
<1>8. QED
  BY <1>4, <1>5, <1>6, <1>7 DEF Held

(* What an object owned is closed when it stops owning.                    *)
LEMMA VacatedHeld ==
  ASSUME NEW w \in World, NEW v \in World, NEW X, Held(w, X), NEW a \in Addr,
         \A b \in Addr \ {a} : v.heap[b] = w.heap[b],
         \A i \in 0 .. 3, d \in Fd : ~Owns(v, a, i, d),
         v.leaked = w.leaked,
         \A d \in Fd : d \in v.fds <=> d \in w.fds /\ ~\E i \in 0 .. 3 : Owns(w, a, i, d)
  PROVE  Held(v, X)
<1>1. \A b \in Addr \ {a} : \A i, d : Owns(v, b, i, d) <=> Owns(w, b, i, d)
  BY DEF Owns
<1>2. \A d \in Fd : (\E i \in 0 .. 3 : Owns(w, a, i, d)) => d \in Claimed(w, X)
  BY DEF Held, OwnedOpen
<1>3. \A d \in Fd : d \in Claimed(v, X) <=> d \in Claimed(w, X) /\ ~\E i \in 0 .. 3 : Owns(w, a, i, d)
  BY DEF Claimed
<1>4. w.fds \subseteq Fd /\ v.fds \subseteq Fd /\ w.leaked \subseteq Fd
  BY WorldFields
<1>5. v.leaked \subseteq v.fds
  BY <1>2, <1>4 DEF Held, Claimed
<1>6. X \subseteq v.fds \ v.leaked
  BY <1>2, <1>4 DEF Held, Claimed
<1>7. OwnedOpen(v, X)
  <2>1. ASSUME NEW b \in Addr, NEW i \in 0 .. 3, NEW d \in Fd, Owns(v, b, i, d) PROVE d \in Claimed(v, X)
    <3>1. b # a /\ Owns(w, b, i, d)
      BY <1>1, <2>1
    <3>2. d \in Claimed(w, X) /\ \A j \in 0 .. 3 : ~Owns(w, a, j, d)
      BY <3>1 DEF Held, OwnedOpen, OneOwner
    <3>3. QED
      BY <1>3, <3>2
  <2>2. QED
    BY <2>1 DEF OwnedOpen
<1>8. OpenOwned(v, X)
  <2>1. ASSUME NEW d \in Claimed(v, X) PROVE \E b \in Addr, i \in 0 .. 3 : Owns(v, b, i, d)
    <3>1. d \in Fd
      BY <1>4, <2>1 DEF Claimed
    <3>2. d \in Claimed(w, X) /\ \A j \in 0 .. 3 : ~Owns(w, a, j, d)
      BY <1>3, <2>1, <3>1
    <3>3. PICK b \in Addr, i \in 0 .. 3 : Owns(w, b, i, d)
      BY <3>2 DEF Held, OpenOwned
    <3>4. QED
      BY <1>1, <3>2, <3>3
  <2>2. QED
    BY <2>1 DEF OpenOwned
<1>9. OneOwner(v)
  BY <1>1 DEF Held, OneOwner
<1>10. QED
  BY <1>5, <1>6, <1>7, <1>8, <1>9 DEF Held

(* What an object owned is in hand when it is taken from it.               *)
LEMMA TakenHeld ==
  ASSUME NEW w \in World, NEW v \in World, NEW X, NEW Y, Held(w, X), Y \subseteq Fd,
         NEW a \in Addr,
         \A b \in Addr \ {a} : v.heap[b] = w.heap[b],
         v.fds = w.fds, v.leaked = w.leaked,
         \A d \in Y : \E i \in 0 .. 3 : Owns(w, a, i, d),
         \A i \in 0 .. 3, d \in Fd : Owns(v, a, i, d) <=> Owns(w, a, i, d) /\ d \notin Y
  PROVE  Held(v, X \cup Y)
<1>1. \A b \in Addr \ {a} : \A i, d : Owns(v, b, i, d) <=> Owns(w, b, i, d)
  BY DEF Owns
<1>2. Y \subseteq Claimed(w, X)
  BY DEF Held, OwnedOpen
<1>3. Claimed(v, X \cup Y) = Claimed(w, X) \ Y
  BY DEF Claimed
<1>4. v.leaked \subseteq v.fds /\ X \cup Y \subseteq v.fds \ v.leaked
  BY <1>2 DEF Held, Claimed
<1>5. \A b \in Addr, i \in 0 .. 3, d \in Fd : Owns(v, b, i, d) => Owns(w, b, i, d) /\ d \notin Y
  <2>1. ASSUME NEW b \in Addr, NEW i \in 0 .. 3, NEW d \in Fd, Owns(v, b, i, d)
        PROVE  Owns(w, b, i, d) /\ d \notin Y
    <3>1. CASE b = a
      BY <2>1, <3>1
    <3>2. CASE b # a
      <4>1. Owns(w, b, i, d)
        BY <1>1, <2>1, <3>2
      <4>2. d \notin Y
        BY <3>2, <4>1 DEF Held, OneOwner
      <4>3. QED
        BY <4>1, <4>2
    <3>3. QED
      BY <3>1, <3>2
  <2>2. QED
    BY <2>1
<1>6. OwnedOpen(v, X \cup Y)
  BY <1>3, <1>5 DEF Held, OwnedOpen
<1>7. OpenOwned(v, X \cup Y)
  <2>1. ASSUME NEW d \in Claimed(v, X \cup Y) PROVE \E b \in Addr, i \in 0 .. 3 : Owns(v, b, i, d)
    <3>1. d \in Claimed(w, X) /\ d \notin Y
      BY <1>3, <2>1
    <3>2. d \in Fd
      BY <3>1, WorldFields DEF Claimed
    <3>3. PICK b \in Addr, i \in 0 .. 3 : Owns(w, b, i, d)
      BY <3>1 DEF Held, OpenOwned
    <3>4. CASE b = a
      BY <3>1, <3>2, <3>3, <3>4
    <3>5. CASE b # a
      BY <1>1, <3>3, <3>5
    <3>6. QED
      BY <3>4, <3>5
  <2>2. QED
    BY <2>1 DEF OpenOwned
<1>8. OneOwner(v)
  BY <1>5 DEF Held, OneOwner
<1>9. QED
  BY <1>4, <1>6, <1>7, <1>8 DEF Held

-----------------------------------------------------------------------------
(* New objects. *)

(* The number of a file is the one it was made with.                       *)
LEMMA FileOwns ==
  ASSUME NEW v, NEW a, NEW d, v.heap[a].k = "file", v.heap[a].fd = d
  PROVE  \A i \in 0 .. 3 : \A e : Owns(v, a, i, e) <=> i = 0 /\ e = d
BY DEF Owns

(* A new process has made no files.                                        *)
LEMMA ProcOwns ==
  ASSUME NEW v, NEW a, NEW fds, v.heap[a] = ProcObj(fds)
  PROVE  \A i \in 0 .. 3 : \A e : Owns(v, a, i, e) <=> i \in 1 .. 3 /\ e = fds[i]
<1>1. v.heap[a].k = "proc" /\ v.heap[a].fds = fds /\ v.heap[a].ends = <<NilBox, NilBox, NilBox>>
  BY DEF ProcObj
<1>2. \A i \in 1 .. 3 : v.heap[a].ends[i] = NilBox
  BY <1>1
<1>3. NilBox.t = "nil"
  BY DEF NilBox, Box
<1>4. QED
  BY <1>1, <1>2, <1>3 DEF Owns

(* A new file takes its descriptor out of hand.                            *)
LEMMA PlacedFile ==
  ASSUME NEW w \in World, NEW X \in SUBSET Fd, Held(w, X), NEW d \in X, NEW ptr \in BOOLEAN,
         ~Place(w, FileObj(d, ptr)).w.full
  PROVE  Held(Place(w, FileObj(d, ptr)).w, X \ {d})
<1> DEFINE r == Place(w, FileObj(d, ptr))
           v == r.w
           a == r.v
<1>1. FileObj(d, ptr) \in Objs
  BY NewObjs DEF Objs, Number
<1>2. v \in World /\ v.fds = w.fds /\ v.leaked = w.leaked /\ a \in Addr /\ w.heap[a].k = "free"
      /\ v.heap = [w.heap EXCEPT ![a] = FileObj(d, ptr)]
  BY <1>1, Placed
<1> HIDE DEF v, a
<1>3. w.heap \in [Addr -> Objs]
  BY WorldFields
<1>4. v.heap[a] = FileObj(d, ptr) /\ \A b \in Addr \ {a} : v.heap[b] = w.heap[b]
  BY <1>2, <1>3
<1>5. \A i, e : ~Owns(w, a, i, e)
  BY <1>2, OwnerKinds
<1>6. \A i \in 0 .. 3 : \A e : Owns(v, a, i, e) <=> i = 0 /\ e = d
  <2>1. v.heap[a].k = "file" /\ v.heap[a].fd = d
    BY <1>4 DEF FileObj
  <2>2. QED
    BY <2>1, FileOwns
<1>7. Held(v, X \ {d})
  <2>1. \A i \in 0 .. 3, e \in Fd : Owns(v, a, i, e) => e \in {d}
    BY <1>6
  <2>2. \A e \in {d} : \E i \in 0 .. 3 : Owns(v, a, i, e)
    BY <1>6
  <2>3. \A i, j \in 0 .. 3, e \in Fd : Owns(v, a, i, e) /\ Owns(v, a, j, e) => i = j
    BY <1>6
  <2>4. {d} \subseteq X
    OBVIOUS
  <2> DEFINE Y == {d}
  <2> HIDE DEF Y
  <2>5. Held(v, X \ Y)
    BY <1>2, <1>4, <1>5, <2>1, <2>2, <2>3, <2>4, GivenHeld DEF Y
  <2>6. QED
    BY <2>5 DEF Y
<1>8. QED
  BY <1>7 DEF v

(* A new process takes its numbers out of hand.                            *)
LEMMA PlacedProc ==
  ASSUME NEW w \in World, NEW X \in SUBSET Fd, Held(w, X), NEW fds \in [1 .. 3 -> Number],
         \A i \in 1 .. 3 : fds[i] # -1 => fds[i] \in X,
         \A i, j \in 1 .. 3 : fds[i] = fds[j] /\ fds[i] # -1 => i = j,
         ~Place(w, ProcObj(fds)).w.full
  PROVE  Held(Place(w, ProcObj(fds)).w, X \ Numbers(fds))
<1> DEFINE r == Place(w, ProcObj(fds))
           v == r.w
           a == r.v
           Y == {fds[i] : i \in {j \in 1 .. 3 : fds[j] # -1}}
<1>1. ProcObj(fds) \in Objs
  BY NewObjs DEF Objs
<1>2. v \in World /\ v.fds = w.fds /\ v.leaked = w.leaked /\ a \in Addr /\ w.heap[a].k = "free"
      /\ v.heap = [w.heap EXCEPT ![a] = ProcObj(fds)]
  BY <1>1, Placed
<1> HIDE DEF v, a
<1>3. w.heap \in [Addr -> Objs]
  BY WorldFields
<1>4. v.heap[a] = ProcObj(fds) /\ \A b \in Addr \ {a} : v.heap[b] = w.heap[b]
  BY <1>2, <1>3
<1>5. \A i, e : ~Owns(w, a, i, e)
  BY <1>2, OwnerKinds
<1>6. \A i \in 0 .. 3 : \A e : Owns(v, a, i, e) <=> i \in 1 .. 3 /\ e = fds[i]
  BY <1>4, ProcOwns
<1>7. \A d \in Fd : d # -1
  BY FdAssumption
<1>8. Y \subseteq X
  OBVIOUS
<1>9. \A i \in 0 .. 3, d \in Fd : Owns(v, a, i, d) => d \in Y
  BY <1>6, <1>7
<1>10. \A d \in Y : \E i \in 0 .. 3 : Owns(v, a, i, d)
  BY <1>6
<1>11. \A i, j \in 0 .. 3, d \in Fd : Owns(v, a, i, d) /\ Owns(v, a, j, d) => i = j
  BY <1>6, <1>7
<1>12. X \ Y = X \ Numbers(fds)
  BY <1>7 DEF Numbers
<1> HIDE DEF Y
<1>13. Held(v, X \ Y)
  BY <1>2, <1>4, <1>5, <1>8, <1>9, <1>10, <1>11, GivenHeld
<1>14. QED
  BY <1>12, <1>13 DEF v

(* Anything else takes nothing.                                            *)
LEMMA PlacedOther ==
  ASSUME NEW w \in World, NEW X \in SUBSET Fd, Held(w, X), NEW obj \in BufObjs \cup OtherObjs,
         ~Place(w, obj).w.full
  PROVE  Held(Place(w, obj).w, X)
<1> DEFINE r == Place(w, obj)
           v == r.w
           a == r.v
<1>1. obj \in Objs /\ obj.k \notin {"file", "proc"}
  BY DEF Objs, BufObjs, OtherObjs
<1>2. v \in World /\ v.fds = w.fds /\ v.leaked = w.leaked /\ a \in Addr /\ w.heap[a].k = "free"
      /\ v.heap = [w.heap EXCEPT ![a] = obj]
  BY <1>1, Placed
<1> HIDE DEF v, a
<1>3. w.heap \in [Addr -> Objs]
  BY WorldFields
<1>4. v.heap[a] = obj /\ \A b \in Addr \ {a} : v.heap[b] = w.heap[b]
  BY <1>2, <1>3
<1>5. \A i, e : ~Owns(w, a, i, e)
  BY <1>2, OwnerKinds
<1>6. \A i, e : ~Owns(v, a, i, e)
  BY <1>1, <1>2, <1>4, OwnerKinds
<1>7. Held(v, X \ {})
  <2> DEFINE Y == {}
  <2>1. Y \subseteq X /\ \A d \in Y : \E i \in 0 .. 3 : Owns(v, a, i, d)
    OBVIOUS
  <2> HIDE DEF Y
  <2>2. Held(v, X \ Y)
    BY <1>2, <1>4, <1>5, <1>6, <2>1, GivenHeld
  <2>3. QED
    BY <2>2 DEF Y
<1>8. X \ {} = X
  OBVIOUS
<1>9. QED
  BY <1>7, <1>8 DEF v

-----------------------------------------------------------------------------
(* The steps. *)

(* A step that keeps the invariant.                                        *)
Keeps(w, v) ==
  /\ v \in World
  /\ Good(v) => Good(w)
  /\ Good(v) /\ Held(w, {}) => Held(v, {})

(* cx_file_new, for any free descriptor.                                   *)
LEMMA OpenKeeps ==
  ASSUME NEW w \in World, NEW ptr \in BOOLEAN, Unused(w) # {}
  PROVE  Keeps(w, Opened(w, ptr).w)
<1> DEFINE d == Min(Unused(w))
           u == [w EXCEPT !.fds = @ \cup {d}]
           r == Place(u, FileObj(d, ptr))
           v == r.w
<1>1. d \in Fd /\ d \in Unused(w)
  <2>1. Unused(w) \in SUBSET Nat /\ Unused(w) \subseteq Fd
    BY FdAssumption DEF Unused
  <2>2. QED
    BY <2>1, MinOf
<1>2. Opened(w, ptr).w = v
  BY DEF Opened
<1> HIDE DEF d
<1>3. u \in World /\ u.heap = w.heap /\ u.fds = w.fds \cup {d} /\ u.leaked = w.leaked
      /\ u.stale = w.stale /\ u.wild = w.wild /\ u.full = w.full
  BY <1>1 DEF World
<1> HIDE DEF u
<1>4. FileObj(d, ptr) \in Objs
  BY <1>1, NewObjs DEF Objs, Number
<1>5. v \in World /\ v.stale = u.stale /\ v.wild = u.wild /\ (~v.full => ~u.full)
  BY <1>3, <1>4, Placed
<1>6. ASSUME Held(w, {}), ~v.full PROVE Held(v, {})
  <2> DEFINE F == {d}
  <2>1. F \subseteq Unused(w) /\ u.fds = w.fds \cup F
    BY <1>1, <1>3
  <2> HIDE DEF F
  <2>2. Held(u, {} \cup F)
    BY <1>3, <1>6, <2>1, OpenHeld
  <2>3. {} \cup F = {d}
    BY DEF F
  <2>4. Held(u, {d}) /\ {d} \in SUBSET Fd
    BY <1>1, <2>2, <2>3
  <2>5. Held(v, {d} \ {d})
    BY <1>3, <1>6, <2>4, PlacedFile
  <2>6. {d} \ {d} = {}
    OBVIOUS
  <2>7. QED
    BY <2>5, <2>6
<1> HIDE DEF v
<1>7. QED
  BY <1>2, <1>3, <1>5, <1>6 DEF Keeps, Good

(* A value of any other type.                                              *)
LEMMA NewKeeps ==
  ASSUME NEW w \in World, NEW obj \in BufObjs \cup OtherObjs
  PROVE  Keeps(w, Place(w, obj).w)
<1> DEFINE v == Place(w, obj).w
<1>1. obj \in Objs
  BY DEF Objs
<1>2. v \in World /\ v.stale = w.stale /\ v.wild = w.wild /\ (~v.full => ~w.full)
  BY <1>1, Placed
<1>3. ASSUME Held(w, {}), ~v.full PROVE Held(v, {})
  BY <1>3, PlacedOther
<1> HIDE DEF v
<1>4. Keeps(w, v)
  BY <1>2, <1>3 DEF Keeps, Good
<1>5. QED
  BY <1>4 DEF v

(* One object changes, and what it owned and does not own any more is      *)
(* closed.                                                                 *)
LEMMA VacatedKeeps ==
  ASSUME NEW w \in World, NEW v \in World, NEW a \in Addr,
         \A b \in Addr \ {a} : v.heap[b] = w.heap[b],
         \A i \in 0 .. 3, d \in Fd : ~Owns(v, a, i, d),
         v.leaked = w.leaked, v.stale = w.stale, v.wild = w.wild, v.full = w.full,
         \A d \in Fd : d \in v.fds <=> d \in w.fds /\ ~\E i \in 0 .. 3 : Owns(w, a, i, d)
  PROVE  Keeps(w, v)
<1>1. ASSUME Held(w, {}) PROVE Held(v, {})
  BY <1>1, VacatedHeld
<1>2. QED
  BY <1>1 DEF Keeps, Good

(* One object changes, and owns what it owned.                             *)
LEMMA StoreKeeps ==
  ASSUME NEW w \in World, NEW a \in Addr, NEW obj \in Objs,
         obj.k = w.heap[a].k,
         obj.k = "file" => obj.fd = w.heap[a].fd,
         obj.k = "proc" => obj.fds = w.heap[a].fds /\ obj.ends = w.heap[a].ends
  PROVE  Keeps(w, [w EXCEPT !.heap[a] = obj])
<1> DEFINE v == [w EXCEPT !.heap[a] = obj]
<1>1. v \in World /\ v.heap = [w.heap EXCEPT ![a] = obj] /\ v.fds = w.fds /\ v.leaked = w.leaked
      /\ v.stale = w.stale /\ v.wild = w.wild /\ v.full = w.full
  BY StoreFields
<1> HIDE DEF v
<1>2. v.heap[a] = obj /\ \A b \in Addr \ {a} : v.heap[b] = w.heap[b]
  BY <1>1, WorldFields
<1>3. \A b \in Addr, i \in 0 .. 3, d \in Fd : Owns(v, b, i, d) <=> Owns(w, b, i, d)
  <2>1. ASSUME NEW b \in Addr \ {a} PROVE \A i \in 0 .. 3, d \in Fd : Owns(v, b, i, d) <=> Owns(w, b, i, d)
    BY <1>2 DEF Owns
  <2>2. \A i \in 0 .. 3, d \in Fd : Owns(v, a, i, d) <=> Owns(w, a, i, d)
    BY <1>2 DEF Owns
  <2>3. QED
    BY <2>1, <2>2
<1>4. ASSUME Held(w, {}) PROVE Held(v, {})
  <2>1. Claimed(v, {}) = Claimed(w, {}) /\ v.leaked \subseteq v.fds
    BY <1>1, <1>4 DEF Claimed, Held
  <2>2. QED
    BY <1>1, <1>3, <1>4, <2>1, SameOwners
<1>5. Keeps(w, v)
  BY <1>1, <1>4 DEF Keeps, Good
<1>6. QED
  BY <1>5 DEF v

(* The kinds of objects.                                                   *)
LEMMA Kinds ==
  ASSUME NEW w \in World, NEW a \in Addr
  PROVE  /\ w.heap[a].k = "free" => w.heap[a] = Free
         /\ w.heap[a].k = "file" => w.heap[a] \in FileObjs
         /\ w.heap[a].k = "proc" => w.heap[a] \in ProcObjs
         /\ w.heap[a].k = "buf" => w.heap[a] \in BufObjs
         /\ w.heap[a].k = "other" => w.heap[a] \in OtherObjs
         /\ w.heap[a].k \in {"free", "file", "proc", "buf", "other"}
<1>1. w.heap[a] \in Objs
  BY WorldFields
<1>2. QED
  BY <1>1 DEF Objs, Free, FileObjs, ProcObjs, BufObjs, OtherObjs

(* What a file owns, and a buffer does not.                                *)
LEMMA OwnsOfFile ==
  ASSUME NEW w \in World, NEW a \in Addr, w.heap[a].k \in {"file", "buf"}
  PROVE  /\ w.heap[a].fd \in Number \cup (0 .. 2)
         /\ \A d \in Fd : d = w.heap[a].fd => w.heap[a].k = "file"
         /\ \A i \in 0 .. 3, d \in Fd : Owns(w, a, i, d) <=> i = 0 /\ d = w.heap[a].fd
<1>1. \A d \in Fd : d # -1
  BY FdAssumption
<1>2. CASE w.heap[a].k = "file"
  BY <1>2, Kinds DEF Owns, FileObjs
<1>3. CASE w.heap[a].k = "buf"
  <2>1. w.heap[a].fd = -1
    BY <1>3, Kinds DEF BufObjs
  <2>2. QED
    BY <1>1, <1>3, <2>1 DEF Owns, Number
<1>4. QED
  BY <1>2, <1>3

(* cx_file_close, also of a buffer, in any worlds.                         *)
LEMMA ClosedFields ==
  ASSUME NEW w \in World, NEW a \in Addr, w.heap[a].k \in {"file", "buf"}
  PROVE  LET v == Closed(w, a)
         IN /\ v \in World
            /\ v.leaked = w.leaked /\ v.stale = w.stale /\ v.wild = w.wild /\ v.full = w.full
            /\ \A b \in Addr \ {a} : v.heap[b] = w.heap[b]
            /\ v.heap[a].k = w.heap[a].k
            /\ IF w.heap[a].fd \in 0 .. 2 THEN v = w
               ELSE v.heap[a].fd = -1 /\ v.fds = w.fds \ {w.heap[a].fd}
<1> DEFINE o == w.heap[a]
           p == [o EXCEPT !.fd = -1, !.ptr = FALSE]
           u == Close(w, {o.fd})
           v == [u EXCEPT !.heap[a] = p]
<1>1. CASE o.fd \in 0 .. 2
  <2>1. Closed(w, a) = w
    BY <1>1 DEF Closed
  <2>2. QED
    BY <1>1, <2>1
<1>2. CASE o.fd \notin 0 .. 2
  <2>1. p \in Objs /\ p.k = o.k /\ p.fd = -1
    <3>1. CASE o.k = "file"
      <4>1. o \in FileObjs
        BY <3>1, Kinds
      <4>2. QED
        BY <4>1 DEF FileObjs, Objs, Number
    <3>2. CASE o.k = "buf"
      <4>1. o \in BufObjs
        BY <3>2, Kinds
      <4>2. QED
        BY <4>1 DEF BufObjs, Objs
    <3>3. QED
      BY <3>1, <3>2
  <2>2. Closed(w, a) = v
    BY <1>2 DEF Closed
  <2> HIDE DEF p
  <2>3. u \in World /\ u.heap = w.heap /\ u.fds = w.fds \ {o.fd} /\ u.leaked = w.leaked
        /\ u.stale = w.stale /\ u.wild = w.wild /\ u.full = w.full
    BY CloseFields
  <2> HIDE DEF u
  <2>4. v \in World /\ v.heap = [u.heap EXCEPT ![a] = p] /\ v.fds = u.fds /\ v.leaked = u.leaked
        /\ v.stale = u.stale /\ v.wild = u.wild /\ v.full = u.full
    BY <2>1, <2>3, StoreFields
  <2> HIDE DEF v
  <2>5. v.heap[a] = p /\ \A b \in Addr \ {a} : v.heap[b] = w.heap[b]
    BY <2>3, <2>4, WorldFields
  <2>6. QED
    BY <1>2, <2>1, <2>2, <2>3, <2>4, <2>5
<1>3. QED
  BY <1>1, <1>2

(* Who closes a file closes what it owned, whatever is in hand.            *)
LEMMA ClosedHeld ==
  ASSUME NEW w \in World, NEW a \in Addr, w.heap[a].k \in {"file", "buf"}, NEW X, Held(w, X)
  PROVE  Held(Closed(w, a), X)
<1> DEFINE v == Closed(w, a)
<1>1. CASE w.heap[a].fd \in 0 .. 2
  BY <1>1 DEF Closed
<1>2. CASE w.heap[a].fd \notin 0 .. 2
  <2>1. v \in World /\ v.leaked = w.leaked /\ (\A b \in Addr \ {a} : v.heap[b] = w.heap[b])
        /\ v.heap[a].k = w.heap[a].k /\ v.heap[a].fd = -1 /\ v.fds = w.fds \ {w.heap[a].fd}
    BY <1>2, ClosedFields
  <2> HIDE DEF v
  <2>2. \A d \in Fd : d # -1
    BY FdAssumption
  <2>3. \A i \in 0 .. 3, d \in Fd : ~Owns(v, a, i, d)
    BY <2>1, <2>2, OwnsOfFile
  <2>4. \A d \in Fd : d \in v.fds <=> d \in w.fds /\ ~\E i \in 0 .. 3 : Owns(w, a, i, d)
    BY <2>1, OwnsOfFile
  <2>5. Held(v, X)
    BY <2>1, <2>3, <2>4, VacatedHeld
  <2>6. QED
    BY <2>5 DEF v
<1>3. QED
  BY <1>1, <1>2

(* The last reference to an object goes: what it owned is closed.          *)
LEMMA GoneKeeps ==
  ASSUME NEW w \in World, NEW u \in World, NEW a \in Addr,
         u.heap = w.heap, u.leaked = w.leaked,
         u.stale = w.stale, u.wild = w.wild, u.full = w.full,
         \A d \in Fd : d \in u.fds <=> d \in w.fds /\ ~\E i \in 0 .. 3 : Owns(w, a, i, d)
  PROVE  Keeps(w, [u EXCEPT !.heap[a] = Free])
<1> DEFINE v == [u EXCEPT !.heap[a] = Free]
<1>1. Free \in Objs /\ Free.k = "free"
  BY DEF Objs, Free
<1>2. v \in World /\ v.heap = [u.heap EXCEPT ![a] = Free] /\ v.fds = u.fds /\ v.leaked = u.leaked
      /\ v.stale = u.stale /\ v.wild = u.wild /\ v.full = u.full
  BY <1>1, StoreFields
<1> HIDE DEF v
<1>3. v.heap[a] = Free /\ \A b \in Addr \ {a} : v.heap[b] = w.heap[b]
  BY <1>2, WorldFields
<1>4. \A i \in 0 .. 3, d \in Fd : ~Owns(v, a, i, d)
  BY <1>1, <1>2, <1>3, OwnerKinds
<1>5. v.leaked = w.leaked /\ v.stale = w.stale /\ v.wild = w.wild /\ v.full = w.full
  BY <1>2
<1>6. \A d \in Fd : d \in v.fds <=> d \in w.fds /\ ~\E i \in 0 .. 3 : Owns(w, a, i, d)
  BY <1>2
<1>7. v \in World /\ \A b \in Addr \ {a} : v.heap[b] = w.heap[b]
  BY <1>2, <1>3
<1>8. Keeps(w, v)
  BY <1>4, <1>5, <1>6, <1>7, VacatedKeeps
<1>9. QED
  BY <1>8 DEF v

(* cx_file_deref                                                           *)
LEMMA FileGoneKeeps ==
  ASSUME NEW w \in World, NEW a \in Addr, w.heap[a].k = "file"
  PROVE  Keeps(w, [FileFree(w, w.heap[a]) EXCEPT !.heap[a] = Free])
<1> DEFINE fd == w.heap[a].fd
           u == FileFree(w, w.heap[a])
<1>1. u \in World /\ u.heap = w.heap /\ u.leaked = w.leaked
      /\ u.stale = w.stale /\ u.wild = w.wild /\ u.full = w.full
  BY CloseFields DEF FileFree
<1>2. u.fds = IF fd \in 0 .. 2 THEN w.fds ELSE w.fds \ {fd}
  BY CloseFields DEF FileFree
<1> HIDE DEF u
<1>3. \A d \in Fd : d \notin 0 .. 2
  BY FdAssumption
<1>4. \A d \in Fd : d \in u.fds <=> d \in w.fds /\ ~\E i \in 0 .. 3 : Owns(w, a, i, d)
  BY <1>2, <1>3, OwnsOfFile
<1>5. Keeps(w, [u EXCEPT !.heap[a] = Free])
  BY <1>1, <1>4, GoneKeeps
<1>6. QED
  BY <1>5 DEF u

(* What a process owns.                                                    *)
LEMMA OwnsOfProc ==
  ASSUME NEW w \in World, NEW a \in Addr, w.heap[a].k = "proc"
  PROVE  /\ w.heap[a] \in ProcObjs
         /\ w.heap[a].fds \in [1 .. 3 -> Number] /\ w.heap[a].ends \in [1 .. 3 -> Ends]
         /\ \A i \in 0 .. 3, d \in Fd :
              Owns(w, a, i, d) <=> i \in 1 .. 3 /\ w.heap[a].fds[i] = d /\ w.heap[a].ends[i].t = "nil"
<1>1. w.heap[a] \in ProcObjs
  BY Kinds
<1>2. QED
  BY <1>1 DEF Owns, ProcObjs

(* cx_proc_deinit                                                          *)
LEMMA ProcGoneKeeps ==
  ASSUME NEW w \in World, NEW a \in Addr, w.heap[a].k = "proc"
  PROVE  Keeps(w, [ProcFree(w, w.heap[a]) EXCEPT !.heap[a] = Free])
<1> DEFINE o == w.heap[a]
           F == {o.fds[i] : i \in {j \in 1 .. 3 : o.ends[j].t = "nil"}}
           u == ProcFree(w, o)
<1>1. u = Close(w, F)
  BY DEF ProcFree
<1>2. \A d \in Fd : d \in F <=> \E i \in 0 .. 3 : Owns(w, a, i, d)
  BY OwnsOfProc
<1> HIDE DEF F, u
<1>3. u \in World /\ u.heap = w.heap /\ u.fds = w.fds \ F /\ u.leaked = w.leaked
      /\ u.stale = w.stale /\ u.wild = w.wild /\ u.full = w.full
  BY <1>1, CloseFields
<1>4. \A d \in Fd : d \in u.fds <=> d \in w.fds /\ ~\E i \in 0 .. 3 : Owns(w, a, i, d)
  BY <1>2, <1>3
<1>5. Keeps(w, [u EXCEPT !.heap[a] = Free])
  BY <1>3, <1>4, GoneKeeps
<1>6. QED
  BY <1>5 DEF u

(* The file of an end takes its descriptor over from the process.          *)
LEMMA EndKeeps ==
  ASSUME NEW w \in World, NEW a \in Addr, w.heap[a].k = "proc", NEW i \in 1 .. 3
  PROVE  Keeps(w, EndKept(w, a, i))
<1> DEFINE o == w.heap[a]
           d == o.fds[i]
           r == Place(w, FileObj(d, FALSE))
           end == Box("file", r.v)
           q == [o EXCEPT !.ends = [@ EXCEPT ![i] = end]]
           v == [r.w EXCEPT !.heap[a] = q]
<1>1. CASE o.ends[i].t # "nil" \/ d = -1
  <2>1. EndKept(w, a, i) = w
    BY <1>1 DEF EndKept
  <2>2. QED
    BY <2>1 DEF Keeps
<1>2. CASE ~(o.ends[i].t # "nil" \/ d = -1)
  <2>1. EndKept(w, a, i) = v
    BY <1>2 DEF EndKept
  <2>2. o \in ProcObjs /\ d \in Fd
    BY <1>2, OwnsOfProc DEF Number
  <2>3. FileObj(d, FALSE) \in Objs
    BY <2>2, NewObjs DEF Objs, Number
  <2>4. r.w \in World /\ r.w.fds = w.fds /\ r.w.leaked = w.leaked /\ r.w.stale = w.stale
        /\ r.w.wild = w.wild /\ r.v \in Addr \cup {0}
        /\ (~r.w.full => /\ ~w.full /\ r.v \in Addr /\ w.heap[r.v].k = "free"
                         /\ r.w.heap = [w.heap EXCEPT ![r.v] = FileObj(d, FALSE)])
    BY <2>3, Placed
  <2> HIDE DEF r
  <2>5. end \in Ends /\ end.t = "file"
    BY <2>4 DEF Ends, Box
  <2> HIDE DEF end
  <2>6. q \in ProcObjs /\ q.k = "proc" /\ q.fds = o.fds /\ q.ends = [o.ends EXCEPT ![i] = end]
    BY <2>2, <2>5 DEF ProcObjs
  <2>7. q \in Objs
    BY <2>6 DEF Objs
  <2> HIDE DEF q
  <2>8. v \in World /\ v.heap = [r.w.heap EXCEPT ![a] = q] /\ v.fds = r.w.fds
        /\ v.leaked = r.w.leaked /\ v.stale = r.w.stale /\ v.wild = r.w.wild /\ v.full = r.w.full
    BY <2>4, <2>7, StoreFields
  <2> HIDE DEF v
  <2>9. ASSUME Held(w, {}), ~v.full PROVE Held(v, {})
    <3> DEFINE b == r.v
               u == [w EXCEPT !.heap[a] = q]
               Y == {d}
    <3>1. b \in Addr /\ w.heap[b].k = "free" /\ r.w.heap = [w.heap EXCEPT ![b] = FileObj(d, FALSE)]
      BY <2>4, <2>8, <2>9
    <3> HIDE DEF b
    <3>2. a # b
      BY <3>1
    <3>3. u \in World /\ u.heap = [w.heap EXCEPT ![a] = q] /\ u.fds = w.fds /\ u.leaked = w.leaked
      BY <2>7, StoreFields
    <3> HIDE DEF u
    <3>4. u.heap[a] = q /\ \A c \in Addr \ {a} : u.heap[c] = w.heap[c]
      BY <3>3, WorldFields
    <3>5. Y \subseteq Fd /\ \A e : e \in Y <=> e = d
      BY <2>2
    <3> HIDE DEF Y
    <3>6. \A e \in Y : \E j \in 0 .. 3 : Owns(w, a, j, e)
      BY <1>2, <2>2, <3>5, OwnsOfProc
    <3>7. \A j \in 1 .. 3 : q.ends[j] = IF j = i THEN end ELSE o.ends[j]
      BY <2>6, OwnsOfProc
    <3>8. \A e \in Fd, j \in 0 .. 3 : Owns(w, a, j, e) /\ e \in Y => j = i
      <4>1. Owns(w, a, i, d)
        BY <1>2, <2>2, OwnsOfProc
      <4>2. QED
        BY <2>2, <2>9, <3>5, <4>1 DEF Held, OneOwner
    <3>9. \A j \in 0 .. 3, e \in Fd : Owns(u, a, j, e) <=> Owns(w, a, j, e) /\ e \notin Y
      <4>1. \A j \in 0 .. 3, e \in Fd : Owns(u, a, j, e) <=> j \in 1 .. 3 /\ q.fds[j] = e /\ q.ends[j].t = "nil"
        <5>1. u.heap[a].k = "proc" /\ u.heap[a].fds = q.fds /\ u.heap[a].ends = q.ends
          BY <2>6, <3>4
        <5>2. \A j \in 0 .. 3 : j = 0 <=> j \notin 1 .. 3
          OBVIOUS
        <5>3. QED
          BY <5>1, <5>2 DEF Owns
      <4>2. \A j \in 1 .. 3, e \in Fd : q.fds[j] = e /\ q.ends[j].t = "nil"
                                        <=> j # i /\ o.fds[j] = e /\ o.ends[j].t = "nil"
        BY <2>5, <2>6, <3>7
      <4>3. \A e \in Fd : o.fds[i] = e => e \in Y
        BY <3>5
      <4>4. QED
        BY <3>8, <4>1, <4>2, <4>3, OwnsOfProc
    <3>10. Held(u, {} \cup Y)
      BY <2>9, <3>3, <3>4, <3>5, <3>6, <3>9, TakenHeld
    <3>11. {} \cup Y = Y
      OBVIOUS
    <3>12. v.heap[b] = FileObj(d, FALSE) /\ \A c \in Addr \ {b} : v.heap[c] = u.heap[c]
      BY <2>8, <3>1, <3>2, <3>3, WorldFields
    <3>13. \A j, e : ~Owns(u, b, j, e)
      BY <3>1, <3>2, <3>3, <3>4, OwnerKinds
    <3>14. \A j \in 0 .. 3 : \A e : Owns(v, b, j, e) <=> j = 0 /\ e = d
      <4>1. v.heap[b].k = "file" /\ v.heap[b].fd = d
        BY <3>12 DEF FileObj
      <4> HIDE DEF d
      <4>2. QED
        BY <4>1, FileOwns
    <3>15. Held(v, Y \ Y)
      <4>1. \A j \in 0 .. 3, e \in Fd : Owns(v, b, j, e) => e \in Y
        BY <3>5, <3>14
      <4>2. \A e \in Y : \E j \in 0 .. 3 : Owns(v, b, j, e)
        BY <3>5, <3>14
      <4>3. \A j, k \in 0 .. 3, e \in Fd : Owns(v, b, j, e) /\ Owns(v, b, k, e) => j = k
        BY <3>14
      <4>4. Held(u, Y) /\ Y \subseteq Y
        BY <3>10, <3>11
      <4>5. v.fds = u.fds /\ v.leaked = u.leaked
        BY <2>4, <2>8, <3>3
      <4>6. QED
        BY <2>8, <3>1, <3>3, <3>5, <3>12, <3>13, <4>1, <4>2, <4>3, <4>4, <4>5, GivenHeld
    <3>16. Y \ Y = {}
      OBVIOUS
    <3>17. QED
      BY <3>15, <3>16
  <2>10. Keeps(w, v)
    BY <2>4, <2>8, <2>9 DEF Keeps, Good
  <2>11. QED
    BY <2>1, <2>10
<1>3. QED
  BY <1>1, <1>2

-----------------------------------------------------------------------------
(* Pipes. *)

InHand(p) == (Numbers(p.near) \cup Numbers(p.far)) \ {-1}

Pipes == [w : World, near : [1 .. 3 -> Number], far : [1 .. 3 -> Number], ok : BOOLEAN, at : 0 .. 3]

(* The numbers of pipes are there once.                                    *)
Distinct(p) ==
  /\ \A i, j \in 1 .. 3 : p.near[i] = p.near[j] /\ p.near[i] # -1 => i = j
  /\ \A i, j \in 1 .. 3 : p.near[i] = p.far[j] => p.near[i] = -1

(* p is what was made in w of the first n pipes.                           *)
HasPipes(w, as, p, n) ==
  /\ p \in Pipes
  /\ p.w.heap = w.heap /\ p.w.leaked = w.leaked
  /\ p.w.stale = w.stale /\ p.w.wild = w.wild /\ p.w.full = w.full
  /\ InHand(p) \subseteq p.w.fds
  /\ Held(w, {}) => Held(p.w, InHand(p))
  /\ Distinct(p)
  /\ \A i \in 1 .. 3 : IsFile(as[i]) \/ i > n => p.near[i] = -1 /\ p.far[i] = -1

(* One pipe more.                                                          *)
LEMMA PipeMade ==
  ASSUME NEW w \in World, NEW as, NEW p, NEW n \in 0 .. 2, NEW i \in 1 .. 3, i = n + 1,
         HasPipes(w, as, p, n)
  PROVE  HasPipes(w, as, Pipe(p, as, i), i)
<1> DEFINE free == Unused(p.w)
           first == Min(free)
           second == Min(free \ {first})
           x == IF i = 1 THEN second ELSE first
           y == IF i = 1 THEN first ELSE second
           u == [p.w EXCEPT !.fds = @ \cup {first, second}]
           near == [p.near EXCEPT ![i] = x]
           far == [p.far EXCEPT ![i] = y]
           q == [p EXCEPT !.w = [p.w EXCEPT !.fds = @ \cup {first, second}],
                          !.near = [@ EXCEPT ![i] = IF i = 1 THEN second ELSE first],
                          !.far = [@ EXCEPT ![i] = IF i = 1 THEN first ELSE second]]
<1>1. p \in Pipes /\ p.w \in World /\ p.near \in [1 .. 3 -> Number] /\ p.far \in [1 .. 3 -> Number]
  BY DEF HasPipes, Pipes
<1>2. CASE ~p.ok \/ IsFile(as[i])
  <2>1. Pipe(p, as, i) = p
    BY <1>2 DEF Pipe
  <2>2. \A j \in 1 .. 3 : j > i => j > n
    OBVIOUS
  <2>3. QED
    BY <2>1, <2>2 DEF HasPipes
<1>3. CASE ~(~p.ok \/ IsFile(as[i])) /\ ~\E a, b \in free : a # b
  <2>1. Pipe(p, as, i) = [p EXCEPT !.ok = FALSE, !.at = i]
    BY <1>3 DEF Pipe
  <2> DEFINE r == [p EXCEPT !.ok = FALSE, !.at = i]
  <2>2. r \in Pipes /\ r.w = p.w /\ r.near = p.near /\ r.far = p.far
    <3> HIDE DEF q
    <3>1. i \in 0 .. 3
      OBVIOUS
    <3>2. QED
      BY <1>1, <3>1 DEF Pipes
  <2> HIDE DEF r
  <2>3. InHand(r) = InHand(p) /\ (Distinct(p) => Distinct(r))
    BY <2>2 DEF InHand, Distinct
  <2>4. \A j \in 1 .. 3 : j > i => j > n
    OBVIOUS
  <2>5. HasPipes(w, as, r, i)
    BY <2>2, <2>3, <2>4 DEF HasPipes
  <2>6. QED
    BY <2>1, <2>5 DEF r
<1>4. CASE ~(~p.ok \/ IsFile(as[i])) /\ \E a, b \in free : a # b
  <2>1. first \in free /\ second \in free /\ first # second
    <3>1. free \in SUBSET Nat /\ free # {}
      BY <1>4, FdAssumption DEF Unused
    <3>2. first \in free
      BY <3>1, MinOf
    <3> HIDE DEF first
    <3>3. free \ {first} \in SUBSET Nat /\ free \ {first} # {}
      BY <1>4, <3>1
    <3>4. second \in free \ {first}
      BY <3>3, MinOf
    <3>5. QED
      BY <3>2, <3>4
  <2>2. Pipe(p, as, i) = q
    BY <1>4 DEF Pipe
  <2>3. q = [p EXCEPT !.w = u, !.near = near, !.far = far]
    OBVIOUS
  <2> HIDE DEF first, second, q
  <2>4. x \in free /\ y \in free /\ x # y /\ {x, y} = {first, second}
    BY <2>1
  <2> HIDE DEF x, y
  <2>5. free \subseteq Fd /\ Fd \subseteq Number /\ free \cap p.w.fds = {} /\ -1 \notin Fd
    BY FdAssumption DEF Unused, Number
  <2> HIDE DEF free
  <2>6. u \in World /\ u.heap = p.w.heap /\ u.fds = p.w.fds \cup {x, y} /\ u.leaked = p.w.leaked
        /\ u.stale = p.w.stale /\ u.wild = p.w.wild /\ u.full = p.w.full
    BY <1>1, <2>1, <2>4, <2>5 DEF World
  <2> HIDE DEF u
  <2>7. near \in [1 .. 3 -> Number] /\ far \in [1 .. 3 -> Number]
    BY <1>1, <2>4, <2>5
  <2>8. \A j \in 1 .. 3 : /\ near[j] = IF j = i THEN x ELSE p.near[j]
                          /\ far[j] = IF j = i THEN y ELSE p.far[j]
    BY <1>1
  <2> HIDE DEF near, far
  <2>9. q \in Pipes /\ q.w = u /\ q.near = near /\ q.far = far
    BY <1>1, <2>3, <2>6, <2>7 DEF Pipes
  <2>10. p.near[i] = -1 /\ p.far[i] = -1
    <3>1. i > n
      OBVIOUS
    <3>2. QED
      BY <3>1 DEF HasPipes
  <2>11. InHand(q) = InHand(p) \cup {x, y}
    <3>1. \A e : e \in InHand(q) <=> e # -1 /\ \E j \in 1 .. 3 : near[j] = e \/ far[j] = e
      BY <2>9 DEF InHand, Numbers
    <3>2. \A e : e \in InHand(p) <=> e # -1 /\ \E j \in 1 .. 3 : p.near[j] = e \/ p.far[j] = e
      BY DEF InHand, Numbers
    <3>3. x # -1 /\ y # -1
      BY <2>4, <2>5
    <3>4. QED
      BY <2>8, <2>10, <3>1, <3>2, <3>3
  <2>12. \A j \in 1 .. 3 : p.near[j] \notin {x, y} /\ p.far[j] \notin {x, y}
    <3>1. ASSUME NEW j \in 1 .. 3, NEW e \in {p.near[j], p.far[j]} PROVE e \notin {x, y}
      <4>1. e = -1 \/ e \in InHand(p)
        BY DEF InHand, Numbers
      <4>2. e = -1 \/ e \in p.w.fds
        BY <4>1 DEF HasPipes
      <4>3. QED
        BY <2>4, <2>5, <4>2
    <3>2. QED
      BY <3>1
  <2>13. Distinct(q)
    <3>1. ASSUME NEW j \in 1 .. 3, NEW k \in 1 .. 3, near[j] = near[k], near[j] # -1 PROVE j = k
      BY <2>8, <2>12, <3>1 DEF HasPipes, Distinct
    <3>2. ASSUME NEW j \in 1 .. 3, NEW k \in 1 .. 3, near[j] = far[k] PROVE near[j] = -1
      BY <2>4, <2>8, <2>12, <3>2 DEF HasPipes, Distinct
    <3>3. QED
      BY <2>9, <3>1, <3>2 DEF Distinct
  <2>14. ASSUME Held(w, {}) PROVE Held(u, InHand(q))
    <3> DEFINE F == {x, y}
    <3>1. F \subseteq Unused(p.w)
      BY <2>4 DEF free
    <3>2. u.fds = p.w.fds \cup F /\ Held(p.w, InHand(p))
      BY <2>6, <2>14 DEF HasPipes
    <3> HIDE DEF F
    <3>3. Held(u, InHand(p) \cup F)
      BY <1>1, <2>6, <3>1, <3>2, OpenHeld
    <3>4. QED
      BY <2>11, <3>3 DEF F
  <2>15. InHand(q) \subseteq u.fds
    BY <2>6, <2>11 DEF HasPipes
  <2>16. \A j \in 1 .. 3 : IsFile(as[j]) \/ j > i => near[j] = -1 /\ far[j] = -1
    <3>1. \A j \in 1 .. 3 : j > i => j > n /\ j # i
      OBVIOUS
    <3>2. ~IsFile(as[i])
      BY <1>4
    <3>3. QED
      BY <2>8, <3>1, <3>2 DEF HasPipes
  <2>17. HasPipes(w, as, q, i)
    BY <2>6, <2>9, <2>13, <2>14, <2>15, <2>16 DEF HasPipes
  <2>18. QED
    BY <2>2, <2>17
<1>5. QED
  BY <1>2, <1>3, <1>4

(* The three of them.                                                      *)
LEMMA PipesMade ==
  ASSUME NEW w \in World, NEW as
  PROVE  HasPipes(w, as, Piped(w, as), 3)
<1> DEFINE p == Unpiped(w)
<1>1. p.w = w /\ p.near = <<-1, -1, -1>> /\ p.far = <<-1, -1, -1>>
  BY DEF Unpiped
<1>2. p \in Pipes
  <2>1. <<-1, -1, -1>> \in [1 .. 3 -> Number]
    BY DEF Number
  <2>2. QED
    BY <2>1 DEF Unpiped, Pipes
<1> HIDE DEF p
<1>3. \A i \in 1 .. 3 : p.near[i] = -1 /\ p.far[i] = -1
  BY <1>1
<1>4. InHand(p) = {} /\ Distinct(p)
  BY <1>3 DEF InHand, Numbers, Distinct
<1>5. HasPipes(w, as, p, 0)
  BY <1>1, <1>2, <1>3, <1>4 DEF HasPipes
<1>6. \A r, n, i : n \in 0 .. 2 /\ i \in 1 .. 3 /\ i = n + 1 /\ HasPipes(w, as, r, n)
                   => HasPipes(w, as, Pipe(r, as, i), i)
  BY PipeMade
<1>7. /\ \A r : HasPipes(w, as, r, 0) => HasPipes(w, as, Pipe(r, as, 1), 1)
      /\ \A r : HasPipes(w, as, r, 1) => HasPipes(w, as, Pipe(r, as, 2), 2)
      /\ \A r : HasPipes(w, as, r, 2) => HasPipes(w, as, Pipe(r, as, 3), 3)
  <2>1. /\ 0 \in 0 .. 2 /\ 1 \in 1 .. 3 /\ 1 = 0 + 1
        /\ 1 \in 0 .. 2 /\ 2 \in 1 .. 3 /\ 2 = 1 + 1
        /\ 2 \in 0 .. 2 /\ 3 \in 1 .. 3 /\ 3 = 2 + 1
    OBVIOUS
  <2>2. QED
    BY <1>6, <2>1, ZenonT(30)
<1>8. HasPipes(w, as, Pipe(p, as, 1), 1)
  BY <1>5, <1>7
<1>9. HasPipes(w, as, Pipe(Pipe(p, as, 1), as, 2), 2)
  BY <1>8, <1>7
<1>10. HasPipes(w, as, Pipe(Pipe(Pipe(p, as, 1), as, 2), as, 3), 3)
  BY <1>9, <1>7
<1>11. QED
  BY <1>10 DEF Piped, p

-----------------------------------------------------------------------------
(* Forking. *)

(* -1 is no descriptor.                                                    *)
LEMMA NoNumber ==
  ASSUME NEW w \in World
  PROVE  -1 \notin w.fds /\ -1 \notin Fd
BY WorldFields, FdAssumption

(* What is in hand is a set of descriptors.                                *)
LEMMA InHandFds ==
  ASSUME NEW p \in Pipes
  PROVE  /\ InHand(p) \in SUBSET Fd
         /\ \A i \in 1 .. 3 : /\ p.near[i] = -1 \/ p.near[i] \in InHand(p)
                              /\ p.far[i] = -1 \/ p.far[i] \in InHand(p)
<1>1. p.near \in [1 .. 3 -> Number] /\ p.far \in [1 .. 3 -> Number]
  BY DEF Pipes
<1>2. QED
  BY <1>1 DEF InHand, Numbers, Number

(* c is the child after the first n of its three files.                    *)
Redirected(p, c, n) ==
  /\ c \in [w : World, ok : BOOLEAN]
  /\ c.w.leaked = p.w.leaked
  /\ c.w.stale = p.w.stale /\ c.w.wild = p.w.wild /\ c.w.full = p.w.full
  /\ \A a \in Addr : c.w.heap[a].k = p.w.heap[a].k
  /\ Held(p.w, InHand(p)) => Held(c.w, c.w.fds \cap InHand(p))
  /\ c.ok => \A i \in 1 .. 3 : i <= n => p.far[i] \notin c.w.fds

(* From c to d only what is in hand was closed, and files, if anything.    *)
Shut(p, c, d) ==
  /\ d \in [w : World, ok : BOOLEAN] /\ (d.ok => c.ok)
  /\ d.w.leaked = c.w.leaked
  /\ d.w.stale = c.w.stale /\ d.w.wild = c.w.wild /\ d.w.full = c.w.full
  /\ \A a \in Addr : d.w.heap[a].k = c.w.heap[a].k
  /\ d.w.fds \subseteq c.w.fds
  /\ Held(c.w, c.w.fds \cap InHand(p)) => Held(d.w, d.w.fds \cap InHand(p))

(* That keeps it.                                                          *)
LEMMA RedirectedBy ==
  ASSUME NEW p, NEW c, NEW n \in 0 .. 2, NEW i \in 1 .. 3, i = n + 1, Redirected(p, c, n),
         NEW d, Shut(p, c, d), d.ok => p.far[i] \notin d.w.fds
  PROVE  Redirected(p, d, i)
<1>1. ASSUME d.ok, NEW j \in 1 .. 3, j <= i PROVE p.far[j] \notin d.w.fds
  <2>1. CASE j = i
    BY <1>1, <2>1
  <2>2. CASE j # i
    <3>1. j <= n
      BY <1>1, <2>2
    <3>2. QED
      BY <1>1, <3>1 DEF Redirected, Shut
  <2>3. QED
    BY <2>1, <2>2
<1>2. QED
  BY <1>1 DEF Redirected, Shut

(* A file that is given is one.                                            *)
LEMMA GivenFile ==
  ASSUME NEW b \in Given, IsFile(b)
  PROVE  b.v \in Addr
BY DEF Given, IsFile, NilBox, Box, Files

(* One file of the child.                                                  *)
LEMMA RedirectKeeps ==
  ASSUME NEW w \in World, NEW as \in Args(w), NEW p, HasPipes(w, as, p, 3),
         NEW c, NEW n \in 0 .. 2, NEW i \in 1 .. 3, i = n + 1, Redirected(p, c, n)
  PROVE  Redirected(p, Redirect(p, c, as[i], i), i)
<1> DEFINE b == as[i]
           d == Redirect(p, c, b, i)
           F == {p.far[i], p.near[i]}
<1>1. c.w \in World /\ c.ok \in BOOLEAN /\ c \in [w : World, ok : BOOLEAN]
  BY DEF Redirected
<1>2. p \in Pipes /\ p.w \in World /\ p.w.heap = w.heap
  BY DEF HasPipes, Pipes
<1>3. IsFile(b) => p.far[i] = -1 /\ p.far[i] \notin c.w.fds
  BY <1>1, NoNumber DEF HasPipes
<1>4. IsFile(b) => b.v \in Addr /\ c.w.heap[b.v].k \in {"file", "buf"}
  <2>1. b \in Given /\ (IsFile(b) => w.heap[b.v].k \in {"file", "buf"})
    BY DEF Args
  <2>2. QED
    BY <1>2, <2>1, GivenFile DEF Redirected
<1> HIDE DEF b
<1>5. ASSUME ~c.ok \/ (IsFile(b) /\ FdOf(c.w, b) = Std(i))
      PROVE  Shut(p, c, d) /\ (d.ok => p.far[i] \notin d.w.fds)
  <2>1. d = c
    BY <1>5 DEF Redirect
  <2>2. Shut(p, c, c)
    BY <1>1 DEF Shut
  <2>3. QED
    BY <1>3, <1>5, <2>1, <2>2 DEF Shut
<1>6. ASSUME ~(~c.ok \/ (IsFile(b) /\ FdOf(c.w, b) = Std(i))) /\ ~IsFile(b)
      PROVE  Shut(p, c, d) /\ (d.ok => p.far[i] \notin d.w.fds)
  <2> DEFINE v == Close(c.w, F)
  <2>1. d = [c EXCEPT !.w = v]
    BY <1>6 DEF Redirect
  <2>2. v \in World /\ v.heap = c.w.heap /\ v.fds = c.w.fds \ F /\ v.leaked = c.w.leaked
        /\ v.stale = c.w.stale /\ v.wild = c.w.wild /\ v.full = c.w.full
    BY <1>1, CloseFields
  <2>3. ASSUME Held(c.w, c.w.fds \cap InHand(p)) PROVE Held(v, v.fds \cap InHand(p))
    <3>1. F \cap c.w.fds \subseteq c.w.fds \cap InHand(p)
      BY <1>1, <1>2, InHandFds, NoNumber
    <3>2. (c.w.fds \cap InHand(p)) \ F = v.fds \cap InHand(p)
      BY <2>2
    <3>3. Held(Close(c.w, F), (c.w.fds \cap InHand(p)) \ F)
      BY <1>1, <2>3, <3>1, CloseHeld
    <3>4. QED
      BY <3>2, <3>3
  <2> HIDE DEF v
  <2>4. d.w = v /\ d.ok = c.ok /\ d \in [w : World, ok : BOOLEAN]
    BY <1>1, <2>1, <2>2
  <2>5. p.far[i] \notin v.fds
    BY <2>2
  <2> HIDE DEF d, F
  <2>6. QED
    BY <2>2, <2>3, <2>4, <2>5 DEF Shut
<1>7. ASSUME ~(~c.ok \/ (IsFile(b) /\ FdOf(c.w, b) = Std(i))) /\ IsFile(b) /\ FdOf(c.w, b) = -1
      PROVE  Shut(p, c, d) /\ (d.ok => p.far[i] \notin d.w.fds)
  <2>1. d = [c EXCEPT !.ok = FALSE]
    BY <1>7 DEF Redirect
  <2>2. d.w = c.w /\ ~d.ok /\ d \in [w : World, ok : BOOLEAN]
    BY <1>1, <2>1
  <2> HIDE DEF d
  <2>3. QED
    BY <2>2 DEF Shut
<1>8. ASSUME ~(~c.ok \/ (IsFile(b) /\ FdOf(c.w, b) = Std(i))) /\ IsFile(b) /\ FdOf(c.w, b) # -1
      PROVE  Shut(p, c, d) /\ (d.ok => p.far[i] \notin d.w.fds)
  <2> DEFINE v == Closed(c.w, b.v)
  <2>1. d = [c EXCEPT !.w = v]
    BY <1>8 DEF Redirect
  <2>2. v \in World /\ v.leaked = c.w.leaked
        /\ v.stale = c.w.stale /\ v.wild = c.w.wild /\ v.full = c.w.full
    BY <1>1, <1>4, <1>8, ClosedFields
  <2>3. v.fds \subseteq c.w.fds
    BY <1>1, <1>4, <1>8, ClosedFields
  <2>4. \A a \in Addr : v.heap[a].k = c.w.heap[a].k
    <3>1. \A a \in Addr \ {b.v} : v.heap[a] = c.w.heap[a]
      BY <1>1, <1>4, <1>8, ClosedFields
    <3>2. v.heap[b.v].k = c.w.heap[b.v].k
      BY <1>1, <1>4, <1>8, ClosedFields
    <3>3. QED
      BY <3>1, <3>2
  <2>5. ASSUME Held(c.w, c.w.fds \cap InHand(p)) PROVE Held(v, v.fds \cap InHand(p))
    <3>1. Held(v, c.w.fds \cap InHand(p))
      BY <1>1, <1>4, <1>8, <2>5, ClosedHeld
    <3>2. c.w.fds \cap InHand(p) = v.fds \cap InHand(p)
      BY <2>3, <3>1 DEF Held
    <3>3. QED
      BY <3>1, <3>2
  <2> HIDE DEF v
  <2>6. d.w = v /\ d.ok = c.ok /\ d \in [w : World, ok : BOOLEAN]
    BY <1>1, <2>1, <2>2
  <2>7. p.far[i] \notin v.fds
    BY <1>3, <1>8, <2>3
  <2> HIDE DEF d, F
  <2>8. QED
    BY <2>2, <2>3, <2>4, <2>5, <2>6, <2>7 DEF Shut
<1>9. Shut(p, c, d) /\ (d.ok => p.far[i] \notin d.w.fds)
  BY <1>5, <1>6, <1>7, <1>8
<1> HIDE DEF d
<1>10. Redirected(p, d, i)
  BY <1>9, RedirectedBy
<1>11. QED
  BY <1>10 DEF d, b

(* The child has no pipe but those that it is left with.                   *)
LEMMA ChildKeeps ==
  ASSUME NEW w \in World, NEW as \in Args(w), NEW p, HasPipes(w, as, p, 3)
  PROVE  Keeps(w, InChild(p, as).w)
<1> DEFINE started == [w |-> p.w, ok |-> TRUE]
           c == Redirect(p, Redirect(p, Redirect(p, started, as[1], 1), as[2], 2), as[3], 3)
           v == Close(c.w, Numbers(p.near))
           u == IF c.ok THEN v ELSE [v EXCEPT !.leaked = @ \cup (v.fds \cap Numbers(p.far))]
<1>1. p \in Pipes /\ p.w \in World
  BY DEF HasPipes, Pipes
<1>2. Redirected(p, started, 0)
  <2>1. started \in [w : World, ok : BOOLEAN] /\ started.w = p.w
    BY <1>1
  <2> HIDE DEF started
  <2>2. p.w.fds \cap InHand(p) = InHand(p)
    BY DEF HasPipes
  <2>3. \A i \in 1 .. 3 : ~(i <= 0)
    OBVIOUS
  <2>4. QED
    BY <2>1, <2>2, <2>3 DEF Redirected
<1> HIDE DEF started
<1>3. \A e, n, i : n \in 0 .. 2 /\ i \in 1 .. 3 /\ i = n + 1 /\ Redirected(p, e, n)
                   => Redirected(p, Redirect(p, e, as[i], i), i)
  BY RedirectKeeps
<1>4. /\ \A e : Redirected(p, e, 0) => Redirected(p, Redirect(p, e, as[1], 1), 1)
      /\ \A e : Redirected(p, e, 1) => Redirected(p, Redirect(p, e, as[2], 2), 2)
      /\ \A e : Redirected(p, e, 2) => Redirected(p, Redirect(p, e, as[3], 3), 3)
  <2>1. /\ 0 \in 0 .. 2 /\ 1 \in 1 .. 3 /\ 1 = 0 + 1
        /\ 1 \in 0 .. 2 /\ 2 \in 1 .. 3 /\ 2 = 1 + 1
        /\ 2 \in 0 .. 2 /\ 3 \in 1 .. 3 /\ 3 = 2 + 1
    OBVIOUS
  <2>2. QED
    BY <1>3, <2>1, ZenonT(30)
<1>5. Redirected(p, c, 3)
  BY <1>2, <1>4
<1>6. InChild(p, as).w = u
  BY DEF InChild, started
<1> HIDE DEF c
<1>7. c.w \in World /\ c.ok \in BOOLEAN
  BY <1>5 DEF Redirected
<1>8. v \in World /\ v.heap = c.w.heap /\ v.fds = c.w.fds \ Numbers(p.near) /\ v.leaked = c.w.leaked
      /\ v.stale = c.w.stale /\ v.wild = c.w.wild /\ v.full = c.w.full
  BY <1>7, CloseFields
<1>9. v.fds \cap InHand(p) = v.fds \cap Numbers(p.far)
  BY <1>8, NoNumber DEF InHand
<1>10. ASSUME Held(w, {}) PROVE Held(v, v.fds \cap Numbers(p.far))
  <2>1. Held(c.w, c.w.fds \cap InHand(p))
    BY <1>5, <1>10 DEF Redirected, HasPipes
  <2>2. Numbers(p.near) \cap c.w.fds \subseteq c.w.fds \cap InHand(p)
    BY <1>7, NoNumber DEF InHand
  <2>3. (c.w.fds \cap InHand(p)) \ Numbers(p.near) = v.fds \cap InHand(p)
    BY <1>8
  <2>4. Held(v, (c.w.fds \cap InHand(p)) \ Numbers(p.near))
    BY <1>7, <2>1, <2>2, CloseHeld
  <2>5. QED
    BY <1>9, <2>3, <2>4
<1>11. v.stale = w.stale /\ v.wild = w.wild /\ v.full = w.full
  BY <1>5, <1>8 DEF Redirected, HasPipes
<1> HIDE DEF v
<1>12. CASE c.ok
  <2>1. v.fds \cap Numbers(p.far) = {}
    <3>1. \A i \in 1 .. 3 : p.far[i] \notin c.w.fds
      BY <1>5, <1>12 DEF Redirected
    <3>2. QED
      BY <1>8, <3>1 DEF Numbers
  <2>2. Held(w, {}) => Held(v, {})
    BY <1>10, <2>1
  <2>3. u = v
    BY <1>12
  <2>4. QED
    BY <1>6, <1>8, <1>11, <2>2, <2>3 DEF Keeps, Good
<1>13. CASE ~c.ok
  <2> DEFINE x == [v EXCEPT !.leaked = @ \cup (v.fds \cap Numbers(p.far))]
  <2>1. u = x
    BY <1>13
  <2>2. v.fds \in SUBSET Fd
    BY <1>8, WorldFields
  <2>3. x \in World /\ x.heap = v.heap /\ x.fds = v.fds /\ x.leaked = v.leaked \cup (v.fds \cap Numbers(p.far))
        /\ x.stale = v.stale /\ x.wild = v.wild /\ x.full = v.full
    BY <1>8, <2>2 DEF World
  <2> HIDE DEF x
  <2>4. ASSUME Held(w, {}) PROVE Held(x, {})
    <3>1. Held(v, v.fds \cap Numbers(p.far))
      BY <1>10, <2>4
    <3>2. QED
      BY <1>8, <2>3, <3>1, LeakHeld
  <2>5. Keeps(w, x)
    BY <1>11, <2>3, <2>4 DEF Keeps, Good
  <2>6. QED
    BY <1>6, <2>1, <2>5
<1>14. QED
  BY <1>7, <1>12, <1>13

(* Without a process nothing is in hand.                                   *)
LEMMA NotForkedKeeps ==
  ASSUME NEW w \in World, NEW as, NEW p, HasPipes(w, as, p, 3)
  PROVE  Keeps(w, NotForked(p)) /\ Keeps(w, NotPiped(p, as))
<1> DEFINE F == Numbers(p.far) \cup Numbers(p.near)
           v == Close(p.w, F)
           e == \E j \in 1 .. 3 : j < p.at /\ IsFile(as[j])
           u == [v EXCEPT !.wild = @ \/ e]
<1>1. p \in Pipes /\ p.w \in World
  BY DEF HasPipes, Pipes
<1>2. v \in World /\ v.heap = p.w.heap /\ v.fds = p.w.fds \ F /\ v.leaked = p.w.leaked
      /\ v.stale = w.stale /\ v.wild = w.wild /\ v.full = w.full
  BY <1>1, CloseFields DEF HasPipes
<1>3. ASSUME Held(w, {}) PROVE Held(v, {})
  <2>1. Held(p.w, InHand(p))
    BY <1>3 DEF HasPipes
  <2>2. F \cap p.w.fds \subseteq InHand(p) /\ InHand(p) \ F = {}
    BY <1>1, NoNumber DEF InHand
  <2>3. Held(v, InHand(p) \ F)
    BY <1>1, <2>1, <2>2, CloseHeld
  <2>4. QED
    BY <2>2, <2>3
<1>4. NotForked(p) = v /\ NotPiped(p, as) = u
  BY DEF NotForked, NotPiped
<1> HIDE DEF v
<1>5. Keeps(w, v)
  BY <1>2, <1>3 DEF Keeps, Good
<1>6. Keeps(w, u)
  <2>1. e \in BOOLEAN
    OBVIOUS
  <2> HIDE DEF e
  <2>2. u \in World /\ u.heap = v.heap /\ u.fds = v.fds /\ u.leaked = v.leaked
        /\ u.stale = v.stale /\ u.full = v.full /\ u.wild = (v.wild \/ e)
    BY <1>2, <2>1 DEF World
  <2> HIDE DEF u
  <2>3. ASSUME Held(v, {}) PROVE Held(u, {})
    <3>1. \A a, i, d : Owns(u, a, i, d) <=> Owns(v, a, i, d)
      BY <2>2 DEF Owns
    <3>2. Claimed(u, {}) = Claimed(v, {}) /\ u.leaked \subseteq u.fds
      BY <2>2, <2>3 DEF Claimed, Held
    <3>3. QED
      BY <1>2, <2>2, <2>3, <3>1, <3>2, SameOwners
  <2>4. Good(u) => Good(w)
    BY <1>2, <2>2 DEF Good
  <2>5. QED
    BY <1>3, <2>2, <2>3, <2>4 DEF Keeps
<1>7. QED
  BY <1>4, <1>5, <1>6

(* In the parent the process has the near ends.                            *)
LEMMA ParentKeeps ==
  ASSUME NEW w \in World, NEW as, NEW p, HasPipes(w, as, p, 3)
  PROVE  Keeps(w, Place(InParent(p), ProcObj(p.near)).w)
<1> DEFINE F == Numbers(p.far)
           u == InParent(p)
           v == Place(u, ProcObj(p.near)).w
<1>1. p \in Pipes /\ p.w \in World /\ p.near \in [1 .. 3 -> Number]
  BY DEF HasPipes, Pipes
<1>2. u = Close(p.w, F)
  BY DEF InParent
<1> HIDE DEF u
<1>3. u \in World /\ u.stale = w.stale /\ u.wild = w.wild /\ u.full = w.full
  BY <1>1, <1>2, CloseFields DEF HasPipes
<1>4. ProcObj(p.near) \in Objs
  BY <1>1, NewObjs DEF Objs
<1>5. v \in World /\ v.stale = u.stale /\ v.wild = u.wild /\ (~v.full => ~u.full)
  BY <1>3, <1>4, Placed
<1>6. ASSUME Held(w, {}), ~v.full PROVE Held(v, {})
  <2> DEFINE X == InHand(p) \ F
  <2>1. F \cap p.w.fds \subseteq InHand(p)
    BY <1>1, NoNumber DEF InHand
  <2>2. Held(p.w, InHand(p))
    BY <1>6 DEF HasPipes
  <2>3. Held(u, X)
    BY <1>1, <1>2, <2>1, <2>2, CloseHeld
  <2>4. X \in SUBSET Fd
    BY <1>1, InHandFds
  <2>5. \A i \in 1 .. 3 : p.near[i] # -1 => p.near[i] \in X
    BY <1>1, InHandFds DEF HasPipes, Distinct, Numbers
  <2>6. \A i, j \in 1 .. 3 : p.near[i] = p.near[j] /\ p.near[i] # -1 => i = j
    BY DEF HasPipes, Distinct
  <2>7. X \ Numbers(p.near) = {}
    BY DEF InHand
  <2> HIDE DEF X
  <2>8. Held(v, X \ Numbers(p.near))
    BY <1>1, <1>3, <1>6, <2>3, <2>4, <2>5, <2>6, PlacedProc
  <2>9. QED
    BY <2>7, <2>8
<1> HIDE DEF v
<1>7. Keeps(w, v)
  BY <1>3, <1>5, <1>6 DEF Keeps, Good
<1>8. QED
  BY <1>7 DEF v, u

(* cx_proc_fork, however it ends and on whichever side.                    *)
LEMMA ForkKeeps ==
  ASSUME NEW w \in World, NEW as \in Args(w), NEW side
  PROVE  Keeps(w, Forked(w, as, side))
<1> DEFINE p == Piped(w, as)
<1>1. HasPipes(w, as, p, 3)
  BY PipesMade
<1>2. Forked(w, as, side) = CASE ~p.ok -> NotPiped(p, as)
                              [] p.ok /\ side = "parent" -> Place(InParent(p), ProcObj(p.near)).w
                              [] p.ok /\ side = "child" -> InChild(p, as).w
                              [] OTHER -> NotForked(p)
  BY DEF Forked
<1> HIDE DEF p
<1>3. /\ Keeps(w, NotPiped(p, as)) /\ Keeps(w, NotForked(p)) /\ Keeps(w, InChild(p, as).w)
      /\ Keeps(w, Place(InParent(p), ProcObj(p.near)).w)
  BY <1>1, NotForkedKeeps, ChildKeeps, ParentKeeps
<1>4. CASE ~p.ok
  BY <1>2, <1>3, <1>4
<1>5. CASE p.ok /\ side = "parent"
  BY <1>2, <1>3, <1>5
<1>6. CASE p.ok /\ side = "child"
  BY <1>2, <1>3, <1>6
<1>7. CASE p.ok /\ side # "parent" /\ side # "child"
  BY <1>2, <1>3, <1>7
<1>8. QED
  BY <1>4, <1>5, <1>6, <1>7

-----------------------------------------------------------------------------
(* The theorem. *)

(* cx_file_close                                                           *)
LEMMA CloseKeeps ==
  ASSUME NEW w \in World, NEW a \in Addr, w.heap[a].k \in {"file", "buf"}
  PROVE  Keeps(w, Closed(w, a))
<1> DEFINE v == Closed(w, a)
<1>1. v \in World /\ v.stale = w.stale /\ v.wild = w.wild /\ v.full = w.full
  BY ClosedFields
<1>2. Held(w, {}) => Held(v, {})
  BY ClosedHeld
<1> HIDE DEF v
<1>3. Keeps(w, v)
  BY <1>1, <1>2 DEF Keeps, Good
<1>4. QED
  BY <1>3 DEF v

(* What does not change who owns what.                                     *)
LEMMA UseKeeps ==
  ASSUME NEW w \in World, NEW a \in Addr
  PROVE  /\ \A n \in Nat : w.heap[a].k # "free" => Keeps(w, [w EXCEPT !.heap[a] = [w.heap[a] EXCEPT !.n = n]])
         /\ \A ptr \in BOOLEAN : w.heap[a].k \in {"file", "buf"}
                                 => Keeps(w, [w EXCEPT !.heap[a] = [w.heap[a] EXCEPT !.ptr = ptr]])
         /\ w.heap[a].k = "proc" => Keeps(w, [w EXCEPT !.heap[a] = [w.heap[a] EXCEPT !.pid = FALSE]])
<1> DEFINE o == w.heap[a]
           Like(q) == /\ q \in Objs /\ q.k = o.k
                      /\ q.k = "file" => q.fd = o.fd
                      /\ q.k = "proc" => q.fds = o.fds /\ q.ends = o.ends
<1>1. \A q : Like(q) => Keeps(w, [w EXCEPT !.heap[a] = q])
  BY StoreKeeps
<1>2. ASSUME NEW n \in Nat, o.k # "free" PROVE Like([o EXCEPT !.n = n])
  <2>1. CASE o \in FileObjs
    BY <2>1 DEF FileObjs, Objs
  <2>2. CASE o \in ProcObjs
    BY <2>2 DEF ProcObjs, Objs
  <2>3. CASE o \in BufObjs
    BY <2>3 DEF BufObjs, Objs
  <2>4. CASE o \in OtherObjs
    BY <2>4 DEF OtherObjs, Objs
  <2>5. QED
    BY <1>2, <2>1, <2>2, <2>3, <2>4, Kinds
<1>3. ASSUME NEW ptr \in BOOLEAN, o.k \in {"file", "buf"} PROVE Like([o EXCEPT !.ptr = ptr])
  <2>1. CASE o \in FileObjs
    BY <2>1 DEF FileObjs, Objs
  <2>2. CASE o \in BufObjs
    BY <2>2 DEF BufObjs, Objs
  <2>3. QED
    BY <1>3, <2>1, <2>2, Kinds
<1>4. ASSUME o.k = "proc" PROVE Like([o EXCEPT !.pid = FALSE])
  <2>1. o \in ProcObjs
    BY <1>4, Kinds
  <2>2. QED
    BY <2>1 DEF ProcObjs, Objs
<1> HIDE DEF Like
<1>5. QED
  BY <1>1, <1>2, <1>3, <1>4

(* Every step keeps the invariant.                                         *)
LEMMA NextKeeps ==
  ASSUME world \in World, Next, ~Misuse
  PROVE  Keeps(world, world')
<1>1. CASE OpenFile
  BY <1>1, OpenKeeps DEF OpenFile
<1>2. CASE NewObject
  BY <1>2, NewKeeps DEF NewObject
<1>3. CASE Fork
  BY <1>3, ForkKeeps DEF Fork
<1>4. ASSUME NEW a \in Addr, CloseFile(a) PROVE Keeps(world, world')
  BY <1>4, CloseKeeps DEF CloseFile, At
<1>5. ASSUME NEW a \in Addr, FileGone(a) PROVE Keeps(world, world')
  BY <1>5, FileGoneKeeps DEF FileGone, At
<1>6. ASSUME NEW a \in Addr, ProcGone(a) PROVE Keeps(world, world')
  BY <1>6, ProcGoneKeeps DEF ProcGone, At
<1>7. ASSUME NEW a \in Addr, OtherGone(a) PROVE Keeps(world, world')
  <2>1. \A i, d : ~Owns(world, a, i, d)
    BY <1>7, OwnerKinds DEF OtherGone, At
  <2>2. world' = [world EXCEPT !.heap[a] = Free]
    BY <1>7 DEF OtherGone, Becomes
  <2>3. Keeps(world, [world EXCEPT !.heap[a] = Free])
    BY <2>1, GoneKeeps
  <2>4. QED
    BY <2>2, <2>3
<1>8. ASSUME NEW a \in Addr, Count(a) \/ Use(a) \/ Exit(a) PROVE Keeps(world, world')
  <2>1. CASE Count(a)
    <3>1. PICK n \in Nat : world' = [world EXCEPT !.heap[a] = [world.heap[a] EXCEPT !.n = n]]
      BY <2>1 DEF Count, Becomes
    <3>2. world.heap[a].k # "free"
      BY <2>1 DEF Count, At
    <3>3. QED
      BY <3>1, <3>2, UseKeeps
  <2>2. CASE Use(a)
    <3>1. PICK ptr \in BOOLEAN : world' = [world EXCEPT !.heap[a] = [world.heap[a] EXCEPT !.ptr = ptr]]
      BY <2>2 DEF Use, Becomes
    <3>2. world.heap[a].k \in {"file", "buf"}
      BY <2>2 DEF Use, At
    <3>3. QED
      BY <3>1, <3>2, UseKeeps
  <2>3. CASE Exit(a)
    BY <2>3, UseKeeps DEF Exit, At, Becomes
  <2>4. QED
    BY <1>8, <2>1, <2>2, <2>3
<1>9. ASSUME NEW a \in Addr, NEW i \in 1 .. 3, KeepEnd(a, i) PROVE Keeps(world, world')
  BY <1>9, EndKeeps DEF KeepEnd, At
<1>10. QED
  BY <1>1, <1>2, <1>3, <1>4, <1>5, <1>6, <1>7, <1>8, <1>9 DEF Next

(* At the start only the standard files are there.                         *)
LEMMA InitHeld ==
  ASSUME Init
  PROVE  Inv
<1>1. world \in World /\ Claimed(world, {}) = {}
  BY DEF Init, Claimed
<1>2. \A a \in Addr, i \in 0 .. 3, d \in Fd : ~Owns(world, a, i, d)
  <2>1. ASSUME NEW a \in Addr, NEW i \in 0 .. 3, NEW d \in Fd, Owns(world, a, i, d) PROVE FALSE
    <3>1. world.heap[a].k = "file" /\ world.heap[a].fd \in 0 .. 2
      BY <2>1 DEF Init, Owns, Free
    <3>2. world.heap[a].fd = d
      BY <2>1, <3>1 DEF Owns
    <3>3. QED
      BY <3>1, <3>2, FdAssumption
  <2>2. QED
    BY <2>1
<1>3. OwnedOpen(world, {}) /\ OpenOwned(world, {}) /\ OneOwner(world)
  BY <1>1, <1>2 DEF OwnedOpen, OpenOwned, OneOwner
<1>4. world.leaked \subseteq world.fds /\ {} \subseteq world.fds \ world.leaked
  BY DEF Init
<1>5. QED
  BY <1>1, <1>3, <1>4 DEF Inv, Held

(* The invariant of the files and processes of a program.                  *)
LEMMA Invariance == Spec => []Inv
<1>1. Init => Inv
  BY InitHeld
<1>2. Inv /\ [Next]_world => Inv'
  <2> SUFFICES ASSUME Inv, [Next]_world PROVE Inv'
    OBVIOUS
  <2>1. CASE UNCHANGED world
    BY <2>1 DEF Inv
  <2>2. CASE Misuse
    BY <2>2 DEF Misuse, Inv, Good
  <2>3. CASE Next /\ ~Misuse
    <3>1. Keeps(world, world')
      BY <2>3, NextKeeps DEF Inv
    <3>2. QED
      BY <3>1 DEF Keeps, Inv
  <2>4. QED
    BY <2>1, <2>2, <2>3
<1>3. QED
  BY <1>1, <1>2, PTL DEF Spec

(* One slot is one owner.                                                  *)
LEMMA OwnersCounted ==
  ASSUME NEW w \in World, Held(w, {})
  PROVE  OwnedOnce(w)
<1> SUFFICES ASSUME NEW d \in Fd
             PROVE  IF d \in w.fds \ w.leaked THEN Cardinality(Owners(w, d)) = 1 ELSE Owners(w, d) = {}
  BY DEF OwnedOnce
<1>1. CASE d \in w.fds \ w.leaked
  <2>1. d \in Claimed(w, {})
    BY <1>1 DEF Claimed
  <2>2. PICK a \in Addr, i \in 0 .. 3 : Owns(w, a, i, d)
    BY <2>1 DEF Held, OpenOwned
  <2>3. Owners(w, d) = {<<a, i>>}
    <3>1. <<a, i>> \in Owners(w, d)
      BY <2>2 DEF Owners
    <3>2. ASSUME NEW o \in Owners(w, d) PROVE o = <<a, i>>
      <4>1. PICK b \in Addr, j \in 0 .. 3 : o = <<b, j>>
        BY DEF Owners
      <4>2. Owns(w, b, j, d)
        BY <4>1 DEF Owners
      <4>3. b = a /\ j = i
        BY <2>2, <4>2 DEF Held, OneOwner
      <4>4. QED
        BY <4>1, <4>3
    <3>3. QED
      BY <3>1, <3>2
  <2>4. QED
    BY <1>1, <2>3, FS_Singleton
<1>2. CASE d \notin w.fds \ w.leaked
  <2>1. \A a \in Addr, i \in 0 .. 3 : ~Owns(w, a, i, d)
    BY <1>2 DEF Held, OwnedOpen, Claimed
  <2>2. Owners(w, d) = {}
    BY <2>1 DEF Owners
  <2>3. QED
    BY <1>2, <2>2
<1>3. QED
  BY <1>1, <1>2

(* DescriptorsOwned, for any number of files, processes and descriptors:   *)
(* what is open is owned once, in the parent and in the child, whatever    *)
(* pipe or fork fails, and in whichever order files and processes go.      *)
THEOREM OwnedByOne == Spec => []DescriptorsOwned
<1>1. ASSUME Inv PROVE DescriptorsOwned
  <2> SUFFICES ASSUME Sound, ~world.wild PROVE OwnedOnce(world)
    BY DEF DescriptorsOwned
  <2>1. world \in World /\ Held(world, {})
    BY <1>1 DEF Inv, Good, Sound
  <2>2. QED
    BY <2>1, OwnersCounted
<1>2. QED
  BY <1>1, Invariance, PTL
=============================================================================
