--------------------------- MODULE BufferProofs ---------------------------
(***************************************************************************)
(* Proofs about Buffers, for reads, writes and buffers of any size: what   *)
(* comes into a buffer is written from it in order, and once but for what  *)
(* is in the room that short reads leave.                                  *)
(***************************************************************************)
EXTENDS Buffers, FiniteSetTheorems, TLAPS

Buffer ==
  [k : {"buf"}, fd : Int, ptr : BOOLEAN, data : Seq(Nat), wp : Nat, pos : Nat, len : Nat,
   in : Nat, out : Nat, room : SUBSET Nat]

(* Where nothing is that is to be written, memory has what was written     *)
(* before, or thrown away, or was never a byte.                            *)
Spent(d, R, p, w, o) == \A i \in 1 .. Len(d) : i \in Held(R, p, w) \/ d[i] <= o

(* The inductive invariant: besides the bytes, that the positions are in   *)
(* the memory and in order, that room is before the position, and what is  *)
(* in the rest of the memory.                                              *)
Good(b) ==
  /\ b.pos <= b.wp /\ b.wp <= Len(b.data) /\ b.out <= b.in
  /\ b.room \subseteq 1 .. b.wp
  /\ Kept(b)
  /\ Spent(b.data, b.room, b.pos, b.wp, b.out)

-----------------------------------------------------------------------------
(* A set of numbers after a that holds all up to each of its members is an *)
(* interval.                                                               *)
LEMMA DownClosed ==
  ASSUME NEW a \in Nat, NEW z \in Nat, NEW I \in SUBSET (a + 1 .. z),
         \A x \in I : a + 1 .. x \subseteq I
  PROVE  Cardinality(I) \in Nat /\ I = a + 1 .. a + Cardinality(I)
<1> DEFINE m == Cardinality(I)
<1>1. IsFiniteSet(a + 1 .. z)
  BY FS_Interval
<1>2. IsFiniteSet(I) /\ m \in Nat
  BY <1>1, FS_Subset, FS_CardinalityType
<1>3. ASSUME NEW x \in I PROVE x <= a + m
  <2>1. x \in Int /\ a + 1 \in Int /\ x >= a + 1
    OBVIOUS
  <2>2. Cardinality(a + 1 .. x) = x - (a + 1) + 1
    BY <2>1, FS_Interval
  <2>3. Cardinality(a + 1 .. x) <= m
    BY <1>2, <1>3, FS_Subset
  <2>4. QED
    BY <1>2, <2>1, <2>2, <2>3
<1>4. I \subseteq a + 1 .. a + m
  BY <1>2, <1>3
<1>5. IsFiniteSet(a + 1 .. a + m) /\ Cardinality(a + 1 .. a + m) = m
  <2> HIDE DEF m
  <2>1. PICK s \in Int, t \in Int : s = a + 1 /\ t = a + m
    BY <1>2
  <2>2. IsFiniteSet(s .. t) /\ Cardinality(s .. t) = IF s > t THEN 0 ELSE t - s + 1
    BY FS_Interval
  <2>3. QED
    BY <1>2, <2>1, <2>2
<1>6. I = a + 1 .. a + m
  BY <1>4, <1>5, FS_Subset
<1>7. QED
  BY <1>2, <1>6

(* Where a position that holds a byte is. *)
LEMMA HeldAt ==
  ASSUME NEW R, NEW from \in Nat, NEW to \in Nat
  PROVE  /\ Held(R, from, to) \subseteq Nat
         /\ \A i \in Nat : i \in Held(R, from, to) <=> from < i /\ i <= to /\ i \notin R
BY DEF Held

(* The bytes from one position to another. *)
Bytes(d, R, from, to) == {d[i] : i \in Held(R, from, to)}

(* Memory holds the bytes after o up to n from position p to w, in order. *)
InOrder(d, R, p, w, o, n) ==
  /\ Bytes(d, R, p, w) = o + 1 .. n
  /\ \A i, j \in Held(R, p, w) : i < j => d[i] < d[j]

(* What comes in behind the position is in order with what is there; room  *)
(* that nothing was read into does not count.                              *)
LEMMA Extended ==
  ASSUME NEW d \in Seq(Nat), NEW e \in Seq(Nat), NEW R \in SUBSET Nat, NEW Q \in SUBSET Nat, NEW p \in Nat, NEW w \in Nat, NEW o \in Nat, NEW n \in Nat,
         NEW v \in Nat, NEW m \in Nat,
         w + m <= v, p <= w, o <= n, InOrder(d, R, p, w, o, n), R \subseteq 1 .. w,
         \A i \in 1 .. w : e[i] = d[i],
         \A i \in w + 1 .. w + m : e[i] = n + (i - w),
         \A i \in 1 .. v : i \in Q <=> i \in R \/ i \in w + m + 1 .. v
  PROVE  InOrder(e, Q, p, v, o, n + m)
<1> DEFINE H == Held(R, p, w)
           G == Held(Q, p, v)
<1>a. {d[i] : i \in H} = o + 1 .. n
  BY DEF InOrder, Bytes
<1>b. /\ \A i \in H : d[i] \in o + 1 .. n
      /\ \A x \in o + 1 .. n : \E i \in H : d[i] = x
      /\ \A i, j \in H : i < j => d[i] < d[j]
  <2>1. \A i \in H : d[i] \in {d[h] : h \in H}
    OBVIOUS
  <2>2. \A x \in {d[h] : h \in H} : \E i \in H : d[i] = x
    OBVIOUS
  <2>3. QED
    BY <1>a, <2>1, <2>2 DEF InOrder
<1>c. H \subseteq Nat /\ \A i \in Nat : i \in H <=> p < i /\ i <= w /\ i \notin R
  BY HeldAt
<1>d. G \subseteq Nat /\ \A i \in Nat : i \in G <=> p < i /\ i <= v /\ i \notin Q
  BY HeldAt
<1> HIDE DEF H, G
<1>2. \A i \in H : e[i] = d[i] /\ e[i] \in o + 1 .. n /\ i <= w /\ i \in Nat
  <2> SUFFICES ASSUME NEW i \in H PROVE e[i] = d[i] /\ e[i] \in o + 1 .. n /\ i <= w /\ i \in Nat
    OBVIOUS
  <2>1. i \in Nat /\ i \in 1 .. w
    BY <1>c
  <2>2. QED
    BY <1>b, <2>1
<1>3. \A i \in w + 1 .. w + m : e[i] = n + (i - w) /\ e[i] \in Nat /\ i \in Nat
  OBVIOUS
<1>1. \A i : i \in G <=> i \in H \/ i \in w + 1 .. w + m
  <2>1. ASSUME NEW i \in G PROVE i \in H \/ i \in w + 1 .. w + m
    <3>1. i \in Nat /\ p < i /\ i <= v /\ i \notin Q
      BY <1>d
    <3>2. i \in 1 .. v
      BY <3>1
    <3>3. i \notin R /\ ~(i \in w + m + 1 .. v)
      BY <3>1, <3>2
    <3>4. CASE i <= w
      BY <1>c, <3>1, <3>3, <3>4
    <3>5. CASE i > w
      BY <3>1, <3>3, <3>5
    <3>6. QED
      BY <3>1, <3>4, <3>5
  <2>2. ASSUME NEW i \in H PROVE i \in G
    <3>1. i \in Nat /\ p < i /\ i <= w /\ i \notin R
      BY <1>c
    <3>2. i \in 1 .. v /\ ~(i \in w + m + 1 .. v)
      BY <3>1
    <3>3. i \notin Q
      BY <3>1, <3>2
    <3>4. QED
      BY <1>d, <3>1, <3>2, <3>3
  <2>3. ASSUME NEW i \in w + 1 .. w + m PROVE i \in G
    <3>1. i \in 1 .. v /\ p < i /\ i \notin 1 .. w /\ ~(i \in w + m + 1 .. v)
      OBVIOUS
    <3>2. i \notin Q
      BY <3>1
    <3>3. QED
      BY <1>d, <3>1, <3>2
  <2>4. QED
    BY <2>1, <2>2, <2>3
<1>4. {e[i] : i \in G} = o + 1 .. n + m
  <2>1. ASSUME NEW i \in G PROVE e[i] \in o + 1 .. n + m
    <3>1. CASE i \in H
      BY <1>2, <3>1
    <3>2. CASE i \in w + 1 .. w + m
      <4>1. e[i] = n + (i - w) /\ i \in Nat /\ w < i /\ i <= w + m
        BY <1>3, <3>2
      <4>2. QED
        BY <4>1
    <3>3. QED
      BY <1>1, <3>1, <3>2
  <2>2. ASSUME NEW x \in o + 1 .. n + m PROVE \E i \in G : e[i] = x
    <3>1. CASE x <= n
      <4>1. x \in o + 1 .. n
        BY <3>1
      <4>2. PICK i \in H : d[i] = x
        BY <1>b, <4>1
      <4>3. QED
        BY <1>1, <1>2, <4>2
    <3>2. CASE x > n
      <4>1. PICK i \in w + 1 .. w + m : i = w + (x - n)
        BY <3>2
      <4>2. e[i] = x
        BY <1>3, <3>2, <4>1
      <4>3. QED
        BY <1>1, <4>2
    <3>3. QED
      BY <3>1, <3>2
  <2>3. QED
    BY <2>1, <2>2
<1>5. ASSUME NEW i \in G, NEW j \in G, i < j PROVE e[i] < e[j]
  <2>1. CASE i \in H /\ j \in H
    BY <1>b, <1>2, <1>5, <2>1
  <2>2. CASE i \in H /\ j \in w + 1 .. w + m
    <3>1. e[i] \in o + 1 .. n
      BY <1>2, <2>2
    <3>2. e[j] = n + (j - w) /\ j \in Nat /\ w < j
      BY <1>3, <2>2
    <3>3. QED
      BY <3>1, <3>2
  <2>3. CASE i \in w + 1 .. w + m /\ j \in w + 1 .. w + m
    <3>1. e[i] = n + (i - w) /\ i \in Nat
      BY <1>3, <2>3
    <3>2. e[j] = n + (j - w) /\ j \in Nat
      BY <1>3, <2>3
    <3>3. QED
      BY <1>5, <3>1, <3>2
  <2>4. CASE i \in w + 1 .. w + m /\ j \in H
    <3>1. j \in Nat /\ j <= w
      BY <1>2, <2>4
    <3>2. i \in Nat /\ w < i
      BY <2>4
    <3>3. QED
      BY <1>5, <3>1, <3>2
  <2>5. QED
    BY <1>1, <2>1, <2>2, <2>3, <2>4
<1>6. QED
  BY <1>4, <1>5 DEF InOrder, Bytes, G

(* What is in order from p to w, taken apart at q. *)
Parted(d, R, p, q, w, o, n) ==
  LET m == Cardinality(Held(R, p, q)) IN
  /\ m \in Nat /\ o + m <= n
  /\ Bytes(d, R, p, q) = o + 1 .. o + m
  /\ InOrder(d, R, q, w, o + m, n)
  /\ q = w => o + m = n

(* Writing out what is up to a position takes the first bytes, and leaves  *)
(* the others in order.                                                    *)
LEMMA Divided ==
  ASSUME NEW d \in Seq(Nat), NEW R \in SUBSET Nat, NEW p \in Nat, NEW q \in Nat, NEW w \in Nat, NEW o \in Nat, NEW n \in Nat,
         p <= q, q <= w, o <= n, InOrder(d, R, p, w, o, n)
  PROVE  Parted(d, R, p, q, w, o, n)
<1> DEFINE G == Held(R, p, w)
           H == Held(R, p, q)
           F == Held(R, q, w)
           I == {d[i] : i \in H}
           m == Cardinality(I)
<1>1. /\ \A i \in G : d[i] \in o + 1 .. n
      /\ \A x \in o + 1 .. n : \E i \in G : d[i] = x
      /\ \A i, j \in G : i < j => d[i] < d[j]
  <2>1. {d[i] : i \in G} = o + 1 .. n /\ \A i, j \in G : i < j => d[i] < d[j]
    BY DEF InOrder, Bytes
  <2>2. \A i \in G : d[i] \in {d[h] : h \in G}
    OBVIOUS
  <2>3. \A x \in {d[h] : h \in G} : \E i \in G : d[i] = x
    OBVIOUS
  <2>4. QED
    BY <2>1, <2>2, <2>3
<1>2. G \subseteq Nat /\ \A i \in Nat : i \in G <=> p < i /\ i <= w /\ i \notin R
  BY HeldAt
<1>3. H \subseteq Nat /\ \A i \in Nat : i \in H <=> p < i /\ i <= q /\ i \notin R
  BY HeldAt
<1>4. F \subseteq Nat /\ \A i \in Nat : i \in F <=> q < i /\ i <= w /\ i \notin R
  BY HeldAt
<1>5. H \subseteq G /\ F \subseteq G /\ \A i \in G : i \in H <=> i <= q
  <2> HIDE DEF G, H, F
  <2> QED
    BY <1>2, <1>3, <1>4
<1>6. /\ \A i \in H : d[i] \in I
      /\ \A x \in I : \E i \in H : d[i] = x
  OBVIOUS
<1>7. IsFiniteSet(H) /\ Cardinality(I) = Cardinality(H)
  <2>1. IsFiniteSet(H)
    <3>1. p + 1 \in Int /\ q \in Int
      OBVIOUS
    <3>2. IsFiniteSet(p + 1 .. q)
      BY <3>1, FS_Interval
    <3>3. H \subseteq p + 1 .. q
      BY DEF Held
    <3>4. QED
      BY <3>2, <3>3, FS_Subset
  <2> DEFINE f == [i \in H |-> d[i]]
  <2>2. f \in [H -> I] /\ \A x \in I : \E i \in H : f[i] = x
    BY <1>6
  <2>3. ASSUME NEW i \in H, NEW j \in H, f[i] = f[j] PROVE i = j
    <3>1. i \in G /\ j \in G /\ i \in Nat /\ j \in Nat
      BY <1>3, <1>5
    <3>2. d[i] = d[j] /\ d[i] \in o + 1 .. n
      BY <1>1, <2>3, <3>1
    <3> HIDE DEF G, H, I
    <3>3. ~(i < j) /\ ~(j < i)
      BY <1>1, <3>1, <3>2
    <3>4. QED
      BY <3>1, <3>3
  <2>4. f \in Bijection(H, I)
    BY <2>2, <2>3 DEF Bijection, Injection, Surjection, IsInjective
  <2>5. QED
    BY <2>1, <2>4, FS_Bijection DEF ExistsBijection
<1> HIDE DEF G, H, F, I
<1>8. I \in SUBSET (o + 1 .. n)
  BY <1>1, <1>5, <1>6
<1>9. \A x \in I : o + 1 .. x \subseteq I
  <2> SUFFICES ASSUME NEW x \in I, NEW y \in o + 1 .. x PROVE y \in I
    OBVIOUS
  <2>1. PICK i \in H : d[i] = x
    BY <1>6
  <2>2. x \in o + 1 .. n /\ y \in o + 1 .. n /\ y <= x
    BY <1>8
  <2>3. PICK j \in G : d[j] = y
    BY <1>1, <2>2
  <2>4. i \in G /\ i \in Nat /\ j \in Nat /\ i <= q
    BY <1>2, <1>3, <1>5
  <2>5. ~(i < j)
    BY <1>1, <2>1, <2>2, <2>3, <2>4
  <2>6. j \in H
    BY <1>5, <2>4, <2>5
  <2>7. QED
    BY <1>6, <2>3, <2>6
<1>10. m \in Nat /\ I = o + 1 .. o + m
  BY <1>8, <1>9, DownClosed
<1> HIDE DEF m
<1>11. o + m <= n
  <2>1. CASE m = 0
    BY <1>10, <2>1
  <2>2. CASE m # 0
    <3>1. o + m \in I
      BY <1>10, <2>2
    <3>2. o + m \in o + 1 .. n
      BY <1>8, <3>1
    <3>3. QED
      BY <1>10, <3>2
  <2>3. QED
    BY <2>1, <2>2
<1>12. {d[i] : i \in F} = o + m + 1 .. n
  <2>1. ASSUME NEW i \in F PROVE d[i] \in o + m + 1 .. n
    <3>1. i \in G /\ i \in Nat /\ q < i
      BY <1>4, <1>5
    <3>2. d[i] \in o + 1 .. n
      BY <1>1, <3>1
    <3>3. d[i] \notin I
      <4> SUFFICES ASSUME d[i] \in I PROVE FALSE
        OBVIOUS
      <4>1. PICK h \in H : d[h] = d[i]
        BY <1>6
      <4>2. h \in G /\ h \in Nat /\ h <= q
        BY <1>3, <1>5
      <4>3. d[h] < d[i]
        BY <1>1, <3>1, <4>2
      <4>4. QED
        BY <3>2, <4>1, <4>3
    <3>4. QED
      BY <1>10, <3>2, <3>3
  <2>2. ASSUME NEW x \in o + m + 1 .. n PROVE \E i \in F : d[i] = x
    <3>1. x \in o + 1 .. n /\ x \notin I
      BY <1>10
    <3>2. PICK i \in G : d[i] = x
      BY <1>1, <3>1
    <3>3. i \notin H
      BY <1>6, <3>1, <3>2
    <3>4. i \in Nat /\ q < i /\ i <= w /\ i \notin R
      BY <1>2, <1>5, <3>3
    <3>5. QED
      BY <1>4, <3>2, <3>4
  <2>3. QED
    BY <2>1, <2>2
<1>13. \A i, j \in F : i < j => d[i] < d[j]
  BY <1>1, <1>5
<1>14. q = w => o + m = n
  <2> SUFFICES ASSUME q = w, o + m < n PROVE FALSE
    BY <1>10, <1>11
  <2>1. n \in o + 1 .. n
    BY <1>10
  <2>2. PICK i \in G : d[i] = n
    BY <1>1, <2>1
  <2>3. i \in H
    BY <1>2, <1>5
  <2>4. n \in I
    BY <1>6, <2>2, <2>3
  <2>5. QED
    BY <1>10, <2>4
<1>15. InOrder(d, R, q, w, o + m, n)
  BY <1>12, <1>13 DEF InOrder, Bytes, F
<1>16. m = Cardinality(Held(R, p, q))
  BY <1>7 DEF m, H
<1>17. Bytes(d, R, p, q) = o + 1 .. o + m
  BY <1>10 DEF I, H, Bytes
<1>18. QED
  BY <1>10, <1>11, <1>14, <1>15, <1>16, <1>17 DEF Parted

-----------------------------------------------------------------------------
(* The fields of a buffer. *)
LEMMA Fields ==
  ASSUME NEW b \in Buffer
  PROVE  /\ b.data \in Seq(Nat) /\ b.wp \in Nat /\ b.pos \in Nat /\ b.len \in Nat
         /\ b.in \in Nat /\ b.out \in Nat /\ b.room \in SUBSET Nat /\ Len(b.data) \in Nat
         /\ \A i \in 1 .. Len(b.data) : b.data[i] \in Nat
BY DEF Buffer

LEMMA GoodMeans ==
  ASSUME NEW b \in Buffer
  PROVE  Good(b) <=> /\ b.pos <= b.wp /\ b.wp <= Len(b.data) /\ b.out <= b.in
                     /\ b.room \subseteq 1 .. b.wp
                     /\ InOrder(b.data, b.room, b.pos, b.wp, b.out, b.in)
                     /\ Spent(b.data, b.room, b.pos, b.wp, b.out)
<1>1. /\ b.wp \in Nat /\ b.pos \in Nat /\ Len(b.data) \in Nat
  BY Fields
<1>2. ASSUME b.wp <= Len(b.data), Spent(b.data, b.room, b.pos, b.wp, b.out), NEW i \in b.pos + 1 .. b.wp, i \in b.room
      PROVE  b.data[i] <= b.out
  <2>1. i \in 1 .. Len(b.data) /\ i \notin Held(b.room, b.pos, b.wp)
    BY <1>1, <1>2 DEF Held
  <2>2. QED
    BY <1>2, <2>1 DEF Spent
<1>3. QED
  BY <1>2 DEF Good, Kept, InOrder, Bytes

(* What comes into memory. *)
LEMMA MemoryAt ==
  ASSUME NEW b \in Buffer, Good(b), NEW n \in Nat, NEW k \in 0 .. n
  PROVE  LET e == Memory(b, k, n) IN
         /\ e \in Seq(Nat) /\ Len(e) \in Nat /\ b.wp + n <= Len(e)
         /\ \A i \in 1 .. b.wp : e[i] = b.data[i]
         /\ \A i \in b.wp + 1 .. b.wp + k : e[i] = b.in + (i - b.wp)
         /\ \A i \in 1 .. Len(e) : i \notin b.wp + 1 .. b.wp + k =>
              e[i] = Gap \/ (i \in 1 .. Len(b.data) /\ e[i] = b.data[i])
<1> DEFINE e == Memory(b, k, n)
           l == IF b.wp + n > Len(b.data) THEN b.wp + n ELSE Len(b.data)
<1>1. /\ b.wp \in Nat /\ b.in \in Nat /\ Len(b.data) \in Nat /\ b.wp <= Len(b.data)
      /\ \A i \in 1 .. Len(b.data) : b.data[i] \in Nat
  BY Fields, GoodMeans
<1>2. l \in Nat /\ b.wp + n <= l /\ b.wp <= l
  BY <1>1
<1>3. e = [i \in 1 .. l |-> IF i \in b.wp + 1 .. b.wp + k THEN b.in + (i - b.wp)
                           ELSE IF i <= Len(b.data) THEN b.data[i] ELSE Gap]
  BY DEF Memory
<1> HIDE DEF l, e
<1>4. \A i \in 1 .. l : e[i] = IF i \in b.wp + 1 .. b.wp + k THEN b.in + (i - b.wp)
                              ELSE IF i <= Len(b.data) THEN b.data[i] ELSE Gap
  BY <1>3
<1>5. \A i \in 1 .. l : (IF i \in b.wp + 1 .. b.wp + k THEN b.in + (i - b.wp)
                         ELSE IF i <= Len(b.data) THEN b.data[i] ELSE Gap) \in Nat
  <2> SUFFICES ASSUME NEW i \in 1 .. l
               PROVE  (IF i \in b.wp + 1 .. b.wp + k THEN b.in + (i - b.wp)
                       ELSE IF i <= Len(b.data) THEN b.data[i] ELSE Gap) \in Nat
    OBVIOUS
  <2>1. i \in Nat /\ (i \in b.wp + 1 .. b.wp + k => b.in + (i - b.wp) \in Nat)
    <3>1. PICK w \in Nat, x \in Nat : w = b.wp /\ x = b.in
      BY <1>1
    <3>2. i \in w + 1 .. w + k => x + (i - w) \in Nat
      OBVIOUS
    <3>3. QED
      BY <1>2, <3>1, <3>2
  <2>2. i <= Len(b.data) => b.data[i] \in Nat
    BY <1>1, <1>2
  <2>3. QED
    BY <2>1, <2>2 DEF Gap
<1>6. e \in Seq(Nat) /\ Len(e) = l
  <2>1. e \in [1 .. l -> Nat]
    BY <1>3, <1>5
  <2>2. QED
    BY <1>2, <2>1
<1>7. \A i \in 1 .. b.wp : e[i] = b.data[i]
  BY <1>1, <1>2, <1>4
<1>8. \A i \in b.wp + 1 .. b.wp + k : e[i] = b.in + (i - b.wp)
  BY <1>1, <1>2, <1>4
<1>9. \A i \in 1 .. Len(e) : i \notin b.wp + 1 .. b.wp + k =>
        e[i] = Gap \/ (i \in 1 .. Len(b.data) /\ e[i] = b.data[i])
  BY <1>1, <1>2, <1>4, <1>6
<1>10. QED
  BY <1>2, <1>6, <1>7, <1>8, <1>9 DEF e

(* A new buffer is empty. *)
LEMMA NewIsGood == BufObj \in Buffer /\ Good(BufObj)
<1>1. <<>> \in Seq(Nat) /\ Len(<<>>) = 0
  OBVIOUS
<1>2. BufObj \in Buffer
  BY <1>1 DEF BufObj, Buffer
<1>3. Held({}, 0, 0) = {}
  BY DEF Held
<1>4. QED
  BY <1>1, <1>2, <1>3 DEF BufObj, Good, Kept, Spent

(* What Extended says of a buffer that bytes came into: m of them, and the *)
(* position goes to v, with room from the last of them on.                 *)
LEMMA GoodExtended ==
  ASSUME NEW b \in Buffer, Good(b), NEW c \in Buffer, NEW n \in Nat, NEW m \in 0 .. n,
         c.pos = b.pos, c.out = b.out, c.in = b.in + m, c.data = Memory(b, m, n),
         b.wp + m <= c.wp, c.wp <= b.wp + n,
         c.room = b.room \cup (b.wp + m + 1 .. c.wp)
  PROVE  Good(c)
<1>1. /\ b.data \in Seq(Nat) /\ b.wp \in Nat /\ b.pos \in Nat /\ b.in \in Nat /\ b.out \in Nat
      /\ b.pos <= b.wp /\ b.wp <= Len(b.data) /\ b.out <= b.in
      /\ b.room \subseteq 1 .. b.wp
      /\ InOrder(b.data, b.room, b.pos, b.wp, b.out, b.in)
      /\ Spent(b.data, b.room, b.pos, b.wp, b.out)
  BY Fields, GoodMeans
<1>2. c.wp \in Nat /\ m \in Nat
  BY Fields
<1>3. /\ b.wp + n <= Len(c.data) /\ Len(c.data) \in Nat
      /\ \A i \in 1 .. b.wp : c.data[i] = b.data[i]
      /\ \A i \in b.wp + 1 .. b.wp + m : c.data[i] = b.in + (i - b.wp)
      /\ \A i \in 1 .. Len(c.data) : i \notin b.wp + 1 .. b.wp + m =>
           c.data[i] = Gap \/ (i \in 1 .. Len(b.data) /\ c.data[i] = b.data[i])
  BY MemoryAt
<1>4. \A i \in 1 .. c.wp : i \in c.room <=> i \in b.room \/ i \in b.wp + m + 1 .. c.wp
  OBVIOUS
<1>5. InOrder(c.data, c.room, b.pos, c.wp, b.out, b.in + m)
  <2>1. PICK d \in Seq(Nat), R \in SUBSET Nat, p \in Nat, w \in Nat, o \in Nat, x \in Nat, v \in Nat :
          d = b.data /\ R = b.room /\ p = b.pos /\ w = b.wp /\ o = b.out /\ x = b.in /\ v = c.wp
    BY <1>1, <1>2, Fields
  <2>2. PICK e \in Seq(Nat), Q \in SUBSET Nat : e = c.data /\ Q = c.room
    BY Fields
  <2>3. w + m <= v /\ p <= w /\ o <= x /\ InOrder(d, R, p, w, o, x) /\ R \subseteq 1 .. w
    BY <1>1, <2>1
  <2>4. /\ \A i \in 1 .. w : e[i] = d[i]
        /\ \A i \in w + 1 .. w + m : e[i] = x + (i - w)
        /\ \A i \in 1 .. v : i \in Q <=> i \in R \/ i \in w + m + 1 .. v
    BY <1>3, <1>4, <2>1, <2>2
  <2>5. InOrder(e, Q, p, v, o, x + m)
    BY <1>2, <2>3, <2>4, Extended
  <2>6. QED
    BY <2>1, <2>2, <2>5
<1>6. c.pos <= c.wp /\ c.out <= c.in /\ c.wp <= Len(c.data) /\ c.room \subseteq 1 .. c.wp
  <2>1. c.pos <= c.wp /\ c.out <= c.in /\ c.wp <= Len(c.data)
    BY <1>1, <1>2, <1>3
  <2>2. b.wp + m + 1 .. c.wp \subseteq 1 .. c.wp /\ 1 .. b.wp \subseteq 1 .. c.wp
    BY <1>1, <1>2
  <2>3. QED
    BY <1>1, <2>1, <2>2
<1>7. Spent(c.data, c.room, c.pos, c.wp, c.out)
  <2> SUFFICES ASSUME NEW i \in 1 .. Len(c.data), i \notin Held(c.room, b.pos, c.wp) PROVE c.data[i] <= b.out
    BY DEF Spent
  <2>1. i \in Nat /\ (b.pos < i /\ i <= c.wp => i \in c.room)
    BY <1>1, <1>2 DEF Held
  <2>2. i \notin b.wp + 1 .. b.wp + m
    <3> SUFFICES ASSUME i \in b.wp + 1 .. b.wp + m PROVE FALSE
      OBVIOUS
    <3>1. b.pos < i /\ i <= c.wp /\ i \notin 1 .. b.wp /\ i \notin b.wp + m + 1 .. c.wp
      BY <1>1, <1>2
    <3>2. QED
      BY <1>1, <2>1, <3>1
  <2>3. CASE c.data[i] = Gap
    BY <1>1, <2>3 DEF Gap
  <2>4. CASE i \in 1 .. Len(b.data) /\ c.data[i] = b.data[i]
    <3>1. i \notin Held(b.room, b.pos, b.wp)
      <4> SUFFICES ASSUME b.pos < i, i <= b.wp, i \notin b.room PROVE FALSE
        BY <1>1 DEF Held
      <4>1. i \in c.room /\ i \notin b.wp + m + 1 .. c.wp
        BY <1>1, <1>2, <2>1
      <4>2. QED
        BY <4>1
    <3>2. QED
      BY <1>1, <2>4, <3>1 DEF Spent
  <2>5. QED
    BY <1>3, <2>2, <2>3, <2>4
<1>8. QED
  BY <1>5, <1>6, <1>7, GoodMeans

(* print keeps the bytes. *)
LEMMA PrintKeeps ==
  ASSUME NEW b \in Buffer, Good(b)
  PROVE  Printed(b) \in Buffer /\ Good(Printed(b))
<1> DEFINE e == Memory(b, 1, 1)
           c == Printed(b)
<1>1. b.in \in Nat /\ b.wp \in Nat /\ e \in Seq(Nat)
  BY Fields, MemoryAt, 1 \in Nat, 1 \in 0 .. 1
<1>2. c = [b EXCEPT !.data = e, !.wp = b.wp + 1, !.in = b.in + 1]
  BY DEF Printed, Buffer
<1>e. b.wp + 1 \in Nat /\ b.in + 1 \in Nat
  BY <1>1
<1> HIDE DEF e, c
<1>3. /\ c \in Buffer /\ c.pos = b.pos /\ c.out = b.out /\ c.in = b.in + 1 /\ c.wp = b.wp + 1
      /\ c.data = e /\ c.room = b.room
  BY <1>1, <1>e, <1>2 DEF Buffer
<1>4. c.room = b.room \cup (b.wp + 1 + 1 .. c.wp)
  BY <1>1, <1>3
<1>5. /\ c.pos = b.pos /\ c.out = b.out /\ c.in = b.in + 1 /\ c.data = Memory(b, 1, 1)
      /\ b.wp + 1 <= c.wp /\ c.wp <= b.wp + 1
  BY <1>1, <1>3 DEF e
<1>6. 1 \in Nat /\ 1 \in 0 .. 1
  OBVIOUS
<1>7. Good(c)
  BY <1>3, <1>4, <1>5, <1>6, GoodExtended
<1>8. QED
  BY <1>3, <1>7 DEF c

(* flush changes the length only. *)
LEMMA FlushKeeps ==
  ASSUME NEW b \in Buffer, Good(b)
  PROVE  Flushed(b) \in Buffer /\ Good(Flushed(b))
BY DEF Flushed, Buffer, Good, Kept

(* An empty buffer is good if all bytes that memory has are gone. *)
LEMMA GoodEmpty ==
  ASSUME NEW b \in Buffer, Good(b), NEW c \in Buffer,
         c.wp = 0, c.pos = 0, c.room = {}, c.out = b.in, c.in = b.in, c.data = b.data
  PROVE  Good(c)
<1>1. /\ b.in \in Nat /\ b.out \in Nat /\ Len(b.data) \in Nat /\ b.out <= b.in
      /\ InOrder(b.data, b.room, b.pos, b.wp, b.out, b.in)
      /\ Spent(b.data, b.room, b.pos, b.wp, b.out)
      /\ \A i \in 1 .. Len(b.data) : b.data[i] \in Nat
  BY Fields, GoodMeans
<1>2. Held({}, 0, 0) = {}
  BY DEF Held
<1>3. InOrder(c.data, {}, 0, 0, b.in, b.in)
  BY <1>1, <1>2 DEF InOrder, Bytes
<1>4. \A i \in 1 .. Len(b.data) : b.data[i] <= b.in
  <2> SUFFICES ASSUME NEW i \in 1 .. Len(b.data) PROVE b.data[i] <= b.in
    OBVIOUS
  <2>1. CASE i \in Held(b.room, b.pos, b.wp)
    <3>1. b.data[i] \in Bytes(b.data, b.room, b.pos, b.wp)
      BY <2>1 DEF Bytes
    <3>2. b.data[i] \in b.out + 1 .. b.in
      BY <1>1, <3>1 DEF InOrder
    <3>3. QED
      BY <1>1, <3>2
  <2>2. CASE i \notin Held(b.room, b.pos, b.wp)
    <3>1. b.data[i] <= b.out
      BY <1>1, <2>2 DEF Spent
    <3>2. QED
      BY <1>1, <3>1
  <2>3. QED
    BY <2>1, <2>2
<1>5. Spent(c.data, {}, 0, 0, b.in)
  BY <1>4 DEF Spent
<1>6. c.pos <= c.wp /\ c.wp <= Len(c.data) /\ c.out <= c.in /\ c.room \subseteq 1 .. c.wp
  BY <1>1
<1>7. /\ InOrder(c.data, c.room, c.pos, c.wp, c.out, c.in)
      /\ Spent(c.data, c.room, c.pos, c.wp, c.out)
  BY <1>3, <1>5
<1>8. QED
  BY <1>6, <1>7, GoodMeans

(* clear starts again, with what came in counted as written. *)
LEMMA ClearKeeps ==
  ASSUME NEW b \in Buffer, Good(b)
  PROVE  Emptied(b) \in Buffer /\ Good(Emptied(b))
<1> DEFINE c == Emptied(b)
<1>1. c = [b EXCEPT !.wp = 0, !.pos = 0, !.room = {}, !.out = b.in]
  BY DEF Emptied, Cleared, Buffer
<1>2. b.in \in Nat
  BY Fields
<1> HIDE DEF c
<1>3. /\ c \in Buffer /\ c.wp = 0 /\ c.pos = 0 /\ c.room = {} /\ c.out = b.in /\ c.in = b.in
      /\ c.data = b.data
  BY <1>1, <1>2 DEF Buffer
<1>4. QED
  BY <1>3, GoodEmpty DEF c

(* read-bytes keeps the bytes, at the end of the file too. *)
LEMMA ReadKeeps ==
  ASSUME NEW b \in Buffer, Good(b), NEW n \in Nat, NEW k \in 0 .. n, NEW end \in BOOLEAN, end => k = 0
  PROVE  Filled(b, n, k, end) \in Buffer /\ Good(Filled(b, n, k, end))
<1> DEFINE e == Memory(b, k, n)
           v == IF end THEN b.wp ELSE b.wp + n
           r == IF end THEN b.room ELSE b.room \cup (b.wp + k + 1 .. b.wp + n)
           c == Filled(b, n, k, end)
<1>1. b.in \in Nat /\ b.wp \in Nat /\ b.room \in SUBSET Nat /\ e \in Seq(Nat) /\ k \in Nat
  BY Fields, MemoryAt
<1>2. c = [b EXCEPT !.data = e, !.in = b.in + k, !.len = b.wp + n, !.wp = v, !.room = r]
  BY DEF Filled, Buffer
<1>3. v \in Nat /\ b.wp + k <= v /\ v <= b.wp + n /\ r \in SUBSET Nat
  BY <1>1
<1>4. r = b.room \cup (b.wp + k + 1 .. v)
  BY <1>1
<1>e. b.in + k \in Nat /\ b.wp + n \in Nat
  BY <1>1
<1> HIDE DEF e, c, v, r
<1>5. /\ c \in Buffer /\ c.pos = b.pos /\ c.out = b.out /\ c.in = b.in + k /\ c.wp = v
      /\ c.data = e /\ c.room = r
  BY <1>1, <1>2, <1>3, <1>e DEF Buffer
<1>6. Good(c)
  BY <1>3, <1>4, <1>5, GoodExtended DEF e
<1>7. QED
  BY <1>5, <1>6 DEF c

(* write-bytes keeps the bytes if the buffer was flushed after the last    *)
(* one came in, and what it writes is what comes next.                     *)
LEMMA WriteKeeps ==
  ASSUME NEW b \in Buffer, Good(b), b.len = b.wp, NEW k \in 0 .. b.len - b.pos
  PROVE  /\ Drained(b, k) \in Buffer /\ Good(Drained(b, k))
         /\ Bytes(b.data, b.room, b.pos, b.pos + k) = b.out + 1 .. Drained(b, k).out
         /\ \A i \in b.pos + 1 .. b.pos + k : i \in b.room => b.data[i] <= b.out
<1> DEFINE m == Cardinality(Held(b.room, b.pos, b.pos + k))
           q == b.pos + k
           c == Drained(b, k)
<1>1. /\ b.data \in Seq(Nat) /\ b.wp \in Nat /\ b.pos \in Nat /\ b.in \in Nat /\ b.out \in Nat
      /\ b.pos <= b.wp /\ b.wp <= Len(b.data) /\ b.out <= b.in /\ Len(b.data) \in Nat
      /\ b.room \in SUBSET Nat /\ b.room \subseteq 1 .. b.wp
      /\ InOrder(b.data, b.room, b.pos, b.wp, b.out, b.in)
      /\ Spent(b.data, b.room, b.pos, b.wp, b.out)
      /\ \A i \in 1 .. Len(b.data) : b.data[i] \in Nat
  BY Fields, GoodMeans
<1>2. q \in Nat /\ b.pos <= q /\ q <= b.wp
  BY <1>1
<1>3. /\ m \in Nat /\ b.out + m <= b.in
      /\ Bytes(b.data, b.room, b.pos, q) = b.out + 1 .. b.out + m
      /\ InOrder(b.data, b.room, q, b.wp, b.out + m, b.in)
      /\ q = b.wp => b.out + m = b.in
  <2> HIDE DEF c
  <2>1. PICK d \in Seq(Nat), R \in SUBSET Nat, p \in Nat, r \in Nat, w \in Nat, o \in Nat, n \in Nat :
          d = b.data /\ R = b.room /\ p = b.pos /\ r = q /\ w = b.wp /\ o = b.out /\ n = b.in
    BY <1>1, <1>2
  <2>2. p <= r /\ r <= w /\ o <= n /\ InOrder(d, R, p, w, o, n)
    BY <1>1, <1>2, <2>1
  <2> HIDE DEF m, q
  <2>3. Parted(d, R, p, r, w, o, n)
    BY <2>2, Divided
  <2>4. Parted(b.data, b.room, b.pos, q, b.wp, b.out, b.in)
    BY <2>1, <2>3
  <2>5. QED
    BY <2>4 DEF Parted, m, q
<1>4. c = [Sent(b, k) EXCEPT !.out = @ + m]
  BY DEF Drained
<1>5. \A i \in b.pos + 1 .. q : i \in b.room => b.data[i] <= b.out
  <2> SUFFICES ASSUME NEW i \in b.pos + 1 .. q, i \in b.room PROVE b.data[i] <= b.out
    OBVIOUS
  <2>1. i \in 1 .. Len(b.data) /\ i \notin Held(b.room, b.pos, b.wp)
    BY <1>1, <1>2 DEF Held
  <2>2. QED
    BY <1>1, <2>1 DEF Spent
<1> HIDE DEF m, c
<1>6. b.out + m \in Nat
  BY <1>1, <1>3
<1>7. CASE q = b.wp
  <2>1. Sent(b, k) = [b EXCEPT !.wp = 0, !.pos = 0, !.room = {}]
    BY <1>7 DEF Sent, Cleared, Buffer
  <2>2. /\ c \in Buffer /\ c.wp = 0 /\ c.pos = 0 /\ c.room = {} /\ c.in = b.in /\ c.out = b.out + m
        /\ c.data = b.data
    <3>1. c = [b EXCEPT !.wp = 0, !.pos = 0, !.room = {}, !.out = b.out + m]
      BY <1>4, <2>1 DEF Buffer
    <3>2. QED
      BY <1>6, <3>1 DEF Buffer
  <2>3. c.out = b.in
    BY <1>3, <1>7, <2>2
  <2>4. Good(c)
    BY <2>2, <2>3, GoodEmpty
  <2>5. QED
    BY <1>3, <1>5, <2>2, <2>4 DEF c
<1>8. CASE q # b.wp
  <2>1. Sent(b, k) = [b EXCEPT !.pos = q]
    BY <1>8 DEF Sent, Buffer
  <2>2. /\ c \in Buffer /\ c.wp = b.wp /\ c.pos = q /\ c.in = b.in /\ c.out = b.out + m
        /\ c.data = b.data /\ c.room = b.room
    <3> HIDE DEF q
    <3>1. QED
      BY <1>2, <1>4, <1>6, <2>1 DEF Buffer
  <2>3. Spent(c.data, c.room, c.pos, c.wp, c.out)
    <3> SUFFICES ASSUME NEW i \in 1 .. Len(b.data), i \notin Held(b.room, q, b.wp) PROVE b.data[i] <= b.out + m
      BY <2>2 DEF Spent
    <3>1. CASE i \in Held(b.room, b.pos, q)
      <4>1. b.data[i] \in Bytes(b.data, b.room, b.pos, q)
        BY <3>1 DEF Bytes
      <4>2. b.data[i] \in b.out + 1 .. b.out + m
        BY <1>3, <4>1
      <4>3. QED
        BY <1>6, <4>2
    <3>2. CASE i \notin Held(b.room, b.pos, q)
      <4>1. i \notin Held(b.room, b.pos, b.wp)
        <5> HIDE DEF q
        <5>1. QED
          BY <1>1, <1>2, <3>2 DEF Held
      <4>2. b.data[i] <= b.out /\ b.data[i] \in Nat
        BY <1>1, <4>1 DEF Spent
      <4>3. QED
        BY <1>1, <1>3, <4>2
    <3>3. QED
      BY <3>1, <3>2
  <2>4. Good(c)
    BY <1>1, <1>2, <1>3, <2>2, <2>3, GoodMeans
  <2>5. QED
    BY <1>3, <1>5, <2>2, <2>4 DEF c
<1>9. QED
  BY <1>7, <1>8

-----------------------------------------------------------------------------
(* A buffer as Streams uses it: what PrintTo, FlushBuf, ClearBuf,          *)
(* ReadBytes and WriteBytes do to it, as long as it is Sound: flushed      *)
(* between what comes in and write-bytes, and not met with EAGAIN, which   *)
(* write-bytes counts as -1 bytes.                                         *)
VARIABLE buf

PrintTo == buf' = Printed(buf)
FlushBuf == buf' = Flushed(buf)
ClearBuf == buf' = Emptied(buf)
ReadBytes ==
  \E n \in Nat : \E k \in 0 .. n, end \in BOOLEAN :
    (end => k = 0) /\ buf' = Filled(buf, n, k, end)
WriteBytes(k) == buf.len = buf.wp /\ buf' = Drained(buf, k)

Init == buf = BufObj
Next == PrintTo \/ FlushBuf \/ ClearBuf \/ ReadBytes \/ \E k \in 0 .. buf.len - buf.pos : WriteBytes(k)
Spec == Init /\ [][Next]_buf

Inv == buf \in Buffer /\ Good(buf)

(* Every use of the buffer keeps the invariant. *)
LEMMA UseKeeps ==
  ASSUME Inv, [Next]_buf
  PROVE  Inv'
<1>1. CASE PrintTo
  BY <1>1, PrintKeeps DEF Inv, PrintTo
<1>2. CASE FlushBuf
  BY <1>2, FlushKeeps DEF Inv, FlushBuf
<1>3. CASE ClearBuf
  BY <1>3, ClearKeeps DEF Inv, ClearBuf
<1>4. CASE ReadBytes
  <2>1. PICK n \in Nat : \E k \in 0 .. n, end \in BOOLEAN :
          (end => k = 0) /\ buf' = Filled(buf, n, k, end)
    BY <1>4 DEF ReadBytes
  <2>2. PICK k \in 0 .. n, end \in BOOLEAN : (end => k = 0) /\ buf' = Filled(buf, n, k, end)
    BY <2>1
  <2>3. QED
    BY <2>2, ReadKeeps DEF Inv
<1>5. CASE \E k \in 0 .. buf.len - buf.pos : WriteBytes(k)
  BY <1>5, WriteKeeps DEF Inv, WriteBytes
<1>6. CASE UNCHANGED buf
  BY <1>6 DEF Inv
<1>7. QED
  BY <1>1, <1>2, <1>3, <1>4, <1>5, <1>6 DEF Next

(* The bytes that came into a buffer and were not written yet are in it,   *)
(* each once and in order, after any prints, reads, writes and clears of   *)
(* any size, and the room of short reads has none of them: what BytesKept  *)
(* says of the buffers of a program.                                       *)
THEOREM BytesStay == Spec => []Kept(buf)
<1>1. Init => Inv
  BY NewIsGood DEF Init, Inv
<1>2. Inv /\ [Next]_buf => Inv'
  BY UseKeeps
<1>3. Inv => Kept(buf)
  BY DEF Inv, Good
<1>4. QED
  BY <1>1, <1>2, <1>3, PTL DEF Spec

(* A write takes the bytes that follow what was written last, as they came *)
(* in, and nothing is skipped; what else it takes, it takes from room that *)
(* a short read left, and that is nothing that is still to be written.     *)
InTurn ==
  \A k \in 0 .. buf.len - buf.pos :
    WriteBytes(k) =>
      /\ Bytes(buf.data, buf.room, buf.pos, buf.pos + k) = buf.out + 1 .. buf'.out
      /\ \A i \in buf.pos + 1 .. buf.pos + k : i \in buf.room => buf.data[i] <= buf.out

(* Every write of a buffer is in turn. *)
THEOREM WrittenInTurn == Spec => [][InTurn]_buf
<1>1. Init => Inv
  BY NewIsGood DEF Init, Inv
<1>2. Inv /\ [Next]_buf => Inv'
  BY UseKeeps
<1>3. Inv => InTurn
  BY WriteKeeps DEF Inv, InTurn, WriteBytes
<1>4. Inv /\ [Next]_buf => [InTurn]_buf
  BY <1>3
<1>5. QED
  BY <1>1, <1>2, <1>4, PTL DEF Spec

=============================================================================
