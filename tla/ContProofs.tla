----------------------------- MODULE ContProofs -----------------------------
(***************************************************************************)
(* Proofs about Cont, for any coroutines, tasks and schedulers and any     *)
(* heights of the stacks, if coroutines are suspended and tasks are        *)
(* rescheduled by their own code only.  The inductive invariant is ContInv;*)
(* there is one lemma for each kind of step.                               *)
(***************************************************************************)
EXTENDS Cont, FiniteSetTheorems, TLAPS

(* What the operators on sequences return, entry by entry. *)
LEMMA Appended ==
  ASSUME NEW S, NEW s \in Seq(S), NEW e \in S
  PROVE  /\ Append(s, e) \in Seq(S) /\ Len(Append(s, e)) = Len(s) + 1
         /\ \A i \in 1 .. Len(s) : Append(s, e)[i] = s[i]
         /\ Append(s, e)[Len(s) + 1] = e
OBVIOUS

(* What SubSeq keeps from the front of a sequence.                         *)
LEMMA Shortened ==
  ASSUME NEW S, NEW s \in Seq(S), NEW n \in Nat, n <= Len(s)
  PROVE  /\ SubSeq(s, 1, n) \in Seq(S) /\ Len(SubSeq(s, 1, n)) = n
         /\ \A i \in 1 .. n : SubSeq(s, 1, n)[i] = s[i]
OBVIOUS

(* What SubSeq keeps from the end of a sequence.                           *)
LEMMA CutOff ==
  ASSUME NEW S, NEW s \in Seq(S), NEW n \in Nat, n <= Len(s)
  PROVE  /\ SubSeq(s, n + 1, Len(s)) \in Seq(S) /\ Len(SubSeq(s, n + 1, Len(s))) = Len(s) - n
         /\ \A i \in 1 .. Len(s) - n : SubSeq(s, n + 1, Len(s))[i] = s[n + i]
OBVIOUS

(* The two parts of a concatenation.                                       *)
LEMMA Joined ==
  ASSUME NEW S, NEW s \in Seq(S), NEW t \in Seq(S)
  PROVE  /\ s \o t \in Seq(S) /\ Len(s \o t) = Len(s) + Len(t)
         /\ \A i \in 1 .. Len(s) : (s \o t)[i] = s[i]
         /\ \A i \in 1 .. Len(t) : (s \o t)[Len(s) + i] = t[i]
OBVIOUS

(* Concatenation with a single element is Append.                          *)
LEMMA JoinOne ==
  ASSUME NEW S, NEW s \in Seq(S), NEW e \in S
  PROVE  s \o <<e>> = Append(s, e)
OBVIOUS

(* The end of a sequence may be a single element.                          *)
LEMMA OneOf ==
  ASSUME NEW S, NEW s \in Seq(S), NEW n \in Nat, n + 1 = Len(s)
  PROVE  SubSeq(s, n + 1, n + 1) = <<s[n + 1]>>
<1>1. PICK t : t = SubSeq(s, n + 1, Len(s))
  OBVIOUS
<1>2. t \in Seq(S) /\ Len(t) = Len(s) - n /\ \A i \in 1 .. Len(s) - n : t[i] = s[n + i]
  BY <1>1, CutOff
<1>3. Len(s) - n = 1 /\ 1 \in 1 .. Len(s) - n
  OBVIOUS
<1>4. Len(t) = 1 /\ t[1] = s[n + 1]
  BY <1>2, <1>3
<1>5. t = <<t[1]>>
  BY <1>2, <1>4
<1>6. QED
  BY <1>1, <1>4, <1>5

(* Front and Last in terms of SubSeq and the length.                       *)
LEMMA FrontIs ==
  ASSUME NEW S, NEW s \in Seq(S), Len(s) >= 1
  PROVE  Front(s) = SubSeq(s, 1, Len(s) - 1) /\ Last(s) = s[Len(s)] /\ Last(s) \in S
BY DEF Front, Last

-----------------------------------------------------------------------------
(* Which coroutine or task is innermost depends on the chain up to there. *)
LEMMA InnermostSame ==
  ASSUME NEW S, NEW n \in Nat, \A j \in 1 .. n : chain'[j] = chain[j], NEW i \in 0 .. n
  PROVE  InnermostAt(S, i)' = InnermostAt(S, i)
<1> DEFINE last == {m \in 1 .. i : chain[m] \in S /\ \A j \in m + 1 .. i : chain[j] \notin S}
<1>1. {m \in 1 .. i : chain'[m] \in S /\ \A j \in m + 1 .. i : chain'[j] \notin S} = last
  OBVIOUS
<1>2. CASE last = {}
  BY <1>1, <1>2 DEF InnermostAt
<1>3. CASE last # {}
  <2>1. (CHOOSE m \in last : TRUE) \in 1 .. n
    BY <1>3
  <2>2. QED
    BY <1>1, <1>3, <2>1 DEF InnermostAt
<1>4. QED
  BY <1>2, <1>3

(* One more control is the innermost if it is of that kind.                *)
LEMMA InnermostLast ==
  ASSUME NEW S, NEW n \in Nat
  PROVE  /\ InnermostAt(S, n + 1) = IF chain[n + 1] \in S THEN chain[n + 1] ELSE InnermostAt(S, n)
         /\ (InnermostAt(S, n + 1) = IF chain[n + 1] \in S THEN chain[n + 1] ELSE InnermostAt(S, n))'
<1> DEFINE last(i) == {m \in 1 .. i : chain[m] \in S /\ \A j \in m + 1 .. i : chain[j] \notin S}
<1>1. CASE chain[n + 1] \in S
  <2>1. last(n + 1) = {n + 1}
    BY <1>1
  <2>2. (CHOOSE m \in last(n + 1) : TRUE) = n + 1
    BY <2>1
  <2>3. QED
    BY <1>1, <2>1, <2>2 DEF InnermostAt
<1>2. CASE chain[n + 1] \notin S
  <2>1. last(n + 1) = last(n)
    BY <1>2
  <2>2. QED
    BY <1>2, <2>1 DEF InnermostAt
<1>3. InnermostAt(S, n + 1) = IF chain[n + 1] \in S THEN chain[n + 1] ELSE InnermostAt(S, n)
  BY <1>1, <1>2
<1>4. QED
  BY <1>3, PTL

-----------------------------------------------------------------------------
(* Piled, for functions on 1 .. l and 1 .. e. *)
Pile(l, e, c, h, n, s) ==
  /\ l \in Nat \ {0} /\ e \in Nat
  /\ \A i \in 1 .. l : h[i] \in Nat /\ n[c[i]] \in Nat
  /\ \A i, j \in 1 .. l : i <= j => h[i] <= h[j]
  /\ \A i \in 1 .. l : h[i] + n[c[i]] = IF i = l THEN e ELSE h[i + 1]
  /\ \A i \in 1 .. l : \A j \in 1 .. n[c[i]] : s[h[i] + j] = c[i]

(* Piled and Rising say together what Pile says.                           *)
LEMMA PileIs ==
  ASSUME NEW C, NEW c \in Seq(C), Len(c) >= 1, NEW s \in Seq(C),
         NEW h \in [1 .. Len(c) -> Nat], NEW n \in [C -> Nat]
  PROVE  Piled(c, h, n, s) /\ Rising(h) <=> Pile(Len(c), Len(s), c, h, n, s)
<1>1. Len(c) \in Nat \ {0} /\ Len(s) \in Nat /\ DOMAIN c = 1 .. Len(c) /\ DOMAIN h = 1 .. Len(c)
  OBVIOUS
<1>2. \A i \in 1 .. Len(c) : c[i] \in C
  OBVIOUS
<1>3. \A i \in 1 .. Len(c) : h[i] \in Nat /\ n[c[i]] \in Nat
  BY <1>2
<1>4. QED
  BY <1>1, <1>3, Zenon DEF Piled, Rising, Pile

(* The entries of a control end at or below the height of the last one. *)
LEMMA PileBelow ==
  ASSUME NEW l, NEW e, NEW c, NEW h, NEW n, NEW s, Pile(l, e, c, h, n, s), NEW i \in 1 .. l, i # l
  PROVE  h[i] + n[c[i]] <= h[l] /\ h[i] \in Nat /\ n[c[i]] \in Nat /\ h[i] + n[c[i]] = h[i + 1]
<1>1. l \in 1 .. l /\ i + 1 \in 1 .. l /\ i + 1 <= l
  BY DEF Pile
<1>2. h[i] + n[c[i]] = h[i + 1] /\ h[i] \in Nat /\ n[c[i]] \in Nat
  BY DEF Pile
<1>3. h[i + 1] <= h[l]
  BY <1>1 DEF Pile
<1>4. QED
  BY <1>2, <1>3

(* A pile stays a pile when its last control pushes or pops, ... *)
LEMMA PileTop ==
  ASSUME NEW l, NEW e, NEW c, NEW h, NEW n, NEW s, Pile(l, e, c, h, n, s),
         NEW f \in Nat, NEW m, NEW t, m[c[l]] \in Nat, f = h[l] + m[c[l]],
         \A i \in 1 .. l : i # l => m[c[i]] = n[c[i]],
         \A j \in 1 .. e : j <= f => t[j] = s[j],
         \A j \in 1 .. f : j > e => t[j] = c[l]
  PROVE  Pile(l, f, c, h, m, t)
<1>1. l \in Nat \ {0} /\ l \in 1 .. l /\ e \in Nat /\ h[l] \in Nat /\ n[c[l]] \in Nat /\ h[l] + n[c[l]] = e
  BY DEF Pile
<1>2. ASSUME NEW i \in 1 .. l, i # l
      PROVE  /\ h[i] + m[c[i]] = h[i + 1] /\ m[c[i]] \in Nat
             /\ \A j \in 1 .. m[c[i]] : t[h[i] + j] = c[i]
  <2>1. m[c[i]] = n[c[i]] /\ h[i] \in Nat /\ n[c[i]] \in Nat /\ h[i] + n[c[i]] <= h[l]
        /\ h[i] + n[c[i]] = h[i + 1]
    BY <1>2, PileBelow
  <2>2. \A j \in 1 .. m[c[i]] : h[i] + j \in 1 .. e /\ h[i] + j <= f
    BY <1>1, <2>1
  <2>3. \A j \in 1 .. m[c[i]] : s[h[i] + j] = c[i]
    BY <2>1 DEF Pile
  <2>4. QED
    BY <2>1, <2>2, <2>3
<1>3. ASSUME NEW j \in 1 .. m[c[l]] PROVE t[h[l] + j] = c[l]
  <2>1. h[l] + j \in 1 .. f
    BY <1>1
  <2>2. CASE h[l] + j <= e
    <3>1. j \in 1 .. n[c[l]] /\ h[l] + j \in 1 .. e
      BY <1>1, <2>2
    <3>2. s[h[l] + j] = c[l]
      BY <1>1, <3>1 DEF Pile
    <3>3. QED
      BY <2>1, <3>1, <3>2
  <2>3. CASE h[l] + j > e
    BY <2>1, <2>3
  <2>4. QED
    BY <1>1, <2>1, <2>2, <2>3
<1>4. \A i \in 1 .. l : h[i] \in Nat /\ m[c[i]] \in Nat
  BY <1>2 DEF Pile
<1>5. \A i, j \in 1 .. l : i <= j => h[i] <= h[j]
  BY DEF Pile
<1>6. \A i \in 1 .. l : h[i] + m[c[i]] = IF i = l THEN f ELSE h[i + 1]
  BY <1>2
<1>7. \A i \in 1 .. l : \A j \in 1 .. m[c[i]] : t[h[i] + j] = c[i]
  BY <1>2, <1>3
<1>8. QED
  BY <1>1, <1>4, <1>5, <1>6, <1>7 DEF Pile

(* How two stacks, chains or heights compare. *)
SameOn(l, c, d) == \A i \in 1 .. l : d[i] = c[i]
SameCounts(l, c, n, m) == \A i \in 1 .. l : m[c[i]] = n[c[i]]
Filled(t, e, k, x) == \A j \in 1 .. k : t[e + j] = x

(* ... when another control comes on top with what it had pushed, ... *)
LEMMA PileMore ==
  ASSUME NEW l, NEW e, NEW c, NEW h, NEW n, NEW s, Pile(l, e, c, h, n, s),
         NEW q, q = l + 1, NEW f, NEW d, NEW g, NEW t, NEW x, n[x] \in Nat, f = e + n[x],
         SameOn(l, c, d), SameOn(l, h, g), SameOn(e, s, t), Filled(t, e, n[x], x),
         d[q] = x, g[q] = e
  PROVE  Pile(q, f, d, g, n, t)
<1>0. /\ n[x] \in Nat /\ f = e + n[x] /\ d[l + 1] = x /\ g[l + 1] = e
      /\ \A i \in 1 .. l : d[i] = c[i] /\ g[i] = h[i]
      /\ \A j \in 1 .. e : t[j] = s[j]
      /\ \A j \in 1 .. n[x] : t[e + j] = x
  BY DEF SameOn, Filled
<1>1. /\ l \in Nat \ {0} /\ l \in 1 .. l /\ l + 1 \in 1 .. l + 1 /\ e \in Nat /\ f \in Nat
      /\ h[l] \in Nat /\ n[c[l]] \in Nat /\ h[l] + n[c[l]] = e
  BY DEF Pile
<1>2. ASSUME NEW i \in 1 .. l
      PROVE  /\ h[i] + n[c[i]] <= e /\ h[i] \in Nat /\ n[c[i]] \in Nat
             /\ h[i] + n[c[i]] = g[i + 1]
  <2>1. CASE i = l
    BY <1>0, <1>1, <2>1
  <2>2. CASE i # l
    <3>1. h[i] + n[c[i]] <= h[l] /\ h[i] \in Nat /\ n[c[i]] \in Nat /\ h[i] + n[c[i]] = h[i + 1]
      BY <2>2, PileBelow
    <3>2. i + 1 \in 1 .. l
      BY <1>0, <1>1, <2>2
    <3>3. QED
      BY <1>0, <1>1, <3>1, <3>2
  <2>3. QED
    BY <2>1, <2>2
<1>3. ASSUME NEW i \in 1 .. l, NEW j \in 1 .. n[c[i]] PROVE t[g[i] + j] = c[i]
  <2>1. h[i] + j \in 1 .. e
    BY <1>0, <1>1, <1>2
  <2>2. s[h[i] + j] = c[i]
    BY DEF Pile
  <2>3. QED
    BY <1>0, <2>1, <2>2
<1>4. ASSUME NEW i \in 1 .. l + 1
      PROVE  /\ g[i] \in Nat /\ n[d[i]] \in Nat /\ g[i] <= g[l + 1]
             /\ g[i] + n[d[i]] = IF i = l + 1 THEN f ELSE g[i + 1]
             /\ \A j \in 1 .. n[d[i]] : t[g[i] + j] = d[i]
  <2>1. CASE i = l + 1
    BY <1>0, <1>1, <2>1
  <2>2. CASE i # l + 1
    <3>1. i \in 1 .. l
      BY <1>0, <1>1, <2>2
    <3>2. g[i] = h[i] /\ d[i] = c[i]
      BY <1>0, <3>1
    <3>3. h[i] + n[c[i]] <= e /\ h[i] \in Nat /\ n[c[i]] \in Nat /\ h[i] + n[c[i]] = g[i + 1]
      BY <3>1, <1>2
    <3>4. QED
      BY <1>0, <1>1, <1>3, <2>2, <3>1, <3>2, <3>3
  <2>3. QED
    BY <2>1, <2>2
<1>5. \A i, j \in 1 .. l + 1 : i <= j => g[i] <= g[j]
  <2>1. \A i, j \in 1 .. l : i <= j => g[i] <= g[j]
    BY <1>0 DEF Pile
  <2>2. SUFFICES ASSUME NEW i \in 1 .. l + 1, NEW j \in 1 .. l + 1, i <= j PROVE g[i] <= g[j]
    OBVIOUS
  <2>3. CASE j = l + 1
    BY <1>4, <2>3
  <2>4. CASE j # l + 1
    <3>1. i \in 1 .. l /\ j \in 1 .. l
      BY <1>0, <1>1, <2>2, <2>4
    <3>2. QED
      BY <2>1, <2>2, <3>1
  <2>5. QED
    BY <2>3, <2>4
<1>6. l + 1 \in Nat \ {0}
  BY <1>0, <1>1
<1>7. Pile(l + 1, f, d, g, n, t)
  BY <1>1, <1>4, <1>5, <1>6 DEF Pile
<1>8. QED
  BY <1>7

(* ... and when everything above the height of the last control is taken. *)
LEMMA PileLess ==
  ASSUME NEW l, NEW e, NEW c, NEW h, NEW n, NEW s, Pile(l, e, c, h, n, s), l # 1,
         NEW q, q = l - 1, NEW f, f = h[l], NEW d, NEW g, NEW m, NEW t,
         SameOn(q, c, d), SameOn(q, h, g), SameCounts(q, c, n, m), SameOn(f, s, t)
  PROVE  Pile(q, f, d, g, m, t)
<1>0. /\ \A i \in 1 .. l - 1 : d[i] = c[i] /\ g[i] = h[i] /\ m[c[i]] = n[c[i]]
      /\ \A j \in 1 .. h[l] : t[j] = s[j]
  BY DEF SameOn, SameCounts
<1>1. l \in Nat \ {0} /\ l - 1 \in Nat \ {0} /\ l \in 1 .. l /\ h[l] \in Nat
  BY DEF Pile
<1>2. ASSUME NEW i \in 1 .. l - 1
      PROVE  /\ g[i] = h[i] /\ d[i] = c[i] /\ m[c[i]] = n[c[i]] /\ h[i] \in Nat /\ n[c[i]] \in Nat
             /\ h[i] + n[c[i]] <= h[l] /\ h[i] + n[c[i]] = h[i + 1] /\ i \in 1 .. l /\ i # l
  <2>1. i \in 1 .. l /\ i # l
    BY <1>1
  <2>2. QED
    BY <1>0, <2>1, PileBelow
<1>3. ASSUME NEW i \in 1 .. l - 1, NEW j \in 1 .. m[d[i]] PROVE t[g[i] + j] = d[i]
  <2>1. g[i] = h[i] /\ d[i] = c[i] /\ m[c[i]] = n[c[i]] /\ h[i] \in Nat /\ n[c[i]] \in Nat
        /\ h[i] + n[c[i]] <= h[l] /\ i \in 1 .. l
    BY <1>2
  <2>2. h[i] + j \in 1 .. h[l]
    BY <1>1, <2>1
  <2>3. s[h[i] + j] = c[i]
    BY <2>1 DEF Pile
  <2>4. QED
    BY <1>0, <2>1, <2>2, <2>3
<1>4. ASSUME NEW i \in 1 .. l - 1 PROVE g[i] + m[d[i]] = IF i = l - 1 THEN h[l] ELSE g[i + 1]
  <2>1. g[i] + m[d[i]] = h[i + 1]
    BY <1>2
  <2>2. CASE i = l - 1
    BY <1>1, <2>1, <2>2
  <2>3. CASE i # l - 1
    <3>1. i + 1 \in 1 .. l - 1
      BY <1>1, <2>3
    <3>2. g[i + 1] = h[i + 1]
      BY <3>1, <1>2
    <3>3. QED
      BY <2>1, <2>3, <3>2
  <2>4. QED
    BY <2>2, <2>3
<1>5. \A i, j \in 1 .. l - 1 : i <= j => g[i] <= g[j]
  <2>1. SUFFICES ASSUME NEW i \in 1 .. l - 1, NEW j \in 1 .. l - 1, i <= j PROVE g[i] <= g[j]
    OBVIOUS
  <2>2. i \in 1 .. l /\ j \in 1 .. l /\ g[i] = h[i] /\ g[j] = h[j]
    BY <1>2
  <2>3. QED
    BY <2>1, <2>2 DEF Pile
<1>6. \A i \in 1 .. l - 1 : g[i] \in Nat /\ m[d[i]] \in Nat
  BY <1>2
<1>7. Pile(l - 1, h[l], d, g, m, t)
  BY <1>1, <1>3, <1>4, <1>5, <1>6 DEF Pile
<1>8. QED
  BY <1>7
-----------------------------------------------------------------------------
(* What the invariant says of the end of the chain. *)
LEMMA TopIs ==
  ASSUME TypeOK, ChainOK
  PROVE  /\ Len(chain) \in Nat \ {0} /\ DOMAIN chain = 1 .. Len(chain)
         /\ Top = chain[Len(chain)] /\ Top \in Controls
         /\ \A i \in 1 .. Len(chain) : chain[i] \in Controls
         /\ \A i \in 1 .. Len(chain) : i # Len(chain) => chain[i] # Top
         /\ Top \in Movable => phase[Top] = "active" /\ Len(chain) # 1
         /\ Front(chain) = SubSeq(chain, 1, Len(chain) - 1)
<1>1. chain \in Seq(Controls) /\ Len(chain) >= 1
  BY DEF TypeOK, ChainOK
<1>2. Len(chain) \in Nat \ {0} /\ DOMAIN chain = 1 .. Len(chain)
  BY <1>1
<1>3. /\ Top = chain[Len(chain)] /\ Top \in Controls
      /\ Front(chain) = SubSeq(chain, 1, Len(chain) - 1)
  BY <1>1, FrontIs DEF Top
<1>4. \A i \in 1 .. Len(chain) : chain[i] \in Controls
  BY <1>1
<1>5. \A i \in 1 .. Len(chain) : i # Len(chain) => chain[i] # Top
  <2>1. Len(chain) \in 1 .. Len(chain)
    BY <1>2
  <2>2. \A i, j \in 1 .. Len(chain) : chain[i] = chain[j] => i = j
    BY <1>2, Zenon DEF ChainOK
  <2>3. QED
    BY <1>3, <2>1, <2>2, Zenon
<1>6. ASSUME Top \in Movable PROVE phase[Top] = "active" /\ Len(chain) # 1
  <2>1. Top # Main
    BY <1>6, ContAssumption DEF Movable, ContAssumption
  <2>2. phase[Top] = "active"
    BY <1>2, <1>3, <1>6 DEF ChainOK
  <2>3. QED
    BY <1>3, <2>1, <2>2 DEF ChainOK
<1>7. QED
  BY <1>2, <1>3, <1>4, <1>5, <1>6

(* Heights and Counts are functions on the chain and the controls. *)
LEMMA HeightsType ==
  ASSUME TypeOK, ChainOK, NEW k \in Kinds
  PROVE  /\ Heights(k) \in [1 .. Len(chain) -> Nat]
         /\ Counts(k) \in [Controls -> Nat]
         /\ stacks[k] \in Seq(Controls)
<1>1. \A i \in 1 .. Len(chain) : i # 1 => chain[i] \in Movable
  BY TopIs DEF ChainOK
<1>2. \A x \in Movable : base[x][k] \in Nat
  BY DEF TypeOK
<1>3. \A i \in 1 .. Len(chain) : i # 1 => base[chain[i]][k] \in Nat
  BY <1>1, <1>2
<1>4. Heights(k) \in [1 .. Len(chain) -> Nat]
  BY <1>3, TopIs DEF Heights
<1>5. QED
  BY <1>4 DEF Counts, TypeOK

(* The invariant in terms of Pile. *)
LEMMA PilesBefore ==
  ASSUME TypeOK, ChainOK, Ascending, StackedInOrder, NEW k \in Kinds
  PROVE  Pile(Len(chain), Len(stacks[k]), chain, Heights(k), Counts(k), stacks[k])
<1>1. Piled(chain, Heights(k), Counts(k), stacks[k]) /\ Rising(Heights(k))
  BY DEF StackedInOrder, Ascending
<1>2. chain \in Seq(Controls) /\ Len(chain) >= 1
  BY DEF TypeOK, ChainOK
<1>3. QED
  BY <1>1, <1>2, HeightsType, PileIs

(* It is enough to show Pile of every stack after a step.                  *)
LEMMA PilesAfter ==
  ASSUME TypeOK', ChainOK',
         \A k \in Kinds : Pile(Len(chain'), Len(stacks'[k]), chain', Heights(k)', Counts(k)', stacks'[k])
  PROVE  Ascending' /\ StackedInOrder'
<1>1. SUFFICES ASSUME NEW k \in Kinds
               PROVE  Piled(chain', Heights(k)', Counts(k)', stacks'[k]) /\ Rising(Heights(k)')
  BY DEF StackedInOrder, Ascending, Piled, Rising
<1>2. /\ Len(chain') \in Nat \ {0} /\ DOMAIN chain' = 1 .. Len(chain')
      /\ chain' \in Seq(Controls) /\ Len(chain') >= 1
  BY DEF TypeOK, ChainOK
<1>3. \A i \in 1 .. Len(chain') : i # 1 => chain'[i] \in Movable
  BY <1>2 DEF ChainOK
<1>4. \A x \in Movable : base'[x][k] \in Nat
  BY DEF TypeOK
<1>5. Heights(k)' \in [1 .. Len(chain') -> Nat]
  BY <1>2, <1>3, <1>4 DEF Heights
<1>6. Counts(k)' \in [Controls -> Nat] /\ stacks'[k] \in Seq(Controls)
  BY DEF Counts, TypeOK
<1>7. QED
  BY <1>2, <1>5, <1>6, PileIs
-----------------------------------------------------------------------------
(* Entering x puts it on the end of the chain, ... *)
LEMMA Grow ==
  ASSUME TypeOK, ChainOK, PrevOK, InnermostCoro, InnermostTask, OwnPosition, TypeOK',
         NEW x \in Movable, phase[x] # "active", chain' = Append(chain, x),
         phase' = [phase EXCEPT ![x] = "active"],
         prev' = [prev EXCEPT ![x] = [coro |-> coro, task |-> task, at |-> at]],
         at' = x, coro' = IF x \in Coros THEN x ELSE coro, task' = IF x \in Tasks THEN x ELSE task
  PROVE  ChainOK' /\ PrevOK' /\ InnermostCoro' /\ InnermostTask' /\ OwnPosition'
<1>0. PICK n \in Nat : n = Len(chain)
  BY TopIs
<1>1. /\ n \in Nat \ {0} /\ DOMAIN chain = 1 .. n /\ n \in 1 .. n
      /\ Top = chain[n] /\ at = chain[n]
      /\ \A i \in 1 .. n : chain[i] \in Controls
  BY <1>0, TopIs DEF OwnPosition
<1>2. /\ Len(chain') = n + 1 /\ DOMAIN chain' = 1 .. n + 1 /\ chain'[n + 1] = x
      /\ \A i \in 1 .. n : chain'[i] = chain[i]
  BY <1>0, Appended, x \in Controls DEF TypeOK, Controls
<1>3. \A i \in 1 .. n : chain[i] # x
  <2>1. phase[x] = "active" <=> \E i \in 1 .. n : chain[i] = x
    BY <1>1, Zenon DEF ChainOK
  <2>2. QED
    BY <2>1
<1>4. ChainOK'
  <2>1. Len(chain') >= 1 /\ chain'[1] = Main
    BY <1>1, <1>2 DEF ChainOK
  <2>2. \A i \in 2 .. n + 1 : chain'[i] \in Movable
    <3>1. \A i \in 2 .. n : chain[i] \in Movable
      BY <1>0 DEF ChainOK
    <3>2. \A i \in 2 .. n + 1 : i = n + 1 \/ i \in 2 .. n
      BY <1>1
    <3>3. \A i \in 2 .. n : i \in 1 .. n
      BY <1>1
    <3>4. \A i \in 2 .. n : chain'[i] = chain[i]
      BY <1>2, <3>3
    <3>5. QED
      BY <1>2, <3>1, <3>2, <3>4
  <2>3. \A i, j \in 1 .. n + 1 : chain'[i] = chain'[j] => i = j
    <3>1. \A i \in 1 .. n + 1 : i = n + 1 \/ i \in 1 .. n
      BY <1>1
    <3>2. \A i, j \in 1 .. n : chain[i] = chain[j] => i = j
      BY <1>1, Zenon DEF ChainOK
    <3>3. QED
      BY <1>2, <1>3, <3>1, <3>2
  <2>4. \A y \in Movable : phase'[y] = "active" <=> \E i \in 1 .. n + 1 : chain'[i] = y
    <3>1. SUFFICES ASSUME NEW y \in Movable
                   PROVE  phase'[y] = "active" <=> \E i \in 1 .. n + 1 : chain'[i] = y
      OBVIOUS
    <3>2. CASE y = x
      <4>1. n + 1 \in 1 .. n + 1
        BY <1>1
      <4>2. phase'[y] = "active"
        BY <3>2 DEF TypeOK
      <4>3. QED
        BY <1>2, <3>2, <4>1, <4>2
    <3>3. CASE y # x
      <4>1. phase'[y] = phase[y]
        BY <3>3 DEF TypeOK
      <4>2. phase[y] = "active" <=> \E i \in 1 .. n : chain[i] = y
        BY <1>1, Zenon DEF ChainOK
      <4>3. \A i \in 1 .. n + 1 : i = n + 1 \/ i \in 1 .. n
        BY <1>1
      <4>4. \A i \in 1 .. n : i \in 1 .. n + 1
        BY <1>1
      <4>5. QED
        BY <1>2, <3>3, <4>1, <4>2, <4>3, <4>4
    <3>4. QED
      BY <3>2, <3>3
  <2>5. QED
    BY <1>2, <2>1, <2>2, <2>3, <2>4 DEF ChainOK
<1>5. ASSUME NEW S PROVE \A i \in 0 .. n : InnermostAt(S, i)' = InnermostAt(S, i)
  BY <1>1, <1>2, InnermostSame
<1>6. PrevOK'
  <2>1. SUFFICES ASSUME NEW i \in 2 .. n + 1
                 PROVE  prev'[chain'[i]] =
                          [coro |-> InnermostAt(Coros, i - 1)',
                           task |-> InnermostAt(Tasks, i - 1)', at |-> chain'[i - 1]]
    BY <1>2 DEF PrevOK
  <2>2. i - 1 \in 1 .. n /\ i - 1 \in 0 .. n
    BY <1>1
  <2>3. /\ InnermostAt(Coros, i - 1)' = InnermostAt(Coros, i - 1)
        /\ InnermostAt(Tasks, i - 1)' = InnermostAt(Tasks, i - 1)
        /\ chain'[i - 1] = chain[i - 1]
    BY <1>2, <1>5, <2>2
  <2>4. CASE i = n + 1
    <3>1. prev'[x] = [coro |-> coro, task |-> task, at |-> at]
      BY DEF TypeOK
    <3>2. i - 1 = n /\ chain'[i] = x
      BY <1>1, <1>2, <2>4
    <3>3. coro = InnermostAt(Coros, n) /\ task = InnermostAt(Tasks, n)
      BY <1>0 DEF InnermostCoro, InnermostTask
    <3>4. QED
      BY <1>1, <2>3, <3>1, <3>2, <3>3
  <2>5. CASE i # n + 1
    <3>1. i \in 2 .. n /\ i \in 1 .. n
      BY <1>1, <2>5
    <3>2. chain'[i] = chain[i] /\ chain[i] # x /\ chain[i] \in Movable
      BY <1>0, <1>2, <1>3, <3>1 DEF ChainOK
    <3>3. prev'[chain[i]] = prev[chain[i]]
      BY <3>2 DEF TypeOK
    <3>4. prev[chain[i]] = [coro |-> InnermostAt(Coros, i - 1),
                            task |-> InnermostAt(Tasks, i - 1), at |-> chain[i - 1]]
      BY <1>0, <3>1 DEF PrevOK
    <3>5. QED
      BY <2>3, <3>2, <3>3, <3>4
  <2>6. QED
    BY <2>4, <2>5
<1>7. ASSUME NEW S
      PROVE  InnermostAt(S, n + 1)' = IF x \in S THEN x ELSE InnermostAt(S, n)
  <2>1. InnermostAt(S, n + 1)' = IF chain'[n + 1] \in S THEN chain'[n + 1] ELSE InnermostAt(S, n)'
    BY InnermostLast
  <2>2. InnermostAt(S, n)' = InnermostAt(S, n)
    BY <1>1, <1>5
  <2>3. QED
    BY <1>2, <2>1, <2>2
<1>8. InnermostCoro' /\ InnermostTask'
  BY <1>0, <1>2, <1>7 DEF InnermostCoro, InnermostTask
<1>9. OwnPosition'
  <2>1. Last(chain') = chain'[n + 1]
    BY <1>2 DEF Last
  <2>2. QED
    BY <1>2, <2>1 DEF OwnPosition, Top
<1>10. QED
  BY <1>4, <1>6, <1>8, <1>9
(* ... and leaving it takes it away, with what was before it current again. *)
LEMMA Shrink ==
  ASSUME TypeOK, ChainOK, PrevOK, InnermostCoro, InnermostTask, OwnPosition, TypeOK',
         NEW x \in Movable, Top = x, chain' = SubSeq(chain, 1, Len(chain) - 1), prev' = prev,
         NEW p, p # "active", phase' = [phase EXCEPT ![x] = p],
         coro' = prev[x].coro, task' = prev[x].task, at' = prev[x].at
  PROVE  ChainOK' /\ PrevOK' /\ InnermostCoro' /\ InnermostTask' /\ OwnPosition'
<1>0. PICK n \in Nat : n + 1 = Len(chain)
  <2>1. Len(chain) \in Nat \ {0}
    BY TopIs
  <2>2. Len(chain) - 1 \in Nat /\ (Len(chain) - 1) + 1 = Len(chain)
    BY <2>1
  <2>3. QED
    BY <2>2
<1>1. /\ n \in Nat \ {0} /\ DOMAIN chain = 1 .. n + 1 /\ n \in 1 .. n /\ n + 1 \in 2 .. n + 1
      /\ chain[n + 1] = x /\ n \in 0 .. n /\ n + 1 \in 1 .. n + 1
      /\ \A i \in 1 .. n : i \in 1 .. n + 1 /\ i # n + 1
      /\ \A i \in 1 .. n : chain[i] # x
  <2>1. /\ n \in Nat \ {0} /\ n \in 1 .. n /\ n + 1 \in 2 .. n + 1
        /\ n \in 0 .. n /\ n + 1 \in 1 .. n + 1
        /\ \A i \in 1 .. n : i \in 1 .. n + 1 /\ i # n + 1
    BY <1>0, TopIs
  <2>2. /\ DOMAIN chain = 1 .. n + 1 /\ chain[n + 1] = x
        /\ \A i \in 1 .. n + 1 : i # n + 1 => chain[i] # x
    BY <1>0, TopIs
  <2>3. QED
    BY <2>1, <2>2
<1>2. /\ Len(chain') = n /\ DOMAIN chain' = 1 .. n
      /\ \A i \in 1 .. n : chain'[i] = chain[i]
  <2>1. chain \in Seq(Controls) /\ n <= Len(chain) /\ chain' = SubSeq(chain, 1, n)
    BY <1>0 DEF TypeOK
  <2>2. QED
    BY <2>1, Shortened
<1>3. \A i \in 2 .. n : i \in 1 .. n /\ i \in 2 .. n + 1 /\ i - 1 \in 1 .. n /\ i - 1 \in 0 .. n
  OBVIOUS
<1>4. ChainOK'
  <2>1. Len(chain') >= 1 /\ chain'[1] = Main
    BY <1>1, <1>2 DEF ChainOK
  <2>2. \A i \in 2 .. n : chain'[i] \in Movable
    <3>1. \A i \in 2 .. n + 1 : chain[i] \in Movable
      BY <1>0 DEF ChainOK
    <3>2. QED
      BY <1>2, <1>3, <3>1
  <2>3. \A i, j \in 1 .. n : chain'[i] = chain'[j] => i = j
    <3>1. \A i, j \in 1 .. n + 1 : chain[i] = chain[j] => i = j
      BY <1>1, Zenon DEF ChainOK
    <3>2. QED
      BY <1>1, <1>2, <3>1
  <2>4. \A y \in Movable : phase'[y] = "active" <=> \E i \in 1 .. n : chain'[i] = y
    <3>1. SUFFICES ASSUME NEW y \in Movable
                   PROVE  phase'[y] = "active" <=> \E i \in 1 .. n : chain'[i] = y
      OBVIOUS
    <3>2. CASE y = x
      <4>1. phase'[y] # "active"
        BY <3>2 DEF TypeOK
      <4>2. QED
        BY <1>1, <1>2, <3>2, <4>1
    <3>3. CASE y # x
      <4>1. phase'[y] = phase[y]
        BY <3>3 DEF TypeOK
      <4>2. phase[y] = "active" <=> \E i \in 1 .. n + 1 : chain[i] = y
        BY <1>1, Zenon DEF ChainOK
      <4>3. \A i \in 1 .. n + 1 : i = n + 1 \/ i \in 1 .. n
        BY <1>1
      <4>4. QED
        BY <1>1, <1>2, <3>3, <4>1, <4>2, <4>3
    <3>4. QED
      BY <3>2, <3>3
  <2>5. /\ \A i \in 2 .. Len(chain') : chain'[i] \in Movable
        /\ \A i, j \in DOMAIN chain' : chain'[i] = chain'[j] => i = j
        /\ \A y \in Movable : phase'[y] = "active" <=> \E i \in DOMAIN chain' : chain'[i] = y
    <3>1. Len(chain') = n /\ DOMAIN chain' = 1 .. n
      BY <1>2
    <3>2. QED
      BY <3>1, <2>2, <2>3, <2>4, Zenon
  <2>6. QED
    BY <2>1, <2>5, Zenon DEF ChainOK
<1>5. ASSUME NEW S PROVE \A i \in 0 .. n : InnermostAt(S, i)' = InnermostAt(S, i)
  BY <1>2, InnermostSame
<1>6. \A i \in 2 .. n + 1 : prev[chain[i]] =
        [coro |-> InnermostAt(Coros, i - 1), task |-> InnermostAt(Tasks, i - 1), at |-> chain[i - 1]]
  BY <1>0 DEF PrevOK
<1>7. PrevOK'
  <2>1. SUFFICES ASSUME NEW i \in 2 .. n
                 PROVE  prev'[chain'[i]] =
                          [coro |-> InnermostAt(Coros, i - 1)',
                           task |-> InnermostAt(Tasks, i - 1)', at |-> chain'[i - 1]]
    BY <1>2 DEF PrevOK
  <2>2. /\ InnermostAt(Coros, i - 1)' = InnermostAt(Coros, i - 1)
        /\ InnermostAt(Tasks, i - 1)' = InnermostAt(Tasks, i - 1)
        /\ chain'[i - 1] = chain[i - 1] /\ prev'[chain'[i]] = prev[chain[i]]
    BY <1>2, <1>3, <1>5
  <2>3. prev[chain[i]] =
          [coro |-> InnermostAt(Coros, i - 1), task |-> InnermostAt(Tasks, i - 1), at |-> chain[i - 1]]
    BY <1>3, <1>6
  <2>4. QED
    BY <2>2, <2>3
<1>8. /\ coro' = InnermostAt(Coros, n) /\ task' = InnermostAt(Tasks, n) /\ at' = chain[n]
  <2>1. n + 1 - 1 = n
    OBVIOUS
  <2>2. prev[x] = [coro |-> InnermostAt(Coros, n), task |-> InnermostAt(Tasks, n), at |-> chain[n]]
    BY <1>1, <1>6, <2>1
  <2>3. QED
    BY <2>2
<1>9. InnermostAt(Coros, n)' = InnermostAt(Coros, n) /\ InnermostAt(Tasks, n)' = InnermostAt(Tasks, n)
  BY <1>1, <1>5
<1>10. InnermostCoro' /\ InnermostTask'
  BY <1>2, <1>8, <1>9 DEF InnermostCoro, InnermostTask
<1>11. OwnPosition'
  <2>1. Last(chain') = chain'[n]
    BY <1>2 DEF Last
  <2>2. QED
    BY <1>1, <1>2, <1>8, <2>1 DEF OwnPosition, Top
<1>12. QED
  BY <1>4, <1>7, <1>10, <1>11

(* A step that leaves the chain and what belongs to it alone. *)
LEMMA SameChain ==
  ASSUME ChainOK, PrevOK, InnermostCoro, InnermostTask, OwnPosition,
         UNCHANGED <<chain, prev, coro, task, at>>,
         \A x \in Movable : phase'[x] = "active" <=> phase[x] = "active"
  PROVE  ChainOK' /\ PrevOK' /\ InnermostCoro' /\ InnermostTask' /\ OwnPosition'
<1>1. ChainOK'
  BY DEF ChainOK
<1>2. ASSUME NEW S, NEW i PROVE InnermostAt(S, i)' = InnermostAt(S, i)
  BY DEF InnermostAt
<1>3. PrevOK'
  BY <1>2 DEF PrevOK
<1>4. InnermostCoro' /\ InnermostTask' /\ OwnPosition'
  BY <1>2 DEF InnermostCoro, InnermostTask, OwnPosition, Top
<1>5. QED
  BY <1>1, <1>3, <1>4
-----------------------------------------------------------------------------
(* A stack ends with the entries of the control that evaluates. *)
LEMMA StackHolds ==
  ASSUME TypeOK, ChainOK, Ascending, StackedInOrder, NEW k \in Kinds
  PROVE  /\ own[Top][k] \in Nat /\ Heights(k)[Len(chain)] \in Nat /\ Len(stacks[k]) \in Nat
         /\ Len(stacks[k]) = Heights(k)[Len(chain)] + own[Top][k]
         /\ Len(stacks[k]) >= own[Top][k] /\ Heights(k)[Len(chain)] <= Len(stacks[k])
         /\ \A j \in 1 .. own[Top][k] : stacks[k][Heights(k)[Len(chain)] + j] = Top
<1>1. PICK l : l = Len(chain)
  OBVIOUS
<1>2. Pile(l, Len(stacks[k]), chain, Heights(k), Counts(k), stacks[k])
  BY <1>1, PilesBefore
<1>3. l \in 1 .. l /\ Top = chain[l] /\ Counts(k)[chain[l]] = own[Top][k]
  BY <1>1, TopIs DEF Counts
<1>4. /\ own[Top][k] \in Nat /\ Heights(k)[l] \in Nat /\ Len(stacks[k]) \in Nat
      /\ Heights(k)[l] + own[Top][k] = Len(stacks[k])
      /\ \A j \in 1 .. own[Top][k] : stacks[k][Heights(k)[l] + j] = Top
  BY <1>2, <1>3 DEF Pile
<1>5. QED
  BY <1>1, <1>4

(* The height it remembers is that of its first entry. *)
LEMMA BaseBelow ==
  ASSUME TypeOK, ChainOK, Ascending, StackedInOrder, NEW x \in Movable, Top = x, NEW k \in Kinds
  PROVE  /\ base[x][k] \in Nat /\ Len(stacks[k]) \in Nat /\ own[x][k] \in Nat
         /\ base[x][k] <= Len(stacks[k]) /\ Len(stacks[k]) = base[x][k] + own[x][k]
         /\ \A j \in 1 .. own[x][k] : stacks[k][base[x][k] + j] = x
<1>1. /\ Len(chain) \in 1 .. Len(chain) /\ DOMAIN chain = 1 .. Len(chain)
      /\ Len(chain) # 1 /\ chain[Len(chain)] = x
  <2>1. Len(chain) \in Nat \ {0}
    BY TopIs
  <2>2. Len(chain) \in 1 .. Len(chain)
    BY <2>1
  <2>3. QED
    BY <2>2, TopIs
<1>2. Heights(k)[Len(chain)] = base[x][k]
  BY <1>1 DEF Heights
<1>3. QED
  BY <1>2, StackHolds

(* What the control that evaluates pushes and pops. *)
LEMMA TopInv ==
  ASSUME ContInv, TypeOK',
         UNCHANGED <<coro, task, at, prev, base, saved, savedAt, phase, chain, slice>>,
         \A x \in Controls : x # Top => own'[x] = own[x],
         \A k \in Kinds :
           /\ Len(stacks'[k]) = Len(stacks[k]) + (own'[Top][k] - own[Top][k])
           /\ \A j \in 1 .. Len(stacks[k]) : j <= Len(stacks'[k]) => stacks'[k][j] = stacks[k][j]
           /\ \A j \in 1 .. Len(stacks'[k]) : j > Len(stacks[k]) => stacks'[k][j] = Top
  PROVE  ContInv'
<1>1. ChainOK' /\ PrevOK' /\ InnermostCoro' /\ InnermostTask' /\ OwnPosition'
  BY SameChain DEF ContInv
<1>2. \A x \in Movable : phase[x] # "active" => own'[x] = own[x]
  BY TopIs DEF ContInv, Controls
<1>3. AwayOK' /\ SavedInFull'
  BY <1>2 DEF ContInv, AwayOK, SavedInFull
<1>4. ASSUME NEW k \in Kinds
      PROVE  Pile(Len(chain'), Len(stacks'[k]), chain', Heights(k)', Counts(k)', stacks'[k])
  <2>1. PICK l : l = Len(chain)
    OBVIOUS
  <2>2. PICK e : e = Len(stacks[k])
    OBVIOUS
  <2>3. PICK f : f = Len(stacks'[k])
    OBVIOUS
  <2>4. Pile(l, e, chain, Heights(k), Counts(k), stacks[k])
    BY <2>1, <2>2, PilesBefore DEF ContInv
  <2>5. Heights(k)' = Heights(k)
    BY DEF Heights
  <2>6. /\ l \in 1 .. l /\ Top = chain[l] /\ Top \in Controls
        /\ \A i \in 1 .. l : chain[i] \in Controls
        /\ \A i \in 1 .. l : i # l => chain[i] # Top
    BY <2>1, TopIs DEF ContInv
  <2>7. e \in Nat /\ Heights(k)[l] \in Nat /\ Counts(k)[chain[l]] \in Nat
        /\ Heights(k)[l] + Counts(k)[chain[l]] = e
    BY <2>4, <2>6 DEF Pile
  <2>8. Counts(k)[chain[l]] = own[Top][k] /\ Counts(k)'[chain[l]] = own'[Top][k]
    BY <2>6 DEF Counts
  <2>9. own'[Top][k] \in Nat /\ f \in Nat
    BY <2>3, <2>6 DEF TypeOK
  <2>10. Counts(k)'[chain[l]] \in Nat /\ f = Heights(k)[l] + Counts(k)'[chain[l]]
    BY <2>2, <2>3, <2>7, <2>8, <2>9
  <2>11. \A i \in 1 .. l : i # l => Counts(k)'[chain[i]] = Counts(k)[chain[i]]
    BY <2>6 DEF Counts
  <2>12. /\ \A j \in 1 .. e : j <= f => stacks'[k][j] = stacks[k][j]
         /\ \A j \in 1 .. f : j > e => stacks'[k][j] = chain[l]
    BY <2>2, <2>3, <2>6
  <2>13. Pile(l, f, chain, Heights(k), Counts(k)', stacks'[k])
    BY <2>4, <2>9, <2>10, <2>11, <2>12, PileTop
  <2>14. QED
    BY <2>1, <2>3, <2>5, <2>13
<1>5. QED
  BY <1>1, <1>3, <1>4, PilesAfter DEF ContInv

(* The counts of one control after a change of n in the stacks F. *)
MayShift(x, F, n) == F \subseteq Kinds /\ \A k \in F : own[x][k] + n \in Nat
Shifted(x, F, n) ==
  /\ own' \in [Controls -> [Kinds -> Nat]]
  /\ \A y \in Controls : y # x => own'[y] = own[y]
  /\ \A k \in Kinds : own'[x][k] = IF k \in F THEN own[x][k] + n ELSE own[x][k]

(* What Owned does to the counts of a control.                             *)
LEMMA OwnedIs ==
  ASSUME TypeOK, NEW x, x \in Controls, NEW F, NEW n, n \in Int, own' = Owned(x, F, n), MayShift(x, F, n)
  PROVE  Shifted(x, F, n)
<1>1. own \in [Controls -> [Kinds -> Nat]]
  BY DEF TypeOK
<1>2. [k \in Kinds |-> IF k \in F THEN own[x][k] + n ELSE own[x][k]] \in [Kinds -> Nat]
  BY <1>1 DEF MayShift
<1>3. QED
  BY <1>1, <1>2 DEF Owned, Shifted

(* A push is counted for the control that evaluates.                       *)
LEMMA PushInv ==
  ASSUME ContInv, NEW F \in FrameSets, Push(F)
  PROVE  ContInv'
<1>1. F \in SUBSET Kinds /\ Top \in Controls
  BY TopIs DEF FrameSets, Kinds, ContInv
<1>2. /\ own' \in [Controls -> [Kinds -> Nat]]
      /\ \A y \in Controls : y # Top => own'[y] = own[y]
      /\ \A k \in Kinds : own'[Top][k] = IF k \in F THEN own[Top][k] + 1 ELSE own[Top][k]
  <2>1. MayShift(Top, F, 1) /\ TypeOK
    BY <1>1 DEF ContInv, TypeOK, MayShift
  <2>2. own' = Owned(Top, F, 1)
    BY DEF Push
  <2>3. Shifted(Top, F, 1)
    BY <1>1, <2>1, <2>2, OwnedIs
  <2>4. QED
    BY <2>3 DEF Shifted
<1>3. ASSUME NEW k \in Kinds
      PROVE  /\ stacks'[k] \in Seq(Controls)
             /\ Len(stacks'[k]) = Len(stacks[k]) + (own'[Top][k] - own[Top][k])
             /\ \A j \in 1 .. Len(stacks[k]) : j <= Len(stacks'[k]) => stacks'[k][j] = stacks[k][j]
             /\ \A j \in 1 .. Len(stacks'[k]) : j > Len(stacks[k]) => stacks'[k][j] = Top
  <2>1. stacks[k] \in Seq(Controls) /\ own[Top][k] \in Nat
    BY <1>1 DEF ContInv, TypeOK
  <2>2. stacks'[k] = IF k \in F THEN Append(stacks[k], Top) ELSE stacks[k]
    BY DEF Push, PushOn
  <2>3. CASE k \in F
    BY <1>1, <1>2, <2>1, <2>2, <2>3, Appended
  <2>4. CASE k \notin F
    BY <1>2, <2>1, <2>2, <2>4
  <2>5. QED
    BY <2>3, <2>4
<1>4. TypeOK'
  <2>1. stacks' \in [Kinds -> Seq(Controls)]
    BY <1>3 DEF Push, PushOn
  <2>2. QED
    BY <1>2, <2>1 DEF Push, ContInv, TypeOK
<1>5. QED
  BY <1>2, <1>3, <1>4, TopInv DEF Push

(* A pop takes an entry of the control that evaluates.                     *)
LEMMA PopInv ==
  ASSUME ContInv, NEW F \in FrameSets, Pop(F)
  PROVE  ContInv'
<1>1. F \in SUBSET Kinds /\ Top \in Controls
  BY TopIs DEF FrameSets, Kinds, ContInv
<1>2. /\ own' \in [Controls -> [Kinds -> Nat]]
      /\ \A y \in Controls : y # Top => own'[y] = own[y]
      /\ \A k \in Kinds : own'[Top][k] = IF k \in F THEN own[Top][k] + -1 ELSE own[Top][k]
  <2>1. \A k \in F : own[Top][k] \in Nat /\ own[Top][k] > 0
    BY <1>1 DEF ContInv, TypeOK, Pop
  <2>2. PICK n \in Int : n = -1
    OBVIOUS
  <2>3. own' = Owned(Top, F, n)
    BY <2>2 DEF Pop
  <2>4. MayShift(Top, F, n) /\ TypeOK
    BY <1>1, <2>1, <2>2 DEF MayShift, ContInv
  <2>5. Shifted(Top, F, n)
    BY <1>1, <2>3, <2>4, OwnedIs
  <2>6. QED
    BY <2>2, <2>5 DEF Shifted
<1>3. ASSUME NEW k \in Kinds
      PROVE  /\ stacks'[k] \in Seq(Controls)
             /\ Len(stacks'[k]) = Len(stacks[k]) + (own'[Top][k] - own[Top][k])
             /\ \A j \in 1 .. Len(stacks[k]) : j <= Len(stacks'[k]) => stacks'[k][j] = stacks[k][j]
             /\ \A j \in 1 .. Len(stacks'[k]) : j > Len(stacks[k]) => stacks'[k][j] = Top
  <2>1. stacks[k] \in Seq(Controls) /\ own[Top][k] \in Nat
    BY <1>1 DEF ContInv, TypeOK
  <2>2. stacks'[k] = IF k \in F THEN Front(stacks[k]) ELSE stacks[k]
    BY DEF Pop
  <2>3. CASE k \in F
    <3>1. own[Top][k] > 0
      BY <2>3 DEF Pop
    <3>2. Len(stacks[k]) >= own[Top][k]
      BY StackHolds DEF ContInv
    <3>3. Len(stacks[k]) \in Nat /\ Len(stacks[k]) >= 1
      BY <2>1, <3>1, <3>2
    <3>4. stacks'[k] = SubSeq(stacks[k], 1, Len(stacks[k]) - 1)
      BY <2>1, <2>2, <2>3, <3>3, FrontIs
    <3>5. Len(stacks[k]) - 1 \in Nat /\ Len(stacks[k]) - 1 <= Len(stacks[k])
      BY <3>3
    <3>6. /\ stacks'[k] \in Seq(Controls) /\ Len(stacks'[k]) = Len(stacks[k]) - 1
          /\ \A j \in 1 .. Len(stacks[k]) - 1 : stacks'[k][j] = stacks[k][j]
      BY <2>1, <3>4, <3>5, Shortened
    <3>7. own'[Top][k] = own[Top][k] + -1
      BY <1>2, <2>3
    <3>8. QED
      BY <2>1, <3>3, <3>6, <3>7
  <2>4. CASE k \notin F
    BY <1>2, <2>1, <2>2, <2>4
  <2>5. QED
    BY <2>3, <2>4
<1>4. TypeOK'
  <2>1. stacks' \in [Kinds -> Seq(Controls)]
    BY <1>3 DEF Pop
  <2>2. QED
    BY <1>2, <2>1 DEF Pop, ContInv, TypeOK
<1>5. QED
  BY <1>2, <1>3, <1>4, TopInv DEF Pop
-----------------------------------------------------------------------------
(* A coroutine or task that is entered, with what it had pushed on top. *)
OnTop(x, k) ==
  /\ Len(stacks'[k]) = Len(stacks[k]) + own[x][k]
  /\ \A j \in 1 .. Len(stacks[k]) : stacks'[k][j] = stacks[k][j]
  /\ \A j \in 1 .. own[x][k] : stacks'[k][Len(stacks[k]) + j] = x

Entered(x) ==
  /\ phase[x] # "active" /\ Remember(x) /\ chain' = Append(chain, x) /\ at' = x
  /\ coro' = IF x \in Coros THEN x ELSE coro
  /\ task' = IF x \in Tasks THEN x ELSE task

(* Entering or resuming a control keeps the invariant.                     *)
LEMMA EnterInv ==
  ASSUME ContInv, TypeOK', NEW x \in Movable, Entered(x),
         \A y \in Movable : y # x => slice'[y] = slice[y], UNCHANGED own,
         \A y \in Movable : y # x => saved'[y] = saved[y], saved'[x]["scopes"] = <<>>,
         \A k \in Kinds : OnTop(x, k), AwayOK'
  PROVE  ContInv'
<1>1. /\ phase' = [phase EXCEPT ![x] = "active"]
      /\ prev' = [prev EXCEPT ![x] = [coro |-> coro, task |-> task, at |-> at]]
      /\ base' = [base EXCEPT ![x] = [k \in Kinds |-> Len(stacks[k])]]
  BY DEF Entered, Remember
<1>2. ChainOK' /\ PrevOK' /\ InnermostCoro' /\ InnermostTask' /\ OwnPosition'
  BY <1>1, Grow DEF ContInv, Entered
<1>3. SavedInFull'
  <2>1. \A y \in Movable : phase'[y] = IF y = x THEN "active" ELSE phase[y]
    BY <1>1 DEF ContInv, TypeOK
  <2>2. QED
    BY <2>1 DEF ContInv, SavedInFull
<1>4. ASSUME NEW k \in Kinds
      PROVE  Pile(Len(chain'), Len(stacks'[k]), chain', Heights(k)', Counts(k)', stacks'[k])
  <2>1. PICK l : l = Len(chain)
    OBVIOUS
  <2>2. PICK e : e = Len(stacks[k])
    OBVIOUS
  <2>3. PICK f : f = Len(stacks'[k])
    OBVIOUS
  <2>4. Pile(l, e, chain, Heights(k), Counts(k), stacks[k])
    BY <2>1, <2>2, PilesBefore DEF ContInv
  <2>5. /\ l \in Nat \ {0} /\ DOMAIN chain = 1 .. l /\ x \in Controls
        /\ \A i \in 1 .. l : chain[i] \in Controls
    BY <2>1, TopIs DEF ContInv, Controls
  <2>6. /\ Len(chain') = l + 1 /\ DOMAIN chain' = 1 .. l + 1 /\ chain'[l + 1] = x
        /\ \A i \in 1 .. l : chain'[i] = chain[i]
    BY <2>1, <2>5, Appended DEF ContInv, TypeOK, Entered
  <2>7. \A i \in 1 .. l : chain[i] # x
    <3>1. phase[x] = "active" <=> \E i \in 1 .. l : chain[i] = x
      BY <2>5, Zenon DEF ContInv, ChainOK
    <3>2. QED
      BY <3>1 DEF Entered
  <2>8. \A y \in Movable : base'[y][k] = IF y = x THEN e ELSE base[y][k]
    BY <1>1, <2>2 DEF ContInv, TypeOK
  <2>9. \A i \in 1 .. l : i # 1 => chain[i] \in Movable
    BY <2>1 DEF ContInv, ChainOK
  <2>10. \A i \in 1 .. l : Heights(k)'[i] = Heights(k)[i]
    <3>1. \A i \in 1 .. l : i \in 1 .. l + 1
      BY <2>5
    <3>2. QED
      BY <2>5, <2>6, <2>7, <2>8, <2>9, <3>1 DEF Heights
  <2>11. Heights(k)'[l + 1] = e
    <3>1. l + 1 \in 1 .. l + 1 /\ l + 1 # 1
      BY <2>5
    <3>2. QED
      BY <2>6, <2>8, <3>1 DEF Heights
  <2>12. Counts(k)' = Counts(k) /\ Counts(k)[x] = own[x][k] /\ own[x][k] \in Nat
    BY <2>5 DEF Counts, ContInv, TypeOK
  <2>13. f = e + Counts(k)[x]
    BY <2>2, <2>3, <2>12 DEF OnTop
  <2>14. /\ \A j \in 1 .. e : stacks'[k][j] = stacks[k][j]
         /\ \A j \in 1 .. Counts(k)[x] : stacks'[k][e + j] = x
    BY <2>2, <2>12 DEF OnTop
  <2>15. \A i \in 1 .. l : chain'[i] = chain[i] /\ Heights(k)'[i] = Heights(k)[i]
    BY <2>6, <2>10
  <2>16. Counts(k)[x] \in Nat /\ chain'[l + 1] = x
    BY <2>6, <2>12
  <2>17. Pile(Len(chain'), f, chain', Heights(k)', Counts(k), stacks'[k])
    <3>1. PICK q, d, g, t : q = Len(chain') /\ d = chain' /\ g = Heights(k)' /\ t = stacks'[k]
      OBVIOUS
    <3>2. PICK c, h, n, s : c = chain /\ h = Heights(k) /\ n = Counts(k) /\ s = stacks[k]
      OBVIOUS
    <3>3. Pile(l, e, c, h, n, s)
      BY <2>4, <3>2
    <3>4. q = l + 1 /\ g[q] = e /\ d[q] = x
      BY <2>6, <2>11, <3>1
    <3>5. n[x] \in Nat /\ f = e + n[x]
      BY <2>13, <2>16, <3>2
    <3>6. SameOn(l, c, d) /\ SameOn(l, h, g)
      BY <2>15, <3>1, <3>2 DEF SameOn
    <3>7. SameOn(e, s, t)
      BY <2>14, <3>1, <3>2 DEF SameOn
    <3>8. Filled(t, e, n[x], x)
      BY <2>14, <3>1, <3>2 DEF Filled
    <3>9. Pile(q, f, d, g, n, t)
      BY <3>3, <3>4, <3>5, <3>6, <3>7, <3>8, PileMore
    <3>10. QED
      BY <3>1, <3>2, <3>9
  <2>18. QED
    BY <2>3, <2>12, <2>17
<1>5. QED
  BY <1>2, <1>3, <1>4, PilesAfter DEF ContInv

(* A coroutine is not a task, and neither is the main program. *)
LEMMA Distinct ==
  /\ \A x \in Coros : x \in Movable /\ x \in Controls /\ x \notin Tasks /\ x # Main
  /\ \A x \in Tasks : x \in Movable /\ x \in Controls /\ x \notin Coros /\ x # Main
BY ContAssumption DEF ContAssumption, Movable, Controls
(* cx_coro_call of a new coroutine, and a task that starts. *)
LEMMA StartInv ==
  ASSUME ContInv, NEW x \in Movable, Start(x),
         coro' = IF x \in Coros THEN x ELSE coro, task' = IF x \in Tasks THEN x ELSE task
  PROVE  ContInv'
<1>1. phase[x] = "new" /\ Remember(x) /\ at' = x /\ chain' = Append(chain, x) /\ x \in Controls
  BY DEF Start, Controls
<1>2. own[x] = Zero /\ saved[x]["scopes"] = <<>>
  BY <1>1 DEF ContInv, AwayOK
<1>3. \A k \in Kinds : own[x][k] = 0 /\ stacks[k] \in Seq(Controls)
  BY <1>2 DEF Zero, ContInv, TypeOK
<1>4. TypeOK'
  <2>1. coro' \in Coros \cup {Main} /\ task' \in Tasks \cup {Main}
    BY DEF ContInv, TypeOK
  <2>2. chain' \in Seq(Controls)
    BY <1>1, Appended DEF ContInv, TypeOK
  <2>3. prev' \in [Movable -> [coro : Coros \cup {Main}, task : Tasks \cup {Main}, at : Controls]]
    BY DEF Start, Remember, ContInv, TypeOK
  <2>4. base' \in [Movable -> [Kinds -> Nat]]
    <3>1. [k \in Kinds |-> Len(stacks[k])] \in [Kinds -> Nat]
      BY <1>3
    <3>2. QED
      BY <3>1 DEF Start, Remember, ContInv, TypeOK
  <2>5. phase' \in [Movable -> {"new", "active", "away", "done"}] /\ enters' \in Nat
    BY DEF Start, Remember, ContInv, TypeOK
  <2>6. QED
    BY <1>1, <2>1, <2>2, <2>3, <2>4, <2>5 DEF Start, ContInv, TypeOK
<1>5. AwayOK'
  <2>1. \A y \in Movable : phase'[y] = IF y = x THEN "active" ELSE phase[y]
    BY DEF Start, Remember, ContInv, TypeOK
  <2>2. QED
    BY <1>2, <2>1 DEF Start, ContInv, AwayOK
<1>6. UNCHANGED <<slice, savedAt, own, stacks, saved>>
  BY DEF Start
<1>7. QED
  <2>1. \A k \in Kinds : OnTop(x, k)
    BY <1>3, <1>6 DEF OnTop
  <2>2. QED
    BY <1>1, <1>2, <1>4, <1>5, <1>6, <2>1, EnterInv DEF Entered

(* cx_cont_resume and before_resume. *)
LEMMA RestoreInv ==
  ASSUME ContInv, NEW x \in Movable, Restore(x),
         coro' = IF x \in Coros THEN x ELSE coro, task' = IF x \in Tasks THEN x ELSE task
  PROVE  ContInv'
<1>1. phase[x] = "away" /\ Remember(x) /\ x \in Controls
  BY DEF Restore, Controls
<1>2. slice[x] = <<x>> /\ savedAt[x] = x
  BY <1>1 DEF ContInv, AwayOK
<1>3. at' = x /\ chain' = Append(chain, x)
  <2>1. chain' = chain \o <<x>> /\ chain \in Seq(Controls)
    BY <1>2 DEF Restore, ContInv, TypeOK
  <2>2. QED
    BY <1>1, <1>2, <2>1, JoinOne DEF Restore
<1>4. ASSUME NEW k \in Kinds
      PROVE  /\ stacks'[k] \in Seq(Controls) /\ Len(stacks'[k]) = Len(stacks[k]) + own[x][k]
             /\ \A j \in 1 .. Len(stacks[k]) : stacks'[k][j] = stacks[k][j]
             /\ \A j \in 1 .. own[x][k] : stacks'[k][Len(stacks[k]) + j] = x
  <2>1. stacks'[k] = stacks[k] \o saved[x][k]
    BY DEF Restore
  <2>2. stacks[k] \in Seq(Controls) /\ saved[x][k] \in Seq(Controls)
    BY DEF ContInv, TypeOK
  <2>3. Len(saved[x][k]) = own[x][k] /\ \A j \in DOMAIN saved[x][k] : saved[x][k][j] = x
    BY <1>1, <1>2 DEF ContInv, SavedInFull
  <2>4. \A j \in 1 .. own[x][k] : saved[x][k][j] = x
    BY <2>2, <2>3
  <2>5. /\ stacks'[k] \in Seq(Controls) /\ Len(stacks'[k]) = Len(stacks[k]) + Len(saved[x][k])
        /\ \A j \in 1 .. Len(stacks[k]) : stacks'[k][j] = stacks[k][j]
        /\ \A j \in 1 .. Len(saved[x][k]) : stacks'[k][Len(stacks[k]) + j] = saved[x][k][j]
    <3>1. PICK s \in Seq(Controls) : s = stacks[k]
      BY <2>2
    <3>2. PICK t \in Seq(Controls) : t = saved[x][k]
      BY <2>2
    <3>3. stacks'[k] = s \o t
      BY <2>1, <3>1, <3>2
    <3>4. /\ s \o t \in Seq(Controls) /\ Len(s \o t) = Len(s) + Len(t)
          /\ \A i \in 1 .. Len(s) : (s \o t)[i] = s[i]
          /\ \A i \in 1 .. Len(t) : (s \o t)[Len(s) + i] = t[i]
      BY Joined
    <3>5. QED
      BY <3>1, <3>2, <3>3, <3>4, Zenon
  <2>6. QED
    BY <2>3, <2>4, <2>5
<1>5. Empty \in [Kinds -> Seq(Controls)] /\ Empty["scopes"] = <<>>
  BY DEF Empty, Kinds
<1>6. /\ saved' \in [Movable -> [Kinds -> Seq(Controls)]] /\ saved'[x]["scopes"] = <<>>
      /\ \A y \in Movable : y # x => saved'[y] = saved[y]
  BY <1>5 DEF Restore, ContInv, TypeOK
<1>7. \A y \in Movable : phase'[y] = IF y = x THEN "active" ELSE phase[y]
  BY DEF Restore, Remember, ContInv, TypeOK
<1>8. TypeOK'
  <2>1. coro' \in Coros \cup {Main} /\ task' \in Tasks \cup {Main} /\ at' \in Controls
    BY <1>1, <1>3 DEF ContInv, TypeOK
  <2>2. chain' \in Seq(Controls)
    BY <1>1, <1>3, Appended DEF ContInv, TypeOK
  <2>3. prev' \in [Movable -> [coro : Coros \cup {Main}, task : Tasks \cup {Main}, at : Controls]]
    BY DEF Restore, Remember, ContInv, TypeOK
  <2>4. base' \in [Movable -> [Kinds -> Nat]]
    <3>1. \A k \in Kinds : stacks[k] \in Seq(Controls)
      BY DEF ContInv, TypeOK
    <3>2. [k \in Kinds |-> Len(stacks[k])] \in [Kinds -> Nat]
      BY <3>1
    <3>3. QED
      BY <3>2 DEF Restore, Remember, ContInv, TypeOK
  <2>5. phase' \in [Movable -> {"new", "active", "away", "done"}] /\ enters' \in Nat
    BY DEF Restore, Remember, ContInv, TypeOK
  <2>6. stacks' \in [Kinds -> Seq(Controls)]
    BY <1>4 DEF Restore
  <2>7. slice' \in [Movable -> Seq(Controls)]
    BY DEF Restore, ContInv, TypeOK
  <2>8. UNCHANGED <<savedAt, runner, running, own>>
    BY DEF Restore
  <2>9. QED
    BY <1>6, <2>1, <2>2, <2>3, <2>4, <2>5, <2>6, <2>7, <2>8 DEF ContInv, TypeOK
<1>9. AwayOK'
  <2>1. \A y \in Movable : y # x => slice'[y] = slice[y] /\ saved'[y] = saved[y]
    BY <1>6 DEF Restore, ContInv, TypeOK
  <2>2. UNCHANGED <<own, savedAt>>
    BY DEF Restore
  <2>3. QED
    BY <1>6, <1>7, <2>1, <2>2 DEF ContInv, AwayOK
<1>10. QED
  <2>1. (\A y \in Movable : y # x => slice'[y] = slice[y]) /\ UNCHANGED own
    BY DEF Restore, ContInv, TypeOK
  <2>2. \A k \in Kinds : OnTop(x, k)
    BY <1>4 DEF OnTop
  <2>3. QED
    BY <1>1, <1>3, <1>6, <1>8, <1>9, <2>1, <2>2, EnterInv DEF Entered
-----------------------------------------------------------------------------
(* The control that evaluates leaves: its entries are taken away. *)
Left(x, p) ==
  /\ Top = x /\ chain' = SubSeq(chain, 1, Len(chain) - 1)
  /\ prev' = prev /\ base' = base
  /\ p # "active" /\ phase' = [phase EXCEPT ![x] = p]
  /\ coro' = prev[x].coro /\ task' = prev[x].task /\ at' = prev[x].at
  /\ \A y \in Controls : y # x => own'[y] = own[y]

CutTo(x, k) ==
  /\ Len(stacks'[k]) = base[x][k]
  /\ \A j \in 1 .. base[x][k] : stacks'[k][j] = stacks[k][j]

(* Cutting the stacks down to the base of a control keeps it.              *)
LEMMA LeaveInv ==
  ASSUME ContInv, TypeOK', NEW x \in Movable, NEW p, Left(x, p), \A k \in Kinds : CutTo(x, k),
         AwayOK', SavedInFull'
  PROVE  ContInv'
<1>1. ChainOK' /\ PrevOK' /\ InnermostCoro' /\ InnermostTask' /\ OwnPosition'
  BY Shrink DEF ContInv, Left
<1>2. ASSUME NEW k \in Kinds
      PROVE  Pile(Len(chain'), Len(stacks'[k]), chain', Heights(k)', Counts(k)', stacks'[k])
  <2>1. PICK l : l = Len(chain)
    OBVIOUS
  <2>2. PICK e : e = Len(stacks[k])
    OBVIOUS
  <2>3. Pile(l, e, chain, Heights(k), Counts(k), stacks[k])
    BY <2>1, <2>2, PilesBefore DEF ContInv
  <2>4. /\ l \in Nat /\ l > 1 /\ DOMAIN chain = 1 .. l /\ x = chain[l] /\ l \in 1 .. l
        /\ \A i \in 1 .. l : chain[i] \in Controls
        /\ \A i \in 1 .. l : i # l => chain[i] # x
    <3>1. l \in Nat \ {0} /\ l # 1
      BY <2>1, TopIs DEF ContInv, Left
    <3>2. /\ DOMAIN chain = 1 .. l /\ x = chain[l]
          /\ \A i \in 1 .. l : chain[i] \in Controls
          /\ \A i \in 1 .. l : i # l => chain[i] # x
      BY <2>1, TopIs DEF ContInv, Left
    <3>3. l > 1 /\ l \in 1 .. l
      BY <3>1
    <3>4. QED
      BY <3>1, <3>2, <3>3
  <2>5. PICK m \in Nat : m = l - 1
    BY <2>4
  <2>6. Len(chain') = m /\ DOMAIN chain' = 1 .. m /\ \A i \in 1 .. m : chain'[i] = chain[i]
    <3>1. chain \in Seq(Controls) /\ m <= Len(chain) /\ chain' = SubSeq(chain, 1, m)
      BY <2>1, <2>4, <2>5 DEF ContInv, TypeOK, Left
    <3>2. QED
      BY <3>1, Shortened
  <2>7. \A i \in 1 .. l : i # l => i \in 1 .. m
    BY <2>4, <2>5
  <2>8. \A i \in 1 .. m : Heights(k)'[i] = Heights(k)[i]
    <3>1. \A i \in 1 .. m : i \in 1 .. l
      BY <2>4, <2>5
    <3>2. base' = base
      BY DEF Left
    <3>3. QED
      BY <2>4, <2>6, <3>1, <3>2 DEF Heights
  <2>9. Heights(k)[l] = base[x][k]
    BY <2>4 DEF Heights
  <2>10. \A i \in 1 .. m : Counts(k)'[chain[i]] = Counts(k)[chain[i]]
    <3>1. \A y \in Controls : y # x => own'[y] = own[y]
      BY DEF Left
    <3>2. \A i \in 1 .. m : i \in 1 .. l /\ i # l
      BY <2>4, <2>5
    <3>3. QED
      BY <2>4, <3>1, <3>2 DEF Counts
  <2>11. Pile(Len(chain'), Len(stacks'[k]), chain', Heights(k)', Counts(k)', stacks'[k])
    <3>1. PICK q, f, d, g, v, t : q = Len(chain') /\ f = Len(stacks'[k]) /\ d = chain'
                                  /\ g = Heights(k)' /\ v = Counts(k)' /\ t = stacks'[k]
      OBVIOUS
    <3>2. PICK c, h, n, s : c = chain /\ h = Heights(k) /\ n = Counts(k) /\ s = stacks[k]
      OBVIOUS
    <3>3. Pile(l, e, c, h, n, s) /\ l # 1
      BY <2>3, <2>4, <3>2
    <3>4. q = l - 1 /\ f = h[l]
      BY <2>5, <2>6, <2>9, <3>1, <3>2 DEF CutTo
    <3>5. SameOn(q, c, d) /\ SameOn(q, h, g)
      BY <2>6, <2>8, <3>1, <3>2 DEF SameOn
    <3>6. SameCounts(q, c, n, v)
      BY <2>6, <2>10, <3>1, <3>2 DEF SameCounts
    <3>7. SameOn(f, s, t)
      BY <2>9, <3>1, <3>2, <3>4 DEF CutTo, SameOn
    <3>9. Pile(q, f, d, g, v, t)
      BY <3>3, <3>4, <3>5, <3>6, <3>7, PileLess
    <3>10. QED
      BY <3>1, <3>9
  <2>12. QED
    BY <2>11
<1>3. QED
  BY <1>1, <1>2, PilesAfter DEF ContInv

(* cx_cont_finish, and the end of a task. *)
LEMMA FinishInv ==
  ASSUME ContInv, NEW x \in Movable, Finish(x)
  PROVE  ContInv'
<1>1. Top = x /\ x \in Controls
  BY DEF Finish, Evaluates, Controls
<1>2. /\ phase[x] = "active" /\ Len(chain) \in Nat /\ Len(chain) > 1
      /\ chain' = SubSeq(chain, 1, Len(chain) - 1)
  <2>1. /\ phase[x] = "active" /\ Len(chain) \in Nat \ {0} /\ Len(chain) # 1
        /\ Front(chain) = SubSeq(chain, 1, Len(chain) - 1)
    BY <1>1, TopIs DEF ContInv
  <2>2. Len(chain) > 1
    <3>1. PICK n \in Nat \ {0} : n = Len(chain)
      BY <2>1
    <3>2. n # 1
      BY <2>1, <3>1
    <3>3. n > 1
      BY <3>2
    <3>4. QED
      BY <3>1, <3>3
  <2>3. chain' = Front(chain)
    BY DEF Finish
  <2>4. QED
    BY <2>1, <2>2, <2>3
<1>3. chain' \in Seq(Controls)
  <2>1. chain \in Seq(Controls) /\ Len(chain) - 1 \in Nat /\ Len(chain) - 1 <= Len(chain)
    BY <1>2 DEF ContInv, TypeOK
  <2>2. QED
    BY <1>2, <2>1, Shortened
<1>4. ASSUME NEW k \in Kinds PROVE stacks'[k] \in Seq(Controls) /\ CutTo(x, k)
  <2>1. stacks'[k] = SubSeq(stacks[k], 1, base[x][k])
    BY DEF Finish
  <2>2. stacks[k] \in Seq(Controls) /\ base[x][k] \in Nat
    BY DEF ContInv, TypeOK
  <2>3. base[x][k] <= Len(stacks[k])
    BY <1>1, BaseBelow DEF ContInv
  <2>4. QED
    BY <2>1, <2>2, <2>3, Shortened DEF CutTo
<1>5. \A y \in Movable : phase'[y] = IF y = x THEN "done" ELSE phase[y]
  BY DEF Finish, ContInv, TypeOK
<1>6. Zero \in [Kinds -> Nat] /\ own' = [own EXCEPT ![x] = Zero]
  BY DEF Finish, Zero
<1>7. TypeOK'
  <2>1. coro' \in Coros \cup {Main} /\ task' \in Tasks \cup {Main} /\ at' \in Controls
    BY DEF Finish, ContInv, TypeOK
  <2>2. stacks' \in [Kinds -> Seq(Controls)]
    BY <1>4 DEF Finish
  <2>3. phase' \in [Movable -> {"new", "active", "away", "done"}]
    BY DEF Finish, ContInv, TypeOK
  <2>4. own' \in [Controls -> [Kinds -> Nat]]
    BY <1>6 DEF ContInv, TypeOK
  <2>5. QED
    BY <1>3, <2>1, <2>2, <2>3, <2>4 DEF Finish, ContInv, TypeOK
<1>8. \A y \in Controls : own'[y] = IF y = x THEN Zero ELSE own[y]
  BY <1>6 DEF ContInv, TypeOK
<1>9. AwayOK' /\ SavedInFull'
  <2>1. UNCHANGED <<slice, saved, savedAt>>
    BY DEF Finish
  <2>2. \A y \in Movable : y \in Controls
    BY DEF Controls
  <2>3. QED
    BY <1>2, <1>5, <1>8, <2>1, <2>2 DEF ContInv, AwayOK, SavedInFull
<1>10. Left(x, "done")
  BY <1>1, <1>2, <1>8 DEF Left, Finish
<1>11. QED
  BY <1>4, <1>7, <1>9, <1>10, LeaveInv
(* cx_cont_suspend and cx_task_resched, by the code of x itself. *)
LEMMA SaveInv ==
  ASSUME ContInv, NEW x \in Movable, Top = x, Save(x)
  PROVE  ContInv'
<1>0. PICK F \in SUBSET Kinds : F = {"libs", "calls"}
  BY DEF Kinds
<1>b. PICK now : now = PushOn(F, x)
  OBVIOUS
<1> DEFINE Above(k) == SubSeq(now[k], base[x][k] + 1, Len(now[k]))
<1>1. x \in Controls
  BY DEF Controls
<1>a. /\ own' = Owned(x, F, 1)
      /\ stacks' = [k \in Kinds |-> SubSeq(now[k], 1, base[x][k])]
      /\ saved' = [saved EXCEPT ![x] =
           [k \in Kinds |-> IF Above(k) # <<>> THEN Above(k) ELSE saved[x][k]]]
  BY <1>0, <1>b DEF Save
<1> HIDE DEF Above
<1>7. /\ own' \in [Controls -> [Kinds -> Nat]]
      /\ \A y \in Controls : y # x => own'[y] = own[y]
      /\ \A k \in Kinds : own'[x][k] = IF k \in F THEN own[x][k] + 1 ELSE own[x][k]
  <2>1. MayShift(x, F, 1) /\ TypeOK
    BY <1>1 DEF ContInv, TypeOK, MayShift
  <2>2. own' = Owned(x, F, 1)
    BY <1>a
  <2>3. Shifted(x, F, 1)
    BY <1>1, <2>1, <2>2, OwnedIs
  <2>4. QED
    BY <2>3 DEF Shifted
<1>2. PICK n \in Nat : n = Len(chain) - 1 /\ n + 1 = Len(chain)
  <2>1. Len(chain) \in Nat \ {0}
    BY TopIs DEF ContInv
  <2>2. Len(chain) - 1 \in Nat /\ (Len(chain) - 1) + 1 = Len(chain)
    BY <2>1
  <2>3. QED
    BY <2>2
<1>3. phase[x] = "active" /\ chain \in Seq(Controls)
  BY TopIs DEF ContInv, TypeOK
<1>4. chain' = SubSeq(chain, 1, n) /\ slice' = [slice EXCEPT ![x] = SubSeq(chain, n + 1, n + 1)]
  <2>1. PICK i \in DOMAIN chain :
          /\ chain[i] = x /\ chain' = SubSeq(chain, 1, i - 1)
          /\ slice' = [slice EXCEPT ![x] = SubSeq(chain, i, Len(chain))]
    BY DEF Save
  <2>2. i = Len(chain)
    BY <2>1, TopIs DEF ContInv
  <2>3. QED
    BY <1>2, <2>1, <2>2
<1>5. SubSeq(chain, n + 1, n + 1) = <<x>>
  <2>1. chain[n + 1] = x
    BY <1>2, TopIs DEF ContInv
  <2>2. QED
    BY <1>2, <1>3, <2>1, OneOf
<1>6. chain' \in Seq(Controls)
  BY <1>2, <1>3, <1>4, Shortened
<1>8. ASSUME NEW k \in Kinds
      PROVE  /\ now[k] \in Seq(Controls) /\ Len(now[k]) = base[x][k] + own'[x][k]
             /\ \A j \in 1 .. base[x][k] : now[k][j] = stacks[k][j]
             /\ \A j \in 1 .. own'[x][k] : now[k][base[x][k] + j] = x
             /\ base[x][k] \in Nat /\ own'[x][k] \in Nat
  <2>1. /\ base[x][k] \in Nat /\ Len(stacks[k]) \in Nat /\ own[x][k] \in Nat
        /\ base[x][k] <= Len(stacks[k]) /\ Len(stacks[k]) = base[x][k] + own[x][k]
        /\ \A j \in 1 .. own[x][k] : stacks[k][base[x][k] + j] = x
    BY BaseBelow DEF ContInv
  <2>2. stacks[k] \in Seq(Controls)
    BY DEF ContInv, TypeOK
  <2>3. now[k] = IF k \in F THEN Append(stacks[k], x) ELSE stacks[k]
    BY <1>0, <1>b DEF PushOn
  <2>4. CASE k \in F
    <3>1. PICK s \in Seq(Controls) : s = stacks[k]
      BY <2>2
    <3>2. PICK b \in Nat, m \in Nat : b = base[x][k] /\ m = own[x][k]
      BY <2>1
    <3>3. now[k] = Append(s, x) /\ own'[x][k] = m + 1 /\ Len(s) = b + m
      BY <1>7, <2>1, <2>3, <2>4, <3>1, <3>2
    <3>4. /\ Append(s, x) \in Seq(Controls) /\ Len(Append(s, x)) = b + m + 1
          /\ \A i \in 1 .. b + m : Append(s, x)[i] = s[i]
          /\ Append(s, x)[b + m + 1] = x
      BY <1>1, <3>3, Appended
    <3>5. \A j \in 1 .. m : s[b + j] = x
      BY <2>1, <3>1, <3>2
    <3>6. \A j \in 1 .. b : j \in 1 .. b + m
      OBVIOUS
    <3>7. \A j \in 1 .. m + 1 : b + j = b + m + 1 \/ (b + j \in 1 .. b + m /\ j \in 1 .. m)
      OBVIOUS
    <3>8. \A j \in 1 .. m + 1 : Append(s, x)[b + j] = x
      BY <3>4, <3>5, <3>7
    <3>9. Len(now[k]) = base[x][k] + own'[x][k] /\ base[x][k] \in Nat /\ own'[x][k] \in Nat
      <4>1. Len(now[k]) = b + m + 1
        BY <3>3, <3>4, Zenon
      <4>2. own'[x][k] = m + 1
        BY <3>3
      <4>3. b + m + 1 = b + (m + 1) /\ m + 1 \in Nat
        OBVIOUS
      <4>4. QED
        BY <3>2, <4>1, <4>2, <4>3, Zenon
    <3>10. \A j \in 1 .. base[x][k] : now[k][j] = stacks[k][j]
      BY <3>1, <3>2, <3>3, <3>4, <3>6
    <3>11. \A j \in 1 .. own'[x][k] : now[k][base[x][k] + j] = x
      BY <3>2, <3>3, <3>8
    <3>12. QED
      BY <3>3, <3>4, <3>9, <3>10, <3>11
  <2>5. CASE k \notin F
    BY <1>7, <2>1, <2>2, <2>3, <2>5
  <2>6. QED
    BY <2>4, <2>5
<1>9. ASSUME NEW k \in Kinds PROVE stacks'[k] \in Seq(Controls) /\ CutTo(x, k)
  <2>1. stacks'[k] = SubSeq(now[k], 1, base[x][k])
    BY <1>a
  <2>2. PICK s \in Seq(Controls), b \in Nat, m \in Nat :
          s = now[k] /\ b = base[x][k] /\ m = own'[x][k]
    BY <1>8
  <2>3. b <= Len(s)
    BY <1>8, <2>2
  <2>4. SubSeq(s, 1, b) \in Seq(Controls) /\ Len(SubSeq(s, 1, b)) = b
        /\ \A i \in 1 .. b : SubSeq(s, 1, b)[i] = s[i]
    BY <2>3, Shortened
  <2>5. \A j \in 1 .. b : s[j] = stacks[k][j]
    BY <1>8, <2>2
  <2>6. stacks'[k] = SubSeq(s, 1, b)
    BY <2>1, <2>2
  <2>7. QED
    BY <2>2, <2>4, <2>5, <2>6 DEF CutTo
<1>10. ASSUME NEW k \in Kinds
       PROVE  /\ saved'[x][k] \in Seq(Controls) /\ Len(saved'[x][k]) = own'[x][k]
              /\ \A j \in DOMAIN saved'[x][k] : saved'[x][k][j] = x
  <2>1. saved'[x][k] = IF Above(k) # <<>> THEN Above(k) ELSE saved[x][k]
    BY <1>a DEF ContInv, TypeOK
  <2>2. PICK s \in Seq(Controls), b \in Nat, m \in Nat :
          s = now[k] /\ b = base[x][k] /\ m = own'[x][k]
    BY <1>8
  <2>3. Len(s) = b + m /\ \A j \in 1 .. m : s[b + j] = x
    BY <1>8, <2>2
  <2>4. PICK t : t = Above(k)
    OBVIOUS
  <2>5. t = SubSeq(s, b + 1, Len(s))
    BY <2>2, <2>4 DEF Above
  <2>6. t \in Seq(Controls) /\ Len(t) = m /\ \A i \in 1 .. m : t[i] = x
    <3>1. b <= Len(s) /\ Len(s) - b = m
      BY <2>3
    <3>2. t \in Seq(Controls) /\ Len(t) = m /\ \A i \in 1 .. m : t[i] = s[b + i]
      BY <2>5, <3>1, CutOff
    <3>3. QED
      BY <2>3, <3>2
  <2>7. CASE t # <<>>
    <3>1. saved'[x][k] = t
      BY <2>1, <2>4, <2>7
    <3>2. DOMAIN t = 1 .. m
      BY <2>6
    <3>3. QED
      BY <2>2, <2>6, <3>1, <3>2
  <2>8. CASE t = <<>>
    <3>1. m = 0 /\ own'[x][k] = 0
      BY <2>2, <2>6, <2>8
    <3>2. k = "scopes"
      <4>1. own[x][k] \in Nat /\ own[x][k] + 1 # 0
        BY <1>1 DEF ContInv, TypeOK
      <4>2. k \notin F
        BY <1>7, <3>1, <4>1
      <4>3. QED
        BY <1>0, <4>2 DEF Kinds
    <3>3. saved[x]["scopes"] = <<>>
      BY <1>3 DEF ContInv, AwayOK
    <3>4. saved'[x][k] = <<>>
      BY <2>1, <2>4, <2>8, <3>2, <3>3
    <3>5. QED
      BY <3>1, <3>4
  <2>9. QED
    BY <2>7, <2>8
<1>11. \A y \in Movable : phase'[y] = IF y = x THEN "away" ELSE phase[y]
  BY DEF Save, ContInv, TypeOK
<1>12. /\ saved' \in [Movable -> [Kinds -> Seq(Controls)]]
       /\ \A y \in Movable : y # x => saved'[y] = saved[y]
  <2>1. PICK v : saved' = [saved EXCEPT ![x] = [k \in Kinds |-> v[k]]]
    <3>1. PICK v : v = [k \in Kinds |-> IF Above(k) # <<>> THEN Above(k) ELSE saved[x][k]]
      OBVIOUS
    <3>2. v = [k \in Kinds |-> v[k]]
      BY <3>1
    <3>3. saved' = [saved EXCEPT ![x] = [k \in Kinds |-> v[k]]]
      BY <1>a, <3>1, <3>2, Zenon
    <3>4. QED
      BY <3>3
  <2>2. saved'[x] = [k \in Kinds |-> v[k]]
    BY <2>1 DEF ContInv, TypeOK
  <2>3. \A k \in Kinds : v[k] \in Seq(Controls)
    BY <1>10, <2>2
  <2>4. [k \in Kinds |-> v[k]] \in [Kinds -> Seq(Controls)]
    BY <2>3
  <2>5. QED
    BY <2>1, <2>4 DEF ContInv, TypeOK
<1>13. TypeOK'
  <2>1. coro' \in Coros \cup {Main} /\ task' \in Tasks \cup {Main} /\ at' \in Controls
    BY DEF Save, ContInv, TypeOK
  <2>2. stacks' \in [Kinds -> Seq(Controls)]
    <3>1. stacks' = [k \in Kinds |-> stacks'[k]]
      BY <1>a
    <3>2. QED
      BY <1>9, <3>1
  <2>3. phase' \in [Movable -> {"new", "active", "away", "done"}]
    BY DEF Save, ContInv, TypeOK
  <2>4. savedAt' \in [Movable -> Controls]
    BY DEF Save, ContInv, TypeOK
  <2>5. slice' \in [Movable -> Seq(Controls)]
    <3>1. <<x>> \in Seq(Controls)
      BY <1>1
    <3>2. QED
      BY <1>4, <1>5, <3>1 DEF ContInv, TypeOK
  <2>6. UNCHANGED <<prev, base, runner, running, enters>>
    BY DEF Save
  <2>7. QED
    BY <1>6, <1>7, <1>12, <2>1, <2>2, <2>3, <2>4, <2>5, <2>6 DEF ContInv, TypeOK
<1>14. slice'[x] = <<x>> /\ savedAt'[x] = x
       /\ \A y \in Movable : y # x => slice'[y] = slice[y] /\ savedAt'[y] = savedAt[y]
  <2>1. at = x
    BY DEF ContInv, OwnPosition
  <2>2. savedAt' = [savedAt EXCEPT ![x] = at]
    BY DEF Save
  <2>3. QED
    BY <1>4, <1>5, <2>1, <2>2 DEF ContInv, TypeOK
<1>15. \A y \in Movable : y # x => own'[y] = own[y]
  BY <1>7 DEF Controls
<1>16. AwayOK'
  BY <1>11, <1>12, <1>14, <1>15 DEF ContInv, AwayOK
<1>17. SavedInFull'
  <2>1. SUFFICES ASSUME NEW y \in Movable, phase'[y] = "away", slice'[y] = <<y>>, NEW k \in Kinds
                 PROVE  /\ Len(saved'[y][k]) = own'[y][k]
                        /\ \A j \in DOMAIN saved'[y][k] : saved'[y][k][j] = y
    BY DEF SavedInFull
  <2>2. CASE y = x
    BY <1>10, <2>2
  <2>3. CASE y # x
    <3>1. /\ phase[y] = "away" /\ slice[y] = <<y>> /\ saved'[y] = saved[y] /\ own'[y] = own[y]
      BY <1>11, <1>12, <1>14, <1>15, <2>1, <2>3
    <3>2. /\ Len(saved[y][k]) = own[y][k]
          /\ \A j \in DOMAIN saved[y][k] : saved[y][k][j] = y
      BY <3>1 DEF ContInv, SavedInFull
    <3>3. QED
      BY <3>1, <3>2
  <2>4. QED
    BY <2>2, <2>3
<1>18. Left(x, "away")
  <2>1. chain' = SubSeq(chain, 1, Len(chain) - 1)
    BY <1>2, <1>4
  <2>2. QED
    BY <1>7, <2>1 DEF Left, Save
<1>19. QED
  BY <1>9, <1>13, <1>16, <1>17, <1>18, LeaveInv
(* cx_coro_reset. *)
LEMMA ResetInv ==
  ASSUME ContInv, NEW c \in Coros, Reset(c)
  PROVE  ContInv'
<1>1. c \in Movable /\ c \in Controls /\ phase[c] # "active"
  BY Distinct DEF Reset
<1>2. \A y \in Movable : phase'[y] = IF y = c THEN "new" ELSE phase[y]
  BY DEF Reset, ContInv, TypeOK
<1>3. Zero \in [Kinds -> Nat] /\ own' = [own EXCEPT ![c] = Zero]
  BY DEF Reset, Zero
<1>4. \A y \in Controls : own'[y] = IF y = c THEN Zero ELSE own[y]
  BY <1>3 DEF ContInv, TypeOK
<1>5. /\ saved' \in [Movable -> [Kinds -> Seq(Controls)]] /\ saved'[c]["scopes"] = <<>>
      /\ \A y \in Movable : y # c => saved'[y] = saved[y]
  <2>1. saved \in [Movable -> [Kinds -> Seq(Controls)]]
    BY DEF ContInv, TypeOK
  <2>2. saved' = [saved EXCEPT ![c]["scopes"] = <<>>, ![c]["calls"] = <<>>]
    BY DEF Reset
  <2>3. "scopes" \in Kinds /\ "calls" \in Kinds /\ "scopes" # "calls" /\ <<>> \in Seq(Controls)
    BY DEF Kinds
  <2>4. QED
    BY <1>1, <2>1, <2>2, <2>3
<1>6. TypeOK'
  <2>1. own' \in [Controls -> [Kinds -> Nat]]
    BY <1>3 DEF ContInv, TypeOK
  <2>2. phase' \in [Movable -> {"new", "active", "away", "done"}]
    BY DEF Reset, ContInv, TypeOK
  <2>3. slice' \in [Movable -> Seq(Controls)]
    <3>1. slice \in [Movable -> Seq(Controls)] /\ <<>> \in Seq(Controls)
      BY DEF ContInv, TypeOK
    <3>2. slice' = [slice EXCEPT ![c] = <<>>]
      BY DEF Reset
    <3>3. QED
      BY <3>1, <3>2
  <2>4. QED
    BY <1>5, <2>1, <2>2, <2>3 DEF Reset, ContInv, TypeOK
<1>7. ChainOK' /\ PrevOK' /\ InnermostCoro' /\ InnermostTask' /\ OwnPosition'
  BY <1>1, <1>2, SameChain DEF Reset, ContInv
<1>8. AwayOK' /\ SavedInFull'
  <2>1. \A y \in Movable : y # c => slice'[y] = slice[y]
    BY DEF Reset, ContInv, TypeOK
  <2>2. UNCHANGED savedAt /\ \A y \in Movable : y \in Controls
    BY DEF Reset, Controls
  <2>3. Zero = own'[c] /\ phase'[c] = "new"
    BY <1>1, <1>2, <1>4
  <2>4. \A y \in Movable : y # c => /\ phase'[y] = phase[y] /\ own'[y] = own[y] /\ saved'[y] = saved[y]
                                    /\ slice'[y] = slice[y] /\ savedAt'[y] = savedAt[y]
    BY <1>2, <1>4, <1>5, <2>1, <2>2
  <2>5. AwayOK'
    BY <1>5, <2>3, <2>4 DEF ContInv, AwayOK
  <2>6. SavedInFull'
    BY <2>3, <2>4 DEF ContInv, SavedInFull
  <2>7. QED
    BY <2>5, <2>6
<1>9. ASSUME NEW k \in Kinds
      PROVE  Pile(Len(chain'), Len(stacks'[k]), chain', Heights(k)', Counts(k)', stacks'[k])
  <2>1. Pile(Len(chain), Len(stacks[k]), chain, Heights(k), Counts(k), stacks[k])
    BY PilesBefore DEF ContInv
  <2>2. UNCHANGED <<chain, stacks, base>>
    BY DEF Reset
  <2>3. Heights(k)' = Heights(k)
    BY <2>2 DEF Heights
  <2>4. \A i \in 1 .. Len(chain) : chain[i] # c /\ chain[i] \in Controls
    <3>1. DOMAIN chain = 1 .. Len(chain) /\ \A i \in 1 .. Len(chain) : chain[i] \in Controls
      BY TopIs DEF ContInv
    <3>2. phase[c] = "active" <=> \E i \in 1 .. Len(chain) : chain[i] = c
      BY <1>1, <3>1, Zenon DEF ContInv, ChainOK
    <3>3. QED
      BY <1>1, <3>1, <3>2
  <2>5. \A i \in 1 .. Len(chain) : Counts(k)'[chain[i]] = Counts(k)[chain[i]]
    BY <1>4, <2>4 DEF Counts
  <2>6. Pile(Len(chain), Len(stacks[k]), chain, Heights(k), Counts(k)', stacks[k])
    BY <2>1, <2>5 DEF Pile
  <2>7. QED
    BY <2>2, <2>3, <2>6
<1>10. QED
  BY <1>6, <1>7, <1>8, <1>9, PilesAfter DEF ContInv

-----------------------------------------------------------------------------
(* A step that only changes who runs a scheduler. *)
LEMMA RunInv ==
  ASSUME ContInv, NEW s \in Scheds, RunStart(s) \/ RunReturn(s)
  PROVE  ContInv'
<1>1. UNCHANGED <<ctx, prev, base, saved, savedAt, phase, chain, slice, own, enters>>
  BY DEF RunStart, RunReturn
<1>2. UNCHANGED <<coro, task, at, stacks>>
  BY <1>1 DEF ctx
<1>3. running' \in SUBSET Scheds /\ runner' \in [Scheds -> Controls]
  <2>1. Top \in Controls /\ Main \in Controls
    BY TopIs DEF ContInv, Controls
  <2>2. QED
    BY <2>1 DEF RunStart, RunReturn, ContInv, TypeOK
<1>4. TypeOK'
  BY <1>1, <1>2, <1>3 DEF ContInv, TypeOK
<1>5. ChainOK' /\ PrevOK' /\ InnermostCoro' /\ InnermostTask' /\ OwnPosition'
  BY <1>1, <1>2, SameChain DEF ContInv
<1>6. \A k : Heights(k)' = Heights(k) /\ Counts(k)' = Counts(k)
  BY <1>1 DEF Heights, Counts
<1>7. StackedInOrder' /\ Ascending'
  BY <1>1, <1>2, <1>6 DEF ContInv, StackedInOrder, Ascending, Piled, Rising
<1>8. AwayOK' /\ SavedInFull'
  BY <1>1 DEF ContInv, AwayOK, SavedInFull
<1>9. QED
  BY <1>4, <1>5, <1>7, <1>8 DEF ContInv
-----------------------------------------------------------------------------
(* At first the stacks are empty, the main program is alone in the chain,  *)
(* and no coroutine or task has been entered.                              *)
LEMMA InitInv == Init => ContInv
<1> SUFFICES ASSUME Init PROVE ContInv
  OBVIOUS
<1>1. Main \in Controls /\ Main \notin Movable
  BY Distinct DEF Controls, Movable
<1>2. /\ chain = <<Main>> /\ chain \in Seq(Controls) /\ Len(chain) = 1 /\ chain[1] = Main
      /\ DOMAIN chain = 1 .. 1 /\ Last(chain) = Main
  <2>1. chain = <<Main>>
    BY DEF Init
  <2>2. chain \in Seq(Controls) /\ Len(chain) = 1 /\ chain[1] = Main /\ DOMAIN chain = 1 .. 1
    BY <1>1, <2>1
  <2>3. Last(chain) = chain[Len(chain)]
    BY DEF Last
  <2>4. Last(chain) = chain[1]
    BY <2>2, <2>3
  <2>5. QED
    BY <2>1, <2>2, <2>4
<1>3. TypeOK
  <2>1. Empty \in [Kinds -> Seq(Controls)] /\ Zero \in [Kinds -> Nat]
    BY DEF Empty, Zero
  <2>2. <<>> \in Seq(Controls)
    OBVIOUS
  <2>3. /\ coro = Main /\ task = Main /\ at = Main /\ stacks = Empty
        /\ prev = [x \in Movable |-> [coro |-> Main, task |-> Main, at |-> Main]]
        /\ base = [x \in Movable |-> Zero] /\ saved = [x \in Movable |-> Empty]
        /\ savedAt = [x \in Movable |-> Main] /\ phase = [x \in Movable |-> "new"]
        /\ slice = [x \in Movable |-> <<>>] /\ runner = [s \in Scheds |-> Main]
        /\ running = {} /\ own = [x \in Controls |-> Zero] /\ enters = 0
    BY DEF Init
  <2>4. prev \in [Movable -> [coro : Coros \cup {Main}, task : Tasks \cup {Main}, at : Controls]]
    BY <1>1, <2>3
  <2>5. /\ base \in [Movable -> [Kinds -> Nat]] /\ saved \in [Movable -> [Kinds -> Seq(Controls)]]
        /\ stacks \in [Kinds -> Seq(Controls)] /\ own \in [Controls -> [Kinds -> Nat]]
    BY <2>1, <2>3
  <2>6. /\ savedAt \in [Movable -> Controls] /\ phase \in [Movable -> {"new", "active", "away", "done"}]
        /\ slice \in [Movable -> Seq(Controls)] /\ runner \in [Scheds -> Controls]
    BY <1>1, <2>2, <2>3
  <2>7. QED
    BY <1>1, <1>2, <2>3, <2>4, <2>5, <2>6 DEF TypeOK
<1>4. ChainOK
  <2>1. \A x \in Movable : phase[x] = "new" /\ x # Main
    BY <1>1 DEF Init
  <2>2. \A i \in 2 .. 1 : FALSE
    OBVIOUS
  <2>3. \A i \in 1 .. 1 : i = 1
    OBVIOUS
  <2>4. QED
    BY <1>2, <2>1, <2>2, <2>3 DEF ChainOK
<1>5. PrevOK
  BY <1>2 DEF PrevOK
<1>6. ASSUME NEW S, Main \notin S PROVE InnermostAt(S, Len(chain)) = Main
  BY <1>2, <1>6 DEF InnermostAt
<1>7. InnermostCoro /\ InnermostTask /\ OwnPosition
  BY <1>1, <1>2, <1>6 DEF Init, InnermostCoro, InnermostTask, OwnPosition, Top, Movable
<1>8. AwayOK /\ SavedInFull
  <2>1. \A x \in Movable : x \in Controls /\ "scopes" \in Kinds
    BY DEF Controls, Kinds
  <2>2. QED
    BY <2>1 DEF Init, AwayOK, SavedInFull, Empty
<1>9. ASSUME NEW k \in Kinds PROVE Piled(chain, Heights(k), Counts(k), stacks[k]) /\ Rising(Heights(k))
  <2>1. stacks[k] = <<>> /\ Len(<<>>) = 0 /\ Counts(k)[Main] = 0
    BY <1>1 DEF Init, Empty, Counts, Zero
  <2>2. Heights(k) = [i \in 1 .. 1 |-> 0]
    BY <1>2 DEF Heights
  <2>3. QED
    BY <1>2, <2>1, <2>2 DEF Piled, Rising
<1>10. QED
  BY <1>3, <1>4, <1>5, <1>7, <1>8, <1>9 DEF ContInv, StackedInOrder, Ascending

(* ContInv is inductive if each control suspends only itself.              *)
LEMMA NextInv == ContInv /\ ~Across /\ [Next]_vars => ContInv'
<1> SUFFICES ASSUME ContInv, ~Across, [Next]_vars PROVE ContInv'
  OBVIOUS
<1>1. ASSUME NEW F \in FrameSets, Push(F) \/ Pop(F) PROVE ContInv'
  BY <1>1, PushInv, PopInv
<1>2. ASSUME NEW c \in Coros, CallCoro(c) PROVE ContInv'
  <2>1. c \in Movable /\ coro' = IF c \in Coros THEN c ELSE coro
    BY <1>2, Distinct DEF CallCoro
  <2>2. task' = IF c \in Tasks THEN c ELSE task
    BY <1>2, Distinct DEF CallCoro
  <2>3. Start(c) \/ Restore(c)
    BY <1>2 DEF CallCoro
  <2>4. QED
    BY <2>1, <2>2, <2>3, StartInv, RestoreInv
<1>3. ASSUME NEW c \in Coros, Reset(c) PROVE ContInv'
  BY <1>3, ResetInv
<1>4. CASE Suspend
  <2>1. Top = coro /\ coro \in Movable /\ Save(coro)
    BY <1>4, Distinct DEF Suspend, ContInv, TypeOK
  <2>2. QED
    BY <2>1, SaveInv
<1>5. CASE Resched
  <2>1. Top = task /\ task \in Movable /\ Save(task)
    BY <1>5, Distinct DEF Resched, ContInv, TypeOK
  <2>2. QED
    BY <2>1, SaveInv
<1>6. ASSUME NEW x \in Movable, Finish(x) PROVE ContInv'
  BY <1>6, FinishInv
<1>7. ASSUME NEW s \in Scheds, RunStart(s) \/ RunReturn(s) PROVE ContInv'
  BY <1>7, RunInv
<1>8. ASSUME NEW t \in Tasks, TaskRun(t) PROVE ContInv'
  <2>1. t \in Movable /\ task' = IF t \in Tasks THEN t ELSE task
    BY <1>8, Distinct DEF TaskRun
  <2>2. coro' = IF t \in Coros THEN t ELSE coro
    BY <1>8, Distinct DEF TaskRun
  <2>3. Start(t) \/ Restore(t)
    BY <1>8 DEF TaskRun
  <2>4. QED
    BY <2>1, <2>2, <2>3, StartInv, RestoreInv
<1>9. CASE UNCHANGED vars
  <2>1. UNCHANGED <<coro, task, at, stacks, prev, base, saved, savedAt, phase, chain, slice,
                    runner, running, own, enters>>
    BY <1>9 DEF vars
  <2>2. TypeOK' /\ AwayOK' /\ SavedInFull'
    <3>1. TypeOK'
      BY <2>1 DEF ContInv, TypeOK
    <3>2. AwayOK'
      BY <2>1 DEF ContInv, AwayOK
    <3>3. SavedInFull'
      BY <2>1 DEF ContInv, SavedInFull
    <3>4. QED
      BY <3>1, <3>2, <3>3
  <2>3. ChainOK' /\ PrevOK' /\ InnermostCoro' /\ InnermostTask' /\ OwnPosition'
    BY <2>1, SameChain DEF ContInv
  <2>4. \A k : Heights(k)' = Heights(k) /\ Counts(k)' = Counts(k)
    BY <2>1 DEF Heights, Counts
  <2>5. StackedInOrder' /\ Ascending'
    BY <2>1, <2>4 DEF ContInv, StackedInOrder, Ascending, Piled, Rising
  <2>6. QED
    BY <2>2, <2>3, <2>5 DEF ContInv
<1>10. QED
  BY <1>1, <1>2, <1>3, <1>4, <1>5, <1>6, <1>7, <1>8, <1>9 DEF Next

-----------------------------------------------------------------------------
(* The invariant holds in every state, if nobody suspends another control. *)
THEOREM Invariant == ASSUME ~Across PROVE Spec => []ContInv
<1>1. Init => ContInv
  BY InitInv
<1>2. ContInv /\ [Next]_vars => ContInv'
  BY NextInv
<1>3. QED
  BY <1>1, <1>2, PTL DEF Spec

(* The stacks are what the controls that wait and the one that evaluates   *)
(* have pushed, one above the other, and nothing else: whatever the order  *)
(* in which coroutines and tasks suspend, resume, fail, finish and restart.*)
THEOREM Stacked == ASSUME ~Across PROVE Spec => []StackedInOrder
<1>1. ContInv => StackedInOrder
  BY DEF ContInv
<1>2. QED
  BY <1>1, Invariant, PTL

(* What is saved of a coroutine or task is all that it had pushed. *)
THEOREM Saved == ASSUME ~Across PROVE Spec => []SavedInFull
<1>1. ContInv => SavedInFull
  BY DEF ContInv
<1>2. QED
  BY <1>1, Invariant, PTL

(* suspend and resched find the innermost coroutine and task, and byte     *)
(* code is evaluated in the place where it was left.                       *)
THEOREM Current == ASSUME ~Across PROVE Spec => [](InnermostCoro /\ InnermostTask /\ OwnPosition)
<1>1. ContInv => InnermostCoro /\ InnermostTask /\ OwnPosition
  BY DEF ContInv
<1>2. QED
  BY <1>1, Invariant, PTL
=============================================================================
