---------------------------- MODULE PollProofs ----------------------------
(***************************************************************************)
(* Proofs about Poll, for any files and any number of operations, waits    *)
(* and waits inside of callbacks: who owns the callbacks, and, of programs *)
(* whose callbacks are tame, that the loop of cx_poll_wait calls exactly   *)
(* what poll(2) has reported.                                              *)
(***************************************************************************)
EXTENDS Poll, FiniteSetTheorems, SequenceTheorems, TLAPS

-----------------------------------------------------------------------------
(* Sequences. *)

(* What is in a sequence after an element was put in at an index.          *)
LEMMA Inserted ==
  ASSUME NEW S, NEW s \in Seq(S), NEW p \in 1..Len(s)+1, NEW e \in S
  PROVE  /\ InsertAt(s, p, e) \in Seq(S)
         /\ Len(InsertAt(s, p, e)) = Len(s) + 1
         /\ \A i \in 1..Len(s)+1 :
              InsertAt(s, p, e)[i] = IF i < p THEN s[i] ELSE IF i = p THEN e ELSE s[i-1]
<1> DEFINE a == SubSeq(s, 1, p-1)
           b == SubSeq(s, p, Len(s))
<1>a. Len(s) \in Nat /\ p \in Nat /\ \A i \in 1..Len(s) : s[i] \in S
  BY LenProperties
<1>1. a \in Seq(S) /\ Len(a) = p - 1 /\ \A i \in 1..p-1 : a[i] = s[i]
  BY <1>a, SubSeqProperties, SMT
<1>2. b \in Seq(S) /\ Len(b) = Len(s) - p + 1 /\ \A i \in 1..Len(s)-p+1 : b[i] = s[p+i-1]
  BY <1>a, SubSeqProperties, SMT
<1>3. <<e>> \in Seq(S) /\ Len(<<e>>) = 1 /\ <<e>>[1] = e
  OBVIOUS
<1> HIDE DEF a, b
<1>4. /\ a \o <<e>> \in Seq(S) /\ Len(a \o <<e>>) = p
      /\ \A i \in 1..p : (a \o <<e>>)[i] = IF i < p THEN s[i] ELSE e
  <2>1. /\ a \o <<e>> \in Seq(S) /\ Len(a \o <<e>>) = Len(a) + 1
        /\ \A i \in 1..Len(a)+1 : (a \o <<e>>)[i] = IF i <= Len(a) THEN a[i] ELSE <<e>>[i-Len(a)]
    BY <1>1, <1>3, ConcatProperties
  <2>2. Len(a) + 1 = p
    BY <1>a, <1>1
  <2>3. QED
    BY <1>a, <1>1, <1>3, <2>1, <2>2
<1>5. /\ (a \o <<e>>) \o b \in Seq(S) /\ Len((a \o <<e>>) \o b) = Len(s) + 1
      /\ \A i \in 1..Len(s)+1 : ((a \o <<e>>) \o b)[i] =
           IF i <= p THEN (a \o <<e>>)[i] ELSE b[i-p]
  <2> DEFINE c == a \o <<e>>
  <2>0. c \in Seq(S) /\ Len(c) = p
    BY <1>4
  <2> HIDE DEF c
  <2>1. /\ c \o b \in Seq(S) /\ Len(c \o b) = Len(c) + Len(b)
        /\ \A i \in 1..Len(c)+Len(b) : (c \o b)[i] = IF i <= Len(c) THEN c[i] ELSE b[i-Len(c)]
    BY <1>2, <2>0, ConcatProperties
  <2>2. Len(c) = p /\ Len(c) + Len(b) = Len(s) + 1
    BY <1>a, <1>2, <2>0
  <2>3. QED
    BY <2>1, <2>2 DEF c
<1>6. \A i \in 1..Len(s)+1 : ((a \o <<e>>) \o b)[i] =
        IF i < p THEN s[i] ELSE IF i = p THEN e ELSE s[i-1]
  <2> DEFINE c == a \o <<e>>
             w == c \o b
             n == Len(s)
  <2>1. \A i \in 1..p : c[i] = IF i < p THEN s[i] ELSE e
    BY <1>4
  <2>2. \A i \in 1..n+1 : w[i] = IF i <= p THEN c[i] ELSE b[i-p]
    BY <1>5
  <2>3. n \in Nat /\ p \in Nat /\ p \in 1..n+1 /\ \A i \in 1..n-p+1 : b[i] = s[p+i-1]
    BY <1>a, <1>2
  <2> HIDE DEF c, w, n
  <2>4. ASSUME NEW i \in 1..n+1 PROVE w[i] = IF i < p THEN s[i] ELSE IF i = p THEN e ELSE s[i-1]
    <3>1. CASE i <= p
      BY <2>1, <2>2, <2>3, <3>1
    <3>2. CASE i > p
      <4>1. i - p \in 1..n-p+1 /\ p + (i-p) - 1 = i - 1 /\ ~(i <= p)
        BY <2>3, <3>2
      <4>2. b[i-p] = s[i-1]
        BY <2>3, <4>1
      <4>3. QED
        BY <2>2, <2>3, <3>2, <4>1, <4>2
    <3>3. QED
      BY <2>3, <3>1, <3>2
  <2>5. QED
    BY <2>4 DEF n, w, c
<1>7. InsertAt(s, p, e) = (a \o <<e>>) \o b
  BY DEF InsertAt, a, b
<1>8. QED
  BY <1>5, <1>6, <1>7

(* And after one was taken out.                                            *)
LEMMA Removed ==
  ASSUME NEW S, NEW s \in Seq(S), NEW p \in 1..Len(s)
  PROVE  /\ RemoveAt(s, p) \in Seq(S)
         /\ Len(RemoveAt(s, p)) = Len(s) - 1
         /\ \A i \in 1..Len(s)-1 : RemoveAt(s, p)[i] = IF i < p THEN s[i] ELSE s[i+1]
<1> DEFINE a == SubSeq(s, 1, p-1)
           b == SubSeq(s, p+1, Len(s))
<1>a. Len(s) \in Nat /\ p \in Nat /\ \A i \in 1..Len(s) : s[i] \in S
  BY LenProperties
<1>1. a \in Seq(S) /\ Len(a) = p - 1 /\ \A i \in 1..p-1 : a[i] = s[i]
  BY <1>a, SubSeqProperties, SMT
<1>2. b \in Seq(S) /\ Len(b) = Len(s) - p /\ \A i \in 1..Len(s)-p : b[i] = s[p+i]
  BY <1>a, SubSeqProperties, SMT
<1> HIDE DEF a, b
<1>3. /\ a \o b \in Seq(S) /\ Len(a \o b) = Len(s) - 1
      /\ \A i \in 1..Len(s)-1 : (a \o b)[i] = IF i <= p-1 THEN a[i] ELSE b[i-(p-1)]
  <2>1. /\ a \o b \in Seq(S) /\ Len(a \o b) = Len(a) + Len(b)
        /\ \A i \in 1..Len(a)+Len(b) : (a \o b)[i] = IF i <= Len(a) THEN a[i] ELSE b[i-Len(a)]
    BY <1>1, <1>2, ConcatProperties
  <2>2. Len(a) + Len(b) = Len(s) - 1
    BY <1>a, <1>1, <1>2
  <2>3. QED
    BY <1>1, <2>1, <2>2
<1>4. \A i \in 1..Len(s)-1 : (a \o b)[i] = IF i < p THEN s[i] ELSE s[i+1]
  <2>1. TAKE i \in 1..Len(s)-1
  <2>2. CASE i < p
    BY <1>a, <1>1, <1>3, <2>2
  <2>3. CASE i >= p
    <3>1. i-(p-1) \in 1..Len(s)-p /\ p + (i-(p-1)) = i + 1 /\ ~(i <= p-1)
      BY <1>a, <2>3
    <3>2. (a \o b)[i] = b[i-(p-1)]
      BY <1>3, <3>1
    <3>3. b[i-(p-1)] = s[p + (i-(p-1))]
      BY <1>2, <3>1
    <3>4. QED
      BY <1>a, <2>3, <3>1, <3>2, <3>3
  <2>4. i < p \/ i >= p
    BY <1>a
  <2>5. QED
    BY <2>2, <2>3, <2>4
<1>5. RemoveAt(s, p) = a \o b
  BY DEF RemoveAt, a, b
<1>6. QED
  BY <1>3, <1>4, <1>5

-----------------------------------------------------------------------------
(* The size of an interval.                                                *)
LEMMA Interval ==
  ASSUME NEW n \in Nat
  PROVE  IsFiniteSet(1..n) /\ Cardinality(1..n) = n
BY FS_Interval

(* The two vectors are sorted by file, and no file is there twice. *)
Sorted == \A i, j \in 1..Len(entries) : i < j => entries[i].fd < entries[j].fd

(* Entries are numbered from 1 to Len(entries).                            *)
LEMMA EntryTypes ==
  ASSUME TypeOK
  PROVE  /\ Len(entries) \in Nat /\ DOMAIN entries = 1..Len(entries)
         /\ \A i \in 1..Len(entries) :
              entries[i] \in Entry /\ entries[i].fd \in Fds /\ entries[i].fd \in Nat
<1>1. entries \in Seq(Entry)
  BY DEF TypeOK
<1>2. \A i \in 1..Len(entries) : entries[i] \in Entry
  BY <1>1
<1>3. \A e \in Entry : e.fd \in Fds /\ e.fd \in Nat
  BY PollAssumption DEF Entry
<1>4. QED
  BY <1>1, <1>2, <1>3, LenProperties

(* The binary search of cx_vec finds the entry of a file that is there.    *)
LEMMA PosFound ==
  ASSUME TypeOK, Sorted, NEW i \in 1..Len(entries)
  PROVE  Pos(entries[i].fd) = i
<1> DEFINE S == {j \in DOMAIN entries : entries[j].fd < entries[i].fd}
<1>1. S = 1..(i-1)
  <2>1. ASSUME NEW j \in 1..Len(entries)
        PROVE  entries[j].fd < entries[i].fd <=> j < i
    BY EntryTypes DEF Sorted
  <2>2. \A j : j \in 1..(i-1) <=> j \in 1..Len(entries) /\ j < i
    BY EntryTypes
  <2>3. QED
    BY <2>1, <2>2, EntryTypes
<1>2. Cardinality(1..(i-1)) = i - 1
  BY EntryTypes, Interval
<1>3. Pos(entries[i].fd) = 1 + Cardinality(S)
  BY DEF Pos
<1> HIDE DEF S
<1>4. QED
  BY <1>1, <1>2, <1>3, EntryTypes

(* The files of a poll are different ones.                                 *)
LEMMA FdsDiffer ==
  ASSUME TypeOK, Sorted, NEW i \in 1..Len(entries), NEW j \in 1..Len(entries),
         entries[i].fd = entries[j].fd
  PROVE  i = j
BY EntryTypes DEF Sorted

(* Of a file that is not there it finds the place where it belongs.        *)
LEMMA PosFree ==
  ASSUME TypeOK, Sorted, NEW f \in Fds, ~Found(f)
  PROVE  /\ Pos(f) \in 1..Len(entries)+1
         /\ \A i \in 1..Len(entries) :
              IF i < Pos(f) THEN entries[i].fd < f ELSE entries[i].fd > f
<1> DEFINE n == Len(entries)
           S == {i \in DOMAIN entries : entries[i].fd < f}
           k == Cardinality(S)
<1>a. n \in Nat /\ DOMAIN entries = 1..n /\ f \in Nat /\ \A i \in 1..n : entries[i].fd \in Nat
  BY EntryTypes, PollAssumption
<1>b. IsFiniteSet(1..n) /\ Cardinality(1..n) = n
  BY <1>a, Interval
<1>1. S \subseteq 1..n /\ IsFiniteSet(S) /\ k \in Nat /\ k <= n
  BY <1>a, <1>b, FS_Subset, FS_CardinalityType
<1>2. \A j \in S : j <= k
  <2>1. SUFFICES ASSUME NEW j \in S PROVE j <= k
    OBVIOUS
  <2>2. 1..j \subseteq S
    <3>1. ASSUME NEW i \in 1..j PROVE i \in 1..n /\ entries[i].fd < f
      <4>1. j \in 1..n /\ entries[j].fd < f /\ i \in 1..n
        BY <1>a
      <4>2. entries[i].fd < entries[j].fd \/ i = j
        BY <4>1, <1>a DEF Sorted
      <4>3. QED
        BY <4>1, <4>2, <1>a
    <3>2. QED
      BY <3>1, <1>a
  <2>3. j \in Nat /\ Cardinality(1..j) = j
    BY <1>a, Interval
  <2>4. Cardinality(1..j) <= k
    BY <1>1, <2>2, FS_Subset
  <2>5. QED
    BY <2>3, <2>4
<1>3. S = 1..k
  <2>1. S \subseteq 1..k
    BY <1>1, <1>2, <1>a
  <2>2. IsFiniteSet(1..k) /\ Cardinality(1..k) = k
    BY <1>1, Interval
  <2>3. QED
    BY <2>1, <2>2, FS_Subset
<1>4. \A i \in 1..n : entries[i].fd # f
  BY <1>a DEF Found
<1>5. Pos(f) = k + 1
  BY <1>1 DEF Pos
<1>6. \A i \in 1..n : entries[i].fd < f <=> i < k + 1
  <2>1. \A i \in 1..n : i \in S <=> entries[i].fd < f
    BY <1>a
  <2>2. \A i \in 1..n : i \in 1..k <=> i < k + 1
    BY <1>a, <1>1
  <2>3. QED
    BY <2>1, <2>2, <1>3
<1>7. \A i \in 1..n : ~(entries[i].fd < f) => entries[i].fd > f
  BY <1>a, <1>4
<1> HIDE DEF n, S, k
<1>8. k + 1 \in 1..n+1
  BY <1>1, <1>a
<1>9. QED
  BY <1>5, <1>6, <1>7, <1>8 DEF n

(* Where a file is found, it is.                                           *)
LEMMA PosIsThere ==
  ASSUME TypeOK, Sorted, NEW f \in Fds, Found(f)
  PROVE  Pos(f) \in 1..Len(entries) /\ entries[Pos(f)].fd = f
<1>1. PICK i \in 1..Len(entries) : entries[i].fd = f
  BY EntryTypes DEF Found
<1>2. QED
  BY <1>1, PosFound

-----------------------------------------------------------------------------
(* Entries. *)

(* The entry of file f that asks for E, with callback b for d.             *)
Asked(e, f, E, d, b) == [e EXCEPT !.fd = f, !.events = E, ![d] = b]

(* Registering a callback changes what is asked for and one callback.      *)
LEMMA Registered ==
  ASSUME NEW e \in Entry, NEW f \in Fds, NEW E \in SUBSET Dirs, NEW d \in Dirs, NEW b \in Boxes
  PROVE  /\ Asked(e, f, E, d, b) \in Entry
         /\ Asked(e, f, E, d, b).fd = f /\ Asked(e, f, E, d, b).events = E
         /\ Asked(e, f, E, d, b).revents = e.revents
         /\ Asked(e, f, E, d, b)[d] = b
         /\ \A c \in Dirs : c # d => Asked(e, f, E, d, b)[c] = e[c]
<1>1. CASE d = "in"
  BY <1>1 DEF Entry, Dirs, Asked
<1>2. CASE d = "out"
  BY <1>2 DEF Entry, Dirs, Asked
<1>3. QED
  BY <1>1, <1>2 DEF Dirs

(* What changes in the sequence of entries: those of other files stay what *)
(* they are, and the one of file f is e, if there is one.                  *)
OthersKept(f, e) ==
  \A i \in 1..Len(entries') :
    \/ entries'[i] = e
    \/ \E k \in 1..Len(entries) : entries'[i] = entries[k] /\ entries[k].fd # f

(* An entry is changed in place.                                           *)
LEMMA Replaced ==
  ASSUME TypeOK, Sorted, NEW p \in 1..Len(entries), NEW e \in Entry, e.fd = entries[p].fd,
         entries' = [entries EXCEPT ![p] = e]
  PROVE  /\ entries' \in Seq(Entry) /\ Len(entries') = Len(entries)
         /\ entries'[p] = e /\ \A i \in 1..Len(entries) : i # p => entries'[i] = entries[i]
         /\ Sorted' /\ OthersKept(e.fd, e)
<1>1. /\ entries' \in Seq(Entry) /\ Len(entries') = Len(entries)
      /\ \A i \in 1..Len(entries) : entries'[i] = IF i = p THEN e ELSE entries[i]
  BY ExceptSeq DEF TypeOK
<1>2. \A i \in 1..Len(entries) : entries'[i].fd = entries[i].fd
  BY <1>1
<1>3. Sorted'
  BY <1>1, <1>2 DEF Sorted
<1>4. OthersKept(e.fd, e)
  BY <1>1, FdsDiffer DEF OthersKept
<1>5. QED
  BY <1>1, <1>3, <1>4

(* An entry is added where it belongs.                                     *)
LEMMA Added ==
  ASSUME TypeOK, Sorted, NEW f \in Fds, ~Found(f), NEW e \in Entry, e.fd = f,
         entries' = InsertAt(entries, Pos(f), e)
  PROVE  entries' \in Seq(Entry) /\ Sorted' /\ OthersKept(f, e)
<1> DEFINE p == Pos(f)
           n == Len(entries)
<1>1. /\ p \in 1..n+1 /\ n \in Nat /\ f \in Nat
      /\ \A i \in 1..n : IF i < p THEN entries[i].fd < f ELSE entries[i].fd > f
      /\ \A i \in 1..n : entries[i].fd \in Nat
  BY PosFree, EntryTypes, PollAssumption
<1>2. /\ entries' \in Seq(Entry) /\ Len(entries') = n + 1
      /\ \A i \in 1..n+1 :
           entries'[i] = IF i < p THEN entries[i] ELSE IF i = p THEN e ELSE entries[i-1]
  <2>1. entries \in Seq(Entry) /\ Pos(f) \in 1..Len(entries)+1
    BY <1>1 DEF TypeOK
  <2>2. /\ InsertAt(entries, p, e) \in Seq(Entry) /\ Len(InsertAt(entries, p, e)) = n + 1
        /\ \A i \in 1..n+1 : InsertAt(entries, p, e)[i] =
             IF i < p THEN entries[i] ELSE IF i = p THEN e ELSE entries[i-1]
    <3>1. InsertAt(entries, Pos(f), e) \in Seq(Entry)
      BY <2>1, Inserted, SMT
    <3>2. Len(InsertAt(entries, Pos(f), e)) = Len(entries) + 1
      BY <2>1, Inserted, SMT
    <3>3. \A i \in 1..Len(entries)+1 : InsertAt(entries, Pos(f), e)[i] =
            IF i < Pos(f) THEN entries[i] ELSE IF i = Pos(f) THEN e ELSE entries[i-1]
      <4>1. TAKE i \in 1..Len(entries)+1
      <4>2. QED
        BY <2>1, Inserted, SMTT(30)
    <3>4. QED
      BY <3>1, <3>2, <3>3, Zenon
  <2>3. QED
    BY <2>2, Zenon
<1> HIDE DEF p, n
<1>3. ASSUME NEW i \in 1..n+1 PROVE i < p => i \in 1..n
  BY <1>1
<1>4. ASSUME NEW i \in 1..n+1 PROVE i > p => i - 1 \in 1..n /\ i - 1 >= p
  BY <1>1
<1>5. OthersKept(f, e)
  <2>1. ASSUME NEW i \in 1..n+1
        PROVE  \/ entries'[i] = e
               \/ \E k \in 1..n : entries'[i] = entries[k] /\ entries[k].fd # f
    <3>1. CASE i < p
      BY <1>1, <1>2, <1>3, <3>1
    <3>2. CASE i = p
      BY <1>2, <3>2, <1>1
    <3>3. CASE i > p
      <4>1. entries'[i] = entries[i-1]
        BY <1>1, <1>2, <3>3
      <4>2. QED
        BY <1>1, <1>4, <3>3, <4>1
    <3>4. QED
      BY <1>1, <3>1, <3>2, <3>3
  <2>2. QED
    BY <1>2, <2>1 DEF OthersKept, n
<1>6. ASSUME NEW i \in 1..n+1, NEW j \in 1..n+1, i < j
      PROVE  entries'[i].fd < entries'[j].fd
  <2>1. \A k, l \in 1..n : k < l => entries[k].fd < entries[l].fd
    BY DEF Sorted, n
  <2>2. i < p => entries'[i].fd = entries[i].fd /\ i \in 1..n /\ entries[i].fd < f
    BY <1>1, <1>2, <1>3
  <2>3. i = p => entries'[i].fd = f
    BY <1>1, <1>2
  <2>4. i > p => /\ entries'[i].fd = entries[i-1].fd /\ i - 1 \in 1..n
                 /\ entries[i-1].fd > f
    BY <1>1, <1>2, <1>4
  <2>5. j < p => entries'[j].fd = entries[j].fd /\ j \in 1..n
    BY <1>1, <1>2, <1>3
  <2>6. j = p => entries'[j].fd = f
    BY <1>1, <1>2
  <2>7. j > p => /\ entries'[j].fd = entries[j-1].fd /\ j - 1 \in 1..n
                 /\ entries[j-1].fd > f
    BY <1>1, <1>2, <1>4
  <2>8. CASE j < p
    BY <1>1, <1>6, <2>1, <2>2, <2>5, <2>8
  <2>9. CASE j = p
    BY <1>1, <1>6, <2>2, <2>6, <2>9
  <2>10. CASE j > p /\ i <= p
    <3>1. i = p \/ i < p
      BY <2>10, <1>1
    <3>2. entries[j-1].fd \in Nat
      BY <1>1, <2>7, <2>10
    <3>3. QED
      BY <1>1, <2>2, <2>3, <2>7, <2>10, <3>1, <3>2
  <2>11. CASE i > p
    <3>1. i - 1 < j - 1 /\ j > p
      BY <1>1, <1>6, <2>11
    <3>2. QED
      BY <2>1, <2>4, <2>7, <2>11, <3>1
  <2>12. j < p \/ j = p \/ (j > p /\ i <= p) \/ i > p
    BY <1>1
  <2>13. QED
    BY <2>8, <2>9, <2>10, <2>11, <2>12
<1>7. Sorted'
  BY <1>2, <1>6 DEF Sorted
<1>8. QED
  BY <1>2, <1>5, <1>7

(* An entry is deleted.                                                    *)
LEMMA Deleted ==
  ASSUME TypeOK, Sorted, NEW p \in 1..Len(entries), entries' = RemoveAt(entries, p)
  PROVE  /\ entries' \in Seq(Entry) /\ Sorted'
         /\ \A i \in 1..Len(entries') : \E k \in 1..Len(entries) :
              entries'[i] = entries[k] /\ entries[k].fd # entries[p].fd
<1> DEFINE n == Len(entries)
<1>1. n \in Nat /\ p \in 1..n /\ \A i \in 1..n : entries[i].fd \in Nat
  BY EntryTypes
<1>2. /\ entries' \in Seq(Entry) /\ Len(entries') = n - 1
      /\ \A i \in 1..n-1 : entries'[i] = IF i < p THEN entries[i] ELSE entries[i+1]
  BY Removed DEF TypeOK
<1>3. \A i, j \in 1..n : i < j => entries[i].fd < entries[j].fd
  BY DEF Sorted
<1> HIDE DEF n
<1>4. ASSUME NEW i \in 1..n-1
      PROVE  \E k \in 1..n : entries'[i] = entries[k] /\ entries[k].fd # entries[p].fd
  <2>1. CASE i < p
    BY <1>1, <1>2, <1>3, <2>1
  <2>2. CASE i >= p
    <3>1. i + 1 \in 1..n /\ p < i + 1 /\ entries'[i] = entries[i+1]
      BY <1>1, <1>2, <2>2
    <3>2. QED
      BY <1>1, <1>3, <3>1
  <2>3. i < p \/ i >= p
    BY <1>1
  <2>4. QED
    BY <2>1, <2>2, <2>3
<1>5. ASSUME NEW i \in 1..n-1, NEW j \in 1..n-1, i < j
      PROVE  entries'[i].fd < entries'[j].fd
  <2>1. i \in 1..n /\ j \in 1..n /\ i + 1 \in 1..n /\ j + 1 \in 1..n
    BY <1>1
  <2>2. CASE j < p
    <3>1. entries'[i] = entries[i] /\ entries'[j] = entries[j]
      BY <1>1, <1>2, <1>5, <2>2
    <3>2. QED
      BY <1>3, <1>5, <2>1, <3>1
  <2>3. CASE i < p /\ j >= p
    <3>1. entries'[i] = entries[i] /\ entries'[j] = entries[j+1] /\ i < j + 1
      BY <1>1, <1>2, <1>5, <2>3
    <3>2. QED
      BY <1>3, <2>1, <3>1
  <2>4. CASE i >= p
    <3>1. entries'[i] = entries[i+1] /\ entries'[j] = entries[j+1] /\ i + 1 < j + 1
      BY <1>1, <1>2, <1>5, <2>4
    <3>2. QED
      BY <1>3, <2>1, <3>1
  <2>5. j < p \/ (i < p /\ j >= p) \/ i >= p
    BY <1>1
  <2>6. QED
    BY <2>2, <2>3, <2>4, <2>5
<1>6. Sorted'
  BY <1>2, <1>5 DEF Sorted
<1>7. QED
  BY <1>2, <1>4, <1>6 DEF n

-----------------------------------------------------------------------------
(* Who owns the callbacks. *)

(* Where among the directions D an entry has the callback x.               *)
Has(e, D, x) == {d \in D : e[d] = x}

OwnBoxes(e, f, D) == \A c \in D : e[c] = <<f, c>>

(* An entry has its file's callback for each direction, and no other one.  *)
LEMMA OneEach ==
  ASSUME NEW e, NEW f \in Fds, NEW D \in SUBSET Dirs,
         OwnBoxes(e, f, D), NEW g \in Fds, NEW d \in Dirs
  PROVE  Cardinality(Has(e, D, <<g, d>>)) = IF g = f /\ d \in D THEN 1 ELSE 0
<1>1. CASE g = f /\ d \in D
  <2>1. \A c \in D : e[c] = <<g, d>> <=> c = d
    BY <1>1 DEF OwnBoxes
  <2>2. Has(e, D, <<g, d>>) = {d}
    BY <1>1, <2>1 DEF Has
  <2>3. QED
    BY <1>1, <2>2, FS_Singleton
<1>2. CASE ~(g = f /\ d \in D)
  <2>1. Has(e, D, <<g, d>>) = {}
    BY <1>2 DEF Has, OwnBoxes
  <2>2. Cardinality(Has(e, D, <<g, d>>)) = 0
    BY <2>1, FS_EmptySet
  <2>3. QED
    BY <1>2, <2>2
<1>3. QED
  BY <1>1, <1>2

(* References are pairs of a file and a direction.                         *)
LEMMA Counts ==
  ASSUME NEW F, NEW Ds, NEW h,
         DOMAIN h = F \X Ds, h = [x \in F \X Ds |-> h[x]],
         \A g \in F : \A d \in Ds : h[<<g, d>>] \in Nat
  PROVE  h \in [F \X Ds -> Nat]
<1>1. ASSUME NEW x \in F \X Ds PROVE h[x] \in Nat
  <2>1. PICK g \in F, d \in Ds : x = <<g, d>>
    OBVIOUS
  <2>2. QED
    BY <2>1
<1>2. QED
  BY <1>1

(* The references of file f to its callbacks for D are one less each.      *)
GivenBack(h, h2, f, D) ==
  /\ h2 \in [Fds \X Dirs -> Nat]
  /\ \A g \in Fds : \A d \in Dirs :
       h2[<<g, d>>] = IF g = f /\ d \in D THEN h[<<g, d>>] - 1 ELSE h[<<g, d>>]

(* A box of an entry for the directions D is given back once each.         *)
LEMMA ReleasedOnce ==
  ASSUME NEW h \in [Fds \X Dirs -> Nat], NEW e, NEW f \in Fds, NEW D \in SUBSET Dirs,
         \A d \in D : e[d] = <<f, d>> /\ h[<<f, d>>] > 0
  PROVE  GivenBack(h, Released(h, e, D), f, D)
<1> DEFINE R == Released(h, e, D)
<1>1. R = [x \in Fds \X Dirs |-> h[x] - Cardinality(Has(e, D, x))]
  BY DEF Released, Has
<1>2. ASSUME NEW g \in Fds, NEW d \in Dirs
      PROVE  R[<<g, d>>] = IF g = f /\ d \in D THEN h[<<g, d>>] - 1 ELSE h[<<g, d>>]
  <2>1. <<g, d>> \in Fds \X Dirs /\ h[<<g, d>>] \in Nat
    OBVIOUS
  <2>2. R[<<g, d>>] = h[<<g, d>>] - Cardinality(Has(e, D, <<g, d>>))
    BY <1>1, <2>1
  <2>3. Cardinality(Has(e, D, <<g, d>>)) = IF g = f /\ d \in D THEN 1 ELSE 0
    <3>1. OwnBoxes(e, f, D)
      BY DEF OwnBoxes
    <3>2. QED
      BY <3>1, OneEach
  <2> HIDE DEF R
  <2>4. QED
    BY <2>1, <2>2, <2>3
<1>3. ASSUME NEW g \in Fds, NEW d \in Dirs PROVE R[<<g, d>>] \in Nat
  <2>1. h[<<g, d>>] \in Nat /\ (g = f /\ d \in D => h[<<g, d>>] > 0)
    OBVIOUS
  <2> HIDE DEF R
  <2>2. QED
    BY <1>2, <2>1
<1>4. R \in [Fds \X Dirs -> Nat]
  <2>1. DOMAIN R = Fds \X Dirs /\ R = [x \in Fds \X Dirs |-> R[x]]
    BY <1>1
  <2> HIDE DEF R
  <2>2. QED
    BY <1>3, <2>1, Counts
<1>5. QED
  BY <1>2, <1>4 DEF GivenBack

PollInv == TypeOK /\ Sorted /\ RegisteredOwned

(* What an entry asks for it owns, as a formula about one entry.           *)
Owns(e, h) == \A d \in e.events : e[d] = <<e.fd, d>> /\ h[<<e.fd, d>>] > 0

(* The same property in terms of single entries.                           *)
LEMMA EachOwns ==
  ASSUME PollInv, NEW i \in 1..Len(entries)
  PROVE  Owns(entries[i], held)
BY EntryTypes DEF PollInv, RegisteredOwned, Owns

(* A step that touches the references of one file only.                    *)
LEMMA OwnedKept ==
  ASSUME PollInv, NEW f \in Fds, NEW e, OthersKept(f, e), entries' \in Seq(Entry),
         (\E i \in 1..Len(entries') : entries'[i] = e) => Owns(e, held'),
         \A g \in Fds : \A d \in Dirs : g # f => held'[<<g, d>>] = held[<<g, d>>]
  PROVE  RegisteredOwned'
<1>1. DOMAIN entries' = 1..Len(entries')
  BY LenProperties
<1>2. ASSUME NEW i \in 1..Len(entries') PROVE Owns(entries'[i], held')
  <2>1. CASE entries'[i] = e
    BY <2>1
  <2>2. CASE \E k \in 1..Len(entries) : entries'[i] = entries[k] /\ entries[k].fd # f
    <3>1. PICK k \in 1..Len(entries) : entries'[i] = entries[k] /\ entries[k].fd # f
      BY <2>2
    <3>2. entries[k] \in Entry /\ Owns(entries[k], held)
      BY EachOwns, EntryTypes DEF PollInv
    <3>3. entries[k].events \subseteq Dirs /\ entries[k].fd \in Fds
      BY <3>2 DEF Entry
    <3>4. QED
      BY <3>1, <3>2, <3>3 DEF Owns
  <2>3. QED
    BY <2>1, <2>2 DEF OthersKept
<1>3. QED
  BY <1>1, <1>2 DEF RegisteredOwned, Owns

(* One more reference to one callback is taken.                            *)
LEMMA TakenOnce ==
  ASSUME NEW h \in [Fds \X Dirs -> Nat], NEW f \in Fds, NEW d \in Dirs
  PROVE  /\ Taken(h, f, d) \in [Fds \X Dirs -> Nat] /\ Taken(h, f, d)[<<f, d>>] > 0
         /\ \A g \in Fds : \A c \in Dirs :
              <<g, c>> # <<f, d>> => Taken(h, f, d)[<<g, c>>] = h[<<g, c>>]
<1> DEFINE T == Taken(h, f, d)
<1>1. T = [h EXCEPT ![<<f, d>>] = h[<<f, d>>] + 1]
  BY DEF Taken
<1>2. <<f, d>> \in Fds \X Dirs /\ h[<<f, d>>] \in Nat
  OBVIOUS
<1>3. \A x \in Fds \X Dirs : T[x] = IF x = <<f, d>> THEN h[<<f, d>>] + 1 ELSE h[x]
  BY <1>1
<1>4. ASSUME NEW g \in Fds, NEW c \in Dirs
      PROVE  <<g, c>> \in Fds \X Dirs /\ h[<<g, c>>] \in Nat
  OBVIOUS
<1>5. ASSUME NEW g \in Fds, NEW c \in Dirs
      PROVE  T[<<g, c>>] = IF <<g, c>> = <<f, d>> THEN h[<<f, d>>] + 1 ELSE h[<<g, c>>]
  BY <1>3, <1>4
<1>6. DOMAIN T = Fds \X Dirs /\ T = [x \in Fds \X Dirs |-> T[x]]
  BY <1>1
<1> HIDE DEF T
<1>7. ASSUME NEW g \in Fds, NEW c \in Dirs PROVE T[<<g, c>>] \in Nat
  BY <1>2, <1>4, <1>5
<1>8. T \in [Fds \X Dirs -> Nat]
  BY <1>6, <1>7, Counts
<1>9. T[<<f, d>>] > 0
  BY <1>2, <1>5
<1>10. QED
  BY <1>5, <1>8, <1>9 DEF T

(* cx_poll_read and cx_poll_write give back what they replace.             *)
LEMMA ReregisterInv ==
  ASSUME PollInv, NEW f \in Fds, NEW d \in Dirs, Reregister(f, d)
  PROVE  PollInv'
<1> DEFINE p == Pos(f)
           e == entries[p]
           e2 == [e EXCEPT !.events = @ \cup {d}, ![d] = <<f, d>>]
<1>a. TypeOK /\ Sorted
  BY DEF PollInv
<1>1. p \in 1..Len(entries) /\ e.fd = f /\ e \in Entry
  BY <1>a, PosIsThere, EntryTypes DEF Reregister
<1>2. /\ e2 \in Entry /\ e2.fd = f /\ e2.events = e.events \cup {d} /\ e2[d] = <<f, d>>
      /\ \A c \in Dirs : c # d => e2[c] = e[c]
  <2>1. e.events \cup {d} \in SUBSET Dirs /\ <<f, d>> \in Boxes
    BY <1>1 DEF Entry, Boxes
  <2>2. e2 = [e EXCEPT !.fd = f, !.events = e.events \cup {d}, ![d] = <<f, d>>]
    BY <1>1 DEF Entry
  <2> HIDE DEF e2
  <2> DEFINE E == e.events \cup {d}
             b == <<f, d>>
  <2>3. E \in SUBSET Dirs /\ b \in Boxes /\ e2 = Asked(e, f, E, d, b)
    BY <2>1, <2>2 DEF Asked
  <2> HIDE DEF E, b, e
  <2>4. /\ e2 \in Entry /\ e2.fd = f /\ e2.events = E /\ e2[d] = b
        /\ \A c \in Dirs : c # d => e2[c] = e[c]
    BY <1>1, <2>3, Registered
  <2>5. QED
    BY <2>4 DEF E, b
<1>3. entries' = [entries EXCEPT ![p] = e2]
  BY DEF Reregister
<1>4. held' = Taken(Released(held, e, {d} \cap e.events), f, d)
  BY DEF Reregister
<1> HIDE DEF p, e2
<1>5. entries' \in Seq(Entry) /\ Sorted' /\ OthersKept(f, e2)
  BY <1>a, <1>1, <1>2, <1>3, Replaced
<1>6. Owns(e, held) /\ held \in [Fds \X Dirs -> Nat] /\ {d} \cap e.events \in SUBSET Dirs
  BY <1>a, <1>1, EachOwns DEF TypeOK
<1> DEFINE h == Released(held, e, {d} \cap e.events)
<1>7. /\ h \in [Fds \X Dirs -> Nat]
      /\ \A g \in Fds : \A c \in Dirs :
           h[<<g, c>>] = IF g = f /\ c = d /\ c \in e.events THEN held[<<g, c>>] - 1 ELSE held[<<g, c>>]
  <2> DEFINE D == {d} \cap e.events
  <2>1. D \in SUBSET Dirs /\ \A c \in D : e[c] = <<f, c>> /\ held[<<f, c>>] > 0
    BY <1>1, <1>6 DEF Owns
  <2>2. \A c : c \in D <=> c = d /\ c \in e.events
    OBVIOUS
  <2> HIDE DEF D, e
  <2>3. GivenBack(held, Released(held, e, D), f, D)
    BY <1>6, <2>1, ReleasedOnce
  <2>4. QED
    BY <2>2, <2>3 DEF D, GivenBack
<1> HIDE DEF h
<1>8. held' = Taken(h, f, d)
  BY <1>4 DEF h
<1>9. /\ held' \in [Fds \X Dirs -> Nat] /\ held'[<<f, d>>] > 0
      /\ \A g \in Fds : \A c \in Dirs : <<g, c>> # <<f, d>> => held'[<<g, c>>] = held[<<g, c>>]
  <2>1. h \in [Fds \X Dirs -> Nat]
    BY <1>7
  <2>2. /\ Taken(h, f, d) \in [Fds \X Dirs -> Nat] /\ Taken(h, f, d)[<<f, d>>] > 0
        /\ \A g \in Fds : \A c \in Dirs :
             <<g, c>> # <<f, d>> => Taken(h, f, d)[<<g, c>>] = h[<<g, c>>]
    BY <2>1, TakenOnce
  <2>3. QED
    BY <1>7, <1>8, <2>2
<1>10. Owns(e2, held')
  <2>1. ASSUME NEW c \in e.events, c # d PROVE e2[c] = <<f, c>> /\ held'[<<f, c>>] > 0
    BY <1>1, <1>2, <1>6, <1>9, <2>1 DEF Owns, Entry
  <2>2. QED
    BY <1>2, <1>9, <2>1 DEF Owns
<1>11. RegisteredOwned'
  BY <1>5, <1>9, <1>10, OwnedKept
<1>12. TypeOK'
  <2>1. ops' \in 0..MaxOps
    BY <1>a, PollAssumption DEF TypeOK, Reregister, Op
  <2>2. UNCHANGED <<tame, frames, due, gone, waits>>
    BY DEF Reregister
  <2>3. QED
    BY <1>a, <1>5, <1>9, <2>1, <2>2 DEF TypeOK
<1>13. QED
  BY <1>5, <1>11, <1>12 DEF PollInv

(* What is found in the memory of a new entry is an entry.                 *)
LEMMA OldTypes ==
  ASSUME TypeOK, Sorted, NEW f \in Fds, ~Found(f), NEW old \in OldBytes(f, Pos(f))
  PROVE  old \in Entry
<1>1. Pos(f) \in 1..Len(entries)+1
  BY PosFree
<1>2. CASE Pos(f) <= Len(entries)
  BY <1>1, <1>2, EntryTypes DEF OldBytes
<1>3. CASE ~(Pos(f) <= Len(entries))
  BY <1>3 DEF OldBytes, Entry, Boxes, Flags, Dirs
<1>4. QED
  BY <1>2, <1>3

(* A new entry asks for the one direction whose callback was registered.   *)
LEMMA InsertInv ==
  ASSUME PollInv, NEW f \in Fds, NEW d \in Dirs, Insert(f, d)
  PROVE  PollInv'
<1>a. TypeOK /\ Sorted /\ ~Found(f) /\ held' = Taken(held, f, d)
  BY DEF PollInv, Insert
<1> DEFINE E == {d}
           b == <<f, d>>
<1>1. PICK old \in OldBytes(f, Pos(f)) : entries' = InsertAt(entries, Pos(f), Asked(old, f, E, d, b))
  BY DEF Insert, Asked
<1>2. old \in Entry /\ E \in SUBSET Dirs /\ b \in Boxes
  BY <1>a, OldTypes DEF Boxes
<1> DEFINE e2 == Asked(old, f, E, d, b)
<1> HIDE DEF E, b
<1>3. e2 \in Entry /\ e2.fd = f /\ e2.events = E /\ e2[d] = b
  BY <1>2, Registered
<1> HIDE DEF e2
<1>4. entries' \in Seq(Entry) /\ Sorted' /\ OthersKept(f, e2)
  BY <1>a, <1>1, <1>3, Added DEF e2
<1>5. /\ held' \in [Fds \X Dirs -> Nat] /\ held'[<<f, d>>] > 0
      /\ \A g \in Fds : \A c \in Dirs : <<g, c>> # <<f, d>> => held'[<<g, c>>] = held[<<g, c>>]
  BY <1>a, TakenOnce DEF TypeOK
<1>6. Owns(e2, held')
  BY <1>3, <1>5 DEF Owns, E, b
<1>7. RegisteredOwned'
  BY <1>4, <1>5, <1>6, OwnedKept
<1>8. TypeOK'
  <2>1. ops' \in 0..MaxOps
    BY <1>a, PollAssumption DEF TypeOK, Insert, Op
  <2>2. UNCHANGED <<tame, frames, due, gone, waits>>
    BY DEF Insert
  <2>3. QED
    BY <1>a, <1>4, <1>5, <2>1, <2>2 DEF TypeOK
<1>9. QED
  BY <1>4, <1>7, <1>8 DEF PollInv

(* What is withdrawn stays owned by nobody; the rest is as it was.         *)
LEMMA WithdrawInv ==
  ASSUME PollInv, NEW f \in Fds, NEW d \in Dirs, Withdraw(f, d)
  PROVE  PollInv'
<1> DEFINE p == Pos(f)
           e == entries[p]
           e2 == [e EXCEPT !.events = e.events \ {d}]
<1>a. TypeOK /\ Sorted
  BY DEF PollInv
<1>1. p \in 1..Len(entries) /\ e.fd = f /\ e \in Entry
  BY <1>a, PosIsThere, EntryTypes DEF Withdraw
<1>2. e2 \in Entry /\ e2.fd = f /\ e2.events = e.events \ {d} /\ \A c \in Dirs : e2[c] = e[c]
  BY <1>1 DEF Entry, Dirs
<1>3. entries' = [entries EXCEPT ![p] = e2] /\ held' = held
  BY DEF Withdraw
<1>4. Owns(e, held)
  BY <1>1, EachOwns
<1>5. e.events \subseteq Dirs
  BY <1>1 DEF Entry
<1> HIDE DEF p, e, e2
<1>6. entries' \in Seq(Entry) /\ Sorted' /\ OthersKept(f, e2)
  BY <1>a, <1>1, <1>2, <1>3, Replaced DEF e
<1>7. Owns(e2, held')
  BY <1>1, <1>2, <1>3, <1>4, <1>5 DEF Owns
<1>8. RegisteredOwned'
  BY <1>3, <1>6, <1>7, OwnedKept
<1>9. TypeOK'
  <2>1. ops' \in 0..MaxOps
    BY <1>a, PollAssumption DEF TypeOK, Withdraw, Op
  <2>2. UNCHANGED <<tame, frames, held, due, gone, waits>>
    BY DEF Withdraw
  <2>3. QED
    BY <1>a, <1>6, <2>1, <2>2 DEF TypeOK
<1>10. QED
  BY <1>6, <1>8, <1>9 DEF PollInv

(* A deleted entry gives back what it asks for; the others own what they do. *)
LEMMA DeleteInv ==
  ASSUME PollInv, NEW f \in Fds, Delete(f)
  PROVE  PollInv'
<1> DEFINE p == Pos(f)
           e == entries[p]
<1>a. TypeOK /\ Sorted /\ held \in [Fds \X Dirs -> Nat]
  BY DEF PollInv, TypeOK
<1>1. p \in 1..Len(entries) /\ e.fd = f /\ e \in Entry
  BY <1>a, PosIsThere, EntryTypes DEF Delete
<1>2. entries' = RemoveAt(entries, p) /\ held' = Released(held, e, e.events)
  BY DEF Delete
<1>3. Owns(e, held) /\ e.events \in SUBSET Dirs
  BY <1>1, EachOwns DEF Entry
<1> HIDE DEF p, e
<1>4. /\ entries' \in Seq(Entry) /\ Sorted'
      /\ \A i \in 1..Len(entries') : \E k \in 1..Len(entries) :
           entries'[i] = entries[k] /\ entries[k].fd # f
  BY <1>a, <1>1, <1>2, Deleted DEF e
<1>5. GivenBack(held, held', f, e.events)
  <2>1. \A d \in e.events : e[d] = <<f, d>> /\ held[<<f, d>>] > 0
    BY <1>1, <1>3 DEF Owns
  <2> DEFINE D == e.events
  <2>2. D \in SUBSET Dirs /\ \A d \in D : e[d] = <<f, d>> /\ held[<<f, d>>] > 0
    BY <1>3, <2>1
  <2> HIDE DEF D
  <2>3. GivenBack(held, Released(held, e, D), f, D)
    BY <1>a, <2>2, ReleasedOnce
  <2>4. QED
    BY <1>2, <2>3 DEF D
<1>6. /\ held' \in [Fds \X Dirs -> Nat]
      /\ \A g \in Fds : \A c \in Dirs : g # f => held'[<<g, c>>] = held[<<g, c>>]
  BY <1>5 DEF GivenBack
<1>7. OthersKept(f, e) /\ ~(\E i \in 1..Len(entries') : entries'[i] = e)
  BY <1>1, <1>4 DEF OthersKept
<1>8. RegisteredOwned'
  BY <1>4, <1>6, <1>7, OwnedKept
<1>9. TypeOK'
  <2>1. ops' \in 0..MaxOps /\ due' \subseteq Fds \X Flags
    BY <1>a, PollAssumption DEF TypeOK, Delete, Op
  <2>2. UNCHANGED <<tame, frames, gone, waits>>
    BY DEF Delete
  <2>3. QED
    BY <1>a, <1>4, <1>6, <2>1, <2>2 DEF TypeOK
<1>10. QED
  BY <1>4, <1>8, <1>9 DEF PollInv

(* The entries that ask for callback x. *)
Asking(x) == {i \in DOMAIN entries : \E d \in entries[i].events : entries[i][d] = x}

(* No two entries ask for the same callback, and who asks for it owns it.  *)
LEMMA OneAsks ==
  ASSUME PollInv, NEW g \in Fds, NEW c \in Dirs
  PROVE  Cardinality(Asking(<<g, c>>)) = 0 \/ (Cardinality(Asking(<<g, c>>)) = 1 /\ held[<<g, c>>] > 0)
<1> DEFINE n == Len(entries)
<1>a. TypeOK /\ Sorted
  BY DEF PollInv
<1>1. DOMAIN entries = 1..n /\ \A i \in 1..n : entries[i] \in Entry
  BY <1>a, EntryTypes
<1>2. \A i, j \in 1..n : entries[i].fd = g /\ entries[j].fd = g => i = j
  BY <1>a, FdsDiffer
<1>3. ASSUME NEW i \in Asking(<<g, c>>)
      PROVE  i \in 1..n /\ entries[i].fd = g /\ c \in entries[i].events
  <2>1. i \in 1..n
    BY <1>1 DEF Asking
  <2>2. PICK d \in entries[i].events : entries[i][d] = <<g, c>>
    BY DEF Asking
  <2>3. entries[i][d] = <<entries[i].fd, d>>
    BY <2>1, <2>2, EachOwns DEF Owns
  <2>4. QED
    BY <2>1, <2>2, <2>3
<1> HIDE DEF n
<1>4. CASE Asking(<<g, c>>) = {}
  BY <1>4, FS_EmptySet
<1>5. CASE Asking(<<g, c>>) # {}
  <2>1. PICK i : i \in Asking(<<g, c>>)
    BY <1>5
  <2>2. Asking(<<g, c>>) = {i}
    BY <1>2, <1>3, <2>1
  <2>3. Cardinality(Asking(<<g, c>>)) = 1
    BY <2>2, FS_Singleton
  <2>4. i \in 1..n /\ entries[i].fd = g /\ c \in entries[i].events
    BY <1>3, <2>1
  <2>5. Owns(entries[i], held)
    BY <2>4, EachOwns DEF n
  <2>6. held[<<g, c>>] > 0
    BY <2>4, <2>5 DEF Owns
  <2>7. QED
    BY <2>3, <2>6
<1>6. QED
  BY <1>4, <1>5

(* cx_poll_deref gives back what it finds.                                 *)
LEMMA DropInv ==
  ASSUME PollInv, Drop
  PROVE  PollInv'
<1>a. TypeOK /\ Sorted /\ held \in [Fds \X Dirs -> Nat]
  BY DEF PollInv, TypeOK
<1>1. entries' = <<>> /\ entries' \in Seq(Entry) /\ Len(entries') = 0 /\ DOMAIN entries' = {}
  BY DEF Drop
<1>2. held' = [x \in Fds \X Dirs |-> held[x] - Cardinality(Asking(x))]
  BY DEF Drop, Asking
<1>3. ASSUME NEW g \in Fds, NEW c \in Dirs PROVE held'[<<g, c>>] \in Nat
  <2>1. <<g, c>> \in Fds \X Dirs /\ held[<<g, c>>] \in Nat
    BY <1>a
  <2>2. held'[<<g, c>>] = held[<<g, c>>] - Cardinality(Asking(<<g, c>>))
    BY <1>2, <2>1
  <2>3. QED
    BY <2>1, <2>2, OneAsks
<1>4. held' \in [Fds \X Dirs -> Nat]
  <2>1. DOMAIN held' = Fds \X Dirs /\ held' = [x \in Fds \X Dirs |-> held'[x]]
    BY <1>2
  <2>2. QED
    BY <1>3, <2>1, Counts
<1>5. due' \subseteq Fds \X Flags /\ gone' \in BOOLEAN /\ UNCHANGED <<tame, frames, ops, waits>>
  BY DEF Drop
<1>6. TypeOK'
  BY <1>a, <1>1, <1>4, <1>5 DEF TypeOK
<1>7. Sorted' /\ RegisteredOwned'
  BY <1>1 DEF Sorted, RegisteredOwned
<1>8. QED
  BY <1>6, <1>7 DEF PollInv

-----------------------------------------------------------------------------
(* The steps of cx_poll_wait. *)

Frame == [rem : Nat, call : [at : Boxes, box : Boxes]]

(* The callbacks of a sequence of entries with the same files, which only  *)
(* differ in what was reported, are the same ones.                         *)
LEMMA OnlyReported ==
  ASSUME PollInv, entries' \in Seq(Entry), Len(entries') = Len(entries), held' = held,
         \A i \in 1..Len(entries) :
           \E R \in SUBSET Flags : entries'[i] = [entries[i] EXCEPT !.revents = R]
  PROVE  Sorted' /\ RegisteredOwned'
<1>a. TypeOK /\ Sorted
  BY DEF PollInv
<1>1. ASSUME NEW i \in 1..Len(entries)
      PROVE  /\ entries'[i].fd = entries[i].fd /\ entries'[i].events = entries[i].events
             /\ \A d \in Dirs : entries'[i][d] = entries[i][d]
             /\ entries[i].events \subseteq Dirs
  <2>1. entries[i] \in Entry
    BY <1>a, EntryTypes
  <2>2. PICK R \in SUBSET Flags : entries'[i] = [entries[i] EXCEPT !.revents = R]
    OBVIOUS
  <2>3. QED
    BY <2>1, <2>2 DEF Entry, Dirs
<1>2. Sorted'
  BY <1>a, <1>1 DEF Sorted
<1>3. ASSUME NEW i \in 1..Len(entries), NEW d \in entries'[i].events
      PROVE  entries'[i][d] = <<entries'[i].fd, d>> /\ held'[<<entries'[i].fd, d>>] > 0
  <2>1. Owns(entries[i], held) /\ d \in entries[i].events /\ d \in Dirs
    BY <1>1, EachOwns
  <2>2. QED
    BY <1>1, <2>1 DEF Owns
<1>4. DOMAIN entries' = 1..Len(entries)
  BY LenProperties
<1>5. QED
  BY <1>2, <1>3, <1>4 DEF RegisteredOwned

(* What r reports of file f, and the files of which it reports anything.   *)
Revents(r, f) == {g \in Flags : <<f, g>> \in r}
Hot(r) == {f \in Fds : Revents(r, f) # {}}

(* The step of cx_poll_wait up to its loop, if poll(2) has reported r.     *)
Waited(r) ==
  /\ r \subseteq Fds \X Flags
  /\ \A f \in Fds : \A g \in Flags : <<f, g>> \in r =>
       \E i \in 1..Len(entries) : f = entries[i].fd /\ g \in entries[i].events \cup {"hup", "err"}
  /\ \A f \in Fds : ~(<<f, "hup">> \in r /\ <<f, "out">> \in r)
  /\ entries' \in Seq(Entry) /\ Len(entries') = Len(entries)
  /\ \A i \in 1..Len(entries) :
       entries'[i] = [entries[i] EXCEPT !.revents = Revents(r, entries[i].fd)]
  /\ IsFiniteSet(Hot(r))
  /\ due' = r \ (Fds \X {"err"})
  /\ frames' = Append(frames, [rem |-> Cardinality(Hot(r)), call |-> NoCall])

(* The values of a finite sequence are finitely many.                      *)
LEMMA FinitelyMany ==
  ASSUME NEW T, NEW n \in Nat, NEW q \in [1..n -> T]
  PROVE  IsFiniteSet({q[i] : i \in 1..n})
<1> DEFINE V == {q[i] : i \in 1..n}
<1>1. q \in Surjection(1..n, V)
  BY DEF Surjection
<1>2. IsFiniteSet(1..n)
  BY Interval
<1> HIDE DEF V
<1>3. IsFiniteSet(V)
  BY <1>1, <1>2, FS_Surjection
<1>4. QED
  BY <1>3 DEF V

(* A wait is the step for some report.                                     *)
LEMMA WaitStep ==
  ASSUME TypeOK, Wait
  PROVE  \E r : Waited(r)
<1> DEFINE n == Len(entries)
<1>a. /\ n \in Nat /\ DOMAIN entries = 1..n
      /\ \A i \in 1..n : entries[i] \in Entry /\ entries[i].fd \in Fds
  BY EntryTypes
<1>1. PICK r \in Reports :
        LET rev == [f \in Fds |-> {g \in Flags : <<f, g>> \in r}] IN
        /\ entries' = [i \in DOMAIN entries |-> [entries[i] EXCEPT !.revents = rev[entries[i].fd]]]
        /\ due' = r \ (Fds \X {"err"})
        /\ frames' = Append(frames, [rem |-> Cardinality({f \in Fds : rev[f] # {}}), call |-> NoCall])
  BY DEF Wait
<1> DEFINE rev == [f \in Fds |-> Revents(r, f)]
<1>2. /\ entries' = [i \in DOMAIN entries |-> [entries[i] EXCEPT !.revents = rev[entries[i].fd]]]
      /\ due' = r \ (Fds \X {"err"})
      /\ frames' = Append(frames, [rem |-> Cardinality({f \in Fds : rev[f] # {}}), call |-> NoCall])
  BY <1>1 DEF Revents
<1>3. ASSUME NEW x \in r
      PROVE  \E i \in 1..n : x \in {entries[i].fd} \X (entries[i].events \cup {"hup", "err"})
  BY <1>a DEF Reports, ToSet
<1>4. r \subseteq Fds \X Flags
  <2>1. ASSUME NEW x \in r PROVE x \in Fds \X Flags
    <3>1. PICK i \in 1..n : x \in {entries[i].fd} \X (entries[i].events \cup {"hup", "err"})
      BY <1>3
    <3>2. entries[i].fd \in Fds /\ entries[i].events \subseteq Dirs
      BY <1>a DEF Entry
    <3>3. QED
      BY <3>1, <3>2 DEF Flags
  <2>2. QED
    BY <2>1
<1>5. ASSUME NEW f \in Fds, NEW g \in Flags, <<f, g>> \in r
      PROVE  \E i \in 1..n : f = entries[i].fd /\ g \in entries[i].events \cup {"hup", "err"}
  <2>1. PICK i \in 1..n : <<f, g>> \in {entries[i].fd} \X (entries[i].events \cup {"hup", "err"})
    BY <1>3, <1>5
  <2>2. QED
    BY <2>1
<1>6. \A f \in Fds : ~(<<f, "hup">> \in r /\ <<f, "out">> \in r)
  BY DEF Reports
<1>7. \A f \in Fds : rev[f] = Revents(r, f)
  OBVIOUS
<1>8. Hot(r) = {f \in Fds : rev[f] # {}}
  BY <1>7 DEF Hot
<1> HIDE DEF rev
<1>9. \A i \in 1..n : entries'[i] = [entries[i] EXCEPT !.revents = Revents(r, entries[i].fd)]
  BY <1>a, <1>2, <1>7
<1>10. entries' \in Seq(Entry) /\ Len(entries') = n
  <2>1. ASSUME NEW i \in 1..n PROVE entries'[i] \in Entry
    <3>1. entries[i] \in Entry /\ Revents(r, entries[i].fd) \subseteq Flags
      BY <1>a DEF Revents
    <3>2. QED
      BY <1>9, <3>1 DEF Entry
  <2>2. entries' \in [1..n -> Entry]
    <3>1. DOMAIN entries' = 1..n /\ entries' = [i \in 1..n |-> entries'[i]]
      BY <1>a, <1>2
    <3>2. QED
      BY <2>1, <3>1
  <2> HIDE DEF n
  <2>3. entries' \in Seq(Entry)
    BY <1>a, <2>2, SeqDef
  <2>4. QED
    BY <1>a, <2>2, <2>3, LenProperties
<1>11. IsFiniteSet(Hot(r))
  <2> DEFINE q == [i \in 1..n |-> entries[i].fd]
             V == {q[i] : i \in 1..n}
  <2>1. q \in [1..n -> Fds]
    BY <1>a
  <2>2. ASSUME NEW f \in Hot(r) PROVE f \in V
    <3>1. PICK g \in Flags : <<f, g>> \in r
      BY DEF Hot, Revents
    <3>2. PICK i \in 1..n : f = entries[i].fd
      BY <1>5, <3>1 DEF Hot
    <3>3. QED
      BY <3>2
  <2> HIDE DEF q
  <2>3. IsFiniteSet(V)
    BY <1>a, <2>1, FinitelyMany
  <2> HIDE DEF V
  <2>4. Hot(r) \in SUBSET V
    BY <2>2
  <2>5. QED
    BY <2>3, <2>4, FS_Subset
<1>12. due' = r \ (Fds \X {"err"})
  BY <1>2
<1>13. frames' = Append(frames, [rem |-> Cardinality(Hot(r)), call |-> NoCall])
  BY <1>2, <1>8
<1>14. Waited(r)
  BY <1>4, <1>5, <1>6, <1>9, <1>10, <1>11, <1>12, <1>13 DEF Waited
<1>15. QED
  BY <1>14

(* poll(2) changes what was reported and nothing else.                     *)
LEMMA WaitInv ==
  ASSUME PollInv, Wait
  PROVE  PollInv'
<1>a. TypeOK
  BY DEF PollInv
<1>1. PICK r : Waited(r)
  BY <1>a, WaitStep
<1>2. UNCHANGED <<tame, held, gone, ops>> /\ waits' \in 0..MaxWaits
  BY <1>a, PollAssumption DEF Wait, TypeOK
<1>3. entries' \in Seq(Entry) /\ Len(entries') = Len(entries)
  BY <1>1 DEF Waited
<1>4. Sorted' /\ RegisteredOwned'
  <2>1. ASSUME NEW i \in 1..Len(entries)
        PROVE  \E R \in SUBSET Flags : entries'[i] = [entries[i] EXCEPT !.revents = R]
    <3>1. Revents(r, entries[i].fd) \in SUBSET Flags
      BY DEF Revents
    <3>2. entries'[i] = [entries[i] EXCEPT !.revents = Revents(r, entries[i].fd)]
      BY <1>1 DEF Waited
    <3>3. QED
      BY <3>1, <3>2
  <2>2. QED
    BY <1>2, <1>3, <2>1, OnlyReported
<1>5. frames' \in Seq(Frame)
  <2> DEFINE fr == [rem |-> Cardinality(Hot(r)), call |-> NoCall]
  <2>1. Cardinality(Hot(r)) \in Nat
    BY <1>1, FS_CardinalityType DEF Waited
  <2>2. fr \in Frame
    BY <2>1 DEF Frame, NoCall, Boxes, Junk
  <2>3. frames \in Seq(Frame) /\ frames' = Append(frames, fr)
    BY <1>a, <1>1 DEF TypeOK, Frame, Waited
  <2> HIDE DEF fr
  <2>4. QED
    BY <2>2, <2>3, AppendProperties
<1>6. due' \subseteq Fds \X Flags
  BY <1>1 DEF Waited
<1>7. TypeOK'
  BY <1>a, <1>2, <1>3, <1>5, <1>6 DEF TypeOK, Frame
<1>8. QED
  BY <1>4, <1>7 DEF PollInv

(* The step of the loop that calls a callback of the entry at index i.     *)
Way(e) == IF Ready(e, "in") THEN "in" ELSE "out"
Dispatched(i) ==
  LET e == entries[i]
      d == Way(e)
      left == Cleared(e, d)
      top == Len(frames) IN
  /\ i \in 1..Len(entries) /\ e \in Entry /\ d \in Dirs /\ Ready(e, d)
  /\ left \subseteq Flags
  /\ entries' \in Seq(Entry) /\ Len(entries') = Len(entries)
  /\ entries'[i] = [e EXCEPT !.revents = left]
  /\ \A j \in 1..Len(entries) : j # i => entries'[j] = entries[j]
  /\ top \in Nat \ {0} /\ frames[top] \in Frame /\ frames[top].rem # 0
  /\ frames' \in Seq(Frame) /\ Len(frames') = top
  /\ frames'[top] = [rem |-> Rest(frames[top].rem, left), call |-> [at |-> <<e.fd, d>>, box |-> e[d]]]
  /\ due' = due \ {<<e.fd, d>>, <<e.fd, "hup">>}

(* The calls that have not returned are numbered from 1 to Len(frames).    *)
LEMMA FrameTypes ==
  ASSUME TypeOK
  PROVE  /\ frames \in Seq(Frame) /\ Len(frames) \in Nat
         /\ Inside => Len(frames) > 0 /\ frames[Len(frames)] \in Frame
<1>1. frames \in Seq(Frame) /\ Len(frames) \in Nat
  BY DEF TypeOK, Frame
<1>2. CASE Inside
  <2>1. Len(frames) \in Nat \ {0}
    BY <1>1, <1>2, EmptySeq DEF Inside
  <2>2. Len(frames) \in 1..Len(frames)
    BY <2>1
  <2>3. QED
    BY <1>1, <2>1, <2>2, ElementOfSeq
<1>3. QED
  BY <1>1, <1>2

(* A dispatch is this step for the first entry that is hit.                *)
LEMMA DispatchStep ==
  ASSUME TypeOK, Dispatch
  PROVE  \E i : Dispatched(i)
<1> DEFINE top == Len(frames)
<1>a. /\ Len(entries) \in Nat /\ DOMAIN entries = 1..Len(entries)
      /\ \A i \in 1..Len(entries) : entries[i] \in Entry
  BY EntryTypes
<1>b. /\ frames \in Seq(Frame) /\ top \in Nat \ {0} /\ frames[top] \in Frame
      /\ frames[top].rem # 0
  BY FrameTypes DEF Dispatch, Last
<1>1. PICK i \in Hits :
        LET e == entries[i]
            d == IF Ready(e, "in") THEN "in" ELSE "out"
            left == Cleared(e, d) IN
        /\ entries' = [entries EXCEPT ![i].revents = left]
        /\ frames' = [frames EXCEPT ![Len(frames)] =
             [rem |-> Rest(@.rem, left), call |-> [at |-> <<e.fd, d>>, box |-> e[d]]]]
        /\ due' = due \ {<<e.fd, d>>, <<e.fd, "hup">>}
  BY DEF Dispatch
<1> DEFINE e == entries[i]
           d == Way(e)
           left == Cleared(e, d)
           e2 == [e EXCEPT !.revents = left]
           fr == [rem |-> Rest(frames[top].rem, left), call |-> [at |-> <<e.fd, d>>, box |-> e[d]]]
<1>2. /\ entries' = [entries EXCEPT ![i] = e2]
      /\ frames' = [frames EXCEPT ![top] = fr]
      /\ due' = due \ {<<e.fd, d>>, <<e.fd, "hup">>}
  BY <1>1 DEF Way
<1>3. i \in 1..Len(entries) /\ e \in Entry
  BY <1>a DEF Hits
<1>4. d \in Dirs /\ Ready(e, d)
  BY <1>a DEF Hits, Way, Dirs
<1> HIDE DEF d
<1>5. left \subseteq Flags /\ e2 \in Entry
  BY <1>3 DEF Cleared, Entry
<1>6. fr \in Frame
  <2>1. e.fd \in Fds /\ e[d] \in Boxes
    BY <1>3, <1>4 DEF Entry, Dirs
  <2>2. <<e.fd, d>> \in Boxes
    BY <1>4, <2>1 DEF Boxes
  <2>3. frames[top].rem \in Nat \ {0}
    BY <1>b DEF Frame
  <2>4. Rest(frames[top].rem, left) \in Nat
    BY <2>3 DEF Rest
  <2>5. QED
    BY <2>1, <2>2, <2>4 DEF Frame
<1> HIDE DEF fr, e2
<1>7. /\ entries' \in Seq(Entry) /\ Len(entries') = Len(entries)
      /\ \A j \in 1..Len(entries) : entries'[j] = IF j = i THEN e2 ELSE entries[j]
  BY <1>2, <1>3, <1>5, ExceptSeq DEF TypeOK
<1>8. /\ frames' \in Seq(Frame) /\ Len(frames') = Len(frames)
      /\ \A j \in 1..Len(frames) : frames'[j] = IF j = top THEN fr ELSE frames[j]
  <2>1. top \in 1..Len(frames)
    BY <1>b
  <2> HIDE DEF top
  <2>2. QED
    BY <1>b, <1>2, <1>6, <2>1, ExceptSeq
<1>9. frames'[top] = fr
  BY <1>b, <1>8
<1>10. entries'[i] = e2 /\ \A j \in 1..Len(entries) : j # i => entries'[j] = entries[j]
  BY <1>3, <1>7
<1>11. Dispatched(i)
  BY <1>b, <1>2, <1>3, <1>4, <1>5, <1>7, <1>8, <1>9, <1>10 DEF Dispatched, d, fr, e2
<1>12. QED
  BY <1>11

(* A call changes what was reported and nothing else.                      *)
LEMMA DispatchInv ==
  ASSUME PollInv, Dispatch
  PROVE  PollInv'
<1>a. TypeOK
  BY DEF PollInv
<1>1. PICK i : Dispatched(i)
  BY <1>a, DispatchStep
<1>2. UNCHANGED <<tame, held, gone, ops, waits>>
  BY DEF Dispatch
<1>3. /\ entries' \in Seq(Entry) /\ Len(entries') = Len(entries)
      /\ frames' \in Seq(Frame) /\ due' \subseteq due
  BY <1>1 DEF Dispatched
<1>4. ASSUME NEW j \in 1..Len(entries)
      PROVE  \E R \in SUBSET Flags : entries'[j] = [entries[j] EXCEPT !.revents = R]
  <2>1. CASE j = i
    BY <1>1, <2>1 DEF Dispatched
  <2>2. CASE j # i
    <3>1. entries'[j] = entries[j] /\ entries[j] \in Entry
      BY <1>a, <1>1, <2>2, EntryTypes DEF Dispatched
    <3>2. entries[j].revents \in SUBSET Flags /\ entries'[j] = [entries[j] EXCEPT !.revents = entries[j].revents]
      BY <3>1 DEF Entry
    <3>3. QED
      BY <3>2
  <2>3. QED
    BY <2>1, <2>2
<1>5. Sorted' /\ RegisteredOwned'
  BY <1>2, <1>3, <1>4, OnlyReported
<1>6. TypeOK'
  BY <1>a, <1>2, <1>3 DEF TypeOK, Frame
<1>7. QED
  BY <1>5, <1>6 DEF PollInv

(* Returning from a wait or a callback leaves the poll alone.              *)
LEMMA ReturnInv ==
  ASSUME PollInv, WaitReturn \/ CallReturn \/ CallFail
  PROVE  PollInv'
<1>a. TypeOK /\ Sorted /\ RegisteredOwned
  BY DEF PollInv
<1>1. UNCHANGED <<tame, entries, held, due, gone, ops, waits>> /\ Inside
  BY DEF WaitReturn, CallReturn, CallFail
<1>2. frames' \in Seq(Frame)
  <2> DEFINE top == Len(frames)
  <2>1. frames \in Seq(Frame) /\ top \in Nat \ {0} /\ frames[top] \in Frame
    BY <1>a, <1>1, FrameTypes
  <2>2. CASE frames' = Front(frames)
    <3>1. \A i \in 1..top-1 : frames[i] \in Frame
      BY <2>1, ElementOfSeq
    <3>2. QED
      BY <2>1, <2>2, <3>1, SubSeqProperties, SMT DEF Front
  <2>3. CASE CallReturn
    <3> DEFINE fr == [frames[top] EXCEPT !.call = NoCall]
    <3>1. frames' = [frames EXCEPT ![top] = fr]
      BY <2>3 DEF CallReturn
    <3>2. fr \in Frame
      BY <2>1 DEF Frame, NoCall, Boxes, Junk
    <3>3. top \in 1..Len(frames)
      BY <2>1
    <3> HIDE DEF fr, top
    <3>4. QED
      BY <2>1, <3>1, <3>2, <3>3, ExceptSeq
  <2>4. QED
    BY <2>2, <2>3 DEF WaitReturn, CallFail
<1>3. TypeOK'
  BY <1>a, <1>1, <1>2 DEF TypeOK, Frame
<1>4. Sorted' /\ RegisteredOwned'
  BY <1>a, <1>1 DEF Sorted, RegisteredOwned
<1>5. QED
  BY <1>3, <1>4 DEF PollInv

(* The invariant is inductive: callbacks change the poll in the middle of  *)
(* the loop, and each step of the loop sees a poll that is sorted.         *)
LEMMA PollNext ==
  ASSUME PollInv, [Next]_vars
  PROVE  PollInv'
<1>1. CASE \E f \in Fds : Delete(f)
  BY <1>1, DeleteInv
<1>2. CASE \E f \in Fds, d \in Dirs : Reregister(f, d)
  BY <1>2, ReregisterInv
<1>3. CASE \E f \in Fds, d \in Dirs : Insert(f, d)
  BY <1>3, InsertInv
<1>4. CASE \E f \in Fds, d \in Dirs : Withdraw(f, d)
  BY <1>4, WithdrawInv
<1>5. CASE Drop
  BY <1>5, DropInv
<1>6. CASE Wait
  BY <1>6, WaitInv
<1>7. CASE Dispatch
  BY <1>7, DispatchInv
<1>8. CASE WaitReturn \/ CallReturn \/ CallFail
  BY <1>8, ReturnInv
<1>9. CASE UNCHANGED vars
  BY <1>9 DEF vars, PollInv, TypeOK, Sorted, RegisteredOwned
<1>10. QED
  BY <1>1, <1>2, <1>3, <1>4, <1>5, <1>6, <1>7, <1>8, <1>9 DEF Next

(* It holds in the beginning.                                              *)
LEMMA PollInit ==
  ASSUME Init
  PROVE  PollInv
<1>1. entries = <<>> /\ Len(entries) = 0 /\ DOMAIN entries = {} /\ entries \in Seq(Entry)
  BY DEF Init
<1>2. held \in [Fds \X Dirs -> Nat] /\ frames \in Seq(Frame)
  BY DEF Init
<1>3. TypeOK
  <2>1. ops \in 0..MaxOps /\ waits \in 0..MaxWaits
    BY PollAssumption DEF Init
  <2>2. tame \in BOOLEAN /\ gone \in BOOLEAN /\ due \subseteq Fds \X Flags
    BY DEF Init
  <2>3. QED
    BY <1>1, <1>2, <2>1, <2>2 DEF TypeOK, Frame
<1>4. QED
  BY <1>1, <1>3 DEF PollInv, Sorted, RegisteredOwned

(* In every run the poll's vectors and calls have their types; above all,  *)
(* held never falls below zero: nothing is released more often than it was *)
(* copied, whatever callbacks do.                                          *)
THEOREM TypeCorrect == Spec => []TypeOK
<1>1. PollInv => TypeOK
  BY DEF PollInv
<1>2. QED
  BY <1>1, PollInit, PollNext, PTL DEF Spec

(* In every run there is, for each direction that a file asks for, the     *)
(* callback of that very file to call and to release.                      *)
THEOREM Registrations == Spec => []RegisteredOwned
<1>1. PollInv => RegisteredOwned
  BY DEF PollInv
<1>2. QED
  BY <1>1, PollInit, PollNext, PTL DEF Spec

-----------------------------------------------------------------------------
(* The loop of a tame program. *)

(* What a call answers: err (POLLERR and POLLNVAL) is answered by none.    *)
Answers == {"in", "out", "hup"}

(* What an entry still has is what is due for it, and it asked for it.     *)
Answered(e, u) ==
  /\ e.revents \cap Dirs \subseteq e.events
  /\ \A g \in Answers : g \in e.revents <=> <<e.fd, g>> \in u

(* The files that the loop is not done with. *)
Pending == {f \in Fds : \E i \in 1..Len(entries) : entries[i].fd = f /\ entries[i].revents # {}}

(* While the loop runs, its entries agree with what is due, and rem is not *)
(* smaller than the number of files that are left: it does not end early.  *)
Loop ==
  tame /\ Inside =>
    /\ Len(frames) = 1
    /\ \A i \in 1..Len(entries) : Answered(entries[i], due)
    /\ IsFiniteSet(Pending) /\ Cardinality(Pending) <= frames[1].rem

LoopInv == PollInv /\ Loop

(* Code that leaves the calls alone and gives no file more to answer.      *)
LEMMA LoopKept ==
  ASSUME LoopInv, UNCHANGED <<tame, frames>>,
         tame /\ Inside => \A i \in 1..Len(entries') :
           /\ Answered(entries'[i], due')
           /\ \E k \in 1..Len(entries) :
                entries'[i].fd = entries[k].fd /\ entries'[i].revents = entries[k].revents
  PROVE  Loop'
<1> SUFFICES ASSUME tame, Inside
             PROVE  /\ Len(frames') = 1
                    /\ \A i \in 1..Len(entries') : Answered(entries'[i], due')
                    /\ IsFiniteSet(Pending') /\ Cardinality(Pending') <= frames'[1].rem
  BY DEF Loop, Inside
<1>1. /\ Len(frames) = 1 /\ frames' = frames
      /\ IsFiniteSet(Pending) /\ Cardinality(Pending) <= frames[1].rem
  BY DEF LoopInv, Loop
<1>2. Pending' \in SUBSET Pending
  BY DEF Pending
<1>3. IsFiniteSet(Pending') /\ Cardinality(Pending') <= Cardinality(Pending)
  BY <1>1, <1>2, FS_Subset
<1>4. Cardinality(Pending) \in Nat /\ Cardinality(Pending') \in Nat /\ frames[1].rem \in Nat
  <2>1. frames[1] \in Frame
    BY <1>1, FrameTypes DEF LoopInv, PollInv
  <2>2. QED
    BY <1>1, <1>3, <2>1, FS_CardinalityType DEF Frame
<1> HIDE DEF Pending
<1>5. QED
  BY <1>1, <1>3, <1>4

(* cx_poll_read and cx_poll_write only ask for more.                       *)
LEMMA ReregisterLoop ==
  ASSUME LoopInv, NEW f \in Fds, NEW d \in Dirs, Reregister(f, d)
  PROVE  Loop'
<1> DEFINE p == Pos(f)
           e == entries[p]
           E == e.events \cup {d}
           b == <<f, d>>
           e2 == Asked(e, f, E, d, b)
<1>a. TypeOK /\ Sorted
  BY DEF LoopInv, PollInv
<1>1. p \in 1..Len(entries) /\ e.fd = f /\ e \in Entry
  BY <1>a, PosIsThere, EntryTypes DEF Reregister
<1>2. E \in SUBSET Dirs /\ b \in Boxes
  BY <1>1 DEF Entry, Boxes
<1>3. entries' = [entries EXCEPT ![p] = e2]
  <2>1. entries' = [entries EXCEPT ![p] = [e EXCEPT !.events = @ \cup {d}, ![d] = <<f, d>>]]
    BY DEF Reregister
  <2>2. [e EXCEPT !.events = @ \cup {d}, ![d] = <<f, d>>] = e2
    BY <1>1 DEF Asked, Entry
  <2>3. QED
    BY <2>1, <2>2, Zenon
<1> HIDE DEF E, b
<1>4. e2 \in Entry /\ e2.fd = f /\ e2.events = E /\ e2.revents = e.revents
  BY <1>1, <1>2, Registered
<1> HIDE DEF e2, p
<1>5. /\ Len(entries') = Len(entries) /\ entries'[p] = e2
      /\ \A i \in 1..Len(entries) : i # p => entries'[i] = entries[i]
  BY <1>a, <1>1, <1>3, <1>4, Replaced
<1>6. UNCHANGED <<tame, frames, due>>
  BY DEF Reregister
<1>7. ASSUME tame, Inside, NEW i \in 1..Len(entries)
      PROVE  /\ Answered(entries'[i], due)
             /\ entries'[i].fd = entries[i].fd /\ entries'[i].revents = entries[i].revents
  <2>1. Answered(entries[i], due)
    BY <1>7 DEF LoopInv, Loop
  <2>2. CASE i = p
    <3>1. /\ Answered(e, due) /\ entries'[i] = e2 /\ e2.fd = e.fd /\ e2.revents = e.revents
          /\ e.events \subseteq e2.events
      BY <1>1, <1>4, <1>5, <2>1, <2>2 DEF E
    <3>2. Answered(e2, due)
      BY <3>1 DEF Answered
    <3>3. QED
      BY <2>2, <3>1, <3>2
  <2>3. CASE i # p
    BY <1>5, <2>1, <2>3
  <2>4. QED
    BY <2>2, <2>3
<1>8. QED
  BY <1>5, <1>6, <1>7, LoopKept

(* cx_poll_no_read and cx_poll_no_write of what is not pending.            *)
LEMMA WithdrawLoop ==
  ASSUME LoopInv, NEW f \in Fds, NEW d \in Dirs, Withdraw(f, d)
  PROVE  Loop'
<1> DEFINE p == Pos(f)
           e == entries[p]
           e2 == [e EXCEPT !.events = e.events \ {d}]
<1>a. TypeOK /\ Sorted
  BY DEF LoopInv, PollInv
<1>1. p \in 1..Len(entries) /\ e.fd = f /\ e \in Entry
  BY <1>a, PosIsThere, EntryTypes DEF Withdraw
<1>2. /\ e2 \in Entry /\ e2.fd = f /\ e2.events = e.events \ {d}
      /\ e2.revents = e.revents
  BY <1>1 DEF Entry
<1>3. entries' = [entries EXCEPT ![p] = e2] /\ UNCHANGED <<tame, frames, due>>
  BY DEF Withdraw
<1>4. tame /\ Inside => d \notin e.revents
  BY DEF Withdraw
<1> HIDE DEF e2, p
<1>5. /\ Len(entries') = Len(entries) /\ entries'[p] = e2
      /\ \A i \in 1..Len(entries) : i # p => entries'[i] = entries[i]
  BY <1>a, <1>1, <1>2, <1>3, Replaced
<1>6. ASSUME tame, Inside, NEW i \in 1..Len(entries)
      PROVE  /\ Answered(entries'[i], due)
             /\ entries'[i].fd = entries[i].fd /\ entries'[i].revents = entries[i].revents
  <2>1. Answered(entries[i], due)
    BY <1>6 DEF LoopInv, Loop
  <2>2. CASE i = p
    <3>1. /\ Answered(e, due) /\ entries'[i] = e2 /\ e2.fd = e.fd /\ e2.revents = e.revents
          /\ e2.events = e.events \ {d} /\ d \notin e.revents
      BY <1>1, <1>2, <1>4, <1>5, <1>6, <2>1, <2>2
    <3>2. Answered(e2, due)
      BY <3>1 DEF Answered
    <3>3. QED
      BY <2>2, <3>1, <3>2
  <2>3. CASE i # p
    BY <1>5, <2>1, <2>3
  <2>4. QED
    BY <2>2, <2>3
<1>7. QED
  BY <1>3, <1>5, <1>6, LoopKept

(* cx_poll_delete takes what is due for the file with it.                  *)
LEMMA DeleteLoop ==
  ASSUME LoopInv, NEW f \in Fds, Delete(f)
  PROVE  Loop'
<1> DEFINE p == Pos(f)
<1>a. TypeOK /\ Sorted
  BY DEF LoopInv, PollInv
<1>1. p \in 1..Len(entries) /\ entries[p].fd = f
  BY <1>a, PosIsThere DEF Delete
<1>2. entries' = RemoveAt(entries, p) /\ UNCHANGED <<tame, frames>> /\ due' = {x \in due : x[1] # f}
  BY DEF Delete
<1> HIDE DEF p
<1>3. \A i \in 1..Len(entries') : \E k \in 1..Len(entries) :
        entries'[i] = entries[k] /\ entries[k].fd # f
  BY <1>a, <1>1, <1>2, Deleted
<1>4. ASSUME tame, Inside, NEW k \in 1..Len(entries), entries[k].fd # f
      PROVE  Answered(entries[k], due')
  <2>1. Answered(entries[k], due)
    BY <1>4 DEF LoopInv, Loop
  <2>2. \A g \in Answers : <<entries[k].fd, g>> \in due <=> <<entries[k].fd, g>> \in due'
    BY <1>2, <1>4
  <2>3. QED
    BY <2>1, <2>2 DEF Answered
<1>5. QED
  BY <1>2, <1>3, <1>4, LoopKept

(* The loop starts with what was reported, and rem counts its files.       *)
LEMMA WaitLoop ==
  ASSUME LoopInv, Wait
  PROVE  Loop'
<1> SUFFICES ASSUME tame, tame', Inside'
             PROVE  /\ Len(frames') = 1
                    /\ \A i \in 1..Len(entries') : Answered(entries'[i], due')
                    /\ IsFiniteSet(Pending') /\ Cardinality(Pending') <= frames'[1].rem
  BY DEF Loop, Wait
<1>a. TypeOK /\ Sorted
  BY DEF LoopInv, PollInv
<1>1. PICK r : Waited(r)
  BY <1>a, WaitStep
<1> DEFINE c == Cardinality(Hot(r))
           fr == [rem |-> c, call |-> NoCall]
<1>2. c \in Nat /\ IsFiniteSet(Hot(r))
  BY <1>1, FS_CardinalityType DEF Waited
<1>3. Len(frames') = 1 /\ frames'[1].rem = c
  <2>1. frames \in Seq(Frame) /\ Len(frames) = 0
    BY <1>a, FrameTypes DEF Wait
  <2>2. frames' = Append(frames, fr)
    BY <1>1 DEF Waited
  <2>3. fr \in Frame /\ fr.rem = c
    BY <1>2 DEF Frame, NoCall, Boxes, Junk
  <2> HIDE DEF fr, c
  <2>4. Len(frames') = Len(frames) + 1 /\ frames'[Len(frames)+1] = fr
    BY <2>1, <2>2, <2>3, AppendProperties
  <2>5. QED
    BY <2>1, <2>3, <2>4
<1>4. ASSUME NEW i \in 1..Len(entries)
      PROVE  /\ entries'[i].fd = entries[i].fd /\ entries'[i].events = entries[i].events
             /\ entries'[i].revents = Revents(r, entries[i].fd)
             /\ entries[i].fd \in Fds
  <2>1. entries[i] \in Entry /\ entries'[i] = [entries[i] EXCEPT !.revents = Revents(r, entries[i].fd)]
    BY <1>a, <1>1, EntryTypes DEF Waited
  <2>2. QED
    BY <2>1 DEF Entry
<1>5. Len(entries') = Len(entries) /\ due' = r \ (Fds \X {"err"})
  BY <1>1 DEF Waited
<1>6. ASSUME NEW i \in 1..Len(entries) PROVE Answered(entries'[i], due')
  <2> DEFINE f == entries[i].fd
  <2>1. f \in Fds /\ entries'[i].fd = f /\ entries'[i].events = entries[i].events
        /\ entries'[i].revents = Revents(r, f)
    BY <1>4
  <2>2. ASSUME NEW g \in Dirs, g \in Revents(r, f) PROVE g \in entries[i].events
    <3>1. <<f, g>> \in r /\ g \in Flags
      BY <2>2 DEF Revents
    <3>2. PICK k \in 1..Len(entries) : f = entries[k].fd /\ g \in entries[k].events \cup {"hup", "err"}
      BY <1>1, <2>1, <3>1 DEF Waited
    <3>3. k = i
      BY <1>a, <3>2, FdsDiffer
    <3>4. QED
      BY <3>2, <3>3 DEF Dirs
  <2> HIDE DEF f
  <2>3. ASSUME NEW g \in Answers PROVE g \in Revents(r, f) <=> <<f, g>> \in due'
    <3>1. g \in Flags /\ g # "err"
      BY DEF Answers, Flags, Dirs
    <3>2. <<f, g>> \in due' <=> <<f, g>> \in r
      BY <1>5, <3>1
    <3>3. QED
      BY <3>1, <3>2 DEF Revents
  <2>4. QED
    BY <2>1, <2>2, <2>3 DEF Answered
<1>7. Pending' \in SUBSET Hot(r)
  <2>1. ASSUME NEW f \in Fds, NEW i \in 1..Len(entries), entries'[i].fd = f, entries'[i].revents # {}
        PROVE  f \in Hot(r)
    BY <1>4, <2>1 DEF Hot
  <2>2. QED
    BY <1>5, <2>1 DEF Pending
<1> HIDE DEF Pending
<1>8. IsFiniteSet(Pending') /\ Cardinality(Pending') <= c
  BY <1>2, <1>7, FS_Subset
<1>9. QED
  BY <1>3, <1>5, <1>6, <1>8

(* A call answers what is cleared in the entry, and rem is counted down    *)
(* when nothing is left of it.                                             *)
LEMMA DispatchLoop ==
  ASSUME LoopInv, Dispatch
  PROVE  Loop'
<1>a. TypeOK /\ Sorted /\ Inside /\ UNCHANGED tame
  BY DEF LoopInv, PollInv, Dispatch
<1> SUFFICES ASSUME tame
             PROVE  /\ Len(frames') = 1
                    /\ \A i \in 1..Len(entries') : Answered(entries'[i], due')
                    /\ IsFiniteSet(Pending') /\ Cardinality(Pending') <= frames'[1].rem
  BY <1>a DEF Loop
<1>b. /\ Len(frames) = 1 /\ \A j \in 1..Len(entries) : Answered(entries[j], due)
      /\ IsFiniteSet(Pending) /\ Cardinality(Pending) <= frames[1].rem
  BY <1>a DEF LoopInv, Loop
<1>1. PICK i : Dispatched(i)
  BY <1>a, DispatchStep
<1> DEFINE e == entries[i]
           d == Way(e)
           left == Cleared(e, d)
<1>2. /\ i \in 1..Len(entries) /\ e \in Entry /\ d \in Dirs /\ Ready(e, d)
      /\ Len(entries') = Len(entries) /\ entries'[i] = [e EXCEPT !.revents = left]
      /\ \A j \in 1..Len(entries) : j # i => entries'[j] = entries[j]
      /\ due' = due \ {<<e.fd, d>>, <<e.fd, "hup">>}
  BY <1>1 DEF Dispatched
<1>3. /\ Len(frames') = 1 /\ frames'[1].rem = Rest(frames[1].rem, left)
      /\ frames[1].rem \in Nat
  <2>1. /\ frames[1] \in Frame /\ Len(frames') = 1
        /\ frames'[1] = [rem |-> Rest(frames[1].rem, left), call |-> [at |-> <<e.fd, d>>, box |-> e[d]]]
    BY <1>b, <1>1 DEF Dispatched
  <2> HIDE DEF left, d
  <2>2. QED
    BY <2>1 DEF Frame
<1>4. /\ entries'[i].fd = e.fd /\ entries'[i].events = e.events /\ entries'[i].revents = left
      /\ left = e.revents \ {d, "hup"} /\ e.revents # {}
  <2>1. e.revents # {}
    BY <1>2 DEF Ready
  <2>2. QED
    BY <1>2, <2>1 DEF Entry, Cleared
<1> HIDE DEF e, d, left
<1>5. ASSUME NEW j \in 1..Len(entries) PROVE Answered(entries'[j], due')
  <2>1. CASE j = i
    <3>1. Answered(e, due)
      BY <1>b, <1>2 DEF e
    <3>2. left \cap Dirs \subseteq e.events
      BY <1>4, <3>1 DEF Answered
    <3>3. ASSUME NEW g \in Answers PROVE g \in left <=> <<e.fd, g>> \in due'
      BY <1>2, <1>4, <3>1 DEF Answered
    <3>4. QED
      BY <1>4, <2>1, <3>2, <3>3 DEF Answered
  <2>2. CASE j # i
    <3>1. Answered(entries[j], due) /\ entries'[j] = entries[j]
      BY <1>b, <1>2, <2>2
    <3>2. entries[j].fd # e.fd
      BY <1>a, <1>2, <2>2, FdsDiffer DEF e
    <3>3. \A g \in Answers : <<entries[j].fd, g>> \in due <=> <<entries[j].fd, g>> \in due'
      BY <1>2, <3>2
    <3>4. QED
      BY <3>1, <3>3 DEF Answered
  <2>3. QED
    BY <2>1, <2>2
<1>6. \A j \in 1..Len(entries) :
        /\ entries'[j].fd = entries[j].fd
        /\ entries'[j].revents = IF j = i THEN left ELSE entries[j].revents
  BY <1>2, <1>4 DEF e
<1>7. e.fd \in Pending
  BY <1>2, <1>4 DEF Pending, e, Entry
<1>8. Pending' \in SUBSET Pending
  BY <1>2, <1>4, <1>6 DEF Pending, e
<1>9. left = {} => Pending' \in SUBSET (Pending \ {e.fd})
  <2>1. SUFFICES ASSUME left = {}, NEW f \in Pending' PROVE f # e.fd
    BY <1>8
  <2>2. PICK j \in 1..Len(entries) : entries'[j].fd = f /\ entries'[j].revents # {}
    BY <1>2 DEF Pending
  <2>3. j # i /\ entries[j].fd = f
    BY <1>6, <2>1, <2>2
  <2>4. QED
    BY <1>a, <1>2, <2>3, FdsDiffer DEF e
<1> HIDE DEF Pending
<1>10. /\ Cardinality(Pending) \in Nat /\ IsFiniteSet(Pending \ {e.fd})
       /\ Cardinality(Pending \ {e.fd}) = Cardinality(Pending) - 1
  BY <1>b, <1>7, FS_CardinalityType, FS_RemoveElement
<1>11. IsFiniteSet(Pending') /\ Cardinality(Pending') <= frames'[1].rem
  <2>1. CASE left = {}
    <3>1. IsFiniteSet(Pending') /\ Cardinality(Pending') <= Cardinality(Pending) - 1
      BY <1>9, <1>10, <2>1, FS_Subset
    <3>2. frames'[1].rem = frames[1].rem - 1 /\ Cardinality(Pending') \in Nat
      BY <1>3, <2>1, <3>1, FS_CardinalityType DEF Rest
    <3>3. QED
      BY <1>b, <1>3, <1>10, <3>1, <3>2
  <2>2. CASE left # {}
    <3>1. IsFiniteSet(Pending') /\ Cardinality(Pending') <= Cardinality(Pending)
      BY <1>b, <1>8, FS_Subset
    <3>2. frames'[1].rem = frames[1].rem /\ Cardinality(Pending') \in Nat
      BY <1>3, <2>2, <3>1, FS_CardinalityType DEF Rest
    <3>3. QED
      BY <1>b, <1>3, <1>10, <3>1, <3>2
  <2>3. QED
    BY <2>1, <2>2
<1>12. QED
  BY <1>2, <1>3, <1>5, <1>11

(* A wait that returns is the only one; a callback that returns leaves rem. *)
LEMMA ReturnLoop ==
  ASSUME LoopInv, WaitReturn \/ CallReturn \/ CallFail
  PROVE  Loop'
<1>a. TypeOK /\ Inside /\ UNCHANGED <<tame, entries, due>>
  BY DEF LoopInv, PollInv, WaitReturn, CallReturn, CallFail
<1> SUFFICES ASSUME tame, Inside'
             PROVE  /\ Len(frames') = 1
                    /\ \A i \in 1..Len(entries') : Answered(entries'[i], due')
                    /\ IsFiniteSet(Pending') /\ Cardinality(Pending') <= frames'[1].rem
  BY <1>a DEF Loop
<1>b. /\ Len(frames) = 1 /\ \A i \in 1..Len(entries) : Answered(entries[i], due)
      /\ IsFiniteSet(Pending) /\ Cardinality(Pending) <= frames[1].rem
  BY <1>a DEF LoopInv, Loop
<1>1. Pending' = Pending
  BY <1>a DEF Pending
<1>2. frames \in Seq(Frame) /\ frames[1] \in Frame
  BY <1>a, <1>b, FrameTypes
<1>3. CASE frames' = Front(frames)
  <2>1. frames' = <<>>
    BY <1>b, <1>2, <1>3, SubSeqEmpty DEF Front
  <2>2. QED
    BY <2>1 DEF Inside
<1>4. CASE CallReturn
  <2> DEFINE fr == [frames[1] EXCEPT !.call = NoCall]
  <2>1. frames' = [frames EXCEPT ![1] = fr]
    BY <1>b, <1>4 DEF CallReturn
  <2>2. fr \in Frame /\ fr.rem = frames[1].rem
    BY <1>2 DEF Frame, NoCall, Boxes, Junk
  <2> HIDE DEF fr
  <2>3. Len(frames') = 1 /\ frames'[1] = fr
    BY <1>b, <1>2, <2>1, <2>2, ExceptSeq
  <2>4. QED
    BY <1>a, <1>b, <1>1, <2>2, <2>3
<1>5. QED
  BY <1>3, <1>4 DEF WaitReturn, CallFail

(* The invariant of the loop is inductive.                                 *)
LEMMA LoopNext ==
  ASSUME LoopInv, [Next]_vars
  PROVE  LoopInv'
<1>1. PollInv'
  BY PollNext DEF LoopInv
<1> SUFFICES Loop'
  BY <1>1 DEF LoopInv
<1>2. CASE \E f \in Fds : Delete(f)
  BY <1>2, DeleteLoop
<1>3. CASE \E f \in Fds, d \in Dirs : Reregister(f, d)
  BY <1>3, ReregisterLoop
<1>4. CASE \E f \in Fds, d \in Dirs : Insert(f, d)
  BY <1>4 DEF Insert, LoopInv, Loop, Inside
<1>5. CASE \E f \in Fds, d \in Dirs : Withdraw(f, d)
  BY <1>5, WithdrawLoop
<1>6. CASE Drop
  BY <1>6 DEF Drop, Loop, Inside
<1>7. CASE Wait
  BY <1>7, WaitLoop
<1>8. CASE Dispatch
  BY <1>8, DispatchLoop
<1>9. CASE WaitReturn \/ CallReturn \/ CallFail
  BY <1>9, ReturnLoop
<1>10. CASE UNCHANGED vars
  BY <1>10 DEF vars, LoopInv, Loop, Inside, Pending, Answered
<1>11. QED
  BY <1>2, <1>3, <1>4, <1>5, <1>6, <1>7, <1>8, <1>9, <1>10 DEF Next

(* It holds in the beginning.                                              *)
LEMMA LoopInit ==
  ASSUME Init
  PROVE  LoopInv
BY PollInit DEF Init, LoopInv, Loop, Inside

(* Only the loop calls callbacks.                                          *)
LEMMA WhoCalls ==
  ASSUME PollInv, [Next]_vars, Called
  PROVE  Dispatch
<1>a. TypeOK
  BY DEF PollInv
<1>1. Inside /\ Len(frames') = Len(frames) /\ Last(frames).call = NoCall /\ frames' # frames
  BY DEF Called
<1>2. frames \in Seq(Frame) /\ Len(frames) \in Nat \ {0}
  BY <1>a, <1>1, FrameTypes
<1>3. ~Wait
  <2>1. SUFFICES ASSUME Wait PROVE FALSE
    OBVIOUS
  <2>2. CodeRuns
    BY <2>1 DEF Wait
  <2>3. QED
    BY <1>1, <2>2 DEF CodeRuns
<1>4. ~WaitReturn /\ ~CallReturn /\ ~CallFail
  <2>1. Len(Front(frames)) # Len(frames)
    <3> DEFINE m == Len(frames)
               k == m - 1
    <3>1. m \in Nat \ {0} /\ k \in Nat /\ k # m /\ \A i \in 1..k : frames[i] \in Frame
      BY <1>2, ElementOfSeq
    <3>2. SubSeq(frames, 1, k) = [i \in 1..k |-> frames[i]]
      BY <1>2, SMT
    <3>3. Front(frames) = SubSeq(frames, 1, k)
      BY DEF Front
    <3> HIDE DEF k
    <3>4. Len([i \in 1..k |-> frames[i]]) = k
      BY <3>1
    <3>5. QED
      BY <3>1, <3>2, <3>3, <3>4
  <2>2. QED
    BY <1>1, <2>1 DEF WaitReturn, CallReturn, CallFail
<1>5. QED
  BY <1>1, <1>3, <1>4 DEF Next, Delete, Reregister, Insert, Withdraw, Drop, vars

(* A callback that the loop calls is that of a direction which was         *)
(* reported and is still asked for.                                        *)
LEMMA CallStep ==
  ASSUME LoopInv, [Next]_vars, tame, Called
  PROVE  /\ Reported
         /\ CalledAt[2] \in entries[Pos(CalledAt[1])].events
         /\ Last(frames').call.box = CalledAt
<1>a. PollInv /\ TypeOK /\ Sorted /\ Inside
  BY DEF LoopInv, PollInv, Called
<1>1. PICK i : Dispatched(i)
  BY <1>a, WhoCalls, DispatchStep
<1> DEFINE e == entries[i]
           d == Way(e)
<1>2. /\ i \in 1..Len(entries) /\ e \in Entry /\ d \in Dirs /\ Ready(e, d)
      /\ Len(frames') = Len(frames)
      /\ frames'[Len(frames)].call = [at |-> <<e.fd, d>>, box |-> e[d]]
  BY <1>1 DEF Dispatched
<1> HIDE DEF d
<1>3. CalledAt = <<e.fd, d>> /\ Last(frames').call.box = e[d]
  BY <1>2 DEF CalledAt, Last
<1>4. Answered(e, due)
  BY <1>a, <1>2 DEF LoopInv, Loop
<1>5. (d \in e.revents /\ <<e.fd, d>> \in due) \/ (d \in e.events /\ <<e.fd, "hup">> \in due)
  BY <1>2, <1>4 DEF Ready, Answered, Answers, Dirs
<1>6. Reported
  BY <1>3, <1>5 DEF Reported
<1>7. d \in e.events
  BY <1>2, <1>4, <1>5 DEF Answered
<1>8. Pos(e.fd) = i
  BY <1>a, <1>2, PosFound
<1>9. e[d] = <<e.fd, d>>
  BY <1>a, <1>2, <1>7, EachOwns DEF Owns
<1>10. CalledAt[1] = e.fd /\ CalledAt[2] = d
  BY <1>3
<1>11. QED
  BY <1>3, <1>6, <1>7, <1>8, <1>9, <1>10

(* When the loop ends nothing is due that anybody asks for.                *)
LEMMA ReturnStep ==
  ASSUME LoopInv, tame, WaitReturn, NEW i \in DOMAIN entries
  PROVE  /\ \A d \in entries[i].events : <<entries[i].fd, d>> \notin due
         /\ entries[i].events # {} => <<entries[i].fd, "hup">> \notin due
<1> DEFINE e == entries[i]
<1>a. TypeOK /\ Inside
  BY DEF LoopInv, PollInv, WaitReturn
<1>b. i \in 1..Len(entries) /\ e \in Entry
  BY <1>a, EntryTypes
<1>1. /\ Len(frames) = 1 /\ Answered(e, due)
      /\ IsFiniteSet(Pending) /\ Cardinality(Pending) <= frames[1].rem
  BY <1>a, <1>b DEF LoopInv, Loop
<1>2. e.events \subseteq Dirs /\ e.fd \in Fds
  BY <1>b DEF Entry
<1>3. CASE frames[1].rem = 0
  <2>1. Cardinality(Pending) = 0
    BY <1>1, <1>3, FS_CardinalityType
  <2>2. Pending = {}
    BY <1>1, <2>1, FS_EmptySet
  <2>3. e.revents = {}
    BY <1>b, <1>2, <2>2 DEF Pending
  <2>4. QED
    BY <1>1, <1>2, <2>3 DEF Answered, Answers, Dirs
<1>4. CASE Hits = {}
  <2>1. \A d \in Dirs : ~Ready(e, d)
    BY <1>4 DEF Hits
  <2>2. QED
    BY <1>1, <1>2, <2>1 DEF Ready, Answered, Answers, Dirs
<1>5. QED
  BY <1>1, <1>3, <1>4 DEF WaitReturn, Last

(* As long as callbacks neither add files nor withdraw what is pending, nor *)
(* wait, each callback that cx_poll_wait calls has been reported, is still  *)
(* registered and is the callback of that very file.                       *)
THEOREM CallsRegistered == Spec => CalledAsRegistered
<1>1. LoopInv /\ [Next]_vars =>
        [tame /\ Called =>
           /\ Reported
           /\ CalledAt[2] \in entries[Pos(CalledAt[1])].events
           /\ Last(frames').call.box = CalledAt]_vars
  BY CallStep
<1>2. QED
  BY <1>1, LoopInit, LoopNext, PTL DEF Spec, CalledAsRegistered

(* And a wait that does not fail has called everyone who was reported:     *)
(* counting rem down does not end the loop early.                          *)
THEOREM CallsEveryone == Spec => EveryoneCalled
<1>1. LoopInv /\ [Next]_vars =>
        [tame /\ WaitReturn =>
           \A i \in DOMAIN entries : LET e == entries[i] IN
             /\ \A d \in e.events : <<e.fd, d>> \notin due
             /\ e.events # {} => <<e.fd, "hup">> \notin due]_vars
  BY ReturnStep
<1>2. QED
  BY <1>1, LoopInit, LoopNext, PTL DEF Spec, EveryoneCalled
=============================================================================
