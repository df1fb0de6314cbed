---------------------------- MODULE KernelProofs ----------------------------
(***************************************************************************)
(* Proofs about the kernel, for every number of processes and semaphores,  *)
(* every quantum and every set of calls the application makes.             *)
(*                                                                         *)
(* First, what the list operations of XinuLists do to a list: element by   *)
(* element, to the set of processes on it, and, for a delta list, to the   *)
(* time after which each process expires.  Then, what the functions of the *)
(* scheduler (ready.c, resched.c, and the lines of suspend.c, chprio.c and *)
(* kill.c that take a process off the ready list) do to the scheduler's    *)
(* record.  Then the kernel.  Last, the time processes sleep, for every    *)
(* set of delays and every bound on what one deferral of the clock may     *)
(* last.                                                                   *)
(***************************************************************************)
EXTENDS KernelTime, TLAPS, WellFoundedInduction, SequenceTheorems, FiniteSetTheorems

(* A set of naturals that is not empty has a least element. *)
LEMMA MinNat ==
  ASSUME NEW T, T \subseteq Nat, T # {}
  PROVE  Min(T) \in T /\ \A y \in T : Min(T) <= y
<1>1. PICK x \in T : \A y \in T : ~ (<<y, x>> \in OpToRel(<, Nat))
  BY NatLessThanWellFounded, WFMin
<1>2. \A y \in T : x <= y
  <2> SUFFICES ASSUME NEW y \in T PROVE x <= y
    OBVIOUS
  <2>1. x \in Nat /\ y \in Nat
    OBVIOUS
  <2>2. ~(y < x)
    BY <1>1, <2>1 DEF OpToRel
  <2> QED
    BY <2>1, <2>2
<1> QED
  BY <1>1, <1>2 DEF Min

(* InsertAt shifts what follows by one. *)
LEMMA InsertAtFacts ==
  ASSUME NEW S, NEW l \in Seq(S), NEW i \in 1..(Len(l) + 1), NEW e \in S
  PROVE  /\ InsertAt(l, i, e) \in Seq(S)
         /\ Len(InsertAt(l, i, e)) = Len(l) + 1
         /\ DOMAIN InsertAt(l, i, e) = 1..(Len(l) + 1)
         /\ \A j \in 1..(Len(l) + 1) :
              InsertAt(l, i, e)[j] = IF j < i THEN l[j]
                                     ELSE IF j = i THEN e ELSE l[j-1]
<1> DEFINE a == SubSeq(l, 1, i-1)
           b == SubSeq(l, i, Len(l))
           m == a \o <<e>>
<1>0. i \in Int /\ Len(l) \in Nat /\ \A k \in 1..Len(l) : l[k] \in S
  OBVIOUS
<1>1. a \in Seq(S) /\ Len(a) = i - 1 /\ \A k \in 1..(i-1) : a[k] = l[k]
  <2>1. (\A k \in 1..(i-1) : l[k] \in S) /\ 1 \in Int /\ i - 1 \in Int
    BY <1>0
  <2> QED
    BY <1>0, <2>1, SubSeqProperties
<1>2. b \in Seq(S) /\ Len(b) = Len(l) - i + 1 /\ \A k \in 1..(Len(l)-i+1) : b[k] = l[i+k-1]
  <2>1. (\A k \in i..Len(l) : l[k] \in S) /\ Len(l) \in Int
    BY <1>0
  <2> QED
    BY <1>0, <2>1, SubSeqProperties
<1> HIDE DEF a, b
<1>3. <<e>> \in Seq(S) /\ Len(<<e>>) = 1 /\ <<e>>[1] = e
  OBVIOUS
<1>4. m \in Seq(S) /\ Len(m) = i /\ \A k \in 1..i : m[k] = IF k < i THEN l[k] ELSE e
  BY <1>0, <1>1, <1>3, ConcatProperties
<1> HIDE DEF m
<1>5. /\ m \o b \in Seq(S) /\ Len(m \o b) = Len(l) + 1
      /\ \A k \in 1..(Len(l)+1) : (m \o b)[k] = IF k <= i THEN m[k] ELSE b[k-i]
  <2>1. /\ m \o b \in Seq(S) /\ Len(m \o b) = Len(m) + Len(b)
        /\ \A k \in 1..(Len(m) + Len(b)) :
             (m \o b)[k] = IF k <= Len(m) THEN m[k] ELSE b[k - Len(m)]
    BY <1>2, <1>4, ConcatProperties
  <2>2. Len(m) + Len(b) = Len(l) + 1 /\ Len(m) = i
    BY <1>0, <1>2, <1>4
  <2> QED
    BY <2>1, <2>2
<1>6. InsertAt(l, i, e) = m \o b
  BY DEF InsertAt, m, a, b
<1> QED
  BY <1>0, <1>2, <1>4, <1>5, <1>6

(* RemoveAt closes the gap. *)
LEMMA RemoveAtFacts ==
  ASSUME NEW S, NEW l \in Seq(S), NEW i \in 1..Len(l)
  PROVE  /\ RemoveAt(l, i) \in Seq(S)
         /\ Len(RemoveAt(l, i)) = Len(l) - 1
         /\ DOMAIN RemoveAt(l, i) = 1..(Len(l) - 1)
         /\ \A j \in 1..(Len(l) - 1) :
              RemoveAt(l, i)[j] = IF j < i THEN l[j] ELSE l[j+1]
<1> DEFINE a == SubSeq(l, 1, i-1)
           b == SubSeq(l, i+1, Len(l))
<1>0. i \in Int /\ Len(l) \in Nat /\ \A k \in 1..Len(l) : l[k] \in S
  OBVIOUS
<1>1. a \in Seq(S) /\ Len(a) = i - 1 /\ \A k \in 1..(i-1) : a[k] = l[k]
  <2>1. (\A k \in 1..(i-1) : l[k] \in S) /\ 1 \in Int /\ i - 1 \in Int
    BY <1>0
  <2> QED
    BY <1>0, <2>1, SubSeqProperties
<1>2. b \in Seq(S) /\ Len(b) = Len(l) - i /\ \A k \in 1..(Len(l)-i) : b[k] = l[i+k]
  <2>1. (\A k \in (i+1)..Len(l) : l[k] \in S) /\ i + 1 \in Int /\ Len(l) \in Int
    BY <1>0
  <2> QED
    BY <1>0, <2>1, SubSeqProperties
<1> HIDE DEF a, b
<1>3. /\ a \o b \in Seq(S) /\ Len(a \o b) = Len(l) - 1
      /\ \A k \in 1..(Len(l)-1) : (a \o b)[k] = IF k <= i - 1 THEN a[k] ELSE b[k-(i-1)]
  <2>1. /\ a \o b \in Seq(S) /\ Len(a \o b) = Len(a) + Len(b)
        /\ \A k \in 1..(Len(a) + Len(b)) :
             (a \o b)[k] = IF k <= Len(a) THEN a[k] ELSE b[k - Len(a)]
    BY <1>1, <1>2, ConcatProperties
  <2>2. Len(a) + Len(b) = Len(l) - 1 /\ Len(a) = i - 1
    BY <1>0, <1>1, <1>2
  <2> QED
    BY <2>1, <2>2
<1>4. RemoveAt(l, i) = a \o b
  BY DEF RemoveAt, a, b
<1>5. ASSUME NEW j \in 1..(Len(l) - 1)
      PROVE  (a \o b)[j] = IF j < i THEN l[j] ELSE l[j+1]
  <2>1. CASE j < i
    BY <1>0, <1>1, <1>3, <2>1
  <2>2. CASE ~(j < i)
    <3>1. j - (i - 1) \in 1..(Len(l) - i) /\ i + (j - (i - 1)) = j + 1
      BY <1>0, <2>2
    <3> QED
      BY <1>0, <1>2, <1>3, <2>2, <3>1
  <2> QED
    BY <2>1, <2>2
<1>6. DOMAIN (a \o b) = 1..(Len(l) - 1)
  BY <1>0, <1>3
<1> QED
  BY <1>3, <1>4, <1>5, <1>6

(* Front drops the last element. *)
LEMMA FrontFacts ==
  ASSUME NEW S, NEW l \in Seq(S), l # <<>>
  PROVE  /\ Front(l) \in Seq(S) /\ Len(l) \in Nat \ {0}
         /\ Len(Front(l)) = Len(l) - 1
         /\ DOMAIN Front(l) = 1..(Len(l) - 1)
         /\ \A j \in 1..(Len(l) - 1) : Front(l)[j] = l[j]
<1>1. Len(l) \in Nat \ {0} /\ \A k \in 1..Len(l) : l[k] \in S
  OBVIOUS
<1> DEFINE n == Len(l) - 1
           f == SubSeq(l, 1, n)
<1>3. f \in Seq(S) /\ Len(f) = Len(l) - 1 /\ \A k \in 1..(Len(l)-1) : f[k] = l[k]
  <2>0. n \in Nat /\ 1 \in Int /\ \A k \in 1..n : l[k] \in S
    BY <1>1
  <2> HIDE DEF n
  <2>1. /\ f \in Seq(S) /\ Len(f) = (IF 1 <= n THEN n - 1 + 1 ELSE 0)
        /\ \A k \in 1..(n - 1 + 1) : f[k] = l[1 + k - 1]
    BY <2>0, SubSeqProperties
  <2>2. f \in Seq(S) /\ Len(f) = n /\ \A k \in 1..n : f[k] = l[k]
    BY <2>0, <2>1
  <2> QED
    BY <2>2 DEF n
<1>4. Front(l) = f
  BY DEF Front
<1> HIDE DEF f
<1> QED
  BY <1>1, <1>3, <1>4

------------------------------------------------------------------------------
(***************************************************************************)
(* Lists of entries.                                                       *)
(***************************************************************************)

Entries(S) == [pid : S, key : Int]

(* No process is twice on the list. *)
Distinct(l) == \A i, j \in DOMAIN l : l[i].pid = l[j].pid => i = j

Sorted(l) == \A i, j \in DOMAIN l : i < j => l[i].key <= l[j].key

(* r is the list l with an entry for p. *)
Inserted(S, l, p, key, r) ==
  /\ r \in Seq(Entries(S))
  /\ Sorted(l) => Sorted(r)
  /\ Distinct(l) /\ p \notin Pids(l) => Distinct(r)
  /\ Pids(r) = Pids(l) \cup {p}
  /\ \A k \in DOMAIN r : r[k] = Entry(p, key) \/ \E j \in DOMAIN l : r[k] = l[j]

(* insert.c puts the entry on the list, once, and keeps the list sorted. *)
LEMMA InsertFacts ==
  ASSUME NEW S, NEW l \in Seq(Entries(S)), NEW p \in S, NEW key \in Int
  PROVE  Inserted(S, l, p, key, Insert(l, p, key))
<1> DEFINE T == {i \in DOMAIN l : l[i].key >= key} \cup {Len(l) + 1}
           n == InsertPos(l, key)
           e == Entry(p, key)
           r == Insert(l, p, key)
<1>0. /\ Len(l) \in Nat /\ DOMAIN l = 1..Len(l) /\ e \in Entries(S)
      /\ e.pid = p /\ e.key = key
      /\ \A i \in 1..Len(l) : l[i] \in Entries(S) /\ l[i].key \in Int
  <2>1. e \in Entries(S) /\ e.pid = p /\ e.key = key
    BY DEF Entries, Entry
  <2>2. Len(l) \in Nat /\ DOMAIN l = 1..Len(l) /\ \A i \in 1..Len(l) : l[i] \in Entries(S)
    OBVIOUS
  <2>3. \A x \in Entries(S) : x.key \in Int
    BY DEF Entries
  <2> QED
    BY <2>1, <2>2, <2>3
<1>1. n \in T /\ \A y \in T : n <= y
  <2>1. T \subseteq Nat /\ T # {}
    BY <1>0
  <2> QED
    BY <2>1, MinNat DEF InsertPos
<1>2. n \in 1..(Len(l) + 1)
  BY <1>0, <1>1
<1>3. \A i \in 1..Len(l) : i < n => l[i].key < key
  BY <1>0, <1>1, <1>2
<1>4. n <= Len(l) => l[n].key >= key
  BY <1>0, <1>1, <1>2
<1>5. r = InsertAt(l, n, e)
  BY DEF Insert
<1> HIDE DEF n, e, r
<1>6. /\ r \in Seq(Entries(S)) /\ Len(r) = Len(l) + 1
      /\ DOMAIN r = 1..(Len(l) + 1)
      /\ \A j \in 1..(Len(l) + 1) :
           r[j] = IF j < n THEN l[j] ELSE IF j = n THEN e ELSE l[j-1]
  <2>1. ASSUME NEW E, l \in Seq(E), NEW x \in E, NEW k \in 1..(Len(l) + 1)
        PROVE  /\ InsertAt(l, k, x) \in Seq(E)
               /\ Len(InsertAt(l, k, x)) = Len(l) + 1
               /\ DOMAIN InsertAt(l, k, x) = 1..(Len(l) + 1)
               /\ \A j \in 1..(Len(l) + 1) :
                    InsertAt(l, k, x)[j] = IF j < k THEN l[j]
                                           ELSE IF j = k THEN x ELSE l[j-1]
    BY <2>1, InsertAtFacts
  <2> QED
    BY SMTT(60), <1>0, <1>2, <1>5, <2>1
<1>7. Sorted(l) => Sorted(r)
  <2> SUFFICES ASSUME Sorted(l), NEW i \in 1..(Len(l) + 1),
                      NEW j \in 1..(Len(l) + 1), i < j
               PROVE  r[i].key <= r[j].key
    BY <1>6 DEF Sorted
  <2>0. \A x, y \in 1..Len(l) : x < y => l[x].key <= l[y].key
    BY <1>0 DEF Sorted
  <2>1. CASE j < n
    BY <1>0, <1>2, <1>6, <2>0, <2>1
  <2>2. CASE j = n
    BY <1>0, <1>2, <1>3, <1>6, <2>2
  <2>3. CASE i < n /\ j > n
    BY SMTT(60), <1>0, <1>2, <1>3, <1>6, <2>0, <2>3
  <2>4. CASE i = n
    <3>1. n <= Len(l) /\ j - 1 \in 1..Len(l) /\ n <= j - 1
      BY <1>0, <1>2, <2>4
    <3>2. l[n].key <= l[j-1].key
      <4>1. n \in 1..Len(l) /\ l[n].key \in Int /\ (n = j - 1 \/ n < j - 1)
        BY <1>0, <1>2, <3>1
      <4>2. CASE n = j - 1
        BY <4>1, <4>2
      <4>3. CASE n < j - 1
        BY <2>0, <3>1, <4>1, <4>3
      <4> QED
        BY <4>1, <4>2, <4>3
    <3>3. r[i].key = key /\ r[j].key = l[j-1].key
      BY <1>0, <1>2, <1>6, <2>4, <3>1
    <3> QED
      BY <1>0, <1>2, <1>4, <3>1, <3>2, <3>3
  <2>5. CASE i > n
    <3>1. i - 1 \in 1..Len(l) /\ j - 1 \in 1..Len(l) /\ i - 1 < j - 1
      BY <1>0, <1>2, <2>5
    <3>2. r[i] = l[i-1] /\ r[j] = l[j-1]
      BY <1>0, <1>2, <1>6, <2>5
    <3> QED
      BY <2>0, <3>1, <3>2
  <2> QED
    BY <1>0, <1>2, <2>1, <2>2, <2>3, <2>4, <2>5
<1>8. \A k \in 1..(Len(l) + 1) :
        \/ r[k] = e /\ k = n
        \/ \E j \in 1..Len(l) : /\ r[k] = l[j] /\ k # n
                                /\ j = (IF k < n THEN k ELSE k - 1)
  <2> TAKE k \in 1..(Len(l) + 1)
  <2>1. CASE k = n
    BY <1>2, <1>6, <2>1
  <2>2. CASE k # n
    <3>1. (IF k < n THEN k ELSE k - 1) \in 1..Len(l)
      BY <1>0, <1>2, <2>2
    <3> QED
      BY <1>0, <1>2, <1>6, <2>2, <3>1
  <2> QED
    BY <2>1, <2>2
<1>9. Pids(r) = Pids(l) \cup {p}
  <2>1. ASSUME NEW k \in 1..(Len(l) + 1) PROVE r[k].pid \in Pids(l) \cup {p}
    BY <1>0, <1>8 DEF Pids
  <2>2. p \in Pids(r)
    BY <1>0, <1>2, <1>6 DEF Pids
  <2>3. ASSUME NEW i \in 1..Len(l) PROVE l[i].pid \in Pids(r)
    <3> DEFINE k == IF i < n THEN i ELSE i + 1
    <3>1. k \in 1..(Len(l) + 1) /\ r[k] = l[i]
      BY <1>0, <1>2, <1>6
    <3> QED
      BY <1>6, <3>1 DEF Pids
  <2> QED
    BY <1>0, <1>6, <2>1, <2>2, <2>3 DEF Pids
<1>10. Distinct(l) /\ p \notin Pids(l) => Distinct(r)
  <2> SUFFICES ASSUME Distinct(l), p \notin Pids(l), NEW i \in 1..(Len(l) + 1),
                      NEW j \in 1..(Len(l) + 1), r[i].pid = r[j].pid
               PROVE  i = j
    BY <1>6 DEF Distinct
  <2>1. \A x \in 1..Len(l) : l[x].pid # p
    BY <1>0 DEF Pids
  <2>2. \A x, y \in 1..Len(l) : l[x].pid = l[y].pid => x = y
    BY <1>0 DEF Distinct
  <2>3. CASE i = n \/ j = n
    BY <1>0, <1>2, <1>8, <2>1, <2>3
  <2>4. CASE i # n /\ j # n
    <3>1. (IF i < n THEN i ELSE i - 1) = (IF j < n THEN j ELSE j - 1)
      BY <1>8, <2>2, <2>4
    <3> QED
      BY <1>0, <1>2, <2>4, <3>1
  <2> QED
    BY <2>3, <2>4
<1>11. \A k \in DOMAIN r : r[k] = e \/ \E j \in DOMAIN l : r[k] = l[j]
  BY <1>0, <1>6, <1>8
<1>12. Inserted(S, l, p, key, r)
  BY <1>6, <1>7, <1>9, <1>10, <1>11 DEF e, Inserted
<1> QED
  BY <1>12 DEF r

(* queue.c's dequeue takes the entry off the list and nothing else. *)
LEMMA DequeueFacts ==
  ASSUME NEW S, NEW l \in Seq(S), NEW p \in Pids(l), Distinct(l)
  PROVE  /\ Dequeue(l, p) \in Seq(S)
         /\ Distinct(Dequeue(l, p))
         /\ Pids(Dequeue(l, p)) = Pids(l) \ {p}
         /\ \A k \in DOMAIN Dequeue(l, p) :
              \E j \in DOMAIN l : Dequeue(l, p)[k] = l[j]
         /\ Sorted(l) => Sorted(Dequeue(l, p))
<1> DEFINE n == PosOf(l, p)
           r == Dequeue(l, p)
<1>0. Len(l) \in Nat /\ DOMAIN l = 1..Len(l)
  OBVIOUS
<1>1. n \in 1..Len(l) /\ l[n].pid = p
  <2>1. \E i \in DOMAIN l : l[i].pid = p
    BY DEF Pids
  <2> QED
    BY <1>0, <2>1 DEF PosOf
<1>2. \A i \in 1..Len(l) : l[i].pid = p => i = n
  BY <1>0, <1>1 DEF Distinct
<1>3. r = RemoveAt(l, n)
  BY DEF Dequeue
<1> HIDE DEF n, r
<1>4. /\ r \in Seq(S) /\ Len(r) = Len(l) - 1 /\ DOMAIN r = 1..(Len(l) - 1)
      /\ \A j \in 1..(Len(l) - 1) : r[j] = IF j < n THEN l[j] ELSE l[j+1]
  BY <1>1, <1>3, RemoveAtFacts
<1>5. ASSUME NEW k \in 1..(Len(l) - 1)
      PROVE  \E j \in 1..Len(l) : /\ r[k] = l[j] /\ j # n
                                  /\ j = (IF k < n THEN k ELSE k + 1)
  <2>1. /\ (IF k < n THEN k ELSE k + 1) \in 1..Len(l)
        /\ (IF k < n THEN k ELSE k + 1) # n
    BY <1>0, <1>1
  <2> QED
    BY <1>0, <1>1, <1>4, <2>1
<1>6. Pids(r) = Pids(l) \ {p}
  <2>1. ASSUME NEW k \in 1..(Len(l) - 1) PROVE r[k].pid \in Pids(l) \ {p}
    BY <1>0, <1>2, <1>5 DEF Pids
  <2>2. ASSUME NEW i \in 1..Len(l), l[i].pid # p PROVE l[i].pid \in Pids(r)
    <3> DEFINE k == IF i < n THEN i ELSE i - 1
    <3>0. i # n
      BY <1>1, <2>2
    <3>1. k \in 1..(Len(l) - 1) /\ r[k] = l[i]
      BY <1>0, <1>1, <1>4, <3>0
    <3> QED
      BY <1>4, <3>1 DEF Pids
  <2> QED
    BY <1>0, <1>4, <2>1, <2>2 DEF Pids
<1>7. Distinct(r)
  <2> SUFFICES ASSUME NEW i \in 1..(Len(l) - 1), NEW j \in 1..(Len(l) - 1),
                      r[i].pid = r[j].pid
               PROVE  i = j
    BY <1>4 DEF Distinct
  <2>1. (IF i < n THEN i ELSE i + 1) = (IF j < n THEN j ELSE j + 1)
    BY <1>0, <1>5 DEF Distinct
  <2> QED
    BY <1>0, <1>1, <2>1
<1>8. ASSUME Sorted(l) PROVE Sorted(r)
  <2> SUFFICES ASSUME NEW i \in 1..(Len(l) - 1), NEW j \in 1..(Len(l) - 1), i < j
               PROVE  r[i].key <= r[j].key
    BY <1>4 DEF Sorted
  <2> DEFINE x == IF i < n THEN i ELSE i + 1
             y == IF j < n THEN j ELSE j + 1
  <2>1. x \in 1..Len(l) /\ y \in 1..Len(l) /\ x < y
    BY <1>0, <1>1
  <2>2. r[i] = l[x] /\ r[j] = l[y]
    BY <1>0, <1>4
  <2> QED
    BY <1>0, <1>8, <2>1, <2>2 DEF Sorted
<1>9. \A k \in DOMAIN r : \E j \in DOMAIN l : r[k] = l[j]
  BY <1>0, <1>4, <1>5
<1> QED
  BY <1>4, <1>6, <1>7, <1>8, <1>9 DEF r

(* resched.c's getlast: the last entry leaves the list. *)
LEMMA FrontListFacts ==
  ASSUME NEW S, NEW l \in Seq(S), l # <<>>, Distinct(l)
  PROVE  /\ Front(l) \in Seq(S) /\ Last(l) \in S
         /\ Last(l).pid \in Pids(l)
         /\ Distinct(Front(l))
         /\ Pids(Front(l)) = Pids(l) \ {Last(l).pid}
         /\ \A k \in DOMAIN Front(l) : k \in DOMAIN l /\ Front(l)[k] = l[k]
         /\ Sorted(l) => /\ Sorted(Front(l))
                         /\ \A k \in DOMAIN Front(l) : Front(l)[k].key <= Last(l).key
<1> DEFINE n == Len(l)
           r == Front(l)
           z == Last(l)
<1>0. /\ Len(l) \in Nat \ {0} /\ DOMAIN l = 1..Len(l) /\ DOMAIN l = 1..n
      /\ z = l[n] /\ n \in 1..n
  BY DEF Last
<1>1. /\ r \in Seq(S) /\ DOMAIN r = 1..(n - 1) /\ \A j \in 1..(n - 1) : r[j] = l[j]
  BY FrontFacts
<1>2. z \in S /\ z.pid \in Pids(l)
  BY <1>0 DEF Pids
<1>3. n \in Nat \ {0} /\ \A k \in 1..(n - 1) : k \in 1..n /\ k < n
  BY <1>0
<1> HIDE DEF r, z, n
<1>4. Distinct(r)
  BY <1>0, <1>1, <1>3 DEF Distinct, n
<1>5. Pids(r) = Pids(l) \ {z.pid}
  <2>1. ASSUME NEW k \in 1..(n - 1) PROVE r[k].pid \in Pids(l) \ {z.pid}
    <3>1. k \in DOMAIN l /\ n \in DOMAIN l /\ k # n
      BY <1>0, <1>3
    <3>2. l[k].pid # l[n].pid
      BY <3>1 DEF Distinct
    <3>3. l[k].pid \in Pids(l)
      BY <3>1 DEF Pids
    <3>4. r[k] = l[k] /\ z = l[n]
      BY <1>0, <1>1
    <3> QED
      BY <3>2, <3>3, <3>4
  <2>2. ASSUME NEW i \in 1..n, l[i].pid # z.pid PROVE l[i].pid \in Pids(r)
    <3>1. i # n
      BY <1>0, <2>2
    <3>2. i \in 1..(n - 1)
      BY <1>3, <3>1
    <3> QED
      BY <1>1, <3>2 DEF Pids
  <2> QED
    BY <1>0, <1>1, <2>1, <2>2 DEF Pids, n
<1>6. Sorted(l) => Sorted(r) /\ \A k \in DOMAIN r : r[k].key <= z.key
  BY SMTT(60), <1>0, <1>1, <1>3 DEF Sorted, n
<1>7. \A k \in DOMAIN r : k \in DOMAIN l /\ r[k] = l[k]
  BY <1>0, <1>1, <1>3 DEF n
<1> QED
  BY <1>1, <1>2, <1>4, <1>5, <1>6, <1>7 DEF r, z

------------------------------------------------------------------------------
(***************************************************************************)
(* The sleep queue: which processes are on it.  The keys of a delta list   *)
(* are not followed here, so that it is only known to be a sequence.       *)
(***************************************************************************)

IsList(l) == l \in Seq({l[i] : i \in DOMAIN l})

LEMMA ListOfFunction ==
  ASSUME NEW n \in Nat, NEW l, DOMAIN l = 1..n, l = [i \in DOMAIN l |-> l[i]]
  PROVE  IsList(l) /\ Len(l) = n
<1>1. l \in [1..n -> {l[i] : i \in DOMAIN l}]
  OBVIOUS
<1>2. l \in Seq({l[i] : i \in DOMAIN l})
  BY <1>1, SeqDef
<1> QED
  BY <1>2 DEF IsList

(* Every sequence is one of its own elements. *)
LEMMA SeqIsList ==
  ASSUME NEW S, NEW l \in Seq(S)
  PROVE  IsList(l)
<1>1. Len(l) \in Nat /\ DOMAIN l = 1..Len(l) /\ l = [i \in DOMAIN l |-> l[i]]
  OBVIOUS
<1> QED
  BY <1>1, ListOfFunction

LEMMA ListFacts ==
  ASSUME NEW l, IsList(l)
  PROVE  Len(l) \in Nat /\ DOMAIN l = 1..Len(l)
BY DEF IsList

(* Changing keys changes nothing else. *)
LEMMA SamePids ==
  ASSUME NEW l, IsList(l), NEW r, DOMAIN r = DOMAIN l,
         r = [i \in DOMAIN l |-> r[i]],
         \A i \in DOMAIN l : r[i].pid = l[i].pid
  PROVE  /\ IsList(r) /\ Len(r) = Len(l)
         /\ Pids(r) = Pids(l)
         /\ Distinct(l) => Distinct(r)
<1>1. Len(l) \in Nat /\ DOMAIN l = 1..Len(l)
  BY ListFacts
<1>2. IsList(r) /\ Len(r) = Len(l)
  BY <1>1, ListOfFunction
<1>3. Pids(r) = Pids(l)
  BY DEF Pids
<1> QED
  BY <1>2, <1>3 DEF Distinct

(* insertd.c puts the process on the queue, once. *)
LEMMA InsertDFacts ==
  ASSUME NEW l, IsList(l), NEW p, NEW key, Distinct(l), p \notin Pids(l)
  PROVE  /\ IsList(InsertD(l, p, key))
         /\ Distinct(InsertD(l, p, key))
         /\ Pids(InsertD(l, p, key)) = Pids(l) \cup {p}
<1> DEFINE T == {i \in DOMAIN l : DeltaSum(l)[i] >= key} \cup {Len(l) + 1}
           n == DeltaPos(l, key)
           left == key - DeltaSum(l)[n-1]
           rest == [j \in DOMAIN l |-> IF j = n THEN Entry(l[j].pid, l[j].key - left)
                                       ELSE l[j]]
           e == Entry(p, left)
           r == InsertD(l, p, key)
<1>0. Len(l) \in Nat /\ DOMAIN l = 1..Len(l)
  BY ListFacts
<1>1. n \in 1..(Len(l) + 1)
  <2>1. T \subseteq Nat /\ T # {} /\ T \subseteq 1..(Len(l) + 1)
    BY <1>0
  <2> QED
    BY <2>1, MinNat DEF DeltaPos
<1>2. r = InsertAt(rest, n, e) /\ e.pid = p
  BY DEF InsertD, Entry
<1>3. /\ DOMAIN rest = DOMAIN l /\ rest = [i \in DOMAIN l |-> rest[i]]
      /\ \A i \in DOMAIN l : rest[i].pid = l[i].pid
  BY DEF Entry
<1> HIDE DEF n, rest, e, r
<1>4. IsList(rest) /\ Len(rest) = Len(l) /\ Pids(rest) = Pids(l) /\ Distinct(rest)
  BY <1>3, SamePids
<1>5. PICK S : rest \in Seq(S) /\ e \in S
  <2> DEFINE R == {rest[i] : i \in DOMAIN rest}
             S == R \cup {e}
  <2>1. rest \in Seq(R)
    BY <1>4 DEF IsList
  <2>2. \A i \in 1..Len(l) : rest[i] \in S
    BY <1>0, <1>3
  <2>3. rest \in [1..Len(l) -> S]
    BY <1>0, <1>3, <2>2
  <2>4. rest \in Seq(S)
    BY <1>0, <2>3, SeqDef
  <2> QED
    BY <2>4
<1>6. /\ r \in Seq(S) /\ DOMAIN r = 1..(Len(l) + 1)
      /\ \A j \in 1..(Len(l) + 1) :
           r[j] = IF j < n THEN rest[j] ELSE IF j = n THEN e ELSE rest[j-1]
  BY <1>1, <1>2, <1>4, <1>5, InsertAtFacts
<1>7. ASSUME NEW k \in 1..(Len(l) + 1)
      PROVE  \/ k = n /\ r[k].pid = p
             \/ \E j \in 1..Len(l) : /\ r[k] = rest[j] /\ k # n
                                     /\ j = (IF k < n THEN k ELSE k - 1)
  <2>1. CASE k = n
    BY <1>1, <1>2, <1>6, <2>1
  <2>2. CASE k # n
    <3>1. (IF k < n THEN k ELSE k - 1) \in 1..Len(l)
      BY <1>0, <1>1, <2>2
    <3> QED
      BY <1>0, <1>1, <1>6, <2>2, <3>1
  <2> QED
    BY <2>1, <2>2
<1>8. Pids(r) = Pids(l) \cup {p}
  <2>1. ASSUME NEW k \in 1..(Len(l) + 1) PROVE r[k].pid \in Pids(l) \cup {p}
    BY <1>0, <1>3, <1>7 DEF Pids
  <2>2. p \in Pids(r)
    BY <1>1, <1>2, <1>6 DEF Pids
  <2>3. ASSUME NEW i \in 1..Len(l) PROVE l[i].pid \in Pids(r)
    <3> DEFINE k == IF i < n THEN i ELSE i + 1
    <3>1. k \in 1..(Len(l) + 1) /\ r[k] = rest[i]
      BY <1>0, <1>1, <1>6
    <3> QED
      BY <1>0, <1>3, <1>6, <3>1 DEF Pids
  <2> QED
    BY <1>0, <1>6, <2>1, <2>2, <2>3 DEF Pids
<1>9. Distinct(r)
  <2> SUFFICES ASSUME NEW i \in 1..(Len(l) + 1), NEW j \in 1..(Len(l) + 1),
                      r[i].pid = r[j].pid
               PROVE  i = j
    BY <1>6 DEF Distinct
  <2>1. \A x \in 1..Len(l) : rest[x].pid # p
    BY <1>0, <1>3 DEF Pids
  <2>2. \A x, y \in 1..Len(l) : rest[x].pid = rest[y].pid => x = y
    BY <1>0, <1>3, <1>4 DEF Distinct
  <2>3. CASE i = n \/ j = n
    BY <1>7, <2>1, <2>3
  <2>4. CASE i # n /\ j # n
    <3>1. (IF i < n THEN i ELSE i - 1) = (IF j < n THEN j ELSE j - 1)
      BY <1>7, <2>2, <2>4
    <3> QED
      BY <1>0, <1>1, <2>4, <3>1
  <2> QED
    BY <2>3, <2>4
<1> QED
  BY <1>6, <1>8, <1>9, SeqIsList DEF r

(* unsleep.c takes the process off the queue. *)
LEMMA DequeueDFacts ==
  ASSUME NEW l, IsList(l), NEW p \in Pids(l), Distinct(l)
  PROVE  /\ IsList(DequeueD(l, p))
         /\ Distinct(DequeueD(l, p))
         /\ Pids(DequeueD(l, p)) = Pids(l) \ {p}
<1> DEFINE n == PosOf(l, p)
           rest == [j \in DOMAIN l |-> IF j = n + 1
                                       THEN Entry(l[j].pid, l[j].key + l[n].key)
                                       ELSE l[j]]
<1>1. /\ DOMAIN rest = DOMAIN l /\ rest = [i \in DOMAIN l |-> rest[i]]
      /\ \A i \in DOMAIN l : rest[i].pid = l[i].pid
  BY DEF Entry
<1>2. DequeueD(l, p) = RemoveAt(rest, n)
  BY DEF DequeueD
<1> HIDE DEF rest
<1>3. IsList(rest) /\ Pids(rest) = Pids(l) /\ Distinct(rest)
  BY <1>1, SamePids
<1>4. PosOf(rest, p) = n
  <2>1. \A i \in DOMAIN l : i = n <=> l[i].pid = p
    <3>1. \E i \in DOMAIN l : l[i].pid = p
      BY DEF Pids
    <3> QED
      BY <3>1 DEF PosOf, Distinct
  <2>2. \E i \in DOMAIN rest : rest[i].pid = p
    BY <1>3 DEF Pids
  <2> QED
    BY <1>1, <2>1, <2>2 DEF PosOf
<1>5. DequeueD(l, p) = Dequeue(rest, p)
  BY <1>2, <1>4 DEF Dequeue
<1>6. rest \in Seq({rest[i] : i \in DOMAIN rest})
  BY <1>3 DEF IsList
<1> QED
  BY <1>3, <1>5, <1>6, DequeueFacts, SeqIsList

(* wakeup.c's getfirst: the first process leaves the queue. *)
LEMMA TailListFacts ==
  ASSUME NEW l, IsList(l), l # <<>>, Distinct(l)
  PROVE  /\ IsList(Tail(l))
         /\ Distinct(Tail(l))
         /\ Head(l).pid \in Pids(l)
         /\ Pids(Tail(l)) = Pids(l) \ {Head(l).pid}
<1> DEFINE S == {l[i] : i \in DOMAIN l}
           n == Len(l)
           r == Tail(l)
<1>0. n \in Nat \ {0} /\ DOMAIN l = 1..n /\ l \in Seq(S) /\ Head(l) = l[1] /\ 1 \in 1..n
  <2>1. l \in Seq(S)
    BY DEF IsList
  <2> HIDE DEF S
  <2> QED
    BY <2>1
<1>1. r \in Seq(S) /\ DOMAIN r = 1..(n - 1) /\ \A j \in 1..(n - 1) : r[j] = l[j+1]
  <2> HIDE DEF S
  <2>1. r \in Seq(S) /\ Len(r) = n - 1 /\ \A j \in 1..Len(r) : r[j] = l[j+1]
    BY <1>0, HeadTailProperties
  <2> QED
    BY <2>1
<1>2. \A j \in 1..(n - 1) : j + 1 \in 1..n /\ j + 1 # 1
  BY <1>0
<1> HIDE DEF S, n, r
<1>3. Distinct(r)
  <2> SUFFICES ASSUME NEW i \in 1..(n - 1), NEW j \in 1..(n - 1), r[i].pid = r[j].pid
               PROVE  i = j
    BY <1>1 DEF Distinct
  <2>1. i + 1 \in DOMAIN l /\ j + 1 \in DOMAIN l /\ l[i+1].pid = l[j+1].pid
    BY <1>0, <1>1, <1>2
  <2>2. i + 1 = j + 1
    BY <2>1 DEF Distinct
  <2> QED
    BY <1>0, <2>2
<1>4. Pids(r) = Pids(l) \ {l[1].pid}
  <2>1. ASSUME NEW k \in 1..(n - 1) PROVE r[k].pid \in Pids(l) \ {l[1].pid}
    <3>1. k + 1 \in DOMAIN l /\ 1 \in DOMAIN l /\ k + 1 # 1 /\ r[k] = l[k+1]
      BY <1>0, <1>1, <1>2
    <3>2. l[k+1].pid # l[1].pid
      BY <3>1 DEF Distinct
    <3>3. l[k+1].pid \in Pids(l)
      BY <3>1 DEF Pids
    <3> QED
      BY <3>1, <3>2, <3>3
  <2>2. ASSUME NEW i \in 1..n, l[i].pid # l[1].pid PROVE l[i].pid \in Pids(r)
    <3>1. i - 1 \in 1..(n - 1) /\ (i - 1) + 1 = i
      BY <1>0, <2>2
    <3> QED
      BY <1>1, <3>1 DEF Pids
  <2> QED
    BY ZenonT(60), <1>0, <1>1, <2>1, <2>2 DEF Pids
<1>5. l[1].pid \in Pids(l)
  BY <1>0 DEF Pids
<1> QED
  BY <1>0, <1>1, <1>3, <1>4, <1>5, SeqIsList DEF r

------------------------------------------------------------------------------
(***************************************************************************)
(* Semaphore queues.                                                       *)
(***************************************************************************)

(* queue.c's enqueue at the tail. *)
LEMMA AppendQueueFacts ==
  ASSUME NEW S, NEW q \in Seq(S), NEW p \in S, IsInjective(q), p \notin ToSet(q)
  PROVE  /\ Append(q, p) \in Seq(S) /\ Len(Append(q, p)) = Len(q) + 1
         /\ IsInjective(Append(q, p))
         /\ ToSet(Append(q, p)) = ToSet(q) \cup {p}
<1> DEFINE r == Append(q, p)
           n == Len(q)
<1>0. n \in Nat /\ DOMAIN q = 1..n
  OBVIOUS
<1>1. /\ r \in Seq(S) /\ Len(r) = n + 1 /\ DOMAIN r = 1..(n + 1)
      /\ \A i \in 1..n : r[i] = q[i]
      /\ r[n+1] = p
  BY AppendProperties
<1>2. \A i \in 1..(n + 1) : i \in 1..n \/ i = n + 1
  BY <1>0
<1>3. \A i \in 1..n : i \in 1..(n + 1)
  BY <1>0
<1>4. n + 1 \in 1..(n + 1)
  BY <1>0
<1> HIDE DEF r, n
<1>5. IsInjective(r)
  <2> SUFFICES ASSUME NEW i \in 1..(n + 1), NEW j \in 1..(n + 1), r[i] = r[j]
               PROVE  i = j
    BY <1>1 DEF IsInjective
  <2>1. \A k \in 1..n : q[k] # p
    BY <1>0 DEF ToSet
  <2> QED
    BY <1>0, <1>1, <1>2, <2>1 DEF IsInjective
<1>6. ToSet(r) = ToSet(q) \cup {p}
  BY <1>0, <1>1, <1>2, <1>3, <1>4 DEF ToSet
<1> QED
  BY <1>1, <1>5, <1>6 DEF r, n

(* queue.c's getfirst. *)
LEMMA TailQueueFacts ==
  ASSUME NEW S, NEW q \in Seq(S), q # <<>>, IsInjective(q)
  PROVE  /\ Tail(q) \in Seq(S) /\ Len(Tail(q)) = Len(q) - 1 /\ Len(q) \in Nat \ {0}
         /\ Head(q) \in ToSet(q) /\ Head(q) \in S
         /\ IsInjective(Tail(q))
         /\ ToSet(Tail(q)) = ToSet(q) \ {Head(q)}
<1> DEFINE n == Len(q)
           r == Tail(q)
<1>0. n \in Nat \ {0} /\ DOMAIN q = 1..n /\ Head(q) = q[1] /\ 1 \in 1..n /\ q[1] \in S
  OBVIOUS
<1>1. /\ r \in Seq(S) /\ Len(r) = n - 1 /\ DOMAIN r = 1..(n - 1)
      /\ \A j \in 1..(n - 1) : r[j] = q[j+1]
  BY <1>0, HeadTailProperties
<1>2. \A j \in 1..(n - 1) : j + 1 \in 1..n /\ j + 1 # 1
  BY <1>0
<1> HIDE DEF n, r
<1>3. IsInjective(r)
  <2> SUFFICES ASSUME NEW i \in 1..(n - 1), NEW j \in 1..(n - 1), r[i] = r[j]
               PROVE  i = j
    BY <1>1 DEF IsInjective
  <2>1. i + 1 \in DOMAIN q /\ j + 1 \in DOMAIN q /\ q[i+1] = q[j+1]
    BY <1>0, <1>1, <1>2
  <2>2. i + 1 = j + 1
    BY <2>1 DEF IsInjective
  <2> QED
    BY <1>0, <2>2
<1>4. ToSet(r) = ToSet(q) \ {q[1]}
  <2>1. ASSUME NEW k \in 1..(n - 1) PROVE r[k] \in ToSet(q) \ {q[1]}
    <3>1. k + 1 \in DOMAIN q /\ 1 \in DOMAIN q /\ k + 1 # 1 /\ r[k] = q[k+1]
      BY <1>0, <1>1, <1>2
    <3>2. q[k+1] # q[1]
      BY <3>1 DEF IsInjective
    <3>3. q[k+1] \in ToSet(q)
      BY <3>1 DEF ToSet
    <3> QED
      BY <3>1, <3>2, <3>3
  <2>2. ASSUME NEW i \in 1..n, q[i] # q[1] PROVE q[i] \in ToSet(r)
    <3>1. i - 1 \in 1..(n - 1) /\ (i - 1) + 1 = i
      BY <1>0, <2>2
    <3> QED
      BY <1>1, <3>1 DEF ToSet
  <2> QED
    BY ZenonT(60), <1>0, <1>1, <2>1, <2>2 DEF ToSet
<1>5. q[1] \in ToSet(q)
  BY <1>0 DEF ToSet
<1> QED
  BY <1>0, <1>1, <1>3, <1>4, <1>5 DEF r, n

(* queue.c's dequeue, on a semaphore queue. *)
LEMMA DequeueSemFacts ==
  ASSUME NEW S, NEW q \in Seq(S), NEW p \in ToSet(q), IsInjective(q)
  PROVE  /\ DequeueSem(q, p) \in Seq(S)
         /\ Len(DequeueSem(q, p)) = Len(q) - 1 /\ Len(q) \in Nat \ {0}
         /\ IsInjective(DequeueSem(q, p))
         /\ ToSet(DequeueSem(q, p)) = ToSet(q) \ {p}
<1> DEFINE m == CHOOSE i \in DOMAIN q : q[i] = p
           r == DequeueSem(q, p)
           n == Len(q)
<1>0. n \in Nat /\ DOMAIN q = 1..n
  OBVIOUS
<1>1. m \in 1..n /\ q[m] = p
  <2>1. \E i \in DOMAIN q : q[i] = p
    BY DEF ToSet
  <2> QED
    BY <1>0, <2>1
<1>2. \A i \in 1..n : q[i] = p => i = m
  BY <1>0, <1>1 DEF IsInjective
<1>3. r = RemoveAt(q, m)
  BY DEF DequeueSem
<1> HIDE DEF m, r
<1>4. /\ r \in Seq(S) /\ Len(r) = n - 1 /\ DOMAIN r = 1..(n - 1)
      /\ \A j \in 1..(n - 1) : r[j] = IF j < m THEN q[j] ELSE q[j+1]
  BY <1>1, <1>3, RemoveAtFacts
<1> HIDE DEF n
<1>5. ASSUME NEW k \in 1..(n - 1)
      PROVE  \E j \in 1..n : r[k] = q[j] /\ j # m /\ j = (IF k < m THEN k ELSE k + 1)
  <2>1. /\ (IF k < m THEN k ELSE k + 1) \in 1..n
        /\ (IF k < m THEN k ELSE k + 1) # m
    BY <1>0, <1>1
  <2> QED
    BY <1>0, <1>1, <1>4, <2>1
<1>6. ToSet(r) = ToSet(q) \ {p}
  <2>1. ASSUME NEW k \in 1..(n - 1) PROVE r[k] \in ToSet(q) \ {p}
    BY <1>0, <1>2, <1>5 DEF ToSet
  <2>2. ASSUME NEW i \in 1..n, q[i] # p PROVE q[i] \in ToSet(r)
    <3> DEFINE k == IF i < m THEN i ELSE i - 1
    <3>0. i # m
      BY <1>1, <2>2
    <3>1. k \in 1..(n - 1) /\ r[k] = q[i]
      BY <1>0, <1>1, <1>4, <3>0
    <3> QED
      BY <1>4, <3>1 DEF ToSet
  <2> QED
    BY <1>0, <1>4, <2>1, <2>2 DEF ToSet
<1>7. IsInjective(r)
  <2> SUFFICES ASSUME NEW i \in 1..(n - 1), NEW j \in 1..(n - 1), r[i] = r[j]
               PROVE  i = j
    BY <1>4 DEF IsInjective
  <2>1. (IF i < m THEN i ELSE i + 1) = (IF j < m THEN j ELSE j + 1)
    BY <1>0, <1>5 DEF IsInjective
  <2> QED
    BY <1>0, <1>1, <2>1
<1>8. n # 0
  BY <1>0, <1>1
<1> QED
  BY <1>0, <1>4, <1>6, <1>7, <1>8 DEF r, n

------------------------------------------------------------------------------
(***************************************************************************)
(* Delta lists: the sums of the keys.  That the sums exist, and that they  *)
(* are what the recursion says, is shown for the least length or index for *)
(* which it would fail.                                                    *)
(***************************************************************************)

(* f is the sum of the keys of l, up to the m-th entry. *)
PartSum(l, m, f) ==
  /\ f \in [0..m -> Int] /\ f[0] = 0
  /\ \A i \in 1..m : f[i] = f[i-1] + l[i].key

LEMMA KeysAreInt ==
  ASSUME NEW S, NEW l \in Seq(Entries(S))
  PROVE  /\ Len(l) \in Nat /\ DOMAIN l = 1..Len(l)
         /\ \A i \in 1..Len(l) : l[i] \in Entries(S) /\ l[i].key \in Int /\ l[i].pid \in S
<1>1. Len(l) \in Nat /\ DOMAIN l = 1..Len(l) /\ \A i \in 1..Len(l) : l[i] \in Entries(S)
  OBVIOUS
<1> QED
  BY <1>1 DEF Entries

LEMMA PartSumExists ==
  ASSUME NEW S, NEW l \in Seq(Entries(S)), NEW m \in 0..Len(l)
  PROVE  \E f : PartSum(l, m, f)
<1> DEFINE T == {k \in 0..Len(l) : ~ \E f : PartSum(l, k, f)}
<1>0. Len(l) \in Nat /\ T \subseteq Nat /\ \A i \in 1..Len(l) : l[i].key \in Int
  BY KeysAreInt
<1> SUFFICES ASSUME T # {} PROVE FALSE
  OBVIOUS
<1>1. PICK k \in T : \A j \in T : k <= j
  BY <1>0, MinNat
<1>2. k \in 0..Len(l) /\ ~ \E f : PartSum(l, k, f)
  OBVIOUS
<1>3. CASE k = 0
  <2>1. PartSum(l, 0, [i \in 0..0 |-> 0])
    BY DEF PartSum
  <2> QED
    BY <1>2, <1>3, <2>1
<1>4. CASE k # 0
  <2>0. k - 1 \in 0..Len(l) /\ k \in 1..Len(l) /\ ~(k <= k - 1)
    BY <1>0, <1>2, <1>4
  <2>1. k - 1 \in 0..Len(l) /\ k \in 1..Len(l) /\ k - 1 \notin T
    BY <1>1, <2>0
  <2>2. PICK f : PartSum(l, k - 1, f)
    BY <2>1
  <2>a. l[k].key \in Int /\ f[k-1] \in Int
    BY <1>0, <2>1, <2>2 DEF PartSum
  <2> DEFINE g == [i \in 0..k |-> IF i = k THEN f[k-1] + l[k].key ELSE f[i]]
  <2>3. PartSum(l, k, g)
    <3>1. g \in [0..k -> Int] /\ g[0] = 0
      BY SMTT(60), <2>1, <2>2, <2>a DEF PartSum
    <3>2. ASSUME NEW i \in 1..k PROVE g[i] = g[i-1] + l[i].key
      BY SMTT(60), <2>1, <2>2, <2>a DEF PartSum
    <3> QED
      BY <3>1, <3>2 DEF PartSum
  <2> QED
    BY <1>2, <2>3
<1> QED
  BY <1>3, <1>4

(* The sums that DeltaSum defines by recursion exist. *)
LEMMA DeltaSumFacts ==
  ASSUME NEW S, NEW l \in Seq(Entries(S))
  PROVE  PartSum(l, Len(l), DeltaSum(l))
<1> DEFINE E(f) == [i \in 0..Len(l) |-> IF i = 0 THEN 0 ELSE f[i-1] + l[i].key]
<1>0. Len(l) \in Nat /\ \A i \in 1..Len(l) : l[i].key \in Int
  BY KeysAreInt
<1>1. PICK f : PartSum(l, Len(l), f)
  BY <1>0, PartSumExists
<1>2. f = E(f)
  BY <1>0, <1>1 DEF PartSum
<1>3. DeltaSum(l) = CHOOSE g : g = E(g)
  BY DEF DeltaSum
<1>4. PICK g : g = DeltaSum(l)
  OBVIOUS
<1>5. g = E(g)
  BY <1>2, <1>3, <1>4
<1>6. ASSUME NEW i \in 0..Len(l) PROVE g[i] = f[i]
  <2> DEFINE T == {j \in 0..Len(l) : g[j] # f[j]}
  <2> SUFFICES ASSUME T # {} PROVE FALSE
    OBVIOUS
  <2>1. T \subseteq Nat
    BY <1>0
  <2>2. PICK k \in T : \A j \in T : k <= j
    BY <2>1, MinNat
  <2>3. k \in 0..Len(l) /\ g[k] # f[k]
    OBVIOUS
  <2>4. g[0] = 0 /\ f[0] = 0
    BY <1>0, <1>1, <1>5 DEF PartSum
  <2>5. k # 0
    BY <2>3, <2>4
  <2>6. k - 1 \in 0..Len(l) /\ k \in 1..Len(l) /\ k - 1 \notin T
    BY <1>0, <2>2, <2>3, <2>5
  <2>7. g[k-1] = f[k-1]
    BY <2>6
  <2>8. g[k] = g[k-1] + l[k].key
    BY <1>5, <2>3, <2>5
  <2>9. f[k] = f[k-1] + l[k].key
    BY <1>1, <2>6 DEF PartSum
  <2> QED
    BY <2>3, <2>7, <2>8, <2>9
<1>7. DOMAIN g = 0..Len(l) /\ g = [i \in 0..Len(l) |-> g[i]]
  <2> HIDE DEF E
  <2>1. E(g) = [i \in 0..Len(l) |-> E(g)[i]] /\ DOMAIN E(g) = 0..Len(l)
    BY DEF E
  <2> QED
    BY <1>5, <2>1
<1>8. f = g
  BY <1>1, <1>6, <1>7 DEF PartSum
<1> QED
  BY <1>1, <1>4, <1>8

LEMMA PartSumUnique ==
  ASSUME NEW S, NEW l \in Seq(Entries(S)), NEW f, PartSum(l, Len(l), f)
  PROVE  DeltaSum(l) = f
<1> DEFINE g == DeltaSum(l)
           T == {j \in 0..Len(l) : g[j] # f[j]}
<1>0. Len(l) \in Nat /\ T \subseteq Nat /\ PartSum(l, Len(l), g)
  BY KeysAreInt, DeltaSumFacts
<1> HIDE DEF g
<1>1. ASSUME T # {} PROVE FALSE
  <2>1. PICK k \in T : \A j \in T : k <= j
    BY <1>0, <1>1, MinNat
  <2>2. k \in 0..Len(l) /\ g[k] # f[k]
    OBVIOUS
  <2>3. k # 0
    BY <1>0, <2>2 DEF PartSum
  <2>4. k - 1 \in 0..Len(l) /\ k \in 1..Len(l) /\ k - 1 \notin T
    BY <1>0, <2>1, <2>2, <2>3
  <2>5. g[k-1] = f[k-1]
    BY <2>4
  <2>6. g[k] = g[k-1] + l[k].key /\ f[k] = f[k-1] + l[k].key
    BY <1>0, <2>4 DEF PartSum
  <2> QED
    BY <2>2, <2>5, <2>6
<1>2. \A j \in 0..Len(l) : g[j] = f[j]
  BY <1>1
<1>3. g \in [0..Len(l) -> Int] /\ f \in [0..Len(l) -> Int]
  BY <1>0 DEF PartSum
<1> QED
  BY <1>2, <1>3 DEF g

(* No delta is negative, so that the sums do not decrease. *)
NonNeg(l) == \A i \in DOMAIN l : l[i].key >= 0

LEMMA DeltaPosFacts ==
  ASSUME NEW S, NEW l \in Seq(Entries(S)), NEW key \in Int
  PROVE  /\ DeltaPos(l, key) \in 1..(Len(l) + 1)
         /\ DeltaPos(l, key) <= Len(l) => DeltaSum(l)[DeltaPos(l, key)] >= key
         /\ \A j \in 1..(DeltaPos(l, key) - 1) : DeltaSum(l)[j] < key
<1> DEFINE T == {i \in DOMAIN l : DeltaSum(l)[i] >= key} \cup {Len(l) + 1}
           n == DeltaPos(l, key)
           d == DeltaSum(l)
<1>0. Len(l) \in Nat /\ DOMAIN l = 1..Len(l)
  BY KeysAreInt
<1>a. d \in [0..Len(l) -> Int]
  BY DeltaSumFacts DEF PartSum
<1>1. T \subseteq Nat /\ T # {} /\ T \subseteq 1..(Len(l) + 1)
  BY <1>0
<1>2. n = Min(T)
  BY DEF DeltaPos
<1>3. n \in T /\ \A y \in T : n <= y
  BY <1>1, <1>2, MinNat
<1> HIDE DEF n
<1>4. n <= Len(l) => d[n] >= key
  BY <1>0, <1>3
<1> HIDE DEF d
<1>5. ASSUME NEW j \in 1..(n - 1) PROVE d[j] < key
  <2>1. j \in 1..Len(l) /\ j \notin T
    BY <1>0, <1>1, <1>3
  <2>2. ~(d[j] >= key) /\ d[j] \in Int
    BY <1>0, <1>a, <2>1 DEF d
  <2> QED
    BY <2>2
<1> QED
  BY <1>1, <1>3, <1>4, <1>5 DEF n, d

(* insertd.c: the new process expires after `key' ticks, and every other    *)
(* when it would have.                                                      *)
LEMMA DeltaInsert ==
  ASSUME NEW S, NEW l \in Seq(Entries(S)), NEW p \in S, NEW key \in Nat, NonNeg(l)
  PROVE  LET r == InsertD(l, p, key)
         IN  /\ r \in Seq(Entries(S)) /\ r # <<>> /\ NonNeg(r)
             /\ \A j \in 1..Len(r) :
                  \/ r[j].pid = p /\ DeltaSum(r)[j] = key
                  \/ \E i \in 1..Len(l) : /\ r[j].pid = l[i].pid
                                          /\ DeltaSum(r)[j] = DeltaSum(l)[i]
<1> DEFINE n == DeltaPos(l, key)
           d == DeltaSum(l)
           left == key - d[n-1]
           rest == [j \in DOMAIN l |-> IF j = n THEN Entry(l[j].pid, l[j].key - left)
                                       ELSE l[j]]
           e == Entry(p, left)
           r == InsertD(l, p, key)
           L == Len(l)
<1>0. /\ L \in Nat /\ DOMAIN l = 1..L
      /\ \A i \in 1..L : l[i] \in Entries(S) /\ l[i].key \in Int /\ l[i].pid \in S
  BY KeysAreInt
<1>1. /\ d \in [0..L -> Int] /\ d[0] = 0
      /\ \A i \in 1..L : d[i] = d[i-1] + l[i].key
  BY DeltaSumFacts DEF PartSum
<1>2. /\ n \in 1..(L + 1) /\ (n <= L => d[n] >= key)
      /\ \A j \in 1..(n - 1) : d[j] < key
  BY DeltaPosFacts
<1>3. r = InsertAt(rest, n, e)
  BY DEF InsertD
<1> HIDE DEF n, d, r
<1>4. left \in Nat /\ d[n-1] \in Int
  <2>1. n - 1 \in 0..L /\ d[n-1] \in Int
    BY <1>0, <1>1, <1>2
  <2>2. CASE n = 1
    BY <1>1, <2>2
  <2>3. CASE n # 1
    <3>1. n - 1 \in 1..(n - 1)
      BY <1>2, <2>3
    <3>2. d[n-1] < key
      BY <1>2, <3>1
    <3> QED
      BY <2>1, <3>2
  <2> QED
    BY <2>1, <2>2, <2>3
<1>5. n <= L => l[n].key - left >= 0 /\ l[n].key - left \in Int
  <2> SUFFICES ASSUME n <= L PROVE l[n].key - left >= 0 /\ l[n].key - left \in Int
    OBVIOUS
  <2>1. n \in 1..L
    BY <1>0, <1>2
  <2>2. d[n] = d[n-1] + l[n].key /\ d[n] >= key /\ d[n] \in Int /\ l[n].key \in Int
    BY <1>0, <1>1, <1>2, <2>1
  <2> QED
    BY <1>4, <2>2
<1> HIDE DEF left
<1>6. e \in Entries(S) /\ e.pid = p /\ e.key = left
  BY <1>4 DEF Entry, Entries
<1>7. /\ DOMAIN rest = 1..L
      /\ \A j \in 1..L : /\ rest[j] \in Entries(S) /\ rest[j].pid = l[j].pid
                         /\ rest[j].key = IF j = n THEN l[j].key - left ELSE l[j].key
  <2>1. ASSUME NEW j \in 1..L, j = n
        PROVE  Entry(l[j].pid, l[j].key - left) \in Entries(S)
    BY <1>0, <1>4, <2>1 DEF Entry, Entries
  <2>2. ASSUME NEW j \in 1..L
        PROVE  /\ rest[j] \in Entries(S) /\ rest[j].pid = l[j].pid
               /\ rest[j].key = IF j = n THEN l[j].key - left ELSE l[j].key
    <3>1. CASE j = n
      <4>1. rest[j] = Entry(l[j].pid, l[j].key - left)
        BY <1>0, <3>1
      <4> QED
        BY <2>1, <3>1, <4>1 DEF Entry
    <3>2. CASE j # n
      <4>1. rest[j] = l[j]
        BY <1>0, <3>2
      <4> QED
        BY <1>0, <3>2, <4>1
    <3> QED
      BY <3>1, <3>2
  <2> QED
    BY <1>0, <2>2
<1>8. rest \in Seq(Entries(S)) /\ Len(rest) = L
  <2>1. rest = [j \in 1..L |-> rest[j]]
    BY <1>0
  <2> HIDE DEF rest
  <2>2. rest \in [1..L -> Entries(S)]
    BY <1>7, <2>1
  <2> QED
    BY <1>0, <2>2, SeqDef, LenProperties
<1> HIDE DEF rest, e
<1>9. /\ r \in Seq(Entries(S)) /\ Len(r) = L + 1 /\ DOMAIN r = 1..(L + 1)
      /\ \A j \in 1..(L + 1) :
           r[j] = IF j < n THEN rest[j] ELSE IF j = n THEN e ELSE rest[j-1]
  <2>1. PICK E : E = Entries(S)
    OBVIOUS
  <2>2. rest \in Seq(E) /\ e \in E /\ n \in 1..(Len(rest) + 1)
    BY <1>2, <1>6, <1>8, <2>1
  <2> HIDE DEF L
  <2>3. /\ InsertAt(rest, n, e) \in Seq(E)
        /\ Len(InsertAt(rest, n, e)) = Len(rest) + 1
        /\ DOMAIN InsertAt(rest, n, e) = 1..(Len(rest) + 1)
    BY <2>2, InsertAtFacts
  <2>4. ASSUME NEW j \in 1..(Len(rest) + 1)
        PROVE  InsertAt(rest, n, e)[j] = IF j < n THEN rest[j]
                                         ELSE IF j = n THEN e ELSE rest[j-1]
    BY <2>2, InsertAtFacts
  <2> QED
    BY <1>3, <1>8, <2>1, <2>3, <2>4
<1>10. NonNeg(r)
  <2> SUFFICES ASSUME NEW j \in 1..(L + 1) PROVE r[j].key >= 0
    BY <1>9 DEF NonNeg
  <2>0. \A i \in 1..L : rest[i].key >= 0
    BY <1>0, <1>5, <1>7 DEF NonNeg
  <2>1. CASE j < n
    <3>1. j \in 1..L
      BY <1>0, <1>2, <2>1
    <3> QED
      BY <1>9, <2>0, <2>1, <3>1
  <2>2. CASE j = n
    BY <1>4, <1>6, <1>9, <2>2
  <2>3. CASE j > n
    <3>1. j - 1 \in 1..L
      BY <1>0, <1>2, <2>3
    <3>2. r[j] = rest[j-1]
      BY <1>2, <1>9, <2>3
    <3> QED
      BY <2>0, <3>1, <3>2
  <2> QED
    BY <1>2, <2>1, <2>2, <2>3
<1> DEFINE f == [j \in 0..(L + 1) |-> IF j < n THEN d[j] ELSE IF j = n THEN key ELSE d[j-1]]
<1>11. PartSum(r, L + 1, f)
  <2>1. f \in [0..(L + 1) -> Int]
    <3> SUFFICES ASSUME NEW j \in 0..(L + 1)
                 PROVE  (IF j < n THEN d[j] ELSE IF j = n THEN key ELSE d[j-1]) \in Int
      OBVIOUS
    <3>1. j < n => j \in 0..L
      BY <1>0, <1>2
    <3>2. j > n => j - 1 \in 0..L
      BY <1>0, <1>2
    <3>3. (j < n => d[j] \in Int) /\ (j > n => d[j-1] \in Int)
      BY <1>1, <3>1, <3>2
    <3> QED
      BY <1>2, <3>3
  <2>2. f[0] = 0
    BY <1>0, <1>1, <1>2
  <2>3. ASSUME NEW j \in 1..(L + 1) PROVE f[j] = f[j-1] + r[j].key
    <3>0. j - 1 \in 0..(L + 1) /\ j \in 0..(L + 1)
      BY <1>0
    <3>1. CASE j < n
      <4>1. j \in 1..L /\ f[j] = d[j] /\ f[j-1] = d[j-1] /\ r[j] = rest[j]
        BY <1>0, <1>2, <1>9, <3>0, <3>1
      <4> QED
        BY <1>1, <1>7, <3>1, <4>1
    <3>2. CASE j = n
      <4>1. f[j] = key /\ f[j-1] = d[n-1] /\ r[j].key = left
        BY <1>0, <1>2, <1>6, <1>9, <3>0, <3>2
      <4> QED
        BY <1>4, <4>1 DEF left
    <3>3. CASE j = n + 1
      <4>1. n \in 1..L /\ j - 1 = n /\ r[j] = rest[n] /\ f[j] = d[n] /\ f[j-1] = key
        BY <1>0, <1>2, <1>9, <3>0, <3>3
      <4>2. rest[n].key = l[n].key - left /\ d[n] = d[n-1] + l[n].key /\ l[n].key \in Int
        BY <1>0, <1>1, <1>7, <4>1
      <4> QED
        BY SMTT(60), <1>4, <4>1, <4>2 DEF left
    <3>4. CASE j > n + 1
      <4>1. /\ j - 1 \in 1..L /\ j - 1 # n /\ r[j] = rest[j-1] /\ f[j] = d[j-1]
            /\ f[j-1] = d[j-1-1]
        BY <1>0, <1>2, <1>9, <3>0, <3>4
      <4>2. r[j].key = l[j-1].key /\ d[j-1] = d[j-1-1] + l[j-1].key
        BY <1>1, <1>7, <4>1
      <4> QED
        BY <4>1, <4>2
    <3> QED
      BY <1>2, <3>1, <3>2, <3>3, <3>4
  <2> HIDE DEF f
  <2> QED
    BY <2>1, <2>2, <2>3 DEF PartSum
<1>12. DeltaSum(r) = f
  <2> HIDE DEF f
  <2> QED
    BY <1>9, <1>11, PartSumUnique
<1>13. ASSUME NEW j \in 1..Len(r)
       PROVE  \/ r[j].pid = p /\ DeltaSum(r)[j] = key
              \/ \E i \in 1..Len(l) : r[j].pid = l[i].pid /\ DeltaSum(r)[j] = d[i]
  <2>0. j \in 1..(L + 1) /\ j \in 0..(L + 1)
    BY <1>0, <1>9
  <2>1. CASE j < n
    <3>1. j \in 1..L /\ f[j] = d[j] /\ r[j] = rest[j]
      BY <1>0, <1>2, <1>9, <2>0, <2>1
    <3> HIDE DEF f
    <3> QED
      BY <1>7, <1>12, <3>1
  <2>2. CASE j = n
    <3>1. f[j] = key /\ r[j] = e
      BY <1>0, <1>2, <1>9, <2>0, <2>2
    <3> HIDE DEF f
    <3> QED
      BY <1>6, <1>12, <3>1
  <2>3. CASE j > n
    <3>1. j - 1 \in 1..L /\ f[j] = d[j-1] /\ r[j] = rest[j-1]
      BY <1>0, <1>2, <1>9, <2>0, <2>3
    <3> HIDE DEF f
    <3> QED
      BY <1>7, <1>12, <3>1
  <2> QED
    BY <1>2, <2>0, <2>1, <2>2, <2>3
<1>14. r # <<>>
  BY <1>0, <1>9
<1> QED
  BY <1>9, <1>10, <1>13, <1>14 DEF r, d

(* A list made of entries, element by element. *)
LEMMA EntriesList ==
  ASSUME NEW S, NEW n \in Nat, NEW r, DOMAIN r = 1..n, r = [j \in 1..n |-> r[j]],
         \A j \in 1..n : r[j] \in Entries(S)
  PROVE  r \in Seq(Entries(S)) /\ Len(r) = n
<1>1. r \in [1..n -> Entries(S)]
  OBVIOUS
<1> QED
  BY <1>1, SeqDef, LenProperties

LEMMA EntryIn ==
  ASSUME NEW S, NEW p \in S, NEW key \in Int
  PROVE  Entry(p, key) \in Entries(S) /\ Entry(p, key).pid = p /\ Entry(p, key).key = key
BY DEF Entry, Entries

(* unsleep.c: every other process expires when it would have. *)
LEMMA DeltaDequeue ==
  ASSUME NEW S, NEW l \in Seq(Entries(S)), NEW p \in Pids(l), Distinct(l)
  PROVE  LET r == DequeueD(l, p)
         IN  /\ r \in Seq(Entries(S))
             /\ NonNeg(l) => NonNeg(r)
             /\ \A j \in 1..Len(r) :
                  \E i \in 1..Len(l) : /\ r[j].pid = l[i].pid /\ l[i].pid # p
                                       /\ DeltaSum(r)[j] = DeltaSum(l)[i]
<1> DEFINE n == PosOf(l, p)
           d == DeltaSum(l)
           rest == [j \in DOMAIN l |-> IF j = n + 1
                                       THEN Entry(l[j].pid, l[j].key + l[n].key)
                                       ELSE l[j]]
           r == DequeueD(l, p)
           L == Len(l)
<1>0. /\ L \in Nat /\ DOMAIN l = 1..L
      /\ \A i \in 1..L : l[i] \in Entries(S) /\ l[i].key \in Int /\ l[i].pid \in S
  BY KeysAreInt
<1>1. /\ d \in [0..L -> Int] /\ d[0] = 0
      /\ \A i \in 1..L : d[i] = d[i-1] + l[i].key
  BY DeltaSumFacts DEF PartSum
<1>2. n \in 1..L /\ l[n].pid = p /\ \A i \in 1..L : l[i].pid = p => i = n
  <2>1. \E i \in DOMAIN l : l[i].pid = p
    BY DEF Pids
  <2> QED
    BY <1>0, <2>1 DEF PosOf, Distinct
<1>3. r = RemoveAt(rest, n)
  BY DEF DequeueD
<1> HIDE DEF n, d, r
<1>4. /\ DOMAIN rest = 1..L /\ rest = [j \in 1..L |-> rest[j]]
      /\ \A j \in 1..L : /\ rest[j] \in Entries(S) /\ rest[j].pid = l[j].pid
                         /\ rest[j].key = IF j = n + 1 THEN l[j].key + l[n].key ELSE l[j].key
  <2>1. ASSUME NEW j \in 1..L
        PROVE  /\ rest[j] \in Entries(S) /\ rest[j].pid = l[j].pid
               /\ rest[j].key = IF j = n + 1 THEN l[j].key + l[n].key ELSE l[j].key
    <3>1. CASE j = n + 1
      <4>1. rest[j] = Entry(l[j].pid, l[j].key + l[n].key)
        BY <1>0, <3>1
      <4>2. l[j].pid \in S /\ l[j].key + l[n].key \in Int
        BY <1>0, <1>2
      <4> HIDE DEF rest
      <4>3. /\ rest[j] \in Entries(S) /\ rest[j].pid = l[j].pid
            /\ rest[j].key = l[j].key + l[n].key
        BY <4>1, <4>2 DEF Entry, Entries
      <4> QED
        BY <3>1, <4>3
    <3>2. CASE j # n + 1
      <4>1. rest[j] = l[j]
        BY <1>0, <3>2
      <4> QED
        BY <1>0, <3>2, <4>1
    <3> QED
      BY <3>1, <3>2
  <2> QED
    BY <1>0, <2>1
<1> HIDE DEF rest
<1>5. rest \in Seq(Entries(S)) /\ Len(rest) = L
  BY <1>0, <1>4, EntriesList
<1>6. /\ r \in Seq(Entries(S)) /\ Len(r) = L - 1 /\ DOMAIN r = 1..(L - 1)
      /\ \A j \in 1..(L - 1) : r[j] = IF j < n THEN rest[j] ELSE rest[j+1]
  <2>1. PICK E : E = Entries(S)
    OBVIOUS
  <2>2. rest \in Seq(E) /\ n \in 1..Len(rest)
    BY <1>2, <1>5, <2>1
  <2>3. /\ RemoveAt(rest, n) \in Seq(E)
        /\ Len(RemoveAt(rest, n)) = Len(rest) - 1
        /\ DOMAIN RemoveAt(rest, n) = 1..(Len(rest) - 1)
        /\ \A j \in 1..(Len(rest) - 1) :
             RemoveAt(rest, n)[j] = IF j < n THEN rest[j] ELSE rest[j+1]
    BY <2>2, RemoveAtFacts
  <2> QED
    BY <1>3, <1>5, <2>1, <2>3
<1> DEFINE f == [j \in 0..(L - 1) |-> IF j < n THEN d[j] ELSE d[j+1]]
<1>7. ASSUME NEW j \in 1..(L - 1)
      PROVE  \E i \in 1..L : /\ i # n /\ r[j] = rest[i] /\ f[j] = d[i]
                             /\ r[j].pid = l[i].pid
  <2>1. PICK i : i = IF j < n THEN j ELSE j + 1
    OBVIOUS
  <2>2. i \in 1..L /\ i # n /\ j \in 0..(L - 1)
    BY <1>0, <1>2, <2>1
  <2>3. f[j] = d[i]
    BY <2>1, <2>2
  <2>4. r[j] = rest[i]
    BY <1>6, <2>1
  <2>5. rest[i].pid = l[i].pid
    BY <1>4, <2>2
  <2> QED
    BY <2>2, <2>3, <2>4, <2>5
<1>8. PartSum(r, L - 1, f)
  <2>1. f \in [0..(L - 1) -> Int]
    <3> SUFFICES ASSUME NEW j \in 0..(L - 1) PROVE (IF j < n THEN d[j] ELSE d[j+1]) \in Int
      OBVIOUS
    <3>1. j \in 0..L /\ j + 1 \in 0..L
      BY <1>0
    <3> QED
      BY <1>1, <3>1
  <2>2. f[0] = 0
    BY <1>0, <1>1, <1>2
  <2>3. ASSUME NEW j \in 1..(L - 1) PROVE f[j] = f[j-1] + r[j].key
    <3>0. j - 1 \in 0..(L - 1) /\ j \in 0..(L - 1) /\ j \in 1..L /\ j + 1 \in 1..L
      BY <1>0
    <3>1. CASE j < n
      <4>1. f[j] = d[j] /\ f[j-1] = d[j-1] /\ r[j] = rest[j] /\ j # n + 1
        BY <1>2, <1>6, <3>0, <3>1
      <4> QED
        BY <1>1, <1>4, <3>0, <4>1
    <3>2. CASE j = n
      <4>0. PICK k : k = n + 1
        OBVIOUS
      <4>1. f[j] = d[k] /\ f[j-1] = d[n-1] /\ r[j] = rest[k] /\ k \in 1..L /\ k - 1 = n
        BY <1>2, <1>6, <3>0, <3>2, <4>0
      <4>2. rest[k].key = l[k].key + l[n].key /\ l[k].key \in Int /\ l[n].key \in Int
        BY <1>0, <1>2, <1>4, <4>0, <4>1
      <4>3. d[k] = d[n] + l[k].key /\ d[n] = d[n-1] + l[n].key
        BY <1>1, <1>2, <4>1
      <4>4. n - 1 \in 0..L
        BY <1>0, <1>2
      <4>5. d[n-1] \in Int
        BY <1>1, <4>4
      <4> HIDE DEF f
      <4> QED
        BY SMTT(60), <4>1, <4>2, <4>3, <4>5
    <3>3. CASE j > n
      <4>0. PICK k : k = j + 1
        OBVIOUS
      <4>1. /\ f[j] = d[k] /\ f[j-1] = d[j] /\ r[j] = rest[k] /\ k \in 1..L /\ k # n + 1
            /\ k - 1 = j
        BY <1>2, <1>6, <3>0, <3>3, <4>0
      <4>2. rest[k].key = l[k].key /\ d[k] = d[k-1] + l[k].key
        BY <1>1, <1>4, <4>1
      <4> HIDE DEF f
      <4> QED
        BY <4>1, <4>2
    <3> QED
      BY <1>2, <3>1, <3>2, <3>3
  <2> HIDE DEF f
  <2> QED
    BY <2>1, <2>2, <2>3 DEF PartSum
<1>9. DeltaSum(r) = f
  <2> HIDE DEF f
  <2> QED
    BY <1>6, <1>8, PartSumUnique
<1> HIDE DEF f
<1>10. ASSUME NEW j \in 1..Len(r)
       PROVE  \E i \in 1..L : /\ r[j].pid = l[i].pid /\ l[i].pid # p
                              /\ DeltaSum(r)[j] = d[i]
  <2>1. j \in 1..(L - 1)
    BY <1>6
  <2>2. PICK i \in 1..L : i # n /\ f[j] = d[i] /\ r[j].pid = l[i].pid
    BY <1>7, <2>1
  <2> QED
    BY <1>2, <1>9, <2>2
<1>11. ASSUME NonNeg(l) PROVE NonNeg(r)
  <2>0. \A i \in 1..L : rest[i].key >= 0
    <3> SUFFICES ASSUME NEW i \in 1..L PROVE rest[i].key >= 0
      OBVIOUS
    <3>1. l[i].key >= 0 /\ l[n].key >= 0 /\ l[i].key \in Int /\ l[n].key \in Int
      BY <1>0, <1>2, <1>11 DEF NonNeg
    <3>2. rest[i].key = IF i = n + 1 THEN l[i].key + l[n].key ELSE l[i].key
      BY <1>4
    <3> QED
      BY <3>1, <3>2
  <2> SUFFICES ASSUME NEW j \in 1..(L - 1) PROVE r[j].key >= 0
    BY <1>6 DEF NonNeg
  <2> QED
    BY <1>7, <2>0
<1> QED
  BY <1>6, <1>10, <1>11 DEF r, d

(* No sum is smaller than one before it. *)
LEMMA DeltaMonotone ==
  ASSUME NEW S, NEW l \in Seq(Entries(S)), NonNeg(l), NEW i \in 0..Len(l),
         NEW m \in i..Len(l)
  PROVE  DeltaSum(l)[i] <= DeltaSum(l)[m]
<1> DEFINE d == DeltaSum(l)
           L == Len(l)
           T == {j \in i..L : ~(d[i] <= d[j])}
<1>0. /\ L \in Nat /\ DOMAIN l = 1..L
      /\ \A k \in 1..L : l[k].key \in Int /\ l[k].key >= 0
  BY KeysAreInt DEF NonNeg
<1>1. /\ d \in [0..L -> Int] /\ d[0] = 0
      /\ \A k \in 1..L : d[k] = d[k-1] + l[k].key
  BY DeltaSumFacts DEF PartSum
<1> HIDE DEF d
<1>2. T \subseteq Nat
  BY <1>0
<1>3. ASSUME T # {} PROVE FALSE
  <2>1. PICK k \in T : \A j \in T : k <= j
    BY <1>2, <1>3, MinNat
  <2>2. k \in i..L /\ ~(d[i] <= d[k])
    OBVIOUS
  <2>3. k # i
    <3>1. d[i] \in Int
      BY <1>1
    <3> QED
      BY <2>2, <3>1
  <2>4. k - 1 \in i..L /\ k \in 1..L /\ k - 1 \notin T /\ k - 1 \in 0..L
    BY <1>0, <2>1, <2>2, <2>3
  <2>5. d[i] <= d[k-1]
    BY <2>4
  <2>6. d[k] = d[k-1] + l[k].key /\ l[k].key \in Int /\ l[k].key >= 0
    BY <1>0, <1>1, <2>4
  <2>7. d[i] \in Int /\ d[k-1] \in Int
    BY <1>1, <2>4
  <2> QED
    BY <2>2, <2>5, <2>6, <2>7
<1> QED
  BY <1>3 DEF d

(* ssclock.c, strtclk: every process expires `makeup' ticks sooner, or now. *)
LEMMA DeltaMakeUp ==
  ASSUME NEW S, NEW l \in Seq(Entries(S)), NonNeg(l), NEW makeup \in Nat
  PROVE  LET r == MakeUp(l, makeup)
         IN  /\ r \in Seq(Entries(S)) /\ NonNeg(r) /\ Len(r) = Len(l)
             /\ \A j \in 1..Len(l) :
                  /\ r[j].pid = l[j].pid
                  /\ DeltaSum(r)[j] = IF DeltaSum(l)[j] >= makeup
                                      THEN DeltaSum(l)[j] - makeup ELSE 0
<1> DEFINE n == DeltaPos(l, makeup)
           d == DeltaSum(l)
           r == MakeUp(l, makeup)
           L == Len(l)
           c == makeup - d[n-1]
<1>0. /\ L \in Nat /\ DOMAIN l = 1..L
      /\ \A i \in 1..L : /\ l[i] \in Entries(S) /\ l[i].key \in Int /\ l[i].pid \in S
                         /\ l[i].key >= 0
  BY KeysAreInt DEF NonNeg
<1>1. /\ d \in [0..L -> Int] /\ d[0] = 0
      /\ \A i \in 1..L : d[i] = d[i-1] + l[i].key
  BY DeltaSumFacts DEF PartSum
<1>2. /\ n \in 1..(L + 1) /\ (n <= L => d[n] >= makeup)
      /\ \A j \in 1..(n - 1) : d[j] < makeup
  BY DeltaPosFacts
<1>a. r = [j \in 1..L |-> CASE j < n -> Entry(l[j].pid, 0)
                            [] j = n -> Entry(l[j].pid, l[j].key - c)
                            [] OTHER -> l[j]]
  BY <1>0 DEF MakeUp
<1>b. n - 1 \in 0..L
  BY <1>0, <1>2
<1>c. c \in Int /\ d[n-1] \in Int
  BY <1>1, <1>b
<1>d. ASSUME NEW j \in n..L PROVE d[j] >= makeup
  <2>1. n \in 0..L /\ n <= L /\ j \in n..L
    BY <1>0, <1>2
  <2>2. d[n] <= d[j]
    BY <2>1, DeltaMonotone
  <2>3. d[n] \in Int /\ d[j] \in Int
    BY <1>1, <1>2, <2>1
  <2> QED
    BY <1>2, <2>1, <2>2, <2>3
<1> HIDE DEF n, d, r, c
<1>3. ASSUME NEW j \in 1..L
      PROVE  /\ r[j] \in Entries(S) /\ r[j].pid = l[j].pid
             /\ r[j].key = IF j < n THEN 0 ELSE IF j = n THEN l[j].key - c ELSE l[j].key
  <2>1. CASE j < n
    <3>1. r[j] = Entry(l[j].pid, 0)
      BY <1>2, <1>a, <2>1
    <3> QED
      BY <1>0, <2>1, <3>1 DEF Entry, Entries
  <2>2. CASE j = n
    <3>1. r[j] = Entry(l[j].pid, l[j].key - c)
      BY <1>2, <1>a, <2>2
    <3>2. l[j].pid \in S /\ l[j].key - c \in Int /\ ~(j < n)
      BY <1>0, <1>2, <1>c, <2>2
    <3> QED
      BY <2>2, <3>1, <3>2 DEF Entry, Entries
  <2>3. CASE j > n
    <3>1. r[j] = l[j]
      BY <1>2, <1>a, <2>3
    <3> QED
      BY <1>0, <1>2, <2>3, <3>1
  <2> QED
    BY <1>2, <2>1, <2>2, <2>3
<1>4. r \in Seq(Entries(S)) /\ Len(r) = L /\ DOMAIN r = 1..L
  <2>1. DOMAIN r = 1..L /\ r = [j \in 1..L |-> r[j]]
    BY <1>a
  <2> QED
    BY <1>0, <1>3, <2>1, EntriesList
<1>5. NonNeg(r)
  <2> SUFFICES ASSUME NEW j \in 1..L PROVE r[j].key >= 0
    BY <1>4 DEF NonNeg
  <2>1. CASE j = n
    <3>1. n \in 1..L /\ n <= L
      BY <1>0, <2>1
    <3>2. d[n] >= makeup /\ d[n] = d[n-1] + l[n].key
      BY <1>1, <1>2, <3>1
    <3>3. r[j].key = l[n].key - c /\ l[n].key \in Int
      BY <1>0, <1>2, <1>3, <2>1, <3>1
    <3> QED
      BY <1>c, <3>2, <3>3 DEF c
  <2>2. CASE j # n
    BY <1>0, <1>3, <2>2
  <2> QED
    BY <2>1, <2>2
<1> DEFINE f == [j \in 0..L |-> IF j < n THEN 0 ELSE d[j] - makeup]
<1>6. PartSum(r, L, f)
  <2>1. f \in [0..L -> Int]
    BY <1>1
  <2>2. f[0] = 0
    BY <1>0, <1>2
  <2>3. ASSUME NEW j \in 1..L PROVE f[j] = f[j-1] + r[j].key
    <3>0. j - 1 \in 0..L /\ j \in 0..L
      BY <1>0
    <3>1. CASE j < n
      <4>1. f[j] = 0 /\ f[j-1] = 0
        BY <1>2, <3>0, <3>1
      <4>2. r[j].key = 0
        BY <1>3, <3>1
      <4> HIDE DEF f
      <4> QED
        BY <4>1, <4>2
    <3>2. CASE j = n
      <4>1. f[j] = d[n] - makeup /\ f[j-1] = 0
        BY <1>2, <3>0, <3>2
      <4>2. r[j].key = l[n].key - c /\ l[n].key \in Int /\ d[n] = d[n-1] + l[n].key
        BY <1>0, <1>1, <1>2, <1>3, <3>2
      <4> HIDE DEF f
      <4> QED
        BY <1>c, <4>1, <4>2 DEF c
    <3>3. CASE j > n
      <4>1. f[j] = d[j] - makeup /\ f[j-1] = d[j-1] - makeup
        BY <1>2, <3>0, <3>3
      <4>2. r[j].key = l[j].key /\ d[j] = d[j-1] + l[j].key /\ l[j].key \in Int
        BY <1>0, <1>1, <1>2, <1>3, <3>3
      <4>3. d[j-1] \in Int
        BY <1>1, <3>0
      <4> HIDE DEF f
      <4> QED
        BY <4>1, <4>2, <4>3
    <3> QED
      BY <1>2, <3>1, <3>2, <3>3
  <2> HIDE DEF f
  <2> QED
    BY <2>1, <2>2, <2>3 DEF PartSum
<1>7. DeltaSum(r) = f
  <2> HIDE DEF f
  <2> QED
    BY <1>4, <1>6, PartSumUnique
<1>8. ASSUME NEW j \in 1..L
      PROVE  DeltaSum(r)[j] = IF d[j] >= makeup THEN d[j] - makeup ELSE 0
  <2>1. CASE j < n
    <3>1. f[j] = 0
      BY <1>2, <2>1
    <3>2. d[j] < makeup /\ d[j] \in Int
      BY <1>1, <1>2, <2>1
    <3> QED
      BY <1>7, <3>1, <3>2
  <2>2. CASE j >= n
    <3>1. f[j] = d[j] - makeup
      BY <1>2, <2>2
    <3>2. j \in n..L
      BY <1>2, <2>2
    <3>3. d[j] >= makeup
      BY <1>d, <3>2
    <3> QED
      BY <1>7, <3>1, <3>3
  <2> QED
    BY <1>2, <2>1, <2>2
<1> QED
  BY <1>3, <1>4, <1>5, <1>8 DEF r, d

(* wakeup.c's getfirst. *)
LEMMA DeltaTail ==
  ASSUME NEW S, NEW l \in Seq(Entries(S)), l # <<>>
  PROVE  /\ Tail(l) \in Seq(Entries(S)) /\ Len(Tail(l)) = Len(l) - 1
         /\ Head(l) = l[1] /\ Len(l) \in Nat \ {0}
         /\ \A j \in 1..(Len(l) - 1) :
              /\ Tail(l)[j] = l[j+1]
              /\ DeltaSum(Tail(l))[j] = DeltaSum(l)[j+1] - Head(l).key
<1> DEFINE d == DeltaSum(l)
           r == Tail(l)
           L == Len(l)
           h == l[1].key
<1>0. /\ L \in Nat \ {0}
      /\ \A i \in 1..L : l[i] \in Entries(S) /\ l[i].key \in Int /\ l[i].pid \in S
  <2>1. L \in Nat /\ DOMAIN l = 1..L
        /\ \A i \in 1..L : l[i] \in Entries(S) /\ l[i].key \in Int /\ l[i].pid \in S
    BY KeysAreInt
  <2>2. L # 0
    OBVIOUS
  <2> QED
    BY <2>1, <2>2
<1>1. /\ d \in [0..L -> Int] /\ d[0] = 0
      /\ \A i \in 1..L : d[i] = d[i-1] + l[i].key
  BY DeltaSumFacts DEF PartSum
<1>2. /\ r \in Seq(Entries(S)) /\ Len(r) = L - 1 /\ Head(l) = l[1]
      /\ \A j \in 1..(L - 1) : r[j] = l[j+1]
  <2>1. PICK E : E = Entries(S)
    OBVIOUS
  <2>2. l \in Seq(E)
    BY <2>1
  <2>3. /\ r \in Seq(E) /\ Len(r) = L - 1 /\ Head(l) = l[1]
        /\ \A j \in 1..(L - 1) : r[j] = l[j+1]
    BY <2>2
  <2> QED
    BY <2>1, <2>3
<1>3. h \in Int /\ 1 \in 1..L /\ d[1] = h
  <2>1. 1 \in 1..L
    BY <1>0
  <2>2. h \in Int
    BY <1>0, <2>1
  <2>3. d[1] = d[1-1] + l[1].key
    BY <1>1, <2>1
  <2>4. d[1-1] = 0
    BY <1>1
  <2> QED
    BY <2>1, <2>2, <2>3, <2>4
<1> HIDE DEF d, r, h
<1> DEFINE f == [j \in 0..(L - 1) |-> d[j+1] - h]
<1>4. PartSum(r, L - 1, f)
  <2>1. f \in [0..(L - 1) -> Int]
    <3> SUFFICES ASSUME NEW j \in 0..(L - 1) PROVE d[j+1] - h \in Int
      OBVIOUS
    <3>1. j + 1 \in 0..L
      BY <1>0
    <3>2. d[j+1] \in Int
      BY <1>1, <3>1
    <3> QED
      BY <1>3, <3>2
  <2>2. f[0] = 0
    BY <1>0, <1>3
  <2>3. ASSUME NEW j \in 1..(L - 1) PROVE f[j] = f[j-1] + r[j].key
    <3>0. PICK k : k = j + 1
      OBVIOUS
    <3>1. j - 1 \in 0..(L - 1) /\ j \in 0..(L - 1) /\ k \in 1..L /\ k - 1 = j /\ j \in 0..L
      BY <1>0, <3>0
    <3>2. f[j] = d[k] - h /\ f[j-1] = d[j] - h
      BY <3>0, <3>1
    <3>3. r[j] = l[k] /\ l[k].key \in Int
      BY <1>0, <1>2, <3>0, <3>1
    <3>4. d[k] = d[j] + l[k].key /\ d[j] \in Int
      BY <1>1, <3>1
    <3> HIDE DEF f
    <3> QED
      BY <1>3, <3>2, <3>3, <3>4
  <2> HIDE DEF f
  <2> QED
    BY <2>1, <2>2, <2>3 DEF PartSum
<1>5. DeltaSum(r) = f
  <2> HIDE DEF f
  <2> QED
    BY <1>2, <1>4, PartSumUnique
<1>6. ASSUME NEW j \in 1..(L - 1) PROVE DeltaSum(r)[j] = d[j+1] - h
  <2>1. j \in 0..(L - 1)
    OBVIOUS
  <2> QED
    BY <1>5, <2>1
<1> QED
  BY <1>0, <1>2, <1>6 DEF r, d, h

(* clkint.c counts the first entry down: everybody is one tick nearer. *)
LEMMA DeltaTick ==
  ASSUME NEW S, NEW l \in Seq(Entries(S)), NEW r, r \in Seq(Entries(S)),
         Len(r) = Len(l), l # <<>>,
         \A j \in 1..Len(l) : r[j].key = IF j = 1 THEN l[j].key - 1 ELSE l[j].key
  PROVE  \A j \in 1..Len(l) : DeltaSum(r)[j] = DeltaSum(l)[j] - 1
<1> DEFINE d == DeltaSum(l)
           L == Len(l)
           f == [j \in 0..L |-> IF j = 0 THEN 0 ELSE d[j] - 1]
<1>0. L \in Nat /\ \A i \in 1..L : l[i].key \in Int
  BY KeysAreInt
<1>1. /\ d \in [0..L -> Int] /\ d[0] = 0
      /\ \A i \in 1..L : d[i] = d[i-1] + l[i].key
  BY DeltaSumFacts DEF PartSum
<1> HIDE DEF d
<1>2. PartSum(r, L, f)
  <2>1. f \in [0..L -> Int] /\ f[0] = 0
    BY <1>0, <1>1
  <2>3. ASSUME NEW j \in 1..L PROVE f[j] = f[j-1] + r[j].key
    <3>1. j - 1 \in 0..L /\ j \in 0..L /\ j # 0
      BY <1>0
    <3>2. f[j] = d[j] - 1 /\ f[j-1] = IF j = 1 THEN 0 ELSE d[j-1] - 1
      BY <3>1
    <3>3. d[j] = d[j-1] + l[j].key /\ d[j-1] \in Int /\ l[j].key \in Int
      BY <1>0, <1>1, <3>1
    <3>4. j = 1 => d[j-1] = 0
      BY <1>1
    <3> HIDE DEF f
    <3> QED
      BY <3>2, <3>3, <3>4
  <2> HIDE DEF f
  <2> QED
    BY <2>1, <2>3 DEF PartSum
<1>3. DeltaSum(r) = f
  <2> HIDE DEF f
  <2> QED
    BY <1>2, PartSumUnique
<1>4. ASSUME NEW j \in 1..L PROVE DeltaSum(r)[j] = d[j] - 1
  <2>1. j \in 0..L /\ j # 0
    BY <1>0
  <2> QED
    BY <1>3, <2>1
<1> QED
  BY <1>4 DEF d

------------------------------------------------------------------------------
(***************************************************************************)
(* The scheduler's record.                                                 *)
(***************************************************************************)

SchedRec == [currpid : Proc, pstate : [Proc -> PRStates], pprio : [Proc -> Nat],
             rdy : Seq(Entries(Proc)), preempt : Int]

(* The ready list is the sorted list of the ready processes, at most one    *)
(* process is in PRCURR, and the null process can run.  The current process *)
(* may have set its own next state already, as on entry to resched().       *)
Core(s) ==
  /\ s \in SchedRec
  /\ Distinct(s.rdy) /\ Sorted(s.rdy)
  /\ Pids(s.rdy) = {p \in Proc : s.pstate[p] = "PRREADY"}
  /\ \A i \in DOMAIN s.rdy : s.rdy[i].key = s.pprio[s.rdy[i].pid]
  /\ \A p \in Proc : s.pstate[p] = "PRCURR" => p = s.currpid
  /\ s.pstate[NULLPROC] \in {"PRCURR", "PRREADY"}

(* The current process has state PRCURR, and no ready one outranks it. *)
Highest(s) ==
  /\ s.pstate[s.currpid] = "PRCURR"
  /\ \A p \in Proc : s.pstate[p] = "PRREADY" => s.pprio[p] <= s.pprio[s.currpid]

Runnable == {"PRCURR", "PRREADY"}

(* From s to t processes only move between PRCURR and PRREADY. *)
SameBut(s, t) ==
  /\ t.pprio = s.pprio
  /\ \A p \in Proc : IF s.pstate[p] \in Runnable THEN t.pstate[p] \in Runnable
                     ELSE t.pstate[p] = s.pstate[p]

LEMMA NullIsProc == NULLPROC \in Proc /\ Proc \subseteq Nat
BY NPROCAssumption DEF NULLPROC, Proc

(* r is the sorted list l with an entry for p. *)
IsInsertion(l, p, key, r) ==
  /\ r \in Seq(Entries(Proc)) /\ Sorted(r) /\ Distinct(r)
  /\ Pids(r) = Pids(l) \cup {p}
  /\ \A k \in DOMAIN r : r[k] = Entry(p, key) \/ \E j \in DOMAIN l : r[k] = l[j]

(* insert.c keeps a sorted list of processes sorted. *)
LEMMA InsertIntoSorted ==
  ASSUME NEW l \in Seq(Entries(Proc)), NEW p \in Proc, NEW key \in Int,
         Sorted(l), Distinct(l), p \notin Pids(l)
  PROVE  IsInsertion(l, p, key, Insert(l, p, key))
<1>1. Inserted(Proc, l, p, key, Insert(l, p, key))
  BY InsertFacts
<1> QED
  BY <1>1, Zenon DEF Inserted, IsInsertion

(* ready(p, RESCHNO) on a process that is on no list. *)
LEMMA ReadyFacts ==
  ASSUME NEW s, Core(s), NEW p \in Proc, s.pstate[p] \notin Runnable
  PROVE  /\ Core(Ready(s, p))
         /\ Ready(s, p).pstate = [s.pstate EXCEPT ![p] = "PRREADY"]
         /\ Ready(s, p).currpid = s.currpid
         /\ Ready(s, p).pprio = s.pprio
<1> DEFINE t == Ready(s, p)
           key == s.pprio[p]
<1>0. /\ s.rdy \in Seq(Entries(Proc)) /\ key \in Int /\ s.pprio \in [Proc -> Nat]
      /\ s.pstate \in [Proc -> PRStates] /\ s.currpid \in Proc /\ s.preempt \in Int
  BY DEF Core, SchedRec
<1>1. /\ t.rdy = Insert(s.rdy, p, key)
      /\ t.pstate = [s.pstate EXCEPT ![p] = "PRREADY"]
      /\ t.currpid = s.currpid /\ t.pprio = s.pprio /\ t.preempt = s.preempt
  BY DEF Core, SchedRec, Ready
<1>2. p \notin Pids(s.rdy)
  BY DEF Core, Runnable
<1>3. /\ t.rdy \in Seq(Entries(Proc)) /\ Sorted(t.rdy) /\ Distinct(t.rdy)
      /\ Pids(t.rdy) = Pids(s.rdy) \cup {p}
      /\ \A k \in DOMAIN t.rdy :
           t.rdy[k] = Entry(p, key) \/ \E j \in DOMAIN s.rdy : t.rdy[k] = s.rdy[j]
  <2>1. IsInsertion(s.rdy, p, key, Insert(s.rdy, p, key))
    BY <1>0, <1>2, InsertIntoSorted DEF Core
  <2> HIDE DEF t, key
  <2> QED
    BY <1>1, <2>1 DEF IsInsertion
<1>4. t \in SchedRec
  <2>1. [s.pstate EXCEPT ![p] = "PRREADY"] \in [Proc -> PRStates]
    BY <1>0 DEF PRStates
  <2>2. s \in SchedRec /\ Insert(s.rdy, p, key) \in Seq(Entries(Proc))
    BY <1>1, <1>3 DEF Core
  <2> QED
    BY <2>1, <2>2 DEF SchedRec, Ready
<1> HIDE DEF t
<1>5. Pids(t.rdy) = {x \in Proc : t.pstate[x] = "PRREADY"}
  <2>1. Pids(s.rdy) = {x \in Proc : s.pstate[x] = "PRREADY"}
    BY DEF Core
  <2> QED
    BY <1>0, <1>1, <1>3, <2>1
<1>6. \A i \in DOMAIN t.rdy : t.rdy[i].key = t.pprio[t.rdy[i].pid]
  BY <1>1, <1>3 DEF Core, Entry
<1>7. \A x \in Proc : t.pstate[x] = "PRCURR" => x = t.currpid
  BY <1>0, <1>1 DEF Core
<1>8. t.pstate[NULLPROC] \in {"PRCURR", "PRREADY"}
  BY <1>0, <1>1, NullIsProc DEF Core
<1> QED
  BY <1>1, <1>3, <1>4, <1>5, <1>6, <1>7, <1>8 DEF Core, t

(* A process that is not on the ready list changes its state. *)
LEMMA BlockFacts ==
  ASSUME NEW s, Core(s), NEW p \in Proc, p # NULLPROC, s.pstate[p] # "PRREADY",
         NEW st \in PRStates \ Runnable
  PROVE  /\ Core(Block(s, p, st))
         /\ Block(s, p, st).pstate = [s.pstate EXCEPT ![p] = st]
         /\ Block(s, p, st).currpid = s.currpid
         /\ Block(s, p, st).pprio = s.pprio
<1> DEFINE t == Block(s, p, st)
<1>0. /\ s.rdy \in Seq(Entries(Proc)) /\ s.pprio \in [Proc -> Nat]
      /\ s.pstate \in [Proc -> PRStates] /\ s.currpid \in Proc /\ s.preempt \in Int
  BY DEF Core, SchedRec
<1>1. /\ t.rdy = s.rdy /\ t.pstate = [s.pstate EXCEPT ![p] = st]
      /\ t.currpid = s.currpid /\ t.pprio = s.pprio /\ t.preempt = s.preempt
  BY DEF Core, SchedRec, Block
<1>2. t \in SchedRec
  <2>1. s \in SchedRec /\ [s.pstate EXCEPT ![p] = st] \in [Proc -> PRStates]
    BY <1>0 DEF Core
  <2> QED
    BY <2>1 DEF SchedRec, Block
<1> HIDE DEF t
<1>3. Pids(t.rdy) = {x \in Proc : t.pstate[x] = "PRREADY"}
  BY <1>0, <1>1 DEF Core, Runnable
<1>4. \A x \in Proc : t.pstate[x] = "PRCURR" => x = t.currpid
  BY <1>0, <1>1 DEF Core, Runnable
<1>5. t.pstate[NULLPROC] \in {"PRCURR", "PRREADY"}
  BY <1>0, <1>1, NullIsProc DEF Core
<1> QED
  BY <1>1, <1>2, <1>3, <1>4, <1>5 DEF Core, t

(* A ready process leaves the ready list. *)
LEMMA UnreadyFacts ==
  ASSUME NEW s, Core(s), NEW p \in Proc, p # NULLPROC, s.pstate[p] = "PRREADY",
         NEW st \in PRStates \ Runnable
  PROVE  /\ Core(Unready(s, p, st))
         /\ Unready(s, p, st).pstate = [s.pstate EXCEPT ![p] = st]
         /\ Unready(s, p, st).currpid = s.currpid
         /\ Unready(s, p, st).pprio = s.pprio
<1> DEFINE t == Unready(s, p, st)
<1>0. /\ s.rdy \in Seq(Entries(Proc)) /\ s.pprio \in [Proc -> Nat]
      /\ s.pstate \in [Proc -> PRStates] /\ s.currpid \in Proc /\ s.preempt \in Int
  BY DEF Core, SchedRec
<1>1. /\ t.rdy = Dequeue(s.rdy, p) /\ t.pstate = [s.pstate EXCEPT ![p] = st]
      /\ t.currpid = s.currpid /\ t.pprio = s.pprio /\ t.preempt = s.preempt
  BY DEF Core, SchedRec, Unready
<1>2. p \in Pids(s.rdy)
  BY DEF Core
<1>3. /\ t.rdy \in Seq(Entries(Proc)) /\ Sorted(t.rdy) /\ Distinct(t.rdy)
      /\ Pids(t.rdy) = Pids(s.rdy) \ {p}
      /\ \A k \in DOMAIN t.rdy : \E j \in DOMAIN s.rdy : t.rdy[k] = s.rdy[j]
  BY <1>0, <1>1, <1>2, DequeueFacts DEF Core
<1>4. t \in SchedRec
  <2>1. /\ s \in SchedRec /\ Dequeue(s.rdy, p) \in Seq(Entries(Proc))
        /\ [s.pstate EXCEPT ![p] = st] \in [Proc -> PRStates]
    BY <1>0, <1>1, <1>3 DEF Core
  <2> QED
    BY <2>1 DEF SchedRec, Unready
<1> HIDE DEF t
<1>5. Pids(t.rdy) = {x \in Proc : t.pstate[x] = "PRREADY"}
  BY <1>0, <1>1, <1>3 DEF Core, Runnable
<1>6. \A x \in Proc : t.pstate[x] = "PRCURR" => x = t.currpid
  BY <1>0, <1>1 DEF Core, Runnable
<1>7. t.pstate[NULLPROC] \in {"PRCURR", "PRREADY"}
  BY <1>0, <1>1, NullIsProc DEF Core
<1>8. \A i \in DOMAIN t.rdy : t.rdy[i].key = t.pprio[t.rdy[i].pid]
  BY <1>1, <1>3 DEF Core
<1> QED
  BY <1>1, <1>3, <1>4, <1>5, <1>6, <1>7, <1>8 DEF Core, t

(* resched.c: whatever state the caller has given itself, afterwards the    *)
(* current process is one that no ready process outranks.  The list is      *)
(* never empty, because the null process is on it or is the caller.         *)
LEMMA ReschedFacts ==
  ASSUME NEW s, Core(s)
  PROVE  Core(Resched(s)) /\ Highest(Resched(s)) /\ SameBut(s, Resched(s))
<1> DEFINE eligible == s.pstate[s.currpid] = "PRCURR"
           r == IF eligible THEN Ready(s, s.currpid) ELSE s
           list == r.rdy
           next == Last(list).pid
           stays == eligible /\ LastKey(s.rdy) < s.pprio[s.currpid]
           t == Resched(s)
<1>0. /\ s.rdy \in Seq(Entries(Proc)) /\ s.pprio \in [Proc -> Nat]
      /\ s.pstate \in [Proc -> PRStates] /\ s.currpid \in Proc /\ s.preempt \in Int
      /\ s \in SchedRec /\ Sorted(s.rdy) /\ Distinct(s.rdy)
      /\ Pids(s.rdy) = {p \in Proc : s.pstate[p] = "PRREADY"}
      /\ \A i \in DOMAIN s.rdy : s.rdy[i].key = s.pprio[s.rdy[i].pid]
      /\ \A p \in Proc : s.pstate[p] = "PRCURR" => p = s.currpid
      /\ s.pstate[NULLPROC] \in {"PRCURR", "PRREADY"}
      /\ QUANTUM \in Int
  BY QUANTUMAssumption DEF Core, SchedRec
<1>1. /\ list \in Seq(Entries(Proc)) /\ Sorted(list) /\ Distinct(list)
      /\ Pids(list) = {p \in Proc : \/ s.pstate[p] = "PRREADY"
                                    \/ eligible /\ p = s.currpid}
      /\ \A i \in DOMAIN list : list[i].key = s.pprio[list[i].pid]
  <2>1. CASE eligible
    <3>1. PICK c, k : c = s.currpid /\ k = s.pprio[c]
      OBVIOUS
    <3>2. c \in Proc /\ k \in Int /\ c \notin Pids(s.rdy)
      BY <1>0, <2>1, <3>1
    <3>3. IsInsertion(s.rdy, c, k, Insert(s.rdy, c, k))
      BY <1>0, <3>2, InsertIntoSorted
    <3>4. list = Insert(s.rdy, c, k)
      BY <1>0, <2>1, <3>1 DEF Ready, SchedRec
    <3> HIDE DEF list
    <3>5. Pids(list) = {p \in Proc : \/ s.pstate[p] = "PRREADY"
                                     \/ eligible /\ p = s.currpid}
      BY <1>0, <2>1, <3>1, <3>3, <3>4 DEF IsInsertion
    <3>6. \A i \in DOMAIN list : list[i].key = s.pprio[list[i].pid]
      BY <1>0, <3>1, <3>3, <3>4 DEF Entry, IsInsertion
    <3> QED
      BY <3>3, <3>4, <3>5, <3>6 DEF IsInsertion
  <2>2. CASE ~eligible
    BY <1>0, <2>2
  <2> QED
    BY <2>1, <2>2
<1>2. list # <<>>
  <2>1. NULLPROC \in Pids(list)
    BY <1>0, <1>1, NullIsProc
  <2>2. Pids(<<>>) = {}
    BY DEF Pids
  <2> HIDE DEF list
  <2> QED
    BY <2>1, <2>2
<1>3. CASE stays
  <2>1. t = [s EXCEPT !.preempt = QUANTUM]
    BY <1>3 DEF Resched
  <2>2. /\ t \in SchedRec /\ t.rdy = s.rdy /\ t.pstate = s.pstate
        /\ t.currpid = s.currpid /\ t.pprio = s.pprio
    BY <1>0, <2>1 DEF SchedRec
  <2> HIDE DEF t
  <2>3. Core(t)
    BY <1>0, <2>2 DEF Core
  <2>4. ASSUME NEW p \in Proc, s.pstate[p] = "PRREADY"
        PROVE  s.pprio[p] <= s.pprio[s.currpid]
    <3>1. PICK i \in DOMAIN s.rdy : s.rdy[i].pid = p
      BY <1>0, <2>4 DEF Pids
    <3>2. PICK l : l = s.rdy
      OBVIOUS
    <3>3. l # <<>> /\ Len(l) \in Nat /\ DOMAIN l = 1..Len(l) /\ i \in 1..Len(l)
      BY <1>0, <3>1, <3>2
    <3>4. i = Len(l) \/ i < Len(l)
      BY <3>3
    <3>5. Len(l) \in DOMAIN l
      BY <3>3
    <3>6. l[i].key = s.pprio[p] /\ s.pprio[p] \in Nat /\ s.pprio[s.currpid] \in Nat
      BY <1>0, <3>1, <3>2
    <3>7. l[i].key <= l[Len(l)].key
      BY <1>0, <3>1, <3>2, <3>4, <3>5, <3>6 DEF Sorted
    <3>8. l[Len(l)].key < s.pprio[s.currpid]
      BY <1>3, <3>2, <3>3 DEF LastKey, Last
    <3>9. l[Len(l)].key \in Int
      <4>1. l[Len(l)] \in Entries(Proc)
        BY <1>0, <3>2, <3>5
      <4> QED
        BY <4>1 DEF Entries
    <3> QED
      BY <3>6, <3>7, <3>8, <3>9
  <2>5. Highest(t)
    BY <1>3, <2>2, <2>4 DEF Highest
  <2>6. SameBut(s, t)
    BY <2>2 DEF SameBut
  <2> QED
    BY <2>3, <2>5, <2>6 DEF t
<1>4. CASE ~stays
  <2> DEFINE st == [r.pstate EXCEPT ![next] = "PRCURR"]
  <2>1. t = [r EXCEPT !.preempt = QUANTUM, !.currpid = next,
                      !.pstate[next] = "PRCURR", !.rdy = Front(@)]
    BY <1>2, <1>4 DEF Resched
  <2>0. /\ r \in SchedRec /\ r.pprio = s.pprio
        /\ r.pstate = IF eligible THEN [s.pstate EXCEPT ![s.currpid] = "PRREADY"]
                      ELSE s.pstate
    <3>1. CASE eligible
      <4>1. r.pprio = s.pprio /\ r.pstate = [s.pstate EXCEPT ![s.currpid] = "PRREADY"]
        BY <1>0, <3>1 DEF Ready, SchedRec
      <4>2. [s.pstate EXCEPT ![s.currpid] = "PRREADY"] \in [Proc -> PRStates]
        BY <1>0 DEF PRStates
      <4>3. Insert(s.rdy, s.currpid, s.pprio[s.currpid]) \in Seq(Entries(Proc))
        BY <1>0, <1>1, <3>1 DEF Ready, SchedRec
      <4>4. r \in SchedRec
        BY <1>0, <3>1, <4>2, <4>3 DEF Ready, SchedRec
      <4> QED
        BY <3>1, <4>1, <4>4
    <3>2. CASE ~eligible
      BY <1>0, <3>2
    <3> QED
      BY <3>1, <3>2
  <2> HIDE DEF r
  <2>2. /\ Front(list) \in Seq(Entries(Proc)) /\ Last(list) \in Entries(Proc)
        /\ next \in Pids(list)
        /\ Distinct(Front(list))
        /\ Pids(Front(list)) = Pids(list) \ {next}
        /\ \A k \in DOMAIN Front(list) : k \in DOMAIN list /\ Front(list)[k] = list[k]
        /\ Sorted(Front(list))
        /\ \A k \in DOMAIN Front(list) : Front(list)[k].key <= Last(list).key
    BY <1>1, <1>2, FrontListFacts
  <2>3. next \in Proc /\ Last(list).key = s.pprio[next]
    <3>1. Len(list) \in DOMAIN list
      BY <1>1, <1>2
    <3> QED
      BY <1>1, <2>2, <3>1 DEF Entries, Last
  <2>4. /\ st \in [Proc -> PRStates] /\ st[next] = "PRCURR"
        /\ \A p \in Proc : p # next =>
             st[p] = IF eligible /\ p = s.currpid THEN "PRREADY" ELSE s.pstate[p]
    BY <1>0, <2>0, <2>3 DEF PRStates
  <2> HIDE DEF next
  <2>5. /\ t \in SchedRec /\ t.rdy = Front(list) /\ t.pstate = st
        /\ t.currpid = next /\ t.pprio = s.pprio
    <3>1. /\ t.rdy = Front(list) /\ t.pstate = st
          /\ t.currpid = next /\ t.pprio = s.pprio
      BY <2>0, <2>1 DEF SchedRec
    <3>2. t \in SchedRec
      BY ZenonT(60), <1>0, <2>0, <2>1, <2>2, <2>3, <2>4 DEF SchedRec
    <3> QED
      BY <3>1, <3>2
  <2> HIDE DEF t, st, list
  <2>6. \A p \in Proc : st[p] = "PRCURR" => p = next
    BY <1>0, <2>4
  <2>7. Pids(Front(list)) = {p \in Proc : st[p] = "PRREADY"}
    BY <1>0, <1>1, <2>2, <2>4
  <2>8. \A k \in DOMAIN Front(list) :
          Front(list)[k].key = s.pprio[Front(list)[k].pid]
    BY <1>1, <2>2
  <2>9. st[NULLPROC] \in {"PRCURR", "PRREADY"}
    BY <1>0, <2>4, NullIsProc
  <2>10. Core(t)
    BY <2>2, <2>5, <2>6, <2>7, <2>8, <2>9 DEF Core
  <2>11. ASSUME NEW p \in Proc, st[p] = "PRREADY"
         PROVE  s.pprio[p] <= s.pprio[next]
    <3>1. PICK k \in DOMAIN Front(list) : Front(list)[k].pid = p
      BY <2>7, <2>11 DEF Pids
    <3> QED
      BY <2>2, <2>3, <2>8, <3>1
  <2>12. Highest(t)
    BY <2>4, <2>5, <2>11 DEF Highest
  <2>13. SameBut(s, t)
    <3> SUFFICES ASSUME NEW p \in Proc
                 PROVE  IF s.pstate[p] \in Runnable THEN st[p] \in Runnable
                        ELSE st[p] = s.pstate[p]
      BY <2>5 DEF SameBut
    <3>1. s.pstate[next] \in Runnable
      BY <1>0, <1>1, <2>2 DEF Runnable
    <3>2. CASE p = next
      BY <2>4, <3>1, <3>2 DEF Runnable
    <3>3. CASE p # next
      BY <2>4, <3>3 DEF Runnable
    <3> QED
      BY <3>2, <3>3
  <2> QED
    BY <2>10, <2>12, <2>13 DEF t
<1> QED
  BY <1>3, <1>4

------------------------------------------------------------------------------
(***************************************************************************)
(* The effect of a system call on the scheduler, as the other components   *)
(* see it: which processes wait or sleep, not which of those that can run  *)
(* has the CPU.                                                            *)
(***************************************************************************)

Class(state) == IF state \in Runnable THEN "RUN" ELSE state

(* From s to t the class of p becomes c, and no other process's changes. *)
Moved(s, t, p, c) ==
  \A q \in Proc : Class(t.pstate[q]) = IF q = p THEN c ELSE Class(s.pstate[q])

Still(s, t) == \A q \in Proc : Class(t.pstate[q]) = Class(s.pstate[q])

LEMMA SameButStill ==
  ASSUME NEW s, NEW t, SameBut(s, t)
  PROVE  Still(s, t)
BY DEF SameBut, Still, Class

(* resched() *)
LEMMA ReschedStep ==
  ASSUME NEW s, Core(s)
  PROVE  Core(Resched(s)) /\ Highest(Resched(s)) /\ Still(s, Resched(s))
BY ReschedFacts, SameButStill

(* The current process blocks and gives up the CPU. *)
LEMMA BlockReschedStep ==
  ASSUME NEW s, Core(s), NEW p \in Proc, p # NULLPROC, s.pstate[p] # "PRREADY",
         NEW st \in PRStates \ Runnable
  PROVE  /\ Core(Resched(Block(s, p, st))) /\ Highest(Resched(Block(s, p, st)))
         /\ Moved(s, Resched(Block(s, p, st)), p, st)
<1> DEFINE b == Block(s, p, st)
           t == Resched(b)
<1>1. Core(b) /\ b.pstate = [s.pstate EXCEPT ![p] = st]
  BY BlockFacts
<1>2. s.pstate \in [Proc -> PRStates]
  BY DEF Core, SchedRec
<1> HIDE DEF b
<1>3. Core(t) /\ Highest(t) /\ Still(b, t)
  BY <1>1, ReschedStep
<1> HIDE DEF t
<1>4. Moved(s, t, p, st)
  BY <1>1, <1>2, <1>3 DEF Moved, Still, Class
<1> QED
  BY <1>3, <1>4 DEF t, b

(* ready(p, RESCHNO) *)
LEMMA ReadyStep ==
  ASSUME NEW s, Core(s), NEW p \in Proc, s.pstate[p] \notin Runnable
  PROVE  /\ Core(Ready(s, p)) /\ Moved(s, Ready(s, p), p, "RUN")
         /\ Ready(s, p).currpid = s.currpid
         /\ s.pstate[s.currpid] = "PRCURR" =>
              Ready(s, p).pstate[s.currpid] = "PRCURR"
<1> DEFINE t == Ready(s, p)
<1>1. Core(t) /\ t.pstate = [s.pstate EXCEPT ![p] = "PRREADY"] /\ t.currpid = s.currpid
  BY ReadyFacts
<1>2. s.pstate \in [Proc -> PRStates] /\ s.currpid \in Proc
  BY DEF Core, SchedRec
<1> HIDE DEF t
<1>3. Moved(s, t, p, "RUN")
  BY <1>1, <1>2 DEF Moved, Class, Runnable
<1>4. s.pstate[s.currpid] = "PRCURR" => t.pstate[s.currpid] = "PRCURR"
  BY <1>1, <1>2 DEF Runnable
<1> QED
  BY <1>1, <1>3, <1>4 DEF t

(* ready(p, RESCHYES) *)
LEMMA ReadyReschedStep ==
  ASSUME NEW s, Core(s), NEW p \in Proc, s.pstate[p] \notin Runnable
  PROVE  /\ Core(Resched(Ready(s, p))) /\ Highest(Resched(Ready(s, p)))
         /\ Moved(s, Resched(Ready(s, p)), p, "RUN")
<1> DEFINE r == Ready(s, p)
           t == Resched(r)
<1>1. Core(r) /\ Moved(s, r, p, "RUN")
  BY ReadyStep
<1> HIDE DEF r
<1>2. Core(t) /\ Highest(t) /\ Still(r, t)
  BY <1>1, ReschedStep
<1> HIDE DEF t
<1>3. Moved(s, t, p, "RUN")
  BY <1>1, <1>2 DEF Moved, Still
<1> QED
  BY <1>2, <1>3 DEF t, r

(* A process other than the current one leaves its state for st. *)
LEMMA DropStep ==
  ASSUME NEW s, Core(s), NEW p \in Proc, p # NULLPROC, p # s.currpid,
         NEW st \in PRStates \ Runnable
  PROVE  LET t == IF s.pstate[p] = "PRREADY" THEN Unready(s, p, st)
                  ELSE Block(s, p, st)
         IN  /\ Core(t) /\ Moved(s, t, p, st) /\ t.currpid = s.currpid
             /\ Highest(s) => Highest(t)
<1> DEFINE t == IF s.pstate[p] = "PRREADY" THEN Unready(s, p, st) ELSE Block(s, p, st)
<1>1. /\ Core(t) /\ t.pstate = [s.pstate EXCEPT ![p] = st] /\ t.currpid = s.currpid
      /\ t.pprio = s.pprio
  BY BlockFacts, UnreadyFacts
<1>2. s.pstate \in [Proc -> PRStates] /\ s.currpid \in Proc
  BY DEF Core, SchedRec
<1> HIDE DEF t
<1>3. Moved(s, t, p, st)
  BY <1>1, <1>2 DEF Moved, Class
<1>4. Highest(s) => Highest(t)
  BY <1>1, <1>2 DEF Highest, Runnable
<1> QED
  BY <1>1, <1>3, <1>4 DEF t

(* chprio.c moves a ready process in the ready list. *)
LEMMA ReprioFacts ==
  ASSUME NEW s, Core(s), NEW p \in Proc, NEW newprio \in Nat
  PROVE  LET u == [s EXCEPT !.pprio[p] = newprio]
             t == IF s.pstate[p] = "PRREADY"
                  THEN [u EXCEPT !.rdy = Insert(Dequeue(u.rdy, p), p, newprio)]
                  ELSE u
         IN  /\ Core(t) /\ Still(s, t) /\ t.currpid = s.currpid
             /\ Highest(s) /\ s.pstate[p] \notin Runnable => Highest(t)
<1> DEFINE u == [s EXCEPT !.pprio[p] = newprio]
           t == IF s.pstate[p] = "PRREADY"
                THEN [u EXCEPT !.rdy = Insert(Dequeue(u.rdy, p), p, newprio)]
                ELSE u
<1>0. /\ s.rdy \in Seq(Entries(Proc)) /\ s.pprio \in [Proc -> Nat]
      /\ s.pstate \in [Proc -> PRStates] /\ s.currpid \in Proc /\ s.preempt \in Int
      /\ s \in SchedRec /\ Sorted(s.rdy) /\ Distinct(s.rdy)
      /\ Pids(s.rdy) = {x \in Proc : s.pstate[x] = "PRREADY"}
      /\ \A i \in DOMAIN s.rdy : s.rdy[i].key = s.pprio[s.rdy[i].pid]
      /\ \A x \in Proc : s.pstate[x] = "PRCURR" => x = s.currpid
      /\ s.pstate[NULLPROC] \in {"PRCURR", "PRREADY"}
  BY DEF Core, SchedRec
<1>1. /\ u \in SchedRec /\ u.rdy = s.rdy /\ u.pstate = s.pstate
      /\ u.currpid = s.currpid /\ u.pprio = [s.pprio EXCEPT ![p] = newprio]
      /\ u.pprio[p] = newprio /\ \A x \in Proc \ {p} : u.pprio[x] = s.pprio[x]
  <2>1. [s.pprio EXCEPT ![p] = newprio] \in [Proc -> Nat]
    BY <1>0
  <2> QED
    BY <1>0, <2>1 DEF SchedRec
<1>2. CASE s.pstate[p] = "PRREADY"
  <2>1. PICK l, d : l = s.rdy /\ d = Dequeue(l, p)
    OBVIOUS
  <2>2. l \in Seq(Entries(Proc)) /\ p \in Pids(l) /\ Sorted(l) /\ Distinct(l)
    BY <1>0, <1>2, <2>1
  <2>3. /\ d \in Seq(Entries(Proc)) /\ Sorted(d) /\ Distinct(d)
        /\ Pids(d) = Pids(l) \ {p}
        /\ \A k \in DOMAIN d : \E j \in DOMAIN l : d[k] = l[j]
    BY <2>1, <2>2, DequeueFacts
  <2>4. newprio \in Int /\ p \notin Pids(d)
    BY <2>3
  <2> DEFINE r == Insert(d, p, newprio)
  <2>5. /\ r \in Seq(Entries(Proc)) /\ Sorted(r) /\ Distinct(r)
        /\ Pids(r) = Pids(d) \cup {p}
        /\ \A k \in DOMAIN r : \/ r[k] = Entry(p, newprio)
                               \/ \E j \in DOMAIN d : r[k] = d[j]
    <3>1. IsInsertion(d, p, newprio, Insert(d, p, newprio))
      BY <2>3, <2>4, InsertIntoSorted
    <3> QED
      BY <3>1 DEF IsInsertion
  <2>6. t = [u EXCEPT !.rdy = r]
    BY <1>1, <1>2, <2>1
  <2> HIDE DEF u, r
  <2>7. /\ t \in SchedRec /\ t.rdy = r /\ t.pstate = s.pstate
        /\ t.currpid = s.currpid /\ t.pprio = u.pprio
    BY <1>1, <2>5, <2>6 DEF SchedRec
  <2> HIDE DEF t
  <2>8. Pids(r) = {x \in Proc : s.pstate[x] = "PRREADY"}
    BY <1>0, <2>1, <2>2, <2>3, <2>5
  <2>9. ASSUME NEW k \in DOMAIN r PROVE r[k].key = u.pprio[r[k].pid]
    <3>1. CASE r[k] = Entry(p, newprio)
      BY <1>1, <3>1 DEF Entry
    <3>2. ASSUME NEW j \in DOMAIN d, r[k] = d[j] PROVE r[k].key = u.pprio[r[k].pid]
      <4>1. d[j].pid # p
        BY <2>4 DEF Pids
      <4>2. d[j].pid \in Proc
        BY <1>0, <2>1, <2>3 DEF Pids
      <4>3. d[j].key = s.pprio[d[j].pid]
        BY <1>0, <2>1, <2>3
      <4> QED
        BY <1>1, <3>2, <4>1, <4>2, <4>3
    <3> QED
      BY <2>5, <3>1, <3>2
  <2>10. Core(t)
    BY <1>0, <2>5, <2>7, <2>8, <2>9 DEF Core
  <2>11. Still(s, t)
    BY <2>7 DEF Still
  <2> QED
    BY <1>2, <2>7, <2>10, <2>11 DEF t, u, Runnable
<1>3. CASE s.pstate[p] # "PRREADY"
  <2> HIDE DEF u
  <2>1. t = u
    BY <1>3
  <2>2. \A i \in DOMAIN s.rdy : s.rdy[i].key = u.pprio[s.rdy[i].pid]
    <3> TAKE i \in DOMAIN s.rdy
    <3>1. s.rdy[i].pid \in Pids(s.rdy)
      BY DEF Pids
    <3>2. s.rdy[i].pid \in Proc \ {p}
      BY <1>0, <1>3, <3>1
    <3> QED
      BY <1>0, <1>1, <3>2
  <2>3. Core(u)
    BY <1>0, <1>1, <2>2 DEF Core
  <2>4. Still(s, u)
    BY <1>1 DEF Still
  <2>5. Highest(s) /\ s.pstate[p] \notin Runnable => Highest(u)
    BY <1>0, <1>1 DEF Highest, Runnable
  <2> QED
    BY <1>1, <2>1, <2>3, <2>4, <2>5 DEF u
<1> QED
  BY <1>2, <1>3

USE NPROCAssumption

(***************************************************************************)
(* The inductive invariant.                                                *)
(***************************************************************************)

Loops == {"signaln", "sreset", "sdelete", "wakeup"}

Frame == {f \in [at : Points, arg : Int, cnt : Int] :
            /\ f.at = "kill" => f.arg \in Proc \ {NULLPROC}
            /\ f.at \in {"signaln", "sreset", "sdelete"} => f.arg \in Sem
            /\ f.at \in {"signaln", "sreset"} => f.cnt \in Nat}

(* The scheduler's record is in order, and outside the loops no ready       *)
(* process outranks the current one.                                        *)
SInv ==
  /\ Core(sched)
  /\ sched.pstate[curr] = "PRCURR"
  /\ ~Releasing => Highest(sched)

(* A loop runs to its end at once: only the current process is in one, and  *)
(* has called nothing from there.                                           *)
KInv ==
  /\ kstack \in [Proc -> Seq(Frame)]
  /\ \A p \in Proc : \A i \in DOMAIN kstack[p] :
       kstack[p][i].at \in Loops => p = curr /\ i = 1

Emptying(s) == Top(curr).at \in {"sreset", "sdelete"} /\ Top(curr).arg = s

SemTyped(sems, ps, next) ==
  /\ sems \in [Sem -> [sstate : {"SFREE", "SUSED"}, semcnt : Int, queue : Seq(Proc)]]
  /\ ps \in [Proc -> Sem]
  /\ next \in Sem

QueuesMatch(sems, ps, states) ==
  \A s \in Sem :
    /\ IsInjective(sems[s].queue)
    /\ ToSet(sems[s].queue) =
         {p \in Proc : Class(states[p]) = "PRWAIT" /\ ps[p] = s}

CountMatches(sem) ==
  Len(sem.queue) = IF sem.sstate = "SUSED" /\ sem.semcnt < 0 THEN -sem.semcnt ELSE 0

(* Each semaphore queue holds the processes that wait for it, as many as    *)
(* the count says.                                                          *)
QInv ==
  /\ SemTyped(semaph, psem, nextsem)
  /\ QueuesMatch(semaph, psem, sched.pstate)
  /\ Top(curr).at = "sdelete" => ~isUsed(Top(curr).arg)
  /\ Top(curr).at = "signaln" => isUsed(Top(curr).arg)
  /\ \A s \in Sem : Emptying(s) \/ CountMatches(semaph[s])

SleepMatch(cq, states) ==
  /\ IsList(cq) /\ Distinct(cq)
  /\ Pids(cq) = {p \in Proc : Class(states[p]) \in {"PRSLEEP", "PRTRECV"}}

(* The sleep queue holds the sleeping processes. *)
CInv == SleepMatch(clockq, sched.pstate)

PInv == pnxtkin \in [Proc -> Proc \cup {BADPID}] /\ nextproc \in Proc

IInv == SInv /\ KInv /\ QInv /\ CInv /\ PInv

------------------------------------------------------------------------------
(***************************************************************************)
(* Kernel stacks.                                                          *)
(***************************************************************************)

Stacks == [Proc -> Seq(Frame)]

NoLoops(k) == \A p \in Proc : \A i \in DOMAIN k[p] : k[p][i].at \notin Loops

TopOf(k, p) == IF k[p] = <<>> THEN At("user", 0, 0) ELSE Head(k[p])

LEMMA FrameFacts ==
  ASSUME NEW pt \in Points, NEW arg \in Int, NEW cnt \in Int,
         pt = "kill" => arg \in Proc \ {NULLPROC},
         pt \in {"signaln", "sreset", "sdelete"} => arg \in Sem,
         pt \in {"signaln", "sreset"} => cnt \in Nat
  PROVE  /\ At(pt, arg, cnt) \in Frame
         /\ At(pt, arg, cnt).at = pt /\ At(pt, arg, cnt).arg = arg
         /\ At(pt, arg, cnt).cnt = cnt
<1>1. /\ At(pt, arg, cnt) \in [at : Points, arg : Int, cnt : Int]
      /\ At(pt, arg, cnt).at = pt /\ At(pt, arg, cnt).arg = arg
      /\ At(pt, arg, cnt).cnt = cnt
  BY DEF At
<1> QED
  BY <1>1 DEF Frame

LEMMA TopIsTopOf == Top(curr) = TopOf(kstack, curr) /\ Top(curr)' = TopOf(kstack', curr')
BY DEF Top, TopOf

LEMMA NoLoopsTop ==
  ASSUME NEW k \in Stacks, NEW p \in Proc, NoLoops(k)
  PROVE  TopOf(k, p).at \notin Loops
<1>1. CASE k[p] = <<>>
  BY <1>1 DEF TopOf, At, Loops
<1>2. CASE k[p] # <<>>
  <2>1. k[p] \in Seq(Frame)
    BY DEF Stacks
  <2>2. 1 \in DOMAIN k[p] /\ Head(k[p]) = k[p][1]
    BY <1>2, <2>1
  <2> QED
    BY <1>2, <2>2 DEF TopOf, NoLoops
<1> QED
  BY <1>1, <1>2

(* A process calls: the new frames come first. *)
LEMMA PushFacts ==
  ASSUME NEW k \in Stacks, NEW c \in Proc, NEW fs \in Seq(Frame), fs # <<>>,
         NoLoops(k), \A i \in DOMAIN fs : fs[i].at \in Loops => i = 1
  PROVE  LET n == [k EXCEPT ![c] = fs \o @]
         IN  /\ n \in Stacks
             /\ \A p \in Proc : \A i \in DOMAIN n[p] :
                  n[p][i].at \in Loops => p = c /\ i = 1
             /\ TopOf(n, c) = fs[1]
             /\ fs[1].at \notin Loops => NoLoops(n)
<1> DEFINE n == [k EXCEPT ![c] = fs \o @]
           r == fs \o k[c]
<1>0. k[c] \in Seq(Frame) /\ Len(fs) \in Nat \ {0} /\ Len(k[c]) \in Nat
      /\ DOMAIN fs = 1..Len(fs) /\ DOMAIN k[c] = 1..Len(k[c])
  BY DEF Stacks
<1>1. /\ r \in Seq(Frame) /\ Len(r) = Len(fs) + Len(k[c])
      /\ \A i \in 1..(Len(fs) + Len(k[c])) :
           r[i] = IF i <= Len(fs) THEN fs[i] ELSE k[c][i - Len(fs)]
  BY <1>0, ConcatProperties
<1> HIDE DEF r
<1>2. n[c] = r /\ \A p \in Proc \ {c} : n[p] = k[p]
  BY DEF Stacks, r
<1>3. n \in Stacks
  BY <1>1 DEF Stacks, r
<1>4. ASSUME NEW i \in DOMAIN r, r[i].at \in Loops PROVE i = 1 /\ fs[1].at \in Loops
  <2>1. i \in 1..(Len(fs) + Len(k[c]))
    BY <1>1
  <2>2. CASE i <= Len(fs)
    <3>1. i \in DOMAIN fs /\ r[i] = fs[i]
      BY <1>0, <1>1, <2>1, <2>2
    <3> QED
      BY <1>4, <3>1
  <2>3. CASE ~(i <= Len(fs))
    <3>1. i - Len(fs) \in DOMAIN k[c] /\ r[i] = k[c][i - Len(fs)]
      BY <1>0, <1>1, <2>1, <2>3
    <3> QED
      BY <1>4, <3>1 DEF NoLoops
  <2> QED
    BY <2>2, <2>3
<1>5. r # <<>> /\ r[1] = fs[1] /\ Head(r) = r[1]
  <2>1. 1 \in 1..(Len(fs) + Len(k[c])) /\ 1 <= Len(fs)
    BY <1>0
  <2> QED
    BY <1>1, <2>1
<1> HIDE DEF n
<1>6. TopOf(n, c) = fs[1]
  BY <1>2, <1>5 DEF TopOf
<1>7. \A p \in Proc : \A i \in DOMAIN n[p] : n[p][i].at \in Loops => p = c /\ i = 1
  BY <1>2, <1>4 DEF NoLoops
<1>8. fs[1].at \notin Loops => NoLoops(n)
  BY <1>2, <1>4 DEF NoLoops
<1> QED
  BY <1>3, <1>6, <1>7, <1>8 DEF n

(* A call returns: no loop is left. *)
LEMMA PopFacts ==
  ASSUME NEW k \in Stacks, NEW c \in Proc, k[c] # <<>>,
         \A p \in Proc : \A i \in DOMAIN k[p] : k[p][i].at \in Loops => p = c /\ i = 1
  PROVE  [k EXCEPT ![c] = Tail(@)] \in Stacks /\ NoLoops([k EXCEPT ![c] = Tail(@)])
<1> DEFINE n == [k EXCEPT ![c] = Tail(@)]
           r == Tail(k[c])
<1>0. k[c] \in Seq(Frame) /\ Len(k[c]) \in Nat \ {0} /\ DOMAIN k[c] = 1..Len(k[c])
  BY DEF Stacks
<1>1. r \in Seq(Frame) /\ Len(r) = Len(k[c]) - 1 /\ \A i \in 1..Len(r) : r[i] = k[c][i+1]
  BY <1>0, HeadTailProperties
<1>2. n[c] = r /\ \A p \in Proc \ {c} : n[p] = k[p]
  BY DEF Stacks
<1>3. n \in Stacks
  BY <1>1 DEF Stacks
<1> HIDE DEF n, r
<1>4. ASSUME NEW i \in DOMAIN r PROVE r[i].at \notin Loops
  <2>1. i + 1 \in DOMAIN k[c] /\ i + 1 # 1 /\ r[i] = k[c][i+1]
    BY <1>0, <1>1
  <2> QED
    BY <2>1
<1>5. NoLoops(n)
  BY <1>2, <1>4 DEF NoLoops
<1> QED
  BY <1>3, <1>5 DEF n

------------------------------------------------------------------------------
(***************************************************************************)
(* Steps after which no loop is under way.                                 *)
(***************************************************************************)

Queued == {"PRWAIT", "PRSLEEP", "PRTRECV"}

(* s and t agree on which processes wait and which sleep. *)
SameQueues(s, t) ==
  \A q \in Proc :
    /\ Class(t.pstate[q]) = "PRWAIT" <=> Class(s.pstate[q]) = "PRWAIT"
    /\ Class(t.pstate[q]) \in {"PRSLEEP", "PRTRECV"} <=>
         Class(s.pstate[q]) \in {"PRSLEEP", "PRTRECV"}

LEMMA StillSameQueues ==
  ASSUME NEW s, NEW t, Still(s, t)
  PROVE  SameQueues(s, t)
BY DEF Still, SameQueues

LEMMA MovedSameQueues ==
  ASSUME NEW s, NEW t, NEW p \in Proc, NEW c, Moved(s, t, p, c),
         c \notin Queued, Class(s.pstate[p]) \notin Queued
  PROVE  SameQueues(s, t)
BY DEF Moved, SameQueues, Queued

LEMMA QueuesMatchSame ==
  ASSUME NEW s, NEW t, SameQueues(s, t), NEW sems, NEW ps,
         QueuesMatch(sems, ps, s.pstate)
  PROVE  QueuesMatch(sems, ps, t.pstate)
BY DEF SameQueues, QueuesMatch

LEMMA SleepMatchSame ==
  ASSUME NEW s, NEW t, SameQueues(s, t), NEW cq, SleepMatch(cq, s.pstate)
  PROVE  SleepMatch(cq, t.pstate)
BY DEF SameQueues, SleepMatch

LEMMA CurrIsProc == Core(sched) => curr \in Proc
BY DEF Core, SchedRec, curr

(* What holds where no loop is under way. *)
LEMMA QuietFacts ==
  ASSUME IInv, Top(curr).at \notin Loops
  PROVE  /\ NoLoops(kstack) /\ Highest(sched)
         /\ \A s \in Sem : CountMatches(semaph[s])
<1>1. curr \in Proc /\ kstack \in Stacks
  BY CurrIsProc DEF IInv, SInv, KInv, Stacks
<1>2. ASSUME NEW p \in Proc, NEW i \in DOMAIN kstack[p], kstack[p][i].at \in Loops
      PROVE  FALSE
  <2>1. p = curr /\ i = 1
    BY <1>2 DEF IInv, KInv
  <2>2. kstack[curr] \in Seq(Frame) /\ kstack[curr] # <<>>
    BY <1>1, <2>1 DEF Stacks
  <2>3. Top(curr) = kstack[curr][1]
    BY <2>2 DEF Top
  <2> QED
    BY <1>2, <2>1, <2>3
<1>3. NoLoops(kstack)
  BY <1>2 DEF NoLoops
<1>4. ~Releasing /\ \A s \in Sem : ~Emptying(s)
  BY DEF Releasing, Emptying, Loops
<1> QED
  BY <1>3, <1>4 DEF IInv, SInv, QInv

LEMMA InUserTop == InUser => Top(curr).at = "user" /\ Top(curr).at \notin Loops
BY DEF InUser, Top, At, Loops

(* The invariant after such a step, from its parts. *)
LEMMA QuietNext ==
  ASSUME Core(sched'), Highest(sched'), kstack' \in Stacks, NoLoops(kstack'),
         SemTyped(semaph', psem', nextsem'),
         QueuesMatch(semaph', psem', sched'.pstate),
         \A s \in Sem : CountMatches(semaph'[s]),
         SleepMatch(clockq', sched'.pstate), PInv'
  PROVE  IInv'
<1>1. curr' \in Proc
  BY DEF Core, SchedRec, curr
<1>2. Top(curr)'.at \notin Loops
  BY <1>1, NoLoopsTop, TopIsTopOf
<1>3. SInv'
  BY DEF SInv, Highest, curr
<1>4. KInv'
  BY DEF KInv, NoLoops, Stacks
<1>5. QInv'
  BY <1>2 DEF QInv, Loops
<1>6. CInv'
  BY DEF CInv
<1> QED
  BY <1>3, <1>4, <1>5, <1>6 DEF IInv

(* A step that leaves the semaphores and the sleep queue alone. *)
LEMMA SchedOnly ==
  ASSUME IInv, Top(curr).at \notin Loops,
         Core(sched'), Highest(sched'), SameQueues(sched, sched'),
         kstack' \in Stacks, NoLoops(kstack'),
         UNCHANGED <<semaph, psem, nextsem, clockq>>, PInv'
  PROVE  IInv'
<1>1. \A s \in Sem : CountMatches(semaph'[s])
  BY QuietFacts
<1>2. SemTyped(semaph', psem', nextsem')
  BY DEF IInv, QInv
<1>3. QueuesMatch(semaph', psem', sched'.pstate)
  <2>1. QueuesMatch(semaph, psem, sched.pstate)
    BY DEF IInv, QInv
  <2> QED
    BY <2>1, QueuesMatchSame
<1>4. SleepMatch(clockq', sched'.pstate)
  <2>1. SleepMatch(clockq, sched.pstate)
    BY DEF IInv, CInv
  <2> QED
    BY <2>1, SleepMatchSame
<1> QED
  BY <1>1, <1>2, <1>3, <1>4, QuietNext

(* What a process that is not in a loop can rely on. *)
LEMMA QuietStart ==
  ASSUME IInv, Top(curr).at \notin Loops
  PROVE  /\ Core(sched) /\ Highest(sched) /\ curr \in Proc
         /\ sched.pstate[curr] = "PRCURR" /\ sched.pstate \in [Proc -> PRStates]
         /\ kstack \in Stacks /\ NoLoops(kstack) /\ PInv
         /\ SemTyped(semaph, psem, nextsem)
         /\ QueuesMatch(semaph, psem, sched.pstate)
         /\ SleepMatch(clockq, sched.pstate)
         /\ \A s \in Sem : CountMatches(semaph[s])
BY QuietFacts, CurrIsProc DEF IInv, SInv, KInv, QInv, CInv, Stacks, Core, SchedRec

LEMMA GoodPid ==
  ASSUME NEW p \in Proc, ~isbadpid(p)
  PROVE  p # NULLPROC
BY DEF isbadpid, NULLPROC

LEMMA StatesDistinct ==
  /\ Runnable = {"PRCURR", "PRREADY"}
  /\ \A st \in {"PRFREE", "PRRECV", "PRSUSP"} :
       st \in PRStates \ Runnable /\ Class(st) = st /\ st \notin Queued
  /\ \A st \in Queued : st \in PRStates \ Runnable /\ Class(st) = st
  /\ "RUN" \notin Queued /\ \A st \in Runnable : Class(st) = "RUN"
BY DEF Runnable, PRStates, Class, Queued

------------------------------------------------------------------------------
(***************************************************************************)
(* Steps of the loops.                                                     *)
(***************************************************************************)

OnlyLoopAt(k, c) ==
  \A p \in Proc : \A i \in DOMAIN k[p] : k[p][i].at \in Loops => p = c /\ i = 1

(* What holds wherever the kernel is, and where it is in a call. *)
LEMMA AnyStart ==
  ASSUME IInv
  PROVE  /\ Core(sched) /\ curr \in Proc
         /\ sched.pstate[curr] = "PRCURR" /\ sched.pstate \in [Proc -> PRStates]
         /\ kstack \in Stacks /\ OnlyLoopAt(kstack, curr) /\ PInv
         /\ SemTyped(semaph, psem, nextsem)
         /\ QueuesMatch(semaph, psem, sched.pstate)
         /\ SleepMatch(clockq, sched.pstate)
         /\ \A s \in Sem : Emptying(s) \/ CountMatches(semaph[s])
BY CurrIsProc DEF IInv, SInv, KInv, QInv, CInv, Stacks, Core, SchedRec, OnlyLoopAt

LEMMA InCall ==
  ASSUME IInv, Top(curr).at # "user"
  PROVE  kstack[curr] # <<>> /\ Top(curr) \in Frame
<1>1. curr \in Proc /\ kstack[curr] \in Seq(Frame)
  BY AnyStart DEF Stacks
<1>2. kstack[curr] # <<>>
  BY DEF Top, At
<1> QED
  BY <1>1, <1>2 DEF Top

(* The semaphores while a loop on semaphore arg is under way. *)
LoopSems(at, arg, sems) ==
  /\ at = "sdelete" => sems[arg].sstate # "SUSED"
  /\ at = "signaln" => sems[arg].sstate = "SUSED"
  /\ \A s \in Sem : (at \in {"sreset", "sdelete"} /\ arg = s) \/ CountMatches(sems[s])

(* The invariant inside a loop, from its parts. *)
LEMMA LoopNext ==
  ASSUME NEW c \in Proc, sched'.currpid = c, sched'.pstate[c] = "PRCURR",
         Core(sched'), kstack' \in Stacks, OnlyLoopAt(kstack', c),
         NEW at \in Loops, NEW arg,
         TopOf(kstack', c).at = at, TopOf(kstack', c).arg = arg,
         SemTyped(semaph', psem', nextsem'),
         QueuesMatch(semaph', psem', sched'.pstate),
         LoopSems(at, arg, semaph'),
         SleepMatch(clockq', sched'.pstate), PInv'
  PROVE  IInv'
<1>0. curr' = c
  BY DEF curr
<1>1. Top(curr)'.at = at /\ Top(curr)'.arg = arg
  BY <1>0, TopIsTopOf
<1>2. SInv'
  BY <1>0, <1>1 DEF SInv, Releasing, Loops
<1>3. KInv'
  BY <1>0 DEF KInv, OnlyLoopAt, Stacks
<1>4. QInv'
  BY <1>1 DEF QInv, Emptying, isUsed, LoopSems
<1>5. CInv'
  BY DEF CInv
<1> QED
  BY <1>2, <1>3, <1>4, <1>5 DEF IInv

(* A process leaves the queue of semaphore x. *)
LEMMA LeaveSemQueue ==
  ASSUME NEW s, NEW t, NEW sems, NEW new, NEW ps, NEW x \in Sem, NEW h \in Proc, NEW c,
         QueuesMatch(sems, ps, s.pstate), Moved(s, t, h, c), c # "PRWAIT",
         h \in ToSet(sems[x].queue),
         IsInjective(new[x].queue), ToSet(new[x].queue) = ToSet(sems[x].queue) \ {h},
         \A y \in Sem \ {x} : new[y] = sems[y]
  PROVE  QueuesMatch(new, ps, t.pstate)
<1>1. ps[h] = x
  BY DEF QueuesMatch
<1> SUFFICES ASSUME NEW y \in Sem
             PROVE  /\ IsInjective(new[y].queue)
                    /\ ToSet(new[y].queue) =
                         {p \in Proc : Class(t.pstate[p]) = "PRWAIT" /\ ps[p] = y}
  BY DEF QueuesMatch
<1>2. CASE y = x
  BY <1>2 DEF QueuesMatch, Moved
<1>3. CASE y # x
  BY <1>1, <1>3 DEF QueuesMatch, Moved
<1> QED
  BY <1>2, <1>3

(* Who waits neither runs nor sleeps: the sleep queue is not concerned. *)
LEMMA SleepMatchMoved ==
  ASSUME NEW s, NEW t, NEW p \in Proc, NEW c, Moved(s, t, p, c), NEW cq,
         SleepMatch(cq, s.pstate), c \notin {"PRSLEEP", "PRTRECV"},
         Class(s.pstate[p]) \notin {"PRSLEEP", "PRTRECV"}
  PROVE  SleepMatch(cq, t.pstate)
BY DEF SleepMatch, Moved

------------------------------------------------------------------------------
(***************************************************************************)
(* The system calls, one by one.                                           *)
(***************************************************************************)

LEMMA SuspendInv ==
  ASSUME IInv, NEW p \in Proc, Suspend(p),
         UNCHANGED <<semVars, clkVars, msgVars, procVars>>
  PROVE  IInv'
<1>0. Top(curr).at \notin Loops /\ p # NULLPROC /\ kstack' = kstack
  BY InUserTop DEF Suspend, Calling
<1>1. /\ Core(sched) /\ Highest(sched) /\ curr \in Proc
      /\ sched.pstate[curr] = "PRCURR" /\ kstack' \in Stacks /\ NoLoops(kstack') /\ PInv'
  BY <1>0, QuietStart DEF PInv, procVars
<1>2. "PRSUSP" \in PRStates \ Runnable /\ "PRSUSP" \notin Queued
  BY StatesDistinct
<1>3. Core(sched') /\ Highest(sched') /\ Moved(sched, sched', p, "PRSUSP")
  <2>1. CASE sched.pstate[p] = "PRREADY" /\ sched' = Unready(sched, p, "PRSUSP")
    <3>1. p # sched.currpid
      BY <1>1, <2>1 DEF curr
    <3> QED
      BY <1>0, <1>1, <1>2, <2>1, <3>1, DropStep
  <2>2. CASE sched.pstate[p] = "PRCURR" /\ sched' = Resched(Block(sched, p, "PRSUSP"))
    BY <1>0, <1>1, <1>2, <2>2, BlockReschedStep
  <2> QED
    BY <2>1, <2>2 DEF Suspend
<1>4. Class(sched.pstate[p]) \notin Queued
  BY StatesDistinct DEF Suspend
<1>5. SameQueues(sched, sched')
  BY <1>2, <1>3, <1>4, MovedSameQueues
<1> QED
  BY <1>0, <1>1, <1>3, <1>5, SchedOnly DEF semVars, clkVars

LEMMA ResumeInv ==
  ASSUME IInv, Top(curr).at \notin Loops, NEW p \in Proc, Resume(p),
         UNCHANGED <<semVars, clkVars, numproc, nextproc, pnxtkin>>
  PROVE  IInv'
<1>1. /\ Core(sched) /\ kstack' \in Stacks /\ NoLoops(kstack') /\ PInv'
  BY QuietStart DEF PInv, Resume
<1>2. sched.pstate[p] \notin Runnable /\ Class(sched.pstate[p]) \notin Queued
  BY StatesDistinct DEF Resume
<1>3. Core(sched') /\ Highest(sched') /\ Moved(sched, sched', p, "RUN")
  BY <1>1, <1>2, ReadyReschedStep DEF Resume
<1>5. SameQueues(sched, sched')
  BY <1>2, <1>3, MovedSameQueues, StatesDistinct
<1> QED
  BY <1>1, <1>3, <1>5, SchedOnly DEF semVars, clkVars

LEMMA ChprioInv ==
  ASSUME IInv, NEW p \in Proc, NEW newprio \in Prios, Chprio(p, newprio),
         UNCHANGED <<semVars, clkVars, msgVars, procVars>>
  PROVE  IInv'
<1>0. Top(curr).at \notin Loops /\ kstack' = kstack /\ newprio \in Nat
  BY InUserTop, PriosAssumption DEF Chprio, Calling
<1>1. /\ Core(sched) /\ Highest(sched) /\ curr \in Proc
      /\ sched.pstate[curr] = "PRCURR" /\ kstack' \in Stacks /\ NoLoops(kstack') /\ PInv'
  BY <1>0, QuietStart DEF PInv, procVars
<1> DEFINE u == [sched EXCEPT !.pprio[p] = newprio]
           t == IF sched.pstate[p] = "PRREADY"
                THEN [u EXCEPT !.rdy = Insert(Dequeue(u.rdy, p), p, newprio)]
                ELSE u
<1>2. /\ Core(t) /\ Still(sched, t) /\ t.currpid = sched.currpid
      /\ sched.pstate[p] \notin Runnable => Highest(t)
  BY <1>0, <1>1, ReprioFacts
<1>3. sched' = IF sched.pstate[p] \in {"PRREADY", "PRCURR"} THEN Resched(t) ELSE t
  <2>1. u.pstate = sched.pstate
    BY <1>1 DEF Core, SchedRec
  <2>2. CASE sched.pstate[p] = "PRREADY"
    BY <2>1, <2>2 DEF Chprio
  <2>3. CASE sched.pstate[p] = "PRCURR"
    BY <2>1, <2>3 DEF Chprio
  <2>4. CASE sched.pstate[p] \notin {"PRREADY", "PRCURR"}
    BY <2>1, <2>4 DEF Chprio
  <2> QED
    BY <2>2, <2>3, <2>4
<1> HIDE DEF t
<1>4. Core(sched') /\ Highest(sched') /\ Still(sched, sched')
  <2>1. CASE sched.pstate[p] \in {"PRREADY", "PRCURR"}
    <3>1. Core(Resched(t)) /\ Highest(Resched(t)) /\ Still(t, Resched(t))
      BY <1>2, ReschedStep
    <3> QED
      BY <1>2, <1>3, <2>1, <3>1 DEF Still
  <2>2. CASE sched.pstate[p] \notin {"PRREADY", "PRCURR"}
    BY <1>2, <1>3, <2>2 DEF Runnable
  <2> QED
    BY <2>1, <2>2
<1>5. SameQueues(sched, sched')
  BY <1>4, StillSameQueues
<1> QED
  BY <1>0, <1>1, <1>4, <1>5, SchedOnly DEF semVars, clkVars

------------------------------------------------------------------------------
(***************************************************************************)
(* Semaphores.                                                             *)
(***************************************************************************)

SemRec == [sstate : {"SFREE", "SUSED"}, semcnt : Int, queue : Seq(Proc)]

(* g is f with the entry of semaphore s set to state st, count n, queue q. *)
SemUpd(f, g, s, st, n, q) ==
  /\ g \in [Sem -> SemRec]
  /\ g[s].sstate = st /\ g[s].semcnt = n /\ g[s].queue = q
  /\ \A y \in Sem \ {s} : g[y] = f[y]

(* The forms of EXCEPT that the semaphore calls use. *)
LEMMA SetCountQueue ==
  ASSUME NEW f \in [Sem -> SemRec], NEW s \in Sem, NEW g,
         NEW n \in Int, NEW q \in Seq(Proc),
         g = [f EXCEPT ![s].semcnt = n, ![s].queue = q]
  PROVE  SemUpd(f, g, s, f[s].sstate, n, q)
<1>1. f[s] \in SemRec
  OBVIOUS
<1>2. g = [f EXCEPT ![s] = g[s]]
  OBVIOUS
<1>3. g[s] = [sstate |-> f[s].sstate, semcnt |-> n, queue |-> q]
  BY <1>1 DEF SemRec
<1>4. f[s].sstate \in {"SFREE", "SUSED"}
  BY <1>1 DEF SemRec
<1>5. g[s] \in SemRec
  BY <1>3, <1>4 DEF SemRec
<1>6. g \in [Sem -> SemRec]
  BY <1>2, <1>5
<1>7. \A y \in Sem \ {s} : g[y] = f[y]
  BY <1>2
<1>8. g[s].sstate = f[s].sstate /\ g[s].semcnt = n /\ g[s].queue = q
  BY <1>3
<1> QED
  BY <1>6, <1>7, <1>8 DEF SemUpd

LEMMA SetCount ==
  ASSUME NEW f \in [Sem -> SemRec], NEW s \in Sem, NEW g, NEW n \in Int,
         g = [f EXCEPT ![s].semcnt = n]
  PROVE  SemUpd(f, g, s, f[s].sstate, n, f[s].queue)
<1>1. f[s] \in SemRec
  OBVIOUS
<1>2. g = [f EXCEPT ![s] = g[s]]
  OBVIOUS
<1>3. g[s] = [sstate |-> f[s].sstate, semcnt |-> n, queue |-> f[s].queue]
  BY <1>1 DEF SemRec
<1>4. f[s].sstate \in {"SFREE", "SUSED"} /\ f[s].queue \in Seq(Proc)
  BY <1>1 DEF SemRec
<1>5. g[s] \in SemRec
  BY <1>3, <1>4 DEF SemRec
<1>6. g \in [Sem -> SemRec]
  BY <1>2, <1>5
<1>7. \A y \in Sem \ {s} : g[y] = f[y]
  BY <1>2
<1>8. g[s].sstate = f[s].sstate /\ g[s].semcnt = n /\ g[s].queue = f[s].queue
  BY <1>3
<1> QED
  BY <1>6, <1>7, <1>8 DEF SemUpd

LEMMA SetQueue ==
  ASSUME NEW f \in [Sem -> SemRec], NEW s \in Sem, NEW g, NEW q \in Seq(Proc),
         g = [f EXCEPT ![s].queue = q]
  PROVE  SemUpd(f, g, s, f[s].sstate, f[s].semcnt, q)
<1>1. f[s] \in SemRec
  OBVIOUS
<1>2. g = [f EXCEPT ![s] = g[s]]
  OBVIOUS
<1>3. g[s] = [sstate |-> f[s].sstate, semcnt |-> f[s].semcnt, queue |-> q]
  BY <1>1 DEF SemRec
<1>4. f[s].sstate \in {"SFREE", "SUSED"} /\ f[s].semcnt \in Int
  BY <1>1 DEF SemRec
<1>5. g[s] \in SemRec
  BY <1>3, <1>4 DEF SemRec
<1>6. g \in [Sem -> SemRec]
  BY <1>2, <1>5
<1>7. \A y \in Sem \ {s} : g[y] = f[y]
  BY <1>2
<1>8. g[s].sstate = f[s].sstate /\ g[s].semcnt = f[s].semcnt /\ g[s].queue = q
  BY <1>3
<1> QED
  BY <1>6, <1>7, <1>8 DEF SemUpd

LEMMA SetState ==
  ASSUME NEW f \in [Sem -> SemRec], NEW s \in Sem, NEW g, NEW st \in {"SFREE", "SUSED"},
         g = [f EXCEPT ![s].sstate = st]
  PROVE  SemUpd(f, g, s, st, f[s].semcnt, f[s].queue)
<1>1. f[s] \in SemRec
  OBVIOUS
<1>2. g = [f EXCEPT ![s] = g[s]]
  OBVIOUS
<1>3. g[s] = [sstate |-> st, semcnt |-> f[s].semcnt, queue |-> f[s].queue]
  BY <1>1 DEF SemRec
<1>4. f[s].semcnt \in Int /\ f[s].queue \in Seq(Proc)
  BY <1>1 DEF SemRec
<1>5. g[s] \in SemRec
  BY <1>3, <1>4 DEF SemRec
<1>6. g \in [Sem -> SemRec]
  BY <1>2, <1>5
<1>7. \A y \in Sem \ {s} : g[y] = f[y]
  BY <1>2
<1>8. g[s].sstate = st /\ g[s].semcnt = f[s].semcnt /\ g[s].queue = f[s].queue
  BY <1>3
<1> QED
  BY <1>6, <1>7, <1>8 DEF SemUpd

LEMMA SetStateCount ==
  ASSUME NEW f \in [Sem -> SemRec], NEW s \in Sem, NEW g, NEW st \in {"SFREE", "SUSED"},
         NEW n \in Int, g = [f EXCEPT ![s].sstate = st, ![s].semcnt = n]
  PROVE  SemUpd(f, g, s, st, n, f[s].queue)
<1>1. f[s] \in SemRec
  OBVIOUS
<1>2. g = [f EXCEPT ![s] = g[s]]
  OBVIOUS
<1>3. g[s] = [sstate |-> st, semcnt |-> n, queue |-> f[s].queue]
  BY <1>1 DEF SemRec
<1>4. f[s].queue \in Seq(Proc)
  BY <1>1 DEF SemRec
<1>5. g[s] \in SemRec
  BY <1>3, <1>4 DEF SemRec
<1>6. g \in [Sem -> SemRec]
  BY <1>2, <1>5
<1>7. \A y \in Sem \ {s} : g[y] = f[y]
  BY <1>2
<1>8. g[s].sstate = st /\ g[s].semcnt = n /\ g[s].queue = f[s].queue
  BY <1>3
<1> QED
  BY <1>6, <1>7, <1>8 DEF SemUpd

LEMMA SemFacts ==
  ASSUME SemTyped(semaph, psem, nextsem), NEW s \in Sem
  PROVE  /\ semaph \in [Sem -> SemRec] /\ psem \in [Proc -> Sem] /\ nextsem \in Sem
         /\ semaph[s].semcnt \in Int /\ semaph[s].queue \in Seq(Proc)
         /\ semaph[s].sstate \in {"SFREE", "SUSED"} /\ Len(semaph[s].queue) \in Nat
BY DEF SemTyped, SemRec

LEMMA SemTypedUpd ==
  ASSUME NEW f, NEW g, NEW s, NEW st, NEW n, NEW q, SemUpd(f, g, s, st, n, q),
         NEW ps \in [Proc -> Sem], NEW nx \in Sem
  PROVE  SemTyped(g, ps, nx)
BY DEF SemUpd, SemTyped, SemRec

(* The queues are left alone, whatever becomes of a count or a state. *)
LEMMA QueuesMatchUpd ==
  ASSUME NEW f, NEW g, NEW s \in Sem, NEW st, NEW n, SemUpd(f, g, s, st, n, f[s].queue),
         NEW ps, NEW states, QueuesMatch(f, ps, states)
  PROVE  QueuesMatch(g, ps, states)
<1>1. \A y \in Sem : g[y].queue = f[y].queue
  BY DEF SemUpd
<1> QED
  BY <1>1 DEF QueuesMatch

LEMMA CountsUpd ==
  ASSUME NEW f, NEW g, NEW s \in Sem, NEW st, NEW n, NEW q, SemUpd(f, g, s, st, n, q),
         \A x \in Sem : CountMatches(f[x]),
         Len(q) = IF st = "SUSED" /\ n < 0 THEN -n ELSE 0
  PROVE  \A x \in Sem : CountMatches(g[x])
<1>1. CountMatches(g[s])
  BY DEF SemUpd, CountMatches
<1> QED
  BY <1>1 DEF SemUpd

(* A process enters the queue of semaphore x. *)
LEMMA EnterSemQueue ==
  ASSUME NEW s, NEW t, NEW f, NEW g, NEW ps \in [Proc -> Sem], NEW x \in Sem,
         NEW h \in Proc, NEW st, NEW n, NEW q, SemUpd(f, g, x, st, n, q),
         QueuesMatch(f, ps, s.pstate), Moved(s, t, h, "PRWAIT"),
         Class(s.pstate[h]) # "PRWAIT",
         IsInjective(q), ToSet(q) = ToSet(f[x].queue) \cup {h}
  PROVE  QueuesMatch(g, [ps EXCEPT ![h] = x], t.pstate)
<1> DEFINE ns == [ps EXCEPT ![h] = x]
<1>1. ns[h] = x /\ \A p \in Proc \ {h} : ns[p] = ps[p]
  OBVIOUS
<1> HIDE DEF ns
<1>2. ASSUME NEW y \in Sem
      PROVE  /\ IsInjective(g[y].queue)
             /\ ToSet(g[y].queue) =
                  {p \in Proc : Class(t.pstate[p]) = "PRWAIT" /\ ns[p] = y}
  <2>1. CASE y = x
    <3>1. g[y].queue = q
      BY <2>1 DEF SemUpd
    <3>2. ToSet(f[x].queue) = {p \in Proc : Class(s.pstate[p]) = "PRWAIT" /\ ps[p] = x}
      BY DEF QueuesMatch
    <3> QED
      BY <1>1, <2>1, <3>1, <3>2 DEF Moved
  <2>2. CASE y # x
    <3>1. g[y] = f[y]
      BY <2>2 DEF SemUpd
    <3>2. /\ ToSet(f[y].queue) = {p \in Proc : Class(s.pstate[p]) = "PRWAIT" /\ ps[p] = y}
          /\ IsInjective(f[y].queue)
      BY DEF QueuesMatch
    <3> QED
      BY <1>1, <2>2, <3>1, <3>2 DEF Moved
  <2> QED
    BY <2>1, <2>2
<1> QED
  BY <1>2 DEF QueuesMatch, ns

(* The body of wait.c, called where no loop is under way. *)
LEMMA WaitOnInv ==
  ASSUME IInv, NEW s \in Sem, isUsed(s), WaitOn(s), Top(curr).at \notin Loops,
         curr # NULLPROC, kstack' \in Stacks, NoLoops(kstack'), nextsem' = nextsem,
         UNCHANGED <<clkVars, procVars>>
  PROVE  IInv'
<1>0. /\ Top(curr).at \notin Loops /\ nextsem' = nextsem
      /\ curr # NULLPROC /\ semaph[s].sstate = "SUSED"
  BY DEF isUsed
<1>1. /\ Core(sched) /\ Highest(sched) /\ curr \in Proc
      /\ sched.pstate[curr] = "PRCURR" /\ kstack' \in Stacks /\ NoLoops(kstack') /\ PInv'
      /\ SleepMatch(clockq, sched.pstate) /\ clockq' = clockq
  BY <1>0, QuietStart DEF PInv, procVars, clkVars
<1>2. /\ SemTyped(semaph, psem, nextsem) /\ QueuesMatch(semaph, psem, sched.pstate)
      /\ \A x \in Sem : CountMatches(semaph[x])
  BY <1>0, QuietStart
<1>3. /\ semaph \in [Sem -> SemRec] /\ psem \in [Proc -> Sem] /\ nextsem \in Sem
      /\ semaph[s].semcnt \in Int /\ semaph[s].queue \in Seq(Proc)
      /\ Len(semaph[s].queue) \in Nat
  BY <1>2, SemFacts
<1>3a. Class(sched.pstate[curr]) \notin Queued
  BY <1>1, StatesDistinct
<1>3b. Len(semaph[s].queue) = IF semaph[s].semcnt < 0 THEN -semaph[s].semcnt ELSE 0
  BY <1>0, <1>2 DEF CountMatches
<1> DEFINE q == semaph[s].queue
<1>3c. PICK n \in Int : n = semaph[s].semcnt - 1
  BY <1>3
<1>4. CASE semaph[s].semcnt - 1 < 0
  <2>1. /\ semaph' = [semaph EXCEPT ![s].semcnt = @ - 1, ![s].queue = Append(@, curr)]
        /\ psem' = [psem EXCEPT ![curr] = s]
        /\ sched' = Resched(Block(sched, curr, "PRWAIT"))
    BY <1>4 DEF WaitOn
  <2>2. curr \notin ToSet(q) /\ IsInjective(q)
    BY <1>2, <1>3a DEF QueuesMatch, Queued
  <2>3. PICK r : r = Append(q, curr)
    OBVIOUS
  <2>4. /\ r \in Seq(Proc) /\ Len(r) = Len(q) + 1 /\ IsInjective(r)
        /\ ToSet(r) = ToSet(q) \cup {curr}
    BY <1>1, <1>3, <2>2, <2>3, AppendQueueFacts
  <2>5. semaph' = [semaph EXCEPT ![s].semcnt = n, ![s].queue = r]
    BY <1>3, <1>3c, <2>1, <2>3 DEF SemRec
  <2>6. SemUpd(semaph, semaph', s, "SUSED", n, r)
    <3>1. SemUpd(semaph, semaph', s, semaph[s].sstate, n, r)
      BY <1>3, <2>4, <2>5, SetCountQueue, Zenon
    <3> QED
      BY <1>0, <3>1
  <2>7. Core(sched') /\ Highest(sched') /\ Moved(sched, sched', curr, "PRWAIT")
    BY <1>0, <1>1, <2>1, BlockReschedStep, StatesDistinct DEF Queued
  <2>8. SemTyped(semaph', psem', nextsem')
    <3>1. psem' \in [Proc -> Sem]
      BY <1>3, <2>1
    <3> QED
      BY <1>0, <1>3, <2>6, <3>1, SemTypedUpd
  <2>9. QueuesMatch(semaph', psem', sched'.pstate)
    <3>1. Class(sched.pstate[curr]) # "PRWAIT"
      BY <1>3a DEF Queued
    <3> QED
      BY <1>1, <1>2, <1>3, <2>1, <2>4, <2>6, <2>7, <3>1, EnterSemQueue
  <2>10. \A x \in Sem : CountMatches(semaph'[x])
    <3>1. Len(r) = IF "SUSED" = "SUSED" /\ n < 0 THEN -n ELSE 0
      BY <1>3, <1>3b, <1>3c, <1>4, <2>4
    <3> QED
      BY <1>2, <2>6, <3>1, CountsUpd
  <2>11. SleepMatch(clockq', sched'.pstate)
    <3>1. /\ Class(sched.pstate[curr]) \notin {"PRSLEEP", "PRTRECV"}
          /\ "PRWAIT" \notin {"PRSLEEP", "PRTRECV"}
      BY <1>3a DEF Queued
    <3> QED
      BY <1>1, <2>7, <3>1, SleepMatchMoved
  <2> QED
    BY <1>1, <2>7, <2>8, <2>9, <2>10, <2>11, QuietNext
<1>5. CASE ~(semaph[s].semcnt - 1 < 0)
  <2>1. semaph' = [semaph EXCEPT ![s].semcnt = n] /\ psem' = psem /\ sched' = sched
    BY <1>3c, <1>5 DEF WaitOn
  <2>2. SemUpd(semaph, semaph', s, "SUSED", n, q)
    <3>1. SemUpd(semaph, semaph', s, semaph[s].sstate, n, q)
      BY <1>3, <2>1, SetCount, Zenon
    <3> QED
      BY <1>0, <3>1
  <2>3. SemTyped(semaph', psem', nextsem')
    BY <1>0, <1>3, <2>1, <2>2, SemTypedUpd
  <2>4. QueuesMatch(semaph', psem', sched'.pstate)
    BY <1>2, <2>1, <2>2, QueuesMatchUpd
  <2>5. \A x \in Sem : CountMatches(semaph'[x])
    <3>1. Len(q) = IF "SUSED" = "SUSED" /\ n < 0 THEN -n ELSE 0
      BY <1>3, <1>3b, <1>3c, <1>5
    <3> QED
      BY <1>2, <2>2, <3>1, CountsUpd
  <2> QED
    BY <1>1, <2>1, <2>3, <2>4, <2>5, QuietNext
<1> QED
  BY <1>4, <1>5

LEMMA WaitInv ==
  ASSUME IInv, NEW s \in Sem, Wait(s), UNCHANGED <<clkVars, msgVars, procVars>>
  PROVE  IInv'
<1>1. /\ Top(curr).at \notin Loops /\ kstack' = kstack /\ nextsem' = nextsem
      /\ curr # NULLPROC /\ isUsed(s) /\ WaitOn(s)
  BY InUserTop DEF Wait, Calling
<1>2. kstack' \in Stacks /\ NoLoops(kstack')
  BY <1>1, QuietStart
<1> QED
  BY <1>1, <1>2, WaitOnInv

(* The head of the queue of semaphore s becomes runnable. *)
LEMMA QueueHeadFacts ==
  ASSUME SemTyped(semaph, psem, nextsem), QueuesMatch(semaph, psem, sched.pstate),
         NEW s \in Sem, semaph[s].queue # <<>>
  PROVE  /\ Head(semaph[s].queue) \in Proc
         /\ Head(semaph[s].queue) \in ToSet(semaph[s].queue)
         /\ sched.pstate[Head(semaph[s].queue)] \notin Runnable
         /\ Class(sched.pstate[Head(semaph[s].queue)]) = "PRWAIT"
         /\ Tail(semaph[s].queue) \in Seq(Proc)
         /\ IsInjective(Tail(semaph[s].queue))
         /\ ToSet(Tail(semaph[s].queue)) =
              ToSet(semaph[s].queue) \ {Head(semaph[s].queue)}
         /\ Len(Tail(semaph[s].queue)) = Len(semaph[s].queue) - 1
<1>1. PICK q : q = semaph[s].queue
  OBVIOUS
<1>2. q \in Seq(Proc) /\ q # <<>> /\ IsInjective(q)
  BY <1>1, SemFacts DEF QueuesMatch
<1>3. PICK h : h = Head(q)
  OBVIOUS
<1>4. /\ Tail(q) \in Seq(Proc) /\ Len(Tail(q)) = Len(q) - 1
      /\ h \in ToSet(q) /\ h \in Proc
      /\ IsInjective(Tail(q)) /\ ToSet(Tail(q)) = ToSet(q) \ {h}
  BY <1>2, <1>3, TailQueueFacts
<1>5. sched.pstate[h] \notin Runnable /\ Class(sched.pstate[h]) = "PRWAIT"
  <2>1. h \in ToSet(semaph[s].queue)
    BY <1>1, <1>4
  <2>2. ToSet(semaph[s].queue) = {p \in Proc : /\ Class(sched.pstate[p]) = "PRWAIT"
                                              /\ psem[p] = s}
    BY DEF QueuesMatch
  <2>3. Class(sched.pstate[h]) = "PRWAIT"
    BY <2>1, <2>2
  <2> QED
    BY <2>3 DEF Class, Runnable
<1> QED
  BY <1>1, <1>3, <1>4, <1>5

LEMMA ReleaseHead ==
  ASSUME SemTyped(semaph, psem, nextsem), QueuesMatch(semaph, psem, sched.pstate),
         SleepMatch(clockq, sched.pstate),
         NEW s \in Sem, semaph[s].queue # <<>>,
         NEW t, Moved(sched, t, Head(semaph[s].queue), "RUN"), NEW g, NEW st, NEW n,
         SemUpd(semaph, g, s, st, n, Tail(semaph[s].queue))
  PROVE  QueuesMatch(g, psem, t.pstate) /\ SleepMatch(clockq, t.pstate)
<1>1. PICK h : h = Head(semaph[s].queue)
  OBVIOUS
<1>2. /\ h \in Proc /\ h \in ToSet(semaph[s].queue) /\ Moved(sched, t, h, "RUN")
      /\ Class(sched.pstate[h]) = "PRWAIT"
  BY <1>1, QueueHeadFacts
<1>3. /\ IsInjective(g[s].queue) /\ ToSet(g[s].queue) = ToSet(semaph[s].queue) \ {h}
      /\ \A y \in Sem \ {s} : g[y] = semaph[y]
  BY <1>1, QueueHeadFacts DEF SemUpd
<1>4. QueuesMatch(g, psem, t.pstate)
  BY <1>2, <1>3, LeaveSemQueue
<1>5. SleepMatch(clockq, t.pstate)
  <2>1. /\ "RUN" \notin {"PRSLEEP", "PRTRECV"}
        /\ Class(sched.pstate[h]) \notin {"PRSLEEP", "PRTRECV"}
    BY <1>2
  <2> QED
    BY <1>2, <2>1, SleepMatchMoved
<1> QED
  BY <1>4, <1>5

Released(s) == semaph' = [semaph EXCEPT ![s].semcnt = @ + 1, ![s].queue = Tail(@)]

(* `semcnt++', with and without a process to release. *)
LEMMA SignalReleases ==
  ASSUME SemTyped(semaph, psem, nextsem), NEW s \in Sem, semaph[s].sstate = "SUSED",
         QueuesMatch(semaph, psem, sched.pstate),
         \A x \in Sem : CountMatches(semaph[x]), semaph[s].semcnt < 0, Released(s)
  PROVE  /\ semaph[s].queue # <<>>
         /\ SemUpd(semaph, semaph', s, "SUSED", semaph[s].semcnt + 1,
                   Tail(semaph[s].queue))
         /\ \A x \in Sem : CountMatches(semaph'[x])
<1>1. /\ semaph \in [Sem -> SemRec] /\ semaph[s].semcnt \in Int
      /\ semaph[s].queue \in Seq(Proc) /\ Len(semaph[s].queue) \in Nat
  BY SemFacts
<1>2. Len(semaph[s].queue) = -semaph[s].semcnt /\ Len(semaph[s].queue) # 0
  BY <1>1 DEF CountMatches
<1>3. semaph[s].queue # <<>>
  BY <1>2
<1>4. PICK r : r = Tail(semaph[s].queue)
  OBVIOUS
<1>5. r \in Seq(Proc) /\ Len(r) = Len(semaph[s].queue) - 1
  BY <1>3, <1>4, QueueHeadFacts
<1>6. PICK n \in Int : n = semaph[s].semcnt + 1
  BY <1>1
<1>7. semaph' = [semaph EXCEPT ![s].semcnt = n, ![s].queue = r]
  BY <1>1, <1>4, <1>6 DEF SemRec, Released
<1>8. SemUpd(semaph, semaph', s, semaph[s].sstate, n, r)
  BY <1>1, <1>5, <1>7, SetCountQueue, Zenon
<1>9. Len(r) = IF "SUSED" = "SUSED" /\ n < 0 THEN -n ELSE 0
  BY <1>1, <1>2, <1>5, <1>6
<1>10. SemUpd(semaph, semaph', s, "SUSED", n, r)
  BY <1>8
<1>11. \A x \in Sem : CountMatches(semaph'[x])
  BY <1>9, <1>10, CountsUpd
<1> QED
  BY <1>3, <1>4, <1>6, <1>10, <1>11

LEMMA SignalFree ==
  ASSUME SemTyped(semaph, psem, nextsem), NEW s \in Sem, semaph[s].sstate = "SUSED",
         \A x \in Sem : CountMatches(semaph[x]), ~(semaph[s].semcnt < 0),
         semaph' = [semaph EXCEPT ![s].semcnt = @ + 1]
  PROVE  /\ SemUpd(semaph, semaph', s, "SUSED", semaph[s].semcnt + 1, semaph[s].queue)
         /\ \A x \in Sem : CountMatches(semaph'[x])
<1>1. /\ semaph \in [Sem -> SemRec] /\ semaph[s].semcnt \in Int
      /\ semaph[s].queue \in Seq(Proc) /\ Len(semaph[s].queue) \in Nat
  BY SemFacts
<1>2. Len(semaph[s].queue) = 0
  BY <1>1 DEF CountMatches
<1>6. PICK n \in Int : n = semaph[s].semcnt + 1
  BY <1>1
<1>7. semaph' = [semaph EXCEPT ![s].semcnt = n]
  BY <1>6
<1>8. SemUpd(semaph, semaph', s, semaph[s].sstate, n, semaph[s].queue)
  BY <1>1, <1>7, SetCount, Zenon
<1>9. Len(semaph[s].queue) = IF "SUSED" = "SUSED" /\ n < 0 THEN -n ELSE 0
  BY <1>1, <1>2, <1>6
<1>10. SemUpd(semaph, semaph', s, "SUSED", n, semaph[s].queue)
  BY <1>8
<1>11. \A x \in Sem : CountMatches(semaph'[x])
  BY <1>9, <1>10, CountsUpd
<1> QED
  BY <1>6, <1>10, <1>11

(* The body of signal.c, called where no loop is under way. *)
LEMMA SignalOnceInv ==
  ASSUME IInv, NEW s \in Sem, isUsed(s), SignalOnce(s, Resched), Top(curr).at \notin Loops,
         kstack' \in Stacks, NoLoops(kstack'), psem' = psem, nextsem' = nextsem,
         UNCHANGED <<clkVars, procVars>>
  PROVE  IInv'
<1>0. /\ Top(curr).at \notin Loops /\ nextsem' = nextsem
      /\ psem' = psem /\ semaph[s].sstate = "SUSED"
  BY DEF isUsed
<1>1. /\ Core(sched) /\ Highest(sched) /\ kstack' \in Stacks /\ NoLoops(kstack') /\ PInv'
      /\ SleepMatch(clockq, sched.pstate) /\ clockq' = clockq
  BY <1>0, QuietStart DEF PInv, procVars, clkVars
<1>2. /\ SemTyped(semaph, psem, nextsem) /\ QueuesMatch(semaph, psem, sched.pstate)
      /\ \A x \in Sem : CountMatches(semaph[x])
      /\ psem' \in [Proc -> Sem] /\ nextsem' \in Sem
  BY <1>0, QuietStart, SemFacts
<1>3. CASE semaph[s].semcnt < 0
  <2>1. /\ semaph' = [semaph EXCEPT ![s].semcnt = @ + 1, ![s].queue = Tail(@)]
        /\ sched' = Resched(Ready(sched, Head(semaph[s].queue)))
    BY <1>3 DEF SignalOnce
  <2>2. PICK n, r : SemUpd(semaph, semaph', s, "SUSED", n, r) /\ r = Tail(semaph[s].queue)
    BY <1>0, <1>2, <1>3, <2>1, SignalReleases DEF Released
  <2>3. semaph[s].queue # <<>> /\ \A x \in Sem : CountMatches(semaph'[x])
    BY <1>0, <1>2, <1>3, <2>1, SignalReleases DEF Released
  <2>4. PICK h : h = Head(semaph[s].queue)
    OBVIOUS
  <2>5. h \in Proc /\ sched.pstate[h] \notin Runnable
    BY <1>2, <2>3, <2>4, QueueHeadFacts
  <2>6. Core(sched') /\ Highest(sched') /\ Moved(sched, sched', h, "RUN")
    BY <1>1, <2>1, <2>4, <2>5, ReadyReschedStep
  <2>7. QueuesMatch(semaph', psem', sched'.pstate) /\ SleepMatch(clockq', sched'.pstate)
    BY <1>0, <1>1, <1>2, <2>2, <2>3, <2>4, <2>6, ReleaseHead
  <2>8. SemTyped(semaph', psem', nextsem')
    BY <1>2, <2>2, SemTypedUpd
  <2> QED
    BY <1>1, <2>3, <2>6, <2>7, <2>8, QuietNext
<1>4. CASE ~(semaph[s].semcnt < 0)
  <2>1. semaph' = [semaph EXCEPT ![s].semcnt = @ + 1] /\ sched' = sched
    BY <1>4 DEF SignalOnce
  <2>2. PICK n, q : SemUpd(semaph, semaph', s, "SUSED", n, q) /\ q = semaph[s].queue
    BY <1>0, <1>2, <1>4, <2>1, SignalFree
  <2>3. \A x \in Sem : CountMatches(semaph'[x])
    BY <1>0, <1>2, <1>4, <2>1, SignalFree
  <2>4. SemTyped(semaph', psem', nextsem')
    BY <1>2, <2>2, SemTypedUpd
  <2>5. QueuesMatch(semaph', psem', sched'.pstate)
    BY ZenonT(60), <1>0, <1>2, <2>1, <2>2, QueuesMatchUpd
  <2> QED
    BY <1>1, <2>1, <2>3, <2>4, <2>5, QuietNext
<1> QED
  BY <1>3, <1>4

LEMMA SignalInv ==
  ASSUME IInv, NEW s \in Sem, Signal(s), UNCHANGED <<clkVars, msgVars, procVars>>
  PROVE  IInv'
<1>1. /\ Top(curr).at \notin Loops /\ kstack' = kstack /\ psem' = psem
      /\ nextsem' = nextsem /\ isUsed(s) /\ SignalOnce(s, Resched)
  BY InUserTop DEF Signal, Calling
<1>2. kstack' \in Stacks /\ NoLoops(kstack')
  BY <1>1, QuietStart
<1> QED
  BY <1>1, <1>2, SignalOnceInv

------------------------------------------------------------------------------
(***************************************************************************)
(* The loops of signaln, sreset and sdelete.                               *)
(***************************************************************************)

LEMMA CallOne ==
  ASSUME IInv, Top(curr).at \notin Loops, NEW f \in Frame, Call(<<f>>)
  PROVE  /\ kstack' \in Stacks /\ OnlyLoopAt(kstack', curr)
         /\ TopOf(kstack', curr) = f
         /\ f.at \notin Loops => NoLoops(kstack')
<1>1. kstack \in Stacks /\ NoLoops(kstack) /\ curr \in Proc
  BY QuietStart
<1>2. PICK fs : fs = <<f>>
  OBVIOUS
<1>3. /\ fs \in Seq(Frame) /\ fs # <<>> /\ fs[1] = f
      /\ \A i \in DOMAIN fs : fs[i].at \in Loops => i = 1
  BY <1>2
<1>4. kstack' = [kstack EXCEPT ![curr] = fs \o @]
  BY <1>2 DEF Call
<1> DEFINE n == [kstack EXCEPT ![curr] = fs \o @]
<1>5. /\ n \in Stacks /\ TopOf(n, curr) = fs[1] /\ (fs[1].at \notin Loops => NoLoops(n))
      /\ \A p \in Proc : \A i \in DOMAIN n[p] : n[p][i].at \in Loops => p = curr /\ i = 1
  BY <1>1, <1>3, PushFacts
<1> HIDE DEF n
<1>6. kstack' = n
  BY <1>4 DEF n
<1> QED
  BY <1>3, <1>5, <1>6 DEF OnlyLoopAt

LEMMA GotoOne ==
  ASSUME IInv, Top(curr).at # "user", NEW f \in Frame, Goto(f)
  PROVE  kstack' \in Stacks /\ OnlyLoopAt(kstack', curr) /\ TopOf(kstack', curr) = f
<1>1. kstack \in Stacks /\ OnlyLoopAt(kstack, curr) /\ curr \in Proc /\ kstack[curr] # <<>>
  BY AnyStart, InCall
<1>2. \A p \in Proc : \A i \in DOMAIN kstack[p] :
        kstack[p][i].at \in Loops => p = curr /\ i = 1
  BY <1>1 DEF OnlyLoopAt
<1> DEFINE t == [kstack EXCEPT ![curr] = Tail(@)]
<1>3. t \in Stacks /\ NoLoops(t)
  BY <1>1, <1>2, PopFacts
<1>4. PICK fs : fs = <<f>>
  OBVIOUS
<1>5. /\ fs \in Seq(Frame) /\ fs # <<>> /\ fs[1] = f
      /\ \A i \in DOMAIN fs : fs[i].at \in Loops => i = 1
  BY <1>4
<1>6. kstack' = [t EXCEPT ![curr] = fs \o @]
  BY <1>1, <1>4 DEF Goto, Stacks
<1> HIDE DEF t
<1> DEFINE m == [t EXCEPT ![curr] = fs \o @]
<1>7. /\ m \in Stacks /\ TopOf(m, curr) = fs[1]
      /\ \A p \in Proc : \A i \in DOMAIN m[p] : m[p][i].at \in Loops => p = curr /\ i = 1
  BY ZenonT(60), <1>1, <1>3, <1>5, PushFacts
<1>8. kstack' = m
  BY <1>6
<1> HIDE DEF m
<1> QED
  BY <1>5, <1>7, <1>8 DEF OnlyLoopAt

LEMMA ReturnOne ==
  ASSUME IInv, Top(curr).at # "user", Return
  PROVE  kstack' \in Stacks /\ NoLoops(kstack')
<1>1. kstack \in Stacks /\ OnlyLoopAt(kstack, curr) /\ curr \in Proc /\ kstack[curr] # <<>>
  BY AnyStart, InCall
<1>2. \A p \in Proc : \A i \in DOMAIN kstack[p] :
        kstack[p][i].at \in Loops => p = curr /\ i = 1
  BY <1>1 DEF OnlyLoopAt
<1> DEFINE n == [kstack EXCEPT ![curr] = Tail(@)]
<1>3. n \in Stacks /\ NoLoops(n)
  BY <1>1, <1>2, PopFacts
<1>4. kstack' = n
  BY DEF Return
<1> QED
  BY <1>3, <1>4

(* A loop begins that has changed nothing yet. *)
LEMMA LoopStart ==
  ASSUME IInv, Top(curr).at \notin Loops, NEW at \in {"signaln", "sreset"}, NEW s \in Sem,
         isUsed(s), kstack' \in Stacks, OnlyLoopAt(kstack', curr),
         TopOf(kstack', curr).at = at, TopOf(kstack', curr).arg = s,
         UNCHANGED <<sched, semVars, clkVars, procVars>>
  PROVE  IInv'
<1>0. /\ Top(curr).at \notin Loops /\ sched' = sched /\ sched'.currpid = curr
      /\ semaph' = semaph /\ psem' = psem /\ nextsem' = nextsem /\ clockq' = clockq
      /\ semaph[s].sstate = "SUSED"
  BY DEF semVars, clkVars, curr, isUsed
<1>1. PInv' /\ curr \in Proc /\ sched.pstate[curr] = "PRCURR"
  BY <1>0, QuietStart DEF PInv, procVars
<1>2. /\ Core(sched') /\ sched'.currpid = curr /\ sched'.pstate[curr] = "PRCURR"
      /\ SemTyped(semaph', psem', nextsem') /\ QueuesMatch(semaph', psem', sched'.pstate)
      /\ SleepMatch(clockq', sched'.pstate)
  BY <1>0, <1>1, QuietStart
<1>3. at \in Loops /\ LoopSems(at, s, semaph')
  BY <1>0, QuietStart DEF Loops, LoopSems
<1> QED
  BY <1>1, <1>2, <1>3, LoopNext

LEMMA SignalnInv ==
  ASSUME IInv, NEW s \in Sem, NEW count \in 0..MaxCount, Signaln(s, count),
         UNCHANGED <<clkVars, msgVars, procVars>>
  PROVE  IInv'
<1> DEFINE f == At("signaln", s, count)
<1>0. Top(curr).at \notin Loops
  BY InUserTop DEF Signaln, Calling
<1>1. f \in Frame /\ f.at = "signaln" /\ f.arg = s
  <2>1. s \in Int /\ count \in Int /\ count \in Nat
    BY MaxCountAssumption, NSEMAssumption DEF Sem
  <2>2. "signaln" \in Points /\ "signaln" # "kill"
    BY DEF Points
  <2> QED
    BY <2>1, <2>2, FrameFacts
<1>2. Call(<<f>>)
  BY DEF Signaln
<1> HIDE DEF f
<1>3. kstack' \in Stacks /\ OnlyLoopAt(kstack', curr) /\ TopOf(kstack', curr) = f
  BY <1>0, <1>1, <1>2, CallOne
<1>4. UNCHANGED <<sched, semVars, clkVars, procVars>> /\ isUsed(s)
  BY DEF Signaln
<1> QED
  BY <1>0, <1>1, <1>3, <1>4, LoopStart

LEMMA SresetInv ==
  ASSUME IInv, NEW s \in Sem, NEW count \in 0..MaxCount, Sreset(s, count),
         UNCHANGED <<clkVars, msgVars, procVars>>
  PROVE  IInv'
<1> DEFINE f == At("sreset", s, count)
<1>0. Top(curr).at \notin Loops
  BY InUserTop DEF Sreset, Calling
<1>1. f \in Frame /\ f.at = "sreset" /\ f.arg = s
  <2>1. s \in Int /\ count \in Int /\ count \in Nat
    BY MaxCountAssumption, NSEMAssumption DEF Sem
  <2>2. "sreset" \in Points /\ "sreset" # "kill"
    BY DEF Points
  <2> QED
    BY <2>1, <2>2, FrameFacts
<1>2. Call(<<f>>)
  BY DEF Sreset
<1> HIDE DEF f
<1>3. kstack' \in Stacks /\ OnlyLoopAt(kstack', curr) /\ TopOf(kstack', curr) = f
  BY <1>0, <1>1, <1>2, CallOne
<1>4. UNCHANGED <<sched, semVars, clkVars, procVars>> /\ isUsed(s)
  BY DEF Sreset
<1> QED
  BY <1>0, <1>1, <1>3, <1>4, LoopStart

(* The first part of sdelete.c: the entry becomes free. *)
LEMMA FreeSemInv ==
  ASSUME IInv, Top(curr).at \notin Loops, NEW s \in Sem,
         semaph' = [semaph EXCEPT ![s].sstate = "SFREE"],
         kstack' \in Stacks, semaph[s].queue = <<>> => NoLoops(kstack'),
         semaph[s].queue # <<>> => /\ OnlyLoopAt(kstack', curr)
                                   /\ TopOf(kstack', curr).at = "sdelete"
                                   /\ TopOf(kstack', curr).arg = s,
         UNCHANGED <<sched, psem, nextsem, clkVars, procVars>>
  PROVE  IInv'
<1> DEFINE q == semaph[s].queue
           n == semaph[s].semcnt
<1>0. /\ sched' = sched /\ sched'.currpid = curr
      /\ psem' = psem /\ nextsem' = nextsem /\ clockq' = clockq
  BY DEF clkVars, curr
<1>1. /\ PInv' /\ curr \in Proc /\ sched.pstate[curr] = "PRCURR" /\ Core(sched)
      /\ Highest(sched)
      /\ SleepMatch(clockq, sched.pstate) /\ QueuesMatch(semaph, psem, sched.pstate)
      /\ \A x \in Sem : CountMatches(semaph[x])
  BY <1>0, QuietStart DEF PInv, procVars
<1>2. semaph \in [Sem -> SemRec] /\ psem \in [Proc -> Sem] /\ nextsem \in Sem
  BY <1>0, QuietStart, SemFacts
<1>3. SemUpd(semaph, semaph', s, "SFREE", n, q)
  BY <1>0, <1>2, SetState, Zenon
<1>4. SemTyped(semaph', psem', nextsem')
  BY <1>0, <1>2, <1>3, SemTypedUpd
<1>5. QueuesMatch(semaph', psem', sched'.pstate)
  BY <1>0, <1>1, <1>3, QueuesMatchUpd
<1>6. CASE q = <<>>
  <2>1. Len(q) = IF "SFREE" = "SUSED" /\ n < 0 THEN -n ELSE 0
    BY <1>6
  <2>2. \A x \in Sem : CountMatches(semaph'[x])
    BY ZenonT(60), <1>1, <1>3, <2>1, CountsUpd
  <2> QED
    BY <1>0, <1>1, <1>4, <1>5, <1>6, <2>2, QuietNext
<1>7. CASE q # <<>>
  <2>1. /\ semaph'[s].sstate # "SUSED"
        /\ \A y \in Sem : y = s \/ CountMatches(semaph'[y])
    BY <1>1, <1>3 DEF SemUpd
  <2>2. /\ Core(sched') /\ sched'.currpid = curr /\ sched'.pstate[curr] = "PRCURR"
        /\ SleepMatch(clockq', sched'.pstate)
    BY <1>0, <1>1
  <2>3. "sdelete" \in Loops /\ LoopSems("sdelete", s, semaph')
    BY <2>1 DEF Loops, LoopSems
  <2> QED
    BY <1>1, <1>4, <1>5, <1>7, <2>2, <2>3, LoopNext
<1> QED
  BY <1>6, <1>7

LEMMA SdeleteInv ==
  ASSUME IInv, NEW s \in Sem, Sdelete(s), UNCHANGED <<clkVars, msgVars, procVars>>
  PROVE  IInv'
<1> DEFINE f == At("sdelete", s, 0)
<1>0. /\ Top(curr).at \notin Loops /\ semaph' = [semaph EXCEPT ![s].sstate = "SFREE"]
      /\ UNCHANGED <<sched, psem, nextsem, clkVars, procVars>>
  BY InUserTop DEF Sdelete, Calling
<1>1. CASE semaph[s].queue = <<>>
  <2>1. kstack' = kstack
    BY <1>1 DEF Sdelete
  <2>2. kstack' \in Stacks /\ NoLoops(kstack')
    BY <1>0, <2>1, QuietStart
  <2> QED
    BY <1>0, <1>1, <2>2, FreeSemInv
<1>2. CASE semaph[s].queue # <<>>
  <2>1. f \in Frame /\ f.at = "sdelete" /\ f.arg = s
    <3>1. s \in Int /\ 0 \in Int
      BY NSEMAssumption DEF Sem
    <3>2. /\ "sdelete" \in Points /\ "sdelete" # "kill"
          /\ "sdelete" \notin {"signaln", "sreset"}
      BY DEF Points
    <3> QED
      BY <3>1, <3>2, FrameFacts
  <2>2. Call(<<f>>)
    BY <1>2 DEF Sdelete
  <2> HIDE DEF f
  <2>3. kstack' \in Stacks /\ OnlyLoopAt(kstack', curr) /\ TopOf(kstack', curr) = f
    BY <1>0, <2>1, <2>2, CallOne
  <2> QED
    BY <1>0, <1>2, <2>1, <2>3, FreeSemInv
<1> QED
  BY <1>1, <1>2

LEMMA SignalnLoopInv ==
  ASSUME IInv, SignalnLoop, UNCHANGED <<clkVars, msgVars, procVars>>
  PROVE  IInv'
<1> DEFINE s == Top(curr).arg
           n == Top(curr).cnt
<1>0. Top(curr).at = "signaln" /\ psem' = psem /\ nextsem' = nextsem /\ clockq' = clockq
  BY DEF SignalnLoop, clkVars
<1>1. /\ Core(sched) /\ curr \in Proc /\ sched.pstate[curr] = "PRCURR" /\ PInv'
      /\ SemTyped(semaph, psem, nextsem) /\ QueuesMatch(semaph, psem, sched.pstate)
      /\ SleepMatch(clockq, sched.pstate)
  BY AnyStart DEF PInv, procVars
<1>2. Top(curr) \in Frame /\ s \in Sem /\ n \in Nat /\ s \in Int /\ n \in Int
  BY <1>0, InCall DEF Frame
<1>3. semaph[s].sstate = "SUSED"
  BY <1>0 DEF IInv, QInv, isUsed
<1>4. \A x \in Sem : CountMatches(semaph[x])
  BY <1>0, AnyStart DEF Emptying
<1>4a. psem' \in [Proc -> Sem] /\ nextsem' \in Sem
  BY <1>0, <1>1, <1>2, SemFacts
<1> HIDE DEF s, n
<1>5. CASE n > 0 /\ SignalOnce(s, Same) /\ Goto(At("signaln", s, n - 1))
  <2> DEFINE f == At("signaln", s, n - 1)
  <2>1. f \in Frame /\ f.at = "signaln" /\ f.arg = s
    <3>1. n - 1 \in Nat /\ n - 1 \in Int
      BY <1>2, <1>5
    <3>2. "signaln" \in Points /\ "signaln" # "kill"
      BY DEF Points
    <3> QED
      BY <1>2, <3>1, <3>2, FrameFacts
  <2>2. Goto(f)
    BY <1>5
  <2> HIDE DEF f
  <2>3. /\ kstack' \in Stacks /\ OnlyLoopAt(kstack', curr)
        /\ TopOf(kstack', curr).at = "signaln" /\ TopOf(kstack', curr).arg = s
    BY <1>0, <2>1, <2>2, GotoOne
  <2>4. CASE semaph[s].semcnt < 0
    <3>1. /\ semaph' = [semaph EXCEPT ![s].semcnt = @ + 1, ![s].queue = Tail(@)]
          /\ sched' = Ready(sched, Head(semaph[s].queue))
      BY <1>5, <2>4 DEF SignalOnce, Same
    <3>2. PICK m, r : SemUpd(semaph, semaph', s, "SUSED", m, r) /\ r = Tail(semaph[s].queue)
      BY <1>1, <1>2, <1>3, <1>4, <2>4, <3>1, SignalReleases DEF Released
    <3>3. semaph[s].queue # <<>> /\ \A x \in Sem : CountMatches(semaph'[x])
      BY <1>1, <1>2, <1>3, <1>4, <2>4, <3>1, SignalReleases DEF Released
    <3>4. PICK h : h = Head(semaph[s].queue)
      OBVIOUS
    <3>5. h \in Proc /\ sched.pstate[h] \notin Runnable
      BY <1>1, <1>2, <3>3, <3>4, QueueHeadFacts
    <3>6. /\ Core(sched') /\ Moved(sched, sched', h, "RUN")
          /\ sched'.currpid = curr /\ sched'.pstate[curr] = "PRCURR"
      BY <1>1, <3>1, <3>4, <3>5, ReadyStep DEF curr
    <3>7. QueuesMatch(semaph', psem', sched'.pstate) /\ SleepMatch(clockq', sched'.pstate)
      BY <1>0, <1>1, <1>2, <3>2, <3>3, <3>4, <3>6, ReleaseHead
    <3>8. SemTyped(semaph', psem', nextsem')
      BY <1>4a, <3>2, SemTypedUpd
    <3>9. "signaln" \in Loops /\ LoopSems("signaln", s, semaph')
      BY <3>2, <3>3 DEF Loops, LoopSems, SemUpd
    <3> QED
      BY <1>1, <2>3, <3>6, <3>7, <3>8, <3>9, LoopNext
  <2>5. CASE ~(semaph[s].semcnt < 0)
    <3>1. semaph' = [semaph EXCEPT ![s].semcnt = @ + 1] /\ sched' = sched
      BY <1>5, <2>5 DEF SignalOnce
    <3>2. PICK m, q : SemUpd(semaph, semaph', s, "SUSED", m, q) /\ q = semaph[s].queue
      BY <1>1, <1>2, <1>3, <1>4, <2>5, <3>1, SignalFree
    <3>3. \A x \in Sem : CountMatches(semaph'[x])
      BY <1>1, <1>2, <1>3, <1>4, <2>5, <3>1, SignalFree
    <3>4. SemTyped(semaph', psem', nextsem')
      BY <1>4a, <3>2, SemTypedUpd
    <3>5. QueuesMatch(semaph', psem', sched'.pstate)
      BY ZenonT(60), <1>0, <1>1, <1>2, <3>1, <3>2, QueuesMatchUpd
    <3>6. "signaln" \in Loops /\ LoopSems("signaln", s, semaph')
      BY <3>2, <3>3 DEF Loops, LoopSems, SemUpd
    <3>7. sched'.currpid = curr
      BY <3>1 DEF curr
    <3> QED
      BY <1>0, <1>1, <2>3, <3>1, <3>4, <3>5, <3>6, <3>7, LoopNext
  <2> QED
    BY <2>4, <2>5
<1>6. CASE n = 0 /\ sched' = Resched(sched) /\ Return /\ UNCHANGED semaph
  <2>1. kstack' \in Stacks /\ NoLoops(kstack')
    BY <1>0, <1>6, ReturnOne
  <2>2. Core(sched') /\ Highest(sched') /\ Still(sched, sched')
    BY <1>1, <1>6, ReschedStep
  <2>3. SameQueues(sched, sched')
    BY <2>2, StillSameQueues
  <2>4. QueuesMatch(semaph', psem', sched'.pstate) /\ SleepMatch(clockq', sched'.pstate)
    BY <1>0, <1>1, <1>6, <2>3, QueuesMatchSame, SleepMatchSame
  <2>5. SemTyped(semaph', psem', nextsem') /\ \A x \in Sem : CountMatches(semaph'[x])
    BY <1>0, <1>1, <1>4, <1>6
  <2> QED
    BY <1>1, <2>1, <2>2, <2>4, <2>5, QuietNext
<1> QED
  BY <1>5, <1>6 DEF SignalnLoop, s, n

LEMMA FlushLoopInv ==
  ASSUME IInv, FlushLoop, UNCHANGED <<clkVars, msgVars, procVars>>
  PROVE  IInv'
<1> DEFINE s == Top(curr).arg
           at == Top(curr).at
           q == semaph[s].queue
<1>0. /\ at \in {"sreset", "sdelete"} /\ at # "user" /\ at \in Loops
      /\ psem' = psem /\ nextsem' = nextsem /\ clockq' = clockq
  BY DEF FlushLoop, clkVars, Loops
<1>1. /\ Core(sched) /\ curr \in Proc /\ sched.pstate[curr] = "PRCURR" /\ PInv'
      /\ SemTyped(semaph, psem, nextsem) /\ QueuesMatch(semaph, psem, sched.pstate)
      /\ SleepMatch(clockq, sched.pstate) /\ kstack \in Stacks /\ OnlyLoopAt(kstack, curr)
  BY AnyStart DEF PInv, procVars
<1>2. Top(curr) \in Frame /\ s \in Sem /\ (at = "sreset" => Top(curr).cnt \in Nat)
  BY <1>0, InCall DEF Frame
<1>3. at = "sdelete" => semaph[s].sstate # "SUSED"
  BY <1>0 DEF IInv, QInv, isUsed
<1>4. \A x \in Sem : x = s \/ CountMatches(semaph[x])
  BY <1>0, AnyStart DEF Emptying
<1>5. /\ semaph \in [Sem -> SemRec] /\ psem' \in [Proc -> Sem] /\ nextsem' \in Sem
      /\ q \in Seq(Proc)
  BY <1>0, <1>1, <1>2, SemFacts
<1>6. TopOf(kstack, curr).at = at /\ TopOf(kstack, curr).arg = s
  BY TopIsTopOf
<1>6a. semaph[s].sstate \in {"SFREE", "SUSED"}
  BY <1>1, <1>2, SemFacts
<1>6b. PICK c : c = Top(curr).cnt
  OBVIOUS
<1>7. CASE /\ q # <<>> /\ semaph' = [semaph EXCEPT ![s].queue = Tail(@)]
           /\ sched' = Ready(sched, Head(q)) /\ UNCHANGED kstack
  <2>1. PICK r : r = Tail(q)
    OBVIOUS
  <2>2. PICK h : h = Head(q)
    OBVIOUS
  <2>3. h \in Proc /\ sched.pstate[h] \notin Runnable /\ r \in Seq(Proc)
    BY <1>1, <1>2, <1>7, <2>1, <2>2, QueueHeadFacts
  <2>4. semaph' = [semaph EXCEPT ![s].queue = r]
    BY <1>7, <2>1
  <2> HIDE DEF s, at
  <2>5. SemUpd(semaph, semaph', s, semaph[s].sstate, semaph[s].semcnt, r)
    BY <1>2, <1>5, <2>3, <2>4, SetQueue, Zenon
  <2>6. /\ Core(sched') /\ Moved(sched, sched', h, "RUN")
        /\ sched'.currpid = curr /\ sched'.pstate[curr] = "PRCURR"
    BY <1>1, <1>7, <2>2, <2>3, ReadyStep DEF curr
  <2>7. QueuesMatch(semaph', psem', sched'.pstate) /\ SleepMatch(clockq', sched'.pstate)
    BY <1>0, <1>1, <1>2, <1>7, <2>1, <2>2, <2>5, <2>6, ReleaseHead
  <2>8. SemTyped(semaph', psem', nextsem')
    BY <1>5, <2>5, SemTypedUpd
  <2>9. LoopSems(at, s, semaph')
    BY <1>0, <1>3, <1>4, <2>5 DEF LoopSems, SemUpd
  <2>10. /\ kstack' \in Stacks /\ OnlyLoopAt(kstack', curr)
         /\ TopOf(kstack', curr).at = at /\ TopOf(kstack', curr).arg = s
    BY <1>1, <1>6, <1>7
  <2> QED
    BY <1>0, <1>1, <2>6, <2>7, <2>8, <2>9, <2>10, LoopNext
<1>8. CASE /\ q = <<>> /\ sched' = Resched(sched) /\ Return
           /\ semaph' = IF at = "sreset" THEN [semaph EXCEPT ![s].semcnt = c] ELSE semaph
  <2>1. kstack' \in Stacks /\ NoLoops(kstack')
    BY <1>0, <1>8, ReturnOne
  <2>2. Core(sched') /\ Highest(sched') /\ Still(sched, sched')
    BY <1>1, <1>8, ReschedStep
  <2>3. SameQueues(sched, sched')
    BY <2>2, StillSameQueues
  <2>4. QueuesMatch(semaph, psem', sched'.pstate) /\ SleepMatch(clockq', sched'.pstate)
    BY <1>0, <1>1, <2>3, QueuesMatchSame, SleepMatchSame
  <2>5. Len(q) = 0
    BY <1>8
  <2> HIDE DEF s, at
  <2>6. CASE at = "sreset"
    <3>1. semaph' = [semaph EXCEPT ![s].semcnt = c] /\ c \in Int /\ c \in Nat
      BY <1>2, <1>6b, <1>8, <2>6
    <3>2. SemUpd(semaph, semaph', s, semaph[s].sstate, c, q)
      BY <1>2, <1>5, <3>1, SetCount, Zenon
    <3>3. SemTyped(semaph', psem', nextsem')
      BY <1>5, <3>2, SemTypedUpd
    <3>4. QueuesMatch(semaph', psem', sched'.pstate)
      BY <1>2, <2>4, <3>2, QueuesMatchUpd
    <3>5. CountMatches(semaph'[s])
      BY <2>5, <3>1, <3>2 DEF SemUpd, CountMatches
    <3>6. \A x \in Sem : CountMatches(semaph'[x])
      BY <1>4, <3>2, <3>5 DEF SemUpd
    <3> QED
      BY <1>1, <2>1, <2>2, <2>4, <3>3, <3>4, <3>6, QuietNext
  <2>7. CASE at # "sreset"
    <3>1. semaph' = semaph /\ at = "sdelete"
      BY <1>0, <1>8, <2>7
    <3>2. CountMatches(semaph[s])
      BY <1>3, <2>5, <3>1 DEF CountMatches
    <3>3. SemTyped(semaph', psem', nextsem') /\ \A x \in Sem : CountMatches(semaph'[x])
      BY <1>0, <1>1, <1>4, <3>1, <3>2
    <3> QED
      BY <1>1, <2>1, <2>2, <2>4, <3>1, <3>3, QuietNext
  <2> QED
    BY <2>6, <2>7
<1> QED
  BY <1>6b, <1>7, <1>8 DEF FlushLoop

(* create.c and screate.c search their tables within their bounds. *)
LEMMA ModBound ==
  ASSUME NEW n \in Nat \ {0}, NEW a \in Int
  PROVE  a % n \in 0..(n - 1)
OBVIOUS

(* The body of screate.c: a free semaphore, on which nobody waits, is taken. *)
LEMMA TakeSemInv ==
  ASSUME IInv, NEW count \in Nat, NEW i \in 0..(NSEM - 1), NextFree(i), TakeSem(i, count),
         Top(curr).at \notin Loops, sched' = sched, kstack' \in Stacks, NoLoops(kstack'),
         psem' = psem, UNCHANGED <<clkVars, procVars>>
  PROVE  IInv'
<1>0. /\ Top(curr).at \notin Loops /\ sched' = sched
      /\ psem' = psem /\ clockq' = clockq /\ count \in Int /\ count \in Nat
  BY DEF clkVars
<1>1. /\ Core(sched) /\ Highest(sched) /\ kstack' \in Stacks /\ NoLoops(kstack') /\ PInv'
      /\ SleepMatch(clockq, sched.pstate) /\ QueuesMatch(semaph, psem, sched.pstate)
      /\ \A x \in Sem : CountMatches(semaph[x]) /\ SemTyped(semaph, psem, nextsem)
  BY <1>0, QuietStart DEF PInv, procVars
<1>2. /\ ~isUsed(ProbeSem(i)) /\ nextsem' = ProbeSem(i + 1)
      /\ semaph' = [semaph EXCEPT ![ProbeSem(i)].sstate = "SUSED",
                                  ![ProbeSem(i)].semcnt = count]
  BY DEF NextFree, TakeSem
<1>3. PICK s : s = ProbeSem(i)
  OBVIOUS
<1>4. nextsem \in Int /\ i \in Int
  BY <1>1, NSEMAssumption DEF SemTyped, Sem
<1>5. s \in Sem /\ nextsem' \in Sem
  <2>1. (nextsem - i) % NSEM \in 0..(NSEM - 1)
    BY <1>4, NSEMAssumption, ModBound
  <2>2. (nextsem - (i + 1)) % NSEM \in 0..(NSEM - 1)
    BY <1>4, NSEMAssumption, ModBound
  <2> QED
    BY <1>2, <1>3, <2>1, <2>2 DEF ProbeSem, Sem
<1>6. /\ semaph \in [Sem -> SemRec] /\ psem \in [Proc -> Sem]
      /\ semaph[s].queue \in Seq(Proc) /\ semaph[s].sstate # "SUSED"
  BY <1>1, <1>2, <1>3, <1>5, SemFacts DEF isUsed
<1>7. semaph' = [semaph EXCEPT ![s].sstate = "SUSED", ![s].semcnt = count]
  BY <1>2, <1>3
<1>8. SemUpd(semaph, semaph', s, "SUSED", count, semaph[s].queue)
  <2>1. "SUSED" \in {"SFREE", "SUSED"}
    OBVIOUS
  <2> QED
    BY <1>0, <1>5, <1>6, <1>7, <2>1, SetStateCount, Zenon
<1>9. SemTyped(semaph', psem', nextsem')
  BY <1>0, <1>5, <1>6, <1>8, SemTypedUpd
<1>10. QueuesMatch(semaph', psem', sched'.pstate)
  BY <1>0, <1>1, <1>5, <1>8, QueuesMatchUpd
<1>11. Len(semaph[s].queue) = 0
  BY <1>1, <1>5, <1>6 DEF CountMatches
<1>12. \A x \in Sem : CountMatches(semaph'[x])
  <2>1. Len(semaph[s].queue) = IF "SUSED" = "SUSED" /\ count < 0 THEN -count ELSE 0
    BY <1>0, <1>11
  <2> QED
    BY <1>1, <1>5, <1>8, <2>1, CountsUpd
<1> QED
  BY <1>0, <1>1, <1>9, <1>10, <1>12, QuietNext

LEMMA ScreateInv ==
  ASSUME IInv, NEW count \in 0..MaxCount, Screate(count),
         UNCHANGED <<clkVars, msgVars, procVars>>
  PROVE  IInv'
<1>1. /\ Top(curr).at \notin Loops /\ sched' = sched /\ kstack' = kstack
      /\ psem' = psem /\ count \in Nat
  BY InUserTop, MaxCountAssumption DEF Screate, Calling
<1>2. kstack' \in Stacks /\ NoLoops(kstack')
  BY <1>1, QuietStart
<1>3. PICK i \in 0..(NSEM - 1) : NextFree(i) /\ TakeSem(i, count)
  BY DEF Screate
<1> QED
  BY <1>1, <1>2, <1>3, TakeSemInv

------------------------------------------------------------------------------
(***************************************************************************)
(* Messages and the clock.                                                 *)
(***************************************************************************)

Asleep == {"PRSLEEP", "PRTRECV"}

(* Who neither waits nor is going to: the semaphores are not concerned. *)
LEMMA QueuesMatchMoved ==
  ASSUME NEW s, NEW t, NEW p \in Proc, NEW c, Moved(s, t, p, c), NEW sems, NEW ps,
         QueuesMatch(sems, ps, s.pstate), c # "PRWAIT", Class(s.pstate[p]) # "PRWAIT"
  PROVE  QueuesMatch(sems, ps, t.pstate)
BY DEF QueuesMatch, Moved

LEMMA EnterSleep ==
  ASSUME NEW s, NEW t, NEW p \in Proc, NEW c \in Asleep, Moved(s, t, p, c), NEW cq,
         SleepMatch(cq, s.pstate), Class(s.pstate[p]) \notin Asleep, NEW n
  PROVE  SleepMatch(InsertD(cq, p, n), t.pstate)
<1>1. IsList(cq) /\ Distinct(cq) /\ p \notin Pids(cq)
  BY DEF SleepMatch, Asleep
<1>2. PICK r : r = InsertD(cq, p, n)
  OBVIOUS
<1>3. IsList(r) /\ Distinct(r) /\ Pids(r) = Pids(cq) \cup {p}
  BY <1>1, <1>2, InsertDFacts
<1>4. Pids(r) = {q \in Proc : Class(t.pstate[q]) \in {"PRSLEEP", "PRTRECV"}}
  BY <1>3 DEF SleepMatch, Asleep, Moved
<1> QED
  BY <1>2, <1>3, <1>4 DEF SleepMatch

LEMMA LeaveSleep ==
  ASSUME NEW s, NEW t, NEW p \in Proc, NEW c, c \notin Asleep, Moved(s, t, p, c), NEW cq,
         SleepMatch(cq, s.pstate), Class(s.pstate[p]) \in Asleep
  PROVE  SleepMatch(DequeueD(cq, p), t.pstate)
<1>1. IsList(cq) /\ Distinct(cq) /\ p \in Pids(cq)
  BY DEF SleepMatch, Asleep
<1>2. PICK r : r = DequeueD(cq, p)
  OBVIOUS
<1>3. IsList(r) /\ Distinct(r) /\ Pids(r) = Pids(cq) \ {p}
  BY <1>1, <1>2, DequeueDFacts
<1>4. Pids(r) = {q \in Proc : Class(t.pstate[q]) \in {"PRSLEEP", "PRTRECV"}}
  BY <1>3 DEF SleepMatch, Asleep, Moved
<1> QED
  BY <1>2, <1>3, <1>4 DEF SleepMatch

LEMMA WakeHead ==
  ASSUME NEW s, NEW cq, SleepMatch(cq, s.pstate), cq # <<>>
  PROVE  /\ Head(cq).pid \in Proc
         /\ Class(s.pstate[Head(cq).pid]) \in Asleep
         /\ s.pstate[Head(cq).pid] \notin Runnable
         /\ \A t : Moved(s, t, Head(cq).pid, "RUN") => SleepMatch(Tail(cq), t.pstate)
<1>1. PICK h : h = Head(cq).pid
  OBVIOUS
<1>2. PICK r : r = Tail(cq)
  OBVIOUS
<1>3. IsList(r) /\ Distinct(r) /\ h \in Pids(cq) /\ Pids(r) = Pids(cq) \ {h}
  BY <1>1, <1>2, TailListFacts DEF SleepMatch
<1>4. h \in Proc /\ Class(s.pstate[h]) \in Asleep
  BY <1>3 DEF SleepMatch, Asleep
<1>5. s.pstate[h] \notin Runnable
  BY <1>4 DEF Class, Runnable, Asleep
<1>6. ASSUME NEW t, Moved(s, t, h, "RUN") PROVE SleepMatch(r, t.pstate)
  <2>1. Pids(r) = {q \in Proc : Class(t.pstate[q]) \in {"PRSLEEP", "PRTRECV"}}
    BY <1>3, <1>4, <1>6 DEF SleepMatch, Moved
  <2> QED
    BY <1>3, <2>1 DEF SleepMatch
<1> QED
  BY <1>1, <1>2, <1>4, <1>5, <1>6

(* Counting down changes keys only. *)
LEMMA KeysSleep ==
  ASSUME NEW cq, NEW states, SleepMatch(cq, states), NEW r, DOMAIN r = DOMAIN cq,
         r = [i \in DOMAIN cq |-> r[i]], \A i \in DOMAIN cq : r[i].pid = cq[i].pid
  PROVE  SleepMatch(r, states)
<1>1. IsList(r) /\ Pids(r) = Pids(cq) /\ Distinct(r)
  BY SamePids DEF SleepMatch
<1> QED
  BY <1>1 DEF SleepMatch

(* The same, where the message system and the clock leave the semaphores.  *)
LEMMA QuietSems ==
  ASSUME IInv, Top(curr).at \notin Loops, UNCHANGED semVars,
         Core(sched'), Highest(sched'), kstack' \in Stacks, NoLoops(kstack'), PInv',
         QueuesMatch(semaph, psem, sched'.pstate), SleepMatch(clockq', sched'.pstate)
  PROVE  IInv'
<1>1. /\ SemTyped(semaph', psem', nextsem') /\ QueuesMatch(semaph', psem', sched'.pstate)
      /\ \A s \in Sem : CountMatches(semaph'[s])
  BY QuietStart DEF semVars
<1> QED
  BY <1>1, QuietNext

LEMMA DeliverFacts ==
  ASSUME IInv, Top(curr).at \notin Loops, NEW p \in Proc, NEW msg, Deliver(p, msg)
  PROVE  /\ Core(sched') /\ Highest(sched')
         /\ QueuesMatch(semaph, psem, sched'.pstate)
         /\ SleepMatch(clockq', sched'.pstate)
<1>1. /\ Core(sched) /\ Highest(sched) /\ SleepMatch(clockq, sched.pstate)
      /\ QueuesMatch(semaph, psem, sched.pstate)
  BY QuietStart
<1>2. "RUN" \notin Asleep /\ "RUN" # "PRWAIT" /\ "RUN" \notin {"PRSLEEP", "PRTRECV"}
  BY DEF Asleep
<1>3. CASE sched.pstate[p] = "PRRECV" /\ sched' = Resched(Ready(sched, p)) /\ UNCHANGED clkVars
  <2>1. /\ sched.pstate[p] \notin Runnable /\ Class(sched.pstate[p]) # "PRWAIT"
        /\ Class(sched.pstate[p]) \notin {"PRSLEEP", "PRTRECV"}
    BY <1>3 DEF Runnable, Class
  <2>2. Core(sched') /\ Highest(sched') /\ Moved(sched, sched', p, "RUN")
    BY <1>1, <1>3, <2>1, ReadyReschedStep
  <2>3. SleepMatch(clockq, sched'.pstate)
    BY <1>1, <1>2, <2>1, <2>2, SleepMatchMoved
  <2>4. QueuesMatch(semaph, psem, sched'.pstate)
    BY <1>1, <1>2, <2>1, <2>2, QueuesMatchMoved
  <2> QED
    BY <1>3, <2>2, <2>3, <2>4 DEF clkVars
<1>4. CASE sched.pstate[p] = "PRTRECV" /\ LeaveClockq(p) /\ sched' = Resched(Ready(sched, p))
  <2>1. /\ sched.pstate[p] \notin Runnable /\ Class(sched.pstate[p]) # "PRWAIT"
        /\ Class(sched.pstate[p]) \in Asleep
    BY <1>4 DEF Runnable, Class, Asleep
  <2>2. Core(sched') /\ Highest(sched') /\ Moved(sched, sched', p, "RUN")
    BY <1>1, <1>4, <2>1, ReadyReschedStep
  <2>3. SleepMatch(DequeueD(clockq, p), sched'.pstate)
    BY <1>1, <1>2, <2>1, <2>2, LeaveSleep
  <2>4. QueuesMatch(semaph, psem, sched'.pstate)
    BY <1>1, <1>2, <2>1, <2>2, QueuesMatchMoved
  <2>5. clockq' = DequeueD(clockq, p)
    BY <1>4 DEF LeaveClockq
  <2> QED
    BY <2>2, <2>3, <2>4, <2>5
<1>5. CASE UNCHANGED <<sched, clkVars>>
  BY <1>1, <1>5 DEF clkVars
<1> QED
  BY <1>3, <1>4, <1>5 DEF Deliver

LEMMA SendInv ==
  ASSUME IInv, NEW p \in Proc, NEW msg, Send(p, msg), UNCHANGED <<semVars, procVars>>
  PROVE  IInv'
<1>1. Top(curr).at \notin Loops /\ kstack' = kstack /\ Deliver(p, msg)
  BY InUserTop DEF Send, Calling
<1>2. kstack' \in Stacks /\ NoLoops(kstack') /\ PInv'
  BY <1>1, QuietStart DEF PInv, procVars
<1> QED
  BY <1>1, <1>2, DeliverFacts, QuietSems

LEMMA SendfInv ==
  ASSUME IInv, NEW p \in Proc, NEW msg, Sendf(p, msg), UNCHANGED <<semVars, procVars>>
  PROVE  IInv'
<1>1. Top(curr).at \notin Loops /\ kstack' = kstack /\ UNCHANGED clkVars
  BY InUserTop DEF Sendf, Calling
<1>2. kstack' \in Stacks /\ NoLoops(kstack') /\ PInv' /\ clockq' = clockq
  BY <1>1, QuietStart DEF PInv, procVars, clkVars
<1>3. CASE sched.pstate[p] = "PRRECV"
  <2>1. sched' = Resched(Ready(sched, p)) /\ Core(sched)
    BY <1>1, <1>3, QuietStart DEF Sendf
  <2>2. sched.pstate[p] \notin Runnable /\ Class(sched.pstate[p]) \notin Queued
    BY <1>3 DEF Runnable, Class, Queued
  <2>3. Core(sched') /\ Highest(sched') /\ Moved(sched, sched', p, "RUN")
    BY <2>1, <2>2, ReadyReschedStep
  <2>4. SameQueues(sched, sched')
    BY <2>2, <2>3, MovedSameQueues, StatesDistinct
  <2> QED
    BY <1>1, <1>2, <2>3, <2>4, SchedOnly DEF semVars
<1>4. CASE sched.pstate[p] # "PRRECV"
  <2>1. sched' = sched
    BY <1>4 DEF Sendf
  <2> QED
    BY <1>1, <1>2, <2>1, QuietStart, QuietSems
<1> QED
  BY <1>3, <1>4

LEMMA ReceiveInv ==
  ASSUME IInv, Receive, UNCHANGED <<semVars, procVars>>
  PROVE  IInv'
<1>1. Top(curr).at \notin Loops /\ curr # NULLPROC /\ clockq' = clockq
  BY InUserTop DEF Receive, Calling, clkVars
<1>2. /\ Core(sched) /\ Highest(sched) /\ curr \in Proc /\ sched.pstate[curr] = "PRCURR"
      /\ PInv' /\ SleepMatch(clockq, sched.pstate) /\ QueuesMatch(semaph, psem, sched.pstate)
  BY <1>1, QuietStart DEF PInv, procVars
<1>3. kstack' \in Stacks /\ NoLoops(kstack')
  <2> DEFINE f == At("receive", 0, 0)
  <2>1. "receive" \in Points \ Loops
        /\ "receive" \notin {"kill", "signaln", "sreset", "sdelete"}
    BY DEF Points, Loops
  <2>2. f \in Frame /\ f.at = "receive"
    BY <2>1, FrameFacts
  <2>3. Call(<<f>>)
    BY DEF Receive
  <2> HIDE DEF f
  <2> QED
    BY <1>1, <2>1, <2>2, <2>3, CallOne
<1>4. CASE phasmsg[curr] = 0
  <2>1. sched' = Resched(Block(sched, curr, "PRRECV"))
    BY <1>4 DEF Receive
  <2>2. "PRRECV" \in PRStates \ Runnable /\ "PRRECV" \notin Queued
        /\ Class(sched.pstate[curr]) \notin Queued
    BY <1>2, StatesDistinct
  <2>3. Core(sched') /\ Highest(sched') /\ Moved(sched, sched', curr, "PRRECV")
    BY <1>1, <1>2, <2>1, <2>2, BlockReschedStep
  <2>4. SameQueues(sched, sched')
    BY <1>2, <2>2, <2>3, MovedSameQueues
  <2> QED
    BY <1>1, <1>2, <1>3, <2>3, <2>4, SchedOnly DEF semVars
<1>5. CASE phasmsg[curr] # 0
  <2>1. sched' = sched
    BY <1>5 DEF Receive
  <2> QED
    BY <1>1, <1>2, <1>3, <2>1, QuietSems
<1> QED
  BY <1>4, <1>5

LEMMA EnterClockqFacts ==
  ASSUME IInv, Top(curr).at \notin Loops, curr # NULLPROC, NEW n, EnterClockq(n),
         NEW st \in Asleep, sched' = Resched(Block(sched, curr, st))
  PROVE  /\ Core(sched') /\ Highest(sched')
         /\ QueuesMatch(semaph, psem, sched'.pstate)
         /\ SleepMatch(clockq', sched'.pstate)
<1>1. /\ Core(sched) /\ curr \in Proc /\ sched.pstate[curr] = "PRCURR"
      /\ SleepMatch(clockq, sched.pstate) /\ QueuesMatch(semaph, psem, sched.pstate)
  BY QuietStart
<1>2. st \in PRStates \ Runnable /\ st # "PRWAIT"
  BY DEF Asleep, PRStates, Runnable
<1>3. Class(sched.pstate[curr]) \notin Asleep /\ Class(sched.pstate[curr]) # "PRWAIT"
  BY <1>1 DEF Class, Runnable, Asleep
<1>4. Core(sched') /\ Highest(sched') /\ Moved(sched, sched', curr, st)
  BY <1>1, <1>2, BlockReschedStep
<1>5. SleepMatch(InsertD(clockq, curr, n), sched'.pstate)
  BY <1>1, <1>3, <1>4, EnterSleep
<1>6. QueuesMatch(semaph, psem, sched'.pstate)
  BY <1>1, <1>2, <1>3, <1>4, QueuesMatchMoved
<1> QED
  BY <1>4, <1>5, <1>6 DEF EnterClockq

LEMMA RecvtimInv ==
  ASSUME IInv, NEW n, Recvtim(n), UNCHANGED <<semVars, procVars>>
  PROVE  IInv'
<1>1. Top(curr).at \notin Loops /\ curr # NULLPROC
  BY InUserTop DEF Recvtim, Calling
<1>2. /\ Core(sched) /\ Highest(sched) /\ PInv'
      /\ SleepMatch(clockq, sched.pstate) /\ QueuesMatch(semaph, psem, sched.pstate)
  BY <1>1, QuietStart DEF PInv, procVars
<1>3. kstack' \in Stacks /\ NoLoops(kstack')
  <2> DEFINE f == At("recvtim", 0, 0)
  <2>1. "recvtim" \in Points \ Loops
        /\ "recvtim" \notin {"kill", "signaln", "sreset", "sdelete"}
    BY DEF Points, Loops
  <2>2. f \in Frame /\ f.at = "recvtim"
    BY <2>1, FrameFacts
  <2>3. Call(<<f>>)
    BY DEF Recvtim
  <2> HIDE DEF f
  <2> QED
    BY <1>1, <2>1, <2>2, <2>3, CallOne
<1>4. CASE phasmsg[curr] = 0
  <2>1. EnterClockq(n) /\ sched' = Resched(Block(sched, curr, "PRTRECV"))
    BY <1>4 DEF Recvtim
  <2>2. "PRTRECV" \in Asleep
    BY DEF Asleep
  <2>3. /\ Core(sched') /\ Highest(sched') /\ QueuesMatch(semaph, psem, sched'.pstate)
        /\ SleepMatch(clockq', sched'.pstate)
    BY <1>1, <2>1, <2>2, EnterClockqFacts
  <2> QED
    BY <1>1, <1>2, <1>3, <2>3, QuietSems
<1>5. CASE phasmsg[curr] # 0
  <2>1. sched' = sched /\ clockq' = clockq
    BY <1>5 DEF Recvtim
  <2> QED
    BY <1>1, <1>2, <1>3, <2>1, QuietSems
<1> QED
  BY <1>4, <1>5

LEMMA ReceiveEndInv ==
  ASSUME IInv, ReceiveEnd, UNCHANGED <<semVars, procVars>>
  PROVE  IInv'
<1>1. /\ Top(curr).at \notin Loops /\ Top(curr).at # "user"
      /\ sched' = sched /\ clockq' = clockq /\ Return
  BY DEF ReceiveEnd, clkVars, Loops
<1>2. kstack' \in Stacks /\ NoLoops(kstack')
  BY <1>1, ReturnOne
<1>3. PInv'
  BY <1>1, QuietStart DEF PInv, procVars
<1> QED
  BY <1>1, <1>2, <1>3, QuietStart, QuietSems

LEMMA RecvclrInv ==
  ASSUME IInv, Recvclr, UNCHANGED <<semVars, procVars>>
  PROVE  IInv'
<1>1. Top(curr).at \notin Loops /\ sched' = sched /\ clockq' = clockq /\ kstack' = kstack
  BY InUserTop DEF Recvclr, Calling, clkVars
<1>3. PInv' /\ kstack' \in Stacks /\ NoLoops(kstack')
  BY <1>1, QuietStart DEF PInv, procVars
<1> QED
  BY <1>1, <1>3, QuietStart, QuietSems

LEMMA Sleep10Inv ==
  ASSUME IInv, NEW n, Sleep10(n), UNCHANGED <<semVars, msgVars, procVars>>
  PROVE  IInv'
<1>1. Top(curr).at \notin Loops /\ curr # NULLPROC /\ kstack' = kstack
  BY InUserTop DEF Sleep10, Calling
<1>2. /\ Core(sched) /\ PInv' /\ kstack' \in Stacks /\ NoLoops(kstack')
      /\ SleepMatch(clockq, sched.pstate) /\ QueuesMatch(semaph, psem, sched.pstate)
  BY <1>1, QuietStart DEF PInv, procVars
<1>3. CASE n = 0
  <2>1. sched' = Resched(sched) /\ clockq' = clockq
    BY <1>3 DEF Sleep10
  <2>2. Core(sched') /\ Highest(sched') /\ SameQueues(sched, sched')
    BY <1>2, <2>1, ReschedStep, StillSameQueues
  <2> QED
    BY <1>1, <1>2, <2>1, <2>2, SchedOnly DEF semVars
<1>4. CASE n # 0
  <2>1. EnterClockq(n) /\ sched' = Resched(Block(sched, curr, "PRSLEEP"))
    BY <1>4 DEF Sleep10
  <2>2. "PRSLEEP" \in Asleep
    BY DEF Asleep
  <2>3. /\ Core(sched') /\ Highest(sched') /\ QueuesMatch(semaph, psem, sched'.pstate)
        /\ SleepMatch(clockq', sched'.pstate)
    BY <1>1, <2>1, <2>2, EnterClockqFacts
  <2> QED
    BY <1>1, <1>2, <2>3, QuietSems
<1> QED
  BY <1>3, <1>4

------------------------------------------------------------------------------
(***************************************************************************)
(* The clock interrupt, and clock deferral.                                *)
(***************************************************************************)

LEMMA PreemptFacts ==
  ASSUME NEW s, Core(s), NEW n \in Int
  PROVE  LET t == [s EXCEPT !.preempt = n]
         IN  /\ Core(t) /\ t.pstate = s.pstate /\ t.currpid = s.currpid
             /\ Highest(s) => Highest(t)
<1> DEFINE t == [s EXCEPT !.preempt = n]
<1>1. /\ t \in SchedRec /\ t.pstate = s.pstate /\ t.currpid = s.currpid
      /\ t.pprio = s.pprio /\ t.rdy = s.rdy
  BY DEF Core, SchedRec
<1> HIDE DEF t
<1>2. Core(t)
  BY <1>1 DEF Core
<1>3. Highest(s) => Highest(t)
  BY <1>1 DEF Highest
<1> QED
  BY <1>1, <1>2, <1>3 DEF t

LEMMA CallTwo ==
  ASSUME IInv, Top(curr).at \notin Loops, NEW f \in Frame, NEW g \in Frame,
         g.at \notin Loops, Call(<<f, g>>)
  PROVE  /\ kstack' \in Stacks /\ OnlyLoopAt(kstack', curr)
         /\ TopOf(kstack', curr) = f
<1>1. kstack \in Stacks /\ NoLoops(kstack) /\ curr \in Proc
  BY QuietStart
<1>2. PICK fs : fs = <<f, g>>
  OBVIOUS
<1>3. /\ fs \in Seq(Frame) /\ fs # <<>> /\ fs[1] = f
      /\ \A i \in DOMAIN fs : fs[i].at \in Loops => i = 1
  BY <1>2
<1>4. kstack' = [kstack EXCEPT ![curr] = fs \o @]
  BY <1>2 DEF Call
<1> DEFINE n == [kstack EXCEPT ![curr] = fs \o @]
<1>5. /\ n \in Stacks /\ TopOf(n, curr) = fs[1]
      /\ \A p \in Proc : \A i \in DOMAIN n[p] : n[p][i].at \in Loops => p = curr /\ i = 1
  BY <1>1, <1>3, PushFacts
<1>6. kstack' = n
  BY <1>4
<1> HIDE DEF n
<1> QED
  BY <1>3, <1>5, <1>6 DEF OnlyLoopAt

LEMMA PlainFrames ==
  /\ \A pt \in {"clkint", "strtclk", "wakeup"} :
       At(pt, 0, 0) \in Frame /\ At(pt, 0, 0).at = pt /\ At(pt, 0, 0).arg = 0
  /\ "clkint" \notin Loops /\ "strtclk" \notin Loops /\ "wakeup" \in Loops
  /\ "stopclk" \notin Loops
<1>1. \A pt \in {"clkint", "strtclk", "wakeup"} :
        pt \in Points /\ pt \notin {"kill", "signaln", "sreset", "sdelete"}
  BY DEF Points
<1>2. \A pt \in {"clkint", "strtclk", "wakeup"} :
        At(pt, 0, 0) \in Frame /\ At(pt, 0, 0).at = pt /\ At(pt, 0, 0).arg = 0
  BY <1>1, FrameFacts
<1> QED
  BY <1>2 DEF Loops

(* What follows when an interrupt or strtclk goes on to wakeup. *)
LEMMA ToWakeup ==
  ASSUME IInv, Top(curr).at \notin Loops, UNCHANGED <<semVars, procVars>>,
         NEW pt \in {"clkint", "strtclk"},
         Call(<<At("wakeup", 0, 0), At(pt, 0, 0)>>),
         Core(sched'), sched'.pstate = sched.pstate, sched'.currpid = sched.currpid,
         SleepMatch(clockq', sched.pstate)
  PROVE  IInv'
<1> DEFINE f == At("wakeup", 0, 0)
           g == At(pt, 0, 0)
<1>1. f \in Frame /\ g \in Frame /\ f.at = "wakeup" /\ f.arg = 0 /\ g.at \notin Loops
  BY PlainFrames
<1>2. Call(<<f, g>>)
  OBVIOUS
<1> HIDE DEF f, g
<1>3. /\ kstack' \in Stacks /\ OnlyLoopAt(kstack', curr)
      /\ TopOf(kstack', curr).at = "wakeup" /\ TopOf(kstack', curr).arg = 0
  BY <1>1, <1>2, CallTwo
<1>4. /\ curr \in Proc /\ sched'.currpid = curr /\ sched'.pstate[curr] = "PRCURR"
      /\ SemTyped(semaph', psem', nextsem') /\ QueuesMatch(semaph', psem', sched'.pstate)
      /\ SleepMatch(clockq', sched'.pstate) /\ PInv'
  BY QuietStart DEF semVars, procVars, PInv, curr
<1>5. "wakeup" \in Loops /\ LoopSems("wakeup", 0, semaph')
  BY QuietStart DEF Loops, LoopSems, semVars
<1> QED
  BY <1>3, <1>4, <1>5, LoopNext

(* What follows when they go on to their last test. *)
LEMMA ToLastTest ==
  ASSUME IInv, Top(curr).at \notin Loops, UNCHANGED <<semVars, procVars>>,
         NEW pt \in {"clkint", "strtclk"}, Call(<<At(pt, 0, 0)>>),
         Core(sched'), Highest(sched'), sched'.pstate = sched.pstate,
         SleepMatch(clockq', sched.pstate)
  PROVE  IInv'
<1> DEFINE f == At(pt, 0, 0)
<1>1. f \in Frame /\ f.at \notin Loops
  BY PlainFrames
<1>2. Call(<<f>>)
  OBVIOUS
<1> HIDE DEF f
<1>3. kstack' \in Stacks /\ NoLoops(kstack')
  BY <1>1, <1>2, CallOne
<1>4. /\ QueuesMatch(semaph, psem, sched'.pstate) /\ SleepMatch(clockq', sched'.pstate)
      /\ PInv'
  BY QuietStart DEF procVars, PInv
<1> QED
  BY <1>3, <1>4, QuietSems

LEMMA ClkintInv ==
  ASSUME IInv, Clkint, UNCHANGED <<semVars, msgVars, procVars>>
  PROVE  IInv'
<1> DEFINE ticked == [i \in DOMAIN clockq |->
                        IF slnempty /\ clockq[i].pid = sltop
                        THEN Entry(sltop, clockq[i].key - 1) ELSE clockq[i]]
           expired == slnempty /\ \E i \in DOMAIN clockq :
                                    clockq[i].pid = sltop /\ ticked[i].key <= 0
<1>1. Top(curr).at \notin Loops
  BY InUserTop, PlainFrames DEF Clkint, Interruptible
<1>2. sched' = sched /\ SleepMatch(clockq, sched.pstate) /\ Core(sched) /\ Highest(sched)
  BY <1>1, QuietStart DEF Clkint
<1>3. SleepMatch(ticked, sched.pstate)
  <2>1. /\ DOMAIN ticked = DOMAIN clockq /\ ticked = [i \in DOMAIN clockq |-> ticked[i]]
        /\ \A i \in DOMAIN clockq : ticked[i].pid = clockq[i].pid
    BY DEF Entry
  <2> HIDE DEF ticked
  <2> QED
    BY <1>2, <2>1, KeysSleep
<1>4. CASE defclk > 0
  <2>1. clockq' = clockq /\ kstack' = kstack
    BY <1>4 DEF Clkint
  <2>2. PInv' /\ kstack' \in Stacks /\ NoLoops(kstack')
        /\ QueuesMatch(semaph, psem, sched.pstate)
    BY <1>1, <2>1, QuietStart DEF PInv, procVars
  <2> QED
    BY <1>1, <1>2, <2>1, <2>2, QuietSems
<1>5. CASE ~(defclk > 0)
  <2>1. /\ clockq' = ticked
        /\ Call(IF expired THEN <<At("wakeup", 0, 0), At("clkint", 0, 0)>>
                ELSE <<At("clkint", 0, 0)>>)
    BY <1>5 DEF Clkint
  <2> HIDE DEF ticked, expired
  <2>2. CASE expired
    <3>1. Call(<<At("wakeup", 0, 0), At("clkint", 0, 0)>>)
      BY <2>1, <2>2
    <3> QED
      BY <1>1, <1>2, <1>3, <2>1, <3>1, ToWakeup
  <2>3. CASE ~expired
    <3>1. Call(<<At("clkint", 0, 0)>>)
      BY <2>1, <2>3
    <3> QED
      BY <1>1, <1>2, <1>3, <2>1, <3>1, ToLastTest
  <2> QED
    BY <2>2, <2>3
<1> QED
  BY <1>4, <1>5

LEMMA WakeupInv ==
  ASSUME IInv, Wakeup, UNCHANGED <<semVars, msgVars, procVars>>
  PROVE  IInv'
<1>1. /\ Top(curr).at = "wakeup" /\ semaph' = semaph /\ psem' = psem /\ nextsem' = nextsem
  BY DEF Wakeup, semVars
<1>2. /\ Core(sched) /\ curr \in Proc /\ sched.pstate[curr] = "PRCURR" /\ PInv'
      /\ SemTyped(semaph, psem, nextsem) /\ QueuesMatch(semaph, psem, sched.pstate)
      /\ SleepMatch(clockq, sched.pstate) /\ kstack \in Stacks /\ OnlyLoopAt(kstack, curr)
  BY AnyStart DEF PInv, procVars
<1>3. \A x \in Sem : CountMatches(semaph[x])
  BY <1>1, AnyStart DEF Emptying
<1>4. CASE /\ clockq # <<>> /\ sched' = Ready(sched, Head(clockq).pid)
           /\ clockq' = Tail(clockq) /\ UNCHANGED kstack
  <2>1. PICK h : h = Head(clockq).pid
    OBVIOUS
  <2>2. /\ h \in Proc /\ Class(sched.pstate[h]) \in Asleep /\ sched.pstate[h] \notin Runnable
        /\ \A t : Moved(sched, t, h, "RUN") => SleepMatch(Tail(clockq), t.pstate)
    BY <1>2, <1>4, <2>1, WakeHead
  <2>3. /\ Core(sched') /\ Moved(sched, sched', h, "RUN")
        /\ sched'.currpid = curr /\ sched'.pstate[curr] = "PRCURR"
    BY <1>2, <1>4, <2>1, <2>2, ReadyStep DEF curr
  <2>4. SleepMatch(clockq', sched'.pstate)
    BY <1>4, <2>2, <2>3
  <2>5. QueuesMatch(semaph', psem', sched'.pstate)
    <3>1. Class(sched.pstate[h]) # "PRWAIT" /\ "RUN" # "PRWAIT"
      BY <2>2 DEF Asleep
    <3> QED
      BY <1>1, <1>2, <2>2, <2>3, <3>1, QueuesMatchMoved
  <2>6. "wakeup" \in Loops /\ LoopSems("wakeup", TopOf(kstack', curr).arg, semaph')
    BY <1>1, <1>3 DEF Loops, LoopSems
  <2>7. /\ kstack' \in Stacks /\ OnlyLoopAt(kstack', curr)
        /\ TopOf(kstack', curr).at = "wakeup"
    BY <1>1, <1>2, <1>4, TopIsTopOf
  <2>8. SemTyped(semaph', psem', nextsem')
    BY <1>1, <1>2
  <2> QED
    BY <1>2, <2>3, <2>4, <2>5, <2>6, <2>7, <2>8, LoopNext
<1>5. CASE sched' = Resched(sched) /\ Return /\ clockq' = clockq
  <2>1. kstack' \in Stacks /\ NoLoops(kstack')
    BY <1>1, <1>5, ReturnOne
  <2>2. Core(sched') /\ Highest(sched') /\ SameQueues(sched, sched')
    BY <1>2, <1>5, ReschedStep, StillSameQueues
  <2>3. QueuesMatch(semaph', psem', sched'.pstate) /\ SleepMatch(clockq', sched'.pstate)
    BY <1>1, <1>2, <1>5, <2>2, QueuesMatchSame, SleepMatchSame
  <2>4. SemTyped(semaph', psem', nextsem') /\ \A x \in Sem : CountMatches(semaph'[x])
    BY <1>1, <1>2, <1>3
  <2> QED
    BY <1>2, <2>1, <2>2, <2>3, <2>4, QuietNext
<1> QED
  BY <1>4, <1>5 DEF Wakeup

(* A return to the caller, with or without a call of resched() before it. *)
LEMMA ReturnInv ==
  ASSUME IInv, Top(curr).at \notin Loops, Top(curr).at # "user", Return,
         UNCHANGED <<semVars, procVars>>, clockq' = clockq,
         \/ sched' = Resched(sched)
         \/ sched' = sched
         \/ \E n \in Int : sched' = [sched EXCEPT !.preempt = n]
  PROVE  IInv'
<1>1. /\ Core(sched) /\ Highest(sched) /\ PInv'
  BY QuietStart DEF PInv, procVars
<1>2. kstack' \in Stacks /\ NoLoops(kstack')
  BY ReturnOne
<1>3. Core(sched') /\ Highest(sched') /\ SameQueues(sched, sched')
  <2>1. CASE sched' = Resched(sched)
    BY <1>1, <2>1, ReschedStep, StillSameQueues
  <2>2. CASE sched' = sched
    BY <1>1, <2>2 DEF SameQueues
  <2>3. CASE \E n \in Int : sched' = [sched EXCEPT !.preempt = n]
    <3>1. PICK n \in Int : sched' = [sched EXCEPT !.preempt = n]
      BY <2>3
    <3>2. Core(sched') /\ Highest(sched') /\ sched'.pstate = sched.pstate
      BY <1>1, <3>1, PreemptFacts
    <3> QED
      BY <3>2 DEF SameQueues
  <2> QED
    BY <2>1, <2>2, <2>3
<1> QED
  BY <1>1, <1>2, <1>3, SchedOnly DEF semVars

LEMMA ClkintEndInv ==
  ASSUME IInv, ClkintEnd, UNCHANGED <<semVars, msgVars, procVars>>
  PROVE  IInv'
<1>1. /\ Top(curr).at \notin Loops /\ Top(curr).at # "user" /\ Return /\ clockq' = clockq
  BY PlainFrames DEF ClkintEnd, clkVars
<1>2. \/ sched' = Resched(sched) \/ \E n \in Int : sched' = [sched EXCEPT !.preempt = n]
  <2>1. sched.preempt - 1 \in Int
    BY <1>1, QuietStart DEF Core, SchedRec
  <2>2. sched' = Resched(sched) \/ sched' = [sched EXCEPT !.preempt = sched.preempt - 1]
    BY DEF ClkintEnd
  <2> QED
    BY <2>1, <2>2
<1> QED
  BY <1>1, <1>2, ReturnInv

LEMMA StrtclkEndInv ==
  ASSUME IInv, StrtclkEnd, UNCHANGED <<semVars, msgVars, procVars>>
  PROVE  IInv'
<1>1. /\ Top(curr).at \notin Loops /\ Top(curr).at # "user" /\ Return /\ clockq' = clockq
  BY PlainFrames DEF StrtclkEnd, clkVars
<1>2. sched' = Resched(sched) \/ sched' = sched
  BY DEF StrtclkEnd
<1> QED
  BY <1>1, <1>2, ReturnInv

LEMMA StopclkEndInv ==
  ASSUME IInv, StopclkEnd, UNCHANGED <<semVars, msgVars, procVars>>
  PROVE  IInv'
<1>1. /\ Top(curr).at \notin Loops /\ Top(curr).at # "user" /\ Return /\ clockq' = clockq
      /\ sched' = sched
  BY PlainFrames DEF StopclkEnd
<1> QED
  BY <1>1, ReturnInv

LEMMA StopclkInv ==
  ASSUME IInv, defclk \in Int, Stopclk, UNCHANGED <<semVars, msgVars, procVars>>
  PROVE  IInv'
<1>1. Top(curr).at \notin Loops /\ sched' = sched /\ clockq' = clockq
  BY InUserTop DEF Stopclk, Calling, clkVars
<1>2. kstack' \in Stacks /\ NoLoops(kstack')
  <2> DEFINE f == At("stopclk", 0, defclk)
  <2>1. "stopclk" \in Points \ Loops
        /\ "stopclk" \notin {"kill", "signaln", "sreset", "sdelete"}
    BY DEF Points, Loops
  <2>2. f \in Frame /\ f.at = "stopclk"
    BY <2>1, FrameFacts
  <2>3. Call(<<f>>)
    BY DEF Stopclk
  <2> HIDE DEF f
  <2> QED
    BY <1>1, <2>1, <2>2, <2>3, CallOne
<1>3. PInv'
  BY <1>1, QuietStart DEF PInv, procVars
<1> QED
  BY <1>1, <1>2, <1>3, QuietStart, QuietSems

LEMMA StrtclkInv ==
  ASSUME IInv, clkdiff \in Int, Strtclk, UNCHANGED <<semVars, msgVars, procVars>>
  PROVE  IInv'
<1>1. Top(curr).at \notin Loops
  BY InUserTop DEF Strtclk, Calling
<1>2. /\ SleepMatch(clockq, sched.pstate) /\ Core(sched) /\ Highest(sched) /\ PInv'
      /\ kstack \in Stacks /\ NoLoops(kstack) /\ QueuesMatch(semaph, psem, sched.pstate)
  BY <1>1, QuietStart DEF PInv, procVars
<1>3. CASE defclk - 1 > 0
  <2>1. sched' = sched /\ kstack' = kstack /\ clockq' = clockq
    BY <1>3 DEF Strtclk
  <2> QED
    BY <1>1, <1>2, <2>1, QuietSems
<1>4. CASE ~(defclk - 1 > 0)
  <2>1. sched' = [sched EXCEPT !.preempt = sched.preempt - clkdiff]
    BY <1>4 DEF Strtclk
  <2>2. sched.preempt - clkdiff \in Int
    BY <1>2 DEF Core, SchedRec
  <2>3. /\ Core(sched') /\ Highest(sched') /\ sched'.pstate = sched.pstate
        /\ sched'.currpid = sched.currpid
    BY <1>2, <2>1, <2>2, PreemptFacts
  <2>4. CASE slnempty
    <3>1. /\ clockq' = MakeUp(clockq, clkdiff)
          /\ Call(<<At("wakeup", 0, 0), At("strtclk", 0, 0)>>)
      BY <1>4, <2>4 DEF Strtclk
    <3>2. /\ DOMAIN clockq' = DOMAIN clockq /\ clockq' = [i \in DOMAIN clockq |-> clockq'[i]]
          /\ \A i \in DOMAIN clockq : clockq'[i].pid = clockq[i].pid
      BY <3>1 DEF MakeUp, Entry
    <3>3. SleepMatch(clockq', sched.pstate)
      BY <1>2, <3>2, KeysSleep
    <3> QED
      BY <1>1, <2>3, <3>1, <3>3, ToWakeup
  <2>5. CASE ~slnempty
    <3>1. clockq' = clockq /\ Call(<<At("strtclk", 0, 0)>>)
      BY <1>4, <2>5 DEF Strtclk
    <3> QED
      BY <1>1, <1>2, <2>3, <3>1, ToLastTest
  <2> QED
    BY <2>4, <2>5
<1> QED
  BY <1>3, <1>4

------------------------------------------------------------------------------
(***************************************************************************)
(* Processes come and go.                                                  *)
(***************************************************************************)

(* A free entry of the process table becomes a suspended process. *)
LEMMA NewFacts ==
  ASSUME NEW s, Core(s), Highest(s), NEW p \in Proc, p # NULLPROC,
         s.pstate[p] = "PRFREE", NEW prio \in Nat
  PROVE  LET t == [s EXCEPT !.pstate[p] = "PRSUSP", !.pprio[p] = prio]
         IN  Core(t) /\ Highest(t) /\ Moved(s, t, p, "PRSUSP")
<1> DEFINE b == Block(s, p, "PRSUSP")
           t == [s EXCEPT !.pstate[p] = "PRSUSP", !.pprio[p] = prio]
           u == [b EXCEPT !.pprio[p] = prio]
<1>1. "PRSUSP" \in PRStates \ Runnable /\ p # s.currpid /\ Class("PRSUSP") = "PRSUSP"
  BY DEF PRStates, Runnable, Highest, Class
<1>2. Core(b) /\ Moved(s, b, p, "PRSUSP") /\ Highest(b)
  <2>1. b = IF s.pstate[p] = "PRREADY" THEN Unready(s, p, "PRSUSP") ELSE b
    OBVIOUS
  <2> QED
    BY <1>1, <2>1, DropStep
<1>3. b.pstate[p] = "PRSUSP"
  BY DEF Block, Core, SchedRec
<1>4. t = u
  BY DEF Block, Core, SchedRec
<1> HIDE DEF b
<1>5. b.pstate[p] \notin Runnable /\ b.pstate[p] # "PRREADY"
  BY <1>3 DEF Runnable
<1>6. Core(u) /\ Still(b, u) /\ Highest(u)
  BY <1>2, <1>5, ReprioFacts
<1>7. Moved(s, u, p, "PRSUSP")
  BY <1>2, <1>6 DEF Moved, Still
<1> HIDE DEF t, u
<1> QED
  BY <1>4, <1>6, <1>7 DEF t

(* Emptying the stack of a process leaves no loop where there was none. *)
LEMMA ClearFacts ==
  ASSUME NEW k \in Stacks, NoLoops(k), NEW p \in Proc
  PROVE  [k EXCEPT ![p] = <<>>] \in Stacks /\ NoLoops([k EXCEPT ![p] = <<>>])
<1> DEFINE n == [k EXCEPT ![p] = <<>>]
<1>1. PICK e : e = <<>>
  OBVIOUS
<1>2. e \in Seq(Frame) /\ DOMAIN e = {}
  BY <1>1
<1>3. n = [k EXCEPT ![p] = e]
  BY <1>1
<1> HIDE DEF n
<1>4. n \in Stacks
  BY <1>2, <1>3 DEF Stacks
<1>5. n[p] = e /\ \A q \in Proc \ {p} : n[q] = k[q]
  BY <1>3 DEF Stacks
<1>6. NoLoops(n)
  BY <1>2, <1>5 DEF NoLoops
<1> QED
  BY <1>4, <1>6 DEF n

LEMMA NewProcInv ==
  ASSUME IInv, Top(curr).at \notin Loops, NEW prio \in Nat, NewProc(prio),
         UNCHANGED <<semaph, nextsem, clkVars>>
  PROVE  IInv'
<1>1. /\ Core(sched) /\ Highest(sched) /\ kstack \in Stacks /\ NoLoops(kstack) /\ PInv
      /\ SleepMatch(clockq, sched.pstate) /\ clockq' = clockq
      /\ SemTyped(semaph, psem, nextsem) /\ QueuesMatch(semaph, psem, sched.pstate)
      /\ \A s \in Sem : CountMatches(semaph[s])
  BY QuietStart DEF clkVars
<1>2. PICK i \in 0..(NPROC - 1) :
        /\ sched.pstate[ProbeProc(i)] = "PRFREE" /\ nextproc' = ProbeProc(i + 1)
        /\ IF prio < 1
           THEN UNCHANGED <<sched, kstack, numproc, pnxtkin, phasmsg, psem>>
           ELSE /\ sched' = [sched EXCEPT !.pstate[ProbeProc(i)] = "PRSUSP",
                                          !.pprio[ProbeProc(i)] = prio]
                /\ kstack' = [kstack EXCEPT ![ProbeProc(i)] = <<>>]
                /\ pnxtkin' = [pnxtkin EXCEPT ![ProbeProc(i)] = BADPID]
                /\ psem' = [psem EXCEPT ![ProbeProc(i)] = 0]
  BY DEF NewProc
<1>3. PICK p : p = ProbeProc(i)
  OBVIOUS
<1>4. p \in Proc /\ nextproc' \in Proc
  <2>1. nextproc \in Int /\ i \in Int /\ NPROC \in Nat \ {0}
    BY <1>1 DEF PInv, Proc
  <2>2. (nextproc - i) % NPROC \in 0..(NPROC - 1)
    BY <2>1, ModBound
  <2>3. (nextproc - (i + 1)) % NPROC \in 0..(NPROC - 1)
    BY <2>1, ModBound
  <2> QED
    BY <1>2, <1>3, <2>2, <2>3 DEF ProbeProc, Proc
<1>5. CASE prio < 1
  <2>1. UNCHANGED <<sched, kstack, pnxtkin, psem>>
    BY <1>2, <1>5
  <2>2. PInv'
    BY <1>1, <1>4, <2>1 DEF PInv
  <2> QED
    BY <1>1, <2>1, <2>2, QuietNext
<1>6. CASE ~(prio < 1)
  <2>1. /\ sched' = [sched EXCEPT !.pstate[p] = "PRSUSP", !.pprio[p] = prio]
        /\ kstack' = [kstack EXCEPT ![p] = <<>>]
        /\ pnxtkin' = [pnxtkin EXCEPT ![p] = BADPID]
        /\ psem' = [psem EXCEPT ![p] = 0]
    BY <1>2, <1>3, <1>6
  <2>2. sched.pstate[p] = "PRFREE" /\ p # NULLPROC
    BY <1>1, <1>2, <1>3 DEF Core
  <2>3. Core(sched') /\ Highest(sched') /\ Moved(sched, sched', p, "PRSUSP")
    BY <1>1, <1>4, <2>1, <2>2, NewFacts
  <2>4. kstack' \in Stacks /\ NoLoops(kstack')
    BY <1>1, <1>4, <2>1, ClearFacts
  <2>5. PInv'
    <3>1. pnxtkin' \in [Proc -> Proc \cup {BADPID}]
      BY <1>1, <1>4, <2>1 DEF PInv
    <3> QED
      BY <1>4, <3>1 DEF PInv
  <2>6. psem' \in [Proc -> Sem] /\ \A q \in Proc \ {p} : psem'[q] = psem[q]
    <3>1. 0 \in Sem
      BY NSEMAssumption DEF Sem
    <3>2. psem \in [Proc -> Sem]
      BY <1>1 DEF SemTyped
    <3> QED
      BY <1>4, <2>1, <3>1, <3>2
  <2>7. SemTyped(semaph', psem', nextsem')
    BY <1>1, <2>6 DEF SemTyped
  <2>8. Class(sched.pstate[p]) = "PRFREE"
    BY <2>2 DEF Class, Runnable
  <2>9. QueuesMatch(semaph', psem', sched'.pstate)
    <3> SUFFICES ASSUME NEW y \in Sem
                 PROVE  {q \in Proc : Class(sched'.pstate[q]) = "PRWAIT" /\ psem'[q] = y}
                         = {q \in Proc : Class(sched.pstate[q]) = "PRWAIT" /\ psem[q] = y}
      BY <1>1 DEF QueuesMatch
    <3> QED
      BY <1>4, <2>3, <2>6, <2>8 DEF Moved
  <2>10. SleepMatch(clockq', sched'.pstate)
    <3>1. /\ Class(sched.pstate[p]) \notin {"PRSLEEP", "PRTRECV"}
          /\ "PRSUSP" \notin {"PRSLEEP", "PRTRECV"}
      BY <2>8
    <3> QED
      BY <1>1, <1>4, <2>3, <3>1, SleepMatchMoved
  <2> QED
    BY <1>1, <2>3, <2>4, <2>5, <2>7, <2>9, <2>10, QuietNext
<1> QED
  BY <1>5, <1>6

LEMMA CreateInv ==
  ASSUME IInv, NEW prio \in Prios \cup {0}, Create(prio)
  PROVE  IInv'
<1>1. Top(curr).at \notin Loops /\ NewProc(prio) /\ UNCHANGED <<semaph, nextsem, clkVars>>
  BY InUserTop DEF Create, Calling
<1>2. prio \in Nat
  BY PriosAssumption
<1> QED
  BY <1>1, <1>2, NewProcInv

LEMMA NullCreateInv ==
  ASSUME IInv, NullCreate
  PROVE  IInv'
<1>1. Top(curr).at \notin Loops /\ NewProc(INITPRIO) /\ UNCHANGED <<semaph, nextsem, clkVars>>
  BY InUserTop DEF NullCreate
<1>2. INITPRIO \in Nat
  BY DEF INITPRIO
<1> QED
  BY <1>1, <1>2, NewProcInv

LEMMA NullResumeInv ==
  ASSUME IInv, NullResume
  PROVE  IInv'
<1>1. Top(curr).at \notin Loops /\ Resume(NPROC - 1)
      /\ UNCHANGED <<semVars, clkVars, numproc, nextproc, pnxtkin>>
  BY InUserTop DEF NullResume
<1>2. NPROC - 1 \in Proc
  BY DEF Proc
<1> QED
  BY <1>1, <1>2, ResumeInv

LEMMA SetnokInv ==
  ASSUME IInv, NEW p \in Proc, NEW nok \in Kin, Setnok(nok, p)
  PROVE  IInv'
<1>1. /\ Top(curr).at \notin Loops /\ sched' = sched /\ kstack' = kstack
      /\ clockq' = clockq /\ UNCHANGED semVars
      /\ pnxtkin' = [pnxtkin EXCEPT ![p] = nok] /\ nextproc' = nextproc
  BY InUserTop DEF Setnok, Calling, clkVars
<1>2. PInv'
  BY <1>1, QuietStart, KinAssumption DEF PInv
<1> QED
  BY <1>1, <1>2, QuietStart, QuietSems

LEMMA KillInv ==
  ASSUME IInv, NEW p \in Proc, Kill(p)
  PROVE  IInv'
<1>1. /\ Top(curr).at \notin Loops /\ p # NULLPROC /\ UNCHANGED semVars
      /\ nextproc' = nextproc /\ pnxtkin' = pnxtkin
  BY InUserTop, GoodPid DEF Kill, Calling
<1>2. PInv' /\ pnxtkin[p] \in Proc \cup {BADPID}
  BY <1>1, QuietStart DEF PInv
<1>3. kstack' \in Stacks /\ NoLoops(kstack')
  <2> DEFINE f == At("kill", p, 0)
  <2>1. "kill" \in Points \ Loops /\ "kill" \notin {"signaln", "sreset", "sdelete"}
    BY DEF Points, Loops
  <2>1a. p \in Int
    BY DEF Proc
  <2>2. f \in Frame /\ f.at = "kill"
    BY <1>1, <2>1, <2>1a, FrameFacts
  <2>3. Call(<<f>>)
    BY DEF Kill
  <2> HIDE DEF f
  <2> QED
    BY <1>1, <2>1, <2>2, <2>3, CallOne
<1>4. CASE CanSend(pnxtkin[p])
  <2>1. pnxtkin[p] \in Proc
    BY <1>2, <1>4 DEF CanSend, isbadpid, BADPID
  <2>2. Deliver(pnxtkin[p], p)
    BY <1>4 DEF Kill
  <2> QED
    BY <1>1, <1>2, <1>3, <2>1, <2>2, DeliverFacts, QuietSems
<1>5. CASE ~CanSend(pnxtkin[p])
  <2>1. sched' = sched /\ clockq' = clockq
    BY <1>5 DEF Kill, clkVars
  <2> QED
    BY <1>1, <1>2, <1>3, <2>1, QuietStart, QuietSems
<1> QED
  BY <1>4, <1>5

LEMMA KillEndInv ==
  ASSUME IInv, KillEnd
  PROVE  IInv'
<1> DEFINE p == Top(curr).arg
           st == sched.pstate[p]
<1>0. /\ Top(curr).at = "kill" /\ Top(curr).at \notin Loops /\ Return
      /\ psem' = psem /\ nextsem' = nextsem /\ UNCHANGED procVars
  BY DEF KillEnd, Loops
<1>1. /\ Core(sched) /\ Highest(sched) /\ curr \in Proc
      /\ sched.pstate[curr] = "PRCURR" /\ PInv' /\ sched.pstate \in [Proc -> PRStates]
      /\ SleepMatch(clockq, sched.pstate)
      /\ SemTyped(semaph, psem, nextsem) /\ QueuesMatch(semaph, psem, sched.pstate)
      /\ \A s \in Sem : CountMatches(semaph[s])
  BY <1>0, QuietStart DEF PInv, procVars
<1>2. kstack' \in Stacks /\ NoLoops(kstack')
  BY <1>0, ReturnOne
<1>3. p \in Proc /\ p # NULLPROC
  BY <1>0, InCall DEF Frame
<1>4. "PRFREE" \in PRStates \ Runnable
  BY DEF PRStates, Runnable
<1>5. /\ CASE st = "PRCURR"  -> sched' = Resched(Block(sched, p, "PRFREE"))
           [] st = "PRREADY" -> sched' = Unready(sched, p, "PRFREE")
           [] OTHER          -> sched' = Block(sched, p, "PRFREE")
      /\ semaph' = IF st = "PRWAIT"
                   THEN [semaph EXCEPT ![psem[p]].semcnt = @ + 1,
                                       ![psem[p]].queue = DequeueSem(@, p)]
                   ELSE semaph
      /\ IF st \in {"PRSLEEP", "PRTRECV"} THEN LeaveClockq(p) ELSE clockq' = clockq
  BY DEF KillEnd
<1> HIDE DEF p
<1>6. Core(sched') /\ Highest(sched') /\ Moved(sched, sched', p, "PRFREE")
  <2>1. CASE st = "PRCURR"
    <3>1. sched' = Resched(Block(sched, p, "PRFREE"))
      BY <1>5, <2>1
    <3> QED
      BY <1>1, <1>3, <1>4, <2>1, <3>1, BlockReschedStep
  <2>2. CASE st # "PRCURR"
    <3>1. p # sched.currpid
      BY <1>1, <2>2 DEF curr
    <3>2. sched' = IF sched.pstate[p] = "PRREADY" THEN Unready(sched, p, "PRFREE")
                   ELSE Block(sched, p, "PRFREE")
      BY <1>5, <2>2
    <3> QED
      BY <1>1, <1>3, <1>4, <3>1, <3>2, DropStep
  <2> QED
    BY <2>1, <2>2
<1>7. SleepMatch(clockq', sched'.pstate)
  <2>1. CASE st \in {"PRSLEEP", "PRTRECV"}
    <3>1. clockq' = DequeueD(clockq, p)
      BY <1>5, <2>1 DEF LeaveClockq
    <3>2. Class(sched.pstate[p]) \in Asleep /\ "PRFREE" \notin Asleep
      BY <2>1 DEF Class, Runnable, Asleep
    <3> QED
      BY <1>1, <1>3, <1>6, <3>1, <3>2, LeaveSleep
  <2>2. CASE st \notin {"PRSLEEP", "PRTRECV"}
    <3>1. clockq' = clockq
      BY <1>5, <2>2
    <3>2. /\ Class(sched.pstate[p]) \notin {"PRSLEEP", "PRTRECV"}
          /\ "PRFREE" \notin {"PRSLEEP", "PRTRECV"}
      BY <2>2 DEF Class, Runnable
    <3> QED
      BY <1>1, <1>3, <1>6, <3>1, <3>2, SleepMatchMoved
  <2> QED
    BY <2>1, <2>2
<1>8. CASE st = "PRWAIT"
  <2>1. PICK s : s = psem[p]
    OBVIOUS
  <2>2. s \in Sem /\ p \in ToSet(semaph[s].queue)
    <3>1. s \in Sem
      BY <1>1, <1>3, <2>1 DEF SemTyped
    <3>2. Class(sched.pstate[p]) = "PRWAIT"
      BY <1>8 DEF Class, Runnable
    <3> QED
      BY <1>1, <1>3, <2>1, <3>1, <3>2 DEF QueuesMatch
  <2>3. /\ semaph \in [Sem -> SemRec] /\ psem \in [Proc -> Sem] /\ nextsem \in Sem
        /\ semaph[s].semcnt \in Int /\ semaph[s].queue \in Seq(Proc)
        /\ IsInjective(semaph[s].queue)
    BY <1>1, <2>2, SemFacts DEF QueuesMatch
  <2>4. PICK q : q = semaph[s].queue
    OBVIOUS
  <2>5. PICK r : r = DequeueSem(q, p)
    OBVIOUS
  <2>6. /\ r \in Seq(Proc) /\ Len(r) = Len(q) - 1 /\ Len(q) \in Nat \ {0}
        /\ IsInjective(r) /\ ToSet(r) = ToSet(q) \ {p}
    BY <2>2, <2>3, <2>4, <2>5, DequeueSemFacts
  <2>7. PICK n \in Int : n = semaph[s].semcnt + 1
    BY <2>3
  <2>8. semaph' = [semaph EXCEPT ![s].semcnt = n, ![s].queue = r]
    BY <1>5, <1>8, <2>1, <2>2, <2>3, <2>4, <2>5, <2>7 DEF SemRec
  <2>9. SemUpd(semaph, semaph', s, semaph[s].sstate, n, r)
    BY <2>2, <2>3, <2>6, <2>8, SetCountQueue, Zenon
  <2>10. /\ Len(q) = -semaph[s].semcnt /\ semaph[s].semcnt < 0
         /\ semaph[s].sstate = "SUSED"
    BY <1>1, <2>2, <2>3, <2>4, <2>6 DEF CountMatches
  <2>11. Len(r) = IF semaph[s].sstate = "SUSED" /\ n < 0 THEN -n ELSE 0
    BY <2>3, <2>6, <2>7, <2>10
  <2>12. \A x \in Sem : CountMatches(semaph'[x])
    BY <1>1, <2>2, <2>9, <2>11, CountsUpd
  <2>13. SemTyped(semaph', psem', nextsem')
    BY <1>0, <2>3, <2>9, SemTypedUpd
  <2>14. QueuesMatch(semaph', psem', sched'.pstate)
    <3>1. /\ IsInjective(semaph'[s].queue)
          /\ ToSet(semaph'[s].queue) = ToSet(semaph[s].queue) \ {p}
          /\ \A y \in Sem \ {s} : semaph'[y] = semaph[y]
      BY <2>4, <2>6, <2>9 DEF SemUpd
    <3>2. "PRFREE" # "PRWAIT"
      OBVIOUS
    <3> QED
      BY <1>0, <1>1, <1>3, <1>6, <2>2, <3>1, <3>2, LeaveSemQueue
  <2> QED
    BY <1>1, <1>2, <1>6, <1>7, <2>12, <2>13, <2>14, QuietNext
<1>9. CASE st # "PRWAIT"
  <2>1. semaph' = semaph
    BY <1>5, <1>9
  <2>2. Class(sched.pstate[p]) # "PRWAIT" /\ "PRFREE" # "PRWAIT"
    BY <1>9 DEF Class, Runnable
  <2>3. QueuesMatch(semaph', psem', sched'.pstate)
    BY <1>0, <1>1, <1>3, <1>6, <2>1, <2>2, QueuesMatchMoved
  <2>4. SemTyped(semaph', psem', nextsem') /\ \A s \in Sem : CountMatches(semaph'[s])
    BY <1>0, <1>1, <2>1
  <2> QED
    BY <1>1, <1>2, <1>6, <1>7, <2>3, <2>4, QuietNext
<1> QED
  BY <1>8, <1>9

------------------------------------------------------------------------------
(***************************************************************************)
(* The specification.                                                      *)
(***************************************************************************)

(* The counters of the clock are numbers. *)
DInv == defclk \in Int /\ clkdiff \in Int

LEMMA InitInv == Init => IInv /\ DInv
<1> SUFFICES ASSUME Init PROVE IInv /\ DInv
  OBVIOUS
<1> USE DEF Init, SchedInit, SemInit, ClockInit, MsgInit
<1>1. /\ sched.currpid = NULLPROC /\ sched.rdy = <<>> /\ NULLPROC \in Proc
      /\ sched.pstate = [p \in Proc |-> IF p = NULLPROC THEN "PRCURR" ELSE "PRFREE"]
      /\ sched.pprio = [p \in Proc |-> 0]
  BY NullIsProc
<1>2. sched \in SchedRec
  <2>1. <<>> \in Seq(Entries(Proc))
    OBVIOUS
  <2>2. QUANTUM \in Int
    BY QUANTUMAssumption
  <2> QED
    BY <1>1, <2>1, <2>2 DEF SchedRec, PRStates
<1>3. Core(sched) /\ Highest(sched)
  <2>1. DOMAIN sched.rdy = {} /\ Pids(sched.rdy) = {}
    BY <1>1 DEF Pids
  <2> QED
    BY <1>1, <1>2, <2>1 DEF Core, Highest, Distinct, Sorted
<1>4. kstack \in Stacks /\ NoLoops(kstack)
  <2>1. PICK e : e = <<>>
    OBVIOUS
  <2>2. e \in Seq(Frame) /\ DOMAIN e = {}
    BY <2>1
  <2>3. kstack = [p \in Proc |-> e]
    BY <2>1
  <2> QED
    BY <2>2, <2>3 DEF Stacks, NoLoops
<1>5. \A p \in Proc : Class(sched.pstate[p]) \notin Queued
  BY <1>1 DEF Class, Queued, Runnable
<1>6. SemTyped(semaph, psem, nextsem)
  BY NSEMAssumption DEF SemTyped, Sem
<1>7. /\ \A s \in Sem : semaph[s].queue = <<>> /\ semaph[s].semcnt = 0
      /\ \A s \in Sem : semaph[s].sstate = "SFREE"
  OBVIOUS
<1>8. QueuesMatch(semaph, psem, sched.pstate)
  <2>1. IsInjective(<<>>) /\ ToSet(<<>>) = {}
    BY DEF IsInjective, ToSet
  <2> QED
    BY <1>5, <1>7, <2>1 DEF QueuesMatch, Queued
<1>9. \A s \in Sem : CountMatches(semaph[s])
  BY <1>7 DEF CountMatches
<1>10. SleepMatch(clockq, sched.pstate)
  <2>1. IsList(<<>>) /\ Distinct(<<>>) /\ Pids(<<>>) = {}
    BY DEF IsList, Distinct, Pids
  <2> QED
    BY <1>5, <2>1 DEF SleepMatch, Queued
<1>11. PInv
  BY <1>1 DEF PInv, Proc
<1>12. curr \in Proc /\ Top(curr).at \notin Loops
  <2>1. curr \in Proc
    BY <1>1 DEF curr
  <2> QED
    BY <1>4, <2>1, NoLoopsTop, TopIsTopOf
<1> HIDE DEF Init, SchedInit, SemInit, ClockInit, MsgInit
<1>13. SInv
  BY <1>3 DEF SInv, Highest, curr
<1>14. KInv
  BY <1>4 DEF KInv, NoLoops, Stacks
<1>15. QInv
  BY <1>6, <1>8, <1>9, <1>12 DEF QInv, Loops
<1>16. DInv
  BY DEF DInv, Init, ClockInit
<1> QED
  BY <1>10, <1>11, <1>13, <1>14, <1>15, <1>16 DEF IInv, CInv

LEMMA SchedCallInv == IInv /\ SchedCall => IInv'
BY SuspendInv, ResumeInv, ChprioInv, InUserTop DEF SchedCall, Calling, procVars

LEMMA SemCallInv == IInv /\ SemCall => IInv'
BY WaitInv, SignalInv, SdeleteInv, SignalnInv, SresetInv, ScreateInv, SignalnLoopInv,
   FlushLoopInv DEF SemCall

LEMMA MsgCallInv == IInv /\ MsgCall => IInv'
BY SendInv, SendfInv, ReceiveInv, ReceiveEndInv, RecvclrInv DEF MsgCall

LEMMA ClockCallInv == IInv /\ DInv /\ ClockCall => IInv'
BY ClkintEndInv, WakeupInv, StopclkInv, StopclkEndInv, StrtclkInv, StrtclkEndInv
   DEF ClockCall, DInv

LEMMA ProcCallInv == IInv /\ ProcCall => IInv'
BY CreateInv, NullCreateInv, NullResumeInv, SetnokInv, KillInv, KillEndInv DEF ProcCall

LEMMA TimerInv ==
  IInv /\ (Tick \/ \E n \in Delays : SleepCall(n) \/ RecvtimCall(n)) => IInv'
BY ClkintInv, Sleep10Inv, RecvtimInv DEF Tick, SleepCall, RecvtimCall

LEMMA StutterInv == IInv /\ UNCHANGED vars => IInv'
<1> SUFFICES ASSUME IInv, UNCHANGED vars PROVE IInv'
  OBVIOUS
<1>1. /\ sched' = sched /\ kstack' = kstack /\ semaph' = semaph /\ psem' = psem
      /\ nextsem' = nextsem /\ clockq' = clockq /\ pnxtkin' = pnxtkin
      /\ nextproc' = nextproc
  BY DEF vars, semVars, clkVars, procVars
<1> QED
  BY <1>1 DEF IInv, SInv, KInv, QInv, CInv, PInv, curr, Top, Releasing, Emptying, isUsed

LEMMA CountersInv == IInv /\ DInv /\ [Next]_vars => DInv'
<1> SUFFICES ASSUME IInv, DInv, [Next]_vars PROVE DInv'
  OBVIOUS
<1>1. CASE UNCHANGED clkVars
  BY <1>1 DEF DInv, clkVars
<1>2. CASE UNCHANGED <<defclk, clkdiff>>
  BY <1>2 DEF DInv
<1>3. ASSUME NEW p, NEW msg, Deliver(p, msg) PROVE UNCHANGED <<defclk, clkdiff>>
  BY <1>3 DEF Deliver, clkVars
<1>4. CASE ClockCall
  <2>1. CASE ClkintEnd \/ Wakeup \/ Stopclk \/ StrtclkEnd
    BY <1>2, <2>1 DEF ClkintEnd, Wakeup, Stopclk, StrtclkEnd, clkVars
  <2>2. CASE StopclkEnd
    <3>1. Top(curr) \in Frame
      BY <2>2, InCall DEF StopclkEnd
    <3>2. Top(curr).cnt \in Int
      BY <3>1 DEF Frame
    <3> QED
      BY <2>2, <3>2 DEF StopclkEnd, DInv
  <2>3. CASE Strtclk
    BY <2>3 DEF Strtclk, DInv
  <2> QED
    BY <1>4, <2>1, <2>2, <2>3 DEF ClockCall
<1>5. CASE Tick
  BY <1>5 DEF Tick, Clkint, DInv
<1>6. CASE MsgCall
  BY <1>1, <1>2, <1>3, <1>6 DEF MsgCall, Send, Sendf, Receive, ReceiveEnd, Recvclr
<1>7. CASE ProcCall
  <2>1. CASE \E p \in Proc : Kill(p)
    BY <1>1, <1>2, <1>3, <2>1 DEF Kill, clkVars
  <2>2. CASE KillEnd
    BY <1>2, <2>2 DEF KillEnd
  <2>3. CASE \/ \E prio \in Prios \cup {0} : Create(prio)
             \/ NullCreate \/ NullResume
             \/ \E p \in Proc, nok \in Kin : Setnok(nok, p)
    BY <1>1, <2>3 DEF Create, NullCreate, NullResume, Setnok
  <2> QED
    BY <1>7, <2>1, <2>2, <2>3 DEF ProcCall
<1>8. CASE SchedCall \/ SemCall
  BY <1>1, <1>8 DEF SchedCall, SemCall
<1>9. CASE \E n \in Delays : SleepCall(n) \/ RecvtimCall(n)
  BY <1>2, <1>9 DEF SleepCall, RecvtimCall, Sleep10, Recvtim
<1>10. CASE UNCHANGED vars
  BY <1>1, <1>10 DEF vars
<1> QED
  BY <1>4, <1>5, <1>6, <1>7, <1>8, <1>9, <1>10 DEF Next, Untimed

LEMMA NextInv == IInv /\ DInv /\ [Next]_vars => IInv'
BY SchedCallInv, SemCallInv, MsgCallInv, ClockCallInv, ProcCallInv, TimerInv, StutterInv
   DEF Next, Untimed

(* The inductive invariant holds in every state of the kernel, whatever the *)
(* application calls and whenever the clock interrupts.                     *)
THEOREM Invariance == Spec => [](IInv /\ DInv)
<1>1. Init => IInv /\ DInv
  BY InitInv
<1>2. (IInv /\ DInv) /\ [Next]_vars => (IInv /\ DInv)'
  BY NextInv, CountersInv
<1> QED
  BY <1>1, <1>2, PTL DEF Spec

LEMMA ClassWait == \A st : Class(st) = "PRWAIT" <=> st = "PRWAIT"
BY DEF Class, Runnable

LEMMA ClassSleep ==
  \A st : Class(st) \in {"PRSLEEP", "PRTRECV"} <=> st \in {"PRSLEEP", "PRTRECV"}
BY DEF Class, Runnable

LEMMA InvNull == IInv => NullAlwaysRunnable
BY DEF IInv, SInv, Core, NullAlwaysRunnable

(* The null process can always run: ready.c, resched.c, suspend.c and       *)
(* kill.c never take it off the ready list for anything but the CPU.        *)
THEOREM NullRunnable == Spec => []NullAlwaysRunnable
BY InvNull, Invariance, PTL

LEMMA InvSorted == IInv => ReadyListSorted
BY DEF IInv, SInv, Core, Sorted, ReadyListSorted

(* The ready list stays sorted by the priorities of its processes.          *)
THEOREM ReadySorted == Spec => []ReadyListSorted
BY InvSorted, Invariance, PTL

LEMMA InvHighest == IInv => HighestPriorityRuns
<1> SUFFICES ASSUME IInv PROVE HighestPriorityRuns
  OBVIOUS
<1>1. Core(sched) /\ curr \in Proc /\ sched.pstate[curr] = "PRCURR"
  BY AnyStart
<1>2. InState({"PRCURR"}) = {curr}
  BY <1>1 DEF InState, Core, curr
<1>3. ~Releasing => \A p \in InState({"PRREADY"}) : sched.pprio[p] <= sched.pprio[curr]
  BY DEF IInv, SInv, Highest, InState, curr
<1> QED
  BY <1>2, <1>3 DEF HighestPriorityRuns

(* One process is current, and no ready process outranks it outside the     *)
(* loops that make several processes ready.                                 *)
THEOREM HighestRuns == Spec => []HighestPriorityRuns
BY InvHighest, Invariance, PTL

LEMMA InvLists == IInv => ListsMatchStates
<1> SUFFICES ASSUME IInv PROVE ListsMatchStates
  OBVIOUS
<1>1. /\ Core(sched) /\ QueuesMatch(semaph, psem, sched.pstate)
      /\ SleepMatch(clockq, sched.pstate)
  BY AnyStart
<1>2. /\ IsInjective([i \in DOMAIN sched.rdy |-> sched.rdy[i].pid])
      /\ Pids(sched.rdy) = InState({"PRREADY"})
  BY <1>1 DEF Core, Distinct, IsInjective, InState
<1>3. /\ IsInjective([i \in DOMAIN clockq |-> clockq[i].pid])
      /\ Pids(clockq) = InState({"PRSLEEP", "PRTRECV"})
  BY <1>1, ClassSleep DEF SleepMatch, Distinct, IsInjective, InState
<1>4. \A s \in Sem :
        /\ IsInjective(semaph[s].queue)
        /\ ToSet(semaph[s].queue) = {p \in InState({"PRWAIT"}) : psem[p] = s}
  BY <1>1, ClassWait DEF QueuesMatch, InState
<1> QED
  BY <1>2, <1>3, <1>4 DEF ListsMatchStates

(* Each process is on the list that its state names, once, and on no other. *)
THEOREM ListsAgree == Spec => []ListsMatchStates
BY InvLists, Invariance, PTL

LEMMA InvCounts == IInv => SemCountsWaiters
BY DEF IInv, QInv, SemCountsWaiters, Emptying, CountMatches, isUsed

(* A semaphore's negative count is the number of processes in its queue.    *)
THEOREM CountsAgree == Spec => []SemCountsWaiters
BY InvCounts, Invariance, PTL

LEMMA InvTypes == IInv => SchedType /\ SemType
<1> SUFFICES ASSUME IInv PROVE SchedType /\ SemType
  OBVIOUS
<1>1. Core(sched) /\ kstack \in Stacks /\ SemTyped(semaph, psem, nextsem)
  BY AnyStart
<1>2. kstack \in [Proc -> Seq([at : Points, arg : Int, cnt : Int])]
  <2>1. \A f \in Frame : f \in [at : Points, arg : Int, cnt : Int]
    BY DEF Frame
  <2>2. PICK F : F = [at : Points, arg : Int, cnt : Int]
    OBVIOUS
  <2>3. \A f \in Frame : f \in F
    BY <2>1, <2>2
  <2>4. ASSUME NEW q \in Seq(Frame) PROVE q \in Seq(F)
    BY <2>3
  <2>5. kstack \in [Proc -> Seq(F)]
    BY <1>1, <2>4 DEF Stacks
  <2> QED
    BY <2>2, <2>5
<1>3. SemType
  BY <1>1 DEF SemType, SemTyped
<1>4. SchedType
  BY <1>1, <1>2 DEF SchedType, Core, SchedRec, Entries
<1> QED
  BY <1>3, <1>4

(* The scheduler's and the semaphores' variables have their types.          *)
THEOREM Types == Spec => [](SchedType /\ SemType)
BY InvTypes, Invariance, PTL

(***************************************************************************)
(* What the kernel stacks hold, and where.                                 *)
(***************************************************************************)

(* A process in receive or kill has called nothing from there, and what     *)
(* stopclk has read of defclk is below its bound.                           *)
Held == {"receive", "kill"}

GoodStack(k) ==
  \A i \in DOMAIN k : /\ k[i].at \in Held => i = 1
                      /\ k[i].at = "stopclk" => k[i].cnt \in 0..(MaxDefer - 1)

GoodStacks(k) == \A p \in Proc : GoodStack(k[p])

GInv == GoodStacks(kstack)

(* A step by which nobody enters or leaves receive and kill. *)
SameHeld(k, n) ==
  \A p \in Proc : TopOf(k, p).at \in Held \/ TopOf(n, p).at \in Held
                    => TopOf(n, p) = TopOf(k, p)

LEMMA GoodPush ==
  ASSUME NEW k \in Stacks, NEW c \in Proc, GoodStacks(k), TopOf(k, c).at \notin Held,
         NEW fs \in Seq(Frame), fs # <<>>, GoodStack(fs)
  PROVE  LET n == [k EXCEPT ![c] = fs \o @]
         IN  /\ GoodStacks(n)
             /\ fs[1].at \notin Held => SameHeld(k, n)
             /\ TopOf(n, c) = fs[1]
             /\ \A p \in Proc \ {c} : TopOf(n, p) = TopOf(k, p)
<1> DEFINE n == [k EXCEPT ![c] = fs \o @]
           r == fs \o k[c]
<1>0. k[c] \in Seq(Frame) /\ Len(fs) \in Nat \ {0} /\ Len(k[c]) \in Nat
      /\ DOMAIN fs = 1..Len(fs) /\ DOMAIN k[c] = 1..Len(k[c])
  BY DEF Stacks
<1>1. /\ r \in Seq(Frame) /\ Len(r) = Len(fs) + Len(k[c])
      /\ \A i \in 1..(Len(fs) + Len(k[c])) :
           r[i] = IF i <= Len(fs) THEN fs[i] ELSE k[c][i - Len(fs)]
  BY <1>0, ConcatProperties
<1> HIDE DEF r
<1>2. n[c] = r /\ \A p \in Proc \ {c} : n[p] = k[p]
  BY DEF Stacks, r
<1>3. ASSUME NEW i \in DOMAIN k[c] PROVE k[c][i].at \notin Held
  <2>1. CASE i = 1
    <3>1. k[c] # <<>> /\ Head(k[c]) = k[c][1]
      BY <1>0, <2>1
    <3> QED
      BY <2>1, <3>1 DEF TopOf
  <2>2. CASE i # 1
    BY <2>2 DEF GoodStacks, GoodStack
  <2> QED
    BY <2>1, <2>2
<1>4. ASSUME NEW i \in DOMAIN r
      PROVE  /\ r[i].at \in Held => i = 1
             /\ r[i].at = "stopclk" => r[i].cnt \in 0..(MaxDefer - 1)
  <2>1. i \in 1..(Len(fs) + Len(k[c]))
    BY <1>1
  <2>2. CASE i <= Len(fs)
    <3>1. i \in DOMAIN fs /\ r[i] = fs[i]
      BY <1>0, <1>1, <2>1, <2>2
    <3> QED
      BY <3>1 DEF GoodStack
  <2>3. CASE ~(i <= Len(fs))
    <3>1. i - Len(fs) \in DOMAIN k[c] /\ r[i] = k[c][i - Len(fs)]
      BY <1>0, <1>1, <2>1, <2>3
    <3> QED
      BY <1>3, <3>1 DEF GoodStacks, GoodStack
  <2> QED
    BY <2>2, <2>3
<1>5. r # <<>> /\ r[1] = fs[1] /\ Head(r) = r[1]
  <2>1. 1 \in 1..(Len(fs) + Len(k[c])) /\ 1 <= Len(fs)
    BY <1>0
  <2> QED
    BY <1>1, <2>1
<1> HIDE DEF n
<1>6. GoodStacks(n)
  BY <1>2, <1>4 DEF GoodStacks, GoodStack
<1>7. /\ TopOf(n, c) = fs[1]
      /\ \A p \in Proc \ {c} : TopOf(n, p) = TopOf(k, p)
  BY <1>2, <1>5 DEF TopOf
<1>8. fs[1].at \notin Held => SameHeld(k, n)
  BY <1>7 DEF SameHeld
<1> QED
  BY <1>6, <1>7, <1>8 DEF n

LEMMA GoodPop ==
  ASSUME NEW k \in Stacks, NEW c \in Proc, GoodStacks(k), k[c] # <<>>
  PROVE  LET n == [k EXCEPT ![c] = Tail(@)]
         IN  /\ GoodStacks(n)
             /\ TopOf(n, c).at \notin Held
             /\ TopOf(k, c).at \notin Held => SameHeld(k, n)
             /\ \A p \in Proc \ {c} : TopOf(n, p) = TopOf(k, p)
<1> DEFINE n == [k EXCEPT ![c] = Tail(@)]
           r == Tail(k[c])
<1>0. k[c] \in Seq(Frame) /\ Len(k[c]) \in Nat \ {0} /\ DOMAIN k[c] = 1..Len(k[c])
  BY DEF Stacks
<1>1. r \in Seq(Frame) /\ Len(r) = Len(k[c]) - 1 /\ \A i \in 1..Len(r) : r[i] = k[c][i+1]
  BY <1>0, HeadTailProperties
<1>2. n[c] = r /\ \A p \in Proc \ {c} : n[p] = k[p]
  BY DEF Stacks
<1> HIDE DEF n, r
<1>4. ASSUME NEW i \in DOMAIN r
      PROVE  /\ r[i].at \notin Held
             /\ r[i].at = "stopclk" => r[i].cnt \in 0..(MaxDefer - 1)
  <2>1. i + 1 \in DOMAIN k[c] /\ i + 1 # 1 /\ r[i] = k[c][i+1]
    BY <1>0, <1>1
  <2>2. PICK j : j = i + 1
    OBVIOUS
  <2>3. j \in DOMAIN k[c] /\ j # 1 /\ r[i] = k[c][j]
    BY <2>1, <2>2
  <2> QED
    BY <2>3 DEF GoodStacks, GoodStack
<1>5. GoodStacks(n)
  BY <1>2, <1>4 DEF GoodStacks, GoodStack
<1>6. TopOf(n, c).at \notin Held
  <2>1. CASE r = <<>>
    BY <1>2, <2>1 DEF TopOf, At, Held
  <2>2. CASE r # <<>>
    <3>1. 1 \in DOMAIN r /\ Head(r) = r[1]
      BY <1>1, <2>2
    <3> QED
      BY <1>2, <1>4, <2>2, <3>1 DEF TopOf
  <2> QED
    BY <2>1, <2>2
<1>7. \A p \in Proc \ {c} : TopOf(n, p) = TopOf(k, p)
  BY <1>2 DEF TopOf
<1>8. TopOf(k, c).at \notin Held => SameHeld(k, n)
  BY <1>6, <1>7 DEF SameHeld
<1> QED
  BY <1>5, <1>6, <1>7, <1>8 DEF n

(* The steps of the current process, and what they leave alone. *)
LEMMA GoodCall ==
  ASSUME IInv, GInv, Top(curr).at \notin Held, NEW f \in Frame,
         f.at = "stopclk" => f.cnt \in 0..(MaxDefer - 1), Call(<<f>>)
  PROVE  /\ GInv' /\ (f.at \notin Held => SameHeld(kstack, kstack'))
         /\ TopOf(kstack', curr) = f
         /\ \A p \in Proc \ {curr} : TopOf(kstack', p) = TopOf(kstack, p)
<1>1. kstack \in Stacks /\ curr \in Proc /\ TopOf(kstack, curr).at \notin Held
  BY AnyStart, TopIsTopOf
<1>2. PICK fs : fs = <<f>>
  OBVIOUS
<1>3. fs \in Seq(Frame) /\ fs # <<>> /\ fs[1] = f /\ DOMAIN fs = {1}
  BY <1>2
<1>4. GoodStack(fs)
  BY <1>3 DEF GoodStack
<1>5. kstack' = [kstack EXCEPT ![curr] = fs \o @]
  BY <1>2 DEF Call
<1> DEFINE n == [kstack EXCEPT ![curr] = fs \o @]
<1>6. /\ GoodStacks(n) /\ (fs[1].at \notin Held => SameHeld(kstack, n))
      /\ TopOf(n, curr) = fs[1]
      /\ \A p \in Proc \ {curr} : TopOf(n, p) = TopOf(kstack, p)
  BY <1>1, <1>3, <1>4, GoodPush DEF GInv
<1> HIDE DEF n
<1>7. kstack' = n
  BY <1>5 DEF n
<1> QED
  BY <1>3, <1>6, <1>7 DEF GInv

LEMMA GoodCallTwo ==
  ASSUME IInv, GInv, Top(curr).at \notin Held, NEW f \in Frame, NEW g \in Frame,
         f.at \notin Held \cup {"stopclk"}, g.at \notin Held \cup {"stopclk"},
         Call(<<f, g>>)
  PROVE  GInv' /\ SameHeld(kstack, kstack')
<1>1. kstack \in Stacks /\ curr \in Proc /\ TopOf(kstack, curr).at \notin Held
  BY AnyStart, TopIsTopOf
<1>2. PICK fs : fs = <<f, g>>
  OBVIOUS
<1>3. fs \in Seq(Frame) /\ fs # <<>> /\ fs[1] = f /\ fs[2] = g /\ DOMAIN fs = {1, 2}
  BY <1>2
<1>4. GoodStack(fs)
  BY <1>3 DEF GoodStack
<1>5. kstack' = [kstack EXCEPT ![curr] = fs \o @]
  BY <1>2 DEF Call
<1> DEFINE n == [kstack EXCEPT ![curr] = fs \o @]
<1>6. GoodStacks(n) /\ (fs[1].at \notin Held => SameHeld(kstack, n))
  BY <1>1, <1>3, <1>4, GoodPush DEF GInv
<1> HIDE DEF n
<1>7. kstack' = n
  BY <1>5 DEF n
<1> QED
  BY <1>3, <1>6, <1>7 DEF GInv

LEMMA GoodReturn ==
  ASSUME IInv, GInv, Top(curr).at # "user", Return
  PROVE  /\ GInv' /\ (Top(curr).at \notin Held => SameHeld(kstack, kstack'))
         /\ TopOf(kstack', curr).at \notin Held
         /\ \A p \in Proc \ {curr} : TopOf(kstack', p) = TopOf(kstack, p)
<1>1. kstack \in Stacks /\ curr \in Proc /\ kstack[curr] # <<>>
      /\ Top(curr) = TopOf(kstack, curr)
  BY AnyStart, InCall, TopIsTopOf
<1> DEFINE n == [kstack EXCEPT ![curr] = Tail(@)]
<1>2. /\ GoodStacks(n) /\ TopOf(n, curr).at \notin Held
      /\ TopOf(kstack, curr).at \notin Held => SameHeld(kstack, n)
      /\ \A p \in Proc \ {curr} : TopOf(n, p) = TopOf(kstack, p)
  BY <1>1, GoodPop DEF GInv
<1> HIDE DEF n
<1>3. kstack' = n
  BY DEF Return, n
<1> QED
  BY <1>1, <1>2, <1>3 DEF GInv

LEMMA GoodGoto ==
  ASSUME IInv, GInv, Top(curr).at # "user", Top(curr).at \notin Held, NEW f \in Frame,
         f.at \notin Held \cup {"stopclk"}, Goto(f)
  PROVE  GInv' /\ SameHeld(kstack, kstack')
<1>1. kstack \in Stacks /\ curr \in Proc /\ kstack[curr] # <<>>
      /\ Top(curr) = TopOf(kstack, curr) /\ OnlyLoopAt(kstack, curr)
  BY AnyStart, InCall, TopIsTopOf
<1> DEFINE t == [kstack EXCEPT ![curr] = Tail(@)]
<1>2. /\ GoodStacks(t) /\ TopOf(t, curr).at \notin Held /\ SameHeld(kstack, t)
  BY <1>1, GoodPop DEF GInv
<1>3. t \in Stacks
  BY <1>1, PopFacts DEF OnlyLoopAt
<1>4. PICK fs : fs = <<f>>
  OBVIOUS
<1>5. fs \in Seq(Frame) /\ fs # <<>> /\ fs[1] = f /\ DOMAIN fs = {1}
  BY <1>4
<1>6. GoodStack(fs)
  BY <1>5 DEF GoodStack
<1>7. kstack' = [t EXCEPT ![curr] = fs \o @]
  BY <1>1, <1>4 DEF Goto, Stacks
<1> HIDE DEF t
<1> DEFINE m == [t EXCEPT ![curr] = fs \o @]
<1>8. GoodStacks(m) /\ (fs[1].at \notin Held => SameHeld(t, m))
  BY <1>1, <1>2, <1>3, <1>5, <1>6, GoodPush
<1> HIDE DEF m
<1>9. kstack' = m
  BY <1>7 DEF m
<1>10. SameHeld(kstack, m)
  <2>1. fs[1].at \notin Held
    BY <1>5
  <2> QED
    BY <1>2, <1>8, <2>1 DEF SameHeld
<1> QED
  BY <1>8, <1>9, <1>10 DEF GInv

LEMMA GoodSame == ASSUME GInv, kstack' = kstack PROVE GInv' /\ SameHeld(kstack, kstack')
BY DEF GInv, SameHeld, GoodStacks

(* A step by which no process gets or loses its table entry, begins to wait *)
(* for a message or stops waiting for one.                                  *)
Plain(s, t) ==
  \A p \in Proc : \A st \in {"PRFREE", "PRRECV"} : t.pstate[p] = st <=> s.pstate[p] = st

LEMMA ClassPlain == \A st \in {"PRFREE", "PRRECV"} : \A x : Class(x) = st <=> x = st
BY DEF Class, Runnable

LEMMA StillPlain ==
  ASSUME NEW s, NEW t, Still(s, t)
  PROVE  Plain(s, t)
BY ClassPlain DEF Still, Plain

LEMMA MovedPlain ==
  ASSUME NEW s, NEW t, NEW p \in Proc, NEW c, Moved(s, t, p, c),
         c \notin {"PRFREE", "PRRECV"}, s.pstate[p] \notin {"PRFREE", "PRRECV"}
  PROVE  Plain(s, t)
<1> SUFFICES ASSUME NEW q \in Proc, NEW st \in {"PRFREE", "PRRECV"}
             PROVE  t.pstate[q] = st <=> s.pstate[q] = st
  BY DEF Plain
<1>1. Class(t.pstate[q]) = IF q = p THEN c ELSE Class(s.pstate[q])
  BY DEF Moved
<1> QED
  BY <1>1, ClassPlain

PlainStep == Plain(sched, sched') /\ SameHeld(kstack, kstack') /\ GInv'

LEMMA SamePlain == ASSUME sched' = sched PROVE Plain(sched, sched')
BY DEF Plain

LEMMA ReleasePlain ==
  ASSUME IInv, NEW s \in Sem, semaph[s].queue # <<>>,
         \/ sched' = Resched(Ready(sched, Head(semaph[s].queue)))
         \/ sched' = Ready(sched, Head(semaph[s].queue))
  PROVE  Plain(sched, sched')
<1>1. PICK h : h = Head(semaph[s].queue)
  OBVIOUS
<1>2. /\ h \in Proc /\ sched.pstate[h] \notin Runnable /\ Core(sched)
      /\ Class(sched.pstate[h]) = "PRWAIT"
  BY <1>1, AnyStart, QueueHeadFacts
<1>3. sched.pstate[h] \notin {"PRFREE", "PRRECV"}
  BY <1>2, ClassPlain
<1>4. Moved(sched, sched', h, "RUN")
  BY <1>1, <1>2, ReadyStep, ReadyReschedStep
<1> QED
  BY <1>2, <1>3, <1>4, MovedPlain

LEMMA BlockPlain ==
  ASSUME IInv, NEW p \in Proc, p # NULLPROC, sched.pstate[p] = "PRCURR",
         NEW st \in {"PRSUSP", "PRWAIT", "PRSLEEP", "PRTRECV"},
         sched' = Resched(Block(sched, p, st))
  PROVE  Plain(sched, sched')
<1>1. Core(sched) /\ st \in PRStates \ Runnable /\ st \notin {"PRFREE", "PRRECV"}
  BY AnyStart DEF PRStates, Runnable
<1>2. Moved(sched, sched', p, st)
  BY <1>1, BlockReschedStep
<1> QED
  BY <1>1, <1>2, MovedPlain

LEMMA ReschedPlain ==
  ASSUME IInv, sched' = Resched(sched)
  PROVE  Plain(sched, sched')
BY AnyStart, ReschedStep, StillPlain

LEMMA ResumePlain ==
  ASSUME IInv, NEW p \in Proc, Resume(p)
  PROVE  Plain(sched, sched')
<1>1. Core(sched) /\ sched.pstate[p] \notin Runnable
  BY AnyStart DEF Resume, Runnable
<1>2. Moved(sched, sched', p, "RUN") /\ sched.pstate[p] \notin {"PRFREE", "PRRECV"}
  BY <1>1, ReadyReschedStep DEF Resume
<1> QED
  BY <1>2, MovedPlain

LEMMA SchedCallPlain ==
  ASSUME IInv, GInv, SchedCall
  PROVE  PlainStep
<1>1. kstack' = kstack
  BY DEF SchedCall, Suspend, Resume, Chprio
<1>2. Core(sched) /\ curr \in Proc /\ sched.pstate[curr] = "PRCURR"
  BY AnyStart
<1>3. ASSUME NEW p \in Proc, Suspend(p) PROVE Plain(sched, sched')
  <2>0. p # NULLPROC
    BY <1>3 DEF Suspend
  <2>1. CASE sched.pstate[p] = "PRREADY" /\ sched' = Unready(sched, p, "PRSUSP")
    <3>1. p # sched.currpid
      BY <1>2, <2>1 DEF curr
    <3>2. "PRSUSP" \in PRStates \ Runnable
      BY StatesDistinct
    <3>3. Moved(sched, sched', p, "PRSUSP")
      BY <1>2, <2>0, <2>1, <3>1, <3>2, DropStep
    <3>4. "PRSUSP" \notin {"PRFREE", "PRRECV"} /\ sched.pstate[p] \notin {"PRFREE", "PRRECV"}
      BY <2>1
    <3> QED
      BY <3>3, <3>4, MovedPlain
  <2>2. CASE sched.pstate[p] = "PRCURR" /\ sched' = Resched(Block(sched, p, "PRSUSP"))
    BY <2>0, <2>2, BlockPlain
  <2> QED
    BY <1>3, <2>1, <2>2 DEF Suspend
<1>4. ASSUME NEW p \in Proc, NEW prio \in Prios, Chprio(p, prio) PROVE Plain(sched, sched')
  <2> DEFINE u == [sched EXCEPT !.pprio[p] = prio]
             t == IF sched.pstate[p] = "PRREADY"
                  THEN [u EXCEPT !.rdy = Insert(Dequeue(u.rdy, p), p, prio)]
                  ELSE u
  <2>0. prio \in Nat
    BY PriosAssumption
  <2>1. Core(t) /\ Still(sched, t)
    BY <1>2, <2>0, ReprioFacts
  <2>2. sched' = Resched(t) \/ sched' = t
    <3>1. u.pstate = sched.pstate
      BY <1>2 DEF Core, SchedRec
    <3>2. CASE sched.pstate[p] = "PRREADY"
      BY <1>4, <3>1, <3>2 DEF Chprio
    <3>3. CASE sched.pstate[p] = "PRCURR"
      BY <1>4, <3>1, <3>3 DEF Chprio
    <3>4. CASE sched.pstate[p] \notin {"PRREADY", "PRCURR"}
      BY <1>4, <3>1, <3>4 DEF Chprio
    <3> QED
      BY <3>2, <3>3, <3>4
  <2> HIDE DEF t
  <2>3. Still(sched, sched')
    BY <2>1, <2>2, ReschedStep DEF Still
  <2> QED
    BY <2>3, StillPlain
<1>5. Plain(sched, sched')
  BY <1>3, <1>4, ResumePlain DEF SchedCall
<1> QED
  BY <1>1, <1>5, GoodSame DEF PlainStep

LEMMA NotHeld ==
  /\ InUser => Top(curr).at \notin Held
  /\ \A pt \in {"signaln", "sreset", "sdelete", "wakeup", "clkint", "strtclk",
                "recvtim"} : pt \notin Held \cup {"stopclk"} /\ pt # "user"
  /\ "stopclk" \notin Held
BY DEF InUser, Top, At, Held

LEMMA SemCallPlain ==
  ASSUME IInv, GInv, SemCall
  PROVE  PlainStep
<1>0. /\ Core(sched) /\ curr \in Proc /\ sched.pstate[curr] = "PRCURR"
      /\ SemTyped(semaph, psem, nextsem)
  BY AnyStart
<1>1. ASSUME NEW s \in Sem, Wait(s) PROVE PlainStep
  <2>1. curr # NULLPROC /\ kstack' = kstack
    BY <1>1 DEF Wait, Calling
  <2>2. sched' = sched \/ sched' = Resched(Block(sched, curr, "PRWAIT"))
    BY <1>1 DEF Wait, WaitOn
  <2>3. Plain(sched, sched')
    BY <1>0, <2>1, <2>2, SamePlain, BlockPlain
  <2> QED
    BY <2>1, <2>3, GoodSame DEF PlainStep
<1>2. ASSUME NEW s \in Sem, semaph[s].sstate = "SUSED", semaph[s].semcnt < 0,
             \A x \in Sem : CountMatches(semaph[x])
      PROVE  semaph[s].queue # <<>>
  <2>1. /\ semaph[s].semcnt \in Int
        /\ semaph[s].queue \in Seq(Proc) /\ Len(semaph[s].queue) \in Nat
    BY <1>0, SemFacts
  <2>2. Len(semaph[s].queue) = -semaph[s].semcnt
    BY <1>2 DEF CountMatches
  <2>3. Len(semaph[s].queue) # 0
    BY <1>2, <2>1, <2>2
  <2> QED
    BY <2>3
<1>3. ASSUME NEW s \in Sem, Signal(s) PROVE PlainStep
  <2>1. kstack' = kstack /\ semaph[s].sstate = "SUSED" /\ Top(curr).at \notin Loops
    BY <1>3, InUserTop DEF Signal, isUsed, Calling
  <2>2. \A x \in Sem : CountMatches(semaph[x])
    BY <2>1, QuietStart
  <2>3. Plain(sched, sched')
    <3>1. CASE semaph[s].semcnt < 0
      <4>1. sched' = Resched(Ready(sched, Head(semaph[s].queue)))
        BY <1>3, <3>1 DEF Signal, SignalOnce
      <4> QED
        BY <1>2, <2>1, <2>2, <3>1, <4>1, ReleasePlain
    <3>2. CASE ~(semaph[s].semcnt < 0)
      BY <1>3, <3>2, SamePlain DEF Signal, SignalOnce
    <3> QED
      BY <3>1, <3>2
  <2> QED
    BY <2>1, <2>3, GoodSame DEF PlainStep
<1>4. ASSUME NEW pt \in {"signaln", "sreset", "sdelete"}, NEW s \in Sem, NEW n \in Nat,
             InUser, Call(<<At(pt, s, n)>>), sched' = sched
      PROVE  PlainStep
  <2> DEFINE f == At(pt, s, n)
  <2>1. f \in Frame /\ f.at = pt
    <3>1. s \in Int /\ n \in Int /\ pt \in Points /\ pt # "kill"
      BY NSEMAssumption DEF Sem, Points
    <3> QED
      BY <3>1, FrameFacts
  <2>2. Call(<<f>>)
    BY <1>4
  <2> HIDE DEF f
  <2>3. f.at \notin Held \cup {"stopclk"} /\ Top(curr).at \notin Held
    BY <1>4, <2>1, NotHeld
  <2>4. GInv' /\ SameHeld(kstack, kstack')
    BY <2>1, <2>2, <2>3, GoodCall
  <2> QED
    BY <1>4, <2>4, SamePlain DEF PlainStep
<1>5. ASSUME NEW s \in Sem, Sdelete(s) PROVE PlainStep
  <2>1. CASE semaph[s].queue = <<>>
    BY <1>5, <2>1, GoodSame, SamePlain DEF Sdelete, PlainStep
  <2>2. CASE semaph[s].queue # <<>>
    BY <1>4, <1>5, <2>2 DEF Sdelete, Calling
  <2> QED
    BY <2>1, <2>2
<1>6. ASSUME NEW s \in Sem, NEW n \in 0..MaxCount, Signaln(s, n) \/ Sreset(s, n)
      PROVE  PlainStep
  <2>1. n \in Nat
    BY MaxCountAssumption
  <2> QED
    BY <1>4, <1>6, <2>1 DEF Signaln, Sreset, Calling
<1>7. ASSUME NEW n \in 0..MaxCount, Screate(n) PROVE PlainStep
  BY <1>7, GoodSame, SamePlain DEF Screate, PlainStep
<1>8. CASE SignalnLoop
  <2> DEFINE s == Top(curr).arg
             n == Top(curr).cnt
  <2>1. Top(curr).at = "signaln" /\ Top(curr).at \notin Held /\ Top(curr).at # "user"
    BY <1>8, NotHeld DEF SignalnLoop
  <2>2. s \in Sem /\ n \in Nat /\ s \in Int /\ n \in Int /\ semaph[s].sstate = "SUSED"
    BY <2>1, InCall DEF Frame, IInv, QInv, isUsed
  <2>3. \A x \in Sem : CountMatches(semaph[x])
    BY <2>1, AnyStart DEF Emptying
  <2> HIDE DEF s, n
  <2>4. CASE n > 0 /\ SignalOnce(s, Same) /\ Goto(At("signaln", s, n - 1))
    <3> DEFINE f == At("signaln", s, n - 1)
    <3>1. f \in Frame /\ f.at = "signaln"
      <4>1. n - 1 \in Nat /\ n - 1 \in Int
        BY <2>2, <2>4
      <4>2. "signaln" \in Points /\ "signaln" # "kill"
        BY DEF Points
      <4> QED
        BY <2>2, <4>1, <4>2, FrameFacts
    <3>2. Goto(f)
      BY <2>4
    <3> HIDE DEF f
    <3>3. GInv' /\ SameHeld(kstack, kstack')
      BY <2>1, <3>1, <3>2, NotHeld, GoodGoto
    <3>4. Plain(sched, sched')
      <4>1. CASE semaph[s].semcnt < 0
        <5>1. sched' = Ready(sched, Head(semaph[s].queue))
          BY <2>4, <4>1 DEF SignalOnce, Same
        <5> QED
          BY <1>2, <2>2, <2>3, <4>1, <5>1, ReleasePlain
      <4>2. CASE ~(semaph[s].semcnt < 0)
        BY <2>4, <4>2, SamePlain DEF SignalOnce
      <4> QED
        BY <4>1, <4>2
    <3> QED
      BY <3>3, <3>4 DEF PlainStep
  <2>5. CASE sched' = Resched(sched) /\ Return
    BY <2>1, <2>5, GoodReturn, ReschedPlain DEF PlainStep
  <2> QED
    BY <1>8, <2>4, <2>5 DEF SignalnLoop, s, n
<1>9. CASE FlushLoop
  <2> DEFINE s == Top(curr).arg
  <2>1. /\ Top(curr).at \in {"sreset", "sdelete"} /\ Top(curr).at \notin Held
        /\ Top(curr).at # "user"
    BY <1>9, NotHeld DEF FlushLoop
  <2>2. s \in Sem
    BY <2>1, InCall DEF Frame
  <2>3. CASE semaph[s].queue # <<>> /\ sched' = Ready(sched, Head(semaph[s].queue))
             /\ kstack' = kstack
    BY <2>2, <2>3, ReleasePlain, GoodSame DEF PlainStep
  <2>4. CASE sched' = Resched(sched) /\ Return
    BY <2>1, <2>4, GoodReturn, ReschedPlain DEF PlainStep
  <2> QED
    BY <1>9, <2>3, <2>4 DEF FlushLoop
<1> QED
  BY <1>1, <1>3, <1>5, <1>6, <1>7, <1>8, <1>9 DEF SemCall

LEMMA ClockCallPlain ==
  ASSUME IInv, GInv, defclk \in 0..MaxDefer, ClockCall
  PROVE  PlainStep
<1>0. /\ Core(sched) /\ curr \in Proc /\ SleepMatch(clockq, sched.pstate)
  BY AnyStart
<1>1. ASSUME NEW n, sched' = [sched EXCEPT !.preempt = n] PROVE Plain(sched, sched')
  <2>1. sched'.pstate = sched.pstate
    BY <1>0, <1>1 DEF Core, SchedRec
  <2> QED
    BY <2>1 DEF Plain
<1>2. CASE ClkintEnd \/ StrtclkEnd
  <2>1. /\ Return /\ Top(curr).at \notin Held /\ Top(curr).at # "user"
    BY <1>2, NotHeld DEF ClkintEnd, StrtclkEnd
  <2>2. \/ sched' = Resched(sched) \/ sched' = sched
        \/ \E n : sched' = [sched EXCEPT !.preempt = n]
    BY <1>2 DEF ClkintEnd, StrtclkEnd
  <2>3. Plain(sched, sched')
    BY <1>1, <2>2, SamePlain, ReschedPlain
  <2> QED
    BY <2>1, <2>3, GoodReturn DEF PlainStep
<1>3. CASE Wakeup
  <2>1. Top(curr).at = "wakeup" /\ Top(curr).at \notin Held /\ Top(curr).at # "user"
    BY <1>3, NotHeld DEF Wakeup
  <2>2. CASE clockq # <<>> /\ sched' = Ready(sched, Head(clockq).pid) /\ kstack' = kstack
    <3>1. PICK h : h = Head(clockq).pid
      OBVIOUS
    <3>2. h \in Proc /\ Class(sched.pstate[h]) \in Asleep /\ sched.pstate[h] \notin Runnable
      BY <1>0, <2>2, <3>1, WakeHead
    <3>3. Moved(sched, sched', h, "RUN")
      BY <1>0, <2>2, <3>1, <3>2, ReadyStep
    <3>4. "RUN" \notin {"PRFREE", "PRRECV"} /\ sched.pstate[h] \notin {"PRFREE", "PRRECV"}
      BY <3>2, ClassPlain DEF Asleep
    <3>5. Plain(sched, sched')
      BY <3>2, <3>3, <3>4, MovedPlain
    <3> QED
      BY <2>2, <3>5, GoodSame DEF PlainStep
  <2>3. CASE sched' = Resched(sched) /\ Return
    BY <2>1, <2>3, GoodReturn, ReschedPlain DEF PlainStep
  <2> QED
    BY <1>3, <2>2, <2>3 DEF Wakeup
<1>4. CASE Stopclk
  <2> DEFINE f == At("stopclk", 0, defclk)
  <2>1. f \in Frame /\ f.at = "stopclk" /\ f.cnt = defclk
    <3>1. "stopclk" \in Points /\ "stopclk" \notin {"kill", "signaln", "sreset", "sdelete"}
      BY DEF Points
    <3>2. 0 \in Int /\ defclk \in Int
      BY DeferAssumption
    <3> QED
      BY <3>1, <3>2, FrameFacts
  <2>2. f.cnt \in 0..(MaxDefer - 1)
    <3>1. defclk < MaxDefer
      BY <1>4 DEF Stopclk
    <3> QED
      BY <2>1, <3>1, DeferAssumption
  <2>3. Call(<<f>>) /\ sched' = sched /\ Top(curr).at \notin Held
    BY <1>4, NotHeld DEF Stopclk, Calling
  <2> HIDE DEF f
  <2>4. GInv' /\ SameHeld(kstack, kstack')
    BY <2>1, <2>2, <2>3, NotHeld, GoodCall
  <2> QED
    BY <2>3, <2>4, SamePlain DEF PlainStep
<1>5. CASE StopclkEnd
  <2>1. /\ Return /\ Top(curr).at \notin Held /\ Top(curr).at # "user" /\ sched' = sched
    BY <1>5, NotHeld DEF StopclkEnd
  <2> QED
    BY <2>1, GoodReturn, SamePlain DEF PlainStep
<1>6. ASSUME NEW pt \in {"clkint", "strtclk", "wakeup"}
      PROVE  At(pt, 0, 0) \in Frame /\ At(pt, 0, 0).at \notin Held \cup {"stopclk"}
  BY <1>6, PlainFrames DEF Held
<1>7. CASE Strtclk
  <2>0. Top(curr).at \notin Held
    BY <1>7, NotHeld DEF Strtclk, Calling
  <2>1. sched' = sched \/ \E n : sched' = [sched EXCEPT !.preempt = n]
    BY <1>7 DEF Strtclk
  <2>2. Plain(sched, sched')
    BY <1>1, <2>1, SamePlain
  <2>3. \/ kstack' = kstack
        \/ Call(<<At("wakeup", 0, 0), At("strtclk", 0, 0)>>)
        \/ Call(<<At("strtclk", 0, 0)>>)
    BY <1>7 DEF Strtclk
  <2>4. GInv' /\ SameHeld(kstack, kstack')
    <3> DEFINE f == At("wakeup", 0, 0)
               g == At("strtclk", 0, 0)
    <3>1. /\ f \in Frame /\ f.at \notin Held \cup {"stopclk"}
          /\ g \in Frame /\ g.at \notin Held \cup {"stopclk"}
      BY <1>6
    <3>2. kstack' = kstack \/ Call(<<f, g>>) \/ Call(<<g>>)
      BY <2>3
    <3> HIDE DEF f, g
    <3>3. CASE Call(<<f, g>>)
      BY <2>0, <3>1, <3>3, GoodCallTwo
    <3>4. CASE Call(<<g>>)
      BY <2>0, <3>1, <3>4, GoodCall
    <3> QED
      BY <3>2, <3>3, <3>4, GoodSame
  <2> QED
    BY <2>2, <2>4 DEF PlainStep
<1> QED
  BY <1>2, <1>3, <1>4, <1>5, <1>7 DEF ClockCall

LEMMA TickPlain ==
  ASSUME IInv, GInv, Tick
  PROVE  PlainStep
<1>0. Top(curr).at \notin Held
  BY NotHeld DEF Tick, Clkint, Interruptible
<1> DEFINE f == At("wakeup", 0, 0)
           g == At("clkint", 0, 0)
<1>1. /\ f \in Frame /\ f.at \notin Held \cup {"stopclk"}
      /\ g \in Frame /\ g.at \notin Held \cup {"stopclk"}
  BY PlainFrames DEF Held
<1>2. sched' = sched /\ (kstack' = kstack \/ Call(<<f, g>>) \/ Call(<<g>>))
  BY DEF Tick, Clkint
<1> HIDE DEF f, g
<1>3. CASE Call(<<f, g>>)
  BY <1>0, <1>1, <1>2, <1>3, GoodCallTwo, SamePlain DEF PlainStep
<1>4. CASE Call(<<g>>)
  BY <1>0, <1>1, <1>2, <1>4, GoodCall, SamePlain DEF PlainStep
<1> QED
  BY <1>2, <1>3, <1>4, GoodSame, SamePlain DEF PlainStep

LEMMA SleepersPlain ==
  ASSUME IInv, GInv, NEW n, SleepCall(n) \/ RecvtimCall(n)
  PROVE  PlainStep
<1>0. /\ curr \in Proc /\ sched.pstate[curr] = "PRCURR" /\ curr # NULLPROC
      /\ Top(curr).at \notin Held
  BY AnyStart, NotHeld DEF SleepCall, RecvtimCall, Sleep10, Recvtim, Calling
<1>1. CASE Sleep10(n)
  <2>1. \/ sched' = Resched(sched) \/ sched' = Resched(Block(sched, curr, "PRSLEEP"))
    BY <1>1 DEF Sleep10
  <2>2. Plain(sched, sched')
    BY <1>0, <2>1, ReschedPlain, BlockPlain
  <2> QED
    BY <1>1, <2>2, GoodSame DEF Sleep10, PlainStep
<1>2. CASE Recvtim(n)
  <2>1. \/ sched' = sched \/ sched' = Resched(Block(sched, curr, "PRTRECV"))
    BY <1>2 DEF Recvtim
  <2>2. Plain(sched, sched')
    BY <1>0, <2>1, SamePlain, BlockPlain
  <2> DEFINE f == At("recvtim", 0, 0)
  <2>3. f \in Frame /\ f.at = "recvtim"
    <3>1. "recvtim" \in Points /\ "recvtim" \notin {"kill", "signaln", "sreset", "sdelete"}
      BY DEF Points
    <3> QED
      BY <3>1, FrameFacts
  <2>4. Call(<<f>>)
    BY <1>2 DEF Recvtim
  <2> HIDE DEF f
  <2>5. GInv' /\ SameHeld(kstack, kstack')
    BY <1>0, <2>3, <2>4, NotHeld, GoodCall
  <2> QED
    BY <2>2, <2>5 DEF PlainStep
<1> QED
  BY <1>1, <1>2 DEF SleepCall, RecvtimCall

------------------------------------------------------------------------------
(***************************************************************************)
(* Who is in receive, and what numproc counts.                             *)
(***************************************************************************)

(* A process inside receive waits, is being removed or has a message. *)
MInv ==
  /\ MsgType
  /\ \A p \in Proc : TopOf(kstack, p).at = "receive" =>
       sched.pstate[p] \in {"PRFREE", "PRRECV"} \/ phasmsg[p] # 0

(* The processes, but the null process, that are not busy killing another. *)
Working(s, k) ==
  {p \in Proc \ {NULLPROC} : s.pstate[p] # "PRFREE" /\ TopOf(k, p).at # "kill"}

NInv ==
  /\ numproc \in Int /\ -MaxOverkill <= numproc
  /\ numproc <= Cardinality(Working(sched, kstack))
  /\ boot \in {"create", "resume", "idle"}
  /\ TopOf(kstack, NULLPROC).at # "kill"

LEMMA PlainMsg ==
  ASSUME MInv, PlainStep, UNCHANGED msgVars
  PROVE  MInv'
<1>1. MsgType' /\ phasmsg' = phasmsg
  BY DEF MInv, MsgType, msgVars
<1> SUFFICES ASSUME NEW p \in Proc, TopOf(kstack', p).at = "receive"
             PROVE  sched'.pstate[p] \in {"PRFREE", "PRRECV"} \/ phasmsg'[p] # 0
  BY <1>1 DEF MInv
<1>2. TopOf(kstack, p).at = "receive"
  BY DEF PlainStep, SameHeld, Held
<1>3. sched.pstate[p] \in {"PRFREE", "PRRECV"} \/ phasmsg[p] # 0
  BY <1>2 DEF MInv
<1> QED
  BY <1>1, <1>3 DEF PlainStep, Plain

LEMMA PlainWorking ==
  ASSUME PlainStep
  PROVE  Working(sched', kstack') = Working(sched, kstack)
BY DEF PlainStep, Plain, SameHeld, Held, Working

LEMMA PlainCount ==
  ASSUME NInv, PlainStep, numproc' = numproc, boot' \in {"create", "resume", "idle"}
  PROVE  NInv'
<1>1. TopOf(kstack', NULLPROC).at # "kill"
  BY NullIsProc DEF NInv, PlainStep, SameHeld, Held
<1> QED
  BY <1>1, PlainWorking DEF NInv

LEMMA WorkingFinite ==
  ASSUME NEW s, NEW k
  PROVE  IsFiniteSet(Working(s, k)) /\ Cardinality(Working(s, k)) \in 0..(NPROC - 1)
<1>1. IsFiniteSet(1..(NPROC - 1)) /\ Cardinality(1..(NPROC - 1)) = NPROC - 1
  BY FS_Interval
<1>2. Working(s, k) \subseteq 1..(NPROC - 1)
  BY DEF Working, Proc, NULLPROC
<1>3. /\ IsFiniteSet(Working(s, k))
      /\ Cardinality(Working(s, k)) <= Cardinality(1..(NPROC - 1))
  BY <1>1, <1>2, FS_Subset
<1>4. Cardinality(Working(s, k)) \in Nat
  BY <1>3, FS_CardinalityType
<1> QED
  BY <1>1, <1>3, <1>4

(* A message for p is stored: p has one now, and others have what they had. *)
LEMMA StoredMsg ==
  ASSUME MsgType, NEW p \in Proc, NEW msg \in Msgs \cup Proc, NEW n \in 1..MaxHasmsg,
         pmsg' = [pmsg EXCEPT ![p] = msg], phasmsg' = [phasmsg EXCEPT ![p] = n]
  PROVE  MsgType' /\ phasmsg'[p] # 0 /\ \A q \in Proc \ {p} : phasmsg'[q] = phasmsg[q]
<1>1. n \in 0..MaxHasmsg /\ n # 0
  BY MaxHasmsgAssumption
<1>2. phasmsg' \in [Proc -> 0..MaxHasmsg] /\ pmsg' \in [Proc -> Msgs \cup Proc]
  BY <1>1 DEF MsgType
<1> QED
  BY <1>1, <1>2 DEF MsgType

(* The part of send.c that kill.c shares: at most the receiver is woken. *)
LEMMA DeliverMoves ==
  ASSUME IInv, NEW p \in Proc, NEW msg, Deliver(p, msg)
  PROVE  /\ \A q \in Proc : sched'.pstate[q] = "PRFREE" <=> sched.pstate[q] = "PRFREE"
         /\ \A q \in Proc \ {p} :
              sched'.pstate[q] = "PRRECV" <=> sched.pstate[q] = "PRRECV"
<1>1. Core(sched)
  BY AnyStart
<1>2. CASE sched.pstate[p] \in {"PRRECV", "PRTRECV"} /\ sched' = Resched(Ready(sched, p))
  <2>1. sched.pstate[p] \notin Runnable /\ sched.pstate[p] # "PRFREE"
    BY <1>2 DEF Runnable
  <2>2. Moved(sched, sched', p, "RUN")
    BY <1>1, <1>2, <2>1, ReadyReschedStep
  <2>3. \A q \in Proc \ {p} : Class(sched'.pstate[q]) = Class(sched.pstate[q])
    BY <2>2 DEF Moved
  <2>4. Class(sched'.pstate[p]) = "RUN"
    BY <2>2 DEF Moved
  <2>5. sched'.pstate[p] # "PRFREE"
    BY <2>4, ClassPlain
  <2> QED
    BY <2>1, <2>3, <2>5, ClassPlain
<1>3. CASE sched' = sched
  BY <1>3
<1> QED
  BY <1>2, <1>3 DEF Deliver

LEMMA DeliverMsg ==
  ASSUME MsgType, NEW p \in Proc, NEW msg \in Msgs \cup Proc, Deliver(p, msg)
  PROVE  MsgType' /\ phasmsg'[p] # 0 /\ \A q \in Proc \ {p} : phasmsg'[q] = phasmsg[q]
<1>1. 1 \in 1..MaxHasmsg
  BY MaxHasmsgAssumption
<1> QED
  BY <1>1, StoredMsg DEF Deliver

(* What is left to show when a message is stored for p. *)
LEMMA StoredInv ==
  ASSUME MInv, NEW p \in Proc, MsgType', phasmsg'[p] # 0,
         \A q \in Proc \ {p} : phasmsg'[q] = phasmsg[q],
         \A q \in Proc : sched'.pstate[q] = "PRFREE" <=> sched.pstate[q] = "PRFREE",
         \A q \in Proc \ {p} : sched'.pstate[q] = "PRRECV" <=> sched.pstate[q] = "PRRECV",
         \A q \in Proc : TopOf(kstack', q).at = "receive" => TopOf(kstack, q).at = "receive"
  PROVE  MInv'
<1> SUFFICES ASSUME NEW q \in Proc, TopOf(kstack', q).at = "receive"
             PROVE  sched'.pstate[q] \in {"PRFREE", "PRRECV"} \/ phasmsg'[q] # 0
  BY DEF MInv
<1>1. sched.pstate[q] \in {"PRFREE", "PRRECV"} \/ phasmsg[q] # 0
  BY DEF MInv
<1>2. CASE q = p
  BY <1>2
<1>3. CASE q # p
  BY <1>1, <1>3
<1> QED
  BY <1>2, <1>3

LEMMA SameWorking ==
  ASSUME \A q \in Proc : sched'.pstate[q] = "PRFREE" <=> sched.pstate[q] = "PRFREE",
         \A q \in Proc : TopOf(kstack', q).at = "kill" <=> TopOf(kstack, q).at = "kill"
  PROVE  Working(sched', kstack') = Working(sched, kstack)
BY DEF Working

LEMMA MsgCallInv3 ==
  ASSUME IInv, GInv, MInv, NInv, MsgCall
  PROVE  GInv' /\ MInv' /\ NInv'
<1>0. /\ Core(sched) /\ curr \in Proc /\ sched.pstate[curr] = "PRCURR" /\ MsgType
      /\ numproc' = numproc /\ boot' = boot
      /\ phasmsg \in [Proc -> 0..MaxHasmsg] /\ TopOf(kstack, curr) = Top(curr)
  BY AnyStart, TopIsTopOf DEF MInv, MsgType, MsgCall, procVars
<1>1. ASSUME Working(sched', kstack') = Working(sched, kstack),
             \A q \in Proc : TopOf(kstack', q).at = "kill" => TopOf(kstack, q).at = "kill"
      PROVE  NInv'
  BY <1>0, <1>1, NullIsProc DEF NInv
<1>2. ASSUME NEW p \in Proc, NEW msg \in Msgs, Send(p, msg) PROVE GInv' /\ MInv' /\ NInv'
  <2>1. Deliver(p, msg) /\ kstack' = kstack /\ msg \in Msgs \cup Proc
    BY <1>2 DEF Send
  <2>2. GInv' /\ \A q \in Proc : TopOf(kstack', q) = TopOf(kstack, q)
    BY <2>1, GoodSame
  <2>3. MInv'
    BY <1>0, <2>1, <2>2, DeliverMoves, DeliverMsg, StoredInv
  <2>4. Working(sched', kstack') = Working(sched, kstack)
    BY <2>1, <2>2, DeliverMoves, SameWorking
  <2> QED
    BY <1>1, <2>2, <2>3, <2>4
<1>3. ASSUME NEW p \in Proc, NEW msg \in Msgs, Sendf(p, msg) PROVE GInv' /\ MInv' /\ NInv'
  <2>1. /\ kstack' = kstack /\ msg \in Msgs \cup Proc /\ phasmsg[p] < MaxHasmsg
        /\ pmsg' = [pmsg EXCEPT ![p] = msg]
        /\ phasmsg' = [phasmsg EXCEPT ![p] = phasmsg[p] + 1]
    BY <1>3 DEF Sendf
  <2>2. GInv' /\ \A q \in Proc : TopOf(kstack', q) = TopOf(kstack, q)
    BY <2>1, GoodSame
  <2>3. phasmsg[p] + 1 \in 1..MaxHasmsg
    <3>1. phasmsg[p] \in 0..MaxHasmsg
      BY <1>0
    <3> QED
      BY <2>1, <3>1, MaxHasmsgAssumption
  <2>4. MsgType' /\ phasmsg'[p] # 0 /\ \A q \in Proc \ {p} : phasmsg'[q] = phasmsg[q]
    BY <1>0, <2>1, <2>3, StoredMsg
  <2>5. /\ \A q \in Proc : sched'.pstate[q] = "PRFREE" <=> sched.pstate[q] = "PRFREE"
        /\ \A q \in Proc \ {p} :
             sched'.pstate[q] = "PRRECV" <=> sched.pstate[q] = "PRRECV"
    <3>1. CASE sched.pstate[p] = "PRRECV"
      <4>1. sched.pstate[p] \notin Runnable /\ sched.pstate[p] # "PRFREE"
        BY <3>1 DEF Runnable
      <4>2. sched' = Resched(Ready(sched, p))
        BY <1>3, <3>1 DEF Sendf
      <4>3. Moved(sched, sched', p, "RUN")
        BY <1>0, <4>1, <4>2, ReadyReschedStep
      <4>4. \A q \in Proc \ {p} : Class(sched'.pstate[q]) = Class(sched.pstate[q])
        BY <4>3 DEF Moved
      <4>5. Class(sched'.pstate[p]) = "RUN"
        BY <4>3 DEF Moved
      <4>6. sched'.pstate[p] # "PRFREE"
        BY <4>5, ClassPlain
      <4> QED
        BY <4>1, <4>4, <4>6, ClassPlain
    <3>2. CASE sched.pstate[p] # "PRRECV"
      BY <1>3, <3>2 DEF Sendf
    <3> QED
      BY <3>1, <3>2
  <2>6. MInv'
    BY <2>2, <2>4, <2>5, StoredInv
  <2>7. Working(sched', kstack') = Working(sched, kstack)
    BY <2>2, <2>5, SameWorking
  <2> QED
    BY <1>1, <2>2, <2>6, <2>7
<1>4. CASE Receive
  <2> DEFINE f == At("receive", 0, 0)
  <2>0. curr # NULLPROC /\ Top(curr).at \notin Held /\ UNCHANGED msgVars
    BY <1>4, NotHeld DEF Receive, Calling
  <2>1. f \in Frame /\ f.at = "receive" /\ f.at # "stopclk"
    <3>1. "receive" \in Points /\ "receive" \notin {"kill", "signaln", "sreset", "sdelete"}
      BY DEF Points
    <3> QED
      BY <3>1, FrameFacts
  <2>2. Call(<<f>>)
    BY <1>4 DEF Receive
  <2> HIDE DEF f
  <2>3. /\ GInv' /\ TopOf(kstack', curr).at = "receive"
        /\ \A q \in Proc \ {curr} : TopOf(kstack', q) = TopOf(kstack, q)
    BY <2>0, <2>1, <2>2, GoodCall
  <2>4. MsgType' /\ phasmsg' = phasmsg
    BY <1>0, <2>0 DEF MsgType, msgVars
  <2>5. /\ \A q \in Proc \ {curr} : Class(sched'.pstate[q]) = Class(sched.pstate[q])
        /\ \/ sched'.pstate[curr] = "PRRECV"
           \/ phasmsg[curr] # 0 /\ sched'.pstate[curr] = "PRCURR"
    <3>1. CASE phasmsg[curr] = 0
      <4>1. sched' = Resched(Block(sched, curr, "PRRECV"))
        BY <1>4, <3>1 DEF Receive
      <4>2. "PRRECV" \in PRStates \ Runnable /\ sched.pstate[curr] # "PRREADY"
        BY <1>0, StatesDistinct
      <4>3. Moved(sched, sched', curr, "PRRECV")
        BY <1>0, <2>0, <4>1, <4>2, BlockReschedStep
      <4>4. Class(sched'.pstate[curr]) = "PRRECV"
        BY <1>0, <4>3 DEF Moved
      <4> QED
        BY <4>3, <4>4, ClassPlain DEF Moved
    <3>2. CASE phasmsg[curr] # 0
      BY <1>0, <1>4, <3>2 DEF Receive
    <3> QED
      BY <3>1, <3>2
  <2>6. \A q \in Proc \ {curr} : \A st \in {"PRFREE", "PRRECV"} :
          sched'.pstate[q] = st <=> sched.pstate[q] = st
    BY <2>5, ClassPlain
  <2>7. MInv'
    <3> SUFFICES ASSUME NEW q \in Proc, TopOf(kstack', q).at = "receive"
                 PROVE  sched'.pstate[q] \in {"PRFREE", "PRRECV"} \/ phasmsg'[q] # 0
      BY <2>4 DEF MInv
    <3>1. CASE q = curr
      BY <2>4, <2>5, <3>1
    <3>2. CASE q # curr
      <4>1. TopOf(kstack, q).at = "receive"
        BY <2>3, <3>2
      <4>2. sched.pstate[q] \in {"PRFREE", "PRRECV"} \/ phasmsg[q] # 0
        BY <4>1 DEF MInv
      <4> QED
        BY <2>4, <2>6, <3>2, <4>2
    <3> QED
      BY <3>1, <3>2
  <2>8. Working(sched', kstack') = Working(sched, kstack)
    <3>1. TopOf(kstack, curr).at # "kill" /\ TopOf(kstack', curr).at # "kill"
      BY <1>0, <2>0, <2>3 DEF Held
    <3>2. sched.pstate[curr] # "PRFREE" /\ sched'.pstate[curr] # "PRFREE"
      BY <1>0, <2>5
    <3> QED
      BY <2>3, <2>6, <3>1, <3>2, SameWorking
  <2>9. \A q \in Proc : TopOf(kstack', q).at = "kill" => TopOf(kstack, q).at = "kill"
    BY <2>3
  <2> QED
    BY <1>1, <2>3, <2>7, <2>8, <2>9
<1>5. CASE ReceiveEnd
  <2>1. /\ Top(curr).at \in {"receive", "recvtim"} /\ Top(curr).at # "user" /\ Return
        /\ sched' = sched /\ pmsg' = pmsg /\ phasmsg' = [phasmsg EXCEPT ![curr] = 0]
    BY <1>5 DEF ReceiveEnd
  <2>2. /\ GInv' /\ TopOf(kstack', curr).at \notin Held
        /\ \A q \in Proc \ {curr} : TopOf(kstack', q) = TopOf(kstack, q)
    BY <2>1, GoodReturn
  <2>3. /\ phasmsg' \in [Proc -> 0..MaxHasmsg]
        /\ \A q \in Proc \ {curr} : phasmsg'[q] = phasmsg[q]
    <3>1. 0 \in 0..MaxHasmsg
      BY MaxHasmsgAssumption
    <3> QED
      BY <1>0, <2>1, <3>1
  <2>4. MsgType'
    BY <1>0, <2>1, <2>3 DEF MsgType
  <2>5. MInv'
    BY <2>1, <2>2, <2>3, <2>4 DEF MInv, Held
  <2>6. Working(sched', kstack') = Working(sched, kstack)
    <3>1. TopOf(kstack, curr).at # "kill" /\ TopOf(kstack', curr).at # "kill"
      BY <1>0, <2>1, <2>2 DEF Held
    <3> QED
      BY <2>1, <2>2, <3>1, SameWorking
  <2>7. \A q \in Proc : TopOf(kstack', q).at = "kill" => TopOf(kstack, q).at = "kill"
    BY <2>2 DEF Held
  <2> QED
    BY <1>1, <2>2, <2>5, <2>6, <2>7
<1>6. CASE Recvclr
  <2>1. /\ Top(curr).at \notin Held /\ kstack' = kstack
        /\ sched' = sched /\ pmsg' = pmsg /\ phasmsg' = [phasmsg EXCEPT ![curr] = 0]
    BY <1>6, NotHeld DEF Recvclr, Calling
  <2>3. /\ phasmsg' \in [Proc -> 0..MaxHasmsg]
        /\ \A q \in Proc \ {curr} : phasmsg'[q] = phasmsg[q]
    <3>1. 0 \in 0..MaxHasmsg
      BY MaxHasmsgAssumption
    <3> QED
      BY <1>0, <2>1, <3>1
  <2>4. MsgType'
    BY <1>0, <2>1, <2>3 DEF MsgType
  <2>5. MInv'
    BY <1>0, <2>1, <2>3, <2>4 DEF MInv, Held
  <2>6. Working(sched', kstack') = Working(sched, kstack)
    BY <2>1
  <2> QED
    BY <1>1, <2>1, <2>5, <2>6, GoodSame
<1> QED
  BY <1>2, <1>3, <1>4, <1>5, <1>6 DEF MsgCall

(* create.c: a free entry is taken, or nothing but nextproc changes. *)
LEMMA NewProcCases ==
  ASSUME IInv, NEW prio \in Nat, NewProc(prio)
  PROVE  \/ UNCHANGED <<sched, kstack, numproc, phasmsg>>
         \/ \E p \in Proc \ {NULLPROC} :
              /\ sched.pstate[p] = "PRFREE" /\ sched'.pstate[p] = "PRSUSP"
              /\ \A q \in Proc \ {p} : sched'.pstate[q] = sched.pstate[q]
              /\ kstack' = [kstack EXCEPT ![p] = <<>>]
              /\ numproc' = numproc + 1
              /\ phasmsg' = [phasmsg EXCEPT ![p] = 0]
<1>1. PICK i \in 0..(NPROC - 1) :
        /\ sched.pstate[ProbeProc(i)] = "PRFREE"
        /\ IF prio < 1
           THEN UNCHANGED <<sched, kstack, numproc, pnxtkin, phasmsg, psem>>
           ELSE /\ numproc' = numproc + 1
                /\ sched' = [sched EXCEPT !.pstate[ProbeProc(i)] = "PRSUSP",
                                          !.pprio[ProbeProc(i)] = prio]
                /\ kstack' = [kstack EXCEPT ![ProbeProc(i)] = <<>>]
                /\ phasmsg' = [phasmsg EXCEPT ![ProbeProc(i)] = 0]
  BY DEF NewProc
<1>2. PICK p : p = ProbeProc(i)
  OBVIOUS
<1>3. p \in Proc
  <2>1. nextproc \in Int /\ i \in Int /\ NPROC \in Nat \ {0}
    BY AnyStart DEF PInv, Proc
  <2>2. (nextproc - i) % NPROC \in 0..(NPROC - 1)
    BY <2>1, ModBound
  <2> QED
    BY <1>2, <2>2 DEF ProbeProc, Proc
<1>4. CASE prio < 1
  BY <1>1, <1>4
<1>5. CASE ~(prio < 1)
  <2>1. /\ sched.pstate[p] = "PRFREE" /\ numproc' = numproc + 1
        /\ sched' = [sched EXCEPT !.pstate[p] = "PRSUSP", !.pprio[p] = prio]
        /\ kstack' = [kstack EXCEPT ![p] = <<>>]
        /\ phasmsg' = [phasmsg EXCEPT ![p] = 0]
    BY <1>1, <1>2, <1>5
  <2>2. sched'.pstate = [sched.pstate EXCEPT ![p] = "PRSUSP"]
    BY <2>1, AnyStart DEF Core, SchedRec
  <2>3. sched.pstate \in [Proc -> PRStates] /\ p # NULLPROC
    BY <2>1, AnyStart DEF Core
  <2>4. sched'.pstate[p] = "PRSUSP" /\ \A q \in Proc \ {p} : sched'.pstate[q] = sched.pstate[q]
    BY <1>3, <2>2, <2>3
  <2> QED
    BY <1>3, <2>1, <2>3, <2>4
<1> QED
  BY <1>4, <1>5

LEMMA NewProcInv3 ==
  ASSUME IInv, GInv, MInv, NInv, NEW prio \in Nat, NewProc(prio), pmsg' = pmsg,
         boot' \in {"create", "resume", "idle"}
  PROVE  GInv' /\ MInv' /\ NInv'
<1>1. CASE UNCHANGED <<sched, kstack, numproc, phasmsg>>
  <2>1. PlainStep
    BY <1>1, GoodSame, SamePlain DEF PlainStep
  <2>2. UNCHANGED msgVars
    BY <1>1 DEF msgVars
  <2> QED
    BY <1>1, <2>1, <2>2, PlainMsg, PlainCount DEF PlainStep
<1>2. CASE \E p \in Proc \ {NULLPROC} :
              /\ sched.pstate[p] = "PRFREE" /\ sched'.pstate[p] = "PRSUSP"
              /\ \A q \in Proc \ {p} : sched'.pstate[q] = sched.pstate[q]
              /\ kstack' = [kstack EXCEPT ![p] = <<>>]
              /\ numproc' = numproc + 1
              /\ phasmsg' = [phasmsg EXCEPT ![p] = 0]
  <2>1. PICK p \in Proc \ {NULLPROC} :
              /\ sched.pstate[p] = "PRFREE" /\ sched'.pstate[p] = "PRSUSP"
              /\ \A q \in Proc \ {p} : sched'.pstate[q] = sched.pstate[q]
              /\ kstack' = [kstack EXCEPT ![p] = <<>>]
              /\ numproc' = numproc + 1
              /\ phasmsg' = [phasmsg EXCEPT ![p] = 0]
    BY <1>2
  <2>2. kstack \in Stacks
    BY AnyStart
  <2>3. PICK e : e = <<>>
    OBVIOUS
  <2>4. DOMAIN e = {} /\ kstack' = [kstack EXCEPT ![p] = e]
    BY <2>1, <2>3
  <2>5. kstack'[p] = e /\ \A q \in Proc \ {p} : kstack'[q] = kstack[q]
    BY <2>2, <2>4 DEF Stacks
  <2>6. GInv'
    BY <2>4, <2>5 DEF GInv, GoodStacks, GoodStack
  <2>7. /\ TopOf(kstack', p).at = "user"
        /\ \A q \in Proc \ {p} : TopOf(kstack', q) = TopOf(kstack, q)
    BY <2>3, <2>5 DEF TopOf, At
  <2>8. MsgType' /\ \A q \in Proc \ {p} : phasmsg'[q] = phasmsg[q]
    <3>1. phasmsg \in [Proc -> 0..MaxHasmsg] /\ 0 \in 0..MaxHasmsg /\ MsgType
      BY MaxHasmsgAssumption DEF MInv, MsgType
    <3>2. /\ phasmsg' \in [Proc -> 0..MaxHasmsg]
          /\ \A q \in Proc \ {p} : phasmsg'[q] = phasmsg[q]
      BY <2>1, <3>1
    <3> QED
      BY <3>1, <3>2 DEF MsgType
  <2>9. MInv'
    BY <2>1, <2>7, <2>8 DEF MInv
  <2>10. Working(sched', kstack') = Working(sched, kstack) \cup {p}
         /\ p \notin Working(sched, kstack)
    BY <2>1, <2>7 DEF Working
  <2>11. Cardinality(Working(sched', kstack')) = Cardinality(Working(sched, kstack)) + 1
    BY <2>10, WorkingFinite, FS_AddElement
  <2>12. NInv'
    <3>0. TopOf(kstack', NULLPROC).at # "kill"
      BY <2>1, <2>7, NullIsProc DEF NInv
    <3>1. Cardinality(Working(sched, kstack)) \in Int /\ MaxOverkill \in Int
      BY WorkingFinite, MaxOverkillAssumption
    <3> QED
      BY <2>1, <2>11, <3>0, <3>1 DEF NInv
  <2> QED
    BY <2>6, <2>9, <2>12
<1> QED
  BY <1>1, <1>2, NewProcCases

LEMMA KillInv3 ==
  ASSUME IInv, GInv, MInv, NInv, NEW p \in Proc, Kill(p)
  PROVE  GInv' /\ MInv' /\ NInv'
<1> DEFINE f == At("kill", p, 0)
<1>0. /\ Core(sched) /\ curr \in Proc /\ sched.pstate[curr] = "PRCURR" /\ MsgType
      /\ boot' = boot /\ curr # NULLPROC /\ p # NULLPROC /\ Top(curr).at = "user"
      /\ TopOf(kstack, curr) = Top(curr)
  BY AnyStart, TopIsTopOf, GoodPid, InUserTop DEF MInv, Kill, Calling
<1>1. f \in Frame /\ f.at = "kill" /\ f.at # "stopclk"
  <2>1. "kill" \in Points /\ "kill" \notin {"signaln", "sreset", "sdelete"} /\ p \in Int
    BY DEF Points, Proc
  <2> QED
    BY <1>0, <2>1, FrameFacts
<1>2. Call(<<f>>)
  BY DEF Kill
<1> HIDE DEF f
<1>3. /\ GInv' /\ TopOf(kstack', curr).at = "kill"
      /\ \A q \in Proc \ {curr} : TopOf(kstack', q) = TopOf(kstack, q)
  BY <1>0, <1>1, <1>2, GoodCall DEF Held
<1>4. \A q \in Proc : TopOf(kstack', q).at = "receive" => TopOf(kstack, q).at = "receive"
  BY <1>3
<1>5. /\ MInv'
      /\ \A q \in Proc : sched'.pstate[q] = "PRFREE" <=> sched.pstate[q] = "PRFREE"
  <2>1. CASE CanSend(pnxtkin[p])
    <3>1. PICK k : k = pnxtkin[p]
      OBVIOUS
    <3>2. k \in Proc
      <4>1. k \in Proc \cup {BADPID}
        BY <3>1, AnyStart DEF PInv
      <4> QED
        BY <2>1, <3>1, <4>1 DEF CanSend, isbadpid, BADPID
    <3>3. Deliver(k, p) /\ p \in Msgs \cup Proc
      BY <2>1, <3>1 DEF Kill
    <3> QED
      BY <1>0, <1>4, <3>2, <3>3, DeliverMoves, DeliverMsg, StoredInv
  <2>2. CASE ~CanSend(pnxtkin[p])
    <3>1. sched' = sched /\ pmsg' = pmsg /\ phasmsg' = phasmsg
      BY <2>2 DEF Kill, msgVars
    <3>2. MsgType'
      BY <1>0, <3>1 DEF MsgType
    <3> QED
      BY <1>4, <3>1, <3>2 DEF MInv
  <2> QED
    BY <2>1, <2>2
<1>6. Working(sched', kstack') = Working(sched, kstack) \ {curr}
      /\ curr \in Working(sched, kstack)
  BY <1>0, <1>3, <1>5 DEF Working
<1>7. Cardinality(Working(sched', kstack')) = Cardinality(Working(sched, kstack)) - 1
  BY <1>6, WorkingFinite, FS_RemoveElement
<1>8. NInv'
  <2>1. Cardinality(Working(sched, kstack)) \in Int /\ MaxOverkill \in Int
    BY WorkingFinite, MaxOverkillAssumption
  <2>0. TopOf(kstack', NULLPROC).at # "kill"
    BY <1>0, <1>3, NullIsProc DEF NInv
  <2>2. numproc' = numproc - 1 /\ numproc > -MaxOverkill
    BY DEF Kill
  <2> QED
    BY <1>0, <1>7, <2>0, <2>1, <2>2 DEF NInv
<1> QED
  BY <1>3, <1>5, <1>8

LEMMA KillEndInv3 ==
  ASSUME IInv, GInv, MInv, NInv, KillEnd
  PROVE  GInv' /\ MInv' /\ NInv'
<1> DEFINE p == Top(curr).arg
           st == sched.pstate[p]
<1>0. /\ Core(sched) /\ curr \in Proc /\ sched.pstate[curr] = "PRCURR" /\ MsgType
      /\ Top(curr).at = "kill" /\ TopOf(kstack, curr) = Top(curr) /\ Return
      /\ numproc' = numproc /\ boot' = boot /\ UNCHANGED msgVars
  BY AnyStart, TopIsTopOf DEF MInv, KillEnd, procVars
<1>1. p \in Proc /\ p # NULLPROC
  BY <1>0, InCall DEF Frame
<1>2. /\ GInv' /\ TopOf(kstack', curr).at \notin Held
      /\ \A q \in Proc \ {curr} : TopOf(kstack', q) = TopOf(kstack, q)
  BY <1>0, GoodReturn
<1>3. /\ CASE st = "PRCURR"  -> sched' = Resched(Block(sched, p, "PRFREE"))
           [] st = "PRREADY" -> sched' = Unready(sched, p, "PRFREE")
           [] OTHER          -> sched' = Block(sched, p, "PRFREE")
  BY DEF KillEnd
<1> HIDE DEF p
<1>4. "PRFREE" \in PRStates \ Runnable
  BY DEF PRStates, Runnable
<1>5. Moved(sched, sched', p, "PRFREE")
  <2>1. CASE st = "PRCURR"
    <3>1. sched' = Resched(Block(sched, p, "PRFREE"))
      BY <1>3, <2>1
    <3> QED
      BY <1>0, <1>1, <1>4, <2>1, <3>1, BlockReschedStep
  <2>2. CASE st # "PRCURR"
    <3>1. p # sched.currpid
      BY <1>0, <2>2 DEF curr
    <3>2. sched' = IF sched.pstate[p] = "PRREADY" THEN Unready(sched, p, "PRFREE")
                   ELSE Block(sched, p, "PRFREE")
      BY <1>3, <2>2
    <3> QED
      BY <1>0, <1>1, <1>4, <3>1, <3>2, DropStep
  <2> QED
    BY <2>1, <2>2
<1>6. /\ sched'.pstate[p] = "PRFREE"
      /\ \A q \in Proc \ {p} : \A x \in {"PRFREE", "PRRECV"} :
           sched'.pstate[q] = x <=> sched.pstate[q] = x
  <2>1. Class(sched'.pstate[p]) = "PRFREE"
    BY <1>1, <1>5 DEF Moved
  <2>2. \A q \in Proc \ {p} : Class(sched'.pstate[q]) = Class(sched.pstate[q])
    BY <1>5 DEF Moved
  <2> QED
    BY <2>1, <2>2, ClassPlain
<1>7. MInv'
  <2>1. MsgType' /\ phasmsg' = phasmsg
    BY <1>0 DEF MsgType, msgVars
  <2> SUFFICES ASSUME NEW q \in Proc, TopOf(kstack', q).at = "receive"
               PROVE  sched'.pstate[q] \in {"PRFREE", "PRRECV"} \/ phasmsg'[q] # 0
    BY <2>1 DEF MInv
  <2>2. q # curr /\ TopOf(kstack, q).at = "receive"
    BY <1>2 DEF Held
  <2>3. sched.pstate[q] \in {"PRFREE", "PRRECV"} \/ phasmsg[q] # 0
    BY <2>2 DEF MInv
  <2> QED
    BY <1>6, <2>1, <2>3
<1>8. Cardinality(Working(sched, kstack)) <= Cardinality(Working(sched', kstack'))
  <2> DEFINE W == Working(sched, kstack)
             V == Working(sched', kstack')
  <2>1. curr \notin W
    BY <1>0 DEF Working
  <2>2. CASE p = curr \/ p \notin W
    <3>1. W \subseteq V
      BY <1>2, <1>6, <2>1, <2>2 DEF Working
    <3>2. IsFiniteSet(V)
      BY WorkingFinite
    <3> HIDE DEF W, V
    <3>3. Cardinality(W) <= Cardinality(V)
      BY <3>1, <3>2, FS_Subset
    <3> QED
      BY <3>3 DEF W, V
  <2>3. CASE p # curr /\ p \in W
    <3>0. curr # NULLPROC
      BY <1>0 DEF NInv
    <3>1. (W \ {p}) \cup {curr} \subseteq V
      BY <1>0, <1>2, <1>6, <2>3, <3>0 DEF Working, Held
    <3>2. IsFiniteSet(V) /\ IsFiniteSet(W) /\ Cardinality(W) \in Int
      BY WorkingFinite
    <3> HIDE DEF W, V
    <3>3. IsFiniteSet(W \ {p}) /\ Cardinality(W \ {p}) = Cardinality(W) - 1
      BY <2>3, <3>2, FS_RemoveElement
    <3>4. curr \notin W \ {p}
      BY <2>1
    <3>5. Cardinality((W \ {p}) \cup {curr}) = Cardinality(W \ {p}) + 1
      BY <3>3, <3>4, FS_AddElement
    <3>6. Cardinality((W \ {p}) \cup {curr}) <= Cardinality(V)
      BY <3>1, <3>2, FS_Subset
    <3>7. Cardinality(W) <= Cardinality(V)
      BY <3>2, <3>3, <3>5, <3>6
    <3> QED
      BY <3>7 DEF W, V
  <2> QED
    BY <2>2, <2>3
<1>9. NInv'
  <2>0. TopOf(kstack', NULLPROC).at # "kill"
    BY <1>2, NullIsProc DEF NInv, Held
  <2>1. /\ Cardinality(Working(sched, kstack)) \in Int
        /\ Cardinality(Working(sched', kstack')) \in Int
    BY WorkingFinite
  <2> QED
    BY <1>0, <1>8, <2>0, <2>1 DEF NInv
<1> QED
  BY <1>2, <1>7, <1>9

------------------------------------------------------------------------------
(***************************************************************************)
(* What a step does to the sleep queue.                                    *)
(***************************************************************************)

NoWakeup(k) == \A p \in Proc : TopOf(k, p).at # "wakeup"

(* The ways a kernel stack changes outside wakeup. *)
StackStep ==
  \/ kstack' = kstack
  \/ Return /\ Top(curr).at # "user"
  \/ \E f \in Frame : /\ f.at # "wakeup"
                      /\ \/ Call(<<f>>) /\ Top(curr).at \notin Loops
                         \/ Goto(f) /\ Top(curr).at # "user"
  \/ \E p \in Proc : kstack' = [kstack EXCEPT ![p] = <<>>]

LEMMA LoopsTop ==
  ASSUME NEW k \in Stacks, NEW c \in Proc, OnlyLoopAt(k, c), NEW p \in Proc, p # c
  PROVE  TopOf(k, p).at \notin Loops
<1>1. CASE k[p] = <<>>
  BY <1>1 DEF TopOf, At, Loops
<1>2. CASE k[p] # <<>>
  <2>1. k[p] \in Seq(Frame)
    BY DEF Stacks
  <2>2. 1 \in DOMAIN k[p] /\ Head(k[p]) = k[p][1]
    BY <1>2, <2>1
  <2> QED
    BY <1>2, <2>2 DEF TopOf, OnlyLoopAt
<1> QED
  BY <1>1, <1>2

LEMMA StackStepQuiet ==
  ASSUME IInv, Top(curr).at # "wakeup", StackStep
  PROVE  NoWakeup(kstack')
<1>0. kstack \in Stacks /\ OnlyLoopAt(kstack, curr) /\ curr \in Proc
      /\ TopOf(kstack, curr) = Top(curr)
  BY AnyStart, TopIsTopOf
<1>1. NoWakeup(kstack)
  BY <1>0, LoopsTop DEF NoWakeup, Loops
<1>2. ASSUME NEW k \in Stacks, NoLoops(k) PROVE NoWakeup(k)
  BY <1>2, NoLoopsTop DEF NoWakeup, Loops
<1>3. ASSUME kstack' \in Stacks, OnlyLoopAt(kstack', curr), NEW f \in Frame,
             f.at # "wakeup", TopOf(kstack', curr) = f
      PROVE  NoWakeup(kstack')
  BY <1>0, <1>3, LoopsTop DEF NoWakeup, Loops
<1>4. CASE kstack' = kstack
  BY <1>1, <1>4
<1>5. CASE Return /\ Top(curr).at # "user"
  BY <1>2, <1>5, ReturnOne
<1>6. ASSUME NEW f \in Frame, f.at # "wakeup", Call(<<f>>), Top(curr).at \notin Loops
      PROVE  NoWakeup(kstack')
  BY <1>3, <1>6, CallOne
<1>7. ASSUME NEW f \in Frame, f.at # "wakeup", Goto(f), Top(curr).at # "user"
      PROVE  NoWakeup(kstack')
  BY <1>3, <1>7, GotoOne
<1>8. ASSUME NEW p \in Proc, kstack' = [kstack EXCEPT ![p] = <<>>]
      PROVE  NoWakeup(kstack')
  <2>1. kstack'[p] = <<>> /\ \A q \in Proc \ {p} : kstack'[q] = kstack[q]
    BY <1>0, <1>8 DEF Stacks
  <2>2. TopOf(kstack', p).at = "user"
    BY <2>1 DEF TopOf, At
  <2>3. \A q \in Proc \ {p} : TopOf(kstack', q) = TopOf(kstack, q)
    BY <2>1 DEF TopOf
  <2> QED
    BY <1>1, <2>2, <2>3 DEF NoWakeup
<1> QED
  BY <1>4, <1>5, <1>6, <1>7, <1>8 DEF StackStep

SameQueue == UNCHANGED <<clockq, slnempty, sltop>>

(* A step outside wakeup that leaves the sleep queue alone, or takes one     *)
(* process out of it, and does not start the clock.                         *)
AsideStep ==
  /\ Top(curr).at # "wakeup" /\ NoWakeup(kstack')
  /\ \/ SameQueue
     \/ \E p \in Proc : /\ sched.pstate[p] \in {"PRSLEEP", "PRTRECV"}
                        /\ LeaveClockq(p)
                        /\ sched.pstate[p] = "PRTRECV" \/ sched'.pstate[p] = "PRFREE"
  /\ clkdiff' = clkdiff
  /\ defclk' = defclk \/ defclk' \in 1..MaxDefer

LEMMA FrameAt ==
  ASSUME NEW pt \in {"receive", "recvtim", "clkint", "strtclk", "stopclk", "wakeup"},
         NEW n \in Int
  PROVE  At(pt, 0, n) \in Frame /\ At(pt, 0, n).at = pt /\ At(pt, 0, n).cnt = n
BY FrameFacts DEF Points

LEMMA QuietAside ==
  ASSUME IInv, Top(curr).at # "wakeup", StackStep, UNCHANGED clkVars
  PROVE  AsideStep
BY StackStepQuiet DEF AsideStep, clkVars, SameQueue

LEMMA LeaveAside ==
  ASSUME IInv, Top(curr).at # "wakeup", StackStep, NEW p \in Proc,
         sched.pstate[p] \in {"PRSLEEP", "PRTRECV"}, LeaveClockq(p),
         sched.pstate[p] = "PRTRECV" \/ sched'.pstate[p] = "PRFREE",
         UNCHANGED <<defclk, clkdiff>>
  PROVE  AsideStep
BY StackStepQuiet DEF AsideStep

LEMMA DeliverAside ==
  ASSUME IInv, Top(curr).at # "wakeup", StackStep, NEW p \in Proc, NEW msg, Deliver(p, msg)
  PROVE  AsideStep
<1>1. CASE UNCHANGED clkVars
  BY <1>1, QuietAside
<1>2. CASE /\ sched.pstate[p] = "PRTRECV" /\ LeaveClockq(p)
           /\ UNCHANGED <<defclk, clkdiff>>
  BY <1>2, LeaveAside
<1> QED
  BY <1>1, <1>2 DEF Deliver

LEMMA UserTop == InUser => Top(curr).at = "user" /\ Top(curr).at # "wakeup"
                           /\ Top(curr).at \notin Loops
BY InUserTop

LEMMA SchedAside == IInv /\ SchedCall => AsideStep
BY UserTop, QuietAside DEF SchedCall, Suspend, Resume, Chprio, Calling, StackStep

LEMMA SemAside ==
  ASSUME IInv, SemCall
  PROVE  AsideStep
<1>1. ASSUME NEW f \in Frame, f.at # "wakeup", InUser, Call(<<f>>) PROVE StackStep
  BY <1>1, UserTop DEF StackStep
<1>2. ASSUME NEW s \in Sem, NEW n \in 0..MaxCount
      PROVE  /\ At("signaln", s, n) \in Frame /\ At("signaln", s, n).at # "wakeup"
             /\ At("sreset", s, n) \in Frame /\ At("sreset", s, n).at # "wakeup"
  BY MaxCountAssumption, NSEMAssumption, FrameFacts DEF Points, Sem
<1>3. ASSUME NEW s \in Sem
      PROVE  At("sdelete", s, 0) \in Frame /\ At("sdelete", s, 0).at # "wakeup"
  BY NSEMAssumption, FrameFacts DEF Points, Sem
<1>4. StackStep /\ Top(curr).at # "wakeup"
  <2>1. ASSUME NEW s \in Sem, Wait(s) \/ Signal(s) PROVE StackStep /\ InUser
    BY <2>1 DEF Wait, Signal, Calling, StackStep
  <2>2. ASSUME NEW s \in Sem, Sdelete(s) PROVE StackStep /\ InUser
    <3>1. InUser /\ (kstack' = kstack \/ Call(<<At("sdelete", s, 0)>>))
      BY <2>2 DEF Sdelete, Calling
    <3>2. CASE kstack' = kstack
      BY <3>1, <3>2 DEF StackStep
    <3>3. CASE Call(<<At("sdelete", s, 0)>>)
      BY <3>1, <3>3, <1>1, <1>3
    <3> QED
      BY <3>1, <3>2, <3>3
  <2>3. ASSUME NEW s \in Sem, NEW n \in 0..MaxCount, Signaln(s, n) PROVE StackStep /\ InUser
    <3>1. InUser /\ Call(<<At("signaln", s, n)>>)
      BY <2>3 DEF Signaln, Calling
    <3> QED
      BY <3>1, <1>1, <1>2
  <2>4. ASSUME NEW s \in Sem, NEW n \in 0..MaxCount, Sreset(s, n) PROVE StackStep /\ InUser
    <3>1. InUser /\ Call(<<At("sreset", s, n)>>)
      BY <2>4 DEF Sreset, Calling
    <3> QED
      BY <3>1, <1>1, <1>2
  <2>5. ASSUME NEW n \in 0..MaxCount, Screate(n) PROVE StackStep /\ InUser
    BY <2>5 DEF Screate, Calling, StackStep
  <2>6. CASE SignalnLoop
    <3> DEFINE f == At("signaln", Top(curr).arg, Top(curr).cnt - 1)
    <3>1. Top(curr).at = "signaln" /\ Top(curr).at # "user"
      BY <2>6 DEF SignalnLoop
    <3>2. Top(curr) \in Frame
      BY <3>1, InCall
    <3>3. (Top(curr).cnt > 0 /\ Goto(f)) \/ Return
      BY <2>6 DEF SignalnLoop
    <3>4. ASSUME Top(curr).cnt > 0 PROVE f \in Frame /\ f.at # "wakeup"
      <4>1. Top(curr).arg \in Sem /\ Top(curr).cnt - 1 \in Nat
        BY <3>1, <3>2, <3>4 DEF Frame
      <4>2. Top(curr).arg \in Int
        BY <4>1, NSEMAssumption DEF Sem
      <4> QED
        BY SMTT(60), <4>1, <4>2, FrameFacts DEF Points
    <3> HIDE DEF f
    <3> QED
      BY <3>1, <3>3, <3>4 DEF StackStep
  <2>7. CASE FlushLoop
    BY <2>7 DEF FlushLoop, StackStep
  <2> QED
    BY <2>1, <2>2, <2>3, <2>4, <2>5, <2>6, <2>7, UserTop DEF SemCall
<1>5. UNCHANGED clkVars
  BY DEF SemCall
<1> QED
  BY <1>4, <1>5, QuietAside

LEMMA MsgAside ==
  ASSUME IInv, MsgCall
  PROVE  AsideStep
<1>1. ASSUME NEW p \in Proc, NEW msg, Send(p, msg) PROVE AsideStep
  <2>1. Top(curr).at # "wakeup" /\ StackStep /\ Deliver(p, msg)
    BY <1>1, UserTop DEF Send, Calling, StackStep
  <2> QED
    BY <2>1, DeliverAside
<1>2. ASSUME NEW p \in Proc, NEW msg, Sendf(p, msg) PROVE AsideStep
  BY <1>2, UserTop, QuietAside DEF Sendf, Calling, StackStep
<1>3. CASE Receive
  <2> DEFINE f == At("receive", 0, 0)
  <2>1. f \in Frame /\ f.at # "wakeup"
    BY FrameAt
  <2>2. Call(<<f>>) /\ Top(curr).at # "wakeup" /\ Top(curr).at \notin Loops
        /\ UNCHANGED clkVars
    BY <1>3, UserTop DEF Receive, Calling
  <2> HIDE DEF f
  <2>3. StackStep
    BY <2>1, <2>2 DEF StackStep
  <2> QED
    BY <2>2, <2>3, QuietAside
<1>4. CASE ReceiveEnd
  BY <1>4, QuietAside DEF ReceiveEnd, StackStep
<1>5. CASE Recvclr
  BY <1>5, UserTop, QuietAside DEF Recvclr, Calling, StackStep
<1> QED
  BY <1>1, <1>2, <1>3, <1>4, <1>5 DEF MsgCall

(* Strtclk that starts the clock again. *)
Restart == Strtclk /\ defclk = 1

LEMMA ClockAside ==
  ASSUME IInv, GInv, defclk \in 0..MaxDefer, ClockCall
  PROVE  AsideStep \/ Wakeup \/ Restart
<1>1. CASE ClkintEnd \/ StrtclkEnd
  BY <1>1, QuietAside DEF ClkintEnd, StrtclkEnd, StackStep
<1>2. CASE Stopclk
  <2> DEFINE f == At("stopclk", 0, defclk)
  <2>1. f \in Frame /\ f.at # "wakeup"
    BY FrameAt
  <2>2. Call(<<f>>) /\ Top(curr).at # "wakeup" /\ Top(curr).at \notin Loops
        /\ UNCHANGED clkVars
    BY <1>2, UserTop DEF Stopclk, Calling
  <2> HIDE DEF f
  <2>3. StackStep
    BY <2>1, <2>2 DEF StackStep
  <2> QED
    BY <2>2, <2>3, QuietAside
<1>3. CASE StopclkEnd
  <2>1. Top(curr).at = "stopclk" /\ Top(curr).at # "user" /\ Return
        /\ defclk' = Top(curr).cnt + 1 /\ SameQueue /\ clkdiff' = clkdiff
    BY <1>3 DEF StopclkEnd, SameQueue
  <2>2. kstack[curr] # <<>> /\ kstack[curr] \in Seq(Frame) /\ curr \in Proc
    BY <2>1, InCall, AnyStart DEF Stacks
  <2>3. Top(curr) = kstack[curr][1] /\ 1 \in DOMAIN kstack[curr]
    BY <2>2 DEF Top
  <2>4. Top(curr).cnt \in 0..(MaxDefer - 1)
    BY <2>1, <2>2, <2>3 DEF GInv, GoodStacks, GoodStack
  <2>5. defclk' \in 1..MaxDefer
    BY <2>1, <2>4, DeferAssumption
  <2>6. NoWakeup(kstack')
    BY <2>1, StackStepQuiet DEF StackStep
  <2> QED
    BY <2>1, <2>5, <2>6 DEF AsideStep
<1>4. CASE Strtclk
  <2>1. CASE defclk - 1 > 0
    <3>1. /\ Top(curr).at # "wakeup" /\ kstack' = kstack /\ SameQueue
          /\ clkdiff' = clkdiff /\ defclk' = defclk - 1
      BY <1>4, <2>1, UserTop DEF Strtclk, Calling, SameQueue
    <3>2. defclk' \in 1..MaxDefer
      BY <2>1, <3>1, DeferAssumption
    <3>3. NoWakeup(kstack')
      BY <3>1, StackStepQuiet DEF StackStep
    <3> QED
      BY <3>1, <3>2, <3>3 DEF AsideStep
  <2>2. CASE ~(defclk - 1 > 0)
    <3>1. defclk > 0
      BY <1>4 DEF Strtclk
    <3> QED
      BY <1>4, <2>2, <3>1 DEF Restart
  <2> QED
    BY <2>1, <2>2
<1> QED
  BY <1>1, <1>2, <1>3, <1>4 DEF ClockCall

LEMMA ProcAside ==
  ASSUME IInv, ProcCall
  PROVE  AsideStep
<1>1. ASSUME NEW prio \in Int, NewProc(prio) PROVE StackStep
  <2>1. PICK i \in 0..(NPROC - 1) :
          kstack' = kstack \/ kstack' = [kstack EXCEPT ![ProbeProc(i)] = <<>>]
    BY <1>1 DEF NewProc
  <2>2. ProbeProc(i) \in Proc
    <3>1. nextproc \in Int
      BY AnyStart DEF PInv, Proc
    <3>2. nextproc - i \in Int /\ NPROC \in Nat \ {0}
      BY <3>1
    <3> HIDE DEF Proc
    <3>3. (nextproc - i) % NPROC \in 0..(NPROC - 1)
      BY <3>2, ModBound
    <3> QED
      BY <3>3 DEF ProbeProc, Proc
  <2> QED
    BY <2>1, <2>2 DEF StackStep
<1>2. ASSUME NEW prio \in Prios \cup {0}, Create(prio) PROVE AsideStep
  <2>1. prio \in Int
    BY PriosAssumption
  <2> QED
    BY <1>1, <1>2, <2>1, UserTop, QuietAside DEF Create, Calling
<1>3. CASE NullCreate
  BY <1>1, <1>3, UserTop, QuietAside DEF NullCreate, INITPRIO
<1>4. CASE NullResume
  BY <1>4, UserTop, QuietAside DEF NullResume, Resume, StackStep
<1>5. ASSUME NEW p \in Proc, NEW nok \in Kin, Setnok(nok, p) PROVE AsideStep
  BY <1>5, UserTop, QuietAside DEF Setnok, Calling, StackStep
<1>6. ASSUME NEW p \in Proc, Kill(p) PROVE AsideStep
  <2> DEFINE f == At("kill", p, 0)
  <2>1. f \in Frame /\ f.at # "wakeup"
    <3>1. p \in Int /\ p \in Proc \ {NULLPROC}
      BY <1>6, GoodPid DEF Kill, Proc
    <3> QED
      BY <3>1, FrameFacts DEF Points
  <2>2. Call(<<f>>) /\ Top(curr).at # "wakeup" /\ Top(curr).at \notin Loops
    BY <1>6, UserTop DEF Kill, Calling
  <2> HIDE DEF f
  <2>3. StackStep
    BY <2>1, <2>2 DEF StackStep
  <2>4. CASE CanSend(pnxtkin[p]) /\ Deliver(pnxtkin[p], p)
    <3>1. pnxtkin[p] \in Proc
      BY <2>4, AnyStart DEF CanSend, isbadpid, PInv, BADPID
    <3> QED
      BY <2>2, <2>3, <2>4, <3>1, DeliverAside
  <2>5. CASE UNCHANGED clkVars
    BY <2>2, <2>3, <2>5, QuietAside
  <2> QED
    BY <1>6, <2>4, <2>5 DEF Kill
<1>7. CASE KillEnd
  <2>1. Top(curr).at = "kill" /\ Top(curr).at # "user" /\ Return
        /\ UNCHANGED <<defclk, clkdiff>>
    BY <1>7 DEF KillEnd
  <2>2. StackStep
    BY <2>1 DEF StackStep
  <2>3. Top(curr).arg \in Proc
    BY <2>1, InCall DEF Frame
  <2>4. CASE SameQueue
    BY <2>1, <2>2, <2>4, StackStepQuiet DEF AsideStep
  <2>5. CASE /\ sched.pstate[Top(curr).arg] \in {"PRSLEEP", "PRTRECV"}
             /\ LeaveClockq(Top(curr).arg)
    <3>1. PICK p : p = Top(curr).arg
      OBVIOUS
    <3>2. sched' = Block(sched, p, "PRFREE")
      BY <1>7, <2>5, <3>1 DEF KillEnd
    <3>3. sched'.pstate[p] = "PRFREE"
      BY <2>3, <3>1, <3>2, AnyStart DEF Block, Core, SchedRec
    <3> QED
      BY <2>1, <2>2, <2>3, <2>5, <3>1, <3>3, LeaveAside
  <2> QED
    BY <1>7, <2>4, <2>5 DEF KillEnd, SameQueue
<1> QED
  BY <1>2, <1>3, <1>4, <1>5, <1>6, <1>7 DEF ProcCall

LEMMA UntimedSteps ==
  ASSUME IInv, GInv, defclk \in 0..MaxDefer, Untimed
  PROVE  AsideStep \/ Wakeup \/ Restart
BY SchedAside, SemAside, MsgAside, ClockAside, ProcAside DEF Untimed

(* The copies of the head are right, and no process is overdue. *)
Current(q, ne, top) ==
  NonNeg(q) /\ (ne <=> q # <<>>) /\ (ne => top = Head(q).pid)

(* In wakeup the process at the head may be overdue: it is being woken. *)
OnlyHeadDue(q) == \A i \in DOMAIN q : i > 1 => q[i].key >= 0

HInv ==
  /\ clockq \in Seq(Entries(Proc)) /\ slnempty \in BOOLEAN /\ sltop \in Proc
  /\ IF TopOf(kstack, curr).at = "wakeup" THEN OnlyHeadDue(clockq)
     ELSE Current(clockq, slnempty, sltop)

(* Ticks are only held back while the clock is stopped. *)
TInv ==
  /\ defclk \in 0..MaxDefer /\ clkdiff \in 0..MaxDiff
  /\ defclk = 0 => clkdiff = 0

LEMMA CurrNext == IInv' => curr' \in Proc
BY DEF IInv, SInv, Core, SchedRec, curr

LEMMA QueueFacts ==
  ASSUME NEW q \in Seq(Entries(Proc))
  PROVE  /\ Len(q) \in Nat /\ DOMAIN q = 1..Len(q)
         /\ \A i \in 1..Len(q) : q[i] \in Entries(Proc) /\ q[i].pid \in Proc /\ q[i].key \in Int
         /\ q # <<>> => 1 \in DOMAIN q /\ Head(q) = q[1] /\ Head(q).pid \in Proc
<1>1. Len(q) \in Nat /\ DOMAIN q = 1..Len(q) /\ \A i \in 1..Len(q) : q[i] \in Entries(Proc)
  OBVIOUS
<1>2. \A e \in Entries(Proc) : e.pid \in Proc /\ e.key \in Int
  BY DEF Entries
<1>3. q # <<>> => 1 \in DOMAIN q /\ Head(q) = q[1]
  OBVIOUS
<1> QED
  BY <1>1, <1>2, <1>3

LEMMA TimerSteps ==
  ASSUME IInv, NEW n \in Delays, SleepCall(n) \/ RecvtimCall(n)
  PROVE  /\ Top(curr).at # "wakeup" /\ NoWakeup(kstack')
         /\ UNCHANGED <<defclk, clkdiff>>
         /\ SameQueue \/ EnterClockq(n)
<1>1. CASE Sleep10(n)
  <2>1. Top(curr).at # "wakeup" /\ kstack' = kstack
    BY <1>1, UserTop DEF Sleep10, Calling
  <2> QED
    BY <1>1, <2>1, StackStepQuiet DEF Sleep10, StackStep, SameQueue
<1>2. CASE Recvtim(n)
  <2> DEFINE f == At("recvtim", 0, 0)
  <2>1. f \in Frame /\ f.at # "wakeup"
    BY FrameAt
  <2>2. Call(<<f>>) /\ Top(curr).at # "wakeup" /\ Top(curr).at \notin Loops
    BY <1>2, UserTop DEF Recvtim, Calling
  <2> HIDE DEF f
  <2>3. NoWakeup(kstack')
    BY <2>1, <2>2, StackStepQuiet DEF StackStep
  <2> QED
    BY <1>2, <2>2, <2>3 DEF Recvtim, SameQueue
<1> QED
  BY <1>1, <1>2 DEF SleepCall, RecvtimCall

(* clkint.c decrements the first delta of the sleep queue and no other, and *)
(* calls wakeup exactly if that was the last tick of the process there.     *)
LEMMA TickQueue ==
  ASSUME IInv, HInv, Clkint, ~(defclk > 0)
  PROVE  /\ clockq' \in Seq(Entries(Proc)) /\ Len(clockq') = Len(clockq)
         /\ \A j \in 1..Len(clockq) :
              /\ clockq'[j].pid = clockq[j].pid
              /\ clockq'[j].key = IF j = 1 THEN clockq[j].key - 1 ELSE clockq[j].key
         /\ Current(clockq, slnempty, sltop)
         /\ \/ TopOf(kstack', curr').at = "wakeup"
            \/ NoWakeup(kstack') /\ (clockq # <<>> => clockq'[1].key > 0)
<1> DEFINE ticked == [i \in DOMAIN clockq |->
                        IF slnempty /\ clockq[i].pid = sltop
                        THEN Entry(sltop, clockq[i].key - 1) ELSE clockq[i]]
           expired == slnempty /\ \E i \in DOMAIN clockq :
                                    clockq[i].pid = sltop /\ ticked[i].key <= 0
           L == Len(clockq)
<1>1. /\ Top(curr).at \notin Loops /\ Top(curr).at # "wakeup"
      /\ TopOf(kstack, curr) = Top(curr) /\ sched' = sched
  BY InUserTop, PlainFrames, TopIsTopOf DEF Clkint, Interruptible, Loops
<1>2. Current(clockq, slnempty, sltop) /\ clockq \in Seq(Entries(Proc)) /\ sltop \in Proc
  BY <1>1 DEF HInv
<1>3. /\ L \in Nat /\ DOMAIN clockq = 1..L
      /\ \A i \in 1..L : /\ clockq[i] \in Entries(Proc) /\ clockq[i].pid \in Proc
                         /\ clockq[i].key \in Int
      /\ clockq # <<>> => 1 \in DOMAIN clockq /\ Head(clockq) = clockq[1]
  BY <1>2, QueueFacts
<1>4. \A i, j \in 1..L : clockq[i].pid = clockq[j].pid => i = j
  BY <1>3, AnyStart DEF SleepMatch, Distinct
<1>5. \A i \in 1..L : slnempty /\ clockq[i].pid = sltop <=> i = 1
  <2>1. TAKE i \in 1..L
  <2>2. clockq # <<>>
    BY <1>3
  <2>3. slnempty /\ sltop = clockq[1].pid /\ 1 \in 1..L
    BY <1>2, <1>3, <2>2 DEF Current
  <2> QED
    BY <1>4, <2>3
<1>6. \A j \in 1..L : /\ ticked[j] \in Entries(Proc)
                      /\ ticked[j].pid = clockq[j].pid
                      /\ ticked[j].key = IF j = 1 THEN clockq[j].key - 1 ELSE clockq[j].key
  <2>1. TAKE j \in 1..L
  <2>2. CASE j = 1
    <3>1. clockq[j].key - 1 \in Int
      BY <1>3
    <3>2. ticked[j] = Entry(sltop, clockq[j].key - 1) /\ sltop = clockq[j].pid
      BY <1>3, <1>5, <2>2
    <3> HIDE DEF ticked
    <3>3. PICK k : k = clockq[j].key - 1
      OBVIOUS
    <3>4. /\ Entry(sltop, k) \in Entries(Proc) /\ Entry(sltop, k).pid = sltop
          /\ Entry(sltop, k).key = k
      BY <1>2, <3>1, <3>3, EntryIn
    <3> QED
      BY <2>2, <3>2, <3>3, <3>4
  <2>3. CASE j # 1
    <3>1. ticked[j] = clockq[j]
      BY <1>3, <1>5, <2>3
    <3> QED
      BY <1>3, <2>3, <3>1
  <2> QED
    BY <2>2, <2>3
<1>7. ticked \in Seq(Entries(Proc)) /\ Len(ticked) = L
  <2>1. DOMAIN ticked = 1..L /\ ticked = [j \in 1..L |-> ticked[j]]
    BY <1>3
  <2> HIDE DEF ticked
  <2> QED
    BY <1>3, <1>6, <2>1, EntriesList
<1>8. clockq # <<>> /\ ~expired => ticked[1].key > 0
  <2> SUFFICES ASSUME clockq # <<>>, ~expired PROVE ticked[1].key > 0
    OBVIOUS
  <2>1. 1 \in 1..L /\ slnempty /\ clockq[1].pid = sltop
    BY <1>3, <1>5
  <2>2. ~(ticked[1].key <= 0)
    BY <1>3, <2>1
  <2>3. ticked[1].key \in Int
    BY <1>3, <1>6, <2>1
  <2> QED
    BY <2>2, <2>3
<1>9. /\ clockq' = ticked
      /\ Call(IF expired THEN <<At("wakeup", 0, 0), At("clkint", 0, 0)>>
              ELSE <<At("clkint", 0, 0)>>)
  BY DEF Clkint
<1> HIDE DEF ticked, expired
<1>10. CASE expired
  <2>1. TopOf(kstack', curr).at = "wakeup"
    <3> DEFINE f == At("wakeup", 0, 0)
               g == At("clkint", 0, 0)
    <3>1. f \in Frame /\ g \in Frame /\ f.at = "wakeup"
          /\ g.at \notin Loops
      BY FrameAt DEF Loops
    <3>2. Call(<<f, g>>)
      BY <1>9, <1>10
    <3> HIDE DEF f, g
    <3>3. TopOf(kstack', curr) = f
      BY <1>1, <3>1, <3>2, CallTwo
    <3> QED
      BY <3>1, <3>3
  <2>2. curr' = curr
    BY <1>1 DEF curr
  <2>3. TopOf(kstack', curr').at = "wakeup"
    BY <2>1, <2>2
  <2> QED
    BY <1>2, <1>6, <1>7, <1>9, <2>3
<1>11. CASE ~expired
  <2> DEFINE g == At("clkint", 0, 0)
  <2>1. g \in Frame /\ g.at # "wakeup"
    BY FrameAt
  <2>2. Call(<<g>>)
    BY <1>9, <1>11
  <2> HIDE DEF g
  <2>3. NoWakeup(kstack')
    BY <1>1, <2>1, <2>2, StackStepQuiet DEF StackStep
  <2> QED
    BY <1>2, <1>6, <1>7, <1>8, <1>9, <1>11, <2>3
<1> QED
  BY <1>10, <1>11

(* One step of wakeup: a process is made ready, or the loop ends. *)
LEMMA WakeupQueue ==
  ASSUME IInv, HInv, Wakeup
  PROVE  /\ clockq \in Seq(Entries(Proc)) /\ OnlyHeadDue(clockq)
         /\ UNCHANGED <<defclk, clkdiff>>
         /\ \/ /\ clockq # <<>> /\ Head(clockq).key <= 0 /\ clockq' = Tail(clockq)
               /\ TopOf(kstack', curr').at = "wakeup" /\ UNCHANGED <<slnempty, sltop>>
            \/ /\ clockq' = clockq /\ NoWakeup(kstack')
               /\ clockq # <<>> => Head(clockq).key > 0
               /\ slnempty' = (clockq # <<>>)
               /\ sltop' = IF clockq # <<>> THEN Head(clockq).pid ELSE sltop
<1>1. /\ Top(curr).at = "wakeup" /\ Top(curr).at # "user" /\ TopOf(kstack, curr) = Top(curr)
      /\ UNCHANGED <<defclk, clkdiff>>
  BY TopIsTopOf DEF Wakeup
<1>2. clockq \in Seq(Entries(Proc)) /\ OnlyHeadDue(clockq)
  BY <1>1 DEF HInv
<1>3. CASE /\ clockq # <<>> /\ Head(clockq).key <= 0
           /\ sched' = Ready(sched, Head(clockq).pid)
           /\ clockq' = Tail(clockq)
           /\ UNCHANGED <<slnempty, sltop, kstack>>
  <2>1. PICK h : h = Head(clockq).pid
    OBVIOUS
  <2>2. Core(sched) /\ h \in Proc /\ sched.pstate[h] \notin Runnable
    BY <1>3, <2>1, AnyStart, WakeHead
  <2>3. sched'.currpid = curr
    BY <1>3, <2>1, <2>2, ReadyStep DEF curr
  <2>4. TopOf(kstack', curr').at = "wakeup"
    BY <1>1, <1>3, <2>3 DEF curr
  <2> QED
    BY <1>1, <1>2, <1>3, <2>4
<1>4. CASE /\ ~(clockq # <<>> /\ Head(clockq).key <= 0)
           /\ slnempty' = (clockq # <<>>)
           /\ sltop' = IF clockq # <<>> THEN Head(clockq).pid ELSE sltop
           /\ Return
           /\ clockq' = clockq
  <2>1. NoWakeup(kstack')
    <3>1. NoLoops(kstack') /\ kstack' \in Stacks
      BY <1>1, <1>4, ReturnOne
    <3> QED
      BY <3>1, NoLoopsTop DEF NoWakeup, Loops
  <2>2. clockq # <<>> => Head(clockq).key > 0
    <3>1. clockq # <<>> => Head(clockq).key \in Int
      BY <1>2, QueueFacts
    <3> QED
      BY <1>4, <3>1
  <2> QED
    BY <1>1, <1>2, <1>4, <2>1, <2>2
<1> QED
  BY <1>3, <1>4 DEF Wakeup

(* The clock is started again: the ticks held back are made up for. *)
LEMMA RestartQueue ==
  ASSUME IInv, HInv, TInv, Restart
  PROVE  /\ Current(clockq, slnempty, sltop) /\ clockq \in Seq(Entries(Proc))
         /\ clkdiff \in Nat /\ clkdiff' = 0 /\ defclk' = 0
         /\ UNCHANGED <<slnempty, sltop>>
         /\ \/ /\ clockq # <<>> /\ clockq' = MakeUp(clockq, clkdiff)
               /\ TopOf(kstack', curr').at = "wakeup"
            \/ clockq = <<>> /\ clockq' = clockq /\ NoWakeup(kstack')
<1>1. /\ Top(curr).at # "wakeup" /\ Top(curr).at \notin Loops
      /\ TopOf(kstack, curr) = Top(curr)
      /\ clkdiff' = 0 /\ defclk' = 0 /\ UNCHANGED <<slnempty, sltop>>
  BY UserTop, TopIsTopOf DEF Restart, Strtclk, Calling
<1>2. /\ Current(clockq, slnempty, sltop) /\ clockq \in Seq(Entries(Proc))
      /\ clkdiff \in Nat
  BY <1>1, DeferAssumption DEF HInv, TInv
<1>3. curr' = curr
  <2>1. sched' = [sched EXCEPT !.preempt = @ - clkdiff]
    BY DEF Restart, Strtclk
  <2>2. sched'.currpid = sched.currpid
    BY <2>1, AnyStart DEF Core, SchedRec
  <2> QED
    BY <2>2 DEF curr
<1> DEFINE f == At("wakeup", 0, 0)
           g == At("strtclk", 0, 0)
<1>4. f \in Frame /\ g \in Frame /\ f.at = "wakeup" /\ g.at \notin Loops /\ g.at # "wakeup"
  BY FrameAt DEF Loops
<1>5. \/ slnempty /\ clockq' = MakeUp(clockq, clkdiff) /\ Call(<<f, g>>)
      \/ ~slnempty /\ clockq' = clockq /\ Call(<<g>>)
  BY DEF Restart, Strtclk
<1> HIDE DEF f, g
<1>6. CASE slnempty /\ clockq' = MakeUp(clockq, clkdiff) /\ Call(<<f, g>>)
  <2>1. TopOf(kstack', curr) = f
    BY <1>1, <1>4, <1>6, CallTwo
  <2>2. TopOf(kstack', curr').at = "wakeup"
    BY <1>3, <1>4, <2>1
  <2>3. clockq # <<>>
    BY <1>2, <1>6 DEF Current
  <2> QED
    BY <1>1, <1>2, <1>6, <2>2, <2>3
<1>7. CASE ~slnempty /\ clockq' = clockq /\ Call(<<g>>)
  <2>1. NoWakeup(kstack')
    BY <1>1, <1>4, <1>7, StackStepQuiet DEF StackStep
  <2>2. clockq = <<>>
    BY <1>2, <1>7 DEF Current
  <2> QED
    BY <1>1, <1>2, <1>7, <2>1, <2>2
<1> QED
  BY <1>5, <1>6, <1>7

LEMMA QuietQueue ==
  ASSUME IInv', NoWakeup(kstack'), clockq' \in Seq(Entries(Proc)), slnempty' \in BOOLEAN,
         sltop' \in Proc, Current(clockq', slnempty', sltop')
  PROVE  HInv'
BY CurrNext DEF HInv, NoWakeup

LEMMA AsideQueue ==
  ASSUME IInv, HInv, TInv, IInv', AsideStep
  PROVE  HInv' /\ TInv'
<1>1. /\ clockq \in Seq(Entries(Proc)) /\ slnempty \in BOOLEAN /\ sltop \in Proc
      /\ Current(clockq, slnempty, sltop) /\ NoWakeup(kstack')
  BY TopIsTopOf DEF AsideStep, HInv
<1>2. TInv'
  BY DeferAssumption DEF TInv, AsideStep
<1>3. CASE SameQueue
  BY <1>1, <1>2, <1>3, QuietQueue DEF SameQueue
<1>4. ASSUME NEW p \in Proc, sched.pstate[p] \in {"PRSLEEP", "PRTRECV"}, LeaveClockq(p)
      PROVE  HInv'
  <2>1. p \in Pids(clockq) /\ Distinct(clockq)
    <3>1. Class(sched.pstate[p]) \in {"PRSLEEP", "PRTRECV"}
      BY <1>4 DEF Class, Runnable
    <3> QED
      BY <3>1, AnyStart DEF SleepMatch
  <2>2. clockq' = DequeueD(clockq, p)
    BY <1>4 DEF LeaveClockq
  <2>3. clockq' \in Seq(Entries(Proc)) /\ NonNeg(clockq')
    BY <1>1, <2>1, <2>2, DeltaDequeue DEF Current
  <2>4. slnempty
    <3>1. clockq # <<>>
      BY <2>1 DEF Pids
    <3> QED
      BY <1>1, <3>1 DEF Current
  <2>5. \/ clockq' # <<>> /\ sltop' = Head(clockq').pid /\ slnempty' = slnempty
        \/ clockq' = <<>> /\ slnempty' = FALSE /\ sltop' = sltop
    BY <1>4 DEF LeaveClockq
  <2>6. clockq' # <<>> => Head(clockq').pid \in Proc
    BY <2>3, QueueFacts
  <2>7. slnempty' \in BOOLEAN /\ sltop' \in Proc /\ Current(clockq', slnempty', sltop')
    BY <1>1, <2>3, <2>4, <2>5, <2>6 DEF Current
  <2> QED
    BY <1>1, <2>3, <2>7, QuietQueue
<1> QED
  BY <1>2, <1>3, <1>4 DEF AsideStep

LEMMA TimerQueue ==
  ASSUME IInv, HInv, TInv, IInv', NEW n \in Delays, SleepCall(n) \/ RecvtimCall(n)
  PROVE  HInv' /\ TInv'
<1>1. /\ clockq \in Seq(Entries(Proc)) /\ slnempty \in BOOLEAN /\ sltop \in Proc
      /\ Current(clockq, slnempty, sltop) /\ NoWakeup(kstack')
      /\ UNCHANGED <<defclk, clkdiff>> /\ (SameQueue \/ EnterClockq(n))
  BY TimerSteps, TopIsTopOf DEF HInv
<1>2. TInv'
  BY <1>1 DEF TInv
<1>3. CASE SameQueue
  BY <1>1, <1>2, <1>3, QuietQueue DEF SameQueue
<1>4. CASE EnterClockq(n)
  <2>1. n \in Nat /\ curr \in Proc
    <3>1. n \in 0..MAXINT
      BY Zenon, DelaysAssumption
    <3> QED
      BY <3>1, AnyStart
  <2>2. clockq' = InsertD(clockq, curr, n) /\ slnempty' = TRUE /\ sltop' = Head(clockq').pid
    BY <1>4 DEF EnterClockq
  <2>3. clockq' \in Seq(Entries(Proc)) /\ clockq' # <<>> /\ NonNeg(clockq')
    BY <1>1, <2>1, <2>2, DeltaInsert DEF Current
  <2>4. Head(clockq').pid \in Proc
    BY <2>3, QueueFacts
  <2>5. slnempty' \in BOOLEAN /\ sltop' \in Proc /\ Current(clockq', slnempty', sltop')
    BY <2>2, <2>3, <2>4 DEF Current
  <2> QED
    BY <1>1, <1>2, <2>3, <2>5, QuietQueue
<1> QED
  BY <1>1, <1>3, <1>4

LEMMA TickHead ==
  ASSUME IInv, HInv, TInv, IInv', Tick
  PROVE  HInv' /\ TInv'
<1>0. Clkint /\ Top(curr).at # "wakeup" /\ TopOf(kstack, curr) = Top(curr)
      /\ clockq \in Seq(Entries(Proc)) /\ slnempty \in BOOLEAN /\ sltop \in Proc
      /\ slnempty' = slnempty /\ sltop' = sltop /\ defclk' = defclk
  BY UserTop, TopIsTopOf DEF Tick, Clkint, Interruptible, HInv
<1>1. CASE defclk > 0
  <2>1. clockq' = clockq /\ kstack' = kstack /\ clkdiff' = clkdiff + 1 /\ clkdiff < MaxDiff
    BY <1>0, <1>1 DEF Clkint
  <2>2. TInv'
    BY <1>0, <1>1, <2>1, DeferAssumption DEF TInv
  <2>3. NoWakeup(kstack')
    BY <1>0, <2>1, StackStepQuiet DEF StackStep
  <2>4. Current(clockq, slnempty, sltop)
    BY <1>0 DEF HInv
  <2> QED
    BY <1>0, <2>1, <2>2, <2>3, <2>4, QuietQueue
<1>2. CASE ~(defclk > 0)
  <2>1. /\ clockq' \in Seq(Entries(Proc)) /\ Len(clockq') = Len(clockq)
        /\ \A j \in 1..Len(clockq) :
             /\ clockq'[j].pid = clockq[j].pid
             /\ clockq'[j].key = IF j = 1 THEN clockq[j].key - 1 ELSE clockq[j].key
        /\ Current(clockq, slnempty, sltop)
        /\ \/ TopOf(kstack', curr').at = "wakeup"
           \/ NoWakeup(kstack') /\ (clockq # <<>> => clockq'[1].key > 0)
    BY <1>0, <1>2, TickQueue
  <2>2. clkdiff' = clkdiff
    BY <1>0, <1>2 DEF Clkint
  <2>3. TInv'
    BY <1>0, <2>2 DEF TInv
  <2>4. DOMAIN clockq = 1..Len(clockq) /\ DOMAIN clockq' = 1..Len(clockq)
    BY <1>0, <2>1
  <2>5. OnlyHeadDue(clockq')
    BY <2>1, <2>4 DEF OnlyHeadDue, Current, NonNeg
  <2>6. CASE TopOf(kstack', curr').at = "wakeup"
    BY <1>0, <2>1, <2>3, <2>5, <2>6 DEF HInv
  <2>7. CASE NoWakeup(kstack') /\ (clockq # <<>> => clockq'[1].key > 0)
    <3>1. NonNeg(clockq')
      <4> SUFFICES ASSUME NEW j \in DOMAIN clockq' PROVE clockq'[j].key >= 0
        BY DEF NonNeg
      <4>1. j \in 1..Len(clockq) /\ clockq # <<>> /\ clockq[j].key >= 0
        BY <1>0, <2>1, <2>4 DEF Current, NonNeg
      <4>2. clockq'[j].key \in Int
        BY <2>1, <2>4, QueueFacts
      <4> QED
        BY <2>1, <2>7, <4>1, <4>2
    <3>2. clockq = <<>> <=> clockq' = <<>>
      BY <1>0, <2>1
    <3>3. clockq # <<>> => Head(clockq').pid = Head(clockq).pid
      <4>1. clockq # <<>> => /\ Head(clockq) = clockq[1] /\ Head(clockq') = clockq'[1]
                             /\ 1 \in 1..Len(clockq)
        BY <1>0, <2>1, <3>2, <2>4
      <4> QED
        BY <2>1, <4>1
    <3>4. Current(clockq', slnempty', sltop')
      BY <1>0, <2>1, <3>1, <3>2, <3>3 DEF Current
    <3> QED
      BY <1>0, <2>1, <2>3, <2>7, <3>4, QuietQueue
  <2> QED
    BY <2>1, <2>6, <2>7
<1> QED
  BY <1>1, <1>2

LEMMA WakeupHead ==
  ASSUME IInv, HInv, TInv, IInv', Wakeup
  PROVE  HInv' /\ TInv'
<1>1. clockq \in Seq(Entries(Proc)) /\ OnlyHeadDue(clockq) /\ UNCHANGED <<defclk, clkdiff>>
      /\ slnempty \in BOOLEAN /\ sltop \in Proc
  BY WakeupQueue DEF HInv
<1>2. TInv'
  BY <1>1 DEF TInv
<1>3. CASE /\ clockq # <<>> /\ clockq' = Tail(clockq)
           /\ TopOf(kstack', curr').at = "wakeup" /\ UNCHANGED <<slnempty, sltop>>
  <2>1. /\ Tail(clockq) \in Seq(Entries(Proc)) /\ Len(Tail(clockq)) = Len(clockq) - 1
        /\ Len(clockq) \in Nat \ {0}
        /\ \A j \in 1..(Len(clockq) - 1) : Tail(clockq)[j] = clockq[j+1]
    BY <1>1, <1>3, DeltaTail
  <2>2. DOMAIN clockq = 1..Len(clockq) /\ DOMAIN clockq' = 1..(Len(clockq) - 1)
    BY <1>1, <1>3, <2>1
  <2>3. ASSUME NEW j \in DOMAIN clockq' PROVE clockq'[j].key >= 0
    <3>1. j \in 1..(Len(clockq) - 1) /\ j + 1 \in DOMAIN clockq /\ j + 1 > 1
      BY <2>1, <2>2, <2>3
    <3> QED
      BY <1>1, <1>3, <2>1, <3>1 DEF OnlyHeadDue
  <2> QED
    BY <1>1, <1>2, <1>3, <2>1, <2>3 DEF HInv, OnlyHeadDue
<1>4. CASE /\ clockq' = clockq /\ NoWakeup(kstack')
           /\ clockq # <<>> => Head(clockq).key > 0
           /\ slnempty' = (clockq # <<>>)
           /\ sltop' = IF clockq # <<>> THEN Head(clockq).pid ELSE sltop
  <2>1. NonNeg(clockq)
    <3> SUFFICES ASSUME NEW j \in DOMAIN clockq PROVE clockq[j].key >= 0
      BY DEF NonNeg
    <3>1. clockq # <<>> /\ Head(clockq) = clockq[1] /\ j \in 1..Len(clockq)
          /\ clockq[j].key \in Int
      BY <1>1, QueueFacts
    <3> QED
      BY <1>1, <1>4, <3>1 DEF OnlyHeadDue
  <2>2. clockq # <<>> => Head(clockq).pid \in Proc
    BY <1>1, QueueFacts
  <2>3. Current(clockq', slnempty', sltop')
    BY <1>4, <2>1 DEF Current
  <2> QED
    BY <1>1, <1>2, <1>4, <2>2, <2>3, QuietQueue
<1> QED
  BY <1>2, <1>3, <1>4, WakeupQueue

LEMMA RestartHead ==
  ASSUME IInv, HInv, TInv, IInv', Restart
  PROVE  HInv' /\ TInv'
<1>1. /\ Current(clockq, slnempty, sltop) /\ clockq \in Seq(Entries(Proc))
      /\ clkdiff \in Nat /\ clkdiff' = 0 /\ defclk' = 0
      /\ UNCHANGED <<slnempty, sltop>> /\ slnempty \in BOOLEAN /\ sltop \in Proc
  BY RestartQueue DEF HInv
<1>2. TInv'
  BY <1>1, DeferAssumption DEF TInv
<1>3. CASE clockq' = MakeUp(clockq, clkdiff) /\ TopOf(kstack', curr').at = "wakeup"
  <2>1. clockq' \in Seq(Entries(Proc)) /\ NonNeg(clockq')
    BY <1>1, <1>3, DeltaMakeUp DEF Current
  <2> QED
    BY <1>1, <1>2, <1>3, <2>1 DEF HInv, OnlyHeadDue, NonNeg
<1>4. CASE clockq' = clockq /\ NoWakeup(kstack')
  BY <1>1, <1>2, <1>4, QuietQueue
<1> QED
  BY <1>2, <1>3, <1>4, RestartQueue

LEMMA QueueNext ==
  ASSUME IInv, GInv, HInv, TInv, IInv', [Next]_vars
  PROVE  HInv' /\ TInv'
<1>1. CASE Untimed
  <2>1. AsideStep \/ Wakeup \/ Restart
    BY <1>1, UntimedSteps DEF TInv
  <2> QED
    BY <2>1, AsideQueue, WakeupHead, RestartHead
<1>2. ASSUME NEW n \in Delays, SleepCall(n) \/ RecvtimCall(n) PROVE HInv' /\ TInv'
  BY <1>2, TimerQueue
<1>3. CASE Tick
  BY <1>3, TickHead
<1>4. CASE UNCHANGED vars
  <2>1. UNCHANGED <<sched, kstack, clockq, slnempty, sltop, defclk, clkdiff>>
    BY <1>4 DEF vars, clkVars
  <2> QED
    BY <2>1 DEF HInv, TInv, curr
<1> QED
  BY <1>1, <1>2, <1>3, <1>4 DEF Next

(* What a call that is neither of message passing nor of process creation   *)
(* and death does to the three.                                             *)
LEMMA PlainInv3 ==
  ASSUME MInv, NInv, PlainStep, UNCHANGED msgVars, numproc' = numproc,
         boot' \in {"create", "resume", "idle"}
  PROVE  GInv' /\ MInv' /\ NInv'
BY PlainMsg, PlainCount DEF PlainStep

LEMMA ProcCallInv3 ==
  ASSUME IInv, GInv, MInv, NInv, ProcCall
  PROVE  GInv' /\ MInv' /\ NInv'
<1>0. boot \in {"create", "resume", "idle"}
  BY DEF NInv
<1>1. ASSUME NEW prio \in Prios \cup {0}, Create(prio) PROVE GInv' /\ MInv' /\ NInv'
  <2>1. prio \in Nat
    BY PriosAssumption
  <2> QED
    BY <1>0, <1>1, <2>1, NewProcInv3 DEF Create
<1>2. CASE NullCreate
  BY <1>2, NewProcInv3 DEF NullCreate, INITPRIO
<1>3. CASE NullResume
  <2>1. NPROC - 1 \in Proc
    BY DEF Proc
  <2>2. kstack' = kstack /\ Resume(NPROC - 1) /\ UNCHANGED msgVars /\ numproc' = numproc
        /\ boot' = "idle"
    BY <1>3 DEF NullResume, Resume
  <2>3. PlainStep
    BY <2>1, <2>2, ResumePlain, GoodSame DEF PlainStep
  <2> QED
    BY <2>2, <2>3, PlainInv3
<1>4. ASSUME NEW p \in Proc, NEW nok \in Kin, Setnok(nok, p) PROVE GInv' /\ MInv' /\ NInv'
  <2>1. kstack' = kstack /\ sched' = sched /\ UNCHANGED msgVars /\ numproc' = numproc
        /\ boot' = boot
    BY <1>4 DEF Setnok
  <2>2. PlainStep
    BY <2>1, SamePlain, GoodSame DEF PlainStep
  <2> QED
    BY <1>0, <2>1, <2>2, PlainInv3
<1>5. ASSUME NEW p \in Proc, Kill(p) PROVE GInv' /\ MInv' /\ NInv'
  BY <1>5, KillInv3
<1>6. CASE KillEnd
  BY <1>6, KillEndInv3
<1> QED
  BY <1>1, <1>2, <1>3, <1>4, <1>5, <1>6 DEF ProcCall

LEMMA CountNext ==
  ASSUME IInv, GInv, MInv, NInv, TInv, [Next]_vars
  PROVE  GInv' /\ MInv' /\ NInv'
<1>0. boot \in {"create", "resume", "idle"} /\ defclk \in 0..MaxDefer
  BY DEF NInv, TInv
<1>1. CASE SchedCall
  BY <1>0, <1>1, SchedCallPlain, PlainInv3 DEF SchedCall, procVars
<1>2. CASE SemCall
  BY <1>0, <1>2, SemCallPlain, PlainInv3 DEF SemCall, procVars
<1>3. CASE MsgCall
  BY <1>3, MsgCallInv3
<1>4. CASE ClockCall
  BY <1>0, <1>4, ClockCallPlain, PlainInv3 DEF ClockCall, procVars
<1>5. CASE ProcCall
  BY <1>5, ProcCallInv3
<1>6. ASSUME NEW n \in Delays, SleepCall(n) \/ RecvtimCall(n) PROVE GInv' /\ MInv' /\ NInv'
  <2>1. UNCHANGED msgVars /\ numproc' = numproc /\ boot' = boot
    BY <1>6 DEF SleepCall, RecvtimCall, Recvtim, procVars
  <2> QED
    BY <1>0, <1>6, <2>1, SleepersPlain, PlainInv3
<1>7. CASE Tick
  BY <1>0, <1>7, TickPlain, PlainInv3 DEF Tick, procVars
<1>8. CASE UNCHANGED vars
  <2>1. kstack' = kstack /\ sched' = sched /\ UNCHANGED msgVars /\ numproc' = numproc
        /\ boot' = boot
    BY <1>8 DEF vars, msgVars, procVars
  <2>2. PlainStep
    BY <2>1, SamePlain, GoodSame DEF PlainStep
  <2> QED
    BY <1>0, <2>1, <2>2, PlainInv3
<1> QED
  BY <1>1, <1>2, <1>3, <1>4, <1>5, <1>6, <1>7, <1>8 DEF Next, Untimed

(* The invariant in full. *)
KernelInv == IInv /\ DInv /\ GInv /\ MInv /\ NInv /\ TInv /\ HInv

LEMMA InitMore == Init => GInv /\ MInv /\ NInv /\ TInv /\ HInv
<1> SUFFICES ASSUME Init PROVE GInv /\ MInv /\ NInv /\ TInv /\ HInv
  OBVIOUS
<1>1. /\ kstack = [p \in Proc |-> <<>>] /\ curr = NULLPROC /\ NULLPROC \in Proc
      /\ \A p \in Proc : kstack[p] = <<>>
  BY NullIsProc DEF Init, SchedInit, curr
<1>2. GInv
  BY <1>1 DEF GInv, GoodStacks, GoodStack
<1>3. \A p \in Proc : TopOf(kstack, p).at = "user"
  BY <1>1 DEF TopOf, At
<1>4. MInv
  <2>1. pmsg = [p \in Proc |-> 0] /\ phasmsg = [p \in Proc |-> 0]
    BY DEF Init, MsgInit
  <2>2. pmsg \in [Proc -> Msgs \cup Proc] /\ phasmsg \in [Proc -> 0..MaxHasmsg]
    BY <1>1, <2>1, MaxHasmsgAssumption DEF NULLPROC
  <2> QED
    BY <1>3, <2>2 DEF MInv, MsgType
<1>5. NInv
  <2>1. numproc = 0 /\ boot = "create"
    BY DEF Init
  <2>2. Cardinality(Working(sched, kstack)) \in 0..(NPROC - 1)
    BY WorkingFinite
  <2> QED
    BY <1>1, <1>3, <2>1, <2>2, MaxOverkillAssumption DEF NInv
<1>6. clockq = <<>> /\ slnempty = FALSE /\ sltop = NULLPROC /\ defclk = 0 /\ clkdiff = 0
  BY DEF Init, ClockInit
<1>7. TInv
  BY <1>6, DeferAssumption DEF TInv
<1>8. HInv
  <2>1. <<>> \in Seq(Entries(Proc)) /\ NonNeg(<<>>)
    BY DEF NonNeg
  <2> QED
    BY <1>1, <1>3, <1>6, <2>1 DEF HInv, Current
<1> QED
  BY <1>2, <1>4, <1>5, <1>7, <1>8

LEMMA KernelNext == KernelInv /\ [Next]_vars => KernelInv'
BY NextInv, CountersInv, CountNext, QueueNext DEF KernelInv

(* The invariant in full holds: messages, the count of processes and the    *)
(* sleep queue with its copies are in order too.                            *)
THEOREM KernelInvariance == Spec => []KernelInv
<1>1. Init => KernelInv
  BY InitInv, InitMore DEF KernelInv
<1> QED
  BY <1>1, KernelNext, PTL DEF Spec

------------------------------------------------------------------------------
(***************************************************************************)
(* What a step does to the queue of a semaphore.                           *)
(***************************************************************************)

(* The queue is left alone, gets its caller at its end, loses its head, or  *)
(* loses a process that is killed.                                          *)
QueueMoves(old, new) ==
  \/ new = old
  \/ \E p \in Proc \ ToSet(old) : new = Append(old, p)
  \/ old # <<>> /\ new = Tail(old)
  \/ \E p \in ToSet(old) : new = DequeueSem(old, p) /\ sched'.pstate[p] = "PRFREE"

QueuesMove == \A s \in Sem : QueueMoves(semaph[s].queue, semaph'[s].queue)

LEMMA OneQueue ==
  ASSUME NEW s \in Sem, QueueMoves(semaph[s].queue, semaph'[s].queue),
         \A x \in Sem \ {s} : semaph'[x].queue = semaph[x].queue
  PROVE  QueuesMove
BY DEF QueuesMove, QueueMoves

LEMMA SameSems == ASSUME semaph' = semaph PROVE QueuesMove
BY DEF QueuesMove, QueueMoves

LEMMA SetBoth ==
  ASSUME SemTyped(semaph, psem, nextsem), NEW s \in Sem, NEW n, NEW q,
         semaph' = [semaph EXCEPT ![s].semcnt = n, ![s].queue = q]
  PROVE  semaph'[s].queue = q /\ \A x \in Sem \ {s} : semaph'[x].queue = semaph[x].queue
BY DEF SemTyped

LEMMA SetQueueOnly ==
  ASSUME SemTyped(semaph, psem, nextsem), NEW s \in Sem, NEW q,
         semaph' = [semaph EXCEPT ![s].queue = q]
  PROVE  semaph'[s].queue = q /\ \A x \in Sem \ {s} : semaph'[x].queue = semaph[x].queue
BY DEF SemTyped

LEMMA SetNoQueue ==
  ASSUME SemTyped(semaph, psem, nextsem), NEW s \in Sem, NEW n, NEW st,
         \/ semaph' = [semaph EXCEPT ![s].semcnt = n]
         \/ semaph' = [semaph EXCEPT ![s].sstate = st]
         \/ semaph' = [semaph EXCEPT ![s].sstate = st, ![s].semcnt = n]
  PROVE  QueuesMove
<1>1. semaph[s].queue = semaph'[s].queue
  BY DEF SemTyped
<1>2. \A x \in Sem \ {s} : semaph'[x].queue = semaph[x].queue
  BY DEF SemTyped
<1> QED
  BY <1>1, <1>2 DEF QueuesMove, QueueMoves

LEMMA ReleaseMoves ==
  ASSUME IInv, NEW s \in Sem, isUsed(s), CountMatches(semaph[s]),
         \/ /\ semaph[s].semcnt < 0
            /\ semaph' = [semaph EXCEPT ![s].semcnt = @ + 1, ![s].queue = Tail(@)]
         \/ semaph' = [semaph EXCEPT ![s].semcnt = @ + 1]
  PROVE  QueuesMove
<1>1. /\ SemTyped(semaph, psem, nextsem) /\ semaph[s].semcnt \in Int
      /\ semaph[s].queue \in Seq(Proc)
  BY AnyStart, SemFacts
<1>2. CASE /\ semaph[s].semcnt < 0
           /\ semaph' = [semaph EXCEPT ![s].semcnt = @ + 1, ![s].queue = Tail(@)]
  <2>1. Len(semaph[s].queue) # 0
    BY <1>1, <1>2 DEF CountMatches, isUsed
  <2>2. semaph[s].queue # <<>>
    BY <2>1
  <2>3. PICK q, n : q = Tail(semaph[s].queue) /\ n = semaph[s].semcnt + 1
    OBVIOUS
  <2>4. semaph' = [semaph EXCEPT ![s].semcnt = n, ![s].queue = q]
    BY <1>1, <1>2, <2>3 DEF SemTyped
  <2>5. semaph'[s].queue = q /\ \A x \in Sem \ {s} : semaph'[x].queue = semaph[x].queue
    BY <1>1, <2>4, SetBoth
  <2>6. QueueMoves(semaph[s].queue, semaph'[s].queue)
    BY <2>2, <2>3, <2>5 DEF QueueMoves
  <2> QED
    BY <2>5, <2>6, OneQueue
<1>3. CASE semaph' = [semaph EXCEPT ![s].semcnt = @ + 1]
  BY <1>1, <1>3, SetNoQueue
<1> QED
  BY <1>2, <1>3

LEMMA SemMoves ==
  ASSUME IInv, SemCall
  PROVE  QueuesMove
<1>0. /\ SemTyped(semaph, psem, nextsem) /\ curr \in Proc
      /\ sched.pstate[curr] = "PRCURR" /\ QueuesMatch(semaph, psem, sched.pstate)
  BY AnyStart
<1>1. ASSUME NEW s \in Sem, Wait(s) PROVE QueuesMove
  <2>1. CASE semaph' = [semaph EXCEPT ![s].semcnt = @ - 1]
    BY <1>0, <2>1, SetNoQueue
  <2>2. CASE semaph' = [semaph EXCEPT ![s].semcnt = @ - 1, ![s].queue = Append(@, curr)]
    <3>1. curr \notin ToSet(semaph[s].queue)
      <4>1. Class(sched.pstate[curr]) # "PRWAIT"
        BY <1>0 DEF Class, Runnable
      <4> QED
        BY <1>0, <4>1 DEF QueuesMatch
    <3>2. PICK q, n : q = Append(semaph[s].queue, curr) /\ n = semaph[s].semcnt - 1
      OBVIOUS
    <3>3. semaph' = [semaph EXCEPT ![s].semcnt = n, ![s].queue = q]
      BY <1>0, <2>2, <3>2 DEF SemTyped
    <3>4. semaph'[s].queue = q /\ \A x \in Sem \ {s} : semaph'[x].queue = semaph[x].queue
      BY <1>0, <3>3, SetBoth
    <3>5. QueueMoves(semaph[s].queue, semaph'[s].queue)
      BY <1>0, <3>1, <3>2, <3>4 DEF QueueMoves
    <3> QED
      BY <3>4, <3>5, OneQueue
  <2> QED
    BY <1>1, <2>1, <2>2 DEF Wait, WaitOn
<1>2. ASSUME NEW s \in Sem, Signal(s) PROVE QueuesMove
  <2>1. CountMatches(semaph[s]) /\ isUsed(s)
    BY <1>2, AnyStart, UserTop DEF Signal, Calling, Emptying
  <2>2. \/ /\ semaph[s].semcnt < 0
           /\ semaph' = [semaph EXCEPT ![s].semcnt = @ + 1, ![s].queue = Tail(@)]
        \/ semaph' = [semaph EXCEPT ![s].semcnt = @ + 1]
    BY <1>2 DEF Signal, SignalOnce
  <2> QED
    BY <2>1, <2>2, ReleaseMoves
<1>3. ASSUME NEW s \in Sem, Sdelete(s) PROVE QueuesMove
  <2>1. semaph' = [semaph EXCEPT ![s].sstate = "SFREE"]
    BY <1>3 DEF Sdelete
  <2> QED
    BY <1>0, <2>1, SetNoQueue
<1>4. ASSUME NEW s \in Sem, NEW n \in 0..MaxCount, Signaln(s, n) \/ Sreset(s, n)
      PROVE  QueuesMove
  BY <1>4, SameSems DEF Signaln, Sreset, semVars
<1>5. ASSUME NEW n \in 0..MaxCount, Screate(n) PROVE QueuesMove
  <2>1. PICK i \in 0..(NSEM - 1) :
          semaph' = [semaph EXCEPT ![ProbeSem(i)].sstate = "SUSED",
                                   ![ProbeSem(i)].semcnt = n]
    BY <1>5 DEF Screate, TakeSem
  <2>2. ProbeSem(i) \in Sem
    <3>1. nextsem \in Int
      BY <1>0, NSEMAssumption DEF SemTyped, Sem
    <3>2. (nextsem - i) % NSEM \in 0..(NSEM - 1)
      BY <3>1, NSEMAssumption, ModBound
    <3> QED
      BY <3>2 DEF ProbeSem, Sem
  <2> QED
    BY <1>0, <2>1, <2>2, SetNoQueue
<1>6. CASE SignalnLoop
  <2>1. Top(curr).at = "signaln" /\ Top(curr).at # "user"
    BY <1>6 DEF SignalnLoop
  <2>2. PICK s : s = Top(curr).arg
    OBVIOUS
  <2>3. s \in Sem
    BY <2>1, <2>2, InCall DEF Frame
  <2>4. CountMatches(semaph[s]) /\ isUsed(s)
    BY <2>1, <2>2, <2>3, AnyStart DEF Emptying, IInv, QInv
  <2>5. \/ semaph' = semaph
        \/ /\ semaph[s].semcnt < 0
           /\ semaph' = [semaph EXCEPT ![s].semcnt = @ + 1, ![s].queue = Tail(@)]
        \/ semaph' = [semaph EXCEPT ![s].semcnt = @ + 1]
    BY <1>6, <2>2 DEF SignalnLoop, SignalOnce
  <2> QED
    BY <2>3, <2>4, <2>5, ReleaseMoves, SameSems
<1>7. CASE FlushLoop
  <2>1. Top(curr).at \in {"sreset", "sdelete"} /\ Top(curr).at # "user"
    BY <1>7 DEF FlushLoop
  <2>2. PICK s, c : s = Top(curr).arg /\ c = Top(curr).cnt
    OBVIOUS
  <2>3. s \in Sem
    BY <2>1, <2>2, InCall DEF Frame
  <2>4. CASE semaph[s].queue # <<>> /\ semaph' = [semaph EXCEPT ![s].queue = Tail(@)]
    <3>1. PICK q : q = Tail(semaph[s].queue)
      OBVIOUS
    <3>2. semaph' = [semaph EXCEPT ![s].queue = q]
      BY <2>4, <3>1
    <3>3. semaph'[s].queue = q /\ \A x \in Sem \ {s} : semaph'[x].queue = semaph[x].queue
      BY <1>0, <2>3, <3>2, SetQueueOnly
    <3>4. QueueMoves(semaph[s].queue, semaph'[s].queue)
      BY <2>4, <3>1, <3>3 DEF QueueMoves
    <3> QED
      BY <2>3, <3>3, <3>4, OneQueue
  <2>5. CASE semaph' = [semaph EXCEPT ![s].semcnt = c]
    BY <1>0, <2>3, <2>5, SetNoQueue
  <2>6. CASE semaph' = semaph
    BY <2>6, SameSems
  <2> QED
    BY <1>7, <2>2, <2>4, <2>5, <2>6 DEF FlushLoop
<1> QED
  BY <1>1, <1>2, <1>3, <1>4, <1>5, <1>6, <1>7 DEF SemCall

LEMMA KillEndMoves ==
  ASSUME IInv, KillEnd
  PROVE  QueuesMove
<1>1. PICK p : p = Top(curr).arg
  OBVIOUS
<1>2. p \in Proc
  BY <1>1, InCall DEF KillEnd, Frame
<1>3. /\ SemTyped(semaph, psem, nextsem) /\ QueuesMatch(semaph, psem, sched.pstate)
      /\ sched.pstate \in [Proc -> PRStates]
  BY AnyStart
<1>4. CASE /\ sched.pstate[p] = "PRWAIT"
           /\ semaph' = [semaph EXCEPT ![psem[p]].semcnt = @ + 1,
                                       ![psem[p]].queue = DequeueSem(@, p)]
  <2>1. PICK s : s = psem[p]
    OBVIOUS
  <2>2. s \in Sem /\ p \in ToSet(semaph[s].queue)
    <3>1. s \in Sem
      BY <1>2, <1>3, <2>1 DEF SemTyped
    <3>2. Class(sched.pstate[p]) = "PRWAIT"
      BY <1>4 DEF Class, Runnable
    <3> QED
      BY <1>2, <1>3, <2>1, <3>1, <3>2 DEF QueuesMatch
  <2>3. PICK q, n : q = DequeueSem(semaph[s].queue, p) /\ n = semaph[s].semcnt + 1
    OBVIOUS
  <2>4. semaph' = [semaph EXCEPT ![s].semcnt = n, ![s].queue = q]
    BY <1>3, <1>4, <2>1, <2>2, <2>3 DEF SemTyped
  <2>5. semaph'[s].queue = q /\ \A x \in Sem \ {s} : semaph'[x].queue = semaph[x].queue
    BY <1>3, <2>2, <2>4, SetBoth
  <2>6. sched'.pstate[p] = "PRFREE"
    <3>1. sched' = Block(sched, p, "PRFREE")
      BY <1>1, <1>4 DEF KillEnd
    <3>2. Core(sched)
      BY AnyStart
    <3> QED
      BY <1>2, <3>1, <3>2 DEF Block, Core, SchedRec
  <2>7. QueueMoves(semaph[s].queue, semaph'[s].queue)
    BY <2>2, <2>3, <2>5, <2>6 DEF QueueMoves
  <2> QED
    BY <2>2, <2>5, <2>7, OneQueue
<1>5. CASE semaph' = semaph
  BY <1>5, SameSems
<1> QED
  BY <1>1, <1>4, <1>5 DEF KillEnd

LEMMA StepMoves ==
  ASSUME IInv, [Next]_vars
  PROVE  QueuesMove
<1>1. CASE ProcCall
  <2>1. KillEnd \/ semaph' = semaph
    BY <1>1 DEF ProcCall, Create, NullCreate, NullResume, Setnok, Kill, semVars
  <2> QED
    BY <2>1, KillEndMoves, SameSems
<1>2. CASE SemCall
  BY <1>2, SemMoves
<1>3. CASE ~ProcCall /\ ~SemCall
  <2>1. semaph' = semaph
    BY <1>3 DEF Next, Untimed, SchedCall, MsgCall, ClockCall, SleepCall, RecvtimCall,
                Tick, semVars, vars
  <2> QED
    BY <2>1, SameSems
<1> QED
  BY <1>1, <1>2, <1>3

(* Where the entries that stay go when one in the middle is taken out. *)
LEMMA DequeueOrder ==
  ASSUME NEW S, NEW q \in Seq(S), NEW p \in ToSet(q), IsInjective(q),
         NEW i \in DOMAIN q, NEW j \in DOMAIN q, i < j, q[i] # p, q[j] # p
  PROVE  LET r == DequeueSem(q, p)
         IN  \E a, b \in DOMAIN r : a < b /\ r[a] = q[i] /\ r[b] = q[j]
<1> DEFINE m == CHOOSE k \in DOMAIN q : q[k] = p
           r == DequeueSem(q, p)
           n == Len(q)
           to(k) == IF k < m THEN k ELSE k - 1
<1>1. n \in Nat /\ DOMAIN q = 1..n
  OBVIOUS
<1>2. m \in 1..n /\ q[m] = p
  <2>1. \E k \in DOMAIN q : q[k] = p
    BY DEF ToSet
  <2> QED
    BY <1>1, <2>1
<1>3. r = RemoveAt(q, m)
  BY DEF DequeueSem
<1> HIDE DEF m
<1>4. /\ DOMAIN r = 1..(n - 1)
      /\ \A k \in 1..(n - 1) : r[k] = IF k < m THEN q[k] ELSE q[k+1]
  BY ZenonT(60), <1>1, <1>2, <1>3, RemoveAtFacts
<1> HIDE DEF r
<1>5. \A k \in 1..n : k # m => to(k) \in 1..(n - 1) /\ r[to(k)] = q[k]
  <2> SUFFICES ASSUME NEW k \in 1..n, k # m
               PROVE  to(k) \in 1..(n - 1) /\ r[to(k)] = q[k]
    OBVIOUS
  <2>1. CASE k < m
    BY <1>1, <1>2, <1>4, <2>1
  <2>2. CASE ~(k < m)
    <3>1. k - 1 \in 1..(n - 1) /\ ~(k - 1 < m) /\ (k - 1) + 1 = k
      BY <1>1, <1>2, <2>2
    <3> QED
      BY <1>4, <2>2, <3>1
  <2> QED
    BY <2>1, <2>2
<1>6. i # m /\ j # m /\ i \in 1..n /\ j \in 1..n
  BY <1>1, <1>2
<1>7. to(i) < to(j)
  BY <1>1, <1>2, <1>6
<1> HIDE DEF to
<1>8. to(i) \in DOMAIN r /\ to(j) \in DOMAIN r /\ r[to(i)] = q[i] /\ r[to(j)] = q[j]
  BY <1>4, <1>5, <1>6
<1> QED
  BY <1>7, <1>8 DEF r

(* First come, first served, for one queue. *)
LEMMA FifoQueue ==
  ASSUME NEW old \in Seq(Proc), IsInjective(old), NEW new, QueueMoves(old, new),
         NEW p \in ToSet(old) \cap ToSet(new), NEW r \in Proc, r # p, ~Ahead(old, r, p)
  PROVE  IF r \in ToSet(new) THEN Ahead(new, p, r)
         ELSE r \notin ToSet(old) \/ sched'.pstate[r] = "PRFREE"
<1> DEFINE n == Len(old)
<1>0. n \in Nat /\ DOMAIN old = 1..n
  OBVIOUS
<1>1. PICK i \in DOMAIN old : old[i] = p
  BY DEF ToSet
<1>2. r \in ToSet(old) => \E j \in DOMAIN old : i < j /\ old[j] = r
  <2> SUFFICES ASSUME r \in ToSet(old) PROVE \E j \in DOMAIN old : i < j /\ old[j] = r
    OBVIOUS
  <2>1. PICK j \in DOMAIN old : old[j] = r
    BY DEF ToSet
  <2>2. ~(j < i) /\ j # i
    BY <1>1, <2>1 DEF Ahead
  <2> QED
    BY <1>0, <2>1, <2>2
<1>3. r \in ToSet(old) => Ahead(old, p, r)
  BY <1>1, <1>2 DEF Ahead
<1>4. CASE new = old
  BY <1>3, <1>4
<1>5. ASSUME NEW c \in Proc \ ToSet(old), new = Append(old, c)
      PROVE  IF r \in ToSet(new) THEN Ahead(new, p, r) ELSE r \notin ToSet(old)
  <2>1. /\ DOMAIN new = 1..(n + 1) /\ new[n + 1] = c
        /\ \A k \in 1..n : new[k] = old[k] /\ k \in 1..(n + 1) /\ k < n + 1
        /\ n + 1 \in 1..(n + 1)
    BY <1>0, <1>5, AppendProperties
  <2>2. ToSet(new) = ToSet(old) \cup {c}
    BY <1>5, AppendQueueFacts
  <2>3. CASE r \in ToSet(old)
    <3>1. PICK j \in DOMAIN old : i < j /\ old[j] = r
      BY <1>2, <2>3
    <3>2. i \in DOMAIN new /\ j \in DOMAIN new /\ new[i] = p /\ new[j] = r
      BY <1>0, <1>1, <2>1, <3>1
    <3>3. Ahead(new, p, r)
      BY <3>1, <3>2 DEF Ahead
    <3> QED
      BY <2>2, <2>3, <3>3
  <2>4. CASE r = c
    <3>1. i \in DOMAIN new /\ new[i] = p /\ i < n + 1 /\ n + 1 \in DOMAIN new
      BY <1>0, <1>1, <2>1
    <3>2. Ahead(new, p, r)
      BY <2>1, <2>4, <3>1 DEF Ahead
    <3> QED
      BY <1>5, <2>2, <2>4, <3>2
  <2> QED
    BY <2>2, <2>3, <2>4
<1>6. CASE old # <<>> /\ new = Tail(old)
  <2>1. /\ DOMAIN new = 1..(n - 1) /\ n \in Nat \ {0}
        /\ \A k \in 1..(n - 1) : new[k] = old[k+1]
        /\ ToSet(new) = ToSet(old) \ {Head(old)} /\ Head(old) = old[1]
    <3>1. new \in Seq(Proc) /\ Len(new) = n - 1 /\ n \in Nat \ {0}
          /\ \A k \in 1..(n - 1) : new[k] = old[k+1]
      BY <1>0, <1>6, HeadTailProperties
    <3>2. ToSet(new) = ToSet(old) \ {Head(old)}
      BY <1>6, TailQueueFacts
    <3>3. DOMAIN new = 1..(n - 1) /\ Head(old) = old[1]
      BY <1>6, <3>1
    <3> QED
      BY <3>1, <3>2, <3>3
  <2>2. i > 1
    <3>1. p # old[1]
      BY <2>1
    <3> QED
      BY <1>0, <1>1, <3>1
  <2>3. CASE r \in ToSet(old)
    <3>1. PICK j \in DOMAIN old : i < j /\ old[j] = r
      BY <1>2, <2>3
    <3>2. /\ i - 1 \in 1..(n - 1) /\ j - 1 \in 1..(n - 1) /\ i - 1 < j - 1
          /\ (i - 1) + 1 = i /\ (j - 1) + 1 = j
      BY <1>0, <2>1, <2>2, <3>1
    <3>3. new[i - 1] = p /\ new[j - 1] = r
      BY <1>1, <2>1, <3>1, <3>2
    <3>4. Ahead(new, p, r)
      BY <2>1, <3>2, <3>3 DEF Ahead
    <3>5. r \in ToSet(new)
      BY <2>1, <3>2, <3>3 DEF ToSet
    <3> QED
      BY <3>4, <3>5
  <2>4. CASE r \notin ToSet(old)
    BY <2>1, <2>4
  <2> QED
    BY <2>3, <2>4
<1>7. ASSUME NEW c \in ToSet(old), new = DequeueSem(old, c), sched'.pstate[c] = "PRFREE"
      PROVE  IF r \in ToSet(new) THEN Ahead(new, p, r)
             ELSE r \notin ToSet(old) \/ sched'.pstate[r] = "PRFREE"
  <2>1. ToSet(new) = ToSet(old) \ {c}
    BY <1>7, DequeueSemFacts
  <2>2. CASE r \in ToSet(new)
    <3>1. r \in ToSet(old) /\ r # c /\ p # c
      BY <2>1, <2>2
    <3>2. PICK j \in DOMAIN old : i < j /\ old[j] = r
      BY <1>2, <3>1
    <3>3. old[i] # c /\ old[j] # c
      BY <1>1, <3>1, <3>2
    <3>4. \E a, b \in DOMAIN new : a < b /\ new[a] = old[i] /\ new[b] = old[j]
      BY <1>7, <3>2, <3>3, DequeueOrder
    <3> QED
      BY <1>1, <2>2, <3>2, <3>4 DEF Ahead
  <2>3. CASE r \notin ToSet(new)
    BY <1>7, <2>1, <2>3
  <2> QED
    BY <2>2, <2>3
<1> QED
  BY <1>4, <1>5, <1>6, <1>7 DEF QueueMoves

(* A process that waits on a semaphore is overtaken by nobody.              *)
THEOREM FirstCome == Spec => SemFifo
<1> DEFINE A(s, p, r) ==
      LET old == semaph[s].queue
          new == semaph'[s].queue
      IN  /\ p \in ToSet(old) \cap ToSet(new)
          /\ r # p /\ ~Ahead(old, r, p)
          => IF r \in ToSet(new) THEN Ahead(new, p, r)
             ELSE r \notin ToSet(old) \/ sched'.pstate[r] = "PRFREE"
<1>1. IInv /\ [Next]_vars => [\A s \in Sem, p, r \in Proc : A(s, p, r)]_vars
  <2> SUFFICES ASSUME IInv, [Next]_vars, NEW s \in Sem, NEW p \in Proc, NEW r \in Proc
               PROVE  A(s, p, r)
    OBVIOUS
  <2>1. PICK old, new : old = semaph[s].queue /\ new = semaph'[s].queue
    OBVIOUS
  <2>2. old \in Seq(Proc) /\ IsInjective(old)
    BY <2>1, AnyStart, SemFacts DEF QueuesMatch
  <2>3. QueueMoves(old, new)
    BY <2>1, StepMoves DEF QueuesMove
  <2>4. ASSUME p \in ToSet(old) \cap ToSet(new), r # p, ~Ahead(old, r, p)
        PROVE  IF r \in ToSet(new) THEN Ahead(new, p, r)
               ELSE r \notin ToSet(old) \/ sched'.pstate[r] = "PRFREE"
    BY <2>2, <2>3, <2>4, FifoQueue
  <2> QED
    BY <2>1, <2>4
<1>2. Spec => []IInv
  BY Invariance, PTL
<1> QED
  BY <1>1, <1>2, PTL DEF Spec, SemFifo

LEMMA InvReceiver == MInv => ReceiverHasMessage
<1> SUFFICES ASSUME MInv, NEW p \in Proc, Top(p).at = "receive",
                    sched.pstate[p] \in {"PRREADY", "PRCURR", "PRSUSP"}
             PROVE  phasmsg[p] # 0
  BY DEF ReceiverHasMessage
<1>1. TopOf(kstack, p).at = "receive"
  BY DEF Top, TopOf
<1> QED
  BY <1>1 DEF MInv

(* Whoever is given the CPU inside receive has a message to take.           *)
THEOREM ReceiverHas == Spec => []ReceiverHasMessage
<1>1. KernelInv => MInv
  BY DEF KernelInv
<1> QED
  BY InvReceiver, <1>1, KernelInvariance, PTL

LEMMA InvSleep == HInv => SleepQueueCurrent
<1> SUFFICES ASSUME HInv, Interruptible
             PROVE  /\ slnempty <=> clockq # <<>>
                    /\ slnempty => sltop = Head(clockq).pid
                    /\ \A i \in DOMAIN clockq : clockq[i].key >= 0
  BY DEF SleepQueueCurrent
<1>1. TopOf(kstack, curr).at # "wakeup"
  BY TopIsTopOf, InUserTop DEF Interruptible, Loops
<1> QED
  BY <1>1 DEF HInv, Current, NonNeg

(* The clock interrupt finds the copies of the sleep queue's head right,    *)
(* and no process overdue, whenever it can strike.                          *)
THEOREM SleepCurrent == Spec => []SleepQueueCurrent
<1>1. KernelInv => HInv
  BY DEF KernelInv
<1> QED
  BY InvSleep, <1>1, KernelInvariance, PTL

LEMMA InvKernelTypes == KernelInv => ClockType /\ MsgType /\ ProcType
<1> SUFFICES ASSUME KernelInv PROVE ClockType /\ MsgType /\ ProcType
  OBVIOUS
<1>1. ClockType
  BY DEF KernelInv, HInv, TInv, ClockType, Entries
<1>2. MsgType
  BY DEF KernelInv, MInv
<1>3. numproc \in (-MaxOverkill)..NPROC
  <2>1. Cardinality(Working(sched, kstack)) \in 0..(NPROC - 1)
    BY WorkingFinite
  <2> QED
    BY <2>1, MaxOverkillAssumption DEF KernelInv, NInv
<1>4. ProcType
  BY <1>3 DEF KernelInv, IInv, PInv, NInv, ProcType
<1> QED
  BY <1>1, <1>2, <1>4

(* Every variable of the kernel has its type: numproc stays within the      *)
(* size of the process table, defclk and clkdiff within their bounds.       *)
THEOREM KernelTypes == Spec => []TypeOK
BY InvKernelTypes, KernelInvariance, Types, PTL DEF TypeOK

USE NPROCAssumption

------------------------------------------------------------------------------
(***************************************************************************)
(* The kernel's invariant, with the history variable beside it.            *)
(***************************************************************************)

DueType == due \in [Proc -> Int] /\ \A p \in Proc : due[p] >= -1

LEMMA NextTFacts ==
  ASSUME DueType, [NextT]_varsT
  PROVE  /\ [Next]_vars
         /\ DueType'
<1>1. CASE Untimed /\ UNCHANGED due
  BY <1>1 DEF Next, DueType
<1>2. ASSUME NEW n \in Delays, SleepCall(n) \/ RecvtimCall(n),
             due' = [due EXCEPT ![curr] = IF defclk = 0 THEN n ELSE Unknown]
      PROVE  [Next]_vars /\ DueType'
  <2>1. n \in 0..MAXINT
    BY DelaysAssumption
  <2>2. n \in Int /\ n >= -1 /\ Unknown \in Int /\ Unknown >= -1
    BY <2>1 DEF Unknown
  <2>3. PICK k : k = IF defclk = 0 THEN n ELSE Unknown
    OBVIOUS
  <2>4. k \in Int /\ k >= -1 /\ due' = [due EXCEPT ![curr] = k]
    BY <1>2, <2>2, <2>3
  <2>5. DueType'
    BY <2>4 DEF DueType
  <2> QED
    BY <1>2, <2>5 DEF Next
<1>3. CASE Tick /\ due' = [p \in Proc |-> IF due[p] = Unknown THEN Unknown
                                          ELSE IF due[p] > 0 THEN due[p] - 1 ELSE 0]
  <2>1. \A p \in Proc : due'[p] \in Int /\ due'[p] >= -1
    BY <1>3 DEF DueType, Unknown
  <2>2. due' = [p \in Proc |-> due'[p]]
    BY <1>3
  <2>3. DueType'
    BY <2>1, <2>2 DEF DueType
  <2> QED
    BY <1>3, <2>3 DEF Next
<1>4. CASE UNCHANGED varsT
  <2>1. UNCHANGED vars /\ UNCHANGED due
    BY <1>4 DEF varsT
  <2> QED
    BY <2>1 DEF DueType
<1> QED
  BY <1>1, <1>2, <1>3, <1>4 DEF NextT

LEMMA KernelStep == KernelInv /\ [Next]_vars => KernelInv'
BY NextInv, CountersInv, CountNext, QueueNext DEF KernelInv

LEMMA KernelStart == Init => KernelInv
BY InitInv, InitMore DEF KernelInv

(* What the steps on the sleep queue do, from the invariant in full. *)
LEMMA SumFirst ==
  ASSUME NEW q \in Seq(Entries(Proc)), q # <<>>
  PROVE  DeltaSum(q)[1] = Head(q).key /\ 1 \in 1..Len(q)
<1>1. Len(q) \in Nat \ {0} /\ 1 \in 1..Len(q) /\ Head(q) = q[1] /\ q[1].key \in Int
  BY QueueFacts
<1>2. PartSum(q, Len(q), DeltaSum(q))
  BY DeltaSumFacts
<1>3. PICK d : d = DeltaSum(q)
  OBVIOUS
<1>4. d[0] = 0 /\ d[1] = d[0] + q[1].key
  BY <1>1, <1>2, <1>3 DEF PartSum
<1> QED
  BY <1>1, <1>3, <1>4

LEMMA SumsAreInt ==
  ASSUME NEW q \in Seq(Entries(Proc)), NEW i \in 1..Len(q)
  PROVE  DeltaSum(q)[i] \in Int
<1>1. PartSum(q, Len(q), DeltaSum(q))
  BY DeltaSumFacts
<1>2. Len(q) \in Nat
  OBVIOUS
<1>3. DeltaSum(q) \in [0..Len(q) -> Int] /\ i \in 0..Len(q)
  BY <1>1, <1>2 DEF PartSum
<1> QED
  BY <1>3

LEMMA CurrAwake ==
  ASSUME IInv, NEW i \in DOMAIN clockq
  PROVE  clockq[i].pid # curr /\ clockq[i].pid \in Proc
<1>1. clockq[i].pid \in Pids(clockq)
  BY DEF Pids
<1>2. Class(sched.pstate[clockq[i].pid]) \in {"PRSLEEP", "PRTRECV"}
      /\ clockq[i].pid \in Proc
  BY <1>1, AnyStart DEF SleepMatch
<1>3. sched.pstate[curr] = "PRCURR"
  BY AnyStart
<1> QED
  BY <1>2, <1>3 DEF Class, Runnable

------------------------------------------------------------------------------
(***************************************************************************)
(* Sleep is a lower bound.                                                 *)
(***************************************************************************)

(* A process that must still sleep is that far down the queue, counting the *)
(* ticks that are held back.                                                *)
FarEnough(q, d, diff) ==
  \A i \in DOMAIN q : d[q[i].pid] > 0 => DeltaSum(q)[i] >= d[q[i].pid] + diff

LowInv == FarEnough(clockq, due, clkdiff)

(* Each entry of the new queue stands for one of the old. *)
LEMMA FarFromOld ==
  ASSUME NEW q \in Seq(Entries(Proc)), NEW r \in Seq(Entries(Proc)), NEW d, NEW diff,
         FarEnough(q, d, diff),
         \A j \in 1..Len(r) : \E i \in 1..Len(q) : /\ r[j].pid = q[i].pid
                                                   /\ DeltaSum(r)[j] = DeltaSum(q)[i]
  PROVE  FarEnough(r, d, diff)
<1>1. DOMAIN q = 1..Len(q) /\ DOMAIN r = 1..Len(r)
  BY QueueFacts
<1> QED
  BY <1>1 DEF FarEnough

LEMMA InQueue ==
  ASSUME IInv, NEW p \in Proc, sched.pstate[p] \in {"PRSLEEP", "PRTRECV"}
  PROVE  p \in Pids(clockq) /\ Distinct(clockq)
<1>1. Class(sched.pstate[p]) \in {"PRSLEEP", "PRTRECV"}
  BY DEF Class, Runnable
<1> QED
  BY <1>1, AnyStart DEF SleepMatch

LEMMA AsideLow ==
  ASSUME KernelInv, LowInv, AsideStep, due' = due
  PROVE  LowInv'
<1>1. /\ clockq \in Seq(Entries(Proc)) /\ clkdiff' = clkdiff /\ IInv
  BY DEF KernelInv, HInv, AsideStep
<1>2. CASE SameQueue
  BY <1>1, <1>2 DEF LowInv, SameQueue
<1>3. ASSUME NEW p \in Proc, sched.pstate[p] \in {"PRSLEEP", "PRTRECV"}, LeaveClockq(p)
      PROVE  LowInv'
  <2>1. clockq' = DequeueD(clockq, p) /\ p \in Pids(clockq) /\ Distinct(clockq)
    BY <1>1, <1>3, InQueue DEF LeaveClockq
  <2>2. /\ clockq' \in Seq(Entries(Proc))
        /\ \A j \in 1..Len(clockq') :
             \E i \in 1..Len(clockq) : /\ clockq'[j].pid = clockq[i].pid
                                       /\ DeltaSum(clockq')[j] = DeltaSum(clockq)[i]
    BY <1>1, <2>1, DeltaDequeue
  <2>3. FarEnough(clockq', due, clkdiff)
    BY <1>1, <2>2, FarFromOld DEF LowInv
  <2> QED
    BY <1>1, <2>3 DEF LowInv
<1> QED
  BY <1>2, <1>3 DEF AsideStep

LEMMA WakeupLow ==
  ASSUME KernelInv, DueType, LowInv, Wakeup, due' = due
  PROVE  LowInv'
<1>1. IInv /\ HInv /\ TInv
  BY DEF KernelInv
<1>2. clockq \in Seq(Entries(Proc)) /\ UNCHANGED <<defclk, clkdiff>> /\ clkdiff \in Int
  BY <1>1, WakeupQueue, DeferAssumption DEF TInv
<1>3. CASE clockq # <<>> /\ Head(clockq).key <= 0 /\ clockq' = Tail(clockq)
  <2>1. /\ clockq' \in Seq(Entries(Proc)) /\ Len(clockq') = Len(clockq) - 1
        /\ Len(clockq) \in Nat \ {0}
        /\ \A j \in 1..(Len(clockq) - 1) :
             /\ clockq'[j] = clockq[j+1]
             /\ DeltaSum(clockq')[j] = DeltaSum(clockq)[j+1] - Head(clockq).key
    BY <1>2, <1>3, DeltaTail
  <2> SUFFICES ASSUME NEW j \in DOMAIN clockq', due[clockq'[j].pid] > 0
               PROVE  DeltaSum(clockq')[j] >= due[clockq'[j].pid] + clkdiff
    BY <1>2 DEF LowInv, FarEnough
  <2>2. j \in 1..(Len(clockq) - 1) /\ j + 1 \in 1..Len(clockq) /\ j + 1 \in DOMAIN clockq
    BY <1>2, <2>1
  <2>3. PICK p, s, t, h : /\ p = clockq'[j].pid /\ s = DeltaSum(clockq)[j+1]
                          /\ t = DeltaSum(clockq')[j] /\ h = Head(clockq).key
    OBVIOUS
  <2>4. s \in Int /\ h \in Int /\ p \in Proc /\ p = clockq[j+1].pid /\ t = s - h /\ h <= 0
    BY <1>2, <1>3, <2>1, <2>2, <2>3, SumsAreInt, QueueFacts
  <2>5. s >= due[p] + clkdiff /\ due[p] \in Int
    BY <2>2, <2>3, <2>4 DEF LowInv, FarEnough, DueType
  <2>6. t >= due[p] + clkdiff
    BY <1>2, <2>4, <2>5
  <2> QED
    BY <2>3, <2>6
<1>4. CASE clockq' = clockq
  BY <1>2, <1>4 DEF LowInv
<1> QED
  BY <1>1, <1>3, <1>4, WakeupQueue

LEMMA RestartLow ==
  ASSUME KernelInv, DueType, LowInv, Restart, due' = due
  PROVE  LowInv'
<1>1. IInv /\ HInv /\ TInv
  BY DEF KernelInv
<1>2. /\ Current(clockq, slnempty, sltop) /\ clockq \in Seq(Entries(Proc))
      /\ clkdiff \in Nat /\ clkdiff' = 0
  BY <1>1, RestartQueue
<1>3. CASE clockq' = MakeUp(clockq, clkdiff)
  <2>1. /\ clockq' \in Seq(Entries(Proc)) /\ Len(clockq') = Len(clockq)
        /\ \A j \in 1..Len(clockq) :
             /\ clockq'[j].pid = clockq[j].pid
             /\ DeltaSum(clockq')[j] = IF DeltaSum(clockq)[j] >= clkdiff
                                       THEN DeltaSum(clockq)[j] - clkdiff ELSE 0
    BY <1>2, <1>3, DeltaMakeUp DEF Current
  <2> SUFFICES ASSUME NEW j \in DOMAIN clockq', due[clockq'[j].pid] > 0
               PROVE  DeltaSum(clockq')[j] >= due[clockq'[j].pid] + 0
    BY <1>2 DEF LowInv, FarEnough
  <2>2. j \in 1..Len(clockq) /\ j \in DOMAIN clockq
    BY <1>2, <2>1
  <2>3. PICK p, s, t : /\ p = clockq'[j].pid /\ s = DeltaSum(clockq)[j]
                       /\ t = DeltaSum(clockq')[j]
    OBVIOUS
  <2>4. s \in Int /\ p \in Proc /\ p = clockq[j].pid
        /\ t = IF s >= clkdiff THEN s - clkdiff ELSE 0
    BY <1>2, <2>1, <2>2, <2>3, SumsAreInt, QueueFacts
  <2>5. s >= due[p] + clkdiff /\ due[p] \in Int /\ due[p] > 0
    BY <2>2, <2>3, <2>4 DEF LowInv, FarEnough, DueType
  <2>6. t >= due[p] + 0
    BY <1>2, <2>4, <2>5
  <2> QED
    BY <2>3, <2>6
<1>4. CASE clockq = <<>> /\ clockq' = clockq
  BY <1>4 DEF LowInv, FarEnough
<1> QED
  BY <1>1, <1>3, <1>4, RestartQueue

LEMMA TimerLow ==
  ASSUME KernelInv, DueType, LowInv, NEW n \in Delays, SleepCall(n) \/ RecvtimCall(n),
         due' = [due EXCEPT ![curr] = IF defclk = 0 THEN n ELSE Unknown]
  PROVE  LowInv'
<1>1. IInv /\ HInv /\ TInv /\ Top(curr).at # "wakeup" /\ curr \in Proc
      /\ UNCHANGED <<defclk, clkdiff>> /\ (SameQueue \/ EnterClockq(n))
      /\ TopOf(kstack, curr) = Top(curr)
  BY TimerSteps, AnyStart, TopIsTopOf DEF KernelInv
<1>2. /\ clockq \in Seq(Entries(Proc)) /\ NonNeg(clockq)
      /\ clkdiff \in Int /\ (defclk = 0 => clkdiff = 0)
  BY <1>1, DeferAssumption DEF HInv, TInv, Current
<1>3. n \in Nat
  <2>1. n \in 0..MAXINT
    BY DelaysAssumption
  <2> QED
    BY <2>1
<1>4. /\ \A p \in Proc \ {curr} : due'[p] = due[p]
      /\ due'[curr] > 0 => due'[curr] = n /\ clkdiff = 0
  BY <1>1, <1>2 DEF DueType, Unknown
<1>5. \A i \in DOMAIN clockq : clockq[i].pid \in Proc \ {curr}
  BY <1>1, CurrAwake
<1>6. CASE SameQueue
  BY <1>1, <1>4, <1>5, <1>6 DEF SameQueue, LowInv, FarEnough
<1>7. CASE EnterClockq(n)
  <2>1. /\ clockq' \in Seq(Entries(Proc))
        /\ \A j \in 1..Len(clockq') :
             \/ clockq'[j].pid = curr /\ DeltaSum(clockq')[j] = n
             \/ \E i \in 1..Len(clockq) : /\ clockq'[j].pid = clockq[i].pid
                                          /\ DeltaSum(clockq')[j] = DeltaSum(clockq)[i]
    BY <1>1, <1>2, <1>3, <1>7, DeltaInsert DEF EnterClockq
  <2> SUFFICES ASSUME NEW j \in DOMAIN clockq', due'[clockq'[j].pid] > 0
               PROVE  DeltaSum(clockq')[j] >= due'[clockq'[j].pid] + clkdiff
    BY <1>1 DEF LowInv, FarEnough
  <2>2. j \in 1..Len(clockq') /\ DOMAIN clockq = 1..Len(clockq)
    BY <1>2, <2>1
  <2>3. CASE clockq'[j].pid = curr /\ DeltaSum(clockq')[j] = n
    BY <1>3, <1>4, <2>3
  <2>4. ASSUME NEW i \in 1..Len(clockq), clockq'[j].pid = clockq[i].pid,
               DeltaSum(clockq')[j] = DeltaSum(clockq)[i]
        PROVE  DeltaSum(clockq')[j] >= due'[clockq'[j].pid] + clkdiff
    BY <1>4, <1>5, <2>2, <2>4 DEF LowInv, FarEnough
  <2> QED
    BY <2>1, <2>2, <2>3, <2>4
<1> QED
  BY <1>1, <1>6, <1>7

LEMMA TickLow ==
  ASSUME KernelInv, DueType, LowInv, Tick,
         due' = [p \in Proc |-> IF due[p] = Unknown THEN Unknown
                                ELSE IF due[p] > 0 THEN due[p] - 1 ELSE 0]
  PROVE  LowInv'
<1>1. IInv /\ HInv /\ TInv /\ Clkint /\ clockq \in Seq(Entries(Proc)) /\ clkdiff \in Int
  BY DeferAssumption DEF KernelInv, Tick, HInv, TInv
<1>2. \A p \in Proc : due[p] \in Int /\ (due'[p] > 0 => due[p] > 0 /\ due'[p] = due[p] - 1)
  BY DEF DueType, Unknown
<1>3. \A i \in DOMAIN clockq : /\ clockq[i].pid \in Proc /\ i \in 1..Len(clockq)
                               /\ DeltaSum(clockq)[i] \in Int
  BY <1>1, QueueFacts, SumsAreInt
<1>4. CASE defclk > 0
  <2>1. clockq' = clockq /\ clkdiff' = clkdiff + 1
    BY <1>1, <1>4 DEF Clkint
  <2> SUFFICES ASSUME NEW i \in DOMAIN clockq, due'[clockq[i].pid] > 0
               PROVE  DeltaSum(clockq)[i] >= due'[clockq[i].pid] + (clkdiff + 1)
    BY <2>1 DEF LowInv, FarEnough
  <2>2. PICK p, s : p = clockq[i].pid /\ s = DeltaSum(clockq)[i]
    OBVIOUS
  <2>3. p \in Proc /\ s \in Int /\ due[p] > 0 /\ due'[p] = due[p] - 1 /\ due[p] \in Int
    BY <1>2, <1>3, <2>2
  <2>4. s >= due[p] + clkdiff
    BY <2>2, <2>3 DEF LowInv, FarEnough
  <2>5. s >= due'[p] + (clkdiff + 1)
    BY <1>1, <2>3, <2>4
  <2> QED
    BY <2>2, <2>5
<1>5. CASE ~(defclk > 0)
  <2>1. /\ clockq' \in Seq(Entries(Proc)) /\ Len(clockq') = Len(clockq)
        /\ \A j \in 1..Len(clockq) :
             /\ clockq'[j].pid = clockq[j].pid
             /\ clockq'[j].key = IF j = 1 THEN clockq[j].key - 1 ELSE clockq[j].key
    BY <1>1, <1>5, TickQueue
  <2>2. clkdiff' = clkdiff
    BY <1>1, <1>5 DEF Clkint
  <2> SUFFICES ASSUME NEW j \in DOMAIN clockq', due'[clockq'[j].pid] > 0
               PROVE  DeltaSum(clockq')[j] >= due'[clockq'[j].pid] + clkdiff
    BY <2>2 DEF LowInv, FarEnough
  <2>3. j \in 1..Len(clockq) /\ j \in DOMAIN clockq /\ clockq # <<>>
    BY <1>1, <2>1
  <2>4. PICK p, s, t : /\ p = clockq'[j].pid /\ s = DeltaSum(clockq)[j]
                       /\ t = DeltaSum(clockq')[j]
    OBVIOUS
  <2>5. t = s - 1
    <3>1. PICK r, q : r = clockq' /\ q = clockq
      OBVIOUS
    <3>2. /\ q \in Seq(Entries(Proc)) /\ r \in Seq(Entries(Proc)) /\ Len(r) = Len(q)
          /\ q # <<>>
          /\ \A k \in 1..Len(q) : r[k].key = IF k = 1 THEN q[k].key - 1 ELSE q[k].key
      BY <1>1, <2>1, <2>3, <3>1
    <3>3. \A k \in 1..Len(q) : DeltaSum(r)[k] = DeltaSum(q)[k] - 1
      BY <3>2, DeltaTick, SMTT(60)
    <3> QED
      BY <2>3, <2>4, <3>1, <3>3
  <2>6. p = clockq[j].pid /\ p \in Proc /\ s \in Int /\ due[p] > 0
        /\ due'[p] = due[p] - 1 /\ due[p] \in Int
    BY <1>2, <1>3, <2>1, <2>3, <2>4
  <2>7. s >= due[p] + clkdiff
    BY <2>3, <2>4, <2>6 DEF LowInv, FarEnough
  <2>8. t >= due'[p] + clkdiff
    BY <1>1, <2>5, <2>6, <2>7
  <2> QED
    BY <2>4, <2>8
<1> QED
  BY <1>4, <1>5

LEMMA LowNext ==
  ASSUME KernelInv, DueType, LowInv, [NextT]_varsT
  PROVE  LowInv'
<1>1. CASE Untimed /\ UNCHANGED due
  <2>1. AsideStep \/ Wakeup \/ Restart
    BY <1>1, UntimedSteps DEF KernelInv, TInv
  <2> QED
    BY <1>1, <2>1, AsideLow, WakeupLow, RestartLow
<1>2. CASE UNCHANGED varsT
  <2>1. UNCHANGED <<clockq, due, clkdiff>>
    BY <1>2 DEF varsT, vars, clkVars
  <2> QED
    BY <2>1 DEF LowInv
<1> QED
  BY <1>1, <1>2, TimerLow, TickLow DEF NextT

(* A process that stays on the sleep queue is not made ready. *)
LEMMA StaysAsleep ==
  ASSUME IInv', NEW p, p \in Pids(clockq')
  PROVE  sched'.pstate[p] # "PRREADY"
<1>1. Class(sched'.pstate[p]) \in {"PRSLEEP", "PRTRECV"}
  BY DEF IInv, CInv, SleepMatch
<1> QED
  BY <1>1 DEF Class, Runnable

LEMMA SamePidsIn ==
  ASSUME NEW q \in Seq(Entries(Proc)), NEW r \in Seq(Entries(Proc)), Len(r) = Len(q),
         \A j \in 1..Len(q) : r[j].pid = q[j].pid, NEW p \in Pids(q)
  PROVE  p \in Pids(r)
<1>1. DOMAIN q = 1..Len(q) /\ DOMAIN r = 1..Len(q)
  BY QueueFacts
<1> QED
  BY <1>1 DEF Pids

(* Only wakeup makes a sleeping process ready, and only the one at the head *)
(* of the queue, when its time has come.                                    *)
LEMMA OnlyWakeupWakes ==
  ASSUME KernelInv, KernelInv', [Next]_vars, NEW p \in Proc,
         sched.pstate[p] = "PRSLEEP", sched'.pstate[p] = "PRREADY"
  PROVE  clockq # <<>> /\ Head(clockq).pid = p /\ Head(clockq).key <= 0
<1>0. /\ IInv /\ GInv /\ HInv /\ TInv /\ IInv' /\ defclk \in 0..MaxDefer
      /\ clockq \in Seq(Entries(Proc)) /\ p \in Pids(clockq) /\ Distinct(clockq)
      /\ SleepMatch(clockq, sched.pstate) /\ Core(sched)
  BY InQueue, AnyStart DEF KernelInv, TInv, HInv
<1>1. p \notin Pids(clockq')
  BY <1>0, StaysAsleep
<1>2. CASE AsideStep
  <2>1. ~SameQueue
    BY <1>0, <1>1 DEF SameQueue
  <2>2. PICK q \in Proc : /\ sched.pstate[q] \in {"PRSLEEP", "PRTRECV"} /\ LeaveClockq(q)
                          /\ sched.pstate[q] = "PRTRECV" \/ sched'.pstate[q] = "PRFREE"
    BY <1>2, <2>1 DEF AsideStep
  <2>3. p # q
    BY <2>2
  <2>4. q \in Pids(clockq) /\ clockq' = DequeueD(clockq, q) /\ IsList(clockq)
    BY <1>0, <2>2, InQueue DEF LeaveClockq, SleepMatch
  <2>5. Pids(clockq') = Pids(clockq) \ {q}
    BY <1>0, <2>4, DequeueDFacts
  <2> QED
    BY <1>0, <1>1, <2>3, <2>5
<1>3. CASE Restart
  <2>1. /\ Current(clockq, slnempty, sltop) /\ clkdiff \in Nat
        /\ clockq' = MakeUp(clockq, clkdiff) \/ clockq' = clockq
    BY <1>0, <1>3, RestartQueue
  <2>2. clockq' = MakeUp(clockq, clkdiff)
    BY <1>0, <1>1, <2>1
  <2>3. /\ clockq' \in Seq(Entries(Proc)) /\ Len(clockq') = Len(clockq)
        /\ \A j \in 1..Len(clockq) : clockq'[j].pid = clockq[j].pid
    BY <1>0, <2>1, <2>2, DeltaMakeUp DEF Current
  <2> QED
    BY <1>0, <1>1, <2>3, SamePidsIn
<1>4. CASE Wakeup
  <2>1. CASE clockq' = clockq
    BY <1>0, <1>1, <2>1
  <2>2. CASE /\ clockq # <<>> /\ Head(clockq).key <= 0 /\ clockq' = Tail(clockq)
    <3>1. IsList(clockq)
      BY <1>0 DEF SleepMatch
    <3>2. Pids(clockq') = Pids(clockq) \ {Head(clockq).pid}
      BY <1>0, <2>2, <3>1, TailListFacts
    <3> QED
      BY <1>0, <1>1, <2>2, <3>2
  <2> QED
    BY <1>0, <1>4, <2>1, <2>2, WakeupQueue
<1>5. ASSUME NEW n \in Delays, SleepCall(n) \/ RecvtimCall(n) PROVE FALSE
  <2>1. curr \in Proc /\ curr # p /\ IsList(clockq)
    <3>1. sched.pstate[curr] = "PRCURR"
      BY <1>0, AnyStart
    <3> QED
      BY <1>0, <3>1, AnyStart DEF SleepMatch
  <2>2. curr \notin Pids(clockq)
    <3>1. ~\E i \in DOMAIN clockq : clockq[i].pid = curr
      BY <1>0, CurrAwake
    <3> QED
      BY <3>1 DEF Pids
  <2>3. SameQueue \/ clockq' = InsertD(clockq, curr, n)
    BY <1>0, <1>5, TimerSteps DEF EnterClockq
  <2>4. CASE clockq' = InsertD(clockq, curr, n)
    <3>1. Pids(clockq') = Pids(clockq) \cup {curr}
      BY <1>0, <2>1, <2>2, <2>4, InsertDFacts
    <3> QED
      BY <1>0, <1>1, <3>1
  <2> QED
    BY <1>0, <1>1, <2>3, <2>4 DEF SameQueue
<1>6. CASE Tick
  <2>1. sched' = sched
    BY <1>6 DEF Tick, Clkint
  <2> QED
    BY <2>1
<1>7. CASE UNCHANGED vars
  <2>1. sched' = sched
    BY <1>7 DEF vars
  <2> QED
    BY <2>1
<1>8. CASE Untimed
  BY <1>0, <1>2, <1>3, <1>4, <1>8, UntimedSteps
<1> QED
  BY <1>5, <1>6, <1>7, <1>8 DEF Next

LEMMA NotEarly ==
  ASSUME KernelInv, DueType, LowInv, NEW p \in Proc,
         clockq # <<>>, Head(clockq).pid = p, Head(clockq).key <= 0
  PROVE  due[p] \in {0, Unknown}
<1>1. clockq \in Seq(Entries(Proc)) /\ clkdiff \in Nat
  BY DeferAssumption DEF KernelInv, HInv, TInv
<1>2. /\ DeltaSum(clockq)[1] = Head(clockq).key /\ 1 \in DOMAIN clockq
      /\ Head(clockq) = clockq[1] /\ Head(clockq).key \in Int
  BY <1>1, SumFirst, QueueFacts
<1>3. due[p] > 0 => Head(clockq).key >= due[p] + clkdiff
  BY <1>2 DEF LowInv, FarEnough
<1>4. PICK k : k = Head(clockq).key
  OBVIOUS
<1>5. due[p] \in Int /\ due[p] >= -1 /\ k \in Int /\ k <= 0
      /\ (due[p] > 0 => k >= due[p] + clkdiff)
  BY <1>2, <1>3, <1>4 DEF DueType
<1> QED
  BY <1>1, <1>5 DEF Unknown

LEMMA TimeStart == InitT => KernelInv /\ DueType /\ LowInv
<1> SUFFICES ASSUME InitT PROVE KernelInv /\ DueType /\ LowInv
  OBVIOUS
<1>1. KernelInv
  BY KernelStart DEF InitT
<1>2. DueType
  BY DEF InitT, DueType
<1>3. LowInv
  BY DEF InitT, Init, ClockInit, LowInv, FarEnough
<1> QED
  BY <1>1, <1>2, <1>3

(* A process that must still sleep is never nearer the head of the queue    *)
(* than that, whatever it and the others call meanwhile.                    *)
THEOREM FarInvariance == SpecT => [](KernelInv /\ DueType /\ LowInv)
<1>1. KernelInv /\ DueType /\ LowInv /\ [NextT]_varsT
        => KernelInv' /\ DueType' /\ LowInv'
  BY NextTFacts, KernelStep, LowNext
<1> QED
  BY <1>1, TimeStart, PTL DEF SpecT

(* `Sleep guarantees a lower bound on delay' (sleep.2).                     *)
THEOREM SleepsLongEnough == SpecT => NoEarlyWakeup
<1>1. /\ KernelInv /\ DueType /\ LowInv
      /\ KernelInv' /\ DueType' /\ LowInv'
      /\ [NextT]_varsT
      => [\A p \in Proc : sched.pstate[p] = "PRSLEEP" /\ sched'.pstate[p] = "PRREADY"
                            => due[p] \in {0, Unknown}]_varsT
  BY NextTFacts, OnlyWakeupWakes, NotEarly
<1> QED
  BY <1>1, FarInvariance, PTL DEF SpecT, NoEarlyWakeup

------------------------------------------------------------------------------
(***************************************************************************)
(* The deltas add up, if nobody waits with a limit of zero ticks.          *)
(***************************************************************************)

Left(s, diff) == IF s >= diff THEN s - diff ELSE 0

Adds(q, d, diff) ==
  \A i \in DOMAIN q : d[q[i].pid] # Unknown => d[q[i].pid] = Left(DeltaSum(q)[i], diff)

(* The process at the head has a tick to wait for, outside wakeup. *)
EqInv ==
  /\ NonNeg(clockq)
  /\ TopOf(kstack, curr).at # "wakeup" /\ clockq # <<>> => Head(clockq).key > 0
  /\ Adds(clockq, due, clkdiff)

LEMMA AddsFromOld ==
  ASSUME NEW q \in Seq(Entries(Proc)), NEW r \in Seq(Entries(Proc)), NEW d, NEW diff,
         Adds(q, d, diff),
         \A j \in 1..Len(r) : \E i \in 1..Len(q) : /\ r[j].pid = q[i].pid
                                                   /\ DeltaSum(r)[j] = DeltaSum(q)[i]
  PROVE  Adds(r, d, diff)
<1>1. DOMAIN q = 1..Len(q) /\ DOMAIN r = 1..Len(r)
  BY QueueFacts
<1> QED
  BY <1>1 DEF Adds

(* With a tick to wait for at the head, nobody expires at once. *)
LEMMA SumsPositive ==
  ASSUME NEW q \in Seq(Entries(Proc)), NonNeg(q), q # <<>>, Head(q).key > 0,
         NEW i \in 1..Len(q)
  PROVE  DeltaSum(q)[i] > 0
<1>1. DeltaSum(q)[1] = Head(q).key /\ 1 \in 1..Len(q) /\ Len(q) \in Nat
  BY SumFirst
<1>2. 1 \in 0..Len(q) /\ i \in 1..Len(q)
  BY <1>1
<1>3. DeltaSum(q)[1] <= DeltaSum(q)[i]
  BY <1>2, DeltaMonotone
<1>4. DeltaSum(q)[1] \in Int /\ DeltaSum(q)[i] \in Int
  BY <1>1, SumsAreInt
<1> QED
  BY <1>1, <1>3, <1>4

LEMMA SumsNonNeg ==
  ASSUME NEW q \in Seq(Entries(Proc)), NonNeg(q), NEW i \in 1..Len(q)
  PROVE  DeltaSum(q)[i] \in Nat
<1>1. 0 \in 0..Len(q) /\ i \in 0..Len(q) /\ Len(q) \in Nat
  OBVIOUS
<1>2. DeltaSum(q)[0] <= DeltaSum(q)[i]
  BY <1>1, DeltaMonotone
<1>3. DeltaSum(q)[0] = 0
  BY DeltaSumFacts DEF PartSum
<1>4. DeltaSum(q)[i] \in Int
  BY SumsAreInt
<1> QED
  BY <1>2, <1>3, <1>4

LEMMA NotWaking ==
  ASSUME IInv', NoWakeup(kstack')
  PROVE  TopOf(kstack', curr').at # "wakeup"
BY CurrNext DEF NoWakeup

LEMMA AsideEq ==
  ASSUME KernelInv, KernelInv', EqInv, AsideStep, due' = due
  PROVE  EqInv'
<1>1. /\ clockq \in Seq(Entries(Proc)) /\ clkdiff' = clkdiff /\ IInv /\ NonNeg(clockq)
      /\ (clockq # <<>> => Head(clockq).key > 0) /\ Adds(clockq, due, clkdiff)
      /\ TopOf(kstack', curr').at # "wakeup"
  BY TopIsTopOf, NotWaking DEF KernelInv, HInv, AsideStep, EqInv
<1>2. CASE SameQueue
  BY <1>1, <1>2 DEF EqInv, SameQueue
<1>3. ASSUME NEW p \in Proc, sched.pstate[p] \in {"PRSLEEP", "PRTRECV"}, LeaveClockq(p)
      PROVE  EqInv'
  <2>1. clockq' = DequeueD(clockq, p) /\ p \in Pids(clockq) /\ Distinct(clockq)
    BY <1>1, <1>3, InQueue DEF LeaveClockq
  <2>2. /\ clockq' \in Seq(Entries(Proc)) /\ NonNeg(clockq')
        /\ \A j \in 1..Len(clockq') :
             \E i \in 1..Len(clockq) : /\ clockq'[j].pid = clockq[i].pid
                                       /\ DeltaSum(clockq')[j] = DeltaSum(clockq)[i]
    BY <1>1, <2>1, DeltaDequeue
  <2>3. Adds(clockq', due, clkdiff)
    BY <1>1, <2>2, AddsFromOld
  <2>4. ASSUME clockq' # <<>> PROVE Head(clockq').key > 0
    <3>1. 1 \in 1..Len(clockq') /\ DeltaSum(clockq')[1] = Head(clockq').key
      BY <2>2, <2>4, SumFirst
    <3>2. PICK i \in 1..Len(clockq) : DeltaSum(clockq')[1] = DeltaSum(clockq)[i]
      BY <2>2, <3>1
    <3>3. clockq # <<>>
      BY <3>2
    <3> QED
      BY <1>1, <3>1, <3>2, <3>3, SumsPositive
  <2> QED
    BY <1>1, <2>2, <2>3, <2>4 DEF EqInv
<1> QED
  BY <1>2, <1>3 DEF AsideStep

LEMMA WakeupEq ==
  ASSUME KernelInv, KernelInv', DueType, EqInv, Wakeup, due' = due
  PROVE  EqInv'
<1>1. IInv /\ HInv /\ TInv /\ IInv'
  BY DEF KernelInv
<1>2. /\ clockq \in Seq(Entries(Proc)) /\ UNCHANGED <<defclk, clkdiff>> /\ NonNeg(clockq)
      /\ Adds(clockq, due, clkdiff)
  BY <1>1, WakeupQueue DEF EqInv
<1>3. CASE /\ clockq # <<>> /\ Head(clockq).key <= 0 /\ clockq' = Tail(clockq)
           /\ TopOf(kstack', curr').at = "wakeup"
  <2>1. /\ clockq' \in Seq(Entries(Proc)) /\ Len(clockq') = Len(clockq) - 1
        /\ Len(clockq) \in Nat \ {0} /\ Head(clockq) = clockq[1]
        /\ \A j \in 1..(Len(clockq) - 1) :
             /\ clockq'[j] = clockq[j+1]
             /\ DeltaSum(clockq')[j] = DeltaSum(clockq)[j+1] - Head(clockq).key
    BY <1>2, <1>3, DeltaTail
  <2>2. Head(clockq).key = 0
    <3>1. Head(clockq).key \in Int /\ Head(clockq).key >= 0
      BY <1>2, <1>3, QueueFacts DEF NonNeg
    <3> QED
      BY <1>3, <3>1
  <2>3. ASSUME NEW j \in 1..Len(clockq')
        PROVE  /\ j + 1 \in 1..Len(clockq) /\ clockq'[j] = clockq[j+1]
               /\ DeltaSum(clockq')[j] = DeltaSum(clockq)[j+1]
    <3>1. j \in 1..(Len(clockq) - 1) /\ j + 1 \in 1..Len(clockq)
      BY <2>1
    <3>2. DeltaSum(clockq)[j+1] \in Int
      BY <1>2, <3>1, SumsAreInt
    <3>3. DeltaSum(clockq')[j] = DeltaSum(clockq)[j+1] - 0
      BY <2>1, <2>2, <3>1
    <3> QED
      BY <2>1, <3>1, <3>2, <3>3
  <2>4. Adds(clockq', due, clkdiff)
    <3>1. \A j \in 1..Len(clockq') :
            \E i \in 1..Len(clockq) : /\ clockq'[j].pid = clockq[i].pid
                                      /\ DeltaSum(clockq')[j] = DeltaSum(clockq)[i]
      BY <2>3
    <3> QED
      BY <1>2, <2>1, <3>1, AddsFromOld
  <2>5. NonNeg(clockq')
    <3>1. \A j \in DOMAIN clockq' : j \in 1..Len(clockq')
      BY <2>1
    <3>2. \A j \in 1..Len(clockq) : j \in DOMAIN clockq
      BY <1>2
    <3> QED
      BY <1>2, <2>3, <3>1, <3>2 DEF NonNeg
  <2> QED
    BY <1>2, <1>3, <2>4, <2>5 DEF EqInv
<1>4. CASE clockq' = clockq /\ NoWakeup(kstack') /\ (clockq # <<>> => Head(clockq).key > 0)
  BY <1>2, <1>4 DEF EqInv
<1> QED
  BY <1>1, <1>3, <1>4, WakeupQueue

LEMMA RestartEq ==
  ASSUME KernelInv, KernelInv', DueType, EqInv, Restart, due' = due
  PROVE  EqInv'
<1>1. IInv /\ HInv /\ TInv /\ IInv'
  BY DEF KernelInv
<1>2. /\ clockq \in Seq(Entries(Proc)) /\ NonNeg(clockq) /\ clkdiff \in Nat /\ clkdiff' = 0
      /\ Adds(clockq, due, clkdiff)
  BY <1>1, RestartQueue DEF EqInv
<1>3. CASE clockq' = MakeUp(clockq, clkdiff) /\ TopOf(kstack', curr').at = "wakeup"
  <2>1. /\ clockq' \in Seq(Entries(Proc)) /\ Len(clockq') = Len(clockq) /\ NonNeg(clockq')
        /\ \A j \in 1..Len(clockq) :
             /\ clockq'[j].pid = clockq[j].pid
             /\ DeltaSum(clockq')[j] = IF DeltaSum(clockq)[j] >= clkdiff
                                       THEN DeltaSum(clockq)[j] - clkdiff ELSE 0
    BY <1>2, <1>3, DeltaMakeUp
  <2>2. Adds(clockq', due, 0)
    <3> SUFFICES ASSUME NEW j \in DOMAIN clockq', due[clockq'[j].pid] # Unknown
                 PROVE  due[clockq'[j].pid] = Left(DeltaSum(clockq')[j], 0)
      BY DEF Adds
    <3>1. j \in 1..Len(clockq) /\ j \in DOMAIN clockq /\ clockq'[j].pid = clockq[j].pid
      BY <1>2, <2>1
    <3>2. DeltaSum(clockq')[j] = Left(DeltaSum(clockq)[j], clkdiff)
      BY <2>1, <3>1 DEF Left
    <3>3. due[clockq'[j].pid] = DeltaSum(clockq')[j]
      BY <1>2, <3>1, <3>2 DEF Adds
    <3>4. DeltaSum(clockq')[j] \in Nat
      BY <2>1, <3>1, SumsNonNeg
    <3> QED
      BY <3>3, <3>4 DEF Left
  <2> QED
    BY <1>2, <1>3, <2>1, <2>2 DEF EqInv
<1>4. CASE clockq = <<>> /\ clockq' = clockq
  BY <1>2, <1>4 DEF EqInv, Adds
<1> QED
  BY <1>1, <1>3, <1>4, RestartQueue

LEMMA TimerEq ==
  ASSUME KernelInv, KernelInv', DueType, EqInv, 0 \notin Delays, NEW n \in Delays,
         SleepCall(n) \/ RecvtimCall(n),
         due' = [due EXCEPT ![curr] = IF defclk = 0 THEN n ELSE Unknown]
  PROVE  EqInv'
<1>1. IInv /\ HInv /\ TInv /\ IInv' /\ Top(curr).at # "wakeup" /\ curr \in Proc
      /\ UNCHANGED <<defclk, clkdiff>> /\ (SameQueue \/ EnterClockq(n))
      /\ TopOf(kstack, curr) = Top(curr) /\ TopOf(kstack', curr').at # "wakeup"
  BY TimerSteps, AnyStart, TopIsTopOf, NotWaking DEF KernelInv
<1>2. /\ clockq \in Seq(Entries(Proc)) /\ NonNeg(clockq) /\ Adds(clockq, due, clkdiff)
      /\ (clockq # <<>> => Head(clockq).key > 0) /\ (defclk = 0 => clkdiff = 0)
  BY <1>1 DEF HInv, TInv, EqInv
<1>3. n \in Nat /\ n > 0
  <2>1. n \in 0..MAXINT
    BY DelaysAssumption
  <2> QED
    BY <2>1
<1>4. /\ \A p \in Proc \ {curr} : due'[p] = due[p]
      /\ due'[curr] # Unknown => due'[curr] = n /\ clkdiff = 0
  BY <1>1, <1>2 DEF DueType
<1>5. \A i \in DOMAIN clockq : clockq[i].pid \in Proc \ {curr}
  BY <1>1, CurrAwake
<1>6. CASE SameQueue
  BY <1>1, <1>2, <1>4, <1>5, <1>6 DEF SameQueue, EqInv, Adds
<1>7. CASE EnterClockq(n)
  <2>1. /\ clockq' \in Seq(Entries(Proc)) /\ clockq' # <<>> /\ NonNeg(clockq')
        /\ \A j \in 1..Len(clockq') :
             \/ clockq'[j].pid = curr /\ DeltaSum(clockq')[j] = n
             \/ \E i \in 1..Len(clockq) : /\ clockq'[j].pid = clockq[i].pid
                                          /\ DeltaSum(clockq')[j] = DeltaSum(clockq)[i]
    BY <1>1, <1>2, <1>3, <1>7, DeltaInsert DEF EnterClockq
  <2>2. Adds(clockq', due', clkdiff)
    <3> SUFFICES ASSUME NEW j \in DOMAIN clockq', due'[clockq'[j].pid] # Unknown
                 PROVE  due'[clockq'[j].pid] = Left(DeltaSum(clockq')[j], clkdiff)
      BY DEF Adds
    <3>1. j \in 1..Len(clockq') /\ DOMAIN clockq = 1..Len(clockq)
      BY <1>2, <2>1
    <3>2. CASE clockq'[j].pid = curr /\ DeltaSum(clockq')[j] = n
      BY <1>3, <1>4, <3>2 DEF Left
    <3>3. ASSUME NEW i \in 1..Len(clockq), clockq'[j].pid = clockq[i].pid,
                 DeltaSum(clockq')[j] = DeltaSum(clockq)[i]
          PROVE  due'[clockq'[j].pid] = Left(DeltaSum(clockq')[j], clkdiff)
      BY <1>2, <1>4, <1>5, <3>1, <3>3 DEF Adds
    <3> QED
      BY <2>1, <3>1, <3>2, <3>3
  <2>3. Head(clockq').key > 0
    <3>1. 1 \in 1..Len(clockq') /\ DeltaSum(clockq')[1] = Head(clockq').key
      BY <2>1, SumFirst
    <3>2. ASSUME NEW i \in 1..Len(clockq) PROVE DeltaSum(clockq)[i] > 0
      <4>1. clockq # <<>>
        BY <3>2
      <4> QED
        BY <1>2, <4>1, SumsPositive
    <3> QED
      BY <1>3, <2>1, <3>1, <3>2
  <2> QED
    BY <1>1, <2>1, <2>2, <2>3 DEF EqInv
<1> QED
  BY <1>1, <1>6, <1>7

(* What a tick does to every sum of deltas. *)
LEMMA TickSums ==
  ASSUME NEW q \in Seq(Entries(Proc)), NEW r \in Seq(Entries(Proc)), Len(r) = Len(q), q # <<>>,
         \A k \in 1..Len(q) : r[k].key = IF k = 1 THEN q[k].key - 1 ELSE q[k].key
  PROVE  \A k \in 1..Len(q) : DeltaSum(r)[k] = DeltaSum(q)[k] - 1
BY DeltaTick

LEMMA TickEq ==
  ASSUME KernelInv, KernelInv', DueType, EqInv, Tick,
         due' = [p \in Proc |-> IF due[p] = Unknown THEN Unknown
                                ELSE IF due[p] > 0 THEN due[p] - 1 ELSE 0]
  PROVE  EqInv'
<1>1. /\ IInv /\ HInv /\ TInv /\ IInv' /\ Clkint /\ clockq \in Seq(Entries(Proc))
      /\ clkdiff \in Nat /\ TopOf(kstack, curr).at # "wakeup"
  BY DeferAssumption, UserTop, TopIsTopOf
     DEF KernelInv, Tick, HInv, TInv, Clkint, Interruptible
<1>2. /\ NonNeg(clockq) /\ Adds(clockq, due, clkdiff)
      /\ (clockq # <<>> => Head(clockq).key > 0) /\ (defclk = 0 => clkdiff = 0)
  BY <1>1 DEF EqInv, TInv
<1>3. \A p \in Proc : /\ due[p] \in Int
                      /\ due'[p] # Unknown =>
                           /\ due[p] # Unknown
                           /\ due'[p] = IF due[p] > 0 THEN due[p] - 1 ELSE 0
  BY DEF DueType, Unknown
<1>4. \A i \in DOMAIN clockq : /\ clockq[i].pid \in Proc /\ i \in 1..Len(clockq)
                               /\ DeltaSum(clockq)[i] \in Int
  BY <1>1, QueueFacts, SumsAreInt
<1>5. CASE defclk > 0
  <2>1. clockq' = clockq /\ clkdiff' = clkdiff + 1 /\ kstack' = kstack /\ sched' = sched
    BY <1>1, <1>5 DEF Clkint
  <2>2. Adds(clockq, due', clkdiff + 1)
    <3> SUFFICES ASSUME NEW i \in DOMAIN clockq, due'[clockq[i].pid] # Unknown
                 PROVE  due'[clockq[i].pid] = Left(DeltaSum(clockq)[i], clkdiff + 1)
      BY DEF Adds
    <3>1. PICK p, s : p = clockq[i].pid /\ s = DeltaSum(clockq)[i]
      OBVIOUS
    <3>2. /\ p \in Proc /\ s \in Int /\ due[p] # Unknown
          /\ due'[p] = IF due[p] > 0 THEN due[p] - 1 ELSE 0
      BY <1>3, <1>4, <3>1
    <3>3. due[p] = IF s >= clkdiff THEN s - clkdiff ELSE 0
      BY <1>2, <3>1, <3>2 DEF Adds, Left
    <3>4. due'[p] = IF s >= clkdiff + 1 THEN s - (clkdiff + 1) ELSE 0
      BY <1>1, <3>2, <3>3
    <3> QED
      BY <3>1, <3>4 DEF Left
  <2>3. NonNeg(clockq') /\ (clockq' # <<>> => Head(clockq').key > 0)
    BY <1>2, <2>1
  <2> QED
    BY <2>1, <2>2, <2>3 DEF EqInv
<1>6. CASE ~(defclk > 0)
  <2>1. /\ clockq' \in Seq(Entries(Proc)) /\ Len(clockq') = Len(clockq)
        /\ \A j \in 1..Len(clockq) :
             /\ clockq'[j].pid = clockq[j].pid
             /\ clockq'[j].key = IF j = 1 THEN clockq[j].key - 1 ELSE clockq[j].key
        /\ \/ TopOf(kstack', curr').at = "wakeup"
           \/ NoWakeup(kstack') /\ (clockq # <<>> => clockq'[1].key > 0)
    BY <1>1, <1>6, TickQueue
  <2>2. clkdiff' = 0 /\ clkdiff = 0
    <3>1. defclk = 0
      BY <1>1, <1>6 DEF TInv
    <3> QED
      BY <1>1, <1>2, <1>6, <3>1 DEF Clkint
  <2>3. DOMAIN clockq = 1..Len(clockq) /\ DOMAIN clockq' = 1..Len(clockq)
    BY <1>1, <2>1
  <2>4. NonNeg(clockq')
    <3> SUFFICES ASSUME NEW j \in DOMAIN clockq' PROVE clockq'[j].key >= 0
      BY DEF NonNeg
    <3>1. clockq # <<>> /\ j \in 1..Len(clockq) /\ clockq[j].key \in Int
          /\ clockq[j].key >= 0 /\ Head(clockq) = clockq[1]
      BY <1>1, <1>2, <2>3, QueueFacts DEF NonNeg
    <3> QED
      BY <1>2, <2>1, <3>1
  <2>5. ASSUME TopOf(kstack', curr').at # "wakeup", clockq' # <<>>
        PROVE  Head(clockq').key > 0
    <3>1. clockq # <<>> /\ Head(clockq') = clockq'[1]
      BY <1>1, <2>1, <2>5
    <3> QED
      BY <2>1, <2>5, <3>1
  <2>6. Adds(clockq', due', 0)
    <3> SUFFICES ASSUME NEW j \in DOMAIN clockq', due'[clockq'[j].pid] # Unknown
                 PROVE  due'[clockq'[j].pid] = Left(DeltaSum(clockq')[j], 0)
      BY DEF Adds
    <3>1. j \in 1..Len(clockq) /\ j \in DOMAIN clockq /\ clockq # <<>>
      BY <1>1, <2>3
    <3>2. PICK p, s, t : /\ p = clockq'[j].pid /\ s = DeltaSum(clockq)[j]
                         /\ t = DeltaSum(clockq')[j]
      OBVIOUS
    <3>3. t = s - 1
      <4>1. PICK r, q : r = clockq' /\ q = clockq
        OBVIOUS
      <4>2. /\ q \in Seq(Entries(Proc)) /\ r \in Seq(Entries(Proc)) /\ Len(r) = Len(q)
            /\ q # <<>>
            /\ \A k \in 1..Len(q) : r[k].key = IF k = 1 THEN q[k].key - 1 ELSE q[k].key
        BY <1>1, <2>1, <3>1, <4>1
      <4>3. \A k \in 1..Len(q) : DeltaSum(r)[k] = DeltaSum(q)[k] - 1
        BY <4>2, TickSums
      <4> QED
        BY <3>1, <3>2, <4>1, <4>3
    <3>4. s > 0 /\ s \in Int
      BY <1>1, <1>2, <1>4, <3>1, <3>2, SumsPositive
    <3>5. p = clockq[j].pid /\ p \in Proc /\ due[p] # Unknown
          /\ due'[p] = IF due[p] > 0 THEN due[p] - 1 ELSE 0
      BY <1>3, <1>4, <2>1, <3>1, <3>2
    <3>6. due[p] = s
      BY <1>2, <2>2, <3>1, <3>2, <3>4, <3>5 DEF Adds, Left
    <3>7. due'[p] = t /\ t >= 0 /\ t \in Int
      BY <3>3, <3>4, <3>5, <3>6
    <3> QED
      BY <3>2, <3>7 DEF Left
  <2> QED
    BY <2>2, <2>4, <2>5, <2>6 DEF EqInv
<1> QED
  BY <1>5, <1>6

LEMMA EqNext ==
  ASSUME KernelInv, KernelInv', DueType, EqInv, 0 \notin Delays, [NextT]_varsT
  PROVE  EqInv'
<1>1. CASE Untimed /\ UNCHANGED due
  <2>1. AsideStep \/ Wakeup \/ Restart
    BY <1>1, UntimedSteps DEF KernelInv, TInv
  <2> QED
    BY <1>1, <2>1, AsideEq, WakeupEq, RestartEq
<1>2. CASE UNCHANGED varsT
  <2>1. UNCHANGED <<clockq, due, clkdiff, sched, kstack>>
    BY <1>2 DEF varsT, vars, clkVars
  <2>2. TopOf(kstack', curr') = TopOf(kstack, curr)
    BY <2>1 DEF curr
  <2> QED
    BY <2>1, <2>2 DEF EqInv
<1> QED
  BY <1>1, <1>2, TimerEq, TickEq DEF NextT

LEMMA EqStart == InitT => EqInv
BY DEF InitT, Init, ClockInit, EqInv, NonNeg, Adds

(* The deltas add up to the time each process still has to sleep.  (With a  *)
(* limit of zero ticks recvtim puts a delta of zero at the head, and the    *)
(* next tick is spent on it alone: those behind it then sleep a tick more.) *)
THEOREM SumsAreDue == ASSUME 0 \notin Delays PROVE SpecT => []DeltasAddUp
<1>1. KernelInv /\ KernelInv' /\ DueType /\ EqInv /\ [NextT]_varsT => EqInv'
  BY EqNext
<1>2. KernelInv /\ EqInv => DeltasAddUp
  <2> SUFFICES ASSUME KernelInv, EqInv, InUser, defclk = 0, NEW i \in DOMAIN clockq,
                      due[clockq[i].pid] # Unknown
               PROVE  DeltaSum(clockq)[i] = due[clockq[i].pid]
    BY DEF DeltasAddUp
  <2>1. /\ clockq \in Seq(Entries(Proc)) /\ clkdiff = 0 /\ NonNeg(clockq)
        /\ i \in 1..Len(clockq)
    BY DEF KernelInv, HInv, TInv, EqInv
  <2>2. DeltaSum(clockq)[i] \in Nat
    BY <2>1, SumsNonNeg
  <2> QED
    BY <2>1, <2>2 DEF EqInv, Adds, Left
<1> QED
  BY <1>1, <1>2, EqStart, FarInvariance, PTL DEF SpecT
=============================================================================
