---------------------------- MODULE MemoryProofs ----------------------------
(***************************************************************************)
(* Proofs about the memory manager, for every heap, every set of sizes     *)
(* that leave room for rounding up, and any order of calls.                *)
(*                                                                         *)
(* The invariant MemInv says of every byte of the heap that it is free or  *)
(* that one caller has it, next to the order of the free list (GoodList).  *)
(* What a call does to the list is stated byte by byte: the list gives up  *)
(* the bytes of a block (Taken) or gets them back (Returned).              *)
(***************************************************************************)
EXTENDS Memory, FiniteSetTheorems, SequenceTheorems, WellFoundedInduction, TLAPS

MBlocks == [addr : Nat, mlen : Nat]

(* Byte x lies in the free block e. *)
In(e, x) == e.addr <= x /\ x < e.addr + e.mlen

(* Byte x is free when L is the free list. *)
InList(L, x) == \E i \in 1..Len(L) : In(L[i], x)

(* e is a block of the heap, and not an empty one. *)
InHeap(e) == e.mlen > 0 /\ HeapStart <= e.addr /\ e.addr + e.mlen <= HeapEnd

(* L is a free list as freemem expects it. *)
GoodList(L) ==
  /\ L \in Seq(MBlocks)
  /\ \A i \in 1..Len(L) : InHeap(L[i])
  /\ \A i, j \in 1..Len(L) : i < j => L[i].addr + L[i].mlen < L[j].addr

(* 16-bit arithmetic on numbers that fit. *)
LEMMA ModSmall ==
  ASSUME NEW a \in Nat, a < 65536
  PROVE  a % 65536 = a
OBVIOUS

(* What rounding up to a multiple of four gives. *)
LEMMA Rounding ==
  ASSUME NEW n \in Nat
  PROVE  \E k \in Nat : (n + 3) \div 4 = k /\ k * 4 >= n /\ k * 4 <= n + 3
<1>1. PICK k : k = (n + 3) \div 4
  OBVIOUS
<1>2. k \in Nat /\ k * 4 <= n + 3 /\ n + 3 < k * 4 + 4
  BY <1>1
<1>. QED
  BY <1>1, <1>2

(* Rounding up a multiple of four. *)
LEMMA RoundingMultiple ==
  ASSUME NEW k \in Nat
  PROVE  (k * 4 + 3) \div 4 = k
OBVIOUS

(* Rounding does not wrap around for sizes that leave room for it. *)
LEMMA RoundmbFacts ==
  ASSUME NEW n \in Nat, 0 < n, n <= 65532
  PROVE  \E k \in Nat : /\ roundmb(n) = k * 4 /\ k * 4 >= n /\ k * 4 <= n + 3
                        /\ k * 4 <= 65532
                        /\ roundmb(n) = ((n + MBLOCK - 1) \div MBLOCK) * MBLOCK
<1>1. PICK k \in Nat : (n + 3) \div 4 = k /\ k * 4 >= n /\ k * 4 <= n + 3
  BY Rounding
<1>2. PICK m \in Nat : m = n + 3 /\ m < 65536
  OBVIOUS
<1>3. n + MBLOCK - 1 = m
  BY <1>2 DEF MBLOCK
<1>4. m % MaxU = m
  BY <1>2, ModSmall DEF MaxU
<1>5. roundmb(n) = (m \div MBLOCK) * MBLOCK
  BY <1>3, <1>4 DEF roundmb
<1>6. (m \div MBLOCK) * MBLOCK = k * 4
  BY <1>1, <1>2 DEF MBLOCK
<1>7. k * 4 <= 65532
  BY <1>1
<1>. QED
  BY <1>1, <1>3, <1>5, <1>6, <1>7

(* What rounding leaves alone: a multiple of the block size.               *)
LEMMA RoundmbMultiple ==
  ASSUME NEW k \in Nat, k * 4 <= 65532
  PROVE  roundmb(k * 4) = k * 4
<1>1. PICK m \in Nat : m = k * 4 + 3 /\ m < 65536
  OBVIOUS
<1>2. k * 4 + MBLOCK - 1 = m
  BY <1>1 DEF MBLOCK
<1>3. m % MaxU = m
  BY <1>1, ModSmall DEF MaxU
<1>4. m \div MBLOCK = k
  BY <1>1, RoundingMultiple DEF MBLOCK
<1>. QED
  BY <1>2, <1>3, <1>4 DEF roundmb, MBLOCK

(* Rounding what was rounded changes nothing. *)
LEMMA RoundmbTwice ==
  ASSUME NEW n \in Nat, 0 < n, n <= 65532
  PROVE  roundmb(roundmb(n)) = roundmb(n)
<1>1. PICK k \in Nat : roundmb(n) = k * 4 /\ k * 4 <= 65532
  BY RoundmbFacts
<1>. QED
  BY <1>1, RoundmbMultiple

(* malloc's own word and the rounding that follows do not wrap around. *)
LEMMA MallocSizeFacts ==
  ASSUME NEW n \in Nat, 0 < n, n <= 65528
  PROVE  MallocSize(n) \in Nat /\ 0 < MallocSize(n) /\ MallocSize(n) <= 65532
<1>1. PICK k \in Nat : roundmb(n) = k * 4 /\ k * 4 >= n /\ k * 4 <= n + 3
  BY RoundmbFacts
<1>2. PICK m \in Nat : m = k * 4 + 2 /\ m <= 65530 /\ m > 0
  BY <1>1
<1>3. MallocSize(n) = m
  <2>1. roundmb(n) + WORD = m
    BY <1>1, <1>2 DEF WORD
  <2>2. m % MaxU = m
    BY <1>2, ModSmall DEF MaxU
  <2>. QED
    BY <2>1, <2>2 DEF MallocSize
<1>. QED
  BY <1>2, <1>3

(* M is A, of length a, followed by B, of length b. *)
Joined(M, A, a, B, b) ==
  /\ Len(M) = a + b
  /\ \A k \in 1..a : M[k] = A[k]
  /\ \A k \in (a + 1)..(a + b) : M[k] = B[k - a]

(* What is one sequence and then another, element by element. *)
LEMMA JoinedIs ==
  ASSUME NEW A, NEW B, NEW a \in Nat, NEW b \in Nat, NEW C, Len(C) = a + b,
         \A i \in 1..(a + b) : C[i] = IF i <= a THEN A[i] ELSE B[i - a]
  PROVE  Joined(C, A, a, B, b)
BY DEF Joined

(* The elements of two sequences put together. *)
LEMMA ConcatFacts ==
  ASSUME NEW S, NEW A \in Seq(S), NEW B \in Seq(S), NEW a \in Nat, NEW b \in Nat,
         Len(A) = a, Len(B) = b, NEW M, M = A \o B
  PROVE  M \in Seq(S) /\ Joined(M, A, a, B, b)
<1>1. /\ A \o B \in Seq(S) /\ Len(A \o B) = Len(A) + Len(B)
      /\ \A i \in 1..(Len(A) + Len(B)) :
           (A \o B)[i] = IF i <= Len(A) THEN A[i] ELSE B[i - Len(A)]
  BY ConcatProperties
<1>2. PICK C : C = A \o B
  OBVIOUS
<1>3. /\ C \in Seq(S) /\ Len(C) = a + b
      /\ \A i \in 1..(a + b) : C[i] = IF i <= a THEN A[i] ELSE B[i - a]
  BY <1>1, <1>2
<1>4. Joined(C, A, a, B, b)
  BY <1>3, JoinedIs
<1>5. M = C
  BY <1>2
<1>. QED
  BY Zenon, <1>3, <1>4, <1>5

(* The elements of a part of a sequence. *)
LEMMA PartFacts ==
  ASSUME NEW S, NEW L \in Seq(S), NEW m \in Nat, NEW n \in Nat, 1 <= m, m <= n + 1, n <= Len(L)
  PROVE  /\ SubSeq(L, m, n) \in Seq(S) /\ Len(SubSeq(L, m, n)) = n + 1 - m
         /\ \A k \in 1..(n + 1 - m) : SubSeq(L, m, n)[k] = L[m + k - 1]
<1>1. \A i \in m..n : L[i] \in S
  OBVIOUS
<1>2. /\ SubSeq(L, m, n) \in Seq(S)
      /\ Len(SubSeq(L, m, n)) = IF m <= n THEN n - m + 1 ELSE 0
      /\ \A i \in 1..(n - m + 1) : SubSeq(L, m, n)[i] = L[m + i - 1]
  BY <1>1, SubSeqProperties
<1>. QED
  BY <1>2

(* M is L without its i-th element. *)
Removed(M, L, i) ==
  /\ Len(M) = Len(L) - 1
  /\ \A k \in 1..(i - 1) : M[k] = L[k]
  /\ \A k \in i..(Len(L) - 1) : M[k] = L[k + 1]

(* An element of the second part of two. *)
LEMMA JoinedAt ==
  ASSUME NEW M, NEW A, NEW B, NEW a \in Nat, NEW b \in Nat, Joined(M, A, a, B, b),
         NEW k \in (a + 1)..(a + b)
  PROVE  M[k] = B[k - a]
BY DEF Joined

(* The elements of a list from which one was removed. *)
LEMMA RemoveAtFacts ==
  ASSUME NEW S, NEW L \in Seq(S), NEW i \in 1..Len(L)
  PROVE  \E M : M = RemoveAt(L, i) /\ M \in Seq(S) /\ Removed(M, L, i)
<1>1. PICK n \in Nat : n = Len(L)
  OBVIOUS
<1>2. PICK A : A = SubSeq(L, 1, i - 1)
  OBVIOUS
<1>3. A \in Seq(S) /\ Len(A) = i - 1 /\ \A k \in 1..(i - 1) : A[k] = L[k]
  BY <1>1, <1>2, PartFacts
<1>4. PICK B : B = SubSeq(L, i + 1, n)
  OBVIOUS
<1>5. B \in Seq(S) /\ Len(B) = n - i /\ \A k \in 1..(n - i) : B[k] = L[i + k]
  BY <1>1, <1>4, PartFacts
<1>6. PICK M : M = A \o B
  OBVIOUS
<1>7. i - 1 \in Nat /\ n - i \in Nat
  BY <1>1
<1>8. PICK a \in Nat, b \in Nat : a = i - 1 /\ b = n - i
  BY <1>7
<1>9. A \in Seq(S) /\ B \in Seq(S) /\ Len(A) = a /\ Len(B) = b
  BY <1>3, <1>5, <1>8
<1>10. M \in Seq(S) /\ Joined(M, A, a, B, b)
  BY <1>6, <1>9, ConcatFacts
<1>11. /\ Len(M) = a + b
       /\ \A j \in 1..a : M[j] = A[j]
  BY <1>10 DEF Joined
<1>12. M = RemoveAt(L, i)
  BY <1>1, <1>2, <1>4, <1>6 DEF RemoveAt
<1>13. ASSUME NEW k \in i..(n - 1)
       PROVE  M[k] = L[k + 1]
  <2>1. k \in (a + 1)..(a + b)
    BY <1>1, <1>8
  <2>2. M[k] = B[k - a]
    BY <1>10, <2>1, JoinedAt
  <2>3. PICK c \in 1..(n - i) : c = k - a
    BY <1>1, <1>8
  <2>4. B[c] = L[i + c]
    BY <1>5
  <2>5. i + c = k + 1
    BY <1>1, <1>8, <2>3
  <2>. QED
    BY Zenon, <2>2, <2>3, <2>4, <2>5
<1>14. \A k \in 1..(i - 1) : M[k] = L[k]
  BY <1>3, <1>8, <1>11
<1>15. Len(M) = n - 1
  BY <1>1, <1>8, <1>11
<1>. QED
  BY <1>1, <1>10, <1>12, <1>13, <1>14, <1>15 DEF Removed

(* L with one element in the place of those between lo and hi. *)
Spliced(L, lo, w, hi) == SubSeq(L, 1, lo) \o <<w>> \o SubSeq(L, hi, Len(L))

(* M is L with w in the place of what lies between lo and hi. *)
Replaced(M, L, lo, w, hi) ==
  /\ Len(M) = lo + 1 + (Len(L) + 1 - hi)
  /\ \A k \in 1..lo : M[k] = L[k]
  /\ M[lo + 1] = w
  /\ \A k \in (lo + 2)..Len(M) : M[k] = L[k - lo - 2 + hi]

(* The elements of a list in which what lies between lo and hi was replaced *)
(* by one element.                                                          *)
LEMMA SplicedFacts ==
  ASSUME NEW S, NEW L \in Seq(S), NEW lo \in 0..Len(L), NEW hi \in 1..(Len(L) + 1), lo < hi,
         NEW w \in S
  PROVE  \E M : M = Spliced(L, lo, w, hi) /\ M \in Seq(S) /\ Replaced(M, L, lo, w, hi)
<1>1. PICK n \in Nat : n = Len(L)
  OBVIOUS
<1>2. PICK A : A = SubSeq(L, 1, lo)
  OBVIOUS
<1>3. A \in Seq(S) /\ Len(A) = lo /\ \A k \in 1..lo : A[k] = L[k]
  BY <1>1, <1>2, PartFacts
<1>4. PICK B : B = SubSeq(L, hi, n)
  OBVIOUS
<1>5. B \in Seq(S) /\ Len(B) = n + 1 - hi /\ \A k \in 1..(n + 1 - hi) : B[k] = L[hi + k - 1]
  BY <1>1, <1>4, PartFacts
<1>6. PICK W : W = <<w>>
  OBVIOUS
<1>7. W \in Seq(S) /\ Len(W) = 1 /\ W[1] = w
  BY <1>6
<1>8. PICK C : C = A \o W
  OBVIOUS
<1>9. lo \in Nat /\ n + 1 - hi \in Nat /\ lo + 1 \in Nat
  BY <1>1
<1>10. PICK c \in Nat, d \in Nat, one \in Nat : c = lo + 1 /\ d = n + 1 - hi /\ one = 1
  BY <1>9
<1>11. A \in Seq(S) /\ W \in Seq(S) /\ Len(A) = lo /\ Len(W) = one
  BY <1>3, <1>7, <1>10
<1>12. C \in Seq(S) /\ Joined(C, A, lo, W, one)
  BY <1>8, <1>9, <1>11, ConcatFacts
<1>13. /\ C \in Seq(S) /\ Len(C) = lo + 1
       /\ \A k \in 1..lo : C[k] = A[k]
       /\ \A k \in (lo + 1)..(lo + 1) : C[k] = W[k - lo]
  BY <1>9, <1>10, <1>12 DEF Joined
<1>14. PICK M : M = C \o B
  OBVIOUS
<1>15. B \in Seq(S) /\ Len(B) = d /\ Len(C) = c
  BY <1>5, <1>13, <1>10
<1>16. M \in Seq(S) /\ Joined(M, C, c, B, d)
  BY <1>14, <1>12, <1>15, ConcatFacts
<1>17. /\ M \in Seq(S) /\ Len(M) = (lo + 1) + (n + 1 - hi)
       /\ \A k \in 1..(lo + 1) : M[k] = C[k]
       /\ \A k \in ((lo + 1) + 1)..((lo + 1) + (n + 1 - hi)) : M[k] = B[k - (lo + 1)]
  BY <1>10, <1>16 DEF Joined
<1>18. M = Spliced(L, lo, w, hi)
  BY <1>1, <1>2, <1>4, <1>6, <1>8, <1>14 DEF Spliced
<1>19. ASSUME NEW k \in 1..lo PROVE M[k] = L[k]
  BY SMTT(60), <1>3, <1>9, <1>13, <1>17
<1>20. M[lo + 1] = w
  <2>1. C[lo + 1] = W[1]
    BY <1>9, <1>13
  <2>. QED
    BY <1>7, <1>9, <1>17, <2>1
<1>21. ASSUME NEW k \in (lo + 2)..Len(M)
       PROVE  M[k] = L[k - lo - 2 + hi]
  <2>1. M[k] = B[k - (lo + 1)]
    BY <1>1, <1>17
  <2>2. k - (lo + 1) \in 1..(n + 1 - hi) /\ hi + (k - (lo + 1)) - 1 = k - lo - 2 + hi
    BY <1>1, <1>17
  <2>. QED
    BY <1>5, <2>1, <2>2
<1>. QED
  BY <1>1, <1>17, <1>18, <1>19, <1>20, <1>21 DEF Replaced

(* The types of a free list's elements. *)
LEMMA GoodTypes ==
  ASSUME NEW L, GoodList(L)
  PROVE  /\ L \in Seq(MBlocks) /\ Len(L) \in Nat
         /\ \A j \in 1..Len(L) : L[j] \in MBlocks /\ L[j].addr \in Nat /\ L[j].mlen \in Nat
<1>1. L \in Seq(MBlocks)
  BY DEF GoodList
<1>2. Len(L) \in Nat /\ \A j \in 1..Len(L) : L[j] \in MBlocks
  BY <1>1
<1>3. \A e \in MBlocks : e.addr \in Nat /\ e.mlen \in Nat
  BY DEF MBlocks
<1>. QED
  BY <1>1, <1>2, <1>3

(* Taking a block out of the free list. *)
LEMMA RemoveGood ==
  ASSUME NEW L, GoodList(L), NEW i \in 1..Len(L)
  PROVE  /\ GoodList(RemoveAt(L, i))
         /\ \A x \in Int : InList(RemoveAt(L, i), x) <=> InList(L, x) /\ ~In(L[i], x)
<1>1. L \in Seq(MBlocks) /\ Len(L) \in Nat
  BY GoodTypes
<1>2. PICK M : /\ M = RemoveAt(L, i) /\ M \in Seq(MBlocks) /\ Len(M) = Len(L) - 1
               /\ \A k \in 1..(i - 1) : M[k] = L[k]
               /\ \A k \in i..(Len(L) - 1) : M[k] = L[k + 1]
  <2>1. PICK M : M = RemoveAt(L, i) /\ M \in Seq(MBlocks) /\ Removed(M, L, i)
    BY <1>1, RemoveAtFacts
  <2>. QED
    BY <2>1 DEF Removed
<1>3. ASSUME NEW k \in 1..Len(M)
      PROVE  \E j \in 1..Len(L) : j # i /\ M[k] = L[j] /\ j = IF k < i THEN k ELSE k + 1
  <2>1. CASE k < i
    BY <1>1, <1>2, <2>1
  <2>2. CASE k >= i
    <3>1. k + 1 \in 1..Len(L) /\ k + 1 # i /\ M[k] = L[k + 1]
      BY <1>1, <1>2, <2>2
    <3>. QED
      BY <3>1, <2>2
  <2>. QED
    BY <2>1, <2>2
<1>4. ASSUME NEW j \in 1..Len(L), j # i
      PROVE  \E k \in 1..Len(M) : M[k] = L[j]
  <2>1. CASE j < i
    <3>1. j \in 1..Len(M) /\ M[j] = L[j]
      BY <1>1, <1>2, <2>1
    <3>. QED
      BY <3>1
  <2>2. CASE j > i
    <3>1. j - 1 \in 1..Len(M) /\ M[j - 1] = L[j - 1 + 1] /\ j - 1 + 1 = j
      BY <1>1, <1>2, <2>2
    <3>. QED
      BY <3>1
  <2>. QED
    BY <1>4, <2>1, <2>2
<1>5. \A k \in 1..Len(M) : InHeap(M[k])
  BY <1>3 DEF GoodList
<1>6. ASSUME NEW k \in 1..Len(M), NEW l \in 1..Len(M), k < l
      PROVE  M[k].addr + M[k].mlen < M[l].addr
  <2>1. PICK j \in 1..Len(L) : M[k] = L[j] /\ j = IF k < i THEN k ELSE k + 1
    BY <1>3
  <2>2. PICK h \in 1..Len(L) : M[l] = L[h] /\ h = IF l < i THEN l ELSE l + 1
    BY <1>3
  <2>3. j < h
    BY <1>2, <1>6, <2>1, <2>2
  <2>. QED
    BY <2>1, <2>2, <2>3 DEF GoodList
<1>7. GoodList(M)
  BY <1>2, <1>5, <1>6 DEF GoodList
<1>8. ASSUME NEW x \in Int
      PROVE  InList(M, x) <=> InList(L, x) /\ ~In(L[i], x)
  <2>1. ASSUME InList(M, x)
        PROVE  InList(L, x) /\ ~In(L[i], x)
    <3>1. PICK k \in 1..Len(M) : In(M[k], x)
      BY <2>1 DEF InList
    <3>2. PICK j \in 1..Len(L) : j # i /\ M[k] = L[j]
      BY <1>3
    <3>3. InList(L, x)
      BY <3>1, <3>2 DEF InList
    <3>4. /\ L[j].addr \in Nat /\ L[j].mlen \in Nat /\ L[i].addr \in Nat /\ L[i].mlen \in Nat
      BY GoodTypes
    <3>5. CASE j < i
      <4>1. L[j].addr + L[j].mlen < L[i].addr
        BY <3>5 DEF GoodList
      <4>. QED
        BY SMTT(60), <3>1, <3>2, <3>3, <3>4, <4>1 DEF In
    <3>6. CASE i < j
      <4>1. L[i].addr + L[i].mlen < L[j].addr
        BY <3>6 DEF GoodList
      <4>. QED
        BY SMTT(60), <3>1, <3>2, <3>3, <3>4, <4>1 DEF In
    <3>. QED
      BY <3>2, <3>5, <3>6
  <2>2. ASSUME InList(L, x), ~In(L[i], x)
        PROVE  InList(M, x)
    <3>1. PICK j \in 1..Len(L) : In(L[j], x) /\ j # i
      BY <2>2 DEF InList
    <3>2. PICK k \in 1..Len(M) : M[k] = L[j]
      BY <1>4, <3>1
    <3>. QED
      BY <3>1, <3>2 DEF InList
  <2>. QED
    BY <2>1, <2>2
<1>. QED
  BY <1>2, <1>7, <1>8

(* Making a free block shorter, at one end or at the other. *)
LEMMA ShrinkGood ==
  ASSUME NEW L, GoodList(L), NEW i \in 1..Len(L), NEW w \in MBlocks, w.mlen > 0,
         L[i].addr <= w.addr, w.addr + w.mlen <= L[i].addr + L[i].mlen
  PROVE  /\ GoodList([L EXCEPT ![i] = w])
         /\ \A x \in Int : InList([L EXCEPT ![i] = w], x)
                             <=> (InList(L, x) /\ ~In(L[i], x)) \/ In(w, x)
<1>1. L \in Seq(MBlocks) /\ Len(L) \in Nat
  BY GoodTypes
<1>2. PICK M : M = [L EXCEPT ![i] = w]
  OBVIOUS
<1>3. /\ M \in Seq(MBlocks) /\ Len(M) = Len(L)
      /\ M[i] = w /\ \A j \in 1..Len(L) : j # i => M[j] = L[j]
  BY <1>1, <1>2
<1>4. \A j \in 1..Len(L) : L[j].addr \in Nat /\ L[j].mlen \in Nat
  BY GoodTypes
<1>5. w.addr \in Nat /\ w.mlen \in Nat
  BY DEF MBlocks
<1>6. InHeap(w)
  <2>1. L[i].mlen > 0 /\ HeapStart <= L[i].addr /\ L[i].addr + L[i].mlen <= HeapEnd
    BY DEF GoodList, InHeap
  <2>2. HeapStart \in Nat /\ HeapEnd \in Nat
    BY MemAssumption DEF HeapEnd
  <2>. QED
    BY SMTT(60), <1>4, <1>5, <2>1, <2>2 DEF InHeap
<1>7. \A k \in 1..Len(M) : InHeap(M[k])
  BY <1>3, <1>6 DEF GoodList
<1>8. ASSUME NEW k \in 1..Len(M), NEW l \in 1..Len(M), k < l
      PROVE  M[k].addr + M[k].mlen < M[l].addr
  <2>1. L[k].addr + L[k].mlen < L[l].addr
    BY <1>3, <1>8 DEF GoodList
  <2>2. CASE k = i
    <3>1. L[k].addr \in Nat /\ L[k].mlen \in Nat /\ L[l].addr \in Nat
      BY <1>3, <1>4
    <3>2. M[k] = w /\ M[l] = L[l]
      BY <1>3, <1>8, <2>2
    <3>. QED
      BY SMTT(60), <1>5, <2>1, <2>2, <3>1, <3>2
  <2>3. CASE l = i
    BY SMTT(60), <1>3, <1>4, <1>5, <1>8, <2>1, <2>3
  <2>4. CASE k # i /\ l # i
    BY <1>3, <2>1, <2>4
  <2>. QED
    BY <2>2, <2>3, <2>4
<1>9. GoodList(M)
  BY <1>3, <1>7, <1>8 DEF GoodList
<1>10. ASSUME NEW x \in Int
       PROVE  InList(M, x) <=> (InList(L, x) /\ ~In(L[i], x)) \/ In(w, x)
  <2>1. ASSUME NEW k \in 1..Len(M), In(M[k], x), k # i
        PROVE  InList(L, x) /\ ~In(L[i], x)
    <3>1. M[k] = L[k] /\ k \in 1..Len(L)
      BY <1>3, <2>1
    <3>2. InList(L, x)
      BY <2>1, <3>1 DEF InList
    <3>3. CASE k < i
      <4>1. L[k].addr + L[k].mlen < L[i].addr
        BY <3>1, <3>3 DEF GoodList
      <4>. QED
        BY SMTT(60), <1>4, <2>1, <3>1, <3>2, <4>1 DEF In
    <3>4. CASE i < k
      <4>1. L[i].addr + L[i].mlen < L[k].addr
        BY <3>1, <3>4 DEF GoodList
      <4>. QED
        BY SMTT(60), <1>4, <2>1, <3>1, <3>2, <4>1 DEF In
    <3>. QED
      BY <1>1, <3>1, <2>1, <3>3, <3>4
  <2>2. ASSUME InList(M, x)
        PROVE  (InList(L, x) /\ ~In(L[i], x)) \/ In(w, x)
    <3>1. PICK k \in 1..Len(M) : In(M[k], x)
      BY <2>2 DEF InList
    <3>. QED
      BY <1>3, <2>1, <3>1
  <2>3. ASSUME InList(L, x), ~In(L[i], x)
        PROVE  InList(M, x)
    <3>1. PICK k \in 1..Len(L) : In(L[k], x) /\ k # i
      BY <2>3 DEF InList
    <3>. QED
      BY <1>3, <3>1 DEF InList
  <2>4. ASSUME In(w, x)
        PROVE  InList(M, x)
    BY <1>3, <2>4 DEF InList
  <2>. QED
    BY <2>2, <2>3, <2>4
<1>. QED
  BY <1>2, <1>9, <1>10

(* Putting a block in the place of those between lo and hi. *)
LEMMA SpliceGood ==
  ASSUME NEW L, GoodList(L), NEW lo \in 0..Len(L), NEW hi \in 1..(Len(L) + 1), lo < hi,
         NEW w \in MBlocks, InHeap(w),
         lo > 0 => L[lo].addr + L[lo].mlen < w.addr,
         hi <= Len(L) => w.addr + w.mlen < L[hi].addr
  PROVE  /\ GoodList(Spliced(L, lo, w, hi))
         /\ \A x \in Int : InList(Spliced(L, lo, w, hi), x)
              <=> \/ In(w, x)
                  \/ \E i \in 1..Len(L) : (i <= lo \/ hi <= i) /\ In(L[i], x)
<1>1. L \in Seq(MBlocks) /\ Len(L) \in Nat
  BY GoodTypes
<1>2. PICK M : /\ M = Spliced(L, lo, w, hi)
               /\ M \in Seq(MBlocks) /\ Len(M) = lo + 1 + (Len(L) + 1 - hi)
               /\ \A k \in 1..lo : M[k] = L[k]
               /\ M[lo + 1] = w
               /\ \A k \in (lo + 2)..Len(M) : M[k] = L[k - lo - 2 + hi]
  <2>1. PICK M : M = Spliced(L, lo, w, hi) /\ M \in Seq(MBlocks) /\ Replaced(M, L, lo, w, hi)
    BY <1>1, SplicedFacts
  <2>. QED
    BY <2>1 DEF Replaced
<1>3. \A j \in 1..Len(L) : L[j].addr \in Nat /\ L[j].mlen \in Nat
  BY GoodTypes
<1>4. w.addr \in Nat /\ w.mlen \in Nat /\ w.mlen > 0
  BY DEF MBlocks, InHeap
<1>5. \A i, j \in 1..Len(L) : i < j => L[i].addr + L[i].mlen < L[j].addr
  BY DEF GoodList
<1>6. ASSUME NEW i \in 1..Len(L), i <= lo
      PROVE  L[i].addr + L[i].mlen < w.addr
  <2>1. CASE i = lo
    BY <2>1
  <2>2. CASE i < lo
    <3>1. lo \in 1..Len(L) /\ lo > 0
      BY <2>2
    <3>2. L[i].addr + L[i].mlen < L[lo].addr
      BY <1>5, <2>2, <3>1
    <3>. QED
      BY SMTT(60), <1>3, <1>4, <3>1, <3>2
  <2>. QED
    BY <1>6, <2>1, <2>2
<1>7. ASSUME NEW i \in 1..Len(L), hi <= i
      PROVE  w.addr + w.mlen < L[i].addr
  <2>1. CASE i = hi
    BY <2>1
  <2>2. CASE hi < i
    <3>1. hi \in 1..Len(L) /\ hi <= Len(L)
      BY <2>2
    <3>2. L[hi].addr + L[hi].mlen < L[i].addr
      BY <1>5, <2>2, <3>1
    <3>. QED
      BY SMTT(60), <1>3, <1>4, <3>1, <3>2
  <2>. QED
    BY <1>7, <2>1, <2>2
<1>8. ASSUME NEW k \in 1..Len(M)
      PROVE  \/ k <= lo /\ k \in 1..Len(L) /\ M[k] = L[k]
             \/ k = lo + 1 /\ M[k] = w
             \/ k > lo + 1 /\ \E j \in 1..Len(L) : j = k - lo - 2 + hi /\ hi <= j /\ M[k] = L[j]
  <2>1. CASE k <= lo
    BY <1>1, <1>2, <2>1
  <2>2. CASE k = lo + 1
    BY <1>2, <2>2
  <2>3. CASE k > lo + 1
    <3>1. PICK j : j = k - lo - 2 + hi
      OBVIOUS
    <3>2. k <= lo + 1 + (Len(L) + 1 - hi)
      BY <1>2
    <3>3. j \in 1..Len(L) /\ hi <= j
      BY <1>1, <2>3, <3>1, <3>2
    <3>4. M[k] = L[j]
      BY <1>1, <1>2, <2>3, <3>1
    <3>. QED
      BY <2>3, <3>1, <3>3, <3>4
  <2>. QED
    BY <1>1, <1>2, <2>1, <2>2, <2>3
<1>9. \A k \in 1..Len(M) : InHeap(M[k])
  BY <1>8 DEF GoodList
<1>10. ASSUME NEW k \in 1..Len(M), NEW l \in 1..Len(M), k < l
       PROVE  M[k].addr + M[k].mlen < M[l].addr
  <2>1. CASE k <= lo
    <3>1. k \in 1..Len(L) /\ M[k] = L[k]
      BY <1>8, <2>1
    <3>2. CASE l <= lo
      <4>1. l \in 1..Len(L) /\ M[l] = L[l]
        BY <1>8, <3>2
      <4>. QED
        BY <1>5, <1>10, <3>1, <4>1
    <3>3. CASE l = lo + 1
      BY <1>6, <1>8, <2>1, <3>1, <3>3
    <3>4. CASE l > lo + 1
      <4>1. PICK j \in 1..Len(L) : hi <= j /\ M[l] = L[j]
        BY <1>8, <3>4
      <4>2. k < j
        BY <2>1, <4>1
      <4>. QED
        BY <1>5, <3>1, <4>1, <4>2
    <3>. QED
      BY <1>2, <3>2, <3>3, <3>4
  <2>2. CASE k = lo + 1
    <3>1. l > lo + 1
      BY <1>10, <2>2
    <3>2. PICK j \in 1..Len(L) : hi <= j /\ M[l] = L[j]
      BY SMTT(60), <1>8, <3>1
    <3>. QED
      BY <1>2, <1>7, <2>2, <3>2
  <2>3. CASE k > lo + 1
    <3>1. l > lo + 1
      BY <1>10, <2>3
    <3>2. ~(l <= lo) /\ l # lo + 1
      BY <3>1
    <3>3. PICK j \in 1..Len(L) : j = l - lo - 2 + hi /\ M[l] = L[j]
      BY <1>8, <3>2
    <3>4. PICK h \in 1..Len(L) : h = k - lo - 2 + hi /\ M[k] = L[h]
      BY <1>8, <2>3
    <3>5. h < j
      BY <1>10, <3>3, <3>4
    <3>. QED
      BY <1>5, <3>3, <3>4, <3>5
  <2>. QED
    BY <1>2, <2>1, <2>2, <2>3
<1>11. GoodList(M)
  BY <1>2, <1>9, <1>10 DEF GoodList
<1>12. ASSUME NEW x \in Int
       PROVE  InList(M, x) <=> \/ In(w, x)
                               \/ \E i \in 1..Len(L) : (i <= lo \/ hi <= i) /\ In(L[i], x)
  <2>1. ASSUME InList(M, x), ~In(w, x)
        PROVE  \E i \in 1..Len(L) : (i <= lo \/ hi <= i) /\ In(L[i], x)
    <3>1. PICK k \in 1..Len(M) : In(M[k], x)
      BY <2>1 DEF InList
    <3>. QED
      BY <1>8, <2>1, <3>1
  <2>2. ASSUME In(w, x)
        PROVE  InList(M, x)
    <3>1. lo + 1 \in 1..Len(M)
      BY <1>1, <1>2
    <3>. QED
      BY <1>2, <2>2, <3>1 DEF InList
  <2>3. ASSUME NEW i \in 1..Len(L), i <= lo, In(L[i], x)
        PROVE  InList(M, x)
    <3>1. i \in 1..Len(M) /\ M[i] = L[i]
      BY <1>1, <1>2, <2>3
    <3>. QED
      BY <2>3, <3>1 DEF InList
  <2>4. ASSUME NEW i \in 1..Len(L), hi <= i, In(L[i], x)
        PROVE  InList(M, x)
    <3>1. PICK k : k = i + lo + 2 - hi
      OBVIOUS
    <3>2. k \in (lo + 2)..Len(M) /\ k - lo - 2 + hi = i /\ k \in 1..Len(M)
      BY <1>1, <1>2, <2>4, <3>1
    <3>3. M[k] = L[i]
      BY <1>2, <3>2
    <3>. QED
      BY <2>4, <3>2, <3>3 DEF InList
  <2>. QED
    BY <2>1, <2>2, <2>3, <2>4
<1>. QED
  BY <1>2, <1>11, <1>12

(* A set of numbers that is not empty has a least one. *)
LEMMA LeastExists ==
  ASSUME NEW S \in SUBSET Nat, S # {}
  PROVE  \E x \in S : \A y \in S : x <= y
<1>1. PICK x \in S : \A y \in S : ~ (<<y, x>> \in OpToRel(<, Nat))
  BY NatLessThanWellFounded, WFMin
<1>2. ASSUME NEW y \in S
      PROVE  x <= y
  <2>1. x \in Nat /\ y \in Nat
    OBVIOUS
  <2>2. ~(y < x)
    BY <1>1, <2>1 DEF OpToRel
  <2>. QED
    BY <2>1, <2>2
<1>. QED
  BY <1>1, <1>2

(* Where freemem finds the place of an address: the free blocks below it   *)
(* are the first ones of the list.                                          *)
LEMMA BeforeSplits ==
  ASSUME NEW L, GoodList(L), NEW a \in Nat
  PROVE  \E k \in 0..Len(L) :
           /\ Cardinality({i \in DOMAIN L : L[i].addr < a}) = k
           /\ \A j \in 1..k : L[j].addr < a
           /\ \A j \in (k + 1)..Len(L) : a <= L[j].addr
<1>1. L \in Seq(MBlocks) /\ Len(L) \in Nat /\ \A j \in 1..Len(L) : L[j].addr \in Nat /\ L[j].mlen \in Nat
  BY GoodTypes
<1>2. PICK n \in Nat : n = Len(L)
  BY <1>1
<1>3. DOMAIN L = 1..n
  BY <1>1, <1>2
<1>4. PICK S : S = {k \in Nat : \A j \in (k + 1)..n : a <= L[j].addr}
  OBVIOUS
<1>5. n \in S /\ S \in SUBSET Nat
  BY <1>2, <1>4
<1>6. PICK k \in S : \A y \in S : k <= y
  BY <1>5, LeastExists
<1>7. k \in 0..n /\ \A j \in (k + 1)..n : a <= L[j].addr
  BY <1>2, <1>4, <1>5, <1>6
<1>8. ASSUME NEW j \in 1..k
      PROVE  L[j].addr < a
  <2>1. k - 1 \notin S /\ k - 1 \in Nat
    BY <1>5, <1>6, <1>7
  <2>2. PICK m \in ((k - 1) + 1)..n : ~(a <= L[m].addr)
    BY <1>4, <2>1
  <2>3. m = k /\ k \in 1..n
    BY <1>7, <2>2
  <2>4. L[k].addr < a
    BY <1>1, <1>2, <2>2, <2>3
  <2>5. CASE j < k
    <3>1. L[j].addr + L[j].mlen < L[k].addr /\ j \in 1..n
      BY <1>2, <2>3, <2>5 DEF GoodList
    <3>. QED
      BY <1>1, <1>2, <2>3, <2>4, <3>1
  <2>. QED
    BY <2>4, <2>5, <1>7
<1>9. {i \in DOMAIN L : L[i].addr < a} = 1..k
  <2>1. \A i \in 1..n : L[i].addr < a <=> i <= k
    BY SMTT(60), <1>1, <1>2, <1>7, <1>8
  <2>. QED
    BY <1>3, <1>7, <2>1
<1>10. Cardinality(1..k) = k
  <2>1. 0 \in Int /\ 1 \in Int /\ k \in Int
    BY <1>7
  <2>2. Cardinality(1..k) = IF 1 > k THEN 0 ELSE k - 1 + 1
    BY <2>1, FS_Interval
  <2>. QED
    BY <1>7, <2>2
<1>. QED
  BY <1>2, <1>7, <1>8, <1>9, <1>10

(* L when n bytes are taken from the low end of its i-th block. *)
LowTaken(L, i, n) == IF L[i].mlen = n THEN RemoveAt(L, i)
                     ELSE [L EXCEPT ![i] = MBlock(L[i].addr + n, L[i].mlen - n)]

(* Taking n bytes from the low end of a block. *)
LEMMA LowGood ==
  ASSUME NEW L, GoodList(L), NEW i \in 1..Len(L), NEW n \in Nat, 0 < n, n <= L[i].mlen
  PROVE  /\ GoodList(LowTaken(L, i, n))
         /\ \A x \in Int : InList(LowTaken(L, i, n), x)
              <=> InList(L, x) /\ ~(L[i].addr <= x /\ x < L[i].addr + n)
<1>1. PICK a \in Nat, m \in Nat : a = L[i].addr /\ m = L[i].mlen /\ m > 0
  <2>1. L[i].mlen > 0
    BY DEF GoodList, InHeap
  <2>. QED
    BY <2>1, GoodTypes
<1>2. \A x : In(L[i], x) => InList(L, x)
  BY DEF InList
<1>3. CASE m = n
  <2>1. /\ GoodList(RemoveAt(L, i))
        /\ \A x \in Int : InList(RemoveAt(L, i), x) <=> InList(L, x) /\ ~In(L[i], x)
    BY RemoveGood
  <2>. QED
    BY <1>1, <1>3, <2>1 DEF In, LowTaken
<1>4. CASE m # n
  <2>1. PICK w : w = MBlock(a + n, m - n)
    OBVIOUS
  <2>2. w \in MBlocks /\ w.mlen > 0 /\ w.addr = a + n /\ w.mlen = m - n
    BY <1>1, <1>4, <2>1 DEF MBlock, MBlocks
  <2>3. L[i].addr <= w.addr /\ w.addr + w.mlen <= L[i].addr + L[i].mlen
    BY <1>1, <2>2
  <2>4. /\ GoodList([L EXCEPT ![i] = w])
        /\ \A x \in Int : InList([L EXCEPT ![i] = w], x)
                             <=> (InList(L, x) /\ ~In(L[i], x)) \/ In(w, x)
    BY <2>2, <2>3, ShrinkGood
  <2>5. ASSUME NEW x \in Int
        PROVE  (InList(L, x) /\ ~In(L[i], x)) \/ In(w, x)
                 <=> InList(L, x) /\ ~(a <= x /\ x < a + n)
    <3>1. In(w, x) <=> a + n <= x /\ x < a + m
      BY SMTT(60), <1>1, <2>2 DEF In
    <3>2. In(L[i], x) <=> a <= x /\ x < a + m
      BY <1>1 DEF In
    <3>. QED
      BY <1>1, <1>2, <3>1, <3>2
  <2>. QED
    BY <1>1, <1>4, <2>1, <2>4, <2>5 DEF LowTaken
<1>. QED
  BY <1>3, <1>4

(* L when n bytes are taken from the high end of its i-th block. *)
HighTaken(L, i, n) == IF L[i].mlen = n THEN RemoveAt(L, i)
                     ELSE [L EXCEPT ![i].mlen = L[i].mlen - n]

(* Taking n bytes from the high end of a block. *)
LEMMA HighGood ==
  ASSUME NEW L, GoodList(L), NEW i \in 1..Len(L), NEW n \in Nat, 0 < n, n <= L[i].mlen
  PROVE  /\ GoodList(HighTaken(L, i, n))
         /\ \A x \in Int : InList(HighTaken(L, i, n), x)
              <=> InList(L, x) /\ ~(L[i].addr + L[i].mlen - n <= x /\ x < L[i].addr + L[i].mlen)
<1>1. PICK a \in Nat, m \in Nat : a = L[i].addr /\ m = L[i].mlen /\ m > 0
  <2>1. L[i].mlen > 0
    BY DEF GoodList, InHeap
  <2>. QED
    BY <2>1, GoodTypes
<1>2. \A x : In(L[i], x) => InList(L, x)
  BY DEF InList
<1>3. CASE m = n
  <2>1. /\ GoodList(RemoveAt(L, i))
        /\ \A x \in Int : InList(RemoveAt(L, i), x) <=> InList(L, x) /\ ~In(L[i], x)
    BY RemoveGood
  <2>2. \A x \in Int : In(L[i], x) <=> (a + m - n <= x /\ x < a + m)
    BY <1>1, <1>3 DEF In
  <2>. QED
    BY <1>1, <1>3, <2>1, <2>2 DEF HighTaken
<1>4. CASE m # n
  <2>1. PICK w : w = MBlock(a, m - n)
    OBVIOUS
  <2>2. w \in MBlocks /\ w.mlen > 0 /\ w.addr = a /\ w.mlen = m - n
    BY <1>1, <1>4, <2>1 DEF MBlock, MBlocks
  <2>3. L[i].addr <= w.addr /\ w.addr + w.mlen <= L[i].addr + L[i].mlen
    BY <1>1, <2>2
  <2>4. /\ GoodList([L EXCEPT ![i] = w])
        /\ \A x \in Int : InList([L EXCEPT ![i] = w], x)
                             <=> (InList(L, x) /\ ~In(L[i], x)) \/ In(w, x)
    BY <2>2, <2>3, ShrinkGood
  <2>5. ASSUME NEW x \in Int
        PROVE  (InList(L, x) /\ ~In(L[i], x)) \/ In(w, x)
                 <=> InList(L, x) /\ ~(a + m - n <= x /\ x < a + m)
    <3>1. In(w, x) <=> a <= x /\ x < a + m - n
      BY <1>1, <2>2 DEF In
    <3>2. In(L[i], x) <=> a <= x /\ x < a + m
      BY <1>1 DEF In
    <3>3. a \in Int /\ m \in Int /\ n \in Int /\ a <= a + m - n /\ a + m - n <= a + m
      BY <1>1
    <3>4. In(w, x) => In(L[i], x) /\ ~(a + m - n <= x /\ x < a + m)
      BY <3>1, <3>2, <3>3
    <3>5. In(L[i], x) /\ ~(a + m - n <= x /\ x < a + m) => In(w, x)
      BY <3>1, <3>2, <3>3
    <3>6. (a + m - n <= x /\ x < a + m) => In(L[i], x)
      BY <3>2, <3>3
    <3>7. In(L[i], x) => InList(L, x)
      BY <1>2
    <3>. QED
      BY Zenon, <3>4, <3>5, <3>6, <3>7
  <2>6. [L EXCEPT ![i].mlen = m - n] = [L EXCEPT ![i] = w]
    <3>1. L[i] \in MBlocks
      BY GoodTypes
    <3>2. \A e \in MBlocks : [e EXCEPT !.mlen = m - n] = MBlock(e.addr, m - n)
      BY DEF MBlocks, MBlock
    <3>3. [L[i] EXCEPT !.mlen = m - n] = w
      BY <1>1, <2>1, <3>1, <3>2
    <3>. QED
      BY <3>3
  <2>. QED
    BY <1>1, <1>4, <2>4, <2>5, <2>6 DEF HighTaken
<1>. QED
  BY <1>3, <1>4

(* The block s..(s+l-1), which has k free blocks below it, is joined with   *)
(* what is free just below it, or is not: w starts where the block starts   *)
(* or where the free block below does, and takes the place of what is after *)
(* the lo-th block.                                                         *)
JoinsLow(L, k, s, lo, w) ==
  \/ lo = k /\ w.addr = s /\ (k > 0 => L[k].addr + L[k].mlen # s)
  \/ k > 0 /\ lo = k - 1 /\ w.addr = L[k].addr /\ L[k].addr + L[k].mlen = s

(* The same for what is free just above its end e. *)
JoinsHigh(L, k, e, hi, w) ==
  \/ hi = k + 1 /\ w.addr + w.mlen = e /\ (k < Len(L) => e # L[k+1].addr)
  \/ k < Len(L) /\ hi = k + 2 /\ w.addr + w.mlen = L[k+1].addr + L[k+1].mlen /\ e = L[k+1].addr

(* Joining a block with its neighbours keeps the free list good, and makes  *)
(* the bytes of the block free.                                             *)
LEMMA JoinGood ==
  ASSUME NEW L, GoodList(L), NEW k \in 0..Len(L), NEW s \in Nat, NEW l \in Nat, l > 0,
         HeapStart <= s, s + l <= HeapEnd,
         \A j \in 1..k : L[j].addr + L[j].mlen <= s,
         \A j \in (k + 1)..Len(L) : s + l <= L[j].addr,
         NEW lo, NEW hi, NEW w \in MBlocks,
         JoinsLow(L, k, s, lo, w), JoinsHigh(L, k, s + l, hi, w)
  PROVE  /\ GoodList(Spliced(L, lo, w, hi))
         /\ \A x \in Int : InList(Spliced(L, lo, w, hi), x)
              <=> InList(L, x) \/ (s <= x /\ x < s + l)
<1>1. /\ L \in Seq(MBlocks) /\ Len(L) \in Nat
      /\ \A j \in 1..Len(L) : L[j].addr \in Nat /\ L[j].mlen \in Nat
  BY GoodTypes
<1>2. PICK n \in Nat : n = Len(L)
  BY <1>1
<1>3. w.addr \in Nat /\ w.mlen \in Nat
  BY DEF MBlocks
<1>4. \A i \in 1..n : L[i].mlen > 0 /\ HeapStart <= L[i].addr /\ L[i].addr + L[i].mlen <= HeapEnd
  BY <1>2 DEF GoodList, InHeap
<1>5. \A i, j \in 1..n : i < j => L[i].addr + L[i].mlen < L[j].addr
  BY <1>2 DEF GoodList
<1>6. HeapStart \in Nat /\ HeapEnd \in Nat
  BY MemAssumption DEF HeapEnd
<1>7. k \in 0..n /\ lo \in 0..n /\ lo <= k
  BY <1>2 DEF JoinsLow
<1>8. hi \in 1..(n + 1) /\ k < hi
  BY <1>2, <1>7 DEF JoinsHigh
<1>9. /\ HeapStart <= w.addr /\ w.addr <= s
      /\ lo > 0 => L[lo].addr + L[lo].mlen < w.addr
  <2>1. CASE lo = k /\ w.addr = s /\ (k > 0 => L[k].addr + L[k].mlen # s)
    <3>1. k > 0 => k \in 1..n /\ L[k].addr + L[k].mlen <= s
      BY <1>2, <1>7
    <3>2. k \in 1..n => L[k].addr \in Nat /\ L[k].mlen \in Nat
      BY <1>1, <1>2
    <3>3. lo > 0 => L[lo].addr + L[lo].mlen < w.addr
      BY SMTT(60), <1>7, <2>1, <3>1, <3>2
    <3>4. HeapStart <= w.addr /\ w.addr <= s
      BY <1>6, <2>1
    <3>. QED
      BY <3>3, <3>4
  <2>2. CASE k > 0 /\ lo = k - 1 /\ w.addr = L[k].addr /\ L[k].addr + L[k].mlen = s
    <3>1. k \in 1..n /\ L[k].addr \in Nat /\ L[k].mlen \in Nat /\ HeapStart <= L[k].addr
      BY <1>1, <1>2, <1>4, <1>7, <2>2
    <3>2. lo > 0 => lo \in 1..n /\ lo < k
      BY <1>7, <2>2
    <3>. QED
      BY <1>5, <2>2, <3>1, <3>2
  <2>. QED
    BY <2>1, <2>2 DEF JoinsLow
<1>10. /\ w.addr + w.mlen <= HeapEnd /\ s + l <= w.addr + w.mlen
       /\ hi <= n => w.addr + w.mlen < L[hi].addr
  <2>1. CASE hi = k + 1 /\ w.addr + w.mlen = s + l /\ (k < Len(L) => s + l # L[k+1].addr)
    <3>1. k < n => k + 1 \in 1..n /\ s + l <= L[k+1].addr
      BY <1>2, <1>7
    <3>2. k + 1 \in 1..n => L[k+1].addr \in Nat
      BY <1>1, <1>2
    <3>. QED
      BY SMTT(60), <1>2, <1>7, <2>1, <3>1, <3>2
  <2>2. CASE k < Len(L) /\ hi = k + 2 /\ w.addr + w.mlen = L[k+1].addr + L[k+1].mlen
             /\ s + l = L[k+1].addr
    <3>1. /\ k + 1 \in 1..n /\ L[k+1].addr \in Nat /\ L[k+1].mlen \in Nat
          /\ L[k+1].addr + L[k+1].mlen <= HeapEnd
      BY <1>1, <1>2, <1>4, <1>7, <2>2
    <3>2. hi <= n => hi \in 1..n /\ k + 1 < hi
      BY <1>7, <1>8, <2>2
    <3>3. s + l <= w.addr + w.mlen
      BY <2>2, <3>1
    <3>. QED
      BY <1>5, <2>2, <3>1, <3>2, <3>3
  <2>. QED
    BY <2>1, <2>2 DEF JoinsHigh
<1>11. InHeap(w)
  <2>1. w.mlen > 0
    BY <1>3, <1>9, <1>10
  <2>. QED
    BY <1>9, <1>10, <2>1 DEF InHeap
<1>12. lo < hi
  BY <1>7, <1>8
<1>13. /\ GoodList(Spliced(L, lo, w, hi))
       /\ \A x \in Int : InList(Spliced(L, lo, w, hi), x)
            <=> \/ In(w, x)
                \/ \E i \in 1..Len(L) : (i <= lo \/ hi <= i) /\ In(L[i], x)
  <2>1. lo \in 0..Len(L) /\ hi \in 1..(Len(L) + 1)
    BY <1>2, <1>7, <1>8
  <2>2. lo > 0 => L[lo].addr + L[lo].mlen < w.addr
    BY <1>9
  <2>3. hi <= Len(L) => w.addr + w.mlen < L[hi].addr
    BY <1>2, <1>10
  <2>. QED
    BY <1>11, <1>12, <2>1, <2>2, <2>3, SpliceGood
<1>14. ASSUME NEW x \in Int
       PROVE  In(w, x) <=> \/ s <= x /\ x < s + l
                           \/ lo < k /\ In(L[k], x)
                           \/ k + 1 < hi /\ In(L[k+1], x)
  <2>1. \/ lo = k /\ w.addr = s
        \/ k \in 1..n /\ lo < k /\ w.addr = L[k].addr /\ L[k].addr + L[k].mlen = s
    BY <1>2, <1>7 DEF JoinsLow
  <2>2. \/ hi = k + 1 /\ w.addr + w.mlen = s + l
        \/ /\ k + 1 \in 1..n /\ k + 1 < hi /\ w.addr + w.mlen = L[k+1].addr + L[k+1].mlen
           /\ s + l = L[k+1].addr
    BY <1>2, <1>7 DEF JoinsHigh
  <2>3. k \in 1..n => L[k].addr \in Nat /\ L[k].mlen \in Nat
    BY <1>1, <1>2
  <2>4. k + 1 \in 1..n => L[k+1].addr \in Nat /\ L[k+1].mlen \in Nat
    BY <1>1, <1>2
  <2>5. CASE lo = k /\ w.addr = s /\ hi = k + 1 /\ w.addr + w.mlen = s + l
    BY <1>3, <1>7, <2>5 DEF In
  <2>6. CASE /\ lo = k /\ w.addr = s /\ k + 1 \in 1..n /\ k + 1 < hi
             /\ w.addr + w.mlen = L[k+1].addr + L[k+1].mlen /\ s + l = L[k+1].addr
    BY SMTT(60), <1>3, <1>7, <2>4, <2>6 DEF In
  <2>7. CASE /\ k \in 1..n /\ lo < k /\ w.addr = L[k].addr /\ L[k].addr + L[k].mlen = s
             /\ hi = k + 1 /\ w.addr + w.mlen = s + l
    BY SMTT(60), <1>3, <1>7, <2>3, <2>7 DEF In
  <2>8. CASE /\ k \in 1..n /\ lo < k /\ w.addr = L[k].addr /\ L[k].addr + L[k].mlen = s
             /\ k + 1 \in 1..n /\ k + 1 < hi
             /\ w.addr + w.mlen = L[k+1].addr + L[k+1].mlen /\ s + l = L[k+1].addr
    <3>1. PICK a \in Nat, m \in Nat : a = L[k].addr /\ m = L[k].mlen
      BY <2>3, <2>8
    <3>2. PICK c \in Nat, d \in Nat : c = L[k+1].addr /\ d = L[k+1].mlen
      BY <2>4, <2>8
    <3>3. In(w, x) <=> a <= x /\ x < c + d
      BY <2>8, <3>1, <3>2 DEF In
    <3>4. In(L[k], x) <=> a <= x /\ x < a + m
      BY <3>1 DEF In
    <3>5. In(L[k+1], x) <=> c <= x /\ x < c + d
      BY <3>2 DEF In
    <3>6. a + m = s /\ c = s + l
      BY <2>8, <3>1, <3>2
    <3>. QED
      BY <2>8, <3>3, <3>4, <3>5, <3>6
  <2>. QED
    BY <2>1, <2>2, <2>5, <2>6, <2>7, <2>8
<1>15. (lo = k \/ lo = k - 1) /\ (hi = k + 1 \/ hi = k + 2)
  BY DEF JoinsLow, JoinsHigh
<1>16. ASSUME NEW x \in Int
       PROVE  (In(w, x) \/ \E i \in 1..Len(L) : (i <= lo \/ hi <= i) /\ In(L[i], x))
                <=> InList(L, x) \/ (s <= x /\ x < s + l)
  <2>1. ASSUME NEW i \in 1..n, In(L[i], x), ~(i <= lo \/ hi <= i)
        PROVE  In(w, x)
    <3>1. (i = k /\ lo < k) \/ (i = k + 1 /\ k + 1 < hi)
      BY <1>7, <1>8, <1>15, <2>1
    <3>. QED
      BY <1>14, <2>1, <3>1
  <2>2. ASSUME In(w, x), ~(s <= x /\ x < s + l)
        PROVE  InList(L, x)
    <3>1. lo < k => k \in 1..Len(L)
      BY <1>2, <1>7
    <3>2. k + 1 < hi => k + 1 \in 1..Len(L)
      BY <1>2, <1>7, <1>8
    <3>. QED
      BY <1>14, <2>2, <3>1, <3>2 DEF InList
  <2>3. s <= x /\ x < s + l => In(w, x)
    BY <1>14
  <2>. QED
    BY <1>2, <2>1, <2>2, <2>3 DEF InList
<1>. QED
  BY <1>13, <1>16

(* Byte x lies in the region b that a caller holds. *)
InBlock(b, x) == b.addr <= x /\ x < b.addr + b.len

(* b is a region of the heap, and what freemem will be called with to give  *)
(* it back stands for exactly this region.                                  *)
BlockSound(b) ==
  /\ b.addr \in Nat /\ b.len \in Nat /\ b.len > 0
  /\ HeapStart <= b.addr /\ b.addr + b.len <= HeapEnd
  /\ FreeArg(b).block = b.addr /\ FreeArg(b).size # 0 /\ roundmb(FreeArg(b).size) = b.len

(* Each byte of the heap is free when L is the free list, or held by one of *)
(* the callers in B.                                                        *)
Partition(L, B) ==
  /\ \A b \in B : \A x \in Int : InBlock(b, x) => ~InList(L, x)
  /\ \A b, c \in B : \A x \in Int : InBlock(b, x) /\ InBlock(c, x) => b = c
  /\ \A x \in Int : HeapStart <= x /\ x < HeapEnd => InList(L, x) \/ \E b \in B : InBlock(b, x)

(* The inductive invariant. *)
MemInv ==
  /\ GoodList(memlist)
  /\ \A b \in blocks : BlockSound(b)
  /\ Partition(memlist, blocks)

(* The region b was taken out of the free list for a request for n bytes. *)
Taken(b, n) ==
  /\ BlockSound(b) /\ b.len = roundmb(n)
  /\ blocks' = blocks \cup {b}
  /\ \A x \in Int : InBlock(b, x) => InList(memlist, x)
  /\ GoodList(memlist')
  /\ \A x \in Int : InList(memlist', x) <=> InList(memlist, x) /\ ~InBlock(b, x)

(* The region b was put back. *)
Returned(b) ==
  /\ b \in blocks /\ blocks' = blocks \ {b}
  /\ GoodList(memlist')
  /\ \A x \in Int : InList(memlist', x) <=> InList(memlist, x) \/ InBlock(b, x)

(* The sizes for which rounding up does not wrap around. *)
SmallSizes == Sizes \subseteq 1..(MaxU - 8)

(* The sizes that freemem and the abstract heap hear of. *)
LEMMA SizeFacts ==
  ASSUME SmallSizes, NEW n \in Sizes
  PROVE  /\ n \in Nat /\ 0 < n /\ n <= 65528
         /\ MallocSize(n) \in Nat /\ 0 < MallocSize(n) /\ MallocSize(n) <= 65532
<1>1. n \in 1..(MaxU - 8)
  BY DEF SmallSizes
<1>2. n \in Nat /\ 0 < n /\ n <= 65528
  <2>1. PICK u \in Nat : u = 65528
    OBVIOUS
  <2>2. MaxU - 8 = u
    BY <2>1 DEF MaxU
  <2>3. n \in 1..u
    BY Zenon, <1>1, <2>2
  <2>4. n \in Nat /\ 0 < n /\ n <= u
    BY <2>3
  <2>. QED
    BY <2>1, <2>4
<1>. QED
  BY <1>2, MallocSizeFacts

(* A free block lies in the heap, below 2^16. *)
LEMMA FreeBlockFacts ==
  ASSUME NEW L, GoodList(L), NEW i \in 1..Len(L)
  PROVE  /\ L[i].addr \in Nat /\ L[i].mlen \in Nat /\ L[i].mlen > 0
         /\ HeapStart <= L[i].addr /\ L[i].addr + L[i].mlen <= HeapEnd
         /\ HeapStart \in Nat /\ HeapEnd \in Nat /\ HeapEnd < 65536
<1>1. InHeap(L[i])
  BY DEF GoodList
<1>2. HeapStart \in Nat /\ HeapEnd \in Nat /\ HeapEnd < 65536
  <2>1. HeapStart \in Nat /\ HeapLen \in Nat /\ HeapStart + HeapLen < MaxU
    BY MemAssumption
  <2>. QED
    BY <2>1 DEF HeapEnd, MaxU
<1>. QED
  BY <1>1, <1>2, GoodTypes DEF InHeap

(* getmem takes a region from the low end of a free block. *)
LEMMA GetmemTakes ==
  ASSUME MemInv, SmallSizes, NEW n \in Sizes, Getmem(n)
  PROVE  \E b : Taken(b, n)
<1>1. GoodList(memlist)
  BY DEF MemInv
<1>2. PICK i \in DOMAIN memlist :
        /\ FirstFit(i, roundmb(n)) /\ TakeLow(i, roundmb(n))
        /\ Give(memlist[i].addr, roundmb(n), memlist[i].addr, "getmem", n)
  BY DEF Getmem
<1>3. i \in 1..Len(memlist)
  BY <1>1, <1>2, GoodTypes
<1>4. PICK l \in Nat : l = roundmb(n) /\ l > 0
  BY SizeFacts, RoundmbFacts
<1>5. PICK L : L = memlist
  OBVIOUS
<1>6. PICK b : b = [addr |-> L[i].addr, len |-> l, ptr |-> L[i].addr, call |-> "getmem", size |-> n]
  OBVIOUS
<1>7. /\ L[i].addr \in Nat /\ L[i].mlen \in Nat
      /\ HeapStart <= L[i].addr /\ L[i].addr + L[i].mlen <= HeapEnd
      /\ HeapStart \in Nat /\ HeapEnd \in Nat
  BY <1>1, <1>3, <1>5, FreeBlockFacts
<1>8. l <= L[i].mlen
  BY <1>2, <1>4, <1>5, <1>7 DEF FirstFit
<1>9. b.addr = L[i].addr /\ b.len = l /\ b.ptr = b.addr /\ b.call = "getmem" /\ b.size = n
  BY <1>6
<1>10. BlockSound(b)
  <2>1. FreeArg(b) = [block |-> b.ptr, size |-> b.size]
    BY <1>9 DEF FreeArg
  <2>2. n # 0
    BY SizeFacts
  <2>. QED
    BY <1>4, <1>7, <1>8, <1>9, <2>1, <2>2 DEF BlockSound
<1>11. blocks' = blocks \cup {b}
  BY <1>2, <1>4, <1>5, <1>6 DEF Give
<1>12. PICK M : M = memlist'
  OBVIOUS
<1>13. M = LowTaken(L, i, l)
  BY <1>2, <1>4, <1>5, <1>12 DEF TakeLow, LowTaken
<1>14. /\ GoodList(M)
       /\ \A x \in Int : InList(M, x)
            <=> InList(L, x) /\ ~(L[i].addr <= x /\ x < L[i].addr + l)
  <2>1. GoodList(L) /\ i \in 1..Len(L)
    BY <1>1, <1>3, <1>5
  <2>. QED
    BY <1>4, <1>8, <1>13, <2>1, LowGood
<1>15. \A x \in Int : InBlock(b, x) <=> L[i].addr <= x /\ x < L[i].addr + l
  BY <1>9 DEF InBlock
<1>16. \A x \in Int : InBlock(b, x) => InList(L, x)
  BY <1>3, <1>5, <1>7, <1>8, <1>15 DEF InList, In
<1>. QED
  BY <1>4, <1>5, <1>9, <1>10, <1>11, <1>12, <1>14, <1>15, <1>16 DEF Taken

(* malloc takes a region for its word and what was asked for. *)
LEMMA MallocTakes ==
  ASSUME MemInv, SmallSizes, NEW n \in Sizes, Malloc(n)
  PROVE  \E b : Taken(b, MallocSize(n))
<1>1. GoodList(memlist)
  BY DEF MemInv
<1>2. PICK i \in DOMAIN memlist :
        /\ FirstFit(i, roundmb(MallocSize(n))) /\ TakeLow(i, roundmb(MallocSize(n)))
        /\ Give(memlist[i].addr, roundmb(MallocSize(n)), memlist[i].addr + WORD, "malloc", n)
  BY DEF Malloc
<1>3. i \in 1..Len(memlist)
  BY <1>1, <1>2, GoodTypes
<1>4. PICK l \in Nat : l = roundmb(MallocSize(n)) /\ l > 0
  <2>1. PICK z \in Nat : z = MallocSize(n) /\ 0 < z /\ z <= 65532
    BY SizeFacts
  <2>. QED
    BY <2>1, RoundmbFacts
<1>5. PICK L : L = memlist
  OBVIOUS
<1>6. PICK b : b = [addr |-> L[i].addr, len |-> l, ptr |-> L[i].addr + WORD, call |-> "malloc", size |-> n]
  OBVIOUS
<1>7. /\ L[i].addr \in Nat /\ L[i].mlen \in Nat
      /\ HeapStart <= L[i].addr /\ L[i].addr + L[i].mlen <= HeapEnd
      /\ HeapStart \in Nat /\ HeapEnd \in Nat
  BY <1>1, <1>3, <1>5, FreeBlockFacts
<1>8. l <= L[i].mlen
  BY <1>2, <1>4, <1>5, <1>7 DEF FirstFit
<1>9. b.addr = L[i].addr /\ b.len = l /\ b.ptr = b.addr + WORD /\ b.call = "malloc" /\ b.size = n
  BY <1>6
<1>10. BlockSound(b)
  <2>1. FreeArg(b) = [block |-> b.ptr - WORD, size |-> MallocSize(b.size)]
    BY <1>9 DEF FreeArg
  <2>2. MallocSize(n) # 0
    BY SizeFacts
  <2>3. b.ptr - WORD = b.addr
    BY <1>7, <1>9 DEF WORD
  <2>. QED
    BY <1>4, <1>7, <1>8, <1>9, <2>1, <2>2, <2>3 DEF BlockSound
<1>11. blocks' = blocks \cup {b}
  BY <1>2, <1>4, <1>5, <1>6 DEF Give
<1>12. PICK M : M = memlist'
  OBVIOUS
<1>13. M = LowTaken(L, i, l)
  BY <1>2, <1>4, <1>5, <1>12 DEF TakeLow, LowTaken
<1>14. /\ GoodList(M)
       /\ \A x \in Int : InList(M, x)
            <=> InList(L, x) /\ ~(L[i].addr <= x /\ x < L[i].addr + l)
  <2>1. GoodList(L) /\ i \in 1..Len(L)
    BY <1>1, <1>3, <1>5
  <2>. QED
    BY <1>4, <1>8, <1>13, <2>1, LowGood
<1>15. \A x \in Int : InBlock(b, x) <=> L[i].addr <= x /\ x < L[i].addr + l
  BY <1>9 DEF InBlock
<1>16. \A x \in Int : InBlock(b, x) => InList(L, x)
  BY <1>3, <1>5, <1>7, <1>8, <1>15 DEF InList, In
<1>. QED
  BY <1>4, <1>5, <1>9, <1>10, <1>11, <1>12, <1>14, <1>15, <1>16 DEF Taken

(* getstk takes a region from the high end of a free block. *)
LEMMA GetstkTakes ==
  ASSUME MemInv, SmallSizes, NEW n \in Sizes, Getstk(n)
  PROVE  \E b : Taken(b, n)
<1>1. GoodList(memlist)
  BY DEF MemInv
<1>2. PICK i \in DOMAIN memlist :
        /\ LastFit(i, roundmb(n)) /\ TakeHigh(i, roundmb(n))
        /\ Give((memlist[i].addr + memlist[i].mlen) - roundmb(n), roundmb(n),
                (memlist[i].addr + memlist[i].mlen) - WORD, "getstk", n)
  BY DEF Getstk
<1>3. i \in 1..Len(memlist)
  BY <1>1, <1>2, GoodTypes
<1>4. PICK l \in Nat : l = roundmb(n) /\ l > 0 /\ roundmb(l) = l
  BY SizeFacts, RoundmbFacts, RoundmbTwice
<1>5. PICK L : L = memlist
  OBVIOUS
<1>6. /\ L[i].addr \in Nat /\ L[i].mlen \in Nat
      /\ HeapStart <= L[i].addr /\ L[i].addr + L[i].mlen <= HeapEnd
      /\ HeapStart \in Nat /\ HeapEnd \in Nat /\ HeapEnd < 65536
  BY <1>1, <1>3, <1>5, FreeBlockFacts
<1>7. l <= L[i].mlen
  BY <1>2, <1>4, <1>5, <1>6 DEF LastFit
<1>8. PICK e \in Nat : e = L[i].addr + L[i].mlen /\ e <= HeapEnd
  BY <1>6
<1>9. PICK b : b = [addr |-> e - l, len |-> l, ptr |-> e - WORD, call |-> "getstk", size |-> n]
  OBVIOUS
<1>10. b.addr = e - l /\ b.len = l /\ b.ptr = e - WORD /\ b.call = "getstk" /\ b.size = n
  BY <1>9
<1>11. BlockSound(b)
  <2>1. FreeArg(b) = [block |-> (b.ptr - roundmb(b.size) + WORD) % MaxU, size |-> roundmb(b.size)]
    BY <1>10 DEF FreeArg
  <2>2. PICK s \in Nat : s = e - l /\ s < 65536 /\ HeapStart <= s /\ s + l <= HeapEnd
    BY <1>6, <1>7, <1>8
  <2>3. b.ptr - roundmb(b.size) + WORD = s
    BY <1>4, <1>10, <2>2 DEF WORD
  <2>4. s % MaxU = s
    BY <2>2, ModSmall DEF MaxU
  <2>5. FreeArg(b).block = s /\ FreeArg(b).size = l
    BY <1>4, <1>10, <2>1, <2>3, <2>4
  <2>. QED
    BY <1>4, <1>10, <2>2, <2>5 DEF BlockSound
<1>12. blocks' = blocks \cup {b}
  <2>1. PICK a, p : /\ a = (memlist[i].addr + memlist[i].mlen) - roundmb(n)
                    /\ p = (memlist[i].addr + memlist[i].mlen) - WORD
    OBVIOUS
  <2>2. Give(a, roundmb(n), p, "getstk", n)
    BY <1>2, <2>1
  <2>3. a = e - l /\ p = e - WORD
    <3>1. memlist[i].addr + memlist[i].mlen = e
      BY <1>5, <1>8
    <3>2. roundmb(n) = l
      BY <1>4
    <3>3. a = e - roundmb(n) /\ p = e - WORD
      BY Zenon, <2>1, <3>1
    <3>. QED
      BY Zenon, <3>2, <3>3
  <2>4. blocks' = blocks \cup {[addr |-> a, len |-> roundmb(n), ptr |-> p, call |-> "getstk", size |-> n]}
    BY <2>2 DEF Give
  <2>. QED
    BY <1>4, <1>9, <2>3, <2>4
<1>13. PICK M : M = memlist'
  OBVIOUS
<1>14. M = HighTaken(L, i, l)
  BY <1>2, <1>4, <1>5, <1>13 DEF HighTaken, TakeHigh
<1>15. /\ GoodList(M)
       /\ \A x \in Int : InList(M, x)
            <=> InList(L, x) /\ ~(L[i].addr + L[i].mlen - l <= x /\ x < L[i].addr + L[i].mlen)
  <2>1. GoodList(L) /\ i \in 1..Len(L)
    BY <1>1, <1>3, <1>5
  <2>. QED
    BY <1>4, <1>7, <1>14, <2>1, HighGood
<1>16. \A x \in Int : InBlock(b, x) <=> L[i].addr + L[i].mlen - l <= x /\ x < L[i].addr + L[i].mlen
  BY <1>4, <1>6, <1>8, <1>10 DEF InBlock
<1>17. \A x \in Int : InBlock(b, x) => InList(L, x)
  <2>1. \A x \in Int : L[i].addr + L[i].mlen - l <= x => L[i].addr <= x
    BY <1>4, <1>6, <1>7
  <2>. QED
    BY <1>3, <1>5, <1>16, <2>1 DEF InList, In
<1>. QED
  BY <1>4, <1>5, <1>10, <1>11, <1>12, <1>13, <1>15, <1>16, <1>17 DEF Taken

(* A region that is held lies between two free blocks, and freemem finds    *)
(* which: the free blocks before it end where it starts or earlier, the     *)
(* others start where it ends or later.                                     *)
LEMMA HeldBetween ==
  ASSUME MemInv, NEW b \in blocks
  PROVE  \E k \in 0..Len(memlist) :
           /\ Before(b.addr) = k
           /\ \A j \in 1..k : memlist[j].addr + memlist[j].mlen <= b.addr
           /\ \A j \in (k + 1)..Len(memlist) : b.addr + b.len <= memlist[j].addr
<1>1. GoodList(memlist) /\ BlockSound(b) /\ \A x \in Int : InBlock(b, x) => ~InList(memlist, x)
  BY DEF MemInv, Partition
<1>2. PICK s \in Nat, l \in Nat : s = b.addr /\ l = b.len /\ l > 0
  BY <1>1 DEF BlockSound
<1>3. PICK k \in 0..Len(memlist) :
        /\ Cardinality({i \in DOMAIN memlist : memlist[i].addr < s}) = k
        /\ \A j \in 1..k : memlist[j].addr < s
        /\ \A j \in (k + 1)..Len(memlist) : s <= memlist[j].addr
  BY <1>1, BeforeSplits
<1>4. /\ Len(memlist) \in Nat
      /\ \A j \in 1..Len(memlist) : memlist[j].addr \in Nat /\ memlist[j].mlen \in Nat
  BY <1>1, GoodTypes
<1>5. Before(b.addr) = k
  BY <1>2, <1>3 DEF Before
<1>6. ASSUME NEW j \in 1..k
      PROVE  memlist[j].addr + memlist[j].mlen <= s
  <2>1. j \in 1..Len(memlist)
    BY <1>3, <1>4
  <2>2. ~In(memlist[j], s)
    <3>1. InBlock(b, s)
      BY <1>2 DEF InBlock
    <3>. QED
      BY <1>1, <2>1, <3>1 DEF InList
  <2>3. memlist[j].addr < s
    BY <1>3
  <2>. QED
    BY <1>4, <2>1, <2>2, <2>3 DEF In
<1>7. ASSUME NEW j \in (k + 1)..Len(memlist)
      PROVE  s + l <= memlist[j].addr
  <2>1. j \in 1..Len(memlist)
    BY <1>3, <1>4
  <2>2. PICK a \in Nat, m \in Nat : a = memlist[j].addr /\ m = memlist[j].mlen /\ m > 0
    BY <1>1, <1>4, <2>1, FreeBlockFacts
  <2>3. s <= a
    BY <1>3, <2>2
  <2>4. InList(memlist, a)
    BY <2>1, <2>2 DEF InList, In
  <2>5. ~InBlock(b, a)
    BY <1>1, <2>4
  <2>. QED
    BY <1>2, <2>2, <2>3, <2>5 DEF InBlock
<1>. QED
  BY <1>2, <1>5, <1>6, <1>7

(* freemem takes back whatever its callers hold. *)
LEMMA HeldAccepted ==
  ASSUME MemInv, NEW b \in blocks
  PROVE  Accepts(FreeArg(b).block, FreeArg(b).size)
<1>1. PICK k \in 0..Len(memlist) :
        /\ Before(b.addr) = k
        /\ \A j \in 1..k : memlist[j].addr + memlist[j].mlen <= b.addr
        /\ \A j \in (k + 1)..Len(memlist) : b.addr + b.len <= memlist[j].addr
  BY HeldBetween
<1>2. GoodList(memlist) /\ BlockSound(b)
  BY DEF MemInv
<1>3. PICK s \in Nat, l \in Nat :
        /\ s = b.addr /\ l = b.len /\ l > 0 /\ HeapStart <= s /\ s + l <= HeapEnd
        /\ FreeArg(b).block = s /\ FreeArg(b).size # 0 /\ roundmb(FreeArg(b).size) = l
  BY <1>2 DEF BlockSound
<1>4. PICK z : z = FreeArg(b).size
  OBVIOUS
<1>5. HeapStart \in Nat /\ HeapEnd \in Nat /\ HeapEnd < 65536
  <2>1. HeapStart \in Nat /\ HeapLen \in Nat /\ HeapStart + HeapLen < MaxU
    BY MemAssumption
  <2>. QED
    BY <2>1 DEF HeapEnd, MaxU
<1>6. Before(s) = k
  BY <1>1, <1>3
<1>7. z # 0 /\ s \in HeapStart..HeapEnd
  BY <1>3, <1>4, <1>5
<1>8. ASSUME k > 0
      PROVE  (memlist[k].addr + memlist[k].mlen) % MaxU <= s
  <2>1. k \in 1..Len(memlist) /\ k \in 1..k
    BY <1>8
  <2>2. memlist[k].addr + memlist[k].mlen <= s
    BY <1>1, <1>3, <2>1
  <2>3. PICK e \in Nat : e = memlist[k].addr + memlist[k].mlen /\ e < 65536
    BY <1>2, <1>5, <2>1, FreeBlockFacts
  <2>4. e % MaxU = e
    BY <2>3, ModSmall DEF MaxU
  <2>. QED
    BY <2>2, <2>3, <2>4
<1>9. ASSUME k < Len(memlist)
      PROVE  (s + roundmb(z)) % MaxU <= memlist[k + 1].addr
  <2>1. k + 1 \in (k + 1)..Len(memlist)
    BY <1>2, <1>9, GoodTypes
  <2>2. s + l <= memlist[k + 1].addr
    BY <1>1, <1>3, <2>1
  <2>3. PICK e \in Nat : e = s + l /\ e < 65536
    BY <1>3, <1>5
  <2>4. e % MaxU = e
    BY <2>3, ModSmall DEF MaxU
  <2>5. s + roundmb(z) = e
    BY <1>3, <1>4, <2>3
  <2>. QED
    BY <2>2, <2>3, <2>4, <2>5
<1>10. Accepts(s, z)
  BY <1>6, <1>7, <1>8, <1>9 DEF Accepts
<1>. QED
  BY <1>3, <1>4, <1>10

(* What freemem does with the list is a splice, at the place that it found. *)
LEMMA FreememSplices ==
  ASSUME NEW block, NEW size, Freemem(block, size), NEW k, Before(block) = k
  PROVE  LET left  == k > 0 /\ (memlist[k].addr + memlist[k].mlen) % MaxU = block
             q     == IF left THEN MBlock(memlist[k].addr, memlist[k].mlen + roundmb(size))
                      ELSE MBlock(block, roundmb(size))
             right == k < Len(memlist) /\ (q.addr + q.mlen) % MaxU = memlist[k+1].addr
             whole == IF right THEN MBlock(q.addr, q.mlen + memlist[k+1].mlen) ELSE q
         IN  memlist' = Spliced(memlist, IF left THEN k - 1 ELSE k, whole,
                                IF right THEN k + 2 ELSE k + 1)
  BY DEF Freemem, Spliced

(* The end of a free block fits in 16 bits. *)
LEMMA FreeEnd ==
  ASSUME NEW L, GoodList(L), NEW k \in 1..Len(L)
  PROVE  \E a \in Nat, m \in Nat : /\ a = L[k].addr /\ m = L[k].mlen
                                  /\ (L[k].addr + L[k].mlen) % MaxU = a + m
<1>1. PICK a \in Nat, m \in Nat : a = L[k].addr /\ m = L[k].mlen /\ a + m < 65536
  BY FreeBlockFacts
<1>2. PICK e \in Nat : e = a + m /\ e < 65536
  BY <1>1
<1>3. e % MaxU = e
  BY <1>2, ModSmall DEF MaxU
<1>4. L[k].addr + L[k].mlen = e
  BY <1>1, <1>2
<1>. QED
  BY <1>1, <1>2, <1>3, <1>4

(* The splice that joins the held region s..(s+l-1) with its neighbours.    *)
LEMMA FreememJoins ==
  ASSUME NEW L, GoodList(L), NEW k \in 0..Len(L), NEW s \in Nat, NEW l \in Nat, l > 0,
         s + l <= HeapEnd,
         NEW left \in BOOLEAN, left <=> k > 0 /\ (L[k].addr + L[k].mlen) % MaxU = s,
         NEW q, q = (IF left THEN MBlock(L[k].addr, L[k].mlen + l) ELSE MBlock(s, l)),
         NEW right \in BOOLEAN, right <=> k < Len(L) /\ (q.addr + q.mlen) % MaxU = L[k+1].addr,
         NEW w, w = (IF right THEN MBlock(q.addr, q.mlen + L[k+1].mlen) ELSE q),
         NEW lo, lo = (IF left THEN k - 1 ELSE k), NEW hi, hi = (IF right THEN k + 2 ELSE k + 1)
  PROVE  w \in MBlocks /\ JoinsLow(L, k, s, lo, w) /\ JoinsHigh(L, k, s + l, hi, w)
<1>1. HeapEnd \in Nat /\ HeapEnd < 65536
  <2>1. HeapStart \in Nat /\ HeapLen \in Nat /\ HeapStart + HeapLen < MaxU
    BY MemAssumption
  <2>. QED
    BY <2>1 DEF HeapEnd, MaxU
<1>2. k > 0 => k \in 1..Len(L)
  OBVIOUS
<1>3. k < Len(L) => k + 1 \in 1..Len(L)
  BY GoodTypes
<1>4. ASSUME k > 0
      PROVE  \E a \in Nat, m \in Nat : /\ a = L[k].addr /\ m = L[k].mlen
                                     /\ (L[k].addr + L[k].mlen) % MaxU = a + m
  BY <1>2, <1>4, FreeEnd
<1>5. PICK e \in Nat : e = s + l
  OBVIOUS
<1>6. (e % 65536) = e
  BY <1>1, <1>5, ModSmall
<1>7. /\ q.addr \in Nat /\ q.mlen \in Nat /\ q = MBlock(q.addr, q.mlen)
      /\ q.addr + q.mlen = e
      /\ JoinsLow(L, k, s, lo, q)
  <2>1. CASE left
    <3>1. k > 0 /\ (L[k].addr + L[k].mlen) % MaxU = s
      BY <2>1
    <3>2. PICK a \in Nat, m \in Nat : /\ a = L[k].addr /\ m = L[k].mlen
                              /\ (L[k].addr + L[k].mlen) % MaxU = a + m
      BY <1>4, <3>1
    <3>3. a + m = s /\ L[k].addr + L[k].mlen = s
      BY <3>1, <3>2
    <3>4. q = MBlock(a, m + l)
      BY <2>1, <3>2
    <3>5. q.addr = a /\ q.mlen = m + l
      BY <3>4 DEF MBlock
    <3>6. lo = k - 1 /\ q.addr = L[k].addr
      BY <2>1, <3>2, <3>5
    <3>7. JoinsLow(L, k, s, lo, q)
      BY <3>1, <3>3, <3>6 DEF JoinsLow
    <3>8. q.addr + q.mlen = e
      <4>1. a + (m + l) = e
        BY <1>5, <3>3
      <4>. QED
        BY Zenon, <3>5, <4>1
    <3>9. a \in Nat /\ m + l \in Nat
      OBVIOUS
    <3>10. q.addr \in Nat /\ q.mlen \in Nat /\ q = MBlock(q.addr, q.mlen)
      BY Zenon, <3>4, <3>5, <3>9
    <3>. QED
      BY Zenon, <3>7, <3>8, <3>10
  <2>2. CASE ~left
    <3>1. q = MBlock(s, l)
      BY <2>2
    <3>2. q.addr = s /\ q.mlen = l
      BY <3>1 DEF MBlock
    <3>3. lo = k
      BY <2>2
    <3>4. k > 0 => L[k].addr + L[k].mlen # s
      <4>1. SUFFICES ASSUME k > 0, L[k].addr + L[k].mlen = s
                     PROVE  FALSE
        OBVIOUS
      <4>2. PICK a \in Nat, m \in Nat : /\ a = L[k].addr /\ m = L[k].mlen
                                /\ (L[k].addr + L[k].mlen) % MaxU = a + m
        BY <1>4, <4>1
      <4>3. (L[k].addr + L[k].mlen) % MaxU = s
        BY <4>1, <4>2
      <4>. QED
        BY <2>2, <4>1, <4>3
    <3>5. JoinsLow(L, k, s, lo, q)
      BY <3>2, <3>3, <3>4 DEF JoinsLow
    <3>. QED
      BY <1>5, <3>1, <3>2, <3>5
  <2>. QED
    BY <2>1, <2>2
<1>8. right <=> k < Len(L) /\ e = L[k+1].addr
  <2>1. q.addr + q.mlen = e
    BY <1>7
  <2>2. (e % MaxU) = e
    BY <1>6 DEF MaxU
  <2>3. ((q.addr + q.mlen) % MaxU) = e
    BY Zenon, <2>1, <2>2
  <2>. QED
    BY Zenon, <2>3
<1>9. /\ w \in MBlocks /\ w.addr = q.addr
      /\ JoinsHigh(L, k, e, hi, w)
  <2>1. CASE right
    <3>1. PICK c \in Nat, d \in Nat : c = L[k+1].addr /\ d = L[k+1].mlen
      <4>1. PICK j \in 1..Len(L) : j = k + 1
        BY <1>3, <1>8, <2>1
      <4>2. L[j].addr \in Nat /\ L[j].mlen \in Nat
        BY FreeBlockFacts
      <4>. QED
        BY <4>1, <4>2
    <3>2. w = MBlock(q.addr, q.mlen + d)
      BY <2>1, <3>1
    <3>3. w.addr = q.addr /\ w.mlen = q.mlen + d /\ w \in MBlocks
      BY SMTT(60), <1>7, <3>1, <3>2 DEF MBlock, MBlocks
    <3>4. e = c /\ hi = k + 2 /\ k < Len(L)
      BY <1>8, <2>1, <3>1
    <3>5. w.addr + w.mlen = c + d
      <4>1. PICK x \in Nat, y \in Nat : x = q.addr /\ y = q.mlen /\ x + y = e
        BY <1>7
      <4>2. w.addr = x /\ w.mlen = y + d
        BY <3>3, <4>1
      <4>3. x + (y + d) = c + d
        BY SMTT(60), <3>1, <3>4, <4>1
      <4>. QED
        BY Zenon, <4>2, <4>3
    <3>. QED
      BY <3>1, <3>3, <3>4, <3>5 DEF JoinsHigh
  <2>2. CASE ~right
    <3>1. w = q /\ hi = k + 1 /\ (k < Len(L) => e # L[k+1].addr)
      BY <1>8, <2>2
    <3>2. q \in MBlocks
      BY <1>7 DEF MBlock, MBlocks
    <3>. QED
      BY <1>7, <3>1, <3>2 DEF JoinsHigh
  <2>. QED
    BY <2>1, <2>2
<1>10. JoinsLow(L, k, s, lo, w)
  BY <1>7, <1>9 DEF JoinsLow
<1>. QED
  BY <1>5, <1>9, <1>10

(* freemem puts a region that was held back into the free list. *)
LEMMA GiveBackReturns ==
  ASSUME MemInv, NEW b \in blocks, GiveBack(b)
  PROVE  Returned(b)
<1>1. PICK k \in 0..Len(memlist) :
        /\ Before(b.addr) = k
        /\ \A j \in 1..k : memlist[j].addr + memlist[j].mlen <= b.addr
        /\ \A j \in (k + 1)..Len(memlist) : b.addr + b.len <= memlist[j].addr
  BY HeldBetween
<1>2. GoodList(memlist) /\ BlockSound(b)
  BY DEF MemInv
<1>3. PICK s \in Nat, l \in Nat :
        /\ s = b.addr /\ l = b.len /\ l > 0 /\ HeapStart <= s /\ s + l <= HeapEnd
        /\ FreeArg(b).block = s /\ roundmb(FreeArg(b).size) = l
  BY <1>2 DEF BlockSound
<1>4. PICK L : L = memlist
  OBVIOUS
<1>5. /\ GoodList(L) /\ k \in 0..Len(L)
      /\ \A j \in 1..k : L[j].addr + L[j].mlen <= s
      /\ \A j \in (k + 1)..Len(L) : s + l <= L[j].addr
  BY <1>1, <1>2, <1>3, <1>4
<1>6. Freemem(s, FreeArg(b).size) /\ blocks' = blocks \ {b}
  BY <1>3 DEF GiveBack
<1>7. Before(s) = k
  BY <1>1, <1>3
<1>8. PICK left \in BOOLEAN : left <=> k > 0 /\ (L[k].addr + L[k].mlen) % MaxU = s
  OBVIOUS
<1>9. PICK q : q = (IF left THEN MBlock(L[k].addr, L[k].mlen + l) ELSE MBlock(s, l))
  OBVIOUS
<1>10. PICK right \in BOOLEAN : right <=> k < Len(L) /\ (q.addr + q.mlen) % MaxU = L[k+1].addr
  OBVIOUS
<1>11. PICK w : w = (IF right THEN MBlock(q.addr, q.mlen + L[k+1].mlen) ELSE q)
  OBVIOUS
<1>12. PICK lo, hi : lo = (IF left THEN k - 1 ELSE k) /\ hi = (IF right THEN k + 2 ELSE k + 1)
  OBVIOUS
<1>13. memlist' = Spliced(L, lo, w, hi)
  <2>1. PICK n : n = FreeArg(b).size
    OBVIOUS
  <2>2. Freemem(s, n)
    BY <1>6, <2>1
  <2>3. LET lf == k > 0 /\ (memlist[k].addr + memlist[k].mlen) % MaxU = s
            qq == IF lf THEN MBlock(memlist[k].addr, memlist[k].mlen + roundmb(n))
                  ELSE MBlock(s, roundmb(n))
            rt == k < Len(memlist) /\ (qq.addr + qq.mlen) % MaxU = memlist[k+1].addr
            wh == IF rt THEN MBlock(qq.addr, qq.mlen + memlist[k+1].mlen) ELSE qq
        IN  memlist' = Spliced(memlist, IF lf THEN k - 1 ELSE k, wh,
                               IF rt THEN k + 2 ELSE k + 1)
    BY <1>7, <2>2, FreememSplices
  <2>4. roundmb(n) = l
    BY <1>3, <2>1
  <2>. QED
    BY <1>4, <1>8, <1>9, <1>10, <1>11, <1>12, <2>3, <2>4
<1>14. w \in MBlocks /\ JoinsLow(L, k, s, lo, w) /\ JoinsHigh(L, k, s + l, hi, w)
  BY ZenonT(60), <1>3, <1>5, <1>8, <1>9, <1>10, <1>11, <1>12, FreememJoins
<1>15. PICK M : M = Spliced(L, lo, w, hi)
  OBVIOUS
<1>16. /\ GoodList(M)
       /\ \A x \in Int : InList(M, x) <=> InList(L, x) \/ (s <= x /\ x < s + l)
  BY <1>3, <1>5, <1>14, <1>15, JoinGood
<1>17. \A x \in Int : InBlock(b, x) <=> s <= x /\ x < s + l
  BY <1>3 DEF InBlock
<1>. QED
  BY <1>4, <1>6, <1>13, <1>15, <1>16, <1>17 DEF Returned

(* What is taken from the free list is held, and by one caller only. *)
LEMMA TakenPartition ==
  ASSUME MemInv, NEW b, NEW n, Taken(b, n)
  PROVE  MemInv'
<1>1. PICK L, M, B : L = memlist /\ M = memlist' /\ B = blocks
  OBVIOUS
<1>2. /\ BlockSound(b) /\ blocks' = B \cup {b} /\ GoodList(M)
      /\ \A x \in Int : InBlock(b, x) => InList(L, x)
      /\ \A x \in Int : InList(M, x) <=> InList(L, x) /\ ~InBlock(b, x)
  BY <1>1 DEF Taken
<1>3. /\ \A c \in B : BlockSound(c)
      /\ \A c \in B : \A x \in Int : InBlock(c, x) => ~InList(L, x)
      /\ \A c, d \in B : \A x \in Int : InBlock(c, x) /\ InBlock(d, x) => c = d
      /\ \A x \in Int : HeapStart <= x /\ x < HeapEnd => InList(L, x) \/ \E c \in B : InBlock(c, x)
  BY <1>1 DEF MemInv, Partition
<1>4. \A c \in B \cup {b} : BlockSound(c)
  BY <1>2, <1>3
<1>5. Partition(M, B \cup {b})
  <2>1. \A c \in B \cup {b} : \A x \in Int : InBlock(c, x) => ~InList(M, x)
    BY <1>2, <1>3
  <2>2. \A c, d \in B \cup {b} : \A x \in Int : InBlock(c, x) /\ InBlock(d, x) => c = d
    BY <1>2, <1>3
  <2>3. \A x \in Int : HeapStart <= x /\ x < HeapEnd
          => InList(M, x) \/ \E c \in B \cup {b} : InBlock(c, x)
    BY <1>2, <1>3
  <2>. QED
    BY <2>1, <2>2, <2>3 DEF Partition
<1>. QED
  BY <1>1, <1>2, <1>4, <1>5 DEF MemInv

(* What is given back is free again. *)
LEMMA ReturnedPartition ==
  ASSUME MemInv, NEW b, Returned(b)
  PROVE  MemInv'
<1>1. PICK L, M, B : L = memlist /\ M = memlist' /\ B = blocks
  OBVIOUS
<1>2. /\ b \in B /\ blocks' = B \ {b} /\ GoodList(M)
      /\ \A x \in Int : InList(M, x) <=> InList(L, x) \/ InBlock(b, x)
  BY <1>1 DEF Returned
<1>3. /\ \A c \in B : BlockSound(c)
      /\ \A c \in B : \A x \in Int : InBlock(c, x) => ~InList(L, x)
      /\ \A c, d \in B : \A x \in Int : InBlock(c, x) /\ InBlock(d, x) => c = d
      /\ \A x \in Int : HeapStart <= x /\ x < HeapEnd => InList(L, x) \/ \E c \in B : InBlock(c, x)
  BY <1>1 DEF MemInv, Partition
<1>4. Partition(M, B \ {b})
  <2>1. \A c \in B \ {b} : \A x \in Int : InBlock(c, x) => ~InList(M, x)
    BY <1>2, <1>3
  <2>2. \A c, d \in B \ {b} : \A x \in Int : InBlock(c, x) /\ InBlock(d, x) => c = d
    BY <1>3
  <2>3. \A x \in Int : HeapStart <= x /\ x < HeapEnd
          => InList(M, x) \/ \E c \in B \ {b} : InBlock(c, x)
    BY <1>2, <1>3
  <2>. QED
    BY <2>1, <2>2, <2>3 DEF Partition
<1>. QED
  BY <1>1, <1>2, <1>3, <1>4 DEF MemInv

(* The initial heap is one free block. *)
LEMMA MemInvInit ==
  ASSUME InitM
  PROVE  MemInv
<1>1. PICK e : e = MBlock(HeapStart, HeapLen)
  OBVIOUS
<1>2. HeapStart \in Nat /\ HeapLen \in Nat /\ HeapLen > 0
  BY MemAssumption
<1>3. e \in MBlocks /\ e.addr = HeapStart /\ e.mlen = HeapLen
  BY <1>1, <1>2 DEF MBlocks, MBlock
<1>4. memlist = <<e>> /\ blocks = {}
  BY <1>1 DEF InitM
<1>5. memlist \in Seq(MBlocks) /\ Len(memlist) = 1 /\ memlist[1] = e
  BY <1>3, <1>4
<1>6. InHeap(e)
  BY <1>2, <1>3 DEF InHeap, HeapEnd
<1>7. GoodList(memlist)
  BY <1>5, <1>6 DEF GoodList
<1>8. \A x \in Int : HeapStart <= x /\ x < HeapEnd => InList(memlist, x)
  BY <1>2, <1>3, <1>5 DEF InList, In, HeapEnd
<1>. QED
  BY <1>4, <1>7, <1>8 DEF MemInv, Partition

(* Every step takes a region or gives one back. *)
LEMMA MemSteps ==
  ASSUME MemInv, SmallSizes, NextM
  PROVE  \/ \E n \in Sizes : \E b : Taken(b, n) \/ Taken(b, MallocSize(n))
         \/ \E b \in blocks : Returned(b)
<1>1. ASSUME NEW n \in Sizes, Getmem(n)
      PROVE  \E b : Taken(b, n)
  BY <1>1, GetmemTakes
<1>2. ASSUME NEW n \in Sizes, Malloc(n)
      PROVE  \E b : Taken(b, MallocSize(n))
  BY <1>2, MallocTakes
<1>3. ASSUME NEW n \in Sizes, Getstk(n)
      PROVE  \E b : Taken(b, n)
  BY <1>3, GetstkTakes
<1>4. ASSUME NEW b \in blocks, GiveBack(b)
      PROVE  Returned(b)
  BY <1>4, GiveBackReturns
<1>. QED
  BY <1>1, <1>2, <1>3, <1>4 DEF NextM

(* MemInv is inductive. *)
LEMMA MemInvStep ==
  ASSUME MemInv, SmallSizes, [NextM]_memVars
  PROVE  MemInv'
<1>1. ASSUME NextM
      PROVE  MemInv'
  BY <1>1, MemSteps, TakenPartition, ReturnedPartition
<1>2. ASSUME UNCHANGED memVars
      PROVE  MemInv'
  BY <1>2 DEF memVars, MemInv, Partition, GoodList, InList, BlockSound, FreeArg
<1>. QED
  BY <1>1, <1>2

(* The invariant of the memory manager holds in every state.               *)
LEMMA MemInvAlways ==
  ASSUME SmallSizes
  PROVE  SpecM => []MemInv
<1>1. InitM => MemInv
  BY MemInvInit
<1>2. MemInv /\ [NextM]_memVars => MemInv'
  BY MemInvStep
<1>. QED
  BY <1>1, <1>2, PTL DEF SpecM

(* The bytes of a free list. *)
LEMMA ListBytes ==
  ASSUME NEW L, GoodList(L)
  PROVE  UNION {Bytes(L[i].addr, L[i].mlen) : i \in DOMAIN L} = {x \in Int : InList(L, x)}
<1>1. /\ DOMAIN L = 1..Len(L)
      /\ \A i \in 1..Len(L) : L[i].addr \in Nat /\ L[i].mlen \in Nat
  BY GoodTypes
<1>2. \A a, l \in Nat : Bytes(a, l) = {x \in Int : a <= x /\ x < a + l}
  BY DEF Bytes
<1>3. \A i \in 1..Len(L) : Bytes(L[i].addr, L[i].mlen) = {x \in Int : In(L[i], x)}
  BY <1>1, <1>2 DEF In
<1>. QED
  BY <1>1, <1>3 DEF InList

(* The bytes that are free, and those that are held. *)
LEMMA BytesAre ==
  ASSUME MemInv
  PROVE  /\ FreeBytes = {x \in Int : InList(memlist, x)}
         /\ UNION {Bytes(b.addr, b.len) : b \in blocks} = {x \in Int : \E b \in blocks : InBlock(b, x)}
<1>1. FreeBytes = {x \in Int : InList(memlist, x)}
  BY ListBytes DEF FreeBytes, MemInv
<1>2. \A b \in blocks : Bytes(b.addr, b.len) = {x \in Int : InBlock(b, x)}
  BY DEF MemInv, BlockSound, InBlock, Bytes
<1>. QED
  BY <1>1, <1>2

(* The invariant gives the two properties. *)
LEMMA MemInvFreeList ==
  ASSUME MemInv
  PROVE  FreeListSound
<1>1. GoodList(memlist)
  BY DEF MemInv
<1>2. HeapStart \in Nat /\ HeapLen \in Nat
  BY MemAssumption
<1>3. DOMAIN memlist = 1..Len(memlist)
  BY <1>1, GoodTypes
<1>4. ASSUME NEW i \in 1..Len(memlist)
      PROVE  /\ memlist[i].mlen > 0
             /\ Bytes(memlist[i].addr, memlist[i].mlen) \subseteq Bytes(HeapStart, HeapLen)
  <2>1. PICK a \in Nat, m \in Nat : /\ a = memlist[i].addr /\ m = memlist[i].mlen /\ m > 0
                                    /\ HeapStart <= a /\ a + m <= HeapStart + HeapLen
    BY <1>1, FreeBlockFacts DEF HeapEnd
  <2>2. Bytes(a, m) \subseteq Bytes(HeapStart, HeapLen)
    BY SMTT(60), <1>2, <2>1 DEF Bytes
  <2>. QED
    BY <2>1, <2>2
<1>5. \A i, j \in 1..Len(memlist) : i < j => memlist[i].addr + memlist[i].mlen < memlist[j].addr
  BY <1>1 DEF GoodList
<1>. QED
  BY <1>3, <1>4, <1>5 DEF FreeListSound

(* The invariant says what HeapPartitioned does.                           *)
LEMMA MemInvPartition ==
  ASSUME MemInv
  PROVE  HeapPartitioned
<1>1. PICK H : H = UNION {Bytes(b.addr, b.len) : b \in blocks}
  OBVIOUS
<1>2. /\ FreeBytes = {x \in Int : InList(memlist, x)}
      /\ H = {x \in Int : \E b \in blocks : InBlock(b, x)}
  BY <1>1, BytesAre
<1>3. HeapStart \in Nat /\ HeapLen \in Nat /\ HeapEnd = HeapStart + HeapLen
  BY MemAssumption DEF HeapEnd
<1>4. Bytes(HeapStart, HeapLen) = {x \in Int : HeapStart <= x /\ x < HeapEnd}
  BY <1>3 DEF Bytes
<1>5. FreeBytes \cap H = {}
  BY <1>2 DEF MemInv, Partition
<1>6. ASSUME NEW x \in Int, InList(memlist, x)
      PROVE  HeapStart <= x /\ x < HeapEnd
  <2>1. GoodList(memlist)
    BY DEF MemInv
  <2>2. PICK i \in 1..Len(memlist) : In(memlist[i], x)
    BY <1>6 DEF InList
  <2>. QED
    BY <1>3, <2>1, <2>2, FreeBlockFacts DEF In
<1>7. ASSUME NEW b \in blocks, NEW x \in Int, InBlock(b, x)
      PROVE  HeapStart <= x /\ x < HeapEnd
  BY <1>3, <1>7 DEF MemInv, BlockSound, InBlock
<1>8. FreeBytes \cup H = Bytes(HeapStart, HeapLen)
  <2>1. \A x \in Int : HeapStart <= x /\ x < HeapEnd
          => InList(memlist, x) \/ \E b \in blocks : InBlock(b, x)
    BY DEF MemInv, Partition
  <2>. QED
    BY <1>2, <1>4, <1>6, <1>7, <2>1
<1>9. ASSUME NEW b \in blocks, NEW c \in blocks, b # c
      PROVE  Bytes(b.addr, b.len) \cap Bytes(c.addr, c.len) = {}
  <2>1. \A d \in blocks : Bytes(d.addr, d.len) = {x \in Int : InBlock(d, x)}
    BY DEF MemInv, BlockSound, InBlock, Bytes
  <2>2. \A x \in Int : ~(InBlock(b, x) /\ InBlock(c, x))
    BY <1>9 DEF MemInv, Partition
  <2>. QED
    BY <2>1, <2>2
<1>10. \A b \in blocks : Accepts(FreeArg(b).block, FreeArg(b).size)
  BY HeldAccepted
<1>. QED
  BY <1>1, <1>5, <1>8, <1>9, <1>10 DEF HeapPartitioned

(***************************************************************************)
(* For all sizes that leave room for rounding, the free list stays sorted, *)
(* in the heap and joined (FreeListSound).                                 *)
(***************************************************************************)
THEOREM MemoryFreeList ==
  ASSUME SmallSizes
  PROVE  SpecM => []FreeListSound
<1>1. MemInv => FreeListSound
  BY MemInvFreeList
<1>2. SpecM => []MemInv
  BY MemInvAlways
<1>. QED
  BY <1>1, <1>2, PTL

(***************************************************************************)
(* Each byte of the heap is free or held by one caller, and freemem takes  *)
(* back what a caller holds (HeapPartitioned).                             *)
(***************************************************************************)
THEOREM MemoryPartition ==
  ASSUME SmallSizes
  PROVE  SpecM => []HeapPartitioned
<1>1. MemInv => HeapPartitioned
  BY MemInvPartition
<1>2. SpecM => []MemInv
  BY MemInvAlways
<1>. QED
  BY <1>1, <1>2, PTL

(* The region that the abstract heap sees in place of a held block. *)
RegionOf(b) == [addr |-> b.addr, len |-> b.len]
Regions(B)  == {RegionOf(b) : b \in B}

(* What a region that a caller holds is.                                   *)
LEMMA RegionFacts ==
  ASSUME NEW b
  PROVE  RegionOf(b).addr = b.addr /\ RegionOf(b).len = b.len
BY DEF RegionOf

(* Different blocks that are held have different regions. *)
LEMMA RegionsDistinct ==
  ASSUME MemInv, NEW b \in blocks, NEW c \in blocks, RegionOf(b) = RegionOf(c)
  PROVE  b = c
<1>1. b.addr = c.addr /\ b.len = c.len
  BY RegionFacts
<1>2. PICK s \in Nat, l \in Nat : s = b.addr /\ l = b.len /\ l > 0
  BY DEF MemInv, BlockSound
<1>3. InBlock(b, s) /\ InBlock(c, s)
  BY <1>1, <1>2 DEF InBlock
<1>. QED
  BY <1>2, <1>3 DEF MemInv, Partition

(* What the abstract heap rounds a size to. *)
LEMMA UnitsIsRoundmb ==
  ASSUME SmallSizes, NEW m \in Sizes \cup {MallocSize(n) : n \in Sizes}
  PROVE  AbstractHeap!Units(m) = roundmb(m)
<1>1. PICK k \in Nat : k = m /\ 0 < k /\ k <= 65532
  BY SizeFacts
<1>2. roundmb(k) = ((k + MBLOCK - 1) \div MBLOCK) * MBLOCK
  BY <1>1, RoundmbFacts
<1>. QED
  BY <1>1, <1>2 DEF AbstractHeap!Units

(* A step that takes a region is an Allocate of the abstract heap. *)
LEMMA TakenAllocates ==
  ASSUME MemInv, SmallSizes, NEW m \in Sizes \cup {MallocSize(n) : n \in Sizes}, NEW b, Taken(b, m)
  PROVE  AbstractHeap!HeapNext
<1>1. FreeBytes = {x \in Int : InList(memlist, x)}
  BY BytesAre
<1>2. FreeBytes' = {x \in Int : InList(memlist', x)}
  BY ListBytes DEF FreeBytes, Taken
<1>3. /\ BlockSound(b) /\ b.len = roundmb(m) /\ blocks' = blocks \cup {b}
      /\ \A x \in Int : InBlock(b, x) => InList(memlist, x)
      /\ \A x \in Int : InList(memlist', x) <=> InList(memlist, x) /\ ~InBlock(b, x)
  BY DEF Taken
<1>4. PICK s \in Nat, l \in Nat : s = b.addr /\ l = b.len /\ l > 0
  BY <1>3 DEF BlockSound
<1>5. AbstractHeap!Region(s, l) = {x \in Int : InBlock(b, x)}
  BY <1>4 DEF AbstractHeap!Region, InBlock
<1>6. l = AbstractHeap!Units(m)
  BY <1>3, <1>4, UnitsIsRoundmb
<1>7. s \in FreeBytes
  BY <1>1, <1>3, <1>4 DEF InBlock
<1>8. AbstractHeap!Region(s, l) \subseteq FreeBytes
  BY <1>1, <1>3, <1>5
<1>9. FreeBytes' = FreeBytes \ AbstractHeap!Region(s, l)
  BY <1>1, <1>2, <1>3, <1>5
<1>10. Regions(blocks') = Regions(blocks) \cup {[addr |-> s, len |-> l]}
  BY <1>3, <1>4 DEF Regions, RegionOf
<1>11. AbstractHeap!Allocate(m)
  BY <1>6, <1>7, <1>8, <1>9, <1>10 DEF AbstractHeap!Allocate, Regions, RegionOf
<1>. QED
  BY <1>11 DEF AbstractHeap!HeapNext

(* A step that gives a region back is a Release of the abstract heap. *)
LEMMA ReturnedReleases ==
  ASSUME MemInv, NEW b, Returned(b)
  PROVE  AbstractHeap!HeapNext
<1>1. FreeBytes = {x \in Int : InList(memlist, x)}
  BY BytesAre
<1>2. FreeBytes' = {x \in Int : InList(memlist', x)}
  BY ListBytes DEF FreeBytes, Returned
<1>3. /\ b \in blocks /\ blocks' = blocks \ {b}
      /\ \A x \in Int : InList(memlist', x) <=> InList(memlist, x) \/ InBlock(b, x)
  BY DEF Returned
<1>4. PICK s \in Nat, l \in Nat : s = b.addr /\ l = b.len /\ l > 0
  BY <1>3 DEF MemInv, BlockSound
<1>5. AbstractHeap!Region(s, l) = {x \in Int : InBlock(b, x)}
  BY <1>4 DEF AbstractHeap!Region, InBlock
<1>6. PICK r : r = RegionOf(b)
  OBVIOUS
<1>7. r \in Regions(blocks) /\ r.addr = s /\ r.len = l
  BY <1>3, <1>4, <1>6 DEF Regions, RegionOf
<1>8. Regions(blocks') = Regions(blocks) \ {r}
  <2>1. ASSUME NEW c \in blocks, c # b
        PROVE  RegionOf(c) # r
    BY <1>3, <1>6, <2>1, RegionsDistinct
  <2>. QED
    BY <1>3, <1>6, <2>1 DEF Regions
<1>9. FreeBytes' = FreeBytes \cup AbstractHeap!Region(s, l)
  BY <1>1, <1>2, <1>3, <1>5
<1>10. AbstractHeap!Release(r)
  BY <1>7, <1>8, <1>9 DEF AbstractHeap!Release, Regions, RegionOf
<1>. QED
  BY <1>7, <1>10 DEF AbstractHeap!HeapNext, Regions, RegionOf

(* The initial states correspond. *)
LEMMA HeapInits ==
  ASSUME InitM
  PROVE  AbstractHeap!HeapInit
<1>1. MemInv
  BY MemInvInit
<1>2. FreeBytes = {x \in Int : InList(memlist, x)}
  BY <1>1, BytesAre
<1>3. HeapStart \in Nat /\ HeapLen \in Nat
  BY MemAssumption
<1>4. blocks = {}
  BY DEF InitM
<1>5. FreeBytes = Bytes(HeapStart, HeapLen)
  BY <1>1, <1>4, MemInvPartition DEF HeapPartitioned
<1>. QED
  BY <1>4, <1>5 DEF AbstractHeap!HeapInit, AbstractHeap!Region, Bytes

(***************************************************************************)
(* The memory manager implements the abstract heap: each call hands out    *)
(* whole units of free memory, enough for what was asked for, or takes     *)
(* back exactly what was handed out (ImplementsHeap).                      *)
(***************************************************************************)
THEOREM MemoryRefinesHeap ==
  ASSUME SmallSizes
  PROVE  SpecM => ImplementsHeap
<1>1. InitM => AbstractHeap!HeapInit
  BY HeapInits
<1>2. ASSUME MemInv, [NextM]_memVars
      PROVE  [AbstractHeap!HeapNext]_<<FreeBytes, Regions(blocks)>>
  <2>1. ASSUME NextM
        PROVE  AbstractHeap!HeapNext
    <3>1. CASE \E n \in Sizes : \E b : Taken(b, n) \/ Taken(b, MallocSize(n))
      BY <1>2, <3>1, TakenAllocates
    <3>2. CASE \E b \in blocks : Returned(b)
      BY <1>2, <3>2, ReturnedReleases
    <3>. QED
      BY <1>2, <2>1, <3>1, <3>2, MemSteps
  <2>2. ASSUME UNCHANGED memVars
        PROVE  UNCHANGED <<FreeBytes, Regions(blocks)>>
    BY <2>2 DEF memVars, FreeBytes, Regions
  <2>. QED
    BY <1>2, <2>1, <2>2
<1>3. SpecM => []MemInv
  BY MemInvAlways
<1>4. ASSUME MemInv, [NextM]_memVars
      PROVE  [AbstractHeap!HeapNext]_<<FreeBytes, {[addr |-> b.addr, len |-> b.len] : b \in blocks}>>
  BY <1>2, <1>4 DEF Regions, RegionOf
<1>. QED
  BY <1>1, <1>3, <1>4, PTL DEF SpecM, ImplementsHeap, AbstractHeap!HeapSpec
=============================================================================
