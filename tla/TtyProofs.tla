----------------------------- MODULE TtyProofs -----------------------------
(***************************************************************************)
(* Proofs about the terminal driver, for every size of the rings, every     *)
(* number of writers and all that is typed and written.                     *)
(*                                                                         *)
(* The invariant TtyInv has a part for each half of the driver.  The output *)
(* half, OutInv, adds to the properties that the head of the ring is ocnt   *)
(* places behind its tail (OutRing), that a semaphore's queue is made of    *)
(* distinct processes that wait and is as long as the count says (QueueOK), *)
(* and that the places of the ring add up when a writer that waits is       *)
(* counted whether it is on the queue or has been released (SpaceInv).  The *)
(* input half, InInv, says the same of the input ring and of the reader.    *)
(* What a step may do to a ring (OutMoves, InMoves) is established with it, *)
(* and gives the action properties.                                         *)
(***************************************************************************)
EXTENDS Tty, TLAPS, FiniteSetTheorems, SequenceTheorems, WellFoundedInduction

(* Division with remainder. *)
LEMMA DivMod ==
  ASSUME NEW L \in Nat \ {0}, NEW a \in Int
  PROVE  /\ a % L \in 0..(L - 1) /\ a \div L \in Int
         /\ a = L * (a \div L) + (a % L)
OBVIOUS

(* Multiples of L that are less than L apart are the same. *)
LEMMA MultiplesApart ==
  ASSUME NEW L \in Nat \ {0}, NEW x \in Int, NEW y \in Int, L * x - L * y < L, L * y - L * x < L
  PROVE  x = y
<1>1. CASE x > y
  <2>1. x - y >= 1 /\ x - y \in Int
    BY <1>1
  <2>2. L * (x - y) >= L
    BY <2>1
  <2> QED
    BY <2>2
<1>2. CASE x < y
  <2>1. y - x >= 1 /\ y - x \in Int
    BY <1>2
  <2>2. L * (y - x) >= L
    BY <2>1
  <2> QED
    BY <2>2
<1> QED
  BY <1>1, <1>2

LEMMA ModUnique ==
  ASSUME NEW L \in Nat \ {0}, NEW a \in Int, NEW z \in Int, NEW r \in 0..(L - 1), a = L * z + r
  PROVE  a % L = r
<1>1. PICK d, m : d = a \div L /\ m = a % L
  OBVIOUS
<1>2. m \in 0..(L - 1) /\ d \in Int /\ a = L * d + m
  BY <1>1, DivMod
<1>3. L * z - L * d = m - r /\ L * z \in Int /\ L * d \in Int
  BY <1>2
<1>4. L * z - L * d < L /\ L * d - L * z < L
  BY <1>2, <1>3
<1>5. z = d
  BY <1>2, <1>4, MultiplesApart
<1> QED
  BY <1>1, <1>2, <1>5

(* What is added may be added before or after the remainder is taken. *)
LEMMA ModAdd ==
  ASSUME NEW L \in Nat \ {0}, NEW a \in Int, NEW b \in Int
  PROVE  ((a % L) + b) % L = (a + b) % L
<1>1. PICK d, m : d = a \div L /\ m = a % L
  OBVIOUS
<1>2. m \in 0..(L - 1) /\ d \in Int /\ a = L * d + m
  BY <1>1, DivMod
<1>3. PICK e, r : e = (m + b) \div L /\ r = (m + b) % L
  OBVIOUS
<1>4. r \in 0..(L - 1) /\ e \in Int /\ m + b = L * e + r
  BY <1>2, <1>3, DivMod
<1>5. a + b = L * (d + e) + r
  <2>1. L * (d + e) = L * d + L * e /\ L * d \in Int /\ L * e \in Int
    BY <1>2, <1>4
  <2> QED
    BY <1>2, <1>4, <2>1
<1>6. a + b \in Int /\ d + e \in Int
  BY <1>2, <1>4
<1>7. (a + b) % L = r
  BY <1>4, <1>5, <1>6, ModUnique
<1> QED
  BY <1>1, <1>3, <1>7

(* Equal remainders stay equal. *)
LEMMA ModShift ==
  ASSUME NEW L \in Nat \ {0}, NEW a \in Int, NEW b \in Int, NEW c \in Int, a % L = b % L
  PROVE  (a + c) % L = (b + c) % L
<1>1. (a + c) % L = ((a % L) + c) % L /\ (b + c) % L = ((b % L) + c) % L
  BY ModAdd
<1> QED
  BY <1>1

LEMMA ModSmall ==
  ASSUME NEW L \in Nat \ {0}, NEW a \in 0..(L - 1)
  PROVE  a % L = a
OBVIOUS

(* Two numbers less than L apart have different remainders. *)
LEMMA ModApart ==
  ASSUME NEW L \in Nat \ {0}, NEW a \in Int, NEW b \in Int, a < b, b - a < L
  PROVE  a % L # b % L
<1> SUFFICES ASSUME a % L = b % L PROVE FALSE
  OBVIOUS
<1>1. PICK d, e, m : d = a \div L /\ e = b \div L /\ m = a % L
  OBVIOUS
<1>2. m \in Int /\ d \in Int /\ e \in Int /\ a = L * d + m /\ b = L * e + m
  BY <1>1, DivMod
<1>3. L * d \in Int /\ L * e \in Int /\ L * d - L * e < L /\ L * e - L * d < L
  BY <1>2
<1>4. d = e
  BY <1>2, <1>3, MultiplesApart
<1> QED
  BY <1>2, <1>4

(* The least and the greatest of a set of numbers. *)
LEMMA LeastOf ==
  ASSUME NEW S \in SUBSET Nat, S # {}
  PROVE  Least(S) \in S /\ \A m \in S : Least(S) <= m
<1>1. PICK x \in S : \A y \in S : ~ (<<y, x>> \in OpToRel(<, Nat))
  BY NatLessThanWellFounded, WFMin
<1>2. \A y \in S : x <= y
  <2> SUFFICES ASSUME NEW y \in S PROVE x <= y
    OBVIOUS
  <2>1. x \in Nat /\ y \in Nat
    OBVIOUS
  <2>2. ~(y < x)
    BY <1>1, <2>1 DEF OpToRel
  <2> QED
    BY <2>1, <2>2
<1> QED
  BY <1>2 DEF Least

LEMMA MostOf ==
  ASSUME NEW n \in Nat, NEW S \in SUBSET (0..n), S # {}
  PROVE  Most(S) \in S /\ \A m \in S : m <= Most(S)
<1> DEFINE T == {m \in 0..n : n - m \in S}
<1>1. T \in SUBSET Nat /\ T # {}
  <2>1. PICK s \in S : TRUE
    OBVIOUS
  <2>2. n - s \in 0..n /\ n - (n - s) = s
    OBVIOUS
  <2> QED
    BY <2>1, <2>2
<1>2. Least(T) \in T /\ \A m \in T : Least(T) <= m
  BY <1>1, LeastOf
<1>3. n - Least(T) \in S
  BY <1>2
<1>4. \A m \in S : m <= n - Least(T)
  <2> SUFFICES ASSUME NEW m \in S PROVE m <= n - Least(T)
    OBVIOUS
  <2>1. n - m \in T
    <3>1. n - m \in 0..n /\ n - (n - m) = m
      OBVIOUS
    <3> QED
      BY <3>1
  <2>2. Least(T) <= n - m /\ Least(T) \in Nat
    BY <1>2, <2>1
  <2> QED
    BY <2>2
<1> QED
  BY <1>3, <1>4 DEF Most

(* A read takes at least one character and no more than it may. *)
LEMMA LineBounds ==
  ASSUME NEW q, NEW n \in Nat \ {0}, NEW from
  PROVE  Line(q, n, from) \in 1..n
<1> DEFINE S == {k \in 1..n : \/ k = n
                              \/ q[k + 1] = EOFC
                              \/ (k >= from /\ EndsLine(q[k]))}
<1>1. S \in SUBSET Nat /\ n \in S
  OBVIOUS
<1>2. Least(S) \in S
  BY <1>1, LeastOf
<1> QED
  BY <1>2 DEF Line

LEMMA Sizes ==
  /\ IBUFLEN \in Nat \ {0, 1} /\ OBUFLEN \in Nat \ {0} /\ EBUFLEN \in Nat \ {0}
  /\ OBMINSP \in Nat \ {0} /\ OBMINSP < OBUFLEN /\ MaxIcnt \in Nat /\ MaxText \in Nat
BY SizesAssumption

-----------------------------------------------------------------------------
(* What is stored for a text. *)

LEMMA PlaceStep ==
  ASSUME NEW S, NEW t \in Seq(S), NEW n \in 1..Len(t)
  PROVE  /\ Place(t, n - 1) \in Nat /\ Place(t, n) \in Nat
         /\ Place(t, n - 1) < Place(t, n) /\ Place(t, n) <= Place(t, n - 1) + 2
<1> DEFINE A == {j \in 1..(n - 1) : t[j] = NEWLINE}
           B == {j \in 1..n : t[j] = NEWLINE}
<1>1. IsFiniteSet(A) /\ Cardinality(A) \in Nat
  <2>1. IsFiniteSet(1..(n - 1)) /\ A \in SUBSET (1..(n - 1))
    BY FS_Interval
  <2> QED
    BY <2>1, FS_Subset, FS_CardinalityType
<1>2. B = A \/ B = A \cup {n}
  OBVIOUS
<1>3. n \notin A
  OBVIOUS
<1>4. Cardinality(B) \in {Cardinality(A), Cardinality(A) + 1}
  BY <1>1, <1>2, <1>3, FS_AddElement
<1>5. Place(t, n - 1) = n - 1 + Cardinality(A) /\ Place(t, n) = n + Cardinality(B)
  BY DEF Place
<1> HIDE DEF A, B
<1> QED
  BY <1>1, <1>4, <1>5

LEMMA PlaceType ==
  ASSUME NEW S, NEW t \in Seq(S), NEW n \in 0..Len(t)
  PROVE  Place(t, n) \in Nat
<1> DEFINE B == {j \in 1..n : t[j] = NEWLINE}
<1>1. IsFiniteSet(1..n) /\ B \in SUBSET (1..n)
  BY FS_Interval
<1>2. Cardinality(B) \in Nat
  BY <1>1, FS_Subset, FS_CardinalityType
<1> QED
  BY <1>2 DEF Place

LEMMA PlaceZero == \A t : Place(t, 0) = 0
<1>1. \A t : {j \in 1..0 : t[j] = NEWLINE} = {}
  OBVIOUS
<1> QED
  BY <1>1, FS_EmptySet DEF Place

LEMMA CrlfType ==
  ASSUME NEW t \in Seq(Chars)
  PROVE  Crlf(t) \in Seq(Chars) /\ Len(Crlf(t)) = Place(t, Len(t))
<1>1. Place(t, Len(t)) \in Nat
  BY PlaceType
<1> DEFINE C(k) == IF \E i \in DOMAIN t : Place(t, i) = k
                   THEN t[CHOOSE i \in DOMAIN t : Place(t, i) = k] ELSE RETURN
<1>2. \A k : C(k) \in Chars
  <2> SUFFICES ASSUME NEW k PROVE C(k) \in Chars
    OBVIOUS
  <2>1. CASE \E i \in DOMAIN t : Place(t, i) = k
    <3>1. (CHOOSE i \in DOMAIN t : Place(t, i) = k) \in DOMAIN t
      BY <2>1
    <3>2. \A i \in DOMAIN t : t[i] \in Chars
      OBVIOUS
    <3> QED
      BY <2>1, <3>1, <3>2
  <2>2. CASE ~\E i \in DOMAIN t : Place(t, i) = k
    BY <2>2 DEF Chars
  <2> QED
    BY <2>1, <2>2
<1>3. Crlf(t) = [k \in 1..Place(t, Len(t)) |-> C(k)]
  BY DEF Crlf
<1> HIDE DEF C
<1> QED
  BY <1>1, <1>2, <1>3

(* The first n characters of a text stand where they stand in the whole. *)
LEMMA PlacePrefix ==
  ASSUME NEW S, NEW t \in Seq(S), NEW n \in 0..Len(t)
  PROVE  /\ SubSeq(t, 1, n) \in Seq(S) /\ Len(SubSeq(t, 1, n)) = n
         /\ Place(SubSeq(t, 1, n), n) = Place(t, n)
<1>1. /\ SubSeq(t, 1, n) \in Seq(S) /\ Len(SubSeq(t, 1, n)) = n
      /\ \A j \in 1..n : SubSeq(t, 1, n)[j] = t[j]
  OBVIOUS
<1>2. {j \in 1..n : SubSeq(t, 1, n)[j] = NEWLINE} = {j \in 1..n : t[j] = NEWLINE}
  BY <1>1
<1> QED
  BY <1>1, <1>2 DEF Place

LEMMA CrlfPrefix ==
  ASSUME NEW t \in Seq(Chars), NEW n \in 0..Len(t)
  PROVE  /\ Crlf(SubSeq(t, 1, n)) \in Seq(Chars)
         /\ Len(Crlf(SubSeq(t, 1, n))) = Place(t, n) /\ Place(t, n) \in Nat
<1>1. PICK s : s = SubSeq(t, 1, n)
  OBVIOUS
<1>2. s \in Seq(Chars) /\ Len(s) = n /\ Place(s, n) = Place(t, n)
  BY <1>1, PlacePrefix
<1>3. Crlf(s) \in Seq(Chars) /\ Len(Crlf(s)) = Place(s, Len(s))
  BY <1>2, CrlfType
<1> QED
  BY <1>1, <1>2, <1>3, PlaceType

(* writcopy() copies what there is room for, and nothing into a full ring.  *)
LEMMA CopiedFits ==
  ASSUME NEW t \in Seq(Chars), out.ocnt \in Nat
  PROVE  /\ Copied(t) \in 0..Len(t)
         /\ LET q == Crlf(SubSeq(t, 1, Copied(t)))
            IN  /\ q \in Seq(Chars) /\ Len(q) \in Nat
                /\ q = <<>> \/ out.ocnt + Len(q) <= OBUFLEN
<1> DEFINE S == {n \in 0..Len(t) :
                   n = 0 \/ OBUFLEN - out.ocnt - Len(Crlf(SubSeq(t, 1, n - 1))) > 1}
           n == Copied(t)
<1>1. n \in S
  <2>1. S \in SUBSET (0..Len(t)) /\ 0 \in S /\ Len(t) \in Nat
    OBVIOUS
  <2>2. Most(S) \in S
    <3> HIDE DEF S
    <3> QED
      BY <2>1, MostOf
  <2> QED
    BY <2>2 DEF Copied
<1>2. n \in 0..Len(t) /\ (n = 0 \/ OBUFLEN - out.ocnt - Len(Crlf(SubSeq(t, 1, n - 1))) > 1)
  BY <1>1
<1> HIDE DEF n, S
<1>3. /\ Crlf(SubSeq(t, 1, n)) \in Seq(Chars)
      /\ Len(Crlf(SubSeq(t, 1, n))) = Place(t, n) /\ Place(t, n) \in Nat
  BY <1>2, CrlfPrefix
<1>4. CASE n = 0
  <2>1. Len(Crlf(SubSeq(t, 1, n))) = 0
    BY <1>3, <1>4, PlaceZero
  <2>2. Crlf(SubSeq(t, 1, n)) = <<>>
    BY <1>3, <2>1
  <2> QED
    BY <1>2, <1>3, <2>2 DEF n
<1>5. CASE n # 0
  <2>1. n - 1 \in 0..Len(t) /\ n \in 1..Len(t)
    BY <1>2, <1>5
  <2>2. Len(Crlf(SubSeq(t, 1, n - 1))) = Place(t, n - 1)
    BY <2>1, CrlfPrefix
  <2>3. Place(t, n) <= Place(t, n - 1) + 2 /\ Place(t, n - 1) \in Nat
    BY <2>1, PlaceStep
  <2>4. out.ocnt + Place(t, n) <= OBUFLEN
    BY <1>2, <1>3, <1>5, <2>2, <2>3, Sizes
  <2> QED
    BY <1>2, <1>3, <2>4 DEF n
<1> QED
  BY <1>4, <1>5

-----------------------------------------------------------------------------
(* A semaphore's count and queue agree, and those of W alone are queued,    *)
(* each once.                                                               *)
SemRec(P) == [semcnt : Int, sq : Seq(P)]

QueueOK(s, W) ==
  /\ \A i, j \in 1..Len(s.sq) : s.sq[i] = s.sq[j] => i = j
  /\ \A i \in 1..Len(s.sq) : s.sq[i] \in W
  /\ Len(s.sq) = Larger(-s.semcnt, 0)

LEMMA TakeBlocks ==
  ASSUME NEW P, NEW W, NEW s \in SemRec(P), QueueOK(s, W), NEW p \in P, Granted(p, s),
         NEW n \in Nat, n = Larger(s.semcnt, 0), NEW r,
         r.semcnt = s.semcnt - n - 1, r.sq = Append(s.sq, p)
  PROVE  QueueOK(r, W \cup {p})
<1>1. /\ s.semcnt \in Int /\ s.sq \in Seq(P) /\ Len(s.sq) \in Nat
      /\ DOMAIN s.sq = 1..Len(s.sq)
  BY DEF SemRec
<1>2. PICK q : q = Append(s.sq, p)
  OBVIOUS
<1>3. /\ q \in Seq(P) /\ Len(q) = Len(s.sq) + 1 /\ q[Len(s.sq) + 1] = p
      /\ \A i \in 1..Len(s.sq) : q[i] = s.sq[i]
  BY <1>1, <1>2
<1>4. Len(q) = Larger(-(s.semcnt - n - 1), 0)
  BY SMTT(60), <1>1, <1>3 DEF QueueOK, Larger
<1>5. \A i \in 1..Len(q) : i \in 1..Len(s.sq) \/ i = Len(s.sq) + 1
  BY <1>1, <1>3
<1>6. \A i \in 1..Len(q) : q[i] \in W \cup {p}
  BY <1>3, <1>5 DEF QueueOK
<1>7. \A i, j \in 1..Len(q) : q[i] = q[j] => i = j
  <2>1. \A i \in 1..Len(s.sq) : q[i] # p
    BY <1>1, <1>3 DEF Granted
  <2> QED
    BY <1>3, <1>5, <2>1 DEF QueueOK
<1> QED
  BY <1>2, <1>4, <1>6, <1>7 DEF QueueOK

LEMMA TakeGoesOn ==
  ASSUME NEW P, NEW W, NEW s \in SemRec(P), QueueOK(s, W), NEW p \in P, Granted(p, s),
         NEW n \in Nat, n <= Larger(s.semcnt, 0), NEW r,
         r = [s EXCEPT !.semcnt = s.semcnt - n]
  PROVE  r \in SemRec(P) /\ r.semcnt = s.semcnt - n /\ QueueOK(r, W \ {p})
<1>1. /\ s.semcnt \in Int /\ s.sq \in Seq(P) /\ Len(s.sq) \in Nat
      /\ DOMAIN s.sq = 1..Len(s.sq)
  BY DEF SemRec
<1>2. r.semcnt = s.semcnt - n /\ r.sq = s.sq /\ r \in SemRec(P)
  BY <1>1 DEF SemRec
<1>3. Larger(-(s.semcnt - n), 0) = Larger(-s.semcnt, 0)
  BY <1>1 DEF Larger
<1>4. \A i \in 1..Len(s.sq) : s.sq[i] \in W \ {p}
  BY <1>1 DEF QueueOK, Granted
<1>5. QueueOK(r, W \ {p})
  BY <1>2, <1>3, <1>4 DEF QueueOK
<1> QED
  BY <1>2, <1>5

LEMMA SignalQueue ==
  ASSUME NEW P, NEW W, NEW s \in SemRec(P), QueueOK(s, W), NEW n \in Nat
  PROVE  LET r == Signaln(s, n)
         IN  r \in SemRec(P) /\ r.semcnt = s.semcnt + n /\ QueueOK(r, W)
<1>1. /\ s.semcnt \in Int /\ s.sq \in Seq(P) /\ Len(s.sq) \in Nat
  BY DEF SemRec
<1>2. PICK m, q : m = Smaller(n, Len(s.sq)) /\ q = SubSeq(s.sq, m + 1, Len(s.sq))
  OBVIOUS
<1>3. m \in Nat /\ m <= Len(s.sq) /\ Len(s.sq) - m = Larger(-(s.semcnt + n), 0)
  BY <1>1, <1>2 DEF Smaller, Larger, QueueOK
<1>4. /\ q \in Seq(P) /\ Len(q) = Len(s.sq) - m
      /\ \A i \in 1..Len(q) : q[i] = s.sq[i + m]
  <2>1. PICK t, L : t = s.sq /\ L = Len(t)
    OBVIOUS
  <2>2. t \in Seq(P) /\ L \in Nat /\ m \in Nat /\ m <= L /\ q = SubSeq(t, m + 1, L)
    BY <1>1, <1>2, <1>3, <2>1
  <2>3. \A i \in (m + 1)..L : t[i] \in P
    BY <2>1, <2>2
  <2>4. /\ q \in Seq(P) /\ Len(q) = IF m + 1 <= L THEN L - (m + 1) + 1 ELSE 0
        /\ \A i \in 1..(L - (m + 1) + 1) : q[i] = t[m + 1 + i - 1]
    BY <2>2, <2>3, SubSeqProperties
  <2>5. Len(q) = L - m /\ L - (m + 1) + 1 = L - m
    BY <2>2, <2>4
  <2>6. \A i \in 1..(L - m) : m + 1 + i - 1 = i + m
    BY <2>2
  <2> QED
    BY <2>1, <2>4, <2>5, <2>6
<1>5. \A i \in 1..Len(q) : i + m \in 1..Len(s.sq)
  BY <1>1, <1>3, <1>4
<1>6. /\ \A i \in 1..Len(q) : q[i] \in W
      /\ \A i, j \in 1..Len(q) : q[i] = q[j] => i = j
  <2>1. \A i \in 1..Len(q) : q[i] \in W
    BY <1>4, <1>5 DEF QueueOK
  <2>2. ASSUME NEW i \in 1..Len(q), NEW j \in 1..Len(q), q[i] = q[j] PROVE i = j
    <3>1. i + m = j + m
      BY <1>4, <1>5, <2>2 DEF QueueOK
    <3> QED
      BY <1>3, <3>1
  <2> QED
    BY <2>1, <2>2
<1>7. Signaln(s, n) = [semcnt |-> s.semcnt + n, sq |-> q]
  BY <1>2 DEF Signaln
<1>8. PICK r : r = Signaln(s, n)
  OBVIOUS
<1>9. r.semcnt = s.semcnt + n /\ r.sq = q /\ r \in SemRec(P)
  BY <1>1, <1>4, <1>7, <1>8 DEF SemRec
<1>10. Len(q) = Larger(-r.semcnt, 0)
  BY <1>3, <1>4, <1>9
<1>11. QueueOK(r, W)
  BY <1>6, <1>9, <1>10 DEF QueueOK
<1> QED
  BY <1>8, <1>9, <1>11

LEMMA ResetQueue ==
  ASSUME NEW P, NEW W, NEW s \in SemRec(P), NEW n \in Nat
  PROVE  /\ Sreset(s, n) \in SemRec(P) /\ Sreset(s, n).semcnt = n
         /\ Sreset(s, n).sq = <<>> /\ QueueOK(Sreset(s, n), W)
<1>1. Sreset(s, n) = [semcnt |-> n, sq |-> <<>>]
  BY DEF Sreset
<1>2. Larger(-n, 0) = 0
  BY DEF Larger
<1> QED
  BY <1>1, <1>2 DEF QueueOK, SemRec

(* The positive count and the grants are the count and those who wait. *)
LEMMA GrantsCounted ==
  ASSUME NEW P, NEW W, IsFiniteSet(W), NEW s \in SemRec(P), QueueOK(s, W)
  PROVE  Larger(s.semcnt, 0) + Cardinality({w \in W : Granted(w, s)}) = s.semcnt + Cardinality(W)
<1>1. /\ s.semcnt \in Int /\ s.sq \in Seq(P) /\ Len(s.sq) \in Nat
      /\ DOMAIN s.sq = 1..Len(s.sq)
  BY DEF SemRec
<1> DEFINE R == {w \in W : ~Granted(w, s)}
<1>2. Cardinality(R) = Len(s.sq)
  <2> DEFINE f == [i \in 1..Len(s.sq) |-> s.sq[i]]
  <2>1. f \in Bijection(1..Len(s.sq), R)
    <3>1. \A i \in 1..Len(s.sq) : s.sq[i] \in R
      BY <1>1 DEF QueueOK, Granted
    <3>2. \A w \in R : \E i \in 1..Len(s.sq) : s.sq[i] = w
      BY <1>1 DEF Granted
    <3>3. f \in [1..Len(s.sq) -> R]
      BY <3>1
    <3>4. \A i, j \in 1..Len(s.sq) : f[i] = f[j] => i = j
      BY DEF QueueOK
    <3>5. \A w \in R : \E i \in 1..Len(s.sq) : f[i] = w
      BY <3>2
    <3> HIDE DEF f, R
    <3> QED
      BY <3>3, <3>4, <3>5 DEF Bijection, Injection, IsInjective, Surjection
  <2>2. ExistsBijection(1..Len(s.sq), R)
    <3> HIDE DEF f, R
    <3> QED
      BY <2>1 DEF ExistsBijection
  <2>3. IsFiniteSet(1..Len(s.sq)) /\ Cardinality(1..Len(s.sq)) = Len(s.sq)
    BY <1>1, FS_Interval
  <2> QED
    BY <2>2, <2>3, FS_Bijection
<1>3. {w \in W : Granted(w, s)} = W \ R /\ W \cap R = R
  OBVIOUS
<1>4. Cardinality(W \ R) = Cardinality(W) - Cardinality(R)
  BY ZenonT(60), <1>3, FS_Difference
<1>5. Cardinality(W) \in Nat
  BY FS_CardinalityType
<1>6. Len(s.sq) = Larger(-s.semcnt, 0)
  BY DEF QueueOK
<1> HIDE DEF R
<1>7. Cardinality({w \in W : Granted(w, s)}) = Cardinality(W) - Len(s.sq)
  BY <1>2, <1>3, <1>4
<1>8. Larger(s.semcnt, 0) - Len(s.sq) = s.semcnt
  BY <1>1, <1>6 DEF Larger
<1>9. Larger(s.semcnt, 0) \in Int
  BY <1>1 DEF Larger
<1> QED
  BY <1>1, <1>5, <1>7, <1>8, <1>9

(* What is stored is characters. *)
LEMMA FilledType ==
  ASSUME NEW size \in Nat \ {0}, NEW ring \in [0..(size - 1) -> Chars],
         NEW head \in 0..(size - 1), NEW q \in Seq(Chars)
  PROVE  Filled(ring, size, head, q) \in [0..(size - 1) -> Chars]
<1> DEFINE hits(i) == {j \in 1..Len(q) : (head + j - 1) % size = i}
           C(i) == IF hits(i) = {} THEN ring[i] ELSE q[Most(hits(i))]
<1>1. ASSUME NEW i \in 0..(size - 1) PROVE C(i) \in Chars
  <2>1. CASE hits(i) = {}
    BY <2>1
  <2>2. CASE hits(i) # {}
    <3>1. hits(i) \in SUBSET (0..Len(q)) /\ Len(q) \in Nat
      OBVIOUS
    <3>2. Most(hits(i)) \in hits(i)
      <4> HIDE DEF hits
      <4> QED
        BY <2>2, <3>1, MostOf
    <3>3. Most(hits(i)) \in 1..Len(q)
      BY <3>2
    <3> HIDE DEF hits
    <3> QED
      BY <2>2, <3>3
  <2> QED
    BY <2>1, <2>2
<1>2. Filled(ring, size, head, q) = [i \in 0..(size - 1) |-> C(i)]
  BY DEF Filled
<1> HIDE DEF C
<1> QED
  BY <1>1, <1>2

-----------------------------------------------------------------------------
(* The output side. *)

OutRec == [ohead : 0..(OBUFLEN - 1), otail : 0..(OBUFLEN - 1),
           obuff : [0..(OBUFLEN - 1) -> Chars],
           ocnt : Nat, odsend : 0..(OBMINSP - 1),
           echo : 0..(EBUFLEN - 1), oheld : BOOLEAN, udrie : BOOLEAN]

WriterRec == [at : {"idle", "putc", "copied", "write"}, rest : Seq(Chars), waited : BOOLEAN]

OutWaits == {w \in Writers : writer[w].waited}

(* Who waits, or is in the loop, has something to put. *)
WriterInv ==
  \A w \in Writers : /\ writer[w].waited => writer[w].at \in {"putc", "write"}
                     /\ writer[w].at \in {"putc", "write"} => writer[w].rest # <<>>

(* Whether a waiting writer is on the queue or has its grant, its place is  *)
(* in the sum: a signal or a wait moves a count and leaves the sum.         *)
SpaceInv ==
  LET places == osem.semcnt + Cardinality(OutWaits) + out.ocnt + out.odsend
  IN  /\ OBUFLEN <= places
      /\ places <= OBUFLEN + (OBMINSP - 1) + Larger(Cardinality(Writers) - 1, 0)

OutRing == out.ohead = (out.otail + out.ocnt) % OBUFLEN

OutTypes == out \in OutRec /\ osem \in SemRec(Writers) /\ writer \in [Writers -> WriterRec]

OutInv ==
  OutTypes /\ WriterInv /\ QueueOK(osem, OutWaits) /\ SpaceInv /\ OutputArmed /\ OutRing

LEMMA OutFields ==
  ASSUME NEW o \in OutRec
  PROVE  /\ o.ohead \in 0..(OBUFLEN - 1) /\ o.otail \in 0..(OBUFLEN - 1)
         /\ o.obuff \in [0..(OBUFLEN - 1) -> Chars]
         /\ o.ocnt \in Nat /\ o.odsend \in 0..(OBMINSP - 1)
         /\ o.echo \in 0..(EBUFLEN - 1) /\ o.oheld \in BOOLEAN /\ o.udrie \in BOOLEAN
BY DEF OutRec

LEMMA WaitsCount ==
  ASSUME NEW W \in SUBSET Writers, NEW w \in Writers
  PROVE  /\ IsFiniteSet(W) /\ Cardinality(W) \in Nat
         /\ Cardinality(W \cup {w}) = Cardinality(W) + (IF w \in W THEN 0 ELSE 1)
         /\ Cardinality(W \ {w}) = Cardinality(W) - (IF w \in W THEN 1 ELSE 0)
<1>1. IsFiniteSet(W) /\ Cardinality(W) \in Nat
  BY WritersAssumption, FS_Subset, FS_CardinalityType
<1>2. Cardinality(W \cup {w}) = IF w \in W THEN Cardinality(W) ELSE Cardinality(W) + 1
  BY <1>1, FS_AddElement
<1>3. Cardinality(W \ {w}) = IF w \in W THEN Cardinality(W) - 1 ELSE Cardinality(W)
  BY <1>1, FS_RemoveElement
<1> QED
  BY <1>1, <1>2, <1>3

(* Characters are stored behind those that are there. *)
LEMMA StoredFacts ==
  ASSUME NEW o \in OutRec, NEW q \in Seq(Chars)
  PROVE  /\ Stored(o, q) \in OutRec
         /\ Stored(o, q).ohead = (o.ohead + Len(q)) % OBUFLEN
         /\ Stored(o, q).otail = o.otail
         /\ Stored(o, q).obuff = Filled(o.obuff, OBUFLEN, o.ohead, q)
         /\ Stored(o, q).ocnt = o.ocnt + Len(q)
         /\ Stored(o, q).odsend = o.odsend
         /\ Stored(o, q).echo = o.echo /\ Stored(o, q).oheld = o.oheld
         /\ Stored(o, q).udrie <=> (o.udrie \/ q # <<>>)
<1>1. Len(q) \in Nat
  OBVIOUS
<1>2. PICK h, b, n, u : /\ h = (o.ohead + Len(q)) % OBUFLEN
                        /\ b = Filled(o.obuff, OBUFLEN, o.ohead, q)
                        /\ n = o.ocnt + Len(q) /\ u = (o.udrie \/ q # <<>>)
  OBVIOUS
<1>3. h \in 0..(OBUFLEN - 1)
  <2>1. o.ohead + Len(q) \in Int /\ OBUFLEN \in Nat \ {0}
    BY <1>1, OutFields, Sizes
  <2> QED
    BY <1>2, <2>1, DivMod
<1>4. b \in [0..(OBUFLEN - 1) -> Chars]
  BY <1>2, OutFields, Sizes, FilledType
<1>5. n \in Nat /\ u \in BOOLEAN
  BY <1>1, <1>2, OutFields
<1>6. Stored(o, q) = [o EXCEPT !.obuff = b, !.ohead = h, !.ocnt = n, !.udrie = u]
  BY <1>2 DEF Stored
<1>7. /\ Stored(o, q) \in OutRec
      /\ Stored(o, q).ohead = h /\ Stored(o, q).otail = o.otail /\ Stored(o, q).obuff = b
      /\ Stored(o, q).ocnt = n /\ Stored(o, q).odsend = o.odsend
      /\ Stored(o, q).echo = o.echo /\ Stored(o, q).oheld = o.oheld
      /\ Stored(o, q).udrie = u
  BY <1>3, <1>4, <1>5, <1>6 DEF OutRec
<1> QED
  BY <1>2, <1>7

(* The ring's head is where its tail and its count say. *)
LEMMA RingMoves ==
  ASSUME NEW h, NEW t \in Int, NEW n \in Int, NEW k \in Int, NEW L \in Nat \ {0}, h = (t + n) % L
  PROVE  (h + k) % L = (t + (n + k)) % L
<1>1. t + n \in Int /\ (t + n) + k = t + (n + k)
  OBVIOUS
<1>2. (((t + n) % L) + k) % L = ((t + n) + k) % L
  BY <1>1, ModAdd
<1> QED
  BY <1>1, <1>2

(* What a writer may store and take, and whether it then waits. *)
LEMMA PutCounts ==
  ASSUME NEW c \in Int, NEW g \in {0, 1}, NEW n \in Nat, g = 1 => n >= 1,
         NEW k, k = Smaller(n, g + Larger(c, 0))
  PROVE  /\ k \in 0..n /\ k - Smaller(g, k) \in Nat /\ k - Smaller(g, k) = k - g
         /\ k - Smaller(g, k) <= Larger(c, 0)
         /\ k < n => k - Smaller(g, k) = Larger(c, 0)
BY DEF Smaller, Larger

(* A step that puts characters, with what it leaves: k characters go into   *)
(* the ring, and the counts they need are taken.                            *)
LEMMA PutSomeKeeps ==
  ASSUME OutInv, NEW w \in Writers, NEW o \in OutRec, NEW at \in {"putc", "write"},
         NEW rest \in Seq(Chars), NEW n \in 0..Len(rest), NEW granted \in BOOLEAN,
         granted = writer[w].waited, granted => n >= 1 /\ Granted(w, osem),
         o = out \/ o = [out EXCEPT !.udrie = TRUE],
         writer[w].at = "copied" => o.udrie,
         PutSome(w, o, at, rest, n, granted)
  PROVE  /\ OutInv'
         /\ \E q \in Seq(Chars) : out' = Stored(o, q)
<1> DEFINE g == IF granted THEN 1 ELSE 0
           c == osem.semcnt
           k == Smaller(n, g + Larger(c, 0))
           block == k < n
           b == IF block THEN 1 ELSE 0
           q == SubSeq(rest, 1, k)
           left == SubSeq(rest, k + 1, Len(rest))
           new == [at |-> IF left = <<>> THEN "idle" ELSE at, rest |-> left, waited |-> block]
<1>1. /\ out' = Stored(o, q)
      /\ osem' = TakeCounts(osem, k - Smaller(g, k), block, w)
      /\ writer' = [writer EXCEPT ![w] = new]
  BY DEF PutSome
<1>2. /\ out \in OutRec /\ osem \in SemRec(Writers) /\ writer \in [Writers -> WriterRec]
      /\ c \in Int /\ n \in Nat /\ g \in {0, 1} /\ Len(rest) \in Nat /\ n <= Len(rest)
      /\ QueueOK(osem, OutWaits)
  BY DEF OutInv, OutTypes, SemRec
<1>3. /\ k \in 0..n /\ k - Smaller(g, k) \in Nat /\ k - Smaller(g, k) = k - g
      /\ k - Smaller(g, k) <= Larger(c, 0)
      /\ block => k - Smaller(g, k) = Larger(c, 0)
  <2>1. g = 1 => n >= 1
    OBVIOUS
  <2> HIDE DEF g, c
  <2> QED
    BY <1>2, <2>1, PutCounts
<1>4. /\ q \in Seq(Chars) /\ Len(q) = k /\ left \in Seq(Chars) /\ (block => left # <<>>)
      /\ block \in BOOLEAN /\ b \in {0, 1} /\ k \in Nat /\ b = (IF block THEN 1 ELSE 0)
  <2>1. k \in Nat /\ k <= n
    BY <1>2, <1>3
  <2> HIDE DEF k
  <2>2. q \in Seq(Chars) /\ Len(q) = k
    BY <1>2, <2>1
  <2>3. \A i \in (k + 1)..Len(rest) : rest[i] \in Chars
    BY <1>2, <2>1
  <2>4. left \in Seq(Chars) /\ Len(left) = IF k + 1 <= Len(rest) THEN Len(rest) - (k + 1) + 1 ELSE 0
    BY <1>2, <2>1, <2>3, SubSeqProperties
  <2>5. ASSUME block PROVE left # <<>>
    <3>1. Len(left) > 0
      BY <1>2, <2>1, <2>4, <2>5
    <3> HIDE DEF left
    <3> QED
      BY <2>4, <3>1
  <2> QED
    BY <2>1, <2>2, <2>4, <2>5
<1> HIDE DEF k, q, left, b, block, g, c
<1>5. new \in WriterRec /\ new.waited = block /\ new.rest = left
      /\ (new.at \in {"putc", "write"} <=> left # <<>>) /\ new.at # "copied"
  BY <1>4 DEF WriterRec
<1> HIDE DEF new
<1>6. /\ writer' \in [Writers -> WriterRec] /\ writer'[w] = new
      /\ \A v \in Writers \ {w} : writer'[v] = writer[v]
  BY <1>1, <1>2, <1>5
<1>7. OutWaits' = IF block THEN OutWaits \cup {w} ELSE OutWaits \ {w}
  BY <1>4, <1>5, <1>6 DEF OutWaits
<1>8. Granted(w, osem)
  <2>1. CASE granted
    BY <2>1
  <2>2. CASE ~granted
    <3>1. w \notin OutWaits
      BY <2>2 DEF OutWaits
    <3>2. DOMAIN osem.sq = 1..Len(osem.sq)
      BY <1>2 DEF SemRec
    <3> QED
      BY <1>2, <3>1, <3>2 DEF QueueOK, Granted
  <2> QED
    BY <2>1, <2>2
<1>9. /\ osem' \in SemRec(Writers) /\ osem'.semcnt = c - (k - g) - b
      /\ QueueOK(osem', OutWaits')
  <2>1. PICK m : m = k - Smaller(g, k)
    OBVIOUS
  <2>2. m \in Nat /\ m = k - g /\ m <= Larger(osem.semcnt, 0)
        /\ (block => m = Larger(osem.semcnt, 0))
    BY <1>3, <2>1 DEF c
  <2>3. osem' = TakeCounts(osem, m, block, w)
    BY <1>1, <2>1
  <2>4. CASE block
    <3>1. osem' = [semcnt |-> osem.semcnt - m - 1, sq |-> Append(osem.sq, w)]
      BY <2>3, <2>4 DEF TakeCounts
    <3>2. /\ osem' \in SemRec(Writers) /\ osem'.semcnt = osem.semcnt - m - 1
          /\ QueueOK(osem', OutWaits \cup {w})
      <4>1. PICK s, r, W : s = osem /\ r = osem' /\ W = OutWaits
        OBVIOUS
      <4>2. /\ s \in SemRec(Writers) /\ QueueOK(s, W) /\ Granted(w, s)
            /\ m \in Nat /\ m = Larger(s.semcnt, 0)
            /\ r.semcnt = s.semcnt - m - 1 /\ r.sq = Append(s.sq, w)
        BY <1>2, <1>8, <2>2, <2>4, <3>1, <4>1
      <4>3. QueueOK(r, W \cup {w})
        BY <4>2, TakeBlocks
      <4>4. osem.semcnt - m - 1 \in Int /\ Append(osem.sq, w) \in Seq(Writers)
        BY <1>2, <2>2 DEF SemRec
      <4>5. osem' \in SemRec(Writers)
        BY <3>1, <4>4 DEF SemRec
      <4> QED
        BY <3>1, <4>1, <4>3, <4>5
    <3> QED
      BY <1>4, <1>7, <2>2, <2>4, <3>2 DEF c
  <2>5. CASE ~block
    <3>1. osem' = [osem EXCEPT !.semcnt = osem.semcnt - m]
      BY <2>3, <2>5 DEF TakeCounts
    <3>2. /\ osem' \in SemRec(Writers) /\ osem'.semcnt = osem.semcnt - m
          /\ QueueOK(osem', OutWaits \ {w})
      <4>1. PICK s, r, W : s = osem /\ r = osem' /\ W = OutWaits
        OBVIOUS
      <4>2. /\ s \in SemRec(Writers) /\ QueueOK(s, W) /\ Granted(w, s)
            /\ m \in Nat /\ m <= Larger(s.semcnt, 0) /\ r = [s EXCEPT !.semcnt = s.semcnt - m]
        BY <1>2, <1>8, <2>2, <3>1, <4>1
      <4>3. r \in SemRec(Writers) /\ r.semcnt = s.semcnt - m /\ QueueOK(r, W \ {w})
        BY <4>2, TakeGoesOn
      <4> QED
        BY <4>1, <4>3
    <3>3. osem.semcnt \in Int /\ m \in Int /\ b = 0
      BY <1>2, <1>4, <2>2, <2>5 DEF c
    <3> QED
      BY <1>7, <2>2, <2>5, <3>2, <3>3 DEF c
  <2> QED
    BY <2>4, <2>5
<1>10. WriterInv'
  BY <1>4, <1>5, <1>6 DEF OutInv, WriterInv
<1>11. /\ out' \in OutRec /\ out'.ohead = (out.ohead + k) % OBUFLEN
       /\ out'.otail = out.otail /\ out'.ocnt = out.ocnt + k /\ out'.odsend = out.odsend
       /\ out'.echo = out.echo /\ out'.oheld = out.oheld /\ (out'.udrie <=> o.udrie \/ q # <<>>)
       /\ (out.udrie => o.udrie)
  <2>1. /\ o.ohead = out.ohead /\ o.otail = out.otail /\ o.ocnt = out.ocnt
        /\ o.odsend = out.odsend /\ o.echo = out.echo /\ o.oheld = out.oheld
        /\ (out.udrie => o.udrie)
    BY <1>2 DEF OutRec
  <2> QED
    <3>1. PICK p, z : p = Stored(o, q) /\ z = q
      OBVIOUS
    <3>2. /\ p \in OutRec
          /\ p.ohead = (o.ohead + Len(z)) % OBUFLEN
          /\ p.otail = o.otail /\ p.ocnt = o.ocnt + Len(z) /\ p.odsend = o.odsend
          /\ p.echo = o.echo /\ p.oheld = o.oheld
          /\ p.udrie <=> (o.udrie \/ z # <<>>)
      BY <1>4, <3>1, StoredFacts
    <3>3. out' = p /\ Len(z) = k
      BY <1>1, <1>4, <3>1
    <3> QED
      BY <2>1, <3>1, <3>2, <3>3
<1>12. OutRing'
  <2>1. out.otail \in Int /\ out.ocnt \in Int /\ k \in Int /\ OBUFLEN \in Nat \ {0}
    BY <1>2, <1>4, OutFields, Sizes
  <2>2. out.ohead = (out.otail + out.ocnt) % OBUFLEN
    BY DEF OutInv, OutRing
  <2>3. (out.ohead + k) % OBUFLEN = (out.otail + (out.ocnt + k)) % OBUFLEN
    BY <2>1, <2>2, RingMoves
  <2> QED
    BY <1>11, <2>3 DEF OutRing
<1>13. OutputArmed'
  <2>1. CASE o.udrie \/ q # <<>>
    BY <1>11, <2>1 DEF OutputArmed
  <2>2. CASE ~o.udrie /\ q = <<>>
    <3>1. k = 0 /\ out'.ocnt = out.ocnt
      BY <1>2, <1>4, <1>11, <2>2, OutFields
    <3>2. \A v \in Writers : writer[v].at = "copied" => writer'[v].at = "copied"
      BY <1>6, <2>2
    <3> QED
      BY <1>11, <2>2, <3>1, <3>2 DEF OutputArmed, OutInv
  <2> QED
    BY <2>1, <2>2
<1>14. SpaceInv'
  <2>1. OutWaits \in SUBSET Writers /\ (w \in OutWaits <=> granted)
    BY DEF OutWaits
  <2>2. /\ Cardinality(OutWaits) \in Nat
        /\ Cardinality(OutWaits \cup {w}) = Cardinality(OutWaits) + (IF granted THEN 0 ELSE 1)
        /\ Cardinality(OutWaits \ {w}) = Cardinality(OutWaits) - (IF granted THEN 1 ELSE 0)
    BY <2>1, WaitsCount
  <2>3. Cardinality(OutWaits') = Cardinality(OutWaits) - g + b
    BY <1>4, <1>7, <2>2 DEF g
  <2>4. osem'.semcnt + Cardinality(OutWaits') + out'.ocnt + out'.odsend
          = osem.semcnt + Cardinality(OutWaits) + out.ocnt + out.odsend
    <3>1. /\ out.ocnt \in Int /\ out.odsend \in Int /\ c = osem.semcnt /\ c \in Int
          /\ k \in Int /\ g \in Int /\ b \in Int
      BY SMTT(60), <1>2, <1>4, OutFields, Sizes DEF c
    <3> QED
      BY SMTT(60), <1>9, <1>11, <2>2, <2>3, <3>1
  <2> QED
    BY <2>4 DEF SpaceInv, OutInv
<1> QED
  BY <1>1, <1>4, <1>6, <1>9, <1>10, <1>11, <1>12, <1>13, <1>14 DEF OutInv, OutTypes

(* What a step may do to the output ring: nothing, store, or send one. *)
SameRing ==
  /\ out'.otail = out.otail /\ out'.ocnt = out.ocnt /\ out'.obuff = out.obuff
  /\ out'.ohead = out.ohead /\ out'.odsend = out.odsend
Adding ==
  \E q \in Seq(Chars) : /\ out'.otail = out.otail /\ out'.ocnt = out.ocnt + Len(q)
                        /\ out'.obuff = Filled(out.obuff, OBUFLEN, out.ohead, q)
Sending ==
  /\ out.ocnt > 0 /\ out'.ocnt = out.ocnt - 1 /\ out'.obuff = out.obuff
  /\ out'.otail = (out.otail + 1) % OBUFLEN

OutMoves == SameRing \/ Adding \/ Sending

LEMMA PutMoves ==
  ASSUME out \in OutRec, NEW o \in OutRec, o = out \/ o = [out EXCEPT !.udrie = TRUE],
         \E q \in Seq(Chars) : out' = Stored(o, q)
  PROVE  Adding
<1>1. PICK q \in Seq(Chars) : out' = Stored(o, q)
  OBVIOUS
<1>2. o.otail = out.otail /\ o.ocnt = out.ocnt /\ o.obuff = out.obuff /\ o.ohead = out.ohead
  BY DEF OutRec
<1>3. PICK p : p = Stored(o, q)
  OBVIOUS
<1>4. /\ p.otail = o.otail /\ p.ocnt = o.ocnt + Len(q)
      /\ p.obuff = Filled(o.obuff, OBUFLEN, o.ohead, q)
  BY <1>3, StoredFacts
<1> QED
  BY <1>1, <1>2, <1>3, <1>4 DEF Adding

LEMMA WriterFacts ==
  ASSUME OutInv, NEW w \in Writers
  PROVE  /\ out \in OutRec
         /\ writer[w].at \in {"idle", "putc", "copied", "write"}
         /\ writer[w].rest \in Seq(Chars) /\ Len(writer[w].rest) \in Nat
         /\ writer[w].waited \in BOOLEAN
         /\ writer[w].waited => writer[w].at \in {"putc", "write"}
         /\ writer[w].at \in {"putc", "write"} => Len(writer[w].rest) >= 1
<1>1. out \in OutRec /\ writer[w] \in WriterRec
  BY DEF OutInv, OutTypes
<1>2. /\ writer[w].at \in {"idle", "putc", "copied", "write"}
      /\ writer[w].rest \in Seq(Chars) /\ Len(writer[w].rest) \in Nat
      /\ writer[w].waited \in BOOLEAN
  BY <1>1 DEF WriterRec
<1>3. ASSUME NEW q \in Seq(Chars), q # <<>> PROVE Len(q) >= 1
  BY <1>3
<1> QED
  BY <1>1, <1>2, <1>3 DEF OutInv, WriterInv

LEMMA PutcKeeps ==
  ASSUME OutInv, NEW w \in Writers, NEW c \in OutChars, Putc(w, c)
  PROVE  OutInv' /\ OutMoves
<1>1. writer[w].waited = FALSE /\ writer[w].at = "idle"
  BY WriterFacts DEF Putc
<1>2. OneCrlf(c) \in Seq(Chars) /\ 1 \in 0..Len(OneCrlf(c))
  BY SMTT(60) DEF OneCrlf, Chars
<1>3. PutSome(w, out, "putc", OneCrlf(c), 1, FALSE)
  BY DEF Putc
<1>4. PICK rest \in Seq(Chars) : rest = OneCrlf(c)
  BY <1>2
<1>5. out \in OutRec /\ 1 \in 0..Len(rest) /\ PutSome(w, out, "putc", rest, 1, FALSE)
  BY <1>2, <1>3, <1>4, WriterFacts
<1>6. OutInv' /\ \E q \in Seq(Chars) : out' = Stored(out, q)
  BY <1>1, <1>5, PutSomeKeeps
<1> QED
  BY <1>5, <1>6, PutMoves DEF OutMoves

LEMMA WriteRestKeeps ==
  ASSUME OutInv, NEW w \in Writers, WriteRest(w)
  PROVE  OutInv' /\ OutMoves
<1>1. writer[w].waited = FALSE /\ writer[w].at = "copied" /\ out \in OutRec
  BY WriterFacts DEF WriteRest
<1>2. PICK rest, n, o : rest = writer[w].rest /\ n = Len(rest) /\ o = [out EXCEPT !.udrie = TRUE]
  OBVIOUS
<1>3. rest \in Seq(Chars) /\ n \in 0..Len(rest)
  BY <1>2, WriterFacts
<1>4. o \in OutRec /\ o.udrie
  BY <1>1, <1>2 DEF OutRec
<1>5. PutSome(w, o, "write", rest, n, FALSE)
  BY <1>2 DEF WriteRest
<1>6. OutInv' /\ \E q \in Seq(Chars) : out' = Stored(o, q)
  BY <1>1, <1>2, <1>3, <1>4, <1>5, PutSomeKeeps
<1> QED
  BY <1>1, <1>2, <1>4, <1>6, PutMoves DEF OutMoves

LEMMA PutOnKeeps ==
  ASSUME OutInv, NEW w \in Writers, PutOn(w)
  PROVE  OutInv' /\ OutMoves
<1>1. /\ out \in OutRec /\ writer[w].at \in {"putc", "write"} /\ writer[w].at # "copied"
      /\ writer[w].waited \in BOOLEAN /\ (writer[w].waited => Granted(w, osem))
  BY WriterFacts DEF PutOn
<1>2. PICK rest, n, at, gr :
        /\ rest = writer[w].rest /\ at = writer[w].at /\ gr = writer[w].waited
        /\ n = IF writer[w].at = "putc" THEN 1 ELSE Len(writer[w].rest)
  OBVIOUS
<1>3. rest \in Seq(Chars) /\ n \in 0..Len(rest) /\ n >= 1 /\ at \in {"putc", "write"}
  BY <1>1, <1>2, WriterFacts
<1>4. PutSome(w, out, at, rest, n, gr)
  BY <1>2 DEF PutOn
<1>5. CASE gr = TRUE
  <2>1. PutSome(w, out, at, rest, n, TRUE) /\ writer[w].waited = TRUE /\ Granted(w, osem)
    BY <1>1, <1>2, <1>4, <1>5
  <2>2. OutInv' /\ \E q \in Seq(Chars) : out' = Stored(out, q)
    BY <1>1, <1>3, <2>1, PutSomeKeeps
  <2> QED
    BY <1>1, <2>2, PutMoves DEF OutMoves
<1>6. CASE gr = FALSE
  <2>1. PutSome(w, out, at, rest, n, FALSE) /\ writer[w].waited = FALSE
    BY <1>2, <1>4, <1>6
  <2>2. OutInv' /\ \E q \in Seq(Chars) : out' = Stored(out, q)
    BY <1>1, <1>3, <2>1, PutSomeKeeps
  <2> QED
    BY <1>1, <2>2, PutMoves DEF OutMoves
<1> QED
  BY <1>1, <1>2, <1>5, <1>6

LEMMA TextType ==
  ASSUME NEW t \in Texts
  PROVE  t \in Seq(Chars)
<1>1. PICK n \in 1..MaxText : t \in [1..n -> OutChars \cap use]
  BY DEF Texts
<1>2. n \in Nat
  BY <1>1, Sizes
<1>3. \A i \in 1..n : t[i] \in Chars
  BY <1>1 DEF Chars
<1> QED
  BY <1>1, <1>2, <1>3

(* ttywrite() sets the count to what is free, whoever waits: the sum then   *)
(* exceeds the ring by the writers released, of which the caller is none,   *)
(* and by the signals put off.                                              *)
LEMMA WriteKeeps ==
  ASSUME OutInv, NEW w \in Writers, NEW t \in Texts, Write(w, t)
  PROVE  OutInv' /\ OutMoves
<1> DEFINE n == Copied(t)
           q == Crlf(SubSeq(t, 1, n))
           rest == Crlf(SubSeq(t, n + 1, Len(t)))
           new == [at |-> "copied", rest |-> rest, waited |-> FALSE]
           o == Stored(out, q)
<1>1. /\ writer[w].at = "idle" /\ out' = [o EXCEPT !.udrie = out.udrie]
      /\ osem' = Sreset(osem, OBUFLEN - out'.ocnt)
      /\ writer' = [writer EXCEPT ![w] = new]
  BY DEF Write
<1>2. /\ out \in OutRec /\ osem \in SemRec(Writers) /\ writer \in [Writers -> WriterRec]
      /\ QueueOK(osem, OutWaits) /\ out.ocnt \in Nat /\ out.udrie \in BOOLEAN
      /\ writer[w].waited = FALSE
  BY <1>1, WriterFacts, OutFields DEF OutInv, OutTypes
<1>3. /\ n \in 0..Len(t) /\ q \in Seq(Chars) /\ Len(q) \in Nat
      /\ q = <<>> \/ out.ocnt + Len(q) <= OBUFLEN
  BY <1>2, TextType, CopiedFits
<1>4. rest \in Seq(Chars)
  <2> HIDE DEF n
  <2>1. t \in Seq(Chars) /\ Len(t) \in Nat /\ n + 1 \in Int
    BY <1>3, TextType
  <2>2. \A i \in (n + 1)..Len(t) : t[i] \in Chars
    BY <1>3, <2>1
  <2>3. SubSeq(t, n + 1, Len(t)) \in Seq(Chars)
    BY <2>1, <2>2, SubSeqProperties
  <2>4. PICK s : s = SubSeq(t, n + 1, Len(t))
    OBVIOUS
  <2> QED
    BY <2>3, <2>4, CrlfType
<1> HIDE DEF q, rest, n
<1>5. new \in WriterRec
  BY <1>4 DEF WriterRec
<1>6. /\ writer' \in [Writers -> WriterRec] /\ writer'[w] = new /\ writer'[w].at = "copied"
      /\ writer'[w].waited = FALSE
      /\ \A v \in Writers \ {w} : writer'[v] = writer[v]
  <2> HIDE DEF new
  <2>1. /\ writer' \in [Writers -> WriterRec] /\ writer'[w] = new
        /\ \A v \in Writers \ {w} : writer'[v] = writer[v]
    BY <1>1, <1>2, <1>5
  <2> QED
    BY <2>1 DEF new
<1> HIDE DEF new
<1>7. OutWaits' = OutWaits /\ w \notin OutWaits
  BY <1>2, <1>6 DEF OutWaits
<1>8. /\ o \in OutRec /\ o.ohead = (out.ohead + Len(q)) % OBUFLEN
      /\ o.otail = out.otail /\ o.ocnt = out.ocnt + Len(q) /\ o.odsend = out.odsend
      /\ o.obuff = Filled(out.obuff, OBUFLEN, out.ohead, q)
  BY <1>2, <1>3, StoredFacts
<1> HIDE DEF o
<1>9. /\ out' \in OutRec /\ out'.ohead = o.ohead /\ out'.otail = o.otail
      /\ out'.ocnt = o.ocnt /\ out'.odsend = o.odsend /\ out'.obuff = o.obuff
  BY <1>1, <1>2, <1>8 DEF OutRec
<1>10. Adding
  BY <1>3, <1>8, <1>9 DEF Adding
<1>11. OutRing'
  <2>1. out.otail \in Int /\ out.ocnt \in Int /\ Len(q) \in Int /\ OBUFLEN \in Nat \ {0}
    BY <1>2, <1>3, OutFields, Sizes
  <2>2. out.ohead = (out.otail + out.ocnt) % OBUFLEN
    BY DEF OutInv, OutRing
  <2>3. (out.ohead + Len(q)) % OBUFLEN = (out.otail + (out.ocnt + Len(q))) % OBUFLEN
    BY <2>1, <2>2, RingMoves
  <2> QED
    BY <1>8, <1>9, <2>3 DEF OutRing
<1>12. OutputArmed'
  BY <1>6 DEF OutputArmed
<1>13. WriterInv'
  BY <1>6 DEF WriterInv, OutInv
<1>14. PICK room : room = OBUFLEN - out'.ocnt
  OBVIOUS
<1>15. room \in Int /\ out'.ocnt = out.ocnt + Len(q) /\ out'.ocnt \in Nat
  BY <1>2, <1>3, <1>8, <1>9, <1>14, Sizes
<1>16. CASE room >= 0
  <2>1. osem' = Sreset(osem, room) /\ room \in Nat
    BY <1>1, <1>14, <1>15, <1>16
  <2>2. PICK r : r = Sreset(osem, room)
    OBVIOUS
  <2>3. r \in SemRec(Writers) /\ r.semcnt = room /\ QueueOK(r, OutWaits)
    BY <1>2, <2>1, <2>2, ResetQueue
  <2>4. OutWaits \in SUBSET (Writers \ {w}) /\ Writers \in SUBSET Writers
    BY <1>7 DEF OutWaits
  <2>5. /\ IsFiniteSet(Writers \ {w}) /\ Cardinality(Writers) \in Nat
        /\ Cardinality(Writers \ {w}) = Cardinality(Writers) - 1
    <3>1. IsFiniteSet(Writers \ {w})
      BY WritersAssumption, FS_RemoveElement
    <3>2. /\ Cardinality(Writers) \in Nat
          /\ Cardinality(Writers \ {w}) = Cardinality(Writers) - (IF w \in Writers THEN 1 ELSE 0)
      BY <2>4, WaitsCount
    <3> QED
      BY <3>1, <3>2
  <2>6. Cardinality(OutWaits) <= Cardinality(Writers) - 1 /\ Cardinality(OutWaits) \in Nat
    BY <2>4, <2>5, FS_Subset, FS_CardinalityType
  <2>7. out'.odsend \in 0..(OBMINSP - 1) /\ OBMINSP \in Nat /\ OBUFLEN \in Nat
    BY <1>2, <1>8, <1>9, OutFields, Sizes
  <2>8. room + Cardinality(OutWaits) + out'.ocnt + out'.odsend
          = OBUFLEN + Cardinality(OutWaits) + out'.odsend
    BY SMTT(60), <1>14, <1>15, <2>6, <2>7
  <2>9. Cardinality(Writers) - 1 <= Larger(Cardinality(Writers) - 1, 0)
        /\ Larger(Cardinality(Writers) - 1, 0) \in Nat
    BY <2>5 DEF Larger
  <2>10. SpaceInv'
    <3>1. osem'.semcnt = room /\ Cardinality(OutWaits') = Cardinality(OutWaits)
      BY <1>7, <2>1, <2>2, <2>3
    <3> QED
      BY <2>5, <2>6, <2>7, <2>8, <2>9, <3>1 DEF SpaceInv
  <2>11. osem' \in SemRec(Writers) /\ QueueOK(osem', OutWaits')
    BY <1>7, <2>1, <2>2, <2>3
  <2> QED
    BY <1>6, <1>9, <1>10, <1>11, <1>12, <1>13, <2>10, <2>11 DEF OutInv, OutTypes, OutMoves
<1>17. CASE room < 0
  <2>1. osem' = osem
    BY <1>1, <1>14, <1>17 DEF Sreset
  <2>2. q = <<>>
    BY <1>2, <1>3, <1>14, <1>15, <1>17, Sizes
  <2>3. out'.ocnt = out.ocnt /\ out'.odsend = out.odsend
    BY <1>2, <1>8, <1>9, <1>15, <2>2
  <2>4. SpaceInv'
    BY <1>7, <2>1, <2>3 DEF SpaceInv, OutInv
  <2> QED
    BY <1>2, <1>6, <1>7, <1>9, <1>10, <1>11, <1>12, <1>13, <2>1, <2>4
       DEF OutInv, OutTypes, OutMoves
<1> QED
  BY <1>15, <1>16, <1>17

(* Steps that leave the ring, the semaphore and the writers alone. *)
LEMMA QuietKeeps ==
  ASSUME OutInv, out' \in OutRec, SameRing, UNCHANGED <<osem, writer>>, OutputArmed'
  PROVE  OutInv' /\ OutMoves
<1>1. OutWaits' = OutWaits /\ WriterInv'
  BY DEF OutWaits, OutInv, WriterInv
<1>2. SpaceInv' /\ OutRing'
  BY <1>1 DEF SpaceInv, OutRing, OutInv, SameRing
<1> QED
  BY <1>1, <1>2 DEF OutInv, OutTypes, OutMoves

LEMMA SignalKeeps ==
  ASSUME OutInv, UNCHANGED writer, NEW n \in Nat, osem' = Signaln(osem, n)
  PROVE  /\ osem' \in SemRec(Writers) /\ osem'.semcnt = osem.semcnt + n
         /\ QueueOK(osem', OutWaits')
<1>1. OutWaits' = OutWaits /\ osem \in SemRec(Writers) /\ QueueOK(osem, OutWaits)
  BY DEF OutWaits, OutInv, OutTypes
<1>2. PICK r, s, W : r = Signaln(osem, n) /\ s = osem /\ W = OutWaits
  OBVIOUS
<1>3. r \in SemRec(Writers) /\ r.semcnt = s.semcnt + n /\ QueueOK(r, W)
  BY <1>1, <1>2, SignalQueue
<1> QED
  BY <1>1, <1>2, <1>3

LEMMA SendKeeps ==
  ASSUME OutInv, out.udrie, out.ocnt > 0, SendChar(out), UNCHANGED writer
  PROVE  OutInv' /\ OutMoves
<1>1. /\ out \in OutRec /\ out.ocnt \in Nat /\ out.odsend \in 0..(OBMINSP - 1)
      /\ out.otail \in 0..(OBUFLEN - 1) /\ OBMINSP \in Nat \ {0} /\ OBUFLEN \in Nat \ {0}
      /\ osem \in SemRec(Writers) /\ osem.semcnt \in Int
  BY OutFields, Sizes DEF OutInv, OutTypes, SemRec
<1>2. PICK tl, ds : /\ tl = (out.otail + 1) % OBUFLEN
                    /\ ds = IF out.ocnt > OBMINSP THEN out.odsend
                            ELSE (out.odsend + 1) % OBMINSP
  OBVIOUS
<1>3. tl \in 0..(OBUFLEN - 1)
  <2>1. out.otail + 1 \in Int
    BY <1>1
  <2> QED
    BY <1>1, <1>2, <2>1, DivMod
<1>4. ds = IF out.ocnt > OBMINSP THEN out.odsend
           ELSE IF out.odsend + 1 = OBMINSP THEN 0 ELSE out.odsend + 1
  <2>1. ASSUME out.odsend + 1 = OBMINSP PROVE (out.odsend + 1) % OBMINSP = 0
    <3>1. OBMINSP \in Int /\ OBMINSP = OBMINSP * 1 + 0 /\ 0 \in 0..(OBMINSP - 1)
      BY <1>1
    <3> QED
      BY <1>1, <2>1, <3>1, ModUnique
  <2>2. ASSUME out.odsend + 1 # OBMINSP PROVE (out.odsend + 1) % OBMINSP = out.odsend + 1
    <3>1. out.odsend + 1 \in 0..(OBMINSP - 1)
      BY <1>1, <2>2
    <3> QED
      BY <1>1, <3>1, ModSmall
  <2> QED
    BY <1>2, <2>1, <2>2
<1>5. ds \in 0..(OBMINSP - 1)
  BY <1>1, <1>4
<1>6. out' = [out EXCEPT !.otail = tl, !.ocnt = out.ocnt - 1, !.odsend = ds]
  BY <1>2 DEF SendChar
<1>7. /\ out' \in OutRec /\ out'.otail = tl /\ out'.ocnt = out.ocnt - 1 /\ out'.odsend = ds
      /\ out'.ohead = out.ohead /\ out'.obuff = out.obuff /\ out'.udrie = out.udrie
  <2>1. out.ocnt - 1 \in Nat
    BY <1>1
  <2> QED
    BY <1>1, <1>3, <1>5, <1>6, <2>1 DEF OutRec
<1>8. Sending
  BY <1>2, <1>7 DEF Sending
<1>9. OutRing'
  <2>1. out.otail + 1 \in Int /\ out.ocnt - 1 \in Int
        /\ (out.otail + 1) + (out.ocnt - 1) = out.otail + out.ocnt
    BY <1>1
  <2>2. (tl + (out.ocnt - 1)) % OBUFLEN = (out.otail + out.ocnt) % OBUFLEN
    BY ZenonT(60), <1>1, <1>2, <2>1, ModAdd
  <2>3. out.ohead = (out.otail + out.ocnt) % OBUFLEN
    BY DEF OutInv, OutRing
  <2> QED
    BY <1>7, <2>2, <2>3 DEF OutRing
<1>10. OutputArmed'
  BY <1>7 DEF OutputArmed
<1>11. WriterInv' /\ OutWaits' = OutWaits /\ writer' \in [Writers -> WriterRec]
  BY DEF WriterInv, OutInv, OutWaits, OutTypes
<1>12. PICK m \in Nat : /\ m = IF out.ocnt > OBMINSP THEN 1
                               ELSE IF out.odsend + 1 = OBMINSP THEN OBMINSP ELSE 0
                        /\ m = 0 \/ osem' = Signaln(osem, m)
                        /\ m = 0 => osem' = osem
  <2>1. PICK m : m = IF out.ocnt > OBMINSP THEN 1
                     ELSE IF out.odsend + 1 = OBMINSP THEN OBMINSP ELSE 0
    OBVIOUS
  <2>2. m \in Nat
    BY <1>1, <2>1
  <2>3. CASE out.ocnt > OBMINSP
    <3>1. osem' = Signaln(osem, 1)
      BY <1>1, <2>3 DEF SendChar
    <3> QED
      BY <2>1, <2>2, <2>3, <3>1
  <2>4. CASE ~(out.ocnt > OBMINSP) /\ out.odsend + 1 = OBMINSP
    <3>1. osem' = Signaln(osem, OBMINSP)
      BY <1>1, <2>4 DEF SendChar
    <3> QED
      BY <1>1, <2>1, <2>2, <2>4, <3>1
  <2>5. CASE ~(out.ocnt > OBMINSP) /\ out.odsend + 1 # OBMINSP
    <3>1. osem' = osem
      BY <1>1, <2>5 DEF SendChar
    <3> QED
      BY <2>1, <2>2, <2>5, <3>1
  <2> QED
    BY <2>3, <2>4, <2>5
<1>13. /\ osem' \in SemRec(Writers) /\ osem'.semcnt = osem.semcnt + m
       /\ QueueOK(osem', OutWaits')
  <2>1. CASE m = 0
    BY <1>1, <1>11, <1>12, <2>1 DEF OutInv
  <2>2. CASE m # 0
    BY <1>12, <2>2, SignalKeeps
  <2> QED
    BY <2>1, <2>2
<1>14. SpaceInv'
  <2>1. ds + m = out.odsend + 1 /\ ds \in Int
    BY <1>1, <1>4, <1>12
  <2>2. Cardinality(OutWaits) \in Int
    BY WritersAssumption, FS_Subset, FS_CardinalityType DEF OutWaits
  <2>3. osem'.semcnt + Cardinality(OutWaits') + out'.ocnt + out'.odsend
          = osem.semcnt + Cardinality(OutWaits) + out.ocnt + out.odsend
    BY <1>1, <1>7, <1>11, <1>13, <2>1, <2>2
  <2> QED
    BY <2>3 DEF SpaceInv, OutInv
<1> QED
  BY <1>7, <1>8, <1>9, <1>10, <1>11, <1>13, <1>14 DEF OutInv, OutTypes, OutMoves

LEMMA ttyoinKeeps ==
  ASSUME OutInv, ttyoin
  PROVE  OutInv' /\ OutMoves
<1>1. out \in OutRec /\ out.echo \in 0..(EBUFLEN - 1) /\ out.udrie /\ writer' = writer
  BY OutFields DEF OutInv, OutTypes, ttyoin
<1>2. CASE out.echo > 0 /\ out' = [out EXCEPT !.echo = @ - 1] /\ UNCHANGED osem
  <2>1. out.echo - 1 \in 0..(EBUFLEN - 1)
    BY <1>1, <1>2, Sizes
  <2>2. out' \in OutRec /\ SameRing /\ out'.udrie = out.udrie
    BY <1>1, <1>2, <2>1 DEF OutRec, SameRing
  <2>3. OutputArmed'
    BY <1>1, <2>2 DEF OutputArmed
  <2> QED
    BY <1>1, <1>2, <2>2, <2>3, QuietKeeps
<1>3. CASE out.ocnt > 0 /\ SendChar(out)
  BY <1>1, <1>3, SendKeeps
<1>4. CASE /\ out.echo = 0 /\ (out.oheld \/ out.ocnt = 0)
           /\ out' = [out EXCEPT !.udrie = FALSE] /\ UNCHANGED osem
  <2>1. /\ out' \in OutRec /\ SameRing /\ out'.echo = out.echo /\ out'.oheld = out.oheld
        /\ out'.ocnt = out.ocnt
    BY <1>1, <1>4 DEF OutRec, SameRing
  <2>2. OutputArmed'
    BY <1>4, <2>1 DEF OutputArmed
  <2> QED
    BY <1>1, <1>4, <2>1, <2>2, QuietKeeps
<1> QED
  BY <1>2, <1>3, <1>4 DEF ttyoin

-----------------------------------------------------------------------------
(* The input side. *)

InRec == [ihead : 0..(IBUFLEN - 1), itail : 0..(IBUFLEN - 1),
          ibuff : [0..(IBUFLEN - 1) -> Chars],
          icnt : 0..(MaxIcnt + IBUFLEN), icursor : 0..(IBUFLEN - 1),
          imode : {"IMRAW", "IMCBREAK", "IMCOOKED"},
          iecho : BOOLEAN, ecrlf : BOOLEAN, iintr : BOOLEAN, late : 0..1]

ReaderRec == [at : {"idle", "getc", "nextc", "peeked", "later"},
              want : Nat, any : BOOLEAN, waited : BOOLEAN]

InWaits == IF reader.waited THEN {"reader"} ELSE {}

ReaderInv ==
  /\ reader.waited => reader.at \in {"getc", "nextc", "later"}
  /\ reader.at \in {"getc", "nextc"} => reader.waited
  /\ reader.at = "later" => reader.want >= 1

(* A reader that waits has its character in the sum, on the queue or not.   *)
CountInv == in.icnt = isem.semcnt + (IF reader.at = "peeked" \/ reader.waited THEN 1 ELSE 0)

InRing == in.ihead = (in.itail + (in.icnt + in.icursor)) % IBUFLEN

InTypes == in \in InRec /\ isem \in SemRec({"reader"}) /\ reader \in ReaderRec

InInv == InTypes /\ ReaderInv /\ QueueOK(isem, InWaits) /\ CountInv /\ InRing

(* What a step may do to the input ring: leave what is finished, store a    *)
(* character, or take some.                                                 *)
SameInput ==
  in'.itail = in.itail /\ in'.icnt = in.icnt /\ in'.ibuff = in.ibuff
Keeping ==
  \E c \in Chars : /\ in'.itail = in.itail /\ in'.icnt >= in.icnt
                   /\ in'.icnt + in'.icursor = in.icnt + in.icursor + 1
                   /\ in'.ibuff = [in.ibuff EXCEPT ![in.ihead] = c]
Taking ==
  \E n \in 0..in.icnt : /\ in'.itail = (in.itail + n) % IBUFLEN /\ in'.icnt = in.icnt - n
                        /\ in'.ibuff = in.ibuff /\ in'.ihead = in.ihead

InMoves == SameInput \/ Keeping \/ Taking

LEMMA InFields ==
  ASSUME NEW i \in InRec
  PROVE  /\ i.ihead \in 0..(IBUFLEN - 1) /\ i.itail \in 0..(IBUFLEN - 1)
         /\ i.ibuff \in [0..(IBUFLEN - 1) -> Chars]
         /\ i.icnt \in 0..(MaxIcnt + IBUFLEN) /\ i.icnt \in Nat
         /\ i.icursor \in 0..(IBUFLEN - 1) /\ i.icursor \in Nat
         /\ i.imode \in {"IMRAW", "IMCBREAK", "IMCOOKED"}
         /\ i.iecho \in BOOLEAN /\ i.ecrlf \in BOOLEAN /\ i.iintr \in BOOLEAN
         /\ i.late \in 0..1
<1>1. /\ i.ihead \in 0..(IBUFLEN - 1) /\ i.itail \in 0..(IBUFLEN - 1)
      /\ i.ibuff \in [0..(IBUFLEN - 1) -> Chars]
      /\ i.icnt \in 0..(MaxIcnt + IBUFLEN) /\ i.icursor \in 0..(IBUFLEN - 1)
      /\ i.imode \in {"IMRAW", "IMCBREAK", "IMCOOKED"}
      /\ i.iecho \in BOOLEAN /\ i.ecrlf \in BOOLEAN /\ i.iintr \in BOOLEAN
      /\ i.late \in 0..1
  BY DEF InRec
<1> QED
  BY <1>1, Sizes

LEMMA EchoQuiet ==
  ASSUME OutInv, NEW n \in Nat, out' = Eputc(out, n), UNCHANGED <<osem, writer>>
  PROVE  OutInv' /\ OutMoves
<1>1. out \in OutRec /\ out.echo \in 0..(EBUFLEN - 1) /\ out.udrie \in BOOLEAN
      /\ EBUFLEN \in Nat \ {0}
  BY OutFields, Sizes DEF OutInv, OutTypes
<1>2. PICK e, u : e = (out.echo + n) % EBUFLEN /\ u = (out.udrie \/ n > 0)
  OBVIOUS
<1>3. e \in 0..(EBUFLEN - 1) /\ u \in BOOLEAN /\ (n > 0 => u) /\ (out.udrie => u)
  <2>1. out.echo + n \in Int
    BY <1>1
  <2>2. e \in 0..(EBUFLEN - 1)
    BY <1>1, <1>2, <2>1, DivMod
  <2> QED
    BY <1>2, <2>2
<1>4. n = 0 => e = out.echo
  BY <1>1, <1>2, ModSmall
<1>5. out' = [out EXCEPT !.echo = e, !.udrie = u]
  BY <1>2 DEF Eputc
<1>6. /\ out' \in OutRec /\ SameRing /\ out'.echo = e /\ out'.udrie = u
      /\ out'.oheld = out.oheld /\ out'.ocnt = out.ocnt
  BY <1>1, <1>3, <1>5 DEF OutRec, SameRing
<1>7. OutputArmed'
  <2>1. CASE u
    BY <1>6, <2>1 DEF OutputArmed
  <2>2. CASE ~u
    <3>1. n = 0 /\ ~out.udrie
      BY <1>3, <2>2
    <3> QED
      BY <1>4, <1>6, <3>1 DEF OutputArmed, OutInv
  <2> QED
    BY <2>1, <2>2
<1> QED
  BY <1>6, <1>7, QuietKeeps

LEMMA StillKeeps ==
  ASSUME OutInv, UNCHANGED <<out, osem, writer>>
  PROVE  OutInv' /\ OutMoves
<1>1. out' \in OutRec /\ SameRing /\ OutputArmed'
  BY DEF OutInv, OutTypes, SameRing, OutputArmed
<1> QED
  BY <1>1, QuietKeeps

(* The transmitter is enabled, or held, without a change of the ring. *)
LEMMA FlowKeeps ==
  ASSUME OutInv, UNCHANGED <<osem, writer>>,
         \/ out' = [out EXCEPT !.udrie = TRUE]
         \/ out' = [out EXCEPT !.oheld = FALSE, !.udrie = TRUE]
         \/ out' = [out EXCEPT !.oheld = TRUE]
  PROVE  OutInv' /\ OutMoves
<1>1. out \in OutRec
  BY DEF OutInv, OutTypes
<1>2. /\ out' \in OutRec /\ SameRing /\ out'.echo = out.echo /\ out'.ocnt = out.ocnt
      /\ out'.udrie = TRUE \/ (out'.udrie = out.udrie /\ out'.oheld = TRUE)
  BY <1>1 DEF OutRec, SameRing
<1>3. OutputArmed'
  BY <1>2 DEF OutputArmed, OutInv
<1> QED
  BY <1>2, <1>3, QuietKeeps

LEMMA EchoLenType == \A c : EchoLen(c) \in Nat
BY DEF EchoLen

LEMMA EchochKeeps ==
  ASSUME OutInv, NEW c, out' = Echoch(c), UNCHANGED <<osem, writer>>
  PROVE  OutInv' /\ OutMoves
<1>1. out' = out \/ out' = Eputc(out, EchoLen(c))
  BY DEF Echoch
<1> QED
  BY <1>1, EchoLenType, EchoQuiet, StillKeeps

LEMMA SignalInput ==
  ASSUME NEW s \in SemRec({"reader"}), NEW W, QueueOK(s, W), NEW n \in Nat, NEW r, r = Signaln(s, n)
  PROVE  r \in SemRec({"reader"}) /\ r.semcnt = s.semcnt + n /\ QueueOK(r, W)
BY SignalQueue

(* A character is kept; those that are finished with it are signalled. *)
LEMMA KeepKeeps ==
  ASSUME InInv, NEW c \in Chars, NEW x \in 0..(MaxIcnt + IBUFLEN), NEW y \in 0..(IBUFLEN - 1),
         in' = [Keep(c) EXCEPT !.icnt = x, !.icursor = y],
         x >= in.icnt, x + y = in.icnt + in.icursor + 1,
         \/ isem' = Signaln(isem, x - in.icnt)
         \/ x = in.icnt /\ isem' = isem,
         UNCHANGED reader
  PROVE  InInv' /\ InMoves
<1>1. /\ in \in InRec /\ isem \in SemRec({"reader"}) /\ isem.semcnt \in Int
      /\ QueueOK(isem, InWaits) /\ in.ihead \in 0..(IBUFLEN - 1) /\ in.itail \in 0..(IBUFLEN - 1)
      /\ in.icnt \in Nat /\ in.icursor \in Nat /\ IBUFLEN \in Nat \ {0} /\ x \in Int /\ y \in Int
  BY InFields, Sizes DEF InInv, InTypes, SemRec
<1>2. PICK h, b : h = (in.ihead + 1) % IBUFLEN /\ b = [in.ibuff EXCEPT ![in.ihead] = c]
  OBVIOUS
<1>3. h \in 0..(IBUFLEN - 1)
  <2>1. in.ihead + 1 \in Int
    BY <1>1
  <2> QED
    BY <1>1, <1>2, <2>1, DivMod
<1>4. b \in [0..(IBUFLEN - 1) -> Chars]
  BY <1>1, <1>2, InFields
<1>5. in' = [in EXCEPT !.ibuff = b, !.ihead = h, !.icnt = x, !.icursor = y]
  BY <1>2 DEF Keep
<1>6. /\ in' \in InRec /\ in'.ihead = h /\ in'.itail = in.itail /\ in'.ibuff = b
      /\ in'.icnt = x /\ in'.icursor = y
  BY ZenonT(60), <1>1, <1>3, <1>4, <1>5 DEF InRec
<1>7. Keeping
  BY <1>2, <1>6 DEF Keeping
<1>8. InRing'
  <2>1. in.ihead = (in.itail + (in.icnt + in.icursor)) % IBUFLEN
    BY DEF InInv, InRing
  <2>2. in.itail \in Int /\ in.icnt + in.icursor \in Int
    BY <1>1
  <2>3. (in.ihead + 1) % IBUFLEN = (in.itail + (in.icnt + in.icursor + 1)) % IBUFLEN
    BY <1>1, <2>1, <2>2, RingMoves
  <2> QED
    BY <1>2, <1>6, <2>3 DEF InRing
<1>9. InWaits' = InWaits /\ ReaderInv' /\ reader' \in ReaderRec
  BY DEF InWaits, ReaderInv, InInv, InTypes
<1>10. /\ isem' \in SemRec({"reader"}) /\ QueueOK(isem', InWaits')
       /\ isem'.semcnt = isem.semcnt + (x - in.icnt)
  <2>1. CASE isem' = Signaln(isem, x - in.icnt)
    <3>1. PICK r, s, W, n : /\ r = isem' /\ s = isem /\ W = InWaits /\ n = x - in.icnt
      OBVIOUS
    <3>2. r = Signaln(s, n) /\ n \in Nat
      BY <1>1, <2>1, <3>1
    <3>3. r \in SemRec({"reader"}) /\ r.semcnt = s.semcnt + n /\ QueueOK(r, W)
      BY ZenonT(60), <1>1, <3>1, <3>2, SignalInput
    <3> QED
      BY <1>9, <3>1, <3>3
  <2>2. CASE x = in.icnt /\ isem' = isem
    BY <1>1, <1>9, <2>2
  <2> QED
    BY <2>1, <2>2
<1>11. CountInv'
  <2>1. PICK g \in {0, 1} : g = IF reader.at = "peeked" \/ reader.waited THEN 1 ELSE 0
    OBVIOUS
  <2>2. in.icnt = isem.semcnt + g
    BY <2>1 DEF InInv, CountInv
  <2>3. in'.icnt = isem'.semcnt + g
    BY <1>1, <1>6, <1>10, <2>2
  <2> QED
    BY <2>1, <2>3 DEF CountInv
<1> QED
  BY <1>6, <1>7, <1>8, <1>9, <1>10, <1>11 DEF InInv, InTypes, InMoves

(* Nothing of what is typed is lost or finished by a change of options. *)
LEMMA OptionKeeps ==
  ASSUME InInv, in' \in InRec, SameInput, in'.ihead = in.ihead, in'.icursor = in.icursor,
         UNCHANGED <<isem, reader>>
  PROVE  InInv' /\ InMoves
<1>1. InWaits' = InWaits /\ ReaderInv'
  BY DEF InWaits, ReaderInv, InInv
<1>2. CountInv' /\ InRing'
  BY DEF CountInv, InRing, InInv, SameInput
<1> QED
  BY <1>1, <1>2 DEF InInv, InTypes, InMoves

LEMMA InStill ==
  ASSUME InInv, UNCHANGED <<in, isem, reader>>
  PROVE  InInv' /\ InMoves
<1>1. in' \in InRec /\ SameInput /\ in'.ihead = in.ihead /\ in'.icursor = in.icursor
  BY DEF InInv, InTypes, SameInput
<1> QED
  BY <1>1, OptionKeeps

(* Erasing goes back no further than the line that is typed. *)
LEMMA EditKeeps ==
  ASSUME InInv, NEW m \in 0..in.icursor, UNCHANGED <<isem, reader>>,
         in' = [in EXCEPT !.ihead = (in.ihead - m) % IBUFLEN, !.icursor = in.icursor - m]
  PROVE  InInv' /\ InMoves
<1>1. /\ in \in InRec /\ in.ihead \in 0..(IBUFLEN - 1) /\ in.itail \in 0..(IBUFLEN - 1)
      /\ in.icnt \in Nat /\ in.icursor \in 0..(IBUFLEN - 1) /\ IBUFLEN \in Nat \ {0}
      /\ m \in Nat /\ in.icursor - m \in 0..(IBUFLEN - 1)
  <2>1. /\ in \in InRec /\ in.ihead \in 0..(IBUFLEN - 1) /\ in.itail \in 0..(IBUFLEN - 1)
        /\ in.icnt \in Nat /\ in.icursor \in 0..(IBUFLEN - 1) /\ IBUFLEN \in Nat \ {0}
    BY InFields, Sizes DEF InInv, InTypes
  <2> QED
    BY <2>1
<1>2. PICK h, y : h = (in.ihead - m) % IBUFLEN /\ y = in.icursor - m
  OBVIOUS
<1>3. h \in 0..(IBUFLEN - 1)
  <2>1. in.ihead - m \in Int
    BY <1>1
  <2> QED
    BY <1>1, <1>2, <2>1, DivMod
<1>4. in' = [in EXCEPT !.ihead = h, !.icursor = y] /\ y \in 0..(IBUFLEN - 1)
  BY <1>1, <1>2
<1>5. /\ in' \in InRec /\ SameInput /\ in'.ihead = h /\ in'.icursor = y
  BY <1>1, <1>3, <1>4 DEF InRec, SameInput
<1>6. InRing'
  <2>1. in.ihead = (in.itail + (in.icnt + in.icursor)) % IBUFLEN
    BY DEF InInv, InRing
  <2>2. PICK t, n, k : t = in.itail /\ n = in.icnt + in.icursor /\ k = -m
    OBVIOUS
  <2>3. t \in Int /\ n \in Int /\ k \in Int
    BY <1>1, <2>2
  <2>4. (in.ihead + k) % IBUFLEN = (t + (n + k)) % IBUFLEN
    BY <1>1, <2>1, <2>2, <2>3, RingMoves
  <2>5. in.ihead + k = in.ihead - m /\ n + k = in.icnt + y
    BY <1>1, <1>2, <2>2
  <2> QED
    BY <1>2, <1>5, <2>2, <2>4, <2>5 DEF InRing, SameInput
<1>7. InWaits' = InWaits /\ ReaderInv' /\ CountInv'
  BY <1>5 DEF InWaits, ReaderInv, InInv, CountInv, SameInput
<1> QED
  BY <1>5, <1>6, <1>7 DEF InInv, InTypes, InMoves

LEMMA CountBounds ==
  ASSUME InInv, in.icnt <= MaxIcnt
  PROVE  /\ in.icnt \in Nat /\ in.icursor \in Nat /\ in.icursor \in 0..(IBUFLEN - 1)
         /\ in.icnt + 1 \in 0..(MaxIcnt + IBUFLEN)
         /\ in.icnt + in.icursor + 1 \in 0..(MaxIcnt + IBUFLEN)
         /\ 0 \in 0..(IBUFLEN - 1) /\ IBUFLEN \in Nat \ {0, 1} /\ MaxIcnt \in Nat
         /\ in.icnt \in 0..(MaxIcnt + IBUFLEN)
<1>1. /\ in \in InRec /\ in.icnt \in Nat /\ in.icursor \in Nat
      /\ in.icursor \in 0..(IBUFLEN - 1) /\ IBUFLEN \in Nat \ {0, 1} /\ MaxIcnt \in Nat
  BY InFields, Sizes DEF InInv, InTypes
<1> QED
  BY <1>1

(* The flattened form of an assignment to a kept character's counts. *)
LEMMA KeepForm ==
  ASSUME in \in InRec, NEW c, NEW x, NEW y
  PROVE  /\ Keep(c).icnt = in.icnt /\ Keep(c).icursor = in.icursor
         /\ [Keep(c) EXCEPT !.icnt = x] = [Keep(c) EXCEPT !.icnt = x, !.icursor = in.icursor]
         /\ [Keep(c) EXCEPT !.icursor = y] = [Keep(c) EXCEPT !.icnt = in.icnt, !.icursor = y]
<1>1. PICK h, b : Keep(c) = [in EXCEPT !.ibuff = b, !.ihead = h]
  BY DEF Keep
<1> QED
  BY <1>1 DEF InRec

LEMMA OneMore ==
  ASSUME InInv, NEW c \in Chars, in.icnt <= MaxIcnt, UNCHANGED reader,
         in' = [Keep(c) EXCEPT !.icnt = @ + 1], isem' = Signaln(isem, 1)
  PROVE  InInv' /\ InMoves
<1>1. in \in InRec
  BY DEF InInv, InTypes
<1>2. PICK x : x = in.icnt + 1
  OBVIOUS
<1>3. in' = [Keep(c) EXCEPT !.icnt = x, !.icursor = in.icursor]
  BY <1>1, <1>2, KeepForm
<1>4. x \in 0..(MaxIcnt + IBUFLEN) /\ in.icursor \in 0..(IBUFLEN - 1) /\ x >= in.icnt
      /\ x + in.icursor = in.icnt + in.icursor + 1 /\ x - in.icnt = 1
  BY <1>2, CountBounds
<1> QED
  BY <1>3, <1>4, KeepKeeps

LEMMA RawKeeps ==
  ASSUME InInv, OutInv, NEW c \in Chars, in.icnt <= MaxIcnt, Raw(c),
         UNCHANGED <<osem, reader, writer>>
  PROVE  InInv' /\ InMoves /\ OutInv' /\ OutMoves
<1>1. UNCHANGED out
  BY DEF Raw
<1>2. OutInv' /\ OutMoves
  BY <1>1, StillKeeps
<1>3. InInv' /\ InMoves
  BY InStill, OneMore DEF Raw
<1> QED
  BY <1>2, <1>3

LEMMA CbreakKeeps ==
  ASSUME InInv, OutInv, NEW c \in Chars, in.icnt <= MaxIcnt, Cbreak(c),
         UNCHANGED <<osem, reader, writer>>
  PROVE  InInv' /\ InMoves /\ OutInv' /\ OutMoves
<1>1. out' = Eputc(out, 1) \/ out' = Echoch(c)
  BY DEF Cbreak, Refuse
<1>2. OutInv' /\ OutMoves
  BY <1>1, EchoQuiet, EchochKeeps
<1>3. InInv' /\ InMoves
  BY InStill, OneMore DEF Cbreak, Refuse
<1> QED
  BY <1>2, <1>3

LEMMA KillKeeps ==
  ASSUME InInv, OutInv, Kill, UNCHANGED <<osem, reader, writer>>
  PROVE  InInv' /\ InMoves /\ OutInv' /\ OutMoves
<1>1. OutInv' /\ OutMoves
  BY EchoQuiet DEF Kill
<1>2. in.icursor \in Nat
  BY InFields DEF InInv, InTypes
<1>3. PICK m : m = in.icursor
  OBVIOUS
<1>4. m \in 0..in.icursor /\ in.icursor - m = 0
  BY <1>2, <1>3
<1>5. in' = [in EXCEPT !.ihead = (in.ihead - m) % IBUFLEN, !.icursor = in.icursor - m]
  BY <1>3, <1>4 DEF Kill
<1>6. InInv' /\ InMoves
  BY <1>4, <1>5, EditKeeps DEF Kill
<1> QED
  BY <1>1, <1>6

LEMMA EraseKeeps ==
  ASSUME InInv, OutInv, Erase, UNCHANGED <<osem, reader, writer>>
  PROVE  InInv' /\ InMoves /\ OutInv' /\ OutMoves
<1>1. CASE in.icursor = 0
  BY <1>1, InStill, StillKeeps DEF Erase
<1>2. CASE in.icursor # 0
  <2>1. \/ out' = Eputc(out, 3) \/ out' = Eputc(out, 6) \/ out' = [out EXCEPT !.udrie = TRUE]
    BY <1>2 DEF Erase
  <2>2. OutInv' /\ OutMoves
    BY <2>1, EchoQuiet, FlowKeeps
  <2>3. in.icursor \in Nat
    BY InFields DEF InInv, InTypes
  <2>4. 1 \in 0..in.icursor
    BY <1>2, <2>3
  <2>5. in' = [in EXCEPT !.ihead = (in.ihead - 1) % IBUFLEN, !.icursor = in.icursor - 1]
    BY <1>2 DEF Erase
  <2>6. UNCHANGED <<isem, reader>>
    BY <1>2 DEF Erase
  <2>7. InInv' /\ InMoves
    BY <2>4, <2>5, <2>6, EditKeeps
  <2> QED
    BY <2>2, <2>7
<1> QED
  BY <1>1, <1>2

LEMMA EndLineKeeps ==
  ASSUME InInv, OutInv, NEW c \in Chars, in.icnt <= MaxIcnt, EndLine(c),
         UNCHANGED <<osem, reader, writer>>
  PROVE  InInv' /\ InMoves /\ OutInv' /\ OutMoves
<1>1. OutInv' /\ OutMoves
  <2>1. PICK n \in Nat : out' = out \/ out' = Eputc(out, n)
    <3>1. EchoLen(c) + (IF c = EOFC THEN EchoLen(NEWLINE) ELSE 0) \in Nat
      BY EchoLenType
    <3> QED
      BY <3>1 DEF EndLine
  <2> QED
    BY <2>1, EchoQuiet, StillKeeps
<1>2. PICK x : x = in.icnt + in.icursor + 1
  OBVIOUS
<1>3. in \in InRec
  BY DEF InInv, InTypes
<1>4. in' = [Keep(c) EXCEPT !.icnt = x, !.icursor = 0]
  <2>1. Keep(c).icnt = in.icnt
    BY <1>3, KeepForm
  <2> QED
    BY <1>2, <2>1 DEF EndLine
<1>5. x \in 0..(MaxIcnt + IBUFLEN) /\ 0 \in 0..(IBUFLEN - 1) /\ x >= in.icnt
      /\ x + 0 = in.icnt + in.icursor + 1 /\ x - in.icnt = in.icursor + 1
  BY <1>2, CountBounds
<1>6. isem' = Signaln(isem, x - in.icnt)
  BY <1>5 DEF EndLine
<1>7. InInv' /\ InMoves
  BY <1>4, <1>5, <1>6, KeepKeeps
<1> QED
  BY <1>1, <1>7

LEMMA CookedKeeps ==
  ASSUME InInv, OutInv, NEW c \in Chars, in.icnt <= MaxIcnt, Cooked(c),
         UNCHANGED <<osem, reader, writer>>
  PROVE  InInv' /\ InMoves /\ OutInv' /\ OutMoves
<1>1. CASE Refuse
  <2>1. OutInv' /\ OutMoves
    BY <1>1, EchoQuiet DEF Refuse
  <2>2. InInv' /\ InMoves
    BY <1>1, InStill DEF Refuse
  <2> QED
    BY <2>1, <2>2
<1>2. CASE ~LineFull /\ in' = [Keep(c) EXCEPT !.icursor = @ + 1] /\ out' = Echoch(c)
           /\ UNCHANGED isem
  <2>1. OutInv' /\ OutMoves
    BY <1>2, EchochKeeps
  <2>2. in \in InRec
    BY DEF InInv, InTypes
  <2>3. PICK y : y = in.icursor + 1
    OBVIOUS
  <2>4. in' = [Keep(c) EXCEPT !.icnt = in.icnt, !.icursor = y]
    BY <1>2, <2>2, <2>3, KeepForm
  <2>5. y \in 0..(IBUFLEN - 1) /\ in.icnt \in 0..(MaxIcnt + IBUFLEN) /\ in.icnt >= in.icnt
        /\ in.icnt + y = in.icnt + in.icursor + 1
    BY <1>2, <2>3, CountBounds DEF LineFull
  <2>6. InInv' /\ InMoves
    BY <1>2, <2>4, <2>5, KeepKeeps
  <2> QED
    BY <2>1, <2>6
<1> QED
  BY <1>1, <1>2, KillKeeps, EraseKeeps, EndLineKeeps DEF Cooked

LEMMA LateKeeps ==
  ASSUME InInv, NEW n \in 0..1, in' = [in EXCEPT !.late = n], UNCHANGED <<isem, reader>>
  PROVE  InInv' /\ InMoves
<1>1. in \in InRec
  BY DEF InInv, InTypes
<1>2. in' \in InRec /\ SameInput /\ in'.ihead = in.ihead /\ in'.icursor = in.icursor
  BY <1>1 DEF InRec, SameInput
<1> QED
  BY <1>2, OptionKeeps

LEMMA ttyiinKeeps ==
  ASSUME InInv, OutInv, NEW key \in Keys, ttyiin(key)
  PROVE  InInv' /\ InMoves /\ OutInv' /\ OutMoves
<1> DEFINE c == IF key = RETURN THEN NEWLINE ELSE key
<1>1. key \in Chars /\ c \in Chars
  BY DEF Chars
<1>2. in.icnt <= MaxIcnt /\ UNCHANGED <<osem, reader, writer>>
  BY DEF ttyiin
<1>3. CASE Intr(c)
  <2>1. OutInv' /\ OutMoves
    BY <1>2, <1>3, StillKeeps DEF Intr
  <2>2. InInv' /\ InMoves
    BY <1>2, <1>3, LateKeeps DEF Intr
  <2> QED
    BY <2>1, <2>2
<1>4. CASE Flow(c)
  <2>1. OutInv' /\ OutMoves
    BY <1>2, <1>4, FlowKeeps DEF Flow
  <2>2. InInv' /\ InMoves
    BY <1>2, <1>4, InStill DEF Flow
  <2> QED
    BY <2>1, <2>2
<1> HIDE DEF c
<1>5. CASE Raw(key)
  BY <1>1, <1>2, <1>5, RawKeeps
<1>6. CASE Cbreak(c)
  BY <1>1, <1>2, <1>6, CbreakKeeps
<1>7. CASE Cooked(c)
  BY <1>1, <1>2, <1>7, CookedKeeps
<1> QED
  BY <1>3, <1>4, <1>5, <1>6, <1>7 DEF ttyiin, c

LEMMA LateEchoKeeps ==
  ASSUME InInv, OutInv, LateEcho
  PROVE  InInv' /\ InMoves /\ OutInv' /\ OutMoves
<1>1. OutInv' /\ OutMoves
  BY EchoQuiet DEF LateEcho
<1>2. InInv' /\ InMoves
  BY LateKeeps DEF LateEcho
<1> QED
  BY <1>1, <1>2

(* A reader that may go on is on no queue, and the count is what is left. *)
LEMMA ReaderFree ==
  ASSUME InInv, MayGoOn
  PROVE  /\ in \in InRec /\ in.icnt \in Nat /\ isem \in SemRec({"reader"})
         /\ reader \in ReaderRec /\ reader.want \in Nat /\ reader.any \in BOOLEAN
         /\ reader.waited \in BOOLEAN
         /\ isem.semcnt \in Nat /\ isem.sq = <<>> /\ Granted("reader", isem)
         /\ Larger(isem.semcnt, 0) = isem.semcnt
         /\ in.icnt = isem.semcnt + (IF reader.at = "peeked" \/ reader.waited THEN 1 ELSE 0)
<1>1. /\ in \in InRec /\ in.icnt \in Nat /\ isem \in SemRec({"reader"})
      /\ reader \in ReaderRec /\ reader.want \in Nat /\ reader.any \in BOOLEAN
      /\ reader.waited \in BOOLEAN /\ isem.semcnt \in Int /\ isem.sq \in Seq({"reader"})
      /\ DOMAIN isem.sq = 1..Len(isem.sq) /\ Len(isem.sq) \in Nat
  BY InFields DEF InInv, InTypes, SemRec, ReaderRec
<1>2. \A i \in 1..Len(isem.sq) : isem.sq[i] \in InWaits
  BY DEF InInv, QueueOK
<1>3. Len(isem.sq) = 0
  <2> SUFFICES ASSUME Len(isem.sq) # 0 PROVE FALSE
    OBVIOUS
  <2>1. 1 \in 1..Len(isem.sq) /\ isem.sq[1] \in InWaits
    BY <1>1, <1>2
  <2>2. reader.waited /\ isem.sq[1] = "reader"
    BY <2>1 DEF InWaits
  <2> QED
    BY <1>1, <2>1, <2>2 DEF MayGoOn, Granted
<1>4. isem.sq = <<>> /\ Granted("reader", isem)
  BY <1>1, <1>3 DEF Granted
<1>5. Len(isem.sq) = Larger(-isem.semcnt, 0)
  BY DEF InInv, QueueOK
<1>6. isem.semcnt \in Nat /\ Larger(isem.semcnt, 0) = isem.semcnt
  BY <1>1, <1>3, <1>5 DEF Larger
<1>7. in.icnt = isem.semcnt + (IF reader.at = "peeked" \/ reader.waited THEN 1 ELSE 0)
  BY DEF InInv, CountInv
<1> QED
  BY <1>1, <1>4, <1>6, <1>7

(* Characters are taken from the front of the ring. *)
LEMMA TakenKeeps ==
  ASSUME in \in InRec, InRing, NEW n \in 0..in.icnt, in' = TakenFrom(n)
  PROVE  /\ in' \in InRec /\ InRing' /\ InMoves /\ in'.icnt = in.icnt - n
<1>1. /\ in.ihead \in 0..(IBUFLEN - 1) /\ in.itail \in 0..(IBUFLEN - 1) /\ in.icnt \in Nat
      /\ in.icnt \in 0..(MaxIcnt + IBUFLEN) /\ in.icursor \in Nat /\ IBUFLEN \in Nat \ {0}
      /\ MaxIcnt \in Nat
  BY InFields, Sizes
<1>2. PICK t, x : t = (in.itail + n) % IBUFLEN /\ x = in.icnt - n
  OBVIOUS
<1>3. t \in 0..(IBUFLEN - 1) /\ x \in 0..(MaxIcnt + IBUFLEN) /\ n \in Int
  <2>1. in.itail + n \in Int
    BY <1>1
  <2>2. t \in 0..(IBUFLEN - 1)
    BY <1>1, <1>2, <2>1, DivMod
  <2> QED
    BY <1>1, <1>2, <2>2
<1>4. in' = [in EXCEPT !.itail = t, !.icnt = x]
  BY <1>2 DEF TakenFrom
<1>5. /\ in' \in InRec /\ in'.ihead = in.ihead /\ in'.itail = t /\ in'.icnt = x
      /\ in'.ibuff = in.ibuff /\ in'.icursor = in.icursor
  BY <1>3, <1>4 DEF InRec
<1>6. Taking
  BY <1>2, <1>5 DEF Taking
<1>7. InRing'
  <2>1. PICK y : y = x + in.icursor
    OBVIOUS
  <2>2. y \in Int /\ in.itail + n \in Int /\ (in.itail + n) + y = in.itail + (in.icnt + in.icursor)
    BY <1>1, <1>2, <1>3, <2>1
  <2>3. (t + y) % IBUFLEN = (in.itail + (in.icnt + in.icursor)) % IBUFLEN
    BY <1>1, <1>2, <2>2, ModAdd
  <2> QED
    BY <1>5, <2>1, <2>3 DEF InRing
<1> QED
  BY <1>2, <1>5, <1>6, <1>7 DEF InMoves

(* One process waits on the queue. *)
LEMMA OneWaits ==
  ASSUME NEW s, s.semcnt = 0 - 1, s.sq = <<"reader">>, NEW W, W = {"reader"}
  PROVE  QueueOK(s, W)
<1>1. PICK c \in Int : c = s.semcnt
  OBVIOUS
<1>2. c + 1 = 0
  BY <1>1
<1>3. -c = 1
  BY <1>2
<1>4. Larger(-c, 0) = 1
  BY <1>3 DEF Larger
<1>5. Len(s.sq) = 1 /\ \A i \in 1..1 : s.sq[i] = "reader"
  OBVIOUS
<1>6. Larger(-s.semcnt, 0) = 1
  BY <1>1, <1>4
<1>7. \A i \in 1..1 : \A j \in 1..1 : i = j
  OBVIOUS
<1> QED
  BY <1>5, <1>6, <1>7 DEF QueueOK

(* wait() on an empty buffer. *)
LEMMA WaitKeeps ==
  ASSUME InInv, MayGoOn, isem.semcnt = 0, reader.at # "peeked", ~reader.waited,
         NEW at \in {"getc", "nextc", "later"}, NEW want \in Nat, NEW any, any \in BOOLEAN,
         at = "later" => want >= 1, WaitInput(at, want, any)
  PROVE  InInv' /\ InMoves
<1>1. /\ isem \in SemRec({"reader"}) /\ isem.sq = <<>> /\ in \in InRec /\ in.icnt = 0
  BY ReaderFree
<1>2. /\ isem' = [semcnt |-> 0 - 1, sq |-> <<"reader">>] /\ in' = in
      /\ reader' = [at |-> at, want |-> want, any |-> any, waited |-> TRUE]
  BY <1>1 DEF WaitInput, TakeCounts
<1>3. isem' \in SemRec({"reader"}) /\ isem'.semcnt = 0 - 1 /\ isem'.sq = <<"reader">>
  BY <1>2 DEF SemRec
<1>4. /\ reader' \in ReaderRec /\ reader'.at = at /\ reader'.want = want /\ reader'.waited = TRUE
  BY <1>2 DEF ReaderRec
<1>5. InWaits' = {"reader"}
  BY <1>4 DEF InWaits
<1>6. QueueOK(isem', InWaits')
  BY <1>3, <1>5, OneWaits
<1>7. ReaderInv' /\ CountInv' /\ InRing' /\ SameInput
  BY <1>1, <1>2, <1>3, <1>4 DEF ReaderInv, CountInv, InRing, InInv, SameInput
<1> QED
  BY <1>1, <1>2, <1>3, <1>4, <1>6, <1>7 DEF InInv, InTypes, InMoves

(* The reader goes on, or is done, and waits for nothing. *)
LEMMA FreeKeeps ==
  ASSUME InInv, in' \in InRec, InRing', InMoves,
         NEW m \in Nat, isem' = [semcnt |-> m, sq |-> <<>>],
         reader' \in ReaderRec, reader'.waited = FALSE, reader'.at \in {"idle", "peeked", "later"},
         reader'.at = "later" => reader'.want >= 1,
         in'.icnt = m + (IF reader'.at = "peeked" THEN 1 ELSE 0)
  PROVE  InInv' /\ InMoves
<1>1. isem' \in SemRec({"reader"}) /\ isem'.sq = <<>> /\ isem'.semcnt = m
  BY DEF SemRec
<1>2. QueueOK(isem', InWaits')
  <2>1. Len(isem'.sq) = 0 /\ Larger(-isem'.semcnt, 0) = 0
    BY <1>1 DEF Larger
  <2> QED
    BY <2>1 DEF QueueOK
<1>3. ReaderInv' /\ CountInv'
  BY <1>1 DEF ReaderInv, CountInv
<1> QED
  BY <1>1, <1>2, <1>3 DEF InInv, InTypes

LEMMA IdleFacts ==
  /\ Idle \in ReaderRec /\ Idle.at = "idle" /\ Idle.waited = FALSE
  /\ [Idle EXCEPT !.at = "peeked"] \in ReaderRec
  /\ [Idle EXCEPT !.at = "peeked"].at = "peeked" /\ [Idle EXCEPT !.at = "peeked"].waited = FALSE
BY DEF Idle, ReaderRec

(* The count after n are taken off a semaphore without a queue, or added. *)
LEMMA TakenCount ==
  ASSUME isem \in SemRec({"reader"}), isem.sq = <<>>, NEW n, NEW m,
         isem' = TakeCounts(isem, n, FALSE, "reader"), m = isem.semcnt - n
  PROVE  isem' = [semcnt |-> m, sq |-> <<>>]
BY DEF TakeCounts, SemRec

LEMMA AddedCount ==
  ASSUME isem.sq = <<>>, NEW n \in Nat, NEW m, isem' = Signaln(isem, n), m = isem.semcnt + n
  PROVE  isem' = [semcnt |-> m, sq |-> <<>>]
<1>1. Smaller(n, 0) = 0 /\ Len(<<>>) = 0
  BY DEF Smaller
<1>2. SubSeq(<<>>, 1, 0) = <<>>
  BY SubSeqEmpty
<1> QED
  BY <1>1, <1>2 DEF Signaln

LEMMA NothingTaken ==
  ASSUME InInv, in' = in
  PROVE  in' \in InRec /\ InRing' /\ InMoves /\ in'.icnt = in.icnt
BY DEF InInv, InTypes, InRing, InMoves, SameInput

LEMMA CallKeeps ==
  ASSUME InInv, NEW at \in {"getc", "nextc"}, CallFor(at)
  PROVE  InInv' /\ InMoves
<1>1. reader.at = "idle" /\ ~reader.waited /\ MayGoOn
  BY DEF CallFor, MayGoOn, InInv, ReaderInv
<1>2. /\ in \in InRec /\ isem \in SemRec({"reader"}) /\ isem.sq = <<>> /\ isem.semcnt \in Nat
      /\ in.icnt = isem.semcnt
  BY <1>1, ReaderFree
<1>3. CASE isem.semcnt < 1 /\ WaitInput(at, 0, FALSE)
  <2>1. isem.semcnt = 0 /\ reader.at # "peeked" /\ at # "later" /\ 0 \in Nat
    BY <1>1, <1>2, <1>3
  <2>2. PICK any : any = FALSE
    OBVIOUS
  <2>3. any \in BOOLEAN
    BY <2>2
  <2>4. WaitInput(at, 0, any)
    BY <1>3, <2>2
  <2> QED
    BY <1>1, <2>1, <2>3, <2>4, WaitKeeps
<1>4. CASE /\ isem.semcnt >= 1
           /\ isem' = TakeCounts(isem, 1, FALSE, "reader")
           /\ in' = IF at = "getc" THEN TakenFrom(1) ELSE in
           /\ reader' = IF at = "getc" THEN Idle ELSE [Idle EXCEPT !.at = "peeked"]
  <2>1. PICK m : m = isem.semcnt - 1
    OBVIOUS
  <2>2. m \in Nat /\ isem' = [semcnt |-> m, sq |-> <<>>]
    <3>1. isem' = TakeCounts(isem, 1, FALSE, "reader")
      BY <1>4
    <3>2. isem' = [semcnt |-> m, sq |-> <<>>]
      BY <1>2, <2>1, <3>1, TakenCount
    <3>3. isem.semcnt >= 1
      BY <1>4
    <3>4. m \in Nat
      BY <1>2, <2>1, <3>3
    <3> QED
      BY <3>2, <3>4
  <2>3. CASE at = "getc"
    <3>1. 1 \in 0..in.icnt /\ InRing
      BY <1>2, <1>4 DEF InInv
    <3>2. in' = TakenFrom(1) /\ reader' = Idle
      BY <1>4, <2>3
    <3>3. in' \in InRec /\ InRing' /\ InMoves /\ in'.icnt = in.icnt - 1
      BY <1>2, <3>1, <3>2, TakenKeeps
    <3>4. in'.icnt = m + 0 /\ reader' \in ReaderRec /\ reader'.at = "idle" /\ reader'.waited = FALSE
      BY <1>2, <2>1, <2>2, <3>2, <3>3, IdleFacts
    <3> QED
      BY <2>2, <3>3, <3>4, FreeKeeps
  <2>4. CASE at # "getc"
    <3>1. in' = in /\ reader' = [Idle EXCEPT !.at = "peeked"]
      BY <1>4, <2>4
    <3>2. in' \in InRec /\ InRing' /\ InMoves /\ in'.icnt = in.icnt
      BY <3>1, NothingTaken
    <3>3. /\ in'.icnt = m + 1 /\ reader' \in ReaderRec /\ reader'.at = "peeked"
          /\ reader'.waited = FALSE
      BY <1>2, <2>1, <2>2, <3>1, <3>2, IdleFacts
    <3> QED
      BY <2>2, <3>2, <3>3, FreeKeeps
  <2> QED
    BY <2>3, <2>4
<1> QED
  BY <1>3, <1>4 DEF CallFor

LEMMA GetOnKeeps ==
  ASSUME InInv, GetOn
  PROVE  InInv' /\ InMoves
<1>1. reader.at \in {"getc", "nextc"} /\ reader.waited /\ MayGoOn /\ isem' = isem
  BY DEF GetOn, InInv, ReaderInv
<1>2. /\ in \in InRec /\ isem \in SemRec({"reader"}) /\ isem.sq = <<>> /\ isem.semcnt \in Nat
      /\ in.icnt = isem.semcnt + 1
  BY <1>1, ReaderFree
<1>3. PICK m : m = isem.semcnt
  OBVIOUS
<1>4. m \in Nat /\ isem' = [semcnt |-> m, sq |-> <<>>]
  BY <1>1, <1>2, <1>3 DEF SemRec
<1>5. CASE reader.at = "getc"
  <2>1. 1 \in 0..in.icnt /\ InRing
    BY <1>2 DEF InInv
  <2>2. in' = TakenFrom(1) /\ reader' = Idle
    BY <1>5 DEF GetOn
  <2>3. in' \in InRec /\ InRing' /\ InMoves /\ in'.icnt = in.icnt - 1
    BY <1>2, <2>1, <2>2, TakenKeeps
  <2>4. in'.icnt = m + 0 /\ reader' \in ReaderRec /\ reader'.at = "idle" /\ reader'.waited = FALSE
    BY <1>2, <1>3, <2>2, <2>3, IdleFacts
  <2> QED
    BY <1>4, <2>3, <2>4, FreeKeeps
<1>6. CASE reader.at # "getc"
  <2>1. in' = in /\ reader' = [Idle EXCEPT !.at = "peeked"]
    BY <1>6 DEF GetOn
  <2>2. in' \in InRec /\ InRing' /\ InMoves /\ in'.icnt = in.icnt
    BY <2>1, NothingTaken
  <2>3. in'.icnt = m + 1 /\ reader' \in ReaderRec /\ reader'.at = "peeked" /\ reader'.waited = FALSE
    BY <1>2, <1>3, <2>1, <2>2, IdleFacts
  <2> QED
    BY <1>4, <2>2, <2>3, FreeKeeps
<1> QED
  BY <1>5, <1>6

LEMMA NextcKeeps ==
  ASSUME InInv, NextcSignal
  PROVE  InInv' /\ InMoves
<1>1. reader.at = "peeked" /\ ~reader.waited /\ MayGoOn
  BY DEF NextcSignal, MayGoOn, InInv, ReaderInv
<1>2. /\ isem \in SemRec({"reader"}) /\ isem.sq = <<>> /\ isem.semcnt \in Nat
      /\ in.icnt = isem.semcnt + 1
  BY <1>1, ReaderFree
<1>3. PICK m : m = isem.semcnt + 1
  OBVIOUS
<1>4. m \in Nat /\ isem' = [semcnt |-> m, sq |-> <<>>] /\ in' = in /\ reader' = Idle
  <2>1. isem' = Signaln(isem, 1) /\ in' = in /\ reader' = Idle /\ 1 \in Nat
    BY DEF NextcSignal
  <2>2. isem' = [semcnt |-> m, sq |-> <<>>]
    BY <1>2, <1>3, <2>1, AddedCount
  <2> QED
    BY <1>2, <1>3, <2>1, <2>2
<1>5. in' \in InRec /\ InRing' /\ InMoves /\ in'.icnt = in.icnt
  BY <1>4, NothingTaken
<1>6. in'.icnt = m + 0 /\ reader' \in ReaderRec /\ reader'.at = "idle" /\ reader'.waited = FALSE
  BY <1>2, <1>3, <1>4, <1>5, IdleFacts
<1> QED
  BY <1>4, <1>5, <1>6, FreeKeeps

LEMMA ReadKeeps ==
  ASSUME InInv, NEW want \in Nat, Read(want)
  PROVE  InInv' /\ InMoves
<1> DEFINE avail == in.icnt
           count == IF want = 0 THEN avail ELSE want
           donow == Smaller(count, avail)
           n     == IF Finished[1] = EOFC THEN 1 ELSE Line(Finished, donow, 2)
           done  == \/ n = count \/ Finished[1] = EOFC
                    \/ n < donow \/ (n >= 2 /\ EndsLine(Finished[n]))
           more == [at |-> "later", want |-> count - n, any |-> TRUE, waited |-> FALSE]
<1>1. reader.at = "idle" /\ ~reader.waited /\ MayGoOn /\ count > 0
  BY DEF Read, MayGoOn, InInv, ReaderInv
<1>2. /\ in \in InRec /\ isem \in SemRec({"reader"}) /\ isem.sq = <<>> /\ isem.semcnt \in Nat
      /\ in.icnt = isem.semcnt /\ avail \in Nat /\ count \in Nat
  BY <1>1, ReaderFree
<1>3. CASE avail = 0 /\ WaitInput("later", count, FALSE)
  <2>1. isem.semcnt = 0 /\ count >= 1 /\ reader.at # "peeked"
    BY <1>1, <1>2, <1>3
  <2>2. PICK any : any = FALSE
    OBVIOUS
  <2>3. any \in BOOLEAN
    BY <2>2
  <2> HIDE DEF count
  <2>4. WaitInput("later", count, any)
    BY <1>3, <2>2
  <2> QED
    BY <1>1, <1>2, <2>1, <2>3, <2>4, WaitKeeps
<1>4. CASE avail > 0 /\ ReadNow(n) /\ reader' = IF done THEN Idle ELSE more
  <2>1. donow \in Nat \ {0} /\ donow <= count /\ donow <= avail
    BY <1>1, <1>2, <1>4 DEF Smaller
  <2>2. n \in 1..donow
    <3> HIDE DEF donow
    <3>1. Line(Finished, donow, 2) \in 1..donow
      BY <2>1, LineBounds
    <3> QED
      BY <2>1, <3>1
  <2>3. n \in 0..in.icnt /\ n \in Nat /\ (~done => n < count)
    <3> HIDE DEF n, count, donow
    <3> QED
      BY <1>2, <2>1, <2>2
  <2>4. in' = TakenFrom(n) /\ isem' = Sreset(isem, in.icnt - n)
    BY <1>4 DEF ReadNow
  <2> HIDE DEF n, done, count, donow, more
  <2>5. in' \in InRec /\ InRing' /\ InMoves /\ in'.icnt = in.icnt - n
    BY <1>2, <2>3, <2>4, TakenKeeps DEF InInv
  <2>6. PICK m : m = in.icnt - n
    OBVIOUS
  <2>7. m \in Nat /\ isem' = [semcnt |-> m, sq |-> <<>>] /\ in'.icnt = m + 0
    BY <1>2, <2>3, <2>4, <2>5, <2>6 DEF Sreset
  <2>8. CASE done
    <3>1. reader' \in ReaderRec /\ reader'.at = "idle" /\ reader'.waited = FALSE
      BY <1>4, <2>8, IdleFacts
    <3> QED
      BY <2>5, <2>7, <3>1, FreeKeeps
  <2>9. CASE ~done
    <3>1. count - n \in Nat /\ count - n >= 1
      BY <1>2, <2>3, <2>9
    <3>2. reader' = more
      BY <1>4, <2>9
    <3>3. reader' \in ReaderRec /\ reader'.at = "later" /\ reader'.waited = FALSE
          /\ reader'.want >= 1
      BY <3>1, <3>2 DEF more, ReaderRec
    <3> QED
      BY <2>5, <2>7, <3>3, FreeKeeps
  <2> QED
    BY <2>8, <2>9
<1> QED
  BY <1>3, <1>4 DEF Read

LEMMA ReadOnKeeps ==
  ASSUME InInv, ReadOn
  PROVE  InInv' /\ InMoves
<1> DEFINE g == IF reader.waited THEN 1 ELSE 0
           n == Smaller(reader.want, g + Larger(isem.semcnt, 0))
           k == Line(Finished, n, 1)
           left == reader.want - k
           block == k = n /\ left > 0 /\ ~EndsLine(Finished[k])
           more == [at |-> "later", want |-> left, any |-> TRUE, waited |-> TRUE]
<1>1. reader.at = "later" /\ MayGoOn /\ reader.want >= 1
  BY DEF ReadOn, InInv, ReaderInv
<1>2. /\ in \in InRec /\ isem \in SemRec({"reader"}) /\ isem.sq = <<>> /\ isem.semcnt \in Nat
      /\ reader.waited \in BOOLEAN /\ reader.want \in Nat /\ reader.any \in BOOLEAN
      /\ Larger(isem.semcnt, 0) = isem.semcnt /\ in.icnt = isem.semcnt + g /\ g \in {0, 1}
      /\ in.icnt \in Nat /\ InRing
  BY <1>1, ReaderFree DEF InInv
<1>3. n \in Nat /\ n <= reader.want /\ n <= in.icnt /\ (n < reader.want => n = in.icnt)
  BY <1>2 DEF Smaller
<1>4. CASE n = 0 /\ WaitInput("later", reader.want, reader.any)
  <2>1. isem.semcnt = 0 /\ ~reader.waited
    BY <1>1, <1>2, <1>3, <1>4
  <2> QED
    BY <1>1, <1>2, <1>4, <2>1, WaitKeeps
<1>5. CASE /\ n > 0
           /\ IF reader.any
              THEN in' = in /\ isem' = Signaln(isem, g)
              ELSE in' = TakenFrom(1) /\ isem' = TakeCounts(isem, 1 - g, FALSE, "reader")
           /\ reader' = Idle
  <2> HIDE DEF n, g
  <2>1. reader' \in ReaderRec /\ reader'.at = "idle" /\ reader'.waited = FALSE
    BY <1>5, IdleFacts
  <2>2. CASE reader.any
    <3>1. PICK m : m = isem.semcnt + g
      OBVIOUS
    <3>2. m \in Nat /\ isem' = [semcnt |-> m, sq |-> <<>>] /\ in' = in
      <4>1. isem' = Signaln(isem, g) /\ in' = in /\ g \in Nat
        BY <1>2, <1>5, <2>2
      <4>2. isem' = [semcnt |-> m, sq |-> <<>>]
        BY <1>2, <3>1, <4>1, AddedCount
      <4> QED
        BY <1>2, <3>1, <4>1, <4>2
    <3>3. in' \in InRec /\ InRing' /\ InMoves /\ in'.icnt = in.icnt
      BY <3>2, NothingTaken
    <3>4. in'.icnt = m + 0
      BY <1>2, <3>1, <3>2, <3>3
    <3> QED
      BY <2>1, <3>2, <3>3, <3>4, FreeKeeps
  <2>3. CASE ~reader.any
    <3>1. PICK m : m = isem.semcnt - (1 - g)
      OBVIOUS
    <3>2. m = in.icnt - 1 /\ 1 \in 0..in.icnt /\ m \in Nat
      BY <1>2, <1>3, <1>5, <3>1
    <3>3. isem' = [semcnt |-> m, sq |-> <<>>] /\ in' = TakenFrom(1)
      <4>1. isem' = TakeCounts(isem, 1 - g, FALSE, "reader") /\ in' = TakenFrom(1)
        BY <1>5, <2>3
      <4>2. isem' = [semcnt |-> m, sq |-> <<>>]
        BY <1>2, <3>1, <4>1, TakenCount
      <4> QED
        BY <4>1, <4>2
    <3>4. in' \in InRec /\ InRing' /\ InMoves /\ in'.icnt = in.icnt - 1
      BY <1>2, <3>2, <3>3, TakenKeeps
    <3>5. in'.icnt = m + 0
      BY <3>2, <3>4
    <3> QED
      BY <2>1, <3>2, <3>3, <3>4, <3>5, FreeKeeps
  <2> QED
    BY <2>2, <2>3
<1>6. CASE /\ n > 0 /\ in' = TakenFrom(k)
           /\ isem' = TakeCounts(isem, k - g, block, "reader")
           /\ reader' = IF block THEN more ELSE Idle
  <2>1. k \in 1..n
    <3> HIDE DEF n
    <3> QED
      BY <1>3, <1>6, LineBounds
  <2> HIDE DEF k, n, g
  <2>2. k \in 0..in.icnt /\ k \in Nat /\ k <= n
    BY <1>2, <1>3, <2>1
  <2>3. in' \in InRec /\ InRing' /\ InMoves /\ in'.icnt = in.icnt - k
    BY <1>2, <1>6, <2>2, TakenKeeps
  <2>4. CASE block
    <3>1. k = n /\ left > 0
      BY <2>4
    <3>2. k = in.icnt /\ left \in Nat /\ left >= 1
      BY <1>2, <1>3, <2>2, <3>1
    <3>3. isem.semcnt - (k - g) - 1 = 0 - 1
      BY <1>2, <2>2, <3>2
    <3>4. isem' = [semcnt |-> 0 - 1, sq |-> <<"reader">>]
      BY <1>2, <1>6, <2>4, <3>3 DEF TakeCounts
    <3>5. reader' = more
      BY <1>6, <2>4
    <3> HIDE DEF left, block
    <3>6. reader' \in ReaderRec /\ reader'.at = "later" /\ reader'.waited = TRUE /\ reader'.want >= 1
      BY <3>2, <3>5 DEF more, ReaderRec
    <3>7. isem' \in SemRec({"reader"}) /\ isem'.semcnt = 0 - 1 /\ isem'.sq = <<"reader">>
      BY <3>4 DEF SemRec
    <3>8. InWaits' = {"reader"}
      BY <3>6 DEF InWaits
    <3>9. QueueOK(isem', InWaits')
      BY <3>7, <3>8, OneWaits
    <3>10. ReaderInv' /\ CountInv'
      <4>1. in'.icnt = 0
        BY <1>2, <2>3, <3>2
      <4> QED
        BY <3>6, <3>7, <4>1 DEF ReaderInv, CountInv
    <3> QED
      BY <2>3, <3>6, <3>7, <3>9, <3>10 DEF InInv, InTypes
  <2>5. CASE ~block
    <3>1. PICK m : m = isem.semcnt - (k - g)
      OBVIOUS
    <3>2. m = in.icnt - k /\ m \in Nat /\ k - g \in Int
      BY <1>2, <2>2, <3>1
    <3>3. isem' = TakeCounts(isem, k - g, FALSE, "reader") /\ reader' = Idle
      BY <1>6, <2>5 DEF TakeCounts
    <3>4. isem' = [semcnt |-> m, sq |-> <<>>]
      BY <1>2, <3>1, <3>2, <3>3, TakenCount
    <3>5. in'.icnt = m + 0 /\ reader' \in ReaderRec /\ reader'.at = "idle" /\ reader'.waited = FALSE
      BY <2>3, <3>2, <3>3, IdleFacts
    <3> QED
      BY <2>3, <3>2, <3>4, <3>5, FreeKeeps
  <2> QED
    BY <2>4, <2>5
<1> QED
  BY <1>4, <1>5, <1>6 DEF ReadOn

LEMMA ReadingKeeps ==
  ASSUME InInv, OutInv, Reading
  PROVE  InInv' /\ InMoves /\ OutInv' /\ OutMoves
<1>1. UNCHANGED <<out, osem, writer>>
  <2>1. CASE \E at \in {"getc", "nextc"} : CallFor(at)
    BY <2>1 DEF CallFor
  <2>2. CASE \E want \in Wants : Read(want)
    BY <2>2 DEF Read
  <2>3. CASE GetOn
    BY <2>3 DEF GetOn
  <2>4. CASE NextcSignal
    BY <2>4 DEF NextcSignal
  <2>5. CASE ReadOn
    BY <2>5 DEF ReadOn
  <2> QED
    BY <2>1, <2>2, <2>3, <2>4, <2>5 DEF Reading
<1>2. OutInv' /\ OutMoves
  BY <1>1, StillKeeps
<1>3. InInv' /\ InMoves
  <2>1. CASE \E at \in {"getc", "nextc"} : CallFor(at)
    BY <2>1, CallKeeps
  <2>2. CASE \E want \in Wants : Read(want)
    BY <2>2, ReadKeeps, WantsAssumption
  <2> QED
    BY <2>1, <2>2, GetOnKeeps, NextcKeeps, ReadOnKeeps DEF Reading
<1> QED
  BY <1>2, <1>3

LEMMA CntlKeeps ==
  ASSUME InInv, OutInv, NEW func \in Functions, Cntl(func)
  PROVE  InInv' /\ InMoves /\ OutInv' /\ OutMoves
<1>1. in \in InRec
  BY DEF InInv, InTypes
<1>2. in' \in InRec /\ SameInput /\ in'.ihead = in.ihead /\ in'.icursor = in.icursor
  <2>1. \/ \E m \in {"IMRAW", "IMCBREAK", "IMCOOKED"} : in' = [in EXCEPT !.imode = m]
        \/ \E b \in BOOLEAN : \/ in' = [in EXCEPT !.iecho = b]
                              \/ in' = [in EXCEPT !.ecrlf = b]
                              \/ in' = [in EXCEPT !.iintr = b]
    BY DEF Cntl, Functions
  <2>2. CASE \E m \in {"IMRAW", "IMCBREAK", "IMCOOKED"} : in' = [in EXCEPT !.imode = m]
    BY <1>1, <2>2 DEF InRec, SameInput
  <2>3. CASE \E b \in BOOLEAN : \/ in' = [in EXCEPT !.iecho = b]
                                \/ in' = [in EXCEPT !.ecrlf = b]
                                \/ in' = [in EXCEPT !.iintr = b]
    BY <1>1, <2>3 DEF InRec, SameInput
  <2> QED
    BY <2>1, <2>2, <2>3
<1>3. UNCHANGED <<out, isem, osem, reader, writer>>
  BY DEF Cntl
<1>4. InInv' /\ InMoves
  BY <1>2, <1>3, OptionKeeps
<1>5. OutInv' /\ OutMoves
  BY <1>3, StillKeeps
<1> QED
  BY <1>4, <1>5

LEMMA WritingKeeps ==
  ASSUME InInv, OutInv, NEW w \in Writers, Writing(w)
  PROVE  InInv' /\ InMoves /\ OutInv' /\ OutMoves
<1>1. UNCHANGED <<in, isem, reader>>
  BY DEF Writing, WriterOn, Write, Putc, WriteRest, PutOn, PutSome
<1>2. OutInv' /\ OutMoves
  <2>1. CASE \E t \in Texts : Write(w, t)
    BY <2>1, WriteKeeps
  <2>2. CASE \E c \in OutChars \cap use : Putc(w, c)
    BY <2>2, PutcKeeps
  <2> QED
    BY <2>1, <2>2, WriteRestKeeps, PutOnKeeps DEF Writing, WriterOn
<1> QED
  BY <1>1, <1>2, InStill

(* The invariant of the driver: both halves. *)
TtyInv == use \in Uses /\ OutInv /\ InInv

LEMMA NoneWait ==
  ASSUME NEW c \in Nat
  PROVE  Larger(-c, 0) = 0
BY DEF Larger

LEMMA TtyInit == Init => TtyInv
<1> SUFFICES ASSUME Init PROVE TtyInv
  OBVIOUS
<1> USE DEF Init
<1>1. IBUFLEN \in Nat \ {0, 1} /\ OBUFLEN \in Nat \ {0} /\ EBUFLEN \in Nat \ {0}
      /\ OBMINSP \in 1..(OBUFLEN - 1) /\ MaxIcnt \in Nat /\ OBMINSP \in Nat
  BY Sizes
<1>2. OutTypes
  <2>1. out \in OutRec
    BY <1>1 DEF OutRec, Chars
  <2>2. osem \in SemRec(Writers)
    BY <1>1 DEF SemRec
  <2>3. writer \in [Writers -> WriterRec]
    BY DEF WriterRec
  <2> QED
    BY <2>1, <2>2, <2>3 DEF OutTypes
<1>3. OutWaits = {} /\ WriterInv /\ OutputArmed
  BY DEF OutWaits, WriterInv, OutputArmed
<1>4. Cardinality({}) = 0 /\ Cardinality(Writers) \in Nat
  BY WritersAssumption, FS_EmptySet, FS_CardinalityType
<1>5. osem.semcnt = OBUFLEN /\ osem.sq = <<>> /\ isem.semcnt = 0 /\ isem.sq = <<>>
      /\ Len(<<>>) = 0
  OBVIOUS
<1>6. Larger(-OBUFLEN, 0) = 0 /\ Larger(-0, 0) = 0
  BY <1>1, NoneWait
<1>7. QueueOK(osem, OutWaits) /\ QueueOK(isem, InWaits)
  BY <1>5, <1>6 DEF QueueOK
<1>8. SpaceInv
  <2>1. out.ocnt = 0 /\ out.odsend = 0
    OBVIOUS
  <2>2. Larger(Cardinality(Writers) - 1, 0) \in Nat
    BY <1>4 DEF Larger
  <2> QED
    BY <1>1, <1>3, <1>4, <1>5, <2>1, <2>2 DEF SpaceInv
<1>9. (0 + 0) % OBUFLEN = 0 /\ (0 + (0 + 0)) % IBUFLEN = 0
  <2>1. 0 \in 0..(OBUFLEN - 1) /\ 0 \in 0..(IBUFLEN - 1) /\ IBUFLEN \in Nat \ {0}
    BY <1>1
  <2>2. 0 % OBUFLEN = 0 /\ 0 % IBUFLEN = 0
    BY <1>1, <2>1, ModSmall
  <2> QED
    BY <2>2
<1>10. OutRing /\ InRing
  BY <1>9 DEF OutRing, InRing
<1>11. InTypes /\ ReaderInv /\ CountInv
  <2>1. in \in InRec
    BY <1>1 DEF InRec, Chars
  <2>2. isem \in SemRec({"reader"}) /\ reader \in ReaderRec
    BY DEF SemRec, ReaderRec
  <2>3. ReaderInv /\ CountInv
    BY DEF ReaderInv, CountInv
  <2> QED
    BY <2>1, <2>2, <2>3 DEF InTypes
<1> QED
  BY <1>2, <1>3, <1>7, <1>8, <1>10, <1>11 DEF TtyInv, OutInv, InInv

LEMMA TtyNext ==
  ASSUME TtyInv, [Next]_vars
  PROVE  TtyInv' /\ OutMoves /\ InMoves
<1>1. use' = use
  <2>1. CASE \E w \in Writers : Writing(w)
    BY <2>1 DEF Writing, WriterOn, Write, Putc, WriteRest, PutOn, PutSome
  <2>2. CASE ttyoin
    BY <2>2 DEF ttyoin
  <2>3. CASE Typing
    BY <2>3 DEF Typing, ttyiin
  <2>4. CASE LateEcho
    BY <2>4 DEF LateEcho
  <2>5. CASE Reading
    BY <2>5 DEF Reading, CallFor, Read, GetOn, NextcSignal, ReadOn
  <2>6. CASE \E func \in Functions \cap use : Cntl(func)
    BY <2>6 DEF Cntl
  <2> QED
    BY <2>1, <2>2, <2>3, <2>4, <2>5, <2>6 DEF Next, vars
<1>2. InInv' /\ InMoves /\ OutInv' /\ OutMoves
  <2>1. InInv /\ OutInv
    BY DEF TtyInv
  <2>2. CASE \E w \in Writers : Writing(w)
    BY <2>1, <2>2, WritingKeeps
  <2>3. CASE ttyoin
    <3>1. UNCHANGED <<in, isem, reader>>
      BY <2>3 DEF ttyoin
    <3> QED
      BY <2>1, <2>3, <3>1, ttyoinKeeps, InStill
  <2>4. CASE Typing
    BY <2>1, <2>4, ttyiinKeeps DEF Typing
  <2>5. CASE \E func \in Functions \cap use : Cntl(func)
    BY <2>1, <2>5, CntlKeeps
  <2>6. CASE UNCHANGED vars
    <3>1. UNCHANGED <<in, isem, reader>> /\ UNCHANGED <<out, osem, writer>>
      BY <2>6 DEF vars
    <3> QED
      BY <2>1, <3>1, StillKeeps, InStill
  <2> QED
    BY <2>1, <2>2, <2>3, <2>4, <2>5, <2>6, LateEchoKeeps, ReadingKeeps DEF Next
<1> QED
  BY <1>1, <1>2 DEF TtyInv

(* The inductive invariant of the driver holds, for every size of the rings, *)
(* every number of writers and everything that is typed and written.         *)
THEOREM TtyInvariance == Spec => []TtyInv
<1>1. Init => TtyInv
  BY TtyInit
<1>2. TtyInv /\ [Next]_vars => TtyInv'
  BY TtyNext
<1> QED
  BY <1>1, <1>2, PTL DEF Spec

(* Type correctness: the pointers stay inside their rings whatever is typed, *)
(* and the signals put off stay fewer than OBMINSP.                          *)
THEOREM TtyTypes == Spec => []TtyTypeOK
<1>1. TtyInv => TtyTypeOK
  BY DEF TtyInv, OutInv, OutTypes, InInv, InTypes, TtyTypeOK,
         OutRec, WriterRec, InRec, ReaderRec, SemRec
<1> QED
  BY <1>1, TtyInvariance, PTL

(* No output is left lying with the transmitter's interrupt disabled, but    *)
(* where a ttywrite() is about to enable it.                                 *)
THEOREM TtyArmed == Spec => []OutputArmed
<1>1. TtyInv => OutputArmed
  BY DEF TtyInv, OutInv
<1> QED
  BY <1>1, TtyInvariance, PTL

(* The places of the output ring are accounted for; ttywrite()'s reset of    *)
(* osem counts no more of them twice than the property says.                 *)
THEOREM TtySpace == Spec => []SpaceInStep
<1>1. TtyInv => SpaceInStep
  <2> SUFFICES ASSUME TtyInv PROVE SpaceInStep
    OBVIOUS
  <2>1. /\ osem \in SemRec(Writers) /\ QueueOK(osem, OutWaits) /\ SpaceInv
        /\ OutWaits \in SUBSET Writers
    BY DEF TtyInv, OutInv, OutTypes, OutWaits
  <2>2. IsFiniteSet(OutWaits)
    BY <2>1, WritersAssumption, FS_Subset
  <2>3. Larger(osem.semcnt, 0) + Cardinality({w \in OutWaits : Granted(w, osem)})
          = osem.semcnt + Cardinality(OutWaits)
    BY <2>1, <2>2, GrantsCounted
  <2>4. OutGrants = {w \in OutWaits : Granted(w, osem)}
    BY DEF OutGrants, OutWaits
  <2> QED
    BY <2>1, <2>3, <2>4 DEF SpaceInStep, SpaceInv
<1> QED
  BY <1>1, TtyInvariance, PTL

(* Every finished character is counted once, by isem or by the grant of the  *)
(* reader, and the pointers of the ring are as far apart as the counts say.  *)
THEOREM TtyInput == Spec => []InputInStep
<1>1. TtyInv => InputInStep
  <2> SUFFICES ASSUME TtyInv PROVE InputInStep
    OBVIOUS
  <2>1. /\ isem \in SemRec({"reader"}) /\ QueueOK(isem, InWaits) /\ CountInv /\ InRing
        /\ in \in InRec /\ reader \in ReaderRec /\ ReaderInv
    BY DEF TtyInv, InInv, InTypes
  <2>2. /\ IsFiniteSet(InWaits) /\ Cardinality({}) = 0 /\ Cardinality({"reader"}) = 1
    BY FS_EmptySet, FS_Singleton DEF InWaits
  <2>3. Larger(isem.semcnt, 0) + Cardinality({w \in InWaits : Granted(w, isem)})
          = isem.semcnt + Cardinality(InWaits)
    BY <2>1, <2>2, GrantsCounted
  <2>4. isem.semcnt \in Int /\ in.icnt \in Nat
    BY <2>1, InFields DEF SemRec
  <2>5. in.icnt = Larger(isem.semcnt, 0) + InGrants
    <3>1. CASE reader.waited /\ Granted("reader", isem)
      <4>1. InWaits = {"reader"} /\ {w \in InWaits : Granted(w, isem)} = {"reader"} /\ InGrants = 1
        BY <3>1 DEF InWaits, InGrants
      <4>2. in.icnt = isem.semcnt + 1
        BY <2>1, <3>1 DEF CountInv
      <4> QED
        BY <2>2, <2>3, <2>4, <4>1, <4>2
    <3>2. CASE reader.waited /\ ~Granted("reader", isem)
      <4>1. reader.at # "peeked"
        BY <2>1, <3>2 DEF ReaderInv
      <4>2. InWaits = {"reader"} /\ {w \in InWaits : Granted(w, isem)} = {} /\ InGrants = 0
        BY <3>2, <4>1 DEF InWaits, InGrants
      <4>3. in.icnt = isem.semcnt + 1
        BY <2>1, <3>2 DEF CountInv
      <4> QED
        BY <2>2, <2>3, <2>4, <4>2, <4>3
    <3>3. CASE ~reader.waited
      <4>1. InWaits = {} /\ {w \in InWaits : Granted(w, isem)} = {}
        BY <3>3 DEF InWaits
      <4>2. in.icnt = isem.semcnt + InGrants
        BY <2>1, <3>3 DEF CountInv, InGrants
      <4>3. InGrants \in {0, 1}
        BY DEF InGrants
      <4>4. PICK l, c : l = Larger(isem.semcnt, 0) /\ c = isem.semcnt
        OBVIOUS
      <4>5. l \in Int
        BY <2>4, <4>4 DEF Larger
      <4>6. l + 0 = c + 0
        BY <2>2, <2>3, <4>1, <4>4
      <4>7. l = c
        BY <2>4, <4>4, <4>5, <4>6
      <4> QED
        BY <4>2, <4>4, <4>7
    <3> QED
      BY <3>1, <3>2, <3>3
  <2>6. (in.ihead - in.itail) % IBUFLEN = (in.icnt + in.icursor) % IBUFLEN
    <3>1. PICK t, x, b : t = in.itail /\ x = in.icnt + in.icursor /\ b = 0 - t
      OBVIOUS
    <3>2. t \in Int /\ x \in Int /\ b \in Int /\ IBUFLEN \in Nat \ {0} /\ t + x \in Int
          /\ in.ihead \in Int
      BY <2>1, <3>1, InFields, Sizes
    <3>3. (((t + x) % IBUFLEN) + b) % IBUFLEN = ((t + x) + b) % IBUFLEN
      BY <3>2, ModAdd
    <3>4. (t + x) + b = x /\ in.ihead + b = in.ihead - t
      BY <3>1, <3>2
    <3>5. in.ihead = (t + x) % IBUFLEN
      BY <2>1, <3>1 DEF InRing
    <3> QED
      BY <3>1, <3>3, <3>4, <3>5
  <2> QED
    BY <2>5, <2>6 DEF InputInStep
<1> QED
  BY <1>1, TtyInvariance, PTL

-----------------------------------------------------------------------------
(* What a ring holds. *)
Reads(q, b, L, t, n) ==
  q \in Seq(Chars) /\ Len(q) = n /\ \A j \in 1..n : q[j] = b[(t + j - 1) % L]

LEMMA HeldFacts ==
  ASSUME NEW L \in Nat \ {0}, NEW b \in [0..(L - 1) -> Chars], NEW t \in Int, NEW n \in Nat,
         NEW q, q = Held(b, L, t, n)
  PROVE  Reads(q, b, L, t, n)
<1>1. \A j \in 1..n : b[(t + j - 1) % L] \in Chars
  <2> TAKE j \in 1..n
  <2>1. t + j - 1 \in Int
    OBVIOUS
  <2>2. (t + j - 1) % L \in 0..(L - 1)
    BY <2>1, DivMod
  <2> QED
    BY <2>2
<1>2. q = [j \in 1..n |-> b[(t + j - 1) % L]]
  BY DEF Held
<1> QED
  BY <1>1, <1>2 DEF Reads

(* Two rings agree on the n characters from t on; h is n places behind t. *)
SameFront(b, c, L, t, n) == \A j \in 1..n : c[(t + j - 1) % L] = b[(t + j - 1) % L]
Behind(h, t, n, L) == h = (t + n) % L
Without(x, n, k) == x = n - k
Dropped(r, q, k, n) ==
  r = SubSeq(q, k + 1, n) /\ Len(q) = n /\ Len(r) = n - k /\ q \in Seq(Chars)

(* The first characters are the same where the ring is the same. *)
LEMMA HeldFront ==
  ASSUME NEW L \in Nat \ {0}, NEW b \in [0..(L - 1) -> Chars], NEW c \in [0..(L - 1) -> Chars],
         NEW t \in Int, NEW n \in Nat, NEW m \in Nat, n <= m,
         SameFront(b, c, L, t, n)
  PROVE  /\ Len(Held(c, L, t, m)) >= Len(Held(b, L, t, n))
         /\ SubSeq(Held(c, L, t, m), 1, Len(Held(b, L, t, n))) = Held(b, L, t, n)
<1>1. PICK q, r : q = Held(b, L, t, n) /\ r = Held(c, L, t, m)
  OBVIOUS
<1>2. q \in Seq(Chars) /\ Len(q) = n /\ \A j \in 1..n : q[j] = b[(t + j - 1) % L]
  BY <1>1, HeldFacts DEF Reads
<1>3. r \in Seq(Chars) /\ Len(r) = m /\ \A j \in 1..m : r[j] = c[(t + j - 1) % L]
  BY <1>1, HeldFacts DEF Reads
<1>4. \A j \in 1..n : r[j] = q[j]
  <2> TAKE j \in 1..n
  <2>1. j \in 1..m
    OBVIOUS
  <2>2. PICK i : i = (t + j - 1) % L
    OBVIOUS
  <2>3. r[j] = c[i]
    BY <1>3, <2>1, <2>2
  <2>4. q[j] = b[i]
    BY <1>2, <2>2
  <2>5. c[i] = b[i]
    BY <2>2 DEF SameFront
  <2> QED
    BY <2>3, <2>4, <2>5
<1>5. SubSeq(r, 1, n) = q
  BY <1>2, <1>3, <1>4
<1> QED
  BY <1>1, <1>2, <1>3, <1>5

(* Without the first k, the rest is what the ring holds from there on. *)
LEMMA HeldBack ==
  ASSUME NEW L \in Nat \ {0}, NEW b \in [0..(L - 1) -> Chars], NEW t \in Int, NEW n \in Nat,
         NEW k \in 0..n, NEW v, Behind(v, t, k, L), NEW z, Without(z, n, k)
  PROVE  Dropped(Held(b, L, v, z), Held(b, L, t, n), k, n)
<1> DEFINE u == (t + k) % L
           m == n - k
           q == Held(b, L, t, n)
           r == Held(b, L, u, m)
<1>1. n \in Nat /\ L \in Nat \ {0}
  OBVIOUS
<1>2. u \in 0..(L - 1) /\ u \in Int /\ m \in Nat /\ t + k \in Int
  <2>1. t + k \in Int
    OBVIOUS
  <2>2. u \in 0..(L - 1)
    BY <2>1, DivMod
  <2> HIDE DEF u
  <2> QED
    BY <2>1, <2>2
<1> HIDE DEF u, m, q, r
<1>3. q \in Seq(Chars) /\ Len(q) = n /\ \A j \in 1..n : q[j] = b[(t + j - 1) % L]
  <2>1. q = Held(b, L, t, n)
    BY DEF q
  <2>2. Reads(q, b, L, t, n)
    BY <2>1, HeldFacts
  <2> QED
    BY <2>2 DEF Reads
<1>4. r \in Seq(Chars) /\ Len(r) = m /\ \A j \in 1..m : r[j] = b[(u + j - 1) % L]
  <2>1. r = Held(b, L, u, m)
    BY DEF r
  <2>2. u \in Int /\ m \in Nat
    BY <1>2
  <2>3. Reads(r, b, L, u, m)
    BY <2>1, <2>2, HeldFacts
  <2> QED
    BY <2>3 DEF Reads
<1>5. \A j \in 1..m : r[j] = q[k + j]
  <2> TAKE j \in 1..m
  <2>1. PICK x : x = j - 1
    OBVIOUS
  <2>2. x \in Int /\ u + j - 1 = u + x /\ (t + k) + x = t + (k + j) - 1 /\ k + j \in 1..n
    BY <1>2, <2>1 DEF m
  <2>3. (((t + k) % L) + x) % L = ((t + k) + x) % L
    BY <1>2, <2>2, ModAdd
  <2>4. q[k + j] = b[(t + (k + j) - 1) % L]
    BY <1>3, <2>2
  <2> QED
    BY <1>4, <2>2, <2>3, <2>4 DEF u
<1>6. PICK s : s = SubSeq(q, k + 1, n)
  OBVIOUS
<1>7. s \in Seq(Chars) /\ Len(s) = m /\ \A j \in 1..m : s[j] = q[k + j]
  BY <1>1, <1>3, <1>6 DEF m
<1>8. r = s
  <2>1. \A j \in 1..m : r[j] = s[j]
    BY <1>5, <1>7
  <2>2. Len(r) = m /\ Len(s) = m /\ r \in Seq(Chars) /\ s \in Seq(Chars)
    BY <1>4, <1>7
  <2> QED
    BY <2>1, <2>2, SeqEqual
<1> QED
  BY <1>3, <1>4, <1>6, <1>8 DEF q, r, u, m, Behind, Without, Dropped

(* Storing behind the n characters from t on does not touch them. *)
LEMMA FilledBehind ==
  ASSUME NEW L \in Nat \ {0}, NEW b \in [0..(L - 1) -> Chars], NEW t \in Int, NEW n \in Nat,
         NEW h, Behind(h, t, n, L), NEW q \in Seq(Chars), n + Len(q) <= L
  PROVE  SameFront(b, Filled(b, L, h, q), L, t, n)
<1> SUFFICES ASSUME NEW j \in 1..n
             PROVE  Filled(b, L, h, q)[(t + j - 1) % L] = b[(t + j - 1) % L]
  BY DEF SameFront
<1>1. h = (t + n) % L
  BY DEF Behind
<1>2. Len(q) \in Nat /\ t + j - 1 \in Int /\ t + n \in Int /\ j \in Int
  OBVIOUS
<1>3. PICK i : i = (t + j - 1) % L
  OBVIOUS
<1>4. i \in 0..(L - 1)
  BY <1>2, <1>3, DivMod
<1>5. \A k \in 1..Len(q) : (h + k - 1) % L # i
  <2> TAKE k \in 1..Len(q)
  <2>1. PICK x, a, c : x = k - 1 /\ a = t + j - 1 /\ c = (t + n) + x
    OBVIOUS
  <2>2. x \in Int /\ a \in Int /\ c \in Int /\ a < c /\ c - a < L /\ h + k - 1 = h + x
    <3>1. h \in Int
      BY <1>2, <1>1, DivMod
    <3> QED
      BY <1>2, <2>1, <3>1
  <2>3. (((t + n) % L) + x) % L = c % L
    BY <1>2, <2>1, <2>2, ModAdd
  <2>4. a % L # c % L
    BY <2>2, ModApart
  <2> QED
    BY <1>3, <1>1, <2>1, <2>2, <2>3, <2>4
<1>6. {k \in 1..Len(q) : (h + k - 1) % L = i} = {}
  BY <1>5
<1>7. Filled(b, L, h, q)[i] = b[i]
  BY <1>4, <1>6 DEF Filled
<1> QED
  BY <1>3, <1>7

(* Storing one character behind the n from t on, and y more, does not touch them. *)
LEMMA KeptBehind ==
  ASSUME NEW L \in Nat \ {0}, NEW b \in [0..(L - 1) -> Chars], NEW t \in Int, NEW n \in Nat,
         NEW y \in Nat, NEW x, x = n + y, NEW h, Behind(h, t, x, L), n + y + 1 <= L, NEW c, NEW d,
         d = [b EXCEPT ![h] = c]
  PROVE  SameFront(b, d, L, t, n)
<1> SUFFICES ASSUME NEW j \in 1..n PROVE d[(t + j - 1) % L] = b[(t + j - 1) % L]
  BY DEF SameFront
<1>1. PICK a, e, i : a = t + j - 1 /\ e = t + (n + y) /\ i = (t + j - 1) % L
  OBVIOUS
<1>2. a \in Int /\ e \in Int /\ a < e /\ e - a < L
  BY <1>1
<1>3. i \in 0..(L - 1)
  BY <1>1, <1>2, DivMod
<1>4. i # h
  BY <1>1, <1>2, ModApart DEF Behind
<1>5. d[i] = b[i]
  BY <1>3, <1>4
<1> QED
  BY <1>1, <1>5

OutputStep ==
  out.ocnt <= OBUFLEN /\ out'.ocnt <= OBUFLEN =>
    LET q == Pending
        r == Pending'
    IN  \/ q # <<>> /\ r = Tail(q)
        \/ Len(r) >= Len(q) /\ SubSeq(r, 1, Len(q)) = q

LEMMA OutputSteps ==
  ASSUME TtyInv, TtyInv', OutMoves
  PROVE  OutputStep
<1>1. /\ out \in OutRec /\ out' \in OutRec /\ OutRing /\ OBUFLEN \in Nat \ {0}
  BY Sizes DEF TtyInv, OutInv, OutTypes
<1>2. PICK L, b, c, t, n, h : /\ L = OBUFLEN /\ b = out.obuff /\ c = out'.obuff /\ t = out.otail
                              /\ n = out.ocnt /\ h = out.ohead
  OBVIOUS
<1>3. /\ L \in Nat \ {0} /\ b \in [0..(L - 1) -> Chars] /\ c \in [0..(L - 1) -> Chars]
      /\ t \in Int /\ n \in Nat
  BY <1>1, <1>2, OutFields
<1>4. Behind(h, t, n, L)
  BY <1>1, <1>2 DEF OutRing, Behind
<1> SUFFICES ASSUME out.ocnt <= OBUFLEN, out'.ocnt <= OBUFLEN
             PROVE  \/ Pending # <<>> /\ Pending' = Tail(Pending)
                    \/ /\ Len(Pending') >= Len(Pending)
                       /\ SubSeq(Pending', 1, Len(Pending)) = Pending
  BY DEF OutputStep
<1>5. Pending = Held(b, L, t, n)
  BY <1>2 DEF Pending
<1>6. CASE SameRing
  <2>1. Pending' = Held(b, L, t, n)
    BY <1>2, <1>6 DEF SameRing, Pending
  <2>2. /\ Len(Held(b, L, t, n)) >= Len(Held(b, L, t, n))
        /\ SubSeq(Held(b, L, t, n), 1, Len(Held(b, L, t, n))) = Held(b, L, t, n)
    <3>1. SameFront(b, b, L, t, n) /\ n <= n
      BY <1>3 DEF SameFront
    <3> QED
      BY <1>3, <3>1, HeldFront
  <2> QED
    BY <1>5, <2>1, <2>2
<1>7. CASE Adding
  <2>1. PICK q \in Seq(Chars) : /\ out'.otail = out.otail /\ out'.ocnt = out.ocnt + Len(q)
                                /\ out'.obuff = Filled(out.obuff, OBUFLEN, out.ohead, q)
    BY <1>7 DEF Adding
  <2>2. PICK m : m = n + Len(q)
    OBVIOUS
  <2>3. m \in Nat /\ n <= m /\ n + Len(q) <= L
    BY <1>2, <1>3, <2>1, <2>2
  <2>4. Pending' = Held(c, L, t, m)
    BY <1>2, <2>1, <2>2 DEF Pending
  <2>5. c = Filled(b, L, h, q)
    BY <1>2, <2>1
  <2>6. SameFront(b, Filled(b, L, h, q), L, t, n)
    BY <1>3, <1>4, <2>3, FilledBehind
  <2>7. /\ Len(Held(c, L, t, m)) >= Len(Held(b, L, t, n))
        /\ SubSeq(Held(c, L, t, m), 1, Len(Held(b, L, t, n))) = Held(b, L, t, n)
    <3>1. SameFront(b, c, L, t, n)
      BY <2>5, <2>6
    <3> QED
      BY <1>3, <2>3, <3>1, HeldFront
  <2> QED
    BY <1>5, <2>4, <2>7
<1>8. CASE Sending
  <2>1. n >= 1 /\ 1 \in 0..n
    BY <1>2, <1>3, <1>8 DEF Sending
  <2>2. PICK v, x : v = (t + 1) % L /\ x = n - 1
    OBVIOUS
  <2>3. Behind(v, t, 1, L)
    BY <2>2 DEF Behind
  <2>4. Pending' = Held(b, L, v, x)
    BY <1>2, <1>8, <2>2 DEF Sending, Pending
  <2>5. PICK q : q = Held(b, L, t, n)
    OBVIOUS
  <2>6. q \in Seq(Chars) /\ Len(q) = n
    BY <1>3, <2>5, HeldFacts DEF Reads
  <2>7. Held(b, L, v, x) = SubSeq(Held(b, L, t, n), 1 + 1, n)
    <3>1. Without(x, n, 1)
      BY <2>2 DEF Without
    <3>2. Dropped(Held(b, L, v, x), Held(b, L, t, n), 1, n)
      BY <1>3, <2>1, <2>3, <3>1, HeldBack
    <3> QED
      BY <3>2 DEF Dropped
  <2>8. q # <<>>
    BY <2>1, <2>6
  <2>9. Tail(q) = SubSeq(q, 2, Len(q))
    BY <2>6, <2>8, TailIsSubSeq
  <2> QED
    BY <1>5, <2>4, <2>5, <2>6, <2>7, <2>8, <2>9
<1> QED
  BY <1>6, <1>7, <1>8 DEF OutMoves

InputStep ==
  Fits(in) /\ Fits(in)' =>
    LET q == Finished
        r == Finished'
    IN  \/ Len(r) >= Len(q) /\ SubSeq(r, 1, Len(q)) = q
        \/ in'.ihead = in.ihead /\ r = SubSeq(q, Len(q) - Len(r) + 1, Len(q))

LEMMA InputSteps ==
  ASSUME TtyInv, TtyInv', InMoves
  PROVE  InputStep
<1>1. /\ in \in InRec /\ in' \in InRec /\ InRing /\ IBUFLEN \in Nat \ {0}
  BY Sizes DEF TtyInv, InInv, InTypes
<1>2. PICK L, b, d, t, n, m, h, y :
        /\ L = IBUFLEN /\ b = in.ibuff /\ d = in'.ibuff /\ t = in.itail
        /\ n = in.icnt /\ m = in'.icnt /\ h = in.ihead /\ y = in.icursor
  OBVIOUS
<1>3. /\ L \in Nat \ {0} /\ b \in [0..(L - 1) -> Chars] /\ d \in [0..(L - 1) -> Chars]
      /\ t \in Int /\ n \in Nat /\ m \in Nat /\ y \in Nat
  BY <1>1, <1>2, InFields
<1>4. PICK x : x = n + y
  OBVIOUS
<1>5. Behind(h, t, x, L)
  BY <1>1, <1>2, <1>4 DEF InRing, Behind
<1> SUFFICES ASSUME Fits(in), Fits(in)'
             PROVE  \/ /\ Len(Finished') >= Len(Finished)
                       /\ SubSeq(Finished', 1, Len(Finished)) = Finished
                    \/ /\ in'.ihead = in.ihead
                       /\ Finished' = SubSeq(Finished, Len(Finished) - Len(Finished') + 1,
                                             Len(Finished))
  BY DEF InputStep
<1>6. Finished = Held(b, L, t, n)
  BY <1>2 DEF Finished
<1>7. CASE SameInput
  <2>1. Finished' = Held(b, L, t, n)
    BY <1>2, <1>7 DEF SameInput, Finished
  <2>2. /\ Len(Held(b, L, t, n)) >= Len(Held(b, L, t, n))
        /\ SubSeq(Held(b, L, t, n), 1, Len(Held(b, L, t, n))) = Held(b, L, t, n)
    <3>1. SameFront(b, b, L, t, n) /\ n <= n
      BY <1>3 DEF SameFront
    <3> QED
      BY <1>3, <3>1, HeldFront
  <2> QED
    BY <1>6, <2>1, <2>2
<1>8. CASE Keeping
  <2>1. PICK c \in Chars : /\ in'.itail = in.itail /\ in'.icnt >= in.icnt
                           /\ in'.icnt + in'.icursor = in.icnt + in.icursor + 1
                           /\ in'.ibuff = [in.ibuff EXCEPT ![in.ihead] = c]
    BY <1>8 DEF Keeping
  <2>2. n <= m /\ n + y + 1 <= L
    BY <1>2, <1>3, <2>1 DEF Fits
  <2>3. d = [b EXCEPT ![h] = c]
    BY <1>2, <2>1
  <2>4. SameFront(b, d, L, t, n)
    BY <1>3, <1>4, <1>5, <2>2, <2>3, KeptBehind
  <2>5. Finished' = Held(d, L, t, m)
    BY <1>2, <2>1 DEF Finished
  <2>6. /\ Len(Held(d, L, t, m)) >= Len(Held(b, L, t, n))
        /\ SubSeq(Held(d, L, t, m), 1, Len(Held(b, L, t, n))) = Held(b, L, t, n)
    BY <1>3, <2>2, <2>4, HeldFront
  <2> QED
    BY <1>6, <2>5, <2>6
<1>9. CASE Taking
  <2>1. PICK k \in 0..in.icnt : /\ in'.itail = (in.itail + k) % IBUFLEN /\ in'.icnt = in.icnt - k
                                /\ in'.ibuff = in.ibuff /\ in'.ihead = in.ihead
    BY <1>9 DEF Taking
  <2>2. k \in 0..n
    BY <1>2
  <2>3. PICK v, z : v = (t + k) % L /\ z = n - k
    OBVIOUS
  <2>4. Behind(v, t, k, L)
    BY <2>3 DEF Behind
  <2>5. Finished' = Held(b, L, v, z)
    BY <1>2, <2>1, <2>3 DEF Finished
  <2>6. /\ Held(b, L, v, z) = SubSeq(Held(b, L, t, n), k + 1, n)
        /\ Len(Held(b, L, t, n)) = n /\ Len(Held(b, L, v, z)) = z
    <3>1. Without(z, n, k)
      BY <2>3 DEF Without
    <3>2. Dropped(Held(b, L, v, z), Held(b, L, t, n), k, n)
      BY <1>3, <2>2, <2>4, <3>1, HeldBack
    <3> QED
      BY <2>3, <3>2 DEF Dropped
  <2>7. n - z + 1 = k + 1
    BY <1>3, <2>2, <2>3
  <2> QED
    BY <1>6, <2>1, <2>5, <2>6, <2>7
<1> QED
  BY <1>7, <1>8, <1>9 DEF InMoves

(* Characters leave the output ring in the order in which they were stored.  *)
THEOREM TtyOutputKept == Spec => OutputKept
<1>1. TtyInv /\ TtyInv' /\ [Next]_vars => [OutputStep]_vars
  BY TtyNext, OutputSteps
<1> QED
  BY <1>1, TtyInvariance, PTL DEF Spec, OutputKept, OutputStep

(* Finished characters stay until a reader takes them, from the front.       *)
THEOREM TtyFinishedKept == Spec => FinishedInputKept
<1>1. TtyInv /\ TtyInv' /\ [Next]_vars => [InputStep]_vars
  BY TtyNext, InputSteps
<1> QED
  BY <1>1, TtyInvariance, PTL DEF Spec, FinishedInputKept, InputStep
=============================================================================
