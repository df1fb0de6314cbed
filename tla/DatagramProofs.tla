--------------------------- MODULE DatagramProofs ---------------------------
(***************************************************************************)
(* First, the buffer pool for any number of processes and buffers: the     *)
(* chain has a buffer for every count that getbuf() takes, a buffer has    *)
(* one owner, and the pool implements the abstract one.                    *)
(*                                                                         *)
(* Then, that the network input, output and datagram devices use the pool  *)
(* as it is meant to be used, for any number of users, queues and buffers; *)
(* and that a timed read never waits without a limit.                      *)
(***************************************************************************)
EXTENDS Datagram, FiniteSetTheorems, SequenceTheorems, TLAPS

-----------------------------------------------------------------------------
(* Sequences without repetition, and their elements. *)

(* The elements of a sequence. *)
LEMMA OnSeq ==
  ASSUME NEW S, NEW q \in Seq(S)
  PROVE  /\ On(q) \subseteq S /\ DOMAIN q = 1..Len(q) /\ Len(q) \in Nat
         /\ (On(q) = {}) <=> (q = <<>>)
         /\ (q = <<>>) <=> (Len(q) = 0)
<1>1. DOMAIN q = 1..Len(q) /\ Len(q) \in Nat /\ \A i \in 1..Len(q) : q[i] \in S
  OBVIOUS
<1>2. (q = <<>>) <=> (Len(q) = 0)
  BY EmptySeq
<1>3. (Len(q) # 0) <=> (DOMAIN q # {})
  BY <1>1
<1>4. (On(q) = {}) <=> (DOMAIN q = {})
  BY Zenon DEF On
<1>5. On(q) \subseteq S
  BY <1>1 DEF On
<1> QED
  BY <1>1, <1>2, <1>3, <1>4, <1>5

(* Taking the first element off. *)
LEMMA HeadTail ==
  ASSUME NEW S, NEW q \in Seq(S), q # <<>>, Distinct(q)
  PROVE  /\ Head(q) \in On(q) /\ Tail(q) \in Seq(S) /\ Distinct(Tail(q))
         /\ On(Tail(q)) = On(q) \ {Head(q)}
         /\ Len(Tail(q)) = Len(q) - 1 /\ Len(q) >= 1
<1>0. DOMAIN q = 1..Len(q) /\ Len(q) \in Nat /\ Len(q) # 0
  BY OnSeq
<1>1. Tail(q) \in Seq(S) /\ Len(Tail(q)) = Len(q) - 1 /\ Head(q) = q[1]
  BY <1>0
<1>2. DOMAIN Tail(q) = 1..(Len(q) - 1)
  BY <1>1, OnSeq
<1>3. \A i \in 1..(Len(q) - 1) : Tail(q)[i] = q[i + 1]
  BY <1>0, <1>1
<1>4. Distinct(Tail(q))
  <2> SUFFICES ASSUME NEW i \in 1..(Len(q) - 1), NEW j \in 1..(Len(q) - 1), q[i + 1] = q[j + 1]
               PROVE  i = j
    BY <1>2, <1>3 DEF Distinct
  <2>1. i + 1 \in DOMAIN q /\ j + 1 \in DOMAIN q
    BY <1>0
  <2> QED
    BY <2>1, <1>0 DEF Distinct
<1>5. On(Tail(q)) = On(q) \ {Head(q)}
  <2>1. ASSUME NEW i \in 1..(Len(q) - 1) PROVE q[i + 1] \in On(q) \ {q[1]}
    <3>1. i + 1 \in DOMAIN q /\ 1 \in DOMAIN q /\ i + 1 # 1
      BY <1>0
    <3> QED
      BY <3>1 DEF On, Distinct
  <2>2. ASSUME NEW k \in DOMAIN q, q[k] # q[1] PROVE q[k] \in On(Tail(q))
    <3>1. k - 1 \in 1..(Len(q) - 1) /\ (k - 1) + 1 = k
      BY <2>2, <1>0
    <3> QED
      BY <3>1, <1>2, <1>3 DEF On
  <2>3. On(Tail(q)) \subseteq On(q) \ {q[1]}
    BY <2>1, <1>2, <1>3 DEF On
  <2>4. On(q) \ {q[1]} \subseteq On(Tail(q))
    BY <2>2 DEF On
  <2> QED
    BY <2>3, <2>4, <1>1
<1>6. Head(q) \in On(q)
  BY <1>0, <1>1 DEF On
<1> QED
  BY <1>0, <1>1, <1>4, <1>5, <1>6

(* One sequence after another. *)
LEMMA Joined ==
  ASSUME NEW S, NEW q \in Seq(S), NEW r \in Seq(S), Distinct(q), Distinct(r),
         \A x \in On(q) : x \notin On(r)
  PROVE  /\ q \o r \in Seq(S) /\ Len(q \o r) = Len(q) + Len(r)
         /\ Distinct(q \o r) /\ On(q \o r) = On(q) \cup On(r)
<1>0. /\ DOMAIN q = 1..Len(q) /\ Len(q) \in Nat
      /\ DOMAIN r = 1..Len(r) /\ Len(r) \in Nat
  BY OnSeq
<1>1. /\ q \o r \in Seq(S) /\ Len(q \o r) = Len(q) + Len(r)
      /\ DOMAIN (q \o r) = 1..(Len(q) + Len(r))
  BY <1>0
<1>2. \A i \in 1..(Len(q) + Len(r)) : (q \o r)[i] = IF i <= Len(q) THEN q[i] ELSE r[i - Len(q)]
  BY <1>0, <1>1
<1>3. \A i \in 1..(Len(q) + Len(r)) : IF i <= Len(q) THEN i \in DOMAIN q ELSE i - Len(q) \in DOMAIN r
  BY <1>0
<1>4. \A i \in DOMAIN q, j \in DOMAIN r : q[i] # r[j]
  BY DEF On
<1>5. Distinct(q \o r)
  <2> SUFFICES ASSUME NEW i \in 1..(Len(q) + Len(r)), NEW j \in 1..(Len(q) + Len(r)),
                      (q \o r)[i] = (q \o r)[j]
               PROVE  i = j
    BY <1>1 DEF Distinct
  <2>1. CASE i <= Len(q) /\ j <= Len(q)
    BY <2>1, <1>2, <1>3 DEF Distinct
  <2>2. CASE ~(i <= Len(q)) /\ ~(j <= Len(q))
    <3>1. i - Len(q) = j - Len(q)
      BY <2>2, <1>2, <1>3 DEF Distinct
    <3> QED
      BY <3>1, <1>0
  <2>3. CASE i <= Len(q) /\ ~(j <= Len(q))
    BY <2>3, <1>2, <1>3, <1>4
  <2>4. CASE ~(i <= Len(q)) /\ j <= Len(q)
    BY <2>4, <1>2, <1>3, <1>4
  <2> QED
    BY <2>1, <2>2, <2>3, <2>4
<1>6. On(q \o r) \subseteq On(q) \cup On(r)
  BY <1>1, <1>2, <1>3 DEF On
<1>7. On(q) \subseteq On(q \o r)
  <2> SUFFICES ASSUME NEW i \in DOMAIN q PROVE q[i] \in On(q \o r)
    BY DEF On
  <2>1. i \in 1..(Len(q) + Len(r)) /\ i <= Len(q)
    BY <1>0
  <2> QED
    BY <2>1, <1>1, <1>2 DEF On
<1>8. On(r) \subseteq On(q \o r)
  <2> SUFFICES ASSUME NEW i \in DOMAIN r PROVE r[i] \in On(q \o r)
    BY DEF On
  <2>1. /\ Len(q) + i \in 1..(Len(q) + Len(r)) /\ ~(Len(q) + i <= Len(q))
        /\ (Len(q) + i) - Len(q) = i
    BY <1>0
  <2> QED
    BY <2>1, <1>1, <1>2 DEF On
<1> QED
  BY <1>1, <1>5, <1>6, <1>7, <1>8

(* A sequence of one. *)
LEMMA Single ==
  ASSUME NEW S, NEW e \in S
  PROVE  <<e>> \in Seq(S) /\ Len(<<e>>) = 1 /\ Distinct(<<e>>) /\ On(<<e>>) = {e}
<1>1. DOMAIN <<e>> = {1} /\ <<e>>[1] = e /\ Len(<<e>>) = 1
  OBVIOUS
<1> QED
  BY <1>1 DEF Distinct, On

(* A new last element. *)
LEMMA Appended ==
  ASSUME NEW S, NEW q \in Seq(S), NEW e \in S, Distinct(q), e \notin On(q)
  PROVE  /\ Append(q, e) \in Seq(S) /\ Len(Append(q, e)) = Len(q) + 1
         /\ Distinct(Append(q, e)) /\ On(Append(q, e)) = On(q) \cup {e}
<1> DEFINE t == <<e>>
<1>1. Append(q, e) = q \o t
  BY AppendIsConcat
<1>2. t \in Seq(S) /\ Distinct(t) /\ On(t) = {e} /\ Len(t) = 1
  BY Single
<1> HIDE DEF t
<1>3. \A x \in On(q) : x \notin On(t)
  BY <1>2
<1>4. ASSUME NEW r \in Seq(S), Distinct(r), \A x \in On(q) : x \notin On(r)
      PROVE  /\ q \o r \in Seq(S) /\ Len(q \o r) = Len(q) + Len(r)
             /\ Distinct(q \o r) /\ On(q \o r) = On(q) \cup On(r)
  BY <1>4, Joined
<1>5. /\ q \o t \in Seq(S) /\ Len(q \o t) = Len(q) + Len(t)
      /\ Distinct(q \o t) /\ On(q \o t) = On(q) \cup On(t)
  BY <1>2, <1>3, <1>4
<1> QED
  BY <1>1, <1>2, <1>5

(* A new first element. *)
LEMMA Pushed ==
  ASSUME NEW S, NEW q \in Seq(S), NEW e \in S, Distinct(q), e \notin On(q)
  PROVE  /\ <<e>> \o q \in Seq(S) /\ Len(<<e>> \o q) = Len(q) + 1 /\ Len(q) \in Nat
         /\ Distinct(<<e>> \o q) /\ On(<<e>> \o q) = On(q) \cup {e}
<1> DEFINE t == <<e>>
<1>1. t \in Seq(S) /\ Distinct(t) /\ On(t) = {e} /\ Len(t) = 1 /\ Len(q) \in Nat
  BY Single
<1> HIDE DEF t
<1>2. \A x \in On(t) : x \notin On(q)
  BY <1>1
<1>3. ASSUME NEW r \in Seq(S), Distinct(r), \A x \in On(r) : x \notin On(q)
      PROVE  /\ r \o q \in Seq(S) /\ Len(r \o q) = Len(r) + Len(q)
             /\ Distinct(r \o q) /\ On(r \o q) = On(r) \cup On(q)
  BY <1>3, Joined
<1>4. /\ t \o q \in Seq(S) /\ Len(t \o q) = Len(t) + Len(q)
      /\ Distinct(t \o q) /\ On(t \o q) = On(t) \cup On(q)
  BY <1>1, <1>2, <1>3
<1>5. t \o q \in Seq(S) /\ Len(t \o q) = Len(q) + 1 /\ On(t \o q) = On(q) \cup {e}
  BY <1>1, <1>4
<1> QED
  BY <1>1, <1>4, <1>5 DEF t

(* The same elements in the other order. *)
LEMMA ReversedFacts ==
  ASSUME NEW S, NEW q \in Seq(S), Distinct(q)
  PROVE  /\ Reversed(q) \in Seq(S) /\ Len(Reversed(q)) = Len(q)
         /\ Distinct(Reversed(q)) /\ On(Reversed(q)) = On(q)
<1>0. DOMAIN q = 1..Len(q) /\ Len(q) \in Nat /\ \A i \in 1..Len(q) : q[i] \in S
  BY OnSeq
<1> DEFINE back(i) == Len(q) - i + 1
<1>1. \A i \in 1..Len(q) : back(i) \in 1..Len(q) /\ back(back(i)) = i
  BY <1>0
<1>2. DOMAIN Reversed(q) = 1..Len(q) /\ \A i \in 1..Len(q) : Reversed(q)[i] = q[back(i)]
  BY DEF Reversed
<1>3. Reversed(q) \in [1..Len(q) -> S]
  BY <1>0, <1>1 DEF Reversed
<1>4. Reversed(q) \in Seq(S) /\ Len(Reversed(q)) = Len(q)
  BY <1>0, <1>3
<1>5. Distinct(Reversed(q))
  <2> SUFFICES ASSUME NEW i \in 1..Len(q), NEW j \in 1..Len(q), q[back(i)] = q[back(j)]
               PROVE  i = j
    BY <1>2 DEF Distinct
  <2>1. back(i) = back(j)
    BY <1>0, <1>1 DEF Distinct
  <2> QED
    BY <2>1, <1>0
<1> HIDE DEF back
<1>6. On(Reversed(q)) = On(q)
  BY <1>0, <1>1, <1>2 DEF On
<1> QED
  BY <1>4, <1>5, <1>6

(* An element taken out. *)
LEMMA WithoutFacts ==
  ASSUME NEW S, NEW q \in Seq(S), NEW i \in DOMAIN q, Distinct(q)
  PROVE  /\ Without(q, i) \in Seq(S) /\ Len(Without(q, i)) = Len(q) - 1
         /\ Distinct(Without(q, i)) /\ On(Without(q, i)) = On(q) \ {q[i]}
<1>0. DOMAIN q = 1..Len(q) /\ Len(q) \in Nat /\ i \in 1..Len(q) /\ \A k \in 1..Len(q) : q[k] \in S
  BY OnSeq
<1> DEFINE at(j) == IF j < i THEN j ELSE j + 1
<1>1. \A j \in 1..(Len(q) - 1) : at(j) \in 1..Len(q) /\ at(j) # i
  BY <1>0
<1>2. \A j \in 1..(Len(q) - 1) : Without(q, i)[j] = q[at(j)]
  BY DEF Without
<1>3. DOMAIN Without(q, i) = 1..(Len(q) - 1)
  BY DEF Without
<1>4. Without(q, i) \in [1..(Len(q) - 1) -> S]
  <2>1. \A j \in 1..(Len(q) - 1) : q[at(j)] \in S
    BY <1>0, <1>1
  <2> QED
    BY <2>1 DEF Without
<1>5. Without(q, i) \in Seq(S) /\ Len(Without(q, i)) = Len(q) - 1
  <2>1. Len(q) - 1 \in Nat
    BY <1>0
  <2> QED
    BY <1>4, <2>1, SeqDef, LenProperties
<1>6. \A j, k \in 1..(Len(q) - 1) : at(j) = at(k) => j = k
  BY <1>0
<1>7. \A k \in 1..Len(q) : k # i => \E j \in 1..(Len(q) - 1) : at(j) = k
  <2> SUFFICES ASSUME NEW k \in 1..Len(q), k # i PROVE \E j \in 1..(Len(q) - 1) : at(j) = k
    OBVIOUS
  <2>1. CASE k < i
    <3>1. k \in 1..(Len(q) - 1) /\ at(k) = k
      BY <1>0, <2>1
    <3> QED
      BY <3>1
  <2>2. CASE ~(k < i)
    <3>1. k - 1 \in 1..(Len(q) - 1) /\ at(k - 1) = k
      BY <1>0, <2>2
    <3> QED
      BY <3>1
  <2> QED
    BY <2>1, <2>2
<1> HIDE DEF at
<1>8. Distinct(Without(q, i))
  BY <1>0, <1>1, <1>2, <1>3, <1>6 DEF Distinct
<1>9. On(Without(q, i)) = On(q) \ {q[i]}
  <2>1. On(Without(q, i)) \subseteq On(q) \ {q[i]}
    BY <1>0, <1>1, <1>2, <1>3 DEF On, Distinct
  <2>2. ASSUME NEW k \in DOMAIN q, q[k] # q[i] PROVE q[k] \in On(Without(q, i))
    <3>1. PICK j \in 1..(Len(q) - 1) : at(j) = k
      BY <1>0, <1>7, <2>2
    <3>2. Without(q, i)[j] = q[k]
      BY <1>2, <3>1
    <3> QED
      BY <1>3, <3>2 DEF On
  <2>3. On(q) \ {q[i]} \subseteq On(Without(q, i))
    BY <2>2 DEF On
  <2> QED
    BY <2>1, <2>3
<1> QED
  BY <1>5, <1>8, <1>9

-----------------------------------------------------------------------------
(* Every step keeps the invariant. *)

BpInv == BpTypeOK /\ ChainCovers /\ OneOwner

(* What the semaphore's count is worth. *)
Positive(n) == IF n > 0 THEN n ELSE 0

(* The processes that have a count are finitely many, and how their number  *)
(* changes when one comes or goes.                                          *)
LEMMA CountedFinite == IsFiniteSet(Counted) /\ Cardinality(Counted) \in Nat
<1>1. Counted \in SUBSET Procs
  BY DEF Counted
<1> QED
  BY <1>1, PoolAssumption, FS_Subset, FS_CardinalityType

(* The chain is not empty when a process has a count. *)
LEMMA ChainNotEmpty ==
  ASSUME BpInv, NEW p \in Procs, call[p] = "take"
  PROVE  chain # <<>>
<1>1. p \in Counted
  BY DEF Counted
<1>2. Cardinality(Counted) # 0 /\ Cardinality(Counted) \in Nat
  BY <1>1, CountedFinite, FS_EmptySet
<1>3. chain \in Seq(Buffers) /\ bpsem.semcnt \in Int /\ Len(chain) \in Nat
  BY DEF BpInv, BpTypeOK
<1>4. Len(chain) >= 1
  BY <1>2, <1>3 DEF BpInv, ChainCovers
<1> QED
  BY <1>3, <1>4

(* mkpool() establishes the invariant. *)
LEMMA InitInv == BpInit => BpInv
<1> SUFFICES ASSUME BpInit PROVE BpInv
  OBVIOUS
<1>0. NumBufs \in Nat /\ NumBufs > 0
  BY PoolAssumption
<1>1. chain \in [1..NumBufs -> Buffers]
  BY DEF BpInit, Buffers
<1>2. chain \in Seq(Buffers) /\ Len(chain) = NumBufs
  BY <1>0, <1>1, SeqDef, LenProperties
<1>3. Distinct(chain)
  BY DEF BpInit, Distinct
<1>4. bpsem.semcnt = NumBufs /\ bpsem.sq = <<>> /\ bpsem = [semcnt |-> NumBufs, sq |-> <<>>]
  BY DEF BpInit
<1>5. BpTypeOK
  BY <1>0, <1>2, <1>3, <1>4 DEF BpInit, BpTypeOK, Distinct
<1>6. Counted = {} /\ Waiters = {}
  BY DEF BpInit, Counted, Waiters
<1>7. Cardinality(Counted) = 0
  BY <1>6, FS_EmptySet
<1>8. On(bpsem.sq) = {}
  BY <1>4 DEF On
<1>9. ChainCovers
  BY <1>0, <1>2, <1>4, <1>6, <1>7, <1>8 DEF ChainCovers
<1>10. OneOwner
  BY DEF BpInit, OneOwner
<1> QED
  BY <1>5, <1>9, <1>10 DEF BpInv

(* wait() in getbuf() *)
LEMMA GetbufWaitInv ==
  ASSUME BpInv, NEW p \in Procs, GetbufWait(p)
  PROVE  BpInv'
<1>0. /\ BpTypeOK /\ ChainCovers /\ OneOwner /\ chain' = chain /\ held' = held
      /\ bpsem.semcnt \in Int /\ bpsem.sq \in Seq(Procs) /\ Distinct(bpsem.sq)
      /\ call[p] = "none" /\ call \in [Procs -> {"none", "wait", "take", "linked", "dead"}]
      /\ Len(bpsem.sq) \in Nat /\ Len(chain) \in Nat
  BY DEF BpInv, BpTypeOK, GetbufWait
<1>1. OneOwner'
  BY <1>0 DEF OneOwner
<1>2. p \notin Waiters /\ p \notin Counted
  BY <1>0 DEF Waiters, Counted
<1>3. CASE bpsem.semcnt < 1
  <2>1. /\ bpsem' = [semcnt |-> bpsem.semcnt - 1, sq |-> Append(bpsem.sq, p)]
        /\ call' = [call EXCEPT ![p] = "wait"]
    BY <1>0, <1>3 DEF GetbufWait
  <2>2. p \notin On(bpsem.sq)
    BY <1>0, <1>2 DEF ChainCovers
  <2>3. /\ bpsem'.sq \in Seq(Procs) /\ Len(bpsem'.sq) = Len(bpsem.sq) + 1
        /\ Distinct(bpsem'.sq) /\ On(bpsem'.sq) = On(bpsem.sq) \cup {p}
    BY <1>0, <2>1, <2>2, Appended
  <2>4. Counted' = Counted /\ Waiters' = Waiters \cup {p}
    BY <1>0, <2>1 DEF Counted, Waiters
  <2>5. bpsem'.semcnt = bpsem.semcnt - 1 /\ bpsem' \in [semcnt : Int, sq : Seq(Procs)]
    BY <1>0, <2>1, <2>3
  <2>6. BpTypeOK'
    BY <1>0, <2>1, <2>3, <2>5 DEF BpTypeOK
  <2>7. ChainCovers'
    BY <1>0, <1>3, <2>3, <2>4, <2>5, CountedFinite DEF ChainCovers
  <2> QED
    BY <1>1, <2>6, <2>7 DEF BpInv
<1>4. CASE bpsem.semcnt >= 1
  <2>1. bpsem' = [bpsem EXCEPT !.semcnt = @ - 1] /\ call' = [call EXCEPT ![p] = "take"]
    BY <1>0, <1>4 DEF GetbufWait
  <2>2. bpsem'.sq = bpsem.sq /\ bpsem'.semcnt = bpsem.semcnt - 1
        /\ bpsem' \in [semcnt : Int, sq : Seq(Procs)]
    BY <1>0, <2>1 DEF BpTypeOK
  <2>3. Counted' = Counted \cup {p} /\ Waiters' = Waiters
    BY <1>0, <2>1 DEF Counted, Waiters
  <2>4. Cardinality(Counted') = Cardinality(Counted) + 1
    BY <1>2, <2>3, CountedFinite, FS_AddElement
  <2>5. BpTypeOK'
    BY <1>0, <2>1, <2>2 DEF BpTypeOK
  <2>6. ChainCovers'
    BY <1>0, <1>4, <2>2, <2>3, <2>4, CountedFinite DEF ChainCovers
  <2> QED
    BY <1>1, <2>5, <2>6 DEF BpInv
<1> QED
  BY <1>0, <1>3, <1>4

(* The rest of getbuf() *)
LEMMA GetbufTakeInv ==
  ASSUME BpInv, NEW p \in Procs, GetbufTake(p)
  PROVE  BpInv' /\ Head(chain) \in On(chain) /\ On(chain') = On(chain) \ {Head(chain)}
<1>0. /\ BpTypeOK /\ ChainCovers /\ OneOwner /\ chain \in Seq(Buffers) /\ Distinct(chain)
      /\ call[p] = "take" /\ bpsem' = bpsem /\ chain' = Tail(chain)
      /\ call' = [call EXCEPT ![p] = "none"] /\ held' = [held EXCEPT ![p] = @ \cup {Head(chain)}]
      /\ held \in [Procs -> SUBSET Buffers] /\ bpsem.semcnt \in Int
  BY DEF BpInv, BpTypeOK, GetbufTake
<1>1. chain # <<>>
  BY <1>0, ChainNotEmpty
<1>2. /\ Head(chain) \in On(chain) /\ chain' \in Seq(Buffers) /\ Distinct(chain')
      /\ On(chain') = On(chain) \ {Head(chain)} /\ Len(chain') = Len(chain) - 1
      /\ Len(chain) \in Nat
  BY <1>0, <1>1, HeadTail
<1>3. Head(chain) \in Buffers
  BY <1>0, <1>2, OnSeq
<1>4. Counted' = Counted \ {p} /\ p \in Counted /\ Waiters' = Waiters
  BY <1>0 DEF BpTypeOK, Counted, Waiters
<1>5. Cardinality(Counted') = Cardinality(Counted) - 1
  BY <1>4, CountedFinite, FS_RemoveElement
<1>6. BpTypeOK'
  BY <1>0, <1>2, <1>3 DEF BpTypeOK
<1>7. ChainCovers'
  BY <1>0, <1>2, <1>4, <1>5, CountedFinite DEF ChainCovers
<1>8. OneOwner'
  BY <1>0, <1>2, <1>3 DEF OneOwner
<1> QED
  BY <1>2, <1>6, <1>7, <1>8 DEF BpInv

Places == {"none", "wait", "take", "linked", "dead"}

(* signal(): one count more, in the semaphore or with the process that      *)
(* waited longest.                                                          *)
LEMMA SignalFacts ==
  ASSUME BpTypeOK, NEW STATE c, c \in [Procs -> Places], SignalPool(c),
         Len(bpsem.sq) = (IF bpsem.semcnt < 0 THEN -bpsem.semcnt ELSE 0),
         On(bpsem.sq) = {x \in Procs : c[x] = "wait"}
  PROVE  /\ bpsem' \in [semcnt : Int, sq : Seq(Procs)] /\ Distinct(bpsem'.sq)
         /\ call' \in [Procs -> Places]
         /\ Len(bpsem'.sq) = (IF bpsem'.semcnt < 0 THEN -bpsem'.semcnt ELSE 0)
         /\ On(bpsem'.sq) = Waiters'
         /\ Positive(bpsem'.semcnt) + Cardinality(Counted')
              = Positive(bpsem.semcnt) + Cardinality({x \in Procs : c[x] \in {"take", "linked"}}) + 1
<1> DEFINE C == {x \in Procs : c[x] \in {"take", "linked"}}
<1>0. /\ bpsem.semcnt \in Int /\ bpsem.sq \in Seq(Procs) /\ Distinct(bpsem.sq)
      /\ Len(bpsem.sq) \in Nat /\ bpsem \in [semcnt : Int, sq : Seq(Procs)]
  BY DEF BpTypeOK
<1>1. IsFiniteSet(C) /\ Cardinality(C) \in Nat
  <2>1. C \in SUBSET Procs
    OBVIOUS
  <2> QED
    BY <2>1, PoolAssumption, FS_Subset, FS_CardinalityType
<1>2. CASE bpsem.semcnt < 0
  <2>1. /\ bpsem' = [semcnt |-> bpsem.semcnt + 1, sq |-> Tail(bpsem.sq)]
        /\ call' = [c EXCEPT ![Head(bpsem.sq)] = "take"]
    BY <1>2 DEF SignalPool
  <2>2. bpsem.sq # <<>>
    BY <1>0, <1>2, OnSeq
  <2>3. /\ Head(bpsem.sq) \in On(bpsem.sq) /\ Tail(bpsem.sq) \in Seq(Procs)
        /\ Distinct(Tail(bpsem.sq)) /\ On(Tail(bpsem.sq)) = On(bpsem.sq) \ {Head(bpsem.sq)}
        /\ Len(Tail(bpsem.sq)) = Len(bpsem.sq) - 1
    BY <1>0, <2>2, HeadTail
  <2>4. Head(bpsem.sq) \in Procs /\ c[Head(bpsem.sq)] = "wait"
    BY <2>3
  <2>5. Counted' = C \cup {Head(bpsem.sq)} /\ Head(bpsem.sq) \notin C
    BY <2>1, <2>4 DEF Counted
  <2>6. Cardinality(Counted') = Cardinality(C) + 1
    BY <1>1, <2>5, FS_AddElement
  <2>7. On(bpsem'.sq) = Waiters'
    BY <2>1, <2>3, <2>4 DEF Waiters
  <2>8. call' \in [Procs -> Places]
    BY <2>1, <2>4 DEF Places
  <2>9. /\ bpsem'.semcnt = bpsem.semcnt + 1 /\ bpsem'.sq = Tail(bpsem.sq)
        /\ bpsem' \in [semcnt : Int, sq : Seq(Procs)]
    BY <1>0, <2>1, <2>3
  <2>10. Len(bpsem'.sq) = (IF bpsem'.semcnt < 0 THEN -bpsem'.semcnt ELSE 0)
    BY <1>0, <1>2, <2>3, <2>9
  <2>11. Positive(bpsem'.semcnt) = 0 /\ Positive(bpsem.semcnt) = 0
    BY <1>0, <1>2, <2>9 DEF Positive
  <2> QED
    BY <1>1, <2>3, <2>6, <2>7, <2>8, <2>9, <2>10, <2>11
<1>3. CASE ~(bpsem.semcnt < 0)
  <2>1. bpsem' = [bpsem EXCEPT !.semcnt = @ + 1] /\ call' = c
    BY <1>3 DEF SignalPool
  <2>2. /\ bpsem'.semcnt = bpsem.semcnt + 1 /\ bpsem'.sq = bpsem.sq
        /\ bpsem' \in [semcnt : Int, sq : Seq(Procs)]
    BY <1>0, <2>1
  <2>3. Counted' = C /\ Waiters' = On(bpsem.sq)
    BY <2>1 DEF Counted, Waiters
  <2>4. Positive(bpsem'.semcnt) = Positive(bpsem.semcnt) + 1 /\ Positive(bpsem.semcnt) \in Int
    BY <1>0, <1>3, <2>2 DEF Positive
  <2> QED
    BY <1>0, <1>1, <1>3, <2>1, <2>2, <2>3, <2>4
<1> QED
  BY <1>2, <1>3

(* freebuf() up to signal() *)
LEMMA FreebufLinkInv ==
  ASSUME BpInv, NEW p \in Procs, NEW b \in Buffers, FreebufLink(p, b)
  PROVE  BpInv' /\ On(chain') = On(chain) \cup {b}
<1>0. /\ BpTypeOK /\ ChainCovers /\ OneOwner /\ chain \in Seq(Buffers) /\ Distinct(chain)
      /\ call[p] = "none" /\ b \in held[p] /\ bpsem' = bpsem
      /\ call' = [call EXCEPT ![p] = "linked"] /\ held' = [held EXCEPT ![p] = @ \ {b}]
      /\ held \in [Procs -> SUBSET Buffers] /\ bpsem.semcnt \in Int
  BY DEF BpInv, BpTypeOK, FreebufLink
<1>1. /\ chain' \in Seq(Buffers) /\ Distinct(chain') /\ On(chain') = On(chain) \cup {b}
      /\ Len(chain') = Len(chain) + 1 /\ Len(chain) \in Nat
  BY <1>0, Pushed DEF FreebufLink, OneOwner
<1>2. Counted' = Counted \cup {p} /\ p \notin Counted /\ Waiters' = Waiters
  BY <1>0 DEF BpTypeOK, Counted, Waiters
<1>3. Cardinality(Counted') = Cardinality(Counted) + 1
  BY <1>2, CountedFinite, FS_AddElement
<1>4. BpTypeOK'
  BY <1>0, <1>1 DEF BpTypeOK
<1>5. ChainCovers'
  BY <1>0, <1>1, <1>2, <1>3, CountedFinite DEF ChainCovers
<1>6. OneOwner'
  BY <1>0, <1>1 DEF OneOwner
<1> QED
  BY <1>1, <1>4, <1>5, <1>6 DEF BpInv

(* signal() in freebuf() *)
LEMMA FreebufSignalInv ==
  ASSUME BpInv, NEW p \in Procs, FreebufSignal(p)
  PROVE  BpInv'
<1> DEFINE c == [call EXCEPT ![p] = "none"]
           C == {x \in Procs : c[x] \in {"take", "linked"}}
<1>0. /\ BpTypeOK /\ ChainCovers /\ OneOwner /\ chain' = chain /\ held' = held
      /\ call[p] = "linked" /\ call \in [Procs -> Places] /\ bpsem.semcnt \in Int
      /\ SignalPool(c) /\ Len(chain) \in Nat
  BY DEF BpInv, BpTypeOK, FreebufSignal, Places
<1>1. c \in [Procs -> Places] /\ {x \in Procs : c[x] = "wait"} = Waiters
  BY <1>0 DEF Places, Waiters
<1>2. C = Counted \ {p} /\ p \in Counted
  BY <1>0 DEF Counted
<1>3. Cardinality(C) = Cardinality(Counted) - 1
  BY <1>2, CountedFinite, FS_RemoveElement
<1> HIDE DEF c
<1>4. /\ bpsem' \in [semcnt : Int, sq : Seq(Procs)] /\ Distinct(bpsem'.sq)
      /\ call' \in [Procs -> Places]
      /\ Len(bpsem'.sq) = (IF bpsem'.semcnt < 0 THEN -bpsem'.semcnt ELSE 0)
      /\ On(bpsem'.sq) = Waiters'
      /\ Positive(bpsem'.semcnt) + Cardinality(Counted') = Positive(bpsem.semcnt) + Cardinality(C) + 1
  BY <1>0, <1>1, SignalFacts DEF ChainCovers
<1>5. BpTypeOK'
  BY <1>0, <1>4 DEF BpTypeOK, Places
<1> HIDE DEF C
<1>6. ChainCovers'
  <2>1. Len(chain) >= Positive(bpsem.semcnt) + Cardinality(Counted)
    BY <1>0 DEF ChainCovers, Positive
  <2>2. Positive(bpsem.semcnt) \in Int
    BY <1>0 DEF Positive
  <2>3. Len(chain') >= Positive(bpsem'.semcnt) + Cardinality(Counted')
    BY <1>0, <1>3, <1>4, <2>1, <2>2, CountedFinite
  <2> QED
    BY <1>4, <2>3 DEF ChainCovers, Positive
<1>7. OneOwner'
  BY <1>0 DEF OneOwner
<1> QED
  BY <1>5, <1>6, <1>7 DEF BpInv

(* freebuf() in one step *)
LEMMA FreebufInv ==
  ASSUME BpInv, NEW p \in Procs, NEW b \in Buffers, Freebuf(p, b)
  PROVE  BpInv' /\ On(chain') = On(chain) \cup {b}
<1>0. /\ BpTypeOK /\ ChainCovers /\ OneOwner /\ chain \in Seq(Buffers) /\ Distinct(chain)
      /\ call[p] = "none" /\ b \in held[p] /\ call \in [Procs -> Places]
      /\ held' = [held EXCEPT ![p] = @ \ {b}] /\ SignalPool(call)
      /\ held \in [Procs -> SUBSET Buffers] /\ bpsem.semcnt \in Int
  BY DEF BpInv, BpTypeOK, Freebuf, Places
<1>1. /\ chain' \in Seq(Buffers) /\ Distinct(chain') /\ On(chain') = On(chain) \cup {b}
      /\ Len(chain') = Len(chain) + 1 /\ Len(chain) \in Nat
  BY <1>0, Pushed DEF Freebuf, OneOwner
<1>2. /\ bpsem' \in [semcnt : Int, sq : Seq(Procs)] /\ Distinct(bpsem'.sq)
      /\ call' \in [Procs -> Places]
      /\ Len(bpsem'.sq) = (IF bpsem'.semcnt < 0 THEN -bpsem'.semcnt ELSE 0)
      /\ On(bpsem'.sq) = Waiters'
      /\ Positive(bpsem'.semcnt) + Cardinality(Counted')
           = Positive(bpsem.semcnt) + Cardinality(Counted) + 1
  BY <1>0, SignalFacts DEF ChainCovers, Waiters, Counted
<1>3. BpTypeOK'
  BY <1>0, <1>1, <1>2 DEF BpTypeOK, Places
<1>4. ChainCovers'
  <2>1. Len(chain) >= Positive(bpsem.semcnt) + Cardinality(Counted)
    BY <1>0 DEF ChainCovers, Positive
  <2>2. Positive(bpsem.semcnt) \in Int
    BY <1>0 DEF Positive
  <2>3. Len(chain') >= Positive(bpsem'.semcnt) + Cardinality(Counted')
    BY <1>1, <1>2, <2>1, <2>2, CountedFinite
  <2> QED
    BY <1>2, <2>3 DEF ChainCovers, Positive
<1>5. OneOwner'
  BY <1>0, <1>1 DEF OneOwner
<1> QED
  BY <1>1, <1>3, <1>4, <1>5 DEF BpInv

(* freebuf() of several buffers *)
LEMMA FreebufAllInv ==
  ASSUME BpInv, NEW p \in Procs, NEW q \in Seq(Buffers), FreebufAll(p, q)
  PROVE  BpInv' /\ On(chain') = On(chain) \cup On(q)
<1>0. /\ BpTypeOK /\ ChainCovers /\ OneOwner /\ chain \in Seq(Buffers) /\ Distinct(chain)
      /\ bpsem.sq = <<>> /\ On(q) \subseteq held[p] /\ Distinct(q) /\ call' = call
      /\ held' = [held EXCEPT ![p] = @ \ On(q)] /\ chain' = Reversed(q) \o chain
      /\ bpsem' = [bpsem EXCEPT !.semcnt = @ + Len(q)] /\ Len(q) \in Nat /\ Len(chain) \in Nat
      /\ held \in [Procs -> SUBSET Buffers] /\ bpsem.semcnt \in Int
      /\ bpsem \in [semcnt : Int, sq : Seq(Procs)]
  BY DEF BpInv, BpTypeOK, FreebufAll
<1>1. /\ Reversed(q) \in Seq(Buffers) /\ Len(Reversed(q)) = Len(q)
      /\ Distinct(Reversed(q)) /\ On(Reversed(q)) = On(q)
  BY <1>0, ReversedFacts
<1>2. \A x \in On(Reversed(q)) : x \notin On(chain)
  BY <1>0, <1>1 DEF OneOwner
<1>3. /\ chain' \in Seq(Buffers) /\ Len(chain') = Len(q) + Len(chain)
      /\ Distinct(chain') /\ On(chain') = On(chain) \cup On(q)
  <2>1. ASSUME NEW r \in Seq(Buffers), Distinct(r), \A x \in On(r) : x \notin On(chain)
        PROVE  /\ r \o chain \in Seq(Buffers) /\ Len(r \o chain) = Len(r) + Len(chain)
               /\ Distinct(r \o chain) /\ On(r \o chain) = On(r) \cup On(chain)
    BY <1>0, <2>1, Joined
  <2> QED
    BY <1>0, <1>1, <1>2, <2>1
<1>4. /\ bpsem'.semcnt = bpsem.semcnt + Len(q) /\ bpsem'.sq = bpsem.sq
      /\ bpsem' \in [semcnt : Int, sq : Seq(Procs)]
  BY <1>0
<1>5. bpsem.semcnt >= 0
  BY <1>0 DEF ChainCovers
<1>6. Counted' = Counted /\ Waiters' = Waiters
  BY <1>0 DEF Counted, Waiters
<1>7. BpTypeOK'
  BY <1>0, <1>3, <1>4 DEF BpTypeOK
<1>8. ChainCovers'
  BY SMTT(60), <1>0, <1>3, <1>4, <1>5, <1>6, CountedFinite DEF ChainCovers
<1>9. OneOwner'
  BY <1>0, <1>3 DEF OneOwner
<1> QED
  BY <1>3, <1>7, <1>8, <1>9 DEF BpInv

(* A buffer changes hands *)
LEMMA PassInv ==
  ASSUME BpInv, NEW p \in Procs, NEW q \in Procs, NEW b \in Buffers, Pass(p, q, b)
  PROVE  BpInv'
<1>0. /\ BpTypeOK /\ ChainCovers /\ OneOwner /\ p # q /\ b \in held[p]
      /\ held' = [held EXCEPT ![p] = @ \ {b}, ![q] = @ \cup {b}]
      /\ chain' = chain /\ bpsem' = bpsem /\ call' = call /\ held \in [Procs -> SUBSET Buffers]
  BY DEF BpInv, BpTypeOK, Pass
<1>1. BpTypeOK'
  BY <1>0 DEF BpTypeOK
<1>2. ChainCovers'
  BY <1>0 DEF ChainCovers, Counted, Waiters
<1>3. \A x \in Procs : held'[x] = IF x = q THEN held[q] \cup {b}
                                  ELSE IF x = p THEN held[p] \ {b} ELSE held[x]
  BY <1>0
<1>4. OneOwner'
  BY <1>0, <1>3 DEF OneOwner
<1> QED
  BY <1>1, <1>2, <1>4 DEF BpInv

(* kill() *)
LEMMA KillInv ==
  ASSUME BpInv, NEW p \in Procs, Kill(p)
  PROVE  BpInv'
<1>0. /\ BpTypeOK /\ ChainCovers /\ OneOwner /\ chain' = chain /\ held' = held
      /\ bpsem.semcnt \in Int /\ bpsem.sq \in Seq(Procs) /\ Distinct(bpsem.sq)
      /\ call' = [call EXCEPT ![p] = "dead"] /\ call \in [Procs -> Places]
      /\ bpsem \in [semcnt : Int, sq : Seq(Procs)] /\ Len(bpsem.sq) \in Nat /\ Len(chain) \in Nat
  BY DEF BpInv, BpTypeOK, Kill, Places
<1>1. OneOwner'
  BY <1>0 DEF OneOwner
<1>2. CASE call[p] # "wait"
  <2>1. bpsem' = bpsem
    BY <1>2 DEF Kill
  <2>2. Counted' = Counted \ {p} /\ Waiters' = Waiters
    BY <1>0, <1>2 DEF Counted, Waiters
  <2>3. Cardinality(Counted') <= Cardinality(Counted) /\ Cardinality(Counted') \in Int
    BY <2>2, CountedFinite, FS_RemoveElement
  <2>4. ChainCovers'
    BY <1>0, <2>1, <2>2, <2>3, CountedFinite DEF ChainCovers
  <2>5. BpTypeOK'
    BY <1>0, <2>1 DEF BpTypeOK, Places
  <2> QED
    BY <1>1, <2>4, <2>5 DEF BpInv
<1>3. CASE call[p] = "wait"
  <2>1. PICK i \in DOMAIN bpsem.sq :
          /\ bpsem.sq[i] = p
          /\ bpsem' = [semcnt |-> bpsem.semcnt + 1, sq |-> Without(bpsem.sq, i)]
    BY <1>3 DEF Kill
  <2>2. /\ Without(bpsem.sq, i) \in Seq(Procs) /\ Len(Without(bpsem.sq, i)) = Len(bpsem.sq) - 1
        /\ Distinct(Without(bpsem.sq, i)) /\ On(Without(bpsem.sq, i)) = On(bpsem.sq) \ {p}
    BY <1>0, <2>1, WithoutFacts
  <2>3. /\ bpsem'.semcnt = bpsem.semcnt + 1 /\ bpsem'.sq = Without(bpsem.sq, i)
        /\ bpsem' \in [semcnt : Int, sq : Seq(Procs)]
    BY <1>0, <2>1, <2>2
  <2>4. Counted' = Counted /\ Waiters' = Waiters \ {p}
    BY <1>0, <1>3 DEF Counted, Waiters
  <2>5. Len(bpsem.sq) >= 1
    BY <1>0, <2>1
  <2>6. bpsem.semcnt < 0
    BY <1>0, <2>5 DEF ChainCovers
  <2>7. ChainCovers'
    BY <1>0, <2>2, <2>3, <2>4, <2>6, CountedFinite DEF ChainCovers
  <2>8. BpTypeOK'
    BY <1>0, <2>2, <2>3 DEF BpTypeOK, Places
  <2> QED
    BY <1>1, <2>7, <2>8 DEF BpInv
<1> QED
  BY <1>2, <1>3

(* Any step keeps the invariant. *)
LEMMA NextInv == BpInv /\ [BpNext]_bpVars => BpInv'
<1> SUFFICES ASSUME BpInv, [BpNext]_bpVars PROVE BpInv'
  OBVIOUS
<1>1. CASE UNCHANGED bpVars
  BY <1>1 DEF bpVars, BpInv, BpTypeOK, ChainCovers, OneOwner, Counted, Waiters
<1>2. ASSUME NEW p \in Procs,
             \/ GetbufWait(p) \/ GetbufTake(p) \/ FreebufSignal(p) \/ Kill(p)
             \/ \E b \in Buffers : \/ FreebufLink(p, b) \/ Freebuf(p, b)
                                  \/ \E q \in Procs : Pass(p, q, b)
             \/ \E q \in Seq(Buffers) : FreebufAll(p, q)
      PROVE  BpInv'
  BY <1>2, GetbufWaitInv, GetbufTakeInv, FreebufSignalInv, KillInv, FreebufLinkInv, FreebufInv,
     PassInv, FreebufAllInv
<1> QED
  BY <1>1, <1>2 DEF BpNext

(* getbuf() never takes a buffer off an empty chain: whatever the order of  *)
(* its two steps and freebuf()'s, and whoever is killed between them, the   *)
(* chain has a buffer for every count that was taken.  For any pool.        *)
THEOREM PoolCovered == BpSpec => []ChainCovers
<1>1. BpInv => ChainCovers
  BY DEF BpInv
<1> QED
  BY <1>1, InitInv, NextInv, PTL DEF BpSpec

(* No buffer has two owners, and none is in the chain and owned, whatever   *)
(* the processes do and whenever they are killed.                           *)
THEOREM PoolOneOwner == BpSpec => []OneOwner
<1>1. BpInv => OneOwner
  BY DEF BpInv
<1> QED
  BY <1>1, InitInv, NextInv, PTL DEF BpSpec

-----------------------------------------------------------------------------
(* The abstract pool. *)

(* A step of the pool is one of the abstract pool, or does not show there. *)
LEMMA NextRefines == BpInv /\ [BpNext]_bpVars => [P!PoolNext]_(P!poolVars)
<1> SUFFICES ASSUME BpInv, [BpNext]_bpVars PROVE P!PoolNext \/ UNCHANGED P!poolVars
  OBVIOUS
<1>0. chain \in Seq(Buffers) /\ held \in [Procs -> SUBSET Buffers]
  BY DEF BpInv, BpTypeOK
<1>1. CASE UNCHANGED bpVars
  BY <1>1 DEF bpVars, P!poolVars, On
<1>2. ASSUME NEW p \in Procs, GetbufWait(p) \/ FreebufSignal(p) \/ Kill(p)
      PROVE  UNCHANGED P!poolVars
  BY <1>2 DEF GetbufWait, FreebufSignal, Kill, P!poolVars, On
<1>3. ASSUME NEW p \in Procs, GetbufTake(p) PROVE P!PoolNext
  <2>1. Head(chain) \in On(chain) /\ On(chain') = On(chain) \ {Head(chain)}
    BY <1>3, GetbufTakeInv
  <2>2. Head(chain) \in Buffers
    BY <1>0, <2>1, OnSeq
  <2>3. P!Get(p, Head(chain))
    BY <1>3, <2>1 DEF GetbufTake, P!Get
  <2> QED
    BY <2>2, <2>3 DEF P!PoolNext
<1>4. ASSUME NEW p \in Procs, NEW b \in Buffers, FreebufLink(p, b) \/ Freebuf(p, b)
      PROVE  P!PoolNext
  <2>1. On(chain') = On(chain) \cup {b}
    BY <1>4, FreebufLinkInv, FreebufInv
  <2>2. P!Put(p, {b})
    BY <1>4, <2>1 DEF FreebufLink, Freebuf, P!Put
  <2>3. {b} \in SUBSET Buffers
    OBVIOUS
  <2> QED
    BY <2>2, <2>3 DEF P!PoolNext
<1>5. ASSUME NEW p \in Procs, NEW q \in Procs, NEW b \in Buffers, Pass(p, q, b) PROVE P!PoolNext
  <2>1. P!Pass(p, q, b)
    BY <1>5 DEF Pass, P!Pass, On
  <2> QED
    BY <2>1 DEF P!PoolNext
<1>6. ASSUME NEW p \in Procs, NEW q \in Seq(Buffers), FreebufAll(p, q) PROVE P!PoolNext
  <2>1. On(chain') = On(chain) \cup On(q) /\ On(q) \in SUBSET Buffers
    BY <1>6, FreebufAllInv, OnSeq
  <2>2. P!Put(p, On(q))
    BY <1>6, <2>1 DEF FreebufAll, P!Put
  <2> QED
    BY <2>1, <2>2 DEF P!PoolNext
<1> QED
  BY <1>1, <1>2, <1>3, <1>4, <1>5, <1>6 DEF BpNext

(* The pool implements the abstract one, where a process that gets a buffer *)
(* is its only owner until it gives it back.                                *)
THEOREM PoolRefined == BpSpec => ImplementsPool
<1>1. BpInit => P!PoolInit
  <2> SUFFICES ASSUME BpInit PROVE On(chain) = Buffers /\ held = [p \in Procs |-> {}]
    BY DEF P!PoolInit
  <2>1. DOMAIN chain = Buffers /\ \A i \in Buffers : chain[i] = i
    BY DEF BpInit, Buffers
  <2> QED
    BY <2>1 DEF BpInit, On
<1> QED
  BY <1>1, InitInv, NextInv, NextRefines, PTL DEF BpSpec, ImplementsPool, P!PoolSpec

(* The steps of the processes, one by one. *)
NetinMoves ==
    \/ Drop \/ IcmpIn \/ ArpIn
    \/ \E i \in Nq : UdpIn(i)
    \/ \E last \in BOOLEAN : NetinGetbuf(last) \/ NetinFree(last)

SenderMoves(s) ==
    \/ RouteLock(s) \/ Transmit(s) \/ ArpSend(s) \/ NeedArp(s)
    \/ \E last \in BOOLEAN : WriteGetbuf(s, last) \/ ArpGetbuf(s, last)

UserMoves(u) ==
    \/ Open(u) \/ Close(u) \/ Clear(u) \/ Write(u) \/ ReadTimed(u) \/ ReadWait(u)
    \/ Timeout(u) \/ Recvtim(u) \/ PreceiveOn(u)

(* There are no other steps. *)
LEMMA NextIsAMove ==
  ASSUME Next
  PROVE  /\ use' = use
         /\ \/ NetinMoves \/ Ether \/ Netout
            \/ \E s \in Senders : SenderMoves(s)
            \/ \E u \in Users : UserMoves(u)
<1>1. use' = use /\ Work
  BY DEF Next
<1>2. Arrive \/ Netin => NetinMoves
  BY DEF Arrive, Netin, NetinMoves
<1>3. ASSUME NEW s \in Senders PROVE Sending(s) \/ NeedArp(s) => SenderMoves(s)
  BY DEF Sending, SenderMoves
<1>4. ASSUME NEW u \in Users PROVE GoesOn(u) \/ Calling(u) => UserMoves(u)
  BY DEF GoesOn, Calling, UserMoves
<1> QED
  BY <1>1, <1>2, <1>3, <1>4 DEF Work

(* The names that stand for the parts of the system are processes. *)
LEMMA Parts ==
  /\ {"netin", "netout", "ether", "ports", "nobody"} \subseteq Procs
  /\ Users \subseteq Procs /\ Senders \subseteq Procs /\ Users \subseteq Senders
  /\ "netout" \in Senders /\ "netout" \notin Users
  /\ BADPID \notin Users
BY DatagramAssumption DEF Users, Senders, BADPID

-----------------------------------------------------------------------------
(* Every step is one of the pool's, or does not touch the pool. *)

PoolStep == BpNext \/ UNCHANGED bpVars

(* getbuf() *)
LEMMA GetbufPool ==
  ASSUME NEW p \in Procs, NEW last \in BOOLEAN, Getbuf(p, last)
  PROVE  PoolStep
BY DEF Getbuf, PoolStep, BpNext

(* A buffer changes hands, or is freed. *)
LEMMA BufferPool1 ==
  ASSUME held \in [Procs -> SUBSET Buffers], NEW p \in Procs, NEW q \in Procs, NEW b,
         Pass(p, q, b) \/ FreebufLink(p, b) \/ Freebuf(p, b)
  PROVE  PoolStep /\ b \in Buffers
<1>1. b \in held[p]
  BY DEF Pass, FreebufLink, Freebuf
<1>2. b \in Buffers
  BY <1>1
<1> QED
  BY <1>2 DEF PoolStep, BpNext

(* preceive() *)
LEMMA PreceivePool ==
  ASSUME held \in [Procs -> SUBSET Buffers], NEW u, NEW nqs, NEW else, Preceive(u, nqs, else)
  PROVE  PoolStep
BY Parts, BufferPool1 DEF Preceive, PoolStep

(* Steps of netin *)
LEMMA NetinPool ==
  ASSUME held \in [Procs -> SUBSET Buffers], NetinMoves
  PROVE  PoolStep
<1>1. CASE Drop
  BY <1>1 DEF Drop, PoolStep
<1>2. CASE IcmpIn
  BY <1>2, Parts, BufferPool1 DEF IcmpIn, PoolStep
<1>3. CASE ArpIn
  BY <1>3, Parts, BufferPool1 DEF ArpIn
<1>4. ASSUME NEW i \in Nq, UdpIn(i) PROVE PoolStep
  BY <1>4, Parts, BufferPool1 DEF UdpIn, PoolStep
<1>5. ASSUME NEW last \in BOOLEAN, NetinGetbuf(last) PROVE PoolStep
  BY <1>5, Parts, GetbufPool DEF NetinGetbuf
<1>6. ASSUME NEW last \in BOOLEAN, NetinFree(last) PROVE PoolStep
  <2>1. CASE last
    BY <1>6, <2>1, Parts DEF NetinFree, PoolStep, BpNext
  <2>2. CASE ~last
    BY <1>6, <2>2, Parts, BufferPool1 DEF NetinFree
  <2> QED
    BY <2>1, <2>2
<1> QED
  BY <1>1, <1>2, <1>3, <1>4, <1>5, <1>6 DEF NetinMoves

(* Steps of a sender *)
LEMMA SenderPool ==
  ASSUME held \in [Procs -> SUBSET Buffers], NEW s \in Senders, SenderMoves(s)
  PROVE  PoolStep
<1>0. s \in Procs
  BY Parts
<1>1. CASE RouteLock(s) \/ NeedArp(s)
  BY <1>1 DEF RouteLock, NeedArp, PoolStep
<1>2. CASE Transmit(s)
  BY <1>0, <1>2, Parts, BufferPool1 DEF Transmit
<1>3. CASE ArpSend(s)
  BY <1>0, <1>3, Parts, BufferPool1 DEF ArpSend
<1>4. ASSUME NEW last \in BOOLEAN, WriteGetbuf(s, last) \/ ArpGetbuf(s, last) PROVE PoolStep
  BY <1>0, <1>4, GetbufPool DEF WriteGetbuf, ArpGetbuf
<1> QED
  BY <1>1, <1>2, <1>3, <1>4 DEF SenderMoves

(* Steps of a user *)
LEMMA UserPool ==
  ASSUME DgTypeOK, NEW u \in Users, UserMoves(u)
  PROVE  PoolStep
<1>0. /\ u \in Procs /\ "ports" \in Procs /\ u \in Senders
      /\ held \in [Procs -> SUBSET Buffers]
  BY Parts DEF DgTypeOK, BpTypeOK
<1>1. CASE Open(u) \/ Close(u) \/ Write(u) \/ Timeout(u)
  BY <1>1 DEF Open, Close, Write, Timeout, PoolStep
<1>2. CASE Clear(u)
  <2> DEFINE q == netqs[user[u].nq].q
  <2>1. q \in Seq(Buffers)
    <3>1. user[u].nq \in Nq
      BY <1>0 DEF DgTypeOK
    <3> QED
      BY <3>1 DEF DgTypeOK
  <2>2. FreebufAll("ports", q) \/ UNCHANGED bpVars \/ Freebuf("ports", Head(q))
    BY <1>2 DEF Clear
  <2> HIDE DEF q
  <2>3. FreebufAll("ports", q) => PoolStep
    BY <1>0, <2>1 DEF PoolStep, BpNext
  <2> QED
    BY <1>0, <2>2, <2>3, BufferPool1 DEF PoolStep
<1>3. CASE ReadTimed(u)
  BY <1>0, <1>3, PreceivePool DEF ReadTimed, PoolStep
<1>4. CASE ReadWait(u)
  BY <1>0, <1>4, PreceivePool DEF ReadWait
<1>5. CASE Recvtim(u)
  BY <1>0, <1>5, PreceivePool DEF Recvtim
<1>6. CASE PreceiveOn(u)
  BY <1>0, <1>6, PreceivePool DEF PreceiveOn
<1> QED
  BY <1>1, <1>2, <1>3, <1>4, <1>5, <1>6 DEF UserMoves

(* All steps *)
LEMMA NextPool == DgTypeOK /\ [Next]_vars => [BpNext]_bpVars
<1> SUFFICES ASSUME DgTypeOK, [Next]_vars PROVE PoolStep
  BY DEF PoolStep
<1>0. held \in [Procs -> SUBSET Buffers]
  BY DEF DgTypeOK, BpTypeOK
<1>1. CASE UNCHANGED vars
  BY <1>1 DEF vars, PoolStep
<1>2. CASE Next
  <2>1. CASE NetinMoves
    BY <1>0, <2>1, NetinPool
  <2>2. CASE Ether
    BY <1>0, <2>2, Parts, BufferPool1 DEF Ether
  <2>3. CASE Netout
    BY <1>0, <2>3, Parts, BufferPool1 DEF Netout
  <2> QED
    BY <1>0, <1>2, <2>1, <2>2, <2>3, NextIsAMove, SenderPool, UserPool
<1> QED
  BY <1>1, <1>2

-----------------------------------------------------------------------------
(* The types. *)

QueueType == [valid : BOOLEAN, pid : Users \cup {BADPID}, limbo : BOOLEAN, q : Seq(Buffers)]
UserType  == [at : {"closed", "idle", "clear", "getbuf", "nmutex", "path", "arpbuf", "arpsend",
                    "recvtim", "preceive", "wait"},
              nq : Nq]

(* A queue of sequences of at most NETQLEN buffers. *)
QueuesOK(nqs) == nqs \in [Nq -> QueueType] /\ \A i \in Nq : Len(nqs[i].q) <= NETQLEN

(* The types in these words, *)
LEMMA DgTypes ==
  DgTypeOK <=> /\ BpTypeOK /\ use \in Uses /\ QueuesOK(netqs)
               /\ fwd \in Seq(Buffers) /\ Len(fwd) <= NETFQ
               /\ netin \in {"getbuf", "reading", "free"}
               /\ user \in [Senders -> UserType]
               /\ tries \in [Senders -> 0..AR_RTRY]
               /\ nmutex \in Senders \cup {BADPID} /\ mail \subseteq Users
BY DEF DgTypeOK, QueuesOK, QueueType, UserType

(* and after a step. *)
LEMMA DgTypesNext ==
  DgTypeOK' <=> /\ BpTypeOK' /\ use' \in Uses /\ QueuesOK(netqs')
                /\ fwd' \in Seq(Buffers) /\ Len(fwd') <= NETFQ
                /\ netin' \in {"getbuf", "reading", "free"}
                /\ user' \in [Senders -> UserType]
                /\ tries' \in [Senders -> 0..AR_RTRY]
                /\ nmutex' \in Senders \cup {BADPID} /\ mail' \subseteq Users
BY DEF DgTypeOK, QueuesOK, QueueType, UserType

(* The bounds are positive. *)
LEMMA Bounds ==
  /\ NETQLEN \in Nat /\ NETQLEN >= 1 /\ NETFQ \in Nat /\ NETFQ >= 1
  /\ AR_RTRY \in Nat /\ Nq \subseteq Nat
BY DatagramAssumption DEF Nq

(* One queue's record is changed. *)
LEMMA QueueChanged ==
  ASSUME NEW nqs, QueuesOK(nqs), NEW i \in Nq, NEW r \in QueueType, Len(r.q) <= NETQLEN
  PROVE  QueuesOK([nqs EXCEPT ![i] = r])
BY DEF QueuesOK

(* What a queue's record may be changed to. *)
LEMMA QueueRecords ==
  ASSUME NEW nqs, QueuesOK(nqs), NEW i \in Nq
  PROVE  /\ nqs[i] \in QueueType /\ Len(nqs[i].q) <= NETQLEN
         /\ \A v \in BOOLEAN : [nqs[i] EXCEPT !.valid = v] \in QueueType
         /\ \A v \in BOOLEAN : [nqs[i] EXCEPT !.limbo = v] \in QueueType
         /\ \A p \in Users \cup {BADPID} : [nqs[i] EXCEPT !.pid = p] \in QueueType
         /\ \A s \in Seq(Buffers) : [nqs[i] EXCEPT !.q = s] \in QueueType
BY DEF QueuesOK, QueueType

(* A process goes on somewhere else. *)
LEMMA GotoType ==
  ASSUME user \in [Senders -> UserType], NEW s \in Senders,
         NEW at \in {"closed", "idle", "clear", "getbuf", "nmutex", "path", "arpbuf", "arpsend",
                     "recvtim", "preceive", "wait"},
         Goto(s, at)
  PROVE  user' \in [Senders -> UserType]
BY DEF Goto, UserType

(* The first element of a sequence taken off. *)
LEMMA TailType ==
  ASSUME NEW n \in Nat, NEW q \in Seq(Buffers), q # <<>>, Len(q) <= n
  PROVE  Tail(q) \in Seq(Buffers) /\ Len(Tail(q)) <= n
<1>1. Len(q) \in Nat /\ Len(q) # 0
  BY OnSeq
<1> QED
  BY <1>1

(* ip_in() *)
LEMMA UdpInType ==
  ASSUME DgTypeOK, NEW i \in Nq, UdpIn(i)
  PROVE  QueuesOK(netqs') /\ netin' \in {"getbuf", "reading", "free"} /\ mail' \subseteq Users
<1>0. /\ QueuesOK(netqs) /\ mail \subseteq Users /\ NETQLEN \in Nat
      /\ held \in [Procs -> SUBSET Buffers]
  BY DgTypes, Bounds DEF BpTypeOK
<1>1. ASSUME NEW nqs, QueuesOK(nqs), Announce(i, nqs)
      PROVE  QueuesOK(netqs') /\ netin' = "getbuf" /\ mail' \subseteq Users
  <2>1. nqs[i] \in QueueType /\ [nqs[i] EXCEPT !.pid = BADPID] \in QueueType
    BY <1>1, QueueRecords
  <2>2. netqs' = [nqs EXCEPT ![i] = [nqs[i] EXCEPT !.pid = BADPID]]
    BY <1>1 DEF Announce, QueuesOK, QueueType
  <2>3. Len([nqs[i] EXCEPT !.pid = BADPID].q) <= NETQLEN
    BY <1>1, <2>1, QueueRecords DEF QueueType
  <2>4. QueuesOK(netqs')
    BY <1>1, <2>1, <2>2, <2>3, QueueChanged
  <2>5. nqs[i].pid \in Users \cup {BADPID}
    BY <2>1 DEF QueueType
  <2> QED
    BY <1>0, <1>1, <2>4, <2>5 DEF Announce
<1>2. CASE netqs[i].limbo
  BY <1>0, <1>1, <1>2 DEF UdpIn
<1>3. CASE ~netqs[i].limbo /\ Len(netqs[i].q) >= NETQLEN
  <2>1. netqs[i].q \in Seq(Buffers) /\ Len(netqs[i].q) \in Nat
    BY <1>0, QueueRecords DEF QueueType
  <2>2. ~(Len(netqs[i].q) < NETQLEN)
    BY <1>0, <1>3, <2>1
  <2> QED
    BY <1>0, <1>3, <2>2 DEF UdpIn
<1>4. CASE ~netqs[i].limbo /\ Len(netqs[i].q) < NETQLEN
  <2> DEFINE b == Mine("netin")
             r == [netqs[i] EXCEPT !.q = Append(@, b)]
             nqs == [netqs EXCEPT ![i].q = Append(@, b)]
  <2>1. netqs[i].q \in Seq(Buffers) /\ Len(netqs[i].q) \in Nat /\ netqs[i] \in QueueType
    BY <1>0, QueueRecords DEF QueueType
  <2>2. Pass("netin", "ports", b) /\ Announce(i, nqs)
    BY <1>0, <1>4, <2>1 DEF UdpIn
  <2>3. b \in Buffers
    BY <1>0, <2>2, Parts, BufferPool1
  <2> HIDE DEF b
  <2>4. Append(netqs[i].q, b) \in Seq(Buffers) /\ Len(Append(netqs[i].q, b)) = Len(netqs[i].q) + 1
    BY <2>1, <2>3
  <2>5. r \in QueueType /\ r.q = Append(netqs[i].q, b)
    BY <2>1, <2>4 DEF QueueType
  <2>6. nqs = [netqs EXCEPT ![i] = r]
    BY <1>0 DEF QueuesOK
  <2>7. Len(r.q) <= NETQLEN
    BY <1>0, <1>4, <2>1, <2>4, <2>5
  <2> HIDE DEF r
  <2>8. QueuesOK(nqs)
    BY <1>0, <2>5, <2>6, <2>7, QueueChanged
  <2> HIDE DEF nqs
  <2> QED
    BY <1>1, <2>2, <2>8
<1>5. Len(netqs[i].q) \in Nat
  BY <1>0, QueueRecords DEF QueueType
<1> QED
  BY <1>0, <1>2, <1>3, <1>4, <1>5

(* preceive() *)
LEMMA PreceiveType ==
  ASSUME DgTypeOK, NEW u \in Users, NEW nqs, QueuesOK(nqs), NEW else \in {"preceive", "wait"},
         Preceive(u, nqs, else)
  PROVE  QueuesOK(netqs') /\ user' \in [Senders -> UserType]
<1> DEFINE i == user[u].nq
<1>0. i \in Nq /\ u \in Senders /\ user \in [Senders -> UserType] /\ NETQLEN \in Nat
  BY DgTypes, Parts, Bounds DEF UserType
<1>1. nqs[i] \in QueueType /\ Len(nqs[i].q) <= NETQLEN /\ nqs[i].q \in Seq(Buffers)
  BY <1>0, QueueRecords DEF QueueType
<1>2. CASE nqs[i].q # <<>>
  <2> DEFINE r == [nqs[i] EXCEPT !.q = Tail(@)]
  <2>1. netqs' = [nqs EXCEPT ![i] = r]
    BY <1>2 DEF Preceive, QueuesOK
  <2>2. Tail(nqs[i].q) \in Seq(Buffers) /\ Len(Tail(nqs[i].q)) <= NETQLEN
    BY <1>0, <1>1, <1>2, TailType
  <2>3. r \in QueueType /\ r.q = Tail(nqs[i].q)
    BY <1>1, <2>2 DEF QueueType
  <2> HIDE DEF r, i
  <2>4. QueuesOK(netqs')
    BY <1>0, <2>1, <2>2, <2>3, QueueChanged
  <2>5. Goto(u, "idle")
    BY <1>2 DEF Preceive, i
  <2> QED
    BY <1>0, <2>4, <2>5, GotoType
<1>3. CASE nqs[i].q = <<>>
  <2>1. netqs' = nqs /\ Goto(u, else)
    BY <1>3 DEF Preceive
  <2> QED
    BY <1>0, <2>1, GotoType
<1> QED
  BY <1>2, <1>3

(* Steps of netin, of its driver and of netout's preceive() *)
LEMMA NetinType ==
  ASSUME DgTypeOK, BpTypeOK', use' = use, NetinMoves \/ Ether \/ Netout
  PROVE  DgTypeOK'
<1>0. /\ use \in Uses /\ QueuesOK(netqs) /\ fwd \in Seq(Buffers) /\ Len(fwd) <= NETFQ
      /\ netin \in {"getbuf", "reading", "free"} /\ user \in [Senders -> UserType]
      /\ tries \in [Senders -> 0..AR_RTRY] /\ nmutex \in Senders \cup {BADPID} /\ mail \subseteq Users
      /\ Len(fwd) \in Nat /\ NETFQ \in Nat /\ held \in [Procs -> SUBSET Buffers]
  BY DgTypes, Bounds DEF BpTypeOK
<1>1. CASE Drop
  BY <1>0, <1>1, DgTypesNext DEF Drop
<1>2. CASE IcmpIn
  <2>1. fwd' \in Seq(Buffers) /\ Len(fwd') <= NETFQ
    <3>1. CASE Len(fwd) < NETFQ
      <4> DEFINE b == Mine("netin")
      <4>1. fwd' = Append(fwd, b) /\ Pass("netin", "ports", b)
        BY <1>0, <1>2, <3>1 DEF IcmpIn
      <4>2. b \in Buffers
        BY <1>0, <4>1, Parts, BufferPool1
      <4> HIDE DEF b
      <4> QED
        BY <1>0, <3>1, <4>1, <4>2
    <3>2. CASE ~(Len(fwd) < NETFQ)
      BY <1>0, <1>2, <3>2 DEF IcmpIn
    <3> QED
      BY <3>1, <3>2
  <2> QED
    BY <1>0, <1>2, <2>1, DgTypesNext DEF IcmpIn
<1>3. CASE ArpIn
  BY <1>0, <1>3, DgTypesNext DEF ArpIn
<1>4. ASSUME NEW i \in Nq, UdpIn(i) PROVE DgTypeOK'
  <2>1. QueuesOK(netqs') /\ netin' \in {"getbuf", "reading", "free"} /\ mail' \subseteq Users
    BY <1>4, UdpInType
  <2>2. UNCHANGED <<fwd, user, tries, nmutex>>
    BY <1>4 DEF UdpIn
  <2> QED
    BY <1>0, <2>1, <2>2, DgTypesNext
<1>5. ASSUME NEW last \in BOOLEAN, NetinGetbuf(last) \/ NetinFree(last) PROVE DgTypeOK'
  <2>1. netin' \in {"getbuf", "reading", "free"} /\ UNCHANGED <<netqs, fwd, user, tries, nmutex, mail>>
    BY <1>0, <1>5 DEF NetinGetbuf, NetinFree
  <2> QED
    BY <1>0, <2>1, DgTypesNext
<1>6. CASE Ether
  BY <1>0, <1>6, DgTypesNext DEF Ether
<1>7. CASE Netout
  <2>1. fwd' \in Seq(Buffers) /\ Len(fwd') <= NETFQ
    BY <1>0, <1>7, TailType DEF Netout
  <2>2. user' \in [Senders -> UserType]
    BY <1>0, <1>7, Parts, GotoType DEF Netout
  <2> QED
    BY <1>0, <1>7, <2>1, <2>2, DgTypesNext DEF Netout
<1> QED
  BY <1>1, <1>2, <1>3, <1>4, <1>5, <1>6, <1>7 DEF NetinMoves

(* Steps of a sender *)
LEMMA SenderType ==
  ASSUME DgTypeOK, BpTypeOK', use' = use, NEW s \in Senders, SenderMoves(s)
  PROVE  DgTypeOK'
<1>0. /\ use \in Uses /\ QueuesOK(netqs) /\ fwd \in Seq(Buffers) /\ Len(fwd) <= NETFQ
      /\ netin \in {"getbuf", "reading", "free"} /\ user \in [Senders -> UserType]
      /\ tries \in [Senders -> 0..AR_RTRY] /\ nmutex \in Senders \cup {BADPID} /\ mail \subseteq Users
      /\ AR_RTRY \in Nat
  BY DgTypes, Bounds
<1>1. CASE RouteLock(s)
  <2>1. user' \in [Senders -> UserType]
    BY <1>0, <1>1, GotoType DEF RouteLock
  <2> QED
    BY <1>0, <1>1, <2>1, DgTypesNext DEF RouteLock
<1>2. CASE NeedArp(s)
  <2>1. user' \in [Senders -> UserType]
    BY <1>0, <1>2, GotoType DEF NeedArp
  <2>2. tries' \in [Senders -> 0..AR_RTRY]
    BY <1>0, <1>2 DEF NeedArp
  <2> QED
    BY <1>0, <1>2, <2>1, <2>2, DgTypesNext DEF NeedArp
<1>3. CASE Transmit(s)
  <2>1. user' \in [Senders -> UserType]
    BY <1>0, <1>3, GotoType DEF Transmit
  <2>2. tries' \in [Senders -> 0..AR_RTRY]
    BY <1>0, <1>3 DEF Transmit
  <2> QED
    BY <1>0, <1>3, <2>1, <2>2, DgTypesNext DEF Transmit
<1>4. CASE ArpSend(s)
  <2>1. user' \in [Senders -> UserType]
    BY <1>0, <1>4, GotoType DEF ArpSend
  <2>2. mail' \subseteq Users
    BY <1>0, <1>4 DEF ArpSend
  <2> QED
    BY <1>0, <1>4, <2>1, <2>2, DgTypesNext DEF ArpSend
<1>5. ASSUME NEW last \in BOOLEAN, WriteGetbuf(s, last) \/ ArpGetbuf(s, last) PROVE DgTypeOK'
  <2>1. user' \in [Senders -> UserType]
    <3>1. Goto(s, "nmutex") \/ Goto(s, "arpsend") \/ user' = user
      BY <1>5 DEF WriteGetbuf, ArpGetbuf
    <3> QED
      BY <1>0, <3>1, GotoType
  <2>2. UNCHANGED <<netqs, fwd, netin, tries, nmutex, mail>>
    BY <1>5 DEF WriteGetbuf, ArpGetbuf
  <2> QED
    BY <1>0, <2>1, <2>2, DgTypesNext
<1> QED
  BY <1>1, <1>2, <1>3, <1>4, <1>5 DEF SenderMoves

(* Steps of a user *)
LEMMA UserStepType ==
  ASSUME DgTypeOK, BpTypeOK', use' = use, NEW u \in Users, UserMoves(u)
  PROVE  DgTypeOK'
<1>0. /\ use \in Uses /\ QueuesOK(netqs) /\ fwd \in Seq(Buffers) /\ Len(fwd) <= NETFQ
      /\ netin \in {"getbuf", "reading", "free"} /\ user \in [Senders -> UserType]
      /\ tries \in [Senders -> 0..AR_RTRY] /\ nmutex \in Senders \cup {BADPID} /\ mail \subseteq Users
      /\ u \in Senders /\ NETQLEN \in Nat
  BY DgTypes, Bounds, Parts
<1> DEFINE n == user[u].nq
<1>1. n \in Nq
  BY <1>0 DEF UserType
<1>2. netqs[n] \in QueueType /\ netqs[n].q \in Seq(Buffers) /\ Len(netqs[n].q) <= NETQLEN
  BY <1>0, <1>1, QueueRecords DEF QueueType
<1>3. CASE Open(u)
  <2>1. PICK i \in Nq : /\ netqs' = [netqs EXCEPT ![i].valid = TRUE, ![i].pid = BADPID]
                        /\ user' = [user EXCEPT ![u] = [at |-> "idle", nq |-> i]]
    BY <1>3 DEF Open
  <2>2. QueuesOK(netqs')
    BY ZenonT(60), <1>0, <2>1 DEF QueuesOK, QueueType
  <2>3. user' \in [Senders -> UserType]
    BY <1>0, <2>1 DEF UserType
  <2> QED
    BY <1>0, <1>3, <2>2, <2>3, DgTypesNext DEF Open
<1>4. CASE Close(u)
  <2>1. QueuesOK(netqs')
    <3> DEFINE r == [netqs[n] EXCEPT !.valid = FALSE, !.pid = BADPID]
    <3>1. netqs' = [netqs EXCEPT ![n] = r]
      BY <1>0, <1>1, <1>4 DEF Close, QueuesOK
    <3>2. r \in QueueType /\ r.q = netqs[n].q
      BY <1>2 DEF QueueType
    <3> HIDE DEF r, n
    <3> QED
      BY <1>0, <1>1, <1>2, <3>1, <3>2, QueueChanged
  <2>2. user' \in [Senders -> UserType]
    BY <1>0, <1>4, GotoType DEF Close
  <2> QED
    BY <1>0, <1>4, <2>1, <2>2, DgTypesNext DEF Close
<1>5. CASE Clear(u)
  <2>1. ASSUME netqs' = [netqs EXCEPT ![n].limbo = FALSE, ![n].q = <<>>] PROVE QueuesOK(netqs')
    <3> DEFINE e == <<>>
               r == [netqs[n] EXCEPT !.limbo = FALSE, !.q = e]
    <3>0. e \in Seq(Buffers) /\ Len(e) = 0
      OBVIOUS
    <3>1. netqs' = [netqs EXCEPT ![n] = r]
      BY <1>0, <1>1, <2>1 DEF QueuesOK
    <3> HIDE DEF e, n
    <3>2. r \in QueueType /\ r.q = e
      BY <1>2, <3>0 DEF QueueType
    <3>3. Len(r.q) <= NETQLEN
      BY <1>0, <3>0, <3>2
    <3> HIDE DEF r, n
    <3> QED
      BY <1>0, <1>1, <3>1, <3>2, <3>3, QueueChanged
  <2>2. ASSUME netqs[n].q # <<>>,
               netqs' = [netqs EXCEPT ![n].limbo = TRUE, ![n].q = Tail(netqs[n].q)]
        PROVE  QueuesOK(netqs')
    <3>1. Tail(netqs[n].q) \in Seq(Buffers) /\ Len(Tail(netqs[n].q)) <= NETQLEN
      BY <1>0, <1>2, <2>2, TailType
    <3> QED
      BY <1>0, <1>1, <2>2, <3>1 DEF QueuesOK, QueueType
  <2>3. QueuesOK(netqs')
    BY <1>5, <2>1, <2>2 DEF Clear
  <2>4. user' \in [Senders -> UserType]
    <3>1. Goto(u, "idle") \/ Goto(u, "clear")
      BY <1>5 DEF Clear
    <3> QED
      BY <1>0, <3>1, GotoType
  <2>5. UNCHANGED <<fwd, netin, tries, nmutex, mail>>
    BY <1>5 DEF Clear
  <2> QED
    BY <1>0, <2>3, <2>4, <2>5, DgTypesNext
<1>6. CASE Write(u)
  <2>1. user' \in [Senders -> UserType]
    BY <1>0, <1>6, GotoType DEF Write
  <2> QED
    BY <1>0, <1>6, <2>1, DgTypesNext DEF Write
<1>7. CASE ReadTimed(u)
  <2>1. QueuesOK(netqs') /\ user' \in [Senders -> UserType]
    <3>1. CASE Preceive(u, netqs, "preceive")
      BY <1>0, <3>1, PreceiveType
    <3>2. CASE Goto(u, "recvtim") /\ netqs' = [netqs EXCEPT ![n].pid = u]
      BY ZenonT(60), <1>0, <1>1, <3>2, GotoType DEF QueuesOK, QueueType
    <3> QED
      BY <1>7, <3>1, <3>2 DEF ReadTimed
  <2> QED
    BY <1>0, <1>7, <2>1, DgTypesNext DEF ReadTimed
<1>8. CASE ReadWait(u)
  <2>1. QueuesOK(netqs') /\ user' \in [Senders -> UserType]
    BY <1>0, <1>8, PreceiveType DEF ReadWait
  <2> QED
    BY <1>0, <1>8, <2>1, DgTypesNext DEF ReadWait
<1>9. CASE Timeout(u)
  <2>1. QueuesOK(netqs')
    BY ZenonT(60), <1>0, <1>1, <1>9 DEF Timeout, QueuesOK, QueueType
  <2>2. user' \in [Senders -> UserType]
    BY <1>0, <1>9, GotoType DEF Timeout
  <2> QED
    BY <1>0, <1>9, <2>1, <2>2, DgTypesNext DEF Timeout
<1>10. CASE Recvtim(u)
  <2>1. QueuesOK(netqs') /\ user' \in [Senders -> UserType]
    BY <1>0, <1>10, PreceiveType DEF Recvtim
  <2> QED
    BY <1>0, <1>10, <2>1, DgTypesNext DEF Recvtim
<1>11. CASE PreceiveOn(u)
  <2>1. QueuesOK(netqs') /\ user' \in [Senders -> UserType]
    BY <1>0, <1>11, PreceiveType DEF PreceiveOn
  <2> QED
    BY <1>0, <1>11, <2>1, DgTypesNext DEF PreceiveOn
<1> QED
  BY <1>3, <1>4, <1>5, <1>6, <1>7, <1>8, <1>9, <1>10, <1>11 DEF UserMoves

-----------------------------------------------------------------------------
(* The pool as part of the network. *)

(* The initial state *)
LEMMA InitTypes == Init => DgTypeOK /\ BpInv
<1> SUFFICES ASSUME Init PROVE DgTypeOK /\ BpInv
  OBVIOUS
<1>1. BpInv
  BY InitInv DEF Init
<1>2. 1 \in Nq /\ NETQLEN >= 0 /\ NETFQ >= 0 /\ 0 \in 0..AR_RTRY
  BY DatagramAssumption DEF Nq
<1>3. QueuesOK(netqs)
  BY <1>2 DEF Init, QueuesOK, QueueType
<1>4. user \in [Senders -> UserType]
  BY <1>2 DEF Init, UserType
<1>5. DgTypeOK
  BY <1>1, <1>2, <1>3, <1>4, DgTypes DEF Init, BpInv
<1> QED
  BY <1>1, <1>5

(* A step *)
LEMMA StepTypes == DgTypeOK /\ BpInv /\ [Next]_vars => (DgTypeOK /\ BpInv)'
<1> SUFFICES ASSUME DgTypeOK, BpInv, [Next]_vars PROVE DgTypeOK' /\ BpInv'
  OBVIOUS
<1>1. BpInv'
  BY NextPool, NextInv
<1>2. BpTypeOK'
  BY <1>1 DEF BpInv
<1>3. CASE UNCHANGED vars
  <2>1. UNCHANGED <<use, netqs, fwd, netin, user, tries, nmutex, mail>>
    BY <1>3 DEF vars, dgVars
  <2> QED
    BY <1>1, <1>2, <2>1, DgTypes, DgTypesNext
<1>4. CASE Next
  <2>1. /\ use' = use
        /\ \/ NetinMoves \/ Ether \/ Netout
           \/ \E s \in Senders : SenderMoves(s)
           \/ \E u \in Users : UserMoves(u)
    BY <1>4, NextIsAMove
  <2>2. CASE NetinMoves \/ Ether \/ Netout
    BY <1>1, <1>2, <2>1, <2>2, NetinType
  <2>3. ASSUME NEW s \in Senders, SenderMoves(s) PROVE DgTypeOK'
    BY <1>2, <2>1, <2>3, SenderType
  <2>4. ASSUME NEW u \in Users, UserMoves(u) PROVE DgTypeOK'
    BY <1>2, <2>1, <2>4, UserStepType
  <2> QED
    BY <1>1, <2>1, <2>2, <2>3, <2>4
<1> QED
  BY <1>1, <1>3, <1>4

(* The types of the network's state, with the bounds of its queues and of   *)
(* the ARP requests for a packet.                                           *)
THEOREM NetTypes == Spec => []DgTypeOK
BY InitTypes, StepTypes, PTL DEF Spec

(* netin, netout, the driver and any number of users of datagram devices    *)
(* never take a buffer off an empty chain, whatever arrives and whatever    *)
(* they call.                                                               *)
THEOREM NetChainCovers == Spec => []ChainCovers
<1>1. BpInv => ChainCovers
  BY DEF BpInv
<1> QED
  BY <1>1, InitTypes, StepTypes, PTL DEF Spec

(* A network buffer is in the pool or owned by one process or queue: none   *)
(* is freed twice, and none is freed while another process uses it.         *)
THEOREM NetOneOwner == Spec => []OneOwner
<1>1. BpInv => OneOwner
  BY DEF BpInv
<1> QED
  BY <1>1, InitTypes, StepTypes, PTL DEF Spec

(* The network is a user of the pool, and so of the abstract pool. *)
THEOREM NetImplementsPool == Spec => ImplementsPool
<1>1. Init => BpInit
  BY DEF Init
<1>2. Spec => BpSpec
  BY <1>1, InitTypes, StepTypes, NextPool, PTL DEF Spec, BpSpec
<1> QED
  BY <1>2, PoolRefined

-----------------------------------------------------------------------------
(* Timed reads. *)

(* A device that is open has a queue of its own, which is in limbo only     *)
(* while its user clears it; a queue names only the user that waits for     *)
(* it; a message waits only for a user in recvtim(); and such a user has    *)
(* either been told of a packet, which is there, or will be told.           *)
Owned ==
    \A u \in Users : user[u].at # "closed" =>
        /\ netqs[user[u].nq].valid
        /\ netqs[user[u].nq].limbo => user[u].at = "clear"
        /\ \A v \in Users : user[v].at # "closed" /\ user[v].nq = user[u].nq => u = v

Named ==
    \A i \in Nq : /\ netqs[i].limbo => netqs[i].valid
                  /\ netqs[i].pid # BADPID => /\ user[netqs[i].pid].at = "recvtim"
                                              /\ user[netqs[i].pid].nq = i

Told(u) ==
    LET nq == netqs[user[u].nq]
    IN  \/ u \in mail /\ nq.q # <<>> /\ nq.pid = BADPID
        \/ u \notin mail /\ nq.q = <<>> /\ nq.pid = u

TimedInv ==
    /\ Owned /\ Named /\ TimedReadReturns
    /\ \A u \in Users : /\ u \in mail => user[u].at = "recvtim"
                        /\ user[u].at = "recvtim" => Told(u)

(* A step of one user that concerns only its own queue. *)
LEMMA OwnStep ==
  ASSUME DgTypeOK, DgTypeOK', TimedInv, NEW u \in Users, user[u].at # "closed",
         user'[u].nq = user[u].nq,
         \A v \in Users : v # u => user'[v] = user[v] /\ (v \in mail' <=> v \in mail),
         \A j \in Nq : j # user[u].nq => netqs'[j] = netqs[j],
         netqs'[user[u].nq].valid,
         netqs'[user[u].nq].limbo => user'[u].at = "clear",
         user'[u].at \notin {"closed", "preceive"},
         netqs'[user[u].nq].pid # BADPID => netqs'[user[u].nq].pid = u /\ user'[u].at = "recvtim",
         u \in mail' => user'[u].at = "recvtim",
         user'[u].at = "recvtim" => Told(u)'
  PROVE  TimedInv'
<1> DEFINE n == user[u].nq
<1>0. \A v \in Users : v \in Senders /\ user[v].nq \in Nq /\ user'[v].nq \in Nq
  BY Parts, DgTypes, DgTypesNext DEF UserType
<1>1. \A v \in Users : v # u /\ user[v].at # "closed" => user[v].nq # n
  BY DEF TimedInv, Owned
<1>2. \A i \in Nq : netqs[i].pid \in Users \cup {BADPID}
  BY DgTypes DEF QueuesOK, QueueType
<1>3. Owned'
  <2> SUFFICES ASSUME NEW v \in Users, user'[v].at # "closed"
               PROVE  /\ netqs'[user'[v].nq].valid
                      /\ netqs'[user'[v].nq].limbo => user'[v].at = "clear"
                      /\ \A w \in Users : user'[w].at # "closed" /\ user'[w].nq = user'[v].nq => v = w
    BY DEF Owned
  <2>1. CASE v = u
    BY <1>1, <2>1
  <2>2. CASE v # u
    <3>1. user'[v] = user[v] /\ user[v].nq # n /\ netqs'[user[v].nq] = netqs[user[v].nq]
      BY <1>0, <1>1, <2>2
    <3>2. \A w \in Users : user'[w].at # "closed" /\ user'[w].nq = user'[v].nq => v = w
      BY <3>1 DEF TimedInv, Owned
    <3> QED
      BY <3>1, <3>2 DEF TimedInv, Owned
  <2> QED
    BY <2>1, <2>2
<1>4. Named'
  <2> SUFFICES ASSUME NEW i \in Nq
               PROVE  /\ netqs'[i].limbo => netqs'[i].valid
                      /\ netqs'[i].pid # BADPID => /\ user'[netqs'[i].pid].at = "recvtim"
                                                   /\ user'[netqs'[i].pid].nq = i
    BY DEF Named
  <2>1. CASE i = n
    BY <2>1
  <2>2. CASE i # n
    <3>1. netqs'[i] = netqs[i]
      BY <2>2
    <3>2. ASSUME netqs[i].pid # BADPID
          PROVE  user'[netqs[i].pid].at = "recvtim" /\ user'[netqs[i].pid].nq = i
      <4>1. user[netqs[i].pid].at = "recvtim" /\ user[netqs[i].pid].nq = i /\ netqs[i].pid \in Users
        BY <1>2, <3>2 DEF TimedInv, Named
      <4>2. netqs[i].pid # u
        BY <2>2, <4>1
      <4> QED
        BY <4>1, <4>2
    <3> QED
      BY <3>1, <3>2 DEF TimedInv, Named
  <2> QED
    BY <2>1, <2>2
<1>5. TimedReadReturns'
  BY DEF TimedInv, TimedReadReturns
<1>6. ASSUME NEW v \in Users
      PROVE  (v \in mail' => user'[v].at = "recvtim") /\ (user'[v].at = "recvtim" => Told(v)')
  <2>1. CASE v = u
    BY <2>1
  <2>2. CASE v # u
    <3>1. user'[v] = user[v] /\ (v \in mail' <=> v \in mail)
      BY <2>2
    <3>2. v \in mail' => user'[v].at = "recvtim"
      BY <3>1 DEF TimedInv
    <3>3. ASSUME user'[v].at = "recvtim" PROVE Told(v)'
      <4>1. user[v].nq # n /\ Told(v)
        BY <1>1, <2>2, <3>1, <3>3 DEF TimedInv
      <4>2. netqs'[user'[v].nq] = netqs[user[v].nq]
        BY <1>0, <3>1, <4>1
      <4> QED
        BY <3>1, <4>1, <4>2 DEF Told
    <3> QED
      BY <3>2, <3>3
  <2> QED
    BY <2>1, <2>2
<1> QED
  BY <1>3, <1>4, <1>5, <1>6 DEF TimedInv

(* Steps that change nothing a timed read looks at. *)
LEMMA Elsewhere ==
  ASSUME TimedInv, netqs' = netqs, mail' = mail, \A v \in Users : user'[v] = user[v],
         DgTypeOK
  PROVE  TimedInv'
<1>1. \A i \in Nq : netqs[i].pid \in Users \cup {BADPID}
  BY DgTypes DEF QueuesOK, QueueType
<1>2. Owned' /\ TimedReadReturns'
  BY DEF TimedInv, Owned, TimedReadReturns
<1>3. Named'
  BY <1>1 DEF TimedInv, Named
<1>4. \A v \in Users : Told(v) => Told(v)'
  BY DEF Told
<1> QED
  BY <1>2, <1>3, <1>4 DEF TimedInv

(* ip_in() tells the reader that the queue names. *)
LEMMA UdpInTimed ==
  ASSUME DgTypeOK, DgTypeOK', TimedInv, NEW i \in Nq, UdpIn(i)
  PROVE  TimedInv'
<1>0. /\ netqs[i] \in QueueType /\ netqs[i].q \in Seq(Buffers) /\ Len(netqs[i].q) \in Nat
      /\ netqs \in [Nq -> QueueType] /\ user' = user /\ NETQLEN \in Nat /\ NETQLEN >= 1
      /\ netqs[i].pid \in Users \cup {BADPID} /\ BADPID \notin Users /\ mail \subseteq Users
  BY DgTypes, Bounds, Parts, QueueRecords DEF QueuesOK, QueueType, UdpIn
<1>1. CASE netqs[i].limbo
  <2>1. netqs[i].pid = BADPID
    <3> SUFFICES ASSUME netqs[i].pid \in Users, netqs[i].pid # BADPID PROVE FALSE
      BY <1>0
    <3>1. user[netqs[i].pid].at = "recvtim" /\ user[netqs[i].pid].nq = i
      BY DEF TimedInv, Named
    <3>2. user[netqs[i].pid].at = "clear"
      BY <1>1, <3>1 DEF TimedInv, Owned
    <3> QED
      BY <3>1, <3>2
  <2>2. Announce(i, netqs)
    BY <1>1 DEF UdpIn
  <2>3. mail' = mail
    BY <2>1, <2>2 DEF Announce
  <2>4. netqs' = netqs
    <3>1. [netqs[i] EXCEPT !.pid = BADPID] = netqs[i]
      BY <1>0, <2>1 DEF QueueType
    <3>2. netqs' = [netqs EXCEPT ![i] = [netqs[i] EXCEPT !.pid = BADPID]]
      BY <1>0, <2>2 DEF Announce
    <3> QED
      BY <1>0, <3>1, <3>2
  <2> QED
    BY <1>0, <2>3, <2>4, Elsewhere
<1>2. CASE ~netqs[i].limbo /\ Len(netqs[i].q) >= NETQLEN
  <2>1. netqs' = netqs /\ mail' = mail
    BY <1>0, <1>2 DEF UdpIn
  <2> QED
    BY <1>0, <2>1, Elsewhere
<1>3. CASE ~netqs[i].limbo /\ Len(netqs[i].q) < NETQLEN
  <2> DEFINE b == Mine("netin")
             nqs == [netqs EXCEPT ![i].q = Append(@, b)]
  <2>1. netqs[i].valid /\ Announce(i, nqs) /\ Pass("netin", "ports", b)
    BY <1>0, <1>3 DEF UdpIn
  <2>2. b \in Buffers
    BY <2>1, Parts, BufferPool1, DgTypes DEF BpTypeOK
  <2> HIDE DEF b
  <2>3. nqs[i].pid = netqs[i].pid
    BY <1>0 DEF QueueType
  <2>4. /\ netqs' = [nqs EXCEPT ![i].pid = BADPID]
        /\ mail' = mail \cup ({netqs[i].pid} \ {BADPID})
    BY <2>1, <2>3 DEF Announce
  <2>5. /\ \A j \in Nq : j # i => netqs'[j] = netqs[j]
        /\ netqs'[i].valid = netqs[i].valid /\ netqs'[i].limbo = netqs[i].limbo
        /\ netqs'[i].pid = BADPID /\ netqs'[i].q = Append(netqs[i].q, b)
    BY <1>0, <2>4 DEF QueueType
  <2>6. netqs'[i].q # <<>>
    <3>1. Len(Append(netqs[i].q, b)) = Len(netqs[i].q) + 1
      BY <1>0, <2>2
    <3>2. Len(netqs'[i].q) # 0
      BY <1>0, <2>5, <3>1
    <3> QED
      BY <3>2
  <2> HIDE DEF nqs
  <2>7. \A j \in Nq : netqs'[j].valid = netqs[j].valid /\ netqs'[j].limbo = netqs[j].limbo
                      /\ (netqs'[j].pid # BADPID => netqs'[j].pid = netqs[j].pid)
    BY <2>5
  <2>8. \A v \in Users : user[v].nq \in Nq
    BY Parts, DgTypes DEF UserType
  <2>9. Owned'
    BY <1>0, <2>7, <2>8 DEF TimedInv, Owned
  <2>10. Named'
    BY <1>0, <2>7 DEF TimedInv, Named
  <2>11. TimedReadReturns'
    BY <1>0 DEF TimedInv, TimedReadReturns
  <2>12. ASSUME NEW v \in Users
         PROVE  (v \in mail' => user'[v].at = "recvtim") /\ (user'[v].at = "recvtim" => Told(v)')
    <3>1. v \in mail' => user[v].at = "recvtim"
      BY <1>0, <2>4 DEF TimedInv, Named
    <3>2. ASSUME user[v].at = "recvtim" PROVE Told(v)'
      <4>1. Told(v)
        BY <3>2 DEF TimedInv
      <4>2. CASE user[v].nq = i
        <5>1. v \in mail'
          <6>1. CASE v \in mail
            BY <2>4, <6>1
          <6>2. CASE v \notin mail
            <7>1. netqs[i].pid = v
              BY <4>1, <4>2, <6>2 DEF Told
            <7>2. v # BADPID
              BY <1>0
            <7> QED
              BY <2>4, <7>1, <7>2
          <6> QED
            BY <6>1, <6>2
        <5> QED
          BY <1>0, <2>5, <2>6, <4>2, <5>1 DEF Told
      <4>3. CASE user[v].nq # i
        <5>1. netqs'[user[v].nq] = netqs[user[v].nq]
          BY <2>5, <2>8, <4>3
        <5>2. v \in mail' <=> v \in mail
          <6> SUFFICES ASSUME v = netqs[i].pid, v # BADPID PROVE FALSE
            BY <2>4
          <6>1. user[v].nq = i
            BY DEF TimedInv, Named
          <6> QED
            BY <4>3, <6>1
        <5> QED
          BY <1>0, <4>1, <5>1, <5>2 DEF Told
      <4> QED
        BY <4>2, <4>3
    <3> QED
      BY <1>0, <3>1, <3>2
  <2> QED
    BY <2>9, <2>10, <2>11, <2>12 DEF TimedInv
<1> QED
  BY <1>0, <1>1, <1>2, <1>3

(* Steps of netin, of its driver and of netout's preceive() *)
LEMMA NetinTimed ==
  ASSUME DgTypeOK, DgTypeOK', TimedInv, NetinMoves \/ Ether \/ Netout
  PROVE  TimedInv'
<1>1. CASE Drop \/ IcmpIn \/ ArpIn \/ Ether
  <2>1. netqs' = netqs /\ mail' = mail /\ user' = user
    BY <1>1 DEF Drop, IcmpIn, ArpIn, Ether
  <2> QED
    BY <2>1, Elsewhere
<1>2. ASSUME NEW last \in BOOLEAN, NetinGetbuf(last) \/ NetinFree(last) PROVE TimedInv'
  <2>1. netqs' = netqs /\ mail' = mail /\ user' = user
    BY <1>2 DEF NetinGetbuf, NetinFree
  <2> QED
    BY <2>1, Elsewhere
<1>3. CASE Netout
  <2>1. netqs' = netqs /\ mail' = mail /\ Goto("netout", "nmutex")
    BY <1>3 DEF Netout
  <2>2. \A v \in Users : user'[v] = user[v]
    BY <2>1, Parts, DgTypes DEF Goto
  <2> QED
    BY <2>1, <2>2, Elsewhere
<1> QED
  BY <1>1, <1>2, <1>3, UdpInTimed DEF NetinMoves

(* Steps of a sender *)
LEMMA SenderTimed ==
  ASSUME DgTypeOK, DgTypeOK', TimedInv, ~LateArp, NEW s \in Senders, SenderMoves(s)
  PROVE  TimedInv'
<1> DEFINE Sends == {"getbuf", "nmutex", "path", "arpbuf", "arpsend"}
<1>0. user \in [Senders -> UserType] /\ mail \subseteq Users
  BY DgTypes
<1>1. /\ user[s].at \in Sends
      /\ user' = user \/ \E at \in Sends \cup {"idle"} : Goto(s, at)
      /\ netqs' = netqs /\ mail' \in {mail, mail \ {s}}
  <2>1. CASE RouteLock(s)
    BY <2>1 DEF RouteLock
  <2>2. CASE Transmit(s)
    BY <2>2 DEF Transmit
  <2>3. CASE ArpSend(s)
    BY <2>3 DEF ArpSend
  <2>4. CASE NeedArp(s)
    BY <2>4 DEF NeedArp
  <2>5. ASSUME NEW last \in BOOLEAN, WriteGetbuf(s, last)
        PROVE  /\ user[s].at \in Sends
               /\ user' = user \/ \E at \in Sends \cup {"idle"} : Goto(s, at)
               /\ netqs' = netqs /\ mail' \in {mail, mail \ {s}}
    BY <2>5 DEF WriteGetbuf
  <2>6. ASSUME NEW last \in BOOLEAN, ArpGetbuf(s, last)
        PROVE  /\ user[s].at \in Sends
               /\ user' = user \/ \E at \in Sends \cup {"idle"} : Goto(s, at)
               /\ netqs' = netqs /\ mail' \in {mail, mail \ {s}}
    BY <2>6 DEF ArpGetbuf
  <2> QED
    BY <2>1, <2>2, <2>3, <2>4, <2>5, <2>6 DEF SenderMoves
<1>2. s \notin mail
  BY <1>0, <1>1 DEF TimedInv
<1>3. mail' = mail
  BY <1>1, <1>2
<1>4. /\ \A v \in Senders : v # s => user'[v] = user[v]
      /\ user'[s].nq = user[s].nq /\ user'[s].at \in Sends \cup {"idle"}
  BY <1>0, <1>1 DEF Goto, UserType
<1>5. CASE s \notin Users
  <2>1. \A v \in Users : user'[v] = user[v]
    BY <1>4, <1>5, Parts
  <2> QED
    BY <1>1, <1>3, <2>1, Elsewhere
<1>6. CASE s \in Users
  <2>1. user[s].nq \in Nq /\ netqs[user[s].nq].pid \in Users \cup {BADPID}
    BY <1>0, DgTypes DEF QueuesOK, QueueType, UserType
  <2>2. netqs[user[s].nq].pid = BADPID
    <3> SUFFICES ASSUME netqs[user[s].nq].pid # BADPID PROVE FALSE
      OBVIOUS
    <3>1. /\ user[netqs[user[s].nq].pid].at = "recvtim"
          /\ user[netqs[user[s].nq].pid].nq = user[s].nq /\ netqs[user[s].nq].pid \in Users
      BY <2>1 DEF TimedInv, Named
    <3>2. netqs[user[s].nq].pid = s
      BY <1>1, <1>6, <3>1 DEF TimedInv, Owned
    <3> QED
      BY <1>1, <3>1, <3>2
  <2>3. netqs[user[s].nq].valid /\ ~netqs[user[s].nq].limbo
    BY <1>1, <1>6 DEF TimedInv, Owned
  <2>4. \A v \in Users : v # s => user'[v] = user[v] /\ (v \in mail' <=> v \in mail)
    BY <1>3, <1>4, Parts
  <2> QED
    BY <1>1, <1>2, <1>3, <1>4, <1>6, <2>2, <2>3, <2>4, OwnStep
<1> QED
  BY <1>5, <1>6

(* preceive() of u, which may have a packet or wait for one. *)
LEMMA PreceiveTimed ==
  ASSUME DgTypeOK, DgTypeOK', TimedInv, NEW u \in Users, NEW else \in {"preceive", "wait"},
         user[u].at \notin {"closed", "clear"}, Preceive(u, netqs, else),
         netqs[user[u].nq].pid = BADPID, mail' = mail \ {u},
         else = "preceive" => netqs[user[u].nq].q # <<>>
  PROVE  TimedInv'
<1> DEFINE n == user[u].nq
<1>0. /\ user \in [Senders -> UserType] /\ u \in Senders /\ n \in Nq /\ netqs \in [Nq -> QueueType]
      /\ Users \subseteq Senders
  BY DgTypes, Parts DEF QueuesOK, UserType
<1>1. netqs[n].valid /\ ~netqs[n].limbo
  BY DEF TimedInv, Owned
<1>2. Goto(u, "idle") \/ Goto(u, "wait")
  BY DEF Preceive
<1>3. /\ \A v \in Users : v # u => user'[v] = user[v]
      /\ user'[u].nq = n /\ user'[u].at \in {"idle", "wait"}
  BY <1>0, <1>2 DEF Goto, UserType
<1>4. /\ \A j \in Nq : j # n => netqs'[j] = netqs[j]
      /\ netqs'[n].valid = netqs[n].valid /\ netqs'[n].limbo = netqs[n].limbo
      /\ netqs'[n].pid = netqs[n].pid
  BY ZenonT(60), <1>0 DEF Preceive, QueueType
<1>5. \A v \in Users : v # u => (v \in mail' <=> v \in mail)
  OBVIOUS
<1> QED
  BY <1>1, <1>3, <1>4, <1>5, OwnStep

(* A queue names no one while its user is not in recvtim(). *)
LEMMA NotNamed ==
  ASSUME DgTypeOK, TimedInv, NEW u \in Users, user[u].at \notin {"closed", "recvtim"}
  PROVE  /\ netqs[user[u].nq].pid = BADPID /\ u \notin mail /\ netqs[user[u].nq].valid
         /\ user[u].nq \in Nq
<1>1. user[u].nq \in Nq /\ netqs[user[u].nq].pid \in Users \cup {BADPID}
  BY DgTypes, Parts DEF QueuesOK, QueueType, UserType
<1>2. netqs[user[u].nq].pid = BADPID
  <2> SUFFICES ASSUME netqs[user[u].nq].pid # BADPID PROVE FALSE
    OBVIOUS
  <2>1. /\ user[netqs[user[u].nq].pid].at = "recvtim"
        /\ user[netqs[user[u].nq].pid].nq = user[u].nq /\ netqs[user[u].nq].pid \in Users
    BY <1>1 DEF TimedInv, Named
  <2>2. netqs[user[u].nq].pid = u
    BY <2>1 DEF TimedInv, Owned
  <2> QED
    BY <2>1, <2>2
<1> QED
  BY <1>1, <1>2 DEF TimedInv, Owned

(* dgmopen() *)
LEMMA OpenTimed ==
  ASSUME DgTypeOK, DgTypeOK', TimedInv, NEW u \in Users, Open(u)
  PROVE  TimedInv'
<1>0. /\ user \in [Senders -> UserType] /\ u \in Senders /\ netqs \in [Nq -> QueueType]
      /\ Users \subseteq Senders /\ user[u].at = "closed" /\ mail' = mail
  BY DgTypes, Parts DEF QueuesOK, Open
<1>1. PICK i \in Nq : /\ ~netqs[i].valid
                      /\ netqs' = [netqs EXCEPT ![i].valid = TRUE, ![i].pid = BADPID]
                      /\ user' = [user EXCEPT ![u] = [at |-> "idle", nq |-> i]]
  BY DEF Open
<1>2. /\ \A v \in Users : v # u => user'[v] = user[v]
      /\ user'[u].at = "idle" /\ user'[u].nq = i
  BY <1>0, <1>1
<1>3. /\ \A j \in Nq : j # i => netqs'[j] = netqs[j]
      /\ netqs'[i].valid /\ netqs'[i].limbo = netqs[i].limbo /\ netqs'[i].pid = BADPID
  BY <1>0, <1>1 DEF QueueType
<1>4. ~netqs[i].limbo
  BY <1>1 DEF TimedInv, Named
<1>5. \A v \in Users : v # u /\ user[v].at # "closed" => user[v].nq # i /\ user[v].nq \in Nq
  BY <1>0, <1>1 DEF TimedInv, Owned, UserType
<1>6. Owned'
  <2> SUFFICES ASSUME NEW v \in Users, user'[v].at # "closed"
               PROVE  /\ netqs'[user'[v].nq].valid
                      /\ netqs'[user'[v].nq].limbo => user'[v].at = "clear"
                      /\ \A w \in Users : user'[w].at # "closed" /\ user'[w].nq = user'[v].nq => v = w
    BY DEF Owned
  <2>1. CASE v = u
    BY <1>2, <1>3, <1>4, <1>5, <2>1
  <2>2. CASE v # u
    <3>1. user'[v] = user[v] /\ user[v].nq # i /\ netqs'[user[v].nq] = netqs[user[v].nq]
      BY <1>2, <1>3, <1>5, <2>2
    <3>2. \A w \in Users : user'[w].at # "closed" /\ user'[w].nq = user'[v].nq => v = w
      BY <1>2, <3>1 DEF TimedInv, Owned
    <3> QED
      BY <3>1, <3>2 DEF TimedInv, Owned
  <2> QED
    BY <2>1, <2>2
<1>7. Named'
  <2> SUFFICES ASSUME NEW j \in Nq
               PROVE  /\ netqs'[j].limbo => netqs'[j].valid
                      /\ netqs'[j].pid # BADPID => /\ user'[netqs'[j].pid].at = "recvtim"
                                                   /\ user'[netqs'[j].pid].nq = j
    BY DEF Named
  <2>1. CASE j = i
    BY <1>3, <2>1
  <2>2. CASE j # i
    <3>1. netqs'[j] = netqs[j] /\ netqs[j].pid \in Users \cup {BADPID}
      BY <1>0, <1>3, <2>2 DEF QueueType
    <3>2. netqs[j].pid # BADPID => netqs[j].pid # u
      BY <1>0 DEF TimedInv, Named
    <3> QED
      BY <1>2, <3>1, <3>2 DEF TimedInv, Named
  <2> QED
    BY <2>1, <2>2
<1>8. TimedReadReturns'
  BY <1>2 DEF TimedInv, TimedReadReturns
<1>9. ASSUME NEW v \in Users
      PROVE  (v \in mail' => user'[v].at = "recvtim") /\ (user'[v].at = "recvtim" => Told(v)')
  <2>1. CASE v = u
    BY <1>0, <1>2, <2>1 DEF TimedInv
  <2>2. CASE v # u
    <3>1. user'[v] = user[v]
      BY <1>2, <2>2
    <3>2. ASSUME user[v].at = "recvtim" PROVE Told(v)'
      <4>1. netqs'[user'[v].nq] = netqs[user[v].nq]
        BY <1>3, <1>5, <2>2, <3>1, <3>2
      <4> QED
        BY <1>0, <3>1, <3>2, <4>1 DEF TimedInv, Told
    <3> QED
      BY <1>0, <3>1, <3>2 DEF TimedInv
  <2> QED
    BY <2>1, <2>2
<1> QED
  BY <1>6, <1>7, <1>8, <1>9 DEF TimedInv

(* dgclose() *)
LEMMA CloseTimed ==
  ASSUME DgTypeOK, DgTypeOK', TimedInv, NEW u \in Users, Close(u)
  PROVE  TimedInv'
<1> DEFINE n == user[u].nq
<1>0. /\ user \in [Senders -> UserType] /\ u \in Senders /\ netqs \in [Nq -> QueueType]
      /\ Users \subseteq Senders /\ user[u].at = "idle" /\ mail' = mail
      /\ netqs' = [netqs EXCEPT ![n].valid = FALSE, ![n].pid = BADPID] /\ Goto(u, "closed")
  BY DgTypes, Parts DEF QueuesOK, Close
<1>1. netqs[n].pid = BADPID /\ u \notin mail /\ n \in Nq /\ ~netqs[n].limbo
  <2>1. netqs[n].pid = BADPID /\ u \notin mail /\ n \in Nq
    BY <1>0, NotNamed
  <2> QED
    BY <1>0, <2>1 DEF TimedInv, Owned
<1>2. /\ \A v \in Users : v # u => user'[v] = user[v]
      /\ user'[u].at = "closed"
  BY <1>0 DEF Goto, UserType
<1>3. /\ \A j \in Nq : j # n => netqs'[j] = netqs[j]
      /\ netqs'[n].limbo = netqs[n].limbo /\ netqs'[n].pid = BADPID
  BY <1>0, <1>1 DEF QueueType
<1>4. \A v \in Users : v # u /\ user[v].at # "closed" => user[v].nq # n /\ user[v].nq \in Nq
  BY <1>0 DEF TimedInv, Owned, UserType
<1> HIDE DEF n
<1>5. ASSUME NEW v \in Users, v # u, user[v].at # "closed"
      PROVE  user'[v] = user[v] /\ netqs'[user'[v].nq] = netqs[user[v].nq]
  BY <1>2, <1>3, <1>4, <1>5
<1>6. Owned'
  BY <1>2, <1>5 DEF TimedInv, Owned
<1>7. Named'
  <2> SUFFICES ASSUME NEW j \in Nq
               PROVE  /\ netqs'[j].limbo => netqs'[j].valid
                      /\ netqs'[j].pid # BADPID => /\ user'[netqs'[j].pid].at = "recvtim"
                                                   /\ user'[netqs'[j].pid].nq = j
    BY DEF Named
  <2>1. CASE j = n
    BY <1>1, <1>3, <2>1
  <2>2. CASE j # n
    <3>1. netqs'[j] = netqs[j] /\ netqs[j].pid \in Users \cup {BADPID}
      BY <1>0, <1>3, <2>2 DEF QueueType
    <3>2. netqs[j].pid # BADPID => netqs[j].pid # u
      BY <1>0 DEF TimedInv, Named
    <3> QED
      BY <1>2, <3>1, <3>2 DEF TimedInv, Named
  <2> QED
    BY <2>1, <2>2
<1>8. TimedReadReturns'
  BY <1>2 DEF TimedInv, TimedReadReturns
<1>9. ASSUME NEW v \in Users
      PROVE  (v \in mail' => user'[v].at = "recvtim") /\ (user'[v].at = "recvtim" => Told(v)')
  <2>1. CASE v = u
    BY <1>0, <1>1, <1>2, <2>1
  <2>2. CASE v # u
    <3>1. user'[v] = user[v]
      BY <1>2, <2>2
    <3>2. ASSUME user[v].at = "recvtim" PROVE Told(v)'
      BY <1>0, <1>5, <2>2, <3>1, <3>2 DEF TimedInv, Told
    <3> QED
      BY <1>0, <3>1, <3>2 DEF TimedInv
  <2> QED
    BY <2>1, <2>2
<1> QED
  BY <1>6, <1>7, <1>8, <1>9 DEF TimedInv

(* The other calls of a user *)
LEMMA UserTimed ==
  ASSUME DgTypeOK, DgTypeOK', TimedInv, NEW u \in Users, UserMoves(u)
  PROVE  TimedInv'
<1> DEFINE n == user[u].nq
<1>0. /\ user \in [Senders -> UserType] /\ u \in Senders /\ netqs \in [Nq -> QueueType]
      /\ Users \subseteq Senders /\ n \in Nq /\ mail \subseteq Users /\ BADPID \notin Users
  BY DgTypes, Parts DEF QueuesOK, UserType
<1>1. ASSUME NEW at, Goto(u, at)
      PROVE  /\ \A v \in Users : v # u => user'[v] = user[v]
             /\ user'[u].at = at /\ user'[u].nq = n
  BY <1>0, <1>1 DEF Goto, UserType
<1>2. CASE Clear(u)
  <2>1. /\ user[u].at \in {"idle", "clear"} /\ mail' = mail
        /\ \/ netqs' = [netqs EXCEPT ![n].limbo = FALSE, ![n].q = <<>>] /\ Goto(u, "idle")
           \/ netqs' = [netqs EXCEPT ![n].limbo = TRUE, ![n].q = Tail(netqs[n].q)] /\ Goto(u, "clear")
    BY <1>2 DEF Clear
  <2>2. netqs[n].pid = BADPID /\ u \notin mail /\ netqs[n].valid
    BY <2>1, NotNamed
  <2>3. /\ \A j \in Nq : j # n => netqs'[j] = netqs[j]
        /\ netqs'[n].valid = netqs[n].valid /\ netqs'[n].pid = netqs[n].pid
        /\ netqs'[n].limbo => Goto(u, "clear")
    BY <1>0, <2>1 DEF QueueType
  <2>4. /\ \A v \in Users : v # u => user'[v] = user[v]
        /\ user'[u].nq = n /\ user'[u].at \in {"idle", "clear"}
        /\ netqs'[n].limbo => user'[u].at = "clear"
    BY <1>1, <2>1, <2>3
  <2> QED
    BY <2>1, <2>2, <2>3, <2>4, OwnStep
<1>3. CASE Write(u)
  <2>1. user[u].at = "idle" /\ mail' = mail /\ netqs' = netqs /\ Goto(u, "getbuf")
    BY <1>3 DEF Write
  <2>2. netqs[n].pid = BADPID /\ u \notin mail /\ netqs[n].valid
    BY <2>1, NotNamed
  <2>3. ~netqs[n].limbo
    BY <2>1 DEF TimedInv, Owned
  <2>4. /\ \A v \in Users : v # u => user'[v] = user[v]
        /\ user'[u].nq = n /\ user'[u].at = "getbuf"
    BY <1>1, <2>1
  <2> QED
    BY <2>1, <2>2, <2>3, <2>4, OwnStep
<1>4. CASE ReadTimed(u)
  <2>1. user[u].at = "idle" /\ mail' = mail
    BY <1>4 DEF ReadTimed
  <2>2. netqs[n].pid = BADPID /\ u \notin mail /\ netqs[n].valid
    BY <2>1, NotNamed
  <2>3. mail' = mail \ {u}
    BY <2>1, <2>2
  <2>4. CASE netqs[n].q # <<>>
    <3>1. Preceive(u, netqs, "preceive")
      BY <1>4, <2>4 DEF ReadTimed
    <3> QED
      BY <2>1, <2>2, <2>3, <2>4, <3>1, PreceiveTimed
  <2>5. CASE netqs[n].q = <<>>
    <3>1. Goto(u, "recvtim") /\ netqs' = [netqs EXCEPT ![n].pid = u]
      BY <1>4, <2>5 DEF ReadTimed
    <3>2. /\ \A j \in Nq : j # n => netqs'[j] = netqs[j]
          /\ netqs'[n].valid = netqs[n].valid /\ netqs'[n].pid = u
          /\ netqs'[n].limbo = netqs[n].limbo /\ netqs'[n].q = netqs[n].q
      BY <1>0, <3>1 DEF QueueType
    <3>3. /\ \A v \in Users : v # u => user'[v] = user[v]
          /\ user'[u].nq = n /\ user'[u].at = "recvtim"
      BY <1>1, <3>1
    <3>4. ~netqs[n].limbo
      BY <2>1 DEF TimedInv, Owned
    <3>5. Told(u)'
      BY <2>1, <2>2, <2>5, <3>2, <3>3 DEF Told
    <3> QED
      BY <2>1, <2>2, <3>2, <3>3, <3>4, <3>5, OwnStep
  <2> QED
    BY <2>4, <2>5
<1>5. CASE ReadWait(u)
  <2>1. user[u].at = "idle" /\ mail' = mail /\ Preceive(u, netqs, "wait")
    BY <1>5 DEF ReadWait
  <2>2. netqs[n].pid = BADPID /\ u \notin mail
    BY <2>1, NotNamed
  <2>3. mail' = mail \ {u}
    BY <2>1, <2>2
  <2> QED
    BY <2>1, <2>2, <2>3, PreceiveTimed
<1>6. CASE Timeout(u)
  <2>1. /\ user[u].at = "recvtim" /\ mail' = mail /\ u \notin mail /\ Goto(u, "idle")
        /\ netqs' = [netqs EXCEPT ![n].pid = BADPID]
    BY <1>6 DEF Timeout
  <2>2. /\ \A j \in Nq : j # n => netqs'[j] = netqs[j]
        /\ netqs'[n].valid = netqs[n].valid /\ netqs'[n].pid = BADPID
        /\ netqs'[n].limbo = netqs[n].limbo
    BY <1>0, <2>1 DEF QueueType
  <2>3. netqs[n].valid /\ ~netqs[n].limbo
    BY <2>1 DEF TimedInv, Owned
  <2>4. /\ \A v \in Users : v # u => user'[v] = user[v]
        /\ user'[u].nq = n /\ user'[u].at = "idle"
    BY <1>1, <2>1
  <2> QED
    BY <2>1, <2>2, <2>3, <2>4, OwnStep
<1>7. CASE Recvtim(u)
  <2>1. /\ user[u].at = "recvtim" /\ mail' = mail \ {u} /\ u \in mail
        /\ Preceive(u, netqs, "preceive")
    BY <1>7 DEF Recvtim
  <2>2. netqs[n].q # <<>> /\ netqs[n].pid = BADPID
    BY <2>1 DEF TimedInv, Told
  <2> QED
    BY <2>1, <2>2, PreceiveTimed
<1>8. CASE PreceiveOn(u)
  <2>1. /\ user[u].at \in {"preceive", "wait"} /\ mail' = mail
        /\ Preceive(u, netqs, user[u].at)
    BY <1>8 DEF PreceiveOn
  <2>2. user[u].at = "wait"
    BY <2>1 DEF TimedInv, TimedReadReturns
  <2>3. netqs[n].pid = BADPID /\ u \notin mail
    BY <2>2, NotNamed
  <2>4. mail' = mail \ {u}
    BY <2>1, <2>3
  <2> QED
    BY <2>1, <2>2, <2>3, <2>4, PreceiveTimed
<1> QED
  BY <1>2, <1>3, <1>4, <1>5, <1>6, <1>7, <1>8, OpenTimed, CloseTimed DEF UserMoves

(* The initial state *)
LEMMA InitTimed == Init => TimedInv
<1> SUFFICES ASSUME Init PROVE TimedInv
  OBVIOUS
<1>1. \A u \in Users : u \in Senders /\ user[u].at = "closed"
  BY Parts DEF Init
<1>2. \A i \in Nq : ~netqs[i].limbo /\ netqs[i].pid = BADPID
  BY DEF Init
<1>3. mail = {}
  BY DEF Init
<1> QED
  BY <1>1, <1>2, <1>3 DEF TimedInv, Owned, Named, TimedReadReturns

(* A step *)
LEMMA StepTimed ==
  ASSUME ~LateArp
  PROVE  DgTypeOK /\ DgTypeOK' /\ TimedInv /\ [Next]_vars => TimedInv'
<1> SUFFICES ASSUME DgTypeOK, DgTypeOK', TimedInv, [Next]_vars PROVE TimedInv'
  OBVIOUS
<1>1. CASE UNCHANGED vars
  <2>1. netqs' = netqs /\ mail' = mail /\ user' = user
    BY <1>1 DEF vars, dgVars
  <2> QED
    BY <2>1, Elsewhere
<1>2. CASE Next
  BY <1>2, NextIsAMove, NetinTimed, SenderTimed, UserTimed
<1> QED
  BY <1>1, <1>2

(* A read in timeout mode never waits in preceive(), where nothing would    *)
(* end the wait: whenever recvtim() returns a message, the daemon has       *)
(* queued a packet and no one has taken it.  For any number of devices with *)
(* a user each, and as long as no ARP reply comes after its last timeout.   *)
THEOREM NetTimedReads ==
  ASSUME ~LateArp
  PROVE  Spec => []TimedReadReturns
<1>1. TimedInv => TimedReadReturns
  BY DEF TimedInv
<1>2. DgTypeOK /\ DgTypeOK' /\ TimedInv /\ [Next]_vars => TimedInv'
  BY StepTimed
<1> QED
  BY <1>1, <1>2, InitTypes, StepTypes, InitTimed, PTL DEF Spec
=============================================================================
