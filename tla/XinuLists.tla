------------------------------ MODULE XinuLists ------------------------------
(***************************************************************************)
(* The linked lists of the q table (insert.c, insertd.c, queue.c,          *)
(* getitem.c, q.h) as sequences.  A list that is ordered by key (the ready *)
(* list, the sleep queue) is a sequence of entries [pid, key] from head to *)
(* tail; a semaphore queue is a plain sequence of process ids.             *)
(***************************************************************************)
EXTENDS Integers, SequencesExt

MININT == -32768        \* key of a list head (newqueue.c)
MAXINT == 32767         \* key of a list tail

Entry(p, key) == [pid |-> p, key |-> key]

Pids(l) == {l[i].pid : i \in DOMAIN l}

(* q.h: lastkey(tail); an empty list answers with its head's key. *)
LastKey(l) == IF l = <<>> THEN MININT ELSE Last(l).key

(* Mutant: an entry goes behind those with an equal key. *)
InsertPosBehindEquals(l, key) ==
  Min({i \in DOMAIN l : l[i].key > key} \cup {Len(l) + 1})

(* insert.c: walk past the keys that are smaller, so that an entry goes in  *)
(* front of those with an equal key.                                        *)
InsertPos(l, key) == Min({i \in DOMAIN l : l[i].key >= key} \cup {Len(l) + 1})

Insert(l, p, key) == InsertAt(l, InsertPos(l, key), Entry(p, key))

(* queue.c: dequeue unlinks an item wherever it stands in its list. *)
PosOf(l, p) == CHOOSE i \in DOMAIN l : l[i].pid = p

Dequeue(l, p) == RemoveAt(l, PosOf(l, p))

DequeueSem(l, p) == RemoveAt(l, CHOOSE i \in DOMAIN l : l[i] = p)

(***************************************************************************)
(* Delta lists: an entry's key is its distance from the entry before it.   *)
(***************************************************************************)

(* The time from now at which the i-th entry expires. *)
DeltaSum(l) == LET sum[i \in 0..Len(l)] == IF i = 0 THEN 0
                                           ELSE sum[i-1] + l[i].key
               IN  sum

(* Where a walk that uses up `key' on the deltas of l stops. *)
DeltaPos(l, key) ==
  Min({i \in DOMAIN l : DeltaSum(l)[i] >= key} \cup {Len(l) + 1})

(* Mutant: the entry after the new one is not shortened. *)
InsertDKeepNext(l, p, key) ==
  LET i == DeltaPos(l, key)
  IN  InsertAt(l, i, Entry(p, key - DeltaSum(l)[i-1]))

(* insertd.c: the new entry keeps what is left of its key, and the entry    *)
(* after it is shortened by that much.                                      *)
InsertD(l, p, key) ==
  LET i    == DeltaPos(l, key)
      left == key - DeltaSum(l)[i-1]
      rest == [j \in DOMAIN l |-> IF j = i THEN Entry(l[j].pid, l[j].key - left)
                                  ELSE l[j]]
  IN  InsertAt(rest, i, Entry(p, left))

(* Mutant: the remaining delta is dropped. *)
DequeueDLoseDelta(l, p) == Dequeue(l, p)

(* unsleep.c: the entry's remaining delta is passed to its successor. *)
DequeueD(l, p) ==
  LET i == PosOf(l, p)
  IN  RemoveAt([j \in DOMAIN l |-> IF j = i + 1
                                   THEN Entry(l[j].pid, l[j].key + l[i].key)
                                   ELSE l[j]], i)

(* ssclock.c, strtclk: take `makeup' missed ticks off a delta list. *)
MakeUp(l, makeup) ==
  LET i == DeltaPos(l, makeup)
  IN  [j \in DOMAIN l |->
         CASE j < i -> Entry(l[j].pid, 0)
           [] j = i -> Entry(l[j].pid, l[j].key - (makeup - DeltaSum(l)[i-1]))
           [] OTHER -> l[j]]
==============================================================================
