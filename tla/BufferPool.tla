----------------------------- MODULE BufferPool -----------------------------
(***************************************************************************)
(* A pool of buffers: mkpool.c, getbuf.c and freebuf.c.  The free buffers  *)
(* are a linked chain, and a semaphore counts them; the chain changes with *)
(* interrupts disabled, the semaphore in a step of its own before (getbuf) *)
(* or after (freebuf), and getbuf() takes the chain's first buffer without *)
(* a look whether there is one.                                            *)
(*                                                                         *)
(* Buffers are handed from process to process (Pass), through ports and    *)
(* drivers; a process may be killed anywhere (Kill).                       *)
(***************************************************************************)
EXTENDS Integers, Sequences, FiniteSets

CONSTANTS Procs,    \* processes that use the pool
          NumBufs   \* how many buffers it has

ASSUME PoolAssumption == IsFiniteSet(Procs) /\ NumBufs \in Nat \ {0}

Buffers == 1..NumBufs

VARIABLES chain,    \* the list from bpnext
          bpsem,    \* the pool's semaphore: its count and its queue
          call,     \* call[p], where p stands in getbuf() or freebuf()
          held      \* held[p], the buffers that p owns

bpVars == <<chain, bpsem, call, held>>

On(q)   == {q[i] : i \in DOMAIN q}
Distinct(q) == \A i, j \in DOMAIN q : q[i] = q[j] => i = j
Waiters == {p \in Procs : call[p] = "wait"}
Counted == {p \in Procs : call[p] \in {"take", "linked"}}

BpTypeOK ==
    /\ chain \in Seq(Buffers) /\ Distinct(chain)
    /\ bpsem \in [semcnt : Int, sq : Seq(Procs)] /\ Distinct(bpsem.sq)
    /\ call \in [Procs -> {"none", "wait", "take", "linked", "dead"}]
    /\ held \in [Procs -> SUBSET Buffers]

(* mkpool() *)
BpInit ==
    /\ chain = [i \in 1..NumBufs |-> i]
    /\ bpsem = [semcnt |-> NumBufs, sq |-> <<>>]
    /\ call = [p \in Procs |-> "none"]
    /\ held = [p \in Procs |-> {}]

(* wait(bpsem) in getbuf() *)
GetbufWait(p) ==
    /\ call[p] = "none"
    /\ \/ /\ bpsem.semcnt < 1
          /\ bpsem' = [semcnt |-> bpsem.semcnt - 1, sq |-> Append(bpsem.sq, p)]
          /\ call' = [call EXCEPT ![p] = "wait"]
       \/ /\ bpsem.semcnt >= 1
          /\ bpsem' = [bpsem EXCEPT !.semcnt = @ - 1]
          /\ call' = [call EXCEPT ![p] = "take"]
    /\ UNCHANGED <<chain, held>>

(* Mutant: the buffer is taken and the chain still starts with it. *)
GetbufTakeStays(p) ==
    /\ call[p] = "take"
    /\ held' = [held EXCEPT ![p] = @ \cup {Head(chain)}]
    /\ call' = [call EXCEPT ![p] = "none"]
    /\ UNCHANGED <<chain, bpsem>>

(* The rest of getbuf(). *)
GetbufTake(p) ==
    /\ call[p] = "take"
    /\ held' = [held EXCEPT ![p] = @ \cup {Head(chain)}]
    /\ chain' = Tail(chain)
    /\ call' = [call EXCEPT ![p] = "none"]
    /\ UNCHANGED bpsem

(* freebuf() up to signal(). *)
FreebufLink(p, b) ==
    /\ call[p] = "none" /\ b \in held[p]
    /\ held' = [held EXCEPT ![p] = @ \ {b}]
    /\ chain' = <<b>> \o chain
    /\ call' = [call EXCEPT ![p] = "linked"]
    /\ UNCHANGED bpsem

(* Mutant: the count is incremented before it is looked at. *)
SignalPoolLate(c) ==
    IF bpsem.semcnt + 1 < 0
    THEN /\ bpsem' = [semcnt |-> bpsem.semcnt + 1, sq |-> Tail(bpsem.sq)]
         /\ call' = [c EXCEPT ![Head(bpsem.sq)] = "take"]
    ELSE /\ bpsem' = [bpsem EXCEPT !.semcnt = @ + 1]
         /\ call' = c

(* signal(bpsem), which leaves the other processes' places as c. *)
SignalPool(c) ==
    IF bpsem.semcnt < 0
    THEN /\ bpsem' = [semcnt |-> bpsem.semcnt + 1, sq |-> Tail(bpsem.sq)]
         /\ call' = [c EXCEPT ![Head(bpsem.sq)] = "take"]
    ELSE /\ bpsem' = [bpsem EXCEPT !.semcnt = @ + 1]
         /\ call' = c

FreebufSignal(p) ==
    /\ call[p] = "linked"
    /\ SignalPool([call EXCEPT ![p] = "none"])
    /\ UNCHANGED <<chain, held>>

(* freebuf() where interrupts are disabled already. *)
Freebuf(p, b) ==
    /\ call[p] = "none" /\ b \in held[p]
    /\ held' = [held EXCEPT ![p] = @ \ {b}]
    /\ chain' = <<b>> \o chain
    /\ SignalPool(call)

Reversed(q) == [i \in 1..Len(q) |-> q[Len(q) - i + 1]]

(* freebuf() for all of q, which no one waits for. *)
FreebufAll(p, q) ==
    /\ bpsem.sq = <<>> /\ On(q) \subseteq held[p] /\ Distinct(q)
    /\ held' = [held EXCEPT ![p] = @ \ On(q)]
    /\ chain' = Reversed(q) \o chain
    /\ bpsem' = [bpsem EXCEPT !.semcnt = @ + Len(q)]
    /\ UNCHANGED call

(* A buffer changes hands. *)
Pass(p, q, b) ==
    /\ p # q
    /\ b \in held[p]
    /\ held' = [held EXCEPT ![p] = @ \ {b}, ![q] = @ \cup {b}]
    /\ UNCHANGED <<chain, bpsem, call>>

(* q without its i-th element *)
Without(q, i) == [j \in 1..(Len(q) - 1) |-> IF j < i THEN q[j] ELSE q[j + 1]]

(* kill(): a process that waits leaves the queue and its count comes back;  *)
(* nothing else of what it had in the pool does.                            *)
Kill(p) ==
    /\ call[p] # "dead"
    /\ call' = [call EXCEPT ![p] = "dead"]
    /\ \/ call[p] # "wait" /\ UNCHANGED bpsem
       \/ /\ call[p] = "wait"
          /\ \E i \in DOMAIN bpsem.sq :
               /\ bpsem.sq[i] = p
               /\ bpsem' = [semcnt |-> bpsem.semcnt + 1, sq |-> Without(bpsem.sq, i)]
    /\ UNCHANGED <<chain, held>>

BpNext ==
    \E p \in Procs :
        \/ GetbufWait(p) \/ GetbufTake(p) \/ FreebufSignal(p) \/ Kill(p)
        \/ \E b \in Buffers : \/ FreebufLink(p, b) \/ Freebuf(p, b)
                             \/ \E q \in Procs : Pass(p, q, b)
        \/ \E q \in Seq(Buffers) : FreebufAll(p, q)

BpSpec == BpInit /\ [][BpNext]_bpVars

-----------------------------------------------------------------------------
(* The chain has a buffer for every count: those still in the semaphore,    *)
(* those that getbuf() has taken from it, and those that freebuf() has yet  *)
(* to give back.                                                            *)
ChainCovers ==
    /\ Len(chain) >= (IF bpsem.semcnt > 0 THEN bpsem.semcnt ELSE 0) + Cardinality(Counted)
    /\ Len(bpsem.sq) = (IF bpsem.semcnt < 0 THEN -bpsem.semcnt ELSE 0)
    /\ On(bpsem.sq) = Waiters

(* A buffer is in the chain or owned by one process. *)
OneOwner ==
    \A b \in Buffers :
        /\ b \in On(chain) => \A p \in Procs : b \notin held[p]
        /\ \A p, q \in Procs : b \in held[p] /\ b \in held[q] => p = q

(* The pool, with its two steps a call and its killed processes, is one     *)
(* where getting and giving back are single steps.                          *)
P == INSTANCE Pool WITH free <- On(chain)
ImplementsPool == P!PoolSpec
=============================================================================
