-------------------------------- MODULE Pool --------------------------------
(***************************************************************************)
(* What a buffer pool promises: a process that gets a buffer is its only   *)
(* owner until it gives the buffer back.                                   *)
(***************************************************************************)
CONSTANTS Procs, Buffers

VARIABLES free,     \* buffers in the pool
          held      \* held[p], the buffers that p owns

poolVars == <<free, held>>

PoolInit ==
    /\ free = Buffers
    /\ held = [p \in Procs |-> {}]

Get(p, b) ==
    /\ b \in free
    /\ free' = free \ {b}
    /\ held' = [held EXCEPT ![p] = @ \cup {b}]

Put(p, B) ==
    /\ B \subseteq held[p]
    /\ free' = free \cup B
    /\ held' = [held EXCEPT ![p] = @ \ B]

(* One process hands a buffer to another. *)
Pass(p, q, b) ==
    /\ p # q
    /\ b \in held[p]
    /\ held' = [held EXCEPT ![p] = @ \ {b}, ![q] = @ \cup {b}]
    /\ UNCHANGED free

PoolNext ==
    \E p \in Procs :
        \/ \E b \in Buffers : Get(p, b) \/ \E q \in Procs : Pass(p, q, b)
        \/ \E B \in SUBSET Buffers : Put(p, B)

PoolSpec == PoolInit /\ [][PoolNext]_poolVars
=============================================================================
