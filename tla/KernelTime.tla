------------------------------ MODULE KernelTime ------------------------------
(***************************************************************************)
(* The kernel with a history variable: due[p] is the number of ticks that  *)
(* still have to pass before process p, which asked for a delay, may be    *)
(* woken by the clock.  It is set from the argument of sleep10 or recvtim  *)
(* and counts every clock interrupt, deferred ones too; the kernel itself  *)
(* only has the deltas of the sleep queue to go by.  A process that goes   *)
(* to sleep while the clock is stopped is charged for ticks before its     *)
(* call (ssclock.c:42): nothing is said of when it wakes.                  *)
(***************************************************************************)
EXTENDS Kernel

VARIABLE due

Unknown == -1

varsT == <<vars, due>>

InitT == Init /\ due = [p \in Proc |-> 0]

NextT ==
  \/ Untimed /\ UNCHANGED due
  \/ \E n \in Delays : /\ SleepCall(n) \/ RecvtimCall(n)
                       /\ due' = [due EXCEPT ![curr] = IF defclk = 0 THEN n ELSE Unknown]
  \/ Tick /\ due' = [p \in Proc |-> IF due[p] = Unknown THEN Unknown
                                          ELSE IF due[p] > 0 THEN due[p] - 1 ELSE 0]

SpecT == InitT /\ [][NextT]_varsT

(* The deltas add up: the sum of the deltas up to a process is the time it  *)
(* still has to sleep, after any sequence of insertd, unsleep (by a message *)
(* or by kill), ticks, and ticks that are made up for when the clock is     *)
(* started again.                                                           *)
DeltasAddUp ==
  InUser /\ defclk = 0 =>
    \A i \in DOMAIN clockq :
      due[clockq[i].pid] # Unknown => DeltaSum(clockq)[i] = due[clockq[i].pid]

(* `Sleep guarantees a lower bound on delay' (sleep.2): the clock wakes a   *)
(* process no earlier than the number of ticks it asked for.                *)
NoEarlyWakeup ==
  [][\A p \in Proc :
       sched.pstate[p] = "PRSLEEP" /\ sched'.pstate[p] = "PRREADY"
         => due[p] \in {0, Unknown}]_varsT
==============================================================================
