------------------------------ MODULE Semaphore ------------------------------
(***************************************************************************)
(* Counting semaphores: wait.c, signal.c, signaln.c, sreset.c, sdelete.c   *)
(* and screate.c over the semaphore table semaph[].                        *)
(*                                                                         *)
(* sreset, sdelete and signaln make processes ready in a loop, with        *)
(* interrupts disabled, and reschedule once at its end.  One iteration of  *)
(* a loop is one step, and the end of the loop another; the caller's stack *)
(* keeps it in the loop, so that nothing else runs between them.             *)
(***************************************************************************)
EXTENDS Scheduler

CONSTANTS NSEM,         \* size of the semaphore table
          MaxCount      \* bound on a semaphore's count

ASSUME NSEMAssumption     == NSEM \in Nat \ {0}
ASSUME MaxCountAssumption == MaxCount \in Nat

VARIABLES semaph,       \* semaph[s]: state, count and queue
          psem,         \* proctab[].psem
          nextsem       \* where screate starts to look for a free entry

semVars == <<semaph, psem, nextsem>>

Sem == 0..(NSEM - 1)

SemType ==
  /\ semaph \in [Sem -> [sstate : {"SFREE", "SUSED"}, semcnt : Int,
                         queue : Seq(Proc)]]
  /\ psem \in [Proc -> Sem]
  /\ nextsem \in Sem

SemInit ==
  /\ semaph = [s \in Sem |-> [sstate |-> "SFREE", semcnt |-> 0, queue |-> <<>>]]
  /\ psem = [p \in Proc |-> 0]
  /\ nextsem = NSEM - 1

isUsed(s) == semaph[s].sstate = "SUSED"

(* Mutant: the caller goes to the head of the queue. *)
WaitAtHead(s) ==
  /\ Calling("wait") /\ isUsed(s)
  /\ semaph' = [semaph EXCEPT ![s].semcnt = @ - 1,
                              ![s].queue = IF semaph[s].semcnt - 1 < 0
                                           THEN <<curr>> \o @ ELSE @]
  /\ IF semaph[s].semcnt - 1 < 0
     THEN /\ psem' = [psem EXCEPT ![curr] = s]
          /\ sched' = Resched(Block(sched, curr, "PRWAIT"))
     ELSE UNCHANGED <<psem, sched>>
  /\ UNCHANGED <<nextsem, kstack>>

(* The body of wait.c.  The caller may have the CPU back only later. *)
WaitOn(s) ==
  IF semaph[s].semcnt - 1 < 0
  THEN /\ semaph' = [semaph EXCEPT ![s].semcnt = @ - 1,
                                   ![s].queue  = Append(@, curr)]
       /\ psem' = [psem EXCEPT ![curr] = s]
       /\ sched' = Resched(Block(sched, curr, "PRWAIT"))
  ELSE /\ semaph' = [semaph EXCEPT ![s].semcnt = @ - 1]
       /\ UNCHANGED <<psem, sched>>

(* wait.c *)
Wait(s) ==
  /\ Calling("wait") /\ isUsed(s)
  /\ WaitOn(s)
  /\ UNCHANGED <<nextsem, kstack>>

(* The statement `if (semcnt++ < 0) ready(getfirst(sqhead), ...)', shared by *)
(* signal.c and signaln.c; scheduled(s) is the scheduler after ready().      *)
SignalOnce(s, scheduled(_)) ==
  IF semaph[s].semcnt < 0
  THEN /\ semaph' = [semaph EXCEPT ![s].semcnt = @ + 1, ![s].queue = Tail(@)]
       /\ sched' = scheduled(Ready(sched, Head(semaph[s].queue)))
  ELSE /\ semaph' = [semaph EXCEPT ![s].semcnt = @ + 1]
       /\ UNCHANGED sched

Same(s) == s

(* signal.c *)
Signal(s) ==
  /\ Calling("signal") /\ isUsed(s) /\ semaph[s].semcnt < MaxCount
  /\ SignalOnce(s, Resched)
  /\ UNCHANGED <<psem, nextsem, kstack>>

(* signaln.c *)
Signaln(s, count) ==
  /\ Calling("signaln") /\ isUsed(s) /\ count > 0
  /\ semaph[s].semcnt + count <= MaxCount
  /\ Call(<<At("signaln", s, count)>>)
  /\ UNCHANGED <<sched, semVars>>

SignalnLoop ==
  LET k == Top(curr)
  IN  /\ k.at = "signaln"
      /\ \/ /\ k.cnt > 0
            /\ SignalOnce(k.arg, Same)
            /\ Goto(At("signaln", k.arg, k.cnt - 1))
         \/ /\ k.cnt = 0
            /\ sched' = Resched(sched)
            /\ Return
            /\ UNCHANGED semaph
      /\ UNCHANGED <<psem, nextsem>>

(* sreset.c *)
Sreset(s, count) ==
  /\ Calling("sreset") /\ isUsed(s) /\ count >= 0
  /\ Call(<<At("sreset", s, count)>>)
  /\ UNCHANGED <<sched, semVars>>

(* sdelete.c: the entry is free before its processes are made ready; with   *)
(* no process waiting there is no call of resched.                          *)
Sdelete(s) ==
  /\ Calling("sdelete") /\ isUsed(s)
  /\ semaph' = [semaph EXCEPT ![s].sstate = "SFREE"]
  /\ IF semaph[s].queue = <<>> THEN UNCHANGED kstack
     ELSE Call(<<At("sdelete", s, 0)>>)
  /\ UNCHANGED <<sched, psem, nextsem>>

(* `while ((pid = getfirst(sqhead)) != EMPTY) ready(pid, RESCHNO)', then     *)
(* sreset stores the new count, and both reschedule.                         *)
FlushLoop ==
  LET k == Top(curr)
      s == k.arg
  IN  /\ k.at \in {"sreset", "sdelete"}
      /\ \/ /\ semaph[s].queue # <<>>
            /\ semaph' = [semaph EXCEPT ![s].queue = Tail(@)]
            /\ sched' = Ready(sched, Head(semaph[s].queue))
            /\ UNCHANGED kstack
         \/ /\ semaph[s].queue = <<>>
            /\ semaph' = IF k.at = "sreset"
                         THEN [semaph EXCEPT ![s].semcnt = k.cnt] ELSE semaph
            /\ sched' = Resched(sched)
            /\ Return
      /\ UNCHANGED <<psem, nextsem>>

(* Mutant: nextsem does not wrap around. *)
ProbeSemNoWrap(i) == nextsem - i

(* screate.c, newsem: the table is searched downwards and cyclically from   *)
(* nextsem.                                                                 *)
ProbeSem(i) == (nextsem - i) % NSEM

NextFree(i) == ~isUsed(ProbeSem(i)) /\ \A j \in 0..(i - 1) : isUsed(ProbeSem(j))

TakeSem(i, count) ==
  /\ semaph' = [semaph EXCEPT ![ProbeSem(i)].sstate = "SUSED",
                              ![ProbeSem(i)].semcnt = count]
  /\ nextsem' = ProbeSem(i + 1)

Screate(count) ==
  /\ Calling("screate") /\ count >= 0
  /\ \E i \in 0..(NSEM - 1) : NextFree(i) /\ TakeSem(i, count)
  /\ UNCHANGED <<sched, kstack, psem>>
==============================================================================
