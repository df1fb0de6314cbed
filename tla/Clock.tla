-------------------------------- MODULE Clock --------------------------------
(***************************************************************************)
(* The real-time clock: sleep.c, sleep10.c, unsleep.c, wakeup.c,           *)
(* ssclock.c and the clock interrupt (platform clkint.c).                  *)
(*                                                                         *)
(* A step Clkint is one interrupt in ten, the ones that the prescaler lets *)
(* through; the other nine only count.                                     *)
(***************************************************************************)
EXTENDS Scheduler

CONSTANTS Delays,       \* delays the application asks for, in ticks
          MaxDefer,     \* bound on nested calls of stopclk
          MaxDiff       \* bound on the ticks deferred

ASSUME DelaysAssumption == Delays \subseteq 0..MAXINT
ASSUME DeferAssumption  == MaxDefer \in Nat /\ MaxDiff \in Nat

VARIABLES clockq,       \* the delta list of sleeping processes
          slnempty,     \* `1 iff clockq is nonempty'
          sltop,        \* `address of first key on clockq': its process
          defclk,       \* `>0 iff clock interrupts are deferred'
          clkdiff       \* `number of clock clicks deferred'

clkVars == <<clockq, slnempty, sltop, defclk, clkdiff>>

ClockType ==
  /\ clockq \in Seq([pid : Proc, key : Int])
  /\ slnempty \in BOOLEAN
  /\ sltop \in Proc
  /\ defclk \in 0..MaxDefer
  /\ clkdiff \in 0..MaxDiff

ClockInit ==
  /\ clockq = <<>> /\ slnempty = FALSE /\ sltop = NULLPROC
  /\ defclk = 0 /\ clkdiff = 0

(* insertd(currpid, clockq, n), slnempty = TRUE and sltop, in sleep10.c and *)
(* recvtim.c                                                                *)
EnterClockq(n) ==
  /\ clockq' = InsertD(clockq, curr, n)
  /\ slnempty' = TRUE
  /\ sltop' = Head(clockq').pid

(* Mutant: sltop is left where it was. *)
LeaveClockqStaleTop(p) ==
  /\ clockq' = DequeueD(clockq, p)
  /\ slnempty' = (clockq' # <<>>)
  /\ UNCHANGED sltop

(* unsleep.c, for a process that is asleep *)
LeaveClockq(p) ==
  /\ clockq' = DequeueD(clockq, p)
  /\ IF clockq' # <<>>
     THEN sltop' = Head(clockq').pid /\ UNCHANGED slnempty
     ELSE slnempty' = FALSE /\ UNCHANGED sltop

(* sleep10.c; sleep(0) is sleep10(0), and sleep(n) is made of calls of      *)
(* sleep10.                                                                 *)
Sleep10(n) ==
  /\ Calling("sleep10")
  /\ IF n = 0
     THEN sched' = Resched(sched) /\ UNCHANGED <<clockq, slnempty, sltop>>
     ELSE EnterClockq(n) /\ sched' = Resched(Block(sched, curr, "PRSLEEP"))
  /\ UNCHANGED <<kstack, defclk, clkdiff>>

(* Interrupts are enabled in user code and in stopclk. *)
Interruptible == InUser \/ Top(curr).at = "stopclk"

(* clkint.c, up to the call of wakeup or to the end-of-slice test *)
Clkint ==
  LET ticked == [i \in DOMAIN clockq |->
                   IF slnempty /\ clockq[i].pid = sltop
                   THEN Entry(sltop, clockq[i].key - 1) ELSE clockq[i]]
      expired == slnempty /\ \E i \in DOMAIN clockq :
                               clockq[i].pid = sltop /\ ticked[i].key <= 0
  IN  /\ Interruptible
      /\ IF defclk > 0
         THEN /\ clkdiff < MaxDiff
              /\ clkdiff' = clkdiff + 1
              /\ UNCHANGED <<clockq, kstack>>
         ELSE /\ clockq' = ticked
              /\ Call(IF expired THEN <<At("wakeup", 0, 0), At("clkint", 0, 0)>>
                         ELSE <<At("clkint", 0, 0)>>)
              /\ UNCHANGED clkdiff
      /\ UNCHANGED <<sched, slnempty, sltop, defclk>>

(* clkint.c, the end: `if (--preempt <= 0) resched()' *)
ClkintEnd ==
  /\ Top(curr).at = "clkint"
  /\ Return
  /\ sched' = IF sched.preempt - 1 <= 0 THEN Resched(sched)
              ELSE [sched EXCEPT !.preempt = @ - 1]
  /\ UNCHANGED clkVars

(* Mutant: slnempty is cleared though processes are left on the queue. *)
WakeupClear ==
  /\ Top(curr).at = "wakeup"
  /\ \/ /\ clockq # <<>> /\ Head(clockq).key <= 0
        /\ sched' = Ready(sched, Head(clockq).pid)
        /\ clockq' = Tail(clockq)
        /\ UNCHANGED <<slnempty, sltop, kstack>>
     \/ /\ ~(clockq # <<>> /\ Head(clockq).key <= 0)
        /\ slnempty' = FALSE
        /\ sched' = Resched(sched)
        /\ Return
        /\ UNCHANGED <<clockq, sltop>>
  /\ UNCHANGED <<defclk, clkdiff>>

(* wakeup.c, called from clkint and from strtclk: one step per process made *)
(* ready, then one for the end of the loop.                                 *)
Wakeup ==
  /\ Top(curr).at = "wakeup"
  /\ \/ /\ clockq # <<>> /\ Head(clockq).key <= 0
        /\ sched' = Ready(sched, Head(clockq).pid)
        /\ clockq' = Tail(clockq)
        /\ UNCHANGED <<slnempty, sltop, kstack>>
     \/ /\ ~(clockq # <<>> /\ Head(clockq).key <= 0)
        /\ slnempty' = (clockq # <<>>)
        /\ sltop' = IF clockq # <<>> THEN Head(clockq).pid ELSE sltop
        /\ sched' = Resched(sched)
        /\ Return
        /\ UNCHANGED clockq
  /\ UNCHANGED <<defclk, clkdiff>>

(* ssclock.c, stopclk: `defclk++' with interrupts enabled, so that the      *)
(* value is read in one step and written back in another.                   *)
Stopclk ==
  /\ Calling("stopclk") /\ defclk < MaxDefer
  /\ Call(<<At("stopclk", 0, defclk)>>)
  /\ UNCHANGED <<sched, clkVars>>

StopclkEnd ==
  /\ Top(curr).at = "stopclk"
  /\ defclk' = Top(curr).cnt + 1
  /\ Return
  /\ UNCHANGED <<sched, clockq, slnempty, sltop, clkdiff>>

(* ssclock.c, strtclk, up to the call of wakeup or to its last test *)
Strtclk ==
  /\ Calling("stopclk") /\ defclk > 0
  /\ defclk' = defclk - 1
  /\ IF defclk - 1 > 0
     THEN UNCHANGED <<sched, kstack, clockq, clkdiff>>
     ELSE /\ clkdiff' = 0
          /\ sched' = [sched EXCEPT !.preempt = @ - clkdiff]
          /\ IF slnempty
             THEN /\ clockq' = MakeUp(clockq, clkdiff)
                  /\ Call(<<At("wakeup", 0, 0), At("strtclk", 0, 0)>>)
             ELSE UNCHANGED clockq /\ Call(<<At("strtclk", 0, 0)>>)
  /\ UNCHANGED <<slnempty, sltop>>

(* ssclock.c, strtclk, the end: `if (preempt <= 0) resched()' *)
StrtclkEnd ==
  /\ Top(curr).at = "strtclk"
  /\ Return
  /\ sched' = IF sched.preempt <= 0 THEN Resched(sched) ELSE sched
  /\ UNCHANGED clkVars
==============================================================================
