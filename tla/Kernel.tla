-------------------------------- MODULE Kernel --------------------------------
(***************************************************************************)
(* The avr-Xinu kernel: processes, scheduler, semaphores, messages and the *)
(* clock together, with the calls that touch all of them (create.c,        *)
(* kill.c, setnok.c) and the null process's start of the system            *)
(* (initialize.c).                                                         *)
(***************************************************************************)
EXTENDS Semaphore, Message

CONSTANTS Kin,          \* processes the application names as next of kin
          MaxOverkill   \* bound on how far numproc may fall below zero

ASSUME KinAssumption         == Kin \subseteq Proc
ASSUME MaxOverkillAssumption == MaxOverkill \in Nat

VARIABLES numproc,      \* `number of live user processes'
          nextproc,     \* where create starts to look for a free entry
          pnxtkin,      \* proctab[].pnxtkin
          boot          \* how far nulluser has come: "create", "resume", "idle"

procVars == <<numproc, nextproc, pnxtkin, boot>>
vars == <<sched, kstack, semVars, clkVars, msgVars, procVars>>

BADPID   == -1
INITPRIO == 20          \* priority of the first process

ProcType ==
  /\ numproc \in (-MaxOverkill)..NPROC
  /\ nextproc \in Proc
  /\ pnxtkin \in [Proc -> Proc \cup {BADPID}]
  /\ boot \in {"create", "resume", "idle"}

(* Every variable has its type. *)
TypeOK == SchedType /\ SemType /\ ClockType /\ MsgType /\ ProcType

Init ==
  /\ SchedInit /\ SemInit /\ ClockInit /\ MsgInit
  /\ numproc = 0 /\ nextproc = NPROC - 1
  /\ pnxtkin = [p \in Proc |-> 0]
  /\ boot = "create"

------------------------------------------------------------------------------
(* create.c, newpid: the table is searched downwards and cyclically from    *)
(* nextproc.                                                                *)
ProbeProc(i) == (nextproc - i) % NPROC

NewProc(prio) ==
  \E i \in 0..(NPROC - 1) :
    LET p == ProbeProc(i)
    IN  /\ sched.pstate[p] = "PRFREE"
        /\ \A j \in 0..(i - 1) : sched.pstate[ProbeProc(j)] # "PRFREE"
        /\ nextproc' = ProbeProc(i + 1)
        /\ IF prio < 1
           THEN UNCHANGED <<sched, kstack, numproc, pnxtkin, phasmsg, psem>>
           ELSE /\ numproc' = numproc + 1
                /\ sched' = [sched EXCEPT !.pstate[p] = "PRSUSP",
                                          !.pprio[p] = prio]
                /\ kstack' = [kstack EXCEPT ![p] = <<>>]
                /\ pnxtkin' = [pnxtkin EXCEPT ![p] = BADPID]
                /\ phasmsg' = [phasmsg EXCEPT ![p] = 0]
                /\ psem' = [psem EXCEPT ![p] = 0]

(* create.c.  Memory for the stack may be refused (SYSERR, no step). *)
Create(prio) ==
  /\ Calling("create")
  /\ NewProc(prio)
  /\ UNCHANGED <<semaph, nextsem, clkVars, pmsg, boot>>

(* initialize.c, nulluser: create and start the first process, then idle *)
NullCreate ==
  /\ boot = "create" /\ curr = NULLPROC /\ InUser
  /\ NewProc(INITPRIO)
  /\ boot' = "resume"
  /\ UNCHANGED <<semaph, nextsem, clkVars, pmsg>>

NullResume ==
  /\ boot = "resume" /\ curr = NULLPROC /\ InUser
  /\ Resume(NPROC - 1)
  /\ boot' = "idle"
  /\ UNCHANGED <<semVars, clkVars, msgVars, numproc, nextproc, pnxtkin>>

(* setnok.c: only pid is checked *)
Setnok(nok, p) ==
  /\ Calling("setnok") /\ ~isbadpid(p)
  /\ pnxtkin' = [pnxtkin EXCEPT ![p] = nok]
  /\ UNCHANGED <<sched, kstack, semVars, clkVars, msgVars, numproc, nextproc, boot>>

(* kill.c up to `send(pptr->pnxtkin, pid)', which may give the CPU to the   *)
(* next of kin.  isbaddev() is the constant BADDEV, so no device is closed. *)
Kill(p) ==
  /\ Calling("kill")
  /\ ~isbadpid(p) /\ sched.pstate[p] # "PRFREE"
  /\ numproc > -MaxOverkill
  /\ numproc' = numproc - 1
  /\ Call(<<At("kill", p, 0)>>)
  /\ IF CanSend(pnxtkin[p]) THEN Deliver(pnxtkin[p], p)
     ELSE UNCHANGED <<sched, clkVars, msgVars>>
  /\ UNCHANGED <<semVars, nextproc, pnxtkin, boot>>

(* Mutant: the count of the semaphore is not given back, and a process that *)
(* became ready while kill was held up stays on the ready list.             *)
KillEndForgets ==
  LET p  == Top(curr).arg
      st == sched.pstate[p]
  IN  /\ Top(curr).at = "kill"
      /\ Return
      /\ sched' = IF st = "PRCURR" THEN Resched(Block(sched, p, "PRFREE"))
                  ELSE Block(sched, p, "PRFREE")
      /\ semaph' = IF st = "PRWAIT"
                   THEN [semaph EXCEPT ![psem[p]].queue = DequeueSem(@, p)]
                   ELSE semaph
      /\ IF st \in {"PRSLEEP", "PRTRECV"} THEN LeaveClockq(p)
         ELSE UNCHANGED <<clockq, slnempty, sltop>>
      /\ UNCHANGED <<psem, nextsem, defclk, clkdiff, msgVars, procVars>>

(* kill.c, the rest: p is removed according to the state it is in by now *)
KillEnd ==
  LET p  == Top(curr).arg
      st == sched.pstate[p]
  IN  /\ Top(curr).at = "kill"
      /\ Return
      /\ CASE st = "PRCURR"  -> sched' = Resched(Block(sched, p, "PRFREE"))
           [] st = "PRREADY" -> sched' = Unready(sched, p, "PRFREE")
           [] OTHER          -> sched' = Block(sched, p, "PRFREE")
      /\ semaph' = IF st = "PRWAIT"
                   THEN [semaph EXCEPT ![psem[p]].semcnt = @ + 1,
                                       ![psem[p]].queue = DequeueSem(@, p)]
                   ELSE semaph
      /\ IF st \in {"PRSLEEP", "PRTRECV"} THEN LeaveClockq(p)
         ELSE UNCHANGED <<clockq, slnempty, sltop>>
      /\ UNCHANGED <<psem, nextsem, defclk, clkdiff, msgVars, procVars>>

------------------------------------------------------------------------------
SchedCall ==
  /\ \E p \in Proc : \/ Suspend(p)
                     \/ Calling("resume") /\ Resume(p)
                     \/ \E prio \in Prios : Chprio(p, prio)
  /\ UNCHANGED <<semVars, clkVars, msgVars, procVars>>

SemCall ==
  /\ \/ \E s \in Sem : Wait(s) \/ Signal(s) \/ Sdelete(s)
     \/ \E s \in Sem, n \in 0..MaxCount : Signaln(s, n) \/ Sreset(s, n)
     \/ \E n \in 0..MaxCount : Screate(n)
     \/ SignalnLoop
     \/ FlushLoop
  /\ UNCHANGED <<clkVars, msgVars, procVars>>

MsgCall ==
  /\ \/ \E p \in Proc, m \in Msgs : Send(p, m) \/ Sendf(p, m)
     \/ Receive \/ ReceiveEnd \/ Recvclr
  /\ UNCHANGED <<semVars, procVars>>

RecvtimCall(n) == Recvtim(n) /\ UNCHANGED <<semVars, procVars>>
SleepCall(n)   == Sleep10(n) /\ UNCHANGED <<semVars, msgVars, procVars>>
Tick           == Clkint /\ UNCHANGED <<semVars, msgVars, procVars>>

ClockCall ==
  /\ ClkintEnd \/ Wakeup \/ Stopclk \/ StopclkEnd \/ Strtclk \/ StrtclkEnd
  /\ UNCHANGED <<semVars, msgVars, procVars>>

ProcCall ==
  \/ \E prio \in Prios \cup {0} : Create(prio)
  \/ NullCreate \/ NullResume
  \/ \E p \in Proc, nok \in Kin : Setnok(nok, p)
  \/ \E p \in Proc : Kill(p)
  \/ KillEnd

(* Every step but those that set or advance a timer. *)
Untimed == SchedCall \/ SemCall \/ MsgCall \/ ClockCall \/ ProcCall

Next ==
  \/ Untimed
  \/ \E n \in Delays : SleepCall(n) \/ RecvtimCall(n)
  \/ Tick

Spec == Init /\ [][Next]_vars

(* The kernel finishes what it does with interrupts disabled, the null      *)
(* process starts the first process, and the clock interrupt, which is      *)
(* latched while interrupts are off, is not held up for ever.  Nothing is   *)
(* assumed of the application: a process may compute for ever.              *)
Fairness ==
  /\ WF_vars(~InUser /\ Untimed)
  /\ WF_vars(NullCreate \/ NullResume)
  /\ SF_vars(Tick)

FairSpec == Spec /\ Fairness
------------------------------------------------------------------------------
(***************************************************************************)
(* Properties.                                                             *)
(***************************************************************************)

(* The kernel is in a loop that makes processes ready without rescheduling, *)
(* with interrupts disabled (signaln.c, sreset.c, sdelete.c, wakeup.c).     *)
Releasing == Top(curr).at \in {"signaln", "sreset", "sdelete", "wakeup"}

InState(states) == {p \in Proc : sched.pstate[p] \in states}

(* Each process is on the list its pstate names, on no other list and on it *)
(* once: ready processes on the ready list, waiting ones on the queue of    *)
(* psem, sleeping ones and those in a timed receive on the sleep queue.     *)
(* kill, chprio and send move processes between the lists from any state.   *)
ListsMatchStates ==
  /\ IsInjective([i \in DOMAIN sched.rdy |-> sched.rdy[i].pid])
  /\ Pids(sched.rdy) = InState({"PRREADY"})
  /\ \A s \in Sem :
       /\ IsInjective(semaph[s].queue)
       /\ ToSet(semaph[s].queue) = {p \in InState({"PRWAIT"}) : psem[p] = s}
  /\ IsInjective([i \in DOMAIN clockq |-> clockq[i].pid])
  /\ Pids(clockq) = InState({"PRSLEEP", "PRTRECV"})

(* The ready list is sorted by priority, and the key of each entry is still *)
(* the priority of its process, also after chprio (chprio.c:29).            *)
ReadyListSorted ==
  /\ \A i \in DOMAIN sched.rdy : sched.rdy[i].key = sched.pprio[sched.rdy[i].pid]
  /\ \A i, j \in DOMAIN sched.rdy : i < j => sched.rdy[i].key <= sched.rdy[j].key

(* `At any instant, the highest priority process that is ready will be      *)
(* running' (chprio.2): no ready process has a higher priority than the     *)
(* current one, whoever made it ready, outside the loops of the kernel.     *)
HighestPriorityRuns ==
  /\ InState({"PRCURR"}) = {curr}
  /\ ~Releasing => \A p \in InState({"PRREADY"}) :
                     sched.pprio[p] <= sched.pprio[curr]

(* `the null process must always remain ready to run' (initialize.c), so    *)
(* that resched always finds a process on the ready list.                   *)
NullAlwaysRunnable == sched.pstate[NULLPROC] \in {"PRCURR", "PRREADY"}

(* The count of a semaphore in use and its queue agree: a negative count is *)
(* the number of processes waiting.  A free entry has nobody waiting.  The  *)
(* semaphore that a loop of sreset or sdelete is emptying is excepted.      *)
SemCountsWaiters ==
  \A s \in Sem :
    (Top(curr).at \in {"sreset", "sdelete"} /\ Top(curr).arg = s) \/
    Len(semaph[s].queue) = IF isUsed(s) /\ semaph[s].semcnt < 0
                           THEN -semaph[s].semcnt ELSE 0

(* The copies of the sleep queue's head that the clock interrupt uses are   *)
(* up to date whenever it can strike (slnempty `1 iff clockq is nonempty',  *)
(* sltop `address of first key on clockq', sleep.h), and no delta is        *)
(* negative, so that no process is overdue.                                 *)
SleepQueueCurrent ==
  Interruptible => /\ slnempty <=> clockq # <<>>
                   /\ slnempty => sltop = Head(clockq).pid
                   /\ \A i \in DOMAIN clockq : clockq[i].key >= 0

(* A process that comes back from resched() inside receive has a message    *)
(* (receive.c takes pmsg without looking again): nothing but a delivery     *)
(* makes it ready.                                                          *)
ReceiverHasMessage ==
  \A p \in Proc :
    Top(p).at = "receive" /\ sched.pstate[p] \in {"PRREADY", "PRCURR", "PRSUSP"}
      => phasmsg[p] # 0

(* p is being killed: its killer is between the two halves of kill.c. *)
Dying(p) == \E k \in Proc : /\ sched.pstate[k] # "PRFREE"
                            /\ Top(k).at = "kill" /\ Top(k).arg = p

(* numproc is the `number of live user processes' (initialize.c:80), those  *)
(* that somebody has begun to kill no longer counted.                       *)
NumprocCountsLive ==
  numproc = Cardinality({p \in Proc \ {NULLPROC} :
                           sched.pstate[p] # "PRFREE" /\ ~Dying(p)})

Ahead(queue, p, r) ==
  \E i, j \in DOMAIN queue : i < j /\ queue[i] = p /\ queue[j] = r

(* First come, first served: while p waits on a semaphore, a process that   *)
(* is not ahead of it on the queue does not get ahead of it, and does not   *)
(* leave the queue before it unless it is killed.  wait.c appends,          *)
(* getfirst() takes the head, and kill.c takes one out of the middle.       *)
SemFifo ==
  [][\A s \in Sem, p, r \in Proc :
       LET old == semaph[s].queue
           new == semaph'[s].queue
       IN  /\ p \in ToSet(old) \cap ToSet(new)
           /\ r # p /\ ~Ahead(old, r, p)
           => IF r \in ToSet(new) THEN Ahead(new, p, r)
              ELSE r \notin ToSet(old) \/ sched'.pstate[r] = "PRFREE"]_vars

TopPriority(p) ==
  /\ sched.pstate[p] = "PRREADY"
  /\ \A r \in InState({"PRREADY", "PRCURR"}) : sched.pprio[r] <= sched.pprio[p]

(* Round robin among equals: a ready process that no eligible process       *)
(* outranks gets the CPU, even if the running process never gives it up     *)
(* (clkint.c:53), unless it is suspended, killed or outranked first.        *)
EqualsShareCPU ==
  \A p \in Proc \ {NULLPROC} : TopPriority(p) ~> ~TopPriority(p)

(* A process that sleeps, or waits with a time limit, comes off the sleep   *)
(* queue in the end.                                                        *)
SleepersWake ==
  \A p \in Proc \ {NULLPROC} :
    p \in Pids(clockq) ~> p \notin Pids(clockq)
==============================================================================
