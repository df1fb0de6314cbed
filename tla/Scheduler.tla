------------------------------ MODULE Scheduler ------------------------------
(***************************************************************************)
(* The process table and the scheduler: resched.c, ready.c, suspend.c,     *)
(* resume.c and chprio.c.                                                  *)
(*                                                                         *)
(* The scheduler's state is one record, sched, so that a system call can   *)
(* be written as the functions of the kernel it calls, one after another:  *)
(*   currpid  the running process         pstate  proctab[].pstate         *)
(*   pprio    proctab[].pprio             rdy     the ready list           *)
(*   preempt  ticks left in the time slice                                 *)
(*                                                                         *)
(* There is one CPU, and system calls run with interrupts disabled, so a   *)
(* call is atomic except where it calls resched(): there another process   *)
(* may be given the CPU, and the rest of the call runs when the caller     *)
(* gets it back.  kstack[p] is what process p still has to do inside the   *)
(* kernel when it has the CPU, innermost call first; it is empty when the  *)
(* process is in its own code, with interrupts enabled.                    *)
(***************************************************************************)
EXTENDS XinuLists, FiniteSets

CONSTANTS NPROC,        \* size of the process table
          QUANTUM,      \* ticks in a time slice
          Prios,        \* priorities the application uses
          Calls         \* system calls the application makes

ASSUME NPROCAssumption   == NPROC \in Nat /\ NPROC >= 2
ASSUME QUANTUMAssumption == QUANTUM \in Nat \ {0}
ASSUME PriosAssumption   == Prios \subseteq 1..MAXINT

VARIABLES sched, kstack

NULLPROC == 0
Proc     == 0..(NPROC - 1)
(* Mutant: the null process is a legal argument. *)
isbadpidAllowNull(p) == p < 0 \/ NPROC <= p

(* proc.h *)
isbadpid(p) == p <= 0 \/ NPROC <= p

PRStates == {"PRCURR", "PRFREE", "PRREADY", "PRRECV", "PRSLEEP", "PRSUSP",
             "PRWAIT", "PRTRECV"}

(* Where a process can be inside the kernel: after a call of resched(), in  *)
(* a loop, or between two accesses with interrupts enabled.                 *)
Points == {"kill", "receive", "recvtim", "clkint", "strtclk", "stopclk",
           "signaln", "sreset", "sdelete", "wakeup",
           "pcreate", "psend", "preceive", "preset", "pdelete"}

(* A frame of a kernel stack: where to go on, and with which arguments. *)
At(point, arg, cnt) == [at |-> point, arg |-> arg, cnt |-> cnt]

Top(p) == IF kstack[p] = <<>> THEN At("user", 0, 0) ELSE Head(kstack[p])

curr == sched.currpid

(* The current process is in user code: it can call, and be interrupted. *)
InUser == kstack[curr] = <<>>

Calling(call) == call \in Calls /\ InUser /\ curr # NULLPROC

(* The current process calls, goes on to another point, or returns. *)
Call(frames) == kstack' = [kstack EXCEPT ![curr] = frames \o @]
Goto(frame)  == kstack' = [kstack EXCEPT ![curr] = <<frame>> \o Tail(@)]
Return       == kstack' = [kstack EXCEPT ![curr] = Tail(@)]

SchedType ==
  /\ sched.currpid \in Proc
  /\ sched.pstate \in [Proc -> PRStates]
  /\ sched.pprio \in [Proc -> Nat]
  /\ sched.rdy \in Seq([pid : Proc, key : Int])
  /\ sched.preempt \in Int
  /\ kstack \in [Proc -> Seq([at : Points, arg : Int, cnt : Int])]

SchedInit ==
  /\ sched = [currpid |-> NULLPROC,
              pstate  |-> [p \in Proc |-> IF p = NULLPROC THEN "PRCURR"
                                          ELSE "PRFREE"],
              pprio   |-> [p \in Proc |-> 0],
              rdy     |-> <<>>,
              preempt |-> QUANTUM]
  /\ kstack = [p \in Proc |-> <<>>]

------------------------------------------------------------------------------
(***************************************************************************)
(* The functions of the scheduler.                                         *)
(***************************************************************************)

(* ready.c with RESCHNO *)
Ready(s, p) == [s EXCEPT !.pstate[p] = "PRREADY",
                         !.rdy = Insert(@, p, s.pprio[p])]

Block(s, p, state) == [s EXCEPT !.pstate[p] = state]

(* Mutant: the process is left on the ready list. *)
UnreadyOnList(s, p, state) == [s EXCEPT !.pstate[p] = state]

(* A ready process leaves the ready list for another state. *)
Unready(s, p, state) == [s EXCEPT !.pstate[p] = state,
                                  !.rdy = Dequeue(@, p)]

(* resched.c: the caller has set its own next state, unless it stays        *)
(* eligible; the process at the end of the ready list gets the CPU.  (The   *)
(* list is never empty there: NullAlwaysRunnable.)                          *)
Resched(s) ==
  LET eligible == s.pstate[s.currpid] = "PRCURR"
      stays    == eligible /\ LastKey(s.rdy) < s.pprio[s.currpid]
      r        == IF eligible THEN Ready(s, s.currpid) ELSE s
      next     == Last(r.rdy).pid
  IN  IF stays \/ r.rdy = <<>>
      THEN [s EXCEPT !.preempt = QUANTUM]
      ELSE [r EXCEPT !.preempt = QUANTUM, !.currpid = next,
                     !.pstate[next] = "PRCURR", !.rdy = Front(@)]

------------------------------------------------------------------------------
(***************************************************************************)
(* System calls.  A call that returns SYSERR changes nothing and is not a  *)
(* step.                                                                   *)
(***************************************************************************)

(* suspend.c: only the current process or a ready one can be suspended. *)
Suspend(p) ==
  /\ Calling("suspend")
  /\ ~isbadpid(p) /\ p # NULLPROC
  /\ \/ /\ sched.pstate[p] = "PRREADY"
        /\ sched' = Unready(sched, p, "PRSUSP")
     \/ /\ sched.pstate[p] = "PRCURR"
        /\ sched' = Resched(Block(sched, p, "PRSUSP"))
  /\ UNCHANGED kstack

(* Mutant: a process that waits for a message can be resumed. *)
ResumeReceiver(p) ==
  /\ ~isbadpid(p) /\ sched.pstate[p] \in {"PRSUSP", "PRRECV"}
  /\ sched' = Resched(Ready(sched, p))
  /\ UNCHANGED kstack

(* resume.c, called by a process or by the null process at startup *)
Resume(p) ==
  /\ ~isbadpid(p) /\ sched.pstate[p] = "PRSUSP"
  /\ sched' = Resched(Ready(sched, p))
  /\ UNCHANGED kstack

(* Mutant: the ready list is not rearranged. *)
ChprioNoMove(p, newprio) ==
  LET s == [sched EXCEPT !.pprio[p] = newprio]
  IN  /\ Calling("chprio")
      /\ ~isbadpid(p) /\ newprio > 0 /\ sched.pstate[p] # "PRFREE"
      /\ sched' = IF s.pstate[p] \in {"PRREADY", "PRCURR"} THEN Resched(s) ELSE s
      /\ UNCHANGED kstack

(* chprio.c: a ready process is moved in the ready list; then, as for the   *)
(* current process, the CPU is given away if it has to be.                  *)
Chprio(p, newprio) ==
  LET s == [sched EXCEPT !.pprio[p] = newprio]
  IN  /\ Calling("chprio")
      /\ ~isbadpid(p) /\ newprio > 0 /\ sched.pstate[p] # "PRFREE"
      /\ sched' = CASE s.pstate[p] = "PRREADY" ->
                         Resched([s EXCEPT !.rdy = Insert(Dequeue(@, p), p,
                                                          newprio)])
                    [] s.pstate[p] = "PRCURR"  -> Resched(s)
                    [] OTHER                   -> s
      /\ UNCHANGED kstack
==============================================================================
