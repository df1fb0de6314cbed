------------------------------- MODULE Message -------------------------------
(***************************************************************************)
(* One-word messages between processes: send.c, sendf.c, receive.c,        *)
(* recvclr.c and recvtim.c.  phasmsg is a count because sendf.c increments *)
(* it; send.c and the receivers only ask whether it is zero.               *)
(***************************************************************************)
EXTENDS Clock

CONSTANTS Msgs,         \* messages the application sends
          MaxHasmsg     \* bound on phasmsg

ASSUME MaxHasmsgAssumption == MaxHasmsg \in Nat \ {0}

VARIABLES pmsg,         \* proctab[].pmsg
          phasmsg       \* proctab[].phasmsg

msgVars == <<pmsg, phasmsg>>

MsgType ==
  /\ pmsg \in [Proc -> Msgs \cup Proc]
  /\ phasmsg \in [Proc -> 0..MaxHasmsg]

MsgInit ==
  /\ pmsg = [p \in Proc |-> 0]
  /\ phasmsg = [p \in Proc |-> 0]

CanSend(p) == ~isbadpid(p) /\ sched.pstate[p] # "PRFREE" /\ phasmsg[p] = 0

(* Mutant: the receiver is made ready without rescheduling. *)
DeliverNoResched(p, msg) ==
  /\ pmsg' = [pmsg EXCEPT ![p] = msg]
  /\ phasmsg' = [phasmsg EXCEPT ![p] = 1]
  /\ sched' = IF sched.pstate[p] = "PRRECV" THEN Ready(sched, p) ELSE sched
  /\ UNCHANGED clkVars

(* send.c from the point where the arguments have been found correct *)
Deliver(p, msg) ==
  /\ pmsg' = [pmsg EXCEPT ![p] = msg]
  /\ phasmsg' = [phasmsg EXCEPT ![p] = 1]
  /\ \/ /\ sched.pstate[p] = "PRRECV"
        /\ sched' = Resched(Ready(sched, p))
        /\ UNCHANGED clkVars
     \/ /\ sched.pstate[p] = "PRTRECV"
        /\ LeaveClockq(p)
        /\ sched' = Resched(Ready(sched, p))
        /\ UNCHANGED <<defclk, clkdiff>>
     \/ /\ sched.pstate[p] \notin {"PRRECV", "PRTRECV"}
        /\ UNCHANGED <<sched, clkVars>>

Send(p, msg) ==
  /\ Calling("send") /\ CanSend(p)
  /\ Deliver(p, msg)
  /\ UNCHANGED kstack

(* sendf.c: a process in PRTRECV is not woken *)
Sendf(p, msg) ==
  /\ Calling("sendf") /\ ~isbadpid(p) /\ sched.pstate[p] # "PRFREE"
  /\ phasmsg[p] < MaxHasmsg
  /\ pmsg' = [pmsg EXCEPT ![p] = msg]
  /\ phasmsg' = [phasmsg EXCEPT ![p] = @ + 1]
  /\ sched' = IF sched.pstate[p] = "PRRECV" THEN Resched(Ready(sched, p))
              ELSE sched
  /\ UNCHANGED <<kstack, clkVars>>

(* receive.c: with a message waiting the caller goes on at once *)
Receive ==
  /\ Calling("receive")
  /\ Call(<<At("receive", 0, 0)>>)
  /\ sched' = IF phasmsg[curr] = 0 THEN Resched(Block(sched, curr, "PRRECV"))
              ELSE sched
  /\ UNCHANGED <<clkVars, msgVars>>

(* recvtim.c: the same, with the caller also on the sleep queue *)
Recvtim(maxwait) ==
  /\ Calling("recvtim")
  /\ Call(<<At("recvtim", 0, 0)>>)
  /\ IF phasmsg[curr] = 0
     THEN EnterClockq(maxwait) /\ sched' = Resched(Block(sched, curr, "PRTRECV"))
     ELSE UNCHANGED <<clockq, slnempty, sltop, sched>>
  /\ UNCHANGED <<defclk, clkdiff, msgVars>>

(* The end of receive.c and of recvtim.c.  receive takes pmsg whatever      *)
(* phasmsg is; recvtim returns TIMEOUT, with phasmsg zero already, when it  *)
(* has none.                                                                *)
ReceiveEnd ==
  /\ Top(curr).at \in {"receive", "recvtim"}
  /\ phasmsg' = [phasmsg EXCEPT ![curr] = 0]
  /\ Return
  /\ UNCHANGED <<sched, clkVars, pmsg>>

(* recvclr.c *)
Recvclr ==
  /\ Calling("recvclr") /\ phasmsg[curr] # 0
  /\ phasmsg' = [phasmsg EXCEPT ![curr] = 0]
  /\ UNCHANGED <<sched, kstack, clkVars, pmsg>>
==============================================================================
