------------------------------- MODULE KernelMC -------------------------------
(***************************************************************************)
(* The kernel as TLC checks it.  All calls in one behaviour are beyond     *)
(* what TLC can exhaust, so a behaviour keeps to a group of calls that act *)
(* on each other.                                                          *)
(***************************************************************************)
EXTENDS Kernel

CONSTANT Uses    \* the groups of calls

VARIABLE use

(* Processes below and above the first one change their priorities, are     *)
(* suspended and killed.                                                    *)
Priorities == INSTANCE Kernel WITH
  Calls <- {"create", "resume", "suspend", "chprio", "kill", "setnok"}, Prios <- {19, 21}

(* The next of kin, which is the first process and outranks the others, is  *)
(* told of a death, and runs inside kill(), where it may suspend, resume    *)
(* and kill, the dying process among others.                                *)
Heirs == INSTANCE Kernel WITH
  Calls <- {"create", "resume", "suspend", "kill", "receive", "setnok"}, Prios <- {19}

(* Semaphores are used, reset, deleted and created anew, and processes that *)
(* wait are killed.                                                         *)
Semaphores == INSTANCE Kernel WITH
  Calls <- {"create", "resume", "kill", "screate", "wait", "signal", "signaln",
            "sreset", "sdelete"},
  Prios <- {21}, Kin <- {}

InitMC == Init /\ use \in Uses

NextMC ==
  /\ \/ use = "priorities" /\ Priorities!Next
     \/ use = "heirs" /\ Heirs!Next
     \/ use = "semaphores" /\ Semaphores!Next
     \/ use = "any" /\ Next
  /\ UNCHANGED use

SpecMC == InitMC /\ [][NextMC]_<<vars, use>>

FairSpecMC == SpecMC /\ Fairness
==============================================================================
