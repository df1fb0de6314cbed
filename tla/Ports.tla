-------------------------------- MODULE Ports --------------------------------
(***************************************************************************)
(* Ports, bounded queues of one-word messages between processes, on top of *)
(* the kernel: pcreate.c, psend.c, preceive.c, pdelete.c, preset.c and     *)
(* ptclear.c.                                                              *)
(*                                                                         *)
(* psend and preceive wait on a semaphore of the port inside the call, and *)
(* the port may have been reset, deleted or created again when they go on; *)
(* the kernel stack keeps the port and the sequence number they have read. *)
(* A message is identified with its sender.                                *)
(***************************************************************************)
EXTENDS Kernel

CONSTANTS NPORTS,       \* size of the port table
          MAXMSGS,      \* messages in all ports together
          Counts,       \* capacities the application asks for
          MaxSeq        \* bound on ptseq

ASSUME NPORTSAssumption  == NPORTS \in Nat \ {0}
ASSUME MAXMSGSAssumption == MAXMSGS \in Nat \ {0}
ASSUME CountsAssumption  == Counts \subseteq Nat
ASSUME MaxSeqAssumption  == MaxSeq \in Nat

VARIABLES ports,        \* the port table; queue is the list from pthead
          ptnextp,      \* where pcreate starts to look for a free entry
          ptfree,       \* number of nodes on the free list
          lost          \* history: grants of each port that kill() has lost

portVars == <<ports, ptnextp, ptfree>>
varsP    == <<vars, portVars, lost>>

SYSERR == -1
Port   == 0..(NPORTS - 1)

(* pinit.c *)
InitP ==
  /\ Init
  /\ ports = [i \in Port |-> [ptstate |-> "PTFREE", ptssem |-> 0, ptrsem |-> 0,
                              ptmaxcnt |-> 0, ptseq |-> 0, queue |-> <<>>]]
  /\ ptnextp = NPORTS - 1
  /\ ptfree = MAXMSGS
  /\ lost = [i \in Port |-> [psend |-> 0, preceive |-> 0, ptclear |-> 0]]

PortTypeOK ==
  /\ ports \in [Port -> [ptstate : {"PTFREE", "PTLIMBO", "PTALLOC"},
                         ptssem : Sem \cup {SYSERR}, ptrsem : Sem \cup {SYSERR},
                         ptmaxcnt : Counts \cup {0}, ptseq : 0..MaxSeq,
                         queue : Seq(Proc)]]
  /\ ptnextp \in Port
  /\ ptfree \in 0..MAXMSGS
  /\ lost \in [Port -> [psend : Nat, preceive : Nat, ptclear : Nat]]

------------------------------------------------------------------------------
(* wait(), signal(), ... return SYSERR and do nothing without a semaphore. *)
HasSem(s) == s # SYSERR /\ isUsed(s)

SameKernel == UNCHANGED <<clkVars, msgVars, procVars>>

(* screate(count), called in pcreate, with result s *)
ScreateResult(s, count) ==
  IF s = SYSERR
  THEN (\A r \in Sem : isUsed(r)) /\ UNCHANGED <<semaph, nextsem>>
  ELSE \E i \in 0..(NSEM - 1) : NextFree(i) /\ s = ProbeSem(i) /\ TakeSem(i, count)

ProbePort(i) == (ptnextp - i) % NPORTS

(* pcreate.c: the sender semaphore in this step, the receiver semaphore and *)
(* the rest in the next.  A result SYSERR of screate is not looked at.      *)
Pcreate(count) ==
  /\ Calling("pcreate") /\ count >= 0
  /\ \E i \in 0..(NPORTS - 1), s \in Sem \cup {SYSERR} :
       LET p == ProbePort(i)
       IN  /\ ports[p].ptstate = "PTFREE" /\ ports[p].ptseq < MaxSeq
           /\ \A j \in 0..(i - 1) : ports[ProbePort(j)].ptstate # "PTFREE"
           /\ ptnextp' = ProbePort(i + 1)
           /\ ScreateResult(s, count)
           /\ ports' = [ports EXCEPT ![p].ptstate = "PTALLOC", ![p].ptssem = s,
                                     ![p].ptmaxcnt = count, ![p].queue = <<>>]
           /\ Call(<<At("pcreate", p, 0)>>)
  /\ UNCHANGED <<sched, psem, ptfree>> /\ SameKernel

PcreateEnd ==
  LET p == Top(curr).arg
  IN  /\ Top(curr).at = "pcreate"
      /\ \E s \in Sem \cup {SYSERR} :
           /\ ScreateResult(s, 0)
           /\ ports' = [ports EXCEPT ![p].ptrsem = s, ![p].ptseq = @ + 1]
      /\ Return
      /\ UNCHANGED <<sched, psem, ptnextp, ptfree>> /\ SameKernel

(* The first half of psend.c and preceive.c: wait for space or a message. *)
WaitInPort(p, s, point) ==
  /\ ports[p].ptstate = "PTALLOC" /\ HasSem(s)
  /\ Call(<<At(point, p, ports[p].ptseq)>>)
  /\ WaitOn(s)
  /\ UNCHANGED <<nextsem, portVars>> /\ SameKernel

Psend(p)    == Calling("psend") /\ WaitInPort(p, ports[p].ptssem, "psend")
Preceive(p) == Calling("preceive") /\ WaitInPort(p, ports[p].ptrsem, "preceive")

(* `verify port is still allocated' *)
StillThere(k) == ports[k.arg].ptstate = "PTALLOC" /\ ports[k.arg].ptseq = k.cnt

SignalPort(s) ==
  IF HasSem(s) THEN SignalOnce(s, Resched) ELSE UNCHANGED <<sched, semaph>>

(* psend.c after the wait.  With no node left it panics: no step is defined. *)
PsendEnd ==
  LET k == Top(curr)
      p == k.arg
  IN  /\ k.at = "psend"
      /\ \/ /\ ~StillThere(k)
            /\ UNCHANGED <<sched, semaph, ports, ptfree>>
         \/ /\ StillThere(k) /\ ptfree > 0
            /\ ports' = [ports EXCEPT ![p].queue = Append(@, curr)]
            /\ ptfree' = ptfree - 1
            /\ SignalPort(ports[p].ptrsem)
      /\ Return
      /\ UNCHANGED <<psem, nextsem, ptnextp>> /\ SameKernel

(* preceive.c after the wait; it takes the first node without a test. *)
PreceiveEnd ==
  LET k == Top(curr)
      p == k.arg
  IN  /\ k.at = "preceive"
      /\ \/ /\ ~StillThere(k)
            /\ UNCHANGED <<sched, semaph, ports, ptfree>>
         \/ /\ StillThere(k) /\ ports[p].queue # <<>>
            /\ ports' = [ports EXCEPT ![p].queue = Tail(@)]
            /\ ptfree' = ptfree + 1
            /\ SignalPort(ports[p].ptssem)
      /\ Return
      /\ UNCHANGED <<psem, nextsem, ptnextp>> /\ SameKernel

(* Mutant: the messages stay in the port. *)
PtclearKeeps(p, point) ==
  /\ Calling(point) /\ ports[p].ptstate = "PTALLOC" /\ ports[p].ptseq < MaxSeq
  /\ ports' = [ports EXCEPT ![p].ptstate = "PTLIMBO", ![p].ptseq = @ + 1]
  /\ Call(<<At(point, p, 1)>>)
  /\ UNCHANGED <<sched, semVars, ptnextp, ptfree>> /\ SameKernel

(***************************************************************************)
(* preset.c and pdelete.c by way of ptclear.c: limbo, the messages back to *)
(* the free list, then the sender's and the receiver's semaphore reset or  *)
(* deleted, each of which may give the CPU away, and the new state last.   *)
(* What dispose() does with a message is up to the application.            *)
(***************************************************************************)
Ptclear(p, point) ==
  /\ Calling(point) /\ ports[p].ptstate = "PTALLOC" /\ ports[p].ptseq < MaxSeq
  /\ ports' = [ports EXCEPT ![p].ptstate = "PTLIMBO", ![p].ptseq = @ + 1,
                            ![p].queue = <<>>]
  /\ ptfree' = ptfree + Len(ports[p].queue)
  /\ Call(<<At(point, p, 1)>>)
  /\ UNCHANGED <<sched, semVars, ptnextp>> /\ SameKernel

(* The calls of sreset or sdelete: the first on ptssem, the second on ptrsem *)
PtclearSems ==
  LET k     == Top(curr)
      s     == IF k.cnt = 1 THEN ports[k.arg].ptssem ELSE ports[k.arg].ptrsem
      count == IF k.cnt = 1 THEN ports[k.arg].ptmaxcnt ELSE 0
      call(frames) == kstack' = [kstack EXCEPT ![curr] =
                         frames \o <<At(k.at, k.arg, k.cnt + 1)>> \o Tail(@)]
  IN  /\ k.at \in {"preset", "pdelete"} /\ k.cnt <= 2
      /\ \/ /\ ~HasSem(s)
            /\ call(<<>>) /\ UNCHANGED semaph
         \/ /\ HasSem(s) /\ k.at = "preset"
            /\ call(<<At("sreset", s, count)>>) /\ UNCHANGED semaph
         \/ /\ HasSem(s) /\ k.at = "pdelete"
            /\ semaph' = [semaph EXCEPT ![s].sstate = "SFREE"]
            /\ call(IF semaph[s].queue = <<>> THEN <<>>
                    ELSE <<At("sdelete", s, 0)>>)
      /\ UNCHANGED <<sched, psem, nextsem, portVars>> /\ SameKernel

(* Mutant: a preset leaves the port in limbo. *)
PtclearEndLimbo ==
  LET k == Top(curr)
  IN  /\ k.at \in {"preset", "pdelete"} /\ k.cnt = 3
      /\ ports' = IF k.at = "preset" THEN ports
                  ELSE [ports EXCEPT ![k.arg].ptstate = "PTFREE"]
      /\ Return
      /\ UNCHANGED <<sched, semVars, ptnextp, ptfree>> /\ SameKernel

PtclearEnd ==
  LET k == Top(curr)
  IN  /\ k.at \in {"preset", "pdelete"} /\ k.cnt = 3
      /\ ports' = [ports EXCEPT ![k.arg].ptstate =
                     IF k.at = "preset" THEN "PTALLOC" ELSE "PTFREE"]
      /\ Return
      /\ UNCHANGED <<sched, semVars, ptnextp, ptfree>> /\ SameKernel

(* pcount.c *)
Pcount(p) ==
  LET scount(s) == semaph[s].semcnt
      waiting   == scount(ports[p].ptssem)
  IN  scount(ports[p].ptrsem) - (IF waiting < 0 THEN waiting ELSE 0)

------------------------------------------------------------------------------
PortCall ==
  \/ \E n \in Counts : Pcreate(n)
  \/ PcreateEnd
  \/ \E p \in Port : Psend(p) \/ Preceive(p) \/ Ptclear(p, "preset")
                     \/ Ptclear(p, "pdelete")
  \/ PsendEnd \/ PreceiveEnd \/ PtclearSems \/ PtclearEnd

(* The port is open: between pcreate and the next preset or pdelete. *)
Open(p) == ports[p].ptstate = "PTALLOC" /\ Top(curr).at # "pcreate"

(* The processes inside psend or preceive on the present port p: those that *)
(* are blocked, and those that have been let through and have yet to run.   *)
Inside(p, point)  == {r \in Proc : /\ sched.pstate[r] # "PRFREE"
                                   /\ Top(r) = At(point, p, ports[p].ptseq)}
Blocked(p, point) == {r \in Inside(p, point) : sched.pstate[r] = "PRWAIT"}
Granted(p, point) == Inside(p, point) \ Blocked(p, point)

(* The processes that reset or delete port p. *)
Clearing(p) == {r \in Proc : /\ sched.pstate[r] # "PRFREE"
                             /\ \E i \in DOMAIN kstack[r] :
                                  /\ kstack[r][i].at \in {"preset", "pdelete"}
                                  /\ kstack[r][i].arg = p}

(* kill() takes along what was granted to its victim, or what it was to do; *)
(* the next preset, pdelete or pcreate makes up for it.                     *)
LostNow(p) ==
  LET killed(procs) == Cardinality({r \in procs : sched'.pstate[r] = "PRFREE"})
      before(point) == IF ports'[p].ptseq = ports[p].ptseq THEN lost[p][point] ELSE 0
      now(point)    == IF ports'[p].ptseq = ports[p].ptseq THEN killed(Granted(p, point)) ELSE 0
  IN  [psend    |-> before("psend") + now("psend"),
       preceive |-> before("preceive") + now("preceive"),
       ptclear  |-> before("ptclear") + killed(Clearing(p))]

NextP ==
  /\ PortCall \/ (Next /\ UNCHANGED portVars)
  /\ lost' = [p \in Port |-> LostNow(p)]

SpecP == InitP /\ [][NextP]_varsP

------------------------------------------------------------------------------
(* Every place of an open port is accounted for: it is free, holds a        *)
(* message, has been granted to a sender that has yet to run, or was lost   *)
(* with such a sender; senders are blocked only when none is free.          *)
PlacesKept ==
  \A p \in Port :
    Open(p) /\ HasSem(ports[p].ptssem) =>
      semaph[ports[p].ptssem].semcnt =
        ports[p].ptmaxcnt - Len(ports[p].queue)
          - Cardinality(Inside(p, "psend")) - lost[p].psend

(* pcount() tells how many messages there are for receivers to come: those  *)
(* in the port and those of blocked senders (pcount.2), less the ones that  *)
(* receivers already inside preceive, or killed there, are owed.            *)
PcountTells ==
  \A p \in Port :
    Open(p) /\ HasSem(ports[p].ptssem) /\ HasSem(ports[p].ptrsem) =>
      Pcount(p) = Len(ports[p].queue) + Cardinality(Blocked(p, "psend"))
                    - Cardinality(Inside(p, "preceive")) - lost[p].preceive

(* Whoever is let through finds what it was let through for: a granted      *)
(* receiver a message (preceive.c:45 takes the first node untested), a      *)
(* granted sender a place and a node (psend.c:44 panics without), whatever  *)
(* was reset, deleted, created anew or killed while it was blocked.         *)
GrantsAreGood ==
  \A p \in Port :
    Open(p) =>
      /\ Cardinality(Granted(p, "preceive")) <= Len(ports[p].queue)
      /\ Len(ports[p].queue) + Cardinality(Granted(p, "psend"))
           <= ports[p].ptmaxcnt
      /\ Granted(p, "psend") # {} => ptfree > 0

(* `Processes waiting to send a message to a full port disappear without    *)
(* affecting the port' (kill.2).                                            *)
NoPlaceLost == \A p \in Port : lost[p].psend = 0

(* A port is `in limbo until done freeing processes' (ptclear.c): somebody  *)
(* is still about to give it its new state, or was killed on the way.       *)
LimboEnds ==
  \A p \in Port :
    ports[p].ptstate = "PTLIMBO" => Clearing(p) # {} \/ lost[p].ptclear > 0
==============================================================================
