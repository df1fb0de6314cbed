-------------------------------- MODULE Arp ---------------------------------
(***************************************************************************)
(* Address resolution and routing: arpfind.c, getpath.c, route.c, arp_in.c *)
(* and arpinit.c.  Processes that send datagrams look up and fill in the   *)
(* table of addresses under semaphores, with interrupts enabled; the input *)
(* daemon, which has a higher priority and takes no semaphore, looks up    *)
(* and fills in the same table whenever an ARP packet arrives.  So every   *)
(* access of a sender to the table is a step, and an ARP packet is one.    *)
(*                                                                         *)
(* Arp.arpsem is only ever taken by the process that has Net.nmutex; only  *)
(* the latter is in the model.  An Ethernet address is named by its host,  *)
(* and ZERO is the cleared one, for which arp_dev is -1, no device.        *)
(*                                                                         *)
(* The counters of the table, arppid and arpwant lie behind the table in   *)
(* struct arpblk (arp.h:48), and an entry written past its end goes over   *)
(* them.  The model ends there, as it does with panic(): overrun.          *)
(***************************************************************************)
EXTENDS Integers, FiniteSets

CONSTANTS
    Procs,     \* processes that send
    Hosts,     \* hosts on the local network
    Gateway,   \* Net.gateway
    Far,       \* a destination on another network
    AR_TAB,    \* entries of the table
    AR_RTRY    \* ARP requests for one address

ASSUME ArpAssumption ==
    /\ Gateway \in Hosts /\ Far \notin Hosts /\ "zero" \notin Hosts /\ "none" \notin Hosts \cup Procs
    /\ {AR_TAB, AR_RTRY} \subseteq Nat \ {0}

NONE == "none"
ZERO == "zero"
OVERWRITTEN == -1   \* stands for any number that the bytes of an ARP packet make
Table == 0..(AR_TAB - 1)

VARIABLES
    arptab,    \* Arp.arptab
    atabsiz, atabnxt,
    reused,    \* history: atabnxt has gone back, so entries are given out a second time
    arppid, arpwant,
    nmutex,    \* the process that has Net.nmutex
    mail,      \* the processes that have a message
    snd,       \* snd[p], what p does: see ArpTypeOK
    sent,      \* the last packet's destination and Ethernet address
    panicked,
    overrun    \* an entry has been written past the table

arpVars == <<arptab, atabsiz, atabnxt, reused>>
pidVars == <<arppid, arpwant, mail>>
vars    == <<arpVars, pidVars, nmutex, snd, sent, panicked, overrun>>

(* p sends to dest, and looks for the address of want; idx is the entry it  *)
(* has found or taken, loc a value it has read, gate whether it is at the   *)
(* second call of getpath().                                                *)
ArpTypeOK ==
    /\ arptab \in [Table -> [arp_state : {"FREE", "ALLOC", "RGATE", "RSLVD"},
                             arp_Iad : Hosts \cup {NONE}, arp_Ead : Hosts \cup {ZERO}]]
    /\ ~overrun => atabsiz \in 0..AR_TAB /\ atabnxt \in 0..AR_TAB
    /\ arppid \in Procs \cup {NONE} /\ arpwant \in Hosts \cup {NONE}
    /\ nmutex \in Procs \cup {NONE} /\ mail \subseteq Procs
    /\ snd \in [Procs -> [at : {"idle", "nmutex", "find", "size", "size2", "next", "next2", "wrap",
                                "state", "iad", "ead", "check", "ask", "recvtim", "reset",
                                "route", "rgate", "out"},
                          dest : Hosts \cup {Far}, want : Hosts, idx : Table, loc : 0..AR_TAB,
                          tries : 0..(AR_RTRY - 1), gate : BOOLEAN]]
    /\ sent \in [dest : Hosts \cup {Far}, e_dest : Hosts \cup {ZERO}]
    /\ {panicked, reused, overrun} \subseteq BOOLEAN

Idle == [at |-> "idle", dest |-> Gateway, want |-> Gateway, idx |-> 0, loc |-> 0, tries |-> 0,
         gate |-> FALSE]

(* arpinit() *)
Init ==
    /\ arptab = [i \in Table |-> [arp_state |-> "FREE", arp_Iad |-> NONE, arp_Ead |-> ZERO]]
    /\ atabsiz = 0 /\ atabnxt = 0
    /\ arppid = NONE /\ arpwant = NONE
    /\ nmutex = NONE /\ mail = {}
    /\ snd = [p \in Procs |-> Idle]
    /\ sent = [dest |-> Gateway, e_dest |-> Gateway]
    /\ panicked = FALSE /\ reused = FALSE /\ overrun = FALSE

At(p, at) == snd[p].at = at /\ ~panicked /\ ~overrun
Goto(p, at) == snd' = [snd EXCEPT ![p].at = at]
Own(p) == snd[p].idx

-----------------------------------------------------------------------------
(* arpfind() *)

(* The entries that the search may stop at; it stops at the first. *)
Matches(h) == {i \in Table : /\ i < atabsiz /\ arptab[i].arp_Iad = h
                             /\ arptab[i].arp_state # "FREE"}
First(S) == CHOOSE i \in S : \A j \in S : i <= j

Find(p) ==
    /\ At(p, "find")
    /\ LET found == Matches(snd[p].want)
       IN  snd' = IF found # {} THEN [snd EXCEPT ![p].at = "check", ![p].idx = First(found)]
                  ELSE [snd EXCEPT ![p].at = "size"]
    /\ UNCHANGED <<arpVars, pidVars, nmutex, sent, panicked, overrun>>

(* if (Arp.atabsiz < AR_TAB) Arp.atabsiz++;  a read and a write *)
ReadSize(p) ==
    /\ At(p, "size")
    /\ snd' = [snd EXCEPT ![p].at = "size2", ![p].loc = atabsiz]
    /\ UNCHANGED <<arpVars, pidVars, nmutex, sent, panicked, overrun>>

WriteSize(p) ==
    /\ At(p, "size2")
    /\ atabsiz' = IF snd[p].loc < AR_TAB THEN snd[p].loc + 1 ELSE atabsiz
    /\ Goto(p, "next")
    /\ UNCHANGED <<arptab, atabnxt, reused, pidVars, nmutex, sent, panicked, overrun>>

(* arindex = Arp.atabnxt++;  then the wrap *)
ReadNext(p) ==
    /\ At(p, "next")
    /\ snd' = [snd EXCEPT ![p].at = "next2", ![p].loc = 0, ![p].idx = atabnxt]
    /\ UNCHANGED <<arpVars, pidVars, nmutex, sent, panicked, overrun>>

WriteNext(p) ==
    /\ At(p, "next2")
    /\ atabnxt' = Own(p) + 1
    /\ reused' = (reused \/ Own(p) + 1 < atabnxt)
    /\ Goto(p, "wrap")
    /\ UNCHANGED <<arptab, atabsiz, pidVars, nmutex, sent, panicked, overrun>>

(* Mutant: the wrap comes an index late. *)
WrapLate(p) ==
    /\ At(p, "wrap")
    /\ atabnxt' = IF atabnxt > AR_TAB THEN 0 ELSE atabnxt
    /\ reused' = (reused \/ atabnxt > AR_TAB)
    /\ Goto(p, "state")
    /\ UNCHANGED <<arptab, atabsiz, pidVars, nmutex, sent, panicked, overrun>>

Wrap(p) ==
    /\ At(p, "wrap")
    /\ atabnxt' = IF atabnxt >= AR_TAB THEN 0 ELSE atabnxt
    /\ reused' = (reused \/ atabnxt >= AR_TAB)
    /\ Goto(p, "state")
    /\ UNCHANGED <<arptab, atabsiz, pidVars, nmutex, sent, panicked, overrun>>

(* Mutant: the old Ethernet address is not cleared. *)
FillKeepsEad(p) ==
    /\ \/ /\ At(p, "state")
          /\ arptab' = [arptab EXCEPT ![Own(p)].arp_state = "ALLOC"] /\ Goto(p, "iad")
       \/ /\ At(p, "iad")
          /\ arptab' = [arptab EXCEPT ![Own(p)].arp_Iad = snd[p].want] /\ Goto(p, "check")
    /\ UNCHANGED <<atabsiz, atabnxt, reused, pidVars, nmutex, sent, panicked, overrun>>

(* The new entry's fields, in the code's order. *)
Fill(p) ==
    /\ \/ /\ At(p, "state")
          /\ arptab' = [arptab EXCEPT ![Own(p)].arp_state = "ALLOC"] /\ Goto(p, "iad")
       \/ /\ At(p, "iad")
          /\ arptab' = [arptab EXCEPT ![Own(p)].arp_Iad = snd[p].want] /\ Goto(p, "ead")
       \/ /\ At(p, "ead")
          /\ arptab' = [arptab EXCEPT ![Own(p)].arp_Ead = ZERO] /\ Goto(p, "check")
    /\ UNCHANGED <<atabsiz, atabnxt, reused, pidVars, nmutex, sent, panicked, overrun>>

-----------------------------------------------------------------------------
(* getpath() after arpfind() *)

Check(p) ==
    /\ At(p, "check")
    /\ snd' = [snd EXCEPT ![p].at = IF arptab[Own(p)].arp_state = "ALLOC" THEN "ask" ELSE "route",
                          ![p].tries = 0]
    /\ UNCHANGED <<arpVars, pidVars, nmutex, sent, panicked, overrun>>

(* A request, with interrupts disabled from arppid on; arpwant is only      *)
(* looked at when arppid is set.                                            *)
Ask(p) ==
    /\ At(p, "ask")
    /\ arpwant' = snd[p].want /\ arppid' = p /\ mail' = mail \ {p}
    /\ Goto(p, "recvtim")
    /\ UNCHANGED <<arpVars, nmutex, sent, panicked, overrun>>

(* Mutant: requests without an end. *)
RecvtimForever(p) ==
    /\ At(p, "recvtim")
    /\ IF p \in mail THEN Goto(p, "reset") ELSE Goto(p, "ask")
    /\ mail' = mail \ {p}
    /\ UNCHANGED <<arpVars, arppid, arpwant, nmutex, sent, panicked, overrun>>

(* recvtim() returns a message, or time is over. *)
Recvtim(p) ==
    /\ At(p, "recvtim")
    /\ \/ /\ p \in mail /\ mail' = mail \ {p}
          /\ Goto(p, "reset")
       \/ /\ p \notin mail
          /\ IF snd[p].tries + 1 < AR_RTRY
             THEN snd' = [snd EXCEPT ![p].at = "ask", ![p].tries = @ + 1]
             ELSE Goto(p, "reset")
          /\ UNCHANGED mail
    /\ UNCHANGED <<arpVars, arppid, arpwant, nmutex, sent, panicked, overrun>>

(* Mutant: arppid is left set when the time is over. *)
ResetOmitted(p) ==
    /\ At(p, "reset")
    /\ Goto(p, "route")
    /\ UNCHANGED <<arpVars, pidVars, nmutex, sent, panicked, overrun>>

Reset(p) ==
    /\ At(p, "reset")
    /\ arppid' = NONE
    /\ Goto(p, "route")
    /\ UNCHANGED <<arpVars, arpwant, mail, nmutex, sent, panicked, overrun>>

-----------------------------------------------------------------------------
(* route() *)

Route(p, d) ==
    /\ At(p, "idle")
    /\ snd' = [snd EXCEPT ![p].at = "nmutex", ![p].dest = d]
    /\ UNCHANGED <<arpVars, pidVars, nmutex, sent, panicked, overrun>>

Lock(p) ==
    /\ At(p, "nmutex") /\ nmutex = NONE /\ nmutex' = p
    /\ snd' = [snd EXCEPT ![p].at = "find",
                          ![p].want = IF snd[p].dest = Far THEN Gateway ELSE snd[p].dest]
    /\ UNCHANGED <<arpVars, pidVars, sent, panicked, overrun>>

(* The entry is looked at; the second time, an unresolved one is the end. *)
Resolved(p) ==
    /\ At(p, "route")
    /\ \/ /\ arptab[Own(p)].arp_state = "RSLVD"
          /\ Goto(p, "out") /\ UNCHANGED panicked
       \/ /\ arptab[Own(p)].arp_state # "RSLVD" /\ ~snd[p].gate
          /\ Goto(p, "rgate") /\ UNCHANGED panicked
       \/ /\ arptab[Own(p)].arp_state # "RSLVD" /\ snd[p].gate
          /\ panicked' = TRUE /\ UNCHANGED snd
    /\ UNCHANGED <<arpVars, pidVars, nmutex, sent, overrun>>

(* arp_state = AR_RGATE, and the gateway instead *)
ViaGateway(p) ==
    /\ At(p, "rgate")
    /\ arptab' = [arptab EXCEPT ![Own(p)].arp_state = "RGATE"]
    /\ snd' = [snd EXCEPT ![p].at = "find", ![p].want = Gateway, ![p].gate = TRUE]
    /\ UNCHANGED <<atabsiz, atabnxt, reused, pidVars, nmutex, sent, panicked, overrun>>

Out(p) ==
    /\ At(p, "out")
    /\ sent' = [dest |-> snd[p].dest, e_dest |-> arptab[Own(p)].arp_Ead]
    /\ nmutex' = NONE
    /\ snd' = [snd EXCEPT ![p] = Idle]
    /\ UNCHANGED <<arpVars, pidVars, panicked, overrun>>

-----------------------------------------------------------------------------
(* arp_in() *)

(* arpfind() and the binding it is told, in an entry of the table. *)
Learn(h) ==
    LET found == Matches(h)
        i == IF found # {} THEN First(found) ELSE atabnxt
    IN  /\ i \in Table
        /\ IF found # {} /\ arptab[i].arp_state = "RSLVD" THEN UNCHANGED arptab
           ELSE arptab' = [arptab EXCEPT ![i] = [arp_state |-> "RSLVD", arp_Iad |-> h, arp_Ead |-> h]]
        /\ IF found # {} THEN UNCHANGED <<atabsiz, atabnxt, reused>>
           ELSE /\ atabsiz' = IF atabsiz < AR_TAB THEN atabsiz + 1 ELSE atabsiz
                /\ atabnxt' = IF atabnxt + 1 >= AR_TAB THEN 0 ELSE atabnxt + 1
                /\ reused' = (reused \/ atabnxt + 1 >= AR_TAB)

(* Mutant: any reply is taken for the one that is wanted. *)
WakesAny(h, pid, want) == pid # NONE

Wakes(h, pid, want) == pid # NONE /\ want = h

(* A reply wakes who waits for it, by what arppid and arpwant say. *)
Answer(h, op, pid, want) ==
    /\ arpwant' = want
    /\ IF op = "reply" /\ Wakes(h, pid, want)
       THEN arppid' = NONE /\ mail' = mail \cup {pid}
       ELSE arppid' = pid /\ UNCHANGED mail

(* A request, for this host or another, only teaches the sender's address. *)
ArpIn(h, op) ==
    /\ ~panicked /\ ~overrun
    /\ Learn(h)
    /\ Answer(h, op, arppid, arpwant)
    /\ UNCHANGED <<nmutex, snd, sent, panicked, overrun>>

(* The same when a sender has made atabnxt AR_TAB and not yet 0: the entry is *)
(* that behind the last.  Its bytes are now those of atabsiz, atabnxt,       *)
(* arpsem, arppid and arpwant, and the reply is answered by the last two.    *)
Overrun(h, op) ==
    /\ ~panicked /\ ~overrun
    /\ Matches(h) = {} /\ atabnxt = AR_TAB
    /\ overrun' = TRUE
    /\ atabsiz' = OVERWRITTEN /\ atabnxt' = OVERWRITTEN
    /\ \E pid \in Procs \cup {NONE}, want \in Hosts \cup {NONE} : Answer(h, op, pid, want)
    /\ UNCHANGED <<arptab, reused, nmutex, snd, sent, panicked>>

-----------------------------------------------------------------------------
Steps(p) ==
    \/ Lock(p) \/ Find(p) \/ ReadSize(p) \/ WriteSize(p) \/ ReadNext(p) \/ WriteNext(p) \/ Wrap(p)
    \/ Fill(p) \/ Check(p) \/ Ask(p) \/ Recvtim(p) \/ Reset(p) \/ Resolved(p) \/ ViaGateway(p)
    \/ Out(p)

Next ==
    \/ \E p \in Procs : Steps(p) \/ \E d \in Hosts \cup {Far} : Route(p, d)
    \/ \E h \in Hosts, op \in {"request", "reply"} : ArpIn(h, op) \/ Overrun(h, op)

Spec == Init /\ [][Next]_vars

(* Processes that can run do run, and the semaphore serves its queue in     *)
(* order.  No host need ever answer.                                        *)
Fairness == \A p \in Procs : WF_vars(Steps(p)) /\ SF_vars(Lock(p))

FairSpec == Spec /\ Fairness

-----------------------------------------------------------------------------
(* Properties. *)

(* No host is sent another's packets: the Ethernet address in a packet is   *)
(* its destination's, the gateway's, or none at all (the packet is then     *)
(* lost), however the table was changed since the sender looked.  Until     *)
(* entries are given out again, because the table is full or because an     *)
(* increment of atabnxt by the input daemon is lost: then nothing keeps the *)
(* entry that a sender has found.                                           *)
RightHost == ~reused => sent.e_dest \in {sent.dest, Gateway, ZERO}

(* Who is sent a message asks for an address, and that address has just     *)
(* been entered, if not always in the entry that the asker looks at; except *)
(* by the reply that was written over arppid.                               *)
WokenForCause ==
    [][\A p \in mail' \ mail :
          ~overrun' =>
             /\ snd[p].at \in {"ask", "recvtim", "reset"}
             /\ \E i \in Table : /\ arptab'[i].arp_Iad = snd[p].want
                                 /\ arptab'[i].arp_state = "RSLVD"]_vars

(* As long as arppid is not written over, a reply is never reported to a    *)
(* process that has left getpath(), where the message would end another     *)
(* wait.                                                                    *)
AskerInGetpath == ~overrun /\ arppid # NONE => /\ nmutex = arppid
                                               /\ snd[arppid].at \in {"ask", "recvtim", "reset"}

(* An entry is written past the table only by an ARP packet that comes      *)
(* between a sender's `arindex = Arp.atabnxt++' and its test for the end:   *)
(* everybody leaves arpfind() with an index that names an entry, whatever   *)
(* the other has done to atabnxt.                                           *)
OverrunInWindow == [][overrun' # overrun => \E p \in Procs : snd[p].at = "wrap"]_vars

(* `Entry has been resolved to Eth. addr.' (arp.h:46) *)
ResolvedHasAddress ==
    \A i \in Table : arptab[i].arp_state = "RSLVD" => arptab[i].arp_Ead = arptab[i].arp_Iad

(* `find or insert entry in ARP cache and return its index' (arpfind.c:14): *)
(* no index is returned that is not one of the cache.                       *)
IndexInTable == ~overrun

(* Every datagram is handed to the driver, if with an address, or the       *)
(* system panics or overruns the table, however few hosts answer.           *)
SendEnds == \A p \in Procs : (snd[p].at = "nmutex") ~> (snd[p].at = "idle" \/ panicked \/ overrun)
=============================================================================
