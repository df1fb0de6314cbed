------------------------------ MODULE Datagram ------------------------------
(***************************************************************************)
(* Network input and the datagram pseudo-devices, over the pool of network *)
(* buffers: the input daemon netin.c with ip_in.c, icmp_in.c and arp_in.c, *)
(* the output process netout.c, and dgmopen.c, nqalloc.c, dgread.c,        *)
(* dgwrite.c, dgcntl.c and dgclose.c, which users of the network call.     *)
(*                                                                         *)
(* A buffer is owned by the process that works on it, by "ports" while it  *)
(* is queued for a user or for netout, by "ether" while the Ethernet       *)
(* driver transmits it, and by "nobody" when no one will ever free it.     *)
(* Every datagram device has one user.  Routing is reduced to what it does *)
(* with buffers: under Net.nmutex, and with ARP requests in buffers of     *)
(* their own (getpath.c).                                                  *)
(*                                                                         *)
(* netin has a higher priority than any user, so it is never interrupted   *)
(* by one; and what a user does with interrupts disabled is one step, from *)
(* one point where it may lose the processor to the next.                  *)
(***************************************************************************)
EXTENDS BufferPool

CONSTANTS
    NETQS,      \* queues for UDP datagrams, one for each device in use
    NETQLEN,    \* datagrams in such a queue
    NETFQ,      \* packets from netin to netout
    AR_RTRY,    \* ARP requests for one packet
    Uses,       \* sets of frames that arrive and calls that users make
    LateArp     \* may an ARP reply come after the last timeout?

ASSUME DatagramAssumption ==
    /\ {NETQS, NETQLEN, NETFQ} \subseteq Nat \ {0} /\ AR_RTRY \in Nat
    /\ LateArp \in BOOLEAN
    /\ {"netin", "netout", "ether", "ports", "nobody"} \subseteq Procs
    /\ "none" \notin Procs

Users == Procs \ {"netin", "netout", "ether", "ports", "nobody"}
Senders == Users \cup {"netout"}
Nq == 1..NETQS
BADPID == "none"

VARIABLES
    use,      \* the member of Uses that this run of the system is
    netqs,    \* Net.netqs with the ports it names; limbo while one is cleared
    fwd,      \* the port from netin to netout
    netin,    \* what netin does
    user,     \* user[u], what a process does, and its device's queue
    tries,    \* ARP requests a sender has made for its packet
    nmutex,   \* the sender that holds Net.nmutex
    mail      \* the processes that have a message

dgVars == <<use, netqs, fwd, netin, user, tries, nmutex, mail>>
vars   == <<bpVars, dgVars>>

DgTypeOK ==
    /\ BpTypeOK
    /\ use \in Uses
    /\ netqs \in [Nq -> [valid : BOOLEAN, pid : Users \cup {BADPID}, limbo : BOOLEAN,
                         q : Seq(Buffers)]]
    /\ \A i \in Nq : Len(netqs[i].q) <= NETQLEN
    /\ fwd \in Seq(Buffers) /\ Len(fwd) <= NETFQ
    /\ netin \in {"getbuf", "reading", "free"}
    /\ user \in [Senders -> [at : {"closed", "idle", "clear", "getbuf", "nmutex", "path",
                                   "arpbuf", "arpsend", "recvtim", "preceive", "wait"},
                             nq : Nq]]
    /\ tries \in [Senders -> 0..AR_RTRY]
    /\ nmutex \in Senders \cup {BADPID}
    /\ mail \subseteq Users

Init ==
    /\ BpInit
    /\ use \in Uses
    /\ netqs = [i \in Nq |-> [valid |-> FALSE, pid |-> BADPID, limbo |-> FALSE, q |-> <<>>]]
    /\ fwd = <<>>
    /\ netin = "getbuf"
    /\ user = [u \in Senders |-> [at |-> IF u = "netout" THEN "idle" ELSE "closed", nq |-> 1]]
    /\ tries = [u \in Senders |-> 0]
    /\ nmutex = BADPID
    /\ mail = {}

-----------------------------------------------------------------------------
(* Pieces that several processes share. *)

Mine(p) == CHOOSE b \in held[p] : TRUE

(* p goes through getbuf(); last says that it has the buffer then. *)
Getbuf(p, last) ==
    \/ GetbufWait(p) /\ ~last
    \/ GetbufTake(p) /\ last

(* u goes on at another place. *)
Goto(u, at) == user' = [user EXCEPT ![u].at = at]

-----------------------------------------------------------------------------
(* netin: a buffer, a frame, and what ip_in() and the others do with it. *)

NetinGetbuf(last) ==
    /\ netin = "getbuf" /\ Getbuf("netin", last)
    /\ netin' = IF last THEN "reading" ELSE netin
    /\ UNCHANGED <<netqs, fwd, user, tries, nmutex, mail>>

(* freebuf(); only the driver's interrupt comes between its steps. *)
NetinFree(last) ==
    /\ netin = "free"
    /\ IF last THEN FreebufSignal("netin") ELSE FreebufLink("netin", Mine("netin"))
    /\ netin' = IF last THEN "getbuf" ELSE netin
    /\ UNCHANGED <<netqs, fwd, user, tries, nmutex, mail>>

(* No one wants the frame. *)
Drop ==
    /\ netin = "reading" /\ netin' = "free"
    /\ UNCHANGED <<bpVars, netqs, fwd, user, tries, nmutex, mail>>

(* The end of ip_in(): a reader that waits in recvtim() is sent a message. *)
Announce(i, nqs) ==
    /\ netqs' = [nqs EXCEPT ![i].pid = BADPID]
    /\ mail' = mail \cup ({nqs[i].pid} \ {BADPID})
    /\ netin' = "getbuf"

(* ip_in(), UDP: pcount() of a port in limbo is SYSERR, which is less than  *)
(* NETQLEN, and so is the result of psend(), which is not looked at.        *)
UdpIn(i) ==
    /\ netin = "reading" /\ netqs[i].valid
    /\ \/ /\ netqs[i].limbo
          /\ Pass("netin", "nobody", Mine("netin"))
          /\ Announce(i, netqs)
       \/ /\ ~netqs[i].limbo /\ Len(netqs[i].q) >= NETQLEN
          /\ netin' = "free"
          /\ UNCHANGED <<bpVars, netqs, mail>>
       \/ /\ ~netqs[i].limbo /\ Len(netqs[i].q) < NETQLEN
          /\ Pass("netin", "ports", Mine("netin"))
          /\ Announce(i, [netqs EXCEPT ![i].q = Append(@, Mine("netin"))])
    /\ UNCHANGED <<fwd, user, tries, nmutex>>

(* icmp_in(): an echo request becomes the reply, which netout sends. *)
IcmpIn ==
    /\ netin = "reading"
    /\ \/ /\ Len(fwd) < NETFQ
          /\ fwd' = Append(fwd, Mine("netin"))
          /\ Pass("netin", "ports", Mine("netin"))
          /\ netin' = "getbuf"
       \/ /\ Len(fwd) >= NETFQ
          /\ netin' = "free"
          /\ UNCHANGED <<bpVars, fwd>>
    /\ UNCHANGED <<netqs, user, tries, nmutex, mail>>

(* arp_in(): the reply to a request for this host goes out in its buffer. *)
ArpIn ==
    /\ netin = "reading"
    /\ Pass("netin", "ether", Mine("netin"))
    /\ netin' = "getbuf"
    /\ UNCHANGED <<netqs, fwd, user, tries, nmutex, mail>>

Arrive ==
    \/ "other" \in use /\ Drop
    \/ "udp" \in use /\ \E i \in Nq : UdpIn(i)
    \/ "icmp" \in use /\ IcmpIn
    \/ "arp" \in use /\ ArpIn

Netin == \E last \in BOOLEAN : NetinGetbuf(last) \/ NetinFree(last)

(* The driver frees what it has sent, in its interrupt. *)
Ether ==
    /\ held["ether"] # {} /\ Freebuf("ether", Mine("ether"))
    /\ UNCHANGED <<netqs, fwd, netin, user, tries, nmutex, mail>>

-----------------------------------------------------------------------------
(* Sending: dgwrite() of a user, and netout. *)

Write(u) ==
    /\ user[u].at = "idle" /\ Goto(u, "getbuf")
    /\ UNCHANGED <<bpVars, netqs, fwd, netin, tries, nmutex, mail>>

WriteGetbuf(u, last) ==
    /\ user[u].at = "getbuf" /\ Getbuf(u, last)
    /\ IF last THEN Goto(u, "nmutex") ELSE UNCHANGED user
    /\ UNCHANGED <<netqs, fwd, netin, tries, nmutex, mail>>

(* preceive() of netout *)
Netout ==
    /\ user["netout"].at = "idle" /\ fwd # <<>>
    /\ fwd' = Tail(fwd)
    /\ Pass("ports", "netout", Head(fwd))
    /\ Goto("netout", "nmutex")
    /\ UNCHANGED <<netqs, netin, tries, nmutex, mail>>

RouteLock(s) ==
    /\ user[s].at = "nmutex" /\ nmutex = BADPID
    /\ nmutex' = s /\ Goto(s, "path")
    /\ UNCHANGED <<bpVars, netqs, fwd, netin, tries, mail>>

(* Mutant: Net.nmutex stays taken. *)
TransmitLocked(s) ==
    /\ user[s].at = "path"
    /\ Pass(s, "ether", Mine(s))
    /\ Goto(s, "idle")
    /\ tries' = [tries EXCEPT ![s] = 0]
    /\ UNCHANGED <<netqs, fwd, netin, nmutex, mail>>

(* A path is known: the packet goes out, and Net.nmutex is free. *)
Transmit(s) ==
    /\ user[s].at = "path"
    /\ Pass(s, "ether", Mine(s))
    /\ nmutex' = BADPID /\ Goto(s, "idle")
    /\ tries' = [tries EXCEPT ![s] = 0]
    /\ UNCHANGED <<netqs, fwd, netin, mail>>

(* It is not: one more ARP request, in another buffer. *)
NeedArp(s) ==
    /\ user[s].at = "path" /\ tries[s] < AR_RTRY
    /\ tries' = [tries EXCEPT ![s] = @ + 1]
    /\ Goto(s, "arpbuf")
    /\ UNCHANGED <<bpVars, netqs, fwd, netin, nmutex, mail>>

ArpGetbuf(s, last) ==
    /\ user[s].at = "arpbuf" /\ Getbuf(s, last)
    /\ IF last THEN Goto(s, "arpsend") ELSE UNCHANGED user
    /\ UNCHANGED <<netqs, fwd, netin, tries, nmutex, mail>>

(* recvclr() is part of every request; the reply to the last one may come   *)
(* between its timeout and the reset of arppid, and stays as a message.     *)
ArpSend(s) ==
    /\ user[s].at = "arpsend"
    /\ Pass(s, "ether", Mine(s))
    /\ Goto(s, "path")
    /\ \/ mail' = mail \ {s}
       \/ LateArp /\ s \in Users /\ mail' = mail \cup {s}
    /\ UNCHANGED <<netqs, fwd, netin, tries, nmutex>>

Sending(s) ==
    \/ RouteLock(s) \/ Transmit(s) \/ ArpSend(s)
    \/ \E last \in BOOLEAN : WriteGetbuf(s, last) \/ ArpGetbuf(s, last)

-----------------------------------------------------------------------------
(* The other calls of a user. *)

(* dgmopen(): nqalloc() takes the first queue that is not valid, with what  *)
(* its port still holds.                                                    *)
Open(u) ==
    /\ user[u].at = "closed"
    /\ \E i \in Nq :
         /\ ~netqs[i].valid /\ \A j \in 1..(i - 1) : netqs[j].valid
         /\ netqs' = [netqs EXCEPT ![i].valid = TRUE, ![i].pid = BADPID]
         /\ user' = [user EXCEPT ![u] = [at |-> "idle", nq |-> i]]
    /\ UNCHANGED <<bpVars, fwd, netin, tries, nmutex, mail>>

Close(u) ==
    /\ user[u].at = "idle"
    /\ netqs' = [netqs EXCEPT ![user[u].nq].valid = FALSE, ![user[u].nq].pid = BADPID]
    /\ Goto(u, "closed")
    /\ UNCHANGED <<bpVars, fwd, netin, tries, nmutex, mail>>

(* dgcntl(DG_CLEAR): preset() puts the port in limbo while it frees the     *)
(* packets.  A packet that someone waits for gives the processor away, with *)
(* the port in limbo; those that no one waits for are freed in one go.      *)
Clear(u) ==
    LET i == user[u].nq
        q == netqs[i].q
    IN  /\ user[u].at \in {"idle", "clear"}
        /\ \/ /\ bpsem.sq = <<>> \/ q = <<>>
              /\ FreebufAll("ports", q) \/ (q = <<>> /\ UNCHANGED bpVars)
              /\ netqs' = [netqs EXCEPT ![i].limbo = FALSE, ![i].q = <<>>]
              /\ Goto(u, "idle")
           \/ /\ bpsem.sq # <<>> /\ q # <<>>
              /\ Freebuf("ports", Head(q))
              /\ netqs' = [netqs EXCEPT ![i].limbo = TRUE, ![i].q = Tail(q)]
              /\ Goto(u, "clear")
        /\ UNCHANGED <<fwd, netin, tries, nmutex, mail>>

(* preceive() of a reader and what is left of dgread(): the packet is       *)
(* copied and freed.  Without a packet the reader waits for one.            *)
Preceive(u, nqs, else) ==
    LET i == user[u].nq
    IN  \/ /\ nqs[i].q # <<>>
           /\ Freebuf("ports", Head(nqs[i].q))
           /\ netqs' = [nqs EXCEPT ![i].q = Tail(@)]
           /\ Goto(u, "idle")
        \/ /\ nqs[i].q = <<>> /\ user[u].at # else
           /\ netqs' = nqs
           /\ Goto(u, else)
           /\ UNCHANGED bpVars

(* dgread() in timeout mode: with nothing queued, recvtim() waits for the   *)
(* daemon's message.                                                        *)
ReadTimed(u) ==
    /\ user[u].at = "idle" /\ netqs[user[u].nq].pid = BADPID
    /\ \/ netqs[user[u].nq].q # <<>> /\ Preceive(u, netqs, "preceive")
       \/ /\ netqs[user[u].nq].q = <<>>
          /\ Goto(u, "recvtim")
          /\ netqs' = [netqs EXCEPT ![user[u].nq].pid = u]
          /\ UNCHANGED bpVars
    /\ UNCHANGED <<fwd, netin, tries, nmutex, mail>>

(* Mutant: the process that waits is not taken out of the queue's entry     *)
(* when its time is over.                                                   *)
TimeoutForgets(u) ==
    /\ user[u].at = "recvtim" /\ u \notin mail
    /\ Goto(u, "idle")
    /\ UNCHANGED <<bpVars, netqs, fwd, netin, tries, nmutex, mail>>

(* recvtim() has waited long enough. *)
Timeout(u) ==
    /\ user[u].at = "recvtim" /\ u \notin mail
    /\ netqs' = [netqs EXCEPT ![user[u].nq].pid = BADPID]
    /\ Goto(u, "idle")
    /\ UNCHANGED <<bpVars, fwd, netin, tries, nmutex, mail>>

(* recvtim() returns a message, in time or not, and whoever sent it. *)
Recvtim(u) ==
    /\ user[u].at = "recvtim" /\ u \in mail
    /\ mail' = mail \ {u}
    /\ Preceive(u, netqs, "preceive")
    /\ UNCHANGED <<fwd, netin, tries, nmutex>>

(* dgread() without the timeout mode. *)
ReadWait(u) ==
    /\ user[u].at = "idle"
    /\ Preceive(u, netqs, "wait")
    /\ UNCHANGED <<fwd, netin, tries, nmutex, mail>>

PreceiveOn(u) ==
    /\ user[u].at \in {"preceive", "wait"}
    /\ Preceive(u, netqs, user[u].at)
    /\ UNCHANGED <<fwd, netin, tries, nmutex, mail>>

(* A call that was made goes on. *)
GoesOn(u) == Timeout(u) \/ Recvtim(u) \/ PreceiveOn(u) \/ (user[u].at = "clear" /\ Clear(u))

Calling(u) ==
    \/ Open(u)
    \/ "close" \in use /\ Close(u)
    \/ "clear" \in use /\ user[u].at = "idle" /\ Clear(u)
    \/ "write" \in use /\ Write(u)
    \/ "read" \in use /\ (ReadTimed(u) \/ ReadWait(u))

Work ==
    \/ Arrive \/ Netin \/ Ether \/ Netout
    \/ \E s \in Senders : Sending(s) \/ NeedArp(s)
    \/ \E u \in Users : GoesOn(u) \/ Calling(u)

Next == Work /\ UNCHANGED use

Spec == Init /\ [][Next]_vars

(* Processes that can run do run, and the driver sends what it is given;    *)
(* the semaphore Net.nmutex serves its queue in order.                      *)
(* Nobody need make a call, and no frame need arrive.                       *)
Fairness ==
    /\ WF_vars(Netin /\ UNCHANGED use)
    /\ WF_vars(Ether /\ UNCHANGED use)
    /\ WF_vars(Netout /\ UNCHANGED use)
    /\ \A s \in Senders : /\ WF_vars(Sending(s) /\ UNCHANGED use)
                         /\ SF_vars(RouteLock(s) /\ UNCHANGED use)
    /\ \A u \in Users : WF_vars(GoesOn(u) /\ UNCHANGED use)

FairSpec == Spec /\ Fairness

-----------------------------------------------------------------------------
(* Properties. *)

(* What lies in the queues is what "ports" owns, each packet once: no       *)
(* packet is queued twice or freed while it is queued.                      *)
QueuedOnce ==
    /\ held["ports"] = On(fwd) \cup UNION {On(netqs[i].q) : i \in Nq}
    /\ Cardinality(held["ports"]) = Len(fwd) + Cardinality({x \in Nq \X (1..NETQLEN) :
                                                               x[2] <= Len(netqs[x[1]].q)})

(* "timeout all reads" (dgram.h:36): a timed read never waits where nothing *)
(* limits the wait, that is in preceive().                                  *)
TimedReadReturns == \A u \in Users : user[u].at # "preceive"

(* No packet is lost between a queue and the pool: ip_in() is to "drop      *)
(* instead of blocking on psend" (ip_in.c:40), and a dropped packet's       *)
(* buffer goes back to the pool.                                            *)
NoBufferLost == held["nobody"] = {}

(* Network input never stops for want of a buffer: unless a buffer was lost,*)
(* the daemon always comes back to read the next frame.                     *)
InputGoesOn == []<>(netin = "reading" \/ ~NoBufferLost)

(* Nor does output: a packet that was made is sent, or given up, although   *)
(* its sender waits for other senders, and for a buffer to ask for an       *)
(* address while it holds the packet and Net.nmutex.                        *)
PacketsGoOut ==
    \A s \in Senders : (user[s].at = "nmutex") ~> (user[s].at = "idle" \/ ~NoBufferLost)
=============================================================================
