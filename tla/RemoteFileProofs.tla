-------------------------- MODULE RemoteFileProofs --------------------------
(***************************************************************************)
(* Proofs about the remote file system, for every number of processes,     *)
(* names, devices and tries, and every length of a file.                   *)
(*                                                                         *)
(* The invariant RfInv has a part that holds whatever messages arrive and  *)
(* when (RfBase): a device is open for one process, and whoever is in the  *)
(* exchange with the server has Rf.rmutex.  When no message outlives the   *)
(* call that it belongs to there is a second part (UnderWay): all requests *)
(* that are under way are the one that is asked, and all replies are true  *)
(* answers to it.                                                          *)
(***************************************************************************)
EXTENDS RemoteFile, SequenceTheorems, WellFoundedInduction, TLAPS

(* What is true of packets, processes and files whatever arrives, and when. *)
Words == Procs \cup Names \cup {NONE}

AnyPackets == [f_op : Ops \cup {"ERROR"}, f_name : Names, f_pos : Nat, data : Words]

Entries == [state : {"RFREE", "RUSED"}, name : Names, pos : Nat, mutex : Procs \cup {NONE}]

Places == [at : {"idle", "fmutex", "rmutex", "send", "read", "reply", "failed"}, op : Ops,
           slot : 0..Nrf, name : Names, arg : Words, left : Int, trys : Int]

Files == [there : BOOLEAN, data : Seq(Words)]

(* Where a process has Rf.rmutex. *)
Busy == {"send", "read", "reply"}

(* The packet of a process that is as d says when the devices are as tab    *)
(* says.                                                                    *)
FileOps == {"open", "close", "read", "write"}
Ask(d, tab) ==
    [f_op |-> d.op, f_name |-> IF d.op \in FileOps THEN tab[d.slot].name ELSE d.name,
     f_pos |-> IF d.op \in {"open", "read", "write"} THEN tab[d.slot].pos ELSE 0,
     data |-> d.arg]

(* r is an answer to the request a that is true of the files fs. *)
GoodAnswer(r, a, fs) ==
    r.f_op # "ERROR" =>
        /\ r.f_op = a.f_op /\ r.f_name = a.f_name
        /\ r.f_op = "read" =>
              IF a.f_pos < Len(fs[r.f_name].data)
              THEN r.data = fs[r.f_name].data[a.f_pos + 1] /\ r.f_pos = a.f_pos + 1
              ELSE r.f_pos = a.f_pos
        /\ r.f_op = "write" =>
              /\ a.f_pos < Len(fs[r.f_name].data) /\ fs[r.f_name].data[a.f_pos + 1] = a.data
              /\ r.f_pos = a.f_pos + 1

(* A device is open for the one process that opened it. *)
Owned(tab, ps) ==
    \A p, q \in Procs :
        ps[p].slot # 0 => /\ tab[ps[p].slot].state = "RUSED"
                          /\ ps[q].slot = ps[p].slot => p = q

(* What is known of process p in a call, when it is as d says. *)
InCall(p, d) ==
    /\ d.at # "idle" => (d.op \in FileOps => d.slot # 0) /\ (d.op = "write" => d.arg = p)
    /\ d.at \in {"fmutex", "failed"} => d.op \in FileOps

(* What is under way when the request of the one who has Rf.rmutex is a and *)
(* it is at the place at.                                                   *)
UnderWay(a, at) ==
    /\ \A m \in req : m = a
    /\ \A r \in rep : GoodAnswer(r, a, files)
    /\ \A i \in 1..Len(inq) : GoodAnswer(inq[i], a, files)
    /\ at \in {"send", "read"} => Rf.packet = a
    /\ at = "reply" => GoodAnswer(Rf.packet, a, files)

RfTypes ==
    /\ rftab \in [Slots -> Entries]
    /\ Rf \in [device : {"RCLOSED", "open"}, rmutex : Procs \cup {NONE}, packet : AnyPackets]
    /\ proc \in [Procs -> Places]
    /\ inq \in Seq(AnyPackets) /\ req \subseteq AnyPackets /\ rep \subseteq AnyPackets
    /\ files \in [Names -> Files]

(* Part of the inductive invariant that holds with late messages too. *)
RfBase ==
    /\ RfTypes
    /\ Owned(rftab, proc)
    /\ \A p \in Procs : InCall(p, proc[p])
    /\ \A p \in Procs : proc[p].at \in Busy <=> Rf.rmutex = p

(* The inductive invariant. *)
RfInv ==
    /\ RfBase
    /\ ~Late => \A p \in Procs : proc[p].at \in Busy => UnderWay(Ask(proc[p], rftab), proc[p].at)

(* Which operations are on files, and which on names.                      *)
LEMMA OpsAre ==
    /\ FileOps \subseteq Ops /\ "access" \in Ops /\ "unlink" \in Ops /\ "rename" \in Ops
    /\ "ERROR" \notin Ops
    /\ "open" \in FileOps /\ "close" \in FileOps /\ "read" \in FileOps /\ "write" \in FileOps
    /\ "access" \notin FileOps /\ "unlink" \notin FileOps /\ "rename" \notin FileOps
  BY DEF FileOps, Ops

(* What rfmkpac() makes. *)
LEMMA RfmkpacAsks ==
  ASSUME NEW p
  PROVE  Rfmkpac(p) = Ask(proc[p], rftab)
BY DEF Rfmkpac, Ask, OnFile, FileOps

(* What a process asks for is a packet.                                    *)
LEMMA AskType ==
  ASSUME NEW d \in Places, NEW tab \in [Slots -> Entries], d.op \in FileOps => d.slot # 0
  PROVE  Ask(d, tab) \in AnyPackets
<1>1. /\ d.op \in Ops /\ d.name \in Names /\ d.arg \in Words /\ d.slot \in 0..Nrf
  BY DEF Places
<1>2. Nrf \in Nat
  BY RfAssumption
<1>3. ASSUME d.op \in FileOps
      PROVE  tab[d.slot].name \in Names /\ tab[d.slot].pos \in Nat
  <2>1. d.slot \in Slots
    BY <1>1, <1>2, <1>3 DEF Slots
  <2>2. tab[d.slot] \in Entries
    BY <2>1
  <2>. QED
    BY <2>2 DEF Entries
<1>4. {"open", "read", "write"} \subseteq FileOps
  BY DEF FileOps
<1>. QED
  BY <1>1, <1>3, <1>4 DEF Ask, AnyPackets

(* Whether what a process asks for is the same when its own device is. *)
LEMMA SameAsk ==
  ASSUME NEW d, NEW tab, NEW tab2,
         d.op \in FileOps => /\ tab2[d.slot].name = tab[d.slot].name
                             /\ tab2[d.slot].pos = tab[d.slot].pos
  PROVE  Ask(d, tab2) = Ask(d, tab)
<1>1. {"open", "read", "write"} \subseteq FileOps
  BY DEF FileOps
<1>2. CASE d.op \in FileOps
  BY <1>2 DEF Ask
<1>3. CASE d.op \notin FileOps
  BY <1>1, <1>3 DEF Ask
<1>. QED
  BY <1>2, <1>3

(* Two processes do not both have Rf.rmutex. *)
LEMMA OneBusy ==
  ASSUME RfBase, NEW p \in Procs, NEW q \in Procs, proc[p].at \in Busy, proc[q].at \in Busy
  PROVE  p = q
BY DEF RfBase

(* When p comes to be as d says and the devices as tab says, the devices    *)
(* that others have stay as they were, and p has none of them.              *)
OthersKept(p, d, tab) ==
    \A q \in Procs : q # p /\ proc[q].slot # 0 =>
        /\ tab[proc[q].slot].state = "RUSED"
        /\ tab[proc[q].slot].name = rftab[proc[q].slot].name
        /\ tab[proc[q].slot].pos = rftab[proc[q].slot].pos
        /\ d.slot # proc[q].slot

(* A step of p outside of the exchange keeps the invariant when it leaves   *)
(* alone the devices of the others.                                         *)
LEMMA OutsideStep ==
  ASSUME RfInv, NEW p \in Procs, NEW d \in Places, NEW tab \in [Slots -> Entries],
         proc[p].at \notin Busy, d.at \notin Busy, InCall(p, d),
         proc' = [proc EXCEPT ![p] = d], rftab' = tab,
         OthersKept(p, d, tab),
         d.slot # 0 => tab[d.slot].state = "RUSED",
         UNCHANGED <<Rf, req, rep, files>>, inq' = inq \/ inq' = <<>>
  PROVE  RfInv'
<1>1. PICK ps : ps = proc'
  OBVIOUS
<1>2. /\ proc \in [Procs -> Places]
      /\ ps \in [Procs -> Places] /\ ps[p] = d /\ \A q \in Procs : q # p => ps[q] = proc[q]
  BY <1>1 DEF RfInv, RfBase, RfTypes
<1>3. RfTypes'
  <2>1. RfTypes
    BY DEF RfInv, RfBase
  <2>2. <<>> \in Seq(AnyPackets)
    OBVIOUS
  <2>3. inq' \in Seq(AnyPackets)
    BY <2>1, <2>2 DEF RfTypes
  <2>4. rftab' \in [Slots -> Entries] /\ proc' \in [Procs -> Places]
    BY <1>1, <1>2
  <2>. QED
    BY <2>1, <2>3, <2>4 DEF RfTypes
<1>4. Owned(tab, ps)
  <2>1. \A q \in Procs : proc[q].slot # 0 => \A r \in Procs : proc[r].slot = proc[q].slot => r = q
    BY DEF RfInv, RfBase, Owned
  <2>. QED
    BY <1>2, <2>1 DEF Owned, OthersKept
<1>5. \A q \in Procs : InCall(q, ps[q])
  BY <1>2 DEF RfInv, RfBase
<1>6. \A q \in Procs : ps[q].at \in Busy <=> Rf.rmutex = q
  BY <1>2 DEF RfInv, RfBase
<1>7. RfBase'
  BY <1>1, <1>3, <1>4, <1>5, <1>6 DEF RfBase
<1>8. ASSUME ~Late, NEW q \in Procs, ps[q].at \in Busy
      PROVE  UnderWay(Ask(ps[q], tab), ps[q].at)'
  <2>1. q # p /\ ps[q] = proc[q]
    BY <1>2, <1>8
  <2>2. UnderWay(Ask(proc[q], rftab), proc[q].at)
    BY <1>8, <2>1 DEF RfInv
  <2>3. proc[q].op \in FileOps => proc[q].slot # 0
    <3>1. proc[q].at # "idle"
      BY <1>8, <2>1 DEF Busy
    <3>. QED
      BY <3>1 DEF RfInv, RfBase, InCall
  <2>4. Ask(proc[q], tab) = Ask(proc[q], rftab)
    BY <1>2, <2>1, <2>3, SameAsk DEF OthersKept
  <2>5. PICK a, at : a = Ask(proc[q], rftab) /\ at = proc[q].at
    OBVIOUS
  <2>6. UnderWay(a, at)'
    BY <2>2, <2>5 DEF UnderWay
  <2>. QED
    BY <2>1, <2>4, <2>5, <2>6
<1>. QED
  BY <1>1, <1>7, <1>8 DEF RfInv

(* rfalloc() finds the first entry that is free, when there is one. *)
LEMMA FirstFreeIsFree ==
  ASSUME \E i \in Slots : rftab[i].state = "RFREE"
  PROVE  FirstFree \in Slots /\ rftab[FirstFree].state = "RFREE"
<1>. DEFINE S == {i \in Slots : rftab[i].state = "RFREE"}
<1>1. Nrf \in Nat
  BY RfAssumption
<1>2. S \in SUBSET Nat /\ S # {}
  BY <1>1 DEF Slots
<1>3. PICK x \in S : \A y \in S : ~ (<<y, x>> \in OpToRel(<, Nat))
  <2>. HIDE DEF S
  <2>. QED
    BY <1>2, NatLessThanWellFounded, WFMin
<1>4. \A j \in 1..(x - 1) : rftab[j].state # "RFREE"
  <2>1. SUFFICES ASSUME NEW j \in 1..(x - 1), rftab[j].state = "RFREE"
                 PROVE  FALSE
    OBVIOUS
  <2>2. x \in Slots
    BY <1>3
  <2>3. x \in 1..Nrf /\ j \in Nat /\ x \in Nat /\ j < x
    BY <1>1, <2>2, <2>1 DEF Slots
  <2>4. j \in S
    BY <1>1, <2>1, <2>3 DEF Slots
  <2>5. <<j, x>> \notin OpToRel(<, Nat)
    BY <1>3, <2>4
  <2>. QED
    BY <2>3, <2>5 DEF OpToRel
<1>5. \E i \in Slots : rftab[i].state = "RFREE" /\ \A j \in 1..(i - 1) : rftab[j].state # "RFREE"
  BY <1>3, <1>4
<1>. QED
  BY <1>5 DEF FirstFree

(* What the types say of one process. *)
LEMMA PlaceFacts ==
  ASSUME RfInv, NEW p \in Procs
  PROVE  /\ proc[p] \in Places /\ proc[p].slot \in 0..Nrf /\ proc[p].op \in Ops
         /\ proc[p].name \in Names /\ proc[p].arg \in Words
         /\ proc[p].left \in Int /\ proc[p].trys \in Int
         /\ InCall(p, proc[p])
         /\ proc[p].slot # 0 => /\ proc[p].slot \in Slots
                                /\ rftab[proc[p].slot] \in Entries
                                /\ rftab[proc[p].slot].state = "RUSED"
         /\ rftab \in [Slots -> Entries] /\ proc \in [Procs -> Places]
<1>1. proc \in [Procs -> Places] /\ rftab \in [Slots -> Entries]
  BY DEF RfInv, RfBase, RfTypes
<1>2. proc[p] \in Places
  BY <1>1
<1>3. Nrf \in Nat
  BY RfAssumption
<1>4. proc[p].slot \in 0..Nrf
  BY <1>2 DEF Places
<1>5. proc[p].slot # 0 => proc[p].slot \in Slots
  BY <1>3, <1>4 DEF Slots
<1>6. proc[p].slot # 0 => rftab[proc[p].slot].state = "RUSED"
  BY DEF RfInv, RfBase, Owned
<1>7. InCall(p, proc[p])
  BY DEF RfInv, RfBase
<1>8. /\ proc[p].op \in Ops /\ proc[p].name \in Names /\ proc[p].arg \in Words
      /\ proc[p].left \in Int /\ proc[p].trys \in Int
  BY <1>2 DEF Places
<1>. QED
  BY <1>1, <1>2, <1>4, <1>5, <1>6, <1>7, <1>8

(* The device of a process is not the device of another. *)
LEMMA SlotsDiffer ==
  ASSUME RfInv, NEW p \in Procs, NEW q \in Procs, q # p, proc[q].slot # 0
  PROVE  proc[p].slot # proc[q].slot
BY DEF RfInv, RfBase, Owned

(* What an idle process is like. *)
LEMMA IdleType ==
  /\ Idle \in Places /\ NoPacket \in AnyPackets /\ Idle.slot = 0 /\ Idle.at = "idle"
  /\ NoPacket.f_name \in Names
<1>1. (CHOOSE n \in Names : TRUE) \in Names
  BY RfAssumption
<1>2. Nrf \in Nat
  BY RfAssumption
<1>3. "access" \in Ops /\ "close" \in Ops
  BY DEF Ops
<1>4. NoPacket \in AnyPackets /\ NoPacket.f_name \in Names
  BY <1>1, <1>3 DEF NoPacket, AnyPackets, Words
<1>5. Idle \in Places
  BY <1>2, <1>3, <1>4 DEF Idle, Places, Words
<1>. QED
  BY <1>4, <1>5 DEF Idle

(* rfopen() gets an entry that nobody has. *)
LEMMA RfopenStep ==
  ASSUME RfInv, NEW p \in Procs, NEW n \in Names, Rfopen(p, n)
  PROVE  RfInv'
<1>1. PICK f : f = FirstFree
  OBVIOUS
<1>2. f \in Slots /\ rftab[f].state = "RFREE"
  BY <1>1, FirstFreeIsFree DEF Rfopen, Rfalloc
<1>3. rftab \in [Slots -> Entries] /\ proc \in [Procs -> Places] /\ Nrf \in Nat
  BY RfAssumption DEF RfInv, RfBase, RfTypes
<1>4. PICK d : d = [Idle EXCEPT !.at = "fmutex", !.op = "open", !.slot = f, !.name = n]
  OBVIOUS
<1>5. PICK tab : tab = [rftab EXCEPT ![f].state = "RUSED", ![f].name = n, ![f].pos = 0]
  OBVIOUS
<1>6. /\ proc' = [proc EXCEPT ![p] = d] /\ rftab' = tab /\ proc[p].at = "idle"
      /\ UNCHANGED <<Rf, req, rep, files, inq>>
  BY <1>1, <1>4, <1>5 DEF Rfopen, Rfalloc
<1>7. d \in Places /\ d.at = "fmutex" /\ d.op = "open" /\ d.slot = f
  <2>1. f \in 0..Nrf /\ "open" \in Ops
    BY <1>2, <1>3 DEF Slots, Ops
  <2>. QED
    BY <1>4, <2>1, IdleType DEF Places, Idle
<1>8. /\ tab \in [Slots -> Entries] /\ tab[f].state = "RUSED"
      /\ \A i \in Slots : i # f => tab[i] = rftab[i]
  <2>1. rftab[f] \in Entries
    BY <1>2, <1>3
  <2>2. PICK e : e = [[[rftab[f] EXCEPT !.state = "RUSED"] EXCEPT !.name = n] EXCEPT !.pos = 0]
    OBVIOUS
  <2>3. e \in Entries /\ e.state = "RUSED"
    BY <2>1, <2>2 DEF Entries
  <2>4. tab = [rftab EXCEPT ![f] = e]
    BY <1>2, <1>3, <1>5, <2>2
  <2>. QED
    BY <1>2, <1>3, <2>3, <2>4
<1>9. ASSUME NEW q \in Procs, q # p, proc[q].slot # 0
      PROVE  /\ tab[proc[q].slot] = rftab[proc[q].slot] /\ d.slot # proc[q].slot
             /\ rftab[proc[q].slot].state = "RUSED"
  BY <1>2, <1>7, <1>8, <1>9, PlaceFacts
<1>10. InCall(p, d)
  <2>1. f # 0
    BY <1>2 DEF Slots
  <2>. QED
    BY <1>7, <2>1 DEF InCall, FileOps
<1>11. proc[p].at \notin Busy /\ d.at \notin Busy
  BY <1>6, <1>7 DEF Busy
<1>12. OthersKept(p, d, tab)
  BY <1>9 DEF OthersKept
<1>13. d.slot # 0 => tab[d.slot].state = "RUSED"
  BY <1>7, <1>8
<1>. QED
  BY <1>6, <1>7, <1>8, <1>10, <1>11, <1>12, <1>13, OutsideStep

(* The calls that only start something: rfread(), rfwrite(), rfclose() and  *)
(* rfcntl(), which leave the devices alone.                                 *)
LEMMA CallStep ==
  ASSUME RfInv, NEW p \in Procs, NEW d \in Places, proc[p].at \notin Busy, d.at \notin Busy,
         InCall(p, d), d.slot \in {0, proc[p].slot}, proc' = [proc EXCEPT ![p] = d],
         UNCHANGED <<rftab, Rf, inq, req, rep, files>>
  PROVE  RfInv'
<1>1. rftab \in [Slots -> Entries]
  BY PlaceFacts
<1>2. OthersKept(p, d, rftab)
  BY PlaceFacts, SlotsDiffer DEF OthersKept
<1>3. d.slot # 0 => rftab[d.slot].state = "RUSED"
  BY PlaceFacts
<1>. QED
  BY <1>1, <1>2, <1>3, OutsideStep

(* An operation on an open file begins. *)
LEMMA StartStep ==
  ASSUME RfInv, NEW p \in Procs, NEW op \in {"read", "write", "close"}, NEW arg \in Words,
         NEW left \in Int, op = "write" => arg = p, Start(p, op, arg, left)
  PROVE  RfInv'
<1>1. PICK d : d = [[[[proc[p] EXCEPT !.at = "fmutex"] EXCEPT !.op = op] EXCEPT !.arg = arg]
                      EXCEPT !.left = left]
  OBVIOUS
<1>2. proc[p] \in Places /\ proc \in [Procs -> Places]
  BY PlaceFacts
<1>3. op \in Ops /\ op \in FileOps
  BY DEF Ops, FileOps
<1>4. /\ d \in Places /\ d.at = "fmutex" /\ d.op = op /\ d.slot = proc[p].slot /\ d.arg = arg
  BY <1>1, <1>2, <1>3 DEF Places
<1>5. /\ proc' = [proc EXCEPT ![p] = d] /\ proc[p].at = "idle" /\ proc[p].slot # 0
      /\ UNCHANGED <<rftab, Rf, inq, req, rep, files>>
  BY <1>1, <1>2 DEF Start
<1>6. InCall(p, d)
  BY <1>3, <1>4, <1>5 DEF InCall
<1>7. proc[p].at \notin Busy /\ d.at \notin Busy
  BY <1>4, <1>5 DEF Busy
<1>. QED
  BY <1>4, <1>5, <1>6, <1>7, CallStep

(* An operation on a name begins. *)
LEMMA RfcntlStep ==
  ASSUME RfInv, NEW p \in Procs, NEW op \in {"access", "unlink", "rename"}, NEW n \in Names,
         NEW arg \in Words, Rfcntl(p, op, n, arg)
  PROVE  RfInv'
<1>1. PICK e : e = [[proc[p] EXCEPT !.at = "rmutex"] EXCEPT !.op = op]
  OBVIOUS
<1>2. PICK g : g = [[e EXCEPT !.name = n] EXCEPT !.arg = arg]
  OBVIOUS
<1>3. PICK d : d = [g EXCEPT !.left = 1]
  OBVIOUS
<1>4. proc[p] \in Places /\ proc \in [Procs -> Places]
  BY PlaceFacts
<1>5. op \in Ops /\ op \notin FileOps
  BY DEF Ops, FileOps
<1>6. e \in Places /\ e.at = "rmutex" /\ e.op = op /\ e.slot = proc[p].slot
  BY <1>1, <1>4, <1>5 DEF Places
<1>7. /\ d \in Places /\ d.at = "rmutex" /\ d.op = op /\ d.slot = proc[p].slot
  <2>1. g \in Places /\ g.at = "rmutex" /\ g.op = op /\ g.slot = proc[p].slot
    BY <1>2, <1>6 DEF Places
  <2>. QED
    BY <1>3, <2>1 DEF Places
<1>8. /\ proc' = [proc EXCEPT ![p] = d] /\ proc[p].at = "idle"
      /\ UNCHANGED <<rftab, Rf, inq, req, rep, files>>
  BY <1>1, <1>3, <1>2, <1>4 DEF Rfcntl
<1>9. InCall(p, d)
  BY <1>5, <1>7 DEF InCall, FileOps
<1>10. proc[p].at \notin Busy /\ d.at \notin Busy
  BY <1>7, <1>8 DEF Busy
<1>. QED
  BY <1>7, <1>8, <1>9, <1>10, CallStep

(* rfseek() moves the position of a file of its own. *)
LEMMA RfseekStep ==
  ASSUME RfInv, NEW p \in Procs, NEW pos \in Nat, Rfseek(p, pos)
  PROVE  RfInv'
<1>1. PICK i, d : i = proc[p].slot /\ d = proc[p]
  OBVIOUS
<1>2. /\ proc[p] \in Places /\ i \in Slots /\ rftab[i] \in Entries /\ rftab[i].state = "RUSED"
      /\ rftab \in [Slots -> Entries] /\ proc \in [Procs -> Places] /\ InCall(p, d)
  BY <1>1, PlaceFacts DEF Rfseek
<1>3. PICK e : e = [rftab[i] EXCEPT !.pos = pos]
  OBVIOUS
<1>4. PICK tab : tab = [rftab EXCEPT ![i] = e]
  OBVIOUS
<1>5. e \in Entries /\ e.state = "RUSED"
  BY <1>2, <1>3 DEF Entries
<1>6. tab \in [Slots -> Entries] /\ tab[i] = e /\ \A j \in Slots : j # i => tab[j] = rftab[j]
  BY <1>2, <1>4, <1>5
<1>7. /\ rftab' = tab /\ proc' = [proc EXCEPT ![p] = d] /\ proc[p].at = "idle"
      /\ UNCHANGED <<Rf, inq, req, rep, files>>
  BY <1>1, <1>2, <1>3, <1>4 DEF Rfseek
<1>8. OthersKept(p, d, tab)
  BY <1>1, <1>6, PlaceFacts, SlotsDiffer DEF OthersKept
<1>9. proc[p].at \notin Busy /\ d.at \notin Busy /\ d \in Places /\ d.slot # 0 => tab[d.slot].state = "RUSED"
  BY <1>1, <1>2, <1>5, <1>6, <1>7 DEF Busy
<1>10. proc[p].at \notin Busy /\ d.at \notin Busy
  BY <1>1, <1>7 DEF Busy
<1>. QED
  BY <1>1, <1>2, <1>6, <1>7, <1>8, <1>9, <1>10, OutsideStep

(* rfcntl(RFCLEAR) takes away what may be a good answer, and adds none. *)
LEMMA RfclearStep ==
  ASSUME RfInv, NEW p \in Procs, Rfclear(p)
  PROVE  RfInv'
<1>1. PICK d : d = proc[p]
  OBVIOUS
<1>2. /\ d \in Places /\ rftab \in [Slots -> Entries] /\ proc \in [Procs -> Places] /\ InCall(p, d)
      /\ d.slot # 0 => rftab[d.slot].state = "RUSED"
  BY <1>1, PlaceFacts
<1>3. /\ proc' = [proc EXCEPT ![p] = d] /\ rftab' = rftab /\ proc[p].at = "idle"
      /\ UNCHANGED <<Rf, req, rep, files>> /\ inq' = <<>>
  BY <1>1, <1>2 DEF Rfclear
<1>4. OthersKept(p, d, rftab)
  BY <1>1, PlaceFacts, SlotsDiffer DEF OthersKept
<1>5. proc[p].at \notin Busy /\ d.at \notin Busy
  BY <1>1, <1>3 DEF Busy
<1>. QED
  BY <1>2, <1>3, <1>4, <1>5, OutsideStep

(* A read of a negative length leaves everything as it was. *)
LEMMA BadLengthStep ==
  ASSUME RfInv, NEW p \in Procs, BadLength(p)
  PROVE  RfInv'
<1>1. PICK d : d = [Idle EXCEPT !.slot = proc[p].slot]
  OBVIOUS
<1>2. proc[p].at = "fmutex" /\ proc[p].slot \in 0..Nrf
  BY PlaceFacts DEF BadLength, Places
<1>3. d \in Places /\ d.at = "idle" /\ d.slot = proc[p].slot
  BY <1>1, <1>2, IdleType DEF Idle, Places
<1>4. InCall(p, d)
  BY <1>3 DEF InCall
<1>5. proc[p].at \notin Busy /\ d.at \notin Busy
  BY <1>2, <1>3 DEF Busy
<1>6. proc' = [proc EXCEPT ![p] = d] /\ UNCHANGED <<rftab, Rf, inq, req, rep, files>>
  BY <1>1 DEF BadLength
<1>. QED
  BY <1>3, <1>4, <1>5, <1>6, CallStep

(* A process that gets rf_mutex has its device still. *)
LEMMA FileLockStep ==
  ASSUME RfInv, NEW p \in Procs, FileLock(p)
  PROVE  RfInv'
<1>1. PICK i, d : i = proc[p].slot /\ d = [proc[p] EXCEPT !.at = "rmutex"]
  OBVIOUS
<1>2. proc[p].at = "fmutex" /\ proc[p].op \in FileOps /\ proc[p].slot # 0 /\ InCall(p, proc[p])
  BY PlaceFacts DEF FileLock, InCall
<1>3. /\ proc[p] \in Places /\ i \in Slots /\ rftab[i] \in Entries /\ rftab[i].state = "RUSED"
      /\ rftab \in [Slots -> Entries] /\ proc \in [Procs -> Places]
  BY <1>1, <1>2, PlaceFacts
<1>4. PICK e : e = [rftab[i] EXCEPT !.mutex = p]
  OBVIOUS
<1>5. PICK tab : tab = [rftab EXCEPT ![i] = e]
  OBVIOUS
<1>6. e \in Entries /\ e.state = "RUSED" /\ e.name = rftab[i].name /\ e.pos = rftab[i].pos
  BY <1>3, <1>4 DEF Entries
<1>7. tab \in [Slots -> Entries] /\ tab[i] = e /\ \A j \in Slots : j # i => tab[j] = rftab[j]
  BY <1>3, <1>5, <1>6
<1>8. /\ d \in Places /\ d.at = "rmutex" /\ d.slot = i /\ d.op = proc[p].op /\ d.arg = proc[p].arg
  BY <1>1, <1>3 DEF Places
<1>9. rftab' = tab /\ proc' = [proc EXCEPT ![p] = d] /\ UNCHANGED <<Rf, inq, req, rep, files>>
  <2>1. ~(proc[p].op # "close" /\ rftab[proc[p].slot].state = "RFREE")
    BY <1>1, <1>3
  <2>. QED
    BY <1>1, <1>3, <1>4, <1>5, <2>1 DEF FileLock
<1>10. InCall(p, d)
  BY <1>1, <1>2, <1>8, OpsAre DEF InCall
<1>11. OthersKept(p, d, tab)
  BY <1>1, <1>7, <1>8, PlaceFacts, SlotsDiffer DEF OthersKept
<1>12. proc[p].at \notin Busy /\ d.at \notin Busy /\ tab[d.slot].state = "RUSED"
  BY <1>2, <1>6, <1>7, <1>8 DEF Busy
<1>. QED
  BY <1>7, <1>8, <1>9, <1>10, <1>11, <1>12, OutsideStep

(* An open that failed frees the entry that it has. *)
LEMMA OpenFailedStep ==
  ASSUME RfInv, NEW p \in Procs, OpenFailed(p)
  PROVE  RfInv'
<1>1. PICK i, d : i = proc[p].slot /\ d = Idle
  OBVIOUS
<1>2. proc[p].at = "failed" /\ proc[p].slot # 0
  BY PlaceFacts DEF OpenFailed, InCall
<1>3. /\ i \in Slots /\ rftab[i] \in Entries
      /\ rftab \in [Slots -> Entries] /\ proc \in [Procs -> Places]
  BY <1>1, <1>2, PlaceFacts
<1>4. PICK e : e = [rftab[i] EXCEPT !.state = "RFREE"]
  OBVIOUS
<1>5. PICK tab : tab = [rftab EXCEPT ![i] = e]
  OBVIOUS
<1>6. e \in Entries
  BY <1>3, <1>4 DEF Entries
<1>7. tab \in [Slots -> Entries] /\ \A j \in Slots : j # i => tab[j] = rftab[j]
  BY <1>3, <1>5, <1>6
<1>8. rftab' = tab /\ proc' = [proc EXCEPT ![p] = d] /\ UNCHANGED <<Rf, inq, req, rep, files>>
  BY <1>1, <1>3, <1>4, <1>5 DEF OpenFailed
<1>9. d \in Places /\ d.at = "idle" /\ d.slot = 0
  BY <1>1, IdleType
<1>10. InCall(p, d)
  BY <1>9 DEF InCall
<1>11. OthersKept(p, d, tab)
  BY <1>1, <1>7, <1>9, PlaceFacts, SlotsDiffer DEF OthersKept
<1>12. proc[p].at \notin Busy /\ d.at \notin Busy
  BY <1>2, <1>9 DEF Busy
<1>. QED
  BY <1>7, <1>8, <1>9, <1>10, <1>11, <1>12, OutsideStep

(* A step of p in or out of the exchange keeps the part of the invariant    *)
(* that is not about the messages.                                          *)
LEMMA BaseStep ==
  ASSUME RfInv, NEW p \in Procs, NEW d \in Places, NEW tab \in [Slots -> Entries], InCall(p, d),
         proc' = [proc EXCEPT ![p] = d], rftab' = tab, OthersKept(p, d, tab),
         d.slot # 0 => tab[d.slot].state = "RUSED",
         Rf' \in [device : {"RCLOSED", "open"}, rmutex : Procs \cup {NONE}, packet : AnyPackets],
         d.at \in Busy <=> Rf'.rmutex = p,
         \A q \in Procs : q # p => (proc[q].at \in Busy <=> Rf'.rmutex = q),
         inq' \in Seq(AnyPackets), req' \subseteq AnyPackets, rep' \subseteq AnyPackets,
         UNCHANGED files
  PROVE  RfBase'
<1>1. PICK ps, rf : ps = proc' /\ rf = Rf'
  OBVIOUS
<1>2. /\ proc \in [Procs -> Places]
      /\ ps \in [Procs -> Places] /\ ps[p] = d /\ \A q \in Procs : q # p => ps[q] = proc[q]
  BY <1>1 DEF RfInv, RfBase, RfTypes
<1>3. RfTypes'
  <2>1. RfTypes
    BY DEF RfInv, RfBase
  <2>2. rftab' \in [Slots -> Entries] /\ proc' \in [Procs -> Places]
    BY <1>1, <1>2
  <2>. QED
    BY <2>1, <2>2 DEF RfTypes
<1>4. Owned(tab, ps)
  <2>1. \A q \in Procs : proc[q].slot # 0 => \A r \in Procs : proc[r].slot = proc[q].slot => r = q
    BY DEF RfInv, RfBase, Owned
  <2>. QED
    BY <1>2, <2>1 DEF Owned, OthersKept
<1>5. \A q \in Procs : InCall(q, ps[q])
  BY <1>2 DEF RfInv, RfBase
<1>6. \A q \in Procs : ps[q].at \in Busy <=> rf.rmutex = q
  <2>1. \A q \in Procs : q # p => (proc[q].at \in Busy <=> rf.rmutex = q)
    BY <1>1
  <2>2. d.at \in Busy <=> rf.rmutex = p
    BY <1>1
  <2>. QED
    BY <1>2, <2>1, <2>2
<1>. QED
  BY <1>1, <1>3, <1>4, <1>5, <1>6 DEF RfBase

(* A process that goes on elsewhere in its call.                            *)
LEMMA PlaceWith ==
  ASSUME NEW c \in Places, NEW d, NEW at \in {"fmutex", "failed"}, NEW l \in Int,
         d = [[[c EXCEPT !.at = at] EXCEPT !.left = l] EXCEPT !.trys = 0]
  PROVE  d \in Places /\ d.at = at /\ d.slot = c.slot /\ d.op = c.op /\ d.arg = c.arg
<1>1. PICK e : e = [[c EXCEPT !.at = at] EXCEPT !.left = l]
  OBVIOUS
<1>2. e \in Places /\ e.at = at /\ e.slot = c.slot /\ e.op = c.op /\ e.arg = c.arg
  BY <1>1 DEF Places
<1>3. d = [e EXCEPT !.trys = 0]
  BY <1>1
<1>. QED
  BY <1>2, <1>3 DEF Places

(* What a process that leaves the exchange is like afterwards, and its      *)
(* device.                                                                  *)
LEMMA LeaveIs ==
  ASSUME RfInv, NEW p \in Procs, NEW ok, NEW pos, Leave(p, ok, pos), proc[p].at # "idle",
         proc[p].op \in FileOps => pos \in Nat
  PROVE  \E d \in Places, tab \in [Slots -> Entries] :
            /\ proc' = [proc EXCEPT ![p] = d] /\ rftab' = tab
            /\ InCall(p, d) /\ d.at \notin Busy /\ OthersKept(p, d, tab)
            /\ d.slot # 0 => tab[d.slot].state = "RUSED"
<1>1. PICK c, i : c = proc[p] /\ i = proc[p].slot
  OBVIOUS
<1>2. /\ c \in Places /\ rftab \in [Slots -> Entries] /\ proc \in [Procs -> Places]
      /\ InCall(p, c) /\ c.at # "idle" /\ c.slot = i /\ c.slot \in 0..Nrf /\ c.left \in Int
      /\ i # 0 => i \in Slots /\ rftab[i] \in Entries /\ rftab[i].state = "RUSED"
  BY <1>1, PlaceFacts
<1>3. OnFile(p) <=> c.op \in FileOps
  BY <1>1 DEF OnFile, FileOps
<1>4. PICK st : st = IF c.op = "close" THEN "RFREE" ELSE rftab[i].state
  OBVIOUS
<1>5. PICK d : d = CASE c.op = "open" /\ ~ok -> [c EXCEPT !.at = "failed", !.trys = 0]
                     [] c.op = "write" /\ ok /\ c.left > 1 ->
                          [c EXCEPT !.at = "fmutex", !.left = @ - 1, !.trys = 0]
                     [] OTHER -> [Idle EXCEPT !.slot = IF c.op = "close" THEN 0 ELSE i]
  OBVIOUS
<1>6. PICK tab : tab = IF c.op \in FileOps
                       THEN [rftab EXCEPT ![i].mutex = NONE, ![i].state = st, ![i].pos = pos]
                       ELSE rftab
  OBVIOUS
<1>7. proc' = [proc EXCEPT ![p] = d] /\ rftab' = tab
  BY <1>1, <1>3, <1>4, <1>5, <1>6 DEF Leave
<1>8. /\ d \in Places /\ d.at \notin Busy
      /\ d.slot = (IF c.op = "close" THEN 0 ELSE i)
      /\ InCall(p, d)
  <2>1. CASE c.op = "open" /\ ~ok
    <3>1. PICK l \in Int : l = c.left
      BY <1>2
    <3>2. d = [[[c EXCEPT !.at = "failed"] EXCEPT !.left = l] EXCEPT !.trys = 0]
      <4>1. d = [[c EXCEPT !.at = "failed"] EXCEPT !.trys = 0]
        BY <1>5, <2>1
      <4>2. c = [c EXCEPT !.left = l]
        BY <1>2, <3>1 DEF Places
      <4>. QED
        BY <1>2, <4>1, <4>2 DEF Places
    <3>3. d \in Places /\ d.at = "failed" /\ d.slot = i /\ d.op = "open"
      <4>1. c \in Places /\ c.slot = i /\ c.op = "open"
        BY <1>2, <2>1
      <4>2. d \in Places /\ d.at = "failed" /\ d.slot = c.slot /\ d.op = c.op /\ d.arg = c.arg
        BY <3>2, <4>1, PlaceWith
      <4>. QED
        BY <4>1, <4>2
    <3>4. i # 0
      BY <1>2, <2>1, OpsAre DEF InCall
    <3>. QED
      BY <2>1, <3>3, <3>4, OpsAre DEF InCall, Busy
  <2>2. CASE c.op = "write" /\ ok /\ c.left > 1
    <3>1. PICK l \in Int : l = c.left - 1
      BY <1>2
    <3>2. d = [[[c EXCEPT !.at = "fmutex"] EXCEPT !.left = l] EXCEPT !.trys = 0]
      BY <1>5, <2>2, <3>1
    <3>3. d \in Places /\ d.at = "fmutex" /\ d.slot = i /\ d.op = "write" /\ d.arg = c.arg
      <4>1. c \in Places /\ c.slot = i /\ c.op = "write"
        BY <1>2, <2>2
      <4>2. d \in Places /\ d.at = "fmutex" /\ d.slot = c.slot /\ d.op = c.op /\ d.arg = c.arg
        BY <3>2, <4>1, PlaceWith
      <4>. QED
        BY <4>1, <4>2
    <3>4. i # 0 /\ c.arg = p
      BY <1>2, <2>2, OpsAre DEF InCall
    <3>. QED
      BY <2>2, <3>3, <3>4, OpsAre DEF InCall, Busy
  <2>3. CASE ~(c.op = "open" /\ ~ok) /\ ~(c.op = "write" /\ ok /\ c.left > 1)
    <3>1. PICK k : k = IF c.op = "close" THEN 0 ELSE i
      OBVIOUS
    <3>2. d = [Idle EXCEPT !.slot = k]
      BY <1>5, <2>3, <3>1
    <3>3. k \in 0..Nrf
      <4>1. Nrf \in Nat
        BY RfAssumption
      <4>. QED
        BY <1>2, <3>1, <4>1
    <3>4. d \in Places /\ d.at = "idle" /\ d.slot = k
      BY <3>2, <3>3, IdleType DEF Places
    <3>. QED
      BY <3>1, <3>4 DEF InCall, Busy
  <2>. QED
    BY <2>1, <2>2, <2>3
<1>9. /\ tab \in [Slots -> Entries] /\ \A j \in Slots : j # i => tab[j] = rftab[j]
      /\ i # 0 /\ c.op # "close" => tab[i].state = "RUSED"
  <2>1. CASE c.op \notin FileOps
    BY <1>2, <1>6, <2>1
  <2>2. CASE c.op \in FileOps
    <3>1. i # 0
      BY <1>2, <2>2 DEF InCall
    <3>2. PICK e : e = [[[rftab[i] EXCEPT !.mutex = NONE] EXCEPT !.state = st] EXCEPT !.pos = pos]
      OBVIOUS
    <3>3. st \in {"RFREE", "RUSED"} /\ (c.op # "close" => st = "RUSED")
      BY <1>2, <1>4, <3>1
    <3>4. e \in Entries /\ e.state = st
      BY <1>1, <1>2, <2>2, <3>1, <3>2, <3>3 DEF Entries
    <3>5. tab = [rftab EXCEPT ![i] = e]
      BY <1>2, <1>6, <2>2, <3>1, <3>2
    <3>. QED
      BY <1>2, <3>1, <3>3, <3>4, <3>5
  <2>. QED
    BY <2>1, <2>2
<1>10. OthersKept(p, d, tab)
  <2>1. ASSUME NEW q \in Procs, q # p, proc[q].slot # 0
        PROVE  /\ tab[proc[q].slot] = rftab[proc[q].slot] /\ d.slot # proc[q].slot
               /\ rftab[proc[q].slot].state = "RUSED"
    <3>1. proc[q].slot # i /\ proc[q].slot \in Slots /\ rftab[proc[q].slot].state = "RUSED"
      BY <1>1, <2>1, PlaceFacts, SlotsDiffer
    <3>. QED
      BY <1>8, <1>9, <2>1, <3>1
  <2>. QED
    BY <2>1 DEF OthersKept
<1>11. d.slot # 0 => tab[d.slot].state = "RUSED"
  BY <1>8, <1>9
<1>. QED
  BY <1>7, <1>8, <1>9, <1>10, <1>11

(* After a process has left the exchange nobody has Rf.rmutex.              *)
LEMMA LeaveStep ==
  ASSUME RfInv, NEW p \in Procs, NEW ok, NEW pos, Leave(p, ok, pos),
         proc[p].op \in FileOps => pos \in Nat,
         proc[p].at \in Busy \/ (proc[p].at = "rmutex" /\ Rf.rmutex = NONE),
         Rf' = [Rf EXCEPT !.rmutex = NONE, !.packet = NoPacket],
         UNCHANGED <<inq, req, rep, files>>
  PROVE  RfInv'
<1>1. proc[p].at # "idle"
  BY DEF Busy
<1>2. PICK d \in Places, tab \in [Slots -> Entries] :
            /\ proc' = [proc EXCEPT ![p] = d] /\ rftab' = tab
            /\ InCall(p, d) /\ d.at \notin Busy /\ OthersKept(p, d, tab)
            /\ d.slot # 0 => tab[d.slot].state = "RUSED"
  BY <1>1, LeaveIs
<1>3. RfTypes
  BY DEF RfInv, RfBase
<1>4. /\ Rf' \in [device : {"RCLOSED", "open"}, rmutex : Procs \cup {NONE}, packet : AnyPackets]
      /\ Rf'.rmutex = NONE
  <2>1. NoPacket \in AnyPackets
    BY IdleType
  <2>. QED
    BY <1>3, <2>1 DEF RfTypes
<1>5. NONE \notin Procs
  BY RfAssumption DEF NONE
<1>6. \A q \in Procs : q # p => proc[q].at \notin Busy
  BY <1>5 DEF RfInv, RfBase
<1>7. inq' \in Seq(AnyPackets) /\ req' \subseteq AnyPackets /\ rep' \subseteq AnyPackets
  BY <1>3 DEF RfTypes
<1>8. RfBase'
  <2>1. d.at \in Busy <=> Rf'.rmutex = p
    BY <1>2, <1>4, <1>5
  <2>2. \A q \in Procs : q # p => (proc[q].at \in Busy <=> Rf'.rmutex = q)
    BY <1>4, <1>5, <1>6
  <2>. QED
    BY <1>2, <1>4, <1>7, <2>1, <2>2, BaseStep
<1>9. \A q \in Procs : proc'[q].at \notin Busy
  BY <1>4, <1>5, <1>8 DEF RfBase
<1>. QED
  BY <1>8, <1>9 DEF RfInv

(* The position of a file that a process works on is a number.              *)
LEMMA PosIsNat ==
  ASSUME RfInv, NEW p \in Procs, proc[p].at # "idle", proc[p].op \in FileOps
  PROVE  Pos(p) \in Nat
<1>1. proc[p].slot # 0
  BY PlaceFacts DEF InCall
<1>2. rftab[proc[p].slot] \in Entries
  BY <1>1, PlaceFacts
<1>. QED
  BY <1>2 DEF Pos, Entries

(* A request that cannot be sent ends the exchange.                         *)
LEMMA SendFailsStep ==
  ASSUME RfInv, NEW p \in Procs, SendFails(p)
  PROVE  RfInv'
<1>1. proc[p].at # "idle"
  BY DEF SendFails
<1>2. proc[p].op \in FileOps => Pos(p) \in Nat
  BY <1>1, PosIsNat
<1>3. proc[p].at \in Busy \/ (proc[p].at = "rmutex" /\ Rf.rmutex = NONE)
  BY DEF SendFails, Busy
<1>4. /\ Leave(p, FALSE, Pos(p)) /\ Rf' = [Rf EXCEPT !.rmutex = NONE, !.packet = NoPacket]
      /\ UNCHANGED <<inq, req, rep, files>>
  BY DEF SendFails
<1>. QED
  BY <1>2, <1>3, <1>4, LeaveStep

(* A name that is too long ends the exchange before it begins. *)
LEMMA TooLongStep ==
  ASSUME RfInv, NEW p \in Procs, TooLong(p)
  PROVE  RfInv'
<1>1. /\ proc[p].at = "rmutex" /\ Rf.rmutex = NONE /\ proc[p].op \notin FileOps
      /\ Leave(p, FALSE, 0) /\ UNCHANGED <<inq, req, rep, files>>
  BY DEF TooLong, FileOps
<1>2. Rf' = [Rf EXCEPT !.rmutex = NONE, !.packet = NoPacket]
  BY <1>1 DEF TooLong, RfInv, RfBase, RfTypes
<1>. QED
  BY <1>1, <1>2, LeaveStep

(* The last try ends the exchange.                                          *)
LEMMA LastTryStep ==
  ASSUME RfInv, NEW p \in Procs, proc[p].at = "read",
         Leave(p, FALSE, Pos(p)), Rf' = [Rf EXCEPT !.rmutex = NONE, !.packet = NoPacket],
         UNCHANGED <<inq, req, rep, files>>
  PROVE  RfInv'
<1>1. proc[p].op \in FileOps => Pos(p) \in Nat
  BY PosIsNat
<1>2. proc[p].at \in Busy \/ (proc[p].at = "rmutex" /\ Rf.rmutex = NONE)
  BY DEF Busy
<1>. QED
  BY <1>1, <1>2, LeaveStep

(* An answer that has been used ends the exchange.                          *)
LEMMA ReplyStep ==
  ASSUME RfInv, NEW p \in Procs, Reply(p)
  PROVE  RfInv'
<1>1. proc[p].at = "reply"
  BY DEF Reply
<1>2. Rf.packet \in AnyPackets
  BY DEF RfInv, RfBase, RfTypes
<1>3. PICK pos : pos = IF Rf.packet.f_op # "ERROR" /\ proc[p].op \in {"read", "write"}
                       THEN Rf.packet.f_pos ELSE Pos(p)
  OBVIOUS
<1>4. proc[p].op \in FileOps => pos \in Nat
  BY <1>1, <1>2, <1>3, PosIsNat DEF AnyPackets
<1>5. Leave(p, Rf.packet.f_op # "ERROR", pos)
  BY <1>3 DEF Reply
<1>6. proc[p].at \in Busy \/ (proc[p].at = "rmutex" /\ Rf.rmutex = NONE)
  BY <1>1 DEF Busy
<1>7. /\ Rf' = [Rf EXCEPT !.rmutex = NONE, !.packet = NoPacket]
      /\ UNCHANGED <<inq, req, rep, files>>
  BY DEF Reply
<1>. QED
  BY <1>4, <1>5, <1>6, <1>7, LeaveStep

(* A step of the one that has Rf.rmutex, in which it keeps it and its       *)
(* device.                                                                  *)
LEMMA BusyStep ==
  ASSUME RfInv, NEW p \in Procs, NEW d \in Places,
         proc[p].at \in Busy \/ (proc[p].at = "rmutex" /\ Rf.rmutex = NONE),
         d.at \in Busy, d.op = proc[p].op, d.arg = proc[p].arg, d.name = proc[p].name,
         d.slot = proc[p].slot, proc' = [proc EXCEPT ![p] = d], UNCHANGED <<rftab, files>>,
         Rf' \in [device : {"RCLOSED", "open"}, rmutex : {p}, packet : AnyPackets],
         inq' \in Seq(AnyPackets), req' \subseteq AnyPackets, rep' \subseteq AnyPackets,
         NEW a, a = Ask(proc[p], rftab), ~Late => UnderWay(a, d.at)'
  PROVE  RfInv'
<1>1. NONE \notin Procs
  BY RfAssumption DEF NONE
<1>2. \A q \in Procs : q # p => proc[q].at \notin Busy
  BY <1>1 DEF RfInv, RfBase
<1>3. proc[p].at # "idle" /\ proc[p] \in Places /\ proc \in [Procs -> Places]
  BY PlaceFacts DEF Busy
<1>4. InCall(p, d)
  BY <1>3, PlaceFacts DEF InCall, Busy
<1>5. OthersKept(p, d, rftab)
  BY PlaceFacts, SlotsDiffer DEF OthersKept
<1>6. d.slot # 0 => rftab[d.slot].state = "RUSED"
  BY PlaceFacts
<1>7. /\ Rf' \in [device : {"RCLOSED", "open"}, rmutex : Procs \cup {NONE}, packet : AnyPackets]
      /\ Rf'.rmutex = p
  OBVIOUS
<1>8. rftab \in [Slots -> Entries]
  BY PlaceFacts
<1>9. RfBase'
  <2>1. d.at \in Busy <=> Rf'.rmutex = p
    BY <1>7
  <2>2. \A q \in Procs : q # p => (proc[q].at \in Busy <=> Rf'.rmutex = q)
    BY <1>2, <1>7
  <2>3. rftab' = rftab /\ UNCHANGED files
    OBVIOUS
  <2>. QED
    BY <1>4, <1>5, <1>6, <1>7, <1>8, <2>1, <2>2, <2>3, BaseStep
<1>10. Ask(d, rftab) = a
  BY DEF Ask
<1>11. ASSUME ~Late, NEW q \in Procs, proc'[q].at \in Busy
       PROVE  UnderWay(Ask(proc[q], rftab), proc[q].at)'
  <2>1. q = p
    BY <1>2, <1>3, <1>11
  <2>2. proc'[q] = d
    BY <1>3, <2>1
  <2>3. UnderWay(a, d.at)'
    BY <1>11
  <2>4. Ask(proc'[q], rftab') = a
    BY <1>10, <2>2
  <2>. QED
    BY <2>2, <2>3, <2>4
<1>. QED
  BY <1>9, <1>11 DEF RfInv

(* A process that stays in the exchange is at another place of it.          *)
LEMMA PlaceIn ==
  ASSUME NEW c \in Places, NEW at \in Busy, NEW d, d = [c EXCEPT !.at = at]
  PROVE  /\ d \in Places /\ d.at = at /\ d.slot = c.slot /\ d.op = c.op /\ d.arg = c.arg
         /\ d.name = c.name
BY DEF Places, Busy

(* What a busy process asks for is a packet.                                *)
LEMMA AskOfBusy ==
  ASSUME RfInv, NEW p \in Procs, proc[p].at # "idle"
  PROVE  Ask(proc[p], rftab) \in AnyPackets
<1>1. proc[p].op \in FileOps => proc[p].slot # 0
  BY PlaceFacts DEF InCall
<1>. QED
  BY <1>1, PlaceFacts, AskType

(* The one that has Rf.rmutex, and the types of what is sent.               *)
LEMMA BusyFacts ==
  ASSUME RfInv, NEW p \in Procs, proc[p].at \in Busy
  PROVE  /\ Rf \in [device : {"RCLOSED", "open"}, rmutex : {p}, packet : AnyPackets]
         /\ inq \in Seq(AnyPackets) /\ req \subseteq AnyPackets /\ rep \subseteq AnyPackets
         /\ ~Late => UnderWay(Ask(proc[p], rftab), proc[p].at)
         /\ proc[p] \in Places /\ proc \in [Procs -> Places]
<1>1. Rf.rmutex = p
  BY DEF RfInv, RfBase
<1>2. RfTypes
  BY DEF RfInv, RfBase
<1>3. Rf \in [device : {"RCLOSED", "open"}, rmutex : {p}, packet : AnyPackets]
  BY <1>1, <1>2 DEF RfTypes
<1>4. ~Late => UnderWay(Ask(proc[p], rftab), proc[p].at)
  BY DEF RfInv
<1>. QED
  BY <1>2, <1>3, <1>4, PlaceFacts DEF RfTypes

(* A request is sent. *)
LEMMA SendStep ==
  ASSUME RfInv, NEW p \in Procs, Send(p)
  PROVE  RfInv'
<1>1. proc[p].at = "send" /\ proc[p].at \in Busy /\ "read" \in Busy
  BY DEF Send, Busy
<1>2. PICK a, d : a = Ask(proc[p], rftab) /\ d = [proc[p] EXCEPT !.at = "read"]
  OBVIOUS
<1>3. proc[p] \in Places /\ proc \in [Procs -> Places]
  BY PlaceFacts
<1>4. /\ d \in Places /\ d.at = "read" /\ d.slot = proc[p].slot /\ d.op = proc[p].op
      /\ d.arg = proc[p].arg /\ d.name = proc[p].name
  BY <1>1, <1>2, <1>3, PlaceIn
<1>5. proc' = [proc EXCEPT ![p] = d]
  BY <1>2, <1>3 DEF Send
<1>6. req' = req \cup {Rf.packet} /\ UNCHANGED <<rftab, Rf, inq, rep, files>>
  BY DEF Send
<1>7. ~Late => UnderWay(a, d.at)'
  <2>1. ~Late => UnderWay(a, "send")
    BY <1>1, <1>2, BusyFacts
  <2>. QED
    BY <1>4, <1>6, <2>1 DEF UnderWay
<1>8. Rf' \in [device : {"RCLOSED", "open"}, rmutex : {p}, packet : AnyPackets]
  BY <1>1, <1>6, BusyFacts
<1>9. inq' \in Seq(AnyPackets) /\ req' \subseteq AnyPackets /\ rep' \subseteq AnyPackets
  BY <1>1, <1>6, BusyFacts
<1>. QED
  BY <1>1, <1>2, <1>4, <1>5, <1>6, <1>7, <1>8, <1>9, BusyStep

(* A request is sent again. *)
LEMMA RetryStep ==
  ASSUME RfInv, NEW p \in Procs, proc[p].at = "read",
         proc' = [proc EXCEPT ![p].trys = @ + 1, ![p].at = "send"],
         UNCHANGED <<rftab, Rf, inq, req, rep, files>>
  PROVE  RfInv'
<1>1. proc[p].at \in Busy /\ "send" \in Busy
  BY DEF Busy
<1>2. proc[p] \in Places /\ proc \in [Procs -> Places] /\ proc[p].trys \in Int
  BY PlaceFacts
<1>3. PICK t \in Int : t = proc[p].trys + 1
  BY <1>2
<1>4. PICK a, c, d : /\ a = Ask(proc[p], rftab) /\ c = [proc[p] EXCEPT !.trys = t]
                     /\ d = [c EXCEPT !.at = "send"]
  OBVIOUS
<1>5. /\ c \in Places /\ c.slot = proc[p].slot /\ c.op = proc[p].op
      /\ c.arg = proc[p].arg /\ c.name = proc[p].name
  BY <1>2, <1>4 DEF Places
<1>6. /\ d \in Places /\ d.at = "send" /\ d.slot = proc[p].slot /\ d.op = proc[p].op
      /\ d.arg = proc[p].arg /\ d.name = proc[p].name
  <2>1. c \in Places /\ d = [c EXCEPT !.at = "send"]
    BY <1>4, <1>5
  <2>2. d \in Places /\ d.at = "send" /\ d.slot = c.slot /\ d.op = c.op /\ d.arg = c.arg /\ d.name = c.name
    BY <1>1, <2>1, PlaceIn
  <2>. QED
    BY <1>5, <2>2
<1>7. proc' = [proc EXCEPT ![p] = d]
  BY <1>2, <1>3, <1>4
<1>8. ~Late => UnderWay(a, d.at)'
  <2>1. ~Late => UnderWay(a, "read")
    BY <1>1, <1>4, BusyFacts
  <2>. QED
    BY <1>6, <2>1 DEF UnderWay
<1>9. Rf' \in [device : {"RCLOSED", "open"}, rmutex : {p}, packet : AnyPackets]
  BY <1>1, BusyFacts
<1>10. inq' \in Seq(AnyPackets) /\ req' \subseteq AnyPackets /\ rep' \subseteq AnyPackets
  BY <1>1, BusyFacts
<1>. QED
  BY <1>1, <1>4, <1>6, <1>7, <1>8, <1>9, <1>10, BusyStep

(* A read that times out. *)
LEMMA TimeoutStep ==
  ASSUME RfInv, NEW p \in Procs, Timeout(p)
  PROVE  RfInv'
<1>1. proc[p].at = "read" /\ UNCHANGED <<inq, req, rep, files>>
  BY DEF Timeout
<1>2. CASE /\ proc' = [proc EXCEPT ![p].trys = @ + 1, ![p].at = "send"]
           /\ UNCHANGED <<rftab, Rf>>
  BY <1>1, <1>2, RetryStep
<1>3. CASE /\ Leave(p, FALSE, Pos(p))
           /\ Rf' = [Rf EXCEPT !.rmutex = NONE, !.packet = NoPacket]
  BY <1>1, <1>3, LastTryStep
<1>. QED
  BY <1>2, <1>3 DEF Timeout

(* The first datagram is taken as the answer. *)
LEMMA ReadStep ==
  ASSUME RfInv, NEW p \in Procs, Read(p)
  PROVE  RfInv'
<1>1. proc[p].at = "read" /\ proc[p].at \in Busy /\ "reply" \in Busy /\ inq # <<>>
  BY DEF Read, Busy
<1>2. PICK a, d : a = Ask(proc[p], rftab) /\ d = [proc[p] EXCEPT !.at = "reply"]
  OBVIOUS
<1>3. proc[p] \in Places /\ proc \in [Procs -> Places]
  BY PlaceFacts
<1>4. /\ d \in Places /\ d.at = "reply" /\ d.slot = proc[p].slot /\ d.op = proc[p].op
      /\ d.arg = proc[p].arg /\ d.name = proc[p].name
  BY <1>1, <1>2, <1>3, PlaceIn
<1>5. proc' = [proc EXCEPT ![p] = d]
  BY <1>2, <1>3 DEF Read
<1>6. /\ Rf' = [Rf EXCEPT !.packet = Head(inq)] /\ inq' = Tail(inq)
      /\ UNCHANGED <<rftab, req, rep, files>>
  BY DEF Read
<1>7. /\ inq \in Seq(AnyPackets) /\ inq' \in Seq(AnyPackets) /\ Head(inq) \in AnyPackets
      /\ Head(inq) = inq[1] /\ Len(inq) \in Nat /\ Len(inq) > 0 /\ Len(inq') = Len(inq) - 1
      /\ \A i \in 1..Len(inq') : inq'[i] = inq[i + 1]
  BY <1>1, <1>6, BusyFacts
<1>8. Rf'.packet = inq[1] /\ Rf' \in [device : {"RCLOSED", "open"}, rmutex : {p}, packet : AnyPackets]
  BY <1>1, <1>6, <1>7, BusyFacts
<1>9. ~Late => UnderWay(a, d.at)'
  <2>1. SUFFICES ASSUME ~Late
                 PROVE  UnderWay(a, d.at)'
    OBVIOUS
  <2>2. UnderWay(a, "read")
    BY <1>1, <1>2, <2>1, BusyFacts
  <2>3. \A i \in 1..Len(inq) : GoodAnswer(inq[i], a, files)
    BY <2>2 DEF UnderWay
  <2>4. GoodAnswer(inq[1], a, files)
    BY <1>7, <2>3
  <2>5. \A i \in 1..Len(inq') : GoodAnswer(inq'[i], a, files)
    BY <1>7, <2>3
  <2>6. /\ \A m \in req : m = a
        /\ \A r \in rep : GoodAnswer(r, a, files)
    BY <2>2 DEF UnderWay
  <2>. QED
    BY <1>4, <1>6, <1>8, <2>4, <2>5, <2>6 DEF UnderWay
<1>10. req' \subseteq AnyPackets /\ rep' \subseteq AnyPackets
  BY <1>1, <1>6, BusyFacts
<1>. QED
  BY <1>1, <1>2, <1>4, <1>5, <1>6, <1>7, <1>8, <1>9, <1>10, BusyStep

(* The one that gets Rf.rmutex starts with nothing under way. *)
LEMMA PacketLockStep ==
  ASSUME RfInv, NEW p \in Procs, PacketLock(p)
  PROVE  RfInv'
<1>1. proc[p].at = "rmutex" /\ Rf.rmutex = NONE /\ "send" \in Busy
  BY DEF PacketLock, Busy
<1>2. PICK a, d : a = Ask(proc[p], rftab) /\ d = [proc[p] EXCEPT !.at = "send"]
  OBVIOUS
<1>3. proc[p] \in Places /\ proc \in [Procs -> Places]
  BY PlaceFacts
<1>4. /\ d \in Places /\ d.at = "send" /\ d.slot = proc[p].slot /\ d.op = proc[p].op
      /\ d.arg = proc[p].arg /\ d.name = proc[p].name
  BY <1>1, <1>2, <1>3, PlaceIn
<1>5. proc' = [proc EXCEPT ![p] = d]
  BY <1>2, <1>3 DEF PacketLock
<1>6. /\ Rf' = [device |-> "open", rmutex |-> p, packet |-> a] /\ inq' = <<>>
      /\ UNCHANGED <<rftab, files>>
      /\ IF Late THEN UNCHANGED <<req, rep>> ELSE req' = {} /\ rep' = {}
  BY <1>2, RfmkpacAsks DEF PacketLock
<1>7. RfTypes
  BY DEF RfInv, RfBase
<1>8. a \in AnyPackets
  BY <1>1, <1>2, AskOfBusy
<1>9. Rf' \in [device : {"RCLOSED", "open"}, rmutex : {p}, packet : AnyPackets]
  BY <1>6, <1>8
<1>10. <<>> \in Seq(AnyPackets)
  OBVIOUS
<1>11. inq' \in Seq(AnyPackets) /\ req' \subseteq AnyPackets /\ rep' \subseteq AnyPackets
  BY <1>6, <1>7, <1>10 DEF RfTypes
<1>12. ~Late => UnderWay(a, d.at)'
  BY <1>4, <1>6 DEF UnderWay
<1>. QED
  BY <1>1, <1>2, <1>4, <1>5, <1>6, <1>9, <1>11, <1>12, BusyStep

(* What is at a position of the data that is put there, and that it is data. *)
LEMMA PutIs ==
  ASSUME NEW d \in Seq(Words), NEW pos \in Nat, NEW v \in Words
  PROVE  /\ Put(d, pos, v) \in Seq(Words) /\ pos < Len(Put(d, pos, v))
         /\ Put(d, pos, v)[pos + 1] = v
<1>1. PICK k : k = IF pos + 1 > Len(d) THEN pos + 1 ELSE Len(d)
  OBVIOUS
<1>2. k \in Nat /\ pos + 1 <= k
  BY <1>1
<1>3. PICK e : e = [i \in 1..k |-> IF i = pos + 1 \/ i > Len(d) THEN v ELSE d[i]]
  OBVIOUS
<1>4. Put(d, pos, v) = e
  BY <1>1, <1>3 DEF Put
<1>5. ASSUME NEW i \in 1..k
      PROVE  e[i] \in Words
  BY <1>2, <1>3, <1>5
<1>6. e = [i \in 1..k |-> e[i]]
  BY <1>3
<1>7. e \in Seq(Words) /\ Len(e) = k
  BY <1>2, <1>5, <1>6
<1>8. e[pos + 1] = v
  BY <1>2, <1>3
<1>. QED
  BY <1>2, <1>4, <1>7, <1>8

(* What the server did for a request: the files are files, the answer is a  *)
(* packet and a true one, and earlier answers to the same request are true  *)
(* still.                                                                   *)
DoneWell(m, fs, r) ==
    /\ fs \in [Names -> Files] /\ r \in AnyPackets /\ GoodAnswer(r, m, fs)
    /\ \A r0 \in AnyPackets : GoodAnswer(r0, m, files) => GoodAnswer(r0, m, fs)

(* An operation that is neither a read nor a write is answered with itself. *)
LEMMA OtherDone ==
  ASSUME NEW m \in AnyPackets, m.f_op \notin {"read", "write"}, NEW fs \in [Names -> Files]
  PROVE  DoneWell(m, fs, m)
BY DEF DoneWell, GoodAnswer

(* A request that is refused, or that is for no file, changes nothing.     *)
LEMMA ErrorDone ==
  ASSUME NEW m \in AnyPackets, files \in [Names -> Files]
  PROVE  DoneWell(m, files, [m EXCEPT !.f_op = "ERROR"])
<1>1. [m EXCEPT !.f_op = "ERROR"] \in AnyPackets /\ [m EXCEPT !.f_op = "ERROR"].f_op = "ERROR"
  BY DEF AnyPackets
<1>. QED
  BY <1>1 DEF DoneWell, GoodAnswer

(* A read is answered with what the file has at its position.              *)
LEMMA ReadDone ==
  ASSUME NEW m \in AnyPackets, m.f_op = "read", files \in [Names -> Files], NEW r, NEW data,
         data = files[m.f_name].data,
         r = IF m.f_pos < Len(data)
             THEN [m EXCEPT !.f_pos = @ + 1, !.data = data[m.f_pos + 1]]
             ELSE m
  PROVE  DoneWell(m, files, r)
<1>1. m.f_pos \in Nat /\ m.f_name \in Names
  BY DEF AnyPackets
<1>2. data \in Seq(Words)
  BY <1>1 DEF Files
<1>3. CASE m.f_pos < Len(data)
  <2>1. PICK k \in Nat : k = m.f_pos + 1
    BY <1>1
  <2>2. k \in 1..Len(data)
    BY <1>1, <1>2, <1>3, <2>1
  <2>3. PICK w \in Words : w = data[k]
    BY <1>2, <2>2
  <2>4. r = [[m EXCEPT !.f_pos = k] EXCEPT !.data = w]
    BY <1>3, <2>1, <2>3
  <2>5. /\ r \in AnyPackets /\ r.f_op = "read" /\ r.f_name = m.f_name /\ r.f_pos = k /\ r.data = w
    BY <2>4 DEF AnyPackets
  <2>6. GoodAnswer(r, m, files)
    BY <1>3, <2>1, <2>3, <2>5 DEF GoodAnswer
  <2>. QED
    BY <2>5, <2>6 DEF DoneWell
<1>4. CASE ~(m.f_pos < Len(data))
  <2>1. r = m
    BY <1>4
  <2>2. GoodAnswer(m, m, files)
    BY <1>4 DEF GoodAnswer
  <2>. QED
    BY <2>1, <2>2 DEF DoneWell
<1>. QED
  BY <1>3, <1>4

(* A write, also when it is done again, leaves its data at its position.   *)
LEMMA WriteDone ==
  ASSUME NEW m \in AnyPackets, m.f_op = "write", files \in [Names -> Files], NEW r, NEW fs,
         fs = [files EXCEPT ![m.f_name].data = Put(@, m.f_pos, m.data)],
         r = [m EXCEPT !.f_pos = @ + 1]
  PROVE  DoneWell(m, fs, r)
<1>1. m.f_pos \in Nat /\ m.f_name \in Names /\ m.data \in Words
  BY DEF AnyPackets
<1>2. files[m.f_name] \in Files /\ files[m.f_name].data \in Seq(Words)
  BY <1>1 DEF Files
<1>3. PICK data : data = Put(files[m.f_name].data, m.f_pos, m.data)
  OBVIOUS
<1>4. data \in Seq(Words) /\ m.f_pos < Len(data) /\ data[m.f_pos + 1] = m.data
  BY <1>1, <1>2, <1>3, PutIs
<1>5. PICK f : f = [files[m.f_name] EXCEPT !.data = data]
  OBVIOUS
<1>6. f \in Files /\ f.data = data
  BY <1>2, <1>4, <1>5 DEF Files
<1>7. fs \in [Names -> Files] /\ fs[m.f_name].data = data
  <2>1. fs = [files EXCEPT ![m.f_name] = f]
    BY <1>1, <1>3, <1>5
  <2>. QED
    BY <1>1, <1>6, <2>1
<1>8. r \in AnyPackets /\ r.f_op = "write" /\ r.f_name = m.f_name /\ r.f_pos = m.f_pos + 1
  <2>1. PICK k \in Nat : k = m.f_pos + 1
    BY <1>1
  <2>2. r = [m EXCEPT !.f_pos = k]
    BY <2>1
  <2>. QED
    BY <2>1, <2>2 DEF AnyPackets
<1>9. ASSUME NEW r0 \in AnyPackets, GoodAnswer(r0, m, files)
      PROVE  GoodAnswer(r0, m, fs)
  BY <1>4, <1>7, <1>9 DEF GoodAnswer
<1>10. GoodAnswer(r, m, fs)
  BY <1>4, <1>7, <1>8 DEF GoodAnswer
<1>. QED
  BY <1>7, <1>8, <1>9, <1>10 DEF DoneWell

(* Whatever the request, it is done well.                                  *)
LEMMA DoesWell ==
  ASSUME NEW m \in AnyPackets, files \in [Names -> Files]
  PROVE  DoneWell(m, Does(m).files, Does(m).reply)
<1>1. PICK f : f = files[m.f_name]
  OBVIOUS
<1>2. m.f_name \in Names /\ f \in Files
  BY <1>1 DEF AnyPackets
<1>3. PICK nofile : nofile = [there |-> FALSE, data |-> <<>>]
  OBVIOUS
<1>4. nofile \in Files
  <2>1. <<>> \in Seq(Words)
    OBVIOUS
  <2>. QED
    BY <1>3, <2>1 DEF Files
<1>5. CASE m.f_op = "open"
  <2>1. PICK fs : fs = [files EXCEPT ![m.f_name].there = TRUE]
    OBVIOUS
  <2>2. Does(m).files = fs /\ Does(m).reply = m
    BY <1>5, <2>1 DEF Does
  <2>3. fs \in [Names -> Files]
    <3>1. PICK g : g = [f EXCEPT !.there = TRUE]
      OBVIOUS
    <3>2. g \in Files
      BY <1>2, <3>1 DEF Files
    <3>3. fs = [files EXCEPT ![m.f_name] = g]
      BY <1>1, <1>2, <2>1, <3>1
    <3>. QED
      BY <3>2, <3>3
  <2>. QED
    BY <1>5, <2>2, <2>3, OtherDone
<1>6. CASE m.f_op # "open" /\ ~f.there
  <2>1. Does(m).files = files /\ Does(m).reply = [m EXCEPT !.f_op = "ERROR"]
    BY <1>1, <1>6 DEF Does
  <2>. QED
    BY <2>1, ErrorDone
<1>7. CASE m.f_op = "read" /\ f.there
  <2>1. PICK r, data : /\ data = files[m.f_name].data
                       /\ r = IF m.f_pos < Len(data)
                              THEN [m EXCEPT !.f_pos = @ + 1, !.data = data[m.f_pos + 1]]
                              ELSE m
    OBVIOUS
  <2>2. Does(m).files = files /\ Does(m).reply = r
    BY <1>1, <1>7, <2>1 DEF Does
  <2>. QED
    BY <1>7, <2>1, <2>2, ReadDone
<1>8. CASE m.f_op = "write" /\ f.there
  <2>1. PICK fs, r : /\ fs = [files EXCEPT ![m.f_name].data = Put(@, m.f_pos, m.data)]
                     /\ r = [m EXCEPT !.f_pos = @ + 1]
    OBVIOUS
  <2>2. Does(m).files = fs /\ Does(m).reply = r
    BY <1>1, <1>8, <2>1 DEF Does
  <2>. QED
    BY <1>8, <2>1, <2>2, WriteDone
<1>9. CASE m.f_op = "unlink" /\ f.there
  <2>1. PICK fs : fs = [files EXCEPT ![m.f_name] = nofile]
    OBVIOUS
  <2>2. Does(m).files = fs /\ Does(m).reply = m
    BY <1>1, <1>3, <1>9, <2>1 DEF Does
  <2>3. fs \in [Names -> Files]
    BY <1>4, <2>1
  <2>. QED
    BY <1>9, <2>2, <2>3, OtherDone
<1>10. CASE m.f_op = "rename" /\ f.there
  <2>1. PICK fs : fs = [files EXCEPT ![m.data] = f, ![m.f_name] = nofile]
    OBVIOUS
  <2>2. Does(m).files = fs /\ Does(m).reply = m
    BY <1>1, <1>3, <1>10, <2>1 DEF Does
  <2>3. fs \in [Names -> Files]
    BY <1>2, <1>4, <2>1
  <2>. QED
    BY <1>10, <2>2, <2>3, OtherDone
<1>11. CASE f.there /\ m.f_op \notin {"open", "read", "write", "unlink", "rename"}
  <2>1. Does(m).files = files /\ Does(m).reply = m
    BY <1>1, <1>11 DEF Does
  <2>. QED
    BY <1>11, <2>1, OtherDone
<1>. QED
  BY <1>5, <1>6, <1>7, <1>8, <1>9, <1>10, <1>11

(* The network and the server change no process and no device. *)
LEMMA NetworkStep ==
  ASSUME RfInv, UNCHANGED <<rftab, Rf, proc>>, files' \in [Names -> Files],
         inq' \in Seq(AnyPackets), req' \subseteq AnyPackets, rep' \subseteq AnyPackets,
         ASSUME ~Late, NEW p \in Procs, NEW a \in AnyPackets, NEW at \in Busy, UnderWay(a, at)
         PROVE  UnderWay(a, at)'
  PROVE  RfInv'
<1>1. RfBase'
  BY DEF RfInv, RfBase, RfTypes, Owned
<1>2. ASSUME ~Late, NEW p \in Procs, proc[p].at \in Busy
      PROVE  UnderWay(Ask(proc[p], rftab), proc[p].at)'
  <2>1. PICK a, at : a = Ask(proc[p], rftab) /\ at = proc[p].at
    OBVIOUS
  <2>2. a \in AnyPackets /\ UnderWay(a, at) /\ at \in Busy
    BY <1>2, <2>1, AskOfBusy, BusyFacts DEF Busy
  <2>3. UnderWay(a, at)'
    BY <1>2, <2>2
  <2>4. proc' = proc /\ rftab' = rftab
    OBVIOUS
  <2>. QED
    BY <2>1, <2>3, <2>4
<1>3. proc' = proc
  OBVIOUS
<1>. QED
  BY <1>1, <1>2, <1>3 DEF RfInv

(* A request is served, once more perhaps, or an open is refused.           *)
LEMMA ServeStep ==
  ASSUME RfInv, Serve
  PROVE  RfInv'
<1>1. RfTypes
  BY DEF RfInv, RfBase
<1>2. PICK m \in req, refused \in BOOLEAN :
        LET a == IF refused THEN [files |-> files, reply |-> [m EXCEPT !.f_op = "ERROR"]] ELSE Does(m)
        IN  /\ files' = a.files /\ rep' = rep \cup {a.reply} /\ req' = req \ {m}
            /\ UNCHANGED <<rftab, Rf, proc, inq, use>>
  BY DEF Serve
<1>3. m \in AnyPackets /\ files \in [Names -> Files]
  BY <1>1 DEF RfTypes
<1>4. \E fs, r : DoneWell(m, fs, r) /\ files' = fs /\ rep' = rep \cup {r}
  <2>1. CASE refused
    <3>1. files' = files /\ rep' = rep \cup {[m EXCEPT !.f_op = "ERROR"]}
      BY <1>2, <2>1
    <3>. QED
      BY <1>3, <3>1, ErrorDone
  <2>2. CASE ~refused
    <3>1. files' = Does(m).files /\ rep' = rep \cup {Does(m).reply}
      BY <1>2, <2>2
    <3>. QED
      BY <1>3, <3>1, DoesWell
  <2>. QED
    BY <2>1, <2>2
<1>5. PICK fs, r : DoneWell(m, fs, r) /\ files' = fs /\ rep' = rep \cup {r}
  BY <1>4
<1>6. /\ fs \in [Names -> Files] /\ r \in AnyPackets /\ GoodAnswer(r, m, fs)
      /\ \A r0 \in AnyPackets : GoodAnswer(r0, m, files) => GoodAnswer(r0, m, fs)
  BY <1>5 DEF DoneWell
<1>7. UNCHANGED <<rftab, Rf, proc, inq>> /\ req' = req \ {m}
  BY <1>2
<1>8. /\ files' \in [Names -> Files] /\ inq' \in Seq(AnyPackets) /\ req' \subseteq AnyPackets
      /\ rep' \subseteq AnyPackets
  BY <1>1, <1>5, <1>6, <1>7 DEF RfTypes
<1>9. ASSUME NEW a \in AnyPackets, NEW at \in Busy, UnderWay(a, at)
      PROVE  UnderWay(a, at)'
  <2>1. m = a
    BY <1>9 DEF UnderWay
  <2>2. Rf.packet \in AnyPackets /\ rep \subseteq AnyPackets /\ inq \in Seq(AnyPackets)
    BY <1>1 DEF RfTypes
  <2>3. \A x \in rep' : GoodAnswer(x, a, fs)
    BY <1>5, <1>6, <1>9, <2>1, <2>2 DEF UnderWay
  <2>4. \A i \in 1..Len(inq) : GoodAnswer(inq[i], a, fs)
    <3>1. SUFFICES ASSUME NEW i \in 1..Len(inq)
                   PROVE  GoodAnswer(inq[i], a, fs)
      OBVIOUS
    <3>2. inq[i] \in AnyPackets /\ GoodAnswer(inq[i], a, files)
      BY <1>9, <2>2 DEF UnderWay
    <3>. QED
      BY <1>6, <2>1, <3>2
  <2>5. at = "reply" => GoodAnswer(Rf.packet, a, fs)
    BY <1>6, <1>9, <2>1, <2>2 DEF UnderWay
  <2>6. /\ \A x \in req' : x = a
        /\ at \in {"send", "read"} => Rf.packet = a
    BY <1>7, <1>9 DEF UnderWay
  <2>. QED
    BY <1>5, <1>7, <2>3, <2>4, <2>5, <2>6 DEF UnderWay
<1>. QED
  BY <1>7, <1>8, <1>9, NetworkStep

(* A reply is queued at Rf.device. *)
LEMMA DeliverStep ==
  ASSUME RfInv, Deliver
  PROVE  RfInv'
<1>1. RfTypes
  BY DEF RfInv, RfBase
<1>2. PICK r \in rep : inq' = Append(inq, r) /\ rep' = rep \ {r}
  BY DEF Deliver
<1>3. UNCHANGED <<rftab, Rf, proc, req, files>>
  BY DEF Deliver
<1>4. /\ inq \in Seq(AnyPackets) /\ r \in AnyPackets /\ inq' \in Seq(AnyPackets)
      /\ Len(inq) \in Nat /\ Len(inq') = Len(inq) + 1 /\ inq'[Len(inq) + 1] = r
      /\ \A i \in 1..Len(inq) : inq'[i] = inq[i]
  BY <1>1, <1>2 DEF RfTypes
<1>5. files' \in [Names -> Files] /\ req' \subseteq AnyPackets /\ rep' \subseteq AnyPackets
  BY <1>1, <1>2, <1>3 DEF RfTypes
<1>6. ASSUME NEW a \in AnyPackets, NEW at \in Busy, UnderWay(a, at)
      PROVE  UnderWay(a, at)'
  <2>1. GoodAnswer(r, a, files) /\ \A i \in 1..Len(inq) : GoodAnswer(inq[i], a, files)
    BY <1>6 DEF UnderWay
  <2>2. \A i \in 1..Len(inq') : GoodAnswer(inq'[i], a, files)
    <3>1. SUFFICES ASSUME NEW i \in 1..Len(inq')
                   PROVE  GoodAnswer(inq'[i], a, files)
      OBVIOUS
    <3>2. i \in 1..Len(inq) \/ i = Len(inq) + 1
      BY <1>4, <3>1
    <3>. QED
      BY <1>4, <2>1, <3>2
  <2>. QED
    BY <1>2, <1>3, <1>6, <2>2 DEF UnderWay
<1>. QED
  BY <1>3, <1>4, <1>5, <1>6, NetworkStep

(* The invariant holds to begin with. *)
LEMMA RfInit ==
  ASSUME Init
  PROVE  RfInv
<1>1. NONE \notin Procs
  BY RfAssumption DEF NONE
<1>2. \A p \in Procs : proc[p] = Idle
  BY DEF Init
<1>3. RfTypes
  <2>1. rftab \in [Slots -> Entries]
    BY IdleType DEF Init, Entries
  <2>2. Rf \in [device : {"RCLOSED", "open"}, rmutex : Procs \cup {NONE}, packet : AnyPackets]
    BY IdleType DEF Init
  <2>3. proc \in [Procs -> Places]
    BY IdleType DEF Init
  <2>4. <<>> \in Seq(AnyPackets) /\ <<>> \in Seq(Words)
    OBVIOUS
  <2>5. files \in [Names -> Files]
    BY <2>4 DEF Init, Files
  <2>. QED
    BY <2>1, <2>2, <2>3, <2>4, <2>5 DEF Init, RfTypes
<1>4. Owned(rftab, proc)
  BY <1>2, IdleType DEF Owned
<1>5. \A p \in Procs : InCall(p, proc[p])
  BY <1>2, IdleType DEF InCall
<1>6. \A p \in Procs : proc[p].at \notin Busy
  BY <1>2, IdleType DEF Busy
<1>7. \A p \in Procs : Rf.rmutex # p
  BY <1>1 DEF Init
<1>. QED
  BY <1>3, <1>4, <1>5, <1>6, <1>7 DEF RfInv, RfBase

(* A call begins. *)
LEMMA CallsStep ==
  ASSUME RfInv, NEW p \in Procs, Calls(p)
  PROVE  RfInv'
<1>1. ASSUME NEW n \in Names \cap use, Rfopen(p, n)
      PROVE  RfInv'
  BY <1>1, RfopenStep
<1>2. p \in Words /\ NONE \in Words /\ Names \subseteq Words
  BY DEF Words
<1>3. ASSUME Rfclose(p)
      PROVE  RfInv'
  BY <1>2, <1>3, StartStep DEF Rfclose
<1>4. ASSUME NEW n \in 0..1, Rfread(p, n)
      PROVE  RfInv'
  <2>1. Start(p, "read", NONE, n) /\ n \in Int
    BY <1>4 DEF Rfread
  <2>. QED
    BY <1>2, <2>1, StartStep
<1>5. ASSUME NEW n \in 1..MaxPos, Rfwrite(p, n)
      PROVE  RfInv'
  <2>1. Start(p, "write", p, n) /\ n \in Int
    BY <1>5, RfAssumption DEF Rfwrite
  <2>. QED
    BY <1>2, <2>1, StartStep
<1>6. ASSUME NEW pos \in 0..MaxPos, Rfseek(p, pos)
      PROVE  RfInv'
  BY <1>6, RfseekStep, RfAssumption
<1>7. ASSUME NEW op \in {"access", "unlink"}, NEW n \in Names, Rfcntl(p, op, n, NONE)
      PROVE  RfInv'
  BY <1>2, <1>7, RfcntlStep
<1>8. ASSUME NEW n \in Names, NEW to \in Names, Rfcntl(p, "rename", n, to)
      PROVE  RfInv'
  BY <1>2, <1>8, RfcntlStep
<1>9. ASSUME Rfclear(p)
      PROVE  RfInv'
  BY <1>9, RfclearStep
<1>. QED
  BY <1>1, <1>3, <1>4, <1>5, <1>6, <1>7, <1>8, <1>9 DEF Calls

(* Every step keeps the invariant. *)
LEMMA RfNext ==
  ASSUME RfInv, [Next]_vars
  PROVE  RfInv'
<1>1. ASSUME NEW p \in Procs, Steps(p)
      PROVE  RfInv'
  BY <1>1, FileLockStep, BadLengthStep, PacketLockStep, TooLongStep, SendStep, SendFailsStep, ReadStep,
     TimeoutStep, ReplyStep, OpenFailedStep DEF Steps
<1>2. CASE UNCHANGED vars
  BY <1>2 DEF vars, RfInv, RfBase, RfTypes, Owned, UnderWay
<1>. QED
  BY <1>1, <1>2, CallsStep, ServeStep, DeliverStep DEF Next, Network

(* The invariant of the remote file system, with or without late messages.  *)
THEOREM RemoteInvariant == Spec => []RfInv
<1>1. Init => RfInv
  BY RfInit
<1>2. RfInv /\ [Next]_vars => RfInv'
  BY RfNext
<1>. QED
  BY <1>1, <1>2, PTL DEF Spec

(* An open file is its opener's, whatever arrives and when. *)
THEOREM RemoteOwnDevice == Spec => []OwnDevice
<1>1. RfInv => OwnDevice
  BY DEF RfInv, RfBase, Owned, OwnDevice
<1>. QED
  BY <1>1, RemoteInvariant, PTL

(* When no message outlives its call, the answer that a call is about to    *)
(* use is to its own request, and still true.                               *)
THEOREM RemoteAnswersCurrent ==
  ASSUME ~Late
  PROVE  Spec => []AnswersCurrent
<1>1. RfInv => AnswersCurrent
  <2>1. SUFFICES ASSUME RfInv, NEW p \in Procs, proc[p].at = "reply", Rf.packet.f_op # "ERROR"
                 PROVE  LET m == Rf.packet
                            ask == Rfmkpac(p)
                            has(pos) == pos < Len(files[m.f_name].data)
                        IN  /\ m.f_op = ask.f_op /\ m.f_name = ask.f_name
                            /\ m.f_op = "read" =>
                                  IF has(ask.f_pos)
                                  THEN m.data = files[m.f_name].data[ask.f_pos + 1] /\ m.f_pos = ask.f_pos + 1
                                  ELSE m.f_pos = ask.f_pos
                            /\ m.f_op = "write" =>
                                  /\ has(ask.f_pos) /\ files[m.f_name].data[ask.f_pos + 1] = p
                                  /\ m.f_pos = ask.f_pos + 1
    BY DEF AnswersCurrent
  <2>2. PICK a : a = Rfmkpac(p)
    OBVIOUS
  <2>3. a = Ask(proc[p], rftab) /\ proc[p].at \in Busy
    BY <2>1, <2>2, RfmkpacAsks DEF Busy
  <2>4. UnderWay(a, "reply")
    BY <2>1, <2>3, BusyFacts
  <2>5. GoodAnswer(Rf.packet, a, files)
    BY <2>4 DEF UnderWay
  <2>6. a.f_op = "write" => a.data = p
    BY <2>1, <2>3, PlaceFacts DEF InCall, Ask
  <2>. QED
    BY <2>1, <2>2, <2>5, <2>6 DEF GoodAnswer
<1>. QED
  BY <1>1, RemoteInvariant, PTL
=============================================================================
